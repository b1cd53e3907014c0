-------------------------- MODULE NatTraversalProofs --------------------------
(***************************************************************************)
(* For any nodes, NATs, losses and copies: a message is handled once, for  *)
(* what the handler of a node got is what its replay guard has seen; the   *)
(* network, the buses and the join sequences are typed, which needs that a *)
(* datagram comes from where its signer is and says of others where they   *)
(* are; and a punch takes both sides, or goes by the relay.                *)
(***************************************************************************)
EXTENDS NatTraversal, FiniteSetTheorems, WellFoundedInduction, TLAPS

BusFields == {"addrs", "relays", "only", "seen"}

SeenInv ==
    /\ DOMAIN bus = Nodes /\ DOMAIN handled = Nodes
    /\ \A n \in Nodes : DOMAIN bus[n] = BusFields /\ handled[n] \subseteq bus[n].seen
    /\ ~ twice

LEMMA SeenInit == Init => SeenInv
<1> SUFFICES ASSUME Init PROVE SeenInv
  OBVIOUS
<1>1. ASSUME NEW n \in Nodes PROVE DOMAIN bus[n] = BusFields /\ handled[n] \subseteq bus[n].seen
  BY DEF Init, BusFields
<1> QED BY <1>1 DEF Init, SeenInv

(* A bus that handles a datagram has seen it, and all it saw before.       *)
LEMMA AfterHasSeen ==
    ASSUME NEW n \in Nodes, NEW d, DOMAIN bus[n] = BusFields
    PROVE  /\ DOMAIN After(n, d) = BusFields /\ DOMAIN OnDatagram(n, d) = BusFields
           /\ bus[n].seen \subseteq OnDatagram(n, d).seen
           /\ bus[n].seen \cup {Nonce(Inner(d))} \subseteq After(n, d).seen
<1> DEFINE b == OnDatagram(n, d)
<1>1. /\ DOMAIN b = BusFields /\ b.seen = bus[n].seen \cup {Nonce(d.env)}
  BY DEF OnDatagram, Recorded, BusFields
<1> HIDE DEF b
<1>2. CASE d.env.body.kind = "relayed"
  <2> DEFINE c == Recorded(b, d.env.body.blob)
  <2>1. DOMAIN c = BusFields /\ c.seen = b.seen \cup {Nonce(d.env.body.blob)}
    BY <1>1 DEF Recorded, BusFields
  <2> HIDE DEF c
  <2>2. DOMAIN ReceiveRelayed(n, d) = BusFields /\ ReceiveRelayed(n, d).seen = c.seen
    <3>1. \/ ReceiveRelayed(n, d) = c
          \/ \E relays, only : ReceiveRelayed(n, d) = [c EXCEPT !.relays = relays, !.only = only]
      BY DEF ReceiveRelayed, c, b
    <3> QED BY <3>1, <2>1 DEF BusFields
  <2> QED BY <1>1, <1>2, <2>1, <2>2 DEF After, Inner, b
<1>3. CASE d.env.body.kind # "relayed"
  BY <1>1, <1>3 DEF After, Inner, b
<1> QED BY <1>1, <1>2, <1>3 DEF b

(* Handling a datagram whose nonce the guard has not seen.                 *)
LEMMA SeenAnswer ==
    ASSUME SeenInv, NEW n \in Nodes, NEW d, NEW b, NEW messages, Answer(n, d, b, messages),
           DOMAIN b = BusFields, After(n, d).seen \subseteq b.seen
    PROVE  SeenInv'
<1>1. PICK taken \in {{}, {d}} : Delivers(n, d, taken)
  BY DEF Answer
<1>2. bus' = [bus EXCEPT ![n] = b]
  BY DEF Answer
<1>3. /\ Nonce(Inner(d)) \notin bus[n].seen
      /\ handled' = [handled EXCEPT ![n] = @ \cup {Nonce(Inner(d))}]
      /\ twice' = (twice \/ Nonce(Inner(d)) \in handled[n])
  BY <1>1 DEF Delivers, Unseen
<1>4. bus[n].seen \cup {Nonce(Inner(d))} \subseteq After(n, d).seen
  BY AfterHasSeen DEF SeenInv
<1>5. ~ twice'
  BY <1>3 DEF SeenInv
<1>6. ASSUME NEW m \in Nodes PROVE DOMAIN bus'[m] = BusFields /\ handled'[m] \subseteq bus'[m].seen
  BY <1>2, <1>3, <1>4 DEF SeenInv
<1> QED BY <1>2, <1>3, <1>5, <1>6 DEF SeenInv

LEMMA SeenReceive ==
    ASSUME SeenInv, NEW n \in Nodes, NEW d \in Inbox(n), Receive(n, d)
    PROVE  SeenInv'
<1>0. DOMAIN After(n, d) = BusFields
  BY AfterHasSeen DEF SeenInv
<1>1. \A p, addr : /\ DOMAIN Punched(After(n, d), p, addr) = BusFields
                   /\ Punched(After(n, d), p, addr).seen = After(n, d).seen
  BY <1>0 DEF Punched, BusFields
<1>2. \E b, messages : Answer(n, d, b, messages) /\ \/ b = After(n, d)
                                                    \/ \E p, addr : b = Punched(After(n, d), p, addr)
  BY DEF Receive, OnWhoami, OnWhoamiResp, OnConnectReq, OnPunchOrder, OnPunch, OnPunchAck, OnGossip
<1> QED BY <1>0, <1>1, <1>2, SeenAnswer

(* What handles nothing forgets nothing.                                   *)
LEMMA SeenElsewhere ==
    ASSUME SeenInv, handled' = handled, twice' = twice, DOMAIN bus' = Nodes,
           \A n \in Nodes : DOMAIN bus'[n] = BusFields /\ bus[n].seen \subseteq bus'[n].seen
    PROVE  SeenInv'
BY DEF SeenInv

LEMMA SeenNext ==
    ASSUME SeenInv, [Next]_vars
    PROVE  SeenInv'
<1>1. ASSUME NEW n \in Natted, Join(n) PROVE SeenInv'
  <2>1. CASE PauseEnds(n)
    <3>1. handled' = handled /\ twice' = twice
      BY <2>1 DEF PauseEnds
    <3>2. \/ bus' = bus
          \/ bus' = [bus EXCEPT ![n].only = @ \cup {Peer(n)}]
      BY <2>1 DEF PauseEnds
    <3> QED BY <3>1, <3>2, SeenElsewhere DEF SeenInv, BusFields
  <2>2. CASE ~ PauseEnds(n)
    <3>1. UNCHANGED << bus, handled, twice >>
      BY <1>1, <2>2 DEF Join, AskReflexive, ReflexiveEnds, AlreadyPunched, RequestPunch, PunchSucceeds, PunchTimesOut,
                        SendNew, transportVars
    <3> QED BY <3>1 DEF SeenInv
  <2> QED BY <2>1, <2>2
<1>2. ASSUME NEW n \in Natted, NEW p \in Nodes, Gossip(n, p) PROVE SeenInv'
  <2>1. UNCHANGED << bus, handled, twice >>
    BY <1>2 DEF Gossip, SendNew
  <2> QED BY <2>1 DEF SeenInv
<1>3. ASSUME NEW n \in Nodes, NEW d \in Inbox(n), ForwardRelay(n, d) PROVE SeenInv'
  <2>1. bus' = [bus EXCEPT ![n] = OnDatagram(n, d)] /\ handled' = handled /\ twice' = twice
    BY <1>3 DEF ForwardRelay
  <2>2. DOMAIN OnDatagram(n, d) = BusFields /\ bus[n].seen \subseteq OnDatagram(n, d).seen
    BY AfterHasSeen DEF SeenInv
  <2> QED BY <2>1, <2>2, SeenElsewhere DEF SeenInv
<1>4. ASSUME NEW d \in wire, Drop(d) PROVE SeenInv'
  BY <1>4 DEF Drop, SeenInv
<1>5. ASSUME NEW n \in Natted, RebindNat(n) PROVE SeenInv'
  BY <1>5 DEF RebindNat, SeenInv
<1>6. CASE UNCHANGED vars
  BY <1>6 DEF vars, transportVars, SeenInv
<1> QED BY <1>1, <1>2, <1>3, <1>4, <1>5, <1>6, SeenReceive DEF Next, Internet

(* However often a datagram, the relay's wrapper or what it wraps comes,   *)
(* the handler of a node gets the message once (_on_datagram and           *)
(* _receive_relayed in udp_bus.py).                                        *)
THEOREM MessagesAreHandledOnce == Spec => []HandledOnce
<1>1. SeenInv => HandledOnce
  BY DEF SeenInv, HandledOnce
<1> QED BY <1>1, SeenInit, SeenNext, PTL DEF Spec

-----------------------------------------------------------------------------
(* Who is where, and what the messages say of it                           *)

AddressOf(sc, p) == [host : {p}, port : 0 .. sc.rebinds, for : Nodes \cup {"any"}]
KnownAs(sc, p) == AddressOf(sc, p) \cup {Nowhere}

\* What a message of `by` to `to` says of others.
BodyFits(sc, by, body, to) ==
    /\ ~ IsWrapper(body)
    /\ body.kind = "whoami_resp" => body.addr \in KnownAs(sc, to)
    /\ body.kind = "connect_req" => body.peer \in Natted \ {by}
    /\ body.kind \in {"connect_resp", "punch_req"} =>
            body.peer \in Nodes \ {to} /\ body.addr \in KnownAs(sc, body.peer)

EnvelopeFits(sc, env, to) == env.by \in Nodes \ {to} /\ BodyFits(sc, env.by, env.body, to)

\* A datagram comes from where its signer is, and goes to somebody else.
DatagramFits(sc, d) ==
    /\ d.env.by \in Nodes \ {d.dst.host} /\ d.src \in AddressOf(sc, d.env.by)
    /\ d.dst.host \in Nodes /\ d.dst \in AddressOf(sc, d.dst.host)
    /\ d.env.body.kind = "relay" =>
            /\ EnableRelay /\ d.env.body.blob.by = d.env.by
            /\ d.env.body.target \in Nodes \ {d.dst.host}
            /\ EnvelopeFits(sc, d.env.body.blob, d.env.body.target)
    /\ d.env.body.kind = "relayed" =>
            /\ EnableRelay /\ d.env.body.origin = d.env.body.blob.by
            /\ EnvelopeFits(sc, d.env.body.blob, d.dst.host)
    /\ ~ IsWrapper(d.env.body) => EnvelopeFits(sc, d.env, d.dst.host)

BusFits(sc, n, b) ==
    /\ DOMAIN b = BusFields
    /\ b.addrs = [p \in Nodes |-> b.addrs[p]] /\ \A p \in Nodes : b.addrs[p] \in KnownAs(sc, p)
    /\ b.relays \in Seq(Nodes \ {n}) /\ IsInjective(b.relays)
    /\ b.only \subseteq Nodes \ {n}

\* The join sequence is at a peer while it punches, and has attempts left
\* unless it pauses.
JoinFits(n) ==
    /\ pc[n] \in {"joined", "whoami", "punch", "punching", "pause", "running"}
    /\ next[n] \in 1 .. Len(Wanted(n)) + 1
    /\ pc[n] \in {"punch", "punching", "pause"} => next[n] \in DOMAIN Wanted(n)
    /\ pc[n] \in {"joined", "whoami"} => next[n] = 1
    /\ attempt[n] \in 0 .. scenario.attempts
    /\ pc[n] # "pause" => attempt[n] < scenario.attempts

NetInv ==
    /\ scenario \in Scenarios
    /\ port \in [Natted -> 0 .. scenario.rebinds]
    /\ holes \subseteq Addresses \X Addresses
    /\ sent \in [Nodes -> 0 .. scenario.sends]
    /\ IsFiniteSet(wire) /\ Cardinality(wire) <= InFlight
    /\ \A d \in wire : DatagramFits(scenario, d)

BusInv ==
    /\ DOMAIN bus = Nodes /\ DOMAIN listed = Nodes
    /\ \A n \in Nodes : BusFits(scenario, n, bus[n]) /\ listed[n] \in KnownAs(scenario, n)

PunchInv ==
    /\ reachable \in [Nodes -> SUBSET Nodes] /\ \A n \in Nodes : n \notin reachable[n]
    /\ reflexive \in [Natted -> Addresses]

JoinInv ==
    /\ DOMAIN pc = Natted /\ DOMAIN next = Natted /\ DOMAIN attempt = Natted
    /\ \A n \in Natted : JoinFits(n)

TypeInv == NetInv /\ BusInv /\ PunchInv /\ JoinInv

(* A scenario is of numbers, and of lists of others to reach.              *)
LEMMA ScenarioShape ==
    ASSUME NEW s \in Scenarios
    PROVE  /\ s.rebinds \in Nat /\ s.sends \in Nat /\ s.attempts \in Nat \ {0} /\ s.copies \in Nat
           /\ s.symmetric \subseteq Natted
           /\ \A n \in Natted : s.wanted[n] \in Seq(Natted \ {n})
BY TransportAssumption, NatTraversalAssumption

(* Everybody's home is an address of his.                                  *)
LEMMA HomeIsThere ==
    ASSUME NEW s \in Scenarios, NEW p
    PROVE  Home(p) \in AddressOf(s, p)
<1>1. 0 \in 0 .. s.rebinds
  BY ScenarioShape
<1> QED BY <1>1 DEF Home, AddressOf

(* What is known of a node is an address of the network.                   *)
LEMMA KnownIsAddress ==
    ASSUME scenario \in Scenarios, NEW p \in Nodes
    PROVE  AddressOf(scenario, p) \subseteq Addresses /\ KnownAs(scenario, p) \subseteq Addresses
<1>1. AddressOf(scenario, p) \subseteq Addresses
  BY DEF AddressOf, Addresses
<1> QED BY <1>1 DEF KnownAs, Addresses

(* What is known of a node is at that node, or nothing.                    *)
LEMMA KnownHost ==
    ASSUME NEW s, NEW p, NEW a \in KnownAs(s, p)
    PROVE  a.host \in {p, "none"} /\ (a # Nowhere => a \in AddressOf(s, p) /\ a.host = p)
BY DEF KnownAs, AddressOf, Nowhere

(* A message leaves the NAT by an address of its node.                     *)
LEMMA SourceFits ==
    ASSUME NetInv, NEW n \in Nodes, NEW to, to.host \in Nodes
    PROVE  Source(n, to) \in AddressOf(scenario, n)
<1>1. CASE n = Rendezvous
  BY <1>1, HomeIsThere DEF NetInv, Source
<1>2. CASE n # Rendezvous
  <2>1. port[n] \in 0 .. scenario.rebinds
    BY <1>2 DEF NetInv, Nodes
  <2> QED BY <1>2, <2>1 DEF Source, AddressOf
<1> QED BY <1>1, <1>2

(* A set of numbers has a least one.                                       *)
LEMMA LeastPlace ==
    ASSUME NEW S, S \subseteq Nat, S # {}
    PROVE  Min(S) \in S
<1>1. \E x \in S : \A y \in S : x <= y
  <2> DEFINE R == OpToRel(<, Nat)
  <2>1. IsWellFoundedOn(R, Nat)
    BY NatLessThanWellFounded
  <2>2. \A x, y \in Nat : << y, x >> \in R <=> y < x
    BY DEF OpToRel
  <2> HIDE DEF R
  <2>3. PICK x \in S : \A y \in S : ~ (<< y, x >> \in R)
    BY <2>1, WFMin
  <2>4. ASSUME NEW y \in S PROVE x <= y
    <3>1. x \in Nat /\ y \in Nat /\ ~ (y < x)
      BY <2>2, <2>3
    <3> QED BY <3>1
  <2> QED BY <2>4
<1> QED BY <1>1 DEF Min

(* A relay is another node than both ends.                                 *)
LEMMA RelayIsAnother ==
    ASSUME NEW n \in Nodes, NEW b, BusFits(scenario, n, b), NEW p, RelayTarget(b, p) # Nowhere
    PROVE  EnableRelay /\ \E r \in Nodes \ {n, p} : RelayTarget(b, p) \in AddressOf(scenario, r)
<1> DEFINE usable == {i \in DOMAIN b.relays : b.relays[i] # p /\ b.addrs[b.relays[i]] # Nowhere}
           i == Min(usable)
           r == b.relays[i]
<1>1. EnableRelay /\ usable # {} /\ RelayTarget(b, p) = b.addrs[r]
  BY DEF RelayTarget
<1>2. b.relays \in Seq(Nodes \ {n})
  BY DEF BusFits
<1>3. usable \subseteq Nat
  BY <1>2
<1>4. i \in usable
  <2> HIDE DEF usable
  <2> QED BY <1>1, <1>3, LeastPlace
<1>5. i \in DOMAIN b.relays /\ r # p /\ b.addrs[r] # Nowhere
  BY <1>4
<1> HIDE DEF i
<1>6. r \in Nodes \ {n, p}
  BY <1>2, <1>5
<1> HIDE DEF r
<1>7. b.addrs[r] \in AddressOf(scenario, r)
  BY <1>5, <1>6, KnownHost DEF BusFits
<1> QED BY <1>1, <1>6, <1>7

-----------------------------------------------------------------------------
(* Sending                                                                 *)

Sendable(datagrams) == {d \in datagrams : d.dst # Nowhere /\ d.env.nonce <= scenario.sends}

\* Datagrams n may send: no more than it has nonces for.
Proper(n, datagrams) ==
    /\ IsFiniteSet(Sendable(datagrams)) /\ Cardinality(Sendable(datagrams)) <= scenario.sends - sent[n]
    /\ \A d \in Sendable(datagrams) : DatagramFits(scenario, d)

Body(n, m) == m.to \in Nodes \ {n} /\ BodyFits(scenario, n, m.body, m.to)

(* What _transmit puts on the wire for a message of the protocol is proper.*)
LEMMA DatagramIsProper ==
    ASSUME NetInv, NEW n \in Nodes, NEW b, BusFits(scenario, n, b), NEW i \in Nat, NEW m, Body(n, m),
           Datagram(n, b, i, m).dst # Nowhere
    PROVE  DatagramFits(scenario, Datagram(n, b, i, m)) /\ Datagram(n, b, i, m).env.nonce = sent[n] + i
<1> DEFINE nonce == sent[n] + i
           inner == Envelope(n, nonce, m.body)
           relay == RelayTarget(b, m.to)
           dst   == IF relay # Nowhere THEN relay ELSE b.addrs[m.to]
           env   == IF relay # Nowhere THEN Envelope(n, nonce, Relay(m.to, inner)) ELSE inner
           src   == Source(n, dst)
           d     == Datagram(n, b, i, m)
<1>1. d = [src |-> src, dst |-> dst, env |-> env]
  BY DEF Datagram
<1>2. m.to \in Nodes \ {n} /\ EnvelopeFits(scenario, inner, m.to) /\ inner.by = n /\ inner.body = m.body
      /\ inner.nonce = nonce /\ ~ IsWrapper(inner.body)
  BY DEF Body, EnvelopeFits, Envelope, BodyFits
<1> HIDE DEF inner, nonce, d
<1>3. CASE relay # Nowhere
  <2>1. EnableRelay /\ dst = relay
    BY <1>3, RelayIsAnother
  <2>2. PICK r \in Nodes \ {n, m.to} : dst \in AddressOf(scenario, r)
    BY <1>3, RelayIsAnother
  <2>3. /\ env.by = n /\ env.nonce = nonce /\ env.body.kind = "relay" /\ env.body.blob = inner
        /\ env.body.target = m.to /\ IsWrapper(env.body)
    BY <1>3 DEF Envelope, Relay, IsWrapper
  <2> HIDE DEF env, dst
  <2>4. dst.host = r
    BY <2>2 DEF AddressOf
  <2>5. src \in AddressOf(scenario, n)
    BY <2>4, SourceFits
  <2> HIDE DEF src
  <2>6. d.src = src /\ d.dst = dst /\ d.env = env
    BY <1>1
  <2>7. DatagramFits(scenario, d)
    BY <1>2, <2>1, <2>2, <2>3, <2>4, <2>5, <2>6 DEF DatagramFits
  <2> QED BY <2>3, <2>6, <2>7 DEF nonce, d
<1>4. CASE relay = Nowhere
  <2>1. dst = b.addrs[m.to] /\ env = inner
    BY <1>4
  <2> HIDE DEF env, dst
  <2>2. dst # Nowhere /\ b.addrs[m.to] \in KnownAs(scenario, m.to)
    BY <1>1, <1>2 DEF d, BusFits
  <2>3. dst \in AddressOf(scenario, m.to) /\ dst.host = m.to
    BY <2>1, <2>2, KnownHost
  <2>4. src \in AddressOf(scenario, n)
    BY <1>2, <2>3, SourceFits
  <2> HIDE DEF src
  <2>5. d.src = src /\ d.dst = dst /\ d.env = inner
    BY <1>1, <2>1
  <2>6. inner.body.kind \notin {"relay", "relayed"}
    BY <1>2 DEF IsWrapper
  <2>7. DatagramFits(scenario, d)
    BY <1>2, <2>3, <2>4, <2>5, <2>6 DEF DatagramFits
  <2> QED BY <1>2, <2>5, <2>7 DEF nonce, d
<1> QED BY <1>3, <1>4

(* The messages of a handler are numbered on.                              *)
LEMMA DatagramsAreProper ==
    ASSUME NetInv, NEW n \in Nodes, NEW b, BusFits(scenario, n, b), NEW messages, NEW k \in Nat,
           DOMAIN messages = 1 .. k, \A i \in 1 .. k : Body(n, messages[i])
    PROVE  Proper(n, Datagrams(n, b, messages))
<1> DEFINE out == Sendable(Datagrams(n, b, messages))
           room == scenario.sends - sent[n]
           D(i) == Datagram(n, b, i, messages[i])
<1>0. sent[n] \in Nat /\ scenario.sends \in Nat /\ room \in Nat
  <2>1. scenario.sends \in Nat /\ sent[n] \in 0 .. scenario.sends
    BY ScenarioShape DEF NetInv
  <2> QED BY <2>1
<1>1. ASSUME NEW d \in out
      PROVE  DatagramFits(scenario, d) /\ \E i \in 1 .. room : i \in 1 .. k /\ d = D(i)
  <2>1. PICK i \in 1 .. k : d = D(i)
    BY DEF Sendable, Datagrams
  <2>2. d.dst # Nowhere /\ d.env.nonce <= scenario.sends
    BY DEF Sendable
  <2>3. DatagramFits(scenario, d) /\ d.env.nonce = sent[n] + i
    BY <2>1, <2>2, DatagramIsProper
  <2>4. i \in 1 .. room
    BY <1>0, <2>2, <2>3
  <2> QED BY <2>1, <2>3, <2>4
<1> HIDE DEF D, room, out
<1> DEFINE I == {i \in 1 .. room : i \in 1 .. k /\ D(i) \in out}
           f == [i \in I |-> D(i)]
<1>2. IsFiniteSet(1 .. room) /\ Cardinality(1 .. room) = room
  <2>1. room \in Int /\ 1 \in Int
    BY <1>0
  <2>2. IsFiniteSet(1 .. room) /\ Cardinality(1 .. room) = IF 1 > room THEN 0 ELSE room - 1 + 1
    BY <2>1, FS_Interval
  <2> QED BY <1>0, <2>2
<1>3. IsFiniteSet(I) /\ Cardinality(I) <= room
  <2>1. I \subseteq 1 .. room
    OBVIOUS
  <2> HIDE DEF I
  <2> QED BY <1>2, <2>1, FS_Subset
<1>4. f \in Surjection(I, out)
  <2>1. \A d \in out : \E i \in I : f[i] = d
    BY <1>1
  <2>2. f \in [I -> out]
    OBVIOUS
  <2> QED BY <2>1, <2>2 DEF Surjection
<1> HIDE DEF f, I
<1>5. IsFiniteSet(out) /\ Cardinality(out) <= Cardinality(I) /\ Cardinality(I) \in Nat /\ Cardinality(out) \in Nat
  BY <1>3, <1>4, FS_Surjection, FS_CardinalityType
<1> QED BY <1>0, <1>1, <1>3, <1>5 DEF Proper, out, room

(* Proper datagrams of a node that may send them keep the network typed.   *)
LEMMA TransmitKeeps ==
    ASSUME NetInv, NEW n \in Nodes, NEW datagrams, Proper(n, datagrams), NEW taken,
           Transmit(n, datagrams, taken), scenario' = scenario, port' = port
    PROVE  NetInv' /\ holes \subseteq holes'
<1> DEFINE out == Sendable(datagrams)
<1>1. /\ sent' = [sent EXCEPT ![n] = @ + Cardinality(out)]
      /\ holes' = IF n = Rendezvous THEN holes ELSE holes \cup {<< d.src, d.dst >> : d \in out}
  BY DEF Transmit, Sendable
<1>2. PICK kept \in SUBSET out : wire' = (wire \ taken) \cup kept /\ Cardinality(wire') <= InFlight
  BY DEF Transmit, Sendable
<1>3. /\ IsFiniteSet(out) /\ Cardinality(out) <= scenario.sends - sent[n]
      /\ \A d \in out : DatagramFits(scenario, d)
  BY DEF Proper
<1> HIDE DEF out
<1>4. IsFiniteSet(wire')
  <2>1. IsFiniteSet(wire \ taken) /\ IsFiniteSet(kept)
    BY <1>3, FS_Subset, FS_Difference DEF NetInv
  <2> QED BY <1>2, <2>1, FS_Union
<1>5. \A d \in wire' : DatagramFits(scenario', d)
  BY <1>2, <1>3 DEF NetInv
<1>6. sent' \in [Nodes -> 0 .. scenario'.sends]
  <2>1. scenario.sends \in Nat /\ sent \in [Nodes -> 0 .. scenario.sends] /\ Cardinality(out) \in Nat
    BY <1>3, ScenarioShape, FS_CardinalityType DEF NetInv
  <2>2. sent[n] + Cardinality(out) \in 0 .. scenario.sends
    BY <1>3, <2>1
  <2> QED BY <1>1, <2>1, <2>2
<1>7. ASSUME NEW d \in out PROVE << d.src, d.dst >> \in Addresses \X Addresses
  <2>1. /\ d.env.by \in Nodes /\ d.src \in AddressOf(scenario, d.env.by)
        /\ d.dst.host \in Nodes /\ d.dst \in AddressOf(scenario, d.dst.host)
    BY <1>3 DEF DatagramFits
  <2> QED BY <2>1, KnownIsAddress DEF NetInv
<1>8. holes' \subseteq Addresses' \X Addresses' /\ holes \subseteq holes'
  <2>1. Addresses' = Addresses
    BY DEF Addresses
  <2> QED BY <1>1, <1>7, <2>1 DEF NetInv
<1> QED BY <1>2, <1>4, <1>5, <1>6, <1>8 DEF NetInv

-----------------------------------------------------------------------------
(* Receiving                                                               *)

(* What a node can receive is on the wire and proper.                      *)
LEMMA InboxFits ==
    ASSUME NetInv, NEW n \in Nodes, NEW d \in Inbox(n)
    PROVE  d \in wire /\ d.dst.host = n /\ DatagramFits(scenario, d)
BY DEF NetInv, Inbox

(* What arrives is signed by another node, and comes from where it is.     *)
LEMMA SenderIsLearned ==
    ASSUME NetInv, BusInv, NEW n \in Nodes, NEW d \in Inbox(n)
    PROVE  BusFits(scenario, n, OnDatagram(n, d)) /\ OnDatagram(n, d).only = bus[n].only
<1>1. d.env.by \in Nodes \ {n} /\ d.src \in KnownAs(scenario, d.env.by)
  BY InboxFits DEF DatagramFits, KnownAs
<1>2. BusFits(scenario, n, bus[n])
  BY DEF BusInv
<1> DEFINE b == bus[n]
           addrs == [b.addrs EXCEPT ![d.env.by] = d.src]
           c == OnDatagram(n, d)
<1>3. /\ DOMAIN c = DOMAIN b /\ c.relays = b.relays /\ c.only = b.only /\ c.addrs = addrs
  BY <1>2 DEF OnDatagram, Recorded, BusFits, BusFields
<1>4. addrs = [p \in Nodes |-> addrs[p]] /\ \A p \in Nodes : addrs[p] \in KnownAs(scenario, p)
  BY <1>1, <1>2 DEF BusFits
<1> HIDE DEF addrs, c, b
<1>5. BusFits(scenario, n, c)
  BY <1>2, <1>3, <1>4 DEF BusFits, b
<1> QED BY <1>3, <1>5 DEF b, c

(* A list of different elements stays so when a new one is appended.       *)
LEMMA AppendsNew ==
    ASSUME NEW T, NEW s \in Seq(T), IsInjective(s), NEW e \in T
    PROVE  LET t == IF Contains(s, e) THEN s ELSE Append(s, e) IN t \in Seq(T) /\ IsInjective(t)
<1>1. CASE Contains(s, e)
  BY <1>1
<1>2. CASE ~ Contains(s, e)
  <2>1. \A i \in 1 .. Len(s) : s[i] # e
    BY <1>2 DEF Contains
  <2>2. Append(s, e) \in Seq(T) /\ IsInjective(Append(s, e))
    BY <2>1 DEF IsInjective
  <2> QED BY <1>2, <2>2
<1> QED BY <1>1, <1>2

(* The bus hands on what another node signed, and what the relay brought is *)
(* answered through the relay.                                             *)
LEMMA ArrivalFits ==
    ASSUME NetInv, BusInv, NEW n \in Nodes, NEW d \in Inbox(n), d.env.body.kind # "relay"
    PROVE  /\ EnvelopeFits(scenario, Inner(d), n) /\ BusFits(scenario, n, After(n, d))
           /\ bus[n].only \subseteq After(n, d).only
           /\ Inner(d).by \in After(n, d).only \/ Inner(d) = d.env
<1> DEFINE b == OnDatagram(n, d)
<1>1. BusFits(scenario, n, b) /\ b.only = bus[n].only
  BY SenderIsLearned
<1>2. DatagramFits(scenario, d) /\ d.dst.host = n
  BY InboxFits
<1>3. CASE d.env.body.kind = "relayed"
  <2> DEFINE blob == d.env.body.blob
             c == Recorded(b, blob)
             relays == IF Contains(c.relays, d.env.by) THEN c.relays ELSE Append(c.relays, d.env.by)
             only == c.only \cup {d.env.body.origin}
             a == After(n, d)
  <2>1. EnableRelay /\ d.env.body.origin = blob.by /\ EnvelopeFits(scenario, blob, n) /\ d.env.by \in Nodes \ {n}
    BY <1>2, <1>3 DEF DatagramFits
  <2>2. Inner(d) = blob
    BY <1>3 DEF Inner
  <2>3. a = [c EXCEPT !.relays = relays, !.only = only]
    BY <1>3, <2>1 DEF After, ReceiveRelayed
  <2>4. DOMAIN c = BusFields /\ c.relays = b.relays /\ c.only = b.only /\ c.addrs = b.addrs
    BY <1>1 DEF Recorded, BusFits, BusFields
  <2> HIDE DEF b, c
  <2>5. c.relays \in Seq(Nodes \ {n}) /\ IsInjective(c.relays)
    BY <1>1, <2>4 DEF BusFits
  <2>6. relays \in Seq(Nodes \ {n}) /\ IsInjective(relays)
    BY <2>1, <2>5, AppendsNew
  <2>7. only \subseteq Nodes \ {n} /\ bus[n].only \subseteq only /\ blob.by \in only
    BY <1>1, <2>1, <2>4 DEF BusFits, EnvelopeFits
  <2> HIDE DEF relays, only, blob, a
  <2>8. DOMAIN a = BusFields /\ a.relays = relays /\ a.only = only /\ a.addrs = b.addrs
    BY <2>3, <2>4 DEF BusFields
  <2>9. BusFits(scenario, n, a)
    BY <1>1, <2>6, <2>7, <2>8 DEF BusFits
  <2> QED BY <2>1, <2>2, <2>7, <2>8, <2>9 DEF a
<1>4. CASE d.env.body.kind # "relayed"
  <2>1. Inner(d) = d.env /\ After(n, d) = b
    BY <1>4 DEF Inner, After
  <2>2. ~ IsWrapper(d.env.body)
    BY <1>4 DEF IsWrapper
  <2>3. EnvelopeFits(scenario, d.env, n)
    BY <1>2, <2>2 DEF DatagramFits
  <2> QED BY <1>1, <2>1, <2>3
<1> QED BY <1>3, <1>4

(* The rendezvous lists the address it has seen.                           *)
LEMMA ListedFits ==
    ASSUME NetInv, BusInv, NEW n \in Nodes, NEW d \in Inbox(n), d.env.body.kind # "relay"
    PROVE  DOMAIN Listed(n, d) = Nodes /\ \A p \in Nodes : Listed(n, d)[p] \in KnownAs(scenario, p)
<1>1. BusFits(scenario, n, After(n, d)) /\ Inner(d).by \in Nodes
  BY ArrivalFits DEF EnvelopeFits
<1>2. After(n, d).addrs[Inner(d).by] \in KnownAs(scenario, Inner(d).by)
  BY <1>1 DEF BusFits
<1>3. DOMAIN listed = Nodes /\ \A p \in Nodes : listed[p] \in KnownAs(scenario, p)
  BY DEF BusInv
<1>4. \/ Listed(n, d) = listed
      \/ Listed(n, d) = [listed EXCEPT ![Inner(d).by] = After(n, d).addrs[Inner(d).by]]
  BY DEF Listed
<1> QED BY <1>1, <1>2, <1>3, <1>4

(* A punch result is noted in the bus as an address of that peer.          *)
LEMMA PunchedFits ==
    ASSUME NEW n, NEW b, BusFits(scenario, n, b), NEW p \in Nodes, NEW addr \in KnownAs(scenario, p)
    PROVE  BusFits(scenario, n, Punched(b, p, addr)) /\ Punched(b, p, addr).only = b.only
<1> DEFINE addrs == [b.addrs EXCEPT ![p] = addr]
           c == Punched(b, p, addr)
<1>1. DOMAIN c = DOMAIN b /\ c.relays = b.relays /\ c.only = b.only /\ c.addrs = addrs
  BY DEF Punched, BusFits, BusFields
<1>2. addrs = [q \in Nodes |-> addrs[q]] /\ \A q \in Nodes : addrs[q] \in KnownAs(scenario, q)
  BY DEF BusFits
<1> HIDE DEF addrs, c
<1> QED BY <1>1, <1>2 DEF BusFits, c

\* An answer of n to d, with a bus that keeps what d taught it.
Replies(n, d) ==
    \E b, messages : \E k \in Nat :
        /\ Answer(n, d, b, messages)
        /\ BusFits(scenario, n, b) /\ b.only = After(n, d).only
        /\ DOMAIN messages = 1 .. k /\ \A i \in 1 .. k : Body(n, messages[i])

(* A handled datagram and the messages it is answered with keep the types. *)
LEMMA RepliesKeep ==
    ASSUME NetInv, BusInv, NEW n \in Nodes, NEW d \in Inbox(n), Replies(n, d)
    PROVE  /\ NetInv' /\ BusInv' /\ holes \subseteq holes' /\ scenario' = scenario
           /\ \A m \in Nodes : bus[m].only \subseteq bus'[m].only
           /\ After(n, d).only \subseteq bus'[n].only
           /\ d.env.body.kind # "relay" /\ Admitted(d)
<1>1. PICK b, messages, k :
        /\ k \in Nat /\ Answer(n, d, b, messages)
        /\ BusFits(scenario, n, b) /\ b.only = After(n, d).only
        /\ DOMAIN messages = 1 .. k /\ \A i \in 1 .. k : Body(n, messages[i])
  BY DEF Replies
<1>2. PICK taken : /\ Delivers(n, d, taken) /\ Transmit(n, Datagrams(n, b, messages), taken)
                   /\ bus' = [bus EXCEPT ![n] = b] /\ listed' = Listed(n, d)
                   /\ scenario' = scenario /\ port' = port
  BY <1>1 DEF Answer
<1>3. d.env.body.kind # "relay" /\ Admitted(d)
  BY <1>2 DEF Delivers, Arrives
<1>4. Proper(n, Datagrams(n, b, messages))
  BY <1>1, DatagramsAreProper
<1>5. NetInv' /\ holes \subseteq holes'
  BY <1>2, <1>4, TransmitKeeps
<1>6. DOMAIN listed' = Nodes /\ \A p \in Nodes : listed'[p] \in KnownAs(scenario, p)
  BY <1>2, <1>3, ListedFits
<1>7. DOMAIN bus' = Nodes /\ \A m \in Nodes : BusFits(scenario, m, bus'[m])
  BY <1>1, <1>2 DEF BusInv
<1>8. BusInv'
  BY <1>2, <1>6, <1>7 DEF BusInv
<1>9. bus[n].only \subseteq After(n, d).only
  BY <1>3, ArrivalFits
<1>10. \A m \in Nodes : bus[m].only \subseteq bus'[m].only
  BY <1>1, <1>2, <1>9 DEF BusInv
<1>11. After(n, d).only \subseteq bus'[n].only
  BY <1>1, <1>2 DEF BusInv
<1> QED BY <1>2, <1>3, <1>5, <1>8, <1>10, <1>11

-----------------------------------------------------------------------------
(* The handlers                                                            *)

\* Whom a handler takes for reachable, and what it learns of itself.
HandlerDoes(n, d) ==
    /\ Replies(n, d) /\ UNCHANGED daemonVars
    /\ reachable' = reachable \/ reachable' = [reachable EXCEPT ![n] = @ \cup {Inner(d).by}]
    /\ reflexive' = reflexive \/ \E addr \in KnownAs(scenario, n) : reflexive' = [reflexive EXCEPT ![n] = addr]

(* Messages of the protocol by n.                                          *)
LEMMA PlainBodies ==
    ASSUME NEW n \in Nodes, NEW p \in Nodes \ {n}
    PROVE  /\ \A kind \in {"whoami", "punch", "punch_ack", "protos"} : Body(n, Message(p, Op(kind)))
           /\ \A addr \in KnownAs(scenario, p) : Body(n, Message(p, Addressed("whoami_resp", addr)))
           /\ \A q \in Nodes \ {p} : \A addr \in KnownAs(scenario, q) :
                  \A kind \in {"connect_resp", "punch_req"} : Body(n, Message(p, About(kind, q, addr)))
           /\ \A q \in Natted \ {n} : Body(n, Message(p, [kind |-> "connect_req", peer |-> q]))
BY DEF Body, BodyFits, IsWrapper, Message, Op, Addressed, About

(* A handler that answers nothing.                                         *)
LEMMA WithoutWords ==
    ASSUME NEW n, NEW d, NEW b, BusFits(scenario, n, b), b.only = After(n, d).only, Answer(n, d, b, << >>)
    PROVE  Replies(n, d)
<1> DEFINE none == << >>
<1>1. DOMAIN none = 1 .. 0 /\ \A i \in 1 .. 0 : Body(n, none[i])
  OBVIOUS
<1> HIDE DEF none
<1>2. Answer(n, d, b, none)
  BY DEF none
<1> QED BY <1>1, <1>2 DEF Replies

(* A handler that answers with one message.                                *)
LEMMA OneWord ==
    ASSUME NEW n, NEW d, NEW b, BusFits(scenario, n, b), b.only = After(n, d).only, NEW m, Body(n, m),
           Answer(n, d, b, << m >>)
    PROVE  Replies(n, d)
<1> DEFINE one == << m >>
<1>1. DOMAIN one = 1 .. 1 /\ \A i \in 1 .. 1 : Body(n, one[i])
  OBVIOUS
<1> HIDE DEF one
<1>2. Answer(n, d, b, one)
  BY DEF one
<1> QED BY <1>1, <1>2 DEF Replies

(* A handler that answers with two messages.                               *)
LEMMA TwoWords ==
    ASSUME NEW n, NEW d, NEW b, BusFits(scenario, n, b), b.only = After(n, d).only,
           NEW m, Body(n, m), NEW r, Body(n, r), Answer(n, d, b, << m, r >>)
    PROVE  Replies(n, d)
<1> DEFINE two == << m, r >>
<1>1. DOMAIN two = 1 .. 2 /\ \A i \in 1 .. 2 : Body(n, two[i])
  OBVIOUS
<1> HIDE DEF two
<1>2. Answer(n, d, b, two)
  BY DEF two
<1> QED BY <1>1, <1>2 DEF Replies

(* Every handler answers what it got, and only a punch or its echo makes   *)
(* its sender reachable.                                                   *)
LEMMA HandlersDo ==
    ASSUME NetInv, BusInv, NEW n \in Nodes, NEW d \in Inbox(n), Receive(n, d)
    PROVE  HandlerDoes(n, d)
<1> DEFINE e == Inner(d)
           b == After(n, d)
<1>0. d.env.body.kind # "relay"
  BY DEF Receive, OnWhoami, OnWhoamiResp, OnConnectReq, OnPunchOrder, OnPunch, OnPunchAck, OnGossip, Answer, Delivers
<1>1. /\ BusFits(scenario, n, b) /\ b.only = After(n, d).only
      /\ e.by \in Nodes \ {n} /\ BodyFits(scenario, e.by, e.body, n)
  BY <1>0, ArrivalFits DEF EnvelopeFits
<1>2. b.addrs[e.by] \in KnownAs(scenario, e.by)
  BY <1>1 DEF BusFits
<1>3. CASE OnWhoami(n, d)
  <2> DEFINE m == Message(e.by, Addressed("whoami_resp", b.addrs[e.by]))
  <2>1. Answer(n, d, b, << m >>) /\ UNCHANGED << daemonVars, reflexive, reachable >>
    BY <1>3 DEF OnWhoami
  <2>2. Body(n, m)
    BY <1>1, <1>2, PlainBodies
  <2> HIDE DEF b, e, m
  <2> QED BY <1>1, <2>1, <2>2, OneWord DEF HandlerDoes
<1>4. CASE OnWhoamiResp(n, d)
  <2>1. Answer(n, d, b, << >>) /\ UNCHANGED << daemonVars, reachable >>
        /\ (reflexive' = reflexive \/ reflexive' = [reflexive EXCEPT ![n] = e.body.addr])
        /\ e.body.kind = "whoami_resp"
    BY <1>4 DEF OnWhoamiResp
  <2>2. e.body.addr \in KnownAs(scenario, n)
    BY <1>1, <2>1 DEF BodyFits
  <2> HIDE DEF b, e
  <2> QED BY <1>1, <2>1, <2>2, WithoutWords DEF HandlerDoes
<1>5. CASE OnConnectReq(n, d)
  <2> DEFINE p == e.body.peer
             target == IF listed[p] # Nowhere THEN listed[p] ELSE b.addrs[p]
             toPeer == Message(p, About("punch_req", e.by, b.addrs[e.by]))
             toAsker == Message(e.by, About("connect_resp", p, target))
  <2>1. /\ n = Rendezvous /\ e.body.kind = "connect_req" /\ UNCHANGED << daemonVars, reflexive, reachable >>
        /\ \/ Answer(n, d, b, << >>)
           \/ Answer(n, d, Punched(b, p, target), << toPeer, toAsker >>)
    BY <1>5 DEF OnConnectReq
  <2>2. p \in Nodes \ {n, e.by}
    BY <1>1, <2>1, TransportAssumption DEF BodyFits, Nodes
  <2>3. target \in KnownAs(scenario, p)
    BY <1>1, <2>2 DEF BusInv, BusFits
  <2>4. BusFits(scenario, n, Punched(b, p, target)) /\ Punched(b, p, target).only = b.only
    BY <1>1, <2>2, <2>3, PunchedFits
  <2>5. Body(n, toPeer) /\ Body(n, toAsker)
    BY <1>1, <1>2, <2>2, <2>3, PlainBodies
  <2> HIDE DEF b, e, p, target, toPeer, toAsker
  <2>6. Replies(n, d)
    BY <1>1, <2>1, <2>4, <2>5, WithoutWords, TwoWords
  <2> QED BY <2>1, <2>6 DEF HandlerDoes
<1>6. CASE OnPunchOrder(n, d)
  <2> DEFINE p == e.body.peer
             c == Punched(b, p, e.body.addr)
             m == Message(p, Op("punch"))
  <2>1. /\ e.body.kind \in {"connect_resp", "punch_req"} /\ UNCHANGED << daemonVars, reflexive, reachable >>
        /\ Answer(n, d, c, << m >>)
    BY <1>6 DEF OnPunchOrder
  <2>2. p \in Nodes \ {n} /\ e.body.addr \in KnownAs(scenario, p)
    BY <1>1, <2>1 DEF BodyFits
  <2>3. BusFits(scenario, n, c) /\ c.only = b.only
    BY <1>1, <2>2, PunchedFits
  <2>4. Body(n, m)
    BY <2>2, PlainBodies
  <2> HIDE DEF b, e, p, c, m
  <2> QED BY <1>1, <2>1, <2>3, <2>4, OneWord DEF HandlerDoes
<1>7. CASE OnPunch(n, d)
  <2> DEFINE m == Message(e.by, Op("punch_ack"))
  <2>1. /\ Answer(n, d, b, << m >>) /\ UNCHANGED << daemonVars, reflexive >>
        /\ reachable' = [reachable EXCEPT ![n] = @ \cup {e.by}]
    BY <1>7 DEF OnPunch
  <2>2. Body(n, m)
    BY <1>1, PlainBodies
  <2>3. Replies(n, d)
    <3> HIDE DEF b, e, m
    <3> QED BY <1>1, <2>1, <2>2, OneWord
  <2> QED BY <2>1, <2>3 DEF HandlerDoes
<1>8. CASE OnPunchAck(n, d)
  <2>1. /\ Answer(n, d, b, << >>) /\ UNCHANGED << daemonVars, reflexive >>
        /\ reachable' = [reachable EXCEPT ![n] = @ \cup {e.by}]
    BY <1>8 DEF OnPunchAck
  <2>2. Replies(n, d)
    <3> HIDE DEF b, e
    <3> QED BY <1>1, <2>1, WithoutWords
  <2> QED BY <2>1, <2>2 DEF HandlerDoes
<1>9. CASE OnGossip(n, d)
  <2>1. Answer(n, d, b, << >>) /\ UNCHANGED << daemonVars, reflexive, reachable >>
    BY <1>9 DEF OnGossip
  <2> HIDE DEF b, e
  <2> QED BY <1>1, <2>1, WithoutWords DEF HandlerDoes
<1> QED BY <1>3, <1>4, <1>5, <1>6, <1>7, <1>8, <1>9 DEF Receive

-----------------------------------------------------------------------------
(* The steps                                                               *)

\* Nothing n may send through or to is forgotten.
Remembers ==
    /\ holes \subseteq holes' /\ scenario' = scenario
    /\ \A n \in Nodes : bus[n].only \subseteq bus'[n].only

(* Every datagram a node takes keeps the types.                            *)
LEMMA ReceiveKeeps ==
    ASSUME TypeInv, NEW n \in Nodes, NEW d \in Inbox(n), Receive(n, d)
    PROVE  TypeInv' /\ Remembers
<1>1. HandlerDoes(n, d)
  BY HandlersDo DEF TypeInv
<1>2. /\ NetInv' /\ BusInv' /\ Remembers /\ scenario' = scenario /\ d.env.body.kind # "relay"
  BY <1>1, RepliesKeep DEF TypeInv, HandlerDoes, Remembers
<1>3. Inner(d).by \in Nodes \ {n}
  BY <1>2, ArrivalFits DEF TypeInv, EnvelopeFits
<1>4. Addresses' = Addresses /\ scenario \in Scenarios
  BY <1>2 DEF Addresses, TypeInv, NetInv
<1>5. reachable' \in [Nodes -> SUBSET Nodes] /\ \A m \in Nodes : m \notin reachable'[m]
  BY <1>1, <1>3 DEF HandlerDoes, TypeInv, PunchInv
<1>6. reflexive' \in [Natted -> Addresses']
  <2>1. KnownAs(scenario, n) \subseteq Addresses
    BY <1>4, KnownIsAddress
  <2> QED BY <1>1, <1>4, <2>1 DEF HandlerDoes, TypeInv, PunchInv
<1>7. PunchInv'
  BY <1>5, <1>6 DEF PunchInv
<1>8. JoinInv'
  BY <1>1, <1>2 DEF HandlerDoes, daemonVars, TypeInv, JoinInv, JoinFits, Wanted
<1> QED BY <1>2, <1>7, <1>8 DEF TypeInv

(* A node asks of its own accord.                                          *)
LEMMA AskingKeeps ==
    ASSUME NetInv, BusInv, NEW n \in Nodes, NEW m, Body(n, m), SendNew(n, << m >>), bus' = bus, listed' = listed
    PROVE  NetInv' /\ BusInv' /\ Remembers
<1> DEFINE one == << m >>
<1>1. /\ Transmit(n, Datagrams(n, bus[n], one), {}) /\ scenario' = scenario /\ port' = port
  BY DEF SendNew
<1>2. DOMAIN one = 1 .. 1 /\ \A i \in 1 .. 1 : Body(n, one[i])
  OBVIOUS
<1> HIDE DEF one
<1>3. BusFits(scenario, n, bus[n])
  BY DEF BusInv
<1>4. Proper(n, Datagrams(n, bus[n], one))
  BY <1>2, <1>3, DatagramsAreProper
<1> DEFINE none == {}
<1>5. Transmit(n, Datagrams(n, bus[n], one), none)
  BY <1>1
<1> HIDE DEF none
<1>6. NetInv' /\ holes \subseteq holes'
  BY <1>1, <1>4, <1>5, TransmitKeeps
<1> QED BY <1>1, <1>6 DEF BusInv, Remembers

\* The peer is another node behind a NAT.
LEMMA PeerIsAnother ==
    ASSUME NetInv, NEW n \in Natted, next[n] \in DOMAIN Wanted(n)
    PROVE  Peer(n) \in Natted \ {n}
<1> DEFINE w == Wanted(n)
<1>1. w \in Seq(Natted \ {n}) /\ next[n] \in DOMAIN w /\ Peer(n) = w[next[n]]
  BY ScenarioShape DEF NetInv, Wanted, Peer
<1> HIDE DEF w
<1> QED BY <1>1

(* The sequence goes on to the next peer, or is through.                   *)
LEMMA GoesOn ==
    ASSUME TypeInv, NEW n \in Natted, pc[n] \in {"punch", "punching", "pause"},
           pc' = [pc EXCEPT ![n] = Goto(next[n] + 1, n)], next' = [next EXCEPT ![n] = @ + 1],
           attempt' = [attempt EXCEPT ![n] = 0], scenario' = scenario
    PROVE  JoinInv'
<1>1. scenario.attempts \in Nat \ {0} /\ \A m \in Natted : Wanted(m)' = Wanted(m) /\ Wanted(m) \in Seq(Natted \ {m})
  BY ScenarioShape DEF TypeInv, NetInv, Wanted
<1>2. next[n] \in DOMAIN Wanted(n)
  BY DEF TypeInv, JoinInv, JoinFits
<1>3. /\ next[n] + 1 \in 1 .. Len(Wanted(n)) + 1
      /\ (next[n] + 1 \in DOMAIN Wanted(n) => Goto(next[n] + 1, n) = "punch")
      /\ (next[n] + 1 \notin DOMAIN Wanted(n) => Goto(next[n] + 1, n) = "running")
  <2> DEFINE w == Wanted(n)
             i == next[n]
  <2>1. w \in Seq(Natted \ {n}) /\ i \in DOMAIN w
    BY <1>1, <1>2
  <2> HIDE DEF w, i
  <2>2. i + 1 \in 1 .. Len(w) + 1
    BY <2>1
  <2> QED BY <2>2 DEF Goto, w, i
<1>4. DOMAIN pc = Natted /\ DOMAIN next = Natted /\ DOMAIN attempt = Natted /\ \A m \in Natted : JoinFits(m)
  BY DEF TypeInv, JoinInv
<1> DEFINE i == next[n] + 1
<1>5. /\ pc'[n] = Goto(i, n) /\ next'[n] = i /\ attempt'[n] = 0
      /\ \A m \in Natted \ {n} : pc'[m] = pc[m] /\ next'[m] = next[m] /\ attempt'[m] = attempt[m]
      /\ DOMAIN pc' = Natted /\ DOMAIN next' = Natted /\ DOMAIN attempt' = Natted
  BY <1>4
<1> HIDE DEF i
<1>6. JoinFits(n)'
  <2>1. Wanted(n)' = Wanted(n)
    BY DEF Wanted
  <2>4. 0 \in 0 .. scenario.attempts /\ 0 < scenario.attempts
    <3> DEFINE k == scenario.attempts
    <3>1. k \in Nat \ {0}
      BY <1>1
    <3> HIDE DEF k
    <3> QED BY <3>1 DEF k
  <2>2. pc'[n] \in {"punch", "running"} /\ (pc'[n] = "punch" => next'[n] \in DOMAIN Wanted(n))
    BY <1>3, <1>5 DEF i
  <2>3. next'[n] \in 1 .. Len(Wanted(n)) + 1
    BY <1>3, <1>5 DEF i
  <2> QED BY <1>5, <2>1, <2>2, <2>3, <2>4 DEF JoinFits
<1>7. ASSUME NEW m \in Natted \ {n} PROVE JoinFits(m)'
  BY <1>1, <1>4, <1>5, <1>7 DEF JoinFits
<1> QED BY <1>5, <1>6, <1>7 DEF JoinInv

(* The sequence stays with a peer, and has perhaps an attempt less.        *)
LEMMA Stays ==
    ASSUME TypeInv, NEW n \in Natted, NEW where,
           pc' = [pc EXCEPT ![n] = where], next' = next, scenario' = scenario,
           attempt' = attempt \/ attempt' = [attempt EXCEPT ![n] = @ + 1],
           JoinFits(n)'
    PROVE  JoinInv'
<1>1. DOMAIN pc = Natted /\ DOMAIN next = Natted /\ DOMAIN attempt = Natted /\ \A m \in Natted : JoinFits(m)
  BY DEF TypeInv, JoinInv
<1>2. \A m \in Natted \ {n} : pc'[m] = pc[m] /\ next'[m] = next[m] /\ attempt'[m] = attempt[m] /\ Wanted(m)' = Wanted(m)
  BY <1>1 DEF Wanted
<1>3. ASSUME NEW m \in Natted \ {n} PROVE JoinFits(m)'
  BY <1>1, <1>2, <1>3 DEF JoinFits
<1>4. DOMAIN pc' = Natted /\ DOMAIN next' = Natted /\ DOMAIN attempt' = Natted
  BY <1>1
<1> QED BY <1>3, <1>4 DEF JoinInv

(* Every step of the join sequence keeps the types, and is about its peer. *)
LEMMA JoinKeeps ==
    ASSUME TypeInv, NEW n \in Natted, Join(n)
    PROVE  TypeInv' /\ Remembers /\ reachable' = reachable
<1>0. /\ n \in Nodes /\ Rendezvous \in Nodes \ {n} /\ JoinFits(n)
      /\ DOMAIN pc = Natted /\ DOMAIN next = Natted /\ DOMAIN attempt = Natted
      /\ scenario.attempts \in Nat \ {0} /\ Wanted(n) \in Seq(Natted \ {n})
  BY TransportAssumption, ScenarioShape DEF Nodes, TypeInv, JoinInv, NetInv, Wanted
<1>1. ASSUME NetInv', BusInv', Remembers, UNCHANGED puncherVars, JoinInv' PROVE TypeInv' /\ Remembers /\ reachable' = reachable
  BY <1>1 DEF TypeInv, PunchInv, puncherVars, Addresses, Remembers
<1>2. ASSUME UNCHANGED << transportVars, puncherVars >> PROVE NetInv' /\ BusInv' /\ Remembers
  BY <1>2 DEF TypeInv, NetInv, BusInv, transportVars, natVars, puncherVars, Addresses, Remembers
<1>3. CASE AskReflexive(n)
  <2> DEFINE m == Message(Rendezvous, Op("whoami"))
  <2>1. /\ pc[n] = "joined" /\ pc' = [pc EXCEPT ![n] = "whoami"] /\ SendNew(n, << m >>)
        /\ UNCHANGED << bus, next, attempt, puncherVars >>
    BY <1>3 DEF AskReflexive
  <2>2. Body(n, m)
    BY <1>0, PlainBodies
  <2> HIDE DEF m
  <2>3. NetInv' /\ BusInv' /\ Remembers
    BY <1>0, <2>1, <2>2, AskingKeeps DEF TypeInv, puncherVars
  <2>4. JoinFits(n)'
    BY <1>0, <2>1, <2>3 DEF JoinFits, Remembers, Wanted
  <2> QED BY <1>1, <2>1, <2>3, <2>4, Stays DEF Remembers
<1>4. CASE ReflexiveEnds(n)
  <2>1. /\ pc[n] = "whoami" /\ pc' = [pc EXCEPT ![n] = Goto(1, n)]
        /\ UNCHANGED << transportVars, next, attempt, puncherVars >>
    BY <1>4 DEF ReflexiveEnds
  <2>2. NetInv' /\ BusInv' /\ Remembers
    BY <1>2, <2>1
  <2>3. JoinFits(n)'
    BY <1>0, <2>1, <2>2 DEF JoinFits, Remembers, Wanted, Goto
  <2> QED BY <1>1, <2>1, <2>2, <2>3, Stays DEF Remembers
<1>5. CASE AlreadyPunched(n) \/ PunchSucceeds(n)
  <2>1. /\ pc[n] \in {"punch", "punching"} /\ pc' = [pc EXCEPT ![n] = Goto(next[n] + 1, n)]
        /\ next' = [next EXCEPT ![n] = @ + 1] /\ attempt' = [attempt EXCEPT ![n] = 0]
        /\ UNCHANGED << transportVars, puncherVars >>
    BY <1>5 DEF AlreadyPunched, PunchSucceeds
  <2>2. NetInv' /\ BusInv' /\ Remembers
    BY <1>2, <2>1
  <2> QED BY <1>1, <2>1, <2>2, GoesOn DEF Remembers
<1>6. CASE RequestPunch(n)
  <2> DEFINE m == Message(Rendezvous, [kind |-> "connect_req", peer |-> Peer(n)])
  <2>1. /\ pc[n] = "punch" /\ pc' = [pc EXCEPT ![n] = "punching"] /\ SendNew(n, << m >>)
        /\ UNCHANGED << bus, next, attempt, puncherVars >>
    BY <1>6 DEF RequestPunch
  <2>2. Peer(n) \in Natted \ {n}
    BY <1>0, <2>1, PeerIsAnother DEF JoinFits, TypeInv
  <2>3. Body(n, m)
    BY <1>0, <2>2, PlainBodies
  <2> HIDE DEF m
  <2>4. NetInv' /\ BusInv' /\ Remembers
    BY <1>0, <2>1, <2>3, AskingKeeps DEF TypeInv, puncherVars
  <2>5. JoinFits(n)'
    BY <1>0, <2>1, <2>4 DEF JoinFits, Remembers, Wanted
  <2> QED BY <1>1, <2>1, <2>4, <2>5, Stays DEF Remembers
<1>7. CASE PunchTimesOut(n)
  <2>1. /\ pc[n] = "punching" /\ pc' = [pc EXCEPT ![n] = "pause"] /\ attempt' = [attempt EXCEPT ![n] = @ + 1]
        /\ UNCHANGED << transportVars, next, puncherVars >>
    BY <1>7 DEF PunchTimesOut, CountsAttempts
  <2>2. NetInv' /\ BusInv' /\ Remembers
    BY <1>2, <2>1
  <2>3. JoinFits(n)'
    BY <1>0, <2>1, <2>2 DEF JoinFits, Remembers, Wanted
  <2> QED BY <1>1, <2>1, <2>2, <2>3, Stays DEF Remembers
<1>8. CASE PauseEnds(n) /\ attempt[n] < scenario.attempts
  <2>1. /\ pc[n] = "pause" /\ pc' = [pc EXCEPT ![n] = "punch"]
        /\ UNCHANGED << transportVars, next, attempt, puncherVars >>
    BY <1>8 DEF PauseEnds, transportVars
  <2>2. NetInv' /\ BusInv' /\ Remembers
    BY <1>2, <2>1
  <2>3. JoinFits(n)'
    BY <1>0, <1>8, <2>1, <2>2 DEF JoinFits, Remembers, Wanted
  <2> QED BY <1>1, <2>1, <2>2, <2>3, Stays DEF Remembers
<1>9. CASE PauseEnds(n) /\ ~ (attempt[n] < scenario.attempts)
  <2>1. /\ pc[n] = "pause" /\ pc' = [pc EXCEPT ![n] = Goto(next[n] + 1, n)]
        /\ next' = [next EXCEPT ![n] = @ + 1] /\ attempt' = [attempt EXCEPT ![n] = 0]
        /\ bus' = bus \/ bus' = [bus EXCEPT ![n].only = @ \cup {Peer(n)}]
        /\ UNCHANGED << natVars, wire, sent, puncherVars >>
    BY <1>9 DEF PauseEnds
  <2>2. Peer(n) \in Nodes \ {n}
    BY <1>0, <2>1, PeerIsAnother DEF JoinFits, TypeInv, Nodes
  <2>3. DOMAIN bus' = Nodes /\ \A m \in Nodes : BusFits(scenario, m, bus'[m]) /\ bus[m].only \subseteq bus'[m].only
    <3>1. CASE bus' = bus
      BY <3>1 DEF TypeInv, BusInv
    <3>2. CASE bus' = [bus EXCEPT ![n].only = @ \cup {Peer(n)}]
      <4> DEFINE b == bus[n]
                 only == b.only \cup {Peer(n)}
                 c == [b EXCEPT !.only = only]
      <4>1. BusFits(scenario, n, b) /\ bus' = [bus EXCEPT ![n] = c]
        BY <1>0, <3>2 DEF TypeInv, BusInv
      <4>2. only \subseteq Nodes \ {n} /\ b.only \subseteq only
        BY <2>2, <4>1 DEF BusFits
      <4> HIDE DEF only
      <4>3. /\ DOMAIN c = DOMAIN b /\ c.addrs = b.addrs /\ c.relays = b.relays /\ c.only = only
        BY <4>1 DEF BusFits, BusFields
      <4> HIDE DEF c
      <4>4. BusFits(scenario, n, c)
        BY <4>1, <4>2, <4>3 DEF BusFits
      <4> QED BY <1>0, <4>1, <4>2, <4>3, <4>4 DEF TypeInv, BusInv
    <3> QED BY <2>1, <3>1, <3>2
  <2>4. NetInv' /\ BusInv' /\ Remembers
    BY <2>1, <2>3 DEF TypeInv, NetInv, BusInv, natVars, puncherVars, Addresses, Remembers
  <2> QED BY <1>1, <2>1, <2>4, GoesOn DEF Remembers
<1> QED BY <1>3, <1>4, <1>5, <1>6, <1>7, <1>8, <1>9 DEF Join

(* Gossip keeps the types.                                                 *)
LEMMA GossipKeeps ==
    ASSUME TypeInv, NEW n \in Natted, NEW p \in Nodes, Gossip(n, p)
    PROVE  TypeInv' /\ Remembers /\ reachable' = reachable
<1> DEFINE m == Message(p, Op("protos"))
<1>1. p \in Nodes \ {n} /\ n \in Nodes /\ SendNew(n, << m >>) /\ UNCHANGED << bus, daemonVars, puncherVars >>
  BY DEF Gossip, Nodes
<1>2. Body(n, m)
  BY <1>1, PlainBodies
<1> HIDE DEF m
<1>3. NetInv' /\ BusInv' /\ Remembers
  BY <1>1, <1>2, AskingKeeps DEF TypeInv, puncherVars
<1> QED BY <1>1, <1>3 DEF TypeInv, PunchInv, JoinInv, JoinFits, Wanted, daemonVars, puncherVars, Addresses, Remembers

(* The relay forwards to a node it knows, and keeps the types.             *)
LEMMA ForwardKeeps ==
    ASSUME TypeInv, NEW n \in Nodes, NEW d \in Inbox(n), ForwardRelay(n, d), UNCHANGED << daemonVars, puncherVars >>
    PROVE  TypeInv' /\ Remembers
<1> DEFINE b   == OnDatagram(n, d)
           t   == d.env.body.target
           blob == d.env.body.blob
           dst == b.addrs[t]
           src == Source(n, dst)
           env == Envelope(n, sent[n] + 1, Relayed(d.env.by, blob))
           out == [src |-> src, dst |-> dst, env |-> env]
           outs == IF EnableRelay THEN {out} ELSE {}
<1>1. PICK taken : /\ d.env.body.kind = "relay" /\ bus' = [bus EXCEPT ![n] = b]
                   /\ Transmit(n, outs, taken) /\ scenario' = scenario /\ port' = port
  BY DEF ForwardRelay
<1>2. BusFits(scenario, n, b) /\ b.only = bus[n].only
  BY SenderIsLearned DEF TypeInv
<1>3. /\ EnableRelay /\ blob.by = d.env.by /\ t \in Nodes \ {n} /\ EnvelopeFits(scenario, blob, t)
  BY <1>1, InboxFits DEF TypeInv, DatagramFits
<1>4. outs = {out}
  BY <1>3
<1>5. dst \in KnownAs(scenario, t)
  BY <1>2, <1>3 DEF BusFits
<1>6. env.by = n /\ env.nonce = sent[n] + 1 /\ env.body.kind = "relayed" /\ env.body.origin = d.env.by
      /\ env.body.blob = blob /\ IsWrapper(env.body)
  BY DEF Envelope, Relayed, IsWrapper
<1>7. out.src = src /\ out.dst = dst /\ out.env = env
  OBVIOUS
<1>8. ASSUME out.dst # Nowhere PROVE DatagramFits(scenario, out)
  <2>1. dst \in AddressOf(scenario, t) /\ dst.host = t
    BY <1>5, <1>7, <1>8, KnownHost
  <2>2. src \in AddressOf(scenario, n)
    BY <1>3, <2>1, SourceFits DEF TypeInv
  <2> HIDE DEF src, dst, env, out, blob, t
  <2> QED BY <1>3, <1>6, <1>7, <2>1, <2>2 DEF DatagramFits
<1> HIDE DEF out, outs
<1>9. Proper(n, outs)
  <2>1. sent[n] \in 0 .. scenario.sends /\ scenario.sends \in Nat
    BY ScenarioShape DEF TypeInv, NetInv
  <2>2. Sendable(outs) \subseteq {out} /\ (out \in Sendable(outs) => out.dst # Nowhere /\ sent[n] + 1 <= scenario.sends)
    BY <1>4, <1>6, <1>7 DEF Sendable
  <2>3. CASE out \in Sendable(outs)
    <3>1. Sendable(outs) = {out} /\ IsFiniteSet({out}) /\ Cardinality({out}) = 1
      BY <2>2, <2>3, FS_Singleton
    <3> QED BY <1>8, <2>1, <2>2, <2>3, <3>1 DEF Proper
  <2>4. CASE out \notin Sendable(outs)
    <3>1. Sendable(outs) = {} /\ IsFiniteSet({}) /\ Cardinality({}) = 0
      BY <2>2, <2>4, FS_EmptySet
    <3> QED BY <2>1, <3>1 DEF Proper
  <2> QED BY <2>3, <2>4
<1> HIDE DEF b
<1>10. NetInv' /\ holes \subseteq holes'
  BY <1>1, <1>9, TransmitKeeps DEF TypeInv
<1>11. BusInv' /\ Remembers
  BY <1>1, <1>2, <1>10 DEF TypeInv, BusInv, Remembers, puncherVars
<1> QED BY <1>1, <1>10, <1>11 DEF TypeInv, PunchInv, JoinInv, JoinFits, Wanted, daemonVars, puncherVars, Addresses

(* The types of the network, of the nodes and of the join hold for good;   *)
(* only a NAT's new port forgets what it let in.                           *)
LEMMA NatInternetKeeps ==
    ASSUME TypeInv, Internet, UNCHANGED << daemonVars, puncherVars, gossiped >>
    PROVE  TypeInv' /\ (Remembers \/ scenario.rebinds # 0)
<1>1. ASSUME NEW n \in Nodes, NEW d \in Inbox(n), ForwardRelay(n, d) PROVE TypeInv' /\ Remembers
  BY <1>1, ForwardKeeps
<1>2. ASSUME NEW d \in wire, Drop(d) PROVE TypeInv' /\ Remembers
  <2>1. UNCHANGED << scenario, port, holes, sent, bus >> /\ wire' = wire \ {d}
    BY <1>2 DEF Drop, natVars
  <2>2. IsFiniteSet(wire') /\ Cardinality(wire') <= InFlight
    <3> DEFINE rest == wire \ {d}
    <3>1. rest \subseteq wire /\ IsFiniteSet(wire) /\ Cardinality(wire) <= InFlight /\ InFlight \in Nat
      BY TransportAssumption DEF TypeInv, NetInv
    <3> HIDE DEF rest
    <3>2. IsFiniteSet(rest) /\ Cardinality(rest) <= Cardinality(wire) /\ Cardinality(rest) \in Nat /\ Cardinality(wire) \in Nat
      BY <3>1, FS_Subset, FS_CardinalityType
    <3> QED BY <2>1, <3>1, <3>2 DEF rest
  <2>3. NetInv'
    BY <2>1, <2>2 DEF TypeInv, NetInv, Addresses
  <2> QED BY <2>1, <2>3 DEF TypeInv, BusInv, PunchInv, JoinInv, JoinFits, Wanted, daemonVars, puncherVars, Addresses, Remembers
<1>3. ASSUME NEW n \in Natted, RebindNat(n) PROVE TypeInv' /\ scenario.rebinds # 0
  <2>1. /\ port[n] < scenario.rebinds /\ port' = [port EXCEPT ![n] = @ + 1] /\ holes' \subseteq holes
        /\ UNCHANGED << scenario, wire, sent, bus >>
    BY <1>3 DEF RebindNat
  <2>2. port \in [Natted -> 0 .. scenario.rebinds] /\ scenario.rebinds \in Nat
    BY ScenarioShape DEF TypeInv, NetInv
  <2>3. port' \in [Natted -> 0 .. scenario.rebinds] /\ scenario.rebinds # 0
    BY <2>1, <2>2
  <2>4. NetInv'
    BY <2>1, <2>3 DEF TypeInv, NetInv, Addresses
  <2> QED BY <2>1, <2>3, <2>4 DEF TypeInv, BusInv, PunchInv, JoinInv, JoinFits, Wanted, daemonVars, puncherVars, Addresses
<1> QED BY <1>1, <1>2, <1>3 DEF Internet

(* A network of nodes that know only the rendezvous is typed.              *)
LEMMA TypeInit == Init => TypeInv
<1> SUFFICES ASSUME Init PROVE TypeInv
  OBVIOUS
<1>1. scenario \in Scenarios /\ scenario.rebinds \in Nat /\ scenario.sends \in Nat /\ scenario.attempts \in Nat \ {0}
      /\ \A n \in Natted : Wanted(n) \in Seq(Natted \ {n})
  BY ScenarioShape DEF Init, Wanted
<1>2. \A p \in Nodes : Nowhere \in KnownAs(scenario, p) /\ Home(p) \in KnownAs(scenario, p)
  BY <1>1, HomeIsThere DEF KnownAs
<1>3. NetInv
  <2>1. wire = {} /\ IsFiniteSet({}) /\ Cardinality({}) = 0 /\ InFlight \in Nat
    BY FS_EmptySet, TransportAssumption DEF Init
  <2>2. port \in [Natted -> 0 .. scenario.rebinds] /\ sent \in [Nodes -> 0 .. scenario.sends] /\ holes = {}
    <3>1. 0 \in 0 .. scenario.rebinds /\ 0 \in 0 .. scenario.sends
      BY <1>1
    <3> QED BY <3>1 DEF Init
  <2> QED BY <1>1, <2>1, <2>2 DEF NetInv
<1>4. ASSUME NEW n \in Nodes PROVE BusFits(scenario, n, bus[n])
  <2> DEFINE addrs == [p \in Nodes |-> IF p = Rendezvous /\ n # p THEN Home(p) ELSE Nowhere]
             relays == IF EnableRelay /\ n # Rendezvous THEN << Rendezvous >> ELSE << >>
             b == bus[n]
  <2>1. b = [addrs |-> addrs, relays |-> relays, only |-> {}, seen |-> {}]
    BY DEF Init
  <2>2. addrs = [p \in Nodes |-> addrs[p]] /\ \A p \in Nodes : addrs[p] \in KnownAs(scenario, p)
    BY <1>2
  <2>3. relays \in Seq(Nodes \ {n}) /\ IsInjective(relays)
    <3>1. CASE EnableRelay /\ n # Rendezvous
      <4>1. relays = << Rendezvous >> /\ Rendezvous \in Nodes \ {n}
        BY <3>1 DEF Nodes
      <4> HIDE DEF relays
      <4> QED BY <4>1 DEF IsInjective
    <3>2. CASE ~ (EnableRelay /\ n # Rendezvous)
      <4>1. relays = << >>
        BY <3>2
      <4> HIDE DEF relays
      <4> QED BY <4>1 DEF IsInjective
    <3> QED BY <3>1, <3>2
  <2> HIDE DEF addrs, relays, b
  <2>4. DOMAIN b = BusFields /\ b.addrs = addrs /\ b.relays = relays /\ b.only = {}
    BY <2>1 DEF BusFields
  <2> QED BY <2>2, <2>3, <2>4 DEF BusFits, b
<1>5. BusInv
  BY <1>2, <1>4 DEF BusInv, Init
<1>6. PunchInv
  <2>1. Nowhere \in Addresses
    BY DEF Addresses
  <2> QED BY <2>1 DEF PunchInv, Init
<1>7. ASSUME NEW n \in Natted PROVE JoinFits(n)
  <2>1. pc[n] = "joined" /\ next[n] = 1 /\ attempt[n] = 0
    BY DEF Init
  <2>2. 1 \in 1 .. Len(Wanted(n)) + 1
    <3> DEFINE w == Wanted(n)
    <3>1. w \in Seq(Natted \ {n})
      BY <1>1
    <3> HIDE DEF w
    <3> QED BY <3>1 DEF w
  <2>3. 0 \in 0 .. scenario.attempts /\ 0 < scenario.attempts
    <3> DEFINE k == scenario.attempts
    <3>1. k \in Nat \ {0}
      BY <1>1
    <3> HIDE DEF k
    <3> QED BY <3>1 DEF k
  <2> QED BY <2>1, <2>2, <2>3 DEF JoinFits
<1>8. JoinInv
  BY <1>7 DEF JoinInv, Init
<1> QED BY <1>3, <1>5, <1>6, <1>8 DEF TypeInv

(* Every step keeps the types.                                             *)
LEMMA TypeNext ==
    ASSUME TypeInv, [Next]_vars
    PROVE  TypeInv'
<1>1. CASE UNCHANGED vars
  BY <1>1 DEF vars, transportVars, natVars, daemonVars, puncherVars,
              TypeInv, NetInv, BusInv, PunchInv, JoinInv, JoinFits, Wanted, Addresses
<1> QED BY <1>1, ReceiveKeeps, JoinKeeps, GossipKeeps, NatInternetKeeps DEF Next

(* The invariant says what the runs check.                                 *)
LEMMA TypeInvIsTypeOK == TypeInv => TypeOK
<1> SUFFICES ASSUME TypeInv PROVE TypeOK
  OBVIOUS
<1>1. ASSUME NEW n \in Nodes
      PROVE  /\ bus[n].addrs \in [Nodes -> Addresses]
             /\ \A p \in Nodes : bus[n].addrs[p].host \in {p, "none"}
             /\ IsInjective(bus[n].relays) /\ ToSet(bus[n].relays) \subseteq Nodes \ {n}
             /\ bus[n].only \subseteq Nodes \ {n}
             /\ reachable[n] \subseteq Nodes \ {n}
  <2> DEFINE b == bus[n]
             addrs == b.addrs
  <2>1. BusFits(scenario, n, b) /\ reachable[n] \subseteq Nodes \ {n}
    BY DEF TypeInv, BusInv, PunchInv
  <2>2. scenario \in Scenarios
    BY DEF TypeInv, NetInv
  <2> HIDE DEF b
  <2>3. ASSUME NEW p \in Nodes PROVE addrs[p] \in Addresses /\ addrs[p].host \in {p, "none"}
    <3>1. addrs[p] \in KnownAs(scenario, p)
      BY <2>1 DEF BusFits
    <3> QED BY <2>2, <3>1, KnownIsAddress, KnownHost
  <2>4. addrs \in [Nodes -> Addresses]
    <3>1. addrs = [p \in Nodes |-> addrs[p]]
      BY <2>1 DEF BusFits
    <3> QED BY <2>3, <3>1
  <2>5. IsInjective(b.relays) /\ ToSet(b.relays) \subseteq Nodes \ {n} /\ b.only \subseteq Nodes \ {n}
    BY <2>1 DEF BusFits, ToSet
  <2> QED BY <2>1, <2>3, <2>4, <2>5 DEF b
<1>2. ASSUME NEW n \in Natted
      PROVE  /\ pc[n] \in {"joined", "whoami", "punch", "punching", "pause", "running"}
             /\ next[n] \in 1 .. Len(Wanted(n)) + 1 /\ attempt[n] \in 0 .. scenario.attempts
             /\ reflexive[n] \in Addresses
  BY DEF TypeInv, JoinInv, JoinFits, PunchInv
<1> QED BY <1>1, <1>2 DEF TypeOK, TypeInv, NetInv

(* The types of the bus, the NATs and the join sequence: an address a bus  *)
(* has for a peer is one of that peer's, its relays differ, and the        *)
(* sequence is at a peer it wants with attempts left (join_network and     *)
(* send over udp_bus.py).                                                  *)
THEOREM NatTypesHold == Spec => []TypeOK
BY TypeInit, TypeNext, TypeInvIsTypeOK, PTL DEF Spec

-----------------------------------------------------------------------------
(* Punching                                                                *)

(* Who dialled whom is kept by a step that forgets none of it.             *)
LEMMA PunchedStays ==
    ASSUME TypeInv, PunchedOrRelayed, Remembers \/ scenario.rebinds # 0, scenario' = scenario,
           \A n \in Natted : \A p \in reachable'[n] \cap Natted : p \in reachable[n] \/ Dialled(n, p)' \/ p \in bus'[n].only
    PROVE  PunchedOrRelayed'
<1> SUFFICES ASSUME scenario.rebinds = 0, NEW n \in Natted, NEW p \in reachable'[n] \cap Natted, p \in reachable[n]
             PROVE  Dialled(n, p)' \/ p \in bus'[n].only
  BY DEF PunchedOrRelayed
<1>1. Dialled(n, p) \/ p \in bus[n].only
  BY DEF PunchedOrRelayed
<1> QED BY <1>1 DEF Dialled, Remembers, Nodes

(* A punch that comes straight through the NAT answers a datagram of the   *)
(* node; another came by the relay.                                        *)
LEMMA PunchedReceive ==
    ASSUME TypeInv, PunchedOrRelayed, NEW n \in Nodes, NEW d \in Inbox(n), Receive(n, d)
    PROVE  PunchedOrRelayed'
<1>1. Remembers /\ HandlerDoes(n, d)
  BY ReceiveKeeps, HandlersDo DEF TypeInv
<1>2. /\ d.env.body.kind # "relay" /\ Admitted(d) /\ After(n, d).only \subseteq bus'[n].only
  BY <1>1, RepliesKeep DEF TypeInv, HandlerDoes
<1>3. Inner(d).by \in After(n, d).only \/ Inner(d) = d.env
  BY <1>2, ArrivalFits DEF TypeInv
<1>4. d.dst.host = n /\ d.src.host = d.env.by
  BY InboxFits DEF TypeInv, DatagramFits, AddressOf
<1>5. ASSUME n \in Natted PROVE Dialled(n, Inner(d).by)' \/ Inner(d).by \in bus'[n].only
  <2>1. CASE Inner(d).by \in After(n, d).only
    BY <1>2, <2>1
  <2>2. CASE Inner(d) = d.env
    <3>1. << d.dst, d.src >> \in holes'
      BY <1>1, <1>2, <1>4, <1>5 DEF Admitted, Remembers
    <3> DEFINE h == << d.dst, d.src >>
    <3>2. h \in holes' /\ h[1].host = n /\ h[2].host = Inner(d).by
      BY <1>4, <2>2, <3>1
    <3> HIDE DEF h
    <3> QED BY <3>2 DEF Dialled
  <2> QED BY <1>3, <2>1, <2>2
<1>6. ASSUME NEW m \in Natted, NEW p \in reachable'[m] \cap Natted
      PROVE  p \in reachable[m] \/ Dialled(m, p)' \/ p \in bus'[m].only
  <2>1. p \in reachable[m] \/ (m = n /\ p = Inner(d).by)
    BY <1>1 DEF HandlerDoes, TypeInv, PunchInv, Nodes
  <2> QED BY <1>5, <2>1
<1> QED BY <1>1, <1>6, PunchedStays DEF Remembers

(* Every step keeps what was punched two-sided or relayed.                 *)
LEMMA PunchedNext ==
    ASSUME TypeInv, PunchedOrRelayed, [Next]_vars
    PROVE  PunchedOrRelayed'
<1>1. ASSUME NEW n \in Nodes, NEW d \in Inbox(n), Receive(n, d) PROVE PunchedOrRelayed'
  BY <1>1, PunchedReceive
<1>2. ASSUME reachable' = reachable, Remembers \/ scenario.rebinds # 0, scenario' = scenario PROVE PunchedOrRelayed'
  BY <1>2, PunchedStays
<1>3. ASSUME NEW n \in Natted, Join(n) PROVE PunchedOrRelayed'
  BY <1>2, <1>3, JoinKeeps DEF Remembers
<1>4. ASSUME NEW n \in Natted, NEW p \in Nodes, Gossip(n, p) PROVE PunchedOrRelayed'
  BY <1>2, <1>4, GossipKeeps DEF Remembers
<1>5. CASE Internet /\ UNCHANGED << daemonVars, puncherVars, gossiped >>
  <2>1. scenario' = scenario
    BY <1>5 DEF Internet, ForwardRelay, Drop, RebindNat, natVars
  <2>2. Remembers \/ scenario.rebinds # 0
    BY <1>5, NatInternetKeeps
  <2> QED BY <1>2, <1>5, <2>1, <2>2 DEF puncherVars
<1>6. CASE UNCHANGED vars
  BY <1>6 DEF vars, transportVars, natVars, puncherVars, PunchedOrRelayed, Dialled
<1> QED BY <1>1, <1>3, <1>4, <1>5, <1>6 DEF Next

(* Hole punching takes both sides: while no NAT changes its port, whom a   *)
(* node counts as reachable it has dialled itself, or it answers him by    *)
(* the relay (_begin_punch and handle in nat.py over udp_bus.py).          *)
THEOREM PunchingTakesBoth == Spec => []PunchedOrRelayed
<1>1. Init => PunchedOrRelayed
  BY DEF Init, PunchedOrRelayed, Nodes
<1> QED BY <1>1, TypeInit, TypeNext, PunchedNext, PTL DEF Spec
=============================================================================
