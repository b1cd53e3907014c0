---------------------------- MODULE LaunchersProofs ----------------------------
(***************************************************************************)
(* What holds in every swarm the launchers start, whatever its size, the   *)
(* machines, the timing and the scenario: a beacon's page shows as active  *)
(* whom the beacon has just heard, and whomever another heard once no news *)
(* is left; bridges are within one space; an address is of the node it     *)
(* stands for; the files read at the end are of this run; a client hears   *)
(* every expert that is there; and, where only one machine runs several    *)
(* nodes, who was killed and restarted is found again.                     *)
(***************************************************************************)
EXTENDS Launchers, FiniteSetTheorems, WellFoundedInduction, TLAPS

Usable(a) == (\E h, o, l : a = Address(h, o, l)) /\ a.host # "none"

\* The shape of what a node knows.
NodeFits(b) ==
    /\ DOMAIN b = {"peers", "bus", "disc", "seen"}
    /\ DOMAIN b.bus = Nodes /\ DOMAIN b.seen = Nodes
    /\ \A p \in Nodes : b.seen[p] \in Int

HeardFits(h, t) == h \in [Nodes -> Nat \cup {Never}] /\ \A p \in Nodes : h[p] <= t

\* Whom a node heard it can dial, and has stamped since - or forgot only as stale.
Noted(b, h, t) ==
    \A p \in Nodes : h[p] # Never =>
        Usable(b.bus[p]) /\ (b.seen[p] >= h[p] \/ t - h[p] > STALE_AFTER_S)

Kept(b, h, t) == NodeFits(b) /\ HeardFits(h, t) /\ Noted(b, h, t)

HeardInv ==
    /\ scenario \in Scenarios /\ now \in Nat
    /\ DOMAIN advert = Nodes /\ \A n \in Nodes : advert[n] = Nowhere \/ Usable(advert[n])
    /\ DOMAIN node = Nodes /\ DOMAIN heard = Nodes
    /\ \A b \in Nodes : Kept(node[b], heard[b], now)

-----------------------------------------------------------------------------
(* Addresses.                                                              *)
LEMMA AdvertisedUsable ==
    ASSUME scenario \in Scenarios, NEW n \in Nodes, NEW life
    PROVE  Usable(Advertised(n, life))
<1>1. scenario.machine[n] # "none"
  BY ScenarioAssumption DEF Nodes
<1> QED BY <1>1 DEF Usable, Advertised, Address, Loopback

LEMMA ObservedUsable ==
    ASSUME scenario \in Scenarios, NEW n, NEW m \in Nodes, NEW life
    PROVE  Usable(Observed(n, m, life))
<1>1. scenario.machine[m] # "none"
  BY ScenarioAssumption DEF Nodes
<1> QED BY <1>1 DEF Usable, Observed, Address, Loopback

LEMMA UsableIsSomewhere ==
    ASSUME NEW a, Usable(a) PROVE a # Nowhere
BY DEF Usable, Address, Nowhere

-----------------------------------------------------------------------------
(* What one node learns: its record is its fields, whatever was changed.   *)

(* A node is kept whole when what it dials and its stamps are.             *)
LEMMA KeptIf ==
    ASSUME NEW b, NEW h, NEW t \in Nat, NEW u \in Nat, u >= t, Kept(b, h, t), NEW c,
           DOMAIN c = DOMAIN b, DOMAIN c.bus = Nodes, DOMAIN c.seen = Nodes,
           \A p \in Nodes : /\ b.bus[p] = Nowhere \/ c.bus[p] = b.bus[p] \/ Usable(c.bus[p])
                            /\ \/ c.seen[p] = b.seen[p] \/ c.seen[p] = u
                               \/ c.seen[p] = Never /\ u - b.seen[p] > STALE_AFTER_S
    PROVE  Kept(c, h, u)
<1>1. NodeFits(c)
  BY DEF Kept, NodeFits, Never
<1>2. HeardFits(h, u)
  <2>1. \A p \in Nodes : h[p] \in Int /\ h[p] <= t
    BY DEF Kept, HeardFits, Never
  <2> QED BY <2>1 DEF Kept, HeardFits
<1>3. Noted(c, h, u)
  <2> SUFFICES ASSUME NEW p \in Nodes, h[p] # Never
               PROVE  Usable(c.bus[p]) /\ (c.seen[p] >= h[p] \/ u - h[p] > STALE_AFTER_S)
    BY DEF Noted
  <2>1. Usable(b.bus[p]) /\ (b.seen[p] >= h[p] \/ t - h[p] > STALE_AFTER_S)
    BY DEF Kept, Noted
  <2>2. h[p] \in Nat /\ h[p] <= t /\ b.seen[p] \in Int
    BY DEF Kept, HeardFits, NodeFits, Never
  <2>3. Usable(c.bus[p])
    BY <2>1, UsableIsSomewhere
  <2>4. STALE_AFTER_S \in Nat
    BY DirectoryAssumption
  <2> QED BY <2>1, <2>2, <2>3, <2>4
<1> QED BY <1>1, <1>2, <1>3 DEF Kept

(* A datagram: the address last seen, and the stamp of now.                *)
LEMMA HearsShape ==
    ASSUME now \in Nat, NEW b, NEW h, Kept(b, h, now), NEW src, NEW m, src.of = m
    PROVE  LET c == Hears(b, src)
           IN  /\ DOMAIN c = DOMAIN b
               /\ c.bus = [b.bus EXCEPT ![m] = src] /\ c.seen = [b.seen EXCEPT ![m] = now]
BY DEF Kept, NodeFits, Hears

LEMMA HearsKeeps ==
    ASSUME now \in Nat, NEW b, NEW h, Kept(b, h, now), NEW src, NEW m, src.of = m, m \in Nodes => Usable(src)
    PROVE  /\ Kept(Hears(b, src), h, now)
           /\ m \in Nodes => Usable(Hears(b, src).bus[m]) /\ Hears(b, src).seen[m] = now
<1> DEFINE c == Hears(b, src)
<1>1. /\ DOMAIN c = DOMAIN b
      /\ c.bus = [b.bus EXCEPT ![m] = src] /\ c.seen = [b.seen EXCEPT ![m] = now]
  BY HearsShape
<1> HIDE DEF c
<1>2. DOMAIN b.bus = Nodes /\ DOMAIN b.seen = Nodes
  BY DEF Kept, NodeFits
<1>3. /\ DOMAIN c.bus = Nodes /\ DOMAIN c.seen = Nodes
      /\ \A p \in Nodes : /\ c.bus[p] = (IF p = m THEN src ELSE b.bus[p])
                          /\ c.seen[p] = (IF p = m THEN now ELSE b.seen[p])
  BY <1>1, <1>2
<1>4. Kept(c, h, now)
  BY <1>1, <1>3, KeptIf
<1> QED BY <1>3, <1>4 DEF c

(* A beacon that has just heard m may say so.                              *)
LEMMA NowHeard ==
    ASSUME now \in Nat, NEW b, NEW h, Kept(b, h, now), NEW m \in Nodes, Usable(b.bus[m]), b.seen[m] = now
    PROVE  Kept(b, [h EXCEPT ![m] = now], now)
<1>1. HeardFits([h EXCEPT ![m] = now], now)
  BY DEF Kept, HeardFits
<1>2. Noted(b, [h EXCEPT ![m] = now], now)
  BY DEF Kept, Noted, HeardFits
<1> QED BY <1>1, <1>2 DEF Kept

(* Peer exchange: news only for who had no address, and a fresh stamp.     *)
LEMMA OnPexKeeps ==
    ASSUME now \in Nat, NEW n, NEW b, NEW h, Kept(b, h, now), NEW list
    PROVE  LET c == OnPex(n, b, list)
           IN  /\ Kept(c, h, now)
               /\ \A p \in Nodes : /\ Usable(b.bus[p]) => c.bus[p] = b.bus[p]
                                   /\ b.seen[p] = now => c.seen[p] = now
<1> DEFINE i == IngestPex(n, b, list)
           c == OnPex(n, b, list)
<1>1. /\ DOMAIN i = DOMAIN b /\ i.bus = b.bus
      /\ DOMAIN i.seen = Nodes /\ \A p \in Nodes : i.seen[p] \in {b.seen[p], now}
  BY DEF Kept, NodeFits, IngestPex
<1> HIDE DEF i
<1>2. c = [i EXCEPT !.peers = @ \cup Known(i.disc),
                    !.bus = [m \in Nodes |-> IF @[m] = Nowhere THEN i.disc[m] ELSE @[m]]]
  BY DEF OnPex, i
<1>3. /\ DOMAIN c = DOMAIN b /\ DOMAIN c.bus = Nodes /\ DOMAIN c.seen = Nodes
      /\ \A p \in Nodes : /\ b.bus[p] = Nowhere \/ c.bus[p] = b.bus[p]
                          /\ c.seen[p] \in {b.seen[p], now}
  BY <1>1, <1>2 DEF Kept, NodeFits
<1> HIDE DEF c
<1>4. Kept(c, h, now)
  BY <1>3, KeptIf
<1>5. \A p \in Nodes : /\ Usable(b.bus[p]) => c.bus[p] = b.bus[p]
                       /\ b.seen[p] = now => c.seen[p] = now
  BY <1>3, UsableIsSomewhere
<1> QED BY <1>4, <1>5 DEF c

(* dispatch(), whatever the datagram, and then the history says so.        *)
LEMMA DispatchKeeps ==
    ASSUME scenario \in Scenarios, now \in Nat, NEW n \in Nodes, NEW d, Kept(node[n], heard[n], now)
    PROVE  LET c == Dispatch(n, d)
           IN  Kept(c, heard[n], now) /\ Kept(c, [heard[n] EXCEPT ![d.by] = now], now)
<1> DEFINE src == Observed(n, d.by, d.life)
           b == Hears(node[n], src)
           c == Dispatch(n, d)
<1>1. src.of = d.by
  BY DEF Observed, Address
<1>2. d.by \in Nodes => Usable(src)
  BY ObservedUsable
<1>3. Kept(b, heard[n], now) /\ (d.by \in Nodes => Usable(b.bus[d.by]) /\ b.seen[d.by] = now)
  BY <1>1, <1>2, HearsKeeps
<1>4. c = (IF d.kind = "pex" THEN OnPex(n, b, d.list) ELSE b)
  BY DEF Dispatch
<1> HIDE DEF src, b, c
<1>5. Kept(c, heard[n], now) /\ (d.by \in Nodes => Usable(c.bus[d.by]) /\ c.seen[d.by] = now)
  BY <1>3, <1>4, OnPexKeeps
<1>6. CASE d.by \in Nodes
  BY <1>5, <1>6, NowHeard DEF c
<1>7. CASE d.by \notin Nodes
  <2>1. [heard[n] EXCEPT ![d.by] = now] = heard[n]
    BY <1>7 DEF Kept, HeardFits
  <2> QED BY <2>1, <1>5 DEF c
<1> QED BY <1>6, <1>7

(* _expire_stale() forgets the stamp only of who was not heard for long.   *)
LEMMA ExpireKeeps ==
    ASSUME now \in Nat, NEW b, NEW h, Kept(b, h, now)
    PROVE  Kept(ExpireStale(b), h, now)
<1> DEFINE c == ExpireStale(b)
<1>1. /\ DOMAIN c = DOMAIN b /\ c.bus = b.bus /\ DOMAIN c.seen = Nodes
      /\ \A p \in Nodes : c.seen[p] = b.seen[p] \/ (c.seen[p] = Never /\ now - b.seen[p] > STALE_AFTER_S)
  BY DEF ExpireStale, Kept, NodeFits
<1> HIDE DEF c
<1>2. DOMAIN c.bus = Nodes
  BY <1>1 DEF Kept, NodeFits
<1>3. Kept(c, h, now)
  BY <1>1, <1>2, KeptIf
<1> QED BY <1>3 DEF c

(* A node dials another address of c, and may stamp it.                    *)
LEMMA DialKeeps ==
    ASSUME now \in Nat, NEW b, NEW h, Kept(b, h, now), NEW m, NEW a, m \in Nodes => Usable(a),
           NEW c, DOMAIN c = DOMAIN b, c.bus = [b.bus EXCEPT ![m] = a],
           c.seen = b.seen \/ c.seen = [b.seen EXCEPT ![m] = now]
    PROVE  Kept(c, h, now)
<1>1. DOMAIN b.bus = Nodes /\ DOMAIN b.seen = Nodes
  BY DEF Kept, NodeFits
<1>2. /\ DOMAIN c.bus = Nodes /\ DOMAIN c.seen = Nodes
      /\ \A p \in Nodes : /\ c.bus[p] = b.bus[p] \/ Usable(c.bus[p])
                          /\ c.seen[p] = b.seen[p] \/ c.seen[p] = now
  BY <1>1
<1> QED BY <1>2, KeptIf

LEMMA NewbornKeeps ==
    ASSUME now \in Nat
    PROVE  Kept(Newborn, [m \in Nodes |-> Never], now)
BY DEF Kept, NodeFits, HeardFits, Noted, Newborn, Unknown, Never

-----------------------------------------------------------------------------
(* The steps.                                                              *)

AdvertsFit == DOMAIN advert = Nodes /\ \A n \in Nodes : advert[n] = Nowhere \/ Usable(advert[n])

LEMMA QuietKeeps ==
    ASSUME HeardInv, UNCHANGED << scenario, now, node, advert, heard >>
    PROVE  HeardInv'
BY DEF HeardInv, Kept, NodeFits, HeardFits, Noted

(* Most steps change what one node knows, and perhaps what it heard.       *)
LEMMA OneNodeKeeps ==
    ASSUME HeardInv, NEW n, NEW c, node' = [node EXCEPT ![n] = c], UNCHANGED << scenario, now >>, AdvertsFit',
           DOMAIN heard' = Nodes, \A m \in Nodes : m # n => heard'[m] = heard[m],
           n \in Nodes => Kept(c, heard'[n], now)
    PROVE  HeardInv'
<1>1. DOMAIN node' = Nodes /\ \A m \in Nodes : node'[m] = (IF m = n THEN c ELSE node[m])
  BY DEF HeardInv
<1>2. \A m \in Nodes : Kept(node'[m], heard'[m], now)
  BY <1>1 DEF HeardInv
<1>3. \A m \in Nodes : Kept(node[m], heard[m], now)'
  BY <1>2
<1> QED BY <1>1, <1>3 DEF HeardInv, AdvertsFit

LEMMA PublishKeeps ==
    ASSUME HeardInv, UNCHANGED scenario, NEW n, NEW life, NEW ns, PublishAdvert(n, life, ns)
    PROVE  AdvertsFit'
<1>1. n \in Nodes => Usable(Advertised(n, life))
  BY AdvertisedUsable DEF HeardInv
<1> QED BY <1>1 DEF HeardInv, PublishAdvert, AdvertsFit

(* A process that starts has forgotten everything.                         *)
LEMMA StartKeeps ==
    ASSUME HeardInv, NEW n, NEW contact, NEW linked, Start(n, contact, linked)
    PROVE  HeardInv'
<1>1. AdvertsFit'
  BY PublishKeeps DEF Start
<1>2. Kept(Newborn, [m \in Nodes |-> Never], now)
  BY NewbornKeeps DEF HeardInv
<1>3. DOMAIN heard' = Nodes /\ (n \in Nodes => heard'[n] = [m \in Nodes |-> Never]) /\ \A m \in Nodes : m # n => heard'[m] = heard[m]
  BY DEF Start, HeardInv
<1> QED BY <1>1, <1>2, <1>3, OneNodeKeeps DEF Start

(* A datagram, for the federation or not.                                  *)
LEMMA DeliveryKeeps ==
    ASSUME HeardInv, NEW n, NEW d, node' = [node EXCEPT ![n] = Dispatch(n, d)],
           Heard(n, d.by) \/ UNCHANGED heard, UNCHANGED << scenario, now, advert >>
    PROVE  HeardInv'
<1>1. AdvertsFit'
  BY DEF HeardInv, AdvertsFit
<1>2. DOMAIN heard' = Nodes /\ \A m \in Nodes : m # n => heard'[m] = heard[m]
  BY DEF HeardInv, Heard
<1>3. ASSUME n \in Nodes PROVE Kept(Dispatch(n, d), heard'[n], now)
  <2>1. Kept(Dispatch(n, d), heard[n], now) /\ Kept(Dispatch(n, d), [heard[n] EXCEPT ![d.by] = now], now)
    BY <1>3, DispatchKeeps DEF HeardInv
  <2>2. heard'[n] = heard[n] \/ heard'[n] = [heard[n] EXCEPT ![d.by] = now]
    BY <1>3 DEF HeardInv, Heard
  <2> QED BY <2>1, <2>2
<1> QED BY <1>1, <1>2, <1>3, OneNodeKeeps

(* A step of a node that only dials.                                       *)
LEMMA DialingKeeps ==
    ASSUME HeardInv, NEW n \in Nodes, NEW m, NEW a, m \in Nodes => Usable(a), NEW c,
           DOMAIN c = DOMAIN node[n], c.bus = [node[n].bus EXCEPT ![m] = a],
           c.seen = node[n].seen \/ c.seen = [node[n].seen EXCEPT ![m] = now],
           node' = [node EXCEPT ![n] = c], UNCHANGED << scenario, now, advert, heard >>
    PROVE  HeardInv'
<1>1. AdvertsFit'
  BY DEF HeardInv, AdvertsFit
<1>2. Kept(c, heard[n], now)
  BY DialKeeps DEF HeardInv
<1> QED BY <1>1, <1>2, OneNodeKeeps DEF HeardInv

LEMMA LookupFindsKeeps ==
    ASSUME HeardInv, NEW n \in Nodes, LookupFinds(n)
    PROVE  HeardInv'
<1> DEFINE m == proc[n].contact
           c == [node[n] EXCEPT !.disc[m] = advert[m], !.seen[m] = now,
                                !.bus[m] = advert[m], !.peers = @ \cup {m}]
<1>1. node' = [node EXCEPT ![n] = c] /\ advert[m] # Nowhere
  BY DEF LookupFinds, Joined
<1>2. /\ DOMAIN c = DOMAIN node[n] /\ c.bus = [node[n].bus EXCEPT ![m] = advert[m]]
      /\ c.seen = [node[n].seen EXCEPT ![m] = now]
  BY DEF HeardInv, Kept, NodeFits
<1>3. UNCHANGED << scenario, now, advert, heard >>
  BY DEF LookupFinds
<1> HIDE DEF c, m
<1>4. m \in Nodes => Usable(advert[m])
  BY <1>1 DEF HeardInv
<1> QED BY <1>1, <1>2, <1>3, <1>4, DialingKeeps

LEMMA FallBackKeeps ==
    ASSUME HeardInv, NEW n \in Nodes, FallBack(n)
    PROVE  HeardInv'
<1> DEFINE m == proc[n].contact
           a == Advertised(m, proc[m].life)
           c == [node[n] EXCEPT !.disc[m] = IF @ = Nowhere THEN a ELSE @, !.bus[m] = a, !.peers = @ \cup {m}]
<1>1. /\ node' = [node EXCEPT ![n] = IF scenario.told THEN c ELSE node[n]]
      /\ UNCHANGED << scenario, now, advert, heard >>
  BY DEF FallBack, Joined
<1>2. /\ DOMAIN c = DOMAIN node[n] /\ c.bus = [node[n].bus EXCEPT ![m] = a] /\ c.seen = node[n].seen
  BY DEF HeardInv, Kept, NodeFits
<1>3. m \in Nodes => Usable(a)
  BY AdvertisedUsable DEF HeardInv
<1> HIDE DEF c, m, a
<1>4. CASE scenario.told
  <2>1. node' = [node EXCEPT ![n] = c]
    BY <1>1, <1>4
  <2>2. now \in Nat /\ Kept(node[n], heard[n], now) /\ DOMAIN heard = Nodes
    BY DEF HeardInv
  <2>3. Kept(c, heard[n], now)
    BY <1>2, <1>3, <2>2, DialKeeps
  <2>4. AdvertsFit' /\ heard' = heard
    BY <1>1 DEF HeardInv, AdvertsFit
  <2> QED BY <1>1, <2>1, <2>2, <2>3, <2>4, OneNodeKeeps
<1>5. CASE ~ scenario.told
  <2>1. Kept(node[n], heard'[n], now) /\ AdvertsFit' /\ DOMAIN heard' = Nodes
    BY <1>1 DEF HeardInv, AdvertsFit
  <2> QED BY <2>1, <1>1, <1>5, OneNodeKeeps
<1> QED BY <1>4, <1>5

LEMMA RefreshKeeps ==
    ASSUME HeardInv, NEW n \in Nodes, FastRetry(n) \/ Refresh(n)
    PROVE  HeardInv'
<1>1. AdvertsFit' /\ UNCHANGED << scenario, now, heard >>
  <2>1. UNCHANGED << scenario, now, heard >>
    BY DEF FastRetry, Refresh
  <2> QED BY <2>1, PublishKeeps DEF FastRetry, Refresh
<1>2. CASE FastRetry(n)
  BY <1>1, <1>2 DEF FastRetry, HeardInv, AdvertsFit, Kept, NodeFits, HeardFits, Noted
<1>3. CASE Refresh(n)
  <2>1. Kept(ExpireStale(node[n]), heard[n], now)
    BY ExpireKeeps DEF HeardInv
  <2>2. node' = [node EXCEPT ![n] = ExpireStale(node[n])]
    BY <1>3 DEF Refresh
  <2> QED BY <1>1, <2>1, <2>2, OneNodeKeeps DEF HeardInv
<1> QED BY <1>2, <1>3

LEMMA TickKeeps ==
    ASSUME HeardInv, Tick
    PROVE  HeardInv'
<1>1. now \in Nat /\ now' = now + 1 /\ UNCHANGED << scenario, node, advert, heard >>
  BY DEF Tick, HeardInv
<1>2. \A b \in Nodes : Kept(node[b], heard[b], now')
  <2> TAKE b \in Nodes
  <2>1. Kept(node[b], heard[b], now) /\ DOMAIN node[b].bus = Nodes /\ DOMAIN node[b].seen = Nodes
    BY DEF HeardInv, Kept, NodeFits
  <2>2. now \in Nat /\ now' \in Nat /\ now' >= now
    BY <1>1
  <2> QED BY <2>1, <2>2, KeptIf
<1>3. \A b \in Nodes : Kept(node[b], heard[b], now)'
  BY <1>1, <1>2
<1>4. now' \in Nat
  BY <1>1
<1> QED BY <1>1, <1>3, <1>4 DEF HeardInv

LEMMA DirectoryKeeps ==
    ASSUME HeardInv, DirectoryNext
    PROVE  HeardInv'
<1>1. ASSUME NEW n \in Nodes, FastRetry(n) \/ Refresh(n) \/ LookupFinds(n) \/ FallBack(n)
      PROVE  HeardInv'
  BY <1>1, RefreshKeeps, LookupFindsKeeps, FallBackKeeps
<1>2. ASSUME NEW n \in Nodes, LookupFails(n)
      PROVE  HeardInv'
  BY <1>2, QuietKeeps DEF LookupFails
<1>3. ASSUME NEW n \in Nodes, NEW m \in Nodes, NEW kind, Round(n, m, kind)
      PROVE  HeardInv'
  BY <1>3, QuietKeeps DEF Round
<1>4. ASSUME NEW d \in wire, Receive(d)
      PROVE  HeardInv'
  BY <1>4, DeliveryKeeps DEF Receive
<1>5. ASSUME NEW d \in wire, Vanish(d)
      PROVE  HeardInv'
  BY <1>5, QuietKeeps DEF Vanish
<1> QED BY <1>1, <1>2, <1>3, <1>4, <1>5, TickKeeps DEF DirectoryNext

LEMMA MeetingKeeps ==
    ASSUME HeardInv, NEW n \in Nodes, NEW m \in Nodes, Meet(n, m) \/ Bridge(n, m)
    PROVE  HeardInv'
<1> DEFINE a == Advertised(m, proc[m].life)
<1>1. UNCHANGED << scenario, now, advert, heard >>
  BY DEF Meet, Bridge
<1>2. m \in Nodes => Usable(a)
  BY AdvertisedUsable DEF HeardInv
<1>3. CASE Meet(n, m)
  <2> DEFINE c == [node[n] EXCEPT !.bus[m] = a]
  <2>1. node' = [node EXCEPT ![n] = c]
    BY <1>3 DEF Meet, HeardInv
  <2>2. DOMAIN c = DOMAIN node[n] /\ c.bus = [node[n].bus EXCEPT ![m] = a] /\ c.seen = node[n].seen
    BY DEF HeardInv, Kept, NodeFits
  <2> HIDE DEF c, a
  <2> QED BY <1>1, <1>2, <2>1, <2>2, DialingKeeps
<1>4. CASE Bridge(n, m)
  <2> DEFINE c == [node[n] EXCEPT !.bus[m] = a, !.peers = @ \cup {m}]
  <2>1. node' = [node EXCEPT ![n] = c]
    BY <1>4 DEF Bridge, HeardInv
  <2>2. DOMAIN c = DOMAIN node[n] /\ c.bus = [node[n].bus EXCEPT ![m] = a] /\ c.seen = node[n].seen
    BY DEF HeardInv, Kept, NodeFits
  <2> HIDE DEF c, a
  <2> QED BY <1>1, <1>2, <2>1, <2>2, DialingKeeps
<1> QED BY <1>3, <1>4

LEMMA CensusKeeps ==
    ASSUME HeardInv, CensusNext
    PROVE  HeardInv'
<1>1. ASSUME NEW b \in Nodes, FederationTick(b)
      PROVE  HeardInv'
  BY <1>1, QuietKeeps DEF FederationTick
<1>2. ASSUME NEW d \in wire, ReceiveCensus(d)
      PROVE  HeardInv'
  BY <1>2, DeliveryKeeps DEF ReceiveCensus
<1> QED BY <1>1, <1>2, MeetingKeeps, DirectoryKeeps DEF CensusNext

LEMMA ClientKeeps ==
    ASSUME HeardInv, ClientNext \/ RunQuery
    PROVE  HeardInv'
<1>1. ASSUME Seed PROVE HeardInv'
  <2> DEFINE c == [node[Client] EXCEPT !.bus = [e \in Nodes |-> IF e \in Experts THEN Book[e] ELSE @[e]],
                                       !.peers = @ \cup Experts]
  <2>1. Client \in Nodes
    BY DirectoryAssumption DEF Client, Nodes
  <2>2. node' = [node EXCEPT ![Client] = c] /\ UNCHANGED << scenario, now, advert, heard >>
    BY <1>1, <2>1 DEF Seed, HeardInv
  <2>3. \A e \in Experts : Usable(Book[e])
    <3>1. scenario.publicHost # "none"
      BY QueryClientAssumption DEF HeardInv
    <3>2. \A e \in Experts : Book[e] = Address(scenario.publicHost, e, 1)
      BY DEF Book, BackboneAddrs, ExpertAddrs, Experts
    <3>3. \A e : Usable(Address(scenario.publicHost, e, 1))
      BY <3>1 DEF Usable, Address
    <3> QED BY <3>2, <3>3
  <2>4. /\ DOMAIN c = DOMAIN node[Client] /\ DOMAIN c.bus = Nodes /\ c.seen = node[Client].seen
        /\ \A e \in Nodes : c.bus[e] = node[Client].bus[e] \/ Usable(c.bus[e])
    BY <2>1, <2>3 DEF HeardInv, Kept, NodeFits
  <2> HIDE DEF c
  <2>5. Kept(node[Client], heard[Client], now) /\ DOMAIN node[Client].seen = Nodes
    BY <2>1 DEF HeardInv, Kept, NodeFits
  <2>6. now \in Nat /\ AdvertsFit' /\ DOMAIN heard' = Nodes
    BY <2>2 DEF HeardInv, AdvertsFit
  <2>7. Kept(c, heard[Client], now)
    BY <2>4, <2>5, <2>6, KeptIf
  <2> QED BY <2>2, <2>6, <2>7, OneNodeKeeps
<1>2. ASSUME Classify \/ Conclude PROVE HeardInv'
  BY <1>2, QuietKeeps DEF Classify, Conclude
<1>3. ASSUME NEW d \in wire, AnswerQuery(d) \/ ReceiveAnswer(d) PROVE HeardInv'
  BY <1>3, DeliveryKeeps DEF AnswerQuery, ReceiveAnswer
<1>4. ASSUME RunQuery PROVE HeardInv'
  <2>1. Client \in Nodes /\ 0 \in Nodes
    BY DirectoryAssumption DEF Client, Nodes
  <2> QED BY <1>4, <2>1, StartKeeps DEF RunQuery, RunInfer, RunMultimodalQuery, Join
<1> QED BY <1>1, <1>2, <1>3, <1>4 DEF ClientNext

LEMMA LaunchingKeeps ==
    ASSUME HeardInv, Launching
    PROVE  HeardInv'
<1>1. ASSUME Build \/ ReadBootstrapAddr \/ Kill \/ Aggregate PROVE HeardInv'
  BY <1>1, QuietKeeps DEF Build, ReadBootstrapAddr, Kill, Aggregate, directoryVars
<1>2. ASSUME LaunchSeed \/ Restart PROVE HeardInv'
  BY <1>2, StartKeeps DEF LaunchSeed, Restart
<1>3. ASSUME LaunchNext \/ LaunchScripted PROVE HeardInv'
  <2>1. \/ \E n, contact, linked : Start(n, contact, linked)
        \/ UNCHANGED directoryVars
    BY <1>3 DEF LaunchNext, LaunchScripted
  <2> QED BY <2>1, StartKeeps, QuietKeeps DEF directoryVars
<1> QED BY <1>1, <1>2, <1>3 DEF Launching, RunBackbone, RunMultimodalBackbone, RunCross

LEMMA HeardInvInit == Init => HeardInv
<1> SUFFICES ASSUME Init PROVE HeardInv
  OBVIOUS
<1>1. DirectoryInit
  BY DEF Init, QueryInit, CensusInit
<1>2. Kept(Newborn, [m \in Nodes |-> Never], 0)
  <2>1. now \in Nat /\ now = 0
    BY <1>1 DEF DirectoryInit
  <2> QED BY <2>1, NewbornKeeps
<1> QED BY <1>1, <1>2 DEF HeardInv, DirectoryInit, Unknown

LEMMA HeardInvNext == HeardInv /\ [Next]_vars => HeardInv'
<1> SUFFICES ASSUME HeardInv, [Next]_vars PROVE HeardInv'
  OBVIOUS
<1>1. ASSUME StopScripted PROVE HeardInv'
  BY <1>1, QuietKeeps DEF StopScripted
<1>2. ASSUME NEW i, OpenMetrics(i) \/ Report(i) \/ WorkerEnds(i) \/ Leave(i) PROVE HeardInv'
  BY <1>2, QuietKeeps DEF OpenMetrics, Report, WorkerEnds, Leave, directoryVars
<1>3. ASSUME UNCHANGED vars PROVE HeardInv'
  BY <1>3, QuietKeeps DEF vars, directoryVars
<1> QED BY <1>1, <1>2, <1>3, ClientKeeps, LaunchingKeeps, CensusKeeps DEF Next

(* Whom a beacon can dial has an endpoint it can tell.                     *)
LEMMA DialledHaveEndpoints ==
    ASSUME HeardInv, ~ scenario.local, NEW b \in Nodes, NEW p \in Nodes, Usable(node[b].bus[p])
    PROVE  Endpoint(b, p) # Nowhere
<1>1. OwnHost(b) \notin {"loopback", "none"}
  BY ScenarioAssumption DEF HeardInv, OwnHost, Advertised, Address, Nodes
<1>2. node[b].bus[p] # Nowhere /\ node[b].bus[p].host # "none"
  BY UsableIsSomewhere DEF Usable
<1>3. CASE Live(node[b].disc[p])
  BY <1>3 DEF Endpoint, ResolveEndpoint, Live, Nowhere, Address
<1>4. CASE ~ Live(node[b].disc[p]) /\ Live(node[b].bus[p])
  BY <1>2, <1>4 DEF Endpoint, ResolveEndpoint
<1>5. CASE ~ Live(node[b].disc[p]) /\ ~ Live(node[b].bus[p])
  <2>1. Endpoint(b, p) = [node[b].bus[p] EXCEPT !.host = OwnHost(b)]
    BY <1>1, <1>2, <1>5 DEF Endpoint, ResolveEndpoint, Live, Loopback, Nowhere, Address
  <2>2. Endpoint(b, p).host = OwnHost(b)
    BY <2>1 DEF Usable, Address
  <2> QED BY <1>1, <2>2 DEF Nowhere, Address
<1> QED BY <1>3, <1>4, <1>5

(* HeardIsActive of Launchers, for every number of processes and every     *)
(* scenario: a peer the beacon itself heard within the window is shown, as *)
(* active, whatever was learned, forgotten or reported in between          *)
(* (dispatch in net_node.py, snapshot in beacon_status.py).                *)
THEOREM HeardPeersAreShown == Spec => []HeardIsActive
<1>1. HeardInv => HeardIsActive
  <2> SUFFICES ASSUME HeardInv, NEW b \in scenario.beacons, NEW p \in Nodes \ (registry[b] \cup {b}),
                      ~ scenario.local, heard[b][p] # Never, now - heard[b][p] <= ACTIVE_WINDOW_S
               PROVE  p \in DOMAIN Page(b) /\ Active(Page(b)[p])
    BY DEF HeardIsActive
  <2>1. b \in Nodes /\ Kept(node[b], heard[b], now) /\ now \in Nat
    BY ScenarioAssumption DEF HeardInv, Nodes
  <2>2. Usable(node[b].bus[p]) /\ (node[b].seen[p] >= heard[b][p] \/ now - heard[b][p] > STALE_AFTER_S)
    BY <2>1 DEF Kept, Noted
  <2>3. heard[b][p] \in Nat /\ node[b].seen[p] \in Int
    BY <2>1 DEF Kept, HeardFits, NodeFits, Never
  <2>4. node[b].seen[p] >= heard[b][p]
    BY <2>1, <2>2, <2>3, CensusAssumption, DirectoryAssumption
  <2>5. Endpoint(b, p) # Nowhere
    BY <2>1, <2>2, DialledHaveEndpoints
  <2>6. p \in LocalRows(b)
    BY <2>2, <2>5, UsableIsSomewhere DEF LocalRows, Known
  <2>7. p \in DOMAIN Page(b) /\ Page(b)[p].seen = node[b].seen[p]
    BY <2>6 DEF Page
  <2>8. node[b].seen[p] # Never /\ now - node[b].seen[p] <= ACTIVE_WINDOW_S
    BY <2>1, <2>3, <2>4, CensusAssumption, DirectoryAssumption DEF Never
  <2> QED BY <2>7, <2>8 DEF Active
<1> QED BY <1>1, HeardInvInit, HeardInvNext, PTL DEF Spec

-----------------------------------------------------------------------------
(* Bridges: a beacon that bridged to another compared fingerprints, and    *)
(* neither has another configuration since.                                *)
BridgeInv ==
    /\ DOMAIN bridged = Nodes
    /\ \A b, c \in Nodes : c \in bridged[b] => SpaceFingerprint(b) = SpaceFingerprint(c)

(* The fingerprint says all that the meaning of a prototype depends on,    *)
(* although it has the projection and not the centers in it.               *)
LEMMA FingerprintDecidesSpace ==
    ASSUME NEW b, NEW c, SpaceFingerprint(b) = SpaceFingerprint(c)
    PROVE  Space(BuildTask(b)) = Space(BuildTask(c))
<1>1. /\ Config(b).name = Config(c).name /\ Config(b).dim = Config(c).dim
      /\ Config(b).world_seed = Config(c).world_seed
  BY DEF SpaceFingerprint
<1>2. CASE Config(b).name = "digits"
  BY <1>1, <1>2 DEF BuildTask, DigitsTask, Space
<1>3. CASE Config(b).name # "digits"
  BY <1>1, <1>3 DEF BuildTask, SyntheticTask, Space
<1> QED BY <1>2, <1>3

LEMMA DirectoryBridges == DirectoryNext => scenario' = scenario
BY DEF DirectoryNext, FastRetry, Refresh, LookupFinds, LookupFails, FallBack, Round, Receive, Vanish, Tick

LEMMA OnlyBridgeBridges ==
    ASSUME [Next]_vars
    PROVE  \/ \E b, c \in Nodes : Bridge(b, c)
           \/ UNCHANGED << scenario, bridged >>
<1>1. ASSUME ClientNext \/ RunQuery PROVE UNCHANGED << scenario, bridged >>
  BY <1>1 DEF ClientNext, RunQuery, RunInfer, RunMultimodalQuery, Join, Start, Seed, Classify, Conclude,
              AnswerQuery, ReceiveAnswer, censusVars
<1>2. ASSUME Launching PROVE UNCHANGED << scenario, bridged >>
  BY <1>2 DEF Launching, Build, LaunchSeed, ReadBootstrapAddr, LaunchNext, Kill, Restart, Aggregate,
              RunBackbone, RunMultimodalBackbone, RunCross, LaunchScripted, Start, directoryVars, censusVars
<1>3. ASSUME NEW i, StopScripted \/ OpenMetrics(i) \/ Report(i) \/ WorkerEnds(i) \/ Leave(i)
      PROVE  UNCHANGED << scenario, bridged >>
  BY <1>3 DEF StopScripted, OpenMetrics, Report, WorkerEnds, Leave, directoryVars, censusVars
<1>4. ASSUME CensusNext PROVE (\E b, c \in Nodes : Bridge(b, c)) \/ UNCHANGED << scenario, bridged >>
  BY <1>4, DirectoryBridges DEF CensusNext, Meet, FederationTick, ReceiveCensus, censusVars
<1> QED BY <1>1, <1>2, <1>3, <1>4 DEF Next, vars, directoryVars, censusVars

(* BridgedShareSpace of Launchers: however beacons are configured, a       *)
(* bridge joins beacons whose prototypes mean the same                     *)
(* (space_fingerprint and _bridge_beacon in federation.py).                *)
THEOREM BridgesStayInOneSpace == Spec => []BridgedShareSpace
<1>1. Init => BridgeInv
  BY DEF Init, QueryInit, CensusInit, BridgeInv
<1>2. BridgeInv /\ [Next]_vars => BridgeInv'
  <2> SUFFICES ASSUME BridgeInv, [Next]_vars PROVE BridgeInv'
    OBVIOUS
  <2>1. CASE UNCHANGED << scenario, bridged >>
    BY <2>1 DEF BridgeInv, SpaceFingerprint, Config, BuildTask, DigitsTask, SyntheticTask
  <2>2. ASSUME NEW b \in Nodes, NEW c \in Nodes, Bridge(b, c) PROVE BridgeInv'
    <3>1. bridged' = [bridged EXCEPT ![b] = @ \cup {c}] /\ SpaceFingerprint(b) = SpaceFingerprint(c)
      BY <2>2 DEF Bridge
    <3>2. scenario' = scenario
      BY <2>2 DEF Bridge
    <3>3. \A d : SpaceFingerprint(d)' = SpaceFingerprint(d)
      BY <3>2 DEF SpaceFingerprint, Config, BuildTask, DigitsTask, SyntheticTask
    <3>4. DOMAIN bridged' = Nodes
          /\ \A d, e \in Nodes : e \in bridged'[d] => e \in bridged[d] \/ (d = b /\ e = c)
      BY <3>1 DEF BridgeInv
    <3>5. \A d, e \in Nodes : e \in bridged'[d] => SpaceFingerprint(d) = SpaceFingerprint(e)
      BY <3>1, <3>4 DEF BridgeInv
    <3> QED BY <3>3, <3>4, <3>5 DEF BridgeInv
  <2> QED BY <2>1, <2>2, OnlyBridgeBridges
<1>3. BridgeInv => BridgedShareSpace
  BY FingerprintDecidesSpace DEF BridgeInv, BridgedShareSpace
<1> QED BY <1>1, <1>2, <1>3, PTL DEF Spec

-----------------------------------------------------------------------------
(* Pages: what a beacon heard is among its peers, and its census says so.  *)

(* Whom a beacon has heard is a peer of it, and it lists beacons only.     *)
PeersInv ==
    /\ DOMAIN registry = Nodes
    /\ \A b \in Nodes : registry[b] \subseteq scenario.beacons \ {b}
    /\ \A b, p \in Nodes : heard[b][p] # Never => p \in node[b].peers

\* A node keeps its peers, and hears of none that is no peer, unless it
\* starts with nothing.
KeepsPeers(b) ==
    \/ heard'[b] = [m \in Nodes |-> Never]
    \/ /\ node[b].peers \subseteq node'[b].peers
       /\ \A p \in Nodes : heard'[b][p] = heard[b][p] \/ p \in node'[b].peers

(* Knowing and hearing nothing new.                                        *)
LEMMA QuietPeers ==
    ASSUME UNCHANGED << node, heard >> PROVE \A b \in Nodes : KeepsPeers(b)
BY DEF KeepsPeers

(* One node learns of peers, and hears one of them.                        *)
LEMMA OnePeers ==
    ASSUME HeardInv, NEW n, NEW c, node' = [node EXCEPT ![n] = c], n \in Nodes => node[n].peers \subseteq c.peers,
           \/ UNCHANGED heard
           \/ \E m \in Nodes : /\ n \in Nodes => m \in c.peers
                               /\ heard' = [heard EXCEPT ![n][m] = now]
           \/ \E m : m \notin Nodes /\ heard' = [heard EXCEPT ![n][m] = now]
    PROVE  \A b \in Nodes : KeepsPeers(b)
<1> SUFFICES ASSUME NEW b \in Nodes PROVE KeepsPeers(b)
  OBVIOUS
<1>1. node'[b] = IF b = n THEN c ELSE node[b]
  BY DEF HeardInv
<1>2. DOMAIN heard = Nodes /\ DOMAIN heard[b] = Nodes
  BY DEF HeardInv, Kept, HeardFits
<1>3. \A p \in Nodes : heard'[b][p] = heard[b][p] \/ (b = n /\ p \in c.peers)
  BY <1>2
<1> QED BY <1>1, <1>3 DEF KeepsPeers

(* dispatch() takes the sender for a peer, and drops none.                 *)
LEMMA DispatchPeers ==
    ASSUME HeardInv, NEW n \in Nodes, NEW d
    PROVE  node[n].peers \cup {d.by} \subseteq Dispatch(n, d).peers
<1> DEFINE src == Observed(n, d.by, d.life)
           b == Hears(node[n], src)
<1>1. src.of = d.by
  BY DEF Observed, Address
<1>2. DOMAIN node[n] = {"peers", "bus", "disc", "seen"}
  BY DEF HeardInv, Kept, NodeFits
<1> HIDE DEF src
<1>3. b.peers = node[n].peers \cup {d.by} /\ DOMAIN b = {"peers", "bus", "disc", "seen"}
  BY <1>1, <1>2 DEF Hears
<1> HIDE DEF b
<1>4. b.peers \subseteq OnPex(n, b, d.list).peers
  <2> DEFINE i == IngestPex(n, b, d.list)
  <2>1. DOMAIN i = {"peers", "bus", "disc", "seen"} /\ i.peers = b.peers
    BY <1>3 DEF IngestPex
  <2> HIDE DEF i
  <2> QED BY <2>1 DEF OnPex, i
<1>5. Dispatch(n, d) = IF d.kind = "pex" THEN OnPex(n, b, d.list) ELSE b
  BY DEF Dispatch, src, b
<1> QED BY <1>3, <1>4, <1>5

(* A datagram that arrives.                                                *)
LEMMA DeliveryPeers ==
    ASSUME HeardInv, NEW n, NEW d, node' = [node EXCEPT ![n] = Dispatch(n, d)], Heard(n, d.by) \/ UNCHANGED heard
    PROVE  \A b \in Nodes : KeepsPeers(b)
<1>1. n \in Nodes => node[n].peers \cup {d.by} \subseteq Dispatch(n, d).peers
  BY DispatchPeers
<1> DEFINE c == Dispatch(n, d)
           m == d.by
<1>2. UNCHANGED heard \/ heard' = [heard EXCEPT ![n][m] = now]
  BY DEF Heard
<1>3. node' = [node EXCEPT ![n] = c] /\ (n \in Nodes => node[n].peers \subseteq c.peers /\ m \in c.peers)
  BY <1>1
<1> HIDE DEF c, m
<1> QED BY <1>2, <1>3, OnePeers

(* A process that starts has heard nobody.                                 *)
LEMMA StartPeers ==
    ASSUME HeardInv, NEW n, NEW contact, NEW linked, Start(n, contact, linked)
    PROVE  \A b \in Nodes : KeepsPeers(b)
BY DEF Start, KeepsPeers, HeardInv

(* The steps of Directory, of Census and of the launchers.                 *)
LEMMA DirectoryPeers ==
    ASSUME HeardInv, DirectoryNext
    PROVE  \A b \in Nodes : KeepsPeers(b)
<1>1. ASSUME NEW n \in Nodes, LookupFails(n) \/ FastRetry(n) \/ (\E m, kind : Round(n, m, kind)) PROVE \A b \in Nodes : KeepsPeers(b)
  BY <1>1, QuietPeers DEF LookupFails, FastRetry, Round
<1>2. ASSUME NEW n \in Nodes, NEW c, Refresh(n) \/ LookupFinds(n) \/ FallBack(n),
             c = node'[n]
      PROVE \A b \in Nodes : KeepsPeers(b)
  <2>1. UNCHANGED heard /\ node' = [node EXCEPT ![n] = c] /\ node[n].peers \subseteq c.peers
    <3>1. DOMAIN node[n] = {"peers", "bus", "disc", "seen"} /\ DOMAIN node = Nodes
      BY DEF HeardInv, Kept, NodeFits
    <3>2. CASE Refresh(n)
      BY <3>1, <3>2, <1>2 DEF Refresh, ExpireStale
    <3>3. CASE LookupFinds(n)
      BY <3>1, <3>3, <1>2 DEF LookupFinds, Joined
    <3>4. CASE FallBack(n)
      BY <3>1, <3>4, <1>2 DEF FallBack, Joined
    <3> QED BY <1>2, <3>2, <3>3, <3>4
  <2> QED BY <2>1, OnePeers
<1>3. ASSUME NEW d \in wire, Receive(d) PROVE \A b \in Nodes : KeepsPeers(b)
  BY <1>3, DeliveryPeers DEF Receive
<1>4. ASSUME Tick \/ \E d \in wire : Vanish(d) PROVE \A b \in Nodes : KeepsPeers(b)
  BY <1>4, QuietPeers DEF Tick, Vanish
<1> QED BY <1>1, <1>2, <1>3, <1>4 DEF DirectoryNext

LEMMA CensusPeers ==
    ASSUME HeardInv, CensusNext
    PROVE  \A b \in Nodes : KeepsPeers(b)
<1>1. ASSUME NEW n \in Nodes, NEW m \in Nodes, Meet(n, m) \/ Bridge(n, m), NEW c, c = node'[n] PROVE \A b \in Nodes : KeepsPeers(b)
  <2>1. DOMAIN node[n] = {"peers", "bus", "disc", "seen"} /\ DOMAIN node = Nodes
    BY DEF HeardInv, Kept, NodeFits
  <2>2. UNCHANGED heard /\ node' = [node EXCEPT ![n] = c] /\ node[n].peers \subseteq c.peers
    <3>1. CASE Meet(n, m)
      BY <2>1, <3>1, <1>1 DEF Meet
    <3>2. CASE Bridge(n, m)
      BY <2>1, <3>2, <1>1 DEF Bridge
    <3> QED BY <1>1, <3>1, <3>2
  <2> QED BY <2>2, OnePeers
<1>2. ASSUME NEW b \in Nodes, FederationTick(b) PROVE \A n \in Nodes : KeepsPeers(n)
  BY <1>2, QuietPeers DEF FederationTick
<1>3. ASSUME NEW d \in wire, ReceiveCensus(d) PROVE \A b \in Nodes : KeepsPeers(b)
  BY <1>3, DeliveryPeers DEF ReceiveCensus
<1> QED BY <1>1, <1>2, <1>3, DirectoryPeers DEF CensusNext

LEMMA LaunchingPeers ==
    ASSUME HeardInv, [Next]_vars, ~ CensusNext
    PROVE  \A b \in Nodes : KeepsPeers(b)
<1>1. ASSUME Seed, NEW c, c = node'[Client] PROVE \A b \in Nodes : KeepsPeers(b)
  <2>1. DOMAIN node[Client] = {"peers", "bus", "disc", "seen"} /\ DOMAIN node = Nodes /\ Client \in Nodes
    BY DirectoryAssumption DEF HeardInv, Kept, NodeFits, Client, Nodes
  <2>2. UNCHANGED heard /\ node' = [node EXCEPT ![Client] = c] /\ node[Client].peers \subseteq c.peers
    BY <2>1, <1>1 DEF Seed
  <2> QED BY <2>2, OnePeers
<1>2. ASSUME NEW d \in wire, AnswerQuery(d) \/ ReceiveAnswer(d) PROVE \A b \in Nodes : KeepsPeers(b)
  BY <1>2, DeliveryPeers DEF AnswerQuery, ReceiveAnswer
<1>3. ASSUME NEW n, NEW contact, NEW linked, Start(n, contact, linked) PROVE \A b \in Nodes : KeepsPeers(b)
  BY <1>3, StartPeers
<1>4. ASSUME RunQuery PROVE \E n, contact, linked : Start(n, contact, linked)
  BY <1>4 DEF RunQuery, RunInfer, RunMultimodalQuery, Join
<1>5. ASSUME Launching PROVE UNCHANGED << node, heard >> \/ \E n, contact, linked : Start(n, contact, linked)
  BY <1>5 DEF Launching, Build, LaunchSeed, ReadBootstrapAddr, LaunchNext, Kill, Restart, Aggregate,
              RunBackbone, RunMultimodalBackbone, RunCross, LaunchScripted, directoryVars
<1>6. ASSUME NEW i, StopScripted \/ OpenMetrics(i) \/ Report(i) \/ WorkerEnds(i) \/ Leave(i) \/ Classify \/ Conclude \/ UNCHANGED vars
      PROVE UNCHANGED << node, heard >>
  BY <1>6 DEF StopScripted, OpenMetrics, Report, WorkerEnds, Leave, Classify, Conclude, vars, directoryVars
<1> QED BY <1>1, <1>2, <1>3, <1>4, <1>5, <1>6, QuietPeers DEF Next, ClientNext

(* Only a beacon that meets another registers it.                          *)
LEMMA RegistrySteps ==
    ASSUME [Next]_vars
    PROVE  /\ scenario' = scenario
           /\ \/ registry' = registry
              \/ \E b \in Nodes \cap scenario.beacons, c \in scenario.beacons : b # c /\ registry' = [registry EXCEPT ![b] = @ \cup {c}]
<1>1. ASSUME ClientNext \/ RunQuery PROVE UNCHANGED << scenario, registry >>
  BY <1>1 DEF ClientNext, RunQuery, RunInfer, RunMultimodalQuery, Join, Start, Seed, Classify, Conclude,
              AnswerQuery, ReceiveAnswer, censusVars
<1>2. ASSUME Launching PROVE UNCHANGED << scenario, registry >>
  BY <1>2 DEF Launching, Build, LaunchSeed, ReadBootstrapAddr, LaunchNext, Kill, Restart, Aggregate,
              RunBackbone, RunMultimodalBackbone, RunCross, LaunchScripted, Start, directoryVars, censusVars
<1>3. ASSUME NEW i, StopScripted \/ OpenMetrics(i) \/ Report(i) \/ WorkerEnds(i) \/ Leave(i)
      PROVE  UNCHANGED << scenario, registry >>
  BY <1>3 DEF StopScripted, OpenMetrics, Report, WorkerEnds, Leave, directoryVars, censusVars
<1>4. ASSUME NEW b \in Nodes, NEW c \in Nodes, Meet(b, c)
      PROVE  scenario' = scenario /\ {b, c} \subseteq scenario.beacons /\ b # c /\ registry' = [registry EXCEPT ![b] = @ \cup {c}]
  BY <1>4 DEF Meet
<1>5. ASSUME CensusNext, \A b, c \in Nodes : ~ Meet(b, c) PROVE UNCHANGED << scenario, registry >>
  BY <1>5, DirectoryBridges DEF CensusNext, Bridge, FederationTick, ReceiveCensus, censusVars
<1> QED BY <1>1, <1>2, <1>3, <1>4, <1>5 DEF Next, vars, directoryVars, censusVars

(* PeersInv is inductive.                                                  *)
LEMMA PeersNext ==
    ASSUME HeardInv, PeersInv, [Next]_vars
    PROVE  PeersInv'
<1>1. \A b \in Nodes : KeepsPeers(b)
  BY CensusPeers, LaunchingPeers
<1>2. \A b, p \in Nodes : heard'[b][p] # Never => p \in node'[b].peers
  BY <1>1 DEF KeepsPeers, PeersInv
<1>3. DOMAIN registry' = Nodes /\ \A b \in Nodes : registry'[b] \subseteq scenario'.beacons \ {b}
  <2>1. CASE registry' = registry
    BY <2>1, RegistrySteps DEF PeersInv
  <2>2. ASSUME NEW b \in Nodes, NEW c \in scenario.beacons, b # c, registry' = [registry EXCEPT ![b] = @ \cup {c}]
        PROVE  DOMAIN registry' = Nodes /\ \A n \in Nodes : registry'[n] \subseteq scenario.beacons \ {n}
    BY <2>2 DEF PeersInv
  <2> QED BY <2>1, <2>2, RegistrySteps
<1> QED BY <1>2, <1>3 DEF PeersInv

(* PagesAreComplete of Launchers, for every number of processes and every  *)
(* scenario: once no beacon has news for another, the page of each lists   *)
(* whomever one of them heard (tick in federation.py, _census_source in    *)
(* net_node.py, snapshot in beacon_status.py).                             *)
THEOREM CensusCompletesPages == Spec => []PagesAreComplete
<1>1. Init => PeersInv
  BY ScenarioAssumption DEF Init, QueryInit, CensusInit, DirectoryInit, PeersInv, Nodes
<1>2. HeardInv /\ PeersInv => PagesAreComplete
  <2> SUFFICES ASSUME HeardInv, PeersInv, CensusSettled, NEW b \in scenario.beacons, NEW c \in scenario.beacons,
                      NEW p \in Nodes \ scenario.beacons, Up(b), Up(c), heard[c][p] # Never, ~ scenario.local
               PROVE  p \in DOMAIN Page(b)
    BY DEF PagesAreComplete
  <2>1. b \in Nodes /\ c \in Nodes
    BY ScenarioAssumption DEF HeardInv, Nodes
  <2>2. p \in node[c].peers /\ p \notin registry[c] \cup {c}
    BY <2>1 DEF PeersInv
  <2>3. Usable(node[c].bus[p])
    BY <2>1 DEF HeardInv, Kept, Noted
  <2>4. Endpoint(c, p) # Nowhere
    BY <2>1, <2>3, DialledHaveEndpoints
  <2>5. CASE b = c
    BY <2>2, <2>3, <2>4, <2>5, UsableIsSomewhere DEF LocalRows, Known, Page
  <2>6. CASE b # c
    <3>1. p \in Known(CensusSource(c)) \ {b}
      BY <2>2, <2>4 DEF Known, CensusSource
    <3>2. c \in Vouchers(census[b][p])
      BY <2>6, <3>1 DEF CensusSettled
    <3> QED BY <3>2 DEF RemoteRows, Page
  <2> QED BY <2>5, <2>6
<1> QED BY <1>1, <1>2, PeersNext, HeardInvInit, HeardInvNext, PTL DEF Spec

-----------------------------------------------------------------------------
(* Processes: who is started, goes on, and is stopped.                     *)

ProcFits(n, p) ==
    /\ DOMAIN p = {"state", "life", "contact", "linked", "tries"}
    /\ p.state \in {"down", "starting", "up"} /\ (p.state = "starting" => p.contact # n)
    /\ p.life \in Nat /\ p.contact \in Nodes /\ p.tries \in 0 .. LookupRounds

ProcInv ==
    /\ scenario \in Scenarios
    /\ DOMAIN proc = Nodes /\ \A n \in Nodes : ProcFits(n, proc[n])
    /\ DOMAIN launcher = {"pc", "plan", "next", "boot", "victims"} /\ launcher.next \in Nat \ {0}

Starts == \E n, linked : \E contact \in Nodes : Start(n, contact, linked)

\* What else may happen to a process.
StartingGoesOn ==
    \E n \in Nodes :
        /\ proc[n].state = "starting"
        /\ \/ proc' = [proc EXCEPT ![n].state = "up"]
           \/ proc[n].tries < LookupRounds /\ proc' = [proc EXCEPT ![n].tries = @ + 1]

ProcStep == proc' = proc \/ Starts \/ StartingGoesOn \/ \E ns : Stopped(ns)

(* Joining is all that happens to a process in Directory.                  *)
LEMMA DirectoryProcs ==
    ASSUME DirectoryNext PROVE proc' = proc \/ StartingGoesOn
<1>1. ASSUME NEW n \in Nodes, LookupFinds(n) \/ FallBack(n) PROVE StartingGoesOn
  <2>1. proc[n].state = "starting" /\ proc' = [proc EXCEPT ![n].state = "up"]
    BY <1>1 DEF LookupFinds, FallBack, Joined
  <2> QED BY <2>1 DEF StartingGoesOn
<1>2. ASSUME NEW n \in Nodes, LookupFails(n) PROVE StartingGoesOn
  BY <1>2 DEF LookupFails, StartingGoesOn
<1>3. ASSUME NEW n \in Nodes, FastRetry(n) \/ Refresh(n) \/ (\E m, kind : Round(n, m, kind)) PROVE proc' = proc
  BY <1>3 DEF FastRetry, Refresh, Round
<1>4. ASSUME Tick \/ \E d \in wire : Receive(d) \/ Vanish(d) PROVE proc' = proc
  BY <1>4 DEF Tick, Receive, Vanish
<1> QED BY <1>1, <1>2, <1>3, <1>4 DEF DirectoryNext

(* A process is started, goes on joining or is stopped, and nothing else.  *)
LEMMA ProcSteps ==
    ASSUME ProcInv, [Next]_vars
    PROVE  ProcStep /\ scenario' = scenario
<1>0. 0 \in Nodes
  BY DirectoryAssumption DEF Nodes
<1>1. ASSUME CensusNext PROVE proc' = proc \/ StartingGoesOn
  BY <1>1, DirectoryProcs DEF CensusNext, Meet, Bridge, FederationTick, ReceiveCensus
<1>2. ASSUME ClientNext PROVE proc' = proc \/ \E ns : Stopped(ns)
  BY <1>2 DEF ClientNext, Seed, Classify, Conclude, AnswerQuery, ReceiveAnswer
<1>3. ASSUME RunQuery PROVE Starts
  BY <1>0, <1>3 DEF RunQuery, RunInfer, RunMultimodalQuery, Join, Starts
<1>4. ASSUME LaunchSeed \/ Restart PROVE Starts
  BY <1>0, <1>4 DEF LaunchSeed, Restart, Starts
<1>5. ASSUME LaunchNext PROVE Starts \/ proc' = proc
  BY <1>0, <1>5 DEF LaunchNext, Starts, directoryVars
<1>6. ASSUME LaunchScripted PROVE Starts \/ proc' = proc
  <2>1. CASE launcher.next <= Len(Script)
    <3> DEFINE i == launcher.next
               s == Script
    <3>1. s \in Seq([node : Nodes, contact : Nodes])
      BY LauncherAssumption DEF ProcInv, Script
    <3> HIDE DEF s
    <3>2. i \in Nat \ {0} /\ i <= Len(s)
      BY <2>1 DEF ProcInv, s
    <3> HIDE DEF i
    <3>3. s[i] \in [node : Nodes, contact : Nodes]
      <4> DEFINE S == [node : Nodes, contact : Nodes]
      <4>1. s \in Seq(S)
        BY <3>1
      <4> HIDE DEF S
      <4>2. i \in 1 .. Len(s) /\ s \in [1 .. Len(s) -> S]
        BY <3>2, <4>1
      <4>3. s[i] \in S
        BY <4>2
      <4> QED BY <4>3 DEF S
    <3>4. Script[launcher.next].contact \in Nodes
      BY <3>3 DEF s, i
    <3> QED BY <1>6, <2>1, <3>4 DEF LaunchScripted, Starts
  <2> QED BY <1>6, <2>1 DEF LaunchScripted, directoryVars
<1>7. ASSUME NEW i, Build \/ ReadBootstrapAddr \/ Aggregate \/ OpenMetrics(i) \/ Report(i) \/ UNCHANGED vars PROVE proc' = proc
  BY <1>7 DEF Build, ReadBootstrapAddr, Aggregate, OpenMetrics, Report, vars, directoryVars
<1>8. ASSUME NEW i, Kill \/ StopScripted \/ WorkerEnds(i) \/ Leave(i) PROVE \E ns : Stopped(ns)
  BY <1>8 DEF Kill, StopScripted, WorkerEnds, Leave
<1>9. ProcStep
  BY <1>1, <1>2, <1>3, <1>4, <1>5, <1>6, <1>7, <1>8
     DEF ProcStep, Next, Launching, RunBackbone, RunMultimodalBackbone, RunCross
<1> QED BY <1>9, RegistrySteps

(* A launcher starts one node at a time.                                   *)
LEMMA LauncherSteps ==
    ASSUME ProcInv, [Next]_vars
    PROVE  DOMAIN launcher' = DOMAIN launcher /\ launcher'.next \in {launcher.next, launcher.next + 1}
<1> DEFINE fields == {"pc", "plan", "next", "boot", "victims"}
<1>0. DOMAIN launcher = fields /\ launcher.next \in Nat
  BY DEF ProcInv
<1>1. ASSUME ClientNext \/ RunQuery \/ CensusNext \/ UNCHANGED vars, UNCHANGED launcher PROVE DOMAIN launcher' = DOMAIN launcher /\ launcher'.next = launcher.next
  BY <1>1
<1>2. ASSUME NEW i, OpenMetrics(i) \/ Report(i) \/ WorkerEnds(i) \/ Leave(i) PROVE launcher' = launcher
  BY <1>2 DEF OpenMetrics, Report, WorkerEnds, Leave
<1>3. ASSUME Build \/ LaunchSeed \/ ReadBootstrapAddr \/ Kill \/ Restart \/ Aggregate \/ StopScripted
      PROVE DOMAIN launcher' = fields /\ launcher'.next = launcher.next
  <2>1. CASE Build
    BY <2>1, <1>0 DEF Build, Plan
  <2>2. CASE LaunchSeed \/ ReadBootstrapAddr
    BY <2>2, <1>0 DEF LaunchSeed, ReadBootstrapAddr
  <2>3. CASE Kill \/ Restart \/ Aggregate \/ StopScripted
    BY <2>3, <1>0 DEF Kill, Restart, Aggregate, StopScripted
  <2> QED BY <1>3, <2>1, <2>2, <2>3
<1>4. ASSUME LaunchNext \/ LaunchScripted PROVE DOMAIN launcher' = fields /\ launcher'.next \in {launcher.next, launcher.next + 1}
  BY <1>4, <1>0 DEF LaunchNext, LaunchScripted
<1>5. ASSUME ClientNext \/ RunQuery \/ CensusNext \/ UNCHANGED vars PROVE UNCHANGED launcher \/ Next
  BY <1>5 DEF vars
<1> QED BY <1>0, <1>1, <1>2, <1>3, <1>4 DEF Next, Launching, RunBackbone, RunMultimodalBackbone, RunCross, vars

(* ProcInv is inductive.                                                   *)
LEMMA ProcNext ==
    ASSUME ProcInv, [Next]_vars
    PROVE  ProcInv'
<1>1. DOMAIN launcher' = {"pc", "plan", "next", "boot", "victims"} /\ launcher'.next \in Nat \ {0} /\ scenario' \in Scenarios
  BY ProcSteps, LauncherSteps DEF ProcInv
<1>2. DOMAIN proc' = Nodes /\ \A n \in Nodes : ProcFits(n, proc'[n])
  <2>1. CASE proc' = proc
    BY <2>1 DEF ProcInv
  <2>2. CASE Starts
    <3>1. PICK n, linked : \E contact \in Nodes : Start(n, contact, linked)
      BY <2>2 DEF Starts
    <3>2. PICK contact \in Nodes : Start(n, contact, linked)
      BY <3>1
    <3> DEFINE p == [state |-> IF contact = n THEN "up" ELSE "starting", life |-> proc[n].life + 1,
                     contact |-> contact, linked |-> linked, tries |-> 0]
    <3>3. proc' = [proc EXCEPT ![n] = p]
      BY <3>2 DEF Start
    <3>4. ASSUME n \in Nodes PROVE ProcFits(n, p)
      BY <3>4, DirectoryAssumption DEF ProcInv, ProcFits
    <3> HIDE DEF p
    <3> QED BY <3>3, <3>4 DEF ProcInv
  <2>3. CASE StartingGoesOn
    <3>1. PICK n \in Nodes : /\ proc[n].state = "starting"
                             /\ \/ proc' = [proc EXCEPT ![n].state = "up"]
                                \/ proc[n].tries < LookupRounds /\ proc' = [proc EXCEPT ![n].tries = @ + 1]
      BY <2>3 DEF StartingGoesOn
    <3>2. ProcFits(n, proc[n])
      BY DEF ProcInv
    <3>3. ProcFits(n, proc'[n])
      <4>1. CASE proc' = [proc EXCEPT ![n].state = "up"]
        BY <3>2, <4>1 DEF ProcInv, ProcFits
      <4>2. CASE proc[n].tries < LookupRounds /\ proc' = [proc EXCEPT ![n].tries = @ + 1]
        BY <3>2, <4>2, DirectoryAssumption DEF ProcInv, ProcFits
      <4> QED BY <3>1, <4>1, <4>2
    <3>4. DOMAIN proc' = Nodes /\ \A m \in Nodes : m # n => proc'[m] = proc[m]
      BY <3>1 DEF ProcInv
    <3> QED BY <3>3, <3>4 DEF ProcInv
  <2>4. ASSUME NEW ns, Stopped(ns) PROVE DOMAIN proc' = Nodes /\ \A n \in Nodes : ProcFits(n, proc'[n])
    BY <2>4 DEF Stopped, ProcInv, ProcFits
  <2> QED BY <2>1, <2>2, <2>3, <2>4, ProcSteps DEF ProcStep
<1> QED BY <1>1, <1>2 DEF ProcInv

LEMMA ProcInit == Init => ProcInv
<1> SUFFICES ASSUME Init PROVE ProcInv
  OBVIOUS
<1>1. DirectoryInit
  BY DEF Init, QueryInit, CensusInit
<1>2. \A n \in Nodes : ProcFits(n, proc[n])
  BY <1>1, DirectoryAssumption DEF DirectoryInit, ProcFits
<1> QED BY <1>1, <1>2 DEF DirectoryInit, Init, ProcInv

-----------------------------------------------------------------------------
(* Addresses: every one that a node has is of the node it stands for.      *)

AddressOf(a, m) == Usable(a) /\ a.of = m
Perhaps(a, m) == a = Nowhere \/ AddressOf(a, m)

\* Only whom start() was told of has an address without a stamp.
Told(n) == IF scenario.told THEN {proc[n].contact} ELSE {}

KnowledgeFits(n, b, told) ==
    /\ DOMAIN b = {"peers", "bus", "disc", "seen"}
    /\ DOMAIN b.bus = Nodes /\ DOMAIN b.disc = Nodes /\ DOMAIN b.seen = Nodes
    /\ b.peers \subseteq Nodes \ {n} /\ b.bus[n] = Nowhere /\ b.disc[n] = Nowhere
    /\ \A m \in Nodes :
        /\ Perhaps(b.bus[m], m) /\ Perhaps(b.disc[m], m)
        /\ m \in b.peers => b.bus[m] # Nowhere
        /\ b.seen[m] = Never => b.disc[m] = Nowhere \/ m \in told
        /\ b.disc[m] = Nowhere => b.seen[m] = Never

ListFits(list) == \A m \in Nodes : Perhaps(list[m], m)

(* An address that can be used is one.                                     *)
LEMMA AddressIsSomewhere ==
    ASSUME NEW a, NEW m, AddressOf(a, m) PROVE a # Nowhere /\ a.of = m /\ Usable(a) /\ Perhaps(a, m)
BY UsableIsSomewhere DEF AddressOf, Perhaps

(* A datagram: its sender's address is the observed one.                   *)
LEMMA HearsFits ==
    ASSUME now \in Nat, NEW n \in Nodes, NEW b, NEW told, KnowledgeFits(n, b, told),
           NEW m \in Nodes \ {n}, NEW src, AddressOf(src, m)
    PROVE  KnowledgeFits(n, Hears(b, src), told)
<1> DEFINE c == Hears(b, src)
<1>1. src.of = m /\ src # Nowhere /\ Perhaps(src, m)
  BY AddressIsSomewhere
<1>2. /\ DOMAIN c = DOMAIN b /\ c.peers = b.peers \cup {m} /\ c.bus = [b.bus EXCEPT ![m] = src]
      /\ c.disc = [b.disc EXCEPT ![m] = IF b.disc[m] = Nowhere THEN src ELSE b.disc[m]]
      /\ c.seen = [b.seen EXCEPT ![m] = now]
  BY <1>1 DEF KnowledgeFits, Hears
<1> HIDE DEF c
<1>3. now # Never
  BY DEF Never
<1>4. /\ DOMAIN c.bus = Nodes /\ DOMAIN c.disc = Nodes /\ DOMAIN c.seen = Nodes
      /\ \A p \in Nodes : p # m => c.bus[p] = b.bus[p] /\ c.disc[p] = b.disc[p] /\ c.seen[p] = b.seen[p]
      /\ c.bus[m] = src /\ c.seen[m] = now /\ c.disc[m] \in {src, b.disc[m]} \ {Nowhere}
  BY <1>1, <1>2 DEF KnowledgeFits
<1>5. \A p \in Nodes : /\ Perhaps(c.bus[p], p) /\ Perhaps(c.disc[p], p)
                       /\ p \in c.peers => c.bus[p] # Nowhere
                       /\ c.seen[p] = Never => c.disc[p] = Nowhere \/ p \in told
                       /\ c.disc[p] = Nowhere => c.seen[p] = Never
  <2> TAKE p \in Nodes
  <2>1. CASE p = m
    BY <1>1, <1>3, <1>4, <2>1 DEF KnowledgeFits
  <2>2. CASE p # m
    BY <1>2, <1>4, <2>2 DEF KnowledgeFits
  <2> QED BY <2>1, <2>2
<1> QED BY <1>2, <1>4, <1>5 DEF KnowledgeFits, c

(* Peer exchange: hearsay of others, never of the node itself.             *)
LEMMA OnPexFits ==
    ASSUME now \in Nat, NEW n \in Nodes, NEW b, NEW told, KnowledgeFits(n, b, told), NEW list, ListFits(list)
    PROVE  KnowledgeFits(n, OnPex(n, b, list), told)
<1> DEFINE new == {m \in Nodes \ {n} : list[m] # Nowhere /\ b.disc[m] = Nowhere}
           i == IngestPex(n, b, list)
           c == OnPex(n, b, list)
<1>1. now # Never
  BY DEF Never
<1>2. /\ DOMAIN i = DOMAIN b /\ i.peers = b.peers /\ i.bus = b.bus
      /\ i.disc = [m \in Nodes |-> IF m \in new THEN list[m] ELSE b.disc[m]]
      /\ i.seen = [m \in Nodes |-> IF m \in new THEN now ELSE b.seen[m]]
  BY DEF KnowledgeFits, IngestPex
<1> HIDE DEF i
<1>3. /\ DOMAIN c = DOMAIN b /\ c.peers = b.peers \cup Known(i.disc)
      /\ c.bus = [m \in Nodes |-> IF b.bus[m] = Nowhere THEN i.disc[m] ELSE b.bus[m]]
      /\ c.disc = i.disc /\ c.seen = i.seen
  BY <1>2 DEF KnowledgeFits, OnPex, i
<1> HIDE DEF c
<1>4. \A m \in Nodes : /\ m \in new => m # n /\ list[m] # Nowhere /\ Perhaps(list[m], m)
                       /\ m \notin new => i.disc[m] = b.disc[m] /\ i.seen[m] = b.seen[m]
                       /\ m \in new => i.disc[m] = list[m] /\ i.seen[m] = now
  BY <1>2 DEF ListFits
<1>5. n \notin new
  OBVIOUS
<1> HIDE DEF new
<1>6. \A m \in Nodes : /\ Perhaps(i.disc[m], m)
                       /\ i.seen[m] = Never => i.disc[m] = Nowhere \/ m \in told
                       /\ i.disc[m] = Nowhere => i.seen[m] = Never
  <2> TAKE m \in Nodes
  <2>1. CASE m \in new
    BY <1>1, <1>4, <2>1
  <2>2. CASE m \notin new
    BY <1>4, <2>2 DEF KnowledgeFits
  <2> QED BY <2>1, <2>2
<1>7. i.disc[n] = Nowhere
  BY <1>4, <1>5 DEF KnowledgeFits
<1>8. DOMAIN c = {"peers", "bus", "disc", "seen"} /\ DOMAIN c.bus = Nodes /\ DOMAIN c.disc = Nodes /\ DOMAIN c.seen = Nodes
  BY <1>2, <1>3 DEF KnowledgeFits
<1>9. c.peers \subseteq Nodes \ {n} /\ c.disc[n] = Nowhere /\ c.bus[n] = Nowhere
  BY <1>2, <1>3, <1>5, <1>7 DEF KnowledgeFits, Known
<1>10. \A m \in Nodes : Perhaps(c.bus[m], m) /\ (m \in c.peers => c.bus[m] # Nowhere)
  BY <1>3, <1>6 DEF KnowledgeFits, Known
<1> QED BY <1>3, <1>6, <1>8, <1>9, <1>10 DEF KnowledgeFits, c

(* dispatch() as a whole.                                                  *)
LEMMA DispatchFits ==
    ASSUME scenario \in Scenarios, now \in Nat, NEW n \in Nodes, NEW told, KnowledgeFits(n, node[n], told), NEW d,
           d.by \in Nodes \ {n}, d.kind = "pex" => ListFits(d.list)
    PROVE  KnowledgeFits(n, Dispatch(n, d), told)
<1> DEFINE src == Observed(n, d.by, d.life)
           b == Hears(node[n], src)
<1>1. AddressOf(src, d.by)
  BY ObservedUsable DEF AddressOf, Observed, Address
<1>2. KnowledgeFits(n, b, told)
  BY <1>1, HearsFits
<1>3. Dispatch(n, d) = IF d.kind = "pex" THEN OnPex(n, b, d.list) ELSE b
  BY DEF Dispatch
<1> HIDE DEF b
<1> QED BY <1>2, <1>3, OnPexFits

(* _expire_stale(): the stamp and the address go together.                 *)
LEMMA ExpireFits ==
    ASSUME NEW n \in Nodes, NEW b, NEW told, KnowledgeFits(n, b, told)
    PROVE  KnowledgeFits(n, ExpireStale(b), told)
<1> DEFINE stale == {m \in Nodes : b.seen[m] # Never /\ now - b.seen[m] > STALE_AFTER_S}
           c == ExpireStale(b)
<1>1. /\ DOMAIN c = DOMAIN b /\ c.peers = b.peers /\ c.bus = b.bus
      /\ c.disc = [m \in Nodes |-> IF m \in stale THEN Nowhere ELSE b.disc[m]]
      /\ c.seen = [m \in Nodes |-> IF m \in stale THEN Never ELSE b.seen[m]]
  BY DEF KnowledgeFits, ExpireStale
<1> HIDE DEF c, stale
<1>2. c.disc[n] = Nowhere
  BY <1>1 DEF KnowledgeFits
<1> QED BY <1>1, <1>2 DEF KnowledgeFits, Perhaps, c

(* A node dials m, and may take it for a peer.                             *)
LEMMA DialsFits ==
    ASSUME NEW n \in Nodes, NEW b, NEW told, KnowledgeFits(n, b, told), NEW m \in Nodes \ {n}, NEW a, AddressOf(a, m),
           NEW c, DOMAIN c = DOMAIN b, c.bus = [b.bus EXCEPT ![m] = a], c.peers \subseteq b.peers \cup {m},
           \/ c.disc = b.disc /\ c.seen = b.seen
           \/ now \in Nat /\ c.disc = [b.disc EXCEPT ![m] = a] /\ c.seen = [b.seen EXCEPT ![m] = now]
           \/ m \in told /\ c.seen = b.seen /\ c.disc = [b.disc EXCEPT ![m] = IF b.disc[m] = Nowhere THEN a ELSE b.disc[m]]
    PROVE  KnowledgeFits(n, c, told)
<1>1. a # Nowhere /\ Perhaps(a, m)
  BY AddressIsSomewhere
<1>2. DOMAIN c.bus = Nodes /\ c.bus[m] = a /\ (\A p : p # m => c.bus[p] = b.bus[p])
  BY DEF KnowledgeFits
<1>3. /\ DOMAIN c.disc = Nodes /\ DOMAIN c.seen = Nodes
      /\ \A p : p # m => c.disc[p] = b.disc[p] /\ c.seen[p] = b.seen[p]
      /\ Perhaps(c.disc[m], m) /\ (c.seen[m] = Never => c.disc[m] = Nowhere \/ m \in told)
      /\ c.disc[m] = Nowhere => c.seen[m] = Never
  <2>1. now \in Nat => now # Never
    BY DEF Never
  <2>2. DOMAIN b.disc = Nodes /\ DOMAIN b.seen = Nodes /\ Perhaps(b.disc[m], m)
        /\ (b.seen[m] = Never => b.disc[m] = Nowhere \/ m \in told) /\ (b.disc[m] = Nowhere => b.seen[m] = Never)
    BY DEF KnowledgeFits
  <2>3. CASE c.disc = b.disc /\ c.seen = b.seen
    BY <2>2, <2>3
  <2>4. CASE now \in Nat /\ c.disc = [b.disc EXCEPT ![m] = a] /\ c.seen = [b.seen EXCEPT ![m] = now]
    BY <1>1, <2>1, <2>2, <2>4
  <2>5. CASE m \in told /\ c.seen = b.seen /\ c.disc = [b.disc EXCEPT ![m] = IF b.disc[m] = Nowhere THEN a ELSE b.disc[m]]
    BY <1>1, <2>2, <2>5
  <2> QED BY <2>3, <2>4, <2>5
<1>4. \A p \in Nodes : /\ Perhaps(c.bus[p], p) /\ Perhaps(c.disc[p], p)
                       /\ p \in c.peers => c.bus[p] # Nowhere
                       /\ c.seen[p] = Never => c.disc[p] = Nowhere \/ p \in told
                       /\ c.disc[p] = Nowhere => c.seen[p] = Never
  <2> TAKE p \in Nodes
  <2> QED BY <1>1, <1>2, <1>3 DEF KnowledgeFits
<1> QED BY <1>2, <1>3, <1>4 DEF KnowledgeFits

KnowInv ==
    /\ DOMAIN node = Nodes /\ \A n \in Nodes : KnowledgeFits(n, node[n], Told(n))
    /\ DOMAIN advert = Nodes /\ \A n \in Nodes : Perhaps(advert[n], n)

\* A datagram is for another node, which is where it is sent.
DatagramFits(d) ==
    /\ DOMAIN d = {"by", "life", "dst", "kind", "list"}
    /\ d.by \in Nodes /\ d.dst.of \in Nodes \ {d.by} /\ Usable(d.dst)
    /\ d.kind = "pex" => ListFits(d.list)

WireInv ==
    /\ now \in 0 .. scenario.until
    /\ IsFiniteSet(wire) /\ Cardinality(wire) <= scenario.inFlight
    /\ \A d \in wire : DatagramFits(d)

QueryShape == DOMAIN query = {"pc", "votes"} /\ (query.pc # "idle" => scenario.client # "none")

LaunchInv == HeardInv /\ PeersInv /\ ProcInv /\ KnowInv /\ WireInv /\ QueryShape

(* Whom start() was told of is kept until the next start.                  *)
LEMMA ToldKeeps ==
    ASSUME ProcInv, scenario' = scenario, proc' = proc \/ StartingGoesOn \/ \E ns : Stopped(ns)
    PROVE  \A n \in Nodes : Told(n)' = Told(n)
<1>1. ASSUME StartingGoesOn, NEW m \in Nodes PROVE proc'[m].contact = proc[m].contact
  <2>1. PICK n \in Nodes : \/ proc' = [proc EXCEPT ![n].state = "up"]
                           \/ proc' = [proc EXCEPT ![n].tries = @ + 1]
    BY <1>1 DEF StartingGoesOn
  <2>2. DOMAIN proc = Nodes /\ DOMAIN proc[n] = {"state", "life", "contact", "linked", "tries"}
    BY DEF ProcInv, ProcFits
  <2> QED BY <2>1, <2>2
<1>2. ASSUME NEW ns, Stopped(ns), NEW m \in Nodes PROVE proc'[m].contact = proc[m].contact
  BY <1>2 DEF Stopped, ProcInv, ProcFits
<1> QED BY <1>1, <1>2 DEF Told

(* Nobody learns anything.                                                 *)
LEMMA QuietFits ==
    ASSUME KnowInv, UNCHANGED << node, advert >>, \A n \in Nodes : Told(n)' = Told(n) PROVE KnowInv'
BY DEF KnowInv

(* One node learns something.                                              *)
LEMMA OneFits ==
    ASSUME KnowInv, NEW n, NEW c, node' = [node EXCEPT ![n] = c], n \in Nodes => KnowledgeFits(n, c, Told(n)),
           \A m \in Nodes : Told(m)' = Told(m), DOMAIN advert' = Nodes, \A m \in Nodes : Perhaps(advert'[m], m)
    PROVE  KnowInv'
<1>1. DOMAIN node' = Nodes /\ \A m \in Nodes : node'[m] = IF m = n THEN c ELSE node[m]
  BY DEF KnowInv
<1>2. \A m \in Nodes : KnowledgeFits(m, node'[m], Told(m)')
  BY <1>1 DEF KnowInv
<1> QED BY <1>1, <1>2 DEF KnowInv

(* publish(): the advert of a node is its own address.                     *)
LEMMA PublishFits ==
    ASSUME scenario \in Scenarios, KnowInv, NEW n, NEW life, NEW ns, PublishAdvert(n, life, ns)
    PROVE  DOMAIN advert' = Nodes /\ \A m \in Nodes : Perhaps(advert'[m], m)
<1>1. n \in Nodes => Perhaps(Advertised(n, life), n)
  BY AdvertisedUsable DEF Perhaps, AddressOf, Advertised, Address
<1> QED BY <1>1 DEF KnowInv, PublishAdvert

(* A datagram that arrives.                                                *)
LEMMA DeliveryFits ==
    ASSUME LaunchInv, NEW d \in wire, node' = [node EXCEPT ![d.dst.of] = Dispatch(d.dst.of, d)],
           UNCHANGED << scenario, proc, advert >>
    PROVE  KnowInv'
<1>1. d.dst.of \in Nodes /\ d.by \in Nodes \ {d.dst.of} /\ (d.kind = "pex" => ListFits(d.list))
  BY DEF LaunchInv, WireInv, DatagramFits
<1>2. KnowledgeFits(d.dst.of, Dispatch(d.dst.of, d), Told(d.dst.of))
  BY <1>1, DispatchFits DEF LaunchInv, KnowInv, HeardInv
<1>3. \A m \in Nodes : Told(m)' = Told(m)
  BY DEF Told
<1> QED BY <1>1, <1>2, <1>3, OneFits DEF LaunchInv, KnowInv

(* A process that starts knows nobody.                                     *)
LEMMA StartFits ==
    ASSUME LaunchInv, scenario' = scenario, NEW n, NEW contact, NEW linked, Start(n, contact, linked)
    PROVE  KnowInv'
<1>1. DOMAIN advert' = Nodes /\ \A m \in Nodes : Perhaps(advert'[m], m)
  BY PublishFits DEF LaunchInv, ProcInv, Start
<1>2. ASSUME NEW m \in Nodes, NEW told PROVE KnowledgeFits(m, Newborn, told)
  BY DEF KnowledgeFits, Newborn, Unknown, Perhaps
<1>3. ASSUME NEW m \in Nodes, m # n PROVE Told(m)' = Told(m)
  BY <1>3 DEF LaunchInv, ProcInv, Start, Told
<1>4. DOMAIN node' = Nodes /\ \A m \in Nodes : node'[m] = IF m = n THEN Newborn ELSE node[m]
  BY DEF Start, LaunchInv, KnowInv
<1>5. \A m \in Nodes : KnowledgeFits(m, node'[m], Told(m)')
  BY <1>2, <1>3, <1>4 DEF LaunchInv, KnowInv
<1> QED BY <1>1, <1>4, <1>5 DEF KnowInv

(* The steps of Directory.                                                 *)
LEMMA DirectoryFits ==
    ASSUME LaunchInv, DirectoryNext
    PROVE  KnowInv'
<1>0. /\ scenario' = scenario /\ scenario \in Scenarios /\ now \in Nat /\ KnowInv
      /\ \A n \in Nodes : Told(n)' = Told(n)
  BY DirectoryBridges, DirectoryProcs, ToldKeeps DEF LaunchInv, ProcInv, HeardInv
<1> DEFINE advertsFit == DOMAIN advert' = Nodes /\ \A m \in Nodes : Perhaps(advert'[m], m)
<1>1. ASSUME NEW n \in Nodes, FastRetry(n) PROVE KnowInv'
  <2>1. node' = node /\ advertsFit
    BY <1>0, <1>1, PublishFits DEF FastRetry
  <2> QED BY <1>0, <2>1 DEF KnowInv
<1>2. ASSUME NEW n \in Nodes, Refresh(n) PROVE KnowInv'
  <2>1. node' = [node EXCEPT ![n] = ExpireStale(node[n])] /\ advertsFit
    BY <1>0, <1>2, PublishFits DEF Refresh
  <2>2. KnowledgeFits(n, ExpireStale(node[n]), Told(n))
    BY <1>0, ExpireFits DEF KnowInv
  <2> HIDE DEF advertsFit
  <2> QED BY <1>0, <2>1, <2>2, OneFits DEF advertsFit
<1>3. ASSUME NEW n \in Nodes, LookupFinds(n) PROVE KnowInv'
  <2> DEFINE m == proc[n].contact
             b == node[n]
             c == [b EXCEPT !.disc[m] = advert[m], !.seen[m] = now, !.bus[m] = advert[m], !.peers = @ \cup {m}]
  <2>1. node' = [node EXCEPT ![n] = c] /\ advert[m] # Nowhere /\ advert' = advert /\ proc[n].state = "starting"
    BY <1>3 DEF LookupFinds, Joined
  <2>2. m \in Nodes \ {n}
    BY <2>1 DEF LaunchInv, ProcInv, ProcFits
  <2>3. AddressOf(advert[m], m) /\ KnowledgeFits(n, b, Told(n))
    BY <1>0, <2>1, <2>2 DEF KnowInv, Perhaps
  <2>4. /\ DOMAIN c = DOMAIN b /\ c.peers \subseteq b.peers \cup {m} /\ c.bus = [b.bus EXCEPT ![m] = advert[m]]
        /\ c.disc = [b.disc EXCEPT ![m] = advert[m]] /\ c.seen = [b.seen EXCEPT ![m] = now]
    BY <2>3 DEF KnowledgeFits
  <2> HIDE DEF c, m, b
  <2>5. KnowledgeFits(n, c, Told(n))
    BY <1>0, <2>2, <2>3, <2>4, DialsFits
  <2> QED BY <1>0, <2>1, <2>5, OneFits DEF KnowInv
<1>4. ASSUME NEW n \in Nodes, FallBack(n) PROVE KnowInv'
  <2> DEFINE m == proc[n].contact
             a == Advertised(m, proc[m].life)
             b == node[n]
             c == [b EXCEPT !.disc[m] = IF @ = Nowhere THEN a ELSE @, !.bus[m] = a, !.peers = @ \cup {m}]
  <2>1. /\ node' = [node EXCEPT ![n] = IF scenario.told THEN c ELSE b]
        /\ advert' = advert /\ proc[n].state = "starting"
    BY <1>4 DEF FallBack, Joined
  <2>2. m \in Nodes \ {n}
    BY <2>1 DEF LaunchInv, ProcInv, ProcFits
  <2>3. AddressOf(a, m) /\ KnowledgeFits(n, b, Told(n))
    BY <1>0, <2>2, AdvertisedUsable DEF KnowInv, AddressOf, Advertised, Address
  <2>4. /\ DOMAIN c = DOMAIN b /\ c.peers \subseteq b.peers \cup {m} /\ c.bus = [b.bus EXCEPT ![m] = a]
        /\ c.disc = [b.disc EXCEPT ![m] = IF b.disc[m] = Nowhere THEN a ELSE b.disc[m]] /\ c.seen = b.seen
    BY <2>3 DEF KnowledgeFits
  <2>5. scenario.told => m \in Told(n)
    BY DEF Told
  <2> HIDE DEF c, m, b, a
  <2>6. scenario.told => KnowledgeFits(n, c, Told(n))
    BY <2>2, <2>3, <2>4, <2>5, DialsFits
  <2> DEFINE e == IF scenario.told THEN c ELSE b
  <2>7. KnowledgeFits(n, e, Told(n)) /\ node' = [node EXCEPT ![n] = e]
    BY <2>1, <2>3, <2>6
  <2> HIDE DEF e
  <2> QED BY <1>0, <2>1, <2>7, OneFits DEF KnowInv
<1>5. ASSUME NEW n \in Nodes, LookupFails(n) \/ (\E m, kind : Round(n, m, kind)) PROVE KnowInv'
  BY <1>0, <1>5, QuietFits DEF LookupFails, Round
<1>6. ASSUME NEW d \in wire, Receive(d) PROVE KnowInv'
  BY <1>6, DeliveryFits DEF Receive
<1>7. ASSUME Tick \/ \E d \in wire : Vanish(d) PROVE KnowInv'
  BY <1>0, <1>7, QuietFits DEF Tick, Vanish
<1> QED BY <1>1, <1>2, <1>3, <1>4, <1>5, <1>6, <1>7 DEF DirectoryNext

(* The steps of Census: the address dialled is of the other beacon.        *)
LEMMA CensusFits ==
    ASSUME LaunchInv, CensusNext
    PROVE  KnowInv'
<1>1. ASSUME NEW n \in Nodes, NEW m \in Nodes, Meet(n, m) \/ Bridge(n, m) PROVE KnowInv'
  <2> DEFINE a == Advertised(m, proc[m].life)
             b == node[n]
             c == node'[n]
  <2>0. UNCHANGED << scenario, proc, advert >>
    BY <1>1 DEF Meet, Bridge
  <2>1. m # n
    BY <1>1 DEF Meet, Bridge, LaunchInv, PeersInv
  <2>2. AddressOf(a, m) /\ KnowledgeFits(n, b, Told(n)) /\ DOMAIN node = Nodes
    BY AdvertisedUsable DEF LaunchInv, ProcInv, KnowInv, AddressOf, Advertised, Address
  <2>3. /\ node' = [node EXCEPT ![n] = c] /\ DOMAIN c = DOMAIN b /\ c.bus = [b.bus EXCEPT ![m] = a]
        /\ c.peers \subseteq b.peers \cup {m} /\ c.disc = b.disc /\ c.seen = b.seen
    <3>1. CASE Meet(n, m)
      BY <2>2, <3>1 DEF Meet, KnowledgeFits
    <3>2. CASE Bridge(n, m)
      BY <2>2, <3>2 DEF Bridge, KnowledgeFits
    <3> QED BY <1>1, <3>1, <3>2
  <2> HIDE DEF a, b, c
  <2>4. KnowledgeFits(n, c, Told(n))
    BY <2>1, <2>2, <2>3, DialsFits
  <2>5. \A p \in Nodes : Told(p)' = Told(p)
    BY <2>0 DEF Told
  <2> QED BY <2>0, <2>3, <2>4, <2>5, OneFits DEF LaunchInv, KnowInv
<1>2. ASSUME NEW b \in Nodes, FederationTick(b) PROVE KnowInv'
  BY <1>2, QuietFits DEF FederationTick, LaunchInv, Told
<1>3. ASSUME NEW d \in wire, ReceiveCensus(d) PROVE KnowInv'
  BY <1>3, DeliveryFits DEF ReceiveCensus
<1> QED BY <1>1, <1>2, <1>3, DirectoryFits DEF CensusNext

(* The experts are other nodes than the client.                            *)
LEMMA ExpertsAreOthers ==
    ASSUME scenario \in Scenarios, scenario.client # "none"
    PROVE  Experts \subseteq Nodes \ {Client} /\ Client \in Nodes
<1>1. \A m \in Modalities : ExpertsOf(m) \subseteq 0 .. Processes - 2
  BY QueryClientAssumption DEF Modalities, ExpertsOf
<1>2. Experts \subseteq 0 .. Processes - 2
  BY <1>1 DEF Experts
<1> QED BY <1>2, DirectoryAssumption DEF Nodes, Client

(* The address book has each expert where the backbone put it.             *)
LEMMA BookFits ==
    ASSUME scenario \in Scenarios, NEW e \in Experts
    PROVE  AddressOf(Book[e], e)
<1>1. scenario.publicHost # "none"
  BY QueryClientAssumption
<1>2. Book[e] = Address(scenario.publicHost, e, 1)
  <2>1. BackboneAddrs[e] = Address(scenario.publicHost, e, 1)
    BY DEF BackboneAddrs
  <2>2. ASSUME NEW m, e \in ExpertsOf(m) PROVE ExpertAddrs(m)[e] = Address(scenario.publicHost, e, 1)
    BY <2>2 DEF ExpertAddrs
  <2>3. e \in ExpertsOf(CHOOSE m \in Modalities : e \in ExpertsOf(m))
    <3>1. \E m \in Modalities : e \in ExpertsOf(m)
      BY DEF Experts
    <3> QED BY <3>1
  <2> QED BY <2>1, <2>2, <2>3 DEF Book
<1>3. Usable(Address(scenario.publicHost, e, 1)) /\ Address(scenario.publicHost, e, 1).of = e
  BY <1>1 DEF Usable, Address
<1> QED BY <1>2, <1>3 DEF AddressOf

(* seed_peers(): the client takes its experts for peers.                   *)
LEMMA SeedFits ==
    ASSUME LaunchInv, Seed
    PROVE  KnowInv'
<1> DEFINE b == node[Client]
           c == [b EXCEPT !.bus = [e \in Nodes |-> IF e \in Experts THEN Book[e] ELSE b.bus[e]], !.peers = @ \cup Experts]
<1>1. Experts \subseteq Nodes \ {Client} /\ Client \in Nodes /\ UNCHANGED << scenario, proc, advert >>
  BY ExpertsAreOthers DEF Seed, Joining, LaunchInv, ProcInv, QueryShape
<1>2. KnowledgeFits(Client, b, Told(Client)) /\ DOMAIN node = Nodes
  BY <1>1 DEF LaunchInv, KnowInv
<1>3. node' = [node EXCEPT ![Client] = c]
  BY <1>1, <1>2 DEF Seed
<1>4. /\ DOMAIN c = DOMAIN b /\ c.peers = b.peers \cup Experts /\ c.disc = b.disc /\ c.seen = b.seen
      /\ c.bus = [e \in Nodes |-> IF e \in Experts THEN Book[e] ELSE b.bus[e]]
  BY <1>2 DEF KnowledgeFits
<1>5. \A e \in Experts : Perhaps(Book[e], e) /\ Book[e] # Nowhere
  BY BookFits, AddressIsSomewhere DEF LaunchInv, ProcInv
<1> HIDE DEF b, c
<1>6. KnowledgeFits(Client, c, Told(Client))
  BY <1>1, <1>2, <1>4, <1>5 DEF KnowledgeFits
<1>7. \A p \in Nodes : Told(p)' = Told(p)
  BY <1>1 DEF Told
<1> QED BY <1>1, <1>3, <1>6, <1>7, OneFits DEF LaunchInv, KnowInv

(* KnowInv is inductive, given what is on the wire.                        *)
LEMMA KnowNext ==
    ASSUME LaunchInv, [Next]_vars
    PROVE  KnowInv'
<1>0. scenario' = scenario
  BY RegistrySteps
<1>1. ASSUME NEW n, NEW contact, NEW linked, Start(n, contact, linked) PROVE KnowInv'
  BY <1>0, <1>1, StartFits
<1>2. ASSUME UNCHANGED << node, advert >>, proc' = proc \/ \E ns : Stopped(ns) PROVE KnowInv'
  <2>1. \A n \in Nodes : Told(n)' = Told(n)
    BY <1>0, <1>2, ToldKeeps DEF LaunchInv
  <2> QED BY <1>2, <2>1, QuietFits DEF LaunchInv
<1>3. ASSUME NEW d \in wire, AnswerQuery(d) \/ ReceiveAnswer(d) PROVE KnowInv'
  BY <1>3, DeliveryFits DEF AnswerQuery, ReceiveAnswer
<1>4. ASSUME Classify \/ Conclude PROVE KnowInv'
  BY <1>2, <1>4 DEF Classify, Conclude
<1>5. ASSUME RunQuery PROVE KnowInv'
  BY <1>1, <1>5 DEF RunQuery, RunInfer, RunMultimodalQuery, Join
<1>6. ASSUME Launching PROVE KnowInv'
  <2>1. CASE Build \/ ReadBootstrapAddr \/ Aggregate
    BY <1>2, <2>1 DEF Build, ReadBootstrapAddr, Aggregate, directoryVars
  <2>2. CASE Kill
    BY <1>2, <2>2 DEF Kill
  <2>3. CASE LaunchSeed \/ Restart
    BY <1>1, <2>3 DEF LaunchSeed, Restart
  <2>4. CASE LaunchNext
    BY <1>1, <1>2, <2>4 DEF LaunchNext, directoryVars
  <2>5. CASE LaunchScripted
    BY <1>1, <1>2, <2>5 DEF LaunchScripted, directoryVars
  <2> QED BY <1>6, <2>1, <2>2, <2>3, <2>4, <2>5 DEF Launching, RunBackbone, RunMultimodalBackbone, RunCross
<1>7. ASSUME NEW i, StopScripted \/ OpenMetrics(i) \/ Report(i) \/ WorkerEnds(i) \/ Leave(i) PROVE KnowInv'
  BY <1>2, <1>7 DEF StopScripted, OpenMetrics, Report, WorkerEnds, Leave, directoryVars
<1>8. CASE UNCHANGED vars
  BY <1>2, <1>8 DEF vars, directoryVars
<1> QED BY <1>3, <1>4, <1>5, <1>6, <1>7, <1>8, SeedFits, CensusFits DEF Next, ClientNext

-----------------------------------------------------------------------------
(* The wire: what a node sends is for another, and there is room for it.   *)

(* What leaves the wire leaves room.                                       *)
LEMMA FewerFit ==
    ASSUME WireInv, scenario \in Scenarios, NEW w, w \subseteq wire
    PROVE  IsFiniteSet(w) /\ Cardinality(w) <= scenario.inFlight /\ (\A d \in w : DatagramFits(d))
           /\ IsFiniteSet(wire) /\ Cardinality(wire) \in Nat
<1>1. IsFiniteSet(w) /\ Cardinality(w) <= Cardinality(wire)
  BY FS_Subset DEF WireInv
<1>2. Cardinality(w) \in Nat /\ Cardinality(wire) \in Nat /\ scenario.inFlight \in Nat
  BY <1>1, FS_CardinalityType, ScenarioAssumption DEF WireInv
<1>3. Cardinality(w) <= scenario.inFlight
  BY <1>1, <1>2 DEF WireInv
<1> QED BY <1>1, <1>2, <1>3 DEF WireInv

(* A datagram arrives or is lost.                                          *)
LEMMA LessOnWire ==
    ASSUME LaunchInv, UNCHANGED << scenario, now >>, wire' \subseteq wire
    PROVE  WireInv'
<1>1. IsFiniteSet(wire') /\ Cardinality(wire') <= scenario.inFlight /\ \A d \in wire' : DatagramFits(d)
  BY FewerFit DEF LaunchInv, ProcInv
<1>2. \A d \in wire' : DatagramFits(d)'
  BY <1>1 DEF DatagramFits
<1> QED BY <1>1, <1>2 DEF LaunchInv, WireInv

(* Datagrams that fit are sent.                                            *)
LEMMA MoreOnWire ==
    ASSUME LaunchInv, UNCHANGED << scenario, now >>, NEW out, IsFiniteSet(out), \A d \in out : DatagramFits(d),
           wire' \subseteq wire \cup out, Cardinality(wire') <= scenario.inFlight
    PROVE  WireInv'
<1>1. IsFiniteSet(wire')
  BY FS_Union, FS_Subset DEF LaunchInv, WireInv
<1>2. \A d \in wire' : DatagramFits(d)'
  BY DEF LaunchInv, WireInv, DatagramFits
<1> QED BY <1>1, <1>2 DEF LaunchInv, WireInv

(* What n sends to a peer by the address it has.                           *)
LEMMA SentFits ==
    ASSUME NEW n \in Nodes, NEW m \in Nodes \ {n}, NEW a, AddressOf(a, m), NEW kind, NEW list,
           kind = "pex" => ListFits(list)
    PROVE  DatagramFits([Datagram(n, m, kind, list) EXCEPT !.dst = a])
BY DEF DatagramFits, Datagram, AddressOf

(* sendto() of several, of which some are lost at once.                    *)
LEMMA TransmitFits ==
    ASSUME LaunchInv, UNCHANGED << scenario, now >>, NEW out, IsFiniteSet(out),
           \A d \in out : d.dst # Nowhere => DatagramFits(d), Transmit(out)
    PROVE  WireInv'
<1>1. PICK kept \in SUBSET {d \in out : d.dst # Nowhere} : wire' = wire \cup kept /\ Cardinality(wire') <= scenario.inFlight
  BY DEF Transmit
<1>2. IsFiniteSet(kept)
  BY FS_Subset
<1> QED BY <1>1, <1>2, MoreOnWire

(* A node has no address of its own among those it dials.                  *)
LEMMA PeerAddress ==
    ASSUME LaunchInv, NEW n \in Nodes, NEW m \in Nodes, node[n].bus[m] # Nowhere
    PROVE  m # n /\ AddressOf(node[n].bus[m], m)
BY DEF LaunchInv, KnowInv, KnowledgeFits, Perhaps

(* A round of gossip or of peer exchange.                                  *)
LEMMA RoundFits ==
    ASSUME LaunchInv, NEW n \in Nodes, NEW m \in Nodes, NEW kind, Round(n, m, kind)
    PROVE  WireInv'
<1> DEFINE list == IF kind = "pex" THEN node[n].disc ELSE Unknown
           d == Datagram(n, m, kind, list)
           out == {d}
<1>1. node[n].bus[m] # Nowhere /\ (kind = "pex" => ListFits(list))
  BY DEF Round, LaunchInv, KnowInv, KnowledgeFits, ListFits
<1>2. m \in Nodes \ {n} /\ AddressOf(node[n].bus[m], m)
  BY <1>1, PeerAddress
<1>3. wire' \subseteq wire \cup {d} /\ Cardinality(wire') <= scenario.inFlight /\ UNCHANGED << scenario, now >>
  BY DEF Round
<1> HIDE DEF list
<1>4. DatagramFits(d)
  BY <1>1, <1>2 DEF DatagramFits, Datagram, AddressOf
<1>5. IsFiniteSet({d})
  BY FS_Singleton
<1> HIDE DEF d
<1>6. \A e \in {d} : DatagramFits(e)
  BY <1>4
<1> QED BY <1>3, <1>5, <1>6, MoreOnWire

(* A bridge starts with peer exchange.                                     *)
LEMMA BridgeFits ==
    ASSUME LaunchInv, NEW n \in Nodes, NEW m \in Nodes, Bridge(n, m)
    PROVE  WireInv'
<1> DEFINE a == Advertised(m, proc[m].life)
           d == [Datagram(n, m, "pex", node[n].disc) EXCEPT !.dst = a]
<1>1. AddressOf(a, m) /\ m # n
  BY AdvertisedUsable DEF Bridge, LaunchInv, PeersInv, ProcInv, AddressOf, Advertised, Address
<1>2. ListFits(node[n].disc)
  BY DEF LaunchInv, KnowInv, KnowledgeFits, ListFits
<1>3. DatagramFits(d)
  BY <1>1, <1>2, SentFits
<1>4. Transmit({d}) /\ UNCHANGED << scenario, now >>
  BY DEF Bridge
<1>5. IsFiniteSet({d})
  BY FS_Singleton
<1> HIDE DEF d
<1>6. \A e \in {d} : DatagramFits(e)
  BY <1>3
<1> QED BY <1>4, <1>5, <1>6, TransmitFits

(* There are finitely many nodes.                                          *)
LEMMA NodesAreFinite == IsFiniteSet(Nodes)
BY FS_Interval, DirectoryAssumption DEF Nodes

(* tick() sends the census to every beacon met.                            *)
LEMMA TickFits ==
    ASSUME LaunchInv, NEW b \in Nodes, FederationTick(b)
    PROVE  WireInv'
<1> DEFINE list == CensusSource(b)
           heralds == {Datagram(b, c, "census", list) : c \in registry[b]}
           sent == IF Known(list) = {} THEN {} ELSE heralds
<1>1. Transmit(sent) /\ UNCHANGED << scenario, now >>
  BY DEF FederationTick
<1>2. registry[b] \subseteq Nodes \ {b}
  BY ScenarioAssumption DEF LaunchInv, PeersInv, ProcInv, Nodes
<1>3. IsFiniteSet(registry[b])
  BY <1>2, NodesAreFinite, FS_Subset
<1>4. IsFiniteSet(heralds)
  <2> DEFINE f == [c \in registry[b] |-> Datagram(b, c, "census", list)]
  <2>1. f \in Surjection(registry[b], heralds)
    BY DEF Surjection
  <2> QED BY <1>3, <2>1, FS_Surjection
<1>5. IsFiniteSet({}) /\ sent \subseteq heralds
  BY FS_EmptySet
<1>6. IsFiniteSet(sent)
  BY <1>4, <1>5, FS_Subset
<1>7. ASSUME NEW c \in registry[b], Datagram(b, c, "census", list).dst # Nowhere PROVE DatagramFits(Datagram(b, c, "census", list))
  <2>1. AddressOf(node[b].bus[c], c)
    BY <1>2, <1>7, PeerAddress DEF Datagram
  <2> QED BY <1>2, <2>1 DEF DatagramFits, Datagram, AddressOf
<1>8. \A d \in sent : d.dst # Nowhere => DatagramFits(d)
  BY <1>5, <1>7
<1> HIDE DEF sent
<1> QED BY <1>1, <1>6, <1>8, TransmitFits

(* The client asks each of its experts.                                    *)
LEMMA ClassifyFits ==
    ASSUME LaunchInv, Classify
    PROVE  WireInv'
<1> DEFINE all == {Asks(e) : e \in Experts}
           out == {d \in all : d.dst # Nowhere}
<1>1. Experts \subseteq Nodes \ {Client} /\ Client \in Nodes
  BY ExpertsAreOthers DEF Classify, LaunchInv, ProcInv, QueryShape
<1>2. IsFiniteSet(Experts)
  BY <1>1, NodesAreFinite, FS_Subset
<1>3. IsFiniteSet(all)
  <2> DEFINE f == [e \in Experts |-> Asks(e)]
  <2>1. f \in Surjection(Experts, all)
    BY DEF Surjection
  <2> QED BY <1>2, <2>1, FS_Surjection
<1>4. IsFiniteSet(out)
  BY <1>3, FS_Subset
<1>5. ASSUME NEW e \in Experts, Asks(e).dst # Nowhere PROVE DatagramFits(Asks(e))
  <2>1. AddressOf(node[Client].bus[e], e)
    BY <1>1, <1>5, PeerAddress DEF Asks, Datagram
  <2> QED BY <1>1, <2>1, SentFits DEF Asks
<1>6. \A d \in out : DatagramFits(d)
  BY <1>5
<1>7. wire' \subseteq wire \cup out /\ Cardinality(wire') <= scenario.inFlight /\ UNCHANGED << scenario, now >>
  BY DEF Classify
<1> HIDE DEF out
<1> QED BY <1>4, <1>6, <1>7, MoreOnWire

(* A query makes room for its answer.                                      *)
LEMMA AnswerFits ==
    ASSUME LaunchInv, NEW d \in wire, AnswerQuery(d), KnowInv'
    PROVE  WireInv'
<1> DEFINE e == d.dst.of
           a == node'[e].bus[d.by]
           r == [Datagram(e, d.by, "answer", Unknown) EXCEPT !.dst = a]
           w == wire \ {d}
<1>1. e \in Nodes /\ d.by \in Nodes \ {e}
  BY DEF LaunchInv, WireInv, DatagramFits
<1>2. wire' = w \cup {r} /\ UNCHANGED << scenario, now >> /\ node' = [node EXCEPT ![e] = Dispatch(e, d)]
  BY DEF AnswerQuery
<1>3. AddressOf(a, d.by)
  <2>1. d.by \in node'[e].peers
    BY <1>1, <1>2, DispatchPeers DEF LaunchInv, KnowInv
  <2>2. KnowledgeFits(e, node'[e], Told(e)')
    BY <1>1 DEF KnowInv
  <2> QED BY <1>1, <2>1, <2>2 DEF KnowledgeFits, Perhaps
<1>4. DatagramFits(r)
  BY <1>1, <1>3, SentFits
<1>5. IsFiniteSet(w) /\ Cardinality(w) = Cardinality(wire) - 1 /\ Cardinality(wire) \in Nat
  BY FS_RemoveElement, FewerFit DEF LaunchInv, ProcInv, WireInv
<1>6. IsFiniteSet(w \cup {r}) /\ Cardinality(w \cup {r}) <= Cardinality(w) + 1
  BY <1>5, FS_AddElement
<1>7. Cardinality(wire') <= scenario.inFlight
  <2>1. Cardinality(wire) <= scenario.inFlight /\ scenario.inFlight \in Nat
    BY ScenarioAssumption DEF LaunchInv, WireInv, ProcInv
  <2>2. Cardinality(wire') \in Nat /\ Cardinality(w) \in Nat
    BY <1>2, <1>5, <1>6, FS_CardinalityType
  <2> QED BY <1>2, <1>5, <1>6, <2>1, <2>2
<1>8. IsFiniteSet({r})
  BY FS_Singleton
<1>9. wire' \subseteq wire \cup {r}
  BY <1>2
<1> HIDE DEF r
<1>10. \A x \in {r} : DatagramFits(x)
  BY <1>4
<1> QED BY <1>2, <1>7, <1>8, <1>9, <1>10, MoreOnWire

(* Time passes, up to the end of the scenario.                             *)
LEMMA ClockFits ==
    ASSUME LaunchInv, Tick
    PROVE  WireInv'
<1>1. now' = now + 1 /\ now < scenario.until /\ UNCHANGED << scenario, wire >>
  BY DEF Tick
<1>2. now' \in 0 .. scenario.until
  BY <1>1, ScenarioAssumption DEF LaunchInv, WireInv, ProcInv
<1> QED BY <1>1, <1>2 DEF LaunchInv, WireInv, DatagramFits

(* WireInv is inductive, given what nodes know after the step.             *)
LEMMA WireNext ==
    ASSUME LaunchInv, KnowInv', [Next]_vars
    PROVE  WireInv'
<1>1. ASSUME UNCHANGED << scenario, now, wire >> PROVE WireInv'
  BY <1>1, LessOnWire
<1>2. ASSUME DirectoryNext PROVE WireInv'
  <2>1. ASSUME NEW n \in Nodes, FastRetry(n) \/ Refresh(n) \/ LookupFinds(n) \/ LookupFails(n) \/ FallBack(n) PROVE WireInv'
    BY <1>1, <2>1 DEF FastRetry, Refresh, LookupFinds, LookupFails, FallBack
  <2>2. ASSUME NEW d \in wire, Receive(d) \/ Vanish(d) PROVE WireInv'
    BY <2>2, LessOnWire DEF Receive, Vanish, Arrives
  <2> QED BY <1>2, <2>1, <2>2, RoundFits, ClockFits DEF DirectoryNext
<1>3. ASSUME CensusNext PROVE WireInv'
  <2>1. ASSUME NEW n \in Nodes, NEW m \in Nodes, Meet(n, m) PROVE WireInv'
    BY <1>1, <2>1 DEF Meet
  <2>2. ASSUME NEW d \in wire, ReceiveCensus(d) PROVE WireInv'
    BY <2>2, LessOnWire DEF ReceiveCensus, Arrives
  <2> QED BY <1>2, <1>3, <2>1, <2>2, BridgeFits, TickFits DEF CensusNext
<1>4. ASSUME ClientNext PROVE WireInv'
  <2>1. ASSUME NEW d \in wire, ReceiveAnswer(d) PROVE WireInv'
    BY <2>1, LessOnWire DEF ReceiveAnswer, Arrives
  <2>2. ASSUME Seed \/ Conclude PROVE WireInv'
    BY <1>1, <2>2 DEF Seed, Conclude
  <2> QED BY <1>4, <2>1, <2>2, ClassifyFits, AnswerFits DEF ClientNext
<1>5. ASSUME RunQuery PROVE WireInv'
  BY <1>1, <1>5 DEF RunQuery, RunInfer, RunMultimodalQuery, Join, Start
<1>6. ASSUME Launching PROVE WireInv'
  BY <1>1, <1>6 DEF Launching, Build, LaunchSeed, ReadBootstrapAddr, LaunchNext, Kill, Restart, Aggregate,
              RunBackbone, RunMultimodalBackbone, RunCross, LaunchScripted, Start, directoryVars
<1>7. ASSUME NEW i, StopScripted \/ OpenMetrics(i) \/ Report(i) \/ WorkerEnds(i) \/ Leave(i) PROVE WireInv'
  BY <1>1, <1>7 DEF StopScripted, OpenMetrics, Report, WorkerEnds, Leave, directoryVars
<1>8. CASE UNCHANGED vars
  BY <1>1, <1>8 DEF vars, directoryVars
<1> QED BY <1>3, <1>4, <1>5, <1>6, <1>7, <1>8 DEF Next

-----------------------------------------------------------------------------
(* Files: what is in one is of the node's last life.                       *)

FileFits(i) ==
    /\ DOMAIN metrics[i] = {"life", "lines"} /\ metrics[i].lines \in {0, 1}
    /\ metrics[i].life \in Int /\ metrics[i].life <= proc[i].life

\* What a node's file says of it, while the launcher goes on.
WorkerFits(i) ==
    /\ proc[i].life = 0 => Down(i) /\ metrics[i].lines = 0
    /\ metrics[i].lines = 1 => metrics[i].life = proc[i].life \/ (launcher.pc \in {"join", "done"} /\ ~ Down(i))
    /\ proc[i].life # 0 /\ Down(i) /\ metrics[i].lines = 0
        => i \in launcher.victims /\ (i # Min(launcher.victims) \/ launcher.pc = "restart")

\* Which nodes the launcher has started, killed and joined.
StageInv ==
    LET pc == launcher.pc
    IN  /\ pc \in {"build", "seed"} => \A i \in Nodes : proc[i].life = 0 /\ Down(i)
        /\ pc \in {"build", "seed", "read"} => launcher.next = 1
        /\ pc \in {"read", "launch"} => \A i \in Nodes : proc[i].life # 0 <=> i < launcher.next
        /\ pc \notin {"build", "seed", "failed"} => launcher.plan.nodes <= Processes
        /\ pc \in {"chaos", "restart", "join", "done"} => \A i \in Nodes : i < launcher.plan.nodes => proc[i].life # 0
        /\ pc \notin {"restart", "join", "done"} => launcher.victims = {}
        /\ launcher.victims \subseteq 1 .. launcher.plan.nodes - 1
        /\ pc = "restart" => launcher.victims # {}
        /\ pc = "done" => \A i \in Nodes : i < launcher.plan.nodes => Down(i)

MultiprocInv ==
    /\ query.pc = "idle"
    /\ launcher.pc \in {"build", "seed", "read", "launch", "chaos", "restart", "join", "done", "failed"}
    /\ StageInv
    /\ launcher.pc \notin {"build", "failed"} => \A i \in Nodes : WorkerFits(i)

ScriptedInv == launcher.pc \in {"build", "launch", "running", "done", "failed"} /\ launcher.victims = {}

RunInv ==
    /\ DOMAIN metrics = Nodes /\ \A i \in Nodes : FileFits(i)
    /\ sidecar \in {OfEarlierRun} \cup 0 .. proc[0].life
    /\ launcher.next <= Processes + 1 /\ launcher.plan.nodes \in Nat
    /\ IF Multiproc THEN MultiprocInv ELSE ScriptedInv

(* A process that starts: one more life, and no other is touched.          *)
LEMMA StartedAlone ==
    ASSUME ProcInv, NEW n \in Nodes, NEW contact, NEW linked, Start(n, contact, linked)
    PROVE  /\ Down(n) /\ proc'[n].state # "down" /\ proc'[n].life = proc[n].life + 1
           /\ \A m \in Nodes : proc[m].life \in Nat /\ (m # n => proc'[m] = proc[m])
BY DEF ProcInv, ProcFits, Start, Down

(* A step that starts and stops nobody, and writes to no file.             *)
LEMMA QuietRun ==
    ASSUME RunInv, \A n \in Nodes : proc'[n].life = proc[n].life /\ Down(n)' = Down(n),
           UNCHANGED << scenario, launcher, sidecar, metrics >>, query'.pc = query.pc
    PROVE  RunInv'
<1>0. 0 \in Nodes
  BY DirectoryAssumption DEF Nodes
<1>1. \A i \in Nodes : FileFits(i)'
  BY DEF RunInv, FileFits
<1>2. \A i \in Nodes : WorkerFits(i) => WorkerFits(i)'
  BY DEF WorkerFits
<1>3. StageInv => StageInv'
  BY DEF StageInv
<1>4. MultiprocInv => MultiprocInv'
  BY <1>2, <1>3 DEF MultiprocInv
<1>5. ScriptedInv => ScriptedInv'
  BY DEF ScriptedInv
<1> QED BY <1>0, <1>1, <1>4, <1>5 DEF RunInv, Multiproc

(* A process that goes on joining is not down, and has the life it had.    *)
LEMMA QuietProcs ==
    ASSUME ProcInv, proc' = proc \/ StartingGoesOn
    PROVE  \A n \in Nodes : proc'[n].life = proc[n].life /\ Down(n)' = Down(n)
<1>1. ASSUME StartingGoesOn, NEW m \in Nodes PROVE proc'[m].life = proc[m].life /\ Down(m)' = Down(m)
  <2>1. PICK n \in Nodes : /\ proc[n].state = "starting"
                           /\ \/ proc' = [proc EXCEPT ![n].state = "up"]
                              \/ proc' = [proc EXCEPT ![n].tries = @ + 1]
    BY <1>1 DEF StartingGoesOn
  <2>2. DOMAIN proc = Nodes /\ DOMAIN proc[n] = {"state", "life", "contact", "linked", "tries"}
    BY DEF ProcInv, ProcFits
  <2> QED BY <2>1, <2>2 DEF Down
<1> QED BY <1>1 DEF Down

\* The scripted launchers: what they start and stop is of no concern here.
LEMMA ScriptedRun ==
    ASSUME RunInv, ~ Multiproc, scenario' = scenario, \A n \in Nodes : proc[n].life \in Nat /\ proc'[n].life \in Nat /\ proc'[n].life >= proc[n].life,
           UNCHANGED << sidecar, metrics >>, launcher'.next <= Processes + 1, launcher'.plan.nodes \in Nat, ScriptedInv'
    PROVE  RunInv'
<1>0. 0 \in Nodes
  BY DirectoryAssumption DEF Nodes
<1>1. \A i \in Nodes : FileFits(i)'
  BY DEF RunInv, FileFits
<1>2. sidecar' \in {OfEarlierRun} \cup 0 .. proc'[0].life
  BY <1>0 DEF RunInv
<1> QED BY <1>1, <1>2 DEF RunInv, Multiproc

(* Min of numbers is one of them.                                          *)
LEMMA LeastIs ==
    ASSUME NEW S, S \subseteq Nat, S # {}
    PROVE  Min(S) \in S
<1>1. \E x \in S : \A y \in S : x <= y
  <2> DEFINE R == OpToRel(<, Nat)
  <2>1. IsWellFoundedOn(R, Nat)
    BY NatLessThanWellFounded
  <2>2. \A x, y \in Nat : << y, x >> \in R <=> y < x
    BY DEF OpToRel
  <2> HIDE DEF R
  <2>3. PICK x \in S : \A y \in S : ~ (<< y, x >> \in R)
    BY <2>1, WFMin
  <2>4. ASSUME NEW y \in S PROVE x <= y
    <3>1. x \in Nat /\ y \in Nat /\ ~ (y < x)
      BY <2>2, <2>3
    <3> QED BY <3>1
  <2> QED BY <2>4
<1> QED BY <1>1 DEF Min

(* The number of nodes that the budget allows.                             *)
LEMMA ResolveIsNat ==
    ASSUME scenario \in Scenarios
    PROVE  Resolve(scenario.requested, scenario.budget) \in Nat
<1> DEFINE b == scenario.budget
           r == scenario.requested
           share == (b.cpus * b.cpu_percent) \div 100
           cap == IF b.max_nodes # 0 THEN b.max_nodes ELSE Min({Max({1, share}), Max({1, b.mem_nodes})})
<1>1. {r, b.max_nodes, b.cpus, b.cpu_percent, b.mem_nodes} \subseteq Nat
  BY LauncherAssumption
<1>2. share \in Int
  <2>1. b.cpus * b.cpu_percent \in Int
    BY <1>1
  <2> HIDE DEF b
  <2> QED BY <2>1
<1> HIDE DEF share
<1>3. ASSUME NEW x \in Int PROVE Max({1, x}) \in Nat
  BY DEF Max
<1>4. ASSUME NEW x \in Nat, NEW y \in Nat PROVE Min({x, y}) \in Nat
  BY LeastIs
<1>5. cap \in Nat
  BY <1>1, <1>2, <1>3, <1>4
<1> HIDE DEF cap, r
<1>6. Min({r, cap}) \in Nat
  BY <1>1, <1>4, <1>5
<1> QED BY <1>6 DEF Resolve, cap, share, r

(* Before the launcher plans, files may be of an earlier run.              *)
LEMMA RunInit == Init => RunInv
<1> SUFFICES ASSUME Init PROVE RunInv
  OBVIOUS
<1>1. DirectoryInit /\ query.pc = "idle"
  BY DEF Init, QueryInit, CensusInit
<1>2. 0 \in Nodes /\ Processes \in Nat
  BY DirectoryAssumption DEF Nodes
<1>3. \A i \in Nodes : proc[i].life = 0 /\ Down(i)
  BY <1>1 DEF DirectoryInit, Down
<1>4. \A i \in Nodes : FileFits(i)
  BY <1>3 DEF Init, FileFits, NoFile, OfEarlierRun
<1>5. Multiproc => launcher.pc = "build"
  BY DEF Init, Multiproc
<1>6. launcher.next = 1 /\ launcher.victims = {} /\ launcher.plan.nodes = 0
  BY DEF Init, NoPlan
<1>7. Multiproc => MultiprocInv
  BY <1>1, <1>3, <1>5, <1>6 DEF MultiprocInv, StageInv
<1>8. ScriptedInv
  BY <1>6 DEF ScriptedInv, Init
<1>9. sidecar \in {OfEarlierRun} \cup 0 .. proc[0].life /\ DOMAIN metrics = Nodes
  BY <1>2, <1>3 DEF Init
<1> QED BY <1>2, <1>4, <1>6, <1>7, <1>8, <1>9 DEF RunInv

(* _build_swarm(): the metrics of an earlier run are removed.              *)
LEMMA BuildRuns ==
    ASSUME ProcInv, RunInv, Build
    PROVE  RunInv'
<1> DEFINE n == IF Multiproc THEN Resolve(scenario.requested, scenario.budget) ELSE scenario.requested
<1>0. 0 \in Nodes /\ Processes \in Nat /\ DOMAIN launcher = {"pc", "plan", "next", "boot", "victims"}
  BY DirectoryAssumption DEF Nodes, ProcInv
<1>1. n \in Nat
  BY ResolveIsNat, LauncherAssumption DEF ProcInv
<1>2. /\ UNCHANGED << scenario, proc, sidecar, query >>
      /\ metrics' = IF Multiproc THEN [i \in Nodes |-> NoFile] ELSE metrics
      /\ launcher.pc = "build" /\ Plan
  BY DEF Build, directoryVars
<1>3. /\ launcher'.pc \in {IF Multiproc THEN "seed" ELSE "launch", "failed"}
      /\ launcher'.next = launcher.next /\ launcher'.victims = launcher.victims
      /\ launcher'.plan.nodes \in {n, launcher.plan.nodes}
  <2> DEFINE pc == IF Multiproc THEN "seed" ELSE "launch"
             bad == IF Multiproc THEN Malicious(n, scenario.malicious) ELSE {}
             Planned(classes) == [launcher EXCEPT !.pc = pc, !.plan = [nodes |-> n, malicious |-> bad, classes |-> classes]]
  <2>1. (\E classes : launcher' = Planned(classes)) \/ launcher' = [launcher EXCEPT !.pc = "failed"]
    BY <1>2 DEF Plan
  <2> HIDE DEF n, pc, bad
  <2>2. ASSUME NEW classes, launcher' = Planned(classes)
        PROVE  launcher'.pc = pc /\ launcher'.plan.nodes = n /\ launcher'.next = launcher.next /\ launcher'.victims = launcher.victims
    BY <1>0, <2>2
  <2>3. CASE launcher' = [launcher EXCEPT !.pc = "failed"]
    BY <1>0, <2>3
  <2> HIDE DEF Planned
  <2> QED BY <2>1, <2>2, <2>3 DEF pc
<1>4. launcher'.plan.nodes \in Nat
  BY <1>1, <1>3 DEF RunInv
<1>5. CASE Multiproc
  <2>1. MultiprocInv /\ Multiproc' /\ StageInv
    BY <1>2, <1>5 DEF RunInv, Multiproc, MultiprocInv
  <2>2. \A i \in Nodes : proc[i].life = 0 /\ Down(i)
    BY <1>2, <2>1 DEF StageInv
  <2>3. \A i \in Nodes : FileFits(i)' /\ WorkerFits(i)'
    BY <1>2, <1>5, <2>2 DEF FileFits, WorkerFits, NoFile, Down
  <2>4. launcher.victims = {} /\ launcher.next = 1
    BY <1>2, <2>1 DEF StageInv
  <2>5. StageInv'
    BY <1>2, <1>3, <1>5, <2>2, <2>4 DEF StageInv, Down
  <2>6. MultiprocInv'
    BY <1>2, <1>3, <1>5, <2>1, <2>3, <2>5 DEF MultiprocInv
  <2>7. sidecar' \in {OfEarlierRun} \cup 0 .. proc'[0].life /\ DOMAIN metrics' = Nodes /\ launcher'.next <= Processes + 1
    BY <1>2, <1>3, <1>5 DEF RunInv
  <2> QED BY <1>4, <2>1, <2>3, <2>6, <2>7 DEF RunInv
<1>6. CASE ~ Multiproc
  <2>1. ScriptedInv'
    BY <1>3, <1>6 DEF RunInv, ScriptedInv
  <2>2. \A i \in Nodes : proc[i].life \in Nat /\ proc'[i].life \in Nat /\ proc'[i].life >= proc[i].life
    BY <1>2 DEF ProcInv, ProcFits
  <2>3. launcher'.next <= Processes + 1
    BY <1>3 DEF RunInv
  <2> QED BY <1>2, <1>4, <1>6, <2>1, <2>2, <2>3, ScriptedRun
<1> QED BY <1>5, <1>6

\* The files are as they were, and a node has one more life.
LEMMA StartFiles ==
    ASSUME ProcInv, RunInv, UNCHANGED << sidecar, metrics >>, NEW n \in Nodes, NEW contact, NEW linked, Start(n, contact, linked)
    PROVE  (\A i \in Nodes : FileFits(i)') /\ sidecar' \in {OfEarlierRun} \cup 0 .. proc'[0].life
<1>0. 0 \in Nodes
  BY DirectoryAssumption DEF Nodes
<1>1. \A i \in Nodes : proc[i].life \in Nat /\ proc'[i].life \in Nat /\ proc'[i].life >= proc[i].life
  <2> TAKE i \in Nodes
  <2> QED BY StartedAlone
<1> QED BY <1>0, <1>1 DEF RunInv, FileFits

(* Node 0 is started.                                                      *)
LEMMA SeedRuns ==
    ASSUME ProcInv, RunInv, LaunchSeed
    PROVE  RunInv'
<1>0. 0 \in Nodes /\ Processes \in Nat /\ DOMAIN launcher = {"pc", "plan", "next", "boot", "victims"}
  BY DirectoryAssumption DEF Nodes, ProcInv
<1>1. /\ Start(0, 0, TRUE) /\ launcher' = [launcher EXCEPT !.pc = "read"] /\ launcher.pc = "seed"
      /\ UNCHANGED << scenario, query, sidecar, metrics >> /\ launcher.plan.nodes <= Processes
  BY DEF LaunchSeed, Fits, Start
<1>2. /\ proc'[0].state # "down" /\ proc'[0].life = proc[0].life + 1
      /\ \A m \in Nodes : proc[m].life \in Nat /\ (m # 0 => proc'[m] = proc[m])
  BY <1>0, <1>1, StartedAlone
<1>3. MultiprocInv /\ Multiproc /\ Multiproc' /\ StageInv
  BY <1>1 DEF RunInv, Multiproc, MultiprocInv, ScriptedInv
<1>4. launcher'.pc = "read" /\ launcher'.next = launcher.next /\ launcher'.victims = launcher.victims /\ launcher'.plan = launcher.plan
  BY <1>0, <1>1
<1>5. \A i \in Nodes : proc[i].life = 0 /\ Down(i) /\ WorkerFits(i)
  BY <1>1, <1>3 DEF StageInv, MultiprocInv
<1>6. launcher.next = 1 /\ launcher.victims = {}
  BY <1>1, <1>3 DEF StageInv
<1>7. \A i \in Nodes : WorkerFits(i)'
  BY <1>1, <1>2, <1>4, <1>5 DEF WorkerFits, Down
<1>8. \A i \in Nodes : proc'[i].life # 0 <=> i < launcher'.next
  BY <1>2, <1>4, <1>5, <1>6 DEF Nodes
<1>9. StageInv'
  BY <1>1, <1>4, <1>6, <1>8 DEF StageInv
<1>10. MultiprocInv'
  BY <1>1, <1>3, <1>4, <1>7, <1>9 DEF MultiprocInv
<1>11. (\A i \in Nodes : FileFits(i)') /\ sidecar' \in {OfEarlierRun} \cup 0 .. proc'[0].life
  BY <1>0, <1>1, StartFiles
<1> QED BY <1>1, <1>3, <1>4, <1>10, <1>11 DEF RunInv

(* _read_bootstrap_addr().                                                 *)
LEMMA ReadRuns ==
    ASSUME ProcInv, RunInv, ReadBootstrapAddr
    PROVE  RunInv'
<1>0. 0 \in Nodes /\ Processes \in Nat /\ DOMAIN launcher = {"pc", "plan", "next", "boot", "victims"}
  BY DirectoryAssumption DEF Nodes, ProcInv
<1>1. /\ launcher.pc = "read" /\ UNCHANGED << scenario, query, proc, sidecar, metrics >>
      /\ launcher'.pc \in {"failed", "launch"} /\ launcher'.next = launcher.next
      /\ launcher'.victims = launcher.victims /\ launcher'.plan = launcher.plan
  BY <1>0 DEF ReadBootstrapAddr, directoryVars
<1>2. MultiprocInv /\ Multiproc /\ Multiproc' /\ StageInv
  BY <1>1 DEF RunInv, Multiproc, MultiprocInv, ScriptedInv
<1>3. \A i \in Nodes : FileFits(i)' /\ WorkerFits(i)'
  BY <1>1, <1>2 DEF RunInv, MultiprocInv, FileFits, WorkerFits, Down
<1>4. StageInv'
  BY <1>1, <1>2 DEF StageInv, Down
<1>5. MultiprocInv'
  BY <1>1, <1>2, <1>3, <1>4 DEF MultiprocInv
<1> QED BY <1>1, <1>2, <1>3, <1>5 DEF RunInv

(* The other nodes are started, one after the other.                       *)
LEMMA NextRuns ==
    ASSUME ProcInv, RunInv, LaunchNext
    PROVE  RunInv'
<1> DEFINE i == launcher.next
<1>0. 0 \in Nodes /\ Processes \in Nat /\ DOMAIN launcher = {"pc", "plan", "next", "boot", "victims"} /\ i \in Nat \ {0}
  BY DirectoryAssumption DEF Nodes, ProcInv
<1>1. launcher.pc = "launch" /\ Multiproc /\ UNCHANGED << scenario, query, sidecar, metrics >>
  BY DEF LaunchNext, Start, directoryVars
<1>2. MultiprocInv /\ Multiproc' /\ StageInv
  BY <1>1 DEF RunInv, Multiproc, MultiprocInv
<1>3. /\ launcher.victims = {} /\ launcher.plan.nodes <= Processes /\ launcher.plan.nodes \in Nat
      /\ \A m \in Nodes : (proc[m].life # 0 <=> m < i) /\ WorkerFits(m)
  BY <1>1, <1>2 DEF RunInv, StageInv, MultiprocInv
<1>4. CASE i < launcher.plan.nodes
  <2>1. i \in Nodes
    BY <1>0, <1>3, <1>4 DEF Nodes
  <2>2. /\ launcher'.pc = "launch" /\ launcher'.next = i + 1 /\ launcher'.victims = launcher.victims /\ launcher'.plan = launcher.plan
        /\ Start(i, 0, launcher.boot = proc[0].life /\ ~ Down(0))
    BY <1>0, <1>1, <1>4 DEF LaunchNext
  <2>3. /\ proc'[i].state # "down" /\ proc'[i].life = proc[i].life + 1
        /\ \A m \in Nodes : proc[m].life \in Nat /\ (m # i => proc'[m] = proc[m])
    <3> HIDE DEF i
    <3> QED BY <2>1, <2>2, StartedAlone
  <2>4. \A m \in Nodes : proc'[m].life # 0 <=> m < launcher'.next
    BY <1>0, <1>3, <2>2, <2>3 DEF Nodes
  <2>5. \A m \in Nodes : WorkerFits(m)'
    <3> TAKE m \in Nodes
    <3>1. CASE m = i
      <4>1. proc[m].life = 0
        BY <1>0, <1>3, <3>1
      <4>2. proc'[m].state # "down" /\ proc'[m].life = 1 /\ metrics'[m].lines = metrics[m].lines /\ metrics[m].lines = 0
        <5> HIDE DEF i
        <5> QED BY <1>1, <1>3, <2>3, <3>1, <4>1 DEF WorkerFits
      <4> QED BY <4>2 DEF WorkerFits, Down
    <3>2. CASE m # i
      BY <1>1, <1>3, <2>2, <2>3, <3>2 DEF WorkerFits, Down
    <3> QED BY <3>1, <3>2
  <2>6. StageInv'
    BY <1>3, <2>2, <2>4 DEF StageInv
  <2>7. MultiprocInv'
    BY <1>1, <1>2, <2>2, <2>5, <2>6 DEF MultiprocInv
  <2>8. (\A m \in Nodes : FileFits(m)') /\ sidecar' \in {OfEarlierRun} \cup 0 .. proc'[0].life
    BY <1>1, <2>1, <2>2, StartFiles
  <2>9. launcher'.next <= Processes + 1
    BY <1>0, <1>3, <1>4, <2>2
  <2> QED BY <1>1, <1>2, <1>3, <2>2, <2>7, <2>8, <2>9 DEF RunInv
<1>5. CASE ~ (i < launcher.plan.nodes)
  <2>1. /\ launcher'.pc \in {"chaos", "join"} /\ launcher'.next = i /\ launcher'.victims = launcher.victims /\ launcher'.plan = launcher.plan
        /\ proc' = proc
    BY <1>0, <1>1, <1>5 DEF LaunchNext, directoryVars
  <2>2. \A m \in Nodes : FileFits(m)' /\ WorkerFits(m)'
    BY <1>1, <1>3, <2>1 DEF RunInv, FileFits, WorkerFits, Down
  <2>3. \A m \in Nodes : m < launcher.plan.nodes => proc[m].life # 0
    BY <1>0, <1>3, <1>5 DEF Nodes
  <2>4. StageInv'
    BY <1>3, <2>1, <2>3 DEF StageInv
  <2>5. MultiprocInv'
    BY <1>1, <1>2, <2>1, <2>2, <2>4 DEF MultiprocInv
  <2> QED BY <1>1, <1>2, <2>1, <2>2, <2>5 DEF RunInv
<1> QED BY <1>4, <1>5

(* run_chaos() kills its victims.                                          *)
LEMMA KillRuns ==
    ASSUME ProcInv, RunInv, Kill
    PROVE  RunInv'
<1>0. 0 \in Nodes /\ Processes \in Nat /\ DOMAIN launcher = {"pc", "plan", "next", "boot", "victims"}
  BY DirectoryAssumption DEF Nodes, ProcInv
<1>1. /\ launcher.pc = "chaos" /\ Stopped(Victims) /\ UNCHANGED << scenario, query, sidecar, metrics >>
      /\ launcher'.pc = (IF Victims = {} THEN "failed" ELSE "restart") /\ launcher'.victims = Victims
      /\ launcher'.next = launcher.next /\ launcher'.plan = launcher.plan
  BY <1>0 DEF Kill
<1>2. MultiprocInv /\ Multiproc /\ Multiproc' /\ StageInv
  BY <1>1 DEF RunInv, Multiproc, MultiprocInv, ScriptedInv
<1>3. Victims \subseteq 1 .. launcher.plan.nodes - 1
  BY DEF Victims, Killable
<1>4. \A m \in Nodes : proc'[m].life = proc[m].life /\ (Down(m)' <=> Down(m) \/ m \in Victims)
  BY <1>1 DEF Stopped, ProcInv, ProcFits, Down
<1>5. /\ launcher.victims = {} /\ launcher.plan.nodes <= Processes
      /\ \A m \in Nodes : (m < launcher.plan.nodes => proc[m].life # 0) /\ WorkerFits(m)
  BY <1>1, <1>2 DEF StageInv, MultiprocInv
<1>6. ASSUME NEW m \in Nodes, Victims # {} PROVE WorkerFits(m)'
  <2>1. CASE m \in Victims
    <3>1. proc[m].life # 0
      BY <1>3, <1>5, <2>1 DEF Nodes, RunInv
    <3> QED BY <1>1, <1>4, <1>5, <1>6, <2>1, <3>1 DEF WorkerFits
  <2>2. CASE m \notin Victims
    BY <1>1, <1>4, <1>5, <1>6, <2>2 DEF WorkerFits
  <2> QED BY <2>1, <2>2
<1>7. StageInv'
  BY <1>1, <1>3, <1>4, <1>5 DEF StageInv
<1>8. MultiprocInv'
  BY <1>1, <1>2, <1>6, <1>7 DEF MultiprocInv
<1>9. \A m \in Nodes : FileFits(m)'
  BY <1>1, <1>4 DEF RunInv, FileFits
<1> QED BY <1>0, <1>1, <1>2, <1>4, <1>8, <1>9 DEF RunInv

(* run_chaos() restarts the first of them.                                 *)
LEMMA RestartRuns ==
    ASSUME ProcInv, RunInv, Restart
    PROVE  RunInv'
<1> DEFINE v == Min(launcher.victims)
<1>0. 0 \in Nodes /\ Processes \in Nat /\ DOMAIN launcher = {"pc", "plan", "next", "boot", "victims"}
  BY DirectoryAssumption DEF Nodes, ProcInv
<1>1. /\ launcher.pc = "restart" /\ UNCHANGED << scenario, query, sidecar, metrics >>
      /\ Start(v, 0, launcher.boot = proc[0].life /\ ~ Down(0))
      /\ launcher'.pc = "join" /\ launcher'.victims = launcher.victims
      /\ launcher'.next = launcher.next /\ launcher'.plan = launcher.plan
  BY <1>0 DEF Restart, Start
<1>2. MultiprocInv /\ Multiproc /\ Multiproc' /\ StageInv
  BY <1>1 DEF RunInv, Multiproc, MultiprocInv, ScriptedInv
<1>3. /\ launcher.victims # {} /\ launcher.victims \subseteq 1 .. launcher.plan.nodes - 1
      /\ launcher.plan.nodes <= Processes /\ launcher.plan.nodes \in Nat
      /\ \A m \in Nodes : (m < launcher.plan.nodes => proc[m].life # 0) /\ WorkerFits(m)
  BY <1>1, <1>2 DEF StageInv, MultiprocInv, RunInv
<1>4. v \in launcher.victims /\ v \in Nodes
  <2>1. launcher.victims \subseteq Nat
    BY <1>3
  <2>2. v \in launcher.victims
    BY <1>3, <2>1, LeastIs
  <2> HIDE DEF v
  <2> QED BY <1>0, <1>3, <2>2 DEF Nodes
<1>5. /\ Down(v) /\ proc'[v].state # "down" /\ proc'[v].life = proc[v].life + 1
      /\ \A m \in Nodes : proc[m].life \in Nat /\ (m # v => proc'[m] = proc[m])
  BY <1>1, <1>4, StartedAlone
<1>6. \A m \in Nodes : WorkerFits(m)'
  <2> TAKE m \in Nodes
  <2>1. CASE m = v
    BY <1>1, <1>3, <1>5, <2>1 DEF WorkerFits, Down
  <2>2. CASE m # v
    BY <1>1, <1>3, <1>5, <2>2 DEF WorkerFits, Down
  <2> QED BY <2>1, <2>2
<1>7. \A m \in Nodes : m < launcher.plan.nodes => proc'[m].life # 0
  BY <1>3, <1>5
<1>8. StageInv'
  BY <1>1, <1>3, <1>7 DEF StageInv
<1>9. MultiprocInv'
  BY <1>1, <1>2, <1>6, <1>8 DEF MultiprocInv
<1>10. (\A m \in Nodes : FileFits(m)') /\ sidecar' \in {OfEarlierRun} \cup 0 .. proc'[0].life
  BY <1>1, <1>4, StartFiles
<1> QED BY <1>1, <1>2, <1>9, <1>10 DEF RunInv

(* _aggregate() after everybody was joined.                                *)
LEMMA AggregateRuns ==
    ASSUME ProcInv, RunInv, Aggregate
    PROVE  RunInv'
<1>0. DOMAIN launcher = {"pc", "plan", "next", "boot", "victims"}
  BY DEF ProcInv
<1>1. /\ launcher.pc = "join" /\ UNCHANGED << scenario, query, proc, sidecar, metrics >>
      /\ launcher'.pc = "done" /\ launcher'.victims = launcher.victims
      /\ launcher'.next = launcher.next /\ launcher'.plan = launcher.plan
      /\ \A i \in 0 .. launcher.plan.nodes - 1 : Down(i)
  BY <1>0 DEF Aggregate, directoryVars
<1>2. MultiprocInv /\ Multiproc /\ Multiproc' /\ StageInv
  BY <1>1 DEF RunInv, Multiproc, MultiprocInv, ScriptedInv
<1>3. \A i \in Nodes : FileFits(i)' /\ WorkerFits(i)'
  BY <1>1, <1>2 DEF RunInv, MultiprocInv, FileFits, WorkerFits, Down
<1>4. \A i \in Nodes : i < launcher.plan.nodes => Down(i)
  BY <1>1 DEF Nodes, RunInv
<1>5. StageInv'
  BY <1>1, <1>2, <1>4 DEF StageInv, Down
<1>6. MultiprocInv'
  BY <1>1, <1>2, <1>3, <1>5 DEF MultiprocInv
<1> QED BY <1>1, <1>2, <1>3, <1>6 DEF RunInv

(* A worker of run_multiproc.py opens its file, adds a line, and ends.     *)
LEMMA WorkerRuns ==
    ASSUME ProcInv, RunInv, NEW i \in Nodes, OpenMetrics(i) \/ Report(i) \/ WorkerEnds(i)
    PROVE  RunInv'
<1>0. 0 \in Nodes /\ DOMAIN metrics = Nodes /\ FileFits(i) /\ proc[i].life \in Nat
  <2>1. 0 \in Nodes
    BY DirectoryAssumption DEF Nodes
  <2>2. DOMAIN metrics = Nodes /\ FileFits(i)
    BY DEF RunInv
  <2>3. proc[i].life \in Nat
    BY DEF ProcInv, ProcFits
  <2> QED BY <2>1, <2>2, <2>3
<1>1. UNCHANGED << scenario, launcher >> /\ query'.pc = query.pc /\ Multiproc /\ Up(i)
  BY DEF OpenMetrics, Report, WorkerEnds, directoryVars
<1>2. MultiprocInv /\ Multiproc' /\ StageInv
  BY <1>1 DEF RunInv, Multiproc, MultiprocInv
<1>3. /\ \A m \in Nodes : proc'[m].life = proc[m].life /\ (m # i => Down(m)' = Down(m) /\ metrics'[m] = metrics[m])
      /\ DOMAIN metrics' = Nodes /\ DOMAIN metrics'[i] = {"life", "lines"}
      /\ sidecar' = sidecar \/ (i = 0 /\ sidecar' = proc[i].life)
      /\ \/ proc'[i].state = "up" /\ metrics'[i].life = proc[i].life /\ metrics'[i].lines = 0
         \/ proc'[i].state = "up" /\ metrics'[i].life = proc[i].life /\ metrics'[i].lines = 1
         \/ proc'[i].state = "down" /\ metrics'[i].life = proc[i].life /\ metrics'[i].lines = 1
  <2>1. CASE OpenMetrics(i)
    BY <1>0, <2>1 DEF OpenMetrics, directoryVars, Up, Down
  <2>2. CASE Report(i)
    BY <1>0, <2>2 DEF Report, directoryVars, Up, Down
  <2>3. CASE WorkerEnds(i)
    BY <1>0, <2>3 DEF WorkerEnds, Stopped, ProcInv, ProcFits, Down
  <2> QED BY <2>1, <2>2, <2>3
<1>4. ~ Down(i)
  BY <1>1 DEF Up, Down
<1>5. launcher.pc \notin {"build", "failed"} => \A m \in Nodes : WorkerFits(m)'
  <2> SUFFICES ASSUME launcher.pc \notin {"build", "failed"}, NEW m \in Nodes PROVE WorkerFits(m)'
    OBVIOUS
  <2>1. WorkerFits(m)
    BY <1>2 DEF MultiprocInv
  <2>2. CASE m = i
    BY <1>1, <1>3, <1>4, <2>1, <2>2 DEF WorkerFits, Down
  <2>3. CASE m # i
    BY <1>1, <1>3, <2>1, <2>3 DEF WorkerFits
  <2> QED BY <2>2, <2>3
<1>6. StageInv'
  <2>1. \A m \in Nodes : Down(m) => Down(m)'
    BY <1>3, <1>4
  <2> QED BY <1>1, <1>2, <1>3, <2>1 DEF StageInv
<1>7. MultiprocInv'
  BY <1>1, <1>2, <1>5, <1>6 DEF MultiprocInv
<1>8. \A m \in Nodes : FileFits(m)'
  BY <1>0, <1>3 DEF RunInv, FileFits
<1>9. sidecar' \in {OfEarlierRun} \cup 0 .. proc'[0].life
  BY <1>0, <1>3 DEF RunInv
<1> QED BY <1>1, <1>2, <1>3, <1>7, <1>8, <1>9 DEF RunInv

(* Who is stopped has the life it had; who is started, one more.           *)
LEMMA StoppedLives ==
    ASSUME ProcInv, NEW ns, Stopped(ns) PROVE \A n \in Nodes : proc[n].life \in Nat /\ proc'[n].life = proc[n].life
BY DEF Stopped, ProcInv, ProcFits

LEMMA StartedLives ==
    ASSUME ProcInv, NEW n, NEW contact, NEW linked, Start(n, contact, linked)
    PROVE  \A m \in Nodes : proc[m].life \in Nat /\ proc'[m].life \in Nat /\ proc'[m].life >= proc[m].life
BY DEF ProcInv, ProcFits, Start

(* The launchers of one process, and the client that asks a backbone.      *)
LEMMA ScriptRuns ==
    ASSUME ProcInv, RunInv, scenario' = scenario,
           \/ RunBackbone \/ RunMultimodalBackbone \/ RunCross \/ StopScripted
           \/ (\E i \in Nodes : Leave(i)) \/ (RunQuery /\ UNCHANGED << launcher, sidecar, metrics >>)
    PROVE  RunInv'
<1>0. DOMAIN launcher = {"pc", "plan", "next", "boot", "victims"} /\ launcher.next \in Nat
  BY DEF ProcInv
<1>1. ~ Multiproc
  <2>1. CASE RunBackbone \/ RunMultimodalBackbone \/ RunCross \/ (\E i \in Nodes : Leave(i))
    BY <2>1 DEF RunBackbone, RunMultimodalBackbone, RunCross, Leave, Multiproc
  <2>2. CASE StopScripted \/ RunQuery
    BY <2>2 DEF StopScripted, RunQuery, RunInv, MultiprocInv
  <2> QED BY <2>1, <2>2
<1>2. /\ UNCHANGED << sidecar, metrics >>
      /\ launcher'.next <= Processes + 1 /\ launcher'.plan.nodes \in Nat /\ ScriptedInv'
  <2>1. CASE LaunchScripted
    <3>1. launcher.next <= Len(Script) => launcher.next + 1 <= Processes + 1
      <4> DEFINE s == Script
      <4>1. s \in Seq([node : Nodes, contact : Nodes]) /\ Len(s) <= Processes
        BY LauncherAssumption DEF ProcInv, Script
      <4> HIDE DEF s
      <4>2. Len(s) \in Nat
        BY <4>1
      <4>3. Len(Script) \in Nat /\ Len(Script) <= Processes
        BY <4>1, <4>2 DEF s
      <4> QED BY <1>0, <4>3, DirectoryAssumption
    <3>2. /\ launcher'.next = launcher.next \/ (launcher.next <= Len(Script) /\ launcher'.next = launcher.next + 1)
          /\ launcher'.plan = launcher.plan /\ launcher'.victims = launcher.victims
          /\ launcher'.pc \in {launcher.pc, "running"} /\ UNCHANGED << sidecar, metrics >>
      BY <1>0, <2>1 DEF LaunchScripted
    <3> QED BY <1>1, <3>1, <3>2 DEF RunInv, ScriptedInv
  <2>2. CASE StopScripted
    BY <1>0, <1>1, <2>2 DEF StopScripted, RunInv, ScriptedInv
  <2>3. CASE (\E i \in Nodes : Leave(i)) \/ (RunQuery /\ UNCHANGED << launcher, sidecar, metrics >>)
    BY <1>1, <2>3 DEF Leave, RunInv, ScriptedInv
  <2> QED BY <2>1, <2>2, <2>3 DEF RunBackbone, RunMultimodalBackbone, RunCross
<1>3. \A n \in Nodes : proc[n].life \in Nat /\ proc'[n].life \in Nat /\ proc'[n].life >= proc[n].life
  <2>1. ASSUME NEW ns, Stopped(ns) PROVE \A n \in Nodes : proc[n].life \in Nat /\ proc'[n].life \in Nat /\ proc'[n].life >= proc[n].life
    BY <2>1, StoppedLives
  <2>2. ASSUME proc' = proc PROVE \A n \in Nodes : proc[n].life \in Nat /\ proc'[n].life \in Nat /\ proc'[n].life >= proc[n].life
    BY <2>2 DEF ProcInv, ProcFits
  <2>3. CASE LaunchScripted
    BY <2>2, <2>3, StartedLives DEF LaunchScripted, directoryVars
  <2>4. CASE RunQuery
    BY <2>4, StartedLives DEF RunQuery, RunInfer, RunMultimodalQuery, Join
  <2>5. CASE StopScripted \/ (\E i \in Nodes : Leave(i))
    BY <2>1, <2>5 DEF StopScripted, Leave
  <2> QED BY <2>3, <2>4, <2>5 DEF RunBackbone, RunMultimodalBackbone, RunCross
<1> QED BY <1>1, <1>2, <1>3, ScriptedRun

(* The client of a backbone is no business of the files.                   *)
LEMMA ClientRuns ==
    ASSUME ProcInv, RunInv, QueryShape, scenario' = scenario, ClientNext, UNCHANGED << launcher, sidecar, metrics >>
    PROVE  RunInv'
<1>1. CASE Conclude
  <2>1. query.pc = "asking" /\ Stopped({Client})
    BY <1>1 DEF Conclude
  <2>2. ~ Multiproc
    BY <2>1 DEF RunInv, MultiprocInv
  <2>3. \A n \in Nodes : proc[n].life \in Nat /\ proc'[n].life \in Nat /\ proc'[n].life >= proc[n].life
    BY <2>1, StoppedLives
  <2> QED BY <2>2, <2>3, ScriptedRun DEF RunInv, ScriptedInv
<1>2. CASE ~ Conclude
  <2>1. proc' = proc
    BY <1>2 DEF ClientNext, Seed, Classify, AnswerQuery, ReceiveAnswer
  <2>2. CASE Multiproc
    <3>1. query.pc = "idle"
      BY <2>2 DEF RunInv, MultiprocInv
    <3>2. query'.pc = query.pc
      BY <1>2, <3>1 DEF ClientNext, Seed, Joining, Classify, AnswerQuery, ReceiveAnswer, QueryShape
    <3> QED BY <2>1, <3>2, QuietRun DEF Down
  <2>3. CASE ~ Multiproc
    <3>1. \A n \in Nodes : proc[n].life \in Nat /\ proc'[n].life \in Nat /\ proc'[n].life >= proc[n].life
      BY <2>1 DEF ProcInv, ProcFits
    <3> QED BY <2>3, <3>1, ScriptedRun DEF RunInv, ScriptedInv
  <2> QED BY <2>2, <2>3
<1> QED BY <1>1, <1>2

(* RunInv is inductive.                                                    *)
LEMMA RunNext ==
    ASSUME ProcInv, RunInv, QueryShape, [Next]_vars
    PROVE  RunInv'
<1>0. scenario' = scenario
  BY RegistrySteps
<1>1. ASSUME CensusNext, UNCHANGED << query, launcher, sidecar, metrics >> PROVE RunInv'
  <2>1. proc' = proc \/ StartingGoesOn
    BY <1>1, DirectoryProcs DEF CensusNext, Meet, Bridge, FederationTick, ReceiveCensus
  <2> QED BY <1>0, <1>1, <2>1, QuietProcs, QuietRun
<1>2. ASSUME Launching PROVE RunInv'
  BY <1>0, <1>2, BuildRuns, SeedRuns, ReadRuns, NextRuns, KillRuns, RestartRuns, AggregateRuns, ScriptRuns DEF Launching
<1>3. ASSUME NEW i \in Nodes, OpenMetrics(i) \/ Report(i) \/ WorkerEnds(i) \/ Leave(i) PROVE RunInv'
  BY <1>0, <1>3, WorkerRuns, ScriptRuns
<1>4. CASE UNCHANGED vars
  BY <1>4, QuietRun DEF vars, directoryVars, Down
<1> QED BY <1>0, <1>1, <1>2, <1>3, <1>4, ClientRuns, ScriptRuns DEF Next

-----------------------------------------------------------------------------
(* What the launcher reads when it is done.                                *)

(* What is left when the launcher is done is what the nodes reported.      *)
LEMMA RunReports ==
    ASSUME ProcInv, RunInv PROVE ReportsThisRun
<1> SUFFICES ASSUME launcher.pc = "done", Multiproc
             PROVE  /\ \A i \in PerNode : metrics[i].life = proc[i].life
                    /\ \A i \in Nodes : i < launcher.plan.nodes /\ (i \in launcher.victims => i = Min(launcher.victims))
                         => i \in PerNode
  BY DEF ReportsThisRun
<1>1. /\ launcher.plan.nodes <= Processes /\ launcher.plan.nodes \in Nat
      /\ \A i \in Nodes : i < launcher.plan.nodes => Down(i) /\ proc[i].life # 0
      /\ \A i \in Nodes : WorkerFits(i) /\ FileFits(i)
  BY DEF RunInv, MultiprocInv, StageInv
<1>2. \A i \in 0 .. launcher.plan.nodes - 1 : i \in Nodes /\ i < launcher.plan.nodes
  BY <1>1, DirectoryAssumption DEF Nodes
<1>3. ASSUME NEW i \in PerNode PROVE metrics[i].life = proc[i].life
  <2>1. i \in Nodes /\ Down(i) /\ metrics[i].lines = 1
    BY <1>1, <1>2 DEF PerNode, FileFits
  <2> QED BY <1>1, <2>1 DEF WorkerFits
<1>4. ASSUME NEW i \in Nodes, i < launcher.plan.nodes, i \in launcher.victims => i = Min(launcher.victims)
      PROVE  i \in PerNode
  <2>1. metrics[i].lines = 1
    BY <1>1, <1>4 DEF WorkerFits, FileFits
  <2> QED BY <1>1, <1>4, <2>1 DEF PerNode, Nodes
<1> QED BY <1>3, <1>4

-----------------------------------------------------------------------------
(* The census: only a beacon keeps one, and it counts others.              *)

RowFits(b, row) ==
    /\ DOMAIN row = Nodes
    /\ \A p \in Nodes : /\ DOMAIN row[p] = {"ep", "at"} /\ DOMAIN row[p].at = Nodes
                        /\ Vouchers(row[p]) # {} => Beacon(b) /\ p # b

CensusInv == DOMAIN census = Nodes /\ \A b \in Nodes : RowFits(b, census[b])

(* A voucher that expires leaves the others.                               *)
LEMMA ExpireCensusFits ==
    ASSUME CensusInv, NEW b \in Nodes, NEW c, c = ExpireCensus(census[b])
    PROVE  RowFits(b, c)
<1> DEFINE Left(e) == [e EXCEPT !.at = [s \in Nodes |-> IF e.at[s] # Never /\ now - e.at[s] > CENSUS_TTL_S THEN Never ELSE e.at[s]]]
<1>1. DOMAIN c = Nodes /\ \A p \in Nodes : c[p] = IF Vouchers(Left(census[b][p])) = {} THEN Uncounted ELSE Left(census[b][p])
  BY DEF ExpireCensus
<1>2. DOMAIN Uncounted = {"ep", "at"} /\ DOMAIN Uncounted.at = Nodes /\ Vouchers(Uncounted) = {}
  BY DEF Uncounted, Vouchers
<1>3. ASSUME NEW e, DOMAIN e = {"ep", "at"}
      PROVE  DOMAIN Left(e) = {"ep", "at"} /\ DOMAIN Left(e).at = Nodes /\ Vouchers(Left(e)) \subseteq Vouchers(e)
  BY <1>3 DEF Vouchers
<1> HIDE DEF Left
<1>4. ASSUME NEW p \in Nodes
      PROVE  DOMAIN c[p] = {"ep", "at"} /\ DOMAIN c[p].at = Nodes /\ (Vouchers(c[p]) # {} => Beacon(b) /\ p # b)
  <2>1. PICK e : e = census[b][p]
    OBVIOUS
  <2>2. DOMAIN e = {"ep", "at"} /\ (Vouchers(e) # {} => Beacon(b) /\ p # b)
    BY <2>1 DEF CensusInv, RowFits
  <2>3. c[p] = IF Vouchers(Left(e)) = {} THEN Uncounted ELSE Left(e)
    BY <1>1, <2>1
  <2>4. CASE Vouchers(Left(e)) = {}
    BY <1>2, <2>3, <2>4
  <2>5. CASE Vouchers(Left(e)) # {}
    <3>1. c[p] = Left(e) /\ Vouchers(e) # {}
      BY <1>3, <2>2, <2>3, <2>5
    <3> QED BY <1>3, <2>2, <3>1
  <2> QED BY <2>4, <2>5
<1> QED BY <1>1, <1>4 DEF RowFits

(* _on_census(): a beacon counts others, as another beacon names them.     *)
LEMMA OnCensusFits ==
    ASSUME CensusInv, NEW b \in Nodes, Beacon(b), NEW d, NEW c, c = OnCensus(b, d)
    PROVE  RowFits(b, c)
<1>1. RowFits(b, census[b])
  BY DEF CensusInv
<1> DEFINE New(p) == [ep |-> d.list[p], at |-> [census[b][p].at EXCEPT ![d.by] = now]]
<1>2. c = [p \in Nodes |-> IF p = b \/ d.list[p] = Nowhere THEN census[b][p] ELSE New(p)]
  BY DEF OnCensus
<1>3. ASSUME NEW p \in Nodes PROVE DOMAIN New(p) = {"ep", "at"} /\ DOMAIN New(p).at = Nodes
  BY <1>1 DEF RowFits
<1> HIDE DEF New
<1> QED BY <1>1, <1>2, <1>3 DEF RowFits

(* Only a beacon's tick and a census from another change its own.          *)
LEMMA CensusSteps ==
    ASSUME [Next]_vars
    PROVE  \/ census' = census
           \/ \E b \in Nodes : census' = [census EXCEPT ![b] = ExpireCensus(census[b])]
           \/ \E d \in wire : Beacon(d.dst.of) /\ census' = [census EXCEPT ![d.dst.of] = OnCensus(d.dst.of, d)]
<1>1. ASSUME ClientNext \/ RunQuery PROVE census' = census
  BY <1>1 DEF ClientNext, RunQuery, RunInfer, RunMultimodalQuery, Join, Seed, Classify, Conclude,
              AnswerQuery, ReceiveAnswer, censusVars
<1>2. ASSUME Launching PROVE census' = census
  BY <1>2 DEF Launching, Build, LaunchSeed, ReadBootstrapAddr, LaunchNext, Kill, Restart, Aggregate,
              RunBackbone, RunMultimodalBackbone, RunCross, LaunchScripted, censusVars
<1>3. ASSUME NEW i, StopScripted \/ OpenMetrics(i) \/ Report(i) \/ WorkerEnds(i) \/ Leave(i)
      PROVE  census' = census
  BY <1>3 DEF StopScripted, OpenMetrics, Report, WorkerEnds, Leave, censusVars
<1>4. ASSUME NEW b \in Nodes, FederationTick(b) PROVE census' = [census EXCEPT ![b] = ExpireCensus(census[b])]
  BY <1>4 DEF FederationTick
<1>5. ASSUME NEW d \in wire, ReceiveCensus(d)
      PROVE  census' = census \/ (Beacon(d.dst.of) /\ census' = [census EXCEPT ![d.dst.of] = OnCensus(d.dst.of, d)])
  BY <1>5 DEF ReceiveCensus
<1>6. ASSUME CensusNext, \A b \in Nodes : ~ FederationTick(b), \A d \in wire : ~ ReceiveCensus(d) PROVE census' = census
  BY <1>6 DEF CensusNext, Meet, Bridge, censusVars
<1> QED BY <1>1, <1>2, <1>3, <1>4, <1>5, <1>6 DEF Next, vars, censusVars

(* CensusInv is inductive.                                                 *)
LEMMA CensusInvNext ==
    ASSUME LaunchInv, CensusInv, [Next]_vars
    PROVE  CensusInv'
<1>0. scenario' = scenario
  BY RegistrySteps
<1>1. CASE census' = census
  BY <1>0, <1>1 DEF CensusInv, RowFits, Beacon
<1>2. ASSUME NEW b \in Nodes, NEW c, census' = [census EXCEPT ![b] = c], RowFits(b, c) PROVE CensusInv'
  <2>1. ASSUME NEW v \in Nodes, NEW row, RowFits(v, row), row = census'[v] PROVE RowFits(v, census[v])'
    BY <1>0, <2>1 DEF RowFits, Beacon, Vouchers
  <2>2. DOMAIN census' = Nodes /\ census'[b] = c /\ \A v \in Nodes \ {b} : census'[v] = census[v]
    BY <1>2 DEF CensusInv
  <2>3. ASSUME NEW v \in Nodes PROVE RowFits(v, census'[v])
    BY <1>2, <2>2 DEF CensusInv
  <2> QED BY <2>1, <2>2, <2>3 DEF CensusInv
<1>3. ASSUME NEW b \in Nodes, census' = [census EXCEPT ![b] = ExpireCensus(census[b])] PROVE CensusInv'
  BY <1>2, <1>3, ExpireCensusFits
<1>4. ASSUME NEW d \in wire, Beacon(d.dst.of), census' = [census EXCEPT ![d.dst.of] = OnCensus(d.dst.of, d)] PROVE CensusInv'
  <2>1. d.dst.of \in Nodes
    BY <1>4 DEF LaunchInv, WireInv, DatagramFits
  <2>2. RowFits(d.dst.of, OnCensus(d.dst.of, d))
    BY <1>4, <2>1, OnCensusFits
  <2> QED BY <1>2, <1>4, <2>1, <2>2
<1> QED BY <1>1, <1>3, <1>4, CensusSteps

(* Only a client of the scenario joins.                                    *)
LEMMA QueryNext ==
    ASSUME QueryShape, [Next]_vars
    PROVE  QueryShape'
<1>0. scenario' = scenario
  BY RegistrySteps
<1>1. CASE query' = query
  BY <1>0, <1>1 DEF QueryShape
<1>2. CASE ClientNext
  <2>1. CASE Seed \/ Classify \/ Conclude
    BY <1>0, <2>1 DEF Seed, Joining, Classify, Conclude, QueryShape
  <2>2. ASSUME NEW d \in wire, AnswerQuery(d) \/ ReceiveAnswer(d) PROVE QueryShape'
    BY <1>0, <2>2 DEF AnswerQuery, ReceiveAnswer, QueryShape
  <2> QED BY <1>2, <2>1, <2>2 DEF ClientNext
<1>3. CASE RunQuery
  BY <1>0, <1>3 DEF RunQuery, RunInfer, RunMultimodalQuery, Join, QueryShape
<1>4. ASSUME Launching \/ StopScripted PROVE query' = query
  BY <1>4 DEF Launching, Build, LaunchSeed, ReadBootstrapAddr, LaunchNext, Kill, Restart, Aggregate, StopScripted,
              RunBackbone, RunMultimodalBackbone, RunCross, LaunchScripted
<1>5. ASSUME NEW i, OpenMetrics(i) \/ Report(i) \/ WorkerEnds(i) \/ Leave(i) PROVE query' = query
  BY <1>5 DEF OpenMetrics, Report, WorkerEnds, Leave
<1> QED BY <1>1, <1>2, <1>3, <1>4, <1>5 DEF Next, vars

-----------------------------------------------------------------------------
(* All of it together is inductive.                                        *)

WholeInv == LaunchInv /\ RunInv /\ CensusInv

(* Every scenario starts in it.                                            *)
LEMMA WholeInit == Init => WholeInv
<1> SUFFICES ASSUME Init PROVE WholeInv
  OBVIOUS
<1>1. DirectoryInit /\ CensusInit /\ QueryInit
  BY DEF Init, QueryInit, CensusInit
<1>2. PeersInv
  BY <1>1, ScenarioAssumption DEF CensusInit, DirectoryInit, PeersInv, Nodes
<1>3. KnowInv
  BY <1>1 DEF DirectoryInit, KnowInv, KnowledgeFits, Newborn, Unknown, Perhaps
<1>4. WireInv
  <2>1. wire = {} /\ IsFiniteSet({}) /\ Cardinality({}) = 0 /\ now = 0 /\ {scenario.until, scenario.inFlight} \subseteq Nat
    BY <1>1, FS_EmptySet, ScenarioAssumption DEF DirectoryInit
  <2> QED BY <2>1 DEF WireInv
<1>5. QueryShape
  BY <1>1 DEF QueryInit, QueryShape
<1>6. CensusInv
  BY <1>1 DEF CensusInit, CensusInv, RowFits, Uncounted, Vouchers
<1> QED BY <1>2, <1>3, <1>4, <1>5, <1>6, HeardInvInit, ProcInit, RunInit DEF WholeInv, LaunchInv

(* Every step keeps it.                                                    *)
LEMMA WholeNext == WholeInv /\ [Next]_vars => WholeInv'
<1> SUFFICES ASSUME WholeInv, [Next]_vars PROVE WholeInv'
  OBVIOUS
<1>1. LaunchInv
  BY DEF WholeInv
<1>2. KnowInv'
  BY <1>1, KnowNext
<1>3. WireInv'
  BY <1>1, <1>2, WireNext
<1>4. HeardInv' /\ PeersInv' /\ ProcInv' /\ QueryShape'
  BY <1>1, HeardInvNext, PeersNext, ProcNext, QueryNext DEF LaunchInv
<1>5. RunInv' /\ CensusInv'
  BY <1>1, RunNext, CensusInvNext DEF WholeInv, LaunchInv
<1> QED BY <1>2, <1>3, <1>4, <1>5 DEF WholeInv, LaunchInv

(* And it has the types.                                                   *)
LEMMA WholeIsTypeOK == WholeInv => TypeOK
<1> SUFFICES ASSUME WholeInv PROVE TypeOK
  OBVIOUS
<1>1. DirectoryTypeOK
  <2>1. now \in 0 .. scenario.until /\ Cardinality(wire) <= scenario.inFlight
    BY DEF WholeInv, LaunchInv, WireInv
  <2> SUFFICES ASSUME NEW n \in Nodes
               PROVE  /\ proc[n].state \in {"down", "starting", "up"} /\ proc[n].tries \in 0 .. LookupRounds
                      /\ n \notin node[n].peers
                      /\ n \notin Known(node[n].disc) \cup Known(node[n].bus)
                      /\ \A m \in Nodes : node[n].seen[m] = Never =>
                            node[n].disc[m] = Nowhere \/ (m = proc[n].contact /\ scenario.told)
                      /\ \A m \in Nodes : node[n].seen[m] # Never => node[n].disc[m] # Nowhere
                      /\ \A m \in node[n].peers : node[n].bus[m] # Nowhere
    BY <2>1 DEF DirectoryTypeOK
  <2>2. ProcFits(n, proc[n]) /\ KnowledgeFits(n, node[n], Told(n))
    BY DEF WholeInv, LaunchInv, ProcInv, KnowInv
  <2>3. \A m : m \in Told(n) => m = proc[n].contact /\ scenario.told
    BY DEF Told
  <2> QED BY <2>2, <2>3 DEF ProcFits, KnowledgeFits, Known
<1>2. launcher.next \in 1 .. Processes + 1
  BY DirectoryAssumption DEF WholeInv, LaunchInv, ProcInv, RunInv
<1>3. launcher.victims \subseteq Nodes \ {0}
  <2>1. CASE Multiproc
    <3>1. StageInv /\ launcher.plan.nodes \in Nat
      BY <2>1 DEF WholeInv, RunInv, MultiprocInv
    <3>2. launcher.victims = {} \/ (launcher.victims \subseteq 1 .. launcher.plan.nodes - 1 /\ launcher.plan.nodes <= Processes)
      BY <3>1 DEF StageInv
    <3> QED BY <3>1, <3>2, DirectoryAssumption DEF Nodes
  <2>2. CASE ~ Multiproc
    BY <2>2 DEF WholeInv, RunInv, ScriptedInv
  <2> QED BY <2>1, <2>2
<1>4. sidecar \in {OfEarlierRun} \cup 0 .. proc[0].life /\ \A i \in Nodes : metrics[i].life <= proc[i].life
  BY DEF WholeInv, RunInv, FileFits
<1>5. \A b, p \in Nodes : Vouchers(census[b][p]) # {} => Beacon(b) /\ p # b
  BY DEF WholeInv, CensusInv, RowFits
<1> QED BY <1>1, <1>2, <1>3, <1>4, <1>5 DEF TypeOK

(* TypeOK of Launchers, for every number of processes and every scenario:  *)
(* no node has itself for a peer or dials an address of another one's, a   *)
(* peer's stamp goes with its address, the wire holds what the scenario    *)
(* lets it hold, a beacon alone keeps a census and is not in it, a         *)
(* launcher counts its nodes, and a file is never of a life to come        *)
(* (ingest_pex and _expire_stale in discovery.py, dispatch and _on_pex in  *)
(* net_node.py, _on_census in federation.py, run_chaos in                  *)
(* run_multiproc.py).                                                      *)
THEOREM SwarmsAreTyped == Spec => []TypeOK
BY WholeInit, WholeNext, WholeIsTypeOK, PTL DEF Spec

(* ReportsThisRun of Launchers, for every number of nodes, kills and every *)
(* interleaving of the workers with the launcher: the files that it reads  *)
(* when it is done are of the last life of each node, and all of them are  *)
(* there except those of victims that were not restarted (_worker,         *)
(* run_chaos and _aggregate in run_multiproc.py).                          *)
THEOREM FilesAreOfThisRun == Spec => []ReportsThisRun
<1>1. WholeInv => ReportsThisRun
  BY RunReports DEF WholeInv, LaunchInv
<1> QED BY <1>1, WholeInit, WholeNext, PTL DEF Spec

-----------------------------------------------------------------------------
(* Asking: what is needed for an expert that is still there to be heard.   *)

\* A scenario with a client.
Asked == ~ Multiproc /\ scenario.client # "none"

(* Every node but the client is started once, by the script, which is done *)
(* when the client is started.                                             *)
OnceInv ==
    /\ \A n \in Nodes : ~ Down(n) => proc[n].life # 0
    /\ query.pc # "idle" => launcher.pc \in {"running", "done"}
    /\ Asked => \A n \in Nodes \ {Client} :
        /\ proc[n].life \in {0, 1}
        /\ proc[n].life # 0 => \E i \in 1 .. Len(Script) : i < launcher.next /\ Script[i].node = n
        /\ launcher.pc \in {"running", "done"} => proc[n].state # "starting"
    /\ Asked => registry[Client] = {}

\* A datagram is of the life its sender has, or of an earlier one.
LivesInv == \A d \in wire : d.life \in 1 .. proc[d.by].life

\* An address at which the client reaches e, if e is there.
Direct(e, a) ==
    /\ a.of = e /\ a.life = 1
    /\ a.host \in {scenario.machine[e], IF scenario.machine[Client] = scenario.machine[e] THEN Loopback ELSE scenario.machine[e]}

(* The client dials every expert where it is, from the book or because it  *)
(* has heard it since.                                                     *)
BookInv ==
    /\ DOMAIN query.votes = Experts
    /\ query.pc \in {"idle", "joining", "settled", "asking", "done"}
    /\ query.pc \in {"settled", "asking", "done"} => proc[Client].state # "starting"
    /\ Asked /\ query.pc = "settled" => \A e \in Experts : Direct(e, node[Client].bus[e])

IsQuery(d, e) == d.kind = "query" /\ d.by = Client /\ d.life = proc[Client].life /\ Direct(e, d.dst)
IsAnswer(d, e) == d.kind = "answer" /\ d.by = e /\ d.dst = Observed(e, Client, proc[Client].life)

(* An expert that is there was asked, and then: the query is under way, or *)
(* the answer, or it has come.                                             *)
VoiceInv ==
    \A e \in Experts \cap scenario.knowing :
        Up(e) /\ (query.pc = "done" \/ (query.pc = "asking" /\ Up(Client))) =>
            \/ query.votes[e] = Opinion
            \/ query.pc = "asking" /\ \E d \in wire : IsQuery(d, e) \/ IsAnswer(d, e)

(* The client is the last node.                                            *)
LEMMA ClientIsNode == Client \in Nodes /\ 0 \in Nodes
BY DirectoryAssumption DEF Client, Nodes

(* An expert is where the book says it is.                                 *)
LEMMA ExpertsAtHost ==
    ASSUME scenario \in Scenarios, scenario.client # "none", NEW e \in Experts
    PROVE  e \in Nodes \ {Client} /\ scenario.machine[e] = scenario.publicHost
<1>1. PICK m \in Modalities : e \in ExpertsOf(m)
  BY DEF Experts
<1>2. scenario.machine[e] = scenario.publicHost
  BY <1>1, QueryClientAssumption DEF Modalities, ExpertsOf
<1> QED BY <1>2, ExpertsAreOthers

-----------------------------------------------------------------------------
(* Lives.                                                                  *)

(* No life is lived twice.                                                 *)
LEMMA LivesGrow ==
    ASSUME ProcInv, [Next]_vars
    PROVE  \A n \in Nodes : proc[n].life \in Nat /\ proc'[n].life \in Nat /\ proc'[n].life >= proc[n].life
<1>0. \A n \in Nodes : proc[n].life \in Nat
  BY DEF ProcInv, ProcFits
<1>1. CASE proc' = proc \/ StartingGoesOn
  BY <1>0, <1>1, QuietProcs
<1>2. CASE Starts
  BY <1>2, StartedLives DEF Starts
<1>3. CASE \E ns : Stopped(ns)
  BY <1>3, StoppedLives
<1> QED BY <1>1, <1>2, <1>3, ProcSteps DEF ProcStep

(* Only who lives sends.                                                   *)
LEMMA SentByTheLiving ==
    ASSUME LaunchInv, [Next]_vars, NEW d \in wire', d \notin wire
    PROVE  d.by \in Nodes /\ ~ Down(d.by) /\ d.life = proc[d.by].life
<1>0. ~ (wire' \subseteq wire)
  OBVIOUS
<1>1. ASSUME NEW n \in Nodes, NEW m \in Nodes, NEW kind, Round(n, m, kind) PROVE d.by = n /\ d.life = proc[n].life /\ Up(n)
  BY <1>1 DEF Round, Datagram
<1>2. ASSUME NEW n \in Nodes, NEW m \in Nodes, Bridge(n, m) PROVE d.by = n /\ d.life = proc[n].life /\ Up(n)
  BY <1>2 DEF Bridge, Transmit, Datagram
<1>3. ASSUME NEW n \in Nodes, FederationTick(n) PROVE d.by = n /\ d.life = proc[n].life /\ Up(n)
  BY <1>3 DEF FederationTick, Transmit, Datagram
<1>4. ASSUME Classify PROVE d.by = Client /\ d.life = proc[Client].life /\ Up(Client)
  BY <1>4 DEF Classify, Asks, Datagram
<1>5. ASSUME NEW q \in wire, AnswerQuery(q) PROVE d.by = q.dst.of /\ d.life = proc[q.dst.of].life /\ ~ Down(q.dst.of) /\ q.dst.of \in Nodes
  <2>1. q.dst.of \in Nodes
    BY DEF LaunchInv, WireInv, DatagramFits
  <2> QED BY <1>5, <2>1 DEF AnswerQuery, Datagram, Reaches
<1>6. ASSUME DirectoryNext, \A n \in Nodes, m \in Nodes, kind \in {"protos", "pex"} : ~ Round(n, m, kind) PROVE wire' \subseteq wire
  BY <1>6 DEF DirectoryNext, FastRetry, Refresh, LookupFinds, LookupFails, FallBack, Receive, Vanish, Arrives, Tick
<1>7. ASSUME NEW b, NEW c, Meet(b, c) \/ (b \in wire /\ ReceiveCensus(b)) PROVE wire' \subseteq wire
  BY <1>7 DEF Meet, ReceiveCensus, Arrives
<1>8. ASSUME NEW r, Seed \/ Conclude \/ ReceiveAnswer(r) \/ RunQuery PROVE wire' \subseteq wire
  BY <1>8 DEF Seed, Conclude, ReceiveAnswer, Arrives, RunQuery, RunInfer, RunMultimodalQuery, Join, Start
<1>9. ASSUME Launching PROVE wire' \subseteq wire
  BY <1>9 DEF Launching, Build, LaunchSeed, ReadBootstrapAddr, LaunchNext, Kill, Restart, Aggregate,
              RunBackbone, RunMultimodalBackbone, RunCross, LaunchScripted, Start, directoryVars
<1>10. ASSUME NEW i, StopScripted \/ OpenMetrics(i) \/ Report(i) \/ WorkerEnds(i) \/ Leave(i) PROVE wire' \subseteq wire
  BY <1>10 DEF StopScripted, OpenMetrics, Report, WorkerEnds, Leave, directoryVars
<1>11. ~ UNCHANGED vars
  BY <1>0 DEF vars, directoryVars
<1>12. CASE CensusNext
  BY <1>0, <1>1, <1>2, <1>3, <1>6, <1>7, <1>12 DEF CensusNext, Up, Down
<1>13. CASE ClientNext \/ RunQuery
  BY <1>0, <1>4, <1>5, <1>8, <1>13, ClientIsNode DEF ClientNext, Up, Down
<1> QED BY <1>0, <1>9, <1>10, <1>11, <1>12, <1>13 DEF Next

(* LivesInv is inductive.                                                  *)
LEMMA LivesNext ==
    ASSUME LaunchInv, OnceInv, LivesInv, [Next]_vars
    PROVE  LivesInv'
<1> SUFFICES ASSUME NEW d \in wire' PROVE d.life \in 1 .. proc'[d.by].life
  BY DEF LivesInv
<1>1. CASE d \in wire
  <2>1. d.life \in 1 .. proc[d.by].life /\ d.by \in Nodes
    BY <1>1 DEF LivesInv, LaunchInv, WireInv, DatagramFits
  <2>2. proc[d.by].life \in Nat /\ proc'[d.by].life \in Nat /\ proc'[d.by].life >= proc[d.by].life
    BY <2>1, LivesGrow DEF LaunchInv
  <2> QED BY <2>1, <2>2
<1>2. CASE d \notin wire
  <2>1. d.by \in Nodes /\ ~ Down(d.by) /\ d.life = proc[d.by].life
    BY <1>2, SentByTheLiving
  <2>2. proc[d.by].life \in Nat /\ proc'[d.by].life \in Nat /\ proc'[d.by].life >= proc[d.by].life
    BY <2>1, LivesGrow DEF LaunchInv
  <2>3. proc[d.by].life # 0
    BY <2>1 DEF OnceInv
  <2> QED BY <2>1, <2>2, <2>3
<1> QED BY <1>1, <1>2

-----------------------------------------------------------------------------
(* Every node but the client is started once.                              *)

\* Nobody is started.
Rests == proc' = proc \/ StartingGoesOn \/ \E ns : Stopped(ns)

(* Who is not started lives on, or not.                                    *)
LEMMA RestingProcs ==
    ASSUME ProcInv, Rests
    PROVE  \A n \in Nodes : /\ proc'[n].life = proc[n].life
                            /\ proc'[n].state = "starting" => proc[n].state = "starting"
                            /\ proc'[n].state = "up" => proc[n].state \in {"up", "starting"}
                            /\ Down(n) => Down(n)'
<1>1. CASE proc' = proc \/ StartingGoesOn
  <2>1. \A n \in Nodes : proc'[n].life = proc[n].life /\ Down(n)' = Down(n)
    BY <1>1, QuietProcs
  <2>2. \A n \in Nodes : proc'[n].state = "starting" => proc[n].state = "starting"
    <3>1. ASSUME NEW m \in Nodes, proc[m].state = "starting",
                 proc' = [proc EXCEPT ![m].state = "up"] \/ proc' = [proc EXCEPT ![m].tries = @ + 1]
          PROVE  \A n \in Nodes : proc'[n].state = "starting" => proc[n].state = "starting"
      <4>1. DOMAIN proc = Nodes /\ DOMAIN proc[m] = {"state", "life", "contact", "linked", "tries"}
        BY DEF ProcInv, ProcFits
      <4> QED BY <3>1, <4>1
    <3> QED BY <1>1, <3>1 DEF StartingGoesOn
  <2>3. \A n \in Nodes : ProcFits(n, proc[n])
    BY DEF ProcInv
  <2> QED BY <2>1, <2>2, <2>3 DEF Down, ProcFits
<1>2. ASSUME NEW ns, Stopped(ns)
      PROVE  \A n \in Nodes : /\ proc'[n].life = proc[n].life
                              /\ proc'[n].state = "starting" => proc[n].state = "starting"
                              /\ proc'[n].state = "up" => proc[n].state \in {"up", "starting"}
                              /\ Down(n) => Down(n)'
  BY <1>2 DEF Stopped, ProcInv, ProcFits, Down
<1> QED BY <1>1, <1>2 DEF Rests

(* The scenario is given.                                                  *)
LEMMA AskedStays ==
    ASSUME [Next]_vars
    PROVE  (Asked <=> Asked') /\ Experts' = Experts /\ Script' = Script /\ (Multiproc <=> Multiproc')
<1>1. scenario' = scenario
  BY RegistrySteps
<1> QED BY <1>1 DEF Asked, Multiproc, Experts, Modalities, ExpertsOf, Script

(* A script is a launcher that starts one node after the other.            *)
LEMMA ScriptedSteps ==
    ASSUME ProcInv, RunInv, ~ Multiproc, [Next]_vars
    PROVE  \/ LaunchScripted /\ query' = query
           \/ RunQuery /\ launcher' = launcher
           \/ /\ Rests /\ launcher'.next = launcher.next
              /\ launcher'.pc \in {"running", "done"} <=> launcher.pc \in {"running", "done"}
<1>0. ScriptedInv /\ DOMAIN launcher = {"pc", "plan", "next", "boot", "victims"}
  BY DEF RunInv, ProcInv
<1>1. CASE ClientNext /\ UNCHANGED launcher
  BY <1>1 DEF ClientNext, Seed, Classify, Conclude, AnswerQuery, ReceiveAnswer, Rests
<1>2. CASE CensusNext /\ UNCHANGED launcher
  <2>1. proc' = proc \/ StartingGoesOn
    BY <1>2, DirectoryProcs DEF CensusNext, Meet, Bridge, FederationTick, ReceiveCensus
  <2> QED BY <1>2, <2>1 DEF Rests
<1>3. CASE Launching
  <2>1. CASE Build
    <3>1. proc' = proc
      BY <2>1 DEF Build, directoryVars
    <3>2. launcher.pc = "build" /\ launcher'.next = launcher.next /\ launcher'.pc \in {"launch", "failed"}
      BY <1>0, <2>1 DEF Build, Plan
    <3> QED BY <3>1, <3>2 DEF Rests
  <2>2. CASE LaunchScripted
    BY <2>2 DEF LaunchScripted
  <2>3. ~ (LaunchSeed \/ ReadBootstrapAddr \/ LaunchNext \/ Kill \/ Restart \/ Aggregate)
    BY <1>0 DEF ScriptedInv, LaunchSeed, ReadBootstrapAddr, LaunchNext, Kill, Restart, Aggregate
  <2> QED BY <1>3, <2>1, <2>2, <2>3 DEF Launching, RunBackbone, RunMultimodalBackbone, RunCross
<1>4. CASE StopScripted
  BY <1>0, <1>4 DEF StopScripted, Rests
<1>5. ASSUME NEW i \in Nodes, OpenMetrics(i) \/ Report(i) \/ WorkerEnds(i) \/ Leave(i)
      PROVE  Rests /\ launcher' = launcher
  BY <1>0, <1>5 DEF OpenMetrics, Report, WorkerEnds, Leave, Rests
<1>6. CASE UNCHANGED vars
  BY <1>6 DEF vars, directoryVars, Rests
<1> QED BY <1>1, <1>2, <1>3, <1>4, <1>5, <1>6 DEF Next

(* With a client the launcher is a script.                                 *)
LEMMA AskedSteps ==
    ASSUME ProcInv, RunInv, Asked, [Next]_vars
    PROVE  \/ LaunchScripted /\ query' = query
           \/ RunQuery /\ launcher' = launcher
           \/ /\ Rests /\ launcher'.next = launcher.next
              /\ launcher'.pc \in {"running", "done"} <=> launcher.pc \in {"running", "done"}
BY ScriptedSteps DEF Asked

(* Once somebody asks, nobody is started any more.                         *)
LEMMA AskingRests ==
    ASSUME ProcInv, RunInv, QueryShape, OnceInv, query.pc # "idle", [Next]_vars
    PROVE  Asked /\ Rests /\ launcher'.pc \in {"running", "done"}
<1>1. Asked
  BY DEF Asked, QueryShape, RunInv, MultiprocInv
<1>2. ~ LaunchScripted /\ ~ RunQuery
  BY DEF OnceInv, LaunchScripted, RunQuery, RunInfer, RunMultimodalQuery, Join
<1> QED BY <1>1, <1>2, AskedSteps DEF OnceInv

(* A script has each node once, and not the client.                        *)
LEMMA ScriptIs ==
    ASSUME scenario \in Scenarios
    PROVE  /\ Len(Script) \in Nat
           /\ \A i \in 1 .. Len(Script) : Script[i].node \in Nodes /\ Script[i].contact \in Nodes
           /\ \A i, j \in 1 .. Len(Script) : Script[i].node = Script[j].node => i = j
           /\ scenario.client # "none" => \A i \in 1 .. Len(Script) : Script[i].node # Client
<1> DEFINE s == Script
           S == [node : Nodes, contact : Nodes]
<1>1. /\ s \in Seq(S)
      /\ \A i, j \in 1 .. Len(s) : s[i].node = s[j].node => i = j
      /\ scenario.client # "none" => \A i \in 1 .. Len(s) : s[i].node # Client
  BY LauncherAssumption DEF Script
<1>2. \A x \in S : x.node \in Nodes /\ x.contact \in Nodes
  OBVIOUS
<1> HIDE DEF S, s
<1>3. Len(s) \in Nat /\ \A i \in 1 .. Len(s) : s[i] \in S
  BY <1>1
<1> QED BY <1>1, <1>2, <1>3 DEF s

\* What OnceInv says of a node.
Once(n) ==
    /\ proc[n].life \in {0, 1}
    /\ proc[n].life # 0 => \E i \in 1 .. Len(Script) : i < launcher.next /\ Script[i].node = n
    /\ launcher.pc \in {"running", "done"} => proc[n].state # "starting"

(* The script starts the next of its nodes.                                *)
LEMMA OnceScripted ==
    ASSUME ProcInv, OnceInv, Asked, LaunchScripted, [Next]_vars, NEW n \in Nodes \ {Client}
    PROVE  Once(n)'
<1>0. scenario \in Scenarios /\ launcher.next \in Nat \ {0} /\ DOMAIN launcher = {"pc", "plan", "next", "boot", "victims"}
  BY DEF ProcInv
<1>1. Once(n) /\ Script' = Script
  BY AskedStays DEF OnceInv, Once
<1>2. CASE launcher.next <= Len(Script)
  <2> DEFINE i == launcher.next
             m == Script[i].node
  <2>1. i \in 1 .. Len(Script) /\ m \in Nodes
    BY <1>0, <1>2, ScriptIs
  <2>2. launcher'.next = i + 1 /\ launcher'.pc = "launch" /\ Start(m, Script[i].contact, TRUE)
    BY <1>0, <1>2 DEF LaunchScripted
  <2>3. proc'[m].life = proc[m].life + 1 /\ \A k \in Nodes : k # m => proc'[k] = proc[k]
    BY <2>1, <2>2, StartedAlone
  <2>4. CASE n = m
    <3>1. proc[n].life = 0
      <4>1. ~ \E j \in 1 .. Len(Script) : j < i /\ Script[j].node = n
        BY <1>0, <2>1, <2>4, ScriptIs
      <4> QED BY <1>1, <4>1 DEF Once
    <3>2. proc'[n].life = 1
      BY <2>3, <2>4, <3>1
    <3>3. \E j \in 1 .. Len(Script) : j < launcher'.next /\ Script[j].node = n
      BY <2>1, <2>2, <2>4, <1>0
    <3> QED BY <1>1, <2>2, <3>2, <3>3 DEF Once
  <2>5. CASE n # m
    <3>1. proc'[n] = proc[n]
      BY <2>3, <2>5
    <3>2. \A j \in 1 .. Len(Script) : j < launcher.next => j < launcher'.next
      BY <1>0, <2>2
    <3> QED BY <1>1, <2>2, <3>1, <3>2 DEF Once
  <2> QED BY <2>4, <2>5
<1>3. CASE ~ launcher.next <= Len(Script)
  <2>1. proc' = proc /\ launcher'.next = launcher.next /\ proc[n].state # "starting"
    BY <1>0, <1>3 DEF LaunchScripted, directoryVars
  <2> QED BY <1>1, <2>1 DEF Once
<1> QED BY <1>2, <1>3

(* OnceInv is inductive.                                                   *)
LEMMA OnceNext ==
    ASSUME WholeInv, OnceInv, [Next]_vars
    PROVE  OnceInv'
<1>0. ProcInv /\ RunInv /\ QueryShape /\ PeersInv /\ scenario' = scenario /\ scenario \in Scenarios
  BY RegistrySteps DEF WholeInv, LaunchInv, ProcInv
<1>1. \A n \in Nodes : ~ Down(n)' => proc'[n].life # 0
  <2>1. CASE Rests
    BY <1>0, <2>1, RestingProcs DEF OnceInv
  <2>2. ASSUME NEW n, NEW contact, NEW linked, Start(n, contact, linked)
        PROVE  \A m \in Nodes : ~ Down(m)' => proc'[m].life # 0
    <3>1. CASE n \in Nodes
      <4>1. proc'[n].life = proc[n].life + 1 /\ \A m \in Nodes : proc[m].life \in Nat /\ (m # n => proc'[m] = proc[m])
        BY <1>0, <2>2, <3>1, StartedAlone
      <4>2. \A m \in Nodes \ {n} : ~ Down(m)' => ~ Down(m)
        BY <4>1 DEF Down
      <4> QED BY <3>1, <4>1, <4>2 DEF OnceInv
    <3>2. CASE n \notin Nodes
      <4>1. \A m \in Nodes : proc'[m] = proc[m]
        BY <1>0, <2>2, <3>2 DEF Start, ProcInv
      <4> QED BY <4>1 DEF OnceInv, Down
    <3> QED BY <3>1, <3>2
  <2> QED BY <1>0, <2>1, <2>2, ProcSteps DEF ProcStep, Rests, Starts
<1>2. query'.pc # "idle" => launcher'.pc \in {"running", "done"}
  <2>1. CASE query.pc # "idle"
    BY <1>0, <2>1, AskingRests
  <2>2. CASE query.pc = "idle" /\ query'.pc # "idle"
    <3>1. ~ ClientNext
      BY <1>0, <2>2 DEF ClientNext, Seed, Joining, Classify, Conclude, AnswerQuery, ReceiveAnswer, QueryShape
    <3>2. ASSUME Launching \/ StopScripted PROVE query' = query
      BY <3>2 DEF Launching, Build, LaunchSeed, ReadBootstrapAddr, LaunchNext, Kill, Restart, Aggregate, StopScripted,
                  RunBackbone, RunMultimodalBackbone, RunCross, LaunchScripted
    <3>3. ASSUME NEW i, OpenMetrics(i) \/ Report(i) \/ WorkerEnds(i) \/ Leave(i) PROVE query' = query
      BY <3>3 DEF OpenMetrics, Report, WorkerEnds, Leave
    <3>4. RunQuery /\ launcher' = launcher
      BY <2>2, <3>1, <3>2, <3>3 DEF Next, vars
    <3> QED BY <3>4 DEF RunQuery
  <2> QED BY <2>1, <2>2
<1>3. ASSUME Asked PROVE \A n \in Nodes \ {Client} : Once(n)'
  <2> TAKE n \in Nodes \ {Client}
  <2>1. Once(n) /\ Script' = Script
    BY <1>3, AskedStays DEF OnceInv, Once
  <2>2. CASE LaunchScripted
    BY <1>0, <1>3, <2>2, OnceScripted
  <2>3. CASE RunQuery /\ launcher' = launcher
    <3>1. Start(Client, 0, ~ Down(0))
      BY <2>3 DEF RunQuery, RunInfer, RunMultimodalQuery, Join
    <3>2. proc'[n] = proc[n]
      BY <1>0, <3>1, StartedAlone, ClientIsNode
    <3> QED BY <2>1, <2>3, <3>2 DEF Once
  <2>4. CASE /\ Rests /\ launcher'.next = launcher.next
             /\ launcher'.pc \in {"running", "done"} <=> launcher.pc \in {"running", "done"}
    <3>1. proc'[n].life = proc[n].life /\ (proc'[n].state = "starting" => proc[n].state = "starting")
      BY <1>0, <2>4, RestingProcs
    <3> QED BY <2>1, <2>4, <3>1 DEF Once
  <2> QED BY <1>0, <1>3, <2>2, <2>3, <2>4, AskedSteps
<1>4. ASSUME Asked PROVE registry'[Client] = {}
  <2>1. Client \notin scenario.beacons
    BY <1>0, <1>3, <1>4, QueryClientAssumption DEF Asked, Client
  <2>2. registry[Client] = {} /\ DOMAIN registry = Nodes
    BY <1>0, <1>4 DEF OnceInv, PeersInv
  <2> QED BY <2>1, <2>2, ClientIsNode, RegistrySteps
<1> QED BY <1>1, <1>2, <1>3, <1>4, AskedStays DEF OnceInv, Once

-----------------------------------------------------------------------------
(* The client dials its experts where they are.                            *)

(* A query changes only as its client says.                                *)
LEMMA QuerySteps ==
    ASSUME [Next]_vars
    PROVE  query' = query \/ Seed \/ Classify \/ Conclude \/ RunQuery \/ \E d \in wire : ReceiveAnswer(d)
<1>1. ASSUME Launching \/ StopScripted PROVE query' = query
  BY <1>1 DEF Launching, Build, LaunchSeed, ReadBootstrapAddr, LaunchNext, Kill, Restart, Aggregate, StopScripted,
              RunBackbone, RunMultimodalBackbone, RunCross, LaunchScripted
<1>2. ASSUME NEW i, OpenMetrics(i) \/ Report(i) \/ WorkerEnds(i) \/ Leave(i) PROVE query' = query
  BY <1>2 DEF OpenMetrics, Report, WorkerEnds, Leave
<1>3. ASSUME NEW d \in wire, AnswerQuery(d) PROVE query' = query
  BY <1>3 DEF AnswerQuery
<1> QED BY <1>1, <1>2, <1>3 DEF Next, ClientNext, vars

(* A datagram says where its sender is, and of others only what is new.    *)
LEMMA DispatchBus ==
    ASSUME scenario \in Scenarios, NEW n, NEW told, KnowledgeFits(n, node[n], told), NEW d, d.by \in Nodes, NEW m \in Nodes
    PROVE  /\ m = d.by => Dispatch(n, d).bus[m] = Observed(n, m, d.life)
           /\ m # d.by /\ node[n].bus[m] # Nowhere => Dispatch(n, d).bus[m] = node[n].bus[m]
<1> DEFINE b == node[n]
           src == Observed(n, d.by, d.life)
           h == Hears(b, src)
           i == IngestPex(n, h, d.list)
           c == OnPex(n, h, d.list)
<1>1. src.of = d.by /\ src # Nowhere
  BY ObservedUsable, UsableIsSomewhere DEF Observed, Address
<1> HIDE DEF src, b
<1>2. /\ DOMAIN h = {"peers", "bus", "disc", "seen"} /\ DOMAIN h.bus = Nodes
      /\ h.bus[d.by] = src /\ \A p \in Nodes : p # d.by => h.bus[p] = b.bus[p]
  BY <1>1 DEF KnowledgeFits, Hears, b
<1> HIDE DEF h
<1>3. DOMAIN i = DOMAIN h /\ i.bus = h.bus
  BY <1>2 DEF IngestPex
<1> HIDE DEF i
<1>4. c.bus = [p \in Nodes |-> IF h.bus[p] = Nowhere THEN i.disc[p] ELSE h.bus[p]]
  BY <1>2, <1>3 DEF OnPex, i
<1> HIDE DEF c
<1>5. Dispatch(n, d) = IF d.kind = "pex" THEN c ELSE h
  BY DEF Dispatch, c, h, b, src
<1>6. m = d.by => Dispatch(n, d).bus[m] = src
  BY <1>1, <1>2, <1>4, <1>5
<1>7. m # d.by /\ b.bus[m] # Nowhere => Dispatch(n, d).bus[m] = b.bus[m]
  BY <1>2, <1>4, <1>5
<1> QED BY <1>6, <1>7 DEF b, src

(* What a client that has joined dials changes only by the book and by     *)
(* what it hears.                                                          *)
LEMMA ClientDials ==
    ASSUME WholeInv, OnceInv, BookInv, query.pc = "settled", [Next]_vars
    PROVE  \/ node'[Client].bus = node[Client].bus
           \/ \E d \in wire : d.dst.of = Client /\ node'[Client] = Dispatch(Client, d)
<1>0. /\ ProcInv /\ RunInv /\ QueryShape /\ DOMAIN node = Nodes
      /\ proc[Client].state # "starting" /\ registry[Client] = {} /\ Client \notin scenario.beacons
      /\ DOMAIN node[Client] = {"peers", "bus", "disc", "seen"}
  <2>1. ProcInv /\ RunInv /\ QueryShape /\ DOMAIN node = Nodes
    BY DEF WholeInv, LaunchInv, HeardInv
  <2>2. Asked
    BY <2>1, AskingRests
  <2>3. Client \notin scenario.beacons
    BY <2>1, <2>2, QueryClientAssumption DEF Asked, Client, ProcInv
  <2>4. DOMAIN node[Client] = {"peers", "bus", "disc", "seen"}
    BY ClientIsNode DEF WholeInv, LaunchInv, KnowInv, KnowledgeFits
  <2> QED BY <2>1, <2>2, <2>3, <2>4 DEF OnceInv, BookInv
<1>1. ASSUME NEW d \in wire, node' = [node EXCEPT ![d.dst.of] = Dispatch(d.dst.of, d)]
      PROVE  node'[Client].bus = node[Client].bus \/ (d.dst.of = Client /\ node'[Client] = Dispatch(Client, d))
  BY <1>0, <1>1, ClientIsNode
<1>2. ASSUME NEW n \in Nodes, FastRetry(n) \/ Refresh(n) \/ LookupFails(n) \/ LookupFinds(n) \/ FallBack(n)
      PROVE  node'[Client].bus = node[Client].bus
  <2>1. CASE FastRetry(n) \/ LookupFails(n)
    BY <2>1 DEF FastRetry, LookupFails
  <2>2. CASE Refresh(n)
    <3>1. node' = [node EXCEPT ![n] = ExpireStale(node[n])]
      BY <2>2 DEF Refresh
    <3>2. ExpireStale(node[Client]).bus = node[Client].bus
      BY <1>0 DEF ExpireStale
    <3> QED BY <1>0, <3>1, <3>2, ClientIsNode
  <2>3. CASE LookupFinds(n) \/ FallBack(n)
    <3>1. n # Client /\ \E b : node' = [node EXCEPT ![n] = b]
      BY <1>0, <2>3 DEF LookupFinds, FallBack, Joined
    <3> QED BY <1>0, <3>1, ClientIsNode
  <2> QED BY <1>2, <2>1, <2>2, <2>3
<1>3. ASSUME DirectoryNext
      PROVE  node'[Client].bus = node[Client].bus \/ \E d \in wire : d.dst.of = Client /\ node'[Client] = Dispatch(Client, d)
  BY <1>1, <1>2, <1>3 DEF DirectoryNext, Round, Receive, Vanish, Tick
<1>4. ASSUME NEW b \in Nodes, NEW c \in Nodes, Meet(b, c) \/ Bridge(b, c)
      PROVE  node'[Client].bus = node[Client].bus
  <2>1. b # Client
    BY <1>0, <1>4 DEF Meet, Bridge
  <2>2. \A m \in Nodes \ {b} : node'[m] = node[m]
    BY <1>0, <1>4 DEF Meet, Bridge
  <2> QED BY <2>1, <2>2, ClientIsNode
<1>5. ASSUME CensusNext
      PROVE  node'[Client].bus = node[Client].bus \/ \E d \in wire : d.dst.of = Client /\ node'[Client] = Dispatch(Client, d)
  BY <1>1, <1>3, <1>4, <1>5 DEF CensusNext, FederationTick, ReceiveCensus
<1>6. ~ Seed /\ ~ RunQuery
  BY DEF Seed, Joining, RunQuery, RunInfer, RunMultimodalQuery, Join
<1>7. ASSUME ClientNext
      PROVE  node'[Client].bus = node[Client].bus \/ \E d \in wire : d.dst.of = Client /\ node'[Client] = Dispatch(Client, d)
  BY <1>1, <1>6, <1>7 DEF ClientNext, Classify, Conclude, AnswerQuery, ReceiveAnswer
<1>8. ASSUME Launching PROVE node' = node
  <2>1. ~ Multiproc /\ launcher.pc \in {"running", "done"} /\ ScriptedInv
    BY <1>0 DEF OnceInv, RunInv, MultiprocInv
  <2> QED BY <1>8, <2>1 DEF Launching, Build, LaunchSeed, ReadBootstrapAddr, LaunchNext, Kill, Restart, Aggregate,
                            RunBackbone, RunMultimodalBackbone, RunCross, LaunchScripted
<1>9. ASSUME NEW i, StopScripted \/ OpenMetrics(i) \/ Report(i) \/ WorkerEnds(i) \/ Leave(i) PROVE node' = node
  BY <1>9 DEF StopScripted, OpenMetrics, Report, WorkerEnds, Leave, directoryVars
<1> QED BY <1>5, <1>6, <1>7, <1>8, <1>9 DEF Next, vars, directoryVars

(* The address book names the experts' own addresses.                      *)
LEMMA BookIs ==
    ASSUME NEW e \in Experts
    PROVE  Book[e] = Address(scenario.publicHost, e, 1)
<1>1. BackboneAddrs[e] = Address(scenario.publicHost, e, 1)
  BY DEF BackboneAddrs
<1>2. ASSUME NEW m, e \in ExpertsOf(m) PROVE ExpertAddrs(m)[e] = Address(scenario.publicHost, e, 1)
  BY <1>2 DEF ExpertAddrs
<1>3. e \in ExpertsOf(CHOOSE m \in Modalities : e \in ExpertsOf(m))
  <2>1. \E m \in Modalities : e \in ExpertsOf(m)
    BY DEF Experts
  <2> QED BY <2>1
<1> QED BY <1>1, <1>2, <1>3 DEF Book

(* An address at which somebody is reached is one.                         *)
LEMMA DirectIs ==
    ASSUME scenario \in Scenarios, NEW e \in Nodes, NEW a, Direct(e, a)
    PROVE  a # Nowhere
<1>1. scenario.machine[e] # "none"
  BY ScenarioAssumption DEF Nodes
<1> QED BY <1>1 DEF Direct, Nowhere, Address

(* BookInv is inductive.                                                   *)
LEMMA BookNext ==
    ASSUME WholeInv, OnceInv, LivesInv, BookInv, [Next]_vars
    PROVE  BookInv'
<1>0. /\ ProcInv /\ RunInv /\ QueryShape /\ scenario' = scenario /\ scenario \in Scenarios
      /\ DOMAIN node = Nodes /\ Client \in Nodes
  BY RegistrySteps, ClientIsNode DEF WholeInv, LaunchInv, ProcInv, HeardInv
<1>1. Experts' = Experts
  BY AskedStays
<1>2. DOMAIN query'.votes = Experts /\ query'.pc \in {"idle", "joining", "settled", "asking", "done"}
      /\ (query'.pc \in {"settled", "asking", "done"} => query.pc # "idle")
      /\ (query'.pc \in {"asking", "done"} => query.pc \in {"settled", "asking", "done"})
      /\ (query'.pc = "settled" => query.pc = "settled" \/ Seed)
  <2>1. ASSUME NEW d \in wire, ReceiveAnswer(d)
        PROVE  query'.pc = query.pc /\ DOMAIN query'.votes = DOMAIN query.votes
    BY <1>0, <2>1 DEF ReceiveAnswer, QueryShape
  <2>2. Seed => query'.pc = "settled" /\ query.pc = "joining" /\ query'.votes = query.votes
    BY <1>0 DEF Seed, Joining, QueryShape
  <2>3. RunQuery => query'.pc = "joining" /\ query'.votes = query.votes
    BY <1>0 DEF RunQuery, RunInfer, RunMultimodalQuery, Join, QueryShape
  <2>4. Classify => query'.pc = "asking" /\ query.pc = "settled" /\ DOMAIN query'.votes = Experts
    BY DEF Classify
  <2>5. Conclude => query'.pc = "done" /\ query.pc = "asking" /\ DOMAIN query'.votes = Experts
    BY DEF Conclude
  <2> QED BY <2>1, <2>2, <2>3, <2>4, <2>5, QuerySteps DEF BookInv
<1>3. query'.pc \in {"settled", "asking", "done"} => proc'[Client].state # "starting"
  <2> SUFFICES ASSUME query'.pc \in {"settled", "asking", "done"} PROVE proc'[Client].state # "starting"
    OBVIOUS
  <2>1. Rests
    BY <1>0, <1>2, AskingRests
  <2>2. CASE Seed
    BY <2>2 DEF Seed, Joining, Up
  <2>3. CASE ~ Seed
    <3>1. proc[Client].state # "starting"
      BY <1>2, <2>3 DEF BookInv
    <3> QED BY <1>0, <2>1, <3>1, RestingProcs
  <2> QED BY <2>2, <2>3
<1>4. ASSUME Asked, query'.pc = "settled", NEW e \in Experts PROVE Direct(e, node'[Client].bus[e])
  <2>0. e \in Nodes \ {Client} /\ scenario.machine[e] = scenario.publicHost
    BY <1>0, <1>4, ExpertsAtHost DEF Asked
  <2>1. CASE Seed
    <3>1. node'[Client].bus[e] = Book[e]
      <4>1. DOMAIN node[Client] = {"peers", "bus", "disc", "seen"}
        BY <1>0 DEF WholeInv, LaunchInv, KnowInv, KnowledgeFits
      <4>2. node'[Client].bus = [p \in Nodes |-> IF p \in Experts THEN Book[p] ELSE node[Client].bus[p]]
        BY <1>0, <2>1, <4>1 DEF Seed
      <4> QED BY <1>4, <2>0, <4>2
    <3>2. LET a == node'[Client].bus[e] IN a.of = e /\ a.life = 1 /\ a.host = scenario.machine[e]
      <4>1. Book[e] = Address(scenario.machine[e], e, 1)
        BY <1>4, <2>0, BookIs
      <4> QED BY <3>1, <4>1 DEF Address
    <3> QED BY <3>2 DEF Direct
  <2>2. CASE query.pc = "settled"
    <3>1. Direct(e, node[Client].bus[e])
      BY <1>4, <2>2 DEF BookInv
    <3>2. ASSUME NEW d \in wire, d.dst.of = Client, node'[Client] = Dispatch(Client, d)
          PROVE  Direct(e, node'[Client].bus[e])
      <4>1. KnowledgeFits(Client, node[Client], Told(Client)) /\ d.by \in Nodes
        BY <1>0 DEF WholeInv, LaunchInv, KnowInv, WireInv, DatagramFits
      <4>2. CASE e # d.by
        <5>1. node[Client].bus[e] # Nowhere
          BY <1>0, <2>0, <3>1, DirectIs
        <5>2. Dispatch(Client, d).bus[e] = node[Client].bus[e]
          BY <1>0, <2>0, <4>1, <4>2, <5>1, DispatchBus
        <5> QED BY <3>1, <3>2, <5>2
      <4>3. CASE e = d.by
        <5>1. Dispatch(Client, d).bus[e] = Observed(Client, e, d.life)
          BY <1>0, <2>0, <4>1, <4>3, DispatchBus
        <5>2. d.life = 1
          BY <1>4, <2>0, <4>3 DEF OnceInv, LivesInv
        <5> QED BY <3>2, <5>1, <5>2 DEF Direct, Observed, Address
      <4> QED BY <4>2, <4>3
    <3> QED BY <2>2, <3>1, <3>2, ClientDials
  <2> QED BY <1>2, <1>4, <2>1, <2>2
<1>5. ASSUME Asked, query'.pc = "settled", NEW e \in Experts PROVE Direct(e, node[Client].bus[e])'
  BY <1>0, <1>4, <1>5 DEF Direct
<1> QED BY <1>1, <1>2, <1>3, <1>5, AskedStays DEF BookInv

-----------------------------------------------------------------------------
(* What is asked is answered.                                              *)

(* A datagram that was on its way has arrived, or never will.              *)
LEMMA WireLoses ==
    ASSUME [Next]_vars, NEW d \in wire, d \notin wire'
    PROVE  Vanish(d) \/ AnswerQuery(d) \/ ReceiveAnswer(d) \/ d.kind \notin {"query", "answer"}
<1>1. ASSUME NEW q \in wire, Receive(q) \/ ReceiveCensus(q) PROVE q.kind \notin {"query", "answer"} /\ wire' = wire \ {q}
  BY <1>1 DEF Receive, ReceiveCensus, Arrives
<1>2. ASSUME NEW q \in wire, Vanish(q) \/ AnswerQuery(q) \/ ReceiveAnswer(q) PROVE wire \ {q} \subseteq wire'
  BY <1>2 DEF Vanish, AnswerQuery, ReceiveAnswer, Arrives
<1>3. ASSUME NEW n, NEW m, NEW kind, Round(n, m, kind) \/ Bridge(n, m) \/ FederationTick(n) PROVE wire \subseteq wire'
  BY <1>3 DEF Round, Bridge, FederationTick, Transmit
<1>4. ASSUME NEW n, FastRetry(n) \/ Refresh(n) \/ LookupFinds(n) \/ LookupFails(n) \/ FallBack(n) \/ Tick PROVE wire' = wire
  BY <1>4 DEF FastRetry, Refresh, LookupFinds, LookupFails, FallBack, Tick
<1>5. ASSUME NEW b, NEW c, Meet(b, c) PROVE wire' = wire
  BY <1>5 DEF Meet
<1>6. CASE CensusNext
  BY <1>1, <1>2, <1>3, <1>4, <1>5, <1>6 DEF CensusNext, DirectoryNext
<1>7. ASSUME Seed \/ Classify \/ Conclude \/ RunQuery PROVE wire \subseteq wire'
  BY <1>7 DEF Seed, Classify, Conclude, RunQuery, RunInfer, RunMultimodalQuery, Join, Start
<1>8. CASE ClientNext \/ RunQuery
  BY <1>2, <1>7, <1>8 DEF ClientNext
<1>9. ASSUME Launching PROVE wire' = wire
  BY <1>9 DEF Launching, Build, LaunchSeed, ReadBootstrapAddr, LaunchNext, Kill, Restart, Aggregate,
              RunBackbone, RunMultimodalBackbone, RunCross, LaunchScripted, Start, directoryVars
<1>10. ASSUME NEW i, StopScripted \/ OpenMetrics(i) \/ Report(i) \/ WorkerEnds(i) \/ Leave(i) PROVE wire' = wire
  BY <1>10 DEF StopScripted, OpenMetrics, Report, WorkerEnds, Leave, directoryVars
<1> QED BY <1>6, <1>8, <1>9, <1>10 DEF Next, vars, directoryVars

(* A query finds an expert that is there, and an answer the client.        *)
LEMMA VoicesReach ==
    ASSUME scenario \in Scenarios, NEW e \in Nodes, proc[e].life = 1, ~ Down(e), NEW d
    PROVE  /\ IsQuery(d, e) => Reaches(d.by, d.dst) /\ d.dst.of = e
           /\ IsAnswer(d, e) /\ ~ Down(Client) => Reaches(d.by, d.dst) /\ d.dst.of = Client
<1>1. scenario.machine[e] # "none" /\ scenario.machine[Client] # "none"
  BY ScenarioAssumption, ClientIsNode DEF Nodes
<1>2. IsQuery(d, e) => Reaches(d.by, d.dst) /\ d.dst.of = e
  BY DirectIs DEF IsQuery, Direct, Reaches
<1>3. ASSUME IsAnswer(d, e), ~ Down(Client) PROVE Reaches(d.by, d.dst) /\ d.dst.of = Client
  <2>1. d.by = e /\ d.dst.of = Client /\ d.dst.life = proc[Client].life /\ d.dst # Nowhere
    BY <1>1, <1>3 DEF IsAnswer, Observed, Address, Nowhere, Loopback
  <2>2. d.dst.host = IF scenario.machine[e] = scenario.machine[Client] THEN Loopback ELSE scenario.machine[Client]
    BY <1>3 DEF IsAnswer, Observed, Address
  <2> QED BY <1>3, <2>1, <2>2 DEF Reaches
<1> QED BY <1>2, <1>3

(* Asking everybody: a query goes to each expert.                          *)
LEMMA ClassifyAsks ==
    ASSUME scenario \in Scenarios, Asked, BookInv, Classify, NEW e \in Experts, e \in Nodes
    PROVE  \E d \in wire' : IsQuery(d, e)
<1>1. Direct(e, node[Client].bus[e]) /\ query.pc = "settled"
  BY DEF Classify, BookInv
<1>2. /\ Asks(e).kind = "query" /\ Asks(e).by = Client /\ Asks(e).life = proc[Client].life
      /\ Asks(e).dst = node[Client].bus[e]
  BY DEF Asks, Datagram
<1>3. Asks(e).dst # Nowhere
  BY <1>1, <1>2, DirectIs
<1>4. Asks(e) \in wire'
  BY <1>3 DEF Classify
<1> QED BY <1>1, <1>2, <1>4 DEF IsQuery

(* The expert answers where the query came from.                           *)
LEMMA QueryAnswered ==
    ASSUME LaunchInv, NEW d \in wire, NEW e \in Nodes \ {Client}, IsQuery(d, e), AnswerQuery(d)
    PROVE  \E a \in wire' : IsAnswer(a, e)
<1> DEFINE a == [Datagram(e, Client, "answer", Unknown) EXCEPT !.dst = node'[e].bus[Client]]
<1>1. d.dst.of = e /\ d.by = Client /\ d.life = proc[Client].life
  BY DEF IsQuery, Direct
<1>2. a \in wire'
  BY <1>1 DEF AnswerQuery
<1>3. node'[e] = Dispatch(e, d)
  BY <1>1 DEF AnswerQuery, LaunchInv, HeardInv
<1>4. node'[e].bus[Client] = Observed(e, Client, proc[Client].life)
  <2>1. KnowledgeFits(e, node[e], Told(e)) /\ scenario \in Scenarios
    BY DEF LaunchInv, KnowInv, ProcInv
  <2>2. d.by \in Nodes /\ Client = d.by
    BY <1>1, ClientIsNode
  <2>3. Dispatch(e, d).bus[Client] = Observed(e, Client, d.life)
    BY <2>1, <2>2, ClientIsNode, DispatchBus
  <2> QED BY <1>1, <1>3, <2>3
<1>5. IsAnswer(a, e)
  BY <1>4 DEF IsAnswer, Datagram
<1> QED BY <1>2, <1>5

(* VoiceInv is inductive: no query and no answer is lost with both alive.  *)
LEMMA VoiceNext ==
    ASSUME WholeInv, OnceInv, BookInv, VoiceInv, [Next]_vars
    PROVE  VoiceInv'
<1>0. /\ ProcInv /\ RunInv /\ QueryShape /\ LaunchInv /\ scenario' = scenario /\ scenario \in Scenarios
      /\ Client \in Nodes /\ Experts' = Experts
  BY RegistrySteps, ClientIsNode, AskedStays DEF WholeInv, LaunchInv, ProcInv
<1> SUFFICES ASSUME NEW e \in Experts, e \in scenario.knowing, Up(e)',
                    query'.pc = "done" \/ (query'.pc = "asking" /\ Up(Client)')
             PROVE  \/ query'.votes[e] = Opinion
                    \/ query'.pc = "asking" /\ \E d \in wire' : (IsQuery(d, e) \/ IsAnswer(d, e))'
  BY <1>0 DEF VoiceInv
<1>1. query.pc \in {"settled", "asking", "done"}
  <2>1. ASSUME NEW d \in wire, ReceiveAnswer(d) PROVE query'.pc = query.pc
    BY <1>0, <2>1 DEF ReceiveAnswer, QueryShape
  <2>2. ~ Seed /\ ~ RunQuery
    BY <1>0 DEF Seed, RunQuery, RunInfer, RunMultimodalQuery, Join, QueryShape
  <2> QED BY <2>1, <2>2, QuerySteps DEF Classify, Conclude
<1>2. Asked /\ Rests
  BY <1>0, <1>1, AskingRests
<1>3. e \in Nodes \ {Client}
  BY <1>0, <1>2, ExpertsAtHost DEF Asked
<1>4. Up(e) /\ proc[e].life = 1 /\ proc'[e].life = 1 /\ ~ Down(e)
  <2>1. proc[e].state # "starting" /\ proc[e].life \in {0, 1}
    BY <1>1, <1>2, <1>3 DEF OnceInv
  <2>2. proc[e].state = "up" /\ proc'[e].life = proc[e].life
    BY <1>0, <1>2, <1>3, <2>1, RestingProcs DEF Up
  <2>3. proc[e].life # 0
    BY <1>3, <2>2 DEF OnceInv, Down
  <2> QED BY <2>1, <2>2, <2>3 DEF Up, Down
<1>5. proc'[Client].life = proc[Client].life /\ (Up(Client)' => Up(Client))
  BY <1>0, <1>1, <1>2, RestingProcs DEF Up, BookInv
<1>6. \A d : (IsQuery(d, e) => IsQuery(d, e)') /\ (IsAnswer(d, e) => IsAnswer(d, e)')
  BY <1>0, <1>5 DEF IsQuery, IsAnswer, Direct, Observed
<1>7. CASE Classify
  <2>1. PICK d \in wire' : IsQuery(d, e)
    BY <1>0, <1>2, <1>3, <1>7, ClassifyAsks
  <2> QED BY <1>6, <1>7, <2>1 DEF Classify
<1>8. CASE Conclude
  <2>1. Up(Client) /\ query.pc = "asking" /\ \A d \in wire : d.kind \in {"query", "answer"} => ~ Reaches(d.by, d.dst)
    BY <1>8 DEF Conclude
  <2>2. ~ \E d \in wire : IsQuery(d, e) \/ IsAnswer(d, e)
    BY <1>0, <1>3, <1>4, <2>1, VoicesReach DEF IsQuery, IsAnswer, Up, Down
  <2>3. query.votes[e] = Opinion
    BY <1>4, <2>1, <2>2 DEF VoiceInv
  <2> QED BY <1>8, <2>3 DEF Conclude, Opinion, Waiting
<1>9. CASE ~ Classify /\ ~ Conclude
  <2>1. query'.pc = query.pc /\ (query.votes[e] = Opinion => query'.votes[e] = Opinion)
    <3>1. ASSUME NEW d \in wire, ReceiveAnswer(d)
          PROVE  query'.pc = query.pc /\ (query.votes[e] = Opinion => query'.votes[e] = Opinion)
      BY <1>0, <3>1 DEF ReceiveAnswer, QueryShape, BookInv
    <3>2. ~ Seed /\ ~ RunQuery
      BY <1>0 DEF Seed, RunQuery, RunInfer, RunMultimodalQuery, Join, QueryShape
    <3> QED BY <1>9, <3>1, <3>2, QuerySteps
  <2>2. query.pc = "done" \/ (query.pc = "asking" /\ Up(Client))
    BY <1>5, <2>1
  <2>3. CASE query.votes[e] = Opinion
    BY <2>1, <2>3
  <2>4. ASSUME query.pc = "asking", NEW d \in wire, IsQuery(d, e) \/ IsAnswer(d, e)
        PROVE  query'.votes[e] = Opinion \/ \E q \in wire' : IsQuery(q, e) \/ IsAnswer(q, e)
    <3>1. ~ Down(Client)
      BY <2>2, <2>4 DEF Up, Down
    <3>2. ~ Vanish(d)
      BY <1>0, <1>3, <1>4, <2>4, <3>1, VoicesReach DEF Vanish
    <3>3. CASE d \in wire'
      BY <2>4, <3>3
    <3>4. CASE AnswerQuery(d)
      <4>1. IsQuery(d, e)
        BY <2>4, <3>4 DEF AnswerQuery, IsAnswer
      <4> QED BY <1>0, <1>3, <3>4, <4>1, QueryAnswered
    <3>5. CASE ReceiveAnswer(d)
      <4>1. d.by = e
        BY <2>4, <3>5 DEF ReceiveAnswer, IsQuery, IsAnswer
      <4> QED BY <1>0, <3>5, <4>1 DEF ReceiveAnswer, QueryShape, BookInv
    <3> QED BY <2>4, <3>2, <3>3, <3>4, <3>5, WireLoses DEF IsQuery, IsAnswer
  <2> QED BY <1>4, <1>6, <2>1, <2>2, <2>3, <2>4 DEF VoiceInv
<1> QED BY <1>7, <1>8, <1>9

-----------------------------------------------------------------------------
(* Asking as a whole.                                                      *)

AskInv == OnceInv /\ LivesInv /\ BookInv /\ VoiceInv

(* Nobody asks at first.                                                   *)
LEMMA AskInit == Init => AskInv
<1> SUFFICES ASSUME Init PROVE AskInv
  OBVIOUS
<1>1. DirectoryInit /\ CensusInit /\ query = [pc |-> "idle", votes |-> [e \in Experts |-> Unasked]]
  BY DEF Init, QueryInit, CensusInit
<1>2. OnceInv
  BY <1>1, ClientIsNode DEF DirectoryInit, CensusInit, OnceInv, Down
<1>3. LivesInv
  BY <1>1 DEF DirectoryInit, LivesInv
<1> QED BY <1>1, <1>2, <1>3 DEF AskInv, BookInv, VoiceInv

(* Every step keeps it.                                                    *)
LEMMA AskNext == WholeInv /\ AskInv /\ [Next]_vars => AskInv'
BY OnceNext, LivesNext, BookNext, VoiceNext DEF AskInv, WholeInv

(* Who is heard has a voice.                                               *)
LEMMA VoicesAreHeard == AskInv => LiveExpertsAreHeard
<1> SUFFICES ASSUME AskInv, query.pc = "done", NEW m \in Modalities, NEW e \in ExpertsOf(m), e \in scenario.knowing, Up(e)
             PROVE  (IF scenario.client = "infer" THEN e ELSE m) \in Voices
  BY DEF LiveExpertsAreHeard
<1>1. e \in Experts
  BY DEF Experts
<1>2. query.votes[e] = Opinion
  BY <1>1 DEF AskInv, VoiceInv
<1> QED BY <1>1, <1>2 DEF Voices

(* LiveExpertsAreHeard of Launchers, for every layout of a backbone, every *)
(* number of experts and modalities, and whatever becomes of the beacon,   *)
(* the lookups and the peer exchange in the meantime: a client that is     *)
(* done has the opinion of every expert that is still there and knows      *)
(* something, as it dials them from the layout and replies go where the    *)
(* query came from (backbone_addrs in swarm_backbone.py, expert_addrs in   *)
(* multimodal_backbone.py, _handle_query in inference/rpc.py).             *)
THEOREM EveryExpertIsHeard == Spec => []LiveExpertsAreHeard
BY WholeInit, WholeNext, AskInit, AskNext, VoicesAreHeard, PTL DEF Spec

-----------------------------------------------------------------------------
(* Step by step: what may happen to a process, and to what it knows.       *)

\* A process is left alone, started, looks for its contact, or is stopped.
ProcessGoesOn(n) ==
    \/ proc'[n] = proc[n]
    \/ Down(n) /\ \E contact, linked : Start(n, contact, linked)
    \/ LookupFinds(n) \/ FallBack(n) \/ LookupFails(n)
    \/ proc'[n] = [proc[n] EXCEPT !.state = "down"]

\* A node learns nothing, starts anew, forgets, dials or is told something.
Learns(n) ==
    \/ node'[n] = node[n]
    \/ Down(n) /\ node'[n] = Newborn
    \/ node'[n] = ExpireStale(node[n])
    \/ LookupFinds(n) \/ FallBack(n)
    \/ \E d \in wire : d.dst.of = n /\ node'[n] = Dispatch(n, d)
    \/ \E c \in Nodes : Meet(n, c) \/ Bridge(n, c)
    \/ n = Client /\ Seed

(* Who joins, joins alone.                                                 *)
LEMMA JoiningAlone ==
    ASSUME ProcInv, DOMAIN node = Nodes, NEW m, LookupFinds(m) \/ FallBack(m) \/ LookupFails(m), NEW n \in Nodes, n # m
    PROVE  proc'[n] = proc[n] /\ node'[n] = node[n]
<1>1. DOMAIN proc = Nodes
  BY DEF ProcInv
<1>2. CASE LookupFails(m)
  BY <1>1, <1>2 DEF LookupFails
<1>3. ASSUME NEW b, Joined(m, b) PROVE proc'[n] = proc[n] /\ node'[n] = node[n]
  BY <1>1, <1>3 DEF Joined
<1> QED BY <1>2, <1>3 DEF LookupFinds, FallBack

(* A process in a step of the whole.                                       *)
LEMMA ProcessSteps ==
    ASSUME WholeInv, [Next]_vars, NEW n \in Nodes
    PROVE  ProcessGoesOn(n)
<1>0. ProcInv /\ DOMAIN proc = Nodes /\ DOMAIN node = Nodes
  BY DEF WholeInv, LaunchInv, ProcInv, KnowInv
<1>1. ASSUME NEW ns, Stopped(ns) PROVE ProcessGoesOn(n)
  BY <1>1 DEF Stopped, ProcessGoesOn
<1>2. ASSUME NEW m, NEW contact, NEW linked, Start(m, contact, linked) PROVE ProcessGoesOn(n)
  <2>1. CASE m = n
    <3>1. Down(m)
      BY <1>2 DEF Start
    <3> QED BY <1>2, <2>1, <3>1 DEF ProcessGoesOn
  <2>2. CASE m # n
    BY <1>0, <1>2, <2>2 DEF ProcessGoesOn, Start
  <2> QED BY <2>1, <2>2
<1>3. ASSUME NEW m \in Nodes, LookupFinds(m) \/ FallBack(m) \/ LookupFails(m) PROVE ProcessGoesOn(n)
  <2>1. CASE m = n
    BY <1>3, <2>1 DEF ProcessGoesOn
  <2>2. CASE m # n
    BY <1>0, <1>3, <2>2, JoiningAlone DEF ProcessGoesOn
  <2> QED BY <2>1, <2>2
<1>4. ASSUME proc' = proc PROVE ProcessGoesOn(n)
  BY <1>4 DEF ProcessGoesOn
<1>5. ASSUME DirectoryNext PROVE ProcessGoesOn(n)
  BY <1>3, <1>4, <1>5 DEF DirectoryNext, FastRetry, Refresh, Round, Receive, Vanish, Tick
<1>6. ASSUME CensusNext PROVE ProcessGoesOn(n)
  BY <1>4, <1>5, <1>6 DEF CensusNext, Meet, Bridge, FederationTick, ReceiveCensus
<1>7. ASSUME ClientNext PROVE ProcessGoesOn(n)
  BY <1>1, <1>4, <1>7 DEF ClientNext, Seed, Classify, Conclude, AnswerQuery, ReceiveAnswer
<1>8. ASSUME RunQuery PROVE ProcessGoesOn(n)
  BY <1>2, <1>8 DEF RunQuery, RunInfer, RunMultimodalQuery, Join
<1>9. ASSUME Launching PROVE ProcessGoesOn(n)
  <2>1. CASE Build \/ ReadBootstrapAddr \/ Aggregate \/ Kill
    BY <1>1, <1>4, <2>1 DEF Build, ReadBootstrapAddr, Aggregate, Kill, directoryVars
  <2>2. CASE LaunchSeed \/ Restart
    BY <1>2, <2>2 DEF LaunchSeed, Restart
  <2>3. CASE LaunchNext
    BY <1>2, <1>4, <2>3 DEF LaunchNext, directoryVars
  <2>4. CASE LaunchScripted
    BY <1>2, <1>4, <2>4 DEF LaunchScripted, directoryVars
  <2> QED BY <1>9, <2>1, <2>2, <2>3, <2>4 DEF Launching, RunBackbone, RunMultimodalBackbone, RunCross
<1>10. ASSUME NEW i, StopScripted \/ OpenMetrics(i) \/ Report(i) \/ WorkerEnds(i) \/ Leave(i) PROVE ProcessGoesOn(n)
  BY <1>1, <1>4, <1>10 DEF StopScripted, OpenMetrics, Report, WorkerEnds, Leave, directoryVars
<1>11. CASE UNCHANGED vars
  BY <1>4, <1>11 DEF vars, directoryVars
<1> QED BY <1>6, <1>7, <1>8, <1>9, <1>10, <1>11 DEF Next

(* What a node knows, in a step of the whole.                              *)
LEMMA LearningSteps ==
    ASSUME WholeInv, [Next]_vars, NEW n \in Nodes
    PROVE  Learns(n)
<1>0. ProcInv /\ DOMAIN proc = Nodes /\ DOMAIN node = Nodes
  BY DEF WholeInv, LaunchInv, ProcInv, KnowInv
<1>1. ASSUME NEW d \in wire, node' = [node EXCEPT ![d.dst.of] = Dispatch(d.dst.of, d)] PROVE Learns(n)
  BY <1>0, <1>1 DEF Learns
<1>2. ASSUME NEW m, NEW contact, NEW linked, Start(m, contact, linked) PROVE Learns(n)
  <2>1. Down(m) /\ node' = [node EXCEPT ![m] = Newborn]
    BY <1>2 DEF Start
  <2> QED BY <1>0, <2>1 DEF Learns
<1>3. ASSUME NEW m \in Nodes, LookupFinds(m) \/ FallBack(m) \/ LookupFails(m) PROVE Learns(n)
  <2>1. CASE m = n
    BY <1>3, <2>1 DEF Learns, LookupFails
  <2>2. CASE m # n
    BY <1>0, <1>3, <2>2, JoiningAlone DEF Learns
  <2> QED BY <2>1, <2>2
<1>4. ASSUME node' = node PROVE Learns(n)
  BY <1>4 DEF Learns
<1>5. ASSUME DirectoryNext PROVE Learns(n)
  <2>1. ASSUME NEW m \in Nodes, Refresh(m) PROVE Learns(n)
    BY <1>0, <2>1 DEF Refresh, Learns
  <2>2. ASSUME NEW d \in wire, Receive(d) PROVE Learns(n)
    BY <1>1, <2>2 DEF Receive
  <2> QED BY <1>3, <1>4, <1>5, <2>1, <2>2 DEF DirectoryNext, FastRetry, Round, Vanish, Tick
<1>6. ASSUME CensusNext PROVE Learns(n)
  <2>1. ASSUME NEW b \in Nodes, NEW c \in Nodes, Meet(b, c) \/ Bridge(b, c) PROVE Learns(n)
    <3>1. CASE b = n
      BY <2>1, <3>1 DEF Learns
    <3>2. CASE b # n
      BY <1>0, <2>1, <3>2 DEF Learns, Meet, Bridge
    <3> QED BY <3>1, <3>2
  <2>2. ASSUME NEW d \in wire, ReceiveCensus(d) PROVE Learns(n)
    BY <1>1, <2>2 DEF ReceiveCensus
  <2> QED BY <1>4, <1>5, <1>6, <2>1, <2>2 DEF CensusNext, FederationTick
<1>7. ASSUME ClientNext PROVE Learns(n)
  <2>1. CASE Seed
    BY <1>0, <2>1, ClientIsNode DEF Learns, Seed
  <2>2. ASSUME NEW d \in wire, AnswerQuery(d) \/ ReceiveAnswer(d) PROVE Learns(n)
    BY <1>1, <2>2 DEF AnswerQuery, ReceiveAnswer
  <2> QED BY <1>4, <1>7, <2>1, <2>2 DEF ClientNext, Classify, Conclude
<1>8. ASSUME RunQuery PROVE Learns(n)
  BY <1>2, <1>8 DEF RunQuery, RunInfer, RunMultimodalQuery, Join
<1>9. ASSUME Launching PROVE Learns(n)
  <2>1. CASE Build \/ ReadBootstrapAddr \/ Aggregate \/ Kill
    BY <1>4, <2>1 DEF Build, ReadBootstrapAddr, Aggregate, Kill, directoryVars
  <2>2. CASE LaunchSeed \/ Restart
    BY <1>2, <2>2 DEF LaunchSeed, Restart
  <2>3. CASE LaunchNext
    BY <1>2, <1>4, <2>3 DEF LaunchNext, directoryVars
  <2>4. CASE LaunchScripted
    BY <1>2, <1>4, <2>4 DEF LaunchScripted, directoryVars
  <2> QED BY <1>9, <2>1, <2>2, <2>3, <2>4 DEF Launching, RunBackbone, RunMultimodalBackbone, RunCross
<1>10. ASSUME NEW i, StopScripted \/ OpenMetrics(i) \/ Report(i) \/ WorkerEnds(i) \/ Leave(i) PROVE Learns(n)
  BY <1>4, <1>10 DEF StopScripted, OpenMetrics, Report, WorkerEnds, Leave, directoryVars
<1>11. CASE UNCHANGED vars
  BY <1>4, <1>11 DEF vars, directoryVars
<1> QED BY <1>6, <1>7, <1>8, <1>9, <1>10, <1>11 DEF Next

-----------------------------------------------------------------------------
(* Lives: a process is started once, and one of run_chaos() twice.         *)

\* Whom a script starts, and the client, has begun once its turn has come.
Begun(n) ==
    \/ \E i \in 1 .. Len(Script) : i < launcher.next /\ Script[i].node = n
    \/ scenario.client # "none" /\ n = Client /\ query.pc # "idle"

\* A node that somebody else runs, and that this swarm never sees.
Unscripted(m) ==
    ~ Multiproc /\ (\A i \in 1 .. Len(Script) : Script[i].node # m) /\ (scenario.client # "none" => m # Client)

\* Only the first of the victims lives twice, and a script starts everybody once.
Lived ==
    \A n \in Nodes :
        /\ \/ proc[n].life \in {0, 1}
           \/ /\ proc[n].life = 2 /\ launcher.pc \in {"join", "done"}
              /\ n \in launcher.victims /\ n = Min(launcher.victims)
        /\ proc[n].life # 0 => proc[n].contact = 0

Scripted ==
    /\ launcher.pc \in {"running", "done"} => launcher.next > Len(Script)
    /\ \A n \in Nodes : proc[n].life = IF Begun(n) THEN 1 ELSE 0

LifeInv == (Multiproc => Lived) /\ (~ Multiproc => Scripted)

\* A node looks for a contact that was started before, or is not ours.
ContactInv ==
    \A n \in Nodes : ~ Down(n) =>
        LET c == proc[n].contact IN c = n \/ proc[c].life # 0 \/ Unscripted(c)

(* Who is not started keeps its contact.                                   *)
LEMMA RestingContacts ==
    ASSUME ProcInv, Rests, NEW n \in Nodes
    PROVE  proc'[n].contact = proc[n].contact /\ proc'[n].linked = proc[n].linked
<1>1. DOMAIN proc = Nodes /\ \A m \in Nodes : DOMAIN proc[m] = {"state", "life", "contact", "linked", "tries"}
  BY DEF ProcInv, ProcFits
<1>2. ASSUME NEW m \in Nodes, proc' = [proc EXCEPT ![m].state = "up"] \/ proc' = [proc EXCEPT ![m].tries = @ + 1]
      PROVE  proc'[n].contact = proc[n].contact /\ proc'[n].linked = proc[n].linked
  BY <1>1, <1>2
<1>3. ASSUME NEW ns, Stopped(ns) PROVE proc'[n].contact = proc[n].contact /\ proc'[n].linked = proc[n].linked
  BY <1>1, <1>3 DEF Stopped
<1> QED BY <1>2, <1>3 DEF Rests, StartingGoesOn

(* run_multiproc.py: node 0, the others, and one of the victims again.     *)
LEMMA MultiprocSteps ==
    ASSUME ProcInv, RunInv, Multiproc, [Next]_vars
    PROVE  \/ LaunchSeed \/ LaunchNext \/ Restart
           \/ /\ Rests
              /\ launcher.pc \in {"join", "done"} =>
                    launcher'.pc \in {"join", "done"} /\ launcher'.victims = launcher.victims
<1>0. MultiprocInv /\ DOMAIN launcher = {"pc", "plan", "next", "boot", "victims"}
  BY DEF RunInv, ProcInv
<1>1. CASE ClientNext /\ UNCHANGED launcher
  BY <1>1 DEF ClientNext, Seed, Classify, Conclude, AnswerQuery, ReceiveAnswer, Rests
<1>2. CASE CensusNext /\ UNCHANGED launcher
  <2>1. proc' = proc \/ StartingGoesOn
    BY <1>2, DirectoryProcs DEF CensusNext, Meet, Bridge, FederationTick, ReceiveCensus
  <2> QED BY <1>2, <2>1 DEF Rests
<1>3. CASE Launching
  <2>1. CASE Build \/ ReadBootstrapAddr
    BY <2>1 DEF Build, ReadBootstrapAddr, directoryVars, Rests
  <2>2. CASE Kill
    BY <2>2 DEF Kill, Rests
  <2>3. CASE Aggregate
    BY <1>0, <2>3 DEF Aggregate, directoryVars, Rests
  <2>4. ~ (RunBackbone \/ RunMultimodalBackbone \/ RunCross)
    BY DEF Multiproc, RunBackbone, RunMultimodalBackbone, RunCross
  <2> QED BY <1>3, <2>1, <2>2, <2>3, <2>4 DEF Launching
<1>4. ~ StopScripted /\ ~ RunQuery
  BY <1>0 DEF MultiprocInv, StopScripted, RunQuery
<1>5. ASSUME NEW i \in Nodes, OpenMetrics(i) \/ Report(i) \/ WorkerEnds(i) \/ Leave(i)
      PROVE  Rests /\ launcher' = launcher
  BY <1>5 DEF OpenMetrics, Report, WorkerEnds, Leave, directoryVars, Rests
<1>6. CASE UNCHANGED vars
  BY <1>6 DEF vars, directoryVars, Rests
<1> QED BY <1>1, <1>2, <1>3, <1>4, <1>5, <1>6 DEF Next

(* Only the first of the victims lives twice.                              *)
LEMMA MultiprocLives ==
    ASSUME ProcInv, RunInv, LifeInv, Multiproc, [Next]_vars
    PROVE  Lived'
<1>0. /\ 0 \in Nodes /\ DOMAIN launcher = {"pc", "plan", "next", "boot", "victims"} /\ launcher.next \in Nat \ {0}
      /\ MultiprocInv /\ StageInv /\ Lived /\ launcher.plan.nodes \in Nat
  BY DirectoryAssumption DEF ProcInv, RunInv, MultiprocInv, Nodes, LifeInv, Lived, Scripted
<1>1. ASSUME NEW m \in Nodes, NEW linked, Start(m, 0, linked), \A n \in Nodes \ {m} : proc[n].life \in {0, 1},
             \/ proc[m].life = 0
             \/ launcher.pc = "restart" /\ launcher'.pc = "join" /\ launcher'.victims = launcher.victims
                /\ m \in launcher.victims /\ m = Min(launcher.victims)
                /\ proc[m].life = 1
      PROVE  Lived'
  <2>1. proc'[m].life = proc[m].life + 1 /\ \A n \in Nodes : n # m => proc'[n] = proc[n]
    BY <1>1, StartedAlone
  <2>2. proc'[m].contact = 0
    BY <1>1 DEF Start, ProcInv
  <2>3. \A n \in Nodes \ {m} : proc'[n].life \in {0, 1} /\ (proc'[n].life # 0 => proc'[n].contact = 0)
    BY <1>0, <1>1, <2>1 DEF Lived
  <2>4. proc'[m].life = 1 \/ (proc'[m].life = 2 /\ launcher'.pc = "join" /\ m \in launcher'.victims /\ m = Min(launcher'.victims))
    BY <1>1, <2>1
  <2> QED BY <2>2, <2>3, <2>4 DEF Lived
<1>2. launcher.pc \notin {"join", "done"} => \A n \in Nodes : proc[n].life \in {0, 1}
  BY <1>0 DEF Lived
<1>3. CASE LaunchSeed
  <2>1. launcher.pc = "seed" /\ Start(0, 0, TRUE)
    BY <1>3 DEF LaunchSeed
  <2>2. proc[0].life = 0
    BY <1>0, <2>1 DEF StageInv
  <2> QED BY <1>0, <1>1, <1>2, <2>1, <2>2
<1>4. CASE LaunchNext
  <2>1. launcher.pc = "launch"
    BY <1>4 DEF LaunchNext
  <2>2. CASE launcher.next < launcher.plan.nodes
    <3> DEFINE i == launcher.next
               linked == launcher.boot = proc[0].life /\ ~ Down(0)
    <3>1. Start(i, 0, linked)
      BY <1>4, <2>2 DEF LaunchNext
    <3>2. i \in Nodes /\ proc[i].life = 0
      BY <1>0, <2>1, <2>2, DirectoryAssumption DEF StageInv, Nodes
    <3> HIDE DEF i, linked
    <3> QED BY <1>1, <1>2, <2>1, <3>1, <3>2
  <2>3. CASE ~ (launcher.next < launcher.plan.nodes)
    <3>1. proc' = proc
      BY <1>4, <2>3 DEF LaunchNext, directoryVars
    <3> QED BY <1>0, <1>2, <2>1, <3>1 DEF Lived
  <2> QED BY <2>2, <2>3
<1>5. CASE Restart
  <2> DEFINE v == Min(launcher.victims)
             linked == launcher.boot = proc[0].life /\ ~ Down(0)
  <2>1. launcher.pc = "restart" /\ Start(v, 0, linked) /\ launcher'.pc = "join" /\ launcher'.victims = launcher.victims
    BY <1>0, <1>5 DEF Restart
  <2>2. launcher.victims # {} /\ launcher.victims \subseteq 1 .. launcher.plan.nodes - 1 /\ launcher.plan.nodes <= Processes
        /\ \A i \in Nodes : i < launcher.plan.nodes => proc[i].life # 0
    BY <1>0, <2>1 DEF StageInv
  <2>3. v \in launcher.victims
    <3>1. launcher.victims \subseteq Nat
      BY <1>0, <2>2
    <3> QED BY <2>2, <3>1, LeastIs
  <2>4. v \in Nodes /\ proc[v].life # 0
    <3> HIDE DEF v
    <3> QED BY <1>0, <2>2, <2>3, DirectoryAssumption DEF Nodes
  <2>5. proc[v].life = 1
    BY <1>2, <2>1, <2>4
  <2> QED BY <1>1, <1>2, <2>1, <2>3, <2>4, <2>5
<1>6. ASSUME Rests, launcher.pc \in {"join", "done"} => launcher'.pc \in {"join", "done"} /\ launcher'.victims = launcher.victims
      PROVE  Lived'
  <2>1. \A n \in Nodes : proc'[n].life = proc[n].life /\ proc'[n].contact = proc[n].contact
    BY <1>6, RestingProcs, RestingContacts
  <2> QED BY <1>0, <1>6, <2>1 DEF Lived
<1> QED BY <1>3, <1>4, <1>5, <1>6, MultiprocSteps

(* A script and the client start everybody once.                           *)
LEMMA ScriptedLives ==
    ASSUME ProcInv, RunInv, QueryShape, LifeInv, ~ Multiproc, [Next]_vars
    PROVE  Scripted'
<1>0. /\ DOMAIN launcher = {"pc", "plan", "next", "boot", "victims"} /\ launcher.next \in Nat \ {0}
      /\ scenario \in Scenarios /\ scenario' = scenario /\ Script' = Script
      /\ Len(Script) \in Nat /\ Scripted /\ Client \in Nodes
  BY AskedStays, RegistrySteps, ScriptIs, ClientIsNode DEF ProcInv, LifeInv, Scripted, Lived
<1>1. CASE LaunchScripted /\ query' = query
  <2>1. CASE launcher.next <= Len(Script)
    <3>1. launcher.next \in 1 .. Len(Script)
      BY <1>0, <2>1
    <3>2. PICK m \in Nodes : m = Script[launcher.next].node
      BY <1>0, <3>1, ScriptIs
    <3>3. /\ launcher'.next = launcher.next + 1 /\ launcher'.pc = "launch"
          /\ proc'[m].life = proc[m].life + 1 /\ \A k \in Nodes : k # m => proc'[k] = proc[k]
      <4>1. launcher'.next = launcher.next + 1 /\ launcher'.pc = "launch" /\ Start(m, Script[launcher.next].contact, TRUE)
        BY <1>0, <1>1, <2>1, <3>2 DEF LaunchScripted
      <4> QED BY <3>2, <4>1, StartedAlone
    <3>4. ~ Begun(m) /\ Begun(m)'
      BY <1>0, <3>1, <3>2, <3>3, ScriptIs DEF Begun
    <3>5. ASSUME NEW n \in Nodes, n # m PROVE Begun(n)' <=> Begun(n)
      <4>1. \A j \in 1 .. Len(Script) : Script[j].node = n => (j < launcher'.next <=> j < launcher.next)
        BY <1>0, <3>1, <3>2, <3>3, <3>5
      <4> QED BY <1>0, <1>1, <4>1 DEF Begun
    <3>6. \A n \in Nodes : proc'[n].life = IF Begun(n)' THEN 1 ELSE 0
      <4>1. proc'[m].life = 1
        BY <1>0, <3>2, <3>3, <3>4 DEF Scripted
      <4> TAKE n \in Nodes
      <4>2. CASE n = m
        BY <3>4, <4>1, <4>2
      <4>3. CASE n # m
        BY <1>0, <3>3, <3>5, <4>3 DEF Scripted
      <4> QED BY <4>2, <4>3
    <3> QED BY <3>3, <3>6 DEF Scripted
  <2>2. CASE ~ launcher.next <= Len(Script)
    <3>1. proc' = proc /\ launcher'.next = launcher.next /\ launcher'.next > Len(Script)
      BY <1>0, <1>1, <2>2 DEF LaunchScripted, directoryVars
    <3>2. \A n \in Nodes : Begun(n)' <=> Begun(n)
      BY <1>0, <1>1, <3>1 DEF Begun
    <3> QED BY <1>0, <3>1, <3>2 DEF Scripted
  <2> QED BY <2>1, <2>2
<1>2. CASE RunQuery /\ launcher' = launcher
  <2>1. /\ Start(Client, 0, ~ Down(0)) /\ query.pc = "idle" /\ query'.pc = "joining"
        /\ scenario.client # "none" /\ launcher.pc = "running"
    BY <1>2 DEF RunQuery, RunInfer, RunMultimodalQuery, Join, QueryShape
  <2>2. proc'[Client].life = proc[Client].life + 1 /\ \A k \in Nodes : k # Client => proc'[k] = proc[k]
    BY <1>0, <2>1, StartedAlone
  <2>3. ~ Begun(Client) /\ Begun(Client)'
    BY <1>0, <2>1, ScriptIs DEF Begun
  <2>4. \A n \in Nodes : n # Client => (Begun(n)' <=> Begun(n))
    BY <1>0, <1>2 DEF Begun
  <2>5. \A n \in Nodes : proc'[n].life = IF Begun(n)' THEN 1 ELSE 0
    BY <1>0, <2>2, <2>3, <2>4 DEF Scripted
  <2> QED BY <1>0, <1>2, <2>5 DEF Scripted
<1>3. CASE /\ Rests /\ launcher'.next = launcher.next
           /\ launcher'.pc \in {"running", "done"} <=> launcher.pc \in {"running", "done"}
  <2>1. \A n \in Nodes : proc'[n].life = proc[n].life
    BY <1>3, RestingProcs
  <2>2. query'.pc = "idle" <=> query.pc = "idle"
    <3>1. ~ RunQuery
      <4>1. RunQuery => Start(Client, 0, ~ Down(0))
        BY DEF RunQuery, RunInfer, RunMultimodalQuery, Join
      <4>2. proc[Client].life \in Nat
        BY <1>0 DEF ProcInv, ProcFits
      <4>3. RunQuery => proc'[Client].life = proc[Client].life + 1
        BY <1>0, <4>1, StartedAlone
      <4> QED BY <1>0, <2>1, <4>2, <4>3
    <3>2. ASSUME NEW d, ReceiveAnswer(d) PROVE query'.pc = query.pc
      BY <3>2 DEF ReceiveAnswer, QueryShape
    <3>3. Seed => query.pc = "joining" /\ query'.pc = "settled"
      BY DEF Seed, Joining, QueryShape
    <3>4. Classify => query.pc = "settled" /\ query'.pc = "asking"
      BY DEF Classify
    <3>5. Conclude => query.pc = "asking" /\ query'.pc = "done"
      BY DEF Conclude
    <3> QED BY <3>1, <3>2, <3>3, <3>4, <3>5, QuerySteps
  <2>3. \A n \in Nodes : Begun(n)' <=> Begun(n)
    BY <1>0, <1>3, <2>2 DEF Begun
  <2> QED BY <1>0, <1>3, <2>1, <2>3 DEF Scripted
<1> QED BY <1>1, <1>2, <1>3, ScriptedSteps

(* LifeInv is inductive.                                                   *)
LEMMA LifeNext ==
    ASSUME WholeInv, LifeInv, [Next]_vars
    PROVE  LifeInv'
<1>1. ProcInv /\ RunInv /\ QueryShape /\ (Multiproc <=> Multiproc')
  BY AskedStays DEF WholeInv, LaunchInv
<1>2. Multiproc => Lived'
  BY <1>1, MultiprocLives
<1>3. ~ Multiproc => Scripted'
  BY <1>1, ScriptedLives
<1> QED BY <1>1, <1>2, <1>3 DEF LifeInv, Lived, Scripted

(* Whoever starts has a contact that is there, and nobody loses it.        *)
LEMMA StartContacts ==
    ASSUME ProcInv, ContactInv, [Next]_vars, NEW m \in Nodes, NEW c \in Nodes, NEW linked, Start(m, c, linked),
           c = m \/ proc[c].life # 0 \/ Unscripted(c)
    PROVE  ContactInv'
<1>1. \A n \in Nodes : n # m => proc'[n] = proc[n]
  BY StartedAlone
<1>2. proc'[m].contact = c
  BY DEF Start, ProcInv
<1>3. \A k \in Nodes : (proc[k].life # 0 => proc'[k].life # 0) /\ (Unscripted(k) => Unscripted(k)')
  <2> TAKE k \in Nodes
  <2>1. proc[k].life \in Nat /\ proc'[k].life \in Nat /\ proc'[k].life >= proc[k].life
    BY LivesGrow
  <2>2. scenario' = scenario
    BY RegistrySteps
  <2> QED BY <2>1, <2>2, AskedStays DEF Unscripted
<1>4. \A n \in Nodes : proc[n].contact \in Nodes
  BY DEF ProcInv, ProcFits
<1> SUFFICES ASSUME NEW n \in Nodes, ~ Down(n)'
             PROVE  (proc[n].contact = n \/ proc[proc[n].contact].life # 0 \/ Unscripted(proc[n].contact))'
  BY DEF ContactInv
<1>5. CASE n = m
  BY <1>2, <1>3, <1>5 DEF Unscripted
<1>6. CASE n # m
  <2>1. ~ Down(n) /\ proc'[n].contact = proc[n].contact
    BY <1>1, <1>6 DEF Down
  <2>2. PICK k \in Nodes : k = proc[n].contact
    BY <1>4
  <2>3. k = n \/ proc[k].life # 0 \/ Unscripted(k)
    BY <2>1, <2>2 DEF ContactInv
  <2> QED BY <1>3, <2>1, <2>2, <2>3 DEF Unscripted
<1> QED BY <1>5, <1>6

(* ContactInv is inductive.                                                *)
LEMMA ContactNext ==
    ASSUME WholeInv, LifeInv, ContactInv, [Next]_vars
    PROVE  ContactInv'
<1>0. /\ ProcInv /\ RunInv /\ 0 \in Nodes /\ launcher.next \in Nat \ {0} /\ scenario \in Scenarios
      /\ scenario' = scenario
  BY ClientIsNode, RegistrySteps DEF WholeInv, LaunchInv, ProcInv
<1>1. CASE Rests
  <2>1. \A n \in Nodes : /\ proc'[n].life = proc[n].life /\ (Down(n) => Down(n)')
                         /\ proc'[n].contact = proc[n].contact /\ proc[n].contact \in Nodes
    BY <1>0, <1>1, RestingProcs, RestingContacts DEF ProcInv, ProcFits
  <2>2. \A k \in Nodes : Unscripted(k) => Unscripted(k)'
    BY <1>0, AskedStays DEF Unscripted
  <2> SUFFICES ASSUME NEW n \in Nodes, ~ Down(n)'
               PROVE  (proc[n].contact = n \/ proc[proc[n].contact].life # 0 \/ Unscripted(proc[n].contact))'
    BY DEF ContactInv
  <2>3. PICK k \in Nodes : k = proc[n].contact
    BY <2>1
  <2>4. k = n \/ proc[k].life # 0 \/ Unscripted(k)
    BY <2>1, <2>3 DEF ContactInv
  <2> QED BY <2>1, <2>2, <2>3, <2>4 DEF Unscripted
<1>2. CASE Multiproc /\ ~ Rests
  <2>1. StageInv /\ launcher.plan.nodes \in Nat
    BY <1>0, <1>2 DEF RunInv, MultiprocInv
  <2>2. CASE LaunchSeed
    BY <1>0, <2>2, StartContacts DEF LaunchSeed
  <2>3. CASE LaunchNext
    <3>1. CASE launcher.next < launcher.plan.nodes
      <4>1. PICK i \in Nodes : i = launcher.next
        BY <1>0, <2>1, <2>3, <3>1, DirectoryAssumption DEF StageInv, LaunchNext, Nodes
      <4>2. proc[0].life # 0
        BY <1>0, <2>1, <2>3 DEF StageInv, LaunchNext
      <4>3. \E linked : Start(i, 0, linked)
        BY <2>3, <3>1, <4>1 DEF LaunchNext
      <4> QED BY <1>0, <4>2, <4>3, StartContacts
    <3>2. CASE ~ (launcher.next < launcher.plan.nodes)
      BY <1>2, <2>3, <3>2 DEF LaunchNext, directoryVars, Rests
    <3> QED BY <3>1, <3>2
  <2>4. CASE Restart
    <3>1. /\ launcher.victims # {} /\ launcher.victims \subseteq 1 .. launcher.plan.nodes - 1
          /\ launcher.plan.nodes <= Processes /\ \A i \in Nodes : i < launcher.plan.nodes => proc[i].life # 0
      BY <2>1, <2>4 DEF StageInv, Restart
    <3>2. PICK v : v = Min(launcher.victims)
      OBVIOUS
    <3>3. v \in launcher.victims
      <4>1. launcher.victims \subseteq Nat
        BY <2>1, <3>1
      <4> QED BY <3>1, <3>2, <4>1, LeastIs
    <3>4. v \in Nodes /\ 0 < launcher.plan.nodes
      BY <2>1, <3>1, <3>3, DirectoryAssumption DEF Nodes
    <3>5. \E linked : Start(v, 0, linked)
      BY <2>4, <3>2 DEF Restart
    <3> QED BY <1>0, <3>1, <3>4, <3>5, StartContacts
  <2> QED BY <1>0, <1>2, <2>2, <2>3, <2>4, MultiprocSteps
<1>3. CASE ~ Multiproc /\ ~ Rests
  <2>1. /\ Len(Script) \in Nat
        /\ launcher.pc \in {"running", "done"} => launcher.next > Len(Script)
        /\ \A n \in Nodes : proc[n].life = IF Begun(n) THEN 1 ELSE 0
    BY <1>0, <1>3, ScriptIs DEF LifeInv, Lived, Scripted
  <2>2. CASE LaunchScripted
    <3>1. CASE launcher.next <= Len(Script)
      <4>1. PICK i \in 1 .. Len(Script) : i = launcher.next
        BY <1>0, <2>1, <3>1
      <4>2. PICK m \in Nodes, c \in Nodes : m = Script[i].node /\ c = Script[i].contact
        BY <1>0, <4>1, ScriptIs
      <4>3. Start(m, c, TRUE)
        BY <2>2, <3>1, <4>1, <4>2 DEF LaunchScripted
      <4>4. (\A j \in 1 .. Len(Script) : Script[j].node = c => j <= i) /\ (scenario.client # "none" => c # Client)
        BY <1>0, <4>1, <4>2, LayoutAssumption DEF Script
      <4>5. c = m \/ Begun(c) \/ Unscripted(c)
        <5>1. ASSUME NEW j \in 1 .. Len(Script), Script[j].node = c PROVE c = m \/ Begun(c)
          <6>1. CASE j = i
            BY <4>2, <5>1, <6>1
          <6>2. CASE j # i
            BY <4>1, <4>4, <5>1, <6>2, <2>1 DEF Begun
          <6> QED BY <6>1, <6>2
        <5> QED BY <1>3, <4>4, <5>1 DEF Unscripted
      <4>6. c = m \/ proc[c].life # 0 \/ Unscripted(c)
        BY <2>1, <4>5
      <4> QED BY <1>0, <4>3, <4>6, StartContacts
    <3>2. CASE ~ (launcher.next <= Len(Script))
      BY <1>3, <2>2, <3>2 DEF LaunchScripted, directoryVars, Rests
    <3> QED BY <3>1, <3>2
  <2>3. CASE RunQuery
    <3>1. Start(Client, 0, ~ Down(0)) /\ launcher.pc = "running"
      BY <2>3 DEF RunQuery, RunInfer, RunMultimodalQuery, Join
    <3>2. 0 = Client \/ Begun(0) \/ Unscripted(0)
      <4>1. ASSUME NEW j \in 1 .. Len(Script), Script[j].node = 0 PROVE Begun(0)
        BY <1>0, <2>1, <3>1, <4>1 DEF Begun
      <4> QED BY <1>3, <4>1 DEF Unscripted
    <3> QED BY <1>0, <2>1, <3>1, <3>2, ClientIsNode, StartContacts
  <2> QED BY <1>0, <1>3, <2>2, <2>3, ScriptedSteps
<1> QED BY <1>1, <1>2, <1>3

-----------------------------------------------------------------------------
(* Addresses are genuine: of the first life of a node, or of the present   *)
(* one, on its machine; the loopback's only where others are to hear it.   *)

\* A machine with another node on it.
Shared(m) == \E k \in Nodes : k # m /\ scenario.machine[k] = scenario.machine[m]

Hosts(m) == {scenario.machine[m]} \cup {h \in {Loopback} : scenario.local \/ Shared(m)}
Lives(m) == {1} \cup {l \in {proc[m].life} : l # 0 \/ Unscripted(m)}
Genuine == {Nowhere} \cup UNION {{Address(h, m, l) : h \in Hosts(m), l \in Lives(m)} : m \in Nodes}

KnowsOnly(b, S) == \A m \in Nodes : b.disc[m] \in S /\ b.bus[m] \in S

\* All that is told of addresses is in S.
Only(S) ==
    /\ \A m \in Nodes : advert[m] \in S
    /\ \A n \in Nodes : KnowsOnly(node[n], S)
    /\ \A d \in wire : d.kind = "pex" => \A m \in Nodes : d.list[m] \in S

RegistryLives == \A b \in Nodes : \A c \in registry[b] : proc[c].life # 0

AddrInv == Only(Genuine) /\ RegistryLives

(* A datagram adds its sender's address and those it lists.                *)
LEMMA HearsOnly ==
    ASSUME NEW n, NEW b, NEW told, KnowledgeFits(n, b, told), NEW S, KnowsOnly(b, S), NEW src \in S, src.of \in Nodes
    PROVE  KnowsOnly(Hears(b, src), S)
<1> DEFINE c == Hears(b, src)
<1>1. DOMAIN b = {"peers", "bus", "disc", "seen"} /\ DOMAIN b.bus = Nodes /\ DOMAIN b.disc = Nodes
  BY DEF KnowledgeFits
<1>2. /\ c.bus = [b.bus EXCEPT ![src.of] = src]
      /\ c.disc = [b.disc EXCEPT ![src.of] = IF b.disc[src.of] = Nowhere THEN src ELSE b.disc[src.of]]
  BY <1>1 DEF Hears
<1> HIDE DEF c
<1>3. \A m \in Nodes : c.bus[m] \in {b.bus[m], src} /\ c.disc[m] \in {b.disc[m], src}
  BY <1>1, <1>2
<1>4. KnowsOnly(c, S)
  BY <1>3 DEF KnowsOnly
<1> QED BY <1>4 DEF c

(* The list is all that _on_pex() adds.                                    *)
LEMMA OnPexOnly ==
    ASSUME NEW n, NEW b, NEW S, KnowsOnly(b, S), NEW list, \A m \in Nodes : list[m] \in S,
           {"bus", "disc", "peers", "seen"} \subseteq DOMAIN b, DOMAIN b.disc = Nodes, DOMAIN b.bus = Nodes
    PROVE  KnowsOnly(OnPex(n, b, list), S)
<1> DEFINE i == IngestPex(n, b, list)
           c == OnPex(n, b, list)
<1>1. /\ DOMAIN i = DOMAIN b /\ i.bus = b.bus
      /\ \A m \in Nodes : i.disc[m] \in {list[m], b.disc[m]}
  BY DEF IngestPex
<1> HIDE DEF i
<1>2. /\ c.disc = i.disc
      /\ \A m \in Nodes : c.bus[m] \in {b.bus[m], i.disc[m]}
  BY <1>1 DEF OnPex, i
<1> HIDE DEF c
<1>3. \A m \in Nodes : i.disc[m] \in S /\ b.bus[m] \in S
  BY <1>1 DEF KnowsOnly
<1>4. KnowsOnly(c, S)
  BY <1>2, <1>3 DEF KnowsOnly
<1> QED BY <1>4 DEF c

(* And so does a datagram of any kind.                                     *)
LEMMA DispatchOnly ==
    ASSUME NEW n, NEW told, KnowledgeFits(n, node[n], told), NEW S, KnowsOnly(node[n], S),
           NEW d, d.by \in Nodes, Observed(n, d.by, d.life) \in S, d.kind = "pex" => \A m \in Nodes : d.list[m] \in S
    PROVE  KnowsOnly(Dispatch(n, d), S)
<1> DEFINE src == Observed(n, d.by, d.life)
           h == Hears(node[n], src)
<1>1. src.of = d.by
  BY DEF Observed, Address
<1> HIDE DEF src
<1>2. KnowsOnly(h, S)
  BY <1>1, HearsOnly DEF src
<1>3. DOMAIN node[n] = {"peers", "bus", "disc", "seen"} /\ DOMAIN node[n].bus = Nodes /\ DOMAIN node[n].disc = Nodes
  BY DEF KnowledgeFits
<1>4. {"bus", "disc", "peers", "seen"} \subseteq DOMAIN h /\ DOMAIN h.disc = Nodes /\ DOMAIN h.bus = Nodes
  BY <1>1, <1>3 DEF Hears
<1>5. Dispatch(n, d) = IF d.kind = "pex" THEN OnPex(n, h, d.list) ELSE h
  BY DEF Dispatch, src
<1> HIDE DEF h
<1> QED BY <1>2, <1>4, <1>5, OnPexOnly

(* To expire is to forget.                                                 *)
LEMMA ExpireOnly ==
    ASSUME NEW n, NEW b, NEW told, KnowledgeFits(n, b, told), NEW S, KnowsOnly(b, S), Nowhere \in S
    PROVE  KnowsOnly(ExpireStale(b), S)
<1> DEFINE c == ExpireStale(b)
<1>1. c.bus = b.bus /\ \A m \in Nodes : c.disc[m] \in {Nowhere, b.disc[m]}
  BY DEF KnowledgeFits, ExpireStale
<1> HIDE DEF c
<1>2. KnowsOnly(c, S)
  BY <1>1 DEF KnowsOnly
<1> QED BY <1>2 DEF c

\* What a node may learn of in a step: its contact, who is there, who sends,
\* and the experts.
Sources(n, S) ==
    /\ Nowhere \in S
    /\ ~ Down(n) => Advertised(proc[n].contact, proc[proc[n].contact].life) \in S
    /\ \A c \in Nodes : proc[c].life # 0 => Advertised(c, proc[c].life) \in S
    /\ \A d \in wire : d.dst.of = n => Observed(n, d.by, d.life) \in S
    /\ n = Client /\ query.pc # "idle" => \A e \in Experts : Book[e] \in S

(* And then it knows nothing else.                                         *)
LEMMA LearnsOnly ==
    ASSUME LaunchInv, OnceInv, RegistryLives, NEW n \in Nodes, Learns(n), NEW S, Only(S), Sources(n, S)
    PROVE  KnowsOnly(node'[n], S)
<1> DEFINE b == node[n]
<1>0. /\ KnowledgeFits(n, b, Told(n)) /\ KnowsOnly(b, S) /\ DOMAIN node = Nodes
      /\ DOMAIN b = {"peers", "bus", "disc", "seen"} /\ DOMAIN b.bus = Nodes /\ DOMAIN b.disc = Nodes
  BY DEF LaunchInv, KnowInv, KnowledgeFits, Only
<1>1. CASE node'[n] = b
  BY <1>0, <1>1
<1>2. CASE node'[n] = Newborn
  BY <1>2 DEF Newborn, Unknown, KnowsOnly, Sources
<1>3. CASE node'[n] = ExpireStale(b)
  BY <1>0, <1>3, ExpireOnly DEF Sources
<1>4. CASE LookupFinds(n)
  <2> DEFINE m == proc[n].contact
             c == [b EXCEPT !.disc[m] = advert[m], !.seen[m] = now, !.bus[m] = advert[m], !.peers = @ \cup {m}]
  <2>1. node' = [node EXCEPT ![n] = c] /\ m \in Nodes
    BY <1>4 DEF LookupFinds, Joined, LaunchInv, ProcInv, ProcFits
  <2>2. node'[n] = c /\ advert[m] \in S
    BY <1>0, <2>1 DEF Only
  <2>3. \A k \in Nodes : c.bus[k] \in {advert[m], b.bus[k]} /\ c.disc[k] \in {advert[m], b.disc[k]}
    BY <1>0
  <2> HIDE DEF c, m, b
  <2> QED BY <1>0, <2>2, <2>3 DEF KnowsOnly
<1>5. CASE FallBack(n)
  <2> DEFINE m == proc[n].contact
             a == Advertised(m, proc[m].life)
             c == [b EXCEPT !.disc[m] = IF @ = Nowhere THEN a ELSE @, !.bus[m] = a, !.peers = @ \cup {m}]
  <2>1. node' = [node EXCEPT ![n] = IF scenario.told THEN c ELSE b] /\ proc[n].state = "starting"
    BY <1>5 DEF FallBack, Joined
  <2>2. node'[n] \in {c, b} /\ a \in S
    BY <1>0, <2>1 DEF Sources, Down
  <2>3. \A k \in Nodes : c.bus[k] \in {a, b.bus[k]} /\ c.disc[k] \in {a, b.disc[k]}
    BY <1>0
  <2> HIDE DEF c, m, b, a
  <2> QED BY <1>0, <2>2, <2>3 DEF KnowsOnly
<1>6. CASE \E d \in wire : d.dst.of = n /\ node'[n] = Dispatch(n, d)
  <2>1. PICK d \in wire : d.dst.of = n /\ node'[n] = Dispatch(n, d)
    BY <1>6
  <2>2. d.by \in Nodes /\ Observed(n, d.by, d.life) \in S /\ (d.kind = "pex" => \A m \in Nodes : d.list[m] \in S)
    BY <2>1 DEF LaunchInv, WireInv, DatagramFits, Sources, Only
  <2>3. KnowledgeFits(n, node[n], Told(n)) /\ KnowsOnly(node[n], S)
    BY <1>0
  <2>4. KnowsOnly(Dispatch(n, d), S)
    BY <2>2, <2>3, DispatchOnly
  <2> QED BY <2>1, <2>4
<1>7. ASSUME NEW m \in Nodes, Meet(n, m) \/ Bridge(n, m) PROVE KnowsOnly(node'[n], S)
  <2> DEFINE a == Advertised(m, proc[m].life)
  <2>1. proc[m].life # 0
    <3>1. CASE Meet(n, m)
      BY <3>1 DEF Meet, OnceInv, Up, Down
    <3>2. CASE Bridge(n, m)
      BY <3>2 DEF Bridge, RegistryLives
    <3> QED BY <1>7, <3>1, <3>2
  <2>2. a \in S
    BY <2>1 DEF Sources
  <2>3. node'[n].bus = [b.bus EXCEPT ![m] = a] /\ node'[n].disc = b.disc
    BY <1>0, <1>7 DEF Meet, Bridge
  <2>4. \A k \in Nodes : node'[n].bus[k] \in {a, b.bus[k]} /\ node'[n].disc[k] = b.disc[k]
    BY <1>0, <2>3
  <2> HIDE DEF a, b
  <2> QED BY <1>0, <2>2, <2>4 DEF KnowsOnly
<1>8. CASE n = Client /\ Seed
  <2>1. \A e \in Experts : Book[e] \in S
    BY <1>8 DEF Sources, Seed, Joining
  <2>2. /\ node'[n].disc = b.disc
        /\ node'[n].bus = [e \in Nodes |-> IF e \in Experts THEN Book[e] ELSE b.bus[e]]
    BY <1>0, <1>8 DEF Seed
  <2>3. \A m \in Nodes : node'[n].bus[m] \in S /\ node'[n].disc[m] \in S
    BY <1>0, <2>1, <2>2 DEF KnowsOnly
  <2> QED BY <2>3 DEF KnowsOnly
<1> QED BY <1>1, <1>2, <1>3, <1>4, <1>5, <1>6, <1>7, <1>8 DEF Learns

(* The advert of a node changes to its own address, while it is there.     *)
LEMMA AdvertSteps ==
    ASSUME LaunchInv, [Next]_vars, NEW n \in Nodes
    PROVE  advert'[n] = advert[n] \/ (~ Down(n)' /\ advert'[n] = Advertised(n, proc'[n].life))
<1>0. DOMAIN advert = Nodes /\ DOMAIN proc = Nodes
  BY DEF LaunchInv, KnowInv, ProcInv
<1>1. ASSUME NEW m, NEW contact, NEW linked, Start(m, contact, linked)
      PROVE  advert'[n] = advert[n] \/ (~ Down(n)' /\ advert'[n] = Advertised(n, proc'[n].life))
  BY <1>0, <1>1 DEF Start, PublishAdvert, Down
<1>2. ASSUME NEW m, FastRetry(m) \/ Refresh(m)
      PROVE  advert'[n] = advert[n] \/ (~ Down(n)' /\ advert'[n] = Advertised(n, proc'[n].life))
  BY <1>0, <1>2 DEF FastRetry, Refresh, PublishAdvert, Down
<1>3. ASSUME DirectoryNext, \A m \in Nodes : ~ FastRetry(m) /\ ~ Refresh(m) PROVE advert' = advert
  BY <1>3 DEF DirectoryNext, LookupFinds, LookupFails, FallBack, Round, Receive, Vanish, Tick
<1>4. ASSUME CensusNext, ~ DirectoryNext PROVE advert' = advert
  BY <1>4 DEF CensusNext, Meet, Bridge, FederationTick, ReceiveCensus
<1>5. ASSUME ClientNext PROVE advert' = advert
  BY <1>5 DEF ClientNext, Seed, Classify, Conclude, AnswerQuery, ReceiveAnswer
<1>6. ASSUME RunQuery \/ LaunchSeed \/ Restart PROVE \E m, contact, linked : Start(m, contact, linked)
  BY <1>6 DEF RunQuery, RunInfer, RunMultimodalQuery, Join, LaunchSeed, Restart
<1>7. ASSUME LaunchNext \/ LaunchScripted PROVE advert' = advert \/ \E m, contact, linked : Start(m, contact, linked)
  BY <1>7 DEF LaunchNext, LaunchScripted, directoryVars
<1>8. ASSUME NEW i, Build \/ ReadBootstrapAddr \/ Aggregate \/ Kill \/ StopScripted \/ OpenMetrics(i) \/ Report(i) \/ WorkerEnds(i) \/ Leave(i)
      PROVE  advert' = advert
  BY <1>8 DEF Build, ReadBootstrapAddr, Aggregate, Kill, StopScripted, OpenMetrics, Report, WorkerEnds, Leave, directoryVars
<1> QED BY <1>1, <1>2, <1>3, <1>4, <1>5, <1>6, <1>7, <1>8
        DEF Next, Launching, RunBackbone, RunMultimodalBackbone, RunCross, vars, directoryVars

(* What a new exchange lists is what its sender has.                       *)
LEMMA ListsSent ==
    ASSUME LaunchInv, [Next]_vars, NEW d \in wire', d \notin wire, d.kind = "pex"
    PROVE  d.by \in Nodes /\ d.list = node[d.by].disc
<1>0. ~ (wire' \subseteq wire)
  OBVIOUS
<1>1. ASSUME NEW n \in Nodes, NEW m \in Nodes, NEW kind, Round(n, m, kind) PROVE d.by = n /\ d.list = node[n].disc
  BY <1>1 DEF Round, Datagram
<1>2. ASSUME NEW n \in Nodes, NEW m \in Nodes, Bridge(n, m) PROVE d.by = n /\ d.list = node[n].disc
  BY <1>2 DEF Bridge, Transmit, Datagram
<1>3. ASSUME NEW n \in Nodes, FederationTick(n) PROVE FALSE
  BY <1>3 DEF FederationTick, Transmit, Datagram
<1>4. ASSUME NEW q \in wire, AnswerQuery(q) PROVE FALSE
  <2>1. d = [Datagram(q.dst.of, q.by, "answer", Unknown) EXCEPT !.dst = node'[q.dst.of].bus[q.by]]
    BY <1>4 DEF AnswerQuery
  <2>2. d.kind = "answer"
    BY <2>1 DEF Datagram
  <2> QED BY <2>2
<1>5. ASSUME Classify PROVE FALSE
  <2>1. PICK e \in Experts : d = Asks(e)
    BY <1>5 DEF Classify
  <2>2. d.kind = "query"
    BY <2>1 DEF Asks, Datagram
  <2> QED BY <2>2
<1>6. ASSUME DirectoryNext, \A n \in Nodes, m \in Nodes, kind \in {"protos", "pex"} : ~ Round(n, m, kind) PROVE wire' \subseteq wire
  BY <1>6 DEF DirectoryNext, FastRetry, Refresh, LookupFinds, LookupFails, FallBack, Receive, Vanish, Arrives, Tick
<1>7. ASSUME NEW b, NEW c, Meet(b, c) \/ (b \in wire /\ ReceiveCensus(b)) PROVE wire' \subseteq wire
  BY <1>7 DEF Meet, ReceiveCensus, Arrives
<1>8. ASSUME NEW r, Seed \/ Conclude \/ ReceiveAnswer(r) \/ RunQuery PROVE wire' \subseteq wire
  BY <1>8 DEF Seed, Conclude, ReceiveAnswer, Arrives, RunQuery, RunInfer, RunMultimodalQuery, Join, Start
<1>9. ASSUME Launching PROVE wire' \subseteq wire
  BY <1>9 DEF Launching, Build, LaunchSeed, ReadBootstrapAddr, LaunchNext, Kill, Restart, Aggregate,
              RunBackbone, RunMultimodalBackbone, RunCross, LaunchScripted, Start, directoryVars
<1>10. ASSUME NEW i, StopScripted \/ OpenMetrics(i) \/ Report(i) \/ WorkerEnds(i) \/ Leave(i) PROVE wire' \subseteq wire
  BY <1>10 DEF StopScripted, OpenMetrics, Report, WorkerEnds, Leave, directoryVars
<1>11. ~ UNCHANGED vars
  BY <1>0 DEF vars, directoryVars
<1>12. CASE CensusNext
  BY <1>0, <1>1, <1>2, <1>3, <1>6, <1>7, <1>12 DEF CensusNext
<1>13. CASE ClientNext \/ RunQuery
  BY <1>0, <1>4, <1>5, <1>8, <1>13 DEF ClientNext
<1> QED BY <1>0, <1>9, <1>10, <1>11, <1>12, <1>13 DEF Next

(* A beacon lists a beacon that was there.                                 *)
LEMMA RegistryGrows ==
    ASSUME [Next]_vars
    PROVE  registry' = registry \/ \E b, c \in Nodes : Meet(b, c)
<1>1. ASSUME ClientNext \/ RunQuery PROVE registry' = registry
  BY <1>1 DEF ClientNext, RunQuery, RunInfer, RunMultimodalQuery, Join, Seed, Classify, Conclude,
              AnswerQuery, ReceiveAnswer, censusVars
<1>2. ASSUME Launching PROVE registry' = registry
  BY <1>2 DEF Launching, Build, LaunchSeed, ReadBootstrapAddr, LaunchNext, Kill, Restart, Aggregate,
              RunBackbone, RunMultimodalBackbone, RunCross, LaunchScripted, censusVars
<1>3. ASSUME NEW i, StopScripted \/ OpenMetrics(i) \/ Report(i) \/ WorkerEnds(i) \/ Leave(i) PROVE registry' = registry
  BY <1>3 DEF StopScripted, OpenMetrics, Report, WorkerEnds, Leave, censusVars
<1>4. ASSUME CensusNext, \A b, c \in Nodes : ~ Meet(b, c) PROVE registry' = registry
  BY <1>4 DEF CensusNext, Bridge, FederationTick, ReceiveCensus, censusVars
<1> QED BY <1>1, <1>2, <1>3, <1>4 DEF Next, vars, censusVars

(* A beacon meets only what was started.                                   *)
LEMMA RegistryLivesNext ==
    ASSUME LaunchInv, OnceInv, RegistryLives, [Next]_vars
    PROVE  RegistryLives'
<1>1. \A c \in Nodes : proc[c].life # 0 => proc'[c].life # 0
  <2> TAKE c \in Nodes
  <2>1. proc[c].life \in Nat /\ proc'[c].life \in Nat /\ proc'[c].life >= proc[c].life
    BY LivesGrow DEF LaunchInv
  <2> QED BY <2>1
<1>2. \A b \in Nodes : registry[b] \subseteq Nodes
  BY ScenarioAssumption DEF LaunchInv, ProcInv, PeersInv, Nodes
<1>3. CASE registry' = registry
  BY <1>1, <1>2, <1>3 DEF RegistryLives
<1>4. ASSUME NEW b \in Nodes, NEW c \in Nodes, Meet(b, c) PROVE RegistryLives'
  <2>1. proc[c].life # 0 /\ proc' = proc /\ registry' = [registry EXCEPT ![b] = @ \cup {c}]
    BY <1>4 DEF Meet, OnceInv, Up, Down
  <2> QED BY <2>1 DEF RegistryLives, LaunchInv, PeersInv
<1> QED BY <1>3, <1>4, RegistryGrows

(* Where a node is dialled and seen is where it is.                        *)
LEMMA AddressGenuine ==
    ASSUME NEW m \in Nodes, NEW l \in Lives(m), NEW h \in Hosts(m)
    PROVE  Address(h, m, l) \in Genuine
<1>1. Address(h, m, l) \in {Address(x, m, y) : x \in Hosts(m), y \in Lives(m)}
  OBVIOUS
<1> QED BY <1>1 DEF Genuine

(* The address a node is dialled at is one of those.                       *)
LEMMA AdvertisedGenuine ==
    ASSUME NEW m \in Nodes, NEW l \in Lives(m)
    PROVE  Advertised(m, l) \in Genuine
<1>1. (IF scenario.local THEN Loopback ELSE scenario.machine[m]) \in Hosts(m)
  BY DEF Hosts
<1> QED BY <1>1, AddressGenuine DEF Advertised

(* So is the one its datagrams are seen to come from.                      *)
LEMMA ObservedGenuine ==
    ASSUME NEW n \in Nodes, NEW m \in Nodes \ {n}, NEW l \in Lives(m)
    PROVE  Observed(n, m, l) \in Genuine
<1>1. (IF scenario.machine[n] = scenario.machine[m] THEN Loopback ELSE scenario.machine[m]) \in Hosts(m)
  BY DEF Hosts, Shared
<1> QED BY <1>1, AddressGenuine DEF Observed

(* A node has lived at most twice.                                         *)
AtMostTwice == \A n \in Nodes : proc[n].life \in {0, 1, 2} /\ (Unscripted(n) => proc[n].life = 0)

(* Whatever the launcher, the victim that is restarted was killed once.    *)
LEMMA NobodyLivesThrice == LifeInv => AtMostTwice
<1> SUFFICES ASSUME LifeInv, NEW n \in Nodes
             PROVE  proc[n].life \in {0, 1, 2} /\ (Unscripted(n) => proc[n].life = 0)
  BY DEF AtMostTwice
<1>1. Unscripted(n) => ~ Multiproc /\ ~ Begun(n)
  BY DEF Unscripted, Begun
<1> QED BY <1>1 DEF LifeInv, Lived, Scripted

(* What was genuine stays so.                                              *)
LEMMA GenuineGrows ==
    ASSUME WholeInv, LifeInv, LifeInv', [Next]_vars
    PROVE  Genuine \subseteq Genuine'
<1>0. ProcInv /\ scenario' = scenario
  BY RegistrySteps DEF WholeInv, LaunchInv
<1>1. ASSUME NEW m \in Nodes PROVE Hosts(m)' = Hosts(m) /\ Lives(m) \subseteq Lives(m)'
  <2>1. Hosts(m)' = Hosts(m) /\ (Unscripted(m)' <=> Unscripted(m))
    BY <1>0, AskedStays DEF Hosts, Shared, Unscripted
  <2>2. proc[m].life \in Nat /\ proc'[m].life \in Nat /\ proc'[m].life >= proc[m].life
    BY <1>0, LivesGrow
  <2>3. proc[m].life \in {0, 1, 2} /\ proc'[m].life \in {0, 1, 2} /\ (Unscripted(m) => proc[m].life = 0 /\ proc'[m].life = 0)
    <3>1. AtMostTwice'
      BY NobodyLivesThrice, PTL
    <3>2. AtMostTwice
      BY NobodyLivesThrice
    <3> QED BY <1>1, <2>1, <3>1, <3>2 DEF AtMostTwice
  <2> QED BY <2>1, <2>2, <2>3 DEF Lives
<1>2. ASSUME NEW m \in Nodes, NEW h \in Hosts(m), NEW l \in Lives(m) PROVE Address(h, m, l) \in Genuine'
  <2>1. h \in Hosts(m)' /\ l \in Lives(m)'
    BY <1>1, <1>2
  <2>2. Address(h, m, l) \in {Address(x, m, y) : x \in Hosts(m)', y \in Lives(m)'}
    BY <2>1
  <2> QED BY <2>2 DEF Genuine
<1>3. Nowhere \in Genuine'
  BY DEF Genuine
<1> QED BY <1>2, <1>3 DEF Genuine

\* The lives somebody has are genuine.
LEMMA LivesAreGenuine ==
    ASSUME LifeInv, NEW m \in Nodes
    PROVE  /\ proc[m].life # 0 \/ Unscripted(m) => proc[m].life \in Lives(m)
           /\ \A l \in 1 .. proc[m].life : l \in Lives(m)
<1>1. proc[m].life \in {0, 1, 2}
  BY NobodyLivesThrice DEF AtMostTwice
<1> QED BY <1>1 DEF Lives

(* A node learns of genuine addresses.                                     *)
LEMMA SourcesGenuine ==
    ASSUME WholeInv, OnceInv, LivesInv, LifeInv, ContactInv, NEW n \in Nodes
    PROVE  Sources(n, Genuine)
<1>0. LaunchInv /\ ProcInv /\ scenario \in Scenarios
  BY DEF WholeInv, LaunchInv, ProcInv
<1>1. \A c \in Nodes : proc[c].life # 0 \/ Unscripted(c) => Advertised(c, proc[c].life) \in Genuine
  BY LivesAreGenuine, AdvertisedGenuine
<1>2. ~ Down(n) => Advertised(proc[n].contact, proc[proc[n].contact].life) \in Genuine
  <2> SUFFICES ASSUME ~ Down(n) PROVE Advertised(proc[n].contact, proc[proc[n].contact].life) \in Genuine
    OBVIOUS
  <2>1. proc[n].life # 0 /\ proc[n].contact \in Nodes
    BY <1>0 DEF OnceInv, ProcInv, ProcFits
  <2>2. proc[n].contact = n \/ proc[proc[n].contact].life # 0 \/ Unscripted(proc[n].contact)
    BY DEF ContactInv
  <2> QED BY <1>1, <2>1, <2>2
<1>3. ASSUME NEW d \in wire, d.dst.of = n PROVE Observed(n, d.by, d.life) \in Genuine
  <2>1. d.by \in Nodes \ {n} /\ d.life \in 1 .. proc[d.by].life
    BY <1>0, <1>3 DEF LaunchInv, WireInv, DatagramFits, LivesInv
  <2>2. d.life \in Lives(d.by)
    BY <2>1, LivesAreGenuine
  <2> QED BY <2>1, <2>2, ObservedGenuine
<1>4. ASSUME query.pc # "idle", NEW e \in Experts PROVE Book[e] \in Genuine
  <2>1. scenario.client # "none"
    BY <1>0, <1>4 DEF LaunchInv, QueryShape
  <2>2. e \in Nodes /\ scenario.machine[e] = scenario.publicHost
    BY <1>0, <2>1, ExpertsAtHost
  <2>3. scenario.machine[e] \in Hosts(e) /\ 1 \in Lives(e)
    BY DEF Hosts, Lives
  <2>4. Book[e] = Address(scenario.machine[e], e, 1)
    BY <2>2, BookIs
  <2> QED BY <2>2, <2>3, <2>4, AddressGenuine
<1>5. Nowhere \in Genuine
  BY DEF Genuine
<1> QED BY <1>1, <1>2, <1>3, <1>4, <1>5 DEF Sources

(* More is more.                                                           *)
LEMMA SourcesMore ==
    ASSUME NEW n, NEW S, NEW T, S \subseteq T, Sources(n, S) PROVE Sources(n, T)
BY DEF Sources

(* AddrInv is inductive.                                                   *)
LEMMA AddrNext ==
    ASSUME WholeInv, OnceInv, LivesInv, LifeInv, ContactInv, AddrInv, [Next]_vars, OnceInv', LifeInv'
    PROVE  AddrInv'
<1>0. LaunchInv
  BY DEF WholeInv
<1>1. PICK S : S = Genuine'
  OBVIOUS
<1>2. Genuine \subseteq S
  BY <1>1, GenuineGrows
<1>3. Only(S)
  BY <1>2 DEF AddrInv, Only, KnowsOnly
<1>4. ASSUME NEW n \in Nodes PROVE KnowsOnly(node'[n], S)
  <2>1. Sources(n, S) /\ Learns(n)
    BY <1>2, <1>4, SourcesGenuine, SourcesMore, LearningSteps
  <2> QED BY <1>0, <1>3, <1>4, <2>1, LearnsOnly DEF AddrInv
<1>5. ASSUME NEW n \in Nodes PROVE advert'[n] \in S
  <2>1. ASSUME ~ Down(n)' PROVE Advertised(n, proc'[n].life) \in S
    <3>1. proc'[n].life # 0
      BY <1>5, <2>1 DEF OnceInv
    <3>2. proc'[n].life \in Lives(n)'
      BY <3>1 DEF Lives
    <3>3. (IF scenario'.local THEN Loopback ELSE scenario'.machine[n]) \in Hosts(n)'
      BY DEF Hosts
    <3>4. Address(IF scenario'.local THEN Loopback ELSE scenario'.machine[n], n, proc'[n].life) \in
            {Address(h, n, l) : h \in Hosts(n)', l \in Lives(n)'}
      BY <3>2, <3>3
    <3> QED BY <1>1, <1>5, <3>4, RegistrySteps DEF Genuine, Advertised
  <2> QED BY <1>0, <1>3, <1>5, <2>1, AdvertSteps DEF Only
<1>6. ASSUME NEW d \in wire', d.kind = "pex", NEW m \in Nodes PROVE d.list[m] \in S
  BY <1>0, <1>3, <1>6, ListsSent DEF Only, KnowsOnly
<1>7. Only(S)'
  BY <1>4, <1>5, <1>6 DEF Only, KnowsOnly
<1>8. RegistryLives'
  BY <1>0, RegistryLivesNext DEF AddrInv
<1> QED BY <1>1, <1>7, <1>8 DEF AddrInv, Only, KnowsOnly

-----------------------------------------------------------------------------
(* Who has joined dials its contact where it is.                           *)

\* n finds m at this host.
HostFits(n, m, a) ==
    a.host = scenario.machine[m] \/ (a.host = Loopback /\ scenario.machine[n] = scenario.machine[m])

Adverts == \A m \in Nodes : advert[m] = Nowhere \/ advert[m].host = Advertised(m, 0).host

JoinedInv ==
    /\ Adverts
    /\ \A n \in Nodes :
        /\ proc[n].state = "starting" /\ proc[n].linked /\ ~ scenario.flaky => proc[n].tries <= 1
        /\ Up(n) /\ proc[n].linked /\ proc[n].contact # n =>
            proc[n].contact \in node[n].peers /\ HostFits(n, proc[n].contact, node[n].bus[proc[n].contact])

(* Dialling a node where it is: at its advertised host,                    *)
LEMMA AdvertisedFits ==
    ASSUME scenario \in Scenarios, NEW n \in Nodes, NEW m \in Nodes, NEW a, a.host = Advertised(m, 0).host
    PROVE  HostFits(n, m, a)
BY LayoutAssumption DEF Advertised, Address, HostFits

(* and at the one its datagrams come from.                                 *)
LEMMA ObservedFits ==
    ASSUME NEW n, NEW m, NEW l
    PROVE  HostFits(n, m, Observed(n, m, l))
BY DEF Observed, Address, HostFits

(* A node that is up keeps its peers, and dials them where they are.       *)
LEMMA FriendsKept ==
    ASSUME LaunchInv, NEW n \in Nodes, Learns(n), Up(n), NEW m \in node[n].peers, HostFits(n, m, node[n].bus[m])
    PROVE  m \in node'[n].peers /\ HostFits(n, m, node'[n].bus[m])
<1> DEFINE b == node[n]
<1>0. /\ KnowledgeFits(n, b, Told(n)) /\ DOMAIN node = Nodes /\ scenario \in Scenarios
      /\ DOMAIN b = {"peers", "bus", "disc", "seen"} /\ DOMAIN b.bus = Nodes
      /\ m \in Nodes /\ b.bus[m] # Nowhere
  BY DEF LaunchInv, ProcInv, KnowInv, KnowledgeFits
<1>1. ~ Down(n) /\ ~ LookupFinds(n) /\ ~ FallBack(n)
  BY DEF Up, Down, LookupFinds, FallBack
<1>2. CASE node'[n] = b
  BY <1>2
<1>3. CASE node'[n] = ExpireStale(b)
  BY <1>0, <1>3 DEF ExpireStale
<1>4. ASSUME NEW d \in wire, node'[n] = Dispatch(n, d) PROVE m \in node'[n].peers /\ HostFits(n, m, node'[n].bus[m])
  <2>1. d.by \in Nodes
    BY DEF LaunchInv, WireInv, DatagramFits
  <2>2. KnowledgeFits(n, node[n], Told(n)) /\ node[n].bus[m] # Nowhere
    BY <1>0
  <2>3. m \in Dispatch(n, d).peers
    BY DispatchPeers DEF LaunchInv
  <2>4. Dispatch(n, d).bus[m] = Observed(n, m, d.life) \/ Dispatch(n, d).bus[m] = node[n].bus[m]
    BY <1>0, <2>1, <2>2, DispatchBus
  <2> QED BY <1>4, <2>3, <2>4, ObservedFits
<1>5. ASSUME NEW c \in Nodes, Meet(n, c) \/ Bridge(n, c) PROVE m \in node'[n].peers /\ HostFits(n, m, node'[n].bus[m])
  <2>1. m \in node'[n].peers /\ node'[n].bus[m] \in {b.bus[m], Advertised(m, proc[m].life)}
    BY <1>0, <1>5 DEF Meet, Bridge
  <2>2. HostFits(n, m, Advertised(m, proc[m].life))
    <3>1. Advertised(m, proc[m].life).host = Advertised(m, 0).host
      BY DEF Advertised, Address
    <3> QED BY <1>0, <3>1, AdvertisedFits
  <2> QED BY <2>1, <2>2
<1>6. CASE n = Client /\ Seed
  <2>1. m \in node'[n].peers /\ node'[n].bus[m] = IF m \in Experts THEN Book[m] ELSE b.bus[m]
    BY <1>0, <1>6 DEF Seed
  <2>2. ASSUME m \in Experts PROVE HostFits(n, m, Book[m])
    <3>1. scenario.client # "none"
      BY <1>6 DEF Seed, Joining, LaunchInv, QueryShape
    <3>2. Book[m] = Address(scenario.machine[m], m, 1)
      BY <1>0, <2>2, <3>1, BookIs, ExpertsAtHost
    <3> QED BY <3>2 DEF Address, HostFits
  <2> QED BY <2>1, <2>2
<1> QED BY <1>1, <1>2, <1>3, <1>4, <1>5, <1>6 DEF Learns

(* JoinedInv is inductive.                                                 *)
LEMMA JoinedNext ==
    ASSUME WholeInv, JoinedInv, [Next]_vars
    PROVE  JoinedInv'
<1>0. LaunchInv /\ ProcInv /\ scenario \in Scenarios /\ scenario' = scenario
  BY RegistrySteps DEF WholeInv, LaunchInv, ProcInv
<1>1. Adverts'
  <2> SUFFICES ASSUME NEW m \in Nodes PROVE advert'[m] = Nowhere \/ advert'[m].host = Advertised(m, 0)'.host
    BY DEF Adverts
  <2>1. \A l : Advertised(m, l).host = Advertised(m, 0)'.host /\ Advertised(m, 0).host = Advertised(m, 0)'.host
    BY <1>0 DEF Advertised, Address
  <2>2. advert[m] = Nowhere \/ advert[m].host = Advertised(m, 0).host
    BY DEF JoinedInv, Adverts
  <2> QED BY <1>0, <2>1, <2>2, AdvertSteps
<1> SUFFICES ASSUME NEW n \in Nodes
             PROVE  /\ proc'[n].state = "starting" /\ proc'[n].linked /\ ~ scenario.flaky => proc'[n].tries <= 1
                    /\ proc'[n].state = "up" /\ proc'[n].linked /\ proc'[n].contact # n =>
                         /\ proc'[n].contact \in node'[n].peers
                         /\ HostFits(n, proc'[n].contact, node'[n].bus[proc'[n].contact])
  BY <1>0, <1>1 DEF JoinedInv, Up, HostFits
<1>2. Learns(n) /\ ProcessGoesOn(n)
  BY LearningSteps, ProcessSteps
<1>3. /\ DOMAIN proc = Nodes /\ DOMAIN node = Nodes /\ ProcFits(n, proc[n])
      /\ DOMAIN node[n] = {"peers", "bus", "disc", "seen"} /\ DOMAIN node[n].bus = Nodes
  BY <1>0 DEF LaunchInv, ProcInv, KnowInv, KnowledgeFits
<1>4. CASE proc'[n] = proc[n]
  BY <1>0, <1>2, <1>4, FriendsKept DEF JoinedInv, Up
<1>5. CASE \E contact, linked : Start(n, contact, linked)
  <2>1. PICK contact, linked : Start(n, contact, linked)
    BY <1>5
  <2> QED BY <1>3, <2>1 DEF Start
<1>6. CASE LookupFinds(n)
  <2>1. PICK c : c = proc[n].contact
    OBVIOUS
  <2>2. /\ proc' = [proc EXCEPT ![n].state = "up"] /\ advert[c] # Nowhere /\ c \in Nodes
        /\ node' = [node EXCEPT ![n] = [node[n] EXCEPT !.disc[c] = advert[c], !.seen[c] = now,
                                                       !.bus[c] = advert[c], !.peers = @ \cup {c}]]
    BY <1>3, <1>6, <2>1 DEF LookupFinds, Joined, ProcFits
  <2>3. proc'[n].state = "up" /\ proc'[n].contact = c
    BY <1>3, <2>1, <2>2 DEF ProcFits
  <2>4. c \in node'[n].peers /\ node'[n].bus[c] = advert[c]
    BY <1>3, <2>2
  <2>5. HostFits(n, c, advert[c])
    BY <1>0, <2>2, AdvertisedFits DEF JoinedInv, Adverts
  <2> QED BY <2>3, <2>4, <2>5
<1>7. CASE FallBack(n)
  <2>1. PICK c : c = proc[n].contact
    OBVIOUS
  <2>2. PICK a : a = Advertised(c, proc[c].life)
    OBVIOUS
  <2>3. /\ proc' = [proc EXCEPT ![n].state = "up"] /\ proc[n].tries = LookupRounds /\ c \in Nodes
        /\ proc[n].state = "starting"
        /\ scenario.told => node' = [node EXCEPT ![n] =
                [node[n] EXCEPT !.disc[c] = IF @ = Nowhere THEN a ELSE @, !.bus[c] = a, !.peers = @ \cup {c}]]
    BY <1>3, <1>7, <2>1, <2>2 DEF FallBack, Joined, ProcFits
  <2>4. proc'[n].state = "up" /\ proc'[n].contact = c /\ proc'[n].linked = proc[n].linked
    BY <1>3, <2>1, <2>3 DEF ProcFits
  <2>5. CASE scenario.told
    <3>4. PICK k : k = [node[n] EXCEPT !.disc[c] = IF @ = Nowhere THEN a ELSE @, !.bus[c] = a, !.peers = @ \cup {c}]
      OBVIOUS
    <3>5. c \in k.peers /\ k.bus[c] = a
      BY <1>3, <2>3, <3>4
    <3>6. node' = [node EXCEPT ![n] = k]
      BY <2>3, <2>5, <3>4
    <3>1. c \in node'[n].peers /\ node'[n].bus[c] = a
      BY <1>3, <3>5, <3>6
    <3>2. a.host = Advertised(c, 0).host
      BY <2>2 DEF Advertised, Address
    <3> QED BY <1>0, <2>3, <2>4, <3>1, <3>2, AdvertisedFits
  <2>6. CASE ~ scenario.told
    <3>1. ~ scenario.flaky /\ LookupRounds > 1 /\ LookupRounds \in Nat
      BY <1>0, <2>6, LayoutAssumption, DirectoryAssumption
    <3>2. ~ proc[n].linked
      BY <2>3, <3>1 DEF JoinedInv
    <3> QED BY <2>4, <3>2
  <2> QED BY <2>5, <2>6
<1>8. CASE LookupFails(n)
  <2>1. /\ proc' = [proc EXCEPT ![n].tries = @ + 1] /\ proc[n].state = "starting"
        /\ scenario.flaky \/ ~ proc[n].linked \/ proc[n].tries = 0
    BY <1>8 DEF LookupFails, MayFail
  <2>2. proc'[n].state = "starting" /\ proc'[n].tries = proc[n].tries + 1 /\ proc'[n].linked = proc[n].linked
    BY <1>3, <2>1 DEF ProcFits
  <2> QED BY <2>1, <2>2
<1>9. CASE proc'[n] = [proc[n] EXCEPT !.state = "down"]
  BY <1>3, <1>9 DEF ProcFits
<1> QED BY <1>2, <1>4, <1>5, <1>6, <1>7, <1>8, <1>9 DEF ProcessGoesOn

-----------------------------------------------------------------------------
(* Two nodes that one contact knows find each other.                       *)

ReunionInv == LifeInv /\ ContactInv /\ AddrInv /\ JoinedInv

(* Nobody was started or told of anything.                                 *)
LEMMA ReunionInit == Init => ReunionInv
<1> SUFFICES ASSUME Init PROVE ReunionInv
  OBVIOUS
<1>1. DirectoryInit /\ CensusInit /\ query.pc = "idle"
  BY DEF Init, QueryInit, CensusInit
<1>2. /\ launcher.next = 1 /\ launcher.pc \in {"build", "launch"}
      /\ \A n \in Nodes : proc[n].life = 0 /\ Down(n) /\ proc[n].tries = 0
  BY <1>1 DEF Init, DirectoryInit, Down
<1>3. \A n \in Nodes : ~ Begun(n)
  BY <1>1, <1>2, ScriptIs DEF Begun
<1>4. LifeInv /\ ContactInv
  BY <1>2, <1>3 DEF LifeInv, ContactInv, Lived, Scripted
<1>5. AddrInv
  BY <1>1 DEF DirectoryInit, CensusInit, AddrInv, Only, KnowsOnly, Newborn, Unknown, Genuine, RegistryLives
<1>6. JoinedInv
  BY <1>1, <1>2 DEF DirectoryInit, JoinedInv, Adverts, Unknown, Up, Down
<1> QED BY <1>4, <1>5, <1>6 DEF ReunionInv

(* Every step keeps it.                                                    *)
LEMMA ReunionNext == WholeInv /\ AskInv /\ ReunionInv /\ [Next]_vars => ReunionInv'
<1> SUFFICES ASSUME WholeInv, AskInv, ReunionInv, [Next]_vars PROVE ReunionInv'
  OBVIOUS
<1>1. AskInv' /\ LifeInv'
  BY AskNext, LifeNext DEF ReunionInv
<1>2. ContactInv'
  BY ContactNext DEF ReunionInv
<1>3. AddrInv'
  BY <1>1, AddrNext DEF ReunionInv, AskInv
<1>4. JoinedInv'
  BY JoinedNext DEF ReunionInv
<1> QED BY <1>1, <1>2, <1>3, <1>4 DEF ReunionInv

(* Who gets a list has the sender and whoever is in it for a peer.         *)
LEMMA PexTells ==
    ASSUME LaunchInv, NEW j \in Nodes, NEW d, d.by \in Nodes \ {j}, d.kind = "pex"
    PROVE  /\ d.by \in Dispatch(j, d).peers /\ Dispatch(j, d).disc[d.by] # Nowhere
           /\ \A x \in Nodes \ {j} : d.list[x] # Nowhere => x \in Dispatch(j, d).peers
<1> DEFINE src == Observed(j, d.by, d.life)
           b == Hears(node[j], src)
           i == IngestPex(j, b, d.list)
           c == OnPex(j, b, d.list)
           new == {m \in Nodes \ {j} : d.list[m] # Nowhere /\ b.disc[m] = Nowhere}
<1>1. src.of = d.by /\ src # Nowhere
  BY ObservedUsable, UsableIsSomewhere DEF Observed, Address, LaunchInv, ProcInv
<1>2. DOMAIN node[j] = {"peers", "bus", "disc", "seen"} /\ DOMAIN node[j].disc = Nodes
  BY DEF LaunchInv, KnowInv, KnowledgeFits
<1>3. Dispatch(j, d) = c
  BY DEF Dispatch
<1> HIDE DEF src
<1>4. /\ DOMAIN b = {"peers", "bus", "disc", "seen"} /\ DOMAIN b.disc = Nodes
      /\ d.by \in b.peers /\ b.disc[d.by] # Nowhere
  BY <1>1, <1>2 DEF Hears
<1> HIDE DEF b
<1>5. /\ DOMAIN i = DOMAIN b /\ i.peers = b.peers
      /\ i.disc = [m \in Nodes |-> IF m \in new THEN d.list[m] ELSE b.disc[m]]
  BY <1>4 DEF IngestPex
<1> HIDE DEF i
<1>6. c.peers = b.peers \cup Known(i.disc) /\ c.disc = i.disc
  BY <1>4, <1>5 DEF OnPex, i
<1> HIDE DEF c
<1>7. i.disc[d.by] # Nowhere
  BY <1>4, <1>5
<1>8. ASSUME NEW x \in Nodes \ {j}, d.list[x] # Nowhere PROVE x \in Known(i.disc)
  BY <1>5, <1>8 DEF Known
<1> QED BY <1>3, <1>4, <1>6, <1>7, <1>8

\* j has heard k and all that k knows.
Met(k, j) ==
    /\ k \in node[j].peers /\ node[j].bus[k] = Observed(j, k, proc[k].life) /\ node[j].disc[k] # Nowhere
    /\ \A x \in Nodes \ {j} : node[k].disc[x] # Nowhere => x \in node[j].peers

(* When all is told, whoever reaches a peer has been heard by it.          *)
LEMMA SettledHaveMet ==
    ASSUME LaunchInv, Settled, NEW k \in Nodes, Up(k), NEW j \in node[k].peers, Reaches(k, node[k].bus[j])
    PROVE  Met(k, j)
<1>0. PICK d : d = Datagram(k, j, "pex", node[k].disc)
  OBVIOUS
<1>1. j \in Nodes \ {k} /\ KnowledgeFits(j, node[j], Told(j)) /\ scenario \in Scenarios
  BY DEF LaunchInv, KnowInv, KnowledgeFits, ProcInv
<1>2. d.by = k /\ d.life = proc[k].life /\ d.kind = "pex" /\ d.list = node[k].disc
  BY <1>0 DEF Datagram
<1>3. LET after == Dispatch(j, d)
      IN  after.peers = node[j].peers /\ after.bus = node[j].bus /\ after.disc = node[j].disc
  BY <1>0, <1>1 DEF Settled
<1>4. Dispatch(j, d).bus[k] = Observed(j, k, proc[k].life)
  <2>1. d.by \in Nodes /\ k = d.by
    BY <1>2
  <2>2. Dispatch(j, d).bus[k] = Observed(j, k, d.life)
    BY ONLY <1>1, <2>1, DispatchBus
  <2> QED BY <1>2, <2>2
<1> QED BY <1>1, <1>2, <1>3, <1>4, PexTells DEF Met

(* Who was heard where it is, is reached there.                            *)
LEMMA ObservedReaches ==
    ASSUME scenario \in Scenarios, NEW j \in Nodes, NEW k \in Nodes, Up(k)
    PROVE  Reaches(j, Observed(j, k, proc[k].life))
<1>1. Observed(j, k, proc[k].life) # Nowhere
  BY ObservedUsable, UsableIsSomewhere
<1> QED BY <1>1 DEF Reaches, Observed, Address, Up, Down

(* So they have heard each other.                                          *)
LEMMA MetIsMutual ==
    ASSUME LaunchInv, Settled, NEW k \in Nodes, Up(k), NEW j \in node[k].peers, Up(j), Reaches(k, node[k].bus[j])
    PROVE  Met(k, j) /\ Met(j, k)
<1>1. Met(k, j) /\ j \in Nodes /\ scenario \in Scenarios
  BY SettledHaveMet DEF LaunchInv, KnowInv, KnowledgeFits, ProcInv
<1>2. k \in node[j].peers /\ Reaches(j, node[j].bus[k])
  BY <1>1, ObservedReaches DEF Met
<1> QED BY <1>1, <1>2, SettledHaveMet

(* What a node dials of m is an address m had, in a life it had.           *)
LEMMA PeersDialled ==
    ASSUME LaunchInv, AddrInv, NEW n \in Nodes, NEW m \in node[n].peers
    PROVE  LET a == node[n].bus[m]
           IN  m \in Nodes \ {n} /\ a # Nowhere /\ a.of = m /\ a.host \in Hosts(m) /\ a.life \in Lives(m)
<1>1. PICK a : a = node[n].bus[m]
  OBVIOUS
<1>2. m \in Nodes \ {n} /\ a # Nowhere /\ a.of = m
  BY <1>1 DEF LaunchInv, KnowInv, KnowledgeFits, Perhaps, AddressOf
<1>3. a \in Genuine
  BY <1>1, <1>2 DEF AddrInv, Only, KnowsOnly
<1>4. PICK k \in Nodes : \E h \in Hosts(k), l \in Lives(k) : a = Address(h, k, l)
  BY <1>2, <1>3 DEF Genuine
<1> QED BY <1>1, <1>2, <1>4 DEF Address

(* A process in its first life is reached, unless the address is its       *)
(* machine's own.                                                          *)
LEMMA PeerReached ==
    ASSUME LaunchInv, AddrInv, NEW n \in Nodes, NEW m \in node[n].peers, Up(m), proc[m].life = 1,
           HostFits(n, m, node[n].bus[m])
    PROVE  Reaches(n, node[n].bus[m])
<1>1. PICK a : a = node[n].bus[m]
  OBVIOUS
<1>2. a # Nowhere /\ a.of = m /\ a.life \in Lives(m)
  BY <1>1, PeersDialled
<1>3. a.life = 1
  BY <1>2 DEF Lives
<1> QED BY <1>1, <1>2, <1>3 DEF Reaches, HostFits, Up, Down

(* The contact of a node that is up was not restarted.                     *)
LEMMA ContactsLiveOnce ==
    ASSUME WholeInv, OnceInv, LifeInv, NEW n \in Nodes, Up(n), Up(proc[n].contact)
    PROVE  proc[n].contact \in Nodes /\ proc[proc[n].contact].life = 1
<1>1. PICK c : c = proc[n].contact
  OBVIOUS
<1>2. c \in Nodes /\ proc[n].life # 0 /\ proc[c].life # 0
  BY <1>1 DEF WholeInv, LaunchInv, ProcInv, ProcFits, OnceInv, Up, Down
<1>3. CASE Multiproc
  <2>1. c = 0 /\ 0 \notin launcher.victims
    BY <1>1, <1>2, <1>3 DEF LifeInv, WholeInv, RunInv, MultiprocInv, StageInv, Lived, Scripted
  <2> QED BY <1>1, <1>2, <1>3, <2>1 DEF LifeInv, Lived, Scripted
<1>4. CASE ~ Multiproc
  BY <1>1, <1>2, <1>4 DEF LifeInv, Lived, Scripted
<1> QED BY <1>3, <1>4

(* So it is reached by whoever joined it.                                  *)
LEMMA ContactReached ==
    ASSUME WholeInv, OnceInv, ReunionInv, NEW n \in Nodes, Up(n), proc[n].linked, proc[n].contact # n, Up(proc[n].contact)
    PROVE  proc[n].contact \in node[n].peers /\ Reaches(n, node[n].bus[proc[n].contact])
<1>1. PICK c : c = proc[n].contact
  OBVIOUS
<1>2. c \in Nodes /\ proc[c].life = 1
  BY <1>1, ContactsLiveOnce DEF ReunionInv
<1>3. c \in node[n].peers /\ HostFits(n, c, node[n].bus[c])
  BY <1>1 DEF ReunionInv, JoinedInv
<1> QED BY <1>1, <1>2, <1>3, PeerReached DEF ReunionInv, WholeInv

(* Of two peers one at least reaches the other: the one restarted is not   *)
(* elsewhere, and who is alone on its machine has no address there.        *)
LEMMA OneReaches ==
    ASSUME OneSite, WholeInv, OnceInv, ReunionInv, NEW n \in Nodes, NEW m \in node[n].peers, n \in node[m].peers, Up(n), Up(m)
    PROVE  Reaches(n, node[n].bus[m]) \/ Reaches(m, node[m].bus[n])
<1>1. m \in Nodes \ {n} /\ scenario \in Scenarios /\ proc[n].life # 0 /\ proc[m].life # 0
  BY DEF WholeInv, LaunchInv, ProcInv, KnowInv, KnowledgeFits, OnceInv, Up, Down
<1>2. node[n].bus[m].host \in Hosts(m) /\ node[m].bus[n].host \in Hosts(n)
  BY <1>1, PeersDialled DEF WholeInv, ReunionInv
<1>3. proc[m].life = 1 /\ HostFits(n, m, node[n].bus[m]) => Reaches(n, node[n].bus[m])
  BY PeerReached DEF WholeInv, ReunionInv
<1>4. proc[n].life = 1 /\ HostFits(m, n, node[m].bus[n]) => Reaches(m, node[m].bus[n])
  BY <1>1, PeerReached DEF WholeInv, ReunionInv
<1>5. CASE Multiproc
  <2>1. scenario.machine[n] = scenario.machine[m]
    BY <1>1, <1>5, LayoutAssumption DEF Multiproc
  <2>2. HostFits(n, m, node[n].bus[m]) /\ HostFits(m, n, node[m].bus[n])
    BY <1>2, <2>1 DEF Hosts, HostFits
  <2>3. proc[n].life = 1 \/ proc[m].life = 1
    BY <1>1, <1>5 DEF ReunionInv, LifeInv, Lived, Scripted
  <2> QED BY <1>3, <1>4, <2>2, <2>3
<1>6. CASE ~ Multiproc
  <2>1. proc[n].life = 1 /\ proc[m].life = 1
    BY <1>1, <1>6 DEF ReunionInv, LifeInv, Lived, Scripted
  <2>2. CASE scenario.machine[n] = scenario.machine[m]
    BY <1>2, <1>3, <2>1, <2>2 DEF Hosts, HostFits
  <2>3. CASE scenario.machine[n] # scenario.machine[m]
    <3>1. ~ scenario.local
      BY <1>1, <2>3, LayoutAssumption
    <3>2. ~ Shared(n) \/ ~ Shared(m)
      BY <1>1, <2>3 DEF OneSite, Shared
    <3>3. ~ Shared(m) => HostFits(n, m, node[n].bus[m])
      BY <1>2, <3>1 DEF Hosts, HostFits
    <3>4. ~ Shared(n) => HostFits(m, n, node[m].bus[n])
      BY <1>2, <3>1 DEF Hosts, HostFits
    <3> QED BY <1>3, <1>4, <2>1, <3>2, <3>3, <3>4
  <2> QED BY <2>2, <2>3
<1> QED BY <1>5, <1>6

(* Whom one contact knows it tells of each other.                          *)
LEMMA ContactIntroduces ==
    ASSUME WholeInv, OnceInv, ReunionInv, Settled, NEW n \in Nodes, NEW m \in Nodes, NEW c \in Nodes, n # m, n # c, m # c,
           Up(n), Up(m), Up(c), proc[n].linked, proc[m].linked, proc[n].contact = c, proc[m].contact = c
    PROVE  m \in node[n].peers
<1>1. Met(c, n) /\ Met(m, c)
  <2>1. c \in node[n].peers /\ Reaches(n, node[n].bus[c]) /\ c \in node[m].peers /\ Reaches(m, node[m].bus[c])
    BY ContactReached
  <2> QED BY <2>1, MetIsMutual DEF WholeInv
<1> QED BY <1>1 DEF Met

(* Reunited of Launchers, for every number of processes, clock, layout and *)
(* script in which only one machine runs more than one of the nodes, and   *)
(* whatever is lost, forgotten or learned of hearsay on the way: when      *)
(* nobody has anything to tell, two nodes of one live contact dial each    *)
(* other where they are and in the life they have, although one of them    *)
(* was killed and restarted at another port (start and _on_pex in          *)
(* net_node.py, ingest_pex in discovery.py, run_chaos in                   *)
(* run_multiproc.py).                                                      *)
THEOREM TheRestartedAreFound ==
    ASSUME OneSite
    PROVE  Spec => []Reunited
<1>1. WholeInv /\ AskInv /\ ReunionInv => Reunited
  <2> SUFFICES ASSUME WholeInv, AskInv, ReunionInv, Settled, NEW n \in Nodes, NEW m \in Nodes, n # m,
                      Up(n), Up(m), Up(proc[n].contact), proc[n].contact = proc[m].contact, proc[n].linked, proc[m].linked
               PROVE  m \in node[n].peers /\ node[n].bus[m] = Observed(n, m, proc[m].life)
    BY DEF Reunited
  <2>1. PICK c \in Nodes : c = proc[n].contact
    BY DEF WholeInv, LaunchInv, ProcInv, ProcFits
  <2>2. OnceInv /\ LaunchInv
    BY DEF AskInv, WholeInv
  <2>3. Met(m, n)
    <3>1. CASE c = n
      BY <2>1, <2>2, <3>1, ContactReached, MetIsMutual
    <3>2. CASE c = m
      BY <2>1, <2>2, <3>2, ContactReached, MetIsMutual
    <3>3. CASE c # n /\ c # m
      <4>1. m \in node[n].peers /\ n \in node[m].peers
        BY <2>1, <2>2, <3>3, ContactIntroduces
      <4> QED BY <2>2, <4>1, OneReaches, MetIsMutual
    <3> QED BY <3>1, <3>2, <3>3
  <2> QED BY <2>3 DEF Met
<1> QED BY <1>1, WholeInit, WholeNext, AskInit, AskNext, ReunionInit, ReunionNext, PTL DEF Spec
=============================================================================
