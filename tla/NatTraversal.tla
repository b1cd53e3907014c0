---------------------------- MODULE NatTraversal ----------------------------
(***************************************************************************)
(* How nodes behind NATs find a way to each other: the hole puncher of     *)
(* network/nat.py on both ends and at the rendezvous, and the join         *)
(* sequence of sim/net_daemon.py that drives it - ask for the own public   *)
(* address, punch each wanted peer a few times, fall back to the relay.   *)
(* Every await of the sequence has a timeout, which may beat the answer or *)
(* lose to it; the runner gossips all the while.                           *)
(***************************************************************************)
EXTENDS Transport

\* A scenario adds SWARM_PUNCH_PEERS of every node (wanted), the attempts of
\* the retry loop, three in the code (attempts), and how much gossip is sent.
ASSUME NatTraversalAssumption ==
    \A s \in Scenarios :
        /\ \A n \in Natted : s.wanted[n] \in Seq(Natted \ {n})
        /\ s.attempts \in Nat \ {0} /\ s.gossip \in Nat

VARIABLES
    pc,             \* where main() is
    next,           \* index of the peer it punches
    attempt,        \* attempts before this one
    reflexive,      \* the node's own public address, as the rendezvous saw it
    reachable,      \* peers it completed a punch with
    listed,         \* discovery.peer_addrs at the rendezvous
    gossiped        \* for the bound

daemonVars == << pc, next, attempt >>
puncherVars == << reflexive, reachable, listed >>
vars == << transportVars, daemonVars, puncherVars, gossiped >>

Wanted(n) == scenario.wanted[n]
Peer(n) == Wanted(n)[next[n]]

-----------------------------------------------------------------------------
(* NetNode.start() has run: a joiner knows the rendezvous, by the DHT or   *)
(* by the address it was given, and takes it for its relay.                *)
Init ==
    /\ scenario \in Scenarios
    /\ port = [n \in Natted |-> 0] /\ holes = {} /\ wire = {} /\ copied = 0
    /\ sent = [n \in Nodes |-> 0]
    /\ bus = [n \in Nodes |->
                [addrs  |-> [p \in Nodes |-> IF p = Rendezvous /\ n # p THEN Home(p) ELSE Nowhere],
                 relays |-> IF EnableRelay /\ n # Rendezvous THEN << Rendezvous >> ELSE << >>,
                 only   |-> {}, seen |-> {}]]
    /\ handled = [n \in Nodes |-> {}] /\ twice = FALSE
    /\ pc = [n \in Natted |-> "joined"]
    /\ next = [n \in Natted |-> 1] /\ attempt = [n \in Natted |-> 0]
    /\ reflexive = [n \in Natted |-> Nowhere]
    /\ reachable = [n \in Nodes |-> {}]
    /\ listed = [p \in Nodes |-> Nowhere]
    /\ gossiped = 0

-----------------------------------------------------------------------------
(* NAT messages: pack_nat().                                               *)

Op(kind) == [kind |-> kind]
Addressed(kind, addr) == [kind |-> kind, addr |-> addr]
About(kind, p, addr) == [kind |-> kind, peer |-> p, addr |-> addr]

\* A node sends of its own accord.
SendNew(n, messages) ==
    /\ Transmit(n, Datagrams(n, bus[n], messages), {})
    /\ UNCHANGED << scenario, port, copied, handled, twice >>

\* dispatch(): the rendezvous lists the first address it sees of a node.
Listed(n, d) ==
    LET p == Inner(d).by
    IN  IF n = Rendezvous /\ listed[p] = Nowhere
        THEN [listed EXCEPT ![p] = After(n, d).addrs[p]] ELSE listed

\* A handler of n answers the envelope of d, its bus then being b.
Answer(n, d, b, messages) ==
    \E taken \in {{}, {d}} :
        /\ Delivers(n, d, taken)
        /\ bus' = [bus EXCEPT ![n] = b]
        /\ listed' = Listed(n, d)
        /\ Transmit(n, Datagrams(n, b, messages), taken)
        /\ UNCHANGED << scenario, port, gossiped >>

Punched(b, p, addr) == [b EXCEPT !.addrs[p] = addr]

-----------------------------------------------------------------------------
(* The handlers of HolePuncher.handle(), of an envelope of kind `kind`     *)

(* whoami: the rendezvous answers with the address it saw.                 *)
OnWhoami(n, d) ==
    LET b == After(n, d)
    IN  /\ Inner(d).body.kind = "whoami"
        /\ Answer(n, d, b, << Message(Inner(d).by, Addressed("whoami_resp", b.addrs[Inner(d).by])) >>)
        /\ UNCHANGED << daemonVars, reflexive, reachable >>

(* whoami_resp: only while discover_reflexive() waits for the first.       *)
OnWhoamiResp(n, d) ==
    /\ Inner(d).body.kind = "whoami_resp"
    /\ reflexive' = IF pc[n] = "whoami" /\ reflexive[n] = Nowhere
                    THEN [reflexive EXCEPT ![n] = Inner(d).body.addr] ELSE reflexive
    /\ Answer(n, d, After(n, d), << >>)
    /\ UNCHANGED << daemonVars, reachable >>

(* connect_req, _relay_connect(): both ends are told of each other.  The   *)
(* address listed by discovery goes before the one last seen.              *)
OnConnectReq(n, d) ==
    LET b == After(n, d)
        a == Inner(d).by
        p == Inner(d).body.peer
        target == IF listed[p] # Nowhere THEN listed[p] ELSE b.addrs[p]
    IN  /\ n = Rendezvous
        /\ Inner(d).body.kind = "connect_req"
        /\ IF target = Nowhere THEN Answer(n, d, b, << >>)
           ELSE Answer(n, d, Punched(b, p, target),
                       << Message(p, About("punch_req", a, b.addrs[a])),
                          Message(a, About("connect_resp", p, target)) >>)
        /\ UNCHANGED << daemonVars, reflexive, reachable >>

(* connect_resp and punch_req, _begin_punch(): the five packets count as   *)
(* one, which is lost when all are.                                        *)
OnPunchOrder(n, d) ==
    LET body == Inner(d).body
    IN  /\ body.kind \in {"connect_resp", "punch_req"}
        /\ Answer(n, d, Punched(After(n, d), body.peer, body.addr),
                  << Message(body.peer, Op("punch")) >>)
        /\ UNCHANGED << daemonVars, reflexive, reachable >>

(* punch: the sender is reachable, and told so.                            *)
OnPunch(n, d) ==
    /\ Inner(d).body.kind = "punch"
    /\ reachable' = [reachable EXCEPT ![n] = @ \cup {Inner(d).by}]
    /\ Answer(n, d, After(n, d), << Message(Inner(d).by, Op("punch_ack")) >>)
    /\ UNCHANGED << daemonVars, reflexive >>

OnPunchAck(n, d) ==
    /\ Inner(d).body.kind = "punch_ack"
    /\ reachable' = [reachable EXCEPT ![n] = @ \cup {Inner(d).by}]
    /\ Answer(n, d, After(n, d), << >>)
    /\ UNCHANGED << daemonVars, reflexive >>

(* Anything else, here gossip: what matters is that it came.               *)
OnGossip(n, d) ==
    /\ Inner(d).body.kind = "protos"
    /\ Answer(n, d, After(n, d), << >>)
    /\ UNCHANGED << daemonVars, reflexive, reachable >>

-----------------------------------------------------------------------------
(* The join sequence of main()                                             *)

(* discover_reflexive() asks ...                                           *)
AskReflexive(n) ==
    /\ pc[n] = "joined"
    /\ pc' = [pc EXCEPT ![n] = "whoami"]
    /\ SendNew(n, << Message(Rendezvous, Op("whoami")) >>)
    /\ UNCHANGED << bus, next, attempt, puncherVars, gossiped >>

\* Where main() goes on with peer i.
Goto(i, n) == IF i \in DOMAIN Wanted(n) THEN "punch" ELSE "running"

(* ... and has its answer or a timeout.                                    *)
ReflexiveEnds(n) ==
    /\ pc[n] = "whoami"
    /\ pc' = [pc EXCEPT ![n] = Goto(1, n)]
    /\ UNCHANGED << transportVars, next, attempt, puncherVars, gossiped >>

(* punch(): nothing to do for a reachable peer ...                         *)
AlreadyPunched(n) ==
    /\ pc[n] = "punch" /\ Peer(n) \in reachable[n]
    /\ pc' = [pc EXCEPT ![n] = Goto(next[n] + 1, n)]
    /\ next' = [next EXCEPT ![n] = @ + 1]
    /\ attempt' = [attempt EXCEPT ![n] = 0]
    /\ UNCHANGED << transportVars, puncherVars, gossiped >>

(* ... else the rendezvous is asked to connect the two.                    *)
RequestPunch(n) ==
    /\ pc[n] = "punch" /\ Peer(n) \notin reachable[n]
    /\ pc' = [pc EXCEPT ![n] = "punching"]
    /\ SendNew(n, << Message(Rendezvous, [kind |-> "connect_req", peer |-> Peer(n)]) >>)
    /\ UNCHANGED << bus, next, attempt, puncherVars, gossiped >>

(* The answer of punch(), by the future or by the timeout, is whether the  *)
(* peer is reachable now.                                                  *)
PunchSucceeds(n) ==
    /\ pc[n] = "punching" /\ Peer(n) \in reachable[n]
    /\ pc' = [pc EXCEPT ![n] = Goto(next[n] + 1, n)]
    /\ next' = [next EXCEPT ![n] = @ + 1]
    /\ attempt' = [attempt EXCEPT ![n] = 0]
    /\ UNCHANGED << transportVars, puncherVars, gossiped >>

\* Mutant of CountsAttempts: the loop goes on until the punch succeeds.
NeverGivesUp(i) == i

CountsAttempts(i) == i + 1

PunchTimesOut(n) ==
    /\ pc[n] = "punching" /\ Peer(n) \notin reachable[n]
    /\ pc' = [pc EXCEPT ![n] = "pause"]
    /\ attempt' = [attempt EXCEPT ![n] = CountsAttempts(@)]
    /\ UNCHANGED << transportVars, next, puncherVars, gossiped >>

(* The pause after a failed attempt ends: once more, or the relay, by what *)
(* the last attempt returned before the pause (mark_relay_only()).         *)
PauseEnds(n) ==
    /\ pc[n] = "pause"
    /\ IF attempt[n] < scenario.attempts
       THEN /\ pc' = [pc EXCEPT ![n] = "punch"]
            /\ UNCHANGED << bus, next, attempt >>
       ELSE /\ pc' = [pc EXCEPT ![n] = Goto(next[n] + 1, n)]
            /\ next' = [next EXCEPT ![n] = @ + 1]
            /\ attempt' = [attempt EXCEPT ![n] = 0]
            /\ bus' = IF EnableRelay /\ bus[n].relays # << >>
                      THEN [bus EXCEPT ![n].only = @ \cup {Peer(n)}] ELSE bus
    /\ UNCHANGED << natVars, wire, copied, sent, handled, twice, puncherVars, gossiped >>

(* The runner, started with the node, gossips to a peer.                   *)
Gossip(n, p) ==
    /\ p # n /\ gossiped < scenario.gossip
    /\ bus[n].addrs[p] # Nowhere
    /\ gossiped' = gossiped + 1
    /\ SendNew(n, << Message(p, Op("protos")) >>)
    /\ UNCHANGED << bus, daemonVars, puncherVars >>
-----------------------------------------------------------------------------
Join(n) ==
    \/ AskReflexive(n) \/ ReflexiveEnds(n)
    \/ AlreadyPunched(n) \/ RequestPunch(n) \/ PunchSucceeds(n) \/ PunchTimesOut(n)
    \/ PauseEnds(n)

Receive(n, d) ==
    \/ OnWhoami(n, d) \/ OnWhoamiResp(n, d) \/ OnConnectReq(n, d)
    \/ OnPunchOrder(n, d) \/ OnPunch(n, d) \/ OnPunchAck(n, d) \/ OnGossip(n, d)

Internet ==
    \/ \E n \in Nodes : \E d \in Inbox(n) : ForwardRelay(n, d)
    \/ \E d \in wire : Drop(d)
    \/ \E n \in Natted : RebindNat(n)

Next ==
    \/ \E n \in Natted : Join(n)
    \/ \E n \in Nodes : \E d \in Inbox(n) : Receive(n, d)
    \/ \E n \in Natted, p \in Nodes : Gossip(n, p)
    \/ Internet /\ UNCHANGED << daemonVars, puncherVars, gossiped >>

(* The event loop takes every step of the join sequence that stays         *)
(* possible: each of its awaits ends by a timeout of its own.  Nothing is  *)
(* assumed of the Internet.                                                *)
Fairness == \A n \in Natted : WF_vars(Join(n))

Spec == Init /\ [][Next]_vars /\ Fairness
-----------------------------------------------------------------------------
Addresses == [host : Nodes, port : 0 .. scenario.rebinds, for : Nodes \cup {"any"}] \cup {Nowhere}

TypeOK ==
    /\ scenario \in Scenarios
    /\ port \in [Natted -> 0 .. scenario.rebinds]
    /\ holes \subseteq Addresses \X Addresses
    /\ sent \in [Nodes -> 0 .. scenario.sends]
    /\ Cardinality(wire) <= InFlight
    /\ \A n \in Nodes :
        /\ bus[n].addrs \in [Nodes -> Addresses]
        /\ \A p \in Nodes : bus[n].addrs[p].host \in {p, "none"}
        /\ IsInjective(bus[n].relays) /\ ToSet(bus[n].relays) \subseteq Nodes \ {n}
        /\ bus[n].only \subseteq Nodes \ {n}
        /\ reachable[n] \subseteq Nodes \ {n}
    /\ \A n \in Natted :
        /\ pc[n] \in {"joined", "whoami", "punch", "punching", "pause", "running"}
        /\ next[n] \in 1 .. Len(Wanted(n)) + 1 /\ attempt[n] \in 0 .. scenario.attempts
        /\ reflexive[n] \in Addresses

(* A message reaches the handler of a node at most once, whichever way it  *)
(* came: duplicates of the datagram, of the relay's wrapper and of what it *)
(* wraps are all refused by the one replay guard.                          *)
HandledOnce == ~ twice

\* n has sent something straight to p, and so lets its answers in.
Dialled(n, p) == \E h \in holes : h[1].host = n /\ h[2].host = p

(* Hole punching takes both sides: while no NAT changes its port, a peer   *)
(* counts as reachable only if the node dialled it too, unless the relay   *)
(* brought its punch - and then the node answers by the relay as well.     *)
PunchedOrRelayed ==
    scenario.rebinds = 0 =>
        \A n \in Natted : \A p \in reachable[n] \cap Natted : Dialled(n, p) \/ p \in bus[n].only

(* However answers and timeouts race, and whatever is lost, every node     *)
(* gets through its join sequence.                                         *)
JoinEnds == \A n \in Natted : <>(pc[n] = "running")
=============================================================================
