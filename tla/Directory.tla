------------------------------ MODULE Directory ------------------------------
(***************************************************************************)
(* How the nodes of a swarm find each other: adverts in the DHT and peer   *)
(* exchange (network/discovery.py), and the NetNode that starts with one   *)
(* contact and learns the rest from what it hears (node/net_node.py,       *)
(* node/runner.py).  kademlia is external: a node is linked to the DHT of  *)
(* its contact, or to none.  A process that starts again has a new port    *)
(* and has forgotten everything.  Topic hints are left out.                *)
(***************************************************************************)
EXTENDS Integers, Sequences, FiniteSets, FiniteSetsExt

CONSTANTS
    Processes,      \* bound: nodes that run
    STALE_AFTER_S,  \* in the unit of the clock
    LookupRounds,   \* rounds of FAST_RETRY_S that start() looks for its contact
    Scenarios       \* bounds and inputs, see `scenario`

ASSUME DirectoryAssumption == Processes \in Nat \ {0} /\ {STALE_AFTER_S, LookupRounds} \subseteq Nat

\* A machine has a name that is neither the loopback's nor nobody's.
ASSUME ScenarioAssumption ==
    \A s \in Scenarios :
        /\ {s.until, s.inFlight} \subseteq Nat
        /\ s.beacons \subseteq 0 .. Processes - 1
        /\ \A n \in 0 .. Processes - 1 : s.machine[n] \notin {"loopback", "none"}

Nodes == 0 .. Processes - 1

VARIABLES
    scenario,   \* of this behaviour: the machine of each node, whether all of
                \* them talk over the loopback (local), whether DHT lookups may
                \* fail (flaky), whether start() is told the address of the
                \* contact (told), the beacons, how far the clock goes (until), how
                \* many datagrams are on their way at once (inFlight; the others are
                \* lost), and what the launchers add
    now,
    proc,       \* of a node: its process, its life (restarts count), its
                \* contact, which is the node itself if it has none
    node,       \* of a node: SwarmNode.peers, bus.peer_addrs (bus),
                \* discovery.peer_addrs (disc) and peer_seen_at (seen)
    advert,     \* the address in the advert the DHT holds of a node
    wire,       \* the datagrams on their way
    heard       \* history: when a beacon last handled a datagram of a node

directoryVars == << scenario, now, proc, node, advert, wire, heard >>

-----------------------------------------------------------------------------
(* Addresses                                                               *)

Loopback == "loopback"
Address(host, n, life) == [host |-> host, of |-> n, life |-> life]
Nowhere == Address("none", 0, 0)
Never == -1

\* The address n is dialled at, and the one m sees its datagrams come from.
Advertised(n, life) == Address(IF scenario.local THEN Loopback ELSE scenario.machine[n], n, life)
Observed(m, n, life) ==
    Address(IF scenario.machine[m] = scenario.machine[n] THEN Loopback ELSE scenario.machine[n], n, life)

Up(n) == proc[n].state = "up"
Down(n) == proc[n].state = "down"

(* A datagram from n to address a reaches a live process.                  *)
Reaches(n, a) ==
    /\ a # Nowhere /\ ~ Down(a.of) /\ proc[a.of].life = a.life
    /\ a.host \in {scenario.machine[a.of], IF scenario.machine[n] = scenario.machine[a.of] THEN Loopback ELSE Nowhere.host}

Known(addrs) == {m \in Nodes : addrs[m] # Nowhere}
Unknown == [m \in Nodes |-> Nowhere]
Newborn == [peers |-> {}, bus |-> Unknown, disc |-> Unknown, seen |-> [m \in Nodes |-> Never]]

-----------------------------------------------------------------------------
(* Adverts                                                                 *)

Neighbours(n) ==
    {m \in Nodes \ {n} : ~ Down(m) /\ proc[m].linked /\ proc[m].contact = proc[n].contact}

Published(n) == advert[n] = Advertised(n, proc[n].life)

(* _publish_advert(): there must be somebody to store it.                  *)
PublishAdvert(n, life, neighbours) ==
    advert' = IF neighbours = {} THEN advert ELSE [advert EXCEPT ![n] = Advertised(n, life)]

(* _expire_stale(): bus.peer_addrs and peers are left alone, and so is an  *)
(* address that was never stamped.                                         *)
ExpireStale(b) ==
    LET stale == {m \in Nodes : b.seen[m] # Never /\ now - b.seen[m] > STALE_AFTER_S}
    IN  [b EXCEPT !.disc = [m \in Nodes |-> IF m \in stale THEN Nowhere ELSE @[m]],
                  !.seen = [m \in Nodes |-> IF m \in stale THEN Never ELSE @[m]]]

(* _refresh_loop(): every FAST_RETRY_S until the advert is out, and then   *)
(* every ADVERT_REFRESH_S.                                                 *)
FastRetry(n) ==
    /\ ~ Down(n) /\ ~ Published(n) /\ proc[n].linked
    /\ Neighbours(n) # {}
    /\ PublishAdvert(n, proc[n].life, Neighbours(n))
    /\ UNCHANGED << scenario, now, proc, node, wire, heard >>

Refresh(n) ==
    /\ ~ Down(n) /\ Published(n)
    /\ PublishAdvert(n, proc[n].life, Neighbours(n))
    /\ node' = [node EXCEPT ![n] = ExpireStale(@)]
    /\ UNCHANGED << scenario, now, proc, wire, heard >>

-----------------------------------------------------------------------------
(* Starting and stopping                                                   *)

(* NetNode.start() up to the lookups: discovery.start() publishes once.    *)
Start(n, contact, linked) ==
    LET life == proc[n].life + 1
        neighbours == {m \in Nodes \ {n} : linked /\ ~ Down(m) /\ proc[m].linked /\ proc[m].contact = contact}
    IN  /\ Down(n)
        /\ proc' = [proc EXCEPT ![n] = [state |-> IF contact = n THEN "up" ELSE "starting", life |-> life,
                                        contact |-> contact, linked |-> linked, tries |-> 0]]
        /\ node' = [node EXCEPT ![n] = Newborn]
        /\ heard' = [heard EXCEPT ![n] = [m \in Nodes |-> Never]]
        /\ PublishAdvert(n, life, neighbours)
        /\ UNCHANGED << scenario, now, wire >>

Joined(n, b) == proc' = [proc EXCEPT ![n].state = "up"] /\ node' = [node EXCEPT ![n] = b]

(* lookup() finds the contact: _ingest_advert(), and then start() dials    *)
(* it.                                                                     *)
LookupFinds(n) ==
    LET c == proc[n].contact
        b == [node[n] EXCEPT !.disc[c] = advert[c], !.seen[c] = now,
                             !.bus[c] = advert[c], !.peers = @ \cup {c}]
    IN  /\ proc[n].state = "starting" /\ proc[n].tries < LookupRounds
        /\ proc[n].linked /\ advert[c] # Nowhere
        /\ Joined(n, b)
        /\ UNCHANGED << scenario, now, advert, wire, heard >>

\* The contact publishes within the first round once it has a neighbour.
MayFail(n) ==
    scenario.flaky \/ ~ proc[n].linked \/ (advert[proc[n].contact] = Nowhere /\ proc[n].tries = 0)

LookupFails(n) ==
    /\ proc[n].state = "starting" /\ MayFail(n)
    /\ proc[n].tries < LookupRounds
    /\ proc' = [proc EXCEPT ![n].tries = @ + 1]
    /\ UNCHANGED << scenario, now, node, advert, wire, heard >>

(* The last lookup failed: the contact's address as the caller knows it,   *)
(* without a stamp, or no peer at all.                                     *)
FallBack(n) ==
    LET c == proc[n].contact
        addr == Advertised(c, proc[c].life)
        b == [node[n] EXCEPT !.disc[c] = IF @ = Nowhere THEN addr ELSE @,
                             !.bus[c] = addr, !.peers = @ \cup {c}]
    IN  /\ proc[n].state = "starting" /\ proc[n].tries = LookupRounds
        /\ Joined(n, IF scenario.told THEN b ELSE node[n])
        /\ UNCHANGED << scenario, now, advert, wire, heard >>

(* NetNode.stop(), or the end of the process.                              *)
Stopped(ns) == proc' = [n \in Nodes |-> IF n \in ns THEN [proc[n] EXCEPT !.state = "down"] ELSE proc[n]]

-----------------------------------------------------------------------------
(* Datagrams                                                               *)

Datagram(n, m, kind, list) ==
    [by |-> n, life |-> proc[n].life, dst |-> node[n].bus[m], kind |-> kind, list |-> list]

(* What the wire takes of some datagrams; the rest is lost.                *)
Transmit(out) ==
    \E kept \in SUBSET {d \in out : d.dst # Nowhere} :
        wire' = wire \cup kept /\ Cardinality(wire') <= scenario.inFlight

(* One round of _loop(): gossip_step(), or feed_and_pex() with the         *)
(* addresses of pex_payload(), to a peer picked at random.                 *)
Round(n, m, kind) ==
    /\ Up(n) /\ m \in node[n].peers
    /\ kind \in {"protos", "pex"}
    /\ wire' = wire \cup {Datagram(n, m, kind, IF kind = "pex" THEN node[n].disc ELSE Unknown)}
    /\ Cardinality(wire') <= scenario.inFlight
    /\ UNCHANGED << scenario, now, proc, node, advert, heard >>

\* Mutants of Hears: only what nobody heard of is noted; no stamp.
HearsOnce(b, src) == [b EXCEPT !.bus[src.of] = IF @ = Nowhere THEN src ELSE @, !.peers = @ \cup {src.of},
                               !.disc[src.of] = IF @ = Nowhere THEN src ELSE @, !.seen[src.of] = now]
HearsUnstamped(b, src) == [b EXCEPT !.bus[src.of] = src, !.peers = @ \cup {src.of},
                                    !.disc[src.of] = IF @ = Nowhere THEN src ELSE @]

(* The bus learns the address of the sender and dispatch() the sender; the *)
(* address of the discovery stays the first one.                           *)
Hears(b, src) ==
    [b EXCEPT !.bus[src.of] = src, !.peers = @ \cup {src.of},
              !.disc[src.of] = IF @ = Nowhere THEN src ELSE @, !.seen[src.of] = now]

\* Mutant of IngestPex: a node takes itself for a peer.
IngestAll(n, b, list) ==
    LET new == {m \in Nodes : list[m] # Nowhere /\ b.disc[m] = Nowhere}
    IN  [b EXCEPT !.disc = [m \in Nodes |-> IF m \in new THEN list[m] ELSE @[m]],
                  !.seen = [m \in Nodes |-> IF m \in new THEN now ELSE @[m]]]

(* ingest_pex() stamps what it is told of as fresh.                        *)
IngestPex(n, b, list) ==
    LET new == {m \in Nodes \ {n} : list[m] # Nowhere /\ b.disc[m] = Nowhere}
    IN  [b EXCEPT !.disc = [m \in Nodes |-> IF m \in new THEN list[m] ELSE @[m]],
                  !.seen = [m \in Nodes |-> IF m \in new THEN now ELSE @[m]]]

(* _on_pex(): all that the discovery knows becomes a peer.                 *)
OnPex(n, b, list) ==
    LET i == IngestPex(n, b, list)
    IN  [i EXCEPT !.peers = @ \cup Known(i.disc),
                  !.bus = [m \in Nodes |-> IF @[m] = Nowhere THEN i.disc[m] ELSE @[m]]]

(* dispatch() at n of what is not for the federation.                      *)
Dispatch(n, d) ==
    LET b == Hears(node[n], Observed(n, d.by, d.life))
    IN  IF d.kind = "pex" THEN OnPex(n, b, d.list) ELSE b

Arrives(d) == d \in wire /\ Reaches(d.by, d.dst) /\ wire' = wire \ {d}

Heard(n, m) == heard' = IF n \in scenario.beacons THEN [heard EXCEPT ![n][m] = now] ELSE heard

Receive(d) ==
    /\ Arrives(d) /\ d.kind \in {"protos", "pex"}
    /\ node' = [node EXCEPT ![d.dst.of] = Dispatch(d.dst.of, d)]
    /\ Heard(d.dst.of, d.by)
    /\ UNCHANGED << scenario, now, proc, advert >>

Vanish(d) ==
    /\ d \in wire /\ ~ Reaches(d.by, d.dst)
    /\ wire' = wire \ {d}
    /\ UNCHANGED << scenario, now, proc, node, advert, heard >>

Tick ==
    /\ now < scenario.until /\ now' = now + 1
    /\ UNCHANGED << scenario, proc, node, advert, wire, heard >>

DirectoryInit ==
    /\ scenario \in Scenarios
    /\ now = 0
    /\ proc = [n \in Nodes |-> [state |-> "down", life |-> 0, contact |-> n, linked |-> FALSE, tries |-> 0]]
    /\ node = [n \in Nodes |-> Newborn]
    /\ advert = Unknown
    /\ wire = {}
    /\ heard = [n \in Nodes |-> [m \in Nodes |-> Never]]

DirectoryNext ==
    \/ \E n \in Nodes : FastRetry(n) \/ Refresh(n) \/ LookupFinds(n) \/ LookupFails(n) \/ FallBack(n)
    \/ \E n, m \in Nodes, kind \in {"protos", "pex"} : Round(n, m, kind)
    \/ \E d \in wire : Receive(d) \/ Vanish(d)
    \/ Tick

\* Nothing that a node could hear from another would change what it knows.
Settled ==
    /\ wire = {}
    /\ \A n \in Nodes : proc[n].state # "starting"
    /\ \A n, m \in Nodes :
        Up(n) /\ m \in node[n].peers /\ Reaches(n, node[n].bus[m])
        => LET after == Dispatch(m, Datagram(n, m, "pex", node[n].disc))
           IN  after.peers = node[m].peers /\ after.bus = node[m].bus /\ after.disc = node[m].disc

DirectoryTypeOK ==
    /\ now \in 0 .. scenario.until
    /\ \A n \in Nodes :
        /\ proc[n].state \in {"down", "starting", "up"} /\ proc[n].tries \in 0 .. LookupRounds
        /\ n \notin node[n].peers
        /\ n \notin Known(node[n].disc) \cup Known(node[n].bus)
        \* Only a contact that start() was told of has an address and no stamp.
        /\ \A m \in Nodes : node[n].seen[m] = Never =>
            \/ node[n].disc[m] = Nowhere
            \/ m = proc[n].contact /\ scenario.told
        /\ \A m \in Nodes : node[n].seen[m] # Never => node[n].disc[m] # Nowhere
        /\ \A m \in node[n].peers : node[n].bus[m] # Nowhere
    /\ Cardinality(wire) <= scenario.inFlight
=============================================================================
