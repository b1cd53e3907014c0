----------------------------- MODULE Federation -----------------------------
(***************************************************************************)
(* The directory of beacons (network/federation.py): every beacon holds it *)
(* whole, signs its own advert anew in every round, gossips all adverts it *)
(* holds verbatim, probes the others with pings, and lets entries expire.  *)
(* The part of the bus it rests on is modelled too: bus.peer_addrs, which  *)
(* decides where a datagram goes.                                          *)
(*                                                                         *)
(* The unit of time is one federation round (FEDERATION_EVERY_N_ROUNDS     *)
(* gossip rounds): every running beacon takes one in each unit, in any     *)
(* order.  Timestamps of different beacons are never compared, so one      *)
(* clock stands for all of theirs.  Datagrams are lost, delayed and        *)
(* reordered; the bus's own replay guard delivers each at most once.       *)
(***************************************************************************)
EXTENDS Integers, FiniteSets, FiniteSetsExt

CONSTANTS
    Beacons,
    Genesis,        \* the beacon the others bootstrap from
    Space,          \* own["space_fp"] of every beacon
    NoSpace,        \* the empty fingerprint
    BeaconTTL,      \* BEACON_TTL_S
    ReachableTTL,   \* REACHABLE_TTL_S
    BlobGroup,      \* GOSSIP_BLOB_GROUP
    MaxDelay,       \* bound: a datagram arrives within this time or is lost
    Scenarios       \* bounds, see `scenario`

ASSUME FederationAssumption ==
    /\ IsFiniteSet(Beacons) /\ Genesis \in Beacons
    /\ DOMAIN Space = Beacons
    /\ {BeaconTTL, ReachableTTL, BlobGroup} \subseteq Nat \ {0}     \* 90 and 45 s, a round is 16 s
    /\ MaxDelay \in Nat
    /\ IsFiniteSet(Scenarios) /\ Scenarios # {}
    /\ \A s \in Scenarios :
        /\ s.beacons \subseteq Beacons
        /\ {s.inFlight, s.crashes, s.closed, s.time} \subseteq Nat

MaxTime == Max({s.time : s \in Scenarios})
Time == 0 .. MaxTime

Never == -1    \* None as a time

\* A signed advert.  A beacon signs at most one in a unit of time, so the pair
\* also stands for the nonce of its envelope.
Advert == [id : Beacons, ts : Time]

\* What bus.peer_addrs holds for a peer: nothing, the source address of its
\* last datagram, or the address it advertises.
Address == {"unknown", "observed", "advertised"}

VARIABLES
    scenario,   \* the bounds of this behaviour: the beacons that run, the datagrams
                \* in flight, the crashes, the firewalls that close and the time
    now,
    up,         \* the running beacons
    rounds,     \* the beacons that had their round in this unit of time
    announced,  \* _did_register
    registry,   \* registry.beacons: for the beacons known, [ts, seen, reachable, pong]
    spent,      \* replay_guard: the adverts ever verified
    pending,    \* _pending_pings, those a pong may still answer: [id, at, probe] is a nonce
    bridged,    \* _bridged
    addrs,      \* bus.peer_addrs
    network,    \* the datagrams on their way
    closed,     \* when the firewall of a beacon closed its advertised address
    \* History, read by no action:
    died,       \* when a beacon that is down crashed
    restarted,  \* when a beacon restarted last
    crashes     \* for the bound

beaconVars == << announced, registry, spent, pending, bridged, addrs >>
vars == << scenario, now, up, rounds, beaconVars, network, closed, died, restarted, crashes >>

NoBeacons == [i \in {} |-> Never]

\* bus.peer_addrs of a beacon that has just started.
FreshAddrs(b) == [c \in Beacons |-> IF c = Genesis /\ b # Genesis
                                    THEN "advertised" ELSE "unknown"]

Init ==
    /\ scenario \in Scenarios
    /\ now = 0 /\ up = scenario.beacons /\ rounds = {} /\ network = {}
    /\ announced = [b \in Beacons |-> FALSE]
    /\ registry = [b \in Beacons |-> NoBeacons]
    /\ spent = [b \in Beacons |-> {}]
    /\ pending = [b \in Beacons |-> {}]
    /\ bridged = [b \in Beacons |-> {}]
    /\ addrs = [b \in Beacons |-> FreshAddrs(b)]
    /\ closed = [b \in Beacons |-> Never]
    /\ died = [b \in Beacons |-> Never] /\ restarted = [b \in Beacons |-> Never]
    /\ crashes = 0

-----------------------------------------------------------------------------
(* The bus                                                                 *)

(* UdpBus.send() puts a datagram on the wire when it has an address.  One  *)
(* to an advertised address that accepts nothing is lost; one to the       *)
(* source of an earlier datagram passes the NAT it came through.           *)
Routed(address, c) ==
    address = "observed" \/ (address = "advertised" /\ closed[c] = Never)

(* Of the datagrams sent, any may be lost.                                 *)
Transmit(sent) ==
    \E kept \in SUBSET sent :
        /\ Cardinality(network \cup kept) <= scenario.inFlight
        /\ network' = network \cup kept

\* The same, by a handler that took m from the network.
Reply(m, sent) ==
    \E kept \in SUBSET sent :
        /\ Cardinality((network \ {m}) \cup kept) <= scenario.inFlight
        /\ network' = (network \ {m}) \cup kept

Gossip(b, c, blobs) == [kind |-> "gossip", from |-> b, to |-> c, blobs |-> blobs, at |-> now]
Ping(b, c, nonce)   == [kind |-> "ping", from |-> b, to |-> c, nonce |-> nonce, at |-> now]
Pong(b, c, nonce)   == [kind |-> "pong", from |-> b, to |-> c, nonce |-> nonce, at |-> now]

Nonce(c, probe) == [id |-> c, at |-> now, probe |-> probe]

\* The code never forgets the nonce of a ping that was lost; nothing can
\* present it again, so that the model does.
Awaited(nonces) ==
    [b \in Beacons |-> nonces[b] \cap {m.nonce : m \in {d \in network' : d.kind # "gossip"}}]

(* _send_blobs(): split into datagrams, never truncated.                   *)
Groups(blobs) ==
    IF Cardinality(blobs) <= BlobGroup THEN {blobs}
    ELSE {g \in SUBSET blobs : Cardinality(g) \in 1 .. BlobGroup}

SendBlobs(b, c, blobs) == {Gossip(b, c, g) : g \in Groups(blobs)}

-----------------------------------------------------------------------------
(* The registry                                                            *)

\* Mutant of Recorded: whatever comes last wins.
LastWins(known, adverts) ==
    [i \in DOMAIN known \cup {a.id : a \in adverts} |->
        IF i \in {a.id : a \in adverts}
        THEN [ts |-> (CHOOSE a \in adverts : a.id = i).ts, seen |-> now,
              reachable |-> i \in DOMAIN known /\ known[i].reachable,
              pong |-> IF i \in DOMAIN known THEN known[i].pong ELSE Never]
        ELSE known[i]]

(* record(): newest wins; reachability is carried over.                    *)
Recorded(known, adverts) ==
    LET stored == {a \in adverts : a.id \in DOMAIN known => a.ts >= known[a.id].ts}
        newest(i) == CHOOSE a \in stored :
                        a.id = i /\ \A c \in stored : c.id = i => c.ts <= a.ts
        entry(i) == [ts |-> newest(i).ts, seen |-> now,
                     reachable |-> i \in DOMAIN known /\ known[i].reachable,
                     pong |-> IF i \in DOMAIN known THEN known[i].pong ELSE Never]
        ids == {a.id : a \in stored}
    IN  [i \in DOMAIN known \cup ids |-> IF i \in ids THEN entry(i) ELSE known[i]]

(* mark_reachable(); it does nothing for a beacon that is not listed.      *)
MarkedReachable(known, i) ==
    IF i \in DOMAIN known THEN [known EXCEPT ![i].reachable = TRUE, ![i].pong = now]
    ELSE known

\* Mutants of Expired: only the entry itself expires; what once answered a
\* ping is kept.
KeepsItsClaim(known) == [i \in {j \in DOMAIN known : now - known[j].seen <= BeaconTTL} |-> known[i]]

KeepsTheReachable(known) ==
    [i \in {j \in DOMAIN known : known[j].reachable \/ now - known[j].seen <= BeaconTTL} |-> known[i]]

(* expire(): reachability decays before the entry itself.                  *)
Expired(known) ==
    [i \in {j \in DOMAIN known : now - known[j].seen <= BeaconTTL} |->
        IF known[i].reachable /\ known[i].pong # Never /\ now - known[i].pong > ReachableTTL
        THEN [known[i] EXCEPT !.reachable = FALSE]
        ELSE known[i]]

(* _maybe_bridge(): those of `ids` that become gossip peers now.           *)
ToBridge(b, known, ids) ==
    {i \in ids \cap DOMAIN known :
        /\ i \notin bridged[b] /\ known[i].reachable
        /\ Space[b] # NoSpace /\ Space[i] = Space[b]}

\* peer_addrs after on_bridge: info.addr, the advertised address.
BridgedAddrs(peer_addrs, ids) ==
    [c \in Beacons |-> IF c \in ids THEN "advertised" ELSE peer_addrs[c]]

-----------------------------------------------------------------------------
(* Rounds                                                                  *)

(* announce_to_genesis(), once after every start.                          *)
Announce(b) ==
    /\ b \in up \ rounds
    /\ b # Genesis /\ ~ announced[b]
    /\ Transmit({Gossip(b, c, {[id |-> b, ts |-> now]}) :
                    c \in {g \in {Genesis} : Routed(addrs[b][g], g)}})
    /\ announced' = [announced EXCEPT ![b] = TRUE]
    /\ rounds' = rounds \cup {b}
    /\ UNCHANGED << scenario, now, up, registry, spent, pending, bridged, addrs,
                    closed, died, restarted, crashes >>

(* tick(): push every advert, ping every beacon known, bridge, expire.     *)
(* The fan-out is subsumed by loss.                                        *)
Tick(b) ==
    LET known   == registry[b]
        blobs   == {[id |-> b, ts |-> now]} \cup {[id |-> i, ts |-> known[i].ts] : i \in DOMAIN known}
        targets == DOMAIN known \cup ({Genesis} \ {b})
        reach   == {c \in targets : Routed(addrs[b][c], c)}
        bridges == ToBridge(b, known, DOMAIN known)
    IN  /\ b \in up \ rounds
        /\ b = Genesis \/ announced[b]
        /\ Transmit((UNION {SendBlobs(b, c, blobs) : c \in reach})
                    \cup {Ping(b, c, Nonce(c, FALSE)) : c \in reach \cap DOMAIN known})
        /\ pending' = Awaited([pending EXCEPT ![b] = @ \cup {Nonce(c, FALSE) : c \in DOMAIN known}])
        /\ bridged' = [bridged EXCEPT ![b] = @ \cup bridges]
        /\ addrs' = [addrs EXCEPT ![b] = BridgedAddrs(@, bridges)]
        /\ registry' = [registry EXCEPT ![b] = Expired(known)]
        /\ rounds' = rounds \cup {b}
        /\ UNCHANGED << scenario, now, up, announced, spent, closed, died, restarted, crashes >>

-----------------------------------------------------------------------------
(* Datagrams.  UdpBus._on_datagram learns the sender's address first.      *)

Learned(b, m) == [addrs[b] EXCEPT ![m.from] = "observed"]

\* Mutants of Fresh: no replay guard; a beacon takes its own advert.
FreshOrNot(b, blobs) == {a \in blobs : a.id # b}
FreshOrOwn(b, blobs) == {a \in blobs : a \notin spent[b]}

(* The adverts of a datagram that are taken: verified for the first time,  *)
(* and not the beacon's own.                                               *)
Fresh(b, blobs) == {a \in blobs : a \notin spent[b] /\ a.id # b}

(* _on_gossip(): each is recorded, and its address is dialled from now on. *)
OnGossip(m) ==
    LET b     == m.to
        fresh == Fresh(b, m.blobs)
        after == Recorded(registry[b], fresh)
        new   == DOMAIN after \ DOMAIN registry[b]
        addressed == [c \in Beacons |->
            IF c \in {a.id : a \in fresh} THEN "advertised" ELSE Learned(b, m)[c]]
    IN  /\ m \in network /\ m.kind = "gossip" /\ b \in up
        /\ spent' = [spent EXCEPT ![b] = @ \cup m.blobs]
        /\ registry' = [registry EXCEPT ![b] = after]
        /\ addrs' = [addrs EXCEPT ![b] = addressed]
        /\ Reply(m, {Ping(b, c, Nonce(c, TRUE)) : c \in {i \in new : Routed(addressed[i], i)}})
        /\ pending' = Awaited([pending EXCEPT ![b] = @ \cup {Nonce(c, TRUE) : c \in new}])
        /\ UNCHANGED << scenario, now, up, rounds, announced, bridged, closed, died, restarted, crashes >>

(* _on_ping() of a ping: answer it, to where it came from.                 *)
OnPing(m) ==
    /\ m \in network /\ m.kind = "ping" /\ m.to \in up
    /\ addrs' = [addrs EXCEPT ![m.to] = Learned(m.to, m)]
    /\ Reply(m, {Pong(m.to, m.from, m.nonce)})
    /\ pending' = Awaited(pending)
    /\ UNCHANGED << scenario, now, up, rounds, announced, registry, spent, bridged,
                    closed, died, restarted, crashes >>

(* _on_ping() of a pong: what the nonce was sent to is reachable, and      *)
(* bridged when it lives in the same space.                                *)
OnPong(m) ==
    LET b       == m.to
        awaited == m.nonce \in pending[b]
        after   == IF awaited THEN MarkedReachable(registry[b], m.nonce.id) ELSE registry[b]
        bridges == IF awaited THEN ToBridge(b, after, {m.nonce.id}) ELSE {}
    IN  /\ m \in network /\ m.kind = "pong" /\ b \in up
        /\ registry' = [registry EXCEPT ![b] = after]
        /\ bridged' = [bridged EXCEPT ![b] = @ \cup bridges]
        /\ addrs' = [addrs EXCEPT ![b] = BridgedAddrs(Learned(b, m), bridges)]
        /\ Reply(m, {})
        /\ pending' = Awaited(pending)
        /\ UNCHANGED << scenario, now, up, rounds, announced, spent, closed, died, restarted, crashes >>

-----------------------------------------------------------------------------
(* Crashes, restarts and time                                              *)

Crash(b) ==
    /\ b \in up /\ crashes < scenario.crashes
    /\ up' = up \ {b} /\ died' = [died EXCEPT ![b] = now] /\ crashes' = crashes + 1
    /\ UNCHANGED << scenario, now, rounds, beaconVars, network, closed, restarted >>

(* Nothing but the identity survives a restart.                            *)
Restart(b) ==
    /\ b \in scenario.beacons \ up
    /\ up' = up \cup {b} /\ died' = [died EXCEPT ![b] = Never]
    /\ restarted' = [restarted EXCEPT ![b] = now]
    /\ announced' = [announced EXCEPT ![b] = FALSE]
    /\ registry' = [registry EXCEPT ![b] = NoBeacons]
    /\ spent' = [spent EXCEPT ![b] = {}]
    /\ pending' = [pending EXCEPT ![b] = {}]
    /\ bridged' = [bridged EXCEPT ![b] = {}]
    /\ addrs' = [addrs EXCEPT ![b] = FreshAddrs(b)]
    /\ UNCHANGED << scenario, now, rounds, network, closed, crashes >>

(* A firewall closes: the advertised address accepts no inbound datagrams  *)
(* from now on, but the answers to outbound ones still get in.             *)
CloseFirewall(b) ==
    /\ b \in scenario.beacons
    /\ closed[b] = Never /\ Cardinality({i \in Beacons : closed[i] # Never}) < scenario.closed
    /\ closed' = [closed EXCEPT ![b] = now]
    /\ UNCHANGED << scenario, now, up, rounds, beaconVars, network, died, restarted, crashes >>

\* The adverts some beacon could still send.
Alive(datagrams) ==
    (UNION {{[id |-> i, ts |-> registry[b][i].ts] : i \in DOMAIN registry[b]} : b \in Beacons})
    \cup (UNION {m.blobs : m \in {d \in datagrams : d.kind = "gossip"}})

(* The next unit of time.  The adverts nobody can send any more leave the  *)
(* replay guards, which no step can notice; the code keeps them.           *)
Advance ==
    /\ now < scenario.time /\ up \subseteq rounds
    /\ now' = now + 1 /\ rounds' = {}
    /\ network' = {m \in network : now' - m.at <= MaxDelay}
    /\ pending' = Awaited(pending)
    /\ spent' = [b \in Beacons |-> spent[b] \cap Alive(network')]
    /\ UNCHANGED << scenario, up, announced, registry, bridged, addrs, closed, died, restarted, crashes >>

Next ==
    \/ \E b \in Beacons : Announce(b) \/ Tick(b) \/ Crash(b) \/ Restart(b) \/ CloseFirewall(b)
    \/ \E m \in network : OnGossip(m) \/ OnPing(m) \/ OnPong(m)
    \/ Advance

Spec == Init /\ [][Next]_vars
-----------------------------------------------------------------------------
(* Types                                                                   *)

Nonces == [id : Beacons, at : Time, probe : BOOLEAN]

Entry == [ts : Time, seen : Time, reachable : BOOLEAN, pong : Time \cup {Never}]

Datagram ==
    [kind : {"gossip"}, from : Beacons, to : Beacons, blobs : SUBSET Advert, at : Time]
    \cup [kind : {"ping", "pong"}, from : Beacons, to : Beacons, nonce : Nonces, at : Time]

(* The shape of the state.  A beacon never lists itself.                   *)
TypeOK ==
    /\ scenario \in Scenarios
    /\ now \in 0 .. scenario.time /\ up \subseteq scenario.beacons /\ rounds \subseteq Beacons
    /\ announced \in [Beacons -> BOOLEAN]
    /\ DOMAIN registry = Beacons
    /\ \A b \in Beacons : /\ DOMAIN registry[b] \subseteq Beacons \ {b}
                          /\ \A i \in DOMAIN registry[b] : registry[b][i] \in Entry
    /\ spent \in [Beacons -> SUBSET Advert]
    /\ pending \in [Beacons -> SUBSET Nonces]
    /\ bridged \in [Beacons -> SUBSET Beacons]
    /\ addrs \in [Beacons -> [Beacons -> Address]]
    /\ \A m \in network : m \in Datagram
    /\ closed \in [Beacons -> Time \cup {Never}]
    /\ died \in [Beacons -> Time \cup {Never}]
    /\ restarted \in [Beacons -> Time \cup {Never}]
    /\ crashes \in 0 .. scenario.crashes

-----------------------------------------------------------------------------
(* Safety                                                                  *)

(* A beacon listed as reachable is running, or crashed so recently that    *)
(* the pong of its last moment is within REACHABLE_TTL_S.                  *)
ReachableWasUp ==
    \A b \in up : \A c \in DOMAIN registry[b] :
        registry[b][c].reachable =>
            c \in up \/ now - died[c] <= ReachableTTL + 1 + MaxDelay

(* Gossip that arrives out of order never takes a listed beacon back to an *)
(* older advert.                                                           *)
StaleNeverWins ==
    [][ \A b \in up \cap up' : \A c \in DOMAIN registry[b] \cap DOMAIN registry'[b] :
            registry'[b][c].ts >= registry[b][c].ts ]_vars

(* The comment on REACHABLE_TTL_S: a beacon stays known while "its direct  *)
(* pong goes quiet (firewall closed, host down)".  So a beacon that closed *)
(* its advertised address longer ago than that is not listed as reachable. *)
ClosedGoesQuiet ==
    \A b \in up : \A c \in DOMAIN registry[b] :
        registry[b][c].reachable =>
            closed[c] = Never \/ now - closed[c] <= ReachableTTL + 1 + MaxDelay

-----------------------------------------------------------------------------
(* What is promised of the adverts of each beacon                          *)

\* What b lists of c, in AdvertLife's terms.
ListedOf(c) ==
    [b \in Beacons |-> IF c \in DOMAIN registry[b]
                       THEN [ts |-> registry[b][c].ts, seen |-> registry[b][c].seen]
                       ELSE [ts |-> Never, seen |-> Never]]

\* The times at which c signed those of `adverts` that are its own.
SignedBy(c, adverts) == {x.ts : x \in {y \in adverts : y.id = c}}

VerifiedOf(c) == [b \in Beacons |-> IF b = c THEN {} ELSE SignedBy(c, spent[b])]

OnTheWay(c) ==
    UNION {{[ts |-> t, at |-> m.at] : t \in SignedBy(c, m.blobs)} : m \in {d \in network : d.kind = "gossip"}}

LastRestart(c) == Max({restarted[b] : b \in Beacons \ {c}} \cup {Never})

\* A beacon that takes no part in the scenario is one that never says a thing.
UpOrIdle == up \cup (Beacons \ scenario.beacons)

Life(c) == INSTANCE AdvertLife WITH
    Owner <- c, up <- UpOrIdle, entry <- ListedOf(c), spent <- VerifiedOf(c),
    wire <- OnTheWay(c), restarted <- LastRestart(c)

(* Seen from any one beacon's adverts, the federation does nothing but     *)
(* what AdvertLife allows, so that what is proved there holds here: they   *)
(* are accepted once, held for BEACON_TTL_S and die out.                   *)
AdvertsLive ==
    /\ \A c \in Beacons : Life(c)!Init
    /\ [][\A c \in Beacons : [Life(c)!Next]_(Life(c)!vars)]_vars
=============================================================================
