------------------------------- MODULE Census -------------------------------
(***************************************************************************)
(* The census of the beacons and their status page: a beacon tells every   *)
(* beacon of its registry which peers it knows and where they are          *)
(* (network/federation.py, node/net_node.py), and the page merges that     *)
(* with what it knows itself (snapshot() in network/beacon_status.py).     *)
(* Federation models how the registry comes about; here a beacon meets     *)
(* another one once.                                                       *)
(***************************************************************************)
EXTENDS Directory

CONSTANTS ACTIVE_WINDOW_S, CENSUS_TTL_S    \* in the unit of the clock

\* 30 and 90 seconds, when a peer is stale after 120.
ASSUME CensusAssumption == {ACTIVE_WINDOW_S, CENSUS_TTL_S} \subseteq 0 .. STALE_AFTER_S

VARIABLES
    registry,   \* of a beacon: the beacons it lists
    bridged,    \* those it bridged to
    census      \* swarm_census of a beacon: of a peer, the endpoint and when
                \* which beacon last vouched for it

censusVars == << registry, bridged, census >>

Beacon(n) == n \in scenario.beacons

-----------------------------------------------------------------------------
(* Endpoints                                                               *)

Live(a) == a.host \notin {Loopback, Nowhere.host}

(* resolve_endpoint(): what was advertised, what was observed, or, if that *)
(* is on this machine, its port at our host; no address is Nowhere.        *)
ResolveEndpoint(advertised, observed, ownHost) ==
    CASE Live(advertised) -> advertised
      [] ~ Live(advertised) /\ Live(observed) -> observed
      [] OTHER -> IF observed.host = Loopback /\ ownHost # Loopback
                  THEN [observed EXCEPT !.host = ownHost] ELSE Nowhere

OwnHost(b) == Advertised(b, 0).host

Endpoint(b, p) == ResolveEndpoint(node[b].disc[p], node[b].bus[p], OwnHost(b))

-----------------------------------------------------------------------------
(* The page                                                                *)

Vouchers(entry) == {s \in Nodes : entry.at[s] # Never}
SeenAt(entry) == IF Vouchers(entry) = {} THEN Never ELSE Max({entry.at[s] : s \in Nodes})

\* The peers a page lists from its own knowledge and from the census.
LocalRows(b) ==
    {p \in (Known(node[b].disc) \cup Known(node[b].bus)) \ (registry[b] \cup {b}) : Endpoint(b, p) # Nowhere}
RemoteRows(b) == {p \in Nodes : Vouchers(census[b][p]) # {}}

\* Mutant of Page: what other beacons report is left out.
LocalPage(b) == [p \in LocalRows(b) |-> [ep |-> Endpoint(b, p), seen |-> node[b].seen[p], by |-> {b}]]

(* snapshot(): what the beacon knows itself wins.                          *)
Page(b) ==
    [p \in LocalRows(b) \cup RemoteRows(b) |->
        IF p \in LocalRows(b)
        THEN [ep |-> Endpoint(b, p), seen |-> node[b].seen[p], by |-> {b} \cup Vouchers(census[b][p])]
        ELSE [ep |-> census[b][p].ep, seen |-> SeenAt(census[b][p]), by |-> Vouchers(census[b][p])]]

Active(row) == row.seen # Never /\ now - row.seen <= ACTIVE_WINDOW_S

-----------------------------------------------------------------------------
(* Spaces                                                                  *)

\* Of a beacon, from its environment (net_daemon.py): name, dim and
\* world_seed.  The number of classes is the same everywhere.
Config(b) == scenario.config[b]

Raw == "raw"

(* _digits(): a projection fitted to a split of the bundled data, which    *)
(* depends on the seed; its dimension is its own.                          *)
DigitsTask(c) == [name |-> c.name, dim |-> "out_dim", embedding |-> << "lda", c.world_seed >>, centers |-> Raw]

(* _synthetic(): the features are raw, and the world is drawn by the seed. *)
SyntheticTask(c) == [name |-> c.name, dim |-> c.dim, embedding |-> << >>, centers |-> << c.dim, c.world_seed >>]

BuildTask(b) == IF Config(b).name = "digits" THEN DigitsTask(Config(b)) ELSE SyntheticTask(Config(b))

\* What a prototype vector of the task means.
Space(task) == << task.name, task.embedding, task.centers >>

\* Mutant of SpaceFingerprint: the projection stands for itself.
NameAndShape(b) == << Config(b).name, Config(b).dim >>

(* space_fingerprint()                                                     *)
SpaceFingerprint(b) == << Config(b).name, Config(b).dim, Config(b).world_seed, BuildTask(b).embedding >>

-----------------------------------------------------------------------------
(* The exchange                                                            *)

Uncounted == [ep |-> Nowhere, at |-> [s \in Nodes |-> Never]]

(* _on_gossip() of a new beacon's advert: it is listed and dialled.        *)
Meet(b, c) ==
    /\ {b, c} \subseteq scenario.beacons /\ b # c /\ c \notin registry[b]
    /\ Up(b) /\ Up(c)
    /\ registry' = [registry EXCEPT ![b] = @ \cup {c}]
    /\ node' = [node EXCEPT ![b].bus[c] = Advertised(c, proc[c].life)]
    /\ UNCHANGED << scenario, now, proc, advert, wire, heard, bridged, census >>

(* _bridge_beacon(), once c answered a ping and is of the same space: it   *)
(* becomes a peer and is told of the others.                               *)
Bridge(b, c) ==
    /\ Up(b) /\ c \in registry[b] \ bridged[b]
    /\ SpaceFingerprint(b) = SpaceFingerprint(c)
    /\ bridged' = [bridged EXCEPT ![b] = @ \cup {c}]
    /\ node' = [node EXCEPT ![b].bus[c] = Advertised(c, proc[c].life), ![b].peers = @ \cup {c}]
    /\ LET d == [Datagram(b, c, "pex", node[b].disc) EXCEPT !.dst = Advertised(c, proc[c].life)]
       IN  Transmit({d})
    /\ UNCHANGED << scenario, now, proc, advert, heard, registry, census >>

(* _census_source(): peers, but neither this beacon nor one it lists.      *)
CensusSource(b) ==
    [p \in Nodes |-> IF p \in node[b].peers \ (registry[b] \cup {b}) THEN Endpoint(b, p) ELSE Nowhere]

(* _expire_census()                                                        *)
ExpireCensus(entries) ==
    LET Kept(e) == [e EXCEPT !.at = [s \in Nodes |-> IF @[s] # Never /\ now - @[s] > CENSUS_TTL_S THEN Never ELSE @[s]]]
    IN  [p \in Nodes |-> IF Vouchers(Kept(entries[p])) = {} THEN Uncounted ELSE Kept(entries[p])]

(* tick(): the census goes to every beacon of the registry, unless it is   *)
(* empty.  Adverts and pings are in Federation.                            *)
FederationTick(b) ==
    LET list == CensusSource(b)
        sent == IF Known(list) = {} THEN {} ELSE {Datagram(b, c, "census", list) : c \in registry[b]}
    IN  /\ Up(b) /\ Beacon(b)
        /\ Transmit(sent)
        /\ census' = [census EXCEPT ![b] = ExpireCensus(@)]
        /\ UNCHANGED << scenario, now, proc, node, advert, heard, registry, bridged >>

(* _on_census()                                                            *)
OnCensus(b, d) ==
    [p \in Nodes |->
        IF p = b \/ d.list[p] = Nowhere THEN census[b][p]
        ELSE [ep |-> d.list[p], at |-> [census[b][p].at EXCEPT ![d.by] = now]]]

ReceiveCensus(d) ==
    /\ Arrives(d) /\ d.kind = "census"
    /\ node' = [node EXCEPT ![d.dst.of] = Dispatch(d.dst.of, d)]
    /\ Heard(d.dst.of, d.by)
    /\ census' = IF Beacon(d.dst.of) THEN [census EXCEPT ![d.dst.of] = OnCensus(d.dst.of, d)] ELSE census
    /\ UNCHANGED << scenario, now, proc, advert, registry, bridged >>

\* Nothing that a beacon could report to another would change its list.
CensusSettled ==
    \A b, c \in scenario.beacons :
        Up(b) /\ Up(c) /\ b # c =>
            /\ c \in registry[b]
            /\ \A p \in Known(CensusSource(b)) \ {c} : b \in Vouchers(census[c][p])

CensusInit ==
    /\ DirectoryInit
    /\ registry = [n \in Nodes |-> {}]
    /\ bridged = [n \in Nodes |-> {}]
    /\ census = [n \in Nodes |-> [p \in Nodes |-> Uncounted]]

CensusNext ==
    \/ \E b, c \in Nodes : Meet(b, c) \/ Bridge(b, c)
    \/ \E b \in Nodes : FederationTick(b)
    \/ \E d \in wire : ReceiveCensus(d)
    \/ DirectoryNext /\ UNCHANGED censusVars
=============================================================================
