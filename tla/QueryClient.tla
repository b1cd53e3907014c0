----------------------------- MODULE QueryClient -----------------------------
(***************************************************************************)
(* The programs that ask a backbone once and leave: sim/infer_query.py     *)
(* ("infer": everybody has the same task) and sim/multimodal_query.py      *)
(* ("fuse": the experts of each modality, whose labels are fused).  They   *)
(* compute where the experts are from how the backbone was laid out        *)
(* (sim/swarm_backbone.py, sim/multimodal_backbone.py) and neither look    *)
(* them up nor wait for peer exchange.  Lost and late answers, and what    *)
(* aggregate() makes of labels, are in Rpc.                                *)
(***************************************************************************)
EXTENDS Census

\* Who asks is started after the backbone, whose nodes have lower numbers, and
\* is no beacon; the experts run at the public host.
ASSUME QueryClientAssumption ==
    \A s \in Scenarios :
        /\ s.publicHost # "none"
        /\ s.client # "none" =>
            /\ Processes - 1 \notin s.beacons
            /\ \A m \in 1 .. s.modalities : \A e \in (m - 1) * s.requested + 1 .. m * s.requested :
                e \in 0 .. Processes - 2 /\ s.machine[e] = s.publicHost

VARIABLE query  \* pc: where the client is; votes: what it knows of an expert

Client == Processes - 1

Unasked == "unasked"
Waiting == "waiting"
NoOpinion == "none"     \* an abstention, or no answer in time
Opinion == "label"

-----------------------------------------------------------------------------
(* The layout of a backbone                                                *)

Modalities == 1 .. scenario.modalities

\* expert_node_ids(): identities are numbered on from modality to modality.
ExpertsOf(m) == (m - 1) * scenario.requested + 1 .. m * scenario.requested
Experts == UNION {ExpertsOf(m) : m \in Modalities}

(* expert_addrs() and backbone_addrs(): an expert and its port have the    *)
(* same number, whatever else happened.                                    *)
ExpertAddrs(m) == [e \in ExpertsOf(m) |-> Address(scenario.publicHost, e, 1)]
BackboneAddrs == [e \in Experts |-> Address(scenario.publicHost, e, 1)]

\* Mutant of Book: what the node itself has found.
FoundOnly == [e \in Experts |-> node[Client].bus[e]]

\* The address book the client seeds its bus with.
Book == IF scenario.client = "infer" THEN BackboneAddrs
        ELSE [e \in Experts |-> ExpertAddrs(CHOOSE m \in Modalities : e \in ExpertsOf(m))[e]]

-----------------------------------------------------------------------------
(* The client                                                              *)

(* Up to start(): it joins the beacon, if there is one, like any node.     *)
Join ==
    /\ query.pc = "idle"
    /\ Start(Client, 0, ~ Down(0))
    /\ query' = [query EXCEPT !.pc = "joining"]
    /\ UNCHANGED censusVars

RunInfer == scenario.client = "infer" /\ Join
RunMultimodalQuery == scenario.client = "fuse" /\ Join

\* start() returns and the book is seeded in one go.
Joining == query.pc = "joining" /\ Up(Client)

Seed ==
    /\ Joining
    /\ node' = [node EXCEPT ![Client].bus = [e \in Nodes |-> IF e \in Experts THEN Book[e] ELSE @[e]],
                            ![Client].peers = @ \cup Experts]
    /\ query' = [query EXCEPT !.pc = "settled"]
    /\ UNCHANGED << scenario, now, proc, advert, wire, heard, censusVars >>

(* After a while it asks everybody at once: classify() and                 *)
(* per_modality_label().                                                   *)
Asks(e) == [Datagram(Client, e, "query", Unknown) EXCEPT !.dst = node[Client].bus[e]]

Classify ==
    /\ query.pc = "settled" /\ Up(Client)
    /\ wire' = wire \cup {d \in {Asks(e) : e \in Experts} : d.dst # Nowhere}
    /\ Cardinality(wire') <= scenario.inFlight
    /\ query' = [pc |-> "asking", votes |-> [e \in Experts |-> Waiting]]
    /\ UNCHANGED << scenario, now, proc, node, advert, heard, censusVars >>

(* _handle_query(): the expert has just learned where the client is.       *)
AnswerQuery(d) ==
    LET e == d.dst.of
    IN  /\ d.kind = "query" /\ d \in wire /\ Reaches(d.by, d.dst)
        /\ node' = [node EXCEPT ![e] = Dispatch(e, d)]
        /\ wire' = (wire \ {d}) \cup {[Datagram(e, d.by, "answer", Unknown) EXCEPT !.dst = node'[e].bus[d.by]]}
        /\ Heard(e, d.by)
        /\ UNCHANGED << scenario, now, proc, advert, censusVars, query >>

(* _handle_response(): a model that knows nothing has no opinion.          *)
ReceiveAnswer(d) ==
    /\ Arrives(d) /\ d.kind = "answer"
    /\ node' = [node EXCEPT ![d.dst.of] = Dispatch(d.dst.of, d)]
    /\ query' = [query EXCEPT !.votes[d.by] = IF d.by \in scenario.knowing THEN Opinion ELSE NoOpinion]
    /\ UNCHANGED << scenario, now, proc, advert, heard, censusVars >>

(* query_peer() gives up on who is silent; with all the results in, the    *)
(* client stops.  A timeout is longer than a round trip.                   *)
Conclude ==
    /\ query.pc = "asking" /\ Up(Client)
    /\ \A d \in wire : d.kind \in {"query", "answer"} => ~ Reaches(d.by, d.dst)
    /\ query' = [pc |-> "done", votes |-> [e \in Experts |-> IF query.votes[e] = Waiting THEN NoOpinion ELSE query.votes[e]]]
    /\ Stopped({Client})
    /\ UNCHANGED << scenario, now, node, advert, wire, heard, censusVars >>

\* Those whose labels are aggregated, and modalities whose labels are fused.
Voices == IF scenario.client = "infer" THEN {e \in Experts : query.votes[e] = Opinion}
          ELSE {m \in Modalities : \E e \in ExpertsOf(m) : query.votes[e] = Opinion}

QueryInit == CensusInit /\ query = [pc |-> "idle", votes |-> [e \in Experts |-> Unasked]]

ClientNext ==
    \/ Seed \/ Classify \/ Conclude
    \/ \E d \in wire : AnswerQuery(d) \/ ReceiveAnswer(d)
=============================================================================
