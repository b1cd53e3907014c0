--------------------------------- MODULE Rpc ---------------------------------
(***************************************************************************)
(* Distributed inference and trust calibration by request and answer:      *)
(* inference/rpc.py, inference/aggregate.py and the page's POST /infer     *)
(* (network/beacon_status.py).  Calls run concurrently on one event loop;  *)
(* while they wait, samples and gossip go on changing the holdout and the  *)
(* trust they will be judged by.                                           *)
(***************************************************************************)
EXTENDS Wire

CONSTANTS
    CALIB_CHUNK,    \* holdout rows in a query
    TopN            \* top_n, the width of the fan-out

(* A scenario has the calls that may be made, each with a kind, an input   *)
(* and the peers asked (calls), what the model of a peer answers (knows)   *)
(* and the node's own (local), the holdout at first (holdout), the samples *)
(* that push it out (feed) and how many of a peer's merges are judged      *)
(* meanwhile (merges).                                                     *)
ASSUME RpcAssumption ==
    /\ {CALIB_CHUNK, TopN} \subseteq Nat \ {0}
    /\ \A s \in Scenarios :
        /\ {s.holdout, s.feed} \subseteq Seq(ToSet(s.holdout) \cup ToSet(s.feed))
        /\ s.feed # << >> => s.holdout # << >>
        /\ \A c \in DOMAIN s.calls :
            LET call == s.calls[c]
            IN  /\ call.peers \in Seq(IF call.kind = "calibrate" THEN Peers \cup {Me} ELSE Peers)
                /\ call.kind # "calibrate" => DOMAIN s.local[call.x] = {"label", "conf"}

VARIABLES
    trust,          \* node.trust
    holdout,        \* node.holdout_x and holdout_y, as pairs
    fed, merged,    \* for the bounds
    pending,        \* _pending and _pending_calib: request -> what has come
    calls           \* state of each call, and what it knows so far

rpcVars == << trust, holdout, fed, merged, pending, calls >>

NoLabel   == "none"
Abstained == [label |-> NoLabel, conf |-> 0]
Nothing   == [pending |-> TRUE]     \* a future not done

\* Trust is in eight thousandths, which the updates of a run keep exact.
FULL_TRUST == 8000
TRUST_INIT == 4000

Calls == DOMAIN scenario.calls
Kind(c) == scenario.calls[c].kind
X(c) == scenario.calls[c].x

(* _new_qid(): eight random bytes, so every request has its own.           *)
Qid(c, p) == << c, p >>

RpcInit ==
    /\ trust = [p \in Peers |-> TRUST_INIT]
    /\ holdout = scenario.holdout
    /\ fed = 0 /\ merged = 0
    /\ pending = << >>
    /\ calls = [c \in Calls |-> [state |-> "idle", asked |-> << >>, got |-> << >>,
                                 samples |-> << >>, answer |-> Nothing]]

\* Entries for new requests.
With(requests, entry) ==
    [q \in requests \cup DOMAIN pending |-> IF q \in requests THEN entry ELSE pending[q]]

\* Mutant of Closed: the entry is popped only by an answer.
KeptOpen(q) == IF pending[q] = Nothing THEN pending ELSE [r \in DOMAIN pending \ {q} |-> pending[r]]

(* `finally` of a request pops its entry.                                  *)
Closed(q) == [r \in DOMAIN pending \ {q} |-> pending[r]]

-----------------------------------------------------------------------------
(* Answering, at a peer: answer_query() is pure.                           *)

OnQuery(m) ==
    /\ m.body.k = "query"
    /\ Exchange({m}, {Envelope(m.to, m.from, Response(m.body.id, scenario.knows[m.to][m.body.x]))})
    /\ UNCHANGED << scenario, rpcVars >>

OnCalibrationQuery(m) ==
    /\ m.body.k = "calib_q"
    /\ LET labels == [i \in DOMAIN m.body.xs |-> scenario.knows[m.to][m.body.xs[i]].label]
       IN  Exchange({m}, {Envelope(m.to, m.from, CalibrationResponse(m.body.id, m.body.i, labels))})
    /\ UNCHANGED << scenario, rpcVars >>

-----------------------------------------------------------------------------
(* Inference                                                               *)

\* The peers asked, the most trusted first and else in the order given.
Ranked(ps) ==
    LET better(i, j) == trust[ps[i]] > trust[ps[j]] \/ (trust[ps[i]] = trust[ps[j]] /\ i < j)
        rank(j) == Cardinality({i \in DOMAIN ps : better(i, j)}) + 1
    IN  [r \in 1 .. Min({TopN, Len(ps)}) |-> ps[CHOOSE j \in DOMAIN ps : rank(j) = r]]

(* aggregate(): the label with most trust times confidence behind it, the  *)
(* first of equals, and its share of the whole.                            *)
Aggregate(asked, got, weigh) ==
    LET weight(i) == weigh[asked[i]] * got[asked[i]].conf
        voters    == {i \in DOMAIN asked : got[asked[i]].label # NoLabel /\ weight(i) > 0}
        behind(l) == MapThenSumSet(weight, {i \in voters : got[asked[i]].label = l})
        first(l)  == Min({i \in voters : got[asked[i]].label = l})
        labels    == {got[asked[i]].label : i \in voters}
        best      == CHOOSE l \in labels : \A k \in labels \ {l} :
                        behind(l) > behind(k) \/ (behind(l) = behind(k) /\ first(l) < first(k))
    IN  IF voters = {} THEN [label |-> NoLabel, share |-> 0, of |-> 1]
        ELSE [label |-> best, share |-> behind(best), of |-> MapThenSumSet(weight, voters)]

\* With nobody to ask the node answers by itself; infer() scores that with 0.
OwnOpinion(c) ==
    LET local == scenario.local[X(c)]
    IN  IF Kind(c) = "infer" THEN [label |-> local.label, share |-> 0, of |-> 1] ELSE local

(* infer() and _handle_infer(): everybody is asked at once.                *)
StartInfer(c) ==
    /\ calls[c].state = "idle" /\ Kind(c) \in {"infer", "page"}
    /\ LET ps    == scenario.calls[c].peers
           asked == IF Kind(c) = "infer" THEN Ranked(ps) ELSE ps
       IN  /\ calls' = [calls EXCEPT ![c] =
                    IF asked = << >> THEN [@ EXCEPT !.state = "done", !.answer = OwnOpinion(c)]
                    ELSE [@ EXCEPT !.state = "waiting", !.asked = asked,
                                   !.got = [p \in ToSet(asked) |-> Nothing]]]
           /\ pending' = With({Qid(c, p) : p \in ToSet(asked)}, Nothing)
           /\ Exchange({}, {Envelope(Me, p, Query(Qid(c, p), X(c))) : p \in ToSet(asked)})
    /\ UNCHANGED << scenario, trust, holdout, fed, merged >>

\* Mutant of Recipients: an answer is for whoever waits for its sender.
OfSender(m) == {q \in DOMAIN pending : q[2] = m.from}

Recipients(m) == DOMAIN pending \cap {m.body.id}

(* _handle_response(): for nobody, when the request is over.               *)
OnResponse(m) ==
    /\ m.body.k = "response"
    /\ pending' = [q \in DOMAIN pending |->
                    IF q \in Recipients(m) /\ pending[q] = Nothing THEN m.body.answer ELSE pending[q]]
    /\ Exchange({m}, {})
    /\ UNCHANGED << scenario, trust, holdout, fed, merged, calls >>

\* Mutant of Outcomes: nothing but an answer ends the wait.
NoTimeout(entry) == IF entry = Nothing THEN {} ELSE {entry}

(* wait_for(): the timeout may beat an answer that is there already.       *)
Outcomes(entry) == IF entry = Nothing THEN {Abstained} ELSE {Abstained, entry}

(* query_peer() returns.                                                   *)
EndQuery(c, p) ==
    /\ calls[c].state = "waiting" /\ Kind(c) \in {"infer", "page"}
    /\ p \in ToSet(calls[c].asked) /\ calls[c].got[p] = Nothing
    /\ \E outcome \in Outcomes(pending[Qid(c, p)]) :
            calls' = [calls EXCEPT ![c].got[p] = outcome]
    /\ pending' = Closed(Qid(c, p))
    /\ UNCHANGED << scenario, wire, trust, holdout, fed, merged >>

(* The votes are weighed by the trust of now; below a third of the weight, *)
(* infer() prefers the node's own label, if it has one, at that score.     *)
Conclude(c) ==
    /\ calls[c].state = "waiting" /\ Kind(c) \in {"infer", "page"}
    /\ \A p \in ToSet(calls[c].asked) : calls[c].got[p] # Nothing
    /\ LET weigh == [p \in Peers |-> IF Kind(c) = "infer" THEN trust[p] ELSE TRUST_INIT]
           vote  == Aggregate(calls[c].asked, calls[c].got, weigh)
           local == scenario.local[X(c)]
           own   == Kind(c) = "infer" /\ 100 * vote.share < 34 * vote.of /\ local.label # NoLabel
       IN  calls' = [calls EXCEPT ![c].state = "done",
                                  ![c].answer = IF own THEN [vote EXCEPT !.label = local.label] ELSE vote]
    /\ UNCHANGED << scenario, wire, trust, holdout, fed, merged, pending >>

-----------------------------------------------------------------------------
(* Calibration                                                             *)

Others(ps) == FlattenSeq([i \in DOMAIN ps |-> IF ps[i] = Me THEN << >> ELSE << ps[i] >>])

SampleChunks == Chunks([i \in DOMAIN holdout |-> holdout[i].x], CALIB_CHUNK)

\* Every chunk goes to everybody at once.
Examine(c, asked, chunks) ==
    /\ calls' = [calls EXCEPT ![c].state = "waiting", ![c].asked = asked, ![c].samples = holdout,
                              ![c].got = [p \in ToSet(asked) |-> Nothing]]
    /\ pending' = With({Qid(c, p) : p \in ToSet(asked)},
                       [labels |-> [i \in DOMAIN chunks |-> << >>], got |-> 0])
    /\ Exchange({}, {Envelope(Me, p, CalibrationQuery(Qid(c, p), i, chunks[i])) :
                        p \in ToSet(asked), i \in DOMAIN chunks})

(* calibrate_trust(): the samples of now, in chunks, to each peer.         *)
StartCalibration(c) ==
    /\ calls[c].state = "idle" /\ Kind(c) = "calibrate"
    /\ LET asked == Others(scenario.calls[c].peers)
       IN  \/ /\ holdout = << >> \/ asked = << >>
              /\ calls' = [calls EXCEPT ![c].state = "done"]
              /\ UNCHANGED << wire, pending >>
           \/ /\ holdout # << >> /\ asked # << >>
              /\ Examine(c, asked, SampleChunks)
    /\ UNCHANGED << scenario, trust, holdout, fed, merged >>

\* Mutant of Placed: the chunks in the order they come.
AsTheyCome(entry, i, labels) == [entry.labels EXCEPT ![entry.got + 1] = labels]

Placed(entry, i, labels) == [entry.labels EXCEPT ![i] = labels]

(* _handle_calibration_response()                                          *)
OnCalibrationResponse(m) ==
    /\ m.body.k = "calib_r"
    /\ pending' = IF m.body.id \in DOMAIN pending
                  THEN [pending EXCEPT ![m.body.id] =
                            [labels |-> Placed(@, m.body.i, m.body.labels), got |-> @.got + 1]]
                  ELSE pending
    /\ Exchange({m}, {})
    /\ UNCHANGED << scenario, trust, holdout, fed, merged, calls >>

\* Half the trust of before, half the share of agreeing opinions; none, no change.
Calibrated(t, labels, samples) ==
    LET seen == {i \in DOMAIN samples : labels[i] # NoLabel}
        hits == {i \in seen : labels[i] = samples[i].y}
    IN  IF seen = {} THEN t
        ELSE (t + (FULL_TRUST * Cardinality(hits)) \div Cardinality(seen)) \div 2

(* calibrate_one() ends, with all the labels or by its timeout.            *)
EndCalibration(c, p) ==
    /\ calls[c].state = "waiting" /\ Kind(c) = "calibrate"
    /\ p \in ToSet(calls[c].asked) /\ calls[c].got[p] = Nothing
    /\ LET entry == pending[Qid(c, p)]
           open  == {q \in ToSet(calls[c].asked) \ {p} : calls[c].got[q] = Nothing}
       IN  /\ \/ trust' = trust
              \/ /\ entry.got = Len(entry.labels)
                 /\ trust' = [trust EXCEPT ![p] =
                        Calibrated(@, FlattenSeq(entry.labels), calls[c].samples)]
           /\ calls' = [calls EXCEPT ![c].got[p] = Abstained,
                                     ![c].state = IF open = {} THEN "done" ELSE @]
    /\ pending' = Closed(Qid(c, p))
    /\ UNCHANGED << scenario, wire, holdout, fed, merged >>

-----------------------------------------------------------------------------
(* Meanwhile: the runner feeds the holdout ring, gossip moves trust.       *)

Observe ==
    /\ fed < Len(scenario.feed)
    /\ fed' = fed + 1
    /\ holdout' = Append(Tail(holdout), scenario.feed[fed + 1])
    /\ UNCHANGED << scenario, wire, trust, merged, pending, calls >>

MergeJudged(p) ==
    /\ merged < scenario.merges
    /\ merged' = merged + 1
    /\ \E outcome \in {0, FULL_TRUST} :
            trust' = [trust EXCEPT ![p] = (7 * @ + 3 * outcome) \div 10]
    /\ UNCHANGED << scenario, wire, holdout, fed, pending, calls >>

-----------------------------------------------------------------------------
CallGoesOn(c) == Conclude(c) \/ \E p \in Peers : EndQuery(c, p) \/ EndCalibration(c, p)

RpcReceive(m) ==
    OnQuery(m) \/ OnCalibrationQuery(m) \/ OnResponse(m) \/ OnCalibrationResponse(m)

RpcNext ==
    \/ \E c \in Calls : StartInfer(c) \/ StartCalibration(c) \/ CallGoesOn(c)
    \/ \E m \in wire : RpcReceive(m)
    \/ Observe \/ \E p \in Peers : MergeJudged(p)
=============================================================================
