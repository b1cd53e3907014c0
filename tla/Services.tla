------------------------------ MODULE Services ------------------------------
(***************************************************************************)
(* The request services of a node together, on one bus and one event loop: *)
(* inference and calibration (Rpc), chunked fetches (ChunkedFetch) and, on *)
(* a beacon, the answerers of browsers (Answerers).                        *)
(***************************************************************************)
EXTENDS Rpc, ChunkedFetch, Answerers

vars == << scenario, wire, rpcVars, fetchVars, answererVars >>

Init ==
    /\ scenario \in Scenarios
    /\ wire = {}
    /\ RpcInit /\ FetchInit /\ AnswererInit

Next ==
    \/ RpcNext /\ UNCHANGED << fetchVars, answererVars >>
    \/ FetchNext /\ UNCHANGED << rpcVars, answererVars >>
    \/ AnswererNext /\ UNCHANGED << rpcVars, fetchVars >>
    \/ \E m \in wire : Lose(m) /\ UNCHANGED << rpcVars, fetchVars, answererVars >>

\* A coroutine goes on.
EventLoop ==
    \/ (\E c \in Calls : CallGoesOn(c)) /\ UNCHANGED << fetchVars, answererVars >>
    \/ (\E f \in Fetches : EndFetch(f)) /\ UNCHANGED << rpcVars, answererVars >>

(* The event loop runs the coroutines that can go on: each await of a call *)
(* or a fetch has a timeout.  Messages and peers owe nothing.              *)
Fairness == WF_vars(EventLoop)

Spec == Init /\ [][Next]_vars /\ Fairness
-----------------------------------------------------------------------------
\* Requests whose coroutine still waits.
Waiting(c) == {<< c, p >> : p \in {q \in ToSet(calls[c].asked) : calls[c].got[q] = Nothing}}

(* The tables hold exactly the requests that wait - a late answer finds    *)
(* none and no entry is left behind - and the values have their types.     *)
TypeOK ==
    /\ scenario \in Scenarios
    /\ \A m \in wire : {m.from, m.to} \subseteq Peers \cup {Me}
    /\ trust \in [Peers -> 0 .. FULL_TRUST]
    /\ Len(holdout) = Len(scenario.holdout)
    /\ DOMAIN pending = UNION {Waiting(c) : c \in Calls}
    /\ \A c \in Calls : calls[c].state = "done" => calls[c].answer # Nothing \/ Kind(c) = "calibrate"
    /\ \A s \in DOMAIN slots : fetches[slots[s].by].state = "waiting" /\ Slot(slots[s].by) = s
    /\ \A p \in Peers : chains[p] \in claimed[p]
    /\ live \subseteq Offers
    /\ IsInjective(recent) /\ Len(recent) <= RECENT_BROWSER_CLIENTS_MAX

(* What a call takes for the opinion of a peer is its answer to this       *)
(* question, however late the answers to earlier ones come.                *)
AnswersAreOwn ==
    \A c \in Calls : Kind(c) # "calibrate" =>
        \A p \in ToSet(calls[c].asked) :
            calls[c].got[p] \in {Nothing, Abstained, scenario.knows[p][X(c)]}

\* How often p is right about samples.
Verdict(t, p, samples) ==
    Calibrated(t, [i \in DOMAIN samples |-> scenario.knows[p][samples[i].x].label], samples)

(* Calibration moves the trust in a peer, from where it is now, by how     *)
(* right that peer is about the samples the call began with: chunks out of *)
(* order, a holdout that moved on and merges judged meanwhile change       *)
(* nothing about that.                                                     *)
CalibratedByTheSamples ==
    [][ \A p \in Peers : trust'[p] # trust[p] /\ merged' = merged =>
            \E c \in Calls : /\ calls[c].state = "waiting"
                             /\ trust'[p] = Verdict(trust[p], p, calls[c].samples) ]_vars

(* A chain that verifies is one its peer had, at some time and as a whole, *)
(* whatever chunks of other answers and other lives were mixed into it.    *)
VerifiedWasClaimed ==
    \A f \in Fetches : fetches[f].state = "done" /\ fetches[f].ok /\ Slot(f)[1] = "chain" =>
        fetches[f].fut \subseteq claimed[PeerOf(f)]

(* The embedding installed is that of the swarm: nothing missing, nothing  *)
(* twice, in order, whichever answers its chunks are from.                 *)
SharedSpace == embedding \in {<< >>, EmbeddingBlob}

(* An answerer is kept while its connection may still carry queries, and   *)
(* not kept once it has ended - also when it ends before the offer is      *)
(* accepted.                                                               *)
LiveIsKept ==
    \A k \in Offers :
        /\ connections[k] \in {"accepting", "open"} => k \in live
        /\ connections[k] \in {"ended", "ended while accepting"} => k \notin live

(* The page lists the clients that asked last.                             *)
RecentAskedLast ==
    \A b \in ToSet(asked) \ ToSet(recent) : \A c \in ToSet(recent) :
        Max({i \in DOMAIN asked : asked[i] = b}) < Max({i \in DOMAIN asked : asked[i] = c})

(* Every call and every fetch that begins comes to an end, whatever is     *)
(* lost and whatever the peers do.                                         *)
CallsEnd ==
    <>[](/\ \A c \in Calls : calls[c].state # "waiting"
         /\ \A f \in Fetches : fetches[f].state # "waiting")

(* fetch_chain(): "entries is the raw wire list so the caller can inspect  *)
(* what the peer claimed even on a verify failure" - so what is returned   *)
(* is a chain the peer claimed.                                            *)
ReturnsWhatWasClaimed ==
    \A f \in Fetches : fetches[f].state = "done" /\ Slot(f)[1] = "chain" =>
        fetches[f].fut \subseteq claimed[PeerOf(f)]
=============================================================================
