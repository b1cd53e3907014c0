-------------------------------- MODULE Wire --------------------------------
(***************************************************************************)
(* Requests and answers on the bus: the messages of network/wire.py that   *)
(* the services exchange, and how they travel - lost, delayed and out of   *)
(* order, but handled once at most (Transport shows why).                  *)
(***************************************************************************)
EXTENDS Integers, Sequences, FiniteSets, FiniteSetsExt, SequencesExt

CONSTANTS
    Me,         \* the node that asks
    Peers,      \* those that answer
    Scenarios   \* bounds and inputs, see `scenario`

ASSUME WireAssumption == IsFiniteSet(Peers) /\ Me \notin Peers

VARIABLES
    scenario,   \* what is asked for in this behaviour; each service adds its fields
    wire        \* the messages on their way

Envelope(from, to, body) == [from |-> from, to |-> to, body |-> body]

Query(qid, x)                == [k |-> "query", id |-> qid, x |-> x]
Response(qid, answer)        == [k |-> "response", id |-> qid, answer |-> answer]
CalibrationQuery(qid, i, xs) == [k |-> "calib_q", id |-> qid, i |-> i, xs |-> xs]
CalibrationResponse(qid, i, labels) == [k |-> "calib_r", id |-> qid, i |-> i, labels |-> labels]
EmbeddingRequest             == [k |-> "emb_req"]
EmbeddingResponse(i, n, d)   == [k |-> "emb_resp", i |-> i, n |-> n, d |-> d]
ChainRequest                 == [k |-> "chain_req"]
ChainResponse(i, n, entries) == [k |-> "chain_resp", i |-> i, n |-> n, d |-> entries]

\* The chunks of a sequence, `size` of its elements in each but the last.
Chunks(s, size) ==
    [i \in 1 .. (Len(s) + size - 1) \div size |->
        SubSeq(s, (i - 1) * size + 1, Min({i * size, Len(s)}))]

\* A handler takes m, if it took any, and sends messages.
Exchange(taken, messages) == wire' = (wire \ taken) \cup messages

(* UDP loses a message.                                                    *)
Lose(m) == m \in wire /\ Exchange({m}, {}) /\ UNCHANGED scenario
=============================================================================
