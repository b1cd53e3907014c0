---------------------------- MODULE ChunkedFetch ----------------------------
(***************************************************************************)
(* Fetches in chunks (node/net_node.py): the frozen embedding a joiner     *)
(* pulls from a peer, and the update chain an auditor pulls and verifies.  *)
(* Answers carry no request id: chunks are collected by their sender,      *)
(* whatever fetch they answer, while the chain grows at the peer and       *)
(* starts anew when it restarts.                                           *)
(***************************************************************************)
EXTENDS Wire, UpdateChain

CONSTANTS
    EmbeddingBlob,              \* the serialized embedding every peer holds, as a sequence
    EMBEDDING_CHUNK_BYTES,
    CHAIN_ENTRIES_PER_CHUNK,
    Digests                     \* of models

(* A scenario has the fetches that may be made, each of a kind and from a  *)
(* peer (fetches), the digests in the chains at first (history), and how   *)
(* often chains grow and peers restart (checkpoints, restarts).            *)

ASSUME FetchAssumption ==
    /\ {EMBEDDING_CHUNK_BYTES, CHAIN_ENTRIES_PER_CHUNK} \subseteq Nat \ {0}
    /\ EmbeddingBlob \in Seq(ToSet(EmbeddingBlob))
    /\ \A s \in Scenarios :
        /\ s.history \in Seq(Digests)
        /\ \A f \in DOMAIN s.fetches : s.fetches[f].kind \in {"emb", "chain"} /\ s.fetches[f].peer \in Peers

VARIABLES
    chains,         \* chain.entries of each peer
    checkpointed, restarted,    \* for the bounds
    slots,          \* _pending_emb and _pending_chain: << kind, peer >> -> entry
    fetches,        \* state and future of each fetch
    embedding,      \* the embedding installed here
    \* History, read by no action:
    claimed         \* of a peer: every chain it has had

fetchVars == << chains, checkpointed, restarted, slots, fetches, embedding, claimed >>

\* A future is the set of its result.
NotDone == {}

Fetches == DOMAIN scenario.fetches
Slot(f) == << scenario.fetches[f].kind, scenario.fetches[f].peer >>
PeerOf(f) == scenario.fetches[f].peer

FetchInit ==
    /\ chains = [p \in Peers |-> ChainOf(scenario.history)]
    /\ checkpointed = 0 /\ restarted = 0
    /\ slots = << >>
    /\ fetches = [f \in Fetches |-> [state |-> "idle", fut |-> NotDone, ok |-> FALSE]]
    /\ embedding = << >>
    /\ claimed = [p \in Peers |-> Prefixes(chains[p])]

-----------------------------------------------------------------------------
(* At the peer                                                             *)

(* The runner appends a checkpoint when the model has advanced.            *)
Checkpoint(p) ==
    /\ checkpointed < scenario.checkpoints
    /\ checkpointed' = checkpointed + 1
    /\ \E digest \in Digests : chains' = [chains EXCEPT ![p] = Checkpointed(@, digest)]
    /\ claimed' = [claimed EXCEPT ![p] = @ \cup {chains'[p]}]
    /\ UNCHANGED << scenario, wire, restarted, slots, fetches, embedding >>

(* The chain is in memory only.                                            *)
RestartPeer(p) ==
    /\ restarted < scenario.restarts
    /\ restarted' = restarted + 1
    /\ chains' = [chains EXCEPT ![p] = << >>]
    /\ UNCHANGED << scenario, wire, checkpointed, slots, fetches, embedding, claimed >>

\* The chunks of s; at least one.
Sent(s, size) == IF s = << >> THEN << << >> >> ELSE Chunks(s, size)

OnEmbeddingRequest(m) ==
    /\ m.body = EmbeddingRequest
    /\ LET chunks == Sent(EmbeddingBlob, EMBEDDING_CHUNK_BYTES)
       IN  Exchange({m}, {Envelope(m.to, m.from, EmbeddingResponse(i, Len(chunks), chunks[i])) :
                            i \in DOMAIN chunks})
    /\ UNCHANGED << scenario, fetchVars >>

OnChainRequest(m) ==
    /\ m.body = ChainRequest
    /\ LET chunks == Sent(chains[m.to], CHAIN_ENTRIES_PER_CHUNK)
       IN  Exchange({m}, {Envelope(m.to, m.from, ChainResponse(i, Len(chunks), chunks[i])) :
                            i \in DOMAIN chunks})
    /\ UNCHANGED << scenario, fetchVars >>

-----------------------------------------------------------------------------
(* At the node that fetches                                                *)

\* table[key] = value
Put(table, key, value) == [k \in DOMAIN table \cup {key} |-> IF k = key THEN value ELSE table[k]]

(* fetch_embedding(), fetch_chain(): the entry of an earlier fetch of the  *)
(* same peer that still waits is replaced.                                 *)
StartFetch(f) ==
    /\ fetches[f].state = "idle"
    /\ fetches' = [fetches EXCEPT ![f].state = "waiting"]
    /\ slots' = Put(slots, Slot(f), [by |-> f, chunks |-> << >>])
    /\ Exchange({}, {Envelope(Me, PeerOf(f),
                              IF Slot(f)[1] = "emb" THEN EmbeddingRequest ELSE ChainRequest)})
    /\ UNCHANGED << scenario, chains, checkpointed, restarted, embedding, claimed >>

\* Mutant of Collected: the chunks are appended to a list as they come.
Appended(chunks, i, d) == Put(chunks, Cardinality(DOMAIN chunks) + 1, d)

Collected(chunks, i, d) == Put(chunks, i, d)

\* The chunks together, when there are as many as the last one said there are -
\* unless one of the indices is missing: the handler raises a KeyError.
Joined(chunks, n) ==
    IF Cardinality(DOMAIN chunks) < n \/ ~ 1 .. n \subseteq DOMAIN chunks THEN NotDone
    ELSE {FlattenSeq([i \in 1 .. n |-> chunks[i]])}

(* _on_embedding_response(), _on_chain_response()                          *)
OnChunk(m) ==
    LET slot == << IF m.body.k = "emb_resp" THEN "emb" ELSE "chain", m.from >>
    IN  /\ m.body.k \in {"emb_resp", "chain_resp"}
        /\ IF slot \notin DOMAIN slots THEN UNCHANGED << slots, fetches >>
           ELSE LET chunks == Collected(slots[slot].chunks, m.body.i, m.body.d)
                    f      == slots[slot].by
                IN  /\ slots' = [slots EXCEPT ![slot].chunks = chunks]
                    /\ fetches' = IF fetches[f].fut # NotDone THEN fetches
                                  ELSE [fetches EXCEPT ![f].fut = Joined(chunks, m.body.n)]
        /\ Exchange({m}, {})
        /\ UNCHANGED << scenario, chains, checkpointed, restarted, embedding, claimed >>

(* A fetch ends, by its future or by the timeout, and takes the entry of   *)
(* its peer with it, whichever fetch that belongs to.                      *)
EndFetch(f) ==
    /\ fetches[f].state = "waiting"
    /\ slots' = [s \in DOMAIN slots \ {Slot(f)} |-> slots[s]]
    /\ \/ /\ fetches' = [fetches EXCEPT ![f].state = "timeout"]
          /\ UNCHANGED embedding
       \/ \E result \in fetches[f].fut :
            /\ fetches' = [fetches EXCEPT ![f].state = "done",
                              ![f].ok = Slot(f)[1] = "emb" \/ Verifies(result)]
            /\ embedding' = IF Slot(f)[1] = "emb" THEN result ELSE embedding
    /\ UNCHANGED << scenario, wire, chains, checkpointed, restarted, claimed >>

-----------------------------------------------------------------------------
FetchReceive(m) == OnEmbeddingRequest(m) \/ OnChainRequest(m) \/ OnChunk(m)

FetchNext ==
    \/ \E f \in Fetches : StartFetch(f) \/ EndFetch(f)
    \/ \E m \in wire : FetchReceive(m)
    \/ \E p \in Peers : Checkpoint(p) \/ RestartPeer(p)
=============================================================================
