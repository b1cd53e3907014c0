----------------------------- MODULE UpdateChain -----------------------------
(***************************************************************************)
(* The hash chain of model checkpoints (core/update_chain.py).  A hash is  *)
(* what it commits to: that of an entry is the digests of all checkpoints  *)
(* up to it.  Signatures and owners are those of honest nodes.             *)
(***************************************************************************)
EXTENDS Integers, Sequences, SequencesExt

GENESIS_HASH == << >>

EntryHash(e) == Append(e.prev_hash, e.model_digest)

HeadHash(chain) == IF chain = << >> THEN GENESIS_HASH ELSE EntryHash(Last(chain))

(* checkpoint(): one more entry, bound to all before it.                   *)
Checkpointed(chain, digest) ==
    Append(chain, [seq |-> Len(chain), prev_hash |-> HeadHash(chain), model_digest |-> digest])

\* The chain of the checkpoints of these models.
ChainOf(digests) ==
    [i \in DOMAIN digests |->
        [seq |-> i - 1, prev_hash |-> SubSeq(digests, 1, i - 1), model_digest |-> digests[i]]]

\* Mutant of Verifies: an auditor that trusts the sequence numbers.
NumbersOnly(entries) == \A i \in DOMAIN entries : entries[i].seq = i - 1

(* verify_chain(): contiguous numbers, and every entry commits to the one  *)
(* before it.                                                              *)
Verifies(entries) ==
    \A i \in DOMAIN entries :
        /\ entries[i].seq = i - 1
        /\ entries[i].prev_hash = HeadHash(SubSeq(entries, 1, i - 1))
=============================================================================
