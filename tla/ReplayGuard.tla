----------------------------- MODULE ReplayGuard -----------------------------
(***************************************************************************)
(* What the replay guard of a bus promises (network/identity.py): an       *)
(* envelope is verified at most once, although the guard forgets the       *)
(* oldest nonce at its capacity, because an envelope is fresh only for a   *)
(* while.  The clock of the sender may be off by the tolerance either way, *)
(* so that it is fresh for twice the tolerance at the receiver.            *)
(***************************************************************************)
EXTENDS Integers, Sequences

CONSTANTS
    Nonces,
    Signed,     \* ts of the envelope with that nonce
    Capacity,   \* NONCE_CACHE_SIZE
    Skew        \* max_clock_skew

VARIABLES
    now,        \* the receiver's clock
    seen,       \* _seen, the oldest first
    log         \* history: every envelope verified, [nonce, at]

vars == << now, seen, log >>

Init == now \in Int /\ seen = << >> /\ log = << >>

SeenBefore(nonces, n) == \E i \in DOMAIN nonces : nonces[i] = n

(* record(): the oldest nonce goes when there are more than the capacity.  *)
Record(nonces, n) ==
    LET all == Append(nonces, n)
    IN  IF Len(all) > Capacity THEN Tail(all) ELSE all

Fresh(n) == Signed[n] - Skew <= now /\ now <= Signed[n] + Skew

(* The premise: no more than Capacity envelopes are verified while one of  *)
(* them can still be fresh.                                                *)
WithinRate(l) ==
    \A i, j \in DOMAIN l : i < j /\ l[j].at - l[i].at <= 2 * Skew => j - i <= Capacity

(* verify_envelope() of an envelope that passes.                           *)
Verify(n) ==
    /\ Fresh(n) /\ ~ SeenBefore(seen, n)
    /\ seen' = Record(seen, n)
    /\ log' = Append(log, [nonce |-> n, at |-> now])
    /\ WithinRate(log')
    /\ UNCHANGED now

(* _receive_relayed(): the wrapper, and then the envelope in it.           *)
VerifyBoth(n, m) ==
    LET once == Record(seen, n)
    IN  /\ Fresh(n) /\ ~ SeenBefore(seen, n)
        /\ Fresh(m) /\ ~ SeenBefore(once, m)
        /\ seen' = Record(once, m)
        /\ log' = Append(Append(log, [nonce |-> n, at |-> now]), [nonce |-> m, at |-> now])
        /\ WithinRate(log')
        /\ UNCHANGED now

Wait ==
    /\ now' \in Int /\ now' > now
    /\ UNCHANGED << seen, log >>

Next ==
    \/ \E n \in Nonces : Verify(n)
    \/ \E n, m \in Nonces : VerifyBoth(n, m)
    \/ Wait

Spec == Init /\ [][Next]_vars

(* No envelope is verified twice.                                          *)
VerifiedOnce == \A i, j \in DOMAIN log : log[i].nonce = log[j].nonce => i = j
=============================================================================
