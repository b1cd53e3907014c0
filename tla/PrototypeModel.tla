--------------------------- MODULE PrototypeModel ---------------------------
(***************************************************************************)
(* The micro-model of one node (core/prototype_model.py): a bounded list   *)
(* of labelled exemplars, classified by 1-nearest-neighbour.  The module   *)
(* has no variables; SwarmNode and the checks apply its operators.         *)
(*                                                                         *)
(* A feature vector is abstracted to a point of a line.  A prototype that  *)
(* absorbed `weight` samples is the mean of them, so it is kept as their   *)
(* exact total: vector = total / weight.  Distances are then compared by   *)
(* cross-multiplication and nothing is rounded (the code uses float32).    *)
(* `shape` is the vector's dimensionality: vectors of different shapes are *)
(* incomparable, as in the code.                                           *)
(***************************************************************************)
EXTENDS Integers, Sequences, FiniteSets

CONSTANTS
    MaxPrototypes,   \* max_prototypes, the budget
    AbsorbNear,      \* absorb_near, absorb_full: absorption radii,
    AbsorbFull,      \*   below and above half of the budget
    ConflictRadius,  \* conflict_radius
    OverrideTrust    \* override_trust, in thousandths like every trust below

ASSUME ModelAssumption ==
    /\ MaxPrototypes \in Nat \ {0}
    /\ AbsorbNear \in Nat /\ AbsorbFull \in Nat /\ ConflictRadius \in Nat
    /\ OverrideTrust \in 0 .. 1000

Prototype == [total : Int, weight : Nat \ {0}, label : Nat, shape : Nat]

\* A single sample as a prototype of weight 1.
Exemplar(x, y) == [total |-> x.at, weight |-> 1, label |-> y, shape |-> x.shape]

Sample == [at : Int, shape : Nat]

NoLabel == -1   \* Python's None as an answer; class labels are 0, 1, 2, ...

Labels(protos) == {protos[i].label : i \in DOMAIN protos}

Abs(n) == IF n < 0 THEN -n ELSE n

(* |p.vector - q.vector| is Gap(p, q) / (p.weight * q.weight).             *)
Gap(p, q) == Abs(p.total * q.weight - q.total * p.weight)

Within(p, q, radius) ==
    /\ p.shape = q.shape
    /\ Gap(p, q) < radius * p.weight * q.weight

(* key(): the identity used for deduplication, which ignores the weight.   *)
SameKey(p, q) == p.label = q.label /\ p.shape = q.shape /\ Gap(p, q) = 0

(* The elements of s at the indices in I, in order: a list comprehension   *)
(* with a condition.                                                       *)
Pick(s, I) ==
    LET kept[n \in 0 .. Len(s)] ==
            IF n = 0 THEN << >>
            ELSE IF n \in I THEN Append(kept[n - 1], s[n]) ELSE kept[n - 1]
    IN  kept[Len(s)]

Without(s, j) ==
    [k \in 1 .. Len(s) - 1 |-> IF k < j THEN s[k] ELSE s[k + 1]]

-----------------------------------------------------------------------------
(* Inference                                                               *)

Closer(p, q, x) == Gap(p, x) * q.weight < Gap(q, x) * p.weight

(* argmin over the indices I: the first index at the least distance.       *)
Nearest(protos, I, x) ==
    CHOOSE i \in I : \A j \in I :
        /\ ~ Closer(protos[j], protos[i], x)
        /\ Closer(protos[i], protos[j], x) \/ i <= j

DimMatches(protos, x) == protos[1].shape = x.shape

predict(protos, x) ==
    IF protos = << >> \/ ~ DimMatches(protos, x) THEN NoLabel
    ELSE protos[Nearest(protos, DOMAIN protos, Exemplar(x, 0))].label

(* accuracy(), as the number of hits: xs and ys are the holdout, and both  *)
(* sides of every comparison of accuracies use the same holdout.           *)
Hits(protos, held) ==
    Cardinality({i \in DOMAIN held : predict(protos, held[i].x) = held[i].y})

-----------------------------------------------------------------------------
(* Consolidation                                                           *)

SameClassPairs(protos) ==
    {pair \in (DOMAIN protos) \X (DOMAIN protos) :
        /\ pair[1] < pair[2]
        /\ protos[pair[1]].label = protos[pair[2]].label}

(* The scan order of _prune: classes by first appearance, then row-major.  *)
FirstOf(protos, label) ==
    CHOOSE i \in DOMAIN protos :
        /\ protos[i].label = label
        /\ \A j \in DOMAIN protos : protos[j].label = label => i <= j

ScannedBefore(protos, a, b) ==
    LET first(pair) == FirstOf(protos, protos[pair[1]].label)
    IN  \/ first(a) < first(b)
        \/ first(a) = first(b) /\ a[1] < b[1]
        \/ a[1] = b[1] /\ a[2] <= b[2]

PairCloser(protos, a, b) ==
    LET p == protos[a[1]]  q == protos[a[2]]  r == protos[b[1]]  s == protos[b[2]]
    IN  Gap(p, q) * (r.weight * s.weight) < Gap(r, s) * (p.weight * q.weight)

NearestPair(protos) ==
    CHOOSE a \in SameClassPairs(protos) : \A b \in SameClassPairs(protos) :
        /\ ~ PairCloser(protos, b, a)
        /\ PairCloser(protos, a, b) \/ ScannedBefore(protos, a, b)

\* Mutant of Consolidated: the centroid keeps the weight of one of the two.
ForgetsWeight(p, q) == [p EXCEPT !.total = p.total + q.total]

Consolidated(p, q) ==
    [total |-> p.total + q.total, weight |-> p.weight + q.weight,
     label |-> p.label, shape |-> p.shape]

(* No prototype is lighter than the first one: min() returns it, and       *)
(* list.remove finds it by identity.  When the lightest stands further     *)
(* back, list.remove compares it with the first by ==, which compares two  *)
(* numpy vectors and raises ValueError.                                    *)
FirstIsLightest(protos) == \A i \in DOMAIN protos : protos[1].weight <= protos[i].weight

\* Mutant of PruneOnce: the second of the two is not deleted.
FusedInPlace(protos) ==
    IF SameClassPairs(protos) # {}
    THEN LET pair == NearestPair(protos)
         IN  [protos |-> [protos EXCEPT ![pair[1]] = Consolidated(@, protos[pair[2]])],
              raised |-> FALSE]
    ELSE [protos |-> protos, raised |-> TRUE]

(* One turn of _prune's while loop on a list over budget.                  *)
PruneOnce(protos) ==
    IF SameClassPairs(protos) # {}
    THEN LET pair == NearestPair(protos)
             fused == Consolidated(protos[pair[1]], protos[pair[2]])
         IN  [protos |-> Without([protos EXCEPT ![pair[1]] = fused], pair[2]),
              raised |-> FALSE]
    ELSE IF FirstIsLightest(protos)
    THEN [protos |-> Without(protos, 1), raised |-> FALSE]
    ELSE [protos |-> protos, raised |-> TRUE]

(* _prune: every turn drops one prototype, so the loop takes Len -         *)
(* MaxPrototypes turns, unless a turn raises.                              *)
Prune(protos) ==
    LET excess == IF Len(protos) > MaxPrototypes THEN Len(protos) - MaxPrototypes ELSE 0
        turn[k \in 0 .. excess] ==
            IF k = 0 THEN [protos |-> protos, raised |-> FALSE]
            ELSE LET sofar == turn[k - 1]
                 IN  IF sofar.raised THEN sofar ELSE PruneOnce(sofar.protos)
    IN  turn[excess]

-----------------------------------------------------------------------------
(* Learning and merging.  A model is [protos, counter, bumper]: the last   *)
(* two are its Version.                                                    *)

Genesis == [protos |-> << >>, counter |-> 0, bumper |-> "none"]

Bumped(model, protos, node) ==
    [protos |-> protos, counter |-> model.counter + 1, bumper |-> node]

AbsorbRadius(protos) ==
    IF 2 * Len(protos) < MaxPrototypes THEN AbsorbNear ELSE AbsorbFull

(* learn(): absorb into the nearest prototype of the class, or append and  *)
(* prune.  When _prune raises, the list stays as it is by then and the     *)
(* version is not bumped.                                                  *)
Learned(model, x, y, node) ==
    LET sample == Exemplar(x, y)
        same   == {i \in DOMAIN model.protos : model.protos[i].label = y}
        near   == Nearest(model.protos, same, sample)
        pruned == Prune(Append(model.protos, sample))
    IN  IF same # {} /\ Within(model.protos[near], sample, AbsorbRadius(model.protos))
        THEN Bumped(model, [model.protos EXCEPT ![near] = Consolidated(@, sample)], node)
        ELSE IF pruned.raised THEN [model EXCEPT !.protos = pruned.protos]
        ELSE Bumped(model, pruned.protos, node)

(* The body of merged_with's loop: one incoming prototype p.  `own` is the *)
(* receiver's list before the merge: `seen` is computed from it once.      *)
Clashes(protos, p) ==
    {i \in DOMAIN protos : Within(protos[i], p, ConflictRadius) /\ protos[i].label # p.label}

\* Mutants of Take: an untrusted sender overrides too; no deduplication.
TakeFromAnyone(own, trust, merge, p) ==
    IF \E i \in DOMAIN own : SameKey(own[i], p) THEN merge
    ELSE [merge EXCEPT
             !.protos = Append(Pick(@, (DOMAIN @) \ Clashes(@, p)), p),
             !.accepted = @ + 1]

TakeDuplicates(own, trust, merge, p) ==
    IF Clashes(merge.protos, p) # {} /\ trust < OverrideTrust
    THEN [merge EXCEPT !.conflicts = @ + 1]
    ELSE [merge EXCEPT !.protos = Append(@, p), !.accepted = @ + 1]

Take(own, trust, merge, p) ==
    IF \E i \in DOMAIN own : SameKey(own[i], p) THEN merge
    ELSE IF \/ merge.protos # << >> /\ merge.protos[1].shape # p.shape
            \/ Clashes(merge.protos, p) # {} /\ trust < OverrideTrust
    THEN [merge EXCEPT !.conflicts = @ + 1]
    ELSE [merge EXCEPT
             !.protos = Append(Pick(@, (DOMAIN @) \ Clashes(@, p)), p),
             !.accepted = @ + 1]

(* merged_with(): a candidate model; the caller decides whether to keep    *)
(* it.  `raised` says that _prune raised and there is no candidate.        *)
MergedWith(model, incoming, node, trust) ==
    LET taken[k \in 0 .. Len(incoming)] ==
            IF k = 0 THEN [protos |-> model.protos, accepted |-> 0, conflicts |-> 0]
            ELSE Take(model.protos, trust, taken[k - 1], incoming[k])
        all    == taken[Len(incoming)]
        pruned == Prune(all.protos)
    IN  [model     |-> Bumped(model, pruned.protos, node),
         accepted  |-> all.accepted,
         conflicts |-> all.conflicts,
         raised    |-> pruned.raised]
=============================================================================
