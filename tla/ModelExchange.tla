---------------------------- MODULE ModelExchange ----------------------------
(***************************************************************************)
(* Two models that learn from their own streams, one of which merges what  *)
(* the other holds: PrototypeModel without the gates of SwarmNode, so that *)
(* what merging itself keeps, loses and repeats can be checked on every    *)
(* pair of models that learning and merging produce.                       *)
(***************************************************************************)
EXTENDS PrototypeModel, SequencesExt

CONSTANTS
    Stream,      \* labelled samples [x, y]
    Trusts,      \* the sender_trust values tried
    MaxVersion   \* bound on either model's version counter

ASSUME ExchangeAssumption ==
    /\ Stream \subseteq [x : Sample, y : Nat]
    /\ Trusts \subseteq 0 .. 1000 /\ MaxVersion \in Nat

VARIABLES mine, theirs

vars == << mine, theirs >>

Init == mine = Genesis /\ theirs = Genesis

LearnMine(d) ==
    /\ mine.counter < MaxVersion
    /\ mine' = Learned(mine, d.x, d.y, "me")
    /\ UNCHANGED theirs

LearnTheirs(d) ==
    /\ theirs.counter < MaxVersion
    /\ theirs' = Learned(theirs, d.x, d.y, "them")
    /\ UNCHANGED mine

Merge(trust) ==
    LET merge == MergedWith(mine, theirs.protos, "me", trust)
    IN  /\ mine.counter < MaxVersion
        /\ ~ merge.raised
        /\ mine' = merge.model
        /\ UNCHANGED theirs

Next ==
    \/ \E d \in Stream : LearnMine(d) \/ LearnTheirs(d)
    \/ \E t \in Trusts : Merge(t)

Spec == Init /\ [][Next]_vars

-----------------------------------------------------------------------------
SumOf(values) ==
    LET upto[n \in 0 .. Len(values)] == IF n = 0 THEN 0 ELSE upto[n - 1] + values[n]
    IN  upto[Len(values)]

\* The samples of class c behind a list of prototypes, and the sum of them.
Weights(protos, c) == [i \in 1 .. Len(protos) |-> IF protos[i].label = c THEN protos[i].weight ELSE 0]
Totals(protos, c)  == [i \in 1 .. Len(protos) |-> IF protos[i].label = c THEN protos[i].total ELSE 0]

Weight(protos, c) == SumOf(Weights(protos, c))
Total(protos, c)  == SumOf(Totals(protos, c))

(* The shape of the state; both models stay within the budget.             *)
TypeOK ==
    \A m \in {mine, theirs} :
        /\ m.protos \in Seq(Prototype) /\ Len(m.protos) <= MaxPrototypes
        /\ m.counter \in 0 .. MaxVersion

(* _prune forgets no evidence: while a class can still be consolidated,    *)
(* every class keeps its weight and its mean, and the list ends within the *)
(* budget.                                                                 *)
PruneKeepsEvidence ==
    LET all == mine.protos \o theirs.protos
        end == Prune(all)
    IN  Cardinality(Labels(all)) <= MaxPrototypes =>
          /\ ~ end.raised /\ Len(end.protos) <= MaxPrototypes
          /\ \A c \in Labels(all) : /\ Weight(end.protos, c) = Weight(all, c)
                                    /\ Total(end.protos, c) = Total(all, c)

(* A sender below override_trust takes nothing away: after merging its     *)
(* prototypes no class rests on less evidence than before (merged_with     *)
(* drops a contradiction of a low-trust sender).                           *)
UntrustedTakesNothing ==
    \A t \in {u \in Trusts : u < OverrideTrust} :
        LET merge == MergedWith(mine, theirs.protos, "me", t)
        IN  Cardinality(Labels(mine.protos \o theirs.protos)) <= MaxPrototypes =>
                \A c \in Labels(mine.protos) :
                    Weight(merge.model.protos, c) >= Weight(mine.protos, c)

(* Gossip repeats itself: offered the same prototypes again by a sender    *)
(* below override_trust, a model that merged them within its budget takes  *)
(* none (the "pure no-op (all duplicates)" of receive()).                  *)
RepeatIsNoOp ==
    \A t \in {u \in Trusts : u < OverrideTrust} :
        LET once  == MergedWith(mine, theirs.protos, "me", t)
            twice == MergedWith(once.model, theirs.protos, "me", t)
        IN  Len(mine.protos) + once.accepted <= MaxPrototypes =>
                twice.accepted = 0 /\ twice.model.protos = once.model.protos

(* The module's docstring: "Merging is order-invariant (set union +        *)
(* prune)".  The same prototypes in the opposite order give the same set.  *)
OrderInvariant ==
    \A t \in Trusts :
        ToSet(MergedWith(mine, theirs.protos, "me", t).model.protos)
            = ToSet(MergedWith(mine, Reverse(theirs.protos), "me", t).model.protos)
=============================================================================
