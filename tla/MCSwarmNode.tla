----------------------------- MODULE MCSwarmNode -----------------------------
(***************************************************************************)
(* Small instances of SwarmNode.  Points are in half units of the code's   *)
(* default radii: absorb 0.5 / 1.0, conflict 1.5, corroboration 4.0.       *)
(***************************************************************************)
EXTENDS SwarmNode, TLC

At(n) == [at |-> n, shape |-> 1]

P(at, label) == Exemplar(At(at), label)

D(at, label) == [x |-> At(at), y |-> label]

\* Class 0 lives at 0 and class 1 at 12; a class-1 prototype at 2 or a class-0
\* prototype at 10 contradicts them.
MCClasses == {0, 1}
BothStream == {D(0, 0), D(12, 1)}
FlippedClaim == {D(2, 1)}
ForeignClaim == {D(12, 1)}

\* More classes than the budget of two prototypes.
ThreeClasses == {0, 1, 2}
ThreeStream == BothStream \cup {D(24, 2)}

\* For trust: contradictions of the node's class 0, help with class 1, and a
\* prototype of another task's shape.
TrustBatches == { << P(2, 1) >>, << P(12, 1) >> , << P(10, 0), P(13, 1) >>,
                  << Exemplar([at |-> 12, shape |-> 2], 0) >> }

\* A contradiction of class 0 and new knowledge of class 1.
VerdictBatches == { << P(2, 1) >>, << P(20, 1) >> }

Symmetry == Permutations(Peers)
=============================================================================
