--------------------------- MODULE MCModelExchange ---------------------------
(* A small instance of ModelExchange, in half units of the default radii.  *)
EXTENDS ModelExchange

At(n) == [at |-> n, shape |-> 1]

\* Two classes that meet between 1 and 2, and a sample of the second far from it.
MCStream == {[x |-> At(n), y |-> 0] : n \in {0, 1}}
            \cup {[x |-> At(n), y |-> 1] : n \in {2, 9}}

MCTrusts == {500, 650}
=============================================================================
