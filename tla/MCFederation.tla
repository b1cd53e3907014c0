---------------------------- MODULE MCFederation ----------------------------
(* Small instances of Federation: the genesis and one or two other beacons. *)
EXTENDS Federation, TLC

CONSTANTS g, a, c    \* beacons

OneSpace == [b \in Beacons |-> "digits"]

\* Two beacons, one of which crashes, over more than a lifetime.
Two(b) == [beacons |-> {g, b}, inFlight |-> 2, crashes |-> 1, closed |-> 0, time |-> 3]

\* Three that forward each other's adverts, while a firewall may close.
Three == [beacons |-> {g, a, c}, inFlight |-> 1, crashes |-> 0, closed |-> 1, time |-> 1]

TwoOrThree == {Two(a), Two(c), Three}

\* A firewall closes and the time it may be believed open passes.
Inbound == {[beacons |-> {g, a}, inFlight |-> 2, crashes |-> 0, closed |-> 1, time |-> 5]}

Symmetry == Permutations({a, c})
=============================================================================
