--------------------------- MODULE MCNatTraversal ---------------------------
(* Small instances of NatTraversal: two nodes behind NATs and a rendezvous. *)
EXTENDS NatTraversal, TLC

CONSTANTS left, right, rendezvous    \* nodes

OneWants == (left :> << right >>) @@ (right :> << >>)
BothWant == (left :> << right >>) @@ (right :> << left >>)

Bounds(wanted, symmetric, attempts, gossip, rebinds, copies, sends) ==
    [wanted |-> wanted, symmetric |-> symmetric, attempts |-> attempts, gossip |-> gossip,
     rebinds |-> rebinds, copies |-> copies, sends |-> sends]

BothPunch == Bounds(BothWant, {}, 1, 0, 0, 0, 4)

\* Each has troubles of its own: a datagram that comes twice, a symmetric NAT,
\* a NAT that changes its port, a second attempt, two nodes that punch at once.
Troubles ==
    { Bounds(OneWants, {}, 1, 1, 0, 1, 3), Bounds(OneWants, {right}, 1, 1, 0, 0, 4),
      Bounds(OneWants, {}, 1, 0, 1, 0, 4), Bounds(OneWants, {}, 2, 0, 0, 0, 4),
      BothPunch }
=============================================================================
