------------------------------ MODULE MCOutbox ------------------------------
\* An instance of Outbox for TLC: two drains of one process and one of another,
\* so that both fences (owner and generation) are needed.
EXTENDS Outbox, TLC

CONSTANTS w1, w2, d1, d2, d3

MCOwnerOf == (d1 :> w1) @@ (d2 :> w1) @@ (d3 :> w2)

\* The two drains of one process are alike.
Alike == Permutations({d1, d2})
=============================================================================
