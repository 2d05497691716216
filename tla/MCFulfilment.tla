---------------------------- MODULE MCFulfilment ----------------------------
\* Instances of Fulfilment for TLC; orders, units and runs are alike.
EXTENDS Fulfilment, TLC

Alike == Permutations(Orders) \cup Permutations(Assets) \cup Permutations(Runs)
=============================================================================
