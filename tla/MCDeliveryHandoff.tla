------------------------- MODULE MCDeliveryHandoff -------------------------
\* Instances of DeliveryHandoff for TLC: two processes, two handler runs and
\* two taps are alike, so their names may be permuted.
EXTENDS DeliveryHandoff, TLC

Alike == Permutations(Senders) \cup Permutations(Creators) \cup Permutations(Taps)
=============================================================================
