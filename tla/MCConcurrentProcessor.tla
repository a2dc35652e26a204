------------------------ MODULE MCConcurrentProcessor ------------------------
EXTENDS ConcurrentProcessor, TLC

CONSTANTS w1, w2, c1, c2, c3

Symmetry == Permutations(Workers) \cup Permutations(Clients)
=============================================================================
