--------------------------- MODULE MCForwardTask ---------------------------
EXTENDS ForwardTask

\* Goroutines and producers are interchangeable.
Perms == Permutations(Callers) \cup Permutations(Producers)
=============================================================================
