--------------------------- MODULE MCSharedBuffers ---------------------------
EXTENDS SharedBuffers, TLC

CONSTANTS c1, c2, s1, s2, b1, b2

\* A client's buffers can be exchanged for each other.
Symmetry == Permutations(Bufs) \cup Permutations(Clients)

==============================================================================
