--------------------------- MODULE MCClientServer ---------------------------
EXTENDS ClientServer, TLC
CONSTANTS c1, c2
MCSymmetry == Permutations(Clients)
AllSent == [c \in Clients |-> Commands]
FewSent == [c \in Clients |-> IF c = c1 THEN {"NQ_CONNECT"} ELSE {"NOTIFY"}]
=============================================================================
