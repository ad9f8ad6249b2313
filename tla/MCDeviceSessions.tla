-------------------------- MODULE MCDeviceSessions --------------------------
EXTENDS DeviceSessions
CONSTANTS w1, c1, c2, s1, s2
MCServedBy == [c \in Clients |-> w1]
=============================================================================
