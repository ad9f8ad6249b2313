----------------------------- MODULE MCGpClient -----------------------------
EXTENDS GpClient, TLC

CONSTANTS t1, t2

=============================================================================
