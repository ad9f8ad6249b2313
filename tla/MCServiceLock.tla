---------------------------- MODULE MCServiceLock ----------------------------
(***************************************************************************)
(* Two clients of the services, alike.                                      *)
(***************************************************************************)
EXTENDS ServiceLock, TLC

CONSTANTS c1, c2

=============================================================================
