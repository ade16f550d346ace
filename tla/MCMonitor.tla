----------------------------- MODULE MCMonitor -----------------------------
(***************************************************************************)
(* The monitor alone, driven at arbitrary times, for up to three       *)
(* alerting episodes one after the other.                                  *)
(***************************************************************************)
EXTENDS Monitor

=============================================================================
