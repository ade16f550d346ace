----------------------------- MODULE MCRestarts -----------------------------
(***************************************************************************)
(* An instance of the restarting program for TLC.                          *)
(***************************************************************************)
EXTENDS Restarts

OneGauge == <<"alerting">>

=============================================================================
