-------------------------- MODULE MCStatusRequests --------------------------
(***************************************************************************)
(* Status requests beside a small instance of the running program, with    *)
(* all seven gauges or with one: status requests do not look at them.      *)
(***************************************************************************)
EXTENDS StatusRequests

OneGauge == <<"alerting">>

SevenGauges == AllGauges

=============================================================================
