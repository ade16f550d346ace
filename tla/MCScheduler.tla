---------------------------- MODULE MCScheduler ----------------------------
(***************************************************************************)
(* Instances of the running program for TLC.  Each .cfg chooses the        *)
(* options, the number of handlers and of requests, and the gauges that    *)
(* its question needs.                                                     *)
(***************************************************************************)
EXTENDS Scheduler, TLC

\* Handlers are interchangeable: every request runs the same code.
HandlerSymmetry == Permutations(Handlers)

\* Gauges followed by an instance, in the order the code writes them.
SevenGauges == AllGauges
TwoGauges == <<"alerting", "expectedBy">>
OneGauge == <<"alerting">>

=============================================================================
