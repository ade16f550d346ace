------------------------------ MODULE Restarts ------------------------------
(***************************************************************************)
(* The running program with restarts: the process ends at any moment (a    *)
(* signal, a panic or the end of its container) and is started again with  *)
(* the same options, as deploy/docker-compose.yaml asks.  Run waits for    *)
(* neither the loop nor a request, and nothing is persisted, so the        *)
(* monitor, the queue, the gauges and every goroutine begin anew.          *)
(***************************************************************************)
EXTENDS Scheduler

CONSTANT MaxRestarts      \* bound: restarts in a behaviour

ASSUME RestartsAssumption == MaxRestarts \in Nat

VARIABLE restarts         \* restarts so far

\* MUTANT: the check-in of --start-active is skipped after a restart, as if
\* run.go:109-111 asked whether the monitor had been active before
RestartForgetsToStart ==
    /\ restarts < MaxRestarts
    /\ InHorizon
    /\ restarts' = restarts + 1
    /\ phase' = "scheduled"
    /\ lastCheckIn' = NoTime
    /\ overdueSince' = NoTime
    /\ ResetIncident
    /\ emitted' = <<>>
    /\ ctxDone' = FALSE
    /\ timer' = NilTimer
    /\ rescheduleCh' = 0
    /\ gauges' = [g \in Followed |-> GaugeValue(Snapshot', g)]
    /\ tally' = [c \in Statuses \X Results |-> 0]
    /\ received' = 0
    /\ queue' = <<>>
    /\ pc' = [p \in Goroutines |-> IF p = Loop THEN "sync" ELSE "idle"]
    /\ arg' = [p \in Goroutines |-> NoTime]
    /\ event' = [p \in Goroutines |-> NoEvent]
    /\ snap' = [p \in Goroutines |-> NoSnapshot]
    /\ gi' = [p \in Goroutines |-> 1]
    /\ next' = NoDeadline
    /\ UNCHANGED <<issued, clock, sendResolved, historyVars>>

\* The state of SchedulerInit, but for the clock, the options and the
\* identities, which are random and not reused by another process.
Restart ==
    /\ restarts < MaxRestarts
    /\ InHorizon
    /\ restarts' = restarts + 1
    /\ phase' = "scheduled"
    /\ lastCheckIn' = NoTime
    /\ overdueSince' = NoTime
    /\ ResetIncident
    /\ emitted' = <<>>
    /\ ctxDone' = FALSE
    /\ timer' = NilTimer
    /\ rescheduleCh' = 0
    /\ gauges' = [g \in Followed |-> GaugeValue(Snapshot', g)]
    /\ tally' = [c \in Statuses \X Results |-> 0]
    /\ received' = 0
    /\ queue' = <<>>
    /\ pc' = [p \in Goroutines |-> IF p = Loop THEN "start" ELSE "idle"]
    /\ arg' = [p \in Goroutines |-> NoTime]
    /\ event' = [p \in Goroutines |-> NoEvent]
    /\ snap' = [p \in Goroutines |-> NoSnapshot]
    /\ gi' = [p \in Goroutines |-> 1]
    /\ next' = NoDeadline
    /\ UNCHANGED <<issued, clock, sendResolved, historyVars>>

RestartsInit == SchedulerInit /\ restarts = 0

RestartsNext == (SchedulerNext /\ UNCHANGED restarts) \/ Restart

\* The goroutines of each process run, and time passes; no restart has to come.
RestartsSpec ==
    /\ RestartsInit
    /\ [][RestartsNext]_<<vars, restarts>>
    /\ WF_<<vars, restarts>>(Tick /\ UNCHANGED restarts)
    /\ WF_<<vars, restarts>>(LoopStep /\ UNCHANGED restarts)
    /\ \A h \in Handlers : WF_<<vars, restarts>>(HandlerStep(h) /\ UNCHANGED restarts)

-----------------------------------------------------------------------------
(* Properties.                                                             *)

\* The running process has queued the alert of the incident it is in.
Reported ==
    /\ phase = "alerting"
    /\ \E i \in DOMAIN queue :
           /\ queue[i].status = "alerting"
           /\ queue[i].incidentID = incidentID

\* The loop never sleeps through an outage.  With --start-active, in the first
\* process and in each that follows it: while the loop sleeps with no wake-up
\* pending, its timer fires no later than the alerting deadline (or is due
\* already), unless the alert is in this process's queue or one was refused.
\* It fails if a restart could begin without a check-in, or the check-in of
\* --start-active not reach the loop that starts after it (run.go:109-119;
\* scheduler.go:76, 99-104, 136-147).
OutageIsWatched ==
    FALSE \notin StartActive /\ At(Loop, "select") /\ ~WakePending =>
        \/ /\ timer.state = "armed"
           /\ timer.fireAt <= AlertingAt \/ timer.fireAt <= clock
        \/ Reported
        \/ AlertRefused

\* With --start-active and a queue that takes what it is given, an outage is
\* reported although any number of alerts may have been lost in processes that
\* ended before or after Enqueue: when check-ins and restarts have stopped, the
\* alert is in the queue of the process that runs, unless that one is being
\* shut down (run.go:109-119, 151; scheduler.go:124-127).
SilenceIsReported == <>[](ctxDone \/ Reported)

=============================================================================
