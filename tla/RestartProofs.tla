--------------------------- MODULE RestartProofs ---------------------------
(***************************************************************************)
(* Proofs about the program with restarts, for any number of them at any   *)
(* step: every process keeps the promises of the first one, and with       *)
(* --start-active none of them sleeps through an outage.                   *)
(***************************************************************************)
EXTENDS Restarts, NotificationProofs

\* With --start-active, the loop of a process never runs before a check-in.
WatchInv ==
    FALSE \notin StartActive /\ ~At(Loop, "start") => phase # "scheduled"

RestartInv == NotificationInv /\ WatchInv

-----------------------------------------------------------------------------
(* A restart leaves nothing of the process before it.                      *)

LEMMA RestartIsFresh ==
    ASSUME SchedulerTypeOK, TimesInv, Restart
    PROVE  FreshProcess'
<1>1. /\ phase' = "scheduled" /\ lastCheckIn' = NoTime /\ overdueSince' = NoTime
      /\ incidentID' = NoID /\ alertingNotificationID' = NoID
      /\ emitted' = <<>> /\ issued' = issued /\ issued \in Nat
  BY DEF Restart, ResetIncident, SchedulerTypeOK, MonitorTypeOK
<1>2. FreshMonitor'
  BY <1>1 DEF FreshMonitor
<1>3. /\ clock' = clock /\ clock \in Nat \ {0}
      /\ sendResolved' = sendResolved /\ sendResolved \in BOOLEAN
      /\ requests' = requests /\ requests \in Nat
      /\ newest' = newest /\ newest \in Nat
  BY DEF Restart, historyVars, SchedulerTypeOK, TimesInv
<1> QED BY <1>2, <1>3 DEF Restart, FreshProcess

LEMMA RestartsInitInv == RestartsInit => RestartInv
<1> SUFFICES ASSUME RestartsInit PROVE RestartInv
  OBVIOUS
<1>1. NotificationInv
  BY NotificationInvInit DEF RestartsInit
<1>2. At(Loop, "start")
  BY DEF RestartsInit, SchedulerInit, At, Goroutines
<1> QED BY <1>1, <1>2 DEF RestartInv, WatchInv

-----------------------------------------------------------------------------
(* Only the check-in of --start-active leads the loop out of its start, and *)
(* no step of a process makes its monitor scheduled again.                 *)

LEMMA PhaseStaysActive ==
    ASSUME SchedulerTypeOK, TimesInv, [SchedulerNext]_vars, phase # "scheduled"
    PROVE  phase' # "scheduled"
<1>1. MonitorTypeOK /\ clock \in Nat
  BY DEF SchedulerTypeOK
<1>2. ASSUME NEW t, RecordCheckIn(t)
      PROVE  phase' # "scheduled"
  BY <1>2 DEF RecordCheckIn
<1>3. ASSUME NEW t \in 0..clock, Check(t)
      PROVE  phase' # "scheduled"
  <2>1. t \in Nat
    BY <1>1
  <2> QED BY <1>1, <1>3, <2>1, CheckFacts
<1>4. UNCHANGED monitorVars => phase' # "scheduled"
  BY DEF monitorVars
<1> QED BY <1>2, <1>3, <1>4, MonitorStep

LEMMA StartActiveLeavesStart ==
    ASSUME SchedulerTypeOK, StartInv, [SchedulerNext]_vars, FALSE \notin StartActive,
           At(Loop, "start"), ~At(Loop, "start")'
    PROVE  phase' # "scheduled"
<1> USE DEF At, Goto
<1>1. /\ Loop \in Goroutines /\ \A h \in Handlers : h \in Goroutines /\ h # Loop
      /\ pc \in [Goroutines -> HandlerLabels \cup LoopLabels]
      /\ pc[Loop] = "start" /\ pc'[Loop] # "start"
  BY ProcessesAssumption DEF Goroutines, SchedulerTypeOK
<1>2. CASE Tick \/ Shutdown \/ Finished \/ UNCHANGED vars
  BY <1>1, <1>2 DEF Tick, Shutdown, Finished, vars
<1>3. ASSUME NEW h \in Handlers, HandlerArrives(h) \/ HandlerStep(h)
      PROVE  FALSE
  <2>1. CASE HandlerArrives(h)
    BY <1>1, <2>1 DEF HandlerArrives
  <2>2. CASE HandlerStep(h)
    BY <1>1, <2>2 DEF HandlerStep, HandlerRecords, HandlerEnqueues, HandlerWritesGauge,
       HandlerWakesLoop, Enqueue, WriteGauge, StartInv
  <2> QED BY <1>3, <2>1, <2>2
<1>4. CASE LoopStep
  <2>1. StartActivated
    BY <1>1, <1>4 DEF LoopStep, StartScheduled, LoopReadsDeadline, LoopSyncsTimer,
       LoopStops, LoopTakesToken, LoopReadsClock, LoopTakesTimer, LoopChecks,
       LoopEnqueues, LoopReadsSnapshot, LoopWritesGauge, Enqueue, WriteGauge
  <2> QED BY <2>1 DEF StartActivated, RecordCheckIn
<1> QED BY <1>2, <1>3, <1>4 DEF SchedulerNext

LEMMA RestartsStepInv ==
    RestartInv /\ [RestartsNext]_<<vars, restarts>> => RestartInv'
<1>1. FreshProcess' => NotificationInv'
  BY NotificationInvFresh, PTL
<1> SUFFICES ASSUME RestartInv, [RestartsNext]_<<vars, restarts>> PROVE RestartInv'
  OBVIOUS
<1>2. /\ NotificationInv /\ WatchInv /\ StartInv /\ SchedulerTypeOK /\ TimesInv
  BY DEF RestartInv, NotificationInv, SchedulerInv
<1>3. CASE Restart
  <2>1. NotificationInv'
    BY <1>1, <1>2, <1>3, RestartIsFresh
  <2>2. pc'[Loop] = "start"
    BY <1>3 DEF Restart, Goroutines
  <2> QED BY <2>1, <2>2 DEF RestartInv, WatchInv, At
<1>4. CASE [SchedulerNext]_vars
  <2>1. NotificationInv'
    BY <1>2, <1>4, NotificationInvStep
  <2>2. WatchInv'
    <3> SUFFICES ASSUME FALSE \notin StartActive, ~At(Loop, "start")'
                 PROVE  phase' # "scheduled"
      BY DEF WatchInv
    <3>1. CASE At(Loop, "start")
      BY <1>2, <1>4, <3>1, StartActiveLeavesStart
    <3>2. CASE ~At(Loop, "start")
      <4>1. phase # "scheduled"
        BY <1>2, <3>2 DEF WatchInv
      <4> QED BY <1>2, <1>4, <4>1, PhaseStaysActive
    <3> QED BY <3>1, <3>2
  <2> QED BY <2>1, <2>2 DEF RestartInv
<1> QED BY <1>3, <1>4 DEF RestartsNext

\* The invariant of the program holds in every process, however many follow one
\* another and wherever they end.
THEOREM RestartInvariant == RestartsSpec => []RestartInv
<1> QED BY RestartsInitInv, RestartsStepInv, PTL DEF RestartsSpec

-----------------------------------------------------------------------------
(* What the program promises, after any number of restarts.                *)

\* No process sleeps on a wrong timer with no wake-up on its way
\* (scheduler.go:136-147, 226-231; run.go:99-119).
THEOREM RestartsLoseNoWakeup == RestartsSpec => []NoLostWakeup
<1>1. RestartInv => NoLostWakeup
  BY DEF RestartInv, NotificationInv, SchedulerInv
<1> QED BY <1>1, RestartInvariant, PTL

\* Every event of the running process is in flight or counted once, and only a
\* refusal keeps one of its alerts out of its queue: no event, count or queue
\* entry of an earlier process remains (scheduler.go:99-105, 124-128, 152-199).
THEOREM RestartsKeepAccounts ==
    RestartsSpec => [](NotificationsAccounted /\ AlertsReachQueue)
<1>1. RestartInv => NotificationsAccounted /\ AlertsReachQueue
  BY DEF RestartInv, NotificationInv, CountInv, HeldInv, AlertInv,
     NotificationsAccounted, HeldWith, WithStatus
<1> QED BY <1>1, RestartInvariant, PTL

\* With --start-active no process sleeps through an outage: its timer is armed
\* for the alerting deadline or an earlier one, or the alert is in its queue, or
\* notifykit refused one (run.go:109-119; scheduler.go:136-147).
THEOREM OutagesAreWatched == RestartsSpec => []OutageIsWatched
<1>1. RestartInv => OutageIsWatched
  <2> SUFFICES ASSUME RestartInv, FALSE \notin StartActive, At(Loop, "select"),
                      ~WakePending, ~AlertRefused, ~Reported
               PROVE  /\ timer.state = "armed"
                      /\ timer.fireAt <= AlertingAt \/ timer.fireAt <= clock
    BY DEF OutageIsWatched
  <2>1. /\ NotificationInv /\ WatchInv /\ NoLostWakeup
        /\ PhaseInv /\ MonitorTypeOK /\ SchedulerTypeOK
    BY DEF RestartInv, NotificationInv, SchedulerInv, MonitorInv
  <2>2. phase # "alerting"
    <3>1. AlertingPhaseIsNotified
      BY <2>1, UnrefusedIsNotified
    <3> QED BY <3>1 DEF AlertingPhaseIsNotified, Reported
  <2>3. phase \in {"awaiting", "overdue"} /\ lastCheckIn # NoTime
    BY <2>1, <2>2 DEF WatchInv, At, PhaseInv, MonitorTypeOK, Phases
  <2>4. NextDeadline.active /\ NextDeadline.at \in {ExpectedBy, AlertingAt}
    BY <2>3 DEF NextDeadline, Inactive
  <2>5. /\ timer.state = "armed"
        /\ timer.fireAt = NextDeadline.at \/ timer.fireAt <= clock
    BY <2>1, <2>4 DEF NoLostWakeup
  <2>6. ExpectedBy <= AlertingAt /\ AlertingAt <= AlertingAt
    BY <2>1, ScheduleFacts DEF MonitorTypeOK
  <2> QED BY <2>4, <2>5, <2>6
<1> QED BY <1>1, RestartInvariant, PTL

=============================================================================
