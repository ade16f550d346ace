-------------------------- MODULE SchedulerProofs --------------------------
(***************************************************************************)
(* Proofs about the running program for every set of handlers, interval,   *)
(* delay and bound.                                                        *)
(***************************************************************************)
EXTENDS Scheduler, MonitorProofs

\* A time read from the clock is never ahead of it, nor is what was recorded.
TimesInv ==
    /\ clock >= 1
    /\ lastCheckIn <= clock
    /\ \A h \in Handlers : At(h, "record") => arg[h] \in 1..clock
    /\ At(Loop, "check") => arg[Loop] <= clock

\* The deadline the loop is about to arm is current or a wake-up is pending,
\* and a loop woken by a token has stopped its timer; gauge writes start at
\* the first gauge.
LoopInv ==
    /\ At(Loop, "arm") /\ ~WakePending => next = NextDeadline
    /\ At(Loop, "woken") => timer.state = "nil"
    /\ ~At(Loop, "gauge") => gi[Loop] = 1

\* With no wake-up pending, the gauges the loop has written since it read the
\* monitor are current, and all of them are when it has written them all.
GaugeInv ==
    ~WakePending =>
        /\ pc[Loop] \in {"start", "sync", "arm", "select"} => GaugesShow(gauges, Snapshot)
        /\ At(Loop, "gauge") =>
               /\ snap[Loop] = Snapshot
               /\ \A j \in 1..(gi[Loop] - 1) :
                      gauges[Gauges[j]] = GaugeValue(Snapshot, Gauges[j])

SchedulerInv ==
    /\ MonitorInv
    /\ SchedulerTypeOK
    /\ TimesInv
    /\ NoSpuriousAlert
    /\ LoopInv
    /\ NoLostWakeup
    /\ TimerWakeMakesProgress
    /\ GaugeInv

-----------------------------------------------------------------------------
(* Facts about the operators.                                              *)

LEMMA SnapshotType == MonitorTypeOK => Snapshot \in SnapshotRecord
BY ScheduleFacts DEF MonitorTypeOK, Snapshot, SnapshotRecord, Phases, NoTime

\* The same of the snapshot a call of the monitor returns.
LEMMA SnapshotTypeNext == MonitorTypeOK' => Snapshot' \in SnapshotRecord
<1> SUFFICES ASSUME MonitorTypeOK' PROVE Snapshot' \in SnapshotRecord
  OBVIOUS
<1>1. ExpectedBy' \in Nat /\ AlertingAt' \in Nat
  <2>1. PICK t \in Nat : t = lastCheckIn'
    BY DEF MonitorTypeOK
  <2>2. /\ t + ExpectedEvery \in Nat
        /\ t + ExpectedEvery + AlertingDelay \in Nat
    BY DurationsAssumption
  <2>3. /\ ExpectedBy' = t + ExpectedEvery
        /\ AlertingAt' = t + ExpectedEvery + AlertingDelay
    BY <2>1 DEF ExpectedBy, AlertingAt
  <2> QED BY <2>2, <2>3
<1> QED BY <1>1 DEF MonitorTypeOK, Snapshot, SnapshotRecord, Phases, NoTime

LEMMA NextDeadlineType == MonitorTypeOK => NextDeadline \in [at : Nat, active : BOOLEAN]
<1> SUFFICES ASSUME MonitorTypeOK PROVE NextDeadline \in [at : Nat, active : BOOLEAN]
  OBVIOUS
<1>1. ExpectedBy \in Nat /\ AlertingAt \in Nat
  BY ScheduleFacts
<1>2. CASE ~Inactive /\ phase = "awaiting"
  BY <1>1, <1>2 DEF NextDeadline
<1>3. CASE ~Inactive /\ phase = "overdue"
  BY <1>1, <1>3 DEF NextDeadline
<1>4. CASE Inactive \/ phase \notin {"awaiting", "overdue"}
  BY <1>4 DEF NextDeadline, NoTime
<1> QED BY <1>2, <1>3, <1>4

\* What callers read of the monitor depends on the monitor alone.
LEMMA MonitorViews ==
    UNCHANGED monitorVars =>
        /\ Snapshot' = Snapshot
        /\ NextDeadline' = NextDeadline
        /\ ExpectedBy' = ExpectedBy
        /\ AlertingAt' = AlertingAt
BY DEF monitorVars, Snapshot, NextDeadline, Inactive, ExpectedBy, AlertingAt

LEMMA GaugeValueType ==
    ASSUME NEW s \in SnapshotRecord, NEW g
    PROVE  GaugeValue(s, g) \in Nat
<1>1. \A t \in Nat : TimestampValue(t) \in Nat
  BY TicksAssumption DEF TimestampValue
<1>2. PhaseValue(s, g) \in Nat
  BY DEF PhaseValue
<1>3. s.lastCheckIn \in Nat /\ s.expectedBy \in Nat /\ s.alertingAt \in Nat
  BY DEF SnapshotRecord
<1> QED BY <1>1, <1>2, <1>3 DEF GaugeValue

LEMMA GaugesFacts ==
    /\ Len(Gauges) \in Nat \ {0}
    /\ DOMAIN Gauges = 1..Len(Gauges)
    /\ \A i \in DOMAIN Gauges : Gauges[i] \in Followed
<1>1. Gauges \in Seq(GaugeNames) /\ Gauges # <<>>
  BY GaugesAssumption
<1> QED BY <1>1 DEF Followed

\* The event returned by a call of the monitor, when the history was extended.
LEMMA ReturnedType ==
    ASSUME emitted' \in Seq(Event), emitted' # emitted => Len(emitted') > 0
    PROVE  Returned \in Event \cup {NoEvent}
<1>1. CASE emitted' = emitted
  BY <1>1 DEF Returned
<1>2. CASE emitted' # emitted
  <2>1. emitted'[Len(emitted')] \in Event
    BY <1>2
  <2> QED BY <1>2, <2>1 DEF Returned
<1> QED BY <1>1, <1>2

LEMMA TimerFacts ==
    ASSUME NEW t \in Timer, NEW now \in Nat, NEW d \in [at : Nat, active : BOOLEAN]
    PROVE  /\ Sync(t, d, now) \in Timer
           /\ Stop(t) \in Timer /\ Stop(t).state = "nil"
           /\ Spend(t) \in Timer /\ Spend(t).state = "spent"
           /\ ~d.active => Sync(t, d, now).state = "nil"
           /\ d.active => /\ Sync(t, d, now).state = "armed"
                          /\ Sync(t, d, now).fireAt >= d.at
                          /\ \/ Sync(t, d, now).fireAt = d.at
                             \/ Sync(t, d, now).fireAt <= now
BY DEF Timer, Sync, Stop, Spend, ResetAt, NilTimer

\* A call of the monitor extends the history by at most one event.
LEMMA EmittedGrows ==
    ASSUME MonitorTypeOK, NEW t \in Nat, RecordCheckIn(t) \/ Check(t), emitted' # emitted
    PROVE  Len(emitted') > 0
<1>1. ASSUME NEW e, emitted' = Append(emitted, e)
      PROVE  Len(emitted') > 0
  <2>1. emitted \in Seq(Event)
    BY DEF MonitorTypeOK
  <2> QED BY <1>1, <2>1
<1>2. CASE RecordCheckIn(t)
  BY <1>1, <1>2 DEF RecordCheckIn, EmitResolved
<1>3. CASE Check(t)
  BY <1>1, <1>3 DEF Check, CheckNothingDue, CheckEntersOverdue,
     CheckAwaitingEntersAlerting, CheckOverdueEntersAlerting, EmitAlerting, monitorVars
<1> QED BY <1>2, <1>3

-----------------------------------------------------------------------------
(* Type correctness of each step.                                          *)

LEMMA EnqueueType ==
    ASSUME SchedulerTypeOK, NEW p \in Goroutines,
           NEW label \in {"gauge", "snapshot"}, Enqueue(p, label)
    PROVE  /\ tally' \in [Statuses \X Results -> Nat]
           /\ queue' \in Seq(Event)
           /\ event' = [event EXCEPT ![p] = NoEvent]
           /\ pc' = [pc EXCEPT ![p] = label]
<1>1. /\ event[p] \in Event
      /\ event[p].status \in Statuses
  BY DEF SchedulerTypeOK, Enqueue, Event, Statuses
<1>2. PossibleOutcomes \subseteq Results /\ "no_resolved_receivers" \in Results
  BY OptionsAssumption DEF PossibleOutcomes, Results, Outcomes
<1>3. ASSUME NEW r \in Results, Count(event[p].status, r)
      PROVE  tally' \in [Statuses \X Results -> Nat]
  BY <1>1, <1>3 DEF Count, SchedulerTypeOK
<1>4. tally' \in [Statuses \X Results -> Nat]
  BY <1>2, <1>3 DEF Enqueue
<1>5. queue' = queue \/ queue' = Append(queue, event[p])
  BY DEF Enqueue
<1>6. queue' \in Seq(Event)
  <2>1. queue \in Seq(Event)
    BY DEF SchedulerTypeOK
  <2> QED BY <1>1, <1>5, <2>1
<1> QED BY <1>4, <1>6 DEF Enqueue, Goto

LEMMA WriteGaugeType ==
    ASSUME SchedulerTypeOK, NEW p \in Goroutines,
           NEW label \in {"wake", "sync"}, WriteGauge(p, label)
    PROVE  /\ gauges' \in [Followed -> Nat]
           /\ gi' \in [Goroutines -> DOMAIN Gauges]
           /\ snap' \in [Goroutines -> SnapshotRecord]
           /\ \/ pc' = pc
              \/ pc' = [pc EXCEPT ![p] = label]
<1>1. gi[p] \in DOMAIN Gauges /\ Gauges[gi[p]] \in Followed
  BY GaugesFacts DEF SchedulerTypeOK
<1>2. GaugeValue(snap[p], Gauges[gi[p]]) \in Nat
  BY GaugeValueType DEF SchedulerTypeOK
<1>3. gauges' \in [Followed -> Nat]
  BY <1>1, <1>2 DEF WriteGauge, SchedulerTypeOK
<1>4. gi' \in [Goroutines -> DOMAIN Gauges]
  <2>1. gi \in [Goroutines -> DOMAIN Gauges]
    BY DEF SchedulerTypeOK
  <2>2. \/ gi[p] < Len(Gauges) /\ gi' = [gi EXCEPT ![p] = gi[p] + 1]
        \/ gi' = [gi EXCEPT ![p] = 1]
    BY DEF WriteGauge
  <2>3. gi[p] < Len(Gauges) => gi[p] + 1 \in DOMAIN Gauges
    BY <1>1, GaugesFacts
  <2>4. 1 \in DOMAIN Gauges
    BY GaugesFacts
  <2> QED BY <2>1, <2>2, <2>3, <2>4
<1>5. NoSnapshot \in SnapshotRecord
  BY DEF NoSnapshot, SnapshotRecord, Phases, NoTime
<1>6. snap' \in [Goroutines -> SnapshotRecord]
  BY <1>5 DEF WriteGauge, SchedulerTypeOK
<1> QED BY <1>3, <1>4, <1>6 DEF WriteGauge, Goto

LEMMA HandlerTypeStep ==
    ASSUME SchedulerTypeOK, MonitorTypeOK', NEW h \in Handlers,
           HandlerArrives(h) \/ HandlerStep(h)
    PROVE  SchedulerTypeOK'
<1> USE ProcessesAssumption DEF At, Goto, loopVars, metricVars, historyVars
<1>0. h \in Goroutines /\ h # Loop /\ Loop \in Goroutines
  BY DEF Goroutines
<1>1. CASE HandlerArrives(h)
  BY <1>0, <1>1 DEF HandlerArrives, SchedulerTypeOK, HandlerLabels, LoopLabels
<1>2. CASE HandlerRecords(h)
  <2>1. Returned \in Event \cup {NoEvent}
    <3>1. arg[h] \in Nat /\ MonitorTypeOK
      BY <1>0 DEF SchedulerTypeOK
    <3> QED BY <1>2, <3>1, ReturnedType, EmittedGrows DEF HandlerRecords, MonitorTypeOK
  <2>2. Snapshot' \in SnapshotRecord
    BY SnapshotTypeNext
  <2>3. /\ event' \in [Goroutines -> Event \cup {NoEvent}]
        /\ snap' \in [Goroutines -> SnapshotRecord]
    BY <1>0, <1>2, <2>1, <2>2 DEF HandlerRecords, SchedulerTypeOK
  <2>4. /\ pc' = [pc EXCEPT ![h] = IF Returned = NoEvent THEN "gauge" ELSE "enqueue"]
        /\ event' = [event EXCEPT ![h] = Returned]
        /\ arg' = [arg EXCEPT ![h] = NoTime]
        /\ newest' \in {arg[h], newest}
        /\ UNCHANGED <<clock, sendResolved, ctxDone, timer, next, rescheduleCh,
                       gauges, tally, received, queue, gi, requests>>
    BY <1>2 DEF HandlerRecords
  <2>5. \A p \in Goroutines : pc'[p] = "enqueue" <=> event'[p] # NoEvent
    BY <1>0, <2>4 DEF SchedulerTypeOK
  <2> QED BY <1>0, <2>3, <2>4, <2>5 DEF SchedulerTypeOK, HandlerLabels, LoopLabels, NoTime
<1>3. CASE HandlerEnqueues(h)
  <2>1. /\ tally' \in [Statuses \X Results -> Nat]
        /\ queue' \in Seq(Event)
        /\ event' = [event EXCEPT ![h] = NoEvent]
        /\ pc' = [pc EXCEPT ![h] = "gauge"]
    BY <1>0, <1>3, EnqueueType DEF HandlerEnqueues
  <2> QED BY <1>0, <1>3, <2>1
          DEF HandlerEnqueues, SchedulerTypeOK, HandlerLabels, LoopLabels
<1>4. CASE HandlerWritesGauge(h)
  <2>1. /\ gauges' \in [Followed -> Nat]
        /\ gi' \in [Goroutines -> DOMAIN Gauges]
        /\ snap' \in [Goroutines -> SnapshotRecord]
        /\ \/ pc' = pc
           \/ pc' = [pc EXCEPT ![h] = "wake"]
        /\ At(h, "gauge")
    <3>1. WriteGauge(h, "wake") /\ pc[h] = "gauge"
      BY <1>4 DEF HandlerWritesGauge, WriteGauge
    <3> QED BY <1>0, <3>1, WriteGaugeType
  <2>2. UNCHANGED <<clock, sendResolved, ctxDone, timer, next, rescheduleCh,
                    tally, received, queue, arg, event, requests, newest>>
    BY <1>4 DEF HandlerWritesGauge
  <2>3. \A p \in Goroutines : pc'[p] = "enqueue" <=> pc[p] = "enqueue"
    BY <1>0, <2>1 DEF SchedulerTypeOK
  <2>4. /\ pc' \in [Goroutines -> HandlerLabels \cup LoopLabels]
        /\ pc'[Loop] \in LoopLabels
        /\ \A k \in Handlers : pc'[k] \in HandlerLabels
    <3>1. CASE pc' = pc
      BY <3>1 DEF SchedulerTypeOK
    <3>2. CASE pc' = [pc EXCEPT ![h] = "wake"]
      BY <1>0, <3>2 DEF SchedulerTypeOK, HandlerLabels, LoopLabels
    <3> QED BY <2>1, <3>1, <3>2
  <2> QED BY <2>1, <2>2, <2>3, <2>4 DEF SchedulerTypeOK
<1>5. CASE HandlerWakesLoop(h)
  BY <1>0, <1>5 DEF HandlerWakesLoop, RequestReschedule, SchedulerTypeOK,
     HandlerLabels, LoopLabels
<1> QED BY <1>1, <1>2, <1>3, <1>4, <1>5 DEF HandlerStep

LEMMA LoopTypeStep ==
    ASSUME SchedulerTypeOK, MonitorTypeOK', LoopStep
    PROVE  SchedulerTypeOK'
<1> USE ProcessesAssumption DEF At, Goto, loopVars, metricVars, historyVars
<1>0. Loop \in Goroutines /\ \A h \in Handlers : h \in Goroutines /\ h # Loop
  BY DEF Goroutines
<1>a. MonitorTypeOK /\ timer \in Timer /\ clock \in Nat
      /\ next \in [at : Nat, active : BOOLEAN]
  BY DEF SchedulerTypeOK
<1>1. CASE StartScheduled
  BY <1>0, <1>1 DEF StartScheduled, SchedulerTypeOK, HandlerLabels, LoopLabels
<1>2. CASE StartActivated
  <2>1. Snapshot' \in SnapshotRecord
    BY SnapshotTypeNext
  <2>2. \A g \in Followed : GaugeValue(Snapshot', g) \in Nat
    BY <2>1, GaugeValueType
  <2>3. gauges' \in [Followed -> Nat]
    BY <1>2, <2>2 DEF StartActivated
  <2> QED BY <1>0, <1>2, <2>3
          DEF StartActivated, RequestReschedule, SchedulerTypeOK, HandlerLabels, LoopLabels
<1>3. CASE LoopReadsDeadline
  BY <1>0, <1>a, <1>3, NextDeadlineType
     DEF LoopReadsDeadline, SchedulerTypeOK, HandlerLabels, LoopLabels
<1>4. CASE LoopSyncsTimer
  BY <1>0, <1>a, <1>4, TimerFacts
     DEF LoopSyncsTimer, SchedulerTypeOK, HandlerLabels, LoopLabels, NoDeadline, NoTime
<1>5. CASE LoopStops
  BY <1>0, <1>a, <1>5, TimerFacts
     DEF LoopStops, SchedulerTypeOK, HandlerLabels, LoopLabels
<1>6. CASE LoopTakesToken
  BY <1>0, <1>a, <1>6, TimerFacts
     DEF LoopTakesToken, SchedulerTypeOK, HandlerLabels, LoopLabels
<1>7. CASE LoopReadsClock
  BY <1>0, <1>7 DEF LoopReadsClock, SchedulerTypeOK, HandlerLabels, LoopLabels
<1>8. CASE LoopTakesTimer
  <2>1. PICK sent \in timer.fireAt..clock : arg' = [arg EXCEPT ![Loop] = sent]
    BY <1>8 DEF LoopTakesTimer
  <2>2. sent \in Nat
    BY <1>a DEF Timer
  <2>3. timer' \in Timer
    BY <1>a, <1>8, TimerFacts DEF LoopTakesTimer
  <2> QED BY <1>0, <1>8, <2>1, <2>2, <2>3
          DEF LoopTakesTimer, SchedulerTypeOK, HandlerLabels, LoopLabels
<1>9. CASE LoopChecks
  <2>1. Returned \in Event \cup {NoEvent}
    <3>1. arg[Loop] \in Nat
      BY <1>0 DEF SchedulerTypeOK
    <3> QED BY <1>a, <1>9, <3>1, ReturnedType, EmittedGrows DEF LoopChecks, MonitorTypeOK
  <2>2. event' \in [Goroutines -> Event \cup {NoEvent}]
    BY <1>0, <1>9, <2>1 DEF LoopChecks, SchedulerTypeOK
  <2>3. /\ pc' = [pc EXCEPT ![Loop] = IF Returned = NoEvent THEN "snapshot" ELSE "enqueue"]
        /\ event' = [event EXCEPT ![Loop] = Returned]
        /\ arg' = [arg EXCEPT ![Loop] = NoTime]
        /\ UNCHANGED <<clock, sendResolved, ctxDone, timer, next, rescheduleCh,
                       gauges, tally, received, queue, snap, gi, requests, newest>>
    BY <1>9 DEF LoopChecks
  <2>4. \A p \in Goroutines : pc'[p] = "enqueue" <=> event'[p] # NoEvent
    BY <1>0, <2>3 DEF SchedulerTypeOK
  <2> QED BY <1>0, <2>2, <2>3, <2>4 DEF SchedulerTypeOK, HandlerLabels, LoopLabels, NoTime
<1>10. CASE LoopEnqueues
  <2>1. /\ tally' \in [Statuses \X Results -> Nat]
        /\ queue' \in Seq(Event)
        /\ event' = [event EXCEPT ![Loop] = NoEvent]
        /\ pc' = [pc EXCEPT ![Loop] = "snapshot"]
    BY <1>0, <1>10, EnqueueType DEF LoopEnqueues
  <2> QED BY <1>0, <1>10, <2>1
          DEF LoopEnqueues, SchedulerTypeOK, HandlerLabels, LoopLabels
<1>11. CASE LoopReadsSnapshot
  BY <1>0, <1>a, <1>11, SnapshotType
     DEF LoopReadsSnapshot, SchedulerTypeOK, HandlerLabels, LoopLabels
<1>12. CASE LoopWritesGauge
  <2>1. /\ gauges' \in [Followed -> Nat]
        /\ gi' \in [Goroutines -> DOMAIN Gauges]
        /\ snap' \in [Goroutines -> SnapshotRecord]
        /\ \/ pc' = pc
           \/ pc' = [pc EXCEPT ![Loop] = "sync"]
        /\ At(Loop, "gauge")
    BY <1>0, <1>12, WriteGaugeType DEF LoopWritesGauge, WriteGauge
  <2> QED BY <1>0, <1>12, <2>1
          DEF LoopWritesGauge, SchedulerTypeOK, HandlerLabels, LoopLabels
<1> QED BY <1>1, <1>2, <1>3, <1>4, <1>5, <1>6, <1>7, <1>8, <1>9, <1>10, <1>11, <1>12
        DEF LoopStep

LEMMA TypeStep ==
    ASSUME SchedulerTypeOK, MonitorTypeOK', [SchedulerNext]_vars
    PROVE  SchedulerTypeOK'
<1>1. CASE Tick
  BY <1>1 DEF Tick, At, SchedulerTypeOK, loopVars, metricVars, historyVars
<1>2. CASE Shutdown
  BY <1>2 DEF Shutdown, At, SchedulerTypeOK, loopVars, metricVars, historyVars
<1>3. CASE UNCHANGED vars
  BY <1>3 DEF vars, At, SchedulerTypeOK, loopVars, metricVars, historyVars
<1>4. Finished => UNCHANGED vars
  BY DEF Finished
<1> QED BY <1>1, <1>2, <1>3, <1>4, HandlerTypeStep, LoopTypeStep DEF SchedulerNext

-----------------------------------------------------------------------------
(* The monitor inside the program.                                         *)

\* Each step is a call of the monitor or leaves it alone.
LEMMA MonitorStep ==
    ASSUME SchedulerTypeOK, TimesInv, [SchedulerNext]_vars
    PROVE  \/ UNCHANGED monitorVars
           \/ \E h \in Handlers : HandlerRecords(h) /\ RecordCheckIn(arg[h])
                                  /\ arg[h] \in 1..clock
           \/ StartActivated /\ RecordCheckIn(clock)
           \/ LoopChecks /\ Check(arg[Loop]) /\ arg[Loop] \in 0..clock
<1>1. CASE Tick \/ Shutdown \/ Finished \/ UNCHANGED vars
  BY <1>1 DEF Tick, Shutdown, Finished, vars
<1>2. ASSUME NEW h \in Handlers, HandlerArrives(h) \/ HandlerStep(h)
      PROVE  \/ UNCHANGED monitorVars
             \/ HandlerRecords(h) /\ RecordCheckIn(arg[h]) /\ arg[h] \in 1..clock
  BY <1>2 DEF HandlerStep, HandlerArrives, HandlerRecords, HandlerEnqueues,
     HandlerWritesGauge, HandlerWakesLoop, TimesInv
<1>3. CASE LoopChecks
  <2>1. At(Loop, "check") /\ Check(arg[Loop])
    BY <1>3 DEF LoopChecks
  <2>2. arg[Loop] \in Nat /\ clock \in Nat /\ arg[Loop] <= clock
    BY <2>1 DEF SchedulerTypeOK, TimesInv, Goroutines
  <2>3. arg[Loop] \in 0..clock
    BY <2>2
  <2> QED BY <1>3, <2>1, <2>3
<1>4. CASE StartActivated
  BY <1>4 DEF StartActivated
<1>5. CASE LoopStep
  BY <1>3, <1>4, <1>5 DEF LoopStep, StartScheduled, LoopReadsDeadline, LoopSyncsTimer,
     LoopStops, LoopTakesToken, LoopReadsClock, LoopTakesTimer, LoopEnqueues,
     LoopReadsSnapshot, LoopWritesGauge
<1> QED BY <1>1, <1>2, <1>5 DEF SchedulerNext

LEMMA MonitorInvStep ==
    ASSUME MonitorInv, SchedulerTypeOK, TimesInv, [SchedulerNext]_vars
    PROVE  MonitorInv'
<1>1. clock \in Nat \ {0}
  BY DEF SchedulerTypeOK, TimesInv
<1>2. ASSUME NEW t \in 1..clock, RecordCheckIn(t)
      PROVE  MonitorInv'
  <2>1. t \in Nat \ {0}
    BY <1>1
  <2> QED BY <1>2, <2>1, RecordCheckInPreserves
<1>3. ASSUME NEW t \in 0..clock, Check(t)
      PROVE  MonitorInv'
  <2>1. t \in Nat
    BY <1>1
  <2> QED BY <1>3, <2>1, CheckPreserves
<1>4. clock \in 1..clock
  BY <1>1
<1> QED BY <1>2, <1>3, <1>4, MonitorStep, MonitorInvStutter

\* What Check may do to the phase, and when.
LEMMA CheckFacts ==
    ASSUME MonitorTypeOK, NEW now \in Nat, Check(now)
    PROVE  /\ UNCHANGED lastCheckIn
           /\ \/ phase' = phase
              \/ phase' = "overdue" /\ now >= ExpectedBy
              \/ phase' = "alerting" /\ now >= ExpectedBy /\ now >= AlertingAt
<1>1. /\ AlertingAt >= ExpectedBy /\ AlertingAt \in Nat /\ ExpectedBy \in Nat
  BY ScheduleFacts
<1>2. CASE CheckNothingDue(now)
  BY <1>2 DEF CheckNothingDue, monitorVars
<1>3. CASE CheckEntersOverdue(now)
  BY <1>3 DEF CheckEntersOverdue
<1>4. CASE CheckAwaitingEntersAlerting(now)
  BY <1>4 DEF CheckAwaitingEntersAlerting
<1>5. CASE CheckOverdueEntersAlerting(now)
  <2>1. now >= AlertingAt
    BY <1>5 DEF CheckOverdueEntersAlerting
  <2>2. now >= ExpectedBy
    BY <1>1, <2>1
  <2> QED BY <1>5, <2>1, <2>2 DEF CheckOverdueEntersAlerting
<1> QED BY <1>2, <1>3, <1>4, <1>5 DEF Check

LEMMA ClockStep == [SchedulerNext]_vars => clock' \in {clock, clock + 1}
BY DEF SchedulerNext, vars, Tick, Shutdown, Finished, HandlerStep, HandlerArrives,
   HandlerRecords, HandlerEnqueues, HandlerWritesGauge, HandlerWakesLoop, LoopStep,
   StartScheduled, StartActivated, LoopReadsDeadline, LoopSyncsTimer, LoopStops,
   LoopTakesToken, LoopReadsClock, LoopTakesTimer, LoopChecks, LoopEnqueues,
   LoopReadsSnapshot, LoopWritesGauge

LEMMA NoSpuriousAlertStep ==
    ASSUME SchedulerTypeOK, TimesInv, NoSpuriousAlert, [SchedulerNext]_vars
    PROVE  NoSpuriousAlert'
<1>1. clock \in Nat /\ MonitorTypeOK /\ ExpectedBy \in Nat /\ AlertingAt \in Nat
  BY ScheduleFacts DEF SchedulerTypeOK
<1>2. clock' \in {clock, clock + 1}
  BY ClockStep
<1>3. CASE UNCHANGED monitorVars
  <2>1. phase' = phase /\ ExpectedBy' = ExpectedBy /\ AlertingAt' = AlertingAt
    BY <1>3, MonitorViews DEF monitorVars
  <2> QED BY <1>1, <1>2, <2>1 DEF NoSpuriousAlert
<1>4. CASE phase' = "awaiting"
  BY <1>4 DEF NoSpuriousAlert
<1>5. CASE LoopChecks /\ Check(arg[Loop]) /\ arg[Loop] \in 0..clock
  <2>1. PICK now \in 0..clock : now = arg[Loop]
    BY <1>5
  <2>2. now \in Nat /\ Check(now)
    BY <1>1, <1>5, <2>1
  <2>3. /\ lastCheckIn' = lastCheckIn
        /\ \/ phase' = phase
           \/ phase' = "overdue" /\ now >= ExpectedBy
           \/ phase' = "alerting" /\ now >= ExpectedBy /\ now >= AlertingAt
    BY <1>1, <2>2, CheckFacts
  <2>4. ExpectedBy' = ExpectedBy /\ AlertingAt' = AlertingAt
    BY <2>3 DEF ExpectedBy, AlertingAt
  <2>5. clock' = clock
    BY <1>5 DEF LoopChecks
  <2> QED BY <1>1, <2>1, <2>3, <2>4, <2>5 DEF NoSpuriousAlert
<1>6. ASSUME NEW t, RecordCheckIn(t)
      PROVE  phase' = "awaiting"
  BY <1>6 DEF RecordCheckIn
<1> QED BY <1>3, <1>4, <1>5, <1>6, MonitorStep

-----------------------------------------------------------------------------
(* Times, wake-ups and gauges.                                             *)

LEMMA TimesStep ==
    ASSUME SchedulerTypeOK, TimesInv, [SchedulerNext]_vars
    PROVE  TimesInv'
<1> USE DEF At, Goto, loopVars, metricVars, historyVars
<1>0. /\ clock \in Nat /\ clock >= 1 /\ lastCheckIn \in Nat /\ lastCheckIn <= clock
      /\ arg \in [Goroutines -> Nat] /\ pc \in [Goroutines -> HandlerLabels \cup LoopLabels]
      /\ Loop \in Goroutines /\ \A h \in Handlers : h \in Goroutines /\ h # Loop
  BY ProcessesAssumption DEF SchedulerTypeOK, MonitorTypeOK, TimesInv, Goroutines
<1>1. CASE UNCHANGED vars
  BY <1>1 DEF vars, monitorVars, TimesInv
<1>2. CASE Tick
  BY <1>0, <1>2 DEF Tick, monitorVars, TimesInv
<1>3. CASE Shutdown
  BY <1>3 DEF Shutdown, monitorVars, TimesInv
<1>4. ASSUME NEW h \in Handlers, HandlerArrives(h)
      PROVE  TimesInv'
  <2>1. /\ UNCHANGED <<clock, lastCheckIn>>
        /\ arg' = [arg EXCEPT ![h] = clock]
        /\ pc' = [pc EXCEPT ![h] = "record"]
    BY <1>4 DEF HandlerArrives, monitorVars
  <2>2. clock \in 1..clock
    BY <1>0
  <2> QED BY <1>0, <2>1, <2>2 DEF TimesInv
<1>5. ASSUME NEW h \in Handlers, HandlerRecords(h)
      PROVE  TimesInv'
  <2>1. /\ clock' = clock /\ lastCheckIn' = arg[h] /\ arg[h] \in 1..clock
        /\ arg' = [arg EXCEPT ![h] = NoTime]
        /\ pc' = [pc EXCEPT ![h] = IF Returned = NoEvent THEN "gauge" ELSE "enqueue"]
    BY <1>5 DEF HandlerRecords, RecordCheckIn, TimesInv
  <2>2. PICK t \in 1..clock : t = arg[h]
    BY <2>1
  <2>3. t <= clock
    BY <1>0
  <2>4. lastCheckIn' <= clock'
    BY <2>1, <2>2, <2>3
  <2>5. \A k \in Handlers : pc'[k] = "record" => arg'[k] \in 1..clock'
    BY <1>0, <2>1 DEF TimesInv
  <2>6. pc'[Loop] = "check" => arg'[Loop] <= clock'
    BY <1>0, <2>1 DEF TimesInv
  <2> QED BY <1>0, <2>1, <2>4, <2>5, <2>6 DEF TimesInv
<1>6. ASSUME NEW h \in Handlers,
             HandlerEnqueues(h) \/ HandlerWritesGauge(h) \/ HandlerWakesLoop(h)
      PROVE  TimesInv'
  <2>1. /\ UNCHANGED <<clock, lastCheckIn, arg>>
        /\ \/ pc' = pc
           \/ pc' = [pc EXCEPT ![h] = "gauge"]
           \/ pc' = [pc EXCEPT ![h] = "wake"]
           \/ pc' = [pc EXCEPT ![h] = "idle"]
    BY <1>6 DEF HandlerEnqueues, HandlerWritesGauge, HandlerWakesLoop, Enqueue,
       WriteGauge, monitorVars
  <2>2. /\ \A k \in Handlers : pc'[k] = "record" => pc[k] = "record"
        /\ pc'[Loop] = pc[Loop]
    BY <1>0, <2>1
  <2> QED BY <2>1, <2>2 DEF TimesInv
<1>7. CASE LoopStep
  <2>1. \A h \in Handlers : pc'[h] = pc[h] /\ arg'[h] = arg[h]
    BY <1>0, <1>7 DEF LoopStep, StartScheduled, StartActivated, LoopReadsDeadline,
       LoopSyncsTimer, LoopStops, LoopTakesToken, LoopReadsClock, LoopTakesTimer,
       LoopChecks, LoopEnqueues, LoopReadsSnapshot, LoopWritesGauge, Enqueue, WriteGauge
  <2>2. clock' = clock
    BY <1>7 DEF LoopStep, StartScheduled, StartActivated, LoopReadsDeadline,
       LoopSyncsTimer, LoopStops, LoopTakesToken, LoopReadsClock, LoopTakesTimer,
       LoopChecks, LoopEnqueues, LoopReadsSnapshot, LoopWritesGauge
  <2>3. lastCheckIn' = lastCheckIn \/ lastCheckIn' = clock
    <3>1. CASE LoopChecks
      <4>1. arg[Loop] \in Nat /\ MonitorTypeOK /\ Check(arg[Loop])
        BY <1>0, <3>1 DEF SchedulerTypeOK, LoopChecks
      <4> QED BY <4>1, CheckFacts
    <3> QED BY <1>7, <3>1 DEF LoopStep, StartScheduled, StartActivated, LoopReadsDeadline,
       LoopSyncsTimer, LoopStops, LoopTakesToken, LoopReadsClock, LoopTakesTimer,
       LoopEnqueues, LoopReadsSnapshot, LoopWritesGauge, RecordCheckIn, monitorVars
  <2>4. pc'[Loop] = "check" => arg'[Loop] <= clock
    <3>1. CASE LoopReadsClock
      BY <1>0, <3>1 DEF LoopReadsClock
    <3>2. CASE LoopTakesTimer
      <4>1. PICK sent \in timer.fireAt..clock : arg' = [arg EXCEPT ![Loop] = sent]
        BY <3>2 DEF LoopTakesTimer
      <4>2. timer.fireAt \in Nat
        BY DEF SchedulerTypeOK, Timer
      <4>3. sent <= clock
        BY <1>0, <4>2
      <4> QED BY <1>0, <4>1, <4>3
    <3>3. CASE ~LoopReadsClock /\ ~LoopTakesTimer
      <4>1. pc'[Loop] # "check"
        BY <1>0, <1>7, <3>3 DEF LoopStep, StartScheduled, StartActivated,
           LoopReadsDeadline, LoopSyncsTimer, LoopStops, LoopTakesToken, LoopChecks,
           LoopEnqueues, LoopReadsSnapshot, LoopWritesGauge, Enqueue, WriteGauge
      <4> QED BY <4>1
    <3> QED BY <3>1, <3>2, <3>3
  <2> QED BY <1>0, <2>1, <2>2, <2>3, <2>4 DEF TimesInv
<1>8. Finished => UNCHANGED vars
  BY DEF Finished
<1> QED BY <1>1, <1>2, <1>3, <1>4, <1>5, <1>6, <1>7, <1>8 DEF SchedulerNext, HandlerStep

\* The invariants that speak of a loop with no wake-up pending.
WakeInv == LoopInv /\ NoLostWakeup /\ TimerWakeMakesProgress /\ GaugeInv

\* Whether a wake-up is pending depends on the token and the handlers alone.
LEMMA WakePendingUnchanged ==
    ASSUME rescheduleCh' = rescheduleCh, \A h \in Handlers : pc'[h] = pc[h]
    PROVE  WakePending' <=> WakePending
BY DEF WakePending

\* A wake-up that is pending leaves nothing else to show.
LEMMA WakeInvWhenPending ==
    ASSUME WakeInv, WakePending', pc'[Loop] = pc[Loop], gi'[Loop] = gi[Loop],
           timer' = timer
    PROVE  WakeInv'
BY DEF WakeInv, LoopInv, NoLostWakeup, TimerWakeMakesProgress, GaugeInv, At

\* From the recording of a check-in to the token, a wake-up is pending.
LEMMA HandlerWakeStep ==
    ASSUME SchedulerTypeOK, WakeInv, NEW h \in Handlers, HandlerStep(h)
    PROVE  WakeInv'
<1> USE ProcessesAssumption DEF At, Goto, loopVars, metricVars, historyVars
<1>1. /\ h \in Goroutines /\ h # Loop /\ Loop \in Goroutines
      /\ pc \in [Goroutines -> HandlerLabels \cup LoopLabels]
      /\ gi \in [Goroutines -> DOMAIN Gauges]
  BY DEF Goroutines, SchedulerTypeOK
<1>2. ASSUME pc'[h] \in {"enqueue", "gauge", "wake"} \/ rescheduleCh' = 1
      PROVE  WakePending'
  BY <1>2 DEF WakePending
<1>3. CASE HandlerRecords(h)
  <2>1. /\ pc' = [pc EXCEPT ![h] = IF Returned = NoEvent THEN "gauge" ELSE "enqueue"]
        /\ UNCHANGED <<timer, gi>>
    BY <1>3 DEF HandlerRecords
  <2> QED BY <1>1, <1>2, <2>1, WakeInvWhenPending
<1>4. CASE HandlerEnqueues(h)
  <2>1. pc' = [pc EXCEPT ![h] = "gauge"] /\ UNCHANGED <<timer, gi>>
    BY <1>4 DEF HandlerEnqueues, Enqueue
  <2> QED BY <1>1, <1>2, <2>1, WakeInvWhenPending
<1>5. CASE HandlerWritesGauge(h)
  <2>1. /\ pc[h] = "gauge"
        /\ pc' = pc \/ pc' = [pc EXCEPT ![h] = "wake"]
        /\ gi' = [gi EXCEPT ![h] = gi[h] + 1] \/ gi' = [gi EXCEPT ![h] = 1]
        /\ timer' = timer
    BY <1>5 DEF HandlerWritesGauge, WriteGauge
  <2>2. /\ pc'[h] \in {"gauge", "wake"}
        /\ pc'[Loop] = pc[Loop]
        /\ gi'[Loop] = gi[Loop]
    BY <1>1, <2>1
  <2> QED BY <1>2, <2>1, <2>2, WakeInvWhenPending
<1>6. CASE HandlerWakesLoop(h)
  <2>1. pc' = [pc EXCEPT ![h] = "idle"] /\ rescheduleCh' = 1 /\ UNCHANGED <<timer, gi>>
    BY <1>6 DEF HandlerWakesLoop, RequestReschedule
  <2> QED BY <1>1, <1>2, <2>1, WakeInvWhenPending
<1> QED BY <1>3, <1>4, <1>5, <1>6 DEF HandlerStep

\* Steps that leave the loop, its timer, the monitor and the gauges alone.
LEMMA QuietWakeStep ==
    ASSUME SchedulerTypeOK, WakeInv, UNCHANGED monitorVars,
           UNCHANGED <<timer, next, rescheduleCh, gauges>>, clock' \in {clock, clock + 1},
           WakePending' <=> WakePending,
           pc'[Loop] = pc[Loop], arg'[Loop] = arg[Loop], snap'[Loop] = snap[Loop],
           gi'[Loop] = gi[Loop]
    PROVE  WakeInv'
<1>1. Snapshot' = Snapshot /\ NextDeadline' = NextDeadline
  BY MonitorViews
<1>2. LoopInv' /\ TimerWakeMakesProgress'
  BY <1>1 DEF WakeInv, LoopInv, TimerWakeMakesProgress, At
<1>3. GaugeInv'
  BY <1>1 DEF WakeInv, GaugeInv, GaugesShow, At
<1>4. NoLostWakeup'
  <2>1. clock \in Nat /\ timer.fireAt \in Nat
    BY DEF SchedulerTypeOK, Timer
  <2>2. timer.fireAt <= clock => timer.fireAt <= clock'
    BY <2>1
  <2> QED BY <1>1, <2>2 DEF WakeInv, NoLostWakeup, At
<1> QED BY <1>2, <1>3, <1>4 DEF WakeInv

LEMMA LoopWakeStep ==
    ASSUME SchedulerTypeOK, WakeInv, LoopStep
    PROVE  WakeInv'
<1> USE DEF At, Goto, loopVars, metricVars, historyVars
<1>1. /\ Loop \in Goroutines
      /\ \A h \in Handlers : h \in Goroutines /\ h # Loop
      /\ pc \in [Goroutines -> HandlerLabels \cup LoopLabels]
      /\ gi \in [Goroutines -> DOMAIN Gauges]
      /\ snap \in [Goroutines -> SnapshotRecord]
      /\ arg \in [Goroutines -> Nat]
      /\ gauges \in [Followed -> Nat]
      /\ timer \in Timer /\ clock \in Nat /\ next \in [at : Nat, active : BOOLEAN]
  BY ProcessesAssumption DEF Goroutines, SchedulerTypeOK
<1>2. CASE StartScheduled
  <2>1. /\ pc[Loop] = "start" /\ pc' = [pc EXCEPT ![Loop] = "sync"]
        /\ UNCHANGED <<monitorVars, timer, next, rescheduleCh, gauges, gi, snap>>
    BY <1>2 DEF StartScheduled
  <2>2. WakePending' <=> WakePending
    BY <1>1, <2>1, WakePendingUnchanged
  <2>3. pc'[Loop] = "sync" /\ Snapshot' = Snapshot
    BY <1>1, <2>1, MonitorViews
  <2> QED BY <2>1, <2>2, <2>3
          DEF WakeInv, LoopInv, NoLostWakeup, TimerWakeMakesProgress, GaugeInv, GaugesShow
<1>3. CASE StartActivated
  <2>1. /\ pc[Loop] = "start" /\ pc' = [pc EXCEPT ![Loop] = "sync"]
        /\ rescheduleCh' = 1 /\ gi' = gi
    BY <1>3 DEF StartActivated, RequestReschedule
  <2>2. WakePending' /\ pc'[Loop] = "sync"
    BY <1>1, <2>1 DEF WakePending
  <2> QED BY <2>1, <2>2
          DEF WakeInv, LoopInv, NoLostWakeup, TimerWakeMakesProgress, GaugeInv
<1>4. CASE LoopReadsDeadline
  <2>1. /\ pc[Loop] = "sync" /\ pc' = [pc EXCEPT ![Loop] = "arm"]
        /\ next' = NextDeadline
        /\ UNCHANGED <<monitorVars, timer, rescheduleCh, gauges, gi, snap>>
    BY <1>4 DEF LoopReadsDeadline
  <2>2. WakePending' <=> WakePending
    BY <1>1, <2>1, WakePendingUnchanged
  <2>3. /\ pc'[Loop] = "arm" /\ Snapshot' = Snapshot /\ NextDeadline' = NextDeadline
    BY <1>1, <2>1, MonitorViews
  <2> QED BY <2>1, <2>2, <2>3
          DEF WakeInv, LoopInv, NoLostWakeup, TimerWakeMakesProgress, GaugeInv, GaugesShow
<1>5. CASE LoopSyncsTimer
  <2>1. /\ pc[Loop] = "arm" /\ pc' = [pc EXCEPT ![Loop] = "select"]
        /\ timer' = Sync(timer, next, clock)
        /\ UNCHANGED <<monitorVars, clock, rescheduleCh, gauges, gi, snap>>
    BY <1>5 DEF LoopSyncsTimer
  <2>2. WakePending' <=> WakePending
    BY <1>1, <2>1, WakePendingUnchanged
  <2>3. /\ pc'[Loop] = "select" /\ Snapshot' = Snapshot /\ NextDeadline' = NextDeadline
    BY <1>1, <2>1, MonitorViews
  <2>4. NoLostWakeup'
    <3> SUFFICES ASSUME ~WakePending
                 PROVE  IF NextDeadline.active
                        THEN /\ timer'.state = "armed"
                             /\ timer'.fireAt >= NextDeadline.at
                             /\ timer'.fireAt = NextDeadline.at \/ timer'.fireAt <= clock
                        ELSE timer'.state = "nil"
      BY <2>1, <2>2, <2>3 DEF NoLostWakeup
    <3>1. next = NextDeadline
      BY <2>1 DEF WakeInv, LoopInv
    <3> QED BY <1>1, <2>1, <3>1, TimerFacts
  <2>5. LoopInv' /\ TimerWakeMakesProgress' /\ GaugeInv'
    BY <2>1, <2>2, <2>3 DEF WakeInv, LoopInv, TimerWakeMakesProgress, GaugeInv, GaugesShow
  <2> QED BY <2>4, <2>5 DEF WakeInv
<1>6. CASE LoopStops
  <2>1. pc' = [pc EXCEPT ![Loop] = "stopped"] /\ gi' = gi /\ pc[Loop] = "select"
    BY <1>6 DEF LoopStops
  <2>2. pc'[Loop] = "stopped"
    BY <1>1, <2>1
  <2> QED BY <2>1, <2>2
          DEF WakeInv, LoopInv, NoLostWakeup, TimerWakeMakesProgress, GaugeInv
<1>7. CASE LoopTakesToken
  <2>1. /\ pc' = [pc EXCEPT ![Loop] = "woken"] /\ gi' = gi /\ pc[Loop] = "select"
        /\ timer' = Stop(timer)
    BY <1>7 DEF LoopTakesToken
  <2>2. pc'[Loop] = "woken" /\ timer'.state = "nil"
    BY <1>1, <2>1, TimerFacts
  <2> QED BY <2>1, <2>2
          DEF WakeInv, LoopInv, NoLostWakeup, TimerWakeMakesProgress, GaugeInv
<1>8. CASE LoopReadsClock
  <2>1. /\ pc' = [pc EXCEPT ![Loop] = "check"] /\ gi' = gi /\ pc[Loop] = "woken"
        /\ timer' = timer
    BY <1>8 DEF LoopReadsClock
  <2>2. pc'[Loop] = "check" /\ timer'.state = "nil"
    BY <1>1, <2>1 DEF WakeInv, LoopInv
  <2> QED BY <2>1, <2>2
          DEF WakeInv, LoopInv, NoLostWakeup, TimerWakeMakesProgress, GaugeInv
<1>9. CASE LoopTakesTimer
  <2>1. /\ pc[Loop] = "select" /\ pc' = [pc EXCEPT ![Loop] = "check"]
        /\ timer.state = "armed"
        /\ UNCHANGED <<monitorVars, rescheduleCh, gi>>
    BY <1>9 DEF LoopTakesTimer, Ready
  <2>2. PICK sent \in timer.fireAt..clock : arg' = [arg EXCEPT ![Loop] = sent]
    BY <1>9 DEF LoopTakesTimer
  <2>3. /\ pc'[Loop] = "check" /\ arg'[Loop] = sent /\ NextDeadline' = NextDeadline
    BY <1>1, <2>1, <2>2, MonitorViews
  <2>4. WakePending' <=> WakePending
    BY <1>1, <2>1, WakePendingUnchanged
  <2>5. TimerWakeMakesProgress'
    <3> SUFFICES ASSUME ~WakePending
                 PROVE  NextDeadline.active /\ sent >= NextDeadline.at
      BY <2>3, <2>4 DEF TimerWakeMakesProgress
    <3>1. NextDeadline.active /\ timer.fireAt >= NextDeadline.at
      BY <2>1 DEF WakeInv, NoLostWakeup
    <3>2. timer.fireAt \in Nat /\ NextDeadline.at \in Nat
      <4>1. MonitorTypeOK
        BY DEF SchedulerTypeOK
      <4> QED BY <1>1, <4>1, NextDeadlineType DEF Timer
    <3> QED BY <1>1, <3>1, <3>2
  <2> QED BY <2>1, <2>3, <2>5 DEF WakeInv, LoopInv, NoLostWakeup, GaugeInv
<1>10. CASE LoopChecks \/ LoopEnqueues
  <2>1. /\ pc[Loop] \in {"check", "enqueue"} /\ gi' = gi
        /\ \/ pc' = [pc EXCEPT ![Loop] = "snapshot"]
           \/ pc' = [pc EXCEPT ![Loop] = "enqueue"]
    BY <1>10 DEF LoopChecks, LoopEnqueues, Enqueue
  <2>2. pc'[Loop] \in {"snapshot", "enqueue"}
    BY <1>1, <2>1
  <2> QED BY <2>1, <2>2
          DEF WakeInv, LoopInv, NoLostWakeup, TimerWakeMakesProgress, GaugeInv
<1>11. CASE LoopReadsSnapshot
  <2>1. /\ pc[Loop] = "snapshot" /\ pc' = [pc EXCEPT ![Loop] = "gauge"]
        /\ snap' = [snap EXCEPT ![Loop] = Snapshot]
        /\ UNCHANGED <<monitorVars, gauges, gi>>
    BY <1>11 DEF LoopReadsSnapshot
  <2>2. /\ pc'[Loop] = "gauge" /\ snap'[Loop] = Snapshot /\ Snapshot' = Snapshot
        /\ gi'[Loop] = 1
    BY <1>1, <2>1, MonitorViews DEF WakeInv, LoopInv
  <2>3. 1..(gi'[Loop] - 1) = {}
    BY <2>2
  <2> QED BY <2>2, <2>3
          DEF WakeInv, LoopInv, NoLostWakeup, TimerWakeMakesProgress, GaugeInv
<1>12. CASE LoopWritesGauge
  <2> DEFINE i == gi[Loop]
  <2>1. /\ pc[Loop] = "gauge"
        /\ gauges' = [gauges EXCEPT ![Gauges[i]] = GaugeValue(snap[Loop], Gauges[i])]
        /\ \/ i < Len(Gauges) /\ gi' = [gi EXCEPT ![Loop] = i + 1] /\ UNCHANGED <<pc, snap>>
           \/ i = Len(Gauges) /\ gi' = [gi EXCEPT ![Loop] = 1]
              /\ pc' = [pc EXCEPT ![Loop] = "sync"]
        /\ UNCHANGED <<monitorVars, rescheduleCh>>
    BY <1>12 DEF LoopWritesGauge, WriteGauge
  <2>2. /\ i \in 1..Len(Gauges) /\ Len(Gauges) \in Nat
        /\ \A j \in 1..Len(Gauges) : Gauges[j] \in Followed
    BY <1>1, GaugesFacts
  <2>3. WakePending' <=> WakePending
    BY <1>1, <2>1, WakePendingUnchanged
  <2>4. Snapshot' = Snapshot
    BY <2>1, MonitorViews
  <2>5. ASSUME ~WakePending
        PROVE  \A j \in 1..i : gauges'[Gauges[j]] = GaugeValue(Snapshot, Gauges[j])
    <3>1. /\ snap[Loop] = Snapshot
          /\ \A j \in 1..(i - 1) : gauges[Gauges[j]] = GaugeValue(Snapshot, Gauges[j])
      BY <2>1, <2>5 DEF WakeInv, GaugeInv
    <3> SUFFICES ASSUME NEW j \in 1..i
                 PROVE  gauges'[Gauges[j]] = GaugeValue(Snapshot, Gauges[j])
      OBVIOUS
    <3>2. Gauges[j] \in Followed
      BY <2>2
    <3>3. CASE Gauges[j] = Gauges[i]
      BY <1>1, <2>1, <3>1, <3>2, <3>3
    <3>4. CASE Gauges[j] # Gauges[i]
      <4>1. j \in 1..(i - 1)
        BY <2>2, <3>4
      <4> QED BY <1>1, <2>1, <3>1, <3>2, <3>4, <4>1
    <3> QED BY <3>3, <3>4
  <2>6. CASE i < Len(Gauges) /\ gi' = [gi EXCEPT ![Loop] = i + 1] /\ UNCHANGED <<pc, snap>>
    <3>1. gi'[Loop] = i + 1 /\ pc'[Loop] = "gauge" /\ snap'[Loop] = snap[Loop]
      BY <1>1, <2>1, <2>6
    <3>2. gi'[Loop] - 1 = i
      BY <2>2, <3>1
    <3>3. GaugeInv'
      BY <2>1, <2>3, <2>4, <2>5, <3>1, <3>2 DEF WakeInv, GaugeInv
    <3> QED BY <3>1, <3>3 DEF WakeInv, LoopInv, NoLostWakeup, TimerWakeMakesProgress
  <2>7. CASE i = Len(Gauges) /\ gi' = [gi EXCEPT ![Loop] = 1]
             /\ pc' = [pc EXCEPT ![Loop] = "sync"]
    <3>1. gi'[Loop] = 1 /\ pc'[Loop] = "sync"
      BY <1>1, <2>7
    <3>2. ASSUME ~WakePending
          PROVE  \A g \in Followed : gauges'[g] = GaugeValue(Snapshot, g)
      BY <2>5, <2>7, <3>2, GaugesFacts DEF Followed
    <3>3. GaugeInv'
      BY <2>3, <2>4, <3>1, <3>2 DEF GaugeInv, GaugesShow
    <3> QED BY <3>1, <3>3 DEF WakeInv, LoopInv, NoLostWakeup, TimerWakeMakesProgress
  <2> QED BY <2>1, <2>6, <2>7
<1> QED BY <1>2, <1>3, <1>4, <1>5, <1>6, <1>7, <1>8, <1>9, <1>10, <1>11, <1>12
        DEF LoopStep

LEMMA WakeStep ==
    ASSUME SchedulerTypeOK, WakeInv, [SchedulerNext]_vars
    PROVE  WakeInv'
<1> USE DEF At, Goto, loopVars, metricVars, historyVars
<1>1. CASE Tick \/ Shutdown \/ Finished \/ UNCHANGED vars
  <2>1. /\ UNCHANGED monitorVars
        /\ UNCHANGED <<timer, next, rescheduleCh, gauges, pc, arg, snap, gi>>
        /\ clock' \in {clock, clock + 1}
    BY <1>1 DEF Tick, Shutdown, Finished, vars
  <2>2. WakePending' <=> WakePending
    BY <2>1, WakePendingUnchanged
  <2> QED BY <2>1, <2>2, QuietWakeStep
<1>2. ASSUME NEW h \in Handlers, HandlerArrives(h)
      PROVE  WakeInv'
  <2>1. /\ pc[h] = "idle"
        /\ pc' = [pc EXCEPT ![h] = "record"]
        /\ arg' = [arg EXCEPT ![h] = clock]
        /\ UNCHANGED monitorVars
        /\ UNCHANGED <<timer, next, rescheduleCh, gauges, snap, gi, clock>>
    BY <1>2 DEF HandlerArrives
  <2>2. /\ h # Loop /\ Loop \in Goroutines /\ h \in Goroutines
        /\ \A k \in Handlers : k \in Goroutines
        /\ pc \in [Goroutines -> HandlerLabels \cup LoopLabels]
        /\ arg \in [Goroutines -> Nat]
    BY ProcessesAssumption DEF Goroutines, SchedulerTypeOK
  <2>3. /\ pc'[Loop] = pc[Loop] /\ arg'[Loop] = arg[Loop]
        /\ pc'[h] = "record"
        /\ \A k \in Handlers : k # h => pc'[k] = pc[k]
    BY <2>1, <2>2
  <2>4. WakePending' <=> WakePending
    BY <2>1, <2>3 DEF WakePending
  <2> QED BY <2>1, <2>3, <2>4, QuietWakeStep
<1> QED BY <1>1, <1>2, HandlerWakeStep, LoopWakeStep DEF SchedulerNext

-----------------------------------------------------------------------------
(* The inductive invariant.                                                *)

\* A process that has built the scheduler and not started its loop, whatever the
\* clock shows by then and whatever came before it.
FreshProcess ==
    /\ FreshMonitor
    /\ clock \in Nat \ {0}
    /\ sendResolved \in BOOLEAN
    /\ ctxDone = FALSE
    /\ timer = NilTimer
    /\ rescheduleCh = 0
    /\ gauges = [g \in Followed |-> GaugeValue(Snapshot, g)]
    /\ tally = [c \in Statuses \X Results |-> 0]
    /\ received = 0
    /\ queue = <<>>
    /\ pc = [p \in Goroutines |-> IF p = Loop THEN "start" ELSE "idle"]
    /\ arg = [p \in Goroutines |-> NoTime]
    /\ event = [p \in Goroutines |-> NoEvent]
    /\ snap = [p \in Goroutines |-> NoSnapshot]
    /\ gi = [p \in Goroutines |-> 1]
    /\ next = NoDeadline
    /\ requests \in Nat
    /\ newest \in Nat

LEMMA InitIsFresh == SchedulerInit => FreshProcess
BY OptionsAssumption DEF SchedulerInit, MonitorInit, FreshProcess, FreshMonitor, NoTime

LEMMA SchedulerInvFresh == FreshProcess => SchedulerInv
<1> SUFFICES ASSUME FreshProcess PROVE SchedulerInv
  OBVIOUS
<1> USE DEF At
<1>1. MonitorInv /\ MonitorTypeOK
  BY MonitorInvFresh DEF FreshProcess, MonitorInv
<1>2. /\ Loop \in Goroutines /\ pc[Loop] = "start"
      /\ \A h \in Handlers : h \in Goroutines /\ pc[h] = "idle"
      /\ 1 \in DOMAIN Gauges
      /\ \A p \in Goroutines : gi[p] = 1
  BY ProcessesAssumption, GaugesFacts DEF Goroutines, FreshProcess
<1>3. SchedulerTypeOK
  <2>1. \A g \in Followed : GaugeValue(Snapshot, g) \in Nat
    BY <1>1, SnapshotType, GaugeValueType
  <2>2. gauges \in [Followed -> Nat] /\ gi \in [Goroutines -> DOMAIN Gauges]
    BY <1>2, <2>1 DEF FreshProcess
  <2>3. /\ timer \in Timer
        /\ next \in [at : Nat, active : BOOLEAN]
        /\ snap \in [Goroutines -> SnapshotRecord]
        /\ sendResolved \in BOOLEAN
    BY DEF FreshProcess, Timer, NilTimer, NoDeadline, NoSnapshot,
       SnapshotRecord, Phases, NoTime
  <2>4. /\ pc \in [Goroutines -> HandlerLabels \cup LoopLabels]
        /\ pc[Loop] \in LoopLabels
        /\ \A h \in Handlers : pc[h] \in HandlerLabels
        /\ \A p \in Goroutines : pc[p] # "enqueue"
    BY <1>2 DEF FreshProcess, HandlerLabels, LoopLabels
  <2>5. /\ event \in [Goroutines -> Event \cup {NoEvent}]
        /\ \A p \in Goroutines : event[p] = NoEvent
        /\ arg \in [Goroutines -> Nat]
        /\ tally \in [Statuses \X Results -> Nat]
        /\ queue \in Seq(Event)
    BY DEF FreshProcess, NoTime
  <2>6. /\ clock \in Nat /\ ctxDone \in BOOLEAN /\ rescheduleCh \in {0, 1}
        /\ received \in Nat /\ requests \in Nat /\ newest \in Nat
    BY DEF FreshProcess, NoTime
  <2> QED BY <1>1, <2>2, <2>3, <2>4, <2>5, <2>6 DEF SchedulerTypeOK
<1>4. TimesInv
  BY <1>2 DEF TimesInv, FreshProcess, FreshMonitor, NoTime
<1>5. NoSpuriousAlert
  BY DEF NoSpuriousAlert, FreshProcess, FreshMonitor
<1>6. GaugeInv
  BY <1>2 DEF GaugeInv, GaugesShow, FreshProcess
<1>7. LoopInv /\ NoLostWakeup /\ TimerWakeMakesProgress
  BY <1>2 DEF LoopInv, NoLostWakeup, TimerWakeMakesProgress
<1> QED BY <1>1, <1>3, <1>4, <1>5, <1>6, <1>7 DEF SchedulerInv

LEMMA SchedulerInvInit == SchedulerInit => SchedulerInv
BY InitIsFresh, SchedulerInvFresh

LEMMA SchedulerInvStep == SchedulerInv /\ [SchedulerNext]_vars => SchedulerInv'
<1> SUFFICES ASSUME SchedulerInv, [SchedulerNext]_vars PROVE SchedulerInv'
  OBVIOUS
<1>1. /\ MonitorInv /\ SchedulerTypeOK /\ TimesInv /\ NoSpuriousAlert /\ WakeInv
  BY DEF SchedulerInv, WakeInv
<1>2. MonitorInv' /\ MonitorTypeOK'
  BY <1>1, MonitorInvStep DEF MonitorInv
<1>3. SchedulerTypeOK'
  BY <1>1, <1>2, TypeStep
<1>4. TimesInv' /\ NoSpuriousAlert' /\ WakeInv'
  BY <1>1, TimesStep, NoSpuriousAlertStep, WakeStep
<1> QED BY <1>2, <1>3, <1>4 DEF SchedulerInv, WakeInv

\* Everything below follows from this inductive invariant of the whole program.
THEOREM SchedulerInvariant == SchedulerSpec => []SchedulerInv
<1> QED BY SchedulerInvInit, SchedulerInvStep, PTL DEF SchedulerSpec

\* Type correctness: one token at most in the reschedule channel, and an event
\* held by exactly the goroutines about to enqueue one (scheduler.go:37-44,
\* 226-231).
THEOREM SchedulerTypeCorrect == SchedulerSpec => []SchedulerTypeOK
<1>1. SchedulerInv => SchedulerTypeOK
  BY DEF SchedulerInv
<1> QED BY <1>1, SchedulerInvariant, PTL

\* The loop never sleeps with a timer that is wrong for the monitor, unless a
\* wake-up is on its way, for any number of concurrent check-ins
\* (scheduler.go:136-147, 226-231).
THEOREM WakeupsAreNotLost == SchedulerSpec => []NoLostWakeup
<1>1. SchedulerInv => NoLostWakeup
  BY DEF SchedulerInv
<1> QED BY <1>1, SchedulerInvariant, PTL

\* A Check made by the timer alone finds its deadline elapsed, so the loop
\* cannot spin (timer.go:24-42, scheduler.go:145-146, monitor.go:185, 198).
THEOREM TimerWakesMakeProgress == SchedulerSpec => []TimerWakeMakesProgress
<1>1. SchedulerInv => TimerWakeMakesProgress
  BY DEF SchedulerInv
<1> QED BY <1>1, SchedulerInvariant, PTL

\* The phase never runs ahead of the clock and the last check-in recorded,
\* however stale the time that Check is given (scheduler.go:139-146,
\* monitor.go:173-207).
THEOREM AlertsAreNotSpurious == SchedulerSpec => []NoSpuriousAlert
<1>1. SchedulerInv => NoSpuriousAlert
  BY DEF SchedulerInv
<1> QED BY <1>1, SchedulerInvariant, PTL

\* Whatever the interleaving of gauge writes, the gauges agree with the monitor
\* whenever the loop sleeps with no wake-up pending (scheduler.go:103-104, 128,
\* metrics.go:122-127).
THEOREM GaugesAgreeAtRest == SchedulerSpec => []GaugesConverge
<1>1. SchedulerInv => GaugesConverge
  BY DEF SchedulerInv, GaugeInv, GaugesConverge, At
<1> QED BY <1>1, SchedulerInvariant, PTL

\* The monitor's promises to receivers hold in the program, where the loop and
\* any number of requests call it with times they read earlier: alerts and
\* resolutions alternate and match, identities stay fresh, alerts are justified
\* (monitor.go:127-207, 232-307; checkin.go:16-17).
THEOREM ProgramEventsAreSound ==
    SchedulerSpec => [](EpisodesPaired /\ FreshIDs /\ AlertJustified)
<1>1. SchedulerInv => EpisodesPaired /\ FreshIDs /\ AlertJustified
  BY DEF SchedulerInv, MonitorInv
<1> QED BY <1>1, SchedulerInvariant, PTL

\* Every behaviour of the program, projected to the phase and the statuses of
\* its events, is a behaviour of the lifecycle (monitor.go:127-207).
THEOREM SchedulerImplementsLifecycle == SchedulerSpec => ImplementsLifecycle
<1>1. SchedulerInit => Abstract!LifecycleInit
  <2> SUFFICES ASSUME SchedulerInit PROVE Notices = <<>> /\ phase = "scheduled"
    BY DEF Abstract!LifecycleInit, Notices
  <2> QED BY DEF SchedulerInit, MonitorInit, Notices
<1>2. SchedulerInv /\ [SchedulerNext]_vars
          => [Abstract!LifecycleNext]_Abstract!lifecycleVars
  <2> SUFFICES ASSUME SchedulerInv, [SchedulerNext]_vars
               PROVE  [Abstract!LifecycleNext]_Abstract!lifecycleVars
    OBVIOUS
  <2>1. /\ MonitorInv /\ SchedulerTypeOK /\ TimesInv
        /\ clock \in Nat \ {0}
    BY DEF SchedulerInv, SchedulerTypeOK, TimesInv
  <2>2. ASSUME NEW t \in 1..clock, RecordCheckIn(t)
        PROVE  Abstract!LifecycleNext
    <3>1. t \in Nat \ {0}
      BY <2>1
    <3> QED BY <2>1, <2>2, <3>1, StepOfRecordCheckIn DEF Abstract!LifecycleNext
  <2>3. ASSUME NEW t \in 0..clock, Check(t)
        PROVE  [Abstract!LifecycleNext]_Abstract!lifecycleVars
    <3>1. t \in Nat
      BY <2>1
    <3> QED BY <2>1, <2>3, <3>1, StepOfCheck
  <2>4. CASE UNCHANGED monitorVars
    BY <2>4 DEF monitorVars, Abstract!lifecycleVars
  <2>5. clock \in 1..clock
    BY <2>1
  <2> QED BY <2>1, <2>2, <2>3, <2>4, <2>5, MonitorStep
<1> QED BY <1>1, <1>2, SchedulerInvariant, PTL
        DEF SchedulerSpec, ImplementsLifecycle, Abstract!LifecycleSpec

=============================================================================
