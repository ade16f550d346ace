----------------------------- MODULE Scheduler -----------------------------
(***************************************************************************)
(* The running program: the scheduler loop of internal/scheduler, the      *)
(* check-in requests that call it concurrently (internal/handler and       *)
(* internal/service), the monitor both share, the loop's deadline timer,   *)
(* the reschedule channel, the gauges and counters of internal/metrics and *)
(* the notification queue of notifykit.                                    *)
(*                                                                         *)
(* A goroutine's step is one action: a call that takes the monitor's lock, *)
(* one gauge write, one channel operation, one Enqueue, one reading of the *)
(* clock.  Everything between two such points is local to the goroutine,   *)
(* or increments a counter, which no goroutine reads.                      *)
(***************************************************************************)
EXTENDS Metrics, DeadlineTimer, FiniteSets

CONSTANTS
    Handlers,            \* goroutines serving check-in requests
    Loop,                \* the goroutine of Scheduler.run
    StartActive,         \* values of --start-active that are followed
    ResolvedReceivers,   \* values of "some receiver has send-resolved" followed
    EnqueueOutcomes,     \* what notifykit's Enqueue may return
    MaxRequests,         \* bound: check-in requests served in a behaviour
    MayShutdown          \* whether the signal context may be cancelled

Outcomes == {"queued", "queue_failed", "empty_queue_id"}

ASSUME ProcessesAssumption == Loop \notin Handlers

ASSUME OptionsAssumption ==
    /\ StartActive \subseteq BOOLEAN
    /\ ResolvedReceivers \subseteq BOOLEAN
    /\ EnqueueOutcomes \subseteq Outcomes
    /\ MaxRequests \in Nat
    /\ MayShutdown \in BOOLEAN

VARIABLES
    clock,              \* what time.Now() returns
    sendResolved,       \* len(router.resolvedReceivers) > 0
    ctxDone,            \* the signal context was cancelled
    timer,              \* the loop's deadline.Timer
    rescheduleCh,       \* tokens buffered in rescheduleCh
    gauges,             \* value of each followed gauge
    tally,              \* notification counters, by status and result
    received,           \* overdue_checkins_received_total
    queue,              \* events accepted by notifykit, in order
    pc,                 \* where each goroutine is
    arg,                \* the goroutine's at (a handler) or now (the loop)
    event,              \* the event it still has to enqueue
    snap,               \* the snapshot it is writing to the gauges
    gi,                 \* position in Gauges of its next write
    next,               \* the loop's copy of NextDeadline()
    requests,           \* requests that arrived
    newest              \* history: the latest check-in time ever recorded

loopVars == <<timer, next>>
metricVars == <<gauges, tally, received>>
historyVars == <<requests, newest>>
vars == <<monitorVars, clock, sendResolved, ctxDone, loopVars, rescheduleCh,
          metricVars, queue, pc, arg, event, snap, gi, historyVars>>

Goroutines == Handlers \cup {Loop}

Statuses == {"alerting", "resolved"}
Results == Outcomes \cup {"no_resolved_receivers"}

SnapshotRecord == [phase : Phases, lastCheckIn : Nat, expectedBy : Nat,
                   overdueSince : Nat, alertingAt : Nat]

NoEvent == [status |-> "none"]
NoSnapshot == [phase |-> "scheduled", lastCheckIn |-> NoTime, expectedBy |-> NoTime,
               overdueSince |-> NoTime, alertingAt |-> NoTime]
NoDeadline == [at |-> NoTime, active |-> FALSE]

Goto(p, label) == pc' = [pc EXCEPT ![p] = label]
At(p, label) == pc[p] = label

\* The process has built the scheduler and not yet started its loop; New has
\* set the gauges from the monitor's first snapshot.
SchedulerInit ==
    /\ MonitorInit
    /\ clock = 1
    /\ sendResolved \in ResolvedReceivers
    /\ ctxDone = FALSE
    /\ timer = NilTimer
    /\ rescheduleCh = 0
    /\ gauges = [g \in Followed |-> GaugeValue(Snapshot, g)]
    /\ tally = [c \in Statuses \X Results |-> 0]
    /\ received = 0
    /\ queue = <<>>
    /\ pc = [p \in Goroutines |-> IF p = Loop THEN "start" ELSE "idle"]
    /\ arg = [p \in Goroutines |-> NoTime]
    /\ event = [p \in Goroutines |-> NoEvent]
    /\ snap = [p \in Goroutines |-> NoSnapshot]
    /\ gi = [p \in Goroutines |-> 1]
    /\ next = NoDeadline
    /\ requests = 0
    /\ newest = NoTime

-----------------------------------------------------------------------------
(* The clock and the signal context.                                       *)

\* A check-in is taken only while its alerting deadline is within MaxTime.
InHorizon == clock + ExpectedEvery + AlertingDelay <= MaxTime

Tick ==
    /\ ~At(Loop, "start")
    /\ clock < MaxTime
    /\ clock' = clock + 1
    /\ UNCHANGED <<monitorVars, sendResolved, ctxDone, loopVars, rescheduleCh,
                   metricVars, queue, pc, arg, event, snap, gi, historyVars>>

Shutdown ==
    /\ MayShutdown
    /\ ~ctxDone
    /\ ctxDone' = TRUE
    /\ UNCHANGED <<monitorVars, clock, sendResolved, loopVars, rescheduleCh,
                   metricVars, queue, pc, arg, event, snap, gi, historyVars>>

-----------------------------------------------------------------------------
(* Steps that the loop and the handlers share.                             *)

\* The event a monitor call returned in this step, if it returned one.
Returned == IF emitted' = emitted THEN NoEvent ELSE emitted'[Len(emitted')]

\* MUTANT: the event whose receivers may be missing is the alert
RoutableSwapped(e) == e.status = "resolved" \/ sendResolved

\* ReceiverIDsForEvent: alerts go everywhere, resolved events only to
\* receivers that asked for them.
Routable(e) == e.status = "alerting" \/ sendResolved

\* notifykit may also refuse once the context of its caller is cancelled.
PossibleOutcomes == EnqueueOutcomes \cup (IF ctxDone THEN {"queue_failed"} ELSE {})

Count(status, result) == tally' = [tally EXCEPT ![<<status, result>>] = @ + 1]

\* MUTANT: a retry of a notification already queued
EnqueueTwice(p, label) ==
    /\ At(p, "enqueue")
    /\ Routable(event[p])
    /\ \E outcome \in PossibleOutcomes :
           /\ Count(event[p].status, outcome)
           /\ queue' = IF outcome = "queued" THEN queue \o <<event[p], event[p]>> ELSE queue
    /\ event' = [event EXCEPT ![p] = NoEvent]
    /\ Goto(p, label)

\* MUTANT: a refused event is kept, for a retry that never comes
EnqueueKeepsRefused(p, label) ==
    /\ At(p, "enqueue")
    /\ Routable(event[p])
    /\ \E outcome \in PossibleOutcomes :
           /\ Count(event[p].status, outcome)
           /\ queue' = IF outcome = "queued" THEN Append(queue, event[p]) ELSE queue
           /\ event' = IF outcome = "queued" THEN [event EXCEPT ![p] = NoEvent] ELSE event
    /\ Goto(p, label)

\* enqueue: whatever the outcome, the event is dropped afterwards.  The counter
\* of the outcome is incremented after notifykit has answered; no goroutine reads
\* it, so that is part of this step.
Enqueue(p, label) ==
    /\ At(p, "enqueue")
    /\ \/ /\ ~Routable(event[p])
          /\ Count(event[p].status, "no_resolved_receivers")
          /\ UNCHANGED queue
       \/ /\ Routable(event[p])
          /\ \E outcome \in PossibleOutcomes :
                 /\ Count(event[p].status, outcome)
                 /\ queue' = IF outcome = "queued" THEN Append(queue, event[p]) ELSE queue
    /\ event' = [event EXCEPT ![p] = NoEvent]
    /\ Goto(p, label)

\* MUTANT: the last gauge is never reached
WriteGaugeOneShort(p, label) ==
    /\ At(p, "gauge")
    /\ gauges' = [gauges EXCEPT ![Gauges[gi[p]]] = GaugeValue(snap[p], Gauges[gi[p]])]
    /\ \/ /\ gi[p] + 1 < Len(Gauges)
          /\ gi' = [gi EXCEPT ![p] = @ + 1]
          /\ UNCHANGED <<pc, snap>>
       \/ /\ gi[p] + 1 = Len(Gauges)
          /\ gi' = [gi EXCEPT ![p] = 1]
          /\ snap' = [snap EXCEPT ![p] = NoSnapshot]
          /\ Goto(p, label)

\* One gauge write of SetMonitorSnapshot; label is where its return leads.
WriteGauge(p, label) ==
    /\ At(p, "gauge")
    /\ gauges' = [gauges EXCEPT ![Gauges[gi[p]]] = GaugeValue(snap[p], Gauges[gi[p]])]
    /\ \/ /\ gi[p] < Len(Gauges)
          /\ gi' = [gi EXCEPT ![p] = @ + 1]
          /\ UNCHANGED <<pc, snap>>
       \/ /\ gi[p] = Len(Gauges)
          /\ gi' = [gi EXCEPT ![p] = 1]
          /\ snap' = [snap EXCEPT ![p] = NoSnapshot]
          /\ Goto(p, label)

\* MUTANT: the channel has no bound
RequestRescheduleUnbounded == rescheduleCh' = rescheduleCh + 1

\* MUTANT: the loop is not told
RequestRescheduleNever == UNCHANGED rescheduleCh

\* A non-blocking send to a channel of capacity one.
RequestReschedule == rescheduleCh' = 1

-----------------------------------------------------------------------------
(* Startup (app/run.go): with --start-active the main goroutine records a  *)
(* check-in by RecordCheckInContext before the loop or the server runs, so *)
(* nothing interleaves with it and the phase is scheduled: no event, the   *)
(* gauges and the token.  The service and its counter are not involved.    *)

StartScheduled ==
    /\ At(Loop, "start")
    /\ FALSE \in StartActive
    /\ Goto(Loop, "sync")
    /\ UNCHANGED <<monitorVars, clock, sendResolved, ctxDone, loopVars, rescheduleCh,
                   metricVars, queue, arg, event, snap, gi, historyVars>>

StartActivated ==
    /\ At(Loop, "start")
    /\ TRUE \in StartActive
    /\ InHorizon
    /\ RecordCheckIn(clock)
    /\ gauges' = [g \in Followed |-> GaugeValue(Snapshot', g)]
    /\ RequestReschedule
    /\ newest' = clock
    /\ Goto(Loop, "sync")
    /\ UNCHANGED <<clock, sendResolved, ctxDone, loopVars, tally, received, queue,
                   arg, event, snap, gi, requests>>

-----------------------------------------------------------------------------
(* A check-in request, from the reading of the clock in the handler to the *)
(* response.                                                               *)

\* Authorised; now := nowFn(), before any lock is taken.
HandlerArrives(h) ==
    /\ At(h, "idle")
    /\ ~At(Loop, "start")
    /\ requests < MaxRequests
    /\ InHorizon
    /\ arg' = [arg EXCEPT ![h] = clock]
    /\ requests' = requests + 1
    /\ Goto(h, "record")
    /\ UNCHANGED <<monitorVars, clock, sendResolved, ctxDone, loopVars, rescheduleCh,
                   metricVars, queue, event, snap, gi, newest>>

\* monitor.RecordCheckIn, whose result carries the event and the snapshot.
HandlerRecords(h) ==
    /\ At(h, "record")
    /\ RecordCheckIn(arg[h])
    /\ event' = [event EXCEPT ![h] = Returned]
    /\ snap' = [snap EXCEPT ![h] = Snapshot']
    /\ newest' = IF arg[h] > newest THEN arg[h] ELSE newest
    /\ arg' = [arg EXCEPT ![h] = NoTime]
    /\ Goto(h, IF Returned = NoEvent THEN "gauge" ELSE "enqueue")
    /\ UNCHANGED <<clock, sendResolved, ctxDone, loopVars, rescheduleCh,
                   metricVars, queue, gi, requests>>

HandlerEnqueues(h) ==
    /\ Enqueue(h, "gauge")
    /\ UNCHANGED <<monitorVars, clock, sendResolved, ctxDone, loopVars, rescheduleCh,
                   gauges, received, arg, snap, gi, historyVars>>

HandlerWritesGauge(h) ==
    /\ WriteGauge(h, "wake")
    /\ UNCHANGED <<monitorVars, clock, sendResolved, ctxDone, loopVars, rescheduleCh,
                   tally, received, queue, arg, event, historyVars>>

\* MUTANT: the send is retried until the channel has room
HandlerRetriesSend(h) ==
    /\ At(h, "wake")
    /\ \/ /\ rescheduleCh = 0
          /\ rescheduleCh' = 1
          /\ received' = received + 1
          /\ Goto(h, "idle")
       \/ rescheduleCh = 1 /\ UNCHANGED <<rescheduleCh, received, pc>>
    /\ UNCHANGED <<monitorVars, clock, sendResolved, ctxDone, loopVars, gauges, tally,
                   queue, arg, event, snap, gi, historyVars>>

\* The request counter of the service and the response follow the send; no
\* goroutine reads the counter, so they are part of this last step.
HandlerWakesLoop(h) ==
    /\ At(h, "wake")
    /\ RequestReschedule
    /\ received' = received + 1
    /\ Goto(h, "idle")
    /\ UNCHANGED <<monitorVars, clock, sendResolved, ctxDone, loopVars, gauges, tally,
                   queue, arg, event, snap, gi, historyVars>>

HandlerStep(h) ==
    \/ HandlerRecords(h)
    \/ HandlerEnqueues(h)
    \/ HandlerWritesGauge(h)
    \/ HandlerWakesLoop(h)

-----------------------------------------------------------------------------
(* The loop: timer.Sync(monitor.NextDeadline()), select, Check.            *)

LoopReadsDeadline ==
    /\ At(Loop, "sync")
    /\ next' = NextDeadline
    /\ Goto(Loop, "arm")
    /\ UNCHANGED <<monitorVars, clock, sendResolved, ctxDone, timer, rescheduleCh,
                   metricVars, queue, arg, event, snap, gi, historyVars>>

LoopSyncsTimer ==
    /\ At(Loop, "arm")
    /\ timer' = Sync(timer, next, clock)
    /\ next' = NoDeadline
    /\ Goto(Loop, "select")
    /\ UNCHANGED <<monitorVars, clock, sendResolved, ctxDone, rescheduleCh,
                   metricVars, queue, arg, event, snap, gi, historyVars>>

\* MUTANT: the context is only looked at when the timer fires
LoopStopsWhenTimerFires ==
    /\ At(Loop, "select")
    /\ ctxDone
    /\ Ready(timer, clock)
    /\ timer' = Stop(timer)
    /\ Goto(Loop, "stopped")
    /\ UNCHANGED <<monitorVars, clock, sendResolved, ctxDone, next, rescheduleCh,
                   metricVars, queue, arg, event, snap, gi, historyVars>>

\* select is free to take any ready case, so a cancelled context does not
\* preempt a token or an elapsed timer.
LoopStops ==
    /\ At(Loop, "select")
    /\ ctxDone
    /\ timer' = Stop(timer)
    /\ Goto(Loop, "stopped")
    /\ UNCHANGED <<monitorVars, clock, sendResolved, ctxDone, next, rescheduleCh,
                   metricVars, queue, arg, event, snap, gi, historyVars>>

LoopTakesToken ==
    /\ At(Loop, "select")
    /\ rescheduleCh = 1
    /\ rescheduleCh' = 0
    /\ timer' = Stop(timer)
    /\ Goto(Loop, "woken")
    /\ UNCHANGED <<monitorVars, clock, sendResolved, ctxDone, next,
                   metricVars, queue, arg, event, snap, gi, historyVars>>

\* time.Now(), only on the token's branch.
LoopReadsClock ==
    /\ At(Loop, "woken")
    /\ arg' = [arg EXCEPT ![Loop] = clock]
    /\ Goto(Loop, "check")
    /\ UNCHANGED <<monitorVars, clock, sendResolved, ctxDone, loopVars, rescheduleCh,
                   metricVars, queue, event, snap, gi, historyVars>>

\* The timer's value was sent at some instant between its deadline and now.
LoopTakesTimer ==
    /\ At(Loop, "select")
    /\ Ready(timer, clock)
    /\ \E sent \in timer.fireAt..clock : arg' = [arg EXCEPT ![Loop] = sent]
    /\ timer' = Spend(timer)
    /\ Goto(Loop, "check")
    /\ UNCHANGED <<monitorVars, clock, sendResolved, ctxDone, next, rescheduleCh,
                   metricVars, queue, event, snap, gi, historyVars>>

LoopChecks ==
    /\ At(Loop, "check")
    /\ Check(arg[Loop])
    /\ event' = [event EXCEPT ![Loop] = Returned]
    /\ arg' = [arg EXCEPT ![Loop] = NoTime]
    /\ Goto(Loop, IF Returned = NoEvent THEN "snapshot" ELSE "enqueue")
    /\ UNCHANGED <<clock, sendResolved, ctxDone, loopVars, rescheduleCh,
                   metricVars, queue, snap, gi, historyVars>>

LoopEnqueues ==
    /\ Enqueue(Loop, "snapshot")
    /\ UNCHANGED <<monitorVars, clock, sendResolved, ctxDone, loopVars, rescheduleCh,
                   gauges, received, arg, snap, gi, historyVars>>

\* MUTANT: Check does not refresh the gauges
LoopSkipsGauges ==
    /\ At(Loop, "snapshot")
    /\ Goto(Loop, "sync")
    /\ UNCHANGED <<monitorVars, clock, sendResolved, ctxDone, loopVars, rescheduleCh,
                   metricVars, queue, arg, event, snap, gi, historyVars>>

\* monitor.Snapshot(), in the argument of SetMonitorSnapshot.
LoopReadsSnapshot ==
    /\ At(Loop, "snapshot")
    /\ snap' = [snap EXCEPT ![Loop] = Snapshot]
    /\ Goto(Loop, "gauge")
    /\ UNCHANGED <<monitorVars, clock, sendResolved, ctxDone, loopVars, rescheduleCh,
                   metricVars, queue, arg, event, gi, historyVars>>

LoopWritesGauge ==
    /\ WriteGauge(Loop, "sync")
    /\ UNCHANGED <<monitorVars, clock, sendResolved, ctxDone, loopVars, rescheduleCh,
                   tally, received, queue, arg, event, historyVars>>

LoopStep ==
    \/ StartScheduled
    \/ StartActivated
    \/ LoopReadsDeadline
    \/ LoopSyncsTimer
    \/ LoopStops
    \/ LoopTakesToken
    \/ LoopReadsClock
    \/ LoopTakesTimer
    \/ LoopChecks
    \/ LoopEnqueues
    \/ LoopReadsSnapshot
    \/ LoopWritesGauge

-----------------------------------------------------------------------------
\* The bounded behaviour is over: no time, no requests, nothing to wake the
\* loop.  A state where only this is missing is a deadlock.
Finished ==
    /\ clock = MaxTime
    /\ \A h \in Handlers : At(h, "idle")
    /\ \/ At(Loop, "stopped")
       \/ At(Loop, "select") /\ rescheduleCh = 0 /\ ~Ready(timer, clock)
    /\ UNCHANGED vars

SchedulerNext ==
    \/ Tick
    \/ Shutdown
    \/ \E h \in Handlers : HandlerArrives(h) \/ HandlerStep(h)
    \/ LoopStep
    \/ Finished

SchedulerSpec == SchedulerInit /\ [][SchedulerNext]_vars

\* Goroutines that can run do run, and time passes.  No request has to come
\* and no signal has to be sent.
Fairness ==
    /\ WF_vars(Tick)
    /\ WF_vars(LoopStep)
    /\ \A h \in Handlers : WF_vars(HandlerStep(h))

FairSchedulerSpec == SchedulerSpec /\ Fairness

-----------------------------------------------------------------------------
(* Properties.                                                             *)

HandlerLabels == {"idle", "record", "enqueue", "gauge", "wake"}
LoopLabels == {"start", "sync", "arm", "select", "woken", "check", "enqueue",
               "snapshot", "gauge", "stopped"}

\* Every variable keeps its type; in particular the reschedule channel never
\* holds more than the one token it has room for, and an event is held exactly
\* by the goroutines that are about to enqueue one.
SchedulerTypeOK ==
    /\ MonitorTypeOK
    /\ clock \in Nat
    /\ sendResolved \in BOOLEAN
    /\ ctxDone \in BOOLEAN
    /\ timer \in Timer
    /\ rescheduleCh \in {0, 1}
    /\ gauges \in [Followed -> Nat]
    /\ tally \in [Statuses \X Results -> Nat]
    /\ received \in Nat
    /\ queue \in Seq(Event)
    /\ pc \in [Goroutines -> HandlerLabels \cup LoopLabels]
    /\ pc[Loop] \in LoopLabels
    /\ \A h \in Handlers : pc[h] \in HandlerLabels
    /\ arg \in [Goroutines -> Nat]
    /\ event \in [Goroutines -> Event \cup {NoEvent}]
    /\ \A p \in Goroutines : At(p, "enqueue") <=> event[p] # NoEvent
    /\ snap \in [Goroutines -> SnapshotRecord]
    /\ gi \in [Goroutines -> DOMAIN Gauges]
    /\ next \in [at : Nat, active : BOOLEAN]
    /\ requests \in Nat
    /\ newest \in Nat

\* A wake-up for the loop exists or is certain to be sent: a token is in the
\* channel, or a check-in is recorded whose handler has still to send one.
WakePending ==
    \/ rescheduleCh = 1
    \/ \E h \in Handlers : pc[h] \in {"enqueue", "gauge", "wake"}

\* While the loop sleeps with no wake-up pending its timer is the right one
\* for the monitor as it is now: armed for its next deadline (or for the
\* instant it was armed, if that was later), stopped if there is none.  It
\* fails if dropping a token of a full channel, or a check-in between the
\* reading of the deadline and the select, could lose a wake-up
\* (scheduler.go:136-147, 226-231).
NoLostWakeup ==
    At(Loop, "select") /\ ~WakePending =>
        IF NextDeadline.active
        THEN /\ timer.state = "armed"
             /\ timer.fireAt >= NextDeadline.at
             /\ timer.fireAt = NextDeadline.at \/ timer.fireAt <= clock
        ELSE timer.state = "nil"

\* Stale or interleaved gauge writes heal: whenever the loop sleeps and no
\* wake-up is pending, all gauges show the monitor's current snapshot
\* (scheduler.go:103-104, 128; metrics.go:122-127).
GaugesConverge ==
    At(Loop, "select") /\ ~WakePending => GaugesShow(gauges, Snapshot)

\* The loop never spins on its timer: a Check made because the timer fired,
\* with no check-in recorded since, always finds its deadline elapsed
\* (timer.go:24-42, scheduler.go:145-146, monitor.go:185, 198).
TimerWakeMakesProgress ==
    At(Loop, "check") /\ timer.state = "spent" /\ ~WakePending =>
        NextDeadline.active /\ arg[Loop] >= NextDeadline.at

\* Whatever the value the timer delivers and however old it is when Check uses
\* it, the phase never runs ahead of the clock and of the last check-in
\* recorded (scheduler.go:139-146, monitor.go:173-207).
NoSpuriousAlert ==
    /\ phase \in {"overdue", "alerting"} => clock >= ExpectedBy
    /\ phase = "alerting" => clock >= AlertingAt

\* How many emitted events have a status.
Emitted(s) == Cardinality({i \in DOMAIN emitted : emitted[i].status = s})

\* How many events of a status have been counted under some result.
Counted(s) == tally[<<s, "queued">>] + tally[<<s, "queue_failed">>]
              + tally[<<s, "empty_queue_id">>] + tally[<<s, "no_resolved_receivers">>]

\* Every event the monitor ever returned is in flight in one goroutine or
\* counted under exactly one result, and the queue holds exactly the events
\* counted as queued, each of them once, whichever goroutines enqueue at the
\* same time.  A scrape between Enqueue and its counter, which are one step here,
\* would see the queue ahead of the counter (scheduler.go:99-105, 124-128, 152-199).
NotificationsAccounted ==
    /\ \A s \in Statuses :
           /\ Emitted(s) = Counted(s)
                  + Cardinality({p \in Goroutines : event[p].status = s})
           /\ tally[<<s, "queued">>]
                  = Cardinality({i \in DOMAIN queue : queue[i].status = s})
    /\ \A i, j \in DOMAIN queue :
           queue[i].notificationID = queue[j].notificationID => i = j

\* notifykit refused an alert: it returned an error or no ID.
AlertRefused ==
    tally[<<"alerting", "queue_failed">>] + tally[<<"alerting", "empty_queue_id">>] > 0

\* Only a refusal loses an alert.  Until there is one, every alert ever raised
\* is in the queue or about to be offered to it by the loop: neither a check-in
\* that overtakes the loop nor the lack of receivers for resolved events keeps
\* it out (scheduler.go:124-128, 152-199; event.go:31-36).
AlertsReachQueue ==
    \A i \in DOMAIN emitted :
        emitted[i].status = "alerting" =>
            \/ AlertRefused
            \/ event[Loop] = emitted[i]
            \/ \E j \in DOMAIN queue : queue[j] = emitted[i]

\* The program does what the abstract alarm promises: a notice is an event
\* returned by the monitor, and it is pending while a goroutine holds it.
\* Identities stay fresh, and each notice is settled at most once, by the
\* goroutine that got it (scheduler.go:99-102, 124-127, 152-199).
Notice(e) == [status |-> e.status, incident |-> e.incidentID, id |-> e.notificationID]

UserView == INSTANCE Alarm WITH
    open <- {incidentID} \ {NoID},
    raised <- {Notice(emitted[i]) : i \in DOMAIN emitted},
    pending <- {Notice(event[p]) : p \in {q \in Goroutines : event[q] # NoEvent}},
    queue <- [i \in DOMAIN queue |-> Notice(queue[i])]

ImplementsAlarm == UserView!AlarmSpec

\* When the check-ins stop, the monitor ends up alerting, unless it is being
\* shut down or no check-in ever came: no combination of requests, stale timer
\* values and dropped tokens leaves the loop asleep past a deadline.
SilenceIsNoticed == <>[](ctxDone \/ phase \in {"scheduled", "alerting"})

\* The loop goroutine ends once the context is cancelled, whatever else is
\* ready in its select (scheduler.go:139-141).
ShutdownStopsLoop == ctxDone ~> At(Loop, "stopped")

\* Every check-in that is taken is answered, also after the loop has ended with
\* a token left in the channel: a request never waits for the loop
\* (scheduler.go:94-106, 226-231).
RequestsAreAnswered ==
    \A h \in Handlers : At(h, "record") ~> At(h, "idle")

-----------------------------------------------------------------------------
(* What documentation or comments say and the code does not do.            *)

\* README.md:16-17: alerting means that the alert was queued, and resolved is
\* queued after alerting.  In the queue, then, a resolved notification comes
\* after the alert of its incident.
AlertQueuedBeforeResolved ==
    \A j \in DOMAIN queue : queue[j].status = "resolved" =>
        \E i \in DOMAIN queue :
            /\ i < j
            /\ queue[i].status = "alerting"
            /\ queue[i].incidentID = queue[j].incidentID

\* monitor.go:88: in phase alerting the notification was sent; once the loop is
\* back in its select, the alert of the current incident has been queued.
AlertingPhaseIsNotified ==
    At(Loop, "select") /\ phase = "alerting" =>
        \E i \in DOMAIN queue :
            queue[i].status = "alerting" /\ queue[i].incidentID = incidentID

\* configuration.md:34: ExpectedEvery is the maximum allowed time between
\* check-ins; the monitor is not overdue within that time of a check-in that
\* it has recorded.
NoEarlyOverdue ==
    phase \in {"overdue", "alerting"} => clock >= newest + ExpectedEvery

=============================================================================
