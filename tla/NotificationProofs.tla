------------------------- MODULE NotificationProofs -------------------------
(***************************************************************************)
(* Proofs about the notifications of the running program, for every set of *)
(* handlers, every outcome of Enqueue, every interval, delay and bound:    *)
(* each event is accounted for, and the program implements the alarm.      *)
(***************************************************************************)
EXTENDS SchedulerProofs, FiniteSetTheorems

\* The goroutines that hold an event.
Held == {p \in Goroutines : event[p] # NoEvent}

HeldWith(s) == {p \in Goroutines : event[p].status = s}

WithStatus(events, s) == {i \in DOMAIN events : events[i].status = s}

\* Until the loop starts, nothing has been recorded and no request is served.
StartInv ==
    At(Loop, "start") =>
        /\ phase = "scheduled"
        /\ \A h \in Handlers : At(h, "idle")

\* An event that is held or queued was returned by the monitor, and it is held
\* or queued once.
HeldInv ==
    /\ \A p \in Held : \E i \in DOMAIN emitted : event[p] = emitted[i]
    /\ \A j \in DOMAIN queue : \E i \in DOMAIN emitted : queue[j] = emitted[i]
    /\ \A p, q \in Held :
           p # q => event[p].notificationID # event[q].notificationID
    /\ \A p \in Held, j \in DOMAIN queue :
           event[p].notificationID # queue[j].notificationID
    /\ \A i, j \in DOMAIN queue :
           queue[i].notificationID = queue[j].notificationID => i = j

\* Only finitely many goroutines hold an event, even if there are infinitely
\* many handlers; with those counted they are all the events returned.
CountInv ==
    \A s \in Statuses :
        /\ IsFiniteSet(HeldWith(s))
        /\ Emitted(s) = Counted(s) + Cardinality(HeldWith(s))
        /\ tally[<<s, "queued">>] = Cardinality(WithStatus(queue, s))

\* Alerts are the loop's, and reach the queue unless one was refused.
AlertInv ==
    /\ \A h \in Handlers : event[h].status # "alerting"
    /\ AlertsReachQueue

NotificationInv ==
    /\ SchedulerInv
    /\ StartInv
    /\ HeldInv
    /\ CountInv
    /\ AlertInv

-----------------------------------------------------------------------------
(* The three kinds of step, for the events.                                *)

\* No event is returned, queued or dropped.
Keeps ==
    /\ UNCHANGED <<emitted, event, tally, queue>>
    /\ \/ UNCHANGED <<phase, incidentID>>
       \/ phase # "alerting" /\ phase' = "awaiting" /\ incidentID = NoID /\ incidentID' = NoID
       \/ phase = "awaiting" /\ phase' = "overdue" /\ UNCHANGED incidentID

\* The monitor returns an event to a goroutine that holds none.
Emits(p, e) ==
    /\ event[p] = NoEvent
    /\ event' = [event EXCEPT ![p] = e]
    /\ emitted' = Append(emitted, e)
    /\ UNCHANGED <<tally, queue>>

RaisesAlert(e) ==
    /\ phase \in {"awaiting", "overdue"}
    /\ phase' = "alerting"
    /\ incidentID = NoID
    /\ incidentID' = issued + 1
    /\ e.status = "alerting"
    /\ e.incidentID = issued + 1

RaisesResolved(e) ==
    /\ phase = "alerting"
    /\ phase' = "awaiting"
    /\ incidentID # NoID
    /\ incidentID' = NoID
    /\ e.status = "resolved"
    /\ e.incidentID = incidentID

\* The loop raises alerts and the handlers resolve them.
RaisedBy(p, e) ==
    \/ p = Loop /\ RaisesAlert(e)
    \/ p \in Handlers /\ RaisesResolved(e)

\* A goroutine offers its event to the queue and lets go of it.
Settles(p, r) ==
    /\ event[p] # NoEvent
    /\ event' = [event EXCEPT ![p] = NoEvent]
    /\ r = "no_resolved_receivers" => event[p].status # "alerting"
    /\ Count(event[p].status, r)
    /\ queue' = IF r = "queued" THEN Append(queue, event[p]) ELSE queue
    /\ UNCHANGED monitorVars

LEMMA RecordCheckInCases ==
    ASSUME MonitorInv, NEW at \in Nat, RecordCheckIn(at)
    PROVE  \/ /\ emitted' = emitted
              /\ phase # "alerting" /\ phase' = "awaiting"
              /\ incidentID = NoID /\ incidentID' = NoID
           \/ \E e \in Event : RaisesResolved(e) /\ emitted' = Append(emitted, e)
<1>1. /\ phase' = "awaiting" /\ incidentID' = NoID
      /\ phase = "alerting" <=> incidentID # NoID
      /\ MonitorTypeOK
  BY DEF RecordCheckIn, ResetIncident, MonitorInv, PhaseInv
<1>2. CASE phase # "alerting"
  BY <1>1, <1>2 DEF RecordCheckIn
<1>3. CASE phase = "alerting"
  <2>1. incidentID # NoID /\ EmitResolved(at)
    BY <1>1, <1>3 DEF RecordCheckIn
  <2>2. issued \in Nat /\ incidentID \in Nat /\ overdueSince \in Nat
    BY <1>1 DEF MonitorTypeOK
  <2>3. PICK e \in Event :
            e = EventAt("resolved", incidentID, issued + 1, overdueSince, at)
    <3>1. EventAt("resolved", incidentID, issued + 1, overdueSince, at) \in Event
      BY <1>1, <2>2, EventAtType
    <3> QED BY <3>1
  <2>4. emitted' = Append(emitted, e)
    BY <1>1, <2>1, <2>3, EmitResolvedFacts
  <2>5. e.status = "resolved" /\ e.incidentID = incidentID
    BY <2>3 DEF EventAt
  <2> QED BY <1>1, <1>3, <2>1, <2>4, <2>5 DEF RaisesResolved
<1> QED BY <1>2, <1>3

LEMMA CheckCases ==
    ASSUME MonitorInv, NEW now \in Nat, Check(now)
    PROVE  \/ UNCHANGED <<phase, incidentID, emitted>>
           \/ phase = "awaiting" /\ phase' = "overdue" /\ UNCHANGED <<incidentID, emitted>>
           \/ \E e \in Event : RaisesAlert(e) /\ emitted' = Append(emitted, e)
<1>1. /\ MonitorTypeOK
      /\ phase # "alerting" => incidentID = NoID /\ alertingNotificationID = NoID
      /\ issued \in Nat /\ overdueSince \in Nat /\ ExpectedBy \in Nat
  BY ScheduleFacts DEF MonitorInv, MonitorTypeOK, PhaseInv
<1>2. ASSUME phase \in {"awaiting", "overdue"}, phase' = "alerting",
             NEW since \in Nat, EmitAlerting(now, since)
      PROVE  \E e \in Event : RaisesAlert(e) /\ emitted' = Append(emitted, e)
  <2>1. incidentID = NoID /\ alertingNotificationID = NoID
    BY <1>1, <1>2
  <2>2. PICK e \in Event : e = EventAt("alerting", issued + 1, issued + 2, since, now)
    <3>1. EventAt("alerting", issued + 1, issued + 2, since, now) \in Event
      BY <1>1, EventAtType
    <3> QED BY <3>1
  <2>3. emitted' = Append(emitted, e) /\ incidentID' = issued + 1
    BY <1>1, <1>2, <2>1, <2>2, EmitAlertingFacts
  <2>4. e.status = "alerting" /\ e.incidentID = issued + 1
    BY <2>2 DEF EventAt
  <2> QED BY <1>2, <2>1, <2>3, <2>4 DEF RaisesAlert
<1>3. CASE CheckNothingDue(now)
  BY <1>3 DEF CheckNothingDue, monitorVars
<1>4. CASE CheckEntersOverdue(now)
  BY <1>4 DEF CheckEntersOverdue
<1>5. CASE CheckAwaitingEntersAlerting(now)
  BY <1>1, <1>2, <1>5 DEF CheckAwaitingEntersAlerting
<1>6. CASE CheckOverdueEntersAlerting(now)
  BY <1>1, <1>2, <1>6 DEF CheckOverdueEntersAlerting
<1> QED BY <1>3, <1>4, <1>5, <1>6 DEF Check

\* What the caller of the monitor is given.
LEMMA ReturnedEvent ==
    ASSUME emitted \in Seq(Event), NEW e \in Event, emitted' = Append(emitted, e)
    PROVE  Returned = e
<1>1. Len(emitted') = Len(emitted) + 1 /\ Len(emitted) \in Nat
      /\ emitted'[Len(emitted')] = e
  OBVIOUS
<1>2. emitted' # emitted
  BY <1>1
<1> QED BY <1>1, <1>2 DEF Returned

\* A call of the monitor whose result goes to a goroutine that holds nothing.
LEMMA CallKinds ==
    ASSUME MonitorInv, SchedulerTypeOK, NEW p \in Goroutines, event[p] = NoEvent,
           NEW t \in Nat, RecordCheckIn(t) \/ Check(t),
           event' = [event EXCEPT ![p] = Returned], UNCHANGED <<tally, queue>>
    PROVE  \/ Keeps
           \/ \E e \in Event : Emits(p, e) /\ (RaisesAlert(e) \/ RaisesResolved(e))
<1>1. emitted \in Seq(Event) /\ event \in [Goroutines -> Event \cup {NoEvent}]
  BY DEF SchedulerTypeOK, MonitorTypeOK
<1>2. CASE emitted' = emitted
  <2>1. event' = [event EXCEPT ![p] = NoEvent]
    BY <1>2 DEF Returned
  <2>2. event' = event
    BY <1>1, <2>1
  <2>3. \A e \in Event : emitted' # Append(emitted, e)
    BY <1>1, <1>2
  <2> QED BY <1>2, <2>2, <2>3, RecordCheckInCases, CheckCases DEF Keeps
<1>3. ASSUME NEW e \in Event, emitted' = Append(emitted, e),
             RaisesAlert(e) \/ RaisesResolved(e)
      PROVE  \E f \in Event : Emits(p, f) /\ (RaisesAlert(f) \/ RaisesResolved(f))
  <2>1. event' = [event EXCEPT ![p] = e]
    BY <1>1, <1>3, ReturnedEvent
  <2>2. Emits(p, e)
    BY <1>3, <2>1 DEF Emits
  <2> QED BY <1>3, <2>2
<1> QED BY <1>2, <1>3, RecordCheckInCases, CheckCases

\* Enqueue, whoever calls it.
LEMMA EnqueueKind ==
    ASSUME SchedulerTypeOK, NEW p \in Goroutines, NEW label, Enqueue(p, label),
           UNCHANGED monitorVars
    PROVE  \E r \in Results : Settles(p, r)
<1>1. event[p] # NoEvent
  BY DEF Enqueue, SchedulerTypeOK
<1>2. CASE ~Routable(event[p])
  <2>1. Settles(p, "no_resolved_receivers")
    BY <1>1, <1>2 DEF Enqueue, Settles, Routable, PossibleOutcomes
  <2> QED BY <2>1 DEF Results
<1>3. CASE Routable(event[p])
  <2>1. PICK r \in PossibleOutcomes :
            /\ Count(event[p].status, r)
            /\ queue' = IF r = "queued" THEN Append(queue, event[p]) ELSE queue
    BY <1>3 DEF Enqueue
  <2>2. r \in Results /\ r # "no_resolved_receivers"
    BY OptionsAssumption DEF PossibleOutcomes, Results, Outcomes
  <2>3. Settles(p, r)
    BY <1>1, <2>1, <2>2 DEF Enqueue, Settles
  <2> QED BY <2>2, <2>3
<1> QED BY <1>2, <1>3

\* Every step of the program is of one of the three kinds.
LEMMA StepKinds ==
    ASSUME SchedulerInv, StartInv, [SchedulerNext]_vars
    PROVE  \/ Keeps
           \/ \E p \in Goroutines, e \in Event :
                  Emits(p, e) /\ RaisedBy(p, e)
           \/ \E p \in Goroutines, r \in Results : Settles(p, r)
<1>1. /\ MonitorInv /\ SchedulerTypeOK /\ Loop \in Goroutines /\ clock \in Nat
      /\ \A p \in Goroutines : arg[p] \in Nat
      /\ \A p \in Goroutines : ~At(p, "enqueue") => event[p] = NoEvent
      /\ \A h \in Handlers : h \in Goroutines
  BY DEF SchedulerInv, SchedulerTypeOK, Goroutines
<1>2. ASSUME UNCHANGED <<phase, incidentID, emitted, event, tally, queue>>
      PROVE  Keeps
  BY <1>2 DEF Keeps
<1>3. CASE Tick \/ Shutdown \/ Finished \/ UNCHANGED vars
  BY <1>2, <1>3 DEF Tick, Shutdown, Finished, vars, monitorVars, metricVars
<1>4. ASSUME NEW h \in Handlers, HandlerArrives(h) \/ HandlerStep(h)
      PROVE  \/ Keeps
             \/ \E e \in Event :
                    Emits(h, e) /\ RaisedBy(h, e)
             \/ \E r \in Results : Settles(h, r)
  <2>1. CASE HandlerArrives(h) \/ HandlerWritesGauge(h) \/ HandlerWakesLoop(h)
    BY <1>2, <2>1 DEF HandlerArrives, HandlerWritesGauge, HandlerWakesLoop,
       monitorVars, metricVars
  <2>2. CASE HandlerRecords(h)
    <3>1. /\ event[h] = NoEvent
          /\ RecordCheckIn(arg[h])
          /\ event' = [event EXCEPT ![h] = Returned]
          /\ UNCHANGED <<tally, queue>>
      BY <1>1, <2>2 DEF HandlerRecords, At, metricVars
    <3>2. \A e : ~RaisesAlert(e)
      BY <3>1 DEF RecordCheckIn, RaisesAlert
    <3> QED BY <1>1, <3>1, <3>2, CallKinds DEF RaisedBy
  <2>3. CASE HandlerEnqueues(h)
    BY <1>1, <2>3, EnqueueKind DEF HandlerEnqueues
  <2> QED BY <1>4, <2>1, <2>2, <2>3 DEF HandlerStep
<1>5. CASE StartActivated
  <2>1. /\ RecordCheckIn(clock) /\ phase # "alerting"
        /\ UNCHANGED <<event, tally, queue>>
    BY <1>5 DEF StartActivated, StartInv
  <2>2. \A e : ~RaisesResolved(e)
    BY <2>1 DEF RaisesResolved
  <2> QED BY <1>1, <2>1, <2>2, RecordCheckInCases DEF Keeps
<1>6. CASE LoopChecks
  <2>1. /\ event[Loop] = NoEvent
        /\ Check(arg[Loop])
        /\ event' = [event EXCEPT ![Loop] = Returned]
        /\ UNCHANGED <<tally, queue>>
    BY <1>1, <1>6 DEF LoopChecks, At, metricVars
  <2>2. \A e : ~RaisesResolved(e)
    BY <1>1, <2>1, CheckCases DEF RaisesResolved, RaisesAlert
  <2> QED BY <1>1, <2>1, <2>2, CallKinds DEF RaisedBy
<1>7. CASE LoopEnqueues
  BY <1>1, <1>7, EnqueueKind DEF LoopEnqueues
<1>8. CASE LoopStep /\ ~StartActivated /\ ~LoopChecks /\ ~LoopEnqueues
  BY <1>2, <1>8 DEF LoopStep, StartScheduled, LoopReadsDeadline, LoopSyncsTimer,
     LoopStops, LoopTakesToken, LoopReadsClock, LoopTakesTimer, LoopReadsSnapshot,
     LoopWritesGauge, monitorVars, metricVars
<1> QED BY <1>1, <1>3, <1>4, <1>5, <1>6, <1>7, <1>8 DEF SchedulerNext

-----------------------------------------------------------------------------
(* Nothing happens before the loop starts.                                 *)

LEMMA StartStep ==
    ASSUME SchedulerTypeOK, TimesInv, StartInv, [SchedulerNext]_vars
    PROVE  StartInv'
<1> USE DEF At, Goto
<1>1. /\ Loop \in Goroutines /\ \A h \in Handlers : h \in Goroutines /\ h # Loop
      /\ pc \in [Goroutines -> HandlerLabels \cup LoopLabels]
  BY ProcessesAssumption DEF Goroutines, SchedulerTypeOK
<1>2. CASE Tick \/ Shutdown \/ Finished \/ UNCHANGED vars
  BY <1>2 DEF Tick, Shutdown, Finished, vars, monitorVars, StartInv
<1>3. ASSUME NEW h \in Handlers, HandlerArrives(h) \/ HandlerStep(h)
      PROVE  pc[Loop] # "start" /\ pc'[Loop] = pc[Loop]
  <2>1. pc[Loop] # "start"
    <3>1. CASE HandlerArrives(h)
      BY <3>1 DEF HandlerArrives
    <3>2. CASE HandlerStep(h)
      BY <3>2 DEF HandlerStep, HandlerRecords, HandlerEnqueues, HandlerWritesGauge,
         HandlerWakesLoop, Enqueue, WriteGauge, StartInv
    <3> QED BY <1>3, <3>1, <3>2
  <2>2. pc' = pc \/ \E label : pc' = [pc EXCEPT ![h] = label]
    BY <1>3 DEF HandlerStep, HandlerArrives, HandlerRecords, HandlerEnqueues,
       HandlerWritesGauge, HandlerWakesLoop, Enqueue, WriteGauge
  <2> QED BY <1>1, <2>1, <2>2
<1>4. CASE LoopStep
  <2>1. \/ pc' = pc /\ pc[Loop] = "gauge"
        \/ \E label \in LoopLabels \ {"start"} : pc' = [pc EXCEPT ![Loop] = label]
    BY <1>4 DEF LoopStep, StartScheduled, StartActivated, LoopReadsDeadline,
       LoopSyncsTimer, LoopStops, LoopTakesToken, LoopReadsClock, LoopTakesTimer,
       LoopChecks, LoopEnqueues, LoopReadsSnapshot, LoopWritesGauge, Enqueue,
       WriteGauge, LoopLabels
  <2>2. pc'[Loop] # "start"
    BY <1>1, <2>1
  <2> QED BY <2>2 DEF StartInv
<1>5. ASSUME NEW h \in Handlers, HandlerArrives(h) \/ HandlerStep(h)
      PROVE  StartInv'
  BY <1>3, <1>5 DEF StartInv
<1> QED BY <1>2, <1>4, <1>5 DEF SchedulerNext

-----------------------------------------------------------------------------
(* Each event is held or queued once.                                      *)

\* The event just returned carries an identity of its own.
LEMMA NewEventIsFresh ==
    ASSUME MonitorInv, MonitorInv', NEW e \in Event, emitted' = Append(emitted, e)
    PROVE  /\ Len(emitted) \in Nat
           /\ DOMAIN emitted = 1..Len(emitted)
           /\ DOMAIN emitted' = 1..(Len(emitted) + 1)
           /\ emitted'[Len(emitted) + 1] = e
           /\ \A i \in DOMAIN emitted :
                  /\ emitted'[i] = emitted[i]
                  /\ emitted[i].notificationID # e.notificationID
<1>1. emitted \in Seq(Event)
  BY DEF MonitorInv, MonitorTypeOK
<1>2. /\ Len(emitted) \in Nat
      /\ DOMAIN emitted = 1..Len(emitted)
      /\ DOMAIN emitted' = 1..(Len(emitted) + 1)
      /\ emitted'[Len(emitted) + 1] = e
      /\ \A i \in 1..Len(emitted) : emitted'[i] = emitted[i]
  BY <1>1
<1>3. \A i \in DOMAIN emitted : emitted'[i].notificationID # e.notificationID
  <2> SUFFICES ASSUME NEW i \in DOMAIN emitted
               PROVE  emitted'[i].notificationID # e.notificationID
    OBVIOUS
  <2>1. i \in DOMAIN emitted' /\ Len(emitted) + 1 \in DOMAIN emitted' /\ i # Len(emitted) + 1
    BY <1>2
  <2>2. \A k, l \in DOMAIN emitted' :
            k # l => emitted'[k].notificationID # emitted'[l].notificationID
    BY DEF MonitorInv, FreshIDs
  <2> QED BY <1>2, <2>1, <2>2
<1> QED BY <1>2, <1>3

LEMMA HeldStepEmits ==
    ASSUME MonitorInv, MonitorInv', SchedulerTypeOK, HeldInv,
           NEW p \in Goroutines, NEW e \in Event, Emits(p, e)
    PROVE  HeldInv'
<1>1. /\ event \in [Goroutines -> Event \cup {NoEvent}] /\ event[p] = NoEvent
      /\ event' = [event EXCEPT ![p] = e] /\ emitted' = Append(emitted, e)
      /\ queue' = queue
  BY DEF SchedulerTypeOK, Emits
<1>2. /\ Held' = Held \cup {p} /\ p \notin Held /\ event'[p] = e
      /\ \A q \in Held : q # p /\ event'[q] = event[q]
  <2>1. e # NoEvent
    <3>1. e.status # "none" /\ NoEvent.status = "none"
      BY DEF Event, NoEvent
    <3> QED BY <3>1
  <2> QED BY <1>1, <2>1 DEF Held
<1>3. /\ \A i \in DOMAIN emitted : /\ i \in DOMAIN emitted' /\ emitted'[i] = emitted[i]
                                   /\ emitted[i].notificationID # e.notificationID
      /\ \E i \in DOMAIN emitted' : emitted'[i] = e
  BY <1>1, NewEventIsFresh
<1>4. \A q \in Held : event[q].notificationID # e.notificationID
  BY <1>3 DEF HeldInv
<1>5. \A j \in DOMAIN queue : queue[j].notificationID # e.notificationID
  BY <1>3 DEF HeldInv
<1>6. \A q \in Held' : \E i \in DOMAIN emitted' : event'[q] = emitted'[i]
  BY <1>2, <1>3 DEF HeldInv
<1>7. \A j \in DOMAIN queue' : \E i \in DOMAIN emitted' : queue'[j] = emitted'[i]
  BY <1>1, <1>3 DEF HeldInv
<1>8. \A q, r \in Held' : q # r => event'[q].notificationID # event'[r].notificationID
  BY <1>2, <1>4 DEF HeldInv
<1>9. \A q \in Held', j \in DOMAIN queue' :
          event'[q].notificationID # queue'[j].notificationID
  BY <1>1, <1>2, <1>5 DEF HeldInv
<1>10. \A i, j \in DOMAIN queue' :
           queue'[i].notificationID = queue'[j].notificationID => i = j
  BY <1>1 DEF HeldInv
<1> QED BY <1>6, <1>7, <1>8, <1>9, <1>10 DEF HeldInv

LEMMA HeldStepSettles ==
    ASSUME SchedulerTypeOK, HeldInv, NEW p \in Goroutines, NEW r \in Results, Settles(p, r)
    PROVE  HeldInv'
<1>1. /\ event \in [Goroutines -> Event \cup {NoEvent}] /\ queue \in Seq(Event)
      /\ event[p] # NoEvent /\ event[p] \in Event
      /\ event' = [event EXCEPT ![p] = NoEvent] /\ emitted' = emitted
  BY DEF SchedulerTypeOK, Settles, monitorVars
<1>2. /\ Held' = Held \ {p} /\ p \in Held
      /\ \A q \in Held' : q # p /\ q \in Held /\ event'[q] = event[q]
  BY <1>1 DEF Held
<1>3. /\ \A q \in Held' : \E i \in DOMAIN emitted' : event'[q] = emitted'[i]
      /\ \A q, s \in Held' : q # s => event'[q].notificationID # event'[s].notificationID
  BY <1>1, <1>2 DEF HeldInv
<1>4. CASE queue' = queue
  <2>1. /\ \A j \in DOMAIN queue' : \E i \in DOMAIN emitted' : queue'[j] = emitted'[i]
        /\ \A i, j \in DOMAIN queue' :
               queue'[i].notificationID = queue'[j].notificationID => i = j
    BY <1>1, <1>4 DEF HeldInv
  <2>2. \A q \in Held', j \in DOMAIN queue' :
            event'[q].notificationID # queue'[j].notificationID
    BY <1>2, <1>4 DEF HeldInv
  <2> QED BY <1>3, <2>1, <2>2 DEF HeldInv
<1>5. CASE queue' = Append(queue, event[p])
  <2>1. /\ Len(queue) \in Nat
        /\ DOMAIN queue = 1..Len(queue)
        /\ DOMAIN queue' = 1..(Len(queue) + 1)
        /\ queue'[Len(queue) + 1] = event[p]
        /\ \A j \in 1..Len(queue) : queue'[j] = queue[j]
    BY <1>1, <1>5
  <2>2. \A j \in DOMAIN queue' :
            \/ j \in DOMAIN queue /\ queue'[j] = queue[j]
            \/ j = Len(queue) + 1 /\ queue'[j] = event[p]
    BY <2>1
  <2>3. \A j \in DOMAIN queue' : \E i \in DOMAIN emitted' : queue'[j] = emitted'[i]
    BY <1>1, <1>2, <2>2 DEF HeldInv
  <2>4. \A q \in Held', j \in DOMAIN queue' :
            event'[q].notificationID # queue'[j].notificationID
    BY <1>2, <2>2 DEF HeldInv
  <2>5. \A i, j \in DOMAIN queue' :
            queue'[i].notificationID = queue'[j].notificationID => i = j
    <3>1. \A j \in DOMAIN queue : queue[j].notificationID # event[p].notificationID
      BY <1>2 DEF HeldInv
    <3> QED BY <2>2, <3>1 DEF HeldInv
  <2> QED BY <1>3, <2>3, <2>4, <2>5 DEF HeldInv
<1> QED BY <1>4, <1>5 DEF Settles

LEMMA HeldStep ==
    ASSUME SchedulerInv, StartInv, HeldInv, MonitorInv', [SchedulerNext]_vars
    PROVE  HeldInv'
<1>1. MonitorInv /\ SchedulerTypeOK
  BY DEF SchedulerInv
<1>2. CASE Keeps
  BY <1>2 DEF Keeps, HeldInv, Held
<1> QED BY <1>1, <1>2, StepKinds, HeldStepEmits, HeldStepSettles

-----------------------------------------------------------------------------
(* Counting.                                                               *)

\* The number of events of a status in a sequence, after one more event.
LEMMA WithStatusAppend ==
    ASSUME NEW events \in Seq(Event), NEW e \in Event, NEW s
    PROVE  /\ Cardinality(WithStatus(events, s)) \in Nat
           /\ Cardinality(WithStatus(Append(events, e), s))
                  = Cardinality(WithStatus(events, s)) + IF e.status = s THEN 1 ELSE 0
<1> DEFINE n == Len(events)
<1>1. /\ n \in Nat /\ DOMAIN events = 1..n
      /\ DOMAIN Append(events, e) = 1..(n + 1)
      /\ Append(events, e)[n + 1] = e
      /\ \A i \in 1..n : Append(events, e)[i] = events[i]
  OBVIOUS
<1>2. IsFiniteSet(WithStatus(events, s)) /\ n + 1 \notin WithStatus(events, s)
  <2>1. IsFiniteSet(1..n)
    BY <1>1, FS_Interval
  <2>2. WithStatus(events, s) \in SUBSET (1..n)
    BY <1>1 DEF WithStatus
  <2>3. n + 1 \notin 1..n
    BY <1>1
  <2> QED BY <2>1, <2>2, <2>3, FS_Subset
<1>3. WithStatus(Append(events, e), s)
          = IF e.status = s THEN WithStatus(events, s) \cup {n + 1} ELSE WithStatus(events, s)
  <2>1. \A i : i \in 1..(n + 1) <=> i \in 1..n \/ i = n + 1
    BY <1>1
  <2> QED BY <1>1, <2>1 DEF WithStatus
<1>4. Cardinality(WithStatus(events, s)) \in Nat
  BY <1>2, FS_CardinalityType
<1>5. Cardinality(WithStatus(events, s) \cup {n + 1}) = Cardinality(WithStatus(events, s)) + 1
  BY <1>2, FS_AddElement
<1> QED BY <1>3, <1>4, <1>5

\* A goroutine gets an event.
LEMMA HeldWithMore ==
    ASSUME SchedulerTypeOK, NEW p \in Goroutines, NEW s \in Statuses,
           IsFiniteSet(HeldWith(s)), NEW e \in Event,
           event[p] = NoEvent, event' = [event EXCEPT ![p] = e]
    PROVE  /\ Cardinality(HeldWith(s)) \in Nat
           /\ IsFiniteSet(HeldWith(s)')
           /\ Cardinality(HeldWith(s)')
                  = Cardinality(HeldWith(s)) + IF e.status = s THEN 1 ELSE 0
<1>1. /\ event \in [Goroutines -> Event \cup {NoEvent}]
      /\ NoEvent.status # s
      /\ Cardinality(HeldWith(s)) \in Nat
  BY FS_CardinalityType DEF SchedulerTypeOK, NoEvent, Statuses
<1>2. HeldWith(s)' = IF e.status = s THEN HeldWith(s) \cup {p} ELSE HeldWith(s)
  BY <1>1 DEF HeldWith
<1>3. p \notin HeldWith(s)
  BY <1>1 DEF HeldWith
<1>4. /\ IsFiniteSet(HeldWith(s) \cup {p})
      /\ Cardinality(HeldWith(s) \cup {p}) = Cardinality(HeldWith(s)) + 1
  BY <1>3, FS_AddElement
<1> QED BY <1>1, <1>2, <1>4

\* A goroutine lets go of the event it has.
LEMMA HeldWithLess ==
    ASSUME SchedulerTypeOK, NEW p \in Goroutines, NEW s \in Statuses,
           IsFiniteSet(HeldWith(s)), event' = [event EXCEPT ![p] = NoEvent]
    PROVE  /\ IsFiniteSet(HeldWith(s)')
           /\ Cardinality(HeldWith(s)') \in Nat
           /\ Cardinality(HeldWith(s))
                  = Cardinality(HeldWith(s)') + IF event[p].status = s THEN 1 ELSE 0
<1>1. /\ event \in [Goroutines -> Event \cup {NoEvent}]
      /\ NoEvent.status # s
      /\ Cardinality(HeldWith(s)) \in Nat
  BY FS_CardinalityType DEF SchedulerTypeOK, NoEvent, Statuses
<1>2. HeldWith(s)' = HeldWith(s) \ {p}
  BY <1>1 DEF HeldWith
<1>3. p \in HeldWith(s) <=> event[p].status = s
  BY DEF HeldWith
<1>4. /\ IsFiniteSet(HeldWith(s) \ {p})
      /\ Cardinality(HeldWith(s) \ {p})
             = IF p \in HeldWith(s) THEN Cardinality(HeldWith(s)) - 1
               ELSE Cardinality(HeldWith(s))
  BY FS_RemoveElement
<1>5. Cardinality(HeldWith(s) \ {p}) \in Nat
  BY <1>4, FS_CardinalityType
<1> QED BY <1>1, <1>2, <1>3, <1>4, <1>5

\* One more result is counted for one status and for no other.
LEMMA CountedStep ==
    ASSUME tally \in [Statuses \X Results -> Nat], NEW s \in Statuses,
           NEW t \in Statuses, NEW r \in Results, Count(t, r)
    PROVE  /\ Counted(s) \in Nat
           /\ Counted(s)' = Counted(s) + IF t = s THEN 1 ELSE 0
           /\ tally'[<<s, "queued">>]
                  = tally[<<s, "queued">>] + IF t = s /\ r = "queued" THEN 1 ELSE 0
<1>1. tally' = [tally EXCEPT ![<<t, r>>] = tally[<<t, r>>] + 1] /\ <<t, r>> \in Statuses \X Results
  BY DEF Count
<1>2. \A q \in Results :
          /\ <<s, q>> \in Statuses \X Results
          /\ tally[<<s, q>>] \in Nat
          /\ tally'[<<s, q>>] = IF t = s /\ r = q THEN tally[<<s, q>>] + 1 ELSE tally[<<s, q>>]
  BY <1>1
<1>3. /\ "queued" \in Results /\ "queue_failed" \in Results
      /\ "empty_queue_id" \in Results /\ "no_resolved_receivers" \in Results
      /\ r \in {"queued", "queue_failed", "empty_queue_id", "no_resolved_receivers"}
  BY DEF Results, Outcomes
<1> QED BY <1>2, <1>3 DEF Counted

LEMMA CountStep ==
    ASSUME SchedulerInv, StartInv, CountInv, [SchedulerNext]_vars
    PROVE  CountInv'
<1>1. /\ SchedulerTypeOK /\ emitted \in Seq(Event) /\ queue \in Seq(Event)
      /\ tally \in [Statuses \X Results -> Nat]
      /\ event \in [Goroutines -> Event \cup {NoEvent}]
      /\ \A s : Emitted(s) = Cardinality(WithStatus(emitted, s))
      /\ \A s : Emitted(s)' = Cardinality(WithStatus(emitted', s))
  BY DEF SchedulerInv, SchedulerTypeOK, MonitorTypeOK, Emitted, WithStatus
<1>2. CASE Keeps
  BY <1>2 DEF Keeps, CountInv, HeldWith, Emitted, Counted, WithStatus
<1>3. ASSUME NEW p \in Goroutines, NEW e \in Event, Emits(p, e), NEW s \in Statuses
      PROVE  /\ IsFiniteSet(HeldWith(s)')
             /\ Emitted(s)' = Counted(s)' + Cardinality(HeldWith(s)')
             /\ tally'[<<s, "queued">>] = Cardinality(WithStatus(queue', s))
  <2>1. /\ IsFiniteSet(HeldWith(s)) /\ Emitted(s) = Counted(s) + Cardinality(HeldWith(s))
        /\ tally[<<s, "queued">>] = Cardinality(WithStatus(queue, s))
    BY DEF CountInv
  <2>2. /\ event[p] = NoEvent /\ event' = [event EXCEPT ![p] = e]
        /\ emitted' = Append(emitted, e) /\ tally' = tally /\ queue' = queue
    BY <1>3 DEF Emits
  <2>3. /\ IsFiniteSet(HeldWith(s)') /\ Cardinality(HeldWith(s)) \in Nat
        /\ Cardinality(HeldWith(s)')
               = Cardinality(HeldWith(s)) + IF e.status = s THEN 1 ELSE 0
    BY <1>1, <2>1, <2>2, HeldWithMore
  <2>4. /\ Emitted(s) \in Nat
        /\ Emitted(s)' = Emitted(s) + IF e.status = s THEN 1 ELSE 0
    BY <1>1, <2>2, WithStatusAppend
  <2>5. Counted(s)' = Counted(s) /\ Counted(s) \in Nat
    <3>1. \A r \in Results : tally[<<s, r>>] \in Nat
      BY <1>1
    <3>2. /\ "queued" \in Results /\ "queue_failed" \in Results
          /\ "empty_queue_id" \in Results /\ "no_resolved_receivers" \in Results
      BY DEF Results, Outcomes
    <3>3. Counted(s) \in Nat
      BY <3>1, <3>2 DEF Counted
    <3>4. Counted(s)' = Counted(s)
      BY <2>2 DEF Counted
    <3> QED BY <3>3, <3>4
  <2>6. Emitted(s)' = Counted(s)' + Cardinality(HeldWith(s)')
    BY <2>1, <2>3, <2>4, <2>5
  <2>7. tally'[<<s, "queued">>] = Cardinality(WithStatus(queue', s))
    BY <2>1, <2>2
  <2> QED BY <2>3, <2>6, <2>7
<1>4. ASSUME NEW p \in Goroutines, NEW r \in Results, Settles(p, r), NEW s \in Statuses
      PROVE  /\ IsFiniteSet(HeldWith(s)')
             /\ Emitted(s)' = Counted(s)' + Cardinality(HeldWith(s)')
             /\ tally'[<<s, "queued">>] = Cardinality(WithStatus(queue', s))
  <2>1. /\ IsFiniteSet(HeldWith(s)) /\ Emitted(s) = Counted(s) + Cardinality(HeldWith(s))
        /\ tally[<<s, "queued">>] = Cardinality(WithStatus(queue, s))
    BY DEF CountInv
  <2>2. /\ event[p] \in Event /\ event[p].status \in Statuses
        /\ event' = [event EXCEPT ![p] = NoEvent]
        /\ Count(event[p].status, r)
        /\ queue' = IF r = "queued" THEN Append(queue, event[p]) ELSE queue
        /\ emitted' = emitted
    BY <1>1, <1>4 DEF Settles, monitorVars, Event, Statuses
  <2>3. /\ IsFiniteSet(HeldWith(s)')
        /\ Cardinality(HeldWith(s))
               = Cardinality(HeldWith(s)') + IF event[p].status = s THEN 1 ELSE 0
    BY <1>1, <2>1, <2>2, HeldWithLess
  <2>4. Cardinality(HeldWith(s)') \in Nat
    BY <1>1, <2>1, <2>2, HeldWithLess
  <2>5. Emitted(s)' = Emitted(s)
    BY <1>1, <2>2
  <2>6. /\ Counted(s) \in Nat
        /\ Counted(s)' = Counted(s) + IF event[p].status = s THEN 1 ELSE 0
        /\ tally'[<<s, "queued">>]
               = tally[<<s, "queued">>]
                 + IF event[p].status = s /\ r = "queued" THEN 1 ELSE 0
    BY <1>1, <2>2, CountedStep
  <2>7. Cardinality(WithStatus(queue', s))
            = Cardinality(WithStatus(queue, s))
              + IF event[p].status = s /\ r = "queued" THEN 1 ELSE 0
    <3>1. /\ Cardinality(WithStatus(queue, s)) \in Nat
          /\ Cardinality(WithStatus(Append(queue, event[p]), s))
                 = Cardinality(WithStatus(queue, s))
                   + IF event[p].status = s THEN 1 ELSE 0
      BY <1>1, <2>2, WithStatusAppend
    <3> QED BY <2>2, <3>1
  <2>8. Emitted(s)' = Counted(s)' + Cardinality(HeldWith(s)')
    BY <2>1, <2>3, <2>4, <2>5, <2>6
  <2> QED BY <2>1, <2>3, <2>6, <2>7, <2>8
<1> QED BY <1>2, <1>3, <1>4, StepKinds DEF CountInv

-----------------------------------------------------------------------------
(* Alerts reach the queue.                                                 *)

\* A refusal is not forgotten.
LEMMA RefusedStep ==
    ASSUME tally \in [Statuses \X Results -> Nat], NEW s \in Statuses, NEW r \in Results,
           Count(s, r)
    PROVE  /\ AlertRefused => AlertRefused'
           /\ s = "alerting" /\ r \in {"queue_failed", "empty_queue_id"} => AlertRefused'
<1> DEFINE Refusals == {"queue_failed", "empty_queue_id"}
<1>1. /\ tally' = [tally EXCEPT ![<<s, r>>] = tally[<<s, r>>] + 1]
      /\ <<s, r>> \in Statuses \X Results
  BY DEF Count
<1>2. "alerting" \in Statuses /\ Refusals \subseteq Results
  BY DEF Statuses, Results, Outcomes
<1>3. \A q \in Refusals :
          /\ tally[<<"alerting", q>>] \in Nat
          /\ tally'[<<"alerting", q>>] = IF s = "alerting" /\ r = q
                                         THEN tally[<<"alerting", q>>] + 1
                                         ELSE tally[<<"alerting", q>>]
  BY <1>1, <1>2
<1> QED BY <1>3 DEF AlertRefused

LEMMA AlertStepEmits ==
    ASSUME MonitorInv, MonitorInv', SchedulerTypeOK, AlertInv,
           NEW p \in Goroutines, NEW e \in Event, Emits(p, e), RaisedBy(p, e)
    PROVE  AlertInv'
<1>1. /\ event \in [Goroutines -> Event \cup {NoEvent}] /\ event[p] = NoEvent
      /\ event' = [event EXCEPT ![p] = e] /\ emitted' = Append(emitted, e)
      /\ queue' = queue /\ tally' = tally
      /\ Loop \notin Handlers /\ Loop \in Goroutines
      /\ \A h \in Handlers : h \in Goroutines
      /\ NoEvent.status # "alerting"
  BY ProcessesAssumption DEF SchedulerTypeOK, Emits, Goroutines, NoEvent
<1>2. /\ DOMAIN emitted = 1..Len(emitted) /\ DOMAIN emitted' = 1..(Len(emitted) + 1)
      /\ emitted'[Len(emitted) + 1] = e
      /\ \A i \in DOMAIN emitted : emitted'[i] = emitted[i]
  BY <1>1, NewEventIsFresh
<1>3. Len(emitted) \in Nat
  BY <1>1, NewEventIsFresh
<1>4. e.status = "alerting" => p = Loop
  BY DEF RaisedBy, RaisesResolved
<1>5. \A h \in Handlers : event'[h].status # "alerting"
  BY <1>1, <1>4 DEF AlertInv
<1>6. AlertRefused' = AlertRefused
  BY <1>1 DEF AlertRefused
<1>7. ASSUME NEW i \in DOMAIN emitted', emitted'[i].status = "alerting"
      PROVE  \/ AlertRefused'
             \/ event'[Loop] = emitted'[i]
             \/ \E j \in DOMAIN queue' : queue'[j] = emitted'[i]
  <2>1. CASE i = Len(emitted) + 1
    BY <1>1, <1>2, <1>4, <1>7, <2>1
  <2>2. CASE i \in DOMAIN emitted
    <3>1. \/ AlertRefused
          \/ event[Loop] = emitted[i]
          \/ \E j \in DOMAIN queue : queue[j] = emitted[i]
      BY <1>2, <1>7, <2>2 DEF AlertInv, AlertsReachQueue
    <3>2. event[Loop] = emitted[i] => event'[Loop] = event[Loop]
      <4>1. event[Loop] = emitted[i] => event[Loop] # NoEvent
        BY <1>1, <1>2, <1>7, <2>2
      <4> QED BY <1>1, <4>1
    <3> QED BY <1>1, <1>2, <1>6, <2>2, <3>1, <3>2
  <2> QED BY <1>2, <1>3, <2>1, <2>2
<1> QED BY <1>5, <1>7 DEF AlertInv, AlertsReachQueue

LEMMA AlertStepSettles ==
    ASSUME SchedulerTypeOK, AlertInv, NEW p \in Goroutines, NEW r \in Results, Settles(p, r)
    PROVE  AlertInv'
<1>1. /\ event \in [Goroutines -> Event \cup {NoEvent}] /\ queue \in Seq(Event)
      /\ tally \in [Statuses \X Results -> Nat]
      /\ event[p] \in Event /\ event[p].status \in Statuses
      /\ event' = [event EXCEPT ![p] = NoEvent] /\ emitted' = emitted
      /\ Count(event[p].status, r)
      /\ queue' = IF r = "queued" THEN Append(queue, event[p]) ELSE queue
      /\ Loop \in Goroutines /\ \A h \in Handlers : h \in Goroutines
      /\ NoEvent.status # "alerting"
  BY DEF SchedulerTypeOK, Settles, monitorVars, Goroutines, Event, Statuses, NoEvent
<1>2. \A h \in Handlers : event'[h].status # "alerting"
  BY <1>1 DEF AlertInv
<1>3. /\ AlertRefused => AlertRefused'
      /\ event[p].status = "alerting" /\ r \in {"queue_failed", "empty_queue_id"}
             => AlertRefused'
  BY <1>1, RefusedStep
<1>4. \A j \in DOMAIN queue : j \in DOMAIN queue' /\ queue'[j] = queue[j]
  BY <1>1
<1>5. r = "queued" => \E j \in DOMAIN queue' : queue'[j] = event[p]
  <2> SUFFICES ASSUME r = "queued" PROVE \E j \in DOMAIN queue' : queue'[j] = event[p]
    OBVIOUS
  <2>1. Len(queue) + 1 \in DOMAIN queue' /\ queue'[Len(queue) + 1] = event[p]
    BY <1>1
  <2> QED BY <2>1
<1>6. ASSUME NEW i \in DOMAIN emitted, emitted[i].status = "alerting"
      PROVE  \/ AlertRefused'
             \/ event'[Loop] = emitted[i]
             \/ \E j \in DOMAIN queue' : queue'[j] = emitted[i]
  <2>1. CASE AlertRefused \/ \E j \in DOMAIN queue : queue[j] = emitted[i]
    BY <1>3, <1>4, <2>1
  <2>2. CASE event[Loop] = emitted[i] /\ p # Loop
    BY <1>1, <2>2
  <2>3. CASE event[Loop] = emitted[i] /\ p = Loop
    <3>1. r \in {"queued", "queue_failed", "empty_queue_id"}
      BY <1>6, <2>3 DEF Settles, Results, Outcomes
    <3> QED BY <1>3, <1>5, <1>6, <2>3, <3>1
  <2> QED BY <1>6, <2>1, <2>2, <2>3 DEF AlertInv, AlertsReachQueue
<1> QED BY <1>1, <1>2, <1>6 DEF AlertInv, AlertsReachQueue

LEMMA AlertStep ==
    ASSUME SchedulerInv, StartInv, AlertInv, MonitorInv', [SchedulerNext]_vars
    PROVE  AlertInv'
<1>1. MonitorInv /\ SchedulerTypeOK
  BY DEF SchedulerInv
<1>2. CASE Keeps
  BY <1>2 DEF Keeps, AlertInv, AlertsReachQueue, AlertRefused
<1> QED BY <1>1, <1>2, StepKinds, AlertStepEmits, AlertStepSettles

-----------------------------------------------------------------------------
(* The inductive invariant of the notifications.                           *)

LEMMA NotificationInvFresh == FreshProcess => NotificationInv
<1> SUFFICES ASSUME FreshProcess PROVE NotificationInv
  OBVIOUS
<1>1. SchedulerInv
  BY SchedulerInvFresh
<1>2. /\ event = [p \in Goroutines |-> NoEvent] /\ queue = <<>> /\ emitted = <<>>
      /\ tally = [c \in Statuses \X Results |-> 0]
      /\ phase = "scheduled" /\ \A h \in Handlers : pc[h] = "idle"
  BY ProcessesAssumption DEF FreshProcess, FreshMonitor, Goroutines
<1>3. StartInv /\ HeldInv
  BY <1>2 DEF StartInv, At, HeldInv, Held
<1>4. CountInv
  <2> SUFFICES ASSUME NEW s \in Statuses
               PROVE  /\ IsFiniteSet(HeldWith(s))
                      /\ Emitted(s) = Counted(s) + Cardinality(HeldWith(s))
                      /\ tally[<<s, "queued">>] = Cardinality(WithStatus(queue, s))
    BY DEF CountInv
  <2>1. HeldWith(s) = {} /\ WithStatus(queue, s) = {}
    BY <1>2 DEF HeldWith, WithStatus, NoEvent, Statuses
  <2>2. {i \in DOMAIN emitted : emitted[i].status = s} = {}
    BY <1>2
  <2>3. \A r \in Results : tally[<<s, r>>] = 0
    BY <1>2
  <2>4. Counted(s) = 0 /\ tally[<<s, "queued">>] = 0
    BY <2>3 DEF Counted, Results, Outcomes
  <2> QED BY <2>1, <2>2, <2>4, FS_EmptySet DEF Emitted
<1>5. AlertInv
  BY <1>2 DEF AlertInv, AlertsReachQueue, NoEvent, Goroutines
<1> QED BY <1>1, <1>3, <1>4, <1>5 DEF NotificationInv

LEMMA NotificationInvInit == SchedulerInit => NotificationInv
BY InitIsFresh, NotificationInvFresh

LEMMA NotificationInvStep == NotificationInv /\ [SchedulerNext]_vars => NotificationInv'
<1> SUFFICES ASSUME NotificationInv, [SchedulerNext]_vars PROVE NotificationInv'
  OBVIOUS
<1>1. /\ SchedulerInv /\ StartInv /\ HeldInv /\ CountInv /\ AlertInv
      /\ SchedulerTypeOK /\ TimesInv
  BY DEF NotificationInv, SchedulerInv
<1>2. SchedulerInv' /\ MonitorInv'
  BY <1>1, SchedulerInvStep DEF SchedulerInv
<1>3. StartInv' /\ HeldInv' /\ CountInv' /\ AlertInv'
  BY <1>1, <1>2, StartStep, HeldStep, CountStep, AlertStep
<1> QED BY <1>2, <1>3 DEF NotificationInv

\* It holds in every behaviour of the program.
THEOREM NotificationInvariant == SchedulerSpec => []NotificationInv
<1> QED BY NotificationInvInit, NotificationInvStep, PTL DEF SchedulerSpec

\* Every event is in flight or counted under one result, and the queue holds
\* exactly the events counted as queued, each once, for any number of handlers
\* and any outcomes of Enqueue (scheduler.go:99-105, 124-128, 152-199).
THEOREM NotificationsAreAccounted == SchedulerSpec => []NotificationsAccounted
<1>1. NotificationInv => NotificationsAccounted
  BY DEF NotificationInv, CountInv, HeldInv, NotificationsAccounted, HeldWith, WithStatus
<1> QED BY <1>1, NotificationInvariant, PTL

\* Only a refusal by notifykit loses an alert, for any number of handlers and
\* whatever overtakes the loop (scheduler.go:124-128, 152-199; event.go:31-36).
THEOREM AlertsAreQueued == SchedulerSpec => []AlertsReachQueue
<1>1. NotificationInv => AlertsReachQueue
  BY DEF NotificationInv, AlertInv
<1> QED BY <1>1, NotificationInvariant, PTL

\* A queued resolution never stands alone.  Whichever of the two was queued first
\* (the requests may overtake the loop), the alert of its incident is in the queue
\* as well, or the loop is about to offer it, or notifykit refused an alert
\* (README.md:16-17; scheduler.go:99-102, 124-128).
ResolutionHasAlert ==
    \A j \in DOMAIN queue : queue[j].status = "resolved" =>
        \/ AlertRefused
        \/ /\ event[Loop].status = "alerting"
           /\ event[Loop].incidentID = queue[j].incidentID
        \/ \E i \in DOMAIN queue :
               /\ queue[i].status = "alerting"
               /\ queue[i].incidentID = queue[j].incidentID

\* Every resolution in the queue has its alert beside it, on the way to it, or
\* refused, for any number of requests (scheduler.go:99-102, 124-128).
THEOREM ResolutionsHaveAlerts == SchedulerSpec => []ResolutionHasAlert
<1>1. ASSUME NotificationInv, NEW j \in DOMAIN queue, queue[j].status = "resolved",
             ~AlertRefused
      PROVE  \/ /\ event[Loop].status = "alerting"
                /\ event[Loop].incidentID = queue[j].incidentID
             \/ \E i \in DOMAIN queue :
                    /\ queue[i].status = "alerting"
                    /\ queue[i].incidentID = queue[j].incidentID
  <2>1. /\ HeldInv /\ AlertsReachQueue /\ EpisodesPaired /\ MonitorTypeOK
    BY <1>1 DEF NotificationInv, AlertInv, SchedulerInv, MonitorInv
  <2>2. PICK n \in DOMAIN emitted : queue[j] = emitted[n]
    BY <2>1 DEF HeldInv
  <2>3. n \in Nat /\ n >= 1 /\ DOMAIN emitted = 1..Len(emitted) /\ Len(emitted) \in Nat
    BY <2>1 DEF MonitorTypeOK
  <2>4. n % 2 = 0
    <3>1. n % 2 # 1
      BY <1>1, <2>1, <2>2 DEF EpisodesPaired
    <3> QED BY <2>3, <3>1
  <2>5. n - 1 \in DOMAIN emitted /\ (n - 1) % 2 = 1
    BY <2>3, <2>4
  <2>6. /\ emitted[n - 1].status = "alerting"
        /\ emitted[n - 1].incidentID = queue[j].incidentID
    BY <2>1, <2>2, <2>4, <2>5 DEF EpisodesPaired, SameEpisode
  <2>7. event[Loop] = emitted[n - 1] \/ \E i \in DOMAIN queue : queue[i] = emitted[n - 1]
    BY <1>1, <2>1, <2>5, <2>6 DEF AlertsReachQueue
  <2> QED BY <2>6, <2>7
<1>2. NotificationInv => ResolutionHasAlert
  BY <1>1 DEF ResolutionHasAlert
<1> QED BY <1>2, NotificationInvariant, PTL

LEMMA UnrefusedIsNotified ==
    ASSUME NotificationInv, ~AlertRefused
    PROVE  AlertingPhaseIsNotified
<1> SUFFICES ASSUME At(Loop, "select"), phase = "alerting"
             PROVE  \E j \in DOMAIN queue :
                        queue[j].status = "alerting" /\ queue[j].incidentID = incidentID
  BY DEF AlertingPhaseIsNotified
<1>1. /\ OpenAlertInv /\ EpisodesPaired /\ MonitorTypeOK
      /\ SchedulerTypeOK /\ AlertsReachQueue /\ Loop \in Goroutines
  BY DEF NotificationInv, SchedulerInv, MonitorInv, AlertInv, Goroutines
<1>2. PICK i \in DOMAIN emitted :
          emitted[i].status = "alerting" /\ emitted[i].incidentID = incidentID
  <2> DEFINE n == Len(emitted)
  <2>1. /\ n > 0 /\ n % 2 = 1 /\ emitted[n].incidentID = incidentID
        /\ n \in Nat /\ DOMAIN emitted = 1..n
    BY <1>1 DEF OpenAlertInv, EpisodesPaired, MonitorTypeOK
  <2>2. n \in DOMAIN emitted
    BY <2>1
  <2>3. emitted[n].status = "alerting"
    BY <1>1, <2>1, <2>2 DEF EpisodesPaired
  <2> QED BY <2>1, <2>2, <2>3
<1>3. event[Loop] = NoEvent
  BY <1>1 DEF SchedulerTypeOK, At
<1>4. event[Loop] # emitted[i]
  BY <1>2, <1>3 DEF NoEvent
<1>5. PICK j \in DOMAIN queue : queue[j] = emitted[i]
  BY <1>1, <1>2, <1>4 DEF AlertsReachQueue
<1> QED BY <1>2, <1>5

\* What the comment on PhaseAlerting says is true until notifykit refuses an
\* alert: back in its select, the loop has queued the alert of the incident the
\* monitor is in (monitor.go:88, scheduler.go:124-128).
THEOREM AlertingIsNotified == SchedulerSpec => [](AlertRefused \/ AlertingPhaseIsNotified)
<1>1. NotificationInv => AlertRefused \/ AlertingPhaseIsNotified
  BY UnrefusedIsNotified
<1> QED BY <1>1, NotificationInvariant, PTL

-----------------------------------------------------------------------------
(* The program implements the alarm.                                       *)

\* The alarm's variables in the program, but for the phase.
Open == {incidentID} \ {NoID}

Raised == {Notice(emitted[i]) : i \in DOMAIN emitted}

Pending == {Notice(event[p]) : p \in {q \in Goroutines : event[q] # NoEvent}}

Queued == [i \in DOMAIN queue |-> Notice(queue[i])]

\* An event returned by the monitor is a new notice, raised and pending.
LEMMA NoticeRaised ==
    ASSUME MonitorInv, MonitorInv', SchedulerTypeOK,
           NEW p \in Goroutines, NEW e \in Event, Emits(p, e)
    PROVE  /\ Raised' = Raised \cup {Notice(e)}
           /\ Pending' = Pending \cup {Notice(e)}
           /\ Queued' = Queued
           /\ \A m \in Raised : m.id # Notice(e).id
<1>1. /\ event \in [Goroutines -> Event \cup {NoEvent}] /\ event[p] = NoEvent
      /\ event' = [event EXCEPT ![p] = e] /\ emitted' = Append(emitted, e)
      /\ queue' = queue
  BY DEF SchedulerTypeOK, Emits
<1>2. /\ DOMAIN emitted' = DOMAIN emitted \cup {Len(emitted) + 1}
      /\ emitted'[Len(emitted) + 1] = e
      /\ \A i \in DOMAIN emitted : /\ emitted'[i] = emitted[i]
                                   /\ emitted[i].notificationID # e.notificationID
  BY <1>1, NewEventIsFresh
<1>3. Raised' = Raised \cup {Notice(e)}
  BY <1>2 DEF Raised, Notice
<1>4. Pending' = Pending \cup {Notice(e)}
  <2>1. e # NoEvent
    <3>1. e.status # "none" /\ NoEvent.status = "none"
      BY DEF Event, NoEvent
    <3> QED BY <3>1
  <2>2. /\ \A q \in Goroutines : q # p => event'[q] = event[q]
        /\ event'[p] = e
    BY <1>1
  <2> QED BY <1>1, <2>1, <2>2 DEF Pending, Notice
<1>5. \A m \in Raised : m.id # Notice(e).id
  BY <1>2 DEF Raised, Notice
<1> QED BY <1>1, <1>3, <1>4, <1>5 DEF Queued

LEMMA AlarmRaises ==
    ASSUME MonitorInv, MonitorInv', SchedulerTypeOK,
           NEW p \in Goroutines, NEW e \in Event, Emits(p, e),
           RaisedBy(p, e)
    PROVE  UserView!Alert \/ UserView!Resolve
<1>1. /\ Raised' = Raised \cup {Notice(e)}
      /\ Pending' = Pending \cup {Notice(e)}
      /\ Queued' = Queued
      /\ \A m \in Raised : m.id # Notice(e).id
  BY NoticeRaised
<1>2. /\ Notice(e).status = e.status /\ Notice(e).incident = e.incidentID
      /\ Notice(e) \in Raised'
  BY <1>1 DEF Notice
<1>3. CASE RaisesAlert(e)
  <2>1. /\ issued \in Nat /\ issued + 1 # NoID
        /\ \A i \in DOMAIN emitted : emitted[i].incidentID \in 1..issued
    BY DEF MonitorInv, MonitorTypeOK, IssuedInv, NoID
  <2>2. Open' = {issued + 1}
    BY <1>3, <2>1 DEF RaisesAlert, Open
  <2>3. \A m \in Raised : m.incident \notin Open'
    <3>1. \A m \in Raised : m.incident \in 1..issued
      BY <2>1 DEF Raised, Notice
    <3> QED BY <2>1, <2>2, <3>1
  <2>4. \E n \in Raised' : Open' = {n.incident}
    BY <1>2, <1>3, <2>2 DEF RaisesAlert
  <2>5. UserView!Raises("alerting", Open')
    BY <1>1, <1>2, <1>3, <2>2 DEF RaisesAlert, UserView!Raises, Raised, Pending, Queued
  <2> QED BY <1>3, <2>3, <2>4, <2>5 DEF RaisesAlert, UserView!Alert, Raised, Open
<1>4. CASE RaisesResolved(e)
  <2>1. Open' = {} /\ e.incidentID \in Open
    BY <1>4 DEF RaisesResolved, Open
  <2>2. UserView!Raises("resolved", Open)
    BY <1>1, <1>2, <1>4, <2>1 DEF RaisesResolved, UserView!Raises, Raised, Pending, Queued
  <2> QED BY <1>4, <2>1, <2>2 DEF RaisesResolved, UserView!Resolve, Open
<1> QED BY <1>3, <1>4 DEF RaisedBy

\* The queue as notices, after one more event.
LEMMA QueuedAppend ==
    ASSUME NEW events \in Seq(Event), NEW e \in Event
    PROVE  [i \in DOMAIN Append(events, e) |-> Notice(Append(events, e)[i])]
               = Append([i \in DOMAIN events |-> Notice(events[i])], Notice(e))
<1> DEFINE f == [i \in DOMAIN events |-> Notice(events[i])]
           t == Append(events, e)
           g == [i \in DOMAIN t |-> Notice(t[i])]
           S == {Notice(x) : x \in Event}
<1>1. /\ Len(events) \in Nat /\ DOMAIN events = 1..Len(events)
      /\ DOMAIN t = 1..(Len(events) + 1)
      /\ t[Len(events) + 1] = e
      /\ \A i \in 1..Len(events) : t[i] = events[i]
  OBVIOUS
<1>2. f \in Seq(S) /\ Len(f) = Len(events)
  <2>1. \A i \in 1..Len(events) : events[i] \in Event
    BY ElementOfSeq
  <2>2. f \in [1..Len(events) -> S]
    BY <1>1, <2>1
  <2>3. f \in Seq(S)
    BY <1>1, <2>2, SeqDef
  <2> QED BY <1>1, <2>2, <2>3
<1>3. Notice(e) \in S
  OBVIOUS
<1> HIDE DEF S
<1>4. /\ Append(f, Notice(e)) \in Seq(S)
      /\ DOMAIN Append(f, Notice(e)) = 1..(Len(events) + 1)
      /\ Append(f, Notice(e))[Len(events) + 1] = Notice(e)
      /\ \A i \in 1..Len(events) : Append(f, Notice(e))[i] = f[i]
  BY <1>1, <1>2, <1>3
<1>5. ASSUME NEW i \in 1..(Len(events) + 1)
      PROVE  g[i] = Append(f, Notice(e))[i]
  <2>1. CASE i = Len(events) + 1
    BY <1>1, <1>4, <2>1
  <2>2. CASE i \in 1..Len(events)
    BY <1>1, <1>4, <2>2
  <2>3. i = Len(events) + 1 \/ i \in 1..Len(events)
    BY <1>1
  <2> QED BY <2>1, <2>2, <2>3
<1> DEFINE h == Append(f, Notice(e))
<1>6. h \in [1..(Len(events) + 1) -> S]
  <2>1. h \in Seq(S) /\ Len(h) = Len(events) + 1
    BY <1>2, <1>3, AppendProperties
  <2> HIDE DEF h
  <2> QED BY <2>1, LenProperties
<1>7. DOMAIN g = 1..(Len(events) + 1) /\ g = [i \in DOMAIN g |-> g[i]]
  BY <1>1
<1>8. \A i \in 1..(Len(events) + 1) : g[i] = h[i]
  BY <1>5
<1>9. g = h
  <2> HIDE DEF f, t, g, h
  <2>1. h = [i \in 1..(Len(events) + 1) |-> h[i]]
    BY <1>6
  <2> QED BY <1>7, <1>8, <2>1
<1> QED BY <1>9

LEMMA AlarmSettles ==
    ASSUME SchedulerTypeOK, HeldInv, NEW p \in Goroutines, NEW r \in Results, Settles(p, r)
    PROVE  UserView!Settle
<1>1. /\ event \in [Goroutines -> Event \cup {NoEvent}] /\ queue \in Seq(Event)
      /\ event[p] # NoEvent /\ event[p] \in Event
      /\ event' = [event EXCEPT ![p] = NoEvent]
      /\ queue' \in {queue, Append(queue, event[p])}
      /\ UNCHANGED <<phase, incidentID, emitted>>
  BY DEF SchedulerTypeOK, Settles, monitorVars
<1>2. \A q \in Goroutines : event[q] # NoEvent /\ q # p => Notice(event[q]) # Notice(event[p])
  <2>1. \A q \in Goroutines : event[q] # NoEvent /\ q # p =>
            event[q].notificationID # event[p].notificationID
    BY <1>1 DEF HeldInv, Held
  <2>2. \A q \in Goroutines : Notice(event[q]).id = event[q].notificationID
    BY DEF Notice
  <2> QED BY <2>1, <2>2
<1>3. Pending' = Pending \ {Notice(event[p])} /\ Notice(event[p]) \in Pending
  <2>1. /\ \A q \in Goroutines : q # p => event'[q] = event[q]
        /\ event'[p] = NoEvent
    BY <1>1
  <2>2. Notice(event[p]) \in Pending
    BY <1>1 DEF Pending
  <2>3. \A n : n \in Pending' <=> n \in Pending /\ n # Notice(event[p])
    <3>1. \A n : n \in Pending' <=>
              \E q \in Goroutines : event[q] # NoEvent /\ q # p /\ n = Notice(event[q])
      BY <2>1 DEF Pending, Notice
    <3>2. \A n : n \in Pending <=>
              \E q \in Goroutines : event[q] # NoEvent /\ n = Notice(event[q])
      BY DEF Pending
    <3> QED BY <1>2, <3>1, <3>2
  <2> QED BY <2>2, <2>3
<1>4. Queued' \in {Queued, Append(Queued, Notice(event[p]))}
  <2>1. CASE queue' = queue
    BY <2>1 DEF Queued
  <2>2. CASE queue' = Append(queue, event[p])
    <3>1. Queued' = [i \in DOMAIN Append(queue, event[p]) |-> Notice(Append(queue, event[p])[i])]
      BY <2>2 DEF Queued, Notice
    <3> QED BY <1>1, <3>1, QueuedAppend DEF Queued
  <2> QED BY <1>1, <2>1, <2>2
<1>5. Raised' = Raised /\ Open' = Open
  BY <1>1 DEF Raised, Open, Notice
<1> QED BY <1>1, <1>3, <1>4, <1>5 DEF UserView!Settle, Pending, Queued, Raised, Open

LEMMA AlarmKeeps ==
    Keeps => [UserView!AlarmNext]_UserView!alarmVars
<1> SUFFICES ASSUME Keeps PROVE [UserView!AlarmNext]_UserView!alarmVars
  OBVIOUS
<1>1. Raised' = Raised /\ Pending' = Pending /\ Queued' = Queued
  BY DEF Keeps, Raised, Pending, Queued, Notice
<1>2. Open' = Open
  BY DEF Keeps, Open
<1>3. CASE UNCHANGED phase
  BY <1>1, <1>2, <1>3 DEF UserView!alarmVars, Raised, Pending, Queued, Open
<1>4. CASE phase # "alerting" /\ phase' = "awaiting"
  BY <1>1, <1>2, <1>4 DEF UserView!AlarmNext, UserView!CheckIn, Raised, Pending, Queued, Open
<1>5. CASE phase = "awaiting" /\ phase' = "overdue"
  BY <1>1, <1>2, <1>5
     DEF UserView!AlarmNext, UserView!BecomeOverdue, Raised, Pending, Queued, Open
<1> QED BY <1>3, <1>4, <1>5 DEF Keeps

\* Every behaviour of the program, projected to phase, open incident and
\* notices, is a behaviour of the alarm: one notice per alert and per
\* resolution, with fresh identities, each settled once
\* (scheduler.go:99-102, 124-127, 152-199).
THEOREM SchedulerImplementsAlarm == SchedulerSpec => ImplementsAlarm
<1>1. SchedulerInit => UserView!AlarmInit
  <2> SUFFICES ASSUME SchedulerInit PROVE UserView!AlarmInit
    OBVIOUS
  <2>1. /\ phase = "scheduled" /\ incidentID = NoID /\ emitted = <<>> /\ queue = <<>>
        /\ \A p \in Goroutines : event[p] = NoEvent
    BY DEF SchedulerInit, MonitorInit
  <2>2. Open = {} /\ Raised = {} /\ Pending = {}
    BY <2>1 DEF Open, Raised, Pending
  <2>3. Queued = <<>>
    BY <2>1 DEF Queued
  <2> QED BY <2>1, <2>2, <2>3 DEF UserView!AlarmInit, Open, Raised, Pending, Queued
<1>2. NotificationInv /\ NotificationInv' /\ [SchedulerNext]_vars
          => [UserView!AlarmNext]_UserView!alarmVars
  <2> SUFFICES ASSUME NotificationInv, NotificationInv', [SchedulerNext]_vars
               PROVE  [UserView!AlarmNext]_UserView!alarmVars
    OBVIOUS
  <2>1. /\ SchedulerInv /\ StartInv /\ HeldInv
        /\ MonitorInv /\ SchedulerTypeOK /\ MonitorInv'
    BY DEF NotificationInv, SchedulerInv
  <2>2. ASSUME NEW p \in Goroutines, NEW e \in Event, Emits(p, e), RaisedBy(p, e)
        PROVE  UserView!AlarmNext
    BY <2>1, <2>2, AlarmRaises DEF UserView!AlarmNext
  <2>3. ASSUME NEW p \in Goroutines, NEW r \in Results, Settles(p, r)
        PROVE  UserView!AlarmNext
    BY <2>1, <2>3, AlarmSettles DEF UserView!AlarmNext
  <2> QED BY <2>1, <2>2, <2>3, StepKinds, AlarmKeeps
<1> QED BY <1>1, <1>2, NotificationInvariant, PTL
        DEF SchedulerSpec, ImplementsAlarm, UserView!AlarmSpec

=============================================================================
