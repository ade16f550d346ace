------------------------------ MODULE Monitor ------------------------------
(***************************************************************************)
(* The check-in monitor of internal/monitor/monitor.go: two deadlines, a   *)
(* lifecycle phase and the identities of the current incident.  Every      *)
(* exported method holds m.mu from its first statement to its return, so   *)
(* each is one atomic action here.                                         *)
(*                                                                         *)
(* Time is a count of ticks; NoTime is Go's zero time.Time.  An identity   *)
(* is the position of the call of the ID generator that returned it.       *)
(***************************************************************************)
EXTENDS Naturals, Sequences

CONSTANTS
    ExpectedEvery,   \* m.expectedEvery, in ticks
    AlertingDelay,   \* m.alertingDelay, in ticks
    MaxTime,         \* bound: the last tick of the clock
    MaxIDs           \* bound: no check-in of MonitorNext once this many IDs are issued

\* config validation requires a positive interval; the monitor's own tests
\* also use a zero alerting delay.
ASSUME DurationsAssumption ==
    /\ ExpectedEvery \in Nat \ {0}
    /\ AlertingDelay \in Nat

ASSUME MonitorBoundsAssumption == MaxTime \in Nat /\ MaxIDs \in Nat

VARIABLES
    phase,                    \* m.phase
    lastCheckIn,              \* m.lastCheckIn
    overdueSince,             \* m.overdueSince
    incidentID,               \* m.incidentID
    alertingNotificationID,   \* m.alertingNotificationID
    issued,                   \* identities the generator has returned so far
    emitted                   \* history: the events returned to callers, in lock order

monitorVars == <<phase, lastCheckIn, overdueSince, incidentID,
                 alertingNotificationID, issued, emitted>>

NoTime == 0
NoID == 0
Times == 1..MaxTime
Phases == {"scheduled", "awaiting", "overdue", "alerting"}

Event == [status : {"alerting", "resolved"}, incidentID : Nat, notificationID : Nat,
          lastCheckIn : Nat, expectedBy : Nat, overdueSince : Nat, alertingAt : Nat,
          now : Nat]

MonitorInit ==
    /\ phase = "scheduled"
    /\ lastCheckIn = NoTime
    /\ overdueSince = NoTime
    /\ incidentID = NoID
    /\ alertingNotificationID = NoID
    /\ issued = 0
    /\ emitted = <<>>

-----------------------------------------------------------------------------
(* The schedule, and what callers can read of the monitor.                 *)

ExpectedBy == lastCheckIn + ExpectedEvery

AlertingAt == ExpectedBy + AlertingDelay

Inactive == phase = "scheduled" \/ lastCheckIn = NoTime

Snapshot ==
    IF Inactive
    THEN [phase |-> "scheduled", lastCheckIn |-> NoTime, expectedBy |-> NoTime,
          overdueSince |-> NoTime, alertingAt |-> NoTime]
    ELSE [phase |-> phase, lastCheckIn |-> lastCheckIn, expectedBy |-> ExpectedBy,
          overdueSince |-> overdueSince, alertingAt |-> AlertingAt]

NextDeadline ==
    CASE ~Inactive /\ phase = "awaiting" -> [at |-> ExpectedBy, active |-> TRUE]
      [] ~Inactive /\ phase = "overdue"  -> [at |-> AlertingAt, active |-> TRUE]
      [] OTHER                           -> [at |-> NoTime, active |-> FALSE]

-----------------------------------------------------------------------------
(* Identities and events.                                                  *)

\* MUTANT: a fresh identity is not counted as issued
EnsureWithoutIssuing(id, count) ==
    IF id = NoID
    THEN [id |-> count + 1, issued |-> count]
    ELSE [id |-> id, issued |-> count]

\* The identity kept in id, or a fresh one, and how many are then issued.
Ensure(id, count) ==
    IF id = NoID
    THEN [id |-> count + 1, issued |-> count + 1]
    ELSE [id |-> id, issued |-> count]

EventAt(status, incident, message, since, now) ==
    [status |-> status, incidentID |-> incident, notificationID |-> message,
     lastCheckIn |-> lastCheckIn, expectedBy |-> ExpectedBy, overdueSince |-> since,
     alertingAt |-> AlertingAt, now |-> now]

\* The alerting event; both of its identities stay with the monitor.
EmitAlerting(now, since) ==
    LET incident == Ensure(incidentID, issued)
        message  == Ensure(alertingNotificationID, incident.issued)
    IN  /\ emitted' = Append(emitted, EventAt("alerting", incident.id, message.id, since, now))
        /\ incidentID' = incident.id
        /\ alertingNotificationID' = message.id
        /\ issued' = message.issued

\* MUTANT: the event is built after the reset of the incident
EmitResolvedAfterReset(at) ==
    LET incident == Ensure(NoID, issued)
        message  == Ensure(NoID, incident.issued)
    IN  /\ emitted' = Append(emitted, EventAt("resolved", incident.id, message.id,
                                              NoTime, at))
        /\ issued' = message.issued

\* The resolved event: the incident's identity, a message identity of its
\* own, and the schedule as it was before the check-in that resolves it.
EmitResolved(at) ==
    LET incident == Ensure(incidentID, issued)
        message  == Ensure(NoID, incident.issued)
    IN  /\ emitted' = Append(emitted, EventAt("resolved", incident.id, message.id,
                                              overdueSince, at))
        /\ issued' = message.issued

\* MUTANT: the identities outlive their episode
ResetIncidentForgotten == UNCHANGED <<incidentID, alertingNotificationID>>

ResetIncident ==
    /\ incidentID' = NoID
    /\ alertingNotificationID' = NoID

-----------------------------------------------------------------------------
(* RecordCheckIn: any phase goes back to awaiting; a check-in that ends an *)
(* alerting episode also returns a resolved event.                         *)

RecordCheckIn(at) ==
    /\ \/ phase = "alerting" /\ EmitResolved(at)
       \/ phase # "alerting" /\ UNCHANGED <<emitted, issued>>
    /\ lastCheckIn' = at
    /\ overdueSince' = NoTime
    /\ ResetIncident
    /\ phase' = "awaiting"

-----------------------------------------------------------------------------
(* Check: each early return or phase change of advance is an action.       *)

CheckNothingDue(now) ==
    /\ \/ Inactive
       \/ phase = "awaiting" /\ now < ExpectedBy
       \/ phase = "overdue" /\ now < AlertingAt
       \/ phase = "alerting"
    /\ UNCHANGED monitorVars

CheckEntersOverdue(now) ==
    /\ ~Inactive
    /\ phase = "awaiting"
    /\ now >= ExpectedBy
    /\ now < AlertingAt
    /\ phase' = "overdue"
    /\ overdueSince' = ExpectedBy
    /\ UNCHANGED <<lastCheckIn, incidentID, alertingNotificationID, issued, emitted>>

\* MUTANT: the alerting delay is not awaited
CheckAwaitingEntersAlertingEarly(now) ==
    /\ ~Inactive
    /\ phase = "awaiting"
    /\ now >= ExpectedBy
    /\ phase' = "alerting"
    /\ overdueSince' = ExpectedBy
    /\ EmitAlerting(now, ExpectedBy)
    /\ UNCHANGED lastCheckIn

\* Both deadlines elapsed since the last look: overdue and alerting in one call.
CheckAwaitingEntersAlerting(now) ==
    /\ ~Inactive
    /\ phase = "awaiting"
    /\ now >= ExpectedBy
    /\ now >= AlertingAt
    /\ phase' = "alerting"
    /\ overdueSince' = ExpectedBy
    /\ EmitAlerting(now, ExpectedBy)
    /\ UNCHANGED lastCheckIn

\* MUTANT: an alerting monitor alerts on every check
CheckAlertsAgain(now) ==
    /\ ~Inactive
    /\ phase \in {"overdue", "alerting"}
    /\ now >= AlertingAt
    /\ phase' = "alerting"
    /\ EmitAlerting(now, overdueSince)
    /\ UNCHANGED <<lastCheckIn, overdueSince>>

CheckOverdueEntersAlerting(now) ==
    /\ ~Inactive
    /\ phase = "overdue"
    /\ now >= AlertingAt
    /\ phase' = "alerting"
    /\ EmitAlerting(now, overdueSince)
    /\ UNCHANGED <<lastCheckIn, overdueSince>>

Check(now) ==
    \/ CheckNothingDue(now)
    \/ CheckEntersOverdue(now)
    \/ CheckAwaitingEntersAlerting(now)
    \/ CheckOverdueEntersAlerting(now)

-----------------------------------------------------------------------------
(* A monitor on its own: any caller, any time.  Callers' times need not    *)
(* grow, because a handler reads the clock before it gets the lock.        *)

MonitorNext ==
    \/ \E at \in Times : issued < MaxIDs /\ RecordCheckIn(at)
    \/ \E now \in Times : Check(now)

MonitorSpec == MonitorInit /\ [][MonitorNext]_monitorVars

-----------------------------------------------------------------------------
(* Properties.                                                             *)

\* Every variable keeps its type, and the identities the monitor holds are ones
\* its generator has issued.
MonitorTypeOK ==
    /\ phase \in Phases
    /\ lastCheckIn \in Nat
    /\ overdueSince \in Nat
    /\ issued \in Nat
    /\ incidentID \in 0..issued
    /\ alertingNotificationID \in 0..issued
    /\ emitted \in Seq(Event)

\* The fields in which a resolved event must repeat the alert it closes.
SameEpisode(e, f) ==
    /\ e.incidentID = f.incidentID
    /\ e.lastCheckIn = f.lastCheckIn
    /\ e.expectedBy = f.expectedBy
    /\ e.overdueSince = f.overdueSince
    /\ e.alertingAt = f.alertingAt

\* Alerting and resolved events alternate, starting with an alert; a resolved
\* event repeats the incident and the schedule of the alert before it although
\* RecordCheckIn overwrites all of them; an unanswered alert is the last event
\* exactly while the phase is alerting (monitor.go:127-151, 232-271).
EpisodesPaired ==
    /\ \A i \in DOMAIN emitted :
           emitted[i].status = IF i % 2 = 1 THEN "alerting" ELSE "resolved"
    /\ \A i \in DOMAIN emitted :
           i % 2 = 0 => SameEpisode(emitted[i - 1], emitted[i])
    /\ phase = "alerting" <=> Len(emitted) % 2 = 1

\* A notification identity is never reused, and an incident identity never
\* crosses from one episode to another, however many episodes follow one
\* another (monitor.go:15-17, 274-307): receivers deduplicate on these.
FreshIDs ==
    \A i, j \in DOMAIN emitted :
        /\ emitted[i].notificationID # emitted[j].incidentID
        /\ i # j => emitted[i].notificationID # emitted[j].notificationID
        /\ emitted[i].incidentID = emitted[j].incidentID
               => (i + 1) \div 2 = (j + 1) \div 2

\* An alert is raised only once both deadlines of the check-in it names have
\* elapsed, with every time it reports derived from that check-in, also when
\* overdue and alerting are entered by one late call (monitor.go:183-207).
AlertJustified ==
    \A i \in DOMAIN emitted :
        LET e == emitted[i]
        IN  /\ e.lastCheckIn # NoTime
            /\ e.expectedBy = e.lastCheckIn + ExpectedEvery
            /\ e.overdueSince = e.expectedBy
            /\ e.alertingAt = e.expectedBy + AlertingDelay
            /\ e.status = "alerting" => e.now >= e.alertingAt

\* The monitor does what the abstract lifecycle promises; its notices are the
\* statuses of the events returned to callers.
Abstract == INSTANCE Lifecycle WITH
    phase <- phase,
    notices <- [i \in DOMAIN emitted |-> emitted[i].status]

ImplementsLifecycle == Abstract!LifecycleSpec

=============================================================================
