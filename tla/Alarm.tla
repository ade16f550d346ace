------------------------------- MODULE Alarm -------------------------------
(***************************************************************************)
(* What those who read the notification queue may rely on, with no clock,  *)
(* no goroutines and no gauges.  Each alerting episode raises one notice,  *)
(* and its end one more that names the same incident.  A notice waits      *)
(* until it is settled, once: queued or dropped.  Notices are settled in   *)
(* any order, so the queue may tell of a resolution before its alert.      *)
(***************************************************************************)
EXTENDS Sequences

VARIABLES
    phase,      \* lifecycle phase
    open,       \* the incident of the alert not yet resolved, if any
    raised,     \* every notice ever raised
    pending,    \* the notices raised and not yet settled
    queue       \* the notices queued, in order

alarmVars == <<phase, open, raised, pending, queue>>

AlarmInit ==
    /\ phase = "scheduled"
    /\ open = {}
    /\ raised = {}
    /\ pending = {}
    /\ queue = <<>>

\* The new notice of a step that raises one.
Raises(status, incidents) ==
    /\ \E n \in raised' :
           /\ n.status = status
           /\ n.incident \in incidents
           /\ \A m \in raised : m.id # n.id
           /\ raised' = raised \cup {n}
           /\ pending' = pending \cup {n}
    /\ UNCHANGED queue

CheckIn ==
    /\ phase # "alerting"
    /\ phase' = "awaiting"
    /\ UNCHANGED <<open, raised, pending, queue>>

BecomeOverdue ==
    /\ phase = "awaiting"
    /\ phase' = "overdue"
    /\ UNCHANGED <<open, raised, pending, queue>>

\* An alert opens an incident that no notice has named before.
Alert ==
    /\ phase \in {"awaiting", "overdue"}
    /\ phase' = "alerting"
    /\ \E n \in raised' : open' = {n.incident}
    /\ \A m \in raised : m.incident \notin open'
    /\ Raises("alerting", open')

\* A check-in during an alerting episode names the incident it resolves.
Resolve ==
    /\ phase = "alerting"
    /\ phase' = "awaiting"
    /\ open' = {}
    /\ Raises("resolved", open)

Settle ==
    /\ \E n \in pending :
           /\ pending' = pending \ {n}
           /\ queue' \in {queue, Append(queue, n)}
    /\ UNCHANGED <<phase, open, raised>>

AlarmNext == CheckIn \/ BecomeOverdue \/ Alert \/ Resolve \/ Settle

AlarmSpec == AlarmInit /\ [][AlarmNext]_alarmVars

=============================================================================
