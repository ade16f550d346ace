----------------------------- MODULE Lifecycle -----------------------------
(***************************************************************************)
(* What a check-in monitor promises, with no clock, no identities and no   *)
(* event payload: a phase, and the notices it has raised.  An alerting     *)
(* episode raises exactly one "alerting" notice, its end raises exactly    *)
(* one "resolved" notice, and only a check-in ends it.                     *)
(***************************************************************************)
EXTENDS Sequences

VARIABLES
    phase,      \* lifecycle phase
    notices     \* "alerting" and "resolved" notices, in the order raised

lifecycleVars == <<phase, notices>>

Phases == {"scheduled", "awaiting", "overdue", "alerting"}

LifecycleInit ==
    /\ phase = "scheduled"
    /\ notices = <<>>

\* A check-in outside an alerting episode restarts the countdown silently.
CheckIn ==
    /\ phase # "alerting"
    /\ phase' = "awaiting"
    /\ UNCHANGED notices

\* A check-in during an alerting episode ends it and says so.
Resolve ==
    /\ phase = "alerting"
    /\ phase' = "awaiting"
    /\ notices' = Append(notices, "resolved")

BecomeOverdue ==
    /\ phase = "awaiting"
    /\ phase' = "overdue"
    /\ UNCHANGED notices

\* A late look at the clock may find both deadlines elapsed at once.
Alert ==
    /\ phase \in {"awaiting", "overdue"}
    /\ phase' = "alerting"
    /\ notices' = Append(notices, "alerting")

LifecycleNext == CheckIn \/ Resolve \/ BecomeOverdue \/ Alert

LifecycleSpec == LifecycleInit /\ [][LifecycleNext]_lifecycleVars

=============================================================================
