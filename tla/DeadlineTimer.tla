--------------------------- MODULE DeadlineTimer ---------------------------
(***************************************************************************)
(* The resettable one-shot timer of internal/deadline/timer.go.  A timer   *)
(* is a value: "nil" (no time.Timer allocated), "armed" for fireAt, or     *)
(* "spent" once its single value has been received.  Since Go 1.23 neither *)
(* Stop nor Reset leaves a stale value behind in the channel, so the       *)
(* channel has no state of its own.                                        *)
(***************************************************************************)
EXTENDS Naturals

Timer == [state : {"nil", "armed", "spent"}, fireAt : Nat]

NilTimer == [state |-> "nil", fireAt |-> 0]

Stop(t) == NilTimer

\* MUTANT: rounds the wait down
ResetAtEarly(deadline, now) ==
    [state |-> "armed", fireAt |-> IF deadline <= now THEN now ELSE deadline - 1]

\* Reset(time.Until(deadline)): a deadline in the past fires at once.
ResetAt(deadline, now) ==
    [state |-> "armed", fireAt |-> IF deadline <= now THEN now ELSE deadline]

\* MUTANT: an allocated timer is not reset
SyncKeepsTimer(t, next, now) ==
    IF next.active /\ t.state = "nil" THEN ResetAt(next.at, now)
    ELSE IF next.active THEN t ELSE Stop(t)

\* Arm the timer for an active deadline, stop it otherwise.
Sync(t, next, now) == IF next.active THEN ResetAt(next.at, now) ELSE Stop(t)

\* The channel C() of an armed timer delivers from fireAt on; that of a nil
\* timer is nil and never ready.
Ready(t, now) == t.state = "armed" /\ now >= t.fireAt

\* The value was received; the time.Timer stays allocated.
Spend(t) == [t EXCEPT !.state = "spent"]

=============================================================================
