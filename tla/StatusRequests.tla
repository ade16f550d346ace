--------------------------- MODULE StatusRequests ---------------------------
(***************************************************************************)
(* GET /status of internal/handler beside the running program.  A request  *)
(* reads the clock first and the monitor's snapshot later, so the two may  *)
(* disagree: the phase it reports can be newer than the time it counts     *)
(* elapsed times from.  Requests only read, so one reader that serves one  *)
(* request after the other stands for any number of them.                  *)
(*                                                                         *)
(* An optional JSON field is a set with at most one value: empty when the  *)
(* field is omitted.                                                       *)
(***************************************************************************)
EXTENDS Scheduler

VARIABLES
    readerAt,     \* "idle", or "snapshot" between the clock and the snapshot
    readerNow,    \* the request's now
    response      \* the last response, NoResponse before the next one

statusVars == <<readerAt, readerNow, response>>

NoResponse == [kind |-> "none"]

Field(given, value) == IF given THEN {value} ELSE {}

PtrIfNonZero(t) == Field(t # NoTime, t)

\* The fields that both forms of the response have.
CompactResponse(s) ==
    [kind         |-> "compact",
     phase        |-> s.phase,
     lastCheckIn  |-> PtrIfNonZero(s.lastCheckIn),
     expectedBy   |-> PtrIfNonZero(s.expectedBy),
     overdueSince |-> PtrIfNonZero(s.overdueSince),
     alertingAt   |-> PtrIfNonZero(s.alertingAt)]

\* MUTANT: elapsed times are not guarded against an older now
DetailsUnguarded(s, now) ==
    [kind          |-> "details",
     phase         |-> s.phase,
     lastCheckIn   |-> PtrIfNonZero(s.lastCheckIn),
     expectedBy    |-> PtrIfNonZero(s.expectedBy),
     overdueSince  |-> PtrIfNonZero(s.overdueSince),
     alertingAt    |-> PtrIfNonZero(s.alertingAt),
     expectedEvery |-> {},
     alertingDelay |-> Field(s.expectedBy # NoTime, s.alertingAt - s.expectedBy),
     alertingAfter |-> {},
     overdueFor    |-> Field(s.overdueSince # NoTime, now - s.overdueSince),
     alertingFor   |-> Field(s.alertingAt # NoTime, now - s.alertingAt)]

\* Differences of the snapshot's times, and the time elapsed up to now.
DetailsResponse(s, now) ==
    [kind          |-> "details",
     phase         |-> s.phase,
     lastCheckIn   |-> PtrIfNonZero(s.lastCheckIn),
     expectedBy    |-> PtrIfNonZero(s.expectedBy),
     overdueSince  |-> PtrIfNonZero(s.overdueSince),
     alertingAt    |-> PtrIfNonZero(s.alertingAt),
     expectedEvery |-> Field(s.lastCheckIn # NoTime /\ s.expectedBy # NoTime,
                             s.expectedBy - s.lastCheckIn),
     alertingDelay |-> Field(s.expectedBy # NoTime /\ s.alertingAt # NoTime,
                             s.alertingAt - s.expectedBy),
     alertingAfter |-> Field(s.lastCheckIn # NoTime /\ s.alertingAt # NoTime,
                             s.alertingAt - s.lastCheckIn),
     overdueFor    |-> Field(s.overdueSince # NoTime /\ now >= s.overdueSince,
                             now - s.overdueSince),
     alertingFor   |-> Field(s.alertingAt # NoTime /\ now >= s.alertingAt,
                             now - s.alertingAt)]

StatusInit ==
    /\ SchedulerInit
    /\ readerAt = "idle"
    /\ readerNow = NoTime
    /\ response = NoResponse

\* Authorised; now := nowFn().  The server runs after the scheduler.
StatusArrives ==
    /\ readerAt = "idle"
    /\ ~At(Loop, "start")
    /\ readerAt' = "snapshot"
    /\ readerNow' = clock
    /\ response' = NoResponse
    /\ UNCHANGED vars

\* service.Snapshot() and the response; details are asked for by the request
\* or by --response-details.
StatusAnswers ==
    /\ readerAt = "snapshot"
    /\ response' \in {CompactResponse(Snapshot), DetailsResponse(Snapshot, readerNow)}
    /\ readerAt' = "idle"
    /\ readerNow' = NoTime
    /\ UNCHANGED vars

StatusNext ==
    \/ SchedulerNext /\ UNCHANGED statusVars
    \/ StatusArrives
    \/ StatusAnswers

StatusSpec == StatusInit /\ [][StatusNext]_<<vars, statusVars>>

-----------------------------------------------------------------------------
(* Properties.                                                             *)

\* The elapsed times of a detailed response are never negative, never ahead of
\* the clock and consistent with each other and with the reported delay, even
\* when the monitor has moved on between the clock and the snapshot
\* (status.go:16-21, response.go:144-155).
ElapsedTimesAgree ==
    response.kind = "details" =>
        /\ \A o \in response.overdueFor, s \in response.overdueSince :
               o >= 0 /\ s + o <= clock
        /\ \A a \in response.alertingFor :
               /\ a >= 0
               /\ \A o \in response.overdueFor, d \in response.alertingDelay : o = a + d
               /\ response.phase \in {"overdue", "alerting"} => response.overdueFor # {}

\* docs/api.md:165: when the monitor is overdue or alerting, the detailed
\* status includes the elapsed fields.
ElapsedTimesIncluded ==
    response.kind = "details" /\ response.phase \in {"overdue", "alerting"} =>
        response.overdueFor # {}

=============================================================================
