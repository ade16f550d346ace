---------------------------- MODULE StatusProofs ----------------------------
(***************************************************************************)
(* Proofs about status requests beside the running program, for every      *)
(* instance of it.                                                         *)
(***************************************************************************)
EXTENDS StatusRequests, SchedulerProofs

\* A request's now is a reading of the clock, and a response agrees with the
\* clock as it has moved since.
ResponseTypes ==
    response.kind = "details" =>
        response.overdueFor \subseteq Nat /\ response.overdueSince \subseteq Nat

ReaderInv ==
    /\ readerNow \in Nat
    /\ readerNow <= clock
    /\ ElapsedTimesAgree
    /\ ResponseTypes

StatusInv == SchedulerInv /\ ReaderInv

\* What the monitor's invariant says of a snapshot.
LEMMA SnapshotFacts ==
    ASSUME MonitorInv
    PROVE  /\ Snapshot \in SnapshotRecord
           /\ Snapshot.overdueSince # NoTime => Snapshot.overdueSince = Snapshot.expectedBy
           /\ Snapshot.expectedBy # NoTime =>
                  Snapshot.alertingAt = Snapshot.expectedBy + AlertingDelay
           /\ Snapshot.phase \in {"overdue", "alerting"} =>
                  /\ Snapshot.overdueSince # NoTime
                  /\ Snapshot.expectedBy # NoTime
<1>1. MonitorTypeOK /\ PhaseInv
  BY DEF MonitorInv
<1>2. ExpectedBy \in Nat \ {0} /\ AlertingAt = ExpectedBy + AlertingDelay
  BY <1>1, DurationsAssumption DEF MonitorTypeOK, ExpectedBy, AlertingAt
<1>3. Snapshot \in SnapshotRecord
  BY <1>1, SnapshotType
<1>4. CASE Inactive
  BY <1>3, <1>4 DEF Snapshot, NoTime
<1>5. CASE ~Inactive
  <2>1. phase \in Phases /\ phase # "scheduled"
    BY <1>1, <1>5 DEF MonitorTypeOK, Inactive
  <2>2. overdueSince \in {NoTime, ExpectedBy}
    BY <1>1, <2>1 DEF PhaseInv, Phases
  <2>3. phase \in {"overdue", "alerting"} => overdueSince = ExpectedBy
    BY <1>1 DEF PhaseInv
  <2>4. /\ Snapshot.phase = phase
        /\ Snapshot.expectedBy = ExpectedBy
        /\ Snapshot.overdueSince = overdueSince
        /\ Snapshot.alertingAt = AlertingAt
    BY <1>5 DEF Snapshot
  <2> QED BY <1>2, <1>3, <2>2, <2>3, <2>4 DEF NoTime
<1> QED BY <1>4, <1>5

\* Whatever now a request has read, its detailed response is consistent.
LEMMA DetailsAgree ==
    ASSUME MonitorInv, NEW now \in Nat, clock \in Nat, now <= clock,
           response' = DetailsResponse(Snapshot, now), clock' = clock
    PROVE  ElapsedTimesAgree'
<1> DEFINE s == Snapshot
<1>1. /\ s.overdueSince \in Nat /\ s.expectedBy \in Nat /\ s.alertingAt \in Nat
      /\ s.overdueSince # NoTime => s.overdueSince = s.expectedBy
      /\ s.expectedBy # NoTime => s.alertingAt = s.expectedBy + AlertingDelay
      /\ s.phase \in {"overdue", "alerting"} =>
             s.overdueSince # NoTime /\ s.expectedBy # NoTime
  BY SnapshotFacts DEF SnapshotRecord
<1>2. /\ response'.phase = s.phase
      /\ response'.overdueSince = Field(s.overdueSince # NoTime, s.overdueSince)
      /\ response'.alertingDelay = Field(s.expectedBy # NoTime /\ s.alertingAt # NoTime,
                                         s.alertingAt - s.expectedBy)
      /\ response'.overdueFor = Field(s.overdueSince # NoTime /\ now >= s.overdueSince,
                                      now - s.overdueSince)
      /\ response'.alertingFor = Field(s.alertingAt # NoTime /\ now >= s.alertingAt,
                                       now - s.alertingAt)
  BY DEF DetailsResponse, PtrIfNonZero
<1> HIDE DEF s
<1>3. AlertingDelay \in Nat
  BY DurationsAssumption
<1>4. \A o \in response'.overdueFor, t \in response'.overdueSince : o >= 0 /\ t + o <= clock
  BY <1>1, <1>2 DEF Field
<1>5. ASSUME NEW a \in response'.alertingFor
      PROVE  /\ a >= 0
             /\ \A o \in response'.overdueFor, d \in response'.alertingDelay : o = a + d
             /\ response'.phase \in {"overdue", "alerting"} => response'.overdueFor # {}
  <2>1. a = now - s.alertingAt /\ now >= s.alertingAt
    BY <1>2, <1>5 DEF Field
  <2>2. a >= 0
    BY <1>1, <2>1
  <2>3. ASSUME NEW o \in response'.overdueFor, NEW d \in response'.alertingDelay
        PROVE  o = a + d
    BY <1>1, <1>2, <1>3, <2>1, <2>3 DEF Field
  <2>4. response'.phase \in {"overdue", "alerting"} => response'.overdueFor # {}
    BY <1>1, <1>2, <1>3, <2>1 DEF Field
  <2> QED BY <2>2, <2>3, <2>4
<1> QED BY <1>4, <1>5 DEF ElapsedTimesAgree

LEMMA DetailsTypes ==
    ASSUME MonitorInv, NEW now \in Nat, response' = DetailsResponse(Snapshot, now)
    PROVE  ResponseTypes'
<1>1. Snapshot.overdueSince \in Nat
  BY SnapshotFacts DEF SnapshotRecord
<1> QED BY <1>1 DEF ResponseTypes, DetailsResponse, PtrIfNonZero, Field

\* Without a detailed response there is nothing to show.
LEMMA NoDetails ==
    ASSUME response'.kind # "details" PROVE ElapsedTimesAgree'
BY DEF ElapsedTimesAgree

\* Time only moves forward, so a response that was given stays consistent.
LEMMA ReaderStutter ==
    ASSUME StatusInv, UNCHANGED statusVars, clock' \in {clock, clock + 1}
    PROVE  ReaderInv'
<1>1. clock \in Nat /\ readerNow \in Nat /\ readerNow <= clock
  BY DEF StatusInv, SchedulerInv, SchedulerTypeOK, ReaderInv
<1>2. readerNow' \in Nat /\ readerNow' <= clock'
  BY <1>1 DEF statusVars
<1>3. ElapsedTimesAgree'
  <2>1. response' = response
    BY DEF statusVars
  <2>2. ElapsedTimesAgree /\ ResponseTypes
    BY DEF StatusInv, ReaderInv
  <2>3. \A n \in Nat : n <= clock => n <= clock'
    BY <1>1
  <2>4. ASSUME response.kind = "details",
               NEW o \in response.overdueFor, NEW t \in response.overdueSince
        PROVE  o >= 0 /\ t + o <= clock'
    <3>1. o \in Nat /\ t \in Nat /\ t + o <= clock
      BY <2>2, <2>4 DEF ElapsedTimesAgree, ResponseTypes
    <3> QED BY <2>3, <3>1
  <2> QED BY <2>1, <2>2, <2>4 DEF ElapsedTimesAgree
<1>4. ResponseTypes'
  BY DEF statusVars, StatusInv, ReaderInv, ResponseTypes
<1> QED BY <1>2, <1>3, <1>4 DEF ReaderInv

LEMMA StatusInvInit == StatusInit => StatusInv
<1> SUFFICES ASSUME StatusInit PROVE StatusInv
  OBVIOUS
<1>1. SchedulerInv
  BY SchedulerInvInit DEF StatusInit
<1>2. ReaderInv
  BY DEF StatusInit, SchedulerInit, ReaderInv, ElapsedTimesAgree, ResponseTypes,
     NoResponse, NoTime
<1> QED BY <1>1, <1>2 DEF StatusInv

LEMMA StatusInvStep ==
    StatusInv /\ [StatusNext]_<<vars, statusVars>> => StatusInv'
<1> SUFFICES ASSUME StatusInv, [StatusNext]_<<vars, statusVars>> PROVE StatusInv'
  OBVIOUS
<1>1. [SchedulerNext]_vars
  BY DEF StatusNext, StatusArrives, StatusAnswers
<1>2. SchedulerInv'
  BY <1>1, SchedulerInvStep DEF StatusInv
<1> SUFFICES ReaderInv'
  BY <1>2 DEF StatusInv
<1>3. MonitorInv /\ clock \in Nat /\ clock' \in {clock, clock + 1}
  BY <1>1, ClockStep DEF StatusInv, SchedulerInv, SchedulerTypeOK
<1>4. CASE UNCHANGED statusVars
  BY <1>3, <1>4, ReaderStutter
<1>5. CASE StatusArrives
  <2>1. readerNow' = clock /\ clock' = clock /\ response'.kind # "details"
    BY <1>5 DEF StatusArrives, NoResponse, vars
  <2> QED BY <1>3, <2>1, NoDetails DEF ReaderInv, ResponseTypes
<1>6. CASE StatusAnswers
  <2>1. /\ readerNow' = NoTime /\ clock' = clock
        /\ response' \in {CompactResponse(Snapshot), DetailsResponse(Snapshot, readerNow)}
    BY <1>6 DEF StatusAnswers, vars
  <2>2. readerNow \in Nat /\ readerNow <= clock
    BY DEF StatusInv, ReaderInv
  <2>3. CASE response' = CompactResponse(Snapshot)
    <3>1. response'.kind # "details"
      BY <2>3 DEF CompactResponse
    <3> QED BY <1>3, <2>1, <3>1, NoDetails DEF ReaderInv, ResponseTypes, NoTime
  <2>4. CASE response' = DetailsResponse(Snapshot, readerNow)
    <3>1. ElapsedTimesAgree'
      BY <1>3, <2>1, <2>2, <2>4, DetailsAgree
    <3>2. ResponseTypes'
      BY <1>3, <2>2, <2>4, DetailsTypes
    <3> QED BY <1>3, <2>1, <3>1, <3>2 DEF ReaderInv, NoTime
  <2> QED BY <2>1, <2>3, <2>4
<1> QED BY <1>4, <1>5, <1>6 DEF StatusNext

\* The invariant of the program and its reader.
THEOREM StatusInvariant == StatusSpec => []StatusInv
<1> QED BY StatusInvInit, StatusInvStep, PTL DEF StatusSpec

\* However far the monitor moves between a request's reading of the clock and
\* its snapshot, the elapsed times it reports are not negative, not ahead of
\* the clock and consistent with one another (status.go:16-21,
\* response.go:144-155).
THEOREM ReportedTimesAgree == StatusSpec => []ElapsedTimesAgree
<1>1. StatusInv => ElapsedTimesAgree
  BY DEF StatusInv, ReaderInv
<1> QED BY <1>1, StatusInvariant, PTL

\* Requests that read the monitor beside the writers do not keep the gauges from
\* agreeing with it while the loop sleeps (status.go:16-21, metrics.go:122-127).
THEOREM GaugesAgreeBesideReaders == StatusSpec => []GaugesConverge
<1>1. StatusInv => GaugesConverge
  BY DEF StatusInv, SchedulerInv, GaugeInv, GaugesConverge, At
<1> QED BY <1>1, StatusInvariant, PTL

=============================================================================
