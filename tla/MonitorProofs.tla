--------------------------- MODULE MonitorProofs ---------------------------
(***************************************************************************)
(* Proofs about the monitor for every interval, delay and bound: its       *)
(* types, the pairing, freshness and justification of the events it        *)
(* returns, and that it implements the abstract lifecycle.                 *)
(***************************************************************************)
EXTENDS Monitor, SequenceTheorems, TLAPS

\* The scheduled phase is the one without a check-in, an incident is open
\* exactly while alerting, and overdueSince is the elapsed deadline, if any.
PhaseInv ==
    /\ phase = "scheduled" <=> lastCheckIn = NoTime
    /\ phase = "alerting" <=> incidentID # NoID
    /\ phase = "alerting" <=> alertingNotificationID # NoID
    /\ phase \in {"overdue", "alerting"} => overdueSince = ExpectedBy
    /\ phase \in {"scheduled", "awaiting"} => overdueSince = NoTime

\* While alerting, the last event is the open alert and still describes the
\* monitor: RecordCheckIn can rebuild the episode from the monitor's fields.
OpenAlertInv ==
    phase = "alerting" =>
        /\ Len(emitted) > 0
        /\ emitted[Len(emitted)].incidentID = incidentID
        /\ emitted[Len(emitted)].lastCheckIn = lastCheckIn
        /\ emitted[Len(emitted)].expectedBy = ExpectedBy
        /\ emitted[Len(emitted)].overdueSince = overdueSince
        /\ emitted[Len(emitted)].alertingAt = AlertingAt

\* No event carries an identity the generator has still to issue.
IssuedInv ==
    \A i \in DOMAIN emitted :
        /\ emitted[i].incidentID \in 1..issued
        /\ emitted[i].notificationID \in 1..issued

MonitorInv ==
    /\ MonitorTypeOK
    /\ PhaseInv
    /\ OpenAlertInv
    /\ IssuedInv
    /\ EpisodesPaired
    /\ FreshIDs
    /\ AlertJustified

-----------------------------------------------------------------------------
(* Facts about the operators.                                              *)

\* An ensured identity is the given one or the next to be issued.
LEMMA EnsureFacts ==
    ASSUME NEW id \in Nat, NEW count \in Nat, id <= count
    PROVE  /\ Ensure(id, count).id \in Nat \ {0}
           /\ Ensure(id, count).issued \in Nat
           /\ id # NoID => Ensure(id, count) = [id |-> id, issued |-> count]
           /\ id = NoID => Ensure(id, count) = [id |-> count + 1, issued |-> count + 1]
           /\ Ensure(id, count).id <= Ensure(id, count).issued
           /\ Ensure(id, count).issued >= count
BY DEF Ensure, NoID

LEMMA ScheduleFacts ==
    ASSUME MonitorTypeOK
    PROVE  /\ ExpectedBy \in Nat
           /\ AlertingAt \in Nat
           /\ AlertingAt >= ExpectedBy
           /\ ExpectedBy > lastCheckIn
BY DurationsAssumption DEF MonitorTypeOK, ExpectedBy, AlertingAt

LEMMA EventAtType ==
    ASSUME MonitorTypeOK,
           NEW status \in {"alerting", "resolved"}, NEW incident \in Nat,
           NEW message \in Nat, NEW since \in Nat, NEW now \in Nat
    PROVE  EventAt(status, incident, message, since, now) \in Event
BY ScheduleFacts DEF EventAt, Event, MonitorTypeOK

\* What EmitAlerting appends when no incident is open: two fresh identities.
LEMMA EmitAlertingFacts ==
    ASSUME MonitorTypeOK, incidentID = NoID, alertingNotificationID = NoID,
           NEW now \in Nat, NEW since \in Nat, EmitAlerting(now, since)
    PROVE  /\ emitted' = Append(emitted,
                  EventAt("alerting", issued + 1, issued + 2, since, now))
           /\ incidentID' = issued + 1
           /\ alertingNotificationID' = issued + 2
           /\ issued' = issued + 2
BY DEF MonitorTypeOK, EmitAlerting, Ensure, NoID

\* What EmitResolved appends while an incident is open: its identity and one
\* fresh identity for the message.
LEMMA EmitResolvedFacts ==
    ASSUME MonitorTypeOK, incidentID # NoID, NEW at \in Nat, EmitResolved(at)
    PROVE  /\ emitted' = Append(emitted,
                  EventAt("resolved", incidentID, issued + 1, overdueSince, at))
           /\ issued' = issued + 1
BY DEF MonitorTypeOK, EmitResolved, Ensure, NoID

-----------------------------------------------------------------------------
(* The history after one more event.                                       *)

\* Appending the alert of a new episode keeps the properties of the history.
LEMMA AppendAlert ==
    ASSUME MonitorInv, phase # "alerting",
           NEW e \in Event,
           e.status = "alerting",
           e.incidentID = issued + 1, e.notificationID = issued + 2,
           e.lastCheckIn = lastCheckIn, lastCheckIn # NoTime,
           e.expectedBy = ExpectedBy, e.overdueSince = ExpectedBy,
           e.alertingAt = AlertingAt, e.now >= AlertingAt,
           emitted' = Append(emitted, e), issued' = issued + 2,
           phase' = "alerting"
    PROVE  /\ emitted' \in Seq(Event)
           /\ IssuedInv'
           /\ EpisodesPaired'
           /\ FreshIDs'
           /\ AlertJustified'
<1> DEFINE n == Len(emitted)
<1>1. /\ emitted \in Seq(Event) /\ n \in Nat /\ issued \in Nat
      /\ n % 2 = 0
  <2>1. emitted \in Seq(Event) /\ issued \in Nat
    BY DEF MonitorInv, MonitorTypeOK
  <2>2. n \in Nat
    BY <2>1
  <2>3. n % 2 # 1
    BY DEF MonitorInv, EpisodesPaired
  <2> QED BY <2>1, <2>2, <2>3
<1>2. /\ emitted' \in Seq(Event)
      /\ Len(emitted') = n + 1
      /\ DOMAIN emitted' = 1..(n + 1)
      /\ DOMAIN emitted = 1..n
      /\ emitted'[n + 1] = e
      /\ \A i \in 1..n : emitted'[i] = emitted[i] /\ emitted[i] \in Event
  BY <1>1
<1>3. IssuedInv'
  BY <1>1, <1>2 DEF MonitorInv, IssuedInv
<1>4. EpisodesPaired'
  <2>1. (n + 1) % 2 = 1
    BY <1>1
  <2>2. \A i \in 1..(n + 1) :
            emitted'[i].status = IF i % 2 = 1 THEN "alerting" ELSE "resolved"
    BY <1>1, <1>2, <2>1 DEF MonitorInv, EpisodesPaired
  <2>3. ASSUME NEW i \in 1..(n + 1), i % 2 = 0
        PROVE  SameEpisode(emitted'[i - 1], emitted'[i])
    <3>1. i \in 1..n /\ i - 1 \in 1..n
      BY <1>1, <2>1, <2>3
    <3>2. SameEpisode(emitted[i - 1], emitted[i])
      BY <1>2, <2>3, <3>1 DEF MonitorInv, EpisodesPaired
    <3> QED BY <1>2, <3>1, <3>2
  <2> QED BY <1>2, <2>1, <2>2, <2>3 DEF EpisodesPaired
<1>5. FreshIDs'
  <2> SUFFICES ASSUME NEW i \in 1..(n + 1), NEW j \in 1..(n + 1)
               PROVE  /\ emitted'[i].notificationID # emitted'[j].incidentID
                      /\ i # j => emitted'[i].notificationID # emitted'[j].notificationID
                      /\ emitted'[i].incidentID = emitted'[j].incidentID
                             => (i + 1) \div 2 = (j + 1) \div 2
    BY <1>2 DEF FreshIDs
  <2>1. \A k \in 1..n : /\ emitted[k].incidentID \in 1..issued
                        /\ emitted[k].notificationID \in 1..issued
    BY <1>2 DEF MonitorInv, IssuedInv
  <2>2. CASE i \in 1..n /\ j \in 1..n
    BY <1>2, <2>2 DEF MonitorInv, FreshIDs
  <2>3. CASE i = n + 1 /\ j \in 1..n
    BY <1>1, <1>2, <2>1, <2>3
  <2>4. CASE i \in 1..n /\ j = n + 1
    BY <1>1, <1>2, <2>1, <2>4
  <2>5. CASE i = n + 1 /\ j = n + 1
    BY <1>1, <1>2, <2>5
  <2> QED BY <1>1, <2>2, <2>3, <2>4, <2>5
<1>6. AlertJustified'
  <2>1. /\ e.lastCheckIn # NoTime
        /\ e.expectedBy = e.lastCheckIn + ExpectedEvery
        /\ e.overdueSince = e.expectedBy
        /\ e.alertingAt = e.expectedBy + AlertingDelay
        /\ e.now >= e.alertingAt
    BY DEF ExpectedBy, AlertingAt
  <2> QED BY <1>1, <1>2, <2>1 DEF MonitorInv, AlertJustified
<1> QED BY <1>2, <1>3, <1>4, <1>5, <1>6

\* Appending the resolved event of the open episode keeps them too.
LEMMA AppendResolved ==
    ASSUME MonitorInv, phase = "alerting",
           NEW e \in Event,
           e.status = "resolved",
           e.incidentID = incidentID, e.notificationID = issued + 1,
           e.lastCheckIn = lastCheckIn, e.expectedBy = ExpectedBy,
           e.overdueSince = overdueSince, e.alertingAt = AlertingAt,
           emitted' = Append(emitted, e), issued' = issued + 1,
           phase' = "awaiting"
    PROVE  /\ emitted' \in Seq(Event)
           /\ IssuedInv'
           /\ EpisodesPaired'
           /\ FreshIDs'
           /\ AlertJustified'
<1> DEFINE n == Len(emitted)
<1>1. /\ emitted \in Seq(Event) /\ n \in Nat /\ issued \in Nat
      /\ n % 2 = 1 /\ n > 0
  <2>1. emitted \in Seq(Event) /\ issued \in Nat
    BY DEF MonitorInv, MonitorTypeOK
  <2>2. n % 2 = 1 /\ n > 0
    BY DEF MonitorInv, EpisodesPaired, OpenAlertInv
  <2> QED BY <2>1, <2>2
<1>2. /\ emitted' \in Seq(Event)
      /\ Len(emitted') = n + 1
      /\ DOMAIN emitted' = 1..(n + 1)
      /\ DOMAIN emitted = 1..n
      /\ emitted'[n + 1] = e
      /\ \A i \in 1..n : emitted'[i] = emitted[i] /\ emitted[i] \in Event
  BY <1>1
<1>3. /\ n \in 1..n
      /\ SameEpisode(emitted[n], e)
  BY <1>1 DEF MonitorInv, OpenAlertInv, SameEpisode
<1>4. IssuedInv'
  <2>1. e.incidentID \in 1..issued
    BY <1>2, <1>3 DEF MonitorInv, IssuedInv, SameEpisode
  <2> QED BY <1>1, <1>2, <2>1 DEF MonitorInv, IssuedInv
<1>5. EpisodesPaired'
  <2>1. (n + 1) % 2 = 0
    BY <1>1
  <2>2. \A i \in 1..(n + 1) :
            emitted'[i].status = IF i % 2 = 1 THEN "alerting" ELSE "resolved"
    <3> SUFFICES ASSUME NEW i \in 1..(n + 1)
                 PROVE  emitted'[i].status = IF i % 2 = 1 THEN "alerting" ELSE "resolved"
      OBVIOUS
    <3>1. CASE i = n + 1
      BY <1>2, <2>1, <3>1
    <3>2. CASE i \in 1..n
      BY <1>2, <3>2 DEF MonitorInv, EpisodesPaired
    <3> QED BY <1>1, <3>1, <3>2
  <2>3. ASSUME NEW i \in 1..(n + 1), i % 2 = 0
        PROVE  SameEpisode(emitted'[i - 1], emitted'[i])
    <3>1. CASE i = n + 1
      BY <1>1, <1>2, <1>3, <3>1
    <3>2. CASE i \in 1..n
      <4>1. i - 1 \in 1..n
        BY <1>1, <2>3, <3>2
      <4>2. SameEpisode(emitted[i - 1], emitted[i])
        BY <1>2, <2>3, <3>2 DEF MonitorInv, EpisodesPaired
      <4> QED BY <1>2, <3>2, <4>1, <4>2
    <3>3. i = n + 1 \/ i \in 1..n
      BY <1>1
    <3> QED BY <3>1, <3>2, <3>3
  <2> QED BY <1>2, <2>1, <2>2, <2>3 DEF EpisodesPaired
<1>6. FreshIDs'
  <2> SUFFICES ASSUME NEW i \in 1..(n + 1), NEW j \in 1..(n + 1)
               PROVE  /\ emitted'[i].notificationID # emitted'[j].incidentID
                      /\ i # j => emitted'[i].notificationID # emitted'[j].notificationID
                      /\ emitted'[i].incidentID = emitted'[j].incidentID
                             => (i + 1) \div 2 = (j + 1) \div 2
    BY <1>2 DEF FreshIDs
  <2>1. \A k \in 1..n : /\ emitted[k].incidentID \in 1..issued
                        /\ emitted[k].notificationID \in 1..issued
    BY <1>2 DEF MonitorInv, IssuedInv
  <2>2. \A k, l \in 1..n :
            /\ emitted[k].notificationID # emitted[l].incidentID
            /\ k # l => emitted[k].notificationID # emitted[l].notificationID
            /\ emitted[k].incidentID = emitted[l].incidentID
                   => (k + 1) \div 2 = (l + 1) \div 2
    BY <1>2 DEF MonitorInv, FreshIDs
  <2>3. e.incidentID = emitted[n].incidentID
    BY <1>3 DEF SameEpisode
  <2>4. (n + 1 + 1) \div 2 = (n + 1) \div 2
    BY <1>1
  <2>5. CASE i \in 1..n /\ j \in 1..n
    BY <1>2, <2>2, <2>5
  <2>6. CASE i = n + 1 /\ j \in 1..n
    <3>1. /\ emitted'[i] = e /\ emitted'[j] = emitted[j]
          /\ (i + 1) \div 2 = (n + 1) \div 2
      BY <1>2, <2>4, <2>6
    <3>2. e.notificationID # emitted[j].incidentID /\ e.notificationID # emitted[j].notificationID
      BY <1>1, <2>1, <2>6
    <3>3. e.incidentID = emitted[j].incidentID => (n + 1) \div 2 = (j + 1) \div 2
      BY <1>3, <2>2, <2>3, <2>6
    <3> QED BY <3>1, <3>2, <3>3
  <2>7. CASE i \in 1..n /\ j = n + 1
    <3>1. /\ emitted'[i] = emitted[i] /\ emitted'[j] = e
          /\ (j + 1) \div 2 = (n + 1) \div 2
      BY <1>2, <2>4, <2>7
    <3>2. emitted[i].notificationID # e.incidentID /\ e.notificationID # emitted[i].notificationID
      BY <1>1, <1>3, <2>1, <2>2, <2>3, <2>7
    <3>3. emitted[i].incidentID = e.incidentID => (i + 1) \div 2 = (n + 1) \div 2
      BY <1>3, <2>2, <2>3, <2>7
    <3> QED BY <3>1, <3>2, <3>3
  <2>8. CASE i = n + 1 /\ j = n + 1
    BY <1>1, <1>2, <1>3, <2>1, <2>3, <2>8
  <2> QED BY <1>1, <2>5, <2>6, <2>7, <2>8
<1>7. AlertJustified'
  <2>1. /\ e.lastCheckIn # NoTime
        /\ e.expectedBy = e.lastCheckIn + ExpectedEvery
        /\ e.overdueSince = e.expectedBy
        /\ e.alertingAt = e.expectedBy + AlertingDelay
    BY DEF MonitorInv, PhaseInv, ExpectedBy, AlertingAt
  <2> QED BY <1>1, <1>2, <2>1 DEF MonitorInv, AlertJustified
<1> QED BY <1>2, <1>4, <1>5, <1>6, <1>7

-----------------------------------------------------------------------------
(* The invariant is inductive, for any caller's time.                      *)

\* A monitor without a check-in, whose generator may have served others before.
FreshMonitor ==
    /\ phase = "scheduled"
    /\ lastCheckIn = NoTime
    /\ overdueSince = NoTime
    /\ incidentID = NoID
    /\ alertingNotificationID = NoID
    /\ issued \in Nat
    /\ emitted = <<>>

LEMMA MonitorInvFresh == FreshMonitor => MonitorInv
BY DEF FreshMonitor, MonitorInv, MonitorTypeOK, PhaseInv, OpenAlertInv, IssuedInv,
       EpisodesPaired, FreshIDs, AlertJustified, Phases, NoTime, NoID

LEMMA MonitorInvInit == MonitorInit => MonitorInv
BY MonitorInvFresh DEF MonitorInit, FreshMonitor

LEMMA MonitorInvStutter == MonitorInv /\ UNCHANGED monitorVars => MonitorInv'
BY DEF monitorVars, MonitorInv, MonitorTypeOK, PhaseInv, OpenAlertInv, IssuedInv,
       EpisodesPaired, FreshIDs, AlertJustified, ExpectedBy, AlertingAt

\* What both alerting branches of Check do.
LEMMA EntersAlertingPreserves ==
    ASSUME MonitorInv, phase \in {"awaiting", "overdue"}, NEW now \in Nat,
           now >= AlertingAt, phase' = "alerting", overdueSince' = ExpectedBy,
           EmitAlerting(now, ExpectedBy), UNCHANGED lastCheckIn
    PROVE  MonitorInv'
<1>1. MonitorTypeOK /\ PhaseInv
  BY DEF MonitorInv
<1>2. /\ incidentID = NoID /\ alertingNotificationID = NoID
      /\ lastCheckIn # NoTime /\ phase # "alerting"
  BY <1>1 DEF PhaseInv
<1>3. /\ ExpectedBy \in Nat /\ AlertingAt \in Nat
      /\ issued \in Nat /\ emitted \in Seq(Event) /\ lastCheckIn \in Nat
  BY <1>1, ScheduleFacts DEF MonitorTypeOK
<1>4. PICK e \in Event :
          e = EventAt("alerting", issued + 1, issued + 2, ExpectedBy, now)
  <2>1. EventAt("alerting", issued + 1, issued + 2, ExpectedBy, now) \in Event
    BY <1>1, <1>3, EventAtType
  <2> QED BY <2>1
<1>5. /\ emitted' = Append(emitted, e)
      /\ incidentID' = issued + 1
      /\ alertingNotificationID' = issued + 2
      /\ issued' = issued + 2
  BY <1>1, <1>2, <1>3, <1>4, EmitAlertingFacts
<1>6. /\ e.status = "alerting" /\ e.incidentID = issued + 1
      /\ e.notificationID = issued + 2 /\ e.lastCheckIn = lastCheckIn
      /\ e.expectedBy = ExpectedBy /\ e.overdueSince = ExpectedBy
      /\ e.alertingAt = AlertingAt /\ e.now = now
  BY <1>4 DEF EventAt
<1>7. /\ emitted' \in Seq(Event) /\ IssuedInv' /\ EpisodesPaired'
      /\ FreshIDs' /\ AlertJustified'
  BY <1>2, <1>5, <1>6, AppendAlert
<1>8. MonitorTypeOK'
  BY <1>1, <1>3, <1>5, <1>7 DEF MonitorTypeOK, Phases
<1>9. PhaseInv'
  BY <1>2, <1>3, <1>5 DEF PhaseInv, ExpectedBy, NoID
<1>10. OpenAlertInv'
  <2>1. /\ Len(emitted') = Len(emitted) + 1 /\ Len(emitted) \in Nat
        /\ emitted'[Len(emitted')] = e
    BY <1>3, <1>5
  <2>2. ExpectedBy' = ExpectedBy /\ AlertingAt' = AlertingAt
    BY DEF ExpectedBy, AlertingAt
  <2>3. Len(emitted') > 0
    BY <2>1
  <2> QED BY <1>5, <1>6, <2>1, <2>2, <2>3 DEF OpenAlertInv
<1> QED BY <1>7, <1>8, <1>9, <1>10 DEF MonitorInv

LEMMA RecordCheckInPreserves ==
    ASSUME MonitorInv, NEW at \in Nat \ {0}, RecordCheckIn(at)
    PROVE  MonitorInv'
<1>1. MonitorTypeOK /\ PhaseInv
  BY DEF MonitorInv
<1>2. /\ lastCheckIn' = at /\ overdueSince' = NoTime /\ phase' = "awaiting"
      /\ incidentID' = NoID /\ alertingNotificationID' = NoID
  BY DEF RecordCheckIn, ResetIncident
<1>3. /\ emitted' \in Seq(Event) /\ issued' \in Nat
      /\ IssuedInv' /\ EpisodesPaired' /\ FreshIDs' /\ AlertJustified'
  <2>1. CASE phase # "alerting"
    <3>1. UNCHANGED <<emitted, issued>>
      BY <2>1 DEF RecordCheckIn
    <3>2. MonitorTypeOK /\ IssuedInv /\ EpisodesPaired /\ FreshIDs /\ AlertJustified
      BY DEF MonitorInv
    <3> QED BY <1>2, <2>1, <3>1, <3>2
            DEF MonitorTypeOK, IssuedInv, EpisodesPaired, FreshIDs, AlertJustified
  <2>2. CASE phase = "alerting"
    <3>1. EmitResolved(at)
      BY <2>2 DEF RecordCheckIn
    <3>2. incidentID # NoID
      BY <1>1, <2>2 DEF PhaseInv
    <3>3. /\ issued \in Nat /\ incidentID \in Nat /\ overdueSince \in Nat
      BY <1>1 DEF MonitorTypeOK
    <3>4. PICK e \in Event :
              e = EventAt("resolved", incidentID, issued + 1, overdueSince, at)
      <4>1. EventAt("resolved", incidentID, issued + 1, overdueSince, at) \in Event
        BY <1>1, <3>3, EventAtType
      <4> QED BY <4>1
    <3>5. emitted' = Append(emitted, e) /\ issued' = issued + 1
      BY <1>1, <3>1, <3>2, <3>4, EmitResolvedFacts
    <3>6. /\ e.status = "resolved" /\ e.incidentID = incidentID
          /\ e.notificationID = issued + 1 /\ e.lastCheckIn = lastCheckIn
          /\ e.expectedBy = ExpectedBy /\ e.overdueSince = overdueSince
          /\ e.alertingAt = AlertingAt
      BY <3>4 DEF EventAt
    <3> QED BY <1>2, <2>2, <3>3, <3>5, <3>6, AppendResolved
  <2> QED BY <2>1, <2>2
<1>4. MonitorTypeOK'
  BY <1>2, <1>3 DEF MonitorTypeOK, Phases, NoTime, NoID
<1>5. PhaseInv' /\ OpenAlertInv'
  BY <1>2 DEF PhaseInv, OpenAlertInv, NoTime, NoID
<1> QED BY <1>3, <1>4, <1>5 DEF MonitorInv

LEMMA CheckPreserves ==
    ASSUME MonitorInv, NEW now \in Nat, Check(now)
    PROVE  MonitorInv'
<1>1. MonitorTypeOK /\ PhaseInv
  BY DEF MonitorInv
<1>2. CASE CheckNothingDue(now)
  BY <1>2, MonitorInvStutter DEF CheckNothingDue
<1>3. CASE CheckEntersOverdue(now)
  <2>1. /\ phase = "awaiting" /\ phase' = "overdue" /\ overdueSince' = ExpectedBy
        /\ UNCHANGED <<lastCheckIn, incidentID, alertingNotificationID, issued, emitted>>
    BY <1>3 DEF CheckEntersOverdue
  <2>2. MonitorTypeOK' /\ PhaseInv'
    BY <1>1, <2>1, ScheduleFacts DEF MonitorTypeOK, PhaseInv, ExpectedBy, Phases
  <2>3. OpenAlertInv' /\ IssuedInv' /\ EpisodesPaired' /\ FreshIDs' /\ AlertJustified'
    BY <2>1 DEF MonitorInv, OpenAlertInv, IssuedInv, EpisodesPaired, FreshIDs, AlertJustified
  <2> QED BY <2>2, <2>3 DEF MonitorInv
<1>4. CASE CheckAwaitingEntersAlerting(now)
  BY <1>4, EntersAlertingPreserves DEF CheckAwaitingEntersAlerting
<1>5. CASE CheckOverdueEntersAlerting(now)
  <2>1. overdueSince = ExpectedBy
    BY <1>1, <1>5 DEF PhaseInv, CheckOverdueEntersAlerting
  <2> QED BY <1>5, <2>1, EntersAlertingPreserves DEF CheckOverdueEntersAlerting
<1> QED BY <1>2, <1>3, <1>4, <1>5 DEF Check

-----------------------------------------------------------------------------
(* The theorems.                                                           *)

LEMMA MonitorNextPreserves ==
    MonitorInv /\ [MonitorNext]_monitorVars => MonitorInv'
<1> SUFFICES ASSUME MonitorInv, [MonitorNext]_monitorVars
             PROVE  MonitorInv'
  OBVIOUS
<1>1. ASSUME NEW at \in Times, RecordCheckIn(at)
      PROVE  MonitorInv'
  BY <1>1, RecordCheckInPreserves, MonitorBoundsAssumption DEF Times
<1>2. ASSUME NEW now \in Times, Check(now)
      PROVE  MonitorInv'
  BY <1>2, CheckPreserves, MonitorBoundsAssumption DEF Times
<1>3. CASE UNCHANGED monitorVars
  BY <1>3, MonitorInvStutter
<1> QED BY <1>1, <1>2, <1>3 DEF MonitorNext

\* The inductive invariant holds in every behaviour of the monitor.
THEOREM MonitorInvariant == MonitorSpec => []MonitorInv
<1> QED BY MonitorInvInit, MonitorNextPreserves, PTL DEF MonitorSpec

\* Type correctness (the state of monitor.go:59-71).
THEOREM MonitorTypeCorrect == MonitorSpec => []MonitorTypeOK
<1>1. MonitorInv => MonitorTypeOK
  BY DEF MonitorInv
<1> QED BY <1>1, MonitorInvariant, PTL

\* Alerts and resolved events alternate and describe the same episode, for
\* every interval and delay and any order of the callers' times
\* (monitor.go:127-151, 232-271).
THEOREM EpisodesArePaired == MonitorSpec => []EpisodesPaired
<1>1. MonitorInv => EpisodesPaired
  BY DEF MonitorInv
<1> QED BY <1>1, MonitorInvariant, PTL

\* No identity is ever used for two notifications or two incidents
\* (monitor.go:274-307).
THEOREM IdentitiesAreFresh == MonitorSpec => []FreshIDs
<1>1. MonitorInv => FreshIDs
  BY DEF MonitorInv
<1> QED BY <1>1, MonitorInvariant, PTL

\* Every alert comes after both deadlines of the check-in it names
\* (monitor.go:173-207).
THEOREM AlertsAreJustified == MonitorSpec => []AlertJustified
<1>1. MonitorInv => AlertJustified
  BY DEF MonitorInv
<1> QED BY <1>1, MonitorInvariant, PTL

-----------------------------------------------------------------------------
(* The monitor implements the lifecycle.                                   *)

\* The notices of a longer history.
LEMMA NoticesAppend ==
    ASSUME NEW s \in Seq(Event), NEW e \in Event
    PROVE  [i \in DOMAIN Append(s, e) |-> Append(s, e)[i].status]
               = Append([i \in DOMAIN s |-> s[i].status], e.status)
<1> DEFINE f == [i \in DOMAIN s |-> s[i].status]
           t == Append(s, e)
           g == [i \in DOMAIN t |-> t[i].status]
<1>1. /\ Len(s) \in Nat /\ DOMAIN s = 1..Len(s)
      /\ DOMAIN t = 1..(Len(s) + 1)
      /\ t[Len(s) + 1] = e
      /\ \A i \in 1..Len(s) : t[i] = s[i]
  OBVIOUS
<1>2. f \in Seq({"alerting", "resolved"}) /\ Len(f) = Len(s)
  <2>1. \A i \in 1..Len(s) : s[i].status \in {"alerting", "resolved"}
    <3>1. \A i \in 1..Len(s) : s[i] \in Event
      BY ElementOfSeq
    <3> QED BY <3>1 DEF Event
  <2>2. f \in [1..Len(s) -> {"alerting", "resolved"}]
    BY <1>1, <2>1
  <2>3. f \in Seq({"alerting", "resolved"})
    BY <1>1, <2>2, SeqDef
  <2> QED BY <1>1, <2>2, <2>3
<1>3. e.status \in {"alerting", "resolved"}
  BY DEF Event
<1>4. /\ Append(f, e.status) \in Seq({"alerting", "resolved"})
      /\ DOMAIN Append(f, e.status) = 1..(Len(s) + 1)
      /\ Append(f, e.status)[Len(s) + 1] = e.status
      /\ \A i \in 1..Len(s) : Append(f, e.status)[i] = f[i]
  BY <1>1, <1>2, <1>3
<1>5. ASSUME NEW i \in 1..(Len(s) + 1)
      PROVE  g[i] = Append(f, e.status)[i]
  <2>1. CASE i = Len(s) + 1
    BY <1>1, <1>4, <2>1
  <2>2. CASE i \in 1..Len(s)
    BY <1>1, <1>4, <2>2
  <2>3. i = Len(s) + 1 \/ i \in 1..Len(s)
    BY <1>1
  <2> QED BY <2>1, <2>2, <2>3
<1> HIDE DEF f, t
<1>6. Append(f, e.status) = [i \in 1..(Len(s) + 1) |-> Append(f, e.status)[i]]
  BY <1>4
<1> QED BY <1>1, <1>5, <1>6 DEF f, t

\* The notices of the current history.
Notices == [i \in DOMAIN emitted |-> emitted[i].status]

LEMMA StepOfAlert ==
    ASSUME MonitorInv, phase \in {"awaiting", "overdue"}, NEW now \in Nat,
           phase' = "alerting", EmitAlerting(now, ExpectedBy)
    PROVE  Abstract!Alert
<1>1. MonitorTypeOK /\ incidentID = NoID /\ alertingNotificationID = NoID
  BY DEF MonitorInv, PhaseInv
<1>2. /\ issued \in Nat /\ emitted \in Seq(Event) /\ ExpectedBy \in Nat
  BY <1>1, ScheduleFacts DEF MonitorTypeOK
<1>3. PICK e \in Event :
          e = EventAt("alerting", issued + 1, issued + 2, ExpectedBy, now)
  <2>1. EventAt("alerting", issued + 1, issued + 2, ExpectedBy, now) \in Event
    BY <1>1, <1>2, EventAtType
  <2> QED BY <2>1
<1>4. emitted' = Append(emitted, e)
  BY <1>1, <1>2, <1>3, EmitAlertingFacts
<1>5. e.status = "alerting"
  BY <1>3 DEF EventAt
<1>6. Notices' = Append(Notices, "alerting")
  BY <1>2, <1>4, <1>5, NoticesAppend DEF Notices
<1> QED BY <1>6 DEF Abstract!Alert, Notices

LEMMA StepOfRecordCheckIn ==
    ASSUME MonitorInv, NEW at \in Nat \ {0}, RecordCheckIn(at)
    PROVE  Abstract!CheckIn \/ Abstract!Resolve
<1>1. phase' = "awaiting"
  BY DEF RecordCheckIn
<1>2. CASE phase # "alerting"
  <2>1. emitted' = emitted
    BY <1>2 DEF RecordCheckIn
  <2> QED BY <1>1, <1>2, <2>1 DEF Abstract!CheckIn
<1>3. CASE phase = "alerting"
  <2>1. MonitorTypeOK /\ incidentID # NoID /\ EmitResolved(at)
    BY <1>3 DEF MonitorInv, PhaseInv, RecordCheckIn
  <2>2. /\ issued \in Nat /\ incidentID \in Nat /\ overdueSince \in Nat
        /\ emitted \in Seq(Event)
    BY <2>1 DEF MonitorTypeOK
  <2>3. PICK e \in Event :
            e = EventAt("resolved", incidentID, issued + 1, overdueSince, at)
    <3>1. EventAt("resolved", incidentID, issued + 1, overdueSince, at) \in Event
      BY <2>1, <2>2, EventAtType
    <3> QED BY <3>1
  <2>4. emitted' = Append(emitted, e)
    BY <2>1, <2>2, <2>3, EmitResolvedFacts
  <2>5. e.status = "resolved"
    BY <2>3 DEF EventAt
  <2>6. Notices' = Append(Notices, "resolved")
    BY <2>2, <2>4, <2>5, NoticesAppend DEF Notices
  <2> QED BY <1>1, <1>3, <2>6 DEF Abstract!Resolve, Notices
<1> QED BY <1>2, <1>3

LEMMA StepOfCheck ==
    ASSUME MonitorInv, NEW now \in Nat, Check(now)
    PROVE  [Abstract!LifecycleNext]_Abstract!lifecycleVars
<1>1. CASE CheckNothingDue(now)
  BY <1>1 DEF CheckNothingDue, monitorVars, Abstract!lifecycleVars
<1>2. CASE CheckEntersOverdue(now)
  BY <1>2 DEF CheckEntersOverdue, Abstract!LifecycleNext, Abstract!BecomeOverdue
<1>3. CASE CheckAwaitingEntersAlerting(now)
  BY <1>3, StepOfAlert DEF CheckAwaitingEntersAlerting, Abstract!LifecycleNext
<1>4. CASE CheckOverdueEntersAlerting(now)
  <2>1. overdueSince = ExpectedBy
    BY <1>4 DEF MonitorInv, PhaseInv, CheckOverdueEntersAlerting
  <2> QED BY <1>4, <2>1, StepOfAlert DEF CheckOverdueEntersAlerting, Abstract!LifecycleNext
<1> QED BY <1>1, <1>2, <1>3, <1>4 DEF Check

\* Every behaviour of the monitor is a behaviour of the lifecycle: alerts and
\* resolved notices come one of each per episode, and only a check-in ends an
\* episode (monitor.go:127-207).
THEOREM MonitorImplementsLifecycle == MonitorSpec => ImplementsLifecycle
<1>1. MonitorInit => Abstract!LifecycleInit
  <2> SUFFICES ASSUME MonitorInit PROVE Notices = <<>> /\ phase = "scheduled"
    BY DEF Abstract!LifecycleInit, Notices
  <2> QED BY DEF MonitorInit, Notices
<1>2. MonitorInv /\ [MonitorNext]_monitorVars
          => [Abstract!LifecycleNext]_Abstract!lifecycleVars
  <2> SUFFICES ASSUME MonitorInv, [MonitorNext]_monitorVars
               PROVE  [Abstract!LifecycleNext]_Abstract!lifecycleVars
    OBVIOUS
  <2>1. ASSUME NEW at \in Times, RecordCheckIn(at)
        PROVE  Abstract!LifecycleNext
    BY <2>1, StepOfRecordCheckIn, MonitorBoundsAssumption
       DEF Times, Abstract!LifecycleNext
  <2>2. ASSUME NEW now \in Times, Check(now)
        PROVE  [Abstract!LifecycleNext]_Abstract!lifecycleVars
    BY <2>2, StepOfCheck, MonitorBoundsAssumption DEF Times
  <2>3. CASE UNCHANGED monitorVars
    BY <2>3 DEF monitorVars, Abstract!lifecycleVars
  <2> QED BY <2>1, <2>2, <2>3 DEF MonitorNext
<1> QED BY <1>1, <1>2, MonitorInvariant, PTL
        DEF MonitorSpec, ImplementsLifecycle, Abstract!LifecycleSpec

=============================================================================
