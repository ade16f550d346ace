--------------------------- MODULE StartupProofs ---------------------------
(***************************************************************************)
(* Proofs about the main goroutine, for every set of command lines.        *)
(***************************************************************************)
EXTENDS Startup, TLAPS

\* How far startup has come at each label.
ProgressInv ==
    /\ step \in {"monitor", "loop", "routes", "listen", "serve"} => manager = "started"
    /\ step \in {"loop", "routes", "listen", "serve"} => activated = flags.startActive
    /\ step \in {"routes", "listen", "serve"} => loop # "none"
    /\ loop # "none" => step \in {"routes", "listen", "serve", "return", "exit"}
    /\ loop # "none" => manager = "started" /\ activated = flags.startActive
    /\ loop = "stopped" => ctx = "done"

\* What Run has made of the command line at each label.
ConfiguredInv ==
    /\ flags \in CommandLines
    /\ step \notin {"parse", "return", "exit"} => AcceptedLine(flags) /\ config = Parsed(flags)
    /\ step \notin {"parse", "receivers", "return", "exit"} =>
           /\ receivers = BuiltReceivers(config.targets)
           /\ resolved = ResolvedReceivers(config.targets)
           /\ \A c \in config.targets : ValidTarget(c)
    /\ step \in {"listen", "serve"} => ~RegistrationPanics(Routing)

\* Until Run returns, only a signal cancels the context, and only a cancelled
\* context lets a step be cancelled.
CancelInv ==
    /\ ctx = "done" => signalled \/ step = "exit"
    /\ cause = "canceled" => signalled

\* The process ends as Run's result says, or is killed.
EndInv ==
    process \notin {"running", "killed"} => step = "exit" /\ process = ExitStatus(cause)

StartupInv == StartupTypeOK /\ ConfiguredInv /\ ProgressInv /\ CancelInv /\ EndInv

LEMMA StartupInvInit == StartupInit => StartupInv
BY DEF StartupInit, StartupInv, StartupTypeOK, ConfiguredInv, ProgressInv, CancelInv,
       EndInv, MainLabels, Causes

\* The router only names receivers that exist.
LEMMA ResolvedAreReceivers ==
    ASSUME NEW configs
    PROVE  ResolvedReceivers(configs) \subseteq DOMAIN BuiltReceivers(configs)
BY DEF ResolvedReceivers, BuiltReceivers

\* The routes are those of the configuration.
LEMMA RoutingUnchanged == UNCHANGED configVars => Routing' = Routing
BY DEF configVars, Routing

LEMMA StartupInvStep == StartupInv /\ [StartupNext]_startupVars => StartupInv'
<1> SUFFICES ASSUME StartupInv, [StartupNext]_startupVars
             PROVE  StartupInv'
  OBVIOUS
<1> USE DEF StartupInv, ConfiguredInv, notifyVars, ProgressInv, CancelInv, EndInv, StartupTypeOK,
            MainLabels, Causes, configVars, programVars, endVars, From, ReturnsFrom
<1>1. CASE AnswersHelp
  BY <1>1 DEF AnswersHelp
<1>2. CASE ParsesArguments
  BY <1>2 DEF ParsesArguments
<1>3. CASE BuildsReceivers
  BY <1>3, ResolvedAreReceivers DEF BuildsReceivers
<1>4. CASE BuildsManager
  BY <1>4, RoutingUnchanged DEF BuildsManager
<1>5. CASE InstallsSignals
  BY <1>5, RoutingUnchanged DEF InstallsSignals
<1>6. CASE StartsManager
  BY <1>6, RoutingUnchanged DEF StartsManager
<1>7. CASE BuildsScheduler
  BY <1>7, CommandLinesAssumption DEF BuildsScheduler
<1>8. CASE RunsLoop
  BY <1>8, RoutingUnchanged DEF RunsLoop
<1>9. CASE BuildsRouter
  BY <1>9, RoutingUnchanged DEF BuildsRouter
<1>10. CASE RouterPanics
  BY <1>10, RoutingUnchanged DEF RouterPanics
<1>11. CASE Listens
  BY <1>11, RoutingUnchanged DEF Listens
<1>12. CASE StepFails
  BY <1>12, RoutingUnchanged DEF StepFails
<1>13. CASE StepIsCanceled
  BY <1>13, RoutingUnchanged DEF StepIsCanceled
<1>14. CASE Returns
  BY <1>14, RoutingUnchanged DEF Returns
<1>15. CASE Exits
  BY <1>15, RoutingUnchanged DEF Exits, ExitStatus
<1>16. CASE SignalCancels
  BY <1>16, RoutingUnchanged DEF SignalCancels
<1>17. CASE SignalKills
  BY <1>17, RoutingUnchanged DEF SignalKills
<1>18. CASE LoopEnds
  BY <1>18, RoutingUnchanged DEF LoopEnds
<1>19. CASE UNCHANGED startupVars
  BY <1>19, RoutingUnchanged DEF startupVars, ExitStatus
<1> QED
  BY <1>1, <1>2, <1>3, <1>4, <1>5, <1>6, <1>7, <1>8, <1>9, <1>10, <1>11, <1>12,
     <1>13, <1>14, <1>15, <1>16, <1>17, <1>18, <1>19 DEF StartupNext, Advances, Ended

LEMMA StartupInvariance == StartupSpec => []StartupInv
BY StartupInvInit, StartupInvStep, PTL DEF StartupSpec

\* The main goroutine's variables keep their types, and Run has a result
\* exactly when it is returning (run.go).
THEOREM StartupTypeCorrect == StartupSpec => []StartupTypeOK
<1>1. StartupInv => StartupTypeOK
  BY DEF StartupInv
<1> QED BY <1>1, StartupInvariance, PTL

\* Status 0 is a request to end and status 1 a failed step, wherever in startup
\* a signal or an error comes (run.go:33-41, 90-97, 133-151).
THEOREM ExitStatusTellsWhy == StartupSpec => []ExitStatusIsRight
<1>1. StartupInv => ExitStatusIsRight
  BY DEF StartupInv, CancelInv, EndInv, ExitStatusIsRight, ExitStatus, StartupTypeOK, Causes
<1> QED BY <1>1, StartupInvariance, PTL

\* The loop never runs without a manager or before the check-in of
\* --start-active, and no request is accepted without a loop (run.go:90-133).
THEOREM ServedRequestsAreWatched == StartupSpec => []RequestsAreWatched
<1>1. StartupInv => RequestsAreWatched
  BY DEF StartupInv, StartupTypeOK, ProgressInv, RequestsAreWatched
<1> QED BY <1>1, StartupInvariance, PTL

-----------------------------------------------------------------------------
(* The notification targets.                                               *)

\* The value kept for a key is that of the last field that gives it.
LEMMA LastFieldWins ==
    ASSUME NEW fields, DOMAIN fields \subseteq Nat, NEW i \in DOMAIN fields,
           ~GivenAgain(fields, i)
    PROVE  KeyValueMap(fields)[FieldKey(fields[i])] = fields[i][2]
<1> DEFINE key == FieldKey(fields[i])
           Last(k) == /\ FieldKey(fields[k]) = key
                      /\ \A j \in DOMAIN fields : FieldKey(fields[j]) = key => j <= k
<1>1. Last(i)
  BY DEF GivenAgain
<1>2. \A k \in DOMAIN fields : Last(k) => k = i
  BY <1>1
<1>3. (CHOOSE k \in DOMAIN fields : Last(k)) = i
  BY <1>1, <1>2
<1>4. FieldValue(fields, key) = fields[i][2]
  BY <1>3 DEF FieldValue
<1>5. key \in FieldKeys(fields)
  BY DEF FieldKeys
<1> QED BY <1>4, <1>5 DEF KeyValueMap

\* A target is found again under its ID, whatever the other targets are.
LEMMA ReceiverOfTarget ==
    ASSUME NEW targets, NEW t \in targets,
           \A r, s \in targets : r.kind = s.kind /\ r.name = s.name => r = s
    PROVE  LET built == BuiltReceivers({TargetConfig(s) : s \in targets})
           IN  /\ <<t.kind, t.name>> \in DOMAIN built
               /\ built[<<t.kind, t.name>>] = Receiver(TargetConfig(t))
<1> DEFINE configs == {TargetConfig(s) : s \in targets}
           id == <<t.kind, t.name>>
<1>1. \A s \in targets : ReceiverID(TargetConfig(s)) = <<s.kind, s.name>>
  BY DEF ReceiverID, TargetConfig
<1>2. TargetConfig(t) \in configs /\ ReceiverID(TargetConfig(t)) = id
  BY <1>1
<1>3. \A c \in configs : ReceiverID(c) = id => c = TargetConfig(t)
  BY <1>1
<1>4. (CHOOSE c \in configs : ReceiverID(c) = id) = TargetConfig(t)
  BY <1>2, <1>3
<1>5. id \in {ReceiverID(c) : c \in configs}
  BY <1>2
<1> HIDE DEF configs
<1>6. id \in DOMAIN BuiltReceivers(configs) /\ BuiltReceivers(configs)[id] = Receiver(TargetConfig(t))
  BY <1>4, <1>5 DEF BuiltReceivers
<1> QED BY <1>6 DEF configs

LEMMA ServedAsConfigured ==
    ASSUME StartupInv, step = "serve"
    PROVE  /\ config.targets = {TargetConfig(t) : t \in flags.targets}
           /\ receivers = BuiltReceivers(config.targets)
           /\ resolved = ResolvedReceivers(config.targets)
           /\ \A c \in config.targets : ValidTarget(c)
           /\ flags \in CommandLines
           /\ AcceptedLine(flags)
BY DEF StartupInv, ConfiguredInv, Parsed

\* What was built for a target is found under its kind and name.
LEMMA TargetIsServed ==
    ASSUME StartupInv, step = "serve", NEW t \in flags.targets
    PROVE  /\ LET r == receivers[<<t.kind, t.name>>]
              IN  /\ r.kind = t.kind /\ r.name = t.name
                  /\ r.headers = WithIdentity(t.kind, KeyValueMap(t.headers))
                  /\ r.customData = KeyValueMap(t.customData)
                  /\ r.template = t.template
           /\ ~RefusedTarget(t)
           /\ DOMAIN t.headers \subseteq Nat
           /\ DOMAIN t.customData \subseteq Nat
<1>1. \A r, s \in flags.targets : r.kind = s.kind /\ r.name = s.name => r = s
  BY ServedAsConfigured, CommandLinesAssumption
<1>2. receivers[<<t.kind, t.name>>] = Receiver(TargetConfig(t))
  BY <1>1, ServedAsConfigured, ReceiverOfTarget
<1>3. ~RefusedTarget(t)
  BY ServedAsConfigured DEF AcceptedLine
<1>4. DOMAIN t.headers \subseteq Nat /\ DOMAIN t.customData \subseteq Nat
  BY ServedAsConfigured, CommandLinesAssumption
<1> QED BY <1>2, <1>3, <1>4 DEF Receiver, TargetConfig

\* Every configured target is started under an ID of its own, with a template
\* that renders both kinds of event (receivers.go:27-54, 79-185, 203-251).
THEOREM TargetsAreReceivers == StartupSpec => []TargetsHaveReceivers
<1>1. ASSUME StartupInv, step = "serve"
      PROVE  DOMAIN receivers = {<<t.kind, t.name>> : t \in flags.targets}
  <2>1. \A t \in flags.targets : ReceiverID(TargetConfig(t)) = <<t.kind, t.name>>
    BY DEF ReceiverID, TargetConfig
  <2>2. DOMAIN receivers = {ReceiverID(c) : c \in config.targets}
    BY <1>1, ServedAsConfigured DEF BuiltReceivers
  <2> QED BY <1>1, <2>1, <2>2, ServedAsConfigured
<1>2. ASSUME StartupInv, step = "serve", NEW t \in flags.targets
      PROVE  LET r == receivers[<<t.kind, t.name>>]
             IN  /\ r.kind = t.kind /\ r.name = t.name
                 /\ EventStatuses \subseteq r.template
  <2>1. EventStatuses \subseteq t.template
    <3>1. EventStatuses \subseteq TargetConfig(t).template
      BY <1>2, ServedAsConfigured DEF ValidTarget
    <3> QED BY <3>1 DEF TargetConfig
  <2> QED BY <1>2, <2>1, TargetIsServed
<1>3. StartupInv => TargetsHaveReceivers
  BY <1>1, <1>2 DEF TargetsHaveReceivers
<1> QED BY <1>3, StartupInvariance, PTL

\* An accepted target gives each header once.
LEMMA HeadersGivenOnce ==
    ASSUME NEW t, ~RefusedTarget(t), DOMAIN t.headers \subseteq Nat, NEW i \in DOMAIN t.headers
    PROVE  ~GivenAgain(t.headers, i)
BY DEF RefusedTarget, RefusedHeaders, GivenAgain

\* The identity header is put on top of the others, which keep their values.
LEMMA IdentityOnTop ==
    ASSUME NEW kind, NEW fields
    PROVE  /\ DOMAIN WithIdentity(kind, KeyValueMap(fields))
                  = FieldKeys(fields) \cup {IdentityHeader(kind)}
           /\ WithIdentity(kind, KeyValueMap(fields))[IdentityHeader(kind)] = Identity
BY DEF WithIdentity, KeyValueMap

LEMMA OthersKept ==
    ASSUME NEW kind, NEW fields, NEW key \in FieldKeys(fields), key # IdentityHeader(kind)
    PROVE  WithIdentity(kind, KeyValueMap(fields))[key] = KeyValueMap(fields)[key]
BY DEF WithIdentity, KeyValueMap

\* Every header and the last custom value of every key reach the receiver,
\* however many fields a target has (notifications.go:47-128, headers.go:10-35,
\* utils.go:10-30, receivers.go:108, 119, 158, 164).
THEOREM FieldsReachReceivers == StartupSpec => []ReceiversKeepFields
<1>1. ASSUME StartupInv, step = "serve", NEW t \in flags.targets
      PROVE  LET r   == receivers[<<t.kind, t.name>>]
                 own == IdentityHeader(t.kind)
             IN  /\ DOMAIN r.headers = FieldKeys(t.headers) \cup {own}
                 /\ r.headers[own] = Identity
                 /\ \A i \in DOMAIN t.headers :
                        /\ ~GivenAgain(t.headers, i)
                        /\ FieldKey(t.headers[i]) # own
                               => r.headers[FieldKey(t.headers[i])] = t.headers[i][2]
  <2> DEFINE headers == receivers[<<t.kind, t.name>>].headers
             own     == IdentityHeader(t.kind)
  <2>1. headers = WithIdentity(t.kind, KeyValueMap(t.headers))
    BY <1>1, TargetIsServed
  <2>2. ~RefusedTarget(t) /\ DOMAIN t.headers \subseteq Nat
    BY <1>1, TargetIsServed
  <2> HIDE DEF headers
  <2>3. DOMAIN headers = FieldKeys(t.headers) \cup {own} /\ headers[own] = Identity
    BY <2>1, IdentityOnTop
  <2>4. ASSUME NEW i \in DOMAIN t.headers
        PROVE  ~GivenAgain(t.headers, i)
    BY <2>2, HeadersGivenOnce
  <2>5. ASSUME NEW i \in DOMAIN t.headers, FieldKey(t.headers[i]) # own
        PROVE  headers[FieldKey(t.headers[i])] = t.headers[i][2]
    <3>1. KeyValueMap(t.headers)[FieldKey(t.headers[i])] = t.headers[i][2]
      BY <2>2, <2>4, LastFieldWins
    <3> DEFINE key == FieldKey(t.headers[i])
    <3>2. key \in FieldKeys(t.headers)
      BY DEF FieldKeys
    <3>3. WithIdentity(t.kind, KeyValueMap(t.headers))[key] = KeyValueMap(t.headers)[key]
      BY <2>5, <3>2, OthersKept
    <3> QED BY <2>1, <3>1, <3>3
  <2> QED BY <2>3, <2>4, <2>5 DEF headers
<1>2. ASSUME StartupInv, step = "serve", NEW t \in flags.targets
      PROVE  LET r == receivers[<<t.kind, t.name>>]
             IN  /\ DOMAIN r.customData = FieldKeys(t.customData)
                 /\ \A i \in DOMAIN t.customData :
                        ~GivenAgain(t.customData, i)
                            => r.customData[FieldKey(t.customData[i])] = t.customData[i][2]
  <2>1. receivers[<<t.kind, t.name>>].customData = KeyValueMap(t.customData)
    BY <1>2, TargetIsServed
  <2>2. DOMAIN KeyValueMap(t.customData) = FieldKeys(t.customData)
    BY DEF KeyValueMap
  <2>3. DOMAIN t.customData \subseteq Nat
    BY <1>2, TargetIsServed
  <2>4. ASSUME NEW i \in DOMAIN t.customData, ~GivenAgain(t.customData, i)
        PROVE  KeyValueMap(t.customData)[FieldKey(t.customData[i])] = t.customData[i][2]
    BY <2>3, <2>4, LastFieldWins
  <2> QED BY <2>1, <2>2, <2>4
<1>3. StartupInv => ReceiversKeepFields
  BY <1>1, <1>2 DEF ReceiversKeepFields
<1> QED BY <1>3, StartupInvariance, PTL

\* Alerts reach all receivers, resolved events exactly those that asked
\* (receivers.go:37-77, event.go:31-36).
THEOREM ResolvedEventsAreRouted == StartupSpec => []ResolvedOnlyWhereAsked
<1>1. ASSUME StartupInv, step = "serve", NEW t \in flags.targets
      PROVE  <<t.kind, t.name>> \in resolved <=> t.sendResolved
  <2>1. \A s \in flags.targets :
            /\ ReceiverID(TargetConfig(s)) = <<s.kind, s.name>>
            /\ TargetConfig(s).sendResolved = s.sendResolved
    BY DEF ReceiverID, TargetConfig
  <2>2. resolved = {ReceiverID(c) : c \in {d \in config.targets : d.sendResolved}}
    BY <1>1, ServedAsConfigured DEF ResolvedReceivers
  <2>3. \A s \in flags.targets : s.kind = t.kind /\ s.name = t.name => s = t
    BY <1>1, ServedAsConfigured, CommandLinesAssumption
  <2>4. config.targets = {TargetConfig(s) : s \in flags.targets}
    BY <1>1, ServedAsConfigured
  <2> QED BY <2>1, <2>2, <2>3, <2>4
<1>2. Recipients("alerting", receivers, resolved) = DOMAIN receivers
  BY DEF Recipients, ReceiverIDsForEvent, Addressed
<1>3. Recipients("resolved", receivers, resolved) = resolved
  BY DEF Recipients, ReceiverIDsForEvent, Addressed
<1>4. StartupInv => ResolvedOnlyWhereAsked
  BY <1>1, <1>2, <1>3 DEF ResolvedOnlyWhereAsked
<1> QED BY <1>4, StartupInvariance, PTL

=============================================================================
