------------------------------ MODULE Startup ------------------------------
(***************************************************************************)
(* The main goroutine: Run of internal/app and main, from the command line *)
(* to the end of the process, with the failure of each step and signals at *)
(* any moment.  The scheduler's loop and the notification manager appear   *)
(* only as started or not; the module Scheduler says what the loop does.   *)
(***************************************************************************)
EXTENDS Routes, Tokens, Links, Receivers

CONSTANT CommandLines      \* the flags of each command line that is followed

\* The flags that decide what is started, what is served and who is told.
\* A text is a sequence of characters.  Within a group of flags an instance is
\* identified by its name, and fields are numbered in the order of their flags.
ASSUME CommandLinesAssumption ==
    \A line \in CommandLines :
        /\ line.startActive \in BOOLEAN
        /\ line.allowGET \in BOOLEAN
        /\ {line.path, line.publicURL, line.routePrefix, line.authToken} \subseteq Seq(STRING)
        /\ \A t \in line.targets :
               DOMAIN t.headers \subseteq Nat /\ DOMAIN t.customData \subseteq Nat
        /\ \A s, t \in line.targets : s.kind = t.kind /\ s.name = t.name => s = t

VARIABLES
    flags,        \* the command line
    config,       \* the configuration parsed from it
    receivers,    \* the notification receivers, by ID
    resolved,     \* the router's receivers of resolved events
    step,         \* where the main goroutine is
    cause,        \* why Run is returning: the step's result, "none" until then
    ctx,          \* the signal context: "none", "live" or "done"
    manager,      \* the notification manager: "none", "built" or "started"
    activated,    \* the check-in of --start-active is recorded
    loop,         \* the loop's goroutine: "none", "running" or "stopped"
    process,      \* "running", or how the process ended
    signalled     \* history: a signal has cancelled the context

programVars == <<ctx, manager, activated, loop>>
endVars == <<process, signalled>>
configVars == <<flags, config>>
notifyVars == <<receivers, resolved>>
startupVars == <<configVars, notifyVars, step, cause, programVars, endVars>>

NoConfig == [path |-> <<>>, routePrefix |-> <<>>, siteRoot |-> <<>>,
             app |-> NoLinks, authToken |-> <<>>, targets |-> {}]

StartupInit ==
    /\ flags \in CommandLines
    /\ config = NoConfig
    /\ receivers = <<>>
    /\ resolved = {}
    /\ step = "parse"
    /\ cause = "none"
    /\ ctx = "none"
    /\ manager = "none"
    /\ activated = FALSE
    /\ loop = "none"
    /\ process = "running"
    /\ signalled = FALSE

-----------------------------------------------------------------------------
\* The main goroutine is at one label and goes to another.
From(here, there) ==
    /\ process = "running"
    /\ step = here
    /\ step' = there

\* Run returns because of this result of its current step.
ReturnsFrom(here, result) ==
    /\ From(here, "return")
    /\ cause' = result
    /\ UNCHANGED <<configVars, notifyVars, programVars, endVars>>

\* --help and --version are errors of the parser that Run answers with nil.
AnswersHelp == ReturnsFrom("parse", "help")

\* The configuration of a command line: ParseArgs finalizes the flags and then
\* derives the links and the targets from them.
Parsed(line) ==
    LET path   == NormalizePath(line.path)
        prefix == NormalizeRoutePrefix(line.routePrefix)
        root   == NormalizePublicURL(line.publicURL)
    IN  [path        |-> path,
         routePrefix |-> prefix,
         siteRoot    |-> root,
         app         |-> NewAppData(root, prefix, path),
         authToken   |-> line.authToken,
         targets     |-> {TargetConfig(t) : t \in line.targets}]

AcceptedLine(line) ==
    /\ ValidPath(NormalizePath(line.path))
    /\ ValidPublicURL(NormalizePublicURL(line.publicURL))
    /\ ValidToken(line.authToken)
    /\ \A t \in line.targets : ~RefusedTarget(t)

\* Any flag may be refused; these flags are whenever they are not valid.
ParsesArguments ==
    /\ From("parse", "receivers")
    /\ AcceptedLine(flags)
    /\ config' = Parsed(flags)
    /\ UNCHANGED <<flags, notifyVars, cause, programVars, endVars>>

\* MUTANT: templates are not tried before the start
BuildsUntriedReceivers ==
    /\ From("receivers", "manager")
    /\ receivers' = BuiltReceivers(config.targets)
    /\ resolved' = ResolvedReceivers(config.targets)
    /\ UNCHANGED <<configVars, cause, programVars, endVars>>

\* All receivers, or the error of the first that cannot be built.
BuildsReceivers ==
    /\ From("receivers", "manager")
    /\ \A c \in config.targets : ValidTarget(c)
    /\ receivers' = BuiltReceivers(config.targets)
    /\ resolved' = ResolvedReceivers(config.targets)
    /\ UNCHANGED <<configVars, cause, programVars, endVars>>

BuildsManager ==
    /\ From("manager", "signals")
    /\ manager' = "built"
    /\ UNCHANGED <<configVars, notifyVars, cause, ctx, activated, loop, endVars>>

InstallsSignals ==
    /\ From("signals", "start")
    /\ ctx' = "live"
    /\ UNCHANGED <<configVars, notifyVars, cause, manager, activated, loop, endVars>>

StartsManager ==
    /\ From("start", "monitor")
    /\ manager' = "started"
    /\ UNCHANGED <<configVars, notifyVars, cause, ctx, activated, loop, endVars>>

\* MUTANT: the loop is started with the scheduler, before the check-in
BuildsRunningScheduler ==
    \/ /\ From("monitor", "monitor")
       /\ loop = "none"
       /\ loop' = "running"
       /\ UNCHANGED <<configVars, notifyVars, cause, ctx, manager, activated, endVars>>
    \/ /\ From("monitor", "loop")
       /\ loop = "running"
       /\ activated' = flags.startActive
       /\ UNCHANGED <<configVars, notifyVars, cause, ctx, manager, loop, endVars>>

\* Monitor, registry and scheduler are built and the check-in of --start-active
\* is made; nothing else can see them yet.
BuildsScheduler ==
    /\ From("monitor", "loop")
    /\ activated' = flags.startActive
    /\ UNCHANGED <<configVars, notifyVars, cause, ctx, manager, loop, endVars>>

\* MUTANT: the loop's goroutine is not started
ForgetsLoop ==
    /\ From("loop", "routes")
    /\ UNCHANGED <<configVars, notifyVars, cause, programVars, endVars>>

RunsLoop ==
    /\ From("loop", "routes")
    /\ loop' = "running"
    /\ UNCHANGED <<configVars, notifyVars, cause, ctx, manager, activated, endVars>>

Routing == RegisteredRoutes(config.path, flags.allowGET)

BuildsRouter ==
    /\ From("routes", "listen")
    /\ ~RegistrationPanics(Routing)
    /\ UNCHANGED <<configVars, notifyVars, cause, programVars, endVars>>

\* The deferred stop runs while the panic unwinds.
RouterPanics ==
    /\ From("routes", "exit")
    /\ RegistrationPanics(Routing)
    /\ cause' = "panic"
    /\ ctx' = "done"
    /\ UNCHANGED <<configVars, notifyVars, manager, activated, loop, endVars>>

Listens ==
    /\ From("listen", "serve")
    /\ UNCHANGED <<configVars, notifyVars, cause, programVars, endVars>>

\* MUTANT: the error of the receivers is logged and Run goes on
StepFailsIsLogged ==
    /\ From("receivers", "manager")
    /\ cause' = "error"
    /\ UNCHANGED <<configVars, notifyVars, programVars, endVars>>

\* Each fallible step may fail for a reason of its own.
StepFails ==
    \E here \in {"parse", "receivers", "manager", "start", "listen", "serve"} :
        ReturnsFrom(here, "error")

\* MUTANT: the server is not given the context
ServerIgnoresContext ==
    /\ ctx = "done"
    /\ ReturnsFrom("start", "canceled")

\* The manager and the server end with context.Canceled, and the server also
\* with nil, once the context is cancelled; they may also not see it yet.
StepIsCanceled ==
    /\ ctx = "done"
    /\ \E here \in {"start", "listen", "serve"} : ReturnsFrom(here, "canceled")

\* The deferred stop, which cancels the context if there is one.
Returns ==
    /\ From("return", "exit")
    /\ ctx' = IF ctx = "none" THEN "none" ELSE "done"
    /\ UNCHANGED <<configVars, notifyVars, cause, manager, activated, loop, endVars>>

\* MUTANT: cancellation is reported as a failure
ExitStatusOfCanceled(c) ==
    IF c = "help" THEN "ok" ELSE IF c = "panic" THEN "panicked" ELSE "failed"

\* What Run makes of a result, and main of Run's error.
ExitStatus(c) ==
    IF c \in {"help", "canceled"} THEN "ok"
    ELSE IF c = "panic" THEN "panicked" ELSE "failed"

\* No goroutine is waited for.
Exits ==
    /\ From("exit", "exit")
    /\ process' = ExitStatus(cause)
    /\ UNCHANGED <<configVars, notifyVars, cause, programVars, signalled>>

Advances ==
    \/ AnswersHelp \/ ParsesArguments \/ BuildsReceivers \/ BuildsManager
    \/ InstallsSignals \/ StartsManager \/ BuildsScheduler \/ RunsLoop
    \/ BuildsRouter \/ RouterPanics \/ Listens \/ StepIsCanceled
    \/ Returns \/ Exits

-----------------------------------------------------------------------------
\* A signal cancels the context between SignalContext and stop; at any other
\* time it has its default effect.
SignalCancels ==
    /\ process = "running"
    /\ ctx = "live"
    /\ ctx' = "done"
    /\ signalled' = TRUE
    /\ UNCHANGED <<configVars, notifyVars, step, cause, manager, activated, loop, process>>

SignalKills ==
    /\ process = "running"
    /\ ctx = "none" \/ step = "exit"
    /\ process' = "killed"
    /\ UNCHANGED <<configVars, notifyVars, step, cause, programVars, signalled>>

LoopEnds ==
    /\ process = "running"
    /\ loop = "running"
    /\ ctx = "done"
    /\ loop' = "stopped"
    /\ UNCHANGED <<configVars, notifyVars, step, cause, ctx, manager, activated, endVars>>

Ended == process # "running" /\ UNCHANGED startupVars

StartupNext == Advances \/ StepFails \/ SignalCancels \/ SignalKills \/ LoopEnds \/ Ended

StartupSpec == StartupInit /\ [][StartupNext]_startupVars

\* The main goroutine runs when it can, and a server whose context is
\* cancelled returns.  No signal has to come and no step has to fail.
FairStartupSpec == StartupSpec /\ WF_startupVars(Advances)

-----------------------------------------------------------------------------
(* Properties.                                                             *)

MainLabels == {"parse", "receivers", "manager", "signals", "start", "monitor",
               "loop", "routes", "listen", "serve", "return", "exit"}

Causes == {"none", "help", "error", "canceled", "panic"}

\* Every variable keeps its type, and Run has a result exactly when it is
\* returning.
StartupTypeOK ==
    /\ config = NoConfig \/ config = Parsed(flags)
    /\ resolved \subseteq DOMAIN receivers
    /\ step \in MainLabels
    /\ cause \in Causes
    /\ cause # "none" <=> step \in {"return", "exit"}
    /\ ctx \in {"none", "live", "done"}
    /\ manager \in {"none", "built", "started"}
    /\ activated \in BOOLEAN
    /\ loop \in {"none", "running", "stopped"}
    /\ process \in {"running", "ok", "failed", "panicked", "killed"}
    /\ signalled \in BOOLEAN

\* A process exits with status 0 only when it was asked to end, by a help or
\* version flag or by a signal, and with status 1 only when a step failed:
\* a cancellation in the middle of startup is neither hidden nor reported as a
\* failure (run.go:33-41, 90-97, 133-151; main.go:29-31).
ExitStatusIsRight ==
    /\ process = "ok" => cause = "help" \/ signalled
    /\ process = "failed" => cause = "error"

\* Nothing watches before what it relies on is there.  From its first step the
\* loop has a manager that takes notifications, and the check-in of
\* --start-active behind it, so that neither the loop nor a request runs beside
\* that check-in; and while requests are accepted the loop is there to watch the
\* deadlines, unless the program is already being stopped (run.go:90-133).
RequestsAreWatched ==
    /\ loop # "none" => manager = "started" /\ activated = flags.startActive
    /\ step = "serve" => loop = "running" \/ (loop = "stopped" /\ ctx = "done")

\* Whatever path was accepted, the server records check-ins posted to it and to
\* no path below it, records those made by GET only if they are allowed, and
\* still serves each fixed route by its own handler, all of them under the prefix
\* (routes.go:17-31, utils.go:65-77).
RoutesAreKept ==
    step = "serve" =>
        LET ServedBy(method, path) ==
                HandlersUnder(config.routePrefix, Routing, method, config.routePrefix \o path)
        IN  /\ ServedBy("POST", config.path) = {"CheckIn"}
            /\ ServedBy("POST", config.path \o <<Separator, "below">>) = {}
            /\ "CheckIn" \in ServedBy("GET", config.path) <=> flags.allowGET
            /\ \A i \in DOMAIN FixedRoutes :
                   LET r == FixedRoutes[i] IN ServedBy(r.method, r.path) = {r.handler}

\* The links are trimmed again where they are built, the routes are not.
EndsWithSpace(text) == EndsWith(text, <<Space>>)

\* The links in notifications lead to this server's own routes.  They begin with
\* the public URL and contain the route prefix once, whether or not the public
\* URL ends with it; what follows the prefix is a path that the router serves.
\* Texts with a space before their trailing separators are the exception: only
\* the link loses the space (builder.go:9-51, routes.go:31, docs/templates.md:71).
LinksReachRoutes ==
    LET root   == TrimRight(TrimSpace(config.siteRoot), Separator)
        prefix == config.routePrefix
        base   == IF EndsWith(root, prefix) THEN SubSeq(root, 1, Len(root) - Len(prefix))
                  ELSE root
        Reaches(link, method, handler) ==
            /\ StartsWith(link, base)
            /\ handler \in HandlersUnder(prefix, Routing, method,
                                         SubSeq(link, Len(base) + 1, Len(link)))
    IN  /\ step = "serve"
        /\ config.app # NoLinks
        /\ \A text \in {root, prefix, config.path} : ~EndsWithSpace(text)
        => /\ Reaches(config.app.checkInURL, "POST", "CheckIn")
           /\ Reaches(config.app.statusURL, "GET", "Status")

\* Every token that validation accepts can be presented and is the only one that
\* authorises: the header is trimmed and cut at a space, so a token that could
\* lose a character on the way must have been refused (utils.go:88-109,
\* auth.go:11-29).
TokenCanBePresented ==
    step = "serve" /\ config.authToken # <<>> =>
        \A line \in CommandLines :
            ValidToken(line.authToken) =>
                \A scheme \in BearerSchemes :
                    LET header == <<scheme, Space>> \o line.authToken
                    IN  Authorized(config.authToken, header)
                            <=> line.authToken = config.authToken

\* Each configured target has a receiver of its own, found under its kind and
\* name, that renders both kinds of event: no target is lost to another one, and
\* none starts with a template that fails on its first resolved event
\* (receivers.go:27-54, 79-185, 203-251).
TargetsHaveReceivers ==
    step = "serve" =>
        /\ DOMAIN receivers = {<<t.kind, t.name>> : t \in flags.targets}
        /\ \A t \in flags.targets :
               LET r == receivers[<<t.kind, t.name>>]
               IN  /\ r.kind = t.kind /\ r.name = t.name
                   /\ EventStatuses \subseteq r.template

\* A later field has the key of the field at i.
GivenAgain(fields, i) ==
    \E j \in DOMAIN fields : i < j /\ FieldKey(fields[j]) = FieldKey(fields[i])

\* What a target was given in repeated flags is what its receiver sends.  No
\* header is lost, added or given twice, and each has its value, but for the
\* identity header, which is Overdue's own whatever was configured.  Each key of
\* the custom data has the value of the last field that gives it, whatever
\* fields of other keys follow (notifications.go:47-128, headers.go:10-35,
\* utils.go:10-30, receivers.go:108, 119, 158, 164).
ReceiversKeepFields ==
    step = "serve" =>
        \A t \in flags.targets :
            LET r   == receivers[<<t.kind, t.name>>]
                own == IdentityHeader(t.kind)
            IN  /\ DOMAIN r.headers = FieldKeys(t.headers) \cup {own}
                /\ r.headers[own] = Identity
                /\ \A i \in DOMAIN t.headers :
                       /\ ~GivenAgain(t.headers, i)
                       /\ FieldKey(t.headers[i]) # own
                              => r.headers[FieldKey(t.headers[i])] = t.headers[i][2]
                /\ DOMAIN r.customData = FieldKeys(t.customData)
                /\ \A i \in DOMAIN t.customData :
                       ~GivenAgain(t.customData, i)
                           => r.customData[FieldKey(t.customData[i])] = t.customData[i][2]

\* Alerts go to every receiver, and resolved events to exactly those that were
\* configured for them, to none at all if there is none, although no explicit
\* receivers means all of them to notifykit (receivers.go:37-39, 48-50, 57-77,
\* event.go:31-36, docs/notifications.md:248-254).
ResolvedOnlyWhereAsked ==
    step = "serve" =>
        /\ Recipients("alerting", receivers, resolved) = DOMAIN receivers
        /\ \A t \in flags.targets :
               <<t.kind, t.name>> \in Recipients("resolved", receivers, resolved)
                   <=> t.sendResolved

\* A signal that cancels the context ends the process, wherever startup is
\* (run.go:87-97, 133-141).
SignalEndsProcess == signalled ~> process # "running"

-----------------------------------------------------------------------------
(* What documentation says and the code does not do.                       *)

\* docs/api.md:12: the check-in path is configurable with --path; an accepted
\* path does not make the program panic.
AcceptedPathIsServed == process # "panicked"

=============================================================================
