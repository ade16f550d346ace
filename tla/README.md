# Overdue: a TLA+ model

Overdue is a dead man's switch: a service expects HTTP check-ins, and when they
stop it alerts. This directory holds a model of the program in TLA+, TLC
configurations that check it on small instances, and TLAPS proofs of its main
invariants for every instance.

## The system

| Component | State | Operations | Called by |
| --- | --- | --- | --- |
| Monitor (`internal/monitor`) | phase, last check-in, overdue since, two identities | `RecordCheckIn`, `Check`, `Snapshot`, `NextDeadline`, each under one mutex | scheduler, and through it the handlers |
| Deadline timer (`internal/deadline`) | a `time.Timer` or nil | `Sync`, `Stop`, `C` | the scheduler's loop only |
| Scheduler (`internal/scheduler`) | a channel of one token | `RecordCheckInContext` (a request's goroutine), `run`/`Check` (the loop's goroutine) | service, startup |
| Service and handlers (`internal/service`, `internal/handler`) | none | `CheckIn`, `Status` | net/http, one goroutine per request |
| Metrics (`internal/metrics`) | seven monitor gauges, four counters | `SetMonitorSnapshot`, `Inc...` | scheduler, service |
| Router and receivers (`internal/notify`) | the receivers by ID, and those that want resolved events | `Receivers`, `ReceiverIDsForEvent` | startup, scheduler |
| Startup (`internal/app`) | the signal context | `Run` | main |
| Configuration (`internal/cli`, `internal/config`), routes, auth | none after start | normalising, validation, links, `Authorized` | startup, handlers |
| Rendering, logging | none | | notifykit, handlers |
| notifykit, httpkit, Prometheus (external) | the notification queue, the signal context, gauges | `Enqueue`, `SignalContext`, `Set` | scheduler, startup, metrics |

What interacts: every request and the loop share the monitor under its mutex.
Everything else happens outside that mutex. An event is returned under the lock
and enqueued after it; a snapshot is taken under the lock and written to seven
gauges after it; a check-in's time is read before the lock; the loop reads the
next deadline under the lock, arms a timer later and then waits for the timer, a
token or the end of its context. The behaviours that are hard to test are the
interleavings at exactly these gaps; `PROJECT.json` lists each with its line.

What makes each component correct:

- monitor: one alert and at most one resolution per episode, agreeing on
  incident and schedule; no identity used twice; no alert before its deadline;
- timer and loop: the loop never sleeps with a timer that is wrong for the
  monitor, never spins, and ends when told to;
- scheduler: each event is enqueued at most once and counted exactly once;
- metrics: gauges agree with the monitor once everything is at rest;
- status: what a response says fits together although it is read in two steps;
- configuration: what validation accepts is served, can be presented, leads to
  this server's routes and reaches the receivers it was configured for;
- the whole: when check-ins stop, the monitor ends up alerting, every request is
  answered, and an outage is reported also when the process is restarted.

## Modules

| Module | Models |
| --- | --- |
| `Lifecycle` | what a monitor promises, with no time, identities or payload |
| `Alarm` | what a reader of the notification queue may rely on, with no clock, goroutines or gauges |
| `Monitor` | `monitor.go`: one action per operation; each early return of `advance` is its own disjunct |
| `DeadlineTimer` | `timer.go` as operators on a timer value |
| `Metrics` | what a snapshot puts in each gauge, and the order of the writes |
| `Scheduler` | the running program: `Monitor`, `DeadlineTimer` and `Metrics` driven by the loop and by concurrent requests |
| `StatusRequests` | `GET /status` beside the running program |
| `Restarts` | the running program when its process ends at any step and is started again |
| `Text` | the functions of package `strings` that the configuration relies on |
| `Routes` | the check-in path of `cli/utils.go`, the routes of `routes.go` and what `http.ServeMux` makes of them |
| `Links` | public URL and route prefix, and the links of notifications built by `builder.go` |
| `Tokens` | which bearer tokens validation accepts and which header authorises (`cli/utils.go`, `auth.go`) |
| `Receivers` | notification targets from their flags to the receivers and the routing of events |
| `Startup` | the main goroutine: `Run` and `main`, from the command line to the exit status, over the four modules above |
| `MCMonitor`, `MCScheduler`, `MCStatusRequests`, `MCStartup`, `MCRestarts` | instances for TLC |
| `MonitorProofs`, `SchedulerProofs`, `NotificationProofs`, `StatusProofs`, `RestartProofs`, `StartupProofs`, `ConfigProofs` | theorems |
| `Positions` | lemmas: a set of positions in a sequence has a least and a greatest element |

`Monitor` implements `Lifecycle` under the mapping that keeps the phase and
projects each returned event to its status. `Scheduler` implements `Alarm`: a
notice is an event with its payload forgotten, it is raised when the monitor
returns it, pending while a goroutine holds it, and settled by `Enqueue`. `Alarm`
lets notices be settled in any order, because the program does (run
`queue_order`).

### State and actions

In `Monitor` each variable is the field of the same name, and two are not
fields: `issued` counts calls of the identity generator, so that an identity is
the position of the call that returned it, and `emitted` records the events
returned to callers, in lock order. Time is a number of ticks and `NoTime`, 0, is
Go's zero time. `RecordCheckIn(at)` and `Check(now)` take any time, because
callers read their clock outside the lock.

In `Scheduler` each goroutine has a label in `pc`. A request goes through
`record`, possibly `enqueue`, `gauge` (once for each gauge) and `wake`; the loop
through `sync`, `arm`, `select`, then `woken` and `check` or `check` directly,
possibly `enqueue`, `snapshot` and `gauge`. A step ends wherever another
goroutine may see or change what this one relies on: at every lock, channel
operation, gauge write, `Enqueue` and reading of the clock. The increments of
counters have no step of their own, because no goroutine reads them: a
notification's counter goes with its `Enqueue` (scheduler.go:167 with 169, 181 or
191) and a request's with the send to the loop. So "the queue holds exactly what
is counted as queued" (`NotificationsAccounted`) speaks of the ends of these
steps; a scrape between the two calls sees the queue ahead of the counter. `rescheduleCh` is the number of
tokens in the channel; the non-blocking send is `rescheduleCh' = 1`. The timer's
value is any time from its deadline to the moment it is received. `select` may
take any ready case, so a cancelled context does not come first. `sendResolved`
says whether the router has a receiver for resolved events. `queue` holds what
notifykit has accepted; `Enqueue` may be refused or return no identity, and once
the context is cancelled it may always be refused.

With `--start-active` the check-in made by `Run` happens before the loop or the
server exists, so it is one action; that it does is `RequestsAreWatched` of
`Startup`.

`Restarts` adds one action, `Restart`, that may come at any moment: everything
the process held is gone, the clock goes on, and the options are the same ones.

A refused request (401) reads and changes nothing and has no action in
`Scheduler`; `Tokens` says which requests are refused. Nothing else about a
request matters here. In `StatusRequests` one reader that serves
request after request stands for all of them, because a status request only
reads.

In `Startup` the main goroutine's label is `step` and each call of `Run` that may
fail, start something or be seen by another goroutine is one step. Any of them may
fail; once the context is cancelled the manager and the server may end with
`context.Canceled`. Before `SignalContext` and after the deferred `stop` a signal
has its default effect and kills the process. The loop is only started or not
here: `Scheduler` says what it does. Its constant `ResolvedReceivers` stands for
whether `resolved` of `Startup` is empty.

A command line is the record of its flags, and `Parsed` is what ParseArgs makes
of it. A text is a sequence of characters, and a character is a separator, a
space or a name that stands for a run of others. Headers and custom data are
sequences of fields in the order of their flags. A template is the set of
statuses whose sample event it renders, which is what validation finds out. That
flags are normalised before they are validated is taken from the comment of
`validatePath`; tinyflags is external.

### Bounds

`MaxTime` ends the clock, `MaxRequests` the check-ins and `MaxIDs` the
identities of `Monitor` on its own; each is a guard. A check-in is taken only
while its alerting deadline is before `MaxTime`, so a run never cuts an episode
short. `Gauges` says which of the seven gauges an instance follows, in the order
the code writes them; a write to one gauge does not depend on the others, and
the `status` run follows all seven.

`MaxRestarts` is one: the second process begins in every state the first one
can leave, which is the clock and the identities only, so a third begins like
the second.

`MCStartup` lists the command lines, each of which varies the flags of one
concern, so that no product of unrelated flags is explored:

- paths: every `--path` of at most four characters out of a separator, a space, a
  route served by GET, one served by GET and POST, and a name that is no route,
  with and without `--allow-get-checkin` and `--start-active`. Four are enough for
  leading and trailing spaces and separators together, repeated separators, and
  every kind of conflict;
- links: public URLs of an origin and at most three characters, one of five that
  mixes separators and spaces at its end, one that is no URL and one of spaces,
  with seven spellings of the route prefix (none, the root, rooted, unrooted with
  a trailing separator, taken from a URL, and two with a space before the trailing
  separator) and three paths;
- tokens: every text of at most four characters, some unprintable, where
  validation accepts two or three (32 to 4096 in the code);
- targets: one target with repeated, conflicting, malformed or reserved headers,
  up to three fields of custom data (a key repeated before, after and around
  another one) and every template, or up to three of both kinds with and without
  resolved events.

## Runs

| Run | Shows | Instance |
| --- | --- | --- |
| `monitor` | pairing, freshness and justification of events, and `ImplementsLifecycle` | every sequence of calls at times 1..6 in any order, interval 2, delay 1, nine identities: three complete episodes |
| `wakeups` | no lost or useless wake-up, no early alert, gauges settle, with three concurrent goroutines | two requests of two handlers (symmetric), started active: an alert and its resolution race with a second check-in |
| `notifications` | every event counted once, queued at most once; no alert lost without a refusal; `ImplementsAlarm` | every outcome of `Enqueue`, with and without receivers of resolved events, shutdown at any point |
| `liveness` | the monitor ends up alerting when check-ins stop; the loop ends after a signal; every request is answered, also after that | started active or not, two check-ins of one handler, shutdown at any point, fair, no symmetry |
| `restarts` | no process sleeps through an outage, which ends up in the queue of the process that runs | started active, one check-in, one restart and a shutdown at any point, fair |
| `status` | elapsed times of status responses fit together; all seven gauges settle | status requests at any point of one episode, started active or not, one check-in |
| `startup` | exit status, order of startup up to the loop and the server, end after a signal; routes, links, token, receivers and their fields of every accepted command line | the command lines above, every failure, a signal at any point, fair |

Interval and delay are one tick in most runs. With one tick the two deadlines
are adjacent, and a tick between any two steps of a goroutine already lets either
pass unnoticed, or both: longer intervals only add ticks in which nothing
happens. Two requests are enough for every pair of goroutines to overlap (loop
and request, request and request), and an invariant that could need a third is
proved for any number.

Five runs check what the documentation or a comment says and the code does not
do; TLC finds each violated within seconds.

| Run | Statement | What happens |
| --- | --- | --- |
| `queue_order` | README.md:16-17: an alert is queued, then its resolution | a check-in between the loop's `Check` and its `Enqueue` queues the resolution first |
| `lost_alert` | monitor.go:88: in phase alerting the notification was sent | `Enqueue` fails; the phase stays alerting and nothing is offered again |
| `early_overdue` | docs/configuration.md:34: maximum allowed time between check-ins | an older check-in recorded after a newer one moves the deadline back |
| `status_omits` | docs/api.md:165: overdue status includes elapsed fields | the clock was read before the deadline and the snapshot after it |
| `accepted_path` | docs/api.md:12: the check-in path is configurable | `--path=/healthz`, or a path with an empty segment, passes validation and the router panics |

Smaller disagreements were met on the way and need no run. docs/api.md:7
and 20 say that GET is accepted on the check-in path; `RoutesAreKept` says that it
is only with `--allow-get-checkin`, as README.md:294 and routes_test.go:34 do. metrics.go:154 calls the phase gauge one-hot; it
is written one label after the other (metrics.go:157-163), so a scrape between
two writes sees none or two active phases, and `GaugesConverge` says when they
agree again. A path, a route prefix or a public URL with a space before its trailing
separators keeps the space where it is served and loses it in the links of
notifications, because those are trimmed a second time; `LinksReachRoutes` names
this exception. docs/templates.md:71 calls the public URL `.App.PublicURL`;
the field is `SiteRoot` (builder.go). A template is tried at startup with the
check-in name "default" (receivers.go:210, 232), so one that fails only for the
configured name is found out when its first alert is sent.

### Fairness

Only the `liveness`, `restarts` and `startup` runs assume any. Weak fairness of `Tick`: time
passes. Weak fairness of the loop's steps and of each handler's steps after it
has read the clock: the Go runtime runs goroutines that can run. No request has
to arrive and no signal has to be sent. `select` gets no fairness among its
cases. It needs none for `ShutdownStopsLoop`, because each other case uses up a
token or a deadline and no behaviour of the model has infinitely many of either; under
unbounded traffic the claim rests on the uniform choice of Go's `select`.

`restarts` assumes the same of the goroutines of whichever process runs, and
nothing of restarts: none has to come. That `Enqueue` takes the alert is a
constant of that run, not a fairness assumption; with a refusal the alert may be
lost (run `lost_alert`).

In `startup` the main goroutine's own steps are weakly fair, and with them the
return of a server whose context is cancelled. No step has to fail and no signal
has to come; a server that is not cancelled may run for ever.

## Proofs

All theorems hold for every value of the constants that satisfies the named
assumptions: a positive interval, a delay of zero or more, a non-empty list of
gauges without repetition, a loop that is not a handler. No theorem assumes
anything of the bounds except that they are numbers.

`MonitorProofs` proves `[]MonitorInv`. The properties of the events are not
inductive: pairing needs to know that while alerting the last event is the open
alert and still describes the monitor (`OpenAlertInv`), freshness that no event
carries an identity still to be issued (`IssuedInv`), and both that incident
identities are held exactly while alerting (`PhaseInv`). From it follow
`MonitorTypeCorrect`, `EpisodesArePaired`, `IdentitiesAreFresh`,
`AlertsAreJustified` and, with a step simulation,
`MonitorImplementsLifecycle`.

`SchedulerProofs` proves `[]SchedulerInv` for the running program with any number
of handlers. `MonitorStep` shows that each step is a call of the monitor or
leaves it alone, so `MonitorInv` carries over, with what it says of events
(`ProgramEventsAreSound`) and, by the step simulation of the monitor, the
refinement (`SchedulerImplementsLifecycle`). `TimesInv` says that no goroutine
holds a time ahead of the clock, which gives `AlertsAreNotSpurious`. `LoopInv`
and `GaugeInv` say that, if no wake-up is pending, the deadline the loop is about
to arm is current, and so are the gauges it has written since its snapshot. The
argument for `WakeupsAreNotLost`, `TimerWakesMakeProgress` and
`GaugesAgreeAtRest` is that any step that changes the monitor behind the loop's
back makes a wake-up pending, and that it stays pending until the loop takes the
token.

`NotificationProofs` proves `[]NotificationInv`, which adds where each event is.
`HeldInv`: an event held by a goroutine or queued is one the monitor returned, and
no two of these places have the same identity; without it a second copy of an
event in another goroutine could be queued as well. `CountInv`: the counters and
the holders add up, and the holders of one status are a finite set, even if
there are infinitely many handlers, so that their number is defined. `StartInv`
says that nothing is in flight before the loop starts, where `--start-active`
calls the monitor without looking at its result. `StepKinds` reduces all
actions to three kinds of step: one that keeps all events, one in which the
monitor returns an event to a goroutine that has none, and one in which a
goroutine settles its event. `NotificationsAreAccounted` and
`SchedulerImplementsAlarm` then need one argument for each kind; the second
follows from the freshness proved in `MonitorProofs` (an alert opens an incident
no notice has named) and from `HeldInv` (settling removes one pending notice).

`AlertInv` follows an alert until it is queued. Only the loop is given alerts, so
an alert that is not in the queue is held by the loop or was settled without
being queued; alerts are always routable, so that was a refusal, and the counters
of refusals never go back. This is `AlertsAreQueued`. It makes two statements of the
documentation precise that the runs `lost_alert` and `queue_order` refute as they
stand: `AlertingIsNotified` (until notifykit refuses an alert, a loop in its
select has queued the alert of the incident the monitor is in) and
`ResolutionsHaveAlerts` (a queued resolution has its alert in the queue, before or
behind it, or about to be offered, or refused).

`RestartProofs` carries all of it over restarts. `FreshProcess` is the state
that `SchedulerInit` describes, with any clock, any identities issued and any
requests served before; the invariants above are proved of it and not only of the
first start, and `Restart` leads there from wherever the process ended
(`RestartIsFresh`). With `WatchInv`, that with `--start-active` no loop runs
before a check-in was recorded, `OutagesAreWatched` follows: an awaiting or overdue
monitor has an armed timer by `NoLostWakeup`, and an alerting one has queued its
alert. It is the safety half of `SilenceIsReported`, for any number of restarts,
processes and requests and any outcomes of `Enqueue`.

`StatusProofs` adds the reader: its time is not ahead of the clock, and a snapshot
of a monitor that satisfies `MonitorInv` has `overdueSince` equal to `expectedBy`
or zero, which gives `ReportedTimesAgree`. A reader changes nothing, so the
gauges agree beside it as they do without (`GaugesAgreeBesideReaders`).

`StartupProofs` proves `[]StartupInv` for any set of command lines. The exit
status depends on what led to it, so the invariant carries why Run returns and
that only a signal cancels the context before it does (`CancelInv`, `EndInv`);
`ProgressInv` says how far startup is at each label, and `ConfiguredInv` that the
configuration, the receivers and the router are those of the command line.
The loop relies on the manager and on the check-in of `--start-active` also
after `Run` has begun to return, so `ProgressInv` says both of a loop that exists,
wherever startup is (`ServedRequestsAreWatched`).
`TargetsAreReceivers` rests on `ReceiverOfTarget` (a target is found under its own
ID). `FieldsReachReceivers` adds what it carries: `LastFieldWins` (the value kept
for a key is that of the last field that gives it, of any number of fields),
`HeadersGivenOnce` (validation refused every target that repeats a header, so for
headers the last field is the only one) and `IdentityOnTop` with `OthersKept` (the
identity header changes no other);
`ResolvedEventsAreRouted` on the router knowing only receivers that exist.
`CommandLinesAssumption` says what tinyflags guarantees: within a group of flags
an instance has one name, and fields are numbered in the order of their flags; and
that a text is a sequence of characters, of any length.

`ConfigProofs` continues it with what the configuration makes of its texts.
Trimming and cutting go to the first or last character of some kind, which
exists by the lemmas of `Positions`. `AcceptedTokensWork` then shows that a token
without spaces at its ends and inside is what trimming the header and cutting it
leaves of it. `RoutesStayApart` shows in three steps that
a normalised path does not end with a separator (`AcceptedPath`), so every route
serves exactly its own path (`HandlersAre`); that stripping the prefix from a
request under it gives the path back (`UnderPrefix`); and that a check-in route
that shared its method and path with a fixed one would have made the router panic
before the server listens (`NoConflict`, with the last conjunct of
`ConfiguredInv`). `LinksLeadHome` follows a link through the same definitions: the
texts it is built from are clean, that is, they neither begin nor end with a space
nor end with a separator, so that the second trimming leaves them alone
(`CleanIsTrimmed`) and joining them is concatenation (`JoinIsConcat`). The prefix
is found at the end of the public URL exactly when the URL ends with it
(`SuffixOfPath`), also when it is the whole path, so it occurs once in the root
of the links (`PublicRootIs`), and what follows the public URL's own part is a
path that `UnderPrefix` serves.

Only model-checked: the liveness properties `SilenceIsNoticed`,
`ShutdownStopsLoop`, `RequestsAreAnswered`, `SilenceIsReported` and
`SignalEndsProcess` (fairness is out of the prover's reach here). Every safety
property that a passing run checks is a theorem.

## Not modelled

- Delivery, retries and the queue bound inside notifykit, and the server of
  httpkit: external, and modelled only through what the code sees of them.
- What templates print, log records, request metadata, JSON encoding and the
  system endpoints: no state depends on them.
- Flags that are only copied: timeouts, the listen address, SMTP and TLS
  settings, log format and level.
- Wildcards, dot segments and escapes in a path; queries and fragments of the
  public URL.
- Collisions of the digests that compare tokens in constant time: a digest is
  its token here.
- Whether `Enqueue` blocks when notifykit's queue is full. It is called on the
  loop's goroutine, and if it blocked no deadline would be watched meanwhile. The
  models let it return at any later step, and the fair runs assume it returns.
- A notification that is lost with its process. After a restart during an
  alerting episode the new monitor knows of no incident, so the resolved
  notification of the old one is never sent; no document promises it.
- Suspension of the host and changes of the wall clock: Go's `time.Time` values
  carry a monotonic reading throughout, so the model's clock does not go back.

## Plan

Done, in this order: `Lifecycle`, `Monitor`, `DeadlineTimer`, `Metrics`,
`Scheduler`, `StatusRequests`, `Routes`, `Startup` and their proofs; then `Text`,
`Tokens`, `Links`, `Receivers` below `Startup`, `Alarm` above `Scheduler`,
`Restarts`, and the proofs about notifications, receivers, tokens, routes, links
and restarts.

1. `SilenceIsReported` for a process without `--start-active`, where an outage
   that spans the restart goes unnoticed until the next check-in: state what the
   documents promise of it, and check that.
2. The two response forms of a check-in and the configuration of the handlers.
3. `StatusRequests` and `Restarts` together: what a reader sees across a restart.
