# mistralrs_proxy in TLA+

`mistralrs_proxy` is an authenticating reverse proxy in front of a pool of
mistral.rs engines. It routes each request to the backend with the least
pressure, lets operators drain, disable and activate backends while traffic
flows, reloads its configuration in place, registers API keys at run time and
refuses to serve what it cannot log. This directory models its server, whose
correctness depends on the order in which tasks, threads, operators and crashes
interleave, and the programs that work beside it on its files and its control
socket. Paths below are relative to the crate's `src/`.

## The system's parts

| Part | Its state | Its operations | Shared with, and what is hard |
| --- | --- | --- | --- |
| Backend slot (`backend.rs`) | mode, mode epoch, live leases, spec, change sequence; one mutex | `try_acquire`, lease drop, `activate`, `disable`, `begin_drain`, `wait_for_local_zero`, reconcile | Request tasks, control plane, reload. False zero, lost wake-up, stale drain token. |
| Registry (`backend.rs`) | slots by id, retired ones included | `get`, `snapshots`, `reconcile` | Reload writes it while `select` reads it. |
| Circuit breaker (`routing.rs`) | state, epoch, failures in a row | `try_circuit_permit`, outcome reports, body observer | Reports arrive in any order, long after the circuit has moved on. |
| Live state (`routing.rs`) | readiness, metrics, idle streak, generation | probe and scrape results, `ensure_backends`, `statuses`, `select` | Results of an endpoint that a reload has replaced. |
| Control plane (`control.rs`) | drain operations, the lifecycle lock | drain, activate, disable, reload, the drain driver | Gate, file and driver change in separate steps; crashes; the driver's stale view. |
| Durable modes (`backend_state.rs`) | modes in memory and in a file | `load`, `set_mode` | Saves that fail, half-way too. |
| Runtime configuration (`runtime.rs`) | published config, generations | `from_config`, `apply_with_modes`, `restore_modes` | Registry, modes and config change one after the other. |
| Audit log (`logging.rs`) | admission counter, event channel, pending map, buffer, health | `request_started`, events, writer thread, supervisor | Bounded queue, failing writer, shutdown. |
| Request handler (`proxy.rs`) | the request's guards | `proxy`, `forward`, `LeasedBody` | A client may go away at any await. |
| Keys (`auth.rs`, `keys.rs`, `register.rs`) | key file, published index, the writer's gate | lookup, `create_non_admin`, `load`, `save` | Cancellation of a handler whose blocking task goes on; two tasks on one temporary file. |
| Key manager (`manage.rs`) | a copy of the key file, selection, prompts | edit, save, reload; `key create` | Several processes rewrite one file; the proxy authenticates with what it last loaded. |
| Process (`main.rs`) | supervisor, servers, connections, socket | start, supervise, shut down | Order of restore, resume, serve; grace period; a writer that hangs. |
| Telemetry (`telemetry.rs`) | samples of one page; the score | parse, score | Duplicate, odd and missing samples. |
| Usage (`usage.rs`) | the scanner's state and its buffer | feed | Objects, strings and escapes anywhere, across frames; a bounded buffer. |
| Backend clients (`backend_cli.rs`, `backend_manage.rs`) | the polled operation; rows, selection, prompt | drain and wait; refresh, confirm, act | Lists and operations change under their hands: other operators, reloads, restarts. |
| Log reader (`logs.rs`, `logs/tui.rs`) | offset and partial line; records, filter, selection | poll; keys | A file that is appended to, rotated, truncated, or cut by a crash. |
| Rest (`config.rs`, `render.rs`, `lib.rs`) | none | argument definitions, tables | |

What makes them correct: a backend declared safe to stop holds no request and
gets none until it is activated again; a drain ends; a circuit opens, tries once
and decides; a request goes only to an endpoint that proved ready in its present
life, and concurrent requests spread; every admitted request leaves one whole
record; a key handed out keeps working and a revoked one does not; what a client
or a reader shows is what there is. `PROJECT.json` lists, under `hazards`, the lines at which each of these
could go wrong in a way that a test would hardly reach.

## Modules

| Module | Models | State and actions |
| --- | --- | --- |
| `DrainPromise` | abstract: what a drain promises | gate, requests in flight, certificate |
| `BackendSlot` | one `BackendSlot` and its leases | one action per method, each atomic under the mutex; `Subscribe`, `Check`, `Changed`, `DropWait` are the steps of `wait_for_local_zero` |
| `Circuit` | one breaker and the requests that report to it | one action per report; the deadline is an action |
| `DrainControl` | control plane, drain driver, mode file and telemetry of one backend | `Begin…`, `Persist…`, `OpenGate`/`CloseGate`/`EnsureDrainOperation` are the steps of a handler under the lifecycle lock; `Drive…` are the driver's, which looks at the mode (`DriveTick`) and publishes an end (`DrivePublish`) in separate steps; `Restart` is a crash at any point |
| `RuntimeReload` | reload against `select()`, probes and commands, for one backend among others | `BeginReload` … `Publish` are the steps of a reload, `SelectSnapshot` … `SelectAcquire` those of `select()` |
| `PressureRouting` | `select()` over several backends, the score, and the scrapes it rests on | `SelectSnapshot`, `SelectRank`, `SelectAcquire`, `SelectSkip` are the steps of `select()` under its mutex; `BeginMetricsScrape`, `ReadGauges`, `RecordMetrics…` those of a scrape |
| `AuditLog` | admission, channel, writer, supervisor and shutdown, and the handler's order of events | one action per access to shared state; `Shutdown`, `GraceExpires`, `ConnectionsClosed`, `Join` are the end of `run()` |
| `KeyRegistration` | `create_non_admin` with gate, blocking task, hang-up and `KeyFile::save` | handler and task are separate processes; `OpenTemp`, `WriteTemp`, `RenameTemp` are the steps of a save on files that have names |
| `KeyManager` | `key manage`, `key create`, registrations and the proxy's snapshot around one key file | one action per key pressed, per load and per save |
| `BackendConsole` | `backend manage` and `backend drain` against a control server | server commands are one step, a driver's look (`DriverNotices`) and what it publishes (`DriverPublishes`) are two; `RefreshList`, `AskConfirm`, `Confirm` and `PollOperation` are the clients' |
| `UsageSniffer` | the scanner, fed by a writer of JSON | `FeedByte` and the operators of its states are the code; the actions write a body, one byte each, and keep its meaning |
| `MetricsText` | the metrics parser, fed by a writer of samples | `Observe` and `Finish` are the code; `Meaning` is the reference |
| `LogExplorer` | `Tail` and the explorer over a log that grows and rotates | `PollCheck` and `PollRead` are a poll; one action per key |
| `RoutingProofs` | theorems about `Circuit`, `PressureRouting` and `MCRouting` | |
| `BackendSlotProofs`, `DrainControlProofs`, `RuntimeReloadProofs`, `AuditLogProofs` | theorems about the module they are named for | |
| `KeysProofs` | theorems about `KeyRegistration`, `KeyManager` and `MCKeys` | |
| `ScreensProofs` | theorems about `LogExplorer` and `BackendConsole`; lemmas about places in sequences, and induction | |
| `ReadersProofs` | theorems about `UsageSniffer`, `MetricsText` and `MCReaders` | |
| `MC…` | instances for TLC | constants, symmetry, and the runs' combinations |

`MCRouting` explores `Circuit` and `PressureRouting`, `MCKeys` the two views of
the keys, and `MCReaders` the four readers, one at a time: the state of such
parts is disjoint, so their product would show no more than their sum.

Both `BackendSlot` and `DrainControl` implement `DrainPromise`, at two levels:
there the certificate is the return of `wait_for_local_zero` in the current
epoch, here it is the driver's confirmation, which survives crashes. `DrainControl`
uses the slot's operations as atomic steps, which is what `BackendSlot` is about.
`RuntimeReload` uses whole commands as atomic steps: `FenceMatchesGate` of
`DrainControl` is the reason why that is right.

Definitions carry the names of the functions they model, in TLA+ style; the
line ranges are in `PROJECT.json` under `map`. Operators introduced with
"Mutant:" are plausible bugs, one for each property: the property fails when the
mutant replaces the definition it stands beside.

### Abstractions

* Time. An open circuit's deadline passes in an action; telemetry becomes stale in
  one, only while the engine does not answer as an idle one does.
* `DrainControl` counts scrapes from the operation's start and caps serials and
  idle streak at two. The driver only compares their minimum with two. What is
  called history in the module is not in the code: `certified`, the
  confirmations since the gate closed, the evidence of an operation.
* A certificate is the driver's own confirmation. A forced disable lets a drain
  under way report `safe_to_stop` as well, with requests in flight if there are
  any; the code's documentation says so, and `SafeToStop` is not about it.
* Activation needs readiness: in `DrainControl` that is the environment's choice,
  in `RuntimeReload` it is the live state, and telemetry's freshness is left out.
* The three URLs of a backend are one endpoint in `RuntimeReload`.
* Audit records are sets of merged events; keys are owner and name.
* `PressureRouting` has whole requests and percentages; a circuit is an
  environment that may refuse a permit, which is what `Circuit` is about. Between
  lease and arrival a request is in transit: neither an engine's gauges nor, once
  a scrape that began before its arrival and after its lease is recorded, the
  assignments since that scrape count it. `CountedUnlessInTransit` says that this
  is the only gap.
* In `KeyRegistration` a file bears the name of the task that created it, and a
  file whose text does not parse holds no keys. Writing over another task's text
  gives one's own or a text that does not parse. A limit is always configured.
* `KeyManager` saves in one step (the steps are `KeyRegistration`'s) and lets the
  selection be moved to any row.
* `UsageSniffer` uses one letter for what the scanner cannot tell apart (`"open"`
  and `"close"` are the braces, `"usage"` the five letters of the word); the cap
  of 4096 bytes is 18 letters, which a body of four levels reaches. Names and
  strings are of any length and hold any letters, with quotes and backslashes
  escaped; white space may come between any two tokens. Where a frame of the body
  ends is left out, because `feed` keeps nothing but the scanner between bytes.
  Arrays are written without counting their brackets, so that the writer can do
  more than JSON; text that is not JSON comes only between documents, without
  quotes. A count is one letter for a whole member of a usage object, in the way
  the JSON library reads it. Names are compared as they are written, which is all
  the scanner can do (see below).
* `MetricsText` uses letters for the tokens of a line and counts halves. A sum of
  counters that is too large for a double (`telemetry.rs:330`) is left out.
* `LogExplorer` writes a line in two pieces and reads whole pieces. Statistics
  other than the list of principals are left out, and so are blank lines, which
  `Tail` skips (`logs.rs:254`), and polls that fail (`logs/tui.rs:164`): an I/O
  error after a poll has noticed a truncation loses that notice.
* `BackendConsole` leaves out what a drain waits for (`DrainControl` has it): an
  operation may complete at any time.

## Runs

| Run | Instance | Shows |
| --- | --- | --- |
| `slot` | 2 waiters, 2 specs, 6 published changes | balanced books, no false zero, no lost wake-up, refinement of `DrainPromise`, an idle backend's waiter returns |
| `routing` | breaker: 4 requests, threshold 3, 5 epochs; selection: 3 requests, 2 backends, 2 scrapes, 1 disturbance | one trial, no full count on a closed circuit, late reports ignored; requests spread, none in an engine is left out of its score, states are shown as they route |
| `circuit_body` | 1 request at a time | **violated**: sequential body failures never open the circuit |
| `drain` | 2 requests, all commands, failing saves, 1 crash | 754,023 states: `SafeToStop`, `FenceMatchesGate`, `DrainIsDriven`, `OwnEvidenceIsFresh`, refinement of `DrainPromise`, `DrainEnds` |
| `drain_join` | drain, activate, disable | **violated**: a superseded operation, joined by the next drain, brings old evidence |
| `torn_save` | drain, activate, torn saves, 1 crash | **violated**: a refused activation takes effect after a crash |
| `reload` | 2 requests, 2 endpoints, 4 generations, thresholds 2 | `DispatchedWasProbed`, `LeasesKeepTheirEndpoint`, `FencedStaysClosed` |
| `audit` | 3 requests, 2 slots, 5 events each | permits, capacity, whole records; a clean exit has lost nothing |
| `audit_live` | 2 requests, 1 slot | ended requests are recorded; a dead writer or a signal ends the proxy, whatever hangs |
| `keys` | 3 clients, 3 names, limit 3, 1 restart; 1 manager, 2 issuers, 2 names | limit, unique names, durability and a whole file unless a client hung up; an enabled admin is left; revoked keys stay revoked unless a stale copy is saved |
| `key_hangup` | 2 clients | **violated**: a key handed out is lost from the file |
| `readers` | 4 levels of objects; 5 samples, 1 odd; 3 records, 2 files, 2 rotations; 2 backends, 3 changes | 1,190,486 states: usage and metrics are what was written, the explorer shows the file, prompts and verdicts are about the right backend |

The runs marked violated state what a comment or the README of the repository
says; the findings in `PROJECT.json` quote it and tell what the code does.
Some type invariants are proved and not checked by a run as well.

Some more disagreements were met that no run is about.

The driver of a drain reads the mode and publishes the end of its operation
without the lifecycle lock (`control.rs:333` and `control.rs:348`-`365`). A drain
that is begun in between joins the operation, which is still in phase `Draining`
(`control.rs:286`-`296`). The driver then publishes what it saw before, `Complete`
or `Cancelled`, and returns. After a stale `Cancelled` or `Complete` the backend
is draining and nobody drives it until a drain is asked for again; after a stale
`Complete` the client that joined prints `safe to stop` of a backend that has only
begun to drain. The crate's README says that the command "returns successfully
only after proxy in-flight work is zero". TLC reaches both states:
`op.late` of `DrainControl` marks the first, and is all that `DrainIsDriven`
excepts; the second is among those in which `reopened` of `BackendConsole` is
true, as it also is of a backend that is opened or drained again later, and which
`SafeMeansDisabled` excepts. The backend's
own certificate (`SafeToStop`) does not rest on either: what was published by a
stale look is not the driver's confirmation.

While it searches, the scanner follows no escapes (`usage.rs:128`-`140`). It takes
the object of a member whose name ends in an escaped quote and `usage`, such as
`"\"usage"`, for a usage object, and does not find `usage` when it is spelled with
`\u` escapes. The comment of `UsageSniffer` in `usage.rs` speaks of "usage objects". In
the model a usage object is one whose name is `usage` as it is written, and
`TakenForUsage` has the other case; `UsageIsTheLastObject` is about these names.

A request acquired
between `disable`'s check of the requests in flight and the closing of the gate
is still in flight when a plain disable succeeds (`control.rs:531`; the crate's
README says the command then refuses).

A refresh that leaves out the backend a
prompt names moves the selection to a neighbour, and the answer acts on that one
(`backend_manage.rs:268`).

After a hang-up the task that saves second empties
the temporary file that the first is about to rename: the key file, which "an
interrupted save cannot truncate", is then empty until the second has written
(`keys.rs:200`); TLC reaches such a state in `KeyRegistration`, and
`DurableUnlessDetached` says that there must have been a hang-up.

### Bounds

Counters that the code checks against `u64::MAX` stop at `MaxSequence`,
`MaxEpoch`, `MaxGeneration`. Six published changes let a slot be activated,
leased, drained, released and superseded, or removed and returned, around two
waiters. Five epochs are two openings, two trials and a close. Four generations
let a backend move, go, and come back while a probe of its first life is still
out. Two requests are enough for leases to be confused; three for two audit
slots to be contended; four circuit requests make one more than the threshold.
Three requests over two backends leave one that sees what two others reserved,
and two scrapes let one be begun before and recorded after a selection. Two free
places in the key file for three registrations make the last one meet the limit,
and three saves overlap after two hang-ups. A manager and two issuers are three
copies of one file of two keys. Five samples are one more than the required pair
and the optional pair; three records hold a visible and a hidden one around the
chosen one; two backends are a named and a neighbouring one.
One crash at any step, `MaxCrashes`, exercises recovery from every intermediate
state, and the theorems lift the bound. `Confirmations` is the code's 2.
`CHECK_DEADLOCK FALSE` is set where the system may come to rest: counters at
their bound, every request or registration over, the proxy stopped.

### Fairness

* `slot`: the runtime polls a woken future (`Check`, `Changed`). No request is
  obliged to end and no operator to act.
* `drain`: handlers finish, the driver ticks, the telemetry worker loops and its
  HTTP calls end by their timeout, requests end. The driver's wait for the
  lifecycle lock is strongly fair because tokio's mutex is FIFO. `DrainEnds`
  assumes, as part of the property, an engine that ends up idle and operators
  that leave the mode alone; reloads may go on for ever.
* `audit_live`: handlers run between their awaits, writer and supervisor run, the
  buffer is flushed and timers fire. No backend has to answer and no body to end,
  until the connection is aborted after the grace period; a writer may hang in a
  write for ever (`Wedge` has no fairness against it).

## Proofs

Each proof module holds an inductive invariant, that Init establishes it, that
each action keeps it (one lemma per action or group of actions) and the theorems
that follow, for every value of the constants.

* `BackendSlotProofs`. `IInv` joins the checked invariants with `FreshNumbers`:
  live serials are below the next one, epochs held by waiters are not above the
  slot's, and versions they have seen are not above the published one. Without
  the first a new lease might reuse a live serial; without the others a waiter
  could hold an epoch or a version before it is issued. Proved: types,
  `LeasesBalance`, `ZeroIsFinal`, `ParkedForAReason`, `TokenNamesADrain`,
  `RetiredNeverActive`, and that the slot implements `DrainPromise`.
* `RoutingProofs`, the circuit. The invariant joins the checked ones with two facts about
  stamps: none is in the future (`StampsFromThePast`), and a permit or body that
  is not the trial's and would still be believed is about a closed circuit
  (`CurrentReportsAreAboutClosed`). That is why late reports change nothing.
  Proved: types, `TrialHasOneOwner`, `ClosedBelowThreshold`, `OpenOnlyElapses`.
* `RoutingProofs`, the choice by pressure, for any number of backends and
  requests. `CountInv` says of a recorded observation, and of an answer that is
  not recorded yet, that load and later assignments cover all requests held
  except those that were on their way when the scrape began; of a scrape that the
  engine has not answered, that the later assignments cover those on their way.
  That is the step that carries the count over the moment the gauges are read.
  `MutexInv`, `SnapshotInv` and `RankedInv` say that one selection is under way,
  that the leases it has read are still so and that its candidates are still in
  order. The order itself takes two lemmas: fractions compared by cross products
  are ordered when their denominators are not zero, and a finite set in a strict
  total order can be listed in it (`SortExists`: an element's place is the number
  of those before it), so that the list that `Ranked` chooses exists. Proved:
  types, `CountedUnlessInTransit`, `ShownAsRouted`, `NoStampede`; and, from both
  halves, every invariant of the run for `RoutingSpec` itself (`RoutingHolds`).
  `RoutingAssumption` asks for identifiers that are numbers, natural capacities
  and a soft limit below 100, which `RuntimeConfig` refuses to exceed
  (`runtime.rs:331`).
* `DrainControlProofs`. The invariant says, for every step of every handler, how
  gate, store and file differ and what is already known: while the driver
  persists, nothing is in flight. Types are proved without hypothesis. `SafeToStop`,
  `FenceMatchesGate`, `DrainIsDriven` and the refinement are proved from
  `NoTornSave`, that no save fails after its rename; `torn_save` shows the
  hypothesis is needed. `DrivenInv` is `DrainIsDriven` for every moment but those of
  a drain's handler: the gate closes before the operation is joined, and only the
  join tells whether its driver had already looked. A second invariant, `EvidenceInv`, needs no hypothesis: as
  long as an operation is the one of the present closing, the gate is shut, a
  scrape that counts for it was begun since, and streak or serial do not exceed
  the confirmations since. Proved from it: `OwnEvidenceIsFresh`.
* `RuntimeReloadProofs`. A selection may have been decided by an earlier life of
  the backend than the one that gives the lease. `SelectionInv` says that the
  life it will find behind an open gate has been probed all the same. It is
  inductive because a life changes only while gate and fence are disabled
  (`ReloadInv`: what was checked stays true until it is published), a gate is
  opened again only by `activate`, which asks for the new life's readiness, and a
  backend that opens by itself has no selection under way (`UnregisteredInv`).
  `Coherent` and `Applied` say how registry, fences and configuration differ at
  each step of a reload, `FreshInv` and `LiveInv` that readiness is never
  inherited from another generation. Proved, for any number of requests,
  endpoints, generations and any thresholds: types, `DispatchedWasProbed`,
  `LeasesKeepTheirEndpoint`, `FencedStaysClosed`, and that a new life's
  generation is new (`NewLifeIsNew`).
* `AuditLogProofs`. The channel is large enough because its events are all
  different and each belongs to a request whose permit is out (`HeldInv`). That
  needs the channel's order (`QueueInv`: a request's start comes first, and
  nothing after its finish, which returns the permit). `MergedInv` says where
  each reported event is, `KeptInv` that no request is forgotten by a writer at
  work or after a clean end, `EndInv` what the stages of the shutdown imply.
  Proved, for any number of requests and slots: types, `PermitsBalance`,
  `FailsOnlyWithTheWriter`, `RecordsAreWhole`, `NothingLostAtExit`.
  `AuditAssumption` asks that a request's kinds of events do not exceed
  `MaxEvents`, the sizing rule behind `MAX_EVENTS_PER_REQUEST`. The log may find
  its channel full once the writer drops what it holds: permits come back then
  while old events are still queued. `FailsOnlyWithTheWriter` is about the time
  before.
* `KeysProofs`, registration. While no client has hung up on its task (`Calm`), a
  running task belongs to a working handler, what it has loaded is the file
  until it renames, and from then until the index is published the file is that
  and its key (`TaskInv`); the temporary file is its own and is not the database
  (`TempInv`). Proved: types and `DurableUnlessDetached`. Without `Calm`: every
  file, and all that a task is about to write, keeps limit and names
  (`LimitInv`), because both are checked on what was loaded. Proved:
  `LimitAndNamesHold`, hang-ups and overlapping saves included.
* `KeysProofs`, the key file. An enabled admin is in the file because it is in every copy
  that is ever saved: a manager's copy, edited or not, has one, and an issuer
  only adds a key. A revoked key stays out because an issuer's copy that nobody
  has overtaken is the file (`CopiesAreFresh`). Proved, for any number of writers:
  types, `EnabledAdminKept` and `RevokedStaysRevoked`; and, from both halves,
  every invariant of the run for `KeysSpec` itself (`KeysHold`).
* `ScreensProofs`, the manager. `PolledInv`: as long as the process that a waiter
  asked is alive, the operation it polls exists, is of its backend, and once its
  driver has found the backend disabled, published or not, the backend is disabled
  or has left that mode since; a restart changes the epoch, and the old name is
  unknown from then on. `ScreenInv`: while a prompt is
  up and every list has shown the backend it names, the selected row shows it.
  Proved, for any fleet and any number of changes: types, `SafeMeansDisabled`,
  `ConfirmedIsNamedWhileShown`. `ConsoleAssumption` asks for a finite fleet of
  numbers; the ascending list exists by the argument of `SortExists`.
* `ScreensProofs`, the explorer. `TailInv`: unless a truncation has gone
  unnoticed, what `Tail` has read is a prefix of the file it holds open, what it
  holds back is the rest of that prefix behind its last line end, and the records
  are the whole lines of the prefix; between the two steps of a poll, the records
  of a file that is given up are still on the screen. A step of the writer only
  adds behind the prefix, and a read continues it because a file cut behind a
  line end is read in two parts (`LinesBehind`: whether a line is whole does not
  depend on what comes before it). `AppInv`: both selections are rows of their
  lists, and the selected row shows the remembered request if it is visible.
  Proved, for any records, files and rotations: types, `ExplorerShowsTheFile`,
  `HighlightFollows`. `ExplorerAssumption` types the constants; records are
  positive numbers because 0 is the absent one.
* `ReadersProofs`, the scanner. `SniffInv` relates the scanner, which knows one
  number for its depth, to the stack of objects the body is in, after every byte.
  If a usage object is open, the scanner captures the outermost one, at the
  stack's depth, in or out of a string and behind a backslash or not as the body
  is, with the same length and counts, below the cap. If none is, `Pending` says
  where it may be: in a string the search is as far as the last quote and what
  follows it go; between tokens it waits for the colon or the value of a member
  called usage, or it is at a place that what may come next cannot complete, such
  as the wait for a colon behind the value `"usage"`, which a comma or a brace
  ends. An object that reaches the cap is given up in the middle of a name or a
  string, and the rest of that starts no capture. Proved, for any nesting and any
  cap above one: types and `UsageIsTheLastObject`.
* `ReadersProofs`, the parser. `TextInv` relates the parser, which keeps a value
  for each gauge and running sums, to all that the page has said: it has failed
  exactly when some gauge is told badly or twice, a counter is spoilt exactly when
  its samples make no sense together, and otherwise the series seen and their sum
  are those told. Two of its lemmas scan the label sets byte by byte. Proved, for
  any number of lines in any order and any largest exact number: `ParsedAsTold`.
* `ReadersProofs`, all four. A step of `ReadersSpec` is a step or a stutter of
  each reader, so `ReadersSpec` implies their specifications
  (`ReadersAreReaders`). Proved from that: `ReadersTypeOK`, and every invariant of
  the run (`ReadersHold`).

The parser folds over sequences. Its folds are recursive functions here, and
such a function is a CHOOSE: before anything can be said of its values it must
be shown to exist. `SetInduction` is the principle for that, stated of a set of
numbers: a set that has 0, and n + 1 with each n, has every number, because the
numbers it lacks, up to any one of them, would have a least. The set of the
lengths up to which the function exists is such a set (`LabelScan`,
`TotalSums`). From then on one byte or one sample at a time is enough, and no induction over data is left.

Two definitions were changed by their proofs. `DisplayState` and
`SupersededPhase` were CASE expressions with guards that overlap, of which TLA+
leaves open which one counts; they are IF chains now, in the order of the code's
tests. `FailsOnlyWithTheWriter` said that the log fails only once its channel is
disconnected, which three requests for one slot refute.

For the proofs about the readers, the lists of `LogExplorer` became functions of
places (`Nth`, `At`) instead of operators that take operators, the scans of
`MetricsText` recursive functions instead of folds, and the
meaning of a metric an operator of what was said of it. The braces are written
`"open"` and `"close"`. The states and steps are the same.

Only model-checked: the liveness properties (`IdleWaiterReturns`, `DrainEnds`,
`EndedIsRecorded`, `ProxyStops`), which need fairness. Every invariant and every
action property of a passing run is a theorem, and the two refinements are.

## Not modelled

* Parsing and validation of `runtime.toml`, of records and of command lines;
  formatting, drawing and scrolling; header and URI rewriting; digests.
* Token rates, and the columns of the log's statistics: they feed the display only.
* The control socket's file: it is removed and bound in separate steps, which
  matters only between two proxies on one path; both bind the public address first.
* `prune_retired`, which nothing calls.
* Power failure: a crash ends a process and keeps what the file system has,
  except for the directory sync that `save_file` of `backend_state.rs` waits for.

## Plan

Done: the slot, the breaker, the control plane, the audit log with shutdown,
registration down to the steps of a save, reload, routing by pressure, the key
manager, the clients and the readers; proofs of the safety properties of all of
them. Left, in order of importance:

1. `statuses()` in steps, in a composition of `DrainControl` and `RuntimeReload`.
2. Action properties of the control plane: which step may take a backend out of
   `Disabled`.
3. The statistics of the log's summary, against their definition.
