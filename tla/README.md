# pgsense-rs, specified

TLA+ models of pgsense-rs, the scanner that reads PostgreSQL's logical
replication stream, matches every inserted and updated value against detection
rules and alerts on what it finds. The modules are translated from the Rust
source under `src/src/`; `PROJECT.json` maps each definition to the lines it
stands for, lists the hazards the properties are about, and for every property
names a wrong variant of the code (definitions whose name starts with `Mut`)
that the property catches.

    cd tla
    tlc -workers 2 -config ScanCommand.cfg ScanCommand.tla
    tlapm DeduplicatorProofs.tla

and so for every other configuration and every other module named `...Proofs`.

## The system

| Component | State | Operations | Works with |
|---|---|---|---|
| scan command (`commands/scan.rs`) | readiness flag, active rules, Ctrl-C future | start, select! loop over exits, rule changes and Ctrl-C, final flush | supervisor, watcher, dispatcher |
| supervisor (`pipeline/supervisor/mod.rs`) | units, exit channel (one slot per database) | start, shutdown, all_terminated | units |
| database unit (`database_unit.rs`) | status, connected gauge, watch channel, monitor task, scan loop | start; wait / reconnect / shutdown in a select!; scan_loop | runner, scanner, dispatcher |
| pipeline runner (`runner.rs`) | the etl pipeline, taken out while awaited | build, start, wait, reconnect, signal_shutdown | etl crate, store |
| destination (`destination.rs`) | sender of a 256-batch channel | write_events: extract, filter, send, acknowledge | scan loop |
| rules watcher (`watcher.rs`) | channel of one message | callback: filter events, try_send | scan command |
| events, scanner, pattern | none | values to columns; columns to findings; scope and filters | rule engine |
| rule engine (`rules/`) | compiled rules, regex set | new, scan_value; scripts, built-in detectors, validators, masking | scanner |
| dispatcher (`alerts/dispatcher.rs`) | channels, dedup cache | dispatch: dedup, then every routed channel in turn; flush | scan loops, scan command |
| deduplicator (`alerts/dedup.rs`) | key -> instant of last alert | should_alert | dispatcher |
| Slack channel (`alerts/slack.rs`) | buffer, its age | send, ticker, flush, send_batch with retries | dispatcher, ticker task, Slack |
| log, stdout, jsonl, webhook, postgres channels | at most a writer or a client | send | dispatcher |
| configuration, secrets | parsed once | load, validate, resolve | everything, at start |
| validate and rules commands, server, metrics, logging | none of consequence | output, endpoints, registration | |

Concurrency is by tokio tasks: main, per database a monitor task and a scan
loop, per Slack channel a ticker, and the etl crate's workers. They share the
scanner behind an ArcSwap, the dispatcher (the dedup cache behind a mutex, the
Slack buffer behind another), statuses in atomics, and channels: replication ->
scan loop (256 batches), units -> main (one slot per database), watcher -> main
(one slot), main -> unit (a watch channel).

Hard to test, and therefore what the properties are about: futures that are
dropped by a `select!` with what they hold; acknowledgement that runs ahead of
scanning; a rebuilt pipeline re-reading what the old channel still holds; saves
racing a reload; several scan loops and a ticker sharing a batch buffer; pruning
a cache with an earlier clock reading than the lookup's. `PROJECT.json` lists
them all, at their lines.

What makes each component correct:

- **scan command, supervisor, units**: a unit's status and gauge tell the truth;
  a unit reports once, without ever blocking; the command ends when, and only
  when, every unit has; a shutdown ends every task; the last save is loaded.
- **delivery**: no acknowledged change is forgotten while the process lives, no
  gaps after a reconnect, everything is scanned in the end.
- **deduplication**: one alert per key and window, none suppressed without cause.
- **Slack**: no finding in two places, none left behind, none posted twice.
- **dispatcher**: a finding reaches exactly the channels it is routed to, a
  failing one does not stop the others and a slow one only its own scan loop;
  a name on a finding's route that no channel has was warned about.
- **events, scanner and rule engine**: what is found is what the rules define for
  that column of that row, no more and no less; the prefilter, the indexes and the
  order of the phases change nothing; a column that matched leaves the keys.
- **validators and detectors**: what a built-in detector reports is of its format,
  whole and not part of something longer; nothing that stands apart is missed.
- **configuration, validate, rules**: what validate accepts starts, and what it
  rejects never does; nothing panics on a configuration that was accepted.

## The modules

| Module | Models | Notes |
|---|---|---|
| `AlertGate` | what deduplication promises | abstract: a mute timer per key |
| `Deduplicator` | `alerts/dedup.rs` | refines AlertGate |
| `DeduplicatorProofs` | | TLAPS proofs about Deduplicator |
| `DatabaseUnit` | `database_unit.rs` monitor task, `runner.rs` | one action per step between two awaits |
| `DatabaseUnitProofs` | | TLAPS proofs about the units under the scan command |
| `ScanCommand` | `scan.rs`, `supervisor/mod.rs`, `watcher.rs` | composes the units with the command's loop (EXTENDS DatabaseUnit) |
| `LogScan` | what delivery promises | abstract: a log and a reader that takes its changes one by one |
| `Delivery` | `destination.rs`, the scan loop, rebuild and restart | one database; refines LogScan |
| `DeliveryProofs` | | TLAPS proofs about Delivery |
| `SlackChannel` | `alerts/slack.rs`, the error counter of `dispatcher.rs` | several scan loops, the ticker and the final flush |
| `SlackChannelProofs` | | TLAPS proofs about SlackChannel |
| `AlertNames` | the channels' names, in `alerts/config.rs` and in `dispatcher.rs` | used by Dispatcher and Configuration |
| `Dispatcher`, `MCDispatcher` | `alerts/dispatcher.rs`, every channel's `send`, the scan loop, the swap of the rules | composes an instance of Deduplicator |
| `DispatcherProofs` | | TLAPS proofs about Dispatcher, on an instance of DeduplicatorProofs |
| `Events` | `events.rs`, `pattern.rs`, the scan filter | pure operators |
| `RuleEngine` | `rules/engine.rs`, `rules/config.rs`, `rules/script.rs` | pure operators on Events |
| `Scanner`, `MCScanner` | `scanner.rs`, `write_events` up to the send | composes Events and RuleEngine |
| `ScannerProofs` | | TLAPS proofs about Scanner and the operators of Events and RuleEngine |
| `Detectors`, `MCDetectors` | `rules/detectors/`, `rules/validators.rs` | the algorithms; the formats they are compared with are in MCDetectors |
| `DetectorProofs` | | TLAPS proofs about Detectors, over the texts and formats of MCDetectors |
| `Configuration`, `MCConfiguration` | `config/`, `alerts/config.rs`, `pipeline/config.rs`, `commands/validate/`, `commands/rules.rs`, the start of `commands/scan.rs` | validate and then scan or rules on the same files |
| `ConfigurationProofs` | | TLAPS proofs about Configuration |

**Deduplicator.** `seen` is the HashMap, as a function on the keys present;
`ShouldAlert(k)` is a whole call under the mutex. The code reads the clock twice
in a call; the pruning's reading is any instant from the previous call to the
lookup's. `lastAlert` is a history variable, never forgotten. Dedup keys are
model values: the 64-bit hash of `dedup_key` is taken as injective on the
findings of a run, since a collision only depends on the hash function.

**DatabaseUnit and ScanCommand.** `monitor[d]` is where the task is; `handle[d]`
who owns the pipeline: the runner, the polled `wait()` future, or nobody.
`PollWait` is a step of its own because that poll is what moves the pipeline,
and because `select!` polls its branches in random order. `ShutdownFirst` and
`ShutdownDropsWait` are the two ways the shutdown branch wins. Ctrl-C is
modelled as tokio delivers it: the first poll of a `ctrl_c()` future installs
the handler for good, a signal reaches only a future that exists and was polled,
and each iteration of the loop makes a new one. The rules file is a version, and
whether it compiles; a reload is four steps (take the message, drain after the
pause, read, swap), between which anything may happen. How the etl workers end
is free, and what becomes of them once their `Pipeline` value is dropped is left
open. `PipelineRunner::shutdown` has no caller and no action.

**Delivery.** A change is its position in the log. `InScope` is the set of
changes that are inserts or updates and pass the scan filter. A batch is the set
of its changes, scanned in the order of the log. `Send` is the
enqueueing and the acknowledgement together, as there is no await between them.
`ScanNext` is an event's scan, `DispatchEnds` the end of the dispatch of its findings;
`call` says in between whether the calls of channels end by themselves or one of them
has no timeout ("untimed": an insert into PostgreSQL, a `println!` into a pipe that is not
read), in which case it may go on for ever, or panic. The source log,
the store and the pipeline's ends are external: the pipeline hands over
consecutive batches, waits for the acknowledgement, may then record progress,
and a rebuilt one starts after the recorded progress; that is how the code
here uses the etl crate with its PostgreSQL store. With the in-memory store the
point of resumption is decided inside etl and is not modelled. `scanned` and
`lost` are history variables. `LogScan` is the same delivery with nothing in between:
a reader that is up takes the first change that is neither scanned nor given up; when
it goes down, what is left of the log up to a position may be given up, and until it
is up again the log may be taken back to a position. Delivery refines it (`LogSpec`)
with the scan loop as the reader and `lost` as what was given up: batches, channel,
acknowledgements and a rebuild of the pipeline are not to be seen in it.

**SlackChannel.** `send` is two steps, as the mutex is released between filling
and draining. Time is the timer's three values; backing off is not a state, as
the batch stays with its caller. A request without an answer before the timeout
may have been served or not. The batch being posted belongs to its caller, so
several are in flight at once.

**Dispatcher.** A finding is its dedup key, an event a function from the version of
the rules it is scanned with to the keys of what they find. `loop[l]` is a scan loop: the rules
it loaded for its batch, what is left of batch and event, and the channel whose
answer it waits for. `Dispatch` is `dispatch` up to its first await, `Send` a
channel's answer and the step to the next one on the route, so that everything
else can happen during a call. Spec has the steps; FairSpec, with the fairness
below, is for liveness. The channels are what their `send` can come to; stdout's may
panic, which ends the loop (`Panic`), and may block, with the thread it runs on, as
nothing bounds a `println!`; Slack's inside is SlackChannel. `warned` is what
`validate_channel_routing` has warned of, when the command started and at each reload.
`answers`, `alertedAt`, `failed` and `missed` are history variables: the calls for a
loop's last finding, the instant of its last alert, the keys whose last alert no channel
accepted, and the names on routes for which an alert called nobody.

**Events, RuleEngine, Scanner.** A text is a sequence of tokens, the words a rule
can tell apart; that a regex searches from the left is the order of the tokens.
What a single regex, detector or script finds is a parameter of the rule, as are
what its validator passes and what its script raises on; everything around that is
modelled: compilation with the index lists, the `RegexSet` prefilter, the three
phases, global and own allowlists, script errors, scopes, the ignored columns of
partial updates, keys. A glob is the set of names it matches. Scanner is one
change at a time, as its steps share nothing with other changes. What a filter or
a `retain` keeps of a list is `Selected`, what a `filter_map` over its indexes keeps
`Indexes`: both are concatenations of sequences of at most one element, since what
`SelectSeq` and sorted sets are is opaque to the prover.

**Detectors.** Texts are sequences of bytes. Backward and forward scans, the
places where scanning resumes, Luhn, mod 97, SSN ranges, e-mail labels and the
IBAN registry are the code's; the phone number library is the parameter
PhoneIsValid. Lengths are constants, so that small texts reach both sides of
them. The loop over a text is `Walk`, a recursive function of the place that a scan
has come to, with what is reported there and the place where it resumes; the loops
inside it that count digits (`CardRun`, `IbanCandidate`, `DialRun`) end at the first
place where they cannot go on. The bytes kept of a text (`Kept`), sums over its places
(`Total`), the number its digits spell and an IBAN's remainder are recursive functions
too, one step a byte as in the code. MCDetectors walks through all texts within a few edits of a seed and states
the formats independently, over the set of all spans. The lengths of IBANs are those of
the SWIFT registry (`Swift`), written down from it and not from the code's table; the 25
countries in which the two differ are listed by name (`Disputed`), and the properties
that hold except them for IBANs (`InDispute`), while `IbanLengths.cfg` shows what they miss.

**Configuration.** One behaviour is `validate`, then `scan` up to its select!
loop or a `rules` subcommand, on one input: a file, environment variables,
arguments, and the world the commands look into (readable files, rules files,
the paths that open for appending, what can be reached and used, the publications).
Each error check of `validate()` is an operator that yields a set of issues. The start of
scan has every step of `run` that can return an error: `LoadConfig`, `SetupLogging` (the log
file, and the OTLP exporter of a build with it), `BuildScanner`, `MakeChannel` for the
channels of `Makings` in from_config's order, `StartUnit` for the units, and `WatchRules`,
which fails when the units already run. That the etl pipeline does not start without its
publication is external, and taken from `docs/src/troubleshooting.md`.

## The runs

| Run | Question | Bounds, and why they are enough |
|---|---|---|
| `dedup` | Does the pruned cache decide like a mute timer per key? | 3 keys, threshold 1, window 2, 6 ticks: the map outgrows the threshold with live and with expired entries; a key expires and alerts again three times |
| `scan_command` | Do command and units always end together, and is the last save loaded? | 2 units: reports and exits in every order, one failing while the other runs; 1 Ctrl-C; 2 saves: one before and one during a reload, or both piled up |
| `delivery` | Is delivery a reader of the log that forgets or skips a change nowhere but at a stop or behind a dead scan loop? | 6 changes, 5 in scope, batches of 2, a channel of 1: the channel fills, writing waits, the loop lags; one failure with rebuild, one stop with restart, one panic, and calls that end or hang, in every order |
| `slack` | Do concurrent senders, ticker and final flush lose or repeat a finding? | 2 scan loops, batch size 2, 1 retry, 4 findings: both loops find the buffer full, the ticker drains first, batches overtake each other |
| `dispatcher` | Does every alert reach exactly its channels while loops and reloads interleave? | 2 loops, 2 keys, 2 batches, window 1, 1 reload; stdout, jsonl, webhook, slack and postgres, two of them of one name: both loops call a channel for one key, a route is replaced during a call, a route reaches nobody, stdout panics or stalls |
| `scanner` | Is a change scanned for exactly what its rules define? | 3 rule sets of 3 rules, 3 filters, inserts, updates and deletes of a row of 3 columns with every combination of 4 cells, partial updates: every kind of rule at different indexes, matches in key and other columns |
| `detectors` | Do the detectors agree with the formats? | every card text of up to 7 bytes over its alphabet (cards of 3 and 4 digits); every text within the listed number of edits of valid and invalid seeds of the other formats, IBANs of countries with and without a dispute among them |
| `configuration` | Do validate, scan and rules agree? | 2 databases and a channel of each kind with every pair of faults, so that one fault can hide another |
| `scan_drops_pipeline`, `scan_loses_interrupt`, `regex_first_match`, `validate_names` | Does the code do what its documentation says? | the smallest instance that shows it does not; each is a finding in `PROJECT.json` |

Further counterexamples can be replayed, though they are not among the listed
runs: `ScanAllFailed.cfg` and `ScanMissesRename.cfg` with ScanCommand,
`DeliveryStops.cfg` and `DeliveryPanics.cfg` with Delivery, `SlackUncounted.cfg`
and `SlackBatchSize.cfg` with SlackChannel, `HotReload.cfg` with MCDispatcher,
`IbanLengths.cfg` with MCDetectors, `ValidatePublication.cfg` with
MCConfiguration. Each violates its property, which a finding quotes the
documentation for.

`CHECK_DEADLOCK FALSE` stands in every run but `dedup`'s: the program ends
(`main = "exited"`, the final flush, stage "done" of a scan or a command), and in
Delivery, Dispatcher and Detectors the bounded log, batches or edits end. `dedup`
stops nowhere, as `should_alert` can always be called.

What the passing runs show, beyond the type invariants:

- Two alerts for a key are a window apart, no key inside its window is forgotten
  by pruning, no finding is suppressed without a live alert, and the cache
  exceeds the threshold by more than one only with live entries.
- A polled `wait()` always finds its pipeline; the gauge, the status and the
  reports agree with the task; the exit channel never blocks; the command leaves
  its loop exactly when no unit can act; a shutdown ends a unit even if its
  pipeline hangs or fails for ever; the last reported save is the one loaded.
- An acknowledged change is scanned or held until a stop or a dead loop; delivery
  refines a reader of the log that takes its changes one by one, so changes are
  first scanned in log order; as long as no insert and no `println!` hangs for ever, a
  full channel or a rebuild delays, but never prevents, scanning.
- A finding is in one place; the buffer has a timer exactly while it is not
  empty; a message exceeds `batch_size` by less than one finding per scan loop;
  nothing is posted twice; everything buffered is settled.
- An alert calls each channel of its route once and in order, the route being that
  of the rules that found it; when a name on the route stands for no channel, the log
  has said so under those rules before they were in use; two loops call channels for
  one key at a time only if their alerts are a window apart; only an insert of its own
  into PostgreSQL or somebody's `println!` can keep a loop from its queue.
- What is found in a row is what the rules define, column by column, for every
  order of the rules and kind of change; keys stay with their names in partial
  rows, and those in which anything was found are in no finding of the event.
- Detectors report nothing false, no part of a longer word and, but for e-mail
  addresses and IBANs, no byte twice; and nothing that stands apart is missed,
  whatever stands before it, but for IBANs of the disputed countries.
- An accepted configuration starts, unless it lacks one of the things that validate
  does not look at (`Unchecked`: the log file, the OTLP endpoint, whether there is a rules
  file and it can be watched, the size of the rules together, header names and values,
  Slack tokens that HTTP cannot carry, and whether databases, publications and alert store
  can be used); nothing accepted panics; nothing rejected starts.

## Fairness

Only what the runtime and the timeouts give. Main's steps and the watcher's
callback are weakly fair: tokio polls a ready task again. A monitor task is
weakly fair, including that an attempt to reconnect ends. The shutdown branch of
its `select!` is strongly fair: the branches are polled in random order, so a
branch that is ready in infinitely many iterations is taken; without it a
pipeline that fails and reconnects for ever could starve the shutdown. Nothing
is assumed of the pipelines' workers: `ShutdownEndsTask` holds though they hang.
In Delivery, a pipeline that is up offers what is committed (external), the scan
loop and the sender run on, a rebuild ends, and a dispatch ends when its calls are timed;
commits, failures, stops and recording of progress are not fair, and neither is the end of
an untimed call: `CommittedIsScanned` and `HeldIsScanned` say what follows if such calls
end (`CallsEnd`). In SlackChannel, tasks run on, time passes
and a request ends by the client's timeout. In Dispatcher, a loop's steps are
weakly fair, except while its insert into PostgreSQL or anybody's `println!` is under way:
neither has a timeout, and the latter blocks a thread of the runtime with the tasks that
are queued on it. `OnlyUntimedCallsHoldUp` is conditioned on both. Batches, reloads and the
passing of time are not fair. ScanCommand and SlackChannel have no stdout channel: their
tasks are taken to be polled, which a stalled `println!` could prevent. Scanner,
Detectors and Configuration are straight-line code and have no fairness: they are
checked for what they end in.

## The proofs

`DeduplicatorProofs` proves, for every set of keys, window, threshold and time:

- `CacheIsFaithful` (and its part `CacheIsTyped`): the inductive invariant
  `CacheInv`, which is TypeOK, EntriesAreLastAlerts and LiveKeysRemembered.
  TypeOK alone is not enough for any of the others: that two alerts are a window
  apart needs the cache to hold the instant of a key's last alert
  (EntriesAreLastAlerts) and to hold every key still inside its window
  (LiveKeysRemembered); the latter survives pruning because the pruning's clock reading is not after the lookup's.
- `NoRepeatInsideWindow`, `SuppressionIsJustified`, `CacheBoundedByLiveKeys`
  and `ZeroWindowDisablesDedup` from it, by lemmas on Pruned.
- `ImplementsAlertGate`: the refinement of AlertGate, by `PruningIsInvisible`:
  an entry that pruning removes had no time left.

`DatabaseUnitProofs` proves about ScanCommand, so under every interleaving of the
units with the command, the pipelines and the operator, and for every set of
databases, number of edits and number of interrupts:

- `UnitsAreConsistent`: the inductive invariant `UnitInv`. The place of a monitor
  task determines what it holds (the runner, the `wait()` future or nothing), its
  published status, its gauge and the outcome it will report. The properties
  alone are not inductive: that the gauge is down in state "exiting", say,
  follows only from what the task did in the states before it. `StepKinds`
  sums up what a step of the command can do to a unit, so that the other proofs
  go by kind of step and not by all actions of the command.
- `WaitFindsPipeline`, `GaugeIsTrue` and `TerminationIsStable` from it:
  SelectHoldsPipeline, ConnectedMeansHeld, FinalStatusIsFinal.
- `ReportsAgree`: ReportsAreTrue is inductive together with UnitInv, since the
  queue holds at most one report per unit and only units that returned have one.
- `ReportsNeverWait`: ExitNeverBlocks. Units with a report in the queue are
  distinct, and the one about to report is not among them, so the queue is
  shorter than the number of databases, its capacity (`RoomForReport`, by
  cardinalities).
- `CommandOutlivesUnits`: LeavesNoUnitBehind, the command leaves its loop only when
  no unit can act any more, by `EndFacts`: once all reported, none comes back.
- `TypesHold`: TypeOK of ScanCommand, from UnitInv for the units and an
  inductive `CommandTypes` for the command's own variables.

`DeliveryProofs` proves about Delivery, for every log, scope, batch size, capacity
and number of failures and stops:

- `DeliveryInvHolds` and its part `DeliveryTypes`: the inductive invariant
  `DeliveryInv`. AckedIsHeld needs to know what a call of write_events in progress
  holds (`CallInProgress`: exactly what was offered and not acknowledged), that the
  positions in the log are ordered (`Positions`), and that a dead loop holds nothing
  (`DeadHoldsNothing`), so that what it loses is counted as lost.
- `AckedIsNeverForgotten` from it: AckedIsHeld.
- `ScansHaveNoGaps`: NoGaps. The queue may hold a change twice after a rebuild, and
  what was lost before a restart is never scanned, so "in order" is not a property
  of the queue alone. `InOrder` says of each batch that all that precedes its
  changes is scanned, stands in front of it, or is gone for good (`Gone`, which
  `LostIsOver` ties to the stored progress).
- `ImplementsLogScan`: the refinement of LogScan (LogSpec). A step that scans is one
  of the reader because of `InOrder`; a stop, a panic or a send to a dead loop is a
  Miss, as what a dead or stopped loop loses reaches up to a position; a restart or a
  reconnect under a dead loop takes the log back, and never past a scanned change,
  because what a new pipeline offers again has nothing scanned behind it (`InOrder`). That what is lost
  is not scanned and what is held is committed are parts of the invariant of their
  own (`LostIsUnscanned`, `HeldIsCommitted`).
- `ReadersLeaveNoGaps`: NoGaps again, from LogScan alone: whatever refines a reader of
  the log leaves no gaps.

`SlackChannelProofs` proves about SlackChannel, for every set of scan loops, batch
size, number of retries and of findings:

- `SlackInvHolds` and `SlackTypes`. OnePlaceEach counts places, which no step
  argument can use; `OnePlace` says the same by exclusion, and is inductive with
  `HoldsWhilePosting` (only a caller that holds nothing drains) and
  `ShownHaveEntered` (a new finding was never shown). `ErrorsAreDrops` bounds the
  error counter for the types.
- `FindingsAreInOnePlace`, `TimerIsOfTheBuffer`, `MessagesAreBounded`,
  `NothingIsPostedTwice` from it. The bound of a message counts the senders that
  have filled the buffer and not yet drained it.

`DispatcherProofs` proves about Dispatcher, for every set of loops, alert
configuration, history of rules, batches, keys, window and threshold:

- `DispatcherInvHolds` and `DispatcherTypes`: the deduplicator's own invariant,
  taken from an instance of DeduplicatorProofs whose definitions the `Same...`
  lemmas show to be those of the dispatcher's instance; that versions in use are
  checked and warned of (`UsedAreChecked`, `CheckedWereWarned`); and that a loop calling a channel has called
  those before it on the route, in order, for a key that alerted (`CallsInOrder`).
- `MissedNamesWereWarned`, `AlertsDoNotOverlap` and, as an action property,
  `EveryRoutedChannelIsCalled` (FanOutIsComplete) from it. For the first, a name that
  dispatch called nobody for is none of the channels' names, because the calls made are
  exactly those of the route, and so among the warnings of the version the loop holds.
  AlertsDoNotOverlap is where the deduplicator's guarantee meets the interleaving: the
  instants at which two loops alerted for a key are a window apart, which no call in
  progress changes.

`ConfigurationProofs` proves about Configuration, for every set of inputs, that is
for any number of databases, channels and rules with any faults:

- `ConfigurationInvHolds`: `ReportInv`, validate's report has an error other than
  connectivity exactly when the configuration does not load or a rule does not
  compile (`Faulty`), with what each earlier stage has established so far; and
  `StartInv`, what making channels and starting units can come to.
- `AcceptedConfigurationsStart` and `RejectedConfigurationsNeverStart` from it: two
  programs, validate and scan, that read the same files with different code agree.
  They rest on `EngineVerdicts` (the first rule that does not compile decides, as
  for validate), `CompiledFacts` (both read the same rules files) and
  `LoadedIsExposable` (no secret of any database or channel is left unresolved, so
  that none panics when it is exposed). AcceptedConfigurationsStart covers every step of
  the start, from logging to the watch of the rules file.

`ScannerProofs` proves about Scanner, for every sequence of rules that compile,
filter, table, full or partial row and text:

- `ScanValueFacts`: what the engine finds in a text is what each rule is documented
  to find (`Detects`). By lemmas on `Selected` and `Indexes`, proved by induction on
  the length of a sequence (`SetInduction`): the prefilter's positions lead back to
  the rules they came from, and a rule it leaves out has nothing to find.
- `UpdatePairs`: in a partial row the cell at the place of a column among those
  present (`Place`, by cardinality) is that column's own; `InsertPairs` likewise.
- `ScanInvHolds`: the inductive invariant `ScanInv`: the event of each stage is what
  extraction and the filter make of the change (`EventsInv`), and the findings so
  far are those of the columns before the next one (`ProgressInv`).
- `FindingsExact`, `KeysStripped`, `KeysAligned` from it: FindingsAreExact,
  KeysAreStripped and KeysAreAligned.

`DetectorProofs` proves about Detectors and MCDetectors, for every text, every limit
and every phone library (the seeds and edits of MCDetectors only say that a text is a
sequence of bytes, `TextInv`):

- `DetectorsReportWholeWords`: ReportsStandAlone, for all five detectors. What `Walk`
  reports is what some place on its way reports (`WalkFacts`, by induction on the
  place from the end of the text), and it resumes behind what was reported, so
  that two reports do not meet (`WalksApart`); where a counting loop stops is a
  least element with known bytes before it.
- `DetectorsReportTheirFormats`: ReportsAreGenuine, for all five detectors. Each
  validator is shown to compute its format's definition, by inductions over the places
  of a text: `luhn` adds up the reversed digits with a table for the doubled ones, the
  format goes from the first digit and adds the digits of the doubled ones
  (`LuhnIsExact`, by `TotalReversed`); the code reduces an IBAN's remainder at each
  byte from the first, the format adds up values and weights from the last, and
  (rest[n - k] * w[k] + sum[k]) % 97 = rest[n] holds for every k (`RemaindersAgree`); the area, group and serial of an SSN are read digit by digit and
  forbidden by their bytes (`SsnValidator`); a telephone number is a prefix and a count
  of digits in the text, and its digits are those of the number that is validated
  (`PhoneFormat`, `KeptFirst`); the e-mail validator splits at dots, checks label by
  label and takes the last, the format speaks of places (`EmailValidatorIsExact`).
- `DetectorsMissNothing`: NoneIsMissed, for all five detectors. A walk comes to a
  place or jumps over it from an earlier one (`VisitedOrPassed`). Nothing that starts
  before something that stands apart ends inside it (`NoCardIsMissed`,
  `NoPhoneIsMissed`), and from its first byte each inner loop ends right at its last
  one, because what follows may not go on and the limit on the digits is not reached
  earlier, and, for IBANs, because the code's length is the registry's outside the disputed
  countries (`LengthsAgree`) (`CardLoopEnds`, `DialEnds`, `IbanLoopEnds`). For e-mail addresses the two
  scans out from the @ and the trimming arrive at the two ends (`NoEmailIsMissed`).

The only assumptions are the modules' named ones on their constants: finite sets
and ranges of numbers (`DedupAssumption`, `UnitAssumption`, `ScanAssumption`,
`DeliveryAssumption`, `SlackAssumption`), the shape of what serde and the etl crate
hand over (`DispatcherAssumption`, `ConfigurationAssumption`; in `ScannerAssumption`,
that a row has a cell for each column it does not miss and an inserted one misses
none), positive lengths (`DetectorsAssumption`) and that texts are sequences of bytes
(`SeedsAssumption`). TLC evaluates each of them on the instances of the runs, and checked each
inductive invariant on them before it was proved.

Only model-checked:

- the liveness properties of every module, and ShutdownEndsTask among them: fairness
  and ENABLED are out of the proof system's reach;
- EachRegexMatchIsChecked and the other properties that the code violates: they are
  findings.

## Findings

`PROJECT.json` has them with the quoted lines; in each case the model follows the
code. A run of the list shows these:

- a shutdown drops a pipeline whose `wait()` is polled instead of signalling it;
- a Ctrl-C during a reload is lost;
- a regex's leftmost match that is rejected hides later valid ones;
- validate compares routes with other channel names than the dispatcher does;
- the table of IBAN lengths differs from the registry it is said to be from;
- after a reload the next event may still be scanned with the old rules, as the scanner is
  loaded once per batch;
- validate --connect does not look at the publication;
- a Slack message may exceed `batch_size`.

These are shown by the further configurations named above:

- the command succeeds when every pipeline failed;
- a rename over the rules file is not a change;
- acknowledged changes that wait for the scan loop are lost at a stop, though
  progress past them is recorded;
- a panic of the stdout channel ends the scan loop while replication goes on;
- findings dropped after the last retry are hardly ever counted.

And these follow from the definitions:

- an alert that no channel accepted counts as passed and mutes its key
  (PassedReachedAChannel of Dispatcher);
- a rule without the field of its type panics instead of being refused (why
  AcceptedStarts is about accepted configurations only);
- what validate does not look at (`Unchecked` of Configuration);
- the cache has no bound when all its entries are live (OverflowIsAllLive).

## Not modelled, and the plan

Not modelled, because nothing a property could tell apart depends on it: the text of
messages and payloads, command-line output, SQL of the source bootstrap (run once,
its decisions are PostgreSQL's), HTTP endpoints (they read a flag that ScanCommand
has), registration of metrics and log subscribers. External, and therefore
parameters or free choices: the etl crate's workers and its in-memory store's point
of resumption, the phone number library, the regex engine's and the script
sandbox's inside. Left out though it is this code: masking of samples (a function of
a string's length), and the pipeline id (FNV-1a modulo 2^64 of the database id, so
two databases share one only by a collision of the hash).

What is left open: the etl crate's in-memory store, once what a pipeline resumes from is
to be seen; and the masking of samples.
