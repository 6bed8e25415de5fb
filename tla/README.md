# Anwesen in TLA+

Anwesen serves a markdown vault read-only over HTTP. A supervisor runs four
processes: `index_writer` owns the write path of an in-memory `NoteStore`,
`vault_scanner` walks the vault and sends the writer a complete record set,
`filesystem_watcher` turns file system events into batches of updates, and
`http_server` answers from the store. The same query engine also runs offline,
in the subcommands `query` and `merge`.

This directory holds TLA+ models of those parts, the TLC configurations that
check them on small instances, and TLAPS proofs for every size. Paths below are
relative to the repository (`src/app.rs` and so on).

## The system

| part | state it keeps | operations | talks to |
| --- | --- | --- | --- |
| supervisor, `serve` (app.rs, main.rs) | which children run, restarts in the window, `started` | start in order, restart, give up, exit code | systemd, the four children |
| `vault_scanner` (app.rs, vault.rs) | `in_flight_rescan` while it walks | walk at init and at `RescanNow` | casts `Rebuild` to the writer |
| `filesystem_watcher` (app.rs, watcher.rs) | the notify watch, the debouncer's window | map, coalesce, re-read, flush | casts `Batch` to the writer, `RescanNow` to the scanner |
| `index_writer`, `NoteStore` (app.rs, store.rs) | a mailbox; the path-ordered note map | `Rebuild`, `Batch` | the store, read by HTTP |
| query engine (query.rs) | none | parse, select, page, merge | the store |
| HTTP layer (http.rs) | none of its own | `/notes/...`, `/query`, `/health` | store, engine, health |
| one-shot subcommands (oneshot.rs) | none | load, `query_json`, `merge` | `vault::scan`, engine |
| health surface (health.rs) | flags and time stamps | setters by the three processes | `/health` |
| frontmatter (vault.rs) | none | split, parse, coerce | scanner, watcher, doctor |
| doctor (doctor.rs) | none | scan, collisions, type drift, exit code | `vault::scan` |
| request handling (http.rs, app.rs) | requests in flight | route, run each handler in a process, drain | every handler, telemetry |
| telemetry (telemetry.rs, main.rs) | resolved configuration, counters, spans | resolve, observe, shut down | the collector |
| cli (cli.rs) | options | parse | main |

What is hard: the vault changes while it is being read, by two readers (a walk
and a flush) whose results travel through one mailbox; events say that something
happened to a path and not what is there now; an overflow or a crash loses events
and messages; a name may be a note or a directory; the supervisor may restart
any child at any time; a query compares values whose types differ from note to
note; a client may leave, and a handler panic, at any point of a request; and what
is observed of requests is buffered until the process ends.

What makes each part correct: the pipeline brings the index to the vault whenever
it comes to rest; the supervisor loses no startup walk, a listener that is lost
comes back or ends the process, and a start that failed is tried again; related queries have related answers and all ways to ask
one query agree; a vault that doctor passes is served whole and sorts; what a
client is shown it can ask for; every request taken is answered, counted once and
exported. PROJECT.json lists the hazards by source line, with the
properties aimed at each.

## Modules

| module | models | how it corresponds to the code |
| --- | --- | --- |
| `Vault` | the disk and what `notify` reports of it (external) | inotify pairs renames, FSEvents reports each side and may report a removal as something else (`PairsRenames`, `RemovalKinds`) |
| `IndexPipeline` | scanner, watcher, debouncer, writer, store | one action per step between two awaits: `Receive`, `CloseWindow`, `MapEvent`, `EndMap`, `ReadNote`, `CastBatch` are `run_debouncer` and `build_index_batch`; `WalkNote` is `scan`; `EndWalk` and `CastRebuild` are the end of `run_walk`, the flag of `/health` first and the cast after it (`cleared` between them); `HandleCast` and `RecordIndexUpdate` are the writer, the store first and its date after it (`applied` between them); `...Init`, `...Crash` the supervisor's restarts; `MayCrash` switches the crashes off |
| `IndexPipelineSafety` | its properties and the inductive invariant `IInv` | |
| `VaultIndex` | abstract: an index whose entries change only to something that was true of their note | what the whole pipeline promises, whatever its machinery |
| `IndexRefinement` | `IndexPipeline`, with the history `past` of each note, as an implementation of `VaultIndex` | the store is the index; a step of the vault is `VaultChange`, `HandleCast` is `Refresh`, all others stutter |
| `MCPipeline`, `MCIndex` | small vaults for TLC | |
| `IndexPipelineProofs`, `IndexPipelineTheorems`, `IndexRefinementProofs` | proofs about the pipeline: types and the changes to the vault; the invariants; the refinement | |
| `Daemon` | start, restart, failure and exit of the process; its properties | `StartChild`, `StartFails`, `TreeUp` are `Anwesen::start`; `...Init` the children; `WatcherInitFails`, `HttpBindFails`, `HttpRegisterFails` the error paths of their inits, each before or after the count as in the code; `orphan` is the listener a failed `register` leaves behind; `Exits` the end of main's `serve` arm; the supervisor and systemd are external |
| `DaemonProofs` | proofs about the daemon | |
| `Ordering` | sorting a finite set, taking part of a sequence | `slice::sort_by`, a `BTreeMap`'s order, `filter` (external) |
| `Query` | parsing, predicates, path scope, page, merge | one operator per function of query.rs; `Nearest` is `i64 as f64` where it rounds (`AsF64`), so an integer equals the float of its neighbour |
| `HttpNotes` | paths, listings, conditional requests | one operator per function of http.rs |
| `ReadService` | the endpoints and the subcommands over one vault | `ReadPath`, `GetQuery`, `GetMerged`, `OneshotQuery`, `OneshotMerge` |
| `ReadProperties`, `MCRead` | what readers are promised; small instances | |
| `ReadProofs` | proofs about the answers | |
| `Frontmatter` | a file's lines to a note: block, YAML nodes to typed values, issues and warnings; values to JSON | one operator per function of vault.rs; `Coerce` is a recursive function on the YAML nodes, what serde_yaml makes of a block a constant; `Scan` is the walk, with directories that cannot be listed (`closed`) |
| `Doctor`, `MCNotes` | authors write a vault, doctor checks it, the daemon indexes it | `RunDoctor` is `doctor::run` and the exit code, `Index` the walk and `NoteStore::replace` |
| `Telemetry` | configuration, labels | one operator per function of telemetry.rs; `FromEnv` trims, and the SDK, whose use of the environment is external, does not (`ExportUrl`) |
| `Serving`, `MCServing` | requests from arrival to answer, and the end of the process | `Arrive`, `Respond` are `telemetry_wrap` and `process_wrap` before and after their await, `HandlerEnds`, `HandlerPanics` the process between; `Export` is the SDK's timer; `ShutdownSignal`, `Drained` are http_server's exit, `Shutdown` and `Exit` the end of main |
| `ServingProofs` | proofs about requests and configuration | |
| `DoctorProofs` | proofs about frontmatter and doctor | |
| `SequenceFacts` | what the proofs share: induction, folds, sorting, parts of sequences | |

`IndexPipeline` extends `Vault`; `ReadService` composes `Query` and `HttpNotes`
over one store; `Frontmatter` makes the values `Query` compares, and `Doctor`
extends both. `Serving` composes `Telemetry` with the answers of
`HttpNotes`. `Daemon` sees of the index only its first load; `Serving` sees of the
index that it stands still.

Operators marked as a deliberate mistake (`...Early`, `...NamedOnly` and so on)
are variants of the definition that follows them. No specification uses them;
put in its place, each makes TLC refute the property PROJECT.json pairs it with.

### The pipeline's history variables

The code does lose changes, in known ways. `exposed[n]` records that the last
change to note `n` fell into one of them: `unwatched` (no watch was bound),
`error` (notify reported an error instead), `window` (the watcher died with the
event in its window), `mailbox` (the writer died with the message), `walk` (a
`Rebuild` carried an older record over a newer one) and `batch` (a batch built
before an overflow landed after its rescan). `lost` holds the notes whose last
event an overflow swallowed and a rescan is still to recover. No guard reads
them; they let one property, `FreshAtRest`, say that there is no seventh way.
`past[n]` (in `Vault`) is what has been true of the note so far: `OnlyTheTruth`
and the refinement of `VaultIndex` are stated with it.

## Runs

| run | configuration | asks |
| --- | --- | --- |
| `nested` | a note below two directories, one beside them, two contents, two changes, unpaired renames, no fault | types, `IInv`, `FreshAtRest`; only the startup gap leaves an entry stale; the pipeline implements `VaultIndex` |
| `faults` | a directory named `x.md`; two changes, two faults, fairness | `FreshAtRest` when a fault hits the recovery from another, `HealthTells`, `EventuallyFresh` |
| `select` | every query of up to two of fifteen parameters (refused ones and an empty operator among them) over a vault with every kind of value, an integer no float equals included; every request below `/notes/` of a list | negation, union, ranges, folders, page, listings |
| `merge` | every query of up to three of five parameters over 125 vaults | top N, missing keys, kind guard, agreement of HTTP and CLI |
| `notes` | every vault of up to six files with up to twenty contents each, with and without a directory that cannot be listed, two orders of the walk | a clean vault is served whole and sorts, shown values are findable, no text is lost, drift accounts for every note |
| `serving` | eleven ways to start (padded values among them), two requests of eleven, panics, clients that leave, a shutdown at any time, fairness | nothing configured is dropped, counters are answers, routes, what was answered has been exported at the exit, every request taken is answered, a shutdown ends |
| `daemon` | restart limit 2, four faults, an address that may be taken, by somebody else or by an orphan listener, fairness | the walk reaches the store, counters, a lost listener comes back or ends the process, a failed start is retried |
| `startup`, `rescan_race`, `writer_restart`, `mixed_keys`, `crash_exit` | | each refutes a sentence of the sources, below |

Bounds. Two changes are what it takes for one event to be outrun by a change, and
with the atomic actions between them for every race of the hazards list (a window
that closes between them, a walk that passes before one and after the other). Two
faults let a crash hit the recovery from an overflow or another crash. Contents
matter only as equal or different, so two are enough; directory trees are the
smallest with nesting, siblings and a name that is both a note and a directory.
For `FreshAtRest` and the refinement the runs are evidence that the statements are
not empty; the proofs cover all bounds.
A query engine's properties are about two values at a time (ranges, equality) or
three (an ordering that is no order), hence vaults of three and four notes. The
contents of `notes` are one for each way a block can begin, end or fail, and one
for each type of value; the file names hold two that are one path over HTTP and
one that is not UTF-8. Two requests are enough in `serving` for one to be answered,
left or cut while another runs; requests do not interact but through the counters.

`CHECK_DEADLOCK FALSE`: with the bounds on changes, faults, queries and requests
used up, nothing is left to do; the daemon stops when it is stopped, and a process
that has exited does nothing.

Fairness. `FairSpec` of the pipeline assumes that tokio keeps running each task
that can run, that an open window closes (`timeout_at` in `run_debouncer`), and
that the supervisor starts a child that exited. `FairSpec` of the daemon adds
that systemd launches a failed unit again (`Restart=on-failure`). `FairSpec` of
`Serving` assumes that a handler ends or panics (handlers await nothing but the
store's lock), that the runtime polls a connection whose response is there, and
that the drained server and main go on (`Drained`, `Shutdown`, `Exit`). `Respond` is
the runtime's side and the client's: fairness on it assumes that a client reads its
answer or leaves, for `axum::serve`'s graceful shutdown waits without a limit for one
that does neither. No fairness is put on `Export`: what is exported at the exit does
not hang on a timer. No fairness is put on signals, clients,
users of the vault, faults, the bind address or `systemctl stop`.

### What the sources say and the code does not do

- `startup`: README.md:23 says the index is built once and kept current by
  watching. The walk ends before the watch is bound; a change in between is not
  seen until the note changes again.
- `rescan_race`: the rescan after an overflow, which app.rs:13 runs for recovery,
  races the debouncer. With crashes switched off, one overflow and one removal are
  enough: the batch of the removal is cast after the walk has passed the note, and the
  `Rebuild` puts the note back.
- `writer_restart`: app.rs says no rescan is needed when the writer restarts. The
  casts in its mailbox are gone.
- `mixed_keys`: `compare_values` picks its rung pair by pair, so 9 < 10 < "1a" < 9
  for two integers and a string. In the trace, with an order and a limit, the note
  that is dropped precedes one that is kept.
- `crash_exit`: a tree that fails after it came up ends the process with status
  0, and `Restart=on-failure` leaves it down, against deploy/README.md.

Met while modelling, visible in the models but without a run of its own:

- a notify error is logged and its change forgotten (`exposed = "error"`), while
  app.rs:7 says "restart on inotify error";
- integers beyond 2^53 are compared with a float as the float next to them
  (query.rs:703-713, which calls them no concern of v1): two of them equal one float and
  not each other, so the comparator is no order, and doctor reports nothing.
  `CleanKeysSort`, `TopNKept` and their like have the hypothesis `OneScale`, that no
  such integer stands beside a float;
- an endpoint with white space around it is trimmed by the daemon before it checks it
  (telemetry.rs:99) and read as it is by the SDK, to which it is no URL (`ExportUrl`,
  excepted in `NothingDropped`);
- when the name of `http_server` cannot be registered (app.rs:633), the listener it
  has just spawned and counted runs on and holds the address, and every retry fails
  until the supervisor gives up (`HttpRegisterFails`, `ListenerReturns`);
- `get_health` reads one field after another (http.rs:202-213); `HealthTells` relates
  only fields for which that makes no difference, and allows for notes that are served
  before their date;
- one file that does not parse makes `query` and `merge` fail where the daemon
  answers without it, although README.md:212 says the outputs match;
  `OfflineAgrees` states what does hold;
- `%2C` inside a value of `__in` separates needles like a plain comma, because
  values are decoded before they are split (tests/hurl/query/comma_escape.hurl);
- a note path is percent-decoded by axum and again by `resolve_path`, documented
  as once, so a note with `%` in its name cannot be read under its own name;
- no code answers the `503` README.md:208 lists: until the startup `Rebuild` is
  applied, requests see an empty store;
- `---` twice at the start of a file is not an empty block, as vault.rs:289-291
  has it ("a closing line of exactly `---`"): the search is for a newline and then the
  marker, and the newline of the opening line is spent. The block runs to the next
  rule and takes the text between with it. `NothingLost` states this as its one
  exception, for a marker on the second line and no other; for every other file the
  block ends at its first closing line;
- README.md:94 speaks of metrics for every request; a request whose client left
  before the answer is in no counter and has no span (`Disconnect`);
- with only one of the per-signal endpoints set, the other signal goes to the
  SDK's default on localhost without a word (`ExportUrl`, excepted in
  `NothingDropped`);
- the route label is read off the raw path: a listing whose slash is written `%2F`
  is counted as a note (`RouteTellsNotes` has the exception);
- JSON shows a float as `1.0`, equality compares it as `1`: asking for what was
  shown finds nothing; the closed ranges do (`ShownIsFindable`);
- an instant is shown, and compared for equality, in whole seconds, while the range
  operators compare it to the nanosecond: a note at `...00.5Z` equals `...00Z` and
  is not `__lte` of it (`RangesPartition` has the exception);
- a float that is not finite is `null` in JSON, so what is shown of it cannot be
  asked for at all (`Shown`);
- a year may have five digits: dates compare with each other by day and with
  instants by text, where `+10000-01-01` comes first, so a key that doctor passes
  may fail to sort. `CleanKeysSort` holds for years of four digits
  (`DateAssumption`), and the proof needs exactly that;
- doctor looks at top-level keys only, `__anw-order` takes dotted ones.

## Proofs

TLAPS checks, for every set of notes, directories and contents, and any bounds:

- `TypeCorrect`, `InvariantHolds`, `IndexFresh`: `TypeOK`, `IInv` and
  `FreshAtRest` of the pipeline. `FreshAtRest` speaks of the state at rest only
  and is far from inductive. `IInv` says, note by note, what is still on its way:
  an event the disk has outrun has a truthful one behind it (`ChannelTruthful`),
  the coalesced actions read or drop the note (`ActionsComplete`), the batch
  agrees with the disk (`BatchMatches`), a lost event has an overflow or a rescan
  behind it (`LossBehind`, `NoOldVerdict`), what the walk has read is right unless
  something newer is held (`WalkMatches`), and the last message about the note
  agrees with the disk (`Delivered`). Each is needed by the next one down the
  pipeline. The proof has a lemma per action and conjunct;
  `IndexPipelineTheorems` begins with the changes to the vault, where one rename
  moves a whole tree. Assumed are `ContentAssumption`, `TreeAssumption` and
  `BoundAssumption`, and the other assumptions of `Vault` on names.
- `StaleFromStartup`: without a fault only a note that changed before the watch was
  bound may be stale at rest. `CalmInv` says what a run without faults is like: one
  walk and no rescan, no overflow, no exposure but `unwatched`. That a walk cannot
  then overwrite a newer record is the last step, and it takes `IInv` to make it.
- `HealthHolds`: `/health` says a rescan is in flight while one walks and no longer
  once its `Rebuild` is cast, an index without a date is empty but between the writer's
  two steps (`HealthInv`), and at rest the watcher is shown running.
- `NothingInvented`, `PipelineImplementsIndex`: the pipeline implements
  `VaultIndex`. The invariant `OnlyTheTruth` follows what is said of a note from
  the event (which may deny a note only if it has been absent) through the
  coalesced actions, the batch, the walk and the mailbox; each holds only records
  the note has had, so the store does. It is inductive by itself given `IInv`'s
  bookkeeping, and needs no hypothesis on faults: the index may be late after a
  crash, it is never invented.
- `DaemonProofs`: types, `WalkReachesStore`, `CountersMatch`, for any restart limit. `WalkReachesStore` needs that what runs while the tree starts
  is a beginning of `Children`, and that a writer that has not crashed runs;
  `CountersMatch` needs that a child never came up more often than it was counted,
  and that each count beyond the returns has used up a fault of its own.

- `ReadProofs`, for every vault, query string and request. `AnswersFit` is the
  invariant: every answer is one the standing vault has for what was asked. That
  the parser returns a query (`ReadTypeCorrect`) is an induction over the
  parameters. Negation, union and ranges follow from what one predicate adds to a
  query; `FoldersSplit` needs from `VaultsAssumption` that no file's path is a
  directory of another's, `RangesAgree` that a value's magnitude is what its text
  parses to, or for an instant no earlier. The page and the merged document rest on `Sorted` of `SequenceFacts`: a
  finite set in a strict order is a sequence that holds every member once, in order.
  `TopNKept`, `MissingFollow` and `OfflineSame` have the hypothesis
  `OrderKeysAlike`: the values of the order key are of one rung of the comparator,
  and no integer that a float cannot hold stands beside a float (`OneScale`). It cannot be dropped, as `mixed_keys` shows; the proof gives each value a place
  among them and shows that the comparator is then a strict order.
  `ListingsAreQueries` and `ListingsLeadToNotes` follow a name from the vault through
  the listing, `url_encode`, axum and `resolve_path` back to the note, in vaults
  without a percent sign in a name (`EncodeAssumption`).
- `DoctorProofs`, for every vault, every order of the walk and nodes of any depth.
  The invariant only says that report and index are of the vault as it stands
  (`VaultStandsStill`, by the guards); the work is in the operators. `NoTextIsLost`
  finds the end of the block, with the exception above. `coerce` is an equation
  between a value and the values inside it; that it has a solution, and one only,
  is shown level by level on `Nesting` (`CoercesExists`, `CoercesAgree`, `CoerceIs`),
  and a second induction shows what every value is (`CoercedSound`): of one of the
  nine types, a date or an instant written as its magnitude is, a mapping of coerced
  values. `DoctorTypeCorrect` adds that a dotted key leads to such a value
  (`DottedValue`), `ShownFindsNote` that its text is a needle that finds it.
  `CleanVaultServed` says that the index of a scan without collisions keeps every
  file that loads. `UnreportedKeySorts` gives the values of each shape of doctor two
  ranks which `compare_values` follows: numbers by magnitude, dates and instants by
  text and then magnitude, all others by text; a NaN and a large integer beside a float
  have no rank and are excluded by `OneScale`. `DriftAccounts` sums the parts of a
  finite set (`SumOfParts`).
- `ServingProofs`: `NothingDropped` for every environment, `CountersAreAnswers` and
  `AnsweredIsExported` for any finite set of requests. The invariant `CountInv`
  keeps the bags as tallies of the answered requests; it needs that an answered
  request has no running handler (which could still change its status) and that a
  slow request has been answered. `ExportInv` says where the record of an answered request is
  (in the exporters' memory or sent) and that nobody waits for an answer any more once the
  providers are shut down, which is what makes `AnsweredIsExported` inductive.
  `RoutesTell` adds `AnswerInv`, that what a client is sent is an answer of its handler
  or the layer's 500, and what each handler may answer.

What is computed by recursion is proved about by induction over a set of numbers
(`InductionSet`, from the least element of its complement) and by giving a recursive
function its values explicitly (`FoldExists`); no model that is proved about declares a
recursive operator.

Assumed of the constants, each checked by TLC on the runs' instances:

| assumption | what justifies it |
| --- | --- |
| `OrderAssumption` | byte order tells strings and paths apart; an integer that no `f64` has rounds to one |
| `VaultsAssumption` | a vault is finite; a path has a name and is not a directory and a file at once; the magnitude of a value is what its text parses to, only that an instant may be later than its text, which leaves the fraction of a second out (`matches_scalar_eq`); as below, years have four digits |
| `ParametersAssumption`, `RequestsAssumption`, `ServingAssumption` | what the tables of TLC hold are parameters, requests and environments |
| `NameAssumption`, `DecodeAssumption`, `EncodeAssumption` | file systems do not allow empty, dotted or slashed names; an empty segment decodes to itself; `url_encode` is undone by `resolve_path`, and names with a percent sign are left out, for which it is not |
| `NodeAssumption` | a YAML document is finite, a tag stands before one node, a key has at least one name |
| `NumberAssumption` | an integer is no NaN; serde_json writes a finite float so that it reads back |
| `DateAssumption` | what parses as a date can be shown; ISO texts sort as their dates do while years have four digits; a date is not the text of an instant |
| `TrimAssumption` | trimming leaves something, and a trimmed value is set |
| `VaultAssumption` | a directory has its files below it; the walk comes to every file; the parser answers a mapping, something else or an error |
| `ContentAssumption`, `TreeAssumption`, `RenameAssumption` | directories nest; see below for the last |
| `BoundAssumption`, `LimitAssumption` | bounds are numbers |

Only model-checked: liveness (`EventuallyFresh`, `ListenerReturns`,
`RetriedUntilServing`, `TakenIsAnswered`, `ShutdownEnds`), which is out of the prover's reach, and the five
runs that refute a sentence of the sources. Every other property of a run is a theorem.

## Abstractions and limits

- Contents are versions that parse, or one that does not; a record is a version.
  Time stamps are "ever set". Symbolic links are not modelled.
- The probes of one event (`exists`, `is_dir`) are one step, as is the reading of
  one file. A note read twice in one flush (named, and under a walked directory)
  is read once.
- `RenameAssumption` leaves out FSEvents combined with a directory named like a
  note. An aborted flush ends before the restarted debouncer flushes.
- `Upsert` and `Delete` of the writer are never sent and are left out.
- In `Query` a string is a member of a finite set; what it parses to, its order,
  its list and its patterns are constants. `slice::sort_by` on a comparator that is
  no order gives any permutation (it may also panic).
- In `ReadService` the vault stands still; how a store follows a vault is the
  pipeline's matter. A note's etag is its content.
- The supervisor (hydra) is modelled from its use: one_for_one, a limit on
  restarts in a window, children started in order. A SIGTERM during the start
  is left out.
- In `Frontmatter` a text is a sequence of lines and YAML is a constant from lines
  to nodes; `Doctor` leaves out the wording of the report.
- In `Serving` the answers of `/query` and `/health` are chosen among the statuses
  they may have; `Respond` is one step from the response to the client, so a client
  does not leave between the two layers. The supervisor's own time limit on the shutdown
  of `http_server`, after which it would cut a drain that waits for a client, is not
  modelled: `TakenIsAnswered` and `ShutdownEnds` are about drains that stay within it.
  What a handler does to the store it reads is nothing.
- A rewrite between the two calls that read a note's bytes and its time stamp, an
  escaped comma, a key that contains `__`, two debouncers at once (a flush that
  outlives its watcher) and symbolic links are real and outside the models.

## Not modelled

Argument parsing (clap's), `default_resource_attrs` (two constants filtered by the
environment, once), logging, the wording of reports and errors, response
headers other than the ETag, time stamps, the exporters of the OpenTelemetry SDK
and its byte and duration instruments, hardening options and install steps of the
deployment files, tests, fixtures and documentation. Two parts would need a model
of something outside the repository rather than of its code: serde_yaml, whose
verdict on a block is a constant, and hydra, whose supervisor is modelled from its
use.

## Plan

What a further step would add, the most useful first:

1. Two debouncers at once, so that a flush that outlives its watcher races the
   next one's.
2. `OrderKeysAlike` widened to a shape of doctor, dates beside instants, with
   `DatesRanked` carried over to the read side; then a vault that doctor passes has a
   top N for every key that is not reported.
3. `/notes/` with names that contain a percent sign, and requests beside a store
   that changes: `Serving` over `IndexPipeline`.
