# RepoScout: a verification development

RepoScout (`src/`) is a repository analyser: a Rust command line program that
walks a source tree, measures it and renders reports, with a long-running daemon
(`reposcout daemon`) that keeps a report fresh and serves it to a web dashboard.
What is hard to test in it lies in three places: where things happen at the same
time (the daemon, the dashboard that follows it, the helper threads around Git),
in the files that several processes share and a crash can leave behind, and in
sequential algorithms whose loops keep an invariant under limits that cut them
off anywhere.

This directory holds TLA+ modules of those parts, the TLC configurations that
check them on small instances, and theorems about them that TLAPS checks for
every value of the constants.

## The system's parts

| Part | State it keeps | Operations | What is hard |
|---|---|---|---|
| Scan service (`src/daemon.rs`: `serve`, `make_watcher`, `scan_loop`, `scan_once`, `rescan`; `daemon/git_watch.rs`) | the snapshot (status, revision, report), the one-slot trigger channel, the shutdown watch, the cooldown stamp | start-up, notice, receive, debounce, drain, scan, publish, fail, rescan, shutdown | edits between any two steps, a queue at its limit, aborts at awaits |
| Graph endpoint (`repository_graph`) | one cached graph with its revision, behind an async mutex | capture, wait, answer from the cache or build | the snapshot moves on while a request waits; the client leaves during the build |
| Event stream (`events`, `event_stream`), dashboard hook (`use-daemon.ts`) | the broadcast channel, 32 permits; the snapshot shown, the request generation, the connection | subscribe, send, end when lagged; refresh on open and on every event, rescan, unmount | lost events, responses out of order, restarts |
| Graph hook (`use-repository-graph.ts`) | graph, error, loading | an effect per revision, abort, retry | what an aborted request still does |
| Access control and token (`daemon.rs`) | the token file | check, write | a crash between remove and rename |
| Analysis cache (`cache.rs`), atomic writes (`fs_budget.rs`) | one file per profile, a temporary file | open, get, enrich, put, save, prune, clear | processes that save the same file, crashes |
| Git history (`git.rs`, `git/`) | a child process, helper threads, cached commit events and views | stream, time out, reuse | deadlines, early exits, stale views |
| Self-update (`update.rs`) | the executable and its receipt | stage, replace, persist, roll back | a crash between two files |
| Debug log (`debug_log.rs`) | one file, a buffer, the last activity | log, beat, panic, end | panics that do not wait, failing writes |
| Scan pipeline (`walk.rs`, `scan.rs`, `scan/`) | counters of one scan | walk, analyse in parallel, later stages | limits and a deadline at any point |
| Graph algorithms (`graph.rs`, `graph/`), context plans and work scope (`context.rs`, `context/`, `work_scope.rs`), queries and reviews (`query/`, `review.rs`), snapshots (`snapshot.rs`, `findings.rs`), duplicates (`dup/`) | none between runs | loops over their input | limits, overlaps, boundaries, omissions that have to be told |
| Metrics, parsers, renderers, configuration layers, command line | none | functions of one file or one report | no state |

The parts interact as follows. The watcher's thread and the rescan handler send
into the trigger channel; the scan loop receives, scans on a blocking thread,
publishes into the snapshot under its lock and broadcasts an event after the
lock is released. HTTP handlers read the snapshot; the graph endpoint captures a
revision from it and builds under a second lock. The dashboard fetches the
snapshot whenever the stream opens or an event arrives, and asks for the graph
of the revision it shows. A scan walks, analyses through the analysis cache,
reads history through the Git stream and the churn cache, and runs duplicate
detection; plans, reviews and queries start from a finished scan or from
snapshots. Caches and the debug log are files that a scan writes, which the
watcher may see.

For each part the properties that make it correct:

- scan service: no edit and no accepted rescan is lost; a failed scan keeps the
  last report; revisions and events tell one story; no scan causes the next one;
  the daemon comes to rest and ends when told to;
- graph endpoint: an answer is the graph of the revision it names; the lock is
  never left behind;
- stream and dashboard: the screen never goes back and does not stay stale in
  silence; nothing of an aborted graph request is shown;
- caches, executable, token, log: a cached result is only served for the content
  it was computed from; a crash leaves the old state, the new one, or something
  that is recognised as neither;
- everything under limits: what is left out is counted once or marked, and what
  is reported is what a definition without the loop says it should be.

## Modules

A module that ends in `_proofs` holds theorems; one that begins with `MC` gives
instances for TLC. Operators named after another one with a suffix
(`QueueRescanUnlessScanning`, `AcceptAny`, `CollectUncounted`) are the same step
with a plausible mistake; they stand beside the step they vary and no
specification uses them. Putting one in its place makes TLC find a violation of
the property it is meant to break.

### The daemon and its clients

`LiveReport` is the abstract specification: what the daemon promises its
clients. Its variables are the snapshot's revision, status and report, the event
that is recorded but not broadcast (`owed`), and the sequence of events that
were broadcast (`log`). Four actions: a scan begins, completes, fails, and its
event is announced.

`DaemonScan` is the scan service in detail and refines `LiveReport` variable by
variable. `serve` goes through its start-up in program order (watcher, spawned
loop, initial trigger, bind, server), each fallible step with its failure. An
input of a scan is a model value with a version that an edit increments; a
report is the version that was read of every input; `Place` says where an input
lies as the watcher's filters see it. Notices go through a kernel queue that
may overflow, then through `event_requires_rescan` or `requires_rescan`, then
into the trigger channel with `try_send`. The loop's program counter has one
value per await: idle, debounce, begin, loading (the configuration), reading,
publish or failed. Reads happen one input at a time while the disk changes.
`owed` is not empty between the release of the snapshot lock and `emit`; the
loop takes no other step meanwhile, because there is no await in between.
`lost`, `asked` and `log` are history.

`DaemonGraph` composes the graph endpoint with `LiveReport`: requests capture
revision and inputs under the snapshot's lock, wait for the cache's lock, answer
from the cache or build on a blocking thread. A disconnect drops the handler at
its await, and with it the lock; the blocking thread goes on. `published`
records the report of every revision.

`Dashboard` composes `LiveReport` with one browser: the permits, the cursor of
the broadcast receiver, the events on the wire, and `useDaemon` with its request
generation and every fetch that may still resolve. The daemon may restart (the
epoch is what the model knows and the browser does not), connections may be cut,
other clients come and go.

`GraphView` is `useRepositoryGraph` against a daemon that publishes and
restarts. A request goes from sent to headers received (ok or refused) to
settled; an abort removes it unless a refusal's body was being read, since
`.catch(() => null)` turns that rejection into an ordinary error.

### What lies on disk

`WholeFile` is the abstract promise of an atomic write: readers find a path
absent or with the whole of one content that some writer is handing over.
`AtomicFile` is `write_atomic_bytes` system call by system call, by several
processes on one path, each of which may fail or be the last, with the
temporary file that bears the pid; it implements `WholeFile`.

`AnalysisCache` is `cache.rs` on top of `AtomicFile`: processes load one
profile's file, serve or compute the report and the lazy facts of every file,
and save, while sources are edited and `cache clear` runs. A version of a source
stands for its content and its hash.

`ChurnHistory` is `collect_impl` over cached commit events and cached views,
while the branch moves and the shallow and graft metadata change. The reference
definition `Expected` follows every path back through the renames.

`Updater` is `reposcout update`: one action per step between which a process can
crash, a second update can run or a release can appear. `DaemonToken` is the
token file of daemons that are given one port. `DebugLog` is the log with its
session, heartbeat thread, panics that write past the lock, and writes that fail
midway; a record is a head and a tail.

### A scan and what is made of it

`ScanRun` is one scan under its limits: the walk of the target, the walk of the
root for impact analysis, the parallel analysis and the later stages, while
files change and the deadline may pass anywhere. `GitStream` is the stream of
commit deltas: child, bounded pipes, writer thread, parser and watchdog.

`DefinitionPlan` admits definitions by need (`context/definitions.rs`). What a
definition costs is counted for its own span, as a tokenizer does: any number of
tokens, so that a class may cost less than its methods do together. Nothing but
their types is assumed of captured facts: spans may cross or equal ones differ in
their cost, which refuses a candidate with `crossing-source-spans` or
`inconsistent-span-cost`; a span may be empty, a cost unknown, a need name
nothing. Lines are inclusive, so that neighbours on one line are ambiguous. Sums
are not bounded by 2^64, where the code has `cost-overflow`.

`ContextPlan` is the reading plan of `context.rs`, and `WorkScope`, which extends
it, the projection onto components.

### Sequential algorithms

| Module | Code | Reference definition |
|---|---|---|
| `Components`, `ImportGraph` | `graph/algorithms.rs`, `graph.rs`, `graph/project.rs`, `graph/csharp.rs` | reachability in the import relation; every import an edge or counted |
| `ChangedLines` | `query/changed_mapping.rs` | the innermost definitions of every single line |
| `SourceRead` | `query/source.rs`, `query/source/budget.rs` | sets of bytes of every selection |
| `Consumers` | `query/consumers.rs` | distances from the seeds |
| `Intervals` | `dup/intervals.rs` | the set of inserted tokens |
| `ClonePools`, `ExactClones`, `FuzzyClones` | `dup/exact.rs`, `dup/fuzzy.rs`, `dup/fuzzy/` | equal windows, and windows equal under one renaming |
| `DeepReview` | `snapshot.rs`, `findings.rs`, `review.rs` | `Expected`: the changes of grade between two trees, from git's report of their differences |
| `BriefBudget` | `query/review_context.rs` | every prefix and every item that would still fit |
| `Moves` | `query/review_context/brief/moves.rs` | every hidden line has its partner in a declaration that moved whole |

The loops are modelled step by step, as the code goes through them, and the
result is compared with a definition that has no loop.

`BriefBudget` has both budgets of the code, of tokens and of bytes, beside the
share of soft evidence. The text that a selection makes, measured in tokens and
in bytes, is any function of the selection (`Parts`): adding an item may make it
shorter. In `Moves` a line is its tokens, its indentation and its spacing; the key
by which the code matches lines does not see the spacing (`moves.rs:257`), the
comparison of bytes (`Bytes`) does.

### Instances

`MCDaemonScan` and `MCDaemonGraph` hold instances of the module they extend.
`MCScan` (the daemon again, the stream, the plans), `MCWeb` (dashboard, graph
hook, endpoint), `MCProcesses` (the five files, and the walk and analysis of one
scan) and `MCAlgorithms` (eleven algorithms) hold
several components that do not share state: an initial state chooses the
subject, and the others rest in one state in which their own steps are not
taken. One run then checks all of them. `MCMoves` (of two runs) and
`MCNearClones` hold the inputs of two algorithms and the properties that they
violate.

## Runs

| Run | Shows | Bounds, and why they are enough |
|---|---|---|
| `daemon_scan` | `TypeOK`, `FreshWhenQuiet`, `RescanHonoured`, `EventsRetellSnapshot`, `ScansHaveCauses`; under fairness `EventuallyQuiet` and `ShutdownEnds`; `KeepsLivePromise`: the service implements `LiveReport`; stream: `StreamSound`, `StreamEnds`; plans: `PlanSound`, `ScopeSound` | three inputs (the configuration, Git's HEAD, one file that the watcher ignores), one edit, one caller of rescan, one irrelevant notice, a trigger channel and a kernel queue of one. One edit can fall between any two steps; the irrelevant notice is what fills the queue before it. Commits with one delta, two, or more than the limit; pipes of one. Definitions of three files that nest, cross, share a line, need each other or what is not there, have equal spans at two prices, no source or no cost, and a class cheaper than its methods; up to three seeds. Four files with every set of six imports, and limits that each stop a loop |
| `daemon_startup` | violated: a notice before the initial trigger ends `serve` with an error | two inputs, one edit |
| `daemon_burst` | violated: after an overflow of the queue an edit stays unseen | one edit, one irrelevant notice |
| `daemon_graph_flight` | violated: two builds at a time after a disconnect | three clients, two reports, symmetry over the clients (no liveness is checked there) |
| `web` | dashboard: `PermitsBounded`, `ScreenNeverGoesBack`, `ScreenConverges`; graph hook: `GraphOfMountedRevision`, `GraphOrProblem`; endpoint: `AnswersTellOneRevision`, `LockFollowsBuild`, `RebuiltOnlyWhenOvertaken`, `EveryRequestEnds` | one permit, a buffer of one, two events per life of the daemon and two in all of restarts, cuts and rescans: a lag takes two events, a late response two refreshes. Three revisions, one restart, one retry. Three clients, two reports: one request that is overtaken, one that overtakes, one that waits; the clients are alike and ask in order |
| `graph_view_problem` | violated: the refusal of an aborted request is shown for the next one | as the graph hook above |
| `processes` | `CacheSound` and `KeepsFileWhole`, `ChurnSound`, `InstallationSound` and `TornPairIsRefused`, `TokenSound`, `LogSound`; a scan: `ScanAccounted`, `OmissionsDisclosed` | two processes each. Cache: one source of two versions with one lazy fact, one edit, two scans. Churn: three commits with a rename and a merge, three histories (full, shallow, too large to be fingerprinted), two starting points, two requests, two views kept, three runs, one change of the branch or of the metadata. Three releases and three updates. Two ports and four daemons in turn. Three log events, one heartbeat, one failed write. The scan: three files, one of no language, of two sizes; two admitted, of which one may be too large; two jobs, one edit. Symmetry over processes and versions, which no property tells apart; the two temporal properties of this run are actions, without fairness |
| `impact_walk` | violated: a limit cuts the second walk and nothing says so | two files, one below the target |
| `algorithms` | `ImportsTold`, `ChangesMapped`, `SourcesPacked`, `ConsumersFound`, `CoversExactly`, `ReviewSound`, `BriefSound`, `ExactClonesSound`, `NearClonesSound`, `MovesSound` | every input of a few elements: graphs of four files; three files of a language with namespaces, or with paths; four lines and up to two definitions that nest, touch and share lines; three targets; four symbols with three references; intervals within six positions; two trees of three paths under limits that each cut either snapshot; pools of three files of two to four tokens; briefs of up to two entries and three hunks on every token budget up to fourteen, with a byte budget of thirteen that some selections exceed although their tokens fit; diffs of one to three files. Limits are small enough to be hit and large enough to be missed |
| `near_clones` | violated: predecessors that are not looked at are told nowhere | five files of one window each, two predecessors, no other limit within reach |
| `moved_names` | violated: names of a declaration that stays shown count as hidden | the diffs of `MCMoves` |
| `moved_bytes` | violated: a line of a renamed move is hidden although its spacing changed | the diffs of `MCMoves` |

Deadlock is not checked in any run: every bound on the environment (edits,
events, requests) lets the instance stop, as a daemon without work does, and an
algorithm ends.

Fairness. In `DaemonScan` every step of a task or thread that can go on is weakly
fair: Tokio polls ready tasks, the watcher's thread handles its queue, a scan
ends because its limits and deadline end it. Edits, signals and requests are not
fair: nobody has to make them. In `DaemonGraph` a build ends (its limits bound
it) and the mutex lets every waiting request in; clients need not ask. In
`Dashboard` the daemon broadcasts what it owes and the browser runs its
callbacks; no scan has to start, and failures have no fairness. In `GraphView`
requests are answered and settled and `useDaemon` shows what the daemon has. In
`GitStream` the threads run and time passes; nothing is assumed of the child,
which may hang with full pipes. All other modules state safety only.

## What the violated properties say

1. `daemon_startup`: `serve` watches first and sends the initial trigger
   afterwards; a relevant notice in between fills the one-slot channel, and
   `try_send` failing with Full ends the daemon, although a scan is queued.
2. `daemon_burst`: an overflow of the kernel's queue is reported with an event
   of kind Other and no path, which both filters drop. The documentation says
   that bursts collapse into one pending refresh; here they collapse into none
   until the next relevant notice or manual rescan.
3. `daemon_graph_flight`: "Graph topology is separately single-flight" holds of
   connected clients only; a build cannot be cancelled, the lock can be dropped.
4. `graph_view_problem`: the error of an aborted request is set for the effect
   that replaced it.
5. `impact_walk`: with `--impact` the root is walked a second time, and what that
   walk left out is dropped with its counters; the report's diagnostics speak of
   the first walk only.
6. `near_clones`: pairs that are dropped because a window has more than 64
   predecessors are in no counter, so that an incomplete result below every
   limit is not marked; the exact detection counts them.
7. `moved_names`: a moved declaration is hidden although a name that it uses is
   declared by one that was refused later and stays shown.
8. `moved_bytes`: with pure renames, moves.rs:511-518 compares indentation and keys
   (tokens joined by one space, moves.rs:257), not bytes. A line whose spacing
   changed is hidden beside a renamed one, although docs/review-context.md:226-227
   promises that each hidden line becomes its counterpart byte for byte.
   `MovesSound` claims equal bytes of lines that are unchanged in place, and equal
   tokens and indentation of those that moved.

Others were met and have no run of their own, because no text of the repository
promises otherwise or because they lie at the edge of what is modelled:

- An overtaken graph request puts its older graph in the cache, so that the newer
  revision may be built twice (`RebuiltOnlyWhenOvertaken` says that this is the
  only way).
- The graph hook depends on the revision number alone: after a restart of the
  daemon the same number names another report, and the old graph stays beside it
  (`use-repository-graph.ts:76`).
- A client that is refused with 429 when it reconnects stays offline for good,
  since an EventSource does not retry after an error status; `ScreenConverges`
  holds because the screen says so.
- Two daemons on two addresses of one port share one token file; the second
  takes it over. `TokenSound` promises the serving daemon's token only as long
  as one address is used.
- `snapshot.rs:52` takes over every counter of the walk but `walker_errors`. A
  file that could not be looked at makes its old findings appear resolved
  without a diagnostic; `ReviewSound` leaves these walks out (`walkFailed`).
- A scan that a limit cut saves the analysis cache with pruning, and so forgets
  entries of files that it did not reach; that costs time only.
- In a brief an item can cost less than the omission lines that it replaces. The
  binary search for the longest prefix then stops early, and the sites of
  explained hunks may be listed before every other hunk is shown, against the
  order of docs/review-context.md:311-312; `SitesAfterHunks` is claimed where no
  longer prefix makes a shorter text, in tokens or in bytes.
- A C# file that was deleted registers no namespace, so that importers of that
  namespace resolve as external, while `mark_unreadable` skips paths without a
  file: the confidence of an impact may be high with dependents missed.
  `ImportsTold` excludes such files by name (`NamedFile`).
- A baseline whose finding profile does not match gives "unavailable" and no
  regression, as docs/development-journeys.md:50 says; the gate is not modelled.

## What is proved

Each `*_proofs` module extends the modules that it is about. The theorems hold for
every value of the constants: any set of inputs, callers, clients, files,
processes, releases and reports, any placement of the inputs, any capacity of
channels, pipes, queues, buffers and permits, any limits, and any bound on the
environment.

| Module | Theorem | States |
|---|---|---|
| `DaemonScan_proofs` | `Inductive`, `TypeCorrect` | the inductive invariant; `Spec => []TypeOK` |
| | `Freshness`, `RescansHonoured` | `Spec => []` of `FreshWhenQuiet`, `RescanHonoured` |
| | `Refinement`, `EventsInOrder` | `Spec => KeepsLivePromise`; `Spec => []EventsRetellSnapshot` |
| | `CausesCounted` | `OwnNoticesIgnored => (Spec => []ScansHaveCauses)` |
| `LiveReport_proofs` | `EventsRetold` | `ReportSpec => [](ReportTypeOK /\ EventsRetellSnapshot)` |
| `Web_proofs` | `GraphTypeCorrect`, `AnswersTold`, `LockHeld`, `RebuiltOnly` | `GraphSpec => []` of `GraphTypeOK`, `AnswersTellOneRevision`, `LockFollowsBuild`, `RebuiltOnlyWhenOvertaken` |
| | `DashboardTypeCorrect`, `PermitsHeld`, `ScreenOnlyAdvances` | `DashboardSpec =>` `[]DashboardTypeOK`, `[]PermitsBounded`, `ScreenNeverGoesBack` |
| | `ViewTypeCorrect`, `GraphMatchesReport` | `ViewSpec => []` of `ViewTypeOK`, `GraphOfMountedRevision` |
| `LocalFiles_proofs` | `UpdaterInductive`, `UpdaterTypeCorrect`, `InstallationsAgree`, `RollbackRestores`, `InstallationsSound`, `TornPairsRefused` | the updater's invariant; `[]InstallationSound` with its parts; `TornPairIsRefused` |
| | `TokenInductive`, `TokenFilesWhole`, `ServedTokensFiled`, `TokenIsSound` | the token's invariant; `[]TokenSound` with its parts |
| | `CacheInductive`, `CacheIsSound` | the cache's invariant; `CacheSpec => []CacheSound` |
| | `CacheKeepsFileWhole` | `CacheSpec => KeepsFileWhole`: the cache file implements `WholeFile` |
| | `ChurnInductive`, `ChurnIsSound` | the invariant of the churn caches; `ChurnSpec => []ChurnSound` |
| | `LogInductive`, `LogsCanBeRead` | the debug log's invariant; `LogSpec => []LogSound` |
| `Scan_proofs` | `StreamInductive`, `StreamsSound` | the stream's invariant; `StreamSpec => []StreamSound` |
| | `RunInductive`, `ScanTypeCorrect`, `FilesAreAccounted`, `BytesStayWithinTotal`, `ScansAreAccounted`, `OmissionsAreTold` | the scan's invariant; `ScanSpec => []` of `ScanTypeOK`, `FilesAccounted`, `BytesWithinTotal`, `ScanAccounted`, `OmissionsDisclosed` |
| | `PlanInductive`, `PlanIsSound` | the planner's invariant; `PlanSpec => []PlanSound` |
| | `ContextInductive`, `ContextIsSound` | the reading plan's invariant; `ContextSpec => []ContextSound` |
| | `ScopeInductive`, `ScopeIsSound` | the work scope's invariant; `ScopeSpec => []ScopeSound` |
| `Query_proofs` | `PackInductive`, `SourcesArePacked` | the invariant of `read_source`; `ReadSpec => []SourcesPacked` |
| | `MappedInductive`, `ChangesAreMapped` | the invariant of the mapping; `LinesSpec => []ChangesMapped` |
| | `ConsumersInductive`, `ConsumersAreFound` | the invariant of the traversal; `ConsumersSpec => []ConsumersFound` |
| `Findings_proofs` | `GapsKept`, `LookupsAreExact` | the invariant of `MergedIntervals`; `IntervalsSpec => []CoversExactly` |
| | `ReviewInductive`, `ReviewsAreSound` | the invariant of a deep review; `ReviewSpec => []ReviewSound` |
| | `BriefInductive`, `BriefIsSound` | the invariant of the brief's budgets; `BriefSpec => []BriefSound` |

`DaemonScan`. None of the properties is inductive: that the idle daemon is fresh
says nothing of the state during a scan. `Inductive` proves the conjunction of
three parts. `LoopInv` ties the program counter to the snapshot's status and to
the owed event, and says what has been read at each point. `FreshInv` says of
every watched input that is not up to date where its announcement is: in the
notices, in the trigger channel, in the hands of the loop before it began to
read, or still in front of the running scan's reads; or that the report of a
failed scan is retained under status error; or that the only notice was lost.
`AskedInv` says the same of an accepted rescan. The properties follow by setting
the loop to idle. `Refinement` uses `LoopInv` to show that each loop action is
the `LiveReport` action of that name and that every other action stutters.
`EventsInOrder` is not proved again: `LiveReport_proofs`, instantiated, gives it
for whatever keeps the promise.
`CausesCounted` needs an invariant of its own, `CausesInv`: the scans begun, the
one under way, the message in the channel, the notices that will be relevant and
the initial trigger are together at most the causes so far. It has a hypothesis,
`OwnNoticesIgnored`: what the daemon writes itself lies where the watcher looks
away. That is the exclusion of the debug log (`daemon.rs:884`) and the default
place of the caches outside the target; the run's instance satisfies it, and a
target that contains the user's cache directory does not. The accepted callers
have to be finitely many for the sum to exist.

`LiveReport`. The events and the status are in step because a start is only
possible after an even number of events: `Story` and `Ends` restate the property
so that appending one event (`Prolong`) is a single lemma.

`DaemonGraph`. `HeldInv` says that what a request captured was published under
the revision that it captured, `CacheInv` the same of the cache and the answers;
a publication only appends to `published`, so both survive it. `LockInv` says
that the holder is the one connected build. `StoreInv` says that until a request
is overtaken, the cache holds the newest revision that was built and no running
build is older.

`Dashboard`. `LatestInv` says that at most one request of the current generation
may still resolve, and that its answer is not older than the screen; `ShownInv`
that the screen is not newer than the daemon, so that an answer given now is
acceptable. Both survive the restart, which raises the epoch. `GraphView`:
`RequestInv` says that a request which may still bring a graph is the latest
effect's, and that the latest effect asked for the mounted revision.

`Updater`. `HandsInv` says what an update holds at each of its places, `LoneInv`
that what a lone update has seen still holds until it changes it itself; an
overlap of two updates is remembered, and only then may the pair disagree.

`DaemonToken`. `HolderInv`: two daemons that are not down listen on different
addresses, and each draft is its writer's token or nothing. `FiledInv`: while one
address is used, only the daemon that listens has a hand on the file.

`AnalysisCache`. `WriterInv` says what a temporary file can hold between two
system calls of a save, although `cache clear` may have removed it, and that
after the check for a link nobody makes one; from it each call of `AtomicFile`
is a step of `WholeFile` or a stutter. `EntriesTrue` says of every copy of the
cache, loaded, fresh, temporary, in hand or on disk, that no entry mixes the
facts of two contents; `FreshHasServed` that what a scan served is among its
fresh entries until it hands them over. `ServedForContent` alone is not
inductive: what is served comes from what somebody saved.

`ChurnHistory`. `ChurnInv` says of every copy of the two caches, in a collector's
hands or on disk, that a view is the answer to its own identity (`ViewsTrue`) and
an event that of its commit in the history it is filed under (`EventsTrue`), as
long as no history changed between the fingerprint and the walk and no search for
renames failed (`tainted`). `Advanced` says what one commit does to the names and
the touches; an event that was kept without a search gives the same as one with
it, if nothing asked for the search (`SameWithoutSearch`). That rests on
`RenamesAssumption`: git pairs a path that was deleted with one that was added,
and a search mentions the same paths as the plain comparison. A walk that leaves
nothing out then reaches, commit by commit, the names and touches of `Expected`,
whichever of its events came from a cache.

`DebugLog`. `PiecesInv` says that each piece of a record is in one place of the
file or the buffer, the pieces of a written record next to each other. Whatever
stands before a record and does not end its line is the head of a record whose
write failed, another one for every record that is spoiled: an injection into the
failed records, of which `FaultsInv` says that there are at most as many as
faults. `OrderInv` says that while somebody writes under the lock only
emergencies take later numbers, `ToldInv` and `AheadInv` that what a heartbeat
tells was written and precedes it, `SessionInv` that nobody logs once the main
thread tells the end. The workers are assumed not to bear the names of the other
two threads.

`GitStream`. `FlowInv` looks at the output pipe and the records that the child has
not written yet as one flow: each header in it is followed by as many deltas as
it announces, up to a torn record, and the commit that the parser is in the
middle of has as many to come as it lacks. `EventsInv` says that only the last
event can lack deltas, because the parse ended there, with the mark, or the child
broke; `WatchInv` that nobody waits for the child before the watchdog has ended,
so that it never kills a process id that may be another's.

`ScanRun`. `ToldBy` is the inductive form of the disclosure: whatever steady file
the walk passed over, or the analysis has no report of, is covered by a counter
or the count is marked as incomplete, and an incomplete count is marked
truncated. It is stated of the walk's counters during the walk, of the copy in
the diagnostics while the root is walked and the workers run, and of the totals
afterwards. `Observes` says that every observed file is kept or counted; the
final accounting adds up the workers' outcomes over it. `BytesInv` says that the
walk's counter of accepted bytes is at least the sum of the sizes of what it
kept: a sum over a set, which is a recursive function, taken up one file at a
time.

`DefinitionPlan`. `union_cost` goes through the sorted spans and looks at the
last outermost one only. `Paid` says what it has paid after each (`NextPaid`):
every outermost piece of source once, at the one price that its definitions agree
on (`PaidPieces`, `Price`, `UnionCostIs`), and an error exactly where two pieces
cross or disagree (`Apart`). Of a tokenizer nothing is assumed, so a
selection may become cheaper when a definition around others is added, and what
did not fit may then fit. What is selected always fits; a seed is refused only
because it did not fit beside the definitions of earlier seeds; a gap may name
what is selected later, but only where a selected definition lies within another
one: while none does, every definition is a piece of its own
(`OutermostGrows`), the price only grows (`PriceGrows`), and whatever fits still
fits without some of it (`PartFitsToo`). `WellFormed` states types.

`ContextPlan`. `dependent_reach` corrects distances: a file may be queued again
when a shorter way to it is found. `Search` says that a distance is that of some
way from the seed that is named, and that a file which has a dependent further
than one import behind it is in the queue; with an empty queue no distance can be
longer than the shortest way (`SearchEnds`). `Selection` says that what is read or
omitted ranks before what is still to come, so that the files ahead of an omitted
one never change again, and neither does its reason (`NoRoom`). `Outlines` keeps
the two statistics equal to sums over the files that have their outlines, and
`Outlining` does the same for the declarations of the file at hand. That sorted
lists hold each member once rests on `RanksList`: the i-th member is the one that
has i - 1 before it.

`WorkScope`. `ComponentInv` says that the component at hand and its queue are in
one piece (`Joined`), that links lead from its visited files to nowhere else, and
that finished components are closed (`Alone`); an empty queue then closes the
component. `Budgets` are the states of the budget in which the lists and what
remains add up and nothing follows a list that was cut; `TakeKeeps` shows that
one more list keeps it so, `ComponentsTaken` any number of them. A seed of the
graph is in some component, which is among those due; it is listed unless
MAX_COMPONENTS others are. `NothingLeftOut` reads the truncation mark backwards: a
sum of numbers that are not negative is zero only if each of them is.

`SourceRead`. Sources of one file are apart, each begins where one result's span
begins and ends where one ends, and every complete result points into exactly
one of them: a merge takes over the spans and the identities of what it merges,
a refusal leaves both alone. The set of byte positions never needs counting.

`Intervals`. The merged ranges never touch, while an insertion is under way
included, so that the nearest predecessor of a window is the only range that can
cover it.

`ChangedLines`. The mapping decides segment by segment, the property line by line.
Segments are cut at the boundaries of all candidate spans (`SegmentIsUncut`), so
that the candidates of a segment's first line are those of each of its lines
(`SegmentDecides`), and the segments of a range are all of it (`SegmentsCover`).
`MappedInv` adds that nothing is unprocessed while there is work left.

`Consumers`. `Frontier` describes the queue of the breadth-first search: it holds
the symbols that were seen and whose neighbours were not looked at, nearest
first and of two distances at most, and whatever is as near as the queue's head
is seen already, with its distance. `Evidenced` says that the evidence of a
symbol is what the symbols before it on shortest paths have told. An empty queue
then makes the distances those of `Near` (`FrontierDone`) and the evidence all
there is (`EvidenceDone`). Distances are below the number of symbols because the
layers of an unfinished search each take a symbol of their own. `Limited` and
`Fitted` count what the limits of `project` drop.

`DeepReview`. The proof has three layers. What git reports of two trees names no
path twice on a side (`ChangesTellApart`), which makes `MovedTo`, the path of an
old finding after renames, a function. From findings that are true to the trees
`Delta` is part of `Expected`, from complete ones it contains it
(`DeltaIsTrue`, `DeltaIsComplete`). The snapshots are accounted for entry by
entry: whatever the reading passed is a source or counted (`EntriesCounted`), a count
that comes from a limit marks the snapshot (`Marking`), and an unmarked snapshot
that counted nothing is complete (`UnmarkedIsComplete`). `HeadInv` says that the
base snapshot is of the tree that the diff was taken from, unless HEAD was born
in between (`firstCommit`).

`BriefBudget`. Two searches over the same items with different budgets either stand
in the same place or the one with the larger budget is ahead, whatever the
prefixes cost (`PrefixGrows`): a longer prefix may be cheaper, so that which
prefixes fit is not monotone in their length, only in the budget. By induction
over the rungs a larger budget then chooses no coarser rung and admits no less
(`RowSound`), and since what is admitted are prefixes of one list, as many means
the same ones (`EvidenceNested`). `ItemsListed` says in which order the items
stand; with it the entries come before what belongs to them, and the sites of
explained hunks wait for every other hunk as long as longer prefixes make longer
texts, in tokens and in bytes (`SitesReach`). `HardFits` says that without soft items what
fits is a matter of the two budgets alone. `BriefInv` ties each budget's selection to
these searches. `PartsAssumption` says only that the measures are natural numbers
and that soft evidence comes from a soft item.

`SetInduction` holds what several of these proofs share: a set of natural numbers
has a least one, a finite set is reached by adding its members one at a time, a
recursive function on 0..n exists and obeys its equation (`RecursionExists`), a
finite set can be listed in a given order (`SortedExists`, `ListingExists`), and
sums over finite sets. Its inductions speak of sets rather than predicates, which is what the
provers can instantiate.

The proofs assume the named assumptions on the constants and nothing else; TLC
evaluates each of them in the runs of its module. The one on `Repositories` says
what a repository is: its paths are numbered, those of files before those of what
was deleted, imports are between files, and sizes and counts are natural numbers.
No size of a repository and no limit is assumed beyond that.

## What is only model-checked

- Liveness (`EventuallyQuiet`, `ShutdownEnds`, `ScreenConverges`, `GraphOrProblem`,
  `EveryRequestEnds`, `StreamEnds`): fairness is beyond the prover.
- `ImportsTold` (reachability, finishing order), `ExactClonesSound`,
  `NearClonesSound` and `MovesSound`: long pipelines over sorted lists. What folds
  and recursive functions compute can be proved by induction over sets, as for
  the sums of `ScanRun`, the distances of `Consumers` and the lists of
  `WorkScope`; these are not done yet. See the plan.

## What is left out

- The content of a scan in `DaemonScan`: a report is the versions it was computed
  from. Own notices of a scan are those of the debug log, which the watcher
  excludes. A target that contains the user's cache directory is not modelled:
  there each scan's cache save would start the next one.
- The blocking thread of an aborted scan, which runs to its end in the
  background and publishes nothing; the process waits for it after `serve` has
  returned.
- The daemon's authentication and origin checks: pure functions of one request.
- Metrics and parsers (`metrics/`, `parse/`, `lang.rs`, `php.rs`, `godot.rs`):
  functions of the text of one file, with tree-sitter grammars.
- Reports and output formats (`report/`, `explain.rs`), the rendering and search
  ranking of queries, dashboard views: functions of finished data.
- Task commands and diagnostics: parsing of compiler output.
- Command line, configuration layers and ignore rules: the order in which
  options and files override each other, without state.
- Resolvers of languages other than C#: string processing, abstracted to the
  file that an import names. The baseline file and the gate's thresholds.

These parts are most of the repository's lines, which is why the map covers a
small share of them: they hold no state that a step could leave inconsistent.

## Plan

1. The daemon, its promise, its clients: done, with proofs of every safety
   property.
2. Files on disk (`AtomicFile`, `AnalysisCache`, `Updater`, `DaemonToken`,
   `DebugLog`, `ChurnHistory`): done, with proofs.
3. Scan, stream, the planner of definitions, reading plan and work scope: done, with
   proofs.
4. Sequential algorithms: all checked; `Intervals`, `SourceRead`, `ChangedLines`,
   `Consumers`, `DeepReview` and `BriefBudget` proved. Open: `ComparedIsMatched` of
   `ExactClones`, `HiddenComeBack` of `Moves`.
