------------------------------ MODULE DaemonScan ------------------------------
(***************************************************************************)
(* The scan service of src/daemon.rs: start-up and shutdown of `serve`,    *)
(* the filesystem watcher, the one-slot trigger channel, the rescan        *)
(* handler and the scan loop that refreshes the shared snapshot.           *)
(*                                                                         *)
(* Every input of a scan carries a version that an edit increments; a      *)
(* report is the version of each input that the scan read.  The inputs are *)
(* read one by one, outside the snapshot lock, while edits go on.          *)
(***************************************************************************)
EXTENDS Naturals, Sequences, FiniteSets

CONSTANTS
  Inputs,        \* what a scan reads: source files, Git state, configuration
  Place,         \* where each input lies, as the watcher's filters see it
  ConfigFile,    \* the input that holds the configuration
  Callers,       \* POST /api/rescan requests
  NoReport,      \* the snapshot's report before the first completed scan
  TriggerCap,    \* capacity of the trigger channel (1 in the code)
  KernelQueue,   \* notices the kernel queues before it drops them
  NoiseNotices,  \* notices that come without a change of an input
  OwnNotices,    \* notices of what a scan writes: caches and the debug log
  MaxEdits,      \* bound: edits of the inputs
  MaxNoise       \* bound: notices without a change

VARIABLES
  serve,       \* how far `serve` has come
  failure,     \* the step that made it return an error
  signalled,   \* value of the shutdown watch channel
  tree,        \* version of every input on disk
  cfgValid,    \* does the configuration on disk resolve?
  edits, noise, \* how many of each have happened
  notices,     \* filesystem notices the watcher thread has not handled
  lost,        \* history: the only notice of a change was dropped
  trigger,     \* messages in the trigger channel
  loop,        \* program counter of scan_loop and scan_once
  toRead,      \* inputs the running scan has still to read
  draft,       \* versions the running scan has read
  revision, status, report, owed, log,   \* see LiveReport
  caller,      \* what became of every rescan request
  cooling,     \* last_rescan is less than RESCAN_COOLDOWN ago
  asked        \* history: the tree when a rescan was last accepted

serveVars == <<serve, failure, signalled>>
diskVars == <<tree, cfgValid, edits, noise>>
noticeVars == <<notices, lost>>
scanVars == <<toRead, draft>>
reportVars == <<revision, status, report, owed, log>>
rescanVars == <<caller, cooling, asked>>

vars == <<serveVars, diskVars, noticeVars, trigger, loop, scanVars,
          reportVars, rescanVars>>

Reports == [Inputs -> Nat]

\* DaemonScan implements LiveReport variable by variable.
Live == INSTANCE LiveReport WITH
          Reports <- Reports, NoReport <- NoReport,
          revision <- revision, status <- status, report <- report,
          owed <- owed, log <- log

-------------------------------------------------------------------------------
(* Notices of the watcher and the filters that decide whether they matter. *)

Kinds == {"any", "create", "remove", "data", "name",
          "access", "metadata", "other"}

\* "generated": below a directory named .git, .godot, target, node_modules,
\* dist or .reposcout; "excluded": the debug log; "outside": not below the
\* target, or another file than a target that is a file.
Places == {"source", "generated", "excluded", "outside",
           "gitState", "gitLock", "gitObject"}

Notices == [kind : Kinds, place : Places]

Notice(kind, place) == [kind |-> kind, place |-> place]

RescanKinds == {"any", "create", "remove", "data", "name"}

event_requires_rescan_WithoutExclusions(n) ==
  n.kind \in RescanKinds /\ n.place \in {"source", "excluded"}

event_requires_rescan(n) == n.kind \in RescanKinds /\ n.place = "source"

git_requires_rescan(n) == n.kind \in RescanKinds /\ n.place = "gitState"

RequiresRescan(n) == event_requires_rescan(n) \/ git_requires_rescan(n)

\* What the watcher reports when the kernel's queue overflowed.
Overflow == Notice("other", "outside")

WatchedInputs == {f \in Inputs : Place[f] \in {"source", "gitState"}}

ASSUME DaemonAssumption ==
  /\ NoReport \notin Reports
  /\ Place \in [Inputs -> Places]
  /\ ConfigFile \in Inputs
  /\ IsFiniteSet(Callers) /\ TriggerCap \in Nat \ {0}
  /\ KernelQueue \in Nat
  /\ NoiseNotices \subseteq Notices /\ OwnNotices \subseteq Notices
  /\ MaxEdits \in Nat /\ MaxNoise \in Nat

WatcherAlive == serve \notin {"setup", "stopping", "exited"}

Relevant(s) == \E i \in 1 .. Len(s) : RequiresRescan(s[i])

Pending == Relevant(notices)

\* The kernel queues a notice or, when its queue is full, drops it and leaves
\* one overflow mark at the end.
Notify(n) ==
  IF WatcherAlive
  THEN /\ notices' = CASE Len(notices) < KernelQueue -> Append(notices, n)
                       [] Len(notices) = KernelQueue -> Append(notices, Overflow)
                       [] OTHER -> notices
       /\ lost' = (lost \/ ( /\ Len(notices) >= KernelQueue
                             /\ RequiresRescan(n)
                             /\ ~Pending ))
  ELSE UNCHANGED noticeVars

TriggerClosed == loop = "stopped"

\* trigger.try_send(()): a full or closed channel is left as it is.
TrySendUnbounded ==
  trigger' = IF ~TriggerClosed THEN trigger + 1 ELSE trigger

TrySend ==
  trigger' = IF ~TriggerClosed /\ trigger < TriggerCap
             THEN trigger + 1 ELSE trigger

-------------------------------------------------------------------------------
(* `serve`: start-up in program order, then the server, then the shutdown. *)

Init ==
  /\ serve = "setup" /\ failure = "none" /\ signalled = FALSE
  /\ tree = [f \in Inputs |-> 0]
  /\ cfgValid = TRUE
  /\ edits = 0 /\ noise = 0
  /\ notices = <<>> /\ lost = FALSE
  /\ trigger = 0
  /\ loop = "off"
  /\ toRead = {} /\ draft = tree
  /\ Live!ReportInit
  /\ caller = [c \in Callers |-> "none"]
  /\ cooling = FALSE
  /\ asked = tree

\* make_watcher, watcher.watch and git_paths.register.
Watch ==
  /\ serve = "setup"
  /\ \/ serve' = "watching" /\ UNCHANGED failure
     \/ serve' = "exited" /\ failure' = "watch"
  /\ UNCHANGED <<signalled, diskVars, noticeVars, trigger, loop, scanVars,
                 reportVars, rescanVars>>

SpawnLoop ==
  /\ serve = "watching"
  /\ serve' = "spawned"
  /\ loop' = "idle"
  /\ UNCHANGED <<failure, signalled, diskVars, noticeVars, trigger, scanVars,
                 reportVars, rescanVars>>

\* trigger_tx.try_send: any error, a full channel included, ends `serve`.
QueueInitialScan ==
  /\ serve = "spawned"
  /\ TrySend
  /\ IF trigger < TriggerCap
     THEN serve' = "queued" /\ UNCHANGED failure
     ELSE serve' = "exited" /\ failure' = "trigger"
  /\ UNCHANGED <<signalled, diskVars, noticeVars, loop, scanVars, reportVars,
                 rescanVars>>

\* The listener is bound and then the token written; either may fail.
Bind ==
  /\ serve = "queued"
  /\ \/ serve' = "serving" /\ UNCHANGED failure
     \/ serve' = "exited" /\ failure' = "bind"
  /\ UNCHANGED <<signalled, diskVars, noticeVars, trigger, loop, scanVars,
                 reportVars, rescanVars>>

\* signal_task: ctrl_c, once the server runs.
Signal ==
  /\ serve = "serving"
  /\ ~signalled
  /\ signalled' = TRUE
  /\ UNCHANGED <<serve, failure, diskVars, noticeVars, trigger, loop, scanVars,
                 reportVars, rescanVars>>

\* The graceful shutdown waits for requests in flight; then the watcher is
\* dropped and the scan task aborted.
ServerStops ==
  /\ serve = "serving"
  /\ signalled
  /\ \A c \in Callers : caller[c] # "stamped"
  /\ serve' = "stopping"
  /\ UNCHANGED <<failure, signalled, diskVars, noticeVars, trigger, loop,
                 scanVars, reportVars, rescanVars>>

\* scan_task.await returns.
Exit ==
  /\ serve = "stopping"
  /\ loop = "stopped"
  /\ serve' = "exited"
  /\ UNCHANGED <<failure, signalled, diskVars, noticeVars, trigger, loop,
                 scanVars, reportVars, rescanVars>>

-------------------------------------------------------------------------------
(* The disk and the watcher thread.                                        *)

\* An edit of the configuration may leave it unusable, or repair it.
Edit(f) ==
  /\ edits < MaxEdits
  /\ edits' = edits + 1
  /\ tree' = [tree EXCEPT ![f] = @ + 1]
  /\ IF f = ConfigFile THEN cfgValid' \in BOOLEAN ELSE UNCHANGED cfgValid
  /\ Notify(Notice("data", Place[f]))
  /\ UNCHANGED <<serveVars, noise, trigger, loop, scanVars, reportVars,
                 rescanVars>>

Noise(n) ==
  /\ noise < MaxNoise
  /\ noise' = noise + 1
  /\ Notify(n)
  /\ UNCHANGED <<serveVars, tree, cfgValid, edits, trigger, loop, scanVars,
                 reportVars, rescanVars>>

\* The watcher's callback handles one event.
Deliver ==
  /\ WatcherAlive
  /\ notices # <<>>
  /\ notices' = Tail(notices)
  /\ IF RequiresRescan(Head(notices)) THEN TrySend ELSE UNCHANGED trigger
  /\ UNCHANGED <<serveVars, diskVars, lost, loop, scanVars, reportVars,
                 rescanVars>>

-------------------------------------------------------------------------------
(* scan_loop and scan_once.  `owed` is not empty between the release of    *)
(* the snapshot lock and the broadcast that follows it.                    *)

\* trigger.recv(), then the debounce delay.
Receive ==
  /\ loop = "idle"
  /\ owed = <<>>
  /\ trigger > 0
  /\ trigger' = trigger - 1
  /\ loop' = "debounce"
  /\ UNCHANGED <<serveVars, diskVars, noticeVars, scanVars, reportVars,
                 rescanVars>>

DrainAwaitsAMessage ==
  /\ loop = "debounce"
  /\ trigger > 0
  /\ trigger' = 0
  /\ loop' = "begin"
  /\ UNCHANGED <<serveVars, diskVars, noticeVars, scanVars, reportVars,
                 rescanVars>>

\* while trigger.try_recv().is_ok() {}
Drain ==
  /\ loop = "debounce"
  /\ trigger' = 0
  /\ loop' = "begin"
  /\ UNCHANGED <<serveVars, diskVars, noticeVars, scanVars, reportVars,
                 rescanVars>>

BeginScanForgets ==
  /\ loop = "begin"
  /\ loop' = "loading"
  /\ status' = "scanning"
  /\ report' = NoReport
  /\ owed' = <<Live!DaemonEvent("started", revision)>>
  /\ toRead' = Inputs
  /\ UNCHANGED <<serveVars, diskVars, noticeVars, trigger, draft, revision, log,
                 rescanVars>>

BeginScan ==
  /\ loop = "begin"
  /\ loop' = "loading"
  /\ status' = "scanning"
  /\ owed' = <<Live!DaemonEvent("started", revision)>>
  /\ toRead' = Inputs
  /\ UNCHANGED <<serveVars, diskVars, noticeVars, trigger, draft, revision,
                 report, log, rescanVars>>

emit ==
  /\ owed # <<>>
  /\ log' = log \o owed
  /\ owed' = <<>>
  /\ UNCHANGED <<serveVars, diskVars, noticeVars, trigger, loop, scanVars,
                 revision, status, report, rescanVars>>

ReadNow(f) ==
  /\ draft' = [draft EXCEPT ![f] = tree[f]]
  /\ toRead' = toRead \ {f}

\* loader(&scan_target): an invalid configuration fails the scan.
LoadConfig ==
  /\ loop = "loading"
  /\ owed = <<>>
  /\ IF cfgValid
     THEN loop' = "reading" /\ ReadNow(ConfigFile)
     ELSE loop' = "failed" /\ UNCHANGED scanVars
  /\ UNCHANGED <<serveVars, diskVars, noticeVars, trigger, reportVars,
                 rescanVars>>

ReadInput(f) ==
  /\ loop = "reading"
  /\ f \in toRead
  /\ ReadNow(f)
  /\ UNCHANGED <<serveVars, diskVars, noticeVars, trigger, loop, reportVars,
                 rescanVars>>

\* The scan returns an error, or its blocking task panics.
ScanFails ==
  /\ loop = "reading"
  /\ loop' = "failed"
  /\ UNCHANGED <<serveVars, diskVars, noticeVars, trigger, scanVars, reportVars,
                 rescanVars>>

\* The scan has saved its caches and flushed its log, if it keeps any.
ScanReturns ==
  /\ loop = "reading"
  /\ toRead = {}
  /\ loop' = "publish"
  /\ UNCHANGED noticeVars \/ \E n \in OwnNotices : Notify(n)
  /\ UNCHANGED <<serveVars, diskVars, trigger, scanVars, reportVars, rescanVars>>

PublishDrains ==
  /\ loop = "publish"
  /\ loop' = "idle"
  /\ trigger' = 0
  /\ revision' = revision + 1
  /\ status' = "ready"
  /\ report' = draft
  /\ owed' = <<Live!DaemonEvent("completed", revision + 1)>>
  /\ UNCHANGED <<serveVars, diskVars, noticeVars, scanVars, log, rescanVars>>

Publish ==
  /\ loop = "publish"
  /\ loop' = "idle"
  /\ revision' = revision + 1
  /\ status' = "ready"
  /\ report' = draft
  /\ owed' = <<Live!DaemonEvent("completed", revision + 1)>>
  /\ UNCHANGED <<serveVars, diskVars, noticeVars, trigger, scanVars, log,
                 rescanVars>>

record_scan_error_NextRevision ==
  /\ loop = "failed"
  /\ loop' = "idle"
  /\ status' = "error"
  /\ owed' = <<Live!DaemonEvent("failed", revision + 1)>>
  /\ UNCHANGED <<serveVars, diskVars, noticeVars, trigger, scanVars, revision,
                 report, log, rescanVars>>

record_scan_error ==
  /\ loop = "failed"
  /\ loop' = "idle"
  /\ status' = "error"
  /\ owed' = <<Live!DaemonEvent("failed", revision)>>
  /\ UNCHANGED <<serveVars, diskVars, noticeVars, trigger, scanVars, revision,
                 report, log, rescanVars>>

LoopStopsWithItsSender ==
  /\ loop = "idle"
  /\ owed = <<>>
  /\ serve = "exited"
  /\ loop' = "stopped"
  /\ trigger' = 0
  /\ UNCHANGED <<serveVars, diskVars, noticeVars, scanVars, reportVars,
                 rescanVars>>

\* The idle loop sees the shutdown; a busy one is aborted at an await, which
\* none separates the lock release from the broadcast.  The receiver drops.
LoopStops ==
  /\ loop \notin {"off", "stopped"}
  /\ owed = <<>>
  /\ \/ loop = "idle" /\ signalled
     \/ serve \in {"stopping", "exited"}
  /\ loop' = "stopped"
  /\ trigger' = 0
  /\ UNCHANGED <<serveVars, diskVars, noticeVars, scanVars, reportVars,
                 rescanVars>>

-------------------------------------------------------------------------------
(* POST /api/rescan.                                                       *)

\* A request without the header, or within the cooldown, stamps nothing.
RefuseRescan(c) ==
  /\ serve = "serving"
  /\ caller[c] = "none"
  /\ \/ caller' = [caller EXCEPT ![c] = "badRequest"]
     \/ cooling /\ caller' = [caller EXCEPT ![c] = "tooMany"]
  /\ UNCHANGED <<serveVars, diskVars, noticeVars, trigger, loop, scanVars,
                 reportVars, cooling, asked>>

\* The cooldown is checked and stamped under the last_rescan lock.
StampRescan(c) ==
  /\ serve = "serving"
  /\ caller[c] = "none"
  /\ ~cooling
  /\ cooling' = TRUE
  /\ caller' = [caller EXCEPT ![c] = "stamped"]
  /\ UNCHANGED <<serveVars, diskVars, noticeVars, trigger, loop, scanVars,
                 reportVars, asked>>

QueueRescanUnlessScanning(c) ==
  /\ caller[c] = "stamped"
  /\ IF status = "scanning" THEN UNCHANGED trigger ELSE TrySend
  /\ caller' = [caller EXCEPT ![c] = "accepted"]
  /\ asked' = tree
  /\ UNCHANGED <<serveVars, diskVars, noticeVars, loop, scanVars, reportVars,
                 cooling>>

\* The lock is released before the trigger is sent.
QueueRescan(c) ==
  /\ caller[c] = "stamped"
  /\ TrySend
  /\ IF TriggerClosed
     THEN /\ caller' = [caller EXCEPT ![c] = "unavailable"]
          /\ UNCHANGED asked
     ELSE /\ caller' = [caller EXCEPT ![c] = "accepted"]
          /\ asked' = tree
  /\ UNCHANGED <<serveVars, diskVars, noticeVars, loop, scanVars, reportVars,
                 cooling>>

CooldownExpires ==
  /\ cooling
  /\ cooling' = FALSE
  /\ UNCHANGED <<serveVars, diskVars, noticeVars, trigger, loop, scanVars,
                 reportVars, caller, asked>>

-------------------------------------------------------------------------------

ServeNext ==
  Watch \/ SpawnLoop \/ QueueInitialScan \/ Bind \/ Signal \/ ServerStops \/ Exit

DiskNext ==
  \/ \E f \in Inputs : Edit(f)
  \/ \E n \in NoiseNotices : Noise(n)

LoopNext ==
  \/ Receive \/ Drain \/ BeginScan \/ emit \/ LoadConfig
  \/ \E f \in Inputs : ReadInput(f)
  \/ ScanFails \/ ScanReturns \/ Publish \/ record_scan_error \/ LoopStops

RescanNext ==
  \/ \E c \in Callers :
        RefuseRescan(c) \/ StampRescan(c) \/ QueueRescan(c)
  \/ CooldownExpires

Next == ServeNext \/ DiskNext \/ Deliver \/ LoopNext \/ RescanNext

Spec == Init /\ [][Next]_vars

\* Threads and tasks that can go on do; edits, signals and requests need not
\* come.  A scan ends because its limits end it.
Fairness ==
  /\ WF_vars(Watch \/ SpawnLoop \/ QueueInitialScan \/ Bind)
  /\ WF_vars(ServerStops \/ Exit)
  /\ WF_vars(Deliver)
  /\ WF_vars(LoopNext)
  /\ \A c \in Callers : WF_vars(QueueRescan(c))
  /\ WF_vars(CooldownExpires)

FairSpec == Spec /\ Fairness
-------------------------------------------------------------------------------

TypeOK ==
  /\ serve \in {"setup", "watching", "spawned", "queued", "serving",
                "stopping", "exited"}
  /\ failure \in {"none", "watch", "trigger", "bind"}
  /\ signalled \in BOOLEAN
  /\ tree \in Reports /\ draft \in Reports /\ asked \in Reports
  /\ cfgValid \in BOOLEAN
  /\ edits \in 0 .. MaxEdits /\ noise \in 0 .. MaxNoise
  /\ notices \in Seq(Notices) /\ Len(notices) <= KernelQueue + 1
  /\ lost \in BOOLEAN
  /\ trigger \in 0 .. TriggerCap
  /\ loop \in {"off", "idle", "debounce", "begin", "loading", "reading",
               "publish", "failed", "stopped"}
  /\ toRead \subseteq Inputs
  /\ Live!ReportTypeOK
  /\ caller \in [Callers -> {"none", "stamped", "badRequest", "tooMany",
                             "accepted", "unavailable"}]
  /\ cooling \in BOOLEAN

Quiet == loop = "idle" /\ owed = <<>> /\ trigger = 0

\* "Filesystem bursts collapse into one pending refresh" without losing one:
\* a ready daemon with nothing left to do shows every watched input as it is
\* on disk, however the edits fell between debounce, drain and reads.
FreshWhenQuiet ==
  Quiet /\ WatcherAlive /\ ~Pending /\ ~lost /\ status = "ready"
    => \A f \in WatchedInputs : report[f] = tree[f]

\* A rescan answered 202, with a message of its own or with a full channel,
\* is followed by a scan that reads what was on disk when it was accepted,
\* watched or not and notices lost or not.
RescanHonoured ==
  Quiet /\ status = "ready" => \A f \in Inputs : report[f] >= asked[f]

\* The events in broadcast order retell the snapshot: scans alternate with
\* their outcomes, a completed one raises the revision by one, and the last
\* event agrees with the snapshot that clients reconcile with.
EventsRetellSnapshot == Live!EventsRetellSnapshot

Begun == Cardinality({i \in DOMAIN (log \o owed) : (log \o owed)[i].kind = "started"})

\* Every scan has a cause of its own: start-up, an edit, a notice of another
\* program or a rescan that passed the cooldown.  What a scan writes itself, or
\* a message that it left in the channel, never starts another one.
ScansHaveCauses ==
  Begun <= 1 + edits + noise
             + Cardinality({c \in Callers : caller[c] \in {"stamped", "accepted"}})

\* The scan service keeps the promise of LiveReport.
KeepsLivePromise == Live!ReportSpec

\* When the edits stop, so does the daemon's work: every notice is handled,
\* no trigger is left and the scan has ended, unless the daemon shut down.
EventuallyQuiet ==
  <>[]( \/ loop = "stopped" \/ serve = "exited"
       \/ (Quiet /\ notices = <<>>) )

\* After ctrl-c `serve` returns: requests in flight are answered although the
\* trigger's receiver may be gone, and the scan task ends wherever it was.
ShutdownEnds == signalled ~> serve = "exited" /\ loop = "stopped"

\* tests and docs: "Filesystem bursts collapse into one pending refresh"; a
\* burst must then never make the daemon return an error.
BurstNeverFailsStartup == failure # "trigger"

\* The same sentence, when the kernel's queue overflows in the burst.
BurstNeverLosesRefresh ==
  Quiet /\ WatcherAlive /\ notices = <<>> /\ status = "ready"
    => \A f \in WatchedInputs : report[f] = tree[f]
=============================================================================
