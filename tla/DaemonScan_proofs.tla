--------------------------- MODULE DaemonScan_proofs --------------------------
(***************************************************************************)
(* Proofs about DaemonScan, for all inputs, callers, queue lengths and     *)
(* bounds: type correctness, FreshWhenQuiet, RescanHonoured and the        *)
(* refinement of LiveReport.                                               *)
(***************************************************************************)
EXTENDS DaemonScan, FiniteSetTheorems, FunctionTheorems, TLAPS

-------------------------------------------------------------------------------
(* Lemmas about the notices and the trigger.                               *)

\* Notify and try_send keep their types, and try_send leaves an open channel
\* with a message in it: what the watcher callback and the handler rely on.
LEMMA NotifyType ==
  ASSUME TypeOK, NEW n \in Notices, Notify(n)
  PROVE  /\ notices' \in Seq(Notices) /\ Len(notices') <= KernelQueue + 1
         /\ lost' \in BOOLEAN
<1>1. Overflow \in Notices
  BY DEF Overflow, Notice, Notices, Kinds, Places
<1>2. lost' \in BOOLEAN
  <2>1. CASE WatcherAlive
    BY <2>1 DEF Notify
  <2>2. CASE ~WatcherAlive
    BY <2>2 DEF Notify, TypeOK, noticeVars
  <2> QED BY <2>1, <2>2
<1>3. notices' \in Seq(Notices) /\ Len(notices') <= KernelQueue + 1
  <2>1. CASE Len(notices) < KernelQueue /\ WatcherAlive
    <3>1. notices' = Append(notices, n)
      BY <2>1 DEF Notify
    <3>2. notices \in Seq(Notices) /\ KernelQueue \in Nat
      BY DaemonAssumption DEF TypeOK
    <3> QED BY <2>1, <3>1, <3>2
  <2>2. CASE Len(notices) = KernelQueue /\ WatcherAlive
    BY <1>1, <2>2, DaemonAssumption DEF Notify, TypeOK
  <2>3. CASE Len(notices) > KernelQueue /\ WatcherAlive
    BY <2>3, DaemonAssumption DEF Notify, TypeOK
  <2>4. CASE ~WatcherAlive
    BY <2>4 DEF Notify, TypeOK, noticeVars
  <2> QED BY <2>1, <2>2, <2>3, <2>4, DaemonAssumption DEF TypeOK
<1> QED
  BY <1>2, <1>3

\* try_send on the trigger channel keeps it within its capacity.
LEMMA TrySendType ==
  ASSUME TypeOK, TrySend
  PROVE  /\ trigger' \in 0 .. TriggerCap
         /\ trigger' >= trigger
         /\ loop # "stopped" => trigger' > 0
BY DaemonAssumption DEF TrySend, TriggerClosed, TypeOK

\* The watcher's own batches form a sequence.
LEMMA OwnSeq ==
  ASSUME NEW e \in Live!DaemonEvents
  PROVE  <<e>> \in Seq(Live!DaemonEvents)
OBVIOUS

\* Every variable keeps its type; the trigger channel never exceeds its
\* capacity and the kernel's queue its length and the overflow mark.
THEOREM TypeCorrect == Spec => []TypeOK
<1> USE DEF Live!ReportTypeOK, Live!Statuses, Live!EventKinds,
            Live!DaemonEvents, Live!DaemonEvent
<1>1. Init => TypeOK
  <2> SUFFICES ASSUME Init PROVE TypeOK
    OBVIOUS
  <2>1. tree \in Reports /\ draft \in Reports /\ asked \in Reports
    BY DEF Init, Reports
  <2>2. edits \in 0 .. MaxEdits /\ noise \in 0 .. MaxNoise
    BY DaemonAssumption DEF Init
  <2>3. notices \in Seq(Notices) /\ Len(notices) <= KernelQueue + 1
    BY DaemonAssumption DEF Init
  <2>4. Live!ReportTypeOK
    BY DEF Init, Live!ReportInit
  <2>5. cooling \in BOOLEAN /\ lost \in BOOLEAN /\ signalled \in BOOLEAN
        /\ cfgValid \in BOOLEAN
    BY DEF Init
  <2>6. trigger \in 0 .. TriggerCap
    BY DaemonAssumption DEF Init
  <2> QED
    BY <2>1, <2>2, <2>3, <2>4, <2>5, <2>6 DEF Init, TypeOK
<1>2. TypeOK /\ [Next]_vars => TypeOK'
  <2> SUFFICES ASSUME TypeOK, [Next]_vars PROVE TypeOK'
    OBVIOUS
  <2> USE DEF serveVars, diskVars, noticeVars, scanVars, reportVars, rescanVars
  <2>1. CASE ServeNext
    <3>1. CASE QueueInitialScan
      BY <3>1, TrySendType DEF QueueInitialScan, TypeOK
    <3>2. CASE Watch \/ SpawnLoop \/ Bind
      BY <3>2 DEF Watch, SpawnLoop, Bind, TypeOK
    <3>3. CASE Signal
      BY <3>3 DEF Signal, TypeOK
    <3>4. CASE ServerStops \/ Exit
      BY <3>4 DEF ServerStops, Exit, TypeOK
    <3> QED BY <2>1, <3>1, <3>2, <3>3, <3>4 DEF ServeNext
  <2>2. CASE DiskNext
    <3>1. ASSUME NEW f \in Inputs, Edit(f) PROVE TypeOK'
      <4>1. Notice("data", Place[f]) \in Notices
        BY DaemonAssumption DEF Notice, Notices, Kinds
      <4>2. tree' \in Reports
        BY <3>1 DEF Edit, TypeOK, Reports
      <4>3. edits' \in 0 .. MaxEdits /\ cfgValid' \in BOOLEAN
        BY <3>1, DaemonAssumption DEF Edit, TypeOK
      <4> QED BY <3>1, <4>1, <4>2, <4>3, NotifyType DEF Edit, TypeOK
    <3>2. ASSUME NEW n \in NoiseNotices, Noise(n) PROVE TypeOK'
      <4>1. noise' \in 0 .. MaxNoise
        BY <3>2, DaemonAssumption DEF Noise, TypeOK
      <4>2. n \in Notices
        BY DaemonAssumption
      <4> QED BY <3>2, <4>1, <4>2, NotifyType DEF Noise, TypeOK
    <3> QED BY <2>2, <3>1, <3>2 DEF DiskNext
  <2>3. CASE Deliver
    <3>1. /\ notices' \in Seq(Notices) /\ Len(notices') <= KernelQueue + 1
      BY <2>3, DaemonAssumption DEF Deliver, TypeOK
    <3>2. trigger' \in 0 .. TriggerCap
      BY <2>3, TrySendType DEF Deliver, TypeOK
    <3> QED BY <2>3, <3>1, <3>2 DEF Deliver, TypeOK
  <2>4. CASE LoopNext
    <3>1. CASE Receive \/ Drain
      BY <3>1, DaemonAssumption DEF Receive, Drain, TypeOK
    <3>2. CASE BeginScan
      BY <3>2, OwnSeq DEF BeginScan, TypeOK
    <3>3. CASE emit
      BY <3>3 DEF emit, TypeOK
    <3>4. ASSUME NEW f \in Inputs, ReadNow(f)
          PROVE  draft' \in Reports /\ toRead' \subseteq Inputs
      BY <3>4 DEF ReadNow, TypeOK, Reports
    <3>5. CASE LoadConfig
      BY <3>5, <3>4, DaemonAssumption DEF LoadConfig, TypeOK
    <3>6. ASSUME NEW f \in Inputs, ReadInput(f) PROVE TypeOK'
      BY <3>6, <3>4 DEF ReadInput, TypeOK
    <3>7. CASE ScanFails
      BY <3>7 DEF ScanFails, TypeOK
    <3>8. CASE ScanReturns
      <4>1. /\ notices' \in Seq(Notices) /\ Len(notices') <= KernelQueue + 1
            /\ lost' \in BOOLEAN
        BY <3>8, NotifyType, DaemonAssumption DEF ScanReturns, TypeOK
      <4> QED BY <3>8, <4>1 DEF ScanReturns, TypeOK
    <3>9. CASE Publish
      BY <3>9, OwnSeq DEF Publish, TypeOK
    <3>10. CASE record_scan_error
      BY <3>10, OwnSeq DEF record_scan_error, TypeOK
    <3>11. CASE LoopStops
      BY <3>11, DaemonAssumption DEF LoopStops, TypeOK
    <3> QED
      BY <2>4, <3>1, <3>2, <3>3, <3>5, <3>6, <3>7, <3>8, <3>9, <3>10, <3>11
      DEF LoopNext
  <2>5. CASE RescanNext
    <3> DEFINE Answers == {"none", "stamped", "badRequest", "tooMany",
                           "accepted", "unavailable"}
    <3>1. ASSUME NEW c \in Callers, RefuseRescan(c) PROVE TypeOK'
      <4>1. caller' \in [Callers -> Answers]
        BY <3>1 DEF RefuseRescan, TypeOK
      <4> QED BY <3>1, <4>1 DEF RefuseRescan, TypeOK
    <3>2. ASSUME NEW c \in Callers, StampRescan(c) PROVE TypeOK'
      <4>1. caller' \in [Callers -> Answers] /\ cooling' \in BOOLEAN
        BY <3>2 DEF StampRescan, TypeOK
      <4> QED BY <3>2, <4>1 DEF StampRescan, TypeOK
    <3>3. ASSUME NEW c \in Callers, QueueRescan(c) PROVE TypeOK'
      <4>1. caller' \in [Callers -> Answers] /\ asked' \in Reports
        BY <3>3 DEF QueueRescan, TypeOK
      <4>2. cooling' = cooling
        BY <3>3 DEF QueueRescan
      <4> QED BY <3>3, <4>1, <4>2, TrySendType DEF QueueRescan, TypeOK
    <3>4. CASE CooldownExpires
      <4>1. cooling' \in BOOLEAN /\ caller' = caller /\ asked' = asked
        BY <3>4 DEF CooldownExpires
      <4> QED BY <3>4, <4>1 DEF CooldownExpires, TypeOK
    <3> QED BY <2>5, <3>1, <3>2, <3>3, <3>4 DEF RescanNext
  <2>6. CASE UNCHANGED vars
    BY <2>6 DEF vars, TypeOK
  <2> QED BY <2>1, <2>2, <2>3, <2>4, <2>5, <2>6 DEF Next
<1> QED BY <1>1, <1>2, PTL DEF Spec

-------------------------------------------------------------------------------
(* The inductive invariant.                                                *)

\* What scan_loop's position says of start-up, the status and the events.
LoopInv ==
  /\ serve \in {"setup", "watching"} => loop = "off"
  /\ loop = "off" => status = "starting" /\ owed = <<>>
  /\ loop \in {"debounce", "begin", "reading", "publish", "failed"} => owed = <<>>
  /\ loop \in {"loading", "reading", "publish", "failed"} => status = "scanning"
  /\ loop \in {"idle", "debounce", "begin"} => status # "scanning"
  /\ loop = "publish" => toRead = {}

\* An input is accounted for: the running scan reads it later or has read
\* its current version, and an idle ready daemon has published that version.
Seen(f) ==
  /\ loop \in {"loading", "reading", "publish"} => f \in toRead \/ draft[f] = tree[f]
  /\ loop = "idle" /\ status = "ready" => report[f] = tree[f]

\* FreshWhenQuiet at every step: what is not seen has a notice or a trigger.
FreshInv ==
  WatcherAlive /\ ~lost /\ ~Pending /\ trigger = 0
    => \A f \in WatchedInputs : Seen(f)

\* RescanHonoured at every step.
AskedInv ==
  \A f \in Inputs :
    /\ asked[f] <= tree[f]
    /\ trigger = 0 /\ loop \in {"loading", "reading", "publish"}
         => f \in toRead \/ asked[f] <= draft[f]
    /\ trigger = 0 /\ loop = "idle" /\ status = "ready" => asked[f] <= report[f]

\* The loop's position determines status and events, through every abort.
LEMMA LoopInvStep ==
  ASSUME TypeOK, LoopInv, [Next]_vars
  PROVE  LoopInv'
<1> USE DEF serveVars, diskVars, noticeVars, scanVars, reportVars, rescanVars
<1>1. CASE ServeNext
  BY <1>1 DEF ServeNext, Watch, SpawnLoop, QueueInitialScan, Bind, Signal,
              ServerStops, Exit, LoopInv
<1>2. CASE DiskNext \/ Deliver
  BY <1>2 DEF DiskNext, Deliver, Edit, Noise, LoopInv
<1>3. CASE LoopNext
  <2>1. CASE Receive \/ Drain \/ BeginScan
    BY <2>1 DEF Receive, Drain, BeginScan, LoopInv
  <2>2. CASE emit
    BY <2>2 DEF emit, LoopInv
  <2>3. CASE LoadConfig \/ ScanFails \/ ScanReturns
    BY <2>3 DEF LoadConfig, ScanFails, ScanReturns, LoopInv
  <2>4. ASSUME NEW f \in Inputs, ReadInput(f) PROVE LoopInv'
    BY <2>4 DEF ReadInput, LoopInv
  <2>5. CASE Publish \/ record_scan_error \/ LoopStops
    BY <2>5 DEF Publish, record_scan_error, LoopStops, LoopInv
  <2> QED BY <1>3, <2>1, <2>2, <2>3, <2>4, <2>5 DEF LoopNext
<1>4. CASE RescanNext
  BY <1>4 DEF RescanNext, RefuseRescan, StampRescan, QueueRescan,
              CooldownExpires, LoopInv
<1>5. CASE UNCHANGED vars
  BY <1>5 DEF vars, LoopInv
<1> QED BY <1>1, <1>2, <1>3, <1>4, <1>5 DEF Next

\* A notice that matters is pending or counted as lost; the queue forgets none.
LEMMA NotifyPending ==
  ASSUME TypeOK, NEW n \in Notices, Notify(n), WatcherAlive
  PROVE  /\ Pending => Pending'
         /\ RequiresRescan(n) => Pending' \/ lost'
         /\ lost => lost'
<1>0. lost => lost'
  BY DEF Notify
<1>1. CASE Len(notices) < KernelQueue
  <2>1. notices' = Append(notices, n)
    BY <1>1 DEF Notify
  <2> QED BY <1>0, <2>1 DEF TypeOK, Pending, Relevant
<1>2. CASE Len(notices) >= KernelQueue
  <2>1. lost' = (lost \/ (RequiresRescan(n) /\ ~Pending))
    BY <1>2 DEF Notify
  <2>2. notices' = notices \/ notices' = Append(notices, Overflow)
    BY <1>2, DaemonAssumption DEF Notify, TypeOK
  <2>3. Pending => Pending'
    BY <2>2 DEF TypeOK, Pending, Relevant
  <2> QED BY <2>1, <2>3
<1> QED BY <1>1, <1>2, DaemonAssumption DEF TypeOK

\* Handling the first notice either sends the trigger or leaves a relevant one.
LEMMA TailRelevant ==
  ASSUME NEW s \in Seq(Notices), s # <<>>, Relevant(s)
  PROVE  RequiresRescan(Head(s)) \/ Relevant(Tail(s))
<1>1. PICK i \in 1 .. Len(s) : RequiresRescan(s[i])
  BY DEF Relevant
<1>2. CASE i = 1
  BY <1>1, <1>2
<1>3. CASE i # 1
  <2>1. i - 1 \in 1 .. Len(Tail(s)) /\ Tail(s)[i - 1] = s[i]
    BY <1>3
  <2> QED BY <1>1, <2>1 DEF Relevant
<1> QED BY <1>2, <1>3

\* Watcher, trigger, drain and reads together lose no edit of a watched input.
LEMMA FreshInvStep ==
  ASSUME TypeOK, LoopInv, FreshInv, [Next]_vars
  PROVE  FreshInv'
<1> USE DEF serveVars, diskVars, noticeVars, scanVars, reportVars, rescanVars
<1> SUFFICES ASSUME WatcherAlive', ~lost', ~Pending', trigger' = 0,
                    NEW f \in WatchedInputs
             PROVE  Seen(f)'
  BY DEF FreshInv, WatchedInputs
<1>f. f \in Inputs /\ RequiresRescan(Notice("data", Place[f]))
  BY DEF WatchedInputs, RequiresRescan, event_requires_rescan,
         git_requires_rescan, Notice, RescanKinds
\* A step that leaves the disk, the notices, the loop and the snapshot alone.
<1>0. ASSUME UNCHANGED <<diskVars, noticeVars, loop, scanVars, reportVars>>,
             trigger = 0, WatcherAlive \/ loop = "off"
      PROVE  Seen(f)'
  BY <1>0 DEF FreshInv, Seen, Pending
<1>1. CASE ServeNext
  <2>1. CASE Watch
    BY <2>1 DEF Watch, LoopInv, Seen
  <2>2. CASE SpawnLoop
    BY <2>2 DEF SpawnLoop, LoopInv, Seen
  <2>3. CASE QueueInitialScan
    BY <2>3, <1>0, TrySendType DEF QueueInitialScan, WatcherAlive, TypeOK
  <2>4. CASE Bind \/ Signal
    BY <2>4, <1>0 DEF Bind, Signal, WatcherAlive
  <2>5. CASE ServerStops \/ Exit
    BY <2>5 DEF ServerStops, Exit, WatcherAlive
  <2> QED BY <1>1, <2>1, <2>2, <2>3, <2>4, <2>5 DEF ServeNext
<1>2. CASE DiskNext
  <2>1. ASSUME NEW g \in Inputs, Edit(g) PROVE Seen(f)'
    <3>1. WatcherAlive /\ Notify(Notice("data", Place[g])) /\ trigger = 0
      BY <2>1 DEF Edit, WatcherAlive
    <3>2. Notice("data", Place[g]) \in Notices
      BY DaemonAssumption DEF Notice, Notices, Kinds
    <3>3. ~RequiresRescan(Notice("data", Place[g])) /\ ~Pending /\ ~lost
      BY <3>1, <3>2, NotifyPending
    <3>4. g # f
      BY <3>3, <1>f
    <3>5. tree'[f] = tree[f]
      BY <2>1, <3>4, <1>f DEF Edit, TypeOK, Reports
    <3>6. Seen(f)
      BY <3>1, <3>3 DEF FreshInv
    <3> QED BY <2>1, <3>5, <3>6 DEF Edit, Seen
  <2>2. ASSUME NEW n \in NoiseNotices, Noise(n) PROVE Seen(f)'
    <3>1. WatcherAlive /\ Notify(n) /\ trigger = 0 /\ n \in Notices
      BY <2>2, DaemonAssumption DEF Noise, WatcherAlive
    <3>2. ~Pending /\ ~lost
      BY <3>1, NotifyPending
    <3> QED BY <2>2, <3>1, <3>2 DEF FreshInv, Noise, Seen
  <2> QED BY <1>2, <2>1, <2>2 DEF DiskNext
<1>3. CASE Deliver
  <2>1. CASE loop = "stopped"
    BY <1>3, <2>1 DEF Deliver, Seen
  <2>2. CASE loop # "stopped"
    <3>1. ~RequiresRescan(Head(notices)) /\ trigger = 0
      BY <1>3, <2>2, TrySendType DEF Deliver, TypeOK
    <3>2. ~Pending
      BY <1>3, <3>1, TailRelevant DEF Deliver, Pending, TypeOK
    <3> QED BY <1>3, <3>1, <3>2 DEF Deliver, FreshInv, Seen
  <2> QED BY <2>1, <2>2
<1>4. CASE LoopNext
  <2>1. CASE Receive \/ Drain \/ LoopStops \/ ScanFails \/ record_scan_error
    BY <2>1 DEF Receive, Drain, LoopStops, ScanFails, record_scan_error, Seen
  <2>2. CASE BeginScan
    BY <2>2, <1>f DEF BeginScan, Seen
  <2>3. CASE emit
    BY <2>3 DEF emit, FreshInv, Seen, WatcherAlive, Pending
  <2>4. CASE LoadConfig
    <3>1. CASE cfgValid
      <4>1. Seen(f) /\ ReadNow(ConfigFile) /\ tree' = tree /\ loop' = "reading"
            /\ loop = "loading"
        BY <2>4, <3>1 DEF LoadConfig, FreshInv, WatcherAlive, Pending
      <4> QED BY <4>1, <1>f, DaemonAssumption DEF ReadNow, Seen, TypeOK, Reports
    <3>2. CASE ~cfgValid
      BY <2>4, <3>2 DEF LoadConfig, Seen
    <3> QED BY <3>1, <3>2
  <2>5. ASSUME NEW g \in Inputs, ReadInput(g) PROVE Seen(f)'
    <3>1. Seen(f) /\ ReadNow(g) /\ tree' = tree /\ loop = "reading"
          /\ loop' = loop
      BY <2>5 DEF ReadInput, FreshInv, WatcherAlive, Pending
    <3> QED BY <3>1, <1>f DEF ReadNow, Seen, TypeOK, Reports
  <2>6. CASE ScanReturns
    <3>1. ~Pending /\ ~lost /\ WatcherAlive /\ trigger = 0
      <4>1. WatcherAlive /\ trigger = 0
        BY <2>6 DEF ScanReturns, WatcherAlive
      <4>2. CASE UNCHANGED noticeVars
        BY <4>1, <4>2 DEF Pending
      <4>3. ASSUME NEW n \in OwnNotices, Notify(n) PROVE ~Pending /\ ~lost
        BY <4>1, <4>3, NotifyPending, DaemonAssumption
      <4> QED BY <2>6, <4>1, <4>2, <4>3 DEF ScanReturns
    <3> QED BY <2>6, <3>1 DEF ScanReturns, FreshInv, Seen
  <2>7. CASE Publish
    BY <2>7 DEF Publish, FreshInv, Seen, WatcherAlive, Pending, LoopInv
  <2> QED BY <1>4, <2>1, <2>2, <2>3, <2>4, <2>5, <2>6, <2>7 DEF LoopNext
<1>5. CASE RescanNext
  <2>1. ASSUME NEW c \in Callers, RefuseRescan(c) \/ StampRescan(c)
        PROVE  Seen(f)'
    BY <2>1, <1>0 DEF RefuseRescan, StampRescan, WatcherAlive
  <2>2. ASSUME NEW c \in Callers, QueueRescan(c) PROVE Seen(f)'
    BY <2>2, <1>0, TrySendType DEF QueueRescan, WatcherAlive, TypeOK
  <2>3. CASE CooldownExpires
    BY <2>3, <1>0 DEF CooldownExpires, WatcherAlive
  <2> QED BY <1>5, <2>1, <2>2, <2>3 DEF RescanNext
<1>6. CASE UNCHANGED vars
  BY <1>6, <1>0 DEF vars, WatcherAlive
<1> QED BY <1>1, <1>2, <1>3, <1>4, <1>5, <1>6 DEF Next

\* A rescan accepted after the drain leaves its trigger; one accepted before
\* is read by the scan that follows.
LEMMA AskedInvStep ==
  ASSUME TypeOK, LoopInv, AskedInv, [Next]_vars
  PROVE  AskedInv'
<1> USE DEF serveVars, diskVars, noticeVars, scanVars, reportVars, rescanVars
<1> DEFINE Asked(f) ==
      /\ asked[f] <= tree[f]
      /\ trigger = 0 /\ loop \in {"loading", "reading", "publish"}
           => f \in toRead \/ asked[f] <= draft[f]
      /\ trigger = 0 /\ loop = "idle" /\ status = "ready"
           => asked[f] <= report[f]
<1> SUFFICES ASSUME NEW f \in Inputs PROVE Asked(f)'
  BY DEF AskedInv
<1>a. Asked(f)
  BY DEF AskedInv
<1>t. /\ tree[f] \in Nat /\ draft[f] \in Nat /\ asked[f] \in Nat
      /\ trigger \in Nat
  BY DaemonAssumption DEF TypeOK, Reports
<1>1. CASE ServeNext
  <2>1. CASE QueueInitialScan
    BY <2>1, <1>a, <1>t, TrySendType DEF QueueInitialScan, TypeOK
  <2>2. CASE SpawnLoop
    BY <2>2, <1>a DEF SpawnLoop, LoopInv
  <2>3. CASE Watch \/ Bind \/ Signal \/ ServerStops \/ Exit
    BY <2>3, <1>a DEF Watch, Bind, Signal, ServerStops, Exit
  <2> QED BY <1>1, <2>1, <2>2, <2>3 DEF ServeNext
<1>2. CASE DiskNext
  <2>1. ASSUME NEW g \in Inputs, Edit(g) PROVE Asked(f)'
    <3>1. asked[f] <= tree'[f]
      BY <2>1, <1>a, <1>t DEF Edit, TypeOK, Reports
    <3> QED BY <2>1, <3>1, <1>a DEF Edit
  <2>2. ASSUME NEW n \in NoiseNotices, Noise(n) PROVE Asked(f)'
    BY <2>2, <1>a DEF Noise
  <2> QED BY <1>2, <2>1, <2>2 DEF DiskNext
<1>3. CASE Deliver
  <2>1. trigger' >= trigger
    BY <1>3, <1>t, TrySendType DEF Deliver
  <2> QED BY <1>3, <2>1, <1>a, <1>t, TrySendType DEF Deliver, TypeOK
<1>4. CASE LoopNext
  <2>1. CASE Receive \/ Drain \/ BeginScan \/ emit
    BY <2>1, <1>a DEF Receive, Drain, BeginScan, emit
  <2>2. ASSUME NEW g \in Inputs, ReadNow(g), tree' = tree, asked' = asked,
               trigger' = trigger, loop \in {"loading", "reading"},
               loop' \in {"loading", "reading"}
        PROVE  Asked(f)'
    BY <2>2, <1>a, <1>t DEF ReadNow, TypeOK, Reports
  <2>3. CASE LoadConfig
    <3>1. CASE cfgValid
      BY <2>3, <3>1, <2>2, DaemonAssumption DEF LoadConfig
    <3>2. CASE ~cfgValid
      BY <2>3, <3>2, <1>a DEF LoadConfig
    <3> QED BY <3>1, <3>2
  <2>4. ASSUME NEW g \in Inputs, ReadInput(g) PROVE Asked(f)'
    BY <2>4, <2>2 DEF ReadInput
  <2>5. CASE ScanFails \/ ScanReturns \/ record_scan_error \/ LoopStops
    BY <2>5, <1>a DEF ScanFails, ScanReturns, record_scan_error, LoopStops
  <2>6. CASE Publish
    BY <2>6, <1>a DEF Publish, LoopInv
  <2> QED BY <1>4, <2>1, <2>3, <2>4, <2>5, <2>6 DEF LoopNext
<1>5. CASE RescanNext
  <2>1. ASSUME NEW c \in Callers, QueueRescan(c) PROVE Asked(f)'
    <3>1. CASE TriggerClosed
      BY <2>1, <3>1, <1>a DEF QueueRescan, TriggerClosed
    <3>2. CASE ~TriggerClosed
      <4>1. trigger' # 0
        BY <2>1, <3>2, TrySendType DEF QueueRescan, TriggerClosed, TypeOK
      <4> QED BY <2>1, <3>2, <4>1, <1>t DEF QueueRescan
    <3> QED BY <3>1, <3>2
  <2>2. CASE CooldownExpires
    BY <2>2, <1>a DEF CooldownExpires
  <2>3. ASSUME NEW c \in Callers, RefuseRescan(c) \/ StampRescan(c)
        PROVE  Asked(f)'
    BY <2>3, <1>a DEF RefuseRescan, StampRescan
  <2> QED BY <1>5, <2>1, <2>2, <2>3 DEF RescanNext
<1>6. CASE UNCHANGED vars
  BY <1>6, <1>a DEF vars
<1> QED BY <1>1, <1>2, <1>3, <1>4, <1>5, <1>6 DEF Next

-------------------------------------------------------------------------------
(* The theorems.                                                           *)

\* The inductive invariant holds in every behaviour of the daemon.
THEOREM Inductive == Spec => [](LoopInv /\ FreshInv /\ AskedInv)
<1>1. Init => LoopInv /\ FreshInv /\ AskedInv
  <2> SUFFICES ASSUME Init PROVE LoopInv /\ FreshInv /\ AskedInv
    OBVIOUS
  <2>1. LoopInv /\ FreshInv
    BY DEF Init, Live!ReportInit, LoopInv, FreshInv, WatcherAlive
  <2>2. AskedInv
    <3>1. loop = "off" /\ asked = tree /\ tree = [f \in Inputs |-> 0]
      BY DEF Init
    <3>2. ASSUME NEW f \in Inputs PROVE asked[f] <= tree[f]
      <4>1. asked[f] = 0 /\ tree[f] = 0
        BY <3>1
      <4> QED BY <4>1
    <3>3. loop # "idle" /\ loop \notin {"loading", "reading", "publish"}
      BY <3>1
    <3> QED BY <3>2, <3>3, Zenon DEF AskedInv
  <2> QED BY <2>1, <2>2
<1>2. TypeOK /\ LoopInv /\ FreshInv /\ AskedInv /\ [Next]_vars
        => LoopInv' /\ FreshInv' /\ AskedInv'
  BY LoopInvStep, FreshInvStep, AskedInvStep
<1> QED BY <1>1, <1>2, TypeCorrect, PTL DEF Spec

\* A quiet, ready daemon shows every watched input as it is on disk.
THEOREM Freshness == Spec => []FreshWhenQuiet
<1>1. FreshInv => FreshWhenQuiet
  BY DEF FreshInv, FreshWhenQuiet, Quiet, Seen
<1> QED BY <1>1, Inductive, PTL

\* A rescan that was accepted is honoured by what is published after it.
THEOREM RescansHonoured == Spec => []RescanHonoured
<1>1. TypeOK /\ AskedInv => RescanHonoured
  BY DEF AskedInv, RescanHonoured, Quiet
<1> QED BY <1>1, Inductive, TypeCorrect, PTL

\* The scan service implements LiveReport, aborts and failures included.
THEOREM Refinement == Spec => KeepsLivePromise
<1> USE DEF serveVars, diskVars, noticeVars, scanVars, reportVars, rescanVars,
            Live!reportVars
<1>1. Init => Live!ReportInit
  BY DEF Init
<1>2. TypeOK /\ LoopInv /\ [Next]_vars => [Live!ReportNext]_(Live!reportVars)
  <2> SUFFICES ASSUME TypeOK, LoopInv, Next
               PROVE  Live!ReportNext \/ UNCHANGED reportVars
    BY DEF vars
  <2>1. CASE ServeNext \/ DiskNext \/ Deliver \/ RescanNext
    BY <2>1 DEF ServeNext, Watch, SpawnLoop, QueueInitialScan, Bind, Signal,
                ServerStops, Exit, DiskNext, Edit, Noise, Deliver, RescanNext,
                RefuseRescan, StampRescan, QueueRescan, CooldownExpires
  <2>2. CASE LoopNext
    <3>1. CASE BeginScan
      BY <3>1 DEF BeginScan, LoopInv, Live!ReportNext, Live!Begin
    <3>2. CASE Publish
      BY <3>2 DEF Publish, LoopInv, TypeOK, Live!ReportNext, Live!Complete
    <3>3. CASE record_scan_error
      BY <3>3 DEF record_scan_error, LoopInv, Live!ReportNext, Live!Fail
    <3>4. CASE emit
      BY <3>4 DEF emit, Live!ReportNext, Live!Announce
    <3>5. CASE Receive \/ Drain \/ LoadConfig \/ ScanFails \/ ScanReturns
               \/ LoopStops \/ \E f \in Inputs : ReadInput(f)
      BY <3>5 DEF Receive, Drain, LoadConfig, ScanFails, ScanReturns, LoopStops,
                  ReadInput
    <3> QED BY <2>2, <3>1, <3>2, <3>3, <3>4, <3>5 DEF LoopNext
  <2> QED BY <2>1, <2>2 DEF Next
<1> QED
  BY <1>1, <1>2, TypeCorrect, Inductive, PTL
  DEF Spec, KeepsLivePromise, Live!ReportSpec

Promise == INSTANCE LiveReport_proofs

\* What emit broadcasts retells the snapshot: a consequence of the promise,
\* which the refinement carries over to the scan service.
THEOREM EventsInOrder == Spec => []EventsRetellSnapshot
<1>1. NoReport \notin Reports
  BY DaemonAssumption
<1>2. Promise!ReportSpec => [](Promise!ReportTypeOK /\ Promise!EventsRetellSnapshot)
  BY <1>1, Promise!EventsRetold
<1>3. Live!ReportInit => Promise!ReportInit
  BY DEF Live!ReportInit, Promise!ReportInit
<1>4. [Live!ReportNext]_(Live!reportVars) => [Promise!ReportNext]_(Promise!reportVars)
  BY DEF Live!ReportNext, Live!Begin, Live!Complete, Live!Fail, Live!Announce,
         Live!DaemonEvent, Live!reportVars, Promise!ReportNext, Promise!Begin,
         Promise!Complete, Promise!Fail, Promise!Announce, Promise!DaemonEvent,
         Promise!reportVars
<1>5. Promise!EventsRetellSnapshot => EventsRetellSnapshot
  BY DEF EventsRetellSnapshot, Promise!EventsRetellSnapshot,
         Live!EventsRetellSnapshot
<1> QED
  BY <1>2, <1>3, <1>4, <1>5, Refinement, PTL
  DEF KeepsLivePromise, Live!ReportSpec, Promise!ReportSpec

-------------------------------------------------------------------------------
(***************************************************************************)
(* What a scan writes itself lies where the watcher looks away: in the log *)
(* that it excludes, in a directory that it ignores or outside the target. *)
(***************************************************************************)
OwnNoticesIgnored ==
  \A n \in OwnNotices : n.place \in {"generated", "excluded", "outside"}

Marks == {i \in DOMAIN notices : RequiresRescan(notices[i])}
Begins == {i \in DOMAIN (log \o owed) : (log \o owed)[i].kind = "started"}
Accepted == {c \in Callers : caller[c] = "accepted"}

\* A cause that has not led to a scan yet: the initial trigger, a notice, a
\* message in the channel, or the scan that is about to begin.
Initial == IF serve \in {"setup", "watching", "spawned"} THEN 1 ELSE 0
Underway == IF loop \in {"debounce", "begin"} THEN 1 ELSE 0

\* CausesInv is inductive: every scan used a cause up, and none is used twice.
CausesInv ==
  Cardinality(Begins) + Underway + trigger + Cardinality(Marks) + Initial
    <= 1 + edits + noise + Cardinality(Accepted)

\* Places in a sequence can be counted.
LEMMA PlacesAreFinite ==
  ASSUME NEW S, NEW s \in Seq(S), NEW M \in SUBSET DOMAIN s
  PROVE  IsFiniteSet(M) /\ Cardinality(M) \in Nat
<1>1. DOMAIN s = 1..Len(s) /\ 1 \in Int /\ Len(s) \in Int
  OBVIOUS
<1>2. IsFiniteSet(DOMAIN s)
  BY <1>1, FS_Interval
<1> QED
  BY <1>2, FS_Subset, FS_CardinalityType

\* The sets that are counted are finite.
LEMMA CountsAreFinite ==
  ASSUME TypeOK
  PROVE  /\ IsFiniteSet(Marks) /\ Cardinality(Marks) \in Nat
         /\ IsFiniteSet(Begins) /\ Cardinality(Begins) \in Nat
         /\ IsFiniteSet(Accepted) /\ Cardinality(Accepted) \in Nat
         /\ Initial \in {0, 1} /\ Underway \in {0, 1}
         /\ trigger \in Nat /\ edits \in Nat /\ noise \in Nat
<1>1. IsFiniteSet(Marks) /\ Cardinality(Marks) \in Nat
  BY PlacesAreFinite DEF TypeOK, Marks
<1>2. IsFiniteSet(Begins) /\ Cardinality(Begins) \in Nat
  <2>1. log \o owed \in Seq(Live!DaemonEvents)
    BY DEF TypeOK, Live!ReportTypeOK
  <2> QED BY <2>1, PlacesAreFinite DEF Begins
<1>3. IsFiniteSet(Accepted) /\ Cardinality(Accepted) \in Nat
  BY DaemonAssumption, FS_Subset, FS_CardinalityType DEF Accepted
<1>4. trigger \in Nat /\ edits \in Nat /\ noise \in Nat
  BY DaemonAssumption DEF TypeOK
<1> QED
  BY <1>1, <1>2, <1>3, <1>4 DEF Initial, Underway

\* A notice adds one mark at most, and none when the watcher ignores it.
LEMMA NotifyMarks ==
  ASSUME TypeOK, NEW n \in Notices, Notify(n)
  PROVE  /\ Cardinality(Marks') <= Cardinality(Marks) + 1
         /\ ~RequiresRescan(n) => Cardinality(Marks') = Cardinality(Marks)
<1>1. IsFiniteSet(Marks) /\ Cardinality(Marks) \in Nat
  BY CountsAreFinite
<1>2. notices \in Seq(Notices) /\ Len(notices) \in Nat
  BY DEF TypeOK
<1>3. ~RequiresRescan(Overflow)
  BY DEF Overflow, Notice, RequiresRescan, event_requires_rescan, git_requires_rescan
<1>4. CASE notices' = notices
  BY <1>1, <1>4 DEF Marks
<1>5. ASSUME NEW m \in Notices, notices' = Append(notices, m), RequiresRescan(m) => m = n
      PROVE  /\ Cardinality(Marks') <= Cardinality(Marks) + 1
             /\ ~RequiresRescan(n) => Cardinality(Marks') = Cardinality(Marks)
  <2>1. CASE RequiresRescan(m)
    <3>1. Marks' = Marks \cup {Len(notices) + 1}
      BY <1>2, <1>5, <2>1 DEF Marks
    <3>2. Len(notices) + 1 \notin Marks
      BY <1>2 DEF Marks
    <3>3. Cardinality(Marks') = Cardinality(Marks) + 1
      BY <1>1, <3>1, <3>2, FS_AddElement
    <3>4. RequiresRescan(n)
      BY <1>5, <2>1
    <3> QED BY <3>3, <3>4, <1>1
  <2>2. CASE ~RequiresRescan(m)
    <3>1. Marks' = Marks
      BY <1>2, <1>5, <2>2 DEF Marks
    <3> QED BY <1>1, <3>1
  <2> QED BY <2>1, <2>2
<1>6. \/ notices' = notices \/ notices' = Append(notices, n)
      \/ notices' = Append(notices, Overflow)
  BY DEF Notify, noticeVars
<1>7. Overflow \in Notices
  BY DEF Overflow, Notice, Notices, Kinds, Places
<1> QED
  BY <1>3, <1>4, <1>5, <1>6, <1>7

\* The watcher's callback takes the first notice with its mark.
LEMMA DeliverMarks ==
  ASSUME TypeOK, notices # <<>>, notices' = Tail(notices)
  PROVE  /\ Cardinality(Marks') <= Cardinality(Marks)
         /\ RequiresRescan(Head(notices)) => Cardinality(Marks') + 1 <= Cardinality(Marks)
<1>1. IsFiniteSet(Marks) /\ Cardinality(Marks) \in Nat
  BY CountsAreFinite
<1>2. /\ notices \in Seq(Notices) /\ Len(notices) \in Nat /\ Len(notices) >= 1
      /\ Head(notices) = notices[1] /\ Len(notices') = Len(notices) - 1
      /\ DOMAIN notices' = 1..(Len(notices) - 1) /\ DOMAIN notices = 1..Len(notices)
      /\ \A i \in 1..(Len(notices) - 1) : notices'[i] = notices[i + 1]
  BY DEF TypeOK
<1> DEFINE later == Marks \ {1}
           shift == [i \in Marks' |-> i + 1]
<1>3. IsFiniteSet(later) /\ Cardinality(later) \in Nat
      /\ Cardinality(later) = IF 1 \in Marks THEN Cardinality(Marks) - 1 ELSE Cardinality(Marks)
  BY <1>1, FS_RemoveElement, FS_CardinalityType
<1>4. \A i \in Marks' : i \in Nat /\ i >= 1 /\ i + 1 \in later
  BY <1>2 DEF Marks
<1>5. shift \in Injection(Marks', later)
  <2>1. shift \in [Marks' -> later] /\ \A i, j \in Marks' : shift[i] = shift[j] => i = j
    BY <1>4
  <2> HIDE DEF shift, later
  <2> QED BY <2>1, Fun_IsInj
<1>6. Cardinality(Marks') <= Cardinality(later)
  BY <1>3, <1>5, FS_Injection
<1>7. IsFiniteSet(Marks') /\ Cardinality(Marks') \in Nat
  BY <1>3, <1>5, FS_Injection, FS_CardinalityType
<1>8. RequiresRescan(Head(notices)) => 1 \in Marks
  BY <1>2 DEF Marks
<1> HIDE DEF later, shift
<1> QED
  BY <1>1, <1>3, <1>6, <1>7, <1>8

\* try_send adds one message at most.
LEMMA TrySendAdds ==
  ASSUME TypeOK, TrySend
  PROVE  trigger' \in Nat /\ trigger' <= trigger + 1 /\ (TriggerClosed => trigger' = trigger)
BY DaemonAssumption DEF TrySend, TypeOK

\* An event is owed: it begins a scan or it does not.
LEMMA OwedBegins ==
  ASSUME TypeOK, owed = <<>>, log' = log, NEW e, owed' = <<e>>,
         e \in Live!DaemonEvents
  PROVE  /\ e.kind # "started" => Cardinality(Begins') = Cardinality(Begins)
         /\ Cardinality(Begins') <= Cardinality(Begins) + 1
<1>1. log \in Seq(Live!DaemonEvents) /\ Len(log) \in Nat
  BY DEF TypeOK, Live!ReportTypeOK
<1>2. log \o owed = log /\ log' \o owed' = Append(log, e)
  BY <1>1
<1>3. IsFiniteSet(Begins) /\ Cardinality(Begins) \in Nat
  BY CountsAreFinite
<1>4. Begins = {i \in 1..Len(log) : log[i].kind = "started"}
  BY <1>1, <1>2 DEF Begins
<1>5. Begins' = {i \in 1..(Len(log) + 1) : Append(log, e)[i].kind = "started"}
  BY <1>1, <1>2 DEF Begins
<1>6. CASE e.kind = "started"
  <2>1. Begins' = Begins \cup {Len(log) + 1}
    BY <1>1, <1>4, <1>5, <1>6
  <2>2. Len(log) + 1 \notin Begins
    BY <1>1, <1>4
  <2>3. Cardinality(Begins') = Cardinality(Begins) + 1
    BY <1>3, <2>1, <2>2, FS_AddElement
  <2> QED BY <1>3, <1>6, <2>3
<1>7. CASE e.kind # "started"
  <2>1. Begins' = Begins
    BY <1>1, <1>4, <1>5, <1>7
  <2> QED BY <1>3, <2>1
<1> QED BY <1>6, <1>7

\* No step of the service, of the disk or of a client uses a cause twice.
LEMMA CausesStep ==
  ASSUME OwnNoticesIgnored, TypeOK, TypeOK', LoopInv, CausesInv, [Next]_vars
  PROVE  CausesInv'
<1> USE DEF serveVars, diskVars, noticeVars, scanVars, reportVars, rescanVars
<1>a. /\ Cardinality(Marks) \in Nat /\ Cardinality(Begins) \in Nat
      /\ Cardinality(Accepted) \in Nat /\ Initial \in {0, 1} /\ Underway \in {0, 1}
      /\ trigger \in Nat /\ edits \in Nat /\ noise \in Nat
      /\ Cardinality(Marks') \in Nat /\ Cardinality(Begins') \in Nat
      /\ Cardinality(Accepted') \in Nat /\ Initial' \in {0, 1} /\ Underway' \in {0, 1}
      /\ trigger' \in Nat /\ edits' \in Nat /\ noise' \in Nat
  <2>1. /\ Cardinality(Marks) \in Nat /\ Cardinality(Begins) \in Nat
        /\ Cardinality(Accepted) \in Nat /\ Initial \in {0, 1} /\ Underway \in {0, 1}
        /\ trigger \in Nat /\ edits \in Nat /\ noise \in Nat
    BY CountsAreFinite
  <2>2. (/\ Cardinality(Marks) \in Nat /\ Cardinality(Begins) \in Nat
         /\ Cardinality(Accepted) \in Nat /\ Initial \in {0, 1} /\ Underway \in {0, 1}
         /\ trigger \in Nat /\ edits \in Nat /\ noise \in Nat)'
    <3>1. Cardinality(Marks') \in Nat
      BY PlacesAreFinite DEF TypeOK, Marks
    <3>2. Cardinality(Begins') \in Nat
      <4>1. log' \o owed' \in Seq(Live!DaemonEvents)
        BY DEF TypeOK, Live!ReportTypeOK
      <4> QED BY <4>1, PlacesAreFinite DEF Begins
    <3>3. Cardinality(Accepted') \in Nat
      BY DaemonAssumption, FS_Subset, FS_CardinalityType DEF Accepted
    <3>4. trigger' \in Nat /\ edits' \in Nat /\ noise' \in Nat
      BY DaemonAssumption DEF TypeOK
    <3> QED BY <3>1, <3>2, <3>3, <3>4 DEF Initial, Underway
  <2> QED BY <2>1, <2>2
<1>b. notices' = notices => Marks' = Marks
  BY DEF Marks
<1>c. UNCHANGED <<log, owed>> => Begins' = Begins
  BY DEF Begins
<1>d. UNCHANGED caller => Accepted' = Accepted
  BY DEF Accepted
<1>e. UNCHANGED serve => Initial' = Initial
  BY DEF Initial
<1>f. UNCHANGED loop => Underway' = Underway
  BY DEF Underway
<1>1. CASE ServeNext
  <2>0. /\ notices' = notices /\ UNCHANGED <<log, owed, caller, edits, noise>>
        /\ Underway' = Underway
    BY <1>1, <1>f DEF ServeNext, Watch, SpawnLoop, QueueInitialScan, Bind, Signal, ServerStops,
       Exit, Underway, LoopInv
  <2>1. CASE QueueInitialScan
    <3>1. Initial = 1 /\ Initial' = 0 /\ TrySend
      BY <2>1 DEF QueueInitialScan, Initial
    <3> QED BY <1>a, <1>b, <1>c, <1>d, <2>0, <3>1, TrySendAdds DEF CausesInv
  <2>2. CASE Watch \/ SpawnLoop \/ Bind \/ Signal \/ ServerStops \/ Exit
    <3>1. Initial' <= Initial /\ trigger' = trigger
      BY <2>2 DEF Watch, SpawnLoop, Bind, Signal, ServerStops, Exit, Initial
    <3> QED BY <1>a, <1>b, <1>c, <1>d, <2>0, <3>1 DEF CausesInv
  <2> QED BY <1>1, <2>1, <2>2 DEF ServeNext
<1>2. CASE DiskNext
  <2>1. ASSUME NEW n \in Notices, Notify(n),
               \/ edits' = edits + 1 /\ noise' = noise
               \/ edits' = edits /\ noise' = noise + 1,
               UNCHANGED <<serve, trigger, loop, log, owed, caller>>
        PROVE  CausesInv'
    <3>1. Cardinality(Marks') <= Cardinality(Marks) + 1
      BY <2>1, NotifyMarks
    <3>2. /\ Begins' = Begins /\ Accepted' = Accepted /\ Initial' = Initial
          /\ Underway' = Underway /\ trigger' = trigger
      BY <1>c, <1>d, <1>e, <1>f, <2>1
    <3> QED BY <1>a, <2>1, <3>1, <3>2 DEF CausesInv
  <2>2. ASSUME NEW f \in Inputs, Edit(f) PROVE CausesInv'
    <3>1. Notice("data", Place[f]) \in Notices
      BY DaemonAssumption DEF Notice, Notices, Kinds
    <3> QED BY <1>a, <2>1, <2>2, <3>1 DEF Edit
  <2>3. ASSUME NEW n \in NoiseNotices, Noise(n) PROVE CausesInv'
    BY <1>a, <2>1, <2>3, DaemonAssumption DEF Noise
  <2> QED BY <1>2, <2>2, <2>3 DEF DiskNext
<1>3. CASE Deliver
  <2>1. /\ UNCHANGED <<serve, loop, log, owed, caller, edits, noise>>
        /\ notices # <<>> /\ notices' = Tail(notices)
    BY <1>3 DEF Deliver
  <2>2. \/ RequiresRescan(Head(notices)) /\ trigger' <= trigger + 1
        \/ trigger' = trigger
    BY <1>3, TrySendAdds DEF Deliver
  <2>3. /\ Begins' = Begins /\ Accepted' = Accepted /\ Initial' = Initial
        /\ Underway' = Underway /\ edits' = edits /\ noise' = noise
    BY <1>c, <1>d, <1>e, <1>f, <2>1
  <2>4. trigger' + Cardinality(Marks') <= trigger + Cardinality(Marks)
    BY <1>a, <2>1, <2>2, DeliverMarks
  <2> QED BY <1>a, <2>3, <2>4 DEF CausesInv
<1>4. CASE LoopNext
  <2>0. UNCHANGED <<serve, caller, edits, noise>>
    BY <1>4 DEF LoopNext, Receive, Drain, BeginScan, emit, LoadConfig, ReadInput, ScanFails,
       ScanReturns, Publish, record_scan_error, LoopStops
  <2>1. CASE Receive
    <3>1. Underway = 0 /\ Underway' = 1 /\ trigger' = trigger - 1
      BY <2>1 DEF Receive, Underway
    <3>2. UNCHANGED <<notices, log, owed>>
      BY <2>1 DEF Receive
    <3> QED BY <1>a, <1>b, <1>c, <1>d, <1>e, <2>0, <3>1, <3>2 DEF CausesInv
  <2>2. CASE Drain \/ LoopStops
    <3>1. Underway' <= Underway /\ trigger' <= trigger
      BY <1>a, <2>2 DEF Drain, LoopStops, Underway
    <3>2. UNCHANGED <<notices, log, owed>>
      BY <2>2 DEF Drain, LoopStops
    <3> QED BY <1>a, <1>b, <1>c, <1>d, <1>e, <2>0, <3>1, <3>2 DEF CausesInv
  <2>3. CASE BeginScan
    <3>1. Underway = 1 /\ Underway' = 0 /\ trigger' = trigger /\ notices' = notices
      BY <2>3 DEF BeginScan, Underway
    <3>2. owed = <<>> /\ log' = log /\ owed' = <<Live!DaemonEvent("started", revision)>>
      BY <2>3 DEF BeginScan, LoopInv
    <3>3. Live!DaemonEvent("started", revision) \in Live!DaemonEvents
      BY DEF TypeOK, Live!ReportTypeOK, Live!DaemonEvent, Live!DaemonEvents, Live!EventKinds
    <3>4. Cardinality(Begins') <= Cardinality(Begins) + 1
      BY <3>2, <3>3, OwedBegins
    <3> QED BY <1>a, <1>b, <1>d, <1>e, <2>0, <3>1, <3>4 DEF CausesInv
  <2>4. CASE emit
    <3>1. UNCHANGED <<loop, trigger, notices>>
      BY <2>4 DEF emit
    <3>2. log' \o owed' = log \o owed
      BY <2>4 DEF emit, TypeOK, Live!ReportTypeOK
    <3>3. Begins' = Begins
      BY <3>2 DEF Begins
    <3> QED BY <1>a, <1>b, <1>d, <1>e, <1>f, <2>0, <3>1, <3>3 DEF CausesInv
  <2>5. CASE LoadConfig \/ ScanFails \/ \E f \in Inputs : ReadInput(f)
    <3>1. Underway' = Underway /\ UNCHANGED <<trigger, notices, log, owed>>
      BY <2>5 DEF LoadConfig, ScanFails, ReadInput, Underway
    <3> QED BY <1>a, <1>b, <1>c, <1>d, <1>e, <2>0, <3>1 DEF CausesInv
  <2>6. CASE ScanReturns
    <3>1. Underway' = Underway /\ UNCHANGED <<trigger, log, owed>>
      BY <2>6 DEF ScanReturns, Underway
    <3>2. Cardinality(Marks') = Cardinality(Marks)
      <4>1. CASE UNCHANGED noticeVars
        BY <1>b, <4>1
      <4>2. ASSUME NEW n \in OwnNotices, Notify(n)
            PROVE  Cardinality(Marks') = Cardinality(Marks)
        <5>1. n \in Notices /\ ~RequiresRescan(n)
          BY DaemonAssumption DEF OwnNoticesIgnored, RequiresRescan, event_requires_rescan,
             git_requires_rescan
        <5> QED BY <4>2, <5>1, NotifyMarks
      <4> QED BY <2>6, <4>1, <4>2 DEF ScanReturns
    <3> QED BY <1>a, <1>c, <1>d, <1>e, <2>0, <3>1, <3>2 DEF CausesInv
  <2>7. CASE Publish \/ record_scan_error
    <3>1. Underway' = Underway /\ UNCHANGED <<trigger, notices>>
      BY <2>7 DEF Publish, record_scan_error, Underway
    <3>2. PICK e \in Live!DaemonEvents :
            e.kind # "started" /\ owed = <<>> /\ log' = log /\ owed' = <<e>>
      BY <2>7 DEF Publish, record_scan_error, LoopInv, TypeOK, Live!ReportTypeOK,
         Live!DaemonEvent, Live!DaemonEvents, Live!EventKinds
    <3>3. Cardinality(Begins') = Cardinality(Begins)
      BY <3>2, OwedBegins
    <3> QED BY <1>a, <1>b, <1>d, <1>e, <2>0, <3>1, <3>3 DEF CausesInv
  <2> QED BY <1>4, <2>1, <2>2, <2>3, <2>4, <2>5, <2>6, <2>7 DEF LoopNext
<1>5. CASE RescanNext
  <2>0. UNCHANGED <<serve, loop, notices, log, owed, edits, noise>>
    BY <1>5 DEF RescanNext, RefuseRescan, StampRescan, QueueRescan, CooldownExpires
  <2>1. ASSUME NEW c \in Callers, RefuseRescan(c) \/ StampRescan(c) PROVE CausesInv'
    <3>1. Accepted' = Accepted /\ trigger' = trigger
      BY <2>1 DEF RefuseRescan, StampRescan, Accepted, TypeOK
    <3> QED BY <1>a, <1>b, <1>c, <1>e, <1>f, <2>0, <3>1 DEF CausesInv
  <2>2. ASSUME NEW c \in Callers, QueueRescan(c) PROVE CausesInv'
    <3>1. IsFiniteSet(Accepted) /\ c \notin Accepted /\ TrySend
      BY <2>2, CountsAreFinite DEF QueueRescan, Accepted
    <3>2. CASE TriggerClosed
      <4>1. Accepted' = Accepted
        BY <2>2, <3>2 DEF QueueRescan, Accepted, TypeOK
      <4>2. trigger' = trigger
        BY <3>1, <3>2, TrySendAdds
      <4> QED BY <1>a, <1>b, <1>c, <1>e, <1>f, <2>0, <4>1, <4>2 DEF CausesInv
    <3>3. CASE ~TriggerClosed
      <4>1. Accepted' = Accepted \cup {c}
        BY <2>2, <3>3 DEF QueueRescan, Accepted, TypeOK
      <4>2. Cardinality(Accepted') = Cardinality(Accepted) + 1
        BY <3>1, <4>1, FS_AddElement
      <4>3. trigger' <= trigger + 1
        BY <3>1, TrySendAdds
      <4> QED BY <1>a, <1>b, <1>c, <1>e, <1>f, <2>0, <4>2, <4>3 DEF CausesInv
    <3> QED BY <3>2, <3>3
  <2>3. CASE CooldownExpires
    <3>1. UNCHANGED <<caller, trigger>>
      BY <2>3 DEF CooldownExpires
    <3> QED BY <1>a, <1>b, <1>c, <1>d, <1>e, <1>f, <2>0, <3>1 DEF CausesInv
  <2> QED BY <1>5, <2>1, <2>2, <2>3 DEF RescanNext
<1>6. CASE UNCHANGED vars
  <2>1. UNCHANGED <<serve, trigger, loop, log, owed, caller, notices, edits, noise>>
    BY <1>6 DEF vars
  <2> QED BY <1>a, <1>b, <1>c, <1>d, <1>e, <1>f, <2>1 DEF CausesInv
<1> QED BY <1>1, <1>2, <1>3, <1>4, <1>5, <1>6 DEF Next

\* The daemon never scans without a cause of its own for the scan, and so never
\* because of its own scan, provided that what it writes is ignored.
THEOREM CausesCounted == OwnNoticesIgnored => (Spec => []ScansHaveCauses)
<1> SUFFICES ASSUME OwnNoticesIgnored PROVE Spec => []ScansHaveCauses
  OBVIOUS
<1>1. Init => CausesInv
  <2> SUFFICES ASSUME Init PROVE CausesInv
    OBVIOUS
  <2>1. Begins = {} /\ Marks = {} /\ Accepted = {}
    BY DEF Init, Live!ReportInit, Begins, Marks, Accepted
  <2>2. Cardinality({}) = 0
    BY FS_EmptySet
  <2>3. Underway = 0 /\ Initial = 1 /\ trigger = 0 /\ edits = 0 /\ noise = 0
    BY DEF Init, Underway, Initial
  <2> QED BY <2>1, <2>2, <2>3 DEF CausesInv
<1>2. TypeOK /\ TypeOK' /\ LoopInv /\ CausesInv /\ [Next]_vars => CausesInv'
  BY CausesStep
<1>3. TypeOK /\ CausesInv => ScansHaveCauses
  <2> SUFFICES ASSUME TypeOK, CausesInv PROVE ScansHaveCauses
    OBVIOUS
  <2> DEFINE all == {c \in Callers : caller[c] \in {"stamped", "accepted"}}
  <2>1. IsFiniteSet(all) /\ Accepted \in SUBSET all
    BY DaemonAssumption, FS_Subset DEF Accepted
  <2>2. Cardinality(Accepted) <= Cardinality(all) /\ Cardinality(all) \in Nat
    BY <2>1, FS_Subset, FS_CardinalityType
  <2>3. Begun = Cardinality(Begins)
    BY DEF Begun, Begins
  <2> HIDE DEF all
  <2>4. Begun <= 1 + edits + noise + Cardinality(all)
    BY <2>2, <2>3, CountsAreFinite DEF CausesInv
  <2> QED BY <2>4 DEF ScansHaveCauses, all
<1> QED BY <1>1, <1>2, <1>3, TypeCorrect, Inductive, PTL DEF Spec
=============================================================================
