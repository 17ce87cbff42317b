------------------------------ MODULE Web_proofs -------------------------------
(***************************************************************************)
(* Proofs about what a client of the daemon sees, for every number of      *)
(* permits, events, revisions and restarts.  Dashboard: the permits of the *)
(* event streams, and that the screen never goes back.  GraphView: the     *)
(* revision of the graph on screen.  DaemonGraph, for every set of         *)
(* clients: what an answer tells, who holds the cache lock and when a      *)
(* revision is built twice.                                                *)
(***************************************************************************)
EXTENDS Dashboard, GraphView, DaemonGraph, FiniteSetTheorems, TLAPS

(***************************************************************************)
(* Dashboard.                                                              *)
(***************************************************************************)
USE DashboardAssumption, NoReportAssumption

\* What is on screen was the daemon's snapshot, or is still.
ShownInv ==
  shown # Unread =>
    /\ shown.epoch <= epoch
    /\ shown.epoch = epoch => shown.revision <= revision

\* One request of the current generation may resolve, and what it brings is not
\* older than the screen.
LatestInv ==
  \A f \in fetches : f.generation = generation =>
    /\ \A g \in fetches : g.generation = generation => g = f
    /\ f.got # Unread =>
         /\ f.got.epoch <= epoch
         /\ f.got.epoch = epoch => f.got.revision <= revision
         /\ shown # Unread => ~Older(f.got, shown)

ScreenInv == DashboardTypeOK /\ PermitsBounded /\ ShownInv /\ LatestInv

\* After refresh() the next request alone is of the current generation, and it
\* has no answer yet.
LEMMA RefreshKeeps ==
  ASSUME DashboardTypeOK, LatestInv, Refresh
  PROVE  /\ generation' \in Nat
         /\ \A f \in fetches' : f.generation \in 1 .. generation'
                                /\ f.got \in Snapshots \cup {Unread}
         /\ \A f \in fetches' : f.generation = generation'
              => f = Fetch(generation', Unread)
<1>1. generation \in Nat
  BY DEF DashboardTypeOK
<1>2. Fetch(generation + 1, Unread).generation = generation + 1
      /\ Fetch(generation + 1, Unread).got = Unread
  BY DEF Fetch
<1>3. \A f \in AfterAbort : f.generation \in 1 .. generation
                            /\ f.got \in Snapshots \cup {Unread}
  BY DEF AfterAbort, DashboardTypeOK
<1> QED BY <1>1, <1>2, <1>3 DEF Refresh

\* A report never gets older: a scan that completes raises the revision.
LEMMA DaemonKeeps ==
  ASSUME ReportTypeOK, ReportNext
  PROVE  /\ ReportTypeOK' /\ revision' >= revision
         /\ Len(log') >= Len(log)
<1> USE DEF ReportTypeOK, DaemonEvents, DaemonEvent, EventKinds, Statuses
<1>1. CASE Begin
  BY <1>1 DEF Begin
<1>2. CASE Complete
  BY <1>2 DEF Complete
<1>3. CASE Fail
  BY <1>3 DEF Fail
<1>4. CASE Announce
  <2>1. log' \in Seq(DaemonEvents) /\ Len(log') = Len(log) + Len(owed)
    BY <1>4 DEF Announce
  <2> QED BY <1>4, <2>1 DEF Announce
<1> QED BY <1>1, <1>2, <1>3, <1>4 DEF ReportNext

\* The invariant holds initially and is kept by every callback of the hook,
\* every step of the stream and of the daemon.
THEOREM ScreenInductive == DashboardSpec => []ScreenInv
<1>1. DashboardInit => ScreenInv
  <2> SUFFICES ASSUME DashboardInit PROVE ScreenInv
    OBVIOUS
  <2>1. ReportTypeOK /\ Len(log) = 0
    BY DEF DashboardInit, ReportInit, ReportTypeOK, Statuses
  <2>2. fetches = {Fetch(1, Unread)} /\ generation = 1
    BY DEF DashboardInit
  <2>3. DashboardTypeOK
    <3>1. \A f \in fetches : f.generation \in 1 .. generation
                             /\ f.got \in Snapshots \cup {Unread}
      BY <2>2 DEF Fetch
    <3>2. others \in 0 .. MaxSse /\ cursor \in 0 .. Len(log)
      BY <2>1 DEF DashboardInit
    <3>3. wire \in Seq(DaemonEvents)
      BY DEF DashboardInit
    <3>4. error \in BOOLEAN
      BY DEF DashboardInit
    <3> QED BY <2>1, <2>2, <3>1, <3>2, <3>3, <3>4 DEF DashboardInit, DashboardTypeOK
  <2> QED
    BY <2>2, <2>3 DEF DashboardInit, ScreenInv, PermitsBounded, Served,
                      ShownInv, LatestInv, Fetch
<1>2. ScreenInv /\ [DashboardNext]_dashboardVars => ScreenInv'
  <2> SUFFICES ASSUME ScreenInv, [DashboardNext]_dashboardVars
               PROVE  ScreenInv'
    OBVIOUS
  <2> USE DEF ScreenInv, streamVars, reportVars
  <2>1. ASSUME NEW f \in fetches, AnswerFetch(f) PROVE ScreenInv'
    <3> DEFINE g == Fetch(f.generation, Snapshot)
    <3>1. /\ g.generation = f.generation /\ g.got = Snapshot
          /\ Snapshot \in Snapshots /\ Snapshot # Unread
          /\ Snapshot.epoch = epoch /\ Snapshot.revision = revision
      BY DEF Fetch, Snapshot, Snapshots, DashboardTypeOK, ReportTypeOK
    <3> HIDE DEF g
    <3>2. /\ fetches' = (fetches \ {f}) \cup {g}
          /\ UNCHANGED <<reportVars, epoch, streamVars, turns, generation,
                         shown, connection, error>>
      BY <2>1 DEF AnswerFetch, g
    <3>3. DashboardTypeOK'
      BY <3>1, <3>2 DEF DashboardTypeOK, ReportTypeOK
    <3>4. PermitsBounded' /\ ShownInv'
      BY <3>2 DEF PermitsBounded, Served, ShownInv
    <3>5. shown # Unread => ~Older(g.got, shown)
      BY <3>1 DEF ShownInv, Older, DashboardTypeOK, ReportTypeOK, Snapshots
    <3>6. LatestInv'
      <4>1. ASSUME NEW h \in fetches', h.generation = generation
            PROVE  /\ \A k \in fetches' : k.generation = generation => k = h
                   /\ h.got # Unread =>
                        /\ h.got.epoch <= epoch
                        /\ h.got.epoch = epoch => h.got.revision <= revision
                        /\ shown # Unread => ~Older(h.got, shown)
        <5>1. CASE f.generation = generation
          <6>1. h = g /\ \A k \in fetches' : k.generation = generation => k = g
            BY <3>1, <3>2, <4>1, <5>1 DEF LatestInv
          <6> QED BY <3>1, <3>5, <6>1 DEF DashboardTypeOK, ReportTypeOK
        <5>2. CASE f.generation # generation
          BY <3>1, <3>2, <4>1, <5>2 DEF LatestInv
        <5> QED BY <5>1, <5>2
      <4> QED BY <3>2, <4>1 DEF LatestInv, Older
    <3> QED BY <3>3, <3>4, <3>6
  <2>2. ASSUME NEW f \in fetches, Accept(f) \/ FailFetch(f) PROVE ScreenInv'
    <3>1. /\ fetches' = fetches \ {f}
          /\ UNCHANGED <<reportVars, epoch, streamVars, turns, generation,
                         connection>>
          /\ \/ UNCHANGED shown
             \/ f.generation = generation /\ f.got # Unread /\ shown' = f.got
      BY <2>2 DEF Accept, FailFetch
    <3>2. error' \in BOOLEAN
      BY <2>2 DEF Accept, FailFetch, DashboardTypeOK
    <3>3. DashboardTypeOK'
      BY <3>1, <3>2 DEF DashboardTypeOK, ReportTypeOK
    <3>4. PermitsBounded'
      BY <3>1 DEF PermitsBounded, Served
    <3>5. ShownInv'
      BY <3>1 DEF ShownInv, LatestInv
    <3>6. LatestInv'
      BY <3>1 DEF LatestInv, Older
    <3> QED BY <3>3, <3>4, <3>5, <3>6
  <2>3. CASE Rescan \/ OnOpen \/ HandleEvent
    <3>1. CASE Refresh
      <4>1. /\ UNCHANGED <<reportVars, epoch, others, cursor, shown>>
            /\ wire' \in Seq(DaemonEvents)
            /\ stream' \in {"connecting", "accepted", "open", "ended", "closed",
                            "unmounted"}
            /\ Served' = Served
            /\ connection' \in {"connecting", "live", "offline"}
            /\ error' \in BOOLEAN
        <5>1. CASE Rescan
          BY <5>1 DEF Rescan, DashboardTypeOK, Served
        <5>2. CASE OnOpen
          BY <5>2 DEF OnOpen, DashboardTypeOK, Served
        <5>3. CASE HandleEvent
          BY <5>3 DEF HandleEvent, DashboardTypeOK, Served
        <5> QED BY <2>3, <5>1, <5>2, <5>3
      <4>2. DashboardTypeOK' /\ PermitsBounded'
        BY <3>1, <4>1, RefreshKeeps
        DEF DashboardTypeOK, ReportTypeOK, PermitsBounded
      <4>3. LatestInv' /\ ShownInv'
        BY <3>1, <4>1, RefreshKeeps DEF LatestInv, ShownInv, Fetch
      <4> QED BY <4>2, <4>3
    <3>2. CASE Rescan /\ UNCHANGED <<generation, fetches>>
      BY <3>2 DEF Rescan, DashboardTypeOK, ReportTypeOK, PermitsBounded, Served,
                  LatestInv, ShownInv, Older
    <3> QED BY <2>3, <3>1, <3>2 DEF Rescan, OnOpen, HandleEvent
  <2>4. CASE Unmount
    <3>1. \A f \in fetches' : f.generation < generation'
      BY <2>4 DEF Unmount, AfterAbort, DashboardTypeOK
    <3>2. DashboardTypeOK'
      BY <2>4 DEF Unmount, AfterAbort, DashboardTypeOK, ReportTypeOK
    <3>3. LatestInv'
      BY <3>1, <3>2 DEF LatestInv, DashboardTypeOK
    <3>4. PermitsBounded' /\ ShownInv'
      BY <2>4 DEF Unmount, PermitsBounded, Served, ShownInv, DashboardTypeOK
    <3> QED BY <3>2, <3>3, <3>4
  <2>5. CASE Subscribe \/ Refuse \/ SendEvent \/ Reconnect \/ Cut \/ Others
    <3>1. UNCHANGED <<reportVars, epoch, generation, fetches, shown, error>>
      BY <2>5 DEF Subscribe, Refuse, SendEvent, Reconnect, Cut, Others, hookVars
    <3>2. LatestInv' /\ ShownInv'
      BY <3>1 DEF LatestInv, ShownInv, Older
    <3>3. PermitsBounded' /\ others' \in 0 .. MaxSse
      BY <2>5 DEF Subscribe, Refuse, SendEvent, Reconnect, Cut, Others,
                  PermitsBounded, Served, DashboardTypeOK
    <3>4. /\ stream' \in {"connecting", "accepted", "open", "ended", "closed",
                          "unmounted"}
          /\ connection' \in {"connecting", "live", "offline"}
      BY <2>5 DEF Subscribe, Refuse, SendEvent, Reconnect, Cut, Others, hookVars,
                  DashboardTypeOK
    <3>5. cursor' \in 0 .. Len(log) /\ wire' \in Seq(DaemonEvents)
      <4>1. CASE SendEvent
        <5>1. cursor < Len(log) => log[cursor + 1] \in DaemonEvents
          BY DEF DashboardTypeOK, ReportTypeOK
        <5>2. cursor' \in 0 .. Len(log)
          BY <4>1 DEF SendEvent, DashboardTypeOK, ReportTypeOK
        <5>3. wire' = wire \/ wire' = Append(wire, log[cursor + 1])
          BY <4>1 DEF SendEvent
        <5>4. wire' \in Seq(DaemonEvents)
          BY <4>1, <5>1, <5>3 DEF SendEvent, DashboardTypeOK
        <5> QED BY <5>2, <5>4
      <4>2. CASE Subscribe \/ Refuse \/ Reconnect \/ Others
        BY <4>2 DEF Subscribe, Refuse, Reconnect, Others, DashboardTypeOK,
                    ReportTypeOK
      <4>3. CASE Cut
        BY <4>3 DEF Cut, DashboardTypeOK
      <4> QED BY <2>5, <4>1, <4>2, <4>3
    <3>6. DashboardTypeOK'
      BY <3>1, <3>3, <3>4, <3>5 DEF DashboardTypeOK, ReportTypeOK
    <3> QED BY <3>2, <3>3, <3>6
  <2>6. CASE Daemon
    <3>1. DashboardTypeOK'
      BY <2>6, DaemonKeeps DEF Daemon, DashboardTypeOK, ReportTypeOK, hookVars
    <3>2. PermitsBounded'
      BY <2>6 DEF Daemon, PermitsBounded, Served
    <3>3. ShownInv' /\ LatestInv'
      BY <2>6, DaemonKeeps DEF Daemon, ShownInv, LatestInv, Older, hookVars,
           DashboardTypeOK, ReportTypeOK, Snapshots
    <3> QED BY <3>1, <3>2, <3>3
  <2>7. CASE Restart
    <3>1. ReportTypeOK' /\ Len(log') = 0
      BY <2>7 DEF Restart, ReportTypeOK, Statuses
    <3>2. DashboardTypeOK' /\ PermitsBounded'
      BY <2>7, <3>1 DEF Restart, DashboardTypeOK, PermitsBounded, Served, hookVars
    <3>3. ShownInv' /\ LatestInv'
      BY <2>7 DEF Restart, ShownInv, LatestInv, Older, hookVars,
           DashboardTypeOK, Snapshots
    <3> QED BY <3>2, <3>3
  <2>8. CASE UNCHANGED dashboardVars
    BY <2>8 DEF dashboardVars, hookVars, DashboardTypeOK, ReportTypeOK,
                PermitsBounded, Served, ShownInv, LatestInv, Older
  <2> QED
    BY <2>1, <2>2, <2>3, <2>4, <2>5, <2>6, <2>7, <2>8
    DEF DashboardNext, ClientNext
<1> QED
  BY <1>1, <1>2, PTL DEF DashboardSpec

\* Every variable of the dashboard and of the streams keeps its type, and the
\* report on screen is always one that a daemon published.
THEOREM DashboardTypeCorrect == DashboardSpec => []DashboardTypeOK
BY ScreenInductive, PTL DEF ScreenInv

\* At most MaxSse event streams hold a permit of sse_slots, whatever is cut.
THEOREM PermitsHeld == DashboardSpec => []PermitsBounded
BY ScreenInductive, PTL DEF ScreenInv

\* useDaemon ignores what is older than the screen: no order of responses,
\* aborts and restarts brings back an older report.
THEOREM ScreenOnlyAdvances == DashboardSpec => ScreenNeverGoesBack
<1>1. ScreenInv /\ [DashboardNext]_dashboardVars
        => [shown # Unread => shown' # Unread /\ ~Older(shown', shown)]_dashboardVars
  <2> SUFFICES ASSUME ScreenInv, DashboardNext, shown # Unread
               PROVE  shown' # Unread /\ ~Older(shown', shown)
    BY DEF dashboardVars
  <2>1. CASE UNCHANGED shown
    BY <2>1 DEF Older, ScreenInv, DashboardTypeOK, Snapshots
  <2>2. ASSUME NEW f \in fetches, Accept(f)
        PROVE  shown' # Unread /\ ~Older(shown', shown)
    BY <2>1, <2>2 DEF Accept, ScreenInv, LatestInv
  <2>3. DashboardNext => UNCHANGED shown \/ \E f \in fetches : Accept(f)
    BY DEF DashboardNext, ClientNext, AnswerFetch, FailFetch, Rescan, Unmount,
           Subscribe, Refuse, OnOpen, SendEvent, HandleEvent, Reconnect, Cut,
           Others, Daemon, Restart, hookVars
  <2> QED BY <2>1, <2>2, <2>3
<1> QED
  BY <1>1, ScreenInductive, PTL DEF DashboardSpec, ScreenNeverGoesBack

--------------------------------------------------------------------------------
USE GraphViewAssumption DEF ReportIds, Phases

\* A request that may still bring a graph is the latest effect's, and the
\* latest effect asked for the mounted revision.
RequestInv ==
  \A r \in requests :
    /\ r.phase # "refused" => r.effect = effect
    /\ r.effect = effect => r.revision = mounted.revision

ViewInv == ViewTypeOK /\ RequestInv /\ GraphOfMountedRevision

\* What the hook's clean-up and next effect leave behind.
LEMMA EffectKeeps ==
  ASSUME ViewInv, NEW rev \in 1 .. MaxRevision, RunEffect(rev),
         mounted' \in ReportIds, mounted'.revision = rev,
         daemon' \in ReportIds, retries' \in 0 .. MaxRetries
  PROVE  ViewInv'
<1> DEFINE next == Request(effect + 1, rev, "sent", Nothing)
<1>1. /\ effect \in Nat \ {0} /\ effect' = effect + 1
      /\ requests' = StillSettling \cup {next}
      /\ graph' = Nothing /\ problem' = Nothing /\ loading' = TRUE
  BY DEF ViewInv, ViewTypeOK, RunEffect
<1>2. /\ next.effect = effect + 1 /\ next.revision = rev
      /\ next.phase = "sent" /\ next.of = Nothing
  BY DEF Request
<1> HIDE DEF next
<1>3. \A r \in StillSettling : r \in requests /\ r.phase = "refused"
  BY DEF StillSettling
<1>4. ViewTypeOK'
  BY <1>1, <1>2, <1>3 DEF ViewInv, ViewTypeOK
<1>5. RequestInv'
  BY <1>1, <1>2, <1>3 DEF ViewInv, ViewTypeOK, RequestInv
<1> QED
  BY <1>1, <1>4, <1>5 DEF ViewInv, GraphOfMountedRevision

\* The invariant holds when the hook is mounted and is kept by every effect,
\* answer and settled promise.
THEOREM ViewInductive == ViewSpec => []ViewInv
<1>1. ViewInit => ViewInv
  BY DEF ViewInit, ViewInv, ViewTypeOK, RequestInv, GraphOfMountedRevision,
         Request
<1>2. ViewInv /\ [ViewNext]_viewVars => ViewInv'
  <2> SUFFICES ASSUME ViewInv, [ViewNext]_viewVars PROVE ViewInv'
    OBVIOUS
  <2>1. CASE Publish \/ DaemonRestarts
    <3>1. daemon' \in ReportIds
      BY <2>1 DEF Publish, DaemonRestarts, ViewInv, ViewTypeOK
    <3> QED
      BY <2>1, <3>1 DEF Publish, DaemonRestarts, ViewInv, ViewTypeOK, RequestInv,
                        GraphOfMountedRevision, graphHookVars
  <2>2. CASE ShowReport
    <3>1. CASE daemon.revision # mounted.revision
      BY <2>2, <3>1, EffectKeeps DEF ShowReport, ViewInv, ViewTypeOK
    <3>2. CASE daemon.revision = mounted.revision
      BY <2>2, <3>2 DEF ShowReport, ViewInv, ViewTypeOK, RequestInv,
                        GraphOfMountedRevision, graphHookVars
    <3> QED BY <3>1, <3>2
  <2>3. CASE Retry
    <3>1. retries' \in 0 .. MaxRetries
      BY <2>3 DEF Retry, ViewInv, ViewTypeOK
    <3>2. /\ mounted.revision \in 1 .. MaxRevision
          /\ mounted' = mounted /\ daemon' = daemon
          /\ mounted \in ReportIds /\ daemon \in ReportIds
      BY <2>3 DEF Retry, ViewInv, ViewTypeOK
    <3>3. RunEffect(mounted.revision)
      BY <2>3 DEF Retry
    <3> QED BY <3>1, <3>2, <3>3, EffectKeeps
  <2>4. ASSUME NEW r \in requests, Answer(r) PROVE ViewInv'
    <3> DEFINE ok == Request(r.effect, r.revision, "ok", daemon)
               no == Request(r.effect, r.revision, "refused", Nothing)
    <3>1. /\ ok.effect = r.effect /\ ok.revision = r.revision
          /\ ok.phase = "ok" /\ ok.of = daemon
          /\ no.effect = r.effect /\ no.revision = r.revision
          /\ no.phase = "refused" /\ no.of = Nothing
      BY DEF Request
    <3> HIDE DEF ok, no
    <3>2. /\ r.phase = "sent"
          /\ \/ requests' = (requests \ {r}) \cup {ok}
             \/ requests' = (requests \ {r}) \cup {no}
          /\ UNCHANGED <<daemon, mounted, effect, retries, graphHookVars>>
      BY <2>4 DEF Answer, ok, no
    <3>3. ViewTypeOK'
      BY <3>1, <3>2 DEF ViewInv, ViewTypeOK, graphHookVars
    <3>4. RequestInv' /\ GraphOfMountedRevision'
      BY <3>1, <3>2 DEF ViewInv, RequestInv, GraphOfMountedRevision, graphHookVars
    <3> QED BY <3>3, <3>4 DEF ViewInv
  <2>5. ASSUME NEW r \in requests, Settle(r) PROVE ViewInv'
    <3>1. r.effect = effect /\ r.revision = mounted.revision
      BY <2>5 DEF Settle, ViewInv, RequestInv
    <3>2. ViewTypeOK'
      BY <2>5 DEF Settle, ViewInv, ViewTypeOK
    <3>3. RequestInv' /\ GraphOfMountedRevision'
      BY <2>5, <3>1 DEF Settle, ViewInv, RequestInv, GraphOfMountedRevision
    <3> QED BY <3>2, <3>3 DEF ViewInv
  <2>6. ASSUME NEW r \in requests, SettleRefused(r) \/ FailRequest(r) PROVE ViewInv'
    BY <2>6 DEF SettleRefused, FailRequest, ViewInv, ViewTypeOK, RequestInv,
                GraphOfMountedRevision
  <2>7. CASE UNCHANGED viewVars
    BY <2>7 DEF viewVars, graphHookVars, ViewInv, ViewTypeOK, RequestInv,
                GraphOfMountedRevision
  <2> QED
    BY <2>1, <2>2, <2>3, <2>4, <2>5, <2>6, <2>7 DEF ViewNext
<1> QED
  BY <1>1, <1>2, PTL DEF ViewSpec

\* Every variable of the graph hook keeps its type, in whatever order requests
\* are answered and effects replaced.
THEOREM ViewTypeCorrect == ViewSpec => []ViewTypeOK
BY ViewInductive, PTL DEF ViewInv

\* The graph that useRepositoryGraph shows bears the revision of the report on
\* screen, however late or aborted the request was that brought it.
THEOREM GraphMatchesReport == ViewSpec => []GraphOfMountedRevision
BY ViewInductive, PTL DEF ViewInv

-------------------------------------------------------------------------------
(***************************************************************************)
(* DaemonGraph.                                                            *)
(***************************************************************************)
USE DEF GraphResponses, Graph, HeldInputs

Builders == {c \in Clients : request[c] = "building"}

\* The published reports are those of the revisions, the last one the current.
PublishedInv ==
  /\ Len(published) = revision
  /\ report # NoReport => revision > 0 /\ published[revision] = report

Captured(c) == request[c] \in {"waiting", "building", "answered"}

\* What a request captured was published under the revision it captured.
HeldInv ==
  \A c \in Clients : Captured(c) =>
    /\ held[c] \in HeldInputs
    /\ held[c].revision \in 1 .. Len(published)
    /\ held[c].inputs = published[held[c].revision]
    /\ held[c].asked \in {Unnamed, held[c].revision}

\* So was what the cache holds, and what an answered request was given.
CacheInv ==
  /\ cache # NoGraph =>
       /\ cache.revision \in 1 .. Len(published)
       /\ cache.graph = Graph(published[cache.revision])
  /\ \A c \in Clients : request[c] = "answered" =>
       /\ answer[c] # NoGraph
       /\ answer[c].revision = held[c].revision
       /\ answer[c].graph = Graph(published[held[c].revision])

LockInv ==
  /\ holder = Builders
  /\ \A c, d \in holder : c = d
  /\ holder \subseteq builds

\* Until a request is overtaken, the cache holds the newest revision that was
\* built, and no build that runs is older.
StoreInv ==
  /\ stored \subseteq 1 .. revision
  /\ ~overtaken =>
       /\ ~rebuilt
       /\ \A s \in stored :
            /\ cache # NoGraph /\ s <= cache.revision
            /\ \A c \in Builders : s <= held[c].revision

GraphInv == GraphTypeOK /\ PublishedInv /\ HeldInv /\ CacheInv /\ LockInv
            /\ StoreInv
-------------------------------------------------------------------------------
(* The steps of the daemon.                                                *)

\* Only a completed scan publishes, and it appends: what was published under a
\* revision stays so, whatever scan_once does.
LEMMA DaemonStep ==
  ASSUME GraphTypeOK, PublishedInv, Publication
  PROVE  /\ ReportTypeOK'
         /\ published' \in Seq(Reports)
         /\ PublishedInv'
         /\ revision' >= revision
         /\ \A i \in 1 .. Len(published) :
              i \in 1 .. Len(published') /\ published'[i] = published[i]
<1> USE DEF ReportTypeOK, GraphTypeOK, DaemonEvents, DaemonEvent, EventKinds,
            Statuses
<1>1. CASE Begin
  BY <1>1 DEF Begin, Publication, PublishedInv
<1>2. CASE Fail
  BY <1>2 DEF Fail, Publication, PublishedInv
<1>3. CASE Announce
  <2>1. log' \in Seq(DaemonEvents)
    BY <1>3 DEF Announce
  <2> QED BY <1>3, <2>1 DEF Announce, Publication, PublishedInv
<1>4. CASE Complete
  <2>1. revision' # revision /\ report' \in Reports
    BY <1>4 DEF Complete
  <2>2. published' = Append(published, report')
    BY <2>1 DEF Publication
  <2>3. /\ published' \in Seq(Reports)
        /\ Len(published') = Len(published) + 1
        /\ published'[Len(published) + 1] = report'
        /\ \A i \in 1 .. Len(published) : published'[i] = published[i]
    BY <2>1, <2>2
  <2>4. ReportTypeOK'
    BY <1>4, <2>1 DEF Complete
  <2>5. Len(published') \in Nat /\ Len(published) \in Nat
    BY <2>3
  <2> QED BY <1>4, <2>1, <2>3, <2>4, <2>5 DEF Complete, PublishedInv
<1> QED
  BY <1>1, <1>2, <1>3, <1>4 DEF Publication, ReportNext
-------------------------------------------------------------------------------

\* The invariant holds initially and is kept by every step of a handler, of a
\* blocking build and of the daemon.
THEOREM GraphInductive == GraphSpec => []GraphInv
<1>1. GraphInit => GraphInv
  <2> SUFFICES ASSUME GraphInit PROVE GraphInv
    OBVIOUS
  <2>1. GraphTypeOK
    <3>1. ReportTypeOK
      BY DEF GraphInit, ReportInit, ReportTypeOK, Statuses
    <3>2. /\ request \in [Clients -> {"none", "conflict", "waiting", "building",
                                     "answered", "failed", "gone"}]
          /\ held \in [Clients -> HeldInputs \cup {NoGraph}]
          /\ answer \in [Clients -> GraphResponses \cup {NoGraph}]
      BY DEF GraphInit
    <3>3. rebuilt \in BOOLEAN /\ overtaken \in BOOLEAN
      BY DEF GraphInit
    <3>4. published \in Seq(Reports)
      BY DEF GraphInit
    <3> QED BY <3>1, <3>2, <3>3, <3>4 DEF GraphInit, GraphTypeOK
  <2> QED
    BY <2>1 DEF GraphInit, ReportInit, GraphInv, PublishedInv, HeldInv, Captured,
                CacheInv, LockInv, StoreInv, Builders
<1>2. GraphInv /\ [GraphNext]_graphVars => GraphInv'
  <2> SUFFICES ASSUME GraphInv, [GraphNext]_graphVars PROVE GraphInv'
    OBVIOUS
  <2> USE GraphAssumption, NoReportAssumption
      DEF GraphInv, reportVars, requestVars, cacheVars, historyVars
  <2>1. CASE Publication
    <3>1. GraphTypeOK' /\ PublishedInv'
      BY <2>1, DaemonStep DEF Publication, GraphTypeOK
    <3>2. HeldInv' /\ CacheInv'
      BY <2>1, DaemonStep DEF Publication, HeldInv, CacheInv, Captured
    <3>3. LockInv'
      BY <2>1 DEF Publication, LockInv, Builders
    <3>4. StoreInv'
      BY <2>1, DaemonStep DEF Publication, StoreInv, Builders, GraphTypeOK,
                              ReportTypeOK
    <3> QED BY <3>1, <3>2, <3>3, <3>4
  <2>2. ASSUME NEW c \in Clients, NEW e \in Revisions, Ask(c, e)
        PROVE  GraphInv'
    <3>1. e \in {Unnamed} \cup Nat
      BY DEF Revisions, GraphTypeOK, ReportTypeOK
    <3>2. CASE e \notin {Unnamed, revision} \/ report = NoReport
      <4>1. /\ request' = [request EXCEPT ![c] = "conflict"]
            /\ request[c] = "none"
            /\ UNCHANGED <<reportVars, held, answer, cacheVars, published,
                           historyVars>>
        BY <2>2, <3>2 DEF Ask
      <4>2. GraphTypeOK'
        BY <4>1 DEF GraphTypeOK, ReportTypeOK
      <4>3. HeldInv' /\ CacheInv' /\ PublishedInv'
        BY <4>1 DEF HeldInv, CacheInv, PublishedInv, Captured, GraphTypeOK
      <4>4. Builders' = Builders
        BY <4>1 DEF Builders, GraphTypeOK
      <4>5. LockInv' /\ StoreInv'
        BY <4>1, <4>4 DEF LockInv, StoreInv
      <4> QED BY <4>2, <4>3, <4>5
    <3>3. CASE e \in {Unnamed, revision} /\ report # NoReport
      <4> DEFINE h == [asked |-> e, revision |-> revision, inputs |-> report]
      <4>1. /\ request' = [request EXCEPT ![c] = "waiting"]
            /\ held' = [held EXCEPT ![c] = h]
        BY <2>2, <3>3 DEF Ask
      <4>2. /\ h \in HeldInputs /\ revision \in 1 .. Len(published)
            /\ report = published[revision]
        BY <3>1, <3>3 DEF GraphTypeOK, ReportTypeOK, PublishedInv
      <4>3. GraphTypeOK'
        BY <2>2, <4>1, <4>2 DEF Ask, GraphTypeOK, ReportTypeOK
      <4>4. HeldInv'
        BY <2>2, <3>3, <4>1, <4>2 DEF Ask, HeldInv, Captured, GraphTypeOK
      <4>5. /\ request'[c] = "waiting"
            /\ \A d \in Clients \ {c} : request'[d] = request[d]
                                        /\ held'[d] = held[d]
            /\ request[c] = "none"
        BY <2>2, <4>1 DEF Ask, GraphTypeOK
      <4>6. CacheInv' /\ LockInv' /\ StoreInv' /\ PublishedInv'
        BY <2>2, <4>5 DEF Ask, CacheInv, LockInv, StoreInv, PublishedInv,
                          Builders
      <4> QED BY <4>3, <4>4, <4>6
    <3> QED BY <3>2, <3>3
  <2>3. ASSUME NEW c \in Clients, AnswerFromCache(c) PROVE GraphInv'
    <3>1. /\ cache # NoGraph /\ cache \in GraphResponses
          /\ cache.revision = held[c].revision /\ request[c] = "waiting"
      BY <2>3 DEF AnswerFromCache, IsCached, GraphTypeOK
    <3>2. GraphTypeOK'
      BY <2>3, <3>1 DEF AnswerFromCache, GraphTypeOK, ReportTypeOK
    <3>3. HeldInv' /\ CacheInv'
      BY <2>3, <3>1 DEF AnswerFromCache, HeldInv, CacheInv, Captured, GraphTypeOK
    <3>4. PublishedInv' /\ LockInv' /\ StoreInv'
      BY <2>3, <3>1 DEF AnswerFromCache, PublishedInv, LockInv, StoreInv,
                        Builders, GraphTypeOK
    <3> QED BY <3>2, <3>3, <3>4
  <2>4. ASSUME NEW c \in Clients, StartBuild(c) PROVE GraphInv'
    <3>1. /\ request[c] = "waiting" /\ holder = {} /\ Builders = {}
          /\ held[c] \in HeldInputs
          /\ held[c].revision \in 1 .. Len(published)
      BY <2>4 DEF StartBuild, Free, LockInv, HeldInv, Captured
    <3>2. GraphTypeOK'
      BY <2>4, <3>1 DEF StartBuild, GraphTypeOK, ReportTypeOK
    <3>3. Builders' = {c}
      BY <2>4, <3>1 DEF StartBuild, Builders, GraphTypeOK
    <3>4. HeldInv' /\ CacheInv' /\ PublishedInv'
      BY <2>4, <3>1 DEF StartBuild, HeldInv, CacheInv, PublishedInv, Captured,
                        GraphTypeOK
    <3>5. LockInv'
      BY <2>4, <3>3 DEF StartBuild, LockInv
    <3>6. StoreInv'
      <4>1. CASE held[c].revision # revision
        BY <2>4, <4>1 DEF StartBuild, StoreInv
      <4>2. CASE held[c].revision = revision /\ ~overtaken
        <5>1. held[c].revision \notin stored
          BY <2>4, <4>2, <3>1 DEF StartBuild, StoreInv, IsCached, CacheInv,
               PublishedInv, GraphTypeOK, ReportTypeOK
        <5>2. \A s \in stored : s <= held[c].revision
          BY <4>2 DEF StoreInv, GraphTypeOK, ReportTypeOK
        <5> QED BY <2>4, <4>2, <5>1, <5>2, <3>3 DEF StartBuild, StoreInv
      <4>3. CASE overtaken
        BY <2>4, <4>3 DEF StartBuild, StoreInv
      <4> QED BY <4>1, <4>2, <4>3
    <3> QED BY <3>2, <3>4, <3>5, <3>6
  <2>5. ASSUME NEW c \in Clients, FinishBuild(c) PROVE GraphInv'
    <3> DEFINE built == [revision |-> held[c].revision,
                         graph |-> Graph(held[c].inputs)]
    <3>1. CASE request[c] = "building"
      <4>1. /\ request' = [request EXCEPT ![c] = "answered"]
            /\ cache' = built /\ answer' = [answer EXCEPT ![c] = built]
            /\ holder' = {} /\ stored' = stored \cup {held[c].revision}
            /\ builds' = builds \ {c}
            /\ UNCHANGED <<reportVars, held, published, rebuilt, overtaken>>
        BY <2>5, <3>1 DEF FinishBuild
      <4>2. /\ held[c] \in HeldInputs
            /\ held[c].revision \in 1 .. Len(published)
            /\ held[c].inputs = published[held[c].revision]
        BY <3>1 DEF HeldInv, Captured
      <4>3. built \in GraphResponses /\ built # NoGraph
        BY <4>2
      <4>4. Builders = {c} /\ Builders' = {}
        BY <3>1, <4>1 DEF LockInv, Builders, GraphTypeOK
      <4>5. GraphTypeOK'
        BY <4>1, <4>2, <4>3 DEF GraphTypeOK, ReportTypeOK
      <4>6. HeldInv' /\ PublishedInv'
        BY <3>1, <4>1 DEF HeldInv, PublishedInv, Captured, GraphTypeOK
      <4>7. CacheInv'
        BY <4>1, <4>2, <4>3 DEF CacheInv, GraphTypeOK
      <4>8. LockInv'
        BY <4>1, <4>4 DEF LockInv
      <4>9. StoreInv'
        <5>1. stored' \subseteq 1 .. revision'
          BY <4>1, <4>2 DEF StoreInv, PublishedInv
        <5>2. held[c].revision <= cache'.revision /\ cache' # NoGraph
          BY <4>1, <4>2, <4>3
        <5>3. ASSUME ~overtaken, NEW s \in stored
              PROVE  s <= cache'.revision
          BY <5>3, <4>1, <4>4 DEF StoreInv
        <5> QED BY <4>1, <4>4, <5>1, <5>2, <5>3 DEF StoreInv
      <4> QED BY <4>5, <4>6, <4>7, <4>8, <4>9
    <3>2. CASE request[c] = "gone"
      <4>1. /\ builds' = builds \ {c}
            /\ UNCHANGED <<reportVars, request, cache, answer, holder, stored,
                           held, published, rebuilt, overtaken>>
        BY <2>5, <3>2 DEF FinishBuild
      <4>2. GraphTypeOK' /\ PublishedInv' /\ HeldInv' /\ CacheInv'
        BY <4>1 DEF GraphTypeOK, ReportTypeOK, PublishedInv, HeldInv, CacheInv,
                    Captured
      <4>3. Builders' = Builders /\ c \notin Builders
        BY <3>2, <4>1 DEF Builders
      <4>4. LockInv' /\ StoreInv'
        BY <4>1, <4>3 DEF LockInv, StoreInv
      <4> QED BY <4>2, <4>4
    <3> QED BY <2>5, <3>1, <3>2 DEF FinishBuild
  <2>6. ASSUME NEW c \in Clients, BuildPanics(c) \/ Disconnect(c)
        PROVE  GraphInv'
    <3>1. /\ request[c] \in {"waiting", "building"}
          /\ request' \in [Clients -> {"none", "conflict", "waiting",
                             "building", "answered", "failed", "gone"}]
          /\ request'[c] \in {"failed", "gone"}
          /\ \A d \in Clients \ {c} : request'[d] = request[d]
          /\ UNCHANGED <<reportVars, held, answer, cache, published, historyVars>>
      BY <2>6 DEF BuildPanics, Disconnect, GraphTypeOK
    <3>2. builds' \subseteq builds /\ builds \ {c} \subseteq builds'
      BY <2>6 DEF BuildPanics, Disconnect
    <3>3. Builders' = Builders \ {c}
      BY <3>1 DEF Builders
    <3>4. holder' = holder \ {c}
      BY <2>6 DEF BuildPanics, Disconnect, LockInv, Builders
    <3>5. GraphTypeOK'
      BY <3>1, <3>2, <3>4 DEF GraphTypeOK, ReportTypeOK
    <3>6. HeldInv' /\ CacheInv' /\ PublishedInv'
      BY <3>1 DEF HeldInv, CacheInv, PublishedInv, Captured
    <3>7. LockInv'
      BY <3>2, <3>3, <3>4 DEF LockInv
    <3>8. StoreInv'
      BY <3>1, <3>3 DEF StoreInv
    <3> QED BY <3>5, <3>6, <3>7, <3>8
  <2>7. CASE UNCHANGED graphVars
    BY <2>7 DEF graphVars, GraphTypeOK, ReportTypeOK, PublishedInv, HeldInv,
                CacheInv, Captured, LockInv, StoreInv, Builders
  <2> QED
    BY <2>1, <2>2, <2>3, <2>4, <2>5, <2>6, <2>7 DEF GraphNext
<1> QED
  BY <1>1, <1>2, PTL DEF GraphSpec

\* Every variable of the graph endpoint keeps its type; what a request that
\* waits or builds has captured is a report and never the absent one.
THEOREM GraphTypeCorrect == GraphSpec => []GraphTypeOK
BY GraphInductive, PTL DEF GraphInv

\* An answer of /api/graph is the graph of the report published under the
\* revision that the answer names.
THEOREM AnswersTold == GraphSpec => []AnswersTellOneRevision
<1>1. GraphInv => AnswersTellOneRevision
  BY DEF GraphInv, HeldInv, CacheInv, Captured, AnswersTellOneRevision
<1> QED BY <1>1, GraphInductive, PTL

\* The lock of graph_cache is held by at most one request, whose build runs.
THEOREM LockHeld == GraphSpec => []LockFollowsBuild
<1>1. ASSUME GraphInv PROVE Cardinality(holder) <= 1
  <2>1. CASE holder = {}
    BY <2>1, FS_EmptySet
  <2>2. ASSUME NEW c \in holder PROVE Cardinality(holder) <= 1
    <3>1. holder = {c}
      BY <1>1 DEF GraphInv, LockInv
    <3>2. Cardinality({c}) = 1
      BY FS_Singleton
    <3> QED BY <3>1, <3>2
  <2> QED BY <2>1, <2>2
<1>2. GraphInv => LockFollowsBuild
  BY <1>1 DEF GraphInv, LockInv, LockFollowsBuild, Builders
<1> QED BY <1>2, GraphInductive, PTL

\* As long as no request is overtaken by a publication, the cache builds the
\* graph of no revision a second time.
THEOREM RebuiltOnly == GraphSpec => []RebuiltOnlyWhenOvertaken
<1>1. GraphInv => RebuiltOnlyWhenOvertaken
  BY DEF GraphInv, StoreInv, GraphTypeOK, RebuiltOnlyWhenOvertaken
<1> QED BY <1>1, GraphInductive, PTL
================================================================================
