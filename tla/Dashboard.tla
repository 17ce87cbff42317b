------------------------------- MODULE Dashboard ------------------------------
(***************************************************************************)
(* The dashboard's view of the daemon: the event stream of GET /api/events *)
(* (src/daemon.rs) and the hook useDaemon of apps/web, which fetches the   *)
(* canonical snapshot whenever the stream opens or an event arrives.       *)
(*                                                                         *)
(* The daemon is LiveReport and may restart; connections may be cut; the   *)
(* browser's EventSource reconnects by itself unless the daemon answers    *)
(* with an error.                                                          *)
(***************************************************************************)
EXTENDS LiveReport

CONSTANTS
  Unread,      \* the answer of a fetch before the daemon read the snapshot
  Buffer,      \* capacity of the broadcast channel (32 in the code)
  MaxSse,      \* MAX_SSE_CLIENTS
  MaxEvents,   \* bound: events per life of the daemon
  MaxTurns     \* bound: restarts, cut connections and rescans together

VARIABLES
  epoch,       \* how often the daemon was restarted
  others,      \* SSE permits taken by other connections
  stream,      \* state of this client's EventSource connection
  cursor,      \* events of `log` that its receiver has taken
  wire,        \* events sent to the browser and not handled
  turns,       \* restarts, cut connections and rescans so far
  generation,  \* requestGeneration
  fetches,     \* snapshot requests that may still resolve
  shown,       \* the snapshot in the hook's state
  connection,  \* "connecting", "live" or "offline"
  error        \* is an error shown?

streamVars == <<others, stream, cursor, wire>>
hookVars == <<generation, fetches, shown, connection, error>>

dashboardVars == <<reportVars, epoch, streamVars, turns, hookVars>>

Snapshot == [epoch |-> epoch, revision |-> revision, status |-> status,
             report |-> report]

Snapshots == [epoch : Nat, revision : Nat, status : Statuses,
              report : Reports \cup {NoReport}]

ASSUME DashboardAssumption ==
  /\ Unread \notin Snapshots
  /\ Buffer \in Nat \ {0} /\ MaxSse \in Nat \ {0}
  /\ MaxEvents \in Nat /\ MaxTurns \in Nat

Mounted == stream # "unmounted"

\* What the client, the network and the daemon's user may do a few times only.
Turn == turns < MaxTurns /\ turns' = turns + 1

\* A stream that the daemon serves; it occupies a permit.
Served == stream \in {"accepted", "open"}

Fetch(gen, got) == [generation |-> gen, got |-> got]

DashboardInit ==
  /\ ReportInit
  /\ epoch = 0
  /\ others = 0 /\ stream = "connecting" /\ cursor = 0 /\ wire = <<>>
  /\ turns = 0
  /\ generation = 1 /\ fetches = {Fetch(1, Unread)}
  /\ shown = Unread /\ connection = "connecting" /\ error = FALSE

-------------------------------------------------------------------------------
(* The hook.                                                               *)

\* abort(): of the active request only an answer may still resolve.
AfterAbort == {f \in fetches : f.generation = generation /\ f.got # Unread}

\* refresh(): abort the active request and send the next one.
Refresh ==
  /\ generation' = generation + 1
  /\ fetches' = AfterAbort \cup {Fetch(generation + 1, Unread)}

\* GET /api/snapshot under the snapshot's read lock.
AnswerFetch(f) ==
  /\ f.got = Unread
  /\ fetches' = (fetches \ {f}) \cup {Fetch(f.generation, Snapshot)}
  /\ UNCHANGED <<reportVars, epoch, streamVars, turns, generation, shown,
                 connection, error>>

AcceptAny(f) ==
  /\ f.got # Unread
  /\ fetches' = fetches \ {f}
  /\ shown' = f.got /\ error' = FALSE
  /\ UNCHANGED <<reportVars, epoch, streamVars, turns, generation, connection>>

\* A response of another generation than the latest is ignored.
Accept(f) ==
  /\ f.got # Unread
  /\ fetches' = fetches \ {f}
  /\ IF f.generation = generation
     THEN shown' = f.got /\ error' = FALSE
     ELSE UNCHANGED <<shown, error>>
  /\ UNCHANGED <<reportVars, epoch, streamVars, turns, generation, connection>>

\* The request fails, or its body is refused by parseDaemonSnapshot: the last
\* snapshot stays.
FailFetch(f) ==
  /\ fetches' = fetches \ {f}
  /\ IF f.generation = generation THEN error' = TRUE ELSE UNCHANGED error
  /\ UNCHANGED <<reportVars, epoch, streamVars, turns, generation, shown,
                 connection>>

\* rescan(): refresh after a 202, show the error otherwise.
Rescan ==
  /\ Mounted
  /\ Turn
  /\ \/ Refresh /\ UNCHANGED error
     \/ error' = TRUE /\ UNCHANGED <<generation, fetches>>
  /\ UNCHANGED <<reportVars, epoch, streamVars, shown, connection>>

\* The effect's clean-up.
Unmount ==
  /\ Mounted
  /\ stream' = "unmounted"
  /\ wire' = <<>>
  /\ generation' = generation + 1
  /\ fetches' = AfterAbort
  /\ UNCHANGED <<reportVars, epoch, others, cursor, turns, shown, connection,
                 error>>

-------------------------------------------------------------------------------
(* The stream, on the daemon's side and on the browser's.                  *)

SubscribeFreely ==
  /\ stream = "connecting"
  /\ stream' = "accepted"
  /\ cursor' = Len(log)
  /\ UNCHANGED <<reportVars, epoch, others, wire, turns, hookVars>>

\* GET /api/events takes a permit and subscribes before it answers.
Subscribe ==
  /\ stream = "connecting"
  /\ others < MaxSse
  /\ stream' = "accepted"
  /\ cursor' = Len(log)
  /\ UNCHANGED <<reportVars, epoch, others, wire, turns, hookVars>>

\* 429: the browser gives up, for an EventSource only survives lost connections.
Refuse ==
  /\ stream = "connecting"
  /\ others = MaxSse
  /\ stream' = "closed"
  /\ connection' = "offline"
  /\ UNCHANGED <<reportVars, epoch, others, cursor, wire, turns, generation,
                 fetches, shown, error>>

OnOpenKeepsSnapshot ==
  /\ stream = "accepted"
  /\ stream' = "open"
  /\ connection' = "live"
  /\ UNCHANGED <<reportVars, epoch, others, cursor, wire, turns, generation,
                 fetches, shown, error>>

OnOpen ==
  /\ stream = "accepted"
  /\ stream' = "open"
  /\ connection' = "live"
  /\ Refresh
  /\ UNCHANGED <<reportVars, epoch, others, cursor, wire, turns, shown, error>>

Lagged == Len(log) - cursor > Buffer

\* BroadcastStream: the next event, unless the channel has overwritten it; the
\* stream then ends after what was sent before.
SendEvent ==
  /\ Served
  /\ cursor < Len(log)
  /\ IF Lagged
     THEN stream' = "ended" /\ UNCHANGED <<cursor, wire>>
     ELSE /\ cursor' = cursor + 1
          /\ wire' = Append(wire, log[cursor + 1])
          /\ UNCHANGED stream
  /\ UNCHANGED <<reportVars, epoch, others, turns, hookVars>>

\* Any of the three events refreshes; what it says is not looked at.
HandleEvent ==
  /\ stream \in {"open", "ended"}
  /\ wire # <<>>
  /\ wire' = Tail(wire)
  /\ Refresh
  /\ UNCHANGED <<reportVars, epoch, others, stream, cursor, turns, shown,
                 connection, error>>

\* onerror, after which the EventSource reconnects.
Reconnect ==
  /\ stream = "ended"
  /\ wire = <<>>
  /\ stream' = "connecting"
  /\ connection' = "offline"
  /\ UNCHANGED <<reportVars, epoch, others, cursor, wire, turns, generation,
                 fetches, shown, error>>

\* The network loses the connection and what was on it; the daemon keeps the
\* permit until it notices.
Cut ==
  /\ Served
  /\ Turn
  /\ stream' = "ended"
  /\ wire' = <<>>
  /\ others' \in {others, others + 1}
  /\ UNCHANGED <<reportVars, epoch, cursor, hookVars>>

\* Other clients come, while there are permits, and go.
Others ==
  /\ \/ others + (IF Served THEN 1 ELSE 0) < MaxSse /\ others' = others + 1
     \/ others > 0 /\ others' = others - 1
  /\ UNCHANGED <<reportVars, epoch, stream, cursor, wire, turns, hookVars>>

-------------------------------------------------------------------------------
(* The daemon.                                                             *)

Daemon ==
  /\ Len(log) < MaxEvents
  /\ ReportNext
  /\ UNCHANGED <<epoch, streamVars, turns, hookVars>>

\* Everything the daemon held is gone, every connection with it.
Restart ==
  /\ Turn
  /\ epoch' = epoch + 1
  /\ revision' = 0 /\ status' = "starting" /\ report' = NoReport
  /\ owed' = <<>> /\ log' = <<>>
  /\ others' = 0 /\ cursor' = 0
  /\ stream' = IF Served THEN "ended" ELSE stream
  /\ UNCHANGED <<wire, hookVars>>

ClientNext ==
  \/ \E f \in fetches : AnswerFetch(f) \/ Accept(f) \/ FailFetch(f)
  \/ Rescan \/ Unmount
  \/ Subscribe \/ Refuse \/ OnOpen \/ SendEvent \/ HandleEvent \/ Reconnect
  \/ Cut \/ Others

DashboardNext == ClientNext \/ Daemon \/ Restart

DashboardSpec == DashboardInit /\ [][DashboardNext]_dashboardVars

\* The daemon broadcasts what it owes, serves what it is asked, and the
\* browser runs its callbacks and reconnects.  Nobody has to start a scan.
DashboardFairness ==
  /\ WF_dashboardVars(Daemon /\ Announce)
  /\ WF_dashboardVars(Subscribe \/ Refuse)
  /\ WF_dashboardVars(OnOpen) /\ WF_dashboardVars(SendEvent)
  /\ WF_dashboardVars(HandleEvent) /\ WF_dashboardVars(Reconnect)
  /\ WF_dashboardVars(\E f \in fetches : AnswerFetch(f) \/ Accept(f))

FairDashboardSpec == DashboardSpec /\ DashboardFairness
-------------------------------------------------------------------------------

DashboardTypeOK ==
  /\ ReportTypeOK
  /\ epoch \in Nat
  /\ others \in 0 .. MaxSse
  /\ stream \in {"connecting", "accepted", "open", "ended", "closed",
                 "unmounted"}
  /\ cursor \in 0 .. Len(log)
  /\ wire \in Seq(DaemonEvents)
  /\ generation \in Nat
  /\ \A f \in fetches : f.generation \in 1 .. generation
                        /\ f.got \in Snapshots \cup {Unread}
  /\ shown \in Snapshots \cup {Unread}
  /\ connection \in {"connecting", "live", "offline"}
  /\ error \in BOOLEAN

\* One of at most 32 streams: this one and the others share the permits.
PermitsBounded == others + (IF Served THEN 1 ELSE 0) <= MaxSse

Older(a, b) ==
  \/ a.epoch < b.epoch
  \/ a.epoch = b.epoch /\ a.revision < b.revision

\* use-daemon.test.tsx: "ignores older snapshot responses": whatever order the
\* responses resolve in, the report on screen never goes back.
ScreenNeverGoesBack ==
  [][shown # Unread => shown' # Unread /\ ~Older(shown', shown)]_dashboardVars

\* "reconciles on every SSE open", "instead of silently retaining stale state":
\* in the end the screen shows the daemon's snapshot, or says that it may not:
\* an error, or no connection.
ScreenConverges ==
  <>[](shown = Snapshot \/ error \/ connection = "offline" \/ ~Mounted)
=============================================================================
