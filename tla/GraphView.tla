------------------------------- MODULE GraphView ------------------------------
(***************************************************************************)
(* The hook useRepositoryGraph of apps/web: it requests the graph of the   *)
(* report revision that the dashboard shows, from a daemon that answers    *)
(* for its current revision only (DaemonGraph) and may restart, which      *)
(* begins the revisions anew.  An effect that ends aborts its request.     *)
(***************************************************************************)
EXTENDS Naturals

CONSTANTS
  Nothing,       \* no graph, no error, no answer yet
  MaxRevision,   \* bound: revisions per life of the daemon
  MaxRestarts,   \* bound: restarts of the daemon
  MaxRetries     \* bound: clicks on "Try again"

ASSUME GraphViewAssumption ==
  MaxRevision \in Nat \ {0} /\ MaxRestarts \in Nat /\ MaxRetries \in Nat

VARIABLES
  daemon,    \* the report of the daemon: the life it is of and its revision
  mounted,   \* the report that the dashboard shows
  effect,    \* how often the effect has run
  retries,   \* how often the user has retried
  requests,  \* requests whose promise is not settled
  graph,     \* the hook's graph: the report it was built from
  problem,   \* the hook's error: the effect it is about
  loading

graphHookVars == <<graph, problem, loading>>

viewVars == <<daemon, mounted, effect, retries, requests, graphHookVars>>

ReportIds == [life : Nat, revision : 1 .. MaxRevision]

\* "sent", then the headers of a 200 or a 409 have come and the body is read.
Phases == {"sent", "ok", "refused"}

Request(eff, rev, phase, of) ==
  [effect |-> eff, revision |-> rev, phase |-> phase, of |-> of]

ViewInit ==
  /\ daemon = [life |-> 0, revision |-> 1]
  /\ mounted = daemon
  /\ effect = 1 /\ retries = 0
  /\ requests = {Request(1, 1, "sent", Nothing)}
  /\ graph = Nothing /\ problem = Nothing /\ loading = TRUE

StillSettlingByAnswer == {r \in requests : r.phase # "sent"}

\* controller.abort(): reading the body rejects, which `.catch(() => null)`
\* turns into an ordinary error when the status was not ok.
StillSettling == {r \in requests : r.phase = "refused"}

\* The effect's clean-up and its next run, for the revision rev.
RunEffect(rev) ==
  /\ effect' = effect + 1
  /\ requests' = StillSettling \cup {Request(effect + 1, rev, "sent", Nothing)}
  /\ graph' = Nothing /\ problem' = Nothing /\ loading' = TRUE

Publish ==
  /\ daemon.revision < MaxRevision
  /\ daemon' = [daemon EXCEPT !.revision = @ + 1]
  /\ UNCHANGED <<mounted, effect, retries, requests, graphHookVars>>

DaemonRestarts ==
  /\ daemon.life < MaxRestarts
  /\ daemon' = [life |-> daemon.life + 1, revision |-> 1]
  /\ UNCHANGED <<mounted, effect, retries, requests, graphHookVars>>

\* useDaemon shows the daemon's report; the effect depends on its revision.
ShowReport ==
  /\ mounted # daemon
  /\ mounted' = daemon
  /\ IF daemon.revision # mounted.revision
     THEN RunEffect(daemon.revision)
     ELSE UNCHANGED <<effect, requests, graphHookVars>>
  /\ UNCHANGED <<daemon, retries>>

Retry ==
  /\ ~loading /\ problem # Nothing
  /\ retries < MaxRetries
  /\ retries' = retries + 1
  /\ RunEffect(mounted.revision)
  /\ UNCHANGED <<daemon, mounted>>

\* GET /api/graph?revision=N: 409 unless N is the daemon's current revision.
Answer(r) ==
  /\ r.phase = "sent"
  /\ requests' = (requests \ {r}) \cup
       {IF r.revision = daemon.revision
        THEN Request(r.effect, r.revision, "ok", daemon)
        ELSE Request(r.effect, r.revision, "refused", Nothing)}
  /\ UNCHANGED <<daemon, mounted, effect, retries, graphHookVars>>

\* The graph of another revision than the effect's is an error.
Settle(r) ==
  /\ r.phase = "ok"
  /\ requests' = requests \ {r}
  /\ IF r.of.revision = r.revision
     THEN graph' = r.of /\ UNCHANGED problem
     ELSE problem' = r.effect /\ UNCHANGED graph
  /\ loading' = FALSE
  /\ UNCHANGED <<daemon, mounted, effect, retries>>

SettleRefusedStillLoading(r) ==
  /\ r.phase = "refused"
  /\ requests' = requests \ {r}
  /\ problem' = r.effect
  /\ UNCHANGED <<daemon, mounted, effect, retries, graph, loading>>

\* A refusal is shown, the loading ends unless the request was aborted.
SettleRefused(r) ==
  /\ r.phase = "refused"
  /\ requests' = requests \ {r}
  /\ problem' = r.effect
  /\ loading' = (loading /\ r.effect # effect)
  /\ UNCHANGED <<daemon, mounted, effect, retries, graph>>

\* The connection breaks or the body is not a graph.
FailRequest(r) ==
  /\ requests' = requests \ {r}
  /\ problem' = r.effect
  /\ loading' = (loading /\ r.effect # effect)
  /\ UNCHANGED <<daemon, mounted, effect, retries, graph>>

ViewNext ==
  \/ Publish \/ DaemonRestarts \/ ShowReport \/ Retry
  \/ \E r \in requests : Answer(r) \/ Settle(r) \/ SettleRefused(r) \/ FailRequest(r)

ViewSpec == ViewInit /\ [][ViewNext]_viewVars

\* useDaemon shows what the daemon has, and requests are answered and settled.
ViewFairness ==
  /\ WF_viewVars(ShowReport)
  /\ WF_viewVars(\E r \in requests : Answer(r) \/ Settle(r) \/ SettleRefused(r))

FairViewSpec == ViewSpec /\ ViewFairness
-------------------------------------------------------------------------------

ViewTypeOK ==
  /\ daemon \in ReportIds /\ mounted \in ReportIds
  /\ effect \in Nat \ {0} /\ retries \in 0 .. MaxRetries
  /\ \A r \in requests :
       /\ r.effect \in 1 .. effect /\ r.revision \in 1 .. MaxRevision
       /\ r.phase \in Phases
       /\ r.of \in IF r.phase = "ok" THEN ReportIds ELSE {Nothing}
  /\ graph \in ReportIds \cup {Nothing}
  /\ problem \in (1 .. effect) \cup {Nothing}
  /\ loading \in BOOLEAN

\* "accepts only the mounted report revision": whatever is published, aborted
\* or settled late, the graph on screen bears the revision of the report.
GraphOfMountedRevision == graph # Nothing => graph.revision = mounted.revision

\* The latest effect ends with a graph or an error: the screen never loads for
\* ever and is never empty, however the daemon overtakes the requests.
GraphOrProblem ==
  <>[](~loading /\ (graph # Nothing \/ problem # Nothing))

\* use-repository-graph.test.tsx: "requests and accepts only the mounted report
\* revision"; what is shown about another revision's request is not accepted.
ProblemOfMountedRevision == problem # Nothing => problem = effect
=============================================================================
