--------------------------------- MODULE MCWeb --------------------------------
(***************************************************************************)
(* The two hooks of the dashboard and the graph endpoint, one at a time,   *)
(* each with a daemon.                                                     *)
(***************************************************************************)
EXTENDS Dashboard, GraphView, DaemonGraph

VARIABLE hook

\* One report is enough for useDaemon, which tells snapshots apart by revision.
AnyReport == CHOOSE r \in Reports : TRUE

\* The other hook is one that has come to rest, or the endpoint is not asked.
DashboardUnused ==
  /\ ReportInit
  /\ epoch = 0
  /\ others = 0 /\ stream = "unmounted" /\ cursor = 0 /\ wire = <<>>
  /\ turns = 0
  /\ generation = 2 /\ fetches = {}
  /\ shown = Unread /\ connection = "connecting" /\ error = FALSE

ViewUnused ==
  /\ daemon = [life |-> 0, revision |-> 1]
  /\ mounted = daemon
  /\ effect = 1 /\ retries = 0
  /\ requests = {}
  /\ graph = daemon /\ problem = Nothing /\ loading = FALSE

endpointVars == <<requestVars, cacheVars, published, historyVars>>

\* The clients are alike: they are numbered in the order in which they ask.
AskedInOrder == \A c, d \in Clients : c < d /\ request[d] # "none" => request[c] # "none"

WebInit ==
  \/ hook = "useDaemon" /\ ViewUnused /\ GraphInit /\ DashboardInit
  \/ hook = "useRepositoryGraph" /\ DashboardUnused /\ GraphInit /\ ViewInit
  \/ hook = "endpoint" /\ DashboardUnused /\ ViewUnused /\ GraphInit

WebNext ==
  /\ UNCHANGED hook
  /\ \/ /\ hook = "useDaemon" /\ DashboardNext /\ report' \in {NoReport, AnyReport}
        /\ UNCHANGED <<viewVars, endpointVars>>
     \/ /\ hook = "useRepositoryGraph" /\ ViewNext
        /\ UNCHANGED <<dashboardVars, endpointVars>>
     \/ /\ hook = "endpoint" /\ GraphNext /\ AskedInOrder'
        /\ UNCHANGED <<viewVars, epoch, streamVars, turns, hookVars>>

WebSpec ==
  WebInit /\ [][WebNext]_<<hook, dashboardVars, viewVars, endpointVars>>
    /\ DashboardFairness /\ ViewFairness /\ GraphFairness
================================================================================
