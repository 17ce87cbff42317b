------------------------------ MODULE DaemonGraph -----------------------------
(***************************************************************************)
(* GET /api/graph of src/daemon.rs: a request captures the snapshot's      *)
(* revision and inputs, waits for the graph cache, and answers from it or  *)
(* from a build that runs on a blocking thread while the cache is locked.  *)
(* The snapshot is that of LiveReport; a client may disconnect at any      *)
(* await, which drops its handler but not the blocking thread.             *)
(***************************************************************************)
EXTENDS LiveReport, FiniteSets

CONSTANTS
  Clients,     \* graph requests
  Unnamed,     \* a request without ?revision=N
  NoGraph,     \* the empty cache, and the answer of an unanswered request
  MaxLog    \* bound: events the daemon broadcasts

VARIABLES
  request,     \* program counter of every request
  held,        \* the revision and inputs that a request captured
  answer,      \* the graph response of a request
  cache,       \* graph_cache
  holder,      \* the requests that hold the lock of graph_cache
  builds,      \* the requests whose build a blocking thread runs
  published,   \* history: the report of every revision
  stored,      \* history: the revisions that some build has cached
  rebuilt,     \* history: a build started for a stored revision
  overtaken    \* history: a build started for another revision than the current

requestVars == <<request, held, answer>>
cacheVars == <<cache, holder, builds>>
historyVars == <<stored, rebuilt, overtaken>>

graphVars == <<reportVars, requestVars, cacheVars, published, historyVars>>

\* The topology is a function of the revision's source facts and configs.
Graph(inputs) == [topologyOf |-> inputs]

GraphResponses == [revision : Nat, graph : [topologyOf : Reports]]

ASSUME GraphAssumption ==
  /\ Unnamed \notin Nat
  /\ NoGraph \notin GraphResponses
  /\ MaxLog \in Nat

Free == holder = {}

GraphInit ==
  /\ ReportInit
  /\ request = [c \in Clients |-> "none"]
  /\ held = [c \in Clients |-> NoGraph]
  /\ answer = [c \in Clients |-> NoGraph]
  /\ cache = NoGraph
  /\ holder = {}
  /\ builds = {}
  /\ published = <<>>
  /\ stored = {} /\ rebuilt = FALSE /\ overtaken = FALSE

-------------------------------------------------------------------------------

\* The scan service goes on; every completed scan is a further revision.
Publication ==
  /\ Len(log) < MaxLog
  /\ ReportNext
  /\ published' = IF revision' = revision THEN published
                  ELSE Append(published, report')
  /\ UNCHANGED <<requestVars, cacheVars, historyVars>>

\* Under the snapshot's read lock: refuse a revision that is not current and
\* a daemon without a report, capture revision and inputs otherwise.
Ask(c, expected) ==
  /\ request[c] = "none"
  /\ IF expected \notin {Unnamed, revision} \/ report = NoReport
     THEN request' = [request EXCEPT ![c] = "conflict"] /\ UNCHANGED held
     ELSE /\ request' = [request EXCEPT ![c] = "waiting"]
          /\ held' = [held EXCEPT ![c] =
                        [asked |-> expected, revision |-> revision,
                         inputs |-> report]]
  /\ UNCHANGED <<reportVars, answer, cacheVars, published, historyVars>>

IsCachedAsNamed(c) == cache # NoGraph /\ cache.revision = held[c].asked

IsCached(c) == cache # NoGraph /\ cache.revision = held[c].revision

\* The cache is locked and holds the captured revision: answer and unlock.
AnswerFromCache(c) ==
  /\ request[c] = "waiting"
  /\ Free
  /\ IsCached(c)
  /\ request' = [request EXCEPT ![c] = "answered"]
  /\ answer' = [answer EXCEPT ![c] = [revision |-> held[c].revision,
                                      graph |-> cache.graph]]
  /\ UNCHANGED <<reportVars, held, cacheVars, published, historyVars>>

\* The cache is locked and holds another revision: build, keeping the lock.
StartBuild(c) ==
  /\ request[c] = "waiting"
  /\ Free
  /\ ~IsCached(c)
  /\ request' = [request EXCEPT ![c] = "building"]
  /\ holder' = {c}
  /\ builds' = builds \cup {c}
  /\ rebuilt' = (rebuilt \/ held[c].revision \in stored)
  /\ overtaken' = (overtaken \/ held[c].revision # revision)
  /\ UNCHANGED <<reportVars, held, answer, cache, published, stored>>

\* The build ends; its handler, if it is still there, caches and answers.
FinishBuildFromSnapshot(c) ==
  LET built == [revision |-> held[c].revision, graph |-> Graph(report)]
  IN /\ c \in builds
     /\ builds' = builds \ {c}
     /\ request[c] = "building"
     /\ request' = [request EXCEPT ![c] = "answered"]
     /\ cache' = built
     /\ answer' = [answer EXCEPT ![c] = built]
     /\ holder' = {}
     /\ stored' = stored \cup {held[c].revision}
     /\ UNCHANGED <<reportVars, held, published, rebuilt, overtaken>>

FinishBuild(c) ==
  LET built == [revision |-> held[c].revision, graph |-> Graph(held[c].inputs)]
  IN /\ c \in builds
     /\ builds' = builds \ {c}
     /\ \/ /\ request[c] = "building"
           /\ request' = [request EXCEPT ![c] = "answered"]
           /\ cache' = built
           /\ answer' = [answer EXCEPT ![c] = built]
           /\ holder' = {}
           /\ stored' = stored \cup {held[c].revision}
        \/ /\ request[c] = "gone"
           /\ UNCHANGED <<request, cache, answer, holder, stored>>
     /\ UNCHANGED <<reportVars, held, published, rebuilt, overtaken>>

\* The blocking task panics: the handler answers 500 and leaves the cache.
BuildPanics(c) ==
  /\ c \in builds
  /\ request[c] = "building"
  /\ builds' = builds \ {c}
  /\ request' = [request EXCEPT ![c] = "failed"]
  /\ holder' = {}
  /\ UNCHANGED <<reportVars, held, answer, cache, published, historyVars>>

DisconnectLocked(c) ==
  /\ request[c] \in {"waiting", "building"}
  /\ request' = [request EXCEPT ![c] = "gone"]
  /\ UNCHANGED <<reportVars, held, answer, cacheVars, published, historyVars>>

\* The handler is dropped at its await, with its place in the queue or its
\* lock; a build that runs goes on.
Disconnect(c) ==
  /\ request[c] \in {"waiting", "building"}
  /\ request' = [request EXCEPT ![c] = "gone"]
  /\ holder' = holder \ {c}
  /\ UNCHANGED <<reportVars, held, answer, cache, builds, published,
                 historyVars>>

\* Which revisions a client may name: those it can have seen.
Revisions == {Unnamed} \cup 1 .. (revision + 1)

GraphNext ==
  \/ Publication
  \/ \E c \in Clients :
       \/ \E expected \in Revisions : Ask(c, expected)
       \/ AnswerFromCache(c) \/ StartBuild(c) \/ FinishBuild(c)
       \/ BuildPanics(c) \/ Disconnect(c)

GraphSpec == GraphInit /\ [][GraphNext]_graphVars

\* A build is bounded by the graph limits and ends, and the cache's mutex lets
\* every waiting request in.
GraphFairness ==
  \A c \in Clients :
    /\ WF_graphVars(AnswerFromCache(c) \/ StartBuild(c))
    /\ WF_graphVars(FinishBuild(c) \/ BuildPanics(c))

FairGraphSpec == GraphSpec /\ GraphFairness
-------------------------------------------------------------------------------

HeldInputs == [asked : {Unnamed} \cup Nat, revision : Nat, inputs : Reports]

GraphTypeOK ==
  /\ ReportTypeOK
  /\ request \in [Clients -> {"none", "conflict", "waiting", "building",
                              "answered", "failed", "gone"}]
  /\ held \in [Clients -> HeldInputs \cup {NoGraph}]
  /\ answer \in [Clients -> GraphResponses \cup {NoGraph}]
  /\ cache \in GraphResponses \cup {NoGraph}
  /\ holder \subseteq Clients /\ builds \subseteq Clients
  /\ published \in Seq(Reports)
  /\ stored \subseteq Nat /\ rebuilt \in BOOLEAN /\ overtaken \in BOOLEAN

\* "builds topology only from those inputs, without rereading mutable live
\* sources": an answer's graph is that of the report published under the
\* answer's revision, whatever was published while it waited or was built,
\* and the answer's revision is the one that the client named.
AnswersTellOneRevision ==
  \A c \in Clients : request[c] = "answered" =>
    /\ answer[c].revision \in 1 .. Len(published)
    /\ answer[c].graph = Graph(published[answer[c].revision])
    /\ held[c].asked \in {Unnamed, answer[c].revision}

\* The cache lock is held by a connected build alone, and by one at most: a
\* dropped handler leaves the cache usable.
LockFollowsBuild ==
  /\ holder = {c \in Clients : request[c] = "building"}
  /\ Cardinality(holder) <= 1
  /\ holder \subseteq builds

\* A revision that was cached is built again only after some request was
\* overtaken by a newer report between its capture and its turn.
RebuiltOnlyWhenOvertaken == rebuilt => overtaken

\* Every request that waits for the cache is answered, fails or leaves: each
\* client asks once, and in the end none waits.
EveryRequestEnds == <>[](\A c \in Clients : request[c] \notin {"waiting", "building"})

\* docs/daemon-and-web.md: "Graph topology is separately single-flight."
OneBuildAtATime == Cardinality(builds) <= 1
=============================================================================
