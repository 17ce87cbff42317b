------------------------------ MODULE ImportGraph ------------------------------
(***************************************************************************)
(* The import graph of src/graph.rs: namespaces are registered before any  *)
(* import is resolved, every file's imports become edges or are counted,   *)
(* and a query walks the edges: the neighbourhood of a focus or the impact *)
(* of a change (src/graph/project.rs).  Files are 1, 2, ... in path order. *)
(* What one language's resolver makes of a path is abstracted to the file  *)
(* it names; a namespace, a sequence of its parts, is resolved as in       *)
(* src/graph/csharp.rs.                                                    *)
(***************************************************************************)
EXTENDS Components

CONSTANTS
  Repositories,  \* the trees that are looked at, see below
  MaxFocusDepth, \* bounds: the depth of a focus query and the files a focus matches
  MaxFocusFiles

(***************************************************************************)
(* A repository is [files, config_errors].  A file has a language; a state:*)
(* "whole", "broken" (syntax errors, of which the parser recovers any part)*)
(* "unreadable" (or over budget) or "deleted" (a changed path that is not  *)
(* there any more); the namespaces it declares and its imports:            *)
(* [kind |-> "relative" or "alias", to |-> file or 0], where 0 is no file  *)
(* and an alias is one of a configuration file, or                         *)
(* [kind |-> "using", namespace |-> ...] in C#.                            *)
(***************************************************************************)
ASSUME ImportGraphAssumption ==
  /\ MaxFocusDepth \in Nat /\ MaxFocusFiles \in Nat
  /\ \A r \in Repositories : \A i \in DOMAIN r.files :
       r.files[i].state \in {"whole", "broken", "unreadable", "deleted"}

VARIABLES
  repository,
  graphStep,    \* "register", "resolve", "query", "walk" or "told"
  at,           \* the files this step is done with
  namespaces,   \* the file of a namespace, 0 when several declare it
  topology,     \* edges, self_cycles, unresolved (by file), unreadable, parse_errors (files)
  query,        \* what is asked: seeds, direction, depth and kind
  distance,     \* of a file from the seeds, None when not reached
  graphQueue    \* files whose neighbours are to be looked at

graphVars == <<repository, graphStep, at, namespaces, topology, query, distance, graphQueue>>

None == 99
SourceFiles == DOMAIN repository.files
NoWalk == [seeds |-> {}, direction |-> "dependents", depth |-> 0, kind |-> "none", outside |-> 0]

ImportGraphInit ==
  /\ repository \in Repositories
  /\ graphStep = "register" /\ at = 0
  /\ namespaces = [n \in {} |-> 0]
  /\ topology = [edges |-> {}, self_cycles |-> {}, unresolved |-> [f \in SourceFiles |-> 0],
                 unreadable |-> {}, parse_errors |-> {}]
  /\ query = NoWalk /\ distance = [f \in SourceFiles |-> None] /\ graphQueue = <<>>

File(f) == repository.files[f]

\* load_source_facts: what is extracted of a set, by the file's state
Extracted(f, all) ==
  CASE File(f).state = "whole" -> {all}
    [] File(f).state = "broken" -> SUBSET all
    [] OTHER -> {{}}

mark_unreadable(f) ==
  IF File(f).state = "unreadable" THEN topology.unreadable \cup {f} ELSE topology.unreadable

\* mutant: a namespace stays with the first file that declares it
add_first_source(f, declared) ==
  [n \in DOMAIN namespaces \cup declared |->
     IF n \in DOMAIN namespaces THEN namespaces[n] ELSE f]

add_source(f, declared) ==
  [n \in DOMAIN namespaces \cup declared |->
     IF n \notin declared THEN namespaces[n]
     ELSE IF n \in DOMAIN namespaces /\ namespaces[n] # f THEN 0 ELSE f]

Step(from, to) ==
  IF at + 1 = Len(repository.files)
  THEN graphStep' = to /\ at' = 0
  ELSE graphStep' = from /\ at' = at + 1

\* The first pass: C# files are read and their namespaces registered.
Register ==
  /\ graphStep = "register"
  /\ LET f == at + 1
     IN IF File(f).language # "csharp" THEN UNCHANGED <<namespaces, topology>>
        ELSE /\ \E declared \in Extracted(f, File(f).declares) :
                  namespaces' = add_source(f, declared)
             /\ topology' = [topology EXCEPT !.unreadable = mark_unreadable(f)]
  /\ Step("register", "resolve")
  /\ UNCHANGED <<repository, query, distance, graphQueue>>

ResolvedTo(f) == [status |-> "resolved", target |-> f]
Other(status) == [status |-> status, target |-> 0]

resolve_namespace(importer, n) ==
  IF n \in DOMAIN namespaces
  THEN IF namespaces[n] \notin {0, importer} THEN ResolvedTo(namespaces[n]) ELSE Other("local")
  ELSE IF \E other \in DOMAIN namespaces : IsPrefix(n, other) \/ IsPrefix(other, n)
       THEN Other("local") ELSE Other("external")

resolve_import(importer, import) ==
  CASE import.kind = "using" -> resolve_namespace(importer, import.namespace)
    [] import.kind = "alias" /\ repository.config_errors > 0 -> Other("external")
    [] OTHER -> IF import.to = 0 THEN Other("unresolved") ELSE ResolvedTo(import.to)

record_resolutions(f, imports) ==
  LET results == {<<i, resolve_import(f, i)>> : i \in imports}
      targets == {r[2].target : r \in {r \in results : r[2].status = "resolved"}}
  IN [topology EXCEPT
        !.edges = @ \cup {<<f, t>> : t \in targets \ {f}},
        !.self_cycles = IF f \in targets THEN @ \cup {f} ELSE @,
        !.unresolved[f] = Cardinality({r \in results : r[2].status = "unresolved"}),
        !.unreadable = mark_unreadable(f),
        !.parse_errors = IF File(f).state = "broken" THEN @ \cup {f} ELSE @]

\* The second pass: every file's imports are resolved and recorded.
Resolve ==
  /\ graphStep = "resolve"
  /\ LET f == at + 1
     IN \E imports \in Extracted(f, File(f).imports) :
          topology' = record_resolutions(f, imports)
  /\ Step("resolve", "query")
  /\ UNCHANGED <<repository, namespaces, query, distance, graphQueue>>

Deleted == {f \in SourceFiles : File(f).state = "deleted"}

\* A focus matches some files or none; a change has the deleted files, others
\* and perhaps one that is not of the graph.
Queries ==
  [seeds : {s \in SUBSET SourceFiles : Cardinality(s) <= MaxFocusFiles},
   direction : {"dependencies", "dependents", "both"}, depth : 0..MaxFocusDepth,
   kind : {"focus"}, outside : {0}]
    \cup [seeds : {s \in SUBSET SourceFiles : Deleted \subseteq s},
          direction : {"dependents"}, depth : {Len(repository.files)}, kind : {"impact"},
          outside : {0, 1}]

Ask ==
  /\ graphStep = "query"
  /\ query' \in Queries
  /\ distance' = [f \in SourceFiles |-> IF f \in query'.seeds THEN 0 ELSE None]
  /\ \E order \in SetToSeqs(query'.seeds) : graphQueue' = order
  /\ graphStep' = "walk"
  /\ UNCHANGED <<repository, at, namespaces, topology>>

dependencies(f) == {g \in SourceFiles : <<f, g>> \in topology.edges}
dependents(f) == {g \in SourceFiles : <<g, f>> \in topology.edges}
neighbors(f) ==
  (IF query.direction \in {"dependencies", "both"} THEN dependencies(f) ELSE {})
    \cup (IF query.direction \in {"dependents", "both"} THEN dependents(f) ELSE {})

\* One round of fill_focus_distances, or of the walk of impact_from_topology.
Walk ==
  /\ graphStep = "walk" /\ graphQueue # <<>>
  /\ LET f == Head(graphQueue)
         next == IF distance[f] >= query.depth THEN {}
                 ELSE {g \in neighbors(f) : distance[g] = None}
     IN /\ distance' = [g \in SourceFiles |-> IF g \in next THEN distance[f] + 1 ELSE distance[g]]
        /\ \E order \in SetToSeqs(next) : graphQueue' = Tail(graphQueue) \o order
  /\ UNCHANGED <<repository, graphStep, at, namespaces, topology, query>>

Tell ==
  /\ graphStep = "walk" /\ graphQueue = <<>>
  /\ graphStep' = "told"
  /\ UNCHANGED <<repository, at, namespaces, topology, query, distance, graphQueue>>

ImportGraphNext == Register \/ Resolve \/ Ask \/ Walk \/ Tell

ImportGraphSpec == ImportGraphInit /\ [][ImportGraphNext]_graphVars

\* impact_from_topology, after its walk
direct_dependents == {f \in SourceFiles \ query.seeds : distance[f] = 1}
transitive_dependents == {f \in SourceFiles \ query.seeds : distance[f] \notin {1, None}}

confidence ==
  IF query.seeds = {} THEN "none"
  ELSE IF /\ query.outside = 0
          /\ \A f \in SourceFiles : topology.unresolved[f] = 0
          /\ topology.unreadable = {} /\ topology.parse_errors = {}
          /\ repository.config_errors = 0
       THEN "high" ELSE "partial"

-------------------------------------------------------------------------------
(* What the files say, whatever was read of them and in which order.       *)

Declarers(n) == {f \in SourceFiles \ Deleted : n \in File(f).declares}

\* The file an import names, if one does.  Of a namespace that several files
\* declare none is named, nor of one that only a deleted file declared.
NamedFile(import) ==
  IF import.kind # "using" THEN {import.to} \ {0}
  ELSE IF Cardinality(Declarers(import.namespace)) = 1 THEN Declarers(import.namespace) ELSE {}

SaysImport(f, g) == f # g /\ f \notin Deleted /\ \E i \in File(f).imports : g \in NamedFile(i)
SaysReach == TransitiveClosure([f, g \in SourceFiles |-> SaysImport(f, g)], SourceFiles)

WithinSteps[k \in 0..Len(repository.files)] ==
  IF k = 0 THEN query.seeds
  ELSE WithinSteps[k - 1] \cup UNION {neighbors(f) : f \in WithinSteps[k - 1]}

(***************************************************************************)
(* An edge is an import some file states, never one to a namespace that    *)
(* more than one file was found to declare, and the only file of a         *)
(* namespace is found wherever it is in path order.  It is missed only if  *)
(* it or its importer could not be read as it is.                          *)
(***************************************************************************)
EdgesAreImports ==
  graphStep = "query" =>
    /\ \A f, g \in SourceFiles :
         <<f, g>> \in topology.edges =>
           \E i \in File(f).imports :
             \/ g \in NamedFile(i)
             \/ i.kind = "using" /\ g \in Declarers(i.namespace)
                /\ \E h \in Declarers(i.namespace) \ {g} : File(h).state # "whole"
    /\ \A f, g \in SourceFiles :
         SaysImport(f, g) /\ File(f).state = "whole" /\ repository.config_errors = 0 =>
           \/ <<f, g>> \in topology.edges
           \/ File(g).state # "whole"

(***************************************************************************)
(* A file's distance is the length of the shortest way to it from a seed,  *)
(* in the direction asked for, and it is left out only beyond the depth.   *)
(***************************************************************************)
DistancesShortest ==
  graphStep = "told" =>
    \A f \in SourceFiles :
      IF distance[f] = None
      THEN f \notin WithinSteps[Min({query.depth, Len(repository.files)})]
      ELSE /\ f \in WithinSteps[distance[f]]
           /\ distance[f] <= query.depth
           /\ \A k \in 0..distance[f] - 1 : f \notin WithinSteps[k]

(***************************************************************************)
(* An impact of high confidence is exact: its direct dependents are the    *)
(* files that import a changed one, and its transitive dependents the      *)
(* others that reach one through imports.                                  *)
(***************************************************************************)
HighImpactIsExact ==
  graphStep = "told" /\ query.kind = "impact" /\ confidence = "high" =>
    LET others == SourceFiles \ query.seeds
        direct == {f \in others : \E g \in query.seeds : SaysImport(f, g)}
    IN /\ direct_dependents = direct
       /\ transitive_dependents =
            {f \in others \ direct : \E g \in query.seeds : SaysReach[f, g]}

(***************************************************************************)
(* What the graph tells of a repository: its edges, its neighbourhoods,    *)
(* the impact of a change and its cycles.                                  *)
(***************************************************************************)
ImportsTold ==
  /\ EdgesAreImports /\ DistancesShortest /\ HighImpactIsExact
  /\ ComponentsFound
===============================================================================
