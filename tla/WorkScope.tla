-------------------------------- MODULE WorkScope --------------------------------
(***************************************************************************)
(* The work scope of src/work_scope.rs, projected from a finished reading  *)
(* plan and the import graph: the paths in focus and changed, then the     *)
(* weakly connected parts of the graph, all out of one budget of paths.    *)
(***************************************************************************)
EXTENDS ContextPlan

CONSTANTS
  ScopePaths,     \* MAX_PATH_ENTRIES
  ScopeComponents \* MAX_COMPONENTS

ASSUME ScopeAssumption ==
  /\ {ScopePaths, ScopeComponents} \subseteq Nat
  /\ \A r \in Repositories : r.unmatched \subseteq Nat /\ IsFiniteSet(r.unmatched)

VARIABLES
  remaining,  \* PathBudget
  lists,      \* the bounded lists so far: [of, all, shown]
  visited,    \* project_structure: files that are in a component or queued
  queue,
  component,  \* files of the component at hand
  weak,       \* components that are complete
  entries,    \* components that are listed
  scopePhase

scopeVars == <<remaining, lists, visited, queue, component, weak, entries, scopePhase>>

\* A path of the plan's focus that matches no file.
Unmatched == repo.unmatched

\* PathBudget::take of the paths ps in their order
Take(budget, of, ps) ==
  LET all == Ascending(ps)
      n == Min({Cardinality(ps), budget.remaining})
  IN [remaining |-> budget.remaining - n,
      lists |-> Append(budget.lists, [of |-> of, all |-> ps, shown |-> SubSeq(all, 1, n)])]

\* project_focus, project_changes
ProjectSeeds ==
  /\ contextPhase = "done" /\ scopePhase = "seeds"
  /\ LET none == [remaining |-> remaining, lists |-> lists]
         focus == IF repo.focus \cup Unmatched = {} THEN none
                  ELSE Take(Take(none, "focus", repo.focus), "unmatched", Unmatched)
         changes == IF repo.diff THEN Take(focus, "changes", repo.changed) ELSE focus
     IN remaining' = changes.remaining /\ lists' = changes.lists
  /\ scopePhase' = "structure"
  /\ UNCHANGED <<visited, queue, component, weak, entries>>

\* graph_seed_paths: of the seeds those that the graph has; no diagnosed ones
GraphSeeds == (repo.focus \cup repo.changed) \cap Paths

\* mutant: only what a file imports is beside it
Imported(p) == {q \in Paths : <<p, q>> \in repo.imports}
Neighbors(p) == {q \in Paths : <<p, q>> \in repo.imports \/ <<q, p>> \in repo.imports}

NextComponent ==
  /\ scopePhase = "structure" /\ queue = <<>>
  /\ weak' = IF component = {} THEN weak ELSE Append(weak, component)
  /\ IF Paths \subseteq visited
     THEN /\ scopePhase' = "entries" /\ component' = {}
          /\ UNCHANGED <<visited, queue>>
     ELSE LET start == Min(Paths \ visited)
          IN /\ visited' = visited \cup {start} /\ queue' = <<start>> /\ component' = {}
             /\ UNCHANGED scopePhase
  /\ UNCHANGED <<remaining, lists, entries>>

VisitNeighbors ==
  /\ scopePhase = "structure" /\ queue # <<>>
  /\ LET p == Head(queue)
         found == Neighbors(p) \ visited
     IN /\ component' = component \cup {p}
        /\ visited' = visited \cup found
        /\ queue' = Tail(queue) \o Ascending(found)
  /\ UNCHANGED <<remaining, lists, weak, entries, scopePhase>>

\* Components with more seeds first, then larger ones, then by their first path.
First(c, d) ==
  LET s == Cardinality(c \cap GraphSeeds)
      t == Cardinality(d \cap GraphSeeds)
  IN \/ s > t
     \/ s = t /\ Cardinality(c) > Cardinality(d)
     \/ s = t /\ Cardinality(c) = Cardinality(d) /\ Min(c) < Min(d)

Sorted(cs) ==
  [i \in 1..Cardinality(cs) |-> CHOOSE c \in cs : Cardinality({d \in cs : First(d, c)}) = i - 1]

\* The entries of project_structure: seeded components alone, where there are some.
ListComponents ==
  /\ scopePhase = "entries"
  /\ LET seeded == {c \in Range(weak) : c \cap GraphSeeds # {}}
         due == IF seeded = {} THEN Range(weak) ELSE seeded
         n == Min({Cardinality(due), ScopeComponents})
         top == SubSeq(Sorted(due), 1, n)
         taken[i \in 0..n] ==
           IF i = 0 THEN [remaining |-> remaining, lists |-> lists]
           ELSE Take(taken[i - 1], "component",
                     IF seeded = {} THEN {Min(top[i])} ELSE top[i] \cap GraphSeeds)
     IN entries' = top /\ remaining' = taken[n].remaining /\ lists' = taken[n].lists
  /\ scopePhase' = "done"
  /\ UNCHANGED <<visited, queue, component, weak>>

ScopeStart ==
  /\ remaining = ScopePaths /\ lists = <<>>
  /\ visited = {} /\ queue = <<>> /\ component = {} /\ weak = <<>> /\ entries = <<>>
  /\ scopePhase = "seeds"

ScopeInit == ContextInit /\ ScopeStart

\* The plan is made first; it is not changed by what is projected from it.
ScopeNext ==
  \/ ContextNext /\ UNCHANGED scopeVars
  \/ /\ ProjectSeeds \/ NextComponent \/ VisitNeighbors \/ ListComponents
     /\ UNCHANGED contextVars

ScopeSpec == ScopeInit /\ [][ScopeNext]_<<contextVars, scopeVars>>

-------------------------------------------------------------------------------

\* project_context
Truncated == omitted # <<>> \/ outlined.left > 0

(***************************************************************************)
(* The components are the classes of files that imports connect, whatever  *)
(* their direction: none is split, none is merged, every file is in one.   *)
(***************************************************************************)
WeaklyConnected ==
  LET AsOne(c) == \A s \in (SUBSET c) \ {{}, c} :
                    \E p \in s, q \in c \ s : <<p, q>> \in repo.imports \/ <<q, p>> \in repo.imports
      Apart(c) == \A p \in c, q \in Paths \ c : {<<p, q>>, <<q, p>>} \cap repo.imports = {}
  IN scopePhase \in {"entries", "done"} =>
       /\ UNION Range(weak) = Paths
       /\ \A i, j \in DOMAIN weak : i # j => weak[i] \cap weak[j] = {}
       /\ \A c \in Range(weak) : AsOne(c) /\ Apart(c)

(***************************************************************************)
(* One budget bounds all the lists together, a path is left out only when  *)
(* it is used up, and lists that are told earlier are not cut for later    *)
(* ones; a seed that the graph has is told with its component unless the   *)
(* budget or the number of components ran out.                             *)
(***************************************************************************)
PathsBounded ==
  LET count == SumFunction([i \in DOMAIN lists |-> Len(lists[i].shown)])
      Cut(l) == Len(l.shown) < Cardinality(l.all)
  IN /\ count + remaining = ScopePaths
     /\ \A i \in DOMAIN lists : Cut(lists[i]) =>
          remaining = 0 /\ \A j \in i + 1..Len(lists) : lists[j].shown = <<>>
     /\ scopePhase = "done" =>
          \A p \in GraphSeeds :
            \/ \E l \in Range(lists) : l.of = "component" /\ p \in l.all
            \/ Len(entries) = ScopeComponents

(***************************************************************************)
(* A scope that does not say it is truncated tells of a plan that reads    *)
(* every candidate and shows every declaration.                            *)
(***************************************************************************)
TruncationTold ==
  contextPhase = "done" /\ ~Truncated =>
    Range(reading) = Candidates /\ \A p \in Candidates : shown[p] = DOMAIN File(p).outline

(***************************************************************************)
(* The work scope is true to the plan and the graph it is projected from,  *)
(* and that plan is sound itself.                                          *)
(***************************************************************************)
ScopeSound ==
  /\ ContextSound
  /\ WeaklyConnected
  /\ PathsBounded
  /\ TruncationTold
===================================================================================
