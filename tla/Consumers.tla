------------------------------- MODULE Consumers -------------------------------
(***************************************************************************)
(* `reposcout query consumers` (src/query/consumers.rs): the breadth-first *)
(* search of traverse over the bound call references, and the limits of    *)
(* project.  Whether a report fits its budgets is left open.               *)
(***************************************************************************)
EXTENDS Naturals, Sequences, FiniteSets, FiniteSetsExt, SequencesExt

CONSTANTS
  SymbolCount,   \* the symbols are 1..SymbolCount, in the order of their keys
  PathOf,        \* the path of every symbol
  SeedLists,     \* possible seeds; one may be named twice
  MaxReferences, \* bound: the references of a repository
  MaxDepth, Limit, PathLimit  \* the options; depths are 1..MaxDepth

ASSUME ConsumersAssumption ==
  /\ SymbolCount \in Nat /\ MaxReferences \in Nat
  /\ {MaxDepth, Limit, PathLimit} \subseteq Nat \ {0}
  /\ SeedLists \subseteq Seq(1..SymbolCount) \ {<<>>}
  /\ DOMAIN PathOf = 1..SymbolCount

Symbols == 1..SymbolCount
ModuleScope == 0     \* a reference outside of every declaration
Unseen == SymbolCount + 1

VARIABLES
  references, direction, seeds, depth,  \* the topology and the request
  queue, distances, evidence,           \* traverse
  hits,          \* what project has still to look at, in order
  paths,         \* the paths that project has come to
  admitted,      \* what the limits left
  returned,      \* ConsumersQueryReport.hits
  counts,        \* the other counters of the report
  stage          \* traversing, limiting, fitting or reported

requestVars == <<references, direction, seeds, depth>>
traverseVars == <<queue, distances, evidence>>
consumersVars == <<requestVars, traverseVars, hits, paths, admitted, returned,
                   counts, stage>>

NoCounts == [total |-> 0, depth |-> 0, path |-> 0, limit |-> 0, budget |-> 0]

\* What the scan may have found, MaxReferences of them at most.
ReferenceSets ==
  {Range(refs) :
     refs \in UNION {[1..k -> (Symbols \cup {ModuleScope}) \X Symbols] : k \in 0..MaxReferences}}

ConsumersInit ==
  /\ references \in ReferenceSets
  /\ direction \in {"incoming", "outgoing", "both"}
  /\ seeds \in SeedLists /\ depth \in 1..MaxDepth
  /\ queue = seeds
  /\ distances = [s \in Symbols |-> IF s \in ToSet(seeds) THEN 0 ELSE Unseen]
  /\ evidence = [s \in Symbols |-> {}]
  /\ hits = <<>> /\ paths = {} /\ admitted = <<>> /\ returned = {}
  /\ counts = NoCounts /\ stage = "traversing"

\* The references between a symbol and a neighbour of it in `adjacency`.
Between(s, t) ==
  {r \in references :
     /\ r[1] # ModuleScope
     /\ \/ direction # "outgoing" /\ r = <<t, s>>
        \/ direction # "incoming" /\ r = <<s, t>>}

\* mutant: the search does not go on beyond the depth that is shown
NeighborsInDepth(s) == {t \in Symbols : Between(s, t) # {} /\ distances[s] < depth}

Neighbors(s) == {t \in Symbols : Between(s, t) # {}}

\* What a symbol tells of its neighbour, whose distance is known by then.
EvidenceFor(s, t) ==
  IF distances[s] + 1 <= depth /\ distances[t] \in {Unseen, distances[s] + 1}
  THEN Between(s, t) ELSE {}

\* The members of S, each before those that it comes before.
Ordered(S, Before(_, _)) ==
  CHOOSE s \in SetToSeqs(S) : \A i, j \in DOMAIN s : i < j => Before(s[i], s[j])

Visit ==
  /\ stage = "traversing" /\ queue # <<>>
  /\ LET s == Head(queue)
         new == {t \in Neighbors(s) : distances[t] = Unseen}
     IN /\ queue' = Tail(queue) \o Ordered(new, <)
        /\ distances' = [t \in Symbols |-> IF t \in new THEN distances[s] + 1
                                           ELSE distances[t]]
        /\ evidence' = [t \in Symbols |-> IF t \in Neighbors(s)
                                          THEN evidence[t] \cup EvidenceFor(s, t)
                                          ELSE evidence[t]]
  /\ UNCHANGED <<requestVars, hits, paths, admitted, returned, counts, stage>>

Sooner(s, t) ==
  distances[s] < distances[t] \/ (distances[s] = distances[t] /\ s < t)

EndTraversal ==
  /\ stage = "traversing" /\ queue = <<>>
  /\ LET found == {s \in Symbols : evidence[s] # {}}
     IN /\ hits' = Ordered(found, Sooner)
        /\ counts' = [NoCounts EXCEPT
             !.total = Cardinality(found),
             !.depth = Cardinality({s \in Symbols : distances[s] \in (depth + 1)..SymbolCount})]
  /\ stage' = "limiting"
  /\ UNCHANGED <<requestVars, traverseVars, paths, admitted, returned>>

NewPath(s) == PathOf[s] \notin paths

LimitHit ==
  /\ stage = "limiting" /\ hits # <<>>
  /\ LET s == Head(hits)
     IN /\ hits' = Tail(hits)
        /\ \/ /\ NewPath(s) /\ Cardinality(paths) >= PathLimit
              /\ counts' = [counts EXCEPT !.path = @ + 1]
              /\ UNCHANGED <<paths, admitted>>
           \/ /\ NewPath(s) => Cardinality(paths) < PathLimit
              /\ paths' = paths \cup {PathOf[s]}
              /\ \/ /\ Len(admitted) >= Limit
                    /\ counts' = [counts EXCEPT !.limit = @ + 1]
                    /\ UNCHANGED admitted
                 \/ /\ Len(admitted) < Limit
                    /\ admitted' = Append(admitted, s)
                    /\ UNCHANGED counts
  /\ UNCHANGED <<requestVars, traverseVars, returned, stage>>

EndLimits ==
  /\ stage = "limiting" /\ hits = <<>>
  /\ counts' = [counts EXCEPT !.budget = Len(admitted)]
  /\ stage' = "fitting"
  /\ UNCHANGED <<requestVars, traverseVars, hits, paths, admitted, returned>>

\* A hit that does not fit is taken back, and a later one may fit.
FitHit ==
  /\ stage = "fitting" /\ admitted # <<>>
  /\ admitted' = Tail(admitted)
  /\ \/ /\ returned' = returned \cup {Head(admitted)}
        /\ counts' = [counts EXCEPT !.budget = @ - 1]
     \/ UNCHANGED <<returned, counts>>
  /\ UNCHANGED <<requestVars, traverseVars, hits, paths, stage>>

Report ==
  /\ stage = "fitting" /\ admitted = <<>>
  /\ stage' = "reported"
  /\ UNCHANGED <<requestVars, traverseVars, hits, paths, admitted, returned, counts>>

ConsumersNext ==
  Visit \/ EndTraversal \/ LimitHit \/ EndLimits \/ FitHit \/ Report

ConsumersSpec == ConsumersInit /\ [][ConsumersNext]_consumersVars

\* The symbols that n references or fewer lead to, and the least number of
\* references from a seed to every symbol.
Near[n \in 0..SymbolCount] ==
  IF n = 0 THEN ToSet(seeds)
  ELSE LET before == Near[n - 1]
       IN before \cup {t \in Symbols : \E s \in before : Between(s, t) # {}}

Distances ==
  [s \in Symbols |-> Min({n \in 0..SymbolCount : s \in Near[n]} \cup {Unseen})]

(***************************************************************************)
(* The matches are the symbols that are reached within the depth, at their *)
(* least distance, each with all the references that reach it from one     *)
(* step nearer; what lies deeper is counted.  Cycles, seeds that refer to  *)
(* each other and a seed named twice do not change that.                   *)
(***************************************************************************)
MatchesAreNearest ==
  stage = "limiting" /\ paths = {} =>
    LET distance == Distances
    IN /\ \A s \in Symbols :
            evidence[s] =
              IF distance[s] \in 1..depth
              THEN UNION {Between(t, s) : t \in {u \in Symbols :
                                               distance[u] = distance[s] - 1}}
              ELSE {}
       /\ \A i, j \in DOMAIN hits : i < j => distance[hits[i]] <= distance[hits[j]]
       /\ counts.depth =
            Cardinality({s \in Symbols : distance[s] \in (depth + 1)..SymbolCount})

(***************************************************************************)
(* Every match is returned or counted under one reason of its omission,    *)
(* and the returned ones keep both limits.                                 *)
(***************************************************************************)
MatchesAccounted ==
  stage = "reported" =>
    /\ counts.total =
         Cardinality(returned) + counts.path + counts.limit + counts.budget
    /\ Cardinality(returned) <= Limit
    /\ Cardinality({PathOf[s] : s \in returned}) <= PathLimit

(***************************************************************************)
(* The traversal finds the nearest matches and accounts for all of them.   *)
(***************************************************************************)
ConsumersFound ==
  /\ MatchesAreNearest
  /\ MatchesAccounted
===============================================================================
