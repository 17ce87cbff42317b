------------------------------ MODULE Components ------------------------------
(***************************************************************************)
(* strongly_connected of src/graph/algorithms.rs: Kosaraju's algorithm     *)
(* with explicit stacks, and graph_cycles of src/graph.rs on top of it.    *)
(* Every import graph of the given files is an initial state; a file's     *)
(* edges are taken in path order, in which graph.rs sorts them.            *)
(***************************************************************************)
EXTENDS Naturals, Sequences, FiniteSets, SequencesExt, Relation

CONSTANT FileCount   \* the files are 1..FileCount, in their order

ASSUME ComponentsAssumption == FileCount \in Nat

Nodes == 1..FileCount

VARIABLES
  edges,         \* importer and imported, two different files
  self_cycles,   \* the files that import themselves
  visited,
  stack,         \* first phase: nodes with the edges still to look at
  finish_order,
  position,      \* second phase: how much of finish_order, from its end, is done
  rstack,        \* second phase: nodes
  comp_id        \* the component of every node, 0 for none

componentVars == <<edges, self_cycles, visited, stack, finish_order, position, rstack,
          comp_id>>
phase1 == <<visited, stack, finish_order>>
phase2 == <<position, rstack, comp_id>>

ComponentsInit ==
  /\ edges \in SUBSET {e \in Nodes \X Nodes : e[1] # e[2]}
  /\ self_cycles \in SUBSET {n \in Nodes : n = 1}
  /\ visited = {} /\ stack = <<>> /\ finish_order = <<>>
  /\ position = 0 /\ rstack = <<>> /\ comp_id = [n \in Nodes |-> 0]

Adjacent(n) == {m \in Nodes : <<n, m>> \in edges}
Importers(n) == {m \in Nodes : <<m, n>> \in edges}

Push(n) == [node |-> n, left |-> Adjacent(n)]

\* The next start that was not visited, in the order of the files.
StartSearch(n) ==
  /\ stack = <<>> /\ n \notin visited
  /\ \A m \in Nodes : m < n => m \in visited
  /\ visited' = visited \cup {n}
  /\ stack' = <<Push(n)>>
  /\ UNCHANGED <<edges, self_cycles, finish_order, phase2>>

Follow(n) ==
  /\ stack # <<>>
  /\ n \in Last(stack).left /\ \A m \in Last(stack).left : n <= m
  /\ LET looked == Append(Front(stack), [Last(stack) EXCEPT !.left = @ \ {n}])
     IN stack' = IF n \in visited THEN looked ELSE Append(looked, Push(n))
  /\ visited' = visited \cup {n}
  /\ UNCHANGED <<edges, self_cycles, finish_order, phase2>>

Finish ==
  /\ stack # <<>>
  /\ Last(stack).left = {}
  /\ finish_order' = Append(finish_order, Last(stack).node)
  /\ stack' = Front(stack)
  /\ UNCHANGED <<edges, self_cycles, visited, phase2>>

Searched == stack = <<>> /\ visited = Nodes

Components == {comp_id[n] : n \in Nodes} \ {0}

\* The next node from the end of finish_order begins a component, or has one.
StartComponent ==
  /\ Searched /\ rstack = <<>> /\ position < FileCount
  /\ LET n == finish_order[FileCount - position]
         c == Cardinality(Components) + 1
     IN IF comp_id[n] # 0 THEN UNCHANGED <<rstack, comp_id>>
        ELSE rstack' = <<n>> /\ comp_id' = [comp_id EXCEPT ![n] = c]
  /\ position' = position + 1
  /\ UNCHANGED <<edges, self_cycles, phase1>>

\* mutant: nodes of other components are taken over
CollectAgain ==
  /\ rstack # <<>>
  /\ LET n == Last(rstack)
         new == {m \in Importers(n) : comp_id[m] # comp_id[n]}
     IN /\ rstack' = Front(rstack) \o SetToSortSeq(new, <)
        /\ comp_id' = [m \in Nodes |-> IF m \in new THEN comp_id[n] ELSE comp_id[m]]
  /\ UNCHANGED <<edges, self_cycles, phase1, position>>

Collect ==
  /\ rstack # <<>>
  /\ LET n == Last(rstack)
         new == {m \in Importers(n) : comp_id[m] = 0}
     IN /\ rstack' = Front(rstack) \o SetToSortSeq(new, <)
        /\ comp_id' = [m \in Nodes |-> IF m \in new THEN comp_id[n] ELSE comp_id[m]]
  /\ UNCHANGED <<edges, self_cycles, phase1, position>>

ComponentsNext ==
  \/ \E n \in Nodes : StartSearch(n) \/ Follow(n)
  \/ Finish \/ StartComponent \/ Collect

ComponentsSpec == ComponentsInit /\ [][ComponentsNext]_componentVars

Complete == Searched /\ rstack = <<>> /\ position = FileCount

Members(c) == {n \in Nodes : comp_id[n] = c}

graph_cycles ==
  {Members(c) : c \in {d \in Components : Cardinality(Members(d)) >= 2}}
    \cup {{n} : n \in self_cycles}

Reaches ==
  TransitiveClosure([n, m \in Nodes |-> <<n, m>> \in edges \/ (n = m /\ n \in self_cycles)],
                    Nodes)

(***************************************************************************)
(* The cycles that are reported are the import cycles: two files share one *)
(* if and only if each imports the other, directly or through others, and  *)
(* a file alone is one if and only if it imports itself.                   *)
(***************************************************************************)
CyclesAreCycles ==
  Complete =>
    LET reaches == Reaches  cycles == graph_cycles
    IN /\ \A n, m \in Nodes : n # m =>
            (reaches[n, m] /\ reaches[m, n] <=> \E c \in cycles : {n, m} \subseteq c)
       /\ \A n \in Nodes : reaches[n, n] <=> \E c \in cycles : n \in c

(***************************************************************************)
(* What makes the second phase right: when all of a node's edges have been *)
(* looked at, what it reaches has been visited, and of two components the  *)
(* one that imports the other finishes last.                               *)
(***************************************************************************)
FinishOrderFollowsImports ==
  Searched /\ position = 0 =>
    LET reaches == Reaches
    IN \A i, j \in 1..FileCount :
         LET n == finish_order[i]  m == finish_order[j]
         IN reaches[n, m] /\ ~reaches[m, n] =>
              \E k \in j + 1..FileCount :
                LET other == finish_order[k]
                IN other = n \/ (reaches[n, other] /\ reaches[other, n])

(***************************************************************************)
(* The components are the cycles, because the order of the first phase is  *)
(* the one that the second phase needs.                                    *)
(***************************************************************************)
ComponentsFound ==
  /\ CyclesAreCycles
  /\ FinishOrderFollowsImports
===============================================================================
