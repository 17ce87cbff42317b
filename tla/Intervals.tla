------------------------------ MODULE Intervals ------------------------------
(***************************************************************************)
(* MergedIntervals of src/dup/intervals.rs: half-open ranges of tokens,    *)
(* kept merged so that one lookup tells whether a window is covered.  An   *)
(* insertion is modelled step by step, as its loop goes.                   *)
(***************************************************************************)
EXTENDS Integers

CONSTANT MaxPosition   \* bound: positions are 0..MaxPosition

ASSUME IntervalsAssumption == MaxPosition \in Nat

Positions == 0..MaxPosition

VARIABLES
  by_start,   \* the ranges, as pairs of start and end
  merging,    \* the range that is being inserted, or Nothing
  marked      \* history: the positions that were inserted

intervalVars == <<by_start, merging, marked>>

Nothing == <<0, 0>>

IntervalsInit == by_start = {} /\ merging = Nothing /\ marked = {}

Larger(m, n) == IF m < n THEN n ELSE m

Cells(r) == {p \in Positions : r[1] <= p /\ p < r[2]}

\* by_start.range(..=start).next_back()
Predecessors(start) ==
  {r \in by_start : r[1] <= start /\ \A q \in by_start : q[1] <= start => q[1] <= r[1]}

\* by_start.range(start..).next()
Successors(start) ==
  {r \in by_start : start <= r[1] /\ \A q \in by_start : start <= q[1] => r[1] <= q[1]}

covers(start, end) == \E r \in Predecessors(start) : r[2] >= end

\* mutant: ranges that only touch are kept apart
JoinsOverlapping(start) == {r \in Predecessors(start) : r[2] > start}

\* The range before the new one, if they overlap or touch.
Joins(start) == {r \in Predecessors(start) : r[2] >= start}

Insert(start, end) ==
  /\ merging = Nothing /\ start < end
  /\ marked' = marked \cup Cells(<<start, end>>)
  /\ \/ /\ Joins(start) = {}
        /\ merging' = <<start, end>>
        /\ UNCHANGED by_start
     \/ \E r \in Joins(start) :
          /\ merging' = <<r[1], Larger(end, r[2])>>
          /\ by_start' = by_start \ {r}

Absorb ==
  /\ merging # Nothing
  /\ \E r \in Successors(merging[1]) :
       /\ r[1] <= merging[2]
       /\ merging' = <<merging[1], Larger(merging[2], r[2])>>
       /\ by_start' = by_start \ {r}
  /\ UNCHANGED marked

Settle ==
  /\ merging # Nothing
  /\ \A r \in Successors(merging[1]) : r[1] > merging[2]
  /\ by_start' = by_start \cup {merging}
  /\ merging' = Nothing
  /\ UNCHANGED marked

IntervalsNext ==
  \/ \E start, end \in Positions : Insert(start, end)
  \/ Absorb \/ Settle

IntervalsSpec == IntervalsInit /\ [][IntervalsNext]_intervalVars

(***************************************************************************)
(* A window is reported as covered exactly if each of its positions was    *)
(* inserted, by whatever ranges in whatever order: a lookup that looks at  *)
(* one range only would otherwise skip or repeat comparisons.              *)
(***************************************************************************)
CoversExactly ==
  merging = Nothing =>
    \A start, end \in Positions :
      start < end => (covers(start, end) <=> Cells(<<start, end>>) \subseteq marked)

\* The reasons: ranges keep a gap to each other and to what is being inserted,
\* which nothing before it touches, and together they are what was inserted.
Apart(r, q) == r[2] < q[1] \/ q[2] < r[1]

Accounted ==
  /\ marked \subseteq Positions
  /\ \A p \in Positions :
       p \in marked <=> p \in Cells(merging) \/ \E r \in by_start : p \in Cells(r)

IntervalsInv ==
  /\ by_start \subseteq Positions \X Positions
  /\ merging \in Positions \X Positions
  /\ \A r \in by_start : r[1] < r[2]
  /\ \A r, q \in by_start : r = q \/ Apart(r, q)
  /\ merging # Nothing =>
       /\ merging[1] < merging[2]
       /\ \A r \in by_start : r[2] < merging[1] \/ merging[1] <= r[1]
  /\ Accounted
===============================================================================
