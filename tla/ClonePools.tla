------------------------------ MODULE ClonePools ------------------------------
(***************************************************************************)
(* What the exact and the near clone detection share: the tokens of one    *)
(* pool of files (src/dup/mod.rs), their windows and the pairs of equally  *)
(* hashed windows that are looked at.  The first position is 1, and every  *)
(* token has a line of its own.                                            *)
(***************************************************************************)
EXTENDS Naturals, Integers, Sequences, FiniteSets, FiniteSetsExt, SequencesExt

CONSTANTS
  MinTokens,
  EarlyAnchors, MaxPrevious  \* the predecessors that a window is paired with

ASSUME PoolsAssumption ==
  MinTokens \in Nat \ {0} /\ EarlyAnchors \in Nat /\ MaxPrevious \in Nat

VARIABLE pool   \* the files' tokens, in path order

Occurrence(f, i) == [file |-> f, start |-> i]
Windows ==
  {Occurrence(f, i) : f \in DOMAIN pool, i \in 1..Max({Len(pool[f]) : f \in DOMAIN pool})}
Fits(o, n) == o.start + n - 1 <= Len(pool[o.file])
Text(o, n) == SubSeq(pool[o.file], o.start, o.start + n - 1)
Equal(a, b, n) == Fits(a, n) /\ Fits(b, n) /\ Text(a, n) = Text(b, n)

Earlier(a, b) == a.file < b.file \/ (a.file = b.file /\ a.start < b.start)
InOrder(os) ==
  [i \in 1..Cardinality(os) |->
     CHOOSE o \in os : Cardinality({p \in os : Earlier(p, o)}) = i - 1]

Distance(a, b) == IF a.start < b.start THEN b.start - a.start ELSE a.start - b.start

\* same_file_seed_overlaps
SameFileOverlap(a, b, n) == a.file = b.file /\ Distance(a, b) < n

\* A copy may grow until it meets the other one in the same file.
Room(a, b, n) == a.file # b.file \/ n <= Distance(a, b)

\* predecessor_indices
PredecessorIndices(right) ==
  LET early == Min({EarlyAnchors, MaxPrevious, right - 1})
      recent == IF right - 1 > MaxPrevious THEN right - (MaxPrevious - early)
                ELSE early + 1
  IN [i \in 1..early |-> i] \o [i \in 1..right - recent |-> recent + i - 1]

SeedPairs(bucket) ==
  FlattenSeq([right \in 1..Len(bucket) |->
    [k \in DOMAIN PredecessorIndices(right) |->
       <<bucket[PredecessorIndices(right)[k]], bucket[right]>>]])
===============================================================================
