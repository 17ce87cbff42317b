------------------------------ MODULE ExactClones ------------------------------
(***************************************************************************)
(* Exact clones of one pool of files: detect_pool of src/dup/exact.rs, one *)
(* pair of equally hashed windows at a time, and what finalize of          *)
(* src/dup/mod.rs keeps of the groups.  A hash does not tell the order of  *)
(* a window's tokens, so that windows collide.                             *)
(***************************************************************************)
EXTENDS ClonePools

CONSTANTS
  Sources,        \* possible pools: sequences of token sequences
  MaxSeedPairs, MaxMatches

ASSUME ClonesAssumption == MaxSeedPairs \in Nat /\ MaxMatches \in Nat

VARIABLES
  buckets,     \* hashes of the buckets that are left
  pairs,       \* the pairs that are left of the bucket at hand
  examined,    \* the pairs that were looked at
  covered,     \* per diagonal the positions of the first file that are covered
  matches,     \* seen_regions
  cutShort,    \* pair_limit_reached or match_limit_reached
  clones,      \* the groups of the report
  detected

exactVars == <<buckets, pairs, examined, covered, matches, cutShort, clones, detected>>

Hash(o) == FoldFunction(LAMBDA t, sum : t + sum, 0, Text(o, MinTokens))

Bucket(h) == InOrder({o \in Windows : Fits(o, MinTokens) /\ Hash(o) = h})
Hashes == {Hash(o) : o \in {w \in Windows : Fits(w, MinTokens)}}
Shared == {h \in Hashes : Len(Bucket(h)) >= 2}

sampled == \E h \in Shared : Len(Bucket(h)) > MaxPrevious + 1
TotalPairs ==
  FoldSet(LAMBDA h, sum : sum + (Len(Bucket(h)) * (Len(Bucket(h)) - 1)) \div 2,
                        0, Shared)

ClonesStart ==
  /\ buckets = Shared
  /\ pairs = <<>> /\ examined = {} /\ covered = {} /\ matches = {}
  /\ cutShort = FALSE /\ clones = {} /\ detected = FALSE

ClonesInit == pool \in Sources /\ ClonesStart

\* The smallest bucket first; which one of a size is up to the hashes.
TakeBucket ==
  /\ ~detected /\ ~cutShort /\ pairs = <<>>
  /\ \E h \in buckets :
       /\ \A g \in buckets : Len(Bucket(h)) <= Len(Bucket(g))
       /\ buckets' = buckets \ {h}
       /\ pairs' = SeedPairs(Bucket(h))
  /\ UNCHANGED <<pool, examined, covered, matches, cutShort, clones, detected>>

LeftOf(o, n) == Occurrence(o.file, o.start - n)

\* is_left_maximal
LeftMaximal(a, b) ==
  \/ a.start = 1 \/ b.start = 1
  \/ a.file = b.file /\ MinTokens + 1 > Distance(a, b)
  \/ ~Equal(LeftOf(a, 1), LeftOf(b, 1), 1)

\* maximal_match: as far to the left, then as far to the right as the tokens
\* agree and, in one file, the copies stay apart.
Match(a, b) ==
  LET left == Max({n \in 0..Min({a.start, b.start}) - 1 :
                     \A m \in 1..n : /\ Room(a, b, MinTokens + m)
                                     /\ Equal(LeftOf(a, m), LeftOf(b, m), 1)})
      from == LeftOf(a, left)
      to == LeftOf(b, left)
      len == Max({n \in 0..Len(pool[a.file]) : Room(a, b, n) /\ Equal(from, to, n)}
                   \cup {MinTokens + left})
  IN [a |-> from, b |-> to, len |-> len]

Diagonal(a, b) == <<a.file, b.file, a.start - b.start>>
CellsOf(a, b, n) == {<<Diagonal(a, b), i>> : i \in a.start..a.start + n - 1}

\* mutant: left-maximal pairs only, in sampled pools too
SkipsLeft(a, b) == ~LeftMaximal(a, b)

Skips(a, b) == (~sampled \/ a.file = b.file) /\ ~LeftMaximal(a, b)

ExaminePair ==
  /\ ~detected /\ ~cutShort /\ pairs # <<>>
  /\ Cardinality(examined) < MaxSeedPairs /\ Cardinality(matches) < MaxMatches
  /\ LET a == Head(pairs)[1]
         b == Head(pairs)[2]
     IN /\ examined' = examined \cup {<<a, b>>}
        /\ \/ /\ \/ SameFileOverlap(a, b, MinTokens)
                 \/ CellsOf(a, b, MinTokens) \subseteq covered
                 \/ Skips(a, b)
                 \/ ~Equal(a, b, MinTokens)
              /\ UNCHANGED <<covered, matches>>
           \/ /\ ~SameFileOverlap(a, b, MinTokens)
              /\ ~(CellsOf(a, b, MinTokens) \subseteq covered)
              /\ ~Skips(a, b)
              /\ Equal(a, b, MinTokens)
              /\ LET m == Match(a, b)
                 IN /\ covered' = covered \cup CellsOf(m.a, m.b, m.len)
                    /\ matches' = matches \cup {m}
  /\ pairs' = Tail(pairs)
  /\ UNCHANGED <<pool, buckets, cutShort, clones, detected>>

ReachLimit ==
  /\ ~detected /\ ~cutShort /\ pairs # <<>>
  /\ Cardinality(examined) >= MaxSeedPairs \/ Cardinality(matches) >= MaxMatches
  /\ cutShort' = TRUE
  /\ UNCHANGED <<pool, buckets, pairs, examined, covered, matches, clones, detected>>

(***************************************************************************)
(* Groups of equal text, and what finalize keeps of them.                  *)
(***************************************************************************)

Groups ==
  {LET ms == {m \in matches : Text(m.a, m.len) = text}
   IN [text |-> text, at |-> {m.a : m \in ms} \cup {m.b : m \in ms}]
     : text \in {Text(m.a, m.len) : m \in matches}}

Overlapping(o, p, n) == o.file = p.file /\ Distance(o, p) < n

\* prune_group: the leftmost first, as every token has a line of its own here.
Pruned(g) ==
  [g EXCEPT !.at =
     FoldLeft(LAMBDA kept, o :
                IF \E p \in kept : Overlapping(o, p, Len(g.text)) THEN kept ELSE kept \cup {o},
              {}, InOrder(g.at))]

Holds(big, o, small, p) ==
  /\ o.file = p.file /\ o.start <= p.start
  /\ p.start + Len(small.text) <= o.start + Len(big.text)

FilesOf(g) == [f \in DOMAIN pool |-> Cardinality({o \in g.at : o.file = f})]

\* group_copy_set and group_contains, which takes the first copy that is free.
GroupContains(big, small) ==
  LET order == InOrder(big.at)
      place(p, used) ==
        LET free == {i \in DOMAIN order \ used : Holds(big, order[i], small, p)}
        IN IF free = {} THEN used \cup {0} ELSE used \cup {Min(free)}
  IN /\ FilesOf(big) = FilesOf(small)
     /\ 0 \notin FoldLeft(LAMBDA used, p : place(p, used), {},
                          InOrder(small.at))

\* suppress_contained, the longest texts first; those of one length do not hold
\* each other.
Suppressed(gs) ==
  FoldLeft(LAMBDA kept, g :
             IF \E big \in kept : GroupContains(big, g) THEN kept ELSE kept \cup {g},
           {}, SetToSortSeq(gs, LAMBDA g, h : Len(g.text) > Len(h.text)))

Finalized(gs) ==
  Suppressed({Pruned(g) : g \in {h \in Suppressed(gs) : Cardinality(Pruned(h).at) >= 2}})

Detect ==
  /\ ~detected
  /\ cutShort \/ (pairs = <<>> /\ buckets = {})
  /\ clones' = Finalized(Groups)
  /\ detected' = TRUE
  /\ UNCHANGED <<pool, buckets, pairs, examined, covered, matches, cutShort>>

ClonesNext == TakeBucket \/ ExaminePair \/ ReachLimit \/ Detect

ClonesSpec == ClonesInit /\ [][ClonesNext]_<<pool, exactVars>>

-------------------------------------------------------------------------------

SeedPairsSkipped == TotalPairs - Cardinality(examined)

Within(o, n, p, m) ==
  o.file = p.file /\ p.start <= o.start /\ o.start + n <= p.start + m

(***************************************************************************)
(* Two windows of different files that were compared and are equal are in  *)
(* one match of full length, although pairs that are not leftmost or are   *)
(* covered are skipped and a sampled pool never compares some of the       *)
(* leftmost ones; unless a limit ended the search, which the report says.  *)
(***************************************************************************)
ComparedIsMatched ==
  detected /\ ~cutShort =>
    \A pair \in examined :
      LET a == pair[1]
          b == pair[2]
      IN Equal(a, b, MinTokens) /\ a.file # b.file =>
           \E m \in matches :
             /\ Within(a, MinTokens, m.a, m.len)
             /\ Within(b, MinTokens, m.b, m.len)
             /\ Diagonal(a, b) = Diagonal(m.a, m.b)

(***************************************************************************)
(* A report that does not say that pairs were skipped has a group for each *)
(* two files that share a run of the least length.                         *)
(***************************************************************************)
SharedIsReportedOrMarked ==
  detected /\ SeedPairsSkipped = 0 =>
    \A a, b \in Windows :
      Equal(a, b, MinTokens) /\ a.file < b.file =>
        \E g \in clones :
          /\ \E p \in g.at : Overlapping(a, p, Len(g.text))
          /\ \E q \in g.at : Overlapping(b, q, Len(g.text))

(***************************************************************************)
(* Two copies or more make a group, equal, long enough and apart from each *)
(* other, whichever matches it was put together from.                      *)
(***************************************************************************)
GroupsAreCopies ==
  \A g \in clones :
    /\ Len(g.text) >= MinTokens /\ Cardinality(g.at) >= 2
    /\ \A o \in g.at : Fits(o, Len(g.text)) /\ Text(o, Len(g.text)) = g.text
    /\ \A o, p \in g.at : o = p \/ ~Overlapping(o, p, Len(g.text))

(***************************************************************************)
(* The exact clones are copies, and all that was shared, or marked.        *)
(***************************************************************************)
ExactClonesSound ==
  /\ ComparedIsMatched
  /\ SharedIsReportedOrMarked
  /\ GroupsAreCopies
===============================================================================
