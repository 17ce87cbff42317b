------------------------------ MODULE FuzzyClones ------------------------------
(***************************************************************************)
(* Near (Type-2) clones of one pool: src/dup/fuzzy.rs and its submodules.  *)
(* Windows of one rename-invariant fingerprint are paired, the rarest      *)
(* first and within a budget; a pair is verified under a two-way mapping   *)
(* of identifiers, grown as far as its similarity allows, and of the       *)
(* matches that overlap one is kept.                                       *)
(***************************************************************************)
EXTENDS ClonePools

CONSTANTS
  NearSources,     \* possible pools
  Identifiers,     \* tokens that are identifiers
  Literals,        \* tokens that are literals, of one category
  Threshold,       \* the least similarity, in tenths
  MaxNearPairs,    \* MAX_SEED_PAIRS_PER_POOL
  MaxNearMatches,  \* MAX_MATCHES_PER_POOL
  MaxOverlapChecks,
  AlphaBase, AlphaModulus  \* ALPHA_BASE and 2^64

ASSUME NearAssumption ==
  /\ Identifiers \cap Literals = {}
  /\ Threshold \in 0..10
  /\ MaxNearPairs \in Nat /\ MaxNearMatches \in Nat /\ MaxOverlapChecks \in Nat
  /\ AlphaBase \in Nat \ {0} /\ AlphaModulus \in Nat \ {0}

VARIABLES
  planned,       \* the buckets that are left, <<>> before there is a plan
  pairsLeft,    \* the selected pairs that are left of the bucket at hand
  planTotal,     \* seed_pairs_total
  verified,      \* the pairs that were looked at
  near,          \* the matches
  exactRegions,  \* regions whose tokens are the same
  coveredCells,  \* covered_diagonals
  matchLimitHit, \* match_limit_reached
  kept,          \* the matches that are reported
  skipped,       \* matches_skipped
  nearPhase

nearVars == <<planned, pairsLeft, planTotal, verified, near, exactRegions, coveredCells,
              matchLimitHit, kept, skipped, nearPhase>>

(***************************************************************************)
(* alpha_window_hashes: an identifier counts as the distance to its last   *)
(* occurrence in the window, or 0.  The hash of a window is got from the   *)
(* one before it, whose first token may be what a later one points at.     *)
(***************************************************************************)
Shape(t) == IF t \in Identifiers THEN 0 ELSE IF t \in Literals THEN 91 ELSE t

Previous(f, i) == Max({0} \cup {j \in 1..i - 1 : pool[f][j] = pool[f][i]})
NextOf(f, i) ==
  LET later == {j \in i + 1..Len(pool[f]) : pool[f][j] = pool[f][i]}
  IN IF later = {} THEN 0 ELSE Min(later)

Component(f, i, start) ==
  IF pool[f][i] \notin Identifiers THEN Shape(pool[f][i])
  ELSE IF Previous(f, i) >= start THEN i - Previous(f, i) ELSE 0

Wrapped(n) == n % AlphaModulus
Polynomial(f, start) ==
  FoldLeft(LAMBDA h, i : Wrapped(h * AlphaBase + Component(f, i, start)), 0,
           [k \in 1..MinTokens |-> start + k - 1])

\* The hash of the window at start from the one at start - 1.
Roll(f, hash, start) ==
  LET out == start - 1
      in == start + MinTokens - 1
      rolled == (hash - Component(f, out, out) * AlphaBase ^ (MinTokens - 1)) * AlphaBase
                  + Component(f, in, start)
      next == NextOf(f, out)
      corrected == pool[f][out] \in Identifiers /\ next # 0 /\ next < in
  IN Wrapped(IF corrected THEN rolled - (next - out) * AlphaBase ^ (in - next) ELSE rolled)

Rolled(f, start) ==
  FoldLeft(LAMBDA h, s : Roll(f, h, s), Polynomial(f, 1), [k \in 1..start - 1 |-> k + 1])

\* The index has the shapes too, whose hashes do not collide here.
Fingerprint(o) ==
  <<[i \in 1..MinTokens |-> Shape(Text(o, MinTokens)[i])], Rolled(o.file, o.start)>>

(***************************************************************************)
(* CandidatePlan::build.                                                   *)
(***************************************************************************)

FullWindows == {o \in Windows : Fits(o, MinTokens)}
NearBuckets ==
  {b \in {InOrder({o \in FullWindows : Fingerprint(o) = k}) :
            k \in {Fingerprint(o) : o \in FullWindows}} : Len(b) >= 2}

PairCount(b) == Len(SeedPairs(b))

RarestFirst(order) ==
  \A i, j \in DOMAIN order : i < j => Len(order[i]) <= Len(order[j])

First(n, s) == SubSeq(s, 1, Min({n, Len(s)}))

SelectedPairs(order) ==
  LET Before(i) == FoldLeft(LAMBDA sum, k : sum + PairCount(order[k]), 0,
                            [k \in 1..i - 1 |-> k])
  IN [i \in DOMAIN order |-> First(Max({0, MaxNearPairs - Before(i)}), SeedPairs(order[i]))]

NearStart ==
  /\ planned = <<>> /\ pairsLeft = <<>> /\ planTotal = 0 /\ verified = {}
  /\ near = {} /\ exactRegions = {} /\ coveredCells = {}
  /\ matchLimitHit = FALSE /\ kept = <<>> /\ skipped = 0
  /\ nearPhase = "plan"

NearInit == pool \in NearSources /\ NearStart

\* Buckets of one size are ordered by their hashes.
BuildPlan ==
  /\ nearPhase = "plan"
  /\ \E order \in {s \in SetToSeqs(NearBuckets) : RarestFirst(s)} :
       planned' = SelectSeq(SelectedPairs(order), LAMBDA ps : ps # <<>>)
  /\ planTotal' = FoldSet(LAMBDA b, sum : sum + PairCount(b), 0, NearBuckets)
  /\ nearPhase' = "verify"
  /\ UNCHANGED <<pool, pairsLeft, verified, near, exactRegions, coveredCells, matchLimitHit,
                 kept, skipped>>

NextBucket ==
  /\ nearPhase = "verify" /\ ~matchLimitHit
  /\ pairsLeft = <<>> /\ planned # <<>>
  /\ IF Cardinality(near) >= MaxNearMatches
     THEN matchLimitHit' = TRUE /\ UNCHANGED <<pairsLeft, planned>>
     ELSE /\ pairsLeft' = Head(planned) /\ planned' = Tail(planned)
          /\ UNCHANGED matchLimitHit
  /\ UNCHANGED <<pool, planTotal, verified, near, exactRegions, coveredCells, kept, skipped,
                 nearPhase>>

(***************************************************************************)
(* maximal_qualified_match: the window, then to the left, then to the      *)
(* right, as long as accept_pair takes the tokens; the longest part whose  *)
(* similarity reaches the threshold is the match.                          *)
(***************************************************************************)

\* accept_pair and Bijection::accept_identifier
Accepts(mapping, l, r) ==
  /\ Shape(l) = Shape(r)
  /\ l \in Identifiers => \A p \in mapping : p[1] = l <=> p[2] = r
Credit(l, r) == IF l = r THEN 10 ELSE IF l \in Identifiers THEN 8 ELSE 7

\* mutant: every longer part is the better one
BetterAlways(run) ==
  [run EXCEPT !.best = [shift |-> run.shift, len |-> run.len, score |-> run.score]]

Better(run) ==
  IF run.score >= Threshold * run.len
  THEN [run EXCEPT !.best = [shift |-> run.shift, len |-> run.len, score |-> run.score]]
  ELSE run

\* One more pair of tokens, at offset i of both windows.
Grow(a, b, run, i) ==
  LET l == pool[a.file][a.start + i]
      r == pool[b.file][b.start + i]
  IN IF run.stopped \/ ~Room(a, b, run.len + 1) \/ ~Accepts(run.mapping, l, r)
     THEN [run EXCEPT !.stopped = TRUE]
     ELSE Better([run EXCEPT !.mapping = @ \cup (IF l \in Identifiers THEN {<<l, r>>} ELSE {}),
                             !.score = @ + Credit(l, r), !.len = @ + 1,
                             !.shift = IF i < 0 THEN @ + 1 ELSE @])

NoRun == [mapping |-> {}, score |-> 0, len |-> 0, shift |-> 0, stopped |-> FALSE,
          best |-> [shift |-> 0, len |-> 0, score |-> 0]]
Upto(n) == [i \in 1..n |-> i]

Qualified(a, b) ==
  LET seed == FoldLeft(LAMBDA run, i : Grow(a, b, run, i - 1), NoRun, Upto(MinTokens))
      whole == ~seed.stopped /\ seed.score >= Threshold * MinTokens
      to_left == FoldLeft(LAMBDA run, i : Grow(a, b, run, -i), seed,
                          Upto(Min({a.start, b.start}) - 1))
      room == Min({Len(pool[a.file]) - a.start, Len(pool[b.file]) - b.start}) + 1 - MinTokens
      to_right == FoldLeft(LAMBDA run, i : Grow(a, b, run, MinTokens + i - 1),
                           [to_left EXCEPT !.stopped = FALSE], Upto(room))
      best == to_right.best
  IN IF ~whole THEN {}
     ELSE {[a |-> Occurrence(a.file, a.start - best.shift),
            b |-> Occurrence(b.file, b.start - best.shift),
            len |-> best.len, score |-> best.score]}

DiagonalCells(a, b, n) ==
  {<<a.file, b.file, b.start - a.start, a.start + i>> : i \in 0..n - 1}

\* mutant: the diagonal is told by its distance alone
CellsUnsigned(a, b, n) ==
  {<<a.file, b.file, Distance(a, b), a.start + i>> : i \in 0..n - 1}

\* diagonal_key: seeds are in the order of their occurrences, and so is a match,
\* which keeps their distance.
CoveredBy(a, b, n) == DiagonalCells(a, b, n)

\* detect_candidates for one pair, a before b.
VerifyPair ==
  /\ nearPhase = "verify" /\ ~matchLimitHit /\ pairsLeft # <<>>
  /\ LET a == Head(pairsLeft)[1]
         b == Head(pairsLeft)[2]
         match == IF \/ SameFileOverlap(a, b, MinTokens)
                     \/ CoveredBy(a, b, MinTokens) \subseteq coveredCells
                  THEN {} ELSE Qualified(a, b)
         same == {m \in match : Equal(m.a, m.b, m.len)}
         fresh == match \ (same \cup near)
     IN /\ verified' = verified \cup {<<a, b>>}
        /\ near' = near \cup fresh
        /\ exactRegions' = exactRegions \cup same
        /\ coveredCells' =
             coveredCells \cup UNION {CoveredBy(m.a, m.b, m.len) : m \in same \cup fresh}
        /\ matchLimitHit' =
             (/\ fresh # {} /\ Cardinality(near') >= MaxNearMatches
              /\ Tail(pairsLeft) # <<>>)
  /\ pairsLeft' = Tail(pairsLeft)
  /\ UNCHANGED <<pool, planned, planTotal, kept, skipped, nearPhase>>

(***************************************************************************)
(* suppress_sorted_overlapping_matches.                                    *)
(***************************************************************************)

RangesOverlap(o, n, p, m) == o.start < p.start + m /\ p.start < o.start + n
MatchesOverlap(m, n) ==
  /\ RangesOverlap(m.a, m.len, n.a, n.len)
  /\ RangesOverlap(m.b, m.len, n.b, n.len)

\* sort_candidate_matches
Preferred(m, n) ==
  \/ m.len > n.len
  \/ m.len = n.len /\ m.score > n.score
  \/ /\ m.len = n.len /\ m.score = n.score
     /\ Earlier(m.a, n.a) \/ (m.a = n.a /\ Earlier(m.b, n.b))

\* One match: compared with those kept of the same two files until one overlaps.
Suppress(run, m) ==
  LET rivals == SelectSeq(run.kept, LAMBDA k : k.a.file = m.a.file /\ k.b.file = m.b.file)
      first == SelectInSeq(rivals, LAMBDA k : MatchesOverlap(k, m))
      needed == IF first = 0 THEN Len(rivals) ELSE first
  IN IF run.stopped THEN run
     ELSE IF run.checks + needed > MaxOverlapChecks THEN [run EXCEPT !.stopped = TRUE]
     ELSE [run EXCEPT !.checks = @ + needed, !.completed = @ + 1,
                      !.kept = IF first = 0 THEN Append(@, m) ELSE @]

SuppressMatches ==
  /\ nearPhase = "verify"
  /\ matchLimitHit \/ (pairsLeft = <<>> /\ planned = <<>>)
  /\ LET run == FoldLeft(Suppress,
                         [kept |-> <<>>, checks |-> 0, completed |-> 0, stopped |-> FALSE],
                         SetToSortSeq(near, Preferred))
     IN kept' = run.kept /\ skipped' = Cardinality(near) - run.completed
  /\ nearPhase' = "done"
  /\ UNCHANGED <<pool, planned, pairsLeft, planTotal, verified, near, exactRegions, coveredCells,
                 matchLimitHit>>

NearNext == BuildPlan \/ NextBucket \/ VerifyPair \/ SuppressMatches

NearSpec == NearInit /\ [][NearNext]_<<pool, nearVars>>

-------------------------------------------------------------------------------

\* Type2Diagnostics::record_pool
Truncated == planTotal > Cardinality(verified) \/ matchLimitHit \/ skipped > 0

\* A renaming of n tokens, told without regard to an order of comparison.
Renaming(a, b, n) ==
  /\ Fits(a, n) /\ Fits(b, n)
  /\ \A i \in 1..n : Shape(Text(a, n)[i]) = Shape(Text(b, n)[i])
  /\ \A i, j \in {k \in 1..n : Text(a, n)[k] \in Identifiers} :
       Text(a, n)[i] = Text(a, n)[j] <=> Text(b, n)[i] = Text(b, n)[j]
Score(a, b, n) ==
  FoldLeft(LAMBDA sum, i : sum + Credit(Text(a, n)[i], Text(b, n)[i]), 0, Upto(n))
NearClone(a, b, n) ==
  /\ Renaming(a, b, n) /\ ~SameFileOverlap(a, b, n)
  /\ Score(a, b, n) >= Threshold * n

(***************************************************************************)
(* The fingerprint of a window, got by rolling over a file, is that of its *)
(* tokens alone: what lies to its left has left no trace in it.            *)
(***************************************************************************)
FingerprintsForgetTheLeft ==
  nearPhase # "plan" =>
    \A o \in FullWindows : Rolled(o.file, o.start) = Polynomial(o.file, o.start)

(***************************************************************************)
(* What is reported is a consistent renaming of the least similarity that  *)
(* is not an exact clone, and no two reports of the same files repeat each *)
(* other.                                                                  *)
(***************************************************************************)
ReportedAreRenamings ==
  /\ \A i \in DOMAIN kept :
       LET m == kept[i]
       IN m.len >= MinTokens /\ NearClone(m.a, m.b, m.len) /\ ~Equal(m.a, m.b, m.len)
  /\ \A i, j \in DOMAIN kept :
       i # j /\ kept[i].a.file = kept[j].a.file /\ kept[i].b.file = kept[j].b.file
         => ~MatchesOverlap(kept[i], kept[j])

Bucketed(o) == CHOOSE b \in NearBuckets : \E i \in DOMAIN b : b[i] = o
Sampled(o) == Len(Bucketed(o)) > MaxPrevious + 1

\* Every token of the two windows is in a match or in an exact region, and the
\* match is reported or repeats one that is.
Found(a, b) ==
  \A i \in 0..MinTokens - 1 :
    \E m \in near \cup exactRegions :
      /\ m.a.file = a.file /\ m.b.file = b.file
      /\ b.start - a.start = m.b.start - m.a.start
      /\ a.start + i \in m.a.start..m.a.start + m.len - 1
      /\ m \in near =>
           \E k \in DOMAIN kept :
             /\ kept[k].a.file = a.file /\ kept[k].b.file = b.file
             /\ MatchesOverlap(kept[k], m)

CloneWindows ==
  {p \in FullWindows \X FullWindows :
     Earlier(p[1], p[2]) /\ NearClone(p[1], p[2], MinTokens)}

(***************************************************************************)
(* A detection that is not called truncated has found every two windows    *)
(* that are near clones, as far as their bucket is not sampled.            *)
(***************************************************************************)
FoundOrTruncated ==
  nearPhase = "done" /\ ~Truncated =>
    \A p \in CloneWindows : ~Sampled(p[1]) => Found(p[1], p[2])

(***************************************************************************)
(* docs/metrics.md:174: repositories below the limits "retain complete      *)
(* results".  Code that is a near clone is reported, of whatever other     *)
(* code, or is in an exact clone, unless the result is called truncated.   *)
(***************************************************************************)
Reported(o) ==
  \E m \in {kept[i] : i \in DOMAIN kept} \cup exactRegions :
    \E p \in {m.a, m.b} : p.file = o.file /\ RangesOverlap(p, m.len, o, MinTokens)

CompleteBelowLimits ==
  nearPhase = "done" /\ ~Truncated =>
    \A p \in CloneWindows :
      ~Equal(p[1], p[2], MinTokens) => Reported(p[1]) /\ Reported(p[2])

(***************************************************************************)
(* No more pairs are looked at than the pool's budget, and what the plan   *)
(* and the match limit leave out is all that the diagnostics call skipped. *)
(***************************************************************************)
WorkWithinBudget ==
  /\ Cardinality(verified) <= MaxNearPairs /\ Cardinality(near) <= MaxNearMatches
  /\ nearPhase = "done" /\ ~matchLimitHit =>
       Cardinality(verified) = Min({planTotal, MaxNearPairs})

(***************************************************************************)
(* The near clones are renamings of one fingerprint, within the budget,    *)
(* and all there are if the result is not called truncated.                *)
(***************************************************************************)
NearClonesSound ==
  /\ FoundOrTruncated
  /\ FingerprintsForgetTheLeft
  /\ ReportedAreRenamings
  /\ WorkWithinBudget
===============================================================================
