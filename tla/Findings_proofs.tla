--------------------------- MODULE Findings_proofs ---------------------------
(***************************************************************************)
(* Proofs about findings.  Intervals: the merged ranges of covered tokens  *)
(* of the duplicate detection, for every order of insertions.  DeepReview, *)
(* for every set of files, contents and limits: what a deep review reports *)
(* as new, worse or resolved is what the two trees and git's changes       *)
(* between them say, and all of it, or its diagnostics say that a snapshot *)
(* is short.  BriefBudget, for every brief, every cost of its parts and    *)
(* every budget: the review brief fits, and a larger one never shows less. *)
(***************************************************************************)
EXTENDS Intervals, DeepReview, BriefBudget, SetInduction, SequenceTheorems, FiniteSetTheorems,
        TLAPS

-------------------------------------------------------------------------------
(***************************************************************************)
(* Intervals.                                                              *)
(***************************************************************************)
USE IntervalsAssumption DEF Positions

\* A non-empty bounded set of positions has a greatest one.
LEMMA GreatestPosition ==
  ASSUME NEW S \in SUBSET Positions, S # {}
  PROVE  \E n \in S : \A m \in S : m <= n
<1> DEFINE mirrored == {MaxPosition - m : m \in S}
<1>1. \A m \in S : MaxPosition - m \in Nat
  OBVIOUS
<1>2. mirrored \in SUBSET Nat /\ mirrored # {}
  BY <1>1
<1>3. PICK k \in mirrored : \A j \in mirrored : k <= j
  BY <1>2, LeastNatural
<1>4. PICK n \in S : k = MaxPosition - n
  OBVIOUS
<1>5. \A m \in S : MaxPosition - n <= MaxPosition - m
  BY <1>3, <1>4
<1> QED
  BY <1>5

\* The neighbour below a position that the lookup takes.
LEMMA PredecessorFound ==
  ASSUME IntervalsInv, NEW start \in Positions,
         NEW r \in by_start, r[1] <= start
  PROVE  \E p \in Predecessors(start) : r[1] <= p[1]
<1> DEFINE S == {q[1] : q \in {x \in by_start : x[1] <= start}}
<1>1. S \in SUBSET Positions /\ S # {}
  BY DEF IntervalsInv
<1>2. PICK n \in S : \A m \in S : m <= n
  BY <1>1, GreatestPosition
<1>3. PICK p \in by_start : p[1] <= start /\ p[1] = n
  BY <1>2
<1>4. p \in Predecessors(start)
  BY <1>2, <1>3 DEF Predecessors
<1> QED
  BY <1>2, <1>3, <1>4

\* The neighbour above a position.
LEMMA SuccessorFound ==
  ASSUME IntervalsInv, NEW start \in Positions,
         NEW r \in by_start, start <= r[1]
  PROVE  \E s \in Successors(start) : s[1] <= r[1]
<1> DEFINE S == {q[1] : q \in {x \in by_start : start <= x[1]}}
<1>1. S \in SUBSET Nat /\ S # {}
  BY DEF IntervalsInv
<1>2. PICK n \in S : \A m \in S : n <= m
  BY <1>1, LeastNatural
<1>3. PICK s \in by_start : start <= s[1] /\ s[1] = n
  BY <1>2
<1>4. s \in Successors(start)
  BY <1>2, <1>3 DEF Successors
<1> QED
  BY <1>2, <1>3, <1>4

\* What an insertion starts from, kept when the loop goes on and when it ends.
LEMMA InsertKeeps ==
  ASSUME IntervalsInv, NEW start \in Positions, NEW end \in Positions,
         Insert(start, end)
  PROVE  IntervalsInv'
<1>1. CASE Joins(start) = {} /\ merging' = <<start, end>> /\ UNCHANGED by_start
  <2>1. \A r \in by_start : r[2] < start \/ start <= r[1]
    <3> SUFFICES ASSUME NEW r \in by_start, r[1] < start PROVE r[2] < start
      BY DEF IntervalsInv
    <3>1. PICK p \in Predecessors(start) : r[1] <= p[1]
      BY PredecessorFound DEF IntervalsInv
    <3>2. p \in by_start /\ p[2] < start
      BY <1>1, <3>1 DEF Joins, Predecessors, IntervalsInv
    <3> QED
      BY <3>1, <3>2 DEF IntervalsInv, Apart
  <2>2. Accounted'
    <3>1. Cells(Nothing) = {}
      BY DEF Cells, Nothing
    <3> QED
      BY <1>1, <3>1 DEF Insert, IntervalsInv, Accounted, Cells
  <2> QED
    BY <1>1, <2>1, <2>2 DEF Insert, IntervalsInv, Nothing
<1>2. ASSUME NEW r \in Joins(start),
             merging' = <<r[1], Larger(end, r[2])>>, by_start' = by_start \ {r}
      PROVE  IntervalsInv'
  <2>1. r \in by_start /\ r[1] <= start /\ start <= r[2]
    BY DEF Joins, Predecessors
  <2>2. /\ merging' \in Positions \X Positions
        /\ merging'[1] = r[1] /\ merging'[2] \in Positions
        /\ end <= merging'[2] /\ r[2] <= merging'[2]
        /\ merging'[2] = end \/ merging'[2] = r[2]
    BY <1>2, <2>1 DEF Larger, IntervalsInv
  <2>3. \A q \in by_start' : q[2] < merging'[1] \/ merging'[1] <= q[1]
    BY <1>2, <2>1, <2>2 DEF IntervalsInv, Apart
  <2>4. \A p \in Positions :
          p \in Cells(merging') <=> p \in Cells(r) \/ p \in Cells(<<start, end>>)
    BY <2>1, <2>2 DEF Cells, Insert, IntervalsInv
  <2>5. Cells(Nothing) = {}
    BY DEF Cells, Nothing
  <2>8. Cells(<<start, end>>) \subseteq Positions
    BY DEF Cells
  <2>6. Accounted'
    BY <1>2, <2>1, <2>4, <2>5, <2>8 DEF Insert, IntervalsInv, Accounted
  <2>7. merging'[1] < merging'[2]
    BY <2>1, <2>2 DEF Insert, IntervalsInv
  <2> QED
    BY <1>2, <2>1, <2>2, <2>3, <2>6, <2>7 DEF IntervalsInv
<1> QED
  BY <1>1, <1>2 DEF Insert

\* insert absorbs one range that touches or overlaps the new one.
LEMMA AbsorbKeeps ==
  ASSUME IntervalsInv, Absorb PROVE IntervalsInv'
<1>1. PICK r \in Successors(merging[1]) :
        /\ r[1] <= merging[2]
        /\ merging' = <<merging[1], Larger(merging[2], r[2])>>
        /\ by_start' = by_start \ {r}
  BY DEF Absorb
<1>2. /\ r \in by_start /\ merging[1] <= r[1]
      /\ merging # Nothing /\ marked' = marked
  BY <1>1 DEF Absorb, Successors
<1>3. /\ merging' \in Positions \X Positions
      /\ merging'[1] = merging[1] /\ merging'[2] \in Positions
      /\ merging[2] <= merging'[2] /\ r[2] <= merging'[2]
      /\ merging'[2] = merging[2] \/ merging'[2] = r[2]
  BY <1>1, <1>2 DEF Larger, IntervalsInv
<1>4. \A p \in Positions :
        p \in Cells(merging') <=> p \in Cells(r) \/ p \in Cells(merging)
  BY <1>1, <1>2, <1>3 DEF Cells, IntervalsInv
<1>5. Accounted'
  BY <1>1, <1>2, <1>4 DEF IntervalsInv, Accounted
<1>6. merging'[1] < merging'[2]
  BY <1>2, <1>3 DEF IntervalsInv
<1> QED
  BY <1>1, <1>2, <1>3, <1>5, <1>6 DEF IntervalsInv

\* insert ends with the merged range put back.
LEMMA SettleKeeps ==
  ASSUME IntervalsInv, Settle PROVE IntervalsInv'
<1>1. \A r \in by_start : Apart(r, merging)
  <2> SUFFICES ASSUME NEW r \in by_start, merging[1] <= r[1] PROVE merging[2] < r[1]
    BY DEF Apart, Settle, IntervalsInv
  <2>1. PICK s \in Successors(merging[1]) : s[1] <= r[1]
    BY SuccessorFound DEF IntervalsInv
  <2>2. merging[2] < s[1] /\ s \in by_start
    BY <2>1 DEF Settle, Successors, IntervalsInv
  <2> QED
    BY <2>1, <2>2 DEF IntervalsInv
<1>2. \A r \in by_start : Apart(merging, r)
  BY <1>1 DEF Apart
<1>3. Accounted'
  <2>1. Cells(Nothing) = {}
    BY DEF Cells, Nothing
  <2> QED
    BY <2>1 DEF Settle, IntervalsInv, Accounted
<1>4. merging' = Nothing /\ Nothing \in Positions \X Positions
  BY DEF Settle, Nothing
<1>5. \A r \in by_start' : r[1] < r[2]
  BY DEF Settle, IntervalsInv
<1>6. \A r, q \in by_start' : r = q \/ Apart(r, q)
  BY <1>1, <1>2 DEF Settle, IntervalsInv
<1>7. by_start' \subseteq Positions \X Positions
  BY DEF Settle, IntervalsInv
<1> QED
  BY <1>3, <1>4, <1>5, <1>6, <1>7 DEF IntervalsInv

\* The gaps between the ranges survive every step of every insertion.
THEOREM GapsKept == IntervalsSpec => []IntervalsInv
<1>1. IntervalsInit => IntervalsInv
  BY DEF IntervalsInit, IntervalsInv, Accounted, Nothing, Cells
<1>2. IntervalsInv /\ [IntervalsNext]_intervalVars => IntervalsInv'
  <2>1. ASSUME IntervalsInv, UNCHANGED intervalVars PROVE IntervalsInv'
    BY <2>1 DEF IntervalsInv, Accounted, intervalVars, Apart, Cells
  <2> QED
    BY <2>1, InsertKeeps, AbsorbKeeps, SettleKeeps DEF IntervalsNext
<1> QED
  BY <1>1, <1>2, PTL DEF IntervalsSpec

\* Between two insertions, covers answers for all positions of a window at once.
LEMMA GapsSuffice == IntervalsInv => CoversExactly
<1> SUFFICES ASSUME IntervalsInv, merging = Nothing,
                    NEW start \in Positions, NEW end \in Positions, start < end
             PROVE  covers(start, end) <=> Cells(<<start, end>>) \subseteq marked
  BY DEF CoversExactly
<1>1. \A p \in Positions : p \in marked <=> \E r \in by_start : p \in Cells(r)
  BY DEF IntervalsInv, Accounted, Cells, Nothing
<1>2. ASSUME covers(start, end) PROVE Cells(<<start, end>>) \subseteq marked
  <2>1. PICK r \in by_start : r[1] <= start /\ r[2] >= end
    BY <1>2 DEF covers, Predecessors
  <2>2. /\ Cells(<<start, end>>) \subseteq Cells(r)
        /\ Cells(<<start, end>>) \subseteq Positions
    BY <2>1 DEF Cells, IntervalsInv
  <2> QED
    BY <1>1, <2>1, <2>2
<1>3. ASSUME Cells(<<start, end>>) \subseteq marked PROVE covers(start, end)
  <2>1. start \in Cells(<<start, end>>)
    BY DEF Cells
  <2>2. PICK r \in by_start : start \in Cells(r)
    BY <1>1, <1>3, <2>1
  <2>3. r[1] <= start /\ start < r[2] /\ r \in Positions \X Positions
    BY <2>2 DEF Cells, IntervalsInv
  <2>4. r[2] >= end
    <3> SUFFICES ASSUME r[2] < end PROVE FALSE
      BY <2>3
    <3>1. r[2] \in Cells(<<start, end>>)
      BY <2>3 DEF Cells
    <3>2. PICK q \in by_start : r[2] \in Cells(q)
      BY <1>1, <1>3, <2>3, <3>1
    <3>3. q[1] <= r[2] /\ r[2] < q[2] /\ q \in Positions \X Positions
      BY <3>2 DEF Cells, IntervalsInv
    <3> QED
      BY <2>3, <3>3 DEF IntervalsInv, Apart
  <2>5. PICK p \in Predecessors(start) : r[1] <= p[1]
    BY <2>3, PredecessorFound
  <2>6. p \in by_start /\ p[1] <= start /\ p \in Positions \X Positions /\ p[1] < p[2]
    BY <2>5 DEF Predecessors, IntervalsInv
  <2>7. p = r
    BY <2>3, <2>5, <2>6 DEF IntervalsInv, Apart
  <2> QED
    BY <2>4, <2>5, <2>7 DEF covers
<1> QED
  BY <1>2, <1>3

\* Whatever ranges were inserted in whatever order, one lookup per window is
\* enough for MergedIntervals::covers.
THEOREM LookupsAreExact == IntervalsSpec => []CoversExactly
BY GapsKept, GapsSuffice, PTL

HIDE IntervalsAssumption DEF Positions

-------------------------------------------------------------------------------
(***************************************************************************)
(* DeepReview.                                                             *)
(***************************************************************************)

(***************************************************************************)
(* What git's report of the changes between two trees says.                *)
(***************************************************************************)
AllTrees == [ReviewPaths -> Contents \cup {NoContent}]

ChangeKinds(c, before, after) ==
  \/ /\ c.status = "deleted" /\ c.oldTouched
     /\ c.old \in Present(before) \ Present(after) /\ c.new = NoReviewPath
  \/ /\ c.status = "added" /\ c.newTouched
     /\ c.old = NoReviewPath /\ c.new \in Present(after) \ Present(before)
  \/ /\ c.status = "modified"
     /\ c.old = c.new /\ c.new \in Present(before) \cap Present(after)
  \/ /\ c.status = "renamed"
     /\ c.old \in Present(before) \ Present(after)
     /\ c.new \in Present(after) \ Present(before)

TellsApart(changes, before, after) ==
  /\ \A c \in changes : ChangeKinds(c, before, after)
  /\ \A c, d \in changes : c.old = d.old /\ c.old # NoReviewPath => c = d
  /\ \A c, d \in changes : c.new = d.new /\ c.new # NoReviewPath => c = d

\* A report of git names no path twice on a side, and each of its entries is of the
\* kind that the two trees make it.
LEMMA ChangesTellApart ==
  ASSUME NEW before \in AllTrees, NEW after \in AllTrees,
         NEW changes \in ChangeSets(before, after)
  PROVE  TellsApart(changes, before, after)
<1> DEFINE gone == Present(before) \ Present(after)
           come == Present(after) \ Present(before)
           kept == {p \in Present(before) \cap Present(after) : before[p] # after[p]}
           Whole(rs, hs, h) ==
             {Changed(p, NoReviewPath, "deleted", <<TRUE, FALSE>>) : p \in gone \ {r[1] : r \in rs}}
             \cup {Changed(NoReviewPath, p, "added", <<FALSE, TRUE>>) :
                     p \in come \ {r[2] : r \in rs}}
             \cup {Changed(p, p, "modified", hs[p]) : p \in kept}
             \cup {Changed(r[1], r[2], "renamed", h) : r \in rs}
<1> DEFINE Renames == {{}} \cup {{<<o, n>>} : o \in gone, n \in come}
<1>1. \E rs \in Renames : \E hs \in [kept -> Hunks] : \E h : changes = Whole(rs, hs, h)
  <2> DEFINE HunksOf(o, n) == IF before[o] = after[n] THEN {<<FALSE, FALSE>>} ELSE Hunks
             Touches(rs) == UNION {HunksOf(r[1], r[2]) : r \in rs}
                              \cup (IF rs = {} THEN {<<FALSE, FALSE>>} ELSE {})
             Sets(rs) == {Whole(rs, hs, h) : hs \in [kept -> Hunks], h \in Touches(rs)}
  <2>1. ChangeSets(before, after) = UNION {Sets(rs) : rs \in Renames}
    BY DEF ChangeSets
  <2> HIDE DEF Whole, Touches, Renames, HunksOf, gone, come, kept
  <2> QED BY <2>1
<1> HIDE DEF Whole, gone, come, kept, Renames
<1>2. PICK rs \in Renames : \E hs \in [kept -> Hunks] : \E h : changes = Whole(rs, hs, h)
  BY <1>1
<1>3. PICK hs \in [kept -> Hunks] : \E h : changes = Whole(rs, hs, h)
  BY <1>2
<1>4. PICK h : changes = Whole(rs, hs, h)
  BY <1>3
<1> USE DEF Whole, gone, come, kept, Renames
<1>5. \A r \in rs : r[1] \in gone /\ r[2] \in come
  OBVIOUS
<1>6. \A r, q \in rs : r = q
  OBVIOUS
<1>7. \A p \in gone \cup come \cup kept : p \in ReviewPaths /\ p # NoReviewPath
  BY ReviewAssumption DEF Present, ReviewPaths, NoReviewPath
<1>8. gone \cap come = {} /\ gone \cap kept = {} /\ come \cap kept = {}
  BY DEF Present
<1>10. kept \subseteq Present(before) \cap Present(after)
  OBVIOUS
<1> DEFINE Deleted(c) == \E p \in gone : (\A r \in rs : r[1] # p) /\
                           c = Changed(p, NoReviewPath, "deleted", <<TRUE, FALSE>>)
           Added(c) == \E p \in come : (\A r \in rs : r[2] # p) /\
                           c = Changed(NoReviewPath, p, "added", <<FALSE, TRUE>>)
           Modified(c) == \E p \in kept : c = Changed(p, p, "modified", hs[p])
           Renamed(c) == \E r \in rs : c = Changed(r[1], r[2], "renamed", h)
<1>11. \A c \in changes : Deleted(c) \/ Added(c) \/ Modified(c) \/ Renamed(c)
  BY <1>4
<1>12. \A c : Deleted(c) =>
          /\ c.status = "deleted" /\ c.old \in gone /\ c.new = NoReviewPath
          /\ c.oldTouched
          /\ \A r \in rs : r[1] # c.old
  <2> SUFFICES ASSUME NEW c, NEW p \in gone, \A r \in rs : r[1] # p,
                      c = Changed(p, NoReviewPath, "deleted", <<TRUE, FALSE>>)
               PROVE  /\ c.status = "deleted" /\ c.old \in gone /\ c.new = NoReviewPath
                      /\ c.oldTouched
                      /\ \A r \in rs : r[1] # c.old
    OBVIOUS
  <2>1. c = [old |-> p, new |-> NoReviewPath, status |-> "deleted",
             oldTouched |-> TRUE, newTouched |-> FALSE]
    BY DEF Changed
  <2>2. c.status = "deleted" /\ c.old = p /\ c.new = NoReviewPath
    BY <2>1
  <2>3. c.oldTouched
    BY <2>1
  <2> QED BY <2>2, <2>3
<1>13. \A c : Added(c) =>
          /\ c.status = "added" /\ c.old = NoReviewPath /\ c.new \in come
          /\ c.newTouched
          /\ \A r \in rs : r[2] # c.new
  <2> SUFFICES ASSUME NEW c, NEW p \in come, \A r \in rs : r[2] # p,
                      c = Changed(NoReviewPath, p, "added", <<FALSE, TRUE>>)
               PROVE  /\ c.status = "added" /\ c.old = NoReviewPath /\ c.new \in come
                      /\ c.newTouched
                      /\ \A r \in rs : r[2] # c.new
    OBVIOUS
  <2>1. c = [old |-> NoReviewPath, new |-> p, status |-> "added",
             oldTouched |-> FALSE, newTouched |-> TRUE]
    BY DEF Changed
  <2>2. c.status = "added" /\ c.new = p /\ c.old = NoReviewPath
    BY <2>1
  <2>3. c.newTouched
    BY <2>1
  <2> QED BY <2>2, <2>3
<1>14. \A c : Modified(c) =>
          /\ c.status = "modified" /\ c.old = c.new /\ c.new \in kept
  BY DEF Changed
<1>15. \A c : Renamed(c) =>
          /\ c.status = "renamed" /\ \E r \in rs : c.old = r[1] /\ c.new = r[2]
          /\ c.old \in gone /\ c.new \in come
  BY <1>4, <1>5 DEF Changed
<1>16. \A c, d : Deleted(c) /\ Deleted(d) /\ c.old = d.old => c = d
  BY DEF Changed
<1>17. \A c, d : Added(c) /\ Added(d) /\ c.new = d.new => c = d
  BY DEF Changed
<1>18. \A c, d : Modified(c) /\ Modified(d) /\ c.new = d.new => c = d
  BY DEF Changed
<1>19. \A c, d : Renamed(c) /\ Renamed(d) => c = d
  BY <1>6
<1> HIDE DEF Deleted, Added, Modified, Renamed, Whole, gone, come, kept
<1>20. \A c \in changes : ChangeKinds(c, before, after)
  <2> SUFFICES ASSUME NEW c \in changes
               PROVE  ChangeKinds(c, before, after)
    OBVIOUS
  <2>1. CASE Deleted(c)
    BY <1>12, <2>1 DEF ChangeKinds, gone
  <2>2. CASE Added(c)
    BY <1>13, <2>2 DEF ChangeKinds, come
  <2>3. CASE Modified(c)
    BY <1>10, <1>14, <2>3 DEF ChangeKinds
  <2>4. CASE Renamed(c)
    BY <1>15, <2>4 DEF ChangeKinds, gone, come
  <2> QED BY <1>11, <2>1, <2>2, <2>3, <2>4
<1>21. \A c, d \in changes : c.old = d.old /\ c.old # NoReviewPath => c = d
  <2> SUFFICES ASSUME NEW c \in changes, NEW d \in changes, c.old = d.old,
                      c.old # NoReviewPath
               PROVE  c = d
    OBVIOUS
  <2>1. CASE Deleted(c)
    BY <1>8, <1>11, <1>12, <1>13, <1>14, <1>15, <1>16, <2>1
  <2>2. CASE Added(c)
    BY <1>13, <2>2
  <2>3. CASE Modified(c)
    BY <1>8, <1>11, <1>12, <1>13, <1>14, <1>15, <1>18, <2>3
  <2>4. CASE Renamed(c)
    BY <1>8, <1>11, <1>12, <1>13, <1>14, <1>15, <1>19, <2>4
  <2> QED BY <1>11, <2>1, <2>2, <2>3, <2>4
<1>22. \A c, d \in changes : c.new = d.new /\ c.new # NoReviewPath => c = d
  <2> SUFFICES ASSUME NEW c \in changes, NEW d \in changes, c.new = d.new,
                      c.new # NoReviewPath
               PROVE  c = d
    OBVIOUS
  <2>1. CASE Deleted(c)
    BY <1>12, <2>1
  <2>2. CASE Added(c)
    BY <1>8, <1>11, <1>12, <1>13, <1>14, <1>15, <1>17, <2>2
  <2>3. CASE Modified(c)
    BY <1>8, <1>11, <1>12, <1>13, <1>14, <1>15, <1>18, <2>3
  <2>4. CASE Renamed(c)
    BY <1>8, <1>11, <1>12, <1>13, <1>14, <1>15, <1>19, <2>4
  <2> QED BY <1>11, <2>1, <2>2, <2>3, <2>4
<1> QED
  BY <1>20, <1>21, <1>22 DEF TellsApart

\* Where remap_renames finds the finding of a path of the base tree.
MovedTo(q) ==
  LET renamed == {c \in changedFiles : c.status = "renamed" /\ c.old = q}
  IN IF renamed = {} THEN q ELSE (CHOOSE c \in renamed : TRUE).new

\* A path is moved to the new side of a rename of it, or it stays where it is.
LEMMA RenamesAreFound ==
  ASSUME NEW q
  PROVE  \/ \E c \in changedFiles : c.status = "renamed" /\ c.old = q /\ MovedTo(q) = c.new
         \/ /\ MovedTo(q) = q
            /\ \A c \in changedFiles : c.status = "renamed" => c.old # q
BY DEF MovedTo

\* The findings of a snapshot are those of its sources that are graded.
LEMMA FindingsOf ==
  ASSUME NEW s, NEW t
  PROVE  /\ \A a \in Findings(s, t) :
              /\ a.path \in s.sources /\ t[a.path].grade > 0
              /\ a = [path |-> a.path, at |-> a.path, grade |-> t[a.path].grade]
              /\ a.grade = t[a.path].grade
         /\ \A p \in s.sources : t[p].grade > 0 =>
              [path |-> p, at |-> p, grade |-> t[p].grade] \in Findings(s, t)
<1>1. ASSUME NEW a \in Findings(s, t)
      PROVE  /\ a.path \in s.sources /\ t[a.path].grade > 0
             /\ a = [path |-> a.path, at |-> a.path, grade |-> t[a.path].grade]
             /\ a.grade = t[a.path].grade
  <2>1. PICK p \in s.sources :
          t[p].grade > 0 /\ a = [path |-> p, at |-> p, grade |-> t[p].grade]
    BY DEF Findings
  <2>2. a.path = p
    BY <2>1
  <2> QED BY <2>1, <2>2
<1>2. ASSUME NEW p \in s.sources, t[p].grade > 0
      PROVE  [path |-> p, at |-> p, grade |-> t[p].grade] \in Findings(s, t)
  BY <1>2 DEF Findings
<1> QED
  BY <1>1, <1>2

\* Remapped, each of them keeps its grade and bears the path it moved to.
LEMMA RemappedFindings ==
  ASSUME NEW s, NEW t
  PROVE  /\ \A b \in Remap(Findings(s, t)) : \E q \in s.sources :
              /\ t[q].grade > 0 /\ b.path = MovedTo(q) /\ b.grade = t[q].grade
         /\ \A q \in s.sources : t[q].grade > 0 =>
              \E b \in Remap(Findings(s, t)) : b.path = MovedTo(q) /\ b.grade = t[q].grade
<1> DEFINE Moved(f) == [f EXCEPT !.path = MovedTo(f.path)]
<1>1. Remap(Findings(s, t)) = {Moved(f) : f \in Findings(s, t)}
  BY DEF Remap, MovedTo
<1>2. ASSUME NEW q
      PROVE  Moved([path |-> q, at |-> q, grade |-> t[q].grade])
               = [path |-> MovedTo(q), at |-> q, grade |-> t[q].grade]
  OBVIOUS
<1> HIDE DEF Moved
<1>3. ASSUME NEW b \in Remap(Findings(s, t))
      PROVE  \E q \in s.sources :
               t[q].grade > 0 /\ b.path = MovedTo(q) /\ b.grade = t[q].grade
  <2>1. PICK a \in Findings(s, t) : b = Moved(a)
    BY <1>1
  <2>2. /\ a.path \in s.sources /\ t[a.path].grade > 0
        /\ a = [path |-> a.path, at |-> a.path, grade |-> t[a.path].grade]
    BY FindingsOf
  <2>3. b = [path |-> MovedTo(a.path), at |-> a.path, grade |-> t[a.path].grade]
    BY <1>2, <2>1, <2>2
  <2>4. b.path = MovedTo(a.path) /\ b.grade = t[a.path].grade
    BY <2>3
  <2> QED BY <2>2, <2>4
<1>4. ASSUME NEW q \in s.sources, t[q].grade > 0
      PROVE  \E b \in Remap(Findings(s, t)) : b.path = MovedTo(q) /\ b.grade = t[q].grade
  <2>1. [path |-> q, at |-> q, grade |-> t[q].grade] \in Findings(s, t)
    BY <1>4, FindingsOf
  <2>2. [path |-> MovedTo(q), at |-> q, grade |-> t[q].grade] \in Remap(Findings(s, t))
    BY <1>1, <1>2, <2>1
  <2> QED BY <2>2
<1> QED
  BY <1>3, <1>4

(***************************************************************************)
(* The comparison.  A path of the tree of the diff keeps its name or is    *)
(* the old side of one rename.                                             *)
(***************************************************************************)
PathOf(c) == IF c.new = NoReviewPath THEN c.old ELSE c.new
Was(c) == GradeIn(DiffTree, c.old)
Is(c) == GradeIn(reviewed, c.new)
StateOf(b, a) ==
  IF b = 0 THEN "new" ELSE IF a = 0 THEN "resolved" ELSE IF a > b THEN "worsened" ELSE "improved"
Worth(c) == /\ Was(c) # Is(c)
            /\ (Is(c) > 0 /\ c.newTouched) \/ (Was(c) > 0 /\ c.oldTouched)

\* A changed file whose grade changed at changed lines is expected in the report.
LEMMA ExpectedChanges ==
  ASSUME NEW c \in changedFiles, Worth(c)
  PROVE  [path |-> PathOf(c), state |-> StateOf(Was(c), Is(c))] \in Expected
BY DEF Expected, PathOf, Was, Is, StateOf, Worth

\* Nothing else is.
LEMMA ExpectedAreChanges ==
  ASSUME NEW e \in Expected
  PROVE  \E c \in changedFiles :
           Worth(c) /\ e = [path |-> PathOf(c), state |-> StateOf(Was(c), Is(c))]
BY DEF Expected, PathOf, Was, Is, StateOf, Worth

\* Graded files are files.
LEMMA GradedIsPresent ==
  ASSUME NEW t \in AllTrees, NEW p
  PROVE  /\ GradeIn(t, p) \in Nat
         /\ GradeIn(t, p) > 0 => p \in Present(t) /\ p \in Supported
         /\ p \in Present(t) /\ p \in Supported => GradeIn(t, p) = t[p].grade
         /\ p \in Present(t) => p # NoReviewPath
<1>1. p \in Present(t) => t[p] \in Contents /\ p # NoReviewPath
  BY ReviewAssumption DEF AllTrees, Present, ReviewPaths, NoReviewPath
<1>2. \A f \in Contents : f.grade \in Nat
  BY DEF Contents
<1> QED
  BY <1>1, <1>2 DEF GradeIn

\* The findings of the base tree under the paths that they are compared by.
TrueBefore(before) ==
  \A b \in before : \E q \in Present(DiffTree) :
    /\ GradeIn(DiffTree, q) > 0
    /\ b.path = MovedTo(q) /\ b.grade = GradeIn(DiffTree, q)
AllBefore(before) ==
  \A q : GradeIn(DiffTree, q) > 0 =>
    \E b \in before : b.path = MovedTo(q) /\ b.grade = GradeIn(DiffTree, q)
TrueAfter(after) ==
  \A a \in after : GradeIn(reviewed, a.path) > 0 /\ a.grade = GradeIn(reviewed, a.path)
AllAfter(after) ==
  \A p : GradeIn(reviewed, p) > 0 =>
    \E a \in after : a.path = p /\ a.grade = GradeIn(reviewed, p)

ChangesKnown ==
  /\ DiffTree \in AllTrees /\ reviewed \in AllTrees
  /\ TellsApart(changedFiles, DiffTree, reviewed)

\* What a changed file is to a path of the tree of the diff.
LEMMA MovedOrStayed ==
  ASSUME ChangesKnown, NEW q \in Present(DiffTree)
  PROVE  \/ \E c \in changedFiles :
              /\ c.status = "renamed" /\ c.old = q /\ c.new = MovedTo(q)
              /\ q \notin Present(reviewed)
              /\ MovedTo(q) \in Present(reviewed) /\ MovedTo(q) \notin Present(DiffTree)
         \/ MovedTo(q) = q /\ \A c \in changedFiles : c.status = "renamed" => c.old # q
BY RenamesAreFound DEF ChangesKnown, TellsApart, ChangeKinds

\* A changed file that ends at the path of a finding of the base tree comes from it.
LEMMA EndsWhereItMoved ==
  ASSUME ChangesKnown, NEW q \in Present(DiffTree), NEW c \in changedFiles,
         c.new = MovedTo(q)
  PROVE  c.old = q
<1>1. ChangeKinds(c, DiffTree, reviewed)
  BY DEF ChangesKnown, TellsApart
<1>2. q # NoReviewPath /\ \A p \in Present(reviewed) : p # NoReviewPath
  BY GradedIsPresent DEF ChangesKnown
<1>3. CASE \E d \in changedFiles : /\ d.status = "renamed" /\ d.old = q /\ d.new = MovedTo(q)
                                   /\ MovedTo(q) \in Present(reviewed)
  <2>1. PICK d \in changedFiles : /\ d.old = q /\ d.new = MovedTo(q)
                                  /\ MovedTo(q) \in Present(reviewed)
    BY <1>3
  <2>2. c = d
    BY <1>2, <2>1 DEF ChangesKnown, TellsApart
  <2> QED BY <2>1, <2>2
<1>4. CASE MovedTo(q) = q
  BY <1>1, <1>2, <1>4 DEF ChangeKinds
<1> QED
  BY <1>3, <1>4, MovedOrStayed

\* And one that begins at such a path, or is a rename to it, comes from it as well.
LEMMA BeginsWhereItMoved ==
  ASSUME ChangesKnown, NEW q \in Present(DiffTree), NEW c \in changedFiles,
         c.old = MovedTo(q) \/ (c.status = "renamed" /\ c.new = MovedTo(q))
  PROVE  c.old = q
<1>1. ChangeKinds(c, DiffTree, reviewed)
  BY DEF ChangesKnown, TellsApart
<1>2. q # NoReviewPath /\ \A p \in Present(reviewed) : p # NoReviewPath
  BY GradedIsPresent DEF ChangesKnown
<1>3. CASE c.status = "renamed" /\ c.new = MovedTo(q)
  BY <1>3, EndsWhereItMoved
<1>4. CASE c.old = MovedTo(q)
  <2>1. MovedTo(q) = q \/ (MovedTo(q) \in Present(reviewed) /\ MovedTo(q) \notin Present(DiffTree))
    BY MovedOrStayed
  <2>2. c.old \in Present(DiffTree) \/ c.old = NoReviewPath
    BY <1>1 DEF ChangeKinds
  <2> QED BY <1>2, <1>4, <2>1, <2>2
<1> QED
  BY <1>3, <1>4

\* A change that comes from a path of the tree of the diff is told at its new one.
LEMMA ToldWhereItMoved ==
  ASSUME ChangesKnown, NEW q \in Present(DiffTree), NEW c \in changedFiles, c.old = q
  PROVE  PathOf(c) = MovedTo(q)
<1>1. ChangeKinds(c, DiffTree, reviewed)
  BY DEF ChangesKnown, TellsApart
<1>2. q # NoReviewPath /\ \A p \in Present(reviewed) : p # NoReviewPath
  BY GradedIsPresent DEF ChangesKnown
<1>3. CASE \E d \in changedFiles : d.status = "renamed" /\ d.old = q /\ d.new = MovedTo(q)
                                   /\ MovedTo(q) \in Present(reviewed)
  <2>1. PICK d \in changedFiles : /\ d.old = q /\ d.new = MovedTo(q)
                                  /\ MovedTo(q) \in Present(reviewed)
    BY <1>3
  <2>2. c = d
    BY <1>2, <2>1 DEF ChangesKnown, TellsApart
  <2> QED BY <1>2, <2>1, <2>2 DEF PathOf
<1>4. CASE MovedTo(q) = q /\ c.status # "renamed"
  BY <1>1, <1>2, <1>4 DEF ChangeKinds, PathOf
<1> QED
  BY <1>3, <1>4, MovedOrStayed

\* A change of a path of the old tree is graded where that path moved to.
LEMMA GradeWhereItMoved ==
  ASSUME ChangesKnown, NEW q \in Present(DiffTree), NEW c \in changedFiles, c.old = q
  PROVE  /\ Is(c) = GradeIn(reviewed, MovedTo(q))
         /\ c.old = MovedTo(q) \/ (c.status = "renamed" /\ c.new = MovedTo(q))
<1>1. ChangeKinds(c, DiffTree, reviewed)
  BY DEF ChangesKnown, TellsApart
<1>2. q # NoReviewPath /\ \A p \in Present(reviewed) : p # NoReviewPath
  BY GradedIsPresent DEF ChangesKnown
<1>3. PathOf(c) = MovedTo(q)
  BY ToldWhereItMoved
<1>4. CASE c.new = NoReviewPath
  <2>1. MovedTo(q) = q /\ q \notin Present(reviewed)
    BY <1>1, <1>2, <1>3, <1>4 DEF PathOf, ChangeKinds
  <2>2. NoReviewPath \notin Present(reviewed)
    BY <1>2
  <2> QED BY <1>4, <2>1, <2>2 DEF Is, GradeIn
<1>5. CASE c.new # NoReviewPath
  BY <1>1, <1>2, <1>3, <1>5 DEF PathOf, ChangeKinds, Is
<1> QED
  BY <1>4, <1>5

\* A finding at changed lines that the base tree has nowhere is new.
LEMMA NewIsExpected ==
  ASSUME ChangesKnown, NEW before, NEW after, AllBefore(before), TrueAfter(after),
         NEW a \in after, NewLinesChanged(a), \A b \in before : b.path # a.path
  PROVE  [path |-> a.path, state |-> "new"] \in Expected
<1>1. PICK c \in changedFiles : c.new = a.path /\ c.newTouched
  BY DEF NewLinesChanged
<1>2. Is(c) > 0 /\ c.new # NoReviewPath
  BY <1>1, GradedIsPresent DEF TrueAfter, Is, ChangesKnown
<1>3. PathOf(c) = a.path
  BY <1>1, <1>2 DEF PathOf
<1>4. Was(c) = 0
  <2> SUFFICES ASSUME Was(c) # 0
               PROVE  FALSE
    OBVIOUS
  <2>1. Was(c) > 0 /\ c.old \in Present(DiffTree)
    BY GradedIsPresent DEF Was, ChangesKnown
  <2>2. PICK b \in before : b.path = MovedTo(c.old)
    BY <2>1 DEF AllBefore, Was
  <2>3. PathOf(c) = MovedTo(c.old)
    BY <2>1, ToldWhereItMoved
  <2> QED BY <1>3, <2>2, <2>3
<1>5. Worth(c) /\ StateOf(Was(c), Is(c)) = "new"
  BY <1>1, <1>2, <1>4 DEF Worth, StateOf
<1> QED
  BY <1>3, <1>5, ExpectedChanges

\* A finding of the base tree at changed lines that is nowhere now is resolved.
LEMMA ResolvedIsExpected ==
  ASSUME ChangesKnown, NEW before, NEW after, TrueBefore(before), AllAfter(after),
         NEW b \in before, OldLinesChanged(b), \A a \in after : b.path # a.path
  PROVE  [path |-> b.path, state |-> "resolved"] \in Expected
<1>1. PICK q \in Present(DiffTree) : /\ GradeIn(DiffTree, q) > 0
                                     /\ b.path = MovedTo(q)
  BY DEF TrueBefore
<1>2. PICK c \in changedFiles : c.oldTouched /\
        (c.old = b.path \/ (c.status = "renamed" /\ c.new = b.path))
  BY DEF OldLinesChanged
<1>3. c.old = q
  BY <1>1, <1>2, BeginsWhereItMoved
<1>4. Was(c) > 0 /\ PathOf(c) = b.path /\ Is(c) = GradeIn(reviewed, b.path)
  BY <1>1, <1>3, ToldWhereItMoved, GradeWhereItMoved DEF Was
<1>5. Is(c) = 0
  <2>1. Is(c) \in Nat /\ ~(Is(c) > 0)
    BY <1>4, GradedIsPresent DEF AllAfter, Is, ChangesKnown
  <2> QED BY <2>1
<1>6. Worth(c) /\ StateOf(Was(c), Is(c)) = "resolved"
  <2>1. Was(c) \in Nat
    BY GradedIsPresent DEF Was, ChangesKnown
  <2> QED BY <1>2, <1>4, <1>5, <2>1 DEF Worth, StateOf
<1> QED
  BY <1>4, <1>6, ExpectedChanges

\* Findings of two grades at one path, one of them at changed lines, are told apart.
LEMMA GradedIsExpected ==
  ASSUME ChangesKnown, NEW before, NEW after, TrueBefore(before), TrueAfter(after),
         NEW a \in after, NEW b \in before, b.path = a.path, b.grade # a.grade,
         NewLinesChanged(a) \/ OldLinesChanged(b)
  PROVE  [path |-> a.path, state |-> IF a.grade > b.grade THEN "worsened" ELSE "improved"]
           \in Expected
<1>1. PICK q \in Present(DiffTree) : /\ GradeIn(DiffTree, q) > 0 /\ b.path = MovedTo(q)
                                     /\ b.grade = GradeIn(DiffTree, q)
  BY DEF TrueBefore
<1>2. PICK c \in changedFiles : c.old = q /\ (c.newTouched \/ c.oldTouched)
  <2>1. CASE NewLinesChanged(a)
    <3>1. PICK c \in changedFiles : c.new = a.path /\ c.newTouched
      BY <2>1 DEF NewLinesChanged
    <3>2. c.old = q
      BY <1>1, <3>1, EndsWhereItMoved
    <3> QED BY <3>1, <3>2
  <2>2. CASE OldLinesChanged(b)
    <3>1. PICK c \in changedFiles : c.oldTouched /\
            (c.old = b.path \/ (c.status = "renamed" /\ c.new = b.path))
      BY <2>2 DEF OldLinesChanged
    <3>2. c.old = q
      BY <1>1, <3>1, BeginsWhereItMoved
    <3> QED BY <3>1, <3>2
  <2> QED BY <2>1, <2>2
<1>3. Was(c) = b.grade /\ PathOf(c) = a.path /\ Is(c) = GradeIn(reviewed, a.path)
  BY <1>1, <1>2, ToldWhereItMoved, GradeWhereItMoved DEF Was
<1>4. Is(c) = a.grade /\ Is(c) > 0 /\ Was(c) > 0 /\ Was(c) \in Nat /\ Is(c) \in Nat
  BY <1>1, <1>3, GradedIsPresent DEF TrueAfter, Was, Is, ChangesKnown
<1>5. Worth(c) /\ StateOf(Was(c), Is(c)) = IF a.grade > b.grade THEN "worsened" ELSE "improved"
  BY <1>2, <1>3, <1>4 DEF Worth, StateOf
<1> QED
  BY <1>3, <1>5, ExpectedChanges

\* What Delta consists of.
LEMMA DeltaParts ==
  ASSUME NEW before, NEW after, NEW d
  PROVE  d \in Delta(before, after) <=>
           \/ \E a \in after : /\ NewLinesChanged(a) /\ \A b \in before : b.path # a.path
                              /\ d = [path |-> a.path, state |-> "new"]
           \/ \E b \in before : /\ OldLinesChanged(b) /\ \A a \in after : b.path # a.path
                               /\ d = [path |-> b.path, state |-> "resolved"]
           \/ \E a \in after : \E b \in before :
                /\ b.path = a.path /\ b.grade # a.grade
                /\ NewLinesChanged(a) \/ OldLinesChanged(b)
                /\ d = [path |-> a.path,
                        state |-> IF a.grade > b.grade THEN "worsened" ELSE "improved"]
BY DEF Delta

\* Nothing is reported that the trees do not say, and nothing that they say is
\* missing, as far as their findings are complete.
LEMMA DeltaIsTrue ==
  ASSUME ChangesKnown, NEW before, NEW after, TrueBefore(before), TrueAfter(after),
         NEW d \in Delta(before, after) \ Expected
  PROVE  \/ d.state = "new" /\ ~AllBefore(before)
         \/ d.state = "resolved" /\ ~AllAfter(after)
<1>1. CASE \E a \in after : /\ NewLinesChanged(a) /\ \A b \in before : b.path # a.path
                           /\ d = [path |-> a.path, state |-> "new"]
  BY <1>1, NewIsExpected
<1>2. CASE \E b \in before : /\ OldLinesChanged(b) /\ \A a \in after : b.path # a.path
                            /\ d = [path |-> b.path, state |-> "resolved"]
  BY <1>2, ResolvedIsExpected
<1>3. CASE \E a \in after : \E b \in before :
             /\ b.path = a.path /\ b.grade # a.grade
             /\ NewLinesChanged(a) \/ OldLinesChanged(b)
             /\ d = [path |-> a.path,
                     state |-> IF a.grade > b.grade THEN "worsened" ELSE "improved"]
  BY <1>3, GradedIsExpected
<1> QED
  BY <1>1, <1>2, <1>3, DeltaParts

\* From complete findings everything that is expected is reported.
LEMMA DeltaIsComplete ==
  ASSUME ChangesKnown, NEW before, NEW after, TrueBefore(before), TrueAfter(after),
         AllBefore(before), AllAfter(after)
  PROVE  Expected \subseteq Delta(before, after)
<1> SUFFICES ASSUME NEW e \in Expected
             PROVE  e \in Delta(before, after)
  OBVIOUS
<1>1. PICK c \in changedFiles :
        Worth(c) /\ e = [path |-> PathOf(c), state |-> StateOf(Was(c), Is(c))]
  BY ExpectedAreChanges
<1>2. /\ Was(c) \in Nat /\ Is(c) \in Nat
      /\ Was(c) > 0 => c.old \in Present(DiffTree)
      /\ Is(c) > 0 => c.new # NoReviewPath
  BY GradedIsPresent DEF Was, Is, ChangesKnown
<1>3. CASE Was(c) = 0
  <2>1. Is(c) > 0 /\ c.newTouched
    BY <1>1, <1>2, <1>3 DEF Worth
  <2>2. PICK a \in after : a.path = c.new
    BY <2>1 DEF AllAfter, Is
  <2>3. NewLinesChanged(a)
    BY <2>1, <2>2 DEF NewLinesChanged
  <2>4. \A b \in before : b.path # a.path
    <3> SUFFICES ASSUME NEW b \in before, b.path = a.path
                 PROVE  FALSE
      OBVIOUS
    <3>1. PICK q \in Present(DiffTree) : GradeIn(DiffTree, q) > 0 /\ b.path = MovedTo(q)
      BY DEF TrueBefore
    <3>2. c.old = q
      BY <2>2, <3>1, EndsWhereItMoved
    <3> QED BY <1>3, <3>1, <3>2 DEF Was
  <2>5. e = [path |-> a.path, state |-> "new"]
    BY <1>1, <1>2, <1>3, <2>1, <2>2 DEF PathOf, StateOf
  <2> QED BY <2>3, <2>4, <2>5, DeltaParts
<1>4. CASE Was(c) > 0
  <2> DEFINE q == c.old
  <2>1. q \in Present(DiffTree)
    BY <1>2, <1>4
  <2>2. PICK b \in before : b.path = MovedTo(q) /\ b.grade = Was(c)
    BY <1>4 DEF AllBefore, Was
  <2>3. PathOf(c) = b.path /\ Is(c) = GradeIn(reviewed, b.path)
    BY <2>1, <2>2, ToldWhereItMoved, GradeWhereItMoved
  <2>4. c.oldTouched => OldLinesChanged(b)
    BY <2>1, <2>2, GradeWhereItMoved DEF OldLinesChanged
  <2>5. CASE Is(c) = 0
    <3>1. c.oldTouched
      BY <1>1, <2>5 DEF Worth
    <3>2. \A a \in after : b.path # a.path
      <4> SUFFICES ASSUME NEW a \in after, b.path = a.path
                   PROVE  FALSE
        OBVIOUS
      <4>1. GradeIn(reviewed, a.path) > 0
        BY DEF TrueAfter
      <4> QED BY <2>3, <2>5, <4>1
    <3>3. e = [path |-> b.path, state |-> "resolved"]
      BY <1>1, <1>4, <2>3, <2>5 DEF StateOf
    <3> QED BY <2>4, <3>1, <3>2, <3>3, DeltaParts
  <2>6. CASE Is(c) > 0
    <3>1. PICK a \in after : a.path = b.path /\ a.grade = Is(c)
      BY <2>3, <2>6 DEF AllAfter
    <3>2. c.newTouched => NewLinesChanged(a)
      <4>1. c.new = a.path
        BY <1>2, <2>3, <2>6, <3>1 DEF PathOf
      <4> QED BY <4>1 DEF NewLinesChanged
    <3>3. NewLinesChanged(a) \/ OldLinesChanged(b)
      BY <1>1, <2>4, <3>2 DEF Worth
    <3>4. b.grade # a.grade
      BY <1>1, <2>2, <3>1 DEF Worth
    <3>5. e = [path |-> a.path, state |-> IF a.grade > b.grade THEN "worsened" ELSE "improved"]
      BY <1>1, <1>2, <1>4, <2>2, <2>3, <2>6, <3>1 DEF StateOf
    <3> QED BY <3>1, <3>3, <3>4, <3>5, DeltaParts
  <2> QED BY <1>2, <2>5, <2>6
<1> QED
  BY <1>2, <1>3, <1>4

(***************************************************************************)
(* The snapshots.  Each file that the reading has passed is among the      *)
(* sources or in a counter, and a counter of a limit marks the snapshot.   *)
(***************************************************************************)
Snapshots ==
  [sources : SUBSET ReviewPaths, unreadable : Nat, oversized : Nat, omitted : Nat,
   incomplete : BOOLEAN, truncated : BOOLEAN]

Counted(s) == s.unreadable + s.oversized + s.omitted

\* What is left out makes the snapshot marked.
Marking(s) == (s.oversized > 0 \/ s.omitted > 0 \/ s.incomplete) => s.truncated

Missed(s, t, passed) == (Present(t) \cap Supported \cap passed) \ s.sources

\* What has been passed is taken, counted, or known to be incomplete.
EntriesCounted(s, t, passed) ==
  Cardinality(Missed(s, t, passed)) <= Counted(s) \/ s.incomplete

PassedNow ==
  IF taking = "current" THEN {p \in ReviewPaths : p < entry /\ (staged \/ p \notin found)}
  ELSE IF taking = "reading" THEN {p \in ReviewPaths : p \notin found \/ p < entry}
  ELSE ReviewPaths

PassedThen ==
  IF taking = "base" THEN {p \in ReviewPaths : p < entry}
  ELSE IF taking = "reported" THEN ReviewPaths ELSE {}

ReviewTypes ==
  /\ staged \in BOOLEAN /\ reviewed \in AllTrees
  /\ headTree \in AllTrees /\ baseTree \in AllTrees /\ DiffTree \in AllTrees
  /\ entry \in 1..(PathCount + 1) /\ found \in SUBSET ReviewPaths
  /\ now \in Snapshots /\ then \in Snapshots
  /\ taking \in {"current", "reading", "base", "reported"}

SnapshotsInv ==
  /\ now.sources \subseteq Present(reviewed) \cap Supported
  /\ then.sources \subseteq Present(baseTree) \cap Supported
  /\ Marking(now) /\ Marking(then)
  /\ EntriesCounted(now, reviewed, PassedNow) \/ walkFailed
  /\ staged => ~walkFailed
  /\ found \subseteq Present(reviewed)
  /\ EntriesCounted(then, baseTree, PassedThen)
  /\ taking \in {"current", "reading"} => then.sources = {}

\* HEAD is born once: afterwards it is what is reviewed.
HeadInv ==
  /\ firstCommit => headTree = reviewed
  /\ diffBase = {} /\ taking \in {"current", "reading"} /\ ~firstCommit => headTree = Empty
  /\ taking \in {"base", "reported"} /\ ~firstCommit => baseTree = DiffTree

ReviewInv ==
  /\ ReviewTypes /\ SnapshotsInv /\ HeadInv
  /\ changedFiles \in ChangeSets(DiffTree, reviewed)
  /\ ReviewTrueOrMarked /\ ReviewCompleteOrMarked

\* Every set of paths is finite.
LEMMA PathsFinite ==
  /\ IsFiniteSet(ReviewPaths)
  /\ \A S \in SUBSET ReviewPaths : IsFiniteSet(S) /\ Cardinality(S) \in Nat
<1>1. IsFiniteSet(ReviewPaths)
  BY ReviewAssumption, FS_Interval DEF ReviewPaths
<1> QED
  BY <1>1, FS_Subset, FS_CardinalityType

\* One more path makes a set larger by one at most.
LEMMA OneMore ==
  ASSUME NEW S \in SUBSET ReviewPaths, NEW M \in SUBSET ReviewPaths, NEW p \in ReviewPaths,
         M \subseteq S \cup {p}
  PROVE  Cardinality(M) <= Cardinality(S) + 1
<1>1. IsFiniteSet(S \cup {p}) /\ Cardinality(S \cup {p}) \in Nat
  BY PathsFinite
<1>2. Cardinality(S \cup {p}) <= Cardinality(S) + 1
  BY PathsFinite, FS_AddElement
<1>3. Cardinality(M) <= Cardinality(S \cup {p})
  BY <1>1, FS_Subset
<1> QED
  BY <1>1, <1>2, <1>3, PathsFinite

\* And any number of further paths by that number at most.
LEMMA ManyMore ==
  ASSUME NEW S \in SUBSET ReviewPaths, NEW M \in SUBSET ReviewPaths,
         NEW rest \in SUBSET ReviewPaths, M \subseteq S \cup rest
  PROVE  Cardinality(M) <= Cardinality(S) + Cardinality(rest)
<1>1. IsFiniteSet(S \cup rest) /\ Cardinality(S \cup rest) \in Nat
  BY PathsFinite
<1>2. Cardinality(S \cup rest) <= Cardinality(S) + Cardinality(rest)
  <2>1. Cardinality(S \cup rest)
          = Cardinality(S) + Cardinality(rest) - Cardinality(S \cap rest)
    BY PathsFinite, FS_Union
  <2>2. Cardinality(S \cap rest) \in Nat
    BY PathsFinite
  <2> QED BY <2>1, <2>2, PathsFinite
<1>3. Cardinality(M) <= Cardinality(S \cup rest)
  BY <1>1, FS_Subset
<1> QED
  BY <1>1, <1>2, <1>3, PathsFinite

\* The counters that a file or a cut can raise.
LEMMA FieldsWritten ==
  ASSUME NEW s \in Snapshots, NEW n \in Nat, NEW flag \in BOOLEAN
  PROVE  /\ [s EXCEPT !.unreadable = n] \in Snapshots
         /\ [s EXCEPT !.oversized = n, !.truncated = flag] \in Snapshots
         /\ [s EXCEPT !.omitted = n, !.truncated = flag] \in Snapshots
         /\ [s EXCEPT !.incomplete = flag, !.truncated = flag] \in Snapshots
         /\ \A S \in SUBSET ReviewPaths : [s EXCEPT !.sources = S] \in Snapshots
BY DEF Snapshots

\* The fields of a snapshot.
LEMMA SnapshotFields ==
  ASSUME NEW s \in Snapshots
  PROVE  /\ s.sources \in SUBSET ReviewPaths /\ s.unreadable \in Nat /\ s.oversized \in Nat
         /\ s.omitted \in Nat /\ Counted(s) \in Nat
BY DEF Snapshots, Counted

\* An unreadable blob is counted and costs no source.
LEMMA CountUnreadable ==
  ASSUME NEW s \in Snapshots, Marking(s)
  PROVE  /\ Unreadable(s) \in Snapshots /\ Marking(Unreadable(s))
         /\ Unreadable(s).sources = s.sources /\ Unreadable(s).incomplete = s.incomplete
         /\ Counted(Unreadable(s)) = Counted(s) + 1
<1>1. s.unreadable + 1 \in Nat
  BY SnapshotFields
<1>2. /\ Unreadable(s).sources = s.sources /\ Unreadable(s).incomplete = s.incomplete
      /\ Unreadable(s).unreadable = s.unreadable + 1 /\ Unreadable(s).omitted = s.omitted
      /\ Unreadable(s).oversized = s.oversized /\ Unreadable(s).truncated = s.truncated
  BY DEF Unreadable, Snapshots
<1>3. Unreadable(s) \in Snapshots
  BY <1>1, FieldsWritten DEF Unreadable
<1> QED
  BY <1>2, <1>3, SnapshotFields DEF Marking, Counted

\* An oversized one is counted and marks the snapshot.
LEMMA CountOversized ==
  ASSUME NEW s \in Snapshots, Marking(s)
  PROVE  /\ Oversized(s) \in Snapshots /\ Marking(Oversized(s))
         /\ Oversized(s).sources = s.sources /\ Oversized(s).incomplete = s.incomplete
         /\ Counted(Oversized(s)) = Counted(s) + 1
<1>1. s.oversized + 1 \in Nat
  BY SnapshotFields
<1>2. /\ Oversized(s).sources = s.sources /\ Oversized(s).incomplete = s.incomplete
      /\ Oversized(s).unreadable = s.unreadable /\ Oversized(s).omitted = s.omitted
      /\ Oversized(s).oversized = s.oversized + 1 /\ Oversized(s).truncated
  BY DEF Oversized, Snapshots
<1>3. Oversized(s) \in Snapshots
  BY <1>1, FieldsWritten DEF Oversized
<1> QED
  BY <1>2, <1>3, SnapshotFields DEF Marking, Counted

\* So are the entries that a limit leaves out.
LEMMA CountOmitted ==
  ASSUME NEW s \in Snapshots, Marking(s), NEW n \in Nat
  PROVE  /\ Omitted(s, n) \in Snapshots /\ Marking(Omitted(s, n))
         /\ Omitted(s, n).sources = s.sources /\ Omitted(s, n).incomplete = s.incomplete
         /\ Counted(Omitted(s, n)) = Counted(s) + n
<1>1. s.omitted + n \in Nat
  BY SnapshotFields
<1>2. /\ Omitted(s, n).sources = s.sources /\ Omitted(s, n).incomplete = s.incomplete
      /\ Omitted(s, n).unreadable = s.unreadable /\ Omitted(s, n).omitted = s.omitted + n
      /\ Omitted(s, n).oversized = s.oversized /\ Omitted(s, n).truncated
  BY DEF Omitted, Snapshots
<1>3. Omitted(s, n) \in Snapshots
  BY <1>1, FieldsWritten DEF Omitted
<1> QED
  BY <1>2, <1>3, SnapshotFields DEF Marking, Counted

\* A walk that was cut marks the snapshot.
LEMMA NoteIncomplete ==
  ASSUME NEW s \in Snapshots, Marking(s)
  PROVE  /\ Incomplete(s) \in Snapshots /\ Marking(Incomplete(s))
         /\ Incomplete(s).sources = s.sources /\ Incomplete(s).incomplete
<1>1. /\ Incomplete(s).sources = s.sources /\ Incomplete(s).incomplete
      /\ Incomplete(s).truncated
  BY DEF Incomplete, Snapshots
<1>2. Incomplete(s) \in Snapshots
  BY FieldsWritten, 0 \in Nat DEF Incomplete
<1> QED
  BY <1>1, <1>2 DEF Marking

\* A file that is read is a source and counted nowhere.
LEMMA TakeSource ==
  ASSUME NEW s \in Snapshots, Marking(s), NEW p \in ReviewPaths
  PROVE  /\ Taken(s, p) \in Snapshots /\ Marking(Taken(s, p))
         /\ Taken(s, p).sources = s.sources \cup {p} /\ Taken(s, p).incomplete = s.incomplete
         /\ Counted(Taken(s, p)) = Counted(s)
<1>1. s.sources \cup {p} \in SUBSET ReviewPaths
  BY SnapshotFields
<1>2. /\ Taken(s, p).sources = s.sources \cup {p} /\ Taken(s, p).incomplete = s.incomplete
      /\ Taken(s, p).unreadable = s.unreadable /\ Taken(s, p).omitted = s.omitted
      /\ Taken(s, p).oversized = s.oversized /\ Taken(s, p).truncated = s.truncated
  BY DEF Taken, Snapshots
<1>3. Taken(s, p) \in Snapshots
  BY <1>1, FieldsWritten, 0 \in Nat DEF Taken
<1> QED
  BY <1>2, <1>3 DEF Marking, Counted

\* One file more is accounted for if it was counted, taken or is of no language.
LEMMA AccountOne ==
  ASSUME NEW s \in Snapshots, NEW s2 \in Snapshots, NEW t,
         NEW passed \in SUBSET ReviewPaths, NEW next \in SUBSET ReviewPaths,
         NEW p \in ReviewPaths, next \subseteq passed \cup {p},
         EntriesCounted(s, t, passed), s2.incomplete = s.incomplete,
         \/ s2.sources = s.sources /\ Counted(s2) = Counted(s) + 1
         \/ s2.sources = s.sources \cup {p} /\ Counted(s2) = Counted(s)
         \/ s2 = s /\ p \notin Present(t) \cap Supported
  PROVE  EntriesCounted(s2, t, next)
<1>1. Missed(s, t, passed) \in SUBSET ReviewPaths /\ Missed(s2, t, next) \in SUBSET ReviewPaths
  BY DEF Missed
<1>2. /\ Cardinality(Missed(s, t, passed)) \in Nat /\ Cardinality(Missed(s2, t, next)) \in Nat
      /\ IsFiniteSet(Missed(s, t, passed))
  BY <1>1, PathsFinite
<1>3. Counted(s) \in Nat
  BY SnapshotFields
<1>4. CASE s2.sources = s.sources /\ Counted(s2) = Counted(s) + 1
  <2>1. Missed(s2, t, next) \subseteq Missed(s, t, passed) \cup {p}
    BY <1>4 DEF Missed
  <2>2. Cardinality(Missed(s2, t, next)) <= Cardinality(Missed(s, t, passed)) + 1
    BY <1>1, <2>1, OneMore
  <2> QED BY <1>2, <1>3, <1>4, <2>2 DEF EntriesCounted
<1>5. CASE s2.sources = s.sources \cup {p} /\ Counted(s2) = Counted(s)
  <2>1. Missed(s2, t, next) \subseteq Missed(s, t, passed)
    BY <1>5 DEF Missed
  <2>2. Cardinality(Missed(s2, t, next)) <= Cardinality(Missed(s, t, passed))
    BY <1>2, <2>1, FS_Subset
  <2> QED BY <1>2, <1>3, <1>5, <2>2 DEF EntriesCounted
<1>6. CASE s2 = s /\ p \notin Present(t) \cap Supported
  <2>1. Missed(s2, t, next) \subseteq Missed(s, t, passed)
    BY <1>6 DEF Missed
  <2>2. Cardinality(Missed(s2, t, next)) <= Cardinality(Missed(s, t, passed))
    BY <1>2, <2>1, FS_Subset
  <2> QED BY <1>2, <1>3, <1>6, <2>2 DEF EntriesCounted
<1> QED
  BY <1>4, <1>5, <1>6

\* A cut counts what it leaves behind.
LEMMA AccountCut ==
  ASSUME NEW s \in Snapshots, Marking(s), NEW t,
         NEW passed \in SUBSET ReviewPaths, NEW next \in SUBSET ReviewPaths,
         NEW left \in SUBSET ReviewPaths,
         (Present(t) \cap Supported \cap next) \subseteq passed \cup left,
         EntriesCounted(s, t, passed)
  PROVE  EntriesCounted(Omitted(s, Cardinality(left)), t, next)
<1> DEFINE s2 == Omitted(s, Cardinality(left))
<1>1. Missed(s, t, passed) \in SUBSET ReviewPaths /\ Missed(s2, t, next) \in SUBSET ReviewPaths
  BY DEF Missed
<1>2. /\ Cardinality(Missed(s, t, passed)) \in Nat /\ Cardinality(Missed(s2, t, next)) \in Nat
      /\ Cardinality(left) \in Nat
  BY <1>1, PathsFinite
<1>3. Counted(s) \in Nat
  BY SnapshotFields
<1>4. /\ s2.sources = s.sources /\ s2.incomplete = s.incomplete
      /\ Counted(s2) = Counted(s) + Cardinality(left)
  BY <1>2, CountOmitted
<1> HIDE DEF s2
<1>5. Missed(s2, t, next) \subseteq Missed(s, t, passed) \cup left
  BY <1>4 DEF Missed
<1>6. Cardinality(Missed(s2, t, next)) <= Cardinality(Missed(s, t, passed)) + Cardinality(left)
  BY <1>1, <1>5, ManyMore
<1>7. EntriesCounted(s2, t, next)
  BY <1>2, <1>3, <1>4, <1>6 DEF EntriesCounted
<1> QED
  BY <1>7 DEF s2

\* A larger set that holds no other file is accounted for as well.
LEMMA AccountSame ==
  ASSUME NEW s, NEW t, NEW passed, NEW next,
         Present(t) \cap Supported \cap passed = Present(t) \cap Supported \cap next,
         EntriesCounted(s, t, passed)
  PROVE  EntriesCounted(s, t, next)
<1>1. Missed(s, t, passed) = Missed(s, t, next)
  BY DEF Missed
<1> QED
  BY <1>1 DEF EntriesCounted

\* from_index and from_tree take or count the blob of an entry.
LEMMA BlobAdded ==
  ASSUME NEW s \in Snapshots, Marking(s), NEW t, NEW p \in Present(t),
         s.sources \subseteq Present(t) \cap Supported,
         NEW passed \in SUBSET ReviewPaths, NEW next \in SUBSET ReviewPaths,
         next \subseteq passed \cup {p}, EntriesCounted(s, t, passed)
  PROVE  LET s2 == AddBlob(t, p, s)
         IN /\ s2 \in Snapshots /\ Marking(s2)
            /\ s2.sources \subseteq Present(t) \cap Supported
            /\ EntriesCounted(s2, t, next)
<1>1. p \in ReviewPaths
  BY DEF Present
<1>2. ASSUME NEW s2 \in Snapshots, Marking(s2),
             s2.sources \subseteq Present(t) \cap Supported, s2.incomplete = s.incomplete,
             \/ s2.sources = s.sources /\ Counted(s2) = Counted(s) + 1
             \/ s2.sources = s.sources \cup {p} /\ Counted(s2) = Counted(s)
             \/ s2 = s /\ p \notin Present(t) \cap Supported
      PROVE  /\ s2 \in Snapshots /\ Marking(s2)
             /\ s2.sources \subseteq Present(t) \cap Supported
             /\ EntriesCounted(s2, t, next)
  BY <1>1, <1>2, AccountOne
<1>3. CASE p \notin Supported
  BY <1>2, <1>3 DEF AddBlob
<1>4. CASE p \in Supported /\ t[p].size > MaxBlobBytes
  BY <1>2, <1>4, CountOversized DEF AddBlob
<1>5. CASE p \in Supported /\ ~(t[p].size > MaxBlobBytes) /\ accepted + t[p].size > MaxSnapshotBytes
  <2>1. 1 \in Nat
    OBVIOUS
  <2> QED BY <1>2, <1>5, <2>1, CountOmitted DEF AddBlob
<1>6. CASE p \in Supported /\ ~(t[p].size > MaxBlobBytes)
             /\ ~(accepted + t[p].size > MaxSnapshotBytes) /\ t[p].text
  <2>1. AddBlob(t, p, s) = Taken(s, p)
    BY <1>6 DEF AddBlob
  <2> QED BY <1>1, <1>2, <1>6, <2>1, TakeSource
<1>7. CASE p \in Supported /\ ~(t[p].size > MaxBlobBytes)
             /\ ~(accepted + t[p].size > MaxSnapshotBytes) /\ ~t[p].text
  <2>1. AddBlob(t, p, s) = Unreadable(s)
    BY <1>7 DEF AddBlob
  <2> QED BY <1>2, <2>1, CountUnreadable
<1> QED
  BY <1>3, <1>4, <1>5, <1>6, <1>7

-------------------------------------------------------------------------------
(***************************************************************************)
(* The steps of a review.                                                  *)
(***************************************************************************)
LEMMA InputsKept ==
  ASSUME UNCHANGED reviewInputs
  PROVE  /\ staged' = staged /\ reviewed' = reviewed /\ diffBase' = diffBase
         /\ changedFiles' = changedFiles /\ DiffTree' = DiffTree
BY DEF reviewInputs, DiffTree

\* Before the report only the snapshots and HEAD are to be kept.
LEMMA NotReportedYet ==
  ASSUME ReviewInv, UNCHANGED reviewInputs, taking' # "reported",
         ReviewTypes', SnapshotsInv', HeadInv'
  PROVE  ReviewInv'
<1>1. (changedFiles \in ChangeSets(DiffTree, reviewed))'
  BY InputsKept DEF ReviewInv
<1>2. ReviewTrueOrMarked' /\ ReviewCompleteOrMarked'
  BY DEF ReviewTrueOrMarked, ReviewCompleteOrMarked
<1> QED
  BY <1>1, <1>2 DEF ReviewInv

\* A step of the snapshot of the current sources.
LEMMA NowKeeps ==
  ASSUME ReviewInv, UNCHANGED <<reviewInputs, headTree, baseTree, firstCommit, then>>,
         taking \in {"current", "reading"}, taking' \in {"current", "reading"},
         entry' \in 1..(PathCount + 1), found' \in SUBSET ReviewPaths, now' \in Snapshots,
         Marking(now)', (now.sources \subseteq Present(reviewed) \cap Supported)',
         EntriesCounted(now, reviewed, PassedNow)' \/ walkFailed', staged => ~walkFailed',
         found' \subseteq Present(reviewed)
  PROVE  ReviewInv'
<1>1. /\ staged' = staged /\ reviewed' = reviewed /\ diffBase' = diffBase
      /\ DiffTree' = DiffTree /\ headTree' = headTree /\ baseTree' = baseTree
      /\ firstCommit' = firstCommit /\ then' = then
  BY InputsKept
<1>2. ReviewTypes /\ SnapshotsInv /\ HeadInv
  BY DEF ReviewInv
<1>3. ReviewTypes'
  BY <1>1, <1>2 DEF ReviewTypes
<1>4. PassedThen = {} /\ PassedThen' = {}
  BY DEF PassedThen
<1>5. EntriesCounted(then, baseTree, PassedThen)'
  BY <1>1, <1>2, <1>4 DEF SnapshotsInv, EntriesCounted, Missed, Counted, Present
<1>6. SnapshotsInv'
  BY <1>1, <1>2, <1>5 DEF SnapshotsInv, Marking, Present
<1>7. HeadInv'
  BY <1>1, <1>2 DEF HeadInv
<1> QED
  BY <1>1, <1>3, <1>6, <1>7, NotReportedYet

\* A step of the snapshot of the base tree.
LEMMA ThenKeeps ==
  ASSUME ReviewInv, UNCHANGED <<reviewInputs, headTree, baseTree, firstCommit, now, found,
                                walkFailed>>,
         taking = "base", taking' = "base",
         entry' \in 1..(PathCount + 1), then' \in Snapshots,
         Marking(then)', (then.sources \subseteq Present(baseTree) \cap Supported)',
         EntriesCounted(then, baseTree, PassedThen)'
  PROVE  ReviewInv'
<1>1. /\ staged' = staged /\ reviewed' = reviewed /\ diffBase' = diffBase
      /\ DiffTree' = DiffTree /\ headTree' = headTree /\ baseTree' = baseTree
      /\ firstCommit' = firstCommit /\ now' = now /\ found' = found
      /\ walkFailed' = walkFailed
  BY InputsKept
<1>2. ReviewTypes /\ SnapshotsInv /\ HeadInv
  BY DEF ReviewInv
<1>3. ReviewTypes'
  BY <1>1, <1>2 DEF ReviewTypes
<1>4. PassedNow = ReviewPaths /\ PassedNow' = ReviewPaths
  BY DEF PassedNow
<1>5. EntriesCounted(now, reviewed, PassedNow)' \/ walkFailed'
  BY <1>1, <1>2, <1>4 DEF SnapshotsInv, EntriesCounted, Missed, Counted, Present
<1>6. SnapshotsInv'
  BY <1>1, <1>2, <1>5 DEF SnapshotsInv, Marking, Present
<1>7. HeadInv'
  BY <1>1, <1>2 DEF HeadInv
<1> QED
  BY <1>1, <1>3, <1>6, <1>7, NotReportedYet

\* Entries are visited in their order, and the last one ends the visit.
LEMMA EntryKept ==
  ASSUME ReviewTypes, entry \in ReviewPaths
  PROVE  /\ entry \in Nat /\ entry + 1 \in 1..(PathCount + 1)
         /\ PathCount \in Nat /\ PathCount + 1 \in 1..(PathCount + 1)
         /\ \A p \in ReviewPaths : p < PathCount + 1 /\ (p < entry + 1 <=> p < entry \/ p = entry)
BY ReviewAssumption DEF ReviewTypes, ReviewPaths

\* The entries of a tree are paths.
LEMMA PresentPaths ==
  ASSUME NEW t
  PROVE  Present(t) \subseteq ReviewPaths
BY DEF Present

\* What a cut leaves behind is the entries from here on.
LEMMA LeftCounted ==
  ASSUME NEW t, NEW p
  PROVE  Left(t, p) = Cardinality({q \in Present(t) : q >= p})
BY DEF Left

\* The deadline passes.
LEMMA NothingFailsInTime ==
  ASSUME ReviewInv, TimePasses
  PROVE  ReviewInv'
<1>1. /\ UNCHANGED <<reviewInputs, headTree, baseTree, taking, entry, found, now, then,
                     walkFailed, firstCommit>>
      /\ taking # "reported"
  BY DEF TimePasses
<1>2. /\ staged' = staged /\ reviewed' = reviewed /\ diffBase' = diffBase
      /\ DiffTree' = DiffTree
  BY <1>1, InputsKept
<1>3. ReviewTypes' /\ HeadInv'
  BY <1>1, <1>2 DEF ReviewInv, ReviewTypes, HeadInv
<1>4. PassedNow' = PassedNow /\ PassedThen' = PassedThen
  BY <1>1, <1>2 DEF PassedNow, PassedThen
<1>5. SnapshotsInv'
  BY <1>1, <1>2, <1>4 DEF ReviewInv, SnapshotsInv, EntriesCounted, Missed, Counted, Present, Marking
<1> QED
  BY <1>1, <1>3, <1>5, NotReportedYet

\* Another process commits what is reviewed.
LEMMA CommitKeeps ==
  ASSUME ReviewInv, Commit
  PROVE  ReviewInv'
<1>1. /\ UNCHANGED <<reviewInputs, baseTree, taking, entry, found, now, then, walkFailed>>
      /\ taking # "reported" /\ headTree # reviewed /\ headTree' = reviewed
      /\ firstCommit' = (diffBase = {} /\ taking \in {"current", "reading"})
  BY DEF Commit
<1>2. /\ staged' = staged /\ reviewed' = reviewed /\ diffBase' = diffBase
      /\ DiffTree' = DiffTree
  BY <1>1, InputsKept
<1>3. ReviewTypes'
  BY <1>1, <1>2 DEF ReviewInv, ReviewTypes
<1>4. HeadInv'
  BY <1>1, <1>2 DEF ReviewInv, HeadInv
<1>5. PassedNow' = PassedNow /\ PassedThen' = PassedThen
  BY <1>1, <1>2 DEF PassedNow, PassedThen
<1>6. SnapshotsInv'
  BY <1>1, <1>2, <1>5 DEF ReviewInv, SnapshotsInv, EntriesCounted, Missed, Counted, Present, Marking
<1> QED
  BY <1>1, <1>3, <1>4, <1>6, NotReportedYet

\* The entry at hand of a tree: the snapshot is cut there, or goes on.
LEMMA BlobStepKeeps ==
  ASSUME ReviewTypes, NEW t, NEW s \in Snapshots, NEW s2, NEW cut,
         entry \in Present(t), BlobStep(t, s, s2, cut),
         Marking(s), s.sources \subseteq Present(t) \cap Supported,
         EntriesCounted(s, t, {p \in ReviewPaths : p < entry}),
         /\ cut \in Snapshots /\ Marking(cut) /\ cut.sources = s.sources
         /\ EntriesCounted(cut, t, ReviewPaths)
  PROVE  /\ entry' \in 1..(PathCount + 1) /\ found' = found
         /\ s2 \in Snapshots /\ Marking(s2) /\ s2.sources \subseteq Present(t) \cap Supported
         /\ EntriesCounted(s2, t, {p \in ReviewPaths : p < entry'})
<1>1. entry \in ReviewPaths /\ found' = found
  BY PresentPaths DEF BlobStep
<1>2. CASE OverBudget(t)
  <2>1. s2 = cut /\ entry' = PathCount + 1
    BY <1>2 DEF BlobStep
  <2>2. {p \in ReviewPaths : p < entry'} = ReviewPaths
    BY <1>1, <2>1, EntryKept
  <2> QED BY <1>1, <2>1, <2>2, EntryKept
<1>3. CASE ~OverBudget(t)
  <2>1. s2 = AddBlob(t, entry, s) /\ entry' = entry + 1
    BY <1>3 DEF BlobStep
  <2>2. {p \in ReviewPaths : p < entry'} \subseteq {p \in ReviewPaths : p < entry} \cup {entry}
    BY <1>1, <2>1, EntryKept
  <2> QED BY <1>1, <2>1, <2>2, EntryKept, BlobAdded
<1> QED
  BY <1>2, <1>3

\* A path without an entry is passed.
LEMMA NoEntryKeeps ==
  ASSUME ReviewTypes, NEW t, NoEntry(t), NEW s,
         EntriesCounted(s, t, {p \in ReviewPaths : p < entry})
  PROVE  /\ entry' \in 1..(PathCount + 1)
         /\ EntriesCounted(s, t, {p \in ReviewPaths : p < entry'})
<1>1. entry \in ReviewPaths /\ entry \notin Present(t) /\ entry' = entry + 1
  BY DEF NoEntry
<1>2. Present(t) \cap Supported \cap {p \in ReviewPaths : p < entry'}
        = Present(t) \cap Supported \cap {p \in ReviewPaths : p < entry}
  BY <1>1, EntryKept
<1> QED
  BY <1>1, <1>2, EntryKept, AccountSame

\* from_index, entry by entry.
LEMMA ReadIndexKeeps ==
  ASSUME ReviewInv, ReadIndex
  PROVE  ReviewInv'
<1>1. /\ taking = "current" /\ staged /\ taking' = "current"
      /\ UNCHANGED <<reviewInputs, headTree, baseTree, firstCommit, then>>
      /\ walkFailed' = walkFailed
      /\ \/ BlobStep(reviewed, now, now', CutIndex(now))
         \/ NoEntry(reviewed) /\ UNCHANGED <<now, accepted, found>>
  BY DEF ReadIndex
<1>2. staged' = staged /\ reviewed' = reviewed
  BY <1>1, InputsKept
<1>3. ReviewTypes /\ SnapshotsInv
  BY DEF ReviewInv
<1>4. /\ PassedNow = {p \in ReviewPaths : p < entry}
      /\ PassedNow' = {p \in ReviewPaths : p < entry'}
  BY <1>1, <1>2 DEF PassedNow
<1>5. /\ now \in Snapshots /\ Marking(now) /\ found \in SUBSET ReviewPaths
      /\ now.sources \subseteq Present(reviewed) \cap Supported
      /\ EntriesCounted(now, reviewed, {p \in ReviewPaths : p < entry}) /\ ~walkFailed
  BY <1>1, <1>3, <1>4 DEF ReviewTypes, SnapshotsInv
<1>6. /\ entry' \in 1..(PathCount + 1) /\ found' = found
      /\ now' \in Snapshots /\ Marking(now')
      /\ now'.sources \subseteq Present(reviewed) \cap Supported
      /\ EntriesCounted(now', reviewed, {p \in ReviewPaths : p < entry'})
  <2>1. CASE entry \in Present(reviewed) /\ BlobStep(reviewed, now, now', CutIndex(now))
    <3> DEFINE left == {q \in Present(reviewed) : q >= entry}
    <3>1. left \in SUBSET ReviewPaths /\ Cardinality(left) \in Nat
      BY PresentPaths, PathsFinite
    <3>2. CutIndex(now) = Omitted(now, Cardinality(left))
      BY LeftCounted DEF CutIndex
    <3>3. \A p \in ReviewPaths : p < entry \/ p >= entry
      BY <1>3, ReviewAssumption DEF ReviewPaths, ReviewTypes
    <3>4. Present(reviewed) \cap Supported \cap ReviewPaths
            \subseteq {p \in ReviewPaths : p < entry} \cup left
      BY <3>3
    <3> HIDE DEF left
    <3>5. /\ CutIndex(now) \in Snapshots /\ Marking(CutIndex(now))
          /\ CutIndex(now).sources = now.sources
      BY <1>5, <3>1, <3>2, CountOmitted
    <3>6. EntriesCounted(CutIndex(now), reviewed, ReviewPaths)
      <4>1. /\ {p \in ReviewPaths : p < entry} \in SUBSET ReviewPaths
            /\ ReviewPaths \in SUBSET ReviewPaths
        OBVIOUS
      <4> QED BY <1>5, <3>1, <3>2, <3>4, <4>1, AccountCut
    <3> QED BY <1>3, <1>5, <2>1, <3>5, <3>6, BlobStepKeeps
  <2>2. CASE NoEntry(reviewed) /\ UNCHANGED <<now, accepted, found>>
    BY <1>3, <1>5, <2>2, NoEntryKeeps
  <2> QED BY <1>1, <2>1, <2>2 DEF BlobStep
<1>7. Marking(now)'
  BY <1>6 DEF Marking
<1>8. (now.sources \subseteq Present(reviewed) \cap Supported)'
  BY <1>2, <1>6 DEF Present
<1>9. EntriesCounted(now, reviewed, PassedNow)'
  BY <1>2, <1>4, <1>6 DEF EntriesCounted, Missed, Counted, Present
<1>10. found' \in SUBSET ReviewPaths /\ found' \subseteq Present(reviewed)
  BY <1>3, <1>5, <1>6 DEF SnapshotsInv
<1> QED
  BY <1>1, <1>5, <1>6, <1>7, <1>8, <1>9, <1>10, NowKeeps

\* from_tree, entry by entry.
LEMMA ReadBaseKeeps ==
  ASSUME ReviewInv, ReadBase
  PROVE  ReviewInv'
<1>1. /\ taking = "base" /\ taking' = "base"
      /\ UNCHANGED <<reviewInputs, headTree, baseTree, firstCommit, now, walkFailed>>
      /\ \/ BlobStep(baseTree, then, then', CutTree(then))
         \/ NoEntry(baseTree) /\ UNCHANGED <<then, accepted, found>>
  BY DEF ReadBase
<1>2. ReviewTypes /\ SnapshotsInv
  BY DEF ReviewInv
<1>3. /\ PassedThen = {p \in ReviewPaths : p < entry}
      /\ PassedThen' = {p \in ReviewPaths : p < entry'}
  BY <1>1 DEF PassedThen
<1>4. /\ then \in Snapshots /\ Marking(then)
      /\ then.sources \subseteq Present(baseTree) \cap Supported
      /\ EntriesCounted(then, baseTree, {p \in ReviewPaths : p < entry})
  BY <1>2, <1>3 DEF ReviewTypes, SnapshotsInv
<1>5. /\ entry' \in 1..(PathCount + 1) /\ found' = found
      /\ then' \in Snapshots /\ Marking(then')
      /\ then'.sources \subseteq Present(baseTree) \cap Supported
      /\ EntriesCounted(then', baseTree, {p \in ReviewPaths : p < entry'})
  <2>1. CASE entry \in Present(baseTree) /\ BlobStep(baseTree, then, then', CutTree(then))
    <3>1. /\ CutTree(then) \in Snapshots /\ Marking(CutTree(then))
          /\ CutTree(then).sources = then.sources /\ CutTree(then).incomplete
      <4>1. /\ Omitted(then, 1) \in Snapshots /\ Marking(Omitted(then, 1))
            /\ Omitted(then, 1).sources = then.sources
        BY <1>4, 1 \in Nat, CountOmitted
      <4> QED BY <1>4, <4>1, NoteIncomplete DEF CutTree
    <3>2. EntriesCounted(CutTree(then), baseTree, ReviewPaths)
      BY <3>1 DEF EntriesCounted
    <3> QED BY <1>2, <1>4, <2>1, <3>1, <3>2, BlobStepKeeps
  <2>2. CASE NoEntry(baseTree) /\ UNCHANGED <<then, accepted, found>>
    BY <1>2, <1>4, <2>2, NoEntryKeeps
  <2> QED BY <1>1, <2>1, <2>2 DEF BlobStep
<1>6. Marking(then)'
  BY <1>5 DEF Marking
<1>7. (then.sources \subseteq Present(baseTree) \cap Supported)'
  BY <1>1, <1>5 DEF Present
<1>8. EntriesCounted(then, baseTree, PassedThen)'
  BY <1>1, <1>3, <1>5 DEF EntriesCounted, Missed, Counted, Present
<1> QED
  BY <1>1, <1>5, <1>6, <1>7, <1>8, ThenKeeps

\* The walk.  PassedNow are the paths that it went by without finding them.
LEMMA WalkFileKeeps ==
  ASSUME ReviewInv, WalkFile
  PROVE  ReviewInv'
<1>1. /\ taking = "current" /\ ~staged /\ taking' = "current" /\ entry \in Present(reviewed)
      /\ UNCHANGED <<reviewInputs, headTree, baseTree, firstCommit, then>>
  BY DEF WalkFile
<1>2. staged' = staged /\ reviewed' = reviewed
  BY <1>1, InputsKept
<1>3. ReviewTypes /\ SnapshotsInv
  BY DEF ReviewInv
<1>4. /\ PassedNow = {p \in ReviewPaths : p < entry /\ p \notin found}
      /\ PassedNow' = {p \in ReviewPaths : p < entry' /\ p \notin found'}
  BY <1>1, <1>2 DEF PassedNow
<1>5. /\ now \in Snapshots /\ Marking(now) /\ found \in SUBSET ReviewPaths
      /\ now.sources \subseteq Present(reviewed) \cap Supported
      /\ EntriesCounted(now, reviewed, PassedNow) \/ walkFailed
      /\ entry \in ReviewPaths
  BY <1>1, <1>3, PresentPaths DEF ReviewTypes, SnapshotsInv
<1>6. ASSUME entry' \in 1..(PathCount + 1), found' \in SUBSET ReviewPaths,
             found' \subseteq found \cup {entry},
             now' \in Snapshots, Marking(now'), now'.sources = now.sources,
             EntriesCounted(now', reviewed, PassedNow') \/ walkFailed'
      PROVE  ReviewInv'
  <2>1. Marking(now)'
    BY <1>6 DEF Marking
  <2>2. (now.sources \subseteq Present(reviewed) \cap Supported)'
    BY <1>2, <1>5, <1>6 DEF Present
  <2>3. EntriesCounted(now, reviewed, PassedNow)' \/ walkFailed'
    BY <1>2, <1>6 DEF EntriesCounted, Missed, Counted, Present
  <2>4. found' \subseteq Present(reviewed)
    BY <1>1, <1>3, <1>6 DEF SnapshotsInv
  <2> QED BY <1>1, <1>6, <2>1, <2>2, <2>3, <2>4, NowKeeps
<1>7. CASE now' \in {Incomplete(now), Incomplete(Omitted(now, 1))}
             /\ entry' = PathCount + 1 /\ found' = found
  <2>1. /\ now' \in Snapshots /\ Marking(now') /\ now'.sources = now.sources
        /\ now'.incomplete
    BY <1>5, <1>7, 1 \in Nat, CountOmitted, NoteIncomplete
  <2>2. EntriesCounted(now', reviewed, PassedNow')
    BY <2>1 DEF EntriesCounted
  <2> QED BY <1>3, <1>5, <1>6, <1>7, <2>1, <2>2, EntryKept
<1>8. CASE entry' = entry + 1 /\ AcceptFile(entry) /\ UNCHANGED walkFailed
  <2>1. /\ now' \in Snapshots /\ Marking(now') /\ now'.sources = now.sources
        /\ now'.incomplete = now.incomplete /\ found' \in SUBSET ReviewPaths
        /\ \/ found' = found \cup {entry} /\ now' = now
           \/ found' = found /\ Counted(now') = Counted(now) + 1
    BY <1>5, <1>8, 1 \in Nat, CountOmitted, CountOversized DEF AcceptFile
  <2>2. PassedNow \in SUBSET ReviewPaths /\ PassedNow' \in SUBSET ReviewPaths
    BY <1>4
  <2>3. ASSUME EntriesCounted(now, reviewed, PassedNow)
        PROVE  EntriesCounted(now', reviewed, PassedNow')
    <3>1. CASE found' = found \cup {entry} /\ now' = now
      <4>1. PassedNow' = PassedNow \ {entry}
        BY <1>3, <1>4, <1>5, <1>8, <3>1, EntryKept
      <4>2. PassedNow' = PassedNow
        BY <1>3, <1>4, <1>5, <4>1, EntryKept
      <4> QED BY <2>3, <3>1, <4>2
    <3>2. CASE found' = found /\ Counted(now') = Counted(now) + 1
      <4>1. PassedNow' \subseteq PassedNow \cup {entry}
        BY <1>3, <1>4, <1>5, <1>8, <3>2, EntryKept
      <4> QED BY <1>5, <2>1, <2>2, <2>3, <3>2, <4>1, AccountOne
    <3> QED BY <2>1, <3>1, <3>2
  <2> QED BY <1>3, <1>5, <1>6, <1>8, <2>1, <2>3, EntryKept
<1>9. CASE entry' = entry + 1 /\ walkFailed' = TRUE /\ UNCHANGED <<now, accepted, found>>
  BY <1>3, <1>5, <1>6, <1>9, EntryKept
<1> QED
  BY <1>7, <1>8, <1>9 DEF WalkFile

\* The walk passes a path without a file.
LEMMA PassGapKeeps ==
  ASSUME ReviewInv, PassGap
  PROVE  ReviewInv'
<1>1. /\ taking = "current" /\ ~staged /\ taking' = "current" /\ NoEntry(reviewed)
      /\ UNCHANGED <<reviewInputs, headTree, baseTree, firstCommit, then, now, found,
                     walkFailed>>
  BY DEF PassGap
<1>2. staged' = staged /\ reviewed' = reviewed /\ found' = found /\ now' = now
  BY <1>1, InputsKept
<1>3. ReviewTypes /\ SnapshotsInv
  BY DEF ReviewInv
<1>4. entry \in ReviewPaths /\ entry \notin Present(reviewed) /\ entry' = entry + 1
  BY <1>1 DEF NoEntry
<1>5. /\ PassedNow = {p \in ReviewPaths : p < entry /\ p \notin found}
      /\ PassedNow' = {p \in ReviewPaths : p < entry' /\ p \notin found}
  BY <1>1, <1>2 DEF PassedNow
<1>6. Present(reviewed) \cap Supported \cap PassedNow'
        = Present(reviewed) \cap Supported \cap PassedNow
  BY <1>3, <1>4, <1>5, EntryKept
<1>7. EntriesCounted(now, reviewed, PassedNow') \/ walkFailed
  BY <1>3, <1>6, AccountSame DEF SnapshotsInv
<1>8. EntriesCounted(now, reviewed, PassedNow)' \/ walkFailed'
  BY <1>1, <1>2, <1>7 DEF EntriesCounted, Missed, Counted, Present
<1>9. /\ now' \in Snapshots /\ found' \in SUBSET ReviewPaths
      /\ Marking(now)' /\ (now.sources \subseteq Present(reviewed) \cap Supported)'
      /\ entry' \in 1..(PathCount + 1)
  BY <1>2, <1>3, <1>4, EntryKept DEF ReviewTypes, SnapshotsInv, Marking, Present
<1> QED
  BY <1>1, <1>2, <1>3, <1>8, <1>9, NowKeeps DEF SnapshotsInv

\* The walk ends, perhaps because its time was over.
LEMMA EndWalkKeeps ==
  ASSUME ReviewInv, EndWalk
  PROVE  ReviewInv'
<1>1. /\ taking = "current" /\ ~staged /\ taking' = "reading"
      /\ entry > PathCount /\ entry' = 1
      /\ now' = IF pastDeadline THEN Incomplete(now) ELSE now
      /\ UNCHANGED <<reviewInputs, headTree, baseTree, firstCommit, then, found, walkFailed>>
  BY DEF EndWalk
<1>2. staged' = staged /\ reviewed' = reviewed /\ found' = found
  BY <1>1, InputsKept
<1>3. ReviewTypes /\ SnapshotsInv
  BY DEF ReviewInv
<1>4. PathCount \in Nat /\ entry \in Nat /\ 1 \in 1..(PathCount + 1)
  BY <1>3, ReviewAssumption DEF ReviewTypes
<1>5. PassedNow' = PassedNow
  <2>1. \A p \in ReviewPaths : p < entry /\ ~(p < 1)
    BY <1>1, <1>4 DEF ReviewPaths
  <2> QED BY <1>1, <1>2, <2>1 DEF PassedNow
<1>6. /\ now \in Snapshots /\ Marking(now) /\ found \in SUBSET ReviewPaths
      /\ now.sources \subseteq Present(reviewed) \cap Supported
      /\ EntriesCounted(now, reviewed, PassedNow) \/ walkFailed
  BY <1>3 DEF ReviewTypes, SnapshotsInv
<1>7. /\ now' \in Snapshots /\ Marking(now') /\ now'.sources = now.sources
      /\ now' = now \/ now'.incomplete
  BY <1>1, <1>6, NoteIncomplete
<1>8. EntriesCounted(now', reviewed, PassedNow) \/ walkFailed
  BY <1>6, <1>7 DEF EntriesCounted
<1>9. EntriesCounted(now, reviewed, PassedNow)' \/ walkFailed'
  BY <1>1, <1>2, <1>5, <1>8 DEF EntriesCounted, Missed, Counted, Present
<1>10. Marking(now)' /\ (now.sources \subseteq Present(reviewed) \cap Supported)'
  BY <1>2, <1>6, <1>7 DEF Marking, Present
<1> QED
  BY <1>1, <1>2, <1>3, <1>4, <1>6, <1>7, <1>9, <1>10, NowKeeps DEF SnapshotsInv

\* A file that the walk found is read, or left out by a limit.
LEMMA ReadFoundKeeps ==
  ASSUME ReviewInv, ReadFound
  PROVE  ReviewInv'
<1>1. /\ taking = "reading" /\ taking' = "reading" /\ entry \in found
      /\ UNCHANGED <<reviewInputs, headTree, baseTree, firstCommit, then, found, walkFailed>>
  BY DEF ReadFound
<1>2. staged' = staged /\ reviewed' = reviewed /\ found' = found
  BY <1>1, InputsKept
<1>3. ReviewTypes /\ SnapshotsInv
  BY DEF ReviewInv
<1>4. /\ PassedNow = {p \in ReviewPaths : p \notin found \/ p < entry}
      /\ PassedNow' = {p \in ReviewPaths : p \notin found \/ p < entry'}
  BY <1>1, <1>2 DEF PassedNow
<1>5. /\ now \in Snapshots /\ Marking(now) /\ found \in SUBSET ReviewPaths
      /\ now.sources \subseteq Present(reviewed) \cap Supported
      /\ EntriesCounted(now, reviewed, PassedNow) \/ walkFailed
      /\ entry \in ReviewPaths
  BY <1>1, <1>3 DEF ReviewTypes, SnapshotsInv
<1>6. ASSUME entry' \in 1..(PathCount + 1), now' \in Snapshots, Marking(now'),
             now'.sources \subseteq Present(reviewed) \cap Supported,
             EntriesCounted(now', reviewed, PassedNow') \/ walkFailed
      PROVE  ReviewInv'
  <2>1. Marking(now)' /\ (now.sources \subseteq Present(reviewed) \cap Supported)'
    BY <1>2, <1>6 DEF Marking, Present
  <2>2. EntriesCounted(now, reviewed, PassedNow)' \/ walkFailed'
    BY <1>1, <1>2, <1>6 DEF EntriesCounted, Missed, Counted, Present
  <2> QED BY <1>1, <1>2, <1>3, <1>5, <1>6, <2>1, <2>2, NowKeeps DEF SnapshotsInv
<1>7. PassedNow \in SUBSET ReviewPaths /\ PassedNow' \in SUBSET ReviewPaths
  BY <1>4
<1>8. CASE pastDeadline
  <2> DEFINE left == {p \in found : p >= entry}
  <2>1. now' = Omitted(now, Cardinality(left)) /\ entry' = PathCount + 1
    BY <1>8 DEF ReadFound
  <2>2. left \in SUBSET ReviewPaths /\ Cardinality(left) \in Nat
    BY <1>5, PathsFinite
  <2>3. (Present(reviewed) \cap Supported \cap PassedNow') \subseteq PassedNow \cup left
    <3>1. \A p \in ReviewPaths : p < entry \/ p >= entry
      BY <1>3, ReviewAssumption DEF ReviewPaths, ReviewTypes
    <3> QED BY <1>4, <3>1
  <2> HIDE DEF left
  <2>4. /\ now' \in Snapshots /\ Marking(now') /\ now'.sources = now.sources
    BY <1>5, <2>1, <2>2, CountOmitted
  <2>5. EntriesCounted(now', reviewed, PassedNow') \/ walkFailed
    BY <1>5, <1>7, <2>1, <2>2, <2>3, AccountCut
  <2> QED BY <1>3, <1>5, <1>6, <2>1, <2>4, <2>5, EntryKept
<1>9. CASE ~pastDeadline
  <2>1. /\ entry' = entry + 1
        /\ \/ entry \notin Supported /\ now' = now
           \/ entry \in Supported /\ now' = Unreadable(now)
           \/ entry \in Supported /\ reviewed[entry].text /\ now' = Taken(now, entry)
    BY <1>9 DEF ReadFound
  <2>2. PassedNow' \subseteq PassedNow \cup {entry}
    BY <1>3, <1>4, <1>5, <2>1, EntryKept
  <2>3. CASE entry \notin Supported /\ now' = now
    <3>1. EntriesCounted(now', reviewed, PassedNow') \/ walkFailed
      BY <1>5, <1>7, <2>2, <2>3, AccountOne
    <3> QED BY <1>3, <1>5, <1>6, <2>1, <2>3, <3>1, EntryKept
  <2>4. CASE entry \in Supported /\ now' = Unreadable(now)
    <3>1. /\ now' \in Snapshots /\ Marking(now') /\ now'.sources = now.sources
          /\ now'.incomplete = now.incomplete /\ Counted(now') = Counted(now) + 1
      BY <1>5, <2>4, CountUnreadable
    <3>2. EntriesCounted(now', reviewed, PassedNow') \/ walkFailed
      BY <1>5, <1>7, <2>2, <3>1, AccountOne
    <3> QED BY <1>3, <1>5, <1>6, <2>1, <3>1, <3>2, EntryKept
  <2>5. CASE entry \in Supported /\ reviewed[entry].text /\ now' = Taken(now, entry)
    <3>1. /\ now' \in Snapshots /\ Marking(now') /\ now'.sources = now.sources \cup {entry}
          /\ now'.incomplete = now.incomplete /\ Counted(now') = Counted(now)
      BY <1>5, <2>5, TakeSource
    <3>2. EntriesCounted(now', reviewed, PassedNow') \/ walkFailed
      BY <1>5, <1>7, <2>2, <3>1, AccountOne
    <3>3. entry \in Present(reviewed)
      BY <1>3, <1>1 DEF SnapshotsInv
    <3> QED BY <1>3, <1>5, <1>6, <2>1, <2>5, <3>1, <3>2, <3>3, EntryKept
  <2> QED BY <2>1, <2>3, <2>4, <2>5
<1> QED
  BY <1>8, <1>9

\* The reading passes what the walk did not find.
LEMMA PassUnfoundKeeps ==
  ASSUME ReviewInv, PassUnfound
  PROVE  ReviewInv'
<1>1. /\ taking = "reading" /\ taking' = "reading"
      /\ entry \in ReviewPaths /\ entry \notin found /\ entry' = entry + 1
      /\ UNCHANGED <<reviewInputs, headTree, baseTree, firstCommit, then, now, found,
                     walkFailed>>
  BY DEF PassUnfound
<1>2. staged' = staged /\ reviewed' = reviewed /\ found' = found /\ now' = now
  BY <1>1, InputsKept
<1>3. ReviewTypes /\ SnapshotsInv
  BY DEF ReviewInv
<1>4. PassedNow' = PassedNow
  BY <1>1, <1>2, <1>3, EntryKept DEF PassedNow
<1>5. EntriesCounted(now, reviewed, PassedNow)' \/ walkFailed'
  BY <1>1, <1>2, <1>3, <1>4 DEF SnapshotsInv, EntriesCounted, Missed, Counted, Present
<1>6. /\ now' \in Snapshots /\ found' \in SUBSET ReviewPaths
      /\ Marking(now)' /\ (now.sources \subseteq Present(reviewed) \cap Supported)'
      /\ entry' \in 1..(PathCount + 1)
  BY <1>1, <1>2, <1>3, EntryKept DEF ReviewTypes, SnapshotsInv, Marking, Present
<1> QED
  BY <1>1, <1>3, <1>5, <1>6, NowKeeps DEF SnapshotsInv

\* The base of a diff is the tree that it was taken from; if HEAD was unborn then,
\* it is whatever HEAD is now.
LEMMA TurnToBaseKeeps ==
  ASSUME ReviewInv, TurnToBase
  PROVE  ReviewInv'
<1>1. /\ taking \in {"current", "reading"} /\ taking' = "base" /\ entry' = 1
      /\ taking = (IF staged THEN "current" ELSE "reading") /\ entry > PathCount
      /\ baseTree' = ResolveBase
      /\ UNCHANGED <<reviewInputs, headTree, found, now, then, walkFailed, firstCommit>>
  BY DEF TurnToBase
<1>2. /\ staged' = staged /\ reviewed' = reviewed /\ diffBase' = diffBase
      /\ DiffTree' = DiffTree
  BY <1>1, InputsKept
<1>3. ReviewTypes /\ SnapshotsInv /\ HeadInv
  BY DEF ReviewInv
<1>4. /\ baseTree' \in AllTrees
      /\ ~firstCommit => baseTree' = DiffTree
  BY <1>1, <1>3 DEF ReviewTypes, HeadInv, ResolveBase, DiffTree
<1>5. PathCount \in Nat /\ entry \in Nat /\ 1 \in 1..(PathCount + 1)
  BY <1>3, ReviewAssumption DEF ReviewTypes
<1>6. ReviewTypes'
  BY <1>1, <1>2, <1>3, <1>4, <1>5 DEF ReviewTypes
<1>7. HeadInv'
  BY <1>1, <1>2, <1>3, <1>4 DEF HeadInv
<1>8. SnapshotsInv'
  <2>1. \A p \in ReviewPaths : p < entry /\ ~(p < 1)
    BY <1>1, <1>5 DEF ReviewPaths
  <2>2. PassedNow = ReviewPaths /\ PassedNow' = ReviewPaths /\ PassedThen' = {}
    BY <1>1, <1>2, <2>1 DEF PassedNow, PassedThen
  <2>3. EntriesCounted(now, reviewed, PassedNow)' \/ walkFailed'
    BY <1>1, <1>2, <1>3, <2>2 DEF SnapshotsInv, EntriesCounted, Missed, Counted, Present
  <2>4. EntriesCounted(then, baseTree, PassedThen)'
    <3>1. Missed(then, baseTree, PassedThen)' = {}
      BY <2>2 DEF Missed
    <3>2. Cardinality({}) = 0 /\ Counted(then) \in Nat
      BY <1>3, FS_EmptySet, SnapshotFields DEF ReviewTypes
    <3> QED BY <1>1, <3>1, <3>2 DEF EntriesCounted, Counted
  <2>5. then.sources = {}
    BY <1>1, <1>3 DEF SnapshotsInv
  <2> QED BY <1>1, <1>2, <1>3, <2>3, <2>4, <2>5 DEF SnapshotsInv, Marking, Present
<1> QED
  BY <1>1, <1>6, <1>7, <1>8, NotReportedYet

\* A snapshot that is not marked has every file of a language.
LEMMA UnmarkedIsComplete ==
  ASSUME NEW s \in Snapshots, Marking(s), ~Marked(s), NEW t,
         s.sources \subseteq Present(t) \cap Supported, EntriesCounted(s, t, ReviewPaths)
  PROVE  s.sources = Present(t) \cap Supported
<1>1. s.unreadable = 0 /\ s.oversized = 0 /\ s.omitted = 0 /\ ~s.incomplete
  BY SnapshotFields DEF Marking, Marked
<1>2. Missed(s, t, ReviewPaths) \in SUBSET ReviewPaths
  BY DEF Missed
<1>3. Cardinality(Missed(s, t, ReviewPaths)) = 0
  BY <1>1, <1>2, PathsFinite DEF EntriesCounted, Counted
<1>4. Missed(s, t, ReviewPaths) = {}
  BY <1>2, <1>3, PathsFinite, FS_EmptySet
<1> QED
  BY <1>4, PresentPaths DEF Missed

\* The findings of a snapshot as those of its tree.
LEMMA FindingsNow ==
  ASSUME ReviewTypes, now.sources \subseteq Present(reviewed) \cap Supported
  PROVE  /\ TrueAfter(Findings(now, reviewed))
         /\ now.sources = Present(reviewed) \cap Supported => AllAfter(Findings(now, reviewed))
<1>1. reviewed \in AllTrees
  BY DEF ReviewTypes
<1>2. TrueAfter(Findings(now, reviewed))
  BY <1>1, FindingsOf, GradedIsPresent DEF TrueAfter
<1>3. ASSUME now.sources = Present(reviewed) \cap Supported
      PROVE  AllAfter(Findings(now, reviewed))
  <2> SUFFICES ASSUME NEW p, GradeIn(reviewed, p) > 0
               PROVE  \E a \in Findings(now, reviewed) :
                        a.path = p /\ a.grade = GradeIn(reviewed, p)
    BY DEF AllAfter
  <2>1. p \in now.sources /\ reviewed[p].grade = GradeIn(reviewed, p)
    BY <1>1, <1>3, GradedIsPresent
  <2>2. [path |-> p, at |-> p, grade |-> reviewed[p].grade] \in Findings(now, reviewed)
    BY <2>1, FindingsOf
  <2> QED BY <2>1, <2>2
<1> QED
  BY <1>2, <1>3

\* And those of the base tree, remapped to the paths that they moved to.
LEMMA FindingsThen ==
  ASSUME ReviewTypes, baseTree = DiffTree,
         then.sources \subseteq Present(baseTree) \cap Supported
  PROVE  /\ TrueBefore(Remap(Findings(then, baseTree)))
         /\ then.sources = Present(baseTree) \cap Supported =>
              AllBefore(Remap(Findings(then, baseTree)))
<1>1. DiffTree \in AllTrees
  BY DEF ReviewTypes
<1>2. \A q \in then.sources : /\ q \in Present(DiffTree) /\ q \in Supported
                              /\ GradeIn(DiffTree, q) = DiffTree[q].grade
  BY <1>1, GradedIsPresent
<1>3. TrueBefore(Remap(Findings(then, baseTree)))
  <2> SUFFICES ASSUME NEW b \in Remap(Findings(then, baseTree))
               PROVE  \E q \in Present(DiffTree) :
                        /\ GradeIn(DiffTree, q) > 0
                        /\ b.path = MovedTo(q) /\ b.grade = GradeIn(DiffTree, q)
    BY DEF TrueBefore
  <2>1. PICK q \in then.sources : /\ baseTree[q].grade > 0
                                 /\ b.path = MovedTo(q) /\ b.grade = baseTree[q].grade
    BY RemappedFindings
  <2> QED BY <1>2, <2>1
<1>4. ASSUME then.sources = Present(baseTree) \cap Supported
      PROVE  AllBefore(Remap(Findings(then, baseTree)))
  <2> SUFFICES ASSUME NEW q, GradeIn(DiffTree, q) > 0
               PROVE  \E b \in Remap(Findings(then, baseTree)) :
                        b.path = MovedTo(q) /\ b.grade = GradeIn(DiffTree, q)
    BY DEF AllBefore
  <2>1. q \in then.sources /\ baseTree[q].grade = GradeIn(DiffTree, q)
    BY <1>1, <1>4, GradedIsPresent
  <2> QED BY <2>1, RemappedFindings
<1> QED
  BY <1>3, <1>4

\* The comparison: the report is true unless the base is not the tree of the diff, and
\* complete unless a snapshot is marked.
LEMMA CompareKeeps ==
  ASSUME ReviewInv, Compare
  PROVE  ReviewInv'
<1> DEFINE before == Remap(Findings(then, baseTree))  after == Findings(now, reviewed)
<1>1. /\ taking = "base" /\ entry > PathCount /\ taking' = "reported"
      /\ reviewReport' = Delta(before, after)
      /\ UNCHANGED <<reviewInputs, headTree, baseTree, entry, found, now, then, walkFailed,
                     firstCommit>>
  BY DEF Compare
<1>2. /\ staged' = staged /\ reviewed' = reviewed /\ diffBase' = diffBase
      /\ changedFiles' = changedFiles /\ DiffTree' = DiffTree
  BY <1>1, InputsKept
<1>3. ReviewTypes /\ SnapshotsInv /\ HeadInv
  BY DEF ReviewInv
<1>4. PathCount \in Nat /\ entry \in Nat
  BY <1>3, ReviewAssumption DEF ReviewTypes
<1>5. /\ PassedNow = ReviewPaths /\ PassedNow' = ReviewPaths
      /\ PassedThen = ReviewPaths /\ PassedThen' = ReviewPaths
  <2>1. \A p \in ReviewPaths : p < entry
    BY <1>1, <1>4 DEF ReviewPaths
  <2> QED BY <1>1, <2>1 DEF PassedNow, PassedThen
<1>6. ReviewTypes' /\ HeadInv'
  BY <1>1, <1>2, <1>3 DEF ReviewTypes, HeadInv
<1>7. SnapshotsInv'
  <2>1. EntriesCounted(now, reviewed, PassedNow)' \/ walkFailed'
    BY <1>1, <1>2, <1>3, <1>5 DEF SnapshotsInv, EntriesCounted, Missed, Counted, Present
  <2>2. EntriesCounted(then, baseTree, PassedThen)'
    BY <1>1, <1>3, <1>5 DEF SnapshotsInv, EntriesCounted, Missed, Counted, Present
  <2> QED BY <1>1, <1>2, <1>3, <2>1, <2>2 DEF SnapshotsInv, Marking, Present
<1>8. Expected' = Expected
  BY <1>2 DEF Expected, GradeIn, Present
<1>9. /\ now \in Snapshots /\ Marking(now)
      /\ now.sources \subseteq Present(reviewed) \cap Supported
      /\ EntriesCounted(now, reviewed, ReviewPaths) \/ walkFailed
      /\ then \in Snapshots /\ Marking(then)
      /\ then.sources \subseteq Present(baseTree) \cap Supported
      /\ EntriesCounted(then, baseTree, ReviewPaths)
      /\ ~firstCommit => baseTree = DiffTree
  BY <1>1, <1>3, <1>5 DEF ReviewTypes, SnapshotsInv, HeadInv
<1>10. ~Marked(then) => then.sources = Present(baseTree) \cap Supported
  BY <1>9, UnmarkedIsComplete
<1>11. ~Marked(now) /\ ~walkFailed => now.sources = Present(reviewed) \cap Supported
  BY <1>9, UnmarkedIsComplete
<1>12. /\ TrueAfter(after)
       /\ ~Marked(now) /\ ~walkFailed => AllAfter(after)
       /\ ~firstCommit => TrueBefore(before)
       /\ ~firstCommit /\ ~Marked(then) => AllBefore(before)
  BY <1>3, <1>9, <1>10, <1>11, FindingsNow, FindingsThen
<1>13. ChangesKnown
  BY <1>3, ChangesTellApart DEF ReviewInv, ReviewTypes, ChangesKnown
<1> HIDE DEF before, after
<1>14. \A d \in Delta(before, after) : d.state \in {"new", "resolved", "worsened", "improved"}
  <2> SUFFICES ASSUME NEW d \in Delta(before, after)
               PROVE  d.state \in {"new", "resolved", "worsened", "improved"}
    OBVIOUS
  <2>1. \/ \E a \in after : d = [path |-> a.path, state |-> "new"]
        \/ \E b \in before : d = [path |-> b.path, state |-> "resolved"]
        \/ \E a \in after : \E s \in {"worsened", "improved"} :
             d = [path |-> a.path, state |-> s]
    BY DeltaParts
  <2> QED BY <2>1
<1>15. Marked(now)' = Marked(now) /\ Marked(then)' = Marked(then)
  BY <1>1 DEF Marked
<1>16. ReviewTrueOrMarked'
  <2> SUFFICES ASSUME NEW c \in Delta(before, after) \ Expected
               PROVE  \/ c.state = "new" /\ (Marked(then) \/ firstCommit)
                      \/ c.state = "resolved" /\ (Marked(now) \/ walkFailed \/ firstCommit)
                      \/ c.state \in {"worsened", "improved"} /\ firstCommit
    BY <1>1, <1>8, <1>15 DEF ReviewTrueOrMarked
  <2>1. CASE firstCommit
    BY <1>14, <2>1
  <2>2. CASE ~firstCommit
    BY <1>12, <1>13, <2>2, DeltaIsTrue
  <2> QED BY <2>1, <2>2
<1>17. ReviewCompleteOrMarked'
  <2> SUFFICES ASSUME ~Marked(now), ~Marked(then), ~walkFailed, ~firstCommit
               PROVE  Expected \subseteq Delta(before, after)
    BY <1>1, <1>8, <1>15 DEF ReviewCompleteOrMarked
  <2> QED BY <1>12, <1>13, DeltaIsComplete
<1>18. (changedFiles \in ChangeSets(DiffTree, reviewed))'
  BY <1>2 DEF ReviewInv
<1> QED
  BY <1>6, <1>7, <1>16, <1>17, <1>18 DEF ReviewInv

\* The inductive invariant holds in every behaviour of a deep review: through
\* from_worktree, from_index, from_tree, commits and the deadline.
THEOREM ReviewInductive == ReviewSpec => []ReviewInv
<1>1. ReviewInit => ReviewInv
  <2> SUFFICES ASSUME ReviewInit
               PROVE  ReviewInv
    OBVIOUS
  <2>1. Empty \in AllTrees /\ Trees \subseteq AllTrees
    BY ReviewAssumption DEF Empty, AllTrees
  <2>2. DiffTree = headTree
    BY DEF ReviewInit, DiffTree
  <2>3. NoSnapshot \in Snapshots /\ Marking(NoSnapshot) /\ NoSnapshot.sources = {}
    BY DEF NoSnapshot, Snapshots, Marking
  <2>4. ReviewTypes
    <3>1. 1 \in 1..(PathCount + 1)
      BY ReviewAssumption
    <3> QED BY <2>1, <2>2, <2>3, <3>1 DEF ReviewInit, ReviewTypes
  <2>5. PassedNow = {} /\ PassedThen = {}
    <3>1. \A p \in ReviewPaths : ~(p < 1)
      BY ReviewAssumption DEF ReviewPaths
    <3> QED BY <3>1 DEF ReviewInit, PassedNow, PassedThen
  <2>6. \A t : EntriesCounted(NoSnapshot, t, {})
    <3>1. \A t : Missed(NoSnapshot, t, {}) = {}
      BY DEF Missed
    <3>2. Cardinality({}) = 0 /\ Counted(NoSnapshot) \in Nat
      BY <2>3, FS_EmptySet, SnapshotFields
    <3> QED BY <3>1, <3>2 DEF EntriesCounted
  <2>7. SnapshotsInv
    BY <2>3, <2>5, <2>6 DEF ReviewInit, SnapshotsInv
  <2>8. HeadInv
    BY DEF ReviewInit, HeadInv
  <2>9. ReviewTrueOrMarked /\ ReviewCompleteOrMarked
    BY DEF ReviewInit, ReviewTrueOrMarked, ReviewCompleteOrMarked
  <2> QED BY <2>2, <2>4, <2>7, <2>8, <2>9 DEF ReviewInit, ReviewInv
<1>2. ReviewInv /\ [ReviewNext]_reviewVars => ReviewInv'
  <2> SUFFICES ASSUME ReviewInv, [ReviewNext]_reviewVars
               PROVE  ReviewInv'
    OBVIOUS
  <2>1. CASE TimePasses
    BY <2>1, NothingFailsInTime
  <2>2. CASE Commit
    BY <2>2, CommitKeeps
  <2>3. CASE ReadIndex
    BY <2>3, ReadIndexKeeps
  <2>4. CASE ReadBase
    BY <2>4, ReadBaseKeeps
  <2>5. CASE WalkFile
    BY <2>5, WalkFileKeeps
  <2>6. CASE PassGap
    BY <2>6, PassGapKeeps
  <2>7. CASE EndWalk
    BY <2>7, EndWalkKeeps
  <2>8. CASE ReadFound
    BY <2>8, ReadFoundKeeps
  <2>9. CASE PassUnfound
    BY <2>9, PassUnfoundKeeps
  <2>10. CASE TurnToBase
    BY <2>10, TurnToBaseKeeps
  <2>11. CASE Compare
    BY <2>11, CompareKeeps
  <2>12. CASE UNCHANGED reviewVars
    <3>1. /\ UNCHANGED <<reviewInputs, headTree, baseTree, taking, entry, found, now, then,
                         walkFailed, firstCommit, reviewReport>>
      BY <2>12 DEF reviewVars
    <3>2. /\ staged' = staged /\ reviewed' = reviewed /\ diffBase' = diffBase
          /\ changedFiles' = changedFiles /\ DiffTree' = DiffTree
      BY <3>1, InputsKept
    <3>3. ReviewTypes' /\ HeadInv' /\ (changedFiles \in ChangeSets(DiffTree, reviewed))'
      BY <3>1, <3>2 DEF ReviewInv, ReviewTypes, HeadInv
    <3>4. PassedNow' = PassedNow /\ PassedThen' = PassedThen
      BY <3>1, <3>2 DEF PassedNow, PassedThen
    <3>5. SnapshotsInv'
      BY <3>1, <3>2, <3>4
         DEF ReviewInv, SnapshotsInv, EntriesCounted, Missed, Counted, Present, Marking
    <3>6. Expected' = Expected
      BY <3>2 DEF Expected, GradeIn, Present
    <3>7. ReviewTrueOrMarked' /\ ReviewCompleteOrMarked'
      BY <3>1, <3>6 DEF ReviewInv, ReviewTrueOrMarked, ReviewCompleteOrMarked, Marked
    <3> QED BY <3>3, <3>5, <3>7 DEF ReviewInv
  <2> QED BY <2>1, <2>2, <2>3, <2>4, <2>5, <2>6, <2>7, <2>8, <2>9, <2>10, <2>11, <2>12
          DEF ReviewNext
<1> QED
  BY <1>1, <1>2, PTL DEF ReviewSpec

\* Whatever is read under which limit and however HEAD moves: a deep review reports
\* what git's changes say of the two trees, all of it, or says what it is missing.
THEOREM ReviewsAreSound == ReviewSpec => []ReviewSound
<1>1. ReviewInv => ReviewSound
  <2> SUFFICES ASSUME ReviewInv
               PROVE  SnapshotsAccounted
    BY DEF ReviewInv, ReviewSound
  <2>1. taking \in {"base", "reported"} => PassedNow = ReviewPaths
    BY DEF PassedNow
  <2>2. taking = "reported" => PassedThen = ReviewPaths
    BY DEF PassedThen
  <2>3. \A s, t : Missed(s, t, ReviewPaths) = (Present(t) \cap Supported) \ s.sources
    BY PresentPaths DEF Missed
  <2>4. ASSUME NEW s \in Snapshots, NEW t, EntriesCounted(s, t, ReviewPaths), Uncounted(s, t)
        PROVE  s.incomplete
    <3>1. Cardinality(Missed(s, t, ReviewPaths)) > Counted(s)
      BY <2>3, <2>4 DEF Uncounted, Counted
    <3>2. Cardinality(Missed(s, t, ReviewPaths)) \in Nat /\ Counted(s) \in Nat
      BY PathsFinite, SnapshotFields DEF Missed
    <3> QED BY <2>4, <3>1, <3>2 DEF EntriesCounted
  <2> QED BY <2>1, <2>2, <2>4 DEF ReviewInv, ReviewTypes, SnapshotsInv, SnapshotsAccounted
<1> QED
  BY <1>1, ReviewInductive, PTL

-------------------------------------------------------------------------------
(***************************************************************************)
(* BriefBudget.  The binary search of longest_prefix, round after round.   *)
(***************************************************************************)
Ranges(n) == {s \in [low : 0..n, high : 0..n] : s.low <= s.high}

\* What the search tries next.
Middle(s) == s.low + (s.high - s.low + 1) \div 2
Reaches(p, r, b, n) == BriefFits(p, r, RungBase(r) \cup Prefix(p, n), b)

Search(p, r, b, n, state) ==
  /\ state \in [0..n -> Ranges(n)] /\ state[0] = [low |-> 0, high |-> n]
  /\ \A i \in 1..n : state[i] = Narrowed(p, r, b, state[i - 1])

\* One round, as the cases that it has.
LEMMA RoundNarrows ==
  ASSUME NEW p, NEW r, NEW b, NEW n \in Nat, NEW s \in Ranges(n)
  PROVE  LET t == Narrowed(p, r, b, s)
         IN /\ t \in Ranges(n)
            /\ s.low <= t.low /\ t.high <= s.high
            /\ s.low = s.high => t = s
            /\ s.low < s.high =>
                 /\ Middle(s) \in s.low + 1..s.high
                 /\ Reaches(p, r, b, Middle(s)) => t.low = Middle(s) /\ t.high = s.high
                 /\ ~Reaches(p, r, b, Middle(s)) => t.low = s.low /\ t.high = Middle(s) - 1
                 /\ t.high - t.low < s.high - s.low
<1> DEFINE m == Middle(s)
           t == Narrowed(p, r, b, s)
<1>1. s.low \in 0..n /\ s.high \in 0..n /\ s.low <= s.high
  BY DEF Ranges
<1>2. CASE s.low = s.high
  <2>1. t = s
    BY <1>1, <1>2 DEF Narrowed
  <2> QED BY <1>1, <1>2, <2>1
<1>3. CASE s.low < s.high
  <2>1. m \in s.low + 1..s.high
    BY <1>1, <1>3 DEF Middle
  <2>2. t = IF Reaches(p, r, b, m) THEN [s EXCEPT !.low = m] ELSE [s EXCEPT !.high = m - 1]
    BY <1>1, <1>3 DEF Narrowed, Middle, Reaches
  <2> HIDE DEF m, t
  <2>3. \/ Reaches(p, r, b, m) /\ t \in [low : 0..n, high : 0..n] /\ t.low = m /\ t.high = s.high
        \/ ~Reaches(p, r, b, m) /\ t \in [low : 0..n, high : 0..n] /\ t.low = s.low /\ t.high = m - 1
    BY <1>1, <2>1, <2>2 DEF Ranges
  <2>4. t \in Ranges(n)
    BY <1>1, <2>1, <2>3 DEF Ranges
  <2> QED BY <1>1, <1>3, <2>1, <2>3, <2>4 DEF m, t
<1> QED BY <1>1, <1>2, <1>3

LEMMA SearchEnds ==
  ASSUME NEW p, NEW r, NEW b, Len(p.items) \in Nat
  PROVE  \E state : /\ Search(p, r, b, Len(p.items), state)
                    /\ LongestPrefix(p, r, b) = state[Len(p.items)].low
                    /\ state[Len(p.items)].low = state[Len(p.items)].high
<1> DEFINE n == Len(p.items)
           S == Ranges(n)
           a == [low |-> 0, high |-> n]
           Step(s) == Narrowed(p, r, b, s)
           F == [i \in 1..n |-> [s \in S |-> Step(s)]]
           G(f) == [k \in 0..n |-> IF k = 0 THEN a ELSE Step(f[k - 1])]
<1>1. n \in Nat /\ a \in S
  BY DEF Ranges
<1> HIDE DEF n
<1>2. \A s \in S : Step(s) \in S
  BY <1>1, RoundNarrows
<1> HIDE DEF S, a
<1>3. F \in [1..n -> [S -> S]]
  <2> HIDE DEF Step
  <2> QED BY <1>2
<1>4. PICK f : Recursion(n, S, a, F, f)
  <2> HIDE DEF F
  <2> QED BY <1>1, <1>3, RecursionExists
<1>5. \A i \in 1..n : i - 1 \in 0..n
  BY <1>1
<1>6. \A i \in 1..n : f[i] = Step(f[i - 1])
  <2> HIDE DEF Step
  <2> QED BY <1>4, <1>5 DEF Recursion
<1>7. f = G(f)
  <2> HIDE DEF Step
  <2>1. f \in [0..n -> S] /\ \A i \in 0..n : f[i] = G(f)[i]
    BY <1>1, <1>4, <1>6 DEF Recursion
  <2> QED BY <2>1
<1>8. LongestPrefix(p, r, b) = (CHOOSE g : g = G(g))[n].low
  BY DEF LongestPrefix, n, a
<1> DEFINE state == CHOOSE g : g = G(g)
<1>9. state = G(state)
  <2> HIDE DEF G
  <2> QED BY <1>7
<1> HIDE DEF state
<1>10. state[0] = a /\ \A i \in 1..n : state[i] = Step(state[i - 1])
  <2> HIDE DEF Step
  <2> QED BY <1>1, <1>9
<1> DEFINE Good == {i \in 0..n : state[i] \in S /\ state[i].high - state[i].low <= n - i}
<1>11. 0 \in Good
  BY <1>1, <1>10 DEF a
<1>12. ASSUME NEW i \in 1..n, i - 1 \in Good PROVE i \in Good
  <2> DEFINE s == state[i - 1]
             t == state[i]
  <2>1. t = Narrowed(p, r, b, s) /\ s \in S /\ s.high - s.low <= n - (i - 1)
    BY <1>10, <1>12
  <2> HIDE DEF s, t
  <2>2. /\ t \in S
        /\ s.low = s.high => t = s
        /\ s.low < s.high => t.high - t.low < s.high - s.low
    BY <1>1, <2>1, RoundNarrows DEF S
  <2>3. /\ s.low \in Int /\ s.high \in Int /\ s.low <= s.high
        /\ t.low \in Int /\ t.high \in Int
    BY <1>1, <2>1, <2>2 DEF S, Ranges
  <2>4. t.high - t.low <= n - i
    BY <1>1, <2>1, <2>2, <2>3
  <2> QED BY <1>1, <2>2, <2>4 DEF t
<1>13. \A i \in 0..n : i \in Good
  <2>1. Good \in SUBSET (0..n)
    OBVIOUS
  <2> HIDE DEF Good
  <2> QED BY <1>1, <1>11, <1>12, <2>1, NumbersInTurn
<1>14. state \in [0..n -> S]
  <2>1. state = [i \in 0..n |-> state[i]]
    <3> HIDE DEF Step
    <3> QED BY <1>9
  <2> QED BY <1>13, <2>1
<1>15. state[n].low = state[n].high
  <2>1. n \in 0..n /\ state[n] \in S /\ state[n].high - state[n].low <= n - n
    BY <1>1, <1>13
  <2> QED BY <1>1, <2>1 DEF S, Ranges
<1>16. Search(p, r, b, n, state)
  BY <1>10, <1>14 DEF Search, S, a
<1> QED BY <1>8, <1>15, <1>16 DEF state, n

\* The prefix that was found fits, if the mandatory part does.
LEMMA PrefixFits ==
  ASSUME NEW p, NEW r, NEW b, Len(p.items) \in Nat, BriefFits(p, r, RungBase(r), b)
  PROVE  Reaches(p, r, b, LongestPrefix(p, r, b))
<1> DEFINE n == Len(p.items)
<1>1. PICK state : /\ Search(p, r, b, n, state)
                   /\ LongestPrefix(p, r, b) = state[n].low
  BY SearchEnds
<1> HIDE DEF n
<1>2. n \in Nat
  BY DEF n
<1> DEFINE Good == {i \in 0..n : Reaches(p, r, b, state[i].low)}
<1>3. 0 \in Good
  <2>1. Prefix(p, 0) = {}
    BY DEF Prefix
  <2>2. state[0].low = 0 /\ 0 \in 0..n
    BY <1>1, <1>2 DEF Search
  <2> QED BY <2>1, <2>2 DEF Reaches
<1>4. ASSUME NEW i \in 1..n, i - 1 \in Good PROVE i \in Good
  <2> DEFINE s == state[i - 1]
             t == state[i]
  <2>1. t = Narrowed(p, r, b, s) /\ s \in Ranges(n) /\ Reaches(p, r, b, s.low)
    BY <1>1, <1>2, <1>4 DEF Search
  <2> HIDE DEF s, t
  <2>2. /\ s.low = s.high => t = s
        /\ s.low < s.high =>
             /\ Reaches(p, r, b, Middle(s)) => t.low = Middle(s)
             /\ ~Reaches(p, r, b, Middle(s)) => t.low = s.low
    BY <1>2, <2>1, RoundNarrows
  <2>3. s.low = s.high \/ s.low < s.high
    BY <1>2, <2>1 DEF Ranges
  <2> QED BY <1>2, <2>1, <2>2, <2>3 DEF t
<1>5. \A i \in 0..n : i \in Good
  <2>1. Good \in SUBSET (0..n)
    OBVIOUS
  <2> HIDE DEF Good
  <2> QED BY <1>2, <1>3, <1>4, <2>1, NumbersInTurn
<1> QED BY <1>1, <1>2, <1>5

\* A larger budget finds no shorter prefix, though a longer prefix may cost less.
LEMMA PrefixGrows ==
  ASSUME NEW p, NEW r, NEW b, NEW c, Len(p.items) \in Nat,
         \A m \in 0..Len(p.items) : Reaches(p, r, b, m) => Reaches(p, r, c, m)
  PROVE  /\ LongestPrefix(p, r, b) \in 0..Len(p.items)
         /\ LongestPrefix(p, r, c) \in 0..Len(p.items)
         /\ LongestPrefix(p, r, b) <= LongestPrefix(p, r, c)
<1> DEFINE n == Len(p.items)
<1>1. PICK state : /\ Search(p, r, b, n, state)
                   /\ LongestPrefix(p, r, b) = state[n].low /\ state[n].low = state[n].high
  BY SearchEnds
<1>2. PICK other : /\ Search(p, r, c, n, other)
                   /\ LongestPrefix(p, r, c) = other[n].low /\ other[n].low = other[n].high
  BY SearchEnds
<1>3. n \in Nat /\ \A m \in 0..n : Reaches(p, r, b, m) => Reaches(p, r, c, m)
  OBVIOUS
<1> HIDE DEF n
<1> DEFINE Good == {i \in 0..n : state[i] = other[i] \/ state[i].high < other[i].low}
<1>4. 0 \in Good
  BY <1>1, <1>2, <1>3 DEF Search
<1>5. ASSUME NEW i \in 1..n, i - 1 \in Good PROVE i \in Good
  <2> DEFINE s == state[i - 1]
             t == state[i]
             u == other[i - 1]
             v == other[i]
  <2>1. /\ t = Narrowed(p, r, b, s) /\ s \in Ranges(n)
        /\ v = Narrowed(p, r, c, u) /\ u \in Ranges(n)
        /\ s = u \/ s.high < u.low
    BY <1>1, <1>2, <1>3, <1>5 DEF Search
  <2> HIDE DEF s, t, u, v
  <2>2. /\ t \in Ranges(n) /\ t.high <= s.high
        /\ s.low = s.high => t = s
        /\ s.low < s.high =>
             /\ Middle(s) \in s.low + 1..s.high
             /\ Reaches(p, r, b, Middle(s)) => t.low = Middle(s) /\ t.high = s.high
             /\ ~Reaches(p, r, b, Middle(s)) => t.low = s.low /\ t.high = Middle(s) - 1
    BY <1>3, <2>1, RoundNarrows
  <2>3. /\ v \in Ranges(n) /\ u.low <= v.low
        /\ u.low = u.high => v = u
        /\ u.low < u.high =>
             /\ Reaches(p, r, c, Middle(u)) => v.low = Middle(u) /\ v.high = u.high
             /\ ~Reaches(p, r, c, Middle(u)) => v.low = u.low /\ v.high = Middle(u) - 1
    BY <1>3, <2>1, RoundNarrows
  <2>4. /\ s.low \in 0..n /\ s.high \in 0..n /\ s.low <= s.high
        /\ t.low \in 0..n /\ t.high \in 0..n /\ u.low \in 0..n /\ v.low \in 0..n
        /\ t = [low |-> t.low, high |-> t.high] /\ v = [low |-> v.low, high |-> v.high]
    BY <1>3, <2>1, <2>2, <2>3 DEF Ranges
  <2>5. CASE s.high < u.low
    <3>1. t.high < v.low
      BY <1>3, <2>2, <2>3, <2>4, <2>5
    <3> QED BY <1>3, <3>1 DEF t, v
  <2>6. CASE s = u /\ s.low = s.high
    <3>1. t = v
      BY <2>2, <2>3, <2>6
    <3> QED BY <1>3, <3>1 DEF t, v
  <2>7. CASE s = u /\ s.low < s.high
    <3>1. Middle(s) \in 0..n /\ Middle(u) = Middle(s)
      BY <1>3, <2>2, <2>4, <2>7
    <3>2. CASE Reaches(p, r, b, Middle(s))
      <4>1. t.low = v.low /\ t.high = v.high
        BY <1>3, <2>2, <2>3, <2>7, <3>1, <3>2
      <4>2. t = v
        BY <2>4, <4>1
      <4> QED BY <1>3, <4>2 DEF t, v
    <3>3. CASE ~Reaches(p, r, b, Middle(s)) /\ Reaches(p, r, c, Middle(s))
      <4>1. t.high < v.low
        BY <1>3, <2>2, <2>3, <2>7, <3>1, <3>3
      <4> QED BY <1>3, <4>1 DEF t, v
    <3>4. CASE ~Reaches(p, r, b, Middle(s)) /\ ~Reaches(p, r, c, Middle(s))
      <4>1. t.low = v.low /\ t.high = v.high
        BY <1>3, <2>2, <2>3, <2>7, <3>1, <3>4
      <4>2. t = v
        BY <2>4, <4>1
      <4> QED BY <1>3, <4>2 DEF t, v
    <3> QED BY <3>2, <3>3, <3>4
  <2>8. s.low = s.high \/ s.low < s.high
    BY <1>3, <2>4
  <2> QED BY <2>1, <2>5, <2>6, <2>7, <2>8
<1>6. \A i \in 0..n : i \in Good
  <2>1. Good \in SUBSET (0..n)
    OBVIOUS
  <2> HIDE DEF Good
  <2> QED BY <1>3, <1>4, <1>5, <2>1, NumbersInTurn
<1>7. /\ state[n] = other[n] \/ state[n].high < other[n].low
      /\ state[n].low \in 0..n /\ other[n].low \in 0..n
  <2>1. n \in 0..n
    BY <1>3
  <2>2. state[n] \in Ranges(n) /\ other[n] \in Ranges(n)
    BY <1>1, <1>2, <2>1 DEF Search
  <2> QED BY <1>6, <2>1, <2>2 DEF Ranges
<1>8. state[n].low <= other[n].low
  BY <1>1, <1>2, <1>3, <1>7
<1> QED BY <1>1, <1>2, <1>7, <1>8 DEF n

\* The prefix that was found is not shorter than one up to which all fit.
LEMMA PrefixReaches ==
  ASSUME NEW p, NEW r, NEW b, Len(p.items) \in Nat, NEW a \in 0..Len(p.items),
         \A m \in 0..a : Reaches(p, r, b, m)
  PROVE  a <= LongestPrefix(p, r, b)
<1> DEFINE n == Len(p.items)
<1>1. PICK state : /\ Search(p, r, b, n, state)
                   /\ LongestPrefix(p, r, b) = state[n].low /\ state[n].low = state[n].high
  BY SearchEnds
<1>2. n \in Nat /\ a \in 0..n
  OBVIOUS
<1> HIDE DEF n
<1> DEFINE Good == {i \in 0..n : a <= state[i].high}
<1>3. 0 \in Good
  BY <1>1, <1>2 DEF Search
<1>4. ASSUME NEW i \in 1..n, i - 1 \in Good PROVE i \in Good
  <2> DEFINE s == state[i - 1]
             t == state[i]
  <2>1. t = Narrowed(p, r, b, s) /\ s \in Ranges(n) /\ a <= s.high
    BY <1>1, <1>2, <1>4 DEF Search
  <2> HIDE DEF s, t
  <2>2. /\ s.low = s.high => t = s
        /\ s.low < s.high =>
             /\ Middle(s) \in s.low + 1..s.high
             /\ Reaches(p, r, b, Middle(s)) => t.high = s.high
             /\ ~Reaches(p, r, b, Middle(s)) => t.high = Middle(s) - 1
    BY <1>2, <2>1, RoundNarrows
  <2>3. s.low \in 0..n /\ s.high \in 0..n /\ (s.low = s.high \/ s.low < s.high)
    BY <1>2, <2>1 DEF Ranges
  <2>4. a <= t.high
    BY <1>2, <2>1, <2>2, <2>3
  <2> QED BY <1>2, <2>4 DEF t
<1>5. \A i \in 0..n : i \in Good
  <2>1. Good \in SUBSET (0..n)
    OBVIOUS
  <2> HIDE DEF Good
  <2> QED BY <1>2, <1>3, <1>4, <2>1, NumbersInTurn
<1> QED BY <1>1, <1>2, <1>5

-------------------------------------------------------------------------------
(* brief_items: what is listed, and in which order. *)

ItemKinds == {"sites", "entry", "hunk", "details", "examples", "importers", "mention", "usage"}
AnyItem == [kind : ItemKinds, of : Nat]

LEMMA FlattenedInTurn ==
  ASSUME NEW S, NEW n \in Nat, NEW ss \in [1..n -> Seq(S)]
  PROVE  \E f : /\ f \in [0..n -> Seq(S)] /\ f[0] = <<>>
                /\ \A i \in 1..n : f[i] = f[i - 1] \o ss[i]
                /\ FlattenSeq(ss) = f[n]
<1> DEFINE T == Seq(S)
           Step(i, s) == s \o ss[i]
           F == [i \in 1..n |-> [s \in T |-> Step(i, s)]]
           G(f) == [i \in 1..n |-> IF i = 1 THEN ss[i] ELSE f[i - 1] \o ss[i]]
<1>1. \A i \in 1..n : ss[i] \in T
  OBVIOUS
<1>2. \A i \in 1..n : \A s \in T : Step(i, s) \in T
  BY <1>1
<1>3. F \in [1..n -> [T -> T]]
  <2> HIDE DEF Step
  <2> QED BY <1>2
<1>4. <<>> \in T
  OBVIOUS
<1>5. PICK f : Recursion(n, T, <<>>, F, f)
  <2> HIDE DEF F, T
  <2> QED BY <1>3, <1>4, RecursionExists
<1>6. f \in [0..n -> T] /\ f[0] = <<>>
  BY <1>5 DEF Recursion
<1>7. \A i \in 1..n : i - 1 \in 0..n /\ f[i - 1] \in T
  BY <1>6
<1>8. \A i \in 1..n : f[i] = f[i - 1] \o ss[i]
  <2>1. \A i \in 1..n : f[i] = Step(i, f[i - 1])
    <3> HIDE DEF Step
    <3> QED BY <1>5, <1>7 DEF Recursion
  <2> QED BY <2>1
<1>9. CASE n = 0
  <2>1. Len(ss) = 0 /\ ss = <<>>
    BY <1>9
  <2>2. FlattenSeq(ss) = ss
    BY <2>1 DEF FlattenSeq
  <2> QED BY <1>6, <1>8, <1>9, <2>1, <2>2
<1>10. CASE n # 0
  <2>1. Len(ss) = n
    OBVIOUS
  <2> DEFINE g == [i \in 1..n |-> f[i]]
             flatten == CHOOSE it : it = G(it)
  <2>2. FlattenSeq(ss) = flatten[n]
    BY <1>10, <2>1 DEF FlattenSeq
  <2>3. 1 \in 1..n /\ f[1] = ss[1]
    <3>1. 1 \in 1..n /\ f[0] \o ss[1] = ss[1] /\ 1 - 1 = 0
      BY <1>6, <1>10
    <3> QED BY <1>8, <3>1
  <2>4. \A i \in 1..n : i # 1 => i - 1 \in 1..n
    OBVIOUS
  <2>5. g = G(g)
    <3>1. \A i \in 1..n : g[i] = G(g)[i]
      BY <1>8, <2>3, <2>4
    <3> HIDE DEF g
    <3>2. g = [i \in 1..n |-> g[i]]
      BY DEF g
    <3> QED BY <3>1, <3>2
  <2>6. flatten = G(flatten)
    <3> HIDE DEF G
    <3> QED BY <2>5
  <2> HIDE DEF flatten
  <2> DEFINE Good == {i \in 0..n : i = 0 \/ flatten[i] = f[i]}
  <2>7. ASSUME NEW i \in 1..n, i - 1 \in Good PROVE i \in Good
    <3>1. CASE i = 1
      BY <2>3, <2>6, <3>1
    <3>2. CASE i # 1
      <4>1. flatten[i] = flatten[i - 1] \o ss[i]
        BY <2>6, <3>2
      <4>2. i - 1 # 0 /\ i \in 0..n
        BY <3>2
      <4>3. flatten[i - 1] = f[i - 1]
        BY <2>7, <4>2
      <4> QED BY <1>8, <4>1, <4>2, <4>3
    <3> QED BY <3>1, <3>2
  <2>8. n \in Good
    <3>1. Good \in SUBSET (0..n) /\ 0 \in Good
      OBVIOUS
    <3> HIDE DEF Good
    <3>2. \A i \in 0..n : i \in Good
      BY <2>7, <3>1, NumbersInTurn
    <3> QED BY <3>2
  <2> QED BY <1>6, <1>8, <1>10, <2>2, <2>8
<1> QED BY <1>9, <1>10

LEMMA FlattenedPart ==
  ASSUME NEW S, NEW n \in Nat, NEW ss \in [1..n -> Seq(S)]
  PROVE  FlattenSeq(ss) \in Seq(S)
<1>1. PICK f : f \in [0..n -> Seq(S)] /\ FlattenSeq(ss) = f[n]
  <2>1. \E f : /\ f \in [0..n -> Seq(S)] /\ f[0] = <<>>
               /\ \A i \in 1..n : f[i] = f[i - 1] \o ss[i]
               /\ FlattenSeq(ss) = f[n]
    BY FlattenedInTurn
  <2> QED BY <2>1
<1>2. n \in 0..n
  OBVIOUS
<1> QED BY <1>1, <1>2

\* The list of the first n hunks: each of them in order, and details of entries.
HunkList(b, n, s) ==
  /\ s \in Seq(AnyItem)
  /\ \A j \in 1..Len(s) :
       \/ s[j].kind = "hunk" /\ s[j].of \in 1..n
       \/ s[j].kind = "details" /\ s[j].of \in Range(b.entries)
  /\ \A h \in 1..n : \E j \in 1..Len(s) : s[j] = Item("hunk", h)
  /\ \A i, j \in 1..Len(s) :
       s[i].kind = "hunk" /\ s[j].kind = "hunk" /\ s[i].of < s[j].of => i < j

LEMMA HunkItemsAre ==
  ASSUME NEW b \in Briefs, NEW h \in DOMAIN b.hunks
  PROVE  LET t == HunkItems(b, h)
         IN /\ t \in Seq(AnyItem) /\ Len(t) \in 1..2
            /\ t[1] = Item("hunk", h)
            /\ Len(t) = 2 => t[2].kind = "details" /\ t[2].of \in Range(b.entries)
<1> DEFINE entries == Range(b.entries)
<1>0. /\ b.hunks \in Seq([change : entries, explained : BOOLEAN])
      /\ b.entries \in Seq(Nat)
  BY BriefsAssumption
<1>a. entries \subseteq Nat
  BY <1>0 DEF Range
<1> HIDE DEF entries
<1>1. h \in Nat /\ b.hunks[h].change \in entries /\ entries \subseteq Nat
  <2>1. DOMAIN b.hunks = 1..Len(b.hunks) /\ Len(b.hunks) \in Nat
    BY <1>0
  <2>2. b.hunks[h] \in [change : entries, explained : BOOLEAN]
    <3> DEFINE R == [change : entries, explained : BOOLEAN]
    <3>1. b.hunks \in Seq(R) /\ h \in 1..Len(b.hunks)
      BY <1>0, <2>1
    <3> HIDE DEF R
    <3>2. b.hunks[h] \in R
      BY <3>1, ElementOfSeq
    <3> QED BY <3>2 DEF R
  <2> QED BY <1>a, <2>1, <2>2
<1> DEFINE one == Item("hunk", h)
           two == Item("details", b.hunks[h].change)
<1>2. one \in AnyItem /\ two \in AnyItem
  BY <1>1 DEF Item, AnyItem, ItemKinds
<1>3. HunkItems(b, h) = <<one>> \o <<two>> \/ HunkItems(b, h) = <<one>> \o <<>>
  BY DEF HunkItems
<1>4. two.kind = "details" /\ two.of \in Range(b.entries)
  BY <1>1 DEF Item, entries
<1> HIDE DEF one, two
<1>5. /\ <<one>> \in Seq(AnyItem) /\ Len(<<one>>) = 1 /\ <<one>>[1] = one
      /\ <<two>> \in Seq(AnyItem) /\ Len(<<two>>) = 1 /\ <<two>>[1] = two
      /\ <<>> \in Seq(AnyItem) /\ Len(<<>>) = 0
  BY <1>2
<1>6. ASSUME NEW s \in Seq(AnyItem), NEW t \in Seq(AnyItem), Len(s) = 1, Len(t) \in 0..1
      PROVE  /\ s \o t \in Seq(AnyItem) /\ Len(s \o t) = 1 + Len(t) /\ (s \o t)[1] = s[1]
             /\ Len(t) = 1 => (s \o t)[2] = t[1]
  <2>1. /\ s \o t \in Seq(AnyItem) /\ Len(s \o t) = Len(s) + Len(t)
        /\ \A i \in 1..Len(s) + Len(t) :
             (s \o t)[i] = IF i <= Len(s) THEN s[i] ELSE t[i - Len(s)]
    BY ConcatProperties
  <2> QED BY <1>6, <2>1
<1>7. \E t \in {<<two>>, <<>>} : HunkItems(b, h) = <<one>> \o t
  BY <1>3
<1>8. /\ HunkItems(b, h) \in Seq(AnyItem) /\ Len(HunkItems(b, h)) \in 1..2
      /\ HunkItems(b, h)[1] = one
      /\ Len(HunkItems(b, h)) = 2 => HunkItems(b, h)[2] = two
  <2>1. PICK t \in {<<two>>, <<>>} : HunkItems(b, h) = <<one>> \o t
    BY <1>7
  <2> DEFINE s == <<one>>
  <2>2. /\ s \in Seq(AnyItem) /\ Len(s) = 1 /\ s[1] = one
        /\ t \in Seq(AnyItem) /\ Len(t) \in 0..1
        /\ Len(t) = 1 => t[1] = two
    <3>1. s \in Seq(AnyItem) /\ Len(s) = 1 /\ s[1] = one
      BY <1>5
    <3>2. CASE t = <<two>>
      BY <1>5, <3>1, <3>2
    <3>3. CASE t = <<>>
      BY <1>5, <3>1, <3>3
    <3> QED BY <3>2, <3>3
  <2>3. HunkItems(b, h) = s \o t
    BY <2>1
  <2> HIDE DEF s
  <2>4. /\ s \o t \in Seq(AnyItem) /\ Len(s \o t) = 1 + Len(t) /\ (s \o t)[1] = s[1]
        /\ Len(t) = 1 => (s \o t)[2] = t[1]
    BY <1>6, <2>2
  <2> QED BY <2>2, <2>3, <2>4
<1> QED BY <1>4, <1>8 DEF one

LEMMA OneMoreHunk ==
  ASSUME NEW b \in Briefs, NEW n \in DOMAIN b.hunks, NEW s, HunkList(b, n - 1, s)
  PROVE  HunkList(b, n, s \o HunkItems(b, n))
<1> DEFINE t == HunkItems(b, n)
           u == s \o t
<1>1. n \in Nat /\ n > 0
  BY BriefsAssumption
<1>2. /\ t \in Seq(AnyItem) /\ Len(t) \in 1..2
      /\ t[1].kind = "hunk" /\ t[1].of = n /\ t[1] = Item("hunk", n)
      /\ Len(t) = 2 => t[2].kind = "details" /\ t[2].of \in Range(b.entries)
  BY HunkItemsAre DEF Item
<1> HIDE DEF t
<1>3. s \in Seq(AnyItem) /\ Len(s) \in Nat
  BY DEF HunkList
<1>4. /\ u \in Seq(AnyItem) /\ Len(u) = Len(s) + Len(t)
      /\ \A j \in 1..Len(s) : u[j] = s[j]
      /\ u[Len(s) + 1] = t[1]
      /\ Len(t) = 2 => u[Len(s) + 2] = t[2]
  <2>1. /\ u \in Seq(AnyItem) /\ Len(u) = Len(s) + Len(t)
        /\ \A i \in 1..Len(s) + Len(t) :
             u[i] = IF i <= Len(s) THEN s[i] ELSE t[i - Len(s)]
    BY <1>2, <1>3, ConcatProperties
  <2> HIDE DEF u
  <2> QED BY <1>2, <1>3, <2>1
<1> HIDE DEF u
<1>5. \A j \in 1..Len(u) : \/ j \in 1..Len(s)
                           \/ j = Len(s) + 1
                           \/ j = Len(s) + 2 /\ Len(t) = 2
  <2>1. \A a \in Nat, c \in 1..2 : \A j \in 1..a + c :
          j \in 1..a \/ j = a + 1 \/ (j = a + 2 /\ c = 2)
    OBVIOUS
  <2>2. Len(u) = Len(s) + Len(t) /\ Len(s) \in Nat /\ Len(t) \in 1..2
    BY <1>2, <1>3, <1>4
  <2> QED BY <2>1, <2>2
<1>6. \A j \in 1..Len(u) :
        \/ u[j].kind = "hunk" /\ u[j].of \in 1..n
        \/ u[j].kind = "details" /\ u[j].of \in Range(b.entries)
  <2> SUFFICES ASSUME NEW j \in 1..Len(u)
               PROVE  \/ u[j].kind = "hunk" /\ u[j].of \in 1..n
                      \/ u[j].kind = "details" /\ u[j].of \in Range(b.entries)
    OBVIOUS
  <2>1. CASE j \in 1..Len(s)
    <3>1. u[j] = s[j] /\ \A i \in 1..n - 1 : i \in 1..n
      BY <1>1, <1>4, <2>1
    <3> QED BY <2>1, <3>1 DEF HunkList
  <2>2. CASE j = Len(s) + 1
    BY <1>1, <1>2, <1>4, <2>2
  <2>3. CASE j = Len(s) + 2 /\ Len(t) = 2
    BY <1>2, <1>4, <2>3
  <2> QED BY <1>5, <2>1, <2>2, <2>3
<1>7. ASSUME NEW h \in 1..n PROVE \E j \in 1..Len(u) : u[j] = Item("hunk", h)
  <2>1. CASE h = n
    <3>1. Len(s) + 1 \in 1..Len(u)
      BY <1>2, <1>3, <1>4
    <3> QED BY <1>2, <1>4, <2>1, <3>1
  <2>2. CASE h # n
    <3>1. h \in 1..n - 1
      BY <1>1, <2>2
    <3>2. PICK j \in 1..Len(s) : s[j] = Item("hunk", h)
      BY <3>1 DEF HunkList
    <3>3. j \in 1..Len(u)
      BY <1>2, <1>3, <1>4
    <3> QED BY <1>4, <3>2, <3>3
  <2> QED BY <2>1, <2>2
<1>8. ASSUME NEW i \in 1..Len(u), NEW j \in 1..Len(u),
             u[i].kind = "hunk", u[j].kind = "hunk", u[i].of < u[j].of
      PROVE  i < j
  <2>1. i \in 1..Len(s) \/ i = Len(s) + 1
    BY <1>2, <1>4, <1>5, <1>8
  <2>2. j \in 1..Len(s) \/ j = Len(s) + 1
    BY <1>2, <1>4, <1>5, <1>8
  <2>3. CASE i \in 1..Len(s) /\ j \in 1..Len(s)
    BY <1>4, <1>8, <2>3 DEF HunkList
  <2>4. CASE i \in 1..Len(s) /\ j = Len(s) + 1
    BY <1>3, <2>4
  <2>5. CASE i = Len(s) + 1
    <3>1. u[i].of = n /\ u[j].of \in 1..n
      BY <1>2, <1>4, <1>6, <1>8, <2>5
    <3> QED BY <1>1, <1>8, <3>1
  <2> QED BY <2>1, <2>2, <2>3, <2>4, <2>5
<1>9. HunkList(b, n, u)
  BY <1>4, <1>6, <1>7, <1>8 DEF HunkList
<1> QED BY <1>9 DEF u, t

HunkPart(b) == FlattenSeq([h \in DOMAIN b.hunks |-> HunkItems(b, h)])

LEMMA HunksListed ==
  ASSUME NEW b \in Briefs
  PROVE  HunkList(b, Len(b.hunks), HunkPart(b))
<1> DEFINE n == Len(b.hunks)
           ss == [h \in DOMAIN b.hunks |-> HunkItems(b, h)]
<1>1. n \in Nat /\ DOMAIN b.hunks = 1..n
  BY BriefsAssumption
<1>2. ss \in [1..n -> Seq(AnyItem)]
  BY <1>1, HunkItemsAre
<1>3. \A i \in 1..n : ss[i] = HunkItems(b, i)
  BY <1>1
<1> HIDE DEF n, ss
<1>4. PICK f : /\ f \in [0..n -> Seq(AnyItem)] /\ f[0] = <<>>
               /\ \A i \in 1..n : f[i] = f[i - 1] \o ss[i]
               /\ FlattenSeq(ss) = f[n]
  BY <1>1, <1>2, FlattenedInTurn
<1> DEFINE Good == {i \in 0..n : HunkList(b, i, f[i])}
<1>5. 0 \in Good
  BY <1>1, <1>4 DEF HunkList
<1>6. ASSUME NEW i \in 1..n, i - 1 \in Good PROVE i \in Good
  <2>1. HunkList(b, i - 1, f[i - 1]) /\ f[i] = f[i - 1] \o HunkItems(b, i)
    BY <1>3, <1>4, <1>6
  <2>2. HunkList(b, i, f[i])
    BY <1>1, <2>1, OneMoreHunk
  <2> QED BY <1>1, <2>2
<1>7. \A i \in 0..n : i \in Good
  <2>1. Good \in SUBSET (0..n)
    OBVIOUS
  <2> HIDE DEF Good
  <2> QED BY <1>1, <1>5, <1>6, <2>1, NumbersInTurn
<1>8. HunkList(b, n, FlattenSeq(ss))
  BY <1>1, <1>4, <1>7
<1> QED BY <1>8 DEF n, ss, HunkPart

\* What stands behind the hunks.
Behind(b) ==
  {x \in AnyItem : /\ x.kind \in {"examples", "details", "importers", "mention", "usage"}
                   /\ x.kind \in {"details", "importers"} => x.of \in Range(b.entries)}

\* s is a with more items of R behind it.
Continues(a, s, R) ==
  /\ s \in Seq(AnyItem) /\ Len(a) <= Len(s)
  /\ \A j \in 1..Len(a) : s[j] = a[j]
  /\ \A j \in Len(a) + 1..Len(s) : s[j] \in R

LEMMA MoreBehind ==
  ASSUME NEW R \in SUBSET AnyItem, NEW a \in Seq(AnyItem), NEW s, Continues(a, s, R),
         NEW t \in Seq(R)
  PROVE  Continues(a, s \o t, R)
<1> DEFINE u == s \o t
<1>1. s \in Seq(AnyItem) /\ t \in Seq(AnyItem) /\ Len(s) \in Nat /\ Len(t) \in Nat
      /\ Len(a) \in Nat /\ Len(a) <= Len(s)
  BY DEF Continues
<1>2. /\ u \in Seq(AnyItem) /\ Len(u) = Len(s) + Len(t)
      /\ \A i \in 1..Len(s) + Len(t) :
           u[i] = IF i <= Len(s) THEN s[i] ELSE t[i - Len(s)]
  BY <1>1, ConcatProperties
<1> HIDE DEF u
<1>3. Len(a) <= Len(u) /\ \A j \in 1..Len(a) : u[j] = a[j]
  BY <1>1, <1>2 DEF Continues
<1>4. ASSUME NEW j \in Len(a) + 1..Len(u) PROVE u[j] \in R
  <2>1. CASE j <= Len(s)
    <3>1. j \in Len(a) + 1..Len(s) /\ j \in 1..Len(s) + Len(t)
      BY <1>1, <1>2, <2>1
    <3> QED BY <1>2, <2>1, <3>1 DEF Continues
  <2>2. CASE ~(j <= Len(s))
    <3>1. j - Len(s) \in 1..Len(t) /\ j \in 1..Len(s) + Len(t)
      BY <1>1, <1>2, <2>2
    <3>2. t[j - Len(s)] \in R
      BY <3>1, ElementOfSeq
    <3> QED BY <1>2, <2>2, <3>1, <3>2
  <2> QED BY <2>1, <2>2
<1>5. Continues(a, u, R)
  BY <1>2, <1>3, <1>4 DEF Continues
<1> QED BY <1>5 DEF u

FrontPart(b) == <<Item("sites", 0)>> \o Each("entry", b.entries) \o HunkPart(b)

LEMMA FrontPartIs ==
  ASSUME NEW b \in Briefs
  PROVE  /\ FrontPart(b) \in Seq(AnyItem)
         /\ Len(b.entries) \in Nat /\ Len(HunkPart(b)) \in Nat
         /\ Len(FrontPart(b)) = 1 + Len(b.entries) + Len(HunkPart(b))
         /\ FrontPart(b)[1] = Item("sites", 0)
         /\ \A e \in 1..Len(b.entries) : FrontPart(b)[1 + e] = Item("entry", b.entries[e])
         /\ \A j \in 1..Len(HunkPart(b)) : FrontPart(b)[1 + Len(b.entries) + j] = HunkPart(b)[j]
<1> DEFINE s == <<Item("sites", 0)>>
           t == Each("entry", b.entries)
           u == HunkPart(b)
           n == Len(b.entries)
           st == s \o t
<1>1. b.entries \in Seq(Nat) /\ n \in Nat
  <2>1. b.entries \in Seq(Nat)
    BY BriefsAssumption
  <2> QED BY <2>1
<1>2. s \in Seq(AnyItem) /\ Len(s) = 1 /\ s[1] = Item("sites", 0)
  BY DEF Item, AnyItem, ItemKinds
<1>3. t \in Seq(AnyItem) /\ Len(t) = n /\ \A e \in 1..n : t[e] = Item("entry", b.entries[e])
  <2>1. DOMAIN b.entries = 1..n
    BY <1>1
  <2>2. \A e \in 1..n : Item("entry", b.entries[e]) \in AnyItem
    BY <1>1 DEF Item, AnyItem, ItemKinds
  <2>3. t = [e \in 1..n |-> Item("entry", b.entries[e])]
    BY <2>1 DEF Each
  <2> HIDE DEF n, t
  <2> QED BY <1>1, <2>2, <2>3
<1>4. u \in Seq(AnyItem) /\ Len(u) \in Nat
  BY HunksListed DEF HunkList
<1> HIDE DEF s, t, u, n
<1>5. /\ st \in Seq(AnyItem) /\ Len(st) = Len(s) + Len(t)
      /\ \A i \in 1..Len(s) + Len(t) : st[i] = IF i <= Len(s) THEN s[i] ELSE t[i - Len(s)]
  BY <1>2, <1>3, ConcatProperties
<1> HIDE DEF st
<1>51. st \in Seq(AnyItem) /\ Len(st) \in Nat
  BY <1>5
<1>6. Len(st) = 1 + n /\ st[1] = Item("sites", 0)
      /\ \A e \in 1..n : st[1 + e] = Item("entry", b.entries[e])
  BY <1>1, <1>2, <1>3, <1>5
<1> DEFINE v == st \o u
<1>7. /\ v \in Seq(AnyItem) /\ Len(v) = Len(st) + Len(u)
      /\ \A i \in 1..Len(st) + Len(u) : v[i] = IF i <= Len(st) THEN st[i] ELSE u[i - Len(st)]
  BY <1>4, <1>51, ConcatProperties
<1> HIDE DEF v
<1>8. /\ v \in Seq(AnyItem) /\ Len(v) = 1 + n + Len(u) /\ v[1] = Item("sites", 0)
      /\ \A e \in 1..n : v[1 + e] = Item("entry", b.entries[e])
      /\ \A j \in 1..Len(u) : v[1 + n + j] = u[j]
  BY <1>1, <1>4, <1>6, <1>7
<1>9. FrontPart(b) = v
  BY DEF FrontPart, v, st, s, t, u
<1> QED BY <1>1, <1>4, <1>8, <1>9 DEF u, n

LEMMA ItemsContinue ==
  ASSUME NEW b \in Briefs
  PROVE  Continues(FrontPart(b), BriefItems(b), Behind(b))
<1> DEFINE R == Behind(b)
           n == Len(b.entries)
           ss == [i \in DOMAIN b.entries |->
                    IF b.entries[i] \in Detailed(b) THEN <<>>
                    ELSE <<Item("details", b.entries[i])>>]
           x == <<Item("examples", 0)>>
           d == FlattenSeq(ss)
           i == Each("importers", b.entries)
           m == [k \in 1..b.mentions |-> Item("mention", k)]
           u == [k \in DOMAIN b.usage |-> Item("usage", k)]
<1>1. /\ b.entries \in Seq(Nat) /\ n \in Nat /\ DOMAIN b.entries = 1..n
      /\ b.mentions \in Nat /\ Len(b.usage) \in Nat /\ DOMAIN b.usage = 1..Len(b.usage)
  <2>1. b.entries \in Seq(Nat) /\ b.mentions \in Nat /\ b.usage \in Seq(SUBSET Nat)
    BY BriefsAssumption
  <2> QED BY <2>1
<1>2. \A e \in 1..n : b.entries[e] \in Nat /\ b.entries[e] \in Range(b.entries)
  BY <1>1 DEF Range
<1>3. R \in SUBSET AnyItem
  BY DEF Behind
<1>4. /\ Item("examples", 0) \in R
      /\ \A e \in 1..n : Item("details", b.entries[e]) \in R /\ Item("importers", b.entries[e]) \in R
      /\ \A k \in Nat : Item("mention", k) \in R /\ Item("usage", k) \in R
  BY <1>2 DEF Behind, Item, AnyItem, ItemKinds
<1> HIDE DEF R, n
<1>5. x \in Seq(R)
  BY <1>4
<1>6. d \in Seq(R)
  <2>1. ss \in [1..n -> Seq(R)]
    <3>1. \A e \in 1..n : <<Item("details", b.entries[e])>> \in Seq(R) /\ <<>> \in Seq(R)
      BY <1>4
    <3> QED BY <1>1, <3>1
  <2> HIDE DEF ss
  <2> QED BY <1>1, <2>1, FlattenedPart
<1>7. i \in Seq(R)
  <2>1. i = [e \in 1..n |-> Item("importers", b.entries[e])]
    BY <1>1 DEF Each
  <2> HIDE DEF i
  <2> QED BY <1>1, <1>4, <2>1
<1>8. m \in Seq(R)
  BY <1>1, <1>4
<1>9. u \in Seq(R)
  BY <1>1, <1>4
<1>10. Continues(FrontPart(b), FrontPart(b), R) /\ FrontPart(b) \in Seq(AnyItem)
  BY FrontPartIs DEF Continues
<1>11. BriefItems(b) = ((((FrontPart(b) \o x) \o d) \o i) \o m) \o u
  BY DEF BriefItems, FrontPart, HunkPart
<1> HIDE DEF x, d, i, m, u
<1>12. Continues(FrontPart(b), FrontPart(b) \o x, R)
  BY <1>3, <1>5, <1>10, MoreBehind
<1>13. Continues(FrontPart(b), (FrontPart(b) \o x) \o d, R)
  BY <1>3, <1>6, <1>10, <1>12, MoreBehind
<1>14. Continues(FrontPart(b), ((FrontPart(b) \o x) \o d) \o i, R)
  BY <1>3, <1>7, <1>10, <1>13, MoreBehind
<1>15. Continues(FrontPart(b), (((FrontPart(b) \o x) \o d) \o i) \o m, R)
  BY <1>3, <1>8, <1>10, <1>14, MoreBehind
<1>16. Continues(FrontPart(b), ((((FrontPart(b) \o x) \o d) \o i) \o m) \o u, R)
  BY <1>3, <1>9, <1>10, <1>15, MoreBehind
<1> QED BY <1>11, <1>16 DEF R

(***************************************************************************)
(* The items in their order: the sites, the entries up to e, the hunks     *)
(* with their details up to k, and what stands behind them.                *)
(***************************************************************************)
Listed(b, s, e, k) ==
  /\ s \in Seq(AnyItem) /\ Len(s) \in Nat /\ e = 1 + Len(b.entries) /\ Len(b.entries) \in Nat
  /\ k \in e..Len(s)
  /\ \A j \in 1..e : s[j] = IF j = 1 THEN Item("sites", 0) ELSE Item("entry", b.entries[j - 1])
  /\ \A j \in e + 1..k :
       \/ s[j].kind = "hunk" /\ s[j].of \in DOMAIN b.hunks
       \/ s[j].kind = "details" /\ s[j].of \in Range(b.entries)
  /\ \A h \in DOMAIN b.hunks : \E j \in e + 1..k : s[j] = Item("hunk", h)
  /\ \A i, j \in e + 1..k :
       s[i].kind = "hunk" /\ s[j].kind = "hunk" /\ s[i].of < s[j].of => i < j
  /\ \A j \in k + 1..Len(s) : s[j] \in Behind(b)

LEMMA ItemsListed ==
  ASSUME NEW b \in Briefs
  PROVE  \E e, k : Listed(b, BriefItems(b), e, k)
<1> DEFINE s == BriefItems(b)
           a == FrontPart(b)
           f == HunkPart(b)
           e == 1 + Len(b.entries)
           k == e + Len(f)
<1>1. /\ a \in Seq(AnyItem) /\ Len(b.entries) \in Nat /\ Len(f) \in Nat /\ Len(a) = k
      /\ a[1] = Item("sites", 0)
      /\ \A n \in 1..Len(b.entries) : a[1 + n] = Item("entry", b.entries[n])
      /\ \A j \in 1..Len(f) : a[e + j] = f[j]
  BY FrontPartIs
<1>2. /\ s \in Seq(AnyItem) /\ Len(a) <= Len(s) /\ Len(s) \in Nat
      /\ \A j \in 1..Len(a) : s[j] = a[j]
      /\ \A j \in Len(a) + 1..Len(s) : s[j] \in Behind(b)
  BY ItemsContinue DEF Continues
<1>3. HunkList(b, Len(b.hunks), f) /\ DOMAIN b.hunks = 1..Len(b.hunks)
  BY HunksListed, BriefsAssumption
<1> HIDE DEF s, a, f
<1>4. e \in Nat /\ k \in e..Len(s) /\ \A j \in e + 1..k : j - e \in 1..Len(f) /\ s[j] = f[j - e]
  <2>1. \A j \in e + 1..k : j - e \in 1..Len(f) /\ e + (j - e) = j /\ j \in 1..Len(a)
    BY <1>1
  <2>2. e \in Nat /\ k \in e..Len(s)
    BY <1>1, <1>2
  <2> HIDE DEF e, k
  <2>3. \A j \in e + 1..k : s[j] = a[j] /\ a[e + (j - e)] = f[j - e]
    BY <1>1, <1>2, <2>1
  <2> QED BY <2>1, <2>2, <2>3
<1>5. \A j \in 1..e : s[j] = IF j = 1 THEN Item("sites", 0) ELSE Item("entry", b.entries[j - 1])
  <2>1. \A j \in 1..e : j \in 1..Len(a) /\ (j # 1 => j - 1 \in 1..Len(b.entries) /\ 1 + (j - 1) = j)
    BY <1>1
  <2> QED BY <1>1, <1>2, <2>1
<1>6. \A j \in 1..Len(f) : e + j \in e + 1..k /\ s[e + j] = f[j]
  <2>1. \A j \in 1..Len(f) : e + j \in e + 1..k /\ e + j \in 1..Len(a)
    BY <1>1
  <2> QED BY <1>1, <1>2, <2>1
<1> HIDE DEF e, k
<1>7. \A j \in e + 1..k : \/ s[j].kind = "hunk" /\ s[j].of \in DOMAIN b.hunks
                          \/ s[j].kind = "details" /\ s[j].of \in Range(b.entries)
  BY <1>3, <1>4 DEF HunkList
<1>8. \A h \in DOMAIN b.hunks : \E j \in e + 1..k : s[j] = Item("hunk", h)
  BY <1>3, <1>6 DEF HunkList
<1>9. ASSUME NEW i \in e + 1..k, NEW j \in e + 1..k,
             s[i].kind = "hunk", s[j].kind = "hunk", s[i].of < s[j].of
      PROVE  i < j
  <2>1. i - e < j - e
    <3>1. i - e \in 1..Len(f) /\ j - e \in 1..Len(f) /\ s[i] = f[i - e] /\ s[j] = f[j - e]
      BY <1>4
    <3>2. \A x, y \in 1..Len(f) :
            f[x].kind = "hunk" /\ f[y].kind = "hunk" /\ f[x].of < f[y].of => x < y
      BY <1>3 DEF HunkList
    <3> QED BY <1>9, <3>1, <3>2
  <2>2. i \in Int /\ j \in Int /\ e \in Int
    BY <1>4
  <2> QED BY <2>1, <2>2
<1>10. Listed(b, s, e, k)
  BY <1>1, <1>2, <1>4, <1>5, <1>7, <1>8, <1>9 DEF Listed, e, k
<1> QED BY <1>10 DEF s

-------------------------------------------------------------------------------
(* What a selection of the items makes of the brief. *)

\* A projection that has its items.
Prepared(p) == p.brief \in Briefs /\ p.items = BriefItems(p.brief)

\* What can be selected of it.
Shown(p) == Selectable(p.brief)
Selections(p) == {sel \in SUBSET Shown(p) : IsFiniteSet(sel)}

LEMMA ItemsShown ==
  ASSUME NEW p, Prepared(p)
  PROVE  /\ Len(p.items) \in Nat
         /\ \A j \in 1..Len(p.items) : p.items[j] \in Shown(p) /\ p.items[j].kind # "explained"
<1> DEFINE b == p.brief
           s == p.items
<1>1. PICK e, k : Listed(b, s, e, k)
  BY ItemsListed DEF Prepared
<1>2. s \in Seq(AnyItem) /\ Len(s) \in Nat /\ e \in Nat /\ e >= 1 /\ k \in e..Len(s)
  BY <1>1 DEF Listed
<1>3. ASSUME NEW j \in 1..Len(s) PROVE s[j] \in Shown(p) /\ s[j].kind # "explained"
  <2>1. s[j] \in AnyItem /\ j \in DOMAIN s
    BY <1>2
  <2>2. s[j].kind # "explained"
    BY <2>1 DEF AnyItem, ItemKinds
  <2>3. s[j] \in Range(s) /\ s = BriefItems(b)
    BY <2>1 DEF Range, Prepared
  <2> QED BY <2>2, <2>3 DEF Shown, Selectable
<1> QED BY <1>2, <1>3

LEMMA BaseSelected ==
  ASSUME NEW p, NEW r
  PROVE  RungBase(r) \in Selections(p)
<1>1. RungBase(r) = {} \/ RungBase(r) = {ExplainedSites}
  BY DEF RungBase
<1>2. IsFiniteSet({}) /\ IsFiniteSet({ExplainedSites})
  BY FS_EmptySet, FS_Singleton
<1> QED BY <1>1, <1>2 DEF Selections, Shown, Selectable

LEMMA PrefixSelected ==
  ASSUME NEW p, Prepared(p), NEW n \in 0..Len(p.items), NEW r
  PROVE  /\ Prefix(p, n) \in Selections(p) /\ ExplainedSites \notin Prefix(p, n)
         /\ RungBase(r) \cup Prefix(p, n) \in Selections(p)
<1>1. Len(p.items) \in Nat
      /\ \A j \in 1..Len(p.items) : p.items[j] \in Shown(p) /\ p.items[j].kind # "explained"
  BY ItemsShown
<1>2. n \in Nat /\ \A j \in 1..n : j \in 1..Len(p.items)
  BY <1>1
<1>3. Prefix(p, n) \subseteq Shown(p) /\ ExplainedSites \notin Prefix(p, n)
  BY <1>1, <1>2 DEF Prefix, ExplainedSites, Item
<1>4. IsFiniteSet(Prefix(p, n))
  <2>1. IsFiniteSet(1..n)
    BY <1>2, FS_Interval
  <2> DEFINE f == [i \in 1..n |-> p.items[i]]
  <2>2. f \in Surjection(1..n, Prefix(p, n))
    BY DEF Surjection, Prefix
  <2> QED BY <2>1, <2>2, FS_Surjection
<1>5. RungBase(r) \subseteq Shown(p) /\ IsFiniteSet(RungBase(r))
  BY BaseSelected DEF Selections
<1>6. IsFiniteSet(RungBase(r) \cup Prefix(p, n))
  BY <1>4, <1>5, FS_Union
<1> QED BY <1>3, <1>4, <1>5, <1>6 DEF Selections

\* The text it makes.
LEMMA TextIs ==
  ASSUME NEW p, Prepared(p), NEW sel \in Selections(p), NEW r \in DOMAIN Rungs
  PROVE  LET text == Rendered(p, r, sel)
         IN /\ text.bytes \in Nat /\ text.tokens \in Nat /\ text.soft \in Nat /\ text.diff \in Nat
            /\ text.soft = 0 \/ \E i \in sel : i.kind \in SoftKinds
<1> DEFINE levels == {Rungs[x].level : x \in DOMAIN Rungs}
<1>1. p.brief \in Briefs /\ Rungs[r].level \in levels /\ sel \in SUBSET Selectable(p.brief)
  BY DEF Prepared, Selections, Shown
<1> HIDE DEF levels
<1>2. LET text == Parts(p.brief, Rungs[r].level, sel)
      IN text \in Measures /\ (text.soft = 0 \/ \E i \in sel : i.kind \in SoftKinds)
  BY <1>1, PartsAssumption DEF levels
<1> QED BY <1>2 DEF Rendered, Measures

\* What fits a budget fits a larger one.
LEMMA FitsLarger ==
  ASSUME NEW p, Prepared(p), NEW sel \in Selections(p), NEW r \in DOMAIN Rungs,
         NEW b \in Int, NEW c \in Int, b <= c, BriefFits(p, r, sel, b)
  PROVE  BriefFits(p, r, sel, c)
<1>1. Rendered(p, r, sel).tokens \in Nat
  BY TextIs
<1> QED BY <1>1 DEF BriefFits

Admitted(p, n) == Cardinality(Evidence(Prefix(p, n)))

\* Prefixes are nested, and so is what they show of the changes.
LEMMA EvidenceNested ==
  ASSUME NEW p, Prepared(p), NEW m \in 0..Len(p.items), NEW n \in 0..Len(p.items)
  PROVE  /\ Admitted(p, m) \in Nat
         /\ m <= n => Admitted(p, m) <= Admitted(p, n)
         /\ Admitted(p, m) <= Admitted(p, n) => Evidence(Prefix(p, m)) \subseteq Evidence(Prefix(p, n))
<1>1. Len(p.items) \in Nat
  BY ItemsShown
<1>2. \A x \in 0..Len(p.items) :
        IsFiniteSet(Evidence(Prefix(p, x))) /\ Admitted(p, x) \in Nat
  <2> SUFFICES ASSUME NEW x \in 0..Len(p.items)
               PROVE  IsFiniteSet(Evidence(Prefix(p, x))) /\ Admitted(p, x) \in Nat
    OBVIOUS
  <2>1. IsFiniteSet(Prefix(p, x)) /\ Evidence(Prefix(p, x)) \subseteq Prefix(p, x)
    BY PrefixSelected DEF Selections, Evidence
  <2> QED BY <2>1, FS_Subset, FS_CardinalityType DEF Admitted
<1>3. \A x, y \in 0..Len(p.items) : x <= y => Evidence(Prefix(p, x)) \subseteq Evidence(Prefix(p, y))
  <2> SUFFICES ASSUME NEW x \in 0..Len(p.items), NEW y \in 0..Len(p.items), x <= y
               PROVE  Evidence(Prefix(p, x)) \subseteq Evidence(Prefix(p, y))
    OBVIOUS
  <2>1. \A i \in 1..x : i \in 1..y
    BY <1>1
  <2> QED BY <2>1 DEF Prefix, Evidence
<1>4. \A x, y \in 0..Len(p.items) :
        Evidence(Prefix(p, x)) \subseteq Evidence(Prefix(p, y)) =>
          /\ Admitted(p, x) <= Admitted(p, y)
          /\ Admitted(p, x) = Admitted(p, y) => Evidence(Prefix(p, x)) = Evidence(Prefix(p, y))
  BY <1>2, FS_Subset DEF Admitted
<1>5. m <= n \/ n <= m
  BY <1>1
<1>6. Admitted(p, m) \in Nat /\ Admitted(p, n) \in Nat
  BY <1>2
<1>7. m <= n => Admitted(p, m) <= Admitted(p, n)
  BY <1>3, <1>4
<1>8. ASSUME Admitted(p, m) <= Admitted(p, n)
      PROVE  Evidence(Prefix(p, m)) \subseteq Evidence(Prefix(p, n))
  <2>1. CASE m <= n
    BY <1>3, <2>1
  <2>2. CASE n <= m
    <3>1. Admitted(p, n) <= Admitted(p, m) /\ Evidence(Prefix(p, n)) \subseteq Evidence(Prefix(p, m))
      BY <1>3, <1>4, <2>2
    <3>2. Admitted(p, n) = Admitted(p, m)
      BY <1>6, <1>8, <3>1
    <3>3. Evidence(Prefix(p, n)) = Evidence(Prefix(p, m))
      BY <1>4, <3>1, <3>2
    <3> QED BY <3>3
  <2> QED BY <1>5, <2>1, <2>2
<1> QED BY <1>6, <1>7, <1>8

-------------------------------------------------------------------------------
(* rung_starts: what fits from the start of a rung on. *)

LEMMA LeastPosition ==
  ASSUME NEW n \in Nat, NEW S \in SUBSET (1..n), S # {}
  PROVE  Min(S) \in S /\ \A y \in S : Min(S) <= y
<1>1. S \in SUBSET Nat
  OBVIOUS
<1>2. \E x \in S : \A y \in S : x <= y
  BY <1>1, LeastNatural
<1> QED BY <1>2 DEF Min

LEMMA LargerOfTwo ==
  ASSUME NEW x \in Int, NEW y \in Int
  PROVE  /\ Max({x, y}) \in Int /\ x <= Max({x, y}) /\ y <= Max({x, y})
         /\ x = y => Max({x, y}) = x
<1>1. \E z \in {x, y} : \A u \in {x, y} : z >= u
  OBVIOUS
<1>2. Max({x, y}) \in {x, y} /\ \A u \in {x, y} : Max({x, y}) >= u
  BY <1>1 DEF Max
<1> HIDE DEF Max
<1>3. Max({x, y}) >= x /\ Max({x, y}) >= y
  BY <1>2
<1>4. Max({x, y}) \in Int
  BY <1>2
<1> QED BY <1>2, <1>3, <1>4

LEMMA CostIs ==
  ASSUME NEW p, Prepared(p), NEW sel \in Selections(p), NEW r \in DOMAIN Rungs
  PROVE  /\ BriefCost(p, r, sel) \in Int \cup {Never}
         /\ \A b : BriefFits(p, r, sel, b) <=>
                     BriefCost(p, r, sel) # Never /\ BriefCost(p, r, sel) <= b
<1>1. Rendered(p, r, sel).tokens \in Nat /\ Never \notin Int
  BY TextIs, BriefAssumption
<1> QED BY <1>1 DEF BriefCost, BriefFits

\* Where nothing is soft, what fits is a matter of the bytes and the tokens.
LEMMA HardFits ==
  ASSUME NEW p, Prepared(p), NEW sel \in Selections(p), NEW r \in DOMAIN Rungs, NEW b \in Int,
         \A i \in sel : i.kind \notin SoftKinds
  PROVE  LET text == Rendered(p, r, sel)
         IN BriefFits(p, r, sel, b) <=> text.bytes <= ByteBudget /\ text.tokens <= b
<1> DEFINE text == Rendered(p, r, sel)
           half == text.diff \div 2
<1>1. /\ text.bytes \in Nat /\ text.tokens \in Nat /\ text.soft = 0 /\ half \in Int
      /\ SoftTokens \in Nat /\ ByteBudget \in Nat
  <2>1. text.bytes \in Nat /\ text.tokens \in Nat /\ text.diff \in Nat /\ text.soft = 0
    BY TextIs
  <2> QED BY <2>1, BriefAssumption
<1>2. BriefFits(p, r, sel, b)
        <=> ~(text.bytes > ByteBudget \/ text.soft > Max({SoftTokens, half})) /\ text.tokens <= b
  BY DEF BriefFits, RuledOut
<1> HIDE DEF text, half
<1>3. Max({SoftTokens, half}) \in Int /\ SoftTokens <= Max({SoftTokens, half})
  BY <1>1, LargerOfTwo
<1> QED BY <1>1, <1>2, <1>3 DEF text

StartAt(p, r, n) ==
  LET empty == BriefCost(p, r, RungBase(r))
      anchored == BriefCost(p, r, RungBase(r) \cup Prefix(p, n))
  IN IF Never \in {empty, anchored} THEN Never ELSE Max({empty, anchored})

LEMMA StartAtIs ==
  ASSUME NEW p, Prepared(p), NEW r \in DOMAIN Rungs, NEW n \in 0..Len(p.items)
  PROVE  LET start == StartAt(p, r, n)
         IN /\ start \in Int \cup {Never}
            /\ \A b \in Int : start # Never /\ start <= b =>
                 BriefFits(p, r, RungBase(r), b) /\ Reaches(p, r, b, n)
            /\ \A b \in Int : n = 0 /\ BriefFits(p, r, RungBase(r), b) =>
                 start # Never /\ start <= b
<1> DEFINE x == BriefCost(p, r, RungBase(r))
           y == BriefCost(p, r, RungBase(r) \cup Prefix(p, n))
           start == StartAt(p, r, n)
<1>1. start = IF Never \in {x, y} THEN Never ELSE Max({x, y})
  BY DEF StartAt
<1>2. /\ x \in Int \cup {Never}
      /\ \A b : BriefFits(p, r, RungBase(r), b) <=> x # Never /\ x <= b
  BY BaseSelected, CostIs
<1>3. /\ y \in Int \cup {Never}
      /\ \A b : Reaches(p, r, b, n) <=> y # Never /\ y <= b
  BY PrefixSelected, CostIs DEF Reaches
<1>4. n = 0 => y = x
  <2>1. n = 0 => Prefix(p, n) = {}
    BY DEF Prefix
  <2> QED BY <2>1
<1>5. Never \notin Int
  BY BriefAssumption
<1> HIDE DEF x, y, start
<1>6. CASE Never \in {x, y}
  BY <1>1, <1>2, <1>3, <1>4, <1>6 DEF start
<1>7. CASE Never \notin {x, y}
  <2>1. x \in Int /\ y \in Int /\ start = Max({x, y})
    BY <1>1, <1>2, <1>3, <1>7
  <2>2. /\ start \in Int /\ x <= start /\ y <= start /\ (x = y => start = x)
    BY <2>1, LargerOfTwo
  <2>3. \A b \in Int : start <= b => x <= b /\ y <= b
    BY <2>1, <2>2
  <2>4. start # Never /\ x # Never /\ y # Never
    BY <1>5, <2>1, <2>2
  <2>5. \A b \in Int : start <= b => BriefFits(p, r, RungBase(r), b) /\ Reaches(p, r, b, n)
    BY <1>2, <1>3, <2>3, <2>4
  <2>6. \A b \in Int : n = 0 /\ BriefFits(p, r, RungBase(r), b) => start <= b
    BY <1>2, <1>4, <2>2
  <2> QED BY <2>2, <2>4, <2>5, <2>6 DEF start
<1> QED BY <1>6, <1>7

Reached(p, r, b) == RungStart(p, r) # Never /\ RungStart(p, r) <= b

LEMMA PositionsAre ==
  ASSUME NEW p, Prepared(p)
  PROVE  /\ Len(p.items) \in Nat /\ DOMAIN p.items = 1..Len(p.items)
         /\ \A kind : PositionsOf(p, kind) \in SUBSET (1..Len(p.items))
         /\ ExplainedAt(p) \in SUBSET (1..Len(p.items))
         /\ ToFirst(p) \in 0..Len(p.items)
         /\ ExplainedAt(p) # {} => Min(ExplainedAt(p)) \in ExplainedAt(p)
                                   /\ Min(ExplainedAt(p)) - 1 \in 0..Len(p.items)
<1> DEFINE n == Len(p.items)
<1>1. n \in Nat /\ DOMAIN p.items = 1..n
  <2>1. p.items \in Seq(AnyItem)
    BY ItemsListed DEF Listed, Prepared
  <2> QED BY <2>1
<1>2. /\ \A kind : PositionsOf(p, kind) \in SUBSET (1..n)
      /\ ExplainedAt(p) \in SUBSET (1..n)
  BY <1>1 DEF PositionsOf, ExplainedAt
<1> HIDE DEF n
<1>3. \A S \in SUBSET (1..n) : S # {} => Min(S) \in S /\ Min(S) \in 1..n /\ Min(S) - 1 \in 0..n
  <2> SUFFICES ASSUME NEW S \in SUBSET (1..n), S # {}
               PROVE  Min(S) \in S /\ Min(S) \in 1..n /\ Min(S) - 1 \in 0..n
    OBVIOUS
  <2>1. Min(S) \in S /\ Min(S) \in 1..n
    BY <1>1, LeastPosition
  <2> QED BY <1>1, <2>1
<1>4. ToFirst(p) \in 0..n
  <2>1. 0 \in 0..n /\ \A x \in 1..n : x \in 0..n
    BY <1>1
  <2>2. \A kind : PositionsOf(p, kind) # {} => Min(PositionsOf(p, kind)) \in 0..n
    BY <1>2, <1>3, <2>1
  <2> QED BY <2>1, <2>2 DEF ToFirst
<1>5. ExplainedAt(p) # {} => Min(ExplainedAt(p)) \in ExplainedAt(p)
                             /\ Min(ExplainedAt(p)) - 1 \in 0..n
  BY <1>2, <1>3
<1> QED BY <1>1, <1>2, <1>4, <1>5 DEF n

LEMMA StartIs ==
  ASSUME NEW p, Prepared(p), NEW r \in DOMAIN Rungs
  PROVE  /\ RungStart(p, r) \in Int \cup {Never}
         /\ \A b \in Int : Reached(p, r, b) =>
              /\ BriefFits(p, r, RungBase(r), b)
              /\ Rungs[r].sites => ExplainedAt(p) # {} /\ Reaches(p, r, b, Min(ExplainedAt(p)) - 1)
         /\ \A b \in Int : r = 1 /\ BriefFits(p, r, RungBase(r), b) => Reached(p, r, b)
<1>1. /\ ToFirst(p) \in 0..Len(p.items) /\ 0 \in 0..Len(p.items)
      /\ ExplainedAt(p) # {} => Min(ExplainedAt(p)) - 1 \in 0..Len(p.items)
  BY PositionsAre
<1>2. r = 1 => ~Rungs[r].sites
  BY BriefAssumption
<1>3. CASE r = 1
  <2>1. RungStart(p, r) = StartAt(p, r, 0)
    BY <1>3 DEF RungStart, StartAt
  <2> QED BY <1>1, <1>2, <1>3, <2>1, StartAtIs DEF Reached
<1>4. CASE r # 1 /\ ~Rungs[r].sites
  <2>1. RungStart(p, r) = StartAt(p, r, ToFirst(p))
    BY <1>4 DEF RungStart, StartAt
  <2> QED BY <1>1, <1>4, <2>1, StartAtIs DEF Reached
<1>5. CASE r # 1 /\ Rungs[r].sites /\ ExplainedAt(p) # {}
  <2>1. RungStart(p, r) = StartAt(p, r, Min(ExplainedAt(p)) - 1)
    BY <1>5 DEF RungStart, StartAt
  <2> QED BY <1>1, <1>5, <2>1, StartAtIs DEF Reached
<1>6. CASE r # 1 /\ Rungs[r].sites /\ ExplainedAt(p) = {}
  <2>1. RungStart(p, r) = Never
    BY <1>6 DEF RungStart
  <2> QED BY <1>6, <2>1 DEF Reached
<1> QED BY <1>3, <1>4, <1>5, <1>6

\* The hunks that are not explained stand before those that are, and nothing
\* soft stands before any hunk.
LEMMA BeforeExplained ==
  ASSUME NEW p, Prepared(p), ExplainedAt(p) # {}
  PROVE  LET a == Min(ExplainedAt(p)) - 1
         IN /\ a \in 0..Len(p.items)
            /\ \A j \in 1..a : p.items[j].kind \notin SoftKinds
            /\ \A h \in DOMAIN p.brief.hunks :
                 p.brief.hunks[h].explained \/ Item("hunk", h) \in Prefix(p, a)
<1> DEFINE b == p.brief
           s == p.items
           x == Min(ExplainedAt(p))
           a == x - 1
<1>1. PICK e, k : Listed(b, s, e, k)
  BY ItemsListed DEF Prepared
<1>2. s \in Seq(AnyItem) /\ Len(s) \in Nat /\ e \in Nat /\ e >= 1 /\ k \in e..Len(s)
  BY <1>1 DEF Listed
<1>3. x \in ExplainedAt(p) /\ x \in 1..Len(s) /\ a \in 0..Len(s)
  BY PositionsAre
<1>4. s[x].kind = "hunk" /\ b.hunks[s[x].of].explained
  BY <1>3 DEF ExplainedAt, PositionsOf
<1> HIDE DEF x
<1>5. \A j \in 1..e : s[j].kind \in {"sites", "entry"}
  <2> SUFFICES ASSUME NEW j \in 1..e PROVE s[j].kind \in {"sites", "entry"}
    OBVIOUS
  <2>1. s[j] = IF j = 1 THEN Item("sites", 0) ELSE Item("entry", b.entries[j - 1])
    BY <1>1 DEF Listed
  <2>2. s[j] = Item("sites", 0) \/ s[j] = Item("entry", b.entries[j - 1])
    BY <2>1
  <2> QED BY <2>2 DEF Item
<1>6. \A j \in e + 1..k : \/ s[j].kind = "hunk" /\ s[j].of \in DOMAIN b.hunks
                          \/ s[j].kind = "details"
  BY <1>1 DEF Listed
<1>7. \A j \in k + 1..Len(s) : s[j].kind # "hunk"
  BY <1>1 DEF Listed, Behind
<1>8. x \in e + 1..k
  <2>1. x \in 1..e \/ x \in e + 1..k \/ x \in k + 1..Len(s)
    BY <1>2, <1>3
  <2> QED BY <1>4, <1>5, <1>7, <2>1
<1>9. ASSUME NEW j \in 1..a PROVE s[j].kind \notin SoftKinds
  <2>1. j \in 1..e \/ j \in e + 1..k
    BY <1>2, <1>8
  <2> QED BY <1>5, <1>6, <2>1 DEF SoftKinds
<1>10. ASSUME NEW h \in DOMAIN b.hunks, ~b.hunks[h].explained
       PROVE  Item("hunk", h) \in Prefix(p, a)
  <2>1. PICK j \in e + 1..k : s[j] = Item("hunk", h)
    BY <1>1 DEF Listed
  <2>2. s[j].kind = "hunk" /\ s[j].of = h
    BY <2>1 DEF Item
  <2> DEFINE g == s[x].of
  <2>3. g \in DOMAIN b.hunks /\ b.hunks[g].explained
    BY <1>4, <1>6, <1>8
  <2>4. \A y, z \in DOMAIN b.hunks : y < z /\ b.hunks[y].explained => b.hunks[z].explained
    BY BriefsAssumption DEF Prepared
  <2>5. h \in Nat /\ g \in Nat
    <3>1. DOMAIN b.hunks = 1..Len(b.hunks) /\ Len(b.hunks) \in Nat
      BY BriefsAssumption DEF Prepared
    <3> QED BY <2>3, <3>1
  <2>6. h < g
    <3>1. h # g /\ ~(g < h)
      BY <1>10, <2>3, <2>4
    <3> QED BY <2>5, <3>1
  <2>7. \A y, z \in e + 1..k :
          s[y].kind = "hunk" /\ s[z].kind = "hunk" /\ s[y].of < s[z].of => y < z
    BY <1>1 DEF Listed
  <2>8. j < x
    BY <1>4, <1>8, <2>2, <2>6, <2>7
  <2>9. j \in 1..a
    BY <1>2, <1>8, <2>8
  <2> QED BY <2>1, <2>9 DEF Prefix
<1> QED BY <1>3, <1>9, <1>10 DEF x

PrefixText(p, r, n) == Rendered(p, r, RungBase(r) \cup Prefix(p, n))

\* From the start of a rung with the sites of explained hunks on, every other
\* hunk is in the prefix, if longer prefixes make longer texts.
LEMMA SitesReach ==
  ASSUME NEW p, Prepared(p), NEW r \in DOMAIN Rungs, Rungs[r].sites, NEW b \in Int,
         Reached(p, r, b),
         \A n \in 0..Len(p.items) : \A m \in 0..n :
           /\ PrefixText(p, r, m).tokens <= PrefixText(p, r, n).tokens
           /\ PrefixText(p, r, m).bytes <= PrefixText(p, r, n).bytes
  PROVE  \A h \in DOMAIN p.brief.hunks :
           p.brief.hunks[h].explained \/ Item("hunk", h) \in Prefix(p, LongestPrefix(p, r, b))
<1> DEFINE a == Min(ExplainedAt(p)) - 1
           low == LongestPrefix(p, r, b)
<1>1. ExplainedAt(p) # {} /\ Reaches(p, r, b, a)
  BY StartIs
<1>2. /\ a \in 0..Len(p.items)
      /\ \A j \in 1..a : p.items[j].kind \notin SoftKinds
      /\ \A h \in DOMAIN p.brief.hunks :
           p.brief.hunks[h].explained \/ Item("hunk", h) \in Prefix(p, a)
  BY <1>1, BeforeExplained
<1>3. Len(p.items) \in Nat /\ DOMAIN p.items = 1..Len(p.items)
  BY PositionsAre
<1> HIDE DEF a, low
<1>4. ASSUME NEW m \in 0..a
      PROVE  /\ m \in 0..Len(p.items) /\ RungBase(r) \cup Prefix(p, m) \in Selections(p)
             /\ \A x \in RungBase(r) \cup Prefix(p, m) : x.kind \notin SoftKinds
  <2>1. m \in 0..Len(p.items)
    BY <1>2, <1>3
  <2>2. \A x \in RungBase(r) : x.kind \notin SoftKinds
    BY DEF RungBase, ExplainedSites, Item, SoftKinds
  <2>3. \A j \in 1..m : j \in 1..a
    BY <1>2, <1>3
  <2>4. \A x \in Prefix(p, m) : x.kind \notin SoftKinds
    BY <1>2, <2>3 DEF Prefix
  <2> QED BY <2>1, <2>2, <2>4, PrefixSelected
<1>5. PrefixText(p, r, a).bytes <= ByteBudget /\ PrefixText(p, r, a).tokens <= b
  <2>1. a \in 0..a
    BY <1>2, <1>3
  <2> QED BY <1>1, <1>4, <2>1, HardFits DEF Reaches, PrefixText
<1>6. ASSUME NEW m \in 0..a PROVE Reaches(p, r, b, m)
  <2>1. /\ PrefixText(p, r, m).tokens <= PrefixText(p, r, a).tokens
        /\ PrefixText(p, r, m).bytes <= PrefixText(p, r, a).bytes
    BY <1>2
  <2>2. \A n \in 0..a : PrefixText(p, r, n).tokens \in Nat /\ PrefixText(p, r, n).bytes \in Nat
    BY <1>4, TextIs DEF PrefixText
  <2>3. a \in 0..a
    BY <1>2, <1>3
  <2>4. PrefixText(p, r, m).bytes <= ByteBudget /\ PrefixText(p, r, m).tokens <= b
    BY <1>5, <2>1, <2>2, <2>3, BriefAssumption
  <2> QED BY <1>4, <2>4, HardFits DEF Reaches, PrefixText
<1>7. a <= low
  BY <1>2, <1>3, <1>6, PrefixReaches DEF low
<1>8. low \in 0..Len(p.items)
  BY <1>3, PrefixGrows DEF low
<1>9. \A j \in 1..a : j \in 1..low
  BY <1>2, <1>3, <1>7, <1>8
<1>10. Prefix(p, a) \subseteq Prefix(p, low)
  BY <1>9 DEF Prefix
<1> QED BY <1>2, <1>10 DEF low

\* An item stands behind the entries of its changes.
Told(b, sel, i) ==
  \A c \in EntryOf(b, i) :
    Item("entry", c) \in sel \/ (i.kind = "usage" /\ c \notin Range(b.entries))

LEMMA EntriesFirst ==
  ASSUME NEW p, Prepared(p), NEW n \in 0..Len(p.items), NEW i \in Prefix(p, n)
  PROVE  Told(p.brief, Prefix(p, n), i)
<1> DEFINE b == p.brief
           s == p.items
<1>1. PICK e, k : Listed(b, s, e, k)
  BY ItemsListed DEF Prepared
<1>2. s \in Seq(AnyItem) /\ Len(s) \in Nat /\ e \in Nat /\ e >= 1 /\ k \in e..Len(s)
      /\ e = 1 + Len(b.entries) /\ Len(b.entries) \in Nat
  BY <1>1 DEF Listed
<1>3. PICK j \in 1..n : i = s[j]
  BY DEF Prefix
<1>4. j \in 1..Len(s)
  BY <1>2, <1>3
<1>5. CASE j \in 1..e
  <2>1. s[j] = IF j = 1 THEN Item("sites", 0) ELSE Item("entry", b.entries[j - 1])
    BY <1>1, <1>5 DEF Listed
  <2>2. i.kind = "sites" \/ i.kind = "entry"
    BY <1>3, <2>1 DEF Item
  <2>3. EntryOf(b, i) = {}
    BY <2>2 DEF EntryOf
  <2> QED BY <2>3 DEF Told
<1>6. CASE j \notin 1..e
  <2>1. \A c \in Range(b.entries) : Item("entry", c) \in Prefix(p, n)
    <3> SUFFICES ASSUME NEW c \in Range(b.entries) PROVE Item("entry", c) \in Prefix(p, n)
      OBVIOUS
    <3>1. PICK x \in DOMAIN b.entries : b.entries[x] = c
      BY DEF Range
    <3>2. DOMAIN b.entries = 1..Len(b.entries)
      BY BriefsAssumption DEF Prepared
    <3>3. x + 1 \in 1..e /\ x + 1 # 1 /\ (x + 1) - 1 = x /\ x + 1 \in 1..n
      BY <1>2, <1>3, <1>6, <3>1, <3>2
    <3>4. s[x + 1] = Item("entry", c)
      BY <1>1, <3>1, <3>3 DEF Listed
    <3> QED BY <3>3, <3>4 DEF Prefix
  <2>2. ASSUME NEW c \in EntryOf(b, i) PROVE c \in Range(b.entries) \/ i.kind = "usage"
    <3>1. j \in e + 1..k \/ j \in k + 1..Len(s)
      BY <1>2, <1>4, <1>6
    <3>2. \/ i.kind = "hunk" /\ i.of \in DOMAIN b.hunks
          \/ i.kind \in {"details", "importers"} /\ i.of \in Range(b.entries)
          \/ i.kind \in {"examples", "mention", "usage"}
      <4>1. CASE j \in e + 1..k
        BY <1>1, <1>3, <4>1 DEF Listed
      <4>2. CASE j \in k + 1..Len(s)
        BY <1>1, <1>3, <4>2 DEF Listed, Behind
      <4> QED BY <3>1, <4>1, <4>2
    <3>3. CASE i.kind = "hunk" /\ i.of \in DOMAIN b.hunks
      <4> DEFINE H == [change : Range(b.entries), explained : BOOLEAN]
      <4>1. b.hunks \in Seq(H)
        BY BriefsAssumption DEF Prepared
      <4>2. b.hunks[i.of] \in H
        <5> HIDE DEF H
        <5> QED BY <3>3, <4>1
      <4>3. c = b.hunks[i.of].change
        BY <2>2, <3>3 DEF EntryOf
      <4> QED BY <4>2, <4>3
    <3>4. CASE i.kind \in {"details", "importers"} /\ i.of \in Range(b.entries)
      <4>1. c = i.of
        BY <2>2, <3>4 DEF EntryOf
      <4> QED BY <3>4, <4>1
    <3>5. CASE i.kind \in {"examples", "mention", "usage"}
      <4>1. i.kind # "usage" => EntryOf(b, i) = {}
        BY <3>5 DEF EntryOf
      <4> QED BY <2>2, <4>1
    <3> QED BY <3>2, <3>3, <3>4, <3>5
  <2> QED BY <2>1, <2>2 DEF Told
<1> QED BY <1>5, <1>6

-------------------------------------------------------------------------------
(* rung_choice, one rung after the other. *)

\* A projection that has its starts too.
Started(p) == Prepared(p) /\ \A r \in DOMAIN Rungs : p.starts[r] = RungStart(p, r)

RungChoices == [rung : 0..Len(Rungs), budget : 0..MaxBudget, admitted : Nat]
Asked == 0..MaxBudget

\* What the coarser rungs chose just below the start of rung r.
KeptAt(p, r, coarser) ==
  IF RungStart(p, r) > 0 THEN coarser[RungStart(p, r) - 1] ELSE NoChoice
FineAt(p, r, b) ==
  [rung |-> r, budget |-> b, admitted |-> Admitted(p, LongestPrefix(p, r, b))]

LEMMA ChoiceIs ==
  ASSUME NEW p, Started(p), NEW r \in DOMAIN Rungs, NEW b \in Asked,
         NEW coarser \in [Asked -> RungChoices]
  PROVE  /\ ~Reached(p, r, b) => ChoiceAt(p, r, b, coarser) = coarser[b]
         /\ Reached(p, r, b) =>
              /\ KeptAt(p, r, coarser) \in RungChoices /\ FineAt(p, r, b) \in RungChoices
              /\ RungStart(p, r) > 0 => RungStart(p, r) - 1 \in Asked
              /\ ChoiceAt(p, r, b, coarser) =
                   FinerIfMore(FineAt(p, r, b), KeptAt(p, r, coarser))
         /\ ChoiceAt(p, r, b, coarser) \in RungChoices
<1> DEFINE start == RungStart(p, r)
<1>1. p.starts[r] = start /\ start \in Int \cup {Never} /\ Never \notin Int
  BY StartIs, BriefAssumption DEF Started
<1>2. MaxBudget \in Nat /\ b \in Nat /\ b <= MaxBudget /\ r \in 1..Len(Rungs) /\ Len(Rungs) \in Nat
  BY BriefAssumption DEF Asked
<1> HIDE DEF start
<1>3. CASE ~Reached(p, r, b)
  <2>1. ~(start # Never /\ start <= b)
    BY <1>3 DEF Reached, start
  <2>2. ChoiceAt(p, r, b, coarser) = coarser[b]
    BY <1>1, <2>1 DEF ChoiceAt
  <2> QED BY <1>3, <2>2
<1>4. CASE Reached(p, r, b)
  <2>1. start \in Int /\ start <= b /\ start # Never
    BY <1>1, <1>4 DEF Reached, start
  <2>2. BriefFits(p, r, RungBase(r), b)
    BY <1>2, <1>4, StartIs DEF Started
  <2>3. LongestPrefix(p, r, b) \in 0..Len(p.items)
    BY PositionsAre, PrefixGrows DEF Started
  <2>4. Admitted(p, LongestPrefix(p, r, b)) \in Nat
    BY <2>3, EvidenceNested DEF Started
  <2>5. FineAt(p, r, b) \in RungChoices
    BY <1>2, <2>4 DEF FineAt, RungChoices
  <2>6. start > 0 => start - 1 \in Asked
    BY <1>2, <2>1 DEF Asked
  <2>7. NoChoice \in RungChoices
    BY <1>2 DEF NoChoice, RungChoices
  <2>8. KeptAt(p, r, coarser) \in RungChoices
    BY <2>6, <2>7 DEF KeptAt, start
  <2>9. KeptAt(p, r, coarser) = IF start > 0 THEN coarser[start - 1] ELSE NoChoice
    BY DEF KeptAt, start
  <2>10. ChoiceAt(p, r, b, coarser) = FinerIfMore(FineAt(p, r, b), KeptAt(p, r, coarser))
    BY <1>1, <2>1, <2>2, <2>9 DEF ChoiceAt, FineAt, Admitted
  <2>11. ChoiceAt(p, r, b, coarser) \in RungChoices
    BY <2>5, <2>8, <2>10 DEF FinerIfMore
  <2> QED BY <1>4, <2>5, <2>6, <2>8, <2>10, <2>11 DEF start
<1> QED BY <1>3, <1>4

NoChoices == [c \in Asked |-> NoChoice]

ChoiceTable(p, rows) ==
  /\ rows \in [0..Len(Rungs) -> [Asked -> RungChoices]]
  /\ rows[0] = NoChoices
  /\ \A r \in 1..Len(Rungs) : \A b \in Asked : rows[r][b] = ChoiceAt(p, r, b, rows[r - 1])

LEMMA ChoicesByRung ==
  ASSUME NEW p, Started(p)
  PROVE  \E rows : /\ ChoiceTable(p, rows)
                   /\ \A b \in Asked : RungChoice(p, Len(Rungs), b) = rows[Len(Rungs)][b]
<1> DEFINE n == Len(Rungs)
           S == [Asked -> RungChoices]
           Row(r, row) == [b \in Asked |-> ChoiceAt(p, r, b, row)]
           F == [r \in 1..n |-> [row \in S |-> Row(r, row)]]
           G(g) == [s \in 0..n |->
                      [c \in Asked |-> IF s = 0 THEN NoChoice ELSE ChoiceAt(p, s, c, g[s - 1])]]
<1>1. n \in Nat /\ DOMAIN Rungs = 1..n
  BY BriefAssumption
<1>2. \A r \in 1..n : \A row \in S : Row(r, row) \in S
  <2> SUFFICES ASSUME NEW r \in 1..n, NEW row \in S PROVE Row(r, row) \in S
    OBVIOUS
  <2>1. \A b \in Asked : ChoiceAt(p, r, b, row) \in RungChoices
    BY <1>1, ChoiceIs
  <2> QED BY <2>1
<1>3. NoChoices \in S
  <2>1. NoChoice \in RungChoices
    BY BriefAssumption, <1>1 DEF NoChoice, RungChoices
  <2> QED BY <2>1 DEF NoChoices
<1>4. F \in [1..n -> [S -> S]]
  <2> HIDE DEF Row, S
  <2> QED BY <1>2
<1> HIDE DEF S, n
<1>5. PICK f : Recursion(n, S, NoChoices, F, f)
  <2> HIDE DEF F
  <2> QED BY <1>1, <1>3, <1>4, RecursionExists
<1>6. \A r \in 1..n : r - 1 \in 0..n
  BY <1>1
<1>7. /\ f \in [0..n -> S] /\ f[0] = NoChoices
      /\ \A r \in 1..n : f[r] = Row(r, f[r - 1])
  <2> HIDE DEF Row
  <2> QED BY <1>5, <1>6 DEF Recursion
<1>8. f = G(f)
  <2>1. \A s \in 0..n : f[s] = G(f)[s]
    <3> SUFFICES ASSUME NEW s \in 0..n PROVE f[s] = G(f)[s]
      OBVIOUS
    <3>1. CASE s = 0
      BY <1>7, <3>1 DEF NoChoices
    <3>2. CASE s # 0
      <4>1. s \in 1..n
        BY <1>1, <3>2
      <4> QED BY <1>7, <3>2, <4>1
    <3> QED BY <3>1, <3>2
  <2> QED BY <1>7, <2>1
<1> DEFINE rows == CHOOSE g : g = G(g)
<1>9. rows = G(rows)
  <2> HIDE DEF G
  <2> QED BY <1>8
<1>10. \A b \in Asked : RungChoice(p, n, b) = rows[n][b]
  BY DEF RungChoice, rows, n, Asked
<1> HIDE DEF rows
<1>11. /\ rows[0] = NoChoices
       /\ \A r \in 1..n : rows[r] = Row(r, rows[r - 1])
  <2>1. \A s \in 0..n :
          rows[s] = [c \in Asked |-> IF s = 0 THEN NoChoice ELSE ChoiceAt(p, s, c, rows[s - 1])]
    BY <1>9
  <2>2. rows[0] = NoChoices
    <3>1. 0 \in 0..n
      BY <1>1
    <3>2. rows[0] = [c \in Asked |-> IF 0 = 0 THEN NoChoice ELSE ChoiceAt(p, 0, c, rows[0 - 1])]
      BY <2>1, <3>1
    <3> QED BY <3>2 DEF NoChoices
  <2>3. ASSUME NEW r \in 1..n PROVE rows[r] = Row(r, rows[r - 1])
    <3>1. r \in 0..n /\ r # 0
      BY <1>1
    <3> QED BY <2>1, <3>1
  <2> QED BY <2>2, <2>3
<1>12. \A r \in 0..n : rows[r] \in S
  <2> DEFINE Good == {r \in 0..n : rows[r] \in S}
  <2>1. 0 \in Good
    BY <1>1, <1>3, <1>11
  <2>2. ASSUME NEW r \in 1..n, r - 1 \in Good PROVE r \in Good
    <3> HIDE DEF Row
    <3> QED BY <1>1, <1>2, <1>11, <2>2
  <2>3. Good \in SUBSET (0..n)
    OBVIOUS
  <2> HIDE DEF Good
  <2>4. \A r \in 0..n : r \in Good
    BY <1>1, <2>1, <2>2, <2>3, NumbersInTurn
  <2> QED BY <2>4 DEF Good
<1>13. rows \in [0..n -> S]
  <2>1. rows = [r \in 0..n |-> rows[r]]
    BY <1>9
  <2> QED BY <1>12, <2>1
<1>14. \A r \in 1..n : \A b \in Asked : rows[r][b] = ChoiceAt(p, r, b, rows[r - 1])
  BY <1>11
<1>15. ChoiceTable(p, rows)
  BY <1>11, <1>13, <1>14 DEF ChoiceTable, n, S
<1> QED BY <1>10, <1>15 DEF n

\* What is chosen for budget b among the first r rungs.
Valid(p, r, b, c) ==
  c # NoChoice =>
    /\ c.rung \in 1..r /\ c.budget \in 0..b /\ Reached(p, c.rung, c.budget)
    /\ c.admitted = Admitted(p, LongestPrefix(p, c.rung, c.budget))

RowSound(p, r, row) ==
  /\ \A b \in Asked : Valid(p, r, b, row[b])
  /\ \A b, c \in Asked :
       b <= c => row[b].rung <= row[c].rung /\ row[b].admitted <= row[c].admitted
  /\ \A b \in Asked : r > 0 /\ BriefFits(p, 1, RungBase(1), b) => row[b] # NoChoice

LEMMA FinerIs ==
  ASSUME NEW fine \in RungChoices, NEW kept \in RungChoices
  PROVE  \/ FinerIfMore(fine, kept) = kept /\ kept # NoChoice /\ fine.admitted < kept.admitted
         \/ FinerIfMore(fine, kept) = fine /\ kept.admitted <= fine.admitted
<1>1. fine.admitted \in Nat /\ kept.admitted \in Nat
  BY DEF RungChoices
<1>2. kept = NoChoice => kept.admitted = 0
  BY DEF NoChoice
<1> QED BY <1>1, <1>2 DEF FinerIfMore

LEMMA RowFollows ==
  ASSUME NEW p, Started(p), NEW r \in 1..Len(Rungs), NEW coarser \in [Asked -> RungChoices],
         RowSound(p, r - 1, coarser), NEW row \in [Asked -> RungChoices],
         \A b \in Asked : row[b] = ChoiceAt(p, r, b, coarser)
  PROVE  RowSound(p, r, row)
<1> DEFINE start == RungStart(p, r)
           Fine(b) == FineAt(p, r, b)
           kept == KeptAt(p, r, coarser)
<1>1. /\ Prepared(p) /\ r \in DOMAIN Rungs /\ r \in Nat /\ r >= 1 /\ r <= Len(Rungs)
      /\ Len(Rungs) \in Nat /\ start \in Int \cup {Never} /\ Never \notin Int
  BY StartIs, BriefAssumption DEF Started
<1>2. \A b \in Asked : b \in Nat
  BY BriefAssumption DEF Asked
<1>3. \A b \in Asked : Reached(p, r, b) => start \in Int /\ start <= b
  BY <1>1 DEF Reached
<1>4. \A b \in Asked : ~Reached(p, r, b) => row[b] = coarser[b]
  BY <1>1, ChoiceIs
<1>5. \A b \in Asked : Reached(p, r, b) =>
        /\ kept \in RungChoices /\ Fine(b) \in RungChoices /\ row[b] = FinerIfMore(Fine(b), kept)
        /\ start > 0 => start - 1 \in Asked
  BY <1>1, ChoiceIs
<1>6. \A b \in Asked : Reached(p, r, b) =>
        \/ row[b] = kept /\ kept # NoChoice /\ Fine(b).admitted < kept.admitted
        \/ row[b] = Fine(b) /\ kept.admitted <= Fine(b).admitted
  BY <1>5, FinerIs
<1>7. kept = (IF start > 0 THEN coarser[start - 1] ELSE NoChoice)
  BY DEF KeptAt
<1>8. \A b \in Asked :
        Fine(b).rung = r /\ Fine(b).budget = b
        /\ Fine(b).admitted = Admitted(p, LongestPrefix(p, r, b))
  BY DEF FineAt
<1>9. \A b \in Asked : \A c \in RungChoices :
        coarser[b] \in RungChoices /\ coarser[b].rung \in Nat /\ coarser[b].rung <= r - 1
        /\ coarser[b].admitted \in Nat /\ c.admitted \in Nat /\ c.rung \in Nat
  <2>1. \A c \in RungChoices : c.admitted \in Nat /\ c.rung \in Nat
    BY <1>1 DEF RungChoices
  <2> SUFFICES ASSUME NEW b \in Asked PROVE coarser[b].rung <= r - 1
    BY <2>1
  <2>2. CASE coarser[b] = NoChoice
    BY <1>1, <2>2 DEF NoChoice
  <2>3. CASE coarser[b] # NoChoice
    <3>1. coarser[b].rung \in 1..r - 1
      BY <2>3 DEF RowSound, Valid
    <3> QED BY <1>1, <3>1
  <2> QED BY <2>2, <2>3
<1> HIDE DEF start, Fine, kept
<1>10. \A b, c \in Asked : b <= c => Fine(b).admitted <= Fine(c).admitted
  <2> SUFFICES ASSUME NEW b \in Asked, NEW c \in Asked, b <= c
               PROVE  Fine(b).admitted <= Fine(c).admitted
    OBVIOUS
  <2>1. Len(p.items) \in Nat
    BY <1>1, PositionsAre
  <2>2. \A m \in 0..Len(p.items) : Reaches(p, r, b, m) => Reaches(p, r, c, m)
    <3> SUFFICES ASSUME NEW m \in 0..Len(p.items), Reaches(p, r, b, m)
                 PROVE  Reaches(p, r, c, m)
      OBVIOUS
    <3>1. RungBase(r) \cup Prefix(p, m) \in Selections(p)
      BY <1>1, PrefixSelected
    <3>2. b \in Int /\ c \in Int
      BY <1>2
    <3> QED BY <1>1, <3>1, <3>2, FitsLarger DEF Reaches
  <2>3. /\ LongestPrefix(p, r, b) \in 0..Len(p.items) /\ LongestPrefix(p, r, c) \in 0..Len(p.items)
        /\ LongestPrefix(p, r, b) <= LongestPrefix(p, r, c)
    BY <2>1, <2>2, PrefixGrows
  <2>4. Admitted(p, LongestPrefix(p, r, b)) <= Admitted(p, LongestPrefix(p, r, c))
    BY <1>1, <2>3, EvidenceNested
  <2> QED BY <1>8, <2>4
<1>11. \A b \in Asked : Valid(p, r, b, row[b])
  <2> SUFFICES ASSUME NEW b \in Asked, row[b] # NoChoice PROVE Valid(p, r, b, row[b])
    BY DEF Valid
  <2>1. ASSUME NEW c \in Asked, c <= b, row[b] = coarser[c] PROVE Valid(p, r, b, row[b])
    <3>1. Valid(p, r - 1, c, coarser[c])
      BY DEF RowSound
    <3>2. \A x \in 1..r - 1 : x \in 1..r
      BY <1>1
    <3>3. \A x \in 0..c : x \in 0..b
      BY <1>2, <2>1
    <3> QED BY <2>1, <3>1, <3>2, <3>3 DEF Valid
  <2>2. CASE ~Reached(p, r, b)
    BY <1>2, <1>4, <2>1, <2>2
  <2>3. CASE Reached(p, r, b) /\ row[b] = Fine(b)
    <3>1. r \in 1..r /\ b \in 0..b
      BY <1>1, <1>2
    <3> QED BY <1>8, <2>3, <3>1 DEF Valid
  <2>4. CASE Reached(p, r, b) /\ row[b] = kept /\ kept # NoChoice
    <3>1. start > 0 /\ kept = coarser[start - 1] /\ start - 1 \in Asked /\ start - 1 <= b
      BY <1>2, <1>3, <1>5, <1>7, <2>4
    <3> QED BY <2>1, <2>4, <3>1
  <2> QED BY <1>6, <2>2, <2>3, <2>4
<1>12. ASSUME NEW b \in Asked, NEW c \in Asked, b <= c
       PROVE  row[b].rung <= row[c].rung /\ row[b].admitted <= row[c].admitted
  <2>1. \A x, y \in Asked :
          x <= y => coarser[x].rung <= coarser[y].rung /\ coarser[x].admitted <= coarser[y].admitted
    BY DEF RowSound
  <2>2. CASE ~Reached(p, r, b) /\ ~Reached(p, r, c)
    BY <1>4, <1>12, <2>1, <2>2
  <2>3. CASE ~Reached(p, r, b) /\ Reached(p, r, c)
    <3>1. start \in Int /\ start > b
      BY <1>1, <1>2, <1>3, <2>3 DEF Reached, start
    <3>2. start > 0 /\ start - 1 \in Asked /\ b <= start - 1 /\ kept = coarser[start - 1]
      BY <1>2, <1>5, <1>7, <2>3, <3>1
    <3>3. coarser[b].rung <= kept.rung /\ coarser[b].admitted <= kept.admitted /\ row[b] = coarser[b]
      BY <1>4, <2>1, <2>3, <3>2
    <3>4. /\ kept \in RungChoices /\ Fine(c) \in RungChoices /\ kept.admitted \in Nat
          /\ coarser[b].rung \in Nat /\ coarser[b].rung <= r - 1 /\ coarser[b].admitted \in Nat
          /\ Fine(c).admitted \in Nat /\ Fine(c).rung = r
      BY <1>5, <1>8, <1>9, <2>3
    <3>5. CASE row[c] = kept
      BY <3>3, <3>5
    <3>6. CASE row[c] = Fine(c) /\ kept.admitted <= Fine(c).admitted
      BY <1>1, <3>3, <3>4, <3>6
    <3> QED BY <1>6, <2>3, <3>5, <3>6
  <2>4. CASE Reached(p, r, b) /\ ~Reached(p, r, c)
    <3>1. start <= c
      BY <1>2, <1>3, <1>12, <2>4
    <3> QED BY <2>4, <3>1 DEF Reached, start
  <2>5. CASE Reached(p, r, b) /\ Reached(p, r, c)
    <3>1. /\ kept \in RungChoices /\ Fine(b) \in RungChoices /\ Fine(c) \in RungChoices
          /\ kept.admitted \in Nat /\ kept.rung \in Nat
          /\ Fine(b).admitted \in Nat /\ Fine(c).admitted \in Nat
          /\ Fine(b).admitted <= Fine(c).admitted /\ Fine(b).rung = r /\ Fine(c).rung = r
      BY <1>5, <1>8, <1>9, <1>10, <1>12, <2>5
    <3>2. \/ row[b] = kept /\ kept # NoChoice /\ Fine(b).admitted < kept.admitted
          \/ row[b] = Fine(b) /\ kept.admitted <= Fine(b).admitted
      BY <1>6, <2>5
    <3>3. \/ row[c] = kept /\ kept # NoChoice /\ Fine(c).admitted < kept.admitted
          \/ row[c] = Fine(c) /\ kept.admitted <= Fine(c).admitted
      BY <1>6, <2>5
    <3>4. kept # NoChoice => kept.rung <= r
      <4> SUFFICES ASSUME kept # NoChoice PROVE kept.rung <= r
        OBVIOUS
      <4>1. start - 1 \in Asked /\ kept = coarser[start - 1]
        BY <1>5, <1>7, <2>5
      <4>2. kept.rung \in Nat /\ kept.rung <= r - 1
        BY <1>9, <3>1, <4>1
      <4> QED BY <1>1, <4>2
    <3>5. CASE row[b] = kept /\ row[c] = kept
      BY <3>1, <3>5
    <3>6. CASE row[b] = kept /\ kept # NoChoice /\ row[c] = Fine(c) /\ kept.admitted <= Fine(c).admitted
      BY <3>1, <3>4, <3>6
    <3>7. CASE row[b] = Fine(b) /\ row[c] = Fine(c)
      BY <1>1, <3>1, <3>7
    <3>8. CASE kept.admitted <= Fine(b).admitted /\ Fine(c).admitted < kept.admitted
      BY <3>1, <3>8
    <3> QED BY <3>2, <3>3, <3>5, <3>6, <3>7, <3>8
  <2> QED BY <2>2, <2>3, <2>4, <2>5
<1>13. ASSUME NEW b \in Asked, BriefFits(p, 1, RungBase(1), b)
       PROVE  row[b] # NoChoice
  <2>1. CASE Reached(p, r, b)
    <3>1. \A x \in RungChoices : Fine(b) # NoChoice
      BY <1>1, <1>8 DEF NoChoice
    <3> QED BY <1>5, <1>6, <2>1, <3>1
  <2>2. CASE ~Reached(p, r, b) /\ r = 1
    <3>1. Reached(p, 1, b)
      BY <1>1, <1>2, <1>13, <2>2, StartIs
    <3> QED BY <2>2, <3>1
  <2>3. CASE ~Reached(p, r, b) /\ r # 1
    <3>1. r - 1 > 0
      BY <1>1, <2>3
    <3> QED BY <1>4, <1>13, <2>3, <3>1 DEF RowSound
  <2> QED BY <2>1, <2>2, <2>3
<1> QED BY <1>11, <1>12, <1>13 DEF RowSound

\* rung_choice: what a larger budget chooses has no coarser rung and shows no
\* less of the changes, and only what does not fit the coarsest rung is refused.
LEMMA ChoicesSound ==
  ASSUME NEW p, Started(p)
  PROVE  RowSound(p, Len(Rungs), [b \in Asked |-> RungChoice(p, Len(Rungs), b)])
<1> DEFINE n == Len(Rungs)
<1>1. n \in Nat /\ n > 0
  BY BriefAssumption
<1>2. PICK rows : /\ ChoiceTable(p, rows)
                  /\ \A b \in Asked : RungChoice(p, n, b) = rows[n][b]
  BY ChoicesByRung
<1>3. /\ rows \in [0..n -> [Asked -> RungChoices]] /\ rows[0] = NoChoices
      /\ \A r \in 1..n : \A b \in Asked : rows[r][b] = ChoiceAt(p, r, b, rows[r - 1])
  BY <1>2 DEF ChoiceTable
<1> DEFINE Good == {r \in 0..n : RowSound(p, r, rows[r])}
<1>4. 0 \in Good
  <2>1. \A b \in Asked : NoChoices[b] = NoChoice
    BY DEF NoChoices
  <2>2. NoChoice.rung <= NoChoice.rung /\ NoChoice.admitted <= NoChoice.admitted
    BY DEF NoChoice
  <2>3. RowSound(p, 0, NoChoices)
    BY <2>1, <2>2 DEF RowSound, Valid
  <2> QED BY <1>1, <1>3, <2>3
<1>5. ASSUME NEW r \in 1..n, r - 1 \in Good PROVE r \in Good
  <2>1. r \in 0..n /\ r - 1 \in 0..n
    BY <1>1
  <2>2. rows[r] \in [Asked -> RungChoices] /\ rows[r - 1] \in [Asked -> RungChoices]
    BY <1>3, <2>1
  <2>3. RowSound(p, r, rows[r])
    BY <1>3, <1>5, <2>2, RowFollows
  <2> QED BY <2>1, <2>3
<1>6. \A r \in 0..n : r \in Good
  <2>1. Good \in SUBSET (0..n)
    OBVIOUS
  <2> HIDE DEF Good, n
  <2> QED BY <1>1, <1>4, <1>5, <2>1, NumbersInTurn
<1>7. RowSound(p, n, rows[n])
  BY <1>1, <1>6
<1> DEFINE row == [b \in Asked |-> RungChoice(p, n, b)]
<1>8. row = rows[n]
  <2>1. rows[n] \in [Asked -> RungChoices]
    BY <1>1, <1>3
  <2>2. \A b \in Asked : row[b] = rows[n][b]
    BY <1>2
  <2> QED BY <2>1, <2>2
<1> QED BY <1>7, <1>8

-------------------------------------------------------------------------------
(* The brief on one budget after the other. *)

LEMMA SameStarts ==
  ASSUME NEW p, NEW q, p.brief = q.brief, p.items = q.items, NEW r
  PROVE  RungStart(p, r) = RungStart(q, r)
<1>1. \A n : Prefix(p, n) = Prefix(q, n)
  BY DEF Prefix
<1>2. \A sel : Rendered(p, r, sel) = Rendered(q, r, sel)
  BY DEF Rendered
<1>3. \A sel : BriefCost(p, r, sel) = BriefCost(q, r, sel)
  BY <1>2 DEF BriefCost
<1>4. \A kind : PositionsOf(p, kind) = PositionsOf(q, kind)
  BY DEF PositionsOf
<1>5. ToFirst(p) = ToFirst(q)
  BY <1>4 DEF ToFirst
<1>6. ExplainedAt(p) = ExplainedAt(q)
  BY <1>4 DEF ExplainedAt
<1>7. \A n : StartAt(p, r, n) = StartAt(q, r, n)
  <2> SUFFICES ASSUME NEW n PROVE StartAt(p, r, n) = StartAt(q, r, n)
    OBVIOUS
  <2>1. /\ BriefCost(p, r, RungBase(r)) = BriefCost(q, r, RungBase(r))
        /\ BriefCost(p, r, RungBase(r) \cup Prefix(p, n))
             = BriefCost(q, r, RungBase(r) \cup Prefix(q, n))
    BY <1>1, <1>3
  <2> QED BY <2>1 DEF StartAt
<1>8. ASSUME NEW x
       PROVE  RungStart(x, r) =
                IF r = 1 THEN StartAt(x, r, 0)
                ELSE IF ~Rungs[r].sites THEN StartAt(x, r, ToFirst(x))
                ELSE IF ExplainedAt(x) = {} THEN Never
                ELSE StartAt(x, r, Min(ExplainedAt(x)) - 1)
  BY DEF RungStart, StartAt
<1>9. RungStart(p, r) = RungStart(q, r)
  BY <1>5, <1>6, <1>7, <1>8
<1> QED BY <1>9

\* The projection of a brief, whatever the budget.
Whole(b) ==
  [brief |-> b, items |-> BriefItems(b),
   starts |-> [r \in DOMAIN Rungs |->
                 RungStart([brief |-> b, items |-> BriefItems(b), starts |-> <<>>], r)]]

LEMMA WholeStarted ==
  ASSUME NEW b \in Briefs
  PROVE  Started(Whole(b)) /\ Whole(b).brief = b /\ Whole(b).items = BriefItems(b)
<1> DEFINE q == [brief |-> b, items |-> BriefItems(b), starts |-> <<>>]
<1>1. Whole(b).brief = b /\ Whole(b).items = BriefItems(b)
      /\ Whole(b).starts = [r \in DOMAIN Rungs |-> RungStart(q, r)]
  BY DEF Whole
<1>2. q.brief = b /\ q.items = BriefItems(b)
  OBVIOUS
<1> HIDE DEF q
<1>3. \A r \in DOMAIN Rungs : RungStart(Whole(b), r) = RungStart(q, r)
  BY <1>1, <1>2, SameStarts
<1> QED BY <1>1, <1>3 DEF Started, Prepared

\* What the brief chooses for budget n, and what that puts into the prefix.
ChosenFor(b, n) == IF n < 0 THEN NoChoice ELSE RungChoice(Whole(b), Len(Rungs), n)
Ground(b, c) ==
  IF c = NoChoice THEN {}
  ELSE RungBase(c.rung) \cup Prefix(Whole(b), LongestPrefix(Whole(b), c.rung, c.budget))

\* A selection that grew from there.
Grown(b, c, sel) ==
  /\ Ground(b, c) \subseteq sel
  /\ sel \subseteq Ground(b, c) \cup (Shown(Whole(b)) \ {ExplainedSites})
  /\ sel \in Selections(Whole(b)) /\ Evidence(sel) = Evidence(Ground(b, c))
  /\ IF c = NoChoice THEN sel = {} ELSE BriefFits(Whole(b), c.rung, sel, c.budget)
  /\ \A i \in sel : Told(b, sel, i)

Showing(b, c) == [rung |-> c.rung, shown |-> Evidence(Ground(b, c))]

\* The budget that the selection was made for.
AskedBefore == IF briefPhase \in {"list", "rungs", "choose"} THEN budget - 1 ELSE budget

\* The inductive invariant.
BriefInv ==
  /\ brief \in Briefs /\ budget \in Asked
  /\ briefPhase \in {"list", "rungs", "choose", "greedy", "shown", "refused"}
  /\ briefPhase # "list" \/ budget > 0 => items = BriefItems(brief)
  /\ briefPhase \in {"choose", "greedy", "shown", "refused"} => starts = Whole(brief).starts
  /\ choice = ChosenFor(brief, AskedBefore)
  /\ briefPhase \in {"greedy", "shown"} => choice # NoChoice
  /\ briefPhase = "refused" => choice = NoChoice
  /\ Grown(brief, choice, selection)
  /\ later \in Seq(Shown(Whole(brief)) \ {ExplainedSites})
  /\ smaller = Showing(brief, ChosenFor(brief, budget - 1))

LEMMA ChosenIs ==
  ASSUME NEW b \in Briefs, NEW n \in Asked \cup {-1}
  PROVE  LET c == ChosenFor(b, n)
         IN c # NoChoice => /\ n \in Asked /\ c.rung \in DOMAIN Rungs /\ c.budget \in 0..n
                            /\ Reached(Whole(b), c.rung, c.budget)
<1>1. n = -1 => ChosenFor(b, n) = NoChoice
  BY DEF ChosenFor
<1>2. ASSUME n \in Asked, ChosenFor(b, n) # NoChoice
      PROVE  LET c == ChosenFor(b, n)
             IN /\ c.rung \in DOMAIN Rungs /\ c.budget \in 0..n
                /\ Reached(Whole(b), c.rung, c.budget)
  <2>1. ChosenFor(b, n) = RungChoice(Whole(b), Len(Rungs), n)
    BY <1>2 DEF ChosenFor, Asked
  <2>2. Valid(Whole(b), Len(Rungs), n, RungChoice(Whole(b), Len(Rungs), n))
    BY <1>2, WholeStarted, ChoicesSound DEF RowSound
  <2>3. DOMAIN Rungs = 1..Len(Rungs)
    BY BriefAssumption
  <2> QED BY <1>2, <2>1, <2>2, <2>3 DEF Valid
<1> QED BY <1>1, <1>2

LEMMA GroundGrown ==
  ASSUME NEW b \in Briefs, NEW n \in Asked \cup {-1}
  PROVE  Grown(b, ChosenFor(b, n), Ground(b, ChosenFor(b, n)))
<1> DEFINE c == ChosenFor(b, n)
           p == Whole(b)
           low == LongestPrefix(p, c.rung, c.budget)
           sel == Ground(b, c)
<1>1. CASE c = NoChoice
  <2>1. sel = {}
    BY <1>1 DEF Ground
  <2>2. sel \in Selections(p)
    BY <2>1, FS_EmptySet DEF Selections
  <2> QED BY <1>1, <2>1, <2>2 DEF Grown
<1>2. CASE c # NoChoice
  <2>1. /\ n \in Asked /\ c.rung \in DOMAIN Rungs /\ c.budget \in 0..n
        /\ Reached(p, c.rung, c.budget)
    BY <1>2, ChosenIs
  <2>2. Started(p) /\ Prepared(p) /\ p.brief = b
    BY WholeStarted DEF Started
  <2>3. c.budget \in Int
    BY <2>1
  <2> HIDE DEF c, p
  <2>4. BriefFits(p, c.rung, RungBase(c.rung), c.budget)
    BY <2>1, <2>2, <2>3, StartIs
  <2>5. Len(p.items) \in Nat
    BY <2>2, PositionsAre
  <2>6. Reaches(p, c.rung, c.budget, low)
    BY <2>4, <2>5, PrefixFits
  <2>7. low \in 0..Len(p.items)
    BY <2>5, PrefixGrows
  <2>8. sel = RungBase(c.rung) \cup Prefix(p, low)
    BY <1>2 DEF Ground, c, p
  <2> HIDE DEF low, sel
  <2>9. sel \in Selections(p) /\ BriefFits(p, c.rung, sel, c.budget)
    BY <2>2, <2>6, <2>7, <2>8, PrefixSelected DEF Reaches
  <2>10. ASSUME NEW i \in sel PROVE Told(b, sel, i)
    <3>1. CASE i \in RungBase(c.rung)
      <4>1. i = ExplainedSites
        BY <3>1 DEF RungBase
      <4>2. EntryOf(b, i) = {}
        BY <4>1 DEF EntryOf, ExplainedSites, Item
      <4> QED BY <4>2 DEF Told
    <3>2. CASE i \in Prefix(p, low)
      <4>1. Told(b, Prefix(p, low), i)
        BY <2>2, <2>7, <3>2, EntriesFirst
      <4> QED BY <2>8, <4>1 DEF Told
    <3> QED BY <2>8, <3>1, <3>2
  <2> QED BY <1>2, <2>9, <2>10 DEF Grown, c, p, sel
<1> QED BY <1>1, <1>2

LEMMA BriefStarts == BriefInit => BriefInv
<1> SUFFICES ASSUME BriefInit PROVE BriefInv
  OBVIOUS
<1>1. brief \in Briefs /\ budget = 0 /\ MaxBudget \in Nat /\ briefPhase = "list"
  BY BriefAssumption DEF BriefInit
<1>2. AskedBefore = -1 /\ budget - 1 = -1
  BY <1>1 DEF AskedBefore
<1>3. ChosenFor(brief, -1) = NoChoice /\ Ground(brief, NoChoice) = {}
  BY DEF ChosenFor, Ground
<1>4. Grown(brief, NoChoice, {})
  BY <1>1, <1>3, GroundGrown
<1>5. smaller = Showing(brief, NoChoice)
  BY <1>3 DEF BriefInit, Showing, NoChoice, Evidence
<1> QED BY <1>1, <1>2, <1>3, <1>4, <1>5 DEF BriefInv, BriefInit, Asked

LEMMA ListItemsKeeps == ASSUME BriefInv, ListItems PROVE BriefInv'
<1>1. AskedBefore' = AskedBefore
  BY DEF ListItems, AskedBefore
<1> QED BY <1>1 DEF BriefInv, ListItems

LEMMA StartRungsKeeps == ASSUME BriefInv, StartRungs PROVE BriefInv'
<1>1. AskedBefore' = AskedBefore
  BY DEF StartRungs, AskedBefore
<1>2. brief \in Briefs /\ items = BriefItems(brief)
  BY DEF BriefInv, StartRungs
<1>3. \A r : RungStart(Projection, r)
               = RungStart([brief |-> brief, items |-> BriefItems(brief), starts |-> <<>>], r)
  BY <1>2, SameStarts DEF Projection
<1>4. starts' = Whole(brief).starts
  BY <1>3 DEF StartRungs, Whole
<1> QED BY <1>1, <1>2, <1>4 DEF BriefInv, StartRungs

LEMMA ProjectionIsWhole ==
  ASSUME BriefInv, briefPhase \in {"choose", "greedy", "shown", "refused"}
  PROVE  Projection = Whole(brief)
<1>1. items = BriefItems(brief) /\ starts = Whole(brief).starts
  BY DEF BriefInv
<1> QED BY <1>1 DEF Projection, Whole

LEMMA ChooseKeeps == ASSUME BriefInv, Choose PROVE BriefInv'
<1> DEFINE chosen == ChosenFor(brief, budget)
           low == LongestPrefix(Whole(brief), chosen.rung, chosen.budget)
<1>1. /\ brief \in Briefs /\ budget \in Asked /\ budget \in Nat /\ items = BriefItems(brief)
      /\ starts = Whole(brief).starts
      /\ smaller = Showing(brief, ChosenFor(brief, budget - 1))
  BY BriefAssumption DEF BriefInv, Choose, Asked
<1>2. Projection = Whole(brief) /\ RungChoice(Projection, Len(Rungs), budget) = chosen
  <2>1. Projection = Whole(brief)
    BY ProjectionIsWhole DEF Choose
  <2>2. ~(budget < 0)
    BY <1>1
  <2> QED BY <2>1, <2>2 DEF ChosenFor
<1> HIDE DEF chosen
<1>3. /\ brief' = brief /\ budget' = budget /\ items' = items /\ starts' = starts
      /\ smaller' = smaller /\ choice' = chosen
      /\ IF chosen = NoChoice
         THEN selection' = {} /\ later' = <<>> /\ briefPhase' = "refused"
         ELSE /\ selection' = RungBase(chosen.rung) \cup Prefix(Whole(brief), low)
              /\ later' = SubSeq(items, low + 2, Len(items))
              /\ briefPhase' = "greedy"
  BY <1>2 DEF Choose, projectionVars
<1>4. selection' = Ground(brief, chosen)
  BY <1>3 DEF Ground
<1>5. Grown(brief', choice', selection')
  BY <1>1, <1>3, <1>4, GroundGrown DEF chosen
<1>6. AskedBefore' = budget
  BY <1>3 DEF AskedBefore
<1>7. later' \in Seq(Shown(Whole(brief)) \ {ExplainedSites})
  <2> DEFINE S == Shown(Whole(brief)) \ {ExplainedSites}
  <2>1. Prepared(Whole(brief)) /\ Whole(brief).items = items
    BY <1>1, WholeStarted DEF Started
  <2>2. Len(items) \in Nat /\ \A j \in 1..Len(items) : items[j] \in S
    BY <2>1, ItemsShown DEF ExplainedSites, Item
  <2>3. low \in 0..Len(items)
    BY <2>1, <2>2, PrefixGrows
  <2> HIDE DEF low, S
  <2>4. \A j \in low + 2..Len(items) : items[j] \in S
    BY <2>2, <2>3
  <2>5. SubSeq(items, low + 2, Len(items)) \in Seq(S)
    BY <2>2, <2>3, <2>4, SubSeqProperties
  <2>6. <<>> \in Seq(S)
    OBVIOUS
  <2> QED BY <1>3, <2>5, <2>6 DEF S
<1>8. briefPhase' \in {"greedy", "refused"}
      /\ (briefPhase' = "greedy" => chosen # NoChoice)
      /\ (briefPhase' = "refused" => chosen = NoChoice)
  BY <1>3
<1> QED BY <1>1, <1>3, <1>5, <1>6, <1>7, <1>8 DEF BriefInv, chosen

LEMMA AdmitLaterKeeps == ASSUME BriefInv, AdmitLater PROVE BriefInv'
<1> DEFINE p == Whole(brief)
           i == Head(later)
           S == Shown(p) \ {ExplainedSites}
<1>1. /\ brief \in Briefs /\ Grown(brief, choice, selection) /\ later \in Seq(S) /\ later # <<>>
      /\ choice # NoChoice
  BY DEF BriefInv, AdmitLater
<1>2. Projection = p
  BY ProjectionIsWhole DEF AdmitLater
<1>3. i \in S /\ Tail(later) \in Seq(S)
  <2> HIDE DEF S
  <2> QED BY <1>1, HeadTailProperties
<1>4. /\ brief' = brief /\ budget' = budget /\ items' = items /\ starts' = starts
      /\ choice' = choice /\ smaller' = smaller /\ briefPhase' = briefPhase
      /\ later' = Tail(later)
      /\ selection' = IF ~Passed(i) /\ BriefFits(p, choice.rung, selection \cup {i}, choice.budget)
                      THEN selection \cup {i} ELSE selection
  BY <1>2 DEF AdmitLater, projectionVars
<1>5. AskedBefore' = AskedBefore
  BY <1>4 DEF AskedBefore
<1>6. Grown(brief, choice, selection')
  <2>1. CASE selection' = selection
    BY <1>1, <2>1
  <2>2. CASE /\ ~Passed(i) /\ selection' = selection \cup {i}
             /\ BriefFits(p, choice.rung, selection \cup {i}, choice.budget)
    <3> DEFINE sel == selection \cup {i}
    <3>1. sel \in Selections(p)
      <4>1. IsFiniteSet(sel)
        BY <1>1, FS_AddElement DEF Grown, Selections
      <4> QED BY <1>1, <1>3, <4>1 DEF Grown, Selections
    <3>2. /\ Ground(brief, choice) \subseteq sel
          /\ sel \subseteq Ground(brief, choice) \cup S
      BY <1>1, <1>3 DEF Grown
    <3>3. Evidence(sel) = Evidence(Ground(brief, choice))
      <4>1. i.kind \notin {"entry", "hunk"}
        BY <2>2 DEF Passed
      <4>2. Evidence(sel) = Evidence(selection)
        BY <4>1 DEF Evidence
      <4> QED BY <1>1, <4>2 DEF Grown
    <3>4. ASSUME NEW j \in sel PROVE Told(brief, sel, j)
      <4>1. CASE j \in selection
        BY <1>1, <4>1 DEF Grown, Told
      <4>2. CASE j = i
        BY <2>2, <4>2 DEF Passed, Told
      <4> QED BY <4>1, <4>2
    <3> HIDE DEF sel
    <3>5. BriefFits(p, choice.rung, sel, choice.budget) /\ selection' = sel
      BY <2>2 DEF sel
    <3>6. Grown(brief, choice, sel)
      BY <1>1, <3>1, <3>2, <3>3, <3>4, <3>5 DEF Grown
    <3> QED BY <3>5, <3>6
  <2> QED BY <1>4, <2>1, <2>2
<1> QED BY <1>3, <1>4, <1>5, <1>6 DEF BriefInv

LEMMA EndGreedyKeeps == ASSUME BriefInv, EndGreedy PROVE BriefInv'
<1>1. AskedBefore' = AskedBefore
  BY DEF EndGreedy, AskedBefore
<1> QED BY <1>1 DEF BriefInv, EndGreedy, projectionVars

LEMMA WidenKeeps == ASSUME BriefInv, Widen PROVE BriefInv'
<1>1. /\ budget \in Nat /\ budget' = budget + 1 /\ budget' \in Asked /\ budget' - 1 = budget
  BY BriefAssumption DEF BriefInv, Widen, Asked
<1>2. briefPhase \in {"shown", "refused"} /\ briefPhase' = "list" /\ brief' = brief
      /\ items' = items /\ starts' = starts /\ choice' = choice /\ selection' = selection
      /\ later' = later
      /\ smaller' = [rung |-> choice.rung, shown |-> Evidence(selection)]
  BY DEF Widen, projectionVars
<1>3. AskedBefore = budget /\ AskedBefore' = budget
  BY <1>1, <1>2 DEF AskedBefore
<1>4. choice = ChosenFor(brief, budget) /\ Evidence(selection) = Evidence(Ground(brief, choice))
  BY <1>3 DEF BriefInv, Grown
<1>5. smaller' = Showing(brief, ChosenFor(brief, budget))
  BY <1>2, <1>4 DEF Showing
<1> QED BY <1>1, <1>2, <1>3, <1>4, <1>5 DEF BriefInv

(***************************************************************************)
(* The inductive invariant: the projection is that of the brief, the       *)
(* selection grew from what rung_choice and longest_prefix find for the    *)
(* budget, and what is remembered is what they find for one token less.    *)
(***************************************************************************)
THEOREM BriefInductive == BriefSpec => []BriefInv
<1>1. BriefInit => BriefInv
  BY BriefStarts
<1>2. BriefInv /\ [BriefNext]_briefVars => BriefInv'
  <2> SUFFICES ASSUME BriefInv, [BriefNext]_briefVars PROVE BriefInv'
    OBVIOUS
  <2>1. CASE BriefNext
    BY <2>1, ListItemsKeeps, StartRungsKeeps, ChooseKeeps, AdmitLaterKeeps, EndGreedyKeeps,
       WidenKeeps DEF BriefNext
  <2>2. CASE UNCHANGED briefVars
    BY <2>2 DEF BriefInv, AskedBefore, briefVars, projectionVars
  <2> QED BY <2>1, <2>2
<1> QED BY <1>1, <1>2, PTL DEF BriefSpec

\* What a larger budget chooses shows no less.
LEMMA GroundNested ==
  ASSUME NEW b \in Briefs, NEW m \in Asked, NEW n \in Asked, m <= n
  PROVE  /\ ChosenFor(b, m).rung <= ChosenFor(b, n).rung
         /\ Evidence(Ground(b, ChosenFor(b, m))) \subseteq Evidence(Ground(b, ChosenFor(b, n)))
<1> DEFINE p == Whole(b)
           Low(x) == LongestPrefix(p, ChosenFor(b, x).rung, ChosenFor(b, x).budget)
<1>1. Started(p) /\ Prepared(p) /\ Len(p.items) \in Nat
  BY WholeStarted, PositionsAre DEF Started
<1>2. \A x \in Asked : ChosenFor(b, x) = RungChoice(p, Len(Rungs), x)
  <2>1. \A x \in Asked : ~(x < 0)
    BY DEF Asked
  <2> QED BY <2>1 DEF ChosenFor
<1>3. RowSound(p, Len(Rungs), [x \in Asked |-> RungChoice(p, Len(Rungs), x)])
  BY <1>1, ChoicesSound
<1>4. \A x \in Asked : ChosenFor(b, x) # NoChoice =>
        /\ ChosenFor(b, x).rung \in 1..Len(Rungs)
        /\ ChosenFor(b, x).admitted = Admitted(p, Low(x))
        /\ Low(x) \in 0..Len(p.items)
  <2> SUFFICES ASSUME NEW x \in Asked, ChosenFor(b, x) # NoChoice
               PROVE  /\ ChosenFor(b, x).rung \in 1..Len(Rungs)
                      /\ ChosenFor(b, x).admitted = Admitted(p, Low(x))
                      /\ Low(x) \in 0..Len(p.items)
    OBVIOUS
  <2>1. Valid(p, Len(Rungs), x, ChosenFor(b, x))
    BY <1>2, <1>3 DEF RowSound
  <2>2. Low(x) \in 0..Len(p.items)
    BY <1>1, PrefixGrows
  <2> QED BY <2>1, <2>2 DEF Valid
<1>5. ChosenFor(b, m).rung <= ChosenFor(b, n).rung
      /\ ChosenFor(b, m).admitted <= ChosenFor(b, n).admitted
  BY <1>2, <1>3 DEF RowSound
<1>6. \A x \in Asked : ChosenFor(b, x) # NoChoice =>
        Evidence(Ground(b, ChosenFor(b, x))) = Evidence(Prefix(p, Low(x)))
  <2> SUFFICES ASSUME NEW x \in Asked, ChosenFor(b, x) # NoChoice
               PROVE  Evidence(Ground(b, ChosenFor(b, x))) = Evidence(Prefix(p, Low(x)))
    OBVIOUS
  <2>1. Ground(b, ChosenFor(b, x)) = RungBase(ChosenFor(b, x).rung) \cup Prefix(p, Low(x))
    BY DEF Ground
  <2>2. \A i \in RungBase(ChosenFor(b, x).rung) : i.kind = "explained"
    BY DEF RungBase, ExplainedSites, Item
  <2> QED BY <2>1, <2>2 DEF Evidence
<1> HIDE DEF Low
<1>7. CASE ChosenFor(b, m) = NoChoice
  <2>1. Evidence(Ground(b, ChosenFor(b, m))) = {}
    BY <1>7 DEF Ground, Evidence
  <2> QED BY <1>5, <2>1
<1>8. CASE ChosenFor(b, m) # NoChoice
  <2>1. ChosenFor(b, n) # NoChoice
    <3>1. ChosenFor(b, m).rung \in 1..Len(Rungs) /\ Len(Rungs) \in Nat
      BY <1>4, <1>8, BriefAssumption
    <3> QED BY <1>5, <3>1 DEF NoChoice
  <2>2. Admitted(p, Low(m)) <= Admitted(p, Low(n))
    BY <1>4, <1>5, <1>8, <2>1
  <2>3. Evidence(Prefix(p, Low(m))) \subseteq Evidence(Prefix(p, Low(n)))
    BY <1>1, <1>4, <1>8, <2>1, <2>2, EvidenceNested
  <2> QED BY <1>5, <1>6, <1>8, <2>1, <2>3
<1> QED BY <1>7, <1>8

LEMMA BriefLargerShowsMore == ASSUME BriefInv PROVE LargerShowsMore
<1> SUFFICES ASSUME briefPhase \in {"shown", "refused"}
             PROVE  smaller.rung <= choice.rung /\ smaller.shown \subseteq Evidence(selection)
  BY DEF LargerShowsMore
<1>1. /\ brief \in Briefs /\ budget \in Asked /\ budget \in Nat /\ MaxBudget \in Nat
      /\ smaller = Showing(brief, ChosenFor(brief, budget - 1))
      /\ choice = ChosenFor(brief, budget)
      /\ Evidence(selection) = Evidence(Ground(brief, choice))
  BY BriefAssumption DEF BriefInv, Grown, AskedBefore, Asked
<1>2. CASE budget = 0
  <2>1. budget - 1 < 0
    BY <1>2
  <2>2. ChosenFor(brief, budget - 1) = NoChoice
    BY <2>1 DEF ChosenFor
  <2>3. smaller.rung = 0 /\ smaller.shown = {}
    BY <1>1, <2>2 DEF Showing, NoChoice, Ground, Evidence
  <2>4. choice # NoChoice => choice.rung \in DOMAIN Rungs
    BY <1>1, ChosenIs
  <2>5. choice.rung \in Nat
    BY <2>4, BriefAssumption DEF NoChoice
  <2> QED BY <2>3, <2>5
<1>3. CASE budget # 0
  <2>1. budget - 1 \in Asked /\ budget - 1 <= budget
    BY <1>1, <1>3 DEF Asked
  <2>2. /\ ChosenFor(brief, budget - 1).rung <= choice.rung
        /\ Evidence(Ground(brief, ChosenFor(brief, budget - 1))) \subseteq Evidence(selection)
    BY <1>1, <2>1, GroundNested
  <2> QED BY <1>1, <2>2 DEF Showing
<1> QED BY <1>2, <1>3

LEMMA BriefShownFits == ASSUME BriefInv PROVE ShownFits
<1>1. /\ brief \in Briefs /\ budget \in Asked /\ budget \in Nat
      /\ Grown(brief, choice, selection)
  BY DEF BriefInv, Asked
<1>2. Started(Whole(brief)) /\ Prepared(Whole(brief))
  BY <1>1, WholeStarted DEF Started
<1>3. ASSUME briefPhase \in {"greedy", "shown"}
      PROVE  LET text == Rendered(Projection, choice.rung, selection)
             IN /\ text.bytes <= ByteBudget /\ text.tokens <= budget
                /\ text.soft <= Max({SoftTokens, text.diff \div 2})
  <2>1. Projection = Whole(brief) /\ choice = ChosenFor(brief, budget) /\ choice # NoChoice
    BY <1>3, ProjectionIsWhole DEF BriefInv, AskedBefore
  <2>2. choice.rung \in DOMAIN Rungs /\ choice.budget \in 0..budget
    BY <1>1, <2>1, ChosenIs
  <2>3. BriefFits(Whole(brief), choice.rung, selection, choice.budget)
        /\ selection \in Selections(Whole(brief))
    BY <1>1, <2>1 DEF Grown
  <2>4. choice.budget \in Int /\ budget \in Int /\ choice.budget <= budget
    BY <1>1, <2>2
  <2>5. BriefFits(Whole(brief), choice.rung, selection, budget)
    BY <1>2, <2>2, <2>3, <2>4, FitsLarger
  <2> DEFINE text == Rendered(Whole(brief), choice.rung, selection)
             half == text.diff \div 2
  <2>6. /\ text.bytes \in Nat /\ text.soft \in Nat /\ half \in Int
        /\ SoftTokens \in Int /\ ByteBudget \in Nat
    <3>1. text.bytes \in Nat /\ text.soft \in Nat /\ text.diff \in Nat
      BY <1>2, <2>2, <2>3, TextIs
    <3> QED BY <3>1, BriefAssumption
  <2>7. ~(text.bytes > ByteBudget) /\ ~(text.soft > Max({SoftTokens, half})) /\ text.tokens <= budget
    BY <2>5 DEF BriefFits, RuledOut
  <2> HIDE DEF text, half
  <2>8. Max({SoftTokens, half}) \in Int
    BY <2>6, LargerOfTwo
  <2>9. text.bytes <= ByteBudget /\ text.tokens <= budget /\ text.soft <= Max({SoftTokens, half})
    BY <2>6, <2>7, <2>8
  <2> QED BY <2>1, <2>9 DEF text, half
<1>4. ASSUME briefPhase = "refused" PROVE ~BriefFits(Projection, 1, RungBase(1), budget)
  <2>1. Projection = Whole(brief) /\ ChosenFor(brief, budget) = NoChoice
    BY <1>4, ProjectionIsWhole DEF BriefInv, AskedBefore
  <2>2. RungChoice(Whole(brief), Len(Rungs), budget) = NoChoice
    <3>1. ~(budget < 0)
      BY <1>1
    <3> QED BY <2>1, <3>1 DEF ChosenFor
  <2>3. Len(Rungs) > 0
    BY BriefAssumption
  <2>4. ~BriefFits(Whole(brief), 1, RungBase(1), budget)
    BY <1>1, <1>2, <2>2, <2>3, ChoicesSound DEF RowSound
  <2> QED BY <2>1, <2>4
<1> QED BY <1>3, <1>4 DEF ShownFits

LEMMA BriefSitesAfterHunks == ASSUME BriefInv PROVE SitesAfterHunks
<1> SUFFICES ASSUME ExplainedSites \in selection,
                    \A n \in 0..Len(items) : \A m \in 0..n : Longer(choice.rung, m, n)
             PROVE  \A h \in DOMAIN brief.hunks :
                      brief.hunks[h].explained \/ Item("hunk", h) \in selection
  BY DEF SitesAfterHunks
<1> DEFINE p == Whole(brief)
<1>1. /\ brief \in Briefs /\ budget \in Asked /\ budget \in Nat
      /\ choice = ChosenFor(brief, AskedBefore) /\ Grown(brief, choice, selection)
      /\ briefPhase # "list" \/ budget > 0 => items = BriefItems(brief)
  BY DEF BriefInv, Asked
<1>2. AskedBefore \in Asked \cup {-1} /\ (AskedBefore # -1 => briefPhase # "list" \/ budget > 0)
  BY <1>1, BriefAssumption DEF AskedBefore, Asked
<1>3. choice # NoChoice
  BY <1>1 DEF Grown
<1>4. /\ AskedBefore \in Asked /\ choice.rung \in DOMAIN Rungs /\ choice.budget \in 0..AskedBefore
      /\ Reached(p, choice.rung, choice.budget)
  BY <1>1, <1>2, <1>3, ChosenIs
<1>5. choice.budget \in Int /\ AskedBefore # -1
  BY <1>4 DEF Asked
<1>6. items = BriefItems(brief)
  BY <1>1, <1>2, <1>5
<1>7. Prepared(p) /\ p.items = items /\ p.brief = brief
  BY <1>1, <1>6, WholeStarted DEF Started
<1> DEFINE low == LongestPrefix(p, choice.rung, choice.budget)
<1>8. Ground(brief, choice) = RungBase(choice.rung) \cup Prefix(p, low)
      /\ Ground(brief, choice) \subseteq selection /\ ExplainedSites \in Ground(brief, choice)
  BY <1>1, <1>3 DEF Ground, Grown
<1>9. low \in 0..Len(p.items)
  BY <1>7, PositionsAre, PrefixGrows
<1>10. ExplainedSites \in RungBase(choice.rung)
  BY <1>7, <1>8, <1>9, PrefixSelected
<1>11. Rungs[choice.rung].sites
  BY <1>10 DEF RungBase
<1>12. \A n \in 0..Len(p.items) : \A m \in 0..n :
         /\ PrefixText(p, choice.rung, m).tokens <= PrefixText(p, choice.rung, n).tokens
         /\ PrefixText(p, choice.rung, m).bytes <= PrefixText(p, choice.rung, n).bytes
  <2>1. \A n \in 0..Len(items) : \A m \in 0..n : Longer(choice.rung, m, n)
    OBVIOUS
  <2>2. Projection.brief = p.brief /\ Projection.items = p.items
    BY <1>7 DEF Projection
  <2>3. \A n : Rendered(Projection, choice.rung, RungBase(choice.rung) \cup Prefix(Projection, n))
              = PrefixText(p, choice.rung, n)
    BY <2>2 DEF Rendered, Prefix, PrefixText
  <2> HIDE DEF p
  <2> QED BY <1>7, <2>1, <2>3 DEF Longer
<1> HIDE DEF p
<1>13. \A h \in DOMAIN p.brief.hunks :
         p.brief.hunks[h].explained \/ Item("hunk", h) \in Prefix(p, low)
  BY <1>4, <1>5, <1>7, <1>11, <1>12, SitesReach
<1> QED BY <1>7, <1>8, <1>13

LEMMA BriefShownWithEntry == ASSUME BriefInv PROVE ShownWithEntry
  BY DEF BriefInv, Grown, Told, ShownWithEntry

(***************************************************************************)
(* On every budget the brief fits it, fits its bytes and keeps the share   *)
(* of soft evidence, and shows what every smaller budget shows of the      *)
(* changes, each with its entry, however long the texts are that the       *)
(* selections make.                                                        *)
(***************************************************************************)
THEOREM BriefIsSound == BriefSpec => []BriefSound
<1>1. BriefInv => BriefSound
  BY BriefLargerShowsMore, BriefShownFits, BriefShownWithEntry, BriefSitesAfterHunks
     DEF BriefSound
<1> QED BY <1>1, BriefInductive, PTL
===============================================================================
