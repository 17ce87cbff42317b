------------------------------ MODULE Query_proofs ------------------------------
(***************************************************************************)
(* Proofs about the queries.  SourceRead, for every request and every      *)
(* choice of the budget: the sources of a read report.  ChangedLines, for  *)
(* every file, change and work limit: the mapping of changed lines to      *)
(* definitions.  Consumers, for every topology, request and limit: the     *)
(* breadth-first search and what a report leaves out.                      *)
(***************************************************************************)
EXTENDS SourceRead, ChangedLines, Consumers, SetInduction, FunctionTheorems, TLAPS

-------------------------------------------------------------------------------
(***************************************************************************)
(* SourceRead.  Results and sources as the report holds them.              *)
(***************************************************************************)
Results ==
  [target : Nat, file : Nat, status : {"complete", "ambiguous", "failed", "budget omitted"},
   span : Nat \X Nat, source : Nat, candidates : Nat, total : Nat]

Sources == [id : Nat \ {NoSource}, file : Nat \ {NoFile}, span : Nat \X Nat]

ReadTypeOK ==
  /\ results \in Seq(Results) /\ sources \in SUBSET Sources /\ fileIds \in SUBSET Nat
  /\ nextTarget \in 1..(Requested + 1) /\ Len(results) < nextTarget
  /\ readEnded \in {"none", "answered", "refused"}

\* Identities are given out one per result, so there is always a next one.
Bounded ==
  /\ \A s \in sources : s.id <= Len(results) /\ s.span[1] <= s.span[2]
  /\ \E bound \in Nat : \A s \in sources : s.span[2] <= bound

\* Result r points into the source s.
PointsInto(r, s) == r.source = s.id => r.file = s.file /\ Around(s.span, r.span)

Begins(s) == \E i \in DOMAIN results : results[i].source = s.id /\ results[i].span[1] = s.span[1]
Ends(s) == \E i \in DOMAIN results : results[i].source = s.id /\ results[i].span[2] = s.span[2]

Pointing ==
  /\ \A i \in DOMAIN results :
       /\ results[i].source # NoSource <=> results[i].status = "complete"
       /\ results[i].source # NoSource => \E s \in sources : s.id = results[i].source
       /\ \A s \in sources : PointsInto(results[i], s)
  /\ \A s \in sources : Begins(s) /\ Ends(s)

\* PackInv is inductive.
PackInv == ReadTypeOK /\ Bounded /\ SourcesDisjoint /\ Pointing /\ TargetsAccounted

\* A non-empty set of numbers has a least one, and a greatest if it is bounded.
LEMMA MinOfNats ==
  ASSUME NEW S \in SUBSET Nat, S # {}
  PROVE  Min(S) \in S /\ \A n \in S : Min(S) <= n
BY LeastNatural DEF Min

LEMMA MaxOfNats ==
  ASSUME NEW S \in SUBSET Nat, S # {}, NEW bound \in Nat, \A n \in S : n <= bound
  PROVE  Max(S) \in S /\ \A n \in S : n <= Max(S)
<1> DEFINE mirrored == {bound - n : n \in S}
<1>0. \A n \in S : bound - n \in Nat
  OBVIOUS
<1>1. mirrored \in SUBSET Nat /\ mirrored # {}
  BY <1>0
<1>2. PICK k \in mirrored : \A j \in mirrored : k <= j
  BY <1>1, LeastNatural
<1>3. PICK m \in S : k = bound - m
  BY <1>2
<1>4. \A n \in S : bound - m <= bound - n
  BY <1>2, <1>3
<1>5. \A n \in S : n <= m
  BY <1>4
<1> QED
  BY <1>5 DEF Max

\* merge_source: the identity is one of those that are merged, or a new one.
LEMMA IdOfMerged ==
  ASSUME PackInv, NEW file, NEW span
  PROVE  /\ MergedId(file, span) \in 1..(Len(results) + 1)
         /\ \/ \E s \in Overlaps(file, span) : s.id = MergedId(file, span)
            \/ /\ Overlaps(file, span) = {}
               /\ \A s \in sources : s.id < MergedId(file, span)
<1> DEFINE ids == {s.id : s \in Overlaps(file, span)}
           all == {s.id : s \in sources} \cup {0}
<1>1. Len(results) \in Nat
  BY DEF PackInv, ReadTypeOK
<1>2. \A s \in sources : s.id \in 1..Len(results)
  BY <1>1 DEF PackInv, ReadTypeOK, Bounded, Sources, NoSource
<1>3. CASE ids # {}
  <2>1. ids \in SUBSET Nat
    BY <1>2 DEF Overlaps
  <2>2. Min(ids) \in ids
    BY <1>3, <2>1, MinOfNats
  <2>3. MergedId(file, span) = Min(ids)
    BY <1>3 DEF MergedId
  <2>4. PICK s \in Overlaps(file, span) : s.id = MergedId(file, span)
    BY <2>2, <2>3
  <2>5. s \in sources
    BY DEF Overlaps
  <2> QED
    BY <1>1, <1>2, <2>4, <2>5
<1>4. CASE ids = {}
  <2>1. all \in SUBSET Nat /\ all # {} /\ \A n \in all : n <= Len(results)
    BY <1>1, <1>2
  <2>2. Max(all) \in all /\ \A n \in all : n <= Max(all)
    BY <1>1, <2>1, MaxOfNats
  <2>3. MergedId(file, span) = Max(all) + 1
    BY <1>4 DEF MergedId
  <2>4. Max(all) \in 0..Len(results) /\ \A s \in sources : s.id <= Max(all) /\ s.id \in Nat
    BY <1>1, <1>2, <2>1, <2>2
  <2>5. Overlaps(file, span) = {}
    BY <1>4
  <2> HIDE DEF all
  <2> QED
    BY <1>1, <2>3, <2>4, <2>5
<1> QED BY <1>3, <1>4

\* merge_source: the span begins and ends where one of the merged ones does.
LEMMA SpanOfMerged ==
  ASSUME PackInv, NEW file, NEW span \in Nat \X Nat, span[1] <= span[2]
  PROVE  /\ MergedSpan(file, span) \in Nat \X Nat
         /\ Around(MergedSpan(file, span), span)
         /\ \A s \in Overlaps(file, span) : Around(MergedSpan(file, span), s.span)
         /\ \/ MergedSpan(file, span)[1] = span[1]
            \/ \E s \in Overlaps(file, span) : MergedSpan(file, span)[1] = s.span[1]
         /\ \/ MergedSpan(file, span)[2] = span[2]
            \/ \E s \in Overlaps(file, span) : MergedSpan(file, span)[2] = s.span[2]
<1> DEFINE spans == {s.span : s \in Overlaps(file, span)} \cup {span}
           firsts == {s[1] : s \in spans}
           lasts == {s[2] : s \in spans}
<1>1. PICK b \in Nat : \A s \in sources : s.span[2] <= b
  BY DEF PackInv, Bounded
<1>2. \A s \in Overlaps(file, span) : s.span \in Nat \X Nat /\ s.span[2] <= b
  BY <1>1 DEF PackInv, ReadTypeOK, Sources, Overlaps
<1>3. \A s \in spans : s \in Nat \X Nat /\ s[2] <= b + span[2]
  BY <1>2
<1>4. span \in spans /\ \A s \in Overlaps(file, span) : s.span \in spans
  OBVIOUS
<1>5. firsts \in SUBSET Nat /\ firsts # {} /\ lasts \in SUBSET Nat /\ lasts # {}
  BY <1>3, <1>4
<1>6. \A n \in lasts : n <= b + span[2]
  BY <1>3
<1>7. b + span[2] \in Nat
  OBVIOUS
<1>8. Min(firsts) \in firsts /\ \A n \in firsts : Min(firsts) <= n
  BY <1>5, MinOfNats
<1>9. Max(lasts) \in lasts /\ \A n \in lasts : n <= Max(lasts)
  BY <1>5, <1>6, <1>7, MaxOfNats
<1>10. MergedSpan(file, span) = <<Min(firsts), Max(lasts)>>
  BY DEF MergedSpan
<1>11. PICK s \in spans : s[1] = Min(firsts)
  BY <1>8
<1>12. PICK r \in spans : r[2] = Max(lasts)
  BY <1>9
<1>13. \A q \in spans : q[1] \in firsts /\ q[2] \in lasts
  OBVIOUS
<1>14. MergedSpan(file, span) \in Nat \X Nat
  BY <1>5, <1>8, <1>9, <1>10
<1>15. \A q \in spans : Around(MergedSpan(file, span), q)
  BY <1>8, <1>9, <1>10, <1>13 DEF Around
<1>16. /\ MergedSpan(file, span)[1] = s[1]
       /\ MergedSpan(file, span)[2] = r[2]
  BY <1>10, <1>11, <1>12
<1>17. \A q \in spans : q = span \/ \E o \in Overlaps(file, span) : q = o.span
  OBVIOUS
<1> HIDE DEF spans
<1> QED
  BY <1>4, <1>11, <1>12, <1>14, <1>15, <1>16, <1>17

\* What overlaps the merged span was merged into it.
LEMMA NothingElseOverlaps ==
  ASSUME PackInv, NEW file, NEW span \in Nat \X Nat, span[1] <= span[2],
         NEW s \in sources, s.file = file, s \notin Overlaps(file, span)
  PROVE  /\ ~Overlap(s, MergedSpan(file, span))
         /\ \A m : m.span = MergedSpan(file, span) => ~Overlap(m, s.span)
<1> DEFINE hull == MergedSpan(file, span)
<1>1. \A r \in sources : r.span \in Nat \X Nat /\ r.span[1] <= r.span[2]
  BY DEF PackInv, ReadTypeOK, Bounded, Sources
<1>2. hull \in Nat \X Nat /\ hull[1] <= span[1] /\ span[2] <= hull[2]
  BY SpanOfMerged DEF Around
<1>3. ~Overlap(s, span)
  BY DEF Overlaps
<1>4. \A r \in Overlaps(file, span) :
        r \in sources /\ Overlap(r, span) /\ ~Overlap(s, r.span) /\ ~Overlap(r, s.span)
  BY DEF Overlaps, PackInv, SourcesDisjoint
<1>5. s.span[2] <= span[1] \/ span[2] <= s.span[1]
  BY <1>1, <1>3 DEF Overlap
<1>6. \A r \in Overlaps(file, span) :
        /\ s.span[2] <= r.span[1] \/ r.span[2] <= s.span[1]
        /\ s.span # r.span
        /\ r.span = span \/ (r.span[1] < span[2] /\ r.span[2] > span[1])
  BY <1>1, <1>4 DEF Overlap
<1>7. CASE s.span[2] <= span[1]
  <2>1. s.span[2] <= hull[1]
    BY <1>1, <1>2, <1>4, <1>6, <1>7, SpanOfMerged
  <2>2. hull # s.span
    <3>1. SUFFICES ASSUME hull = s.span PROVE FALSE
      OBVIOUS
    <3>2. s.span[1] = span[1] /\ s.span[2] = span[1] /\ span[2] = span[1]
      BY <1>1, <1>2, <1>7, <2>1, <3>1
    <3>3. s.span = span
      BY <1>1, <3>2
    <3> QED BY <1>3, <3>3 DEF Overlap
  <2> QED BY <1>1, <1>2, <2>1, <2>2 DEF Overlap
<1>8. CASE span[2] <= s.span[1]
  <2>1. hull[2] <= s.span[1]
    BY <1>1, <1>2, <1>4, <1>6, <1>8, SpanOfMerged
  <2>2. hull # s.span
    <3>1. SUFFICES ASSUME hull = s.span PROVE FALSE
      OBVIOUS
    <3>2. s.span[1] = span[1] /\ s.span[2] = span[1] /\ span[2] = span[1]
      BY <1>1, <1>2, <1>8, <2>1, <3>1
    <3>3. s.span = span
      BY <1>1, <3>2
    <3> QED BY <1>3, <3>3 DEF Overlap
  <2> QED BY <1>1, <1>2, <2>1, <2>2 DEF Overlap
<1> QED BY <1>5, <1>7, <1>8
-------------------------------------------------------------------------------
\* What the request asks for.
LEMMA TargetOf ==
  ASSUME NEW t \in Targets
  PROVE  /\ t.file \in Nat /\ t.span \in Nat \X Nat /\ t.span[1] <= t.span[2]
         /\ t.candidates \in Nat /\ t.status \in {"complete", "ambiguous", "failed"}
         /\ t.status = "complete" => t.file # NoFile /\ t.candidates = 0
<1>1. t \in Resolved /\ t.span[1] <= t.span[2]
  BY ReadAssumption
<1> QED
  BY <1>1 DEF Resolved, NoSpan

\* A result is added behind others that keep their targets and their files.
LEMMA TargetsKept ==
  ASSUME PackInv, nextTarget <= Requested,
         NEW rs \in Seq(Results), Len(rs) = Len(results),
         \A i \in DOMAIN results :
           rs[i].target = results[i].target /\ rs[i].file = results[i].file,
         NEW r \in Results, r.target = nextTarget,
         NEW ids \in SUBSET Nat, fileIds \subseteq ids, r.file \in ids \cup {NoFile},
         results' = Append(rs, r), fileIds' = ids, nextTarget' = nextTarget + 1,
         omitted_targets' = Requested - Len(Append(rs, r))
  PROVE  /\ TargetsAccounted'
         /\ results' \in Seq(Results) /\ Len(results') = Len(results) + 1
         /\ Len(results') < nextTarget' /\ nextTarget' \in 1..(Requested + 1)
         /\ \A i \in DOMAIN results : results'[i] = rs[i]
         /\ results'[Len(results) + 1] = r
         /\ DOMAIN results' = DOMAIN results \cup {Len(results) + 1}
<1>1. /\ Len(results) \in Nat /\ Len(results) < nextTarget /\ nextTarget \in Nat
      /\ Requested \in Nat /\ DOMAIN results = 1..Len(results)
      /\ DOMAIN rs = 1..Len(results)
  BY ReadAssumption DEF PackInv, ReadTypeOK
<1>2. /\ results' \in Seq(Results) /\ Len(results') = Len(results) + 1
      /\ DOMAIN results' = 1..(Len(results) + 1)
      /\ \A i \in 1..Len(results) : results'[i] = rs[i]
      /\ results'[Len(results) + 1] = r
  BY <1>1
<1>3. Len(results') + omitted_targets' = Requested
  BY <1>1, <1>2
<1>4. \A i \in 1..Len(results) :
        /\ results[i].target < nextTarget /\ results[i].target \in Nat
        /\ results[i].file \in fileIds \cup {NoFile}
        /\ i > 1 => results[i - 1].target < results[i].target
  <2>1. \A i \in 1..Len(results) : results[i] \in Results
    BY <1>1 DEF PackInv, ReadTypeOK
  <2>2. \A i \in 1..Len(results) : results[i].target \in Nat
    BY <2>1 DEF Results
  <2> QED BY <1>1, <2>2 DEF PackInv, TargetsAccounted
<1>5. ASSUME NEW i \in 1..(Len(results) + 1)
      PROVE  /\ results'[i].target < nextTarget'
             /\ results'[i].file \in fileIds' \cup {NoFile}
             /\ i > 1 => results'[i - 1].target < results'[i].target
  <2>1. CASE i <= Len(results)
    <3>1. i \in 1..Len(results) /\ (i > 1 => i - 1 \in 1..Len(results))
      BY <1>1, <2>1
    <3>2. /\ results'[i].target = results[i].target /\ results'[i].file = results[i].file
          /\ i > 1 => results'[i - 1].target = results[i - 1].target
      BY <1>1, <1>2, <3>1
    <3>3. results[i].target < nextTarget'
      BY <1>1, <1>4, <3>1
    <3> QED BY <1>4, <3>1, <3>2, <3>3
  <2>2. CASE i = Len(results) + 1
    <3>1. i > 1 => i - 1 \in 1..Len(results) /\ i - 1 = Len(results)
      BY <1>1, <2>2
    <3>2. results'[i] = r
      BY <1>2, <2>2
    <3>3. i > 1 => results'[i - 1].target < nextTarget
      BY <1>1, <1>2, <1>4, <3>1
    <3> QED BY <1>1, <3>2, <3>3
  <2> QED BY <1>1, <2>1, <2>2
<1>6. TargetsAccounted'
  BY <1>2, <1>3, <1>5 DEF TargetsAccounted
<1> QED
  BY <1>1, <1>2, <1>6

\* No source is shown: the target gets a result that points nowhere.
LEMMA WithoutSourceKeeps ==
  ASSUME PackInv, readEnded = "none", nextTarget <= Requested,
         NEW t \in Targets, AdmitWithoutSource(t) \/ AdmitBare(t)
  PROVE  PackInv'
<1>1. PICK r \in Results, ids \in SUBSET Nat :
        /\ fileIds \subseteq ids /\ r.file \in ids \cup {NoFile} /\ r.target = nextTarget
        /\ r.source = NoSource /\ r.status # "complete"
        /\ Adopt(Append(results, r), sources, ids)
  <2>0. fileIds \in SUBSET Nat /\ nextTarget \in Nat
    BY ReadAssumption DEF PackInv, ReadTypeOK
  <2>1. CASE AdmitWithoutSource(t)
    <3> DEFINE st == IF t.status = "complete" THEN "budget omitted" ELSE t.status
    <3>1. PICK n \in 0..t.candidates :
            Adopt(Append(results, Result(t, t.file, st, NoSpan, NoSource, n)),
                  sources, Listed(t.file))
      BY <2>1 DEF AdmitWithoutSource
    <3>0. /\ n \in Nat /\ t.file \in Nat /\ t.candidates \in Nat
          /\ st \in {"complete", "ambiguous", "failed", "budget omitted"}
      <4>1. t.status \in {"complete", "ambiguous", "failed"}
        BY TargetOf
      <4>2. t.file \in Nat /\ t.candidates \in Nat
        BY TargetOf
      <4>3. st \in {"complete", "ambiguous", "failed", "budget omitted"}
        BY <4>1
      <4>4. n \in Nat
        BY <4>2
      <4> QED BY <4>2, <4>3, <4>4
    <3>2. Result(t, t.file, st, NoSpan, NoSource, n) \in Results
      <4> HIDE DEF st
      <4> QED BY <2>0, <3>0 DEF Result, Results, NoSpan, NoSource
    <3> QED BY <2>0, <3>1, <3>2, TargetOf DEF Result, Listed
  <2>2. CASE AdmitBare(t)
    <3>1. Result(t, NoFile, "budget omitted", NoSpan, NoSource, 0) \in Results
      BY <2>0, TargetOf DEF Result, Results, NoSpan, NoSource, NoFile
    <3> QED BY <2>0, <2>2, <3>1 DEF AdmitBare, Result
  <2> QED BY <2>1, <2>2
<1>2. /\ TargetsAccounted'
      /\ results' \in Seq(Results) /\ Len(results') = Len(results) + 1
      /\ Len(results') < nextTarget' /\ nextTarget' \in 1..(Requested + 1)
      /\ \A i \in DOMAIN results : results'[i] = results[i]
      /\ results'[Len(results) + 1] = r
      /\ DOMAIN results' = DOMAIN results \cup {Len(results) + 1}
  <2>1. results \in Seq(Results)
    BY DEF PackInv, ReadTypeOK
  <2> QED BY <1>1, <2>1, TargetsKept DEF Adopt
<1>3. sources' = sources /\ fileIds' \in SUBSET Nat /\ readEnded' = readEnded
  BY <1>1 DEF Adopt
<1>4. ReadTypeOK'
  BY <1>2, <1>3 DEF PackInv, ReadTypeOK
<1>5. Bounded'
  <2>1. Len(results) \in Nat /\ \A s \in sources : s.id \in Nat
    BY DEF PackInv, ReadTypeOK, Sources
  <2> QED BY <1>2, <1>3, <2>1 DEF PackInv, Bounded
<1>6. SourcesDisjoint'
  BY <1>3 DEF PackInv, SourcesDisjoint, Overlap
<1>7. \A s \in sources : s.id # NoSource
  BY DEF PackInv, ReadTypeOK, Sources
<1>8. Pointing'
  <2>1. \A s \in sources : Begins(s)' /\ Ends(s)'
    BY <1>2 DEF PackInv, Pointing, Begins, Ends
  <2>2. \A i \in DOMAIN results' :
          /\ results'[i].source # NoSource <=> results'[i].status = "complete"
          /\ results'[i].source # NoSource => \E s \in sources : s.id = results'[i].source
          /\ \A s \in sources : PointsInto(results'[i], s)
    BY <1>1, <1>2, <1>7 DEF PackInv, Pointing, PointsInto
  <2> QED BY <1>3, <2>1, <2>2 DEF Pointing, PointsInto
<1> QED
  BY <1>2, <1>4, <1>5, <1>6, <1>8 DEF PackInv

\* The source is shown: what it overlaps is merged into one source, and the
\* results that pointed there are redirected.
LEMMA WithSourceKeeps ==
  ASSUME PackInv, readEnded = "none", nextTarget <= Requested,
         NEW t \in Targets, AdmitSource(t)
  PROVE  PackInv'
<1> DEFINE id == MergedId(t.file, t.span)
           hull == MergedSpan(t.file, t.span)
           merged == [id |-> id, file |-> t.file, span |-> hull]
           over == Overlaps(t.file, t.span)
           ids == {s.id : s \in over}
           rs == Redirected(t.file, t.span)
           r == Result(t, t.file, "complete", t.span, id, 0)
<1>1. /\ t.status = "complete"
      /\ Adopt(Append(rs, r), (sources \ over) \cup {merged}, Listed(t.file))
  BY DEF AdmitSource
<1>2. /\ t.file \in Nat \ {NoFile} /\ t.span \in Nat \X Nat /\ t.span[1] <= t.span[2]
      /\ t.candidates = 0
  BY <1>1, TargetOf
<1>3. /\ Len(results) \in Nat /\ DOMAIN results = 1..Len(results) /\ sources \in SUBSET Sources
      /\ results \in Seq(Results)
      /\ \A i \in DOMAIN results : results[i] \in Results
  BY DEF PackInv, ReadTypeOK
<1>4. /\ id \in 1..(Len(results) + 1)
      /\ \/ \E s \in over : s.id = id
         \/ over = {} /\ \A s \in sources : s.id < id
  BY IdOfMerged
<1>5. /\ hull \in Nat \X Nat /\ Around(hull, t.span)
      /\ \A s \in over : Around(hull, s.span)
      /\ hull[1] = t.span[1] \/ \E s \in over : hull[1] = s.span[1]
      /\ hull[2] = t.span[2] \/ \E s \in over : hull[2] = s.span[2]
  BY <1>2, SpanOfMerged
<1>6. /\ over \subseteq sources /\ \A s \in over : s.file = t.file
      /\ \A s \in sources : s.id \in ids <=> s \in over
      /\ \A s \in sources \ over : s.id # id
  <2>1. over \subseteq sources /\ \A s \in over : s.file = t.file
    BY DEF Overlaps
  <2>2. \A s, q \in sources : s.id = q.id => s = q
    BY DEF PackInv, SourcesDisjoint
  <2>3. \A s \in sources : s.id \in Nat
    BY <1>3 DEF Sources
  <2>4. \A s \in sources : s.id \in ids <=> s \in over
    BY <2>1, <2>2
  <2> HIDE DEF over, id, ids
  <2> QED BY <1>3, <1>4, <2>1, <2>2, <2>3, <2>4
<1>7. /\ rs \in Seq(Results) /\ Len(rs) = Len(results)
      /\ \A i \in DOMAIN results :
           /\ rs[i].target = results[i].target /\ rs[i].file = results[i].file
           /\ rs[i].span = results[i].span /\ rs[i].status = results[i].status
           /\ rs[i].source = IF results[i].source \in ids THEN id ELSE results[i].source
  <2>1. rs = [i \in DOMAIN results |->
                IF results[i].source \in ids
                THEN [results[i] EXCEPT !.source = id] ELSE results[i]]
    BY DEF Redirected
  <2>2. id \in Nat
    BY <1>3, <1>4
  <2> HIDE DEF rs, ids, id
  <2>3. \A i \in DOMAIN results :
          [results[i] EXCEPT !.source = id] \in Results
    BY <1>3, <2>2 DEF Results
  <2>4. \A i \in DOMAIN results :
          /\ rs[i] \in Results
          /\ rs[i].target = results[i].target /\ rs[i].file = results[i].file
          /\ rs[i].span = results[i].span /\ rs[i].status = results[i].status
          /\ rs[i].source = IF results[i].source \in ids THEN id ELSE results[i].source
    BY <1>3, <2>1, <2>3 DEF Results
  <2>5. rs \in Seq(Results) /\ Len(rs) = Len(results)
    BY <1>3, <2>1, <2>4
  <2> QED BY <2>4, <2>5
<1>8. /\ r \in Results /\ r.target = nextTarget /\ r.file = t.file /\ r.span = t.span
      /\ r.status = "complete" /\ r.source = id
  <2>1. nextTarget \in Nat
    BY ReadAssumption DEF PackInv, ReadTypeOK
  <2>2. id \in Nat
    BY <1>3, <1>4
  <2> HIDE DEF id
  <2> QED BY <1>2, <2>1, <2>2 DEF Result, Results
<1>9. /\ TargetsAccounted'
      /\ results' \in Seq(Results) /\ Len(results') = Len(results) + 1
      /\ Len(results') < nextTarget' /\ nextTarget' \in 1..(Requested + 1)
      /\ \A i \in DOMAIN results : results'[i] = rs[i]
      /\ results'[Len(results) + 1] = r
      /\ DOMAIN results' = DOMAIN results \cup {Len(results) + 1}
  <2>1. Listed(t.file) \in SUBSET Nat /\ fileIds \subseteq Listed(t.file)
        /\ t.file \in Listed(t.file)
    BY <1>2 DEF Listed, PackInv, ReadTypeOK
  <2> HIDE DEF rs, r
  <2> QED BY <1>1, <1>3, <1>7, <1>8, <2>1, TargetsKept DEF Adopt
<1>10. /\ sources' = (sources \ over) \cup {merged}
       /\ fileIds' \in SUBSET Nat /\ readEnded' = readEnded
  <2>1. Listed(t.file) \in SUBSET Nat
    BY <1>2 DEF Listed, PackInv, ReadTypeOK
  <2> QED BY <1>1, <2>1 DEF Adopt
<1>11. merged \in Sources /\ merged.id = id /\ merged.file = t.file /\ merged.span = hull
  <2>1. id \in Nat \ {NoSource}
    BY <1>3, <1>4 DEF NoSource
  <2> HIDE DEF id, hull
  <2> QED BY <1>2, <1>5, <2>1 DEF Sources
<1>12. \A s \in sources' : s = merged \/ (s \in sources /\ s \notin over)
  BY <1>10
<1>13. merged \in sources' /\ \A s \in sources \ over : s \in sources'
  BY <1>10
<1> HIDE DEF id, hull, merged, over, ids, rs, r
<1>14. ReadTypeOK'
  BY <1>3, <1>9, <1>10, <1>11, <1>12 DEF PackInv, ReadTypeOK
<1>15. Bounded'
  <2>1. PICK b \in Nat : \A s \in sources : s.span[2] <= b
    BY DEF PackInv, Bounded
  <2>2. \A s \in sources : s.span \in Nat \X Nat /\ s.id \in Nat
    BY <1>3 DEF Sources
  <2>3. hull[2] <= b + t.span[2]
    BY <1>2, <1>5, <1>6, <2>1, <2>2
  <2>4. \A s \in sources' : s.span[2] <= b + t.span[2]
    BY <1>2, <1>11, <1>12, <2>1, <2>2, <2>3
  <2>5. b + t.span[2] \in Nat
    BY <1>2
  <2>6. hull[1] <= hull[2]
    BY <1>2, <1>5 DEF Around
  <2>7. \A s \in sources' : s.id <= Len(results') /\ s.span[1] <= s.span[2]
    <3>1. \A s \in sources : s.id <= Len(results) /\ s.span[1] <= s.span[2]
      BY DEF PackInv, Bounded
    <3> QED BY <1>3, <1>4, <1>9, <1>11, <1>12, <2>2, <2>6, <3>1
  <2> QED BY <2>4, <2>5, <2>7 DEF Bounded
<1>16. SourcesDisjoint'
  <2>1. ASSUME NEW s \in sources', NEW q \in sources', s # q
        PROVE  s.id # q.id /\ (s.file = q.file => ~Overlap(s, q.span))
    <3>1. CASE s # merged /\ q # merged
      BY <1>12, <2>1, <3>1 DEF PackInv, SourcesDisjoint
    <3>2. CASE s = merged
      <4>1. q \in sources /\ q \notin over
        BY <1>12, <2>1, <3>2
      <4> QED BY <1>2, <1>6, <1>11, <3>2, <4>1, NothingElseOverlaps DEF hull, over
    <3>3. CASE q = merged
      <4>1. s \in sources /\ s \notin over
        BY <1>12, <2>1, <3>3
      <4> QED BY <1>2, <1>6, <1>11, <3>3, <4>1, NothingElseOverlaps DEF hull, over
    <3> QED BY <3>1, <3>2, <3>3
  <2> QED BY <2>1 DEF SourcesDisjoint, Overlap
<1>17. \A i \in DOMAIN results :
         /\ results'[i].file = results[i].file /\ results'[i].span = results[i].span
         /\ results'[i].status = results[i].status
         /\ results'[i].source = IF results[i].source \in ids THEN id ELSE results[i].source
  BY <1>7, <1>9
<1>18. id # NoSource /\ NoSource \notin ids
  BY <1>3, <1>6, <1>11 DEF Sources, ids
<1>19. ASSUME NEW i \in DOMAIN results'
       PROVE  /\ results'[i].source # NoSource <=> results'[i].status = "complete"
              /\ results'[i].source # NoSource => \E s \in sources' : s.id = results'[i].source
              /\ \A s \in sources' : PointsInto(results'[i], s)
  <2>1. CASE i = Len(results) + 1
    BY <1>5, <1>6, <1>8, <1>9, <1>11, <1>12, <1>13, <1>18, <2>1 DEF PointsInto
  <2>2. CASE i \in DOMAIN results /\ results[i].source \in ids
    <3>1. PICK o \in over : o.id = results[i].source
      BY <2>2 DEF ids
    <3>2. results[i].file = t.file /\ Around(o.span, results[i].span) /\ results[i] \in Results
      BY <1>3, <1>6, <2>2, <3>1 DEF PackInv, Pointing, PointsInto
    <3>3. Around(hull, results[i].span)
      <4>1. o.span \in Nat \X Nat /\ results[i].span \in Nat \X Nat
        BY <1>3, <1>6, <3>2 DEF Sources, Results
      <4> QED BY <1>5, <3>2, <4>1 DEF Around
    <3>4. results[i].status = "complete"
      BY <1>18, <2>2 DEF PackInv, Pointing
    <3> QED
      BY <1>6, <1>11, <1>12, <1>13, <1>17, <1>18, <2>2, <3>2, <3>3, <3>4 DEF PointsInto
  <2>3. CASE i \in DOMAIN results /\ results[i].source \notin ids
    <3>1. /\ results[i].source # NoSource <=> results[i].status = "complete"
          /\ results[i].source # NoSource => \E s \in sources : s.id = results[i].source
          /\ \A s \in sources : PointsInto(results[i], s)
      BY <2>3 DEF PackInv, Pointing
    <3>2. \A s \in over : s.id \in ids
      BY DEF ids
    <3>3. results[i].source # NoSource => \E s \in sources \ over : s.id = results[i].source
      BY <2>3, <3>1, <3>2
    <3>4. results[i].source # id
      BY <1>6, <1>18, <3>3
    <3> QED
      BY <1>11, <1>12, <1>13, <1>17, <2>3, <3>1, <3>3, <3>4 DEF PointsInto
  <2> QED BY <1>9, <2>1, <2>2, <2>3
<1>20. ASSUME NEW s \in sources' PROVE Begins(s)' /\ Ends(s)'
  <2>1. CASE s = merged
    <3>1. \A o \in over : Begins(o) /\ Ends(o) /\ o.id \in ids
      BY <1>6 DEF PackInv, Pointing, ids
    <3>2. \E i \in DOMAIN results' : results'[i].source = id /\ results'[i].span[1] = hull[1]
      <4>1. CASE hull[1] = t.span[1]
        BY <1>8, <1>9, <4>1
      <4>2. ASSUME NEW o \in over, hull[1] = o.span[1]
            PROVE \E i \in DOMAIN results' : results'[i].source = id /\ results'[i].span[1] = hull[1]
        BY <1>9, <1>17, <3>1, <4>2 DEF Begins
      <4> QED BY <1>5, <4>1, <4>2
    <3>3. \E i \in DOMAIN results' : results'[i].source = id /\ results'[i].span[2] = hull[2]
      <4>1. CASE hull[2] = t.span[2]
        BY <1>8, <1>9, <4>1
      <4>2. ASSUME NEW o \in over, hull[2] = o.span[2]
            PROVE \E i \in DOMAIN results' : results'[i].source = id /\ results'[i].span[2] = hull[2]
        BY <1>9, <1>17, <3>1, <4>2 DEF Ends
      <4> QED BY <1>5, <4>1, <4>2
    <3> QED BY <1>11, <2>1, <3>2, <3>3 DEF Begins, Ends
  <2>2. CASE s \in sources /\ s \notin over
    <3>1. Begins(s) /\ Ends(s) /\ s.id \notin ids
      BY <1>6, <2>2 DEF PackInv, Pointing
    <3> QED BY <1>9, <1>17, <3>1 DEF Begins, Ends
  <2> QED BY <1>12, <2>1, <2>2
<1>21. Pointing'
  BY <1>19, <1>20 DEF Pointing, PointsInto, Around
<1> QED
  BY <1>9, <1>14, <1>15, <1>16, <1>21 DEF PackInv

\* Every target that is admitted, cut, or dropped keeps the invariant.
LEMMA PackStep ==
  ASSUME PackInv, [ReadNext]_readVars
  PROVE  PackInv'
<1> USE DEF PackInv
<1>1. ASSUME NEW t \in Targets, Admit(t) PROVE PackInv'
  <2>1. CASE Drop
    <3>1. /\ UNCHANGED <<results, sources, fileIds, omitted_targets, readEnded>>
          /\ nextTarget' = nextTarget + 1 /\ nextTarget <= Requested
          /\ nextTarget \in Nat /\ Requested \in Nat
      BY <1>1, <2>1, ReadAssumption DEF Drop, Admit, ReadTypeOK
    <3>2. ReadTypeOK'
      BY <3>1 DEF ReadTypeOK
    <3>3. Bounded' /\ SourcesDisjoint'
      BY <3>1 DEF Bounded, SourcesDisjoint, Overlap
    <3>5. Pointing'
      BY <3>1 DEF Pointing, PointsInto, Around, Begins, Ends
    <3>4. TargetsAccounted'
      <4>1. \A i \in DOMAIN results : results[i] \in Results
        BY DEF ReadTypeOK
      <4>2. \A i \in DOMAIN results : results[i].target \in Nat
        BY <4>1 DEF Results
      <4> QED BY <3>1, <4>2 DEF TargetsAccounted
    <3> QED BY <3>2, <3>3, <3>4, <3>5
  <2> QED BY <1>1, <2>1, WithSourceKeeps, WithoutSourceKeeps DEF Admit
<1>2. CASE Answer
  <2>1. /\ UNCHANGED <<results, sources, fileIds, omitted_targets, nextTarget>>
        /\ readEnded' = "answered"
    BY <1>2 DEF Answer
  <2>2. ReadTypeOK'
    BY <2>1 DEF ReadTypeOK
  <2>3. Bounded' /\ SourcesDisjoint' /\ TargetsAccounted'
    BY <2>1 DEF Bounded, SourcesDisjoint, Overlap, TargetsAccounted
  <2>4. Pointing'
    BY <2>1 DEF Pointing, PointsInto, Around, Begins, Ends
  <2> QED BY <2>2, <2>3, <2>4
<1>3. CASE UNCHANGED readVars
  <2>1. UNCHANGED <<results, sources, fileIds, omitted_targets, nextTarget, readEnded>>
    BY <1>3 DEF readVars
  <2>2. ReadTypeOK'
    BY <2>1 DEF ReadTypeOK
  <2>3. Bounded' /\ SourcesDisjoint' /\ TargetsAccounted'
    BY <2>1 DEF Bounded, SourcesDisjoint, Overlap, TargetsAccounted
  <2>4. Pointing'
    BY <2>1 DEF Pointing, PointsInto, Around, Begins, Ends
  <2> QED BY <2>2, <2>3, <2>4
<1> QED
  BY <1>1, <1>2, <1>3 DEF ReadNext

\* The inductive invariant holds in every behaviour of read_source.
THEOREM PackInductive == ReadSpec => []PackInv
<1>1. ReadInit => PackInv
  BY ReadAssumption DEF ReadInit, PackInv, ReadTypeOK, Bounded, SourcesDisjoint, Pointing,
     TargetsAccounted
<1> QED
  BY <1>1, PackStep, PTL DEF ReadSpec

\* From its first and last results a source's span follows.
LEMMA InvFinds == PackInv => ResultsFindTheirSource
<1> SUFFICES ASSUME PackInv PROVE ResultsFindTheirSource
  OBVIOUS
<1>1. ASSUME NEW i \in DOMAIN results
      PROVE  /\ results[i].source # NoSource <=> results[i].status = "complete"
             /\ results[i].source # NoSource =>
                  \E s \in sources :
                    /\ s.id = results[i].source /\ s.file = results[i].file
                    /\ Around(s.span, results[i].span)
  BY DEF PackInv, Pointing, PointsInto
<1>2. ASSUME NEW s \in sources
      PROVE  LET pointing == {results[i].span :
                       i \in {j \in DOMAIN results : results[j].source = s.id}}
             IN pointing # {} /\ s.span = <<Min({n[1] : n \in pointing}), Max({n[2] : n \in pointing})>>
  <2> DEFINE pointing == {results[i].span : i \in {j \in DOMAIN results : results[j].source = s.id}}
             firsts == {n[1] : n \in pointing}
             lasts == {n[2] : n \in pointing}
  <2>1. s.span \in Nat \X Nat
    BY DEF PackInv, ReadTypeOK, Sources
  <2>2. \A n \in pointing : n \in Nat \X Nat /\ s.span[1] <= n[1] /\ n[2] <= s.span[2]
    <3>1. \A i \in DOMAIN results : results[i] \in Results
      BY DEF PackInv, ReadTypeOK
    <3>2. \A i \in DOMAIN results :
            /\ results[i].span \in Nat \X Nat
            /\ results[i].source = s.id => Around(s.span, results[i].span)
      BY <3>1 DEF Results, PackInv, Pointing, PointsInto
    <3> QED BY <3>2 DEF Around
  <2>3. (\E n \in pointing : n[1] = s.span[1]) /\ (\E n \in pointing : n[2] = s.span[2])
    BY DEF PackInv, Pointing, Begins, Ends
  <2> HIDE DEF pointing
  <2>4. /\ firsts \in SUBSET Nat /\ s.span[1] \in firsts /\ \A n \in firsts : s.span[1] <= n
        /\ lasts \in SUBSET Nat /\ s.span[2] \in lasts /\ \A n \in lasts : n <= s.span[2]
    BY <2>2, <2>3
  <2> HIDE DEF firsts, lasts
  <2>5. s.span[1] \in Nat /\ s.span[2] \in Nat
    BY <2>1
  <2>6. Min(firsts) \in firsts /\ Min(firsts) <= s.span[1]
    BY <2>4, MinOfNats
  <2>7. Max(lasts) \in lasts /\ s.span[2] <= Max(lasts)
    BY <2>4, <2>5, MaxOfNats
  <2>8. s.span[1] = Min(firsts)
    <3>1. Min(firsts) \in Nat /\ s.span[1] <= Min(firsts)
      BY <2>4, <2>6
    <3> QED BY <2>5, <2>6, <3>1
  <2>9. s.span[2] = Max(lasts)
    <3>1. Max(lasts) \in Nat /\ Max(lasts) <= s.span[2]
      BY <2>4, <2>7
    <3> QED BY <2>5, <2>7, <3>1
  <2>10. s.span = <<Min(firsts), Max(lasts)>> /\ pointing # {}
    BY <2>1, <2>3, <2>8, <2>9
  <2> QED BY <2>10 DEF firsts, lasts, pointing
<1> QED
  BY <1>1, <1>2 DEF ResultsFindTheirSource

\* However sources overlap and whatever the budget refuses: no byte is shown
\* twice, every result finds its own source, and every target is accounted for.
THEOREM SourcesArePacked == ReadSpec => []SourcesPacked
<1>1. PackInv => SourcesPacked
  BY InvFinds DEF PackInv, SourcesPacked
<1> QED
  BY <1>1, PackInductive, PTL

-------------------------------------------------------------------------------
(***************************************************************************)
(* ChangedLines.  map_changed_definitions decides a range segment by       *)
(* segment.  The boundaries are where a span that meets the range begins   *)
(* or ends, so no span is cut by a segment (SegmentIsUncut); the segments  *)
(* cover the range (SegmentsCover), and each is decided as any line of it  *)
(* would be, with all the definitions (SegmentDecides).                    *)
(***************************************************************************)
\* The spans of a definition.
Spans(i) == definitions[i].source \cup {definitions[i].declaration}

LEMMA PairOfNats ==
  ASSUME NEW a \in Nat, NEW b \in Nat
  PROVE  /\ Max({a, b}) = IF a >= b THEN a ELSE b
         /\ Min({a, b}) = IF a <= b THEN a ELSE b
<1>1. Min({a, b}) \in {a, b} /\ Min({a, b}) <= a /\ Min({a, b}) <= b
  BY MinOfNats
<1>2. \A n \in {a, b} : n <= a + b
  OBVIOUS
<1>3. Max({a, b}) \in {a, b} /\ Max({a, b}) >= a /\ Max({a, b}) >= b
  <2>1. {a, b} \in SUBSET Nat /\ {a, b} # {} /\ a + b \in Nat
    OBVIOUS
  <2> QED BY <1>2, <2>1, MaxOfNats
<1> QED
  BY <1>1, <1>3

\* Bytes to lines.
LEMMA LinesOfSpan ==
  ASSUME NEW s \in Span
  PROVE  start_line(s) \in Nat /\ end_line(s) \in Nat
<1>1. s.start_byte \in Nat /\ s.end_byte - 1 \in Nat /\ BytesPerLine \in Nat /\ BytesPerLine > 0
  BY ShapesAssumption DEF Span
<1>2. \A n \in Nat : n \div BytesPerLine \in Nat
  BY <1>1
<1> QED
  BY <1>1, <1>2 DEF start_line, end_line

LinesTypes ==
  /\ \E n \in Nat : definitions \in [1..n -> Shapes]
  /\ changed \in SUBSET FileLines /\ rest \in SUBSET changed
  /\ named \in [DOMAIN definitions -> SUBSET FileLines]
  /\ wrapped \in [DOMAIN definitions -> SUBSET FileLines]

LEMMA SpansHaveLines ==
  ASSUME LinesTypes, NEW i \in DOMAIN definitions, NEW s \in Spans(i)
  PROVE  start_line(s) \in Nat /\ end_line(s) \in Nat
<1>1. definitions[i] \in Shapes
  BY DEF LinesTypes
<1>2. s \in Span
  BY <1>1, ShapesAssumption DEF Spans
<1> QED
  BY <1>2, LinesOfSpan

\* The range at hand is a run of changed lines.
LEMMA RangeIsRun ==
  ASSUME LinesTypes, rest # {}
  PROVE  /\ Min(NextRange) \in Nat /\ Max(NextRange) \in Nat
         /\ Min(NextRange) <= Max(NextRange)
         /\ NextRange = Min(NextRange)..Max(NextRange)
         /\ NextRange \subseteq rest
<1> DEFINE m == Min(rest)
<1>1. rest \in SUBSET Nat /\ \A n \in rest : n <= LineCount
  BY ShapesAssumption DEF LinesTypes, FileLines
<1>2. m \in rest /\ \A n \in rest : m <= n
  BY <1>1, MinOfNats
<1>3. NextRange = {l \in rest : m..l \subseteq rest}
  BY DEF NextRange
<1>4. m \in NextRange /\ NextRange \subseteq rest
  <2>1. m..m = {m}
    BY <1>1, <1>2
  <2> QED BY <1>2, <1>3, <2>1
<1> DEFINE R == NextRange
<1>5. R \in SUBSET Nat /\ R # {} /\ (\A n \in R : n <= LineCount) /\ LineCount \in Nat
  BY <1>1, <1>4, ShapesAssumption
<1>6. Min(R) \in R /\ \A n \in R : Min(R) <= n
  BY <1>5, MinOfNats
<1>7. Max(R) \in R /\ \A n \in R : n <= Max(R)
  BY <1>5, MaxOfNats
<1>8. Min(R) = m
  <2> HIDE DEF R, m
  <2>1. m \in Nat /\ Min(R) \in Nat
    BY <1>1, <1>2, <1>5, <1>6
  <2>2. m <= Min(R) /\ Min(R) <= m
    BY <1>2, <1>4, <1>6 DEF R
  <2> QED BY <2>1, <2>2
<1>9. \A l \in m..Max(R) : l \in R
  <2>1. m..Max(R) \subseteq rest
    BY <1>3, <1>7
  <2> HIDE DEF R, m
  <2>2. m \in Nat /\ Max(R) \in Nat
    BY <1>1, <1>2, <1>5, <1>7
  <2>3. \A l \in m..Max(R) : m..l \subseteq m..Max(R)
    BY <2>2
  <2> QED BY <1>3, <2>1, <2>3 DEF R
<1>10. \A l \in R : l \in m..Max(R)
  BY <1>2, <1>4, <1>5, <1>7
<1> HIDE DEF R, m
<1> QED
  BY <1>1, <1>2, <1>4, <1>5, <1>6, <1>7, <1>8, <1>9, <1>10 DEF R

\* The segments cut the range, and none of them is cut by a span.
LEMMA BoundariesOfRange ==
  ASSUME LinesTypes, rest # {}
  PROVE  /\ Boundaries \in SUBSET Nat
         /\ Min(NextRange) \in Boundaries /\ Max(NextRange) + 1 \in Boundaries
         /\ \A b \in Boundaries : Min(NextRange) <= b /\ b <= Max(NextRange) + 1
         /\ Max(Boundaries) = Max(NextRange) + 1
         /\ \A i \in DOMAIN definitions : \A s \in Meeting(i) :
              /\ Max({start_line(s), Min(NextRange)}) \in Boundaries
              /\ Min({end_line(s), Max(NextRange)}) + 1 \in Boundaries
<1> DEFINE m == Min(NextRange)  M == Max(NextRange)
<1>1. m \in Nat /\ M \in Nat /\ m <= M
  BY RangeIsRun
<1>2. \A i \in DOMAIN definitions : \A s \in Meeting(i) :
        /\ start_line(s) \in Nat /\ end_line(s) \in Nat
        /\ start_line(s) <= M /\ end_line(s) >= m /\ i \in relevant
  BY SpansHaveLines DEF Meeting, Spans, relevant
<1>3. \A i \in DOMAIN definitions : \A s \in Meeting(i) :
        /\ Max({start_line(s), m}) \in m..M /\ Min({end_line(s), M}) + 1 \in m..(M + 1)
  <2> SUFFICES ASSUME NEW i \in DOMAIN definitions, NEW s \in Meeting(i)
               PROVE  /\ Max({start_line(s), m}) \in m..M
                      /\ Min({end_line(s), M}) + 1 \in m..(M + 1)
    OBVIOUS
  <2>1. start_line(s) \in Nat /\ end_line(s) \in Nat /\ start_line(s) <= M /\ end_line(s) >= m
    BY <1>2
  <2> HIDE DEF m, M
  <2>2. /\ Max({start_line(s), m}) = IF start_line(s) >= m THEN start_line(s) ELSE m
        /\ Min({end_line(s), M}) = IF end_line(s) <= M THEN end_line(s) ELSE M
    BY <1>1, <2>1, PairOfNats
  <2> QED BY <1>1, <2>1, <2>2
<1> HIDE DEF m, M
<1>4. Boundaries = {m, M + 1}
        \cup {Max({start_line(s), m}) : s \in UNION {Meeting(i) : i \in relevant}}
        \cup {Min({end_line(s), M}) + 1 : s \in UNION {Meeting(i) : i \in relevant}}
  BY DEF Boundaries, m, M
<1>5. \A i \in DOMAIN definitions : \A s \in Meeting(i) :
        /\ Max({start_line(s), m}) \in Boundaries /\ Min({end_line(s), M}) + 1 \in Boundaries
  BY <1>2, <1>4
<1>6. \A b \in Boundaries : b \in m..(M + 1)
  <2>1. relevant \subseteq DOMAIN definitions
    BY DEF relevant
  <2>2. m \in m..(M + 1) /\ M + 1 \in m..(M + 1) /\ \A n \in m..M : n \in m..(M + 1)
    BY <1>1
  <2> SUFFICES ASSUME NEW b \in Boundaries PROVE b \in m..(M + 1)
    OBVIOUS
  <2>3. CASE b \in {m, M + 1}
    BY <2>2, <2>3
  <2>4. CASE \E i \in relevant : \E s \in Meeting(i) :
               b = Max({start_line(s), m}) \/ b = Min({end_line(s), M}) + 1
    BY <1>3, <2>1, <2>2, <2>4
  <2> QED BY <1>4, <2>3, <2>4
<1>7. Boundaries \in SUBSET Nat /\ m \in Boundaries /\ M + 1 \in Boundaries
  <2>1. \A n \in m..(M + 1) : n \in Nat
    BY <1>1
  <2> QED BY <1>4, <1>6, <2>1
<1>8. Max(Boundaries) = M + 1
  <2>1. (\A b \in Boundaries : b <= M + 1) /\ M + 1 \in Nat
    BY <1>1, <1>6
  <2>2. Max(Boundaries) \in Boundaries /\ \A b \in Boundaries : b <= Max(Boundaries)
    BY <1>7, <2>1, MaxOfNats
  <2>3. Max(Boundaries) \in Nat /\ M + 1 <= Max(Boundaries) /\ Max(Boundaries) <= M + 1
    BY <1>7, <2>1, <2>2
  <2> QED BY <2>1, <2>3
<1>9. \A b \in Boundaries : m <= b /\ b <= M + 1
  BY <1>1, <1>6
<1> QED
  BY <1>5, <1>7, <1>8, <1>9 DEF m, M

\* A segment's lines lie in the range, and no span of the range begins or ends
\* between them.
LEMMA SegmentIsUncut ==
  ASSUME LinesTypes, rest # {}, NEW g \in Segments, NEW line \in g
  PROVE  /\ line \in NextRange /\ Min(g) \in NextRange
         /\ \A i \in DOMAIN definitions : \A s \in Meeting(i) :
              contains_line(s, line) <=> contains_line(s, Min(g))
<1> DEFINE m == Min(NextRange)  M == Max(NextRange)
<1>1. m \in Nat /\ M \in Nat /\ m <= M /\ NextRange = m..M
  BY RangeIsRun
<1>2. /\ Boundaries \in SUBSET Nat /\ m \in Boundaries /\ M + 1 \in Boundaries
      /\ (\A b \in Boundaries : m <= b /\ b <= M + 1) /\ Max(Boundaries) = M + 1
      /\ \A i \in DOMAIN definitions : \A s \in Meeting(i) :
           /\ Max({start_line(s), m}) \in Boundaries
           /\ Min({end_line(s), M}) + 1 \in Boundaries
  BY BoundariesOfRange
<1>3. PICK b \in Boundaries \ {M + 1} : g = b..(Min({c \in Boundaries : c > b}) - 1)
  BY <1>2 DEF Segments
<1> DEFINE later == {c \in Boundaries : c > b}  n == Min(later)
<1> HIDE DEF m, M
<1>4. b \in Nat /\ m <= b /\ b <= M
  BY <1>1, <1>2, <1>3
<1>5. n \in Boundaries /\ n > b /\ (\A c \in later : n <= c) /\ n \in Nat
  <2>0. M + 1 > b
    BY <1>1, <1>4
  <2>1. later \in SUBSET Nat /\ M + 1 \in later
    BY <1>2, <2>0
  <2>2. n \in later /\ \A c \in later : n <= c
    BY <2>1, MinOfNats
  <2> QED BY <1>2, <2>2
<1>6. n <= M + 1
  BY <1>2, <1>5
<1> HIDE DEF n
<1>7. g = b..(n - 1)
  BY <1>3 DEF n
<1>8. line \in Nat /\ b <= line /\ line < n /\ line <= M
  BY <1>1, <1>4, <1>5, <1>6, <1>7
<1>9. Min(g) = b
  <2>1. g \in SUBSET Nat /\ b \in g
    BY <1>4, <1>5, <1>7
  <2>2. Min(g) \in g /\ Min(g) <= b
    BY <2>1, MinOfNats
  <2> QED BY <1>4, <1>5, <1>7, <2>2
<1>10. \A c \in Boundaries : c <= line => c <= b
  BY <1>2, <1>4, <1>5, <1>8
<1>11. ASSUME NEW i \in DOMAIN definitions, NEW s \in Meeting(i)
       PROVE  contains_line(s, line) <=> contains_line(s, b)
  <2> DEFINE first == start_line(s)  final == end_line(s)
  <2>1. first \in Nat /\ final \in Nat
    BY SpansHaveLines DEF Meeting, Spans
  <2>2. first <= line => first <= b
    <3>1. Max({first, m}) = (IF first >= m THEN first ELSE m) /\ Max({first, m}) \in Boundaries
      BY <1>1, <1>2, <2>1, PairOfNats
    <3> HIDE DEF first
    <3>2. CASE first >= m
      BY <1>10, <2>1, <3>1, <3>2
    <3>3. CASE first < m
      BY <1>1, <1>4, <2>1, <3>3
    <3> QED BY <1>1, <2>1, <3>2, <3>3
  <2>3. b <= final => line <= final
    <3>1. /\ Min({final, M}) = (IF final <= M THEN final ELSE M)
          /\ Min({final, M}) + 1 \in Boundaries
      BY <1>1, <1>2, <2>1, PairOfNats
    <3> HIDE DEF final
    <3>2. CASE final <= M
      <4>1. final + 1 \in Boundaries
        BY <3>1, <3>2
      <4>2. final + 1 <= line => final + 1 <= b
        BY <1>10, <4>1
      <4> QED BY <1>4, <1>8, <2>1, <4>2
    <3>3. CASE final > M
      BY <1>1, <1>8, <2>1, <3>3
    <3> QED BY <1>1, <2>1, <3>2, <3>3
  <2> HIDE DEF first, final
  <2>4. line \in first..final <=> b \in first..final
    BY <1>4, <1>8, <2>1, <2>2, <2>3
  <2> QED BY <2>4 DEF contains_line, first, final
<1>12. line \in m..M /\ b \in m..M
  BY <1>1, <1>4, <1>8
<1> QED
  BY <1>1, <1>9, <1>11, <1>12

\* Every line of the range lies in a segment.
LEMMA SegmentsCover ==
  ASSUME LinesTypes, rest # {}, NEW line \in NextRange
  PROVE  \E g \in Segments : line \in g
<1> DEFINE m == Min(NextRange)  M == Max(NextRange)
<1>1. m \in Nat /\ M \in Nat /\ m <= M /\ NextRange = m..M
  BY RangeIsRun
<1>2. /\ Boundaries \in SUBSET Nat /\ m \in Boundaries /\ M + 1 \in Boundaries
      /\ Max(Boundaries) = M + 1
  BY BoundariesOfRange
<1> HIDE DEF m, M
<1>3. line \in Nat /\ m <= line /\ line <= M
  BY <1>1
<1> DEFINE before == {c \in Boundaries : c <= line}  b == Max(before)
           later == {c \in Boundaries : c > b}  n == Min(later)
<1>4. b \in before /\ \A c \in before : c <= b
  <2>1. before \in SUBSET Nat /\ before # {} /\ \A c \in before : c <= line
    BY <1>2, <1>3
  <2> HIDE DEF before
  <2> QED BY <1>3, <2>1, MaxOfNats
<1>5. b \in Boundaries /\ b \in Nat /\ b <= line
  BY <1>2, <1>4
<1> HIDE DEF b
<1>6. later \in SUBSET Nat /\ M + 1 \in later
  <2>1. M + 1 > b
    BY <1>1, <1>3, <1>5
  <2> QED BY <1>2, <2>1
<1>7. n \in later
  BY <1>6, MinOfNats
<1> HIDE DEF n
<1>8. n \in Nat /\ n > b /\ n \in Boundaries
  BY <1>2, <1>7
<1>9. line < n
  <2>1. n <= line => n <= b
    BY <1>4, <1>8
  <2> QED BY <1>3, <1>5, <1>8, <2>1
<1>10. line \in b..(n - 1)
  BY <1>3, <1>5, <1>8, <1>9
<1>11. b \in Boundaries \ {M + 1}
  BY <1>1, <1>3, <1>5
<1> QED
  BY <1>2, <1>10, <1>11 DEF Segments, n

\* A segment is decided as each of its lines would be.
LEMMA SegmentDecides ==
  ASSUME LinesTypes, rest # {}, NEW g \in Segments, NEW line \in g
  PROVE  Selected(g) = innermost(Candidates(line))
<1> DEFINE b == Min(g)
<1>1. \A i \in DOMAIN definitions : \A s \in Spans(i) :
        \A l \in NextRange : contains_line(s, l) => s \in Meeting(i)
  <2> SUFFICES ASSUME NEW i \in DOMAIN definitions, NEW s \in Spans(i), NEW l \in NextRange,
                      contains_line(s, l)
               PROVE  start_line(s) <= Max(NextRange) /\ end_line(s) >= Min(NextRange)
    BY DEF Meeting, Spans
  <2>1. start_line(s) \in Nat /\ end_line(s) \in Nat
    BY SpansHaveLines
  <2>2. /\ Min(NextRange) \in Nat /\ Max(NextRange) \in Nat
        /\ l \in Min(NextRange)..Max(NextRange)
    BY RangeIsRun
  <2>3. l \in start_line(s)..end_line(s)
    BY DEF contains_line
  <2> QED BY <2>1, <2>2, <2>3
<1>2. line \in NextRange /\ b \in NextRange
  BY SegmentIsUncut
<1>3. \A i \in DOMAIN definitions : \A s \in Spans(i) :
        contains_line(s, line) <=> contains_line(s, b)
  BY <1>1, <1>2, SegmentIsUncut
<1> HIDE DEF b
<1>4. \A i \in DOMAIN definitions :
        /\ definitions[i].declaration \in Spans(i)
        /\ \A s \in definitions[i].source : s \in Spans(i)
  BY DEF Spans
<1>5. Candidates(line) = Candidates(b)
  BY <1>3, <1>4 DEF Candidates
<1>6. \A c \in Candidates(b) : c.index \in relevant
  <2>1. \A i \in DOMAIN definitions : \A s \in Spans(i) : contains_line(s, b) => i \in relevant
    BY <1>1, <1>2 DEF relevant
  <2> QED BY <1>4, <2>1 DEF Candidates
<1>7. {c \in Candidates(b) : c.index \in relevant} = Candidates(b)
  BY <1>6
<1> QED
  BY <1>5, <1>7 DEF Selected, b

\* The lines of the range, one by one, under the outcome of map_range.
LEMMA RangeLineByLine ==
  ASSUME LinesTypes, rest # {}, NEW line \in FileLines
  PROVE  /\ \A i : \A w \in BOOLEAN :
              line \in Given(i, w) <=>
                /\ line \in NextRange
                /\ \E c \in innermost(Candidates(line)) : c.index = i /\ c.wrapper = w
         /\ line \in UNION {g \in Segments : Selected(g) = {}} <=>
              line \in NextRange /\ innermost(Candidates(line)) = {}
<1>1. \A g \in Segments : line \in g =>
        line \in NextRange /\ Selected(g) = innermost(Candidates(line))
  BY SegmentIsUncut, SegmentDecides
<1>2. line \in NextRange => \E g \in Segments : line \in g
  BY SegmentsCover
<1> QED
  BY <1>1, <1>2 DEF Given

MappedInv == LinesTypes /\ ChangesMapped /\ (rest # {} => unprocessed = {})
               /\ uncovered \in SUBSET FileLines /\ unprocessed \in SUBSET FileLines

\* A candidate is a definition, with or without its wrapper.
LEMMA CandidateIndexes ==
  ASSUME NEW line, NEW c \in innermost(Candidates(line))
  PROVE  c.index \in DOMAIN definitions /\ c.wrapper \in BOOLEAN
<1>1. c \in Candidates(line)
  BY DEF innermost
<1>2. \/ \E i \in DOMAIN definitions :
           c = [index |-> i, span |-> definitions[i].declaration, wrapper |-> FALSE]
      \/ \E i \in DOMAIN definitions : \E s \in definitions[i].source :
           c = [index |-> i, span |-> s, wrapper |-> TRUE]
  BY <1>1 DEF Candidates
<1>3. ASSUME NEW i \in DOMAIN definitions, NEW s, NEW w \in BOOLEAN,
             c = [index |-> i, span |-> s, wrapper |-> w]
      PROVE  c.index \in DOMAIN definitions /\ c.wrapper \in BOOLEAN
  BY <1>3
<1> QED
  BY <1>2, <1>3

\* map_range keeps what was mapped and maps its range line by line.
LEMMA MapRangeKeeps ==
  ASSUME MappedInv, MapRange
  PROVE  MappedInv'
<1> DEFINE D == DOMAIN definitions  R == NextRange
           Free == {l \in FileLines : innermost(Candidates(l)) = {}}
           Names(i) == {l \in FileLines :
                          \E c \in innermost(Candidates(l)) : c.index = i /\ ~c.wrapper}
           Wraps(i) == {l \in FileLines :
                          \E c \in innermost(Candidates(l)) : c.index = i /\ c.wrapper}
           Many == {l \in FileLines : Cardinality(innermost(Candidates(l))) > 1}
<1>1. LinesTypes /\ rest # {} /\ unprocessed = {} /\ LinesAccounted /\ MappedLineByLine
  BY DEF MappedInv, MapRange, ChangesMapped
<1>2. /\ definitions' = definitions /\ changed' = changed /\ unprocessed' = {}
      /\ rest' = rest \ R
      /\ named' = [i \in D |-> named[i] \cup Given(i, FALSE)]
      /\ wrapped' = [i \in D |-> wrapped[i] \cup Given(i, TRUE)]
      /\ uncovered' = uncovered \cup UNION {g \in Segments : Selected(g) = {}}
      /\ ambiguous \subseteq ambiguous'
  BY <1>1 DEF MapRange
<1>3. R \subseteq rest /\ rest \subseteq changed /\ changed \subseteq FileLines
  BY <1>1, RangeIsRun DEF LinesTypes
<1>4. /\ \A i \in D : \A l \in FileLines :
           /\ l \in Given(i, FALSE) <=> (l \in R /\ l \in Names(i))
           /\ l \in Given(i, TRUE) <=> (l \in R /\ l \in Wraps(i))
      /\ \A l \in FileLines :
           l \in UNION {g \in Segments : Selected(g) = {}} <=> (l \in R /\ l \in Free)
  BY <1>1, RangeLineByLine, CandidateIndexes
<1>5. \A i : \A w \in BOOLEAN : Given(i, w) \subseteq FileLines
  <2>1. \A g \in Segments : g \subseteq NextRange
    BY <1>1, SegmentIsUncut
  <2> QED BY <1>3, <2>1 DEF Given
<1>6. UNION {g \in Segments : Selected(g) = {}} \subseteq FileLines
  <2>1. \A g \in Segments : g \subseteq NextRange
    BY <1>1, SegmentIsUncut
  <2> QED BY <1>3, <2>1
<1>7. LinesTypes' /\ uncovered' \in SUBSET FileLines /\ unprocessed' \in SUBSET FileLines
  <2>1. named' \in [D -> SUBSET FileLines] /\ wrapped' \in [D -> SUBSET FileLines]
    BY <1>1, <1>2, <1>5 DEF LinesTypes
  <2>2. uncovered \in SUBSET FileLines
    BY DEF MappedInv
  <2> QED BY <1>1, <1>2, <1>6, <2>1, <2>2 DEF LinesTypes
<1>8. \A l : Candidates(l)' = Candidates(l)
  BY <1>2 DEF Candidates
<1> HIDE DEF Free, Names, Wraps, Many
<1>9. MappedLines' = MappedLines \cup {l \in R : l \notin Free}
  <2>1. \A l : l \in MappedLines' <=>
                 \E i \in D : \/ l \in named[i] \/ l \in wrapped[i]
                              \/ l \in Given(i, FALSE) \/ l \in Given(i, TRUE)
    <3>1. \A i \in D : /\ named'[i] = named[i] \cup Given(i, FALSE)
                       /\ wrapped'[i] = wrapped[i] \cup Given(i, TRUE)
      BY <1>2
    <3>2. \A l : l \in MappedLines' <=> \E i \in D : l \in named'[i] \/ l \in wrapped'[i]
      <4>1. definitions' = definitions
        BY <1>2
      <4> QED BY <4>1 DEF MappedLines
    <3> QED BY <3>1, <3>2
  <2>2. \A l : l \in MappedLines <=> \E i \in D : l \in named[i] \/ l \in wrapped[i]
    BY DEF MappedLines
  <2>3. \A l \in FileLines : l \notin Free <=> \E i \in D : l \in Names(i) \/ l \in Wraps(i)
    BY CandidateIndexes DEF Free, Names, Wraps
  <2>4. \A l : (\E i \in D : l \in Given(i, FALSE) \/ l \in Given(i, TRUE)) <=>
                 (l \in R /\ l \notin Free)
    <3>1. \A l \in R : l \in FileLines
      BY <1>3
    <3>2. \A l \in FileLines : (\E i \in D : l \in Given(i, FALSE) \/ l \in Given(i, TRUE)) <=>
                              (l \in R /\ \E i \in D : l \in Names(i) \/ l \in Wraps(i))
      <4> HIDE DEF D, R
      <4> QED BY <1>4
    <3>3. \A l : (\E i \in D : l \in Given(i, FALSE) \/ l \in Given(i, TRUE)) => l \in FileLines
      BY <1>5
    <3> HIDE DEF D, R
    <3> QED BY <2>3, <3>1, <3>2, <3>3
  <2> QED BY <2>1, <2>2, <2>4
<1>10. uncovered' = uncovered \cup {l \in R : l \in Free}
  BY <1>2, <1>3, <1>4, <1>6
<1>11. LinesAccounted'
  <2>1. /\ changed = rest \cup MappedLines \cup uncovered
        /\ rest \cap (MappedLines \cup uncovered) = {} /\ MappedLines \cap uncovered = {}
    BY <1>1 DEF LinesAccounted
  <2> QED BY <1>2, <1>3, <1>9, <1>10, <2>1 DEF LinesAccounted
<1>12. \A l \in changed \ rest' :
         /\ l \in uncovered' <=> l \in Free
         /\ \A i \in D : /\ l \in named'[i] <=> l \in Names(i)
                         /\ l \in wrapped'[i] <=> l \in Wraps(i)
         /\ l \in Many => \A c \in innermost(Candidates(l)) : c.index \in ambiguous'
  <2> SUFFICES ASSUME NEW l \in changed \ rest'
               PROVE  /\ l \in uncovered' <=> l \in Free
                      /\ \A i \in D : /\ l \in named'[i] <=> l \in Names(i)
                                      /\ l \in wrapped'[i] <=> l \in Wraps(i)
                      /\ l \in Many =>
                           \A c \in innermost(Candidates(l)) : c.index \in ambiguous'
    OBVIOUS
  <2>1. CASE l \in R
    <3>1. l \notin uncovered /\ \A i \in D : l \notin named[i] /\ l \notin wrapped[i]
      BY <1>1, <1>3, <2>1 DEF LinesAccounted, MappedLines
    <3>2. \A i \in D : /\ l \in named'[i] <=> l \in Names(i)
                       /\ l \in wrapped'[i] <=> l \in Wraps(i)
      BY <1>2, <1>3, <1>4, <2>1, <3>1
    <3>3. l \in uncovered' <=> l \in Free
      BY <1>10, <2>1, <3>1
    <3>4. ASSUME l \in Many, NEW c \in innermost(Candidates(l))
          PROVE  c.index \in ambiguous'
      <4>1. PICK g \in Segments : l \in g
        BY <1>1, <2>1, SegmentsCover
      <4>2. Selected(g) = innermost(Candidates(l))
        BY <1>1, <4>1, SegmentDecides
      <4>3. c \in Selected(g) /\ Cardinality(Selected(g)) > 1
        BY <3>4, <4>2 DEF Many
      <4>4. c.index \in relevant
        BY <4>3 DEF Selected, innermost
      <4> QED BY <4>3, <4>4 DEF MapRange
    <3> QED BY <3>2, <3>3, <3>4
  <2>2. CASE l \notin R
    <3>1. l \in changed \ (rest \cup unprocessed)
      BY <1>1, <1>2, <2>2
    <3>2. /\ l \in uncovered <=> l \in Free
          /\ \A i \in D : /\ l \in named[i] <=> l \in Names(i)
                          /\ l \in wrapped[i] <=> l \in Wraps(i)
          /\ l \in Many => \A c \in innermost(Candidates(l)) : c.index \in ambiguous
      <4>1. l \in FileLines
        BY <1>3
      <4>2. LET selected == innermost(Candidates(l))
            IN /\ l \in uncovered <=> selected = {}
               /\ \A i \in D :
                    /\ l \in named[i] <=> (\E c \in selected : c.index = i /\ ~c.wrapper)
                    /\ l \in wrapped[i] <=> (\E c \in selected : c.index = i /\ c.wrapper)
               /\ Cardinality(selected) > 1 => \A c \in selected : c.index \in ambiguous
        BY <1>1, <3>1 DEF MappedLineByLine
      <4> QED BY <4>1, <4>2 DEF Free, Names, Wraps, Many
    <3>3. \A i \in D : l \notin Given(i, FALSE) /\ l \notin Given(i, TRUE)
      <4>1. l \in FileLines
        BY <1>3
      <4> HIDE DEF D, R
      <4> QED BY <1>4, <2>2, <4>1
    <3>4. \A i \in D : /\ named'[i] = named[i] \cup Given(i, FALSE)
                      /\ wrapped'[i] = wrapped[i] \cup Given(i, TRUE)
      BY <1>2
    <3>5. l \in uncovered' <=> l \in uncovered
      BY <1>10, <2>2
    <3> QED BY <1>2, <3>2, <3>3, <3>4, <3>5
  <2> QED BY <2>1, <2>2
<1>13. MappedLineByLine'
  <2>1. definitions' = definitions /\ changed' = changed /\ unprocessed' = {}
    BY <1>2
  <2>2. ASSUME NEW l \in changed \ rest'
        PROVE  LET selected == innermost(Candidates(l))
               IN /\ l \in uncovered' <=> selected = {}
                  /\ \A i \in D :
                       /\ l \in named'[i] <=> (\E c \in selected : c.index = i /\ ~c.wrapper)
                       /\ l \in wrapped'[i] <=> (\E c \in selected : c.index = i /\ c.wrapper)
                  /\ Cardinality(selected) > 1 => \A c \in selected : c.index \in ambiguous'
    <3>1. l \in FileLines
      BY <1>3
    <3>2. l \in Free <=> innermost(Candidates(l)) = {}
      BY <3>1 DEF Free
    <3>3. (l \in uncovered' <=> l \in Free)
      BY <1>12
    <3>4. l \in uncovered' <=> innermost(Candidates(l)) = {}
      BY <3>2, <3>3
    <3>5. ASSUME NEW i \in D
          PROVE  /\ l \in named'[i] <=>
                      (\E c \in innermost(Candidates(l)) : c.index = i /\ ~c.wrapper)
                 /\ l \in wrapped'[i] <=>
                      (\E c \in innermost(Candidates(l)) : c.index = i /\ c.wrapper)
      <4>1. /\ l \in named'[i] <=> l \in Names(i)
            /\ l \in wrapped'[i] <=> l \in Wraps(i)
        BY <1>12
      <4>2. /\ l \in Names(i) <=>
                 (\E c \in innermost(Candidates(l)) : c.index = i /\ ~c.wrapper)
            /\ l \in Wraps(i) <=>
                 (\E c \in innermost(Candidates(l)) : c.index = i /\ c.wrapper)
        BY <3>1 DEF Names, Wraps
      <4> QED BY <4>1, <4>2
    <3>6. Cardinality(innermost(Candidates(l))) > 1 =>
            \A c \in innermost(Candidates(l)) : c.index \in ambiguous'
      <4>1. l \in Many => \A c \in innermost(Candidates(l)) : c.index \in ambiguous'
        BY <1>12
      <4> QED BY <3>1, <4>1 DEF Many
    <3> QED BY <3>4, <3>5, <3>6
  <2>3. \A l : innermost(Candidates(l))' = innermost(Candidates(l))
    BY <1>8 DEF innermost
  <2> QED BY <2>1, <2>2, <2>3 DEF MappedLineByLine
<1> QED
  BY <1>2, <1>7, <1>11, <1>13 DEF MappedInv, ChangesMapped

\* What does not fit the work limit is told as unprocessed.
LEMMA StopAtLimitKeeps ==
  ASSUME MappedInv, StopAtLimit
  PROVE  MappedInv'
<1>1. /\ LinesTypes /\ unprocessed = {} /\ LinesAccounted /\ MappedLineByLine
      /\ uncovered \in SUBSET FileLines
  BY DEF MappedInv, StopAtLimit, ChangesMapped
<1>2. /\ definitions' = definitions /\ changed' = changed /\ unprocessed' = rest
      /\ rest' = {} /\ named' = named /\ wrapped' = wrapped
      /\ uncovered' = uncovered /\ ambiguous' = ambiguous
  BY DEF StopAtLimit
<1>3. LinesTypes' /\ uncovered' \in SUBSET FileLines /\ unprocessed' \in SUBSET FileLines
  BY <1>1, <1>2 DEF LinesTypes
<1>4. LinesAccounted'
  <2>1. MappedLines' = MappedLines
    BY <1>2 DEF MappedLines
  <2> QED BY <1>1, <1>2, <2>1 DEF LinesAccounted
<1>5. MappedLineByLine'
  <2>1. \A l : innermost(Candidates(l))' = innermost(Candidates(l))
    BY <1>2 DEF Candidates, innermost
  <2>2. changed' \ (rest' \cup unprocessed') = changed \ (rest \cup unprocessed)
    BY <1>1, <1>2
  <2> QED BY <1>1, <1>2, <2>1, <2>2 DEF MappedLineByLine
<1> QED
  BY <1>2, <1>3, <1>4, <1>5 DEF MappedInv, ChangesMapped

\* The inductive invariant holds in every behaviour of the mapping of changed
\* lines: every range that map_range has gone through is decided line by line.
THEOREM MappedInductive == LinesSpec => []MappedInv
<1>1. LinesInit => MappedInv
  <2> SUFFICES ASSUME LinesInit
               PROVE  MappedInv
    OBVIOUS
  <2>1. LinesTypes
    BY DEF LinesInit, LinesTypes
  <2>2. MappedLines = {}
    BY DEF LinesInit, MappedLines
  <2>3. LinesAccounted
    BY <2>2 DEF LinesInit, LinesAccounted
  <2>4. changed \ (rest \cup unprocessed) = {}
    BY DEF LinesInit
  <2>5. MappedLineByLine
    BY <2>4 DEF MappedLineByLine
  <2> QED BY <2>1, <2>3, <2>5 DEF LinesInit, MappedInv, ChangesMapped
<1>2. MappedInv /\ [LinesNext]_linesVars => MappedInv'
  <2> SUFFICES ASSUME MappedInv, [LinesNext]_linesVars
               PROVE  MappedInv'
    OBVIOUS
  <2>1. CASE MapRange
    BY <2>1, MapRangeKeeps
  <2>2. CASE StopAtLimit
    BY <2>2, StopAtLimitKeeps
  <2>3. CASE UNCHANGED linesVars
    <3>1. /\ definitions' = definitions /\ changed' = changed /\ unprocessed' = unprocessed
          /\ rest' = rest /\ named' = named /\ wrapped' = wrapped
          /\ uncovered' = uncovered /\ ambiguous' = ambiguous
      BY <2>3 DEF linesVars
    <3>2. LinesTypes'
      BY <3>1 DEF MappedInv, LinesTypes
    <3>3. LinesAccounted'
      <4>1. MappedLines' = MappedLines
        BY <3>1 DEF MappedLines
      <4> QED BY <3>1, <4>1 DEF MappedInv, ChangesMapped, LinesAccounted
    <3>4. MappedLineByLine'
      <4>1. \A l : innermost(Candidates(l))' = innermost(Candidates(l))
        BY <3>1 DEF Candidates, innermost
      <4> QED BY <3>1, <4>1 DEF MappedInv, ChangesMapped, MappedLineByLine
    <3> QED BY <3>1, <3>2, <3>3, <3>4 DEF MappedInv, ChangesMapped
  <2> QED BY <2>1, <2>2, <2>3 DEF LinesNext
<1> QED
  BY <1>1, <1>2, PTL DEF LinesSpec

\* Every changed line is mapped, uncovered, unprocessed or still to come, and what
\* is decided by segments is what a decision line by line would be.
THEOREM ChangesAreMapped == LinesSpec => []ChangesMapped
<1>1. MappedInv => ChangesMapped
  BY DEF MappedInv
<1> QED
  BY <1>1, MappedInductive, PTL

-------------------------------------------------------------------------------
(***************************************************************************)
(* Consumers.  What the traversal is compared with: the least number of    *)
(* references from a seed.                                                 *)
(***************************************************************************)
RequestTypes ==
  /\ references \in SUBSET ((Symbols \cup {ModuleScope}) \X Symbols)
  /\ seeds \in Seq(Symbols) /\ depth \in Nat \ {0}

Edges == {e \in Symbols \X Symbols : Between(e[1], e[2]) # {}}

\* d is the distance from S along E.
IsDistance(E, S, d) ==
  /\ d \in [Symbols -> 0..Unseen]
  /\ \A s \in Symbols : d[s] = 0 <=> s \in S
  /\ \A s \in Symbols : d[s] # Unseen => d[s] < SymbolCount
  /\ \A s, t \in Symbols : <<s, t>> \in E /\ d[s] # Unseen => d[t] <= d[s] + 1
  /\ \A t \in Symbols : d[t] \in 1..SymbolCount =>
       \E s \in Symbols : <<s, t>> \in E /\ d[s] + 1 = d[t]

LEMMA SymbolCountIsNat == SymbolCount \in Nat /\ Symbols = 1..SymbolCount
BY ConsumersAssumption DEF Symbols

LEMMA SymbolsFinite == IsFiniteSet(Symbols) /\ Cardinality(Symbols) = SymbolCount
<1>1. SymbolCount \in Int /\ 1 \in Int /\ SymbolCount >= 0
  BY SymbolCountIsNat
<1> QED
  BY <1>1, FS_Interval, SymbolCountIsNat

\* Near adds the neighbours once more for every reference.
LEMMA NearGrows ==
  ASSUME RequestTypes
  PROVE  /\ Near \in [0..SymbolCount -> SUBSET Symbols] /\ Near[0] = ToSet(seeds)
         /\ \A n \in 1..SymbolCount :
              Near[n] = Near[n - 1] \cup
                {t \in Symbols : \E s \in Near[n - 1] : Between(s, t) # {}}
<1> DEFINE S == ToSet(seeds)
           More(B) == B \cup {t \in Symbols : \E s \in B : Between(s, t) # {}}
           F == [n \in 1..SymbolCount |-> [B \in SUBSET Symbols |-> More(B)]]
           G(f) == [n \in 0..SymbolCount |-> IF n = 0 THEN S ELSE More(f[n - 1])]
<1>1. S \in SUBSET Symbols
  BY DEF RequestTypes, ToSet
<1>2. SymbolCount \in Nat
  BY SymbolCountIsNat
<1> HIDE DEF S
<1>3. \A B \in SUBSET Symbols : More(B) \in SUBSET Symbols
  OBVIOUS
<1>4. F \in [1..SymbolCount -> [SUBSET Symbols -> SUBSET Symbols]]
  BY <1>3
<1>5. PICK f : Recursion(SymbolCount, SUBSET Symbols, S, F, f)
  <2> HIDE DEF F
  <2> QED BY <1>1, <1>2, <1>4, RecursionExists
<1>6. \A i \in 1..SymbolCount : i - 1 \in 0..SymbolCount
  BY <1>2
<1>7. \A i \in 1..SymbolCount : f[i] = More(f[i - 1])
  BY <1>5, <1>6 DEF Recursion
<1> HIDE DEF More
<1>8. f = G(f)
  <2>1. f \in [0..SymbolCount -> SUBSET Symbols] /\ \A n \in 0..SymbolCount : f[n] = G(f)[n]
    BY <1>2, <1>5, <1>7 DEF Recursion
  <2> QED BY <2>1
<1>9. Near = CHOOSE g : g = G(g)
  BY DEF Near, More, S
<1>10. Near = G(Near)
  <2> HIDE DEF G
  <2> QED BY <1>8, <1>9
<1>11. Near[0] = S /\ \A n \in 1..SymbolCount : Near[n] = More(Near[n - 1])
  BY <1>2, <1>10
<1>12. \A n \in 0..SymbolCount : Near[n] \in SUBSET Symbols
  <2> DEFINE Good == {n \in 0..SymbolCount : Near[n] \in SUBSET Symbols}
  <2>1. 0 \in Good /\ \A n \in 1..SymbolCount : n - 1 \in Good => n \in Good
    BY <1>1, <1>2, <1>3, <1>11
  <2>2. Good \in SUBSET (0..SymbolCount)
    OBVIOUS
  <2> HIDE DEF Good
  <2>3. \A n \in 0..SymbolCount : n \in Good
    BY <1>2, <2>1, <2>2, NumbersInTurn
  <2> QED BY <2>3 DEF Good
<1> QED
  BY <1>10, <1>11, <1>12 DEF More, S

\* Min of numbers that are bounded by one of them.
LEMMA LeastIsMin ==
  ASSUME NEW T \in SUBSET Nat, T # {}
  PROVE  Min(T) \in T /\ \A n \in T : Min(T) <= n
BY LeastNatural DEF Min

\* A path of least length passes no symbol twice.
LEMMA DistanceBelowCount ==
  ASSUME NEW E, NEW d \in [Symbols -> 0..Unseen],
         \A t \in Symbols : d[t] \in 1..SymbolCount =>
           \E s \in Symbols : <<s, t>> \in E /\ d[s] + 1 = d[t],
         NEW z \in Symbols, d[z] # Unseen
  PROVE  d[z] < SymbolCount
<1> DEFINE levels == {d[s] : s \in Symbols}
           k == d[z]
           Good == {n \in 0..k : k - n \in levels}
<1>1. SymbolCount \in Nat /\ Unseen = SymbolCount + 1 /\ Symbols = 1..SymbolCount /\ k \in 0..SymbolCount
  BY SymbolCountIsNat DEF Unseen
<1> HIDE DEF k
<1>2. 0 \in Good
  BY <1>1 DEF k
<1>3. ASSUME NEW n \in 1..k, n - 1 \in Good PROVE n \in Good
  <2>1. PICK t \in Symbols : d[t] = k - (n - 1)
    BY <1>3
  <2>2. d[t] \in 1..SymbolCount
    BY <1>1, <2>1
  <2>3. PICK s \in Symbols : d[s] + 1 = d[t]
    BY <2>2
  <2>4. d[s] = k - n /\ n \in 0..k
    <3>1. d[s] \in Nat
      BY <1>1
    <3>2. d[s] + 1 = k - (n - 1)
      BY <2>1, <2>3
    <3>3. k \in Nat /\ n \in Nat /\ n <= k
      BY <1>1
    <3> HIDE DEF Good, levels
    <3> QED BY <3>1, <3>2, <3>3
  <2> QED BY <2>4
<1>4. \A n \in 0..k : n \in Good
  <2> HIDE DEF Good
  <2>1. Good \in SUBSET (0..k)
    BY DEF Good
  <2>2. k \in Nat /\ \A n \in 1..k : n - 1 \in Good => n \in Good
    BY <1>1, <1>3
  <2> QED BY <1>2, <2>1, <2>2, NumbersInTurn
<1>5. 0..k \subseteq levels
  <2> SUFFICES ASSUME NEW i \in 0..k PROVE i \in levels
    OBVIOUS
  <2>1. k - i \in 0..k /\ k - (k - i) = i
    BY <1>1
  <2> QED BY <1>4, <2>1
<1>6. IsFiniteSet(levels) /\ Cardinality(levels) <= SymbolCount
  <2>1. IsFiniteSet(Symbols) /\ Cardinality(Symbols) = SymbolCount
    BY SymbolsFinite
  <2>2. d \in Surjection(Symbols, levels)
    BY Fun_RangeProperties DEF Range
  <2> QED BY <2>1, <2>2, FS_Surjection
<1>7. Cardinality(0..k) = k + 1 /\ Cardinality(0..k) <= Cardinality(levels) /\ Cardinality(levels) \in Nat
  <2>1. Cardinality(0..k) = k + 1
    BY <1>1, FS_Interval
  <2>2. 0..k \in SUBSET levels
    BY <1>5
  <2> HIDE DEF levels
  <2> QED BY <1>6, <2>1, <2>2, FS_Subset, FS_CardinalityType
<1> QED
  BY <1>1, <1>6, <1>7 DEF k

\* Distances is the distance from the seeds.
LEMMA DistancesAreLeast ==
  ASSUME RequestTypes
  PROVE  IsDistance(Edges, ToSet(seeds), Distances)
<1> DEFINE d == Distances
           Steps(s) == {n \in 0..SymbolCount : s \in Near[n]} \cup {Unseen}
<1>1. SymbolCount \in Nat /\ Unseen = SymbolCount + 1 /\ 1..SymbolCount = Symbols
  BY SymbolCountIsNat DEF Unseen
<1>2. \A s \in Symbols : /\ d[s] \in Steps(s) /\ d[s] \in 0..Unseen
                         /\ \A n \in Steps(s) : d[s] <= n
  <2> SUFFICES ASSUME NEW s \in Symbols
               PROVE  /\ d[s] \in Steps(s) /\ d[s] \in 0..Unseen
                      /\ \A n \in Steps(s) : d[s] <= n
    OBVIOUS
  <2>1. Steps(s) \in SUBSET (0..Unseen) /\ Steps(s) # {} /\ (0..Unseen) \in SUBSET Nat
    BY <1>1
  <2>2. d[s] = Min(Steps(s))
    BY DEF Distances
  <2> HIDE DEF d, Steps
  <2> QED BY <2>1, <2>2, LeastIsMin
<1>3. d \in [Symbols -> 0..Unseen]
  BY <1>2 DEF Distances
<1> HIDE DEF d
<1>4. \A s \in Symbols : d[s] # Unseen => d[s] \in 0..SymbolCount /\ s \in Near[d[s]]
  BY <1>2
<1>5. \A s \in Symbols, n \in 0..SymbolCount : s \in Near[n] => d[s] <= n
  BY <1>2
<1> HIDE DEF Steps
<1>6. \A s \in Symbols : d[s] = 0 <=> s \in ToSet(seeds)
  <2>1. Near[0] = ToSet(seeds) /\ 0 \in 0..SymbolCount /\ 0 # Unseen
    BY <1>1, NearGrows
  <2>2. \A s \in Symbols : d[s] \in Nat
    BY <1>1, <1>3
  <2> QED BY <1>4, <1>5, <2>1, <2>2
<1>7. ASSUME NEW s \in Symbols, NEW t \in Symbols, <<s, t>> \in Edges, d[s] # Unseen
      PROVE  d[t] <= d[s] + 1
  <2>1. d[s] \in 0..SymbolCount /\ s \in Near[d[s]]
    BY <1>4, <1>7
  <2>2. CASE d[s] = SymbolCount
    <3>1. d[t] \in 0..Unseen
      BY <1>3
    <3> QED BY <1>1, <2>2, <3>1
  <2>3. CASE d[s] # SymbolCount
    <3>1. d[s] + 1 \in 1..SymbolCount /\ d[s] + 1 \in 0..SymbolCount /\ (d[s] + 1) - 1 = d[s]
      BY <1>1, <2>1, <2>3
    <3>2. Between(s, t) # {}
      BY <1>7 DEF Edges
    <3>3. t \in Near[d[s] + 1]
      BY <2>1, <3>1, <3>2, NearGrows
    <3> QED BY <1>5, <3>1, <3>3
  <2> QED BY <2>2, <2>3
<1>8. ASSUME NEW t \in Symbols, d[t] \in 1..SymbolCount
      PROVE  \E s \in Symbols : <<s, t>> \in Edges /\ d[s] + 1 = d[t]
  <2>1. d[t] # Unseen /\ d[t] - 1 \in 0..SymbolCount
    BY <1>1, <1>8
  <2>2. t \in Near[d[t]] /\ t \notin Near[d[t] - 1]
    <3>1. ~(d[t] <= d[t] - 1)
      BY <1>1, <1>8
    <3> QED BY <1>4, <1>5, <2>1, <3>1
  <2>3. PICK s \in Near[d[t] - 1] : Between(s, t) # {}
    BY <1>8, <2>2, NearGrows
  <2>4. s \in Symbols
    BY <2>1, <2>3, NearGrows
  <2>5. <<s, t>> \in Edges
    BY <2>3, <2>4 DEF Edges
  <2>6. d[s] <= d[t] - 1 /\ d[s] # Unseen /\ d[s] \in Nat
    BY <1>1, <1>3, <1>5, <1>8, <2>1, <2>3, <2>4
  <2>7. d[t] <= d[s] + 1
    BY <1>7, <2>4, <2>5, <2>6
  <2>8. d[s] + 1 = d[t]
    BY <1>1, <1>8, <2>6, <2>7
  <2> QED BY <2>4, <2>5, <2>8
<1>9. \A s \in Symbols : d[s] # Unseen => d[s] < SymbolCount
  BY <1>3, <1>8, DistanceBelowCount
<1> QED
  BY <1>3, <1>6, <1>7, <1>8, <1>9 DEF IsDistance, d

-------------------------------------------------------------------------------
(***************************************************************************)
(* What Ordered gives: every member once, and in order.                    *)
(***************************************************************************)
Enumeration(S, f) ==
  /\ f \in Seq(S) /\ Len(f) = Cardinality(S)
  /\ \A x \in S : \E i \in 1..Len(f) : f[i] = x
  /\ \A i, j \in 1..Len(f) : f[i] = f[j] => i = j

LEMMA SetToSeqsLists ==
  ASSUME NEW S, IsFiniteSet(S), NEW f \in SetToSeqs(S)
  PROVE  Enumeration(S, f) /\ DOMAIN f = 1..Len(f)
<1> DEFINE c == Cardinality(S)
<1>1. c \in Nat
  BY FS_CardinalityType
<1>2. f \in [1..c -> S] /\ \A i, j \in 1..c : i # j => f[i] # f[j]
  BY DEF SetToSeqs
<1>3. IsFiniteSet(1..c) /\ Cardinality(1..c) = c
  BY <1>1, FS_Interval
<1> HIDE DEF c
<1>4. f \in Injection(1..c, S)
  BY <1>2, Fun_IsInj
<1>5. f \in Surjection(1..c, S)
  BY <1>3, <1>4, FS_Injection DEF c
<1>6. \A x \in S : \E i \in 1..c : f[i] = x
  BY <1>5 DEF Surjection
<1>7. f \in Seq(S) /\ Len(f) = c /\ DOMAIN f = 1..c
  BY <1>1, <1>2
<1> QED
  BY <1>2, <1>6, <1>7 DEF Enumeration, c

\* The sorted sequence is one of those that Ordered chooses from.
LEMMA SortedIsListed ==
  ASSUME NEW S, IsFiniteSet(S), NEW r \in [S -> Nat], NEW s, SortedBy(r, S, s)
  PROVE  /\ s \in SetToSeqs(S) /\ DOMAIN s = 1..Cardinality(S)
         /\ \A i, j \in DOMAIN s : i < j => r[s[i]] < r[s[j]]
<1>1. Cardinality(S) \in Nat
  BY FS_CardinalityType
<1>2. s \in [1..Cardinality(S) -> S] /\ \A i, j \in 1..Cardinality(S) : i < j => r[s[i]] < r[s[j]]
  BY DEF SortedBy
<1>3. ASSUME NEW i \in 1..Cardinality(S), NEW j \in 1..Cardinality(S), i # j, s[i] = s[j]
      PROVE  FALSE
  <2>1. i < j \/ j < i
    BY <1>1, <1>3
  <2>2. r[s[i]] \in Nat /\ r[s[i]] = r[s[j]]
    BY <1>2, <1>3
  <2> QED BY <1>2, <1>3, <2>1, <2>2
<1>4. s \in SetToSeqs(S)
  BY <1>2, <1>3 DEF SetToSeqs
<1> QED
  BY <1>2, <1>4

\* sort_by_key of the neighbours.
LEMMA OrderedByKey ==
  ASSUME NEW S \in SUBSET Symbols
  PROVE  Enumeration(S, Ordered(S, <))
<1> DEFINE InOrder(s) == \A i, j \in DOMAIN s : i < j => s[i] < s[j]
           r == [x \in S |-> x]
<1>1. IsFiniteSet(S)
  BY SymbolsFinite, FS_Subset
<1>2. r \in [S -> Nat] /\ \A x, y \in S : r[x] = r[y] => x = y
  BY SymbolCountIsNat
<1> HIDE DEF r
<1>3. PICK s : SortedBy(r, S, s)
  BY <1>1, <1>2, SortedExists
<1>4. s \in SetToSeqs(S) /\ DOMAIN s = 1..Cardinality(S) /\ \A i, j \in DOMAIN s : i < j => r[s[i]] < r[s[j]]
  BY <1>1, <1>2, <1>3, SortedIsListed
<1>5. s \in SetToSeqs(S) /\ InOrder(s)
  <2>1. \A i \in DOMAIN s : s[i] \in S
    BY <1>3, <1>4 DEF SortedBy
  <2> QED BY <1>4, <2>1 DEF r
<1>6. Ordered(S, <) = CHOOSE q \in SetToSeqs(S) : InOrder(q)
  BY DEF Ordered
<1>7. Ordered(S, <) \in SetToSeqs(S)
  <2> HIDE DEF InOrder
  <2> QED BY <1>5, <1>6
<1> QED
  BY <1>1, <1>7, SetToSeqsLists

\* A larger distance outweighs every difference of keys.
LEMMA Outweighs ==
  ASSUME NEW n \in Nat, NEW a \in Nat, NEW b \in Nat, NEW x \in 1..n, NEW y \in 1..n,
         a < b \/ (a = b /\ x < y)
  PROVE  a * n + x < b * n + y
<1>1. CASE a = b /\ x < y
  <2>1. a * n \in Nat
    OBVIOUS
  <2> QED BY <1>1, <2>1
<1>2. CASE a < b
  <2>1. PICK e \in Nat : b = (a + 1) + e
    <3>1. b - (a + 1) \in Nat /\ b = (a + 1) + (b - (a + 1))
      BY <1>2
    <3> QED BY <3>1
  <2>2. b * n = (a * n + n) + e * n
    BY <2>1
  <2>3. a * n \in Nat /\ e * n \in Nat
    OBVIOUS
  <2> QED BY <2>2, <2>3
<1> QED
  BY <1>1, <1>2

\* sort_by of the matches: by distance, then by key.
LEMMA OrderedByDistance ==
  ASSUME distances \in [Symbols -> 0..Unseen], NEW S \in SUBSET Symbols
  PROVE  /\ Enumeration(S, Ordered(S, Sooner))
         /\ \A i, j \in DOMAIN Ordered(S, Sooner) :
              i < j => distances[Ordered(S, Sooner)[i]] <= distances[Ordered(S, Sooner)[j]]
<1> DEFINE InOrder(s) == \A i, j \in DOMAIN s : i < j => Sooner(s[i], s[j])
           r == [x \in S |-> distances[x] * SymbolCount + x]
<1>1. IsFiniteSet(S)
  BY SymbolsFinite, FS_Subset
<1>2. /\ SymbolCount \in Nat /\ Symbols = 1..SymbolCount
      /\ \A x \in Symbols : distances[x] \in Nat
  BY SymbolCountIsNat DEF Unseen
<1>3. \A x, y \in S : Sooner(x, y) => r[x] < r[y]
  <2> SUFFICES ASSUME NEW x \in S, NEW y \in S, Sooner(x, y) PROVE r[x] < r[y]
    OBVIOUS
  <2>1. distances[x] \in Nat /\ distances[y] \in Nat /\ x \in 1..SymbolCount /\ y \in 1..SymbolCount
    BY <1>2
  <2>2. distances[x] * SymbolCount + x < distances[y] * SymbolCount + y
    BY <1>2, <2>1, Outweighs DEF Sooner
  <2> QED BY <2>2
<1>4. r \in [S -> Nat]
  <2>1. \A x \in S : distances[x] * SymbolCount \in Nat /\ x \in Nat
    BY <1>2
  <2> QED BY <2>1
<1> HIDE DEF r
<1>5. \A x, y \in S : Sooner(x, y) \/ Sooner(y, x) \/ x = y
  BY <1>2 DEF Sooner
<1>6. \A x, y \in S : r[x] < r[y] => Sooner(x, y)
  BY <1>3, <1>4, <1>5
<1>7. PICK s : SortedBy(r, S, s)
  <2>1. \A x, y \in S : r[x] = r[y] => x = y
    BY <1>3, <1>4, <1>5
  <2> QED BY <1>1, <1>4, <2>1, SortedExists
<1>8. s \in SetToSeqs(S) /\ DOMAIN s = 1..Cardinality(S) /\ \A i, j \in DOMAIN s : i < j => r[s[i]] < r[s[j]]
  BY <1>1, <1>4, <1>7, SortedIsListed
<1>9. s \in SetToSeqs(S) /\ InOrder(s)
  <2>1. \A i \in DOMAIN s : s[i] \in S
    BY <1>7, <1>8 DEF SortedBy
  <2> QED BY <1>6, <1>8, <2>1
<1> DEFINE o == Ordered(S, Sooner)
<1>10. o = CHOOSE q \in SetToSeqs(S) : InOrder(q)
  BY DEF Ordered
<1>11. o \in SetToSeqs(S) /\ InOrder(o)
  <2> HIDE DEF InOrder, o
  <2> QED BY <1>9, <1>10
<1>12. Enumeration(S, o) /\ DOMAIN o = 1..Len(o)
  BY <1>1, <1>11, SetToSeqsLists
<1>13. \A i, j \in DOMAIN o : i < j => distances[o[i]] <= distances[o[j]]
  <2>1. \A i \in DOMAIN o : o[i] \in Symbols
    BY <1>12 DEF Enumeration
  <2>2. \A x, y \in Symbols : Sooner(x, y) => distances[x] <= distances[y]
    BY <1>2 DEF Sooner
  <2> HIDE DEF o
  <2> QED BY <1>11, <2>1, <2>2
<1> QED
  BY <1>12, <1>13

-------------------------------------------------------------------------------
(***************************************************************************)
(* The search.  The queue q holds the symbols that are seen and whose      *)
(* neighbours are not looked at, nearest first and of two distances at     *)
(* most; everything as near as its head is seen.                           *)
(***************************************************************************)
Queued(q, s) == \E i \in 1..Len(q) : q[i] = s

Frontier(E, d, q, seen) ==
  /\ \A s \in Symbols : d[s] = 0 => s \in seen
  /\ \A s \in seen : d[s] # Unseen
  /\ \A i \in 1..Len(q) : q[i] \in seen
  /\ \A i, j \in 1..Len(q) : i < j => d[q[i]] <= d[q[j]]
  /\ \A i \in 1..Len(q) : d[q[i]] <= d[q[1]] + 1
  /\ \A s \in seen, t \in Symbols :
       <<s, t>> \in E => t \in seen \/ Queued(q, s)
  /\ Len(q) > 0 => \A s \in Symbols : d[s] <= d[q[1]] => s \in seen

LEMMA TailThen ==
  ASSUME NEW q \in Seq(Symbols), q # <<>>, NEW o \in Seq(Symbols)
  PROVE  /\ Tail(q) \o o \in Seq(Symbols) /\ Len(q) \in Nat /\ Len(q) > 0 /\ Head(q) = q[1]
         /\ Len(o) \in Nat
         /\ Len(Tail(q) \o o) = (Len(q) - 1) + Len(o)
         /\ \A i \in 1..(Len(q) - 1) : (Tail(q) \o o)[i] = q[i + 1]
         /\ \A i \in 1..Len(o) : (Tail(q) \o o)[(Len(q) - 1) + i] = o[i]
<1>1. /\ Tail(q) \in Seq(Symbols) /\ Len(Tail(q)) = Len(q) - 1 /\ Head(q) = q[1]
      /\ Len(q) \in Nat /\ Len(q) > 0 /\ Len(o) \in Nat
      /\ \A i \in 1..(Len(q) - 1) : Tail(q)[i] = q[i + 1]
  OBVIOUS
<1> DEFINE r == Tail(q)
<1> HIDE DEF r
<1>2. /\ r \o o \in Seq(Symbols) /\ Len(r \o o) = Len(r) + Len(o)
      /\ \A i \in 1..Len(r) : (r \o o)[i] = r[i]
      /\ \A i \in 1..Len(o) : (r \o o)[Len(r) + i] = o[i]
  BY <1>1 DEF r
<1> QED
  BY <1>1, <1>2 DEF r

\* Each entry of the longer queue is an old one or new.
LEMMA EntriesThen ==
  ASSUME NEW q \in Seq(Symbols), q # <<>>, NEW new \in SUBSET Symbols, NEW o, Enumeration(new, o)
  PROVE  /\ \A i \in 1..Len(Tail(q) \o o) :
              \/ i \in 1..(Len(q) - 1) /\ i + 1 \in 1..Len(q) /\ (Tail(q) \o o)[i] = q[i + 1]
              \/ i > Len(q) - 1 /\ (Tail(q) \o o)[i] \in new
         /\ \A i \in 2..Len(q) : i - 1 \in 1..Len(Tail(q) \o o) /\ (Tail(q) \o o)[i - 1] = q[i]
         /\ \A t \in new : Queued(Tail(q) \o o, t)
         /\ Tail(q) \o o \in Seq(Symbols)
<1> DEFINE p == Tail(q) \o o
           n == Len(q) - 1
<1>1. o \in Seq(new) /\ o \in Seq(Symbols) /\ Len(o) \in Nat /\ \A i \in 1..Len(o) : o[i] \in new
  BY DEF Enumeration
<1>2. /\ p \in Seq(Symbols) /\ n \in Nat /\ Len(q) = n + 1 /\ Len(p) = n + Len(o)
      /\ \A i \in 1..n : p[i] = q[i + 1]
      /\ \A i \in 1..Len(o) : p[n + i] = o[i]
  BY <1>1, TailThen
<1> HIDE DEF p, n
<1>3. ASSUME NEW i \in 1..Len(p)
      PROVE  \/ i \in 1..n /\ i + 1 \in 1..Len(q) /\ p[i] = q[i + 1]
             \/ i > n /\ p[i] \in new
  <2>1. CASE i <= n
    BY <1>2, <2>1
  <2>2. CASE i > n
    <3>1. i - n \in 1..Len(o) /\ n + (i - n) = i
      BY <1>1, <1>2, <2>2
    <3> QED BY <1>1, <1>2, <2>2, <3>1
  <2> QED BY <1>1, <1>2, <2>1, <2>2
<1>4. ASSUME NEW i \in 2..Len(q) PROVE i - 1 \in 1..Len(p) /\ p[i - 1] = q[i]
  <2>1. i - 1 \in 1..n /\ (i - 1) + 1 = i
    BY <1>2
  <2> QED BY <1>1, <1>2, <2>1
<1>5. ASSUME NEW t \in new PROVE \E i \in 1..Len(p) : p[i] = t
  <2>1. PICK i \in 1..Len(o) : o[i] = t
    BY DEF Enumeration
  <2>2. n + i \in 1..Len(p) /\ p[n + i] = t
    BY <1>1, <1>2, <2>1
  <2> QED BY <2>2
<1> QED
  BY <1>2, <1>3, <1>4, <1>5 DEF p, n, Queued

\* The neighbours that are new have the next distance.
LEMMA NewAreNext ==
  ASSUME NEW E, NEW S, NEW d, IsDistance(E, S, d), NEW q \in Seq(Symbols), q # <<>>,
         NEW seen \in SUBSET Symbols, Frontier(E, d, q, seen),
         NEW t \in Symbols \ seen, <<Head(q), t>> \in E
  PROVE  Head(q) \in seen /\ d[Head(q)] \in 0..(SymbolCount - 1) /\ d[t] = d[Head(q)] + 1
<1>1. Head(q) = q[1] /\ Len(q) > 0 /\ 1 \in 1..Len(q)
  OBVIOUS
<1>2. q[1] \in seen /\ d[q[1]] # Unseen
  BY <1>1 DEF Frontier
<1>3. d[q[1]] \in Nat /\ d[q[1]] < SymbolCount /\ d[t] \in Nat /\ SymbolCount \in Nat
  BY <1>2, SymbolCountIsNat DEF IsDistance, Unseen
<1>4. d[t] <= d[q[1]] + 1
  BY <1>1, <1>2 DEF IsDistance
<1>5. ~(d[t] <= d[q[1]])
  BY <1>1 DEF Frontier
<1> QED
  BY <1>1, <1>2, <1>3, <1>4, <1>5

LEMMA FrontierStep ==
  ASSUME NEW E, NEW S, NEW d, IsDistance(E, S, d), NEW q \in Seq(Symbols), q # <<>>,
         NEW seen \in SUBSET Symbols, Frontier(E, d, q, seen),
         NEW new, new = {t \in Symbols \ seen : <<Head(q), t>> \in E},
         NEW o, Enumeration(new, o)
  PROVE  Frontier(E, d, Tail(q) \o o, seen \cup new)
<1> DEFINE p == Tail(q) \o o
           k == d[Head(q)]
           more == seen \cup new
<1>1. Head(q) = q[1] /\ Len(q) \in Nat /\ Len(q) > 0 /\ 1 \in 1..Len(q) /\ new \in SUBSET Symbols
  OBVIOUS
<1>2. \A t \in new : d[t] = k + 1 /\ k + 1 \in Nat
  <2>1. ASSUME NEW t \in new PROVE d[t] = k + 1 /\ k \in 0..(SymbolCount - 1)
    BY NewAreNext
  <2> QED BY <2>1, SymbolCountIsNat
<1>3. k \in Nat /\ k < SymbolCount /\ SymbolCount \in Nat /\ Unseen = SymbolCount + 1 /\ q[1] \in seen
  <2>1. q[1] \in seen /\ q[1] \in Symbols /\ d[q[1]] # Unseen
    BY <1>1 DEF Frontier
  <2> QED BY <1>1, <2>1, SymbolCountIsNat DEF IsDistance, Unseen
<1>4. /\ \A i \in 1..Len(p) :
           \/ i \in 1..(Len(q) - 1) /\ i + 1 \in 1..Len(q) /\ p[i] = q[i + 1]
           \/ i > Len(q) - 1 /\ p[i] \in new
      /\ \A i \in 2..Len(q) : i - 1 \in 1..Len(p) /\ p[i - 1] = q[i]
      /\ \A t \in new : Queued(p, t)
      /\ Len(p) \in Nat
  <2>1. new \in SUBSET Symbols
    BY <1>1
  <2>2. p \in Seq(Symbols)
    BY <2>1, EntriesThen
  <2>3. Len(p) \in Nat
    BY <2>2
  <2>4. \A i \in 1..Len(p) :
          \/ i \in 1..(Len(q) - 1) /\ i + 1 \in 1..Len(q) /\ p[i] = q[i + 1]
          \/ i > Len(q) - 1 /\ p[i] \in new
    BY <2>1, EntriesThen
  <2>5. \A i \in 2..Len(q) : i - 1 \in 1..Len(p) /\ p[i - 1] = q[i]
    BY <2>1, EntriesThen
  <2>6. \A t \in new : Queued(p, t)
    BY <2>1, EntriesThen
  <2> QED BY <2>3, <2>4, <2>5, <2>6
<1>5. k = d[q[1]]
  BY <1>1
<1> HIDE DEF p, k, more
<1>6. \A s \in Symbols : d[s] \in Nat
  BY <1>3 DEF IsDistance
<1>7. \A i \in 1..Len(q) : q[i] \in Symbols /\ q[i] \in seen /\ d[q[i]] >= k /\ d[q[i]] <= k + 1
  <2> SUFFICES ASSUME NEW i \in 1..Len(q)
               PROVE  q[i] \in Symbols /\ q[i] \in seen /\ d[q[i]] >= k /\ d[q[i]] <= k + 1
    OBVIOUS
  <2>1. q[i] \in seen /\ d[q[i]] <= k + 1
    BY <1>5 DEF Frontier
  <2>2. i = 1 \/ 1 < i
    BY <1>1
  <2>3. CASE i = 1
    BY <1>5, <1>3, <2>1, <2>3
  <2>4. CASE 1 < i
    BY <1>1, <1>3, <1>5, <1>6, <2>1, <2>4 DEF Frontier
  <2> QED BY <2>2, <2>3, <2>4
<1>8. \A i \in 1..Len(p) : /\ p[i] \in more /\ p[i] \in Symbols
                           /\ d[p[i]] \in Nat /\ d[p[i]] >= k /\ d[p[i]] <= k + 1
  <2> SUFFICES ASSUME NEW i \in 1..Len(p)
               PROVE  /\ p[i] \in more /\ p[i] \in Symbols
                      /\ d[p[i]] \in Nat /\ d[p[i]] >= k /\ d[p[i]] <= k + 1
    OBVIOUS
  <2>1. CASE i + 1 \in 1..Len(q) /\ p[i] = q[i + 1]
    BY <1>6, <1>7, <2>1 DEF more
  <2>2. CASE p[i] \in new
    BY <1>1, <1>2, <1>3, <1>6, <2>2 DEF more
  <2> QED BY <1>4, <2>1, <2>2
<1>9. \A i, j \in 1..Len(p) : i < j => d[p[i]] <= d[p[j]]
  <2> SUFFICES ASSUME NEW i \in 1..Len(p), NEW j \in 1..Len(p), i < j PROVE d[p[i]] <= d[p[j]]
    OBVIOUS
  <2>1. CASE p[j] \in new
    BY <1>2, <1>8, <2>1
  <2>2. CASE p[j] \notin new
    <3>1. j + 1 \in 1..Len(q) /\ p[j] = q[j + 1] /\ j <= Len(q) - 1
      BY <1>4, <2>2
    <3>2. i + 1 \in 1..Len(q) /\ p[i] = q[i + 1] /\ i + 1 < j + 1
      BY <1>1, <1>4, <3>1
    <3> QED BY <3>1, <3>2 DEF Frontier
  <2> QED BY <2>1, <2>2
<1>10. \A i \in 1..Len(p) : d[p[i]] <= d[p[1]] + 1
  <2> SUFFICES ASSUME NEW i \in 1..Len(p) PROVE d[p[i]] <= d[p[1]] + 1
    OBVIOUS
  <2>1. 1 \in 1..Len(p)
    BY <1>4
  <2> QED BY <1>3, <1>8, <2>1
<1>11. ASSUME NEW s \in more, NEW t \in Symbols, <<s, t>> \in E, t \notin more
       PROVE  Queued(p, s)
  <2>1. CASE s \in new
    BY <1>4, <2>1
  <2>2. CASE s \in seen
    <3>1. PICK i \in 1..Len(q) : q[i] = s
      BY <1>11, <2>2 DEF Frontier, more, Queued
    <3>2. s # q[1]
      BY <1>1, <1>11 DEF more
    <3>3. i \in 2..Len(q)
      BY <1>1, <3>1, <3>2
    <3> QED BY <1>4, <3>1, <3>3 DEF Queued
  <2> QED BY <2>1, <2>2 DEF more
<1>12. ASSUME Len(p) > 0, NEW s \in Symbols, d[s] <= d[p[1]] PROVE s \in more
  <2>1. 1 \in 1..Len(p)
    BY <1>4, <1>12
  <2>2. d[p[1]] = k \/ d[p[1]] = k + 1
    BY <1>3, <1>8, <2>1
  <2>3. CASE d[s] <= k
    BY <1>1, <1>5, <2>3 DEF Frontier, more
  <2>4. CASE ~(d[s] <= k)
    <3>1. d[s] = k + 1 /\ d[p[1]] = k + 1
      BY <1>3, <1>6, <1>12, <2>2, <2>4
    <3>2. PICK u \in Symbols : <<u, s>> \in E /\ d[u] + 1 = d[s]
      <4>1. d[s] \in 1..SymbolCount
        BY <1>3, <3>1
      <4> QED BY <4>1 DEF IsDistance
    <3>3. d[u] = k
      BY <1>3, <1>6, <3>1, <3>2
    <3>4. u \in seen
      BY <1>1, <1>3, <1>5, <3>3 DEF Frontier
    <3>5. ~Queued(p, u)
      <4>1. ASSUME NEW i \in 1..Len(p), p[i] = u PROVE FALSE
        <5>1. i = 1 \/ 1 < i
          BY <1>4
        <5>2. d[p[1]] <= d[p[i]]
          BY <1>8, <1>9, <2>1, <5>1
        <5> QED BY <1>3, <3>1, <3>3, <4>1, <5>2
      <4> QED BY <4>1 DEF Queued
    <3> QED BY <1>11, <3>2, <3>4, <3>5 DEF more
  <2> QED BY <2>3, <2>4
<1>13. \A s \in more : d[s] # Unseen
  BY <1>2, <1>3 DEF Frontier, more
<1>14. \A s \in Symbols : d[s] = 0 => s \in more
  BY DEF Frontier, more
<1>15. Frontier(E, d, p, more)
  BY <1>8, <1>9, <1>10, <1>11, <1>12, <1>13, <1>14 DEF Frontier
<1> QED
  BY <1>15 DEF p, more

\* When the queue is empty everything that can be reached is seen.
LEMMA FrontierDone ==
  ASSUME NEW E, NEW S, NEW d, IsDistance(E, S, d), NEW q, Len(q) = 0,
         NEW seen \in SUBSET Symbols, Frontier(E, d, q, seen),
         NEW z \in Symbols, d[z] # Unseen
  PROVE  z \in seen
<1> DEFINE Missed == {d[s] : s \in {u \in Symbols : d[u] # Unseen /\ u \notin seen}}
<1> SUFFICES ASSUME z \notin seen PROVE FALSE
  OBVIOUS
<1>1. SymbolCount \in Nat /\ Unseen = SymbolCount + 1 /\ \A s \in Symbols : d[s] \in 0..Unseen
  BY SymbolCountIsNat DEF IsDistance, Unseen
<1>2. PICK m \in Missed : \A n \in Missed : m <= n
  <2>1. Missed \in SUBSET Nat /\ Missed # {}
    BY <1>1
  <2> HIDE DEF Missed
  <2> QED BY <2>1, LeastNatural
<1>3. PICK t \in Symbols : d[t] = m /\ d[t] # Unseen /\ t \notin seen
  BY <1>2
<1>4. d[t] \in 1..SymbolCount
  <2>1. d[t] # 0
    BY <1>3 DEF Frontier
  <2> QED BY <1>1, <1>3, <2>1
<1>5. PICK s \in Symbols : <<s, t>> \in E /\ d[s] + 1 = d[t]
  BY <1>4 DEF IsDistance
<1>6. d[s] # Unseen /\ d[s] < m
  BY <1>1, <1>3, <1>4, <1>5
<1>7. s \in seen
  <2>1. d[s] \in Missed => m <= d[s]
    BY <1>2
  <2>2. s \notin seen => d[s] \in Missed
    BY <1>6
  <2> QED BY <1>1, <1>3, <1>6, <2>1, <2>2
<1>8. 1..Len(q) = {}
  OBVIOUS
<1> QED
  BY <1>3, <1>5, <1>7, <1>8 DEF Frontier, Queued

(***************************************************************************)
(* The evidence.  L[s][t] are the references between s and t; r is due to  *)
(* t if it reaches t within the depth from one step nearer.  Whatever is   *)
(* seen and no longer queued has told of all its neighbours.               *)
(***************************************************************************)
IsDue(L, d, dep, t, r) ==
  d[t] \in 1..dep /\ \E s \in Symbols : d[s] + 1 = d[t] /\ r \in L[s][t]

Evidenced(L, d, dep, q, seen, ev) ==
  /\ \A t \in Symbols : \A r \in ev[t] : IsDue(L, d, dep, t, r)
  /\ \A s \in seen, t \in Symbols :
       ~Queued(q, s) /\ d[t] = d[s] + 1 /\ d[t] <= dep => L[s][t] \subseteq ev[t]

Linked(L) == {e \in Symbols \X Symbols : L[e[1]][e[2]] # {}}

LEMMA EvidenceStep ==
  ASSUME NEW L, NEW S, NEW d, IsDistance(Linked(L), S, d), NEW q \in Seq(Symbols), q # <<>>,
         NEW seen \in SUBSET Symbols, Frontier(Linked(L), d, q, seen), NEW dep \in Nat,
         NEW new, new = {t \in Symbols \ seen : <<Head(q), t>> \in Linked(L)},
         NEW o, Enumeration(new, o), NEW ev, Evidenced(L, d, dep, q, seen, ev), NEW more,
         \A t \in Symbols :
           more[t] = IF /\ d[Head(q)] + 1 <= dep
                        /\ t \notin seen \/ d[t] = d[Head(q)] + 1
                     THEN ev[t] \cup L[Head(q)][t] ELSE ev[t]
  PROVE  Evidenced(L, d, dep, Tail(q) \o o, seen \cup new, more)
<1> DEFINE h == Head(q)
<1>1. h = q[1] /\ Len(q) \in Nat /\ Len(q) > 0 /\ 1 \in 1..Len(q) /\ new \in SUBSET Symbols
  OBVIOUS
<1>2. h \in seen /\ h \in Symbols
  BY <1>1 DEF Frontier
<1>3. \A s \in Symbols : d[s] \in Nat
  BY SymbolCountIsNat DEF IsDistance, Unseen
<1>4. ASSUME NEW t \in Symbols \ seen, L[h][t] # {} PROVE d[t] = d[h] + 1
  <2>1. <<h, t>> \in Linked(L)
    BY <1>2, <1>4 DEF Linked
  <2> QED BY <2>1, NewAreNext
<1>5. \A s \in Symbols : Queued(q, s) => s = h \/ Queued(Tail(q) \o o, s)
  <2> SUFFICES ASSUME NEW s \in Symbols, Queued(q, s), s # h PROVE Queued(Tail(q) \o o, s)
    OBVIOUS
  <2>1. PICK i \in 1..Len(q) : q[i] = s
    BY DEF Queued
  <2>2. i \in 2..Len(q)
    BY <1>1, <2>1
  <2>3. i - 1 \in 1..Len(Tail(q) \o o) /\ (Tail(q) \o o)[i - 1] = q[i]
    BY <1>1, <2>2, EntriesThen
  <2> QED BY <2>1, <2>3 DEF Queued
<1> DEFINE p == Tail(q) \o o
<1>6. \A t \in new : Queued(p, t)
  BY <1>1, EntriesThen
<1> HIDE DEF p, h
<1>7. ASSUME NEW t \in Symbols, NEW r \in more[t] PROVE IsDue(L, d, dep, t, r)
  <2>1. CASE r \in ev[t]
    BY <2>1 DEF Evidenced
  <2>2. CASE r \notin ev[t]
    <3>1. d[h] + 1 <= dep /\ (t \notin seen \/ d[t] = d[h] + 1) /\ r \in L[h][t]
      BY <1>7, <2>2 DEF h
    <3>2. d[t] = d[h] + 1
      BY <1>4, <3>1
    <3>3. d[t] \in 1..dep
      BY <1>2, <1>3, <3>1, <3>2
    <3> QED BY <1>2, <3>1, <3>2, <3>3 DEF IsDue
  <2> QED BY <2>1, <2>2
<1>8. ASSUME NEW s \in seen \cup new, NEW t \in Symbols, ~Queued(p, s), d[t] = d[s] + 1, d[t] <= dep
      PROVE  L[s][t] \subseteq more[t]
  <2>1. s \in seen
    BY <1>6, <1>8
  <2>2. CASE s = h
    BY <1>8, <2>2 DEF h
  <2>3. CASE s # h
    <3>1. ~Queued(q, s)
      BY <1>5, <1>8, <2>1, <2>3 DEF p
    <3>2. L[s][t] \subseteq ev[t]
      BY <1>8, <2>1, <3>1 DEF Evidenced
    <3> QED BY <3>2 DEF h
  <2> QED BY <2>2, <2>3
<1> QED
  BY <1>7, <1>8 DEF Evidenced, p

\* When the queue is empty the evidence is all that is due.
LEMMA EvidenceDone ==
  ASSUME NEW L, NEW S, NEW d, IsDistance(Linked(L), S, d), NEW q, Len(q) = 0,
         NEW seen \in SUBSET Symbols, Frontier(Linked(L), d, q, seen), NEW dep \in Nat,
         NEW ev, Evidenced(L, d, dep, q, seen, ev), NEW t \in Symbols
  PROVE  \A r : r \in ev[t] <=> IsDue(L, d, dep, t, r)
<1>1. SymbolCount \in Nat /\ Unseen = SymbolCount + 1 /\ \A s \in Symbols : d[s] \in 0..Unseen
  BY SymbolCountIsNat DEF IsDistance, Unseen
<1>2. ASSUME NEW r, IsDue(L, d, dep, t, r) PROVE r \in ev[t]
  <2>1. PICK s \in Symbols : d[s] + 1 = d[t] /\ r \in L[s][t]
    BY <1>2 DEF IsDue
  <2>2. d[t] <= dep
    BY <1>2 DEF IsDue
  <2>3. d[s] # Unseen
    BY <1>1, <2>1
  <2>4. s \in seen
    BY <2>3, FrontierDone
  <2>5. ~Queued(q, s)
    BY DEF Queued
  <2> QED BY <2>1, <2>2, <2>4, <2>5 DEF Evidenced
<1> QED
  BY <1>2 DEF Evidenced

-------------------------------------------------------------------------------
(***************************************************************************)
(* The invariant of the search and of the limits.                          *)
(***************************************************************************)
Links == [s \in Symbols |-> [t \in Symbols |-> Between(s, t)]]

LEMMA EdgesAreLinked == Edges = Linked(Links)
BY DEF Edges, Linked, Links

Seen == {s \in Symbols : distances[s] # Unseen}

IsTrue(d) == IsDistance(Linked(Links), ToSet(seeds), d)

Searching(d) ==
  /\ \A s \in Seen : distances[s] = d[s]
  /\ Frontier(Linked(Links), d, queue, Seen)
  /\ Evidenced(Links, d, depth, queue, Seen, evidence)

Found(d) ==
  /\ \A s \in Symbols :
       evidence[s] = IF d[s] \in 1..depth
                     THEN UNION {Between(t, s) : t \in {u \in Symbols : d[u] = d[s] - 1}}
                     ELSE {}
  /\ \A i, j \in DOMAIN hits : i < j => d[hits[i]] <= d[hits[j]]
  /\ counts.depth = Cardinality({s \in Symbols : d[s] \in (depth + 1)..SymbolCount})

ConsumersTypes ==
  /\ RequestTypes
  /\ queue \in Seq(Symbols) /\ distances \in [Symbols -> 0..Unseen]
  /\ admitted \in Seq(Symbols) /\ returned \in SUBSET Symbols
  /\ counts \in [total : Nat, depth : Nat, path : Nat, limit : Nat, budget : Nat]
  /\ stage \in {"traversing", "limiting", "fitting", "reported"}

Distinct(f) == \A i, j \in 1..Len(f) : f[i] = f[j] => i = j

PathsKept ==
  /\ IsFiniteSet(paths) /\ Cardinality(paths) <= PathLimit
  /\ \A i \in 1..Len(admitted) : PathOf[admitted[i]] \in paths
  /\ \A s \in returned : PathOf[s] \in paths

Limited ==
  /\ hits \in Seq(Symbols) /\ Distinct(hits) /\ returned = {}
  /\ \A i \in 1..Len(hits), j \in 1..Len(admitted) : hits[i] # admitted[j]
  /\ counts.total = Len(hits) + Len(admitted) + counts.path + counts.limit
  /\ Len(admitted) <= Limit

Fitted ==
  /\ \A i \in 1..Len(admitted) : admitted[i] \notin returned
  /\ counts.total = Cardinality(returned) + counts.path + counts.limit + counts.budget
  /\ Len(admitted) <= counts.budget
  /\ Cardinality(returned) + Len(admitted) <= Limit

ConsumersInv ==
  /\ ConsumersTypes /\ Distinct(admitted) /\ PathsKept
  /\ stage = "traversing" =>
       /\ \A d : IsTrue(d) => Searching(d)
       /\ paths = {} /\ admitted = <<>> /\ returned = {}
  /\ stage = "limiting" => Limited /\ (paths = {} => \A d : IsTrue(d) => Found(d))
  /\ stage \in {"fitting", "reported"} => Fitted

-------------------------------------------------------------------------------
LEMMA LimitsAreNat == Limit \in Nat /\ PathLimit \in Nat /\ PathLimit > 0
BY ConsumersAssumption

LEMMA ConsumersStart == ConsumersInit => ConsumersInv
<1> SUFFICES ASSUME ConsumersInit PROVE ConsumersInv
  OBVIOUS
<1>1. RequestTypes
  <2>1. references \in SUBSET ((Symbols \cup {ModuleScope}) \X Symbols)
    BY DEF ConsumersInit, ReferenceSets, Range
  <2>2. seeds \in Seq(Symbols) /\ depth \in Nat \ {0}
    BY ConsumersAssumption, SymbolCountIsNat DEF ConsumersInit
  <2> QED BY <2>1, <2>2 DEF RequestTypes
<1>2. ConsumersTypes
  <2>1. distances \in [Symbols -> 0..Unseen]
    BY SymbolCountIsNat DEF ConsumersInit, Unseen
  <2> QED BY <1>1, <2>1 DEF ConsumersInit, ConsumersTypes, RequestTypes, NoCounts
<1>3. Distinct(admitted) /\ PathsKept
  BY FS_EmptySet, LimitsAreNat DEF ConsumersInit, Distinct, PathsKept
<1>4. ASSUME NEW d, IsTrue(d) PROVE Searching(d)
  <2> DEFINE S == ToSet(seeds)
  <2>1. Unseen # 0 /\ SymbolCount \in Nat
    BY SymbolCountIsNat DEF Unseen
  <2>2. S \in SUBSET Symbols /\ \A s \in S : \E i \in 1..Len(seeds) : seeds[i] = s
    BY <1>1 DEF RequestTypes, ToSet
  <2>3. \A i \in 1..Len(seeds) : seeds[i] \in S
    BY <1>1 DEF RequestTypes, ToSet
  <2> HIDE DEF S
  <2>4. distances = [s \in Symbols |-> IF s \in S THEN 0 ELSE Unseen] /\ queue = seeds
    BY DEF ConsumersInit, S
  <2>5. Seen = S
    BY <2>1, <2>2, <2>4 DEF Seen
  <2>6. \A s \in Symbols : d[s] = 0 <=> s \in S
    BY <1>4 DEF IsTrue, IsDistance, S
  <2>7. \A s \in S : distances[s] = d[s] /\ d[s] = 0
    BY <2>2, <2>4, <2>6
  <2>8. Len(seeds) \in Nat /\ \A s \in Symbols : d[s] \in Nat
    BY <1>1, <1>4, SymbolCountIsNat DEF RequestTypes, IsTrue, IsDistance, Unseen
  <2>9. \A i \in 1..Len(seeds) : seeds[i] \in S /\ d[seeds[i]] = 0
    BY <2>3, <2>7
  <2>10. Frontier(Linked(Links), d, seeds, S)
    <3>1. \A s \in S : Queued(seeds, s)
      BY <2>2 DEF Queued
    <3>2. \A i \in 1..Len(seeds) : 1 \in 1..Len(seeds)
      BY <2>8
    <3>3. Len(seeds) > 0 => \A s \in Symbols : d[s] <= d[seeds[1]] => s \in S
      <4> SUFFICES ASSUME Len(seeds) > 0, NEW s \in Symbols, d[s] <= d[seeds[1]] PROVE s \in S
        OBVIOUS
      <4>1. 1 \in 1..Len(seeds)
        BY <2>8
      <4> QED BY <2>6, <2>8, <2>9, <4>1
    <3> QED BY <2>1, <2>6, <2>7, <2>9, <3>1, <3>2, <3>3 DEF Frontier
  <2>11. Evidenced(Links, d, depth, seeds, S, evidence)
    BY <2>2 DEF Evidenced, Queued, ConsumersInit
  <2> QED BY <2>4, <2>5, <2>7, <2>10, <2>11 DEF Searching
<1> QED
  BY <1>2, <1>3, <1>4 DEF ConsumersInv, ConsumersInit

\* What depends on the request alone.
LEMMA RequestKept ==
  ASSUME UNCHANGED requestVars
  PROVE  /\ Links' = Links /\ ToSet(seeds)' = ToSet(seeds) /\ depth' = depth
         /\ RequestTypes' = RequestTypes
<1>1. references' = references /\ direction' = direction /\ seeds' = seeds /\ depth' = depth
  BY DEF requestVars
<1>2. Links' = Links
  BY <1>1 DEF Links, Between
<1> QED
  BY <1>1, <1>2 DEF RequestTypes

LEMMA VisitKeeps == ConsumersInv /\ Visit => ConsumersInv'
<1> SUFFICES ASSUME ConsumersInv, Visit PROVE ConsumersInv'
  OBVIOUS
<1> DEFINE h == Head(queue)
           new == {t \in Neighbors(h) : distances[t] = Unseen}
           o == Ordered(new, <)
<1>1. /\ ConsumersTypes /\ queue # <<>> /\ \A d : IsTrue(d) => Searching(d)
      /\ Distinct(admitted) /\ PathsKept /\ paths = {} /\ admitted = <<>> /\ returned = {}
      /\ UNCHANGED <<requestVars, hits, paths, admitted, returned, counts, stage>>
      /\ stage = "traversing"
  BY DEF ConsumersInv, Visit
<1>2. /\ queue' = Tail(queue) \o o
      /\ distances' = [t \in Symbols |-> IF t \in new THEN distances[h] + 1 ELSE distances[t]]
      /\ evidence' = [t \in Symbols |-> IF t \in Neighbors(h) THEN evidence[t] \cup EvidenceFor(h, t)
                                        ELSE evidence[t]]
  BY DEF Visit
<1>3. Links' = Links /\ ToSet(seeds)' = ToSet(seeds) /\ depth' = depth /\ RequestTypes'
  BY <1>1, RequestKept DEF ConsumersTypes
<1>4. h \in Symbols /\ queue \in Seq(Symbols) /\ distances \in [Symbols -> 0..Unseen]
  BY <1>1 DEF ConsumersTypes
<1>5. \A t \in Symbols : t \in Neighbors(h) <=> Links[h][t] # {}
  BY <1>4 DEF Neighbors, Links
<1>6. new = {t \in Symbols \ Seen : <<h, t>> \in Linked(Links)}
  BY <1>4, <1>5 DEF Seen, Linked, Neighbors
<1>7. new \in SUBSET Symbols /\ Seen \in SUBSET Symbols
  BY <1>6 DEF Seen
<1>8. Enumeration(new, o)
  BY <1>7, OrderedByKey
<1>9. PICK d : IsTrue(d)
  BY <1>1, DistancesAreLeast, EdgesAreLinked DEF ConsumersTypes, IsTrue
<1> HIDE DEF new, o, h
<1>10. queue' \in Seq(Symbols)
  <2>1. Tail(queue) \o o \in Seq(Symbols)
    BY <1>1, <1>4, <1>7, <1>8, EntriesThen
  <2> QED BY <1>2, <2>1
<1>11. SymbolCount \in Nat /\ Unseen = SymbolCount + 1
  BY SymbolCountIsNat DEF Unseen
<1>12. ASSUME NEW e, IsTrue(e)
       PROVE  h \in Seen /\ distances[h] = e[h] /\ e[h] \in Nat /\ e[h] < SymbolCount
  <2>1. Searching(e) /\ IsDistance(Linked(Links), ToSet(seeds), e)
    BY <1>1, <1>12 DEF IsTrue
  <2>2. h = queue[1] /\ 1 \in 1..Len(queue)
    BY <1>1, <1>4 DEF h
  <2>3. h \in Seen /\ e[h] # Unseen
    BY <2>1, <2>2 DEF Searching, Frontier
  <2> QED BY <1>4, <1>11, <2>1, <2>3 DEF Searching, IsDistance
<1>13. distances[h] \in Nat /\ distances[h] + 1 \in 0..Unseen /\ distances[h] + 1 # Unseen
  BY <1>9, <1>11, <1>12
<1>14. distances' \in [Symbols -> 0..Unseen]
  BY <1>2, <1>4, <1>13
<1>15. Seen' = Seen \cup new
  <2>1. Seen' = {s \in Symbols : distances'[s] # Unseen}
    BY DEF Seen
  <2>2. \A s \in Symbols : distances'[s] = IF s \in new THEN distances[h] + 1 ELSE distances[s]
    BY <1>2
  <2> QED BY <1>7, <1>13, <2>1, <2>2 DEF Seen
<1>16. ASSUME NEW e, IsTrue(e)
       PROVE  /\ \A s \in Seen \cup new : distances'[s] = e[s]
              /\ Frontier(Linked(Links), e, queue', Seen \cup new)
              /\ Evidenced(Links, e, depth, queue', Seen \cup new, evidence')
  <2>1. Searching(e) /\ IsDistance(Linked(Links), ToSet(seeds), e)
    BY <1>1, <1>16 DEF IsTrue
  <2>2. h = Head(queue)
    BY DEF h
  <2>3. \A t \in new : e[t] = distances[h] + 1
    <3> SUFFICES ASSUME NEW t \in new PROVE e[t] = distances[h] + 1
      OBVIOUS
    <3>1. t \in Symbols \ Seen /\ <<Head(queue), t>> \in Linked(Links)
      BY <1>6, <2>2
    <3>2. e[t] = e[h] + 1
      <4>1. Frontier(Linked(Links), e, queue, Seen)
        BY <2>1 DEF Searching
      <4>2. e[t] = e[Head(queue)] + 1
        BY <1>1, <1>4, <1>7, <2>1, <3>1, <4>1, NewAreNext
      <4> QED BY <2>2, <4>2
    <3> QED BY <1>12, <1>16, <3>2
  <2>4. \A s \in Seen \cup new : distances'[s] = e[s]
    BY <1>2, <1>7, <2>1, <2>3 DEF Searching
  <2>5. Frontier(Linked(Links), e, queue', Seen \cup new)
    BY <1>1, <1>2, <1>4, <1>6, <1>7, <1>8, <2>1, <2>2, FrontierStep DEF Searching
  <2>6. \A t \in Symbols :
          evidence'[t] = IF /\ e[Head(queue)] + 1 <= depth
                            /\ t \notin Seen \/ e[t] = e[Head(queue)] + 1
                         THEN evidence[t] \cup Links[Head(queue)][t] ELSE evidence[t]
    <3> SUFFICES ASSUME NEW t \in Symbols
                 PROVE  evidence'[t] = IF /\ e[h] + 1 <= depth
                                          /\ t \notin Seen \/ e[t] = e[h] + 1
                                       THEN evidence[t] \cup Links[h][t] ELSE evidence[t]
      BY <2>2
    <3>1. Links[h][t] = Between(h, t)
      BY <1>4 DEF Links
    <3>2. evidence'[t] = IF t \in Neighbors(h) THEN evidence[t] \cup EvidenceFor(h, t)
                         ELSE evidence[t]
      BY <1>2
    <3>3. distances[t] \in {Unseen, distances[h] + 1} <=> t \notin Seen \/ e[t] = e[h] + 1
      BY <1>12, <1>13, <1>16, <2>1, <2>3 DEF Searching, Seen
    <3>4. distances[h] = e[h]
      BY <1>12, <1>16
    <3>5. CASE t \in Neighbors(h)
      BY <3>1, <3>2, <3>3, <3>4, <3>5 DEF EvidenceFor
    <3>6. CASE t \notin Neighbors(h)
      BY <1>5, <3>2, <3>6
    <3> QED BY <3>5, <3>6
  <2>7. depth \in Nat
    BY <1>1 DEF ConsumersTypes, RequestTypes
  <2>8. Evidenced(Links, e, depth, queue', Seen \cup new, evidence')
    <3> DEFINE more == evidence'
    <3>1. \A t \in Symbols :
            more[t] = IF /\ e[Head(queue)] + 1 <= depth
                         /\ t \notin Seen \/ e[t] = e[Head(queue)] + 1
                      THEN evidence[t] \cup Links[Head(queue)][t] ELSE evidence[t]
      BY <2>6
    <3>2. Frontier(Linked(Links), e, queue, Seen) /\ Evidenced(Links, e, depth, queue, Seen, evidence)
      BY <2>1 DEF Searching
    <3>3. new = {t \in Symbols \ Seen : <<Head(queue), t>> \in Linked(Links)}
      BY <1>6, <2>2
    <3> HIDE DEF more
    <3>4. Evidenced(Links, e, depth, Tail(queue) \o o, Seen \cup new, more)
      BY <1>1, <1>4, <1>7, <1>8, <2>1, <2>7, <3>1, <3>2, <3>3, EvidenceStep
    <3> QED BY <1>2, <3>4 DEF more
  <2> QED BY <2>4, <2>5, <2>8
<1>17. ASSUME NEW e, IsTrue(e)' PROVE Searching(e)'
  <2>1. IsTrue(e)
    BY <1>3, <1>17 DEF IsTrue
  <2>2. depth' = depth /\ Links' = Links
    BY <1>3
  <2> QED BY <1>15, <1>16, <2>1, <2>2 DEF Searching
<1>18. ConsumersTypes'
  BY <1>1, <1>3, <1>10, <1>14 DEF ConsumersTypes
<1>19. Distinct(admitted)' /\ PathsKept'
  BY <1>1 DEF Distinct, PathsKept
<1> QED
  BY <1>1, <1>17, <1>18, <1>19 DEF ConsumersInv

LEMMA EndTraversalKeeps == ConsumersInv /\ EndTraversal => ConsumersInv'
<1> SUFFICES ASSUME ConsumersInv, EndTraversal PROVE ConsumersInv'
  OBVIOUS
<1> DEFINE found == {s \in Symbols : evidence[s] # {}}
           deep == {s \in Symbols : distances[s] \in (depth + 1)..SymbolCount}
<1>1. /\ ConsumersTypes /\ queue = <<>> /\ \A d : IsTrue(d) => Searching(d)
      /\ paths = {} /\ admitted = <<>> /\ returned = {} /\ PathsKept /\ Distinct(admitted)
      /\ UNCHANGED <<requestVars, traverseVars, paths, admitted, returned>>
      /\ stage' = "limiting"
  BY DEF ConsumersInv, EndTraversal
<1>2. hits' = Ordered(found, Sooner)
  BY DEF EndTraversal
<1>3. counts' = [NoCounts EXCEPT !.total = Cardinality(found), !.depth = Cardinality(deep)]
  BY DEF EndTraversal
<1>4. Links' = Links /\ ToSet(seeds)' = ToSet(seeds) /\ depth' = depth /\ RequestTypes'
  BY <1>1, RequestKept DEF ConsumersTypes
<1>5. found \in SUBSET Symbols /\ deep \in SUBSET Symbols /\ distances \in [Symbols -> 0..Unseen]
  BY <1>1 DEF ConsumersTypes
<1>6. SymbolCount \in Nat /\ Unseen = SymbolCount + 1
  BY SymbolCountIsNat DEF Unseen
<1>7. Cardinality(found) \in Nat /\ Cardinality(deep) \in Nat
  BY <1>5, SymbolsFinite, FS_Subset, FS_CardinalityType
<1>8. /\ Enumeration(found, hits')
      /\ \A i, j \in DOMAIN hits' : i < j => distances[hits'[i]] <= distances[hits'[j]]
  BY <1>2, <1>5, OrderedByDistance
<1> DEFINE c == Cardinality(found)
           e == Cardinality(deep)
<1> HIDE DEF c, e
<1>9. counts' = [total |-> c, depth |-> e, path |-> 0, limit |-> 0, budget |-> 0] /\ c \in Nat /\ e \in Nat
  BY <1>3, <1>7 DEF NoCounts, c, e
<1>10. ConsumersTypes'
  BY <1>1, <1>4, <1>9 DEF ConsumersTypes, traverseVars
<1>11. Distinct(admitted)' /\ PathsKept'
  BY <1>1 DEF Distinct, PathsKept
<1>12. Limited'
  <2>1. hits' \in Seq(found) /\ Len(hits') = c /\ Distinct(hits')
    BY <1>8 DEF Enumeration, Distinct, c
  <2>2. hits' \in Seq(Symbols)
    BY <2>1
  <2>3. admitted' = <<>> /\ returned' = {} /\ Len(admitted') = 0
    BY <1>1
  <2>4. \A i \in 1..Len(hits'), j \in 1..Len(admitted') : hits'[i] # admitted'[j]
    BY <2>3
  <2>5. counts'.total = Len(hits') + Len(admitted') + counts'.path + counts'.limit
    BY <1>9, <2>1, <2>3
  <2>6. Len(admitted') <= Limit
    BY <2>3, LimitsAreNat
  <2>7. Distinct(hits)'
    BY <2>1 DEF Distinct
  <2> QED BY <2>2, <2>3, <2>4, <2>5, <2>6, <2>7 DEF Limited
<1>13. ASSUME NEW d, IsTrue(d)' PROVE Found(d)'
  <2>1. IsTrue(d)
    BY <1>4, <1>13 DEF IsTrue
  <2>2. Searching(d) /\ IsDistance(Linked(Links), ToSet(seeds), d)
    BY <1>1, <2>1 DEF IsTrue
  <2>3. Len(queue) = 0 /\ Seen \in SUBSET Symbols /\ depth \in Nat
    BY <1>1 DEF Seen, ConsumersTypes, RequestTypes
  <2>4. \A s \in Symbols : distances[s] = d[s]
    <3> SUFFICES ASSUME NEW s \in Symbols PROVE distances[s] = d[s]
      OBVIOUS
    <3>1. d[s] # Unseen => s \in Seen
      BY <2>2, <2>3, FrontierDone DEF Searching
    <3>2. s \in Seen => distances[s] = d[s]
      BY <2>2 DEF Searching
    <3>3. s \notin Seen => distances[s] = Unseen
      BY DEF Seen
    <3> QED BY <3>1, <3>2, <3>3
  <2>5. \A s \in Symbols : d[s] \in Nat
    BY <1>6, <2>2 DEF IsDistance
  <2>6. ASSUME NEW s \in Symbols
        PROVE  evidence[s] = IF d[s] \in 1..depth
                             THEN UNION {Between(t, s) : t \in {u \in Symbols : d[u] = d[s] - 1}}
                             ELSE {}
    <3>1. \A r : r \in evidence[s] <=> IsDue(Links, d, depth, s, r)
      BY <2>2, <2>3, EvidenceDone DEF Searching
    <3>2. \A t \in Symbols : Links[t][s] = Between(t, s)
      BY DEF Links
    <3>3. \A t \in Symbols : d[t] + 1 = d[s] <=> d[t] = d[s] - 1
      BY <2>5
    <3> DEFINE due == UNION {Between(t, s) : t \in {u \in Symbols : d[u] = d[s] - 1}}
    <3>4. \A r : r \in due <=> \E t \in Symbols : d[t] + 1 = d[s] /\ r \in Links[t][s]
      BY <3>2, <3>3
    <3>5. \A r : IsDue(Links, d, depth, s, r) <=> d[s] \in 1..depth /\ r \in due
      BY <3>4 DEF IsDue
    <3> HIDE DEF due
    <3>6. CASE d[s] \in 1..depth
      <4>1. evidence[s] = due
        BY <3>1, <3>5, <3>6
      <4> QED BY <3>6, <4>1 DEF due
    <3>7. CASE d[s] \notin 1..depth
      <4>1. evidence[s] = {}
        BY <3>1, <3>5, <3>7
      <4> QED BY <3>7, <4>1
    <3> QED BY <3>6, <3>7
  <2>7. \A i, j \in DOMAIN hits' : i < j => d[hits'[i]] <= d[hits'[j]]
    <3>1. \A i \in DOMAIN hits' : hits'[i] \in Symbols
      BY <1>5, <1>8 DEF Enumeration
    <3> QED BY <1>8, <2>4, <3>1
  <2>8. counts'.depth = Cardinality({s \in Symbols : d[s] \in (depth + 1)..SymbolCount})
    <3>1. deep = {s \in Symbols : d[s] \in (depth + 1)..SymbolCount}
      BY <2>4
    <3> QED BY <1>9, <3>1 DEF e
  <2>9. evidence' = evidence /\ depth' = depth /\ \A s, t \in Symbols : Between(s, t)' = Between(s, t)
    BY <1>1 DEF requestVars, traverseVars, Between
  <2>10. \A s \in Symbols :
           evidence'[s] = IF d[s] \in 1..depth'
                          THEN UNION {Between(t, s)' : t \in {u \in Symbols : d[u] = d[s] - 1}}
                          ELSE {}
    BY <2>6, <2>9
  <2> QED BY <2>7, <2>8, <2>9, <2>10 DEF Found
<1> QED
  BY <1>1, <1>10, <1>11, <1>12, <1>13 DEF ConsumersInv

\* Taking the first of a sequence.
LEMMA TailIs ==
  ASSUME NEW q \in Seq(Symbols), q # <<>>
  PROVE  /\ Tail(q) \in Seq(Symbols) /\ Head(q) \in Symbols /\ Head(q) = q[1]
         /\ Len(q) \in Nat /\ Len(q) > 0 /\ Len(Tail(q)) = Len(q) - 1 /\ 1 \in 1..Len(q)
         /\ \A i \in 1..Len(Tail(q)) : i + 1 \in 1..Len(q) /\ Tail(q)[i] = q[i + 1]
OBVIOUS

LEMMA DistinctTail ==
  ASSUME NEW q \in Seq(Symbols), q # <<>>, Distinct(q)
  PROVE  Distinct(Tail(q)) /\ \A i \in 1..Len(Tail(q)) : Tail(q)[i] # Head(q)
<1>1. /\ Len(q) \in Nat /\ Head(q) = q[1] /\ Len(q) > 0 /\ 1 \in 1..Len(q)
      /\ \A i \in 1..Len(Tail(q)) : i + 1 \in 1..Len(q) /\ Tail(q)[i] = q[i + 1]
  BY TailIs
<1>2. \A i, j \in 1..Len(q) : q[i] = q[j] => i = j
  BY DEF Distinct
<1>3. ASSUME NEW i \in 1..Len(Tail(q)), NEW j \in 1..Len(Tail(q)), Tail(q)[i] = Tail(q)[j]
      PROVE  i = j
  <2>1. i + 1 = j + 1
    BY <1>1, <1>2, <1>3
  <2> QED BY <2>1
<1>4. ASSUME NEW i \in 1..Len(Tail(q)), Tail(q)[i] = Head(q) PROVE FALSE
  <2>1. i + 1 = 1
    BY <1>1, <1>2, <1>4
  <2> QED BY <1>1, <2>1
<1> QED
  BY <1>3, <1>4 DEF Distinct

LEMMA AppendIs ==
  ASSUME NEW q \in Seq(Symbols), NEW x \in Symbols
  PROVE  /\ Append(q, x) \in Seq(Symbols) /\ Len(q) \in Nat /\ Len(Append(q, x)) = Len(q) + 1
         /\ \A i \in 1..Len(q) : Append(q, x)[i] = q[i]
         /\ Append(q, x)[Len(q) + 1] = x
OBVIOUS

CountTypes == [total : Nat, depth : Nat, path : Nat, limit : Nat, budget : Nat]

\* One reason counted once more.
LEMMA OneMoreOmitted ==
  ASSUME NEW c \in CountTypes
  PROVE  /\ [c EXCEPT !.path = @ + 1] \in CountTypes
         /\ [c EXCEPT !.path = @ + 1].total = c.total
         /\ [c EXCEPT !.path = @ + 1].path = c.path + 1
         /\ [c EXCEPT !.path = @ + 1].limit = c.limit
         /\ [c EXCEPT !.limit = @ + 1] \in CountTypes
         /\ [c EXCEPT !.limit = @ + 1].total = c.total
         /\ [c EXCEPT !.limit = @ + 1].path = c.path
         /\ [c EXCEPT !.limit = @ + 1].limit = c.limit + 1
         /\ c.total \in Nat /\ c.path \in Nat /\ c.limit \in Nat /\ c.budget \in Nat
BY DEF CountTypes

\* One number of a sum gives one away, another takes it.
IsSum(t, a, b, c, e) ==
  a \in Int /\ b \in Int /\ c \in Int /\ e \in Int /\ t = a + b + c + e

LEMMA SumKept ==
  ASSUME NEW t, NEW a, NEW b, NEW c, NEW e, IsSum(t, a, b, c, e)
  PROVE  /\ IsSum(t, a - 1, b, c + 1, e) /\ IsSum(t, a - 1, b, c, e + 1)
         /\ IsSum(t, a - 1, b + 1, c, e) /\ IsSum(t, a + 1, b, c, e - 1)
BY DEF IsSum

LEMMA LimitHitKeeps == ConsumersInv /\ LimitHit => ConsumersInv'
<1> SUFFICES ASSUME ConsumersInv, LimitHit PROVE ConsumersInv'
  OBVIOUS
<1> DEFINE s == Head(hits)
<1>1. /\ ConsumersTypes /\ Limited /\ Distinct(admitted) /\ PathsKept /\ hits # <<>>
      /\ hits' = Tail(hits) /\ UNCHANGED <<requestVars, traverseVars, returned, stage>>
      /\ stage = "limiting"
  BY DEF ConsumersInv, LimitHit
<1>2. \/ /\ NewPath(s) /\ Cardinality(paths) >= PathLimit
         /\ counts' = [counts EXCEPT !.path = @ + 1]
         /\ UNCHANGED <<paths, admitted>>
      \/ /\ NewPath(s) => Cardinality(paths) < PathLimit
         /\ paths' = paths \cup {PathOf[s]}
         /\ counts' = [counts EXCEPT !.limit = @ + 1]
         /\ UNCHANGED admitted
      \/ /\ NewPath(s) => Cardinality(paths) < PathLimit
         /\ paths' = paths \cup {PathOf[s]}
         /\ Len(admitted) < Limit
         /\ admitted' = Append(admitted, s)
         /\ UNCHANGED counts
  BY DEF LimitHit
<1>3. /\ hits \in Seq(Symbols) /\ Distinct(hits) /\ admitted \in Seq(Symbols) /\ counts \in CountTypes
      /\ returned = {} /\ \A i \in 1..Len(hits), j \in 1..Len(admitted) : hits[i] # admitted[j]
      /\ counts.total = Len(hits) + Len(admitted) + counts.path + counts.limit
      /\ Len(admitted) <= Limit /\ Len(admitted) \in Nat
  BY <1>1 DEF Limited, ConsumersTypes, CountTypes
<1>4. /\ s \in Symbols /\ s = hits[1] /\ 1 \in 1..Len(hits) /\ hits' \in Seq(Symbols)
      /\ Len(hits) \in Nat /\ Len(hits') = Len(hits) - 1
      /\ \A i \in 1..Len(hits') : i + 1 \in 1..Len(hits) /\ hits'[i] = hits[i + 1]
  BY <1>1, <1>3, TailIs
<1>5. Distinct(hits') /\ \A i \in 1..Len(hits') : hits'[i] # s
  BY <1>1, <1>3, DistinctTail
<1>6. Limit \in Nat /\ PathLimit \in Nat /\ PathLimit > 0
  BY LimitsAreNat
<1>7. IsFiniteSet(paths) /\ Cardinality(paths) \in Nat /\ Cardinality(paths) <= PathLimit
      /\ \A i \in 1..Len(admitted) : PathOf[admitted[i]] \in paths
  BY <1>1, FS_CardinalityType DEF PathsKept
<1> HIDE DEF s
<1>8. \A j \in 1..Len(admitted) : admitted[j] # s
  BY <1>3, <1>4
<1>9. \A i \in 1..Len(hits'), j \in 1..Len(admitted) : hits'[i] # admitted[j]
  BY <1>3, <1>4
<1>10. RequestTypes'
  BY <1>1, RequestKept DEF ConsumersTypes
<1>11. counts' \in CountTypes /\ admitted' \in Seq(Symbols) => ConsumersTypes'
  BY <1>1, <1>3, <1>10 DEF ConsumersTypes, traverseVars, CountTypes
<1>12. returned' = {}
  BY <1>1, <1>3
<1>13. (paths' # {} \/ paths # {}) /\ paths \subseteq paths' => paths' # {}
  OBVIOUS
<1>14. SUFFICES ConsumersTypes' /\ Limited' /\ Distinct(admitted') /\ PathsKept' /\ paths' # {}
  BY <1>1 DEF ConsumersInv, Distinct
<1>15. CASE /\ NewPath(s) /\ Cardinality(paths) >= PathLimit
            /\ counts' = [counts EXCEPT !.path = @ + 1]
            /\ UNCHANGED <<paths, admitted>>
  <2>1. /\ counts' \in CountTypes /\ counts'.total = counts.total
        /\ counts'.path = counts.path + 1 /\ counts'.limit = counts.limit
        /\ counts.path \in Nat /\ counts.limit \in Nat
    BY <1>3, <1>15, OneMoreOmitted
  <2>2. counts'.total = Len(hits') + Len(admitted') + counts'.path + counts'.limit
    <3>0. IsSum(counts.total, Len(hits), Len(admitted), counts.path, counts.limit)
      BY <1>3, <1>4, <2>1 DEF IsSum
    <3>1. IsSum(counts.total, Len(hits) - 1, Len(admitted), counts.path + 1, counts.limit)
      BY <3>0, SumKept
    <3> QED BY <1>4, <1>15, <2>1, <3>1 DEF IsSum
  <2>3. Limited'
    BY <1>3, <1>4, <1>5, <1>9, <1>12, <1>15, <2>2 DEF Limited, Distinct
  <2>4. paths' # {}
    BY <1>6, <1>15, FS_EmptySet
  <2>5. PathsKept'
    BY <1>1, <1>15 DEF PathsKept
  <2> QED BY <1>1, <1>3, <1>11, <1>15, <2>1, <2>3, <2>4, <2>5
<1>16. ASSUME paths' = paths \cup {PathOf[s]}, NewPath(s) => Cardinality(paths) < PathLimit
       PROVE  IsFiniteSet(paths') /\ Cardinality(paths') <= PathLimit
  <2>1. IsFiniteSet(paths') /\ Cardinality(paths') =
          IF PathOf[s] \in paths THEN Cardinality(paths) ELSE Cardinality(paths) + 1
    BY <1>7, <1>16, FS_AddElement
  <2> QED BY <1>6, <1>7, <1>16, <2>1 DEF NewPath
<1>17. CASE /\ NewPath(s) => Cardinality(paths) < PathLimit
            /\ paths' = paths \cup {PathOf[s]}
            /\ counts' = [counts EXCEPT !.limit = @ + 1]
            /\ UNCHANGED admitted
  <2>1. /\ counts' \in CountTypes /\ counts'.total = counts.total
        /\ counts'.path = counts.path /\ counts'.limit = counts.limit + 1
        /\ counts.path \in Nat /\ counts.limit \in Nat
    BY <1>3, <1>17, OneMoreOmitted
  <2>2. counts'.total = Len(hits') + Len(admitted') + counts'.path + counts'.limit
    <3>0. IsSum(counts.total, Len(hits), Len(admitted), counts.path, counts.limit)
      BY <1>3, <1>4, <2>1 DEF IsSum
    <3>1. IsSum(counts.total, Len(hits) - 1, Len(admitted), counts.path, counts.limit + 1)
      BY <3>0, SumKept
    <3> QED BY <1>4, <1>17, <2>1, <3>1 DEF IsSum
  <2>3. Limited'
    BY <1>3, <1>4, <1>5, <1>9, <1>12, <1>17, <2>2 DEF Limited, Distinct
  <2>4. PathsKept'
    BY <1>7, <1>12, <1>16, <1>17 DEF PathsKept
  <2> QED BY <1>1, <1>3, <1>11, <1>17, <2>1, <2>3, <2>4
<1>18. CASE /\ NewPath(s) => Cardinality(paths) < PathLimit
            /\ paths' = paths \cup {PathOf[s]}
            /\ Len(admitted) < Limit
            /\ admitted' = Append(admitted, s)
            /\ UNCHANGED counts
  <2>1. /\ admitted' \in Seq(Symbols) /\ Len(admitted') = Len(admitted) + 1
        /\ \A i \in 1..Len(admitted) : admitted'[i] = admitted[i]
        /\ admitted'[Len(admitted) + 1] = s
    BY <1>3, <1>4, <1>18, AppendIs
  <2>2. \A i \in 1..Len(admitted') : i \in 1..Len(admitted) \/ i = Len(admitted) + 1
    BY <1>3, <2>1
  <2>3. Distinct(admitted')
    <3>1. \A i, j \in 1..Len(admitted) : admitted[i] = admitted[j] => i = j
      BY <1>1 DEF Distinct
    <3>2. ASSUME NEW i \in 1..Len(admitted'), NEW j \in 1..Len(admitted'), admitted'[i] = admitted'[j]
          PROVE  i = j
      BY <1>8, <2>1, <2>2, <3>1, <3>2
    <3> QED BY <3>2 DEF Distinct
  <2>4. \A i \in 1..Len(hits'), j \in 1..Len(admitted') : hits'[i] # admitted'[j]
    BY <1>5, <1>9, <2>1, <2>2
  <2>5. counts.total \in Nat /\ counts.path \in Nat /\ counts.limit \in Nat
    BY <1>3, OneMoreOmitted
  <2>6. counts'.total = Len(hits') + Len(admitted') + counts'.path + counts'.limit
    <3>0. IsSum(counts.total, Len(hits), Len(admitted), counts.path, counts.limit)
      BY <1>3, <1>4, <2>5 DEF IsSum
    <3>1. IsSum(counts.total, Len(hits) - 1, Len(admitted) + 1, counts.path, counts.limit)
      BY <3>0, SumKept
    <3> QED BY <1>4, <1>18, <2>1, <3>1 DEF IsSum
  <2>7. Len(admitted') <= Limit
    BY <1>3, <1>6, <1>18, <2>1
  <2>8. Limited'
    BY <1>4, <1>5, <1>12, <2>4, <2>6, <2>7 DEF Limited, Distinct
  <2>9. \A i \in 1..Len(admitted') : PathOf[admitted'[i]] \in paths'
    BY <1>7, <1>18, <2>1, <2>2
  <2>10. PathsKept'
    BY <1>12, <1>16, <1>18, <2>9 DEF PathsKept
  <2> QED BY <1>3, <1>11, <1>18, <2>1, <2>3, <2>8, <2>10
<1> QED
  BY <1>2, <1>15, <1>17, <1>18

LEMMA EndLimitsKeeps == ConsumersInv /\ EndLimits => ConsumersInv'
<1> SUFFICES ASSUME ConsumersInv, EndLimits PROVE ConsumersInv'
  OBVIOUS
<1>1. /\ ConsumersTypes /\ Limited /\ Distinct(admitted) /\ PathsKept /\ hits = <<>>
      /\ UNCHANGED <<requestVars, traverseVars, hits, paths, admitted, returned>>
      /\ stage' = "fitting" /\ counts' = [counts EXCEPT !.budget = Len(admitted)]
  BY DEF ConsumersInv, EndLimits
<1>2. RequestTypes'
  BY <1>1, RequestKept DEF ConsumersTypes
<1>3. /\ counts \in CountTypes /\ Len(admitted) \in Nat /\ Len(hits) = 0 /\ returned = {}
      /\ counts.total = Len(hits) + Len(admitted) + counts.path + counts.limit
      /\ Len(admitted) <= Limit
  BY <1>1 DEF ConsumersTypes, Limited, CountTypes
<1>4. /\ counts' \in CountTypes /\ counts'.total = counts.total /\ counts'.path = counts.path
      /\ counts'.limit = counts.limit /\ counts'.budget = Len(admitted)
      /\ counts.path \in Nat /\ counts.limit \in Nat
  BY <1>1, <1>3 DEF CountTypes
<1>5. ConsumersTypes'
  BY <1>1, <1>2, <1>4 DEF ConsumersTypes, traverseVars, CountTypes
<1>6. Fitted'
  <2>1. Cardinality({}) = 0
    BY FS_EmptySet
  <2>2. admitted' = admitted /\ returned' = {}
    BY <1>1, <1>3
  <2>3. counts'.total = Cardinality(returned') + counts'.path + counts'.limit + counts'.budget
    BY <1>3, <1>4, <2>1, <2>2
  <2>4. Cardinality(returned') + Len(admitted') <= Limit /\ Len(admitted') <= counts'.budget
    BY <1>3, <1>4, <2>1, <2>2
  <2>5. \A i \in 1..Len(admitted') : admitted'[i] \notin returned'
    BY <2>2
  <2> QED BY <2>3, <2>4, <2>5 DEF Fitted
<1> QED
  BY <1>1, <1>5, <1>6 DEF ConsumersInv, Distinct, PathsKept

LEMMA FitHitKeeps == ConsumersInv /\ FitHit => ConsumersInv'
<1> SUFFICES ASSUME ConsumersInv, FitHit PROVE ConsumersInv'
  OBVIOUS
<1> DEFINE s == Head(admitted)
<1>1. /\ ConsumersTypes /\ Fitted /\ Distinct(admitted) /\ PathsKept /\ admitted # <<>>
      /\ UNCHANGED <<requestVars, traverseVars, hits, paths, stage>>
      /\ stage = "fitting" /\ admitted' = Tail(admitted)
  BY DEF ConsumersInv, FitHit
<1>2. \/ returned' = returned \cup {s} /\ counts' = [counts EXCEPT !.budget = @ - 1]
      \/ UNCHANGED <<returned, counts>>
  BY DEF FitHit
<1>3. RequestTypes'
  BY <1>1, RequestKept DEF ConsumersTypes
<1>4. /\ admitted \in Seq(Symbols) /\ counts \in CountTypes /\ returned \in SUBSET Symbols
      /\ \A i \in 1..Len(admitted) : admitted[i] \notin returned
      /\ counts.total = Cardinality(returned) + counts.path + counts.limit + counts.budget
      /\ Len(admitted) <= counts.budget /\ Cardinality(returned) + Len(admitted) <= Limit
  BY <1>1 DEF ConsumersTypes, Fitted, CountTypes
<1>5. /\ s \in Symbols /\ s = admitted[1] /\ 1 \in 1..Len(admitted) /\ admitted' \in Seq(Symbols)
      /\ Len(admitted) \in Nat /\ Len(admitted) > 0 /\ Len(admitted') = Len(admitted) - 1
      /\ \A i \in 1..Len(admitted') : i + 1 \in 1..Len(admitted) /\ admitted'[i] = admitted[i + 1]
  BY <1>1, <1>4, TailIs
<1>6. Distinct(admitted') /\ \A i \in 1..Len(admitted') : admitted'[i] # s
  BY <1>1, <1>4, DistinctTail
<1>7. IsFiniteSet(returned) /\ Cardinality(returned) \in Nat /\ Limit \in Nat
  BY <1>4, SymbolsFinite, FS_Subset, FS_CardinalityType, LimitsAreNat
<1>8. counts.path \in Nat /\ counts.limit \in Nat /\ counts.budget \in Nat
  BY <1>4, OneMoreOmitted
<1>9. counts' \in CountTypes /\ returned' \in SUBSET Symbols => ConsumersTypes'
  BY <1>1, <1>3, <1>5 DEF ConsumersTypes, traverseVars, CountTypes
<1>10. SUFFICES ConsumersTypes' /\ Fitted' /\ Distinct(admitted') /\ PathsKept'
  BY <1>1 DEF ConsumersInv, Distinct
<1> HIDE DEF s
<1>11. PathsKept => /\ IsFiniteSet(paths') /\ Cardinality(paths') <= PathLimit
                    /\ \A i \in 1..Len(admitted') : PathOf[admitted'[i]] \in paths'
                    /\ PathOf[s] \in paths' /\ \A r \in returned : PathOf[r] \in paths'
  BY <1>1, <1>5 DEF PathsKept
<1>12. CASE returned' = returned \cup {s} /\ counts' = [counts EXCEPT !.budget = @ - 1]
  <2>1. s \notin returned
    BY <1>4, <1>5
  <2>2. Cardinality(returned') = Cardinality(returned) + 1
    BY <1>7, <1>12, <2>1, FS_AddElement
  <2>3. counts.budget - 1 \in Nat
    BY <1>4, <1>5, <1>8
  <2>4. /\ counts' \in CountTypes /\ counts'.total = counts.total /\ counts'.path = counts.path
        /\ counts'.limit = counts.limit /\ counts'.budget = counts.budget - 1
    BY <1>4, <1>12, <2>3 DEF CountTypes
  <2>5. counts'.total = Cardinality(returned') + counts'.path + counts'.limit + counts'.budget
    <3>0. IsSum(counts.total, Cardinality(returned), counts.path, counts.limit, counts.budget)
      BY <1>4, <1>7, <1>8 DEF IsSum
    <3>1. IsSum(counts.total, Cardinality(returned) + 1, counts.path, counts.limit, counts.budget - 1)
      BY <3>0, SumKept
    <3> QED BY <2>2, <2>4, <3>1 DEF IsSum
  <2>6. Len(admitted') <= counts'.budget /\ Cardinality(returned') + Len(admitted') <= Limit
    <3>1. Len(admitted) - 1 <= counts.budget - 1
      BY <1>4, <1>5, <1>8
    <3>2. (Cardinality(returned) + 1) + (Len(admitted) - 1) <= Limit
      BY <1>4, <1>5, <1>7
    <3> QED BY <1>5, <2>2, <2>4, <3>1, <3>2
  <2>7. \A i \in 1..Len(admitted') : admitted'[i] \notin returned'
    BY <1>4, <1>5, <1>6, <1>12
  <2>8. Fitted'
    BY <2>5, <2>6, <2>7 DEF Fitted
  <2>9. PathsKept'
    BY <1>1, <1>11, <1>12 DEF PathsKept
  <2> QED BY <1>4, <1>5, <1>6, <1>9, <1>12, <2>4, <2>8, <2>9
<1>13. CASE UNCHANGED <<returned, counts>>
  <2>1. Len(admitted') <= counts.budget /\ Cardinality(returned) + Len(admitted') <= Limit
    BY <1>4, <1>5, <1>7, <1>8
  <2>2. \A i \in 1..Len(admitted') : admitted'[i] \notin returned
    BY <1>4, <1>5
  <2>3. Fitted'
    BY <1>4, <1>13, <2>1, <2>2 DEF Fitted
  <2>4. PathsKept'
    BY <1>1, <1>11, <1>13 DEF PathsKept
  <2> QED BY <1>4, <1>6, <1>9, <1>13, <2>3, <2>4
<1> QED
  BY <1>2, <1>12, <1>13

\* What is promised of a traversal and of a report.
LEMMA InvIsFound == ConsumersInv => ConsumersFound
<1> SUFFICES ASSUME ConsumersInv PROVE ConsumersFound
  OBVIOUS
<1>1. MatchesAreNearest
  <2> SUFFICES ASSUME stage = "limiting", paths = {} PROVE MatchesAreNearest
    BY DEF MatchesAreNearest
  <2>1. IsTrue(Distances)
    BY DistancesAreLeast, EdgesAreLinked DEF ConsumersInv, ConsumersTypes, IsTrue
  <2>2. Found(Distances)
    BY <2>1 DEF ConsumersInv
  <2> QED BY <2>2 DEF MatchesAreNearest, Found
<1>2. MatchesAccounted
  <2> SUFFICES ASSUME stage = "reported" PROVE MatchesAccounted
    BY DEF MatchesAccounted
  <2>1. Fitted /\ PathsKept /\ ConsumersTypes
    BY DEF ConsumersInv
  <2>2. Cardinality(returned) \in Nat /\ Len(admitted) \in Nat /\ Limit \in Nat
    BY <2>1, SymbolsFinite, FS_Subset, FS_CardinalityType, LimitsAreNat DEF ConsumersTypes
  <2>3. Cardinality(returned) <= Limit
    BY <2>1, <2>2 DEF Fitted
  <2>4. Cardinality({PathOf[s] : s \in returned}) <= PathLimit
    <3> DEFINE some == {PathOf[s] : s \in returned}
    <3>1. some \in SUBSET paths /\ IsFiniteSet(paths) /\ Cardinality(paths) <= PathLimit
      BY <2>1 DEF PathsKept
    <3> HIDE DEF some
    <3>2. Cardinality(some) <= Cardinality(paths) /\ Cardinality(some) \in Nat /\ Cardinality(paths) \in Nat
      BY <3>1, FS_Subset, FS_CardinalityType
    <3>3. Cardinality(some) <= PathLimit
      BY <3>1, <3>2, LimitsAreNat
    <3> QED BY <3>3 DEF some
  <2> QED BY <2>1, <2>3, <2>4 DEF MatchesAccounted, Fitted
<1> QED
  BY <1>1, <1>2 DEF ConsumersFound

LEMMA ConsumersStep == ConsumersInv /\ [ConsumersNext]_consumersVars => ConsumersInv'
<1> SUFFICES ASSUME ConsumersInv, [ConsumersNext]_consumersVars PROVE ConsumersInv'
  OBVIOUS
<1>1. CASE Visit
  BY <1>1, VisitKeeps
<1>2. CASE EndTraversal
  BY <1>2, EndTraversalKeeps
<1>3. CASE LimitHit
  BY <1>3, LimitHitKeeps
<1>4. CASE EndLimits
  BY <1>4, EndLimitsKeeps
<1>5. CASE FitHit
  BY <1>5, FitHitKeeps
<1>6. CASE Report
  <2>1. /\ stage = "fitting" /\ stage' = "reported"
        /\ UNCHANGED <<requestVars, traverseVars, hits, paths, admitted, returned, counts>>
    BY <1>6 DEF Report
  <2>2. ConsumersTypes' /\ Distinct(admitted)' /\ PathsKept' /\ Fitted'
    BY <2>1, RequestKept DEF ConsumersInv, ConsumersTypes, Distinct, PathsKept, Fitted, traverseVars
  <2> QED BY <2>1, <2>2 DEF ConsumersInv
<1>7. CASE UNCHANGED consumersVars
  <2>1. /\ UNCHANGED <<requestVars, traverseVars, hits, paths, admitted, returned, counts, stage>>
        /\ UNCHANGED <<queue, distances, evidence, references, direction>>
    BY <1>7 DEF consumersVars, traverseVars, requestVars
  <2>2. Links' = Links /\ ToSet(seeds)' = ToSet(seeds) /\ depth' = depth /\ RequestTypes' = RequestTypes
    BY <2>1, RequestKept
  <2>3. ConsumersTypes' /\ Distinct(admitted)' /\ PathsKept'
    BY <2>1, <2>2 DEF ConsumersInv, ConsumersTypes, Distinct, PathsKept
  <2>4. (Limited => Limited') /\ (Fitted => Fitted')
    BY <2>1 DEF Limited, Fitted, Distinct
  <2>5. \A d : IsTrue(d)' <=> IsTrue(d)
    BY <2>2 DEF IsTrue
  <2>6. \A d : Searching(d) => Searching(d)'
    BY <2>1, <2>2 DEF Searching, Seen
  <2>7. \A d : Found(d) => Found(d)'
    <3>1. \A s, t \in Symbols : Between(s, t)' = Between(s, t)
      BY <2>1 DEF Between
    <3> QED BY <2>1, <2>2, <3>1 DEF Found
  <2> QED BY <2>1, <2>3, <2>4, <2>5, <2>6, <2>7 DEF ConsumersInv
<1> QED
  BY <1>1, <1>2, <1>3, <1>4, <1>5, <1>6, <1>7 DEF ConsumersNext

THEOREM ConsumersInductive == ConsumersSpec => []ConsumersInv
<1> QED
  BY ConsumersStart, ConsumersStep, PTL DEF ConsumersSpec

(***************************************************************************)
(* For every topology and request: query consumers finds the symbols       *)
(* within the depth at their least distance, each with all of its evidence,*)
(* and every match is returned or counted under one reason.                *)
(***************************************************************************)
THEOREM ConsumersAreFound == ConsumersSpec => []ConsumersFound
<1> QED
  BY ConsumersInductive, InvIsFound, PTL
================================================================================
