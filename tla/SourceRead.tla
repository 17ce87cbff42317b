------------------------------ MODULE SourceRead ------------------------------
(***************************************************************************)
(* `reposcout query read`: how read_source (src/query/source.rs) and admit *)
(* (src/query/source/budget.rs) put the resolved targets into one report   *)
(* of bounded size, merging sources that overlap.  Whether a report fits   *)
(* is left open: it depends on its rendering and the token counter.        *)
(***************************************************************************)
EXTENDS Naturals, Sequences, FiniteSets, FiniteSetsExt

CONSTANTS
  Targets,    \* possible outcomes of selection::resolve, see Resolved
  Requested   \* the number of targets that are asked for

NoFile == 0
NoSource == 0
NoSpan == <<0, 0>>

\* A selection with its source, one without (ambiguous, missing, ...), or no
\* file at all.
Resolved ==
  [file : Nat \ {NoFile}, status : {"complete"}, span : Nat \X Nat, candidates : {0}]
    \cup [file : Nat, status : {"ambiguous", "failed"}, span : {NoSpan}, candidates : Nat]

ASSUME ReadAssumption ==
  /\ Requested \in Nat
  /\ Targets \subseteq Resolved
  /\ \A t \in Targets : t.span[1] <= t.span[2]

VARIABLES
  nextTarget,   \* the target that comes next
  results,      \* SourceQueryReport.results
  sources,      \* SourceQueryReport.sources
  fileIds,      \* the identities in SourceQueryReport.files
  root_omitted,
  omitted_targets,
  readEnded     \* none, answered or refused

readVars == <<nextTarget, results, sources, fileIds, root_omitted,
              omitted_targets, readEnded>>

\* The envelope, without its root if need be.
ReadInit ==
  /\ nextTarget = 1
  /\ results = <<>> /\ sources = {} /\ fileIds = {}
  /\ root_omitted \in BOOLEAN
  /\ omitted_targets = Requested
  /\ readEnded \in {"none", "refused"}

Overlap(s, span) ==
  \/ s.span = span
  \/ s.span[1] < span[2] /\ s.span[2] > span[1]

Overlaps(file, span) == {s \in sources : s.file = file /\ Overlap(s, span)}

\* merge_source: the identity, and the span that everything overlapping spans.
MergedId(file, span) ==
  LET ids == {s.id : s \in Overlaps(file, span)}
      all == {s.id : s \in sources}
  IN IF ids # {} THEN Min(ids) ELSE Max(all \cup {0}) + 1

MergedSpan(file, span) ==
  LET spans == {s.span : s \in Overlaps(file, span)} \cup {span}
  IN <<Min({s[1] : s \in spans}), Max({s[2] : s \in spans})>>

\* mutant: earlier results keep the identities that were merged away
Redirected_Not(file, span) == results

Redirected(file, span) ==
  LET ids == {s.id : s \in Overlaps(file, span)}
  IN [i \in DOMAIN results |->
        IF results[i].source \in ids
        THEN [results[i] EXCEPT !.source = MergedId(file, span)] ELSE results[i]]

Result(t, file, status, span, source, candidates) ==
  [target |-> nextTarget, file |-> file, status |-> status, span |-> span,
   source |-> source, candidates |-> candidates, total |-> t.candidates]

Listed(file) == IF file = NoFile THEN fileIds ELSE fileIds \cup {file}

\* fit_candidate_with: only what fits, with the root or without, is kept.
Adopt(rs, ss, fs) ==
  /\ results' = rs
  /\ sources' = ss
  /\ fileIds' = fs
  /\ root_omitted' \in {root_omitted, TRUE}
  /\ omitted_targets' = Requested - Len(rs)
  /\ nextTarget' = nextTarget + 1
  /\ UNCHANGED readEnded

AdmitSource(t) ==
  /\ t.status = "complete"
  /\ LET id == MergedId(t.file, t.span)
         merged == [id |-> id, file |-> t.file, span |-> MergedSpan(t.file, t.span)]
     IN Adopt(Append(Redirected(t.file, t.span),
                     Result(t, t.file, "complete", t.span, id, 0)),
              (sources \ Overlaps(t.file, t.span)) \cup {merged},
              Listed(t.file))

\* The source does not fit, or there is none; candidates go as far as needed.
AdmitWithoutSource(t) ==
  LET status == IF t.status = "complete" THEN "budget omitted" ELSE t.status
  IN \E n \in 0..t.candidates :
       Adopt(Append(results, Result(t, t.file, status, NoSpan, NoSource, n)),
             sources, Listed(t.file))

AdmitBare(t) ==
  Adopt(Append(results, Result(t, NoFile, "budget omitted", NoSpan, NoSource, 0)),
        sources, fileIds)

Drop ==
  /\ nextTarget' = nextTarget + 1
  /\ UNCHANGED <<results, sources, fileIds, root_omitted, omitted_targets, readEnded>>

Admit(t) ==
  /\ readEnded = "none" /\ nextTarget <= Requested
  /\ AdmitSource(t) \/ AdmitWithoutSource(t) \/ AdmitBare(t) \/ Drop

Answer ==
  /\ readEnded = "none" /\ nextTarget > Requested
  /\ readEnded' = "answered"
  /\ UNCHANGED <<nextTarget, results, sources, fileIds, root_omitted, omitted_targets>>

ReadNext == Answer \/ \E t \in Targets : Admit(t)

ReadSpec == ReadInit /\ [][ReadNext]_readVars

Around(outer, inner) == outer[1] <= inner[1] /\ inner[2] <= outer[2]

(***************************************************************************)
(* A byte of a file is shown once: after any sequence of merges no two     *)
(* sources of a file overlap, and none has another's identity.             *)
(***************************************************************************)
SourcesDisjoint ==
  \A s, r \in sources : s # r =>
    /\ s.id # r.id
    /\ s.file = r.file => ~Overlap(s, r.span)

(***************************************************************************)
(* A result that names a source finds it, in its own file and around its   *)
(* own span, however often it was merged since; a source shows exactly     *)
(* what the results that name it asked for.                                *)
(***************************************************************************)
ResultsFindTheirSource ==
  /\ \A i \in DOMAIN results :
       /\ results[i].source # NoSource <=> results[i].status = "complete"
       /\ results[i].source # NoSource =>
            \E s \in sources :
              /\ s.id = results[i].source /\ s.file = results[i].file
              /\ Around(s.span, results[i].span)
  /\ \A s \in sources :
       LET named == {results[i].span :
                       i \in {j \in DOMAIN results : results[j].source = s.id}}
       IN named # {} /\ s.span = <<Min({n[1] : n \in named}), Max({n[2] : n \in named})>>

(***************************************************************************)
(* Every target that was come to has a result or is counted as omitted,    *)
(* and the results name targets in the order of the request.               *)
(***************************************************************************)
TargetsAccounted ==
  /\ \A i \in DOMAIN results :
       /\ results[i].target < nextTarget
       /\ results[i].file \in fileIds \cup {NoFile}
       /\ i > 1 => results[i - 1].target < results[i].target
  /\ Len(results) + omitted_targets = Requested

(***************************************************************************)
(* What the packing promises its reader: sources that do not repeat each   *)
(* other, results that point into them, and no target lost.                *)
(***************************************************************************)
SourcesPacked ==
  /\ SourcesDisjoint
  /\ ResultsFindTheirSource
  /\ TargetsAccounted
===============================================================================
