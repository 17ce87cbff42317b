------------------------------- MODULE ContextPlan -------------------------------
(***************************************************************************)
(* The reading plan of src/context.rs: a search from the seeds over the    *)
(* files that depend on them, a ranking, a selection under two limits, and *)
(* outlines of declarations under limits of their own.                     *)
(***************************************************************************)
EXTENDS Naturals, Integers, Sequences, FiniteSets, FiniteSetsExt, SequencesExt

CONSTANTS
  Repositories,    \* possible inputs of build_for_target
  ContextBudget,   \* context_budget
  ContextFiles,    \* context_max_files
  OmissionDetails, \* MAX_OMISSION_DETAILS
  OutlineBytes, FileOutlineBytes, FileOutlineSymbols, FilePrivateSymbols

ASSUME ContextAssumption ==
  {ContextBudget, ContextFiles, OmissionDetails, OutlineBytes, FileOutlineBytes,
   FileOutlineSymbols, FilePrivateSymbols} \subseteq Nat

(***************************************************************************)
(* A repository's paths are numbered in their order, those of its files    *)
(* before the deleted ones; imports are between files.                     *)
(***************************************************************************)
WellFormedFile(file) ==
  /\ {file.tokens, file.support, file.signal} \subseteq Nat
  /\ {file.hint, file.code, file.risky} \subseteq BOOLEAN
  /\ file.outline \in Seq([exported : BOOLEAN, finding : BOOLEAN, bytes : Nat])

ASSUME RepositoriesAssumption ==
  \A r \in Repositories :
    /\ r.files \in Seq(Range(r.files)) /\ \A file \in Range(r.files) : WellFormedFile(file)
    /\ r.dir \in Seq(Range(r.dir)) /\ Len(r.files) <= Len(r.dir)
    /\ r.imports \subseteq (DOMAIN r.files) \X (DOMAIN r.files)
    /\ r.focus \subseteq DOMAIN r.files /\ r.changed \cup (DOMAIN r.diagnosed) \subseteq DOMAIN r.dir
    /\ \A p \in DOMAIN r.diagnosed : r.diagnosed[p].count \in Nat

VARIABLES
  repo,       \* files with their facts, imports, focus, changed, diagnosed
  frontier,   \* dependent_reach: the queue
  hops,       \* distances, Far where there is none
  origin,     \* origins
  ranked,     \* candidates that are not looked at yet, in their order
  reading,    \* selected
  outlineOnly, listed, omitted,  \* omissions: seeds, told one by one, all
  outlining,  \* files whose outlines are not attached yet
  shown,      \* per file the declarations of its outline
  outlined,   \* OutlineStats: bytes and omitted symbols
  contextPhase

contextVars == <<repo, frontier, hops, origin, ranked, reading, outlineOnly, listed, omitted,
                 outlining, shown, outlined, contextPhase>>

Paths == DOMAIN repo.files
File(p) == repo.files[p]

\* No file is as far away from another one.
Far == Cardinality(Paths) + 1

\* In their order: i - 1 of them go before the i-th.
Ascending(ps) ==
  [i \in 1..Cardinality(ps) |-> CHOOSE p \in ps : Cardinality({q \in ps : q < p}) = i - 1]

(***************************************************************************)
(* planning_seeds: what is in focus, changed (also what is deleted), or    *)
(* diagnosed.                                                              *)
(***************************************************************************)
Diagnosed == DOMAIN repo.diagnosed
SeedFiles == repo.focus \cup repo.changed \cup Diagnosed
FocusDirectories == {repo.dir[p] : p \in repo.focus \cup repo.changed}

Dependents(p) == {q \in Paths : <<q, p>> \in repo.imports}
Dependencies == {q \in Paths : \E p \in SeedFiles : <<p, q>> \in repo.imports}

-------------------------------------------------------------------------------
(* dependent_reach *)

StartReach ==
  /\ contextPhase = "seeds"
  /\ frontier' = Ascending(SeedFiles)
  /\ hops' = [p \in DOMAIN hops |-> IF p \in SeedFiles THEN 0 ELSE Far]
  /\ origin' = [p \in DOMAIN origin |-> p]
  /\ contextPhase' = "reach"
  /\ UNCHANGED <<repo, ranked, reading, outlineOnly, listed, omitted, outlining, shown, outlined>>

Reach ==
  /\ contextPhase = "reach" /\ frontier # <<>>
  /\ LET p == Head(frontier)
         found == {q \in Dependents(p) : hops[p] + 1 < hops[q]}
     IN /\ hops' = [q \in DOMAIN hops |-> IF q \in found THEN hops[p] + 1 ELSE hops[q]]
        /\ origin' = [q \in DOMAIN origin |-> IF q \in found THEN origin[p] ELSE origin[q]]
        /\ frontier' = Tail(frontier) \o Ascending(found)
  /\ UNCHANGED <<repo, ranked, reading, outlineOnly, listed, omitted, outlining, shown, outlined,
                 contextPhase>>

-------------------------------------------------------------------------------
(* build_candidate and its scores, in hundredths as they are rounded. *)

Focused(p) == p \in repo.focus
Changed(p) == p \in repo.changed
IsDependent(p) == p \notin SeedFiles /\ hops[p] \in 1..Far - 1
SharesDirectory(p) == ~Focused(p) /\ ~Changed(p) /\ repo.dir[p] \in FocusDirectories
MatchingTest(p) == File(p).tests \cap (repo.focus \cup repo.changed) # {}

Skipped(p) ==
  LET named == Focused(p) \/ Changed(p) \/ p \in Diagnosed
  IN \/ File(p).hint /\ ~named
     \/ /\ ~named /\ ~File(p).code /\ File(p).support = 0
        /\ p \notin Dependencies /\ ~IsDependent(p) /\ ~MatchingTest(p)

Candidates == {p \in Paths : ~Skipped(p)}

Weight(holds, w) == IF holds THEN 100 * w ELSE 0
Score(p) ==
    Weight(File(p).code, 10) + Weight(Focused(p), 1200) + Weight(Changed(p), 1100)
  + Weight(p \in Dependencies, 600)
  + (IF ~IsDependent(p) THEN 0
     ELSE IF hops[p] = 1 THEN 55000 ELSE (85000 + hops[p]) \div (2 * hops[p]))
  + Weight(MatchingTest(p), 500)
  + Weight(SharesDirectory(p), IF repo.diff /\ ~File(p).risky THEN 75 ELSE 250)
  + Weight(TRUE, File(p).support + File(p).signal)
  + (IF p \in Diagnosed THEN 1000 * Min({repo.diagnosed[p].count, 3}) ELSE 0)

\* diagnostic_priority
Priority(p) ==
  IF ~repo.task THEN 0
  ELSE IF Focused(p) THEN 5
  ELSE IF p \in Diagnosed /\ repo.diagnosed[p].severity = "error" THEN 4
  ELSE IF Changed(p) THEN 3
  ELSE IF p \in Diagnosed THEN IF repo.diagnosed[p].severity = "warning" THEN 2 ELSE 1
  ELSE 0

Before(p, q) ==
  \/ Priority(p) > Priority(q)
  \/ Priority(p) = Priority(q) /\ Score(p) > Score(q)
  \/ /\ Priority(p) = Priority(q) /\ Score(p) = Score(q)
     /\ File(p).tokens < File(q).tokens \/ (File(p).tokens = File(q).tokens /\ p < q)

Ranking(ps) ==
  [i \in 1..Cardinality(ps) |-> CHOOSE p \in ps : Cardinality({q \in ps : Before(q, p)}) = i - 1]

Rank ==
  /\ contextPhase = "reach" /\ frontier = <<>>
  /\ ranked' = Ranking(Candidates)
  /\ contextPhase' = "select"
  /\ UNCHANGED <<repo, frontier, hops, origin, reading, outlineOnly, listed, omitted, outlining,
                 shown, outlined>>

-------------------------------------------------------------------------------
(* select_candidates *)

Tokens(ps) == SumFunction([p \in ps |-> File(p).tokens])

\* omission_reason
Omitted(p) ==
  \/ Len(reading) >= ContextFiles
  \/ Tokens(Range(reading)) + File(p).tokens > ContextBudget

SelectNext ==
  /\ contextPhase = "select" /\ ranked # <<>>
  /\ ranked' = Tail(ranked)
  /\ LET p == Head(ranked)
     IN IF Omitted(p)
        THEN /\ omitted' = Append(omitted, p)
             /\ outlineOnly' = IF p \in SeedFiles THEN Append(outlineOnly, p) ELSE outlineOnly
             /\ listed' = IF Len(listed) < OmissionDetails THEN Append(listed, p) ELSE listed
             /\ UNCHANGED reading
        ELSE /\ reading' = Append(reading, p)
             /\ UNCHANGED <<omitted, outlineOnly, listed>>
  /\ UNCHANGED <<repo, frontier, hops, origin, outlining, shown, outlined, contextPhase>>

-------------------------------------------------------------------------------
(* attach_selection_outlines: what is read first, then the seeds that are not. *)

StartOutlines ==
  /\ contextPhase = "select" /\ ranked = <<>>
  /\ outlining' = reading \o outlineOnly
  /\ contextPhase' = "outline"
  /\ UNCHANGED <<repo, frontier, hops, origin, ranked, reading, outlineOnly, listed, omitted,
                 shown, outlined>>

\* The order of a file's declarations: findings, then exports, then lines.
Sooner(p, i, j) ==
  LET a == File(p).outline[i]
      b == File(p).outline[j]
  IN \/ a.finding /\ ~b.finding
     \/ a.finding = b.finding /\ a.exported /\ ~b.exported
     \/ a.finding = b.finding /\ a.exported = b.exported /\ i < j

OutlineOrder(p) ==
  LET ds == DOMAIN File(p).outline
  IN [k \in 1..Cardinality(ds) |-> CHOOSE i \in ds : Cardinality({j \in ds : Sooner(p, j, i)}) = k - 1]

\* attach_outlines: one declaration.
Attach(p, run, i) ==
  LET s == File(p).outline[i]
      private == IF s.exported THEN run.private ELSE run.private + 1
      full == \/ Cardinality(run.taken) >= FileOutlineSymbols
              \/ run.bytes + s.bytes > FileOutlineBytes
              \/ run.all + s.bytes > OutlineBytes
  IN IF private > FilePrivateSymbols THEN [run EXCEPT !.left = @ + 1]
     ELSE IF full THEN [run EXCEPT !.left = @ + 1, !.private = private]
     ELSE [run EXCEPT !.private = private, !.taken = @ \cup {i}, !.bytes = @ + s.bytes,
                      !.all = @ + s.bytes]

OutlineNext ==
  /\ contextPhase = "outline" /\ outlining # <<>>
  /\ outlining' = Tail(outlining)
  /\ LET p == Head(outlining)
         n == Len(File(p).outline)
         run[k \in 0..n] ==
           IF k = 0 THEN [private |-> 0, taken |-> {}, bytes |-> 0, left |-> 0, all |-> outlined.bytes]
           ELSE Attach(p, run[k - 1], OutlineOrder(p)[k])
     IN /\ shown' = [shown EXCEPT ![p] = run[n].taken]
        /\ outlined' = [bytes |-> run[n].all, left |-> outlined.left + run[n].left]
  /\ UNCHANGED <<repo, frontier, hops, origin, ranked, reading, outlineOnly, listed, omitted,
                 contextPhase>>

\* An outline without declarations is told for a diagnosed file only.
FinishPlan ==
  /\ contextPhase = "outline" /\ outlining = <<>>
  /\ LET kept[n \in 0..Len(outlineOnly)] ==
           IF n = 0 THEN <<>>
           ELSE LET p == outlineOnly[n]
                IN IF shown[p] # {} \/ p \in Diagnosed THEN Append(kept[n - 1], p) ELSE kept[n - 1]
     IN outlineOnly' = kept[Len(outlineOnly)]
  /\ contextPhase' = "done"
  /\ UNCHANGED <<repo, frontier, hops, origin, ranked, reading, listed, omitted, outlining, shown,
                 outlined>>

ContextStart ==
  /\ frontier = <<>> /\ hops = [p \in DOMAIN repo.dir |-> Far]
  /\ origin = [p \in DOMAIN repo.dir |-> p]
  /\ ranked = <<>> /\ reading = <<>> /\ outlineOnly = <<>> /\ listed = <<>> /\ omitted = <<>>
  /\ outlining = <<>> /\ shown = [p \in DOMAIN repo.dir |-> {}]
  /\ outlined = [bytes |-> 0, left |-> 0]
  /\ contextPhase = "seeds"

ContextInit == repo \in Repositories /\ ContextStart

ContextNext ==
  \/ StartReach \/ Reach \/ Rank \/ SelectNext \/ StartOutlines \/ OutlineNext \/ FinishPlan

ContextSpec == ContextInit /\ [][ContextNext]_contextVars

-------------------------------------------------------------------------------

\* The files from which p is n imports away, at most.
UpTo[n \in 0..Cardinality(Paths)] ==
  [p \in DOMAIN repo.dir |->
     IF n = 0 THEN {p} ELSE UpTo[n - 1][p] \cup UNION {Dependents(q) : q \in UpTo[n - 1][p]}]

\* The distance of q from the nearest of ps, Far where it cannot be reached.
Hops(ps, q) ==
  LET near == {n \in 0..Cardinality(Paths) : \E p \in ps : q \in UpTo[n][p]}
  IN IF near = {} THEN Far ELSE Min(near)

(***************************************************************************)
(* The distance that dependent_reach reports is that of the nearest seed,  *)
(* and the seed it names is one at this distance.                          *)
(***************************************************************************)
NearestSeed ==
  contextPhase \notin {"seeds", "reach"} =>
    \A q \in Paths :
      /\ hops[q] = Hops(SeedFiles, q)
      /\ hops[q] # Far => origin[q] \in SeedFiles /\ Hops({origin[q]}, q) = hops[q]

(***************************************************************************)
(* The reading list keeps both limits, and a file is left out only where   *)
(* the files that rank before it leave no room for it: one too large never *)
(* takes the place of those behind it.                                     *)
(***************************************************************************)
LeftOutForRoom ==
  /\ Len(reading) <= ContextFiles /\ Tokens(Range(reading)) <= ContextBudget
  /\ \A p \in Range(omitted) :
       LET ahead == {q \in Range(reading) : Before(q, p)}
       IN Cardinality(ahead) >= ContextFiles \/ Tokens(ahead) + File(p).tokens > ContextBudget

(***************************************************************************)
(* Every file is read, omitted or skipped; a seed is never skipped, and    *)
(* one that is left out keeps an entry if it is diagnosed or has a         *)
(* declaration to show.                                                    *)
(***************************************************************************)
CandidatesAccounted ==
  contextPhase = "done" =>
    /\ IsInjective(reading \o omitted)
    /\ Range(reading \o omitted) = Candidates /\ SeedFiles \cap Paths \subseteq Candidates
    /\ Len(listed) = Min({Len(omitted), OmissionDetails})
    /\ \A p \in Range(omitted) \cap SeedFiles :
         p \in Diagnosed \/ shown[p] # {} => p \in Range(outlineOnly)
    /\ Range(outlineOnly) \subseteq Range(omitted) \cap SeedFiles

(***************************************************************************)
(* Declarations are shown within the limits of each file and of the plan,  *)
(* and every other one of a file that is read or a seed is counted.        *)
(***************************************************************************)
OutlinesAccounted ==
  LET Bytes(p) == SumFunction([i \in shown[p] |-> File(p).outline[i].bytes])
      outlinedFiles == Range(reading) \cup (Range(omitted) \cap SeedFiles)
  IN contextPhase = "done" =>
       /\ outlined.bytes = SumFunction([p \in outlinedFiles |-> Bytes(p)])
       /\ outlined.bytes <= OutlineBytes
       /\ outlined.left =
            SumFunction([p \in outlinedFiles |-> Len(File(p).outline) - Cardinality(shown[p])])
       /\ \A p \in Paths :
            /\ p \notin outlinedFiles => shown[p] = {}
            /\ Bytes(p) <= FileOutlineBytes /\ Cardinality(shown[p]) <= FileOutlineSymbols
            /\ Cardinality({i \in shown[p] : ~File(p).outline[i].exported}) <= FilePrivateSymbols

(***************************************************************************)
(* The plan of context.rs, from the search for dependents to the outlines. *)
(***************************************************************************)
ContextSound ==
  /\ NearestSeed
  /\ LeftOutForRoom
  /\ CandidatesAccounted
  /\ OutlinesAccounted
=================================================================================
