-------------------------------- MODULE ScanRun --------------------------------
(***************************************************************************)
(* One scan under its resource limits (src/walk.rs, src/scan.rs and        *)
(* src/scan/file_analysis.rs): the walk of the target, the walk of the     *)
(* whole root that impact analysis needs, the parallel analysis of the     *)
(* files and the stages after it, while files change and the deadline may  *)
(* pass at any point.  What a limit leaves out has to be told.             *)
(***************************************************************************)
EXTENDS Integers, FiniteSets, FiniteSetsExt

CONSTANTS
  Files, Target,    \* the files below the root, and those of them in the target
  Supported,        \* files of a language that the scan knows
  Sizes,            \* possible sizes
  MaxFiles, MaxFileBytes, MaxTotalBytes, Jobs,  \* as in Config
  MaxEdits          \* bound: changes of files during the scan

ASSUME ScanAssumption ==
  /\ IsFiniteSet(Files) /\ Target \subseteq Files /\ Supported \subseteq Files
  /\ Sizes \subseteq Nat /\ Jobs \in Nat \ {0} /\ MaxEdits \in Nat
  /\ {MaxFiles, MaxFileBytes, MaxTotalBytes} \subseteq Nat \ {0}

Gone == -1

VARIABLES
  disk,       \* the size of every file, or Gone
  changed,    \* history: files that changed since the scan began
  edits,      \* counter for the bound
  late,       \* the deadline has passed
  impact,     \* cfg.impact
  scope,      \* the files of the diff scope; all of them without one
  phase,      \* where the scan is
  left,       \* entries that the current walk has not come to
  accepted,   \* DiscoveryStats.accepted_bytes
  files,      \* the files that the current walk has collected
  primary,    \* Discovered.files of the target
  stats,      \* the counters of the current walk
  outcome,    \* per file: what became of its analysis
  bytes,      \* history: the bytes of what was analyzed
  diag,       \* ScanDiagnostics
  impactFiles,\* PreparedScan.all_report_paths
  rootStats   \* history: what the walk of the root counted

impactVars == <<impactFiles, rootStats>>
scanVars == <<disk, changed, edits, late, impact, scope, phase, left, accepted,
              files, primary, stats, outcome, bytes, diag, impactVars>>

NoStats ==
  [observed |-> 0, errors |-> 0, oversized |-> 0, omitted |-> 0,
   incomplete |-> FALSE, truncated |-> FALSE, duration |-> FALSE]

NoDiag ==
  [observed |-> 0, errors |-> 0, oversized |-> 0, omitted |-> 0,
   incomplete |-> FALSE, truncated |-> FALSE, duration |-> FALSE,
   analyzed |-> 0, unsupported |-> 0, unreadable |-> 0, churnPartial |-> FALSE]

ScanInit ==
  /\ disk \in [Files -> Sizes \cup {Gone}]
  /\ changed = {} /\ edits = 0 /\ late = FALSE
  /\ impact \in BOOLEAN
  /\ scope \in {Files} \cup {{f} : f \in Target}
  /\ phase = "walking target"
  /\ left = Target /\ accepted = 0 /\ files = {} /\ stats = NoStats
  /\ primary = {}
  /\ outcome = [f \in Files |-> "none"] /\ bytes = [f \in Files |-> 0]
  /\ diag = NoDiag /\ impactFiles = {} /\ rootStats = NoStats

ConfigVars == <<impact, scope>>

Edit ==
  /\ phase # "done" /\ edits < MaxEdits
  /\ edits' = edits + 1
  /\ \E f \in Files, size \in Sizes \cup {Gone} :
       /\ size # disk[f]
       /\ disk' = [disk EXCEPT ![f] = size]
       /\ changed' = changed \cup {f}
  /\ UNCHANGED <<late, ConfigVars, phase, left, accepted, files, primary, stats,
                 outcome, bytes, diag, impactVars>>

DeadlinePasses ==
  /\ phase # "done" /\ ~late
  /\ late' = TRUE
  /\ UNCHANGED <<disk, changed, edits, ConfigVars, phase, left, accepted, files,
                 primary, stats, outcome, bytes, diag, impactVars>>

-----------------------------------------------------------------------------
\* collect_files
Walking == phase \in {"walking target", "walking root"}

WalkVars == <<left, accepted, files, stats>>
AnalysisVars == <<outcome, bytes, diag>>

\* Entries come in any order; process_file goes on to the next one.
Visited(f, s) ==
  /\ left' = left \ {f}
  /\ stats' = s
  /\ UNCHANGED <<disk, changed, edits, late, ConfigVars, phase, primary,
                 AnalysisVars, impactVars>>

Observed == [stats EXCEPT !.observed = @ + 1]

\* No entry for it, or an entry that cannot be read.
VisitNothing(f) ==
  /\ Walking /\ ~late /\ f \in left
  /\ \/ disk[f] = Gone /\ Visited(f, stats)
     \/ Visited(f, [stats EXCEPT !.errors = @ + 1])
  /\ UNCHANGED <<accepted, files>>

\* More files than max_files end the walk.
VisitBeyond(f) ==
  /\ Walking /\ ~late /\ f \in left /\ disk[f] # Gone
  /\ stats.observed >= MaxFiles
  /\ left' = {}
  /\ stats' = [Observed EXCEPT !.omitted = @ + 1, !.incomplete = TRUE,
                               !.truncated = TRUE]
  /\ UNCHANGED <<disk, changed, edits, late, ConfigVars, phase, primary,
                 AnalysisVars, impactVars, accepted, files>>

VisitUnknown(f) ==
  /\ Walking /\ ~late /\ f \in left \ Supported /\ disk[f] # Gone
  /\ stats.observed < MaxFiles
  /\ Visited(f, Observed)
  /\ files' = files \cup {f}
  /\ UNCHANGED accepted

\* mutant: what goes beyond the total is dropped without a word
VisitKnownQuietly(f) ==
  /\ Walking /\ ~late /\ f \in left \cap Supported /\ disk[f] # Gone
  /\ stats.observed < MaxFiles
  /\ \/ /\ disk[f] > MaxFileBytes
        /\ Visited(f, [Observed EXCEPT !.oversized = @ + 1, !.truncated = TRUE])
        /\ UNCHANGED <<accepted, files>>
     \/ /\ disk[f] <= MaxFileBytes /\ accepted + disk[f] > MaxTotalBytes
        /\ Visited(f, Observed)
        /\ UNCHANGED <<accepted, files>>
     \/ /\ disk[f] <= MaxFileBytes /\ accepted + disk[f] <= MaxTotalBytes
        /\ Visited(f, Observed)
        /\ accepted' = accepted + disk[f] /\ files' = files \cup {f}

\* accept_recognized_file: its metadata may be unavailable by now.
VisitKnown(f) ==
  /\ Walking /\ ~late /\ f \in left \cap Supported /\ disk[f] # Gone
  /\ stats.observed < MaxFiles
  /\ \/ /\ Visited(f, [Observed EXCEPT !.errors = @ + 1])
        /\ UNCHANGED <<accepted, files>>
     \/ /\ disk[f] > MaxFileBytes
        /\ Visited(f, [Observed EXCEPT !.oversized = @ + 1, !.truncated = TRUE])
        /\ UNCHANGED <<accepted, files>>
     \/ /\ disk[f] <= MaxFileBytes /\ accepted + disk[f] > MaxTotalBytes
        /\ Visited(f, [Observed EXCEPT !.omitted = @ + 1, !.truncated = TRUE])
        /\ UNCHANGED <<accepted, files>>
     \/ /\ disk[f] <= MaxFileBytes /\ accepted + disk[f] <= MaxTotalBytes
        /\ Visited(f, Observed)
        /\ accepted' = accepted + disk[f] /\ files' = files \cup {f}

\* What discover returns after the last entry or the deadline.
WalkStats ==
  IF late THEN [stats EXCEPT !.duration = TRUE, !.truncated = TRUE, !.incomplete = TRUE]
  ELSE stats

\* prepare_scan after the walk of the target: the files outside of the diff
\* scope are dropped, the counters stay.
EndTargetWalk ==
  /\ phase = "walking target" /\ (late \/ left = {})
  /\ primary' = files \cap scope
  /\ diag' = [k \in DOMAIN diag |-> IF k \in DOMAIN stats THEN WalkStats[k] ELSE diag[k]]
  /\ phase' = IF impact THEN "walking root" ELSE "analyzing"
  /\ left' = IF impact THEN Files ELSE {}
  /\ accepted' = 0 /\ files' = {} /\ stats' = NoStats
  /\ outcome' = [f \in Files |-> IF f \in primary' THEN "queued" ELSE "none"]
  /\ UNCHANGED <<disk, changed, edits, late, ConfigVars, bytes, impactVars>>

\* Of the walk of the root only the paths are kept, not what it counted.
EndRootWalk ==
  /\ phase = "walking root" /\ (late \/ left = {})
  /\ impactFiles' = files /\ rootStats' = WalkStats
  /\ phase' = "analyzing"
  /\ left' = {} /\ accepted' = 0 /\ files' = {} /\ stats' = NoStats
  /\ UNCHANGED <<disk, changed, edits, late, ConfigVars, primary, AnalysisVars>>

-----------------------------------------------------------------------------
\* analyze_files: every worker looks at the deadline before it begins a file.
Settle(f, o) ==
  /\ outcome' = [outcome EXCEPT ![f] = o]
  /\ UNCHANGED <<disk, changed, edits, late, ConfigVars, phase, WalkVars, primary,
                 diag, impactVars>>

BeginFile(f) ==
  /\ phase = "analyzing" /\ outcome[f] = "queued"
  /\ \/ late /\ Settle(f, "duration limit")
     \/ /\ ~late
        /\ Cardinality({g \in Files : outcome[g] = "begun"}) < Jobs
        /\ Settle(f, IF f \in Supported THEN "begun" ELSE "unsupported")
  /\ UNCHANGED bytes

\* analyze_file: the size is looked at again; what is not UTF-8 is unreadable.
ReadFile(f) ==
  /\ phase = "analyzing" /\ outcome[f] = "begun"
  /\ \/ Settle(f, "unreadable") /\ UNCHANGED bytes
     \/ disk[f] > MaxFileBytes /\ Settle(f, "oversized") /\ UNCHANGED bytes
     \/ /\ disk[f] \in 0..MaxFileBytes
        /\ Settle(f, "analyzed")
        /\ bytes' = [bytes EXCEPT ![f] = disk[f]]

Count(o) == Cardinality({f \in Files : outcome[f] = o})

\* mutant: the files that the deadline left out are not counted
CollectUncounted ==
  /\ phase = "analyzing"
  /\ \A f \in Files : outcome[f] \notin {"queued", "begun"}
  /\ diag' = [diag EXCEPT
       !.analyzed = Count("analyzed"), !.unsupported = Count("unsupported"),
       !.unreadable = Count("unreadable"), !.oversized = @ + Count("oversized"),
       !.duration = @ \/ Count("duration limit") > 0,
       !.truncated = @ \/ Count("oversized") + Count("duration limit") > 0]
  /\ phase' = "history"
  /\ UNCHANGED <<disk, changed, edits, late, ConfigVars, WalkVars, primary, outcome,
                 bytes, impactVars>>

\* The outcomes are added up when all files are through.
CollectOutcomes ==
  /\ phase = "analyzing"
  /\ \A f \in Files : outcome[f] \notin {"queued", "begun"}
  /\ diag' = [diag EXCEPT
       !.analyzed = Count("analyzed"), !.unsupported = Count("unsupported"),
       !.unreadable = Count("unreadable"), !.oversized = @ + Count("oversized"),
       !.omitted = @ + Count("duration limit"),
       !.duration = @ \/ Count("duration limit") > 0,
       !.truncated = @ \/ Count("oversized") + Count("duration limit") > 0]
  /\ phase' = "history"
  /\ UNCHANGED <<disk, changed, edits, late, ConfigVars, WalkVars, primary, outcome,
                 bytes, impactVars>>

\* mark_duration_limit with no file
DurationLimit == [diag EXCEPT !.duration = TRUE, !.truncated = TRUE]

EndStage(next, d) ==
  /\ phase' = next
  /\ diag' = d
  /\ UNCHANGED <<disk, changed, edits, late, ConfigVars, WalkVars, primary, outcome,
                 bytes, impactVars>>

\* attach_churn, or the deadline; git history may be partial.
AttachChurn ==
  /\ phase = "history"
  /\ \/ late /\ EndStage("duplicates", DurationLimit)
     \/ ~late /\ EndStage("duplicates", diag)
     \/ ~late /\ EndStage("duplicates",
                       [diag EXCEPT !.churnPartial = TRUE, !.truncated = TRUE])

\* Duplicates are looked for or, after the deadline, not; then the deadline is
\* looked at again.
FindDuplicates ==
  /\ phase = "duplicates"
  /\ EndStage("assembling", IF late THEN DurationLimit ELSE diag)

\* assemble_report and the last look at the deadline; impact goes over
\* impactFiles.
Assemble ==
  /\ phase = "assembling"
  /\ EndStage("done", IF late THEN DurationLimit ELSE diag)

ScanNext ==
  \/ Edit \/ DeadlinePasses
  \/ \E f \in Files :
       \/ VisitNothing(f) \/ VisitBeyond(f) \/ VisitUnknown(f) \/ VisitKnown(f)
       \/ BeginFile(f) \/ ReadFile(f)
  \/ EndTargetWalk \/ EndRootWalk \/ CollectOutcomes
  \/ AttachChurn \/ FindDuplicates \/ Assemble

ScanSpec == ScanInit /\ [][ScanNext]_scanVars

-----------------------------------------------------------------------------
(***************************************************************************)
(* The types of all variables.                                             *)
(***************************************************************************)
ScanTypeOK ==
  /\ disk \in [Files -> Sizes \cup {Gone}]
  /\ changed \subseteq Files /\ edits \in 0..MaxEdits /\ late \in BOOLEAN
  /\ impact \in BOOLEAN /\ scope \subseteq Files
  /\ phase \in {"walking target", "walking root", "analyzing", "history",
                "duplicates", "assembling", "done"}
  /\ left \subseteq Files /\ files \subseteq Files /\ primary \subseteq Target
  /\ accepted \in 0..MaxTotalBytes
  /\ DOMAIN stats = DOMAIN NoStats /\ stats.observed \in 0..(MaxFiles + 1)
  /\ outcome \in [Files -> {"none", "queued", "begun", "analyzed", "unsupported",
                            "unreadable", "oversized", "duration limit"}]
  /\ bytes \in [Files -> 0..MaxFileBytes]
  /\ DOMAIN diag = DOMAIN NoDiag
  /\ impactFiles \subseteq Files

Done == phase = "done"

(***************************************************************************)
(* Every observed file is in one of the diagnostics' counters, and none    *)
(* is in two: the walk and the workers count the files that they leave     *)
(* out, and each may leave out a file for its own reason.                  *)
(***************************************************************************)
FilesAccounted ==
  Done /\ scope = Files =>
    LET told == diag.analyzed + diag.unsupported + diag.unreadable
                + diag.oversized + diag.omitted
    IN diag.observed \in told..(told + diag.errors)

(***************************************************************************)
(* docs/cli-reference.md: a limit that is reached marks the diagnostics    *)
(* as truncated and reports the omitted files; automation relies on it. A  *)
(* supported file that was there all the time, unchanged and in scope, and *)
(* has no report, is covered by a counter, or the count is marked as       *)
(* incomplete; and but for errors of reading the scan is marked truncated. *)
(***************************************************************************)
OmissionsDisclosed ==
  Done =>
    LET missing == {f \in (Target \cap scope \cap Supported) \ changed :
                      disk[f] # Gone /\ outcome[f] # "analyzed"}
    IN /\ missing # {} =>
            diag.truncated \/ diag.errors > 0 \/ diag.unreadable > 0
       /\ ~diag.incomplete =>
            Cardinality(missing) <=
              diag.oversized + diag.omitted + diag.errors + diag.unreadable

(***************************************************************************)
(* What was analyzed of unchanged files stays within the aggregate bytes,  *)
(* although the walk admits files and other threads read them later.       *)
(***************************************************************************)
BytesWithinTotal ==
  SumFunction([f \in Files |-> IF f \in changed THEN 0 ELSE bytes[f]]) <= MaxTotalBytes

(***************************************************************************)
(* docs/configuration.md: resource omissions set scan_truncated.  The files *)
(* that a limit hides from impact analysis, because it cut the walk of the *)
(* root, are not told.                                                     *)
(***************************************************************************)
ImpactOmissionsDisclosed ==
  Done /\ rootStats.truncated => diag.truncated

(***************************************************************************)
(* Every file of the walk is reported or counted, within the byte limit.   *)
(***************************************************************************)
ScanAccounted ==
  /\ ScanTypeOK
  /\ FilesAccounted
  /\ BytesWithinTotal
===============================================================================
