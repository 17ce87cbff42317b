----------------------------- MODULE AnalysisCache -----------------------------
(***************************************************************************)
(* The analysis cache of src/cache.rs under the scans that use it          *)
(* (src/scan/file_analysis.rs): processes load one profile's file, serve   *)
(* or compute the report and the lazy facts of every file they analyze,    *)
(* and write the file back through AtomicFile, while sources are edited,   *)
(* processes crash and `cache clear` removes the directory.  Versions      *)
(* stand for contents and for their hashes: xxh3 is taken to tell them     *)
(* apart.  A version may come back (an edit may be undone).                *)
(***************************************************************************)
EXTENDS Naturals, FiniteSets

CONSTANTS
  Processes,   \* processes that scan with the cache enabled, by pid
  Sources,     \* the sources below the scan root
  Versions,    \* their possible contents
  Facts,       \* the kinds of lazy facts that a request may need
  None,        \* no entry, no fact, no content
  Absent, Symlink, Partial,  \* see AtomicFile
  Foreign,     \* a file that does not parse or is of another profile or version
  MaxSourceEdits, MaxScans   \* bounds: edits and scans that are started

ASSUME CacheAssumption ==
  /\ None \notin Versions
  /\ MaxSourceEdits \in Nat /\ MaxScans \in Nat

Entries == [hash : Versions, report : Versions, facts : [Facts -> Versions \cup {None}]]

CacheData == [Sources -> Entries \cup {None}]

Empty == [f \in Sources |-> None]

\* What cannot be confused with the content of a cache file.
ASSUME CacheFileAssumption ==
  /\ Absent # Symlink /\ Partial \notin {Absent, Symlink}
  /\ None \notin Entries
  /\ {Absent, Symlink, Partial} \cap (CacheData \cup {Foreign}) = {}
  /\ Foreign \notin CacheData

VARIABLES
  tree,        \* every source's content, None when it does not exist
  file, temporary, step, hand, broken,   \* AtomicFile: the profile's file
  cachePhase,  \* idle, scanning or saving
  needs,       \* the facts that the process's request requires
  prunes,      \* whether this is a `complete_root_scan`
  loaded,      \* Cache.loaded
  fresh,       \* Cache.fresh
  work,        \* per file: outside, todo, skipped, or read or served content
  sourceEdits, scans \* counters for the bounds

Store == INSTANCE AtomicFile WITH
           Writers <- Processes, Contents <- CacheData \cup {Foreign},
           Absent <- Absent, Symlink <- Symlink, Partial <- Partial,
           file <- file, temporary <- temporary, step <- step,
           hand <- hand, broken <- broken

storeVars == <<file, temporary, step, hand, broken>>
cachingVars == <<cachePhase, needs, prunes, loaded, fresh, work>>
cacheVars == <<tree, storeVars, cachingVars, sourceEdits, scans>>

Read == [state : {"read"}, content : Versions]
Served == [state : {"served"}, content : Versions, report : Versions,
           facts : [Facts -> Versions \cup {None}]]
Work == [state : {"outside", "todo", "skipped"}] \cup Read \cup Served

Is(s) == [state |-> s]

CacheInit ==
  /\ tree \in [Sources -> Versions]
  /\ file \in {Absent, Symlink, Foreign}
  /\ temporary = [p \in Processes |-> Absent]
  /\ step = [p \in Processes |-> "idle"]
  /\ hand = [p \in Processes |-> Absent]
  /\ broken = {}
  /\ cachePhase = [p \in Processes |-> "idle"]
  /\ needs = [p \in Processes |-> {}]
  /\ prunes = [p \in Processes |-> FALSE]
  /\ loaded = [p \in Processes |-> Empty]
  /\ fresh = [p \in Processes |-> Empty]
  /\ work = [p \in Processes |-> [f \in Sources |-> Is("outside")]]
  /\ sourceEdits = 0 /\ scans = 0

\* load(): whatever is not a regular file of this profile counts as empty.
Load == IF file \in {Absent, Symlink, Foreign} THEN Empty ELSE file

\* The walk and Cache::open.  A limit may cut the walk short, and a target
\* below the root or a diff scope selects some of the files.
Open(p, found, required, complete) ==
  /\ cachePhase[p] = "idle" /\ scans < MaxScans
  /\ scans' = scans + 1
  /\ cachePhase' = [cachePhase EXCEPT ![p] = "scanning"]
  /\ needs' = [needs EXCEPT ![p] = required]
  /\ prunes' = [prunes EXCEPT ![p] = complete]
  /\ loaded' = [loaded EXCEPT ![p] = Load]
  /\ work' = [work EXCEPT ![p] =
                [f \in Sources |-> IF f \in found THEN Is("todo") ELSE Is("outside")]]
  /\ UNCHANGED <<tree, storeVars, fresh, sourceEdits>>

Note(p, f, w) == work' = [work EXCEPT ![p][f] = w]

\* One read of the content; everything below works on what it returned.
ReadSource(p, f) ==
  /\ cachePhase[p] = "scanning" /\ work[p][f] = Is("todo")
  /\ tree[f] # None
  /\ Note(p, f, [state |-> "read", content |-> tree[f]])
  /\ UNCHANGED <<tree, storeVars, cachePhase, needs, prunes, loaded, fresh, sourceEdits, scans>>

\* Unsupported, unreadable, oversized, or not begun before the deadline.
Skip(p, f) ==
  /\ cachePhase[p] = "scanning" /\ work[p][f] = Is("todo")
  /\ Note(p, f, Is("skipped"))
  /\ UNCHANGED <<tree, storeVars, cachePhase, needs, prunes, loaded, fresh, sourceEdits, scans>>

\* mutant: an entry is taken by its path alone
HitByPath(p, f, version) == loaded[p][f] # None

\* Cache::get
Hit(p, f, version) == loaded[p][f] # None /\ loaded[p][f].hash = version

\* enrich_cached_facts: only what is required and missing is computed.
Enrich(e, required, version) ==
  [e EXCEPT !.facts = [k \in Facts |->
     IF k \in required /\ e.facts[k] = None THEN version ELSE e.facts[k]]]

\* analyze_source_details
Computed(required, version) ==
  [hash |-> version, report |-> version,
   facts |-> [k \in Facts |-> IF k \in required THEN version ELSE None]]

ServedFrom(e, required, version) ==
  [state |-> "served", content |-> version, report |-> e.report,
   facts |-> [k \in Facts |-> IF k \in required THEN e.facts[k] ELSE None]]

\* analyze_loaded_file: get and enrich, or compute; put, or carried by get.
Analyze(p, f) ==
  /\ cachePhase[p] = "scanning" /\ work[p][f] \in Read
  /\ LET version == work[p][f].content
         e == IF Hit(p, f, version) THEN Enrich(loaded[p][f], needs[p], version)
              ELSE Computed(needs[p], version)
     IN /\ fresh' = [fresh EXCEPT ![p][f] = e]
        /\ Note(p, f, ServedFrom(e, needs[p], version))
  /\ UNCHANGED <<tree, storeVars, cachePhase, needs, prunes, loaded, sourceEdits, scans>>

\* The entries that `save` writes.
Merged(p) ==
  IF prunes[p] THEN fresh[p]
  ELSE [f \in Sources |-> IF fresh[p][f] # None THEN fresh[p][f] ELSE loaded[p][f]]

\* save: `fresh` is taken even if nothing gets written.
BeginSave(p) ==
  /\ cachePhase[p] = "scanning"
  /\ \A f \in Sources : work[p][f] # Is("todo") /\ work[p][f] \notin Read
  /\ fresh' = [fresh EXCEPT ![p] = Empty]
  /\ cachePhase' = [cachePhase EXCEPT ![p] = "saving"]
  /\ Store!Call(p, Merged(p))
  /\ UNCHANGED <<tree, needs, prunes, loaded, work, sourceEdits, scans>>

Reset(p) ==
  /\ cachePhase' = [cachePhase EXCEPT ![p] = "idle"]
  /\ needs' = [needs EXCEPT ![p] = {}]
  /\ prunes' = [prunes EXCEPT ![p] = FALSE]
  /\ loaded' = [loaded EXCEPT ![p] = Empty]
  /\ fresh' = [fresh EXCEPT ![p] = Empty]
  /\ work' = [work EXCEPT ![p] = [f \in Sources |-> Is("outside")]]

\* An oversized cache is not written and counts as saved.
OmitSave(p) ==
  /\ cachePhase[p] = "scanning"
  /\ \A f \in Sources : work[p][f] # Is("todo") /\ work[p][f] \notin Read
  /\ Merged(p) # Empty
  /\ Reset(p)
  /\ UNCHANGED <<tree, storeVars, sourceEdits, scans>>

\* save_best_effort: a failed save changes nothing for the scan.
EndSave(p) ==
  /\ cachePhase[p] = "saving"
  /\ Store!Taken(p)
  /\ Reset(p)
  /\ UNCHANGED <<tree, sourceEdits, scans>>

SaveStep(p) ==
  /\ Store!WriteStep(p)
  /\ UNCHANGED <<tree, cachingVars, sourceEdits, scans>>

Crash(p) ==
  /\ cachePhase[p] # "idle"
  /\ Store!CrashInCall(p)
  /\ Reset(p)
  /\ UNCHANGED <<tree, sourceEdits, scans>>

\* clear_for_target and clear_all.
Clear ==
  /\ Store!ClearDirectory
  /\ UNCHANGED <<tree, cachingVars, sourceEdits, scans>>

EditSource(f) ==
  /\ sourceEdits < MaxSourceEdits
  /\ sourceEdits' = sourceEdits + 1
  /\ \E v \in (Versions \cup {None}) \ {tree[f]} : tree' = [tree EXCEPT ![f] = v]
  /\ UNCHANGED <<storeVars, cachingVars, scans>>

Present == {f \in Sources : tree[f] # None}

ScanStep(p) ==
  \/ \E found \in SUBSET Present, required \in SUBSET Facts, complete \in BOOLEAN :
       Open(p, found, required, complete)
  \/ \E f \in Sources : ReadSource(p, f) \/ Skip(p, f) \/ Analyze(p, f)
  \/ BeginSave(p) \/ OmitSave(p) \/ SaveStep(p) \/ EndSave(p) \/ Crash(p)

CacheNext ==
  \/ \E p \in Processes : ScanStep(p)
  \/ \E f \in Sources : EditSource(f)
  \/ Clear

CacheSpec == CacheInit /\ [][CacheNext]_cacheVars

(***************************************************************************)
(* The types of all variables.                                             *)
(***************************************************************************)
CacheTypeOK ==
  /\ tree \in [Sources -> Versions \cup {None}]
  /\ Store!FileTypeOK
  /\ cachePhase \in [Processes -> {"idle", "scanning", "saving"}]
  /\ needs \in [Processes -> SUBSET Facts]
  /\ prunes \in [Processes -> BOOLEAN]
  /\ loaded \in [Processes -> CacheData]
  /\ fresh \in [Processes -> CacheData]
  /\ work \in [Processes -> [Sources -> Work]]
  /\ sourceEdits \in 0..MaxSourceEdits /\ scans \in 0..MaxScans

(***************************************************************************)
(* What a scan uses of a file was computed from the content that this scan *)
(* read, and it has every fact that the request requires: whatever other   *)
(* scans, edits, crashes and earlier requests left in the cache.           *)
(***************************************************************************)
ServedForContent ==
  \A p \in Processes : \A f \in Sources :
    work[p][f].state = "served" =>
      /\ work[p][f].report = work[p][f].content
      /\ \A k \in needs[p] : work[p][f].facts[k] = work[p][f].content

\* The part that makes it inductive: no entry mixes contents.
True(e) ==
  e # None =>
    /\ e.report = e.hash
    /\ \A k \in Facts : e.facts[k] \in {None, e.hash}

TrueData(data) ==
  data \notin {Absent, Symlink, Foreign, Partial} => \A f \in Sources : True(data[f])

EntriesTrue ==
  /\ TrueData(file)
  /\ \A p \in Processes :
       /\ TrueData(temporary[p]) /\ TrueData(hand[p])
       /\ TrueData(loaded[p]) /\ TrueData(fresh[p])

(***************************************************************************)
(* What a save hands over holds everything the scan used, with the facts   *)
(* it required, and, unless it prunes, an entry for every file that it     *)
(* loaded one for: a hit and an enrichment are carried forward.            *)
(***************************************************************************)
SavesWhatItServed ==
  \A p \in Processes : hand[p] # Absent =>
    \A f \in Sources :
      /\ work[p][f].state = "served" =>
           /\ hand[p][f] # None
           /\ hand[p][f].hash = work[p][f].content
           /\ \A k \in needs[p] : hand[p][f].facts[k] # None
      /\ ~prunes[p] /\ loaded[p][f] # None => hand[p][f] # None

(***************************************************************************)
(* Readers of the cache file find it absent or whole (WholeFile).          *)
(***************************************************************************)
KeepsFileWhole == Store!Whole!WholeSpec

(***************************************************************************)
(* A temporary file that stays behind was left by a call that broke off.   *)
(***************************************************************************)
LeftoverHasCause == Store!LeftoverHasCause

(***************************************************************************)
(* What concurrent scans may rely on: Cache::get answers for the content,  *)
(* a save keeps what was served, and a temporary file has its cause.       *)
(***************************************************************************)
CacheSound ==
  /\ CacheTypeOK
  /\ ServedForContent
  /\ SavesWhatItServed
  /\ LeftoverHasCause
===============================================================================
