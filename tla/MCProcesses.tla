------------------------------- MODULE MCProcesses -----------------------------
(***************************************************************************)
(* What processes share on disk, one at a time: the analysis cache on one  *)
(* file, the caches of the commit history on a repository whose metadata   *)
(* may be complete, shallow or too large to be fingerprinted, the          *)
(* installed executable with its receipt, and the daemon's token file; the *)
(* debug log, which the threads of one process share; and a scan, whose    *)
(* jobs read files that change under it.                                   *)
(***************************************************************************)
EXTENDS AnalysisCache, ChurnHistory, Updater, DaemonToken, DebugLog, ScanRun, TLC

VARIABLE subject

Added(p) == [kind |-> "added", old |-> NoPath, new |-> p]
Deleted(p) == [kind |-> "deleted", old |-> p, new |-> NoPath]
Renamed(p, q) == [kind |-> "renamed", old |-> p, new |-> q]
Other(p) == [kind |-> "other", old |-> p, new |-> p]

\* first adds "old", move renames it to "new", join is a merge that brings
\* "old" back; in a shallow history move has no parent.
MCLog ==
  [h \in {"move", "join"} |-> [s \in Histories |->
     (IF h = "join" THEN <<"join">> ELSE <<>>)
       \o (IF s = "shallow" THEN <<"move">> ELSE <<"move", "first">>)]]
MCMerge == [s \in Histories |-> {"join"}]
MCRoot == [s \in Histories |-> IF s = "shallow" THEN {"move"} ELSE {"first"}]
MCRaw ==
  [s \in Histories |-> [c \in Commits |->
     CASE c = "first" -> {Added("old")}
       [] c = "move" /\ s = "shallow" -> {Added("new")}
       [] c = "move" /\ s # "shallow" -> {Deleted("old"), Added("new")}
       [] c = "join" -> {Added("old"), Other("new")}]]
MCFound ==
  [s \in Histories |-> IF s = "shallow" THEN MCRaw[s]
                       ELSE [MCRaw[s] EXCEPT !["move"] = {Renamed("old", "new")}]]

\* Where the branch and its metadata are at first: they may still move on, back,
\* be deepened or cut, or get too large.
MCStarts == {<<"move", "full">>, <<"join", "shallow">>}

MCRequests ==
  {[wanted |-> {"new"}, maxCommits |-> 2, safe |-> FALSE],
   [wanted |-> {"old"}, maxCommits |-> 0, safe |-> TRUE]}

Symmetry == Permutations(Processes) \cup Permutations(Versions)

CacheUnused ==
  /\ file = Absent
  /\ CacheInit

ChurnUnused ==
  /\ head = CHOOSE h \in Heads : TRUE
  /\ history = CHOOSE h \in Histories : TRUE
  /\ ChurnInit

UpdaterUnused == published = 1 /\ UpdaterInit

TokenUnused ==
  /\ address = [d \in Daemons |-> CHOOSE a \in Addresses : TRUE]
  /\ tokenFile = NoToken
  /\ TokenInit

ScanUnused ==
  /\ disk = [f \in Files |-> Gone]
  /\ impact = FALSE /\ scope = Files
  /\ ScanInit

\* Every file is there when the scan begins; one may be edited or vanish since.
\* Nothing looks at the size of a file of no supported language.
AllPresent ==
  \A f \in Files : disk[f] # Gone /\ (f \in Supported \/ disk[f] = CHOOSE s \in Sizes : TRUE)

ProcessesInit ==
  \/ /\ subject = "analysis cache"
     /\ ChurnUnused /\ UpdaterUnused /\ TokenUnused /\ LogInit /\ ScanUnused /\ CacheInit
  \/ /\ subject = "churn history"
     /\ \E s \in MCStarts : head = s[1] /\ history = s[2]
     /\ CacheUnused /\ UpdaterUnused /\ TokenUnused /\ LogInit /\ ScanUnused /\ ChurnInit
  \/ /\ subject = "update"
     /\ CacheUnused /\ ChurnUnused /\ TokenUnused /\ LogInit /\ ScanUnused /\ UpdaterInit
  \/ /\ subject = "daemon token"
     /\ CacheUnused /\ ChurnUnused /\ UpdaterUnused /\ LogInit /\ ScanUnused /\ TokenInit
  \/ /\ subject = "debug log"
     /\ CacheUnused /\ ChurnUnused /\ UpdaterUnused /\ TokenUnused /\ ScanUnused /\ LogInit
  \/ /\ subject = "scan"
     /\ CacheUnused /\ ChurnUnused /\ UpdaterUnused /\ TokenUnused /\ LogInit
     /\ ScanInit /\ AllPresent

ProcessesNext ==
  /\ UNCHANGED subject
  /\ \/ /\ subject = "analysis cache" /\ CacheNext
        /\ UNCHANGED <<churnVars, updateVars, tokenVars, logVars, scanVars>>
     \/ /\ subject = "churn history" /\ ChurnNext
        /\ UNCHANGED <<cacheVars, updateVars, tokenVars, logVars, scanVars>>
     \/ /\ subject = "update" /\ UpdaterNext
        /\ UNCHANGED <<cacheVars, churnVars, tokenVars, logVars, scanVars>>
     \/ /\ subject = "daemon token" /\ TokenNext
        /\ UNCHANGED <<cacheVars, churnVars, updateVars, logVars, scanVars>>
     \/ /\ subject = "debug log" /\ LogNext
        /\ UNCHANGED <<cacheVars, churnVars, updateVars, tokenVars, scanVars>>
     \/ /\ subject = "scan" /\ ScanNext
        /\ UNCHANGED <<cacheVars, churnVars, updateVars, tokenVars, logVars>>

ProcessesSpec ==
  ProcessesInit
    /\ [][ProcessesNext]_<<subject, cacheVars, churnVars, updateVars, tokenVars, logVars,
                           scanVars>>
================================================================================
