-------------------------------- MODULE Updater --------------------------------
(***************************************************************************)
(* `reposcout update` of src/update.rs: processes of the installed         *)
(* executable replace it and its install receipt by the latest release,    *)
(* one action per step between which a process can crash, another update   *)
(* can run or a release can be published.  Releases are numbered in the    *)
(* order of their versions; what is staged has passed the digest and       *)
(* extraction checks, or the attempt has ended.                            *)
(***************************************************************************)
EXTENDS Naturals

CONSTANTS
  Updaters,    \* processes that run `reposcout update`
  Nothing,     \* no version in hand
  MaxRelease,  \* bound: releases are 1..MaxRelease
  MaxUpdates   \* bound: updates that are started

ASSUME UpdaterAssumption ==
  /\ MaxRelease \in Nat \ {0} /\ MaxUpdates \in Nat
  /\ Nothing \notin Nat

Releases == 1..MaxRelease

VARIABLES
  executable,  \* the release installed as the executable
  receipt,     \* the version that the install receipt names
  published,   \* the latest stable release
  place,       \* where an update is
  running,     \* CARGO_PKG_VERSION of the process
  target,      \* the release it is installing
  backup,      \* its rollback copy of the executable
  updates,     \* counter for the bound
  overlapped,  \* history: two updates ran at once
  torn         \* history: an update ended between its two replacements

updateVars == <<executable, receipt, published, place, running, target, backup,
                updates, overlapped, torn>>

Places == {"idle", "started", "checked", "staged", "copied", "replaced",
           "rollback", "updated", "current", "failed"}

Ended == {"idle", "updated", "current", "failed"}

UpdaterInit ==
  /\ executable = 1 /\ receipt = 1
  /\ published \in Releases
  /\ place = [u \in Updaters |-> "idle"]
  /\ running = [u \in Updaters |-> Nothing]
  /\ target = [u \in Updaters |-> Nothing]
  /\ backup = [u \in Updaters |-> Nothing]
  /\ updates = 0 /\ overlapped = FALSE /\ torn = FALSE

Publish ==
  /\ published < MaxRelease
  /\ published' = published + 1
  /\ UNCHANGED <<executable, receipt, place, running, target, backup, updates,
                 overlapped, torn>>

\* The shell starts what is installed.
StartUpdate(u) ==
  /\ place[u] \in Ended /\ updates < MaxUpdates
  /\ updates' = updates + 1
  /\ overlapped' = (overlapped \/ \E v \in Updaters \ {u} : place[v] \notin Ended)
  /\ place' = [place EXCEPT ![u] = "started"]
  /\ running' = [running EXCEPT ![u] = executable]
  /\ target' = [target EXCEPT ![u] = Nothing]
  /\ backup' = [backup EXCEPT ![u] = Nothing]
  /\ UNCHANGED <<executable, receipt, published, torn>>

GoTo(u, next) == place' = [place EXCEPT ![u] = next]

\* An error before the executable is replaced: the staged files are dropped.
Fail(u) ==
  /\ place[u] \in {"started", "checked", "staged", "copied"}
  /\ GoTo(u, "failed")
  /\ UNCHANGED <<executable, receipt, published, running, target, backup,
                 updates, overlapped, torn>>

\* mutant: without the version comparison in validate_receipt
CheckReceiptLoosely(u) ==
  /\ place[u] = "started"
  /\ GoTo(u, "checked")
  /\ UNCHANGED <<executable, receipt, published, running, target, backup,
                 updates, overlapped, torn>>

\* load_receipt and validate_receipt; a receipt of another version is refused
\* (Fail).
CheckReceipt(u) ==
  /\ place[u] = "started"
  /\ receipt = running[u]
  /\ GoTo(u, "checked")
  /\ UNCHANGED <<executable, receipt, published, running, target, backup,
                 updates, overlapped, torn>>

\* latest_release is not newer than the receipt, whose version `running` is.
FindCurrent(u) ==
  /\ place[u] = "checked"
  /\ published <= running[u]
  /\ GoTo(u, "current")
  /\ UNCHANGED <<executable, receipt, published, running, target, backup,
                 updates, overlapped, torn>>

\* latest_release, the download, its digest, the extraction and stage_receipt.
Stage(u) ==
  /\ place[u] = "checked"
  /\ published > running[u]
  /\ target' = [target EXCEPT ![u] = published]
  /\ GoTo(u, "staged")
  /\ UNCHANGED <<executable, receipt, published, running, backup, updates,
                 overlapped, torn>>

BackUp(u) ==
  /\ place[u] = "staged"
  /\ backup' = [backup EXCEPT ![u] = executable]
  /\ GoTo(u, "copied")
  /\ UNCHANGED <<executable, receipt, published, running, target, updates,
                 overlapped, torn>>

PersistBinary(u) ==
  /\ place[u] = "copied"
  /\ executable' = target[u]
  /\ GoTo(u, "replaced")
  /\ UNCHANGED <<receipt, published, running, target, backup, updates,
                 overlapped, torn>>

PersistReceipt(u) ==
  /\ place[u] = "replaced"
  /\ \/ receipt' = target[u] /\ GoTo(u, "updated")
     \/ UNCHANGED receipt /\ GoTo(u, "rollback")
  /\ UNCHANGED <<executable, published, running, target, backup, updates,
                 overlapped, torn>>

\* mutant: a rollback that fails is reported like one that worked
RollBackUnseen(u) ==
  /\ place[u] = "rollback"
  /\ GoTo(u, "failed")
  /\ executable' \in {executable, backup[u]}
  /\ UNCHANGED <<receipt, published, running, target, backup, updates,
                 overlapped, torn>>

\* backup.persist(executable), which may fail too.
RollBack(u) ==
  /\ place[u] = "rollback"
  /\ GoTo(u, "failed")
  /\ \/ executable' = backup[u] /\ UNCHANGED torn
     \/ UNCHANGED executable /\ torn' = TRUE
  /\ UNCHANGED <<receipt, published, running, target, backup, updates, overlapped>>

CrashUpdate(u) ==
  /\ place[u] \notin Ended
  /\ GoTo(u, "failed")
  /\ torn' = (torn \/ place[u] \in {"replaced", "rollback"})
  /\ UNCHANGED <<executable, receipt, published, running, target, backup,
                 updates, overlapped>>

UpdateStep(u) ==
  \/ StartUpdate(u) \/ Fail(u) \/ CheckReceipt(u) \/ FindCurrent(u) \/ Stage(u)
  \/ BackUp(u) \/ PersistBinary(u) \/ PersistReceipt(u) \/ RollBack(u)
  \/ CrashUpdate(u)

UpdaterNext == Publish \/ \E u \in Updaters : UpdateStep(u)

UpdaterSpec == UpdaterInit /\ [][UpdaterNext]_updateVars

(***************************************************************************)
(* The types of all variables.                                             *)
(***************************************************************************)
UpdaterTypeOK ==
  /\ executable \in Releases /\ receipt \in Releases /\ published \in Releases
  /\ place \in [Updaters -> Places]
  /\ running \in [Updaters -> Releases \cup {Nothing}]
  /\ target \in [Updaters -> Releases \cup {Nothing}]
  /\ backup \in [Updaters -> Releases \cup {Nothing}]
  /\ updates \in 0..MaxUpdates
  /\ overlapped \in BOOLEAN /\ torn \in BOOLEAN

InTheMiddle == \E u \in Updaters : place[u] \in {"replaced", "rollback"}

(***************************************************************************)
(* When no update is between its two replacements, executable and receipt  *)
(* name the same release, unless an update crashed or could not roll back  *)
(* there, or two updates ran at once: otherwise every later `reposcout     *)
(* update` would refuse to work.                                           *)
(***************************************************************************)
PairAgrees ==
  ~InTheMiddle /\ ~overlapped /\ ~torn => executable = receipt

(***************************************************************************)
(* While the replacement of a lone update can still fail, its rollback     *)
(* copy is the release that the receipt names, and it was installing a     *)
(* newer one: whatever fails, the rollback restores what was installed.    *)
(***************************************************************************)
FailureRestores ==
  \A u \in Updaters :
    place[u] \in {"replaced", "rollback"} /\ ~overlapped =>
      /\ backup[u] = receipt
      /\ target[u] > receipt

(***************************************************************************)
(* Receipt and executable that disagree stay as they are: an update that   *)
(* starts from a torn installation refuses it instead of installing over   *)
(* it.                                                                     *)
(***************************************************************************)
TornPairIsRefused ==
  [][~overlapped /\ ~InTheMiddle /\ executable # receipt
       => UNCHANGED <<executable, receipt>>]_updateVars

(***************************************************************************)
(* What install leaves behind: a pair that agrees, or the pair it found.   *)
(***************************************************************************)
InstallationSound ==
  /\ PairAgrees
  /\ FailureRestores
===============================================================================

