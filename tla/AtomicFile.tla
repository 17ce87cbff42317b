------------------------------ MODULE AtomicFile ------------------------------
(***************************************************************************)
(* write_atomic_bytes of src/fs_budget.rs as it runs on Unix, by several   *)
(* processes on one path: one action per system call that can fail, be     *)
(* interrupted by a crash or meet what another process did since.  Every   *)
(* process has one temporary file, named after the path and its pid.       *)
(***************************************************************************)
CONSTANTS
  Writers,     \* processes; a writer that crashes may come back under its pid
  Contents, Absent, Symlink,
  Partial      \* a temporary file that is not completely written; the user of
               \* the module assumes that these are no contents

VARIABLES
  file,        \* the file at the path
  temporary,   \* every writer's .{name}.{pid}.tmp
  step,        \* how far a writer's call has come
  hand,        \* the bytes it was called with; Absent outside of a call
  broken       \* history: writers of which a call broke off in the middle

fileVars == <<file, temporary, step, hand, broken>>

Steps == {"idle", "begun", "checked", "created", "synced", "fallback",
          "replacing", "retry", "renamed", "ok", "failed"}

Calling(w) == step[w] \notin {"idle", "ok", "failed"}

FileInit ==
  /\ file \in Contents \cup {Absent, Symlink}
  /\ temporary = [w \in Writers |-> Absent]
  /\ step = [w \in Writers |-> "idle"]
  /\ hand = [w \in Writers |-> Absent]
  /\ broken = {}

To(w, s) == step' = [step EXCEPT ![w] = s]

Return(w, s) ==
  /\ To(w, s)
  /\ hand' = [hand EXCEPT ![w] = Absent]

\* An error that is returned with `?` and leaves the temporary file behind.
BreakOff(w) ==
  /\ Return(w, "failed")
  /\ broken' = broken \cup {w}
  /\ UNCHANGED <<file, temporary>>

\* An error that is returned after the temporary was removed, if it could be.
GiveUp(w) ==
  \/ /\ Return(w, "failed")
     /\ temporary' = [temporary EXCEPT ![w] = Absent]
     /\ UNCHANGED <<file, broken>>
  \/ BreakOff(w)

\* An error before this call has created anything.
Refuse(w) ==
  /\ Return(w, "failed")
  /\ UNCHANGED <<file, temporary, broken>>

Call(w, content) ==
  /\ step[w] = "idle"
  /\ To(w, "begun")
  /\ hand' = [hand EXCEPT ![w] = content]
  /\ UNCHANGED <<file, temporary, broken>>

\* create_dir_all, set_permissions on the directory, and the check for a link.
Prepare(w) ==
  /\ step[w] = "begun"
  /\ \/ /\ file # Symlink
        /\ To(w, "checked")
        /\ UNCHANGED <<file, temporary, hand, broken>>
     \/ Refuse(w)

\* create_new refuses a temporary that an earlier call of this pid left.
CreateTemporary(w) ==
  /\ step[w] = "checked"
  /\ \/ /\ temporary[w] = Absent
        /\ temporary' = [temporary EXCEPT ![w] = Partial]
        /\ To(w, "created")
        /\ UNCHANGED <<file, hand, broken>>
     \/ Refuse(w)

\* mutant: a single write instead of write_all
WriteOnce(w) ==
  /\ step[w] = "created"
  /\ To(w, "synced")
  /\ UNCHANGED <<file, temporary, hand, broken>>

\* write_all and sync_all; bytes written to a file that was unlinked are lost.
WriteAndSync(w) ==
  /\ step[w] = "created"
  /\ \/ /\ temporary' = [temporary EXCEPT ![w] = IF @ = Absent THEN @ ELSE hand[w]]
        /\ To(w, "synced")
        /\ UNCHANGED <<file, hand, broken>>
     \/ BreakOff(w)

RenameOver(w) ==
  /\ temporary[w] # Absent
  /\ file' = temporary[w]
  /\ temporary' = [temporary EXCEPT ![w] = Absent]
  /\ To(w, "renamed")
  /\ UNCHANGED <<hand, broken>>

Rename(w) ==
  /\ step[w] = "synced"
  /\ \/ RenameOver(w)
     \/ /\ To(w, "fallback")
        /\ UNCHANGED <<file, temporary, hand, broken>>

\* path.exists(), and the second check for a link.
Fallback(w) ==
  /\ step[w] = "fallback"
  /\ \/ /\ file \in {Absent, Symlink}
        /\ GiveUp(w)
     \/ /\ file \notin {Absent, Symlink}
        /\ To(w, "replacing")
        /\ UNCHANGED <<file, temporary, hand, broken>>

RemoveDestination(w) ==
  /\ step[w] = "replacing"
  /\ \/ /\ file # Absent
        /\ file' = Absent
        /\ To(w, "retry")
        /\ UNCHANGED <<temporary, hand, broken>>
     \/ BreakOff(w)

RenameAgain(w) ==
  /\ step[w] = "retry"
  /\ RenameOver(w) \/ BreakOff(w)

\* The last set_permissions may fail although the file is in place.
SetPermissions(w) ==
  /\ step[w] = "renamed"
  /\ \E s \in {"ok", "failed"} : Return(w, s)
  /\ UNCHANGED <<file, temporary, broken>>

\* The caller takes the result.
Taken(w) ==
  /\ step[w] \in {"ok", "failed"}
  /\ To(w, "idle")
  /\ UNCHANGED <<file, temporary, hand, broken>>

\* The process is gone, its temporary stays.
CrashInCall(w) ==
  /\ Return(w, "idle")
  /\ broken' = IF Calling(w) THEN broken \cup {w} ELSE broken
  /\ UNCHANGED <<file, temporary>>

\* remove_path on the directory of the path: everything, or what it gets to
\* before it fails, and before writers create new files in it.
ClearDirectory ==
  /\ file' \in {file, Absent}
  /\ \E gone \in SUBSET Writers :
       temporary' = [w \in Writers |-> IF w \in gone THEN Absent ELSE temporary[w]]
  /\ UNCHANGED <<step, hand, broken>>

WriteStep(w) ==
  \/ Prepare(w) \/ CreateTemporary(w) \/ WriteAndSync(w) \/ Rename(w)
  \/ Fallback(w) \/ RemoveDestination(w) \/ RenameAgain(w) \/ SetPermissions(w)

Whole == INSTANCE WholeFile WITH
           Contents <- Contents, Absent <- Absent, Symlink <- Symlink,
           file <- file,
           offered <- {hand[w] : w \in {v \in Writers : Calling(v)}}

FileTypeOK ==
  /\ file \in Contents \cup {Absent, Symlink}
  /\ temporary \in [Writers -> Contents \cup {Absent, Partial}]
  /\ step \in [Writers -> Steps]
  /\ hand \in [Writers -> Contents \cup {Absent}]
  /\ \A w \in Writers : Calling(w) <=> hand[w] # Absent
  /\ broken \subseteq Writers

(***************************************************************************)
(* A temporary file outlives its call only when the call broke off between *)
(* create and rename (a failed write, a failed replacement, a crash).      *)
(* Such a leftover makes every later call of that pid fail, so a return    *)
(* that is not forced to leave one must not.                               *)
(***************************************************************************)
LeftoverHasCause ==
  \A w \in Writers :
    temporary[w] # Absent /\ ~Calling(w) => w \in broken
===============================================================================
