------------------------------- MODULE WholeFile -------------------------------
(***************************************************************************)
(* What write_atomic_bytes of src/fs_budget.rs promises the readers of a   *)
(* path: whatever writers do, fail to do or leave undone, the path is      *)
(* absent or holds the whole of one content that some writer is handing    *)
(* over, and a link that stands in its place is not written through.       *)
(***************************************************************************)
CONSTANTS
  Contents,    \* whole files
  Absent,      \* nothing at the path
  Symlink      \* a symbolic link at the path

VARIABLES
  file,        \* what a reader finds at the path
  offered      \* the contents that are being handed over

wholeVars == <<file, offered>>

WholeInit ==
  /\ file \in Contents \cup {Absent, Symlink}
  /\ offered = {}

\* Writers begin and end; the path stays as it is.
Offer ==
  /\ offered' \subseteq Contents
  /\ UNCHANGED file

\* The file becomes one of the contents on offer as a whole.
Replace ==
  /\ file # Symlink
  /\ file' \in offered
  /\ UNCHANGED offered

\* The file, or the link, is removed.
Remove ==
  /\ file' = Absent
  /\ UNCHANGED offered

WholeNext == Offer \/ Replace \/ Remove

WholeSpec == WholeInit /\ [][WholeNext]_wholeVars
===============================================================================
