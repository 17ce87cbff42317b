------------------------------ MODULE DeepReview ------------------------------
(***************************************************************************)
(* `--review deep`: a snapshot of the current sources and one of the base  *)
(* tree (src/snapshot.rs), each taken file by file under the limits of the *)
(* scan, then the findings of both compared (src/findings.rs) and those on *)
(* changed lines reported (src/review.rs).  A file has at most one finding *)
(* of a grade; the worktree stays as it is while it is read, but HEAD may  *)
(* move between the diff and the base snapshot.                            *)
(***************************************************************************)
EXTENDS Naturals, FiniteSets

CONSTANTS
  PathCount,     \* paths are numbered in their order
  Supported,     \* paths of a language that is analyzed
  NoContent,     \* no file at a path
  Trees,         \* possible trees: functions from paths to contents
  Hunks,         \* <<old lines touched, new lines touched>> of a changed file
  MaxReviewFiles, MaxSourceBytes, MaxBlobBytes, MaxSnapshotBytes

ReviewPaths == 1..PathCount
NoReviewPath == 0

Contents == [size : Nat, text : BOOLEAN, grade : Nat]

ASSUME ReviewAssumption ==
  /\ PathCount \in Nat /\ Supported \subseteq ReviewPaths
  /\ NoContent \notin Contents
  /\ Trees \subseteq [ReviewPaths -> Contents \cup {NoContent}]
  /\ Hunks \subseteq BOOLEAN \X BOOLEAN

Present(t) == {p \in ReviewPaths : t[p] # NoContent}
Empty == [p \in ReviewPaths |-> NoContent]

VARIABLES
  staged,      \* DiffScope::Staged: the current sources are those of the index
  reviewed,    \* the current tree: of the worktree or of the index
  headTree,    \* the tree of HEAD
  baseTree,    \* the tree that the base snapshot is taken of
  diffBase,    \* the tree that the diff was taken from, {} if HEAD was unborn
  changedFiles,
  pastDeadline,
  taking,      \* where the review is
  entry,       \* the path that comes next
  found,       \* paths that the walk accepted
  accepted,    \* the bytes accepted so far
  now, then,   \* the snapshots of the current and the base sources
  walkFailed,  \* history: the walk could not look at a file
  firstCommit, \* history: HEAD was born after the diff was taken
  reviewReport

reviewInputs == <<staged, reviewed, diffBase, changedFiles>>
reviewVars == <<reviewInputs, headTree, baseTree, pastDeadline, taking, entry, found,
                accepted, now, then, walkFailed, firstCommit, reviewReport>>

NoSnapshot ==
  [sources |-> {}, unreadable |-> 0, oversized |-> 0, omitted |-> 0,
   incomplete |-> FALSE, truncated |-> FALSE]

Changed(old, new, status, hunk) ==
  [old |-> old, new |-> new, status |-> status, oldTouched |-> hunk[1],
   newTouched |-> hunk[2]]

\* What git reports for two trees (changed_lines_with_base): one entry per path,
\* or one for a deleted and an added path that it takes for a rename.
ChangeSets(before, after) ==
  LET gone == Present(before) \ Present(after)
      come == Present(after) \ Present(before)
      kept == {p \in Present(before) \cap Present(after) : before[p] # after[p]}
      renames == {{}} \cup {{<<o, n>>} : o \in gone, n \in come}
      HunksOf(o, n) == IF before[o] = after[n] THEN {<<FALSE, FALSE>>} ELSE Hunks
  IN UNION {
       {{Changed(p, NoReviewPath, "deleted", <<TRUE, FALSE>>) :
           p \in gone \ {r[1] : r \in rs}}
          \cup {Changed(NoReviewPath, p, "added", <<FALSE, TRUE>>) :
                  p \in come \ {r[2] : r \in rs}}
          \cup {Changed(p, p, "modified", hs[p]) : p \in kept}
          \cup {Changed(r[1], r[2], "renamed", h) : r \in rs}
        : hs \in [kept -> Hunks],
          h \in UNION {HunksOf(r[1], r[2]) : r \in rs}
                  \cup (IF rs = {} THEN {<<FALSE, FALSE>>} ELSE {})}
       : rs \in renames}

\* prepare_scan: diff_base_tree_id and review_changed_files_for_scope.
ReviewInit ==
  /\ staged \in BOOLEAN
  /\ reviewed \in Trees
  /\ \/ headTree \in Trees /\ diffBase = {headTree}
     \/ headTree = Empty /\ diffBase = {}
  /\ changedFiles \in ChangeSets(headTree, reviewed)
  /\ pastDeadline = FALSE /\ baseTree = Empty
  /\ taking = "current" /\ entry = 1 /\ found = {} /\ accepted = 0
  /\ now = NoSnapshot /\ then = NoSnapshot
  /\ walkFailed = FALSE /\ firstCommit = FALSE
  /\ reviewReport = {}

TimePasses ==
  /\ taking # "reported" /\ ~pastDeadline
  /\ pastDeadline' = TRUE
  /\ UNCHANGED <<reviewInputs, headTree, baseTree, taking, entry, found, accepted, now, then,
                 walkFailed, firstCommit, reviewReport>>

\* Somebody commits what is reviewed, or anything else.
Commit ==
  /\ taking # "reported" /\ headTree # reviewed
  /\ headTree' = reviewed
  /\ firstCommit' = (diffBase = {} /\ taking \in {"current", "reading"})
  /\ UNCHANGED <<reviewInputs, baseTree, pastDeadline, taking, entry, found, accepted, now, then,
                 walkFailed, reviewReport>>

Unreadable(s) == [s EXCEPT !.unreadable = @ + 1]
Oversized(s) == [s EXCEPT !.oversized = @ + 1, !.truncated = TRUE]
Omitted(s, n) == [s EXCEPT !.omitted = @ + n, !.truncated = TRUE]
Incomplete(s) == [s EXCEPT !.incomplete = TRUE, !.truncated = TRUE]
Taken(s, p) == [s EXCEPT !.sources = @ \cup {p}]

Before(t, p) == Cardinality({q \in Present(t) : q < p})
Left(t, p) == Cardinality({q \in Present(t) : q >= p})

(***************************************************************************)
(* from_index and from_tree.  Both count all entries against the limit on  *)
(* files; from_index knows how many are left, from_tree does not.          *)
(***************************************************************************)

AddBlob(t, p, s) ==
  IF p \notin Supported THEN s
  ELSE IF t[p].size > MaxBlobBytes THEN Oversized(s)
  ELSE IF accepted + t[p].size > MaxSnapshotBytes THEN Omitted(s, 1)
  ELSE IF t[p].text THEN Taken(s, p) ELSE Unreadable(s)

OverBudget(t) == pastDeadline \/ Before(t, entry) >= MaxReviewFiles

CutIndex(s) == Omitted(s, Left(reviewed, entry))
CutTree(s) ==
  IF pastDeadline THEN Incomplete(s) ELSE Incomplete(Omitted(s, 1))

\* One entry of tree t: t' is what the snapshot s becomes.
BlobStep(t, s, s2, cut) ==
  /\ entry \in Present(t)
  /\ IF OverBudget(t)
     THEN s2 = cut /\ entry' = PathCount + 1 /\ UNCHANGED accepted
     ELSE /\ s2 = AddBlob(t, entry, s)
          /\ entry' = entry + 1
          /\ accepted' = accepted + (IF entry \in s2.sources THEN t[entry].size ELSE 0)
  /\ UNCHANGED found

NoEntry(t) == entry \in ReviewPaths \ Present(t) /\ entry' = entry + 1

ReadIndex ==
  /\ taking = "current" /\ staged
  /\ \/ BlobStep(reviewed, now, now', CutIndex(now))
     \/ NoEntry(reviewed) /\ UNCHANGED <<now, accepted, found>>
  /\ UNCHANGED <<reviewInputs, headTree, baseTree, pastDeadline, taking, then, walkFailed,
                 firstCommit, reviewReport>>

ReadBase ==
  /\ taking = "base"
  /\ \/ BlobStep(baseTree, then, then', CutTree(then))
     \/ NoEntry(baseTree) /\ UNCHANGED <<then, accepted, found>>
  /\ UNCHANGED <<reviewInputs, headTree, baseTree, pastDeadline, taking, now, walkFailed,
                 firstCommit, reviewReport>>

(***************************************************************************)
(* SourceSnapshot::worktree: the walk, then the files that it found.       *)
(***************************************************************************)

AcceptFile(p) ==
  LET size == reviewed[p].size
      over == accepted + size > MaxSnapshotBytes
  IN IF p \notin Supported
     THEN found' = found \cup {p} /\ UNCHANGED <<now, accepted>>
     ELSE IF size > MaxSourceBytes \/ over
     THEN /\ now' = IF size > MaxSourceBytes THEN Oversized(now) ELSE Omitted(now, 1)
          /\ UNCHANGED <<accepted, found>>
     ELSE found' = found \cup {p} /\ accepted' = accepted + size /\ UNCHANGED now

\* A file whose metadata cannot be read is a walker error, which the snapshot
\* does not take over.
WalkFile ==
  /\ taking = "current" /\ ~staged /\ entry \in Present(reviewed)
  /\ \/ /\ pastDeadline
        /\ now' = Incomplete(now) /\ entry' = PathCount + 1
        /\ UNCHANGED <<accepted, found, walkFailed>>
     \/ /\ ~pastDeadline /\ Before(reviewed, entry) >= MaxReviewFiles
        /\ now' = Incomplete(Omitted(now, 1)) /\ entry' = PathCount + 1
        /\ UNCHANGED <<accepted, found, walkFailed>>
     \/ /\ ~pastDeadline /\ Before(reviewed, entry) < MaxReviewFiles
        /\ entry' = entry + 1
        /\ \/ AcceptFile(entry) /\ UNCHANGED walkFailed
           \/ /\ entry \in Supported /\ walkFailed' = TRUE
              /\ UNCHANGED <<now, accepted, found>>
  /\ UNCHANGED <<reviewInputs, headTree, baseTree, pastDeadline, taking, then, firstCommit,
                 reviewReport>>

PassGap ==
  /\ taking = "current" /\ ~staged /\ NoEntry(reviewed)
  /\ UNCHANGED <<reviewInputs, headTree, baseTree, pastDeadline, taking, found, accepted, now,
                 then, walkFailed, firstCommit, reviewReport>>

EndWalk ==
  /\ taking = "current" /\ ~staged /\ entry > PathCount
  /\ now' = IF pastDeadline THEN Incomplete(now) ELSE now
  /\ taking' = "reading" /\ entry' = 1
  /\ UNCHANGED <<reviewInputs, headTree, baseTree, pastDeadline, found, accepted, then,
                 walkFailed, firstCommit, reviewReport>>

ReadFound ==
  /\ taking = "reading" /\ entry \in found
  /\ IF pastDeadline
     THEN /\ now' = Omitted(now, Cardinality({p \in found : p >= entry}))
          /\ entry' = PathCount + 1
     ELSE /\ \/ entry \notin Supported /\ now' = now
             \/ /\ entry \in Supported
                /\ now' \in {Unreadable(now)}
                            \cup {Taken(now, p) : p \in {q \in {entry} : reviewed[q].text}}
          /\ entry' = entry + 1
  /\ UNCHANGED <<reviewInputs, headTree, baseTree, pastDeadline, taking, found, accepted, then,
                 walkFailed, firstCommit, reviewReport>>

PassUnfound ==
  /\ taking = "reading" /\ entry \in ReviewPaths \ found
  /\ entry' = entry + 1
  /\ UNCHANGED <<reviewInputs, headTree, baseTree, pastDeadline, taking, found, accepted, now,
                 then, walkFailed, firstCommit, reviewReport>>

\* SourceSnapshot::base: the tree that the diff was taken from; HEAD, if it was
\* unborn then.
ResolveBase == IF diffBase = {} THEN headTree ELSE CHOOSE t \in diffBase : TRUE

TurnToBase ==
  /\ taking = (IF staged THEN "current" ELSE "reading")
  /\ entry > PathCount
  /\ taking' = "base" /\ entry' = 1 /\ accepted' = 0
  /\ baseTree' = ResolveBase
  /\ UNCHANGED <<reviewInputs, headTree, pastDeadline, found, now, then, walkFailed,
                 firstCommit, reviewReport>>

(***************************************************************************)
(* The comparison.                                                         *)
(***************************************************************************)

\* catalog: identified by path, which stands for the fingerprint.
Findings(s, t) ==
  {[path |-> p, at |-> p, grade |-> t[p].grade] : p \in {q \in s.sources : t[q].grade > 0}}

\* mutant: findings keep the path that they had
RemapNothing(fs) == fs

\* remap_renames
Remap(fs) ==
  LET renamed(p) == {c \in changedFiles : c.status = "renamed" /\ c.old = p}
  IN {[f EXCEPT !.path = IF renamed(f.path) = {} THEN @
                         ELSE (CHOOSE c \in renamed(f.path) : TRUE).new] : f \in fs}

\* location_changed and old_location_changed
NewLinesChanged(f) == \E c \in changedFiles : c.new = f.path /\ c.newTouched
OldLinesChanged(f) ==
  \E c \in changedFiles :
    /\ c.old = f.path \/ (c.status = "renamed" /\ c.new = f.path)
    /\ c.oldTouched

\* compare and change_intersects
Delta(before, after) ==
  {[path |-> f.path, state |-> "new"] :
     f \in {a \in after : NewLinesChanged(a) /\ \A b \in before : b.path # a.path}}
  \cup
  {[path |-> f.path, state |-> "resolved"] :
     f \in {b \in before : OldLinesChanged(b) /\ \A a \in after : b.path # a.path}}
  \cup
  UNION {{[path |-> a.path, state |-> IF a.grade > b.grade THEN "worsened" ELSE "improved"] :
            b \in {x \in before : /\ x.path = a.path /\ x.grade # a.grade
                                  /\ NewLinesChanged(a) \/ OldLinesChanged(x)}} :
         a \in after}

Compare ==
  /\ taking = "base" /\ entry > PathCount
  /\ taking' = "reported"
  /\ reviewReport' = Delta(Remap(Findings(then, baseTree)), Findings(now, reviewed))
  /\ UNCHANGED <<reviewInputs, headTree, baseTree, pastDeadline, entry, found, accepted, now,
                 then, walkFailed, firstCommit>>

ReviewNext ==
  \/ TimePasses \/ Commit \/ ReadIndex \/ ReadBase \/ WalkFile \/ PassGap \/ EndWalk
  \/ ReadFound \/ PassUnfound \/ TurnToBase \/ Compare

ReviewSpec == ReviewInit /\ [][ReviewNext]_reviewVars

-------------------------------------------------------------------------------

Marked(s) == s.truncated \/ s.unreadable > 0

\* What became of the files between the tree of the diff and the current one, by
\* the changes that git reports.
DiffTree == IF diffBase = {} THEN Empty ELSE CHOOSE t \in diffBase : TRUE
GradeIn(t, p) == IF p \in Present(t) /\ p \in Supported THEN t[p].grade ELSE 0
Expected ==
  {[path |-> IF c.new = NoReviewPath THEN c.old ELSE c.new,
    state |-> LET b == GradeIn(DiffTree, c.old)
                  a == GradeIn(reviewed, c.new)
              IN IF b = 0 THEN "new" ELSE IF a = 0 THEN "resolved"
                 ELSE IF a > b THEN "worsened" ELSE "improved"]
     : c \in {x \in changedFiles :
                LET b == GradeIn(DiffTree, x.old)
                    a == GradeIn(reviewed, x.new)
                IN /\ a # b
                   /\ \/ a > 0 /\ x.newTouched
                      \/ b > 0 /\ x.oldTouched}}

(***************************************************************************)
(* What a review reports is true of the files as git tells them apart,     *)
(* whatever was read under which limit and however HEAD moves: a finding   *)
(* is not called new because its base was left out, nor resolved because   *)
(* it was left out itself, without a diagnostic that says so.  Two causes  *)
(* are not told: a file that the walk could not look at, and a first       *)
(* commit that comes after the diff.                                       *)
(***************************************************************************)
ReviewTrueOrMarked ==
  taking = "reported" =>
    \A c \in reviewReport \ Expected :
      \/ c.state = "new" /\ (Marked(then) \/ firstCommit)
      \/ c.state = "resolved" /\ (Marked(now) \/ walkFailed \/ firstCommit)
      \/ c.state \in {"worsened", "improved"} /\ firstCommit

(***************************************************************************)
(* A change that a review leaves out is one that a diagnostic of its       *)
(* snapshots can account for.                                              *)
(***************************************************************************)
ReviewCompleteOrMarked ==
  taking = "reported" /\ ~Marked(now) /\ ~Marked(then) /\ ~walkFailed /\ ~firstCommit
    => Expected \subseteq reviewReport

(***************************************************************************)
(* Each file of a language that is not in a snapshot is in one of its      *)
(* counters, which are only too low if the snapshot says so.               *)
(***************************************************************************)
Uncounted(s, t) ==
  Cardinality((Present(t) \cap Supported) \ s.sources)
    > s.unreadable + s.oversized + s.omitted

SnapshotsAccounted ==
  /\ taking \in {"base", "reported"} /\ ~walkFailed =>
       (Uncounted(now, reviewed) => now.incomplete)
  /\ taking = "reported" => (Uncounted(then, baseTree) => then.incomplete)

(***************************************************************************)
(* A review reports what changed, all of it, or says what it is missing.   *)
(***************************************************************************)
ReviewSound ==
  /\ ReviewTrueOrMarked
  /\ ReviewCompleteOrMarked
  /\ SnapshotsAccounted
===============================================================================
