------------------------------- MODULE GitStream -------------------------------
(***************************************************************************)
(* NativeGit::collect_events of src/git/native_churn.rs: `git diff-tree    *)
(* --stdin` is fed by a writer thread, read by the parser on the calling   *)
(* thread and watched by a watchdog that kills it at the deadline.  Pipes  *)
(* are bounded; the child may stop working at any point, end early, or     *)
(* leave a record unfinished.                                              *)
(***************************************************************************)
EXTENDS Naturals, Sequences, SequencesExt

CONSTANTS
  Requests,      \* possible requests: for every commit, in order, its deltas
  PipeSize,      \* records that a pipe holds
  MaxPerCommit,  \* max_deltas_per_commit
  MaxDeltas      \* max_total_deltas

ASSUME StreamAssumption ==
  /\ Requests \subseteq Seq(Nat) \ {<<>>}
  /\ {PipeSize, MaxPerCommit, MaxDeltas} \subseteq Nat \ {0}

Header(c) == [kind |-> "header", commit |-> c]
Delta == [kind |-> "delta"]
Torn == [kind |-> "torn"]       \* a field without its end

VARIABLES
  deltas,    \* the request: the deltas that every commit of it has
  expired,      \* the deadline has passed
  writer,    \* the next header to write, or "ended"
  stdin,     \* headers in the child's input
  stdout,    \* records in the child's output
  child,     \* running, hung, succeeded, failed or killed
  pending,   \* what the child has still to say about the headers it read
  watchdog,  \* watching, dismissed or fired
  main,      \* where the calling thread is
  events,    \* the deltas kept of every commit that was read
  kept,      \* deltas kept of the commit that is being read
  partial,   \* NativeStreamStats.partial
  reaped,    \* the child was waited for: its pid may name another process
  result,    \* none, whole, partial or error
  strayKill  \* history: a kill was sent to a pid after it was reaped

streamVars == <<deltas, expired, writer, stdin, stdout, child, pending, watchdog, main,
                events, kept, partial, reaped, result, strayKill>>

NoCommit == -1

StreamInit ==
  /\ deltas \in Requests
  /\ expired = FALSE
  /\ writer = 1
  /\ stdin = <<>> /\ stdout = <<>>
  /\ child = "running" /\ pending = <<>>
  /\ watchdog = "watching" /\ main = "deciding"
  /\ events = <<>> /\ kept = NoCommit /\ partial = FALSE
  /\ reaped = FALSE /\ result = "none" /\ strayKill = FALSE

Parsing == main \in {"deciding", "reading", "draining"}

Alive == child \in {"running", "hung"}

DeadlineExpires ==
  /\ ~expired /\ expired' = TRUE
  /\ UNCHANGED <<deltas, writer, stdin, stdout, child, pending, watchdog, main,
                 events, kept, partial, reaped, result, strayKill>>

-----------------------------------------------------------------------------
\* The writer thread: a full pipe blocks it, a dead reader ends it.
Write ==
  /\ writer <= Len(deltas)
  /\ \/ /\ Alive /\ Len(stdin) < PipeSize
        /\ stdin' = Append(stdin, writer)
        /\ writer' = writer + 1
     \/ /\ ~Alive
        /\ writer' = Len(deltas) + 2
        /\ UNCHANGED stdin
  /\ UNCHANGED <<deltas, expired, stdout, child, pending, watchdog, main, events, kept,
                 partial, reaped, result, strayKill>>

WriterEnded == writer > Len(deltas)
WriteFailed == writer > Len(deltas) + 1

\* The child, external.
ChildReads ==
  /\ child = "running" /\ pending = <<>> /\ stdin # <<>>
  /\ pending' = <<Header(Head(stdin))>> \o [i \in 1..deltas[Head(stdin)] |-> Delta]
  /\ stdin' = Tail(stdin)
  /\ UNCHANGED <<deltas, expired, writer, stdout, child, watchdog, main, events, kept,
                 partial, reaped, result, strayKill>>

\* Writing to a pipe that nobody reads any more ends it.
ChildWrites ==
  /\ child = "running" /\ pending # <<>>
  /\ \/ /\ Parsing /\ Len(stdout) < PipeSize
        /\ stdout' = Append(stdout, Head(pending))
        /\ pending' = Tail(pending)
        /\ UNCHANGED child
     \/ /\ ~Parsing
        /\ child' = "failed"
        /\ UNCHANGED <<stdout, pending>>
  /\ UNCHANGED <<deltas, expired, writer, stdin, watchdog, main, events, kept, partial,
                 reaped, result, strayKill>>

ChildFinishes ==
  /\ child = "running" /\ pending = <<>> /\ stdin = <<>> /\ WriterEnded
  /\ child' = "succeeded"
  /\ UNCHANGED <<deltas, expired, writer, stdin, stdout, pending, watchdog, main, events,
                 kept, partial, reaped, result, strayKill>>

ChildBreaks ==
  /\ child = "running"
  /\ \/ child' = "hung" /\ UNCHANGED stdout
     \/ child' = "failed" /\ UNCHANGED stdout
     \/ /\ child' = "failed" /\ pending # <<>> /\ Len(stdout) < PipeSize
        /\ stdout' = Append(stdout, Torn)
  /\ UNCHANGED <<deltas, expired, writer, stdin, pending, watchdog, main, events, kept,
                 partial, reaped, result, strayKill>>

-----------------------------------------------------------------------------
\* mutant: the watchdog reports the deadline and leaves the child alone
FireBlank ==
  /\ watchdog = "watching" /\ expired
  /\ watchdog' = "fired"
  /\ UNCHANGED <<deltas, expired, writer, stdin, stdout, child, pending, main,
                 events, kept, partial, reaped, result, strayKill>>

\* The watchdog looks at the deadline before it looks at its channel.
Fire ==
  /\ watchdog = "watching" /\ expired
  /\ watchdog' = "fired"
  /\ child' = IF Alive THEN "killed" ELSE child
  /\ strayKill' = (strayKill \/ reaped)
  /\ UNCHANGED <<deltas, expired, writer, stdin, stdout, pending, main, events, kept,
                 partial, reaped, result>>

Dismiss ==
  /\ watchdog = "watching" /\ ~Parsing
  /\ watchdog' = "dismissed"
  /\ UNCHANGED <<deltas, expired, writer, stdin, stdout, child, pending, main, events,
                 kept, partial, reaped, result, strayKill>>

-----------------------------------------------------------------------------
\* The parser.  It looks at the deadline and the limits at the head of its
\* loops and blocks inside a read while the pipe is empty and its writer lives.
AtEnd == stdout = <<>> /\ ~Alive
Readable == stdout # <<>> \/ AtEnd
Ahead == IF stdout # <<>> THEN Head(stdout).kind ELSE "end"

Sum(counts) == FoldLeft(LAMBDA sum, n : sum + n, 0, counts)
Unread == Len(events) < Len(deltas)
AtLimit == Sum(events) + kept >= MaxDeltas \/ kept >= MaxPerCommit

\* What no step of the parser changes; its return closes the child's output.
Parser(place) ==
  /\ main' = place
  /\ UNCHANGED <<deltas, expired, writer, stdin, child, pending, watchdog, reaped,
                 result, strayKill>>

\* stop_before_commit
StopBeforeCommit ==
  /\ main = "deciding" /\ kept = NoCommit /\ Unread
  /\ expired \/ Sum(events) >= MaxDeltas
  /\ partial' = TRUE
  /\ Parser("parsed")
  /\ UNCHANGED <<stdout, events, kept>>

\* A commit's deltas end; a parse that is partial ends with them.
EventRead(truncated) ==
  /\ events' = Append(events, kept)
  /\ kept' = NoCommit
  /\ partial' = (partial \/ truncated)
  /\ Parser(IF partial' THEN "parsed" ELSE "deciding")

\* read_deltas at the head of its loop, after the deadline
StopInCommit ==
  /\ main = "deciding" /\ kept # NoCommit
  /\ expired
  /\ EventRead(TRUE)
  /\ UNCHANGED stdout

\* Neither the deadline nor a limit holds the next read up.
GoOn ==
  /\ main = "deciding"
  /\ Unread => ~expired
  /\ Unread /\ kept = NoCommit => Sum(events) < MaxDeltas
  /\ Parser(IF kept # NoCommit /\ AtLimit THEN "draining" ELSE "reading")
  /\ UNCHANGED <<stdout, events, kept, partial>>

ReadHeader ==
  /\ main = "reading" /\ kept = NoCommit /\ Unread /\ Readable
  /\ \/ /\ Ahead = "header" /\ Head(stdout).commit = Len(events) + 1
        /\ stdout' = Tail(stdout)
        /\ kept' = 0
        /\ Parser("deciding")
     \/ /\ Ahead = "header" => Head(stdout).commit # Len(events) + 1
        /\ Parser("rejected")
        /\ UNCHANGED <<stdout, kept>>
  /\ UNCHANGED <<events, partial>>

\* max_output_bytes runs out, wherever that is: before a header is complete
\* no event is made.
OutOfBytes ==
  /\ \/ main = "deciding" /\ Unread
     \/ main \in {"reading", "draining"} /\ Unread /\ stdout # <<>>
  /\ partial' = TRUE
  /\ events' = IF kept = NoCommit THEN events ELSE Append(events, kept)
  /\ kept' = NoCommit
  /\ Parser("parsed")
  /\ UNCHANGED stdout

\* Below the limits.  A path that is too long is skipped and makes the parse
\* partial, and then the next field ends the commit whatever it is.
ReadDelta ==
  /\ main = "reading" /\ kept # NoCommit /\ Readable
  /\ \/ /\ Ahead = "delta" /\ ~partial
        /\ stdout' = Tail(stdout)
        /\ \/ kept' = kept + 1 /\ UNCHANGED partial
           \/ partial' = TRUE /\ UNCHANGED kept
        /\ Parser("deciding")
        /\ UNCHANGED events
     \/ /\ Ahead = "delta" /\ partial
        /\ stdout' = Tail(stdout)
        /\ EventRead(TRUE)
     \/ /\ Ahead \in {"header", "end"}
        /\ EventRead(FALSE)
        /\ UNCHANGED stdout
     \/ /\ Ahead = "torn"
        /\ Parser("rejected")
        /\ UNCHANGED <<stdout, events, kept, partial>>

\* mutant: the deltas beyond a limit are dropped without a word
DrainQuietly ==
  /\ main = "draining" /\ Readable
  /\ \/ /\ Ahead = "delta"
        /\ stdout' = Tail(stdout)
        /\ Parser("draining")
        /\ UNCHANGED <<events, kept, partial>>
     \/ /\ Ahead \in {"header", "end"}
        /\ EventRead(FALSE)
        /\ UNCHANGED stdout

\* drain_commit_deltas: no deadline here, the watchdog's kill ends it.
DrainDeltas ==
  /\ main = "draining" /\ Readable
  /\ \/ /\ Ahead = "delta"
        /\ stdout' = Tail(stdout)
        /\ partial' = TRUE
        /\ Parser("draining")
        /\ UNCHANGED <<events, kept>>
     \/ /\ Ahead \in {"header", "end"}
        /\ EventRead(FALSE)
        /\ UNCHANGED stdout
     \/ /\ Ahead = "torn"
        /\ Parser("rejected")
        /\ UNCHANGED <<stdout, events, kept, partial>>

\* All commits were read: the stream has to end here.
ReadEnd ==
  /\ main = "reading" /\ ~Unread /\ Readable
  /\ Parser(IF AtEnd THEN "parsed" ELSE "rejected")
  /\ UNCHANGED <<stdout, events, kept, partial>>

-----------------------------------------------------------------------------
\* The calling thread after the parse; `partial` is stats.partial throughout.
Proceed(place) ==
  /\ main' = place
  /\ UNCHANGED <<deltas, expired, writer, stdin, stdout, pending, watchdog, kept,
                 strayKill>>

\* watchdog.join(), what became of the parse, and child.kill().
JoinWatchdog ==
  /\ main \in {"parsed", "rejected"} /\ watchdog # "watching"
  /\ LET fired == watchdog = "fired"
         usable == main = "parsed" \/ fired
     IN /\ partial' = (fired \/ (partial /\ main = "parsed"))
        /\ events' = IF main = "rejected" THEN <<>> ELSE events
        /\ child' = IF Alive /\ (partial' \/ ~usable) THEN "killed" ELSE child
        /\ Proceed(IF usable THEN "waiting" ELSE "cleaning")
  /\ UNCHANGED <<reaped, result>>

WaitForChild ==
  /\ main \in {"waiting", "cleaning"} /\ ~reaped /\ ~Alive
  /\ reaped' = TRUE
  /\ Proceed(main)
  /\ UNCHANGED <<child, events, partial, result>>

\* writer.join(), the exit status and the writer's error.
Return ==
  /\ main \in {"waiting", "cleaning"} /\ reaped /\ WriterEnded
  /\ result' = CASE main = "cleaning" -> "error"
                 [] main = "waiting" /\ partial -> "partial"
                 [] OTHER -> IF child = "succeeded" /\ ~WriteFailed
                             THEN "whole" ELSE "error"
  /\ Proceed("returned")
  /\ UNCHANGED <<child, events, partial, reaped>>

ChildStep == ChildReads \/ ChildWrites \/ ChildFinishes \/ ChildBreaks
WatchdogStep == Fire \/ Dismiss
MainStep ==
  \/ StopBeforeCommit \/ StopInCommit \/ GoOn \/ ReadHeader \/ ReadDelta
  \/ DrainDeltas \/ ReadEnd \/ OutOfBytes \/ JoinWatchdog \/ WaitForChild
  \/ Return

StreamNext == DeadlineExpires \/ Write \/ ChildStep \/ WatchdogStep \/ MainStep

StreamSpec == StreamInit /\ [][StreamNext]_streamVars

\* Threads run and time passes; nothing is assumed of the child.
StreamFairness ==
  /\ WF_streamVars(DeadlineExpires) /\ WF_streamVars(Write)
  /\ WF_streamVars(WatchdogStep) /\ WF_streamVars(MainStep)

FairStreamSpec == StreamSpec /\ StreamFairness

(***************************************************************************)
(* The types of all variables.                                             *)
(***************************************************************************)
StreamTypeOK ==
  /\ expired \in BOOLEAN /\ partial \in BOOLEAN /\ reaped \in BOOLEAN
  /\ strayKill \in BOOLEAN
  /\ writer \in 1..(Len(deltas) + 2)
  /\ stdin \in Seq(1..Len(deltas)) /\ Len(stdin) <= PipeSize
  /\ stdout \in Seq({Header(c) : c \in 1..Len(deltas)} \cup {Delta, Torn})
  /\ Len(stdout) <= PipeSize
  /\ child \in {"running", "hung", "succeeded", "failed", "killed"}
  /\ watchdog \in {"watching", "dismissed", "fired"}
  /\ main \in {"deciding", "reading", "draining", "parsed", "rejected",
              "waiting", "cleaning", "returned"}
  /\ events \in Seq(Nat) /\ Len(events) <= Len(deltas)
  /\ kept \in Nat \cup {NoCommit}
  /\ result \in {"none", "whole", "partial", "error"}

(***************************************************************************)
(* A result that is not marked partial holds every delta of every commit,  *)
(* and in a partial one only the last commit can lack some: whatever the   *)
(* child, the limits and the deadline did, and in whatever order.          *)
(***************************************************************************)
WholeOrMarked ==
  /\ result = "whole" => events = deltas
  /\ result = "partial" =>
       \A c \in 1..Len(events) :
         /\ events[c] <= deltas[c]
         /\ c < Len(events) => events[c] = deltas[c]

(***************************************************************************)
(* When the watchdog killed the child at the deadline the result is        *)
(* partial: never an error, and never taken for whole.                     *)
(***************************************************************************)
DeadlineIsPartial ==
  watchdog = "fired" /\ main = "returned" => result = "partial"

(***************************************************************************)
(* No kill goes to a pid that was waited for and may name another process. *)
(***************************************************************************)
KillsOnlyItsChild == ~strayKill

(***************************************************************************)
(* collect_events returns, even if the child hangs with full pipes.        *)
(***************************************************************************)
StreamEnds == <>(main = "returned")

(***************************************************************************)
(* However the child, its pipes and the watchdog race, what collect_events *)
(* returns is whole or marked, and no other process is killed.             *)
(***************************************************************************)
StreamSound ==
  /\ StreamTypeOK
  /\ WholeOrMarked
  /\ DeadlineIsPartial
  /\ KillsOnlyItsChild
===============================================================================
