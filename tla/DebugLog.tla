-------------------------------- MODULE DebugLog --------------------------------
(***************************************************************************)
(* The debug log of src/debug_log.rs: threads that append records to one   *)
(* file under a lock, a heartbeat thread that tells what was logged last,  *)
(* panics that must not wait for the lock, and writes that fail midway; a  *)
(* failed write is told on stderr, once, which is left out.                *)
(* A record is two pieces, its head and the tail that ends its line.       *)
(***************************************************************************)
EXTENDS Naturals, Integers, Sequences, FiniteSets, SequencesExt

CONSTANTS
  Workers,   \* threads of the run that log events
  MaxEvents, \* bound of the model: events of all workers together
  MaxBeats,  \* bound of the model: heartbeats
  MaxFaults  \* bound of the model: writes that fail

Main == "main"
Heart == "heartbeat"
Threads == Workers \cup {Main, Heart}
Free == "free"

\* The main thread and the heartbeat's are no workers.
ASSUME LogAssumption ==
  /\ {Main, Heart, Free} \cap Workers = {}
  /\ MaxEvents \in Nat /\ MaxBeats \in Nat /\ MaxFaults \in Nat

NoRecord == -1

VARIABLES
  holder,    \* who holds the writer's lock
  doing,     \* where each thread is in write_event
  event,     \* per thread the event at hand: [name, emergency, number, told]
  sequence,  \* DebugLogger.sequence
  logFile,   \* pieces of the file, in their order
  buffer,    \* BufWriter: pieces that are not in the file yet
  records,   \* all events that took a number, with [name, emergency, told, ok]
  activity,  \* number of the last event noted, NoRecord at first
  session,   \* "started", "beating", "stopping", "ended"
  stopSent,  \* the message in the stop channel
  faults

logVars == <<holder, doing, event, sequence, logFile, buffer, records, activity, session,
             stopSent, faults>>

LogRecord(name, emergency, last) ==
  [name |-> name, emergency |-> emergency, number |-> NoRecord, told |-> last]
NoEvent == LogRecord("none", FALSE, NoRecord)

Pieces(n) == <<<<n, "head">>, <<n, "tail">>>>

LogInit ==
  /\ holder = Free
  /\ doing = [t \in Threads |-> "idle"]
  /\ event = [t \in Threads |-> NoEvent]
  /\ sequence = 0 /\ logFile = <<>> /\ buffer = <<>> /\ records = <<>>
  /\ activity = NoRecord
  /\ session = "started" /\ stopSent = FALSE /\ faults = 0

-------------------------------------------------------------------------------
(* write_event *)

Begin(t, name, emergency, last) ==
  /\ doing[t] = "idle"
  /\ event' = [event EXCEPT ![t] = LogRecord(name, emergency, last)]
  /\ doing' = [doing EXCEPT ![t] = "asking"]

\* lock, or try_lock in an emergency
Acquire(t) ==
  /\ doing[t] = "asking" /\ holder = Free
  /\ holder' = t
  /\ doing' = [doing EXCEPT ![t] = "numbering"]
  /\ UNCHANGED <<event, sequence, logFile, buffer, records, activity, session, stopSent,
                 faults>>

\* In an emergency another holder is not waited for.
FallBack(t) ==
  /\ doing[t] = "asking" /\ event[t].emergency /\ holder # Free
  /\ doing' = [doing EXCEPT ![t] = "numbering"]
  /\ UNCHANGED <<holder, event, sequence, logFile, buffer, records, activity, session,
                 stopSent, faults>>

\* fetch_add; records are kept in a sequence, of which the first has number 0
Number(t) ==
  /\ doing[t] = "numbering"
  /\ event' = [event EXCEPT ![t].number = sequence]
  /\ sequence' = sequence + 1
  /\ records' = Append(records, [name |-> event[t].name, emergency |-> event[t].emergency,
                                 told |-> event[t].told, ok |-> FALSE])
  /\ doing' = [doing EXCEPT ![t] = "writing"]
  /\ UNCHANGED <<holder, logFile, buffer, activity, session, stopSent, faults>>

Wrote(t) ==
  /\ records' = [records EXCEPT ![event[t].number + 1].ok = TRUE]
  /\ doing' = [doing EXCEPT ![t] = "noting"]
  /\ UNCHANGED faults

Failed(t) ==
  /\ faults < MaxFaults /\ faults' = faults + 1
  /\ doing' = [doing EXCEPT ![t] = "leaving"]
  /\ UNCHANGED records

\* write_all and flush: what an earlier failure left in the buffer goes first.
\* A failure may come after any piece.  The rest stays in the buffer, but not
\* that of a record which does not fit into it.
WriteLocked(t) ==
  /\ doing[t] = "writing" /\ holder = t
  /\ LET all == buffer \o Pieces(event[t].number)
     IN \/ /\ logFile' = logFile \o all /\ buffer' = <<>>
           /\ Wrote(t)
        \/ \E n \in 0..Len(all) - 1 :
             /\ logFile' = logFile \o SubSeq(all, 1, n)
             /\ buffer' \in {SubSeq(all, n + 1, Len(all)), SubSeq(buffer, n + 1, Len(buffer))}
             /\ Failed(t)
  /\ UNCHANGED <<holder, event, sequence, activity, session, stopSent>>

\* write_fallback: a file of its own, opened to append
WriteFallback(t) ==
  /\ doing[t] = "writing" /\ holder # t
  /\ \/ logFile' = logFile \o Pieces(event[t].number) /\ Wrote(t)
     \/ \E n \in 0..1 : logFile' = logFile \o SubSeq(Pieces(event[t].number), 1, n) /\ Failed(t)
  /\ UNCHANGED <<holder, event, sequence, buffer, activity, session, stopSent>>

\* note_activity
NoteActivity(t) ==
  /\ doing[t] = "noting"
  /\ activity' = IF event[t].name = Heart THEN activity ELSE event[t].number
  /\ doing' = [doing EXCEPT ![t] = "leaving"]
  /\ UNCHANGED <<holder, event, sequence, logFile, buffer, records, session, stopSent,
                 faults>>

\* After an emergency comes sync_data: the record is in the file already.
Leave(t) ==
  /\ doing[t] = "leaving"
  /\ holder' = IF holder = t THEN Free ELSE holder
  /\ doing' = [doing EXCEPT ![t] = IF event[t].emergency \/ event[t].name = "session_end" THEN "ended"
                             ELSE "idle"]
  /\ event' = [event EXCEPT ![t] = NoEvent]
  /\ UNCHANGED <<sequence, logFile, buffer, records, activity, session, stopSent, faults>>

WriteEvent(t) ==
  Acquire(t) \/ FallBack(t) \/ Number(t) \/ WriteLocked(t) \/ WriteFallback(t) \/ NoteActivity(t) \/ Leave(t)

-------------------------------------------------------------------------------
(* Session, Heartbeat and the panic hook *)

\* Session::start logs before the heartbeat thread runs.
StartSession ==
  /\ session = "started"
  /\ Begin(Main, "session_start", FALSE, NoRecord)
  /\ session' = "beating"
  /\ UNCHANGED <<holder, sequence, logFile, buffer, records, activity, stopSent, faults>>

Running == session = "beating" /\ doing[Main] = "idle"
InTotal(names) == Cardinality({i \in DOMAIN records : records[i].name \in names})
                    + Cardinality({t \in Threads : event[t].name \in names /\ event[t].number = NoRecord})

LogEvent(t) ==
  /\ Running /\ t \in Workers
  /\ InTotal({"event", "panic"}) < MaxEvents
  /\ Begin(t, "event", FALSE, NoRecord)
  /\ UNCHANGED <<holder, sequence, logFile, buffer, records, activity, session, stopSent,
                 faults>>

\* The panic hook: the thread ends afterwards.
Panic(t) ==
  /\ Running /\ t \in Workers
  /\ InTotal({"event", "panic"}) < MaxEvents
  /\ Begin(t, "panic", TRUE, NoRecord)
  /\ UNCHANGED <<holder, sequence, logFile, buffer, records, activity, session, stopSent,
                 faults>>

\* heartbeat_loop: the activity is read before the lock is asked for.
Beat ==
  /\ Running
  /\ InTotal({Heart}) < MaxBeats
  /\ Begin(Heart, Heart, FALSE, activity)
  /\ UNCHANGED <<holder, sequence, logFile, buffer, records, activity, session, stopSent,
                 faults>>

\* real_main returned, or unwinds with a worker's panic: stop_heartbeat.
StopHeartbeat ==
  /\ Running /\ \A t \in Workers : doing[t] \in {"idle", "ended"}
  /\ session' = "stopping" /\ stopSent' = TRUE
  /\ UNCHANGED <<holder, doing, event, sequence, logFile, buffer, records, activity, faults>>

HeartStops ==
  /\ stopSent /\ doing[Heart] = "idle"
  /\ stopSent' = FALSE
  /\ doing' = [doing EXCEPT ![Heart] = "ended"]
  /\ UNCHANGED <<holder, event, sequence, logFile, buffer, records, activity, session,
                 faults>>

\* After a panic the outcome is told only if the panic was caught: not by a
\* thread that unwinds.
TellOutcome ==
  \/ (\E t \in Workers : doing[t] = "ended") /\ UNCHANGED <<doing, event>>
  \/ Begin(Main, "session_end", FALSE, NoRecord)

\* mutant: the heartbeat is not joined
EndUnjoined ==
  /\ session = "stopping" /\ doing[Main] = "idle"
  /\ session' = "ended"
  /\ TellOutcome
  /\ UNCHANGED <<holder, sequence, logFile, buffer, records, activity, stopSent, faults>>

\* handle.join, then the outcome
EndSession ==
  /\ session = "stopping" /\ doing[Heart] = "ended" /\ doing[Main] = "idle"
  /\ session' = "ended"
  /\ TellOutcome
  /\ UNCHANGED <<holder, sequence, logFile, buffer, records, activity, stopSent, faults>>

LogNext ==
  \/ StartSession \/ Beat \/ StopHeartbeat \/ HeartStops \/ EndSession
  \/ \E t \in Workers : LogEvent(t) \/ Panic(t)
  \/ \E t \in Threads : WriteEvent(t)

LogSpec == LogInit /\ [][LogNext]_logVars

-------------------------------------------------------------------------------

Position(piece) == CHOOSE i \in DOMAIN logFile : logFile[i] = piece
InFile(n) == Range(Pieces(n)) \subseteq Range(logFile)

\* A line of its own: what is before it ended its line.
OwnLine(n) ==
  /\ InFile(n)
  /\ LET i == Position(<<n, "head">>)
     IN /\ i + 1 \in DOMAIN logFile /\ logFile[i + 1] = <<n, "tail">>
        /\ i > 1 => logFile[i - 1][2] = "tail"

Written == {n \in 0..sequence - 1 : records[n + 1].ok}

(***************************************************************************)
(* A record whose write succeeded is on a line of its own, and each failed *)
(* write spoils one of them at most, whoever writes past the lock.         *)
(***************************************************************************)
DamageBounded == Cardinality({n \in Written : ~OwnLine(n)}) <= faults

(***************************************************************************)
(* The event that a heartbeat tells of was in the file before it, and is   *)
(* no heartbeat.                                                           *)
(***************************************************************************)
HeartbeatsTellTrue ==
  \A n \in Written : records[n + 1].name = Heart /\ records[n + 1].told # NoRecord =>
    LET last == records[n + 1].told
    IN last \in Written /\ records[last + 1].name # Heart
         /\ Position(<<last, "tail">>) < Position(<<n, "head">>)

(***************************************************************************)
(* Only the record of a panic that did not get the lock may be out of      *)
(* order, and nothing follows the end of a session.                        *)
(***************************************************************************)
RecordsInOrder ==
  \A m, n \in Written : m < n =>
    /\ records[m + 1].name # "session_end"
    /\ ~records[m + 1].emergency /\ ~records[n + 1].emergency
         => Position(<<m, "head">>) < Position(<<n, "head">>)

(***************************************************************************)
(* Write failures, panics and heartbeats leave a log that can be read.     *)
(***************************************************************************)
LogSound ==
  /\ DamageBounded
  /\ HeartbeatsTellTrue
  /\ RecordsInOrder
===================================================================================
