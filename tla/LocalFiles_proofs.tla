--------------------------- MODULE LocalFiles_proofs ---------------------------
(***************************************************************************)
(* Proofs about what RepoScout keeps on the user's machine, for every      *)
(* number of processes and threads.  DebugLog: failed writes, panics and   *)
(* heartbeats leave a log that can be read.  Updater: an update that runs  *)
(* alone leaves a pair of executable and receipt, restores what was        *)
(* installed, and never installs over a pair that disagrees.  DaemonToken: *)
(* the token file is whole, and it is the serving daemon's.                *)
(* AnalysisCache, with the AtomicFile it saves through: nothing is served  *)
(* for content it was not computed from, and readers of the cache file     *)
(* find it absent or whole.  ChurnHistory: churn that is answered or       *)
(* cached is that of the history it is told of.                            *)
(***************************************************************************)
EXTENDS Updater, DaemonToken, AnalysisCache, DebugLog, ChurnHistory, SetInduction,
        FiniteSetTheorems, FunctionTheorems, TLAPS

-------------------------------------------------------------------------------
(* DebugLog: the log can be read.                                         *)

LogPlaces == {"idle", "asking", "numbering", "writing", "noting", "leaving", "ended"}
Names == {"none", "session_start", "session_end", "event", "panic", Heart}
LogEvents == [name : Names, emergency : BOOLEAN, number : Nat \cup {NoRecord},
              told : Nat \cup {NoRecord}]
LogRecords == [name : Names, emergency : BOOLEAN, told : Nat \cup {NoRecord}, ok : BOOLEAN]
LogPieces == Nat \X {"head", "tail"}

LogTypeOK ==
  /\ holder \in Threads \cup {Free}
  /\ doing \in [Threads -> LogPlaces]
  /\ event \in [Threads -> LogEvents]
  /\ sequence \in Nat
  /\ logFile \in Seq(LogPieces) /\ buffer \in Seq(LogPieces)
  /\ records \in Seq(LogRecords) /\ Len(records) = sequence
  /\ activity \in Nat \cup {NoRecord}
  /\ session \in {"started", "beating", "stopping", "ended"}
  /\ stopSent \in BOOLEAN /\ faults \in Nat

InHand == {"writing", "noting", "leaving"}

\* A thread with a record in hand has one of its own, which agrees with its event.
ThreadsInv ==
  /\ \A t \in Threads : doing[t] \in InHand =>
       /\ event[t].number \in 0..(sequence - 1)
       /\ records[event[t].number + 1].name = event[t].name
       /\ records[event[t].number + 1].emergency = event[t].emergency
       /\ records[event[t].number + 1].told = event[t].told
       /\ doing[t] = "writing" => ~records[event[t].number + 1].ok
       /\ doing[t] = "noting" => records[event[t].number + 1].ok
  /\ \A t, u \in Threads :
       t # u /\ doing[t] \in InHand /\ doing[u] \in InHand => event[t].number # event[u].number

\* Only an emergency goes past the lock.
LockInv ==
  \A t \in Threads : doing[t] \in InHand \cup {"numbering"} => holder = t \/ event[t].emergency

\* The records that are being written.
Writing == {event[t].number : t \in {u \in Threads : doing[u] = "writing"}}

\* Each piece is in one place of the file or the buffer, and not before its
\* record is written; the buffer holds what failed; what did not is together.
PiecesInv ==
  /\ \A i, j \in DOMAIN logFile : logFile[i] = logFile[j] => i = j
  /\ \A i, j \in DOMAIN buffer : buffer[i] = buffer[j] => i = j
  /\ \A i \in DOMAIN logFile : \A j \in DOMAIN buffer : logFile[i] # buffer[j]
  /\ \A i \in DOMAIN logFile : logFile[i][1] \in (0..(sequence - 1)) \ Writing
  /\ \A j \in DOMAIN buffer : buffer[j][1] \in (0..(sequence - 1)) \ (Writing \cup Written)
  /\ \A n \in Written : \E i \in DOMAIN logFile :
       i + 1 \in DOMAIN logFile /\ logFile[i] = <<n, "head">> /\ logFile[i + 1] = <<n, "tail">>

\* The records whose write failed are no more than the faults.
Failing == ((0..(sequence - 1)) \ Written) \ Writing
FaultsInv == Cardinality(Failing) <= faults

\* Whatever is told was written, and is no heartbeat.
Tellable == {NoRecord} \cup {n \in Written : records[n + 1].name # Heart}
ToldInv ==
  /\ activity \in Tellable
  /\ \A t \in Threads : event[t].told \in Tellable
  /\ \A n \in 0..(sequence - 1) : records[n + 1].told \in Tellable

\* It is in the file before the heartbeat that tells it.
AheadInv ==
  \A n \in Written : records[n + 1].name = Heart /\ records[n + 1].told # NoRecord =>
    \A i, j \in DOMAIN logFile :
      logFile[i] = <<records[n + 1].told, "tail">> /\ logFile[j] = <<n, "head">> => i < j

\* While the lock is held to write, only emergencies take a number; so the
\* others are in the file in the order of their numbers.
OrderInv ==
  /\ \A t \in Threads : doing[t] = "writing" /\ ~event[t].emergency =>
       \A n \in 0..(sequence - 1) : n > event[t].number => records[n + 1].emergency
  /\ \A m, n \in Written : m < n /\ ~records[m + 1].emergency /\ ~records[n + 1].emergency =>
       \A i, j \in DOMAIN logFile :
         logFile[i] = <<m, "head">> /\ logFile[j] = <<n, "head">> => i < j

\* Nobody logs once the main thread tells the end.
SessionInv ==
  /\ session \in {"stopping", "ended"} => \A t \in Workers : doing[t] \in {"idle", "ended"}
  /\ session = "ended" => doing[Heart] = "ended"
  /\ \A t \in Threads : doing[t] \notin {"idle", "ended"} /\ event[t].name = "session_end" =>
       t = Main /\ session = "ended"
  /\ \A n \in 0..(sequence - 1) : records[n + 1].name = "session_end" =>
       n = sequence - 1 /\ session = "ended" /\ doing[Main] \notin {"asking", "numbering"}

LogInv ==
  /\ LogTypeOK /\ ThreadsInv /\ LockInv /\ PiecesInv /\ FaultsInv
  /\ ToldInv /\ AheadInv /\ OrderInv /\ SessionInv

-------------------------------------------------------------------------------
\* The first and the last part of a sequence, by their places.
LEMMA FirstOf ==
  ASSUME NEW S, NEW s \in Seq(S), NEW k \in 0..Len(s)
  PROVE  /\ SubSeq(s, 1, k) \in Seq(S) /\ Len(SubSeq(s, 1, k)) = k
         /\ \A i \in 1..k : SubSeq(s, 1, k)[i] = s[i]
OBVIOUS

LEMMA RestOf ==
  ASSUME NEW S, NEW s \in Seq(S), NEW k \in 0..Len(s)
  PROVE  /\ SubSeq(s, k + 1, Len(s)) \in Seq(S) /\ Len(SubSeq(s, k + 1, Len(s))) = Len(s) - k
         /\ \A i \in 1..(Len(s) - k) : SubSeq(s, k + 1, Len(s))[i] = s[k + i]
OBVIOUS

\* Two sequences in a row, by their places.
LEMMA InARow ==
  ASSUME NEW S, NEW s \in Seq(S), NEW u \in Seq(S)
  PROVE  /\ s \o u \in Seq(S) /\ Len(s \o u) = Len(s) + Len(u)
         /\ \A i \in 1..Len(s) : (s \o u)[i] = s[i]
         /\ \A i \in 1..Len(u) : (s \o u)[Len(s) + i] = u[i]
OBVIOUS

\* The two pieces of a record.
LEMMA PiecesOf ==
  ASSUME NEW n \in Nat
  PROVE  /\ Pieces(n) \in Seq(LogPieces) /\ Len(Pieces(n)) = 2
         /\ Pieces(n)[1] = <<n, "head">> /\ Pieces(n)[2] = <<n, "tail">>
BY DEF Pieces, LogPieces

\* Steps that do not write keep what is said of the file and the buffer.
Quiet ==
  /\ UNCHANGED <<sequence, logFile, buffer, records, faults>>
  /\ \A t \in Threads : /\ doing'[t] = "writing" <=> doing[t] = "writing"
                        /\ doing[t] = "writing" => event'[t] = event[t]

LEMMA QuietKeeps ==
  ASSUME LogInv, Quiet
  PROVE  PiecesInv' /\ FaultsInv' /\ AheadInv' /\ OrderInv'
<1>1. Writing' = Writing /\ Written' = Written
  BY DEF Quiet, Writing, Written
<1>2. PiecesInv'
  BY <1>1 DEF LogInv, PiecesInv, Quiet
<1>3. FaultsInv'
  <2>1. Failing' = Failing
    BY <1>1 DEF Failing, Quiet
  <2> QED BY <2>1 DEF LogInv, FaultsInv, Quiet
<1>4. AheadInv'
  BY <1>1 DEF LogInv, AheadInv, Quiet
<1>5. OrderInv'
  BY <1>1 DEF LogInv, OrderInv, Quiet
<1> QED BY <1>2, <1>3, <1>4, <1>5

\* A step of a thread that takes the lock or goes past it.
LEMMA AskKeeps ==
  ASSUME LogInv, NEW t \in Threads, Acquire(t) \/ FallBack(t)
  PROVE  LogInv'
<1>1. /\ doing[t] = "asking" /\ doing' = [doing EXCEPT ![t] = "numbering"]
      /\ holder' = t \/ (holder' = holder /\ event[t].emergency)
      /\ holder' = holder \/ holder = Free
      /\ UNCHANGED <<event, sequence, logFile, buffer, records, activity, session, stopSent, faults>>
  BY DEF Acquire, FallBack
<1>2. /\ doing'[t] = "numbering" /\ \A u \in Threads \ {t} : doing'[u] = doing[u]
      /\ doing' \in [Threads -> LogPlaces]
  BY <1>1 DEF LogInv, LogTypeOK, LogPlaces
<1>3. LogTypeOK'
  BY <1>1, <1>2 DEF LogInv, LogTypeOK
<1>4. Quiet
  BY <1>1, <1>2 DEF Quiet
<1>5. ThreadsInv'
  BY <1>1, <1>2 DEF LogInv, ThreadsInv, InHand
<1>6. LockInv'
  <2>1. Free \notin Threads
    BY LogAssumption DEF Threads, Free, Main, Heart
  <2> QED BY <1>1, <1>2, <2>1 DEF LogInv, LockInv, InHand
<1>7. ToldInv'
  BY <1>1 DEF LogInv, ToldInv, Tellable, Written
<1>8. SessionInv'
  <2>1. Main \in Threads /\ Heart \in Threads /\ Workers \subseteq Threads
    BY DEF Threads
  <2> QED BY <1>1, <1>2, <2>1 DEF LogInv, SessionInv
<1> QED BY <1>3, <1>4, <1>5, <1>6, <1>7, <1>8, QuietKeeps DEF LogInv

\* A step in which a thread begins to log an event of its own.
LEMMA BeginKeeps ==
  ASSUME LogInv, NEW t \in Threads, NEW name \in Names, NEW emergency \in BOOLEAN,
         NEW last \in Nat \cup {NoRecord}, last \in Tellable,
         Begin(t, name, emergency, last),
         UNCHANGED <<holder, sequence, logFile, buffer, records, activity, stopSent, faults>>,
         session' \in {"beating", "ended"},
         (t = Main /\ session = "started") \/ session \in {"beating", "stopping"},
         session = "stopping" => t = Main /\ session' = "ended" /\ doing[Heart] = "ended",
         session # "stopping" => session' = "beating",
         name = "session_end" => session = "stopping"
  PROVE  LogInv'
<1>1. /\ doing'[t] = "asking" /\ \A u \in Threads \ {t} : doing'[u] = doing[u]
      /\ doing' \in [Threads -> LogPlaces] /\ doing[t] = "idle"
  BY DEF LogInv, LogTypeOK, LogPlaces, Begin
<1>2. LogRecord(name, emergency, last) \in LogEvents
  BY DEF LogRecord, LogEvents
<1>3. /\ event' \in [Threads -> LogEvents]
      /\ event'[t] = LogRecord(name, emergency, last)
      /\ \A u \in Threads \ {t} : event'[u] = event[u]
  BY <1>2 DEF LogInv, LogTypeOK, Begin
<1>4. LogTypeOK'
  BY <1>1, <1>3 DEF LogInv, LogTypeOK
<1>5. Quiet
  BY <1>1, <1>3 DEF Quiet
<1>6. ThreadsInv'
  BY <1>1, <1>3 DEF LogInv, ThreadsInv, InHand
<1>7. LockInv'
  BY <1>1, <1>3 DEF LogInv, LockInv, InHand
<1>8. ToldInv'
  BY <1>1, <1>3 DEF LogInv, ToldInv, Tellable, Written, LogRecord
<1>9. SessionInv'
  <2>1. /\ Main \in Threads /\ Heart \in Threads /\ Workers \subseteq Threads
        /\ Main \notin Workers /\ Heart # Main
    BY LogAssumption DEF Threads, Main, Heart
  <2>2. event'[t].name = name
    BY <1>3 DEF LogRecord
  <2>3. \A n \in 0..(sequence - 1) : records[n + 1].name # "session_end"
    BY DEF LogInv, SessionInv
  <2> QED BY <1>1, <1>3, <2>1, <2>2, <2>3 DEF LogInv, SessionInv
<1> QED BY <1>4, <1>5, <1>6, <1>7, <1>8, <1>9, QuietKeeps DEF LogInv

\* Steps of the session and of the threads that log.
LEMMA SessionKeeps ==
  ASSUME LogInv,
         \/ StartSession \/ Beat \/ StopHeartbeat \/ HeartStops \/ EndSession
         \/ \E t \in Workers : LogEvent(t) \/ Panic(t)
  PROVE  LogInv'
<1>1. /\ Main \in Threads /\ Heart \in Threads /\ Workers \subseteq Threads
      /\ Main \notin Workers /\ Heart \notin Workers /\ Heart # Main
  BY LogAssumption DEF Threads, Main, Heart
<1>2. /\ {"session_start", "session_end", "event", "panic", Heart} \subseteq Names
      /\ Heart # "session_end" /\ NoRecord \in Tellable /\ NoRecord \in Nat \cup {NoRecord}
      /\ TRUE \in BOOLEAN /\ FALSE \in BOOLEAN
  BY DEF Names, Heart, Tellable
<1>3. CASE StartSession
  BY <1>1, <1>2, <1>3, BeginKeeps DEF StartSession
<1>4. CASE Beat
  <2>1. activity \in Nat \cup {NoRecord} /\ activity \in Tellable
    BY DEF LogInv, LogTypeOK, ToldInv
  <2> QED BY <1>1, <1>2, <1>4, <2>1, BeginKeeps DEF Beat, Running
<1>5. ASSUME NEW t \in Workers, LogEvent(t) \/ Panic(t) PROVE LogInv'
  BY <1>1, <1>2, <1>5, BeginKeeps DEF LogEvent, Panic, Running
<1>6. CASE EndSession /\ UNCHANGED <<doing, event>>
  <2>1. Quiet
    BY <1>6 DEF Quiet, EndSession
  <2>2. LogTypeOK' /\ ThreadsInv' /\ LockInv' /\ ToldInv'
    BY <1>6 DEF EndSession, LogInv, LogTypeOK, ThreadsInv, LockInv, ToldInv, Tellable, Written
  <2>3. SessionInv'
    BY <1>6 DEF EndSession, LogInv, SessionInv
  <2> QED BY <2>1, <2>2, <2>3, QuietKeeps DEF LogInv
<1>7. CASE EndSession /\ Begin(Main, "session_end", FALSE, NoRecord)
  BY <1>1, <1>2, <1>7, BeginKeeps DEF EndSession
<1>8. CASE StopHeartbeat
  <2>1. Quiet
    BY <1>8 DEF Quiet, StopHeartbeat
  <2>2. LogTypeOK' /\ ThreadsInv' /\ LockInv' /\ ToldInv'
    BY <1>8 DEF StopHeartbeat, LogInv, LogTypeOK, ThreadsInv, LockInv, ToldInv, Tellable, Written
  <2>3. SessionInv'
    BY <1>8 DEF StopHeartbeat, Running, LogInv, SessionInv
  <2> QED BY <2>1, <2>2, <2>3, QuietKeeps DEF LogInv
<1>9. CASE HeartStops
  <2>1. /\ doing'[Heart] = "ended" /\ \A u \in Threads \ {Heart} : doing'[u] = doing[u]
        /\ doing[Heart] = "idle" /\ doing' \in [Threads -> LogPlaces] /\ stopSent' = FALSE
        /\ UNCHANGED <<holder, event, sequence, logFile, buffer, records, activity, session, faults>>
    BY <1>1, <1>9 DEF HeartStops, LogInv, LogTypeOK, LogPlaces
  <2>2. Quiet
    BY <2>1 DEF Quiet
  <2>3. LogTypeOK'
    BY <2>1 DEF LogInv, LogTypeOK
  <2>4. ThreadsInv' /\ LockInv' /\ ToldInv'
    BY <2>1 DEF LogInv, ThreadsInv, LockInv, InHand, ToldInv, Tellable, Written
  <2>5. SessionInv'
    BY <1>1, <2>1 DEF LogInv, SessionInv
  <2> QED BY <2>2, <2>3, <2>4, <2>5, QuietKeeps DEF LogInv
<1> QED BY <1>3, <1>4, <1>5, <1>6, <1>7, <1>8, <1>9 DEF EndSession, TellOutcome

\* Steps after the write.
LEMMA NoteKeeps ==
  ASSUME LogInv, NEW t \in Threads, NoteActivity(t) \/ Leave(t)
  PROVE  LogInv'
<1>1. CASE NoteActivity(t)
  <2>1. /\ doing'[t] = "leaving" /\ \A u \in Threads \ {t} : doing'[u] = doing[u]
        /\ doing[t] = "noting" /\ doing' \in [Threads -> LogPlaces]
        /\ UNCHANGED <<holder, event, sequence, logFile, buffer, records, session, stopSent, faults>>
        /\ activity' = IF event[t].name = Heart THEN activity ELSE event[t].number
    BY <1>1 DEF NoteActivity, LogInv, LogTypeOK, LogPlaces
  <2>2. /\ event[t].number \in 0..(sequence - 1) /\ records[event[t].number + 1].ok
        /\ records[event[t].number + 1].name = event[t].name
    BY <2>1 DEF LogInv, ThreadsInv, InHand
  <2>3. Quiet
    BY <2>1 DEF Quiet
  <2>4. LogTypeOK'
    BY <2>1, <2>2 DEF LogInv, LogTypeOK
  <2>5. ThreadsInv' /\ LockInv'
    BY <2>1 DEF LogInv, ThreadsInv, LockInv, InHand
  <2>6. ToldInv'
    <3>1. event[t].number \in Tellable \/ event[t].name = Heart
      BY <2>2 DEF Tellable, Written
    <3>2. Tellable' = Tellable /\ activity' \in Tellable
      BY <2>1, <3>1 DEF Tellable, Written, LogInv, ToldInv
    <3> QED BY <2>1, <3>2 DEF LogInv, ToldInv
  <2>7. SessionInv'
    BY <2>1, LogAssumption DEF LogInv, SessionInv, Threads
  <2> QED BY <2>3, <2>4, <2>5, <2>6, <2>7, QuietKeeps DEF LogInv
<1>2. CASE Leave(t)
  <2>1. /\ doing'[t] \in {"idle", "ended"} /\ \A u \in Threads \ {t} : doing'[u] = doing[u]
        /\ doing[t] = "leaving" /\ doing' \in [Threads -> LogPlaces]
        /\ event[t].name = "session_end" => doing'[t] = "ended"
        /\ UNCHANGED <<sequence, logFile, buffer, records, activity, session, stopSent, faults>>
        /\ holder' = IF holder = t THEN Free ELSE holder
    BY <1>2 DEF Leave, LogInv, LogTypeOK, LogPlaces
  <2>2. NoEvent \in LogEvents /\ NoEvent.told = NoRecord
    BY DEF NoEvent, LogRecord, LogEvents, Names
  <2>3. /\ event' \in [Threads -> LogEvents] /\ event'[t] = NoEvent
        /\ \A u \in Threads \ {t} : event'[u] = event[u]
    BY <1>2, <2>2 DEF Leave, LogInv, LogTypeOK
  <2>4. Quiet
    BY <2>1, <2>3 DEF Quiet
  <2>5. LogTypeOK'
    BY <2>1, <2>3 DEF LogInv, LogTypeOK
  <2>6. ThreadsInv' /\ LockInv'
    BY <2>1, <2>3 DEF LogInv, ThreadsInv, LockInv, InHand
  <2>7. ToldInv'
    BY <2>1, <2>2, <2>3 DEF LogInv, ToldInv, Tellable, Written
  <2>8. SessionInv'
    BY <2>1, <2>3, LogAssumption DEF LogInv, SessionInv, Threads
  <2> QED BY <2>4, <2>5, <2>6, <2>7, <2>8, QuietKeeps DEF LogInv
<1> QED BY <1>1, <1>2

\* A record that is added to the sequence of all.
NewRecord(e) == [name |-> e.name, emergency |-> e.emergency, told |-> e.told, ok |-> FALSE]

LEMMA NewRecordIsOne ==
  ASSUME NEW e \in LogEvents
  PROVE  NewRecord(e) \in LogRecords
BY DEF NewRecord, LogEvents, LogRecords

\* fetch_add: nobody else has the number, and the record is not in the file.
LEMMA NumberKeeps ==
  ASSUME LogInv, NEW t \in Threads, Number(t)
  PROVE  LogInv'
<1> DEFINE r == NewRecord(event[t])
<1>1. /\ doing'[t] = "writing" /\ \A u \in Threads \ {t} : doing'[u] = doing[u]
      /\ doing[t] = "numbering" /\ doing' \in [Threads -> LogPlaces]
      /\ sequence' = sequence + 1 /\ sequence \in Nat
      /\ UNCHANGED <<holder, logFile, buffer, activity, session, stopSent, faults>>
  BY DEF Number, LogInv, LogTypeOK, LogPlaces
<1>2. /\ event'[t].number = sequence /\ event'[t].name = event[t].name
      /\ event'[t].emergency = event[t].emergency /\ event'[t].told = event[t].told
      /\ event' \in [Threads -> LogEvents] /\ \A u \in Threads \ {t} : event'[u] = event[u]
  BY DEF Number, LogInv, LogTypeOK, LogEvents
<1>3. /\ r.name = event[t].name /\ r.emergency = event[t].emergency /\ r.told = event[t].told
      /\ ~r.ok /\ r \in LogRecords
  BY NewRecordIsOne DEF NewRecord, LogInv, LogTypeOK
<1>4. records' = Append(records, r)
  BY DEF Number, NewRecord
<1> HIDE DEF r
<1>5. /\ records' \in Seq(LogRecords) /\ Len(records') = sequence'
      /\ records'[sequence + 1] = r
      /\ \A n \in 0..(sequence - 1) : records'[n + 1] = records[n + 1]
  BY <1>1, <1>3, <1>4 DEF LogInv, LogTypeOK
<1>6. \A n \in 0..(sequence' - 1) : n = sequence \/ n \in 0..(sequence - 1)
  BY <1>1
<1>7. Written' = Written
  BY <1>1, <1>3, <1>5, <1>6 DEF Written
<1>8. Writing' = Writing \cup {sequence}
  BY <1>1, <1>2 DEF Writing
<1>9. sequence \notin Written /\ Written \subseteq 0..(sequence - 1)
  BY <1>1 DEF Written
<1>10. LogTypeOK'
  BY <1>1, <1>2, <1>5 DEF LogInv, LogTypeOK
<1>11. ThreadsInv'
  <2>1. \A u \in Threads \ {t} : doing'[u] \in InHand => event'[u].number \in 0..(sequence - 1)
    BY <1>1, <1>2 DEF LogInv, ThreadsInv
  <2>2. /\ event'[t].number + 1 = sequence + 1 /\ event'[t].number \in 0..(sequence' - 1)
        /\ \A n \in 0..(sequence - 1) : n # sequence /\ n \in 0..(sequence' - 1)
    BY <1>1, <1>2
  <2>3. \A u \in Threads : doing'[u] \in InHand =>
          /\ event'[u].number \in 0..(sequence' - 1)
          /\ records'[event'[u].number + 1].name = event'[u].name
          /\ records'[event'[u].number + 1].emergency = event'[u].emergency
          /\ records'[event'[u].number + 1].told = event'[u].told
          /\ doing'[u] = "writing" => ~records'[event'[u].number + 1].ok
          /\ doing'[u] = "noting" => records'[event'[u].number + 1].ok
    <3>1. ASSUME NEW u \in Threads \ {t}, doing'[u] \in InHand
          PROVE  /\ event'[u].number \in 0..(sequence' - 1)
                 /\ records'[event'[u].number + 1] = records[event[u].number + 1]
                 /\ event'[u] = event[u] /\ doing'[u] = doing[u]
      BY <1>1, <1>2, <1>5, <2>1, <2>2, <3>1
    <3> QED BY <1>1, <1>2, <1>3, <1>5, <2>2, <3>1 DEF LogInv, ThreadsInv
  <2>4. \A u, v \in Threads :
          u # v /\ doing'[u] \in InHand /\ doing'[v] \in InHand =>
            event'[u].number # event'[v].number
    BY <1>1, <1>2, <2>1, <2>2 DEF LogInv, ThreadsInv
  <2> QED BY <2>3, <2>4 DEF ThreadsInv
<1>12. LockInv'
  BY <1>1, <1>2 DEF LogInv, LockInv, InHand
<1>13. PiecesInv'
  <2>1. \A n \in (0..(sequence - 1)) \ Writing : n \in (0..(sequence' - 1)) \ Writing'
    BY <1>1, <1>8
  <2>2. \A n \in (0..(sequence - 1)) \ (Writing \cup Written) :
          n \in (0..(sequence' - 1)) \ (Writing' \cup Written')
    BY <1>1, <1>7, <1>8
  <2> QED BY <1>1, <1>7, <2>1, <2>2 DEF LogInv, PiecesInv
<1>14. FaultsInv'
  <2>1. Failing' = Failing
    BY <1>1, <1>6, <1>7, <1>8 DEF Failing
  <2> QED BY <1>1, <2>1 DEF LogInv, FaultsInv
<1>15. ToldInv'
  <2>1. Tellable \subseteq Tellable'
    BY <1>5, <1>7, <1>9 DEF Tellable
  <2>2. r.told \in Tellable
    BY <1>3 DEF LogInv, ToldInv
  <2>3. \A n \in 0..(sequence' - 1) : records'[n + 1].told \in Tellable'
    BY <1>5, <1>6, <2>1, <2>2 DEF LogInv, ToldInv
  <2>4. \A u \in Threads : event'[u].told \in Tellable'
    BY <1>2, <2>1 DEF LogInv, ToldInv
  <2> QED BY <1>1, <2>1, <2>3, <2>4 DEF LogInv, ToldInv
<1>16. AheadInv'
  BY <1>1, <1>5, <1>7, <1>9 DEF LogInv, AheadInv
<1>17. OrderInv'
  <2>1. ASSUME NEW u \in Threads, doing'[u] = "writing", ~event'[u].emergency,
               NEW n \in 0..(sequence' - 1), n > event'[u].number
        PROVE  records'[n + 1].emergency
    <3>1. CASE u = t
      BY <1>1, <1>2, <2>1, <3>1
    <3>2. CASE u # t /\ n # sequence
      BY <1>1, <1>2, <1>5, <1>6, <2>1, <3>2 DEF LogInv, OrderInv
    <3>3. CASE u # t /\ n = sequence
      <4>1. holder = u
        BY <1>1, <1>2, <2>1, <3>3 DEF LogInv, LockInv, InHand
      <4>2. event[t].emergency
        BY <1>1, <3>3, <4>1 DEF LogInv, LockInv
      <4> QED BY <1>3, <1>5, <3>3, <4>2
    <3> QED BY <3>1, <3>2, <3>3
  <2>2. ASSUME NEW m \in Written', NEW n \in Written', m < n,
               ~records'[m + 1].emergency, ~records'[n + 1].emergency
        PROVE  \A i, j \in DOMAIN logFile' :
                 logFile'[i] = <<m, "head">> /\ logFile'[j] = <<n, "head">> => i < j
    <3>1. /\ m \in Written /\ n \in Written
          /\ records'[m + 1] = records[m + 1] /\ records'[n + 1] = records[n + 1]
      BY <1>5, <1>7, <1>9
    <3> QED BY <1>1, <2>2, <3>1 DEF LogInv, OrderInv
  <2> QED BY <2>1, <2>2 DEF OrderInv
<1>18. SessionInv'
  <2>1. t = Main \/ t \in Workers \/ t = Heart
    BY DEF Threads
  <2>2. session = "ended" => t = Main
    BY <1>1, <2>1 DEF LogInv, SessionInv
  <2>3. \A n \in 0..(sequence - 1) : records[n + 1].name # "session_end"
    BY <1>1, <2>2 DEF LogInv, SessionInv
  <2>4. \A n \in 0..(sequence' - 1) : records'[n + 1].name = "session_end" =>
          n = sequence' - 1 /\ session' = "ended" /\ doing'[Main] \notin {"asking", "numbering"}
    BY <1>1, <1>3, <1>5, <1>6, <2>3 DEF LogInv, SessionInv
  <2>5. \A u \in Threads : doing'[u] \notin {"idle", "ended"} /\ event'[u].name = "session_end" =>
          u = Main /\ session' = "ended"
    BY <1>1, <1>2 DEF LogInv, SessionInv
  <2>6. /\ session' \in {"stopping", "ended"} => \A u \in Workers : doing'[u] \in {"idle", "ended"}
        /\ session' = "ended" => doing'[Heart] = "ended"
    BY <1>1, LogAssumption DEF LogInv, SessionInv, Threads
  <2> QED BY <2>4, <2>5, <2>6 DEF SessionInv
<1> QED BY <1>10, <1>11, <1>12, <1>13, <1>14, <1>15, <1>16, <1>17, <1>18 DEF LogInv

\* What a write does to the file and the buffer, in one sequence or another of
\* pieces that the file gets: no piece is doubled, and what is neither from the
\* buffer nor of the record n stays away.
Buffered == {buffer[i] : i \in DOMAIN buffer}
Grows(n, more, good) ==
  /\ more \in Seq(LogPieces) /\ logFile' = logFile \o more /\ buffer' \in Seq(LogPieces)
  /\ \A i, j \in DOMAIN more : more[i] = more[j] => i = j
  /\ \A i, j \in DOMAIN buffer' : buffer'[i] = buffer'[j] => i = j
  /\ \A i \in DOMAIN more : \A j \in DOMAIN buffer' : more[i] # buffer'[j]
  /\ \A i \in DOMAIN more : more[i] \in Buffered \/ more[i][1] = n
  /\ \A j \in DOMAIN buffer' : buffer'[j] \in Buffered \/ (~good /\ buffer'[j][1] = n)
  /\ good => \E i \in DOMAIN more :
       i + 1 \in DOMAIN more /\ more[i] = <<n, "head">> /\ more[i + 1] = <<n, "tail">>

\* The buffer and the record of a thread that writes with the lock.
ToWrite(t) == buffer \o Pieces(event[t].number)

LEMMA AllPieces ==
  ASSUME LogInv, NEW t \in Threads, doing[t] = "writing"
  PROVE  /\ event[t].number \in Nat /\ Len(buffer) \in Nat
         /\ ToWrite(t) \in Seq(LogPieces) /\ Len(ToWrite(t)) = Len(buffer) + 2
         /\ \A i \in 1..Len(buffer) : ToWrite(t)[i] = buffer[i]
         /\ ToWrite(t)[Len(buffer) + 1] = <<event[t].number, "head">>
         /\ ToWrite(t)[Len(buffer) + 2] = <<event[t].number, "tail">>
         /\ \A i, j \in 1..Len(ToWrite(t)) : ToWrite(t)[i] = ToWrite(t)[j] => i = j
<1> DEFINE n == event[t].number
           all == ToWrite(t)
<1>1. n \in Nat /\ n \in Writing
  BY DEF LogInv, LogTypeOK, ThreadsInv, InHand, Writing
<1>2. buffer \in Seq(LogPieces) /\ Len(buffer) \in Nat /\ DOMAIN buffer = 1..Len(buffer)
  BY DEF LogInv, LogTypeOK
<1>3. /\ Pieces(n) \in Seq(LogPieces) /\ Len(Pieces(n)) = 2
      /\ Pieces(n)[1] = <<n, "head">> /\ Pieces(n)[2] = <<n, "tail">>
  BY <1>1, PiecesOf
<1>4. all = buffer \o Pieces(n)
  BY DEF ToWrite
<1> HIDE DEF n, all
<1>5. /\ all \in Seq(LogPieces) /\ Len(all) = Len(buffer) + 2
      /\ \A i \in 1..Len(buffer) : all[i] = buffer[i]
      /\ all[Len(buffer) + 1] = <<n, "head">> /\ all[Len(buffer) + 2] = <<n, "tail">>
  <2>1. 1 \in 1..Len(Pieces(n)) /\ 2 \in 1..Len(Pieces(n))
    BY <1>3
  <2>2. /\ all \in Seq(LogPieces) /\ Len(all) = Len(buffer) + 2
        /\ \A i \in 1..Len(buffer) : all[i] = buffer[i]
        /\ \A i \in 1..Len(Pieces(n)) : all[Len(buffer) + i] = Pieces(n)[i]
    <3>1. /\ buffer \o Pieces(n) \in Seq(LogPieces)
          /\ Len(buffer \o Pieces(n)) = Len(buffer) + Len(Pieces(n))
          /\ \A i \in 1..Len(buffer) : (buffer \o Pieces(n))[i] = buffer[i]
          /\ \A i \in 1..Len(Pieces(n)) :
               (buffer \o Pieces(n))[Len(buffer) + i] = Pieces(n)[i]
      <4>1. buffer \in Seq(LogPieces) /\ Pieces(n) \in Seq(LogPieces)
        BY <1>2, <1>3
      <4> QED BY <4>1, InARow
    <3> QED BY <1>3, <1>4, <3>1
  <2> QED BY <1>3, <2>1, <2>2
<1>6. \A i \in 1..Len(buffer) : buffer[i][1] # n
  BY <1>1, <1>2 DEF LogInv, PiecesInv
<1>7. \A i \in 1..Len(all) :
        i \in 1..Len(buffer) \/ i = Len(buffer) + 1 \/ i = Len(buffer) + 2
  BY <1>2, <1>5
<1>8. ASSUME NEW i \in 1..Len(all), NEW j \in 1..Len(all), all[i] = all[j]
      PROVE  i = j
  <2>1. CASE i \in 1..Len(buffer) /\ j \in 1..Len(buffer)
    BY <1>2, <1>5, <1>8, <2>1 DEF LogInv, PiecesInv
  <2>2. i \in 1..Len(buffer) <=> j \in 1..Len(buffer)
    BY <1>5, <1>6, <1>7, <1>8
  <2> QED BY <1>5, <1>7, <1>8, <2>1, <2>2
<1> QED BY <1>1, <1>2, <1>5, <1>8 DEF n, all

\* With the lock, whole or up to a fault.
LEMMA LockedGrows ==
  ASSUME LogInv, NEW t \in Threads, WriteLocked(t)
  PROVE  \/ Wrote(t) /\ \E more \in Seq(LogPieces) : Grows(event[t].number, more, TRUE)
         \/ Failed(t) /\ \E more \in Seq(LogPieces) : Grows(event[t].number, more, FALSE)
<1> DEFINE n == event[t].number
           all == ToWrite(t)
           L == Len(buffer)
<1>1. doing[t] = "writing"
  BY DEF WriteLocked
<1>2. /\ n \in Nat /\ L \in Nat /\ all \in Seq(LogPieces) /\ Len(all) = L + 2
      /\ \A i \in 1..L : all[i] = buffer[i]
      /\ all[L + 1] = <<n, "head">> /\ all[L + 2] = <<n, "tail">>
      /\ \A i, j \in 1..Len(all) : all[i] = all[j] => i = j
  BY <1>1, AllPieces
<1>a. \/ logFile' = logFile \o all /\ buffer' = <<>> /\ Wrote(t)
      \/ \E k \in 0..(Len(all) - 1) :
           /\ logFile' = logFile \o SubSeq(all, 1, k)
           /\ buffer' \in {SubSeq(all, k + 1, Len(all)), SubSeq(buffer, k + 1, Len(buffer))}
           /\ Failed(t)
  BY DEF WriteLocked, ToWrite
<1>3. \/ logFile' = logFile \o all /\ buffer' = <<>> /\ Wrote(t)
      \/ \E k \in 0..(L + 1) :
           /\ logFile' = logFile \o SubSeq(all, 1, k)
           /\ buffer' \in {SubSeq(all, k + 1, L + 2), SubSeq(buffer, k + 1, L)}
           /\ Failed(t)
  <2>1. Len(all) - 1 = L + 1 /\ Len(all) = L + 2
    BY <1>2
  <2> HIDE DEF all
  <2> QED BY <1>a, <2>1
<1>4. buffer \in Seq(LogPieces) /\ DOMAIN buffer = 1..L
  BY DEF LogInv, LogTypeOK
<1> HIDE DEF n, all, L
<1>5. \A i \in 1..(L + 2) : i \in 1..L \/ all[i][1] = n
  <2>1. \A i \in 1..(L + 2) : i \in 1..L \/ i = L + 1 \/ i = L + 2
    BY <1>2
  <2> QED BY <1>2, <2>1
<1>6. \A i \in 1..L : all[i] \in Buffered
  BY <1>2, <1>4 DEF Buffered
<1>7. CASE logFile' = logFile \o all /\ buffer' = <<>> /\ Wrote(t)
  <2>1. Grows(n, all, TRUE)
    <3>1. DOMAIN all = 1..(L + 2)
      BY <1>2
    <3>2. L + 1 \in DOMAIN all /\ L + 1 + 1 \in DOMAIN all /\ all[L + 1 + 1] = <<n, "tail">>
      BY <1>2, <3>1
    <3>3. buffer' \in Seq(LogPieces) /\ DOMAIN buffer' = {}
      BY <1>7
    <3> QED BY <1>2, <1>5, <1>6, <1>7, <3>1, <3>2, <3>3 DEF Grows
  <2> QED BY <1>2, <1>7, <2>1 DEF n
<1>8. ASSUME NEW k \in 0..(L + 1), Failed(t), logFile' = logFile \o SubSeq(all, 1, k),
             buffer' \in {SubSeq(all, k + 1, L + 2), SubSeq(buffer, k + 1, L)}
      PROVE  Failed(t) /\ \E more \in Seq(LogPieces) : Grows(n, more, FALSE)
  <2> DEFINE more == SubSeq(all, 1, k)
  <2>1. /\ more \in Seq(LogPieces) /\ DOMAIN more = 1..k /\ k \in Nat
        /\ \A i \in 1..k : more[i] = all[i] /\ i \in 1..(L + 2)
    <3>1. k \in 0..Len(all)
      BY <1>2
    <3>2. /\ more \in Seq(LogPieces) /\ Len(more) = k
          /\ \A i \in 1..k : more[i] = all[i]
      BY <1>2, <3>1, FirstOf
    <3> HIDE DEF more
    <3> QED BY <1>2, <3>2
  <2>2. /\ buffer' \in Seq(LogPieces)
        /\ \A j \in DOMAIN buffer' : /\ k + j \in 1..(L + 2) /\ buffer'[j] = all[k + j]
                                     /\ j \in Nat /\ j >= 1
    <3>1. CASE buffer' = SubSeq(all, k + 1, L + 2)
      <4>1. k \in 0..Len(all) /\ Len(all) = L + 2
        BY <1>2
      <4>2. /\ buffer' \in Seq(LogPieces) /\ Len(buffer') = Len(all) - k
            /\ \A i \in 1..(Len(all) - k) : buffer'[i] = all[k + i]
        BY <1>2, <3>1, <4>1, RestOf
      <4>5. Len(all) - k = L + 2 - k
        BY <1>2, <4>1
      <4>3. DOMAIN buffer' = 1..(L + 2 - k)
        BY <4>2, <4>5
      <4>4. \A j \in 1..(L + 2 - k) : k + j \in 1..(L + 2)
        BY <1>2
      <4>6. \A i \in 1..(L + 2 - k) : buffer'[i] = all[k + i]
        BY <4>2, <4>5
      <4> QED BY <4>2, <4>3, <4>4, <4>6
    <3>2. CASE buffer' = SubSeq(buffer, k + 1, L) /\ k <= L
      <4>1. k \in 0..Len(buffer)
        BY <1>2, <3>2 DEF L
      <4>2. /\ buffer' \in Seq(LogPieces) /\ Len(buffer') = L - k
            /\ \A i \in 1..(L - k) : buffer'[i] = buffer[k + i]
        BY <1>4, <3>2, <4>1, RestOf DEF L
      <4>3. DOMAIN buffer' = 1..(L - k)
        BY <4>2
      <4>4. \A j \in 1..(L - k) : k + j \in 1..(L + 2) /\ k + j \in 1..L
        BY <1>2
      <4>5. \A j \in DOMAIN buffer' : buffer'[j] = all[k + j] /\ k + j \in 1..(L + 2)
        BY <1>2, <4>2, <4>3, <4>4
      <4> QED BY <4>2, <4>3, <4>5
    <3>3. CASE buffer' = SubSeq(buffer, k + 1, L) /\ k = L + 1
      <4>1. buffer' = <<>>
        BY <1>2, <1>4, <3>3
      <4> QED BY <4>1
    <3> QED BY <1>2, <1>8, <3>1, <3>2, <3>3
  <2>3. logFile' = logFile \o more
    BY <1>8
  <2> HIDE DEF more
  <2>4. Grows(n, more, FALSE)
    <3>1. ASSUME NEW i \in 1..k, NEW j \in DOMAIN buffer' PROVE more[i] # buffer'[j]
      <4>1. i # k + j /\ i \in 1..(L + 2) /\ k + j \in 1..(L + 2)
        BY <2>1, <2>2
      <4>2. all[i] # all[k + j]
        BY <1>2, <4>1
      <4> QED BY <2>1, <2>2, <4>2
    <3>2. \A i, j \in DOMAIN buffer' : buffer'[i] = buffer'[j] => i = j
      BY <1>2, <2>1, <2>2
    <3>3. \A i, j \in DOMAIN more : more[i] = more[j] => i = j
      BY <1>2, <2>1
    <3>4. \A i \in DOMAIN more : more[i] \in Buffered \/ more[i][1] = n
      BY <1>5, <1>6, <2>1
    <3>5. \A j \in DOMAIN buffer' : buffer'[j] \in Buffered \/ buffer'[j][1] = n
      BY <1>5, <1>6, <2>2
    <3> QED BY <2>1, <2>2, <2>3, <3>1, <3>2, <3>3, <3>4, <3>5 DEF Grows
  <2> QED BY <1>8, <2>1, <2>4
<1> QED BY <1>3, <1>7, <1>8 DEF n

\* Past the lock, whole or up to a fault.
LEMMA FallbackGrows ==
  ASSUME LogInv, NEW t \in Threads, WriteFallback(t)
  PROVE  \/ Wrote(t) /\ \E more \in Seq(LogPieces) : Grows(event[t].number, more, TRUE)
         \/ Failed(t) /\ \E more \in Seq(LogPieces) : Grows(event[t].number, more, FALSE)
<1> DEFINE n == event[t].number
<1>1. /\ doing[t] = "writing" /\ buffer' = buffer
      /\ \/ logFile' = logFile \o Pieces(n) /\ Wrote(t)
         \/ \E k \in 0..1 : logFile' = logFile \o SubSeq(Pieces(n), 1, k) /\ Failed(t)
  BY DEF WriteFallback
<1>2. n \in Nat /\ n \in Writing
  BY <1>1 DEF LogInv, LogTypeOK, ThreadsInv, InHand, Writing
<1>3. /\ Pieces(n) \in Seq(LogPieces) /\ Len(Pieces(n)) = 2
      /\ Pieces(n)[1] = <<n, "head">> /\ Pieces(n)[2] = <<n, "tail">>
  BY <1>2, PiecesOf
<1>4. /\ buffer \in Seq(LogPieces) /\ \A j \in DOMAIN buffer : buffer[j][1] # n
      /\ \A j \in DOMAIN buffer : buffer[j] \in Buffered
      /\ \A i, j \in DOMAIN buffer : buffer[i] = buffer[j] => i = j
  BY <1>2 DEF LogInv, LogTypeOK, PiecesInv, Buffered
<1> HIDE DEF n
<1>5. \A i \in 1..2 : i = 1 \/ i = 2
  OBVIOUS
<1>6. CASE logFile' = logFile \o Pieces(n) /\ Wrote(t)
  <2>1. Grows(n, Pieces(n), TRUE)
    <3>1. DOMAIN Pieces(n) = 1..2 /\ 1 \in 1..2 /\ 1 + 1 \in 1..2 /\ 1 + 1 = 2
      BY <1>3
    <3>2. \A i \in DOMAIN Pieces(n) : Pieces(n)[i][1] = n
      BY <1>3, <1>5, <3>1
    <3>3. \A i, j \in DOMAIN Pieces(n) : Pieces(n)[i] = Pieces(n)[j] => i = j
      BY <1>3, <1>5, <3>1
    <3> QED BY <1>1, <1>3, <1>4, <1>6, <3>1, <3>2, <3>3 DEF Grows
  <2> QED BY <1>3, <1>6, <2>1 DEF n
<1>7. ASSUME NEW k \in 0..1, logFile' = logFile \o SubSeq(Pieces(n), 1, k), Failed(t)
      PROVE  Failed(t) /\ \E more \in Seq(LogPieces) : Grows(n, more, FALSE)
  <2> DEFINE more == SubSeq(Pieces(n), 1, k)
  <2>1. /\ more \in Seq(LogPieces) /\ Len(more) = k
        /\ \A i \in 1..k : more[i] = <<n, "head">> /\ i = 1
    <3>1. k \in 0..Len(Pieces(n)) /\ \A i \in 1..k : i = 1
      BY <1>3
    <3>2. /\ more \in Seq(LogPieces) /\ Len(more) = k
          /\ \A i \in 1..k : more[i] = Pieces(n)[i]
      BY <1>3, <3>1, FirstOf
    <3> HIDE DEF more
    <3> QED BY <1>3, <3>1, <3>2
  <2>2. logFile' = logFile \o more
    BY <1>7
  <2> HIDE DEF more
  <2>3. DOMAIN more = 1..k
    BY <2>1
  <2>4. Grows(n, more, FALSE)
    BY <1>1, <1>4, <2>1, <2>2, <2>3 DEF Grows
  <2> QED BY <1>7, <2>1, <2>4
<1> QED BY <1>1, <1>6, <1>7 DEF n

\* What grows keeps its places.
LEMMA PlacesOf ==
  ASSUME LogInv, NEW n, NEW more, NEW good, Grows(n, more, good)
  PROVE  /\ Len(logFile) \in Nat /\ DOMAIN logFile = 1..Len(logFile)
         /\ Len(more) \in Nat /\ DOMAIN more = 1..Len(more)
         /\ logFile' \in Seq(LogPieces)
         /\ DOMAIN logFile' = 1..(Len(logFile) + Len(more))
         /\ \A i \in 1..Len(logFile) : logFile'[i] = logFile[i]
         /\ \A i \in 1..Len(more) : logFile'[Len(logFile) + i] = more[i]
         /\ \A i \in DOMAIN logFile' : i > Len(logFile) =>
              /\ i - Len(logFile) \in DOMAIN more
              /\ logFile'[i] = more[i - Len(logFile)]
<1>1. logFile \in Seq(LogPieces) /\ more \in Seq(LogPieces) /\ logFile' = logFile \o more
  BY DEF LogInv, LogTypeOK, Grows
<1>2. /\ Len(logFile) \in Nat /\ DOMAIN logFile = 1..Len(logFile)
      /\ Len(more) \in Nat /\ DOMAIN more = 1..Len(more)
  BY <1>1
<1>3. /\ logFile' \in Seq(LogPieces) /\ Len(logFile') = Len(logFile) + Len(more)
      /\ \A i \in 1..Len(logFile) : logFile'[i] = logFile[i]
      /\ \A i \in 1..Len(more) : logFile'[Len(logFile) + i] = more[i]
  BY <1>1, InARow
<1>4. DOMAIN logFile' = 1..(Len(logFile) + Len(more))
  <2>1. DOMAIN logFile' = 1..Len(logFile')
    BY <1>3
  <2> QED BY <1>3, <2>1
<1>5. ASSUME NEW i \in DOMAIN logFile', i > Len(logFile)
      PROVE  i - Len(logFile) \in DOMAIN more /\ logFile'[i] = more[i - Len(logFile)]
  <2>1. i - Len(logFile) \in 1..Len(more) /\ Len(logFile) + (i - Len(logFile)) = i
    BY <1>2, <1>4, <1>5
  <2> QED BY <1>2, <1>3, <2>1
<1> QED BY <1>2, <1>3, <1>4, <1>5

\* A write keeps what is said of the pieces.
LEMMA PiecesKept ==
  ASSUME LogInv, NEW n \in Writing, NEW more, NEW good \in BOOLEAN, Grows(n, more, good),
         n \in 0..(sequence - 1), n \notin Written,
         sequence' = sequence, Writing' = Writing \ {n},
         Written' = Written \cup (IF good THEN {n} ELSE {})
  PROVE  PiecesInv'
<1> DEFINE L == Len(logFile)
<1>1. /\ L \in Nat /\ DOMAIN logFile = 1..L /\ logFile' \in Seq(LogPieces)
      /\ DOMAIN logFile' = 1..(L + Len(more)) /\ Len(more) \in Nat
      /\ \A i \in 1..L : logFile'[i] = logFile[i]
      /\ \A i \in 1..Len(more) : logFile'[L + i] = more[i]
      /\ \A i \in DOMAIN logFile' : i > L =>
           i - L \in DOMAIN more /\ logFile'[i] = more[i - L]
      /\ DOMAIN more = 1..Len(more)
  <2> HIDE DEF L
  <2>1. L = Len(logFile)
    BY DEF L
  <2> QED BY <2>1, PlacesOf
<1> HIDE DEF L
<1>2. \A i \in DOMAIN logFile' : i \in DOMAIN logFile \/ i > L
  BY <1>1
<1>3. /\ \A x \in Buffered : x[1] \in (0..(sequence - 1)) \ (Writing \cup Written)
      /\ \A i \in DOMAIN logFile : logFile[i] \notin Buffered /\ logFile[i][1] # n
  BY DEF LogInv, PiecesInv, Buffered
<1>4. \A i \in DOMAIN logFile, j \in DOMAIN more : logFile[i] # more[j]
  BY <1>3 DEF Grows
<1>5. ASSUME NEW i \in DOMAIN logFile', NEW j \in DOMAIN logFile', logFile'[i] = logFile'[j]
      PROVE  i = j
  <2>1. CASE i \in DOMAIN logFile /\ j \in DOMAIN logFile
    BY <1>1, <1>5, <2>1 DEF LogInv, PiecesInv
  <2>2. CASE i \in DOMAIN logFile /\ j > L
    BY <1>1, <1>4, <1>5, <2>2
  <2>3. CASE j \in DOMAIN logFile /\ i > L
    BY <1>1, <1>4, <1>5, <2>3
  <2>4. CASE i > L /\ j > L
    <3>1. i - L = j - L
      <4>1. /\ i - L \in DOMAIN more /\ j - L \in DOMAIN more
            /\ more[i - L] = more[j - L]
        BY <1>1, <1>5, <2>4
      <4> QED BY <4>1 DEF Grows
    <3> QED BY <1>1, <3>1
  <2> QED BY <1>2, <2>1, <2>2, <2>3, <2>4
<1>6. \A i, j \in DOMAIN buffer' : buffer'[i] = buffer'[j] => i = j
  BY DEF Grows
<1>7. ASSUME NEW i \in DOMAIN logFile', NEW j \in DOMAIN buffer'
      PROVE  logFile'[i] # buffer'[j]
  <2>1. CASE i \in DOMAIN logFile
    <3>1. buffer'[j] \in Buffered \/ buffer'[j][1] = n
      BY DEF Grows
    <3> QED BY <1>1, <1>3, <2>1, <3>1
  <2>2. CASE i > L
    BY <1>1, <2>2 DEF Grows
  <2> QED BY <1>2, <2>1, <2>2
<1>8. ASSUME NEW i \in DOMAIN logFile'
      PROVE  logFile'[i][1] \in (0..(sequence' - 1)) \ Writing'
  <2>1. CASE i \in DOMAIN logFile
    BY <1>1, <2>1 DEF LogInv, PiecesInv
  <2>2. CASE i > L
    <3>1. logFile'[i] \in Buffered \/ logFile'[i][1] = n
      BY <1>1, <2>2 DEF Grows
    <3> QED BY <1>3, <3>1
  <2> QED BY <1>2, <2>1, <2>2
<1>9. ASSUME NEW j \in DOMAIN buffer'
      PROVE  buffer'[j][1] \in (0..(sequence' - 1)) \ (Writing' \cup Written')
  <2>1. CASE buffer'[j] \in Buffered
    BY <1>3, <2>1
  <2>2. CASE ~good /\ buffer'[j][1] = n
    BY <2>2
  <2> QED BY <2>1, <2>2 DEF Grows
<1>10. ASSUME NEW m \in Written'
       PROVE  \E i \in DOMAIN logFile' :
                /\ i + 1 \in DOMAIN logFile'
                /\ logFile'[i] = <<m, "head">> /\ logFile'[i + 1] = <<m, "tail">>
  <2>1. CASE m \in Written
    <3>1. PICK i \in DOMAIN logFile :
            i + 1 \in DOMAIN logFile /\ logFile[i] = <<m, "head">> /\ logFile[i + 1] = <<m, "tail">>
      BY <2>1 DEF LogInv, PiecesInv
    <3>2. i \in DOMAIN logFile' /\ i + 1 \in DOMAIN logFile'
      BY <1>1, <3>1
    <3> QED BY <1>1, <3>1, <3>2
  <2>2. CASE good /\ m = n
    <3>1. PICK i \in DOMAIN more :
            i + 1 \in DOMAIN more /\ more[i] = <<n, "head">> /\ more[i + 1] = <<n, "tail">>
      BY <2>2 DEF Grows
    <3>2. /\ L + i \in DOMAIN logFile' /\ (L + i) + 1 \in DOMAIN logFile'
          /\ (L + i) + 1 = L + (i + 1)
      <4>1. i \in 1..Len(more) /\ i + 1 \in 1..Len(more)
        BY <1>1, <3>1
      <4>2. L \in Nat /\ Len(more) \in Nat /\ DOMAIN logFile' = 1..(L + Len(more))
        BY <1>1
      <4> QED BY <4>1, <4>2
    <3>3. logFile'[L + i] = <<n, "head">> /\ logFile'[(L + i) + 1] = <<n, "tail">>
      BY <1>1, <3>1, <3>2
    <3> QED BY <2>2, <3>2, <3>3
  <2> QED BY <2>1, <2>2
<1> QED BY <1>5, <1>6, <1>7, <1>8, <1>9, <1>10 DEF PiecesInv

\* What was in the file stays ahead of what a write adds.
LEMMA StaysAhead ==
  ASSUME LogInv, NEW n \in Writing, NEW more, NEW good \in BOOLEAN, Grows(n, more, good),
         PiecesInv'
  PROVE  /\ \A m \in Written : \A i \in DOMAIN logFile' :
              /\ logFile'[i] = <<m, "head">> => i \in DOMAIN logFile /\ logFile[i] = <<m, "head">>
              /\ logFile'[i] = <<m, "tail">> => i \in DOMAIN logFile /\ logFile[i] = <<m, "tail">>
         /\ \A m \in Written : \A i, j \in DOMAIN logFile' :
              /\ logFile'[i] = <<m, "head">> /\ logFile'[j] = <<n, "head">> => i < j
              /\ logFile'[i] = <<m, "tail">> /\ logFile'[j] = <<n, "head">> => i < j
<1> DEFINE L == Len(logFile)
<1>1. /\ L \in Nat /\ DOMAIN logFile = 1..L /\ Len(more) \in Nat
      /\ DOMAIN logFile' = 1..(L + Len(more))
      /\ \A i \in 1..L : logFile'[i] = logFile[i]
  BY PlacesOf
<1> HIDE DEF L
<1>2. \A i, j \in DOMAIN logFile' : logFile'[i] = logFile'[j] => i = j
  BY DEF PiecesInv
<1>3. ASSUME NEW m \in Written, NEW i \in DOMAIN logFile'
      PROVE  /\ logFile'[i] = <<m, "head">> => i \in DOMAIN logFile /\ logFile[i] = <<m, "head">>
             /\ logFile'[i] = <<m, "tail">> => i \in DOMAIN logFile /\ logFile[i] = <<m, "tail">>
  <2>1. PICK k \in DOMAIN logFile :
          k + 1 \in DOMAIN logFile /\ logFile[k] = <<m, "head">> /\ logFile[k + 1] = <<m, "tail">>
    BY DEF LogInv, PiecesInv
  <2>2. /\ k \in DOMAIN logFile' /\ logFile'[k] = <<m, "head">>
        /\ k + 1 \in DOMAIN logFile' /\ logFile'[k + 1] = <<m, "tail">>
    BY <1>1, <2>1
  <2> QED BY <1>2, <2>1, <2>2
<1>4. \A j \in DOMAIN logFile' : logFile'[j] = <<n, "head">> => j > L
  <2>1. \A j \in DOMAIN logFile : logFile[j][1] # n
    BY DEF LogInv, PiecesInv
  <2>2. \A j \in DOMAIN logFile' : j \in DOMAIN logFile \/ j > L
    BY <1>1
  <2> QED BY <1>1, <2>1, <2>2
<1>5. \A i \in DOMAIN logFile, j \in DOMAIN logFile' : j > L => i < j
  BY <1>1
<1> QED BY <1>3, <1>4, <1>5

\* A write keeps the invariant.
LEMMA WriteKeeps ==
  ASSUME LogInv, NEW t \in Threads, WriteLocked(t) \/ WriteFallback(t)
  PROVE  LogInv'
<1> DEFINE n == event[t].number
           rest == 0..(sequence - 1)
<1>1. /\ doing[t] = "writing"
      /\ UNCHANGED <<holder, event, sequence, activity, session, stopSent>>
  BY DEF WriteLocked, WriteFallback
<1>2. /\ n \in rest /\ ~records[n + 1].ok /\ n + 1 \in 1..Len(records) /\ n \in Nat
      /\ records[n + 1].name = event[t].name /\ records[n + 1].emergency = event[t].emergency
      /\ records[n + 1].told = event[t].told /\ n \in Writing /\ n \notin Written
  BY <1>1 DEF LogInv, LogTypeOK, ThreadsInv, InHand, Writing, Written
<1>3. PICK good \in BOOLEAN :
        /\ good => Wrote(t)
        /\ ~good => Failed(t)
        /\ \E more \in Seq(LogPieces) : Grows(n, more, good)
  <2>1. TRUE \in BOOLEAN /\ FALSE \in BOOLEAN
    OBVIOUS
  <2> HIDE DEF n
  <2>2. \/ Wrote(t) /\ \E more \in Seq(LogPieces) : Grows(n, more, TRUE)
        \/ Failed(t) /\ \E more \in Seq(LogPieces) : Grows(n, more, FALSE)
    BY LockedGrows, FallbackGrows DEF n
  <2> QED BY <2>1, <2>2
<1>4. PICK more \in Seq(LogPieces) : Grows(n, more, good)
  BY <1>3
<1>5. /\ doing'[t] \in {"noting", "leaving"}
      /\ doing'[t] = "noting" => good
      /\ \A u \in Threads \ {t} : doing'[u] = doing[u]
      /\ doing' \in [Threads -> LogPlaces]
  BY <1>3 DEF Wrote, Failed, LogInv, LogTypeOK, LogPlaces
<1>6. /\ records' \in Seq(LogRecords) /\ Len(records') = sequence
      /\ \A k \in 1..sequence : /\ records'[k].name = records[k].name
                                /\ records'[k].emergency = records[k].emergency
                                /\ records'[k].told = records[k].told
                                /\ k # n + 1 \/ ~good => records'[k].ok = records[k].ok
      /\ good => records'[n + 1].ok
  <2>1. CASE good
    <3>1. records' = [records EXCEPT ![n + 1].ok = TRUE]
      BY <1>3, <2>1 DEF Wrote
    <3>2. records[n + 1] \in LogRecords
      BY <1>2 DEF LogInv, LogTypeOK
    <3> DEFINE marked == [records[n + 1] EXCEPT !.ok = TRUE]
    <3>3. /\ marked \in LogRecords /\ marked.name = records[n + 1].name
          /\ marked.emergency = records[n + 1].emergency
          /\ marked.told = records[n + 1].told /\ marked.ok
      BY <3>2 DEF LogRecords
    <3>4. records' = [records EXCEPT ![n + 1] = marked]
      BY <3>1
    <3> HIDE DEF marked
    <3>5. records \in Seq(LogRecords) /\ Len(records) = sequence
      BY DEF LogInv, LogTypeOK
    <3>6. /\ records' \in Seq(LogRecords) /\ Len(records') = sequence
          /\ \A k \in 1..sequence : records'[k] = IF k = n + 1 THEN marked ELSE records[k]
      BY <1>2, <3>3, <3>4, <3>5
    <3> QED BY <1>2, <2>1, <3>3, <3>5, <3>6
  <2>2. CASE ~good
    BY <1>3, <2>2 DEF Failed, LogInv, LogTypeOK
  <2> QED BY <2>1, <2>2
<1> HIDE DEF n
<1>7. \A k \in rest : k + 1 \in 1..sequence /\ (k + 1 = n + 1 => k = n)
  BY <1>2 DEF LogInv, LogTypeOK
<1>8. Written' = Written \cup (IF good THEN {n} ELSE {})
  <2>1. ASSUME NEW k \in rest
        PROVE  records'[k + 1].ok <=> records[k + 1].ok \/ (good /\ k = n)
    BY <1>2, <1>6, <1>7
  <2> QED BY <1>1, <1>2, <2>1 DEF Written
<1>9. Writing' = Writing \ {n}
  <2>1. \A u \in Threads \ {t} : doing[u] = "writing" => event[u].number # n
    BY <1>1 DEF n, LogInv, ThreadsInv, InHand
  <2>2. \A u \in Threads : doing'[u] = "writing" <=> doing[u] = "writing" /\ u # t
    BY <1>5
  <2>3. {u \in Threads : doing'[u] = "writing"} = {u \in Threads : doing[u] = "writing"} \ {t}
    BY <2>2
  <2>4. Writing' = {event[u].number : u \in {w \in Threads : doing[w] = "writing"} \ {t}}
    BY <1>1, <2>3 DEF Writing
  <2> QED BY <2>1, <2>4 DEF Writing, n
<1>10. PiecesInv'
  BY <1>1, <1>2, <1>4, <1>8, <1>9, PiecesKept
<1>11. LogTypeOK'
  <2>1. logFile' \in Seq(LogPieces) /\ buffer' \in Seq(LogPieces)
    BY <1>4, PlacesOf DEF Grows
  <2>2. faults' \in Nat
    BY <1>3 DEF Wrote, Failed, LogInv, LogTypeOK
  <2> QED BY <1>1, <1>5, <1>6, <2>1, <2>2 DEF LogInv, LogTypeOK
<1>12. FaultsInv'
  <2>1. IsFiniteSet(Failing) /\ n \notin Failing
    <3>1. IsFiniteSet(rest)
      BY FS_Interval DEF LogInv, LogTypeOK
    <3> QED BY <1>2, <3>1, FS_Subset DEF Failing
  <2>2. Failing' = Failing \cup (IF good THEN {} ELSE {n})
    BY <1>1, <1>2, <1>8, <1>9 DEF Failing
  <2>3. faults' = faults + (IF good THEN 0 ELSE 1) /\ faults \in Nat
    BY <1>3 DEF Wrote, Failed, LogInv, LogTypeOK
  <2>4. Cardinality(Failing) \in Nat
    BY <2>1, FS_CardinalityType
  <2>5. CASE good
    BY <2>2, <2>3, <2>5 DEF LogInv, FaultsInv
  <2>6. CASE ~good
    <3>1. Cardinality(Failing') = Cardinality(Failing) + 1
      BY <2>1, <2>2, <2>6, FS_AddElement
    <3> QED BY <2>3, <2>4, <2>6, <3>1 DEF LogInv, FaultsInv
  <2> QED BY <2>5, <2>6
<1>13. ThreadsInv'
  <2>1. \A u \in Threads : doing'[u] \in InHand => doing[u] \in InHand
    BY <1>1, <1>5 DEF InHand
  <2>2. \A u \in Threads \ {t} : doing'[u] \in InHand => event[u].number # n
    BY <1>1, <2>1 DEF n, LogInv, ThreadsInv, InHand
  <2>3. \A u \in Threads \ {t} : doing'[u] \in InHand =>
          /\ event[u].number \in rest
          /\ records'[event[u].number + 1].ok = records[event[u].number + 1].ok
    BY <1>6, <1>7, <2>1, <2>2 DEF LogInv, ThreadsInv
  <2>4. \A u \in Threads : doing'[u] \in InHand =>
          /\ event'[u].number \in 0..(sequence' - 1)
          /\ records'[event'[u].number + 1].name = event'[u].name
          /\ records'[event'[u].number + 1].emergency = event'[u].emergency
          /\ records'[event'[u].number + 1].told = event'[u].told
    BY <1>1, <1>6, <1>7, <2>1 DEF LogInv, ThreadsInv
  <2>5. \A u \in Threads : /\ doing'[u] = "writing" => ~records'[event'[u].number + 1].ok
                           /\ doing'[u] = "noting" => records'[event'[u].number + 1].ok
    <3>1. ASSUME NEW u \in Threads \ {t}
          PROVE  /\ doing'[u] = "writing" => ~records'[event'[u].number + 1].ok
                 /\ doing'[u] = "noting" => records'[event'[u].number + 1].ok
      BY <1>1, <1>5, <2>3 DEF LogInv, ThreadsInv, InHand
    <3>2. doing'[t] # "writing" /\ (doing'[t] = "noting" => records'[event'[t].number + 1].ok)
      BY <1>1, <1>5, <1>6 DEF n
    <3> QED BY <3>1, <3>2
  <2>6. \A u, v \in Threads :
          u # v /\ doing'[u] \in InHand /\ doing'[v] \in InHand =>
            event'[u].number # event'[v].number
    BY <1>1, <2>1 DEF LogInv, ThreadsInv
  <2> QED BY <2>4, <2>5, <2>6 DEF ThreadsInv
<1>14. LockInv'
  BY <1>1, <1>5 DEF LogInv, LockInv, InHand
<1>15. ToldInv'
  <2>1. Tellable \subseteq Tellable'
    BY <1>6, <1>7, <1>8 DEF Tellable, Written
  <2>2. \A k \in rest : records'[k + 1].told = records[k + 1].told
    BY <1>6, <1>7
  <2> QED BY <1>1, <2>1, <2>2 DEF LogInv, ToldInv
<1>16. /\ \A m \in Written : \A i \in DOMAIN logFile' :
            /\ logFile'[i] = <<m, "head">> => i \in DOMAIN logFile /\ logFile[i] = <<m, "head">>
            /\ logFile'[i] = <<m, "tail">> => i \in DOMAIN logFile /\ logFile[i] = <<m, "tail">>
       /\ \A m \in Written : \A i, j \in DOMAIN logFile' :
            /\ logFile'[i] = <<m, "head">> /\ logFile'[j] = <<n, "head">> => i < j
            /\ logFile'[i] = <<m, "tail">> /\ logFile'[j] = <<n, "head">> => i < j
  BY <1>2, <1>4, <1>10, StaysAhead
<1>17. \A m \in Written' : m \in Written \/ (good /\ m = n)
  BY <1>8
<1>18. AheadInv'
  <2> SUFFICES ASSUME NEW m \in Written', records'[m + 1].name = Heart,
                      records'[m + 1].told # NoRecord,
                      NEW i \in DOMAIN logFile', NEW j \in DOMAIN logFile',
                      logFile'[i] = <<records'[m + 1].told, "tail">>,
                      logFile'[j] = <<m, "head">>
               PROVE  i < j
    BY DEF AheadInv
  <2>1. m \in rest
    BY <1>2, <1>17 DEF Written
  <2>2. records'[m + 1].name = records[m + 1].name /\ records'[m + 1].told = records[m + 1].told
    BY <1>6, <1>7, <2>1
  <2>3. records[m + 1].told \in Written
    BY <2>1, <2>2 DEF LogInv, ToldInv, Tellable
  <2>4. CASE m \in Written
    BY <1>16, <2>2, <2>3, <2>4 DEF LogInv, AheadInv
  <2>5. CASE m = n
    BY <1>16, <2>2, <2>3, <2>5
  <2> QED BY <1>17, <2>4, <2>5
<1>19. OrderInv'
  <2>1. ASSUME NEW u \in Threads, doing'[u] = "writing", ~event'[u].emergency,
               NEW k \in 0..(sequence' - 1), k > event'[u].number
        PROVE  records'[k + 1].emergency
    <3>1. doing[u] = "writing" /\ event'[u] = event[u] /\ k \in rest
      BY <1>1, <1>5, <2>1
    <3>2. records[k + 1].emergency
      BY <2>1, <3>1 DEF LogInv, OrderInv
    <3> QED BY <1>6, <1>7, <3>1, <3>2
  <2>2. ASSUME NEW m \in Written', NEW k \in Written', m < k,
               ~records'[m + 1].emergency, ~records'[k + 1].emergency,
               NEW i \in DOMAIN logFile', NEW j \in DOMAIN logFile',
               logFile'[i] = <<m, "head">>, logFile'[j] = <<k, "head">>
        PROVE  i < j
    <3>1. m \in rest /\ k \in rest
      BY <1>2, <1>17 DEF Written
    <3>2. ~records[m + 1].emergency /\ ~records[k + 1].emergency
      BY <1>6, <1>7, <2>2, <3>1
    <3>3. CASE m \in Written /\ k \in Written
      BY <1>16, <2>2, <3>2, <3>3 DEF LogInv, OrderInv
    <3>4. CASE m \in Written /\ k = n
      BY <1>16, <2>2, <3>4
    <3>5. CASE m = n /\ k \in rest
      <4>1. ~event[t].emergency
        BY <1>2, <3>2, <3>5
      <4>2. records[k + 1].emergency
        BY <1>1, <2>2, <3>5, <4>1 DEF LogInv, OrderInv, n
      <4> QED BY <3>2, <4>2
    <3> QED BY <1>17, <3>1, <3>3, <3>4, <3>5
  <2> QED BY <2>1, <2>2 DEF OrderInv
<1>20. SessionInv'
  <2>1. \A k \in rest : records'[k + 1].name = records[k + 1].name
    BY <1>6, <1>7
  <2>2. Main \in Threads /\ Heart \in Threads /\ Workers \subseteq Threads
    BY DEF Threads
  <2>3. \A u \in Threads : /\ doing'[u] \in {"idle", "ended"} <=> doing[u] \in {"idle", "ended"}
                           /\ doing'[u] \in {"asking", "numbering"} <=> doing[u] \in {"asking", "numbering"}
                           /\ doing'[u] = "ended" <=> doing[u] = "ended"
    BY <1>1, <1>5
  <2>4. \A k \in 0..(sequence' - 1) : records'[k + 1].name = "session_end" =>
          k = sequence' - 1 /\ session' = "ended" /\ doing'[Main] \notin {"asking", "numbering"}
    BY <1>1, <2>1, <2>2, <2>3 DEF LogInv, SessionInv
  <2> QED BY <1>1, <2>2, <2>3, <2>4 DEF LogInv, SessionInv
<1> QED
  BY <1>10, <1>11, <1>12, <1>13, <1>14, <1>15, <1>18, <1>19, <1>20 DEF LogInv

\* The inductive invariant holds in every behaviour of the log.
THEOREM LogInductive == LogSpec => []LogInv
<1>1. LogInit => LogInv
  <2> SUFFICES ASSUME LogInit PROVE LogInv
    OBVIOUS
  <2>1. LogTypeOK
    <3>1. NoEvent \in LogEvents /\ "idle" \in LogPlaces
      BY DEF NoEvent, LogRecord, LogEvents, Names, LogPlaces
    <3>2. event \in [Threads -> LogEvents] /\ doing \in [Threads -> LogPlaces]
      BY <3>1 DEF LogInit
    <3>3. /\ logFile \in Seq(LogPieces) /\ buffer \in Seq(LogPieces)
          /\ records \in Seq(LogRecords) /\ Len(records) = 0
      BY DEF LogInit
    <3> QED BY <3>2, <3>3 DEF LogInit, LogTypeOK
  <2>2. 0..(sequence - 1) = {} /\ Written = {} /\ DOMAIN logFile = {} /\ DOMAIN buffer = {}
    BY DEF LogInit, Written
  <2>3. \A t \in Threads : doing[t] = "idle" /\ event[t].told = NoRecord
    BY DEF LogInit, NoEvent, LogRecord
  <2>4. ThreadsInv /\ LockInv /\ PiecesInv /\ AheadInv /\ OrderInv
    BY <2>2, <2>3 DEF ThreadsInv, LockInv, InHand, PiecesInv, AheadInv, OrderInv
  <2>5. FaultsInv
    <3>1. Failing = {}
      BY <2>2 DEF Failing
    <3> QED BY <3>1, FS_EmptySet DEF FaultsInv, LogInit
  <2>6. ToldInv
    BY <2>2, <2>3 DEF ToldInv, Tellable, LogInit
  <2>7. SessionInv
    BY <2>2, <2>3 DEF SessionInv, LogInit
  <2> QED BY <2>1, <2>4, <2>5, <2>6, <2>7 DEF LogInv
<1>2. LogInv /\ [LogNext]_logVars => LogInv'
  <2> SUFFICES ASSUME LogInv, [LogNext]_logVars PROVE LogInv'
    OBVIOUS
  <2>1. ASSUME NEW t \in Threads, WriteEvent(t) PROVE LogInv'
    BY <2>1, AskKeeps, NumberKeeps, WriteKeeps, NoteKeeps DEF WriteEvent
  <2>2. CASE UNCHANGED logVars
    <3>1. Quiet
      BY <2>2 DEF logVars, Quiet
    <3>2. LogTypeOK' /\ ThreadsInv' /\ LockInv'
      BY <2>2 DEF logVars, LogInv, LogTypeOK, ThreadsInv, LockInv
    <3>3. ToldInv' /\ SessionInv'
      BY <2>2 DEF logVars, LogInv, ToldInv, Tellable, Written, SessionInv
    <3> QED BY <3>1, <3>2, <3>3, QuietKeeps DEF LogInv
  <2> QED BY <2>1, <2>2, SessionKeeps DEF LogNext
<1> QED
  BY <1>1, <1>2, PTL DEF LogSpec

\* A piece that is in the file has one position.
LEMMA PositionIs ==
  ASSUME PiecesInv, NEW piece, NEW i \in DOMAIN logFile, logFile[i] = piece
  PROVE  Position(piece) = i
BY DEF PiecesInv, Position

\* Where a record is that was written.
LEMMA WrittenIsAt ==
  ASSUME LogInv, NEW n \in Written
  PROVE  /\ n \in 0..(sequence - 1) /\ InFile(n)
         /\ Position(<<n, "head">>) \in DOMAIN logFile
         /\ Position(<<n, "head">>) + 1 \in DOMAIN logFile
         /\ Position(<<n, "tail">>) = Position(<<n, "head">>) + 1
         /\ logFile[Position(<<n, "head">>)] = <<n, "head">>
         /\ logFile[Position(<<n, "head">>) + 1] = <<n, "tail">>
<1>1. n \in 0..(sequence - 1) /\ n \in Nat
  BY DEF Written, LogInv, LogTypeOK
<1>2. PICK i \in DOMAIN logFile :
        i + 1 \in DOMAIN logFile /\ logFile[i] = <<n, "head">> /\ logFile[i + 1] = <<n, "tail">>
  BY DEF LogInv, PiecesInv
<1>3. Position(<<n, "head">>) = i /\ Position(<<n, "tail">>) = i + 1
  BY <1>2, PositionIs DEF LogInv
<1>4. InFile(n)
  <2>1. Range(Pieces(n)) \subseteq {<<n, "head">>, <<n, "tail">>}
    <3>1. DOMAIN Pieces(n) = 1..2 /\ \A k \in 1..2 : k = 1 \/ k = 2
      BY <1>1, PiecesOf
    <3> QED BY <1>1, <3>1, PiecesOf DEF Range
  <2>2. <<n, "head">> \in Range(logFile) /\ <<n, "tail">> \in Range(logFile)
    BY <1>2 DEF Range
  <2> QED BY <2>1, <2>2 DEF InFile
<1> QED BY <1>1, <1>2, <1>3, <1>4

\* A line that is not a record's own follows a failed record, each another's.
LEMMA DamageIsBounded ==
  ASSUME LogInv
  PROVE  DamageBounded
<1> DEFINE Spoiled == {n \in Written : ~OwnLine(n)}
           before(n) == Position(<<n, "head">>) - 1
           spoiler == [n \in Spoiled |-> logFile[before(n)][1]]
<1>1. logFile \in Seq(LogPieces) /\ DOMAIN logFile = 1..Len(logFile) /\ Len(logFile) \in Nat
  BY DEF LogInv, LogTypeOK
<1>2. ASSUME NEW n \in Spoiled
      PROVE  /\ before(n) \in DOMAIN logFile
             /\ logFile[before(n)][1] \in Failing
             /\ logFile[before(n)] = <<logFile[before(n)][1], "head">>
  <2> DEFINE i == Position(<<n, "head">>)
             m == logFile[i - 1][1]
  <2>1. /\ i \in DOMAIN logFile /\ i + 1 \in DOMAIN logFile /\ InFile(n)
        /\ logFile[i] = <<n, "head">> /\ logFile[i + 1] = <<n, "tail">>
    BY WrittenIsAt
  <2>2. i > 1 /\ logFile[i - 1][2] # "tail"
    BY <2>1 DEF OwnLine
  <2> HIDE DEF i
  <2>3. i - 1 \in DOMAIN logFile /\ (i - 1) + 1 = i
    BY <1>1, <2>1, <2>2
  <2>4. logFile[i - 1] = <<m, "head">>
    <3>1. logFile[i - 1] \in LogPieces
      BY <1>1, <2>3
    <3> QED BY <2>2, <3>1 DEF LogPieces
  <2>5. m \in (0..(sequence - 1)) \ Writing
    BY <2>3 DEF LogInv, PiecesInv
  <2> HIDE DEF m
  <2>6. m \notin Written
    <3>1. SUFFICES ASSUME m \in Written PROVE FALSE
      OBVIOUS
    <3>2. PICK k \in DOMAIN logFile :
            k + 1 \in DOMAIN logFile /\ logFile[k] = <<m, "head">> /\ logFile[k + 1] = <<m, "tail">>
      BY <3>1 DEF LogInv, PiecesInv
    <3>3. k = i - 1
      BY <2>3, <2>4, <3>2 DEF LogInv, PiecesInv
    <3> QED BY <2>1, <2>3, <3>2, <3>3
  <2>7. m \in Failing
    BY <2>5, <2>6 DEF Failing
  <2> QED BY <2>3, <2>4, <2>7 DEF i, m
<1>3. ASSUME NEW n \in Spoiled, NEW k \in Spoiled,
             logFile[before(n)][1] = logFile[before(k)][1]
      PROVE  n = k
  <2>1. before(n) = before(k)
    BY <1>2, <1>3 DEF LogInv, PiecesInv
  <2>2. /\ Position(<<n, "head">>) \in DOMAIN logFile /\ Position(<<k, "head">>) \in DOMAIN logFile
        /\ logFile[Position(<<n, "head">>)] = <<n, "head">>
        /\ logFile[Position(<<k, "head">>)] = <<k, "head">>
    BY WrittenIsAt
  <2>3. Position(<<n, "head">>) = Position(<<k, "head">>)
    BY <1>1, <2>1, <2>2
  <2> QED BY <2>2, <2>3
<1>4. spoiler \in Injection(Spoiled, Failing)
  BY <1>2, <1>3 DEF Injection, IsInjective
<1>5. IsFiniteSet(Failing)
  <2>1. IsFiniteSet(0..(sequence - 1)) /\ Failing \subseteq 0..(sequence - 1)
    <3>1. 0 \in Int /\ sequence - 1 \in Int
      BY DEF LogInv, LogTypeOK
    <3> QED BY <3>1, FS_Interval DEF Failing
  <2> QED BY <2>1, FS_Subset
<1>6. /\ IsFiniteSet(Spoiled) /\ Cardinality(Spoiled) <= Cardinality(Failing)
  BY <1>4, <1>5, FS_Injection
<1>7. Cardinality(Spoiled) \in Nat /\ Cardinality(Failing) \in Nat /\ faults \in Nat
  BY <1>5, <1>6, FS_CardinalityType DEF LogInv, LogTypeOK
<1> HIDE DEF Spoiled
<1>8. Cardinality(Spoiled) <= faults
  BY <1>6, <1>7 DEF LogInv, FaultsInv
<1> QED BY <1>8 DEF DamageBounded, Spoiled

\* Write failures, panics and heartbeats leave a log that can be read: each
\* failed write spoils one line at most, a heartbeat tells of what was written
\* before it, and only a panic that goes past the lock is out of order.
THEOREM LogsCanBeRead == LogSpec => []LogSound
<1>1. LogInv => LogSound
  <2> SUFFICES ASSUME LogInv PROVE LogSound
    OBVIOUS
  <2>1. sequence \in Nat /\ Written \subseteq 0..(sequence - 1)
    BY DEF LogInv, LogTypeOK, Written
  <2>2. HeartbeatsTellTrue
    <3> SUFFICES ASSUME NEW n \in Written, records[n + 1].name = Heart,
                        records[n + 1].told # NoRecord
                 PROVE  /\ records[n + 1].told \in Written
                        /\ records[records[n + 1].told + 1].name # Heart
                        /\ Position(<<records[n + 1].told, "tail">>) < Position(<<n, "head">>)
      BY DEF HeartbeatsTellTrue
    <3>1. records[n + 1].told \in Written /\ records[records[n + 1].told + 1].name # Heart
      BY <2>1 DEF LogInv, ToldInv, Tellable
    <3>2. /\ Position(<<records[n + 1].told, "tail">>) \in DOMAIN logFile
          /\ logFile[Position(<<records[n + 1].told, "tail">>)] = <<records[n + 1].told, "tail">>
          /\ Position(<<n, "head">>) \in DOMAIN logFile
          /\ logFile[Position(<<n, "head">>)] = <<n, "head">>
      BY <3>1, WrittenIsAt
    <3> QED BY <3>1, <3>2 DEF LogInv, AheadInv
  <2>3. RecordsInOrder
    <3> SUFFICES ASSUME NEW m \in Written, NEW n \in Written, m < n
                 PROVE  /\ records[m + 1].name # "session_end"
                        /\ ~records[m + 1].emergency /\ ~records[n + 1].emergency
                             => Position(<<m, "head">>) < Position(<<n, "head">>)
      BY DEF RecordsInOrder
    <3>1. records[m + 1].name # "session_end"
      BY <2>1 DEF LogInv, SessionInv
    <3>2. /\ Position(<<m, "head">>) \in DOMAIN logFile /\ Position(<<n, "head">>) \in DOMAIN logFile
          /\ logFile[Position(<<m, "head">>)] = <<m, "head">>
          /\ logFile[Position(<<n, "head">>)] = <<n, "head">>
      BY WrittenIsAt
    <3> QED BY <3>1, <3>2 DEF LogInv, OrderInv
  <2> QED BY <2>2, <2>3, DamageIsBounded DEF LogSound
<1> QED
  BY <1>1, LogInductive, PTL

-------------------------------------------------------------------------------
(* Updater.                                                                *)
USE UpdaterAssumption

Compared == {"checked", "staged", "copied", "replaced", "rollback"}
Staged == {"staged", "copied", "replaced", "rollback"}
Untouched == {"started", "checked", "staged", "copied"}
Replaced == {"replaced", "rollback"}

\* What an update holds in hand at each of its places.
HandsInv ==
  \A u \in Updaters :
    /\ place[u] \in Staged => target[u] \in Releases
    /\ place[u] \in {"copied"} \cup Replaced => backup[u] \in Releases
    /\ place[u] \notin Ended => running[u] \in Releases

\* What a lone update has seen still holds, until it changes it itself.
LoneInv ==
  ~overlapped =>
    /\ \A u, v \in Updaters : u = v \/ place[u] \in Ended \/ place[v] \in Ended
    /\ \A u \in Updaters :
         /\ place[u] \in Untouched => running[u] = executable
         /\ place[u] \in Compared => running[u] = receipt
         /\ place[u] \in Staged => target[u] > running[u]
         /\ place[u] = "copied" => backup[u] = executable
         /\ place[u] \in Replaced => backup[u] = receipt /\ executable = target[u]

UpdaterInv == UpdaterTypeOK /\ HandsInv /\ LoneInv /\ PairAgrees

\* Steps that leave what is installed alone.
LEMMA QuietStepKeeps ==
  ASSUME UpdaterInv, NEW u \in Updaters,
         \/ StartUpdate(u) \/ Fail(u) \/ CheckReceipt(u) \/ FindCurrent(u)
         \/ Stage(u) \/ BackUp(u) \/ CrashUpdate(u)
  PROVE  UpdaterInv'
<1> USE DEF GoTo, Places, Ended, Releases
<1>1. UpdaterTypeOK'
  <2>1. CASE StartUpdate(u)
    BY <2>1 DEF UpdaterInv, UpdaterTypeOK, StartUpdate
  <2>2. CASE Fail(u) \/ CheckReceipt(u) \/ FindCurrent(u) \/ CrashUpdate(u)
    BY <2>2 DEF UpdaterInv, UpdaterTypeOK, Fail, CheckReceipt, FindCurrent, CrashUpdate
  <2>3. CASE Stage(u)
    BY <2>3 DEF UpdaterInv, UpdaterTypeOK, Stage
  <2>4. CASE BackUp(u)
    BY <2>4 DEF UpdaterInv, UpdaterTypeOK, BackUp
  <2> QED
    BY <2>1, <2>2, <2>3, <2>4
<1>2. HandsInv'
  BY DEF UpdaterInv, UpdaterTypeOK, HandsInv, Staged, Replaced, StartUpdate, Fail,
         CheckReceipt, FindCurrent, Stage, BackUp, CrashUpdate
<1>3. CASE StartUpdate(u)
  <2>1. LoneInv'
    BY <1>3 DEF UpdaterInv, UpdaterTypeOK, LoneInv, Untouched, Compared, Staged,
                Replaced, StartUpdate
  <2>2. PairAgrees'
    BY <1>3 DEF UpdaterInv, UpdaterTypeOK, PairAgrees, InTheMiddle, StartUpdate
  <2> QED
    BY <1>1, <1>2, <2>1, <2>2 DEF UpdaterInv
<1>4. CASE Fail(u) \/ CheckReceipt(u) \/ FindCurrent(u) \/ Stage(u) \/ BackUp(u)
  <2>1. LoneInv'
    BY <1>4 DEF UpdaterInv, UpdaterTypeOK, HandsInv, LoneInv, Untouched, Compared,
                Staged, Replaced, Fail, CheckReceipt, FindCurrent, Stage, BackUp
  <2>2. PairAgrees'
    BY <1>4 DEF UpdaterInv, UpdaterTypeOK, PairAgrees, InTheMiddle, Fail,
                CheckReceipt, FindCurrent, Stage, BackUp
  <2> QED
    BY <1>1, <1>2, <2>1, <2>2 DEF UpdaterInv
<1>5. CASE CrashUpdate(u)
  <2>1. LoneInv'
    BY <1>5 DEF UpdaterInv, UpdaterTypeOK, LoneInv, Untouched, Compared, Staged,
                Replaced, CrashUpdate
  <2>2. PairAgrees'
    BY <1>5 DEF UpdaterInv, UpdaterTypeOK, PairAgrees, InTheMiddle, CrashUpdate
  <2> QED
    BY <1>1, <1>2, <2>1, <2>2 DEF UpdaterInv
<1> QED
  BY <1>3, <1>4, <1>5

\* The three steps that replace a file.
LEMMA ReplacementKeeps ==
  ASSUME UpdaterInv, NEW u \in Updaters,
         PersistBinary(u) \/ PersistReceipt(u) \/ RollBack(u)
  PROVE  UpdaterInv'
<1> USE DEF GoTo, Places, Ended, Releases
<1>1. UpdaterTypeOK' /\ HandsInv'
  BY DEF UpdaterInv, UpdaterTypeOK, HandsInv, Staged, Replaced, PersistBinary,
         PersistReceipt, RollBack
<1>2. LoneInv'
  BY DEF UpdaterInv, UpdaterTypeOK, HandsInv, LoneInv, Untouched, Compared, Staged,
         Replaced, PersistBinary, PersistReceipt, RollBack
<1>3. CASE PersistBinary(u)
  <2>1. place'[u] = "replaced"
    BY <1>3 DEF PersistBinary, UpdaterInv, UpdaterTypeOK
  <2> QED
    BY <1>1, <1>2, <2>1 DEF UpdaterInv, PairAgrees, InTheMiddle
<1>4. CASE PersistReceipt(u)
  <2>1. PairAgrees'
    BY <1>2, <1>4 DEF UpdaterInv, UpdaterTypeOK, LoneInv, PairAgrees, InTheMiddle,
                      Replaced, PersistReceipt
  <2> QED
    BY <1>1, <1>2, <2>1 DEF UpdaterInv
<1>5. CASE RollBack(u)
  <2>1. PairAgrees'
    BY <1>5 DEF UpdaterInv, UpdaterTypeOK, LoneInv, PairAgrees, InTheMiddle,
                Replaced, RollBack
  <2> QED
    BY <1>1, <1>2, <2>1 DEF UpdaterInv
<1> QED
  BY <1>3, <1>4, <1>5

\* What a lone `reposcout update` has compared, staged and copied still holds at
\* its next step, whatever other processes do and wherever one of them crashes.
THEOREM UpdaterInductive == UpdaterSpec => []UpdaterInv
<1>1. UpdaterInit => UpdaterInv
  <2> SUFFICES ASSUME UpdaterInit PROVE UpdaterInv
    OBVIOUS
  <2>1. \A u \in Updaters : place[u] = "idle"
    BY DEF UpdaterInit
  <2>2. UpdaterTypeOK
    <3>1. 1 \in Releases /\ 0 \in 0 .. MaxUpdates /\ "idle" \in Places
      BY DEF Releases, Places
    <3> QED
      BY <3>1 DEF UpdaterInit, UpdaterTypeOK
  <2>3. HandsInv /\ LoneInv
    BY <2>1 DEF HandsInv, LoneInv, Ended, Untouched, Compared, Staged, Replaced
  <2> QED
    BY <2>2, <2>3 DEF UpdaterInit, UpdaterInv, PairAgrees
<1>2. UpdaterInv /\ [UpdaterNext]_updateVars => UpdaterInv'
  <2>1. ASSUME UpdaterInv, Publish PROVE UpdaterInv'
    BY <2>1 DEF UpdaterInv, UpdaterTypeOK, HandsInv, LoneInv, PairAgrees,
                InTheMiddle, Publish, Releases
  <2>2. ASSUME UpdaterInv, UNCHANGED updateVars PROVE UpdaterInv'
    BY <2>2 DEF UpdaterInv, UpdaterTypeOK, HandsInv, LoneInv, PairAgrees,
                InTheMiddle, updateVars
  <2> QED
    BY <2>1, <2>2, QuietStepKeeps, ReplacementKeeps DEF UpdaterNext, UpdateStep
<1> QED
  BY <1>1, <1>2, PTL DEF UpdaterSpec

\* Every variable keeps its type; what is installed is always a release.
THEOREM UpdaterTypeCorrect == UpdaterSpec => []UpdaterTypeOK
<1>1. UpdaterInv => UpdaterTypeOK
  BY DEF UpdaterInv
<1> QED
  BY <1>1, UpdaterInductive, PTL

\* Executable and receipt name the same release whenever no update is between
\* its two replacements, unless one crashed there or two updates ran at once.
THEOREM InstallationsAgree == UpdaterSpec => []PairAgrees
<1>1. UpdaterInv => PairAgrees
  BY DEF UpdaterInv
<1> QED
  BY <1>1, UpdaterInductive, PTL

\* The rollback copy of a lone update is the release that the receipt names.
THEOREM RollbackRestores == UpdaterSpec => []FailureRestores
<1>1. UpdaterInv => FailureRestores
  BY DEF UpdaterInv, HandsInv, LoneInv, FailureRestores, Replaced, Staged, Compared
<1> QED
  BY <1>1, UpdaterInductive, PTL

\* What install leaves behind: a pair that agrees, or the pair that it found.
THEOREM InstallationsSound == UpdaterSpec => []InstallationSound
<1>1. PairAgrees /\ FailureRestores => InstallationSound
  BY DEF InstallationSound
<1> QED
  BY <1>1, InstallationsAgree, RollbackRestores, PTL

\* A lone update leaves a pair that disagrees as it found it.
THEOREM TornPairsRefused == UpdaterSpec => TornPairIsRefused
<1>1. UpdaterInv /\ [UpdaterNext]_updateVars
        => [~overlapped /\ ~InTheMiddle /\ executable # receipt
              => UNCHANGED <<executable, receipt>>]_updateVars
  <2> SUFFICES ASSUME UpdaterInv, UpdaterNext, ~overlapped, ~InTheMiddle,
                      executable # receipt
               PROVE  UNCHANGED <<executable, receipt>>
    OBVIOUS
  <2>1. \A u \in Updaters : ~PersistBinary(u)
    BY DEF PersistBinary, UpdaterInv, LoneInv, Untouched, Compared
  <2>2. \A u \in Updaters : ~PersistReceipt(u) /\ ~RollBack(u)
    BY DEF PersistReceipt, RollBack, InTheMiddle
  <2> QED
    BY <2>1, <2>2 DEF UpdaterNext, UpdateStep, Publish, StartUpdate, Fail,
       CheckReceipt, FindCurrent, Stage, BackUp, CrashUpdate
<1> QED
  BY <1>1, UpdaterInductive, PTL DEF UpdaterSpec, TornPairIsRefused

--------------------------------------------------------------------------------
USE TokenAssumption

Stages == {"down", "bound", "created", "written", "removed", "serving"}

\* A daemon that is not down holds its address, one daemon at a time, has drawn
\* a token, and its temporary file is written before it is renamed.
HolderInv ==
  /\ starts \in Nat
  /\ stage \in [Daemons -> Stages]
  /\ draft \in [Daemons -> Nat \cup {NoToken}]
  /\ token \in [Daemons -> Nat \cup {NoToken}]
  /\ address \in [Daemons -> Addresses]
  /\ listener \in [Addresses -> SUBSET Daemons]
  /\ bound \subseteq Addresses /\ IsFiniteSet(bound)
  /\ \A d \in Daemons :
       stage[d] # "down" =>
         /\ listener[address[d]] = {d}
         /\ address[d] \in bound
         /\ token[d] \in 1..starts
  /\ \A d \in Daemons :
       stage[d] \in {"written", "removed"} => draft[d] = token[d]

\* As long as all daemons that got through were given one address, only the one
\* that listens has a hand on the file.
FiledInv ==
  \A d \in Daemons :
    stage[d] = "serving" /\ (\E a : bound = {a}) => tokenFile = token[d]

TokenInv == HolderInv /\ TokenFileWhole /\ FiledInv

\* Two daemons that are not down were given different addresses.
LEMMA OneHolderEach ==
  ASSUME HolderInv, NEW d \in Daemons, NEW e \in Daemons, d # e,
         stage[d] # "down", stage[e] # "down"
  PROVE  address[d] # address[e] /\ ~(\E a : bound = {a})
BY DEF HolderInv

\* A daemon binds its port, draws a token and takes over the address.
LEMMA BindKeeps ==
  ASSUME TokenInv, NEW d \in Daemons, Bind(d) PROVE TokenInv'
<1>1. /\ starts' = starts + 1 /\ starts' \in Nat
      /\ \A e \in Daemons : stage'[e] = IF e = d THEN "bound" ELSE stage[e]
      /\ \A e \in Daemons : token'[e] = IF e = d THEN starts' ELSE token[e]
      /\ \A e \in Daemons :
           listener'[address[e]] = IF address[e] = address[d] THEN {d}
                                   ELSE listener[address[e]]
      /\ bound' = bound \cup {address[d]}
      /\ UNCHANGED <<address, draft, tokenFile>>
  BY DEF Bind, TokenInv, HolderInv
<1>2. stage[d] = "down" /\ listener[address[d]] = {}
  BY DEF Bind, Nobody
<1>3. \A e \in Daemons : stage[e] # "down" => address[e] # address[d]
  BY <1>2 DEF TokenInv, HolderInv
<1>4. HolderInv'
  <2>1. /\ stage' \in [Daemons -> Stages]
        /\ token' \in [Daemons -> Nat \cup {NoToken}]
        /\ listener' \in [Addresses -> SUBSET Daemons]
        /\ bound' \subseteq Addresses /\ IsFiniteSet(bound')
    <3>1. bound' \subseteq Addresses /\ IsFiniteSet(bound')
      <4>1. bound \subseteq Addresses /\ IsFiniteSet(bound) /\ address[d] \in Addresses
        BY DEF TokenInv, HolderInv
      <4>2. IsFiniteSet(bound \cup {address[d]})
        BY <4>1, FS_AddElement
      <4> QED BY <1>1, <4>1, <4>2
    <3>2. /\ stage' \in [Daemons -> Stages]
          /\ token' \in [Daemons -> Nat \cup {NoToken}]
          /\ listener' \in [Addresses -> SUBSET Daemons]
      BY DEF Bind, TokenInv, HolderInv, Stages
    <3> QED BY <3>1, <3>2
  <2>2. \A e \in Daemons : stage'[e] # "down" =>
          /\ listener'[address[e]] = {e}
          /\ address[e] \in bound'
          /\ token'[e] \in 1..starts'
    BY <1>1, <1>3 DEF TokenInv, HolderInv
  <2>3. \A e \in Daemons : stage'[e] \in {"written", "removed"} => draft[e] = token'[e]
    BY <1>1 DEF TokenInv, HolderInv
  <2> QED
    BY <1>1, <2>1, <2>2, <2>3 DEF TokenInv, HolderInv
<1>5. TokenFileWhole'
  BY <1>1 DEF TokenInv, HolderInv, TokenFileWhole
<1>6. FiledInv'
  BY <1>1, <1>3 DEF TokenInv, HolderInv, FiledInv
<1> QED
  BY <1>4, <1>5, <1>6 DEF TokenInv

\* The temporary token file is created, written and synced, or is not.
LEMMA DraftKeeps ==
  ASSUME TokenInv, NEW d \in Daemons, Create(d) \/ WriteOut(d) \/ RemoveOld(d)
  PROVE  TokenInv'
<1>1. /\ stage[d] \in {"bound", "created", "written"}
      /\ stage'[d] \in {"created", "written", "removed"}
      /\ \A e \in Daemons : e # d => stage'[e] = stage[e] /\ draft'[e] = draft[e]
      /\ stage'[d] = "written" => draft'[d] = token[d]
      /\ stage'[d] = "removed" => stage[d] = "written" /\ draft'[d] = draft[d]
      /\ stage' \in [Daemons -> Stages]
      /\ UNCHANGED <<address, listener, token, starts, bound>>
  BY DEF Create, WriteOut, RemoveOld, Advance, TokenInv, HolderInv, Stages
<1>2. draft' \in [Daemons -> Nat \cup {NoToken}]
  BY DEF Create, WriteOut, RemoveOld, Half, TokenInv, HolderInv
<1>3. tokenFile' = tokenFile \/ tokenFile' = NoToken
  BY DEF Create, WriteOut, RemoveOld
<1>4. HolderInv'
  BY <1>1, <1>2 DEF TokenInv, HolderInv
<1>5. TokenFileWhole'
  BY <1>1, <1>3 DEF TokenInv, TokenFileWhole
<1>6. FiledInv'
  <2> SUFFICES ASSUME NEW e \in Daemons, stage'[e] = "serving",
                      \E a : bound' = {a}
               PROVE  FALSE
    BY DEF FiledInv
  <2>1. e # d /\ stage[e] # "down" /\ stage[d] # "down" /\ bound' = bound
    BY <1>1
  <2> QED
    BY <2>1, OneHolderEach DEF TokenInv
<1> QED
  BY <1>4, <1>5, <1>6 DEF TokenInv

\* The old token is gone by then; the new one is renamed into place.
LEMMA InstallKeeps ==
  ASSUME TokenInv, NEW d \in Daemons, Install(d) PROVE TokenInv'
<1>1. /\ stage[d] = "removed" /\ stage'[d] = "serving"
      /\ \A e \in Daemons : e # d => stage'[e] = stage[e] /\ draft'[e] = draft[e]
      /\ stage' \in [Daemons -> Stages]
      /\ draft' \in [Daemons -> Nat \cup {NoToken}]
      /\ tokenFile' = draft[d]
      /\ UNCHANGED <<address, listener, token, starts, bound>>
  BY DEF Install, Advance, TokenInv, HolderInv, Stages
<1>2. tokenFile' = token[d] /\ token[d] \in 1..starts
  BY <1>1 DEF TokenInv, HolderInv
<1>3. HolderInv'
  BY <1>1 DEF TokenInv, HolderInv
<1>4. TokenFileWhole'
  BY <1>1, <1>2 DEF TokenFileWhole
<1>5. FiledInv'
  <2> SUFFICES ASSUME NEW e \in Daemons, stage'[e] = "serving", \E a : bound' = {a}
               PROVE  tokenFile' = token'[e]
    BY DEF FiledInv
  <2>1. e = d
    <3> SUFFICES ASSUME e # d PROVE FALSE
      OBVIOUS
    <3>1. stage[e] # "down" /\ stage[d] # "down" /\ bound' = bound
      BY <1>1
    <3> QED
      BY <3>1, OneHolderEach DEF TokenInv
  <2> QED
    BY <1>1, <1>2, <2>1
<1> QED
  BY <1>3, <1>4, <1>5 DEF TokenInv

\* A daemon serves and ends, fails or is killed.
LEMMA StopKeeps ==
  ASSUME TokenInv, NEW d \in Daemons, Stop(d) PROVE TokenInv'
<1>1. /\ stage'[d] = "down"
      /\ \A e \in Daemons : e # d => stage'[e] = stage[e]
      /\ stage' \in [Daemons -> Stages]
      /\ \A a \in Addresses : listener'[a] = listener[a] \ {d}
      /\ listener' \in [Addresses -> SUBSET Daemons]
      /\ UNCHANGED <<address, token, draft, tokenFile, starts, bound>>
  BY DEF Stop, TokenInv, HolderInv, Stages
<1>2. HolderInv'
  <2>1. \A e \in Daemons : stage'[e] # "down" =>
          /\ listener'[address[e]] = {e}
          /\ address[e] \in bound
          /\ token[e] \in 1..starts
    BY <1>1 DEF TokenInv, HolderInv
  <2> QED
    BY <1>1, <2>1 DEF TokenInv, HolderInv
<1>3. TokenFileWhole' /\ FiledInv'
  BY <1>1 DEF TokenInv, TokenFileWhole, FiledInv
<1> QED
  BY <1>2, <1>3 DEF TokenInv

\* Listening to an address keeps other daemons' hands off the token file.
THEOREM TokenInductive == TokenSpec => []TokenInv
<1>1. TokenInit => TokenInv
  BY FS_EmptySet DEF TokenInit, TokenInv, HolderInv, TokenFileWhole, FiledInv, Stages, Nobody
<1>2. TokenInv /\ [TokenNext]_tokenVars => TokenInv'
  <2>1. ASSUME TokenInv, UNCHANGED tokenVars PROVE TokenInv'
    BY <2>1 DEF TokenInv, HolderInv, TokenFileWhole, FiledInv, tokenVars
  <2> QED
    BY <2>1, BindKeeps, DraftKeeps, InstallKeeps, StopKeeps DEF TokenNext
<1> QED
  BY <1>1, <1>2, PTL DEF TokenSpec

\* No crash, failure or second daemon leaves a half-written token under the name
\* that local tools read.
THEOREM TokenFilesWhole == TokenSpec => []TokenFileWhole
<1>1. TokenInv => TokenFileWhole
  BY DEF TokenInv
<1> QED
  BY <1>1, TokenInductive, PTL

\* Daemons that are given one address never file a token that is not the serving
\* one's.
THEOREM ServedTokensFiled == TokenSpec => []ServedTokenIsFiled
<1>1. TokenInv => ServedTokenIsFiled
  <2> SUFFICES ASSUME TokenInv, NEW d \in Daemons, stage[d] = "serving",
                      Cardinality(bound) = 1
               PROVE  tokenFile = token[d]
    BY DEF ServedTokenIsFiled
  <2>1. IsFiniteSet(bound)
    BY DEF TokenInv, HolderInv
  <2>2. \E a : bound = {a}
    BY <2>1, FS_Singleton
  <2> QED
    BY <2>2 DEF TokenInv, FiledInv
<1> QED
  BY <1>1, TokenInductive, PTL

\* The token file is whole, and it is the serving daemon's.
THEOREM TokenIsSound == TokenSpec => []TokenSound
<1>1. TokenFileWhole /\ ServedTokenIsFiled => TokenSound
  BY DEF TokenSound
<1> QED
  BY <1>1, TokenFilesWhole, ServedTokensFiled, PTL
-------------------------------------------------------------------------------

USE CacheAssumption, CacheFileAssumption

FileContents == CacheData \cup {Foreign}

(***************************************************************************)
(* The file.  Between sync and rename a temporary holds what the call was  *)
(* given, unless `cache clear` removed it; a call that went past its check *)
(* for a link found none, and nobody makes one later.                      *)
(***************************************************************************)
WriterInv(p) ==
  /\ step[p] \in {"synced", "fallback", "replacing", "retry"} =>
       temporary[p] \in {Absent, hand[p]}
  /\ step[p] = "renamed" => temporary[p] = Absent
  /\ step[p] \in {"begun", "checked"} /\ temporary[p] # Absent => p \in broken
  /\ step[p] \in {"checked", "created", "synced", "fallback", "replacing", "retry", "renamed"} =>
       file # Symlink

StoreInv ==
  /\ Store!FileTypeOK
  /\ LeftoverHasCause
  /\ \A p \in Processes : WriterInv(p)

(***************************************************************************)
(* The scans.  Only a scan that saves is in a call, and what a scan served *)
(* is among its fresh entries until it hands them over.                    *)
(***************************************************************************)
FreshHasServed(p) ==
  \A f \in Sources : work[p][f].state = "served" =>
    /\ fresh[p][f] # None
    /\ fresh[p][f].hash = work[p][f].content
    /\ \A k \in needs[p] : fresh[p][f].facts[k] # None

ScanInv(p) ==
  /\ step[p] # "idle" => cachePhase[p] = "saving"
  /\ cachePhase[p] = "scanning" => FreshHasServed(p)

\* CacheInv is inductive.
CacheInv ==
  /\ CacheTypeOK
  /\ StoreInv
  /\ EntriesTrue
  /\ ServedForContent
  /\ SavesWhatItServed
  /\ \A p \in Processes : ScanInv(p)
-------------------------------------------------------------------------------

USE DEF FileContents

(***************************************************************************)
(* A step of a save keeps the file's invariant.                            *)
(***************************************************************************)
LEMMA WriteKeepsStore ==
  ASSUME StoreInv, NEW p \in Processes, Store!WriteStep(p)
  PROVE  StoreInv'
<1> USE DEF StoreInv, WriterInv, LeftoverHasCause, Store!LeftoverHasCause, Store!FileTypeOK,
            Store!Calling, Store!Steps, Store!To, Store!Return
<1>1. CASE Store!Prepare(p)
  BY <1>1 DEF Store!Prepare, Store!Refuse
<1>2. CASE Store!CreateTemporary(p)
  BY <1>2 DEF Store!CreateTemporary, Store!Refuse
<1>3. CASE Store!WriteAndSync(p)
  BY <1>3 DEF Store!WriteAndSync, Store!BreakOff
<1>4. CASE Store!Rename(p)
  BY <1>4 DEF Store!Rename, Store!RenameOver
<1>5. CASE Store!Fallback(p)
  BY <1>5 DEF Store!Fallback, Store!GiveUp, Store!BreakOff
<1>6. CASE Store!RemoveDestination(p)
  BY <1>6 DEF Store!RemoveDestination, Store!BreakOff
<1>7. CASE Store!RenameAgain(p)
  BY <1>7 DEF Store!RenameAgain, Store!RenameOver, Store!BreakOff
<1>8. CASE Store!SetPermissions(p)
  BY <1>8 DEF Store!SetPermissions
<1> QED
  BY <1>1, <1>2, <1>3, <1>4, <1>5, <1>6, <1>7, <1>8 DEF Store!WriteStep

\* The other steps of a call.
LEMMA CallKeepsStore ==
  ASSUME StoreInv, NEW p \in Processes, NEW data \in CacheData, Store!Call(p, data)
  PROVE  StoreInv'
BY DEF Store!Call, StoreInv, WriterInv, LeftoverHasCause, Store!LeftoverHasCause,
       Store!FileTypeOK, Store!Calling, Store!Steps, Store!To

\* The caller goes on with what the call returned.
LEMMA TakenKeepsStore ==
  ASSUME StoreInv, NEW p \in Processes, Store!Taken(p)
  PROVE  StoreInv'
BY DEF Store!Taken, StoreInv, WriterInv, LeftoverHasCause, Store!LeftoverHasCause,
       Store!FileTypeOK, Store!Calling, Store!Steps, Store!To

\* A crash at any system call.
LEMMA CrashKeepsStore ==
  ASSUME StoreInv, NEW p \in Processes, Store!CrashInCall(p)
  PROVE  StoreInv'
BY DEF Store!CrashInCall, Store!Return, StoreInv, WriterInv, LeftoverHasCause,
       Store!LeftoverHasCause, Store!FileTypeOK, Store!Calling, Store!Steps, Store!To

\* `reposcout cache clear` removes the directory, temporaries and all.
LEMMA ClearKeepsStore ==
  ASSUME StoreInv, Store!ClearDirectory
  PROVE  StoreInv'
BY DEF Store!ClearDirectory, StoreInv, WriterInv, LeftoverHasCause,
       Store!LeftoverHasCause, Store!FileTypeOK, Store!Calling, Store!Steps

\* A step that is not about the file.
LEMMA SameKeepsStore ==
  ASSUME StoreInv, UNCHANGED storeVars
  PROVE  StoreInv'
BY DEF storeVars, StoreInv, WriterInv, LeftoverHasCause, Store!LeftoverHasCause,
       Store!FileTypeOK, Store!Calling, Store!Steps

-------------------------------------------------------------------------------
\* What enrich_cached_facts and analyze_source_details make are entries of one
\* content, with the facts that the request requires.
Made(e, required, version) ==
  /\ e \in Entries /\ e # None /\ True(e) /\ e.hash = version
  /\ \A k \in required : e.facts[k] = version

\* enrich_cached_facts adds facts of the same content to an entry.
LEMMA EnrichedIsMade ==
  ASSUME NEW version \in Versions, NEW required \in SUBSET Facts,
         NEW c \in Entries, True(c), c.hash = version
  PROVE  Made(Enrich(c, required, version), required, version)
BY DEF Entries, Enrich, Made, True

\* analyze_source_details makes an entry of the content that was read.
LEMMA ComputedIsMade ==
  ASSUME NEW version \in Versions, NEW required \in SUBSET Facts
  PROVE  Made(Computed(required, version), required, version)
BY DEF Entries, Computed, Made, True

\* What a save writes is told apart from a missing, foreign or partial file.
LEMMA DataIsWhole ==
  ASSUME NEW data \in CacheData
  PROVE  /\ data \notin {Absent, Symlink, Foreign, Partial}
         /\ TrueData(data) <=> \A f \in Sources : True(data[f])
BY DEF TrueData

\* AnalysisCache::open without a usable file begins with no entries.
LEMMA EmptyIsData == Empty \in CacheData /\ TrueData(Empty)
<1>1. Empty \in CacheData /\ \A f \in Sources : True(Empty[f])
  BY DEF Empty, CacheData, True
<1> QED BY <1>1, DataIsWhole

\* load and save neither lose an entry's truth nor make one up.
LEMMA LoadIsData ==
  ASSUME CacheTypeOK, EntriesTrue
  PROVE  Load \in CacheData /\ TrueData(Load)
BY EmptyIsData DEF CacheTypeOK, Store!FileTypeOK, EntriesTrue, Load

\* merge_pending puts the entries of a scan over those it loaded.
LEMMA MergedIsData ==
  ASSUME CacheTypeOK, EntriesTrue, NEW p \in Processes
  PROVE  Merged(p) \in CacheData /\ TrueData(Merged(p))
<1>1. fresh[p] \in CacheData /\ loaded[p] \in CacheData
  BY DEF CacheTypeOK
<1>2. \A f \in Sources : True(fresh[p][f]) /\ True(loaded[p][f])
  BY <1>1, DataIsWhole DEF EntriesTrue
<1>3. Merged(p) \in CacheData /\ \A f \in Sources : True(Merged(p)[f])
  BY <1>1, <1>2 DEF Merged, CacheData
<1> QED BY <1>3, DataIsWhole

-------------------------------------------------------------------------------
\* Every step of a scan, of a save, of an edit and of `cache clear` keeps the
\* invariant, with any other process between the read of a file, the lookup and
\* the save.
LEMMA CacheStep ==
  ASSUME CacheInv, [CacheNext]_cacheVars
  PROVE  CacheInv'
<1> USE DEF CacheInv
<1>1. ASSUME NEW p \in Processes, NEW found \in SUBSET Present,
             NEW required \in SUBSET Facts, NEW complete \in BOOLEAN,
             Open(p, found, required, complete)
      PROVE  CacheInv'
  <2> USE <1>1 DEF Open
  <2>1. StoreInv'
    BY SameKeepsStore
  <2>2. CacheTypeOK'
    BY <2>1, LoadIsData DEF CacheTypeOK, StoreInv, Work, Is
  <2>3. EntriesTrue'
    BY LoadIsData DEF EntriesTrue, CacheTypeOK, storeVars
  <2>4. ServedForContent'
    BY DEF ServedForContent, CacheTypeOK, Is
  <2>5. step[p] = "idle" /\ hand[p] = Absent
    BY DEF ScanInv, StoreInv, Store!FileTypeOK, Store!Calling
  <2>6. SavesWhatItServed'
    BY <2>5 DEF SavesWhatItServed, CacheTypeOK, storeVars
  <2>7. \A q \in Processes : ScanInv(q)'
    BY DEF ScanInv, FreshHasServed, CacheTypeOK, storeVars, Is
  <2> QED BY <2>1, <2>2, <2>3, <2>4, <2>6, <2>7
<1>2. ASSUME NEW p \in Processes, NEW f \in Sources, ReadSource(p, f) \/ Skip(p, f)
      PROVE  CacheInv'
  <2>1. PICK w \in Work : w.state # "served" /\ Note(p, f, w)
    <3>1. CASE ReadSource(p, f)
      <4>1. tree[f] \in Versions
        BY <3>1 DEF ReadSource, CacheTypeOK
      <4> QED BY <3>1, <4>1 DEF ReadSource, Work, Read
    <3>2. CASE Skip(p, f)
      BY <3>2 DEF Skip, Work, Is
    <3> QED BY <1>2, <3>1, <3>2
  <2>2. /\ work' = [work EXCEPT ![p][f] = w]
        /\ UNCHANGED <<tree, storeVars, cachePhase, needs, prunes, loaded, fresh, sourceEdits, scans>>
    BY <1>2, <2>1 DEF ReadSource, Skip, Note
  <2>3. StoreInv'
    BY <2>2, SameKeepsStore
  <2>4. CacheTypeOK'
    BY <2>1, <2>2, <2>3 DEF CacheTypeOK, StoreInv
  <2>5. EntriesTrue'
    BY <2>2 DEF EntriesTrue, storeVars
  <2>6. ServedForContent'
    BY <2>1, <2>2 DEF ServedForContent, CacheTypeOK
  <2>7. SavesWhatItServed'
    BY <2>1, <2>2 DEF SavesWhatItServed, CacheTypeOK, storeVars
  <2>8. \A q \in Processes : ScanInv(q)'
    BY <2>1, <2>2 DEF ScanInv, FreshHasServed, CacheTypeOK, storeVars
  <2> QED BY <2>3, <2>4, <2>5, <2>6, <2>7, <2>8
<1>3. ASSUME NEW p \in Processes, NEW f \in Sources, Analyze(p, f)
      PROVE  CacheInv'
  <2> DEFINE version == work[p][f].content
             e == IF Hit(p, f, version) THEN Enrich(loaded[p][f], needs[p], version)
                  ELSE Computed(needs[p], version)
             w == ServedFrom(e, needs[p], version)
  <2>1. /\ version \in Versions /\ needs[p] \in SUBSET Facts
        /\ loaded[p] \in CacheData /\ fresh[p] \in CacheData
    BY <1>3 DEF Analyze, Read, CacheTypeOK
  <2>2. loaded[p][f] \in Entries \cup {None} /\ True(loaded[p][f])
    BY <2>1, DataIsWhole DEF EntriesTrue, CacheData
  <2>3. Made(e, needs[p], version)
    <3> HIDE DEF version
    <3>1. CASE Hit(p, f, version)
      <4>1. /\ e = Enrich(loaded[p][f], needs[p], version)
            /\ loaded[p][f] \in Entries /\ loaded[p][f].hash = version
        BY <2>2, <3>1 DEF Hit
      <4> QED BY <2>1, <2>2, <4>1, EnrichedIsMade
    <3>2. CASE ~Hit(p, f, version)
      <4>1. e = Computed(needs[p], version)
        BY <3>2
      <4> QED BY <2>1, <4>1, ComputedIsMade
    <3> QED BY <3>1, <3>2
  <2>4. /\ w \in Served /\ w.state = "served" /\ w.content = version
        /\ w.report = version /\ \A k \in needs[p] : w.facts[k] = version
    <3> HIDE DEF e
    <3> QED BY <2>1, <2>3 DEF Made, ServedFrom, Served, Entries, True
  <2>5. /\ fresh' = [fresh EXCEPT ![p][f] = e]
        /\ work' = [work EXCEPT ![p][f] = w]
        /\ UNCHANGED <<tree, storeVars, cachePhase, needs, prunes, loaded, sourceEdits, scans>>
        /\ cachePhase[p] = "scanning"
    BY <1>3 DEF Analyze, Note
  <2> HIDE DEF e, w, version
  <2>6. StoreInv'
    BY <2>5, SameKeepsStore
  <2>7. CacheTypeOK'
    BY <2>3, <2>4, <2>5, <2>6 DEF Made, CacheTypeOK, StoreInv, Work, CacheData
  <2>8. EntriesTrue'
    <3>1. fresh'[p] \in CacheData /\ \A g \in Sources : True(fresh'[p][g])
      BY <2>1, <2>3, <2>5, DataIsWhole DEF Made, CacheTypeOK, EntriesTrue, CacheData
    <3>2. TrueData(fresh'[p])
      BY <3>1, DataIsWhole
    <3> QED BY <2>5, <3>2 DEF EntriesTrue, CacheTypeOK, storeVars
  <2>9. ServedForContent'
    BY <2>4, <2>5 DEF ServedForContent, CacheTypeOK
  <2>10. SavesWhatItServed'
    BY <2>5 DEF SavesWhatItServed, CacheTypeOK, storeVars, ScanInv, StoreInv,
                Store!FileTypeOK, Store!Calling
  <2>11. ASSUME NEW q \in Processes
         PROVE  ScanInv(q)'
    <3>1. CASE q = p
      <4>1. /\ work'[p] = [work[p] EXCEPT ![f] = w]
            /\ fresh'[p] = [fresh[p] EXCEPT ![f] = e]
            /\ work[p] \in [Sources -> Work] /\ fresh[p] \in [Sources -> Entries \cup {None}]
        BY <2>1, <2>5 DEF CacheTypeOK, CacheData
      <4>2. FreshHasServed(p)'
        BY <2>1, <2>3, <2>4, <2>5, <4>1 DEF Made, FreshHasServed, ScanInv
      <4> QED BY <2>5, <3>1, <4>2 DEF ScanInv, storeVars
    <3>2. CASE q # p
      BY <2>5, <3>2 DEF ScanInv, FreshHasServed, CacheTypeOK, storeVars
    <3> QED BY <3>1, <3>2
  <2> QED BY <2>6, <2>7, <2>8, <2>9, <2>10, <2>11
<1>4. ASSUME NEW p \in Processes, BeginSave(p)
      PROVE  CacheInv'
  <2> USE <1>4 DEF BeginSave
  <2>1. StoreInv'
    BY MergedIsData, CallKeepsStore
  <2>2. CacheTypeOK'
    BY <2>1, EmptyIsData DEF CacheTypeOK, StoreInv
  <2>3. EntriesTrue'
    BY MergedIsData, EmptyIsData DEF EntriesTrue, CacheTypeOK, Store!Call, StoreInv, Store!FileTypeOK
  <2>4. ServedForContent'
    BY DEF ServedForContent
  <2>5. SavesWhatItServed'
    <3>1. ASSUME NEW f \in Sources
          PROVE  /\ work[p][f].state = "served" =>
                      /\ Merged(p)[f] # None
                      /\ Merged(p)[f].hash = work[p][f].content
                      /\ \A k \in needs[p] : Merged(p)[f].facts[k] # None
                 /\ ~prunes[p] /\ loaded[p][f] # None => Merged(p)[f] # None
      BY DEF Merged, ScanInv, FreshHasServed
    <3> QED
      BY <3>1 DEF SavesWhatItServed, Store!Call, CacheTypeOK, Store!FileTypeOK
  <2>6. \A q \in Processes : ScanInv(q)'
    BY DEF ScanInv, FreshHasServed, Store!Call, Store!To, CacheTypeOK, Store!FileTypeOK
  <2> QED BY <2>1, <2>2, <2>3, <2>4, <2>5, <2>6
<1>5. ASSUME NEW p \in Processes, Reset(p), UNCHANGED tree, UNCHANGED <<sourceEdits, scans>>,
             UNCHANGED file, UNCHANGED temporary, StoreInv',
             step'[p] = "idle" /\ \A q \in Processes \ {p} : step'[q] = step[q],
             hand'[p] = Absent /\ \A q \in Processes \ {p} : hand'[q] = hand[q]
      PROVE  CacheInv'
  <2> USE <1>5 DEF Reset
  <2>1. CacheTypeOK'
    BY EmptyIsData DEF CacheTypeOK, StoreInv, Work, Is
  <2>2. EntriesTrue'
    <3>1. TrueData(Absent)
      BY DEF TrueData
    <3> QED BY <3>1, EmptyIsData DEF EntriesTrue, CacheTypeOK
  <2>3. ServedForContent'
    BY DEF ServedForContent, CacheTypeOK, Is
  <2>4. SavesWhatItServed'
    BY DEF SavesWhatItServed, CacheTypeOK
  <2>5. \A q \in Processes : ScanInv(q)'
    BY DEF ScanInv, FreshHasServed, CacheTypeOK
  <2> QED BY <2>1, <2>2, <2>3, <2>4, <2>5
<1>6. ASSUME NEW p \in Processes, OmitSave(p)
      PROVE  CacheInv'
  <2>1. StoreInv' /\ UNCHANGED storeVars
    BY <1>6, SameKeepsStore DEF OmitSave
  <2>2. step[p] = "idle" /\ hand[p] = Absent
    BY <1>6 DEF OmitSave, ScanInv, StoreInv, Store!FileTypeOK, Store!Calling
  <2> QED BY <1>5, <1>6, <2>1, <2>2 DEF OmitSave, storeVars
<1>7. ASSUME NEW p \in Processes, EndSave(p)
      PROVE  CacheInv'
  <2>1. StoreInv'
    BY <1>7, TakenKeepsStore DEF EndSave
  <2>2. /\ UNCHANGED <<file, temporary, hand>> /\ step' = [step EXCEPT ![p] = "idle"]
        /\ step[p] \in {"ok", "failed"}
    BY <1>7 DEF EndSave, Store!Taken, Store!To
  <2>3. hand[p] = Absent
    BY <2>2 DEF StoreInv, Store!FileTypeOK, Store!Calling
  <2> QED BY <1>5, <1>7, <2>1, <2>2, <2>3 DEF EndSave, StoreInv, Store!FileTypeOK
<1>8. ASSUME NEW p \in Processes, Crash(p)
      PROVE  CacheInv'
  <2>1. StoreInv'
    BY <1>8, CrashKeepsStore DEF Crash
  <2>2. /\ UNCHANGED <<file, temporary>>
        /\ step' = [step EXCEPT ![p] = "idle"] /\ hand' = [hand EXCEPT ![p] = Absent]
    BY <1>8 DEF Crash, Store!CrashInCall, Store!Return, Store!To
  <2> QED BY <1>5, <1>8, <2>1, <2>2 DEF Crash, StoreInv, Store!FileTypeOK
<1>9. ASSUME NEW p \in Processes, SaveStep(p)
      PROVE  CacheInv'
  <2>1. StoreInv' /\ UNCHANGED <<tree, cachingVars, sourceEdits, scans>> /\ Store!WriteStep(p)
    BY <1>9, WriteKeepsStore DEF SaveStep
  <2>2. CacheTypeOK'
    BY <2>1 DEF CacheTypeOK, StoreInv, cachingVars
  <2>3. /\ step[p] # "idle" /\ \A q \in Processes \ {p} : step'[q] = step[q]
        /\ \A q \in Processes : hand'[q] \in {hand[q], Absent}
        /\ \A q \in Processes : temporary'[q] \in {temporary[q], hand[q], Absent, Partial}
        /\ file' \in {file, Absent} \cup {temporary[q] : q \in Processes}
    BY <2>1 DEF Store!WriteStep, Store!Prepare, Store!CreateTemporary, Store!WriteAndSync,
                Store!Rename, Store!RenameOver, Store!Fallback, Store!RemoveDestination,
                Store!RenameAgain, Store!SetPermissions, Store!Refuse, Store!BreakOff,
                Store!GiveUp, Store!Return, Store!To, StoreInv, Store!FileTypeOK
  <2>4. EntriesTrue'
    BY <2>1, <2>3 DEF EntriesTrue, TrueData, cachingVars
  <2>5. ServedForContent'
    BY <2>1 DEF ServedForContent, cachingVars
  <2>6. SavesWhatItServed'
    BY <2>1, <2>3 DEF SavesWhatItServed, cachingVars
  <2>7. \A q \in Processes : ScanInv(q)'
    BY <2>1, <2>3 DEF ScanInv, FreshHasServed, cachingVars
  <2> QED BY <2>1, <2>2, <2>4, <2>5, <2>6, <2>7
<1>10. ASSUME Clear
       PROVE  CacheInv'
  <2>1. StoreInv' /\ UNCHANGED <<tree, cachingVars, sourceEdits, scans>> /\ UNCHANGED <<step, hand>>
    BY <1>10, ClearKeepsStore DEF Clear, Store!ClearDirectory
  <2>2. /\ file' \in {file, Absent}
        /\ \A q \in Processes : temporary'[q] \in {temporary[q], Absent}
    BY <1>10 DEF Clear, Store!ClearDirectory
  <2>3. CacheTypeOK'
    BY <2>1 DEF CacheTypeOK, StoreInv, cachingVars
  <2>4. EntriesTrue'
    BY <2>1, <2>2 DEF EntriesTrue, TrueData, cachingVars
  <2> QED
    BY <2>1, <2>3, <2>4
    DEF ServedForContent, SavesWhatItServed, ScanInv, FreshHasServed, cachingVars
<1>11. ASSUME NEW f \in Sources, EditSource(f)
       PROVE  CacheInv'
  <2>1. StoreInv' /\ UNCHANGED <<storeVars, cachingVars, scans>>
    BY <1>11, SameKeepsStore DEF EditSource
  <2>2. CacheTypeOK'
    BY <1>11, <2>1 DEF EditSource, CacheTypeOK, StoreInv, cachingVars
  <2> QED
    BY <2>1, <2>2
    DEF EntriesTrue, ServedForContent, SavesWhatItServed, ScanInv, FreshHasServed,
        storeVars, cachingVars
<1>12. CASE UNCHANGED cacheVars
  BY <1>12, SameKeepsStore
  DEF cacheVars, storeVars, cachingVars, CacheTypeOK, StoreInv, EntriesTrue, ServedForContent,
      SavesWhatItServed, ScanInv, FreshHasServed
<1> QED
  BY <1>1, <1>2, <1>3, <1>4, <1>6, <1>7, <1>8, <1>9, <1>10, <1>11, <1>12
  DEF CacheNext, ScanStep

\* The inductive invariant holds in every behaviour of the concurrent scans.
THEOREM CacheInductive == CacheSpec => []CacheInv
<1>1. CacheInit => CacheInv
  BY EmptyIsData
  DEF CacheInit, CacheInv, CacheTypeOK, StoreInv, WriterInv, LeftoverHasCause,
      Store!LeftoverHasCause, Store!FileTypeOK, Store!Calling, Store!Steps, EntriesTrue,
      TrueData, ServedForContent, SavesWhatItServed, ScanInv, FreshHasServed, Work, Is
<1> QED BY <1>1, CacheStep, PTL DEF CacheSpec

\* No scan serves an analysis of other content than it read, whichever process
\* wrote the entry, and nothing false is ever saved: for every number of
\* processes, files, versions and lazy facts.
THEOREM CacheIsSound == CacheSpec => []CacheSound
<1>1. CacheInv => CacheSound
  BY DEF CacheInv, StoreInv, CacheSound
<1> QED BY <1>1, CacheInductive, PTL

\* The contents that calls are handing over.
Offered == {hand[w] : w \in {v \in Processes : Store!Calling(v)}}

\* Only whole data is handed to write_atomic_bytes.
LEMMA OfferedAreWhole ==
  ASSUME StoreInv
  PROVE  Offered \subseteq FileContents
BY DEF Offered, StoreInv, Store!FileTypeOK

\* A crash, a failure and `cache clear` at any step leave readers a whole file.
LEMMA WholeStep ==
  ASSUME CacheInv, CacheInv', [CacheNext]_cacheVars
  PROVE  [Store!Whole!WholeNext]_(Store!Whole!wholeVars)
<1> USE DEF CacheInv
<1>1. CASE UNCHANGED file
  <2>1. Offered' \subseteq FileContents
    <3>1. StoreInv'
      OBVIOUS
    <3> QED BY <3>1 DEF Offered, StoreInv, Store!FileTypeOK
  <2> QED
    BY <1>1, <2>1 DEF Offered, Store!Whole!WholeNext, Store!Whole!Offer
<1>2. ASSUME NEW p \in Processes, SaveStep(p), file' # file
      PROVE  Store!Whole!WholeNext
  <2>1. \/ step[p] \in {"synced", "retry"} /\ Store!RenameOver(p)
        \/ /\ step[p] = "replacing" /\ file' = Absent /\ Store!To(p, "retry")
           /\ UNCHANGED <<temporary, hand, broken>>
    BY <1>2 DEF SaveStep, Store!WriteStep, Store!Prepare, Store!CreateTemporary,
                Store!WriteAndSync, Store!Rename, Store!Fallback, Store!RemoveDestination,
                Store!RenameAgain, Store!SetPermissions, Store!Refuse, Store!BreakOff,
                Store!GiveUp
  <2>2. Offered' = Offered
    BY <2>1 DEF Offered, Store!Calling, Store!RenameOver, Store!To, StoreInv, Store!FileTypeOK
  <2>3. CASE step[p] \in {"synced", "retry"} /\ Store!RenameOver(p)
    <3>1. /\ file' = temporary[p] /\ temporary[p] # Absent
          /\ temporary[p] \in {Absent, hand[p]} /\ file # Symlink
      BY <2>3 DEF Store!RenameOver, StoreInv, WriterInv
    <3>2. hand[p] \in Offered
      BY <2>3 DEF Offered, Store!Calling
    <3> QED
      BY <2>2, <3>1, <3>2 DEF Offered, Store!Whole!WholeNext, Store!Whole!Replace
  <2>4. CASE file' = Absent
    BY <2>2, <2>4 DEF Offered, Store!Whole!WholeNext, Store!Whole!Remove
  <2> QED BY <2>1, <2>3, <2>4
<1>3. ASSUME Clear, file' # file
      PROVE  Store!Whole!WholeNext
  BY <1>3
  DEF Clear, Store!ClearDirectory, Store!Calling, Store!Whole!WholeNext, Store!Whole!Remove
<1>4. ASSUME CacheNext, file' # file
      PROVE  Clear \/ \E p \in Processes : SaveStep(p)
  <2>1. ASSUME NEW p \in Processes, ScanStep(p)
        PROVE  SaveStep(p)
    <3>1. CASE \E found \in SUBSET Present, required \in SUBSET Facts, complete \in BOOLEAN :
                 Open(p, found, required, complete)
      BY <1>4, <3>1 DEF Open, storeVars
    <3>2. CASE \E f \in Sources : ReadSource(p, f) \/ Skip(p, f) \/ Analyze(p, f)
      BY <1>4, <3>2 DEF ReadSource, Skip, Analyze, storeVars
    <3>3. CASE BeginSave(p) \/ OmitSave(p) \/ EndSave(p)
      BY <1>4, <3>3 DEF BeginSave, OmitSave, EndSave, Store!Call, Store!Taken, storeVars
    <3>4. CASE Crash(p)
      BY <1>4, <3>4 DEF Crash, Store!CrashInCall
    <3> QED BY <2>1, <3>1, <3>2, <3>3, <3>4 DEF ScanStep
  <2>2. CASE \E f \in Sources : EditSource(f)
    BY <1>4, <2>2 DEF EditSource, storeVars
  <2> QED BY <1>4, <2>1, <2>2 DEF CacheNext
<1> QED
  BY <1>1, <1>2, <1>3, <1>4 DEF cacheVars, storeVars

\* The cache file implements WholeFile: a reader finds it absent or with all of
\* what one save offered, although a save takes up to nine system calls that may
\* fail or be the last.
THEOREM CacheKeepsFileWhole == CacheSpec => KeepsFileWhole
<1>1. CacheInit => Store!Whole!WholeInit
  BY DEF CacheInit, Store!Whole!WholeInit, Store!Calling
<1>2. CacheInv /\ CacheInv' /\ [CacheNext]_cacheVars
        => [Store!Whole!WholeNext]_(Store!Whole!wholeVars)
  BY WholeStep
<1> QED
  BY <1>1, <1>2, CacheInductive, PTL DEF CacheSpec, KeepsFileWhole, Store!Whole!WholeSpec

-------------------------------------------------------------------------------
(***************************************************************************)
(* ChurnHistory.  What one commit does to the names and the touches.       *)
(***************************************************************************)
HIDE DEF FileContents

MaybeEvents == [Commits -> Events \cup {Nil}]

EventTrue(h, c, e) ==
  e.deltas = IF c \in Merge[h] THEN {} ELSE IF e.resolved THEN Found[h][c] ELSE Raw[h][c]

\* Whatever is cached of a commit belongs to the history h.
EventsTrue(h, es) == \A c \in Commits : es[c] # Nil => EventTrue(h, c, es[c])

ProcessStates(W) ==
  [names : [W -> Paths], acc : Answers, events : MaybeEvents, put : BOOLEAN,
   missed : BOOLEAN, complete : BOOLEAN, partial : BOOLEAN]

\* Nothing was left out so far, and no search for renames has failed.
Clean(s) == s.complete /\ ~s.partial /\ ~s.missed

\* The names before a commit, and whether the commit touches a name.
NamesBefore(h, c, names) ==
  [w \in DOMAIN names |-> IF c \in Merge[h] THEN names[w] ELSE Before(Found[h][c], names[w])]
Touches(h, c, name) == c \notin Merge[h] /\ \E d \in Found[h][c] : Mentions(d, name)

\* From s to t a commit was processed.
Advanced(h, c, W, s, t) ==
  /\ EventsTrue(h, s.events) => EventsTrue(h, t.events)
  /\ EventsTrue(h, s.events) /\ Clean(t) =>
       /\ Clean(s)
       /\ t.names = NamesBefore(h, c, s.names)
       /\ t.acc = [q \in Paths |-> IF q \in W /\ Touches(h, c, s.names[q])
                                   THEN s.acc[q] \cup {c} ELSE s.acc[q]]

LEMMA BeforeIsAPath ==
  ASSUME NEW ds \in SUBSET Deltas, NEW name \in Paths
  PROVE  Before(ds, name) \in Paths
<1> DEFINE Renaming(d) == d.kind = "renamed" /\ d.new = name
<1>1. CASE \E d \in ds : Renaming(d)
  <2>1. /\ (CHOOSE d \in ds : Renaming(d)) \in ds
        /\ Renaming(CHOOSE d \in ds : Renaming(d))
    BY <1>1
  <2>2. (CHOOSE d \in ds : Renaming(d)).old \in Paths
    BY <2>1 DEF Deltas
  <2> QED BY <1>1, <2>2 DEF Before
<1>2. CASE ~\E d \in ds : Renaming(d)
  BY <1>2 DEF Before
<1> QED BY <1>1, <1>2

\* An event whose renames were not searched has the names and touches that the
\* search would give, if nothing asked for the search.
LEMMA SameWithoutSearch ==
  ASSUME NEW h \in Histories, NEW c \in Commits, NEW W, NEW names \in [W -> Paths],
         ~NeedsRenames(Raw[h][c], names), NEW w \in W
  PROVE  /\ Before(Raw[h][c], names[w]) = names[w]
         /\ Before(Found[h][c], names[w]) = names[w]
         /\ (\E d \in Raw[h][c] : Mentions(d, names[w]))
              <=> \E d \in Found[h][c] : Mentions(d, names[w])
<1>1. ~\E d \in Raw[h][c] : d.kind = "renamed" /\ d.new = names[w]
  BY RenamesAssumption
<1>2. ~\E d \in Found[h][c] : d.kind = "renamed" /\ d.new = names[w]
  <2> SUFFICES ASSUME NEW d \in Found[h][c], d.kind = "renamed", d.new = names[w]
               PROVE  FALSE
    OBVIOUS
  <2> DEFINE gone == [kind |-> "deleted", old |-> d.old, new |-> NoPath]
             come == [kind |-> "added", old |-> NoPath, new |-> d.new]
  <2>1. gone \in Raw[h][c] /\ come \in Raw[h][c]
    BY RenamesAssumption
  <2>2. gone.kind = "deleted" /\ come.kind = "added" /\ names[w] = come.new
    OBVIOUS
  <2>3. DOMAIN names = W
    OBVIOUS
  <2> HIDE DEF gone, come
  <2> QED BY <2>1, <2>2, <2>3 DEF NeedsRenames
<1>3. names[w] \in Paths
  OBVIOUS
<1> QED BY <1>1, <1>2, <1>3, RenamesAssumption DEF Before

LEMMA CommitProcessed ==
  ASSUME NEW h \in Histories, NEW c \in Commits, NEW safe \in BOOLEAN, NEW streamed,
         NEW failed, NEW lost, NEW W \in SUBSET Paths, NEW s \in ProcessStates(W),
         NEW t, t = ProcessCommit(h, c, safe, streamed, failed, lost, s)
  PROVE  t \in ProcessStates(W) /\ Advanced(h, c, W, s, t)
<1> DEFINE known == c \in streamed \/ (c \notin Merge[h] /\ s.events[c] # Nil)
           given == known \/ c \in Merge[h] \/ ~safe
           e == Event(h, c, s.events[c])
           needed == given /\ ~e.resolved /\ NeedsRenames(e.deltas, s.names)
           searched == needed /\ ~safe /\ ~s.partial
           r == IF needed /\ ~searched THEN e ELSE Resolved(h, c, e, s.names, failed)
           partial == s.partial \/ ~given \/ (needed /\ ~searched)
           skips == ~given \/ (c = lost /\ ~known)
           done == [names |-> [w \in DOMAIN s.names |-> Before(r.deltas, s.names[w])],
                    acc |-> [q \in Paths |->
                      IF /\ q \in DOMAIN s.names
                         /\ \E d \in r.deltas : Mentions(d, s.names[q])
                      THEN s.acc[q] \cup {c} ELSE s.acc[q]],
                    events |-> IF partial THEN s.events ELSE [s.events EXCEPT ![c] = r],
                    put |-> s.put \/ ~partial,
                    missed |-> s.missed \/ (searched /\ c \in failed),
                    complete |-> s.complete /\ ~(needed /\ ~searched),
                    partial |-> partial]
<1>1. t = IF skips THEN [s EXCEPT !.complete = FALSE, !.partial = partial] ELSE done
  BY DEF ProcessCommit
<1>2. /\ s.names \in [W -> Paths] /\ s.acc \in Answers /\ s.events \in MaybeEvents
      /\ s.put \in BOOLEAN /\ s.missed \in BOOLEAN /\ s.complete \in BOOLEAN
      /\ s.partial \in BOOLEAN
  BY DEF ProcessStates
<1>3. DOMAIN s.names = W
  BY <1>2
<1>4. /\ e \in Events
      /\ EventsTrue(h, s.events) => EventTrue(h, c, e)
      /\ c \in Merge[h] => e.resolved /\ e.deltas = {}
  <2>1. CASE c \in Merge[h]
    BY <2>1 DEF Event, Events, EventTrue
  <2>2. CASE c \notin Merge[h] /\ s.events[c] # Nil
    BY <1>2, <2>2 DEF Event, MaybeEvents, EventsTrue
  <2>3. CASE c \notin Merge[h] /\ s.events[c] = Nil
    BY <2>3, ChurnAssumption DEF Event, Events, EventTrue
  <2> QED BY <2>1, <2>2, <2>3
<1> HIDE DEF e
<1>5. r = e \/ (~e.resolved /\ r = [deltas |-> Found[h][c], resolved |-> TRUE])
  BY DEF Resolved
<1>6. r \in Events /\ (EventsTrue(h, s.events) => EventTrue(h, c, r))
  <2>1. CASE r = e
    BY <1>4, <2>1
  <2>2. CASE ~e.resolved /\ r = [deltas |-> Found[h][c], resolved |-> TRUE]
    <3>1. r.deltas = Found[h][c] /\ r.resolved = TRUE
      BY <2>2
    <3>2. Found[h][c] \in SUBSET Deltas
      BY ChurnAssumption
    <3>3. [deltas |-> Found[h][c], resolved |-> TRUE] \in Events
      <4> HIDE DEF r
      <4> QED BY <3>2 DEF Events
    <3>4. EventTrue(h, c, r)
      BY <1>4, <2>2, <3>1 DEF EventTrue
    <3> QED BY <2>2, <3>3, <3>4
  <2> QED BY <1>5, <2>1, <2>2
<1>7. EventsTrue(h, s.events) /\ ~s.missed /\ ~(searched /\ c \in failed) /\ given
        /\ ~(needed /\ ~searched)
      => \/ c \in Merge[h] /\ r.deltas = {}
         \/ c \notin Merge[h] /\ r.deltas = Found[h][c]
         \/ c \notin Merge[h] /\ r.deltas = Raw[h][c] /\ ~NeedsRenames(Raw[h][c], s.names)
  <2> SUFFICES ASSUME EventsTrue(h, s.events), ~(searched /\ c \in failed), given,
                      ~(needed /\ ~searched)
               PROVE  \/ c \in Merge[h] /\ r.deltas = {}
                      \/ c \notin Merge[h] /\ r.deltas = Found[h][c]
                      \/ /\ c \notin Merge[h] /\ r.deltas = Raw[h][c]
                         /\ ~NeedsRenames(Raw[h][c], s.names)
    OBVIOUS
  <2>1. CASE c \in Merge[h]
    BY <1>4, <1>5, <2>1
  <2>2. CASE c \notin Merge[h] /\ e.resolved
    BY <1>4, <1>5, <2>2 DEF EventTrue
  <2>3. CASE c \notin Merge[h] /\ ~e.resolved
    <3>1. e.deltas = Raw[h][c]
      BY <1>4, <2>3 DEF EventTrue
    <3>2. CASE needed
      BY <2>3, <3>2, <3>1 DEF Resolved
    <3>3. CASE ~needed
      BY <1>5, <2>3, <3>1, <3>3 DEF Resolved
    <3> QED BY <3>2, <3>3
  <2> QED BY <2>1, <2>2, <2>3
<1> HIDE DEF r, needed, searched, given, known
<1>8. CASE skips
  <2>1. t = [s EXCEPT !.complete = FALSE, !.partial = partial]
    BY <1>1, <1>8
  <2>2. partial \in BOOLEAN
    OBVIOUS
  <2> HIDE DEF partial
  <2>3. t \in ProcessStates(W) /\ t.events = s.events /\ ~t.complete
    BY <2>1, <2>2 DEF ProcessStates
  <2> QED BY <2>3 DEF Clean, Advanced
<1>9. CASE ~skips
  <2>1. t = done
    BY <1>1, <1>9
  <2>2. \A w \in W : Before(r.deltas, s.names[w]) \in Paths
    <3>1. r.deltas \in SUBSET Deltas
      BY <1>6 DEF Events
    <3> QED BY <1>2, <3>1, BeforeIsAPath
  <2>3. done.names \in [W -> Paths] /\ done.acc \in Answers
    BY <1>2, <1>3, <2>2 DEF Answers
  <2>4. done.events \in MaybeEvents
    BY <1>2, <1>6 DEF MaybeEvents
  <2>5. /\ done.put \in BOOLEAN /\ done.missed \in BOOLEAN /\ done.complete \in BOOLEAN
        /\ done.partial \in BOOLEAN
    OBVIOUS
  <2>6. t \in ProcessStates(W)
    BY <2>1, <2>3, <2>4, <2>5 DEF ProcessStates
  <2>7. EventsTrue(h, s.events) => EventsTrue(h, t.events)
    <3> SUFFICES ASSUME EventsTrue(h, s.events), NEW b \in Commits, t.events[b] # Nil
                 PROVE  EventTrue(h, b, t.events[b])
      BY DEF EventsTrue
    <3>1. t.events = s.events \/ t.events = [s.events EXCEPT ![c] = r]
      BY <2>1
    <3>2. CASE t.events[b] = s.events[b]
      BY <3>2 DEF EventsTrue
    <3>3. CASE t.events[b] = r /\ b = c
      BY <1>6, <3>3
    <3>4. t.events[b] = s.events[b] \/ (t.events[b] = r /\ b = c)
      BY <1>2, <3>1 DEF MaybeEvents
    <3> QED BY <3>2, <3>3, <3>4
  <2>8. ASSUME EventsTrue(h, s.events), Clean(t)
        PROVE  /\ Clean(s)
               /\ t.names = NamesBefore(h, c, s.names)
               /\ t.acc = [q \in Paths |-> IF q \in W /\ Touches(h, c, s.names[q])
                                           THEN s.acc[q] \cup {c} ELSE s.acc[q]]
    <3>1. /\ ~s.missed /\ ~(searched /\ c \in failed) /\ s.complete
          /\ ~(needed /\ ~searched) /\ ~s.partial /\ given
      BY <2>1, <2>8, <1>2 DEF Clean
    <3>2. \A w \in W : /\ Before(r.deltas, s.names[w])
                            = IF c \in Merge[h] THEN s.names[w]
                              ELSE Before(Found[h][c], s.names[w])
                       /\ (\E d \in r.deltas : Mentions(d, s.names[w]))
                            <=> Touches(h, c, s.names[w])
      <4> SUFFICES ASSUME NEW w \in W
                   PROVE  /\ Before(r.deltas, s.names[w])
                               = IF c \in Merge[h] THEN s.names[w]
                                 ELSE Before(Found[h][c], s.names[w])
                          /\ (\E d \in r.deltas : Mentions(d, s.names[w]))
                               <=> Touches(h, c, s.names[w])
        OBVIOUS
      <4>1. CASE c \in Merge[h] /\ r.deltas = {}
        BY <4>1 DEF Before, Touches
      <4>2. CASE c \notin Merge[h] /\ r.deltas = Found[h][c]
        BY <4>2 DEF Touches
      <4>3. CASE /\ c \notin Merge[h] /\ r.deltas = Raw[h][c]
                 /\ ~NeedsRenames(Raw[h][c], s.names)
        <5>1. /\ Before(Raw[h][c], s.names[w]) = s.names[w]
              /\ Before(Found[h][c], s.names[w]) = s.names[w]
              /\ (\E d \in Raw[h][c] : Mentions(d, s.names[w]))
                   <=> \E d \in Found[h][c] : Mentions(d, s.names[w])
          BY <1>2, <4>3, SameWithoutSearch
        <5> QED BY <4>3, <5>1 DEF Touches
      <4> QED BY <1>7, <2>8, <3>1, <4>1, <4>2, <4>3
    <3>3. t.names = NamesBefore(h, c, s.names)
      BY <1>3, <2>1, <3>2 DEF NamesBefore
    <3>4. t.acc = [q \in Paths |-> IF q \in W /\ Touches(h, c, s.names[q])
                                   THEN s.acc[q] \cup {c} ELSE s.acc[q]]
      BY <1>3, <2>1, <3>2
    <3> QED BY <3>1, <3>3, <3>4 DEF Clean
  <2> QED BY <2>6, <2>7, <2>8 DEF Advanced
<1> QED BY <1>8, <1>9

LEMMA WalkedLog ==
  ASSUME NEW id \in Identities, NEW h \in Histories
  PROVE  LET log == Log[id.head][h]
             depth == IF id.maxCommits > 0 /\ Len(log) > id.maxCommits
                      THEN id.maxCommits ELSE Len(log)
         IN /\ log \in Seq(Commits) /\ depth \in Nat /\ depth <= Len(log)
            /\ Walked(id, h) \in Seq(Commits) /\ Len(Walked(id, h)) = depth
            /\ \A i \in 1..depth : Walked(id, h)[i] = log[i] /\ log[i] \in Commits
<1> DEFINE log == Log[id.head][h]
<1>1. id.head \in Heads /\ id.maxCommits \in Nat
  BY DEF Identities
<1>2. log \in Seq(Commits)
  BY <1>1, ChurnAssumption
<1> HIDE DEF log
<1>3. Walked(id, h) = IF id.maxCommits > 0 /\ Len(log) > id.maxCommits
                      THEN SubSeq(log, 1, id.maxCommits) ELSE log
  BY DEF Walked, log
<1>4. CASE id.maxCommits > 0 /\ Len(log) > id.maxCommits
  <2>1. /\ SubSeq(log, 1, id.maxCommits) \in Seq(Commits)
        /\ Len(SubSeq(log, 1, id.maxCommits)) = id.maxCommits
        /\ \A i \in 1..id.maxCommits :
             SubSeq(log, 1, id.maxCommits)[i] = log[i] /\ log[i] \in Commits
    BY <1>1, <1>2, <1>4
  <2> QED BY <1>1, <1>2, <1>3, <1>4, <2>1 DEF log
<1>5. CASE ~(id.maxCommits > 0 /\ Len(log) > id.maxCommits)
  <2>1. Len(log) \in Nat /\ \A i \in 1..Len(log) : log[i] \in Commits
    BY <1>2
  <2> QED BY <1>2, <1>3, <1>5, <2>1 DEF log
<1> QED BY <1>4, <1>5

\* The states of HistoryProcessor::process, commit after commit.
ProcessStart(W, es) ==
  [names |-> [w \in W |-> w], acc |-> NoTouches, events |-> es, put |-> FALSE,
   missed |-> FALSE, complete |-> TRUE, partial |-> FALSE]

ProcessRun(h, log, n, req, es, streamed, failed, lost, state) ==
  /\ state \in [0..n -> ProcessStates(req.wanted)]
  /\ state[0] = ProcessStart(req.wanted, es)
  /\ \A i \in 1..n :
       state[i] = ProcessCommit(h, log[i], req.safe, streamed, failed, lost, state[i - 1])

LEMMA ProcessedByCommits ==
  ASSUME NEW p, NEW h \in Histories, identity[p] \in Identities, request[p] \in Requests,
         events[p] \in MaybeEvents, NEW n \in 0..Len(Walked(identity[p], h)),
         NEW streamed, NEW failed, NEW lost
  PROVE  \E state : /\ ProcessRun(h, Walked(identity[p], h), n, request[p], events[p],
                                  streamed, failed, lost, state)
                    /\ Processed(p, h, n, streamed, failed, lost) = state[n]
<1> DEFINE log == Walked(identity[p], h)
           W == request[p].wanted
           S == ProcessStates(W)
           a == ProcessStart(W, events[p])
           Step(i, s) == ProcessCommit(h, log[i], request[p].safe, streamed, failed, lost, s)
           F == [i \in 1..n |-> [s \in S |-> Step(i, s)]]
           G(f) == [i \in 0..n |-> IF i = 0 THEN a ELSE Step(i, f[i - 1])]
<1>1. /\ log \in Seq(Commits) /\ n \in Nat
      /\ \A i \in 1..n : log[i] \in Commits
  BY WalkedLog
<1>2. W \in SUBSET Paths /\ request[p].safe \in BOOLEAN
  BY ChurnAssumption DEF Asked
<1>3. a \in S
  <2>1. [w \in W |-> w] \in [W -> Paths] /\ NoTouches \in Answers
    BY <1>2 DEF Answers, NoTouches
  <2> QED BY <2>1 DEF ProcessStart, ProcessStates
<1>4. \A i \in 1..n : \A s \in S : Step(i, s) \in S
  <2> SUFFICES ASSUME NEW i \in 1..n, NEW s \in S PROVE Step(i, s) \in S
    OBVIOUS
  <2> DEFINE t == Step(i, s)
  <2>1. t = ProcessCommit(h, log[i], request[p].safe, streamed, failed, lost, s)
    OBVIOUS
  <2> HIDE DEF t, log
  <2>2. t \in S
    BY <1>1, <1>2, <2>1, CommitProcessed
  <2> QED BY <2>2 DEF t
<1> HIDE DEF S, a, log
<1>5. F \in [1..n -> [S -> S]]
  <2> HIDE DEF Step
  <2> QED BY <1>4
<1>6. PICK f : Recursion(n, S, a, F, f)
  <2> HIDE DEF F
  <2> QED BY <1>1, <1>3, <1>5, RecursionExists
<1>7. \A i \in 1..n : i - 1 \in 0..n
  BY <1>1
<1>8. \A i \in 1..n : f[i] = Step(i, f[i - 1])
  <2> HIDE DEF Step
  <2> QED BY <1>6, <1>7 DEF Recursion
<1>9. f = G(f)
  <2> HIDE DEF Step
  <2>1. f \in [0..n -> S] /\ \A i \in 0..n : f[i] = G(f)[i]
    BY <1>1, <1>6, <1>8 DEF Recursion
  <2> QED BY <2>1
<1>10. Processed(p, h, n, streamed, failed, lost) = (CHOOSE g : g = G(g))[n]
  BY DEF Processed, log, a, ProcessStart
<1> DEFINE state == CHOOSE g : g = G(g)
<1>11. state = G(state)
  <2> HIDE DEF G
  <2> QED BY <1>9
<1> HIDE DEF state
<1>12. state[0] = a /\ \A i \in 1..n : state[i] = Step(i, state[i - 1])
  <2> HIDE DEF Step
  <2> QED BY <1>1, <1>11
<1>13. \A i \in 0..n : state[i] \in S
  <2> DEFINE Good == {i \in 0..n : state[i] \in S}
  <2>1. 0 \in Good /\ \A i \in 1..n : i - 1 \in Good => i \in Good
    <3> HIDE DEF Step
    <3> QED BY <1>1, <1>3, <1>4, <1>12
  <2>2. Good \in SUBSET (0..n)
    OBVIOUS
  <2> HIDE DEF Good
  <2>3. \A i \in 0..n : i \in Good
    BY <1>1, <2>1, <2>2, NumbersInTurn
  <2> QED BY <2>3 DEF Good
<1>14. state \in [0..n -> S]
  <2>1. state = [i \in 0..n |-> state[i]]
    <3> HIDE DEF Step
    <3> QED BY <1>11
  <2> QED BY <1>13, <2>1
<1>15. ProcessRun(h, log, n, request[p], events[p], streamed, failed, lost, state)
  BY <1>12, <1>14 DEF ProcessRun, S, a
<1> QED BY <1>10, <1>15 DEF state, log

\* The names that a path had, by definition, before each commit of a log.
TrueNames(h, log, n, W, names) ==
  /\ names \in [0..n -> [W -> Paths]]
  /\ names[0] = [w \in W |-> w]
  /\ \A i \in 1..n : names[i] = NamesBefore(h, log[i], names[i - 1])

TrueTouches(h, log, n, W, names) ==
  [q \in Paths |->
     IF q \notin W THEN {}
     ELSE {log[i] : i \in {j \in 1..n : Touches(h, log[j], names[j - 1][q])}}]

LEMMA ExpectedByNames ==
  ASSUME NEW id \in Identities
  PROVE  LET log == Walked(id, id.history)
         IN \E names : /\ TrueNames(id.history, log, Len(log), id.wanted, names)
                       /\ Expected(id)
                            = TrueTouches(id.history, log, Len(log), id.wanted, names)
<1> DEFINE h == id.history
           W == id.wanted
           full == Log[id.head][h]
           log == Walked(id, h)
           n == IF id.maxCommits > 0 /\ Len(full) > id.maxCommits
                THEN id.maxCommits ELSE Len(full)
           S == [W -> Paths]
           a == [w \in W |-> w]
           Step(i, s) == [w \in W |-> IF full[i] \notin Merge[h]
                                      THEN Before(Found[h][full[i]], s[w]) ELSE s[w]]
           F == [i \in 1..n |-> [s \in S |-> Step(i, s)]]
           G(f) == [i \in 0..n |-> IF i = 0 THEN a ELSE Step(i, f[i - 1])]
<1>1. h \in Histories /\ W \in SUBSET Paths
  BY DEF Identities
<1>2. /\ full \in Seq(Commits) /\ n \in Nat /\ n <= Len(full)
      /\ log \in Seq(Commits) /\ Len(log) = n
      /\ \A i \in 1..n : log[i] = full[i] /\ full[i] \in Commits
  BY <1>1, WalkedLog
<1>3. a \in S
  BY <1>1
<1>4. \A i \in 1..n : \A s \in S : Step(i, s) \in S
  <2> SUFFICES ASSUME NEW i \in 1..n, NEW s \in S, NEW w \in W
               PROVE  Before(Found[h][full[i]], s[w]) \in Paths
    OBVIOUS
  <2>1. Found[h][full[i]] \in SUBSET Deltas
    BY <1>1, <1>2, ChurnAssumption
  <2>2. s[w] \in Paths
    OBVIOUS
  <2> QED BY <2>1, <2>2, BeforeIsAPath
<1> HIDE DEF S, a
<1>5. F \in [1..n -> [S -> S]]
  <2> HIDE DEF Step, n
  <2> QED BY <1>4
<1>6. PICK f : Recursion(n, S, a, F, f)
  <2> HIDE DEF F, n
  <2> QED BY <1>2, <1>3, <1>5, RecursionExists
<1>7. \A i \in 1..n : i - 1 \in 0..n
  <2> HIDE DEF n
  <2> QED BY <1>2
<1>8. \A i \in 1..n : f[i] = Step(i, f[i - 1])
  <2> HIDE DEF Step, n
  <2> QED BY <1>6, <1>7 DEF Recursion
<1>9. f = G(f)
  <2> HIDE DEF Step, n
  <2>1. f \in [0..n -> S] /\ \A i \in 0..n : f[i] = G(f)[i]
    BY <1>2, <1>6, <1>8 DEF Recursion
  <2> QED BY <2>1
<1> DEFINE names == CHOOSE g : g = G(g)
<1>10. Expected(id)
         = [q \in Paths |->
              IF q \notin W THEN {}
              ELSE {full[i] : i \in {j \in 1..n :
                      full[j] \notin Merge[h]
                        /\ \E d \in Found[h][full[j]] : Mentions(d, names[j - 1][q])}}]
  BY DEF Expected, a
<1>11. names = G(names)
  <2> HIDE DEF G
  <2> QED BY <1>9
<1> HIDE DEF names
<1>12. names[0] = a /\ \A i \in 1..n : names[i] = Step(i, names[i - 1])
  <2> HIDE DEF Step, n
  <2> QED BY <1>2, <1>11
<1>13. \A i \in 0..n : names[i] \in S
  <2> DEFINE Good == {i \in 0..n : names[i] \in S}
  <2>1. 0 \in Good /\ \A i \in 1..n : i - 1 \in Good => i \in Good
    <3> HIDE DEF Step, n
    <3> QED BY <1>2, <1>3, <1>4, <1>12
  <2>2. Good \in SUBSET (0..n)
    OBVIOUS
  <2> HIDE DEF Good, n
  <2>3. \A i \in 0..n : i \in Good
    BY <1>2, <2>1, <2>2, NumbersInTurn
  <2> QED BY <2>3 DEF Good
<1>14. names \in [0..n -> S]
  <2>1. names = [i \in 0..n |-> names[i]]
    <3> HIDE DEF Step, n
    <3> QED BY <1>11
  <2> QED BY <1>13, <2>1
<1>15. \A i \in 1..n : names[i] = NamesBefore(h, log[i], names[i - 1])
  <2> SUFFICES ASSUME NEW i \in 1..n
               PROVE  names[i] = NamesBefore(h, log[i], names[i - 1])
    OBVIOUS
  <2>1. names[i - 1] \in [W -> Paths]
    BY <1>7, <1>13 DEF S
  <2>2. DOMAIN names[i - 1] = W
    BY <2>1
  <2>3. log[i] = full[i]
    BY <1>2
  <2>4. names[i] = Step(i, names[i - 1])
    BY <1>12
  <2> HIDE DEF log, full, n
  <2> QED BY <2>2, <2>3, <2>4 DEF NamesBefore
<1>16. TrueNames(h, log, n, W, names)
  BY <1>12, <1>14, <1>15 DEF TrueNames, S, a
<1>17. Expected(id) = TrueTouches(h, log, n, W, names)
  <2>1. \A j \in 1..n : log[j] = full[j]
    BY <1>2
  <2> DEFINE Counted(q) == {j \in 1..n : full[j] \notin Merge[h]
                              /\ \E d \in Found[h][full[j]] : Mentions(d, names[j - 1][q])}
             Touched(q) == {j \in 1..n : Touches(h, log[j], names[j - 1][q])}
  <2> HIDE DEF log, full, n
  <2>2. \A q \in Paths : Counted(q) = Touched(q)
    BY <2>1 DEF Touches
  <2>3. \A q \in Paths : {full[i] : i \in Counted(q)} = {log[i] : i \in Touched(q)}
    <3>1. \A q \in Paths : \A i \in Touched(q) : i \in 1..n
      OBVIOUS
    <3> HIDE DEF Counted, Touched
    <3> QED BY <2>1, <2>2, <3>1
  <2>4. Expected(id) = [q \in Paths |-> IF q \notin W THEN {}
                                        ELSE {full[i] : i \in Counted(q)}]
    BY <1>10
  <2>5. TrueTouches(h, log, n, W, names)
          = [q \in Paths |-> IF q \notin W THEN {} ELSE {log[i] : i \in Touched(q)}]
    BY DEF TrueTouches
  <2> HIDE DEF Counted, Touched
  <2> QED BY <2>3, <2>4, <2>5
<1> QED BY <1>2, <1>16, <1>17

LEMMA AnswersAreExpected ==
  ASSUME NEW p, identity[p] \in Identities, request[p] \in Requests,
         request[p].wanted = identity[p].wanted, events[p] \in MaybeEvents,
         NEW h \in Histories, NEW n \in 0..Len(Walked(identity[p], h)),
         NEW streamed, NEW failed, NEW lost,
         NEW s, s = Processed(p, h, n, streamed, failed, lost)
  PROVE  /\ s \in ProcessStates(request[p].wanted)
         /\ EventsTrue(h, events[p]) => EventsTrue(h, s.events)
         /\ EventsTrue(h, events[p]) /\ Clean(s) /\ h = identity[p].history
              /\ n = Len(Walked(identity[p], h))
            => s.acc = Expected(identity[p])
<1> DEFINE id == identity[p]
           log == Walked(id, h)
           W == request[p].wanted
           S == ProcessStates(W)
           Step(i, t) == ProcessCommit(h, log[i], request[p].safe, streamed, failed, lost, t)
<1>1. PICK state : /\ ProcessRun(h, log, n, request[p], events[p],
                                 streamed, failed, lost, state)
                   /\ Processed(p, h, n, streamed, failed, lost) = state[n]
  BY ProcessedByCommits
<1>2. /\ log \in Seq(Commits) /\ n \in Nat
      /\ \A i \in 1..n : log[i] \in Commits /\ i - 1 \in 0..n /\ i \in 0..n
  BY WalkedLog
<1>3. W \in SUBSET Paths /\ request[p].safe \in BOOLEAN
  BY ChurnAssumption DEF Asked
<1> HIDE DEF log
<1>4. /\ \A i \in 0..n : state[i] \in S
      /\ state[0] = ProcessStart(W, events[p])
      /\ \A i \in 1..n : state[i] = Step(i, state[i - 1])
  BY <1>1 DEF ProcessRun
<1>5. ASSUME NEW i \in 1..n
      PROVE  Advanced(h, log[i], W, state[i - 1], state[i])
  <2>1. log[i] \in Commits /\ state[i - 1] \in ProcessStates(W) /\ state[i] = Step(i, state[i - 1])
    BY <1>2, <1>4
  <2> DEFINE safe == request[p].safe
  <2>2. state[i] = ProcessCommit(h, log[i], safe, streamed, failed, lost, state[i - 1])
    BY <2>1
  <2>3. safe \in BOOLEAN
    BY <1>3
  <2> HIDE DEF safe, W
  <2> QED BY <1>3, <2>1, <2>2, <2>3, CommitProcessed
<1> HIDE DEF Step
<1>6. ASSUME EventsTrue(h, events[p])
      PROVE  \A i \in 0..n : EventsTrue(h, state[i].events)
  <2> DEFINE Good == {i \in 0..n : EventsTrue(h, state[i].events)}
  <2>1. 0 \in Good
    BY <1>2, <1>4, <1>6 DEF ProcessStart
  <2>2. \A i \in 1..n : i - 1 \in Good => i \in Good
    BY <1>2, <1>5 DEF Advanced
  <2>3. Good \in SUBSET (0..n)
    OBVIOUS
  <2> HIDE DEF Good
  <2>4. \A i \in 0..n : i \in Good
    BY <1>2, <2>1, <2>2, <2>3, NumbersInTurn
  <2> QED BY <2>4 DEF Good
<1>7. n \in 0..n
  BY <1>2
<1>8. ASSUME EventsTrue(h, events[p]), Clean(s), h = id.history, n = Len(log)
      PROVE  s.acc = Expected(id)
  <2>1. PICK names : TrueNames(h, log, n, W, names) /\ Expected(id) = TrueTouches(h, log, n, W, names)
    BY <1>8, ExpectedByNames DEF log
  <2>2. \A i \in 0..n : names[i] \in [W -> Paths]
    BY <2>1 DEF TrueNames
  <2> DEFINE Met(i, q) == {log[k] : k \in {j \in 1..i : Touches(h, log[j], names[j - 1][q])}}
             Told(i) == [q \in Paths |-> IF q \notin W THEN {} ELSE Met(i, q)]
             Good == {i \in 0..n : Clean(state[i]) => /\ state[i].names = names[i]
                                                      /\ state[i].acc = Told(i)}
  <2>3. 0 \in Good
    <3>1. state[0].names = names[0]
      BY <1>4, <2>1 DEF TrueNames, ProcessStart
    <3>2. \A q \in Paths : Met(0, q) = {}
      <4>1. 1..0 = {}
        OBVIOUS
      <4> QED BY <4>1
    <3>3. state[0].acc = Told(0)
      <4> HIDE DEF Met
      <4>1. state[0].acc = [q \in Paths |-> {}]
        BY <1>4 DEF ProcessStart, NoTouches
      <4> QED BY <3>2, <4>1
    <3> HIDE DEF Told
    <3> QED BY <1>2, <3>1, <3>3
  <2>4. ASSUME NEW i \in 1..n, i - 1 \in Good PROVE i \in Good
    <3> SUFFICES ASSUME Clean(state[i])
                 PROVE  state[i].names = names[i] /\ state[i].acc = Told(i)
      BY <1>2
    <3>1. EventsTrue(h, state[i - 1].events)
      BY <1>2, <1>6, <1>8
    <3>2. /\ Clean(state[i - 1])
          /\ state[i].names = NamesBefore(h, log[i], state[i - 1].names)
          /\ state[i].acc = [q \in Paths |->
               IF q \in W /\ Touches(h, log[i], state[i - 1].names[q])
               THEN state[i - 1].acc[q] \cup {log[i]} ELSE state[i - 1].acc[q]]
      BY <1>5, <3>1 DEF Advanced
    <3>3. state[i - 1].names = names[i - 1] /\ state[i - 1].acc = Told(i - 1)
      <4> HIDE DEF Told
      <4> QED BY <2>4, <3>2
    <3>4. state[i].names = names[i]
      BY <2>1, <3>2, <3>3 DEF TrueNames
    <3>5. \A q \in Paths : Met(i, q) = IF Touches(h, log[i], names[i - 1][q])
                                       THEN Met(i - 1, q) \cup {log[i]} ELSE Met(i - 1, q)
      <4> SUFFICES ASSUME NEW q \in Paths
                   PROVE  Met(i, q) = IF Touches(h, log[i], names[i - 1][q])
                                      THEN Met(i - 1, q) \cup {log[i]} ELSE Met(i - 1, q)
        OBVIOUS
      <4> DEFINE T(j) == Touches(h, log[j], names[j - 1][q])
      <4>1. {j \in 1..i : T(j)} = IF T(i) THEN {j \in 1..(i - 1) : T(j)} \cup {i}
                                  ELSE {j \in 1..(i - 1) : T(j)}
        <5>1. 1..i = 1..(i - 1) \cup {i} /\ i \notin 1..(i - 1)
          BY <1>2
        <5> HIDE DEF T
        <5> QED BY <5>1
      <4>2. Met(i, q) = {log[k] : k \in {j \in 1..i : T(j)}}
            /\ Met(i - 1, q) = {log[k] : k \in {j \in 1..(i - 1) : T(j)}}
        OBVIOUS
      <4> HIDE DEF Met
      <4>3. CASE T(i)
        <5> HIDE DEF T
        <5>1. Met(i, q) = Met(i - 1, q) \cup {log[i]}
          BY <4>1, <4>2, <4>3
        <5> QED BY <4>3, <5>1 DEF T
      <4>4. CASE ~T(i)
        <5> HIDE DEF T
        <5>1. Met(i, q) = Met(i - 1, q)
          BY <4>1, <4>2, <4>4
        <5> QED BY <4>4, <5>1 DEF T
      <4> QED BY <4>3, <4>4
    <3>6. state[i].acc = Told(i)
      <4>1. state[i - 1].acc = [q \in Paths |-> IF q \notin W THEN {} ELSE Met(i - 1, q)]
        BY <3>3
      <4>2. state[i - 1].names = names[i - 1]
        BY <3>3
      <4> HIDE DEF Met
      <4>3. \A q \in Paths :
              (IF q \in W /\ Touches(h, log[i], state[i - 1].names[q])
               THEN state[i - 1].acc[q] \cup {log[i]} ELSE state[i - 1].acc[q])
                = IF q \notin W THEN {} ELSE Met(i, q)
        BY <3>5, <4>1, <4>2
      <4> QED BY <3>2, <4>3
    <3> QED BY <3>4, <3>6
  <2>5. Good \in SUBSET (0..n)
    OBVIOUS
  <2>6. \A i \in 1..n : i - 1 \in Good => i \in Good
    <3> HIDE DEF Good
    <3> QED BY <2>4
  <2>7. \A i \in 0..n : i \in Good
    <3> HIDE DEF Good
    <3> QED BY <1>2, <2>3, <2>5, <2>6, NumbersInTurn
  <2>8. s.acc = Told(n)
    <3> HIDE DEF Told
    <3>1. n \in Good /\ s = state[n]
      BY <1>1, <1>7, <2>7
    <3> QED BY <1>8, <3>1
  <2>9. Told(n) = TrueTouches(h, log, n, W, names)
    BY DEF TrueTouches
  <2> QED BY <2>1, <2>8, <2>9
<1> QED BY <1>1, <1>4, <1>6, <1>7, <1>8 DEF log

(***************************************************************************)
(* The views of a cache, the last used one first.                          *)
(***************************************************************************)
Distinct(vs) == \A i, j \in DOMAIN vs : vs[i].identity = vs[j].identity => i = j

ViewsTrue(vs) ==
  /\ \A i \in DOMAIN vs : vs[i].answer = Expected(vs[i].identity)
  /\ Distinct(vs)

\* What is left of the first n of the views vs without the one of id.
KeptOf(vs, n, id, kept) ==
  /\ kept \in Seq(Views) /\ Len(kept) <= n
  /\ (\E i \in 1..n : vs[i].identity = id) => Len(kept) < n
  /\ \A k \in 1..Len(kept) : \E i \in 1..n : kept[k] = vs[i] /\ vs[i].identity # id
  /\ Distinct(vs) => Distinct(kept)

LEMMA KeepsOneMore ==
  ASSUME NEW vs \in Seq(Views), NEW id, NEW n \in 1..Len(vs), NEW kept,
         KeptOf(vs, n - 1, id, kept), NEW more,
         more = IF vs[n].identity = id THEN kept ELSE Append(kept, vs[n])
  PROVE  KeptOf(vs, n, id, more)
<1>1. kept \in Seq(Views) /\ Len(kept) \in Nat /\ Len(kept) <= n - 1 /\ n \in Nat
      /\ vs[n] \in Views
  BY DEF KeptOf
<1>2. CASE vs[n].identity = id
  <2>1. more = kept
    BY <1>2
  <2>2. Len(more) < n
    BY <1>1, <2>1
  <2>3. \A k \in 1..Len(more) : \E i \in 1..n : more[k] = vs[i] /\ vs[i].identity # id
    BY <1>1, <2>1 DEF KeptOf
  <2> QED BY <1>1, <2>1, <2>2, <2>3 DEF KeptOf
<1>3. CASE vs[n].identity # id
  <2>1. more = Append(kept, vs[n])
    BY <1>3
  <2>2. /\ more \in Seq(Views) /\ Len(more) = Len(kept) + 1
        /\ \A k \in 1..Len(kept) : more[k] = kept[k]
        /\ more[Len(kept) + 1] = vs[n]
    BY <1>1, <2>1
  <2>3. ASSUME \E i \in 1..n : vs[i].identity = id PROVE Len(more) < n
    <3>1. \E i \in 1..(n - 1) : vs[i].identity = id
      BY <1>1, <1>3, <2>3
    <3>2. Len(kept) < n - 1
      BY <3>1 DEF KeptOf
    <3> QED BY <1>1, <2>2, <3>2
  <2>4. ASSUME NEW k \in 1..Len(more)
        PROVE  \E i \in 1..n : more[k] = vs[i] /\ vs[i].identity # id
    <3>1. CASE k = Len(kept) + 1
      BY <1>1, <1>3, <2>2, <3>1
    <3>2. CASE k \in 1..Len(kept)
      <4>1. PICK i \in 1..(n - 1) : kept[k] = vs[i] /\ vs[i].identity # id
        BY <3>2 DEF KeptOf
      <4> QED BY <1>1, <2>2, <3>2, <4>1
    <3> QED BY <1>1, <2>2, <3>1, <3>2
  <2>5. ASSUME Distinct(vs), NEW k \in DOMAIN more, NEW l \in DOMAIN more,
               more[k].identity = more[l].identity, k < l
        PROVE  FALSE
    <3>1. k \in 1..Len(kept) /\ l \in 1..(Len(kept) + 1)
      BY <1>1, <2>2, <2>5
    <3>2. CASE l \in 1..Len(kept)
      BY <1>1, <2>2, <2>5, <3>1, <3>2 DEF KeptOf, Distinct
    <3>3. CASE l = Len(kept) + 1
      <4>1. PICK i \in 1..(n - 1) : kept[k] = vs[i]
        BY <3>1 DEF KeptOf
      <4>2. vs[i].identity = vs[n].identity
        BY <2>2, <2>5, <3>1, <3>3, <4>1
      <4>3. i \in DOMAIN vs /\ n \in DOMAIN vs /\ i # n
        BY <1>1
      <4> QED BY <2>5, <4>2, <4>3 DEF Distinct
    <3> QED BY <1>1, <3>1, <3>2, <3>3
  <2>6. Distinct(vs) => Distinct(more)
    <3> SUFFICES ASSUME Distinct(vs), NEW k \in DOMAIN more, NEW l \in DOMAIN more,
                        more[k].identity = more[l].identity, k # l
                 PROVE  FALSE
      BY DEF Distinct
    <3>1. k < l \/ l < k
      BY <2>2
    <3> QED BY <2>5, <3>1
  <2> QED BY <1>1, <2>2, <2>3, <2>4, <2>6 DEF KeptOf
<1> QED BY <1>2, <1>3

LEMMA WithoutKeeps ==
  ASSUME NEW vs \in Seq(Views), NEW id
  PROVE  KeptOf(vs, Len(vs), id, Without(vs, id))
<1> DEFINE n == Len(vs)
           S == Seq(Views)
           Step(i, s) == IF vs[i].identity = id THEN s ELSE Append(s, vs[i])
           F == [i \in 1..n |-> [s \in S |-> Step(i, s)]]
           G(f) == [i \in 0..n |-> IF i = 0 THEN <<>> ELSE Step(i, f[i - 1])]
<1>1. n \in Nat /\ <<>> \in S
  OBVIOUS
<1>2. \A i \in 1..n : \A s \in S : Step(i, s) \in S
  OBVIOUS
<1>3. \A i \in 1..n : i - 1 \in 0..n /\ i \in 0..n
  BY <1>1
<1> HIDE DEF S, n
<1>4. F \in [1..n -> [S -> S]]
  <2> HIDE DEF Step
  <2> QED BY <1>2
<1>5. PICK f : Recursion(n, S, <<>>, F, f)
  <2> HIDE DEF F
  <2> QED BY <1>1, <1>4, RecursionExists
<1>6. \A i \in 1..n : f[i] = Step(i, f[i - 1])
  <2> HIDE DEF Step
  <2> QED BY <1>3, <1>5 DEF Recursion
<1>7. f = G(f)
  <2> HIDE DEF Step
  <2>1. f \in [0..n -> S] /\ \A i \in 0..n : f[i] = G(f)[i]
    BY <1>1, <1>5, <1>6 DEF Recursion
  <2> QED BY <2>1
<1> DEFINE kept == CHOOSE g : g = G(g)
<1>8. Without(vs, id) = kept[n]
  BY DEF Without, n
<1>9. kept = G(kept)
  <2> HIDE DEF G
  <2> QED BY <1>7
<1> HIDE DEF kept
<1>10. kept[0] = <<>> /\ \A i \in 1..n : kept[i] = Step(i, kept[i - 1])
  <2> HIDE DEF Step
  <2> QED BY <1>1, <1>3, <1>9
<1> DEFINE Good == {i \in 0..n : KeptOf(vs, i, id, kept[i])}
<1>11. 0 \in Good
  <2>1. KeptOf(vs, 0, id, <<>>)
    <3>1. <<>> \in Seq(Views) /\ Len(<<>>) = 0 /\ 1..0 = {} /\ DOMAIN <<>> = {}
      OBVIOUS
    <3> QED BY <3>1 DEF KeptOf, Distinct
  <2> QED BY <1>1, <1>10, <2>1
<1>12. \A i \in 1..n : i - 1 \in Good => i \in Good
  <2> SUFFICES ASSUME NEW i \in 1..n, i - 1 \in Good PROVE i \in Good
    OBVIOUS
  <2>1. KeptOf(vs, i - 1, id, kept[i - 1])
    OBVIOUS
  <2>2. kept[i] = IF vs[i].identity = id THEN kept[i - 1] ELSE Append(kept[i - 1], vs[i])
    BY <1>10
  <2>3. i \in 1..Len(vs)
    BY DEF n
  <2>4. KeptOf(vs, i, id, kept[i])
    BY <2>1, <2>2, <2>3, KeepsOneMore
  <2> QED BY <1>3, <2>4
<1>13. Good \in SUBSET (0..n)
  OBVIOUS
<1>14. \A i \in 0..n : i \in Good
  <2> HIDE DEF Good
  <2> QED BY <1>1, <1>11, <1>12, <1>13, NumbersInTurn
<1>15. n \in 0..n
  BY <1>1
<1> QED BY <1>8, <1>14, <1>15 DEF n

\* A view in front of the others of other identities.
LEMMA FrontOf ==
  ASSUME NEW vs \in Seq(Views), NEW v \in Views, NEW all,
         all = <<v>> \o Without(vs, v.identity)
  PROVE  /\ all \in Seq(Views) /\ Len(all) <= Len(vs) + 1
         /\ ViewOf(vs, v.identity) # {} => Len(all) <= Len(vs)
         /\ ViewsTrue(vs) /\ v.answer = Expected(v.identity) => ViewsTrue(all)
<1> DEFINE kept == Without(vs, v.identity)
<1>1. KeptOf(vs, Len(vs), v.identity, kept)
  BY WithoutKeeps
<1> HIDE DEF kept
<1>2. kept \in Seq(Views) /\ Len(kept) \in Nat /\ Len(kept) <= Len(vs) /\ Len(vs) \in Nat
  BY <1>1 DEF KeptOf
<1>3. /\ all \in Seq(Views) /\ Len(all) = Len(kept) + 1
      /\ all[1] = v /\ \A k \in 1..Len(kept) : all[k + 1] = kept[k]
  BY <1>2 DEF kept
<1>4. ViewOf(vs, v.identity) # {} => Len(kept) < Len(vs)
  <2>1. DOMAIN vs = 1..Len(vs)
    OBVIOUS
  <2> QED BY <1>1, <2>1 DEF ViewOf, KeptOf
<1>5. ASSUME ViewsTrue(vs), v.answer = Expected(v.identity)
      PROVE  ViewsTrue(all)
  <2>1. DOMAIN all = 1..(Len(kept) + 1) /\ DOMAIN vs = 1..Len(vs) /\ DOMAIN kept = 1..Len(kept)
    BY <1>2, <1>3
  <2>2. \A i \in DOMAIN all : i = 1 \/ (i - 1 \in 1..Len(kept) /\ all[i] = kept[i - 1])
    <3>1. \A i \in DOMAIN all : i = 1 \/ (i - 1 \in 1..Len(kept) /\ (i - 1) + 1 = i)
      BY <1>2, <2>1
    <3> QED BY <1>3, <3>1
  <2>3. \A k \in 1..Len(kept) : /\ kept[k].answer = Expected(kept[k].identity)
                                /\ kept[k].identity # v.identity
    <3> SUFFICES ASSUME NEW k \in 1..Len(kept)
                 PROVE  /\ kept[k].answer = Expected(kept[k].identity)
                        /\ kept[k].identity # v.identity
      OBVIOUS
    <3>1. PICK i \in 1..Len(vs) : kept[k] = vs[i] /\ vs[i].identity # v.identity
      BY <1>1 DEF KeptOf
    <3>2. vs[i].answer = Expected(vs[i].identity)
      BY <1>5, <2>1 DEF ViewsTrue
    <3> QED BY <3>1, <3>2
  <2>4. Distinct(kept)
    BY <1>1, <1>5 DEF KeptOf, ViewsTrue
  <2>5. \A i \in DOMAIN all : all[i].answer = Expected(all[i].identity)
    BY <1>3, <1>5, <2>2, <2>3
  <2>6. Distinct(all)
    <3> SUFFICES ASSUME NEW i \in DOMAIN all, NEW j \in DOMAIN all,
                        all[i].identity = all[j].identity
                 PROVE  i = j
      BY DEF Distinct
    <3>1. CASE i = 1 \/ j = 1
      BY <1>3, <2>2, <2>3, <3>1
    <3>2. CASE i # 1 /\ j # 1
      <4>1. i - 1 \in DOMAIN kept /\ j - 1 \in DOMAIN kept
            /\ kept[i - 1].identity = kept[j - 1].identity
        BY <2>1, <2>2, <3>2
      <4>2. i - 1 = j - 1
        BY <2>4, <4>1 DEF Distinct
      <4> QED BY <2>1, <1>2, <4>2
    <3> QED BY <3>1, <3>2
  <2> QED BY <2>5, <2>6 DEF ViewsTrue
<1> QED BY <1>2, <1>3, <1>4, <1>5

LEMMA FiledViews ==
  ASSUME NEW vs \in Seq(Views), NEW id \in Identities, NEW answer \in Answers
  PROVE  /\ Filed(vs, id, answer) \in Seq(Views) /\ Len(Filed(vs, id, answer)) <= MaxViews
         /\ ViewsTrue(vs) /\ answer = Expected(id) => ViewsTrue(Filed(vs, id, answer))
<1> DEFINE v == [identity |-> id, answer |-> answer]
           all == <<v>> \o Without(vs, id)
           n == IF Len(all) > MaxViews THEN MaxViews ELSE Len(all)
           filed == SubSeq(all, 1, n)
<1>1. v \in Views /\ v.identity = id /\ v.answer = answer
  BY DEF Views
<1>2. /\ all \in Seq(Views)
      /\ ViewsTrue(vs) /\ answer = Expected(id) => ViewsTrue(all)
  <2>1. all = <<v>> \o Without(vs, v.identity)
    BY <1>1
  <2> HIDE DEF v, all
  <2> QED BY <1>1, <2>1, FrontOf
<1>3. Filed(vs, id, answer) = filed
  BY DEF Filed
<1> HIDE DEF all
<1>4. n \in Nat /\ n <= MaxViews /\ n <= Len(all) /\ Len(all) \in Nat
  BY <1>2, ChurnAssumption
<1> HIDE DEF n
<1>5. filed \in Seq(Views) /\ Len(filed) = n /\ \A i \in 1..n : filed[i] = all[i]
  BY <1>2, <1>4
<1>6. ViewsTrue(all) => ViewsTrue(filed)
  <2>1. DOMAIN filed = 1..n /\ DOMAIN all = 1..Len(all) /\ \A i \in 1..n : i \in 1..Len(all)
    BY <1>2, <1>4, <1>5
  <2> HIDE DEF filed
  <2> QED BY <1>5, <2>1 DEF ViewsTrue, Distinct
<1> QED BY <1>2, <1>3, <1>4, <1>5, <1>6

(***************************************************************************)
(* The inductive invariant: of the files, and of each collector.           *)
(***************************************************************************)
ChurnPlaces == {"idle", "opened", "identified", "answered", "collected"}

FilesTyped(cached, vs) ==
  /\ cached \in [history : Histories, events : MaybeEvents]
  /\ vs \in Seq(Views) /\ Len(vs) <= MaxViews

FilesTrue(cached, vs) == EventsTrue(cached.history, cached.events) /\ ViewsTrue(vs)

CollectorTyped(a, r, o, id, es, vs, answer) ==
  /\ es \in MaybeEvents /\ vs \in Seq(Views) /\ Len(vs) <= MaxViews
  /\ a # "idle" => /\ r \in Requests /\ o \in Histories /\ id \in Identities
                   /\ id.wanted = r.wanted
  /\ a \in {"idle", "opened"} => es = NoEvents /\ answer = Nil

CollectorTrue(id, es, vs, answer) ==
  /\ EventsTrue(id.history, es) /\ ViewsTrue(vs)
  /\ answer # Nil => answer = Expected(id)

RepositoryTyped ==
  /\ head \in Heads /\ history \in Histories
  /\ tainted \in BOOLEAN /\ runs \in 0..MaxRuns /\ changes \in 0..MaxChanges

CollectorsTyped ==
  /\ at \in [Collectors -> ChurnPlaces]
  /\ request \in [Collectors -> Requests \cup {Nil}]
  /\ opened \in [Collectors -> Histories \cup {Nil}]
  /\ identity \in [Collectors -> Identities \cup {Nil}]
  /\ events \in [Collectors -> MaybeEvents]
  /\ views \in [Collectors -> Seq(Views)]
  /\ told \in [Collectors -> Answers \cup {Nil}]

ChurnInv ==
  /\ RepositoryTyped /\ CollectorsTyped
  /\ FilesTyped(eventsFile, viewsFile)
  /\ \A p \in Collectors :
       CollectorTyped(at[p], request[p], opened[p], identity[p], events[p], views[p], told[p])
  /\ ~tainted => /\ FilesTrue(eventsFile, viewsFile)
                 /\ \A p \in Collectors :
                      CollectorTrue(identity[p], events[p], views[p], told[p])

LEMMA NothingIsTrue ==
  /\ \A h : EventsTrue(h, NoEvents)
  /\ NoEvents \in MaybeEvents
  /\ ViewsTrue(<<>>) /\ <<>> \in Seq(Views) /\ Len(<<>>) = 0
<1>1. \A h : EventsTrue(h, NoEvents)
  BY DEF EventsTrue, NoEvents
<1>2. NoEvents \in MaybeEvents
  BY DEF NoEvents, MaybeEvents
<1>3. DOMAIN <<>> = {} /\ <<>> \in Seq(Views) /\ Len(<<>>) = 0
  OBVIOUS
<1> QED BY <1>1, <1>2, <1>3 DEF ViewsTrue, Distinct

\* The other collectors are left alone.
OthersKept(p) ==
  \A q \in Collectors \ {p} :
    /\ at'[q] = at[q] /\ request'[q] = request[q] /\ opened'[q] = opened[q]
    /\ identity'[q] = identity[q] /\ events'[q] = events[q] /\ views'[q] = views[q]
    /\ told'[q] = told[q]

\* A step of one collector, by what it does to the collector and the files.
LEMMA OneCollector ==
  ASSUME ChurnInv, NEW p \in Collectors, OthersKept(p),
         RepositoryTyped', CollectorsTyped', tainted => tainted',
         FilesTyped(eventsFile, viewsFile)',
         CollectorTyped(at[p], request[p], opened[p], identity[p], events[p], views[p], told[p])',
         ~tainted' => /\ FilesTrue(eventsFile, viewsFile)'
                      /\ CollectorTrue(identity[p], events[p], views[p], told[p])'
  PROVE  ChurnInv'
<1>1. ASSUME NEW q \in Collectors
      PROVE  /\ CollectorTyped(at[q], request[q], opened[q], identity[q], events[q], views[q],
                               told[q])'
             /\ ~tainted' => CollectorTrue(identity[q], events[q], views[q], told[q])'
  <2>1. CASE q = p
    BY <2>1
  <2>2. CASE q # p
    BY <2>2 DEF ChurnInv, OthersKept
  <2> QED BY <2>1, <2>2
<1> QED BY <1>1 DEF ChurnInv

LEMMA StartKeeps ==
  ASSUME ChurnInv, NEW p \in Collectors, NEW r \in Requests, Start(p, r)
  PROVE  ChurnInv'
<1> DEFINE id == [head |-> head, history |-> history, wanted |-> r.wanted,
                  maxCommits |-> r.maxCommits]
<1>1. /\ at \in [Collectors -> ChurnPlaces] /\ request \in [Collectors -> Requests \cup {Nil}]
      /\ opened \in [Collectors -> Histories \cup {Nil}]
      /\ identity \in [Collectors -> Identities \cup {Nil}]
      /\ events \in [Collectors -> MaybeEvents] /\ views \in [Collectors -> Seq(Views)]
      /\ told \in [Collectors -> Answers \cup {Nil}]
  BY DEF ChurnInv, CollectorsTyped
<1>2. id \in Identities /\ id.wanted = r.wanted
  BY ChurnAssumption DEF Identities, Asked, ChurnInv, RepositoryTyped
<1> HIDE DEF id
<1>3. /\ at' = [at EXCEPT ![p] = "opened"] /\ request' = [request EXCEPT ![p] = r]
      /\ views' = [views EXCEPT ![p] = viewsFile] /\ events' = [events EXCEPT ![p] = NoEvents]
      /\ opened' = [opened EXCEPT ![p] = history] /\ identity' = [identity EXCEPT ![p] = id]
      /\ told' = [told EXCEPT ![p] = Nil]
      /\ UNCHANGED <<repoVars, fileVars, tainted>> /\ runs < MaxRuns /\ runs' = runs + 1
  BY DEF Start, id
<1>4. /\ at'[p] = "opened" /\ request'[p] = r /\ views'[p] = viewsFile /\ events'[p] = NoEvents
      /\ opened'[p] = history /\ identity'[p] = id /\ told'[p] = Nil
  BY <1>1, <1>3
<1>5. OthersKept(p)
  BY <1>1, <1>3 DEF OthersKept
<1>6. RepositoryTyped' /\ FilesTyped(eventsFile, viewsFile)'
      /\ (tainted => tainted')
  BY <1>3, ChurnAssumption DEF ChurnInv, RepositoryTyped, repoVars, fileVars
<1>7. history \in Histories /\ viewsFile \in Seq(Views) /\ Len(viewsFile) <= MaxViews
  BY DEF ChurnInv, RepositoryTyped, FilesTyped
<1>8. CollectorsTyped'
  BY <1>1, <1>2, <1>3, <1>7, NothingIsTrue DEF CollectorsTyped, ChurnPlaces
<1>9. CollectorTyped(at[p], request[p], opened[p], identity[p], events[p], views[p], told[p])'
  BY <1>2, <1>4, <1>7, NothingIsTrue DEF CollectorTyped
<1>10. ~tainted' => /\ FilesTrue(eventsFile, viewsFile)'
                    /\ CollectorTrue(identity[p], events[p], views[p], told[p])'
  BY <1>3, <1>4, NothingIsTrue DEF ChurnInv, FilesTrue, CollectorTrue, fileVars
<1> QED BY <1>5, <1>6, <1>8, <1>9, <1>10, OneCollector

LEMMA IdentifyKeeps ==
  ASSUME ChurnInv, NEW p \in Collectors, Identify(p)
  PROVE  ChurnInv'
<1> DEFINE id == [identity[p] EXCEPT !.history = history]
           hits == IF history \in Cacheable THEN ViewOf(views[p], id) ELSE {}
           v == views[p][CHOOSE i \in hits : TRUE]
<1>1. /\ at \in [Collectors -> ChurnPlaces] /\ request \in [Collectors -> Requests \cup {Nil}]
      /\ opened \in [Collectors -> Histories \cup {Nil}]
      /\ identity \in [Collectors -> Identities \cup {Nil}]
      /\ events \in [Collectors -> MaybeEvents] /\ views \in [Collectors -> Seq(Views)]
      /\ told \in [Collectors -> Answers \cup {Nil}]
  BY DEF ChurnInv, CollectorsTyped
<1>2. /\ at[p] = "opened" /\ events[p] = NoEvents /\ told[p] = Nil
      /\ request[p] \in Requests /\ opened[p] \in Histories /\ identity[p] \in Identities
      /\ identity[p].wanted = request[p].wanted
      /\ views[p] \in Seq(Views) /\ Len(views[p]) <= MaxViews
  BY DEF Identify, ChurnInv, CollectorTyped
<1>3. id \in Identities /\ id.wanted = request[p].wanted /\ id.history = history
  BY <1>2 DEF Identities, ChurnInv, RepositoryTyped
<1>4. /\ identity' = [identity EXCEPT ![p] = id]
      /\ UNCHANGED <<repoVars, fileVars, request, opened, tainted, runs>>
  BY DEF Identify
<1>5. RepositoryTyped' /\ FilesTyped(eventsFile, viewsFile)' /\ (tainted => tainted')
      /\ (~tainted' => FilesTrue(eventsFile, viewsFile)')
  BY <1>4 DEF ChurnInv, RepositoryTyped, repoVars, fileVars
<1>6. CASE hits # {}
  <2>1. /\ told' = [told EXCEPT ![p] = v.answer]
        /\ views' = [views EXCEPT ![p] = <<v>> \o Without(@, id)]
        /\ at' = [at EXCEPT ![p] = "answered"] /\ events' = events
    BY <1>6 DEF Identify
  <2>2. ViewOf(views[p], id) # {} /\ (CHOOSE i \in hits : TRUE) \in ViewOf(views[p], id)
    BY <1>6
  <2>3. v \in Views /\ v.identity = id
        /\ (ViewsTrue(views[p]) => v.answer = Expected(id))
    <3> DEFINE i == CHOOSE j \in hits : TRUE
    <3>1. i \in DOMAIN views[p] /\ views[p][i].identity = id
      BY <2>2 DEF ViewOf
    <3> HIDE DEF i
    <3>2. views[p][i] \in Views
      BY <1>2, <3>1
    <3>3. ViewsTrue(views[p]) => views[p][i].answer = Expected(id)
      BY <3>1 DEF ViewsTrue
    <3> QED BY <3>1, <3>2, <3>3 DEF i
  <2> HIDE DEF id, hits, v
  <2> DEFINE all == <<v>> \o Without(views[p], id)
  <2>4. /\ all \in Seq(Views) /\ Len(all) <= Len(views[p])
        /\ ViewsTrue(views[p]) => ViewsTrue(all)
    <3> DEFINE vs == views[p]
    <3>1. vs \in Seq(Views) /\ all = <<v>> \o Without(vs, v.identity)
      BY <1>2, <2>3
    <3> HIDE DEF vs, all
    <3>2. /\ all \in Seq(Views)
          /\ ViewOf(vs, v.identity) # {} => Len(all) <= Len(vs)
          /\ ViewsTrue(vs) /\ v.answer = Expected(v.identity) => ViewsTrue(all)
      BY <2>3, <3>1, FrontOf
    <3> QED BY <2>2, <2>3, <3>2 DEF vs
  <2> HIDE DEF all
  <2>5. views' = [views EXCEPT ![p] = all]
    BY <1>1, <2>1 DEF all
  <2>6. /\ at'[p] = "answered" /\ request'[p] = request[p] /\ opened'[p] = opened[p]
        /\ identity'[p] = id /\ events'[p] = NoEvents /\ views'[p] = all /\ told'[p] = v.answer
    BY <1>1, <1>2, <1>4, <2>1, <2>5
  <2>7. OthersKept(p)
    BY <1>1, <1>4, <2>1, <2>5 DEF OthersKept
  <2>8. v.answer \in Answers
    BY <2>3 DEF Views
  <2>9. CollectorsTyped'
    BY <1>1, <1>3, <1>4, <2>1, <2>4, <2>5, <2>8 DEF CollectorsTyped, ChurnPlaces
  <2>10. Len(all) <= MaxViews
    BY <1>2, <2>4, ChurnAssumption
  <2>11. CollectorTyped(at[p], request[p], opened[p], identity[p], events[p], views[p], told[p])'
    BY <1>2, <1>3, <2>4, <2>6, <2>10, NothingIsTrue DEF CollectorTyped
  <2>12. ~tainted' => CollectorTrue(identity[p], events[p], views[p], told[p])'
    <3>1. ~tainted => ViewsTrue(views[p])
      BY DEF ChurnInv, CollectorTrue
    <3> QED BY <1>4, <2>3, <2>4, <2>6, <3>1, NothingIsTrue DEF CollectorTrue
  <2> QED BY <1>5, <2>7, <2>9, <2>11, <2>12, OneCollector
<1>7. CASE hits = {}
  <2> DEFINE es == IF history \in Cacheable THEN LoadedEvents(history) ELSE NoEvents
  <2>1. /\ told' = told /\ views' = views
        /\ at' = [at EXCEPT ![p] = "identified"] /\ events' = [events EXCEPT ![p] = es]
    BY <1>7 DEF Identify
  <2>2. es \in MaybeEvents
        /\ (EventsTrue(eventsFile.history, eventsFile.events) => EventsTrue(history, es))
    BY NothingIsTrue DEF LoadedEvents, ChurnInv, FilesTyped
  <2> HIDE DEF id, hits, es
  <2>3. /\ at'[p] = "identified" /\ request'[p] = request[p] /\ opened'[p] = opened[p]
        /\ identity'[p] = id /\ events'[p] = es /\ views'[p] = views[p] /\ told'[p] = Nil
    BY <1>1, <1>2, <1>4, <2>1
  <2>4. OthersKept(p)
    BY <1>1, <1>4, <2>1 DEF OthersKept
  <2>5. CollectorsTyped'
    BY <1>1, <1>3, <1>4, <2>1, <2>2 DEF CollectorsTyped, ChurnPlaces
  <2>6. CollectorTyped(at[p], request[p], opened[p], identity[p], events[p], views[p], told[p])'
    BY <1>2, <1>3, <2>2, <2>3 DEF CollectorTyped
  <2>7. ~tainted' => CollectorTrue(identity[p], events[p], views[p], told[p])'
    <3>1. ~tainted => /\ ViewsTrue(views[p])
                      /\ EventsTrue(eventsFile.history, eventsFile.events)
      BY DEF ChurnInv, CollectorTrue, FilesTrue
    <3> QED BY <1>3, <1>4, <2>2, <2>3, <3>1 DEF CollectorTrue
  <2> QED BY <1>5, <2>4, <2>5, <2>6, <2>7, OneCollector
<1> QED BY <1>6, <1>7

LEMMA CollectKeeps ==
  ASSUME ChurnInv, NEW p \in Collectors, Collect(p)
  PROVE  ChurnInv'
<1>1. /\ at \in [Collectors -> ChurnPlaces] /\ request \in [Collectors -> Requests \cup {Nil}]
      /\ opened \in [Collectors -> Histories \cup {Nil}]
      /\ identity \in [Collectors -> Identities \cup {Nil}]
      /\ events \in [Collectors -> MaybeEvents] /\ views \in [Collectors -> Seq(Views)]
      /\ told \in [Collectors -> Answers \cup {Nil}]
  BY DEF ChurnInv, CollectorsTyped
<1>2. /\ at[p] = "identified" /\ request[p] \in Requests /\ opened[p] \in Histories
      /\ identity[p] \in Identities /\ identity[p].wanted = request[p].wanted
      /\ views[p] \in Seq(Views) /\ Len(views[p]) <= MaxViews /\ events[p] \in MaybeEvents
  BY DEF Collect, ChurnInv, CollectorTyped
<1>a. PICK h \in {opened[p], history} :
        LET log == Walked(identity[p], h)
            commits == {log[i] : i \in DOMAIN log}
        IN \E streamed \in {{}, commits \ (Merge[h] \cup Root[h])},
              failed \in SUBSET {c \in commits : Found[h][c] # Raw[h][c]},
              lost \in commits \cup {Nil},
              n \in 0..Len(log) :
             LET s == Processed(p, h, n, streamed, failed, lost)
             IN /\ Keep(p, s, n = Len(log) /\ s.complete /\ ~s.partial)
                /\ at' = [at EXCEPT ![p] = IF s.put THEN "collected" ELSE "answered"]
                /\ tainted' = (tainted \/ s.missed \/ h # identity[p].history)
  BY DEF Collect
<1>3. \E streamed, failed, lost : \E n \in 0..Len(Walked(identity[p], h)) :
        LET s == Processed(p, h, n, streamed, failed, lost)
        IN /\ Keep(p, s, n = Len(Walked(identity[p], h)) /\ s.complete /\ ~s.partial)
           /\ at' = [at EXCEPT ![p] = IF s.put THEN "collected" ELSE "answered"]
           /\ tainted' = (tainted \/ s.missed \/ h # identity[p].history)
  BY <1>a
<1>b. PICK streamed, failed, lost, n :
         LET s == Processed(p, h, n, streamed, failed, lost)
         IN /\ n \in 0..Len(Walked(identity[p], h))
            /\ Keep(p, s, n = Len(Walked(identity[p], h)) /\ s.complete /\ ~s.partial)
            /\ at' = [at EXCEPT ![p] = IF s.put THEN "collected" ELSE "answered"]
            /\ tainted' = (tainted \/ s.missed \/ h # identity[p].history)
  BY <1>3
<1> DEFINE s == Processed(p, h, n, streamed, failed, lost)
           whole == n = Len(Walked(identity[p], h)) /\ s.complete /\ ~s.partial
           W == request[p].wanted
<1>4. h \in Histories
  BY <1>2 DEF ChurnInv, RepositoryTyped
<1>5. /\ s \in ProcessStates(W)
      /\ EventsTrue(h, events[p]) => EventsTrue(h, s.events)
      /\ EventsTrue(h, events[p]) /\ Clean(s) /\ h = identity[p].history
           /\ n = Len(Walked(identity[p], h))
         => s.acc = Expected(identity[p])
  <2>1. PICK t : t = s
    OBVIOUS
  <2> HIDE DEF W
  <2>2. /\ t \in ProcessStates(request[p].wanted)
        /\ EventsTrue(h, events[p]) => EventsTrue(h, t.events)
        /\ EventsTrue(h, events[p]) /\ Clean(t) /\ h = identity[p].history
             /\ n = Len(Walked(identity[p], h))
           => t.acc = Expected(identity[p])
    BY <1>2, <1>4, <1>b, <2>1, AnswersAreExpected
  <2> HIDE DEF s
  <2> QED BY <2>1, <2>2 DEF W
<1>6. /\ Keep(p, s, whole)
      /\ at' = [at EXCEPT ![p] = IF s.put THEN "collected" ELSE "answered"]
      /\ tainted' = (tainted \/ s.missed \/ h # identity[p].history)
      /\ UNCHANGED <<repoVars, fileVars, identity, request, opened, runs>>
  BY <1>b DEF Collect
<1> HIDE DEF s, whole
<1>7. /\ s.acc \in Answers /\ s.events \in MaybeEvents /\ s.missed \in BOOLEAN
      /\ s.complete \in BOOLEAN /\ s.partial \in BOOLEAN /\ s.put \in BOOLEAN
  BY <1>5 DEF ProcessStates
<1> DEFINE es == IF identity[p].history \in Cacheable THEN s.events ELSE events[p]
           answer == IF whole THEN s.acc ELSE Nil
           vs == IF whole /\ identity[p].history \in Cacheable
                 THEN Filed(views[p], identity[p], s.acc) ELSE views[p]
<1>8. /\ events' = [events EXCEPT ![p] = es] /\ told' = [told EXCEPT ![p] = answer]
      /\ views' = [views EXCEPT ![p] = vs]
  BY <1>1, <1>6 DEF Keep
<1>9. es \in MaybeEvents /\ answer \in Answers \cup {Nil}
  BY <1>2, <1>7
<1>10. vs \in Seq(Views) /\ Len(vs) <= MaxViews
  BY <1>2, <1>7, FiledViews
<1>11. ASSUME ~tainted'
       PROVE  /\ EventsTrue(identity[p].history, es) /\ ViewsTrue(vs)
              /\ answer # Nil => answer = Expected(identity[p])
  <2>1. ~tainted /\ ~s.missed /\ h = identity[p].history
    BY <1>6, <1>7, <1>11
  <2>2. EventsTrue(identity[p].history, events[p]) /\ ViewsTrue(views[p])
    BY <2>1 DEF ChurnInv, CollectorTrue
  <2>3. EventsTrue(identity[p].history, es)
    BY <1>5, <2>1, <2>2
  <2>4. whole => s.acc = Expected(identity[p])
    BY <1>5, <2>1, <2>2 DEF whole, Clean
  <2>5. ViewsTrue(vs)
    BY <1>2, <1>7, <2>2, <2>4, FiledViews
  <2> QED BY <2>3, <2>4, <2>5
<1> HIDE DEF es, answer, vs
<1>12. /\ at'[p] # "idle" /\ at'[p] # "opened" /\ at' \in [Collectors -> ChurnPlaces]
       /\ request'[p] = request[p] /\ opened'[p] = opened[p]
       /\ identity'[p] = identity[p] /\ events'[p] = es /\ views'[p] = vs /\ told'[p] = answer
  BY <1>1, <1>6, <1>8 DEF ChurnPlaces
<1>13. OthersKept(p)
  BY <1>1, <1>6, <1>8 DEF OthersKept
<1>14. CollectorsTyped'
  BY <1>1, <1>6, <1>8, <1>9, <1>10, <1>12 DEF CollectorsTyped
<1>15. /\ tainted' \in BOOLEAN /\ (tainted => tainted')
  BY <1>6, <1>7 DEF ChurnInv, RepositoryTyped
<1>16. RepositoryTyped' /\ FilesTyped(eventsFile, viewsFile)'
  BY <1>6, <1>15 DEF ChurnInv, RepositoryTyped, repoVars, fileVars
<1>17. CollectorTyped(at[p], request[p], opened[p], identity[p], events[p], views[p], told[p])'
  BY <1>2, <1>9, <1>10, <1>12 DEF CollectorTyped
<1>18. ~tainted' => /\ FilesTrue(eventsFile, viewsFile)'
                    /\ CollectorTrue(identity[p], events[p], views[p], told[p])'
  BY <1>6, <1>11, <1>12, <1>15 DEF ChurnInv, CollectorTrue, fileVars
<1> QED BY <1>13, <1>14, <1>15, <1>16, <1>17, <1>18, OneCollector

LEMMA SaveKeeps ==
  ASSUME ChurnInv, NEW p \in Collectors, Save(p)
  PROVE  ChurnInv'
<1>1. /\ at \in [Collectors -> ChurnPlaces] /\ request \in [Collectors -> Requests \cup {Nil}]
      /\ opened \in [Collectors -> Histories \cup {Nil}]
      /\ identity \in [Collectors -> Identities \cup {Nil}]
      /\ events \in [Collectors -> MaybeEvents] /\ views \in [Collectors -> Seq(Views)]
      /\ told \in [Collectors -> Answers \cup {Nil}]
  BY DEF ChurnInv, CollectorsTyped
<1>2. /\ identity[p] \in Identities /\ events[p] \in MaybeEvents
      /\ views[p] \in Seq(Views) /\ Len(views[p]) <= MaxViews
  BY DEF Save, ChurnInv, CollectorTyped
<1>3. /\ \/ eventsFile' = [history |-> identity[p].history, events |-> events[p]]
         \/ eventsFile' = eventsFile
      /\ viewsFile' = views[p] \/ viewsFile' = viewsFile
  BY DEF Save
<1>4. /\ at' = [at EXCEPT ![p] = "idle"] /\ request' = [request EXCEPT ![p] = Nil]
      /\ opened' = [opened EXCEPT ![p] = Nil] /\ identity' = [identity EXCEPT ![p] = Nil]
      /\ events' = [events EXCEPT ![p] = NoEvents] /\ views' = [views EXCEPT ![p] = <<>>]
      /\ told' = [told EXCEPT ![p] = Nil] /\ UNCHANGED <<repoVars, tainted, runs>>
  BY DEF Save, Forget
<1>5. /\ at'[p] = "idle" /\ events'[p] = NoEvents /\ views'[p] = <<>> /\ told'[p] = Nil
  BY <1>1, <1>4
<1>6. OthersKept(p)
  BY <1>1, <1>4 DEF OthersKept
<1>7. CollectorsTyped'
  BY <1>1, <1>4, NothingIsTrue DEF CollectorsTyped, ChurnPlaces
<1>8. identity[p].history \in Histories
  BY <1>2 DEF Identities
<1>9. eventsFile' \in [history : Histories, events : MaybeEvents]
      /\ viewsFile' \in Seq(Views) /\ Len(viewsFile') <= MaxViews
  BY <1>2, <1>3, <1>8 DEF ChurnInv, FilesTyped
<1>10. RepositoryTyped' /\ FilesTyped(eventsFile, viewsFile)' /\ (tainted => tainted')
  BY <1>4, <1>9 DEF ChurnInv, RepositoryTyped, FilesTyped, repoVars
<1>11. CollectorTyped(at[p], request[p], opened[p], identity[p], events[p], views[p], told[p])'
  BY <1>5, NothingIsTrue, ChurnAssumption DEF CollectorTyped
<1>12. ~tainted' => FilesTrue(eventsFile, viewsFile)'
  BY <1>3, <1>4 DEF ChurnInv, FilesTrue, CollectorTrue
<1>13. CollectorTrue(identity[p], events[p], views[p], told[p])'
  BY <1>5, NothingIsTrue DEF CollectorTrue
<1> QED BY <1>6, <1>7, <1>10, <1>11, <1>12, <1>13, OneCollector

\* The inductive invariant of the collections: what the caches hold in memory
\* and on disk is true to the history that it is filed under, and a collector
\* that has not looked into them yet has no answer (collect_impl, ChurnCache).
THEOREM ChurnInductive == ChurnSpec => []ChurnInv
<1>1. ChurnInit => ChurnInv
  <2> SUFFICES ASSUME ChurnInit PROVE ChurnInv
    OBVIOUS
  <2>1. RepositoryTyped /\ CollectorsTyped
    <3>1. RepositoryTyped
      <4>1. 0 \in 0..MaxRuns /\ 0 \in 0..MaxChanges
        BY ChurnAssumption
      <4>2. tainted \in BOOLEAN
        BY DEF ChurnInit
      <4> QED BY <4>1, <4>2 DEF ChurnInit, RepositoryTyped
    <3>2. \A S, v : v \in S => [p \in Collectors |-> v] \in [Collectors -> S]
      OBVIOUS
    <3>3. /\ at \in [Collectors -> ChurnPlaces] /\ request \in [Collectors -> Requests \cup {Nil}]
          /\ opened \in [Collectors -> Histories \cup {Nil}]
          /\ identity \in [Collectors -> Identities \cup {Nil}]
          /\ told \in [Collectors -> Answers \cup {Nil}]
      BY DEF ChurnInit, ChurnPlaces
    <3>4. events \in [Collectors -> MaybeEvents] /\ views \in [Collectors -> Seq(Views)]
      BY <3>2, NothingIsTrue DEF ChurnInit
    <3> QED BY <3>1, <3>3, <3>4 DEF CollectorsTyped
  <2>2. FilesTyped(eventsFile, viewsFile) /\ FilesTrue(eventsFile, viewsFile)
    BY ChurnAssumption, NothingIsTrue DEF ChurnInit, FilesTyped, FilesTrue
  <2>3. ASSUME NEW p \in Collectors
        PROVE  /\ CollectorTyped(at[p], request[p], opened[p], identity[p], events[p],
                                 views[p], told[p])
               /\ CollectorTrue(identity[p], events[p], views[p], told[p])
    BY ChurnAssumption, NothingIsTrue DEF ChurnInit, CollectorTyped, CollectorTrue
  <2> QED BY <2>1, <2>2, <2>3 DEF ChurnInv
<1>2. ChurnInv /\ [ChurnNext]_churnVars => ChurnInv'
  <2> SUFFICES ASSUME ChurnInv, [ChurnNext]_churnVars PROVE ChurnInv'
    OBVIOUS
  <2>1. CASE ChangeRepository
    <3>1. RepositoryTyped'
      BY <2>1, ChurnAssumption DEF ChangeRepository, ChurnInv, RepositoryTyped
    <3> QED
      BY <2>1, <3>1 DEF ChangeRepository, ChurnInv, CollectorsTyped, fileVars, collectorVars
  <2>2. CASE UNCHANGED churnVars
    BY <2>2 DEF ChurnInv, RepositoryTyped, CollectorsTyped, churnVars, repoVars, fileVars,
                collectorVars
  <2> QED
    BY <2>1, <2>2, StartKeeps, IdentifyKeeps, CollectKeeps, SaveKeeps DEF ChurnNext, ChurnStep
<1> QED BY <1>1, <1>2, PTL DEF ChurnSpec

\* Churn that is answered or filed is that of the history it is told of, for
\* every history with its renames and merges, every set of collectors and
\* requests, and whatever the two caches were filled with before (collect_impl),
\* unless a history changed between fingerprint and walk or a search for
\* renames failed.
THEOREM ChurnIsSound == ChurnSpec => []ChurnSound
<1>1. ChurnInv => ChurnSound
  <2> SUFFICES ASSUME ChurnInv PROVE ChurnSound
    OBVIOUS
  <2>1. ChurnTypeOK
    <3>1. \A i \in DOMAIN viewsFile : viewsFile[i] \in Views
      BY DEF ChurnInv, FilesTyped
    <3>2. \A p \in Collectors : \A i \in DOMAIN views[p] : views[p][i] \in Views
      BY DEF ChurnInv, CollectorTyped
    <3> QED
      BY <3>1, <3>2 DEF ChurnInv, RepositoryTyped, CollectorsTyped, FilesTyped, ChurnTypeOK,
                        ChurnPlaces, MaybeEvents
  <2>2. AnswersAreFresh
    BY DEF ChurnInv, CollectorTrue, AnswersAreFresh
  <2>3. CachedChurnTrue
    BY DEF ChurnInv, FilesTrue, ViewsTrue, Distinct, EventsTrue, EventTrue, CachedChurnTrue
  <2> QED BY <2>1, <2>2, <2>3 DEF ChurnSound
<1> QED BY <1>1, ChurnInductive, PTL
================================================================================
