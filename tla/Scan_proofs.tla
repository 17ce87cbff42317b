------------------------------ MODULE Scan_proofs ------------------------------
(***************************************************************************)
(* Proofs about a scan and the plan that starts from it: what is read from *)
(* the stream of git log is either the history as it is or an error        *)
(* (GitStream), what the limits of a scan leave out is told by its         *)
(* diagnostics (ScanRun), and a plan of definitions keeps its limits,      *)
(* prefers its seeds and tells what it left out (DefinitionPlan), and so   *)
(* does the reading plan of files, whose search for dependents finds the   *)
(* nearest seed (ContextPlan); the work scope that is projected from it    *)
(* lists the parts of the graph as they are (WorkScope).                   *)
(***************************************************************************)
EXTENDS GitStream, ScanRun, DefinitionPlan, WorkScope, SequenceTheorems, FiniteSetTheorems,
        SetInduction, TLAPS

-------------------------------------------------------------------------------
(***************************************************************************)
(* GitStream.  The records that the child has written and will write, and  *)
(* how far the parser has come in them.                                    *)
(***************************************************************************)
\* What the parser will find: what is in the pipe, then what the child has still
\* to say about the headers that it read.
Flow == stdout \o pending

\* After the first i records the flow goes on with n deltas and then another
\* header, unless the child leaves a field without its end among them.
Follow(flow, i, n) ==
  \A j \in (i + 1)..(Len(flow) + 1) :
    (\A k \in (i + 1)..(j - 1) : flow[k] = Delta) =>
      /\ j - i - 1 <= n
      /\ (j = Len(flow) + 1 \/ flow[j].kind = "header") => j - i - 1 = n

Records == {Header(c) : c \in 1..Len(deltas)} \cup {Delta}

Headed(flow) ==
  \A i \in 1..Len(flow) :
    flow[i].kind = "header" => Follow(flow, i, deltas[flow[i].commit])

\* The deltas that are still to come for the commit that is being read; all
\* that were read are kept as long as the parse is not partial.
Rest(n) ==
  /\ n + kept <= deltas[Len(events) + 1]
  /\ ~partial => n + kept = deltas[Len(events) + 1]

FlowInv ==
  /\ pending \in Seq(Records)
  /\ child = "succeeded" => pending = <<>>
  /\ Parsing => Headed(Flow)
  /\ Parsing /\ kept # NoCommit =>
       /\ Unread
       /\ \E n \in Nat : Rest(n) /\ Follow(Flow, 0, n)
  /\ main = "draining" => kept # NoCommit

\* Only the last event can lack deltas: the parse ended there, or the child did.
ChildBroke ==
  stdout = <<>> /\ child \in {"failed", "killed"} /\ (Parsing => kept = NoCommit)

EventsInv ==
  /\ \A c \in 1..Len(events) :
       /\ events[c] <= deltas[c]
       /\ c < Len(events) => events[c] = deltas[c]
  /\ events # <<>> /\ events[Len(events)] # deltas[Len(events)] =>
       ChildBroke \/ (~Parsing /\ partial)
  /\ main \in {"parsed", "waiting"} /\ ~partial => ~Unread

\* Nobody waits for the child before the watchdog has ended.
WatchInv ==
  /\ main \in {"waiting", "cleaning", "returned"} => watchdog # "watching"
  /\ main = "cleaning" => watchdog # "fired"
  /\ main = "waiting" /\ watchdog = "fired" => partial
  /\ reaped => main \in {"waiting", "cleaning", "returned"}

ResultInv ==
  /\ (result = "none") <=> main # "returned"
  /\ result = "whole" => child = "succeeded" /\ ~partial /\ ~Unread

\* StreamInv is inductive.
StreamInv ==
  /\ StreamTypeOK
  /\ deltas \in Requests
  /\ FlowInv
  /\ EventsInv
  /\ WatchInv
  /\ ResultInv
  /\ DeadlineIsPartial
  /\ KillsOnlyItsChild

-------------------------------------------------------------------------------
\* What is left of a pipe whose first record is read.
LEMMA TailOf ==
  ASSUME NEW S, NEW s \in Seq(S), s # <<>>
  PROVE  /\ Tail(s) \in Seq(S) /\ Len(Tail(s)) = Len(s) - 1 /\ Len(s) \in Nat /\ Len(s) >= 1
         /\ Head(s) = s[1] /\ s[1] \in S
         /\ \A k \in 1..Len(Tail(s)) : Tail(s)[k] = s[k + 1]
OBVIOUS

\* A record or a run of records is written behind those in the pipe.
LEMMA ConcatOf ==
  ASSUME NEW S, NEW s \in Seq(S), NEW t \in Seq(S)
  PROVE  /\ s \o t \in Seq(S) /\ Len(s \o t) = Len(s) + Len(t)
         /\ Len(s) \in Nat /\ Len(t) \in Nat
         /\ \A k \in 1..Len(s) : (s \o t)[k] = s[k]
         /\ \A k \in 1..Len(t) : (s \o t)[Len(s) + k] = t[k]
OBVIOUS

\* The deltas of one commit, as the child has them still to write.
LEMMA RepeatOf ==
  ASSUME NEW S, NEW d \in S, NEW n \in Nat
  PROVE  /\ [i \in 1..n |-> d] \in Seq(S) /\ Len([i \in 1..n |-> d]) = n
         /\ \A k \in 1..n : [i \in 1..n |-> d][k] = d
OBVIOUS

\* The parser takes a record.
LEMMA FollowTail ==
  ASSUME NEW S, NEW flow \in Seq(S), flow # <<>>, NEW i \in Nat, NEW n \in Nat,
         Follow(flow, i + 1, n)
  PROVE  Follow(Tail(flow), i, n)
<1> DEFINE rest == Tail(flow)
<1>1. /\ Len(rest) = Len(flow) - 1 /\ Len(flow) \in Nat /\ Len(flow) >= 1
      /\ \A k \in 1..Len(rest) : rest[k] = flow[k + 1]
  BY TailOf
<1> HIDE DEF rest
<1>2. ASSUME NEW j \in (i + 1)..(Len(rest) + 1),
             \A k \in (i + 1)..(j - 1) : rest[k] = Delta
      PROVE  /\ j - i - 1 <= n
             /\ (j = Len(rest) + 1 \/ rest[j].kind = "header") => j - i - 1 = n
  <2>1. j + 1 \in (i + 2)..(Len(flow) + 1)
    BY <1>1
  <2>2. ASSUME NEW k \in (i + 2)..j
        PROVE  flow[k] = Delta
    <3>1. k - 1 \in (i + 1)..(j - 1) /\ k - 1 \in 1..Len(rest)
      BY <1>1
    <3>2. rest[k - 1] = flow[(k - 1) + 1]
      BY <1>1, <3>1
    <3> QED BY <1>2, <3>1, <3>2
  <2>3. /\ (j + 1) - (i + 1) - 1 <= n
        /\ (j + 1 = Len(flow) + 1 \/ flow[j + 1].kind = "header") => (j + 1) - (i + 1) - 1 = n
    BY <2>1, <2>2 DEF Follow
  <2>4. CASE j = Len(rest) + 1
    BY <1>1, <2>3, <2>4
  <2>5. CASE j # Len(rest) + 1
    <3>1. rest[j] = flow[j + 1]
      BY <1>1, <2>5
    <3> QED BY <1>1, <2>3, <2>5, <3>1
  <2> QED BY <2>4, <2>5
<1> QED BY <1>2 DEF Follow, rest

\* A delta is one of those that follow, and a header or the end is the last.
LEMMA FollowDelta ==
  ASSUME NEW S, NEW flow \in Seq(S), flow # <<>>, NEW n \in Nat, flow[1] = Delta,
         Follow(flow, 0, n)
  PROVE  n >= 1 /\ Follow(flow, 1, n - 1)
<1>1. Len(flow) \in Nat /\ Len(flow) >= 1
  BY TailOf
<1>2. n >= 1
  <2>1. 2 \in (0 + 1)..(Len(flow) + 1) /\ \A k \in (0 + 1)..(2 - 1) : flow[k] = Delta
    BY <1>1
  <2> QED BY <2>1 DEF Follow
<1>3. ASSUME NEW j \in 2..(Len(flow) + 1), \A k \in 2..(j - 1) : flow[k] = Delta
      PROVE  /\ j - 0 - 1 <= n
             /\ (j = Len(flow) + 1 \/ flow[j].kind = "header") => j - 0 - 1 = n
  <2>1. j \in (0 + 1)..(Len(flow) + 1) /\ \A k \in (0 + 1)..(j - 1) : flow[k] = Delta
    BY <1>3
  <2> QED BY <2>1 DEF Follow
<1> QED BY <1>1, <1>2, <1>3 DEF Follow

\* At the end of the flow a commit is complete with no more deltas.
LEMMA FollowEnd ==
  ASSUME NEW S, NEW flow \in Seq(S), NEW n \in Nat, Follow(flow, 0, n),
         flow = <<>> \/ flow[1].kind = "header"
  PROVE  n = 0
BY DEF Follow

\* The child reads a header: its deltas are what it has to say.
LEMMA FollowMore ==
  ASSUME NEW S, NEW flow \in Seq(S), NEW more \in Seq(S), NEW i \in 0..Len(flow), NEW n \in Nat,
         Follow(flow, i, n), Len(more) > Len(flow),
         \A k \in 1..Len(flow) : more[k] = flow[k],
         more[Len(flow) + 1].kind = "header", more[Len(flow) + 1] # Delta
  PROVE  Follow(more, i, n)
<1>1. Len(flow) \in Nat /\ Len(more) \in Nat
  OBVIOUS
<1>2. ASSUME NEW j \in (i + 1)..(Len(more) + 1), \A k \in (i + 1)..(j - 1) : more[k] = Delta
      PROVE  /\ j - i - 1 <= n
             /\ (j = Len(more) + 1 \/ more[j].kind = "header") => j - i - 1 = n
  <2>1. j <= Len(flow) + 1
    BY <1>1, <1>2
  <2>2. \A k \in (i + 1)..(j - 1) : flow[k] = Delta
    BY <1>1, <1>2, <2>1
  <2>3. /\ j - i - 1 <= n
        /\ (j = Len(flow) + 1 \/ flow[j].kind = "header") => j - i - 1 = n
    BY <1>1, <2>1, <2>2 DEF Follow
  <2>4. j # Len(flow) + 1 => more[j] = flow[j]
    BY <1>1, <2>1
  <2> QED BY <1>1, <2>1, <2>3, <2>4
<1> QED BY <1>2 DEF Follow

\* The child breaks off in the middle of a field.
LEMMA FollowTorn ==
  ASSUME NEW S, NEW s \in Seq(S), NEW t \in Seq(S), Torn \in S,
         NEW i \in 0..Len(s \o t), NEW n \in Nat, Follow(s \o t, i, n)
  PROVE  Follow(Append(s, Torn) \o t, IF i <= Len(s) THEN i ELSE i + 1, n)
<1> DEFINE old == s \o t
           new == Append(s, Torn) \o t
<1>1. /\ Len(s) \in Nat /\ Len(t) \in Nat
      /\ Len(old) = Len(s) + Len(t) /\ Len(new) = Len(s) + Len(t) + 1
      /\ \A k \in 1..Len(s) : new[k] = old[k]
      /\ new[Len(s) + 1] = Torn
      /\ \A k \in (Len(s) + 1)..Len(old) : new[k + 1] = old[k]
  OBVIOUS
<1>2. Torn # Delta /\ Torn.kind # "header"
  BY DEF Torn, Delta
<1>0. i \in Nat /\ i <= Len(old) /\ Follow(old, i, n)
  OBVIOUS
<1> HIDE DEF old, new
<1>3. CASE i <= Len(s)
  <2>1. ASSUME NEW j \in (i + 1)..(Len(new) + 1), \A k \in (i + 1)..(j - 1) : new[k] = Delta
        PROVE  /\ j - i - 1 <= n
               /\ (j = Len(new) + 1 \/ new[j].kind = "header") => j - i - 1 = n
    <3>1. j <= Len(s) + 1
      BY <1>0, <1>1, <1>2, <1>3, <2>1
    <3>2. ASSUME NEW k \in (i + 1)..(j - 1)
          PROVE  old[k] = Delta
      <4>1. k \in 1..Len(s)
        BY <1>0, <1>1, <3>1
      <4> QED BY <1>1, <2>1, <4>1
    <3>3. /\ j - i - 1 <= n
          /\ (j = Len(old) + 1 \/ old[j].kind = "header") => j - i - 1 = n
      <4>1. j \in (i + 1)..(Len(old) + 1)
        BY <1>0, <1>1, <3>1
      <4> QED BY <1>0, <3>2, <4>1 DEF Follow
    <3>4. CASE j = Len(s) + 1
      BY <1>0, <1>1, <1>2, <3>3, <3>4
    <3>5. CASE j <= Len(s)
      BY <1>0, <1>1, <3>3, <3>5
    <3> QED BY <1>1, <3>1, <3>4, <3>5
  <2> QED BY <1>3, <2>1 DEF Follow, new
<1>4. CASE i > Len(s)
  <2>1. ASSUME NEW j \in ((i + 1) + 1)..(Len(new) + 1), \A k \in ((i + 1) + 1)..(j - 1) : new[k] = Delta
        PROVE  /\ j - (i + 1) - 1 <= n
               /\ (j = Len(new) + 1 \/ new[j].kind = "header") => j - (i + 1) - 1 = n
    <3>1. ASSUME NEW k \in (i + 1)..(j - 2)
          PROVE  old[k] = Delta
      <4>1. k \in (Len(s) + 1)..Len(old) /\ k + 1 \in ((i + 1) + 1)..(j - 1)
        BY <1>0, <1>1, <1>4
      <4> QED BY <1>1, <2>1, <4>1
    <3>2. /\ (j - 1) - i - 1 <= n
          /\ (j - 1 = Len(old) + 1 \/ old[j - 1].kind = "header") => (j - 1) - i - 1 = n
      <4>1. j - 1 \in (i + 1)..(Len(old) + 1) /\ (j - 1) - 1 = j - 2
        BY <1>0, <1>1
      <4> QED BY <1>0, <3>1, <4>1 DEF Follow
    <3>3. CASE j = Len(new) + 1
      BY <1>0, <1>1, <3>2, <3>3
    <3>4. CASE j # Len(new) + 1
      <4>0. j - 1 \in (Len(s) + 1)..Len(old) /\ (j - 1) + 1 = j
        <5>1. Len(s) \in Nat /\ Len(old) \in Nat /\ Len(new) = Len(old) + 1
          BY <1>1
        <5> QED BY <1>0, <1>4, <3>4, <5>1
      <4>1. new[(j - 1) + 1] = old[j - 1]
        BY <1>1, <4>0
      <4> QED BY <1>0, <1>1, <3>2, <3>4, <4>0, <4>1
    <3> QED BY <3>3, <3>4
  <2>2. Follow(new, i + 1, n)
    BY <2>1 DEF Follow
  <2> QED BY <1>0, <1>1, <1>4, <2>2 DEF new
<1> QED BY <1>1, <1>3, <1>4

-------------------------------------------------------------------------------
Pieces == Records \cup {Torn}

\* The kinds of records are told apart by their field.
LEMMA KindOf ==
  /\ Delta.kind = "delta" /\ Torn.kind = "torn" /\ Torn # Delta
  /\ \A c : Header(c).kind = "header" /\ Header(c).commit = c /\ Header(c) # Delta
  /\ \A r \in Pieces :
       /\ r.kind = "header" => r.commit \in 1..Len(deltas)
       /\ r.kind = "delta" => r = Delta
       /\ r.kind \in {"header", "delta", "torn"}
BY DEF Delta, Torn, Header, Pieces, Records

\* Whatever lies between the child and the parser is a record of the request.
LEMMA FlowTypes ==
  ASSUME StreamTypeOK, deltas \in Requests, FlowInv
  PROVE  /\ deltas \in Seq(Nat) /\ deltas # <<>> /\ Len(deltas) \in Nat
         /\ stdout \in Seq(Pieces) /\ pending \in Seq(Pieces)
         /\ Flow \in Seq(Pieces) /\ Len(Flow) = Len(stdout) + Len(pending)
         /\ Len(events) \in Nat
         /\ Len(stdout) \in Nat /\ Len(pending) \in Nat
<1>1. deltas \in Seq(Nat) /\ deltas # <<>>
  BY StreamAssumption
<1>2. stdout \in Seq(Pieces)
  BY DEF StreamTypeOK, Pieces, Records
<1>3. pending \in Seq(Pieces)
  BY DEF FlowInv, Pieces
<1>4. events \in Seq(Nat)
  BY DEF StreamTypeOK
<1> QED BY <1>1, <1>2, <1>3, <1>4 DEF Flow

\* As long as the parser stands still.
LEMMA FlowGrows ==
  ASSUME FlowInv, UNCHANGED <<deltas, main, events, kept, partial>>,
         pending' \in Seq(Records), child' = "succeeded" => pending' = <<>>,
         NEW more, Flow' = more,
         Parsing => Headed(more),
         \A n \in Nat : Follow(Flow, 0, n) => Follow(more, 0, n)
  PROVE  FlowInv'
<1>1. /\ Records' = Records /\ Parsing' = Parsing /\ Unread' = Unread
      /\ \A n : Rest(n)' = Rest(n)
  BY DEF Records, Parsing, Unread, Rest
<1>2. (Parsing => Headed(Flow))'
  BY <1>1 DEF Headed, Follow
<1>3. ASSUME Parsing', kept' # NoCommit
      PROVE  Unread' /\ (\E n \in Nat : Rest(n) /\ Follow(Flow, 0, n))'
  <2>1. PICK n \in Nat : Rest(n) /\ Follow(Flow, 0, n)
    BY <1>1, <1>3 DEF FlowInv
  <2>2. Rest(n)'
    BY <1>1, <2>1
  <2>3. Follow(Flow, 0, n)'
    BY <2>1 DEF Follow
  <2>4. Unread'
    BY <1>1, <1>3 DEF FlowInv
  <2> QED BY <2>2, <2>3, <2>4
<1>4. (Parsing /\ kept # NoCommit => Unread /\ \E n \in Nat : Rest(n) /\ Follow(Flow, 0, n))'
  BY <1>3
<1>5. (main = "draining" => kept # NoCommit)'
  BY DEF FlowInv
<1> QED BY <1>1, <1>2, <1>4, <1>5 DEF FlowInv

\* A step that touches neither the pipe nor the parser.
LEMMA QuietKeepsFlow ==
  ASSUME FlowInv, UNCHANGED <<deltas, stdout, pending, main, events, kept, partial>>,
         child' = "succeeded" => pending = <<>>
  PROVE  FlowInv'
<1>1. Flow' = Flow /\ pending' \in Seq(Records) /\ (child' = "succeeded" => pending' = <<>>)
  BY DEF Flow, FlowInv
<1> QED BY <1>1, FlowGrows DEF FlowInv

\* git diff-tree --stdin reads a header, writes a record, ends, fails or is
\* killed: what the parser will find stays a run of commits, each with its own
\* deltas, of which only the last can be cut short.
LEMMA ChildKeepsFlow ==
  ASSUME StreamTypeOK, deltas \in Requests, FlowInv, ChildStep
  PROVE  FlowInv'
<1>1. CASE ChildReads
  <2> DEFINE h == Head(stdin)
             said == [i \in 1..deltas[h] |-> Delta]
  <2>1. h \in 1..Len(deltas) /\ deltas[h] \in Nat
    <3>1. stdin \in Seq(1..Len(deltas)) /\ stdin # <<>>
      BY <1>1 DEF ChildReads, StreamTypeOK
    <3>2. h \in 1..Len(deltas)
      BY <3>1, TailOf
    <3> QED BY <3>2, FlowTypes
  <2>2. /\ said \in Seq(Pieces) /\ Len(said) = deltas[h]
        /\ \A k \in 1..deltas[h] : said[k] = Delta
    BY <2>1 DEF Pieces, Records
  <2>3. Header(h) \in Pieces
    BY <2>1 DEF Pieces, Records
  <2>21. Header(h) \in Records /\ said \in Seq(Records)
    <3>1. Header(h) \in Records /\ Delta \in Records
      BY <2>1 DEF Records
    <3> QED BY <2>1, <3>1, RepeatOf
  <2> DEFINE words == <<Header(h)>> \o said
             more == Flow \o words
  <2> HIDE DEF h, said
  <2>22. /\ words \in Seq(Records) /\ words \in Seq(Pieces) /\ Len(words) = deltas[h] + 1
         /\ words[1] = Header(h)
         /\ \A k \in 1..deltas[h] : words[1 + k] = Delta
    <3>1. <<Header(h)>> \in Seq(Records) /\ Len(<<Header(h)>>) = 1 /\ <<Header(h)>>[1] = Header(h)
      BY <2>21
    <3>2. /\ words \in Seq(Records) /\ Len(words) = 1 + Len(said)
          /\ words[1] = Header(h)
          /\ \A k \in 1..Len(said) : words[1 + k] = said[k]
      BY <2>21, <3>1, ConcatOf
    <3>3. words \in Seq(Pieces)
      BY <3>2 DEF Pieces
    <3>4. Len(said) = deltas[h] /\ deltas[h] \in Nat /\ \A k \in 1..deltas[h] : said[k] = Delta
      BY <2>1, <2>2
    <3> QED BY <3>2, <3>3, <3>4
  <2> HIDE DEF words
  <2>4. /\ Flow \in Seq(Pieces) /\ Len(Flow) \in Nat
        /\ more \in Seq(Pieces) /\ Len(more) = Len(Flow) + 1 + deltas[h]
        /\ \A k \in 1..Len(Flow) : more[k] = Flow[k]
        /\ more[Len(Flow) + 1] = Header(h)
        /\ \A k \in 1..deltas[h] : more[Len(Flow) + (1 + k)] = Delta
    <3>1. Flow \in Seq(Pieces) /\ Len(Flow) \in Nat
      BY FlowTypes
    <3>2. /\ more \in Seq(Pieces) /\ Len(more) = Len(Flow) + Len(words)
          /\ \A k \in 1..Len(Flow) : more[k] = Flow[k]
          /\ \A k \in 1..Len(words) : more[Len(Flow) + k] = words[k]
      BY <2>22, <3>1, ConcatOf DEF words
    <3>3. deltas[h] \in Nat
      BY <2>1
    <3>4. \A k \in 1..deltas[h] : 1 + k \in 1..Len(words) /\ words[1 + k] = Delta
      BY <2>22, <3>3
    <3>5. 1 \in 1..Len(words) /\ words[1] = Header(h) /\ Len(words) = deltas[h] + 1
      BY <2>22, <3>3
    <3> HIDE DEF more
    <3>6. Len(more) = Len(Flow) + 1 + deltas[h]
      <4>1. Len(more) = Len(Flow) + Len(words) /\ Len(words) = deltas[h] + 1
        BY <3>2, <3>5
      <4>2. Len(Flow) \in Nat
        BY <3>1
      <4> QED BY <3>3, <4>1, <4>2
    <3> QED BY <3>1, <3>2, <3>4, <3>5, <3>6
  <2>5. pending' \in Seq(Records) /\ Flow' = more
    <3>1. pending = <<>> /\ Flow = stdout
      BY <1>1, FlowTypes DEF ChildReads, Flow
    <3>2. pending' = <<Header(h)>> \o said /\ stdout' = stdout
      BY <1>1 DEF ChildReads, h, said
    <3>3. pending' \in Seq(Records)
      BY <2>22, <3>2 DEF words
    <3> QED BY <3>1, <3>2, <3>3 DEF Flow, words
  <2> HIDE DEF more
  <2>6. Follow(more, Len(Flow) + 1, deltas[h])
    <3>0. Len(Flow) \in Nat /\ deltas[h] \in Nat /\ Len(more) = Len(Flow) + 1 + deltas[h]
      BY <2>1, <2>4
    <3>1. ASSUME NEW j \in ((Len(Flow) + 1) + 1)..(Len(more) + 1)
          PROVE  /\ j - (Len(Flow) + 1) - 1 <= deltas[h]
                 /\ (j = Len(more) + 1 \/ more[j].kind = "header") =>
                      j - (Len(Flow) + 1) - 1 = deltas[h]
      <4>1. CASE j = Len(more) + 1
        BY <3>0, <4>1
      <4>2. CASE j # Len(more) + 1
        <5>1. j - Len(Flow) - 1 \in 1..deltas[h] /\ Len(Flow) + (1 + (j - Len(Flow) - 1)) = j
          <6>1. j \in Int /\ j >= Len(Flow) + 2 /\ j <= Len(Flow) + 1 + deltas[h]
            BY <3>0, <4>2
          <6> QED BY <3>0, <6>1
        <5>2. more[j] = Delta
          BY <2>4, <5>1
        <5> QED BY <3>0, <4>2, <5>2, KindOf
      <4> QED BY <4>1, <4>2
    <3> QED BY <3>0, <3>1 DEF Follow
  <2>7. ASSUME NEW i \in 0..Len(Flow), NEW n \in Nat, Follow(Flow, i, n)
        PROVE  Follow(more, i, n)
    <3>1. more[Len(Flow) + 1].kind = "header" /\ more[Len(Flow) + 1] # Delta
      BY <2>4, KindOf
    <3>2. Len(more) > Len(Flow)
      BY <2>1, <2>4
    <3> QED BY <2>4, <2>7, <3>1, <3>2, FollowMore
  <2>8. /\ UNCHANGED <<deltas, main, events, kept, partial, child>> /\ Parsing' = Parsing
        /\ Unread' = Unread /\ \A n : Rest(n)' = Rest(n)
    BY <1>1 DEF ChildReads, Parsing, Unread, Rest
  <2>9. Parsing => Headed(more)
    <3>1. SUFFICES ASSUME Parsing, NEW i \in 1..Len(more), more[i].kind = "header"
                   PROVE  Follow(more, i, deltas[more[i].commit])
      BY DEF Headed
    <3>2. CASE i <= Len(Flow)
      <4>1. more[i] = Flow[i] /\ i \in 0..Len(Flow) /\ Flow[i] \in Pieces
        BY <2>4, <3>2
      <4>2. Flow[i].commit \in 1..Len(deltas) /\ deltas[Flow[i].commit] \in Nat
        BY <3>1, <4>1, FlowTypes, KindOf
      <4> QED BY <2>4, <2>7, <3>1, <3>2, <4>1, <4>2 DEF FlowInv, Headed
    <3>3. CASE i = Len(Flow) + 1
      BY <2>4, <2>6, <3>3, KindOf
    <3>4. CASE i > Len(Flow) + 1
      <4>1. i - Len(Flow) - 1 \in 1..deltas[h] /\ Len(Flow) + (1 + (i - Len(Flow) - 1)) = i
        BY <2>1, <2>4, <3>4
      <4>2. more[i] = Delta
        BY <2>4, <4>1
      <4> QED BY <3>1, <4>2, KindOf
    <3> QED BY <2>4, <3>2, <3>3, <3>4
  <2>10. \A n \in Nat : Follow(Flow, 0, n) => Follow(more, 0, n)
    BY <2>4, <2>7
  <2>11. child' # "succeeded"
    BY <1>1 DEF ChildReads
  <2> QED BY <2>5, <2>8, <2>9, <2>10, <2>11, FlowGrows
<1>2. CASE ChildWrites
  <2>1. pending # <<>> /\ child' # "succeeded" /\ UNCHANGED <<deltas, main, events, kept, partial>>
    BY <1>2 DEF ChildWrites
  <2>2. CASE Parsing
    <3>1. pending' = Tail(pending) /\ stdout' = Append(stdout, Head(pending))
      BY <1>2, <2>2 DEF ChildWrites
    <3>2. pending' \in Seq(Records)
      BY <2>1, <3>1 DEF FlowInv
    <3>3. Append(stdout, Head(pending)) \o Tail(pending) = stdout \o pending
      BY <2>1, FlowTypes
    <3>4. Flow' = Flow
      BY <3>1, <3>3 DEF Flow
    <3> QED BY <2>1, <3>2, <3>4, FlowGrows DEF FlowInv
  <2>3. CASE ~Parsing
    BY <1>2, <2>1, <2>3 DEF ChildWrites, FlowInv, Parsing, Records
  <2> QED BY <2>2, <2>3
<1>3. CASE ChildFinishes
  BY <1>3, QuietKeepsFlow DEF ChildFinishes
<1>4. CASE ChildBreaks
  <2>1. CASE UNCHANGED stdout
    BY <1>4, <2>1, QuietKeepsFlow DEF ChildBreaks
  <2>2. CASE stdout' = Append(stdout, Torn)
    <3> DEFINE more == Append(stdout, Torn) \o pending
    <3>1. Flow' = more /\ pending' = pending
      BY <1>4, <2>2 DEF ChildBreaks, Flow
    <3>2. Torn \in Pieces /\ stdout \in Seq(Pieces) /\ pending \in Seq(Pieces)
      BY FlowTypes DEF Pieces
    <3>3. /\ Len(more) = Len(Flow) + 1 /\ Len(Flow) = Len(stdout) + Len(pending)
          /\ Len(stdout) \in Nat /\ Len(pending) \in Nat
          /\ \A k \in 1..Len(stdout) : more[k] = Flow[k]
          /\ more[Len(stdout) + 1] = Torn
          /\ \A k \in (Len(stdout) + 1)..Len(Flow) : more[k + 1] = Flow[k]
      BY <3>2 DEF Flow
    <3>4. Flow \in Seq(Pieces)
      BY FlowTypes
    <3>5. \A i \in 0..Len(Flow), n \in Nat :
            Follow(Flow, i, n) => Follow(more, IF i <= Len(stdout) THEN i ELSE i + 1, n)
      BY <3>2, FollowTorn DEF Flow
    <3> HIDE DEF more
    <3>6. Parsing => Headed(more)
      <4>1. SUFFICES ASSUME Parsing, NEW i \in 1..Len(more), more[i].kind = "header"
                     PROVE  Follow(more, i, deltas[more[i].commit])
        BY DEF Headed
      <4>2. i # Len(stdout) + 1
        BY <3>3, <4>1, KindOf
      <4>3. PICK old \in 1..Len(Flow) :
              i = (IF old <= Len(stdout) THEN old ELSE old + 1) /\ more[i] = Flow[old]
        <5>1. CASE i <= Len(stdout)
          BY <3>3, <5>1
        <5>2. CASE i > Len(stdout) + 1
          <6>1. i - 1 \in (Len(stdout) + 1)..Len(Flow) /\ (i - 1) + 1 = i
            BY <3>3, <5>2
          <6>2. more[i] = Flow[i - 1]
            BY <3>3, <6>1
          <6>3. i - 1 \in 1..Len(Flow) /\ ~(i - 1 <= Len(stdout)) /\ i = (i - 1) + 1
            BY <3>3, <6>1
          <6> QED BY <6>2, <6>3
        <5> QED BY <3>3, <4>2, <5>1, <5>2
      <4>4. Flow[old] \in Pieces
        BY <3>4
      <4>5. Flow[old].commit \in 1..Len(deltas) /\ deltas[Flow[old].commit] \in Nat
        BY <4>1, <4>3, <4>4, FlowTypes, KindOf
      <4>6. Follow(Flow, old, deltas[Flow[old].commit])
        BY <4>1, <4>3 DEF FlowInv, Headed
      <4>7. old \in 0..Len(Flow)
        BY <3>3
      <4> QED BY <3>5, <4>3, <4>5, <4>6, <4>7
    <3>7. \A n \in Nat : Follow(Flow, 0, n) => Follow(more, 0, n)
      BY <3>3, <3>5
    <3>8. child' # "succeeded" /\ UNCHANGED <<deltas, main, events, kept, partial>>
      BY <1>4, <2>2 DEF ChildBreaks
    <3> QED BY <3>1, <3>6, <3>7, <3>8, FlowGrows DEF FlowInv
  <2> QED BY <1>4, <2>1, <2>2 DEF ChildBreaks
<1> QED BY <1>1, <1>2, <1>3, <1>4 DEF ChildStep

-------------------------------------------------------------------------------
\* The parser takes the first record of the pipe.
LEMMA TakeOne ==
  ASSUME StreamTypeOK, deltas \in Requests, FlowInv, stdout # <<>>,
         stdout' = Tail(stdout), pending' = pending
  PROVE  /\ Flow # <<>> /\ Flow[1] = Head(stdout) /\ Head(stdout) \in Pieces
         /\ Flow' = Tail(Flow)
<1>1. stdout \in Seq(Pieces) /\ pending \in Seq(Pieces)
  BY FlowTypes
<1>2. /\ stdout \o pending # <<>> /\ (stdout \o pending)[1] = Head(stdout)
      /\ Head(stdout) \in Pieces /\ Tail(stdout) \o pending = Tail(stdout \o pending)
  BY <1>1
<1> QED BY <1>2 DEF Flow

\* The rest of a well-formed flow is well-formed.
LEMMA HeadedTail ==
  ASSUME NEW flow \in Seq(Pieces), flow # <<>>, Headed(flow), deltas \in Seq(Nat)
  PROVE  Headed(Tail(flow))
<1>1. /\ Len(Tail(flow)) = Len(flow) - 1 /\ Len(flow) \in Nat
      /\ \A k \in 1..Len(Tail(flow)) : Tail(flow)[k] = flow[k + 1]
  BY TailOf
<1>2. ASSUME NEW i \in 1..Len(Tail(flow)), Tail(flow)[i].kind = "header"
      PROVE  Follow(Tail(flow), i, deltas[Tail(flow)[i].commit])
  <2>1. i + 1 \in 1..Len(flow) /\ i \in Nat /\ flow[i + 1] = Tail(flow)[i]
    BY <1>1
  <2>2. flow[i + 1] \in Pieces
    BY <2>1
  <2>3. deltas[flow[i + 1].commit] \in Nat
    BY <1>2, <2>1, <2>2, KindOf
  <2>4. Follow(flow, i + 1, deltas[flow[i + 1].commit])
    BY <1>2, <2>1 DEF Headed
  <2> QED BY <2>1, <2>3, <2>4, FollowTail
<1> QED BY <1>2 DEF Headed

\* take_record at a place where the parser looks for the next commit.
LEMMA Taken ==
  ASSUME StreamTypeOK, deltas \in Requests, FlowInv, Parsing, stdout # <<>>,
         stdout' = Tail(stdout), UNCHANGED <<pending, deltas>>
  PROVE  /\ Headed(Flow)'
         /\ \A n \in Nat : Follow(Flow, 1, n) => Follow(Flow, 0, n)'
<1>1. /\ Flow \in Seq(Pieces) /\ Flow # <<>> /\ Flow' = Tail(Flow) /\ Headed(Flow)
      /\ deltas \in Seq(Nat)
  BY TakeOne, FlowTypes DEF FlowInv
<1>2. Headed(Tail(Flow))
  BY <1>1, HeadedTail
<1>3. Headed(Flow)'
  BY <1>1, <1>2 DEF Headed, Follow
<1>4. ASSUME NEW n \in Nat, Follow(Flow, 1, n)
      PROVE  Follow(Flow, 0, n)'
  <2>1. Follow(Flow, 0 + 1, n)
    BY <1>4
  <2>2. Follow(Tail(Flow), 0, n)
    BY <1>1, <2>1, FollowTail
  <2> QED BY <1>1, <2>2 DEF Follow
<1> QED BY <1>3, <1>4

\* What the parser still has to keep of the commit that it reads.
LEMMA InCommit ==
  ASSUME StreamTypeOK, deltas \in Requests, FlowInv, Parsing, kept # NoCommit
  PROVE  /\ Unread /\ kept \in Nat /\ Len(events) + 1 \in 1..Len(deltas)
         /\ deltas[Len(events) + 1] \in Nat /\ kept <= deltas[Len(events) + 1]
         /\ stdout # <<>> /\ Head(stdout) = Delta =>
              \E n \in Nat : Rest(n + 1) /\ Follow(Flow, 1, n)
         /\ ~partial /\ Readable /\ Ahead \in {"header", "end"} =>
              kept = deltas[Len(events) + 1] \/ (stdout = <<>> /\ child \in {"failed", "killed"})
<1>1. /\ kept \in Nat /\ Unread /\ Len(events) \in Nat /\ Len(deltas) \in Nat
      /\ deltas \in Seq(Nat)
  BY FlowTypes DEF StreamTypeOK, FlowInv
<1>2. Len(events) + 1 \in 1..Len(deltas) /\ deltas[Len(events) + 1] \in Nat
  BY <1>1 DEF Unread
<1>3. PICK n \in Nat : Rest(n) /\ Follow(Flow, 0, n)
  BY DEF FlowInv
<1>4. kept <= deltas[Len(events) + 1]
  BY <1>1, <1>2, <1>3 DEF Rest
<1>5. ASSUME stdout # <<>>, Head(stdout) = Delta
      PROVE  \E m \in Nat : Rest(m + 1) /\ Follow(Flow, 1, m)
  <2>1. Flow \in Seq(Pieces) /\ Flow # <<>> /\ Flow[1] = Delta
    BY <1>5, FlowTypes DEF Flow
  <2>2. n >= 1 /\ Follow(Flow, 1, n - 1)
    BY <1>3, <2>1, FollowDelta
  <2>3. n - 1 \in Nat /\ (n - 1) + 1 = n
    BY <2>2
  <2> QED BY <1>3, <2>2, <2>3
<1>6. ASSUME ~partial, Readable, Ahead \in {"header", "end"},
             ~(stdout = <<>> /\ child \in {"failed", "killed"})
      PROVE  kept = deltas[Len(events) + 1]
  <2>1. Flow \in Seq(Pieces) /\ (Flow = <<>> \/ Flow[1].kind = "header")
    <3>1. CASE stdout # <<>>
      <4>1. Head(stdout).kind = "header"
        BY <1>6, <3>1, FlowTypes, TailOf, KindOf DEF Ahead
      <4>2. Flow[1] = Head(stdout)
        BY <3>1, FlowTypes DEF Flow
      <4> QED BY <4>1, <4>2, FlowTypes
    <3>2. CASE stdout = <<>>
      <4>1. child = "succeeded"
        BY <1>6, <3>2 DEF Readable, AtEnd, Alive, StreamTypeOK
      <4>2. Flow = <<>>
        BY <3>2, <4>1 DEF FlowInv, Flow
      <4> QED BY <4>2, FlowTypes
    <3> QED BY <3>1, <3>2
  <2>2. n = 0
    BY <1>3, <2>1, FollowEnd
  <2> QED BY <1>1, <1>2, <1>3, <1>6, <2>2 DEF Rest
<1> QED BY <1>1, <1>2, <1>4, <1>5, <1>6

-------------------------------------------------------------------------------
ParserPlaces == {"deciding", "reading", "draining"}

\* Once the parser has ended nothing is asked of the flow.
LEMMA FlowLeft ==
  ASSUME FlowInv, UNCHANGED <<deltas, pending, child>>, main' \notin ParserPlaces
  PROVE  FlowInv'
BY DEF FlowInv, Parsing, Records, ParserPlaces

\* A commit that is being read follows on complete events only.
LEMMA BeforeIsWhole ==
  ASSUME EventsInv, Parsing, kept # NoCommit \/ stdout # <<>>
  PROVE  \A c \in 1..Len(events) : events[c] = deltas[c]
<1>1. SUFFICES ASSUME events # <<>>
               PROVE  events[Len(events)] = deltas[Len(events)]
  BY DEF EventsInv
<1> QED BY <1>1 DEF EventsInv, ChildBroke

\* EventRead, at the end of a commit's deltas or where the parse stops.
LEMMA EventEnds ==
  ASSUME StreamTypeOK, deltas \in Requests, FlowInv, EventsInv, Parsing, kept # NoCommit,
         UNCHANGED <<deltas, pending, child>>,
         events' = Append(events, kept), kept' = NoCommit,
         \/ partial' = TRUE /\ main' = "parsed"
         \/ /\ partial' = FALSE /\ partial = FALSE /\ main' = "deciding" /\ stdout' = stdout
            /\ Readable /\ Ahead \in {"header", "end"}
  PROVE  FlowInv' /\ EventsInv' /\ events' \in Seq(Nat) /\ Len(events') <= Len(deltas)
<1>1. /\ kept \in Nat /\ events \in Seq(Nat) /\ Len(events) \in Nat /\ Len(deltas) \in Nat
      /\ Len(events) + 1 \in 1..Len(deltas)
      /\ kept <= deltas[Len(events) + 1] /\ deltas \in Seq(Nat)
  BY InCommit, FlowTypes DEF StreamTypeOK
<1>2. /\ events' \in Seq(Nat) /\ Len(events') = Len(events) + 1
      /\ \A c \in 1..Len(events) : events'[c] = events[c]
      /\ events'[Len(events) + 1] = kept
  BY <1>1
<1>3. FlowInv'
  <2>1. CASE main' = "parsed"
    BY <2>1, FlowLeft DEF ParserPlaces
  <2>2. CASE main' = "deciding"
    <3>1. Flow' = Flow /\ stdout' = stdout /\ Parsing'
      BY <2>2 DEF Flow, Parsing
    <3>2. Headed(Flow)'
      BY <3>1 DEF FlowInv, Headed, Follow
    <3> QED BY <2>2, <3>1, <3>2 DEF FlowInv, Records
  <2> QED BY <2>1, <2>2
<1>4. \A c \in 1..Len(events) : events[c] = deltas[c]
  BY BeforeIsWhole
<1>5. kept = deltas[Len(events) + 1] \/ ChildBroke' \/ (~Parsing' /\ partial')
  <2>1. CASE main' = "parsed"
    BY <2>1 DEF Parsing
  <2>2. CASE main' = "deciding"
    BY <2>2, InCommit DEF ChildBroke
  <2> QED BY <2>1, <2>2
<1>6. EventsInv'
  <2>1. /\ \A c \in 1..Len(events') : events'[c] <= deltas[c]
        /\ \A c \in 1..Len(events') : c < Len(events') => events'[c] = deltas[c]
    <3>1. \A c \in 1..Len(events) : deltas[c] \in Nat
      BY <1>1
    <3> QED BY <1>1, <1>2, <1>4, <3>1
  <2>2. events'[Len(events')] = deltas[Len(events')] \/ ChildBroke' \/ (~Parsing' /\ partial')
    BY <1>2, <1>5
  <2>3. main' \in {"parsed", "waiting"} => partial'
    OBVIOUS
  <2> QED BY <2>1, <2>2, <2>3 DEF EventsInv
<1> QED BY <1>1, <1>2, <1>3, <1>6

\* A step that adds no event and ends no parse keeps the events' invariant.
LEMMA SameEvents ==
  ASSUME EventsInv, UNCHANGED <<deltas, events>>,
         (partial /\ ~Parsing) => (partial' /\ ~Parsing'),
         ChildBroke => ChildBroke' \/ (partial' /\ ~Parsing'),
         main' \in {"parsed", "waiting"} /\ ~partial' => ~Unread
  PROVE  EventsInv'
BY DEF EventsInv, Unread

\* A delta is taken: the rest of the commit is one shorter.
LEMMA DeltaTaken ==
  ASSUME StreamTypeOK, deltas \in Requests, FlowInv, EventsInv, Parsing, kept # NoCommit,
         stdout # <<>>, Ahead = "delta", stdout' = Tail(stdout),
         UNCHANGED <<deltas, pending, child, events>>, main' \in ParserPlaces,
         \/ kept' = kept + 1 /\ partial' = partial
         \/ kept' = kept /\ partial' = TRUE
  PROVE  FlowInv' /\ EventsInv'
<1>1. Head(stdout) = Delta
  BY FlowTypes, TailOf, KindOf DEF Ahead
<1>2. /\ Unread /\ kept \in Nat /\ deltas[Len(events) + 1] \in Nat
  BY InCommit
<1>3. PICK n \in Nat : Rest(n + 1) /\ Follow(Flow, 1, n)
  BY <1>1, InCommit
<1>4. Rest(n)'
  BY <1>2, <1>3 DEF Rest
<1>5. Headed(Flow)' /\ Follow(Flow, 0, n)'
  BY <1>3, Taken
<1>6. kept' # NoCommit
  BY <1>2 DEF NoCommit
<1>7. (Parsing /\ kept # NoCommit => Unread /\ \E m \in Nat : Rest(m) /\ Follow(Flow, 0, m))'
  BY <1>2, <1>4, <1>5 DEF Unread
<1>8. FlowInv'
  BY <1>5, <1>6, <1>7 DEF FlowInv, Records
<1>9. EventsInv'
  BY SameEvents DEF ChildBroke, Parsing, ParserPlaces
<1> QED BY <1>8, <1>9

\* Reading from the pipe keeps the types.
LEMMA TailTyped ==
  ASSUME StreamTypeOK, stdout # <<>>
  PROVE  /\ Tail(stdout) \in Seq({Header(c) : c \in 1..Len(deltas)} \cup {Delta, Torn})
         /\ Len(Tail(stdout)) <= PipeSize
<1>1. PipeSize \in Nat
  BY StreamAssumption
<1>2. stdout \in Seq({Header(c) : c \in 1..Len(deltas)} \cup {Delta, Torn})
  BY DEF StreamTypeOK
<1>3. /\ Tail(stdout) \in Seq({Header(c) : c \in 1..Len(deltas)} \cup {Delta, Torn})
      /\ Len(Tail(stdout)) = Len(stdout) - 1 /\ Len(stdout) \in Nat
  BY <1>2, TailOf
<1> QED BY <1>1, <1>3 DEF StreamTypeOK

-------------------------------------------------------------------------------
\* parse_churn_stream reads on, ends a commit, marks itself partial at the
\* deadline, at a torn record or at an early end, or sees all it asked for.
LEMMA ParserKeeps ==
  ASSUME StreamTypeOK, deltas \in Requests, FlowInv, EventsInv,
         \/ StopBeforeCommit \/ StopInCommit \/ GoOn \/ ReadHeader \/ ReadDelta
         \/ DrainDeltas \/ ReadEnd \/ OutOfBytes
  PROVE  /\ FlowInv' /\ EventsInv' /\ StreamTypeOK'
         /\ Parsing /\ main' \in ParserPlaces \cup {"parsed", "rejected"}
         /\ UNCHANGED <<deltas, child, watchdog, reaped, result, strayKill>>
<1>1. /\ Parsing /\ main' \in ParserPlaces \cup {"parsed", "rejected"}
      /\ UNCHANGED <<deltas, expired, writer, stdin, child, pending, watchdog, reaped, result,
                     strayKill>>
  BY DEF StopBeforeCommit, StopInCommit, GoOn, ReadHeader, ReadDelta, DrainDeltas, ReadEnd,
         OutOfBytes, EventRead, Parser, Parsing, ParserPlaces
<1>4. CASE StopBeforeCommit
  <2>1. /\ UNCHANGED <<stdout, events, kept>> /\ partial' = TRUE /\ main' = "parsed"
    BY <1>4 DEF StopBeforeCommit, Parser
  <2>2. FlowInv'
    BY <1>1, <2>1, FlowLeft DEF ParserPlaces
  <2>3. EventsInv'
    BY <1>1, <2>1, SameEvents DEF Parsing
  <2> QED BY <1>1, <2>1, <2>2, <2>3 DEF StreamTypeOK, ParserPlaces
<1>5. CASE StopInCommit
  <2>1. EventRead(TRUE) /\ kept # NoCommit /\ stdout' = stdout
    BY <1>5 DEF StopInCommit
  <2>2. /\ partial' = TRUE /\ main' = "parsed" /\ events' = Append(events, kept)
        /\ kept' = NoCommit
    BY <2>1 DEF EventRead, Parser
  <2>3. FlowInv' /\ EventsInv' /\ events' \in Seq(Nat) /\ Len(events') <= Len(deltas)
    BY <1>1, <2>1, <2>2, EventEnds
  <2> QED BY <1>1, <2>1, <2>2, <2>3 DEF StreamTypeOK, ParserPlaces
<1>6. CASE GoOn
  <2>1. /\ UNCHANGED <<stdout, events, kept, partial>> /\ main' \in {"draining", "reading"}
        /\ main' = "draining" => kept # NoCommit
    BY <1>6 DEF GoOn, Parser
  <2>2. /\ Flow' = Flow /\ Records' = Records /\ Parsing' /\ Unread' = Unread
        /\ \A n : Rest(n)' = Rest(n)
    BY <1>1, <2>1 DEF Flow, Records, Parsing, Unread, Rest
  <2>3. FlowInv'
    BY <1>1, <2>1, <2>2 DEF FlowInv, Headed, Follow
  <2>4. EventsInv'
    BY <1>1, <2>1, <2>2, SameEvents DEF Parsing, ChildBroke
  <2> QED BY <1>1, <2>1, <2>3, <2>4 DEF StreamTypeOK, ParserPlaces
<1>7. CASE ReadHeader
  <2>1. UNCHANGED <<events, partial>> /\ kept = NoCommit /\ Unread
    BY <1>7 DEF ReadHeader
  <2>2. CASE /\ Ahead = "header" /\ Head(stdout).commit = Len(events) + 1
             /\ stdout' = Tail(stdout) /\ kept' = 0 /\ main' = "deciding"
    <3>1. stdout # <<>>
      BY <2>2 DEF Ahead
    <3>2. /\ Flow # <<>> /\ Flow[1] = Head(stdout) /\ Len(Flow) \in Nat
      BY <1>1, <2>2, <3>1, TakeOne, FlowTypes
    <3>3. Head(stdout).kind = "header"
      BY <2>2, <3>1 DEF Ahead
    <3>4. 1 \in 1..Len(Flow)
      BY <3>2, FlowTypes
    <3>5. Follow(Flow, 1, deltas[Len(events) + 1])
      BY <1>1, <2>2, <3>2, <3>3, <3>4 DEF FlowInv, Headed
    <3>6. deltas[Len(events) + 1] \in Nat
      <4>1. Len(events) + 1 \in 1..Len(deltas)
        BY <2>1, FlowTypes DEF Unread
      <4> QED BY <4>1, FlowTypes
    <3>7. Headed(Flow)' /\ Follow(Flow, 0, deltas[Len(events) + 1])'
      <4>1. /\ Headed(Flow)'
            /\ \A n \in Nat : Follow(Flow, 1, n) => Follow(Flow, 0, n)'
        BY <1>1, <2>2, <3>1, Taken
      <4>2. PICK n \in Nat : n = deltas[Len(events) + 1]
        BY <3>6
      <4>3. Follow(Flow, 0, n)'
        BY <3>5, <4>1, <4>2
      <4> QED BY <1>1, <2>1, <4>1, <4>2, <4>3 DEF Follow
    <3>8. Rest(deltas[Len(events) + 1])'
      BY <1>1, <2>1, <2>2, <3>6 DEF Rest
    <3>9. Unread'
      BY <1>1, <2>1 DEF Unread
    <3>10. deltas'[Len(events') + 1] \in Nat
      BY <1>1, <2>1, <3>6
    <3>11. FlowInv'
      BY <1>1, <2>1, <2>2, <3>6, <3>7, <3>8, <3>9 DEF FlowInv, Records
    <3>12. EventsInv'
      BY <1>1, <2>1, <2>2, <3>1, SameEvents DEF Parsing, ChildBroke
    <3> QED BY <1>1, <2>1, <2>2, <3>1, <3>11, <3>12, TailTyped DEF StreamTypeOK, ParserPlaces
  <2>3. CASE UNCHANGED <<stdout, kept>> /\ main' = "rejected"
    <3>1. FlowInv'
      BY <1>1, <2>3, FlowLeft DEF ParserPlaces
    <3>2. EventsInv'
      BY <1>1, <2>1, <2>3, SameEvents DEF Parsing, ChildBroke
    <3> QED BY <1>1, <2>1, <2>3, <3>1, <3>2 DEF StreamTypeOK, ParserPlaces
  <2> QED BY <1>7, <2>2, <2>3 DEF ReadHeader, Parser
<1>8. CASE ReadDelta
  <2>1. kept # NoCommit /\ Readable
    BY <1>8 DEF ReadDelta
  <2>2. CASE /\ Ahead = "delta" /\ stdout' = Tail(stdout) /\ main' = "deciding" /\ events' = events
             /\ \/ kept' = kept + 1 /\ partial' = partial
                \/ kept' = kept /\ partial' = TRUE
    <3>1. stdout # <<>>
      BY <2>2 DEF Ahead
    <3>2. FlowInv' /\ EventsInv'
      BY <1>1, <2>1, <2>2, <3>1, DeltaTaken DEF ParserPlaces
    <3>3. kept' \in Nat
      BY <1>1, <2>1, <2>2, InCommit
    <3>4. partial' \in BOOLEAN
      BY <2>2 DEF StreamTypeOK
    <3>5. StreamTypeOK'
      BY <1>1, <2>2, <3>1, <3>3, <3>4, TailTyped DEF StreamTypeOK
    <3> QED BY <1>1, <2>1, <2>2, <3>2, <3>5 DEF ParserPlaces
  <2>3. CASE Ahead = "delta" /\ stdout' = Tail(stdout) /\ EventRead(TRUE)
    <3>1. /\ partial' = TRUE /\ main' = "parsed" /\ events' = Append(events, kept)
          /\ kept' = NoCommit
      BY <2>3 DEF EventRead, Parser
    <3>2. FlowInv' /\ EventsInv' /\ events' \in Seq(Nat) /\ Len(events') <= Len(deltas)
      BY <1>1, <2>1, <3>1, EventEnds
    <3>3. stdout # <<>>
      BY <2>3 DEF Ahead
    <3>4. StreamTypeOK'
      BY <1>1, <2>3, <3>1, <3>2, <3>3, TailTyped DEF StreamTypeOK
    <3> QED BY <1>1, <2>1, <2>3, <3>1, <3>2, <3>4 DEF ParserPlaces
  <2>4. CASE Ahead \in {"header", "end"} /\ EventRead(FALSE) /\ stdout' = stdout
    <3>1. /\ partial' = partial /\ main' = (IF partial THEN "parsed" ELSE "deciding")
          /\ events' = Append(events, kept) /\ kept' = NoCommit /\ partial \in BOOLEAN
      BY <2>4 DEF EventRead, Parser, StreamTypeOK
    <3>2. FlowInv' /\ EventsInv' /\ events' \in Seq(Nat) /\ Len(events') <= Len(deltas)
      BY <1>1, <2>1, <2>4, <3>1, EventEnds
    <3> QED BY <1>1, <2>4, <3>1, <3>2 DEF StreamTypeOK, ParserPlaces
  <2>5. CASE main' = "rejected" /\ UNCHANGED <<stdout, events, kept, partial>>
    <3>1. FlowInv'
      BY <1>1, <2>5, FlowLeft DEF ParserPlaces
    <3>2. EventsInv'
      BY <1>1, <2>5, SameEvents DEF Parsing, ChildBroke
    <3> QED BY <1>1, <2>5, <3>1, <3>2 DEF StreamTypeOK, ParserPlaces
  <2> QED BY <1>8, <2>2, <2>3, <2>4, <2>5 DEF ReadDelta, Parser
<1>9. CASE DrainDeltas
  <2>1. kept # NoCommit /\ Readable
    BY <1>9 DEF DrainDeltas, FlowInv
  <2>2. CASE /\ Ahead = "delta" /\ stdout' = Tail(stdout) /\ main' = "draining"
             /\ UNCHANGED <<events, kept>> /\ partial' = TRUE
    <3>1. stdout # <<>>
      BY <2>2 DEF Ahead
    <3>2. FlowInv' /\ EventsInv'
      BY <1>1, <2>1, <2>2, <3>1, DeltaTaken DEF ParserPlaces
    <3> QED BY <1>1, <2>2, <3>1, <3>2, TailTyped DEF StreamTypeOK, ParserPlaces
  <2>4. CASE Ahead \in {"header", "end"} /\ EventRead(FALSE) /\ stdout' = stdout
    <3>1. /\ partial' = partial /\ main' = (IF partial THEN "parsed" ELSE "deciding")
          /\ events' = Append(events, kept) /\ kept' = NoCommit /\ partial \in BOOLEAN
      BY <2>4 DEF EventRead, Parser, StreamTypeOK
    <3>2. FlowInv' /\ EventsInv' /\ events' \in Seq(Nat) /\ Len(events') <= Len(deltas)
      BY <1>1, <2>1, <2>4, <3>1, EventEnds
    <3> QED BY <1>1, <2>4, <3>1, <3>2 DEF StreamTypeOK, ParserPlaces
  <2>5. CASE main' = "rejected" /\ UNCHANGED <<stdout, events, kept, partial>>
    <3>1. FlowInv'
      BY <1>1, <2>5, FlowLeft DEF ParserPlaces
    <3>2. EventsInv'
      BY <1>1, <2>5, SameEvents DEF Parsing, ChildBroke
    <3> QED BY <1>1, <2>5, <3>1, <3>2 DEF StreamTypeOK, ParserPlaces
  <2> QED BY <1>9, <2>2, <2>4, <2>5 DEF DrainDeltas, Parser
<1>10. CASE ReadEnd
  <2>1. /\ UNCHANGED <<stdout, events, kept, partial>> /\ main' \in {"parsed", "rejected"}
        /\ ~Unread
    BY <1>10 DEF ReadEnd, Parser
  <2>2. FlowInv'
    BY <1>1, <2>1, FlowLeft DEF ParserPlaces
  <2>3. EventsInv'
    BY <1>1, <2>1, SameEvents DEF Parsing, ChildBroke
  <2> QED BY <1>1, <2>1, <2>2, <2>3 DEF StreamTypeOK, ParserPlaces
<1>11. CASE OutOfBytes
  <2>1. /\ partial' = TRUE /\ main' = "parsed" /\ kept' = NoCommit /\ stdout' = stdout
        /\ events' = IF kept = NoCommit THEN events ELSE Append(events, kept)
    BY <1>11 DEF OutOfBytes, Parser
  <2>2. CASE kept = NoCommit
    <3>1. EventsInv' /\ FlowInv'
      BY <1>1, <2>1, <2>2, SameEvents, FlowLeft DEF Parsing, ParserPlaces
    <3> QED BY <1>1, <2>1, <2>2, <3>1 DEF StreamTypeOK, ParserPlaces
  <2>3. CASE kept # NoCommit
    <3>1. FlowInv' /\ EventsInv' /\ events' \in Seq(Nat) /\ Len(events') <= Len(deltas)
      BY <1>1, <2>1, <2>3, EventEnds
    <3> QED BY <1>1, <2>1, <2>3, <3>1 DEF StreamTypeOK, ParserPlaces
  <2> QED BY <2>2, <2>3
<1> QED BY <1>4, <1>5, <1>6, <1>7, <1>8, <1>9, <1>10, <1>11

-------------------------------------------------------------------------------
\* Every step of the child, the feeder, the watchdog, the parser and the
\* deadline keeps the invariant.
LEMMA StreamStep ==
  ASSUME StreamInv, [StreamNext]_streamVars
  PROVE  StreamInv'
<1> USE DEF StreamInv
<1>1. CASE DeadlineExpires
  BY <1>1, QuietKeepsFlow
  DEF DeadlineExpires, StreamTypeOK, FlowInv, EventsInv, WatchInv, ResultInv,
      DeadlineIsPartial, KillsOnlyItsChild, Parsing, ChildBroke, Unread
<1>2. CASE Write
  <2>1. FlowInv'
    BY <1>2, QuietKeepsFlow DEF Write, FlowInv
  <2>2. StreamTypeOK'
    <3>1. Len(deltas) \in Nat /\ PipeSize \in Nat /\ writer \in Nat \ {0}
      BY FlowTypes, StreamAssumption DEF StreamTypeOK
    <3>2. CASE Alive /\ Len(stdin) < PipeSize /\ stdin' = Append(stdin, writer) /\ writer' = writer + 1
      <4>1. writer \in 1..Len(deltas) /\ stdin \in Seq(1..Len(deltas))
        BY <1>2, <3>1 DEF Write, StreamTypeOK
      <4>2. stdin' \in Seq(1..Len(deltas)) /\ Len(stdin') = Len(stdin) + 1 /\ Len(stdin) \in Nat
        BY <3>2, <4>1
      <4>3. Len(stdin') <= PipeSize /\ writer' \in 1..(Len(deltas) + 2)
        BY <3>1, <3>2, <4>1, <4>2
      <4> QED BY <1>2, <4>2, <4>3 DEF Write, StreamTypeOK
    <3>3. CASE writer' = Len(deltas) + 2 /\ stdin' = stdin
      BY <1>2, <3>1, <3>3 DEF Write, StreamTypeOK
    <3> QED BY <1>2, <3>2, <3>3 DEF Write
  <2> QED
    BY <1>2, <2>1, <2>2
    DEF Write, EventsInv, WatchInv, ResultInv, DeadlineIsPartial, KillsOnlyItsChild, Parsing,
        ChildBroke, Unread
<1>3. CASE ChildStep
  <2>1. FlowInv'
    BY <1>3, ChildKeepsFlow
  <2>2. /\ UNCHANGED <<deltas, expired, writer, watchdog, main, events, kept, partial, reaped,
                       result, strayKill>>
        /\ child = "running"
        /\ child' \in {"running", "hung", "succeeded", "failed"}
    BY <1>3 DEF ChildStep, ChildReads, ChildWrites, ChildFinishes, ChildBreaks
  <2>3. /\ stdin' \in Seq(1..Len(deltas)) /\ Len(stdin') <= PipeSize
        /\ stdout' \in Seq({Header(c) : c \in 1..Len(deltas)} \cup {Delta, Torn})
        /\ Len(stdout') <= PipeSize
    <3> DEFINE All == {Header(c) : c \in 1..Len(deltas)} \cup {Delta, Torn}
    <3>1. /\ stdin \in Seq(1..Len(deltas)) /\ stdout \in Seq(All) /\ PipeSize \in Nat
          /\ Len(stdin) <= PipeSize /\ Len(stdout) <= PipeSize
      BY StreamAssumption DEF StreamTypeOK
    <3>2. CASE ChildReads
      <4>1. stdin # <<>> /\ stdin' = Tail(stdin) /\ stdout' = stdout
        BY <3>2 DEF ChildReads
      <4>2. stdin' \in Seq(1..Len(deltas)) /\ Len(stdin') = Len(stdin) - 1 /\ Len(stdin) \in Nat
        BY <3>1, <4>1, TailOf
      <4> QED BY <3>1, <4>1, <4>2
    <3>3. ASSUME NEW r \in All, Len(stdout) < PipeSize, stdout' = Append(stdout, r)
          PROVE  stdout' \in Seq(All) /\ Len(stdout') <= PipeSize
      <4> HIDE DEF All
      <4>1. stdout' \in Seq(All) /\ Len(stdout') = Len(stdout) + 1 /\ Len(stdout) \in Nat
        BY <3>1, <3>3
      <4> QED BY <3>1, <3>3, <4>1
    <3>4. CASE ChildWrites
      <4>1. stdin' = stdin /\ pending # <<>> /\ pending \in Seq(Records)
        BY <3>4 DEF ChildWrites, FlowInv
      <4>2. Head(pending) \in All
        BY <4>1, TailOf DEF Records
      <4> QED BY <3>1, <3>3, <3>4, <4>1, <4>2 DEF ChildWrites
    <3>5. CASE ChildFinishes
      BY <3>1, <3>5 DEF ChildFinishes
    <3>6. CASE ChildBreaks
      BY <3>1, <3>3, <3>6 DEF ChildBreaks
    <3> QED BY <1>3, <3>2, <3>4, <3>5, <3>6 DEF ChildStep
  <2>4. StreamTypeOK'
    BY <2>2, <2>3 DEF StreamTypeOK
  <2>5. EventsInv'
    BY <2>2 DEF EventsInv, Parsing, ChildBroke, Unread
  <2> QED
    BY <2>1, <2>2, <2>4, <2>5
    DEF WatchInv, ResultInv, DeadlineIsPartial, KillsOnlyItsChild, Unread
<1>4. CASE WatchdogStep
  <2>1. /\ UNCHANGED <<deltas, expired, writer, stdin, stdout, pending, main, events, kept,
                       partial, reaped, result>>
        /\ watchdog = "watching" /\ watchdog' \in {"fired", "dismissed"}
        /\ child' = child \/ (Alive /\ child' = "killed")
    BY <1>4 DEF WatchdogStep, Fire, Dismiss
  <2>4. ~reaped /\ strayKill = FALSE
    BY <2>1 DEF WatchInv, KillsOnlyItsChild, StreamTypeOK
  <2>5. strayKill' = FALSE
    BY <1>4, <2>4 DEF WatchdogStep, Fire, Dismiss
  <2>2. FlowInv'
    BY <2>1, QuietKeepsFlow DEF FlowInv
  <2>3. EventsInv'
    BY <2>1 DEF EventsInv, Parsing, ChildBroke, Unread, Alive
  <2>8. strayKill' \in BOOLEAN
    BY <2>5
  <2>6. StreamTypeOK'
    BY <2>1, <2>8 DEF StreamTypeOK
  <2>7. WatchInv' /\ ResultInv'
    BY <2>1, <2>4 DEF WatchInv, ResultInv, Alive, Unread
  <2> QED
    BY <2>1, <2>2, <2>3, <2>5, <2>6, <2>7 DEF WatchInv, DeadlineIsPartial, KillsOnlyItsChild
<1>5. CASE \/ StopBeforeCommit \/ StopInCommit \/ GoOn \/ ReadHeader \/ ReadDelta
           \/ DrainDeltas \/ ReadEnd \/ OutOfBytes
  <2>1. /\ FlowInv' /\ EventsInv' /\ StreamTypeOK'
        /\ Parsing /\ main' \in ParserPlaces \cup {"parsed", "rejected"}
        /\ UNCHANGED <<deltas, child, watchdog, reaped, result, strayKill>>
    BY <1>5, ParserKeeps
  <2> QED
    BY <2>1
    DEF WatchInv, ResultInv, DeadlineIsPartial, KillsOnlyItsChild, Parsing, ParserPlaces
<1>6. CASE JoinWatchdog
  <2>1. /\ UNCHANGED <<deltas, expired, writer, stdin, stdout, pending, watchdog, kept,
                       strayKill, reaped, result>>
        /\ main \in {"parsed", "rejected"} /\ watchdog # "watching"
        /\ partial' = (watchdog = "fired" \/ (partial /\ main = "parsed"))
        /\ events' = (IF main = "rejected" THEN <<>> ELSE events)
        /\ child' = child \/ (Alive /\ child' = "killed")
        /\ main' = (IF main = "parsed" \/ watchdog = "fired" THEN "waiting" ELSE "cleaning")
    BY <1>6 DEF JoinWatchdog, Proceed
  <2>2. FlowInv'
    BY <2>1 DEF FlowInv, Parsing, Records, Alive
  <2>3. EventsInv'
    <3>1. CASE main = "parsed"
      BY <2>1, <3>1 DEF EventsInv, Parsing, ChildBroke, Unread, Alive
    <3>2. CASE main = "rejected"
      <4>1. events' = <<>> /\ Len(events') = 0
        BY <2>1, <3>2
      <4>2. main' = "waiting" => partial'
        BY <2>1, <3>2
      <4>3. main' # "parsed"
        BY <2>1
      <4> QED BY <4>1, <4>2, <4>3 DEF EventsInv
    <3> QED BY <2>1, <3>1, <3>2
  <2>4. StreamTypeOK'
    <3>1. events' \in Seq(Nat) /\ Len(events') <= Len(deltas) /\ partial' \in BOOLEAN
      BY <2>1, FlowTypes DEF StreamTypeOK
    <3> QED BY <2>1, <3>1 DEF StreamTypeOK
  <2> QED
    BY <2>1, <2>2, <2>3, <2>4
    DEF WatchInv, ResultInv, DeadlineIsPartial, KillsOnlyItsChild, StreamTypeOK
<1>7. CASE WaitForChild
  <2>1. FlowInv'
    BY <1>7 DEF WaitForChild, Proceed, FlowInv, Parsing, Records
  <2> QED
    BY <1>7, <2>1
    DEF WaitForChild, Proceed, StreamTypeOK, EventsInv, WatchInv, ResultInv,
        DeadlineIsPartial, KillsOnlyItsChild, Parsing, ChildBroke, Unread
<1>8. CASE Return
  <2>1. FlowInv'
    BY <1>8 DEF Return, Proceed, FlowInv, Parsing, Records
  <2>2. EventsInv'
    BY <1>8 DEF Return, Proceed, EventsInv, Parsing, ChildBroke, Unread
  <2> QED
    BY <1>8, <2>1, <2>2
    DEF Return, Proceed, StreamTypeOK, EventsInv, WatchInv, ResultInv,
        DeadlineIsPartial, KillsOnlyItsChild, Unread
<1>9. CASE UNCHANGED streamVars
  <2>1. FlowInv'
    BY <1>9, QuietKeepsFlow DEF streamVars, FlowInv
  <2> QED
    BY <1>9, <2>1
    DEF streamVars, StreamTypeOK, EventsInv, WatchInv, ResultInv, DeadlineIsPartial,
        KillsOnlyItsChild, Parsing, ChildBroke, Unread
<1> QED
  BY <1>1, <1>2, <1>3, <1>4, <1>5, <1>6, <1>7, <1>8, <1>9 DEF StreamNext, MainStep

\* The inductive invariant holds in every behaviour, for every number of
\* commits and deltas, every capacity of the pipe and whenever the child
\* fails or the deadline passes.
THEOREM StreamInductive == StreamSpec => []StreamInv
<1>1. StreamInit => StreamInv
  <2> SUFFICES ASSUME StreamInit PROVE StreamInv
    OBVIOUS
  <2>1. deltas \in Seq(Nat) /\ deltas # <<>> /\ PipeSize \in Nat
    BY StreamAssumption DEF StreamInit
  <2>2. Len(deltas) \in Nat /\ Len(deltas) >= 1
    BY <2>1
  <2>3. StreamTypeOK
    <3>1. /\ stdin \in Seq(1..Len(deltas)) /\ events \in Seq(Nat)
          /\ stdout \in Seq({Header(c) : c \in 1..Len(deltas)} \cup {Delta, Torn})
          /\ Len(stdin) = 0 /\ Len(stdout) = 0 /\ Len(events) = 0
      BY DEF StreamInit
    <3>2. writer \in 1..(Len(deltas) + 2) /\ Len(stdin) <= PipeSize /\ Len(stdout) <= PipeSize
          /\ Len(events) <= Len(deltas)
      BY <2>1, <2>2, <3>1 DEF StreamInit
    <3>3. /\ expired \in BOOLEAN /\ partial \in BOOLEAN /\ reaped \in BOOLEAN
          /\ strayKill \in BOOLEAN /\ child = "running" /\ watchdog = "watching"
          /\ main = "deciding" /\ kept = NoCommit /\ result = "none"
      BY DEF StreamInit
    <3> QED BY <3>1, <3>2, <3>3 DEF StreamTypeOK
  <2>4. FlowInv
    <3>1. Flow = <<>> /\ pending \in Seq(Records)
      BY DEF StreamInit, Flow
    <3> QED BY <3>1 DEF StreamInit, FlowInv, Headed, NoCommit
  <2> QED
    BY <2>3, <2>4
    DEF StreamInit, StreamInv, EventsInv, WatchInv, ResultInv, DeadlineIsPartial,
        KillsOnlyItsChild
<1> QED BY <1>1, StreamStep, PTL DEF StreamSpec

\* Whatever the child, the limits and the deadline did: whole, or marked.
LEMMA InvIsWholeOrMarked == StreamInv => WholeOrMarked
<1> SUFFICES ASSUME StreamInv PROVE WholeOrMarked
  OBVIOUS
<1> USE DEF StreamInv
<1>1. /\ deltas \in Seq(Nat) /\ events \in Seq(Nat) /\ Len(events) \in Nat /\ Len(deltas) \in Nat
      /\ Len(events) <= Len(deltas) /\ deltas # <<>>
  BY FlowTypes DEF StreamTypeOK
<1>2. ASSUME result = "whole"
      PROVE  events = deltas
  <2>1. child = "succeeded" /\ ~partial /\ Len(events) = Len(deltas)
    BY <1>1, <1>2 DEF ResultInv, Unread
  <2>2. events # <<>> => events[Len(events)] = deltas[Len(events)]
    BY <2>1 DEF EventsInv, ChildBroke
  <2>3. \A c \in 1..Len(events) : events[c] = deltas[c]
    BY <1>1, <2>2 DEF EventsInv
  <2> QED BY <1>1, <2>1, <2>3
<1> QED BY <1>2 DEF WholeOrMarked, EventsInv

\* What read_churn_stream returns: every commit with exactly its deltas, or
\* the mark of a partial read; the deadline always leaves the mark; and the
\* watchdog never kills a process that is not its child.
THEOREM StreamsSound == StreamSpec => []StreamSound
<1>1. StreamInv => StreamSound
  BY InvIsWholeOrMarked DEF StreamInv, StreamSound
<1> QED BY <1>1, StreamInductive, PTL

-------------------------------------------------------------------------------
(***************************************************************************)
(* ScanRun.  The counters of a walk and of the whole scan.                 *)
(***************************************************************************)
WalkCounters ==
  [observed : Nat, errors : Nat, oversized : Nat, omitted : Nat,
   incomplete : BOOLEAN, truncated : BOOLEAN, duration : BOOLEAN]

ScanCounters ==
  [observed : Nat, errors : Nat, oversized : Nat, omitted : Nat,
   incomplete : BOOLEAN, truncated : BOOLEAN, duration : BOOLEAN,
   analyzed : Nat, unsupported : Nat, unreadable : Nat, churnPartial : BOOLEAN]

Outcomes == {"none", "queued", "begun", "analyzed", "unsupported", "unreadable", "oversized",
             "duration limit"}

CountersOK ==
  /\ disk \in [Files -> Sizes \cup {Gone}] /\ changed \in SUBSET Files
  /\ scope \in SUBSET Files /\ late \in BOOLEAN
  /\ left \in SUBSET Files /\ files \in SUBSET Files /\ primary \in SUBSET Target
  /\ stats \in WalkCounters /\ diag \in ScanCounters /\ outcome \in [Files -> Outcomes]

\* What a walk, or all of a scan, leaves out is counted or marked, by d.
ToldBy(d, missing, unreadable) ==
  /\ missing # {} => d.truncated \/ d.errors > 0 \/ unreadable > 0
  /\ ~d.incomplete => Cardinality(missing) <= d.oversized + d.omitted + d.errors + unreadable
  /\ d.incomplete => d.truncated

\* Every observed file is kept or counted, and an error counts some of them.
Observes(d, admitted) ==
  /\ admitted + d.oversized + d.omitted <= d.observed
  /\ d.observed <= admitted + d.oversized + d.omitted + d.errors

\* The files that stay as they were, from the beginning of the scan on.
Steady(S) == {f \in S \ changed : disk[f] # Gone}

Passed == Steady((Target \cap Supported) \ (left \cup files))
Unwalked == Steady((Target \cap scope \cap Supported) \ primary)
Unscanned == {f \in Steady(Target \cap scope \cap Supported) : outcome[f] # "analyzed"}

WalkInv ==
  /\ phase \in {"walking target", "walking root"} => files \cap left = {}
  /\ phase = "walking target" =>
       /\ files \in SUBSET Target /\ left \in SUBSET Target
       /\ ToldBy(stats, Passed, 0)
       /\ Observes(stats, Cardinality(files))

AnalysisInv ==
  phase \in {"walking root", "analyzing"} =>
    /\ ToldBy(diag, Unwalked, 0)
    /\ scope = Files => Observes(diag, Cardinality(primary))
    /\ \A f \in Files :
         /\ outcome[f] = "none" <=> f \notin primary
         /\ outcome[f] = "unsupported" => f \notin Supported

ToldFiles ==
  diag.analyzed + diag.unsupported + diag.unreadable + diag.oversized + diag.omitted

ReportInv ==
  phase \in {"history", "duplicates", "assembling", "done"} =>
    /\ ToldBy(diag, Unscanned, diag.unreadable)
    /\ scope = Files => diag.observed \in ToldFiles..(ToldFiles + diag.errors)

Phases == {"walking target", "walking root", "analyzing", "history", "duplicates",
           "assembling", "done"}

\* RunInv is inductive.
RunInv == CountersOK /\ phase \in Phases /\ WalkInv /\ AnalysisInv /\ ReportInv

-------------------------------------------------------------------------------
\* Sets of files can be counted.
LEMMA FilesAreFinite ==
  ASSUME NEW S \in SUBSET Files
  PROVE  /\ IsFiniteSet(S) /\ Cardinality(S) \in Nat
         /\ \A T \in SUBSET S : Cardinality(T) \in Nat /\ Cardinality(T) <= Cardinality(S)
         /\ \A f : Cardinality(S \cup {f}) = IF f \in S THEN Cardinality(S)
                                             ELSE Cardinality(S) + 1
<1>1. IsFiniteSet(S)
  BY ScanAssumption, FS_Subset
<1> QED
  BY <1>1, FS_Subset, FS_CardinalityType, FS_AddElement

\* Fewer files can be missing without a word of it.
LEMMA ToldOfFewer ==
  ASSUME NEW d, NEW S \in SUBSET Files, NEW T \in SUBSET S, NEW n \in Nat, ToldBy(d, S, n),
         d.oversized \in Nat, d.omitted \in Nat, d.errors \in Nat
  PROVE  ToldBy(d, T, n)
<1>1. Cardinality(T) \in Nat /\ Cardinality(S) \in Nat /\ Cardinality(T) <= Cardinality(S)
  BY FilesAreFinite
<1> DEFINE sum == d.oversized + d.omitted + d.errors + n
<1>2. sum \in Nat
  OBVIOUS
<1> HIDE DEF sum
<1>3. ~d.incomplete => Cardinality(S) <= sum
  BY DEF ToldBy, sum
<1>4. ~d.incomplete => Cardinality(T) <= sum
  BY <1>1, <1>2, <1>3
<1> QED
  BY <1>4 DEF ToldBy, sum

\* The entry f is passed over, and e is what counts it, or marks the walk.
LEMMA PassOver ==
  ASSUME NEW d \in WalkCounters, NEW e \in WalkCounters, NEW S \in SUBSET Files,
         NEW T \in SUBSET Files, ToldBy(d, S, 0), NEW f, T \subseteq S \cup {f},
         e.oversized >= d.oversized, e.omitted >= d.omitted, e.errors >= d.errors,
         e.oversized + e.omitted + e.errors = d.oversized + d.omitted + d.errors + 1,
         e.incomplete = d.incomplete, d.truncated => e.truncated,
         e.truncated \/ e.errors > d.errors
  PROVE  ToldBy(e, T, 0)
<1>0. /\ d.oversized \in Nat /\ d.omitted \in Nat /\ d.errors \in Nat
      /\ e.oversized \in Nat /\ e.omitted \in Nat /\ e.errors \in Nat
  BY DEF WalkCounters
<1>1. /\ Cardinality(S \cup {f}) \in Nat /\ Cardinality(S) \in Nat
      /\ Cardinality(S \cup {f}) <= Cardinality(S) + 1
  BY FilesAreFinite
<1>2. Cardinality(T) \in Nat /\ Cardinality(T) <= Cardinality(S \cup {f})
  <2>1. IsFiniteSet(S \cup {f})
    BY FilesAreFinite, FS_AddElement
  <2> QED BY <2>1, FS_Subset, FilesAreFinite
<1>3. ~d.incomplete => Cardinality(S) <= d.oversized + d.omitted + d.errors + 0
  BY DEF ToldBy
<1>4. ~e.incomplete => Cardinality(T) <= e.oversized + e.omitted + e.errors + 0
  BY <1>0, <1>1, <1>2, <1>3
<1>5. e.truncated \/ e.errors > 0
  BY <1>0
<1>6. e.incomplete => e.truncated
  BY DEF ToldBy
<1> QED
  BY <1>4, <1>5, <1>6 DEF ToldBy

\* The sets that the invariant counts hold files of the root.
LEMMA SetsOfFiles ==
  ASSUME CountersOK
  PROVE  /\ Passed \in SUBSET Files /\ Unwalked \in SUBSET Files /\ Unscanned \in SUBSET Files
         /\ Target \in SUBSET Files /\ primary \in SUBSET Files
BY ScanAssumption DEF CountersOK, Steady, Passed, Unwalked, Unscanned

\* An edit or the deadline.
LEMMA OutsideKeeps ==
  ASSUME RunInv, Edit \/ DeadlinePasses
  PROVE  RunInv'
<1>1. /\ UNCHANGED <<scope, phase, left, files, primary, stats, outcome, diag>>
      /\ changed \subseteq changed'
      /\ \A f \in Files \ changed' : disk'[f] = disk[f]
  BY DEF Edit, DeadlinePasses, ConfigVars, RunInv, CountersOK
<1>2. CountersOK'
  <2>1. disk' \in [Files -> Sizes \cup {Gone}] /\ changed' \in SUBSET Files /\ late' \in BOOLEAN
    BY DEF Edit, DeadlinePasses, RunInv, CountersOK
  <2> QED BY <1>1, <2>1 DEF RunInv, CountersOK
<1>3. Passed' \subseteq Passed /\ Unwalked' \subseteq Unwalked /\ Unscanned' \subseteq Unscanned
  BY <1>1, ScanAssumption DEF Passed, Unwalked, Unscanned, Steady
<1>4. /\ stats.oversized \in Nat /\ stats.omitted \in Nat /\ stats.errors \in Nat
      /\ diag.oversized \in Nat /\ diag.omitted \in Nat /\ diag.errors \in Nat
      /\ diag.unreadable \in Nat
  BY DEF RunInv, CountersOK, WalkCounters, ScanCounters
<1>5. Passed \in SUBSET Files /\ Unwalked \in SUBSET Files /\ Unscanned \in SUBSET Files
  BY SetsOfFiles DEF RunInv
<1>6. ToldBy(stats, Passed, 0) => ToldBy(stats, Passed', 0)
  BY <1>3, <1>4, <1>5, ToldOfFewer
<1>7. ToldBy(diag, Unwalked, 0) => ToldBy(diag, Unwalked', 0)
  BY <1>3, <1>4, <1>5, ToldOfFewer
<1>8. ToldBy(diag, Unscanned, diag.unreadable) => ToldBy(diag, Unscanned', diag.unreadable)
  BY <1>3, <1>4, <1>5, ToldOfFewer
<1> HIDE DEF Passed, Unwalked, Unscanned
<1>9. WalkInv' /\ AnalysisInv' /\ ReportInv' /\ phase' \in Phases
  <2>1. /\ stats' = stats /\ diag' = diag /\ phase' = phase /\ scope' = scope
        /\ files' = files /\ left' = left /\ primary' = primary /\ outcome' = outcome
    BY <1>1
  <2>2. WalkInv'
    BY <1>6, <2>1 DEF RunInv, WalkInv, Observes
  <2>3. AnalysisInv'
    BY <1>7, <2>1 DEF RunInv, AnalysisInv, Observes
  <2>4. ReportInv'
    BY <1>8, <2>1 DEF RunInv, ReportInv, ToldFiles
  <2> QED BY <2>1, <2>2, <2>3, <2>4 DEF RunInv
<1> QED
  BY <1>2, <1>9 DEF RunInv

\* A walk goes on: an entry is dropped with a counter, or kept.
LEMMA WalkKeeps ==
  ASSUME RunInv, phase \in {"walking target", "walking root"},
         UNCHANGED <<disk, changed, scope, late, phase, primary, outcome, diag>>,
         stats' \in WalkCounters, left' \in SUBSET left, files' \in SUBSET Files,
         files \subseteq files', files' \cap left' = {}, files' \ files \subseteq left,
         ToldBy(stats, Passed, 0) => ToldBy(stats', Passed', 0),
         files \cap left = {} /\ Observes(stats, Cardinality(files)) =>
           Observes(stats', Cardinality(files'))
  PROVE  RunInv'
<1>1. CountersOK' /\ phase' \in Phases
  BY DEF RunInv, CountersOK
<1>2. WalkInv'
  BY DEF RunInv, WalkInv
<1>3. AnalysisInv' /\ ReportInv'
  BY DEF RunInv, AnalysisInv, ReportInv, Unwalked, Steady, ToldFiles, Observes
<1> QED
  BY <1>1, <1>2, <1>3 DEF RunInv

\* A file that the walk has still to come to has not been collected.
LEMMA KeptByWalk ==
  ASSUME RunInv, NEW f \in left, files \cap left = {}
  PROVE  /\ Cardinality(files) \in Nat
         /\ Cardinality(files \cup {f}) = Cardinality(files) + 1
BY FilesAreFinite DEF RunInv, CountersOK

\* A collected file is none of those that were passed over, and a file of an
\* unknown language is not among them.
LEMMA PassedBy ==
  ASSUME RunInv, NEW f \in left, left' = left \ {f},
         UNCHANGED <<disk, changed>>, files' = files \/ files' = files \cup {f}
  PROVE  /\ Passed' \in SUBSET Files /\ Passed' \subseteq Passed \cup {f}
         /\ f \notin Supported \/ disk[f] = Gone \/ files' # files => Passed' \subseteq Passed
BY ScanAssumption DEF RunInv, CountersOK, Passed, Steady

\* What process_file does next: the entry f is behind, with s for counters.
LEMMA VisitLeaves ==
  ASSUME NEW f, NEW s, Visited(f, s)
  PROVE  /\ UNCHANGED <<disk, changed, scope, late, phase, primary, outcome, diag>>
         /\ left' = left \ {f} /\ stats' = s
BY DEF Visited, ConfigVars, AnalysisVars

\* process_file counts the entry first: the other counters stay.
LEMMA ObservedCounts ==
  ASSUME stats \in WalkCounters
  PROVE  /\ Observed \in WalkCounters /\ Observed.observed = stats.observed + 1
         /\ Observed.oversized = stats.oversized /\ Observed.omitted = stats.omitted
         /\ Observed.errors = stats.errors /\ Observed.incomplete = stats.incomplete
         /\ Observed.truncated = stats.truncated
BY DEF Observed, WalkCounters

\* One more entry is counted, and told of.
CountsOneMore ==
  /\ stats' \in WalkCounters
  /\ \/ /\ stats'.errors = stats.errors + 1 /\ stats'.oversized = stats.oversized
        /\ stats'.omitted = stats.omitted
        /\ stats'.observed = stats.observed \/ stats'.observed = stats.observed + 1
     \/ /\ stats'.errors = stats.errors /\ stats'.oversized = stats.oversized + 1
        /\ stats'.omitted = stats.omitted /\ stats'.observed = stats.observed + 1
        /\ stats'.truncated
     \/ /\ stats'.errors = stats.errors /\ stats'.oversized = stats.oversized
        /\ stats'.omitted = stats.omitted + 1 /\ stats'.observed = stats.observed + 1
        /\ stats'.truncated
  /\ stats'.incomplete = stats.incomplete
  /\ stats.truncated => stats'.truncated

\* What one more in a counter does to the sums of the invariant.
LEMMA CountsUp ==
  ASSUME stats \in WalkCounters, CountsOneMore, NEW admitted \in Nat
  PROVE  /\ stats'.oversized >= stats.oversized /\ stats'.omitted >= stats.omitted
         /\ stats'.errors >= stats.errors
         /\ stats'.oversized + stats'.omitted + stats'.errors
              = stats.oversized + stats.omitted + stats.errors + 1
         /\ admitted + stats.oversized + stats.omitted <= stats.observed =>
              admitted + stats'.oversized + stats'.omitted <= stats'.observed
         /\ stats.observed <= admitted + stats.oversized + stats.omitted + stats.errors =>
              stats'.observed <= admitted + stats'.oversized + stats'.omitted + stats'.errors
         /\ stats'.truncated \/ stats'.errors > stats.errors
         /\ stats'.incomplete = stats.incomplete
         /\ stats.truncated => stats'.truncated
BY DEF CountsOneMore, WalkCounters

\* The entry f is dropped and counted once.
LEMMA DropKeeps ==
  ASSUME RunInv, NEW f \in left, phase \in {"walking target", "walking root"},
         UNCHANGED <<disk, changed, scope, late, phase, primary, outcome, diag, files>>,
         left' = left \ {f}, CountsOneMore
  PROVE  RunInv'
<1>1. stats \in WalkCounters /\ Passed \in SUBSET Files /\ files \in SUBSET Files
  BY SetsOfFiles DEF RunInv, CountersOK
<1>2. Passed' \in SUBSET Files /\ Passed' \subseteq Passed \cup {f}
  BY PassedBy
<1> DEFINE admitted == Cardinality(files)
<1>3. admitted \in Nat
  BY <1>1, FilesAreFinite
<1> HIDE DEF admitted
<1>6. ASSUME ToldBy(stats, Passed, 0) PROVE ToldBy(stats', Passed', 0)
  <2>1. stats' \in WalkCounters
    BY DEF CountsOneMore
  <2> QED BY <1>1, <1>2, <1>3, <1>6, <2>1, CountsUp, PassOver
<1>7. ASSUME Observes(stats, admitted) PROVE Observes(stats', admitted)
  BY <1>1, <1>3, <1>7, CountsUp DEF Observes
<1>8. files \cap left = {} /\ stats' \in WalkCounters
  BY DEF RunInv, WalkInv, CountsOneMore
<1> QED
  BY <1>1, <1>6, <1>7, <1>8, WalkKeeps DEF admitted

\* One more file is observed and kept.
LEMMA OneMoreKept ==
  ASSUME NEW d \in WalkCounters, NEW e \in WalkCounters, NEW admitted \in Nat,
         Observes(d, admitted), e.observed = d.observed + 1, e.oversized = d.oversized,
         e.omitted = d.omitted, e.errors = d.errors
  PROVE  Observes(e, admitted + 1)
BY DEF Observes, WalkCounters

\* The entry f is collected, or is nothing to collect.
LEMMA PassKeeps ==
  ASSUME RunInv, NEW f \in left, phase \in {"walking target", "walking root"},
         UNCHANGED <<disk, changed, scope, late, phase, primary, outcome, diag>>,
         left' = left \ {f},
         \/ disk[f] = Gone /\ files' = files /\ stats' = stats
         \/ files' = files \cup {f} /\ stats' = Observed
  PROVE  RunInv'
<1>1. stats \in WalkCounters /\ Passed \in SUBSET Files /\ files \in SUBSET Files /\ f \in Files
  BY SetsOfFiles DEF RunInv, CountersOK
<1>2. stats' \in WalkCounters
  BY <1>1, ObservedCounts
<1>3. /\ stats'.oversized = stats.oversized /\ stats'.omitted = stats.omitted
      /\ stats'.errors = stats.errors /\ stats'.incomplete = stats.incomplete
      /\ stats'.truncated = stats.truncated
  BY <1>1, ObservedCounts
<1>4. files \cap left = {} /\ f \notin files
  BY DEF RunInv, WalkInv
<1>5. Passed' \subseteq Passed
  BY <1>4, PassedBy
<1>6. ASSUME ToldBy(stats, Passed, 0) PROVE ToldBy(stats', Passed', 0)
  <2>1. stats.oversized \in Nat /\ stats.omitted \in Nat /\ stats.errors \in Nat
    BY <1>1 DEF WalkCounters
  <2>2. ToldBy(stats, Passed', 0)
    BY <1>1, <1>5, <1>6, <2>1, ToldOfFewer
  <2> QED BY <1>3, <2>2 DEF ToldBy
<1>7. ASSUME Observes(stats, Cardinality(files)) PROVE Observes(stats', Cardinality(files'))
  <2>1. Cardinality(files) \in Nat /\ Cardinality(files \cup {f}) = Cardinality(files) + 1
    BY <1>4, KeptByWalk
  <2>2. /\ stats.observed \in Nat /\ stats.oversized \in Nat /\ stats.omitted \in Nat
        /\ stats.errors \in Nat
    BY <1>1 DEF WalkCounters
  <2>3. CASE files' = files /\ stats' = stats
    BY <1>7, <2>3
  <2>4. CASE files' = files \cup {f} /\ stats' = Observed
    BY <1>1, <1>2, <1>3, <1>7, <2>1, <2>4, ObservedCounts, OneMoreKept
  <2> QED BY <2>3, <2>4
<1> QED
  BY <1>1, <1>2, <1>4, <1>6, <1>7, WalkKeeps DEF RunInv, CountersOK

\* The walk ends at max_files with entries left: it is marked.
LEMMA BeyondKeeps ==
  ASSUME RunInv, NEW f \in Files, VisitBeyond(f)
  PROVE  RunInv'
<1>1. stats \in WalkCounters /\ Passed \in SUBSET Files /\ files \in SUBSET Files
  BY SetsOfFiles DEF RunInv, CountersOK
<1>2. stats' = [Observed EXCEPT !.omitted = @ + 1, !.incomplete = TRUE, !.truncated = TRUE]
      /\ left' = {} /\ files' = files
  BY DEF VisitBeyond
<1>3. /\ stats' \in WalkCounters /\ stats'.incomplete /\ stats'.truncated
      /\ stats'.observed = stats.observed + 1 /\ stats'.omitted = stats.omitted + 1
      /\ stats'.oversized = stats.oversized /\ stats'.errors = stats.errors
  <2>1. ASSUME NEW o \in WalkCounters,
               stats' = [o EXCEPT !.omitted = @ + 1, !.incomplete = TRUE, !.truncated = TRUE]
        PROVE  /\ stats' \in WalkCounters /\ stats'.incomplete /\ stats'.truncated
               /\ stats'.observed = o.observed /\ stats'.omitted = o.omitted + 1
               /\ stats'.oversized = o.oversized /\ stats'.errors = o.errors
    <3>1. stats' = [observed |-> o.observed, errors |-> o.errors, oversized |-> o.oversized,
                    omitted |-> o.omitted + 1, incomplete |-> TRUE, truncated |-> TRUE,
                    duration |-> o.duration]
      BY <2>1 DEF WalkCounters
    <3> QED BY <3>1 DEF WalkCounters
  <2> QED BY <1>1, <1>2, <2>1, ObservedCounts
<1>4. ToldBy(stats', Passed', 0)
  BY <1>3 DEF ToldBy
<1>5. ASSUME Observes(stats, Cardinality(files)) PROVE Observes(stats', Cardinality(files'))
  <2>1. Cardinality(files) \in Nat
    BY <1>1, FilesAreFinite
  <2>2. /\ stats.observed \in Nat /\ stats.oversized \in Nat /\ stats.omitted \in Nat
        /\ stats.errors \in Nat
    BY <1>1 DEF WalkCounters
  <2> QED BY <1>2, <1>3, <1>5, <2>1, <2>2 DEF Observes
<1>6. /\ UNCHANGED <<disk, changed, scope, late, phase, primary, outcome, diag>>
      /\ phase \in {"walking target", "walking root"}
  BY DEF VisitBeyond, ConfigVars, AnalysisVars, Walking
<1> QED
  BY <1>1, <1>2, <1>3, <1>4, <1>5, <1>6, WalkKeeps

\* The counters o, with one more in errors, oversized or omitted.
LEMMA CountedOnce ==
  ASSUME stats \in WalkCounters, NEW o \in WalkCounters,
         o.errors = stats.errors, o.oversized = stats.oversized, o.omitted = stats.omitted,
         o.incomplete = stats.incomplete, o.truncated = stats.truncated,
         \/ /\ stats' = [o EXCEPT !.errors = @ + 1]
            /\ o.observed = stats.observed \/ o.observed = stats.observed + 1
         \/ /\ \/ stats' = [o EXCEPT !.oversized = @ + 1, !.truncated = TRUE]
               \/ stats' = [o EXCEPT !.omitted = @ + 1, !.truncated = TRUE]
            /\ o.observed = stats.observed + 1
  PROVE  CountsOneMore
<1>1. CASE stats' = [o EXCEPT !.errors = @ + 1]
  <2>1. /\ stats' \in WalkCounters /\ stats'.errors = o.errors + 1
        /\ stats'.oversized = o.oversized /\ stats'.omitted = o.omitted
        /\ stats'.observed = o.observed /\ stats'.incomplete = o.incomplete
        /\ stats'.truncated = o.truncated
    BY <1>1 DEF WalkCounters
  <2>2. o.observed = stats.observed \/ o.observed = stats.observed + 1
    OBVIOUS
  <2> QED BY <2>1, <2>2 DEF CountsOneMore
<1>2. CASE /\ stats' = [o EXCEPT !.oversized = @ + 1, !.truncated = TRUE]
           /\ o.observed = stats.observed + 1
  <2>1. stats' = [observed |-> o.observed, errors |-> o.errors,
                  oversized |-> o.oversized + 1, omitted |-> o.omitted,
                  incomplete |-> o.incomplete, truncated |-> TRUE, duration |-> o.duration]
    BY <1>2 DEF WalkCounters
  <2>2. /\ stats' \in WalkCounters /\ stats'.oversized = o.oversized + 1
        /\ stats'.errors = o.errors /\ stats'.omitted = o.omitted
        /\ stats'.observed = o.observed /\ stats'.incomplete = o.incomplete
        /\ stats'.truncated
    BY <2>1 DEF WalkCounters
  <2> QED BY <1>2, <2>2 DEF CountsOneMore
<1>3. CASE /\ stats' = [o EXCEPT !.omitted = @ + 1, !.truncated = TRUE]
           /\ o.observed = stats.observed + 1
  <2>1. stats' = [observed |-> o.observed, errors |-> o.errors,
                  oversized |-> o.oversized, omitted |-> o.omitted + 1,
                  incomplete |-> o.incomplete, truncated |-> TRUE, duration |-> o.duration]
    BY <1>3 DEF WalkCounters
  <2>2. /\ stats' \in WalkCounters /\ stats'.omitted = o.omitted + 1
        /\ stats'.errors = o.errors /\ stats'.oversized = o.oversized
        /\ stats'.observed = o.observed /\ stats'.incomplete = o.incomplete
        /\ stats'.truncated
    BY <2>1 DEF WalkCounters
  <2> QED BY <1>3, <2>2 DEF CountsOneMore
<1> QED
  BY <1>1, <1>2, <1>3

\* collect_files and accept_recognized_file, entry by entry.
LEMMA VisitKeeps ==
  ASSUME RunInv, NEW f \in Files,
         VisitNothing(f) \/ VisitBeyond(f) \/ VisitUnknown(f) \/ VisitKnown(f)
  PROVE  RunInv'
<1>1. stats \in WalkCounters /\ Observed \in WalkCounters
  BY ObservedCounts DEF RunInv, CountersOK
<1>2. CASE VisitBeyond(f)
  BY <1>2, BeyondKeeps
<1>3. CASE VisitUnknown(f)
  <2>1. f \in left /\ phase \in {"walking target", "walking root"}
        /\ Visited(f, Observed) /\ files' = files \cup {f}
    BY <1>3 DEF VisitUnknown, Walking
  <2> QED BY <2>1, PassKeeps, VisitLeaves
<1>4. CASE VisitNothing(f)
  <2>1. f \in left /\ phase \in {"walking target", "walking root"} /\ files' = files
    BY <1>4 DEF VisitNothing, Walking
  <2>2. CASE disk[f] = Gone /\ Visited(f, stats)
    BY <2>1, <2>2, PassKeeps, VisitLeaves
  <2>3. CASE Visited(f, [stats EXCEPT !.errors = @ + 1])
    <3>1. stats' = [stats EXCEPT !.errors = @ + 1]
      BY <2>3 DEF Visited
    <3>2. CountsOneMore
      BY <1>1, <3>1, CountedOnce
    <3> QED BY <2>1, <2>3, <3>2, DropKeeps, VisitLeaves
  <2> QED BY <1>4, <2>2, <2>3 DEF VisitNothing
<1>5. CASE VisitKnown(f)
  <2>1. f \in left /\ phase \in {"walking target", "walking root"}
    BY <1>5 DEF VisitKnown, Walking
  <2>2. \/ /\ \/ Visited(f, [Observed EXCEPT !.errors = @ + 1])
              \/ Visited(f, [Observed EXCEPT !.oversized = @ + 1, !.truncated = TRUE])
              \/ Visited(f, [Observed EXCEPT !.omitted = @ + 1, !.truncated = TRUE])
           /\ files' = files
        \/ Visited(f, Observed) /\ files' = files \cup {f}
    BY <1>5 DEF VisitKnown
  <2>3. CASE Visited(f, Observed) /\ files' = files \cup {f}
    BY <2>1, <2>3, PassKeeps, VisitLeaves
  <2>4. CASE /\ \/ Visited(f, [Observed EXCEPT !.errors = @ + 1])
                \/ Visited(f, [Observed EXCEPT !.oversized = @ + 1, !.truncated = TRUE])
                \/ Visited(f, [Observed EXCEPT !.omitted = @ + 1, !.truncated = TRUE])
             /\ files' = files
    <3>1. /\ \/ stats' = [Observed EXCEPT !.errors = @ + 1]
             \/ stats' = [Observed EXCEPT !.oversized = @ + 1, !.truncated = TRUE]
             \/ stats' = [Observed EXCEPT !.omitted = @ + 1, !.truncated = TRUE]
          /\ UNCHANGED <<disk, changed, scope, late, phase, primary, outcome, diag, files>>
          /\ left' = left \ {f}
      BY <2>4, VisitLeaves
    <3>2. CountsOneMore
      BY <1>1, <3>1, ObservedCounts, CountedOnce
    <3> QED BY <2>1, <3>1, <3>2, DropKeeps
  <2> QED BY <2>2, <2>3, <2>4
<1> QED BY <1>2, <1>3, <1>4, <1>5

-------------------------------------------------------------------------------
\* What discover returns, as the first counters of the whole scan.
LEMMA CountersOfWalk ==
  ASSUME stats \in WalkCounters, diag \in ScanCounters, late \in BOOLEAN,
         diag' = [k \in DOMAIN diag |-> IF k \in DOMAIN stats THEN WalkStats[k] ELSE diag[k]]
  PROVE  /\ diag' \in ScanCounters
         /\ diag'.observed = stats.observed /\ diag'.oversized = stats.oversized
         /\ diag'.omitted = stats.omitted /\ diag'.errors = stats.errors
         /\ diag'.incomplete = (stats.incomplete \/ late)
         /\ diag'.truncated = (stats.truncated \/ late)
<1>1. WalkStats = [observed |-> stats.observed, errors |-> stats.errors,
                   oversized |-> stats.oversized, omitted |-> stats.omitted,
                   incomplete |-> stats.incomplete \/ late,
                   truncated |-> stats.truncated \/ late, duration |-> stats.duration \/ late]
  BY DEF WalkCounters, WalkStats
<1>2. diag' = [observed |-> stats.observed, errors |-> stats.errors,
               oversized |-> stats.oversized, omitted |-> stats.omitted,
               incomplete |-> stats.incomplete \/ late,
               truncated |-> stats.truncated \/ late, duration |-> stats.duration \/ late,
               analyzed |-> diag.analyzed, unsupported |-> diag.unsupported,
               unreadable |-> diag.unreadable, churnPartial |-> diag.churnPartial]
  <2> HIDE DEF WalkStats
  <2> QED BY <1>1 DEF WalkCounters, ScanCounters
<1> QED
  BY <1>2 DEF WalkCounters, ScanCounters

\* The walk of the target ends: what it has not come to is marked as incomplete.
LEMMA EndTargetKeeps ==
  ASSUME RunInv, EndTargetWalk
  PROVE  RunInv'
<1>1. /\ phase = "walking target" /\ (late \/ left = {}) /\ primary' = files \cap scope
      /\ phase' \in {"walking root", "analyzing"} /\ left' \in SUBSET Files
      /\ files' = {} /\ stats' = NoStats
      /\ outcome' = [g \in Files |-> IF g \in primary' THEN "queued" ELSE "none"]
      /\ UNCHANGED <<disk, changed, scope, late>>
  BY DEF EndTargetWalk, ConfigVars
<1>2. stats \in WalkCounters /\ diag \in ScanCounters /\ late \in BOOLEAN
  BY DEF RunInv, CountersOK
<1>3. diag' = [k \in DOMAIN diag |-> IF k \in DOMAIN stats THEN WalkStats[k] ELSE diag[k]]
  BY DEF EndTargetWalk
<1>4. /\ diag' \in ScanCounters
      /\ diag'.observed = stats.observed /\ diag'.oversized = stats.oversized
      /\ diag'.omitted = stats.omitted /\ diag'.errors = stats.errors
      /\ diag'.incomplete = (stats.incomplete \/ late)
      /\ diag'.truncated = (stats.truncated \/ late)
  BY <1>2, <1>3, CountersOfWalk
<1>5. /\ files \in SUBSET Target /\ ToldBy(stats, Passed, 0)
      /\ Observes(stats, Cardinality(files))
  BY <1>1 DEF RunInv, WalkInv
<1>6. CountersOK'
  <2>1. NoStats \in WalkCounters
    BY DEF NoStats, WalkCounters
  <2>2. outcome' \in [Files -> Outcomes]
    BY <1>1 DEF Outcomes
  <2>3. /\ primary' \in SUBSET Target /\ files' \in SUBSET Files /\ left' \in SUBSET Files
        /\ stats' \in WalkCounters
    BY <1>1, <1>5, <2>1
  <2>4. disk' = disk /\ changed' = changed /\ scope' = scope /\ late' = late
    BY <1>1
  <2> QED BY <1>4, <2>2, <2>3, <2>4 DEF RunInv, CountersOK
<1>7. ToldBy(diag', Unwalked', 0)
  <2>1. CASE late
    BY <1>4, <2>1 DEF ToldBy
  <2>2. CASE ~late
    <3>1. Unwalked' \subseteq Passed
      BY <1>1, <2>2 DEF Unwalked, Passed, Steady
    <3>2. Passed \in SUBSET Files /\ Unwalked' \in SUBSET Passed
      BY <3>1, SetsOfFiles DEF RunInv
    <3>3. stats.oversized \in Nat /\ stats.omitted \in Nat /\ stats.errors \in Nat
      BY <1>2 DEF WalkCounters
    <3> HIDE DEF Unwalked, Passed
    <3>4. ToldBy(stats, Unwalked', 0)
      BY <1>5, <3>2, <3>3, ToldOfFewer
    <3> QED BY <1>2, <1>4, <2>2, <3>4 DEF ToldBy, WalkCounters
  <2> QED BY <1>2, <2>1, <2>2
<1>8. scope' = Files => Observes(diag', Cardinality(primary'))
  <2>1. files \in SUBSET Files
    BY DEF RunInv, CountersOK
  <2>2. scope' = Files => primary' = files
    BY <1>1, <2>1
  <2> QED BY <1>4, <1>5, <2>2 DEF Observes
<1>9. \A g \in Files : /\ outcome'[g] = "none" <=> g \notin primary'
                       /\ outcome'[g] = "unsupported" => g \notin Supported
  BY <1>1
<1> QED
  BY <1>1, <1>6, <1>7, <1>8, <1>9 DEF RunInv, WalkInv, AnalysisInv, ReportInv, Phases

\* The walk of the root leaves nothing but its paths.
LEMMA EndRootKeeps ==
  ASSUME RunInv, EndRootWalk
  PROVE  RunInv'
<1>1. /\ phase = "walking root" /\ phase' = "analyzing" /\ left' = {} /\ files' = {}
      /\ stats' = NoStats
      /\ UNCHANGED <<disk, changed, scope, late, primary, outcome, diag>>
  BY DEF EndRootWalk, ConfigVars, AnalysisVars
<1>2. NoStats \in WalkCounters
  BY DEF NoStats, WalkCounters
<1>3. CountersOK'
  BY <1>1, <1>2 DEF RunInv, CountersOK
<1>4. AnalysisInv'
  BY <1>1 DEF RunInv, AnalysisInv, Unwalked, Steady, Observes
<1> QED
  BY <1>1, <1>3, <1>4 DEF RunInv, WalkInv, ReportInv, Phases

\* A worker begins a file, or is through with it.
LEMMA AnalysisKeeps ==
  ASSUME RunInv, NEW f \in Files, BeginFile(f) \/ ReadFile(f)
  PROVE  RunInv'
<1>1. PICK o \in Outcomes :
        /\ Settle(f, o) /\ o # "none" /\ outcome[f] # "none"
        /\ o = "unsupported" => f \notin Supported
  <2>1. CASE BeginFile(f)
    BY <2>1 DEF BeginFile, Outcomes
  <2>2. CASE ReadFile(f)
    BY <2>2 DEF ReadFile, Outcomes
  <2> QED BY <2>1, <2>2
<1>2. /\ phase = "analyzing" /\ outcome' = [outcome EXCEPT ![f] = o]
      /\ UNCHANGED <<disk, changed, scope, late, phase, left, files, stats, primary, diag>>
  BY <1>1 DEF BeginFile, ReadFile, Settle, ConfigVars, WalkVars
<1>3. outcome \in [Files -> Outcomes]
  BY DEF RunInv, CountersOK
<1>4. CountersOK'
  BY <1>2, <1>3 DEF RunInv, CountersOK
<1>5. AnalysisInv'
  <2>1. \A g \in Files : outcome'[g] = IF g = f THEN o ELSE outcome[g]
    BY <1>2, <1>3
  <2>2. ToldBy(diag', Unwalked', 0) /\ (scope' = Files => Observes(diag', Cardinality(primary')))
    BY <1>2 DEF RunInv, AnalysisInv, Unwalked, Steady
  <2>3. \A g \in Files : /\ outcome'[g] = "none" <=> g \notin primary'
                         /\ outcome'[g] = "unsupported" => g \notin Supported
    BY <1>1, <1>2, <2>1 DEF RunInv, AnalysisInv
  <2> QED BY <2>2, <2>3 DEF AnalysisInv
<1> QED
  BY <1>2, <1>4, <1>5 DEF RunInv, WalkInv, ReportInv, Phases

-------------------------------------------------------------------------------
\* How many files two sets hold together.
LEMMA UnionOfFiles ==
  ASSUME NEW S \in SUBSET Files, NEW T \in SUBSET Files
  PROVE  Cardinality(S \cup T) <= Cardinality(S) + Cardinality(T)
<1>1. IsFiniteSet(S) /\ IsFiniteSet(T) /\ S \cap T \in SUBSET Files
  BY FilesAreFinite
<1>2. /\ Cardinality(S) \in Nat /\ Cardinality(T) \in Nat /\ Cardinality(S \cap T) \in Nat
  BY <1>1, FilesAreFinite
<1>3. Cardinality(S \cup T) = Cardinality(S) + Cardinality(T) - Cardinality(S \cap T)
  BY <1>1, FS_Union
<1> QED
  BY <1>2, <1>3

\* And two disjoint ones.
LEMMA DisjointFiles ==
  ASSUME NEW S \in SUBSET Files, NEW T \in SUBSET Files, S \cap T = {}
  PROVE  Cardinality(S \cup T) = Cardinality(S) + Cardinality(T)
<1>1. IsFiniteSet(S) /\ IsFiniteSet(T)
  BY FilesAreFinite
<1>2. /\ Cardinality(S) \in Nat /\ Cardinality(T) \in Nat
  BY FilesAreFinite
<1>3. Cardinality(S \cup T) = Cardinality(S) + Cardinality(T) - Cardinality(S \cap T)
  BY <1>1, FS_Union
<1>4. Cardinality(S \cap T) = 0
  BY FS_EmptySet
<1> QED
  BY <1>2, <1>3, <1>4

\* The files with the outcome o.
With(o) == {g \in Files : outcome[g] = o}

\* The workers are through: each file of the scan has one of five outcomes.
LEMMA OutcomesPartition ==
  ASSUME RunInv, phase = "analyzing",
         \A g \in Files : outcome[g] \notin {"queued", "begun"}
  PROVE  /\ \A o : With(o) \in SUBSET Files /\ Cardinality(With(o)) \in Nat
         /\ Cardinality(primary) =
              Cardinality(With("analyzed")) + Cardinality(With("unsupported"))
              + Cardinality(With("unreadable")) + Cardinality(With("oversized"))
              + Cardinality(With("duration limit"))
         /\ Cardinality(Unscanned) <=
              Cardinality(Unwalked) + Cardinality(With("unreadable"))
              + Cardinality(With("oversized")) + Cardinality(With("duration limit"))
         /\ Unscanned \subseteq Unwalked \cup With("unreadable") \cup With("oversized")
                             \cup With("duration limit")
<1> DEFINE A == With("analyzed")  B == With("unsupported")  C == With("unreadable")
           D == With("oversized") E == With("duration limit")
<1>1. \A o : With(o) \in SUBSET Files /\ Cardinality(With(o)) \in Nat
  <2>1. \A o : With(o) \in SUBSET Files
    BY DEF With
  <2> QED BY <2>1, FilesAreFinite
<1>2. outcome \in [Files -> Outcomes] /\ primary \in SUBSET Files
      /\ Unwalked \in SUBSET Files /\ Unscanned \in SUBSET Files
  BY SetsOfFiles DEF RunInv, CountersOK
<1>3. \A g \in Files : /\ outcome[g] = "none" <=> g \notin primary
                       /\ outcome[g] = "unsupported" => g \notin Supported
  BY DEF RunInv, AnalysisInv
<1>4. primary = A \cup B \cup C \cup D \cup E
  BY <1>2, <1>3 DEF With, Outcomes
<1>5. Unscanned \subseteq Unwalked \cup C \cup D \cup E
  BY <1>2, <1>3 DEF With, Outcomes, Unscanned, Unwalked, Steady
<1>6. /\ A \cap B = {} /\ (A \cup B) \cap C = {} /\ (A \cup B \cup C) \cap D = {}
      /\ (A \cup B \cup C \cup D) \cap E = {}
  BY DEF With
<1>7. A \in SUBSET Files /\ B \in SUBSET Files /\ C \in SUBSET Files /\ D \in SUBSET Files
      /\ E \in SUBSET Files
  BY <1>1
<1> HIDE DEF A, B, C, D, E
<1>8. Cardinality(primary) =
        Cardinality(A) + Cardinality(B) + Cardinality(C) + Cardinality(D) + Cardinality(E)
  <2>1. Cardinality(A \cup B) = Cardinality(A) + Cardinality(B)
    BY <1>6, <1>7, DisjointFiles
  <2>2. Cardinality(A \cup B \cup C) = Cardinality(A \cup B) + Cardinality(C)
    BY <1>6, <1>7, DisjointFiles
  <2>3. Cardinality(A \cup B \cup C \cup D) = Cardinality(A \cup B \cup C) + Cardinality(D)
    BY <1>6, <1>7, DisjointFiles
  <2>4. Cardinality(A \cup B \cup C \cup D \cup E)
          = Cardinality(A \cup B \cup C \cup D) + Cardinality(E)
    BY <1>6, <1>7, DisjointFiles
  <2> QED BY <1>4, <2>1, <2>2, <2>3, <2>4
<1>9. Cardinality(Unscanned) <=
        Cardinality(Unwalked) + Cardinality(C) + Cardinality(D) + Cardinality(E)
  <2> DEFINE U == Unwalked
  <2>1. U \in SUBSET Files
    BY <1>2
  <2> HIDE DEF U
  <2>2. Cardinality(U \cup C) <= Cardinality(U) + Cardinality(C)
    BY <1>7, <2>1, UnionOfFiles
  <2>3. Cardinality(U \cup C \cup D) <= Cardinality(U \cup C) + Cardinality(D)
    BY <1>7, <2>1, UnionOfFiles
  <2>4. Cardinality(U \cup C \cup D \cup E) <= Cardinality(U \cup C \cup D) + Cardinality(E)
    BY <1>7, <2>1, UnionOfFiles
  <2>5. Cardinality(Unscanned) <= Cardinality(U \cup C \cup D \cup E)
    <3>1. U \cup C \cup D \cup E \in SUBSET Files
      BY <1>7, <2>1
    <3> QED BY <1>5, <3>1, FilesAreFinite DEF U
  <2>6. /\ Cardinality(U) \in Nat /\ Cardinality(C) \in Nat /\ Cardinality(D) \in Nat
        /\ Cardinality(E) \in Nat /\ Cardinality(U \cup C) \in Nat
        /\ Cardinality(U \cup C \cup D) \in Nat /\ Cardinality(U \cup C \cup D \cup E) \in Nat
        /\ Cardinality(Unscanned) \in Nat
    <3>1. \A S \in SUBSET Files : Cardinality(S) \in Nat
      BY FilesAreFinite
    <3> QED BY <1>2, <1>7, <2>1, <3>1
  <2> DEFINE u == Cardinality(U)  c == Cardinality(C)  d == Cardinality(D)  e == Cardinality(E)
             x == Cardinality(U \cup C)  y == Cardinality(U \cup C \cup D)
             z == Cardinality(U \cup C \cup D \cup E)  m == Cardinality(Unscanned)
  <2>7. u \in Nat /\ c \in Nat /\ d \in Nat /\ e \in Nat /\ x \in Nat /\ y \in Nat /\ z \in Nat
        /\ m \in Nat /\ x <= u + c /\ y <= x + d /\ z <= y + e /\ m <= z
    BY <2>2, <2>3, <2>4, <2>5, <2>6
  <2> HIDE DEF u, c, d, e, x, y, z, m
  <2>8. m <= u + c + d + e
    BY <2>7
  <2> QED BY <2>8 DEF u, c, d, e, m, U
<1> QED
  BY <1>1, <1>5, <1>8, <1>9 DEF A, B, C, D, E

\* The outcomes are added up: every file that has no report is in a counter.
LEMMA CollectKeeps ==
  ASSUME RunInv, CollectOutcomes
  PROVE  RunInv'
<1> DEFINE A == Count("analyzed")  B == Count("unsupported")
           C == Count("unreadable") D == Count("oversized") E == Count("duration limit")
<1>1. /\ phase = "analyzing" /\ phase' = "history"
      /\ \A g \in Files : outcome[g] \notin {"queued", "begun"}
      /\ UNCHANGED <<disk, changed, scope, late, left, files, stats, primary, outcome>>
  BY DEF CollectOutcomes, ConfigVars, WalkVars
<1>2. diag' = [diag EXCEPT !.analyzed = A, !.unsupported = B, !.unreadable = C,
                           !.oversized = @ + D, !.omitted = @ + E,
                           !.duration = @ \/ E > 0, !.truncated = @ \/ D + E > 0]
  BY DEF CollectOutcomes
<1>3. \A o : Count(o) = Cardinality(With(o))
  BY DEF Count, With
<1>4. /\ A \in Nat /\ B \in Nat /\ C \in Nat /\ D \in Nat /\ E \in Nat
      /\ Cardinality(primary) = A + B + C + D + E
      /\ Cardinality(Unscanned) <= Cardinality(Unwalked) + C + D + E
  <2> HIDE DEF Count
  <2> QED BY <1>1, <1>3, OutcomesPartition
<1>5. Unscanned # {} => Unwalked # {} \/ C > 0 \/ D > 0 \/ E > 0
  <2>1. ASSUME NEW o, With(o) # {} PROVE Cardinality(With(o)) > 0
    <3>1. IsFiniteSet(With(o)) /\ Cardinality(With(o)) \in Nat
      BY FilesAreFinite DEF With
    <3>2. Cardinality(With(o)) # 0
      BY <2>1, <3>1, FS_EmptySet
    <3> QED BY <3>1, <3>2
  <2>2. Unscanned # {} => \/ Unwalked # {} \/ With("unreadable") # {}
                       \/ With("oversized") # {} \/ With("duration limit") # {}
    BY <1>1, OutcomesPartition
  <2> HIDE DEF Count
  <2> QED BY <1>3, <2>1, <2>2
<1> HIDE DEF A, B, C, D, E
<1>6. diag \in ScanCounters
  BY DEF RunInv, CountersOK
<1>7. diag' = [observed |-> diag.observed, errors |-> diag.errors,
               oversized |-> diag.oversized + D, omitted |-> diag.omitted + E,
               incomplete |-> diag.incomplete, truncated |-> diag.truncated \/ D + E > 0,
               duration |-> diag.duration \/ E > 0, analyzed |-> A, unsupported |-> B,
               unreadable |-> C, churnPartial |-> diag.churnPartial]
  BY <1>2, <1>6 DEF ScanCounters
<1>8. /\ diag' \in ScanCounters /\ diag'.observed = diag.observed /\ diag'.errors = diag.errors
      /\ diag'.oversized = diag.oversized + D /\ diag'.omitted = diag.omitted + E
      /\ diag'.incomplete = diag.incomplete
      /\ diag'.truncated = (diag.truncated \/ D + E > 0)
      /\ diag'.analyzed = A /\ diag'.unsupported = B /\ diag'.unreadable = C
  BY <1>4, <1>6, <1>7 DEF ScanCounters
<1>9. CountersOK'
  BY <1>1, <1>8 DEF RunInv, CountersOK
<1>10. Unscanned' = Unscanned
  BY <1>1 DEF Unscanned, Steady
<1>11. /\ ToldBy(diag, Unwalked, 0)
       /\ scope = Files => Observes(diag, Cardinality(primary))
  BY <1>1 DEF RunInv, AnalysisInv
<1>12. Cardinality(Unwalked) \in Nat /\ Cardinality(Unscanned) \in Nat
  BY SetsOfFiles, FilesAreFinite DEF RunInv
<1> DEFINE u == Cardinality(Unwalked)  m == Cardinality(Unscanned)  p == Cardinality(primary)
           n == diag.observed  e == diag.errors  o == diag.oversized  q == diag.omitted
<1>13. n \in Nat /\ e \in Nat /\ o \in Nat /\ q \in Nat
  BY <1>6 DEF ScanCounters
<1>14. ToldBy(diag', Unscanned, diag'.unreadable)
  <2>1. Unscanned # {} => diag'.truncated \/ diag'.errors > 0 \/ diag'.unreadable > 0
    <3>1. Unwalked # {} => diag.truncated \/ diag.errors > 0
      BY <1>11 DEF ToldBy
    <3>2. D > 0 \/ E > 0 => D + E > 0
      BY <1>4
    <3> QED BY <1>5, <1>8, <3>1, <3>2
  <2>2. ~diag'.incomplete => m <= diag'.oversized + diag'.omitted + diag'.errors + diag'.unreadable
    <3>1. m <= u + C + D + E /\ u \in Nat /\ m \in Nat
      BY <1>4, <1>12
    <3>2. ~diag.incomplete => u <= o + q + e + 0
      BY <1>11 DEF ToldBy
    <3> HIDE DEF u, m, o, q, e
    <3>3. ~diag.incomplete => m <= (o + D) + (q + E) + e + C
      BY <1>4, <1>13, <3>1, <3>2
    <3> QED BY <1>8, <3>3 DEF o, q, e
  <2>3. diag'.incomplete => diag'.truncated
    BY <1>8, <1>11 DEF ToldBy
  <2> QED BY <2>1, <2>2, <2>3 DEF ToldBy
<1>15. scope = Files => diag'.observed \in ToldFiles'..(ToldFiles' + diag'.errors)
  <2>1. ToldFiles' = A + B + C + (o + D) + (q + E)
    BY <1>8 DEF ToldFiles
  <2>2. p = A + B + C + D + E
    BY <1>4
  <2>3. scope = Files => p + o + q <= n /\ n <= p + o + q + e
    BY <1>11 DEF Observes
  <2> HIDE DEF p, n, e, o, q
  <2>4. scope = Files =>
          n \in (A + B + C + (o + D) + (q + E))..(A + B + C + (o + D) + (q + E) + e)
    BY <1>4, <1>13, <2>2, <2>3
  <2> QED BY <1>8, <2>1, <2>4 DEF n, e
<1>16. ReportInv'
  BY <1>1, <1>10, <1>14, <1>15 DEF ReportInv
<1> QED
  BY <1>1, <1>9, <1>16 DEF RunInv, WalkInv, AnalysisInv, Phases

\* The stages after the analysis only ever mark the scan.
LEMMA StageKeeps ==
  ASSUME RunInv, AttachChurn \/ FindDuplicates \/ Assemble
  PROVE  RunInv'
<1>1. /\ phase \in {"history", "duplicates", "assembling"}
      /\ phase' \in {"duplicates", "assembling", "done"}
      /\ UNCHANGED <<disk, changed, scope, late, left, files, stats, primary, outcome>>
      /\ \/ diag' = diag \/ diag' = DurationLimit
         \/ diag' = [diag EXCEPT !.churnPartial = TRUE, !.truncated = TRUE]
  BY DEF AttachChurn, FindDuplicates, Assemble, EndStage, ConfigVars, WalkVars
<1>2. diag \in ScanCounters
  BY DEF RunInv, CountersOK
<1>3. /\ diag' \in ScanCounters /\ diag'.observed = diag.observed /\ diag'.errors = diag.errors
      /\ diag'.oversized = diag.oversized /\ diag'.omitted = diag.omitted
      /\ diag'.analyzed = diag.analyzed /\ diag'.unsupported = diag.unsupported
      /\ diag'.unreadable = diag.unreadable /\ diag'.incomplete = diag.incomplete
      /\ diag.truncated => diag'.truncated
  <2>1. CASE diag' = diag
    BY <1>2, <2>1
  <2>2. CASE diag' = DurationLimit
    BY <1>2, <2>2 DEF DurationLimit, ScanCounters
  <2>3. CASE diag' = [diag EXCEPT !.churnPartial = TRUE, !.truncated = TRUE]
    BY <1>2, <2>3 DEF ScanCounters
  <2> QED BY <1>1, <2>1, <2>2, <2>3
<1>4. CountersOK'
  BY <1>1, <1>3 DEF RunInv, CountersOK
<1>5. Unscanned' = Unscanned
  BY <1>1 DEF Unscanned, Steady
<1>6. /\ ToldBy(diag, Unscanned, diag.unreadable)
      /\ scope = Files => diag.observed \in ToldFiles..(ToldFiles + diag.errors)
  BY <1>1 DEF RunInv, ReportInv
<1>7. ToldBy(diag', Unscanned, diag'.unreadable)
  BY <1>3, <1>6 DEF ToldBy
<1>8. ToldFiles' = ToldFiles
  BY <1>3 DEF ToldFiles
<1> QED
  BY <1>1, <1>3, <1>4, <1>5, <1>6, <1>7, <1>8 DEF RunInv, WalkInv, AnalysisInv, ReportInv, Phases

-------------------------------------------------------------------------------
\* prepare_scan starts the walk of the target with empty counters.
LEMMA RunInitially == ScanInit => RunInv
<1> SUFFICES ASSUME ScanInit PROVE RunInv
  OBVIOUS
<1>1. NoStats \in WalkCounters /\ NoDiag \in ScanCounters
  BY DEF NoStats, NoDiag, WalkCounters, ScanCounters
<1>2. CountersOK
  BY <1>1, ScanAssumption DEF ScanInit, CountersOK, Outcomes
<1>3. Passed = {} /\ Cardinality({}) = 0
  BY FS_EmptySet DEF ScanInit, Passed, Steady
<1>4. ToldBy(stats, Passed, 0) /\ Observes(stats, 0)
  <2>1. stats = NoStats /\ files = {}
    BY DEF ScanInit
  <2>2. ToldBy(NoStats, {}, 0) /\ Observes(NoStats, 0)
    BY <1>3 DEF ToldBy, Observes, NoStats
  <2> QED BY <1>3, <2>1, <2>2
<1> QED
  BY <1>2, <1>3, <1>4 DEF RunInv, WalkInv, AnalysisInv, ReportInv, Phases, ScanInit

(***************************************************************************)
(* RunInv holds throughout a scan (collect_files, analyze_files and the    *)
(* stages of scan_inner), whatever files change and whenever the deadline  *)
(* passes.                                                                 *)
(***************************************************************************)
THEOREM RunInductive == ScanSpec => []RunInv
<1>1. RunInv /\ [ScanNext]_scanVars => RunInv'
  <2> SUFFICES ASSUME RunInv, [ScanNext]_scanVars PROVE RunInv'
    OBVIOUS
  <2>1. CASE Edit \/ DeadlinePasses
    BY <2>1, OutsideKeeps
  <2>2. CASE \E f \in Files : \/ VisitNothing(f) \/ VisitBeyond(f)
                             \/ VisitUnknown(f) \/ VisitKnown(f)
    BY <2>2, VisitKeeps
  <2>3. CASE \E f \in Files : BeginFile(f) \/ ReadFile(f)
    BY <2>3, AnalysisKeeps
  <2>4. CASE EndTargetWalk
    BY <2>4, EndTargetKeeps
  <2>5. CASE EndRootWalk
    BY <2>5, EndRootKeeps
  <2>6. CASE CollectOutcomes
    BY <2>6, CollectKeeps
  <2>7. CASE AttachChurn \/ FindDuplicates \/ Assemble
    BY <2>7, StageKeeps
  <2>8. CASE UNCHANGED scanVars
    BY <2>8 DEF scanVars, RunInv, CountersOK, WalkInv, AnalysisInv, ReportInv, ToldBy, Observes,
                Passed, Unwalked, Unscanned, Steady, ToldFiles
  <2> QED BY <2>1, <2>2, <2>3, <2>4, <2>5, <2>6, <2>7, <2>8 DEF ScanNext
<1> QED
  BY <1>1, RunInitially, PTL DEF ScanSpec

(***************************************************************************)
(* When the scan is done, as many files as were left out are in a counter, *)
(* or the count is marked as incomplete; and no scan that left one out is  *)
(* without a mark or an error (walk.rs, file_analysis.rs, scan.rs).        *)
(***************************************************************************)
THEOREM OmissionsAreTold == ScanSpec => []OmissionsDisclosed
<1>1. RunInv => OmissionsDisclosed
  <2> SUFFICES ASSUME RunInv, Done PROVE OmissionsDisclosed
    BY DEF OmissionsDisclosed
  <2>1. ToldBy(diag, Unscanned, diag.unreadable)
    BY DEF RunInv, ReportInv, Done
  <2>2. Unscanned = {f \in (Target \cap scope \cap Supported) \ changed :
                     disk[f] # Gone /\ outcome[f] # "analyzed"}
    BY DEF Unscanned, Steady
  <2> HIDE DEF Unscanned
  <2> QED BY <2>1, <2>2 DEF ToldBy, OmissionsDisclosed
<1> QED
  BY <1>1, RunInductive, PTL

(***************************************************************************)
(* When a scan without a diff scope is done, every file that the walk      *)
(* observed is in exactly one counter of the diagnostics, but for those    *)
(* that the errors of the walk count.                                      *)
(***************************************************************************)
THEOREM FilesAreAccounted == ScanSpec => []FilesAccounted
<1>1. RunInv => FilesAccounted
  BY DEF RunInv, ReportInv, Done, FilesAccounted, ToldFiles
<1> QED
  BY <1>1, RunInductive, PTL

-------------------------------------------------------------------------------
\* The walk counts at most one file more than it may take.
ScanTypes == ScanTypeOK /\ (left # {} => stats.observed <= MaxFiles)

\* A step of the walk keeps the types, and the limit of max_files.
LEMMA TypesOfWalk ==
  ASSUME RunInv, ScanTypes, NEW f \in Files,
         VisitNothing(f) \/ VisitBeyond(f) \/ VisitUnknown(f) \/ VisitKnown(f)
  PROVE  ScanTypes'
<1>1. stats \in WalkCounters /\ stats.observed \in Nat /\ MaxFiles \in Nat
      /\ MaxTotalBytes \in Nat /\ MaxFileBytes \in Nat
  BY ScanAssumption DEF RunInv, CountersOK, WalkCounters
<1>2. /\ UNCHANGED <<disk, changed, edits, late, impact, scope, phase, primary, outcome,
                     bytes, diag, impactFiles>>
      /\ f \in left /\ left' \subseteq left
  BY DEF VisitNothing, VisitBeyond, VisitUnknown, VisitKnown, Visited, ConfigVars, AnalysisVars,
         impactVars
<1>3. files' \subseteq files \cup {f} /\ accepted' \in 0..MaxTotalBytes
  <2>1. accepted \in 0..MaxTotalBytes /\ disk \in [Files -> Sizes \cup {Gone}]
    BY DEF ScanTypes, ScanTypeOK
  <2>2. accepted' = accepted \/ (/\ accepted' = accepted + disk[f] /\ disk[f] # Gone
                                /\ accepted + disk[f] <= MaxTotalBytes)
    BY DEF VisitNothing, VisitBeyond, VisitUnknown, VisitKnown
  <2>3. disk[f] # Gone => disk[f] \in Nat
    BY <2>1, ScanAssumption
  <2>4. accepted' \in 0..MaxTotalBytes
    BY <1>1, <2>1, <2>2, <2>3
  <2>5. files' \subseteq files \cup {f}
    BY DEF VisitNothing, VisitBeyond, VisitUnknown, VisitKnown
  <2> QED BY <2>4, <2>5
<1>4. /\ stats' \in WalkCounters
      /\ \/ stats'.observed = stats.observed
         \/ stats'.observed = stats.observed + 1 /\ stats.observed < MaxFiles
         \/ stats'.observed = stats.observed + 1 /\ left' = {}
  <2>1. stats' \in WalkCounters
    BY VisitKeeps DEF RunInv, CountersOK
  <2>2. Observed \in WalkCounters /\ Observed.observed = stats.observed + 1
    BY <1>1, ObservedCounts
  <2>3. \A o \in WalkCounters :
          /\ [o EXCEPT !.errors = @ + 1].observed = o.observed
          /\ [o EXCEPT !.oversized = @ + 1, !.truncated = TRUE].observed = o.observed
          /\ [o EXCEPT !.omitted = @ + 1, !.truncated = TRUE].observed = o.observed
          /\ [o EXCEPT !.omitted = @ + 1, !.incomplete = TRUE, !.truncated = TRUE].observed
               = o.observed
    BY DEF WalkCounters
  <2>4. CASE VisitNothing(f)
    BY <1>1, <2>1, <2>3, <2>4 DEF VisitNothing, Visited
  <2>5. CASE VisitBeyond(f)
    BY <2>1, <2>2, <2>3, <2>5 DEF VisitBeyond
  <2>6. CASE VisitUnknown(f)
    BY <2>1, <2>2, <2>6 DEF VisitUnknown, Visited
  <2>7. CASE VisitKnown(f)
    BY <2>1, <2>2, <2>3, <2>7 DEF VisitKnown, Visited
  <2> QED BY <2>4, <2>5, <2>6, <2>7
<1>5. /\ stats'.observed \in 0..(MaxFiles + 1)
      /\ left' # {} => stats'.observed <= MaxFiles
  <2>1. stats.observed <= MaxFiles
    BY <1>2 DEF ScanTypes
  <2>2. \/ stats'.observed = stats.observed
        \/ stats'.observed = stats.observed + 1 /\ stats.observed < MaxFiles
        \/ stats'.observed = stats.observed + 1 /\ left' = {}
    BY <1>4
  <2> QED BY <1>1, <2>1, <2>2
<1>6. DOMAIN stats' = DOMAIN NoStats
  BY <1>4 DEF WalkCounters, NoStats
<1>7. left' \subseteq Files /\ files' \subseteq Files
  BY <1>2, <1>3 DEF ScanTypes, ScanTypeOK
<1> QED
  BY <1>2, <1>3, <1>5, <1>6, <1>7 DEF ScanTypes, ScanTypeOK

(***************************************************************************)
(* The type invariant of the scan: among others, what a walk admits stays  *)
(* within max_total_bytes and it observes at most one file beyond          *)
(* max_files.                                                              *)
(***************************************************************************)
THEOREM ScanTypeCorrect == ScanSpec => []ScanTypeOK
<1>1. ScanInit => ScanTypes
  <2> SUFFICES ASSUME ScanInit PROVE ScanTypes
    OBVIOUS
  <2>1. MaxFiles \in Nat /\ MaxTotalBytes \in Nat /\ MaxFileBytes \in Nat /\ MaxEdits \in Nat
    BY ScanAssumption
  <2>2. stats = NoStats /\ diag = NoDiag /\ NoStats.observed = 0
    BY DEF ScanInit, NoStats
  <2>3. /\ disk \in [Files -> Sizes \cup {Gone}] /\ changed \subseteq Files /\ edits = 0
        /\ late \in BOOLEAN /\ impact \in BOOLEAN /\ scope \subseteq Files
        /\ left \subseteq Files /\ files \subseteq Files /\ primary \subseteq Target
        /\ accepted = 0 /\ impactFiles \subseteq Files
    <3>1. Target \subseteq Files
      BY ScanAssumption
    <3>2. scope \subseteq Files
      BY <3>1 DEF ScanInit
    <3>3. late = FALSE /\ impact \in BOOLEAN /\ disk \in [Files -> Sizes \cup {Gone}]
      BY DEF ScanInit
    <3>4. /\ changed = {} /\ edits = 0 /\ left = Target /\ files = {} /\ primary = {}
          /\ accepted = 0 /\ impactFiles = {}
      BY DEF ScanInit
    <3> QED BY <3>1, <3>2, <3>3, <3>4
  <2>4. /\ phase = "walking target" /\ outcome = [f \in Files |-> "none"]
        /\ bytes = [f \in Files |-> 0]
    BY DEF ScanInit
  <2>5. 0 \in 0..MaxEdits /\ 0 \in 0..MaxTotalBytes /\ 0 \in 0..MaxFileBytes
        /\ 0 \in 0..(MaxFiles + 1) /\ 0 <= MaxFiles
    BY <2>1
  <2> QED BY <2>2, <2>3, <2>4, <2>5 DEF ScanTypes, ScanTypeOK
<1>2. RunInv /\ RunInv' /\ ScanTypes /\ [ScanNext]_scanVars => ScanTypes'
  <2> SUFFICES ASSUME RunInv, RunInv', ScanTypes, [ScanNext]_scanVars PROVE ScanTypes'
    OBVIOUS
  <2>1. /\ MaxFiles \in Nat /\ MaxTotalBytes \in Nat /\ MaxFileBytes \in Nat /\ MaxEdits \in Nat
        /\ Target \subseteq Files
    BY ScanAssumption
  <2>2. /\ DOMAIN stats' = DOMAIN NoStats /\ DOMAIN diag' = DOMAIN NoDiag
        /\ outcome' \in [Files -> Outcomes] /\ primary' \subseteq Target /\ scope' \subseteq Files
        /\ phase' \in Phases /\ late' \in BOOLEAN
    <3>1. stats' \in WalkCounters /\ diag' \in ScanCounters
      BY DEF RunInv, CountersOK
    <3> QED BY <3>1 DEF RunInv, CountersOK, WalkCounters, ScanCounters, NoStats, NoDiag
  <2>3. CASE Edit \/ DeadlinePasses
    <3>1. UNCHANGED <<impact, left, files, accepted, stats, bytes, impactFiles>>
      BY <2>3 DEF Edit, DeadlinePasses, ConfigVars, impactVars
    <3>2. disk' \in [Files -> Sizes \cup {Gone}] /\ changed' \subseteq Files
      BY DEF RunInv, CountersOK
    <3>3. edits' \in 0..MaxEdits
      <4>1. edits \in 0..MaxEdits
        BY DEF ScanTypes, ScanTypeOK
      <4>2. edits' = edits \/ (edits < MaxEdits /\ edits' = edits + 1)
        BY <2>3 DEF Edit, DeadlinePasses
      <4> QED BY <2>1, <4>1, <4>2
    <3> QED BY <2>2, <3>1, <3>2, <3>3 DEF ScanTypes, ScanTypeOK, Outcomes, Phases
  <2>4. CASE \E f \in Files : \/ VisitNothing(f) \/ VisitBeyond(f)
                             \/ VisitUnknown(f) \/ VisitKnown(f)
    BY <2>4, TypesOfWalk
  <2>5. CASE \E f \in Files : BeginFile(f) \/ ReadFile(f)
    <3>1. /\ UNCHANGED <<disk, changed, edits, impact, left, files, accepted, stats, impactFiles>>
          /\ bytes' \in [Files -> 0..MaxFileBytes]
      BY <2>1, <2>5 DEF BeginFile, ReadFile, Settle, ConfigVars, WalkVars, impactVars, ScanTypes,
                        ScanTypeOK
    <3> QED BY <2>2, <3>1 DEF ScanTypes, ScanTypeOK, Outcomes, Phases
  <2>6. CASE EndTargetWalk \/ EndRootWalk
    <3>1. /\ UNCHANGED <<disk, changed, edits, impact, bytes>>
          /\ accepted' = 0 /\ files' = {} /\ left' \subseteq Files /\ impactFiles' \subseteq Files
          /\ stats' = NoStats
      BY <2>6 DEF EndTargetWalk, EndRootWalk, ConfigVars, AnalysisVars, impactVars, ScanTypes,
                  ScanTypeOK
    <3>2. stats'.observed = 0
      BY <3>1 DEF NoStats
    <3>3. 0 \in 0..MaxTotalBytes /\ 0 \in 0..(MaxFiles + 1) /\ 0 <= MaxFiles
      BY <2>1
    <3> QED BY <2>2, <3>1, <3>2, <3>3 DEF ScanTypes, ScanTypeOK, Outcomes, Phases
  <2>7. CASE CollectOutcomes \/ AttachChurn \/ FindDuplicates \/ Assemble
    <3>1. UNCHANGED <<disk, changed, edits, impact, left, files, accepted, stats, bytes, impactFiles>>
      BY <2>7 DEF CollectOutcomes, AttachChurn, FindDuplicates, Assemble, EndStage, ConfigVars,
                  WalkVars, impactVars
    <3> QED BY <2>2, <3>1 DEF ScanTypes, ScanTypeOK, Outcomes, Phases
  <2>8. CASE UNCHANGED scanVars
    BY <2>8 DEF scanVars, impactVars, ScanTypes, ScanTypeOK
  <2> QED BY <2>3, <2>4, <2>5, <2>6, <2>7, <2>8 DEF ScanNext
<1>3. ScanTypes => ScanTypeOK
  BY DEF ScanTypes
<1> QED
  BY <1>1, <1>2, <1>3, RunInductive, PTL DEF ScanSpec

-------------------------------------------------------------------------------
\* The sizes in d of the files of S that are known to the scan and not in c.
SizesOf(S, d, c) ==
  [f \in Files |-> IF f \in (S \cap Supported) \ c /\ d[f] # Gone THEN d[f] ELSE 0]

\* The walk admits no more than accepted_bytes, and the workers read what the
\* walk admitted.
BytesInv ==
  /\ phase \in {"walking target", "walking root"} =>
       SumFunction(SizesOf(files, disk, changed)) <= accepted
  /\ phase = "walking target" => primary = {}
  /\ SumFunction(SizesOf(primary, disk, changed)) <= MaxTotalBytes
  /\ \A f \in Files : outcome[f] = "begun" => f \in Supported
  /\ \A f \in Files \ changed : bytes[f] # 0 => f \in primary \cap Supported /\ bytes[f] = disk[f]

LEMMA NoMore ==
  ASSUME NEW a \in Nat, NEW b \in Nat, NEW c \in Nat, a <= b, b <= c
  PROVE  a <= c
OBVIOUS

LEMMA ByteLimits == MaxTotalBytes \in Nat /\ MaxFileBytes \in Nat
BY ScanAssumption

LEMMA TypesOfBytes ==
  ASSUME ScanTypeOK
  PROVE  /\ disk \in [Files -> Sizes \cup {Gone}]
         /\ accepted \in Nat /\ accepted <= MaxTotalBytes /\ MaxTotalBytes \in Nat
         /\ \A f \in Files : bytes[f] \in Nat
<1>1. /\ disk \in [Files -> Sizes \cup {Gone}] /\ accepted \in 0..MaxTotalBytes
      /\ bytes \in [Files -> 0..MaxFileBytes]
  BY DEF ScanTypeOK
<1>2. \A f \in Files : bytes[f] \in 0..MaxFileBytes
  BY <1>1
<1> QED
  BY <1>1, <1>2, ByteLimits

LEMMA WeightTypes ==
  ASSUME NEW d \in [Files -> Sizes \cup {Gone}], NEW c, NEW S
  PROVE  SizesOf(S, d, c) \in [Files -> Nat] /\ SumFunction(SizesOf(S, d, c)) \in Nat
<1>1. \A f \in Files : d[f] # Gone => d[f] \in Nat
  BY ScanAssumption
<1>2. SizesOf(S, d, c) \in [Files -> Nat]
  BY <1>1 DEF SizesOf
<1> QED
  BY <1>2, SumGrows, ScanAssumption

\* What is admitted of fewer files, or when more have changed, is no more.
LEMMA WeightShrinks ==
  ASSUME NEW d \in [Files -> Sizes \cup {Gone}], NEW e \in [Files -> Sizes \cup {Gone}],
         NEW b, NEW c, b \subseteq c, \A f \in Files \ c : e[f] = d[f],
         NEW S, NEW T, T \subseteq S
  PROVE  SumFunction(SizesOf(T, e, c)) <= SumFunction(SizesOf(S, d, b))
<1>1. SizesOf(S, d, b) \in [Files -> Nat] /\ SizesOf(T, e, c) \in [Files -> Nat]
  BY WeightTypes
<1>2. \A f \in Files : d[f] # Gone => d[f] \in Nat
  BY ScanAssumption
<1>3. \A f \in Files : SizesOf(T, e, c)[f] <= SizesOf(S, d, b)[f]
  BY <1>2 DEF SizesOf
<1> QED
  BY <1>1, <1>3, SumGrows, ScanAssumption

\* The file f is admitted.
LEMMA WeightAdds ==
  ASSUME NEW d \in [Files -> Sizes \cup {Gone}], NEW c, NEW S, NEW f \in Files, d[f] \in Nat
  PROVE  SumFunction(SizesOf(S \cup {f}, d, c)) <= SumFunction(SizesOf(S, d, c)) + d[f]
<1>1. SizesOf(S, d, c) \in [Files -> Nat] /\ SizesOf(S \cup {f}, d, c) \in [Files -> Nat]
  BY WeightTypes
<1>2. \A g \in Files : d[g] # Gone => d[g] \in Nat
  BY ScanAssumption
<1>3. \A g \in Files \ {f} : SizesOf(S \cup {f}, d, c)[g] <= SizesOf(S, d, c)[g]
  BY <1>2 DEF SizesOf
<1>4. SizesOf(S \cup {f}, d, c)[f] <= SizesOf(S, d, c)[f] + d[f]
  BY <1>2 DEF SizesOf
<1> QED
  BY <1>1, <1>3, <1>4, SumGrowsBy, ScanAssumption

\* A file that the scan does not know weighs nothing.
LEMMA UnknownIsNothing ==
  ASSUME NEW d, NEW c, NEW S, NEW f, f \notin Supported
  PROVE  SizesOf(S \cup {f}, d, c) = SizesOf(S, d, c)
<1>1. ((S \cup {f}) \cap Supported) \ c = (S \cap Supported) \ c
  OBVIOUS
<1> QED
  BY <1>1 DEF SizesOf

\* The walk goes on.
LEMMA BytesOfWalk ==
  ASSUME ScanTypeOK, BytesInv, NEW f \in Files,
         VisitNothing(f) \/ VisitBeyond(f) \/ VisitUnknown(f) \/ VisitKnown(f)
  PROVE  BytesInv'
<1>1. /\ UNCHANGED <<disk, changed, phase, primary, outcome, bytes>>
      /\ phase \in {"walking target", "walking root"}
  BY DEF VisitNothing, VisitBeyond, VisitUnknown, VisitKnown, Visited, ConfigVars, AnalysisVars,
         Walking
<1>2. \/ files' = files /\ accepted' = accepted
      \/ files' = files \cup {f} /\ accepted' = accepted /\ f \notin Supported
      \/ files' = files \cup {f} /\ accepted' = accepted + disk[f] /\ disk[f] # Gone
  BY DEF VisitNothing, VisitBeyond, VisitUnknown, VisitKnown
<1>3. disk \in [Files -> Sizes \cup {Gone}] /\ accepted \in Nat
  BY TypesOfBytes
<1>4. SumFunction(SizesOf(files', disk, changed)) <= accepted'
  <2>1. SumFunction(SizesOf(files, disk, changed)) <= accepted
    BY <1>1 DEF BytesInv
  <2>2. CASE files' = files /\ accepted' = accepted
    BY <2>1, <2>2
  <2>3. CASE files' = files \cup {f} /\ accepted' = accepted /\ f \notin Supported
    BY <2>1, <2>3, UnknownIsNothing
  <2>4. CASE files' = files \cup {f} /\ accepted' = accepted + disk[f] /\ disk[f] # Gone
    <3>1. disk[f] \in Nat
      BY <1>3, <2>4, ScanAssumption
    <3>2. SumFunction(SizesOf(files \cup {f}, disk, changed))
            <= SumFunction(SizesOf(files, disk, changed)) + disk[f]
      BY <1>3, <3>1, WeightAdds
    <3>3. /\ SumFunction(SizesOf(files \cup {f}, disk, changed)) \in Nat
          /\ SumFunction(SizesOf(files, disk, changed)) \in Nat
      BY <1>3, WeightTypes
    <3> QED BY <1>3, <2>1, <2>4, <3>1, <3>2, <3>3
  <2> QED BY <1>2, <2>2, <2>3, <2>4
<1> QED
  BY <1>1, <1>4 DEF BytesInv

\* The walks end: what the target's has collected in scope is the scan's.
LEMMA BytesAfterWalk ==
  ASSUME ScanTypeOK, BytesInv, EndTargetWalk \/ EndRootWalk
  PROVE  BytesInv'
<1>1. /\ disk \in [Files -> Sizes \cup {Gone}]
      /\ accepted \in Nat /\ MaxTotalBytes \in Nat /\ accepted <= MaxTotalBytes
  BY TypesOfBytes
<1>2. UNCHANGED <<disk, changed, bytes>> /\ files' = {} /\ accepted' = 0
  BY DEF EndTargetWalk, EndRootWalk, ConfigVars, AnalysisVars
<1>3. SumFunction(SizesOf({}, disk, changed)) <= 0
  <2>1. SizesOf({}, disk, changed) \in [Files -> Nat]
    BY <1>1, WeightTypes
  <2>2. \A f \in Files : SizesOf({}, disk, changed)[f] = 0
    BY DEF SizesOf
  <2>3. SumFunction(SizesOf({}, disk, changed)) = 0
    BY <2>1, <2>2, SumOfNothing, ScanAssumption
  <2> QED BY <2>3
<1>4. CASE EndTargetWalk
  <2>1. /\ phase = "walking target" /\ primary' = files \cap scope
        /\ phase' \in {"walking root", "analyzing"}
        /\ \A f \in Files : outcome'[f] \in {"queued", "none"}
    BY <1>4 DEF EndTargetWalk
  <2>2. SumFunction(SizesOf(primary', disk, changed)) <= MaxTotalBytes
    <3>1. SumFunction(SizesOf(files, disk, changed)) <= accepted
      BY <2>1 DEF BytesInv
    <3>2. SumFunction(SizesOf(files \cap scope, disk, changed))
            <= SumFunction(SizesOf(files, disk, changed))
      BY <1>1, WeightShrinks
    <3>3. /\ SumFunction(SizesOf(files \cap scope, disk, changed)) \in Nat
          /\ SumFunction(SizesOf(files, disk, changed)) \in Nat
      BY <1>1, WeightTypes
    <3>4. SumFunction(SizesOf(files \cap scope, disk, changed)) <= accepted
      BY <1>1, <3>1, <3>2, <3>3, NoMore
    <3>5. SumFunction(SizesOf(files \cap scope, disk, changed)) <= MaxTotalBytes
      BY <1>1, <3>3, <3>4, NoMore
    <3> QED BY <2>1, <3>5
  <2>3. \A f \in Files \ changed : bytes[f] = 0
    BY <2>1 DEF BytesInv
  <2> QED BY <1>2, <1>3, <2>1, <2>2, <2>3 DEF BytesInv
<1>5. CASE EndRootWalk
  <2>1. phase' = "analyzing" /\ UNCHANGED <<primary, outcome>>
    BY <1>5 DEF EndRootWalk, AnalysisVars
  <2> QED BY <1>2, <1>3, <2>1 DEF BytesInv
<1> QED
  BY <1>4, <1>5

\* A file changes, or the deadline passes.
LEMMA BytesOutside ==
  ASSUME ScanTypeOK, ScanTypeOK', BytesInv, Edit \/ DeadlinePasses
  PROVE  BytesInv'
<1>1. /\ UNCHANGED <<phase, files, accepted, primary, outcome, bytes>>
      /\ changed \subseteq changed'
      /\ \A f \in Files \ changed' : disk'[f] = disk[f]
  BY DEF Edit, DeadlinePasses, ConfigVars, ScanTypeOK
<1>2. /\ disk \in [Files -> Sizes \cup {Gone}] /\ disk' \in [Files -> Sizes \cup {Gone}]
      /\ accepted \in Nat /\ MaxTotalBytes \in Nat
  <2>1. disk' \in [Files -> Sizes \cup {Gone}]
    BY DEF ScanTypeOK
  <2> QED BY <2>1, TypesOfBytes
<1>3. \A S : /\ SumFunction(SizesOf(S, disk', changed')) <= SumFunction(SizesOf(S, disk, changed))
             /\ SumFunction(SizesOf(S, disk', changed')) \in Nat
             /\ SumFunction(SizesOf(S, disk, changed)) \in Nat
  BY <1>1, <1>2, WeightShrinks, WeightTypes
<1>4. /\ phase' \in {"walking target", "walking root"} =>
           SumFunction(SizesOf(files', disk', changed')) <= accepted'
      /\ SumFunction(SizesOf(primary', disk', changed')) <= MaxTotalBytes
  <2>1. phase \in {"walking target", "walking root"} =>
          SumFunction(SizesOf(files, disk, changed)) <= accepted
    BY DEF BytesInv
  <2>2. SumFunction(SizesOf(primary, disk, changed)) <= MaxTotalBytes
    BY DEF BytesInv
  <2>3. phase \in {"walking target", "walking root"} =>
          SumFunction(SizesOf(files, disk', changed')) <= accepted
    BY <1>2, <1>3, <2>1, NoMore
  <2>4. SumFunction(SizesOf(primary, disk', changed')) <= MaxTotalBytes
    BY <1>2, <1>3, <2>2, NoMore
  <2> QED BY <1>1, <2>3, <2>4
<1> QED
  BY <1>1, <1>4 DEF BytesInv

\* A worker begins a file or reads it.
LEMMA BytesOfWorker ==
  ASSUME RunInv, ScanTypeOK, BytesInv, NEW f \in Files, BeginFile(f) \/ ReadFile(f)
  PROVE  BytesInv'
<1>1. UNCHANGED <<disk, changed, phase, files, accepted, primary>> /\ phase = "analyzing"
  BY DEF BeginFile, ReadFile, Settle, ConfigVars, WalkVars
<1>2. outcome \in [Files -> Outcomes] /\ bytes \in [Files -> 0..MaxFileBytes]
  BY DEF RunInv, CountersOK, ScanTypeOK
<1>3. \A g \in Files : outcome'[g] = "begun" => g \in Supported
  <2>1. CASE BeginFile(f)
    BY <1>2, <2>1 DEF BeginFile, Settle, BytesInv
  <2>2. CASE ReadFile(f)
    BY <1>2, <2>2 DEF ReadFile, Settle, BytesInv
  <2> QED BY <2>1, <2>2
<1>4. bytes' = bytes \/ (/\ bytes' = [bytes EXCEPT ![f] = disk[f]]
                        /\ f \in primary \cap Supported)
  <2>1. outcome[f] = "begun" => f \in primary \cap Supported
    BY <1>1 DEF RunInv, AnalysisInv, BytesInv
  <2> QED BY <2>1 DEF BeginFile, ReadFile
<1>5. \A g \in Files \ changed : bytes'[g] # 0 => g \in primary \cap Supported /\ bytes'[g] = disk[g]
  BY <1>2, <1>4 DEF BytesInv
<1> QED
  BY <1>1, <1>3, <1>5 DEF BytesInv

(***************************************************************************)
(* What was analyzed of unchanged files stays within max_total_bytes,      *)
(* although the walk admits files and the workers read them later.         *)
(***************************************************************************)
THEOREM BytesStayWithinTotal == ScanSpec => []BytesWithinTotal
<1>1. ScanInit => BytesInv
  <2> SUFFICES ASSUME ScanInit PROVE BytesInv
    OBVIOUS
  <2>1. SizesOf({}, disk, changed) \in [Files -> Nat]
    BY WeightTypes DEF ScanInit
  <2>2. \A f \in Files : SizesOf({}, disk, changed)[f] = 0
    BY DEF SizesOf
  <2>3. SumFunction(SizesOf({}, disk, changed)) = 0
    BY <2>1, <2>2, SumOfNothing, ScanAssumption
  <2>4. accepted = 0 /\ files = {} /\ primary = {}
    BY DEF ScanInit
  <2>6. SumFunction(SizesOf({}, disk, changed)) <= MaxTotalBytes
        /\ SumFunction(SizesOf({}, disk, changed)) <= 0
    BY <2>3, ByteLimits
  <2>5. \A f \in Files : outcome[f] # "begun" /\ bytes[f] = 0
    BY DEF ScanInit
  <2> QED BY <2>4, <2>5, <2>6 DEF BytesInv
<1>2. RunInv /\ ScanTypeOK /\ ScanTypeOK' /\ BytesInv /\ [ScanNext]_scanVars => BytesInv'
  <2> SUFFICES ASSUME RunInv, ScanTypeOK, ScanTypeOK', BytesInv, [ScanNext]_scanVars
               PROVE  BytesInv'
    OBVIOUS
  <2>1. CASE Edit \/ DeadlinePasses
    BY <2>1, BytesOutside
  <2>2. CASE \E f \in Files : \/ VisitNothing(f) \/ VisitBeyond(f)
                             \/ VisitUnknown(f) \/ VisitKnown(f)
    BY <2>2, BytesOfWalk
  <2>3. CASE \E f \in Files : BeginFile(f) \/ ReadFile(f)
    BY <2>3, BytesOfWorker
  <2>4. CASE EndTargetWalk \/ EndRootWalk
    BY <2>4, BytesAfterWalk
  <2>5. CASE CollectOutcomes \/ AttachChurn \/ FindDuplicates \/ Assemble
    <3>1. /\ UNCHANGED <<disk, changed, files, accepted, primary, outcome, bytes>>
          /\ phase' \notin {"walking target", "walking root"}
      BY <2>5 DEF CollectOutcomes, AttachChurn, FindDuplicates, Assemble, EndStage, ConfigVars,
                  WalkVars
    <3> QED BY <3>1 DEF BytesInv
  <2>6. CASE UNCHANGED scanVars
    BY <2>6 DEF scanVars, impactVars, BytesInv
  <2> QED BY <2>1, <2>2, <2>3, <2>4, <2>5, <2>6 DEF ScanNext
<1>3. ScanTypeOK /\ BytesInv => BytesWithinTotal
  <2> SUFFICES ASSUME ScanTypeOK, BytesInv PROVE BytesWithinTotal
    OBVIOUS
  <2> DEFINE analyzed == [f \in Files |-> IF f \in changed THEN 0 ELSE bytes[f]]
  <2>1. /\ analyzed \in [Files -> Nat] /\ SizesOf(primary, disk, changed) \in [Files -> Nat]
        /\ SumFunction(SizesOf(primary, disk, changed)) \in Nat /\ MaxTotalBytes \in Nat
    <3>1. SizesOf(primary, disk, changed) \in [Files -> Nat]
          /\ SumFunction(SizesOf(primary, disk, changed)) \in Nat
      BY WeightTypes DEF ScanTypeOK
    <3>2. \A f \in Files : bytes[f] \in Nat
      BY TypesOfBytes
    <3> QED BY <3>1, <3>2, ByteLimits
  <2>2. \A f \in Files : analyzed[f] <= SizesOf(primary, disk, changed)[f]
    <3> SUFFICES ASSUME NEW f \in Files PROVE analyzed[f] <= SizesOf(primary, disk, changed)[f]
      OBVIOUS
    <3>1. SizesOf(primary, disk, changed)[f] \in Nat /\ bytes[f] \in Nat
      BY <2>1, TypesOfBytes
    <3>2. CASE f \in changed \/ bytes[f] = 0
      BY <3>1, <3>2
    <3>3. CASE f \notin changed /\ bytes[f] # 0
      <4>1. f \in primary \cap Supported /\ bytes[f] = disk[f] /\ disk[f] # Gone
        <5>1. f \in primary \cap Supported /\ bytes[f] = disk[f]
          BY <3>3 DEF BytesInv
        <5>2. -1 \notin Nat
          OBVIOUS
        <5> QED BY <3>1, <5>1, <5>2 DEF Gone
      <4> QED BY <3>1, <3>3, <4>1 DEF SizesOf
    <3> QED BY <3>2, <3>3
  <2> HIDE DEF analyzed
  <2>3. SumFunction(analyzed) \in Nat
        /\ SumFunction(analyzed) <= SumFunction(SizesOf(primary, disk, changed))
    BY <2>1, <2>2, SumGrows, ScanAssumption
  <2>4. SumFunction(SizesOf(primary, disk, changed)) <= MaxTotalBytes
    BY DEF BytesInv
  <2>5. SumFunction(analyzed) <= MaxTotalBytes
    BY <2>1, <2>3, <2>4
  <2> QED BY <2>5 DEF analyzed, BytesWithinTotal
<1> QED
  BY <1>1, <1>2, <1>3, RunInductive, ScanTypeCorrect, PTL DEF ScanSpec

(***************************************************************************)
(* Every file of the walk is reported or counted, within the byte limit.   *)
(***************************************************************************)
THEOREM ScansAreAccounted == ScanSpec => []ScanAccounted
BY ScanTypeCorrect, FilesAreAccounted, BytesStayWithinTotal, PTL DEF ScanAccounted

-------------------------------------------------------------------------------
(***************************************************************************)
(* DefinitionPlan.  The order that is built by rank lists its definitions, *)
(* union_cost succeeds exactly for what is apart and is its price, and the *)
(* invariant of the planner's steps.                                       *)
(***************************************************************************)
-------------------------------------------------------------------------------
(***************************************************************************)
(* DefinitionPlan.  The definitions that there are, those of them that may *)
(* be selected at all, and what may be agenda for.                          *)
(***************************************************************************)
Known == UNION {{f} \X DOMAIN inputs[f].definitions : f \in DOMAIN inputs}
Spots == {<<f, n>> : f \in DOMAIN inputs, n \in Nat}

Begins(at) == DefinitionAt(at).span[1]
Beyond(at) == DefinitionAt(at).span[2]
TokensOf(at) == DefinitionAt(at).tokens

Usable ==
  {at \in Known : /\ ~Unavailable(at[1]) /\ inputs[at[1]].encoding = PlanEncoding
                  /\ Begins(at) < Beyond(at) /\ TokensOf(at) # -1}

LEMMA KnownDefinitions ==
  ASSUME inputs \in PlanInputs, NEW at \in Known
  PROVE  /\ at = <<at[1], at[2]>> /\ at[1] \in DOMAIN inputs /\ at[1] \in Nat
         /\ at[2] \in DOMAIN inputs[at[1]].definitions /\ at[2] \in Nat
         /\ DefinitionAt(at).span = <<Begins(at), Beyond(at)>>
         /\ Begins(at) \in Nat /\ Beyond(at) \in Nat
         /\ TokensOf(at) \in Nat \cup {-1}
         /\ DefinitionAt(at).needs \in Seq(Nat \ {0})
<1>1. at = <<at[1], at[2]>> /\ at[1] \in DOMAIN inputs /\ at[2] \in DOMAIN inputs[at[1]].definitions
  BY DEF Known
<1>2. inputs \in Seq(Range(inputs)) /\ WellFormed(inputs[at[1]])
  BY <1>1, PlanInputsAssumption
<1>3. at[1] \in Nat
  BY <1>1, <1>2
<1>4. inputs[at[1]].definitions \in Seq(Range(inputs[at[1]].definitions))
  BY <1>2 DEF WellFormed
<1>5. at[2] \in Nat
  BY <1>1, <1>4
<1>6. DefinitionAt(at) \in Range(inputs[at[1]].definitions)
  BY <1>1 DEF DefinitionAt, Range
<1>7. /\ DefinitionAt(at).span \in Nat \X Nat /\ TokensOf(at) \in Nat \cup {-1}
      /\ DefinitionAt(at).needs \in Seq(Nat \ {0})
  BY <1>2, <1>6 DEF WellFormed, Extent, TokensOf
<1> QED
  BY <1>1, <1>3, <1>5, <1>7 DEF Begins, Beyond

LEMMA UsableDefinitions ==
  ASSUME inputs \in PlanInputs, NEW at \in Usable
  PROVE  /\ at \in Known /\ at = <<at[1], at[2]>> /\ at[1] \in Nat
         /\ DefinitionAt(at).span = <<Begins(at), Beyond(at)>>
         /\ Begins(at) \in Nat /\ Beyond(at) \in Nat /\ Begins(at) < Beyond(at)
         /\ TokensOf(at) \in Nat
<1>1. at \in Known /\ Begins(at) < Beyond(at) /\ TokensOf(at) # -1
  BY DEF Usable
<1> QED
  BY <1>1, KnownDefinitions

LEMMA InsideIs ==
  ASSUME inputs \in PlanInputs, NEW p \in Known, NEW q \in Known
  PROVE  /\ DefinitionAt(p).span = DefinitionAt(q).span <=> Begins(p) = Begins(q) /\ Beyond(p) = Beyond(q)
         /\ Within(DefinitionAt(p).span, DefinitionAt(q).span) <=>
              Begins(q) <= Begins(p) /\ Beyond(p) <= Beyond(q)
         /\ Disjoint(DefinitionAt(p).span, DefinitionAt(q).span) <=>
              Beyond(p) <= Begins(q) \/ Beyond(q) <= Begins(p)
         /\ Inside(p, q) <=> /\ p[1] = q[1] /\ Begins(q) <= Begins(p) /\ Beyond(p) <= Beyond(q)
                             /\ ~(Begins(p) = Begins(q) /\ Beyond(p) = Beyond(q))
<1>1. DefinitionAt(p).span = <<Begins(p), Beyond(p)>> /\ DefinitionAt(q).span = <<Begins(q), Beyond(q)>>
  BY KnownDefinitions
<1> QED
  BY <1>1 DEF Inside, Within, Disjoint

LEMMA KnownIsFinite ==
  ASSUME inputs \in PlanInputs
  PROVE  IsFiniteSet(Known)
<1> DEFINE parts == {{f} \X DOMAIN inputs[f].definitions : f \in DOMAIN inputs}
           part == [f \in DOMAIN inputs |-> {f} \X DOMAIN inputs[f].definitions]
<1>1. inputs \in Seq(Range(inputs)) /\ \A f \in DOMAIN inputs : WellFormed(inputs[f])
  BY PlanInputsAssumption
<1>2. IsFiniteSet(DOMAIN inputs)
  <2>1. DOMAIN inputs = 1..Len(inputs) /\ Len(inputs) \in Nat
    BY <1>1
  <2> QED BY <2>1, FS_Interval
<1>3. IsFiniteSet(parts)
  <2>1. part \in Surjection(DOMAIN inputs, parts)
    BY DEF Surjection
  <2> HIDE DEF part, parts
  <2> QED BY <1>2, <2>1, FS_Surjection
<1>4. ASSUME NEW f \in DOMAIN inputs PROVE IsFiniteSet({f} \X DOMAIN inputs[f].definitions)
  <2>1. inputs[f].definitions \in Seq(Range(inputs[f].definitions))
    BY <1>1 DEF WellFormed
  <2>2. DOMAIN inputs[f].definitions = 1..Len(inputs[f].definitions) /\ Len(inputs[f].definitions) \in Nat
    BY <2>1
  <2>3. IsFiniteSet(DOMAIN inputs[f].definitions)
    BY <2>2, FS_Interval
  <2> QED BY <2>3, FS_Singleton, FS_Product
<1>5. \A part_ \in parts : IsFiniteSet(part_)
  BY <1>4
<1> HIDE DEF parts
<1>6. IsFiniteSet(UNION parts)
  BY <1>3, <1>5, FS_UNION
<1> QED
  BY <1>6 DEF Known, parts

Earlier(ats) == {p \in ats \X ats : BySpan(p[1], p[2])}

LEMMA InOrderLists ==
  ASSUME inputs \in PlanInputs, NEW ats \in SUBSET Known
  PROVE  Listing(Earlier(ats), ats, InOrder(ats))
<1>1. IsFiniteSet(ats)
  BY KnownIsFinite, FS_Subset
<1>2. TotalOrder(Earlier(ats), ats)
  <2>1. \A p \in ats : /\ p = <<p[1], p[2]>> /\ p[1] \in Nat /\ p[2] \in Nat
                       /\ DefinitionAt(p).span = <<Begins(p), Beyond(p)>>
                       /\ Begins(p) \in Nat /\ Beyond(p) \in Nat
    BY KnownDefinitions
  <2>2. \A p, q \in ats : BySpan(p, q) <=>
           \/ p[1] < q[1]
           \/ p[1] = q[1] /\ Begins(p) < Begins(q)
           \/ p[1] = q[1] /\ Begins(p) = Begins(q) /\ Beyond(p) > Beyond(q)
           \/ p[1] = q[1] /\ Begins(p) = Begins(q) /\ Beyond(p) = Beyond(q) /\ p[2] < q[2]
    <3>1. \A p, q \in ats : DefinitionAt(p).span = DefinitionAt(q).span <=>
                              Begins(p) = Begins(q) /\ Beyond(p) = Beyond(q)
      BY <2>1
    <3> QED BY <3>1 DEF BySpan, Begins, Beyond
  <2>3. \A p \in ats : ~BySpan(p, p)
    BY <2>1, <2>2
  <2>4. ASSUME NEW p \in ats, NEW q \in ats, NEW r \in ats, BySpan(p, q), BySpan(q, r)
        PROVE  BySpan(p, r)
    BY <2>1, <2>2, <2>4
  <2>5. ASSUME NEW p \in ats, NEW q \in ats, p # q PROVE BySpan(p, q) \/ BySpan(q, p)
    <3>1. p[1] # q[1] \/ p[2] # q[2]
      BY <2>1, <2>5
    <3> QED BY <2>1, <2>2, <3>1
  <2> QED BY <2>3, <2>4, <2>5 DEF TotalOrder, Earlier
<1>3. Earlier(ats) \in SUBSET (ats \X ats)
  BY DEF Earlier
<1>4. PICK s : Listing(Earlier(ats), ats, s)
  BY <1>1, <1>2, <1>3, ListingExists
<1>5. \A p \in ats : {q \in ats : BySpan(q, p)} = Below(Earlier(ats), ats, p)
  BY DEF Below, Earlier
<1>6. ASSUME NEW i \in 1..Cardinality(ats)
      PROVE  (CHOOSE p \in ats : Cardinality({q \in ats : BySpan(q, p)}) = i - 1) = s[i]
  <2>1. s[i] \in ats /\ Cardinality({q \in ats : BySpan(q, s[i])}) = i - 1
    BY <1>4, <1>5 DEF Listing
  <2>2. \A p \in ats : Cardinality({q \in ats : BySpan(q, p)}) = i - 1 => p = s[i]
    BY <1>4, <1>5, <2>1 DEF Listing
  <2> QED BY <2>1, <2>2
<1>7. InOrder(ats) = s
  BY <1>4, <1>6 DEF InOrder, Listing
<1> QED
  BY <1>4, <1>7

(***************************************************************************)
(* What union_cost has found for a set of definitions when each comes      *)
(* before all that are still to come: an error where they are not apart,   *)
(* otherwise their price, and the outermost one that reaches furthest.     *)
(***************************************************************************)
CostErrors == {"inconsistent-span-cost", "crossing-source-spans"}

Paid(s, cost) ==
  /\ cost.error \in CostErrors \cup {Missing}
  /\ cost.error = Missing <=> Apart(s)
  /\ cost.error = Missing =>
       /\ cost.total = Price(s)
       /\ s = {} => cost.outer = {}
       /\ s # {} => \E o \in Outermost(s) :
            cost.outer = {o} /\ \A p \in s : p[1] <= o[1] /\ (p[1] = o[1] => Beyond(p) <= Beyond(o))

LEMMA PriceOfNothing == Price({}) = 0
<1> DEFINE w == [piece \in {} |-> piece[3]]
<1>1. w \in [{} -> Nat] /\ \A y \in {} : w[y] = 0
  OBVIOUS
<1>2. IsFiniteSet({})
  BY FS_EmptySet
<1>3. Price({}) = SumFunction(w)
  BY DEF Price, PaidPieces, Outermost
<1> HIDE DEF w
<1> QED
  BY <1>1, <1>2, <1>3, SumOfNothing

LEMMA PriceGrows ==
  ASSUME inputs \in PlanInputs, NEW s \in SUBSET Usable, NEW at \in Usable,
         Outermost(s \cup {at}) = Outermost(s) \cup {at}, PieceOf(at) \notin PaidPieces(s)
  PROVE  Price(s \cup {at}) = Price(s) + TokensOf(at)
<1> DEFINE pieces == PaidPieces(s \cup {at})
           w == [piece \in pieces |-> piece[3]]
           new == PieceOf(at)
<1>1. IsFiniteSet(pieces)
  <2> DEFINE all == Outermost(s \cup {at})
             piece == [p \in all |-> PieceOf(p)]
  <2>1. IsFiniteSet(all)
    <3>1. all \subseteq Known
      BY DEF Outermost, Usable
    <3> QED BY <3>1, KnownIsFinite, FS_Subset
  <2>2. piece \in Surjection(all, pieces)
    BY DEF Surjection, PaidPieces
  <2> HIDE DEF piece, pieces, all
  <2> QED BY <2>1, <2>2, FS_Surjection
<1>2. pieces = PaidPieces(s) \cup {new} /\ new \in pieces /\ pieces \ {new} = PaidPieces(s)
  BY DEF PaidPieces
<1>3. w \in [pieces -> Int]
  <2> SUFFICES ASSUME NEW piece \in pieces PROVE piece[3] \in Int
    OBVIOUS
  <2>1. PICK p \in Outermost(s \cup {at}) : piece = PieceOf(p)
    BY DEF PaidPieces
  <2>2. p \in Usable
    BY <2>1 DEF Outermost
  <2>3. TokensOf(p) \in Nat
    BY <2>2, UsableDefinitions
  <2>4. piece[3] = TokensOf(p)
    BY <2>1 DEF PieceOf, TokensOf
  <2> QED BY <2>3, <2>4
<1>4. w[new] = TokensOf(at)
  BY <1>2 DEF PieceOf, TokensOf
<1>5. [y \in pieces \ {new} |-> w[y]] = [piece \in PaidPieces(s) |-> piece[3]]
  BY <1>2
<1>6. SumFunction(w) = SumFunction([y \in pieces \ {new} |-> w[y]]) + w[new]
  <2> HIDE DEF w, pieces, new
  <2> QED BY <1>1, <1>2, <1>3, SumWithout
<1> QED
  BY <1>4, <1>5, <1>6 DEF Price

LEMMA OutermostGrows ==
  ASSUME inputs \in PlanInputs, NEW s \in SUBSET Usable, NEW at \in Usable,
         \A p \in s : BySpan(p, at)
  PROVE  /\ \A p \in s : /\ p[1] <= at[1]
                         /\ p[1] = at[1] => Begins(p) <= Begins(at) /\ ~Inside(p, at)
         /\ (\E q \in s : Inside(at, q)) => Outermost(s \cup {at}) = Outermost(s)
         /\ (~\E q \in s : Inside(at, q)) => Outermost(s \cup {at}) = Outermost(s) \cup {at}
<1>1. ASSUME NEW p \in s
      PROVE  p[1] <= at[1] /\ (p[1] = at[1] => Begins(p) <= Begins(at) /\ ~Inside(p, at))
  <2>1. /\ p \in Known /\ p[1] \in Nat /\ Begins(p) \in Nat /\ Beyond(p) \in Nat
        /\ at \in Known /\ at[1] \in Nat /\ Begins(at) \in Nat /\ Beyond(at) \in Nat
    BY UsableDefinitions
  <2>2. \/ p[1] < at[1]
        \/ p[1] = at[1] /\ Begins(p) < Begins(at)
        \/ p[1] = at[1] /\ Begins(p) = Begins(at) /\ Beyond(p) > Beyond(at)
        \/ p[1] = at[1] /\ DefinitionAt(p).span = DefinitionAt(at).span
    BY DEF BySpan, Begins, Beyond
  <2>3. DefinitionAt(p).span = DefinitionAt(at).span => Begins(p) = Begins(at) /\ Beyond(p) = Beyond(at)
    BY <2>1, InsideIs
  <2>4. Inside(p, at) => /\ Begins(at) <= Begins(p) /\ Beyond(p) <= Beyond(at)
                         /\ ~(Begins(p) = Begins(at) /\ Beyond(p) = Beyond(at))
    BY <2>1, InsideIs
  <2> QED BY <2>1, <2>2, <2>3, <2>4
<1>2. \A p \in s : ~Inside(p, at)
  BY <1>1 DEF Inside
<1>3. ~Inside(at, at)
  BY DEF Inside
<1> QED
  BY <1>1, <1>2, <1>3 DEF Outermost

LEMMA NextPaid ==
  ASSUME inputs \in PlanInputs, NEW s \in SUBSET Usable, NEW at \in Usable,
         \A p \in s : BySpan(p, at), NEW cost, Paid(s, cost)
  PROVE  Paid(s \cup {at}, Pay(cost, at))
<1> DEFINE more == s \cup {at}
           new == DefinitionAt(at)
           around == {o \in cost.outer : o[1] = at[1]}
           covers == \E o \in around : Within(new.span, DefinitionAt(o).span)
           differs == \E o \in around : DefinitionAt(o).span = new.span /\ DefinitionAt(o).tokens # new.tokens
           crosses == \E o \in around : DefinitionAt(o).span[2] > new.span[1]
<1>0. Pay(cost, at) =
        IF cost.error # Missing THEN cost
        ELSE IF covers THEN IF differs THEN [NoCost EXCEPT !.error = "inconsistent-span-cost"] ELSE cost
        ELSE IF crosses THEN [NoCost EXCEPT !.error = "crossing-source-spans"]
        ELSE PaidFor(cost, at)
  BY DEF Pay
<1>1. /\ \A p \in s : /\ p[1] <= at[1]
                      /\ p[1] = at[1] => Begins(p) <= Begins(at) /\ ~Inside(p, at)
      /\ (\E q \in s : Inside(at, q)) => Outermost(more) = Outermost(s)
      /\ (~\E q \in s : Inside(at, q)) => Outermost(more) = Outermost(s) \cup {at}
  BY OutermostGrows
<1>2. \A p \in more : /\ p \in Known /\ p[1] \in Nat
                      /\ Begins(p) \in Nat /\ Beyond(p) \in Nat /\ Begins(p) < Beyond(p)
  BY UsableDefinitions
<1>3. \A p, q \in more :
        /\ DefinitionAt(p).span = DefinitionAt(q).span <=> Begins(p) = Begins(q) /\ Beyond(p) = Beyond(q)
        /\ Within(DefinitionAt(p).span, DefinitionAt(q).span) <=>
             Begins(q) <= Begins(p) /\ Beyond(p) <= Beyond(q)
        /\ Disjoint(DefinitionAt(p).span, DefinitionAt(q).span) <=>
             Beyond(p) <= Begins(q) \/ Beyond(q) <= Begins(p)
        /\ Inside(p, q) <=> /\ p[1] = q[1] /\ Begins(q) <= Begins(p) /\ Beyond(p) <= Beyond(q)
                            /\ ~(Begins(p) = Begins(q) /\ Beyond(p) = Beyond(q))
  BY <1>2, InsideIs
<1>4. Outermost(s) \subseteq s /\ Outermost(s) \subseteq Outermost(more) /\ Outermost(more) \subseteq more
  BY <1>1 DEF Outermost
<1>5. /\ \A error \in CostErrors : error # Missing /\ [NoCost EXCEPT !.error = error].error = error
      /\ "inconsistent-span-cost" \in CostErrors /\ "crossing-source-spans" \in CostErrors
  BY DEF CostErrors, Missing, NoCost
<1> HIDE DEF more, around, covers, differs, crosses
\* An error once found stays.
<1>6. CASE cost.error # Missing
  <2>1. Pay(cost, at) = cost /\ ~Apart(s)
    BY <1>0, <1>6 DEF Paid
  <2>2. ~Apart(more)
    BY <1>4, <2>1 DEF Apart
  <2> QED BY <1>6, <2>1, <2>2 DEF Paid, more
<1>7. CASE cost.error = Missing
  <2>1. /\ Apart(s) /\ cost.total = Price(s)
        /\ s = {} => cost.outer = {}
        /\ s # {} => \E o \in Outermost(s) :
             cost.outer = {o} /\ \A p \in s : p[1] <= o[1] /\ (p[1] = o[1] => Beyond(p) <= Beyond(o))
    BY <1>7 DEF Paid
  \* The last outermost definition o, where it is of the file of at.
  <2>2. ASSUME NEW o \in around
        PROVE  /\ o \in Outermost(s) /\ o \in s /\ o[1] = at[1] /\ around = {o}
               /\ \A p \in s : p[1] = at[1] => Beyond(p) <= Beyond(o)
               /\ Begins(o) <= Begins(at)
               /\ \A p \in s : p[1] <= o[1]
    <3>1. o \in cost.outer /\ o[1] = at[1] /\ s # {}
      BY <2>1, <2>2 DEF around
    <3>2. PICK q \in Outermost(s) :
            cost.outer = {q} /\ \A p \in s : p[1] <= q[1] /\ (p[1] = q[1] => Beyond(p) <= Beyond(q))
      BY <2>1, <3>1
    <3>3. q = o /\ around = {o}
      BY <3>1, <3>2 DEF around
    <3> QED BY <1>1, <1>4, <3>1, <3>2, <3>3
  <2>3. CASE covers
    <3>1. PICK o \in around : Begins(o) <= Begins(at) /\ Beyond(at) <= Beyond(o)
      <4>1. PICK q \in around : Within(new.span, DefinitionAt(q).span)
        BY <2>3 DEF covers
      <4> QED BY <1>3, <2>2, <4>1 DEF more
    <3>2. /\ o \in Outermost(s) /\ o \in s /\ o[1] = at[1] /\ around = {o}
          /\ \A p \in s : p[1] <= o[1] /\ (p[1] = o[1] => Beyond(p) <= Beyond(o))
          /\ o \in more /\ at \in more
      BY <2>2, <3>1 DEF more
    <3>3. cost.outer = {o}
      BY <2>1, <3>2 DEF around
    <3>4. differs <=> DefinitionAt(o).span = new.span /\ TokensOf(o) # TokensOf(at)
      BY <3>2 DEF differs, TokensOf
    <3>5. CASE DefinitionAt(o).span # new.span
      <4>1. Inside(at, o)
        BY <1>3, <3>1, <3>2, <3>5
      <4>2. Outermost(more) = Outermost(s)
        BY <1>1, <3>2, <4>1
      <4>3. Apart(more) /\ Price(more) = Price(s)
        BY <2>1, <4>2 DEF Apart, Price, PaidPieces
      <4>4. Pay(cost, at) = cost
        BY <1>0, <1>7, <2>3, <3>4, <3>5
      <4>5. more # {} /\ \A p \in more : p[1] <= o[1] /\ (p[1] = o[1] => Beyond(p) <= Beyond(o))
        BY <1>2, <3>1, <3>2 DEF more
      <4> QED BY <1>7, <2>1, <3>2, <3>3, <4>2, <4>3, <4>4, <4>5 DEF Paid, more
    <3>6. CASE DefinitionAt(o).span = new.span
      <4>1. ~\E q \in s : Inside(at, q)
        <5>1. \A q \in s : ~Inside(o, q)
          BY <3>2 DEF Outermost
        <5> QED BY <3>2, <3>6, <5>1 DEF Inside
      <4>2. Outermost(more) = Outermost(s) \cup {at} /\ at \in Outermost(more) /\ o \in Outermost(more)
        BY <1>1, <3>2, <4>1
      <4>3. CASE TokensOf(o) # TokensOf(at)
        <5>1. Pay(cost, at) = [NoCost EXCEPT !.error = "inconsistent-span-cost"]
          BY <1>0, <1>7, <2>3, <3>4, <3>6, <4>3
        <5>2. ~Disjoint(DefinitionAt(o).span, DefinitionAt(at).span)
          BY <1>2, <1>3, <3>2, <3>6
        <5>3. ~Apart(more)
          BY <3>2, <4>2, <4>3, <5>2 DEF Apart, TokensOf
        <5> QED BY <1>5, <5>1, <5>3 DEF Paid, more
      <4>4. CASE TokensOf(o) = TokensOf(at)
        <5>1. Pay(cost, at) = cost
          BY <1>0, <1>7, <2>3, <3>4, <4>4
        <5>2. PieceOf(at) = PieceOf(o)
          BY <3>2, <3>6, <4>4 DEF PieceOf, TokensOf
        <5>3. PaidPieces(more) = PaidPieces(s)
          BY <3>2, <4>2, <5>2 DEF PaidPieces
        <5>4. Price(more) = Price(s)
          BY <5>3 DEF Price
        <5>5. Apart(more)
          <6> DEFINE Fine(p, q) ==
                       \/ p[1] # q[1] \/ Disjoint(DefinitionAt(p).span, DefinitionAt(q).span)
                       \/ DefinitionAt(p).span = DefinitionAt(q).span /\ DefinitionAt(p).tokens = DefinitionAt(q).tokens
          <6>1. \A p, q \in Outermost(s) : Fine(p, q)
            BY <2>1 DEF Apart
          <6>2. \A p \in Outermost(s) : Fine(p, at) /\ Fine(at, p)
            <7>1. \A p \in Outermost(s) : Fine(p, o) /\ Fine(o, p)
              BY <3>2, <6>1
            <7> QED BY <3>2, <3>6, <4>4, <7>1 DEF TokensOf
          <6>3. Fine(at, at)
            OBVIOUS
          <6> QED BY <4>2, <6>1, <6>2, <6>3 DEF Apart
        <5>6. more # {} /\ \A p \in more : p[1] <= o[1] /\ (p[1] = o[1] => Beyond(p) <= Beyond(o))
          BY <1>2, <3>1, <3>2 DEF more
        <5> QED BY <1>7, <3>3, <4>2, <5>1, <5>4, <5>5, <5>6 DEF Paid, more
      <4> QED BY <4>3, <4>4
    <3> QED BY <3>5, <3>6
  <2>4. CASE ~covers /\ crosses
    <3>1. PICK o \in around : Beyond(o) > Begins(at)
      BY <2>4 DEF crosses, Begins, Beyond
    <3>2. /\ o \in Outermost(s) /\ o \in s /\ o[1] = at[1] /\ Begins(o) <= Begins(at)
          /\ \A p \in s : p[1] = at[1] => Beyond(p) <= Beyond(o)
          /\ o \in more /\ at \in more
      BY <2>2, <3>1 DEF more
    <3>3. ~(Beyond(at) <= Beyond(o))
      BY <1>3, <2>4, <3>1, <3>2 DEF covers
    <3>4. ~\E q \in s : Inside(at, q)
      <4> SUFFICES ASSUME NEW q \in s, Inside(at, q) PROVE FALSE
        OBVIOUS
      <4>1. q \in more /\ q[1] = at[1] /\ Beyond(at) <= Beyond(q)
        BY <1>3, <3>2 DEF more
      <4>2. Beyond(q) <= Beyond(o)
        BY <3>2, <4>1
      <4> QED BY <1>2, <3>2, <3>3, <4>1, <4>2
    <3>5. at \in Outermost(more) /\ o \in Outermost(more)
      BY <1>1, <3>2, <3>4
    <3>6. /\ ~Disjoint(DefinitionAt(o).span, DefinitionAt(at).span)
          /\ DefinitionAt(o).span # DefinitionAt(at).span
      BY <1>2, <1>3, <3>1, <3>2, <3>3
    <3>7. ~Apart(more)
      BY <3>2, <3>5, <3>6 DEF Apart
    <3>8. Pay(cost, at) = [NoCost EXCEPT !.error = "crossing-source-spans"]
      BY <1>0, <1>7, <2>4
    <3> QED BY <1>5, <3>7, <3>8 DEF Paid, more
  <2>5. CASE ~covers /\ ~crosses
    <3>1. Pay(cost, at) = [total |-> cost.total + TokensOf(at), outer |-> {at}, error |-> Missing]
      BY <1>0, <1>7, <2>5 DEF PaidFor, TokensOf
    <3>2. ASSUME NEW p \in s, p[1] = at[1] PROVE Beyond(p) <= Begins(at)
      <4>1. PICK o \in Outermost(s) :
              cost.outer = {o} /\ \A q \in s : q[1] <= o[1] /\ (q[1] = o[1] => Beyond(q) <= Beyond(o))
        BY <2>1
      <4>2. o \in s /\ o[1] = at[1]
        <5>1. o \in s /\ at[1] <= o[1] /\ o[1] <= at[1] /\ o \in more /\ at \in more
          BY <1>1, <1>4, <3>2, <4>1 DEF more
        <5> QED BY <1>2, <5>1
      <4>3. o \in around /\ ~(Beyond(o) > Begins(at))
        BY <2>5, <4>1, <4>2 DEF around, crosses, Begins, Beyond
      <4>4. Beyond(p) <= Beyond(o) /\ o \in more /\ p \in more /\ at \in more
        BY <3>2, <4>1, <4>2 DEF more
      <4> QED BY <1>2, <4>3, <4>4
    <3>3. \A p \in s : p \in more /\ at \in more /\
            (p[1] = at[1] => /\ ~Inside(at, p) /\ DefinitionAt(p).span # DefinitionAt(at).span
                             /\ Disjoint(DefinitionAt(p).span, DefinitionAt(at).span)
                             /\ Disjoint(DefinitionAt(at).span, DefinitionAt(p).span))
      <4> SUFFICES ASSUME NEW p \in s, p[1] = at[1]
                   PROVE  /\ ~Inside(at, p) /\ DefinitionAt(p).span # DefinitionAt(at).span
                          /\ Disjoint(DefinitionAt(p).span, DefinitionAt(at).span)
                          /\ Disjoint(DefinitionAt(at).span, DefinitionAt(p).span)
        BY DEF more
      <4>1. Beyond(p) <= Begins(at) /\ p \in more /\ at \in more
        BY <3>2 DEF more
      <4>2. Begins(p) < Beyond(p) /\ Begins(at) < Beyond(at) /\ Begins(p) \in Nat /\ Beyond(p) \in Nat
            /\ Begins(at) \in Nat /\ Beyond(at) \in Nat
        BY <1>2, <4>1
      <4> QED BY <1>3, <4>1, <4>2
    <3>4. ~\E q \in s : Inside(at, q)
      BY <3>3 DEF Inside
    <3>5. Outermost(more) = Outermost(s) \cup {at}
      BY <1>1, <3>4
    <3>6. PieceOf(at) \notin PaidPieces(s)
      <4> SUFFICES ASSUME NEW p \in Outermost(s), PieceOf(at) = PieceOf(p) PROVE FALSE
        BY DEF PaidPieces
      <4>1. p[1] = at[1] /\ DefinitionAt(p).span = DefinitionAt(at).span
        BY DEF PieceOf
      <4> QED BY <1>4, <3>3, <4>1
    <3>7. Price(more) = Price(s) + TokensOf(at)
      BY <3>5, <3>6, PriceGrows DEF more
    <3>8. Apart(more)
      <4>1. \A p \in Outermost(s) : p \in s
        BY <1>4
      <4> QED BY <2>1, <3>3, <3>5, <4>1 DEF Apart
    <3>9. at \in Outermost(more) /\ \A p \in more : p[1] <= at[1] /\ (p[1] = at[1] => Beyond(p) <= Beyond(at))
      <4>1. \A p \in s : p[1] <= at[1] /\ (p[1] = at[1] => Beyond(p) <= Beyond(at))
        <5> SUFFICES ASSUME NEW p \in s PROVE p[1] <= at[1] /\ (p[1] = at[1] => Beyond(p) <= Beyond(at))
          OBVIOUS
        <5>1. p \in more /\ at \in more
          BY DEF more
        <5> QED BY <1>1, <1>2, <3>2, <5>1
      <4>2. \A p \in more : p \in s \/ p = at
        BY DEF more
      <4>3. at \in more /\ at[1] <= at[1] /\ Beyond(at) <= Beyond(at)
        <5>1. at \in more
          BY DEF more
        <5> QED BY <1>2, <5>1
      <4> QED BY <3>5, <4>1, <4>2, <4>3
    <3>10. more # {}
      BY DEF more
    <3> DEFINE paid == [total |-> cost.total + TokensOf(at), outer |-> {at}, error |-> Missing]
    <3>11. paid.error = Missing /\ paid.outer = {at} /\ paid.total = Price(more)
      BY <2>1, <3>7
    <3> HIDE DEF paid
    <3>12. Paid(more, paid)
      BY <3>8, <3>9, <3>10, <3>11 DEF Paid
    <3> QED BY <3>1, <3>12 DEF more, paid
  <2> QED BY <2>3, <2>4, <2>5
<1> QED
  BY <1>6, <1>7

\* The first m definitions of a sequence.
FirstOf(s, m) == {s[j] : j \in 1..m}

\* union_cost succeeds where the outermost definitions are apart, with their price.
LEMMA UnionCostIs ==
  ASSUME inputs \in PlanInputs, NEW ats \in SUBSET Usable
  PROVE  /\ UnionCost(ats).error \in CostErrors \cup {Missing}
         /\ UnionCost(ats).error = Missing <=> Apart(ats)
         /\ Apart(ats) => UnionCost(ats).total = Price(ats)
<1> DEFINE n == Cardinality(ats)
           s == InOrder(ats)
           G(it) == [m \in 0..n |-> IF m = 0 THEN NoCost ELSE Pay(it[m - 1], s[m])]
           cost == CHOOSE it : it = G(it)
           Costs == [total : Int, outer : SUBSET Known, error : CostErrors \cup {Missing}]
           F == [i \in 1..n |-> [c \in Costs |-> Pay(c, s[i])]]
<1>0. ats \in SUBSET Known
  BY DEF Usable
<1>1. n \in Nat
  BY <1>0, KnownIsFinite, FS_Subset, FS_CardinalityType
<1>2. /\ s \in [1..n -> ats] /\ \A x \in ats : \E i \in 1..n : s[i] = x
      /\ \A i, j \in 1..n : i < j => BySpan(s[i], s[j])
  <2>1. Listing(Earlier(ats), ats, s)
    BY <1>0, InOrderLists
  <2> QED BY <2>1 DEF Listing, Earlier
<1>3. UnionCost(ats) = cost[n]
  BY DEF UnionCost
<1> HIDE DEF n, s
<1>4. \A i \in 1..n : s[i] \in ats /\ s[i] \in Known /\ s[i] \in Usable /\ TokensOf(s[i]) \in Nat
  <2>1. \A i \in 1..n : s[i] \in Usable
    BY <1>2
  <2> QED BY <1>0, <1>2, <2>1, UsableDefinitions
<1>5. NoCost \in Costs
  BY DEF NoCost
<1>6. ASSUME NEW i \in 1..n, NEW c \in Costs PROVE Pay(c, s[i]) \in Costs
  <2>1. PaidFor(c, s[i]) \in Costs
    BY <1>4 DEF PaidFor, TokensOf
  <2>2. \A error \in CostErrors : [NoCost EXCEPT !.error = error] \in Costs
    BY DEF NoCost
  <2>3. \/ Pay(c, s[i]) = c \/ Pay(c, s[i]) = PaidFor(c, s[i])
        \/ Pay(c, s[i]) = [NoCost EXCEPT !.error = "inconsistent-span-cost"]
        \/ Pay(c, s[i]) = [NoCost EXCEPT !.error = "crossing-source-spans"]
    BY DEF Pay
  <2>4. "inconsistent-span-cost" \in CostErrors /\ "crossing-source-spans" \in CostErrors
    BY DEF CostErrors
  <2> HIDE DEF Costs
  <2> QED BY <2>1, <2>2, <2>3, <2>4
<1>7. PICK f : Recursion(n, Costs, NoCost, F, f)
  <2>1. F \in [1..n -> [Costs -> Costs]]
    BY <1>6
  <2> HIDE DEF F, Costs
  <2> QED BY <1>1, <1>5, <2>1, RecursionExists
<1>8. f = G(f)
  <2>1. f \in [0..n -> Costs] /\ f[0] = NoCost /\ \A i \in 1..n : f[i] = F[i][f[i - 1]]
    BY <1>7 DEF Recursion
  <2>2. ASSUME NEW i \in 0..n, i # 0 PROVE f[i] = Pay(f[i - 1], s[i])
    <3>1. i \in 1..n /\ i - 1 \in 0..n
      BY <1>1, <2>2
    <3>2. f[i - 1] \in Costs
      BY <2>1, <3>1
    <3> QED BY <2>1, <3>1, <3>2
  <2> HIDE DEF Costs, F
  <2> QED BY <2>1, <2>2
<1>9. cost = G(cost)
  BY <1>8
<1> HIDE DEF cost
<1>10. cost[0] = NoCost /\ \A m \in 1..n : cost[m] = Pay(cost[m - 1], s[m])
  <2>1. 0 \in 0..n /\ \A m \in 1..n : m \in 0..n /\ m # 0
    BY <1>1
  <2> QED BY <1>9, <2>1
<1> DEFINE Good == {m \in 0..n : Paid(FirstOf(s, m), cost[m])}
<1>11. 0 \in Good
  <2>1. FirstOf(s, 0) = {} /\ Outermost({}) = {} /\ PaidPieces({}) = {} /\ Apart({})
    BY DEF FirstOf, Outermost, PaidPieces, Apart
  <2>2. Price({}) = 0
    BY PriceOfNothing
  <2>3. Paid({}, NoCost)
    BY <2>1, <2>2 DEF Paid, NoCost
  <2> QED BY <1>1, <1>10, <2>1, <2>3
<1>12. ASSUME NEW m \in 1..n, m - 1 \in Good PROVE m \in Good
  <2>1. Paid(FirstOf(s, m - 1), cost[m - 1])
    BY <1>12
  <2>2. FirstOf(s, m) = FirstOf(s, m - 1) \cup {s[m]}
    <3>1. \A j \in 1..m : j = m \/ j \in 1..m - 1
      BY <1>1
    <3>2. m \in 1..m /\ \A j \in 1..m - 1 : j \in 1..m
      BY <1>1
    <3> QED BY <3>1, <3>2 DEF FirstOf
  <2>3. \A p \in FirstOf(s, m - 1) : p \in Usable /\ BySpan(p, s[m])
    <3>1. \A j \in 1..m - 1 : j \in 1..n /\ j < m
      BY <1>1
    <3> QED BY <1>2, <1>4, <3>1 DEF FirstOf
  <2>4. Paid(FirstOf(s, m - 1) \cup {s[m]}, Pay(cost[m - 1], s[m]))
    <3>1. s[m] \in Usable /\ FirstOf(s, m - 1) \in SUBSET Usable
      BY <1>4, <2>3
    <3> QED BY <2>1, <2>3, <3>1, NextPaid
  <2>5. m \in 0..n
    BY <1>1
  <2> QED BY <1>10, <2>2, <2>4, <2>5
<1>13. n \in Good
  <2> HIDE DEF Good
  <2>1. Good \in SUBSET (0..n)
    BY DEF Good
  <2>2. \A m \in 0..n : m \in Good
    BY <1>1, <1>11, <1>12, <2>1, NumbersInTurn
  <2> QED BY <1>1, <2>2
<1>14. FirstOf(s, n) = ats
  BY <1>2 DEF FirstOf
<1> QED
  BY <1>3, <1>13, <1>14 DEF Paid

LEMMA InFileNames ==
  ASSUME NEW f, NEW ds \in SUBSET Nat, IsFiniteSet(ds)
  PROVE  InFile(f, ds) \in Seq({f} \X ds)
<1> DEFINE lt == {p \in ds \X ds : p[1] < p[2]}
           n == Cardinality(ds)
<1>1. TotalOrder(lt, ds) /\ lt \in SUBSET (ds \X ds)
  BY DEF TotalOrder
<1>2. PICK s : Listing(lt, ds, s)
  <2> HIDE DEF lt
  <2> QED BY <1>1, ListingExists
<1>3. n \in Nat
  BY FS_CardinalityType
<1>4. \A d \in ds : {e \in ds : e < d} = Below(lt, ds, d)
  BY DEF Below
<1> HIDE DEF lt
<1>5. ASSUME NEW i \in 1..n
      PROVE  (CHOOSE d \in ds : Cardinality({e \in ds : e < d}) = i - 1) \in ds
  <2>1. s[i] \in ds /\ Cardinality({e \in ds : e < s[i]}) = i - 1
    BY <1>2, <1>4 DEF Listing
  <2> QED BY <2>1
<1>6. InFile(f, ds) \in [1..n -> {f} \X ds]
  BY <1>5 DEF InFile
<1> HIDE DEF n
<1> QED
  BY <1>3, <1>6

LEMMA AskNames ==
  ASSUME NEW T, NEW ats \in Seq(T), NEW role, NEW needy
  PROVE  /\ Ask(ats, role, needy) \in Seq([at : T, role : {role}, needy : {needy}])
         /\ DOMAIN Ask(ats, role, needy) = DOMAIN ats
         /\ \A i \in DOMAIN ats : Ask(ats, role, needy)[i] = [at |-> ats[i], role |-> role, needy |-> needy]
<1>1. DOMAIN ats = 1..Len(ats) /\ Len(ats) \in Nat /\ \A i \in DOMAIN ats : ats[i] \in T
  OBVIOUS
<1> DEFINE R == [at : T, role : {role}, needy : {needy}]
<1>2. Ask(ats, role, needy) \in [1..Len(ats) -> R]
  BY <1>1 DEF Ask
<1>3. Ask(ats, role, needy) \in Seq(R)
  <2> HIDE DEF R
  <2> QED BY <1>1, <1>2
<1> QED
  BY <1>1, <1>3 DEF Ask

(***************************************************************************)
(* The sequences of a sequence, one after another.                         *)
(***************************************************************************)
Holds(s, part) == \A i \in DOMAIN part : \E j \in DOMAIN s : s[j] = part[i]

LEMMA Flattened ==
  ASSUME NEW T, NEW parts \in Seq(Seq(T))
  PROVE  /\ FlattenSeq(parts) \in Seq(T)
         /\ \A p \in DOMAIN parts : Holds(FlattenSeq(parts), parts[p])
<1> DEFINE n == Len(parts)
<1>1. n \in Nat /\ DOMAIN parts = 1..n /\ \A p \in 1..n : parts[p] \in Seq(T)
  OBVIOUS
<1>2. CASE n = 0
  <2>1. parts = <<>> /\ FlattenSeq(parts) = parts
    BY <1>2, EmptySeq DEF FlattenSeq
  <2>2. DOMAIN parts = {}
    BY <1>1, <1>2
  <2>3. <<>> \in Seq(T)
    OBVIOUS
  <2>4. FlattenSeq(parts) \in Seq(T)
    BY <2>1, <2>3
  <2> QED BY <2>2, <2>4
<1>3. CASE n # 0
  <2> DEFINE G(it) == [i \in 1..n |-> IF i = 1 THEN parts[i] ELSE it[i - 1] \o parts[i]]
             flatten == CHOOSE it : it = G(it)
             F == [i \in 1..n |-> [x \in Seq(T) |-> x \o parts[i]]]
  <2>1. FlattenSeq(parts) = flatten[n]
    BY <1>3 DEF FlattenSeq
  <2> HIDE DEF n
  <2>2. F \in [1..n -> [Seq(T) -> Seq(T)]] /\ <<>> \in Seq(T)
    <3>1. ASSUME NEW i \in 1..n, NEW x \in Seq(T) PROVE x \o parts[i] \in Seq(T)
      <4>1. parts[i] \in Seq(T)
        BY <1>1
      <4> QED BY <4>1, ConcatProperties
    <3> QED BY <3>1
  <2>3. PICK f : Recursion(n, Seq(T), <<>>, F, f)
    <3> HIDE DEF F
    <3> QED BY <1>1, <2>2, RecursionExists
  <2>4. f \in [0..n -> Seq(T)] /\ f[0] = <<>> /\ \A i \in 1..n : f[i] = f[i - 1] \o parts[i]
    <3>1. f \in [0..n -> Seq(T)] /\ f[0] = <<>> /\ \A i \in 1..n : f[i] = F[i][f[i - 1]]
      BY <2>3 DEF Recursion
    <3>2. \A i \in 1..n : i - 1 \in 0..n
      BY <1>1
    <3> QED BY <3>1, <3>2
  <2> DEFINE g == [i \in 1..n |-> f[i]]
  <2>5. g = G(g)
    <3>1. ASSUME NEW i \in 1..n, i = 1 PROVE f[i] = parts[i]
      <4>0. i - 1 = 0
        BY <3>1
      <4>1. f[i] = f[i - 1] \o parts[i] /\ parts[i] \in Seq(T)
        BY <1>1, <2>4
      <4>2. f[i] = <<>> \o parts[i]
        BY <2>4, <4>0, <4>1
      <4> QED BY <4>1, <4>2, ConcatEmptySeq
    <3>2. ASSUME NEW i \in 1..n, i # 1 PROVE i - 1 \in 1..n /\ f[i] = f[i - 1] \o parts[i]
      <4>1. i - 1 \in 1..n
        BY <1>1, <3>2
      <4> QED BY <2>4, <4>1
    <3> QED BY <3>1, <3>2
  <2>6. flatten = G(flatten)
    BY <2>5
  <2> HIDE DEF flatten, g, F
  <2>7. \A i \in 1..n : flatten[i] = IF i = 1 THEN parts[i] ELSE flatten[i - 1] \o parts[i]
    BY <2>6
  <2> DEFINE Sound(i) == flatten[i] \in Seq(T) /\ \A p \in 1..i : Holds(flatten[i], parts[p])
             Good == {i \in 0..n : i = 0 \/ Sound(i)}
  <2>8. ASSUME NEW i \in 1..n, i - 1 \in Good PROVE i \in Good
    <3>0. parts[i] \in Seq(T) /\ i \in 0..n
      BY <1>1
    <3>1. CASE i = 1
      <4>1. flatten[i] = parts[i] /\ \A p \in 1..i : p = i
        BY <2>7, <3>1
      <4> QED BY <3>0, <4>1 DEF Holds
    <3>2. CASE i # 1
      <4>1. i - 1 # 0 /\ i - 1 \in 1..n /\ \A p \in 1..i : p = i \/ p \in 1..i - 1
        BY <1>1, <3>2
      <4>2. Sound(i - 1)
        BY <2>8, <4>1
      <4>3. flatten[i] = flatten[i - 1] \o parts[i]
        BY <2>7, <3>2
      <4> DEFINE a == Len(flatten[i - 1])
                 b == Len(parts[i])
      <4>40. flatten[i - 1] \in Seq(T)
        BY <4>2
      <4>41. /\ flatten[i - 1] \o parts[i] \in Seq(T)
             /\ Len(flatten[i - 1] \o parts[i]) = Len(flatten[i - 1]) + Len(parts[i])
             /\ \A j \in 1..Len(flatten[i - 1]) + Len(parts[i]) :
                  (flatten[i - 1] \o parts[i])[j] = IF j <= Len(flatten[i - 1]) THEN flatten[i - 1][j]
                                                    ELSE parts[i][j - Len(flatten[i - 1])]
        BY <3>0, <4>40, ConcatProperties
      <4>4. /\ flatten[i] \in Seq(T) /\ Len(flatten[i]) = a + b
            /\ \A j \in 1..a + b :
                 flatten[i][j] = IF j <= a THEN flatten[i - 1][j] ELSE parts[i][j - a]
        BY <4>3, <4>41
      <4>5. /\ DOMAIN flatten[i] = 1..a + b /\ DOMAIN flatten[i - 1] = 1..a /\ DOMAIN parts[i] = 1..b
            /\ a \in Nat /\ b \in Nat
        <5>1. DOMAIN flatten[i - 1] = 1..a /\ a \in Nat
          BY <4>40
        <5>2. DOMAIN parts[i] = 1..b /\ b \in Nat
          BY <3>0
        <5>3. DOMAIN flatten[i] = 1..a + b
          <6>1. DOMAIN flatten[i] = 1..Len(flatten[i])
            BY <4>4, LenProperties
          <6> QED BY <4>4, <6>1
        <5> QED BY <5>1, <5>2, <5>3
      <4> HIDE DEF a, b
      <4>6. ASSUME NEW p \in 1..i - 1 PROVE Holds(flatten[i], parts[p])
        <5> SUFFICES ASSUME NEW x \in DOMAIN parts[p] PROVE \E j \in DOMAIN flatten[i] : flatten[i][j] = parts[p][x]
          BY DEF Holds
        <5>1. Holds(flatten[i - 1], parts[p])
          BY <4>2
        <5>2. PICK j \in DOMAIN flatten[i - 1] : flatten[i - 1][j] = parts[p][x]
          BY <5>1 DEF Holds
        <5>3. j \in DOMAIN flatten[i] /\ j <= a /\ j \in 1..a + b
          BY <4>5
        <5> QED BY <4>4, <5>2, <5>3
      <4>7. Holds(flatten[i], parts[i])
        <5> SUFFICES ASSUME NEW x \in DOMAIN parts[i] PROVE \E j \in DOMAIN flatten[i] : flatten[i][j] = parts[i][x]
          BY DEF Holds
        <5>1. a + x \in DOMAIN flatten[i] /\ ~(a + x <= a) /\ (a + x) - a = x
          BY <4>5
        <5>2. flatten[i][a + x] = parts[i][x]
          BY <4>4, <4>5, <5>1
        <5> QED BY <5>1, <5>2
      <4>8. Sound(i)
        BY <4>1, <4>4, <4>6, <4>7
      <4> QED BY <3>0, <4>8
    <3> QED BY <3>1, <3>2
  <2>9. n \in Good
    <3> HIDE DEF Good
    <3>1. Good \in SUBSET (0..n) /\ 0 \in Good
      BY <1>1 DEF Good
    <3>2. \A i \in 0..n : i \in Good
      BY <1>1, <2>8, <3>1, NumbersInTurn
    <3> QED BY <1>1, <3>2
  <2> QED BY <1>1, <1>3, <2>1, <2>9 DEF n
<1> QED
  BY <1>2, <1>3

-------------------------------------------------------------------------------
(***************************************************************************)
(* The parts of PlanInv.  What may be selected at all, which selections    *)
(* fit, and which definitions need which depend on the inputs only.        *)
(***************************************************************************)
FitSets == {ats \in SUBSET Usable : Fits(ats)}
Needed == {p \in Known \X Spots : p[1][1] = p[2][1] /\ p[2][2] \in Range(DefinitionAt(p[1]).needs)}

SeedRoles == {"direct"}
OtherRoles == {"environment", "expansion"}
Roles == SeedRoles \cup OtherRoles
Reasons == {"file", "unavailable", "parse-error", "unresolved-definition"}
SeedValues == UNION {Range(values) : values \in PlanSeeds}
AskOf == [at : Spots, role : Roles, needy : Known \cup {Nobody}]
Chosen == [at : Usable, role : Roles]

PlanTypeOK ==
  /\ inputs \in PlanInputs /\ seeds \in Seq(SeedValues)
  /\ planPhase \in {"seeds", "expand", "environment", "done"}
  /\ agenda \in Seq(AskOf) /\ selected \in Seq(Chosen)
  /\ candidates \in SUBSET Spots /\ IsFiniteSet(candidates)
  /\ \A f \in failures : f.at \in Spots /\ f.explicit \in BOOLEAN
  /\ refused \in Seq(Reasons) /\ told \in 0..PlanDetails /\ untold \in Nat

\* Seeds are admitted before anything else is.
InTurn ==
  /\ planPhase = "seeds" =>
       /\ gaps = {} /\ \A s \in Range(selected) : s.role \in SeedRoles
       /\ \A a \in Range(agenda) : a.role \in SeedRoles /\ a.needy = Nobody
  /\ planPhase = "expand" => selected = <<>> /\ agenda = <<>> /\ refused = <<>> /\ told = 0 /\ untold = 0
  /\ planPhase \in {"environment", "done"} => \A a \in Range(agenda) : a.role \in OtherRoles
  /\ planPhase = "done" => agenda = <<>>
  /\ \A a \in Range(agenda) : a.needy # Nobody => a.needy \in SelectedSet /\ <<a.needy, a.at>> \in Needed

\* Nothing is selected twice, nor fails twice; and all of it is a candidate.
Once ==
  /\ \A i, j \in DOMAIN selected : selected[i].at = selected[j].at => i = j
  /\ \A f, g \in failures : f.at = g.at => f = g
  /\ candidates = SelectedSet \cup {f.at : f \in failures}

SelectedFit == SelectedSet \in FitSets

\* When it failed, a seed did not fit beside the seeds selected so far.
SeedsLeftOut ==
  \A f \in failures :
    f.explicit /\ f.at \notin SelectedSet /\ f.reason \in Limits =>
      /\ f.at \in Usable
      /\ \E n \in 0..Len(selected) :
           FirstSelected(n) \subseteq Direct /\ FirstSelected(n) \cup {f.at} \notin FitSets

Tally ==
  told + untold = Len(refused) + IF planPhase = "done" THEN Cardinality(candidates \ SelectedSet) ELSE 0

\* When it was asked for, what a gap names did not fit beside what was selected so far.
GapsLast ==
  \A g \in gaps :
    /\ g[1] \in SelectedSet
    /\ \E n \in 0..Len(selected) : FirstSelected(n) \cup {g[2]} \notin FitSets

\* A need of a seed's definition is selected, a gap, or still to be admitted.
NeedsDue ==
  planPhase \in {"environment", "done"} =>
    \A p \in Needed : p[1] \in Direct =>
      \/ p[2] \in SelectedSet
      \/ \E g \in gaps : g[1] = p[1] /\ g[2] = p[2]
      \/ \E a \in Range(agenda) : a.at = p[2] /\ a.needy = p[1]

PlanInv ==
  PlanTypeOK /\ InTurn /\ Once /\ SelectedFit /\ SeedsLeftOut /\ Tally /\ GapsLast /\ NeedsDue

LEMMA OfTheInputs ==
  ASSUME inputs' = inputs
  PROVE  /\ Known' = Known /\ Spots' = Spots /\ Usable' = Usable /\ FitSets' = FitSets
         /\ Needed' = Needed /\ AskOf' = AskOf /\ Chosen' = Chosen
<1>1. Known' = Known /\ Spots' = Spots
  BY DEF Known, Spots
<1>2. Usable' = Usable
  BY <1>1 DEF Usable, Unavailable, PlanEncoding, DefinitionAt, Begins, Beyond, TokensOf
<1>3. FitSets' = FitSets
  <2>1. \A ats : Fits(ats)' = Fits(ats)
    BY DEF Fits, Apart, Price, PaidPieces, PieceOf, Outermost, Inside, FilesOf, DefinitionAt
  <2> QED BY <1>2, <2>1 DEF FitSets
<1>4. Needed' = Needed
  BY <1>1 DEF Needed, DefinitionAt
<1> QED
  BY <1>1, <1>2, <1>3, <1>4 DEF AskOf, Chosen

LEMMA KnownSpots ==
  ASSUME inputs \in PlanInputs
  PROVE  /\ Usable \subseteq Known /\ Known \subseteq Spots
         /\ \A at \in Spots : at = <<at[1], at[2]>> /\ at[1] \in DOMAIN inputs /\ at[2] \in Nat
<1>1. Usable \subseteq Known
  BY DEF Usable
<1>2. Known \subseteq Spots
  <2> SUFFICES ASSUME NEW at \in Known PROVE at \in Spots
    OBVIOUS
  <2>1. at = <<at[1], at[2]>> /\ at[1] \in DOMAIN inputs /\ at[2] \in Nat
    BY KnownDefinitions
  <2> QED BY <2>1 DEF Spots
<1> QED
  BY <1>1, <1>2 DEF Spots

(***************************************************************************)
(* Where nothing is within another definition, every part of what fits     *)
(* fits: only then does a cost never fall when a definition is added.      *)
(***************************************************************************)
LEMMA PartFitsToo ==
  ASSUME inputs \in PlanInputs, NEW more \in FitSets, \A p, q \in more : ~Inside(p, q),
         NEW ats \in SUBSET more
  PROVE  ats \in FitSets
<1>1. /\ more \in SUBSET Usable /\ ats \in SUBSET Usable /\ Apart(more) /\ Price(more) <= PlanBudget
      /\ Cardinality(more) <= PlanDefinitions /\ Cardinality(FilesOf(more)) <= PlanFiles
  BY DEF FitSets, Fits
<1>2. IsFiniteSet(more) /\ IsFiniteSet(ats) /\ Cardinality(ats) <= Cardinality(more)
      /\ Cardinality(ats) \in Nat /\ Cardinality(more) \in Nat
  <2>1. IsFiniteSet(more)
    BY <1>1, KnownSpots, KnownIsFinite, FS_Subset
  <2> QED BY <2>1, FS_Subset, FS_CardinalityType
<1>3. Outermost(more) = more /\ Outermost(ats) = ats
  BY DEF Outermost
<1>4. Apart(ats)
  BY <1>1, <1>3 DEF Apart
<1>5. Price(ats) <= Price(more) /\ Price(ats) \in Int /\ Price(more) \in Int
  <2> DEFINE pieces == PaidPieces(more)
             w == [piece \in pieces |-> piece[3]]
             fewer == PaidPieces(ats)
  <2>1. fewer \subseteq pieces
    BY <1>3 DEF PaidPieces
  <2>2. IsFiniteSet(pieces)
    <3> DEFINE piece == [p \in more |-> PieceOf(p)]
    <3>1. piece \in Surjection(more, pieces)
      BY <1>3 DEF Surjection, PaidPieces
    <3> HIDE DEF piece, pieces
    <3> QED BY <1>2, <3>1, FS_Surjection
  <2>3. w \in [pieces -> Nat]
    <3> SUFFICES ASSUME NEW piece \in pieces PROVE piece[3] \in Nat
      OBVIOUS
    <3>1. PICK p \in more : piece = PieceOf(p)
      BY <1>3 DEF PaidPieces
    <3>2. TokensOf(p) \in Nat /\ piece[3] = TokensOf(p)
      <4>1. TokensOf(p) \in Nat
        BY <1>1, UsableDefinitions
      <4> QED BY <3>1, <4>1 DEF PieceOf, TokensOf
    <3> QED BY <3>2
  <2>4. [x \in fewer |-> w[x]] = [piece \in fewer |-> piece[3]]
    BY <2>1
  <2>5. Price(more) = SumFunction(w) /\ Price(ats) = SumFunction([x \in fewer |-> w[x]])
    BY <2>4 DEF Price
  <2> HIDE DEF w, pieces, fewer
  <2>6. /\ SumFunction([x \in fewer |-> w[x]]) \in Nat /\ SumFunction(w) \in Nat
        /\ SumFunction([x \in fewer |-> w[x]]) <= SumFunction(w)
    BY <2>1, <2>2, <2>3, SumOfPart
  <2> QED BY <2>5, <2>6
<1>6. Cardinality(FilesOf(ats)) <= Cardinality(FilesOf(more)) /\ Cardinality(FilesOf(ats)) \in Nat
      /\ Cardinality(FilesOf(more)) \in Nat
  <2>1. FilesOf(ats) \subseteq FilesOf(more)
    BY DEF FilesOf
  <2>2. IsFiniteSet(FilesOf(more))
    <3> DEFINE file == [at \in more |-> at[1]]
    <3>1. file \in Surjection(more, FilesOf(more))
      BY DEF Surjection, FilesOf
    <3> HIDE DEF file
    <3> QED BY <1>2, <3>1, FS_Surjection
  <2> QED BY <2>1, <2>2, FS_Subset, FS_CardinalityType
<1> QED
  BY <1>1, <1>2, <1>4, <1>5, <1>6, PlanAssumption DEF FitSets, Fits

LEMMA AppendedRange ==
  ASSUME NEW T, NEW s \in Seq(T), NEW e \in T
  PROVE  /\ Append(s, e) \in Seq(T) /\ Len(Append(s, e)) = Len(s) + 1 /\ Range(Append(s, e)) = Range(s) \cup {e}
         /\ \A i \in DOMAIN Append(s, e) : (i \in DOMAIN s /\ Append(s, e)[i] = s[i]) \/ (i = Len(s) + 1 /\ Append(s, e)[i] = e)
<1>1. /\ Append(s, e) \in Seq(T) /\ Len(Append(s, e)) = Len(s) + 1 /\ Len(s) \in Nat
      /\ DOMAIN Append(s, e) = 1..Len(s) + 1 /\ DOMAIN s = 1..Len(s)
      /\ \A i \in 1..Len(s) : Append(s, e)[i] = s[i]
      /\ Append(s, e)[Len(s) + 1] = e
  BY AppendProperties, LenProperties
<1>2. \A i \in DOMAIN Append(s, e) : (i \in DOMAIN s /\ Append(s, e)[i] = s[i]) \/ (i = Len(s) + 1 /\ Append(s, e)[i] = e)
  BY <1>1
<1>3. Range(Append(s, e)) = Range(s) \cup {e}
  <2>1. \A i \in DOMAIN s : i \in DOMAIN Append(s, e)
    BY <1>1
  <2>2. Len(s) + 1 \in DOMAIN Append(s, e)
    BY <1>1
  <2> HIDE DEF Append
  <2> QED BY <1>1, <1>2, <2>1, <2>2 DEF Range
<1> QED
  BY <1>1, <1>2, <1>3

LEMMA SelectedCounted ==
  ASSUME inputs \in PlanInputs, selected \in Seq(Chosen),
         \A i, j \in DOMAIN selected : selected[i].at = selected[j].at => i = j
  PROVE  IsFiniteSet(SelectedSet) /\ Cardinality(SelectedSet) = Len(selected) /\ Len(selected) \in Nat
<1> DEFINE n == Len(selected)
           atOf == [i \in 1..n |-> selected[i].at]
<1>1. n \in Nat /\ DOMAIN selected = 1..n
  OBVIOUS
<1>2. IsFiniteSet(1..n) /\ Cardinality(1..n) = n
  BY <1>1, FS_Interval
<1>3. atOf \in Surjection(1..n, SelectedSet)
  <2>1. \A i \in 1..n : atOf[i] \in SelectedSet
    BY <1>1 DEF SelectedSet, Range
  <2>2. \A x \in SelectedSet : \E i \in 1..n : atOf[i] = x
    BY <1>1 DEF SelectedSet, Range
  <2> QED BY <2>1, <2>2 DEF Surjection
<1>4. atOf \in Injection(1..n, SelectedSet)
  <2>1. atOf \in [1..n -> SelectedSet]
    BY <1>3 DEF Surjection
  <2> QED BY <1>1, <2>1 DEF Injection, IsInjective
<1> HIDE DEF atOf, n
<1>5. IsFiniteSet(SelectedSet) /\ Cardinality(SelectedSet) = n
  BY <1>2, <1>3, <1>4, FS_Surjection
<1> QED
  BY <1>1, <1>5 DEF n

\* What was selected first stays when more is selected.
LEMMA FirstOnes ==
  ASSUME selected \in Seq(Chosen), selected' = selected \/ \E e \in Chosen : selected' = Append(selected, e)
  PROVE  /\ Len(selected) \in Nat /\ FirstSelected(Len(selected)) = SelectedSet
         /\ \A n \in 0..Len(selected) : FirstSelected(n) \subseteq SelectedSet
         /\ \A n \in 0..Len(selected) : n \in 0..Len(selected') /\ FirstSelected(n)' = FirstSelected(n)
<1>1. DOMAIN selected = 1..Len(selected) /\ Len(selected) \in Nat
  BY LenProperties
<1>2. FirstSelected(Len(selected)) = SelectedSet /\ \A n \in 0..Len(selected) : FirstSelected(n) \subseteq SelectedSet
  BY <1>1 DEF FirstSelected, SelectedSet, Range
<1>3. ASSUME NEW n \in 0..Len(selected) PROVE n \in 0..Len(selected') /\ FirstSelected(n)' = FirstSelected(n)
  <2>1. CASE selected' = selected
    BY <2>1 DEF FirstSelected
  <2>2. CASE \E e \in Chosen : selected' = Append(selected, e)
    <3>1. PICK e \in Chosen : selected' = Append(selected, e)
      BY <2>2
    <3>2. /\ Len(selected') = Len(selected) + 1
          /\ \A i \in 1..Len(selected) : selected'[i] = selected[i]
      <4>1. /\ Len(Append(selected, e)) = Len(selected) + 1
            /\ \A i \in 1..Len(selected) : Append(selected, e)[i] = selected[i]
        BY AppendProperties, Zenon
      <4> QED BY <3>1, <4>1, Zenon
    <3>3. \A i \in 1..n : i \in 1..Len(selected)
      BY <1>1
    <3> QED BY <1>1, <3>2, <3>3 DEF FirstSelected
  <2> QED BY <2>1, <2>2
<1> QED
  BY <1>1, <1>2, <1>3

\* Why a definition is not selected.
LEMMA FailureMeans ==
  ASSUME inputs \in PlanInputs, selected \in Seq(Chosen), SelectedFit,
         \A i, j \in DOMAIN selected : selected[i].at = selected[j].at => i = j,
         NEW at \in Spots, at \notin SelectedSet
  PROVE  /\ Failure(at) = Missing => at \in Usable /\ SelectedSet \cup {at} \in FitSets
         /\ Failure(at) # Missing => SelectedSet \cup {at} \notin FitSets
         /\ Failure(at) \in Limits => at \in Usable
<1> DEFINE more == SelectedSet \cup {at}
           file == inputs[at[1]]
           cost == UnionCost(more)
           source == DefinitionAt(at).span[1] >= DefinitionAt(at).span[2]
<1>1. SelectedSet \in SUBSET Usable /\ Fits(SelectedSet)
  BY DEF SelectedFit, FitSets
<1>2. /\ IsFiniteSet(SelectedSet) /\ Cardinality(SelectedSet) = Len(selected) /\ Len(selected) \in Nat
      /\ Cardinality(more) = Len(selected) + 1
  <2>1. IsFiniteSet(SelectedSet) /\ Cardinality(SelectedSet) = Len(selected) /\ Len(selected) \in Nat
    BY SelectedCounted
  <2> QED BY <2>1, FS_AddElement
<1>3. /\ at[1] \in FilesOf(SelectedSet) => FilesOf(more) = FilesOf(SelectedSet)
      /\ at[1] \notin FilesOf(SelectedSet) => Cardinality(FilesOf(more)) = Cardinality(FilesOf(SelectedSet)) + 1
      /\ Cardinality(FilesOf(SelectedSet)) \in Nat
  <2>1. FilesOf(more) = FilesOf(SelectedSet) \cup {at[1]}
    BY DEF FilesOf
  <2>2. IsFiniteSet(FilesOf(SelectedSet))
    <3> DEFINE fileOf == [x \in SelectedSet |-> x[1]]
    <3>1. fileOf \in Surjection(SelectedSet, FilesOf(SelectedSet))
      BY DEF Surjection, FilesOf
    <3> HIDE DEF fileOf
    <3> QED BY <1>2, <3>1, FS_Surjection
  <2>3. at[1] \notin FilesOf(SelectedSet)
          => Cardinality(FilesOf(SelectedSet) \cup {at[1]}) = Cardinality(FilesOf(SelectedSet)) + 1
    BY <2>2, FS_AddElement
  <2>4. Cardinality(FilesOf(SelectedSet)) \in Nat
    BY <2>2, FS_CardinalityType
  <2> QED BY <2>1, <2>3, <2>4
<1>4. at[1] \in DOMAIN inputs /\ at = <<at[1], at[2]>>
  BY KnownSpots
<1>5. file.gap \in {Missing, "unsupported", "unavailable", "cost-unavailable"}
  BY <1>4, PlanInputsAssumption DEF WellFormed
<1> DEFINE why == IF Unavailable(at[1]) THEN file.gap
                  ELSE IF file.encoding # PlanEncoding THEN "encoding-mismatch"
                  ELSE IF at[2] \notin DOMAIN file.definitions THEN "invalid-environment"
                  ELSE IF source THEN "source-unavailable"
                  ELSE "cost-unavailable"
           usable == /\ ~Unavailable(at[1]) /\ file.encoding = PlanEncoding
                     /\ at[2] \in DOMAIN file.definitions /\ ~source /\ DefinitionAt(at).tokens # -1
           limited == Len(selected) >= PlanDefinitions
           elsewhere == at[1] \notin FilesOf(SelectedSet) /\ Cardinality(FilesOf(SelectedSet)) >= PlanFiles
           limit == IF limited THEN "definition-limit" ELSE IF elsewhere THEN "file-limit"
                    ELSE IF cost.error # Missing THEN cost.error
                    ELSE IF cost.total <= PlanBudget THEN Missing
                    ELSE IF DefinitionAt(at).tokens > PlanBudget THEN "oversized-definition" ELSE "token-budget"
<1>6. Failure(at) = IF usable THEN limit ELSE why
  BY DEF Failure
<1>7. usable <=> at \in Usable
  <2>1. at \in Known <=> at[2] \in DOMAIN file.definitions
    <3>1. at[2] \in DOMAIN file.definitions => at \in {at[1]} \X DOMAIN file.definitions
      BY <1>4
    <3>2. at \in Known => at[2] \in DOMAIN file.definitions
      BY KnownDefinitions
    <3> QED BY <1>4, <3>1, <3>2 DEF Known
  <2>2. at \in Known => (~source <=> Begins(at) < Beyond(at))
    <3> SUFFICES ASSUME at \in Known PROVE ~source <=> Begins(at) < Beyond(at)
      OBVIOUS
    <3>1. Begins(at) \in Nat /\ Beyond(at) \in Nat
      BY KnownDefinitions
    <3> QED BY <3>1 DEF Begins, Beyond
  <2> QED BY <2>1, <2>2 DEF Usable, TokensOf
<1>8. CASE at \notin Usable
  <2>1. why # Missing /\ why \notin Limits
    <3>1. Unavailable(at[1]) => file.gap # Missing
      BY DEF Unavailable
    <3>2. \A reason \in {"unsupported", "unavailable", "cost-unavailable", "encoding-mismatch",
                         "invalid-environment", "source-unavailable"} : reason # Missing /\ reason \notin Limits
      BY DEF Missing, Limits
    <3> HIDE DEF file, source
    <3>3. why \in {"unsupported", "unavailable", "cost-unavailable", "encoding-mismatch",
                   "invalid-environment", "source-unavailable"}
      BY <1>5, <3>1
    <3> HIDE DEF why
    <3> QED BY <3>2, <3>3
  <2>2. Failure(at) = why
    BY <1>6, <1>7, <1>8
  <2>3. more \notin FitSets
    BY <1>8 DEF FitSets
  <2> HIDE DEF why
  <2> QED BY <2>1, <2>2, <2>3
<1>9. CASE at \in Usable
  <2>1. more \in SUBSET Usable
    BY <1>1, <1>9
  <2>2. /\ cost.error \in CostErrors \cup {Missing}
        /\ cost.error = Missing <=> Apart(more)
        /\ Apart(more) => cost.total = Price(more)
    <3> HIDE DEF more
    <3> QED BY <2>1, UnionCostIs
  <2>3. Failure(at) = limit
    BY <1>6, <1>7, <1>9
  <2> DEFINE cheap == Price(more) <= PlanBudget
             costs == IF cost.total <= PlanBudget THEN Missing
                      ELSE IF DefinitionAt(at).tokens > PlanBudget THEN "oversized-definition" ELSE "token-budget"
  <2>4. more \in FitSets <=> Apart(more) /\ cheap /\ ~limited /\ ~elsewhere
    <3>1. more \in FitSets <=> /\ Apart(more) /\ cheap
                              /\ Len(selected) + 1 <= PlanDefinitions /\ Cardinality(FilesOf(more)) <= PlanFiles
      BY <1>2, <2>1 DEF FitSets, Fits
    <3>2. Len(selected) + 1 <= PlanDefinitions <=> ~limited
      BY <1>2, PlanAssumption
    <3>3. Cardinality(FilesOf(more)) <= PlanFiles <=> ~elsewhere
      <4>1. Cardinality(FilesOf(SelectedSet)) <= PlanFiles
        BY <1>1 DEF Fits
      <4> QED BY <1>3, <4>1, PlanAssumption
    <3> HIDE DEF limited, elsewhere, more
    <3> QED BY <3>1, <3>2, <3>3
  <2>5. /\ {"definition-limit", "file-limit", "oversized-definition", "token-budget"} \subseteq Limits
        /\ CostErrors \subseteq Limits /\ Missing \notin Limits
    BY DEF Limits, CostErrors, Missing
  <2>6. Apart(more) => costs = IF cheap THEN Missing
                               ELSE IF DefinitionAt(at).tokens > PlanBudget THEN "oversized-definition" ELSE "token-budget"
    BY <2>2
  <2>7. limit = IF limited THEN "definition-limit" ELSE IF elsewhere THEN "file-limit"
                ELSE IF cost.error # Missing THEN cost.error ELSE costs
    OBVIOUS
  <2> HIDE DEF more, limited, elsewhere, cheap, costs, limit, cost
  <2>8. more \in FitSets => Failure(at) = Missing
    BY <2>2, <2>3, <2>4, <2>6, <2>7
  <2>9. more \notin FitSets => Failure(at) \in Limits
    <3>1. CASE limited \/ elsewhere
      BY <2>3, <2>5, <2>7, <3>1
    <3>2. CASE ~limited /\ ~elsewhere /\ ~Apart(more)
      BY <2>2, <2>3, <2>5, <2>7, <3>2
    <3>3. CASE ~limited /\ ~elsewhere /\ Apart(more) /\ ~cheap
      BY <2>2, <2>3, <2>5, <2>6, <2>7, <3>3
    <3> QED BY <2>4, <3>1, <3>2, <3>3
  <2> QED BY <1>9, <2>5, <2>8, <2>9 DEF more
<1> QED
  BY <1>8, <1>9

LEMMA PlanStarts ==
  ASSUME PlanInit
  PROVE  PlanInv
<1>1. /\ inputs \in PlanInputs /\ seeds \in PlanSeeds /\ candidates = {} /\ selected = <<>> /\ gaps = {}
      /\ failures = {} /\ refused = <<>> /\ told = 0 /\ untold = 0 /\ agenda = <<>>
      /\ planPhase \in {"seeds", "expand"}
  BY DEF PlanInit, PlanStart
<1>2. SelectedSet = {} /\ Range(selected) = {} /\ Range(agenda) = {}
  BY <1>1 DEF SelectedSet, Range
<1>3. seeds \in Seq(SeedValues)
  <2>1. seeds \in Seq(Range(seeds)) /\ Range(seeds) \subseteq SeedValues
    BY <1>1, PlanSeedsAssumption DEF SeedValues
  <2> QED BY <2>1, SeqMonotonic
<1>4. PlanTypeOK
  <2>1. agenda \in Seq(AskOf) /\ selected \in Seq(Chosen) /\ refused \in Seq(Reasons)
    BY <1>1
  <2>2. candidates \in SUBSET Spots /\ IsFiniteSet(candidates)
    BY <1>1, FS_EmptySet
  <2> QED BY <1>1, <1>3, <2>1, <2>2, PlanAssumption DEF PlanTypeOK
<1>5. InTurn
  BY <1>1, <1>2 DEF InTurn
<1>6. Once
  BY <1>1, <1>2 DEF Once
<1>7. SelectedFit
  <2>1. Apart({}) /\ FilesOf({}) = {} /\ Cardinality({}) = 0
    BY FS_EmptySet DEF Apart, Outermost, FilesOf
  <2>2. Price({}) = 0
    BY PriceOfNothing
  <2> QED BY <1>2, <2>1, <2>2, PlanAssumption DEF SelectedFit, FitSets, Fits
<1>8. SeedsLeftOut /\ GapsLast /\ NeedsDue
  BY <1>1 DEF SeedsLeftOut, GapsLast, NeedsDue
<1>9. Tally
  BY <1>1 DEF Tally
<1> QED
  BY <1>4, <1>5, <1>6, <1>7, <1>8, <1>9 DEF PlanInv

\* Cannot be selected beside s.
Barred(x, s) == s \cup {x} \notin FitSets

LEMMA DirectIsSelected == Direct \subseteq SelectedSet
BY DEF Direct, SelectedSet

LEMMA AdmitSelects ==
  ASSUME PlanInv, inputs' = inputs, NEW at \in Spots, NEW role \in Roles, Admit(at, role),
         role \in SeedRoles => SelectedSet = Direct
  PROVE  \/ /\ at \in SelectedSet /\ selected' = selected /\ failures' = failures /\ candidates' = candidates
            /\ SelectedSet' = SelectedSet /\ Direct' = Direct
         \/ /\ at \notin SelectedSet /\ at \in Usable /\ SelectedSet \cup {at} \in FitSets
            /\ selected' = Append(selected, [at |-> at, role |-> role])
            /\ failures' = {f \in failures : f.at # at} /\ candidates' = candidates \cup {at}
            /\ SelectedSet' = SelectedSet \cup {at}
            /\ Direct' = Direct \cup (IF role \in SeedRoles THEN {at} ELSE {})
         \/ /\ at \notin SelectedSet /\ Barred(at, SelectedSet)
            /\ selected' = selected /\ candidates' = candidates \cup {at}
            /\ SelectedSet' = SelectedSet /\ Direct' = Direct
            /\ Failure(at) \in Limits => at \in Usable
            /\ \/ (\E f \in failures : f.at = at) /\ failures' = failures
               \/ /\ ~\E f \in failures : f.at = at
                  /\ failures' = failures \cup
                       {[at |-> at, reason |-> Failure(at), explicit |-> role = "direct"]}
<1>1. /\ inputs \in PlanInputs /\ selected \in Seq(Chosen) /\ SelectedFit
      /\ \A i, j \in DOMAIN selected : selected[i].at = selected[j].at => i = j
      /\ candidates = SelectedSet \cup {f.at : f \in failures}
  BY DEF PlanInv, PlanTypeOK, Once
<1>2. selected' = selected => SelectedSet' = SelectedSet /\ Direct' = Direct
  BY DEF SelectedSet, Direct
<1>3. candidates' = candidates \cup {at}
  BY DEF Admit
<1>4. CASE at \in SelectedSet
  <2>1. selected' = selected /\ failures' = failures
    BY <1>4 DEF Admit
  <2>2. candidates' = candidates
    <3>1. candidates = SelectedSet \cup {f.at : f \in failures}
      BY <1>1
    <3>2. at \in candidates
      BY <1>4, <3>1
    <3> QED BY <1>3, <3>2
  <2> QED BY <1>2, <1>4, <2>1, <2>2
<1>5. CASE at \notin SelectedSet /\ Failure(at) = Missing
  <2>1. selected' = Append(selected, [at |-> at, role |-> role]) /\ failures' = {f \in failures : f.at # at}
    BY <1>5 DEF Admit
  <2>2. at \in Usable /\ SelectedSet \cup {at} \in FitSets
    BY <1>1, <1>5, FailureMeans
  <2>3. [at |-> at, role |-> role] \in Chosen
    BY <2>2 DEF Chosen
  <2>4. Range(selected') = Range(selected) \cup {[at |-> at, role |-> role]}
    BY <1>1, <2>1, <2>3, AppendedRange
  <2> DEFINE chosen == [at |-> at, role |-> role]
             all == Range(selected)
  <2>5. SelectedSet' = SelectedSet \cup {at}
    <3>1. SelectedSet = {s.at : s \in all} /\ SelectedSet' = {s.at : s \in all \cup {chosen}}
      BY <2>4 DEF SelectedSet
    <3>2. chosen.at = at
      OBVIOUS
    <3> HIDE DEF chosen, all
    <3> QED BY <3>1, <3>2
  <2>6. Direct' = Direct \cup (IF role \in SeedRoles THEN {at} ELSE {})
    <3>1. Direct = {s.at : s \in {x \in all : x.role = "direct"}}
          /\ Direct' = {s.at : s \in {x \in all \cup {chosen} : x.role = "direct"}}
      BY <2>4 DEF Direct
    <3>2. chosen.at = at /\ chosen.role = role /\ (role \in SeedRoles <=> role = "direct")
      BY DEF SeedRoles
    <3> HIDE DEF chosen, all, SeedRoles
    <3> QED BY <3>1, <3>2
  <2> QED BY <1>3, <1>5, <2>1, <2>2, <2>5, <2>6
<1>6. CASE at \notin SelectedSet /\ Failure(at) # Missing
  <2>1. /\ selected' = selected
        /\ failures' = failures \cup
             (IF \E f \in failures : f.at = at THEN {}
              ELSE {[at |-> at, reason |-> Failure(at), explicit |-> role = "direct"]})
    BY <1>6 DEF Admit
  <2>2. Barred(at, SelectedSet) /\ (Failure(at) \in Limits => at \in Usable)
    BY <1>1, <1>6, FailureMeans DEF Barred
  <2> QED BY <1>2, <1>3, <1>6, <2>1, <2>2
<1> QED
  BY <1>4, <1>5, <1>6

LEMMA AdmitKeeps ==
  ASSUME PlanInv, inputs' = inputs, NEW at \in Spots, NEW role \in Roles, Admit(at, role),
         role \in SeedRoles => SelectedSet = Direct
  PROVE  /\ candidates' \in SUBSET Spots /\ IsFiniteSet(candidates') /\ selected' \in Seq(Chosen)
         /\ \A f \in failures' : f.at \in Spots /\ f.explicit \in BOOLEAN
         /\ selected' = selected \/ \E e \in Chosen : selected' = Append(selected, e)
         /\ Once' /\ SelectedFit' /\ SeedsLeftOut'
<1>1. /\ inputs \in PlanInputs /\ candidates \in SUBSET Spots /\ IsFiniteSet(candidates)
      /\ selected \in Seq(Chosen)
      /\ \A f \in failures : f.at \in Spots /\ f.explicit \in BOOLEAN
  BY DEF PlanInv, PlanTypeOK
<1>2. Once /\ SelectedFit /\ SeedsLeftOut
  BY DEF PlanInv
<1>3. Usable' = Usable /\ FitSets' = FitSets
  BY OfTheInputs
<1>8. candidates' \in SUBSET Spots /\ IsFiniteSet(candidates')
  <2>1. candidates' = candidates \cup {at}
    BY DEF Admit
  <2> QED BY <1>1, <2>1, FS_AddElement
\* A seed that was left out before stays left out.
<1>9. ASSUME selected' = selected \/ \E e \in Chosen : selected' = Append(selected, e),
             Direct \subseteq Direct', SelectedSet \subseteq SelectedSet',
             NEW f \in failures, f.explicit, f.at \notin SelectedSet', f.reason \in Limits
      PROVE  /\ f.at \in Usable
             /\ \E n \in 0..Len(selected') :
                  FirstSelected(n)' \subseteq Direct' /\ FirstSelected(n)' \cup {f.at} \notin FitSets
  <2>1. PICK n \in 0..Len(selected) : FirstSelected(n) \subseteq Direct /\ FirstSelected(n) \cup {f.at} \notin FitSets
    BY <1>2, <1>9 DEF SeedsLeftOut
  <2>2. f.at \in Usable
    BY <1>2, <1>9 DEF SeedsLeftOut
  <2>3. n \in 0..Len(selected') /\ FirstSelected(n)' = FirstSelected(n)
    BY <1>1, <1>9, FirstOnes
  <2> QED BY <1>9, <2>1, <2>2, <2>3
<1>4. CASE /\ at \in SelectedSet /\ selected' = selected /\ failures' = failures /\ candidates' = candidates
           /\ SelectedSet' = SelectedSet /\ Direct' = Direct
  <2>1. Once' /\ SelectedFit'
    BY <1>2, <1>3, <1>4 DEF Once, SelectedFit
  <2>2. SeedsLeftOut'
    BY <1>3, <1>4, <1>9 DEF SeedsLeftOut
  <2> QED BY <1>1, <1>4, <1>8, <2>1, <2>2
<1>5. CASE /\ at \notin SelectedSet /\ at \in Usable /\ SelectedSet \cup {at} \in FitSets
           /\ selected' = Append(selected, [at |-> at, role |-> role])
           /\ failures' = {f \in failures : f.at # at} /\ candidates' = candidates \cup {at}
           /\ SelectedSet' = SelectedSet \cup {at}
           /\ Direct' = Direct \cup (IF role \in SeedRoles THEN {at} ELSE {})
  <2> DEFINE chosen == [at |-> at, role |-> role]
  <2>1. chosen \in Chosen /\ chosen.at = at
    BY <1>5 DEF Chosen
  <2>2. selected' = Append(selected, chosen)
    BY <1>5
  <2> HIDE DEF chosen
  <2>3. /\ selected' \in Seq(Chosen) /\ Len(selected') = Len(selected) + 1
        /\ \A i \in DOMAIN selected' : (i \in DOMAIN selected /\ selected'[i] = selected[i])
                                       \/ (i = Len(selected) + 1 /\ selected'[i] = chosen)
    BY <1>1, <2>1, <2>2, AppendedRange
  <2>4. \A i, j \in DOMAIN selected' : selected'[i].at = selected'[j].at => i = j
    <3>1. \A i \in DOMAIN selected : selected[i].at # at
      BY <1>5 DEF SelectedSet, Range
    <3> QED BY <1>2, <2>1, <2>3, <3>1 DEF Once
  <2>5. Once'
    <3>1. \A f, g \in failures' : f.at = g.at => f = g
      BY <1>2, <1>5 DEF Once
    <3>2. candidates' = SelectedSet' \cup {f.at : f \in failures'}
      <4>1. candidates = SelectedSet \cup {f.at : f \in failures}
        BY <1>2 DEF Once
      <4>2. {f.at : f \in failures} \subseteq {f.at : f \in failures'} \cup {at}
        BY <1>5
      <4>3. {f.at : f \in failures'} \subseteq {f.at : f \in failures}
        BY <1>5
      <4> QED BY <1>5, <4>1, <4>2, <4>3
    <3> QED BY <2>4, <3>1, <3>2 DEF Once
  <2>6. SelectedFit'
    BY <1>2, <1>3, <1>5 DEF SelectedFit
  <2>7. SeedsLeftOut'
    <3>1. selected' = selected \/ \E e \in Chosen : selected' = Append(selected, e)
      BY <2>1, <2>2
    <3>2. failures' \subseteq failures /\ Direct \subseteq Direct' /\ SelectedSet \subseteq SelectedSet'
      BY <1>5
    <3> QED BY <1>3, <1>9, <3>1, <3>2 DEF SeedsLeftOut
  <2>8. \A f \in failures' : f.at \in Spots /\ f.explicit \in BOOLEAN
    BY <1>1, <1>5
  <2> QED BY <1>8, <2>1, <2>2, <2>3, <2>5, <2>6, <2>7, <2>8
<1>6. CASE /\ at \notin SelectedSet /\ Barred(at, SelectedSet)
           /\ selected' = selected /\ candidates' = candidates \cup {at}
           /\ SelectedSet' = SelectedSet /\ Direct' = Direct
           /\ Failure(at) \in Limits => at \in Usable
           /\ \/ (\E f \in failures : f.at = at) /\ failures' = failures
              \/ /\ ~\E f \in failures : f.at = at
                 /\ failures' = failures \cup
                      {[at |-> at, reason |-> Failure(at), explicit |-> role = "direct"]}
  <2>1. CASE (\E f \in failures : f.at = at) /\ failures' = failures
    <3>1. at \in candidates
      BY <1>2, <2>1 DEF Once
    <3>2. candidates' = candidates
      BY <1>6, <3>1
    <3>3. Once' /\ SelectedFit'
      BY <1>2, <1>3, <1>6, <2>1, <3>2 DEF Once, SelectedFit
    <3>4. SeedsLeftOut'
      BY <1>3, <1>6, <1>9, <2>1 DEF SeedsLeftOut
    <3> QED BY <1>1, <1>6, <1>8, <2>1, <3>3, <3>4
  <2>2. CASE /\ ~\E f \in failures : f.at = at
             /\ failures' = failures \cup
                  {[at |-> at, reason |-> Failure(at), explicit |-> role = "direct"]}
    <3> DEFINE new == [at |-> at, reason |-> Failure(at), explicit |-> role = "direct"]
    <3>1. new.at = at /\ new.explicit \in BOOLEAN /\ (new.explicit => role \in SeedRoles) /\ new.reason = Failure(at)
      BY DEF SeedRoles
    <3>2. failures' = failures \cup {new}
      BY <2>2
    <3> HIDE DEF new
    <3>3. Once'
      <4>1. \A f, g \in failures' : f.at = g.at => f = g
        BY <1>2, <2>2, <3>1, <3>2 DEF Once
      <4>2. candidates' = SelectedSet' \cup {f.at : f \in failures'}
        <5>1. candidates = SelectedSet \cup {f.at : f \in failures}
          BY <1>2 DEF Once
        <5>2. {f.at : f \in failures'} = {f.at : f \in failures} \cup {at}
          BY <3>1, <3>2
        <5> QED BY <1>6, <5>1, <5>2
      <4> QED BY <1>2, <1>6, <4>1, <4>2 DEF Once
    <3>4. SelectedFit'
      BY <1>2, <1>3, <1>6 DEF SelectedFit
    <3>5. SeedsLeftOut'
      <4> SUFFICES ASSUME NEW f \in failures', f.explicit, f.at \notin SelectedSet', f.reason \in Limits
                   PROVE  /\ f.at \in Usable
                          /\ \E n \in 0..Len(selected') :
                               FirstSelected(n)' \subseteq Direct' /\ FirstSelected(n)' \cup {f.at} \notin FitSets
        BY <1>3 DEF SeedsLeftOut
      <4>1. CASE f = new
        <5>1. SelectedSet = Direct /\ SelectedSet \cup {at} \notin FitSets /\ f.at = at /\ at \in Usable
          BY <1>6, <3>1, <4>1 DEF Barred
        <5> DEFINE n == Len(selected)
        <5>2. n \in Nat /\ FirstSelected(n) = SelectedSet
          BY <1>1, <1>6, FirstOnes
        <5>3. n \in 0..n /\ Len(selected') = n /\ FirstSelected(n)' = SelectedSet /\ Direct' = Direct
          BY <1>6, <5>2 DEF FirstSelected
        <5> QED BY <5>1, <5>3
      <4>2. CASE f # new
        BY <1>6, <1>9, <3>2, <4>2
      <4> QED BY <4>1, <4>2
    <3>6. \A f \in failures' : f.at \in Spots /\ f.explicit \in BOOLEAN
      BY <1>1, <3>1, <3>2
    <3> QED BY <1>1, <1>6, <1>8, <3>3, <3>4, <3>5, <3>6
  <2> QED BY <1>6, <2>1, <2>2
<1> QED
  BY <1>4, <1>5, <1>6, AdmitSelects

LEMMA HeadAndTail ==
  ASSUME NEW T, NEW s \in Seq(T), s # <<>>
  PROVE  /\ Head(s) \in T /\ Tail(s) \in Seq(T) /\ Head(s) \in Range(s) /\ Range(Tail(s)) \subseteq Range(s)
         /\ \A x \in Range(s) : x = Head(s) \/ x \in Range(Tail(s))
<1>1. /\ Head(s) \in T /\ Head(s) = s[1] /\ Tail(s) \in Seq(T) /\ Len(Tail(s)) = Len(s) - 1
      /\ \A i \in 1..Len(Tail(s)) : Tail(s)[i] = s[i + 1]
  BY HeadTailProperties
<1>2. Len(s) \in Nat /\ Len(s) # 0 /\ DOMAIN s = 1..Len(s) /\ DOMAIN Tail(s) = 1..Len(s) - 1
  BY <1>1, LenProperties, EmptySeq
<1>3. Head(s) \in Range(s)
  <2>1. 1 \in DOMAIN s
    BY <1>2
  <2> QED BY <1>1, <2>1 DEF Range
<1>4. ASSUME NEW i \in DOMAIN Tail(s) PROVE Tail(s)[i] \in Range(s)
  <2>1. i + 1 \in DOMAIN s /\ Tail(s)[i] = s[i + 1]
    BY <1>1, <1>2
  <2> QED BY <2>1 DEF Range
<1>5. ASSUME NEW i \in DOMAIN s, i # 1 PROVE s[i] \in Range(Tail(s))
  <2>1. i - 1 \in DOMAIN Tail(s) /\ (i - 1) + 1 = i /\ i - 1 \in 1..Len(Tail(s))
    BY <1>1, <1>2, <1>5
  <2>2. Tail(s)[i - 1] = s[i]
    BY <1>1, <2>1
  <2> QED BY <2>1, <2>2 DEF Range
<1>6. Range(Tail(s)) \subseteq Range(s)
  BY <1>4 DEF Range
<1>7. \A x \in Range(s) : x = Head(s) \/ x \in Range(Tail(s))
  BY <1>1, <1>5 DEF Range
<1> QED
  BY <1>1, <1>3, <1>6, <1>7

LEMMA NobodyUnknown ==
  ASSUME inputs \in PlanInputs
  PROVE  Nobody \notin Known
<1> SUFFICES ASSUME Nobody \in Known PROVE FALSE
  OBVIOUS
<1>1. Nobody[1] \in DOMAIN inputs /\ Nobody[1] = 0
  BY KnownDefinitions DEF Nobody
<1>2. inputs \in Seq(Range(inputs))
  BY PlanInputsAssumption
<1>3. DOMAIN inputs = 1..Len(inputs) /\ Len(inputs) \in Nat
  BY <1>2, LenProperties
<1> QED
  BY <1>1, <1>3

LEMMA AdmitNextKeeps ==
  ASSUME PlanInv, AdmitNext
  PROVE  PlanInv'
<1> DEFINE next == Head(agenda)
<1>1. /\ agenda # <<>> /\ Admit(next.at, next.role) /\ agenda' = Tail(agenda)
      /\ inputs' = inputs /\ seeds' = seeds /\ planPhase' = planPhase
      /\ refused' = refused /\ told' = told /\ untold' = untold
      /\ gaps' = IF next.needy = Nobody \/ next.at \in SelectedSet' THEN gaps
                 ELSE gaps \cup {<<next.needy, next.at, f.reason>> : f \in {x \in failures' : x.at = next.at}}
  BY DEF AdmitNext, SelectedSet
<1>2. PlanTypeOK /\ InTurn /\ Once /\ SelectedFit /\ SeedsLeftOut /\ Tally /\ GapsLast /\ NeedsDue
  BY DEF PlanInv
<1>3. /\ next \in AskOf /\ Tail(agenda) \in Seq(AskOf) /\ next \in Range(agenda)
      /\ Range(agenda') \subseteq Range(agenda)
      /\ \A x \in Range(agenda) : x = next \/ x \in Range(agenda')
  <2>1. agenda \in Seq(AskOf)
    BY <1>2 DEF PlanTypeOK
  <2> QED BY <1>1, <2>1, HeadAndTail
<1> HIDE DEF next
<1>4. next.at \in Spots /\ next.role \in Roles /\ next.needy \in Known \cup {Nobody}
  BY <1>3 DEF AskOf
<1>5. planPhase \in {"seeds", "environment"}
  BY <1>1, <1>2 DEF PlanTypeOK, InTurn
<1>6. /\ planPhase = "seeds" => next.role \in SeedRoles /\ next.needy = Nobody /\ SelectedSet = Direct /\ gaps = {}
      /\ planPhase = "environment" => next.role \notin SeedRoles
  <2>1. planPhase = "environment" => next.role \in OtherRoles
    BY <1>2, <1>3 DEF InTurn
  <2>2. planPhase = "seeds" => next.role \in SeedRoles /\ next.needy = Nobody /\ gaps = {}
    BY <1>2, <1>3 DEF InTurn
  <2>3. planPhase = "seeds" => SelectedSet = Direct
    BY <1>2 DEF InTurn, SelectedSet, Direct, SeedRoles
  <2> QED BY <2>1, <2>2, <2>3 DEF SeedRoles, OtherRoles
<1>7. next.role \in SeedRoles => SelectedSet = Direct
  BY <1>5, <1>6
<1>8. /\ candidates' \in SUBSET Spots /\ IsFiniteSet(candidates') /\ selected' \in Seq(Chosen)
      /\ \A f \in failures' : f.at \in Spots /\ f.explicit \in BOOLEAN
      /\ selected' = selected \/ \E e \in Chosen : selected' = Append(selected, e)
      /\ Once' /\ SelectedFit' /\ SeedsLeftOut'
  BY <1>1, <1>4, <1>7, AdmitKeeps
<1>9. /\ Known' = Known /\ Spots' = Spots /\ Usable' = Usable /\ FitSets' = FitSets /\ Needed' = Needed
      /\ AskOf' = AskOf /\ Chosen' = Chosen
  BY <1>1, OfTheInputs
<1>10. \/ SelectedSet' = SelectedSet /\ Direct' = Direct /\ selected' = selected
          /\ (next.at \in SelectedSet \/ (Barred(next.at, SelectedSet) /\ next.at \notin SelectedSet))
       \/ /\ SelectedSet' = SelectedSet \cup {next.at} /\ next.at \notin SelectedSet
          /\ ~Barred(next.at, SelectedSet) /\ next.at \in Usable
          /\ Direct' = Direct \cup (IF next.role \in SeedRoles THEN {next.at} ELSE {})
          /\ selected' = Append(selected, [at |-> next.at, role |-> next.role])
  <2> DEFINE at == next.at
             role == next.role
  <2>0. at \in Spots /\ role \in Roles /\ Admit(at, role) /\ (role \in SeedRoles => SelectedSet = Direct)
    BY <1>1, <1>4, <1>7 DEF next
  <2> HIDE DEF at, role
  <2>1. \/ /\ at \in SelectedSet /\ selected' = selected /\ failures' = failures /\ candidates' = candidates
           /\ SelectedSet' = SelectedSet /\ Direct' = Direct
        \/ /\ at \notin SelectedSet /\ at \in Usable /\ SelectedSet \cup {at} \in FitSets
           /\ selected' = Append(selected, [at |-> at, role |-> role])
           /\ failures' = {f \in failures : f.at # at} /\ candidates' = candidates \cup {at}
           /\ SelectedSet' = SelectedSet \cup {at}
           /\ Direct' = Direct \cup (IF role \in SeedRoles THEN {at} ELSE {})
        \/ /\ at \notin SelectedSet /\ Barred(at, SelectedSet)
           /\ selected' = selected /\ candidates' = candidates \cup {at}
           /\ SelectedSet' = SelectedSet /\ Direct' = Direct
           /\ Failure(at) \in Limits => at \in Usable
           /\ \/ (\E f \in failures : f.at = at) /\ failures' = failures
              \/ /\ ~\E f \in failures : f.at = at
                 /\ failures' = failures \cup
                      {[at |-> at, reason |-> Failure(at), explicit |-> role = "direct"]}
    BY <1>1, <2>0, AdmitSelects
  <2>2. at \in Usable /\ SelectedSet \cup {at} \in FitSets => ~Barred(at, SelectedSet)
    BY DEF Barred
  <2>3. \/ SelectedSet' = SelectedSet /\ Direct' = Direct /\ selected' = selected
           /\ (at \in SelectedSet \/ (Barred(at, SelectedSet) /\ at \notin SelectedSet))
        \/ /\ SelectedSet' = SelectedSet \cup {at} /\ at \notin SelectedSet
           /\ ~Barred(at, SelectedSet) /\ at \in Usable
           /\ Direct' = Direct \cup (IF role \in SeedRoles THEN {at} ELSE {})
           /\ selected' = Append(selected, [at |-> at, role |-> role])
    BY <2>1, <2>2
  <2> QED BY <2>3 DEF at, role
<1>11. next.at \notin SelectedSet' => \E f \in failures' : f.at = next.at
  <2>1. next.at \in candidates' /\ candidates' = SelectedSet' \cup {f.at : f \in failures'}
    <3>1. candidates' = candidates \cup {next.at}
      BY <1>1 DEF Admit
    <3> QED BY <1>8, <3>1 DEF Once
  <2> QED BY <2>1
<1>12. SelectedSet \subseteq SelectedSet'
  BY <1>10
<1>13. PlanTypeOK'
  BY <1>1, <1>2, <1>3, <1>8, <1>9 DEF PlanTypeOK
<1>14. InTurn'
  <2>1. ASSUME planPhase = "seeds" PROVE gaps' = {} /\ \A s \in Range(selected') : s.role \in SeedRoles
    <3>1. gaps' = {} /\ next.role \in SeedRoles
      BY <1>1, <1>6, <2>1
    <3>2. \A s \in Range(selected) : s.role \in SeedRoles
      BY <1>2, <2>1 DEF InTurn
    <3>3. CASE selected' = selected
      BY <3>1, <3>2, <3>3
    <3>4. CASE selected' = Append(selected, [at |-> next.at, role |-> next.role]) /\ next.at \in Usable
      <4>1. [at |-> next.at, role |-> next.role] \in Chosen /\ selected \in Seq(Chosen)
        BY <1>2, <1>4, <3>4 DEF Chosen, PlanTypeOK
      <4>2. Range(selected') = Range(selected) \cup {[at |-> next.at, role |-> next.role]}
        BY <3>4, <4>1, AppendedRange
      <4> QED BY <3>1, <3>2, <4>2
    <3> QED BY <1>10, <3>3, <3>4
  <2>2. planPhase = "seeds" => \A a \in Range(agenda') : a.role \in SeedRoles /\ a.needy = Nobody
    BY <1>2, <1>3 DEF InTurn
  <2>3. planPhase \in {"environment", "done"} => \A a \in Range(agenda') : a.role \in OtherRoles
    BY <1>2, <1>3 DEF InTurn
  <2>4. \A a \in Range(agenda') : a.needy # Nobody => a.needy \in SelectedSet' /\ <<a.needy, a.at>> \in Needed
    BY <1>2, <1>3, <1>12 DEF InTurn
  <2> QED BY <1>1, <1>5, <1>9, <2>1, <2>2, <2>3, <2>4 DEF InTurn
<1>15. Tally'
  BY <1>1, <1>2, <1>5 DEF Tally
<1>16. GapsLast'
  <2> SUFFICES ASSUME NEW g \in gaps'
               PROVE  /\ g[1] \in SelectedSet'
                      /\ \E n \in 0..Len(selected') : Barred(g[2], FirstSelected(n)')
    BY <1>9 DEF GapsLast, Barred
  <2>0. /\ Len(selected) \in Nat /\ FirstSelected(Len(selected)) = SelectedSet
        /\ \A n \in 0..Len(selected) : n \in 0..Len(selected') /\ FirstSelected(n)' = FirstSelected(n)
    <3>1. selected \in Seq(Chosen)
      BY <1>2 DEF PlanTypeOK
    <3> QED BY <1>8, <3>1, FirstOnes
  <2>1. CASE g \in gaps
    <3>1. g[1] \in SelectedSet
      BY <1>2, <2>1 DEF GapsLast
    <3>2. PICK n \in 0..Len(selected) : Barred(g[2], FirstSelected(n))
      BY <1>2, <2>1 DEF GapsLast, Barred
    <3> QED BY <1>12, <2>0, <3>1, <3>2
  <2>2. CASE g \notin gaps
    <3>1. next.needy # Nobody /\ next.at \notin SelectedSet' /\ g[1] = next.needy /\ g[2] = next.at
      BY <1>1, <2>2
    <3>2. Barred(next.at, SelectedSet)
      BY <1>10, <3>1
    <3>3. next.needy \in SelectedSet
      BY <1>2, <1>3, <3>1 DEF InTurn
    <3>4. PICK n \in 0..Len(selected) : n = Len(selected)
      BY <2>0
    <3>5. n \in 0..Len(selected') /\ FirstSelected(n)' = SelectedSet
      BY <2>0, <3>4
    <3> QED BY <1>12, <3>1, <3>2, <3>3, <3>5
  <2> QED BY <2>1, <2>2
<1>17. NeedsDue'
  <2> SUFFICES ASSUME planPhase = "environment", NEW p \in Needed, p[1] \in Direct'
               PROVE  \/ p[2] \in SelectedSet'
                      \/ \E g \in gaps' : g[1] = p[1] /\ g[2] = p[2]
                      \/ \E a \in Range(agenda') : a.at = p[2] /\ a.needy = p[1]
    BY <1>1, <1>5, <1>9 DEF NeedsDue
  <2>1. p[1] \in Direct
    BY <1>6, <1>10
  <2>2. gaps \subseteq gaps'
    BY <1>1
  <2>3. \/ p[2] \in SelectedSet
        \/ \E g \in gaps : g[1] = p[1] /\ g[2] = p[2]
        \/ \E a \in Range(agenda) : a.at = p[2] /\ a.needy = p[1]
    BY <1>2, <2>1 DEF NeedsDue
  <2>4. CASE next.at = p[2] /\ next.needy = p[1] /\ next.at \notin SelectedSet'
    <3>1. next.needy # Nobody
      <4>1. p[1] \in Known
        BY DEF Needed
      <4> QED BY <1>2, <2>4, <4>1, NobodyUnknown DEF PlanTypeOK
    <3>2. PICK f \in failures' : f.at = next.at
      BY <1>11, <2>4
    <3>3. <<next.needy, next.at, f.reason>> \in gaps'
      BY <1>1, <2>4, <3>1, <3>2
    <3> QED BY <2>4, <3>3
  <2> QED BY <1>3, <1>12, <2>2, <2>3, <2>4
<1> QED
  BY <1>8, <1>13, <1>14, <1>15, <1>16, <1>17 DEF PlanInv

\* Omissions are listed up to the limit and counted from there.
LEMMA ToldCounts ==
  ASSUME told \in 0..PlanDetails, untold \in Nat, NEW n \in Nat, Told(n)
  PROVE  told' \in 0..PlanDetails /\ untold' \in Nat /\ told' + untold' = told + untold + n
<1> DEFINE over == told + n - PlanDetails
<1>1. told \in Nat /\ told <= PlanDetails /\ PlanDetails \in Nat /\ over \in Int
  BY PlanAssumption
<1>2. told' = Min({told + n, PlanDetails}) /\ untold' = untold + Max({0, over})
  BY DEF Told
<1>3. Min({told + n, PlanDetails}) = IF over <= 0 THEN told + n ELSE PlanDetails
  <2>1. CASE over <= 0
    <3>1. told + n \in {told + n, PlanDetails} /\ \A x \in {told + n, PlanDetails} : told + n <= x
      BY <1>1, <2>1
    <3>2. \A x \in {told + n, PlanDetails} : (\A y \in {told + n, PlanDetails} : x <= y) => x = told + n
      BY <1>1, <2>1
    <3> QED BY <2>1, <3>1, <3>2 DEF Min
  <2>2. CASE ~(over <= 0)
    <3>1. PlanDetails \in {told + n, PlanDetails} /\ \A x \in {told + n, PlanDetails} : PlanDetails <= x
      BY <1>1, <2>2
    <3>2. \A x \in {told + n, PlanDetails} : (\A y \in {told + n, PlanDetails} : x <= y) => x = PlanDetails
      BY <1>1, <2>2
    <3> QED BY <2>2, <3>1, <3>2 DEF Min
  <2> QED BY <2>1, <2>2
<1>4. Max({0, over}) = IF over <= 0 THEN 0 ELSE over
  <2>1. \E x \in {0, over} : \A y \in {0, over} : x >= y
    BY <1>1
  <2>2. Max({0, over}) \in {0, over} /\ \A y \in {0, over} : Max({0, over}) >= y
    BY <2>1 DEF Max
  <2> HIDE DEF over
  <2> QED BY <1>1, <2>2
<1>5. over <= 0 => told' = told + n /\ untold' = untold + 0
  BY <1>2, <1>3, <1>4
<1>6. ~(over <= 0) => told' = PlanDetails /\ untold' = untold + over
  BY <1>2, <1>3, <1>4
<1>7. untold \in Nat /\ n \in Nat
  OBVIOUS
<1> QED
  BY <1>1, <1>5, <1>6, <1>7

\* What is selected, what failed and what the gaps are stays as it is.
LEMMA PlanFrame ==
  ASSUME PlanInv, inputs' = inputs, selected' = selected, candidates' = candidates, failures' = failures,
         gaps' = gaps
  PROVE  /\ SelectedSet' = SelectedSet /\ Direct' = Direct
         /\ Once' /\ SelectedFit' /\ SeedsLeftOut' /\ GapsLast'
<1>1. SelectedSet' = SelectedSet /\ Direct' = Direct
  BY DEF SelectedSet, Direct
<1>2. Known' = Known /\ Usable' = Usable /\ FitSets' = FitSets
  BY OfTheInputs
<1>7. \A n : FirstSelected(n)' = FirstSelected(n)
  BY DEF FirstSelected
<1>3. Once /\ SelectedFit /\ SeedsLeftOut /\ GapsLast
  BY DEF PlanInv
<1>4. Once'
  BY <1>1, <1>3 DEF Once
<1>5. SelectedFit' /\ SeedsLeftOut'
  BY <1>1, <1>2, <1>3, <1>7 DEF SelectedFit, SeedsLeftOut
<1>6. GapsLast'
  BY <1>1, <1>2, <1>3, <1>7 DEF GapsLast
<1> QED
  BY <1>1, <1>4, <1>5, <1>6

LEMMA DefinitionsOf ==
  ASSUME inputs \in PlanInputs, NEW f \in DOMAIN inputs
  PROVE  /\ IsFiniteSet(DOMAIN inputs[f].definitions) /\ DOMAIN inputs[f].definitions \in SUBSET Nat
         /\ \A ds \in SUBSET DOMAIN inputs[f].definitions : {f} \X ds \subseteq Spots
<1>1. inputs[f].definitions \in Seq(Range(inputs[f].definitions))
  BY PlanInputsAssumption DEF WellFormed
<1>2. DOMAIN inputs[f].definitions = 1..Len(inputs[f].definitions) /\ Len(inputs[f].definitions) \in Nat
  BY <1>1, LenProperties
<1>3. IsFiniteSet(DOMAIN inputs[f].definitions)
  BY <1>2, FS_Interval
<1> QED
  BY <1>2, <1>3 DEF Spots

LEMMA SelectFinds ==
  ASSUME NEW f, NEW seed, seed.by \in {"file", "symbol", "line"}
  PROVE  Select(f, seed) \subseteq DOMAIN inputs[f].definitions
<1>1. \A defs, name : Named(defs, name) \subseteq DOMAIN defs
  BY DEF Named
<1>2. \A defs, line : Around(defs, line) \subseteq DOMAIN defs
  BY DEF Around
<1> QED
  BY <1>1, <1>2 DEF Select

LEMMA TakeSeedKeeps ==
  ASSUME PlanInv, TakeSeed
  PROVE  PlanInv'
<1> DEFINE seed == Head(seeds)
           matching == {f \in DOMAIN inputs : inputs[f].path = seed.path}
           f == CHOOSE g \in matching : TRUE
           found == Select(f, seed)
<1>1. /\ planPhase = "seeds" /\ agenda = <<>> /\ seeds # <<>> /\ seeds' = Tail(seeds)
      /\ inputs' = inputs /\ planPhase' = planPhase /\ selected' = selected /\ gaps' = gaps
  BY DEF TakeSeed
<1>2. \/ \E reason \in Reasons : Refuse(reason)
      \/ /\ Cardinality(matching) = 1
         /\ candidates' = candidates \cup {<<f, d>> : d \in found}
         /\ failures' = {x \in failures : x.at \notin {<<f, d>> : d \in found}} \cup
              {[at |-> <<f, d>>, reason |-> "ambiguous", explicit |-> TRUE] : d \in found}
         /\ UNCHANGED <<agenda, refused, told, untold>>
      \/ /\ Cardinality(matching) = 1
         /\ agenda' = Ask(InFile(f, found), "direct", Nobody)
         /\ UNCHANGED <<candidates, failures, refused, told, untold>>
  <2> DEFINE unresolved == IF inputs[f].broken THEN "parse-error" ELSE "unresolved-definition"
  <2>1. IF Cardinality(matching) # 1 THEN Refuse("file")
        ELSE IF Unavailable(f) THEN Refuse("unavailable")
        ELSE IF found = {} THEN Refuse(unresolved)
        ELSE IF Cardinality(found) > 1 /\ seed.by # "file"
        THEN /\ candidates' = candidates \cup {<<f, d>> : d \in found}
             /\ failures' = {x \in failures : x.at \notin {<<f, d>> : d \in found}} \cup
                  {[at |-> <<f, d>>, reason |-> "ambiguous", explicit |-> TRUE] : d \in found}
             /\ UNCHANGED <<agenda, refused, told, untold>>
        ELSE /\ agenda' = Ask(InFile(f, found), "direct", Nobody)
             /\ UNCHANGED <<candidates, failures, refused, told, untold>>
    BY DEF TakeSeed
  <2>2. unresolved \in Reasons /\ "file" \in Reasons /\ "unavailable" \in Reasons
    <3>1. /\ "file" \in Reasons /\ "unavailable" \in Reasons
          /\ "parse-error" \in Reasons /\ "unresolved-definition" \in Reasons
      BY DEF Reasons
    <3>2. unresolved = "parse-error" \/ unresolved = "unresolved-definition"
      <4> HIDE DEF f
      <4>1. CASE inputs[f].broken
        BY <4>1
      <4>2. CASE ~inputs[f].broken
        BY <4>2
      <4> QED BY <4>1, <4>2
    <3> QED BY <3>1, <3>2
  <2> HIDE DEF seed, matching, f, found, unresolved
  <2> QED BY <2>1, <2>2
<1>3. PlanTypeOK /\ InTurn /\ Once /\ SelectedFit /\ SeedsLeftOut /\ Tally /\ GapsLast /\ NeedsDue
  BY DEF PlanInv
<1>4. /\ Known' = Known /\ Spots' = Spots /\ Usable' = Usable /\ FitSets' = FitSets
      /\ AskOf' = AskOf /\ Chosen' = Chosen /\ Needed' = Needed
  BY <1>1, OfTheInputs
<1>5. seed \in SeedValues /\ seeds' \in Seq(SeedValues)
  BY <1>1, <1>3, HeadAndTail DEF PlanTypeOK
<1>6. SelectedSet' = SelectedSet /\ Direct' = Direct
  BY <1>1 DEF SelectedSet, Direct
<1>7. Cardinality(matching) = 1 => f \in DOMAIN inputs /\ found \subseteq DOMAIN inputs[f].definitions
  <2> SUFFICES ASSUME Cardinality(matching) = 1 PROVE f \in DOMAIN inputs /\ found \subseteq DOMAIN inputs[f].definitions
    OBVIOUS
  <2>1. matching # {}
    BY FS_EmptySet
  <2>2. f \in DOMAIN inputs
    BY <2>1
  <2>3. seed.by \in {"file", "symbol", "line"}
    BY <1>5, PlanSeedsAssumption DEF SeedValues
  <2> HIDE DEF seed, f
  <2> QED BY <2>2, <2>3, SelectFinds
<1>8. NeedsDue'
  BY <1>1 DEF NeedsDue
<1> HIDE DEF seed, matching, f, found
<1>9. CASE \E reason \in Reasons : Refuse(reason)
  <2>1. PICK reason \in Reasons : /\ refused' = Append(refused, reason) /\ Told(1)
                                 /\ agenda' = agenda /\ candidates' = candidates /\ failures' = failures
    BY <1>9 DEF Refuse
  <2>2. told' \in 0..PlanDetails /\ untold' \in Nat /\ told' + untold' = told + untold + 1
    BY <1>3, <2>1, ToldCounts DEF PlanTypeOK
  <2>3. refused \in Seq(Reasons)
    BY <1>3 DEF PlanTypeOK
  <2>4. refused' \in Seq(Reasons) /\ Len(refused') = Len(refused) + 1 /\ Len(refused) \in Nat
    BY <2>1, <2>3, AppendProperties, LenProperties
  <2>5. Once' /\ SelectedFit' /\ SeedsLeftOut' /\ GapsLast'
    BY <1>1, <2>1, PlanFrame
  <2>6. PlanTypeOK'
    BY <1>1, <1>3, <1>4, <1>5, <2>1, <2>2, <2>4 DEF PlanTypeOK
  <2>7. InTurn'
    BY <1>1, <1>3, <1>4, <1>6, <2>1 DEF InTurn
  <2>8. Tally'
    <3>1. told + untold = Len(refused)
      BY <1>1, <1>3 DEF Tally
    <3>2. told' + untold' = Len(refused')
      BY <2>2, <2>4, <3>1
    <3> QED BY <1>1, <2>4, <3>2 DEF Tally
  <2> QED BY <1>8, <2>5, <2>6, <2>7, <2>8 DEF PlanInv
<1>10. CASE /\ Cardinality(matching) = 1
            /\ candidates' = candidates \cup {<<f, d>> : d \in found}
            /\ failures' = {x \in failures : x.at \notin {<<f, d>> : d \in found}} \cup
                 {[at |-> <<f, d>>, reason |-> "ambiguous", explicit |-> TRUE] : d \in found}
            /\ UNCHANGED <<agenda, refused, told, untold>>
  <2> DEFINE ats == {<<f, d>> : d \in found}
             new == {[at |-> <<f, d>>, reason |-> "ambiguous", explicit |-> TRUE] : d \in found}
  <2>1. /\ \A x \in new : x.at \in ats /\ x.reason = "ambiguous" /\ x.explicit = TRUE
        /\ \A x, y \in new : x.at = y.at => x = y
        /\ \A at \in ats : \E x \in new : x.at = at
    <3> DEFINE fails(d) == [at |-> <<f, d>>, reason |-> "ambiguous", explicit |-> TRUE]
    <3>1. \A d \in found : fails(d).at = <<f, d>> /\ fails(d).reason = "ambiguous" /\ fails(d).explicit = TRUE
      OBVIOUS
    <3>2. new = {fails(d) : d \in found} /\ ats = {<<f, d>> : d \in found}
      OBVIOUS
    <3> HIDE DEF fails, new, ats
    <3>3. \A x \in new : x.at \in ats /\ x.reason = "ambiguous" /\ x.explicit = TRUE
      BY <3>1, <3>2
    <3>4. \A x, y \in new : x.at = y.at => x = y
      <4> SUFFICES ASSUME NEW x \in new, NEW y \in new, x.at = y.at PROVE x = y
        OBVIOUS
      <4>1. PICK d \in found : x = fails(d)
        BY <3>2
      <4>2. PICK e \in found : y = fails(e)
        BY <3>2
      <4>3. <<f, d>> = <<f, e>>
        BY <3>1, <4>1, <4>2
      <4> QED BY <4>1, <4>2, <4>3
    <3>5. \A at \in ats : \E x \in new : x.at = at
      BY <3>1, <3>2
    <3> QED BY <3>3, <3>4, <3>5
  <2>2. ats \subseteq Spots /\ IsFiniteSet(ats)
    <3>1. f \in DOMAIN inputs /\ found \subseteq DOMAIN inputs[f].definitions
      BY <1>7, <1>10
    <3>2. IsFiniteSet(found) /\ found \subseteq Nat
      BY <1>3, <3>1, DefinitionsOf, FS_Subset DEF PlanTypeOK
    <3> DEFINE spot == [d \in found |-> <<f, d>>]
    <3>3. spot \in Surjection(found, ats)
      BY DEF Surjection
    <3>4. ats \subseteq Spots
      BY <3>1, <3>2 DEF Spots
    <3> HIDE DEF spot, ats
    <3> QED BY <3>2, <3>3, <3>4, FS_Surjection
  <2>3. candidates' = candidates \cup ats /\ failures' = {x \in failures : x.at \notin ats} \cup new
    BY <1>10
  <2> HIDE DEF ats, new
  <2>4. PlanTypeOK'
    <3>1. \A x \in failures' : x.at \in Spots /\ x.explicit \in BOOLEAN
      BY <1>3, <2>1, <2>2, <2>3 DEF PlanTypeOK
    <3>2. candidates' \in SUBSET Spots /\ IsFiniteSet(candidates')
      BY <1>3, <2>2, <2>3, FS_Union DEF PlanTypeOK
    <3> QED BY <1>1, <1>3, <1>4, <1>5, <1>10, <3>1, <3>2 DEF PlanTypeOK
  <2>5. Once'
    <3>1. \A x, y \in failures' : x.at = y.at => x = y
      BY <1>3, <2>1, <2>3 DEF Once
    <3>2. {x.at : x \in failures'} = {x.at : x \in failures} \cup ats
      <4>1. {x.at : x \in failures'} \subseteq {x.at : x \in failures} \cup ats
        BY <2>1, <2>3
      <4>2. ASSUME NEW x \in failures PROVE x.at \in {y.at : y \in failures'}
        <5>1. CASE x.at \in ats
          BY <2>1, <2>3, <5>1
        <5>2. CASE x.at \notin ats
          BY <2>3, <5>2
        <5> QED BY <5>1, <5>2
      <4>3. ats \subseteq {y.at : y \in failures'}
        BY <2>1, <2>3
      <4> QED BY <4>1, <4>2, <4>3
    <3>3. candidates = SelectedSet \cup {x.at : x \in failures}
      BY <1>3 DEF Once
    <3>4. candidates' = SelectedSet' \cup {x.at : x \in failures'}
      BY <1>6, <2>3, <3>2, <3>3
    <3> QED BY <1>1, <1>3, <3>1, <3>4 DEF Once
  <2>6. SelectedFit'
    BY <1>3, <1>4, <1>6 DEF SelectedFit
  <2>7. SeedsLeftOut'
    <3>1. "ambiguous" \notin Limits
      BY DEF Limits
    <3>2. selected' = selected /\ \A n : FirstSelected(n)' = FirstSelected(n)
      BY <1>1 DEF FirstSelected
    <3> QED BY <1>3, <1>4, <1>6, <2>1, <2>3, <3>1, <3>2 DEF SeedsLeftOut
  <2>8. GapsLast'
    <3>1. selected' = selected /\ \A n : FirstSelected(n)' = FirstSelected(n)
      BY <1>1 DEF FirstSelected
    <3> QED BY <1>1, <1>3, <1>4, <1>6, <3>1 DEF GapsLast
  <2>9. InTurn'
    BY <1>1, <1>3, <1>4, <1>6, <1>10 DEF InTurn
  <2>10. Tally'
    BY <1>1, <1>3, <1>10 DEF Tally
  <2> QED BY <1>8, <2>4, <2>5, <2>6, <2>7, <2>8, <2>9, <2>10 DEF PlanInv
<1>11. CASE /\ Cardinality(matching) = 1
            /\ agenda' = Ask(InFile(f, found), "direct", Nobody)
            /\ UNCHANGED <<candidates, failures, refused, told, untold>>
  <2>1. f \in DOMAIN inputs /\ found \subseteq DOMAIN inputs[f].definitions
    BY <1>7, <1>11
  <2>2. found \in SUBSET Nat /\ IsFiniteSet(found) /\ {f} \X found \subseteq Spots
    BY <1>3, <2>1, DefinitionsOf, FS_Subset DEF PlanTypeOK
  <2>3. InFile(f, found) \in Seq({f} \X found)
    BY <2>2, InFileNames
  <2> DEFINE R == [at : {f} \X found, role : {"direct"}, needy : {Nobody}]
  <2>4. agenda' \in Seq(R)
    BY <1>11, <2>3, AskNames
  <2>5. R \subseteq AskOf /\ \A a \in R : a.role \in SeedRoles /\ a.needy = Nobody
    BY <2>2 DEF AskOf, SeedRoles, Roles
  <2> HIDE DEF R
  <2>6. agenda' \in Seq(AskOf) /\ \A a \in Range(agenda') : a.role \in SeedRoles /\ a.needy = Nobody
    <3>1. Range(agenda') \subseteq R
      BY <2>4, RangeOfSeq
    <3> QED BY <2>4, <2>5, <3>1, SeqMonotonic
  <2>7. Once' /\ SelectedFit' /\ SeedsLeftOut' /\ GapsLast'
    BY <1>1, <1>11, PlanFrame
  <2>8. PlanTypeOK'
    BY <1>1, <1>3, <1>4, <1>5, <1>11, <2>6 DEF PlanTypeOK
  <2>9. InTurn'
    BY <1>1, <1>3, <1>4, <1>6, <2>6 DEF InTurn
  <2>10. Tally'
    BY <1>1, <1>3, <1>11 DEF Tally
  <2> QED BY <1>8, <2>7, <2>8, <2>9, <2>10 DEF PlanInv
<1> QED
  BY <1>2, <1>9, <1>10, <1>11

LEMMA EnvironmentKeeps ==
  ASSUME PlanInv, Environment
  PROVE  PlanInv'
<1> DEFINE part(i) ==
             Ask([n \in DOMAIN DefinitionAt(selected[i].at).needs |->
                    <<selected[i].at[1], DefinitionAt(selected[i].at).needs[n]>>],
                 "environment", selected[i].at)
           parts == [i \in DOMAIN selected |-> part(i)]
           T == {a \in AskOf : /\ a.role \in OtherRoles /\ a.needy \in SelectedSet
                               /\ <<a.needy, a.at>> \in Needed}
<1>1. /\ planPhase = "seeds" /\ agenda = <<>> /\ agenda' = FlattenSeq(parts) /\ planPhase' = "environment"
      /\ inputs' = inputs /\ seeds' = seeds /\ candidates' = candidates /\ selected' = selected
      /\ gaps' = gaps /\ failures' = failures /\ refused' = refused /\ told' = told /\ untold' = untold
  BY DEF Environment
<1>2. PlanTypeOK /\ InTurn /\ Once /\ SelectedFit /\ SeedsLeftOut /\ Tally /\ GapsLast /\ NeedsDue
  BY DEF PlanInv
<1>3. /\ Known' = Known /\ Spots' = Spots /\ Usable' = Usable /\ FitSets' = FitSets
      /\ AskOf' = AskOf /\ Chosen' = Chosen /\ Needed' = Needed
  BY <1>1, OfTheInputs
<1>4. /\ SelectedSet' = SelectedSet /\ Direct' = Direct
      /\ Once' /\ SelectedFit' /\ SeedsLeftOut' /\ GapsLast'
  BY <1>1, PlanFrame
<1>5. ASSUME NEW i \in DOMAIN selected
      PROVE  /\ part(i) \in Seq(T)
             /\ \A n \in DOMAIN DefinitionAt(selected[i].at).needs :
                  n \in DOMAIN part(i) /\ part(i)[n].needy = selected[i].at
                    /\ part(i)[n].at = <<selected[i].at[1], DefinitionAt(selected[i].at).needs[n]>>
  <2> DEFINE at == selected[i].at
             needs == DefinitionAt(at).needs
             ats == [n \in DOMAIN needs |-> <<at[1], needs[n]>>]
  <2>1. at \in SelectedSet /\ at \in Known
    <3>1. selected \in Seq(Chosen)
      BY <1>2 DEF PlanTypeOK
    <3>2. selected[i] \in Chosen
      BY <3>1, ElementOfSeq, LenProperties
    <3> QED BY <3>2 DEF Chosen, SelectedSet, Range, Usable
  <2>2. needs \in Seq(Nat \ {0}) /\ at[1] \in DOMAIN inputs
    BY <1>2, <2>1, KnownDefinitions DEF PlanTypeOK
  <2> HIDE DEF at
  <2> DEFINE U == {x \in Spots : <<at, x>> \in Needed}
  <2>3. ASSUME NEW n \in DOMAIN needs PROVE <<at[1], needs[n]>> \in U
    <3>1. needs[n] \in Nat /\ needs[n] \in Range(needs)
      BY <2>2, ElementOfSeq, LenProperties DEF Range
    <3>2. <<at[1], needs[n]>> \in Spots
      BY <2>2, <3>1 DEF Spots
    <3> QED BY <2>1, <3>1, <3>2 DEF Needed
  <2>4. DOMAIN needs = 1..Len(needs) /\ Len(needs) \in Nat
    BY <2>2, LenProperties
  <2>5. ats \in Seq(U)
    <3>1. ats \in [1..Len(needs) -> U]
      BY <2>3, <2>4
    <3> HIDE DEF U, ats
    <3> QED BY <2>4, <3>1
  <2> DEFINE R == [at : U, role : {"environment"}, needy : {at}]
  <2>6. R \subseteq T
    <3> SUFFICES ASSUME NEW a \in R PROVE a \in T
      OBVIOUS
    <3>1. a.at \in Spots /\ a.role = "environment" /\ a.needy = at /\ <<at, a.at>> \in Needed
      OBVIOUS
    <3>2. a \in AskOf
      BY <2>1, <3>1 DEF AskOf, Roles, OtherRoles
    <3> QED BY <2>1, <3>1, <3>2 DEF OtherRoles
  <2>7. part(i) = Ask(ats, "environment", at)
    BY DEF at
  <2>8. DOMAIN ats = DOMAIN needs /\ \A n \in DOMAIN needs : ats[n] = <<at[1], needs[n]>>
    OBVIOUS
  <2> HIDE DEF part, ats, U, needs
  <2>9. /\ part(i) \in Seq(R) /\ DOMAIN part(i) = DOMAIN needs
        /\ \A n \in DOMAIN needs : part(i)[n] = [at |-> ats[n], role |-> "environment", needy |-> at]
    <3>1. /\ Ask(ats, "environment", at) \in Seq([at : U, role : {"environment"}, needy : {at}])
          /\ DOMAIN Ask(ats, "environment", at) = DOMAIN ats
          /\ \A n \in DOMAIN ats :
               Ask(ats, "environment", at)[n] = [at |-> ats[n], role |-> "environment", needy |-> at]
      BY <2>5, AskNames
    <3> HIDE DEF R
    <3> QED BY <2>7, <2>8, <3>1 DEF R
  <2> HIDE DEF R, T
  <2>10. part(i) \in Seq(T)
    BY <2>6, <2>9, SeqMonotonic
  <2>11. \A n \in DOMAIN needs : /\ n \in DOMAIN part(i) /\ part(i)[n].needy = at
                                 /\ part(i)[n].at = <<at[1], needs[n]>>
    BY <2>8, <2>9
  <2> QED BY <2>10, <2>11 DEF at, needs
<1> HIDE DEF T, part
<1>6. parts \in Seq(Seq(T))
  <2>1. selected \in Seq(Chosen)
    BY <1>2 DEF PlanTypeOK
  <2>2. DOMAIN selected = 1..Len(selected) /\ Len(selected) \in Nat
    BY <2>1, LenProperties
  <2>3. parts \in [1..Len(selected) -> Seq(T)]
    BY <1>5, <2>2
  <2> HIDE DEF parts
  <2> QED BY <2>2, <2>3
<1>7. agenda' \in Seq(T) /\ \A i \in DOMAIN selected : Holds(agenda', part(i))
  <2>1. /\ FlattenSeq(parts) \in Seq(T)
        /\ \A i \in DOMAIN parts : Holds(FlattenSeq(parts), parts[i])
    <3> HIDE DEF parts
    <3> QED BY <1>6, Flattened
  <2> QED BY <1>1, <2>1
<1>8. agenda' \in Seq(AskOf) /\ Range(agenda') \subseteq T
  <2>1. T \subseteq AskOf
    BY DEF T
  <2> QED BY <1>7, <2>1, SeqMonotonic, RangeOfSeq
<1>9. PlanTypeOK'
  BY <1>1, <1>2, <1>3, <1>8 DEF PlanTypeOK
<1>10. InTurn'
  <2>1. \A a \in Range(agenda') : a.role \in OtherRoles /\ a.needy \in SelectedSet /\ <<a.needy, a.at>> \in Needed
    BY <1>8 DEF T
  <2> QED BY <1>1, <1>3, <1>4, <2>1 DEF InTurn
<1>11. Tally'
  BY <1>1, <1>2 DEF Tally
<1>12. NeedsDue'
  <2> SUFFICES ASSUME NEW p \in Needed, p[1] \in Direct
               PROVE  \E a \in Range(agenda') : a.at = p[2] /\ a.needy = p[1]
    BY <1>3, <1>4 DEF NeedsDue
  <2>1. PICK i \in DOMAIN selected : selected[i].at = p[1]
    BY DEF Direct, Range
  <2>2. p[2] = <<p[2][1], p[2][2]>> /\ p[1][1] = p[2][1] /\ p[2][2] \in Range(DefinitionAt(p[1]).needs)
    <3>1. p[2] \in Spots
      BY DEF Needed
    <3> QED BY <1>2, <3>1, KnownSpots DEF Needed, PlanTypeOK
  <2>3. PICK n \in DOMAIN DefinitionAt(p[1]).needs : DefinitionAt(p[1]).needs[n] = p[2][2]
    BY <2>2 DEF Range
  <2>4. n \in DOMAIN part(i) /\ part(i)[n].needy = p[1] /\ part(i)[n].at = p[2]
    BY <1>5, <2>1, <2>2, <2>3
  <2>5. PICK j \in DOMAIN agenda' : agenda'[j] = part(i)[n]
    BY <1>7, <2>4 DEF Holds
  <2>6. agenda'[j] \in Range(agenda')
    BY DEF Range
  <2> QED BY <2>4, <2>5, <2>6
<1> QED
  BY <1>4, <1>9, <1>10, <1>11, <1>12 DEF PlanInv

LEMMA ExpandKeeps ==
  ASSUME PlanInv, Expand
  PROVE  PlanInv'
<1> DEFINE part(f) == Ask(InFile(f, DOMAIN inputs[f].definitions), "expansion", Nobody)
           parts == [f \in DOMAIN inputs |-> part(f)]
           T == {a \in AskOf : a.role \in OtherRoles /\ a.needy = Nobody}
           missing == Cardinality({f \in DOMAIN inputs : Unavailable(f)})
<1>1. /\ planPhase = "expand" /\ agenda = <<>> /\ agenda' = FlattenSeq(parts) /\ planPhase' = "environment"
      /\ refused' = [i \in 1..missing |-> "unavailable"] /\ Told(missing)
      /\ inputs' = inputs /\ seeds' = seeds /\ candidates' = candidates /\ selected' = selected
      /\ gaps' = gaps /\ failures' = failures
  BY DEF Expand
<1>2. PlanTypeOK /\ InTurn /\ Once /\ SelectedFit /\ SeedsLeftOut /\ Tally /\ GapsLast /\ NeedsDue
  BY DEF PlanInv
<1>3. /\ Known' = Known /\ Spots' = Spots /\ Usable' = Usable /\ FitSets' = FitSets
      /\ AskOf' = AskOf /\ Chosen' = Chosen /\ Needed' = Needed
  BY <1>1, OfTheInputs
<1>4. /\ SelectedSet' = SelectedSet /\ Direct' = Direct
      /\ Once' /\ SelectedFit' /\ SeedsLeftOut' /\ GapsLast'
  BY <1>1, PlanFrame
<1>5. ASSUME NEW f \in DOMAIN inputs PROVE part(f) \in Seq(T)
  <2> DEFINE ds == DOMAIN inputs[f].definitions
             R == [at : {f} \X ds, role : {"expansion"}, needy : {Nobody}]
  <2>1. ds \in SUBSET Nat /\ IsFiniteSet(ds) /\ {f} \X ds \subseteq Spots
    BY <1>2, DefinitionsOf DEF PlanTypeOK
  <2> HIDE DEF ds
  <2>2. InFile(f, ds) \in Seq({f} \X ds)
    BY <2>1, InFileNames
  <2>3. Ask(InFile(f, ds), "expansion", Nobody) \in Seq(R)
    BY <2>2, AskNames
  <2>4. R \subseteq T
    BY <2>1 DEF AskOf, OtherRoles, Roles
  <2> HIDE DEF R, T
  <2>5. Ask(InFile(f, ds), "expansion", Nobody) \in Seq(T)
    BY <2>3, <2>4, SeqMonotonic
  <2> QED BY <2>5 DEF ds
<1>6. DOMAIN inputs = 1..Len(inputs) /\ Len(inputs) \in Nat
  <2>1. inputs \in Seq(Range(inputs))
    BY <1>2, PlanInputsAssumption DEF PlanTypeOK
  <2> QED BY <2>1, LenProperties
<1> HIDE DEF T, part
<1>7. parts \in Seq(Seq(T))
  <2>1. parts \in [1..Len(inputs) -> Seq(T)]
    BY <1>5, <1>6
  <2> HIDE DEF parts
  <2> QED BY <1>6, <2>1
<1>8. agenda' \in Seq(T)
  <2> HIDE DEF parts
  <2> QED BY <1>1, <1>7, Flattened
<1>9. agenda' \in Seq(AskOf) /\ \A a \in Range(agenda') : a.role \in OtherRoles /\ a.needy = Nobody
  <2>1. T \subseteq AskOf /\ \A a \in T : a.role \in OtherRoles /\ a.needy = Nobody
    BY DEF T
  <2>2. Range(agenda') \subseteq T
    BY <1>8, RangeOfSeq
  <2> QED BY <1>8, <2>1, <2>2, SeqMonotonic
<1>10. missing \in Nat
  <2>1. IsFiniteSet(DOMAIN inputs) /\ {f \in DOMAIN inputs : Unavailable(f)} \subseteq DOMAIN inputs
    BY <1>6, FS_Interval
  <2> QED BY <2>1, FS_Subset, FS_CardinalityType
<1> HIDE DEF missing
<1>11. refused' \in Seq(Reasons) /\ Len(refused') = missing
  <2>1. refused' \in [1..missing -> Reasons]
    BY <1>1 DEF Reasons
  <2> QED BY <1>10, <2>1
<1>12. told = 0 /\ untold = 0 /\ selected = <<>> /\ gaps = {}
  <2>1. selected = <<>> /\ told = 0 /\ untold = 0
    BY <1>1, <1>2 DEF InTurn
  <2>2. SelectedSet = {}
    BY <2>1 DEF SelectedSet, Range
  <2> QED BY <1>2, <2>1, <2>2 DEF GapsLast
<1>13. told' \in 0..PlanDetails /\ untold' \in Nat /\ told' + untold' = missing
  <2>1. told \in 0..PlanDetails /\ untold \in Nat
    BY <1>2 DEF PlanTypeOK
  <2>2. told' \in 0..PlanDetails /\ untold' \in Nat /\ told' + untold' = told + untold + missing
    BY <1>1, <1>10, <2>1, ToldCounts
  <2>3. told + untold = 0
    BY <1>12
  <2>4. told + untold + missing = missing
    BY <1>10, <2>3
  <2> QED BY <2>2, <2>4
<1>14. PlanTypeOK'
  BY <1>1, <1>2, <1>3, <1>9, <1>11, <1>13 DEF PlanTypeOK
<1>15. InTurn'
  BY <1>1, <1>9 DEF InTurn
<1>16. Tally'
  BY <1>1, <1>11, <1>13 DEF Tally
<1>17. NeedsDue'
  <2>1. Direct = {}
    BY <1>12 DEF Direct, Range
  <2> QED BY <1>4, <2>1 DEF NeedsDue
<1> QED
  BY <1>4, <1>14, <1>15, <1>16, <1>17 DEF PlanInv

\* Of what failed and is not selected there is one failure each.
LEMMA UnselectedCounted ==
  ASSUME PlanInv
  PROVE  Cardinality(Unselected) = Cardinality(candidates \ SelectedSet) /\ Cardinality(Unselected) \in Nat
<1> DEFINE unmet == candidates \ SelectedSet
           failed == [x \in unmet |-> CHOOSE f \in failures : f.at = x]
<1>1. /\ IsFiniteSet(candidates)
      /\ \A f, g \in failures : f.at = g.at => f = g
      /\ candidates = SelectedSet \cup {f.at : f \in failures}
  BY DEF PlanInv, PlanTypeOK, Once
<1>2. IsFiniteSet(unmet)
  BY <1>1, FS_Subset
<1>3. \A x \in unmet : failed[x] \in failures /\ failed[x].at = x
  <2> SUFFICES ASSUME NEW x \in unmet PROVE failed[x] \in failures /\ failed[x].at = x
    OBVIOUS
  <2>1. \E f \in failures : f.at = x
    BY <1>1
  <2> QED BY <2>1
<1>4. failed \in [unmet -> Unselected]
  BY <1>3 DEF Unselected
<1> DEFINE unselected == Unselected
<1>5. \A f \in unselected : f \in failures /\ f.at \in unmet
  BY <1>1 DEF Unselected
<1> HIDE DEF failed, unmet, unselected
<1>6. failed \in Injection(unmet, unselected)
  BY <1>3, <1>4 DEF Injection, IsInjective, unselected
<1>7. failed \in Surjection(unmet, unselected)
  <2>1. \A f \in unselected : f.at \in unmet /\ failed[f.at] = f
    BY <1>1, <1>3, <1>5
  <2> QED BY <1>4, <2>1 DEF Surjection, unselected
<1>8. IsFiniteSet(unselected) /\ Cardinality(unselected) = Cardinality(unmet)
  BY <1>2, <1>6, <1>7, FS_Surjection
<1> QED
  BY <1>8, FS_CardinalityType DEF unmet, unselected

LEMMA FinishKeeps ==
  ASSUME PlanInv, Finish
  PROVE  PlanInv'
<1>1. /\ planPhase = "environment" /\ agenda = <<>> /\ Told(Cardinality(Unselected)) /\ planPhase' = "done"
      /\ inputs' = inputs /\ seeds' = seeds /\ agenda' = agenda /\ candidates' = candidates
      /\ selected' = selected /\ gaps' = gaps /\ failures' = failures /\ refused' = refused
  BY DEF Finish
<1>2. PlanTypeOK /\ InTurn /\ Once /\ SelectedFit /\ SeedsLeftOut /\ Tally /\ GapsLast /\ NeedsDue
  BY DEF PlanInv
<1>3. /\ Known' = Known /\ Spots' = Spots /\ Usable' = Usable /\ FitSets' = FitSets
      /\ AskOf' = AskOf /\ Chosen' = Chosen /\ Needed' = Needed
  BY <1>1, OfTheInputs
<1>4. /\ SelectedSet' = SelectedSet /\ Direct' = Direct
      /\ Once' /\ SelectedFit' /\ SeedsLeftOut' /\ GapsLast'
  BY <1>1, PlanFrame
<1>5. Cardinality(Unselected) = Cardinality(candidates \ SelectedSet) /\ Cardinality(Unselected) \in Nat
  BY UnselectedCounted
<1>6. told' \in 0..PlanDetails /\ untold' \in Nat
      /\ told' + untold' = told + untold + Cardinality(candidates \ SelectedSet)
  BY <1>1, <1>2, <1>5, ToldCounts DEF PlanTypeOK
<1>7. PlanTypeOK'
  BY <1>1, <1>2, <1>3, <1>6 DEF PlanTypeOK
<1>8. InTurn'
  BY <1>1, <1>2, <1>3, <1>4 DEF InTurn
<1>9. Tally'
  <2>1. told + untold = Len(refused)
    <3>1. Len(refused) \in Nat
      BY <1>2, LenProperties DEF PlanTypeOK
    <3> QED BY <1>1, <1>2, <3>1 DEF Tally
  <2>2. candidates' \ SelectedSet' = candidates \ SelectedSet
    BY <1>1, <1>4
  <2> QED BY <1>1, <1>6, <2>1, <2>2 DEF Tally
<1>10. NeedsDue'
  BY <1>1, <1>2, <1>3, <1>4 DEF NeedsDue
<1> QED
  BY <1>4, <1>7, <1>8, <1>9, <1>10 DEF PlanInv

(***************************************************************************)
(* The planner takes the seeds before what they need, selects nothing      *)
(* twice, keeps with every gap a selection beside which it did not fit,    *)
(* and counts every omission: the inductive invariant of                   *)
(* definitions::plan, for all files, seeds and limits, whatever the spans  *)
(* are and whatever they cost.                                             *)
(***************************************************************************)
THEOREM PlanInductive == PlanSpec => []PlanInv
<1>1. PlanInit => PlanInv
  BY PlanStarts
<1>2. PlanInv /\ [PlanNext]_planVars => PlanInv'
  <2> SUFFICES ASSUME PlanInv, [PlanNext]_planVars PROVE PlanInv'
    OBVIOUS
  <2>1. CASE TakeSeed
    BY <2>1, TakeSeedKeeps
  <2>2. CASE AdmitNext
    BY <2>2, AdmitNextKeeps
  <2>3. CASE Environment
    BY <2>3, EnvironmentKeeps
  <2>4. CASE Expand
    BY <2>4, ExpandKeeps
  <2>5. CASE Finish
    BY <2>5, FinishKeeps
  <2>6. CASE UNCHANGED planVars
    <3>1. /\ inputs' = inputs /\ seeds' = seeds /\ agenda' = agenda /\ planPhase' = planPhase
          /\ candidates' = candidates /\ selected' = selected /\ gaps' = gaps /\ failures' = failures
          /\ refused' = refused /\ told' = told /\ untold' = untold
      BY <2>6 DEF planVars
    <3>2. /\ Known' = Known /\ Spots' = Spots /\ AskOf' = AskOf /\ Chosen' = Chosen /\ Needed' = Needed
          /\ SelectedSet' = SelectedSet /\ Direct' = Direct
          /\ Once' /\ SelectedFit' /\ SeedsLeftOut' /\ GapsLast'
      BY <3>1, OfTheInputs, PlanFrame
    <3>3. PlanTypeOK' /\ Tally'
      BY <3>1, <3>2 DEF PlanInv, PlanTypeOK, Tally
    <3>4. InTurn' /\ NeedsDue'
      BY <3>1, <3>2 DEF PlanInv, InTurn, NeedsDue
    <3> QED BY <3>2, <3>3, <3>4 DEF PlanInv
  <2> QED BY <2>1, <2>2, <2>3, <2>4, <2>5, <2>6 DEF PlanNext
<1> QED BY <1>1, <1>2, PTL DEF PlanSpec

(***************************************************************************)
(* What definitions::plan selects fits the limits, source that overlaps    *)
(* paid once, and its outermost spans neither cross nor differ in price; a *)
(* seed is left out only where it did not fit beside the seeds selected    *)
(* before it; in the end every candidate is selected or counted as an      *)
(* omission, and every need of a seed's definition is selected or a gap,   *)
(* which names a selected definition only where one is within another.     *)
(***************************************************************************)
THEOREM PlanIsSound == PlanSpec => []PlanSound
<1>1. PlanInv => PlanSound
  <2> SUFFICES ASSUME PlanInv PROVE PlanSound
    OBVIOUS
  <2>1. PlanTypeOK /\ InTurn /\ SelectedFit /\ SeedsLeftOut /\ Tally /\ GapsLast /\ NeedsDue
    BY DEF PlanInv
  <2>2. Direct \subseteq SelectedSet /\ SelectedSet \in SUBSET Usable /\ inputs \in PlanInputs
    BY <2>1, DirectIsSelected DEF SelectedFit, FitSets, PlanTypeOK
  <2>6. \A n \in 0..Len(selected) : FirstSelected(n) \subseteq SelectedSet
    <3>1. selected \in Seq(Chosen)
      BY <2>1 DEF PlanTypeOK
    <3>2. DOMAIN selected = 1..Len(selected) /\ Len(selected) \in Nat
      BY <3>1, LenProperties
    <3> QED BY <3>2 DEF FirstSelected, SelectedSet, Range
  <2>3. SeedsBeforeNeeds
    <3>1. Fits(SelectedSet)
      BY <2>1 DEF SelectedFit, FitSets
    <3>2. ASSUME NEW f \in failures, f.explicit, f.at \notin SelectedSet, f.reason \in Limits
          PROVE  \E n \in 0..Len(selected) :
                   FirstSelected(n) \subseteq Direct /\ ~Fits(FirstSelected(n) \cup {f.at})
      <4>1. f.at \in Usable
        BY <2>1, <3>2 DEF SeedsLeftOut
      <4>2. PICK n \in 0..Len(selected) :
              FirstSelected(n) \subseteq Direct /\ FirstSelected(n) \cup {f.at} \notin FitSets
        BY <2>1, <3>2 DEF SeedsLeftOut
      <4>3. FirstSelected(n) \cup {f.at} \in SUBSET Usable
        BY <2>2, <2>6, <4>1
      <4> QED BY <4>2, <4>3 DEF FitSets
    <3> QED BY <3>1, <3>2 DEF SeedsBeforeNeeds
  <2>4. CandidatesTold
    BY <2>1 DEF CandidatesTold, Tally
  <2>5. NeedsAreMetOrGaps
    <3>1. ASSUME NEW g \in gaps
          PROVE  g[1] \in SelectedSet /\ (g[2] \in SelectedSet => \E p, q \in SelectedSet : Inside(p, q))
      <4>1. g[1] \in SelectedSet
        BY <2>1 DEF GapsLast
      <4>2. PICK n \in 0..Len(selected) : FirstSelected(n) \cup {g[2]} \notin FitSets
        BY <2>1 DEF GapsLast
      <4>3. ASSUME g[2] \in SelectedSet, ~\E p, q \in SelectedSet : Inside(p, q) PROVE FALSE
        <5>1. FirstSelected(n) \cup {g[2]} \in SUBSET SelectedSet
          BY <2>6, <4>3
        <5>2. SelectedSet \in FitSets
          BY <2>1 DEF SelectedFit
        <5>3. FirstSelected(n) \cup {g[2]} \in FitSets
          BY <2>2, <4>3, <5>1, <5>2, PartFitsToo
        <5> QED BY <4>2, <5>3
      <4> QED BY <4>1, <4>3
    <3>2. ASSUME planPhase = "done", NEW at \in Direct, NEW n \in Range(DefinitionAt(at).needs)
          PROVE  <<at[1], n>> \in SelectedSet \/ \E g \in gaps : g[1] = at /\ g[2] = <<at[1], n>>
      <4> DEFINE p == <<at, <<at[1], n>>>>
      <4>1. at \in Known /\ inputs \in PlanInputs
        BY <2>2, KnownSpots
      <4>2. at[1] \in DOMAIN inputs /\ DefinitionAt(at).needs \in Seq(Nat \ {0})
        BY <4>1, KnownDefinitions
      <4>3. n \in Nat
        BY <4>2, RangeOfSeq
      <4>4. <<at[1], n>> \in Spots
        BY <4>2, <4>3 DEF Spots
      <4>5. p \in Needed /\ p[1] = at /\ p[2] = <<at[1], n>>
        BY <4>1, <4>4 DEF Needed
      <4>6. Range(agenda) = {}
        <5>1. agenda = <<>>
          BY <2>1, <3>2 DEF InTurn
        <5> QED BY <5>1 DEF Range
      <4> HIDE DEF p
      <4>7. p[2] \in SelectedSet \/ \E g \in gaps : g[1] = p[1] /\ g[2] = p[2]
        BY <2>1, <3>2, <4>5, <4>6 DEF NeedsDue
      <4> QED BY <4>5, <4>7
    <3> QED BY <3>1, <3>2 DEF NeedsAreMetOrGaps
  <2> QED BY <2>3, <2>4, <2>5 DEF PlanSound
<1> QED BY <1>1, PlanInductive, PTL

-------------------------------------------------------------------------------
(***************************************************************************)
(* The reading plan and the work scope.  What the inputs are: paths are    *)
(* numbers, of files and, after them, of what was deleted.                 *)
(***************************************************************************)
Places == DOMAIN repo.dir

LEMMA RepositoryFacts ==
  ASSUME repo \in Repositories
  PROVE  /\ Len(repo.files) \in Nat /\ Paths = 1..Len(repo.files) /\ IsFiniteSet(Paths)
         /\ Cardinality(Paths) = Len(repo.files) /\ Far = Len(repo.files) + 1 /\ Far \in Nat
         /\ Len(repo.dir) \in Nat /\ Places = 1..Len(repo.dir) /\ IsFiniteSet(Places)
         /\ Paths \subseteq Places /\ SeedFiles \subseteq Places
         /\ repo.focus \subseteq Paths /\ repo.changed \subseteq Places
         /\ repo.imports \subseteq Paths \X Paths
         /\ \A p \in Paths : WellFormedFile(File(p))
         /\ \A p \in Diagnosed : repo.diagnosed[p].count \in Nat
<1>1. /\ repo.files \in Seq(Range(repo.files)) /\ \A file \in Range(repo.files) : WellFormedFile(file)
      /\ repo.dir \in Seq(Range(repo.dir)) /\ Len(repo.files) <= Len(repo.dir)
      /\ repo.imports \subseteq (DOMAIN repo.files) \X (DOMAIN repo.files)
      /\ repo.focus \subseteq DOMAIN repo.files
      /\ repo.changed \cup (DOMAIN repo.diagnosed) \subseteq DOMAIN repo.dir
      /\ \A p \in DOMAIN repo.diagnosed : repo.diagnosed[p].count \in Nat
  BY RepositoriesAssumption
<1>2. Len(repo.files) \in Nat /\ Paths = 1..Len(repo.files)
  BY <1>1, LenProperties DEF Paths
<1>3. Len(repo.dir) \in Nat /\ Places = 1..Len(repo.dir)
  BY <1>1, LenProperties DEF Places
<1>4. IsFiniteSet(Paths) /\ IsFiniteSet(Places) /\ Cardinality(Paths) = Len(repo.files)
  <2>1. \A n \in Nat : IsFiniteSet(1..n) /\ Cardinality(1..n) = n
    BY FS_Interval
  <2> QED BY <1>2, <1>3, <2>1
<1>5. Far = Len(repo.files) + 1 /\ Far \in Nat
  BY <1>2, <1>4 DEF Far
<1>6. Paths \subseteq Places
  BY <1>1, <1>2, <1>3
<1>7. repo.focus \subseteq Paths /\ repo.changed \subseteq Places /\ Diagnosed \subseteq Places
  BY <1>1 DEF Paths, Places, Diagnosed
<1>8. \A p \in Paths : WellFormedFile(File(p))
  BY <1>1 DEF Paths, File, Range
<1>9. repo.imports \subseteq Paths \X Paths
  BY <1>1 DEF Paths
<1> QED
  BY <1>1, <1>2, <1>3, <1>4, <1>5, <1>6, <1>7, <1>8, <1>9 DEF SeedFiles, Diagnosed

LEMMA DependentsOf ==
  ASSUME repo \in Repositories, NEW p
  PROVE  Dependents(p) \subseteq Paths /\ IsFiniteSet(Dependents(p))
<1>1. Dependents(p) \subseteq Paths
  BY DEF Dependents
<1> QED
  BY <1>1, RepositoryFacts, FS_Subset

Less(ps) == {pq \in ps \X ps : pq[1] < pq[2]}

LEMMA AscendingLists ==
  ASSUME NEW ps \in SUBSET Nat, IsFiniteSet(ps)
  PROVE  Listing(Less(ps), ps, Ascending(ps))
<1>1. TotalOrder(Less(ps), ps) /\ Less(ps) \in SUBSET (ps \X ps)
  BY DEF TotalOrder, Less
<1>2. PICK s : Listing(Less(ps), ps, s)
  BY <1>1, ListingExists
<1>3. \A p \in ps : {q \in ps : q < p} = Below(Less(ps), ps, p)
  BY DEF Below, Less
<1>4. ASSUME NEW i \in 1..Cardinality(ps)
      PROVE  (CHOOSE p \in ps : Cardinality({q \in ps : q < p}) = i - 1) = s[i]
  <2>1. s[i] \in ps /\ Cardinality({q \in ps : q < s[i]}) = i - 1
    BY <1>2, <1>3 DEF Listing
  <2>2. \A p \in ps : Cardinality({q \in ps : q < p}) = i - 1 => p = s[i]
    BY <1>2, <1>3, <2>1 DEF Listing
  <2> QED BY <2>1, <2>2
<1>5. Ascending(ps) = s
  BY <1>2, <1>4 DEF Ascending, Listing
<1> QED
  BY <1>2, <1>5

\* A listing is a sequence that has each member once.
LEMMA ListingIs ==
  ASSUME NEW S, IsFiniteSet(S), NEW lt, NEW s, Listing(lt, S, s), TotalOrder(lt, S)
  PROVE  /\ s \in Seq(S) /\ Len(s) = Cardinality(S) /\ Range(s) = S
         /\ \A i, j \in DOMAIN s : i < j => <<s[i], s[j]>> \in lt
         /\ \A i, j \in DOMAIN s : s[i] = s[j] => i = j
<1> DEFINE n == Cardinality(S)
<1>1. n \in Nat
  BY FS_CardinalityType
<1>2. /\ s \in [1..n -> S] /\ \A x \in S : \E i \in 1..n : s[i] = x
      /\ \A i, j \in 1..n : i < j => <<s[i], s[j]>> \in lt
  BY DEF Listing
<1> HIDE DEF n
<1>3. s \in Seq(S) /\ Len(s) = n /\ DOMAIN s = 1..n
  BY <1>1, <1>2
<1>4. Range(s) = S
  BY <1>2, <1>3 DEF Range
<1>5. ASSUME NEW i \in 1..n, NEW j \in 1..n, s[i] = s[j] PROVE i = j
  <2>1. s[i] \in S /\ <<s[i], s[i]>> \notin lt
    BY <1>2 DEF TotalOrder
  <2> QED BY <1>1, <1>2, <1>5, <2>1
<1> QED
  BY <1>2, <1>3, <1>4, <1>5 DEF n

LEMMA AscendingIs ==
  ASSUME NEW ps \in SUBSET Nat, IsFiniteSet(ps)
  PROVE  /\ Ascending(ps) \in Seq(ps) /\ Len(Ascending(ps)) = Cardinality(ps)
         /\ Range(Ascending(ps)) = ps
         /\ \A i, j \in DOMAIN Ascending(ps) : Ascending(ps)[i] = Ascending(ps)[j] => i = j
<1>1. TotalOrder(Less(ps), ps)
  BY DEF TotalOrder, Less
<1> QED
  BY <1>1, AscendingLists, ListingIs

-------------------------------------------------------------------------------
(***************************************************************************)
(* The search for dependents.                                              *)
(***************************************************************************)
Onward(ps) == ps \cup UNION {Dependents(q) : q \in ps}

LEMMA UpToIs ==
  ASSUME repo \in Repositories
  PROVE  /\ UpTo \in [0..Cardinality(Paths) -> [Places -> SUBSET Places]]
         /\ \A p \in Places : UpTo[0][p] = {p}
         /\ \A n \in 1..Cardinality(Paths), p \in Places : UpTo[n][p] = Onward(UpTo[n - 1][p])
<1> DEFINE c == Cardinality(Paths)
           S == [Places -> SUBSET Places]
           one == [p \in Places |-> {p}]
           G(it) == [n \in 0..c |-> [p \in Places |-> IF n = 0 THEN {p} ELSE Onward(it[n - 1][p])]]
           F == [n \in 1..c |-> [x \in S |-> [p \in Places |-> Onward(x[p])]]]
<1>1. c \in Nat
  BY RepositoryFacts
<1>2. UpTo = CHOOSE it : it = G(it)
  BY DEF UpTo, Places, Onward
<1>3. \A ps \in SUBSET Places : Onward(ps) \in SUBSET Places
  BY RepositoryFacts, DependentsOf DEF Onward
<1> HIDE DEF c
<1>4. one \in S /\ F \in [1..c -> [S -> S]]
  BY <1>3
<1>5. PICK f : Recursion(c, S, one, F, f)
  <2> HIDE DEF S, F, one
  <2> QED BY <1>1, <1>4, RecursionExists
<1>6. f \in [0..c -> S] /\ f[0] = one /\ \A n \in 1..c : f[n] = [p \in Places |-> Onward(f[n - 1][p])]
  <2>1. f \in [0..c -> S] /\ f[0] = one /\ \A n \in 1..c : f[n] = F[n][f[n - 1]]
    BY <1>5 DEF Recursion
  <2>2. \A n \in 1..c : n - 1 \in 0..c
    BY <1>1
  <2>3. ASSUME NEW n \in 1..c PROVE f[n] = [p \in Places |-> Onward(f[n - 1][p])]
    <3>1. f[n - 1] \in S
      BY <2>1, <2>2
    <3> HIDE DEF S, one
    <3> QED BY <2>1, <3>1
  <2> QED BY <2>1, <2>3
<1>7. f = G(f)
  <2>1. \A n \in 0..c : f[n] = [p \in Places |-> IF n = 0 THEN {p} ELSE Onward(f[n - 1][p])]
    <3> SUFFICES ASSUME NEW n \in 0..c
                 PROVE  f[n] = [p \in Places |-> IF n = 0 THEN {p} ELSE Onward(f[n - 1][p])]
      OBVIOUS
    <3>1. CASE n = 0
      BY <1>6, <3>1
    <3>2. CASE n # 0
      <4>1. n \in 1..c
        BY <1>1, <3>2
      <4>2. f[n] = [p \in Places |-> Onward(f[n - 1][p])]
        BY <1>6, <4>1
      <4> QED BY <3>2, <4>2
    <3> QED BY <3>1, <3>2
  <2> HIDE DEF S
  <2> QED BY <1>6, <2>1
<1>8. UpTo = G(UpTo)
  <2> HIDE DEF G
  <2> QED BY <1>2, <1>7
<1> DEFINE Good == {n \in 0..c : UpTo[n] = f[n]}
<1>9. ASSUME NEW n \in 1..c, n - 1 \in Good PROVE n \in Good
  <2>0. n # 0 /\ n \in 0..c
    BY <1>1
  <2>1. UpTo[n] = [p \in Places |-> IF n = 0 THEN {p} ELSE Onward(UpTo[n - 1][p])]
    BY <1>8, <2>0
  <2>2. UpTo[n - 1] = f[n - 1]
    BY <1>9
  <2>3. UpTo[n] = f[n]
    <3>1. f[n] = [p \in Places |-> Onward(f[n - 1][p])]
      BY <1>6
    <3> QED BY <2>0, <2>1, <2>2, <3>1
  <2> QED BY <2>0, <2>3
<1>10. \A n \in 0..c : UpTo[n] = f[n]
  <2>1. 0 \in Good
    <3>1. 0 \in 0..c
      BY <1>1
    <3>2. UpTo[0] = [p \in Places |-> {p}]
      BY <1>8, <3>1
    <3> QED BY <1>6, <3>1, <3>2
  <2> HIDE DEF Good
  <2>2. Good \in SUBSET (0..c)
    BY DEF Good
  <2>3. \A n \in 0..c : n \in Good
    BY <1>1, <1>9, <2>1, <2>2, NumbersInTurn
  <2> QED BY <2>3 DEF Good
<1>11. UpTo = f
  <2>1. UpTo = [n \in 0..c |-> UpTo[n]]
    BY <1>8
  <2>2. f = [n \in 0..c |-> f[n]]
    BY <1>6
  <2> QED BY <1>10, <2>1, <2>2
<1> QED
  <2>1. \A n \in 1..c : n \in 0..c /\ n - 1 \in 0..c
    BY <1>1
  <2> QED BY <1>6, <1>11, <2>1 DEF c

LEMMA JoinedRange ==
  ASSUME NEW T, NEW s \in Seq(T), NEW t \in Seq(T)
  PROVE  /\ s \o t \in Seq(T) /\ Len(s \o t) = Len(s) + Len(t) /\ Range(s \o t) = Range(s) \cup Range(t)
         /\ \A i \in 1..Len(s) : (s \o t)[i] = s[i]
         /\ \A i \in 1..Len(t) : (s \o t)[Len(s) + i] = t[i]
<1>1. /\ s \o t \in Seq(T) /\ Len(s \o t) = Len(s) + Len(t) /\ Len(s) \in Nat /\ Len(t) \in Nat
      /\ \A i \in 1..Len(s) + Len(t) : (s \o t)[i] = IF i <= Len(s) THEN s[i] ELSE t[i - Len(s)]
      /\ DOMAIN s = 1..Len(s) /\ DOMAIN t = 1..Len(t) /\ DOMAIN (s \o t) = 1..Len(s) + Len(t)
  BY ConcatProperties, LenProperties
<1> DEFINE u == s \o t
           m == Len(s)
           n == Len(t)
<1> HIDE DEF u, m, n
<1>2. /\ m \in Nat /\ n \in Nat /\ DOMAIN s = 1..m /\ DOMAIN t = 1..n /\ DOMAIN u = 1..m + n
      /\ \A i \in 1..m + n : u[i] = IF i <= m THEN s[i] ELSE t[i - m]
  BY <1>1 DEF u, m, n
<1>3. \A i \in 1..m : i \in 1..m + n /\ u[i] = s[i]
  BY <1>2
<1>4. \A i \in 1..n : m + i \in 1..m + n /\ u[m + i] = t[i]
  BY <1>2
<1>5. Range(u) = Range(s) \cup Range(t)
  <2>1. ASSUME NEW i \in DOMAIN u PROVE u[i] \in Range(s) \cup Range(t)
    <3>1. CASE i <= m
      BY <1>2, <3>1 DEF Range
    <3>2. CASE ~(i <= m)
      <4>1. i - m \in 1..n /\ u[i] = t[i - m]
        BY <1>2, <3>2
      <4> QED BY <1>2, <4>1 DEF Range
    <3> QED BY <3>1, <3>2
  <2>2. \A i \in DOMAIN s : s[i] \in Range(u)
    BY <1>2, <1>3 DEF Range
  <2>3. \A i \in DOMAIN t : t[i] \in Range(u)
    <3> SUFFICES ASSUME NEW i \in DOMAIN t PROVE t[i] \in Range(u)
      OBVIOUS
    <3>1. m + i \in DOMAIN u /\ u[m + i] = t[i]
      BY <1>2, <1>4
    <3> QED BY <3>1 DEF Range
  <2> QED BY <2>1, <2>2, <2>3 DEF Range
<1> QED
  BY <1>1, <1>3, <1>4, <1>5 DEF u, m, n

SearchTypes ==
  /\ repo \in Repositories
  /\ hops \in [Places -> 0..Far] /\ origin \in [Places -> Places] /\ frontier \in Seq(Places)

\* The distance is one of a way from the seed that is named, and no file outside
\* the queue has a dependent that is further than one import behind it.
Search ==
  /\ \A p \in SeedFiles : hops[p] = 0
  /\ \A q \in Places : hops[q] # Far => origin[q] \in SeedFiles /\ q \in UpTo[hops[q]][origin[q]]
  /\ \A p \in Places \ Range(frontier) :
       hops[p] # Far => \A q \in Dependents(p) : hops[q] <= hops[p] + 1

SearchInv ==
  /\ SearchTypes
  /\ contextPhase = "seeds" => frontier = <<>>
  /\ contextPhase # "seeds" => Search
  /\ contextPhase \notin {"seeds", "reach"} => frontier = <<>>

LEMMA SearchStarts ==
  ASSUME SearchInv, StartReach PROVE SearchInv'
<1>1. repo' = repo /\ contextPhase' = "reach" /\ contextPhase = "seeds"
  BY DEF StartReach
<1>2. Places' = Places /\ Far' = Far /\ SeedFiles' = SeedFiles /\ UpTo' = UpTo
      /\ \A p : Dependents(p)' = Dependents(p)
  BY <1>1 DEF Places, Far, SeedFiles, Diagnosed, UpTo, Dependents, Paths
<1>3. repo \in Repositories /\ DOMAIN hops = Places /\ DOMAIN origin = Places
  BY DEF SearchInv, SearchTypes
<1>4. SeedFiles \subseteq Places /\ IsFiniteSet(Places) /\ Places \in SUBSET Nat /\ Far \in Nat /\ Far # 0
      /\ 0 \in 0..Cardinality(Paths)
  BY <1>3, RepositoryFacts
<1>5. frontier' \in Seq(Places) /\ Range(frontier') = SeedFiles
  <2>1. IsFiniteSet(SeedFiles) /\ SeedFiles \in SUBSET Nat
    BY <1>4, FS_Subset
  <2>2. Ascending(SeedFiles) \in Seq(SeedFiles) /\ Range(Ascending(SeedFiles)) = SeedFiles
    BY <2>1, AscendingIs
  <2>3. Ascending(SeedFiles) \in Seq(Places)
    BY <1>4, <2>2, SeqMonotonic
  <2> QED BY <2>2, <2>3 DEF StartReach
<1>6. hops' = [p \in Places |-> IF p \in SeedFiles THEN 0 ELSE Far] /\ origin' = [p \in Places |-> p]
  BY <1>3 DEF StartReach
<1>7. SearchTypes'
  BY <1>1, <1>2, <1>3, <1>4, <1>5, <1>6 DEF SearchTypes
<1>8. Search'
  <2>1. \A p \in SeedFiles : hops'[p] = 0
    BY <1>4, <1>6
  <2>2. ASSUME NEW q \in Places, hops'[q] # Far
        PROVE  origin'[q] \in SeedFiles /\ q \in UpTo[hops'[q]][origin'[q]]
    <3>1. q \in SeedFiles /\ hops'[q] = 0 /\ origin'[q] = q
      BY <1>6, <2>2
    <3>2. UpTo[0][q] = {q}
      BY <1>3, UpToIs
    <3> QED BY <3>1, <3>2
  <2>3. \A p \in Places \ Range(frontier') : hops'[p] = Far
    BY <1>5, <1>6
  <2> QED BY <1>2, <2>1, <2>2, <2>3 DEF Search
<1> QED
  BY <1>1, <1>7, <1>8 DEF SearchInv

LEMMA ReachKeeps ==
  ASSUME SearchInv, Reach PROVE SearchInv'
<1> DEFINE p == Head(frontier)
           found == {q \in Dependents(p) : hops[p] + 1 < hops[q]}
<1>1. repo' = repo /\ contextPhase' = "reach" /\ contextPhase = "reach" /\ frontier # <<>>
  BY DEF Reach
<1>2. Places' = Places /\ Far' = Far /\ SeedFiles' = SeedFiles /\ UpTo' = UpTo
      /\ \A q : Dependents(q)' = Dependents(q)
  BY <1>1 DEF Places, Far, SeedFiles, Diagnosed, UpTo, Dependents, Paths
<1>3. SearchTypes /\ Search
  BY <1>1 DEF SearchInv
<1>4. repo \in Repositories /\ hops \in [Places -> 0..Far] /\ origin \in [Places -> Places]
      /\ frontier \in Seq(Places)
  BY <1>3 DEF SearchTypes
<1>5. SeedFiles \subseteq Places /\ IsFiniteSet(Paths) /\ Paths \subseteq Places /\ Places \in SUBSET Nat
      /\ Far \in Nat /\ Far = Cardinality(Paths) + 1 /\ Cardinality(Paths) \in Nat
  BY <1>4, RepositoryFacts DEF Far
<1>6. p \in Places /\ Tail(frontier) \in Seq(Places) /\ \A x \in Range(frontier) : x = p \/ x \in Range(Tail(frontier))
  BY <1>1, <1>4, HeadAndTail
<1>7. found \subseteq Paths /\ found \subseteq Places /\ IsFiniteSet(found) /\ found \in SUBSET Nat
  <2>1. found \subseteq Paths
    BY <1>4, DependentsOf
  <2> QED BY <1>5, <2>1, FS_Subset
<1>8. /\ hops' = [q \in Places |-> IF q \in found THEN hops[p] + 1 ELSE hops[q]]
      /\ origin' = [q \in Places |-> IF q \in found THEN origin[p] ELSE origin[q]]
      /\ frontier' = Tail(frontier) \o Ascending(found)
  BY <1>4 DEF Reach
<1>9. \A q \in found : q \in Dependents(p) /\ hops[p] + 1 < hops[q] /\ hops[p] \in 0..Far /\ hops[q] \in 0..Far
  BY <1>4, <1>6, <1>7
<1>10. hops[p] \in 0..Far /\ \A q \in Dependents(p) : q \in Places /\ (q \notin found => hops[q] <= hops[p] + 1)
  <2>1. Dependents(p) \subseteq Places /\ hops[p] \in 0..Far
    BY <1>4, <1>5, <1>6, DependentsOf
  <2>2. ASSUME NEW q \in Dependents(p), q \notin found PROVE hops[q] <= hops[p] + 1
    <3>1. hops[q] \in 0..Far
      BY <1>4, <2>1
    <3> QED BY <1>5, <2>1, <2>2, <3>1
  <2> QED BY <2>1, <2>2
<1> HIDE DEF p, found
<1>11. \A q \in found : hops[p] + 1 \in 0..Far - 1 /\ hops[p] \in 0..Far - 1 /\ hops[p] # Far
                        /\ hops[p] + 1 \in 1..Cardinality(Paths)
  BY <1>5, <1>9
<1>12. hops' \in [Places -> 0..Far]
  <2>1. ASSUME NEW q \in Places PROVE hops'[q] \in 0..Far
    <3>1. hops'[q] = IF q \in found THEN hops[p] + 1 ELSE hops[q]
      BY <1>8
    <3>2. hops[q] \in 0..Far
      BY <1>4
    <3>3. q \in found => hops[p] + 1 \in 0..Far
      BY <1>5, <1>9
    <3> QED BY <3>1, <3>2, <3>3
  <2> QED BY <1>8, <2>1
<1>13. origin' \in [Places -> Places]
  BY <1>4, <1>6, <1>8
<1>14. frontier' \in Seq(Places) /\ \A x : x \in Range(frontier) \cup found => x = p \/ x \in Range(frontier')
  <2>1. Ascending(found) \in Seq(found) /\ Range(Ascending(found)) = found
    BY <1>7, AscendingIs
  <2>2. Ascending(found) \in Seq(Places)
    BY <1>7, <2>1, SeqMonotonic
  <2>3. frontier' \in Seq(Places)
    BY <1>6, <1>8, <2>2, ConcatProperties
  <2>4. Range(frontier') = Range(Tail(frontier)) \cup Range(Ascending(found))
    BY <1>6, <1>8, <2>2, JoinedRange
  <2> QED BY <1>6, <2>1, <2>3, <2>4
<1>15. \A q \in Places : hops'[q] <= hops[q]
  <2> SUFFICES ASSUME NEW q \in Places PROVE hops'[q] <= hops[q]
    OBVIOUS
  <2>1. hops[q] \in Nat /\ hops'[q] = IF q \in found THEN hops[p] + 1 ELSE hops[q]
    BY <1>4, <1>8
  <2> QED BY <1>9, <2>1
<1>16. Search'
  <2>1. ASSUME NEW q \in SeedFiles PROVE hops'[q] = 0
    <3>1. hops[q] = 0 /\ q \in Places
      BY <1>3, <1>5 DEF Search
    <3>2. hops'[q] <= 0 /\ hops'[q] \in 0..Far
      BY <1>12, <1>15, <3>1
    <3> QED BY <1>5, <3>2
  <2>2. ASSUME NEW q \in Places, hops'[q] # Far
        PROVE  origin'[q] \in SeedFiles /\ q \in UpTo[hops'[q]][origin'[q]]
    <3>1. CASE q \notin found
      BY <1>3, <1>8, <2>2, <3>1 DEF Search
    <3>2. CASE q \in found
      <4>1. hops'[q] = hops[p] + 1 /\ origin'[q] = origin[p] /\ hops[p] # Far
        BY <1>8, <1>11, <3>2
      <4>2. origin[p] \in SeedFiles /\ p \in UpTo[hops[p]][origin[p]]
        BY <1>3, <1>6, <4>1 DEF Search
      <4>3. hops[p] + 1 \in 1..Cardinality(Paths) /\ (hops[p] + 1) - 1 = hops[p]
        BY <1>10, <1>11, <3>2
      <4>4. UpTo[hops[p] + 1][origin[p]] = Onward(UpTo[hops[p]][origin[p]])
        <5>1. origin[p] \in Places
          BY <1>5, <4>2
        <5>2. \A n \in 1..Cardinality(Paths), o \in Places : UpTo[n][o] = Onward(UpTo[n - 1][o])
          BY <1>4, UpToIs
        <5>3. UpTo[hops[p] + 1][origin[p]] = Onward(UpTo[(hops[p] + 1) - 1][origin[p]])
          BY <4>3, <5>1, <5>2
        <5> QED BY <4>3, <5>3
      <4>5. q \in Onward(UpTo[hops[p]][origin[p]])
        BY <1>9, <3>2, <4>2 DEF Onward
      <4> QED BY <4>1, <4>2, <4>4, <4>5
    <3> QED BY <3>1, <3>2
  <2>3. ASSUME NEW x \in Places \ Range(frontier'), hops'[x] # Far, NEW q \in Dependents(x)
        PROVE  hops'[q] <= hops'[x] + 1
    <3>1. q \in Places /\ hops[q] \in Nat /\ hops'[q] \in Nat /\ hops[x] \in Nat /\ hops'[q] <= hops[q]
      <4>1. q \in Places
        BY <1>4, <1>5, DependentsOf
      <4> QED BY <1>4, <1>12, <1>15, <4>1
    <3>2. CASE x = p
      <4>1. p \notin found
        BY <1>9, <1>10
      <4>2. hops'[p] = hops[p]
        BY <1>6, <1>8, <4>1
      <4>3. CASE q \in found
        <5>1. hops'[q] = hops[p] + 1
          BY <1>8, <3>1, <4>3
        <5> QED BY <1>10, <3>2, <4>2, <5>1
      <4>4. CASE q \notin found
        <5>1. hops[q] <= hops[p] + 1 /\ hops'[q] = hops[q]
          BY <1>8, <1>10, <3>1, <3>2, <4>4
        <5> QED BY <3>2, <4>2, <5>1
      <4> QED BY <4>3, <4>4
    <3>3. CASE x # p
      <4>1. x \notin found /\ x \notin Range(frontier)
        BY <1>14, <2>3, <3>3
      <4>2. hops'[x] = hops[x]
        BY <1>8, <4>1
      <4>3. hops[q] <= hops[x] + 1
        BY <1>3, <2>3, <4>1, <4>2 DEF Search
      <4> QED BY <3>1, <4>2, <4>3
    <3> QED BY <3>2, <3>3
  <2> QED BY <1>2, <2>1, <2>2, <2>3 DEF Search
<1>17. SearchTypes'
  BY <1>1, <1>2, <1>4, <1>12, <1>13, <1>14 DEF SearchTypes
<1> QED
  BY <1>1, <1>16, <1>17 DEF SearchInv

\* What comes after the search leaves its results alone.
LEMMA SearchRemains ==
  ASSUME SearchInv, UNCHANGED <<repo, hops, origin, frontier>>,
         \/ contextPhase' = contextPhase
         \/ /\ contextPhase \notin {"seeds", "reach"} \/ (contextPhase = "reach" /\ frontier = <<>>)
            /\ contextPhase' \notin {"seeds", "reach"}
  PROVE  SearchInv'
<1>1. Places' = Places /\ Far' = Far /\ SeedFiles' = SeedFiles /\ UpTo' = UpTo
      /\ \A q : Dependents(q)' = Dependents(q)
  BY DEF Places, Far, SeedFiles, Diagnosed, UpTo, Dependents, Paths
<1>2. SearchTypes'
  BY <1>1 DEF SearchInv, SearchTypes
<1>3. Search => Search'
  BY <1>1 DEF Search
<1> QED
  BY <1>2, <1>3 DEF SearchInv

\* A number that no member of a set of natural numbers is below, and that is one
\* of them, is the least.
LEMMA LeastIs ==
  ASSUME NEW S \in SUBSET Nat, NEW n \in S, \A m \in S : n <= m
  PROVE  Min(S) = n
<1>1. n \in S /\ \A m \in S : n <= m
  OBVIOUS
<1>2. \A x \in S : (\A m \in S : x <= m) => x = n
  BY <1>1
<1> QED
  BY <1>1, <1>2 DEF Min

LEMMA SearchEnds ==
  ASSUME SearchInv, contextPhase \notin {"seeds", "reach"} PROVE NearestSeed
<1>1. SearchTypes /\ Search /\ frontier = <<>>
  BY DEF SearchInv
<1> DEFINE c == Cardinality(Paths)
<1>2. /\ repo \in Repositories /\ hops \in [Places -> 0..Far] /\ origin \in [Places -> Places]
      /\ SeedFiles \subseteq Places /\ Paths \subseteq Places /\ c \in Nat /\ Far = c + 1
  BY <1>1, RepositoryFacts DEF SearchTypes, Far
<1>3. Range(frontier) = {}
  BY <1>1, EmptySeq DEF Range
<1>4. \A p \in Places : hops[p] # Far => \A q \in Dependents(p) : hops[q] <= hops[p] + 1
  BY <1>1, <1>3 DEF Search
<1> HIDE DEF c
<1>5. /\ \A p \in Places : UpTo[0][p] = {p}
      /\ \A n \in 1..c, p \in Places : UpTo[n][p] = Onward(UpTo[n - 1][p])
      /\ \A n \in 0..c, p \in Places : UpTo[n][p] \subseteq Places
  BY <1>2, UpToIs DEF c
<1> DEFINE Good == {n \in 0..c : \A p \in SeedFiles : \A q \in UpTo[n][p] : hops[q] <= n}
<1>6. 0 \in Good
  <2>1. 0 \in 0..c
    BY <1>2
  <2>2. ASSUME NEW p \in SeedFiles, NEW q \in UpTo[0][p] PROVE hops[q] <= 0
    <3>1. q = p /\ hops[p] = 0
      BY <1>1, <1>2, <1>5 DEF Search
    <3> QED BY <3>1
  <2> QED BY <2>1, <2>2
<1>7. ASSUME NEW n \in 1..c, n - 1 \in Good PROVE n \in Good
  <2>1. n \in 0..c /\ n - 1 \in 0..c /\ n - 1 < Far
    BY <1>2
  <2>2. ASSUME NEW p \in SeedFiles, NEW q \in UpTo[n][p] PROVE hops[q] <= n
    <3>1. q \in Onward(UpTo[n - 1][p]) /\ p \in Places
      BY <1>2, <1>5
    <3>2. CASE q \in UpTo[n - 1][p]
      <4>1. hops[q] <= n - 1 /\ q \in Places
        BY <1>5, <1>7, <2>1, <3>1, <3>2
      <4>2. hops[q] \in Nat
        BY <1>2, <4>1
      <4> QED BY <2>1, <4>1, <4>2
    <3>3. CASE q \notin UpTo[n - 1][p]
      <4>1. PICK x \in UpTo[n - 1][p] : q \in Dependents(x)
        BY <3>1, <3>3 DEF Onward
      <4>2. x \in Places /\ hops[x] <= n - 1
        BY <1>5, <1>7, <2>1, <3>1, <4>1
      <4>3. hops[x] \in 0..Far /\ hops[x] # Far
        BY <1>2, <2>1, <4>2
      <4>4. hops[q] <= hops[x] + 1 /\ q \in Places
        BY <1>2, <1>4, <4>1, <4>2, <4>3, DependentsOf
      <4>5. hops[q] \in Nat
        BY <1>2, <4>4
      <4> QED BY <2>1, <4>2, <4>3, <4>4, <4>5
    <3> QED BY <3>2, <3>3
  <2> QED BY <2>1, <2>2
<1>8. \A n \in 0..c : \A p \in SeedFiles : \A q \in UpTo[n][p] : hops[q] <= n
  <2> HIDE DEF Good
  <2>1. Good \in SUBSET (0..c)
    BY DEF Good
  <2>2. \A n \in 0..c : n \in Good
    BY <1>2, <1>6, <1>7, <2>1, NumbersInTurn
  <2> QED BY <2>2 DEF Good
<1>9. ASSUME NEW ps \in SUBSET SeedFiles, NEW q \in Paths,
             hops[q] # Far => origin[q] \in ps
      PROVE  Hops(ps, q) = hops[q]
  <2> DEFINE near == {n \in 0..c : \E p \in ps : q \in UpTo[n][p]}
  <2>1. Hops(ps, q) = IF near = {} THEN Far ELSE Min(near)
    BY DEF Hops, c
  <2>2. \A n \in near : n \in 0..c /\ hops[q] <= n
    BY <1>8
  <2>3. hops[q] \in 0..Far
    BY <1>2
  <2>4. CASE hops[q] = Far
    <3>1. near = {}
      BY <1>2, <2>2, <2>4
    <3> QED BY <2>1, <2>4, <3>1
  <2>5. CASE hops[q] # Far
    <3>1. hops[q] \in 0..c /\ q \in UpTo[hops[q]][origin[q]]
      BY <1>1, <1>2, <2>3, <2>5 DEF Search
    <3>2. hops[q] \in near
      BY <1>9, <2>5, <3>1
    <3>3. Min(near) = hops[q]
      <4>1. near \in SUBSET Nat
        BY <1>2
      <4> HIDE DEF near
      <4> QED BY <2>2, <3>2, <4>1, LeastIs
    <3> QED BY <2>1, <3>2, <3>3
  <2> QED BY <2>4, <2>5
<1> QED
  <2>1. \A q \in Paths : hops[q] # Far => origin[q] \in SeedFiles
    BY <1>1, <1>2 DEF Search
  <2>2. \A q \in Paths : hops[q] = Hops(SeedFiles, q)
    BY <1>9, <2>1
  <2>3. ASSUME NEW q \in Paths, hops[q] # Far PROVE Hops({origin[q]}, q) = hops[q]
    <3>1. {origin[q]} \in SUBSET SeedFiles
      BY <2>1, <2>3
    <3> QED BY <1>9, <3>1
  <2> QED BY <2>1, <2>2, <2>3 DEF NearestSeed

-------------------------------------------------------------------------------
(***************************************************************************)
(* The ranking is a total order of the candidates.                         *)
(***************************************************************************)
RankedAhead == {pq \in Candidates \X Candidates : Before(pq[1], pq[2])}
Costs == [p \in Paths |-> File(p).tokens]

SumOver(w, S) == SumFunction([x \in S |-> w[x]])

LEMMA SumsOver ==
  ASSUME NEW T, NEW w \in [T -> Nat], NEW S \in SUBSET T, IsFiniteSet(S)
  PROVE  /\ SumOver(w, {}) = 0 /\ SumOver(w, S) \in Nat
         /\ \A x \in T \ S : SumOver(w, S \cup {x}) = SumOver(w, S) + w[x]
<1>1. \A U \in SUBSET T : [x \in U |-> w[x]] \in [U -> Nat] /\ [x \in U |-> w[x]] \in [U -> Int]
  OBVIOUS
<1>2. SumOver(w, {}) = 0
  <2>1. IsFiniteSet({}) /\ [x \in {} |-> w[x]] \in [{} -> Nat]
    BY FS_EmptySet
  <2> QED BY <2>1, SumOfNothing DEF SumOver
<1>3. SumOver(w, S) \in Nat
  <2>1. [x \in S |-> w[x]] \in [S -> Nat]
    BY <1>1
  <2> DEFINE v == [x \in S |-> w[x]]
  <2>2. v \in [S -> Nat]
    BY <2>1
  <2> HIDE DEF v
  <2>3. SumFunction(v) \in Nat
    BY <2>2, SumGrows
  <2> QED BY <2>3 DEF SumOver, v
<1>4. ASSUME NEW x \in T \ S PROVE SumOver(w, S \cup {x}) = SumOver(w, S) + w[x]
  <2> DEFINE U == S \cup {x}
             v == [y \in U |-> w[y]]
  <2>1. IsFiniteSet(U) /\ x \in U /\ U \ {x} = S /\ v \in [U -> Int] /\ v[x] = w[x]
    BY FS_AddElement
  <2>2. [y \in U \ {x} |-> v[y]] = [y \in S |-> w[y]]
    BY <2>1
  <2> HIDE DEF U, v
  <2>3. SumFunction(v) = SumFunction([y \in U \ {x} |-> v[y]]) + v[x]
    BY <2>1, SumWithout
  <2> QED BY <2>1, <2>2, <2>3 DEF SumOver, U, v
<1> QED
  BY <1>2, <1>3, <1>4

LEMMA WeightIs == \A w \in Nat : \A holds \in BOOLEAN : Weight(holds, w) \in Nat
BY DEF Weight

LEMMA ScoreIs ==
  ASSUME SearchTypes, NEW p \in Paths
  PROVE  Score(p) \in Int
<1>1. /\ repo \in Repositories /\ hops[p] \in 0..Far /\ Far \in Nat /\ WellFormedFile(File(p))
      /\ \A q \in Diagnosed : repo.diagnosed[q].count \in Nat
  BY RepositoryFacts DEF SearchTypes
<1>2. File(p).support \in Nat /\ File(p).signal \in Nat /\ File(p).code \in BOOLEAN
  BY <1>1 DEF WellFormedFile
<1>3. /\ Focused(p) \in BOOLEAN /\ Changed(p) \in BOOLEAN /\ MatchingTest(p) \in BOOLEAN
      /\ SharesDirectory(p) \in BOOLEAN
  BY DEF Focused, Changed, MatchingTest, SharesDirectory
<1> DEFINE near == IF ~IsDependent(p) THEN 0
                   ELSE IF hops[p] = 1 THEN 55000 ELSE (85000 + hops[p]) \div (2 * hops[p])
           severe == IF p \in Diagnosed THEN 1000 * Min({repo.diagnosed[p].count, 3}) ELSE 0
           beside == IF repo.diff /\ ~File(p).risky THEN 75 ELSE 250
<1>4. near \in Int
  <2>1. CASE IsDependent(p)
    <3>1. hops[p] \in Nat /\ hops[p] # 0
      BY <1>1, <2>1 DEF IsDependent
    <3>2. \A h \in Nat \ {0} : (85000 + h) \div (2 * h) \in Int
      OBVIOUS
    <3> QED BY <3>1, <3>2
  <2>2. CASE ~IsDependent(p)
    BY <2>2
  <2> QED BY <2>1, <2>2
<1>5. severe \in Int
  <2>1. CASE p \in Diagnosed
    <3>1. repo.diagnosed[p].count \in Nat
      BY <1>1, <2>1
    <3>2. \A n \in Nat : Min({n, 3}) \in Nat
      <4> SUFFICES ASSUME NEW n \in Nat PROVE Min({n, 3}) \in Nat
        OBVIOUS
      <4>1. CASE n <= 3
        <5>1. Min({n, 3}) = n
          BY <4>1, LeastIs
        <5> QED BY <5>1
      <4>2. CASE ~(n <= 3)
        <5>1. Min({n, 3}) = 3
          BY <4>2, LeastIs
        <5> QED BY <5>1
      <4> QED BY <4>1, <4>2
    <3>3. Min({repo.diagnosed[p].count, 3}) \in Nat
      BY <3>1, <3>2
    <3> QED BY <2>1, <3>3
  <2>2. CASE p \notin Diagnosed
    BY <2>2
  <2> QED BY <2>1, <2>2
<1>6. beside \in Nat
  OBVIOUS
<1> DEFINE w1 == Weight(File(p).code, 10)
           w2 == Weight(Focused(p), 1200)
           w3 == Weight(Changed(p), 1100)
           w4 == Weight(p \in Dependencies, 600)
           w5 == Weight(MatchingTest(p), 500)
           w6 == Weight(SharesDirectory(p), beside)
           w7 == Weight(TRUE, File(p).support + File(p).signal)
<1>7. Score(p) = w1 + w2 + w3 + w4 + near + w5 + w6 + w7 + severe
  BY DEF Score
<1> HIDE DEF near, severe, beside
<1>8. /\ Weight(File(p).code, 10) \in Nat /\ Weight(Focused(p), 1200) \in Nat
      /\ Weight(Changed(p), 1100) \in Nat /\ Weight(p \in Dependencies, 600) \in Nat
      /\ Weight(MatchingTest(p), 500) \in Nat /\ Weight(SharesDirectory(p), beside) \in Nat
      /\ Weight(TRUE, File(p).support + File(p).signal) \in Nat
  BY <1>2, <1>6 DEF Weight
<1>9. \A a, b, c, d, e, f, g \in Nat, x, y \in Int : a + b + c + d + x + e + f + g + y \in Int
  OBVIOUS
<1>10. /\ w1 \in Nat /\ w2 \in Nat /\ w3 \in Nat /\ w4 \in Nat /\ w5 \in Nat /\ w6 \in Nat
       /\ w7 \in Nat
  BY <1>8
<1> HIDE DEF w1, w2, w3, w4, w5, w6, w7
<1> QED
  BY <1>4, <1>5, <1>7, <1>9, <1>10

LEMMA RankingLists ==
  ASSUME SearchTypes
  PROVE  /\ Candidates \subseteq Paths /\ IsFiniteSet(Candidates)
         /\ TotalOrder(RankedAhead, Candidates)
         /\ Listing(RankedAhead, Candidates, Ranking(Candidates))
<1>1. repo \in Repositories
  BY DEF SearchTypes
<1>2. Candidates \subseteq Paths /\ Paths \in SUBSET Nat /\ IsFiniteSet(Paths)
      /\ \A p \in Paths : WellFormedFile(File(p))
  BY <1>1, RepositoryFacts DEF Candidates
<1>3. IsFiniteSet(Candidates)
  BY <1>2, FS_Subset
<1>4. \A p \in Candidates : /\ Priority(p) \in Nat /\ Score(p) \in Int /\ File(p).tokens \in Nat
                            /\ p \in Nat
  <2> SUFFICES ASSUME NEW p \in Candidates
               PROVE  /\ Priority(p) \in Nat /\ Score(p) \in Int /\ File(p).tokens \in Nat
                      /\ p \in Nat
    OBVIOUS
  <2>1. Score(p) \in Int
    BY <1>2, ScoreIs
  <2>2. Priority(p) \in Nat
    BY DEF Priority
  <2>3. File(p).tokens \in Nat
    BY <1>2 DEF WellFormedFile
  <2> QED BY <1>2, <2>1, <2>2, <2>3
<1>5. TotalOrder(RankedAhead, Candidates)
  <2>1. \A p \in Candidates : ~Before(p, p)
    BY <1>4 DEF Before
  <2>2. ASSUME NEW p \in Candidates, NEW q \in Candidates, NEW r \in Candidates,
               Before(p, q), Before(q, r)
        PROVE  Before(p, r)
    BY <1>4, <2>2 DEF Before
  <2>3. ASSUME NEW p \in Candidates, NEW q \in Candidates, p # q PROVE Before(p, q) \/ Before(q, p)
    BY <1>4, <2>3 DEF Before
  <2> QED BY <2>1, <2>2, <2>3 DEF TotalOrder, RankedAhead
<1>6. RankedAhead \in SUBSET (Candidates \X Candidates)
  BY DEF RankedAhead
<1>7. PICK s : Listing(RankedAhead, Candidates, s)
  BY <1>3, <1>5, <1>6, ListingExists
<1>8. \A p \in Candidates : {q \in Candidates : Before(q, p)} = Below(RankedAhead, Candidates, p)
  BY DEF Below, RankedAhead
<1>9. ASSUME NEW i \in 1..Cardinality(Candidates)
      PROVE  (CHOOSE p \in Candidates :
                 Cardinality({q \in Candidates : Before(q, p)}) = i - 1) = s[i]
  <2>1. s[i] \in Candidates /\ Cardinality({q \in Candidates : Before(q, s[i])}) = i - 1
    BY <1>7, <1>8 DEF Listing
  <2>2. \A p \in Candidates : Cardinality({q \in Candidates : Before(q, p)}) = i - 1 => p = s[i]
    BY <1>7, <1>8, <2>1 DEF Listing
  <2> QED BY <2>1, <2>2
<1>10. Ranking(Candidates) = s
  BY <1>7, <1>9 DEF Ranking, Listing
<1> QED
  BY <1>2, <1>3, <1>5, <1>7, <1>10

-------------------------------------------------------------------------------
(***************************************************************************)
(* Sequences that have no member twice.                                    *)
(***************************************************************************)
LEMMA InjectiveCounts ==
  ASSUME NEW T, NEW s \in Seq(T), IsInjective(s)
  PROVE  IsFiniteSet(Range(s)) /\ Cardinality(Range(s)) = Len(s) /\ Len(s) \in Nat /\ Range(s) \subseteq T
<1> DEFINE n == Len(s)
<1>1. n \in Nat /\ DOMAIN s = 1..n /\ \A i \in 1..n : s[i] \in T
  BY LenProperties, ElementOfSeq
<1>2. IsFiniteSet(1..n) /\ Cardinality(1..n) = n
  <2>1. \A k \in Nat : IsFiniteSet(1..k) /\ Cardinality(1..k) = k
    BY FS_Interval
  <2> QED BY <1>1, <2>1
<1>3. s \in [1..n -> Range(s)] /\ Range(s) \subseteq T
  BY <1>1 DEF Range
<1>4. s \in Surjection(1..n, Range(s))
  BY <1>1, <1>3 DEF Surjection, Range
<1>5. s \in Injection(1..n, Range(s))
  BY <1>1, <1>3 DEF Injection, IsInjective
<1> HIDE DEF n
<1>6. IsFiniteSet(Range(s)) /\ Cardinality(Range(s)) = n
  BY <1>2, <1>4, <1>5, FS_Surjection
<1> QED
  BY <1>1, <1>3, <1>6 DEF n

LEMMA InjectiveAppends ==
  ASSUME NEW T, NEW s \in Seq(T), IsInjective(s), NEW e \in T, e \notin Range(s)
  PROVE  IsInjective(Append(s, e))
<1>1. /\ \A i \in DOMAIN Append(s, e) : (i \in DOMAIN s /\ Append(s, e)[i] = s[i]) \/ (i = Len(s) + 1 /\ Append(s, e)[i] = e)
  BY AppendedRange
<1>2. \A i \in DOMAIN s : s[i] # e
  BY DEF Range
<1> DEFINE u == Append(s, e)
<1> HIDE DEF u
<1>3. \A i \in DOMAIN u : (i \in DOMAIN s /\ u[i] = s[i]) \/ (i = Len(s) + 1 /\ u[i] = e)
  BY <1>1 DEF u
<1>4. IsInjective(u)
  BY <1>2, <1>3 DEF IsInjective
<1> QED
  BY <1>4 DEF u

LEMMA InjectiveJoins ==
  ASSUME NEW T, NEW s \in Seq(T), NEW t \in Seq(T), IsInjective(s), IsInjective(t),
         Range(s) \cap Range(t) = {}
  PROVE  IsInjective(s \o t)
<1> DEFINE u == s \o t
           m == Len(s)
           n == Len(t)
<1>1. /\ m \in Nat /\ n \in Nat /\ DOMAIN s = 1..m /\ DOMAIN t = 1..n /\ DOMAIN u = 1..m + n
      /\ \A i \in 1..m : u[i] = s[i]
      /\ \A i \in 1..n : u[m + i] = t[i]
  BY JoinedRange, LenProperties
<1> HIDE DEF u, m, n
<1>2. ASSUME NEW i \in 1..m + n PROVE i \in 1..m \/ (i - m \in 1..n /\ u[i] = t[i - m])
  <2>1. CASE i <= m
    BY <1>1, <2>1
  <2>2. CASE ~(i <= m)
    <3>1. i - m \in 1..n /\ m + (i - m) = i
      BY <1>1, <2>2
    <3> QED BY <1>1, <3>1
  <2> QED BY <2>1, <2>2
<1>3. \A i \in 1..m, j \in 1..n : s[i] # t[j]
  BY <1>1 DEF Range
<1>4. ASSUME NEW i \in 1..m + n, NEW j \in 1..m + n, u[i] = u[j] PROVE i = j
  <2>1. CASE i \in 1..m /\ j \in 1..m
    BY <1>1, <1>4, <2>1 DEF IsInjective
  <2>2. CASE i \notin 1..m /\ j \notin 1..m
    <3>1. i - m \in 1..n /\ j - m \in 1..n /\ t[i - m] = t[j - m]
      BY <1>2, <1>4, <2>2
    <3>2. i - m = j - m
      BY <1>1, <3>1 DEF IsInjective
    <3> QED BY <1>1, <3>2
  <2>3. CASE i \in 1..m /\ j \notin 1..m
    BY <1>1, <1>2, <1>3, <1>4, <2>3
  <2>4. CASE i \notin 1..m /\ j \in 1..m
    BY <1>1, <1>2, <1>3, <1>4, <2>4
  <2> QED BY <2>1, <2>2, <2>3, <2>4
<1> QED
  BY <1>1, <1>4 DEF IsInjective, u

LEMMA InjectiveTail ==
  ASSUME NEW T, NEW s \in Seq(T), s # <<>>, IsInjective(s)
  PROVE  IsInjective(Tail(s)) /\ Head(s) \notin Range(Tail(s)) /\ Range(s) = Range(Tail(s)) \cup {Head(s)}
<1> DEFINE n == Len(s)
<1>1. /\ n \in Nat /\ n # 0 /\ DOMAIN s = 1..n /\ DOMAIN Tail(s) = 1..n - 1 /\ Head(s) = s[1]
      /\ \A i \in 1..n - 1 : Tail(s)[i] = s[i + 1]
  <2>1. /\ Head(s) = s[1] /\ Tail(s) \in Seq(T) /\ Len(Tail(s)) = n - 1
        /\ \A i \in 1..Len(Tail(s)) : Tail(s)[i] = s[i + 1]
    BY HeadTailProperties
  <2> QED BY <2>1, LenProperties, EmptySeq
<1> HIDE DEF n
<1>2. \A i \in 1..n - 1 : i + 1 \in 1..n /\ i + 1 # 1
  BY <1>1
<1>3. ASSUME NEW i \in 1..n - 1, NEW j \in 1..n - 1, Tail(s)[i] = Tail(s)[j] PROVE i = j
  <2>1. i + 1 = j + 1
    BY <1>1, <1>2, <1>3 DEF IsInjective
  <2> QED BY <2>1
<1>4. \A i \in 1..n - 1 : Tail(s)[i] # s[1]
  <2>1. 1 \in 1..n
    BY <1>1
  <2> QED BY <1>1, <1>2, <2>1 DEF IsInjective
<1>5. Range(s) = Range(Tail(s)) \cup {Head(s)}
  BY HeadAndTail
<1> QED
  BY <1>1, <1>3, <1>4, <1>5 DEF IsInjective, Range

-------------------------------------------------------------------------------
(***************************************************************************)
(* The selection: what is read, omitted and not looked at yet are the      *)
(* candidates, in their order.                                             *)
(***************************************************************************)
SelectionTypes ==
  /\ ranked \in Seq(Paths) /\ reading \in Seq(Paths) /\ omitted \in Seq(Paths)
  /\ listed \in Seq(Paths) /\ outlineOnly \in Seq(Paths)
  /\ IsInjective(reading) /\ IsInjective(omitted) /\ IsInjective(outlineOnly)
  /\ Len(reading) <= ContextFiles /\ SumOver(Costs, Range(reading)) <= ContextBudget
  /\ Len(listed) = (IF Len(omitted) <= OmissionDetails THEN Len(omitted) ELSE OmissionDetails)

NoRoomFor(p) ==
  LET before == {q \in Range(reading) : <<q, p>> \in RankedAhead}
  IN Cardinality(before) >= ContextFiles \/ SumOver(Costs, before) + Costs[p] > ContextBudget

NoRoom == {p \in Paths : NoRoomFor(p)}

Selection ==
  /\ \A i, j \in DOMAIN ranked : i < j => <<ranked[i], ranked[j]>> \in RankedAhead
  /\ \A p \in Range(reading) \cup Range(omitted), q \in Range(ranked) : <<p, q>> \in RankedAhead
  /\ Range(reading) \cap Range(omitted) = {}
  /\ Range(reading) \cup Range(omitted) \cup Range(ranked) = Candidates
  /\ Range(omitted) \subseteq NoRoom

SelectInv ==
  /\ SelectionTypes
  /\ contextPhase \in {"seeds", "reach"} =>
       ranked = <<>> /\ reading = <<>> /\ omitted = <<>> /\ outlineOnly = <<>>
  /\ contextPhase \notin {"seeds", "reach"} => Selection
  /\ contextPhase \in {"outline", "done"} => ranked = <<>>
  /\ contextPhase # "done" => Range(outlineOnly) = Range(omitted) \cap SeedFiles
  /\ Range(outlineOnly) \subseteq Range(omitted) \cap SeedFiles

LEMMA ContextLimits ==
  /\ ContextBudget \in Nat /\ ContextFiles \in Nat /\ OmissionDetails \in Nat /\ OutlineBytes \in Nat
  /\ FileOutlineBytes \in Nat /\ FileOutlineSymbols \in Nat /\ FilePrivateSymbols \in Nat
BY ContextAssumption

LEMMA CostsAre ==
  ASSUME repo \in Repositories
  PROVE  Costs \in [Paths -> Nat]
BY RepositoryFacts DEF Costs, WellFormedFile

\* What the selection is about does not change while it is made.
LEMMA SelectionFrame ==
  ASSUME UNCHANGED <<repo, hops>>
  PROVE  Paths' = Paths /\ Candidates' = Candidates /\ RankedAhead' = RankedAhead /\ Costs' = Costs
         /\ SeedFiles' = SeedFiles
<1>1. Paths' = Paths /\ SeedFiles' = SeedFiles /\ Costs' = Costs
  BY DEF Paths, SeedFiles, Diagnosed, Costs, File
<1>2. \A p : Skipped(p)' = Skipped(p)
  BY DEF Skipped, Focused, Changed, Diagnosed, File, Dependencies, SeedFiles, IsDependent,
         MatchingTest, Paths, Far
<1>3. Candidates' = Candidates
  BY <1>1, <1>2 DEF Candidates
<1>4. \A p : Score(p)' = Score(p) /\ Priority(p)' = Priority(p) /\ File(p)' = File(p)
  BY DEF Score, Priority, Weight, Focused, Changed, Diagnosed, File, Dependencies, SeedFiles,
         IsDependent, MatchingTest, SharesDirectory, FocusDirectories, Paths, Far
<1>5. \A p, q : Before(p, q)' = Before(p, q)
  BY <1>4 DEF Before
<1>6. RankedAhead' = RankedAhead
  BY <1>3, <1>5 DEF RankedAhead
<1> QED
  BY <1>1, <1>3, <1>6

LEMMA SelectionStays ==
  ASSUME SelectInv, UNCHANGED <<repo, ranked, reading, omitted, listed, outlineOnly>>,
         \/ {contextPhase, contextPhase'} \subseteq {"seeds", "reach"}
         \/ /\ UNCHANGED hops /\ contextPhase' = contextPhase
         \/ /\ UNCHANGED hops /\ contextPhase = "select" /\ ranked = <<>> /\ contextPhase' = "outline"
  PROVE  SelectInv'
<1>1. Paths' = Paths /\ SeedFiles' = SeedFiles /\ Costs' = Costs
  BY DEF Paths, SeedFiles, Diagnosed, Costs, File
<1>2. SelectionTypes'
  BY <1>1 DEF SelectInv, SelectionTypes
<1>3. CASE {contextPhase, contextPhase'} \subseteq {"seeds", "reach"}
  BY <1>1, <1>2, <1>3 DEF SelectInv
<1>4. CASE UNCHANGED hops
  <2>1. Candidates' = Candidates /\ RankedAhead' = RankedAhead
    BY <1>4, SelectionFrame
  <2>2. NoRoom' = NoRoom
    BY <1>1, <2>1 DEF NoRoom, NoRoomFor
  <2>3. Selection' = Selection
    BY <1>1, <2>1, <2>2 DEF Selection
  <2> QED BY <1>1, <1>2, <1>4, <2>3 DEF SelectInv
<1> QED
  BY <1>3, <1>4

LEMMA RankKeeps ==
  ASSUME SearchInv, SelectInv, Rank PROVE SelectInv'
<1>1. SearchTypes
  BY DEF SearchInv
<1>2. /\ UNCHANGED <<repo, hops, reading, omitted, listed, outlineOnly>>
      /\ ranked' = Ranking(Candidates) /\ contextPhase = "reach" /\ contextPhase' = "select"
  BY DEF Rank
<1>3. /\ Paths' = Paths /\ SeedFiles' = SeedFiles /\ Costs' = Costs
      /\ Candidates' = Candidates /\ RankedAhead' = RankedAhead
  BY <1>2, SelectionFrame
<1>4. reading = <<>> /\ omitted = <<>> /\ outlineOnly = <<>> /\ SelectionTypes
  BY <1>2 DEF SelectInv
<1>5. /\ ranked' \in Seq(Candidates) /\ Range(ranked') = Candidates
      /\ \A i, j \in DOMAIN ranked' : i < j => <<ranked'[i], ranked'[j]>> \in RankedAhead
  BY <1>1, <1>2, RankingLists, ListingIs
<1>6. ranked' \in Seq(Paths)
  BY <1>1, <1>5, RankingLists, SeqMonotonic
<1>7. Range(<<>>) = {}
  BY EmptySeq DEF Range
<1>8. SelectionTypes'
  BY <1>2, <1>3, <1>4, <1>6 DEF SelectionTypes
<1>9. Selection'
  BY <1>2, <1>3, <1>4, <1>5, <1>7 DEF Selection
<1> QED
  BY <1>2, <1>3, <1>4, <1>7, <1>8, <1>9 DEF SelectInv

LEMMA SelectNextKeeps ==
  ASSUME SearchInv, SelectInv, SelectNext PROVE SelectInv'
<1> DEFINE p == Head(ranked)
           rest == Tail(ranked)
<1>1. SearchTypes /\ repo \in Repositories
  BY DEF SearchInv, SearchTypes
<1>2. /\ UNCHANGED <<repo, hops, contextPhase>> /\ contextPhase = "select"
      /\ ranked # <<>> /\ ranked' = rest
  BY DEF SelectNext
<1>3. SelectionTypes /\ Selection /\ Range(outlineOnly) = Range(omitted) \cap SeedFiles
  BY <1>2 DEF SelectInv
<1>4. /\ Paths' = Paths /\ SeedFiles' = SeedFiles /\ Costs' = Costs
      /\ Candidates' = Candidates /\ RankedAhead' = RankedAhead
  BY <1>2, SelectionFrame
<1>5. /\ ranked \in Seq(Paths) /\ reading \in Seq(Paths) /\ omitted \in Seq(Paths)
      /\ listed \in Seq(Paths) /\ outlineOnly \in Seq(Paths)
      /\ IsInjective(reading) /\ IsInjective(omitted) /\ IsInjective(outlineOnly)
  BY <1>3 DEF SelectionTypes
<1>6. /\ TotalOrder(RankedAhead, Candidates) /\ Candidates \subseteq Paths /\ Costs \in [Paths -> Nat]
      /\ ContextFiles \in Nat /\ ContextBudget \in Nat /\ OmissionDetails \in Nat
  BY <1>1, RankingLists, CostsAre, ContextLimits
<1>7. /\ p \in Paths /\ rest \in Seq(Paths) /\ Range(ranked) = Range(rest) \cup {p}
      /\ \A i, j \in DOMAIN rest : i < j => <<rest[i], rest[j]>> \in RankedAhead
      /\ \A i \in DOMAIN rest : <<p, rest[i]>> \in RankedAhead
  <2>1. /\ p \in Paths /\ rest \in Seq(Paths) /\ p = ranked[1] /\ Len(rest) = Len(ranked) - 1
        /\ Len(ranked) \in Nat /\ Len(ranked) # 0 /\ DOMAIN ranked = 1..Len(ranked)
        /\ DOMAIN rest = 1..Len(ranked) - 1 /\ \A i \in 1..Len(ranked) - 1 : rest[i] = ranked[i + 1]
    <3>1. /\ p \in Paths /\ p = ranked[1] /\ rest \in Seq(Paths) /\ Len(rest) = Len(ranked) - 1
          /\ \A i \in 1..Len(rest) : rest[i] = ranked[i + 1]
      BY <1>2, <1>5, HeadTailProperties
    <3> QED BY <1>2, <1>5, <3>1, LenProperties, EmptySeq
  <2>2. Range(ranked) = Range(rest) \cup {p}
    BY <1>2, <1>5, HeadAndTail
  <2>3. \A i, j \in DOMAIN ranked : i < j => <<ranked[i], ranked[j]>> \in RankedAhead
    BY <1>3 DEF Selection
  <2> DEFINE n == Len(ranked)
  <2> HIDE DEF rest, p, n
  <2>4. \A i \in 1..n - 1 : i + 1 \in 1..n /\ 1 < i + 1 /\ 1 \in 1..n
    BY <2>1 DEF n
  <2>5. \A i \in 1..n - 1 : <<p, rest[i]>> \in RankedAhead
    BY <2>1, <2>3, <2>4 DEF n
  <2>6. \A i, j \in 1..n - 1 : i < j => i + 1 < j + 1
    BY <2>1 DEF n
  <2>7. \A i, j \in 1..n - 1 : i < j => <<rest[i], rest[j]>> \in RankedAhead
    BY <2>1, <2>3, <2>4, <2>6 DEF n
  <2> QED BY <2>1, <2>2, <2>5, <2>7 DEF n
<1> HIDE DEF rest, p
<1>8. p \in Candidates /\ \A x \in Range(reading) \cup Range(omitted) : <<x, p>> \in RankedAhead
  BY <1>3, <1>7 DEF Selection
<1>9. \A x \in Range(rest) : <<p, x>> \in RankedAhead
  BY <1>7 DEF Range
<1>10. <<p, p>> \notin RankedAhead /\ p \notin Range(reading) /\ p \notin Range(omitted)
       /\ \A x \in Range(omitted) : <<p, x>> \notin RankedAhead
  <2>1. \A x \in Range(omitted) : x \in Candidates
    BY <1>3 DEF Selection
  <2> QED BY <1>6, <1>8, <2>1 DEF TotalOrder
<1>11. IsFiniteSet(Range(reading)) /\ Cardinality(Range(reading)) = Len(reading) /\ Len(reading) \in Nat
       /\ Range(reading) \subseteq Paths /\ Range(omitted) \subseteq Paths
  BY <1>5, InjectiveCounts
<1>12. Tokens(Range(reading)) = SumOver(Costs, Range(reading)) /\ File(p).tokens = Costs[p]
       /\ SumOver(Costs, Range(reading)) \in Nat /\ Costs[p] \in Nat
  <2>1. [x \in Range(reading) |-> File(x).tokens] = [x \in Range(reading) |-> Costs[x]]
    BY <1>11 DEF Costs
  <2>2. SumOver(Costs, Range(reading)) \in Nat
    BY <1>6, <1>11, SumsOver
  <2> QED BY <1>6, <1>7, <2>1, <2>2 DEF Tokens, SumOver, Costs
<1>13. \A i, j \in DOMAIN ranked' : i < j => <<ranked'[i], ranked'[j]>> \in RankedAhead
  BY <1>2, <1>7
<1>14. Range(omitted) \subseteq NoRoom /\ Range(reading) \cup Range(omitted) \cup Range(ranked) = Candidates
       /\ Range(reading) \cap Range(omitted) = {}
       /\ \A x \in Range(reading) \cup Range(omitted), q \in Range(rest) : <<x, q>> \in RankedAhead
  BY <1>3, <1>7 DEF Selection
<1>15. CASE Omitted(p)
  <2>1. /\ reading' = reading /\ omitted' = Append(omitted, p)
        /\ outlineOnly' = IF p \in SeedFiles THEN Append(outlineOnly, p) ELSE outlineOnly
        /\ listed' = IF Len(listed) < OmissionDetails THEN Append(listed, p) ELSE listed
    BY <1>15 DEF SelectNext, p
  <2>2. omitted' \in Seq(Paths) /\ Range(omitted') = Range(omitted) \cup {p} /\ IsInjective(omitted')
        /\ Len(omitted') = Len(omitted) + 1
    BY <1>5, <1>7, <1>10, <2>1, AppendedRange, InjectiveAppends
  <2>3. outlineOnly' \in Seq(Paths) /\ IsInjective(outlineOnly')
        /\ Range(outlineOnly') = Range(omitted') \cap SeedFiles
    <3>1. CASE p \in SeedFiles
      <4>1. outlineOnly' = Append(outlineOnly, p) /\ p \notin Range(outlineOnly)
        BY <1>3, <1>10, <2>1, <3>1
      <4>2. Range(outlineOnly') = Range(outlineOnly) \cup {p} /\ outlineOnly' \in Seq(Paths)
            /\ IsInjective(outlineOnly')
        BY <1>5, <1>7, <4>1, AppendedRange, InjectiveAppends
      <4> QED BY <1>3, <2>2, <3>1, <4>2
    <3>2. CASE p \notin SeedFiles
      BY <1>3, <1>5, <2>1, <2>2, <3>2
    <3> QED BY <3>1, <3>2
  <2>4. listed' \in Seq(Paths)
        /\ Len(listed') = (IF Len(omitted') <= OmissionDetails THEN Len(omitted') ELSE OmissionDetails)
    <3>1. Len(listed) = (IF Len(omitted) <= OmissionDetails THEN Len(omitted) ELSE OmissionDetails)
          /\ Len(omitted) \in Nat /\ Len(listed) \in Nat
      BY <1>3, <1>5, LenProperties DEF SelectionTypes
    <3>2. Append(listed, p) \in Seq(Paths) /\ Len(Append(listed, p)) = Len(listed) + 1
      BY <1>5, <1>7, AppendedRange
    <3>3. CASE Len(listed) < OmissionDetails
      BY <1>6, <2>1, <2>2, <3>1, <3>2, <3>3
    <3>4. CASE ~(Len(listed) < OmissionDetails)
      BY <1>5, <1>6, <2>1, <2>2, <3>1, <3>4
    <3> QED BY <3>3, <3>4
  <2>5. SelectionTypes'
    BY <1>2, <1>3, <1>4, <1>5, <1>7, <2>1, <2>2, <2>3, <2>4 DEF SelectionTypes
  <2>6. NoRoom' = NoRoom
    BY <1>4, <2>1 DEF NoRoom, NoRoomFor
  <2>7. p \in NoRoom
    <3>1. {q \in Range(reading) : <<q, p>> \in RankedAhead} = Range(reading)
      BY <1>8
    <3>2. Len(reading) >= ContextFiles \/ SumOver(Costs, Range(reading)) + Costs[p] > ContextBudget
      BY <1>12, <1>15 DEF Omitted
    <3> QED BY <1>7, <1>11, <3>1, <3>2 DEF NoRoom, NoRoomFor
  <2>8. Selection'
    <3>1. Range(reading') \cap Range(omitted') = {} /\ Range(omitted') \subseteq NoRoom'
          /\ Range(reading') \cup Range(omitted') \cup Range(ranked') = Candidates
      BY <1>2, <1>7, <1>10, <1>14, <2>1, <2>2, <2>6, <2>7
    <3>2. \A x \in Range(reading') \cup Range(omitted'), q \in Range(ranked') : <<x, q>> \in RankedAhead
      BY <1>2, <1>9, <1>14, <2>1, <2>2
    <3> QED BY <1>4, <1>13, <3>1, <3>2 DEF Selection
  <2> QED BY <1>2, <1>4, <2>3, <2>5, <2>8 DEF SelectInv
<1>16. CASE ~Omitted(p)
  <2>1. reading' = Append(reading, p) /\ UNCHANGED <<omitted, outlineOnly, listed>>
    BY <1>16 DEF SelectNext, p
  <2>2. reading' \in Seq(Paths) /\ Range(reading') = Range(reading) \cup {p} /\ IsInjective(reading')
        /\ Len(reading') = Len(reading) + 1
    BY <1>5, <1>7, <1>10, <2>1, AppendedRange, InjectiveAppends
  <2>3. SumOver(Costs, Range(reading')) = SumOver(Costs, Range(reading)) + Costs[p]
    BY <1>6, <1>7, <1>10, <1>11, <2>2, SumsOver
  <2>4. Len(reading') <= ContextFiles /\ SumOver(Costs, Range(reading')) <= ContextBudget
    <3>1. ~(Len(reading) >= ContextFiles) /\ ~(SumOver(Costs, Range(reading)) + Costs[p] > ContextBudget)
      BY <1>12, <1>16 DEF Omitted
    <3> QED BY <1>6, <1>11, <1>12, <2>2, <2>3, <3>1
  <2>5. SelectionTypes'
    BY <1>2, <1>3, <1>4, <1>5, <1>7, <2>1, <2>2, <2>4 DEF SelectionTypes
  <2>6. Range(omitted) \subseteq NoRoom'
    <3> SUFFICES ASSUME NEW x \in Range(omitted) PROVE x \in NoRoom'
      OBVIOUS
    <3>1. {q \in Range(reading') : <<q, x>> \in RankedAhead} = {q \in Range(reading) : <<q, x>> \in RankedAhead}
      BY <1>10, <2>2
    <3>2. x \in NoRoom /\ x \in Paths
      BY <1>11, <1>14
    <3>3. NoRoomFor(x)
      BY <3>2 DEF NoRoom
    <3>4. LET before == {q \in Range(reading') : <<q, x>> \in RankedAhead}
          IN Cardinality(before) >= ContextFiles \/ SumOver(Costs, before) + Costs[x] > ContextBudget
      BY <3>1, <3>3 DEF NoRoomFor
    <3> QED BY <1>4, <3>2, <3>4 DEF NoRoom, NoRoomFor
  <2>7. Selection'
    <3>1. Range(reading') \cap Range(omitted') = {} /\ Range(omitted') \subseteq NoRoom'
          /\ Range(reading') \cup Range(omitted') \cup Range(ranked') = Candidates
      BY <1>2, <1>7, <1>10, <1>14, <2>1, <2>2, <2>6
    <3>2. \A x \in Range(reading') \cup Range(omitted'), q \in Range(ranked') : <<x, q>> \in RankedAhead
      BY <1>2, <1>9, <1>14, <2>1, <2>2
    <3> QED BY <1>4, <1>13, <3>1, <3>2 DEF Selection
  <2> QED BY <1>2, <1>3, <1>4, <2>1, <2>5, <2>7 DEF SelectInv
<1> QED
  BY <1>15, <1>16

-------------------------------------------------------------------------------
(***************************************************************************)
(* The outlines: of each file the sizes of its declarations, and those     *)
(* that are private.                                                       *)
(***************************************************************************)
SoonerIn(p) == {ij \in (DOMAIN File(p).outline) \X (DOMAIN File(p).outline) : Sooner(p, ij[1], ij[2])}

Lines == [p \in Paths |-> Len(File(p).outline)]
SizesIn == [p \in Paths |-> [i \in 1..Lines[p] |-> File(p).outline[i].bytes]]
Private == [p \in Paths |-> {i \in 1..Lines[p] : ~File(p).outline[i].exported}]

LEMMA OutlineOf ==
  ASSUME repo \in Repositories, NEW p \in Paths
  PROVE  /\ Lines[p] \in Nat /\ Lines[p] = Len(File(p).outline) /\ DOMAIN File(p).outline = 1..Lines[p]
         /\ IsFiniteSet(1..Lines[p]) /\ Cardinality(1..Lines[p]) = Lines[p]
         /\ SizesIn[p] \in [1..Lines[p] -> Nat]
         /\ \A i \in 1..Lines[p] : /\ File(p).outline[i].exported \in BOOLEAN
                                   /\ File(p).outline[i].finding \in BOOLEAN
                                   /\ File(p).outline[i].bytes = SizesIn[p][i]
                                   /\ (i \in Private[p]) = ~File(p).outline[i].exported
<1> DEFINE S == [exported : BOOLEAN, finding : BOOLEAN, bytes : Nat]
<1>1. File(p).outline \in Seq(S)
  BY RepositoryFacts DEF WellFormedFile
<1>2. /\ Len(File(p).outline) \in Nat /\ DOMAIN File(p).outline = 1..Len(File(p).outline)
      /\ \A i \in 1..Len(File(p).outline) : File(p).outline[i] \in S
  <2> HIDE DEF S
  <2> QED BY <1>1, LenProperties, ElementOfSeq
<1>3. Lines[p] = Len(File(p).outline)
  BY DEF Lines
<1>4. \A n \in Nat : IsFiniteSet(1..n) /\ Cardinality(1..n) = n
  BY FS_Interval
<1>5. SizesIn[p] = [i \in 1..Lines[p] |-> File(p).outline[i].bytes]
      /\ Private[p] = {i \in 1..Lines[p] : ~File(p).outline[i].exported}
  BY DEF SizesIn, Private
<1> QED
  BY <1>2, <1>3, <1>4, <1>5

LEMMA OutlineOrderLists ==
  ASSUME repo \in Repositories, NEW p \in Paths
  PROVE  /\ OutlineOrder(p) \in [1..Lines[p] -> 1..Lines[p]]
         /\ \A i, j \in 1..Lines[p] : OutlineOrder(p)[i] = OutlineOrder(p)[j] => i = j
<1> DEFINE ds == DOMAIN File(p).outline
<1>1. IsFiniteSet(ds) /\ Cardinality(ds) = Lines[p] /\ ds = 1..Lines[p] /\ Lines[p] \in Nat
  BY OutlineOf
<1>2. TotalOrder(SoonerIn(p), ds)
  <2>1. \A i \in ds : File(p).outline[i].exported \in BOOLEAN /\ File(p).outline[i].finding \in BOOLEAN
                      /\ i \in Nat
    BY <1>1, OutlineOf
  <2>2. \A i \in ds : ~Sooner(p, i, i)
    BY <2>1 DEF Sooner
  <2>3. ASSUME NEW i \in ds, NEW j \in ds, NEW k \in ds, Sooner(p, i, j), Sooner(p, j, k)
        PROVE  Sooner(p, i, k)
    BY <2>1, <2>3 DEF Sooner
  <2>4. ASSUME NEW i \in ds, NEW j \in ds, i # j PROVE Sooner(p, i, j) \/ Sooner(p, j, i)
    BY <2>1, <2>4 DEF Sooner
  <2> HIDE DEF ds
  <2>5. \A i, j \in ds : <<i, j>> \in SoonerIn(p) <=> Sooner(p, i, j)
    BY DEF SoonerIn, ds
  <2> QED BY <2>2, <2>3, <2>4, <2>5 DEF TotalOrder
<1>3. SoonerIn(p) \in SUBSET (ds \X ds)
  BY DEF SoonerIn
<1>4. PICK s : Listing(SoonerIn(p), ds, s)
  <2> HIDE DEF ds
  <2> QED BY <1>1, <1>2, <1>3, ListingExists
<1>5. \A i \in ds : {j \in ds : Sooner(p, j, i)} = Below(SoonerIn(p), ds, i)
  BY DEF Below, SoonerIn
<1>6. OutlineOrder(p) = [k \in 1..Cardinality(ds) |->
                           CHOOSE i \in ds : Cardinality({j \in ds : Sooner(p, j, i)}) = k - 1]
  BY DEF OutlineOrder
<1> HIDE DEF ds
<1>7. ASSUME NEW k \in 1..Cardinality(ds)
      PROVE  (CHOOSE i \in ds : Cardinality({j \in ds : Sooner(p, j, i)}) = k - 1) = s[k]
  <2>1. s[k] \in ds /\ Cardinality({j \in ds : Sooner(p, j, s[k])}) = k - 1
    BY <1>4, <1>5 DEF Listing
  <2>2. \A i \in ds : Cardinality({j \in ds : Sooner(p, j, i)}) = k - 1 => i = s[k]
    BY <1>4, <1>5, <2>1 DEF Listing
  <2> QED BY <2>1, <2>2
<1>8. OutlineOrder(p) = s
  BY <1>4, <1>6, <1>7 DEF Listing
<1>9. s \in [1..Cardinality(ds) -> ds]
  BY <1>4 DEF Listing
<1>10. \A i, j \in DOMAIN s : s[i] = s[j] => i = j
  BY <1>1, <1>2, <1>4, ListingIs
<1> QED
  BY <1>1, <1>8, <1>9, <1>10

\* An outline in the making, of which k declarations have been looked at.
Outlining(p, k, run, before) ==
  /\ run \in [private : Nat, taken : SUBSET (1..Lines[p]), bytes : Nat, left : Nat, all : Nat]
  /\ \A i \in run.taken : \E j \in 1..k : OutlineOrder(p)[j] = i
  /\ Cardinality(run.taken) + run.left = k
  /\ run.bytes = SumOver(SizesIn[p], run.taken) /\ run.all = before + run.bytes
  /\ run.all <= OutlineBytes /\ run.bytes <= FileOutlineBytes
  /\ Cardinality(run.taken) <= FileOutlineSymbols /\ run.private <= FilePrivateSymbols
  /\ Cardinality(run.taken \cap Private[p]) <= run.private

LEMMA AttachKeeps ==
  ASSUME repo \in Repositories, NEW p \in Paths, NEW k \in 1..Lines[p], NEW before \in Nat,
         NEW run, Outlining(p, k - 1, run, before)
  PROVE  Outlining(p, k, Attach(p, run, OutlineOrder(p)[k]), before)
<1> DEFINE i == OutlineOrder(p)[k]
           n == Lines[p]
           s == File(p).outline[i]
           private == IF s.exported THEN run.private ELSE run.private + 1
           full == \/ Cardinality(run.taken) >= FileOutlineSymbols
                   \/ run.bytes + s.bytes > FileOutlineBytes
                   \/ run.all + s.bytes > OutlineBytes
           next == Attach(p, run, i)
<1>1. /\ n \in Nat /\ IsFiniteSet(1..n) /\ SizesIn[p] \in [1..n -> Nat]
      /\ i \in 1..n /\ s.exported \in BOOLEAN /\ s.bytes = SizesIn[p][i] /\ s.bytes \in Nat
      /\ (i \in Private[p]) = ~s.exported
      /\ \A j \in 1..n : OutlineOrder(p)[j] = i => j = k
  <2>1. i \in 1..n /\ \A j \in 1..n : OutlineOrder(p)[j] = i => j = k
    BY OutlineOrderLists
  <2>2. n \in Nat /\ IsFiniteSet(1..n) /\ SizesIn[p] \in [1..n -> Nat]
    BY OutlineOf
  <2>3. s.exported \in BOOLEAN /\ s.bytes = SizesIn[p][i] /\ (i \in Private[p]) = ~s.exported
    BY <2>1, OutlineOf
  <2> HIDE DEF n, i
  <2> QED BY <2>1, <2>2, <2>3
<1>2. /\ run \in [private : Nat, taken : SUBSET (1..n), bytes : Nat, left : Nat, all : Nat]
      /\ \A x \in run.taken : \E j \in 1..k - 1 : OutlineOrder(p)[j] = x
      /\ Cardinality(run.taken) + run.left = k - 1
      /\ run.bytes = SumOver(SizesIn[p], run.taken) /\ run.all = before + run.bytes
      /\ run.all <= OutlineBytes /\ run.bytes <= FileOutlineBytes
      /\ Cardinality(run.taken) <= FileOutlineSymbols /\ run.private <= FilePrivateSymbols
      /\ Cardinality(run.taken \cap Private[p]) <= run.private
  BY DEF Outlining
<1>3. k \in 1..n /\ k \in Nat /\ k - 1 \in Nat /\ \A j \in 1..k - 1 : j \in 1..k /\ j \in 1..n /\ j # k
  BY <1>1
<1>4. /\ OutlineBytes \in Nat /\ FileOutlineBytes \in Nat /\ FileOutlineSymbols \in Nat
      /\ FilePrivateSymbols \in Nat
  BY ContextLimits
<1>5. next = (IF private > FilePrivateSymbols THEN [run EXCEPT !.left = @ + 1]
              ELSE IF full THEN [run EXCEPT !.left = @ + 1, !.private = private]
              ELSE [run EXCEPT !.private = private, !.taken = @ \cup {i}, !.bytes = @ + s.bytes,
                               !.all = @ + s.bytes])
  BY DEF Attach
<1>0. run \in [private : Nat, taken : SUBSET (1..n), bytes : Nat, left : Nat, all : Nat]
  BY <1>2
<1>6. run.private \in Nat /\ run.taken \in SUBSET (1..n) /\ run.bytes \in Nat /\ run.left \in Nat
      /\ run.all \in Nat
  BY <1>2
<1>7. IsFiniteSet(run.taken) /\ Cardinality(run.taken) \in Nat /\ i \notin run.taken
      /\ IsFiniteSet(run.taken \cap Private[p]) /\ Cardinality(run.taken \cap Private[p]) \in Nat
  <2>1. IsFiniteSet(run.taken) /\ IsFiniteSet(run.taken \cap Private[p])
    <3>1. run.taken \cap Private[p] \subseteq run.taken
      OBVIOUS
    <3> HIDE DEF n
    <3> QED BY <1>1, <1>6, <3>1, FS_Subset
  <2>2. i \notin run.taken
    BY <1>1, <1>2, <1>3
  <2> QED BY <2>1, <2>2, FS_CardinalityType
<1>8. private \in Nat /\ run.private <= private
  BY <1>6
<1> HIDE DEF next, s, i, n, full
<1>9. CASE private > FilePrivateSymbols
  <2>1. next = [run EXCEPT !.left = @ + 1]
    BY <1>5, <1>9
  <2>2. /\ next \in [private : Nat, taken : SUBSET (1..n), bytes : Nat, left : Nat, all : Nat]
        /\ next.private = run.private /\ next.taken = run.taken /\ next.bytes = run.bytes
        /\ next.left = run.left + 1 /\ next.all = run.all
    BY <1>2, <1>6, <2>1
  <2>3. Cardinality(next.taken) + next.left = k
    BY <1>2, <1>3, <1>6, <1>7, <2>2
  <2> QED BY <1>2, <1>3, <2>2, <2>3 DEF Outlining, next, n, i
<1>10. CASE ~(private > FilePrivateSymbols) /\ full
  <2>1. next = [run EXCEPT !.left = @ + 1, !.private = private]
    BY <1>5, <1>10
  <2>2. /\ next \in [private : Nat, taken : SUBSET (1..n), bytes : Nat, left : Nat, all : Nat]
        /\ next.private = private /\ next.taken = run.taken /\ next.bytes = run.bytes
        /\ next.left = run.left + 1 /\ next.all = run.all
    <3> HIDE DEF private
    <3>1. private \in Nat /\ run.left + 1 \in Nat
      BY <1>6, <1>8
    <3> QED BY <1>0, <1>6, <2>1, <3>1
  <2>3. Cardinality(next.taken) + next.left = k
    BY <1>2, <1>3, <1>6, <1>7, <2>2
  <2>4. next.private <= FilePrivateSymbols /\ Cardinality(next.taken \cap Private[p]) <= next.private
    <3> HIDE DEF private
    <3>1. private <= FilePrivateSymbols
      BY <1>4, <1>8, <1>10
    <3> QED BY <1>2, <1>6, <1>7, <1>8, <2>2, <3>1
  <2> QED BY <1>2, <1>3, <2>2, <2>3, <2>4 DEF Outlining, next, n, i
<1>11. CASE ~(private > FilePrivateSymbols) /\ ~full
  <2>1. next = [run EXCEPT !.private = private, !.taken = @ \cup {i}, !.bytes = @ + s.bytes,
                           !.all = @ + s.bytes]
    BY <1>5, <1>11
  <2>2. /\ next \in [private : Nat, taken : SUBSET (1..n), bytes : Nat, left : Nat, all : Nat]
        /\ next.private = private /\ next.taken = run.taken \cup {i}
        /\ next.bytes = run.bytes + s.bytes /\ next.left = run.left /\ next.all = run.all + s.bytes
    <3> HIDE DEF private
    <3>1. run.taken \cup {i} \in SUBSET (1..n)
      BY <1>1, <1>6
    <3>2. s.bytes \in Nat /\ run.bytes \in Nat /\ run.all \in Nat /\ private \in Nat
      BY <1>1, <1>6, <1>8
    <3>3. run.bytes + s.bytes \in Nat /\ run.all + s.bytes \in Nat
      BY <3>2
    <3> QED BY <1>0, <1>6, <2>1, <3>1, <3>2, <3>3
  <2>3. Cardinality(next.taken) = Cardinality(run.taken) + 1 /\ IsFiniteSet(next.taken)
    BY <1>7, <2>2, FS_AddElement
  <2>4. Cardinality(next.taken) + next.left = k
    BY <1>2, <1>3, <1>6, <1>7, <2>2, <2>3
  <2>5. next.bytes = SumOver(SizesIn[p], next.taken)
    <3> DEFINE T == 1..n
    <3>1. i \in T \ run.taken
      BY <1>1, <1>7
    <3>2. SizesIn[p] \in [T -> Nat] /\ run.taken \in SUBSET T /\ IsFiniteSet(run.taken)
      BY <1>1, <1>6, <1>7
    <3> HIDE DEF T
    <3>3. \A x \in T \ run.taken :
            SumOver(SizesIn[p], run.taken \cup {x}) = SumOver(SizesIn[p], run.taken) + SizesIn[p][x]
      BY <3>2, SumsOver
    <3>4. SumOver(SizesIn[p], run.taken \cup {i}) = SumOver(SizesIn[p], run.taken) + SizesIn[p][i]
      BY <3>1, <3>3
    <3> QED BY <1>1, <1>2, <2>2, <3>4
  <2>6. next.all = before + next.bytes
    BY <1>1, <1>2, <1>6, <2>2
  <2>7. next.all <= OutlineBytes /\ next.bytes <= FileOutlineBytes
        /\ Cardinality(next.taken) <= FileOutlineSymbols
    <3>1. ~(Cardinality(run.taken) >= FileOutlineSymbols) /\ ~(run.bytes + s.bytes > FileOutlineBytes)
          /\ ~(run.all + s.bytes > OutlineBytes)
      BY <1>11 DEF full
    <3>2. s.bytes \in Nat /\ run.bytes \in Nat /\ run.all \in Nat /\ Cardinality(run.taken) \in Nat
      BY <1>1, <1>6, <1>7
    <3>3. /\ next.bytes = run.bytes + s.bytes /\ next.all = run.all + s.bytes
          /\ Cardinality(next.taken) = Cardinality(run.taken) + 1
      BY <2>2, <2>3
    <3>4. run.bytes + s.bytes <= FileOutlineBytes /\ run.all + s.bytes <= OutlineBytes
      BY <1>4, <3>1, <3>2
    <3>5. Cardinality(run.taken) + 1 <= FileOutlineSymbols
      BY <1>4, <3>1, <3>2
    <3> QED BY <3>3, <3>4, <3>5
  <2>8. next.private <= FilePrivateSymbols
    <3> HIDE DEF private
    <3> QED BY <1>4, <1>8, <1>11, <2>2
  <2>9. Cardinality(next.taken \cap Private[p]) <= next.private
    <3>1. CASE s.exported
      <4>1. next.taken \cap Private[p] = run.taken \cap Private[p] /\ private = run.private
        BY <1>1, <2>2, <3>1
      <4> QED BY <1>2, <2>2, <4>1
    <3>2. CASE ~s.exported
      <4>1. next.taken \cap Private[p] = (run.taken \cap Private[p]) \cup {i} /\ private = run.private + 1
            /\ i \notin run.taken \cap Private[p]
        BY <1>1, <1>7, <2>2, <3>2
      <4>2. Cardinality(next.taken \cap Private[p]) = Cardinality(run.taken \cap Private[p]) + 1
        BY <1>7, <4>1, FS_AddElement
      <4> HIDE DEF private
      <4> QED BY <1>2, <1>6, <1>7, <2>2, <4>1, <4>2
    <3> QED BY <3>1, <3>2
  <2>10. \A x \in next.taken : \E j \in 1..k : OutlineOrder(p)[j] = x
    <3>1. k \in 1..k /\ OutlineOrder(p)[k] = i
      BY <1>3 DEF i
    <3> QED BY <1>2, <1>3, <2>2, <3>1
  <2> QED BY <2>2, <2>4, <2>5, <2>6, <2>7, <2>8, <2>9, <2>10 DEF Outlining, next, n, i
<1> QED
  BY <1>9, <1>10, <1>11 DEF next, i

LEMMA AttachTyped ==
  ASSUME repo \in Repositories, NEW p \in Paths, NEW i \in 1..Lines[p],
         NEW run \in [private : Nat, taken : SUBSET (1..Lines[p]), bytes : Nat, left : Nat, all : Nat]
  PROVE  Attach(p, run, i)
           \in [private : Nat, taken : SUBSET (1..Lines[p]), bytes : Nat, left : Nat, all : Nat]
<1> DEFINE n == Lines[p]
           s == File(p).outline[i]
           private == IF s.exported THEN run.private ELSE run.private + 1
           full == \/ Cardinality(run.taken) >= FileOutlineSymbols
                   \/ run.bytes + s.bytes > FileOutlineBytes
                   \/ run.all + s.bytes > OutlineBytes
           next == Attach(p, run, i)
           R == [private : Nat, taken : SUBSET (1..n), bytes : Nat, left : Nat, all : Nat]
<1>1. s.bytes \in Nat
  <2>1. SizesIn[p] \in [1..n -> Nat] /\ s.bytes = SizesIn[p][i]
    BY OutlineOf
  <2> HIDE DEF s
  <2> QED BY <2>1
<1>2. next = (IF private > FilePrivateSymbols THEN [run EXCEPT !.left = @ + 1]
              ELSE IF full THEN [run EXCEPT !.left = @ + 1, !.private = private]
              ELSE [run EXCEPT !.private = private, !.taken = @ \cup {i}, !.bytes = @ + s.bytes,
                               !.all = @ + s.bytes])
  BY DEF Attach
<1>3. run.private \in Nat /\ run.taken \in SUBSET (1..n) /\ run.bytes \in Nat /\ run.left \in Nat
      /\ run.all \in Nat
  OBVIOUS
<1>4. private \in Nat
  BY <1>3
<1>5. run.left + 1 \in Nat /\ run.bytes + s.bytes \in Nat /\ run.all + s.bytes \in Nat
      /\ run.taken \cup {i} \in SUBSET (1..n)
  <2>1. run.left + 1 \in Nat /\ run.bytes + s.bytes \in Nat /\ run.all + s.bytes \in Nat
    BY <1>1, <1>3
  <2> QED BY <1>3, <2>1
<1>6. run \in R
  OBVIOUS
<1> HIDE DEF next, s, n, full, private
<1>7. next \in R
  <2>1. CASE private > FilePrivateSymbols
    BY <1>2, <1>5, <1>6, <2>1
  <2>2. CASE ~(private > FilePrivateSymbols) /\ full
    BY <1>2, <1>4, <1>5, <1>6, <2>2
  <2>3. CASE ~(private > FilePrivateSymbols) /\ ~full
    BY <1>2, <1>4, <1>5, <1>6, <2>3
  <2> QED BY <2>1, <2>2, <2>3
<1> QED
  BY <1>7 DEF next, n

LEMMA OutlineRuns ==
  ASSUME repo \in Repositories, NEW p \in Paths, NEW before \in Nat, before <= OutlineBytes,
         NEW n, n = Lines[p], NEW run,
         run = CHOOSE it : it =
           [k \in 0..n |->
              IF k = 0 THEN [private |-> 0, taken |-> {}, bytes |-> 0, left |-> 0, all |-> before]
              ELSE Attach(p, it[k - 1], OutlineOrder(p)[k])]
  PROVE  Outlining(p, n, run[n], before)
<1> DEFINE start == [private |-> 0, taken |-> {}, bytes |-> 0, left |-> 0, all |-> before]
           R == [private : Nat, taken : SUBSET (1..n), bytes : Nat, left : Nat, all : Nat]
           G(it) == [k \in 0..n |-> IF k = 0 THEN start ELSE Attach(p, it[k - 1], OutlineOrder(p)[k])]
           F == [k \in 1..n |-> [x \in R |-> Attach(p, x, OutlineOrder(p)[k])]]
<1>1. n \in Nat /\ SizesIn[p] \in [1..n -> Nat] /\ OutlineOrder(p) \in [1..n -> 1..n]
  BY OutlineOf, OutlineOrderLists
<1>2. start \in R /\ F \in [1..n -> [R -> R]]
  <2>1. start \in R
    OBVIOUS
  <2>2. ASSUME NEW k \in 1..n, NEW x \in R PROVE Attach(p, x, OutlineOrder(p)[k]) \in R
    BY <1>1, AttachTyped
  <2> HIDE DEF R
  <2> QED BY <2>1, <2>2
<1>3. run = CHOOSE it : it = G(it)
  OBVIOUS
<1>4. PICK f : Recursion(n, R, start, F, f)
  <2> HIDE DEF R, F, start
  <2> QED BY <1>1, <1>2, RecursionExists
<1> HIDE DEF start, R
<1>5. f \in [0..n -> R] /\ f[0] = start /\ \A k \in 1..n : f[k] = Attach(p, f[k - 1], OutlineOrder(p)[k])
  <2>1. f \in [0..n -> R] /\ f[0] = start /\ \A k \in 1..n : f[k] = F[k][f[k - 1]]
    BY <1>4 DEF Recursion
  <2>2. \A k \in 1..n : k - 1 \in 0..n
    BY <1>1
  <2>3. ASSUME NEW k \in 1..n PROVE f[k] = Attach(p, f[k - 1], OutlineOrder(p)[k])
    <3>1. f[k - 1] \in R
      BY <2>1, <2>2
    <3> QED BY <2>1, <3>1
  <2> QED BY <2>1, <2>3
<1>6. f = G(f)
  <2>1. ASSUME NEW k \in 0..n
        PROVE  f[k] = IF k = 0 THEN start ELSE Attach(p, f[k - 1], OutlineOrder(p)[k])
    <3>1. CASE k = 0
      BY <1>5, <3>1
    <3>2. CASE k # 0
      <4>1. k \in 1..n
        BY <1>1, <3>2
      <4> QED BY <1>5, <3>2, <4>1
    <3> QED BY <3>1, <3>2
  <2> QED BY <1>5, <2>1
<1>7. run = G(run)
  <2> HIDE DEF G
  <2> QED BY <1>3, <1>6
<1> DEFINE Good == {k \in 0..n : Outlining(p, k, run[k], before)}
<1>8. 0 \in Good
  <2>1. 0 \in 0..n
    BY <1>1
  <2>2. run[0] = start
    BY <1>7, <2>1
  <2>3. SumOver(SizesIn[p], {}) = 0
    <3>1. IsFiniteSet({}) /\ {} \in SUBSET (1..n)
      BY FS_EmptySet
    <3> DEFINE T == 1..n
    <3> HIDE DEF T
    <3>2. SizesIn[p] \in [T -> Nat] /\ {} \in SUBSET T
      BY <1>1 DEF T
    <3> QED BY <3>1, <3>2, SumsOver
  <2>4. Cardinality({}) = 0 /\ {} \cap Private[p] = {}
    BY FS_EmptySet
  <2>5. Outlining(p, 0, start, before)
    BY <1>2, <2>3, <2>4, ContextLimits DEF Outlining, start, R
  <2> QED BY <2>1, <2>2, <2>5
<1>9. ASSUME NEW k \in 1..n, k - 1 \in Good PROVE k \in Good
  <2>1. k \in 0..n /\ k # 0 /\ k \in 1..Lines[p]
    BY <1>1
  <2>2. run[k] = Attach(p, run[k - 1], OutlineOrder(p)[k])
    BY <1>7, <2>1
  <2>3. Outlining(p, k - 1, run[k - 1], before)
    BY <1>9
  <2>4. Outlining(p, k, Attach(p, run[k - 1], OutlineOrder(p)[k]), before)
    BY <2>1, <2>3, AttachKeeps
  <2> QED BY <2>1, <2>2, <2>4
<1>10. n \in Good
  <2> HIDE DEF Good
  <2>1. Good \in SUBSET (0..n)
    BY DEF Good
  <2>2. \A k \in 0..n : k \in Good
    BY <1>1, <1>8, <1>9, <2>1, NumbersInTurn
  <2>3. n \in 0..n
    BY <1>1
  <2> QED BY <2>2, <2>3
<1> QED
  BY <1>10

\* Per file the bytes of the declarations that are shown, and the number of those
\* that are not.
BytesShown == [p \in Paths |-> SumOver(SizesIn[p], shown[p])]
Unshown == [p \in Paths |-> Lines[p] - Cardinality(shown[p])]

OutlinedFiles == Range(reading) \cup (Range(omitted) \cap SeedFiles)
Attached == OutlinedFiles \ Range(outlining)

OutlineLimits ==
  \A p \in Paths :
    /\ shown[p] \subseteq 1..Lines[p] /\ BytesShown[p] <= FileOutlineBytes
    /\ Cardinality(shown[p]) <= FileOutlineSymbols
    /\ Cardinality(shown[p] \cap Private[p]) <= FilePrivateSymbols

Outlines ==
  /\ IsInjective(outlining) /\ Range(outlining) \subseteq OutlinedFiles
  /\ \A p \in Paths \ Attached : shown[p] = {}
  /\ outlined.bytes = SumOver(BytesShown, Attached) /\ outlined.bytes <= OutlineBytes
  /\ outlined.left = SumOver(Unshown, Attached)

OutlineInv ==
  /\ outlining \in Seq(Paths) /\ DOMAIN shown = Places /\ outlined \in [bytes : Nat, left : Nat]
  /\ OutlineLimits
  /\ contextPhase \in {"seeds", "reach", "select"} =>
       outlined = [bytes |-> 0, left |-> 0] /\ \A p \in Paths : shown[p] = {}
  /\ contextPhase \in {"outline", "done"} => Outlines
  /\ contextPhase = "done" => outlining = <<>>
  /\ contextPhase = "done" =>
       Range(outlineOnly) = {p \in Range(omitted) \cap SeedFiles : shown[p] # {} \/ p \in Diagnosed}

LEMMA OutlineFrame ==
  ASSUME repo' = repo
  PROVE  Paths' = Paths /\ Places' = Places /\ SeedFiles' = SeedFiles /\ Diagnosed' = Diagnosed
         /\ Lines' = Lines /\ SizesIn' = SizesIn /\ Private' = Private
BY DEF Paths, Places, SeedFiles, Diagnosed, Lines, SizesIn, Private, File

LEMMA ShownIs ==
  ASSUME repo \in Repositories, OutlineLimits
  PROVE  /\ BytesShown \in [Paths -> Nat] /\ Unshown \in [Paths -> Nat]
         /\ \A p \in Paths : IsFiniteSet(shown[p]) /\ Cardinality(shown[p]) \in Nat
<1>1. ASSUME NEW p \in Paths
      PROVE  /\ BytesShown[p] \in Nat /\ Unshown[p] \in Nat
             /\ IsFiniteSet(shown[p]) /\ Cardinality(shown[p]) \in Nat
  <2> DEFINE T == 1..Lines[p]
  <2>1. Lines[p] \in Nat /\ IsFiniteSet(T) /\ Cardinality(T) = Lines[p] /\ SizesIn[p] \in [T -> Nat]
        /\ shown[p] \in SUBSET T
    BY OutlineOf DEF OutlineLimits
  <2> HIDE DEF T
  <2>2. IsFiniteSet(shown[p]) /\ Cardinality(shown[p]) \in Nat /\ Cardinality(shown[p]) <= Cardinality(T)
    BY <2>1, FS_Subset, FS_CardinalityType
  <2>3. SumOver(SizesIn[p], shown[p]) \in Nat
    BY <2>1, <2>2, SumsOver
  <2>4. Lines[p] - Cardinality(shown[p]) \in Nat
    BY <2>1, <2>2
  <2> QED BY <2>2, <2>3, <2>4 DEF BytesShown, Unshown
<1> QED
  BY <1>1 DEF BytesShown, Unshown

LEMMA OutlinesStay ==
  ASSUME OutlineInv, UNCHANGED <<repo, outlining, shown, outlined>>,
         contextPhase \in {"seeds", "reach", "select"}, contextPhase' \in {"seeds", "reach", "select"}
  PROVE  OutlineInv'
<1>1. Paths' = Paths /\ Places' = Places /\ Lines' = Lines /\ SizesIn' = SizesIn /\ Private' = Private
  BY OutlineFrame
<1>2. OutlineLimits'
  BY <1>1 DEF OutlineInv, OutlineLimits, BytesShown
<1> QED
  BY <1>1, <1>2 DEF OutlineInv

LEMMA StartOutlinesKeeps ==
  ASSUME SearchInv, SelectInv, OutlineInv, StartOutlines PROVE OutlineInv'
<1>1. /\ UNCHANGED <<repo, reading, omitted, outlineOnly, shown, outlined>>
      /\ contextPhase = "select" /\ contextPhase' = "outline" /\ outlining' = reading \o outlineOnly
  BY DEF StartOutlines
<1>2. Paths' = Paths /\ Places' = Places /\ Lines' = Lines /\ SizesIn' = SizesIn /\ Private' = Private
      /\ SeedFiles' = SeedFiles
  BY <1>1, OutlineFrame
<1>3. /\ reading \in Seq(Paths) /\ outlineOnly \in Seq(Paths) /\ IsInjective(reading)
      /\ IsInjective(outlineOnly) /\ Range(outlineOnly) = Range(omitted) \cap SeedFiles
      /\ Range(reading) \cap Range(omitted) = {}
  BY <1>1 DEF SelectInv, SelectionTypes, Selection
<1>4. outlining' \in Seq(Paths) /\ Range(outlining') = OutlinedFiles /\ IsInjective(outlining')
  <2>1. Range(reading) \cap Range(outlineOnly) = {}
    BY <1>3
  <2> QED BY <1>1, <1>3, <2>1, JoinedRange, InjectiveJoins DEF OutlinedFiles
<1>5. OutlinedFiles' = OutlinedFiles
  BY <1>1, <1>2 DEF OutlinedFiles
<1>6. Attached' = {}
  BY <1>4, <1>5 DEF Attached
<1>7. OutlineLimits' /\ \A p \in Paths : shown'[p] = {}
  BY <1>1, <1>2 DEF OutlineInv, OutlineLimits, BytesShown
<1>8. repo' \in Repositories /\ repo \in Repositories
  BY <1>1 DEF SearchInv, SearchTypes
<1>9. SumOver(BytesShown', {}) = 0 /\ SumOver(Unshown', {}) = 0
  <2>1. BytesShown' = BytesShown /\ Unshown' = Unshown
    BY <1>1, <1>2 DEF BytesShown, Unshown
  <2>2. BytesShown \in [Paths -> Nat] /\ Unshown \in [Paths -> Nat]
    BY <1>8, ShownIs DEF OutlineInv
  <2>3. IsFiniteSet({}) /\ {} \in SUBSET Paths
    BY FS_EmptySet
  <2> QED BY <2>1, <2>2, <2>3, SumsOver
<1>10. Outlines'
  <2>1. outlined = [bytes |-> 0, left |-> 0] /\ OutlineBytes \in Nat
    BY <1>1, ContextLimits DEF OutlineInv
  <2>2. outlined'.bytes = 0 /\ outlined'.left = 0
    BY <1>1, <2>1
  <2> QED BY <1>2, <1>4, <1>5, <1>6, <1>7, <1>9, <2>1, <2>2 DEF Outlines
<1> QED
  BY <1>1, <1>2, <1>4, <1>7, <1>10 DEF OutlineInv

LEMMA OutlineNextKeeps ==
  ASSUME SearchInv, SelectInv, OutlineInv, OutlineNext PROVE OutlineInv'
<1> DEFINE p == Head(outlining)
           n == Len(File(p).outline)
           before == outlined.bytes
           run == CHOOSE it : it =
             [k \in 0..n |->
                IF k = 0 THEN [private |-> 0, taken |-> {}, bytes |-> 0, left |-> 0, all |-> outlined.bytes]
                ELSE Attach(p, it[k - 1], OutlineOrder(p)[k])]
           end == run[n]
<1>1. /\ UNCHANGED <<repo, reading, omitted, outlineOnly, contextPhase>>
      /\ contextPhase = "outline" /\ outlining # <<>> /\ outlining' = Tail(outlining)
  BY DEF OutlineNext
<1>2. /\ shown' = [shown EXCEPT ![p] = end.taken]
      /\ outlined' = [bytes |-> end.all, left |-> outlined.left + end.left]
  BY DEF OutlineNext
<1>3. /\ Paths' = Paths /\ Places' = Places /\ Lines' = Lines /\ SizesIn' = SizesIn
      /\ Private' = Private /\ SeedFiles' = SeedFiles /\ OutlinedFiles' = OutlinedFiles
  <2>1. Paths' = Paths /\ Places' = Places /\ Lines' = Lines /\ SizesIn' = SizesIn
        /\ Private' = Private /\ SeedFiles' = SeedFiles
    BY <1>1, OutlineFrame
  <2> QED BY <1>1, <2>1 DEF OutlinedFiles
<1>4. /\ repo \in Repositories /\ outlining \in Seq(Paths) /\ DOMAIN shown = Places
      /\ outlined.bytes \in Nat /\ outlined.left \in Nat /\ OutlineLimits /\ Outlines
  BY <1>1 DEF SearchInv, SearchTypes, OutlineInv
<1>5. /\ p \in Paths /\ Tail(outlining) \in Seq(Paths) /\ IsInjective(Tail(outlining))
      /\ p \notin Range(Tail(outlining)) /\ Range(outlining) = Range(Tail(outlining)) \cup {p}
  <2>1. IsInjective(outlining)
    BY <1>4 DEF Outlines
  <2> QED BY <1>1, <1>4, <2>1, HeadAndTail, InjectiveTail
<1>6. n = Lines[p] /\ Lines[p] \in Nat /\ SizesIn[p] \in [1..Lines[p] -> Nat] /\ p \in Places
  BY <1>4, <1>5, OutlineOf, RepositoryFacts
<1>7. before \in Nat /\ before <= OutlineBytes
  BY <1>4 DEF Outlines
<1>8. Outlining(p, n, end, before)
  <2> HIDE DEF n, p
  <2>1. run = CHOOSE it : it =
             [k \in 0..n |->
                IF k = 0 THEN [private |-> 0, taken |-> {}, bytes |-> 0, left |-> 0, all |-> before]
                ELSE Attach(p, it[k - 1], OutlineOrder(p)[k])]
    OBVIOUS
  <2> HIDE DEF run, before
  <2> QED BY <1>4, <1>5, <1>6, <1>7, <2>1, OutlineRuns
<1> HIDE DEF end, run, n, before, p
<1>9. /\ end.taken \in SUBSET (1..Lines[p]) /\ end.left \in Nat /\ end.all \in Nat
      /\ Cardinality(end.taken) + end.left = Lines[p]
      /\ end.bytes = SumOver(SizesIn[p], end.taken) /\ end.all = before + end.bytes
      /\ end.all <= OutlineBytes /\ end.bytes <= FileOutlineBytes /\ end.bytes \in Nat
      /\ Cardinality(end.taken) <= FileOutlineSymbols
      /\ Cardinality(end.taken \cap Private[p]) <= end.private /\ end.private <= FilePrivateSymbols
      /\ end.private \in Nat
  BY <1>6, <1>8 DEF Outlining
<1>10. shown'[p] = end.taken /\ DOMAIN shown' = Places /\ \A q \in Places : q # p => shown'[q] = shown[q]
  BY <1>2, <1>4, <1>6
<1>11. Paths \subseteq Places
  BY <1>4, RepositoryFacts
<1>12. IsFiniteSet(end.taken) /\ Cardinality(end.taken) \in Nat /\ IsFiniteSet(end.taken \cap Private[p])
       /\ Cardinality(end.taken \cap Private[p]) \in Nat
  <2>1. IsFiniteSet(1..Lines[p])
    BY <1>4, <1>5, OutlineOf
  <2>2. IsFiniteSet(end.taken) /\ IsFiniteSet(end.taken \cap Private[p])
    <3>1. end.taken \cap Private[p] \in SUBSET end.taken
      OBVIOUS
    <3> DEFINE T == 1..Lines[p]
    <3>2. IsFiniteSet(T) /\ end.taken \in SUBSET T
      BY <1>9, <2>1
    <3> HIDE DEF T
    <3> QED BY <3>1, <3>2, FS_Subset
  <2> QED BY <2>2, FS_CardinalityType
<1>13. OutlineLimits'
  <2>1. ASSUME NEW q \in Paths
        PROVE  /\ shown'[q] \subseteq 1..Lines[q] /\ SumOver(SizesIn[q], shown'[q]) <= FileOutlineBytes
               /\ Cardinality(shown'[q]) <= FileOutlineSymbols
               /\ Cardinality(shown'[q] \cap Private[q]) <= FilePrivateSymbols
    <3>1. CASE q # p
      <4>1. shown'[q] = shown[q]
        BY <1>10, <1>11, <3>1
      <4> QED BY <1>4, <4>1 DEF OutlineLimits, BytesShown
    <3>2. CASE q = p
      <4>1. Cardinality(end.taken \cap Private[p]) <= FilePrivateSymbols
        BY <1>9, <1>12, ContextLimits
      <4>2. SumOver(SizesIn[p], end.taken) <= FileOutlineBytes
        BY <1>9
      <4> QED BY <1>9, <1>10, <3>2, <4>1, <4>2
    <3> QED BY <3>1, <3>2
  <2> QED BY <1>3, <2>1 DEF OutlineLimits, BytesShown
<1>14. Attached' = Attached \cup {p} /\ p \notin Attached /\ Attached \subseteq Paths /\ IsFiniteSet(Attached)
  <2>1. OutlinedFiles \subseteq Paths
    <3>1. reading \in Seq(Paths) /\ omitted \in Seq(Paths) /\ IsInjective(reading) /\ IsInjective(omitted)
      BY DEF SelectInv, SelectionTypes
    <3>2. Range(reading) \subseteq Paths /\ Range(omitted) \subseteq Paths
      BY <3>1, InjectiveCounts
    <3> QED BY <3>2 DEF OutlinedFiles
  <2>2. Range(outlining) \subseteq OutlinedFiles
    BY <1>4 DEF Outlines
  <2>3. IsFiniteSet(Paths) /\ Attached \subseteq Paths
    BY <1>4, <2>1, RepositoryFacts DEF Attached
  <2>4. IsFiniteSet(Attached)
    BY <2>3, FS_Subset
  <2> QED BY <1>1, <1>3, <1>5, <2>2, <2>3, <2>4 DEF Attached
<1>15. /\ BytesShown \in [Paths -> Nat] /\ Unshown \in [Paths -> Nat]
  BY <1>4, ShownIs
<1>16. BytesShown' = [BytesShown EXCEPT ![p] = end.bytes] /\ Unshown' = [Unshown EXCEPT ![p] = end.left]
  <2>1. ASSUME NEW q \in Paths
        PROVE  /\ SumOver(SizesIn[q], shown'[q]) = IF q = p THEN end.bytes ELSE BytesShown[q]
               /\ Lines[q] - Cardinality(shown'[q]) = IF q = p THEN end.left ELSE Unshown[q]
    <3>1. CASE q # p
      <4>1. shown'[q] = shown[q]
        BY <1>10, <1>11, <3>1
      <4> QED BY <3>1, <4>1 DEF BytesShown, Unshown
    <3>2. CASE q = p
      <4>1. Lines[p] - Cardinality(end.taken) = end.left
        BY <1>6, <1>9, <1>12
      <4> QED BY <1>9, <1>10, <3>2, <4>1
    <3> QED BY <3>1, <3>2
  <2>2. BytesShown' = [q \in Paths |-> SumOver(SizesIn[q], shown'[q])]
        /\ Unshown' = [q \in Paths |-> Lines[q] - Cardinality(shown'[q])]
    BY <1>3 DEF BytesShown, Unshown
  <2> QED BY <1>5, <1>15, <2>1, <2>2
<1>17. SumOver(BytesShown', Attached') = SumOver(BytesShown, Attached) + end.bytes
       /\ SumOver(Unshown', Attached') = SumOver(Unshown, Attached) + end.left
  <2>1. ASSUME NEW w \in [Paths -> Nat], NEW v \in Nat
        PROVE  SumOver([w EXCEPT ![p] = v], Attached \cup {p}) = SumOver(w, Attached) + v
    <3> DEFINE u == [w EXCEPT ![p] = v]
    <3>1. u \in [Paths -> Nat] /\ u[p] = v /\ \A q \in Attached : u[q] = w[q]
      BY <1>5, <1>14
    <3> HIDE DEF u
    <3>2. SumOver(u, Attached \cup {p}) = SumOver(u, Attached) + u[p]
      <4>1. p \in Paths \ Attached /\ Attached \in SUBSET Paths /\ IsFiniteSet(Attached)
        BY <1>5, <1>14
      <4>2. \A x \in Paths \ Attached : SumOver(u, Attached \cup {x}) = SumOver(u, Attached) + u[x]
        BY <3>1, <4>1, SumsOver
      <4> QED BY <4>1, <4>2
    <3>3. [q \in Attached |-> u[q]] = [q \in Attached |-> w[q]]
      BY <3>1
    <3>4. SumOver(u, Attached) = SumOver(w, Attached)
      BY <3>3 DEF SumOver
    <3> QED BY <3>1, <3>2, <3>4 DEF u
  <2> QED BY <1>9, <1>14, <1>15, <1>16, <2>1
<1>18. Outlines'
  <2>1. outlined'.bytes = end.all /\ outlined'.left = outlined.left + end.left
    BY <1>2
  <2>2. outlined.bytes = SumOver(BytesShown, Attached) /\ outlined.left = SumOver(Unshown, Attached)
    BY <1>4 DEF Outlines
  <2>3. outlined'.bytes = SumOver(BytesShown', Attached') /\ outlined'.left = SumOver(Unshown', Attached')
    BY <1>9, <1>17, <2>1, <2>2 DEF before
  <2>4. \A q \in Paths \ Attached' : shown'[q] = {}
    <3> SUFFICES ASSUME NEW q \in Paths \ Attached' PROVE shown'[q] = {}
      OBVIOUS
    <3>1. q # p /\ q \notin Attached /\ q \in Places
      BY <1>11, <1>14
    <3>2. shown[q] = {}
      BY <1>4, <3>1 DEF Outlines
    <3> QED BY <1>10, <3>1, <3>2
  <2>5. Range(outlining') \subseteq OutlinedFiles
    BY <1>1, <1>4, <1>5 DEF Outlines
  <2> QED BY <1>1, <1>3, <1>5, <1>9, <2>1, <2>3, <2>4, <2>5 DEF Outlines
<1>19. outlining' \in Seq(Paths') /\ DOMAIN shown' = Places' /\ outlined' \in [bytes : Nat, left : Nat]
  BY <1>1, <1>2, <1>3, <1>4, <1>5, <1>9, <1>10
<1> QED
  BY <1>1, <1>13, <1>18, <1>19 DEF OutlineInv

\* FinishPlan keeps the seeds that have something to tell.
LEMMA FinishPlanFilters ==
  ASSUME outlineOnly \in Seq(Paths), IsInjective(outlineOnly), FinishPlan
  PROVE  /\ outlineOnly' \in Seq(Paths) /\ IsInjective(outlineOnly')
         /\ Range(outlineOnly') = {p \in Range(outlineOnly) : shown[p] # {} \/ p \in Diagnosed}
<1> DEFINE m == Len(outlineOnly)
           Tells(p) == shown[p] # {} \/ p \in Diagnosed
           G(it) == [n \in 0..m |->
                       IF n = 0 THEN <<>>
                       ELSE IF Tells(outlineOnly[n]) THEN Append(it[n - 1], outlineOnly[n]) ELSE it[n - 1]]
           keeps == CHOOSE it : it = G(it)
           S == Seq(Paths)
           F == [n \in 1..m |-> [x \in S |-> IF Tells(outlineOnly[n]) THEN Append(x, outlineOnly[n]) ELSE x]]
<1>1. outlineOnly' = keeps[m]
  BY DEF FinishPlan
<1>2. m \in Nat /\ DOMAIN outlineOnly = 1..m /\ \A n \in 1..m : outlineOnly[n] \in Paths
  BY LenProperties, ElementOfSeq
<1> HIDE DEF m, Tells
<1>3. <<>> \in S /\ F \in [1..m -> [S -> S]]
  <2>1. ASSUME NEW n \in 1..m, NEW x \in S PROVE Append(x, outlineOnly[n]) \in S
    BY <1>2, AppendProperties
  <2>2. <<>> \in S
    OBVIOUS
  <2> HIDE DEF S
  <2> QED BY <2>1, <2>2
<1> HIDE DEF S
<1>4. PICK f : Recursion(m, S, <<>>, F, f)
  <2> HIDE DEF F
  <2> QED BY <1>2, <1>3, RecursionExists
<1>5. /\ f \in [0..m -> S] /\ f[0] = <<>>
      /\ \A n \in 1..m : f[n] = IF Tells(outlineOnly[n]) THEN Append(f[n - 1], outlineOnly[n]) ELSE f[n - 1]
  <2>1. f \in [0..m -> S] /\ f[0] = <<>> /\ \A n \in 1..m : f[n] = F[n][f[n - 1]]
    BY <1>4 DEF Recursion
  <2>2. \A n \in 1..m : n - 1 \in 0..m
    BY <1>2
  <2>3. ASSUME NEW n \in 1..m
        PROVE  f[n] = IF Tells(outlineOnly[n]) THEN Append(f[n - 1], outlineOnly[n]) ELSE f[n - 1]
    <3>1. f[n - 1] \in S
      BY <2>1, <2>2
    <3> QED BY <2>1, <3>1
  <2> QED BY <2>1, <2>3
<1>6. f = G(f)
  <2>1. ASSUME NEW n \in 0..m
        PROVE  f[n] = IF n = 0 THEN <<>>
                      ELSE IF Tells(outlineOnly[n]) THEN Append(f[n - 1], outlineOnly[n]) ELSE f[n - 1]
    <3>1. CASE n = 0
      BY <1>5, <3>1
    <3>2. CASE n # 0
      <4>1. n \in 1..m
        BY <1>2, <3>2
      <4> QED BY <1>5, <3>2, <4>1
    <3> QED BY <3>1, <3>2
  <2> QED BY <1>5, <2>1
<1>7. keeps = G(keeps)
  <2> HIDE DEF G
  <2> QED BY <1>6
<1> HIDE DEF keeps
<1> DEFINE wanted(n) == {outlineOnly[i] : i \in {j \in 1..n : Tells(outlineOnly[j])}}
           Good == {n \in 0..m : /\ keeps[n] \in S /\ IsInjective(keeps[n]) /\ Range(keeps[n]) = wanted(n)}
<1>8. 0 \in Good
  <2>1. 0 \in 0..m /\ 1..0 = {}
    BY <1>2
  <2>2. keeps[0] = <<>>
    BY <1>7, <2>1
  <2>3. IsInjective(<<>>) /\ Range(<<>>) = {}
    BY EmptySeq DEF IsInjective, Range
  <2>4. wanted(0) = {}
    BY <2>1
  <2> QED BY <1>3, <2>1, <2>2, <2>3, <2>4
<1>9. ASSUME NEW n \in 1..m, n - 1 \in Good PROVE n \in Good
  <2>1. n \in 0..m /\ n # 0 /\ \A j \in 1..n : j = n \/ j \in 1..n - 1
    BY <1>2
  <2>2. keeps[n] = IF Tells(outlineOnly[n]) THEN Append(keeps[n - 1], outlineOnly[n]) ELSE keeps[n - 1]
    BY <1>7, <2>1
  <2>3. keeps[n - 1] \in S /\ IsInjective(keeps[n - 1]) /\ Range(keeps[n - 1]) = wanted(n - 1)
    BY <1>9
  <2>4. outlineOnly[n] \notin wanted(n - 1)
    <3>1. \A j \in 1..n - 1 : j \in 1..m /\ j # n
      BY <1>2
    <3> QED BY <1>2, <3>1 DEF IsInjective
  <2>5. \A j \in 1..n - 1 : j \in 1..n
    BY <1>2
  <2>6. CASE Tells(outlineOnly[n])
    <3>1. wanted(n) = wanted(n - 1) \cup {outlineOnly[n]}
      <4>1. n \in 1..n
        BY <1>2
      <4> QED BY <2>1, <2>5, <2>6, <4>1
    <3>2. keeps[n] = Append(keeps[n - 1], outlineOnly[n])
      BY <2>2, <2>6
    <3> HIDE DEF wanted
    <3>3. keeps[n] \in S /\ IsInjective(keeps[n]) /\ Range(keeps[n]) = wanted(n)
      BY <1>2, <2>3, <2>4, <3>1, <3>2, AppendedRange, InjectiveAppends DEF S
    <3> QED BY <2>1, <3>3
  <2>7. CASE ~Tells(outlineOnly[n])
    <3>1. wanted(n) = wanted(n - 1)
      BY <2>1, <2>5, <2>7
    <3>2. keeps[n] = keeps[n - 1]
      BY <2>2, <2>7
    <3> HIDE DEF wanted
    <3> QED BY <2>1, <2>3, <3>1, <3>2
  <2> QED BY <2>6, <2>7
<1>10. m \in Good
  <2> HIDE DEF Good
  <2>1. Good \in SUBSET (0..m)
    BY DEF Good
  <2>2. \A n \in 0..m : n \in Good
    BY <1>2, <1>8, <1>9, <2>1, NumbersInTurn
  <2>3. m \in 0..m
    BY <1>2
  <2> QED BY <2>2, <2>3
<1>11. wanted(m) = {p \in Range(outlineOnly) : Tells(p)}
  BY <1>2 DEF Range
<1> QED
  BY <1>1, <1>10, <1>11 DEF S, Tells

LEMMA FinishPlanKeeps ==
  ASSUME SearchInv, SelectInv, OutlineInv, FinishPlan PROVE SelectInv' /\ OutlineInv'
<1>1. /\ UNCHANGED <<repo, hops, ranked, reading, omitted, listed, outlining, shown, outlined>>
      /\ contextPhase = "outline" /\ outlining = <<>> /\ contextPhase' = "done"
  BY DEF FinishPlan
<1>2. /\ Paths' = Paths /\ Places' = Places /\ Lines' = Lines /\ SizesIn' = SizesIn /\ Costs' = Costs
      /\ Private' = Private /\ SeedFiles' = SeedFiles /\ Diagnosed' = Diagnosed
      /\ Candidates' = Candidates /\ RankedAhead' = RankedAhead
  BY <1>1, OutlineFrame, SelectionFrame
<1>3. SelectionTypes /\ Selection /\ Range(outlineOnly) = Range(omitted) \cap SeedFiles /\ ranked = <<>>
  BY <1>1 DEF SelectInv
<1>4. /\ outlineOnly' \in Seq(Paths) /\ IsInjective(outlineOnly')
      /\ Range(outlineOnly') = {p \in Range(outlineOnly) : shown[p] # {} \/ p \in Diagnosed}
  BY <1>3, FinishPlanFilters DEF SelectionTypes
<1>5. SelectionTypes'
  BY <1>1, <1>2, <1>3, <1>4 DEF SelectionTypes
<1>6. NoRoom' = NoRoom
  BY <1>1, <1>2 DEF NoRoom, NoRoomFor
<1>7. Selection'
  BY <1>1, <1>2, <1>3, <1>6 DEF Selection
<1>8. SelectInv'
  BY <1>1, <1>2, <1>3, <1>4, <1>5, <1>7 DEF SelectInv
<1>9. BytesShown' = BytesShown /\ Unshown' = Unshown /\ Attached' = Attached /\ OutlinedFiles' = OutlinedFiles
  BY <1>1, <1>2 DEF BytesShown, Unshown, Attached, OutlinedFiles
<1>10. OutlineLimits' /\ Outlines'
  <2>1. OutlineLimits /\ Outlines
    BY <1>1 DEF OutlineInv
  <2> QED BY <1>1, <1>2, <1>9, <2>1 DEF OutlineLimits, Outlines
<1>11. OutlineInv'
  BY <1>1, <1>2, <1>3, <1>4, <1>10 DEF OutlineInv
<1> QED
  BY <1>8, <1>11

(***************************************************************************)
(* The invariant of the plan: the search, the selection and the outlines.  *)
(***************************************************************************)
ContextInv ==
  /\ contextPhase \in {"seeds", "reach", "select", "outline", "done"}
  /\ SearchInv /\ SelectInv /\ OutlineInv

LEMMA ContextStarts == ContextInit => ContextInv
<1> SUFFICES ASSUME ContextInit PROVE ContextInv
  OBVIOUS
<1>1. /\ repo \in Repositories /\ frontier = <<>> /\ hops = [p \in Places |-> Far]
      /\ origin = [p \in Places |-> p]
      /\ ranked = <<>> /\ reading = <<>> /\ outlineOnly = <<>> /\ listed = <<>> /\ omitted = <<>>
      /\ outlining = <<>> /\ shown = [p \in Places |-> {}]
      /\ outlined = [bytes |-> 0, left |-> 0] /\ contextPhase = "seeds"
  BY DEF ContextInit, ContextStart, Places
<1>2. Far \in Nat /\ Paths \subseteq Places
  BY <1>1, RepositoryFacts
<1>3. SearchInv
  BY <1>1, <1>2 DEF SearchInv, SearchTypes
<1>4. Range(<<>>) = {} /\ IsInjective(<<>>) /\ Len(<<>>) = 0 /\ <<>> \in Seq(Paths)
  BY EmptySeq DEF Range, IsInjective
<1>5. IsFiniteSet({}) /\ {} \in SUBSET Paths /\ Cardinality({}) = 0
  BY FS_EmptySet
<1>6. SumOver(Costs, {}) = 0
  BY <1>1, <1>5, CostsAre, SumsOver
<1>7. SelectInv
  <2>1. /\ Range(reading) = {} /\ Range(omitted) = {} /\ Range(outlineOnly) = {}
        /\ Len(reading) = 0 /\ Len(omitted) = 0 /\ Len(listed) = 0
    BY <1>1, <1>4
  <2>2. SumOver(Costs, Range(reading)) = 0
    BY <1>6, <2>1
  <2>3. SelectionTypes
    BY <1>1, <1>4, <2>1, <2>2, ContextLimits DEF SelectionTypes
  <2> QED BY <1>1, <2>1, <2>3 DEF SelectInv
<1>8. OutlineLimits
  <2>1. ASSUME NEW p \in Paths
        PROVE  /\ shown[p] \subseteq 1..Lines[p] /\ BytesShown[p] <= FileOutlineBytes
               /\ Cardinality(shown[p]) <= FileOutlineSymbols
               /\ Cardinality(shown[p] \cap Private[p]) <= FilePrivateSymbols
    <3>1. shown[p] = {} /\ {} \cap Private[p] = {}
      BY <1>1, <1>2
    <3>2. SumOver(SizesIn[p], {}) = 0
      <4> DEFINE T == 1..Lines[p]
      <4>1. SizesIn[p] \in [T -> Nat] /\ {} \in SUBSET T
        BY <1>1, OutlineOf
      <4> HIDE DEF T
      <4> QED BY <1>5, <4>1, SumsOver
    <3>3. BytesShown[p] = 0
      BY <3>1, <3>2 DEF BytesShown
    <3> QED BY <1>5, <3>1, <3>3, ContextLimits
  <2> QED BY <2>1 DEF OutlineLimits
<1>9. OutlineInv
  BY <1>1, <1>2, <1>4, <1>8 DEF OutlineInv
<1> QED
  BY <1>1, <1>3, <1>7, <1>9 DEF ContextInv

LEMMA ContextKeeps ==
  ASSUME ContextInv, [ContextNext]_contextVars PROVE ContextInv'
<1>0. contextPhase \in {"seeds", "reach", "select", "outline", "done"} /\ SearchInv /\ SelectInv /\ OutlineInv
  BY DEF ContextInv
<1>1. CASE StartReach
  <2>1. /\ contextPhase = "seeds" /\ contextPhase' = "reach"
        /\ UNCHANGED <<repo, ranked, reading, outlineOnly, listed, omitted, outlining, shown, outlined>>
    BY <1>1 DEF StartReach
  <2>2. SearchInv'
    BY <1>0, <1>1, SearchStarts
  <2> QED BY <1>0, <2>1, <2>2, SelectionStays, OutlinesStay DEF ContextInv
<1>2. CASE Reach
  <2>1. /\ contextPhase = "reach" /\ contextPhase' = "reach"
        /\ UNCHANGED <<repo, ranked, reading, outlineOnly, listed, omitted, outlining, shown, outlined>>
    BY <1>2 DEF Reach
  <2>2. SearchInv'
    BY <1>0, <1>2, ReachKeeps
  <2> QED BY <1>0, <2>1, <2>2, SelectionStays, OutlinesStay DEF ContextInv
<1>3. CASE Rank
  <2>1. /\ contextPhase = "reach" /\ frontier = <<>> /\ contextPhase' = "select"
        /\ UNCHANGED <<repo, hops, origin, frontier, outlining, shown, outlined>>
    BY <1>3 DEF Rank
  <2>2. SelectInv'
    BY <1>0, <1>3, RankKeeps
  <2> QED BY <1>0, <2>1, <2>2, SearchRemains, OutlinesStay DEF ContextInv
<1>4. CASE SelectNext
  <2>1. /\ contextPhase = "select" /\ contextPhase' = "select"
        /\ UNCHANGED <<repo, hops, origin, frontier, outlining, shown, outlined>>
    BY <1>4 DEF SelectNext
  <2>2. SelectInv'
    BY <1>0, <1>4, SelectNextKeeps
  <2> QED BY <1>0, <2>1, <2>2, SearchRemains, OutlinesStay DEF ContextInv
<1>5. CASE StartOutlines
  <2>1. /\ contextPhase = "select" /\ contextPhase' = "outline" /\ ranked = <<>>
        /\ UNCHANGED <<repo, hops, origin, frontier, ranked, reading, omitted, listed, outlineOnly>>
    BY <1>5 DEF StartOutlines
  <2>2. OutlineInv'
    BY <1>0, <1>5, StartOutlinesKeeps
  <2> QED BY <1>0, <2>1, <2>2, SearchRemains, SelectionStays DEF ContextInv
<1>6. CASE OutlineNext
  <2>1. /\ contextPhase = "outline" /\ contextPhase' = "outline"
        /\ UNCHANGED <<repo, hops, origin, frontier, ranked, reading, omitted, listed, outlineOnly>>
    BY <1>6 DEF OutlineNext
  <2>2. OutlineInv'
    BY <1>0, <1>6, OutlineNextKeeps
  <2> QED BY <1>0, <2>1, <2>2, SearchRemains, SelectionStays DEF ContextInv
<1>7. CASE FinishPlan
  <2>1. /\ contextPhase = "outline" /\ contextPhase' = "done"
        /\ UNCHANGED <<repo, hops, origin, frontier>>
    BY <1>7 DEF FinishPlan
  <2> QED BY <1>0, <1>7, <2>1, SearchRemains, FinishPlanKeeps DEF ContextInv
<1>8. CASE UNCHANGED contextVars
  <2>1. UNCHANGED <<repo, frontier, hops, origin, ranked, reading, outlineOnly, listed, omitted,
                    outlining, shown, outlined, contextPhase>>
    BY <1>8 DEF contextVars
  <2>2. SearchInv' /\ SelectInv'
    BY <1>0, <2>1, SearchRemains, SelectionStays
  <2>3. /\ Paths' = Paths /\ Places' = Places /\ Lines' = Lines /\ SizesIn' = SizesIn
        /\ Private' = Private /\ SeedFiles' = SeedFiles /\ Diagnosed' = Diagnosed
    BY <2>1, OutlineFrame
  <2>4. BytesShown' = BytesShown /\ Unshown' = Unshown /\ Attached' = Attached /\ OutlinedFiles' = OutlinedFiles
    BY <2>1, <2>3 DEF BytesShown, Unshown, Attached, OutlinedFiles
  <2>5. OutlineLimits' = OutlineLimits /\ Outlines' = Outlines
    BY <2>1, <2>3, <2>4 DEF OutlineLimits, Outlines
  <2>6. OutlineInv'
    BY <1>0, <2>1, <2>3, <2>5 DEF OutlineInv
  <2> QED BY <1>0, <2>1, <2>2, <2>6 DEF ContextInv
<1> QED
  BY <1>1, <1>2, <1>3, <1>4, <1>5, <1>6, <1>7, <1>8 DEF ContextNext

(***************************************************************************)
(* The invariant of the plan holds in every state of context.rs's build.   *)
(***************************************************************************)
THEOREM ContextInductive == ContextSpec => []ContextInv
<1>1. ContextInit => ContextInv
  BY ContextStarts
<1>2. ContextInv /\ [ContextNext]_contextVars => ContextInv'
  BY ContextKeeps
<1> QED
  BY <1>1, <1>2, PTL DEF ContextSpec

LEMMA PlanIsAccounted ==
  ASSUME ContextInv PROVE ContextSound
<1>1. /\ contextPhase \in {"seeds", "reach", "select", "outline", "done"}
      /\ SearchInv /\ SelectInv /\ OutlineInv /\ repo \in Repositories /\ SearchTypes
  BY DEF ContextInv, SearchInv, SearchTypes
<1>2. SelectionTypes
  BY <1>1 DEF SelectInv
<1>3. /\ reading \in Seq(Paths) /\ omitted \in Seq(Paths) /\ IsInjective(reading) /\ IsInjective(omitted)
      /\ Len(reading) <= ContextFiles /\ SumOver(Costs, Range(reading)) <= ContextBudget
      /\ Len(listed) = (IF Len(omitted) <= OmissionDetails THEN Len(omitted) ELSE OmissionDetails)
      /\ Len(omitted) \in Nat /\ OmissionDetails \in Nat
  BY <1>2, LenProperties, ContextLimits DEF SelectionTypes
<1>4. Range(reading) \subseteq Paths /\ Range(omitted) \subseteq Paths
  BY <1>3, InjectiveCounts
<1>5. NearestSeed
  <2>1. contextPhase \notin {"seeds", "reach"} => NearestSeed
    BY <1>1, SearchEnds
  <2>2. contextPhase \in {"seeds", "reach"} => NearestSeed
    BY DEF NearestSeed
  <2> QED BY <2>1, <2>2
<1>6. \A ps \in SUBSET Paths : Tokens(ps) = SumOver(Costs, ps)
  <2> SUFFICES ASSUME NEW ps \in SUBSET Paths PROVE Tokens(ps) = SumOver(Costs, ps)
    OBVIOUS
  <2>1. [x \in ps |-> File(x).tokens] = [x \in ps |-> Costs[x]]
    BY DEF Costs
  <2> QED BY <2>1 DEF Tokens, SumOver
<1>7. LeftOutForRoom
  <2>1. CASE contextPhase \in {"seeds", "reach"}
    <3>1. omitted = <<>>
      BY <1>1, <2>1 DEF SelectInv
    <3>2. Range(omitted) = {}
      BY <3>1, EmptySeq DEF Range
    <3> QED BY <1>3, <1>4, <1>6, <3>2 DEF LeftOutForRoom
  <2>2. CASE contextPhase \notin {"seeds", "reach"}
    <3>1. Selection
      BY <1>1, <2>2 DEF SelectInv
    <3>2. Range(omitted) \subseteq NoRoom /\ Range(reading) \subseteq Candidates
          /\ Range(omitted) \subseteq Candidates
      BY <3>1 DEF Selection
    <3>3. ASSUME NEW p \in Range(omitted)
          PROVE  LET ahead == {q \in Range(reading) : Before(q, p)}
                 IN Cardinality(ahead) >= ContextFiles \/ Tokens(ahead) + File(p).tokens > ContextBudget
      <4> DEFINE ahead == {q \in Range(reading) : Before(q, p)}
      <4>1. ahead = {q \in Range(reading) : <<q, p>> \in RankedAhead}
        BY <3>2 DEF RankedAhead
      <4>2. NoRoomFor(p) /\ p \in Paths
        BY <1>4, <3>2 DEF NoRoom
      <4>3. Cardinality(ahead) >= ContextFiles \/ SumOver(Costs, ahead) + Costs[p] > ContextBudget
        BY <4>1, <4>2 DEF NoRoomFor
      <4>4. Costs[p] = File(p).tokens /\ ahead \in SUBSET Paths
        BY <1>4, <4>2 DEF Costs
      <4> HIDE DEF ahead
      <4>5. Tokens(ahead) = SumOver(Costs, ahead)
        BY <1>6, <4>4
      <4> QED BY <4>3, <4>4, <4>5 DEF ahead
    <3> QED BY <1>3, <1>4, <1>6, <3>3 DEF LeftOutForRoom
  <2> QED BY <2>1, <2>2
<1>8. CandidatesAccounted
  <2> SUFFICES ASSUME contextPhase = "done" PROVE CandidatesAccounted
    BY DEF CandidatesAccounted
  <2>1. Selection /\ ranked = <<>> /\ Range(outlineOnly) \subseteq Range(omitted) \cap SeedFiles
    BY <1>1 DEF SelectInv
  <2>2. Range(ranked) = {}
    BY <2>1, EmptySeq DEF Range
  <2>3. Range(reading) \cup Range(omitted) = Candidates /\ Range(reading) \cap Range(omitted) = {}
    BY <2>1, <2>2 DEF Selection
  <2>4. IsInjective(reading \o omitted) /\ Range(reading \o omitted) = Candidates
    <3>1. IsInjective(reading \o omitted)
      BY <1>3, <2>3, InjectiveJoins
    <3>2. Range(reading \o omitted) = Range(reading) \cup Range(omitted)
      BY <1>3, JoinedRange
    <3> QED BY <2>3, <3>1, <3>2
  <2>5. SeedFiles \cap Paths \subseteq Candidates
    BY DEF Candidates, Skipped, SeedFiles, Focused, Changed
  <2>6. Len(listed) = Min({Len(omitted), OmissionDetails})
    <3>1. CASE Len(omitted) <= OmissionDetails
      <4>1. Min({Len(omitted), OmissionDetails}) = Len(omitted)
        BY <1>3, <3>1, LeastIs
      <4> QED BY <1>3, <3>1, <4>1
    <3>2. CASE ~(Len(omitted) <= OmissionDetails)
      <4>1. Min({Len(omitted), OmissionDetails}) = OmissionDetails
        BY <1>3, <3>2, LeastIs
      <4> QED BY <1>3, <3>2, <4>1
    <3> QED BY <3>1, <3>2
  <2>7. Range(outlineOnly) = {p \in Range(omitted) \cap SeedFiles : shown[p] # {} \/ p \in Diagnosed}
    BY <1>1 DEF OutlineInv
  <2> QED BY <2>1, <2>4, <2>5, <2>6, <2>7 DEF CandidatesAccounted
<1>9. OutlinesAccounted
  <2> SUFFICES ASSUME contextPhase = "done" PROVE OutlinesAccounted
    BY DEF OutlinesAccounted
  <2>1. Outlines /\ OutlineLimits /\ outlining = <<>>
    BY <1>1 DEF OutlineInv
  <2>2. Attached = OutlinedFiles
    <3>1. Range(outlining) = {}
      BY <2>1, EmptySeq DEF Range
    <3> QED BY <3>1 DEF Attached
  <2>3. \A p \in Paths : /\ Lines[p] = Len(File(p).outline) /\ shown[p] \subseteq 1..Lines[p]
                         /\ Private[p] = {i \in 1..Lines[p] : ~File(p).outline[i].exported}
                         /\ \A i \in shown[p] : SizesIn[p][i] = File(p).outline[i].bytes
    BY <2>1 DEF OutlineLimits, Lines, Private, SizesIn
  <2>4. \A p \in Paths : SumFunction([i \in shown[p] |-> File(p).outline[i].bytes]) = BytesShown[p]
    <3> SUFFICES ASSUME NEW p \in Paths
                 PROVE  SumFunction([i \in shown[p] |-> File(p).outline[i].bytes]) = BytesShown[p]
      OBVIOUS
    <3>1. [i \in shown[p] |-> File(p).outline[i].bytes] = [i \in shown[p] |-> SizesIn[p][i]]
      BY <2>3
    <3> QED BY <3>1 DEF BytesShown, SumOver
  <2>5. OutlinedFiles \subseteq Paths
    BY <1>4 DEF OutlinedFiles
  <2>6. outlined.bytes = SumFunction([p \in OutlinedFiles |->
                           SumFunction([i \in shown[p] |-> File(p).outline[i].bytes])])
        /\ outlined.bytes <= OutlineBytes
    <3>1. [p \in OutlinedFiles |-> SumFunction([i \in shown[p] |-> File(p).outline[i].bytes])]
            = [p \in OutlinedFiles |-> BytesShown[p]]
      BY <2>4, <2>5
    <3> QED BY <2>1, <2>2, <3>1 DEF Outlines, SumOver
  <2>7. outlined.left = SumFunction([p \in OutlinedFiles |->
                          Len(File(p).outline) - Cardinality(shown[p])])
    <3>1. [p \in OutlinedFiles |-> Len(File(p).outline) - Cardinality(shown[p])]
            = [p \in OutlinedFiles |-> Unshown[p]]
      BY <2>3, <2>5 DEF Unshown
    <3> QED BY <2>1, <2>2, <3>1 DEF Outlines, SumOver
  <2>8. ASSUME NEW p \in Paths
        PROVE  /\ p \notin OutlinedFiles => shown[p] = {}
               /\ SumFunction([i \in shown[p] |-> File(p).outline[i].bytes]) <= FileOutlineBytes
               /\ Cardinality(shown[p]) <= FileOutlineSymbols
               /\ Cardinality({i \in shown[p] : ~File(p).outline[i].exported}) <= FilePrivateSymbols
    <3>1. {i \in shown[p] : ~File(p).outline[i].exported} = shown[p] \cap Private[p]
      BY <2>3
    <3>2. p \notin OutlinedFiles => shown[p] = {}
      BY <2>1, <2>2 DEF Outlines
    <3> QED BY <2>1, <2>4, <3>1, <3>2 DEF OutlineLimits
  <2> QED BY <2>6, <2>7, <2>8 DEF OutlinesAccounted, OutlinedFiles
<1> QED
  BY <1>5, <1>7, <1>8, <1>9 DEF ContextSound

(***************************************************************************)
(* The plan is sound in every state, for every repository and all limits:  *)
(* the distances of the search, the limits of the reading list and what is *)
(* left out for them, the candidates and the outlines.                     *)
(***************************************************************************)
THEOREM ContextIsSound == ContextSpec => []ContextSound
<1>1. ContextInv => ContextSound
  BY PlanIsAccounted
<1> QED
  BY <1>1, ContextInductive, PTL

-------------------------------------------------------------------------------
(***************************************************************************)
(* The components of the graph.                                            *)
(***************************************************************************)
Links == {pq \in Paths \X Paths : pq \in repo.imports \/ <<pq[2], pq[1]>> \in repo.imports}

\* The links connect all of c, and nothing of it with what is outside.
Joined(links, c) == \A s \in SUBSET c : s # {} /\ s # c => \E p \in s, q \in c \ s : <<p, q>> \in links
Alone(links, c) == \A pq \in links : pq[1] \in c => pq[2] \in c

Whole == component \cup Range(queue)

ComponentTypes ==
  /\ visited \in SUBSET Paths /\ queue \in Seq(Paths) /\ component \in SUBSET Paths
  /\ weak \in Seq(SUBSET Paths) /\ IsInjective(queue)

ComponentInv ==
  /\ ComponentTypes
  /\ visited = (UNION Range(weak)) \cup Whole
  /\ component \cap Range(queue) = {} /\ (UNION Range(weak)) \cap Whole = {}
  /\ \A i, j \in DOMAIN weak : i # j => weak[i] \cap weak[j] = {}
  /\ \A c \in Range(weak) : c # {} /\ Joined(Links, c) /\ Alone(Links, c)
  /\ Joined(Links, Whole)
  /\ \A pq \in Links : pq[1] \in component => pq[2] \in Whole
  /\ scopePhase \in {"entries", "done"} => UNION Range(weak) = Paths

LEMMA LinksAre ==
  /\ Links \in SUBSET (Paths \X Paths)
  /\ \A p, q : <<p, q>> \in Links => p \in Paths /\ q \in Paths /\ <<q, p>> \in Links
  /\ \A p \in Paths : Neighbors(p) \subseteq Paths /\ \A q : q \in Neighbors(p) <=> <<p, q>> \in Links
<1>1. Links \in SUBSET (Paths \X Paths)
  BY DEF Links
<1>2. \A p, q : <<p, q>> \in Links <=>
         p \in Paths /\ q \in Paths /\ (<<p, q>> \in repo.imports \/ <<q, p>> \in repo.imports)
  BY DEF Links
<1> QED
  BY <1>1, <1>2 DEF Neighbors

LEMMA VisitNeighborsKeeps ==
  ASSUME repo \in Repositories, repo' = repo, ComponentInv, VisitNeighbors PROVE ComponentInv'
<1> DEFINE p == Head(queue)
           found == Neighbors(p) \ visited
           done == UNION Range(weak)
<1>1. /\ scopePhase = "structure" /\ queue # <<>> /\ component' = component \cup {p}
      /\ visited' = visited \cup found /\ queue' = Tail(queue) \o Ascending(found)
      /\ UNCHANGED <<weak, scopePhase>>
  BY DEF VisitNeighbors
<1>2. Paths' = Paths /\ Links' = Links
  BY DEF Paths, Links
<1>3. /\ visited \in SUBSET Paths /\ queue \in Seq(Paths) /\ component \in SUBSET Paths
      /\ weak \in Seq(SUBSET Paths) /\ IsInjective(queue)
      /\ visited = done \cup Whole /\ component \cap Range(queue) = {} /\ done \cap Whole = {}
      /\ Joined(Links, Whole) /\ \A pq \in Links : pq[1] \in component => pq[2] \in Whole
      /\ \A c \in Range(weak) : c # {} /\ Joined(Links, c) /\ Alone(Links, c)
  BY DEF ComponentInv, ComponentTypes
<1>4. p \in Paths /\ Tail(queue) \in Seq(Paths) /\ IsInjective(Tail(queue)) /\ p \notin Range(Tail(queue))
      /\ Range(queue) = Range(Tail(queue)) \cup {p}
  BY <1>1, <1>3, HeadAndTail, InjectiveTail
<1>5. found \subseteq Paths /\ found \cap visited = {} /\ IsFiniteSet(found) /\ found \in SUBSET Nat
      /\ \A q \in found : <<p, q>> \in Links /\ <<q, p>> \in Links
  <2>1. found \subseteq Paths /\ found \cap visited = {} /\ \A q \in found : <<p, q>> \in Links /\ <<q, p>> \in Links
    BY <1>4, LinksAre
  <2>2. IsFiniteSet(Paths) /\ Paths \subseteq Nat
    BY RepositoryFacts
  <2> HIDE DEF found
  <2> QED BY <2>1, <2>2, FS_Subset
<1> HIDE DEF p, found, done
<1>6. Ascending(found) \in Seq(Paths) /\ Range(Ascending(found)) = found /\ IsInjective(Ascending(found))
  <2>1. Ascending(found) \in Seq(found) /\ Range(Ascending(found)) = found
        /\ \A i, j \in DOMAIN Ascending(found) : Ascending(found)[i] = Ascending(found)[j] => i = j
    BY <1>5, AscendingIs
  <2>2. Ascending(found) \in Seq(Paths)
    BY <1>5, <2>1, SeqMonotonic
  <2> QED BY <2>1, <2>2 DEF IsInjective
<1>7. queue' \in Seq(Paths) /\ Range(queue') = Range(Tail(queue)) \cup found /\ IsInjective(queue')
  <2>1. Range(Tail(queue)) \cap found = {}
    BY <1>3, <1>4, <1>5 DEF Whole
  <2>2. IsInjective(queue')
    BY <1>1, <1>4, <1>6, <2>1, InjectiveJoins
  <2>3. queue' \in Seq(Paths) /\ Range(queue') = Range(Tail(queue)) \cup Range(Ascending(found))
    BY <1>1, <1>4, <1>6, JoinedRange
  <2> QED BY <1>6, <2>2, <2>3
<1>8. Whole' = Whole \cup found
  BY <1>1, <1>4, <1>7 DEF Whole
<1>9. p \in Whole /\ Whole \cap found = {} /\ done \cap found = {}
  BY <1>3, <1>4, <1>5 DEF Whole
<1>10. \A q : <<p, q>> \in Links => q \in Whole \cup found
  <2> SUFFICES ASSUME NEW q, <<p, q>> \in Links, q \notin Whole \cup found PROVE FALSE
    OBVIOUS
  <2>1. q \in Neighbors(p) /\ <<q, p>> \in Links
    BY <1>4, LinksAre
  <2>2. q \in visited
    BY <2>1 DEF found
  <2>3. q \in done
    BY <1>3, <2>2
  <2>4. PICK c \in Range(weak) : q \in c
    BY <2>3 DEF done
  <2>5. p \in c
    BY <1>3, <2>1, <2>4 DEF Alone
  <2>6. p \in done
    BY <2>4, <2>5 DEF done
  <2> QED BY <1>3, <1>9, <2>6
<1>11. \A pq \in Links : pq[1] \in component' => pq[2] \in Whole'
  <2> SUFFICES ASSUME NEW pq \in Links, pq[1] \in component' PROVE pq[2] \in Whole'
    OBVIOUS
  <2>1. pq = <<pq[1], pq[2]>>
    BY LinksAre
  <2>2. CASE pq[1] = p
    BY <1>8, <1>10, <2>1, <2>2
  <2>3. CASE pq[1] # p
    BY <1>1, <1>3, <1>8, <2>3
  <2> QED BY <2>2, <2>3
<1>12. Joined(Links, Whole \cup found)
  <2> SUFFICES ASSUME NEW s \in SUBSET (Whole \cup found), s # {}, s # Whole \cup found
               PROVE  \E a \in s, b \in (Whole \cup found) \ s : <<a, b>> \in Links
    BY DEF Joined
  <2>1. CASE s \cap Whole # {} /\ s \cap Whole # Whole
    <3>1. PICK a \in s \cap Whole, b \in Whole \ (s \cap Whole) : <<a, b>> \in Links
      <4>1. s \cap Whole \in SUBSET Whole
        OBVIOUS
      <4> QED BY <1>3, <2>1, <4>1 DEF Joined
    <3> QED BY <3>1
  <2>2. CASE s \cap Whole = Whole
    <3>1. PICK b \in found : b \notin s
      BY <2>2
    <3> QED BY <1>5, <1>9, <2>2, <3>1
  <2>3. CASE s \cap Whole = {}
    <3>1. PICK a \in found : a \in s
      BY <2>3
    <3>2. p \notin s
      BY <1>9, <2>3
    <3> QED BY <1>5, <1>9, <3>1, <3>2
  <2> QED BY <2>1, <2>2, <2>3
<1>13. ComponentTypes'
  BY <1>1, <1>2, <1>3, <1>4, <1>5, <1>7 DEF ComponentTypes
<1>14. component' \cap Range(queue') = {}
  BY <1>1, <1>3, <1>4, <1>7, <1>9 DEF Whole
<1>15. visited' = done \cup Whole' /\ done \cap Whole' = {}
  BY <1>1, <1>3, <1>8, <1>9
<1> QED
  BY <1>1, <1>2, <1>8, <1>11, <1>12, <1>13, <1>14, <1>15 DEF ComponentInv, done

LEMMA NextComponentKeeps ==
  ASSUME repo \in Repositories, repo' = repo, ComponentInv, NextComponent PROVE ComponentInv'
<1>1. scopePhase = "structure" /\ queue = <<>>
      /\ weak' = IF component = {} THEN weak ELSE Append(weak, component)
  BY DEF NextComponent
<1>2. Paths' = Paths /\ Links' = Links
  BY DEF Paths, Links
<1>3. /\ visited \in SUBSET Paths /\ queue \in Seq(Paths) /\ component \in SUBSET Paths
      /\ weak \in Seq(SUBSET Paths) /\ IsInjective(queue)
      /\ visited = (UNION Range(weak)) \cup Whole /\ (UNION Range(weak)) \cap Whole = {}
      /\ Joined(Links, Whole) /\ \A pq \in Links : pq[1] \in component => pq[2] \in Whole
      /\ \A c \in Range(weak) : c # {} /\ Joined(Links, c) /\ Alone(Links, c)
      /\ \A i, j \in DOMAIN weak : i # j => weak[i] \cap weak[j] = {}
  BY DEF ComponentInv, ComponentTypes
<1>4. Range(queue) = {} /\ Whole = component
  BY <1>1, EmptySeq DEF Range, Whole
<1>5. Alone(Links, component)
  BY <1>3, <1>4 DEF Alone
<1>6. /\ weak' \in Seq(SUBSET Paths) /\ UNION Range(weak') = visited
      /\ \A c \in Range(weak') : c # {} /\ Joined(Links, c) /\ Alone(Links, c)
      /\ \A i, j \in DOMAIN weak' : i # j => weak'[i] \cap weak'[j] = {}
  <2>1. CASE component = {}
    BY <1>1, <1>3, <1>4, <2>1
  <2>2. CASE component # {}
    <3>1. weak' = Append(weak, component)
      BY <1>1, <2>2
    <3>2. /\ weak' \in Seq(SUBSET Paths) /\ Range(weak') = Range(weak) \cup {component}
          /\ \A i \in DOMAIN weak' : (i \in DOMAIN weak /\ weak'[i] = weak[i])
                                     \/ (i = Len(weak) + 1 /\ weak'[i] = component)
      BY <1>3, <3>1, AppendedRange
    <3>3. \A i \in DOMAIN weak : weak[i] \cap component = {}
      BY <1>3, <1>4 DEF Range
    <3>4. \A i, j \in DOMAIN weak' : i # j => weak'[i] \cap weak'[j] = {}
      BY <1>3, <3>2, <3>3
    <3>5. UNION Range(weak') = visited
      BY <1>3, <1>4, <3>2
    <3> QED BY <1>3, <1>4, <1>5, <2>2, <3>2, <3>4, <3>5
  <2> QED BY <2>1, <2>2
<1>7. CASE Paths \subseteq visited
  <2>1. scopePhase' = "entries" /\ component' = {} /\ UNCHANGED <<visited, queue>>
    BY <1>7 DEF NextComponent
  <2>2. Whole' = {}
    BY <1>4, <2>1 DEF Whole
  <2>3. Joined(Links, {})
    BY DEF Joined
  <2>4. ComponentTypes'
    BY <1>2, <1>3, <1>6, <2>1 DEF ComponentTypes
  <2>5. visited' = UNION Range(weak') /\ UNION Range(weak') = Paths
    BY <1>3, <1>6, <1>7, <2>1
  <2> QED BY <1>2, <1>6, <2>1, <2>2, <2>3, <2>4, <2>5 DEF ComponentInv
<1>8. CASE ~(Paths \subseteq visited)
  <2> DEFINE start == Min(Paths \ visited)
  <2>1. /\ visited' = visited \cup {start} /\ queue' = <<start>> /\ component' = {}
        /\ scopePhase' = "structure"
    BY <1>1, <1>8 DEF NextComponent
  <2>2. start \in Paths \ visited
    <3>1. Paths \ visited \in SUBSET Nat /\ Paths \ visited # {}
      BY <1>8, RepositoryFacts
    <3>2. PICK n \in Paths \ visited : \A m \in Paths \ visited : n <= m
      BY <3>1, LeastNatural
    <3>3. Min(Paths \ visited) = n
      BY <3>1, <3>2, LeastIs
    <3> QED BY <3>3
  <2> HIDE DEF start
  <2>3. queue' \in Seq(Paths) /\ Range(queue') = {start} /\ IsInjective(queue')
    <3>1. queue' \in Seq(Paths) /\ DOMAIN queue' = {1} /\ queue'[1] = start
      BY <2>1, <2>2
    <3> QED BY <3>1 DEF Range, IsInjective
  <2>4. Whole' = {start}
    BY <2>1, <2>3 DEF Whole
  <2>5. Joined(Links, {start})
    BY DEF Joined
  <2>6. ComponentTypes'
    BY <1>2, <1>3, <1>6, <2>1, <2>2, <2>3 DEF ComponentTypes
  <2>7. visited' = (UNION Range(weak')) \cup Whole' /\ (UNION Range(weak')) \cap Whole' = {}
    BY <1>6, <2>1, <2>2, <2>4
  <2> QED BY <1>2, <1>6, <2>1, <2>3, <2>4, <2>5, <2>6, <2>7 DEF ComponentInv
<1> QED
  BY <1>7, <1>8

LEMMA ComponentsStay ==
  ASSUME repo' = repo, ComponentInv, UNCHANGED <<visited, queue, component, weak>>,
         scopePhase' \in {"entries", "done"} => scopePhase \in {"entries", "done"}
  PROVE  ComponentInv'
<1>1. Paths' = Paths /\ Links' = Links
  BY DEF Paths, Links
<1>2. Whole' = Whole
  BY DEF Whole
<1> QED
  BY <1>1, <1>2 DEF ComponentInv, ComponentTypes

-------------------------------------------------------------------------------
(***************************************************************************)
(* The budget of paths.                                                    *)
(***************************************************************************)
BoundedLists ==
  [of : {"focus", "unmatched", "changes", "component"}, all : SUBSET Nat, shown : Seq(Nat)]

Counts(all) == [i \in DOMAIN all |-> Len(all[i].shown)]
IsCut(l) == Len(l.shown) < Cardinality(l.all)

InBudget(b) ==
  /\ SumFunction(Counts(b.lists)) + b.remaining = ScopePaths
  /\ \A i \in DOMAIN b.lists : IsCut(b.lists[i]) =>
       b.remaining = 0 /\ \A j \in i + 1..Len(b.lists) : b.lists[j].shown = <<>>

Budgets == {b \in [remaining : Nat, lists : Seq(BoundedLists)] : InBudget(b)}

LEMMA SubSequence ==
  ASSUME NEW T, NEW s \in Seq(T), NEW n \in 0..Len(s)
  PROVE  SubSeq(s, 1, n) \in Seq(T) /\ Len(SubSeq(s, 1, n)) = n
         /\ DOMAIN SubSeq(s, 1, n) = 1..n /\ \A i \in 1..n : SubSeq(s, 1, n)[i] = s[i]
<1>1. Len(s) \in Nat /\ n \in Nat /\ n <= Len(s)
  BY LenProperties
<1>2. \A i \in 1..n : s[i] \in T
  BY <1>1, ElementOfSeq
<1>3. /\ SubSeq(s, 1, n) \in Seq(T) /\ Len(SubSeq(s, 1, n)) = (IF 1 <= n THEN n - 1 + 1 ELSE 0)
      /\ \A i \in 1..n - 1 + 1 : SubSeq(s, 1, n)[i] = s[1 + i - 1]
  BY <1>1, <1>2, SubSeqProperties
<1>4. Len(SubSeq(s, 1, n)) = n
  BY <1>1, <1>3
<1>5. \A i \in 1..n : i \in 1..n - 1 + 1 /\ 1 + i - 1 = i
  BY <1>1
<1> QED
  BY <1>3, <1>4, <1>5, LenProperties

\* The lists of b are the lists `before` and one more, about the paths ps.
OneMore(before, b, of, ps) ==
  \E l \in BoundedLists : l.of = of /\ l.all = ps /\ b.lists = Append(before.lists, l)

LEMMA TakeKeeps ==
  ASSUME NEW b \in Budgets, NEW of \in {"focus", "unmatched", "changes", "component"},
         NEW ps \in SUBSET Nat, IsFiniteSet(ps)
  PROVE  Take(b, of, ps) \in Budgets /\ OneMore(b, Take(b, of, ps), of, ps)
<1> DEFINE sorted == Ascending(ps)
           size == Cardinality(ps)
           n == Min({size, b.remaining})
           l == [of |-> of, all |-> ps, shown |-> SubSeq(sorted, 1, n)]
           more == Append(b.lists, l)
           m == Len(b.lists)
<1>1. /\ b.remaining \in Nat /\ b.lists \in Seq(BoundedLists)
      /\ SumFunction(Counts(b.lists)) + b.remaining = ScopePaths
      /\ \A i \in DOMAIN b.lists : IsCut(b.lists[i]) =>
           b.remaining = 0 /\ \A j \in i + 1..Len(b.lists) : b.lists[j].shown = <<>>
  BY DEF Budgets, InBudget
<1>2. size \in Nat /\ sorted \in Seq(Nat) /\ Len(sorted) = size
  <2>1. sorted \in Seq(ps) /\ Len(sorted) = Cardinality(ps)
    BY AscendingIs
  <2>2. sorted \in Seq(Nat)
    BY <2>1, SeqMonotonic
  <2> QED BY <2>1, <2>2, FS_CardinalityType
<1>3. Take(b, of, ps) = [remaining |-> b.remaining - n, lists |-> more]
  BY DEF Take
<1> HIDE DEF size, sorted
<1>4. n \in Nat /\ n <= size /\ n <= b.remaining /\ (n < size => n = b.remaining)
  <2>1. CASE size <= b.remaining
    <3>1. n = size
      BY <1>1, <1>2, <2>1, LeastIs
    <3> QED BY <1>1, <1>2, <2>1, <3>1
  <2>2. CASE ~(size <= b.remaining)
    <3>1. n = b.remaining
      BY <1>1, <1>2, <2>2, LeastIs
    <3> QED BY <1>1, <1>2, <2>2, <3>1
  <2> QED BY <2>1, <2>2
<1> HIDE DEF n
<1>5. SubSeq(sorted, 1, n) \in Seq(Nat) /\ Len(SubSeq(sorted, 1, n)) = n
  <2>1. n \in 0..Len(sorted)
    BY <1>2, <1>4
  <2> QED BY <1>2, <2>1, SubSequence
<1>6. l \in BoundedLists /\ l.of = of /\ l.all = ps /\ Len(l.shown) = n /\ (IsCut(l) <=> n < size)
      /\ (n = 0 => l.shown = <<>>)
  <2>1. n = 0 => SubSeq(sorted, 1, n) = <<>>
    BY <1>5, EmptySeq
  <2> QED BY <1>5, <2>1 DEF BoundedLists, IsCut, size
<1> HIDE DEF l
<1>7. /\ more \in Seq(BoundedLists) /\ Len(more) = m + 1 /\ m \in Nat /\ DOMAIN b.lists = 1..m
      /\ DOMAIN more = 1..m + 1 /\ more[m + 1] = l /\ \A i \in 1..m : more[i] = b.lists[i]
  BY <1>1, <1>6, AppendProperties, LenProperties
<1> HIDE DEF more, m
<1>8. SumFunction(Counts(more)) = SumFunction(Counts(b.lists)) + n
  <2> DEFINE w == Counts(more)
             S == 1..m + 1
  <2>1. IsFiniteSet(S) /\ m + 1 \in S /\ S \ {m + 1} = 1..m
    <3>1. IsFiniteSet(S) /\ m + 1 \in S
      BY <1>7, FS_Interval
    <3>2. S \ {m + 1} = 1..m
      BY <1>7
    <3> QED BY <3>1, <3>2
  <2>2. w \in [S -> Int] /\ w[m + 1] = n
    <3>1. ASSUME NEW i \in S PROVE Len(more[i].shown) \in Nat
      <4>1. more[i] \in BoundedLists
        BY <1>7, ElementOfSeq
      <4>2. more[i].shown \in Seq(Nat)
        BY <4>1 DEF BoundedLists
      <4> QED BY <4>2, LenProperties
    <3>2. w = [i \in S |-> Len(more[i].shown)]
      BY <1>7 DEF Counts
    <3> QED BY <1>6, <1>7, <2>1, <3>1, <3>2
  <2>3. [i \in 1..m |-> w[i]] = Counts(b.lists)
    <3>1. \A i \in 1..m : i \in S /\ w[i] = Len(b.lists[i].shown)
      BY <1>7 DEF Counts
    <3> QED BY <1>7, <3>1 DEF Counts
  <2> HIDE DEF w, S
  <2>4. SumFunction(w) = SumFunction([i \in S \ {m + 1} |-> w[i]]) + w[m + 1]
    BY <2>1, <2>2, SumWithout
  <2> QED BY <2>1, <2>2, <2>3, <2>4 DEF w
<1>9. SumFunction(Counts(b.lists)) \in Int
  <2>1. ASSUME NEW i \in 1..m PROVE Len(b.lists[i].shown) \in Int
    <3>1. b.lists[i] \in BoundedLists
      BY <1>1, <1>7, ElementOfSeq
    <3>2. b.lists[i].shown \in Seq(Nat)
      BY <3>1 DEF BoundedLists
    <3> QED BY <3>2, LenProperties
  <2>2. Counts(b.lists) \in [1..m -> Int]
    BY <1>7, <2>1 DEF Counts
  <2>3. IsFiniteSet(1..m)
    BY <1>7, FS_Interval
  <2> QED BY <2>2, <2>3, SumIsInteger
<1>10. SumFunction(Counts(more)) + (b.remaining - n) = ScopePaths
  BY <1>1, <1>4, <1>8, <1>9
<1>11. ASSUME NEW i \in DOMAIN more, IsCut(more[i])
       PROVE  b.remaining - n = 0 /\ \A j \in i + 1..Len(more) : more[j].shown = <<>>
  <2>1. CASE i = m + 1
    <3>1. n = b.remaining
      BY <1>4, <1>6, <1>7, <1>11, <2>1
    <3>2. i + 1..Len(more) = {}
      BY <1>7, <2>1
    <3> QED BY <1>4, <3>1, <3>2
  <2>2. CASE i # m + 1
    <3>1. i \in 1..m /\ more[i] = b.lists[i] /\ i \in Nat
      BY <1>7, <2>2
    <3>2. b.remaining = 0 /\ \A j \in i + 1..m : b.lists[j].shown = <<>>
      BY <1>1, <1>7, <1>11, <3>1 DEF m
    <3>3. n = 0 /\ l.shown = <<>>
      BY <1>4, <1>6, <3>2
    <3>4. \A j \in i + 1..m + 1 : j = m + 1 \/ (j \in i + 1..m /\ j \in 1..m)
      BY <1>7, <3>1
    <3> QED BY <1>7, <3>2, <3>3, <3>4
  <2> QED BY <2>1, <2>2
<1>12. Take(b, of, ps) \in Budgets
  <2>1. b.remaining - n \in Nat
    BY <1>1, <1>4
  <2> QED BY <1>3, <1>7, <1>10, <1>11, <2>1 DEF Budgets, InBudget
<1>13. Take(b, of, ps).lists = Append(b.lists, l)
  BY <1>3 DEF more
<1> QED
  BY <1>6, <1>12, <1>13 DEF OneMore

LEMMA EmptyBudget == [remaining |-> ScopePaths, lists |-> <<>>] \in Budgets
<1> DEFINE b == [remaining |-> ScopePaths, lists |-> <<>>]
<1>1. SumFunction(Counts(<<>>)) = 0
  <2>1. DOMAIN <<>> = {}
    BY EmptySeq
  <2>2. IsFiniteSet({}) /\ Counts(<<>>) \in [{} -> Nat]
    BY <2>1, FS_EmptySet DEF Counts
  <2> QED BY <2>2, SumOfNothing
<1>2. ScopePaths \in Nat /\ <<>> \in Seq(BoundedLists) /\ DOMAIN <<>> = {}
  BY ScopeAssumption, EmptySeq
<1>3. b \in [remaining : Nat, lists : Seq(BoundedLists)]
  BY <1>2
<1>4. b.lists = <<>> /\ b.remaining = ScopePaths
  OBVIOUS
<1> HIDE DEF b
<1>5. InBudget(b)
  BY <1>1, <1>2, <1>4 DEF InBudget
<1> QED
  BY <1>3, <1>5 DEF Budgets, b

Budget == [remaining |-> remaining, lists |-> lists]

LEMMA ProjectSeedsKeeps ==
  ASSUME repo \in Repositories, Budget \in Budgets, ProjectSeeds PROVE Budget' \in Budgets
<1> DEFINE none == [remaining |-> remaining, lists |-> lists]
           focus == IF repo.focus \cup Unmatched = {} THEN none
                    ELSE Take(Take(none, "focus", repo.focus), "unmatched", Unmatched)
           changes == IF repo.diff THEN Take(focus, "changes", repo.changed) ELSE focus
<1>1. remaining' = changes.remaining /\ lists' = changes.lists
  BY DEF ProjectSeeds
<1>2. /\ repo.focus \in SUBSET Nat /\ IsFiniteSet(repo.focus)
      /\ repo.changed \in SUBSET Nat /\ IsFiniteSet(repo.changed)
      /\ Unmatched \in SUBSET Nat /\ IsFiniteSet(Unmatched)
  <2>1. Paths \subseteq Nat /\ Places \subseteq Nat /\ IsFiniteSet(Paths) /\ IsFiniteSet(Places)
        /\ repo.focus \subseteq Paths /\ repo.changed \subseteq Places
    BY RepositoryFacts
  <2>2. repo.unmatched \subseteq Nat /\ IsFiniteSet(repo.unmatched)
    BY ScopeAssumption
  <2> QED BY <2>1, <2>2, FS_Subset DEF Unmatched
<1>3. none \in Budgets
  BY DEF Budget
<1>4. focus \in Budgets
  <2> HIDE DEF none
  <2>1. Take(none, "focus", repo.focus) \in Budgets
    BY <1>2, <1>3, TakeKeeps
  <2>2. Take(Take(none, "focus", repo.focus), "unmatched", Unmatched) \in Budgets
    BY <1>2, <2>1, TakeKeeps
  <2> QED BY <1>3, <2>2
<1>5. changes \in Budgets
  <2> HIDE DEF focus
  <2>1. Take(focus, "changes", repo.changed) \in Budgets
    BY <1>2, <1>4, TakeKeeps
  <2> QED BY <1>4, <2>1
<1> HIDE DEF changes
<1>6. changes = [remaining |-> changes.remaining, lists |-> changes.lists]
  <2>1. changes \in [remaining : Nat, lists : Seq(BoundedLists)]
    BY <1>5 DEF Budgets
  <2> QED BY <2>1
<1> QED
  BY <1>1, <1>5, <1>6 DEF Budget

-------------------------------------------------------------------------------
(***************************************************************************)
(* The components that are listed.                                         *)
(***************************************************************************)
Foremost(cs) == {cd \in cs \X cs : First(cd[1], cd[2])}

LEMMA SortedLists ==
  ASSUME repo \in Repositories, ComponentInv, NEW cs \in SUBSET Range(weak)
  PROVE  /\ IsFiniteSet(cs) /\ Sorted(cs) \in Seq(cs) /\ Len(Sorted(cs)) = Cardinality(cs)
         /\ Range(Sorted(cs)) = cs
<1>1. Paths \in SUBSET Nat /\ IsFiniteSet(Paths)
  BY RepositoryFacts
<1>2. /\ weak \in Seq(SUBSET Paths) /\ \A c \in Range(weak) : c # {}
      /\ \A i, j \in DOMAIN weak : i # j => weak[i] \cap weak[j] = {}
  BY DEF ComponentInv, ComponentTypes
<1>3. IsFiniteSet(cs)
  <2>1. IsFiniteSet(1..Len(weak)) /\ DOMAIN weak = 1..Len(weak)
    BY <1>2, LenProperties, FS_Interval
  <2>2. weak \in Surjection(1..Len(weak), Range(weak))
    BY <1>2, <2>1 DEF Surjection, Range
  <2>3. IsFiniteSet(Range(weak))
    BY <2>1, <2>2, FS_Surjection
  <2> QED BY <2>3, FS_Subset
<1>4. ASSUME NEW c \in cs
      PROVE  /\ c \subseteq Paths /\ Cardinality(c \cap GraphSeeds) \in Nat /\ Cardinality(c) \in Nat
             /\ Min(c) \in c /\ Min(c) \in Nat
  <2>1. c \in SUBSET Paths /\ c # {}
    BY <1>2, ElementOfSeq DEF Range
  <2>2. IsFiniteSet(c) /\ IsFiniteSet(c \cap GraphSeeds)
    BY <1>1, <2>1, FS_Subset
  <2>3. Min(c) \in c
    <3>1. c \in SUBSET Nat
      BY <1>1, <2>1
    <3>2. PICK n \in c : \A m \in c : n <= m
      BY <2>1, <3>1, LeastNatural
    <3>3. Min(c) = n
      BY <3>1, <3>2, LeastIs
    <3> QED BY <3>3
  <2> QED BY <1>1, <2>1, <2>2, <2>3, FS_CardinalityType
<1>5. ASSUME NEW c \in cs, NEW d \in cs, c # d PROVE Min(c) # Min(d)
  <2>1. c \cap d = {}
    BY <1>2, <1>5 DEF Range
  <2> QED BY <1>4, <2>1
<1>6. TotalOrder(Foremost(cs), cs)
  <2> DEFINE s == [c \in cs |-> Cardinality(c \cap GraphSeeds)]
             t == [c \in cs |-> Cardinality(c)]
             m == [c \in cs |-> Min(c)]
  <2>1. s \in [cs -> Nat] /\ t \in [cs -> Nat] /\ m \in [cs -> Nat]
    BY <1>4
  <2>2. \A c, d \in cs : First(c, d) <=> \/ s[c] > s[d]
                                         \/ s[c] = s[d] /\ t[c] > t[d]
                                         \/ s[c] = s[d] /\ t[c] = t[d] /\ m[c] < m[d]
    BY DEF First
  <2>3. \A c, d \in cs : m[c] = m[d] => c = d
    BY <1>5
  <2> HIDE DEF s, t, m
  <2>4. \A c \in cs : ~First(c, c)
    BY <2>1, <2>2
  <2>5. ASSUME NEW c \in cs, NEW d \in cs, NEW e \in cs, First(c, d), First(d, e)
        PROVE  First(c, e)
    BY <2>1, <2>2, <2>5
  <2>6. ASSUME NEW c \in cs, NEW d \in cs, c # d PROVE First(c, d) \/ First(d, c)
    BY <2>1, <2>2, <2>3, <2>6
  <2> QED BY <2>4, <2>5, <2>6 DEF TotalOrder, Foremost
<1>7. Foremost(cs) \in SUBSET (cs \X cs)
  BY DEF Foremost
<1>8. PICK s : Listing(Foremost(cs), cs, s)
  BY <1>3, <1>6, <1>7, ListingExists
<1>9. \A c \in cs : {d \in cs : First(d, c)} = Below(Foremost(cs), cs, c)
  BY DEF Below, Foremost
<1>10. ASSUME NEW i \in 1..Cardinality(cs)
       PROVE  (CHOOSE c \in cs : Cardinality({d \in cs : First(d, c)}) = i - 1) = s[i]
  <2>1. s[i] \in cs /\ Cardinality({d \in cs : First(d, s[i])}) = i - 1
    BY <1>8, <1>9 DEF Listing
  <2>2. \A c \in cs : Cardinality({d \in cs : First(d, c)}) = i - 1 => c = s[i]
    BY <1>8, <1>9, <2>1 DEF Listing
  <2> QED BY <2>1, <2>2
<1>11. Sorted(cs) = s
  BY <1>8, <1>10 DEF Sorted, Listing
<1> QED
  BY <1>3, <1>6, <1>8, <1>11, ListingIs

\* The budget and the lists after each of n components of the list `top`.
TakenInTurn(n, top, seeded) ==
  CHOOSE it : it =
    [i \in 0..n |->
       IF i = 0 THEN [remaining |-> remaining, lists |-> lists]
       ELSE Take(it[i - 1], "component",
                 IF seeded = {} THEN {Min(top[i])} ELSE top[i] \cap GraphSeeds)]

\* The paths that a component is listed by are numbers.
Listable(n, top) ==
  \A i \in 1..n : {Min(top[i])} \in SUBSET Nat /\ top[i] \cap GraphSeeds \in SUBSET Nat
                  /\ IsFiniteSet(top[i] \cap GraphSeeds)

\* Among the lists ls there is one for the seeds of each of n components.
SeedsOf(ls, n, top) ==
  \A i \in 1..n : \E l \in Range(ls) : l.of = "component" /\ l.all = top[i] \cap GraphSeeds

LEMMA ComponentsTaken ==
  ASSUME NEW n \in Nat, NEW top, NEW seeded, Budget \in Budgets, Listable(n, top)
  PROVE  /\ TakenInTurn(n, top, seeded)[n] \in Budgets
         /\ seeded # {} => SeedsOf(TakenInTurn(n, top, seeded)[n].lists, n, top)
<1> DEFINE taken == TakenInTurn(n, top, seeded)
           start == [remaining |-> remaining, lists |-> lists]
           own(i) == IF seeded = {} THEN {Min(top[i])} ELSE top[i] \cap GraphSeeds
           G(it) == [i \in 0..n |-> IF i = 0 THEN start ELSE Take(it[i - 1], "component", own(i))]
           F == [i \in 1..n |-> [b \in Budgets |-> Take(b, "component", own(i))]]
<1>1. start \in Budgets
  BY DEF Budget
<1>2. taken = CHOOSE it : it = G(it)
  BY DEF TakenInTurn
<1> HIDE DEF taken
<1>3. \A i \in 1..n : own(i) \in SUBSET Nat /\ IsFiniteSet(own(i))
  <2> SUFFICES ASSUME NEW i \in 1..n PROVE own(i) \in SUBSET Nat /\ IsFiniteSet(own(i))
    OBVIOUS
  <2>1. IsFiniteSet({Min(top[i])})
    BY FS_Singleton
  <2> QED BY <2>1 DEF Listable
<1>4. \A i \in 1..n : seeded # {} => own(i) = top[i] \cap GraphSeeds
  OBVIOUS
<1> HIDE DEF own, start
<1>5. ASSUME NEW i \in 1..n, NEW b \in Budgets
      PROVE  /\ Take(b, "component", own(i)) \in Budgets
             /\ OneMore(b, Take(b, "component", own(i)), "component", own(i))
  BY <1>3, TakeKeeps
<1>6. F \in [1..n -> [Budgets -> Budgets]]
  BY <1>5
<1>7. PICK f : Recursion(n, Budgets, start, F, f)
  <2> HIDE DEF F
  <2> QED BY <1>1, <1>6, RecursionExists
<1>8. f \in [0..n -> Budgets] /\ f[0] = start
      /\ \A i \in 1..n : f[i] = Take(f[i - 1], "component", own(i))
  <2>1. f \in [0..n -> Budgets] /\ f[0] = start /\ \A i \in 1..n : f[i] = F[i][f[i - 1]]
    BY <1>7 DEF Recursion
  <2>2. \A i \in 1..n : i - 1 \in 0..n
    OBVIOUS
  <2>3. ASSUME NEW i \in 1..n PROVE f[i] = Take(f[i - 1], "component", own(i))
    <3>1. f[i - 1] \in Budgets
      BY <2>1, <2>2
    <3> QED BY <2>1, <3>1
  <2> QED BY <2>1, <2>3
<1> HIDE DEF F
<1>9. f = G(f)
  <2>1. ASSUME NEW i \in 0..n
        PROVE  f[i] = IF i = 0 THEN start ELSE Take(f[i - 1], "component", own(i))
    <3>1. CASE i = 0
      BY <1>8, <3>1
    <3>2. CASE i # 0
      <4>1. i \in 1..n
        BY <3>2
      <4> QED BY <1>8, <3>2, <4>1
    <3> QED BY <3>1, <3>2
  <2> QED BY <1>8, <2>1
<1>10. taken = G(taken)
  <2> HIDE DEF G
  <2> QED BY <1>2, <1>9
<1> DEFINE Listed(i) == \A j \in 1..i : \E l \in Range(taken[i].lists) :
                        l.of = "component" /\ l.all = own(j)
           Good == {i \in 0..n : taken[i] \in Budgets /\ Listed(i)}
<1>11. 0 \in Good
  <2>1. 0 \in 0..n /\ 1..0 = {}
    OBVIOUS
  <2>2. taken[0] = start
    BY <1>10, <2>1
  <2> QED BY <1>1, <2>1, <2>2
<1>12. ASSUME NEW i \in 1..n, i - 1 \in Good PROVE i \in Good
  <2>1. i \in 0..n /\ i # 0 /\ i \in Nat
    OBVIOUS
  <2>2. taken[i] = Take(taken[i - 1], "component", own(i))
    BY <1>10, <2>1
  <2>3. taken[i - 1] \in Budgets /\ Listed(i - 1)
    BY <1>12
  <2>4. PICK l \in BoundedLists : /\ l.of = "component" /\ l.all = own(i)
                                  /\ taken[i].lists = Append(taken[i - 1].lists, l)
    <3>1. OneMore(taken[i - 1], taken[i], "component", own(i))
      BY <1>5, <2>2, <2>3
    <3> QED BY <3>1 DEF OneMore
  <2>5. taken[i] \in Budgets
    BY <1>5, <2>2, <2>3
  <2>6. Range(taken[i].lists) = Range(taken[i - 1].lists) \cup {l}
    <3> DEFINE before == taken[i - 1].lists
    <3>1. before \in Seq(BoundedLists)
      BY <2>3 DEF Budgets
    <3>2. taken[i].lists = Append(before, l)
      BY <2>4
    <3> HIDE DEF before
    <3>3. Range(Append(before, l)) = Range(before) \cup {l}
      BY <3>1, AppendedRange
    <3> QED BY <3>2, <3>3 DEF before
  <2>7. ASSUME NEW j \in 1..i
        PROVE  \E k \in Range(taken[i].lists) : k.of = "component" /\ k.all = own(j)
    <3>1. CASE j = i
      BY <2>4, <2>6, <3>1
    <3>2. CASE j # i
      <4>1. j \in 1..i - 1
        BY <2>1, <3>2
      <4>2. PICK k \in Range(taken[i - 1].lists) : k.of = "component" /\ k.all = own(j)
        BY <2>3, <4>1
      <4> QED BY <2>6, <4>2
    <3> QED BY <3>1, <3>2
  <2> QED BY <2>1, <2>5, <2>7
<1>13. n \in Good
  <2> HIDE DEF Good
  <2>1. Good \in SUBSET (0..n)
    BY DEF Good
  <2>2. \A i \in 0..n : i \in Good
    BY <1>11, <1>12, <2>1, NumbersInTurn
  <2> QED BY <2>2
<1>14. taken[n] \in Budgets /\ (seeded # {} => SeedsOf(taken[n].lists, n, top))
  BY <1>4, <1>13 DEF SeedsOf
<1> QED
  BY <1>14 DEF taken

LEMMA ListComponentsKeeps ==
  ASSUME repo \in Repositories, ComponentInv, Budget \in Budgets, ListComponents
  PROVE  /\ Budget' \in Budgets
         /\ \A p \in GraphSeeds : \/ \E l \in Range(lists') : l.of = "component" /\ p \in l.all
                                  \/ Len(entries') = ScopeComponents
<1> DEFINE seeded == {c \in Range(weak) : c \cap GraphSeeds # {}}
           due == IF seeded = {} THEN Range(weak) ELSE seeded
           size == Cardinality(due)
           n == Min({size, ScopeComponents})
           top == SubSeq(Sorted(due), 1, n)
           taken == CHOOSE it : it =
             [i \in 0..n |->
                IF i = 0 THEN [remaining |-> remaining, lists |-> lists]
                ELSE Take(it[i - 1], "component",
                          IF seeded = {} THEN {Min(top[i])} ELSE top[i] \cap GraphSeeds)]
<1>1. entries' = top /\ remaining' = taken[n].remaining /\ lists' = taken[n].lists
  BY DEF ListComponents
<1>2. scopePhase = "entries"
  BY DEF ListComponents
<1>3. /\ IsFiniteSet(due) /\ Sorted(due) \in Seq(due) /\ Len(Sorted(due)) = size /\ Range(Sorted(due)) = due
      /\ size \in Nat
  <2>1. due \in SUBSET Range(weak)
    OBVIOUS
  <2> HIDE DEF due
  <2> QED BY <2>1, SortedLists, FS_CardinalityType
<1>4. due \subseteq Range(weak)
  OBVIOUS
<1> HIDE DEF size
<1>5. n \in 0..size /\ (n = size \/ n = ScopeComponents)
  <2>1. ScopeComponents \in Nat
    BY ScopeAssumption
  <2>2. CASE size <= ScopeComponents
    <3>1. n = size
      BY <1>3, <2>1, <2>2, LeastIs
    <3> QED BY <1>3, <3>1
  <2>3. CASE ~(size <= ScopeComponents)
    <3>1. n = ScopeComponents
      BY <1>3, <2>1, <2>3, LeastIs
    <3> QED BY <1>3, <2>1, <2>3, <3>1
  <2> QED BY <2>2, <2>3
<1>6. /\ top \in Seq(due) /\ Len(top) = n /\ DOMAIN top = 1..n
      /\ \A i \in 1..n : top[i] = Sorted(due)[i] /\ top[i] \in due
  <2> HIDE DEF due, n
  <2>1. top \in Seq(due) /\ Len(top) = n /\ DOMAIN top = 1..n /\ \A i \in 1..n : top[i] = Sorted(due)[i]
    BY <1>3, <1>5, SubSequence
  <2> HIDE DEF top
  <2> QED BY <2>1, ElementOfSeq
<1> HIDE DEF due, n, top
<1>7. Listable(n, top)
  <2> SUFFICES ASSUME NEW i \in 1..n
               PROVE  {Min(top[i])} \in SUBSET Nat /\ top[i] \cap GraphSeeds \in SUBSET Nat
                      /\ IsFiniteSet(top[i] \cap GraphSeeds)
    BY DEF Listable
  <2>1. top[i] \in Range(weak)
    BY <1>4, <1>6
  <2>2. top[i] \in SUBSET Paths /\ top[i] # {}
    <3>1. weak \in Seq(SUBSET Paths) /\ \A c \in Range(weak) : c # {}
      BY DEF ComponentInv, ComponentTypes
    <3>2. PICK j \in DOMAIN weak : weak[j] = top[i]
      BY <2>1 DEF Range
    <3>3. weak[j] \in SUBSET Paths
      BY <3>1, <3>2, ElementOfSeq, LenProperties
    <3> QED BY <2>1, <3>1, <3>2, <3>3
  <2>3. IsFiniteSet(Paths) /\ Paths \subseteq Nat
    BY <1>3, RepositoryFacts
  <2>4. top[i] \cap GraphSeeds \in SUBSET Nat /\ IsFiniteSet(top[i] \cap GraphSeeds)
    BY <2>2, <2>3, FS_Subset
  <2>5. Min(top[i]) \in Nat
    <3>1. top[i] \in SUBSET Nat
      BY <2>2, <2>3
    <3>2. PICK m \in top[i] : \A k \in top[i] : m <= k
      BY <2>2, <3>1, LeastNatural
    <3>3. Min(top[i]) = m
      BY <3>1, <3>2, LeastIs
    <3> QED BY <3>1, <3>3
  <2> QED BY <2>4, <2>5
<1>8. taken[n] \in Budgets /\ (seeded # {} => SeedsOf(taken[n].lists, n, top))
  <2>1. n \in Nat
    BY <1>3, <1>5
  <2>2. taken = TakenInTurn(n, top, seeded)
    BY DEF TakenInTurn
  <2> HIDE DEF seeded, taken
  <2> QED BY <1>7, <2>1, <2>2, ComponentsTaken
<1> HIDE DEF taken
<1>9. Budget' \in Budgets
  <2>1. taken[n] \in [remaining : Nat, lists : Seq(BoundedLists)]
    BY <1>8 DEF Budgets
  <2>2. taken[n] = [remaining |-> taken[n].remaining, lists |-> taken[n].lists]
    BY <2>1
  <2> QED BY <1>1, <1>8, <2>2 DEF Budget
<1>10. ASSUME NEW p \in GraphSeeds, Len(entries') # ScopeComponents
       PROVE  \E l \in Range(lists') : l.of = "component" /\ p \in l.all
  <2>1. n = size
    BY <1>1, <1>5, <1>6, <1>10
  <2>2. PICK c \in Range(weak) : p \in c
    <3>1. p \in UNION Range(weak)
      BY <1>2 DEF ComponentInv, GraphSeeds
    <3> QED BY <3>1
  <2>3. c \in seeded
    BY <1>10, <2>2
  <2>4. c \in due /\ seeded # {}
    BY <2>3 DEF due
  <2>5. PICK i \in 1..n : Sorted(due)[i] = c
    BY <1>3, <2>1, <2>4, LenProperties DEF Range
  <2>6. PICK l \in Range(taken[n].lists) : l.of = "component" /\ l.all = top[i] \cap GraphSeeds
    BY <1>8, <2>4 DEF SeedsOf
  <2>7. p \in l.all
    BY <1>6, <1>10, <2>2, <2>5, <2>6
  <2> QED BY <1>1, <2>6, <2>7
<1> QED
  BY <1>9, <1>10

-------------------------------------------------------------------------------
(***************************************************************************)
(* The work scope as a whole.                                              *)
(***************************************************************************)
SeedsListed ==
  \A p \in GraphSeeds : \/ \E l \in Range(lists) : l.of = "component" /\ p \in l.all
                        \/ Len(entries) = ScopeComponents

ScopeInv ==
  /\ scopePhase \in {"seeds", "structure", "entries", "done"}
  /\ ContextInv /\ ComponentInv
  /\ Budget \in Budgets
  /\ scopePhase = "done" => SeedsListed

LEMMA ScopeStarts == ScopeInit => ScopeInv
<1> SUFFICES ASSUME ScopeInit PROVE ScopeInv
  OBVIOUS
<1>1. /\ remaining = ScopePaths /\ lists = <<>> /\ visited = {} /\ queue = <<>> /\ component = {}
      /\ weak = <<>> /\ scopePhase = "seeds"
  BY DEF ScopeInit, ScopeStart
<1>2. ContextInv
  BY ContextStarts DEF ScopeInit
<1>3. Budget \in Budgets
  BY <1>1, EmptyBudget DEF Budget
<1>4. ComponentInv
  <2>1. /\ Range(<<>>) = {} /\ IsInjective(<<>>) /\ DOMAIN <<>> = {}
        /\ <<>> \in Seq(Paths) /\ <<>> \in Seq(SUBSET Paths)
    BY EmptySeq DEF Range, IsInjective
  <2>2. Whole = {} /\ Joined(Links, {})
    BY <1>1, <2>1 DEF Whole, Joined
  <2>3. ComponentTypes
    BY <1>1, <2>1 DEF ComponentTypes
  <2>4. Range(weak) = {} /\ Range(queue) = {} /\ DOMAIN weak = {}
    BY <1>1, <2>1
  <2> QED BY <1>1, <2>2, <2>3, <2>4 DEF ComponentInv
<1> QED
  BY <1>1, <1>2, <1>3, <1>4 DEF ScopeInv

\* A plan is made for one repository.
LEMMA RepositoryStays ==
  ASSUME [ContextNext]_contextVars PROVE repo' = repo
BY DEF ContextNext, contextVars, StartReach, Reach, Rank, SelectNext, StartOutlines, OutlineNext,
       FinishPlan

LEMMA ScopeKeeps ==
  ASSUME ScopeInv, [ScopeNext]_<<contextVars, scopeVars>> PROVE ScopeInv'
<1>1. /\ scopePhase \in {"seeds", "structure", "entries", "done"}
      /\ ContextInv /\ ComponentInv /\ Budget \in Budgets /\ (scopePhase = "done" => SeedsListed)
      /\ repo \in Repositories
  BY DEF ScopeInv, ContextInv, SearchInv, SearchTypes
<1>2. [ContextNext]_contextVars
  BY DEF ScopeNext
<1>3. ContextInv' /\ repo' = repo
  BY <1>1, <1>2, ContextKeeps, RepositoryStays
<1>4. GraphSeeds' = GraphSeeds
  BY <1>3 DEF GraphSeeds, Paths
<1>5. CASE UNCHANGED scopeVars
  <2>1. UNCHANGED <<remaining, lists, visited, queue, component, weak, entries, scopePhase>>
    BY <1>5 DEF scopeVars
  <2>2. ComponentInv'
    BY <1>1, <1>3, <2>1, ComponentsStay
  <2>3. Budget' = Budget /\ SeedsListed' = SeedsListed
    BY <1>4, <2>1 DEF Budget, SeedsListed
  <2> QED BY <1>1, <1>3, <2>1, <2>2, <2>3 DEF ScopeInv
<1>6. CASE ProjectSeeds
  <2>1. scopePhase' = "structure" /\ UNCHANGED <<visited, queue, component, weak>>
    BY <1>6 DEF ProjectSeeds
  <2>2. ComponentInv'
    BY <1>1, <1>3, <2>1, ComponentsStay
  <2>3. Budget' \in Budgets
    BY <1>1, <1>6, ProjectSeedsKeeps
  <2> QED BY <1>3, <2>1, <2>2, <2>3 DEF ScopeInv
<1>7. CASE NextComponent
  <2>1. scopePhase' \in {"structure", "entries"} /\ UNCHANGED <<remaining, lists>>
    BY <1>7 DEF NextComponent
  <2>2. ComponentInv'
    BY <1>1, <1>3, <1>7, NextComponentKeeps
  <2>3. Budget' = Budget
    BY <2>1 DEF Budget
  <2> QED BY <1>1, <1>3, <2>1, <2>2, <2>3 DEF ScopeInv
<1>8. CASE VisitNeighbors
  <2>1. scopePhase' = "structure" /\ UNCHANGED <<remaining, lists>>
    BY <1>8 DEF VisitNeighbors
  <2>2. ComponentInv'
    BY <1>1, <1>3, <1>8, VisitNeighborsKeeps
  <2>3. Budget' = Budget
    BY <2>1 DEF Budget
  <2> QED BY <1>1, <1>3, <2>1, <2>2, <2>3 DEF ScopeInv
<1>9. CASE ListComponents
  <2>1. scopePhase = "entries" /\ scopePhase' = "done" /\ UNCHANGED <<visited, queue, component, weak>>
    BY <1>9 DEF ListComponents
  <2>2. ComponentInv'
    BY <1>1, <1>3, <2>1, ComponentsStay
  <2>3. /\ Budget' \in Budgets
        /\ \A p \in GraphSeeds : \/ \E l \in Range(lists') : l.of = "component" /\ p \in l.all
                                 \/ Len(entries') = ScopeComponents
    BY <1>1, <1>9, ListComponentsKeeps
  <2>4. SeedsListed'
    BY <1>4, <2>3 DEF SeedsListed
  <2> QED BY <1>3, <2>1, <2>2, <2>3, <2>4 DEF ScopeInv
<1> QED
  BY <1>5, <1>6, <1>7, <1>8, <1>9 DEF ScopeNext

(***************************************************************************)
(* The invariant of the work scope holds in every state: the plan's own,   *)
(* the closure of the components and the budget of all the lists.          *)
(***************************************************************************)
THEOREM ScopeInductive == ScopeSpec => []ScopeInv
<1>1. ScopeInit => ScopeInv
  BY ScopeStarts
<1>2. ScopeInv /\ [ScopeNext]_<<contextVars, scopeVars>> => ScopeInv'
  BY ScopeKeeps
<1> QED
  BY <1>1, <1>2, PTL DEF ScopeSpec

\* The components are what WeaklyConnected says of them.
LEMMA ComponentsAreWeak ==
  ASSUME ScopeInv PROVE WeaklyConnected
<1> SUFFICES ASSUME scopePhase \in {"entries", "done"}
             PROVE  /\ UNION Range(weak) = Paths
                    /\ \A i, j \in DOMAIN weak : i # j => weak[i] \cap weak[j] = {}
                    /\ \A c \in Range(weak) :
                         /\ \A s \in (SUBSET c) \ {{}, c} :
                              \E p \in s, q \in c \ s : <<p, q>> \in repo.imports \/ <<q, p>> \in repo.imports
                         /\ \A p \in c, q \in Paths \ c : {<<p, q>>, <<q, p>>} \cap repo.imports = {}
  BY DEF WeaklyConnected
<1>1. /\ UNION Range(weak) = Paths
      /\ \A i, j \in DOMAIN weak : i # j => weak[i] \cap weak[j] = {}
      /\ \A c \in Range(weak) : Joined(Links, c) /\ Alone(Links, c)
  BY DEF ScopeInv, ComponentInv
<1>2. ASSUME NEW c \in Range(weak), NEW s \in (SUBSET c) \ {{}, c}
      PROVE  \E p \in s, q \in c \ s : <<p, q>> \in repo.imports \/ <<q, p>> \in repo.imports
  <2>1. PICK p \in s, q \in c \ s : <<p, q>> \in Links
    BY <1>1 DEF Joined
  <2> QED BY <2>1 DEF Links
<1>3. ASSUME NEW c \in Range(weak), NEW p \in c, NEW q \in Paths \ c
      PROVE  {<<p, q>>, <<q, p>>} \cap repo.imports = {}
  <2>1. p \in Paths
    BY <1>1
  <2>2. <<p, q>> \notin Links
    BY <1>1 DEF Alone
  <2> QED BY <2>1, <2>2 DEF Links
<1> QED
  BY <1>1, <1>2, <1>3

\* The lists are what PathsBounded says of them.
LEMMA ListsAreBounded ==
  ASSUME ScopeInv PROVE PathsBounded
<1> DEFINE b == Budget
<1>1. b \in Budgets /\ b.lists = lists /\ b.remaining = remaining
  BY DEF ScopeInv, Budget
<1> HIDE DEF b
<1>2. /\ SumFunction(Counts(lists)) + remaining = ScopePaths
      /\ \A i \in DOMAIN lists : IsCut(lists[i]) =>
           remaining = 0 /\ \A j \in i + 1..Len(lists) : lists[j].shown = <<>>
  BY <1>1 DEF Budgets, InBudget
<1>3. scopePhase = "done" => SeedsListed
  BY DEF ScopeInv
<1> QED
  BY <1>2, <1>3 DEF PathsBounded, Counts, IsCut, SeedsListed

\* A plan that leaves nothing out reads and shows what TruncationTold says.
LEMMA NothingLeftOut ==
  ASSUME ScopeInv PROVE TruncationTold
<1> SUFFICES ASSUME contextPhase = "done", ~Truncated
             PROVE  Range(reading) = Candidates
                    /\ \A p \in Candidates : shown[p] = DOMAIN File(p).outline
  BY DEF TruncationTold
<1>1. /\ repo \in Repositories /\ SelectionTypes /\ Selection /\ ranked = <<>> /\ OutlineLimits
      /\ outlining = <<>> /\ outlined.left \in Nat /\ outlined.left = SumOver(Unshown, Attached)
  BY DEF ScopeInv, ContextInv, SearchInv, SearchTypes, SelectInv, OutlineInv, Outlines
<1>2. omitted = <<>> /\ outlined.left = 0
  BY <1>1 DEF Truncated
<1>3. Range(<<>>) = {}
  BY EmptySeq DEF Range
<1>4. Range(reading) = Candidates
  BY <1>1, <1>2, <1>3 DEF Selection
<1>5. Attached = Candidates
  BY <1>1, <1>2, <1>3, <1>4 DEF Attached, OutlinedFiles
<1>6. Unshown \in [Paths -> Nat] /\ Candidates \in SUBSET Paths /\ IsFiniteSet(Candidates)
  <2>1. Candidates \in SUBSET Paths
    BY DEF Candidates
  <2> QED BY <1>1, <2>1, ShownIs, RepositoryFacts, FS_Subset
<1>7. ASSUME NEW p \in Candidates PROVE shown[p] = DOMAIN File(p).outline
  <2> DEFINE rest == Candidates \ {p}
             T == 1..Lines[p]
  <2>1. SumOver(Unshown, rest) \in Nat /\ SumOver(Unshown, rest \cup {p}) = SumOver(Unshown, rest) + Unshown[p]
    <3>1. rest \in SUBSET Paths /\ IsFiniteSet(rest) /\ p \in Paths \ rest
      BY <1>6, FS_Subset
    <3> HIDE DEF rest
    <3>2. /\ SumOver(Unshown, rest) \in Nat
          /\ \A x \in Paths \ rest : SumOver(Unshown, rest \cup {x}) = SumOver(Unshown, rest) + Unshown[x]
      BY <1>6, <3>1, SumsOver
    <3> QED BY <3>1, <3>2
  <2>2. rest \cup {p} = Candidates
    OBVIOUS
  <2>3. p \in Paths /\ Unshown[p] \in Nat
    BY <1>6
  <2> HIDE DEF rest
  <2>4. SumOver(Unshown, Candidates) = 0
    BY <1>1, <1>2, <1>5
  <2>5. Unshown[p] = 0
    <3>1. SumOver(Unshown, rest) + Unshown[p] = 0
      BY <2>1, <2>2, <2>4
    <3> QED BY <2>1, <2>3, <3>1
  <2>6. Lines[p] \in Nat /\ IsFiniteSet(T) /\ Cardinality(T) = Lines[p] /\ shown[p] \in SUBSET T
        /\ DOMAIN File(p).outline = T
    BY <1>1, <2>3, OutlineOf DEF OutlineLimits
  <2> HIDE DEF T
  <2>7. Cardinality(shown[p]) = Cardinality(T)
    <3>1. Cardinality(shown[p]) \in Nat
      BY <1>1, <2>3, ShownIs
    <3>2. Unshown[p] = Lines[p] - Cardinality(shown[p])
      BY <2>3 DEF Unshown
    <3> QED BY <2>5, <2>6, <3>1, <3>2
  <2>8. shown[p] = T
    BY <2>6, <2>7, FS_Subset
  <2> QED BY <2>6, <2>8
<1> QED
  BY <1>4, <1>7

(***************************************************************************)
(* For every repository and all limits: the plan is sound, the components  *)
(* are the classes of files that imports connect, one budget bounds all    *)
(* lists and cuts none before it is used up, and a scope that does not say *)
(* it is truncated left nothing out.                                       *)
(***************************************************************************)
THEOREM ScopeIsSound == ScopeSpec => []ScopeSound
<1>1. ScopeInv => ScopeSound
  <2> SUFFICES ASSUME ScopeInv PROVE ScopeSound
    OBVIOUS
  <2>1. ContextSound
    BY PlanIsAccounted DEF ScopeInv
  <2> QED BY <2>1, ComponentsAreWeak, ListsAreBounded, NothingLeftOut DEF ScopeSound
<1> QED
  BY <1>1, ScopeInductive, PTL

=================================================================================
