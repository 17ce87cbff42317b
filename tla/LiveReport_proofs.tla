--------------------------- MODULE LiveReport_proofs --------------------------
(***************************************************************************)
(* Proofs about LiveReport: the promise itself keeps the events in step    *)
(* with the snapshot, and so does whatever implements it.                  *)
(***************************************************************************)
EXTENDS LiveReport, TLAPS

USE DEF DaemonEvents, DaemonEvent, EventKinds, Statuses

\* The revision that the events told so far have reached.
Reached(all) == IF Len(all) = 0 THEN 0 ELSE all[Len(all)].revision

Follows(all, e) ==
  /\ (e.kind = "started") = ((Len(all) + 1) % 2 = 1)
  /\ e.revision = Reached(all) + (IF e.kind = "completed" THEN 1 ELSE 0)

Story(all) ==
  \A i \in 1 .. Len(all) :
    /\ (all[i].kind = "started") = (i % 2 = 1)
    /\ all[i].revision = (IF i = 1 THEN 0 ELSE all[i - 1].revision)
                         + (IF all[i].kind = "completed" THEN 1 ELSE 0)

StatusAfter(kind) == CASE kind = "started"   -> "scanning"
                       [] kind = "completed" -> "ready"
                       [] kind = "failed"    -> "error"

\* The events `all` end in the status st and the revision rev.
Ends(all, st, rev) ==
  /\ rev = Reached(all)
  /\ st = IF Len(all) = 0 THEN "starting" ELSE StatusAfter(all[Len(all)].kind)

\* The events of a sequence of events are events.
LEMMA ElementOf ==
  ASSUME NEW S, NEW s \in Seq(S), NEW i \in 1 .. Len(s)
  PROVE  s[i] \in S
OBVIOUS

\* The last event is one of the three that scan_once emits.
LEMMA LastKind ==
  ASSUME NEW all \in Seq(DaemonEvents), Len(all) > 0
  PROVE  all[Len(all)].kind \in EventKinds
<1>1. Len(all) \in 1 .. Len(all)
  OBVIOUS
<1>2. all[Len(all)] \in DaemonEvents
  BY <1>1, ElementOf
<1> QED BY <1>2

\* An event that follows prolongs the story, and ends it in its own status.
LEMMA Prolong ==
  ASSUME NEW all \in Seq(DaemonEvents), NEW e \in DaemonEvents,
         Story(all), Follows(all, e)
  PROVE  /\ Story(all \o <<e>>)
         /\ Ends(all \o <<e>>, StatusAfter(e.kind), e.revision)
<1> DEFINE more == all \o <<e>>
<1>1. /\ Len(all) \in Nat /\ Len(more) = Len(all) + 1
      /\ \A i \in 1 .. Len(all) : more[i] = all[i]
      /\ more[Len(all) + 1] = e
  OBVIOUS
<1> HIDE DEF more
<1>2. ASSUME NEW i \in 1 .. Len(all)
      PROVE  /\ (more[i].kind = "started") = (i % 2 = 1)
             /\ more[i].revision = (IF i = 1 THEN 0 ELSE more[i - 1].revision)
                                   + (IF more[i].kind = "completed" THEN 1 ELSE 0)
  <2>1. more[i] = all[i]
    BY <1>1
  <2>2. CASE i = 1
    BY <2>1, <2>2 DEF Story
  <2>3. CASE i # 1
    <3>1. i - 1 \in 1 .. Len(all)
      BY <1>1, <2>3
    <3>2. more[i - 1] = all[i - 1]
      BY <1>1, <3>1
    <3> QED BY <2>1, <2>3, <3>2 DEF Story
  <2> QED BY <2>2, <2>3
<1>3. LET n == Len(all) + 1
      IN /\ (more[n].kind = "started") = (n % 2 = 1)
         /\ more[n].revision = (IF n = 1 THEN 0 ELSE more[n - 1].revision)
                               + (IF more[n].kind = "completed" THEN 1 ELSE 0)
  BY <1>1 DEF Follows, Reached
<1>4. Story(more)
  BY <1>1, <1>2, <1>3 DEF Story
<1>5. Ends(more, StatusAfter(e.kind), e.revision)
  BY <1>1 DEF Ends, Reached
<1> QED
  BY <1>4, <1>5 DEF more

\* The property that the runs check, in these terms.
LEMMA Restated ==
  ASSUME ReportTypeOK
  PROVE  EventsRetellSnapshot
           <=> Story(log \o owed) /\ Ends(log \o owed, status, revision)
<1> DEFINE all == log \o owed
<1>1. all \in Seq(DaemonEvents)
  BY DEF ReportTypeOK
<1>2. Len(all) \in Nat /\ (all = <<>> <=> Len(all) = 0)
  BY <1>1
<1>3. Len(all) > 0 => all[Len(all)].kind \in EventKinds
  BY <1>1, LastKind
<1>4. EventsRetellSnapshot
        <=> /\ Story(all)
            /\ IF all = <<>>
               THEN status = "starting" /\ revision = 0
               ELSE /\ status = [started |-> "scanning", completed |-> "ready",
                                 failed |-> "error"][all[Len(all)].kind]
                    /\ revision = all[Len(all)].revision
  BY DEF EventsRetellSnapshot, Story
<1>5. \A k \in EventKinds :
        [started |-> "scanning", completed |-> "ready", failed |-> "error"][k]
          = StatusAfter(k)
  BY DEF StatusAfter
<1> HIDE DEF all
<1>6. EventsRetellSnapshot <=> Story(all) /\ Ends(all, status, revision)
  BY <1>2, <1>3, <1>4, <1>5 DEF Ends, Reached
<1> QED
  BY <1>6 DEF all

RetellInv == ReportTypeOK /\ Story(log \o owed)
             /\ Ends(log \o owed, status, revision)

\* What emit has broadcast or owes retells the snapshot, in every state of
\* whatever keeps the promise: starts and outcomes alternate, a completion
\* raises the revision by one, and the last event is the snapshot's state.
THEOREM EventsRetold == ReportSpec => [](ReportTypeOK /\ EventsRetellSnapshot)
<1>1. ReportInit => RetellInv
  <2> SUFFICES ASSUME ReportInit PROVE RetellInv
    OBVIOUS
  <2>1. log \o owed = <<>>
    BY DEF ReportInit
  <2> QED
    BY <2>1 DEF ReportInit, RetellInv, ReportTypeOK, Story, Ends, Reached
<1>2. RetellInv /\ [ReportNext]_reportVars => RetellInv'
  <2> SUFFICES ASSUME RetellInv, [ReportNext]_reportVars PROVE RetellInv'
    OBVIOUS
  <2> DEFINE all == log \o owed
  <2>1. /\ all \in Seq(DaemonEvents) /\ Story(all)
        /\ Ends(all, status, revision)
    BY DEF RetellInv, ReportTypeOK
  <2>2. Len(all) \in Nat
        /\ \A i \in 1 .. Len(all) : (all[i].kind = "started") = (i % 2 = 1)
    BY <2>1 DEF Story
  <2>3. (status = "scanning") = (Len(all) % 2 = 1)
    <3>1. CASE Len(all) = 0
      BY <2>1, <3>1 DEF Ends
    <3>2. CASE Len(all) > 0
      <4>1. all[Len(all)].kind \in EventKinds
        BY <2>1, <3>2, LastKind
      <4>2. (all[Len(all)].kind = "started") = (Len(all) % 2 = 1)
        BY <2>2, <3>2
      <4> QED BY <2>1, <3>2, <4>1, <4>2 DEF Ends, StatusAfter
    <3> QED BY <2>2, <3>1, <3>2
  <2>4. revision = Reached(all) /\ revision \in Nat
    BY <2>1 DEF Ends, RetellInv, ReportTypeOK
  <2>5. ASSUME NEW e \in DaemonEvents, Follows(all, e),
               owed = <<>>, owed' = <<e>>, log' = log,
               status' = StatusAfter(e.kind), revision' = e.revision,
               report' \in Reports \cup {NoReport}
        PROVE  RetellInv'
    <3>1. (log \o owed)' = all \o <<e>>
      BY <2>5 DEF RetellInv, ReportTypeOK
    <3>2. ReportTypeOK'
      BY <2>5 DEF RetellInv, ReportTypeOK, StatusAfter
    <3> QED BY <2>1, <2>5, <3>1, <3>2, Prolong DEF RetellInv
  <2>6. CASE Begin
    <3> DEFINE e == DaemonEvent("started", revision)
    <3>1. e \in DaemonEvents /\ Follows(all, e)
      BY <2>2, <2>3, <2>4, <2>6 DEF Begin, Follows
    <3> QED BY <2>5, <2>6, <3>1 DEF Begin, StatusAfter, RetellInv, ReportTypeOK
  <2>7. CASE Complete
    <3> DEFINE e == DaemonEvent("completed", revision + 1)
    <3>1. e \in DaemonEvents /\ Follows(all, e)
      BY <2>2, <2>3, <2>4, <2>7 DEF Complete, Follows
    <3> QED BY <2>5, <2>7, <3>1 DEF Complete, StatusAfter
  <2>8. CASE Fail
    <3> DEFINE e == DaemonEvent("failed", revision)
    <3>1. e \in DaemonEvents /\ Follows(all, e)
      BY <2>2, <2>3, <2>4, <2>8 DEF Fail, Follows
    <3> QED BY <2>5, <2>8, <3>1 DEF Fail, StatusAfter, RetellInv, ReportTypeOK
  <2>9. CASE Announce
    <3>1. log' = all /\ owed' = <<>>
      BY <2>9 DEF Announce
    <3>2. (log \o owed)' = all
      BY <2>1, <3>1
    <3>3. ReportTypeOK'
      BY <2>1, <2>9, <3>1 DEF Announce, RetellInv, ReportTypeOK
    <3> QED BY <2>1, <2>9, <3>2, <3>3 DEF Announce, RetellInv
  <2>10. CASE UNCHANGED reportVars
    BY <2>10 DEF reportVars, RetellInv, ReportTypeOK
  <2> QED
    BY <2>6, <2>7, <2>8, <2>9, <2>10 DEF ReportNext
<1>3. RetellInv => ReportTypeOK /\ EventsRetellSnapshot
  BY Restated DEF RetellInv
<1> QED
  BY <1>1, <1>2, <1>3, PTL DEF ReportSpec
=============================================================================
