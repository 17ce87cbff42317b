------------------------------ MODULE LiveReport ------------------------------
(***************************************************************************)
(* What the daemon of src/daemon.rs promises its HTTP clients: one scan at *)
(* a time, a report that is replaced only by a completed scan, a revision  *)
(* that names the report, and lifecycle events broadcast after the         *)
(* snapshot that they announce.  DaemonScan implements this specification; *)
(* DaemonGraph and Dashboard are built on it.                              *)
(***************************************************************************)
EXTENDS Naturals, Sequences

CONSTANTS
  Reports,     \* the reports a scan may produce
  NoReport     \* the snapshot's report before the first completed scan

ASSUME NoReportAssumption == NoReport \notin Reports

VARIABLES
  revision,    \* DaemonSnapshot.revision
  status,      \* DaemonSnapshot.status
  report,      \* DaemonSnapshot.report
  owed,        \* events recorded in the snapshot but not broadcast yet
  log          \* every DaemonEvent sent to the broadcast channel, in order

reportVars == <<revision, status, report, owed, log>>

Statuses == {"starting", "scanning", "ready", "error"}

EventKinds == {"started", "completed", "failed"}

DaemonEvents == [kind : EventKinds, revision : Nat]

DaemonEvent(kind, rev) == [kind |-> kind, revision |-> rev]

ReportTypeOK ==
  /\ revision \in Nat
  /\ status \in Statuses
  /\ report \in Reports \cup {NoReport}
  /\ owed \in Seq(DaemonEvents)
  /\ log \in Seq(DaemonEvents)

ReportInit ==
  /\ revision = 0
  /\ status = "starting"
  /\ report = NoReport
  /\ owed = <<>>
  /\ log = <<>>

-------------------------------------------------------------------------------

\* A scan starts: the previous report stays readable under its revision.
Begin ==
  /\ status # "scanning"
  /\ owed = <<>>
  /\ status' = "scanning"
  /\ owed' = <<DaemonEvent("started", revision)>>
  /\ UNCHANGED <<revision, report, log>>

\* A scan succeeds: its report is published under the next revision.
Complete ==
  /\ status = "scanning"
  /\ owed = <<>>
  /\ revision' = revision + 1
  /\ status' = "ready"
  /\ report' \in Reports
  /\ owed' = <<DaemonEvent("completed", revision + 1)>>
  /\ UNCHANGED log

\* A scan fails: the last report and its revision are retained.
Fail ==
  /\ status = "scanning"
  /\ owed = <<>>
  /\ status' = "error"
  /\ owed' = <<DaemonEvent("failed", revision)>>
  /\ UNCHANGED <<revision, report, log>>

\* The recorded transition is broadcast, after the snapshot lock was released.
Announce ==
  /\ owed # <<>>
  /\ log' = log \o owed
  /\ owed' = <<>>
  /\ UNCHANGED <<revision, status, report>>

ReportNext ==
  \/ Begin
  \/ Complete
  \/ Fail
  \/ Announce

ReportSpec == ReportInit /\ [][ReportNext]_reportVars
-------------------------------------------------------------------------------

\* The events, sent or owed, retell the snapshot: they begin with a start,
\* starts alternate with outcomes, only a completion raises the revision, by
\* one, and the last event agrees with the current status and revision.
EventsRetellSnapshot ==
  LET all == log \o owed
      before(i) == IF i = 1 THEN 0 ELSE all[i - 1].revision
      StatusAfter == [started |-> "scanning", completed |-> "ready",
                      failed |-> "error"]
  IN /\ \A i \in 1 .. Len(all) :
          /\ (all[i].kind = "started") = (i % 2 = 1)
          /\ all[i].revision
               = before(i) + (IF all[i].kind = "completed" THEN 1 ELSE 0)
     /\ IF all = <<>>
        THEN status = "starting" /\ revision = 0
        ELSE /\ status = StatusAfter[all[Len(all)].kind]
             /\ revision = all[Len(all)].revision
=============================================================================
