--------------------------------- MODULE MCScan ---------------------------------
(***************************************************************************)
(* The daemon's scans, the stream of commit deltas that a scan reads from  *)
(* git, and the plans that are made from what it found, one at a time: the *)
(* stream's deadline is the scan's, what the scan sees of the stream is    *)
(* whether history is partial, and a plan starts from a finished scan.     *)
(***************************************************************************)
EXTENDS MCDaemonScan, GitStream, DefinitionPlan, WorkScope

VARIABLE subject

\* Commits with one delta, with two, and with more than max_deltas_per_commit.
MCRequests == {<<1, 2, 1>>, <<3, 1>>, <<2, 2, 1>>}

\* DefinitionPlan: a class with two methods beside a test, where the class costs
\* less than its methods do together; two methods that share a line, beside a
\* function that is larger than the budget; a third file for the limit of files.
\* The first file may have no extraction, another encoding, a method without a
\* cost, methods that cross or that are one source at two prices, one without
\* source beside a need that is not there, or errors.
Def(name, span, lines, tokens, needs) ==
  [name |-> name, span |-> span, decl |-> span, lines |-> lines, tokens |-> tokens, needs |-> needs]
Captured(path, defs) ==
  [path |-> path, gap |-> Missing, broken |-> FALSE, encoding |-> "utf8", definitions |-> defs]
Class ==
  <<Def(<<"C">>, <<1, 7>>, <<1, 5>>, 5, <<>>), Def(<<"C", "m">>, <<2, 4>>, <<2, 3>>, 3, <<1, 3>>),
    Def(<<"C", "n">>, <<5, 6>>, <<4, 4>>, 4, <<4>>), Def(<<"t">>, <<8, 10>>, <<7, 8>>, 2, <<3, 1>>)>>
Twice ==
  <<Def(<<"A", "m">>, <<1, 3>>, <<1, 1>>, 3, <<3>>), Def(<<"B", "m">>, <<3, 6>>, <<1, 2>>, 2, <<>>),
    Def(<<"t">>, <<6, 9>>, <<3, 3>>, 9, <<>>)>>
MCPlanInputs ==
  {<<a, Captured("b", Twice), Captured("c", <<Def(<<"u">>, <<0, 1>>, <<1, 1>>, 1, <<>>)>>)>> :
     a \in {[Captured("a", Class) EXCEPT !.gap = "unsupported"],
            [Captured("a", Class) EXCEPT !.encoding = Missing],
            [Captured("a", <<>>) EXCEPT !.broken = TRUE]} \cup
           {Captured("a", defs) : defs \in
              {Class, [Class EXCEPT ![3].tokens = -1], [Class EXCEPT ![3].span = <<3, 6>>],
               [Class EXCEPT ![3].span = <<2, 4>>],
               [Class EXCEPT ![3].span = <<5, 5>>, ![2].needs = <<1, 9>>]}}}
Seed(by, path, name, line) == [by |-> by, path |-> path, name |-> name, line |-> line]
SeedSet ==
  {Seed("file", "b", <<>>, 0), Seed("file", "c", <<>>, 0), Seed("file", "d", <<>>, 0),
   Seed("symbol", "b", <<"m">>, 0), Seed("symbol", "a", <<"C">>, 0),
   Seed("symbol", "a", <<"C", "n">>, 0), Seed("symbol", "b", <<"B", "m">>, 0),
   Seed("line", "a", <<>>, 3), Seed("line", "a", <<>>, 7), Seed("line", "b", <<>>, 1)}
MCPlanSeeds == UNION {[1..n -> SeedSet] : n \in 0..3}

\* ContextPlan and WorkScope: four files, of which one is larger than the whole
\* budget, one a test and one no code, a fifth that was deleted, and a focus on
\* a sixth that does not exist.
Declared(e, f, b) == [exported |-> e, finding |-> f, bytes |-> b]
Facts(tokens, code, support, signal, tests, outline) ==
  [tokens |-> tokens, hint |-> FALSE, code |-> code, support |-> support, signal |-> signal,
   risky |-> FALSE, tests |-> tests, outline |-> outline]
MCFiles ==
  <<Facts(3, TRUE, 0, 18, {},
          <<Declared(FALSE, FALSE, 2), Declared(TRUE, FALSE, 2), Declared(FALSE, TRUE, 1)>>),
    [Facts(9, TRUE, 0, 0, {}, <<Declared(TRUE, FALSE, 2), Declared(TRUE, FALSE, 1)>>)
       EXCEPT !.hint = TRUE],
    [Facts(2, TRUE, 0, 36, {5}, <<Declared(FALSE, FALSE, 1), Declared(FALSE, FALSE, 1)>>)
       EXCEPT !.risky = TRUE],
    Facts(2, FALSE, 350, 0, {}, <<>>)>>
MCDirectories == <<"a", "b", "a", "b", "b">>
Pairs == {<<1, 2>>, <<2, 3>>, <<3, 1>>, <<4, 3>>, <<1, 4>>, <<3, 4>>}
Diagnosis(severity, n) == [severity |-> severity, count |-> n]
MCRepositories ==
  {[files |-> MCFiles, dir |-> MCDirectories, imports |-> i, focus |-> f, changed |-> c,
    diagnosed |-> d, diff |-> c # {}, unmatched |-> IF f = {} THEN {} ELSE {6},
    task |-> d # <<>>] :
     i \in SUBSET Pairs, f \in {{}, {1}, {2, 3}}, c \in {{}, {2, 5}},
     d \in {<<>>, [p \in {3} |-> Diagnosis("error", 4)],
            [p \in {2, 4} |-> Diagnosis(IF p = 2 THEN "note" ELSE "warning", 1)]}}

\* The state of a stream that has ended: nothing of it is enabled.
StreamUnused ==
  /\ deltas = <<1, 2, 1>>
  /\ expired = TRUE
  /\ writer = Len(deltas) + 2
  /\ stdin = <<>> /\ stdout = <<>>
  /\ child = "killed" /\ pending = <<>>
  /\ watchdog = "fired" /\ main = "returned"
  /\ events = <<>> /\ kept = NoCommit /\ partial = TRUE
  /\ reaped = TRUE /\ result = "partial" /\ strayKill = FALSE

\* A daemon that could not watch: it is over before the first scan.
DaemonUnused ==
  /\ serve = "exited" /\ failure = "watch" /\ signalled = FALSE
  /\ tree = [f \in Inputs |-> 0] /\ cfgValid = TRUE
  /\ edits = 0 /\ noise = 0
  /\ notices = <<>> /\ lost = FALSE
  /\ trigger = 0 /\ loop = "off" /\ toRead = {} /\ draft = tree
  /\ Live!ReportInit
  /\ caller = [c \in Callers |-> "none"] /\ cooling = FALSE /\ asked = tree

DefinitionsUnused == inputs = (CHOOSE i \in PlanInputs : TRUE) /\ seeds = <<>> /\ PlanStart
ScopeUnused == repo = (CHOOSE r \in Repositories : TRUE) /\ ContextStart /\ ScopeStart

MCScanInit ==
  \/ subject = "daemon" /\ StreamUnused /\ DefinitionsUnused /\ ScopeUnused /\ Init
  \/ subject = "git stream" /\ DaemonUnused /\ DefinitionsUnused /\ ScopeUnused /\ StreamInit
  \/ subject = "definitions" /\ DaemonUnused /\ StreamUnused /\ ScopeUnused /\ PlanInit
  \/ subject = "work scope" /\ DaemonUnused /\ StreamUnused /\ DefinitionsUnused /\ ScopeInit

scopedVars == <<contextVars, scopeVars>>

MCScanNext ==
  /\ UNCHANGED subject
  /\ \/ subject = "daemon" /\ Next /\ UNCHANGED <<streamVars, planVars, scopedVars>>
     \/ subject = "git stream" /\ StreamNext /\ UNCHANGED <<vars, planVars, scopedVars>>
     \/ subject = "definitions" /\ PlanNext /\ UNCHANGED <<vars, streamVars, scopedVars>>
     \/ subject = "work scope" /\ ScopeNext /\ UNCHANGED <<vars, streamVars, planVars>>

MCScanSpec ==
  /\ MCScanInit
  /\ [][MCScanNext]_<<subject, vars, streamVars, planVars, scopedVars>>
  /\ Fairness /\ StreamFairness
=================================================================================
