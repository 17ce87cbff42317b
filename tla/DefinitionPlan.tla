----------------------------- MODULE DefinitionPlan -----------------------------
(***************************************************************************)
(* The planner of definitions: src/context/definitions.rs.  Seeds name     *)
(* definitions of captured files; they are admitted first, then what the   *)
(* admitted ones need around them; without seeds every definition is tried *)
(* in turn.  Source that overlaps is paid for once.  What a definition     *)
(* costs is counted for its own span: a span need not cost as much as the  *)
(* spans within it do together.                                            *)
(***************************************************************************)
EXTENDS Naturals, Integers, Sequences, FiniteSets, FiniteSetsExt, SequencesExt

CONSTANTS
  PlanInputs,      \* possible sequences of captured files
  PlanSeeds,       \* possible sequences of seeds
  PlanBudget,      \* token_budget
  PlanFiles,       \* max_files
  PlanDefinitions, \* max_definitions
  PlanDetails      \* omissions that are told one by one: 32

ASSUME PlanAssumption ==
  PlanBudget \in Nat /\ PlanFiles \in Nat /\ PlanDefinitions \in Nat /\ PlanDetails \in Nat

Missing == "none"
Within(p, q) == q[1] <= p[1] /\ p[2] <= q[2]

(***************************************************************************)
(* Captured facts, of which nothing but their types is certain: a span may *)
(* be empty (source that is missing is an empty span) and spans may cross; *)
(* a definition has any number of tokens, or -1 where its cost is unknown; *)
(* a need may name a definition that the file does not have.  Files are    *)
(* listed by their paths, which name a snapshot too.                       *)
(***************************************************************************)
Extent == Nat \X Nat

WellFormed(file) ==
  /\ file.gap \in {Missing, "unsupported", "unavailable", "cost-unavailable"}
  /\ file.definitions \in Seq(Range(file.definitions))
  /\ \A d \in Range(file.definitions) :
       /\ d.span \in Extent /\ d.decl \in Extent /\ d.lines \in Extent
       /\ d.tokens \in Nat \cup {-1} /\ d.needs \in Seq(Nat \ {0})

ASSUME PlanInputsAssumption ==
  \A files \in PlanInputs :
    files \in Seq(Range(files)) /\ \A f \in DOMAIN files : WellFormed(files[f])

ASSUME PlanSeedsAssumption ==
  \A queue \in PlanSeeds :
    queue \in Seq(Range(queue)) /\ \A seed \in Range(queue) : seed.by \in {"file", "symbol", "line"}

VARIABLES
  inputs,      \* files: path, gap, broken, encoding, definitions: name, span (source bytes),
               \* decl (declaration bytes), lines (of the declaration), tokens, needs
  seeds,       \* the seeds that are left
  agenda,      \* admissions that are due: [at, role, needy]
  planPhase,
  candidates,
  selected,    \* sequence of [at, role]
  gaps,        \* environment_gaps: <<definition, need, reason>>
  failures,    \* of candidates: [at, reason, explicit]
  refused,     \* seeds that name nothing: omissions without a candidate
  told,        \* number of omissions that are listed
  untold       \* omitted_details

planVars == <<inputs, seeds, agenda, planPhase, candidates, selected, gaps, failures, refused,
              told, untold>>

Nobody == <<0, 0>>
DefinitionAt(at) == inputs[at[1]].definitions[at[2]]
SelectedSet == {s.at : s \in Range(selected)}

\* unavailable: extraction or cost of the whole file is missing.
Unavailable(f) == inputs[f].gap # Missing

\* The encoding is that of the first file that has one.
PlanEncoding ==
  LET encoded == {f \in DOMAIN inputs : inputs[f].encoding # Missing}
  IN IF encoded = {} THEN Missing ELSE inputs[Min(encoded)].encoding

(***************************************************************************)
(* select: a symbol by its whole name, else by the last part of it; a line *)
(* by those declarations on it that have no other one of them within.      *)
(***************************************************************************)
Named(defs, name) ==
  LET exact == {d \in DOMAIN defs : defs[d].name = name}
  IN IF exact # {} THEN exact ELSE {d \in DOMAIN defs : <<Last(defs[d].name)>> = name}
Around(defs, line) ==
  LET matches == {d \in DOMAIN defs : defs[d].lines[1] <= line /\ line <= defs[d].lines[2]}
  IN {d \in matches : \A e \in matches : Within(defs[e].decl, defs[d].decl)
                                          => defs[e].decl = defs[d].decl}
Select(f, seed) ==
  CASE seed.by = "file" -> DOMAIN inputs[f].definitions
    [] seed.by = "symbol" -> Named(inputs[f].definitions, seed.name)
    [] seed.by = "line" -> Around(inputs[f].definitions, seed.line)

(***************************************************************************)
(* union_cost: the outermost spans only, and none where two of them cross  *)
(* or where equal ones differ in what they cost.                           *)
(***************************************************************************)
BySpan(p, q) ==
  LET s == DefinitionAt(p).span
      t == DefinitionAt(q).span
  IN \/ p[1] < q[1]
     \/ p[1] = q[1] /\ s[1] < t[1]
     \/ p[1] = q[1] /\ s[1] = t[1] /\ s[2] > t[2]
     \/ p[1] = q[1] /\ s = t /\ p[2] < q[2]

NoCost == [total |-> 0, outer |-> {}, error |-> Missing]
PaidFor(cost, at) ==
  [total |-> cost.total + DefinitionAt(at).tokens, outer |-> {at}, error |-> Missing]

\* mutant: every span is paid for
PayEach(cost, at) == PaidFor(cost, at)

Pay(cost, at) ==
  LET new == DefinitionAt(at)
      around == {o \in cost.outer : o[1] = at[1]}
  IN IF cost.error # Missing THEN cost
     ELSE IF \E o \in around : Within(new.span, DefinitionAt(o).span)
     THEN IF \E o \in around : DefinitionAt(o).span = new.span /\ DefinitionAt(o).tokens # new.tokens
          THEN [NoCost EXCEPT !.error = "inconsistent-span-cost"]
          ELSE cost
     ELSE IF \E o \in around : DefinitionAt(o).span[2] > new.span[1]
     THEN [NoCost EXCEPT !.error = "crossing-source-spans"]
     ELSE PaidFor(cost, at)

\* In their order: i - 1 of them go before the i-th.
InOrder(ats) ==
  [i \in 1..Cardinality(ats) |-> CHOOSE p \in ats : Cardinality({q \in ats : BySpan(q, p)}) = i - 1]

UnionCost(ats) ==
  LET sorted == InOrder(ats)
      cost[n \in 0..Cardinality(ats)] == IF n = 0 THEN NoCost ELSE Pay(cost[n - 1], sorted[n])
  IN cost[Cardinality(ats)]

(***************************************************************************)
(* selection: why a candidate cannot be selected, or Missing.              *)
(***************************************************************************)
FilesOf(ats) == {at[1] : at \in ats}

Failure(at) ==
  LET file == inputs[at[1]]
      chosen == SelectedSet
      cost == UnionCost(chosen \cup {at})
  IN IF Unavailable(at[1]) THEN file.gap
     ELSE IF file.encoding # PlanEncoding THEN "encoding-mismatch"
     ELSE IF at[2] \notin DOMAIN file.definitions THEN "invalid-environment"
     ELSE IF DefinitionAt(at).span[1] >= DefinitionAt(at).span[2] THEN "source-unavailable"
     ELSE IF DefinitionAt(at).tokens = -1 THEN "cost-unavailable"
     ELSE IF Len(selected) >= PlanDefinitions THEN "definition-limit"
     ELSE IF at[1] \notin FilesOf(chosen) /\ Cardinality(FilesOf(chosen)) >= PlanFiles
          THEN "file-limit"
     ELSE IF cost.error # Missing THEN cost.error
     ELSE IF cost.total <= PlanBudget THEN Missing
     ELSE IF DefinitionAt(at).tokens > PlanBudget THEN "oversized-definition"
     ELSE "token-budget"

\* admit
Admit(at, role) ==
  /\ candidates' = candidates \cup {at}
  /\ IF at \in SelectedSet
     THEN UNCHANGED <<selected, failures>>
     ELSE IF Failure(at) = Missing
     THEN /\ selected' = Append(selected, [at |-> at, role |-> role])
          /\ failures' = {f \in failures : f.at # at}
     ELSE /\ failures' = failures \cup
               (IF \E f \in failures : f.at = at THEN {}
                ELSE {[at |-> at, reason |-> Failure(at), explicit |-> role = "direct"]})
          /\ UNCHANGED selected

\* push_omission
Told(n) ==
  /\ told' = Min({told + n, PlanDetails})
  /\ untold' = untold + Max({0, told + n - PlanDetails})

PlanStart ==
  /\ candidates = {} /\ selected = <<>> /\ gaps = {} /\ failures = {}
  /\ refused = <<>> /\ told = 0 /\ untold = 0
  /\ agenda = <<>>
  /\ planPhase = IF seeds = <<>> THEN "expand" ELSE "seeds"

PlanInit == inputs \in PlanInputs /\ seeds \in PlanSeeds /\ PlanStart

-------------------------------------------------------------------------------

Ask(ats, role, needy) == [i \in DOMAIN ats |-> [at |-> ats[i], role |-> role, needy |-> needy]]
InFile(f, ds) ==
  [i \in 1..Cardinality(ds) |-> <<f, CHOOSE d \in ds : Cardinality({e \in ds : e < d}) = i - 1>>]

Refuse(reason) ==
  /\ refused' = Append(refused, reason) /\ Told(1)
  /\ UNCHANGED <<agenda, candidates, failures>>

\* Planner::seed
TakeSeed ==
  /\ planPhase = "seeds" /\ agenda = <<>> /\ seeds # <<>>
  /\ seeds' = Tail(seeds)
  /\ LET seed == Head(seeds)
         files == {f \in DOMAIN inputs : inputs[f].path = seed.path}
         f == CHOOSE g \in files : TRUE
         found == Select(f, seed)
     IN IF Cardinality(files) # 1 THEN Refuse("file")
        ELSE IF Unavailable(f) THEN Refuse("unavailable")
        ELSE IF found = {}
        THEN Refuse(IF inputs[f].broken THEN "parse-error" ELSE "unresolved-definition")
        ELSE IF Cardinality(found) > 1 /\ seed.by # "file"
        THEN \* ambiguous: the last failure of a candidate counts
          /\ candidates' = candidates \cup {<<f, d>> : d \in found}
          /\ failures' = {x \in failures : x.at \notin {<<f, d>> : d \in found}} \cup
               {[at |-> <<f, d>>, reason |-> "ambiguous", explicit |-> TRUE] : d \in found}
          /\ UNCHANGED <<agenda, refused, told, untold>>
        ELSE /\ agenda' = Ask(InFile(f, found), "direct", Nobody)
             /\ UNCHANGED <<candidates, failures, refused, told, untold>>
  /\ UNCHANGED <<inputs, planPhase, selected, gaps>>

\* admit, and what environment() notes of a need that is not selected
AdmitNext ==
  /\ agenda # <<>>
  /\ LET next == Head(agenda)
     IN /\ Admit(next.at, next.role)
        /\ agenda' = Tail(agenda)
        /\ gaps' = IF next.needy = Nobody \/ next.at \in {s.at : s \in Range(selected')}
                   THEN gaps
                   ELSE gaps \cup
                          {<<next.needy, next.at, f.reason>> : f \in {x \in failures' : x.at = next.at}}
  /\ UNCHANGED <<inputs, seeds, planPhase, refused, told, untold>>

\* The seeds are through: the needs of all that is selected are due.
Environment ==
  /\ planPhase = "seeds" /\ agenda = <<>> /\ seeds = <<>>
  /\ agenda' = FlattenSeq([i \in DOMAIN selected |->
       LET at == selected[i].at
       IN Ask([n \in DOMAIN DefinitionAt(at).needs |-> <<at[1], DefinitionAt(at).needs[n]>>],
              "environment", at)])
  /\ planPhase' = "environment"
  /\ UNCHANGED <<inputs, seeds, candidates, selected, gaps, failures, refused, told, untold>>

\* plan without seeds
Expand ==
  /\ planPhase = "expand" /\ agenda = <<>>
  /\ agenda' = FlattenSeq([f \in DOMAIN inputs |->
                 Ask(InFile(f, DOMAIN inputs[f].definitions), "expansion", Nobody)])
  /\ LET missing == Cardinality({f \in DOMAIN inputs : Unavailable(f)})
     IN refused' = [i \in 1..missing |-> "unavailable"] /\ Told(missing)
  /\ planPhase' = "environment"
  /\ UNCHANGED <<inputs, seeds, candidates, selected, gaps, failures>>

\* finish: what failed and was not selected after all is told.
Unselected == {f \in failures : f.at \notin SelectedSet}

Finish ==
  /\ planPhase = "environment" /\ agenda = <<>>
  /\ Told(Cardinality(Unselected))
  /\ planPhase' = "done"
  /\ UNCHANGED <<inputs, seeds, agenda, candidates, selected, gaps, failures, refused>>

PlanNext == TakeSeed \/ AdmitNext \/ Environment \/ Expand \/ Finish

PlanSpec == PlanInit /\ [][PlanNext]_planVars

-------------------------------------------------------------------------------

(***************************************************************************)
(* What fits, whatever the order: a definition strictly within another one *)
(* is free; the outermost ones are apart or the same source at one price,  *)
(* and every such piece of source is paid once.                            *)
(***************************************************************************)
Inside(p, q) ==
  /\ p[1] = q[1] /\ Within(DefinitionAt(p).span, DefinitionAt(q).span)
  /\ DefinitionAt(p).span # DefinitionAt(q).span
Outermost(ats) == {p \in ats : \A q \in ats : ~Inside(p, q)}

Disjoint(s, t) == s[2] <= t[1] \/ t[2] <= s[1]
Apart(ats) ==
  \A p, q \in Outermost(ats) :
    \/ p[1] # q[1] \/ Disjoint(DefinitionAt(p).span, DefinitionAt(q).span)
    \/ DefinitionAt(p).span = DefinitionAt(q).span /\ DefinitionAt(p).tokens = DefinitionAt(q).tokens

PieceOf(at) == <<at[1], DefinitionAt(at).span, DefinitionAt(at).tokens>>
PaidPieces(ats) == {PieceOf(at) : at \in Outermost(ats)}
Price(ats) == SumFunction([piece \in PaidPieces(ats) |-> piece[3]])

Fits(ats) ==
  /\ Apart(ats) /\ Price(ats) <= PlanBudget
  /\ Cardinality(ats) <= PlanDefinitions /\ Cardinality(FilesOf(ats)) <= PlanFiles

Limits == {"definition-limit", "file-limit", "crossing-source-spans", "inconsistent-span-cost",
           "oversized-definition", "token-budget"}

Direct == {s.at : s \in {x \in Range(selected) : x.role = "direct"}}
FirstSelected(n) == {selected[i].at : i \in 1..n}

(***************************************************************************)
(* What is selected fits, with source that overlaps paid once; and a seed  *)
(* that could be costed is left out only where it did not fit beside the   *)
(* definitions of the seeds that were selected before it, whatever the     *)
(* environment would have taken.                                           *)
(***************************************************************************)
SeedsBeforeNeeds ==
  /\ Fits(SelectedSet)
  /\ \A f \in failures :
       f.explicit /\ f.at \notin SelectedSet /\ f.reason \in Limits =>
         \E n \in 0..Len(selected) :
           FirstSelected(n) \subseteq Direct /\ ~Fits(FirstSelected(n) \cup {f.at})

(***************************************************************************)
(* Every candidate is selected or told as an omission, one by one or in    *)
(* the counter, and so is every seed and file that names none.             *)
(***************************************************************************)
CandidatesTold ==
  planPhase = "done" =>
    told + untold = Len(refused) + Cardinality(candidates \ SelectedSet)

(***************************************************************************)
(* A need of a seed's definition is selected or named in its gaps.  A gap  *)
(* may name what is selected after all (it costs nothing once a definition *)
(* around it is selected), but only where one of the selected definitions  *)
(* is within another: otherwise what did not fit never fits later.         *)
(***************************************************************************)
NeedsAreMetOrGaps ==
  /\ planPhase = "done" =>
       \A at \in Direct : \A n \in Range(DefinitionAt(at).needs) :
         \/ <<at[1], n>> \in SelectedSet
         \/ \E g \in gaps : g[1] = at /\ g[2] = <<at[1], n>>
  /\ \A g \in gaps :
       /\ g[1] \in SelectedSet
       /\ g[2] \in SelectedSet => \E p, q \in SelectedSet : Inside(p, q)

(***************************************************************************)
(* The plan of definitions::plan keeps its limits, prefers the seeds, and  *)
(* tells what it left out.                                                 *)
(***************************************************************************)
PlanSound ==
  /\ SeedsBeforeNeeds
  /\ CandidatesTold
  /\ NeedsAreMetOrGaps
===============================================================================
