------------------------------- MODULE BriefBudget -------------------------------
(***************************************************************************)
(* The projection of a review brief on a token budget, in                  *)
(* src/query/review_context.rs: a level of detail (rung) for the mandatory *)
(* part, the longest prefix of the optional items that fits, and then      *)
(* single items in turn.  What is shown fits two budgets, of tokens and of *)
(* bytes, and keeps a share for soft evidence.  How long a text a          *)
(* selection makes is any function of it: an item may replace a longer     *)
(* line of the mandatory part, so that a longer prefix may cost less.      *)
(***************************************************************************)
EXTENDS Naturals, Integers, Sequences, FiniteSets, FiniteSetsExt, SequencesExt

CONSTANTS
  Briefs,         \* possible prepared briefs
  Parts(_, _, _), \* render_brief_parts, measured: of a brief, a level and the selected items
  Rungs,          \* BRIEF_RUNGS, the coarsest first: [level, sites]
  ByteBudget,     \* byte_budget
  SoftTokens,     \* BRIEF_SOFT_TOKENS
  GreedyAttempts, \* BRIEF_GREEDY_ATTEMPTS
  Never,          \* the start of a rung or the cost of a selection that is None
  MaxBudget       \* bound of the model: the largest --budget that is asked for

ASSUME BriefAssumption ==
  /\ ByteBudget \in Nat /\ SoftTokens \in Nat /\ GreedyAttempts \in Nat /\ MaxBudget \in Nat /\ Never \notin Int
  /\ Rungs \in Seq([level : Nat, sites : BOOLEAN]) /\ Len(Rungs) > 0 /\ ~Rungs[1].sites

\* classify gives every change with a shown hunk an entry, and brief_hunk the
\* explained hunks the last priority.
ASSUME BriefsAssumption ==
  \A b \in Briefs :
    /\ b.entries \in Seq(Nat) /\ b.mentions \in Nat /\ b.usage \in Seq(SUBSET Nat)
    /\ b.hunks \in Seq([change : Range(b.entries), explained : BOOLEAN])
    /\ \A h, g \in DOMAIN b.hunks : h < g /\ b.hunks[h].explained => b.hunks[g].explained

VARIABLES
  brief,      \* entries, hunks, mentions, usage
  budget,     \* token_budget
  items,      \* BriefProjection.items
  starts,     \* BriefProjection.starts: the budget a rung starts at, or Never
  choice,     \* RungChoice, NoChoice if not even the coarsest rung fits
  selection,  \* ReviewBriefSelection: admitted items
  later,      \* items that are still tried one by one
  attempts,
  smaller,    \* what the budget that is one smaller showed: [rung, shown]
  briefPhase

projectionVars == <<items, starts>>
briefVars ==
  <<brief, budget, projectionVars, choice, selection, later, attempts, smaller, briefPhase>>

\* BriefProjection with its report
Projection == [brief |-> brief, items |-> items, starts |-> starts]

Item(kind, of) == [kind |-> kind, of |-> of]
Each(kind, ofs) == [i \in DOMAIN ofs |-> Item(kind, ofs[i])]
ExplainedSites == Item("explained", 0)

(***************************************************************************)
(* brief_items: entries, then hunks (in the order of their priority), each *)
(* change's details after its first hunk, then what only illustrates.      *)
(***************************************************************************)
HunkItems(b, h) ==
  LET change == b.hunks[h].change
      first == \A g \in 1..h - 1 : b.hunks[g].change # change
  IN <<Item("hunk", h)>> \o IF first THEN <<Item("details", change)>> ELSE <<>>

Detailed(b) == {h.change : h \in Range(b.hunks)}

BriefItems(b) ==
  <<Item("sites", 0)>> \o Each("entry", b.entries)
    \o FlattenSeq([h \in DOMAIN b.hunks |-> HunkItems(b, h)])
    \o <<Item("examples", 0)>>
    \o FlattenSeq([i \in DOMAIN b.entries |->
                     IF b.entries[i] \in Detailed(b) THEN <<>>
                     ELSE <<Item("details", b.entries[i])>>])
    \o Each("importers", b.entries)
    \o [m \in 1..b.mentions |-> Item("mention", m)]
    \o [u \in DOMAIN b.usage |-> Item("usage", u)]

Prefix(p, n) == {p.items[i] : i \in 1..n}
RungBase(r) == IF Rungs[r].sites THEN {ExplainedSites} ELSE {}

(***************************************************************************)
(* What a text measures: its bytes, its tokens, and those of its soft      *)
(* evidence and of its diff.  Nothing else is known of it, but that only   *)
(* items of some kinds add soft evidence.                                  *)
(***************************************************************************)
Measures == [bytes : Nat, tokens : Nat, soft : Nat, diff : Nat]
SoftKinds == {"importers", "mention", "usage"}

Selectable(b) == Range(BriefItems(b)) \cup {ExplainedSites}

ASSUME PartsAssumption ==
  \A b \in Briefs : \A level \in {Rungs[r].level : r \in DOMAIN Rungs} :
    \A sel \in SUBSET Selectable(b) :
      LET text == Parts(b, level, sel)
      IN text \in Measures /\ (text.soft = 0 \/ \E i \in sel : i.kind \in SoftKinds)

Rendered(p, r, sel) == Parts(p.brief, Rungs[r].level, sel)

\* The bytes and the share of soft evidence, which no budget of tokens widens.
RuledOut(text) == text.bytes > ByteBudget \/ text.soft > Max({SoftTokens, text.diff \div 2})

\* brief_cost, brief_fits
BriefCost(p, r, sel) ==
  LET text == Rendered(p, r, sel) IN IF RuledOut(text) THEN Never ELSE text.tokens
BriefFits(p, r, sel, b) ==
  LET text == Rendered(p, r, sel) IN ~RuledOut(text) /\ text.tokens <= b

(***************************************************************************)
(* rung_starts                                                             *)
(***************************************************************************)
PositionsOf(p, kind) == {i \in DOMAIN p.items : p.items[i].kind = kind}
ToFirst(p) ==
  IF PositionsOf(p, "hunk") # {} THEN Min(PositionsOf(p, "hunk"))
  ELSE IF PositionsOf(p, "entry") # {} THEN Min(PositionsOf(p, "entry")) ELSE 0
ExplainedAt(p) == {i \in PositionsOf(p, "hunk") : p.brief.hunks[p.items[i].of].explained}

RungStart(p, r) ==
  LET At(n) ==
        LET empty == BriefCost(p, r, RungBase(r))
            anchored == BriefCost(p, r, RungBase(r) \cup Prefix(p, n))
        IN IF Never \in {empty, anchored} THEN Never ELSE Max({empty, anchored})
  IN IF r = 1 THEN At(0)
     ELSE IF ~Rungs[r].sites THEN At(ToFirst(p))
     ELSE IF ExplainedAt(p) = {} THEN Never ELSE At(Min(ExplainedAt(p)) - 1)

(***************************************************************************)
(* longest_prefix: a binary search, though a longer prefix may cost less.  *)
(* It ends within as many rounds as there are items.                       *)
(***************************************************************************)
Narrowed(p, r, b, s) ==
  LET middle == s.low + (s.high - s.low + 1) \div 2
  IN IF s.low >= s.high THEN s
     ELSE IF BriefFits(p, r, RungBase(r) \cup Prefix(p, middle), b)
     THEN [s EXCEPT !.low = middle] ELSE [s EXCEPT !.high = middle - 1]

LongestPrefix(p, r, b) ==
  LET search[k \in 0..Len(p.items)] ==
        IF k = 0 THEN [low |-> 0, high |-> Len(p.items)] ELSE Narrowed(p, r, b, search[k - 1])
  IN search[Len(p.items)].low

Evidence(sel) == {i \in sel : i.kind \in {"entry", "hunk"}}

NoChoice == [rung |-> 0, budget |-> 0, admitted |-> 0]

\* mutant: a finer rung is used from its start on, whatever the coarser one shows
FinerAlways(fine, kept) == fine

FinerIfMore(fine, kept) == IF kept # NoChoice /\ fine.admitted < kept.admitted THEN kept ELSE fine

(***************************************************************************)
(* rung_choice: what the coarser rungs choose just below the start of a    *)
(* rung is kept until this one admits as much.                             *)
(***************************************************************************)
ChoiceAt(p, r, b, coarser) ==
  LET start == p.starts[r]
      reached == start # Never /\ start <= b
      kept == IF ~reached THEN coarser[b] ELSE IF start > 0 THEN coarser[start - 1] ELSE NoChoice
      fine == [rung |-> r, budget |-> b,
               admitted |-> Cardinality(Evidence(Prefix(p, LongestPrefix(p, r, b))))]
  IN IF reached /\ BriefFits(p, r, RungBase(r), b) THEN FinerIfMore(fine, kept) ELSE kept

RungChoice(p, r, b) ==
  LET choices[s \in 0..Len(Rungs)] ==
        [c \in 0..MaxBudget |->
           IF s = 0 THEN NoChoice ELSE ChoiceAt(p, s, c, choices[s - 1])]
  IN choices[r][b]

-------------------------------------------------------------------------------

BriefInit ==
  /\ brief \in Briefs /\ budget = 0
  /\ choice = NoChoice /\ selection = {} /\ later = <<>> /\ attempts = 0
  /\ smaller = [rung |-> 0, shown |-> {}]
  /\ items = <<>> /\ starts = <<>>
  /\ briefPhase = "list"

\* project_brief: brief_items
ListItems ==
  /\ briefPhase = "list" /\ items' = BriefItems(brief)
  /\ briefPhase' = "rungs"
  /\ UNCHANGED <<brief, budget, starts, choice, selection, later, attempts, smaller>>

\* project_brief: rung_starts
StartRungs ==
  /\ briefPhase = "rungs" /\ starts' = [r \in DOMAIN Rungs |-> RungStart(Projection, r)]
  /\ briefPhase' = "choose"
  /\ UNCHANGED <<brief, budget, items, choice, selection, later, attempts, smaller>>

\* project_brief: rung_choice and longest_prefix
Choose ==
  /\ briefPhase = "choose"
  /\ LET chosen == RungChoice(Projection, Len(Rungs), budget)
         low == LongestPrefix(Projection, chosen.rung, chosen.budget)
     IN /\ choice' = chosen
        /\ IF chosen = NoChoice
           THEN selection' = {} /\ later' = <<>> /\ briefPhase' = "refused"
           ELSE /\ selection' = RungBase(chosen.rung) \cup Prefix(Projection, low)
                /\ later' = SubSeq(items, low + 2, Len(items))
                /\ briefPhase' = "greedy"
  /\ attempts' = 0
  /\ UNCHANGED <<brief, budget, projectionVars, smaller>>

\* item_entry: the change whose entry an item belongs to
EntryOf(b, i) ==
  CASE i.kind \in {"details", "importers"} -> {i.of}
    [] i.kind = "hunk" -> {b.hunks[i.of].change}
    [] i.kind = "usage" -> b.usage[i.of]
    [] OTHER -> {}

Passed(i) ==
  \/ i.kind \in {"entry", "hunk"}
  \/ \E c \in EntryOf(brief, i) : Item("entry", c) \notin selection
  \/ i.kind = "usage" /\ EntryOf(brief, i) = {}

\* admit_greedily: one item
AdmitLater ==
  /\ briefPhase = "greedy" /\ later # <<>> /\ attempts < GreedyAttempts
  /\ later' = Tail(later)
  /\ LET i == Head(later)
     IN /\ attempts' = IF Passed(i) THEN attempts ELSE attempts + 1
        /\ selection' = IF /\ ~Passed(i)
                           /\ BriefFits(Projection, choice.rung, selection \cup {i}, choice.budget)
                        THEN selection \cup {i} ELSE selection
  /\ UNCHANGED <<brief, budget, projectionVars, choice, smaller, briefPhase>>

EndGreedy ==
  /\ briefPhase = "greedy" /\ (later = <<>> \/ attempts = GreedyAttempts)
  /\ briefPhase' = "shown"
  /\ UNCHANGED <<brief, budget, projectionVars, choice, selection, later, attempts, smaller>>

\* The same brief is asked for with a budget that is one larger.
Widen ==
  /\ briefPhase \in {"shown", "refused"} /\ budget < MaxBudget
  /\ budget' = budget + 1
  /\ smaller' = [rung |-> choice.rung, shown |-> Evidence(selection)]
  /\ briefPhase' = "list"
  /\ UNCHANGED <<brief, projectionVars, choice, selection, later, attempts>>

BriefNext == ListItems \/ StartRungs \/ Choose \/ AdmitLater \/ EndGreedy \/ Widen

BriefSpec == BriefInit /\ [][BriefNext]_briefVars

-------------------------------------------------------------------------------

(***************************************************************************)
(* A larger budget never drops a change entry or a hunk that a smaller one *)
(* showed, and never goes back to a coarser rung.                          *)
(***************************************************************************)
LargerShowsMore ==
  briefPhase \in {"shown", "refused"} =>
    smaller.rung <= choice.rung /\ smaller.shown \subseteq Evidence(selection)

(***************************************************************************)
(* What is shown fits both budgets, the one of tokens that was asked for   *)
(* and the one of bytes, and keeps the share of soft evidence; a brief is  *)
(* refused only when its coarsest mandatory part does not fit.             *)
(***************************************************************************)
ShownFits ==
  /\ briefPhase \in {"greedy", "shown"} =>
       LET text == Rendered(Projection, choice.rung, selection)
       IN /\ text.bytes <= ByteBudget /\ text.tokens <= budget
          /\ text.soft <= Max({SoftTokens, text.diff \div 2})
  /\ briefPhase = "refused" => ~BriefFits(Projection, 1, RungBase(1), budget)

(***************************************************************************)
(* Nothing is shown of a change without its entry, but hunks in the prefix *)
(* and what stands before it: the items tried later never bring one in.    *)
(***************************************************************************)
ShownWithEntry ==
  briefPhase \in {"greedy", "shown"} =>
    \A i \in selection : \A c \in EntryOf(brief, i) :
      Item("entry", c) \in selection \/ (i.kind = "usage" /\ c \notin Range(brief.entries))

(***************************************************************************)
(* The sites of explained hunks are listed only once every other hunk is   *)
(* shown, as long as a longer prefix never makes a shorter text, in tokens *)
(* or in bytes.                                                            *)
(***************************************************************************)
Longer(r, m, n) ==
  LET Text(k) == Rendered(Projection, r, RungBase(r) \cup Prefix(Projection, k))
  IN Text(m).tokens <= Text(n).tokens /\ Text(m).bytes <= Text(n).bytes

SitesAfterHunks ==
  /\ ExplainedSites \in selection
  /\ \A n \in 0..Len(items) : \A m \in 0..n : Longer(choice.rung, m, n)
  =>
    \A h \in DOMAIN brief.hunks : brief.hunks[h].explained \/ Item("hunk", h) \in selection

(***************************************************************************)
(* The brief on every budget: monotone, within it, and never half told.    *)
(***************************************************************************)
BriefSound ==
  /\ LargerShowsMore
  /\ ShownFits
  /\ ShownWithEntry
  /\ SitesAfterHunks
==================================================================================
