---------------------------------- MODULE Moves ----------------------------------
(***************************************************************************)
(* What a review brief hides as moved: src/query/review_context/brief/     *)
(* moves.rs.  Removed lines are paired with added lines of other hunks,    *)
(* and the pairs are kept inside declarations that moved as a whole and    *)
(* keep the names they use.  A line is its key, which are its tokens after *)
(* renames, their number, its indentation, and its spacing: the white      *)
(* space between and behind the tokens, which no key tells.  A removed     *)
(* line may have been renamed, by renames that are proven pure or not.     *)
(***************************************************************************)
EXTENDS Naturals, Sequences, FiniteSets, FiniteSetsExt, SequencesExt

CONSTANTS
  Diffs,           \* possible diffs, in sets of their own
  MinRun,          \* MIN_RUN
  MinUniqueTokens, \* MIN_UNIQUE_TOKENS
  MatchedLines     \* MAX_MATCHED_LINES

ASSUME MovesAssumption == {MinRun, MinUniqueTokens, MatchedLines} \subseteq Nat

VARIABLES
  diff,      \* hunks and, for each change, both sides: lines, spans, tops, test
  nextHunk,
  changes,   \* entries: changed lines that are not unchanged in place
  fate,      \* of every changed line <<hunk, line>>
  partner,   \* of every entry, Alone if it has none
  sought,    \* entries that are still to be paired
  acceptedPairs,  \* pairs of declarations of base and head
  folding,   \* those to be checked yet
  folded,    \* those that are kept
  extra,     \* pairs of lines that the kept declarations add
  movesPhase

movesVars == <<diff, nextHunk, changes, fate, partner, sought, acceptedPairs, folding, folded,
               extra, movesPhase>>

Alone == 0

\* The line that a hunk shows at a position; base lines are on side 1.
SideOf(tag) == IF tag = "-" THEN 1 ELSE 2
SideText(change, side) == diff.sides[change][side].text
Shown(h, i) ==
  LET line == diff.hunks[h].lines[i]
  IN SideText(diff.hunks[h].change, SideOf(line.tag))[line.number]

Blank(line) == line.tokens = 0
Qualifies(line) == line.tokens >= 2

\* Entry.rewritten of a removed line, and the text of an added one.
Bytes(line) == <<line.key, line.indent, line.spacing>>

\* Entry.key: where indentation means something it is part of the key.
LineKey(h, line) ==
  IF diff.hunks[h].sensitive THEN <<line.indent, line.key>> ELSE <<0, line.key>>

ChangedAt(h) == {i \in DOMAIN diff.hunks[h].lines : diff.hunks[h].lines[i].tag # " "}
Matched == {h \in DOMAIN diff.hunks : ~diff.hunks[h].skip}

(***************************************************************************)
(* hunks::blocks: removed lines and the added lines right behind them.     *)
(***************************************************************************)
Counterparts(h) ==
  LET lines == diff.hunks[h].lines
      Run(a, b, tag) == a <= b /\ \A i \in a..b : lines[i].tag = tag
      Block(a, b, c) == /\ Run(a, b, "-") /\ Run(b + 1, c, "+")
                        /\ a = 1 \/ lines[a - 1].tag # "-"
                        /\ c = Len(lines) \/ lines[c + 1].tag # "+"
      blocks == {t \in (DOMAIN lines) \X (DOMAIN lines) \X (DOMAIN lines) : Block(t[1], t[2], t[3])}
  IN UNION {{<<t[1] + n, t[2] + 1 + n>> : n \in 0..Min({t[2] - t[1], t[3] - t[2] - 1})} :
              t \in blocks}

InPlace(h) ==
  {p \in Counterparts(h) :
     LET left == Shown(h, p[1])
         right == Shown(h, p[2])
     IN Bytes(left) = Bytes(right) /\ left.rename # "impure"}

\* collect: the next hunk
CollectHunk ==
  /\ movesPhase = "collect" /\ nextHunk <= Len(diff.hunks)
  /\ nextHunk' = nextHunk + 1
  /\ IF nextHunk \notin Matched THEN UNCHANGED <<changes, fate>>
     ELSE LET unchanged == {p[1] : p \in InPlace(nextHunk)} \cup {p[2] : p \in InPlace(nextHunk)}
              left == SelectSeq([i \in DOMAIN diff.hunks[nextHunk].lines |-> i],
                                LAMBDA i : i \in ChangedAt(nextHunk) \ unchanged)
          IN /\ fate' = [at \in DOMAIN fate |->
                           IF at[1] = nextHunk /\ at[2] \in unchanged THEN "unchanged" ELSE fate[at]]
             /\ changes' = changes \o
                  [n \in DOMAIN left |->
                     LET line == diff.hunks[nextHunk].lines[left[n]]
                     IN [hunk |-> nextHunk, line |-> left[n], number |-> line.number,
                         removed |-> line.tag = "-", change |-> diff.hunks[nextHunk].change,
                         of |-> Shown(nextHunk, left[n])]]
  /\ UNCHANGED <<diff, partner, sought, acceptedPairs, folding, folded, extra, movesPhase>>

-------------------------------------------------------------------------------
(* eligible, pair and consistent_shifts *)

KeyOf(e) == LineKey(changes[e].hunk, changes[e].of)
Opposite(e, others) == {o \in others : KeyOf(o) = KeyOf(e) /\ changes[o].removed # changes[e].removed}
Qualifying == {e \in DOMAIN changes : Qualifies(changes[e].of)}
Recurs(e) == \E o \in Opposite(e, Qualifying) : changes[o].hunk # changes[e].hunk
UniqueOn(e) ==
  /\ changes[e].of.tokens >= MinUniqueTokens
  /\ \A o \in Qualifying : KeyOf(o) = KeyOf(e) /\ changes[o].removed = changes[e].removed => o = e
  /\ Cardinality(Opposite(e, Qualifying)) = 1

Contiguous(e) ==
  /\ changes[e - 1].hunk = changes[e].hunk /\ changes[e - 1].removed = changes[e].removed
  /\ changes[e - 1].line + 1 = changes[e].line

\* One block side from a to b, whose recurring lines are one run: no two other
\* qualifying lines in a row interrupt it.
OneRun(a, b) ==
  LET others == {e \in a..b : e \in Qualifying /\ ~Recurs(e)}
      gap(e) == \E f \in others : f < e /\ \A g \in f + 1..e - 1 : g \notin Qualifying
  IN /\ \A e \in a + 1..b : Contiguous(e)
     /\ \A e \in others : ~gap(e)
Eligible ==
  LET recurring == {e \in Qualifying : Recurs(e)}
      InRun(e) == \E a \in 1..e, b \in e..Len(changes) :
                    /\ a \in recurring /\ b \in recurring /\ OneRun(a, b)
                    /\ Cardinality(recurring \cap (a..b)) >= MinRun
  IN {e \in recurring : UniqueOn(e) \/ InRun(e)}

StartPairs ==
  /\ movesPhase = "collect" /\ nextHunk > Len(diff.hunks)
  /\ partner' = [e \in DOMAIN changes |-> Alone]
  /\ LET eligible == Eligible
     IN sought' = SelectSeq([e \in DOMAIN changes |-> e],
                            LAMBDA e : e \in eligible /\ changes[e].removed)
  /\ movesPhase' = "pair"
  /\ UNCHANGED <<diff, nextHunk, changes, fate, acceptedPairs, folding, folded, extra>>

\* pair: the earliest line of the lowest other hunk
PairNext ==
  /\ movesPhase = "pair" /\ sought # <<>>
  /\ sought' = Tail(sought)
  /\ LET left == Head(sought)
         free == {e \in Opposite(left, Eligible) :
                    partner[e] = Alone /\ changes[e].hunk # changes[left].hunk}
     IN partner' = IF free = {} THEN partner
                   ELSE [partner EXCEPT ![left] = Min(free), ![Min(free)] = left]
  /\ UNCHANGED <<diff, nextHunk, changes, fate, acceptedPairs, folding, folded, extra, movesPhase>>

Pairs == {e \in DOMAIN changes : changes[e].removed /\ partner[e] # Alone}
Shift(e) == <<changes[e].of.indent, changes[partner[e]].of.indent>>
SameShift(e, f) == Shift(e)[2] + Shift(f)[1] = Shift(f)[2] + Shift(e)[1]

\* changed_declarations: spans with a paired line and only changed lines
WholeIfAnyChanged(change, side, span, members) == members # {}
Whole(change, side, span, members) ==
  members # {} /\ \A n \in span[1]..span[2] :
    Blank(SideText(change, side)[n]) \/ \E e \in members : changes[e].number = n

Declarations(side) ==
  LET Members(change, span) ==
        {e \in DOMAIN changes :
           /\ changes[e].change = change /\ changes[e].removed = (side = 1)
           /\ changes[e].number \in span[1]..span[2] /\ ~Blank(changes[e].of)}
      Paired(change, span) ==
        \E e \in DOMAIN changes :
           /\ changes[e].change = change /\ changes[e].removed = (side = 1)
           /\ changes[e].number \in span[1]..span[2] /\ partner[e] # Alone
  IN {[change |-> change,
       lines |-> SetToSortSeq(Members(change, span),
                              LAMBDA e, f : changes[e].number < changes[f].number)] :
        <<change, span>> \in
          {<<c, s>> \in UNION {{c} \X Range(diff.sides[c][side].spans) : c \in DOMAIN diff.sides} :
             Paired(c, s) /\ Whole(c, side, s, Members(c, s))}}

ConsistentShifts ==
  /\ movesPhase = "pair" /\ sought = <<>>
  /\ LET Between(e, f) == /\ changes[e].hunk = changes[f].hunk
                          /\ changes[partner[e]].hunk = changes[partner[f]].hunk
         shifted == {e \in Pairs : \E f \in Pairs : Between(e, f) /\ ~SameShift(e, f)}
     IN partner' = [e \in DOMAIN changes |->
                      IF e \in shifted \/ partner[e] \in shifted THEN Alone ELSE partner[e]]
  /\ movesPhase' = "accept"
  /\ UNCHANGED <<diff, nextHunk, changes, fate, sought, acceptedPairs, folding, folded, extra>>

-------------------------------------------------------------------------------
(* declarations *)

\* The tokens and the indentation are compared, the spacing is not.
SameLine(left, right) ==
  /\ changes[left].of.indent = changes[right].of.indent
  /\ \/ partner[left] = right
     \/ partner[left] = Alone /\ partner[right] = Alone /\ KeyOf(left) = KeyOf(right)
  /\ changes[left].of.rename # "impure"

\* A declaration of the head that has, at the same place, the partner of the
\* first line that has one.
Counterpart(source, destination) ==
  LET first == Min({n \in DOMAIN source.lines : partner[source.lines[n]] # Alone})
  IN /\ Len(destination.lines) = Len(source.lines)
     /\ destination.lines[first] = partner[source.lines[first]]
     /\ diff.sides[source.change][1].test = diff.sides[destination.change][2].test
     /\ \A n \in DOMAIN source.lines : SameLine(source.lines[n], destination.lines[n])

Accept ==
  /\ movesPhase = "accept"
  /\ LET sources == {s \in Declarations(1) : \E e \in Range(s.lines) : partner[e] # Alone}
     IN acceptedPairs' = {p \in sources \X Declarations(2) : Counterpart(p[1], p[2])}
  /\ folding' = acceptedPairs'
  /\ movesPhase' = "fold"
  /\ UNCHANGED <<diff, nextHunk, changes, fate, partner, sought, folded, extra>>

NumbersOf(declaration) == [n \in DOMAIN declaration.lines |-> changes[declaration.lines[n]].number]
RangeOf(declaration) == <<Min(Range(NumbersOf(declaration))), Max(Range(NumbersOf(declaration)))>>
RangesIn(change, pairs) == {RangeOf(p[2]) : p \in {q \in pairs : q[2].change = change}}

\* keeps_bindings of lexicon.rs: the containers are the same, and what the target
\* declares outside of the ranges, imports aside, under a name that is used is
\* also a statement of the source, byte for byte.
SameStatement(source, s, target, t) ==
  LET from == SideText(source, 1)
      to == SideText(target, 2)
  IN /\ s.span[2] - s.span[1] = t.span[2] - t.span[1]
     /\ \A n \in 0..s.span[2] - s.span[1] :
          /\ from[s.span[1] + n].rename = "none"
          /\ Bytes(from[s.span[1] + n]) = Bytes(to[t.span[1] + n])

KeepsNames(source, destination, ranges) ==
  \A t \in diff.sides[destination.change][2].tops :
    \/ \E r \in ranges : t.span[1] <= r[2] /\ r[1] <= t.span[2]
    \/ t.name \notin UNION {changes[e].of.names : e \in Range(destination.lines)}
    \/ \E s \in diff.sides[source.change][1].tops :
         SameStatement(source.change, s, destination.change, t)

KeepsBindings(source, destination) ==
  /\ changes[source.lines[1]].of.within = changes[destination.lines[1]].of.within
  /\ KeepsNames(source, destination, RangesIn(destination.change, acceptedPairs))

\* The accepted pairs in any order
FoldNext ==
  /\ movesPhase = "fold"
  /\ \E pair \in folding :
       /\ folding' = folding \ {pair}
       /\ IF KeepsBindings(pair[1], pair[2])
          THEN LET lines == {<<pair[1].lines[n], pair[2].lines[n]>> : n \in DOMAIN pair[1].lines}
               IN /\ folded' = folded \cup {pair}
                  /\ extra' = extra \o SetToSeq({p \in lines : partner[p[1]] = Alone})
          ELSE UNCHANGED <<folded, extra>>
  /\ UNCHANGED <<diff, nextHunk, changes, fate, partner, sought, acceptedPairs, movesPhase>>

-------------------------------------------------------------------------------

\* Pairs outside of the folded declarations go, and the extra ones come.
Settled ==
  LET kept == UNION {Range(p[1].lines) \cup Range(p[2].lines) : p \in folded}
      inside == [e \in DOMAIN changes |-> IF e \in kept THEN partner[e] ELSE Alone]
  IN FoldLeft(LAMBDA of, p : IF of[p[1]] = Alone /\ of[p[2]] = Alone
                             THEN [of EXCEPT ![p[1]] = p[2], ![p[2]] = p[1]] ELSE of,
              inside, extra)

\* sandwich: a blank line between lines that move
Neighbours(e) ==
  LET Near(f) == /\ f \in Qualifying
                 /\ \A g \in Min({e, f}) + 1..Max({e, f}) : Contiguous(g)
                 /\ \A g \in Min({e, f}) + 1..Max({e, f}) - 1 : g \notin Qualifying
  IN {f \in DOMAIN changes \ {e} : Near(f)}

HideMoved ==
  /\ movesPhase = "fold" /\ folding = {}
  /\ partner' = Settled
  /\ LET moved == {e \in DOMAIN changes : Settled[e] # Alone}
         between == {e \in DOMAIN changes \ moved :
                       Blank(changes[e].of) /\ Neighbours(e) # {} /\ Neighbours(e) \subseteq moved}
         hidden == {<<changes[e].hunk, changes[e].line>> : e \in moved \cup between}
     IN fate' = [at \in DOMAIN fate |-> IF at \in hidden THEN "moved" ELSE fate[at]]
  /\ movesPhase' = "done"
  /\ UNCHANGED <<diff, nextHunk, changes, sought, acceptedPairs, folding, folded, extra>>

\* A diff that is too large is not matched at all.
MovesStart ==
  /\ nextHunk = 1 /\ changes = <<>> /\ partner = <<>> /\ sought = <<>>
  /\ acceptedPairs = {} /\ folding = {} /\ folded = {} /\ extra = <<>>
  /\ fate = [at \in UNION {{h} \X ChangedAt(h) : h \in DOMAIN diff.hunks} |-> "changed"]
  /\ movesPhase =
       IF FoldSet(LAMBDA h, sum : sum + Cardinality(ChangedAt(h)), 0, Matched) > MatchedLines
       THEN "done" ELSE "collect"

MovesInit == (\E diffs \in Diffs : diff \in diffs) /\ MovesStart

MovesNext ==
  \/ CollectHunk \/ StartPairs \/ PairNext \/ ConsistentShifts \/ Accept \/ FoldNext \/ HideMoved

MovesSpec == MovesInit /\ [][MovesNext]_movesVars

-------------------------------------------------------------------------------

\* The lines that are hidden as moved, and which are their own declaration's.
Hidden(e) == fate[<<changes[e].hunk, changes[e].line>>] = "moved"
Solid == {e \in DOMAIN changes : ~Blank(changes[e].of)}

\* What a span shows of itself, with the entries of its lines in their order.
LinesOf(change, side, span) ==
  [n \in 1..Cardinality({m \in span[1]..span[2] : ~Blank(SideText(change, side)[m])}) |->
     LET number == CHOOSE m \in span[1]..span[2] :
                     /\ ~Blank(SideText(change, side)[m])
                     /\ Cardinality({k \in span[1]..m : ~Blank(SideText(change, side)[k])}) = n
     IN {e \in Solid : changes[e].change = change /\ changes[e].removed = (side = 1)
                         /\ changes[e].number = number}]
Spans(side) == UNION {{c} \X Range(diff.sides[c][side].spans) : c \in DOMAIN diff.sides}

(***************************************************************************)
(* Every hidden line comes back: lines that moved are paired one to one,   *)
(* removed with added ones of the same tokens and indentation, but not     *)
(* always of the same spacing, and if they were renamed, by pure renames   *)
(* only; a line that is unchanged in place stands opposite to one of the   *)
(* same bytes that is hidden as well.                                      *)
(***************************************************************************)
MovedComeBack ==
  \A e \in Solid : Hidden(e) =>
    LET other == partner[e]
    IN /\ other \in Solid /\ Hidden(other) /\ partner[other] = e
       /\ changes[e].removed # changes[other].removed
       /\ changes[e].of.key = changes[other].of.key
       /\ changes[e].of.indent = changes[other].of.indent
       /\ "impure" \notin {changes[e].of.rename, changes[other].of.rename}

UnchangedComeBack ==
  \A at \in DOMAIN fate : fate[at] = "unchanged" =>
    \E p \in Counterparts(at[1]) :
      /\ at[2] \in Range(p) /\ \A i \in Range(p) : fate[<<at[1], i>>] = "unchanged"
      /\ Bytes(Shown(at[1], p[1])) = Bytes(Shown(at[1], p[2]))

HiddenComeBack == movesPhase = "done" => MovedComeBack /\ UnchangedComeBack

(***************************************************************************)
(* Nothing moves but whole declarations: a hidden line is in a declaration *)
(* of which every line that is not blank is hidden, paired in order with   *)
(* all of those of one declaration on the other side, in a file that is a  *)
(* test if the other is.                                                   *)
(***************************************************************************)
MovedAsWhole ==
  LET Moved(source, destination) ==
        LET from == LinesOf(source[1], 1, source[2])
            to == LinesOf(destination[1], 2, destination[2])
        IN /\ Len(from) = Len(to)
           /\ diff.sides[source[1]][1].test = diff.sides[destination[1]][2].test
           /\ \A n \in DOMAIN from : \E e \in from[n] :
                 Hidden(e) /\ partner[e] \in to[n]
      moves == {p \in Spans(1) \X Spans(2) : Moved(p[1], p[2])}
      in(e, decl) == /\ changes[e].change = decl[1]
                     /\ changes[e].number \in decl[2][1]..decl[2][2]
  IN movesPhase = "done" => \A e \in Solid : Hidden(e) =>
       \E p \in moves : in(e, IF changes[e].removed THEN p[1] ELSE p[2])

(***************************************************************************)
(* What a brief hides as moved is told by what it shows: whole             *)
(* declarations that recur elsewhere, line by line.                        *)
(***************************************************************************)
MovesSound ==
  /\ HiddenComeBack
  /\ MovedAsWhole

(***************************************************************************)
(* docs/review-context.md: a declaration moves only when "every top-level  *)
(* statement of the target head file outside the folded moved declarations *)
(* that declares a name the moved lines use" is one of the source as well. *)
(***************************************************************************)
FoldedKeepNames ==
  movesPhase = "done" =>
    \A p \in folded : KeepsNames(p[1], p[2], RangesIn(p[2].change, folded))

(***************************************************************************)
(* docs/review-context.md: a moved declaration whose lines differ by       *)
(* renames "counts as moved only when each line becomes its counterpart    *)
(* byte for byte".                                                         *)
(***************************************************************************)
RenamedMovesKeepBytes ==
  movesPhase = "done" =>
    \A p \in folded :
      (\E e \in Range(p[1].lines) : changes[e].of.rename # "none") =>
        \A n \in DOMAIN p[1].lines :
          Bytes(changes[p[1].lines[n]].of) = Bytes(changes[p[2].lines[n]].of)
==================================================================================
