--------------------------------- MODULE MCMoves ---------------------------------
(***************************************************************************)
(* Diffs for Moves: what is removed from one file or two recurs in another *)
(* file, in two others, or in another hunk of its own.                     *)
(***************************************************************************)
EXTENDS Moves

\* Lines: two that may recur on their own account, one that is too short, and a blank one.
TextLine(key, tokens, indent) ==
  [key |-> key, tokens |-> tokens, indent |-> indent, spacing |-> 0, rename |-> "none",
   within |-> 0, names |-> {}]
FirstLine == TextLine(1, 3, 0)
SecondLine == TextLine(2, 2, 1)
ShortLine == TextLine(3, 1, 0)
BlankLine == TextLine(0, 0, 0)
Texts(n) == {<<FirstLine>> \o t : t \in [1..n - 1 -> {FirstLine, SecondLine, ShortLine, BlankLine}]}

Indented(text, by) == [n \in DOMAIN text |-> [text[n] EXCEPT !.indent = @ + by]]
Respaced(text, n) == [text EXCEPT ![n].spacing = 1]
Renamed(text, how) == [text EXCEPT ![2].rename = how]
RenamedTexts == {Renamed(u, how) : u \in {t \in Texts(3) : ~Blank(t[2])}, how \in {"pure", "impure"}}
RespacedTexts == Texts(3) \cup {Respaced(t, n) : t \in Texts(3), n \in 1..2}
SpansOf(n) == {<<<<1, n>>>>, <<<<1, n>>, <<2, n>>>>, <<<<1, 2>>, <<3, n>>>>}

NoSide == [text |-> <<>>, spans |-> <<>>, tops |-> {}, test |-> FALSE]
FileSide(text, spans) == [NoSide EXCEPT !.text = text, !.spans = spans]
\* A hunk of one side of a file, of which the lines in ns changed.
HunkOf(change, from, to, tag, ns) ==
  [change |-> change, skip |-> FALSE, sensitive |-> FALSE,
   lines |-> [i \in 1..to - from + 1 |->
                [tag |-> IF from + i - 1 \in ns THEN tag ELSE " ", number |-> from + i - 1]]]
Removal(change, text, ns) == HunkOf(change, 1, Len(text), "-", ns)
Addition(change, text) == HunkOf(change, 1, Len(text), "+", DOMAIN text)

\* From one file to another, all of it or all but a line.
OneMove(s, t, ss, ts, kept) ==
  [hunks |-> <<Removal(1, s, DOMAIN s \ {kept}), Addition(2, t)>>,
   sides |-> <<<<FileSide(s, ss), NoSide>>, <<NoSide, FileSide(t, ts)>>>>]
WholeMoves ==
  {OneMove(s, t, ss, ts, 0) : s \in Texts(3), t \in Texts(3), ss \in SpansOf(3), ts \in SpansOf(3)}
PartialMoves ==
  {OneMove(s, s, ss, ts, kept) :
     s \in Texts(3), ss \in SpansOf(3), ts \in SpansOf(3), kept \in 1..3}
LargerMoves == {OneMove(s, s, ss, ss, 0) : s \in Texts(4), ss \in SpansOf(4)}
RenamingMoves ==
  {OneMove(s, t, <<<<1, 3>>>>, <<<<1, 3>>>>, 0) :
     s \in RenamedTexts, t \in RespacedTexts \cup {Indented(u, 1) : u \in Texts(3)}}
RespacingMoves ==
  {OneMove(s, t, <<<<1, 3>>>>, <<<<1, 3>>>>, 0) : s \in Texts(3), t \in RespacedTexts}

\* The same from two files, or to two files.
TwoMoves ==
  {[hunks |-> <<Removal(1, s, DOMAIN s), Removal(2, u, DOMAIN u), Addition(3, t), Addition(4, v)>>,
    sides |-> <<<<FileSide(s, ss), NoSide>>, <<[FileSide(u, ss) EXCEPT !.test = TRUE], NoSide>>,
                <<NoSide, FileSide(t, ss)>>, <<NoSide, FileSide(v, ss)>>>>] :
     s \in Texts(3), t \in Texts(3), u \in {<<FirstLine, SecondLine, ShortLine>>},
     v \in {<<FirstLine, SecondLine, BlankLine>>, <<FirstLine, SecondLine, ShortLine>>},
     ss \in {<<<<1, 3>>>>, <<<<1, 2>>>>}}

\* Within one file, in two hunks or at the same place.
OwnMoves ==
  {[hunks |-> <<Removal(1, s, DOMAIN s),
                [Addition(1, t) EXCEPT !.skip = skipped, !.sensitive = TRUE]>>,
    sides |-> <<<<FileSide(s, <<<<1, 3>>>>), FileSide(t, <<<<1, 3>>>>)>>>>] :
     s \in Texts(3), t \in Texts(3), skipped \in BOOLEAN}
InPlaceMoves ==
  {[hunks |-> <<[Removal(1, s, DOMAIN s) EXCEPT !.lines = @ \o Addition(1, t).lines]>>,
    sides |-> <<<<FileSide(s, <<<<1, 3>>>>), FileSide(t, <<<<1, 3>>>>)>>>>] :
     s \in RenamedTexts \cup Texts(3), t \in RespacedTexts}

\* The first file's declaration uses the name that the second file's declares.
\* Both move to a third file, the second one out of a container or not, where it
\* may use a name that the third file declares already.
Named(text, declared, used) ==
  [n \in DOMAIN text |-> [text[n] EXCEPT !.names = IF n = 1 THEN {declared} ELSE {used}]]
Top(first, last, declared) == [span |-> <<first, last>>, name |-> declared]
NamedMoves ==
  {LET s == Named(<<FirstLine, SecondLine>>, "a", "b")
       other == Named(<<TextLine(4, 3, 0), TextLine(5, 2, 1)>>, "b", used)
       u == [n \in 1..2 |-> [other[n] EXCEPT !.within = container]]
       t == s \o other \o Named(<<TextLine(6, 3, 0)>>, "c", "c")
       span == <<<<1, 2>>>>
   IN [hunks |-> <<Removal(1, s, 1..2), Removal(2, u, 1..2), HunkOf(3, 1, 5, "+", 1..4)>>,
       sides |-> <<<<[FileSide(s, span) EXCEPT !.tops = {Top(1, 2, "a")}], NoSide>>,
                   <<[FileSide(u, span) EXCEPT !.tops = {Top(1, 2, "b")}], NoSide>>,
                   <<NoSide, [FileSide(t, <<<<1, 2>>, <<3, 4>>, <<5, 5>>>>) EXCEPT !.tops =
                                {Top(1, 2, "a"), Top(3, 4, "b"), Top(5, 5, "c")}]>>>>] :
     container \in 0..1, used \in {"a", "c"}}

\* More lines than are matched.
LongMove ==
  LET text == [n \in 1..7 |-> IF n % 2 = 1 THEN FirstLine ELSE SecondLine]
  IN OneMove(text, text, <<<<1, 7>>>>, <<<<1, 7>>>>, 0)

MCDiffs ==
  {WholeMoves, PartialMoves, LargerMoves, RenamingMoves, RespacingMoves, TwoMoves, OwnMoves,
   InPlaceMoves, NamedMoves, {LongMove}}
==================================================================================
