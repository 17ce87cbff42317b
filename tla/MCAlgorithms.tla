------------------------------ MODULE MCAlgorithms ------------------------------
(***************************************************************************)
(* The sequential algorithms, one at a time, each on all of its small      *)
(* inputs: the import graph, its cycles, the mapping of changed lines, the *)
(* merging of sources in one answer, the search for consumers, the ranges  *)
(* of covered tokens, a deep review, the detection of exact and of near    *)
(* clones, the choice of what a review brief shows on its budgets of       *)
(* tokens and bytes, and of what it hides as moved.                        *)
(***************************************************************************)
EXTENDS ImportGraph, ChangedLines, SourceRead, Consumers, Intervals, DeepReview,
        ExactClones, FuzzyClones, BriefBudget, MCMoves

VARIABLE subject

\* ChangedLines: a whole file of two bytes a line, a method after its decorator,
\* a function inside of a longer source, a definition and one that ends in the
\* line it begins, ...
At(a, b) == [start_byte |-> a, end_byte |-> b]
MCShapes ==
  {[declaration |-> At(0, 8), source |-> {}],
   [declaration |-> At(3, 6), source |-> {At(2, 6)}],
   [declaration |-> At(4, 5), source |-> {At(0, 6)}],
   [declaration |-> At(2, 4), source |-> {At(2, 4)}],
   [declaration |-> At(5, 8), source |-> {At(3, 8)}],
   [declaration |-> At(6, 7), source |-> {At(6, 8)}]}

\* SourceRead: spans that are apart, touch, overlap, contain one another or are
\* empty, in two files; a target that is ambiguous and one without a file.
TargetOf(f, a, b) ==
  [file |-> f, status |-> "complete", span |-> <<a, b>>, candidates |-> 0]
MCTargets ==
  {TargetOf(1, 0, 2), TargetOf(1, 1, 3), TargetOf(1, 3, 5), TargetOf(1, 2, 4), TargetOf(1, 2, 2),
   TargetOf(2, 1, 3),
   [file |-> 1, status |-> "ambiguous", span |-> NoSpan, candidates |-> 1],
   [file |-> NoFile, status |-> "failed", span |-> NoSpan, candidates |-> 0]}

\* Consumers: two of the symbols share a file; a seed is named twice.
MCPathOf == <<"a", "b", "b", "c">>
MCSeedLists == {<<1>>, <<1, 1>>, <<1, 2>>}

\* DeepReview: a file that may be absent, clean, with findings, too large or not
\* text; one of another language; and one that git may take for the first renamed.
Content(s, text, grade) == [size |-> s, text |-> text, grade |-> grade]
MCTrees ==
  {<<p, o[1], o[2]>> :
     p \in {NoContent, Content(1, TRUE, 1), Content(2, TRUE, 2),
            Content(4, TRUE, 1), Content(1, FALSE, 0)},
     o \in {<<NoContent, NoContent>>, <<Content(1, TRUE, 0), NoContent>>,
            <<Content(1, TRUE, 0), Content(1, TRUE, 0)>>,
            <<Content(1, TRUE, 0), Content(1, TRUE, 1)>>}}
MCHunks == {<<TRUE, TRUE>>, <<FALSE, TRUE>>, <<FALSE, FALSE>>}

\* ExactClones: three files of two to four tokens of two kinds.
TokensOf(a, b) == UNION {[1..n -> {1, 2}] : n \in a..b}
MCSources == TokensOf(2, 4) \X TokensOf(2, 3) \X TokensOf(2, 3)

\* FuzzyClones: the tokens 1 to 3 are identifiers, 11 and 12 literals.  Three
\* small files, of which a bucket may have four windows; two files with
\* repetitions; two with literals.
MCNearSources ==
  LET Words(tokens, a, b) == UNION {[1..n -> tokens] : n \in a..b}
  IN (Words({1, 2, 3}, 2, 3) \X Words({1, 2, 3}, 2, 3) \X Words({1, 3}, 2, 2))
       \cup (Words({1, 2}, 3, 4) \X Words({1, 2}, 4, 4))
       \cup (Words({1, 11, 12}, 3, 3) \X Words({1, 11, 12}, 3, 4))

\* BriefBudget: one or two changed entries and three levels of detail.  A hunk that
\* is not shown has a line among the omitted ones, which may be longer than the hunk;
\* an item may have more bytes than it has tokens, so that it exceeds the bytes only.
MCRungs == <<[level |-> 2, sites |-> FALSE], [level |-> 1, sites |-> FALSE], [level |-> 1, sites |-> TRUE]>>
HunksOf(change, tokens, line) == [change |-> change, tokens |-> tokens, line |-> line]
Prepared(e, m, u, d, l, o, w) ==
  [entries |-> e, mentions |-> m, usage |-> u,
   hunks |-> [h \in DOMAIN d.change |-> [change |-> d.change[h], explained |-> h = 3]],
   level |-> l, tokens |-> d.tokens, line |-> d.line, other |-> o, wide |-> w]
MCBriefs ==
  {Prepared(<<1>>, 1, <<{1}>>, d, l, o, w) :
     d \in {HunksOf(<<>>, <<>>, <<>>), HunksOf(<<1>>, <<1>>, <<2>>),
            HunksOf(<<1, 1, 1>>, <<2, 4, 3>>, <<1, 1, 1>>), HunksOf(<<1, 1, 1>>, <<1, 1, 3>>, <<3, 2, 1>>),
            HunksOf(<<1, 1, 1>>, <<4, 1, 1>>, <<1, 3, 2>>), HunksOf(<<1, 1, 1>>, <<2, 1, 2>>, <<1, 1, 1>>)},
     l \in {<<2, 1>>, <<4, 1>>, <<3, 3>>}, o \in {1, 2}, w \in {"none", "hunk"}}
  \cup
  {Prepared(<<1, 2>>, 0, <<{2}, {}>>, HunksOf(<<1, 2, 1>>, t, <<1, 2, 1>>), <<3, 1>>, 1, w) :
     t \in {<<2, 1, 2>>, <<1, 3, 1>>}, w \in {"none", "hunk", "details"}}
  \cup {Prepared(<<1>>, 1, <<>>, HunksOf(<<>>, <<>>, <<>>), <<14, 14>>, 1, "none")}

CostOf(b, i) ==
  CASE i.kind = "hunk" -> b.tokens[i.of]
    [] i.kind \in {"sites", "details"} -> 1
    [] i.kind = "explained" -> 2
    [] OTHER -> b.other
MCParts(b, level, sel) ==
  LET Worth(part) == SumFunction([i \in part |-> CostOf(b, i)])
      OfKinds(kinds) == {i \in sel : i.kind \in kinds}
      omitted == {h \in DOMAIN b.hunks : Item("hunk", h) \notin sel}
      tokens == b.level[level] + Worth(sel) + SumFunction([h \in omitted |-> b.line[h]])
  IN [tokens |-> tokens,
      bytes |-> tokens + 4 * Cardinality({i \in sel : i.kind = b.wide /\ i.of = 2}),
      soft |-> Worth(OfKinds(SoftKinds)), diff |-> Worth(OfKinds({"hunk", "examples"}))]

\* ImportGraph: three C# files that declare a namespace or one in it and use one,
\* or three scripts; the first may be deleted, the second unreadable (or broken),
\* the third broken (or unreadable).
Relative(f) == [kind |-> "relative", to |-> f]
Alias(f) == [kind |-> "alias", to |-> f]
Using(n) == [kind |-> "using", namespace |-> n]
MCRepositories ==
  LET Outer == <<"App">>  Inner == <<"App", "Core">>
      Source(l, s, d, i) == [language |-> l, state |-> s, declares |-> d, imports |-> i]
      Sharp == {Source("csharp", "whole", d, i) : d \in {{}, {Outer}, {Inner}},
                                                  i \in {{}, {Using(Outer)}, {Using(Inner)}}}
      SharpIn(s) == {Source("csharp", s, d, {Using(Inner)}) : d \in {{}, {Outer}, {Inner}}}
      Script == {Source("script", "whole", {}, i) :
                   i \in {{}, {Relative(1)}, {Relative(2), Alias(3)}, {Relative(0)}, {Alias(1)}}}
      ScriptIn(s) == {Source("script", s, {}, i) : i \in {{Relative(1)}, {Relative(3)}}}
  IN {[files |-> <<a, b, c>>, config_errors |-> 0] :
        a \in Sharp \cup SharpIn("deleted"), b \in Sharp \cup SharpIn("unreadable"),
        c \in {f \in Sharp \cup SharpIn("broken") : f.imports # {Using(Outer)}}}
       \cup {[files |-> <<a, b, c>>, config_errors |-> IF a.state = "deleted" THEN 1 ELSE 0] :
               a \in Script \cup ScriptIn("deleted"), b \in Script \cup ScriptIn("broken"),
               c \in Script \cup ScriptIn("unreadable")}

Subjects ==
  {"import graph", "components", "changed lines", "source read", "consumers", "intervals",
   "deep review", "exact clones", "near clones", "review brief", "moves"}

\* An algorithm that is not the subject has one input: it takes no step.
AnyRepository == CHOOSE r \in Repositories : TRUE
AnyBrief == CHOOSE b \in Briefs : TRUE
MostWork == Max(WorkLimits)

\* Both detections of clones are of one pool.
OnePool == {<<<<1, 1>>, <<1, 1>>, <<1, 1>>>>}
PoolInit ==
  pool \in (CASE subject = "exact clones" -> Sources
              [] subject = "near clones" -> NearSources
              [] OTHER -> OnePool)

AlgorithmsInit ==
  /\ subject \in Subjects
  /\ IF subject = "import graph" THEN TRUE ELSE repository = AnyRepository
  /\ ImportGraphInit
  /\ IF subject = "components" THEN TRUE ELSE edges = {} /\ self_cycles = {}
  /\ ComponentsInit
  /\ IF Cardinality(edges) <= 2 THEN TRUE ELSE self_cycles = {}
  /\ IF subject = "changed lines" THEN TRUE
     ELSE definitions = <<>> /\ changed = {} /\ work = MostWork
  /\ LinesInit
  /\ IF subject = "source read" THEN TRUE ELSE root_omitted = FALSE /\ readEnded = "refused"
  /\ ReadInit
  /\ IF subject = "consumers" THEN TRUE
     ELSE references = {} /\ direction = "both" /\ depth = 1 /\ seeds = <<1>>
  /\ ConsumersInit
  \* Otherwise as it is while a range is being inserted.
  /\ IF subject = "intervals" THEN IntervalsInit
     ELSE by_start = {} /\ merging = <<0, 1>> /\ marked = {0}
  \* Otherwise the two trees are the same: git reports nothing.
  /\ IF subject = "deep review" THEN TRUE
     ELSE /\ staged = FALSE /\ diffBase = {}
          /\ reviewed = <<NoContent, NoContent, NoContent>> /\ headTree = reviewed
  /\ ReviewInit
  /\ PoolInit /\ ClonesStart /\ NearStart
  /\ IF subject = "review brief" THEN TRUE ELSE brief = AnyBrief
  /\ BriefInit
  /\ IF subject = "moves" THEN \E diffs \in Diffs : diff \in diffs ELSE diff = LongMove
  /\ MovesStart

AlgorithmsNext ==
  /\ UNCHANGED subject
  /\ \/ /\ subject = "components" /\ ComponentsNext
        /\ UNCHANGED <<pool, linesVars, readVars, consumersVars,
                       intervalVars, reviewVars, exactVars, nearVars, briefVars, movesVars,
                       graphVars>>
     \/ /\ subject = "changed lines" /\ LinesNext
        /\ UNCHANGED <<pool, componentVars, readVars, consumersVars,
                       intervalVars, reviewVars, exactVars, nearVars, briefVars, movesVars,
                       graphVars>>
     \/ /\ subject = "source read" /\ ReadNext
        /\ UNCHANGED <<pool, componentVars, linesVars, consumersVars,
                       intervalVars, reviewVars, exactVars, nearVars, briefVars, movesVars,
                       graphVars>>
     \/ /\ subject = "consumers" /\ ConsumersNext
        /\ UNCHANGED <<pool, componentVars, linesVars, readVars,
                       intervalVars, reviewVars, exactVars, nearVars, briefVars, movesVars,
                       graphVars>>
     \/ /\ subject = "intervals" /\ IntervalsNext
        /\ UNCHANGED <<pool, componentVars, linesVars, readVars,
                       consumersVars, reviewVars, exactVars, nearVars, briefVars, movesVars,
                       graphVars>>
     \/ /\ subject = "deep review" /\ ReviewNext
        /\ UNCHANGED <<pool, componentVars, linesVars, readVars,
                       consumersVars, intervalVars, exactVars, nearVars, briefVars, movesVars,
                       graphVars>>
     \/ /\ subject = "exact clones" /\ ClonesNext
        /\ UNCHANGED <<pool, componentVars, linesVars, readVars,
                       consumersVars, intervalVars, reviewVars, nearVars, briefVars, movesVars,
                       graphVars>>
     \/ /\ subject = "near clones" /\ NearNext
        /\ UNCHANGED <<pool, componentVars, linesVars, readVars,
                       consumersVars, intervalVars, reviewVars, exactVars, briefVars, movesVars,
                       graphVars>>
     \/ /\ subject = "review brief" /\ BriefNext
        /\ UNCHANGED <<pool, componentVars, linesVars, readVars, consumersVars,
                       intervalVars, reviewVars, exactVars, nearVars, movesVars, graphVars>>
     \/ /\ subject = "moves" /\ MovesNext
        /\ UNCHANGED <<pool, componentVars, linesVars, readVars, consumersVars,
                       intervalVars, reviewVars, exactVars, nearVars, briefVars, graphVars>>
     \/ /\ subject = "import graph" /\ ImportGraphNext
        /\ UNCHANGED <<pool, componentVars, linesVars, readVars, consumersVars,
                       intervalVars, reviewVars, exactVars, nearVars, briefVars, movesVars>>

AlgorithmsSpec ==
  AlgorithmsInit
    /\ [][AlgorithmsNext]_<<subject, pool, componentVars, linesVars, readVars, consumersVars,
                            intervalVars, reviewVars, exactVars, nearVars, briefVars, movesVars,
                       graphVars>>
================================================================================
