----------------------------- MODULE ChangedLines -----------------------------
(***************************************************************************)
(* map_changed_definitions of src/query/changed_mapping.rs: the changed    *)
(* lines of a file are given to the innermost definitions that contain     *)
(* them, range by range, until the work limit is reached.  Lists of line   *)
(* ranges that the code normalizes (sorts and merges) are sets of lines;   *)
(* its ranges are their runs.                                              *)
(***************************************************************************)
EXTENDS Integers, FiniteSets, FiniteSetsExt

CONSTANTS
  LineCount,       \* lines of the file
  BytesPerLine,
  Shapes,          \* possible definitions, see ShapesAssumption
  MaxDefinitions,  \* bound: definitions in a file
  WorkLimits       \* possible values of MAX_MAPPING_WORK

Span == [start_byte : 0..(LineCount * BytesPerLine - 1),
         end_byte : 1..(LineCount * BytesPerLine)]

\* Every definition has a declaration; its whole source begins no later and ends
\* no earlier, and may be unknown.
ASSUME ShapesAssumption ==
  /\ LineCount \in Nat /\ BytesPerLine \in Nat \ {0}
  /\ \A d \in Shapes :
    /\ d.declaration \in Span /\ d.source \subseteq Span /\ Cardinality(d.source) <= 1
    /\ \A s \in d.source \cup {d.declaration} :
         /\ s.start_byte < s.end_byte
         /\ s.start_byte <= d.declaration.start_byte
         /\ d.declaration.end_byte <= s.end_byte

VARIABLES
  definitions,  \* facts.definitions
  changed,      \* the lines of the ranges asked about
  work,         \* what is left of the work limit
  rest,         \* changed lines that were not come to
  named,        \* ChangedDefinition.ranges of every definition
  wrapped,      \* ChangedDefinition.wrapper_ranges
  ambiguous,    \* the definitions with ChangedDefinition.ambiguous
  uncovered, unprocessed

linesVars == <<definitions, changed, work, rest, named, wrapped, ambiguous,
               uncovered, unprocessed>>

FileLines == 1..LineCount

LinesInit ==
  /\ definitions \in UNION {[1..n -> Shapes] : n \in 0..MaxDefinitions}
  /\ changed \in SUBSET FileLines
  /\ work \in WorkLimits
  /\ rest = changed
  /\ named = [i \in DOMAIN definitions |-> {}]
  /\ wrapped = [i \in DOMAIN definitions |-> {}]
  /\ ambiguous = {} /\ uncovered = {} /\ unprocessed = {}

start_line(span) == span.start_byte \div BytesPerLine + 1
end_line(span) == (span.end_byte - 1) \div BytesPerLine + 1

contains_line(span, line) == line \in start_line(span)..end_line(span)

\* The first run of the lines that are left.
NextRange ==
  LET first == Min(rest)
  IN {l \in rest : first..l \subseteq rest}

\* The spans of a definition that meet the range.
Meeting(i) ==
  {s \in definitions[i].source \cup {definitions[i].declaration} :
     start_line(s) <= Max(NextRange) /\ end_line(s) >= Min(NextRange)}

relevant == {i \in DOMAIN definitions : Meeting(i) # {}}

\* mutant: a segment is not cut behind a definition
BoundariesBefore ==
  {Min(NextRange), Max(NextRange) + 1}
    \cup {Max({start_line(s), Min(NextRange)}) : s \in UNION {Meeting(i) : i \in relevant}}

\* Where a segment begins, or the last one ends.
Boundaries ==
  LET met == UNION {Meeting(i) : i \in relevant}
  IN {Min(NextRange), Max(NextRange) + 1}
       \cup {Max({start_line(s), Min(NextRange)}) : s \in met}
       \cup {Min({end_line(s), Max(NextRange)}) + 1 : s \in met}

Segments ==
  {b..(Min({c \in Boundaries : c > b}) - 1) : b \in Boundaries \ {Max(Boundaries)}}

\* The definitions at a line: by their declaration, or else by the source around
\* it.
Candidates(line) ==
  {[index |-> i, span |-> definitions[i].declaration, wrapper |-> FALSE] :
     i \in {j \in DOMAIN definitions :
              contains_line(definitions[j].declaration, line)}}
  \cup
  UNION {{[index |-> i, span |-> s, wrapper |-> TRUE] :
            s \in {w \in definitions[i].source : contains_line(w, line)}} :
         i \in {j \in DOMAIN definitions :
                  ~contains_line(definitions[j].declaration, line)}}

\* No other candidate's span lies within a retained one; the sort by descending
\* start and ascending end, and min_end, find that in one pass.
innermost(candidates) ==
  {c \in candidates :
     ~\E d \in candidates :
        /\ d.span # c.span
        /\ d.span.start_byte >= c.span.start_byte
        /\ d.span.end_byte <= c.span.end_byte}

Selected(segment) ==
  innermost({c \in Candidates(Min(segment)) : c.index \in relevant})

Cost == Cardinality(DOMAIN definitions)
        + Cardinality(Segments) * (2 * Cardinality(relevant) + 1)

Given(i, wrapper) ==
  UNION {g \in Segments : \E c \in Selected(g) : c.index = i /\ c.wrapper = wrapper}

\* map_range and what the caller adds up.
MapRange ==
  /\ rest # {} /\ Cost <= work
  /\ work' = work - Cost
  /\ rest' = rest \ NextRange
  /\ named' = [i \in DOMAIN definitions |-> named[i] \cup Given(i, FALSE)]
  /\ wrapped' = [i \in DOMAIN definitions |-> wrapped[i] \cup Given(i, TRUE)]
  /\ ambiguous' = ambiguous \cup
       {i \in relevant : \E g \in Segments :
          /\ Cardinality(Selected(g)) > 1
          /\ \E c \in Selected(g) : c.index = i}
  /\ uncovered' = uncovered \cup UNION {g \in Segments : Selected(g) = {}}
  /\ UNCHANGED <<definitions, changed, unprocessed>>

StopAtLimit ==
  /\ rest # {} /\ Cost > work
  /\ unprocessed' = rest
  /\ rest' = {}
  /\ UNCHANGED <<definitions, changed, work, named, wrapped, ambiguous, uncovered>>

LinesNext == MapRange \/ StopAtLimit

LinesSpec == LinesInit /\ [][LinesNext]_linesVars

MappedLines == UNION {named[i] \cup wrapped[i] : i \in DOMAIN definitions}

(***************************************************************************)
(* No changed line is lost or told twice: it is mapped to a definition,    *)
(* uncovered, unprocessed because of the work limit, or still to come.     *)
(***************************************************************************)
LinesAccounted ==
  /\ changed = rest \cup MappedLines \cup uncovered \cup unprocessed
  /\ rest \cap (MappedLines \cup uncovered \cup unprocessed) = {}
  /\ MappedLines \cap (uncovered \cup unprocessed) = {}
  /\ uncovered \cap unprocessed = {}

(***************************************************************************)
(* Segments are decided by their first line; the outcome is nevertheless   *)
(* that of deciding every line by itself, with all definitions.            *)
(***************************************************************************)
MappedLineByLine ==
  \A line \in changed \ (rest \cup unprocessed) :
    LET selected == innermost(Candidates(line))
    IN /\ line \in uncovered <=> selected = {}
       /\ \A i \in DOMAIN definitions :
            /\ line \in named[i] <=>
                 \E c \in selected : c.index = i /\ ~c.wrapper
            /\ line \in wrapped[i] <=>
                 \E c \in selected : c.index = i /\ c.wrapper
       /\ Cardinality(selected) > 1 => \A c \in selected : c.index \in ambiguous

(***************************************************************************)
(* Each changed line goes to its definitions or into one counter.          *)
(***************************************************************************)
ChangesMapped ==
  /\ LinesAccounted
  /\ MappedLineByLine
===============================================================================
