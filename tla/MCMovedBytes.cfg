SPECIFICATION MovesSpec
CONSTANTS
 Diffs <- MCDiffs
 MinRun = 2
 MinUniqueTokens = 3
 MatchedLines = 12
INVARIANT RenamedMovesKeepBytes
CHECK_DEADLOCK FALSE
