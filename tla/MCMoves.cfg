SPECIFICATION MovesSpec
CONSTANTS
 Diffs <- MCDiffs
 MinRun = 2
 MinUniqueTokens = 3
 MatchedLines = 12
INVARIANT FoldedKeepNames
CHECK_DEADLOCK FALSE
