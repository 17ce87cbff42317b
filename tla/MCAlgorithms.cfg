SPECIFICATION AlgorithmsSpec
CONSTANTS
 FileCount = 4
 Repositories <- MCRepositories
 MaxFocusDepth = 1
 MaxFocusFiles = 1
 LineCount = 4
 BytesPerLine = 2
 MaxDefinitions = 2
 WorkLimits = {6, 100}
 Shapes <- MCShapes
 Requested = 3
 Targets <- MCTargets
 SymbolCount = 4
 MaxReferences = 3
 MaxDepth = 2
 Limit = 2
 PathLimit = 2
 PathOf <- MCPathOf
 SeedLists <- MCSeedLists
 MaxPosition = 6
 PathCount = 3
 Supported = {1, 3}
 NoContent = NoContent
 Trees <- MCTrees
 Hunks <- MCHunks
 MaxReviewFiles = 2
 MaxSourceBytes = 3
 MaxBlobBytes = 3
 MaxSnapshotBytes = 2
 Sources <- MCSources
 MinTokens = 2
 EarlyAnchors = 1
 MaxPrevious = 2
 MaxSeedPairs = 10
 MaxMatches = 4
 NearSources <- MCNearSources
 Identifiers = {1, 2, 3}
 Literals = {11, 12}
 Threshold = 9
 MaxNearPairs = 5
 MaxNearMatches = 3
 MaxOverlapChecks = 1
 AlphaBase = 5
 AlphaModulus = 64
 Briefs <- MCBriefs
 Parts <- MCParts
 Rungs <- MCRungs
 ByteBudget = 13
 SoftTokens = 2
 GreedyAttempts = 2
 Never = Never
 MaxBudget = 14
 Diffs <- MCDiffs
 MinRun = 2
 MinUniqueTokens = 3
 MatchedLines = 12
INVARIANTS ImportsTold ChangesMapped SourcesPacked ConsumersFound CoversExactly
 ReviewSound BriefSound ExactClonesSound NearClonesSound MovesSound
CHECK_DEADLOCK FALSE
