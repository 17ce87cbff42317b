SPECIFICATION NearSpec
CONSTANTS
 NearSources <- MCNearSources
 Identifiers = {1, 2, 3, 4, 5}
 Literals = {}
 Threshold = 9
 MinTokens = 2
 EarlyAnchors = 1
 MaxPrevious = 2
 MaxNearPairs = 100
 MaxNearMatches = 100
 MaxOverlapChecks = 100
 AlphaBase = 5
 AlphaModulus = 64
INVARIANT CompleteBelowLimits
CHECK_DEADLOCK FALSE
