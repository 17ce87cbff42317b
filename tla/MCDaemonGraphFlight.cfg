SPECIFICATION GraphSpec
CONSTANTS
  Reports = {r1, r2}
  NoReport = NoReport
  Clients = {c1, c2, c3}
  Unnamed = Unnamed
  NoGraph = NoGraph
  MaxLog = 4
INVARIANT OneBuildAtATime
SYMMETRY MCSymmetry
CHECK_DEADLOCK FALSE
