SPECIFICATION ScanSpec
CONSTANTS
 Files = {"a", "b"}
 Target = {"a"}
 Supported = {"a", "b"}
 Sizes = {1, 3}
 MaxFiles = 2
 MaxFileBytes = 2
 MaxTotalBytes = 2
 Jobs = 1
 MaxEdits = 0
INVARIANT ImpactOmissionsDisclosed
CHECK_DEADLOCK FALSE
