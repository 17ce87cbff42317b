SPECIFICATION ProcessesSpec
CONSTANTS
 Processes = {p1, p2}
 Sources = {f1}
 Versions = {v1, v2}
 Facts = {outline}
 None = None
 Absent = Absent
 Symlink = Symlink
 Partial = Partial
 Foreign = Foreign
 MaxSourceEdits = 1
 MaxScans = 2
 Collectors = {p1, p2}
 Paths = {"old", "new"}
 NoPath = NoPath
 Commits = {"first", "move", "join"}
 Heads = {"join", "move"}
 Histories = {"full", "shallow", "huge"}
 Cacheable = {"full", "shallow"}
 Log <- MCLog
 Merge <- MCMerge
 Root <- MCRoot
 Raw <- MCRaw
 Found <- MCFound
 Requests <- MCRequests
 Nil = Nil
 MaxViews = 2
 MaxRuns = 3
 MaxChanges = 1
 Updaters = {p1, p2}
 Nothing = Nothing
 MaxRelease = 3
 MaxUpdates = 3
 Daemons = {p1, p2}
 Addresses = {a1, a2}
 NoToken = NoToken
 Link = Link
 MaxStarts = 4
 Workers = {p1, p2}
 MaxEvents = 3
 MaxBeats = 1
 MaxFaults = 1
 Files = {"a", "b", "u"}
 Target = {"a", "b", "u"}
 Supported = {"a", "b"}
 Sizes = {2, 3}
 MaxFiles = 2
 MaxFileBytes = 2
 MaxTotalBytes = 3
 Jobs = 2
 MaxEdits = 1
SYMMETRY Symmetry
INVARIANTS CacheSound ChurnSound InstallationSound TokenSound LogSound
 ScanAccounted OmissionsDisclosed
PROPERTIES KeepsFileWhole TornPairIsRefused
CHECK_DEADLOCK FALSE
