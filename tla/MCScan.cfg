SPECIFICATION MCScanSpec
CONSTANTS
 config = config
 head = head
 bundled = bundled
 Inputs <- MCInputs
 Place <- MCPlace
 ConfigFile = config
 Callers = {c1}
 NoReport = NoReport
 TriggerCap = 1
 KernelQueue = 1
 NoiseNotices <- MCNoise
 OwnNotices <- MCOwn
 MaxEdits = 1
 MaxNoise = 1
 Requests <- MCRequests
 PipeSize = 1
 MaxPerCommit = 2
 MaxDeltas = 4
 PlanInputs <- MCPlanInputs
 PlanSeeds <- MCPlanSeeds
 PlanBudget = 8
 PlanFiles = 2
 PlanDefinitions = 4
 PlanDetails = 2
 Repositories <- MCRepositories
 ContextBudget = 6
 ContextFiles = 2
 OmissionDetails = 1
 OutlineBytes = 5
 FileOutlineBytes = 3
 FileOutlineSymbols = 2
 FilePrivateSymbols = 1
 ScopePaths = 4
 ScopeComponents = 2
INVARIANTS TypeOK FreshWhenQuiet RescanHonoured EventsRetellSnapshot ScansHaveCauses
 StreamSound PlanSound ScopeSound
PROPERTIES EventuallyQuiet ShutdownEnds KeepsLivePromise StreamEnds
CHECK_DEADLOCK FALSE
