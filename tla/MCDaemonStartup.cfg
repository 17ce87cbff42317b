SPECIFICATION Spec
CONSTANTS
  config = config
  head = head
  bundled = bundled
  Inputs <- MCFew
  Place <- MCFewPlace
  ConfigFile = config
  Callers = {c1, c2}
  NoReport = NoReport
  TriggerCap = 1
  KernelQueue = 1
  NoiseNotices <- MCNoise
  OwnNotices <- MCOwn
  MaxEdits = 1
  MaxNoise = 0
INVARIANT BurstNeverFailsStartup
CHECK_DEADLOCK FALSE
