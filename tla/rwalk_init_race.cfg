CONSTANTS
  Speed = 600
  Speeds <- MCSpeeds
  TurnTime = 10
  Durations = {10, 15}
  Tick = 10
  Deadline = 30
  SpiMayFail = FALSE
  SigHosts = {}
SPECIFICATION Spec
INVARIANT UpdateThreadRuns
