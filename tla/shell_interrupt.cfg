CONSTANTS
  SpiMayFail = FALSE
  Speeds <- MCSpeeds
  MAX_MOTION = 2
  Commands <- LongTurn
  MaxCommands = 3
  MaxBacklog = 2
  MaxElapsed = 2
  Paced = FALSE
  MayInterrupt = TRUE
SPECIFICATION Spec
INVARIANTS SafeInterrupt IndicesInBounds
