CONSTANTS
  SpiMayFail = FALSE
  Speeds <- MCSpeeds
  MAX_MOTION = 3
  Commands <- Motions
  MaxCommands = 2
  MaxBacklog = 1
  MaxElapsed = 2
  Paced = FALSE
  MayInterrupt = FALSE
SPECIFICATION FairSpec
PROPERTY Rests
