CONSTANTS
  SpiMayFail = FALSE
  Speeds <- MCSpeeds
  MAX_MOTION = 4
  Commands <- Motions
  MaxCommands = 4
  MaxBacklog = 4
  MaxElapsed = 2
  Paced = TRUE
  MayInterrupt = TRUE
SPECIFICATION FairSpec
INVARIANT TypeOK
PROPERTIES ImplementsQueue Rests
