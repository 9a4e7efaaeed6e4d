CONSTANTS
  Speeds <- MCSpeeds
  MaxWrites = 4
  SpiMayFail = FALSE
SPECIFICATION FairSpec
INVARIANTS TypeOK RelayCoherent FreedAfterLoop
PROPERTIES Relayed ComesToRest
