SPECIFICATION Spec
CONSTANTS
  Others = {"Sim", "Swarm"}
  OtherTypes <- MCOtherTypes
  OtherCasts <- MCOtherCasts
  IntMax = 15
  LongMax = 19
  DoubleMax = 20
  Quarters <- MCQuarters
INVARIANTS TypeOK RingClosed OneRecordPerType CastsDeclared IntAsWritten
PROPERTIES CalledAsDeclared
