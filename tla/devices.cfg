CONSTANTS
  Threads = {"main", "update"}
  MaxFds = 2
  LedNos = {1, 4}
  Delays = {"slow", "fast"}
  Blinks <- MCBlinks
  Positions = {0}
  Buttons = {257}
  OtherCodes = {28}
  Ids = {1, 2}
  Backlog = 1
SPECIFICATION FairSpec
INVARIANTS TypeOK OwnDescriptor DescriptorsAccounted
PROPERTIES BlinkInHalves GpsReturns
