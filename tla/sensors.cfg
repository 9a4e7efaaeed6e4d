CONSTANTS
  Frames <- MCFrames
  CopyWords = 2
  Waits = {0, 1, 999}
  MaxRounds = 3
SPECIFICATION Spec
INVARIANTS TypeOK CrowdingInRange CrowdingIsMean MeansOfSides
