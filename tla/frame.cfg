CONSTANTS
  main = main
  update_thread = update_thread
  Threads <- MCThreads
  Speeds = {0, 500}
  Leds = {"led0"}
  RxWords = 3
  CopyWords = 2
  MaxCalls = 3
SYMMETRY MCSymmetry
SPECIFICATION Spec
INVARIANTS TypeOK FramesObeyed ClosedTogether IrForward
