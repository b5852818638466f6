SPECIFICATION FairSpec
CONSTANTS
  MaxTime = 10
  GraceFloor = 3
  MaxPoll = 2
  MaxGdb = 2
  MaxInterrupts = 3
INVARIANTS NoLeftover ReturnsInTime HaltsGently
PROPERTIES WatchdogEnds
