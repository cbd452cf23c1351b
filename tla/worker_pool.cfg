SPECIFICATION FairSpec
CONSTANTS
  NumSlots = 2
  Requests = {r1}
  MaxWorkers = 6
  MaxStarts = 2
  MaxShutdowns = 1
CHECK_DEADLOCK FALSE
INVARIANTS
  TypeOK
  NobodyWaitsForTheDead
  EveryWorkerInPool
PROPERTIES
  SlotsRecover
