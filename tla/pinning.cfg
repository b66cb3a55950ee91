SPECIFICATION FairSpec
CONSTANTS
  MaxWorkers = 5
  Requests = {1, 2, 3, 4, 5, 6}
  NbCores = 3
  MaxRoom = 2
  None = None
INVARIANTS TypeOK RoomRespected DenseFillsFromTheTop SparseIsBalanced
PROPERTY EveryWorkerIsPlaced
CHECK_DEADLOCK FALSE
