SPECIFICATION FairSpec
CONSTANTS
  Worker = {w0, w1, w2}
  First = w0
  MaxForks = 3
  Capacity = 2
INVARIANTS TypeOK TakeGetsSecondChild StacksAreExclusive HeldFibersAreAlive NoFiberIsLost CurrentIsRunning NothingLeftBehind
PROPERTIES RefinesProgram AllExit
