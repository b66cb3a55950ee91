SPECIFICATION Spec
CONSTANTS
  Worker = {0, 1, 4}
  NbLeaves = 4
  MaxCalls = 3
INVARIANTS TypeOK DecrementFindsCount QuietIsZero
PROPERTY RefinesDetector
