SPECIFICATION FairSpec
CONSTANTS
  Worker = {w0, w1, w2}
  First = w0
  Prio = {1, 2}
  Attempts = 1
  MaxTasks = 2
PROPERTY AllExit
