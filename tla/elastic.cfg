SPECIFICATION Spec
CONSTANTS
  Worker = {w0, w1, w2}
  First = w0
  Prio = {1, 2, 3}
  Attempts = 1
  MaxTasks = 2
SYMMETRY Symmetry
INVARIANTS TypeOK SleepersAreListedOnce SleepersHaveAwakeRoot TerminationIsSound
