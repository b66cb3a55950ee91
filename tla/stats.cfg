SPECIFICATION Spec
CONSTANTS
  w1 = w1
  w2 = w2
  Worker = {w1, w2}
  First = w1
  MaxTime = 3
  MaxForks = 2
INVARIANT CountsAreExact
PROPERTY TimesAreTrue
CHECK_DEADLOCK FALSE
