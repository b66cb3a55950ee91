SPECIFICATION Spec
CONSTANTS
  Owner = owner
  Thief = {p1, p2}
  Item = {f1, f2}
  NoItem = nullptr
  Garbage = garbage
  InitSize = 1
  Sizes = {1, 2, 4}
  MaxIndex = 3
  StoreOrder = "fifo"
SYMMETRY Symmetry
INVARIANTS TypeOK IndexSafe WinnerHoldsOldest
PROPERTY RefinesDeque
