SPECIFICATION FairSpec
CONSTANTS
  Owner = owner
  Thief = {p1, p2}
  Item = {f1, f2}
  NoItem = nullptr
  Garbage = garbage
  InitSize = 2
  Sizes = {2}
  MaxIndex = 3
  StoreOrder = "fenced"
PROPERTIES RefinesDeque IdleOwnerIsDrained
