SPECIFICATION Spec
CONSTANTS
  a = a
  b = b
  Item = {a, b}
  NoItem = NoItem
  Capacity = 4
INVARIANT TypeOK
PROPERTY RefinesDeque
