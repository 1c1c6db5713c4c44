SPECIFICATION Spec
CONSTANTS
  Names = {left, right}
  Data = {a, b}
  Depths = {0, 1, 2}
  Capacity = 3
  Nothing = Nothing
INVARIANTS
  PromiseKept
PROPERTIES
  HistoryBounded
  ReadsInOrder
CHECK_DEADLOCK FALSE
