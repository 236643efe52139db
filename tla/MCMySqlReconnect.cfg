\* MySQL, whose connection may be lost inside a transaction.
SPECIFICATION Spec
CONSTANTS
  Rows = {r1, r2}
  Dialects = {"MySQL"}
  Lossy = {"MySQL"}
  ThrowsAfter = {}
  MaxDepth = 2
  MaxSavepoints = 2
PROPERTY NothingStoredInside
CHECK_DEADLOCK FALSE
