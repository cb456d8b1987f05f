CONSTANTS
  v = v
  a = a
  Workspace = {v}
  Waiter = {a}
  Capacity = 2
  Page = 2
  CacheSize = 1
  MaxRows = 3
  MaxFiles = 1
  MaxAged = 1
  MaxCrashes = 1
SPECIFICATION Spec
INVARIANTS NoLostWakeup RowsAreKept
PROPERTIES CatchesUp
CHECK_DEADLOCK FALSE
