CONSTANTS
  d1 = d1
  d2 = d2
  p1 = p1
  p2 = p2
  Daemon = {d1, d2}
  Plugin = {p1, p2}
  Owner <- OneEach
  Trigger = {d2}
  MaxFast = 2
  MaxTokens = 2
SPECIFICATION Spec
INVARIANTS ChildrenAreKept
PROPERTIES DaemonsGoOn
CHECK_DEADLOCK FALSE
