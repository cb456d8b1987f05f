CONSTANTS
  i = i
  m = m
  g = g
  x = x
  y = y
  Provider = {m, g}
  Pinned = {}
  Cadenced = {g}
  Section = {x}
  MaxFailures = 2
  LastStep = 1
  Backoff <- MCBackoff
  MaxIdentical = 2
  MaxChanges = 2
  MaxOutages = 1
  MaxRestarts = 1
SPECIFICATION Spec
INVARIANTS FiresForCause
PROPERTIES NothingMissed DigestGoesOn
CHECK_DEADLOCK FALSE
