CONSTANTS
  c1 = c1
  c2 = c2
  u1 = u1
  u2 = u2
  i1 = i1
  h1 = h1
  w1 = w1
  f1 = f1
  ctxOf <- MCCtxOf
  kindOf <- MCKindOf
  Request = {u1, i1, w1}
  Context = {c1}
  Result = {d1}
  QueueMax = 1
  MaxStops = 1
SPECIFICATION Spec
INVARIANT SlotReleased
CHECK_DEADLOCK FALSE
