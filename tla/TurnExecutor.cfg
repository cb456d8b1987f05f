CONSTANTS
  c1 = c1
  c2 = c2
  u1 = u1
  u2 = u2
  i1 = i1
  h1 = h1
  w1 = w1
  f1 = f1
  ctxOf <- MCCtxOf
  kindOf <- MCKindOf
  Request = {u1, u2, i1, f1}
  Context = {c1, c2}
  Result = {d1}
  QueueMax = 1
  MaxStops = 1
SPECIFICATION Spec
SYMMETRY Symmetry
INVARIANTS OneTurnPerContext WorkIsKept NoStrayInterrupt NoPhantomBusy
CHECK_DEADLOCK FALSE
