CONSTANTS
  t1 = t1
  t2 = t2
  t3 = t3
  c1 = c1
  c2 = c2
  NoContext = NoContext
  Task = {t1, t2, t3}
  Context = {c1, c2}
  Ttl = 2
  Cap = 3
  IdleCap = 2
SYMMETRY Tasks
SPECIFICATION Spec
INVARIANTS LeaseIsTrue LeakHeals
