\* Three threads, a pool of two and a third session that can be made; twice
\* around the buffer.
CONSTANTS
  Thread = {t1, t2, t3}
  Object = {o1, o2, o3}
  NoObject = none
  o1 = o1
  o2 = o2
  Capacity = 2
  InPool <- MCInPool
  MaxPos = 4
SPECIFICATION Spec
SYMMETRY Symmetry
CHECK_DEADLOCK FALSE
INVARIANTS
  OnePlace
PROPERTIES
  RefusedForAReason
  IsSessionPool
