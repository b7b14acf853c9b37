\* Three keys in one bucket of a map of two; four puts, and two threads that
\* share one slot.
CONSTANTS
  Key = {k1, k2, k3}
  NoKey = nokey
  Bucket = {b1}
  Hash <- MCHash
  Capacity = 2
  Reader = {r1, r2}
  MaxReaders = 1
  Node = {n1, n2, n3, n4}
  Null = null
  MaxPuts = 4
SPECIFICATION Spec
SYMMETRY Symmetry
CHECK_DEADLOCK FALSE
INVARIANTS
  TypeOK
  NoUseAfterFree
  GetLinearizable
  ChainsAreTheMap
