\* The claim of orderbook_store.hpp:32 about tryPatch.
CONSTANTS
  Cell = {yes}
  Session = {s1}
  QueueSize = 2
  Cooldown = 1
  MaxSeq = 4
  MaxQty = 1
  MaxFail = 0
SPECIFICATION Spec
CHECK_DEADLOCK FALSE
INVARIANT
  PatchRepairs
