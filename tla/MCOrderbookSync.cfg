\* Two levels, two concurrent requests, a queue of two, four messages of the feed.
CONSTANTS
  Cell = {yes, no}
  Session = {s1, s2}
  QueueSize = 2
  Cooldown = 1
  MaxSeq = 4
  MaxQty = 1
  MaxFail = 1
SPECIFICATION FairSpec
CHECK_DEADLOCK FALSE
INVARIANTS
  DriftIsPatchSkew
  NoSilentLoss
  NegativeIsInvalid
PROPERTY
  RepairCompletes
