\* A ring of two slots, overwritten twice under one reader.
CONSTANTS
  Reader = {r1}
  Capacity = 2
  MaxPush = 4
  SizeMod = 16
  Index = {0, 1, 2}
  Query = {0, 2, 3, 5}
SPECIFICATION FairSpec
INVARIANTS
  CleanReadIsAtomic
PROPERTY
  ReadReturns
