\* A reader of three words against three writes; readers do not disturb each other.
CONSTANTS
  Reader = {r1}
  Word = {w1, w2, w3}
  MaxWrites = 3
SPECIFICATION LockFairSpec
INVARIANTS
  EvenReadIsAtomic
  ReadIsFresh
PROPERTY
  ReadReturns
