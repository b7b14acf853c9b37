\* A read that finds the sequence number odd twice.
CONSTANTS
  Reader = {r1}
  Word = {w1, w2}
  MaxWrites = 2
SPECIFICATION LockSpec
INVARIANT
  ReadIsAtomic
