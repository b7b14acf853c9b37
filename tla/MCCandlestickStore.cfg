\* Two trades, one that may be missed, and a reader, over two rollovers of a
\* two-tick minute.
CONSTANTS
  Reader = {r1}
  Minute = 2
  Dollar = 1
  Cooldown = 4
  MaxTime = 4
  MaxSeq = 2
  Query = {1}
SPECIFICATION CandleSpec
CHECK_DEADLOCK FALSE
INVARIANTS
  CandleTypeOK
  YesCandleSound
  NoneMeansUnknown
  TradeInCandle
