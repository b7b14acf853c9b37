\* Two poppers, one of them the panel; a ring of two slots that is overwritten
\* twice, and two rows counted modulo four.
CONSTANTS
  Popper = {p1, p2}
  Renderer = p1
  Word = {w1, w2}
  Capacity = 2
  MaxPush = 4
  Rows = 2
  SizeMod = 4
SPECIFICATION FairLedgerSpec
INVARIANTS
  LedgerTypeOK
  PoppedWhole
  RowsAreTheNewest
PROPERTIES
  IsTradeQueue
  PopReturns
  PanelCatchesUp
