\* A ring of two that fills and drops, minutes of two two-tick seconds, an
\* exchange whose clock may be a tick ahead, and one patch, which may leave the
\* ring out of order.
CONSTANTS
  Second = 2
  Minute = 4
  Steps = 2
  Ahead = 1
  MaxTime = 9
  MaxBook = 4
  MaxPatch = 1
  Query = {3, 6}
  PanelTime = 7
  PanelBook = 3
SPECIFICATION FairPanelSpec
CHECK_DEADLOCK FALSE
INVARIANTS
  PanelTypeOK
  NotFromTheFuture
  FreshAnswer
  NoneMeansGone
PROPERTIES
  PastIsStable
  ShownNeverGoesBack
  PanelSettles
