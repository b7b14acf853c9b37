\* The two frames in flight of the code, and three events of the window.
CONSTANTS
  Frames = 2
  MaxEvents = 3
SPECIFICATION FairProgram
CHECK_DEADLOCK FALSE
INVARIANTS
  FenceWillSignal
  NothingInUseIsTouched
  NothingUsedIsDestroyed
PROPERTY
  QuitEndsTheProgram
