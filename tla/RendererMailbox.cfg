SPECIFICATION FairSpec
CONSTANTS
  Lengths = {0, 1, 2}
  InitialSize <- MCInitialSize
  InitialMode = "Fifo"
  MaxResizes = 2
  MaxModeChanges = 2
INVARIANTS TypeOK NoResizeLost NoModeLost
PROPERTIES ResizeArrives ModeHandedOver
CHECK_DEADLOCK FALSE
