CONSTANTS
  MaxFrames = 1
  InitialMode = "Fifo"
  MaxModeChanges = 0
  MaxSuspends = 0
  MaxSpurious = 0
SPECIFICATION EngineFairSpec
PROPERTY ShutdownCompletes
CHECK_DEADLOCK FALSE
