CONSTANTS
  MaxFrames = 3
  InitialMode = "Fifo"
  MaxModeChanges = 2
  MaxSuspends = 1
  MaxSpurious = 1
SPECIFICATION EngineFairSpec
INVARIANTS TypeOK NewestKept MutexHeldBriefly FrameSignalKept NoFrameStranded
PROPERTIES StableRead ImplementsMailbox FrameDelivered ShutdownOutsideWindow
CHECK_DEADLOCK FALSE
