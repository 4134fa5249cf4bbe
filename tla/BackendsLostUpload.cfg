SPECIFICATION Spec
CONSTANTS
  MaxFrames = 3
  MaxRequests = 2
  FrameCount = 2
  RingCells = 4
  Plugins = {"d3d12"}
INVARIANT TexturesUploaded
CHECK_DEADLOCK FALSE
