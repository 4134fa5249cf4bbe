SPECIFICATION Spec
CONSTANTS
  MaxFrames = 3
  MaxRequests = 2
  FrameCount = 2
  RingCells = 4
  Plugins = {"vulkan"}
INVARIANT ModeTaken
CHECK_DEADLOCK FALSE
