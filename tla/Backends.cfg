SPECIFICATION Spec
CONSTANTS
  MaxFrames = 3
  MaxRequests = 2
  FrameCount = 2
  RingCells = 4
  Plugins = {"vulkan", "d3d12", "metal"}
INVARIANTS ReadsIntact InUseAlive TexturesReady
CHECK_DEADLOCK FALSE
PROPERTIES CallsReturn ImplementsPipeline
