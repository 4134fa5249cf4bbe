SPECIFICATION PoolSpec
CONSTANTS
  MaxId = 4
  Values = {0, 1, 2}
  Default = 0
INVARIANT Packed
PROPERTY ImplementsMap
