SPECIFICATION Spec
CONSTANTS
  Loads = {l1, l2, l3, l4}
  MaxEntries = 3
SYMMETRY LoadSymmetry
INVARIANTS TypeOK HandlesDistinct HandleServesItsLoad BindingsLive SlotsAccounted
CHECK_DEADLOCK FALSE
