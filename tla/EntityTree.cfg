SPECIFICATION Spec
CONSTANTS
  MaxId = 4
  Locals = {0, 1}
INVARIANTS Forest UpdateComplete BegunInOrder
