SPECIFICATION SandboxSpec
CONSTANTS
  Rows = 3
  Window = 2
  SelectSpot <- MCSelectSpot
  Objects = {"cube"}
  Places <- MCPlaces
  Corner = 4
  Behind <- MCBehind
  NoObject = NoObject
  MaxFrames = 3
  Loads <- MCLoads
  MaxEvents = 3
INVARIANTS PointerOnOne ClicksEarned PictureWhole
CHECK_DEADLOCK FALSE
