SPECIFICATION LiveSpec
CONSTANTS
  Pages <- TwoPages
  Chips <- Modes
  Hidden = "hidden"
  Images <- AllImages
  SizeOf <- Sizes
  AllocFails = TRUE
  MaxQueue = 3
INVARIANTS TypeOK FreeIsReturned NewestShown
PROPERTIES NoWriteWhileHeld OwedIsDrawn
