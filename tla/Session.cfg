SPECIFICATION Spec
CONSTANTS
  Images <- BadgeImages
  SizeOf <- Unit
  AllocFails = FALSE
  MaxQueue = 2
  Widths <- OneWidth
  Picture <- Drawn
  Late <- LateGlobals
  MaxSessions = 2
  MaxDone = 2
INVARIANTS TypeOK MadeOnThisConnection SerialCounts ModeShown EchoStaysOut
CHECK_DEADLOCK FALSE
