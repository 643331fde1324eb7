CONSTANTS
  NoOwner = ""
  MaxEdits = 2
  Names <- MCNames
  Kind <- MCKind
  Owner <- MCOwner
  Aspect <- MCAspect
  Uses <- MCUses
  Alike <- MCAlike
  Pairs <- MCPairs

SPECIFICATION Spec

INVARIANTS
  EdgeSimulates
  LandsAtNew
  DataKept
  UndoRestores
  FailsForAReason

CHECK_DEADLOCK FALSE
