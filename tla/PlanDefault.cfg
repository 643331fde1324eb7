CONSTANTS
  NoOwner = ""
  MaxEdits = 1
  Names <- MCNames
  Kind <- MCKind
  Owner <- MCOwner
  Aspect <- MCAspect
  Uses <- MCUses
  Alike <- MCAlike
  Pairs <- MCPairs

SPECIFICATION Spec

INVARIANT ExpressionAsIs

CHECK_DEADLOCK FALSE
