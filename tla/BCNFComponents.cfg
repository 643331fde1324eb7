SPECIFICATION Spec
CONSTANTS
  Columns <- MCColumns
  Tables <- MCTables
INVARIANT ComponentsInBCNF
CHECK_DEADLOCK FALSE
