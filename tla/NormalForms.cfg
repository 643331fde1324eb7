SPECIFICATION Spec
CONSTANTS
  Columns <- MCColumns
  Tables <- MCTables
INVARIANTS
  KeysAreCandidateKeys
  ReductionKeepsMeaning
  CoverIsCanonical
  SilenceMeansNormal
  SuggestionsAreSound
CHECK_DEADLOCK FALSE
