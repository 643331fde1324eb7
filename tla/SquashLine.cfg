SPECIFICATION FairSpec
CONSTANTS
  o1 = o1
  o2 = o2
  o3 = o3
  o4 = o4
  d1 = d1
  Meta = Meta
  Objects = {o1, o2, o3, o4}
  Databases = {d1}
  Edits <- LineEdits
  Commands = {"squash"}
  MaxCrashes = 1
INVARIANTS
  ServedThroughout
  NeverForkedAlone
  PathLeadsHome
  UpToDateIsTrue
  ChainConsistent
PROPERTIES
  ImplementsLine
  DatabasesArrive
\* The edits run out, and databases need not be migrated again.
CHECK_DEADLOCK FALSE
