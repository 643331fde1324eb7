SPECIFICATION Spec
CONSTANTS
  o1 = o1
  o2 = o2
  o3 = o3
  o4 = o4
  d1 = d1
  Meta = Meta
  Objects = {o1, o2, o3, o4}
  Databases = {d1}
  Edits <- RevertEdits
  Commands = {}
  MaxCrashes = 0
INVARIANT ServedThroughout
CHECK_DEADLOCK FALSE
