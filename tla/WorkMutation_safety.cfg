SPECIFICATION Spec
CONSTANTS
  page = page
  index = index
  asset = asset
  home = home
  old = old
  written = written
  edited = edited
  dir = dir
  absent = absent
  Members <- MCMembers
  Start <- MCStart
  Shapes <- MCShapes
  Edits = {edited}
  Old = old
  Written = written
  Dir = dir
  Absent = absent
  Retained = 1
  MaxMutations = 2
  MaxEdits = 2
  MaxFaults = 1
  MaxCrashes = 1
INVARIANTS TypeOK NothingLost
PROPERTY IsAtomic
CHECK_DEADLOCK FALSE
