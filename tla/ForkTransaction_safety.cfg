SPECIFICATION Spec
CONSTANTS
  gone = gone
  doc = doc
  skill = skill
  page = page
  fresh = fresh
  ledger = ledger
  history = history
  event = event
  Dests <- MCDests
  Dirs = {gone, skill, fresh, history}
  Tracking = {ledger, history, event}
  Parent <- MCParent
  Root = root
  Plans <- MCPlans
  Contents = {"old", "new", "edited"}
  Edits = {"edited"}
  Absent = absent
  Dir = dir
  Found = found
  Start <- MCStart
  MaxPreviews = 3
  MaxEdits = 1
  MaxFaults = 1
  MaxCrashes = 1
INVARIANTS TypeOK EditsKept TrackingLast Recoverable
PROPERTY RollbackRestores
CHECK_DEADLOCK FALSE
