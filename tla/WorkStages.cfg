SPECIFICATION Spec
CONSTANTS
  e = e
  b = b
  p1 = p1
  p2 = p2
  Items = {e, b}
  Kind <- MCKind
  Sizes <- MCSizes
  HasCode = {}
  Procs = {p1, p2}
  MaxHolds = 1
  MaxEvents = 1
SYMMETRY Symmetry
INVARIANTS TypeOK CoherentPages SomeoneProceeds NoDeadEnd
PROPERTY HeldStays
CHECK_DEADLOCK FALSE
