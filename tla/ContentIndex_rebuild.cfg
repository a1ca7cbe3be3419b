SPECIFICATION Spec
CHECK_DEADLOCK FALSE
CONSTANTS
  NoEntry = NoEntry
  Entries = {e1, e2}
  Passes = {p1}
  PassOps = {"rebuild"}
  Ops = {"create", "update"}
  Outside = {}
  MayFail = {}
  Overlap = FALSE
  MaxOps = 2
  MaxPasses = 1
  MaxOutside = 0
  MaxCrashes = 0
SYMMETRY Symmetry
INVARIANTS MetaDurable
