SPECIFICATION Spec
CHECK_DEADLOCK FALSE
CONSTANTS
  NoEntry = NoEntry
  Entries = {e1, e2}
  Passes = {p1, p2}
  PassOps = {"sync", "rebuild"}
  Ops = {"create", "update", "edit", "delete", "link"}
  Outside = {"garble", "remove"}
  MayFail = {"attachments", "insert", "render", "removeDir"}
  Overlap = TRUE
  MaxOps = 2
  MaxPasses = 2
  MaxOutside = 1
  MaxCrashes = 1
SYMMETRY Symmetry
INVARIANTS TypeOK FilesSurvive PassesConverge
