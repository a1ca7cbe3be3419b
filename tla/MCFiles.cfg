SPECIFICATION FilesSpec
CHECK_DEADLOCK FALSE
CONSTANTS
  NoEntry = NoEntry
  Entries = {e1, e2}
  Passes = {p1}
  PassOps = {"sync"}
  Ops = {"create", "update", "edit", "delete", "link"}
  Outside = {}
  MayFail = {"attachments", "insert", "render", "removeDir"}
  Overlap = FALSE
  MaxOps = 4
  MaxPasses = 1
  MaxOutside = 0
  MaxCrashes = 2
  Fixtures = {f1}
  Cases = {c1}
  Clients = {k1, k2}
  Searches = {s1}
  MaxStarts = 2
  MaxCalls = 2
  MaxRestarts = 1
  Shared = {g1, g2}
  Old = {g1}
  Blocks = {b1}
  MaxEdits = 3
  MaxFails = 2
  Conns = {d1, d2}
  MaxLines = 4
  MaxDaemons = 3
SYMMETRY Symmetry
INVARIANTS
  RowBacked EditsDurable MetaDurable DeletesFinal LinksKept
  NoFixtureBetweenRuns EditsKept NoMarkersPushed MissedOnlyOverSwap
PROPERTIES ReportComplete OkMeansSynced RestartTakesEffect
