SPECIFICATION ProcessesSpec
CHECK_DEADLOCK FALSE
CONSTANTS
  Servers = {s1, s2}
  Shims = {a}
  Cli = {k}
  NoServer = NoServer
  MaxDeaths = 1
  Entries = {e1, e2}
  Old = {e1}
  Blocks = {b1}
  MaxEdits = 2
  MaxFails = 1
  NoEntry = NoEntry
  Passes = {p1}
  NoWriter = NoWriter
  Writers = {w1, w2}
  Searchers = {q1}
  Conns = {c1, c2}
  MaxLines = 2
  MaxDaemons = 2
INVARIANTS OneOwner
PROPERTIES DaemonsServeAndLeave SettlesAgain WorkEnds
