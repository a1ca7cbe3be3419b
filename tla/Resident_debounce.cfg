SPECIFICATION Spec
CHECK_DEADLOCK FALSE
CONSTANTS
  Servers = {s1, s2}
  Shims = {a, b}
  Cli = {k}
  NoServer = NoServer
  MaxDeaths = 0

PROPERTY IdleDebounced
