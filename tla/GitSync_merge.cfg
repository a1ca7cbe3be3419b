SPECIFICATION Spec
CHECK_DEADLOCK FALSE
CONSTANTS
  Entries = {e1, e2}
  Old = {e1}
  Blocks = {b1, b2}
  MaxEdits = 3
  MaxFails = 0

PROPERTY OnlySameBlockConflicts
