SPECIFICATION Spec
CHECK_DEADLOCK FALSE
CONSTANTS
  Unreadable = Unreadable
  MaxRaw = 4
  MaxText = 3
  MaxLines = 2
INVARIANT RoundTrip
