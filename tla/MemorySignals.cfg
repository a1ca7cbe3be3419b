SPECIFICATION MemorySpec
CONSTANTS
  Entries = {e1}
  Searches = {s1, s2}
  Models = {m1, m2}
  Passes = {p1}
  MaxReinforcements = 2
  Ops = {"delete", "update", "blockDelete", "sync", "rebuild"}
  MaxCalls = 2
  MaxFeedback = 2
  MaxEvents = 1
  Ranked = {1, 2, 3}
  Limits = {1, 2}
  MinRecall = 2
  Supplements = 1
  Fading = {2}
  Transient = {1}
  MaxRows = 2
  MaxNear = 2
  MaxLearned = 2
  Unreadable = Unreadable
  MaxRaw = 4
  MaxText = 3
  MaxLines = 2
  Target = 5
  Lengths = {1, 11}
  MaxSentences = 3
  MaxParas = 3
SYMMETRY Symmetry
CHECK_DEADLOCK FALSE
INVARIANTS VectorsMatch FeedbackCounts PrecisionOwned PageRight ReadBack ChunksRight
PROPERTY LearnedStays
