SPECIFICATION Spec
CONSTANTS
  NoWriter = NoWriter
  Writers = {w1}
  Searchers = {s1, s2}
  Methods = {"batch"}
  Rpcs = {"fulltext"}
  MayFail = {}
  MaxCalls = 1
  MaxAsks = 2
  MaxPass = 1
SYMMETRY Symmetry
INVARIANTS ContentFresh
