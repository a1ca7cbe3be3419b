SPECIFICATION Spec
CONSTANTS
  NoWriter = NoWriter
  Writers = {w1, w2}
  Searchers = {s1, s2}
  Methods = {"block.delete", "entry.update", "entry.delete", "index.sync"}
  Rpcs = {"semantic"}
  MayFail = {"removeDir"}
  MaxCalls = 2
  MaxAsks = 2
  MaxPass = 1
SYMMETRY Symmetry
INVARIANTS TypeOK ContentFresh CacheInv
PROPERTIES Refines
