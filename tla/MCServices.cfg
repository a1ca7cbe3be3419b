SPECIFICATION ServicesSpec
CHECK_DEADLOCK FALSE
CONSTANTS
  Channel = {a, b}
  Subscribers = {x}
  NoKey = NoKey
  Conns = {c1, c2}
  Limits = {1, 2}
  MaxSeq = 4
  MaxPurges = 2
  MaxResets = 1
  Handles = {h}
  NoHandle = NoHandle
  MaxIds = 3
  MaxOps = 3
  Blocks = {b1}
  Texts = {t, u}
  NoText = NoText
  Configs <- Booted
  Jobs = {j1, j2}
  MaxChunks = 3
  MaxBoots = 1
  MaxRuns = 2
  NoWriter = NoWriter
  Writers = {w1, w2}
  Searchers = {q1}
  Conversation = {k1, k2}
  Consumer = {x}
  Randoms = {1, 2}
  MaxWrites = 3
  MaxMs = 2
  MaxSweeps = 1
INVARIANTS
  TypesOK NoneSkipped VectorsRight EffectsFresh ReplicaFollows
  MissedOnlyInMs
PROPERTIES HandedOnce AllOrNothing OkIsComplete RunCovers
