-------------------------- MODULE MCMemorySignals --------------------------
(* A small instance of MemorySignals for TLC, and beside it one each of       *)
(* Ranking, of the `.nomai` format and of chunking, with which it shares no   *)
(* variable: `part` says of which of them a behaviour is, and the others stay *)
(* in their initial states.                                                   *)
EXTENDS MemorySignals, TLC

CONSTANTS Ranked, Limits, MinRecall, Supplements, Fading, Transient, MaxRows, MaxNear, MaxLearned,
          Unreadable, MaxRaw, MaxText, MaxLines,
          Target, Lengths, MaxSentences, MaxParas

VARIABLES part, rows, near, learned, section, doc, from, text

\* Below the threshold; well above it and confirmed often; the same words, confirmed once.
Kinds == {<<7, 3>>, <<9, 3>>, <<10, 1>>}

Rnk == INSTANCE Ranking WITH Entries <- Ranked, Weights <- <<1, 1>>
Fmt == INSTANCE NomaiFormat WITH file <- section
Chk == INSTANCE Chunking

ASSUME MemoryAssumption ==
  Rnk!RankingAssumption /\ Fmt!FormatAssumption /\ Chk!ChunkingAssumption

rnk == <<rows, near, learned>>
fmt == <<section, doc, from>>
all == <<part, vars, rnk, fmt, text>>

MemoryInit ==
  /\ part \in {"signals", "ranking", "format", "chunking"}
  /\ Init /\ Rnk!Init /\ Fmt!Init /\ Chk!Init

MemoryNext ==
  \/ part = "signals"  /\ Next     /\ UNCHANGED <<part, rnk, fmt, text>>
  \/ part = "ranking"  /\ Rnk!Next /\ UNCHANGED <<part, vars, fmt, text>>
  \/ part = "format"   /\ Fmt!Next /\ UNCHANGED <<part, vars, rnk, text>>
  \/ part = "chunking" /\ Chk!Next /\ UNCHANGED <<part, vars, rnk, fmt>>

MemorySpec == MemoryInit /\ [][MemoryNext]_all

Symmetry == Permutations(Entries) \union Permutations(Searches)
              \union Permutations(Models) \union Permutations(Passes)

\* Ranking: the page is what scores best by the documented formula.
PageRight == part = "ranking" => Rnk!PageRight

\* .nomai: a document without the known traps is read back as it was rendered, and
\* those are exactly the traps of a header value.
ReadBack == Fmt!ReadBack

\* Chunking: no chunk too long, nothing lost, nothing divided that fits.
ChunksRight == Chk!ChunksRight
=============================================================================
