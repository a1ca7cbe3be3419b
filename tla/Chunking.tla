------------------------------ MODULE Chunking ------------------------------
(* How the text of a block is cut into chunks (chunking.rs).  A text is a     *)
(* sequence of paragraphs, a paragraph one of sentence lengths; a chunk is a  *)
(* sequence of pieces of sentences.  Characters are one byte wide, and the    *)
(* blank lines and spaces between paragraphs and sentences are the separators *)
(* of two and one characters that the code joins them with.                   *)
EXTENDS Naturals, SequencesExt

CONSTANTS Target,       \* CHUNK_TARGET
          Lengths,      \* lengths of sentences
          MaxSentences, \* bound: sentences of a paragraph
          MaxParas      \* bound: paragraphs of a text

ChunkingAssumption ==
  Target \in Nat \ {0} /\ Lengths \subseteq Nat \ {0} /\ MaxSentences \in Nat /\ MaxParas \in Nat

VARIABLE text  \* the text of the block

Paras == SeqOf(Lengths, MaxSentences) \ {<<>>}
BlockTexts == SeqOf(Paras, MaxParas)

Sum(s) == FoldLeft(+, 0, s)

\* The characters first..last of sentence s of paragraph p.
Piece(p, s, first, last) == [para |-> p, sentence |-> s, first |-> first, last |-> last]
Sentences(t, p) == [s \in DOMAIN t[p] |-> Piece(p, s, 1, t[p][s])]
Paragraphs(t) == [p \in DOMAIN t |-> Sentences(t, p)]

\* The length of a text is that of its pieces and of the separators between them.
PieceLen(x) == x.last - x.first + 1
Added(c, i) ==
  PieceLen(c[i]) + (IF i = 1 THEN 0 ELSE IF c[i].para = c[i-1].para THEN 1 ELSE 2)
ChunkLen(c) == Sum([i \in DOMAIN c |-> Added(c, i)])

Flush(a) == IF a.cur = <<>> THEN a ELSE [out |-> Append(a.out, a.cur), cur |-> <<>>]

\* A slip: the separator is not counted.
FitsBare(a, sep, n) == ChunkLen(a.cur) + n <= Target

\* Whether n more characters fit behind the current chunk and a separator.
Fits(a, sep, n) == ChunkLen(a.cur) + (IF a.cur = <<>> THEN 0 ELSE sep) + n <= Target

\* Pieces of the target, and what is left.
HardSplit(x) ==
  [i \in 1..((PieceLen(x) + Target - 1) \div Target) |->
     <<Piece(x.para, x.sentence, (i - 1) * Target + 1, Min({i * Target, x.last}))>>]

\* A sentence too long for a chunk is cut, and nothing is added to its last piece.
AddSentence(a, x) ==
  IF Fits(a, 1, PieceLen(x)) THEN [a EXCEPT !.cur = Append(@, x)]
  ELSE LET b == Flush(a)
       IN IF PieceLen(x) <= Target THEN [b EXCEPT !.cur = <<x>>]
          ELSE [b EXCEPT !.out = @ \o HardSplit(x)]

\* A paragraph, given by its sentences, that fits into a chunk goes into one;
\* another starts a new chunk and is added by its sentences.
AddPara(a, para) ==
  IF ChunkLen(para) <= Target
  THEN LET b == IF Fits(a, 2, ChunkLen(para)) THEN a ELSE Flush(a)
       IN [b EXCEPT !.cur = @ \o para]
  ELSE FoldLeft(AddSentence, Flush(a), para)

ChunkText(t) ==
  LET whole == FlattenSeq(Paragraphs(t))
  IN IF t = <<>> THEN <<>>
     ELSE IF ChunkLen(whole) <= Target THEN <<whole>>
     ELSE Flush(FoldLeft(AddPara, [out |-> <<>>, cur |-> <<>>], Paragraphs(t))).out

Init == text = <<>>

\* A block gets a text, of which all its chunks are made.
Write == text = <<>> /\ text' \in BlockTexts

Next == Write

Spec == Init /\ [][Next]_text

--------------------------------------------------------------------------
(* Each property is of the chunks of the block's text.                        *)

\* The provider is never given a text longer than the target, nor an empty one.
ChunksFit ==
  \A c \in Range(ChunkText(text)) : c # <<>> /\ ChunkLen(c) <= Target

\* The chunks hold every character of the text once, in the order of the text.
PieceChars(x) == [k \in 1..PieceLen(x) |-> <<x.para, x.sentence, x.first + k - 1>>]
Characters(pieces) == FlattenSeq([i \in DOMAIN pieces |-> PieceChars(pieces[i])])

NothingLost ==
  Characters(FlattenSeq(ChunkText(text))) = Characters(FlattenSeq(Paragraphs(text)))

\* The boundaries the code prefers: a paragraph or a sentence that fits into a
\* chunk is not divided.
Undivided(t, c) ==
  \A x \in Range(c) :
    /\ t[x.para][x.sentence] <= Target => PieceLen(x) = t[x.para][x.sentence]
    /\ ChunkLen(Sentences(t, x.para)) <= Target => Range(Sentences(t, x.para)) \subseteq Range(c)

NotDivided == \A c \in Range(ChunkText(text)) : Undivided(text, c)

\* What the chunks of a text are to be, whatever its paragraphs and sentences: none
\* too long, no character lost or moved, and cut at the best boundary there is.
ChunksRight == ChunksFit /\ NothingLost /\ NotDivided
=============================================================================
