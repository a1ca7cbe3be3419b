---------------------------- MODULE Texts_proofs ----------------------------
(***************************************************************************)
(* Proofs about what MCMemorySignals runs beside MemorySignals: chunking,   *)
(* for any target and any text, and the `.nomai` format, for texts of any   *)
(* length and any number of tags and lines.                                 *)
(***************************************************************************)
EXTENDS MCMemorySignals, SequencesExt, SequenceTheorems, TLAPS

-----------------------------------------------------------------------------
(* Sequences that are flattened.                                           *)

Joined(x, y) == x \o y
Total(x, y) == x + y
Join == INSTANCE Folding WITH Op <- Joined
Add == INSTANCE Folding WITH Op <- Total

\* Sequences: what holds of the empty one, and with each sequence of any that is longer
\* by an element, holds of all.
LEMMA SeqUpTo ==
  ASSUME NEW S, NEW T, <<>> \in T,
         \A s \in Seq(S), e \in S : s \in T => Append(s, e) \in T
  PROVE  Seq(S) \subseteq T
<1>1. SUFFICES ASSUME NEW s \in Seq(S) PROVE s \in T
  OBVIOUS
<1> DEFINE U == {i \in 0..Len(s) : SubSeq(s, 1, i) \in T}
<1>2. Len(s) \in Nat
  BY LenProperties
<1>3. 0 \in U
  <2>1. SubSeq(s, 1, 0) = <<>>
    BY SubSeqEmpty
  <2>2. SubSeq(s, 1, 0) \in T
    BY <2>1, Zenon
  <2> QED BY <2>2, <1>2
<1>4. ASSUME NEW i \in 1..Len(s), i - 1 \in U PROVE i \in U
  <2>1. SubSeq(s, 1, i) = SubSeq(s, 1, i - 1) \o <<s[i]>>
    <3>1. 1 \in 1..Len(s) /\ i \in 1..Len(s)
      BY <1>2
    <3> QED BY <3>1, SubSeqRecursiveSecond
  <2>2. SubSeq(s, 1, i - 1) \in Seq(S) /\ s[i] \in S
    BY SubSeqProperties, ElementOfSeq, <1>2
  <2>3. SubSeq(s, 1, i) = Append(SubSeq(s, 1, i - 1), s[i])
    BY <2>1, <2>2, AppendIsConcat
  <2>4. SubSeq(s, 1, i - 1) \in T
    BY <1>4
  <2>5. SubSeq(s, 1, i) \in T
    BY <2>2, <2>3, <2>4, Zenon
  <2> QED BY <2>5
<1>5. 0..Len(s) \subseteq U
  <2> HIDE DEF U
  <2> QED BY <1>2, <1>3, <1>4, Join!UpTo
<1>6. Len(s) \in U /\ SubSeq(s, 1, Len(s)) = s
  BY <1>2, <1>5, SubSeqFull
<1> QED BY <1>6

\* Sequences: to flatten is to concatenate in a loop.
LEMMA FlattenIsLoop ==
  ASSUME NEW S, NEW ss \in Seq(Seq(S))
  PROVE  FlattenSeq(ss) = Join!Fold(<<>>, ss)
<1> DEFINE n == Len(ss)
           Q(g) == g = [i \in 1..n |-> IF i = 1 THEN ss[i] ELSE g[i-1] \o ss[i]]
           flat == CHOOSE g : Q(g)
<1>1. n \in Nat /\ DOMAIN ss = 1..n /\ \A i \in 1..n : ss[i] \in Seq(S)
  BY LenProperties, ElementOfSeq
<1>2. PICK a : Join!IsLoop(a, <<>>, ss, n)
  <2> HIDE DEF n
  <2> QED BY <1>1, Join!LoopExists
<1>3. a[0] = <<>> /\ a[n] = Join!Fold(<<>>, ss) /\ \A i \in 1..n : a[i] = a[i-1] \o ss[i]
  BY <1>2 DEF Join!IsLoop, Joined
<1>4. n # 0 => a[1] = ss[1]
  <2>1. SUFFICES ASSUME n # 0 PROVE a[1] = ss[1]
    OBVIOUS
  <2>2. 1 \in 1..n /\ a[1] = a[0] \o ss[1]
    <3>1. 1 \in 1..n /\ 1 - 1 = 0
      BY <2>1, <1>1
    <3> QED BY <3>1, <1>3
  <2>3. a[1] = <<>> \o ss[1] /\ ss[1] \in Seq(S)
    BY <2>2, <1>3, <1>1
  <2> QED BY <2>3, ConcatEmptySeq
<1>5. Q([i \in 1..n |-> a[i]])
  <2>1. ASSUME NEW i \in 1..n PROVE a[i] = IF i = 1 THEN ss[i] ELSE a[i-1] \o ss[i]
    <3>1. CASE i = 1
      BY <3>1, <1>4
    <3> QED BY <3>1, <1>3
  <2> QED BY <2>1, <1>1
<1>6. Q(flat)
  <2> HIDE DEF Q
  <2> QED BY <1>5
<1>7. CASE n = 0
  <2>1. ss = <<>>
    BY <1>7, <1>1, EmptySeq
  <2> QED BY <2>1, <1>7, <1>3 DEF FlattenSeq
<1>8. CASE n # 0
  <2> DEFINE U == {i \in 0..n : i = 0 \/ flat[i] = a[i]}
  <2>1. 0..n \subseteq U
    <3>1. 0 \in U
      BY <1>1
    <3>2. ASSUME NEW i \in 1..n, i - 1 \in U PROVE i \in U
      <4>1. CASE i = 1
        <5>1. flat[1] = ss[1]
          BY <4>1, <1>6, Zenon
        <5>2. a[1] = ss[1]
          BY <1>4, <1>8
        <5> QED BY <5>1, <5>2, <4>1, <1>1, SMTT(30)
      <4>2. CASE i # 1
        <5>1. flat[i] = flat[i-1] \o ss[i]
          BY <4>2, <1>6, Zenon
        <5> HIDE DEF flat, Q
        <5>2. flat[i-1] = a[i-1]
          BY <3>2, <4>2
        <5>3. a[i] = a[i-1] \o ss[i]
          BY <1>3
        <5>4. flat[i] = a[i]
          BY <5>1, <5>2, <5>3
        <5> QED BY <5>4, <1>1, SMTT(30)
      <4> QED BY <4>1, <4>2
    <3> HIDE DEF U, flat, n
    <3> QED BY <1>1, <3>1, <3>2, Join!UpTo
  <2>2. flat[n] = a[n]
    <3> HIDE DEF flat
    <3> QED BY <2>1, <1>1, <1>8
  <2>3. FlattenSeq(ss) = flat[n]
    BY <1>8 DEF FlattenSeq
  <2> QED BY <2>2, <2>3, <1>3
<1> QED BY <1>7, <1>8

\* Sequences: what flattening gives, step by step.
LEMMA FlattenNone == FlattenSeq(<<>>) = <<>>
BY DEF FlattenSeq

LEMMA FlattenType ==
  ASSUME NEW S, NEW ss \in Seq(Seq(S))
  PROVE  FlattenSeq(ss) \in Seq(S)
<1> DEFINE n == Len(ss)  T == (0..n) \X Seq(S)
<1>1. n \in Nat /\ DOMAIN ss = 1..n /\ \A i \in 1..n : ss[i] \in Seq(S)
  BY LenProperties, ElementOfSeq
<1>2. <<0, <<>> >> \in T
  <2>1. <<>> \in Seq(S) /\ 0 \in 0..n
    BY <1>1, EmptySeq
  <2> QED BY <2>1, Zenon
<1>3. ASSUME NEW i \in 1..n, NEW x, <<i - 1, x>> \in T PROVE <<i, Joined(x, ss[i])>> \in T
  <2>1. x \in Seq(S)
    BY <1>3
  <2>2. x \o ss[i] \in Seq(S)
    BY <2>1, <1>1, ConcatProperties
  <2>3. Joined(x, ss[i]) \in Seq(S)
    BY <2>2 DEF Joined
  <2>4. i \in 0..n
    BY <1>1
  <2> QED BY <2>3, <2>4, Zenon
<1>4. <<n, Join!Fold(<<>>, ss)>> \in T
  <2> HIDE DEF T, n
  <2> QED BY <1>1, <1>2, <1>3, Join!FoldHolds
<1> QED BY <1>4, FlattenIsLoop

LEMMA FlattenAppend ==
  ASSUME NEW S, NEW ss \in Seq(Seq(S)), NEW s \in Seq(S)
  PROVE  FlattenSeq(Append(ss, s)) = FlattenSeq(ss) \o s
<1> DEFINE n == Len(ss)  more == Append(ss, s)
<1>1. n \in Nat /\ DOMAIN ss = 1..n
  BY LenProperties
<1>2. /\ more \in Seq(Seq(S)) /\ Len(more) = n + 1
      /\ \A i \in 1..n : more[i] = ss[i]
      /\ more[n+1] = s
  BY AppendProperties
<1>3. DOMAIN more = 1..(n+1)
  BY <1>2, LenProperties
<1>4. Join!Fold(<<>>, more) = Joined(Join!Fold(<<>>, ss), more[n+1])
  <2> HIDE DEF n, more
  <2> QED BY <1>1, <1>2, <1>3, Join!FoldOfMore
<1> QED BY <1>4, <1>2, FlattenIsLoop DEF Joined

\* Flattening two sequences of sequences together is flattening each.
LEMMA FlattenConcat ==
  ASSUME NEW S, NEW ss \in Seq(Seq(S)), NEW tt \in Seq(Seq(S))
  PROVE  FlattenSeq(ss \o tt) = FlattenSeq(ss) \o FlattenSeq(tt)
<1> DEFINE T == {x \in Seq(Seq(S)) : FlattenSeq(ss \o x) = FlattenSeq(ss) \o FlattenSeq(x)}
<1>1. <<>> \in T
  BY FlattenNone, FlattenType, ConcatEmptySeq, EmptySeq
<1>2. ASSUME NEW x \in Seq(Seq(S)), NEW e \in Seq(S), x \in T PROVE Append(x, e) \in T
  <2>1. ss \o Append(x, e) = Append(ss \o x, e)
    <3>1. Append(x, e) = x \o <<e>> /\ <<e>> \in Seq(Seq(S))
      BY AppendIsConcat
    <3>2. ss \o x \in Seq(Seq(S))
      BY ConcatProperties
    <3>3. Append(ss \o x, e) = (ss \o x) \o <<e>>
      BY <3>2, AppendIsConcat
    <3> QED BY <3>1, <3>3, ConcatAssociative
  <2>2. ss \o x \in Seq(Seq(S)) /\ Append(x, e) \in Seq(Seq(S))
    BY ConcatProperties, AppendProperties
  <2>3. FlattenSeq(ss \o Append(x, e)) = FlattenSeq(ss \o x) \o e
    BY <2>1, <2>2, FlattenAppend
  <2>4. FlattenSeq(Append(x, e)) = FlattenSeq(x) \o e
    BY FlattenAppend
  <2>5. FlattenSeq(ss) \in Seq(S) /\ FlattenSeq(x) \in Seq(S)
    BY FlattenType
  <2>6. (FlattenSeq(ss) \o FlattenSeq(x)) \o e = FlattenSeq(ss) \o (FlattenSeq(x) \o e)
    BY <2>5, ConcatAssociative, SMTT(30)
  <2>7. FlattenSeq(ss \o x) = FlattenSeq(ss) \o FlattenSeq(x)
    BY <1>2
  <2> QED BY <2>2, <2>3, <2>4, <2>6, <2>7
<1>3. Seq(Seq(S)) \subseteq T
  <2> HIDE DEF T
  <2> QED BY <1>1, <1>2, SeqUpTo
<1> QED BY <1>3

\* What one more element adds, for sequences that are given by functions.
LEMMA FlattenMore ==
  ASSUME NEW S, NEW n \in Nat, NEW r \in [1..n -> Seq(S)], NEW q \in [1..(n+1) -> Seq(S)],
         \A i \in 1..n : q[i] = r[i]
  PROVE  /\ FlattenSeq(r) \in Seq(S) /\ FlattenSeq(q) \in Seq(S)
         /\ FlattenSeq(q) = FlattenSeq(r) \o q[n+1]
<1>1. r \in Seq(Seq(S)) /\ Len(r) = n
  <2>1. r \in Seq(Seq(S))
    BY SeqDef
  <2> QED BY <2>1
<1> DEFINE e == q[n+1]
           more == Append(r, e)
<1>2. e \in Seq(S)
  <2>1. n + 1 \in 1..(n+1)
    OBVIOUS
  <2> QED BY <2>1
<1> HIDE DEF e
<1>3. /\ more \in Seq(Seq(S)) /\ Len(more) = n + 1
      /\ \A i \in 1..n : more[i] = r[i]
      /\ more[n+1] = e
  BY <1>1, <1>2, AppendProperties
<1> HIDE DEF more
<1>4. more = [i \in 1..(n+1) |-> more[i]]
  BY <1>3, LenProperties
<1>5. \A i \in 1..(n+1) : more[i] = q[i]
  <2>1. ASSUME NEW i \in 1..(n+1) PROVE more[i] = q[i]
    <3>1. i \in 1..n \/ i = n + 1
      OBVIOUS
    <3> QED BY <3>1, <1>3 DEF e
  <2> QED BY <2>1
<1>6. q = more
  BY <1>4, <1>5
<1>7. FlattenSeq(more) = FlattenSeq(r) \o e
  BY <1>1, <1>2, FlattenAppend DEF more
<1>8. FlattenSeq(more) \in Seq(S) /\ FlattenSeq(r) \in Seq(S)
  BY <1>1, <1>3, FlattenType
<1> QED BY <1>6, <1>7, <1>8 DEF e

\* Numbers: the least of a set.

\* Sequences: what two of them hold together.
LEMMA ChkRangeConcatenation ==
  ASSUME NEW S, NEW s \in Seq(S), NEW t \in Seq(S)
  PROVE  Chk!Range(s \o t) = Chk!Range(s) \union Chk!Range(t)
<1>1. \A f : Chk!Range(f) = Range(f)
  BY DEF Chk!Range, Range
<1> QED BY <1>1, RangeConcatenation

LEMMA ChkRangeOfSeq ==
  ASSUME NEW S, NEW s \in Seq(S)
  PROVE  Chk!Range(s) \in SUBSET S
BY RangeOfSeq DEF Chk!Range, Range

\* Chunking and the format have sequence operators of their own, of the same definition.
LEMMA ChkFlatten == ASSUME NEW ss PROVE Chk!FlattenSeq(ss) = FlattenSeq(ss)
BY DEF Chk!FlattenSeq, FlattenSeq

\* The folds that each instance has of the library are the same one.
LEMMA FmtFlatten == ASSUME NEW ss PROVE Fmt!FlattenSeq(ss) = FlattenSeq(ss)
BY DEF Fmt!FlattenSeq, FlattenSeq

LEMMA ChkFlattenNone == Chk!FlattenSeq(<<>>) = <<>>
BY FlattenNone, ChkFlatten

LEMMA ChkFlattenType ==
  ASSUME NEW S, NEW ss \in Seq(Seq(S))
  PROVE  Chk!FlattenSeq(ss) \in Seq(S)
BY FlattenType, ChkFlatten

LEMMA ChkFlattenAppend ==
  ASSUME NEW S, NEW ss \in Seq(Seq(S)), NEW s \in Seq(S)
  PROVE  Chk!FlattenSeq(Append(ss, s)) = Chk!FlattenSeq(ss) \o s
BY FlattenAppend, ChkFlatten

LEMMA ChkFlattenConcat ==
  ASSUME NEW S, NEW ss \in Seq(Seq(S)), NEW tt \in Seq(Seq(S))
  PROVE  Chk!FlattenSeq(ss \o tt) = Chk!FlattenSeq(ss) \o Chk!FlattenSeq(tt)
BY FlattenConcat, ChkFlatten

LEMMA FmtFlattenNone == Fmt!FlattenSeq(<<>>) = <<>>
BY FlattenNone, FmtFlatten

LEMMA FmtFlattenType ==
  ASSUME NEW S, NEW ss \in Seq(Seq(S))
  PROVE  Fmt!FlattenSeq(ss) \in Seq(S)
BY FlattenType, FmtFlatten

LEMMA FmtFlattenAppend ==
  ASSUME NEW S, NEW ss \in Seq(Seq(S)), NEW s \in Seq(S)
  PROVE  Fmt!FlattenSeq(Append(ss, s)) = Fmt!FlattenSeq(ss) \o s
BY FlattenAppend, FmtFlatten

LEMMA FmtFlattenConcat ==
  ASSUME NEW S, NEW ss \in Seq(Seq(S)), NEW tt \in Seq(Seq(S))
  PROVE  Fmt!FlattenSeq(ss \o tt) = Fmt!FlattenSeq(ss) \o Fmt!FlattenSeq(tt)
BY FlattenConcat, FmtFlatten

LEMMA FmtFlattenMore ==
  ASSUME NEW S, NEW n \in Nat, NEW r \in [1..n -> Seq(S)], NEW q \in [1..(n+1) -> Seq(S)],
         \A i \in 1..n : q[i] = r[i]
  PROVE  /\ Fmt!FlattenSeq(r) \in Seq(S) /\ Fmt!FlattenSeq(q) \in Seq(S)
         /\ Fmt!FlattenSeq(q) = Fmt!FlattenSeq(r) \o q[n+1]
BY FlattenMore, FmtFlatten

-----------------------------------------------------------------------------
(* Chunking.                                                               *)

\* What a text is made of, and a piece of a sentence, never empty.
Texts == Seq(Seq(Nat \ {0}))
AllPieces == {x \in [para : Nat, sentence : Nat, first : Nat, last : Nat] : x.first <= x.last}

\* The separator that goes before x behind the pieces c.
Sep(c, x) == IF c = <<>> THEN 0 ELSE IF c[Len(c)].para = x.para THEN 1 ELSE 2

LEMMA PieceType ==
  ASSUME NEW x \in AllPieces
  PROVE  Chk!PieceLen(x) \in Nat \ {0} /\ x.para \in Nat
BY DEF Chk!PieceLen, AllPieces

LEMMA SumIsLoop == ASSUME NEW s PROVE Chk!Sum(s) = Add!Fold(0, s)
BY DEF Chk!Sum, Chk!FoldLeft, Chk!MapThenFoldSet, Chk!Max, Add!Fold, Add!Greatest, Total

\* Lengths: of no piece, and of one piece more.
LEMMA LengthOfNone == Chk!ChunkLen(<<>>) = 0
<1> DEFINE q == [i \in DOMAIN <<>> |-> Chk!Added(<<>>, i)]
<1>1. DOMAIN q = {}
  OBVIOUS
<1>2. Add!Fold(0, q) = 0
  <2> HIDE DEF q
  <2> QED BY <1>1, Add!FoldOfNone
<1> QED BY <1>2, SumIsLoop DEF Chk!ChunkLen

\* A piece adds its own length and that of the separator before it.
LEMMA LengthOfAppend ==
  ASSUME NEW c \in Seq(AllPieces), NEW x \in AllPieces
  PROVE  Chk!ChunkLen(Append(c, x)) = Chk!ChunkLen(c) + Chk!PieceLen(x) + Sep(c, x)
<1> DEFINE n == Len(c)
           d == Append(c, x)
           r == [i \in DOMAIN c |-> Chk!Added(c, i)]
           q == [i \in DOMAIN d |-> Chk!Added(d, i)]
<1>1. n \in Nat /\ DOMAIN c = 1..n
  BY LenProperties
<1>2. /\ d \in Seq(AllPieces) /\ Len(d) = n + 1
      /\ \A i \in 1..n : d[i] = c[i]
      /\ d[n+1] = x
  BY AppendProperties
<1>3. DOMAIN d = 1..(n+1)
  BY <1>2, LenProperties
<1> HIDE DEF n, d
<1>4. DOMAIN r = 1..n /\ DOMAIN q = 1..(n+1)
  BY <1>1, <1>3
<1>5. ASSUME NEW i \in 1..n PROVE r[i] = q[i]
  <2>1. i \in DOMAIN c /\ i \in DOMAIN d /\ d[i] = c[i]
    BY <1>1, <1>2, <1>3
  <2>2. i # 1 => d[i-1] = c[i-1]
    BY <1>1, <1>2
  <2>3. r[i] = Chk!Added(c, i) /\ q[i] = Chk!Added(d, i)
    BY <2>1
  <2>4. Chk!Added(c, i) = Chk!Added(d, i)
    BY <2>1, <2>2 DEF Chk!Added
  <2> QED BY <2>3, <2>4
<1>6. Add!Fold(0, q) = Total(Add!Fold(0, r), q[n+1])
  <2> HIDE DEF q, r
  <2> QED BY <1>1, <1>4, <1>5, Add!FoldOfMore
<1>7. q[n+1] = Chk!PieceLen(x) + Sep(c, x)
  <2>1. q[n+1] = Chk!Added(d, n + 1)
    BY <1>1, <1>3
  <2>2. CASE n = 0
    <3>1. c = <<>>
      BY <2>2, EmptySeq DEF n
    <3> QED BY <2>1, <2>2, <3>1, <1>2 DEF Chk!Added, Sep
  <2>3. CASE n # 0
    <3>1. c # <<>>
      BY <2>3, EmptySeq DEF n
    <3>2. (n + 1) - 1 = n /\ n \in 1..n /\ n + 1 # 1
      BY <2>3, <1>1
    <3>3. d[(n+1)-1] = c[n] /\ d[n+1] = x
      BY <3>2, <1>2
    <3> HIDE DEF q, r
    <3> QED BY <2>1, <3>1, <3>2, <3>3 DEF Chk!Added, Sep, n
  <2> QED BY <2>2, <2>3
<1>8. Chk!ChunkLen(d) = Chk!ChunkLen(c) + q[n+1]
  BY <1>6, SumIsLoop DEF Chk!ChunkLen, Total
<1>9. Chk!ChunkLen(c) \in Int /\ Chk!PieceLen(x) \in Int /\ Sep(c, x) \in Int
  <2> DEFINE T == (0..n) \X Int
  <2>1. <<0, 0>> \in T
    BY <1>1
  <2>2. ASSUME NEW i \in 1..n, NEW y, <<i - 1, y>> \in T PROVE <<i, Total(y, r[i])>> \in T
    <3>1. c[i] \in AllPieces /\ (i # 1 => c[i-1] \in AllPieces)
      BY <1>1, ElementOfSeq DEF n
    <3>2. r[i] \in Int
      <4>1. Chk!PieceLen(c[i]) \in Nat
        BY <3>1, PieceType
      <4>2. Chk!Added(c, i) \in Int
        BY <4>1 DEF Chk!Added
      <4> QED BY <4>2, <1>1
    <3> HIDE DEF r
    <3> QED BY <2>2, <3>2, <1>1 DEF Total
  <2>3. <<n, Add!Fold(0, r)>> \in T
    <3> HIDE DEF T, r
    <3> QED BY <1>1, <1>4, <2>1, <2>2, Add!FoldHolds
  <2>4. Chk!ChunkLen(c) \in Int
    BY <2>3, SumIsLoop DEF Chk!ChunkLen
  <2> QED BY <2>4 DEF Chk!PieceLen, AllPieces, Sep
<1> QED BY <1>7, <1>8, <1>9 DEF d

LEMMA LengthType ==
  ASSUME NEW c \in Seq(AllPieces)
  PROVE  Chk!ChunkLen(c) \in Nat
<1> DEFINE T == {d \in Seq(AllPieces) : Chk!ChunkLen(d) \in Nat}
<1>1. <<>> \in T
  BY LengthOfNone, EmptySeq
<1>2. ASSUME NEW d \in Seq(AllPieces), NEW x \in AllPieces, d \in T PROVE Append(d, x) \in T
  <2>1. Chk!PieceLen(x) \in Nat /\ Sep(d, x) \in Nat
    BY DEF Chk!PieceLen, AllPieces, Sep
  <2> QED BY <1>2, <2>1, LengthOfAppend, AppendProperties
<1>3. Seq(AllPieces) \subseteq T
  <2> HIDE DEF T
  <2> QED BY <1>1, <1>2, SeqUpTo
<1> QED BY <1>3

\* Lengths: of two runs of pieces that do not meet within a paragraph.
LEMMA LengthOfConcat ==
  ASSUME NEW c \in Seq(AllPieces), NEW d \in Seq(AllPieces), d # <<>>,
         c # <<>> => c[Len(c)].para # d[1].para
  PROVE  Chk!ChunkLen(c \o d) = Chk!ChunkLen(c) + (IF c = <<>> THEN 0 ELSE 2) + Chk!ChunkLen(d)
<1>1. CASE c = <<>>
  BY <1>1, LengthOfNone, LengthType, ConcatEmptySeq
<1>2. CASE c # <<>>
  <2> DEFINE Apart(e) == e = <<>> \/ c[Len(c)].para = e[1].para
             T == {e \in Seq(AllPieces) : Apart(e) \/ Chk!ChunkLen(c \o e) = Chk!ChunkLen(c) + 2 + Chk!ChunkLen(e)}
  <2>1. <<>> \in T
    BY EmptySeq
  <2>2. ASSUME NEW e \in Seq(AllPieces), NEW x \in AllPieces, e \in T PROVE Append(e, x) \in T
    <3>1. /\ Append(e, x) \in Seq(AllPieces) /\ Append(e, x) # <<>>
          /\ Append(e, x)[1] = IF e = <<>> THEN x ELSE e[1]
      <4>1. Len(e) \in Nat /\ (e # <<>> => Len(e) # 0)
        BY EmptySeq
      <4>2. e = <<>> => Append(e, x)[1] = x
        OBVIOUS
      <4>3. e # <<>> => Append(e, x)[1] = e[1]
        BY <4>1, AppendProperties
      <4> QED BY <4>2, <4>3, AppendProperties
    <3>2. c \o Append(e, x) = Append(c \o e, x)
      <4>1. Append(e, x) = e \o <<x>> /\ <<x>> \in Seq(AllPieces)
        BY AppendIsConcat
      <4>2. c \o e \in Seq(AllPieces)
        BY ConcatProperties
      <4>3. Append(c \o e, x) = (c \o e) \o <<x>>
        BY <4>2, AppendIsConcat
      <4> QED BY <4>1, <4>3, ConcatAssociative
    <3>3. /\ c \o e \in Seq(AllPieces)
          /\ Len(c \o e) = Len(c) + Len(e)
          /\ Len(c) \in Nat \ {0}
          /\ \A i \in 1 .. Len(c) + Len(e) : (c \o e)[i] =
                     IF i <= Len(c) THEN c[i] ELSE e[i - Len(c)]
      BY <1>2, ConcatProperties, EmptySeq
    <3>4. Chk!ChunkLen(c \o Append(e, x)) = Chk!ChunkLen(c \o e) + Chk!PieceLen(x) + Sep(c \o e, x)
      BY <3>2, <3>3, LengthOfAppend
    <3>5. Chk!ChunkLen(Append(e, x)) = Chk!ChunkLen(e) + Chk!PieceLen(x) + Sep(e, x)
      BY LengthOfAppend
    <3>6. Chk!PieceLen(x) \in Nat /\ Sep(e, x) \in Nat /\ Chk!ChunkLen(e) \in Nat /\ Chk!ChunkLen(c) \in Nat
      <4>1. Sep(e, x) \in Nat
        BY DEF Sep
      <4> QED BY <4>1, LengthType, PieceType
    <3>7. CASE Apart(Append(e, x))
      BY <3>1, <3>7
    <3>8. CASE ~Apart(Append(e, x)) /\ e = <<>>
      <4>1. c[Len(c)].para # x.para
        BY <3>8, <3>1
      <4>2. c \o e = c
        BY <3>8, ConcatEmptySeq
      <4>3. Sep(c \o e, x) = 2 /\ Sep(e, x) = 0 /\ Chk!ChunkLen(e) = 0
        BY <4>1, <4>2, <3>8, <1>2, LengthOfNone DEF Sep
      <4> QED BY <3>1, <3>4, <3>5, <3>6, <4>2, <4>3
    <3>9. CASE ~Apart(Append(e, x)) /\ e # <<>>
      <4>1. ~Apart(e)
        BY <3>9, <3>1
      <4>2. Chk!ChunkLen(c \o e) = Chk!ChunkLen(c) + 2 + Chk!ChunkLen(e)
        BY <4>1, <2>2
      <4>3. Len(e) \in Nat \ {0}
        BY <3>9, EmptySeq
      <4>4. (c \o e)[Len(c \o e)] = e[Len(e)] /\ c \o e # <<>>
        BY <3>3, <4>3
      <4>5. Sep(c \o e, x) = Sep(e, x)
        BY <4>4, <3>9 DEF Sep
      <4> QED BY <3>1, <3>4, <3>5, <3>6, <4>2, <4>5
    <3> QED BY <3>7, <3>8, <3>9
  <2>3. Seq(AllPieces) \subseteq T
    <3> HIDE DEF T
    <3> QED BY <2>1, <2>2, SeqUpTo
  <2>4. ~Apart(d)
    BY <1>2
  <2>5. Chk!ChunkLen(c \o d) = Chk!ChunkLen(c) + 2 + Chk!ChunkLen(d)
    <3>1. d \in T
      BY <2>3
    <3> QED BY <3>1, <2>4
  <2> QED BY <1>2, <2>5
<1> QED BY <1>1, <1>2

-----------------------------------------------------------------------------
(* Characters. *)
Marks == Nat \X Nat \X Int

LEMMA CharsType ==
  ASSUME NEW x \in AllPieces
  PROVE  Chk!PieceChars(x) \in Seq(Marks)
<1> DEFINE n == Chk!PieceLen(x)
<1>1. n \in Nat
  BY DEF Chk!PieceLen, AllPieces
<1>2. \A k \in 1..n : <<x.para, x.sentence, x.first + k - 1>> \in Marks
  BY DEF Marks, AllPieces
<1>3. [k \in 1..n |-> <<x.para, x.sentence, x.first + k - 1>>] \in [1..n -> Marks]
  <2> HIDE DEF n
  <2> QED BY <1>2
<1>4. Chk!PieceChars(x) \in [1..n -> Marks]
  BY <1>3 DEF Chk!PieceChars
<1> HIDE DEF n
<1> QED BY <1>1, <1>4, SeqDef

LEMMA CharsOfNone == Chk!Characters(<<>>) = <<>>
<1>1. [i \in DOMAIN <<>> |-> Chk!PieceChars(<<>>[i])] = <<>>
  OBVIOUS
<1> QED BY <1>1, ChkFlattenNone DEF Chk!Characters

\* A piece adds its characters.
LEMMA CharsOfAppend ==
  ASSUME NEW c \in Seq(AllPieces), NEW x \in AllPieces
  PROVE  /\ Chk!Characters(c) \in Seq(Marks)
         /\ Chk!Characters(Append(c, x)) = Chk!Characters(c) \o Chk!PieceChars(x)
<1> DEFINE n == Len(c)
           d == Append(c, x)
           r == [i \in DOMAIN c |-> Chk!PieceChars(c[i])]
           q == [i \in DOMAIN d |-> Chk!PieceChars(d[i])]
<1>1. n \in Nat /\ DOMAIN c = 1..n
  BY LenProperties
<1>2. /\ d \in Seq(AllPieces) /\ Len(d) = n + 1
      /\ \A i \in 1..n : d[i] = c[i]
      /\ d[n+1] = x
  BY AppendProperties
<1>3. DOMAIN d = 1..(n+1)
  BY <1>2, LenProperties
<1>4. \A i \in 1..n : Chk!PieceChars(c[i]) \in Seq(Marks)
  BY ElementOfSeq, CharsType
<1>5. Chk!PieceChars(x) \in Seq(Marks)
  BY CharsType
<1>6. r \in Seq(Seq(Marks)) /\ Len(r) = n
  <2>1. r \in [1..n -> Seq(Marks)]
    <3> HIDE DEF n
    <3> QED BY <1>1, <1>4
  <2> HIDE DEF r, n
  <2>2. r \in Seq(Seq(Marks))
    BY <2>1, <1>1, SeqDef
  <2> QED BY <2>1, <2>2, <1>1
<1> HIDE DEF n, d
<1>7. q = Append(r, Chk!PieceChars(x))
  <2>1. /\ Append(r, Chk!PieceChars(x)) \in Seq(Seq(Marks)) /\ Len(Append(r, Chk!PieceChars(x))) = n + 1
        /\ \A i \in 1..n : Append(r, Chk!PieceChars(x))[i] = r[i]
        /\ Append(r, Chk!PieceChars(x))[n+1] = Chk!PieceChars(x)
    <3> HIDE DEF r
    <3> QED BY <1>5, <1>6, AppendProperties
  <2>2. \A i \in 1..n : r[i] = Chk!PieceChars(c[i])
    BY <1>1
  <2>3. \A i \in 1..(n+1) : Chk!PieceChars(d[i]) = Append(r, Chk!PieceChars(x))[i]
    <3> HIDE DEF r
    <3>1. ASSUME NEW i \in 1..(n+1) PROVE Chk!PieceChars(d[i]) = Append(r, Chk!PieceChars(x))[i]
      <4>1. CASE i \in 1..n
        BY <4>1, <2>1, <2>2, <1>2
      <4>2. CASE i = n + 1
        BY <4>2, <2>1, <1>2
      <4>3. i \in 1..n \/ i = n + 1
        BY <1>1
      <4> QED BY <4>1, <4>2, <4>3
    <3> QED BY <3>1
  <2> DEFINE more == Append(r, Chk!PieceChars(x))
  <2>4. more = [i \in 1..(n+1) |-> more[i]]
    <3>1. DOMAIN more = 1..(n+1) /\ more \in [1..(n+1) -> Seq(Marks)]
      <4> HIDE DEF more, r
      <4> QED BY <2>1, LenProperties DEF more
    <3> HIDE DEF more
    <3> QED BY <3>1
  <2>5. q = [i \in 1..(n+1) |-> more[i]]
    <3> HIDE DEF r
    <3> QED BY <1>3, <2>3
  <2> QED BY <2>4, <2>5
<1>8. Chk!FlattenSeq(r) \in Seq(Marks) /\ Chk!FlattenSeq(q) = Chk!FlattenSeq(r) \o Chk!PieceChars(x)
  <2> HIDE DEF r, q
  <2> QED BY <1>5, <1>6, <1>7, ChkFlattenType, ChkFlattenAppend
<1> QED BY <1>8 DEF Chk!Characters, d

LEMMA CharsOfSeq ==
  ASSUME NEW c \in Seq(AllPieces)
  PROVE  Chk!Characters(c) \in Seq(Marks)
<1>1. \E x : x \in AllPieces
  <2>1. [para |-> 0, sentence |-> 0, first |-> 0, last |-> 0] \in AllPieces
    BY DEF AllPieces
  <2> QED BY <2>1
<1> QED BY <1>1, CharsOfAppend

\* The characters of pieces, whichever of two sequences they are in.
LEMMA CharsOfConcat ==
  ASSUME NEW c \in Seq(AllPieces), NEW d \in Seq(AllPieces)
  PROVE  Chk!Characters(c \o d) = Chk!Characters(c) \o Chk!Characters(d)
<1> DEFINE T == {e \in Seq(AllPieces) : Chk!Characters(c \o e) = Chk!Characters(c) \o Chk!Characters(e)}
<1>1. <<>> \in T
  <2>1. c \o <<>> = c /\ Chk!Characters(c) \o <<>> = Chk!Characters(c)
    BY CharsOfSeq, ConcatEmptySeq
  <2>2. <<>> \in Seq(AllPieces)
    BY EmptySeq
  <2> QED BY <2>1, <2>2, CharsOfNone
<1>2. ASSUME NEW e \in Seq(AllPieces), NEW x \in AllPieces, e \in T PROVE Append(e, x) \in T
  <2>1. c \o Append(e, x) = Append(c \o e, x)
    <3>1. Append(e, x) = e \o <<x>> /\ <<x>> \in Seq(AllPieces)
      BY AppendIsConcat
    <3>2. c \o e \in Seq(AllPieces)
      BY ConcatProperties
    <3>3. Append(c \o e, x) = (c \o e) \o <<x>>
      BY <3>2, AppendIsConcat
    <3> QED BY <3>1, <3>3, ConcatAssociative
  <2>2. c \o e \in Seq(AllPieces) /\ Append(e, x) \in Seq(AllPieces)
    BY ConcatProperties, AppendProperties
  <2>3. Chk!Characters(c \o Append(e, x)) = Chk!Characters(c \o e) \o Chk!PieceChars(x)
    BY <2>1, <2>2, CharsOfAppend
  <2>4. Chk!Characters(Append(e, x)) = Chk!Characters(e) \o Chk!PieceChars(x)
    BY CharsOfAppend
  <2>5. Chk!Characters(c) \in Seq(Marks) /\ Chk!Characters(e) \in Seq(Marks) /\ Chk!PieceChars(x) \in Seq(Marks)
    BY CharsOfSeq, CharsType
  <2>6. (Chk!Characters(c) \o Chk!Characters(e)) \o Chk!PieceChars(x) = Chk!Characters(c) \o (Chk!Characters(e) \o Chk!PieceChars(x))
    BY <2>5, ConcatAssociative, SMTT(30)
  <2>7. Chk!Characters(c \o e) = Chk!Characters(c) \o Chk!Characters(e)
    BY <1>2
  <2> QED BY <2>2, <2>3, <2>4, <2>6, <2>7
<1>3. Seq(AllPieces) \subseteq T
  <2> HIDE DEF T
  <2> QED BY <1>1, <1>2, SeqUpTo
<1> QED BY <1>3

-----------------------------------------------------------------------------
(* What is to be kept while a text is cut. *)
States == [out : Seq(Seq(AllPieces)), cur : Seq(AllPieces)]
HeldSoFar(a) == Chk!Characters(Chk!FlattenSeq(a.out) \o a.cur)
ChunkOK(t, c) == Chk!ChunkLen(c) <= Target /\ Chk!Undivided(t, c)
CutOK(t, a) ==
  /\ a \in States
  /\ \A c \in Chk!Range(a.out) : c # <<>> /\ ChunkOK(t, c)
  /\ ChunkOK(t, a.cur)

LEMMA RangeOfAppend ==
  ASSUME NEW S, NEW s \in Seq(S), NEW x \in S
  PROVE  Chk!Range(Append(s, x)) = Chk!Range(s) \union {x}
<1>1. <<x>> \in Seq(S) /\ Chk!Range(<<x>>) = {x}
  <2>1. DOMAIN <<x>> = {1} /\ <<x>>[1] = x
    OBVIOUS
  <2>2. <<x>> \in Seq(S)
    OBVIOUS
  <2> QED BY <2>1, <2>2 DEF Chk!Range
<1>2. Append(s, x) = s \o <<x>>
  BY AppendIsConcat
<1>3. Chk!Range(s \o <<x>>) = Chk!Range(s) \union Chk!Range(<<x>>)
  BY <1>1, ChkRangeConcatenation, ZenonT(40)
<1> QED BY <1>1, <1>2, <1>3

LEMMA NoneOK == ASSUME NEW t, Target \in Nat PROVE ChunkOK(t, <<>>)
<1>1. Chk!Range(<<>>) = {}
  BY DEF Chk!Range
<1> QED BY <1>1, LengthOfNone DEF ChunkOK, Chk!Undivided

\* Flushing loses nothing and leaves a good cut.
LEMMA FlushKeeps ==
  ASSUME NEW t, Target \in Nat, NEW a, CutOK(t, a)
  PROVE  CutOK(t, Chk!Flush(a)) /\ Chk!Flush(a).cur = <<>> /\ HeldSoFar(Chk!Flush(a)) = HeldSoFar(a)
<1>1. a \in States /\ a.out \in Seq(Seq(AllPieces)) /\ a.cur \in Seq(AllPieces)
  BY DEF CutOK, States
<1>2. CASE a.cur = <<>>
  BY <1>2 DEF Chk!Flush
<1>3. CASE a.cur # <<>>
  <2> DEFINE b == [out |-> Append(a.out, a.cur), cur |-> <<>>]
  <2>1. Chk!Flush(a) = b /\ b.out = Append(a.out, a.cur) /\ b.cur = <<>>
    BY <1>3 DEF Chk!Flush
  <2>2. b \in States
    <3>1. Append(a.out, a.cur) \in Seq(Seq(AllPieces))
      BY <1>1, AppendProperties
    <3>2. <<>> \in Seq(AllPieces)
      BY EmptySeq
    <3> QED BY <3>1, <3>2 DEF States
  <2>3. Chk!Range(b.out) = Chk!Range(a.out) \union {a.cur}
    BY <1>1, RangeOfAppend
  <2>4. CutOK(t, b)
    <3>1. \A c \in Chk!Range(b.out) : c # <<>> /\ ChunkOK(t, c)
      BY <2>3, <1>3 DEF CutOK
    <3> HIDE DEF b
    <3> QED BY <2>1, <2>2, <3>1, NoneOK DEF CutOK
  <2>5. HeldSoFar(b) = HeldSoFar(a)
    <3>1. Chk!FlattenSeq(b.out) = Chk!FlattenSeq(a.out) \o a.cur
      BY <1>1, ChkFlattenAppend
    <3>2. Chk!FlattenSeq(a.out) \in Seq(AllPieces)
      BY <1>1, ChkFlattenType
    <3>3. Chk!FlattenSeq(b.out) \in Seq(AllPieces)
      BY <3>1, <3>2, <1>1, ConcatProperties
    <3>4. Chk!FlattenSeq(b.out) \o b.cur = Chk!FlattenSeq(b.out)
      BY <2>1, <3>3, ConcatEmptySeq
    <3> QED BY <3>1, <3>4 DEF HeldSoFar
  <2> HIDE DEF b
  <2> QED BY <2>1, <2>4, <2>5
<1> QED BY <1>2, <1>3

\* Chunking: the pieces of a long sentence hold its characters.
LEMMA SplitRight ==
  ASSUME NEW x \in AllPieces, Target \in Nat \ {0}, x.first = 1
  PROVE  /\ Chk!HardSplit(x) \in Seq(Seq(AllPieces))
         /\ \A c \in Chk!Range(Chk!HardSplit(x)) :
              \E y \in AllPieces : c = <<y>> /\ Chk!PieceLen(y) <= Target
                                /\ y.para = x.para /\ y.sentence = x.sentence
         /\ Chk!Characters(Chk!FlattenSeq(Chk!HardSplit(x))) = Chk!PieceChars(x)
<1> DEFINE m == x.last
           n == (m + Target - 1) \div Target
           low(a, b) == IF a <= b THEN a ELSE b
           y(i) == Chk!Piece(x.para, x.sentence, (i - 1) * Target + 1, low(i * Target, m))
           hs == [i \in 1..n |-> <<y(i)>>]
<1>1. m \in Nat \ {0} /\ Chk!PieceLen(x) = m /\ x.para \in Nat /\ x.sentence \in Nat
  BY DEF AllPieces, Chk!PieceLen
<1>2. n \in Nat /\ n * Target >= m /\ (n - 1) * Target < m /\ n > 0
  BY <1>1
<1>3. \A i \in 1..n : (i - 1) * Target \in Nat /\ (i - 1) * Target < m /\ i * Target \in Nat /\ i * Target = (i - 1) * Target + Target
  <2>1. ASSUME NEW i \in 1..n
        PROVE  /\ (i - 1) * Target \in Nat /\ (i - 1) * Target < m
               /\ i * Target \in Nat /\ i * Target = (i - 1) * Target + Target
    <3> HIDE DEF n, m
    <3>1. i - 1 \in Nat /\ n - 1 \in Nat /\ i - 1 <= n - 1
      BY <1>2
    <3>2. (i - 1) * Target <= (n - 1) * Target
      BY <3>1
    <3>3. (i - 1) * Target \in Nat /\ (n - 1) * Target \in Nat /\ i * Target \in Nat
      BY <3>1
    <3>4. i * Target = (i - 1) * Target + Target
      BY <3>1
    <3> QED BY <3>2, <3>3, <3>4, <1>2, <1>1
  <2> QED BY <2>1
<1>4. ASSUME NEW i \in 1..n
      PROVE  /\ y(i) \in AllPieces /\ y(i).para = x.para /\ y(i).sentence = x.sentence
             /\ y(i).first = (i - 1) * Target + 1
             /\ y(i).last = low(i * Target, m)
             /\ Chk!PieceLen(y(i)) = low(i * Target, m) - (i - 1) * Target
             /\ Chk!PieceLen(y(i)) <= Target
  <2> HIDE DEF n, m
  <2>1. /\ y(i).para = x.para /\ y(i).sentence = x.sentence
        /\ y(i).first = (i - 1) * Target + 1 /\ y(i).last = low(i * Target, m)
    BY DEF Chk!Piece
  <2>2. low(i * Target, m) \in Nat /\ (i - 1) * Target + 1 <= low(i * Target, m)
    BY <1>1, <1>3
  <2>3. y(i) \in AllPieces
    BY <2>2, <1>1, <1>3 DEF Chk!Piece, AllPieces
  <2> QED BY <2>1, <2>2, <2>3, <1>3, <1>1 DEF Chk!PieceLen
<1>5. hs \in Seq(Seq(AllPieces)) /\ Len(hs) = n /\ DOMAIN hs = 1..n
  <2>1. \A i \in 1..n : <<y(i)>> \in Seq(AllPieces)
    <3>1. ASSUME NEW i \in 1..n PROVE <<y(i)>> \in Seq(AllPieces)
      <4> HIDE DEF y
      <4>1. y(i) \in AllPieces
        BY <1>4
      <4> QED BY <4>1
    <3> QED BY <3>1
  <2> HIDE DEF n, y
  <2>2. hs \in [1..n -> Seq(AllPieces)]
    BY <2>1
  <2> HIDE DEF hs
  <2>3. hs \in Seq(Seq(AllPieces))
    BY <2>2, <1>2, SeqDef
  <2> QED BY <2>2, <2>3, <1>2
<1>6. Chk!HardSplit(x) = hs
  <2>1. \A a, b \in Nat : Chk!Min({a, b}) = low(a, b)
    <3>1. ASSUME NEW a \in Nat, NEW b \in Nat PROVE Chk!Min({a, b}) = low(a, b)
      <4>1. low(a, b) \in {a, b} /\ \A z \in {a, b} : low(a, b) <= z
        OBVIOUS
      <4>2. \A v \in {a, b} : (\A z \in {a, b} : v <= z) => v = low(a, b)
        OBVIOUS
      <4> HIDE DEF low
      <4>3. Chk!Min({a, b}) \in {a, b} /\ \A z \in {a, b} : Chk!Min({a, b}) <= z
        BY <4>1 DEF Chk!Min
      <4> QED BY <4>2, <4>3
    <3> QED BY <3>1
  <2>2. \A i \in 1..n : Chk!Min({i * Target, x.last}) = low(i * Target, m)
    <3> HIDE DEF low, n
    <3> QED BY <2>1, <1>1, <1>3
  <2>3. n = (Chk!PieceLen(x) + Target - 1) \div Target
    BY <1>1
  <2> HIDE DEF low, n, m
  <2> QED BY <2>2, <2>3 DEF Chk!HardSplit
<1>7. \A c \in Chk!Range(hs) : \E z \in AllPieces : c = <<z>> /\ Chk!PieceLen(z) <= Target
                                             /\ z.para = x.para /\ z.sentence = x.sentence
  <2>1. \A i \in 1..n : hs[i] = <<y(i)>>
    BY <1>5
  <2> HIDE DEF hs, y, n
  <2> QED BY <2>1, <1>4, <1>5 DEF Chk!Range
<1>8. Chk!Characters(Chk!FlattenSeq(hs)) = Chk!PieceChars(x)
  <2> DEFINE mark(k) == <<x.para, x.sentence, k>>
             marks(k) == [j \in 1..k |-> mark(j)]
             U == {i \in 0..n : Chk!Characters(Chk!FlattenSeq(SubSeq(hs, 1, i))) = marks(low(i * Target, m))}
  <2>1. 0 \in U
    <3>1. SubSeq(hs, 1, 0) = <<>>
      <4> HIDE DEF hs
      <4> QED BY SubSeqEmpty
    <3>2. low(0 * Target, m) = 0
      BY <1>1
    <3>3. marks(0) = <<>>
      OBVIOUS
    <3>4. Chk!Characters(Chk!FlattenSeq(SubSeq(hs, 1, 0))) = marks(low(0 * Target, m))
      <4> HIDE DEF hs, low, marks
      <4> QED BY <3>1, <3>2, <3>3, ChkFlattenNone, CharsOfNone
    <3> HIDE DEF hs, low, marks, n, m
    <3> QED BY <3>4, <1>2
  <2>2. ASSUME NEW i \in 1..n, i - 1 \in U PROVE i \in U
    <3> DEFINE h == (i - 1) * Target
               l == low(i * Target, m)
    <3>1. h \in Nat /\ h < m /\ l \in Nat /\ h < l /\ low((i - 1) * Target, m) = h
      <4> HIDE DEF m, n
      <4> QED BY <1>3, <1>1
    <3>2. SubSeq(hs, 1, i) = Append(SubSeq(hs, 1, i - 1), <<y(i)>>) /\ SubSeq(hs, 1, i - 1) \in Seq(Seq(AllPieces))
      <4>1. hs[i] = <<y(i)>>
        OBVIOUS
      <4> HIDE DEF hs, y, n
      <4>2. 1 \in 1..n /\ i \in 1..n
        BY <1>2
      <4>3. SubSeq(hs, 1, i) = SubSeq(hs, 1, i - 1) \o <<hs[i]>>
        BY <4>2, <1>5, SubSeqRecursiveSecond
      <4>4. SubSeq(hs, 1, i - 1) \in Seq(Seq(AllPieces)) /\ hs[i] \in Seq(AllPieces)
        BY SubSeqProperties, ElementOfSeq, <1>5, <1>2
      <4>5. SubSeq(hs, 1, i) = Append(SubSeq(hs, 1, i - 1), hs[i])
        BY <4>3, <4>4, AppendIsConcat
      <4> QED BY <4>1, <4>4, <4>5
    <3>3. Chk!Characters(Chk!FlattenSeq(SubSeq(hs, 1, i)))
            = Chk!Characters(Chk!FlattenSeq(SubSeq(hs, 1, i - 1))) \o Chk!PieceChars(y(i))
      <4> DEFINE pre == SubSeq(hs, 1, i - 1)
      <4>1. y(i) \in AllPieces /\ <<y(i)>> \in Seq(AllPieces) /\ pre \in Seq(Seq(AllPieces))
        <5>1. y(i) \in AllPieces
          BY <1>4
        <5> HIDE DEF y, hs
        <5> QED BY <5>1, <3>2
      <4> HIDE DEF y, pre
      <4>2. Chk!FlattenSeq(Append(pre, <<y(i)>>)) = Chk!FlattenSeq(pre) \o <<y(i)>> /\ Chk!FlattenSeq(pre) \in Seq(AllPieces)
        BY <4>1, ChkFlattenAppend, ChkFlattenType
      <4>3. Chk!FlattenSeq(pre) \o <<y(i)>> = Append(Chk!FlattenSeq(pre), y(i))
        BY <4>1, <4>2, AppendIsConcat
      <4>4. Chk!Characters(Append(Chk!FlattenSeq(pre), y(i))) = Chk!Characters(Chk!FlattenSeq(pre)) \o Chk!PieceChars(y(i))
        BY <4>1, <4>2, CharsOfAppend
      <4>5. SubSeq(hs, 1, i) = Append(pre, <<y(i)>>)
        BY <3>2 DEF pre
      <4> QED BY <4>2, <4>3, <4>4, <4>5 DEF pre
    <3>4. Chk!PieceChars(y(i)) = [k \in 1..(l - h) |-> mark(h + k)]
      <4>1. /\ Chk!PieceLen(y(i)) = l - h /\ y(i).first = h + 1
            /\ y(i).para = x.para /\ y(i).sentence = x.sentence
        BY <1>4
      <4> HIDE DEF y, l, h
      <4>2. \A k \in 1..(l - h) : (h + 1) + k - 1 = h + k
        BY <3>1
      <4> QED BY <4>1, <4>2 DEF Chk!PieceChars
    <3>5. marks(h) \o [k \in 1..(l - h) |-> mark(h + k)] = marks(l)
      <4> HIDE DEF l, h, m, n, hs, y
      <4>1. marks(h) \in Seq(Marks) /\ Len(marks(h)) = h
        <5>1. \A j \in Nat : mark(j) \in Marks
          BY <1>1 DEF Marks
        <5>2. marks(h) \in [1..h -> Marks]
          <6> HIDE DEF mark
          <6> QED BY <5>1
        <5> HIDE DEF marks
        <5> QED BY <5>2, <3>1, SeqDef
      <4> DEFINE rest == [k \in 1..(l - h) |-> mark(h + k)]
      <4>2. rest \in Seq(Marks) /\ Len(rest) = l - h
        <5>1. \A k \in 1..(l - h) : mark(h + k) \in Marks
          BY <1>1, <3>1 DEF Marks
        <5>2. rest \in [1..(l - h) -> Marks]
          <6> HIDE DEF mark
          <6> QED BY <5>1
        <5>3. l - h \in Nat
          BY <3>1
        <5> HIDE DEF rest
        <5> QED BY <5>2, <5>3, SeqDef
      <4>3. marks(l) \in Seq(Marks) /\ Len(marks(l)) = l
        <5>1. \A j \in Nat : mark(j) \in Marks
          BY <1>1 DEF Marks
        <5>2. marks(l) \in [1..l -> Marks]
          <6> HIDE DEF mark
          <6> QED BY <5>1
        <5> HIDE DEF marks
        <5> QED BY <5>2, <3>1, SeqDef
      <4>4. /\ marks(h) \o rest \in Seq(Marks) /\ Len(marks(h) \o rest) = h + (l - h)
            /\ \A j \in 1..(h + (l - h)) : (marks(h) \o rest)[j] = IF j <= h THEN marks(h)[j] ELSE rest[j - h]
        <5> DEFINE u == marks(h)
        <5> HIDE DEF rest, marks, u
        <5>1. u \in Seq(Marks) /\ rest \in Seq(Marks) /\ Len(u) = h /\ Len(rest) = l - h
          BY <4>1, <4>2 DEF u
        <5>2. /\ u \o rest \in Seq(Marks) /\ Len(u \o rest) = Len(u) + Len(rest)
              /\ \A j \in 1..(Len(u) + Len(rest)) : (u \o rest)[j] = IF j <= Len(u) THEN u[j] ELSE rest[j - Len(u)]
          BY <5>1, ConcatProperties
        <5>3. /\ u \o rest \in Seq(Marks) /\ Len(u \o rest) = h + (l - h)
              /\ \A j \in 1..(h + (l - h)) : (u \o rest)[j] = IF j <= h THEN u[j] ELSE rest[j - h]
          BY <5>1, <5>2, Zenon
        <5> QED BY <5>3 DEF u
      <4>5. h + (l - h) = l
        BY <3>1
      <4>6. \A j \in 1..l : (marks(h) \o rest)[j] = marks(l)[j]
        <5>1. ASSUME NEW j \in 1..l PROVE (marks(h) \o rest)[j] = marks(l)[j]
          <6>1. (marks(h) \o rest)[j] = IF j <= h THEN marks(h)[j] ELSE rest[j - h]
            <7> HIDE DEF rest, marks
            <7> QED BY <4>4, <4>5
          <6>2. j <= h => marks(h)[j] = mark(j)
            <7> HIDE DEF mark
            <7> QED BY <3>1
          <6>3. ~(j <= h) => rest[j - h] = mark(j)
            <7>1. SUFFICES ASSUME ~(j <= h) PROVE rest[j - h] = mark(j)
              OBVIOUS
            <7>2. j - h \in 1..(l - h) /\ h + (j - h) = j
              BY <7>1, <3>1
            <7> HIDE DEF mark
            <7> QED BY <7>2
          <6>4. marks(l)[j] = mark(j)
            <7> HIDE DEF mark
            <7> QED OBVIOUS
          <6> HIDE DEF rest, marks, mark
          <6> QED BY <6>1, <6>2, <6>3, <6>4
        <5> QED BY <5>1
      <4> HIDE DEF rest, marks
      <4>7. marks(h) \o rest = marks(l)
        BY <4>3, <4>4, <4>5, <4>6, SeqEqual
      <4> QED BY <4>7 DEF rest
    <3>6. Chk!Characters(Chk!FlattenSeq(SubSeq(hs, 1, i - 1))) = marks(h)
      <4> HIDE DEF hs, marks
      <4> QED BY <2>2, <3>1
    <3>7. Chk!Characters(Chk!FlattenSeq(SubSeq(hs, 1, i))) = marks(l)
      <4> HIDE DEF hs, marks, l, h, mark, y
      <4> QED BY <3>3, <3>4, <3>5, <3>6
    <3> HIDE DEF hs, marks, n
    <3> QED BY <3>7, <1>2
  <2>3. 0..n \subseteq U
    <3> HIDE DEF U, n
    <3> QED BY <2>1, <2>2, <1>2, Join!UpTo
  <2>4. Chk!Characters(Chk!FlattenSeq(SubSeq(hs, 1, n))) = marks(low(n * Target, m))
    <3> HIDE DEF hs, marks, low, n, m
    <3> QED BY <2>3, <1>2
  <2>5. SubSeq(hs, 1, n) = hs
    <3> HIDE DEF hs, n
    <3> QED BY <1>5, SubSeqFull
  <2>6. low(n * Target, m) = m
    <3> HIDE DEF n, m
    <3>1. n * Target \in Nat
      BY <1>2
    <3> QED BY <3>1, <1>1, <1>2
  <2>7. marks(m) = Chk!PieceChars(x)
    <3>1. \A k \in 1..m : x.first + k - 1 = k
      BY <1>1
    <3> HIDE DEF m
    <3> QED BY <3>1, <1>1 DEF Chk!PieceChars
  <2> HIDE DEF hs, marks, low, n, m
  <2> QED BY <2>4, <2>5, <2>6, <2>7
<1> HIDE DEF hs
<1> QED BY <1>5, <1>6, <1>7, <1>8

-----------------------------------------------------------------------------
(* The two loops. *)
AddS(a, x) == Chk!AddSentence(a, x)
AddP(a, para) == Chk!AddPara(a, para)
Inner == INSTANCE Folding WITH Op <- AddS
Outer == INSTANCE Folding WITH Op <- AddP

\* Adding the sentences of a paragraph is a loop.
LEMMA InnerIsLoop ==
  ASSUME NEW b, NEW q
  PROVE  Chk!FoldLeft(Chk!AddSentence, b, q) = Inner!Fold(b, q)
BY DEF Chk!FoldLeft, Chk!MapThenFoldSet, Chk!Max, Inner!Fold, Inner!Greatest, AddS

\* And so is adding the paragraphs of a text.
LEMMA OuterIsLoop ==
  ASSUME NEW b, NEW q
  PROVE  Chk!FoldLeft(Chk!AddPara, b, q) = Outer!Fold(b, q)
BY DEF Chk!FoldLeft, Chk!MapThenFoldSet, Chk!Max, Outer!Fold, Outer!Greatest, AddP

\* Chunking: the sentences of a paragraph are pieces, and whole.
LEMMA SentencesType ==
  ASSUME NEW t \in Texts, NEW p \in DOMAIN t
  PROVE  /\ Chk!Sentences(t, p) \in Seq(AllPieces) /\ Len(Chk!Sentences(t, p)) = Len(t[p])
         /\ DOMAIN Chk!Sentences(t, p) = 1..Len(t[p])
         /\ \A x \in Chk!Range(Chk!Sentences(t, p)) :
              x.para = p /\ x.first = 1 /\ Chk!PieceLen(x) = t[p][x.sentence]
<1>1. p \in Nat /\ t[p] \in Seq(Nat \ {0}) /\ DOMAIN t[p] = 1..Len(t[p]) /\ Len(t[p]) \in Nat
  <2>1. DOMAIN t = 1..Len(t) /\ Len(t) \in Nat
    BY LenProperties DEF Texts
  <2>2. t[p] \in Seq(Nat \ {0})
    BY <2>1, ElementOfSeq DEF Texts
  <2> QED BY <2>1, <2>2, LenProperties
<1> DEFINE n == Len(t[p])
           ss == [k \in 1..n |-> Chk!Piece(p, k, 1, t[p][k])]
<1>2. Chk!Sentences(t, p) = ss
  BY <1>1 DEF Chk!Sentences
<1>3. \A k \in 1..n : t[p][k] \in Nat \ {0}
  BY <1>1, ElementOfSeq
<1>4. \A k \in 1..n : /\ Chk!Piece(p, k, 1, t[p][k]) \in AllPieces
                      /\ Chk!Piece(p, k, 1, t[p][k]).para = p
                      /\ Chk!Piece(p, k, 1, t[p][k]).first = 1
                      /\ Chk!Piece(p, k, 1, t[p][k]).sentence = k
                      /\ Chk!PieceLen(Chk!Piece(p, k, 1, t[p][k])) = t[p][k]
  <2>1. ASSUME NEW k \in 1..n
        PROVE  /\ Chk!Piece(p, k, 1, t[p][k]) \in AllPieces
               /\ Chk!Piece(p, k, 1, t[p][k]).para = p
               /\ Chk!Piece(p, k, 1, t[p][k]).first = 1
               /\ Chk!Piece(p, k, 1, t[p][k]).sentence = k
               /\ Chk!PieceLen(Chk!Piece(p, k, 1, t[p][k])) = t[p][k]
    <3>1. t[p][k] \in Nat \ {0} /\ k \in Nat
      BY <1>1, <1>3
    <3> DEFINE l == t[p][k]
    <3> HIDE DEF l
    <3>2. l \in Nat \ {0}
      BY <3>1 DEF l
    <3>3. /\ Chk!Piece(p, k, 1, l) \in AllPieces
          /\ Chk!Piece(p, k, 1, l).para = p /\ Chk!Piece(p, k, 1, l).first = 1
          /\ Chk!Piece(p, k, 1, l).sentence = k /\ Chk!PieceLen(Chk!Piece(p, k, 1, l)) = l
      BY <3>1, <3>2, <1>1 DEF Chk!Piece, AllPieces, Chk!PieceLen
    <3> QED BY <3>3 DEF l
  <2> QED BY <2>1
<1>5. ss \in [1..n -> AllPieces]
  <2> HIDE DEF n
  <2> QED BY <1>4
<1>6. \A x \in Chk!Range(ss) : x.para = p /\ x.first = 1 /\ Chk!PieceLen(x) = t[p][x.sentence]
  <2>1. ASSUME NEW x \in Chk!Range(ss) PROVE x.para = p /\ x.first = 1 /\ Chk!PieceLen(x) = t[p][x.sentence]
    <3>1. PICK k \in 1..n : x = ss[k]
      BY <1>5 DEF Chk!Range
    <3>2. x = Chk!Piece(p, k, 1, t[p][k])
      BY <3>1
    <3> HIDE DEF ss, n
    <3> QED BY <3>2, <1>4
  <2> QED BY <2>1
<1> HIDE DEF ss
<1>7. ss \in Seq(AllPieces) /\ Len(ss) = n /\ DOMAIN ss = 1..n
  <2> HIDE DEF n
  <2>1. n \in Nat
    BY <1>1 DEF n
  <2>2. ss \in Seq(AllPieces)
    BY <1>5, <2>1, SeqDef
  <2> QED BY <1>5, <2>1, <2>2
<1> QED BY <1>2, <1>6, <1>7

\* Chunking: what the loop over the sentences of a long paragraph keeps.
InnerOK(t, p, held, k, a) ==
  /\ CutOK(t, a)
  /\ \A x \in Chk!Range(a.cur) : x.para = p
  /\ HeldSoFar(a) = held \o Chk!Characters(SubSeq(Chk!Sentences(t, p), 1, k))

\* Adding a sentence of a paragraph too long for a chunk keeps the cut good.
LEMMA InnerStep ==
  ASSUME NEW t \in Texts, NEW p \in DOMAIN t, Target \in Nat \ {0},
         ~(Chk!ChunkLen(Chk!Sentences(t, p)) <= Target),
         NEW held \in Seq(Marks), NEW k \in 1..Len(Chk!Sentences(t, p)), NEW a,
         InnerOK(t, p, held, k - 1, a)
  PROVE  InnerOK(t, p, held, k, Chk!AddSentence(a, Chk!Sentences(t, p)[k]))
<1> DEFINE ss == Chk!Sentences(t, p)
           x == ss[k]
           b == Chk!Flush(a)
<1>1. /\ ss \in Seq(AllPieces) /\ Len(ss) \in Nat
      /\ x \in AllPieces /\ x.para = p /\ x.first = 1 /\ Chk!PieceLen(x) = t[p][x.sentence]
  <2>1. ss \in Seq(AllPieces) /\ Len(ss) \in Nat /\ x \in AllPieces
    BY SentencesType, ElementOfSeq, LenProperties
  <2>2. x \in Chk!Range(ss)
    BY SentencesType DEF Chk!Range
  <2> HIDE DEF ss, x
  <2> QED BY <2>1, <2>2, SentencesType DEF ss
<1>2. a \in States /\ a.out \in Seq(Seq(AllPieces)) /\ a.cur \in Seq(AllPieces) /\ CutOK(t, a)
  BY DEF InnerOK, CutOK, States
<1> HIDE DEF ss, x
<1>3. held \o Chk!Characters(SubSeq(ss, 1, k)) = HeldSoFar(a) \o Chk!PieceChars(x)
  <2>1. SubSeq(ss, 1, k) = Append(SubSeq(ss, 1, k - 1), x) /\ SubSeq(ss, 1, k - 1) \in Seq(AllPieces)
    <3>1. 1 \in 1..Len(ss) /\ k \in 1..Len(ss)
      BY <1>1 DEF ss
    <3>2. SubSeq(ss, 1, k) = SubSeq(ss, 1, k - 1) \o <<ss[k]>>
      BY <3>1, <1>1, SubSeqRecursiveSecond
    <3>3. SubSeq(ss, 1, k - 1) \in Seq(AllPieces)
      <4>1. \A i \in 1..(k - 1) : ss[i] \in AllPieces
        BY <3>1, <1>1, ElementOfSeq
      <4> QED BY <4>1, <3>1, SubSeqProperties
    <3> QED BY <3>2, <3>3, <1>1, AppendIsConcat DEF x
  <2>2. Chk!Characters(SubSeq(ss, 1, k)) = Chk!Characters(SubSeq(ss, 1, k - 1)) \o Chk!PieceChars(x)
    BY <2>1, <1>1, CharsOfAppend
  <2>3. Chk!Characters(SubSeq(ss, 1, k - 1)) \in Seq(Marks) /\ Chk!PieceChars(x) \in Seq(Marks)
    BY <2>1, <1>1, CharsOfSeq, CharsType
  <2>4. HeldSoFar(a) = held \o Chk!Characters(SubSeq(ss, 1, k - 1))
    BY DEF InnerOK, ss
  <2>5. (held \o Chk!Characters(SubSeq(ss, 1, k - 1))) \o Chk!PieceChars(x)
          = held \o (Chk!Characters(SubSeq(ss, 1, k - 1)) \o Chk!PieceChars(x))
    BY <2>3, ConcatAssociative, SMTT(30)
  <2> QED BY <2>2, <2>4, <2>5
<1>4. CutOK(t, b) /\ b.cur = <<>> /\ HeldSoFar(b) = HeldSoFar(a)
  BY <1>2, FlushKeeps
<1> HIDE DEF b
<1>5. b \in States /\ b.out \in Seq(Seq(AllPieces))
  BY <1>4 DEF CutOK, States
<1>6. Chk!FlattenSeq(a.out) \in Seq(AllPieces) /\ Chk!FlattenSeq(b.out) \in Seq(AllPieces)
  BY <1>2, <1>5, ChkFlattenType
<1>7. CASE Chk!Fits(a, 1, Chk!PieceLen(x))
  <2> DEFINE c == Append(a.cur, x)
             e == [a EXCEPT !.cur = c]
  <2>1. Chk!AddSentence(a, x) = e
    BY <1>7 DEF Chk!AddSentence
  <2>2. c \in Seq(AllPieces) /\ Chk!Range(c) = Chk!Range(a.cur) \union {x}
    BY <1>1, <1>2, AppendProperties, RangeOfAppend
  <2>3. Chk!ChunkLen(c) <= Target
    <3>1. Chk!ChunkLen(c) = Chk!ChunkLen(a.cur) + Chk!PieceLen(x) + Sep(a.cur, x)
      BY <1>1, <1>2, LengthOfAppend
    <3>2. Sep(a.cur, x) = IF a.cur = <<>> THEN 0 ELSE 1
      <4>1. a.cur # <<>> => a.cur[Len(a.cur)].para = p
        <5>1. SUFFICES ASSUME a.cur # <<>> PROVE a.cur[Len(a.cur)].para = p
          OBVIOUS
        <5>2. Len(a.cur) \in DOMAIN a.cur
          BY <5>1, <1>2, EmptySeq, LenProperties
        <5>3. a.cur[Len(a.cur)] \in Chk!Range(a.cur)
          BY <5>2 DEF Chk!Range
        <5> QED BY <5>3 DEF InnerOK
      <4> QED BY <4>1, <1>1 DEF Sep
    <3>3. Chk!ChunkLen(a.cur) + (IF a.cur = <<>> THEN 0 ELSE 1) + Chk!PieceLen(x) <= Target
      BY <1>7 DEF Chk!Fits
    <3>4. Chk!ChunkLen(a.cur) \in Nat /\ Chk!PieceLen(x) \in Nat
      BY <1>1, <1>2, LengthType, PieceType
    <3> HIDE DEF c
    <3> QED BY <3>1, <3>2, <3>3, <3>4
  <2>4. \A y \in Chk!Range(c) : y.para = p
    BY <2>2, <1>1 DEF InnerOK
  <2>5. Chk!Undivided(t, c)
    <3>1. ASSUME NEW y \in Chk!Range(c)
          PROVE  /\ t[y.para][y.sentence] <= Target => Chk!PieceLen(y) = t[y.para][y.sentence]
                 /\ Chk!ChunkLen(Chk!Sentences(t, y.para)) <= Target => Chk!Range(Chk!Sentences(t, y.para)) \subseteq Chk!Range(c)
      <4>1. y.para = p
        BY <2>4
      <4>2. t[y.para][y.sentence] <= Target => Chk!PieceLen(y) = t[y.para][y.sentence]
        <5>1. CASE y \in Chk!Range(a.cur)
          BY <5>1 DEF InnerOK, CutOK, ChunkOK, Chk!Undivided
        <5>2. CASE y = x
          BY <5>2, <1>1
        <5> QED BY <5>1, <5>2, <2>2
      <4> QED BY <4>1, <4>2
    <3> QED BY <3>1 DEF Chk!Undivided
  <2>6. e \in States /\ e.out = a.out /\ e.cur = c
    BY <1>2, <2>2 DEF States
  <2>7. HeldSoFar(e) = HeldSoFar(a) \o Chk!PieceChars(x)
    <3>1. Chk!FlattenSeq(a.out) \o c = Append(Chk!FlattenSeq(a.out) \o a.cur, x)
      <4>1. c = a.cur \o <<x>> /\ <<x>> \in Seq(AllPieces)
        BY <1>1, <1>2, AppendIsConcat
      <4>2. Chk!FlattenSeq(a.out) \o a.cur \in Seq(AllPieces)
        BY <1>2, <1>6, ConcatProperties
      <4>3. Append(Chk!FlattenSeq(a.out) \o a.cur, x) = (Chk!FlattenSeq(a.out) \o a.cur) \o <<x>>
        BY <4>2, <1>1, AppendIsConcat
      <4>4. (Chk!FlattenSeq(a.out) \o a.cur) \o <<x>> = Chk!FlattenSeq(a.out) \o (a.cur \o <<x>>)
        <5> DEFINE u == Chk!FlattenSeq(a.out)  v == a.cur  w == <<x>>
        <5>1. u \in Seq(AllPieces) /\ v \in Seq(AllPieces) /\ w \in Seq(AllPieces)
          BY <4>1, <1>2, <1>6
        <5> HIDE DEF u, v, w
        <5>2. (u \o v) \o w = u \o (v \o w)
          BY <5>1, ConcatAssociative, SMTT(30)
        <5> QED BY <5>2 DEF u, v, w
      <4> QED BY <4>1, <4>3, <4>4
    <3>2. Chk!FlattenSeq(a.out) \o a.cur \in Seq(AllPieces)
      BY <1>2, <1>6, ConcatProperties
    <3>3. Chk!Characters(Append(Chk!FlattenSeq(a.out) \o a.cur, x)) = Chk!Characters(Chk!FlattenSeq(a.out) \o a.cur) \o Chk!PieceChars(x)
      BY <3>2, <1>1, CharsOfAppend
    <3> HIDE DEF c, e
    <3> QED BY <2>6, <3>1, <3>3 DEF HeldSoFar
  <2> HIDE DEF c, e
  <2>8. CutOK(t, e)
    BY <2>3, <2>5, <2>6, <1>2 DEF CutOK, ChunkOK
  <2>9. InnerOK(t, p, held, k, e)
    BY <2>4, <2>6, <2>7, <2>8, <1>3 DEF InnerOK, ss
  <2> QED BY <2>1, <2>9 DEF x, ss
<1>8. CASE ~Chk!Fits(a, 1, Chk!PieceLen(x)) /\ Chk!PieceLen(x) <= Target
  <2> DEFINE e == [b EXCEPT !.cur = <<x>>]
  <2>1. Chk!AddSentence(a, x) = e
    BY <1>8 DEF Chk!AddSentence, b
  <2>2. e \in States /\ e.out = b.out /\ e.cur = <<x>> /\ <<x>> \in Seq(AllPieces)
    <3> DEFINE s == <<x>>
    <3>1. s \in Seq(AllPieces)
      BY <1>1
    <3> HIDE DEF s
    <3>2. [b EXCEPT !.cur = s] \in States /\ [b EXCEPT !.cur = s].out = b.out /\ [b EXCEPT !.cur = s].cur = s
      BY <3>1, <1>5 DEF States
    <3> QED BY <3>1, <3>2 DEF s
  <2>3. Append(<<>>, x) = <<x>> /\ <<>> \in Seq(AllPieces)
    BY EmptySeq
  <2>4. Chk!ChunkLen(<<x>>) <= Target
    <3>1. Chk!ChunkLen(Append(<<>>, x)) = Chk!ChunkLen(<<>>) + Chk!PieceLen(x) + Sep(<<>>, x)
      BY <2>3, <1>1, LengthOfAppend
    <3>2. Chk!PieceLen(x) \in Nat
      BY <1>1, PieceType
    <3> QED BY <3>1, <3>2, <2>3, <1>8, LengthOfNone DEF Sep
  <2>5. Chk!Range(<<x>>) = {x}
    <3>1. DOMAIN <<x>> = {1} /\ <<x>>[1] = x
      OBVIOUS
    <3> QED BY <3>1 DEF Chk!Range
  <2>6. Chk!Undivided(t, <<x>>)
    BY <2>5, <1>1 DEF Chk!Undivided, ss
  <2>7. HeldSoFar(e) = HeldSoFar(a) \o Chk!PieceChars(x)
    <3>1. Chk!FlattenSeq(b.out) \o <<>> = Chk!FlattenSeq(b.out)
      BY <1>6, ConcatEmptySeq
    <3>2. Chk!FlattenSeq(b.out) \o <<x>> = Append(Chk!FlattenSeq(b.out), x)
      BY <1>1, <1>6, AppendIsConcat
    <3>3. Chk!Characters(Append(Chk!FlattenSeq(b.out), x)) = Chk!Characters(Chk!FlattenSeq(b.out)) \o Chk!PieceChars(x)
      BY <1>1, <1>6, CharsOfAppend
    <3>4. HeldSoFar(b) = Chk!Characters(Chk!FlattenSeq(b.out))
      BY <1>4, <3>1 DEF HeldSoFar
    <3> HIDE DEF e
    <3> QED BY <2>2, <3>2, <3>3, <3>4, <1>4 DEF HeldSoFar
  <2> HIDE DEF e
  <2>8. CutOK(t, e)
    BY <2>2, <2>4, <2>6, <1>4 DEF CutOK, ChunkOK
  <2>9. InnerOK(t, p, held, k, e)
    BY <2>2, <2>5, <2>7, <2>8, <1>1, <1>3 DEF InnerOK, ss
  <2> QED BY <2>1, <2>9 DEF x, ss
<1>9. CASE ~Chk!Fits(a, 1, Chk!PieceLen(x)) /\ ~(Chk!PieceLen(x) <= Target)
  <2> DEFINE hs == Chk!HardSplit(x)
             e == [b EXCEPT !.out = @ \o hs]
  <2>1. Chk!AddSentence(a, x) = e
    BY <1>9 DEF Chk!AddSentence, b
  <2>2. /\ hs \in Seq(Seq(AllPieces))
        /\ \A c \in Chk!Range(hs) :
              \E y \in AllPieces : c = <<y>> /\ Chk!PieceLen(y) <= Target
                                /\ y.para = x.para /\ y.sentence = x.sentence
        /\ Chk!Characters(Chk!FlattenSeq(hs)) = Chk!PieceChars(x)
    BY <1>1, SplitRight
  <2> HIDE DEF hs
  <2>3. b.out \o hs \in Seq(Seq(AllPieces)) /\ Chk!Range(b.out \o hs) = Chk!Range(b.out) \union Chk!Range(hs)
    BY <1>5, <2>2, ConcatProperties, ChkRangeConcatenation
  <2>4. e \in States /\ e.out = b.out \o hs /\ e.cur = <<>>
    BY <1>4, <1>5, <2>3 DEF States
  <2>5. ASSUME NEW c \in Chk!Range(hs) PROVE c # <<>> /\ ChunkOK(t, c)
    <3>1. PICK y \in AllPieces : c = <<y>> /\ Chk!PieceLen(y) <= Target
                              /\ y.para = x.para /\ y.sentence = x.sentence
      BY <2>2
    <3>2. Append(<<>>, y) = <<y>> /\ <<>> \in Seq(AllPieces)
      BY EmptySeq
    <3>3. Chk!ChunkLen(c) <= Target
      <4>1. Chk!ChunkLen(Append(<<>>, y)) = Chk!ChunkLen(<<>>) + Chk!PieceLen(y) + Sep(<<>>, y)
        BY <3>2, LengthOfAppend
      <4>2. Chk!PieceLen(y) \in Nat
        BY PieceType
      <4> QED BY <4>1, <4>2, <3>1, <3>2, LengthOfNone DEF Sep
    <3>4. Chk!Range(c) = {y}
      <4>1. DOMAIN <<y>> = {1} /\ <<y>>[1] = y
        OBVIOUS
      <4> QED BY <3>1, <4>1 DEF Chk!Range
    <3>5. Chk!Undivided(t, c)
      BY <3>1, <3>4, <1>1, <1>9 DEF Chk!Undivided, ss
    <3> QED BY <3>1, <3>3, <3>5 DEF ChunkOK
  <2>6. HeldSoFar(e) = HeldSoFar(a) \o Chk!PieceChars(x)
    <3>1. Chk!FlattenSeq(b.out) \o <<>> = Chk!FlattenSeq(b.out)
      BY <1>6, ConcatEmptySeq
    <3>2. Chk!FlattenSeq(hs) \in Seq(AllPieces) /\ Chk!FlattenSeq(b.out \o hs) = Chk!FlattenSeq(b.out) \o Chk!FlattenSeq(hs)
      BY <1>5, <2>2, ChkFlattenType, ChkFlattenConcat
    <3>3. Chk!Characters(Chk!FlattenSeq(b.out) \o Chk!FlattenSeq(hs)) = Chk!Characters(Chk!FlattenSeq(b.out)) \o Chk!PieceChars(x)
      BY <3>2, <1>6, <2>2, CharsOfConcat
    <3>4. HeldSoFar(b) = Chk!Characters(Chk!FlattenSeq(b.out))
      BY <1>4, <3>1 DEF HeldSoFar
    <3>5. Chk!FlattenSeq(b.out) \o Chk!FlattenSeq(hs) \in Seq(AllPieces)
      BY <3>2, <1>6, ConcatProperties
    <3>6. Chk!FlattenSeq(b.out \o hs) \o <<>> = Chk!FlattenSeq(b.out) \o Chk!FlattenSeq(hs)
      BY <3>2, <3>5, ConcatEmptySeq
    <3> HIDE DEF e
    <3> QED BY <2>4, <3>3, <3>4, <3>6, <1>4 DEF HeldSoFar
  <2> HIDE DEF e
  <2>7. CutOK(t, e)
    BY <2>3, <2>4, <2>5, <1>4, NoneOK DEF CutOK
  <2>8. Chk!Range(e.cur) = {}
    BY <2>4 DEF Chk!Range
  <2>9. InnerOK(t, p, held, k, e)
    BY <2>6, <2>7, <2>8, <1>3 DEF InnerOK, ss
  <2> QED BY <2>1, <2>9 DEF x, ss
<1> QED BY <1>7, <1>8, <1>9

\* And so does adding all of them.
LEMMA InnerKeeps ==
  ASSUME NEW t \in Texts, NEW p \in DOMAIN t, Target \in Nat \ {0},
         ~(Chk!ChunkLen(Chk!Sentences(t, p)) <= Target),
         NEW a, CutOK(t, a), a.cur = <<>>
  PROVE  LET e == Chk!FoldLeft(Chk!AddSentence, a, Chk!Sentences(t, p))
         IN /\ CutOK(t, e)
            /\ \A x \in Chk!Range(e.cur) : x.para = p
            /\ HeldSoFar(e) = HeldSoFar(a) \o Chk!Characters(Chk!Sentences(t, p))
<1> DEFINE ss == Chk!Sentences(t, p)
           n == Len(ss)
           T == {kx \in (0..n) \X States : InnerOK(t, p, HeldSoFar(a), kx[1], kx[2])}
<1>1. ss \in Seq(AllPieces) /\ n \in Nat /\ DOMAIN ss = 1..n
  BY SentencesType, LenProperties
<1>2. a \in States /\ a.out \in Seq(Seq(AllPieces)) /\ a.cur \in Seq(AllPieces)
  BY DEF CutOK, States
<1>3. HeldSoFar(a) \in Seq(Marks)
  BY <1>2, ChkFlattenType, ConcatProperties, CharsOfSeq DEF HeldSoFar
<1>4. <<0, a>> \in T
  <2>1. SubSeq(ss, 1, 0) = <<>>
    <3> HIDE DEF ss
    <3> QED BY SubSeqEmpty
  <2>2. HeldSoFar(a) \o Chk!Characters(SubSeq(ss, 1, 0)) = HeldSoFar(a)
    <3> HIDE DEF ss
    <3> QED BY <2>1, <1>3, CharsOfNone, ConcatEmptySeq
  <2>3. Chk!Range(a.cur) = {}
    BY DEF Chk!Range
  <2>4. InnerOK(t, p, HeldSoFar(a), 0, a)
    BY <2>2, <2>3 DEF InnerOK
  <2>5. <<0, a>> \in (0..n) \X States
    <3>1. 0 \in 0..n
      BY <1>1
    <3> QED BY <3>1, <1>2
  <2> HIDE DEF n
  <2> QED BY <2>4, <2>5
<1>5. ASSUME NEW k \in 1..n, NEW y, <<k - 1, y>> \in T PROVE <<k, AddS(y, ss[k])>> \in T
  <2>1. InnerOK(t, p, HeldSoFar(a), k - 1, y)
    BY <1>5
  <2>2. InnerOK(t, p, HeldSoFar(a), k, AddS(y, ss[k]))
    BY <2>1, <1>3, InnerStep DEF AddS
  <2>3. AddS(y, ss[k]) \in States
    BY <2>2 DEF InnerOK, CutOK
  <2>4. k \in 0..n
    BY <1>1
  <2> HIDE DEF n
  <2> QED BY <2>2, <2>3, <2>4
<1>6. <<n, Inner!Fold(a, ss)>> \in T
  <2> HIDE DEF T, n, ss
  <2> QED BY <1>1, <1>4, <1>5, Inner!FoldHolds
<1>7. SubSeq(ss, 1, n) = ss
  <2> HIDE DEF ss
  <2> QED BY <1>1, SubSeqFull DEF n
<1>8. InnerOK(t, p, HeldSoFar(a), n, Inner!Fold(a, ss))
  BY <1>6
<1> HIDE DEF n
<1> QED BY <1>7, <1>8, InnerIsLoop DEF InnerOK

\* Chunking: what the loop over the paragraphs keeps.
OuterOK(t, p, a) ==
  /\ CutOK(t, a)
  /\ \A x \in Chk!Range(a.cur) : x.para <= p
  /\ HeldSoFar(a) = Chk!Characters(Chk!FlattenSeq(SubSeq(Chk!Paragraphs(t), 1, p)))

\* The pieces that a text is cut from.
LEMMA ParagraphsType ==
  ASSUME NEW t \in Texts
  PROVE  /\ Chk!Paragraphs(t) \in Seq(Seq(AllPieces)) /\ Len(Chk!Paragraphs(t)) = Len(t)
         /\ DOMAIN Chk!Paragraphs(t) = 1..Len(t) /\ DOMAIN t = 1..Len(t) /\ Len(t) \in Nat
         /\ \A p \in 1..Len(t) : Chk!Paragraphs(t)[p] = Chk!Sentences(t, p)
<1>1. DOMAIN t = 1..Len(t) /\ Len(t) \in Nat
  BY LenProperties DEF Texts
<1>2. \A p \in DOMAIN t : Chk!Sentences(t, p) \in Seq(AllPieces)
  BY SentencesType
<1> DEFINE ps == [p \in DOMAIN t |-> Chk!Sentences(t, p)]
<1>3. ps \in [1..Len(t) -> Seq(AllPieces)]
  BY <1>1, <1>2
<1> HIDE DEF ps
<1>4. ps \in Seq(Seq(AllPieces)) /\ Len(ps) = Len(t) /\ DOMAIN ps = 1..Len(t)
  <2>1. ps \in Seq(Seq(AllPieces))
    BY <1>1, <1>3, SeqDef
  <2> QED BY <2>1, <1>1, <1>3
<1>5. Chk!Paragraphs(t) = ps
  BY DEF Chk!Paragraphs, ps
<1> QED BY <1>1, <1>4, <1>5 DEF ps

\* Adding a paragraph keeps the cut good.
LEMMA OuterStep ==
  ASSUME NEW t \in Texts, NEW p \in 1..Len(t), Target \in Nat \ {0}, t[p] # <<>>,
         NEW a, OuterOK(t, p - 1, a)
  PROVE  OuterOK(t, p, Chk!AddPara(a, Chk!Sentences(t, p)))
<1> DEFINE ss == Chk!Sentences(t, p)
           e == Chk!AddPara(a, ss)
<1>1. p \in DOMAIN t /\ p \in Nat /\ ss \in Seq(AllPieces) /\ ss # <<>>
  <2>1. p \in DOMAIN t /\ p \in Nat
    BY ParagraphsType
  <2>2. Len(t[p]) # 0
    <3>1. t[p] \in Seq(Nat \ {0})
      BY <2>1, ParagraphsType, ElementOfSeq DEF Texts
    <3> QED BY <3>1, EmptySeq
  <2>3. Chk!Sentences(t, p) \in Seq(AllPieces) /\ Len(Chk!Sentences(t, p)) = Len(t[p])
    BY <2>1, SentencesType
  <2>4. Len(<<>>) = 0
    OBVIOUS
  <2> QED BY <2>1, <2>2, <2>3, <2>4
<1>2. \A x \in Chk!Range(ss) : x.para = p /\ x.first = 1 /\ Chk!PieceLen(x) = t[p][x.sentence]
  BY <1>1, SentencesType
<1>3. a \in States /\ a.out \in Seq(Seq(AllPieces)) /\ a.cur \in Seq(AllPieces) /\ CutOK(t, a)
  BY DEF OuterOK, CutOK, States
<1> HIDE DEF ss, e
<1>4. Chk!Characters(Chk!FlattenSeq(SubSeq(Chk!Paragraphs(t), 1, p))) = HeldSoFar(a) \o Chk!Characters(ss)
  <2> DEFINE ps == Chk!Paragraphs(t)
             pre == SubSeq(ps, 1, p - 1)
  <2>1. ps \in Seq(Seq(AllPieces)) /\ Len(ps) = Len(t) /\ ps[p] = ss /\ Len(t) \in Nat
    BY ParagraphsType DEF ss
  <2> HIDE DEF ps
  <2>2. pre \in Seq(Seq(AllPieces))
    <3>1. \A i \in 1..(p - 1) : ps[i] \in Seq(AllPieces)
      BY <2>1, ElementOfSeq
    <3> QED BY <3>1, <1>1, SubSeqProperties
  <2>3. SubSeq(ps, 1, p) = Append(pre, ss)
    <3>1. 1 \in 1..Len(ps) /\ p \in 1..Len(ps)
      BY <2>1
    <3>2. SubSeq(ps, 1, p) = SubSeq(ps, 1, p - 1) \o <<ps[p]>>
      BY <3>1, <2>1, SubSeqRecursiveSecond
    <3> QED BY <3>2, <2>1, <2>2, <1>1, AppendIsConcat
  <2> HIDE DEF pre
  <2>4. Chk!FlattenSeq(Append(pre, ss)) = Chk!FlattenSeq(pre) \o ss /\ Chk!FlattenSeq(pre) \in Seq(AllPieces)
    BY <2>2, <1>1, ChkFlattenAppend, ChkFlattenType
  <2>5. Chk!Characters(Chk!FlattenSeq(pre) \o ss) = Chk!Characters(Chk!FlattenSeq(pre)) \o Chk!Characters(ss)
    BY <2>4, <1>1, CharsOfConcat
  <2>6. HeldSoFar(a) = Chk!Characters(Chk!FlattenSeq(pre))
    BY DEF OuterOK, pre, ps
  <2> QED BY <2>3, <2>4, <2>5, <2>6 DEF ps
<1>5. CASE Chk!ChunkLen(ss) <= Target
  <2> DEFINE b == IF Chk!Fits(a, 2, Chk!ChunkLen(ss)) THEN a ELSE Chk!Flush(a)
             d == b.cur \o ss
             f == [b EXCEPT !.cur = d]
  <2>1. e = f
    BY <1>5 DEF Chk!AddPara, e
  <2>2. CutOK(t, b) /\ HeldSoFar(b) = HeldSoFar(a) /\ (b.cur = <<>> \/ (b = a /\ Chk!Fits(a, 2, Chk!ChunkLen(ss))))
    BY <1>3, FlushKeeps
  <2>3. \A x \in Chk!Range(b.cur) : x.para <= p - 1
    <3>1. Chk!Range(<<>>) = {}
      BY DEF Chk!Range
    <3> HIDE DEF b
    <3> QED BY <3>1, <2>2 DEF OuterOK
  <2> HIDE DEF b
  <2>4. b \in States /\ b.out \in Seq(Seq(AllPieces)) /\ b.cur \in Seq(AllPieces)
    BY <2>2 DEF CutOK, States
  <2>5. d \in Seq(AllPieces) /\ Chk!Range(d) = Chk!Range(b.cur) \union Chk!Range(ss)
    BY <2>4, <1>1, ConcatProperties, ChkRangeConcatenation
  <2>6. Chk!ChunkLen(d) <= Target
    <3>1. ss[1].para = p
      <4>1. 1 \in DOMAIN ss
        BY <1>1, EmptySeq, LenProperties
      <4>2. ss[1] \in Chk!Range(ss)
        BY <4>1 DEF Chk!Range
      <4> QED BY <4>2, <1>2
    <3>2. b.cur # <<>> => b.cur[Len(b.cur)].para # ss[1].para
      <4>1. SUFFICES ASSUME b.cur # <<>> PROVE b.cur[Len(b.cur)].para # p
        BY <3>1
      <4>2. Len(b.cur) \in DOMAIN b.cur
        BY <4>1, <2>4, EmptySeq, LenProperties
      <4>3. b.cur[Len(b.cur)] \in Chk!Range(b.cur) /\ b.cur[Len(b.cur)] \in AllPieces
        BY <4>2, <2>4, ElementOfSeq, LenProperties DEF Chk!Range
      <4>4. b.cur[Len(b.cur)].para <= p - 1 /\ b.cur[Len(b.cur)].para \in Nat
        BY <4>3, <2>3, PieceType
      <4> QED BY <4>4, <1>1
    <3>3. Chk!ChunkLen(d) = Chk!ChunkLen(b.cur) + (IF b.cur = <<>> THEN 0 ELSE 2) + Chk!ChunkLen(ss)
      BY <3>2, <2>4, <1>1, LengthOfConcat
    <3>4. Chk!ChunkLen(ss) \in Nat
      BY <1>1, LengthType
    <3>5. CASE b.cur = <<>>
      <4>1. Chk!ChunkLen(b.cur) = 0
        BY <3>5, LengthOfNone
      <4> HIDE DEF d
      <4> QED BY <4>1, <3>3, <3>4, <3>5, <1>5
    <3>6. CASE b.cur # <<>>
      <4>1. b = a /\ Chk!ChunkLen(a.cur) + 2 + Chk!ChunkLen(ss) <= Target
        BY <3>6, <2>2 DEF Chk!Fits
      <4> HIDE DEF d
      <4> QED BY <4>1, <3>3, <3>6
    <3> QED BY <3>5, <3>6
  <2>7. Chk!Undivided(t, d)
    <3>1. ASSUME NEW y \in Chk!Range(d)
          PROVE  /\ t[y.para][y.sentence] <= Target => Chk!PieceLen(y) = t[y.para][y.sentence]
                 /\ Chk!ChunkLen(Chk!Sentences(t, y.para)) <= Target => Chk!Range(Chk!Sentences(t, y.para)) \subseteq Chk!Range(d)
      <4>1. CASE y \in Chk!Range(b.cur)
        BY <4>1, <2>2, <2>5 DEF CutOK, ChunkOK, Chk!Undivided
      <4>2. CASE y \in Chk!Range(ss)
        BY <4>2, <1>2, <2>5 DEF ss
      <4> QED BY <4>1, <4>2, <2>5
    <3> QED BY <3>1 DEF Chk!Undivided
  <2>8. f \in States /\ f.out = b.out /\ f.cur = d
    <3> HIDE DEF d
    <3> QED BY <2>4, <2>5 DEF States
  <2>9. HeldSoFar(f) = HeldSoFar(a) \o Chk!Characters(ss)
    <3>1. Chk!FlattenSeq(b.out) \in Seq(AllPieces)
      BY <2>4, ChkFlattenType
    <3>2. Chk!FlattenSeq(b.out) \o d = (Chk!FlattenSeq(b.out) \o b.cur) \o ss
      <4> DEFINE u == Chk!FlattenSeq(b.out)  v == b.cur
      <4>1. u \in Seq(AllPieces) /\ v \in Seq(AllPieces) /\ ss \in Seq(AllPieces)
        BY <3>1, <2>4, <1>1
      <4> HIDE DEF u, v
      <4>2. (u \o v) \o ss = u \o (v \o ss)
        BY <4>1, ConcatAssociative
      <4> QED BY <4>2 DEF u, v
    <3>3. Chk!FlattenSeq(b.out) \o b.cur \in Seq(AllPieces)
      BY <3>1, <2>4, ConcatProperties
    <3>4. Chk!Characters((Chk!FlattenSeq(b.out) \o b.cur) \o ss) = Chk!Characters(Chk!FlattenSeq(b.out) \o b.cur) \o Chk!Characters(ss)
      BY <3>3, <1>1, CharsOfConcat
    <3> HIDE DEF d, f
    <3> QED BY <2>8, <3>2, <3>4, <2>2 DEF HeldSoFar
  <2>10. \A x \in Chk!Range(d) : x.para <= p
    <3>1. ASSUME NEW x \in Chk!Range(d) PROVE x.para <= p
      <4>1. x \in AllPieces
        BY <2>5, ChkRangeOfSeq
      <4>2. x.para \in Nat
        BY <4>1, PieceType
      <4> QED BY <4>2, <2>3, <2>5, <1>1, <1>2
    <3> QED BY <3>1
  <2> HIDE DEF d, f
  <2>11. CutOK(t, f)
    BY <2>2, <2>6, <2>7, <2>8 DEF CutOK, ChunkOK
  <2>12. OuterOK(t, p, f)
    BY <2>8, <2>9, <2>10, <2>11, <1>4 DEF OuterOK
  <2> QED BY <2>1, <2>12 DEF e, ss
<1>6. CASE ~(Chk!ChunkLen(ss) <= Target)
  <2> DEFINE b == Chk!Flush(a)
  <2>1. e = Chk!FoldLeft(Chk!AddSentence, b, ss)
    BY <1>6 DEF Chk!AddPara, e
  <2>2. CutOK(t, b) /\ b.cur = <<>> /\ HeldSoFar(b) = HeldSoFar(a)
    BY <1>3, FlushKeeps
  <2> HIDE DEF b
  <2>3. CutOK(t, e) /\ (\A x \in Chk!Range(e.cur) : x.para = p) /\ HeldSoFar(e) = HeldSoFar(b) \o Chk!Characters(ss)
    BY <1>1, <1>6, <2>1, <2>2, InnerKeeps DEF ss
  <2>4. \A x \in Chk!Range(e.cur) : x.para <= p
    BY <2>3, <1>1
  <2>5. OuterOK(t, p, e)
    BY <2>2, <2>3, <2>4, <1>4 DEF OuterOK
  <2> QED BY <2>5 DEF e, ss
<1> QED BY <1>5, <1>6

\* Chunking: the chunks of a text.
LEMMA CutRight ==
  ASSUME NEW t \in Texts, Target \in Nat \ {0}, \A p \in DOMAIN t : t[p] # <<>>
  PROVE  /\ \A c \in Chk!Range(Chk!ChunkText(t)) : c # <<>> /\ ChunkOK(t, c)
         /\ Chk!Characters(Chk!FlattenSeq(Chk!ChunkText(t))) = Chk!Characters(Chk!FlattenSeq(Chk!Paragraphs(t)))
<1> DEFINE ps == Chk!Paragraphs(t)
           n == Len(t)
           whole == Chk!FlattenSeq(ps)
<1>1. ps \in Seq(Seq(AllPieces)) /\ Len(ps) = n /\ DOMAIN ps = 1..n /\ n \in Nat /\ DOMAIN t = 1..n
  BY ParagraphsType
<1>2. \A p \in 1..n : ps[p] = Chk!Sentences(t, p)
  BY ParagraphsType
<1>3. CASE t = <<>>
  <2>1. Chk!ChunkText(t) = <<>>
    BY <1>3 DEF Chk!ChunkText
  <2>2. ps = <<>>
    <3>1. n = 0
      BY <1>3
    <3> HIDE DEF ps, n
    <3> QED BY <3>1, <1>1, EmptySeq
  <2>3. Chk!Range(<<>>) = {}
    BY DEF Chk!Range
  <2> QED BY <2>1, <2>2, <2>3
<1>4. CASE t # <<>> /\ Chk!ChunkLen(whole) <= Target
  <2>1. Chk!ChunkText(t) = <<whole>>
    BY <1>4 DEF Chk!ChunkText
  <2> HIDE DEF ps
  <2>2. n # 0
    <3>1. t \in Seq(Seq(Nat \ {0}))
      BY DEF Texts
    <3> QED BY <1>4, <3>1, EmptySeq
  <2>3. whole \in Seq(AllPieces)
    BY <1>1, ChkFlattenType
  <2>4. \A k \in 0..n : /\ \A x \in Chk!Range(Chk!FlattenSeq(SubSeq(ps, 1, k))) :
                             x.para \in 1..k /\ Chk!PieceLen(x) = t[x.para][x.sentence]
                        /\ \A q \in 1..k : Chk!Range(Chk!Sentences(t, q)) \subseteq Chk!Range(Chk!FlattenSeq(SubSeq(ps, 1, k)))
    <3> DEFINE G(k) == /\ \A x \in Chk!Range(Chk!FlattenSeq(SubSeq(ps, 1, k))) :
                             x.para \in 1..k /\ Chk!PieceLen(x) = t[x.para][x.sentence]
                       /\ \A q \in 1..k : Chk!Range(Chk!Sentences(t, q)) \subseteq Chk!Range(Chk!FlattenSeq(SubSeq(ps, 1, k)))
               U == {k \in 0..n : G(k)}
    <3>1. 0 \in U
      <4>1. SubSeq(ps, 1, 0) = <<>>
        BY SubSeqEmpty
      <4>2. Chk!Range(Chk!FlattenSeq(SubSeq(ps, 1, 0))) = {}
        <5>1. Chk!FlattenSeq(SubSeq(ps, 1, 0)) = <<>>
          BY <4>1, ChkFlattenNone, Zenon
        <5>2. Chk!Range(<<>>) = {}
          BY DEF Chk!Range
        <5> QED BY <5>1, <5>2, Zenon
      <4> QED BY <4>2, <1>1
    <3>2. ASSUME NEW k \in 1..n, k - 1 \in U PROVE k \in U
      <4> DEFINE pre == SubSeq(ps, 1, k - 1)
                 ss == Chk!Sentences(t, k)
      <4>1. k \in DOMAIN t /\ k \in Nat /\ k - 1 \in 0..n
        BY <1>1
      <4>2. ss \in Seq(AllPieces) /\ \A x \in Chk!Range(ss) : x.para = k /\ Chk!PieceLen(x) = t[k][x.sentence]
        BY <4>1, SentencesType
      <4>3. ps[k] = ss
        BY <1>2
      <4> HIDE DEF ss
      <4>4. pre \in Seq(Seq(AllPieces)) /\ SubSeq(ps, 1, k) = Append(pre, ss)
        <5>1. 1 \in 1..Len(ps) /\ k \in 1..Len(ps)
          BY <1>1
        <5>2. SubSeq(ps, 1, k) = SubSeq(ps, 1, k - 1) \o <<ps[k]>>
          BY <5>1, <1>1, SubSeqRecursiveSecond
        <5>3. pre \in Seq(Seq(AllPieces))
          <6>1. \A i \in 1..(k - 1) : ps[i] \in Seq(AllPieces)
            BY <1>1, ElementOfSeq
          <6> QED BY <6>1, <4>1, SubSeqProperties
        <5> QED BY <5>2, <5>3, <4>2, <4>3, AppendIsConcat
      <4>5. Chk!Range(Chk!FlattenSeq(SubSeq(ps, 1, k))) = Chk!Range(Chk!FlattenSeq(pre)) \union Chk!Range(ss)
        <5> HIDE DEF pre
        <5>1. Chk!FlattenSeq(Append(pre, ss)) = Chk!FlattenSeq(pre) \o ss /\ Chk!FlattenSeq(pre) \in Seq(AllPieces)
          BY <4>2, <4>4, ChkFlattenAppend, ChkFlattenType
        <5>2. Chk!Range(Chk!FlattenSeq(pre) \o ss) = Chk!Range(Chk!FlattenSeq(pre)) \union Chk!Range(ss)
          BY <5>1, <4>2, ChkRangeConcatenation
        <5> QED BY <5>1, <5>2, <4>4
      <4>6. G(k - 1)
        BY <3>2
      <4>7. \A x \in Chk!Range(Chk!FlattenSeq(SubSeq(ps, 1, k))) : x.para \in 1..k /\ Chk!PieceLen(x) = t[x.para][x.sentence]
        BY <4>1, <4>2, <4>5, <4>6
      <4>8. \A q \in 1..k : Chk!Range(Chk!Sentences(t, q)) \subseteq Chk!Range(Chk!FlattenSeq(SubSeq(ps, 1, k)))
        <5>1. ASSUME NEW q \in 1..k PROVE Chk!Range(Chk!Sentences(t, q)) \subseteq Chk!Range(Chk!FlattenSeq(SubSeq(ps, 1, k)))
          <6>1. CASE q = k
            BY <6>1, <4>5 DEF ss
          <6>2. CASE q # k
            <7>1. q \in 1..(k - 1)
              BY <6>2, <4>1
            <7> QED BY <7>1, <4>5, <4>6
          <6> QED BY <6>1, <6>2
        <5> QED BY <5>1
      <4> HIDE DEF n
      <4> QED BY <4>7, <4>8, <1>1
    <3>3. 0..n \subseteq U
      <4> HIDE DEF U, n
      <4> QED BY <3>1, <3>2, <1>1, Join!UpTo
    <3> QED BY <3>3
  <2>5. /\ \A x \in Chk!Range(whole) : x.para \in 1..n /\ Chk!PieceLen(x) = t[x.para][x.sentence]
        /\ \A q \in 1..n : Chk!Range(Chk!Sentences(t, q)) \subseteq Chk!Range(whole)
    <3>1. SubSeq(ps, 1, n) = ps
      BY <1>1, SubSeqFull
    <3>2. n \in 0..n
      BY <1>1
    <3> HIDE DEF n
    <3> QED BY <2>4, <3>1, <3>2
  <2> HIDE DEF n
  <2>6. Chk!Undivided(t, whole)
    <3> HIDE DEF whole
    <3> QED BY <2>5 DEF Chk!Undivided
  <2>7. whole # <<>>
    <3>1. 1 \in 1..n
      BY <2>2, <1>1
    <3>2. Chk!Sentences(t, 1) \in Seq(AllPieces) /\ DOMAIN Chk!Sentences(t, 1) = 1..Len(t[1])
      BY <3>1, <1>1, SentencesType
    <3>3. Len(t[1]) # 0 /\ Len(t[1]) \in Nat
      <4>1. t[1] \in Seq(Nat \ {0}) /\ t[1] # <<>>
        <5>1. 1 \in DOMAIN t
          BY <3>1, <1>1
        <5>2. t[1] # <<>>
          BY <5>1
        <5> QED BY <5>2, <3>1, ElementOfSeq DEF Texts, n
      <4> QED BY <4>1, EmptySeq
    <3>4. Chk!Sentences(t, 1)[1] \in Chk!Range(Chk!Sentences(t, 1))
      BY <3>2, <3>3 DEF Chk!Range
    <3>5. Chk!Sentences(t, 1)[1] \in Chk!Range(whole)
      BY <3>1, <3>4, <2>5
    <3>6. Chk!Range(<<>>) = {}
      BY DEF Chk!Range
    <3> QED BY <3>5, <3>6
  <2>8. Chk!Range(<<whole>>) = {whole}
    <3> HIDE DEF whole
    <3>1. DOMAIN <<whole>> = {1} /\ <<whole>>[1] = whole
      OBVIOUS
    <3> QED BY <3>1 DEF Chk!Range
  <2>9. Chk!FlattenSeq(<<whole>>) = whole
    <3> HIDE DEF whole
    <3>1. <<>> \in Seq(Seq(AllPieces)) /\ Append(<<>>, whole) = <<whole>>
      BY EmptySeq
    <3>2. Chk!FlattenSeq(Append(<<>>, whole)) = Chk!FlattenSeq(<<>>) \o whole
      BY <3>1, <2>3, ChkFlattenAppend
    <3> QED BY <3>1, <3>2, <2>3, ChkFlattenNone, ConcatEmptySeq
  <2>10. ChunkOK(t, whole)
    BY <1>4, <2>6 DEF ChunkOK
  <2>11. whole = Chk!FlattenSeq(Chk!Paragraphs(t))
    BY DEF ps
  <2> HIDE DEF whole
  <2> QED BY <2>1, <2>7, <2>8, <2>9, <2>10, <2>11
<1>5. CASE t # <<>> /\ ~(Chk!ChunkLen(whole) <= Target)
  <2> DEFINE a0 == [out |-> <<>>, cur |-> <<>>]
             T == {px \in (0..n) \X States : OuterOK(t, px[1], px[2])}
             e == Outer!Fold(a0, ps)
             f == Chk!Flush(e)
  <2>1. Chk!ChunkText(t) = f.out
    BY <1>5, OuterIsLoop DEF Chk!ChunkText
  <2> HIDE DEF ps
  <2>2. <<0, a0>> \in T
    <3>1. a0 \in States /\ a0.out = <<>> /\ a0.cur = <<>>
      <4>1. <<>> \in Seq(AllPieces) /\ <<>> \in Seq(Seq(AllPieces))
        BY EmptySeq
      <4> QED BY <4>1 DEF States
    <3> HIDE DEF a0
    <3>2. Chk!Range(<<>>) = {}
      BY DEF Chk!Range
    <3>3. CutOK(t, a0)
      BY <3>1, <3>2, NoneOK DEF CutOK
    <3>4. SubSeq(ps, 1, 0) = <<>>
      BY SubSeqEmpty
    <3>5. HeldSoFar(a0) = Chk!Characters(<<>>)
      <4>1. <<>> \o <<>> = <<>>
        OBVIOUS
      <4> QED BY <4>1, <3>1, ChkFlattenNone DEF HeldSoFar
    <3>6. OuterOK(t, 0, a0)
      BY <3>1, <3>2, <3>3, <3>4, <3>5, ChkFlattenNone DEF OuterOK, ps
    <3>7. 0 \in 0..n
      BY <1>1
    <3> HIDE DEF n
    <3> QED BY <3>1, <3>6, <3>7
  <2>3. ASSUME NEW p \in 1..n, NEW y, <<p - 1, y>> \in T PROVE <<p, AddP(y, ps[p])>> \in T
    <3>1. OuterOK(t, p - 1, y)
      BY <2>3
    <3>2. t[p] # <<>>
      BY <1>1
    <3>3. OuterOK(t, p, Chk!AddPara(y, Chk!Sentences(t, p)))
      BY <3>1, <3>2, OuterStep
    <3>4. OuterOK(t, p, AddP(y, ps[p]))
      BY <3>3, <1>2 DEF AddP
    <3>5. AddP(y, ps[p]) \in States
      BY <3>4 DEF OuterOK, CutOK
    <3>6. p \in 0..n
      BY <1>1
    <3> HIDE DEF n
    <3> QED BY <3>4, <3>5, <3>6
  <2>4. <<n, Outer!Fold(a0, ps)>> \in T
    <3> HIDE DEF T, n, a0
    <3> QED BY <1>1, <2>2, <2>3, Outer!FoldHolds
  <2>5. OuterOK(t, n, e)
    BY <2>4
  <2> HIDE DEF e
  <2>6. CutOK(t, f) /\ f.cur = <<>> /\ HeldSoFar(f) = HeldSoFar(e)
    BY <2>5, FlushKeeps DEF OuterOK
  <2> HIDE DEF f
  <2>7. f.out \in Seq(Seq(AllPieces))
    BY <2>6 DEF CutOK, States
  <2>8. Chk!FlattenSeq(f.out) \o <<>> = Chk!FlattenSeq(f.out)
    BY <2>7, ChkFlattenType, ConcatEmptySeq
  <2>9. SubSeq(ps, 1, n) = ps
    BY <1>1, SubSeqFull
  <2>10. Chk!Characters(Chk!FlattenSeq(f.out)) = Chk!Characters(Chk!FlattenSeq(ps))
    BY <2>5, <2>6, <2>8, <2>9 DEF HeldSoFar, OuterOK, ps
  <2> QED BY <2>1, <2>6, <2>10 DEF CutOK, ps
<1> QED BY <1>3, <1>4, <1>5

\* A block has one of the texts, and chunks of any of them are right.
LEMMA ChunksInvariance ==
  ASSUME Chk!ChunkingAssumption
  PROVE  /\ Chk!Init => text \in Chk!BlockTexts
         /\ text \in Chk!BlockTexts /\ [Chk!Next]_text => text' \in Chk!BlockTexts
         /\ text \in Chk!BlockTexts => Chk!ChunksRight
<1>1. Chk!Init => text \in Chk!BlockTexts
  <2>1. <<>> \in [1..0 -> Chk!Paras]
    OBVIOUS
  <2>2. 0 \in 0..MaxParas
    BY DEF Chk!ChunkingAssumption
  <2>3. <<>> \in Chk!BlockTexts
    BY <2>1, <2>2 DEF Chk!BlockTexts, Chk!SeqOf
  <2> QED BY <2>3 DEF Chk!Init
<1>2. text \in Chk!BlockTexts /\ [Chk!Next]_text => text' \in Chk!BlockTexts
  BY DEF Chk!Next, Chk!Write
<1>3. ASSUME text \in Chk!BlockTexts PROVE Chk!ChunksRight
  <2>1. Target \in Nat \ {0} /\ Lengths \subseteq Nat \ {0} /\ MaxSentences \in Nat /\ MaxParas \in Nat
    BY DEF Chk!ChunkingAssumption
  <2>2. PICK m \in 0..MaxParas : text \in [1..m -> Chk!Paras]
    BY <1>3 DEF Chk!BlockTexts, Chk!SeqOf
  <2>3. ASSUME NEW z \in Chk!Paras PROVE z \in Seq(Nat \ {0}) /\ z # <<>>
    <3>1. PICK k \in 0..MaxSentences : z \in [1..k -> Lengths]
      BY <2>3 DEF Chk!Paras, Chk!SeqOf
    <3>2. k \in Nat /\ z \in [1..k -> Nat \ {0}]
      <4>1. k \in Nat
        BY <2>1
      <4>2. \A i \in 1..k : z[i] \in Nat \ {0}
        BY <2>1, <3>1
      <4> QED BY <3>1, <4>1, <4>2
    <3>3. z \in Seq(Nat \ {0})
      BY <3>2, SeqDef
    <3> QED BY <3>3, <2>3 DEF Chk!Paras
  <2>4. text \in Texts /\ \A p \in DOMAIN text : text[p] # <<>>
    <3>1. m \in Nat /\ DOMAIN text = 1..m /\ \A p \in 1..m : text[p] \in Chk!Paras
      BY <2>1, <2>2
    <3>2. \A p \in 1..m : text[p] \in Seq(Nat \ {0}) /\ text[p] # <<>>
      BY <2>3, <3>1
    <3>3. text \in [1..m -> Seq(Nat \ {0})]
      BY <2>2, <3>2
    <3>4. text \in Texts
      BY <3>1, <3>3, SeqDef DEF Texts
    <3> QED BY <3>1, <3>2, <3>4
  <2> QED BY <2>1, <2>4, CutRight DEF Chk!ChunksRight, Chk!ChunksFit, Chk!NothingLost, Chk!NotDivided, ChunkOK
<1> QED BY <1>1, <1>2, <1>3

-----------------------------------------------------------------------------
(* The format.                                                             *)

LEMMA MinIsLeast ==
  ASSUME NEW s, s \subseteq Nat, s # {}
  PROVE  Fmt!Min(s) \in s /\ \A y \in s : Fmt!Min(s) <= y
<1>1. \E x \in s : \A y \in s : x <= y
  BY Join!LeastNumber
<1> QED BY <1>1 DEF Fmt!Min

LEMMA MaxIsGreatest ==
  ASSUME NEW n \in Nat, NEW s, s \subseteq 1..n, s # {}
  PROVE  Fmt!Max(s) \in s /\ \A y \in s : y <= Fmt!Max(s)
<1>1. Join!Greatest(s) \in s /\ \A y \in s : y <= Join!Greatest(s)
  BY Join!GreatestNumber
<1>2. Fmt!Max(s) = Join!Greatest(s)
  BY DEF Fmt!Max, Join!Greatest
<1> QED BY <1>1, <1>2

\* The characters of a line of a section, and what stands for one of them in quotes.
Alphabet == (Fmt!TextChars \ {Fmt!Break}) \union Fmt!Keys
Quoted(c) == IF c = Fmt!Quote THEN <<Fmt!Backslash, Fmt!Quote>> ELSE <<c>>

\* What the quoting rules tell apart is different.
LEMMA Characters ==
  /\ Fmt!Quote \in Alphabet /\ Fmt!Backslash \in Alphabet /\ "comma" \in Alphabet
  /\ "space" \in Alphabet /\ "relation=" \in Alphabet /\ "target=" \in Alphabet
  /\ Fmt!Quote # Fmt!Backslash /\ Fmt!Quote \notin Fmt!White /\ Fmt!Backslash \notin Fmt!White
  /\ Fmt!Quote \notin Fmt!Keys /\ Fmt!Backslash \notin Fmt!Keys
BY DEF Alphabet, Fmt!TextChars, Fmt!Break, Fmt!Chars, Fmt!Keys, Fmt!Quote, Fmt!Backslash, Fmt!White

LEMMA WithoutBreak == ASSUME NEW v \in Seq(Alphabet) PROVE ~Fmt!Has(v, Fmt!Break)
<1>1. Fmt!Break \notin Alphabet
  BY DEF Alphabet, Fmt!Break, Fmt!Keys
<1>2. \A i \in DOMAIN v : v[i] \in Alphabet
  BY LenProperties, ElementOfSeq
<1> QED BY <1>1, <1>2 DEF Fmt!Has, Fmt!Range

LEMMA Together == \A x, y, z \in Seq(Alphabet) : (x \o y) \o z = x \o (y \o z)
BY ConcatAssociative

LEMMA QuotedType == ASSUME NEW c \in Alphabet PROVE Quoted(c) \in Seq(Alphabet)
BY Characters DEF Quoted

\* Escaping: what it gives, a character at a time.
LEMMA EscapedNone == Fmt!Escaped(<<>>) = <<>>
<1> DEFINE q == [i \in DOMAIN <<>> |-> IF <<>>[i] = Fmt!Quote THEN <<Fmt!Backslash, Fmt!Quote>> ELSE << <<>>[i] >>]
<1>1. q = <<>>
  OBVIOUS
<1>2. Fmt!FlattenSeq(q) = <<>>
  <2> HIDE DEF q
  <2> QED BY <1>1, FmtFlattenNone
<1> QED BY <1>2 DEF Fmt!Escaped

\* A character adds what it is escaped as.
LEMMA EscapedMore ==
  ASSUME NEW w \in Seq(Alphabet), NEW c \in Alphabet
  PROVE  /\ Fmt!Escaped(w) \in Seq(Alphabet)
         /\ Fmt!Escaped(Append(w, c)) = Fmt!Escaped(w) \o Quoted(c)
<1> DEFINE n == Len(w)
           d == Append(w, c)
           r == [i \in DOMAIN w |-> Quoted(w[i])]
           q == [i \in DOMAIN d |-> Quoted(d[i])]
<1>1. n \in Nat /\ DOMAIN w = 1..n /\ \A i \in 1..n : w[i] \in Alphabet
  BY LenProperties, ElementOfSeq
<1>2. /\ d \in Seq(Alphabet) /\ Len(d) = n + 1
      /\ \A i \in 1..n : d[i] = w[i]
      /\ d[n+1] = c
  BY AppendProperties
<1>3. DOMAIN d = 1..(n+1)
  BY <1>2, LenProperties
<1>4. Fmt!Escaped(w) = Fmt!FlattenSeq(r) /\ Fmt!Escaped(d) = Fmt!FlattenSeq(q)
  BY DEF Fmt!Escaped, Quoted
<1> HIDE DEF n, d
<1>5. (\A i \in 1..n : q[i] = r[i]) /\ q[n+1] = Quoted(c)
  BY <1>1, <1>2, <1>3
<1>6. r \in [1..n -> Seq(Alphabet)]
  BY <1>1, QuotedType
<1>7. q \in [1..(n+1) -> Seq(Alphabet)]
  <2>1. \A i \in 1..(n+1) : d[i] \in Alphabet
    BY <1>2, ElementOfSeq
  <2> QED BY <2>1, <1>3, QuotedType
<1>8. Fmt!FlattenSeq(r) \in Seq(Alphabet) /\ Fmt!FlattenSeq(q) = Fmt!FlattenSeq(r) \o q[n+1]
  <2> HIDE DEF q, r
  <2> QED BY <1>1, <1>5, <1>6, <1>7, FmtFlattenMore
<1> QED BY <1>4, <1>5, <1>8 DEF d

LEMMA EscapedType ==
  ASSUME NEW w \in Seq(Alphabet) PROVE Fmt!Escaped(w) \in Seq(Alphabet)
BY EscapedMore, Characters

\* Escaping never shortens.
LEMMA EscapedLength ==
  ASSUME NEW w \in Seq(Alphabet) PROVE Len(Fmt!Escaped(w)) >= Len(w)
<1> DEFINE T == {x \in Seq(Alphabet) : Len(Fmt!Escaped(x)) >= Len(x)}
<1>1. <<>> \in T
  <2>1. Fmt!Escaped(<<>>) = <<>> /\ <<>> \in Seq(Alphabet) /\ Len(<<>>) = 0
    BY EscapedNone, EmptySeq
  <2>2. Len(Fmt!Escaped(<<>>)) = 0
    BY <2>1, Zenon
  <2>3. Len(Fmt!Escaped(<<>>)) >= Len(<<>>)
    BY <2>1, <2>2
  <2> QED BY <2>1, <2>3
<1>2. ASSUME NEW x \in Seq(Alphabet), NEW c \in Alphabet, x \in T PROVE Append(x, c) \in T
  <2>1. Len(Fmt!Escaped(x) \o Quoted(c)) = Len(Fmt!Escaped(x)) + Len(Quoted(c))
    BY EscapedType, QuotedType, ConcatProperties
  <2>2. Len(Quoted(c)) >= 1 /\ Len(Quoted(c)) \in Nat
    BY DEF Quoted
  <2>3. Len(Fmt!Escaped(x)) \in Nat /\ Len(x) \in Nat /\ Len(Fmt!Escaped(x)) >= Len(x)
    BY <1>2, EscapedType, LenProperties
  <2>4. Append(x, c) \in Seq(Alphabet) /\ Len(Append(x, c)) = Len(x) + 1
    BY AppendProperties
  <2>5. Len(Fmt!Escaped(Append(x, c))) = Len(Fmt!Escaped(x)) + Len(Quoted(c))
    BY <2>1, EscapedMore
  <2>6. Len(Fmt!Escaped(Append(x, c))) >= Len(Append(x, c))
    BY <2>2, <2>3, <2>4, <2>5
  <2> QED BY <2>4, <2>6
<1>3. Seq(Alphabet) \subseteq T
  <2> HIDE DEF T
  <2> QED BY <1>1, <1>2, SeqUpTo
<1> QED BY <1>3

\* Runs of backslashes: what they are, a character at a time.
LEMMA RunNone == ASSUME NEW s PROVE Fmt!Run(s, 1) = 0
<1>1. {j \in 1..(1 - 1) : s[j] # Fmt!Backslash} = {}
  OBVIOUS
<1> QED BY <1>1 DEF Fmt!Run

LEMMA RunType == ASSUME NEW s, NEW i \in Nat \ {0} PROVE Fmt!Run(s, i) \in Nat
<1> DEFINE others == {j \in 1..(i - 1) : s[j] # Fmt!Backslash}
<1>1. others # {} => Fmt!Max(others) \in 1..(i-1)
  <2>1. i - 1 \in Nat /\ others \subseteq 1..(i-1)
    OBVIOUS
  <2> HIDE DEF others
  <2> QED BY <2>1, MaxIsGreatest
<1> QED BY <1>1 DEF Fmt!Run

\* What follows a position does not change the backslashes before it.
LEMMA RunBefore ==
  ASSUME NEW w \in Seq(Alphabet), NEW c \in Alphabet, NEW i \in 1..(Len(w) + 1)
  PROVE  Fmt!Run(Append(w, c), i) = Fmt!Run(w, i)
<1>1. \A j \in 1..(i-1) : Append(w, c)[j] = w[j]
  BY AppendProperties, LenProperties
<1>2. {j \in 1..(i - 1) : Append(w, c)[j] # Fmt!Backslash} = {j \in 1..(i - 1) : w[j] # Fmt!Backslash}
  BY <1>1
<1> QED BY <1>2 DEF Fmt!Run

\* A backslash makes the run before the end longer; any other character ends it.
LEMMA RunMore ==
  ASSUME NEW w \in Seq(Alphabet), NEW c \in Alphabet
  PROVE  Fmt!Run(Append(w, c), Len(w) + 2) =
           IF c = Fmt!Backslash THEN Fmt!Run(w, Len(w) + 1) + 1 ELSE 0
<1> DEFINE n == Len(w)
           d == Append(w, c)
           others == {j \in 1..n : w[j] # Fmt!Backslash}
           more == {j \in 1..(n + 1) : d[j] # Fmt!Backslash}
<1>1. n \in Nat
  BY LenProperties
<1>2. (\A i \in 1..n : d[i] = w[i]) /\ d[n+1] = c
  BY AppendProperties
<1>3. Fmt!Run(w, n + 1) = n - (IF others = {} THEN 0 ELSE Fmt!Max(others))
  <2>1. (n + 1) - 1 = n
    BY <1>1
  <2> QED BY <2>1 DEF Fmt!Run
<1>4. Fmt!Run(d, n + 2) = (n + 1) - (IF more = {} THEN 0 ELSE Fmt!Max(more))
  <2>1. (n + 2) - 1 = n + 1
    BY <1>1
  <2> QED BY <2>1 DEF Fmt!Run
<1>5. CASE c = Fmt!Backslash
  <2>1. more = others
    <3>1. ASSUME NEW j \in 1..(n+1) PROVE j \in more <=> j \in others
      <4>1. CASE j = n + 1
        BY <4>1, <1>5, <1>2, <1>1
      <4>2. CASE j # n + 1
        <5>1. j \in 1..n
          BY <4>2, <1>1
        <5> QED BY <5>1, <1>2
      <4> QED BY <4>1, <4>2
    <3> QED BY <3>1, <1>1
  <2>2. others # {} => Fmt!Max(others) \in 1..n
    <3>1. others \subseteq 1..n
      OBVIOUS
    <3> HIDE DEF others
    <3> QED BY <3>1, <1>1, MaxIsGreatest
  <2> HIDE DEF others, more, n, d
  <2>3. Fmt!Run(d, n + 2) = Fmt!Run(w, n + 1) + 1
    BY <2>1, <2>2, <1>1, <1>3, <1>4
  <2> QED BY <2>3, <1>5 DEF n, d
<1>6. CASE c # Fmt!Backslash
  <2>1. n + 1 \in more
    BY <1>6, <1>1, <1>2
  <2>2. Fmt!Max(more) \in 1..(n+1) /\ n + 1 <= Fmt!Max(more)
    <3>1. more \subseteq 1..(n+1) /\ n + 1 \in Nat
      BY <1>1
    <3> HIDE DEF more
    <3> QED BY <2>1, <3>1, MaxIsGreatest
  <2>3. Fmt!Max(more) = n + 1
    <3> HIDE DEF more
    <3> QED BY <2>2, <1>1
  <2>4. Fmt!Run(d, n + 2) = 0
    <3>1. more # {}
      BY <2>1
    <3> HIDE DEF more, d, n
    <3>2. Fmt!Run(d, n + 2) = (n + 1) - Fmt!Max(more)
      BY <3>1, <1>4
    <3> QED BY <3>2, <2>3, <1>1
  <2> QED BY <2>4, <1>6 DEF n, d
<1> QED BY <1>5, <1>6

LEMMA OddNone == ASSUME NEW s PROVE ~Fmt!Odd(Fmt!Run(s, 1))
BY RunNone DEF Fmt!Odd

\* The run is odd after a backslash that no backslash takes with it.
LEMMA OddMore ==
  ASSUME NEW w \in Seq(Alphabet), NEW c \in Alphabet
  PROVE  Fmt!Odd(Fmt!Run(Append(w, c), Len(w) + 2)) <=> c = Fmt!Backslash /\ ~Fmt!Odd(Fmt!Run(w, Len(w) + 1))
<1>1. Fmt!Run(w, Len(w) + 1) \in Nat
  BY RunType, LenProperties
<1> DEFINE r == Fmt!Run(w, Len(w) + 1)
<1> HIDE DEF r
<1>2. r \in Nat => (Fmt!Odd(r + 1) <=> ~Fmt!Odd(r)) /\ ~Fmt!Odd(0)
  BY DEF Fmt!Odd
<1> QED BY <1>1, <1>2, RunMore DEF r

\* Trimming.
EndsWell(s) == s # <<>> /\ s[1] \notin Fmt!White /\ s[Len(s)] \notin Fmt!White

LEMMA TrimType ==
  ASSUME NEW S, NEW s \in Seq(S) PROVE Fmt!Trim(s) \in Seq(S)
<1> DEFINE kept == {i \in DOMAIN s : s[i] \notin Fmt!White}
<1>1. Len(s) \in Nat /\ kept \subseteq 1..Len(s) /\ \A i \in 1..Len(s) : s[i] \in S
  BY LenProperties, ElementOfSeq
<1>2. CASE kept = {}
  BY <1>2, EmptySeq DEF Fmt!Trim
<1>3. CASE kept # {}
  <2>1. Fmt!Min(kept) \in kept /\ Fmt!Max(kept) \in kept
    <3>1. kept \subseteq Nat
      BY <1>1
    <3> HIDE DEF kept
    <3> QED BY <1>1, <1>3, <3>1, MinIsLeast, MaxIsGreatest
  <2>2. Fmt!Min(kept) \in 1..Len(s) /\ Fmt!Max(kept) \in 1..Len(s)
    BY <2>1, <1>1
  <2>3. Fmt!Trim(s) = SubSeq(s, Fmt!Min(kept), Fmt!Max(kept))
    BY <1>3 DEF Fmt!Trim
  <2> HIDE DEF kept
  <2>4. \A i \in Fmt!Min(kept)..Fmt!Max(kept) : s[i] \in S
    BY <2>2, <1>1
  <2>5. Fmt!Min(kept) \in Int /\ Fmt!Max(kept) \in Int
    BY <2>2, <1>1
  <2> QED BY <2>3, <2>4, <2>5, SubSeqProperties
<1> QED BY <1>2, <1>3

LEMMA TrimNone == Fmt!Trim(<<>>) = <<>>
BY DEF Fmt!Trim

\* Nothing is trimmed from a text without white space at its ends.
LEMMA TrimKeeps ==
  ASSUME NEW S, NEW s \in Seq(S), EndsWell(s) PROVE Fmt!Trim(s) = s
<1> DEFINE kept == {i \in DOMAIN s : s[i] \notin Fmt!White}
           n == Len(s)
<1>1. n \in Nat \ {0} /\ kept \subseteq 1..n
  BY EmptySeq, LenProperties DEF EndsWell
<1>2. 1 \in kept /\ n \in kept
  BY <1>1, LenProperties DEF EndsWell
<1>3. Fmt!Trim(s) = SubSeq(s, Fmt!Min(kept), Fmt!Max(kept))
  BY <1>2 DEF Fmt!Trim
<1> HIDE DEF kept, n
<1>4. kept # {} /\ kept \subseteq Nat
  BY <1>1, <1>2
<1>5. Fmt!Min(kept) \in kept /\ (\A y \in kept : Fmt!Min(kept) <= y)
  BY <1>4, MinIsLeast
<1>6. Fmt!Max(kept) \in kept /\ (\A y \in kept : y <= Fmt!Max(kept))
  BY <1>1, <1>4, MaxIsGreatest
<1>7. Fmt!Min(kept) = 1
  <2>1. Fmt!Min(kept) \in 1..n /\ Fmt!Min(kept) <= 1
    BY <1>1, <1>2, <1>5
  <2> QED BY <2>1, <1>1
<1>8. Fmt!Max(kept) = n
  <2>1. Fmt!Max(kept) \in 1..n /\ n <= Fmt!Max(kept)
    BY <1>1, <1>2, <1>6
  <2> QED BY <2>1, <1>1
<1> QED BY <1>3, <1>7, <1>8, SubSeqFull DEF n

\* And only from such a text is nothing trimmed.
LEMMA TrimKept ==
  ASSUME NEW S, NEW s \in Seq(S), s # <<>>, Fmt!Trim(s) = s PROVE EndsWell(s)
<1> DEFINE kept == {i \in DOMAIN s : s[i] \notin Fmt!White}
           n == Len(s)
<1>1. n \in Nat \ {0} /\ DOMAIN s = 1..n /\ \A i \in 1..n : s[i] \in S
  BY EmptySeq, LenProperties, ElementOfSeq
<1>2. kept # {} /\ kept \subseteq 1..n /\ \A i \in kept : s[i] \notin Fmt!White
  BY <1>1 DEF Fmt!Trim
<1>3. s = SubSeq(s, Fmt!Min(kept), Fmt!Max(kept))
  BY <1>2 DEF Fmt!Trim
<1> HIDE DEF kept
<1>4. Fmt!Min(kept) \in kept /\ Fmt!Max(kept) \in kept
  <2>1. kept \subseteq Nat
    BY <1>1, <1>2
  <2> QED BY <1>1, <1>2, <2>1, MinIsLeast, MaxIsGreatest
<1> DEFINE lo == Fmt!Min(kept)  hi == Fmt!Max(kept)
<1>5. lo \in 1..n /\ hi \in 1..n /\ s[lo] \notin Fmt!White /\ s[hi] \notin Fmt!White
  BY <1>2, <1>4
<1>6. s = SubSeq(s, lo, hi)
  BY <1>3
<1> HIDE DEF lo, hi
<1>7. Len(SubSeq(s, lo, hi)) = IF lo <= hi THEN hi - lo + 1 ELSE 0
  <2>1. lo \in Int /\ hi \in Int /\ \A i \in lo..hi : s[i] \in S
    BY <1>1, <1>5
  <2> QED BY <2>1, SubSeqProperties
<1>8. n = IF lo <= hi THEN hi - lo + 1 ELSE 0
  BY <1>6, <1>7
<1> HIDE DEF n
<1>9. lo = 1 /\ hi = n
  BY <1>8, <1>5, <1>1
<1> QED BY <1>9, <1>5 DEF EndsWell, n

-----------------------------------------------------------------------------
Unescaping(a, c) == Fmt!UnescapeStep(a, c)
Un == INSTANCE Folding WITH Op <- Unescaping

\* Unescaping is a loop.
LEMMA UnescapesInLoop ==
  ASSUME NEW base, NEW s PROVE Fmt!FoldLeft(Fmt!UnescapeStep, base, s) = Un!Fold(base, s)
BY DEF Fmt!FoldLeft, Fmt!MapThenFoldSet, Fmt!Max, Un!Fold, Un!Greatest, Unescaping

Unread == [out |-> <<>>, esc |-> FALSE]
Unescapings == [out : Seq(Alphabet), esc : BOOLEAN]
\* What has been read so far.
Full(a) == IF a.esc THEN Append(a.out, Fmt!Backslash) ELSE a.out

LEMMA UnescapingMade ==
  ASSUME NEW o \in Seq(Alphabet), NEW e \in BOOLEAN
  PROVE  LET r == [out |-> o, esc |-> e]
         IN r \in Unescapings /\ (r.esc <=> e) /\ r.out = o
            /\ Full(r) = IF e THEN Append(o, Fmt!Backslash) ELSE o
BY DEF Unescapings, Full

LEMMA UnescapeStepOf ==
  ASSUME NEW o, NEW c
  PROVE  /\ Fmt!UnescapeStep([out |-> o, esc |-> TRUE], c) =
              [out |-> o \o (IF c = Fmt!Quote THEN <<c>> ELSE <<Fmt!Backslash, c>>), esc |-> FALSE]
         /\ c = Fmt!Backslash =>
              Fmt!UnescapeStep([out |-> o, esc |-> FALSE], c) = [out |-> o, esc |-> TRUE]
         /\ c # Fmt!Backslash =>
              Fmt!UnescapeStep([out |-> o, esc |-> FALSE], c) = [out |-> Append(o, c), esc |-> FALSE]
BY DEF Fmt!UnescapeStep

LEMMA TwoMore ==
  ASSUME NEW S, NEW s \in Seq(S), NEW x \in S, NEW y \in S
  PROVE  /\ s \o <<x, y>> = Append(Append(s, x), y)
         /\ Append(Append(s, x), y) \in Seq(S)
<1>1. Append(s, x) = s \o <<x>> /\ Append(s, x) \in Seq(S)
  BY AppendIsConcat, AppendProperties
<1>2. Append(Append(s, x), y) = Append(s, x) \o <<y>> /\ Append(Append(s, x), y) \in Seq(S)
  BY <1>1, AppendIsConcat, AppendProperties
<1>3. <<x>> \in Seq(S) /\ <<y>> \in Seq(S)
  OBVIOUS
<1>4. (s \o <<x>>) \o <<y>> = s \o (<<x>> \o <<y>>)
  BY <1>3, ConcatAssociative
<1>5. <<x>> \o <<y>> = Append(<<x>>, y)
  BY <1>3, AppendIsConcat
<1>6. <<x>> \in Seq(S) /\ <<x, y>> = Append(<<x>>, y)
  OBVIOUS
<1> QED BY <1>1, <1>2, <1>4, <1>5, <1>6

\* A step of unescaping adds its character, but drops a backslash before a quote.
LEMMA UnescapeStepReads ==
  ASSUME NEW a \in Unescapings, NEW c \in Alphabet
  PROVE  /\ Fmt!UnescapeStep(a, c) \in Unescapings
         /\ Fmt!UnescapeStep(a, c).esc <=> ~a.esc /\ c = Fmt!Backslash
         /\ Full(Fmt!UnescapeStep(a, c)) =
              IF a.esc /\ c = Fmt!Quote THEN Append(a.out, Fmt!Quote) ELSE Append(Full(a), c)
<1>1. PICK o \in Seq(Alphabet), e \in BOOLEAN : a = [out |-> o, esc |-> e]
  BY DEF Unescapings
<1>2. (a.esc <=> e) /\ a.out = o /\ Full(a) = IF e THEN Append(o, Fmt!Backslash) ELSE o
  BY <1>1, UnescapingMade
<1> DEFINE r == Fmt!UnescapeStep(a, c)
<1>3. Append(o, c) \in Seq(Alphabet) /\ Append(o, c) = o \o <<c>>
  BY AppendProperties, AppendIsConcat
<1>4. /\ o \o <<Fmt!Backslash, c>> = Append(Append(o, Fmt!Backslash), c)
      /\ o \o <<Fmt!Backslash, c>> \in Seq(Alphabet)
  BY TwoMore, Characters
<1>5. CASE e /\ c = Fmt!Quote
  <2>1. r = [out |-> o \o (IF c = Fmt!Quote THEN <<c>> ELSE <<Fmt!Backslash, c>>), esc |-> FALSE]
    BY <1>1, <1>5, UnescapeStepOf
  <2>2. (IF c = Fmt!Quote THEN <<c>> ELSE <<Fmt!Backslash, c>>) = <<c>>
    BY <1>5
  <2>3. r = [out |-> Append(o, c), esc |-> FALSE]
    BY <2>1, <2>2, <1>3
  <2>4. r \in Unescapings /\ ~r.esc /\ Full(r) = Append(o, c)
    BY <2>3, <1>3, UnescapingMade
  <2> QED BY <1>2, <1>5, <2>4
<1>6. CASE e /\ c # Fmt!Quote
  <2>1. r = [out |-> o \o <<Fmt!Backslash, c>>, esc |-> FALSE]
    BY <1>1, <1>6, UnescapeStepOf
  <2>2. r \in Unescapings /\ ~r.esc /\ Full(r) = o \o <<Fmt!Backslash, c>>
    BY <2>1, <1>4, UnescapingMade
  <2> QED BY <1>2, <1>4, <1>6, <2>2
<1>7. CASE ~e /\ c = Fmt!Backslash
  <2>1. r = [out |-> o, esc |-> TRUE]
    BY <1>1, <1>7, UnescapeStepOf
  <2>2. r \in Unescapings /\ r.esc /\ Full(r) = Append(o, Fmt!Backslash)
    BY <2>1, UnescapingMade
  <2> QED BY <1>2, <1>7, <2>2
<1>8. CASE ~e /\ c # Fmt!Backslash
  <2>1. r = [out |-> Append(o, c), esc |-> FALSE]
    BY <1>1, <1>8, UnescapeStepOf
  <2>2. r \in Unescapings /\ ~r.esc /\ Full(r) = Append(o, c)
    BY <2>1, <1>3, UnescapingMade
  <2> QED BY <1>2, <1>8, <2>2
<1> QED BY <1>5, <1>6, <1>7, <1>8

\* What a character is escaped as is read as that character, unless a backslash is
\* held before a quote.
LEMMA UnescapesQuoted ==
  ASSUME NEW a \in Unescapings, NEW c \in Alphabet
  PROVE  /\ Un!Fold(a, Quoted(c)) \in Unescapings
         /\ (Un!Fold(a, Quoted(c)).esc <=> ~a.esc /\ c = Fmt!Backslash)
         /\ Full(Un!Fold(a, Quoted(c))) =
              IF a.esc /\ c = Fmt!Quote THEN Append(Append(Full(a), Fmt!Backslash), Fmt!Quote)
              ELSE Append(Full(a), c)
<1>1. CASE c = Fmt!Quote
  <2> DEFINE b == Fmt!UnescapeStep(a, Fmt!Backslash)
             d == Fmt!UnescapeStep(b, Fmt!Quote)
  <2>1. Un!Fold(a, Quoted(c)) = d
    <3>1. Un!Fold(a, <<Fmt!Backslash, Fmt!Quote>>) = Unescaping(Unescaping(a, Fmt!Backslash), Fmt!Quote)
      BY Characters, Un!FoldOfTwo
    <3> QED BY <3>1, <1>1 DEF Quoted, Unescaping
  <2>2. /\ b \in Unescapings /\ (b.esc <=> ~a.esc)
        /\ Full(b) = Append(Full(a), Fmt!Backslash)
    BY UnescapeStepReads, Characters
  <2> HIDE DEF b
  <2>3. /\ d \in Unescapings /\ ~d.esc
        /\ Full(d) = IF b.esc THEN Append(b.out, Fmt!Quote) ELSE Append(Full(b), Fmt!Quote)
    BY <2>2, UnescapeStepReads, Characters
  <2> HIDE DEF d
  <2>4. CASE a.esc
    BY <2>1, <2>2, <2>3, <2>4, <1>1, Characters
  <2>5. CASE ~a.esc
    <3>1. b.out = a.out
      <4>1. PICK o \in Seq(Alphabet), e \in BOOLEAN : a = [out |-> o, esc |-> e]
        BY DEF Unescapings
      <4>2. ~e
        BY <4>1, <2>5
      <4>3. b = [out |-> o, esc |-> TRUE]
        BY <4>1, <4>2, UnescapeStepOf DEF b
      <4> QED BY <4>1, <4>3
    <3>2. Full(a) = a.out
      BY <2>5 DEF Full
    <3> QED BY <2>1, <2>2, <2>3, <2>5, <1>1, <3>1, <3>2, Characters
  <2> QED BY <2>4, <2>5
<1>2. CASE c # Fmt!Quote
  <2>1. Un!Fold(a, Quoted(c)) = Fmt!UnescapeStep(a, c)
    <3>1. Un!Fold(a, <<c>>) = Unescaping(a, c)
      BY Un!FoldOfOne
    <3> QED BY <3>1, <1>2 DEF Quoted, Unescaping
  <2> QED BY <2>1, <1>2, UnescapeStepReads
<1> QED BY <1>1, <1>2

\* No quote of w has an odd run of backslashes before it.
NoneBad(w) == \A i \in DOMAIN w : w[i] = Fmt!Quote => ~Fmt!Odd(Fmt!Run(w, i))

LEMMA NoneBadNone == NoneBad(<<>>)
BY DEF NoneBad

\* A text is without a bad quote when all but its last character are, and it is not one.
LEMMA NoneBadMore ==
  ASSUME NEW w \in Seq(Alphabet), NEW c \in Alphabet
  PROVE  NoneBad(Append(w, c)) <=> NoneBad(w) /\ (c = Fmt!Quote => ~Fmt!Odd(Fmt!Run(w, Len(w) + 1)))
<1> DEFINE n == Len(w)  d == Append(w, c)
<1>1. n \in Nat /\ DOMAIN w = 1..n
  BY LenProperties
<1>2. /\ d \in Seq(Alphabet) /\ Len(d) = n + 1
      /\ \A i \in 1..n : d[i] = w[i]
      /\ d[n+1] = c
  BY AppendProperties
<1>3. DOMAIN d = 1..(n+1)
  BY <1>2, LenProperties
<1>4. \A i \in 1..(n+1) : Fmt!Run(d, i) = Fmt!Run(w, i)
  BY RunBefore
<1> HIDE DEF n, d
<1>5. n + 1 \in 1..(n+1) /\ \A i \in 1..(n+1) : i \in 1..n \/ i = n + 1
  BY <1>1
<1>6. \A i \in 1..n : i \in 1..(n+1)
  BY <1>1
<1>7. NoneBad(d) <=> NoneBad(w) /\ (c = Fmt!Quote => ~Fmt!Odd(Fmt!Run(w, n + 1)))
  <2>1. NoneBad(d) => NoneBad(w) /\ (c = Fmt!Quote => ~Fmt!Odd(Fmt!Run(w, n + 1)))
    BY <1>1, <1>2, <1>3, <1>4, <1>5, <1>6 DEF NoneBad
  <2>2. NoneBad(w) /\ (c = Fmt!Quote => ~Fmt!Odd(Fmt!Run(w, n + 1))) => NoneBad(d)
    BY <1>1, <1>2, <1>3, <1>4, <1>5, <1>6 DEF NoneBad
  <2> QED BY <2>1, <2>2
<1> QED BY <1>7 DEF n, d

LEMMA FullType ==
  ASSUME NEW a \in Unescapings
  PROVE  Full(a) \in Seq(Alphabet) /\ Len(Full(a)) \in Nat
<1>1. a.out \in Seq(Alphabet)
  BY DEF Unescapings
<1>2. Append(a.out, Fmt!Backslash) \in Seq(Alphabet)
  BY <1>1, Characters, AppendProperties
<1>3. Full(a) \in Seq(Alphabet)
  BY <1>1, <1>2 DEF Full
<1> QED BY <1>3, LenProperties

\* What unescaping makes of an escaped text: the text, or something longer.
LEMMA EscapedIsUnescaped ==
  ASSUME NEW w \in Seq(Alphabet)
  PROVE  LET a == Un!Fold(Unread, Fmt!Escaped(w))
         IN /\ a \in Unescapings
            /\ a.esc <=> Fmt!Odd(Fmt!Run(w, Len(w) + 1))
            /\ NoneBad(w) => Full(a) = w
            /\ ~NoneBad(w) => Len(Full(a)) > Len(w)
<1> DEFINE F(x) == Un!Fold(Unread, Fmt!Escaped(x))
           T == {x \in Seq(Alphabet) :
                   /\ F(x) \in Unescapings
                   /\ F(x).esc <=> Fmt!Odd(Fmt!Run(x, Len(x) + 1))
                   /\ NoneBad(x) => Full(F(x)) = x
                   /\ ~NoneBad(x) => Len(Full(F(x))) > Len(x)}
<1>1. <<>> \in T
  <2>1. F(<<>>) = Unread
    BY EscapedNone, Un!FoldOfEmpty
  <2>2. Unread \in Unescapings /\ ~Unread.esc /\ Full(Unread) = <<>>
    <3>1. <<>> \in Seq(Alphabet)
      BY EmptySeq
    <3> QED BY <3>1, UnescapingMade DEF Unread
  <2>3. ~Fmt!Odd(Fmt!Run(<<>>, Len(<<>>) + 1))
    <3>1. Len(<<>>) + 1 = 1
      BY EmptySeq
    <3> QED BY <3>1, OddNone
  <2> HIDE DEF F
  <2> QED BY <2>1, <2>2, <2>3, NoneBadNone, EmptySeq
<1>2. ASSUME NEW x \in Seq(Alphabet), NEW c \in Alphabet, x \in T PROVE Append(x, c) \in T
  <2> DEFINE d == Append(x, c)
             odd == Fmt!Odd(Fmt!Run(x, Len(x) + 1))
  <2>1. /\ F(x) \in Unescapings /\ (F(x).esc <=> odd)
        /\ NoneBad(x) => Full(F(x)) = x
        /\ ~NoneBad(x) => Len(Full(F(x))) > Len(x)
    BY <1>2
  <2>2. F(d) = Un!Fold(F(x), Quoted(c))
    <3>1. Fmt!Escaped(d) = Fmt!Escaped(x) \o Quoted(c)
      BY EscapedMore
    <3>2. Un!Fold(Unread, Fmt!Escaped(x) \o Quoted(c)) = Un!Fold(F(x), Quoted(c))
      BY EscapedType, QuotedType, Un!FoldOfConcat
    <3> QED BY <3>1, <3>2
  <2> HIDE DEF F
  <2>3. /\ F(d) \in Unescapings
        /\ F(d).esc <=> ~F(x).esc /\ c = Fmt!Backslash
        /\ Full(F(d)) = IF F(x).esc /\ c = Fmt!Quote
                        THEN Append(Append(Full(F(x)), Fmt!Backslash), Fmt!Quote)
                        ELSE Append(Full(F(x)), c)
    BY <2>1, <2>2, UnescapesQuoted
  <2>4. d \in Seq(Alphabet) /\ Len(d) = Len(x) + 1 /\ Len(x) \in Nat
    BY AppendProperties, LenProperties
  <2>5. F(d).esc <=> Fmt!Odd(Fmt!Run(d, Len(d) + 1))
    <3>1. Len(d) + 1 = Len(x) + 2
      BY <2>4
    <3>2. Fmt!Odd(Fmt!Run(d, Len(x) + 2)) <=> c = Fmt!Backslash /\ ~odd
      BY OddMore
    <3> QED BY <3>1, <3>2, <2>1, <2>3
  <2>6. NoneBad(d) <=> NoneBad(x) /\ (c = Fmt!Quote => ~odd)
    BY NoneBadMore
  <2> DEFINE f == Full(F(x))
  <2>7. /\ f \in Seq(Alphabet) /\ Len(f) \in Nat
        /\ Append(f, c) \in Seq(Alphabet) /\ Len(Append(f, c)) = Len(f) + 1
        /\ Len(Append(Append(f, Fmt!Backslash), Fmt!Quote)) = Len(f) + 2
    <3>1. f \in Seq(Alphabet) /\ Len(f) \in Nat
      BY <2>1, FullType
    <3> HIDE DEF f
    <3>2. Append(f, Fmt!Backslash) \in Seq(Alphabet) /\ Len(Append(f, Fmt!Backslash)) = Len(f) + 1
      BY <3>1, Characters, AppendProperties
    <3>3. Len(Append(Append(f, Fmt!Backslash), Fmt!Quote)) = Len(Append(f, Fmt!Backslash)) + 1
      BY <3>2, Characters, AppendProperties
    <3>4. Append(f, c) \in Seq(Alphabet) /\ Len(Append(f, c)) = Len(f) + 1
      BY <3>1, AppendProperties
    <3> QED BY <3>1, <3>2, <3>3, <3>4
  <2> HIDE DEF f, odd
  <2>8. NoneBad(d) => Full(F(d)) = d
    <3>1. SUFFICES ASSUME NoneBad(d) PROVE Full(F(d)) = d
      OBVIOUS
    <3>2. Full(F(d)) = Append(f, c) /\ f = x
      BY <3>1, <2>1, <2>3, <2>6 DEF f
    <3> QED BY <3>2
  <2>9. ~NoneBad(d) => Len(Full(F(d))) > Len(d)
    <3>1. SUFFICES ASSUME ~NoneBad(d) PROVE Len(Full(F(d))) > Len(d)
      OBVIOUS
    <3>2. CASE NoneBad(x)
      <4>1. c = Fmt!Quote /\ odd
        BY <3>1, <3>2, <2>6
      <4>2. Len(Full(F(d))) = Len(f) + 2 /\ f = x
        BY <4>1, <3>2, <2>1, <2>3, <2>7 DEF f
      <4> HIDE DEF d
      <4> QED BY <4>2, <2>4
    <3>3. CASE ~NoneBad(x)
      <4>1. Len(f) > Len(x)
        BY <3>3, <2>1 DEF f
      <4>2. Len(Full(F(d))) = Len(f) + 2 \/ Len(Full(F(d))) = Len(f) + 1
        BY <2>3, <2>7 DEF f
      <4> HIDE DEF d
      <4> QED BY <4>1, <4>2, <2>4, <2>7
    <3> QED BY <3>2, <3>3
  <2> HIDE DEF d
  <2> QED BY <2>3, <2>4, <2>5, <2>8, <2>9 DEF d
<1>3. Seq(Alphabet) \subseteq T
  <2> HIDE DEF T
  <2> QED BY <1>1, <1>2, SeqUpTo
<1>4. w \in T
  BY <1>3
<1> QED BY <1>4

\* A text is read back from its escaped form exactly when no quote in it is bad.
LEMMA PairsOfEscaped ==
  ASSUME NEW w \in Seq(Alphabet)
  PROVE  Fmt!UnescapePairs(Fmt!Escaped(w)) = w <=> NoneBad(w)
<1> DEFINE a == Un!Fold(Unread, Fmt!Escaped(w))
<1>1. /\ a \in Unescapings
      /\ NoneBad(w) => Full(a) = w
      /\ ~NoneBad(w) => Len(Full(a)) > Len(w)
  BY EscapedIsUnescaped
<1>2. Fmt!UnescapePairs(Fmt!Escaped(w)) = Full(a)
  BY UnescapesInLoop DEF Fmt!UnescapePairs, Full, Unread
<1> HIDE DEF a
<1>3. ~NoneBad(w) => Full(a) # w
  <2>1. Len(w) \in Nat
    BY LenProperties
  <2> QED BY <1>1, <2>1
<1> QED BY <1>1, <1>2, <1>3

\* Quoting: what a text in quotes looks like.
LEMMA WrappedShape ==
  ASSUME NEW v \in Seq(Alphabet)
  PROVE  LET t == Fmt!Wrapped(v)
         IN /\ t \in Seq(Alphabet) /\ Len(t) = Len(Fmt!Escaped(v)) + 2
            /\ t[1] = Fmt!Quote /\ t[Len(t)] = Fmt!Quote
            /\ SubSeq(t, 2, Len(t) - 1) = Fmt!Escaped(v)
            /\ EndsWell(t)
<1> DEFINE e == Fmt!Escaped(v)
           n == Len(e)
           t == Fmt!Wrapped(v)
           q == <<Fmt!Quote>>
<1>1. e \in Seq(Alphabet) /\ n \in Nat /\ \A i \in 1..n : e[i] \in Alphabet
  BY EscapedType, LenProperties, ElementOfSeq
<1>2. q \in Seq(Alphabet) /\ Len(q) = 1 /\ q[1] = Fmt!Quote
  BY Characters
<1>3. t = (q \o e) \o q
  BY DEF Fmt!Wrapped
<1> HIDE DEF e, n, t, q
<1>4. /\ q \o e \in Seq(Alphabet) /\ Len(q \o e) = n + 1
      /\ \A i \in 1..(n+1) : (q \o e)[i] = IF i <= 1 THEN q[i] ELSE e[i - 1]
  <2> DEFINE qe == q \o e
  <2>1. /\ qe \in Seq(Alphabet) /\ Len(qe) = Len(q) + Len(e)
        /\ \A i \in 1..Len(q) + Len(e) : qe[i] = IF i <= Len(q) THEN q[i] ELSE e[i - Len(q)]
    BY <1>1, <1>2, ConcatProperties
  <2>2. Len(q) = 1 /\ Len(e) = n /\ Len(q) + Len(e) = n + 1
    BY <1>1, <1>2 DEF n
  <2> HIDE DEF qe
  <2>3. /\ qe \in Seq(Alphabet) /\ Len(qe) = n + 1
        /\ \A i \in 1..(n+1) : qe[i] = IF i <= 1 THEN q[i] ELSE e[i - 1]
    BY <2>1, <2>2
  <2> QED BY <2>3 DEF qe
<1>5. /\ t \in Seq(Alphabet) /\ Len(t) = n + 2
      /\ \A i \in 1..(n+2) : t[i] = IF i <= n + 1 THEN (q \o e)[i] ELSE q[i - (n + 1)]
  <2> DEFINE qe == q \o e
  <2>1. qe \in Seq(Alphabet) /\ Len(qe) = n + 1
    BY <1>4
  <2>2. t = qe \o q
    BY <1>3
  <2> HIDE DEF qe
  <2>3. /\ t \in Seq(Alphabet) /\ Len(t) = Len(qe) + Len(q)
        /\ \A i \in 1..Len(qe) + Len(q) : t[i] = IF i <= Len(qe) THEN qe[i] ELSE q[i - Len(qe)]
    BY <1>2, <2>1, <2>2, ConcatProperties
  <2>4. Len(qe) + Len(q) = n + 2
    BY <1>1, <1>2, <2>1
  <2>5. /\ t \in Seq(Alphabet) /\ Len(t) = n + 2
        /\ \A i \in 1..(n+2) : t[i] = IF i <= n + 1 THEN qe[i] ELSE q[i - (n + 1)]
    BY <2>1, <2>3, <2>4
  <2> QED BY <2>5 DEF qe
<1>6. t[1] = Fmt!Quote /\ t[n+2] = Fmt!Quote
  <2>1. 1 \in 1..(n+2) /\ 1 \in 1..(n+1) /\ 1 <= n + 1 /\ n + 2 \in 1..(n+2) /\ ~(n + 2 <= n + 1)
        /\ (n + 2) - (n + 1) = 1
    BY <1>1
  <2> QED BY <2>1, <1>2, <1>4, <1>5
<1>7. \A i \in 1..n : t[i + 1] = e[i]
  <2>1. ASSUME NEW i \in 1..n PROVE t[i + 1] = e[i]
    <3>1. i + 1 \in 1..(n+2) /\ i + 1 \in 1..(n+1) /\ i + 1 <= n + 1 /\ ~(i + 1 <= 1) /\ (i + 1) - 1 = i
      BY <1>1
    <3> QED BY <3>1, <1>4, <1>5
  <2> QED BY <2>1
<1>8. SubSeq(t, 2, n + 1) = e
  <2> DEFINE u == SubSeq(t, 2, n + 1)
  <2>1. \A i \in 2..(n+1) : t[i] \in Alphabet
    <3>1. \A i \in 2..(n+1) : i \in 1..Len(t)
      BY <1>1, <1>5
    <3> QED BY <3>1, <1>5, ElementOfSeq
  <2>2. /\ u \in Seq(Alphabet)
        /\ Len(u) = IF 2 <= n + 1 THEN (n + 1) - 2 + 1 ELSE 0
        /\ \A i \in 1..((n + 1) - 2 + 1) : u[i] = t[2 + i - 1]
    <3>1. 2 \in Int /\ n + 1 \in Int
      BY <1>1
    <3> QED BY <2>1, <3>1, SubSeqProperties
  <2> HIDE DEF u
  <2>3. Len(u) = n /\ (n + 1) - 2 + 1 = n
    BY <2>2, <1>1
  <2>4. \A i \in 1..n : u[i] = e[i]
    <3>1. \A i \in 1..n : 2 + i - 1 = i + 1
      BY <1>1
    <3> QED BY <3>1, <2>2, <2>3, <1>7
  <2>5. u = e
    BY <2>2, <2>3, <2>4, <1>1, SeqEqual DEF n
  <2> QED BY <2>5 DEF u
<1>9. Len(t) - 1 = n + 1 /\ t # <<>>
  BY <1>1, <1>5, EmptySeq
<1>10. EndsWell(t)
  BY <1>5, <1>6, <1>9, Characters DEF EndsWell
<1> QED BY <1>5, <1>6, <1>8, <1>9, <1>10 DEF e, n, t

\* Header values: which come back as they were.
Bare(v) == ~(v = <<>> \/ Fmt!Has(v, "space") \/ Fmt!Has(v, Fmt!Quote) \/ Fmt!Has(v, "comma"))

\* A header value is left bare or put in quotes.
LEMMA EscapeValueType ==
  ASSUME NEW v \in Seq(Alphabet)
  PROVE  /\ Fmt!EscapeValue(v) \in Seq(Alphabet)
         /\ Fmt!EscapeValue(v) = v <=> Bare(v)
         /\ ~Bare(v) => Fmt!EscapeValue(v) = Fmt!Wrapped(v)
<1>1. Fmt!Wrapped(v) \in Seq(Alphabet) /\ Len(Fmt!Wrapped(v)) = Len(Fmt!Escaped(v)) + 2
  BY WrappedShape
<1>2. Len(v) \in Nat /\ Len(Fmt!Escaped(v)) \in Nat /\ Len(Fmt!Escaped(v)) >= Len(v)
  BY EscapedType, EscapedLength, LenProperties
<1>3. Fmt!Wrapped(v) # v
  <2>1. Len(Fmt!Wrapped(v)) # Len(v)
    BY <1>1, <1>2
  <2> QED BY <2>1
<1> QED BY <1>1, <1>3 DEF Fmt!EscapeValue, Bare

\* A bare value is read trimmed.
LEMMA UnescapeBare ==
  ASSUME NEW v \in Seq(Alphabet), ~Fmt!Has(v, Fmt!Quote) PROVE Fmt!UnescapeValue(v) = Fmt!Trim(v)
<1>1. \A i \in 1..Len(v) : v[i] # Fmt!Quote
  BY LenProperties DEF Fmt!Has, Fmt!Range
<1>2. v \in Seq(Alphabet \ {Fmt!Quote})
  <2>1. v \in [1..Len(v) -> Alphabet \ {Fmt!Quote}] /\ Len(v) \in Nat
    BY <1>1, LenProperties
  <2> QED BY <2>1, SeqDef
<1> DEFINE t == Fmt!Trim(v)
<1>3. t \in Seq(Alphabet \ {Fmt!Quote})
  BY <1>2, TrimType
<1> HIDE DEF t
<1>4. t = <<>> \/ t[1] # Fmt!Quote
  <2>1. t # <<>> => 1 \in 1..Len(t)
    BY <1>3, EmptySeq
  <2>2. t # <<>> => t[1] \in Alphabet \ {Fmt!Quote}
    BY <2>1, <1>3, ElementOfSeq
  <2> QED BY <2>2
<1> QED BY <1>4 DEF Fmt!UnescapeValue, t

\* A value in quotes is read by its pairs.
LEMMA UnescapeWrapped ==
  ASSUME NEW v \in Seq(Alphabet)
  PROVE  Fmt!UnescapeValue(Fmt!Wrapped(v)) = Fmt!UnescapePairs(Fmt!Escaped(v))
<1> DEFINE t == Fmt!Wrapped(v)
<1>1. /\ t \in Seq(Alphabet) /\ Len(t) = Len(Fmt!Escaped(v)) + 2
      /\ t[1] = Fmt!Quote /\ t[Len(t)] = Fmt!Quote
      /\ SubSeq(t, 2, Len(t) - 1) = Fmt!Escaped(v)
      /\ EndsWell(t)
  BY WrappedShape
<1>2. Len(Fmt!Escaped(v)) \in Nat
  BY EscapedType, LenProperties
<1> HIDE DEF t
<1>3. Fmt!Trim(t) = t
  BY <1>1, TrimKeeps
<1>4. t # <<>> /\ ~(Len(t) < 2) /\ Fmt!Last(t) = Fmt!Quote
  BY <1>1, <1>2 DEF EndsWell, Fmt!Last
<1>5. Fmt!UnescapeValue(t) = Fmt!UnescapePairs(SubSeq(t, 2, Len(t) - 1))
  BY <1>1, <1>3, <1>4 DEF Fmt!UnescapeValue
<1> QED BY <1>1, <1>5 DEF t

\* A header value of any length comes back as it was exactly when it is safe.
LEMMA ValueKept ==
  ASSUME NEW v \in Seq(Alphabet)
  PROVE  Fmt!UnescapeValue(Fmt!EscapeValue(v)) = v <=> Fmt!SafeValue(v)
<1>1. CASE Bare(v)
  <2>1. Fmt!EscapeValue(v) = v /\ ~Fmt!Has(v, Fmt!Quote)
    BY <1>1, EscapeValueType DEF Bare
  <2>2. Fmt!UnescapeValue(v) = Fmt!Trim(v)
    BY <2>1, UnescapeBare
  <2> QED BY <2>1, <2>2, WithoutBreak DEF Fmt!SafeValue
<1>2. CASE ~Bare(v)
  <2>1. Fmt!EscapeValue(v) = Fmt!Wrapped(v) /\ Fmt!EscapeValue(v) # v
    BY <1>2, EscapeValueType
  <2>2. Fmt!UnescapeValue(Fmt!Wrapped(v)) = v <=> NoneBad(v)
    BY UnescapeWrapped, PairsOfEscaped
  <2>3. Fmt!SafeValue(v) <=> NoneBad(v)
    BY <2>1, WithoutBreak DEF Fmt!SafeValue, NoneBad
  <2> QED BY <2>1, <2>2, <2>3
<1> QED BY <1>1, <1>2

Tagging(a, c) == Fmt!TagStep(a, c)
Tg == INSTANCE Folding WITH Op <- Tagging

\* Reading tags is a loop over the characters of the line.
LEMMA TagsInLoop ==
  ASSUME NEW base, NEW s PROVE Fmt!FoldLeft(Fmt!TagStep, base, s) = Tg!Fold(base, s)
BY DEF Fmt!FoldLeft, Fmt!MapThenFoldSet, Fmt!Max, Tg!Fold, Tg!Greatest, Tagging

TagState(tags, cur, quote, esc) == [tags |-> tags, cur |-> cur, quote |-> quote, esc |-> esc]
TagStates == [tags : Seq(Seq(Alphabet)), cur : Seq(Alphabet), quote : BOOLEAN, esc : BOOLEAN]

\* In quotes a backslash keeps the next character, and a quote ends them.
LEMMA InQuotes ==
  ASSUME NEW tags, NEW cur, NEW c
  PROVE  /\ Fmt!TagStep(TagState(tags, cur, TRUE, TRUE), c) = TagState(tags, Append(cur, c), TRUE, FALSE)
         /\ c = Fmt!Quote =>
              Fmt!TagStep(TagState(tags, cur, TRUE, FALSE), c) = TagState(tags, cur, FALSE, FALSE)
         /\ c = Fmt!Backslash =>
              Fmt!TagStep(TagState(tags, cur, TRUE, FALSE), c) = TagState(tags, cur, TRUE, TRUE)
         /\ c \notin {Fmt!Quote, Fmt!Backslash} =>
              Fmt!TagStep(TagState(tags, cur, TRUE, FALSE), c) = TagState(tags, Append(cur, c), TRUE, FALSE)
<1>1. Fmt!TagStep(TagState(tags, cur, TRUE, TRUE), c) = TagState(tags, Append(cur, c), TRUE, FALSE)
  BY DEF Fmt!TagStep, Fmt!QuotedTagStep, TagState
<1>2. c = Fmt!Quote => Fmt!TagStep(TagState(tags, cur, TRUE, FALSE), c) = TagState(tags, cur, FALSE, FALSE)
  BY DEF Fmt!TagStep, Fmt!QuotedTagStep, TagState
<1>3. c = Fmt!Backslash => Fmt!TagStep(TagState(tags, cur, TRUE, FALSE), c) = TagState(tags, cur, TRUE, TRUE)
  BY Characters DEF Fmt!TagStep, Fmt!QuotedTagStep, TagState
<1>4. c \notin {Fmt!Quote, Fmt!Backslash} =>
        Fmt!TagStep(TagState(tags, cur, TRUE, FALSE), c) = TagState(tags, Append(cur, c), TRUE, FALSE)
  BY DEF Fmt!TagStep, Fmt!QuotedTagStep, TagState
<1> QED BY <1>1, <1>2, <1>3, <1>4

\* A quote opens quotes, and white space before it is dropped.
LEMMA OpensQuotes ==
  ASSUME NEW tags, NEW cur, NEW e \in BOOLEAN
  PROVE  Fmt!TagStep(TagState(tags, cur, FALSE, e), Fmt!Quote) =
           TagState(tags, IF Fmt!Trim(cur) = <<>> THEN <<>> ELSE cur, TRUE, e)
BY DEF Fmt!TagStep, Fmt!BareTagStep, TagState

\* A comma outside quotes ends a tag.
LEMMA EndsTag ==
  ASSUME NEW tags, NEW cur, NEW e \in BOOLEAN
  PROVE  Fmt!TagStep(TagState(tags, cur, FALSE, e), "comma") = TagState(Append(tags, cur), <<>>, FALSE, e)
BY DEF Fmt!TagStep, Fmt!BareTagStep, TagState, Fmt!Quote

\* Any other character outside quotes extends it.
LEMMA ExtendsTag ==
  ASSUME NEW tags, NEW cur, NEW e \in BOOLEAN, NEW c \in Alphabet \ {Fmt!Quote, "comma"}
  PROVE  Fmt!TagStep(TagState(tags, cur, FALSE, e), c) = TagState(tags, Append(cur, c), FALSE, e)
BY DEF Fmt!TagStep, Fmt!BareTagStep, TagState

LEMMA TagStateType ==
  /\ \A tags \in Seq(Seq(Alphabet)), cur \in Seq(Alphabet), q \in BOOLEAN, e \in BOOLEAN :
       TagState(tags, cur, q, e) \in TagStates
  /\ \A a \in TagStates : \E tags \in Seq(Seq(Alphabet)), cur \in Seq(Alphabet),
                             q \in BOOLEAN, e \in BOOLEAN : a = TagState(tags, cur, q, e)
BY DEF TagState, TagStates

LEMMA TagStepType ==
  ASSUME NEW a \in TagStates, NEW c \in Alphabet
  PROVE  Fmt!TagStep(a, c) \in TagStates
<1>1. PICK tags \in Seq(Seq(Alphabet)), cur \in Seq(Alphabet), q \in BOOLEAN, e \in BOOLEAN :
        a = TagState(tags, cur, q, e)
  BY TagStateType
<1>2. Append(tags, cur) \in Seq(Seq(Alphabet)) /\ Append(cur, c) \in Seq(Alphabet)
      /\ <<>> \in Seq(Alphabet)
  BY AppendProperties, EmptySeq
<1>3. \A u \in Seq(Seq(Alphabet)), v \in Seq(Alphabet), b \in BOOLEAN, d \in BOOLEAN :
        TagState(u, v, b, d) \in TagStates
  BY TagStateType
<1>4. CASE q
  <2>1. CASE e
    <3>1. Fmt!TagStep(a, c) = TagState(tags, Append(cur, c), TRUE, FALSE)
      BY <1>1, <1>4, <2>1, InQuotes
    <3> QED BY <1>2, <1>3, <3>1
  <2>2. CASE ~e
    <3>1. a = TagState(tags, cur, TRUE, FALSE)
      BY <1>1, <1>4, <2>2
    <3>2. CASE c = Fmt!Quote
      <4>1. Fmt!TagStep(a, c) = TagState(tags, cur, FALSE, FALSE)
        BY <3>1, <3>2, InQuotes
      <4> QED BY <1>3, <4>1
    <3>3. CASE c = Fmt!Backslash
      <4>1. Fmt!TagStep(a, c) = TagState(tags, cur, TRUE, TRUE)
        BY <3>1, <3>3, InQuotes
      <4> QED BY <1>3, <4>1
    <3>4. CASE c \notin {Fmt!Quote, Fmt!Backslash}
      <4>1. Fmt!TagStep(a, c) = TagState(tags, Append(cur, c), TRUE, FALSE)
        BY <3>1, <3>4, InQuotes, Zenon
      <4> QED BY <1>2, <1>3, <4>1
    <3> QED BY <3>2, <3>3, <3>4
  <2> QED BY <2>1, <2>2
<1>5. CASE ~q
  <2>1. a = TagState(tags, cur, FALSE, e)
    BY <1>1, <1>5
  <2>2. CASE c = Fmt!Quote
    <3> DEFINE x == IF Fmt!Trim(cur) = <<>> THEN <<>> ELSE cur
    <3>1. x \in Seq(Alphabet)
      BY <1>2
    <3>2. Fmt!TagStep(a, c) = TagState(tags, x, TRUE, e)
      BY <2>1, <2>2, OpensQuotes
    <3> HIDE DEF x
    <3> QED BY <1>3, <3>1, <3>2
  <2>3. CASE c = "comma"
    <3>1. Fmt!TagStep(a, c) = TagState(Append(tags, cur), <<>>, FALSE, e)
      BY <2>1, <2>3, EndsTag
    <3> QED BY <1>2, <1>3, <3>1
  <2>4. CASE c \notin {Fmt!Quote, "comma"}
    <3>1. Fmt!TagStep(TagState(tags, cur, FALSE, e), c) = TagState(tags, Append(cur, c), FALSE, e)
      <4>1. c \in Alphabet \ {Fmt!Quote, "comma"}
        BY <2>4
      <4> QED BY <4>1 DEF Fmt!TagStep, Fmt!BareTagStep, TagState
    <3>2. Fmt!TagStep(a, c) = TagState(tags, Append(cur, c), FALSE, e)
      BY <2>1, <3>1, Zenon
    <3> QED BY <1>2, <1>3, <3>2
  <2> QED BY <2>2, <2>3, <2>4
<1> QED BY <1>4, <1>5

LEMMA TagsType ==
  ASSUME NEW s \in Seq(Alphabet), Fmt!ParseTags(s) # Unreadable
  PROVE  Fmt!ParseTags(s) \in Seq(Seq(Alphabet))
<1> DEFINE t == Fmt!Trim(s)
           start == TagState(<<>>, <<>>, FALSE, FALSE)
           end == Tg!Fold(start, t)
           T == {x \in Seq(Alphabet) : Tg!Fold(start, x) \in TagStates}
<1>1. t \in Seq(Alphabet)
  BY TrimType
<1>2. <<>> \in T
  <2>1. <<>> \in Seq(Alphabet) /\ <<>> \in Seq(Seq(Alphabet))
    BY EmptySeq
  <2>2. start \in TagStates
    BY <2>1, TagStateType
  <2> HIDE DEF start
  <2>3. Tg!Fold(start, <<>>) = start
    BY Tg!FoldOfEmpty
  <2>4. Tg!Fold(start, <<>>) \in TagStates
    BY <2>2, <2>3
  <2> QED BY <2>1, <2>4
<1>3. ASSUME NEW x \in Seq(Alphabet), NEW c \in Alphabet, x \in T PROVE Append(x, c) \in T
  <2>1. Tg!Fold(start, Append(x, c)) = Fmt!TagStep(Tg!Fold(start, x), c)
    BY Tg!FoldOfAppend DEF Tagging
  <2> HIDE DEF start
  <2> QED BY <1>3, <2>1, TagStepType, AppendProperties
<1>4. Seq(Alphabet) \subseteq T
  <2> HIDE DEF T
  <2> QED BY <1>2, <1>3, SeqUpTo
<1>5. end \in TagStates
  BY <1>1, <1>4
<1>6. Fmt!ParseTags(s) = IF t = <<>> THEN <<>> ELSE IF end.quote THEN Unreadable
                     ELSE Append(end.tags, end.cur)
  BY TagsInLoop DEF Fmt!ParseTags, TagState
<1> HIDE DEF end, t
<1>7. end.tags \in Seq(Seq(Alphabet)) /\ end.cur \in Seq(Alphabet)
  BY <1>5 DEF TagStates
<1>8. Append(end.tags, end.cur) \in Seq(Seq(Alphabet)) /\ <<>> \in Seq(Seq(Alphabet))
  BY <1>7, AppendProperties, EmptySeq
<1> QED BY <1>6, <1>8

\* Reading one tag that is safe, behind the tags before it.
LEMMA BareTagRead ==
  ASSUME NEW tags, NEW w \in Seq(Alphabet \ {Fmt!Quote, "comma"})
  PROVE  Tg!Fold(TagState(tags, <<>>, FALSE, FALSE), w) = TagState(tags, w, FALSE, FALSE)
<1> DEFINE S == Alphabet \ {Fmt!Quote, "comma"}
           start == TagState(tags, <<>>, FALSE, FALSE)
           T == {x \in Seq(S) : Tg!Fold(start, x) = TagState(tags, x, FALSE, FALSE)}
<1>1. <<>> \in T
  <2>1. <<>> \in Seq(S)
    BY EmptySeq
  <2>2. Tg!Fold(start, <<>>) = start
    <3> HIDE DEF start
    <3> QED BY Tg!FoldOfEmpty
  <2> QED BY <2>1, <2>2
<1>2. ASSUME NEW x \in Seq(S), NEW c \in S, x \in T PROVE Append(x, c) \in T
  <2>1. Tg!Fold(start, Append(x, c)) = Fmt!TagStep(Tg!Fold(start, x), c)
    BY Tg!FoldOfAppend DEF Tagging
  <2>2. Tg!Fold(start, x) = TagState(tags, x, FALSE, FALSE)
    BY <1>2
  <2>3. Fmt!TagStep(TagState(tags, x, FALSE, FALSE), c) = TagState(tags, Append(x, c), FALSE, FALSE)
    BY ExtendsTag
  <2>4. Tg!Fold(start, Append(x, c)) = TagState(tags, Append(x, c), FALSE, FALSE)
    BY <2>1, <2>2, <2>3
  <2> QED BY <2>4, AppendProperties
<1>3. Seq(S) \subseteq T
  <2> HIDE DEF T
  <2> QED BY <1>1, <1>2, SeqUpTo
<1> QED BY <1>3

\* In quotes, an escaped tag without backslashes is read as it was.
LEMMA EscapedTagRead ==
  ASSUME NEW tags, NEW w \in Seq(Alphabet \ {Fmt!Backslash})
  PROVE  Tg!Fold(TagState(tags, <<>>, TRUE, FALSE), Fmt!Escaped(w)) = TagState(tags, w, TRUE, FALSE)
<1> DEFINE S == Alphabet \ {Fmt!Backslash}
           start == TagState(tags, <<>>, TRUE, FALSE)
           T == {x \in Seq(S) : Tg!Fold(start, Fmt!Escaped(x)) = TagState(tags, x, TRUE, FALSE)}
<1>1. <<>> \in T
  <2>1. <<>> \in Seq(S)
    BY EmptySeq
  <2>2. Tg!Fold(start, Fmt!Escaped(<<>>)) = start
    <3> HIDE DEF start
    <3> QED BY Tg!FoldOfEmpty, EscapedNone
  <2> QED BY <2>1, <2>2
<1>2. ASSUME NEW x \in Seq(S), NEW c \in S, x \in T PROVE Append(x, c) \in T
  <2> DEFINE b == TagState(tags, x, TRUE, FALSE)
             d == TagState(tags, Append(x, c), TRUE, FALSE)
  <2>1. x \in Seq(Alphabet) /\ c \in Alphabet /\ c # Fmt!Backslash
    BY SeqMonotonic
  <2>2. Tg!Fold(start, Fmt!Escaped(Append(x, c))) = Tg!Fold(Tg!Fold(start, Fmt!Escaped(x)), Quoted(c))
    <3>1. Fmt!Escaped(Append(x, c)) = Fmt!Escaped(x) \o Quoted(c)
      BY <2>1, EscapedMore
    <3> HIDE DEF start
    <3>2. Tg!Fold(start, Fmt!Escaped(x) \o Quoted(c)) = Tg!Fold(Tg!Fold(start, Fmt!Escaped(x)), Quoted(c))
      BY <2>1, EscapedType, QuotedType, Tg!FoldOfConcat
    <3> QED BY <3>1, <3>2
  <2>3. Tg!Fold(start, Fmt!Escaped(x)) = b
    BY <1>2
  <2>4. Tg!Fold(b, Quoted(c)) = d
    <3>1. CASE c = Fmt!Quote
      <4>1. Tg!Fold(b, <<Fmt!Backslash, Fmt!Quote>>) = Fmt!TagStep(Fmt!TagStep(b, Fmt!Backslash), Fmt!Quote)
        BY Characters, Tg!FoldOfTwo DEF Tagging
      <4>2. Fmt!TagStep(b, Fmt!Backslash) = TagState(tags, x, TRUE, TRUE)
        BY InQuotes
      <4>3. Fmt!TagStep(TagState(tags, x, TRUE, TRUE), Fmt!Quote) = d
        BY <3>1, InQuotes, ZenonT(40)
      <4> HIDE DEF b, d
      <4> QED BY <3>1, <4>1, <4>2, <4>3 DEF Quoted
    <3>2. CASE c # Fmt!Quote
      <4>1. Tg!Fold(b, <<c>>) = Fmt!TagStep(b, c)
        BY Tg!FoldOfOne DEF Tagging
      <4>2. Fmt!TagStep(b, c) = d
        BY <2>1, <3>2, InQuotes, Zenon
      <4> HIDE DEF b, d
      <4> QED BY <3>2, <4>1, <4>2 DEF Quoted
    <3> QED BY <3>1, <3>2
  <2>5. Tg!Fold(start, Fmt!Escaped(Append(x, c))) = d
    <3> HIDE DEF start, b, d
    <3> QED BY <2>2, <2>3, <2>4
  <2> QED BY <2>5, AppendProperties
<1>3. Seq(S) \subseteq T
  <2> HIDE DEF T
  <2> QED BY <1>1, <1>2, SeqUpTo
<1> QED BY <1>3

LEMMA Without ==
  ASSUME NEW v \in Seq(Alphabet), NEW c, ~Fmt!Has(v, c)
  PROVE  v \in Seq(Alphabet \ {c})
<1>1. \A i \in 1..Len(v) : v[i] # c
  BY LenProperties DEF Fmt!Has, Fmt!Range
<1>2. v \in [1..Len(v) -> Alphabet \ {c}] /\ Len(v) \in Nat
  BY <1>1, LenProperties
<1> QED BY <1>2, SeqDef

\* A safe tag is read as it was, whatever tags were read before it.
LEMMA TagRead ==
  ASSUME NEW tags, NEW t \in Seq(Alphabet), Fmt!SafeTag(t)
  PROVE  /\ Fmt!RenderTag(t) \in Seq(Alphabet)
         /\ EndsWell(Fmt!RenderTag(t))
         /\ Tg!Fold(TagState(tags, <<>>, FALSE, FALSE), Fmt!RenderTag(t)) = TagState(tags, t, FALSE, FALSE)
<1>1. CASE ~Fmt!Has(t, "comma") /\ ~Fmt!Has(t, Fmt!Quote)
  <2>1. Fmt!RenderTag(t) = t
    BY <1>1 DEF Fmt!RenderTag
  <2>2. EndsWell(t)
    BY <2>1, TrimKept DEF Fmt!SafeTag
  <2>3. t \in Seq(Alphabet \ {Fmt!Quote, "comma"})
    <3>1. \A i \in 1..Len(t) : t[i] # Fmt!Quote /\ t[i] # "comma"
      BY <1>1, LenProperties DEF Fmt!Has, Fmt!Range
    <3>2. t \in [1..Len(t) -> Alphabet \ {Fmt!Quote, "comma"}] /\ Len(t) \in Nat
      BY <3>1, LenProperties
    <3> QED BY <3>2, SeqDef
  <2> QED BY <2>1, <2>2, <2>3, BareTagRead
<1>2. CASE Fmt!Has(t, "comma") \/ Fmt!Has(t, Fmt!Quote)
  <2>1. Fmt!RenderTag(t) = Fmt!Wrapped(t)
    BY <1>2 DEF Fmt!RenderTag
  <2>2. /\ Fmt!Wrapped(t) \in Seq(Alphabet) /\ EndsWell(Fmt!Wrapped(t))
        /\ Len(Fmt!Wrapped(t)) = Len(Fmt!Escaped(t)) + 2
    BY WrappedShape
  <2>3. Fmt!Wrapped(t) # t
    <3>1. Len(t) \in Nat /\ Len(Fmt!Escaped(t)) \in Nat /\ Len(Fmt!Escaped(t)) >= Len(t)
      BY EscapedType, EscapedLength, LenProperties
    <3>2. Len(Fmt!Wrapped(t)) # Len(t)
      BY <2>2, <3>1
    <3> QED BY <3>2
  <2>4. t \in Seq(Alphabet \ {Fmt!Backslash})
    BY <2>1, <2>3, Without DEF Fmt!SafeTag
  <2> DEFINE q == <<Fmt!Quote>>
             e == Fmt!Escaped(t)
             a == TagState(tags, <<>>, FALSE, FALSE)
             b == TagState(tags, <<>>, TRUE, FALSE)
             d == TagState(tags, t, TRUE, FALSE)
             z == TagState(tags, t, FALSE, FALSE)
  <2>5. q \in Seq(Alphabet) /\ e \in Seq(Alphabet) /\ q \o e \in Seq(Alphabet)
    <3>1. q \in Seq(Alphabet) /\ e \in Seq(Alphabet)
      BY Characters, EscapedType
    <3> HIDE DEF q, e
    <3> QED BY <3>1, ConcatProperties
  <2>6. Tg!Fold(a, q) = b
    <3>1. Tg!Fold(a, q) = Fmt!TagStep(a, Fmt!Quote)
      BY Characters, Tg!FoldOfOne DEF Tagging
    <3>2. Fmt!TagStep(a, Fmt!Quote) = TagState(tags, IF Fmt!Trim(<<>>) = <<>> THEN <<>> ELSE <<>>, TRUE, FALSE)
      BY OpensQuotes
    <3> QED BY <3>1, <3>2
  <2>7. Tg!Fold(b, e) = d
    BY <2>4, EscapedTagRead
  <2>8. Tg!Fold(d, q) = z
    <3>1. Tg!Fold(d, q) = Fmt!TagStep(d, Fmt!Quote)
      BY Characters, Tg!FoldOfOne DEF Tagging
    <3>2. Fmt!TagStep(d, Fmt!Quote) = z
      BY InQuotes
    <3> QED BY <3>1, <3>2
  <2>9. Tg!Fold(a, (q \o e) \o q) = Tg!Fold(Tg!Fold(Tg!Fold(a, q), e), q)
    <3> HIDE DEF q, e, a
    <3>1. Tg!Fold(a, (q \o e) \o q) = Tg!Fold(Tg!Fold(a, q \o e), q)
      BY <2>5, Tg!FoldOfConcat
    <3>2. Tg!Fold(a, q \o e) = Tg!Fold(Tg!Fold(a, q), e)
      BY <2>5, Tg!FoldOfConcat
    <3> QED BY <3>1, <3>2
  <2>10. Fmt!Wrapped(t) = (q \o e) \o q
    BY DEF Fmt!Wrapped
  <2>11. Tg!Fold(a, Fmt!Wrapped(t)) = z
    <3> HIDE DEF q, e, a, b, d, z
    <3> QED BY <2>6, <2>7, <2>8, <2>9, <2>10
  <2> QED BY <2>1, <2>2, <2>11
<1> QED BY <1>1, <1>2

LEMMA RenderTagType == ASSUME NEW t \in Seq(Alphabet) PROVE Fmt!RenderTag(t) \in Seq(Alphabet)
BY WrappedShape DEF Fmt!RenderTag

LEMMA EndsWellTogether ==
  ASSUME NEW S, NEW a \in Seq(S), NEW b \in Seq(S), a # <<>>, a[1] \notin Fmt!White, EndsWell(b)
  PROVE  EndsWell(a \o b)
<1> DEFINE m == Len(a)  n == Len(b)  ab == a \o b
<1>1. m \in Nat \ {0} /\ n \in Nat \ {0}
  BY EmptySeq DEF EndsWell
<1>2. /\ ab \in Seq(S) /\ Len(ab) = m + n
      /\ \A i \in 1..(m + n) : ab[i] = IF i <= m THEN a[i] ELSE b[i - m]
  BY ConcatProperties
<1>3. b[n] \notin Fmt!White
  BY DEF EndsWell
<1> HIDE DEF m, n, ab
<1>4. ab # <<>>
  BY <1>1, <1>2, EmptySeq
<1>5. ab[1] = a[1] /\ ab[m + n] = b[n]
  <2>1. 1 \in 1..(m+n) /\ 1 <= m /\ m + n \in 1..(m+n) /\ ~(m + n <= m) /\ (m + n) - m = n
    BY <1>1
  <2> QED BY <2>1, <1>2
<1> QED BY <1>2, <1>3, <1>4, <1>5 DEF EndsWell, ab

LEMMA RenderTagsNone == Fmt!RenderTags(<<>>) = <<>>
<1> DEFINE q == [i \in DOMAIN <<>> |-> (IF i = 1 THEN <<>> ELSE <<"comma">>) \o Fmt!RenderTag(<<>>[i])]
<1>1. q = <<>>
  OBVIOUS
<1>2. Fmt!FlattenSeq(q) = <<>>
  <2> HIDE DEF q
  <2> QED BY <1>1, FmtFlattenNone
<1> QED BY <1>2 DEF Fmt!RenderTags

Separated(i, t) == (IF i = 1 THEN <<>> ELSE <<"comma">>) \o Fmt!RenderTag(t)

LEMMA SeparatedType ==
  ASSUME NEW i \in Nat, NEW t \in Seq(Alphabet)
  PROVE  Separated(i, t) \in Seq(Alphabet)
<1> DEFINE sep == IF i = 1 THEN <<>> ELSE <<"comma">>
<1>1. sep \in Seq(Alphabet)
  <2>1. <<>> \in Seq(Alphabet) /\ <<"comma">> \in Seq(Alphabet)
    BY EmptySeq, Characters
  <2> QED BY <2>1
<1>2. Separated(i, t) = sep \o Fmt!RenderTag(t)
  BY DEF Separated
<1> HIDE DEF sep
<1> QED BY <1>1, <1>2, RenderTagType, ConcatProperties

\* A tag more adds itself behind a comma.
LEMMA RenderTagsMore ==
  ASSUME NEW ts \in Seq(Seq(Alphabet)), NEW t \in Seq(Alphabet)
  PROVE  /\ Fmt!RenderTags(ts) \in Seq(Alphabet)
         /\ Fmt!RenderTags(Append(ts, t)) = Fmt!RenderTags(ts) \o Separated(Len(ts) + 1, t)
<1> DEFINE n == Len(ts)
           d == Append(ts, t)
           r == [i \in DOMAIN ts |-> Separated(i, ts[i])]
           q == [i \in DOMAIN d |-> Separated(i, d[i])]
<1>1. n \in Nat /\ DOMAIN ts = 1..n /\ \A i \in 1..n : ts[i] \in Seq(Alphabet)
  BY LenProperties, ElementOfSeq
<1>2. /\ d \in Seq(Seq(Alphabet)) /\ Len(d) = n + 1
      /\ \A i \in 1..n : d[i] = ts[i]
      /\ d[n+1] = t
  BY AppendProperties
<1>3. DOMAIN d = 1..(n+1)
  BY <1>2, LenProperties
<1>4. Fmt!RenderTags(ts) = Fmt!FlattenSeq(r) /\ Fmt!RenderTags(d) = Fmt!FlattenSeq(q)
  BY DEF Fmt!RenderTags, Separated
<1> HIDE DEF n, d
<1>5. (\A i \in 1..n : q[i] = r[i]) /\ q[n+1] = Separated(n + 1, t)
  <2>1. n + 1 \in DOMAIN d
    BY <1>1, <1>3
  <2>2. q[n+1] = Separated(n + 1, t)
    BY <2>1, <1>2
  <2>3. ASSUME NEW i \in 1..n PROVE q[i] = r[i]
    <3>1. i \in DOMAIN ts /\ i \in DOMAIN d /\ d[i] = ts[i]
      BY <1>1, <1>2, <1>3
    <3> QED BY <3>1
  <2> QED BY <2>2, <2>3
<1>6. r \in [1..n -> Seq(Alphabet)]
  BY <1>1, SeparatedType
<1>7. q \in [1..(n+1) -> Seq(Alphabet)]
  <2>1. \A i \in 1..(n+1) : d[i] \in Seq(Alphabet) /\ i \in Nat
    BY <1>2, ElementOfSeq
  <2> QED BY <2>1, <1>3, SeparatedType
<1>8. Fmt!FlattenSeq(r) \in Seq(Alphabet) /\ Fmt!FlattenSeq(q) = Fmt!FlattenSeq(r) \o q[n+1]
  <2> HIDE DEF q, r
  <2> QED BY <1>1, <1>5, <1>6, <1>7, FmtFlattenMore
<1> QED BY <1>4, <1>5, <1>8 DEF d, n

LEMMA RenderTagsType ==
  ASSUME NEW ts \in Seq(Seq(Alphabet)) PROVE Fmt!RenderTags(ts) \in Seq(Alphabet)
<1>1. <<>> \in Seq(Alphabet)
  BY EmptySeq
<1> QED BY <1>1, RenderTagsMore

SafeTags == {t \in Seq(Alphabet) : Fmt!SafeTag(t)}
TagStart == TagState(<<>>, <<>>, FALSE, FALSE)

\* What reading makes of tags that are safe: the same tags.
LEMMA TagsRead ==
  ASSUME NEW ts \in Seq(SafeTags)
  PROVE  \/ ts = <<>>
         \/ /\ EndsWell(Fmt!RenderTags(ts))
            /\ \E f \in Seq(Seq(Alphabet)), l \in Seq(Alphabet) :
                 /\ Tg!Fold(TagStart, Fmt!RenderTags(ts)) = TagState(f, l, FALSE, FALSE)
                 /\ Append(f, l) = ts
<1> DEFINE F(x) == Tg!Fold(TagStart, Fmt!RenderTags(x))
           Read(x) == \E f \in Seq(Seq(Alphabet)), l \in Seq(Alphabet) :
                        F(x) = TagState(f, l, FALSE, FALSE) /\ Append(f, l) = x
           T == {x \in Seq(SafeTags) : x = <<>> \/ (EndsWell(Fmt!RenderTags(x)) /\ Read(x))}
<1>1. <<>> \in T
  BY EmptySeq
<1>2. ASSUME NEW x \in Seq(SafeTags), NEW t \in SafeTags, x \in T PROVE Append(x, t) \in T
  <2> DEFINE d == Append(x, t)
  <2>1. x \in Seq(Seq(Alphabet)) /\ t \in Seq(Alphabet) /\ Fmt!SafeTag(t)
    <3>1. SafeTags \subseteq Seq(Alphabet) /\ t \in Seq(Alphabet) /\ Fmt!SafeTag(t)
      BY DEF SafeTags
    <3> QED BY <3>1, SeqMonotonic
  <2>2. /\ Fmt!RenderTag(t) \in Seq(Alphabet) /\ EndsWell(Fmt!RenderTag(t))
        /\ \A tags : Tg!Fold(TagState(tags, <<>>, FALSE, FALSE), Fmt!RenderTag(t)) =
                       TagState(tags, t, FALSE, FALSE)
    BY <2>1, TagRead
  <2>3. d \in Seq(SafeTags)
    BY AppendProperties
  <2>4. Fmt!RenderTags(d) = Fmt!RenderTags(x) \o Separated(Len(x) + 1, t) /\ Fmt!RenderTags(x) \in Seq(Alphabet)
    BY <2>1, RenderTagsMore
  <2>5. CASE x = <<>>
    <3>1. Len(x) + 1 = 1
      BY <2>5, EmptySeq
    <3>2. Separated(1, t) = <<>> \o Fmt!RenderTag(t)
      BY DEF Separated
    <3>3. Separated(1, t) = Fmt!RenderTag(t)
      BY <3>2, <2>2, ConcatEmptySeq
    <3>4. Fmt!RenderTags(x) = <<>>
      BY <2>5, RenderTagsNone, Zenon
    <3>5. Fmt!RenderTags(d) = <<>> \o Fmt!RenderTag(t)
      BY <3>1, <3>3, <3>4, <2>4
    <3>6. Fmt!RenderTags(d) = Fmt!RenderTag(t)
      BY <3>5, <2>2, ConcatEmptySeq
    <3>7. Tg!Fold(TagStart, Fmt!RenderTag(t)) = TagState(<<>>, t, FALSE, FALSE)
      BY <2>2 DEF TagStart
    <3>8. F(d) = TagState(<<>>, t, FALSE, FALSE)
      BY <3>6, <3>7
    <3>9. Append(<<>>, t) = d /\ <<>> \in Seq(Seq(Alphabet))
      BY <2>5, EmptySeq
    <3> HIDE DEF F, d
    <3>10. Read(d)
      BY <3>8, <3>9, <2>1, Zenon
    <3>11. EndsWell(Fmt!RenderTags(d))
      BY <3>6, <2>2
    <3> QED BY <2>3, <3>10, <3>11 DEF d
  <2>6. CASE x # <<>>
    <3> DEFINE sep == <<"comma">>
    <3>1. Len(x) + 1 # 1
      BY <2>6, EmptySeq
    <3>2. Separated(Len(x) + 1, t) = sep \o Fmt!RenderTag(t)
      BY <3>1 DEF Separated
    <3>3. PICK f \in Seq(Seq(Alphabet)), l \in Seq(Alphabet) :
            F(x) = TagState(f, l, FALSE, FALSE) /\ Append(f, l) = x
      BY <1>2, <2>6
    <3>4. EndsWell(Fmt!RenderTags(x))
      BY <1>2, <2>6
    <3>5. sep \in Seq(Alphabet) /\ sep # <<>> /\ sep[1] \notin Fmt!White
      BY Characters DEF Fmt!White
    <3>6. Tg!Fold(F(x), sep) = TagState(x, <<>>, FALSE, FALSE)
      <4>1. Tg!Fold(F(x), sep) = Fmt!TagStep(F(x), "comma")
        <5> HIDE DEF F
        <5> QED BY Characters, Tg!FoldOfOne DEF Tagging
      <4>2. Fmt!TagStep(TagState(f, l, FALSE, FALSE), "comma") = TagState(Append(f, l), <<>>, FALSE, FALSE)
        BY EndsTag
      <4> HIDE DEF F, sep
      <4> QED BY <4>1, <4>2, <3>3
    <3> HIDE DEF sep
    <3>7. F(d) = Tg!Fold(Tg!Fold(F(x), sep), Fmt!RenderTag(t))
      <4>1. sep \o Fmt!RenderTag(t) \in Seq(Alphabet)
        BY <3>5, <2>2, ConcatProperties
      <4>2. Tg!Fold(TagStart, Fmt!RenderTags(x) \o (sep \o Fmt!RenderTag(t))) = Tg!Fold(F(x), sep \o Fmt!RenderTag(t))
        BY <4>1, <2>4, Tg!FoldOfConcat
      <4>3. Tg!Fold(F(x), sep \o Fmt!RenderTag(t)) = Tg!Fold(Tg!Fold(F(x), sep), Fmt!RenderTag(t))
        <5> HIDE DEF F
        <5> QED BY <3>5, <2>2, Tg!FoldOfConcat
      <4> QED BY <4>2, <4>3, <2>4, <3>2
    <3>8. Tg!Fold(TagState(x, <<>>, FALSE, FALSE), Fmt!RenderTag(t)) = TagState(x, t, FALSE, FALSE)
      BY <2>2
    <3> HIDE DEF F
    <3>9. F(d) = TagState(x, t, FALSE, FALSE)
      BY <3>6, <3>7, <3>8
    <3>10. Read(d)
      BY <3>9, <2>1, Zenon
    <3>11. EndsWell(Fmt!RenderTags(d))
      <4>1. EndsWell(sep \o Fmt!RenderTag(t)) /\ sep \o Fmt!RenderTag(t) \in Seq(Alphabet)
        BY <3>5, <2>2, EndsWellTogether, ConcatProperties
      <4>2. EndsWell(Fmt!RenderTags(x) \o (sep \o Fmt!RenderTag(t)))
        <5>1. Fmt!RenderTags(x) # <<>> /\ Fmt!RenderTags(x)[1] \notin Fmt!White
          BY <3>4 DEF EndsWell
        <5> QED BY <4>1, <5>1, <2>4, EndsWellTogether
      <4> QED BY <4>2, <3>2, <2>4
    <3> QED BY <2>3, <3>10, <3>11
  <2> QED BY <2>5, <2>6
<1>3. Seq(SafeTags) \subseteq T
  <2> HIDE DEF T
  <2> QED BY <1>1, <1>2, SeqUpTo
<1>4. ts \in T
  BY <1>3
<1> QED BY <1>4

\* Any number of safe tags of any length are read back as they were rendered.
LEMMA TagsKept ==
  ASSUME NEW ts \in Seq(Seq(Alphabet)), \A i \in DOMAIN ts : Fmt!SafeTag(ts[i])
  PROVE  Fmt!ParseTags(Fmt!RenderTags(ts)) = ts
<1>1. ts \in Seq(SafeTags)
  <2>1. ts \in [1..Len(ts) -> SafeTags] /\ Len(ts) \in Nat
    BY LenProperties, ElementOfSeq DEF SafeTags
  <2> QED BY <2>1, SeqDef, SMTT(30)
<1> DEFINE s == Fmt!RenderTags(ts)
           end == Tg!Fold(TagStart, Fmt!Trim(s))
<1>2. Fmt!ParseTags(s) = IF Fmt!Trim(s) = <<>> THEN <<>> ELSE IF end.quote THEN Unreadable
                     ELSE Append(end.tags, end.cur)
  BY TagsInLoop DEF Fmt!ParseTags, TagState, TagStart
<1>3. CASE ts = <<>>
  <2>1. s = <<>>
    BY <1>3, RenderTagsNone, Zenon
  <2>2. Fmt!Trim(s) = <<>>
    BY <2>1, TrimNone, Zenon
  <2> QED BY <1>2, <1>3, <2>2
<1>4. CASE ts # <<>>
  <2>1. PICK f \in Seq(Seq(Alphabet)), l \in Seq(Alphabet) :
          Tg!Fold(TagStart, s) = TagState(f, l, FALSE, FALSE) /\ Append(f, l) = ts
    BY <1>1, <1>4, TagsRead
  <2>2. EndsWell(s)
    BY <1>1, <1>4, TagsRead
  <2>3. Fmt!Trim(s) = s /\ s # <<>>
    BY <2>2, RenderTagsType, TrimKeeps DEF EndsWell
  <2>4. end = TagState(f, l, FALSE, FALSE)
    <3> HIDE DEF s
    <3> QED BY <2>1, <2>3
  <2> HIDE DEF s, end
  <2>5. ~end.quote /\ end.tags = f /\ end.cur = l
    BY <2>4 DEF TagState
  <2> QED BY <1>2, <2>1, <2>3, <2>5 DEF s
<1> QED BY <1>3, <1>4

Tokenizing(a, c) == Fmt!TokenStep(a, c)
Tk == INSTANCE Folding WITH Op <- Tokenizing

\* Splitting attributes into tokens is a loop over the characters of the line.
LEMMA TokensInLoop ==
  ASSUME NEW base, NEW s PROVE Fmt!FoldLeft(Fmt!TokenStep, base, s) = Tk!Fold(base, s)
BY DEF Fmt!FoldLeft, Fmt!MapThenFoldSet, Fmt!Max, Tk!Fold, Tk!Greatest, Tokenizing

TokenState(toks, cur, quote, esc) == [toks |-> toks, cur |-> cur, quote |-> quote, esc |-> esc]
Tokens == Seq(Alphabet) \ {<<>>}
TokenStates == [toks : Seq(Tokens), cur : Seq(Alphabet), quote : BOOLEAN, esc : BOOLEAN]

\* What each character does to a token, by the state that it is read in.
LEMMA EscapedInToken ==
  ASSUME NEW toks, NEW cur, NEW c \in Alphabet
  PROVE  Fmt!TokenStep(TokenState(toks, cur, TRUE, TRUE), c) = TokenState(toks, Append(cur, c), TRUE, FALSE)
BY DEF Fmt!TokenStep, TokenState

LEMMA QuoteInToken ==
  ASSUME NEW toks, NEW cur
  PROVE  Fmt!TokenStep(TokenState(toks, cur, TRUE, FALSE), Fmt!Quote) =
           TokenState(toks, Append(cur, Fmt!Quote), FALSE, FALSE)
BY Characters DEF Fmt!TokenStep, TokenState

LEMMA BackslashInToken ==
  ASSUME NEW toks, NEW cur
  PROVE  Fmt!TokenStep(TokenState(toks, cur, TRUE, FALSE), Fmt!Backslash) =
           TokenState(toks, Append(cur, Fmt!Backslash), TRUE, TRUE)
BY Characters DEF Fmt!TokenStep, TokenState

LEMMA QuotedInToken ==
  ASSUME NEW toks, NEW cur, NEW c \in Alphabet \ {Fmt!Quote, Fmt!Backslash}
  PROVE  Fmt!TokenStep(TokenState(toks, cur, TRUE, FALSE), c) =
           TokenState(toks, Append(cur, c), TRUE, FALSE)
BY DEF Fmt!TokenStep, TokenState

LEMMA OpensInToken ==
  ASSUME NEW toks, NEW cur, NEW e \in BOOLEAN
  PROVE  Fmt!TokenStep(TokenState(toks, cur, FALSE, e), Fmt!Quote) =
           TokenState(toks, Append(cur, Fmt!Quote), TRUE, e)
BY Characters DEF Fmt!TokenStep, TokenState

LEMMA ExtendsToken ==
  ASSUME NEW toks, NEW cur, NEW e \in BOOLEAN, NEW c \in Alphabet \ (Fmt!White \union {Fmt!Quote})
  PROVE  Fmt!TokenStep(TokenState(toks, cur, FALSE, e), c) =
           TokenState(toks, Append(cur, c), FALSE, e)
BY DEF Fmt!TokenStep, TokenState

LEMMA EndsToken ==
  ASSUME NEW toks, NEW cur, NEW e \in BOOLEAN, NEW c \in Fmt!White
  PROVE  Fmt!TokenStep(TokenState(toks, cur, FALSE, e), c) =
           TokenState(IF cur = <<>> THEN toks ELSE Append(toks, cur), <<>>, FALSE, e)
BY DEF Fmt!TokenStep, TokenState

LEMMA TokenStateType ==
  /\ \A toks \in Seq(Tokens), cur \in Seq(Alphabet), q \in BOOLEAN, e \in BOOLEAN :
       TokenState(toks, cur, q, e) \in TokenStates
  /\ \A a \in TokenStates : \E toks \in Seq(Tokens), cur \in Seq(Alphabet),
                             q \in BOOLEAN, e \in BOOLEAN : a = TokenState(toks, cur, q, e)
BY DEF TokenState, TokenStates

LEMMA TokenStepType ==
  ASSUME NEW a \in TokenStates, NEW c \in Alphabet
  PROVE  Fmt!TokenStep(a, c) \in TokenStates
<1>1. PICK toks \in Seq(Tokens), cur \in Seq(Alphabet), q \in BOOLEAN, e \in BOOLEAN :
        a = TokenState(toks, cur, q, e)
  BY TokenStateType
<1>2. Append(cur, c) \in Seq(Alphabet) /\ <<>> \in Seq(Alphabet)
  BY AppendProperties, EmptySeq
<1>3. \A u \in Seq(Tokens), v \in Seq(Alphabet), b \in BOOLEAN, d \in BOOLEAN :
        TokenState(u, v, b, d) \in TokenStates
  BY TokenStateType
<1>4. CASE q
  <2>1. CASE e
    <3>1. Fmt!TokenStep(a, c) = TokenState(toks, Append(cur, c), TRUE, FALSE)
      BY <1>1, <1>4, <2>1, EscapedInToken
    <3> QED BY <1>2, <1>3, <3>1
  <2>2. CASE ~e
    <3>1. a = TokenState(toks, cur, TRUE, FALSE)
      BY <1>1, <1>4, <2>2
    <3>2. CASE c = Fmt!Quote
      <4>1. Fmt!TokenStep(a, c) = TokenState(toks, Append(cur, c), FALSE, FALSE)
        BY <3>1, <3>2, QuoteInToken
      <4> QED BY <1>2, <1>3, <4>1
    <3>3. CASE c = Fmt!Backslash
      <4>1. Fmt!TokenStep(a, c) = TokenState(toks, Append(cur, c), TRUE, TRUE)
        BY <3>1, <3>3, BackslashInToken
      <4> QED BY <1>2, <1>3, <4>1
    <3>4. CASE c \notin {Fmt!Quote, Fmt!Backslash}
      <4>1. Fmt!TokenStep(a, c) = TokenState(toks, Append(cur, c), TRUE, FALSE)
        BY <3>1, <3>4, QuotedInToken
      <4> QED BY <1>2, <1>3, <4>1
    <3> QED BY <3>2, <3>3, <3>4
  <2> QED BY <2>1, <2>2
<1>5. CASE ~q
  <2>1. a = TokenState(toks, cur, FALSE, e)
    BY <1>1, <1>5
  <2>2. CASE c = Fmt!Quote
    <3>1. Fmt!TokenStep(a, c) = TokenState(toks, Append(cur, c), TRUE, e)
      BY <2>1, <2>2, OpensInToken
    <3> QED BY <1>2, <1>3, <3>1
  <2>3. CASE c \in Fmt!White
    <3> DEFINE more == IF cur = <<>> THEN toks ELSE Append(toks, cur)
    <3>1. Fmt!TokenStep(a, c) = TokenState(more, <<>>, FALSE, e)
      BY <2>1, <2>3, EndsToken
    <3>2. more \in Seq(Tokens)
      BY AppendProperties DEF Tokens
    <3> HIDE DEF more
    <3> QED BY <1>2, <1>3, <3>1, <3>2
  <2>4. CASE c \notin Fmt!White \union {Fmt!Quote}
    <3>1. c \in Alphabet \ (Fmt!White \union {Fmt!Quote})
      BY <2>4
    <3>2. Fmt!TokenStep(TokenState(toks, cur, FALSE, e), c) = TokenState(toks, Append(cur, c), FALSE, e)
      BY <3>1 DEF Fmt!TokenStep, TokenState
    <3>3. Fmt!TokenStep(a, c) = TokenState(toks, Append(cur, c), FALSE, e)
      BY <2>1, <3>2, Zenon
    <3> QED BY <1>2, <1>3, <3>3
  <2> QED BY <2>2, <2>3, <2>4
<1> QED BY <1>4, <1>5

TokenStart == TokenState(<<>>, <<>>, FALSE, FALSE)

LEMMA SplitType ==
  ASSUME NEW s \in Seq(Alphabet)
  PROVE  Fmt!SplitTokens(s) \in Seq(Tokens)
<1> DEFINE end == Tk!Fold(TokenStart, s)
           T == {x \in Seq(Alphabet) : Tk!Fold(TokenStart, x) \in TokenStates}
<1>1. <<>> \in T
  <2>1. <<>> \in Seq(Alphabet) /\ <<>> \in Seq(Tokens)
    BY EmptySeq
  <2>2. TokenStart \in TokenStates
    BY <2>1, TokenStateType DEF TokenStart
  <2>3. Tk!Fold(TokenStart, <<>>) = TokenStart
    BY Tk!FoldOfEmpty
  <2>4. Tk!Fold(TokenStart, <<>>) \in TokenStates
    BY <2>2, <2>3
  <2> QED BY <2>1, <2>4
<1>2. ASSUME NEW x \in Seq(Alphabet), NEW c \in Alphabet, x \in T PROVE Append(x, c) \in T
  <2>1. Tk!Fold(TokenStart, Append(x, c)) = Fmt!TokenStep(Tk!Fold(TokenStart, x), c)
    BY Tk!FoldOfAppend DEF Tokenizing
  <2> QED BY <1>2, <2>1, TokenStepType, AppendProperties
<1>3. Seq(Alphabet) \subseteq T
  <2> HIDE DEF T
  <2> QED BY <1>1, <1>2, SeqUpTo
<1>4. end \in TokenStates
  BY <1>3
<1>5. Fmt!SplitTokens(s) = IF end.cur = <<>> THEN end.toks ELSE Append(end.toks, end.cur)
  BY TokensInLoop DEF Fmt!SplitTokens, TokenState, TokenStart
<1> HIDE DEF end
<1>6. end.toks \in Seq(Tokens) /\ end.cur \in Seq(Alphabet)
  BY <1>4 DEF TokenStates
<1>7. end.cur # <<>> => Append(end.toks, end.cur) \in Seq(Tokens)
  BY <1>6, AppendProperties DEF Tokens
<1> QED BY <1>5, <1>6, <1>7

LEMMA UnescapeType ==
  ASSUME NEW s \in Seq(Alphabet), Fmt!UnescapeValue(s) # Unreadable
  PROVE  Fmt!UnescapeValue(s) \in Seq(Alphabet)
<1> DEFINE t == Fmt!Trim(s)
           u == SubSeq(t, 2, Len(t) - 1)
           end == Un!Fold(Unread, u)
           T == {x \in Seq(Alphabet) : Un!Fold(Unread, x) \in Unescapings}
<1>1. t \in Seq(Alphabet)
  BY TrimType
<1>2. u \in Seq(Alphabet)
  <2> HIDE DEF t
  <2>1. Len(t) \in Nat /\ \A i \in 1..Len(t) : t[i] \in Alphabet
    BY <1>1, LenProperties, ElementOfSeq
  <2>2. 2 \in Int /\ Len(t) - 1 \in Int /\ \A i \in 2..(Len(t) - 1) : t[i] \in Alphabet
    BY <2>1
  <2> QED BY <2>2, SubSeqProperties
<1>3. <<>> \in T
  <2>1. <<>> \in Seq(Alphabet)
    BY EmptySeq
  <2>2. Unread \in Unescapings
    BY <2>1, UnescapingMade DEF Unread
  <2>3. Un!Fold(Unread, <<>>) = Unread
    BY Un!FoldOfEmpty
  <2>4. Un!Fold(Unread, <<>>) \in Unescapings
    BY <2>2, <2>3
  <2> QED BY <2>1, <2>4
<1>4. ASSUME NEW x \in Seq(Alphabet), NEW c \in Alphabet, x \in T PROVE Append(x, c) \in T
  <2>1. Un!Fold(Unread, Append(x, c)) = Fmt!UnescapeStep(Un!Fold(Unread, x), c)
    BY Un!FoldOfAppend DEF Unescaping
  <2> QED BY <1>4, <2>1, UnescapeStepReads, AppendProperties
<1>5. Seq(Alphabet) \subseteq T
  <2> HIDE DEF T
  <2> QED BY <1>3, <1>4, SeqUpTo
<1>6. end \in Unescapings
  <2> HIDE DEF u
  <2> QED BY <1>2, <1>5
<1>7. Fmt!UnescapePairs(u) = Full(end)
  BY UnescapesInLoop DEF Fmt!UnescapePairs, Full, Unread
<1>8. Fmt!UnescapePairs(u) \in Seq(Alphabet)
  <2> HIDE DEF end, u
  <2> QED BY <1>6, <1>7, FullType
<1>9. Fmt!UnescapeValue(s) \in {t, Unreadable, Fmt!UnescapePairs(u)}
  BY DEF Fmt!UnescapeValue
<1> HIDE DEF t, u
<1> QED BY <1>1, <1>8, <1>9

LEMMA AttrsType ==
  ASSUME NEW s \in Seq(Alphabet), Fmt!ParseAttrs(s) # Unreadable
  PROVE  /\ Fmt!ParseAttrs(s) \in [Fmt!Keys -> Seq(Alphabet)]
         /\ \A k \in Fmt!Keys : Fmt!ParseAttrs(s)[k] # Unreadable
<1> DEFINE toks == Fmt!SplitTokens(Fmt!Trim(s))
           found(k) == {i \in DOMAIN toks : toks[i][1] = k}
           value(k) == Fmt!UnescapeValue(Tail(toks[Fmt!Max(found(k))]))
<1>1. toks \in Seq(Tokens)
  BY TrimType, SplitType
<1>2. /\ \A k \in Fmt!Keys : \E i \in DOMAIN toks : toks[i][1] = k
      /\ \A i \in DOMAIN toks : toks[i][1] \in Fmt!Keys => Fmt!UnescapeValue(Tail(toks[i])) # Unreadable
      /\ Fmt!ParseAttrs(s) = [k \in Fmt!Keys |-> value(k)]
  BY DEF Fmt!ParseAttrs
<1>3. Len(toks) \in Nat /\ DOMAIN toks = 1..Len(toks) /\ \A i \in DOMAIN toks : toks[i] \in Tokens
  <2> HIDE DEF toks
  <2> QED BY <1>1, LenProperties, ElementOfSeq
<1>4. ASSUME NEW k \in Fmt!Keys PROVE value(k) # Unreadable /\ value(k) \in Seq(Alphabet)
  <2>1. found(k) # {} /\ found(k) \subseteq 1..Len(toks)
    BY <1>2, <1>3
  <2>2. Fmt!Max(found(k)) \in found(k)
    <3> HIDE DEF found
    <3> QED BY <2>1, <1>3, MaxIsGreatest
  <2> DEFINE i == Fmt!Max(found(k))
  <2>3. i \in DOMAIN toks /\ toks[i][1] = k
    BY <2>2
  <2> HIDE DEF i
  <2>4. Fmt!UnescapeValue(Tail(toks[i])) # Unreadable
    BY <2>3, <1>2
  <2>5. Tail(toks[i]) \in Seq(Alphabet)
    <3>1. toks[i] \in Seq(Alphabet) /\ toks[i] # <<>>
      BY <2>3, <1>3 DEF Tokens
    <3> QED BY <3>1, HeadTailProperties
  <2> QED BY <2>4, <2>5, UnescapeType DEF i
<1> HIDE DEF value
<1> QED BY <1>2, <1>4

Plain == Alphabet \ (Fmt!White \union {Fmt!Quote})

\* Reading one attribute value that is safe, behind what the token holds already.
LEMMA BareTokenRead ==
  ASSUME NEW toks, NEW cur \in Seq(Alphabet), NEW w \in Seq(Plain)
  PROVE  Tk!Fold(TokenState(toks, cur, FALSE, FALSE), w) = TokenState(toks, cur \o w, FALSE, FALSE)
<1> DEFINE start == TokenState(toks, cur, FALSE, FALSE)
           T == {x \in Seq(Plain) : Tk!Fold(start, x) = TokenState(toks, cur \o x, FALSE, FALSE)}
<1>1. <<>> \in T
  <2>1. <<>> \in Seq(Plain) /\ cur \o <<>> = cur
    BY EmptySeq, ConcatEmptySeq
  <2>2. Tk!Fold(start, <<>>) = start
    <3> HIDE DEF start
    <3> QED BY Tk!FoldOfEmpty
  <2>3. TokenState(toks, cur \o <<>>, FALSE, FALSE) = start
    BY <2>1
  <2> QED BY <2>1, <2>2, <2>3
<1>2. ASSUME NEW x \in Seq(Plain), NEW c \in Plain, x \in T PROVE Append(x, c) \in T
  <2>1. Tk!Fold(start, Append(x, c)) = Fmt!TokenStep(Tk!Fold(start, x), c)
    BY Tk!FoldOfAppend DEF Tokenizing
  <2>2. Tk!Fold(start, x) = TokenState(toks, cur \o x, FALSE, FALSE)
    BY <1>2
  <2>3. Fmt!TokenStep(TokenState(toks, cur \o x, FALSE, FALSE), c) =
          TokenState(toks, Append(cur \o x, c), FALSE, FALSE)
    BY ExtendsToken DEF Plain
  <2>4. Append(cur \o x, c) = cur \o Append(x, c)
    <3>1. x \in Seq(Alphabet) /\ c \in Alphabet
      <4>1. Plain \subseteq Alphabet
        BY DEF Plain
      <4> QED BY <4>1, SeqMonotonic
    <3>2. cur \o x \in Seq(Alphabet)
      BY <3>1, ConcatProperties
    <3>3. Append(cur \o x, c) = (cur \o x) \o <<c>>
      BY <3>1, <3>2, AppendIsConcat
    <3>4. Append(x, c) = x \o <<c>> /\ <<c>> \in Seq(Alphabet)
      BY <3>1, AppendIsConcat
    <3>5. (cur \o x) \o <<c>> = cur \o (x \o <<c>>)
      BY <3>1, <3>4, ConcatAssociative
    <3> QED BY <3>3, <3>4, <3>5
  <2>5. Tk!Fold(start, Append(x, c)) = TokenState(toks, cur \o Append(x, c), FALSE, FALSE)
    <3> HIDE DEF start
    <3> QED BY <2>1, <2>2, <2>3, <2>4
  <2> QED BY <2>5, AppendProperties
<1>3. Seq(Plain) \subseteq T
  <2> HIDE DEF T
  <2> QED BY <1>1, <1>2, SeqUpTo
<1> QED BY <1>3

\* The state behind a character in quotes depends on whether a backslash went before it.
InToken(toks, cur, e) == TokenState(toks, cur, TRUE, e)

\* What a character is escaped as stays in the token, and in the quotes.
LEMMA QuotedTokenRead ==
  ASSUME NEW toks, NEW cur \in Seq(Alphabet), NEW c \in Alphabet
  PROVE  LET more == cur \o Quoted(c)
         IN /\ c # Fmt!Quote =>
                 Tk!Fold(InToken(toks, cur, TRUE), Quoted(c)) = InToken(toks, more, FALSE)
            /\ c # Fmt!Backslash =>
                 Tk!Fold(InToken(toks, cur, FALSE), Quoted(c)) = InToken(toks, more, FALSE)
            /\ c = Fmt!Backslash =>
                 Tk!Fold(InToken(toks, cur, FALSE), Quoted(c)) = InToken(toks, more, TRUE)
<1> DEFINE more == cur \o Quoted(c)
           a == InToken(toks, cur, FALSE)
           z == InToken(toks, more, FALSE)
<1>1. ASSUME c # Fmt!Quote PROVE more = Append(cur, c) /\ \A s : Tk!Fold(s, Quoted(c)) = Fmt!TokenStep(s, c)
  <2>1. Quoted(c) = <<c>> /\ Append(cur, c) = cur \o <<c>>
    BY <1>1, AppendIsConcat DEF Quoted
  <2>2. ASSUME NEW s PROVE Tk!Fold(s, <<c>>) = Fmt!TokenStep(s, c)
    BY Tk!FoldOfOne DEF Tokenizing
  <2> QED BY <2>1, <2>2
<1>2. ASSUME c # Fmt!Quote PROVE Tk!Fold(InToken(toks, cur, TRUE), Quoted(c)) = z
  <2>1. Fmt!TokenStep(InToken(toks, cur, TRUE), c) = InToken(toks, Append(cur, c), FALSE)
    BY EscapedInToken DEF InToken
  <2> QED BY <1>1, <1>2, <2>1
<1>3. ASSUME c \notin {Fmt!Quote, Fmt!Backslash} PROVE Tk!Fold(a, Quoted(c)) = z
  <2>1. Fmt!TokenStep(a, c) = InToken(toks, Append(cur, c), FALSE)
    BY <1>3, QuotedInToken DEF InToken
  <2> HIDE DEF a
  <2> QED BY <1>1, <1>3, <2>1
<1>4. ASSUME c = Fmt!Quote PROVE Tk!Fold(a, Quoted(c)) = z
  <2> DEFINE b == InToken(toks, Append(cur, Fmt!Backslash), TRUE)
             y == InToken(toks, Append(Append(cur, Fmt!Backslash), Fmt!Quote), FALSE)
  <2>1. Tk!Fold(a, <<Fmt!Backslash, Fmt!Quote>>) = Fmt!TokenStep(Fmt!TokenStep(a, Fmt!Backslash), Fmt!Quote)
    <3> HIDE DEF a
    <3> QED BY Characters, Tk!FoldOfTwo DEF Tokenizing
  <2>2. Fmt!TokenStep(a, Fmt!Backslash) = b
    BY BackslashInToken DEF InToken
  <2>3. Fmt!TokenStep(b, Fmt!Quote) = y
    BY Characters, EscapedInToken DEF InToken
  <2>4. Append(Append(cur, Fmt!Backslash), Fmt!Quote) = cur \o <<Fmt!Backslash, Fmt!Quote>>
    BY Characters, TwoMore
  <2>5. Quoted(c) = <<Fmt!Backslash, Fmt!Quote>>
    BY <1>4 DEF Quoted
  <2>6. y = z
    BY <2>4, <2>5
  <2> HIDE DEF a, b, y, z
  <2> QED BY <2>1, <2>2, <2>3, <2>5, <2>6
<1>5. ASSUME c = Fmt!Backslash PROVE Tk!Fold(a, Quoted(c)) = InToken(toks, more, TRUE)
  <2>1. Fmt!TokenStep(a, Fmt!Backslash) = InToken(toks, Append(cur, Fmt!Backslash), TRUE)
    BY BackslashInToken DEF InToken
  <2>2. c # Fmt!Quote
    BY <1>5, Characters
  <2> HIDE DEF a
  <2> QED BY <1>1, <1>5, <2>1, <2>2
<1> QED BY <1>2, <1>3, <1>4, <1>5

\* So does an escaped text, and its last backslash may take what follows with it.
LEMMA EscapedTokenRead ==
  ASSUME NEW toks, NEW cur \in Seq(Alphabet), NEW w \in Seq(Alphabet), NoneBad(w)
  PROVE  Tk!Fold(InToken(toks, cur, FALSE), Fmt!Escaped(w)) =
           IF Fmt!Odd(Fmt!Run(w, Len(w) + 1)) THEN InToken(toks, cur \o Fmt!Escaped(w), TRUE)
           ELSE InToken(toks, cur \o Fmt!Escaped(w), FALSE)
<1> DEFINE start == InToken(toks, cur, FALSE)
           odd(x) == Fmt!Odd(Fmt!Run(x, Len(x) + 1))
           now(x) == cur \o Fmt!Escaped(x)
           Read(x) == Tk!Fold(start, Fmt!Escaped(x)) =
                        IF odd(x) THEN InToken(toks, now(x), TRUE) ELSE InToken(toks, now(x), FALSE)
           T == {x \in Seq(Alphabet) : NoneBad(x) => Read(x)}
<1>1. <<>> \in T
  <2>1. <<>> \in Seq(Alphabet) /\ cur \o <<>> = cur
    BY EmptySeq, ConcatEmptySeq
  <2>2. Tk!Fold(start, Fmt!Escaped(<<>>)) = start
    <3> HIDE DEF start
    <3> QED BY Tk!FoldOfEmpty, EscapedNone
  <2>3. InToken(toks, now(<<>>), FALSE) = start
    BY <2>1, EscapedNone
  <2>4. ~odd(<<>>)
    <3>1. Len(<<>>) + 1 = 1
      BY EmptySeq
    <3> QED BY <3>1, OddNone
  <2> HIDE DEF start, odd, now
  <2>5. Read(<<>>)
    BY <2>2, <2>3, <2>4
  <2> HIDE DEF Read
  <2> QED BY <2>1, <2>5
<1>2. ASSUME NEW x \in Seq(Alphabet), NEW c \in Alphabet, x \in T PROVE Append(x, c) \in T
  <2> DEFINE d == Append(x, c)
  <2>0. SUFFICES ASSUME NoneBad(d) PROVE Read(d)
    <3>1. d \in Seq(Alphabet)
      BY AppendProperties
    <3> HIDE DEF Read, d
    <3> QED BY <3>1 DEF d
  <2>1. NoneBad(x) /\ (c = Fmt!Quote => ~odd(x))
    BY <2>0, NoneBadMore
  <2>2. Read(x)
    BY <1>2, <2>1
  <2>3. now(x) \in Seq(Alphabet) /\ Fmt!Escaped(x) \in Seq(Alphabet) /\ Quoted(c) \in Seq(Alphabet)
    BY EscapedType, QuotedType, ConcatProperties
  <2>4. Fmt!Escaped(d) = Fmt!Escaped(x) \o Quoted(c)
    BY EscapedMore
  <2>5. Tk!Fold(start, Fmt!Escaped(d)) = Tk!Fold(Tk!Fold(start, Fmt!Escaped(x)), Quoted(c))
    <3> HIDE DEF start, d
    <3> QED BY <2>3, <2>4, Tk!FoldOfConcat
  <2>6. now(d) = now(x) \o Quoted(c)
    <3>1. (cur \o Fmt!Escaped(x)) \o Quoted(c) = cur \o (Fmt!Escaped(x) \o Quoted(c))
      BY <2>3, Together, ZenonT(40)
    <3> QED BY <3>1, <2>4
  <2>7. odd(d) <=> c = Fmt!Backslash /\ ~odd(x)
    <3>1. Len(d) + 1 = Len(x) + 2
      BY AppendProperties, LenProperties
    <3>2. Fmt!Odd(Fmt!Run(d, Len(x) + 2)) <=> c = Fmt!Backslash /\ ~odd(x)
      BY OddMore
    <3> QED BY <3>1, <3>2
  <2>8. CASE odd(x)
    <3>1. c # Fmt!Quote /\ ~odd(d)
      BY <2>1, <2>7, <2>8
    <3>2. Tk!Fold(InToken(toks, now(x), TRUE), Quoted(c)) = InToken(toks, now(x) \o Quoted(c), FALSE)
      <4> HIDE DEF now
      <4> QED BY <2>3, <3>1, QuotedTokenRead
    <3> HIDE DEF start, odd, now, d
    <3> QED BY <2>2, <2>5, <2>6, <2>8, <3>1, <3>2
  <2>9. CASE ~odd(x) /\ c # Fmt!Backslash
    <3>1. ~odd(d)
      BY <2>7, <2>9
    <3>2. Tk!Fold(InToken(toks, now(x), FALSE), Quoted(c)) = InToken(toks, now(x) \o Quoted(c), FALSE)
      <4> HIDE DEF now
      <4> QED BY <2>3, <2>9, QuotedTokenRead
    <3> HIDE DEF start, odd, now, d
    <3> QED BY <2>2, <2>5, <2>6, <2>9, <3>1, <3>2
  <2>10. CASE ~odd(x) /\ c = Fmt!Backslash
    <3>1. odd(d)
      BY <2>7, <2>10
    <3>2. Tk!Fold(InToken(toks, now(x), FALSE), Quoted(c)) = InToken(toks, now(x) \o Quoted(c), TRUE)
      <4> HIDE DEF now
      <4> QED BY <2>3, <2>10, QuotedTokenRead
    <3> HIDE DEF start, odd, now, d
    <3> QED BY <2>2, <2>5, <2>6, <2>10, <3>1, <3>2
  <2> HIDE DEF Read, odd
  <2> QED BY <2>8, <2>9, <2>10
<1>3. Seq(Alphabet) \subseteq T
  <2> HIDE DEF T
  <2> QED BY <1>1, <1>2, SeqUpTo
<1> HIDE DEF Read
<1>4. Read(w)
  BY <1>3
<1> QED BY <1>4 DEF Read

\* A safe attribute is read into the token as it was rendered, and quotes are closed.
LEMMA AttrRead ==
  ASSUME NEW toks, NEW cur \in Seq(Alphabet), NEW v \in Seq(Alphabet), Fmt!SafeAttr(v)
  PROVE  /\ EndsWell(Fmt!EscapeValue(v))
         /\ Tk!Fold(TokenState(toks, cur, FALSE, FALSE), Fmt!EscapeValue(v)) =
              TokenState(toks, cur \o Fmt!EscapeValue(v), FALSE, FALSE)
<1>1. CASE Bare(v)
  <2>1. Fmt!EscapeValue(v) = v
    BY <1>1, EscapeValueType
  <2>2. ~Fmt!Has(v, "tab") /\ Fmt!Trim(v) = v /\ v # <<>> /\ ~Fmt!Has(v, "space") /\ ~Fmt!Has(v, Fmt!Quote)
    BY <1>1, <2>1 DEF Fmt!SafeAttr, Fmt!SafeValue, Bare
  <2>3. EndsWell(v)
    BY <2>2, TrimKept
  <2>4. v \in Seq(Plain)
    <3>1. \A i \in 1..Len(v) : v[i] # Fmt!Quote /\ v[i] # "tab" /\ v[i] # "space"
      BY <2>2, LenProperties DEF Fmt!Has, Fmt!Range
    <3>2. v \in [1..Len(v) -> Plain] /\ Len(v) \in Nat
      BY <3>1, LenProperties DEF Plain, Fmt!White
    <3> QED BY <3>2, SeqDef
  <2> QED BY <2>1, <2>3, <2>4, BareTokenRead
<1>2. CASE ~Bare(v)
  <2>1. Fmt!EscapeValue(v) = Fmt!Wrapped(v) /\ Fmt!EscapeValue(v) # v
    BY <1>2, EscapeValueType
  <2>2. NoneBad(v) /\ ~Fmt!Odd(Fmt!Run(v, Len(v) + 1))
    BY <2>1 DEF Fmt!SafeAttr, Fmt!SafeValue, NoneBad
  <2>3. EndsWell(Fmt!Wrapped(v))
    BY WrappedShape
  <2> DEFINE q == <<Fmt!Quote>>
             w == Fmt!Escaped(v)
             cq == Append(cur, Fmt!Quote)
             a == TokenState(toks, cur, FALSE, FALSE)
             b == TokenState(toks, cq, TRUE, FALSE)
             d == TokenState(toks, cq \o w, TRUE, FALSE)
             z == TokenState(toks, Append(cq \o w, Fmt!Quote), FALSE, FALSE)
  <2>4. q \in Seq(Alphabet) /\ w \in Seq(Alphabet) /\ cq \in Seq(Alphabet)
    BY Characters, EscapedType, AppendProperties
  <2>5. q \o w \in Seq(Alphabet) /\ cq \o w \in Seq(Alphabet)
    <3> HIDE DEF q, w, cq
    <3> QED BY <2>4, ConcatProperties
  <2>6. Tk!Fold(a, q) = b
    <3>1. Tk!Fold(a, q) = Fmt!TokenStep(a, Fmt!Quote)
      BY Characters, Tk!FoldOfOne DEF Tokenizing
    <3>2. Fmt!TokenStep(a, Fmt!Quote) = b
      BY OpensInToken
    <3> QED BY <3>1, <3>2
  <2>7. Tk!Fold(b, w) = d
    <3> HIDE DEF cq
    <3>1. Tk!Fold(InToken(toks, cq, FALSE), w) =
            IF Fmt!Odd(Fmt!Run(v, Len(v) + 1)) THEN InToken(toks, cq \o w, TRUE) ELSE InToken(toks, cq \o w, FALSE)
      BY <2>2, <2>4, EscapedTokenRead
    <3> QED BY <3>1, <2>2 DEF InToken
  <2>8. Tk!Fold(d, q) = z
    <3> HIDE DEF cq, w
    <3>1. Tk!Fold(d, q) = Fmt!TokenStep(d, Fmt!Quote)
      BY Characters, Tk!FoldOfOne DEF Tokenizing
    <3>2. Fmt!TokenStep(d, Fmt!Quote) = z
      BY QuoteInToken
    <3> QED BY <3>1, <3>2
  <2>9. Tk!Fold(a, (q \o w) \o q) = Tk!Fold(Tk!Fold(Tk!Fold(a, q), w), q)
    <3> HIDE DEF q, w, a
    <3>1. Tk!Fold(a, (q \o w) \o q) = Tk!Fold(Tk!Fold(a, q \o w), q)
      BY <2>4, <2>5, Tk!FoldOfConcat
    <3>2. Tk!Fold(a, q \o w) = Tk!Fold(Tk!Fold(a, q), w)
      BY <2>4, Tk!FoldOfConcat
    <3> QED BY <3>1, <3>2
  <2>10. Fmt!Wrapped(v) = (q \o w) \o q
    BY DEF Fmt!Wrapped
  <2>11. Append(cq \o w, Fmt!Quote) = cur \o ((q \o w) \o q)
    <3>1. cq = cur \o q
      BY Characters, AppendIsConcat
    <3>2. Append(cq \o w, Fmt!Quote) = (cq \o w) \o q
      <4> HIDE DEF cq, w
      <4> QED BY <2>5, Characters, AppendIsConcat
    <3> HIDE DEF q, w, cq
    <3>3. (cur \o q) \o w = cur \o (q \o w)
      BY <2>4, Together, ZenonT(40)
    <3> DEFINE qw == q \o w
    <3>4. qw \in Seq(Alphabet)
      BY <2>5
    <3> HIDE DEF qw
    <3>5. (cur \o qw) \o q = cur \o (qw \o q)
      BY <2>4, <3>4, Together, ZenonT(40)
    <3> QED BY <3>1, <3>2, <3>3, <3>5 DEF qw
  <2>12. Tk!Fold(a, Fmt!Wrapped(v)) = z
    <3> HIDE DEF q, w, a, b, d, z
    <3> QED BY <2>6, <2>7, <2>8, <2>9, <2>10
  <2>13. z = TokenState(toks, cur \o Fmt!Wrapped(v), FALSE, FALSE)
    <3> HIDE DEF q, w, cq
    <3> QED BY <2>10, <2>11
  <2> HIDE DEF z, a
  <2> QED BY <2>1, <2>3, <2>12, <2>13 DEF a
<1> QED BY <1>1, <1>2

Token(k, v) == <<k>> \o Fmt!EscapeValue(v)

LEMMA OneMoreInFront ==
  ASSUME NEW S, NEW k \in S, NEW e \in Seq(S)
  PROVE  LET t == <<k>> \o e IN t \in Seq(S) /\ t # <<>> /\ t[1] = k /\ Tail(t) = e
<1> DEFINE n == Len(e)
           s == <<k>>
           t == s \o e
<1>1. n \in Nat
  BY LenProperties
<1>2. s \in Seq(S) /\ Len(s) = 1 /\ s[1] = k
  OBVIOUS
<1> HIDE DEF s, t
<1>3. /\ t \in Seq(S) /\ Len(t) = Len(s) + Len(e)
      /\ \A i \in 1..Len(s) + Len(e) : t[i] = IF i <= Len(s) THEN s[i] ELSE e[i - Len(s)]
  BY <1>2, ConcatProperties DEF t
<1>4. Len(s) + Len(e) = n + 1
  BY <1>1, <1>2
<1> HIDE DEF n
<1>5. t # <<>> /\ t[1] = k
  <2>1. 1 \in 1..(n+1) /\ Len(t) # 0
    BY <1>1, <1>3, <1>4
  <2> QED BY <2>1, <1>2, <1>3, <1>4, EmptySeq
<1> DEFINE u == Tail(t)
<1>6. /\ u \in Seq(S) /\ Len(u) = Len(t) - 1
      /\ \A i \in 1..Len(u) : u[i] = t[i+1]
  BY <1>3, <1>5, HeadTailProperties
<1> HIDE DEF u
<1>7. Len(u) = n
  BY <1>1, <1>3, <1>4, <1>6
<1>8. ASSUME NEW i \in 1..n PROVE u[i] = e[i]
  <2>1. i + 1 \in 1..(n+1) /\ ~(i + 1 <= 1) /\ (i + 1) - 1 = i
    BY <1>1
  <2>2. t[i+1] = e[i]
    BY <2>1, <1>2, <1>3, <1>4
  <2> QED BY <2>2, <1>6, <1>7
<1>9. u = e
  <2>1. Len(u) = Len(e) /\ \A i \in 1..Len(u) : u[i] = e[i]
    BY <1>7, <1>8 DEF n
  <2> QED BY <2>1, <1>6, SeqEqual
<1> QED BY <1>3, <1>5, <1>9 DEF u, t, s

\* The token of an attribute: its key, and then its value as it was rendered.
LEMMA TokenShape ==
  ASSUME NEW k \in Fmt!Keys, NEW v \in Seq(Alphabet)
  PROVE  /\ Token(k, v) \in Tokens /\ Token(k, v)[1] = k /\ Tail(Token(k, v)) = Fmt!EscapeValue(v)
         /\ <<k>> \in Seq(Alphabet)
<1> DEFINE e == Fmt!EscapeValue(v)
<1>1. e \in Seq(Alphabet) /\ k \in Alphabet
  BY EscapeValueType DEF Alphabet
<1>2. Token(k, v) = <<k>> \o e
  BY DEF Token
<1> HIDE DEF e
<1>3. /\ <<k>> \o e \in Seq(Alphabet) /\ <<k>> \o e # <<>>
      /\ (<<k>> \o e)[1] = k /\ Tail(<<k>> \o e) = e
  BY <1>1, OneMoreInFront
<1>4. <<k>> \in Seq(Alphabet)
  BY <1>1
<1> QED BY <1>2, <1>3, <1>4 DEF Tokens, e

LEMMA RenderAttrsType ==
  ASSUME NEW d, d["relation="] \in Seq(Alphabet), d["target="] \in Seq(Alphabet)
  PROVE  Fmt!RenderAttrs(d) \in Seq(Alphabet)
<1> DEFINE x == Fmt!EscapeValue(d["relation="])  y == Fmt!EscapeValue(d["target="])
           a == <<"relation=">>  b == <<"space", "target=">>
<1>1. x \in Seq(Alphabet) /\ y \in Seq(Alphabet) /\ a \in Seq(Alphabet) /\ b \in Seq(Alphabet)
  BY EscapeValueType, Characters
<1>2. Fmt!RenderAttrs(d) = ((a \o x) \o b) \o y
  BY DEF Fmt!RenderAttrs
<1> HIDE DEF x, y, a, b
<1>3. a \o x \in Seq(Alphabet)
  BY <1>1, ConcatProperties
<1>4. (a \o x) \o b \in Seq(Alphabet)
  BY <1>1, <1>3, ConcatProperties
<1>5. ((a \o x) \o b) \o y \in Seq(Alphabet)
  BY <1>1, <1>4, ConcatProperties
<1> QED BY <1>2, <1>5

\* What splitting makes of the two attributes: a token each.
LEMMA AttrsSplit ==
  ASSUME NEW r \in Seq(Alphabet), NEW g \in Seq(Alphabet), Fmt!SafeAttr(r), Fmt!SafeAttr(g),
         NEW d, d["relation="] = r, d["target="] = g
  PROVE  /\ Fmt!Trim(Fmt!RenderAttrs(d)) = Fmt!RenderAttrs(d)
         /\ Fmt!SplitTokens(Fmt!RenderAttrs(d)) = <<Token("relation=", r), Token("target=", g)>>
<1> DEFINE x == Fmt!EscapeValue(r)  y == Fmt!EscapeValue(g)
           a == <<"relation=">>  b == <<"space", "target=">>  c == <<"target=">>
           s0 == TokenState(<<>>, <<>>, FALSE, FALSE)
           s1 == TokenState(<<>>, a, FALSE, FALSE)
           s2 == TokenState(<<>>, a \o x, FALSE, FALSE)
           s3 == TokenState(<<a \o x>>, <<>>, FALSE, FALSE)
           s4 == TokenState(<<a \o x>>, c, FALSE, FALSE)
           s5 == TokenState(<<a \o x>>, c \o y, FALSE, FALSE)
           s == ((a \o x) \o b) \o y
<1>1. Fmt!RenderAttrs(d) = s
  BY DEF Fmt!RenderAttrs
<1>2. /\ x \in Seq(Alphabet) /\ y \in Seq(Alphabet) /\ a \in Seq(Alphabet) /\ b \in Seq(Alphabet)
      /\ c \in Seq(Alphabet)
  BY EscapeValueType, Characters
<1>3. EndsWell(y) /\ "relation=" \in Fmt!Keys /\ "target=" \in Fmt!Keys
  BY AttrRead DEF Fmt!Keys
<1>4. a \o x \in Tokens /\ c \o y \in Tokens /\ (a \o x)[1] = "relation="
  BY <1>3, TokenShape DEF Token
<1>5. Tk!Fold(s0, a) = s1
  <2>1. Tk!Fold(s0, a) = Fmt!TokenStep(s0, "relation=")
    BY Characters, Tk!FoldOfOne DEF Tokenizing
  <2>2. "relation=" \in Alphabet \ (Fmt!White \union {Fmt!Quote})
    BY Characters DEF Fmt!White, Fmt!Quote
  <2>3. Fmt!TokenStep(s0, "relation=") = TokenState(<<>>, Append(<<>>, "relation="), FALSE, FALSE)
    BY <2>2, ExtendsToken
  <2>4. Append(<<>>, "relation=") = a
    OBVIOUS
  <2> HIDE DEF a, s0
  <2> QED BY <2>1, <2>3, <2>4
<1>6. Tk!Fold(s1, x) = s2
  <2> HIDE DEF a, x
  <2> QED BY <1>2, AttrRead, Zenon DEF x
<1>7. Tk!Fold(s2, b) = s4
  <2>1. Tk!Fold(s2, b) = Fmt!TokenStep(Fmt!TokenStep(s2, "space"), "target=")
    <3> HIDE DEF s2
    <3> QED BY Characters, Tk!FoldOfTwo DEF Tokenizing
  <2>2. Fmt!TokenStep(s2, "space") = s3
    <3> DEFINE w == a \o x
    <3>1. w # <<>>
      BY <1>4 DEF Tokens
    <3>2. "space" \in Fmt!White
      BY DEF Fmt!White
    <3> HIDE DEF w
    <3>3. Fmt!TokenStep(TokenState(<<>>, w, FALSE, FALSE), "space") =
            TokenState(IF w = <<>> THEN <<>> ELSE Append(<<>>, w), <<>>, FALSE, FALSE)
      BY <3>2, EndsToken
    <3>4. Append(<<>>, w) = <<w>>
      OBVIOUS
    <3>5. Fmt!TokenStep(TokenState(<<>>, w, FALSE, FALSE), "space") = TokenState(<<w>>, <<>>, FALSE, FALSE)
      BY <3>1, <3>3, <3>4
    <3> QED BY <3>5 DEF w
  <2>3. Fmt!TokenStep(s3, "target=") = s4
    <3> HIDE DEF a, x
    <3>1. "target=" \in Alphabet \ (Fmt!White \union {Fmt!Quote})
      BY Characters DEF Fmt!White, Fmt!Quote
    <3>2. Fmt!TokenStep(s3, "target=") = TokenState(<<a \o x>>, Append(<<>>, "target="), FALSE, FALSE)
      BY <3>1, ExtendsToken
    <3>3. Append(<<>>, "target=") = c
      OBVIOUS
    <3> HIDE DEF c
    <3> QED BY <3>2, <3>3
  <2> HIDE DEF s2, s3, s4
  <2> QED BY <2>1, <2>2, <2>3
<1>8. Tk!Fold(s4, y) = s5
  <2> HIDE DEF a, c, y
  <2> QED BY <1>2, AttrRead, ZenonT(40) DEF y
<1>9. Tk!Fold(s0, s) = s5
  <2> HIDE DEF a, b, x, y, s0, s1, s2, s3, s4, s5
  <2>1. a \o x \in Seq(Alphabet)
    BY <1>4 DEF Tokens
  <2>2. (a \o x) \o b \in Seq(Alphabet)
    BY <1>2, <2>1, ConcatProperties
  <2>3. Tk!Fold(s0, a \o x) = s2
    BY <1>2, <1>5, <1>6, Tk!FoldOfConcat
  <2>4. Tk!Fold(s0, (a \o x) \o b) = s4
    <3>1. Tk!Fold(s0, (a \o x) \o b) = Tk!Fold(Tk!Fold(s0, a \o x), b)
      BY <1>2, <2>1, Tk!FoldOfConcat
    <3> QED BY <3>1, <2>3, <1>7
  <2>5. Tk!Fold(s0, ((a \o x) \o b) \o y) = Tk!Fold(Tk!Fold(s0, (a \o x) \o b), y)
    BY <1>2, <2>2, Tk!FoldOfConcat
  <2> QED BY <2>4, <2>5, <1>8 DEF s
<1>10. Fmt!SplitTokens(s) = <<a \o x, c \o y>>
  <2>1. Fmt!SplitTokens(s) = IF s5.cur = <<>> THEN s5.toks ELSE Append(s5.toks, s5.cur)
    <3> HIDE DEF s, s5
    <3> QED BY <1>9, TokensInLoop DEF Fmt!SplitTokens, TokenState
  <2>2. s5.cur = c \o y /\ s5.toks = <<a \o x>>
    BY DEF TokenState
  <2> DEFINE w == a \o x  z == c \o y
  <2>3. z # <<>> /\ s5.cur = z /\ s5.toks = <<w>>
    BY <1>4, <2>2 DEF Tokens
  <2> HIDE DEF w, z, s, s5
  <2>4. <<w>> \in Seq({w, z}) /\ <<w, z>> = Append(<<w>>, z)
    OBVIOUS
  <2>5. Fmt!SplitTokens(s) = <<w, z>>
    BY <2>1, <2>3, <2>4
  <2> QED BY <2>5 DEF w, z
<1>11. Fmt!Trim(s) = s
  <2> HIDE DEF a, b, x, y
  <2> DEFINE w == (a \o x) \o b
  <2>1. a \o x \in Seq(Alphabet) /\ a \o x # <<>> /\ (a \o x)[1] \notin Fmt!White
    BY <1>4 DEF Tokens, Fmt!White
  <2>2. w \in Seq(Alphabet) /\ w # <<>> /\ w[1] = (a \o x)[1]
    <3> DEFINE v == a \o x
    <3>1. v \in Seq(Alphabet) /\ Len(v) \in Nat \ {0} /\ Len(b) \in Nat
      BY <2>1, <1>2, EmptySeq, LenProperties
    <3> HIDE DEF v
    <3>2. /\ v \o b \in Seq(Alphabet) /\ Len(v \o b) = Len(v) + Len(b)
          /\ \A i \in 1..Len(v) + Len(b) : (v \o b)[i] = IF i <= Len(v) THEN v[i] ELSE b[i - Len(v)]
      BY <1>2, <3>1, ConcatProperties
    <3> DEFINE vb == v \o b
    <3> HIDE DEF vb
    <3>3. 1 \in 1..Len(v) + Len(b) /\ 1 <= Len(v)
      BY <3>1
    <3>4. vb[1] = v[1] /\ Len(vb) # 0 /\ vb \in Seq(Alphabet)
      BY <3>1, <3>2, <3>3 DEF vb
    <3>5. vb # <<>>
      BY <3>4, EmptySeq
    <3> QED BY <3>4, <3>5 DEF vb, v
  <2> HIDE DEF w
  <2>3. EndsWell(w \o y)
    BY <1>2, <1>3, <2>1, <2>2, EndsWellTogether
  <2>4. w \o y \in Seq(Alphabet)
    BY <1>2, <2>2, ConcatProperties
  <2>5. Fmt!Trim(w \o y) = w \o y
    BY <2>3, <2>4, TrimKeeps
  <2> QED BY <2>5 DEF w
<1> QED BY <1>1, <1>10, <1>11 DEF Token

\* Safe attributes of any length are read back as they were rendered.
LEMMA AttrsKept ==
  ASSUME NEW d \in [Fmt!Keys -> Seq(Alphabet)], \A k \in Fmt!Keys : d[k] # Unreadable,
         Fmt!SafeAttr(d["relation="]), Fmt!SafeAttr(d["target="])
  PROVE  Fmt!ParseAttrs(Fmt!RenderAttrs(d)) = d
<1> DEFINE r == d["relation="]  g == d["target="]
           s == Fmt!RenderAttrs(d)
           toks == Fmt!SplitTokens(Fmt!Trim(s))
           found(k) == {i \in DOMAIN toks : toks[i][1] = k}
           value(k) == Fmt!UnescapeValue(Tail(toks[Fmt!Max(found(k))]))
<1>1. "relation=" \in Fmt!Keys /\ "target=" \in Fmt!Keys /\ Fmt!Keys = {"relation=", "target="}
  BY DEF Fmt!Keys
<1>2. r \in Seq(Alphabet) /\ g \in Seq(Alphabet) /\ r # Unreadable /\ g # Unreadable
  BY <1>1
<1>3. Fmt!UnescapeValue(Fmt!EscapeValue(r)) = r /\ Fmt!UnescapeValue(Fmt!EscapeValue(g)) = g
  <2> HIDE DEF r, g
  <2> QED BY <1>2, ValueKept DEF Fmt!SafeAttr, r, g
<1> DEFINE t1 == Token("relation=", r)  t2 == Token("target=", g)
<1>4. toks = <<t1, t2>>
  BY <1>2, AttrsSplit
<1>5. /\ t1 \in Tokens /\ t1[1] = "relation=" /\ Tail(t1) = Fmt!EscapeValue(r)
      /\ t2 \in Tokens /\ t2[1] = "target=" /\ Tail(t2) = Fmt!EscapeValue(g)
  <2> HIDE DEF r, g
  <2> QED BY <1>1, <1>2, TokenShape
<1> HIDE DEF t1, t2, toks, r, g, s
<1>6. DOMAIN toks = {1, 2} /\ toks[1] = t1 /\ toks[2] = t2
  BY <1>4
<1>7. found("relation=") = {1} /\ found("target=") = {2}
  BY <1>5, <1>6
<1>8. value("relation=") = r /\ value("target=") = g
  <2>1. Fmt!Max({1}) = 1 /\ Fmt!Max({2}) = 2
    <3>1. Fmt!Max({1}) \in {1} /\ Fmt!Max({2}) \in {2}
      <4>1. {1} \subseteq 1..2 /\ {2} \subseteq 1..2 /\ 2 \in Nat /\ {1} # {} /\ {2} # {}
        OBVIOUS
      <4> QED BY <4>1, MaxIsGreatest
    <3> QED BY <3>1
  <2>2. value("relation=") = Fmt!UnescapeValue(Tail(t1)) /\ value("target=") = Fmt!UnescapeValue(Tail(t2))
    <3> HIDE DEF found
    <3> QED BY <1>6, <1>7, <2>1
  <2> QED BY <2>2, <1>3, <1>5
<1>9. \A i \in DOMAIN toks : /\ Fmt!Range(toks[i]) \intersect Fmt!Keys # {}
                             /\ Fmt!UnescapeValue(Tail(toks[i])) # Unreadable
  <2>1. ASSUME NEW u \in {t1, t2}
        PROVE  Fmt!Range(u) \intersect Fmt!Keys # {} /\ Fmt!UnescapeValue(Tail(u)) # Unreadable
    <3>1. u \in Seq(Alphabet) /\ u # <<>> /\ u[1] \in Fmt!Keys
      BY <1>1, <1>5 DEF Tokens
    <3>2. 1 \in DOMAIN u
      <4>1. Len(u) \in Nat \ {0} /\ DOMAIN u = 1..Len(u)
        BY <3>1, EmptySeq, LenProperties
      <4> QED BY <4>1
    <3>3. u[1] \in Fmt!Range(u)
      BY <3>2 DEF Fmt!Range
    <3>4. Fmt!UnescapeValue(Tail(u)) # Unreadable
      BY <1>2, <1>3, <1>5
    <3> QED BY <3>1, <3>3, <3>4
  <2> QED BY <2>1, <1>6
<1>10. \A k \in Fmt!Keys : \E i \in DOMAIN toks : toks[i][1] = k
  BY <1>1, <1>5, <1>6
<1>11. Fmt!ParseAttrs(s) = [k \in Fmt!Keys |-> value(k)]
  BY <1>9, <1>10 DEF Fmt!ParseAttrs, toks
<1> HIDE DEF value
<1>12. \A k \in Fmt!Keys : value(k) = d[k]
  BY <1>1, <1>8 DEF r, g
<1>13. d = [k \in Fmt!Keys |-> d[k]]
  OBVIOUS
<1> QED BY <1>11, <1>12, <1>13 DEF s

LineReading(a, line) == Fmt!LineStep(a, line)
Ln == INSTANCE Folding WITH Op <- LineReading

\* Reading a body is a loop over its lines.
LEMMA LinesInLoop ==
  ASSUME NEW base, NEW s PROVE Fmt!FoldLeft(Fmt!LineStep, base, s) = Ln!Fold(base, s)
BY DEF Fmt!FoldLeft, Fmt!MapThenFoldSet, Fmt!Max, Ln!Fold, Ln!Greatest, LineReading

AllLines == Seq(Fmt!LineChars)
SafeLines == {l \in AllLines : ~Fmt!EscapedAt(l)}
Blocks == Seq(SafeLines)
Held(line) == IF Fmt!EscapedAt(line) THEN Tail(line) ELSE line
BodyState(blocks, bad) == [blocks |-> blocks, bad |-> bad]

LEMMA LineCharacters ==
  /\ "letter" \in Fmt!LineChars /\ "at" \in Fmt!LineChars /\ Fmt!Backslash \in Fmt!LineChars /\ Fmt!Backslash # "at"
  /\ Fmt!Header \in AllLines /\ <<>> \in AllLines /\ <<>> \in SafeLines
  /\ ~Fmt!Starts(<<>>, "at") /\ Fmt!Starts(Fmt!Header, "at") /\ ~Fmt!EscapedAt(<<>>)
<1>1. "letter" \in Fmt!LineChars /\ "at" \in Fmt!LineChars /\ Fmt!Backslash \in Fmt!LineChars /\ Fmt!Backslash # "at"
  BY DEF Fmt!LineChars, Fmt!Backslash
<1>2. Fmt!Header \in AllLines /\ Fmt!Header # <<>> /\ Fmt!Header[1] = "at"
  BY <1>1 DEF Fmt!Header, AllLines
<1>3. <<>> \in AllLines /\ ~Fmt!Starts(<<>>, "at") /\ ~Fmt!Starts(<<>>, Fmt!Backslash)
  BY EmptySeq DEF AllLines, Fmt!Starts
<1> QED BY <1>1, <1>2, <1>3 DEF Fmt!Starts, Fmt!EscapedAt, SafeLines

\* A line that is held starts no block, and is not escaped.
LEMMA HeldIsSafe ==
  ASSUME NEW l \in AllLines PROVE Held(l) \in SafeLines
<1>1. CASE Fmt!EscapedAt(l)
  <2>1. l # <<>> /\ Fmt!Starts(Tail(l), "at")
    BY <1>1 DEF Fmt!EscapedAt, Fmt!Starts
  <2>2. Tail(l) \in AllLines
    BY <2>1, HeadTailProperties DEF AllLines
  <2>3. ~Fmt!EscapedAt(Tail(l))
    BY <2>1, LineCharacters DEF Fmt!EscapedAt, Fmt!Starts
  <2> QED BY <1>1, <2>2, <2>3 DEF Held, SafeLines
<1>2. CASE ~Fmt!EscapedAt(l)
  BY <1>2 DEF Held, SafeLines
<1> QED BY <1>1, <1>2

LEMMA RenderLineType == ASSUME NEW l \in AllLines PROVE Fmt!RenderLine(l) \in AllLines
<1>1. <<Fmt!Backslash>> \o l \in Seq(Fmt!LineChars)
  BY LineCharacters, OneMoreInFront DEF AllLines
<1> QED BY <1>1 DEF Fmt!RenderLine, AllLines

\* A safe line is rendered so that it is no header, and read as it was.
LEMMA RenderLineHeld ==
  ASSUME NEW l \in SafeLines
  PROVE  Fmt!RenderLine(l) \in AllLines /\ ~Fmt!Starts(Fmt!RenderLine(l), "at") /\ Held(Fmt!RenderLine(l)) = l
<1>1. l \in AllLines /\ l \in Seq(Fmt!LineChars) /\ ~Fmt!EscapedAt(l)
  BY DEF SafeLines, AllLines
<1>2. CASE Fmt!Starts(l, "at")
  <2> DEFINE t == <<Fmt!Backslash>> \o l
  <2>1. t \in Seq(Fmt!LineChars) /\ t # <<>> /\ t[1] = Fmt!Backslash /\ Tail(t) = l
    BY <1>1, LineCharacters, OneMoreInFront
  <2>2. Fmt!RenderLine(l) = t
    BY <1>2 DEF Fmt!RenderLine
  <2> HIDE DEF t
  <2>3. ~Fmt!Starts(t, "at") /\ Fmt!EscapedAt(t)
    BY <1>2, <2>1, LineCharacters DEF Fmt!Starts, Fmt!EscapedAt
  <2> QED BY <2>1, <2>2, <2>3 DEF Held, AllLines
<1>3. CASE ~Fmt!Starts(l, "at")
  BY <1>1, <1>3 DEF Fmt!RenderLine, Held
<1> QED BY <1>2, <1>3

\* A header opens a block.
LEMMA HeaderStep ==
  ASSUME NEW blocks, NEW bad \in BOOLEAN
  PROVE  Fmt!LineStep(BodyState(blocks, bad), Fmt!Header) = BodyState(Append(blocks, <<>>), bad)
BY LineCharacters DEF Fmt!LineStep, BodyState

\* So does an unknown one, which is remembered or not.
LEMMA OtherHeaderStep ==
  ASSUME NEW blocks, NEW bad \in BOOLEAN, NEW l, Fmt!Starts(l, "at")
  PROVE  \E b \in BOOLEAN : Fmt!LineStep(BodyState(blocks, bad), l) = BodyState(Append(blocks, <<>>), b)
<1>1. Fmt!LineStep(BodyState(blocks, bad), l) = BodyState(Append(blocks, <<>>), bad \/ l # Fmt!Header)
  BY DEF Fmt!LineStep, BodyState
<1> QED BY <1>1

\* Any other line goes into the last block.
LEMMA BodyLineStep ==
  ASSUME NEW blocks, NEW bad \in BOOLEAN, NEW l, ~Fmt!Starts(l, "at")
  PROVE  Fmt!LineStep(BodyState(blocks, bad), l) =
           BodyState([blocks EXCEPT ![Len(blocks)] = Append(@, Held(l))], bad)
BY DEF Fmt!LineStep, BodyState, Held

\* Blank lines at the end.
LEMMA WithoutNone == Fmt!WithoutSeparators(<<>>) = <<>>
BY DEF Fmt!WithoutSeparators

\* A blank line more at the end of a block makes no difference.
LEMMA WithoutOneMore ==
  ASSUME NEW b \in Seq(AllLines)
  PROVE  Fmt!WithoutSeparators(Append(b, <<>>)) = Fmt!WithoutSeparators(b)
<1> DEFINE n == Len(b)
           d == Append(b, <<>>)
           kept == {i \in DOMAIN b : b[i] # <<>>}
           more == {i \in DOMAIN d : d[i] # <<>>}
<1>1. n \in Nat /\ DOMAIN b = 1..n /\ \A i \in 1..n : b[i] \in AllLines
  BY LenProperties, ElementOfSeq
<1>2. /\ d \in Seq(AllLines) /\ Len(d) = n + 1
      /\ \A i \in 1..n : d[i] = b[i]
      /\ d[n+1] = <<>>
  BY LineCharacters, AppendProperties
<1>3. DOMAIN d = 1..(n+1)
  BY <1>2, LenProperties
<1>4. more = kept
  <2>1. ASSUME NEW i \in 1..(n+1) PROVE i \in more <=> i \in kept
    <3>1. CASE i = n + 1
      <4>1. i \notin 1..n
        BY <3>1, <1>1
      <4> QED BY <3>1, <4>1, <1>1, <1>2
    <3>2. CASE i # n + 1
      <4>1. i \in 1..n
        BY <3>2, <1>1
      <4> QED BY <4>1, <1>1, <1>2, <1>3
    <3> QED BY <3>1, <3>2
  <2> QED BY <2>1, <1>1, <1>3
<1>5. CASE kept = {}
  BY <1>4, <1>5 DEF Fmt!WithoutSeparators
<1>6. CASE kept # {}
  <2> DEFINE m == Fmt!Max(kept)
  <2>1. m \in 1..n
    <3>1. kept \subseteq 1..n
      BY <1>1
    <3> HIDE DEF kept
    <3> QED BY <3>1, <1>1, <1>6, MaxIsGreatest
  <2>2. Fmt!WithoutSeparators(d) = SubSeq(d, 1, m) /\ Fmt!WithoutSeparators(b) = SubSeq(b, 1, m)
    BY <1>4, <1>6 DEF Fmt!WithoutSeparators
  <2> HIDE DEF m, n
  <2>3. /\ SubSeq(d, 1, m) \in Seq(AllLines) /\ Len(SubSeq(d, 1, m)) = m
        /\ \A i \in 1..m : SubSeq(d, 1, m)[i] = d[i]
    <3>1. \A i \in 1..m : d[i] \in AllLines
      BY <1>1, <1>2, <2>1
    <3> HIDE DEF d
    <3>2. 1 \in Int /\ m \in Int /\ m - 1 + 1 = m /\ 1 <= m /\ \A i \in 1..m : 1 + i - 1 = i
      BY <1>1, <2>1
    <3> QED BY <3>1, <3>2, SubSeqProperties
  <2>4. /\ SubSeq(b, 1, m) \in Seq(AllLines) /\ Len(SubSeq(b, 1, m)) = m
        /\ \A i \in 1..m : SubSeq(b, 1, m)[i] = b[i]
    <3>1. \A i \in 1..m : b[i] \in AllLines
      BY <1>1, <2>1
    <3>2. 1 \in Int /\ m \in Int /\ m - 1 + 1 = m /\ 1 <= m /\ \A i \in 1..m : 1 + i - 1 = i
      BY <1>1, <2>1
    <3> QED BY <3>1, <3>2, SubSeqProperties
  <2>5. \A i \in 1..m : SubSeq(d, 1, m)[i] = SubSeq(b, 1, m)[i]
    BY <1>1, <1>2, <2>1, <2>3, <2>4
  <2>6. SubSeq(d, 1, m) = SubSeq(b, 1, m)
    <3> DEFINE u == SubSeq(d, 1, m)  v == SubSeq(b, 1, m)
    <3>1. u \in Seq(AllLines) /\ v \in Seq(AllLines) /\ Len(u) = Len(v) /\ \A i \in 1..Len(u) : u[i] = v[i]
      BY <2>3, <2>4, <2>5
    <3> HIDE DEF u, v
    <3>2. u = v
      BY <3>1, SeqEqual
    <3> QED BY <3>2 DEF u, v
  <2> QED BY <2>2, <2>6
<1> QED BY <1>5, <1>6

\* Once separators are left out there are none.
LEMMA WithoutTwice ==
  ASSUME NEW S, NEW b \in Seq(S)
  PROVE  /\ Fmt!WithoutSeparators(b) \in Seq(S)
         /\ Fmt!WithoutSeparators(Fmt!WithoutSeparators(b)) = Fmt!WithoutSeparators(b)
<1> DEFINE n == Len(b)
           kept == {i \in DOMAIN b : b[i] # <<>>}
           m == Fmt!Max(kept)
           c == SubSeq(b, 1, m)
<1>1. n \in Nat /\ DOMAIN b = 1..n /\ \A i \in 1..n : b[i] \in S
  BY LenProperties, ElementOfSeq
<1>2. CASE kept = {}
  <2>1. Fmt!WithoutSeparators(b) = <<>>
    BY <1>2 DEF Fmt!WithoutSeparators
  <2> QED BY <2>1, WithoutNone, EmptySeq
<1>3. CASE kept # {}
  <2>1. m \in 1..n /\ b[m] # <<>>
    <3>1. kept \subseteq 1..n /\ \A i \in kept : b[i] # <<>>
      BY <1>1
    <3>2. m \in kept
      <4> HIDE DEF kept
      <4> QED BY <3>1, <1>1, <1>3, MaxIsGreatest
    <3> QED BY <3>1, <3>2
  <2>2. Fmt!WithoutSeparators(b) = c
    BY <1>3 DEF Fmt!WithoutSeparators
  <2> HIDE DEF m
  <2>3. c \in Seq(S) /\ Len(c) = m /\ \A i \in 1..m : c[i] = b[i]
    <3>1. \A i \in 1..m : b[i] \in S
      BY <1>1, <2>1
    <3>2. 1 \in Int /\ m \in Int /\ m - 1 + 1 = m /\ 1 <= m /\ \A i \in 1..m : 1 + i - 1 = i
      BY <1>1, <2>1
    <3> QED BY <3>1, <3>2, SubSeqProperties
  <2> DEFINE again == {i \in DOMAIN c : c[i] # <<>>}
  <2> HIDE DEF c
  <2>4. DOMAIN c = 1..m
    BY <2>3, LenProperties
  <2>5. m \in again /\ again \subseteq 1..m
    BY <1>1, <2>1, <2>3, <2>4
  <2>6. Fmt!Max(again) = m
    <3>1. Fmt!Max(again) \in 1..m /\ m <= Fmt!Max(again)
      <4>1. m \in Nat /\ again # {}
        BY <1>1, <2>1, <2>5
      <4> HIDE DEF again
      <4> QED BY <2>5, <4>1, MaxIsGreatest
    <3> HIDE DEF again
    <3> QED BY <3>1, <1>1, <2>1
  <2>7. Fmt!WithoutSeparators(c) = SubSeq(c, 1, m)
    BY <2>5, <2>6 DEF Fmt!WithoutSeparators
  <2>8. SubSeq(c, 1, m) = c
    BY <2>3, SubSeqFull
  <2> QED BY <2>2, <2>3, <2>7, <2>8
<1> QED BY <1>2, <1>3

\* The lines of a block, rendered.
LEMMA RenderedMore ==
  ASSUME NEW b \in Seq(AllLines), NEW l \in AllLines
  PROVE  /\ Fmt!RenderLines(b) \in Seq(AllLines)
         /\ Fmt!RenderLines(Append(b, l)) = Append(Fmt!RenderLines(b), Fmt!RenderLine(l))
<1> DEFINE n == Len(b)
           d == Append(b, l)
           r == Fmt!RenderLines(b)
           q == Fmt!RenderLines(d)
           more == Append(r, Fmt!RenderLine(l))
<1>1. n \in Nat /\ DOMAIN b = 1..n /\ \A i \in 1..n : b[i] \in AllLines
  BY LenProperties, ElementOfSeq
<1>2. /\ d \in Seq(AllLines) /\ Len(d) = n + 1
      /\ \A i \in 1..n : d[i] = b[i]
      /\ d[n+1] = l
  BY AppendProperties
<1>3. DOMAIN d = 1..(n+1)
  BY <1>2, LenProperties
<1> HIDE DEF n, d
<1>4. r \in [1..n -> AllLines] /\ \A i \in 1..n : r[i] = Fmt!RenderLine(b[i])
  BY <1>1, RenderLineType DEF Fmt!RenderLines
<1>5. q = [i \in 1..(n+1) |-> Fmt!RenderLine(d[i])]
  BY <1>3 DEF Fmt!RenderLines
<1> HIDE DEF r, q
<1>6. r \in Seq(AllLines) /\ Len(r) = n
  <2>1. r \in Seq(AllLines)
    BY <1>1, <1>4, SeqDef
  <2> QED BY <2>1, <1>1, <1>4, LenProperties
<1>7. Fmt!RenderLine(l) \in AllLines
  BY RenderLineType
<1> DEFINE e == Fmt!RenderLine(l)
<1> HIDE DEF e
<1>8. /\ more \in Seq(AllLines) /\ Len(more) = n + 1
      /\ \A i \in 1..n : more[i] = r[i]
      /\ more[n+1] = e
  BY <1>6, <1>7, AppendProperties DEF e
<1> HIDE DEF more
<1>9. more = [i \in 1..(n+1) |-> more[i]]
  BY <1>8, LenProperties
<1>10. \A i \in 1..(n+1) : more[i] = Fmt!RenderLine(d[i])
  <2>1. ASSUME NEW i \in 1..(n+1) PROVE more[i] = Fmt!RenderLine(d[i])
    <3>1. i \in 1..n \/ i = n + 1
      BY <1>1
    <3> QED BY <3>1, <1>2, <1>4, <1>8 DEF e
  <2> QED BY <2>1
<1>11. q = more
  BY <1>5, <1>9, <1>10
<1> QED BY <1>6, <1>11 DEF q, d, r, more

LEMMA RenderedType == ASSUME NEW b \in Seq(AllLines) PROVE Fmt!RenderLines(b) \in Seq(AllLines)
BY RenderedMore, LineCharacters

LEMMA RenderedNone == Fmt!RenderLines(<<>>) = <<>>
<1>1. DOMAIN <<>> = {}
  OBVIOUS
<1> QED BY <1>1 DEF Fmt!RenderLines

LEMMA BlocksAreLines ==
  Blocks \subseteq Seq(AllLines) /\ SafeLines \subseteq AllLines /\ Seq(Blocks) \subseteq Seq(Seq(AllLines))
<1>1. SafeLines \subseteq AllLines
  BY DEF SafeLines
<1>2. Blocks \subseteq Seq(AllLines)
  BY <1>1, SeqMonotonic DEF Blocks
<1>3. Seq(Blocks) \subseteq Seq(Seq(AllLines))
  BY <1>2, SeqMonotonic
<1> QED BY <1>1, <1>2, <1>3

\* Reading the lines of one block, behind its header.
LEMMA BlockRead ==
  ASSUME NEW blocks \in Seq(Blocks), blocks # <<>>, blocks[Len(blocks)] = <<>>, NEW b \in Blocks
  PROVE  Ln!Fold(BodyState(blocks, FALSE), Fmt!RenderLines(b)) =
           BodyState([blocks EXCEPT ![Len(blocks)] = b], FALSE)
<1> DEFINE n == Len(blocks)
           start == BodyState(blocks, FALSE)
           with(x) == [blocks EXCEPT ![n] = x]
           T == {x \in Seq(SafeLines) : Ln!Fold(start, Fmt!RenderLines(x)) = BodyState(with(x), FALSE)}
<1>0. n \in Nat \ {0} /\ n \in 1..n /\ DOMAIN blocks = 1..n
  <2>1. n \in Nat \ {0} /\ DOMAIN blocks = 1..n
    BY EmptySeq, LenProperties
  <2> QED BY <2>1
<1>1. <<>> \in T
  <2>1. <<>> \in Seq(SafeLines)
    BY EmptySeq
  <2>2. with(<<>>) = blocks
    BY <1>0
  <2> HIDE DEF n
  <2>3. Ln!Fold(start, Fmt!RenderLines(<<>>)) = start
    <3> HIDE DEF start
    <3> QED BY RenderedNone, Ln!FoldOfEmpty
  <2> HIDE DEF with
  <2>4. Ln!Fold(start, Fmt!RenderLines(<<>>)) = BodyState(with(<<>>), FALSE)
    BY <2>2, <2>3
  <2> QED BY <2>1, <2>4
<1>2. ASSUME NEW x \in Seq(SafeLines), NEW l \in SafeLines, x \in T PROVE Append(x, l) \in T
  <2> DEFINE d == Append(x, l)
             e == Fmt!RenderLine(l)
  <2>1. d \in Seq(SafeLines)
    BY AppendProperties
  <2>2. Fmt!RenderLines(d) = Append(Fmt!RenderLines(x), e) /\ Fmt!RenderLines(x) \in Seq(AllLines)
    <3>1. x \in Seq(AllLines) /\ l \in AllLines
      BY BlocksAreLines DEF Blocks
    <3> QED BY <3>1, RenderedMore
  <2>3. e \in AllLines /\ ~Fmt!Starts(e, "at") /\ Held(e) = l
    BY RenderLineHeld
  <2> HIDE DEF e
  <2>4. Ln!Fold(start, Append(Fmt!RenderLines(x), e)) = Fmt!LineStep(Ln!Fold(start, Fmt!RenderLines(x)), e)
    <3> HIDE DEF start
    <3> QED BY <2>2, <2>3, Ln!FoldOfAppend DEF LineReading
  <2>5. Ln!Fold(start, Fmt!RenderLines(x)) = BodyState(with(x), FALSE)
    BY <1>2
  <2>6. Fmt!LineStep(BodyState(with(x), FALSE), e) =
          BodyState([with(x) EXCEPT ![Len(with(x))] = Append(@, Held(e))], FALSE)
    <3> HIDE DEF with
    <3> QED BY <2>3, BodyLineStep
  <2>7. Len(with(x)) = n /\ with(x)[n] = x
    <3>1. x \in Blocks
      BY DEF Blocks
    <3>2. Len(with(x)) = Len(blocks)
      BY <3>1, <1>0, ExceptSeq
    <3>3. with(x)[n] = x
      BY <1>0
    <3> QED BY <3>2, <3>3
  <2>8. [with(x) EXCEPT ![n] = Append(x, l)] = with(d)
    <3> HIDE DEF n, d
    <3> QED BY <1>0 DEF d
  <2>9. [with(x) EXCEPT ![Len(with(x))] = Append(@, Held(e))] = with(d)
    <3> DEFINE w == with(x)
    <3>1. Len(w) = n /\ w[n] = x
      BY <2>7
    <3>2. [w EXCEPT ![n] = Append(x, l)] = with(d)
      BY <2>8
    <3> HIDE DEF w, with, n
    <3>3. [w EXCEPT ![Len(w)] = Append(@, Held(e))] = [w EXCEPT ![n] = Append(x, l)]
      BY <3>1, <2>3
    <3> QED BY <3>2, <3>3 DEF w
  <2> HIDE DEF start, with, d
  <2>10. Ln!Fold(start, Fmt!RenderLines(d)) = BodyState(with(d), FALSE)
    BY <2>2, <2>4, <2>5, <2>6, <2>9
  <2> QED BY <2>1, <2>10 DEF d
<1>3. Seq(SafeLines) \subseteq T
  <2> HIDE DEF T
  <2> QED BY <1>1, <1>2, SeqUpTo
<1>4. b \in T
  BY <1>3 DEF Blocks
<1> QED BY <1>4

\* Rendering a body, a block at a time.
Headed(i, b) == (IF i = 1 THEN <<>> ELSE << <<>>, Fmt!Header >>) \o Fmt!RenderLines(Fmt!Ended(b))

\* The line break at a text's end is none of the text.
LEMMA EndedType ==
  ASSUME NEW b \in Seq(AllLines)
  PROVE  /\ Fmt!Ended(b) \in Seq(AllLines)
         /\ b \in Blocks => Fmt!Ended(b) \in Blocks
         /\ Fmt!WithoutSeparators(Fmt!Ended(b)) = Fmt!WithoutSeparators(b)
<1>1. CASE b # <<>>
  <2>1. Fmt!Ended(b) = b
    BY <1>1 DEF Fmt!Ended
  <2> QED BY <2>1
<1>2. CASE b = <<>>
  <2> DEFINE e == Append(<<>>, <<>>)
  <2>1. Fmt!Ended(b) = e
    <3>1. e = << <<>> >>
      OBVIOUS
    <3> QED BY <1>2, <3>1 DEF Fmt!Ended
  <2>2. <<>> \in SafeLines /\ <<>> \in AllLines /\ <<>> \in Seq(SafeLines) /\ <<>> \in Seq(AllLines)
    BY LineCharacters, EmptySeq DEF SafeLines
  <2>3. e \in Seq(SafeLines) /\ e \in Seq(AllLines)
    BY <2>2, AppendProperties
  <2>4. Fmt!WithoutSeparators(e) = Fmt!WithoutSeparators(<<>>)
    BY <2>2, WithoutOneMore
  <2> HIDE DEF e
  <2> QED BY <1>2, <2>1, <2>3, <2>4 DEF Blocks
<1> QED BY <1>1, <1>2

LEMMA HeadedType ==
  ASSUME NEW i \in Nat, NEW b \in Seq(AllLines)
  PROVE  Headed(i, b) \in Seq(AllLines)
<1> DEFINE sep == IF i = 1 THEN <<>> ELSE << <<>>, Fmt!Header >>
<1>1. sep \in Seq(AllLines)
  <2>1. <<>> \in Seq(AllLines) /\ << <<>>, Fmt!Header >> \in Seq(AllLines)
    BY EmptySeq, LineCharacters
  <2> QED BY <2>1
<1>2. Headed(i, b) = sep \o Fmt!RenderLines(Fmt!Ended(b))
  BY DEF Headed
<1>3. Fmt!RenderLines(Fmt!Ended(b)) \in Seq(AllLines)
  BY EndedType, RenderedType
<1> HIDE DEF sep
<1> QED BY <1>1, <1>2, <1>3, ConcatProperties

LEMMA RenderBodyNone == Fmt!RenderBody(<<>>) = <<>>
<1> DEFINE q == [i \in DOMAIN <<>> |-> Headed(i, <<>>[i])]
<1>1. q = <<>>
  OBVIOUS
<1>2. Fmt!FlattenSeq(q) = <<>>
  <2> HIDE DEF q
  <2> QED BY <1>1, FmtFlattenNone
<1> QED BY <1>2 DEF Fmt!RenderBody, Headed

\* A block more adds a blank line, its header and its lines.
LEMMA RenderBodyMore ==
  ASSUME NEW bs \in Seq(Seq(AllLines)), NEW b \in Seq(AllLines)
  PROVE  /\ Fmt!RenderBody(bs) \in Seq(AllLines)
         /\ Fmt!RenderBody(Append(bs, b)) = Fmt!RenderBody(bs) \o Headed(Len(bs) + 1, b)
<1> DEFINE n == Len(bs)
           d == Append(bs, b)
           r == [i \in DOMAIN bs |-> Headed(i, bs[i])]
           q == [i \in DOMAIN d |-> Headed(i, d[i])]
<1>1. n \in Nat /\ DOMAIN bs = 1..n /\ \A i \in 1..n : bs[i] \in Seq(AllLines)
  BY LenProperties, ElementOfSeq
<1>2. /\ d \in Seq(Seq(AllLines)) /\ Len(d) = n + 1
      /\ \A i \in 1..n : d[i] = bs[i]
      /\ d[n+1] = b
  BY AppendProperties
<1>3. DOMAIN d = 1..(n+1)
  BY <1>2, LenProperties
<1>4. Fmt!RenderBody(bs) = Fmt!FlattenSeq(r) /\ Fmt!RenderBody(d) = Fmt!FlattenSeq(q)
  BY DEF Fmt!RenderBody, Headed
<1> HIDE DEF n, d
<1>5. (\A i \in 1..n : q[i] = r[i]) /\ q[n+1] = Headed(n + 1, b)
  <2>1. n + 1 \in DOMAIN d
    BY <1>1, <1>3
  <2>2. q[n+1] = Headed(n + 1, b)
    BY <2>1, <1>2
  <2>3. ASSUME NEW i \in 1..n PROVE q[i] = r[i]
    <3>1. i \in DOMAIN bs
      BY <1>1
    <3>2. i \in DOMAIN d
      BY <1>1, <1>3
    <3>3. d[i] = bs[i]
      BY <1>2
    <3> HIDE DEF n
    <3> QED BY <3>1, <3>2, <3>3
  <2> QED BY <2>2, <2>3
<1>6. r \in [1..n -> Seq(AllLines)]
  BY <1>1, HeadedType
<1>7. q \in [1..(n+1) -> Seq(AllLines)]
  <2>1. \A i \in 1..(n+1) : d[i] \in Seq(AllLines) /\ i \in Nat
    BY <1>2, ElementOfSeq
  <2> QED BY <2>1, <1>3, HeadedType
<1>8. Fmt!FlattenSeq(r) \in Seq(AllLines) /\ Fmt!FlattenSeq(q) = Fmt!FlattenSeq(r) \o q[n+1]
  <2> HIDE DEF q, r
  <2> QED BY <1>1, <1>5, <1>6, <1>7, FmtFlattenMore
<1> QED BY <1>4, <1>5, <1>8 DEF d, n

LEMMA RenderBodyType ==
  ASSUME NEW bs \in Seq(Seq(AllLines)) PROVE Fmt!RenderBody(bs) \in Seq(AllLines)
<1>1. <<>> \in Seq(AllLines)
  BY EmptySeq
<1> QED BY <1>1, RenderBodyMore

BodyStart == BodyState(<< <<>> >>, FALSE)

LEMMA FirstBlock == << <<>> >> \in Seq(Blocks) /\ << <<>> >> # <<>> /\ Len(<< <<>> >>) = 1 /\ << <<>> >>[1] = <<>>
<1>1. <<>> \in Blocks
  BY EmptySeq DEF Blocks
<1> QED BY <1>1

\* A line keeps the blocks well formed.
LEMMA BodyStepType ==
  ASSUME NEW blocks \in Seq(Blocks), blocks # <<>>, NEW bad \in BOOLEAN, NEW l \in AllLines
  PROVE  LET a == Fmt!LineStep(BodyState(blocks, bad), l)
         IN /\ a.blocks \in Seq(Blocks) /\ a.blocks # <<>> /\ a.bad \in BOOLEAN
            /\ a = BodyState(a.blocks, a.bad)
<1>1. CASE Fmt!Starts(l, "at")
  <2> DEFINE more == Append(blocks, <<>>)
  <2>1. <<>> \in Blocks
    BY EmptySeq DEF Blocks
  <2>2. more \in Seq(Blocks) /\ Len(more) = Len(blocks) + 1 /\ Len(blocks) \in Nat
    BY <2>1, AppendProperties, LenProperties
  <2>3. more # <<>>
    BY <2>2, EmptySeq
  <2>4. PICK b \in BOOLEAN : Fmt!LineStep(BodyState(blocks, bad), l) = BodyState(more, b)
    BY <1>1, OtherHeaderStep
  <2> HIDE DEF more
  <2> QED BY <2>2, <2>3, <2>4 DEF BodyState
<1>2. CASE ~Fmt!Starts(l, "at")
  <2> DEFINE n == Len(blocks)
             x == Append(blocks[n], Held(l))
             more == [blocks EXCEPT ![n] = x]
  <2>1. n \in Nat \ {0} /\ n \in 1..n /\ DOMAIN blocks = 1..n /\ blocks[n] \in Blocks
    <3>1. n \in Nat \ {0} /\ DOMAIN blocks = 1..n
      BY EmptySeq, LenProperties
    <3>2. n \in 1..n
      BY <3>1
    <3> QED BY <3>1, <3>2, ElementOfSeq
  <2>2. x \in Blocks
    BY <2>1, HeldIsSafe, AppendProperties DEF Blocks
  <2>3. Fmt!LineStep(BodyState(blocks, bad), l) = BodyState([blocks EXCEPT ![Len(blocks)] = Append(@, Held(l))], bad)
    BY <1>2, BodyLineStep
  <2>4. [blocks EXCEPT ![Len(blocks)] = Append(@, Held(l))] = more
    OBVIOUS
  <2>5. more \in Seq(Blocks) /\ Len(more) = n
    <3> HIDE DEF x
    <3> QED BY <2>1, <2>2, ExceptSeq
  <2>6. more # <<>>
    BY <2>1, <2>5, EmptySeq
  <2> HIDE DEF more, n, x
  <2>7. Fmt!LineStep(BodyState(blocks, bad), l) = BodyState(more, bad)
    BY <2>3, <2>4
  <2> QED BY <2>5, <2>6, <2>7 DEF BodyState
<1> QED BY <1>1, <1>2

\* However a body was written, blocks of lines without an escaped @ are read from it.
LEMMA BodyReadType ==
  ASSUME NEW lines \in Seq(AllLines)
  PROVE  LET a == Ln!Fold(BodyStart, lines)
         IN /\ a.blocks \in Seq(Blocks) /\ a.blocks # <<>> /\ a.bad \in BOOLEAN
            /\ a = BodyState(a.blocks, a.bad)
<1> DEFINE good(a) == /\ a.blocks \in Seq(Blocks) /\ a.blocks # <<>> /\ a.bad \in BOOLEAN
                      /\ a = BodyState(a.blocks, a.bad)
           T == {s \in Seq(AllLines) : good(Ln!Fold(BodyStart, s))}
<1>1. <<>> \in T
  <2>1. Ln!Fold(BodyStart, <<>>) = BodyStart
    BY Ln!FoldOfEmpty
  <2>2. good(BodyStart)
    BY FirstBlock DEF BodyStart, BodyState
  <2> HIDE DEF good
  <2>3. <<>> \in Seq(AllLines)
    BY EmptySeq
  <2> QED BY <2>1, <2>2, <2>3
<1>2. ASSUME NEW s \in Seq(AllLines), NEW l \in AllLines, s \in T PROVE Append(s, l) \in T
  <2> DEFINE a == Ln!Fold(BodyStart, s)
  <2>1. Ln!Fold(BodyStart, Append(s, l)) = Fmt!LineStep(a, l)
    BY Ln!FoldOfAppend DEF LineReading
  <2>2. good(a)
    BY <1>2
  <2> HIDE DEF a
  <2>3. good(Fmt!LineStep(BodyState(a.blocks, a.bad), l))
    BY <2>2, BodyStepType
  <2>4. a = BodyState(a.blocks, a.bad)
    BY <2>2
  <2> HIDE DEF good
  <2>5. good(Fmt!LineStep(a, l))
    BY <2>3, <2>4
  <2>6. Append(s, l) \in Seq(AllLines)
    BY AppendProperties
  <2> QED BY <2>1, <2>5, <2>6
<1>3. Seq(AllLines) \subseteq T
  <2> HIDE DEF T
  <2> QED BY <1>1, <1>2, SeqUpTo
<1> QED BY <1>3

\* And so what is read from a file is safe.
LEMMA ParseBodyType ==
  ASSUME NEW lines \in Seq(AllLines), Fmt!ParseBody(lines) # Unreadable
  PROVE  /\ Fmt!ParseBody(lines) \in Seq(Blocks) /\ Fmt!ParseBody(lines) # <<>>
         /\ \A i \in DOMAIN Fmt!ParseBody(lines) : Fmt!WithoutSeparators(Fmt!ParseBody(lines)[i]) = Fmt!ParseBody(lines)[i]
<1> DEFINE a == Ln!Fold(BodyStart, lines)
           B == a.blocks
           n == Len(B)
           x == [i \in DOMAIN B |-> Fmt!WithoutSeparators(B[i])]
<1>1. B \in Seq(Blocks) /\ B # <<>>
  BY BodyReadType
<1>2. Fmt!ParseBody(lines) = x
  <2>1. Fmt!FoldLeft(Fmt!LineStep, [blocks |-> << <<>> >>, bad |-> FALSE], lines) = a
    BY LinesInLoop DEF BodyStart, BodyState
  <2> HIDE DEF a
  <2> QED BY <2>1 DEF Fmt!ParseBody
<1> HIDE DEF a
<1>3. n \in Nat \ {0} /\ DOMAIN B = 1..n /\ \A i \in 1..n : B[i] \in Blocks
  BY <1>1, EmptySeq, LenProperties, ElementOfSeq
<1> HIDE DEF n, B
<1>4. \A i \in 1..n : Fmt!WithoutSeparators(B[i]) \in Blocks /\ Fmt!WithoutSeparators(Fmt!WithoutSeparators(B[i])) = Fmt!WithoutSeparators(B[i])
  BY <1>3, WithoutTwice DEF Blocks
<1>5. x \in [1..n -> Blocks] /\ DOMAIN x = 1..n
  BY <1>3, <1>4
<1>6. \A i \in DOMAIN x : Fmt!WithoutSeparators(x[i]) = x[i]
  BY <1>3, <1>4
<1> HIDE DEF x
<1>7. x \in Seq(Blocks) /\ x # <<>>
  <2>1. x \in Seq(Blocks)
    BY <1>3, <1>5, SeqDef
  <2>2. 1 \in DOMAIN x
    BY <1>3, <1>5
  <2> QED BY <2>1, <2>2
<1> QED BY <1>2, <1>6, <1>7

--------------------------------------------------------------------------
SafeBlocks == {b \in Blocks : Fmt!WithoutSeparators(b) = b}
ReadAs(B, bs) == Len(B) = Len(bs) /\ \A i \in 1..Len(bs) : Fmt!WithoutSeparators(B[i]) = bs[i]

\* A block more is read as it was, but for blank lines at its end.
LEMMA ReadAsMore ==
  ASSUME NEW B \in Seq(Blocks), NEW bs \in Seq(SafeBlocks), ReadAs(B, bs), NEW b \in SafeBlocks,
         NEW e \in Blocks, Fmt!WithoutSeparators(e) = b
  PROVE  Append(B, e) \in Seq(Blocks) /\ ReadAs(Append(B, e), Append(bs, b))
<1> DEFINE n == Len(bs)
<1>1. n \in Nat /\ Len(B) = n /\ \A i \in 1..n : Fmt!WithoutSeparators(B[i]) = bs[i]
  BY LenProperties DEF ReadAs
<1>2. e \in Blocks /\ Fmt!WithoutSeparators(e) = b
  OBVIOUS
<1> DEFINE C == Append(B, e)  cs == Append(bs, b)
<1>3. C \in Seq(Blocks) /\ Len(C) = n + 1 /\ C[n+1] = e /\ \A i \in 1..n : C[i] = B[i]
  BY <1>1, <1>2, AppendProperties
<1>4. cs \in Seq(SafeBlocks) /\ Len(cs) = n + 1 /\ cs[n+1] = b /\ \A i \in 1..n : cs[i] = bs[i]
  BY <1>1, AppendProperties
<1> HIDE DEF C, cs, n
<1>5. ASSUME NEW i \in 1..(n+1) PROVE Fmt!WithoutSeparators(C[i]) = cs[i]
  <2>1. i \in 1..n \/ i = n + 1
    BY <1>1
  <2> QED BY <2>1, <1>1, <1>2, <1>3, <1>4
<1>6. ReadAs(C, cs)
  BY <1>3, <1>4, <1>5 DEF ReadAs
<1> QED BY <1>3, <1>6 DEF C, cs

\* A blank line at the end of the last block is none of its text.
LEMMA ReadAsBlank ==
  ASSUME NEW B \in Seq(Blocks), B # <<>>, NEW bs \in Seq(SafeBlocks), ReadAs(B, bs)
  PROVE  LET C == [B EXCEPT ![Len(B)] = Append(@, <<>>)]
         IN C \in Seq(Blocks) /\ ReadAs(C, bs)
<1> DEFINE n == Len(B)
           x == Append(B[n], <<>>)
           C == [B EXCEPT ![n] = x]
<1>1. n \in Nat \ {0} /\ n \in 1..n /\ DOMAIN B = 1..n /\ B[n] \in Blocks
  <2>1. n \in Nat \ {0} /\ DOMAIN B = 1..n
    BY EmptySeq, LenProperties
  <2>2. n \in 1..n
    BY <2>1
  <2> QED BY <2>1, <2>2, ElementOfSeq
<1>2. B[n] \in Seq(AllLines) /\ <<>> \in SafeLines
  BY <1>1, BlocksAreLines, LineCharacters
<1>3. x \in Blocks /\ Fmt!WithoutSeparators(x) = Fmt!WithoutSeparators(B[n])
  <2>1. x \in Blocks
    BY <1>1, <1>2, AppendProperties DEF Blocks
  <2> QED BY <2>1, <1>2, WithoutOneMore
<1>4. [B EXCEPT ![Len(B)] = Append(@, <<>>)] = C
  OBVIOUS
<1> HIDE DEF x
<1>5. C \in Seq(Blocks) /\ Len(C) = n
  BY <1>1, <1>3, ExceptSeq
<1>6. Len(bs) = n /\ \A i \in 1..n : Fmt!WithoutSeparators(B[i]) = bs[i]
  BY DEF ReadAs
<1> HIDE DEF n
<1>7. ASSUME NEW i \in 1..n PROVE Fmt!WithoutSeparators(C[i]) = bs[i]
  <2>1. CASE i = n
    <3>1. C[n] = x
      BY <1>1
    <3> HIDE DEF C
    <3> QED BY <2>1, <3>1, <1>3, <1>6
  <2>2. CASE i # n
    <3>1. C[i] = B[i]
      BY <1>1, <2>2
    <3> HIDE DEF C
    <3> QED BY <3>1, <1>6
  <2> QED BY <2>1, <2>2
<1> HIDE DEF C
<1>8. ReadAs(C, bs)
  BY <1>5, <1>6, <1>7 DEF ReadAs
<1> QED BY <1>4, <1>5, <1>8

--------------------------------------------------------------------------
\* A new block, and its lines.
LEMMA NewBlockRead ==
  ASSUME NEW B \in Seq(Blocks), NEW b \in Blocks
  PROVE  Ln!Fold(BodyState(Append(B, <<>>), FALSE), Fmt!RenderLines(b)) = BodyState(Append(B, b), FALSE)
<1> DEFINE n == Len(B)
           C == Append(B, <<>>)
           D == Append(B, b)
           E == [C EXCEPT ![Len(C)] = b]
<1>1. n \in Nat /\ <<>> \in Blocks
  BY LenProperties, EmptySeq DEF Blocks
<1>2. C \in Seq(Blocks) /\ Len(C) = n + 1 /\ C[n+1] = <<>> /\ \A i \in 1..n : C[i] = B[i]
  BY <1>1, AppendProperties
<1>3. D \in Seq(Blocks) /\ Len(D) = n + 1 /\ D[n+1] = b /\ \A i \in 1..n : D[i] = B[i]
  BY <1>1, AppendProperties
<1> HIDE DEF n, C, D
<1>4. C # <<>> /\ C[Len(C)] = <<>> /\ DOMAIN C = 1..(n+1) /\ n + 1 \in 1..(n+1)
  <2>1. Len(C) # 0 /\ n + 1 \in 1..(n+1)
    BY <1>1, <1>2
  <2> QED BY <2>1, <1>2, EmptySeq, LenProperties
<1>5. Ln!Fold(BodyState(C, FALSE), Fmt!RenderLines(b)) = BodyState(E, FALSE)
  BY <1>2, <1>4, BlockRead
<1>6. E \in Seq(Blocks) /\ Len(E) = n + 1 /\ \A i \in 1..(n+1) : E[i] = IF i = n + 1 THEN b ELSE C[i]
  <2>1. \A i \in 1..(n+1) : E[i] = IF i = n + 1 THEN b ELSE C[i]
    BY <1>2, <1>4
  <2>2. E \in Seq(Blocks) /\ Len(E) = Len(C)
    <3>1. Len(C) \in 1..Len(C)
      BY <1>2, <1>4
    <3> QED BY <3>1, <1>2, ExceptSeq
  <2> QED BY <2>1, <2>2, <1>2
<1> HIDE DEF E
<1>7. \A i \in 1..(n+1) : E[i] = D[i]
  <2>1. ASSUME NEW i \in 1..(n+1) PROVE E[i] = D[i]
    <3>1. i = n + 1 \/ (i # n + 1 /\ i \in 1..n)
      BY <1>1
    <3> QED BY <3>1, <1>2, <1>3, <1>6
  <2> QED BY <2>1
<1>8. E = D
  BY <1>3, <1>6, <1>7, SeqEqual
<1> QED BY <1>5, <1>8 DEF C, D

\* All blocks of a body are read as they were rendered, but for blank lines at their ends.
LEMMA BodyRead ==
  ASSUME NEW bs \in Seq(SafeBlocks)
  PROVE  \/ bs = <<>>
         \/ \E B \in Seq(Blocks) :
              B # <<>> /\ Ln!Fold(BodyStart, Fmt!RenderBody(bs)) = BodyState(B, FALSE) /\ ReadAs(B, bs)
<1> DEFINE is(x, B) == B # <<>> /\ Ln!Fold(BodyStart, Fmt!RenderBody(x)) = BodyState(B, FALSE) /\ ReadAs(B, x)
           T == {x \in Seq(SafeBlocks) : x = <<>> \/ \E B \in Seq(Blocks) : is(x, B)}
<1>1. <<>> \in T
  BY EmptySeq
<1>2. ASSUME NEW x \in Seq(SafeBlocks), NEW b \in SafeBlocks, x \in T PROVE Append(x, b) \in T
  <2> DEFINE d == Append(x, b)
             e == Fmt!Ended(b)
             r == Fmt!RenderLines(e)
  <2>1. SafeBlocks \subseteq Seq(AllLines) /\ b \in Blocks /\ Fmt!WithoutSeparators(b) = b
    BY BlocksAreLines DEF SafeBlocks
  <2>0. e \in Blocks /\ e \in Seq(AllLines) /\ Fmt!WithoutSeparators(e) = b
    BY <2>1, EndedType
  <2>2. x \in Seq(Seq(AllLines)) /\ b \in Seq(AllLines)
    BY <2>1, SeqMonotonic
  <2>3. Fmt!RenderBody(x) \in Seq(AllLines) /\ Fmt!RenderBody(d) = Fmt!RenderBody(x) \o Headed(Len(x) + 1, b)
    BY <2>2, RenderBodyMore
  <2>4. r \in Seq(AllLines)
    BY <2>0, RenderedType
  <2>5. d \in Seq(SafeBlocks)
    BY AppendProperties
  <2> HIDE DEF d, r, e
  <2>6. CASE x = <<>>
    <3>1. Len(x) + 1 = 1
      BY <2>6, EmptySeq
    <3>2. Fmt!RenderBody(d) = r
      <4>1. Fmt!RenderBody(x) = <<>>
        BY <2>6, RenderBodyNone
      <4>2. Headed(1, b) = <<>> \o r
        BY DEF Headed, r, e
      <4>3. <<>> \o r = r
        BY <2>4, ConcatEmptySeq
      <4> QED BY <3>1, <4>1, <4>2, <4>3, <2>3
    <3>3. BodyStart = BodyState(Append(<<>>, <<>>), FALSE)
      <4>1. Append(<<>>, <<>>) = << <<>> >>
        OBVIOUS
      <4> QED BY <4>1 DEF BodyStart
    <3>4. <<>> \in Seq(Blocks)
      BY EmptySeq
    <3>5. Ln!Fold(BodyStart, r) = BodyState(Append(<<>>, e), FALSE)
      <4>1. Ln!Fold(BodyState(Append(<<>>, <<>>), FALSE), r) = BodyState(Append(<<>>, e), FALSE)
        BY <2>0, <3>4, NewBlockRead DEF r
      <4> QED BY <4>1, <3>3
    <3>6. ReadAs(<<>>, x)
      BY <2>6 DEF ReadAs
    <3>7. Append(<<>>, e) \in Seq(Blocks) /\ ReadAs(Append(<<>>, e), d)
      BY <2>0, <3>4, <3>6, ReadAsMore DEF d
    <3>8. Append(<<>>, e) # <<>>
      OBVIOUS
    <3>9. is(d, Append(<<>>, e))
      BY <3>2, <3>5, <3>7, <3>8
    <3> HIDE DEF is
    <3> QED BY <3>7, <3>9, <2>5 DEF d
  <2>7. CASE x # <<>>
    <3>1. PICK B \in Seq(Blocks) : is(x, B)
      <4> HIDE DEF is
      <4> QED BY <1>2, <2>7
    <3> DEFINE C == [B EXCEPT ![Len(B)] = Append(@, <<>>)]
               two == << <<>>, Fmt!Header >>
    <3>2. C \in Seq(Blocks) /\ ReadAs(C, x)
      BY <3>1, ReadAsBlank
    <3>3. Headed(Len(x) + 1, b) = two \o r
      <4>1. Len(x) + 1 # 1
        BY <2>7, EmptySeq, LenProperties
      <4> QED BY <4>1 DEF Headed, r, e
    <3>4. two \in Seq(AllLines)
      BY LineCharacters
    <3>5. Ln!Fold(BodyState(B, FALSE), two) = BodyState(Append(C, <<>>), FALSE)
      <4> DEFINE start == BodyState(B, FALSE)
      <4>1. Ln!Fold(start, two) = Fmt!LineStep(Fmt!LineStep(start, <<>>), Fmt!Header)
        <5> HIDE DEF start
        <5> QED BY LineCharacters, Ln!FoldOfTwo DEF LineReading
      <4>2. Fmt!LineStep(start, <<>>) = BodyState(C, FALSE)
        <5>1. Held(<<>>) = <<>>
          BY LineCharacters DEF Held
        <5> HIDE DEF C
        <5>2. Fmt!LineStep(start, <<>>) = BodyState([B EXCEPT ![Len(B)] = Append(@, Held(<<>>))], FALSE)
          BY LineCharacters, BodyLineStep
        <5> QED BY <5>1, <5>2 DEF C
      <4> HIDE DEF start, C
      <4>3. Fmt!LineStep(BodyState(C, FALSE), Fmt!Header) = BodyState(Append(C, <<>>), FALSE)
        BY HeaderStep
      <4> QED BY <4>1, <4>2, <4>3 DEF start
    <3>6. Ln!Fold(BodyState(Append(C, <<>>), FALSE), r) = BodyState(Append(C, e), FALSE)
      <4> HIDE DEF C
      <4> QED BY <3>2, <2>0, NewBlockRead DEF r
    <3>7. Append(C, e) \in Seq(Blocks) /\ ReadAs(Append(C, e), d)
      <4> HIDE DEF C
      <4> QED BY <2>0, <3>2, ReadAsMore DEF d
    <3> HIDE DEF C, two
    <3>8. Ln!Fold(BodyStart, Fmt!RenderBody(x)) = BodyState(B, FALSE)
      BY <3>1
    <3>9. Ln!Fold(BodyStart, Fmt!RenderBody(d)) = Ln!Fold(BodyState(B, FALSE), two \o r)
      <4>1. two \o r \in Seq(AllLines)
        BY <3>4, <2>4, ConcatProperties
      <4>2. Ln!Fold(BodyStart, Fmt!RenderBody(x) \o (two \o r)) = Ln!Fold(Ln!Fold(BodyStart, Fmt!RenderBody(x)), two \o r)
        BY <4>1, <2>3, Ln!FoldOfConcat
      <4> QED BY <4>2, <2>3, <3>3, <3>8
    <3>10. Ln!Fold(BodyState(B, FALSE), two \o r) = Ln!Fold(Ln!Fold(BodyState(B, FALSE), two), r)
      BY <3>4, <2>4, Ln!FoldOfConcat
    <3>11. Append(C, e) # <<>>
      <4> DEFINE D == Append(C, e)
      <4>1. Len(D) = Len(C) + 1 /\ Len(C) \in Nat
        BY <2>0, <3>2, AppendProperties, LenProperties
      <4>2. Len(D) # 0
        BY <4>1
      <4> HIDE DEF D
      <4>3. D # <<>>
        BY <4>2, EmptySeq
      <4> QED BY <4>3 DEF D
    <3>12. is(d, Append(C, e))
      BY <3>5, <3>6, <3>7, <3>9, <3>10, <3>11
    <3> HIDE DEF is
    <3> QED BY <3>7, <3>12, <2>5 DEF d
  <2> QED BY <2>6, <2>7
<1>3. Seq(SafeBlocks) \subseteq T
  <2> HIDE DEF T
  <2> QED BY <1>1, <1>2, SeqUpTo
<1>4. bs \in T
  BY <1>3
<1> QED BY <1>4

SafeBody(bs) == \A i \in DOMAIN bs : /\ \A j \in DOMAIN bs[i] : ~Fmt!EscapedAt(bs[i][j])
                                     /\ Fmt!WithoutSeparators(bs[i]) = bs[i]

LEMMA AsASeq == ASSUME NEW S, NEW n \in Nat, NEW q \in [1..n -> S] PROVE q \in Seq(S)
BY SeqDef

\* The blocks of a safe body are safe.
LEMMA SafeBodyBlocks ==
  ASSUME NEW bs \in Seq(Seq(AllLines)), SafeBody(bs)
  PROVE  bs \in Seq(SafeBlocks)
<1>1. Len(bs) \in Nat /\ DOMAIN bs = 1..Len(bs) /\ \A i \in 1..Len(bs) : bs[i] \in Seq(AllLines)
  BY LenProperties, ElementOfSeq
<1>2. ASSUME NEW i \in 1..Len(bs) PROVE bs[i] \in SafeBlocks
  <2> DEFINE b == bs[i]
  <2>1. b \in Seq(AllLines) /\ Fmt!WithoutSeparators(b) = b /\ \A j \in DOMAIN b : ~Fmt!EscapedAt(b[j])
    BY <1>1 DEF SafeBody
  <2> HIDE DEF b
  <2>2. Len(b) \in Nat /\ DOMAIN b = 1..Len(b) /\ \A j \in 1..Len(b) : b[j] \in AllLines
    BY <2>1, LenProperties, ElementOfSeq
  <2>3. \A j \in 1..Len(b) : b[j] \in SafeLines
    BY <2>1, <2>2 DEF SafeLines
  <2>4. b \in Seq(SafeLines)
    <3>1. b = [j \in 1..Len(b) |-> b[j]]
      BY <2>1, <2>2, LenProperties
    <3>2. b \in [1..Len(b) -> SafeLines]
      BY <2>3, <3>1
    <3> QED BY <2>2, <3>2, SeqDef
  <2> QED BY <2>1, <2>4 DEF SafeBlocks, Blocks, b
<1>3. bs = [i \in 1..Len(bs) |-> bs[i]]
  BY <1>1, LenProperties
<1>4. bs \in [1..Len(bs) -> SafeBlocks]
  BY <1>2, <1>3
<1> QED BY <1>1, <1>4, AsASeq

\* A safe body that is rendered is read back as it was.
LEMMA BodyKept ==
  ASSUME NEW bs \in Seq(Seq(AllLines)), bs # <<>>, SafeBody(bs)
  PROVE  Fmt!ParseBody(Fmt!RenderBody(bs)) = bs
<1>1. bs \in Seq(SafeBlocks)
  BY SafeBodyBlocks
<1>2. PICK B \in Seq(Blocks) : /\ B # <<>> /\ ReadAs(B, bs)
                               /\ Ln!Fold(BodyStart, Fmt!RenderBody(bs)) = BodyState(B, FALSE)
  BY <1>1, BodyRead
<1> DEFINE x == [i \in DOMAIN B |-> Fmt!WithoutSeparators(B[i])]
<1>3. Fmt!ParseBody(Fmt!RenderBody(bs)) = x
  <2>1. Fmt!FoldLeft(Fmt!LineStep, [blocks |-> << <<>> >>, bad |-> FALSE], Fmt!RenderBody(bs)) = BodyState(B, FALSE)
    BY <1>2, LinesInLoop DEF BodyStart, BodyState
  <2>2. BodyState(B, FALSE).blocks = B /\ BodyState(B, FALSE).bad = FALSE
    BY DEF BodyState
  <2> QED BY <2>1, <2>2 DEF Fmt!ParseBody
<1>4. Len(bs) \in Nat /\ Len(B) = Len(bs) /\ DOMAIN B = 1..Len(bs)
      /\ \A i \in 1..Len(bs) : Fmt!WithoutSeparators(B[i]) = bs[i]
  BY <1>2, LenProperties DEF ReadAs
<1>5. bs = [i \in 1..Len(bs) |-> bs[i]]
  BY LenProperties
<1>6. x = [i \in 1..Len(bs) |-> bs[i]]
  BY <1>4
<1> QED BY <1>3, <1>5, <1>6

--------------------------------------------------------------------------
(* Line breaks.                                                            *)

Texted == Alphabet \union Fmt!TextChars
SyntaxMarks == {Fmt!Quote, Fmt!Backslash, "comma", "space"} \union Fmt!Keys

LEMMA AlphabetsOf ==
  /\ Texted \ {Fmt!Break} = Alphabet /\ SyntaxMarks \subseteq Alphabet
  /\ Alphabet \subseteq Texted /\ SyntaxMarks \subseteq Texted /\ Fmt!TextChars \subseteq Texted
<1>1. Fmt!Break \notin Alphabet
  BY DEF Alphabet, Fmt!Break, Fmt!Keys
<1>2. SyntaxMarks \subseteq Alphabet
  BY Characters DEF SyntaxMarks, Fmt!Keys
<1> QED BY <1>1, <1>2 DEF Texted, Alphabet

\* A text without a line break is one line.
LEMMA OneLine ==
  ASSUME NEW s \in Seq(Alphabet)
  PROVE  Fmt!FirstLine(s) = s /\ Fmt!GoOnAsHeaders(s) /\ Fmt!GoOnAsBody(s)
<1>1. Fmt!Breaks(s) = {}
  BY WithoutBreak DEF Fmt!Breaks, Fmt!Has, Fmt!Range
<1>2. Fmt!LaterLines(s) = {}
  BY <1>1 DEF Fmt!LaterLines
<1> QED BY <1>1, <1>2 DEF Fmt!FirstLine, Fmt!GoOnAsHeaders, Fmt!GoOnAsBody

\* A text without a line break is over the characters of a line.
LEMMA OfOneLine ==
  ASSUME NEW v \in Seq(Texted), ~Fmt!Has(v, Fmt!Break)
  PROVE  v \in Seq(Alphabet)
<1>1. \A i \in 1..Len(v) : v[i] \in Texted /\ v[i] # Fmt!Break
  BY LenProperties, ElementOfSeq DEF Fmt!Has, Fmt!Range
<1>2. v \in [1..Len(v) -> Alphabet] /\ Len(v) \in Nat
  BY <1>1, AlphabetsOf, LenProperties
<1> QED BY <1>2, SeqDef

\* And so is the first line of any text.
LEMMA FirstLineType ==
  ASSUME NEW s \in Seq(Texted) PROVE Fmt!FirstLine(s) \in Seq(Alphabet)
<1> DEFINE here == Fmt!Breaks(s)
           m == Fmt!Min(here)
<1>1. Len(s) \in Nat /\ DOMAIN s = 1..Len(s) /\ \A i \in 1..Len(s) : s[i] \in Texted
  BY LenProperties, ElementOfSeq
<1>2. here = {i \in 1..Len(s) : s[i] = Fmt!Break}
  BY <1>1 DEF Fmt!Breaks
<1>3. CASE here = {}
  <2>1. ~Fmt!Has(s, Fmt!Break)
    BY <1>1, <1>2, <1>3 DEF Fmt!Has, Fmt!Range
  <2> QED BY <1>3, <2>1, OfOneLine DEF Fmt!FirstLine
<1>4. CASE here # {}
  <2> HIDE DEF here
  <2>1. here \subseteq Nat
    BY <1>1, <1>2
  <2>2. m \in here /\ \A y \in here : m <= y
    BY <1>4, <2>1, MinIsLeast
  <2> HIDE DEF m
  <2>3. \A i \in 1..(m - 1) : s[i] \in Alphabet
    <3>1. ASSUME NEW i \in 1..(m - 1) PROVE s[i] \in Alphabet
      <4>1. i \in 1..Len(s) /\ ~(m <= i)
        BY <1>1, <1>2, <2>2
      <4>2. s[i] \in Texted /\ s[i] # Fmt!Break
        BY <1>1, <1>2, <2>2, <4>1
      <4> QED BY <4>2, AlphabetsOf
    <3> QED BY <3>1
  <2>4. 1 \in Int /\ m - 1 \in Int
    BY <2>1, <2>2
  <2>5. SubSeq(s, 1, m - 1) \in Seq(Alphabet)
    BY <2>3, <2>4, SubSeqProperties
  <2> QED BY <1>4, <2>5 DEF Fmt!FirstLine, here, m
<1> QED BY <1>3, <1>4

\* Whatever a text's characters are, a rendered one adds only marks.
LEMMA WrappedOver ==
  ASSUME NEW v \in Seq(Texted) PROVE Fmt!Wrapped(v) \in Seq(Texted)
<1> DEFINE r == [i \in DOMAIN v |-> Quoted(v[i])]
           q == <<Fmt!Quote>>
           e == Fmt!Escaped(v)
<1>1. Len(v) \in Nat /\ DOMAIN v = 1..Len(v) /\ \A i \in 1..Len(v) : v[i] \in Texted
  BY LenProperties, ElementOfSeq
<1>2. Fmt!Quote \in Texted /\ Fmt!Backslash \in Texted
  BY AlphabetsOf DEF SyntaxMarks
<1>3. \A c \in Texted : Quoted(c) \in Seq(Texted)
  BY <1>2 DEF Quoted
<1>4. r \in [1..Len(v) -> Seq(Texted)]
  BY <1>1, <1>3
<1>5. r \in Seq(Seq(Texted))
  BY <1>1, <1>4, SeqDef
<1>6. e = Fmt!FlattenSeq(r)
  BY DEF Fmt!Escaped, Quoted
<1> HIDE DEF r, e
<1>7. e \in Seq(Texted)
  BY <1>5, <1>6, FmtFlattenType
<1>8. q \in Seq(Texted)
  BY <1>2
<1>9. Fmt!Wrapped(v) = (q \o e) \o q
  BY DEF Fmt!Wrapped, e
<1> HIDE DEF q
<1>10. q \o e \in Seq(Texted)
  BY <1>7, <1>8, ConcatProperties
<1>11. (q \o e) \o q \in Seq(Texted)
  BY <1>8, <1>10, ConcatProperties
<1> QED BY <1>9, <1>11

LEMMA EscapeValueOver == ASSUME NEW v \in Seq(Texted) PROVE Fmt!EscapeValue(v) \in Seq(Texted)
BY WrappedOver DEF Fmt!EscapeValue

LEMMA RenderTagOver == ASSUME NEW t \in Seq(Texted) PROVE Fmt!RenderTag(t) \in Seq(Texted)
BY WrappedOver DEF Fmt!RenderTag

LEMMA RenderTagsOver ==
  ASSUME NEW ts \in Seq(Seq(Texted)) PROVE Fmt!RenderTags(ts) \in Seq(Texted)
<1> DEFINE sep(i) == IF i = 1 THEN <<>> ELSE <<"comma">>
           r == [i \in DOMAIN ts |-> sep(i) \o Fmt!RenderTag(ts[i])]
<1>1. Len(ts) \in Nat /\ DOMAIN ts = 1..Len(ts) /\ \A i \in 1..Len(ts) : ts[i] \in Seq(Texted)
  BY LenProperties, ElementOfSeq
<1>2. \A i : sep(i) \in Seq(Texted)
  <2>1. <<>> \in Seq(Texted) /\ <<"comma">> \in Seq(Texted)
    BY EmptySeq, AlphabetsOf DEF SyntaxMarks
  <2> QED BY <2>1
<1>3. Fmt!RenderTags(ts) = Fmt!FlattenSeq(r)
  BY DEF Fmt!RenderTags
<1> HIDE DEF sep
<1>4. ASSUME NEW i \in 1..Len(ts) PROVE sep(i) \o Fmt!RenderTag(ts[i]) \in Seq(Texted)
  <2>1. Fmt!RenderTag(ts[i]) \in Seq(Texted)
    BY <1>1, RenderTagOver
  <2> QED BY <1>2, <2>1, ConcatProperties
<1>5. r \in [1..Len(ts) -> Seq(Texted)]
  BY <1>1, <1>4
<1>6. r \in Seq(Seq(Texted))
  BY <1>1, <1>5, SeqDef
<1> HIDE DEF r
<1> QED BY <1>3, <1>6, FmtFlattenType

LEMMA AttrsOver ==
  ASSUME NEW x \in Seq(Texted), NEW y \in Seq(Texted)
  PROVE  <<"relation=">> \o x \o <<"space", "target=">> \o y \in Seq(Texted)
<1> DEFINE a == <<"relation=">>  b == <<"space", "target=">>
<1>1. a \in Seq(Texted) /\ b \in Seq(Texted)
  <2>1. "relation=" \in Texted /\ "target=" \in Texted /\ "space" \in Texted
    BY AlphabetsOf DEF SyntaxMarks, Fmt!Keys
  <2> QED BY <2>1
<1> HIDE DEF a, b
<1>2. a \o x \in Seq(Texted)
  BY <1>1, ConcatProperties
<1>3. (a \o x) \o b \in Seq(Texted)
  BY <1>1, <1>2, ConcatProperties
<1>4. ((a \o x) \o b) \o y \in Seq(Texted)
  BY <1>3, ConcatProperties
<1> QED BY <1>4 DEF a, b

LEMMA RenderAttrsOver ==
  ASSUME NEW d, d["relation="] \in Seq(Texted), d["target="] \in Seq(Texted)
  PROVE  Fmt!RenderAttrs(d) \in Seq(Texted)
BY EscapeValueOver, AttrsOver DEF Fmt!RenderAttrs

--------------------------------------------------------------------------
(* Sections and documents.                                                 *)

ValueDocs == {Fmt!Section("value", v) : v \in Seq(Texted) \ {Unreadable}}
TagDocs == {Fmt!Section("tags", ts) : ts \in Seq(Seq(Texted))}
AttrTexts == {d \in [Fmt!Keys -> Seq(Texted)] : \A k \in Fmt!Keys : d[k] # Unreadable}
AttrDocs == {Fmt!Section("attrs", d) : d \in AttrTexts}
Bodies == Seq(Seq(AllLines)) \ {<<>>}
BodyDocs == {Fmt!Section("body", bs) : bs \in Bodies}
Docs == ValueDocs \union TagDocs \union AttrDocs \union BodyDocs

Sections == {Fmt!Section(k, s) : k \in {"value", "tags", "attrs"}, s \in Seq(Texted)}
              \union {Fmt!Section("body", s) : s \in Seq(AllLines)}

FormatInv ==
  /\ section = Fmt!Nothing \/ section \in Sections
  /\ \/ from = "none" /\ doc = Fmt!Nothing
     \/ from = "client" /\ doc \in Docs
     \/ from = "file" /\ doc \in Docs /\ (doc.kind = "body" => SafeBody(doc.text))

LEMMA SectionParts == \A k, x : Fmt!Section(k, x).kind = k /\ Fmt!Section(k, x).text = x
BY DEF Fmt!Section

LEMMA RenderedDocs == ASSUME NEW d \in Docs PROVE Fmt!Render(d) \in Sections
<1>1. CASE d \in ValueDocs
  <2>1. PICK v \in Seq(Texted) : d = Fmt!Section("value", v)
    BY <1>1 DEF ValueDocs
  <2>2. Fmt!Render(d) = Fmt!Section("value", Fmt!EscapeValue(v))
    BY <2>1, SectionParts DEF Fmt!Render
  <2> QED BY <2>2, EscapeValueOver DEF Sections
<1>2. CASE d \in TagDocs
  <2>1. PICK ts \in Seq(Seq(Texted)) : d = Fmt!Section("tags", ts)
    BY <1>2 DEF TagDocs
  <2>2. Fmt!Render(d) = Fmt!Section("tags", Fmt!RenderTags(ts))
    BY <2>1, SectionParts DEF Fmt!Render
  <2> QED BY <2>2, RenderTagsOver DEF Sections
<1>3. CASE d \in AttrDocs
  <2>1. PICK x \in AttrTexts : d = Fmt!Section("attrs", x)
    BY <1>3 DEF AttrDocs
  <2>2. Fmt!Render(d) = Fmt!Section("attrs", Fmt!RenderAttrs(x))
    BY <2>1, SectionParts DEF Fmt!Render
  <2>3. x["relation="] \in Seq(Texted) /\ x["target="] \in Seq(Texted)
    BY DEF AttrTexts, Fmt!Keys
  <2> QED BY <2>2, <2>3, RenderAttrsOver DEF Sections
<1>4. CASE d \in BodyDocs
  <2>1. PICK bs \in Bodies : d = Fmt!Section("body", bs)
    BY <1>4 DEF BodyDocs
  <2>2. Fmt!Render(d) = Fmt!Section("body", Fmt!RenderBody(bs))
    BY <2>1, SectionParts DEF Fmt!Render
  <2>3. Fmt!RenderBody(bs) \in Seq(AllLines)
    BY RenderBodyType DEF Bodies
  <2> QED BY <2>2, <2>3 DEF Sections
<1> QED BY <1>1, <1>2, <1>3, <1>4 DEF Docs

\* A body that was once read from a file is safe.
LEMMA ParsedBodiesAreSafe ==
  ASSUME NEW s \in Seq(AllLines), Fmt!ParseBody(s) # Unreadable
  PROVE  Fmt!ParseBody(s) \in Bodies /\ SafeBody(Fmt!ParseBody(s))
<1> DEFINE bs == Fmt!ParseBody(s)
<1>1. /\ bs \in Seq(Blocks) /\ bs # <<>>
      /\ \A i \in DOMAIN bs : Fmt!WithoutSeparators(bs[i]) = bs[i]
  BY ParseBodyType
<1> HIDE DEF bs
<1>2. bs \in Bodies
  BY <1>1, BlocksAreLines DEF Bodies
<1>3. ASSUME NEW i \in DOMAIN bs PROVE \A j \in DOMAIN bs[i] : ~Fmt!EscapedAt(bs[i][j])
  <2> DEFINE b == bs[i]
  <2>1. b \in Seq(SafeLines)
    <3>1. i \in 1..Len(bs)
      BY <1>1, LenProperties
    <3> QED BY <3>1, <1>1, ElementOfSeq DEF Blocks
  <2> HIDE DEF b
  <2>2. \A j \in DOMAIN b : b[j] \in SafeLines
    BY <2>1, LenProperties, ElementOfSeq
  <2> QED BY <2>2 DEF SafeLines, b
<1> QED BY <1>1, <1>2, <1>3 DEF SafeBody, bs

LEMMA LinesAreTexts == Seq(Alphabet) \subseteq Seq(Texted) /\ Seq(Seq(Alphabet)) \subseteq Seq(Seq(Texted))
<1>1. Seq(Alphabet) \subseteq Seq(Texted)
  BY AlphabetsOf, SeqMonotonic
<1> QED BY <1>1, SeqMonotonic

\* Documents that are read from any file are documents.
LEMMA ParsedSections ==
  ASSUME NEW f \in Sections, Fmt!Readable(Fmt!Parse(f))
  PROVE  Fmt!Parse(f) \in Docs /\ (Fmt!Parse(f).kind = "body" => SafeBody(Fmt!Parse(f).text))
<1>1. ASSUME NEW s \in Seq(Texted), f = Fmt!Section("value", s)
      PROVE  Fmt!Parse(f) \in ValueDocs /\ Fmt!Parse(f).kind = "value"
  <2> DEFINE t == Fmt!FirstLine(s)
  <2>1. Fmt!Parse(f) = Fmt!Section("value", IF Fmt!GoOnAsHeaders(s) THEN Fmt!UnescapeValue(t) ELSE Unreadable)
    BY <1>1, SectionParts DEF Fmt!Parse
  <2>2. t \in Seq(Alphabet)
    BY FirstLineType
  <2> HIDE DEF t
  <2>3. Fmt!UnescapeValue(t) # Unreadable /\ Fmt!Parse(f) = Fmt!Section("value", Fmt!UnescapeValue(t))
    BY <2>1, SectionParts DEF Fmt!Readable
  <2>4. Fmt!UnescapeValue(t) \in Seq(Texted)
    BY <2>2, <2>3, UnescapeType, LinesAreTexts
  <2> QED BY <2>3, <2>4, SectionParts DEF ValueDocs
<1>2. ASSUME NEW s \in Seq(Texted), f = Fmt!Section("tags", s)
      PROVE  Fmt!Parse(f) \in TagDocs /\ Fmt!Parse(f).kind = "tags"
  <2> DEFINE t == Fmt!FirstLine(s)
  <2>1. Fmt!Parse(f) = Fmt!Section("tags", IF Fmt!GoOnAsHeaders(s) THEN Fmt!ParseTags(t) ELSE Unreadable)
    BY <1>2, SectionParts DEF Fmt!Parse
  <2>2. t \in Seq(Alphabet)
    BY FirstLineType
  <2> HIDE DEF t
  <2>3. Fmt!ParseTags(t) # Unreadable /\ Fmt!Parse(f) = Fmt!Section("tags", Fmt!ParseTags(t))
    BY <2>1, SectionParts DEF Fmt!Readable
  <2>4. Fmt!ParseTags(t) \in Seq(Seq(Texted))
    BY <2>2, <2>3, TagsType, LinesAreTexts
  <2> QED BY <2>3, <2>4, SectionParts DEF TagDocs
<1>3. ASSUME NEW s \in Seq(Texted), f = Fmt!Section("attrs", s)
      PROVE  Fmt!Parse(f) \in AttrDocs /\ Fmt!Parse(f).kind = "attrs"
  <2> DEFINE t == Fmt!FirstLine(s)
             d == Fmt!ParseAttrs(t)
  <2>1. Fmt!Parse(f) = Fmt!Section("attrs", IF Fmt!GoOnAsBody(s) THEN d ELSE Unreadable)
    BY <1>3, SectionParts DEF Fmt!Parse
  <2>2. t \in Seq(Alphabet)
    BY FirstLineType
  <2> HIDE DEF t
  <2>3. d # Unreadable /\ Fmt!Parse(f) = Fmt!Section("attrs", d)
    BY <2>1, SectionParts DEF Fmt!Readable
  <2>4. d \in [Fmt!Keys -> Seq(Alphabet)] /\ \A k \in Fmt!Keys : d[k] # Unreadable
    BY <2>2, <2>3, AttrsType
  <2> HIDE DEF d
  <2>5. d \in AttrTexts
    BY <2>4, LinesAreTexts DEF AttrTexts
  <2> QED BY <2>3, <2>5, SectionParts DEF AttrDocs
<1>4. ASSUME NEW s \in Seq(AllLines), f = Fmt!Section("body", s)
      PROVE  Fmt!Parse(f) \in BodyDocs /\ SafeBody(Fmt!Parse(f).text)
  <2>1. Fmt!Parse(f) = Fmt!Section("body", Fmt!ParseBody(s))
    BY <1>4, SectionParts DEF Fmt!Parse
  <2>2. Fmt!ParseBody(s) # Unreadable
    BY <2>1, SectionParts DEF Fmt!Readable
  <2>3. Fmt!ParseBody(s) \in Bodies /\ SafeBody(Fmt!ParseBody(s))
    BY <2>2, ParsedBodiesAreSafe
  <2> QED BY <2>1, <2>3, SectionParts DEF BodyDocs
<1>5. \/ \E s \in Seq(Texted) : f = Fmt!Section("value", s) \/ f = Fmt!Section("tags", s) \/ f = Fmt!Section("attrs", s)
      \/ \E s \in Seq(AllLines) : f = Fmt!Section("body", s)
  BY DEF Sections
<1> QED BY <1>1, <1>2, <1>3, <1>4, <1>5 DEF Docs

\* What ReadBack says of a document, of each kind.
LEMMA DocsKept ==
  ASSUME NEW d \in Docs
  PROVE  /\ Fmt!Safe(d) => Fmt!Kept(d)
         /\ d.kind = "body" /\ SafeBody(d.text) => Fmt!Kept(d)
         /\ d.kind = "value" => (Fmt!Kept(d) <=> Fmt!SafeValue(d.text))
<1>0. \A k, x, y : Fmt!Section(k, x) = Fmt!Section(k, y) <=> x = y
  BY DEF Fmt!Section
<1>1. CASE d \in ValueDocs
  <2>1. PICK v \in Seq(Texted) : v # Unreadable /\ d = Fmt!Section("value", v)
    BY <1>1 DEF ValueDocs
  <2>2. Fmt!Render(d) = Fmt!Section("value", Fmt!EscapeValue(v))
    BY <2>1, SectionParts DEF Fmt!Render
  <2> DEFINE s == Fmt!EscapeValue(v)
             x == IF Fmt!GoOnAsHeaders(s) THEN Fmt!UnescapeValue(Fmt!FirstLine(s)) ELSE Unreadable
  <2>3. Fmt!Parse(Fmt!Render(d)) = Fmt!Section("value", x)
    BY <2>2, SectionParts DEF Fmt!Parse
  <2>4. Fmt!Kept(d) <=> Fmt!SafeValue(v)
    <3>1. Fmt!Kept(d) <=> x = v
      BY <2>1, <2>3, <1>0 DEF Fmt!Kept
    <3>2. CASE Fmt!Has(v, Fmt!Break)
      <4>1. Fmt!FirstLine(s) \in Seq(Alphabet)
        BY EscapeValueOver, FirstLineType
      <4>2. x \in Seq(Alphabet) \/ x = Unreadable
        BY <4>1, UnescapeType
      <4> HIDE DEF x
      <4>3. x # v
        BY <3>2, <4>2, <2>1, WithoutBreak
      <4> QED BY <3>1, <3>2, <4>3 DEF Fmt!SafeValue
    <3>3. CASE ~Fmt!Has(v, Fmt!Break)
      <4>1. v \in Seq(Alphabet)
        BY <3>3, OfOneLine
      <4>2. s \in Seq(Alphabet)
        BY <4>1, EscapeValueType
      <4>3. x = Fmt!UnescapeValue(s)
        BY <4>2, OneLine
      <4> HIDE DEF x
      <4> QED BY <3>1, <4>1, <4>3, ValueKept
    <3> QED BY <3>2, <3>3
  <2>5. d.kind = "value" /\ d.text = v
    BY <2>1, SectionParts
  <2> QED BY <2>4, <2>5 DEF Fmt!Safe
<1>2. CASE d \in TagDocs
  <2>1. PICK ts \in Seq(Seq(Texted)) : d = Fmt!Section("tags", ts)
    BY <1>2 DEF TagDocs
  <2>2. Fmt!Render(d) = Fmt!Section("tags", Fmt!RenderTags(ts))
    BY <2>1, SectionParts DEF Fmt!Render
  <2> DEFINE s == Fmt!RenderTags(ts)
             x == IF Fmt!GoOnAsHeaders(s) THEN Fmt!ParseTags(Fmt!FirstLine(s)) ELSE Unreadable
  <2>3. Fmt!Parse(Fmt!Render(d)) = Fmt!Section("tags", x)
    BY <2>2, SectionParts DEF Fmt!Parse
  <2>4. d.kind = "tags" /\ d.text = ts
    BY <2>1, SectionParts
  <2>5. ASSUME Fmt!Safe(d) PROVE x = ts
    <3>1. \A i \in DOMAIN ts : Fmt!SafeTag(ts[i])
      BY <2>4, <2>5 DEF Fmt!Safe
    <3>2. Len(ts) \in Nat /\ DOMAIN ts = 1..Len(ts) /\ \A i \in 1..Len(ts) : ts[i] \in Seq(Texted)
      BY LenProperties, ElementOfSeq
    <3>3. \A i \in 1..Len(ts) : ts[i] \in Seq(Alphabet)
      BY <3>1, <3>2, OfOneLine DEF Fmt!SafeTag
    <3>4. ts \in Seq(Seq(Alphabet))
      <4>1. ts \in [1..Len(ts) -> Seq(Alphabet)]
        BY <3>2, <3>3
      <4> QED BY <4>1, <3>2, AsASeq
    <3>5. s \in Seq(Alphabet)
      BY <3>4, RenderTagsType
    <3>6. x = Fmt!ParseTags(s)
      BY <3>5, OneLine
    <3> HIDE DEF x
    <3> QED BY <3>1, <3>4, <3>6, TagsKept
  <2> HIDE DEF x
  <2> QED BY <2>1, <2>3, <2>4, <2>5 DEF Fmt!Kept
<1>3. CASE d \in AttrDocs
  <2>1. PICK x \in AttrTexts : d = Fmt!Section("attrs", x)
    BY <1>3 DEF AttrDocs
  <2>2. Fmt!Render(d) = Fmt!Section("attrs", Fmt!RenderAttrs(x))
    BY <2>1, SectionParts DEF Fmt!Render
  <2> DEFINE s == Fmt!RenderAttrs(x)
             y == IF Fmt!GoOnAsBody(s) THEN Fmt!ParseAttrs(Fmt!FirstLine(s)) ELSE Unreadable
  <2>3. Fmt!Parse(Fmt!Render(d)) = Fmt!Section("attrs", y)
    BY <2>2, SectionParts DEF Fmt!Parse
  <2>4. d.kind = "attrs" /\ d.text = x
    BY <2>1, SectionParts
  <2>5. ASSUME Fmt!Safe(d) PROVE y = x
    <3>1. Fmt!SafeAttr(x["relation="]) /\ Fmt!SafeAttr(x["target="])
      BY <2>4, <2>5 DEF Fmt!Safe
    <3>2. x \in [Fmt!Keys -> Seq(Texted)] /\ \A k \in Fmt!Keys : x[k] # Unreadable
      BY DEF AttrTexts
    <3>3. Fmt!Keys = {"relation=", "target="}
      BY DEF Fmt!Keys
    <3>4. \A k \in Fmt!Keys : x[k] \in Seq(Alphabet)
      <4>1. \A k \in Fmt!Keys : x[k] \in Seq(Texted) /\ ~Fmt!Has(x[k], Fmt!Break)
        BY <3>1, <3>2, <3>3 DEF Fmt!SafeAttr, Fmt!SafeValue
      <4> QED BY <4>1, OfOneLine
    <3>5. x \in [Fmt!Keys -> Seq(Alphabet)]
      BY <3>2, <3>4
    <3>6. s \in Seq(Alphabet)
      BY <3>3, <3>4, RenderAttrsType
    <3>7. y = Fmt!ParseAttrs(s)
      BY <3>6, OneLine
    <3> HIDE DEF y
    <3> QED BY <3>1, <3>2, <3>5, <3>7, AttrsKept
  <2> HIDE DEF y
  <2> QED BY <2>1, <2>3, <2>4, <2>5 DEF Fmt!Kept
<1>4. CASE d \in BodyDocs
  <2>1. PICK bs \in Bodies : d = Fmt!Section("body", bs)
    BY <1>4 DEF BodyDocs
  <2>2. Fmt!Render(d) = Fmt!Section("body", Fmt!RenderBody(bs))
    BY <2>1, SectionParts DEF Fmt!Render
  <2>3. Fmt!Parse(Fmt!Render(d)) = Fmt!Section("body", Fmt!ParseBody(Fmt!RenderBody(bs)))
    BY <2>2, SectionParts DEF Fmt!Parse
  <2>4. d.kind = "body" /\ d.text = bs
    BY <2>1, SectionParts
  <2>5. SafeBody(bs) => Fmt!ParseBody(Fmt!RenderBody(bs)) = bs
    BY BodyKept DEF Bodies
  <2>6. Fmt!Safe(d) => SafeBody(bs)
    BY <2>4 DEF Fmt!Safe, SafeBody
  <2> QED BY <2>1, <2>3, <2>4, <2>5, <2>6 DEF Fmt!Kept
<1> QED BY <1>1, <1>2, <1>3, <1>4 DEF Docs

\* The invariant implies that documents are read back.
LEMMA InvReadBack == ASSUME FormatInv PROVE Fmt!ReadBack
<1>1. CASE from = "none" /\ doc = Fmt!Nothing
  <2>1. doc.kind = "none"
    BY <1>1 DEF Fmt!Nothing
  <2>2. ~Fmt!Safe(doc)
    BY <2>1 DEF Fmt!Safe
  <2> QED BY <2>1, <2>2 DEF Fmt!ReadBack, Fmt!SafeKept, Fmt!ValueExact
<1>2. CASE from = "client" /\ doc \in Docs
  BY <1>2, DocsKept DEF Fmt!ReadBack, Fmt!SafeKept, Fmt!ValueExact
<1>3. CASE from = "file" /\ doc \in Docs /\ (doc.kind = "body" => SafeBody(doc.text))
  BY <1>3, DocsKept DEF Fmt!ReadBack, Fmt!SafeKept, Fmt!ValueExact
<1> QED BY <1>1, <1>2, <1>3 DEF FormatInv

LEMMA BoundedSeqs ==
  \A S, n : Fmt!SeqOf(S, n) \subseteq Seq(S)
<1>1. ASSUME NEW S, NEW n, NEW s \in Fmt!SeqOf(S, n) PROVE s \in Seq(S)
  <2>1. PICK m \in 0..n : s \in [1..m -> S]
    BY DEF Fmt!SeqOf
  <2>2. m \in Nat
    BY <2>1
  <2> QED BY <2>1, <2>2, AsASeq
<1> QED BY <1>1

LEMMA RawTexts == \A n : Fmt!Raw(n) \subseteq Seq(Texted) /\ Fmt!Texts(n) \subseteq Seq(Texted)
<1>1. \A n : Fmt!Raw(n) \subseteq Seq(Fmt!Chars) /\ Fmt!Texts(n) \subseteq Seq(Fmt!TextChars)
  BY BoundedSeqs DEF Fmt!Raw, Fmt!Texts
<1>2. Seq(Fmt!TextChars) \subseteq Seq(Texted)
  BY AlphabetsOf, SeqMonotonic
<1>3. Seq(Fmt!Chars) \subseteq Seq(Fmt!TextChars)
  <2>1. Fmt!Chars \subseteq Fmt!TextChars
    BY DEF Fmt!TextChars
  <2> QED BY <2>1, SeqMonotonic
<1> QED BY <1>1, <1>2, <1>3

LEMMA LinesAreLines == Fmt!SeqOf(Fmt!Lines, MaxLines) \subseteq Seq(AllLines)
<1>1. Fmt!Lines \subseteq AllLines
  BY BoundedSeqs DEF Fmt!Lines, AllLines
<1>2. Fmt!SeqOf(Fmt!Lines, MaxLines) \subseteq Seq(Fmt!Lines)
  BY BoundedSeqs
<1> QED BY <1>1, <1>2, SeqMonotonic

\* A client's attributes are texts, and none of them is what stands for an unreadable one.
LEMMA ClientAttrs ==
  ASSUME Fmt!FormatAssumption, NEW attrs \in [Fmt!Keys -> Fmt!Texts(MaxText - 1)]
  PROVE  attrs \in AttrTexts
<1>1. Fmt!Texts(MaxText - 1) \subseteq Fmt!Texts(MaxText)
  <2>1. ASSUME NEW s \in Fmt!Texts(MaxText - 1) PROVE s \in Fmt!Texts(MaxText)
    <3>1. PICK m \in 0..(MaxText - 1) : s \in [1..m -> Fmt!TextChars]
      BY DEF Fmt!Texts, Fmt!SeqOf
    <3>2. m \in 0..MaxText
      BY <3>1 DEF Fmt!FormatAssumption
    <3> QED BY <3>1, <3>2 DEF Fmt!Texts, Fmt!SeqOf
  <2> QED BY <2>1
<1>2. \A k \in Fmt!Keys : attrs[k] # Unreadable
  BY <1>1 DEF Fmt!FormatAssumption
<1>3. attrs \in [Fmt!Keys -> Seq(Texted)]
  BY RawTexts
<1> QED BY <1>2, <1>3 DEF AttrTexts

\* Files that a person writes are files.
LEMMA WrittenSections ==
  ASSUME Fmt!Write PROVE section' \in Sections /\ UNCHANGED <<doc, from>>
<1>1. ASSUME NEW k \in {"value", "tags"}, NEW s \in Fmt!Raw(MaxRaw), section' = Fmt!Section(k, s)
      PROVE  section' \in Sections
  BY <1>1, RawTexts DEF Sections
<1>2. ASSUME NEW s \in Fmt!Raw(MaxRaw - 1), NEW t \in Fmt!Raw(MaxRaw - 2),
             section' = Fmt!Section("attrs", <<"relation=">> \o s \o <<"space", "target=">> \o t)
      PROVE  section' \in Sections
  <2> DEFINE written == <<"relation=">> \o s \o <<"space", "target=">> \o t
  <2>1. s \in Seq(Texted) /\ t \in Seq(Texted)
    BY RawTexts
  <2>2. written \in Seq(Texted) /\ section' = Fmt!Section("attrs", written)
    BY <1>2, <2>1, AttrsOver
  <2> HIDE DEF written
  <2> QED BY <2>2 DEF Sections
<1>3. ASSUME NEW lines \in Fmt!SeqOf(Fmt!Lines, MaxLines), section' = Fmt!Section("body", lines)
      PROVE  section' \in Sections
  BY <1>3, LinesAreLines DEF Sections
<1> QED BY <1>1, <1>2, <1>3 DEF Fmt!Write

\* Documents that a client sends are documents.
LEMMA CreatedDocs ==
  ASSUME Fmt!FormatAssumption, Fmt!Create PROVE doc' \in Docs /\ from' = "client" /\ UNCHANGED section
<1>1. ASSUME NEW v \in Fmt!Texts(MaxText), doc' = Fmt!Section("value", v) PROVE doc' \in Docs
  <2>1. v \in Seq(Texted) /\ v # Unreadable
    BY RawTexts DEF Fmt!FormatAssumption
  <2> QED BY <1>1, <2>1 DEF Docs, ValueDocs
<1>2. ASSUME NEW ts \in Fmt!SeqOf(Fmt!Texts(MaxText - 1), 2), doc' = Fmt!Section("tags", ts) PROVE doc' \in Docs
  <2>1. ts \in Seq(Fmt!Texts(MaxText - 1))
    BY BoundedSeqs
  <2>2. ts \in Seq(Seq(Texted))
    BY <2>1, RawTexts, SeqMonotonic
  <2> QED BY <1>2, <2>2 DEF Docs, TagDocs
<1>3. ASSUME NEW attrs \in [Fmt!Keys -> Fmt!Texts(MaxText - 1)], doc' = Fmt!Section("attrs", attrs) PROVE doc' \in Docs
  BY <1>3, ClientAttrs DEF Docs, AttrDocs
<1>4. ASSUME NEW lines \in Fmt!SeqOf(Fmt!Lines, MaxLines) \ {<< <<>> >>}, doc' = Fmt!Section("body", <<lines>>) PROVE doc' \in Docs
  <2>1. lines \in Seq(AllLines)
    BY LinesAreLines
  <2>2. <<lines>> \in Bodies
    BY <2>1 DEF Bodies
  <2> QED BY <1>4, <2>2 DEF Docs, BodyDocs
<1> QED BY <1>1, <1>2, <1>3, <1>4 DEF Fmt!Create

\* The invariant is inductive: files and rows hold sections of any length, and a body
\* that was read from a file is safe.
LEMMA FormatInvariance ==
  ASSUME Fmt!FormatAssumption
  PROVE  /\ Fmt!Init => FormatInv
         /\ FormatInv /\ [Fmt!Next]_Fmt!vars => FormatInv'
         /\ FormatInv => Fmt!ReadBack
<1>1. Fmt!Init => FormatInv
  BY DEF Fmt!Init, FormatInv
<1>2. ASSUME FormatInv, Fmt!Write PROVE FormatInv'
  BY <1>2, WrittenSections DEF FormatInv
<1>3. ASSUME FormatInv, Fmt!Create PROVE FormatInv'
  BY <1>3, CreatedDocs DEF FormatInv
<1>4. ASSUME FormatInv, Fmt!Rerender PROVE FormatInv'
  <2>1. doc \in Docs
    BY <1>4 DEF FormatInv, Fmt!Rerender
  <2> QED BY <1>4, <2>1, RenderedDocs DEF FormatInv, Fmt!Rerender
<1>5. ASSUME FormatInv, Fmt!Index PROVE FormatInv'
  <2>1. section \in Sections /\ Fmt!Readable(Fmt!Parse(section))
    BY <1>5 DEF FormatInv, Fmt!Index
  <2>2. doc' \in Docs /\ (doc'.kind = "body" => SafeBody(doc'.text)) /\ from' = "file" /\ section' = section
    BY <1>5, <2>1, ParsedSections DEF Fmt!Index
  <2> QED BY <2>1, <2>2 DEF FormatInv
<1>6. ASSUME FormatInv, UNCHANGED Fmt!vars PROVE FormatInv'
  BY <1>6 DEF FormatInv, Fmt!vars
<1>7. FormatInv /\ [Fmt!Next]_Fmt!vars => FormatInv'
  BY <1>2, <1>3, <1>4, <1>5, <1>6 DEF Fmt!Next
<1> QED BY <1>1, <1>7, InvReadBack

-----------------------------------------------------------------------------
(* Beside the parts that MCMemorySignals runs with them.                   *)

\* Chunking: for every target and every text, no chunk is longer than the target, the
\* chunks are the pieces of the text in its order, and no sentence or paragraph that
\* fits into a chunk is divided (chunk_text).
THEOREM ChunksAlwaysRight == MemorySpec => []ChunksRight
<1>1. MemoryInit => text \in Chk!BlockTexts
  BY MemoryAssumption, ChunksInvariance DEF MemoryInit
<1>2. text \in Chk!BlockTexts /\ [MemoryNext]_all => (text \in Chk!BlockTexts)'
  <2>1. UNCHANGED all => UNCHANGED text
    BY DEF all
  <2>2. MemoryNext => Chk!Next \/ UNCHANGED text
    BY DEF MemoryNext
  <2> QED BY <2>1, <2>2, MemoryAssumption, ChunksInvariance
<1>3. text \in Chk!BlockTexts => ChunksRight
  BY MemoryAssumption, ChunksInvariance DEF ChunksRight
<1> QED BY <1>1, <1>2, <1>3, PTL DEF MemorySpec

\* .nomai: whatever is written into a file or sent by a client, of any length, and
\* however often it is rendered and parsed: a safe document is read back as it was, and
\* a header value is exactly when it is safe (render, parse).
THEOREM AlwaysReadBack == MemorySpec => []ReadBack
<1>1. MemoryInit => FormatInv
  BY MemoryAssumption, FormatInvariance DEF MemoryInit
<1>2. FormatInv /\ [MemoryNext]_all => FormatInv'
  <2>1. UNCHANGED all => UNCHANGED Fmt!vars
    BY DEF all, fmt, Fmt!vars
  <2>2. MemoryNext => Fmt!Next \/ UNCHANGED Fmt!vars
    BY DEF MemoryNext, fmt, Fmt!vars
  <2> QED BY <2>1, <2>2, MemoryAssumption, FormatInvariance
<1>3. FormatInv => ReadBack
  BY MemoryAssumption, FormatInvariance DEF ReadBack
<1> QED BY <1>1, <1>2, <1>3, PTL DEF MemorySpec
=============================================================================
