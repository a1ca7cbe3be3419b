------------------------------ MODULE Folding ------------------------------
(* Induction on numbers in the form in which the provers can use it, with a   *)
(* set in the place of a predicate, and what it shows of FoldLeft: that the   *)
(* fold of a sequence is the last of the values that a loop goes through.  Op *)
(* is a constant, so that a module gets these facts for an operator of its    *)
(* own by instantiation; Fold and Greatest are FoldLeft and Max as            *)
(* SequencesExt and FiniteSetsExt define them, without the modules, because   *)
(* an instance carries everything that this module extends.                   *)
EXTENDS Integers, Sequences, WellFoundedInduction, TLAPS

CONSTANT Op(_, _)
-----------------------------------------------------------------------------
\* Numbers: a set of them that is not empty has a least one.
LEMMA LeastNumber ==
  ASSUME NEW T, T \subseteq Nat, T # {}
  PROVE  \E x \in T : \A y \in T : x <= y
<1> DEFINE R == {ss \in Nat \X Nat : ss[1] < ss[2]}
<1>1. IsWellFoundedOn(R, Nat)
  BY NatLessThanWellFounded DEF OpToRel
<1>2. PICK x \in T : \A y \in T : <<y, x>> \notin R
  BY <1>1, WFMin
<1>3. ASSUME NEW y \in T PROVE x <= y
  <2>1. <<y, x>> \in Nat \X Nat /\ <<y, x>>[1] = y /\ <<y, x>>[2] = x
    OBVIOUS
  <2> QED BY <1>2, <2>1
<1> QED BY <1>3

\* Numbers: what holds of 0, and with each number up to n of the next, holds up to n.
LEMMA UpTo ==
  ASSUME NEW n \in Nat, NEW T, 0 \in T, \A i \in 1..n : i - 1 \in T => i \in T
  PROVE  0..n \subseteq T
<1> DEFINE Left == {i \in 0..n : i \notin T}
<1>1. SUFFICES ASSUME Left # {} PROVE FALSE
  OBVIOUS
<1>2. PICK x \in Left : \A y \in Left : x <= y
  <2>1. Left \subseteq Nat
    OBVIOUS
  <2> QED BY <1>1, <2>1, LeastNumber
<1>3. x \in 1..n /\ x - 1 \in 0..n /\ x - 1 \notin Left
  BY <1>2
<1> QED BY <1>3

Greatest(s) == CHOOSE x \in s : \A y \in s : x >= y

\* Numbers: a set of them that is bounded has a greatest one.
LEMMA GreatestNumber ==
  ASSUME NEW n \in Nat, NEW s, s \subseteq 1..n, s # {}
  PROVE  Greatest(s) \in s /\ \A y \in s : y <= Greatest(s)
<1> DEFINE U == {m \in Nat : \A y \in s : y <= m}
<1>1. n \in U /\ U \subseteq Nat
  OBVIOUS
<1>2. PICK u \in U : \A m \in U : u <= m
  <2>1. U # {}
    BY <1>1
  <2> QED BY <1>1, <2>1, LeastNumber
<1>3. u \in s
  <2>1. SUFFICES ASSUME u \notin s PROVE FALSE
    OBVIOUS
  <2>2. \A y \in s : y \in 1..n /\ y < u
    BY <1>2, <2>1
  <2>3. u - 1 \in Nat /\ \A y \in s : y <= u - 1
    <3>1. PICK y \in s : TRUE
      OBVIOUS
    <3>2. u \in Nat /\ y \in 1..n /\ y < u
      BY <2>2, <3>1
    <3> QED BY <3>2, <2>2
  <2>4. u - 1 \in U
    BY <2>3
  <2> QED BY <2>4, <1>2
<1>4. \A y \in s : y <= u
  OBVIOUS
<1>5. \A x \in s : (\A y \in s : x >= y) => x = u
  <2>1. ASSUME NEW x \in s, \A y \in s : x >= y PROVE x = u
    <3>1. x \in Nat /\ u \in Nat /\ x >= u /\ x <= u
      BY <1>3, <1>4, <2>1
    <3> QED BY <3>1
  <2> QED BY <2>1
<1>6. \A y \in s : u >= y
  <2>1. ASSUME NEW y \in s PROVE u >= y
    <3>1. y \in Nat /\ u \in Nat /\ y <= u
      BY <1>4
    <3> QED BY <3>1
  <2> QED BY <2>1
<1>7. \E x \in s : \A y \in s : x >= y
  BY <1>3, <1>6
<1>8. Greatest(s) \in s /\ \A y \in s : Greatest(s) >= y
  BY <1>7 DEF Greatest
<1> QED BY <1>5, <1>8, <1>4
-----------------------------------------------------------------------------
(* Folds. *)

\* The function of the definition of a fold, on all sets of positions up to n.
IsIter(g, base, q, n) ==
  g = [s \in SUBSET (1..n) |-> IF s = {} THEN base ELSE Op(g[s \ {Greatest(s)}], q[Greatest(s)])]

\* Folds: that function exists, because a position more only asks for sets without it.
LEMMA IterExists ==
  ASSUME NEW base, NEW q, NEW n \in Nat
  PROVE  \E g : IsIter(g, base, q, n)
<1> DEFINE T == {m \in 0..n : \E g : IsIter(g, base, q, m)}
<1>1. 0 \in T
  <2>1. SUBSET (1..0) = {{}}
    <3>1. 1..0 = {}
      OBVIOUS
    <3> QED BY <3>1
  <2>2. IsIter([s \in SUBSET (1..0) |-> base], base, q, 0)
    BY <2>1 DEF IsIter
  <2> QED BY <2>2
<1>2. ASSUME NEW k \in 1..n, k - 1 \in T PROVE k \in T
  <2>1. PICK g : IsIter(g, base, q, k - 1)
    BY <1>2
  <2> DEFINE h == [s \in SUBSET (1..k) |-> IF k \in s THEN Op(g[s \ {k}], q[k]) ELSE g[s]]
             value(s) == IF s = {} THEN base ELSE Op(h[s \ {Greatest(s)}], q[Greatest(s)])
  <2>2. ASSUME NEW s \in SUBSET (1..k) PROVE h[s] = value(s)
    <3>1. CASE k \in s
      <4>1. Greatest(s) = k
        <5>1. Greatest(s) \in s /\ \A y \in s : y <= Greatest(s)
          <6>1. k \in Nat /\ s \subseteq 1..k /\ s # {}
            BY <3>1
          <6> QED BY <6>1, GreatestNumber
        <5>2. Greatest(s) \in 1..k /\ k <= Greatest(s)
          BY <5>1, <3>1
        <5> QED BY <5>2
      <4>2. s \ {k} \in SUBSET (1..k) /\ k \notin s \ {k}
        OBVIOUS
      <4>3. h[s \ {k}] = g[s \ {k}]
        BY <4>2
      <4>4. h[s] = Op(g[s \ {k}], q[k])
        BY <3>1
      <4> QED BY <4>1, <4>3, <4>4, <3>1
    <3>2. CASE k \notin s
      <4>1. s \in SUBSET (1..(k-1))
        BY <3>2
      <4>2. h[s] = g[s]
        BY <3>2
      <4>3. CASE s = {}
        BY <4>1, <4>2, <4>3, <2>1 DEF IsIter
      <4>4. CASE s # {}
        <5>1. s \ {Greatest(s)} \in SUBSET (1..k) /\ k \notin s \ {Greatest(s)}
          BY <3>2
        <5>2. h[s \ {Greatest(s)}] = g[s \ {Greatest(s)}]
          BY <5>1
        <5>3. g[s] = Op(g[s \ {Greatest(s)}], q[Greatest(s)])
          BY <4>4, <4>1, <2>1 DEF IsIter
        <5> QED BY <5>2, <5>3, <4>2, <4>4
      <4> QED BY <4>3, <4>4
    <3> QED BY <3>1, <3>2
  <2>3. h = [s \in SUBSET (1..k) |-> h[s]]
    OBVIOUS
  <2> HIDE DEF h
  <2>4. [s \in SUBSET (1..k) |-> h[s]] = [s \in SUBSET (1..k) |-> value(s)]
    BY <2>2
  <2>5. IsIter(h, base, q, k)
    BY <2>3, <2>4 DEF IsIter
  <2> QED BY <2>5
<1>3. 0..n \subseteq T
  <2> HIDE DEF T
  <2> QED BY <1>1, <1>2, UpTo
<1> QED BY <1>3

\* Folds: the fold of a sequence is the last of the values that a loop over it goes
\* through, each made of the one before and the next element.
Fold(base, q) ==
  LET iter[s \in SUBSET DOMAIN q] ==
        IF s = {} THEN base ELSE Op(iter[s \ {Greatest(s)}], q[Greatest(s)])
  IN  iter[DOMAIN q]

THEOREM FoldIsLoop ==
  ASSUME NEW n \in Nat, NEW q, DOMAIN q = 1..n, NEW base
  PROVE  \E a : /\ a[0] = base /\ a[n] = Fold(base, q)
                /\ \A i \in 1..n : a[i] = Op(a[i-1], q[i])
<1> DEFINE Q(g) == g = [s \in SUBSET (1..n) |->
                          IF s = {} THEN base ELSE Op(g[s \ {Greatest(s)}], q[Greatest(s)])]
           iter == CHOOSE g : Q(g)
<1>1. \E g : Q(g)
  <2>1. PICK g : IsIter(g, base, q, n)
    BY IterExists
  <2>2. Q(g)
    BY <2>1 DEF IsIter
  <2> QED BY <2>2
<1>2. Q(iter)
  <2> HIDE DEF Q
  <2> QED BY <1>1
<1>3. Fold(base, q) = iter[1..n]
  BY DEF Fold
<1> HIDE DEF iter
<1> DEFINE a == [i \in 0..n |-> iter[1..i]]
<1>4. a[0] = base
  <2>1. 1..0 = {} /\ {} \in SUBSET (1..n)
    OBVIOUS
  <2>2. iter[{}] = base
    BY <1>2, <2>1
  <2> QED BY <2>1, <2>2
<1>5. ASSUME NEW i \in 1..n PROVE a[i] = Op(a[i-1], q[i])
  <2>1. 1..i # {} /\ 1..i \in SUBSET (1..n) /\ i \in 1..i
    OBVIOUS
  <2>2. Greatest(1..i) = i
    <3>1. Greatest(1..i) \in 1..i /\ i <= Greatest(1..i)
      BY <2>1, GreatestNumber
    <3> QED BY <3>1
  <2>3. (1..i) \ {i} = 1..(i-1)
    OBVIOUS
  <2>4. iter[1..i] = Op(iter[1..(i-1)], q[i])
    BY <1>2, <2>1, <2>2, <2>3
  <2> QED BY <2>4
<1>6. a[n] = Fold(base, q)
  BY <1>3
<1> HIDE DEF a
<1> QED BY <1>4, <1>5, <1>6

\* Folds: the values of that loop.
IsLoop(a, base, q, n) ==
  a[0] = base /\ a[n] = Fold(base, q) /\ \A i \in 1..n : a[i] = Op(a[i-1], q[i])

LEMMA LoopExists ==
  ASSUME NEW n \in Nat, NEW q, DOMAIN q = 1..n, NEW base
  PROVE  \E a : IsLoop(a, base, q, n)
BY FoldIsLoop DEF IsLoop

\* Folds: what holds of the base, and with each value of the loop of the next, holds of
\* the fold.  T relates the values to the number of elements they are made of.
LEMMA FoldHolds ==
  ASSUME NEW n \in Nat, NEW q, DOMAIN q = 1..n, NEW base, NEW T,
         <<0, base>> \in T,
         \A i \in 1..n : \A x : <<i - 1, x>> \in T => <<i, Op(x, q[i])>> \in T
  PROVE  <<n, Fold(base, q)>> \in T
<1>1. PICK a : IsLoop(a, base, q, n)
  BY LoopExists
<1> DEFINE U == {i \in 0..n : <<i, a[i]>> \in T}
<1>2. 0 \in U
  BY <1>1 DEF IsLoop
<1>3. \A i \in 1..n : i - 1 \in U => i \in U
  BY <1>1 DEF IsLoop
<1>4. 0..n \subseteq U
  <2> HIDE DEF U
  <2> QED BY <1>2, <1>3, UpTo
<1>5. n \in U
  BY <1>4
<1> QED BY <1>5, <1>1 DEF IsLoop

\* Folds: of no element, the base.
LEMMA FoldOfNone ==
  ASSUME NEW q, DOMAIN q = {}, NEW base
  PROVE  Fold(base, q) = base
<1>1. DOMAIN q = 1..0
  OBVIOUS
<1>2. \E a : IsLoop(a, base, q, 0)
  BY <1>1, LoopExists, 0 \in Nat
<1> QED BY <1>2 DEF IsLoop

\* Folds: of one element more, a step more.
LEMMA FoldOfMore ==
  ASSUME NEW n \in Nat, NEW q, DOMAIN q = 1..(n + 1), NEW base,
         NEW r, DOMAIN r = 1..n, \A i \in 1..n : r[i] = q[i]
  PROVE  Fold(base, q) = Op(Fold(base, r), q[n+1])
<1> DEFINE m == n + 1
<1>0. m \in Nat /\ DOMAIN q = 1..m
  OBVIOUS
<1>1. PICK a : IsLoop(a, base, q, m)
  <2> HIDE DEF m
  <2> QED BY <1>0, LoopExists
<1>2. PICK b : IsLoop(b, base, r, n)
  BY LoopExists
<1> DEFINE U == {i \in 0..n : a[i] = b[i]}
<1>3. 0 \in U
  BY <1>1, <1>2 DEF IsLoop
<1>4. \A i \in 1..n : i - 1 \in U => i \in U
  BY <1>1, <1>2 DEF IsLoop
<1>5. 0..n \subseteq U
  <2> HIDE DEF U
  <2> QED BY <1>3, <1>4, UpTo
<1>6. n \in U
  BY <1>5
<1>7. a[n+1] = Op(a[n], q[n+1])
  <2>1. n + 1 \in 1..(n+1) /\ (n + 1) - 1 = n
    OBVIOUS
  <2> QED BY <2>1, <1>1 DEF IsLoop
<1> QED BY <1>6, <1>7, <1>1, <1>2 DEF IsLoop

\* Folds: of no element, of a sequence and one element more, and of two sequences.
LEMMA FoldOfEmpty == ASSUME NEW base PROVE Fold(base, <<>>) = base
<1>1. DOMAIN <<>> = {}
  OBVIOUS
<1> QED BY <1>1, FoldOfNone

LEMMA FoldOfAppend ==
  ASSUME NEW S, NEW s \in Seq(S), NEW e \in S, NEW base
  PROVE  Fold(base, Append(s, e)) = Op(Fold(base, s), e)
<1> DEFINE n == Len(s)  q == Append(s, e)
<1>1. n \in Nat /\ DOMAIN s = 1..n
  OBVIOUS
<1>2. DOMAIN q = 1..(n+1) /\ (\A i \in 1..n : q[i] = s[i]) /\ q[n+1] = e
  OBVIOUS
<1> HIDE DEF n, q
<1>3. Fold(base, q) = Op(Fold(base, s), q[n+1])
  BY <1>1, <1>2, FoldOfMore
<1> QED BY <1>2, <1>3 DEF q

LEMMA FoldOfOne ==
  ASSUME NEW S, NEW x \in S, NEW base
  PROVE  Fold(base, <<x>>) = Op(base, x)
<1>1. <<>> \in Seq(S) /\ <<x>> = Append(<<>>, x)
  OBVIOUS
<1>2. Fold(base, Append(<<>>, x)) = Op(Fold(base, <<>>), x)
  BY <1>1, FoldOfAppend
<1> QED BY <1>1, <1>2, FoldOfEmpty

LEMMA FoldOfTwo ==
  ASSUME NEW S, NEW x \in S, NEW y \in S, NEW base
  PROVE  Fold(base, <<x, y>>) = Op(Op(base, x), y)
<1>1. <<x>> \in Seq(S) /\ <<x, y>> = Append(<<x>>, y)
  OBVIOUS
<1>2. Fold(base, Append(<<x>>, y)) = Op(Fold(base, <<x>>), y)
  BY <1>1, FoldOfAppend
<1> QED BY <1>1, <1>2, FoldOfOne

LEMMA FoldOfConcat ==
  ASSUME NEW S, NEW s \in Seq(S), NEW t \in Seq(S), NEW base
  PROVE  Fold(base, s \o t) = Fold(Fold(base, s), t)
<1> DEFINE m == Len(s)  n == Len(t)  q == s \o t  mid == Fold(base, s)
<1>1. /\ m \in Nat /\ n \in Nat /\ m + n \in Nat
      /\ DOMAIN s = 1..m /\ DOMAIN t = 1..n /\ DOMAIN q = 1..(m+n)
  OBVIOUS
<1>2. /\ \A i \in 1..m : q[i] = s[i]
      /\ \A i \in 1..n : q[m+i] = t[i]
  OBVIOUS
<1> HIDE DEF m, n, q, mid
<1>3. PICK a : IsLoop(a, base, s, m)
  BY <1>1, LoopExists
<1>4. PICK b : IsLoop(b, mid, t, n)
  BY <1>1, LoopExists
<1>5. PICK c : IsLoop(c, base, q, m + n)
  BY <1>1, LoopExists
<1> DEFINE U == {i \in 0..m : c[i] = a[i]}
           V == {i \in 0..n : c[m+i] = b[i]}
<1>6. c[m] = mid
  <2>1. 0 \in U
    BY <1>1, <1>3, <1>5 DEF IsLoop
  <2>2. ASSUME NEW i \in 1..m, i - 1 \in U PROVE i \in U
    <3>1. i \in 1..(m+n) /\ c[i-1] = a[i-1]
      BY <1>1, <2>2
    <3>2. c[i] = Op(c[i-1], q[i]) /\ a[i] = Op(a[i-1], s[i])
      BY <3>1, <1>3, <1>5 DEF IsLoop
    <3> QED BY <3>1, <3>2, <1>1, <1>2
  <2>3. 0..m \subseteq U
    <3> HIDE DEF U
    <3> QED BY <1>1, <2>1, <2>2, UpTo
  <2>4. c[m] = a[m]
    BY <1>1, <2>3
  <2> QED BY <2>4, <1>3 DEF IsLoop, mid
<1>7. c[m+n] = b[n]
  <2>1. 0 \in V
    BY <1>1, <1>4, <1>6 DEF IsLoop
  <2>2. ASSUME NEW i \in 1..n, i - 1 \in V PROVE i \in V
    <3>1. m + i \in 1..(m+n) /\ (m + i) - 1 = m + (i - 1) /\ c[m+(i-1)] = b[i-1]
      BY <1>1, <2>2
    <3>2. c[m+i] = Op(c[(m+i)-1], q[m+i]) /\ b[i] = Op(b[i-1], t[i])
      BY <3>1, <1>4, <1>5 DEF IsLoop
    <3> QED BY <3>1, <3>2, <1>1, <1>2
  <2>3. 0..n \subseteq V
    <3> HIDE DEF V
    <3> QED BY <1>1, <2>1, <2>2, UpTo
  <2> QED BY <1>1, <2>3
<1>8. Fold(base, q) = Fold(mid, t)
  BY <1>4, <1>5, <1>7 DEF IsLoop
<1> QED BY <1>8 DEF q, mid
=============================================================================
