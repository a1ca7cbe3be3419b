----------------------- MODULE MemorySignals_proofs -----------------------
(***************************************************************************)
(* Proofs about MemorySignals for any entries, searches, models, passes    *)
(* and limits, and any number of calls, feedback and events.               *)
(***************************************************************************)
EXTENDS MemorySignals, TLAPS, WellFoundedInduction, FiniteSetTheorems

(* The greatest number of a set that a number bounds.                      *)
LEMMA Greatest ==
  ASSUME NEW N \in Nat, NEW S \in SUBSET (0 .. N), S # {}
  PROVE  \E x \in S : \A y \in S : y <= x
<1> DEFINE T == {N - x : x \in S}
<1>1. T \subseteq Nat /\ T # {}
  <2>1. \A x \in S : x \in Nat /\ x <= N /\ N - x \in Nat  OBVIOUS
  <2>2. PICK x \in S : TRUE  OBVIOUS
  <2>3. N - x \in T  OBVIOUS
  <2> QED  BY <2>1, <2>3
<1> DEFINE R == OpToRel(<, Nat)
<1>2. IsWellFoundedOn(R, Nat)  BY NatLessThanWellFounded
<1> HIDE DEF R
<1>3. PICK t \in T : \A u \in T : ~(<<u, t>> \in R)
  <2> HIDE DEF T
  <2> QED  BY <1>1, <1>2, WFMin
<1>4. \A u \in T : t <= u
  <2>1. ASSUME NEW u \in T, u < t PROVE FALSE
    <3>1. <<u, t>> \in R  BY <1>1, <2>1 DEF R, OpToRel
    <3> QED  BY <1>3, <3>1
  <2> QED  BY <1>1, <2>1
<1>5. PICK x \in S : t = N - x  BY <1>3
<1>6. \A y \in S : N - y \in T  OBVIOUS
<1>7. \A y \in S : y <= x
  <2>1. ASSUME NEW y \in S PROVE y <= x
    <3>1. t <= N - y  BY <1>4, <1>6
    <3> QED  BY <1>5, <3>1
  <2> QED  BY <2>1
<1> QED  BY <1>5, <1>7

-----------------------------------------------------------------------------
(* Vectors.                                                                *)

Counts == [calls : Nat, feedback : Nat, events : Nat]

\* Each feedback on an entry is later than all before it.
LastsOK ==
  /\ counts \in Counts
  /\ \A k \in DOMAIN aff : aff[k].last \in 0 .. counts.feedback
  /\ \A j, k \in DOMAIN aff : j[2] = k[2] /\ aff[j].last = aff[k].last => j = k

\* Of the affinities of an entry under a model, those without a vector are older than
\* those with one.
NewestHaveVectors ==
  \A k \in DOMAIN vec, j \in DOMAIN aff \ DOMAIN vec :
    j[1] = k[1] /\ j[2] = k[2] => aff[j].last < aff[k].last

VectorInv == LastsOK /\ DOMAIN vec \subseteq DOMAIN aff /\ NewestHaveVectors /\ VectorsMatch

\* Of some affinities one is the latest.
LEMMA LatestIs ==
  ASSUME LastsOK, NEW ks \in SUBSET DOMAIN aff, ks # {}
  PROVE  Latest(ks) \in ks /\ \A j \in ks : aff[j].last <= aff[Latest(ks)].last
<1> DEFINE S == {aff[k].last : k \in ks}
<1>1. counts.feedback \in Nat  BY DEF LastsOK, Counts
<1>2. S \in SUBSET (0 .. counts.feedback) /\ S # {}  BY DEF LastsOK
<1>3. PICK x \in S : \A y \in S : y <= x
  <2> HIDE DEF S
  <2> QED  BY <1>1, <1>2, Greatest
<1>4. \E k \in ks : \A j \in ks : aff[j].last <= aff[k].last  BY <1>3
<1> QED  BY <1>4 DEF Latest

\* Moving affinities to other keys of the same entry keeps what is known of their
\* vectors: of those that meet, the latest has a vector if any has.
LEMMA MovedVectors ==
  ASSUME VectorInv, NEW to, Moved(to), DOMAIN to \subseteq DOMAIN aff,
         \A k \in DOMAIN to : to[k][1] = k[1] /\ to[k][2] = k[2],
         UNCHANGED <<active, counts>>
  PROVE  VectorInv'
<1> USE DEF VectorInv
<1> DEFINE from(n) == Becoming(n, to)
           with(n) == from(n) \intersect DOMAIN vec
           late(n) == Latest(from(n))
<1>1. /\ aff' = [n \in NewKeys(to) |-> Merged(from(n))]
      /\ vec' = [n \in {n \in NewKeys(to) : with(n) # {}} |-> vec[Latest(with(n))]]
  BY DEF Moved
<1>2. ASSUME NEW n \in NewKeys(to)
      PROVE  /\ from(n) # {} /\ from(n) \subseteq DOMAIN aff
             /\ late(n) \in from(n) /\ \A j \in from(n) : aff[j].last <= aff[late(n)].last
             /\ \A j \in from(n) : j[1] = n[1] /\ j[2] = n[2] /\ to[j] = n
             /\ aff'[n].last = aff[late(n)].last /\ aff'[n].text = aff[late(n)].text
  <2>1. from(n) # {} /\ from(n) \subseteq DOMAIN aff /\ from(n) \subseteq DOMAIN to
    BY DEF NewKeys, Becoming
  <2>2. late(n) \in from(n) /\ \A j \in from(n) : aff[j].last <= aff[late(n)].last
    BY <2>1, LatestIs
  <2>3. \A j \in from(n) : j[1] = n[1] /\ j[2] = n[2] /\ to[j] = n  BY DEF Becoming
  <2>4. aff'[n] = Merged(from(n))  BY <1>1
  <2> QED  BY <2>1, <2>2, <2>3, <2>4 DEF Merged
<1>3. DOMAIN aff' = NewKeys(to) /\ DOMAIN vec' = {n \in NewKeys(to) : with(n) # {}}  BY <1>1
<1>4. ASSUME NEW n \in NewKeys(to), with(n) # {}
      PROVE  late(n) \in DOMAIN vec /\ vec'[n] = vec[late(n)]
  <2>1. late(n) \in DOMAIN vec
    <3>1. PICK k \in with(n) : TRUE  BY <1>4
    <3>2. SUFFICES ASSUME late(n) \notin DOMAIN vec PROVE FALSE
      OBVIOUS
    <3>3. aff[late(n)].last < aff[k].last
      BY <1>2, <3>1, <3>2 DEF NewestHaveVectors
    <3>4. aff[k].last <= aff[late(n)].last  BY <1>2, <3>1
    <3>5. aff[k].last \in Nat /\ aff[late(n)].last \in Nat  BY <1>2, <3>1 DEF LastsOK
    <3> QED  BY <3>3, <3>4, <3>5
  <2>2. Latest(with(n)) = late(n)
    <3>1. with(n) \subseteq DOMAIN aff  OBVIOUS
    <3>2. Latest(with(n)) \in with(n)
          /\ \A j \in with(n) : aff[j].last <= aff[Latest(with(n))].last
      BY <1>4, <3>1, LatestIs
    <3>3. late(n) \in with(n)  BY <1>2, <2>1
    <3>4. aff[late(n)].last = aff[Latest(with(n))].last
      <4>1. aff[late(n)].last <= aff[Latest(with(n))].last  BY <3>2, <3>3
      <4>2. aff[Latest(with(n))].last <= aff[late(n)].last  BY <1>2, <3>2
      <4>3. aff[late(n)].last \in Nat /\ aff[Latest(with(n))].last \in Nat
        BY <3>2, <3>3 DEF LastsOK
      <4> QED  BY <4>1, <4>2, <4>3
    <3> QED  BY <1>2, <3>2, <3>3, <3>4 DEF LastsOK
  <2>3. vec'[n] = vec[Latest(with(n))]  BY <1>1, <1>4
  <2> QED  BY <2>1, <2>2, <2>3
<1>5. LastsOK'
  <2>1. \A n \in NewKeys(to) : aff'[n].last \in 0 .. counts.feedback  BY <1>2 DEF LastsOK
  <2>2. ASSUME NEW m \in NewKeys(to), NEW n \in NewKeys(to), m[2] = n[2], aff'[m].last = aff'[n].last
        PROVE  m = n
    <3>1. late(m) \in DOMAIN aff /\ late(n) \in DOMAIN aff /\ late(m)[2] = late(n)[2]
          /\ aff[late(m)].last = aff[late(n)].last
      BY <1>2, <2>2
    <3>2. late(m) = late(n)  BY <3>1 DEF LastsOK
    <3> QED  BY <1>2, <3>2
  <2> QED  BY <1>3, <2>1, <2>2 DEF LastsOK
<1>6. NewestHaveVectors'
  <2>1. ASSUME NEW k \in DOMAIN vec', NEW j \in DOMAIN aff' \ DOMAIN vec', j[1] = k[1], j[2] = k[2]
        PROVE  aff'[j].last < aff'[k].last
    <3>1. late(k) \in DOMAIN vec  BY <1>3, <1>4
    <3>2. late(j) \notin DOMAIN vec  BY <1>2, <1>3
    <3>3. late(j) \in DOMAIN aff /\ late(j)[1] = late(k)[1] /\ late(j)[2] = late(k)[2]
      BY <1>2, <1>3, <2>1
    <3>4. aff[late(j)].last < aff[late(k)].last  BY <3>1, <3>2, <3>3 DEF NewestHaveVectors
    <3> QED  BY <1>2, <1>3, <3>4
  <2> QED  BY <2>1 DEF NewestHaveVectors
<1>7. VectorsMatch'
  <2>1. ASSUME NEW k \in DOMAIN vec' PROVE k[1] = active' /\ vec'[k] = <<k[1], aff'[k].text>>
    <3>1. late(k) \in DOMAIN vec /\ vec'[k] = vec[late(k)]  BY <1>3, <1>4
    <3>2. late(k)[1] = k[1] /\ aff'[k].text = aff[late(k)].text  BY <1>2, <1>3
    <3> QED  BY <3>1, <3>2 DEF VectorsMatch
  <2> QED  BY <2>1 DEF VectorsMatch
<1>8. DOMAIN vec' \subseteq DOMAIN aff'  BY <1>3
<1> QED  BY <1>5, <1>6, <1>7, <1>8


\* Cleaning up moves every affinity that it keeps to what is left of its target.
LEMMA CleanUpVectors ==
  ASSUME VectorInv, NEW gone, NEW blocks, NEW chunks, CleanUp(gone, blocks, chunks),
         UNCHANGED <<active, counts>>
  PROVE  VectorInv'
<1> DEFINE to == [k \in Remaining(gone, blocks, chunks) |->
                    <<k[1], k[2], Degraded(k[3], blocks, chunks)>>]
<1>1. DOMAIN to \subseteq DOMAIN aff  BY DEF Remaining
<1>2. \A k \in DOMAIN to : to[k][1] = k[1] /\ to[k][2] = k[2]  OBVIOUS
<1>3. Moved(to)  BY DEF CleanUp
<1> HIDE DEF to
<1> QED  BY <1>1, <1>2, <1>3, MovedVectors

LEMMA FeedbackVectors ==
  ASSUME VectorInv, NEW s \in Searches, NEW targets, Feedback(s, targets)
  PROVE  VectorInv'
<1> USE DEF VectorInv
<1> DEFINE new == New(s, targets)
           keys == {<<session[s].model, e, targets[e]>> : e \in new}
           now == counts.feedback + 1
<1>1. now \in Nat /\ counts' \in Counts /\ counts'.feedback = now /\ counts.feedback \in Nat
  BY DEF Feedback, LastsOK, Counts
<1>2. \A k \in keys : k[1] = active /\ k[2] \in new  BY DEF Feedback
<1>3. \A j, k \in keys : j[2] = k[2] => j = k  OBVIOUS
<1>4. /\ DOMAIN aff' = DOMAIN aff \union keys /\ DOMAIN vec' = DOMAIN vec \union keys
      /\ \A k \in keys : aff'[k].last = now /\ aff'[k].text = s
      /\ \A k \in keys : vec'[k] = <<active, s>>
      /\ \A k \in DOMAIN aff \ keys : aff'[k] = aff[k]
      /\ \A k \in DOMAIN vec \ keys : vec'[k] = vec[k]
      /\ active' = active
  BY DEF Feedback
<1> HIDE DEF keys, now
<1>5. \A k \in DOMAIN aff : aff[k].last \in 0 .. counts.feedback /\ aff[k].last < now
  BY <1>1 DEF LastsOK, now
<1>6. LastsOK'
  <2>1. ASSUME NEW k \in DOMAIN aff' PROVE aff'[k].last \in 0 .. now
    BY <1>1, <1>4, <1>5
  <2>2. ASSUME NEW j \in DOMAIN aff', NEW k \in DOMAIN aff', j[2] = k[2], aff'[j].last = aff'[k].last
        PROVE  j = k
    <3>1. CASE j \in keys /\ k \in keys  BY <1>3, <2>2, <3>1
    <3>2. CASE j \notin keys /\ k \notin keys  BY <1>4, <2>2, <3>2 DEF LastsOK
    <3>3. CASE j \in keys /\ k \notin keys  BY <1>1, <1>4, <1>5, <2>2, <3>3
    <3>4. CASE j \notin keys /\ k \in keys  BY <1>1, <1>4, <1>5, <2>2, <3>4
    <3> QED  BY <3>1, <3>2, <3>3, <3>4
  <2> QED  BY <1>1, <2>1, <2>2 DEF LastsOK
<1>7. NewestHaveVectors'
  <2>1. ASSUME NEW k \in DOMAIN vec', NEW j \in DOMAIN aff' \ DOMAIN vec', j[1] = k[1], j[2] = k[2]
        PROVE  aff'[j].last < aff'[k].last
    <3>1. j \in DOMAIN aff \ DOMAIN vec /\ j \notin keys  BY <1>4, <2>1
    <3>2. CASE k \in keys  BY <1>4, <1>5, <3>1, <3>2
    <3>3. CASE k \notin keys  BY <1>4, <2>1, <3>1, <3>3 DEF NewestHaveVectors
    <3> QED  BY <3>2, <3>3
  <2> QED  BY <2>1 DEF NewestHaveVectors
<1>8. VectorsMatch'
  <2>1. ASSUME NEW k \in DOMAIN vec' PROVE k[1] = active' /\ vec'[k] = <<k[1], aff'[k].text>>
    <3>1. CASE k \in keys  BY <1>2, <1>4, <3>1
    <3>2. CASE k \notin keys  BY <1>4, <3>2 DEF VectorsMatch
    <3> QED  BY <3>1, <3>2
  <2> QED  BY <2>1 DEF VectorsMatch
<1> QED  BY <1>4, <1>6, <1>7, <1>8

\* All affinities move to the active model, each with the vector of the text that
\* the latest of those that meet has kept.
LEMMA ReplaceVectors ==
  ASSUME VectorInv, NEW p \in Passes, Replace(p)
  PROVE  VectorInv'
<1> USE DEF VectorInv
<1> DEFINE to == [k \in DOMAIN aff |-> <<active, k[2], k[3]>>]
           from(n) == Becoming(n, to)
           late(n) == Latest(from(n))
<1>1. /\ aff' = [n \in NewKeys(to) |-> Merged(from(n))]
      /\ vec' = [n \in NewKeys(to) |-> <<active, aff[late(n)].text>>]
      /\ active' = active /\ counts' = counts
  BY DEF Replace, Unchanged
<1>2. ASSUME NEW n \in NewKeys(to)
      PROVE  /\ late(n) \in from(n) /\ late(n) \in DOMAIN aff
             /\ to[late(n)] = n /\ late(n)[2] = n[2] /\ n[1] = active
             /\ aff'[n].last = aff[late(n)].last /\ aff'[n].text = aff[late(n)].text
  <2>1. from(n) # {} /\ from(n) \subseteq DOMAIN aff  BY DEF NewKeys, Becoming
  <2>2. late(n) \in from(n)  BY <2>1, LatestIs
  <2>3. aff'[n] = Merged(from(n))  BY <1>1
  <2>4. \A j \in from(n) : to[j] = n /\ j[2] = n[2] /\ n[1] = active  BY DEF Becoming
  <2> QED  BY <2>1, <2>2, <2>3, <2>4 DEF Merged
<1> HIDE DEF to
<1>3. LastsOK'
  <2>1. \A n \in NewKeys(to) : aff'[n].last \in 0 .. counts.feedback  BY <1>2 DEF LastsOK
  <2>2. ASSUME NEW m \in NewKeys(to), NEW n \in NewKeys(to), m[2] = n[2], aff'[m].last = aff'[n].last
        PROVE  m = n
    <3>1. late(m) = late(n)  BY <1>2, <2>2 DEF LastsOK
    <3> QED  BY <1>2, <3>1
  <2> QED  BY <1>1, <2>1, <2>2 DEF LastsOK
<1>4. NewestHaveVectors'  BY <1>1 DEF NewestHaveVectors
<1>5. VectorsMatch'  BY <1>1, <1>2 DEF VectorsMatch
<1> QED  BY <1>1, <1>3, <1>4, <1>5

\* A restart drops the vectors of the other models, all of them or none.
LEMMA RestartVectors ==
  ASSUME VectorInv, NEW model \in Models, NEW p \in Passes, Restart(model, p)
  PROVE  VectorInv'
<1> USE DEF VectorInv
<1>1. /\ active' = model /\ aff' = aff /\ counts'.feedback = counts.feedback /\ counts' \in Counts
      /\ vec' = [k \in {k \in DOMAIN vec : k[1] = model} |-> vec[k]]
  <2>1. active' = model /\ aff' = aff /\ vec' = [k \in {k \in DOMAIN vec : k[1] = model} |-> vec[k]]
    BY DEF Restart
  <2>2. counts' = [counts EXCEPT !.events = @ + 1]  BY DEF Restart, Event
  <2> QED  BY <2>1, <2>2 DEF LastsOK, Counts
<1>2. DOMAIN vec' = {k \in DOMAIN vec : k[1] = model}
      /\ \A k \in DOMAIN vec' : vec'[k] = vec[k]
  BY <1>1
<1>3. LastsOK'  BY <1>1 DEF LastsOK
<1>4. NewestHaveVectors'  BY <1>1, <1>2 DEF NewestHaveVectors
<1>5. VectorsMatch'  BY <1>1, <1>2 DEF VectorsMatch
<1> QED  BY <1>1, <1>2, <1>3, <1>4, <1>5

LEMMA VectorStep == ASSUME VectorInv, [Next]_vars PROVE VectorInv'
<1> DEFINE Same == /\ UNCHANGED <<aff, vec, active>>
                   /\ counts' \in Counts /\ counts'.feedback = counts.feedback
<1>1. ASSUME Same PROVE VectorInv'
  BY <1>1 DEF VectorInv, LastsOK, NewestHaveVectors, VectorsMatch
<1>2. counts \in Counts  BY DEF VectorInv, LastsOK
<1>3. \A p \in Passes : StartPass(p) => counts' \in Counts /\ counts'.feedback = counts.feedback
  BY <1>2 DEF StartPass, Counted, Counts
<1>4. ASSUME NEW s \in Searches, SearchRead(s) \/ SearchRecord(s) \/ Expire(s) PROVE Same
  BY <1>2, <1>4 DEF SearchRead, SearchRecord, Expire
<1>5. ASSUME NEW e \in Entries, NEW op, Call(op, e) PROVE Same
  BY <1>2, <1>5 DEF Call, Counted, Counts, signals
<1>6. ASSUME DeleteContent \/ UpdateContent \/ BlockDeleteContent \/ CallFails PROVE Same
  BY <1>2, <1>6 DEF DeleteContent, UpdateContent, BlockDeleteContent, CallFails, signals
<1>7. ASSUME CallSignals PROVE VectorInv'
  <2>1. active' = active /\ counts' = counts  BY <1>7 DEF CallSignals
  <2> QED  BY <1>7, <2>1, CleanUpVectors DEF CallSignals
<1>8. ASSUME NEW p \in Passes, SyncStart(p) \/ RebuildStart(p) PROVE Same
  BY <1>3, <1>8 DEF SyncStart, RebuildStart, signals
<1>9. ASSUME NEW p \in Passes, NEW e \in Entries, PassIndexes(p, e) \/ PassFails(p, e) \/ PassRemoves(p, e)
      PROVE  Same
  BY <1>2, <1>9 DEF PassIndexes, PassFails, PassRemoves, signals
<1>10. ASSUME NEW p \in Passes, PassWalked(p) \/ ReconcileFails(p) \/ Plan(p) \/ ReembedFails(p)
       PROVE  Same
  BY <1>2, <1>10 DEF PassWalked, ReconcileFails, Plan, ReembedFails, signals
<1>11. ASSUME NEW p \in Passes, Reconcile(p) PROVE VectorInv'
  <2>1. active' = active /\ counts' = counts  BY <1>11 DEF Reconcile
  <2> QED  BY <1>11, <2>1, CleanUpVectors DEF Reconcile
<1>12. ASSUME NEW e \in Entries, NEW now, Outside(e, now) PROVE Same
  BY <1>2, <1>12 DEF Outside, Event, Counts, signals
<1>13. CASE UNCHANGED vars  BY <1>1, <1>2, <1>13 DEF vars, signals
<1> HIDE DEF Same
<1> QED
  BY <1>1, <1>4, <1>5, <1>6, <1>7, <1>8, <1>9, <1>10, <1>11, <1>12, <1>13,
     FeedbackVectors, ReplaceVectors, RestartVectors DEF Next

LEMMA VectorInit == Init => VectorInv
BY DEF Init, VectorInv, LastsOK, Counts, NewestHaveVectors, VectorsMatch

\* Every vector is computed from the text that its affinity has, under the model the
\* daemon has loaded: through reinforcement, merging, re-embedding and restarts with
\* another model (embed_query_affinities, replace_affinity_vectors,
\* degrade_affinity_precision_in_tx).
THEOREM VectorsAlwaysMatch == Spec => []VectorsMatch
<1>1. Init => VectorInv  BY VectorInit
<1>2. VectorInv /\ [Next]_vars => VectorInv'  BY VectorStep
<1>3. VectorInv => VectorsMatch  BY DEF VectorInv
<1> QED  BY <1>1, <1>2, <1>3, PTL DEF Spec


-----------------------------------------------------------------------------
(* Types of the content and of what runs.                                  *)

Target == [block : Nat, chunk : Nat]
Jobs == [op : {"delete", "update", "blockDelete"}, entry : Entries, old : Target, done : BOOLEAN]
PassFields == {"op", "pc", "todo", "stale", "whole", "plan"}

PassesOK ==
  /\ DOMAIN pass = Passes
  /\ \A p \in Passes : /\ DOMAIN pass[p] = PassFields
                       /\ pass[p].todo \subseteq Entries /\ pass[p].stale \subseteq Entries

ContentOK ==
  /\ file \in [Entries -> {"block", "bare", "bad", "none"}]
  /\ indexed \subseteq Entries
  /\ at \in [Entries -> Target] /\ ids \in Nat
  /\ job \in Jobs \union {NoJob}
  /\ PassesOK
  /\ overlapped \in BOOLEAN /\ settled \in BOOLEAN

LEMMA BecomeOK ==
  ASSUME PassesOK, NEW p \in Passes, NEW r, Become(p, r), DOMAIN r = PassFields,
         r.todo \subseteq Entries, r.stale \subseteq Entries
  PROVE  PassesOK' /\ pass'[p] = r /\ \A q \in Passes \ {p} : pass'[q] = pass[q]
BY DEF PassesOK, Become

LEMMA NoPassOK ==
  /\ DOMAIN NoPass = PassFields /\ NoPass.todo = {} /\ NoPass.stale = {}
  /\ NoPass.pc = "idle" /\ NoPass.op = "none" /\ NoPass.whole = TRUE
BY DEF NoPass, PassFields

LEMMA ScanOK ==
  ASSUME NEW op
  PROVE  /\ DOMAIN Scan(op) = PassFields /\ Scan(op).pc = "walk" /\ Scan(op).op = op
         /\ Scan(op).todo = OnDisk \intersect (changed \union (Entries \ indexed))
         /\ Scan(op).stale = indexed \ OnDisk
BY NoPassOK DEF Scan, PassFields, NoPass

\* What each action does to the passes.
LEMMA PassSteps ==
  ASSUME ContentOK, NEW p \in Passes
  PROVE  /\ SyncStart(p) =>
              PassesOK' /\ pass'[p] = Scan("sync") /\ \A q \in Passes \ {p} : pass'[q] = pass[q]
         /\ RebuildStart(p) =>
              /\ PassesOK' /\ pass'[p].pc = "walk" /\ pass'[p].todo = OnDisk /\ pass'[p].stale = {}
              /\ \A q \in Passes \ {p} : pass'[q] = pass[q]
         /\ \A e \in Entries :
              /\ PassIndexes(p, e) =>
                   /\ PassesOK' /\ pass'[p].pc = "walk" /\ pass'[p].whole = pass[p].whole
                   /\ pass'[p].todo = pass[p].todo \ {e} /\ pass'[p].stale = pass[p].stale
                   /\ \A q \in Passes \ {p} : pass'[q] = pass[q]
              /\ PassFails(p, e) =>
                   /\ PassesOK' /\ \A q \in Passes \ {p} : pass'[q] = pass[q]
                   /\ \/ pass'[p] = NoPass
                      \/ pass'[p].pc = "walk" /\ ~pass'[p].whole /\ pass'[p].stale = pass[p].stale
              /\ PassRemoves(p, e) =>
                   /\ PassesOK' /\ pass'[p].pc = "walk" /\ pass'[p].whole = pass[p].whole
                   /\ pass'[p].todo = pass[p].todo \ {e} /\ pass'[p].stale = pass[p].stale \ {e}
                   /\ \A q \in Passes \ {p} : pass'[q] = pass[q]
         /\ PassWalked(p) =>
              /\ PassesOK' /\ \A q \in Passes \ {p} : pass'[q] = pass[q]
              /\ pass'[p] = NoPass \/ (Whole(p) /\ pass'[p].pc = "reconcile")
         /\ AfterReconcile(p) \/ Plan(p) \/ Replace(p) \/ ReembedFails(p) =>
              /\ PassesOK' /\ \A q \in Passes \ {p} : pass'[q] = pass[q]
              /\ pass'[p].pc \notin {"walk", "reconcile"}
<1> USE DEF ContentOK
<1>1. PassesOK /\ DOMAIN pass[p] = PassFields /\ pass[p].todo \subseteq Entries
      /\ pass[p].stale \subseteq Entries
  BY DEF PassesOK
<1>2. OnDisk \subseteq Entries  BY DEF OnDisk
<1> USE NoPassOK
<1>3. ASSUME SyncStart(p)
      PROVE  PassesOK' /\ pass'[p] = Scan("sync") /\ \A q \in Passes \ {p} : pass'[q] = pass[q]
  <2>1. Scan("sync").todo \subseteq Entries /\ Scan("sync").stale \subseteq Entries
        /\ DOMAIN Scan("sync") = PassFields
    BY <1>2, ScanOK
  <2>2. Become(p, Scan("sync"))  BY <1>3 DEF SyncStart
  <2> QED  BY <1>1, <2>1, <2>2, BecomeOK
<1>4. ASSUME RebuildStart(p)
      PROVE  /\ PassesOK' /\ pass'[p].pc = "walk" /\ pass'[p].todo = OnDisk /\ pass'[p].stale = {}
             /\ \A q \in Passes \ {p} : pass'[q] = pass[q]
  <2> DEFINE r == [NoPass EXCEPT !.op = "rebuild", !.pc = "walk", !.todo = OnDisk]
  <2>1. r.pc = "walk" /\ r.todo = OnDisk /\ r.stale = {} /\ DOMAIN r = PassFields
    BY DEF PassFields
  <2>2. Become(p, r)  BY <1>4 DEF RebuildStart
  <2> HIDE DEF r
  <2> QED  BY <1>1, <1>2, <2>1, <2>2, BecomeOK
<1>5. ASSUME NEW e \in Entries, PassIndexes(p, e)
      PROVE  /\ PassesOK' /\ pass'[p].pc = "walk" /\ pass'[p].whole = pass[p].whole
             /\ pass'[p].todo = pass[p].todo \ {e} /\ pass'[p].stale = pass[p].stale
             /\ \A q \in Passes \ {p} : pass'[q] = pass[q]
  <2> DEFINE r == [pass[p] EXCEPT !.todo = @ \ {e}]
  <2>1. r.pc = pass[p].pc /\ r.todo = pass[p].todo \ {e} /\ r.stale = pass[p].stale
        /\ r.whole = pass[p].whole /\ DOMAIN r = PassFields
    BY <1>1 DEF PassFields
  <2>2. Become(p, r) /\ pass[p].pc = "walk"  BY <1>5 DEF PassIndexes
  <2> HIDE DEF r
  <2> QED  BY <1>1, <2>1, <2>2, BecomeOK
<1>6. ASSUME NEW e \in Entries, PassFails(p, e)
      PROVE  /\ PassesOK' /\ \A q \in Passes \ {p} : pass'[q] = pass[q]
             /\ \/ pass'[p] = NoPass
                \/ pass'[p].pc = "walk" /\ ~pass'[p].whole /\ pass'[p].stale = pass[p].stale
  <2> DEFINE r == [pass[p] EXCEPT !.todo = @ \ {e}, !.whole = FALSE]
  <2>1. r.pc = pass[p].pc /\ r.todo = pass[p].todo \ {e} /\ r.stale = pass[p].stale
        /\ ~r.whole /\ DOMAIN r = PassFields
    BY <1>1 DEF PassFields
  <2>2. pass[p].pc = "walk" /\ (Become(p, r) \/ Become(p, NoPass))  BY <1>6 DEF PassFails
  <2> HIDE DEF r
  <2> QED  BY <1>1, <2>1, <2>2, BecomeOK
<1>7. ASSUME NEW e \in Entries, PassRemoves(p, e)
      PROVE  /\ PassesOK' /\ pass'[p].pc = "walk" /\ pass'[p].whole = pass[p].whole
             /\ pass'[p].todo = pass[p].todo \ {e} /\ pass'[p].stale = pass[p].stale \ {e}
             /\ \A q \in Passes \ {p} : pass'[q] = pass[q]
  <2> DEFINE r == [pass[p] EXCEPT !.todo = @ \ {e}, !.stale = @ \ {e}]
  <2>1. r.pc = pass[p].pc /\ r.todo = pass[p].todo \ {e} /\ r.stale = pass[p].stale \ {e}
        /\ r.whole = pass[p].whole /\ DOMAIN r = PassFields
    BY <1>1 DEF PassFields
  <2>2. Become(p, r) /\ pass[p].pc = "walk"  BY <1>7 DEF PassRemoves
  <2> HIDE DEF r
  <2> QED  BY <1>1, <2>1, <2>2, BecomeOK
<1>8. ASSUME PassWalked(p)
      PROVE  /\ PassesOK' /\ \A q \in Passes \ {p} : pass'[q] = pass[q]
             /\ pass'[p] = NoPass \/ (Whole(p) /\ pass'[p].pc = "reconcile")
  <2> DEFINE r == [pass[p] EXCEPT !.pc = "reconcile"]
  <2>1. r.pc = "reconcile" /\ r.todo = pass[p].todo /\ r.stale = pass[p].stale
        /\ DOMAIN r = PassFields
    BY <1>1 DEF PassFields
  <2>2. (Whole(p) /\ Become(p, r)) \/ Become(p, NoPass)  BY <1>8 DEF PassWalked
  <2> HIDE DEF r
  <2> QED  BY <1>1, <2>1, <2>2, BecomeOK
<1>9. ASSUME AfterReconcile(p) \/ Plan(p) \/ Replace(p) \/ ReembedFails(p)
      PROVE  /\ PassesOK' /\ \A q \in Passes \ {p} : pass'[q] = pass[q]
             /\ pass'[p].pc \notin {"walk", "reconcile"}
  <2> DEFINE r == [pass[p] EXCEPT !.pc = "plan"]
             t == [pass[p] EXCEPT !.pc = "embed", !.plan = aff]
  <2>1. r.pc = "plan" /\ r.todo = pass[p].todo /\ r.stale = pass[p].stale
        /\ DOMAIN r = PassFields
    BY <1>1 DEF PassFields
  <2>2. t.pc = "embed" /\ t.todo = pass[p].todo /\ t.stale = pass[p].stale
        /\ DOMAIN t = PassFields
    BY <1>1 DEF PassFields
  <2>3. Become(p, r) \/ Become(p, t) \/ Become(p, NoPass)
    BY <1>9 DEF AfterReconcile, Plan, Replace, ReembedFails
  <2> HIDE DEF r, t
  <2> QED  BY <1>1, <2>1, <2>2, <2>3, BecomeOK
<1> QED  BY <1>3, <1>4, <1>5, <1>6, <1>7, <1>8, <1>9

\* A restart leaves one pass: the startup sync.
LEMMA RestartPasses ==
  ASSUME ContentOK, NEW model \in Models, NEW p \in Passes, Restart(model, p)
  PROVE  /\ PassesOK' /\ pass'[p] = Scan("boot") /\ \A q \in Passes \ {p} : pass'[q] = NoPass
         /\ job' = NoJob /\ ~settled'
<1>1. /\ pass' = [q \in Passes |-> IF q = p THEN Scan("boot") ELSE NoPass]
      /\ job' = NoJob /\ settled' = FALSE
  BY DEF Restart
<1>2. Scan("boot").todo \subseteq Entries /\ Scan("boot").stale \subseteq Entries
      /\ DOMAIN Scan("boot") = PassFields
  BY ScanOK DEF OnDisk, ContentOK
<1> QED  BY <1>1, <1>2, NoPassOK DEF PassesOK

\* What a call does to the entry that it is about.
LEMMA CallSteps ==
  ASSUME ContentOK
  PROVE  /\ NoJob \notin Jobs
         /\ \A e \in Entries : \A op \in {"delete", "update", "blockDelete"} : Call(op, e) =>
              /\ job = NoJob /\ job' \in Jobs /\ ~job'.done /\ e \in indexed
              /\ job'.op = op /\ job'.entry = e /\ job'.old = at[e]
         /\ DeleteContent =>
              /\ job \in Jobs /\ job' \in Jobs /\ job'.done /\ job'.entry = job.entry /\ job.op = "delete"
              /\ job'.op = job.op /\ job'.old = job.old /\ ~job.done
         /\ UpdateContent =>
              /\ job \in Jobs /\ job' \in Jobs /\ job'.done /\ job'.entry = job.entry /\ job.op = "update"
              /\ job'.op = job.op /\ job'.old = job.old /\ ~job.done
              /\ job.entry \in indexed /\ at[job.entry].block = job.old.block
         /\ BlockDeleteContent =>
              /\ job \in Jobs /\ job' \in Jobs /\ job'.done /\ job'.entry = job.entry
              /\ job.op = "blockDelete"
              /\ job'.op = job.op /\ job'.old = job.old /\ ~job.done
              /\ job.entry \in indexed /\ at[job.entry].block = job.old.block
<1>1. NoJob \notin Jobs /\ NoJob.op = "none" /\ ~NoJob.done  BY DEF NoJob, Jobs
<1>2. job \in Jobs \/ job = NoJob  BY DEF ContentOK
<1>3. ASSUME NEW e \in Entries, NEW op \in {"delete", "update", "blockDelete"}, Call(op, e)
      PROVE  /\ job = NoJob /\ job' \in Jobs /\ ~job'.done /\ e \in indexed
             /\ job'.op = op /\ job'.entry = e /\ job'.old = at[e]
  BY <1>3 DEF Call, Jobs, ContentOK
<1>4. ASSUME NEW op \in {"delete", "update", "blockDelete"}, Finds(op), job' = [job EXCEPT !.done = TRUE]
      PROVE  /\ job \in Jobs /\ job' \in Jobs /\ job'.done /\ job'.entry = job.entry /\ job.op = op
             /\ job'.op = job.op /\ job'.old = job.old /\ ~job.done /\ job.entry \in indexed
             /\ op # "delete" => at[job.entry].block = job.old.block
  <2>1. job.op = op /\ ~job.done /\ job.entry \in indexed
        /\ (op # "delete" => at[job.entry].block = job.old.block)
    BY <1>4 DEF Finds
  <2>2. job \in Jobs  BY <1>1, <1>2, <2>1
  <2> QED  BY <1>4, <2>1, <2>2 DEF Jobs
<1>5. DeleteContent => Finds("delete") /\ job' = [job EXCEPT !.done = TRUE]  BY DEF DeleteContent
<1>6. UpdateContent => Finds("update") /\ job' = [job EXCEPT !.done = TRUE]  BY DEF UpdateContent
<1>7. BlockDeleteContent => Finds("blockDelete") /\ job' = [job EXCEPT !.done = TRUE]
  BY DEF BlockDeleteContent
<1> QED  BY <1>1, <1>3, <1>4, <1>5, <1>6, <1>7

LEMMA ContentInit == Init => ContentOK
<1> SUFFICES ASSUME Init PROVE ContentOK  OBVIOUS
<1>1. Cardinality(Entries) \in Nat  BY ConstantsAssumption, FS_CardinalityType
<1>2. ids \in Nat  BY <1>1 DEF Init
<1>3. at \in [Entries -> [block : 1 .. ids, chunk : 1 .. ids]]  BY DEF Init
<1>4. [block : 1 .. ids, chunk : 1 .. ids] \subseteq Target  BY <1>2 DEF Target
<1>5. at \in [Entries -> Target]  BY <1>3, <1>4
<1>6. PassesOK  BY NoPassOK DEF Init, PassesOK
<1> QED  BY <1>2, <1>5, <1>6 DEF Init, ContentOK

LEMMA ContentStep == ASSUME ContentOK, [Next]_vars PROVE ContentOK'
<1> DEFINE Content == /\ file \in [Entries -> {"block", "bare", "bad", "none"}]
                      /\ indexed \subseteq Entries /\ at \in [Entries -> Target] /\ ids \in Nat
           Running == job \in Jobs \union {NoJob} /\ overlapped \in BOOLEAN /\ settled \in BOOLEAN
<1>1. ContentOK <=> Content /\ PassesOK /\ Running  BY DEF ContentOK
<1>2. ContentOK' <=> Content' /\ PassesOK' /\ Running'  BY DEF ContentOK
<1> DEFINE Same == UNCHANGED <<content, pass, job, overlapped, settled>>
<1>3. ASSUME Same PROVE ContentOK'  BY <1>3 DEF ContentOK, PassesOK, content
<1>4. pass' = pass => PassesOK'  BY <1>1 DEF PassesOK
<1>5. ToEntry \in Target  BY DEF ToEntry, Target
<1>6. ASSUME NEW s \in Searches,
             SearchRead(s) \/ SearchRecord(s) \/ Expire(s)
               \/ \E targets \in Requests(s) : Feedback(s, targets)
      PROVE  ContentOK'
  <2>1. Same  BY <1>6 DEF SearchRead, SearchRecord, Expire, Feedback, history
  <2> QED  BY <1>3, <2>1
<1>7. ASSUME NEW e \in Entries, NEW op \in {"delete", "update", "blockDelete"}, Call(op, e)
      PROVE  ContentOK'
  <2>1. job' \in Jobs  BY <1>7, CallSteps
  <2>2. Content' /\ pass' = pass  BY <1>7, <1>1 DEF Call, content
  <2>3. overlapped' \in BOOLEAN /\ settled' \in BOOLEAN  BY <1>7 DEF Call, ContentOK
  <2> QED  BY <1>2, <1>4, <2>1, <2>2, <2>3
<1>8. ASSUME DeleteContent PROVE ContentOK'
  <2>1. job' \in Jobs  BY <1>8, CallSteps
  <2>2. Content'  BY <1>5, <1>8 DEF DeleteContent, ContentOK
  <2>3. pass' = pass /\ overlapped' = overlapped /\ settled' = settled
    BY <1>8 DEF DeleteContent, history
  <2> QED  BY <1>1, <1>2, <1>4, <2>1, <2>2, <2>3
<1>9. ASSUME UpdateContent PROVE ContentOK'
  <2>1. job' \in Jobs  BY <1>9, CallSteps
  <2>2. Content'
    <3>1. ids' \in Nat /\ at' = [at EXCEPT ![job.entry].chunk = ids'] /\ indexed' = indexed
          /\ file' = [file EXCEPT ![job.entry] = "block"]
      BY <1>1, <1>9 DEF UpdateContent
    <3>2. at' \in [Entries -> Target]  BY <1>1, <3>1 DEF Target
    <3> QED  BY <1>1, <3>1, <3>2
  <2>3. pass' = pass /\ overlapped' = overlapped /\ settled' = settled
    BY <1>9 DEF UpdateContent, history
  <2> QED  BY <1>1, <1>2, <1>4, <2>1, <2>2, <2>3
<1>10. ASSUME BlockDeleteContent PROVE ContentOK'
  <2>1. job' \in Jobs  BY <1>10, CallSteps
  <2>2. Content'  BY <1>5, <1>10 DEF BlockDeleteContent, ContentOK
  <2>3. pass' = pass /\ overlapped' = overlapped /\ settled' = settled
    BY <1>10 DEF BlockDeleteContent, history
  <2> QED  BY <1>1, <1>2, <1>4, <2>1, <2>2, <2>3
<1>11. ASSUME CallSignals PROVE ContentOK'
  <2>1. job' = NoJob /\ UNCHANGED <<content, pass, overlapped, settled>>
    BY <1>11 DEF CallSignals, history
  <2> QED  BY <1>1, <1>2, <1>4, <2>1 DEF content
<1>12. ASSUME CallFails PROVE ContentOK'
  <2>1. job' = NoJob /\ settled' \in BOOLEAN /\ UNCHANGED <<content, pass, overlapped>>
    BY <1>12 DEF CallFails
  <2> QED  BY <1>1, <1>2, <1>4, <2>1 DEF content
<1>13. ASSUME NEW p \in Passes, SyncStart(p) PROVE ContentOK'
  <2>1. PassesOK'  BY <1>13, PassSteps
  <2>2. Content' /\ Running'  BY <1>1, <1>13 DEF SyncStart, StartPass, content
  <2> QED  BY <1>2, <2>1, <2>2
<1>14. ASSUME NEW p \in Passes, RebuildStart(p) PROVE ContentOK'
  <2>1. PassesOK'  BY <1>14, PassSteps
  <2>2. Content' /\ Running'  BY <1>1, <1>5, <1>14 DEF RebuildStart, StartPass
  <2> QED  BY <1>2, <2>1, <2>2
<1>15. ASSUME NEW p \in Passes, NEW e \in Entries, PassIndexes(p, e) PROVE ContentOK'
  <2>1. PassesOK'  BY <1>15, PassSteps
  <2>2. [block |-> ids + 1, chunk |-> ids + 2] \in Target  BY <1>1 DEF Target
  <2>3. Content' /\ Running'  BY <1>1, <1>5, <1>15, <2>2 DEF PassIndexes, history
  <2> QED  BY <1>2, <2>1, <2>3
<1>16. ASSUME NEW p \in Passes, NEW e \in Entries, PassFails(p, e) PROVE ContentOK'
  <2>1. PassesOK'  BY <1>16, PassSteps
  <2>2. Content' /\ Running'  BY <1>1, <1>16 DEF PassFails, content
  <2> QED  BY <1>2, <2>1, <2>2
<1>17. ASSUME NEW p \in Passes, NEW e \in Entries, PassRemoves(p, e) PROVE ContentOK'
  <2>1. PassesOK'  BY <1>17, PassSteps
  <2>2. Content' /\ Running'  BY <1>1, <1>5, <1>17 DEF PassRemoves, history
  <2> QED  BY <1>2, <2>1, <2>2
<1>18. ASSUME NEW p \in Passes, PassWalked(p) PROVE ContentOK'
  <2>1. PassesOK'  BY <1>18, PassSteps
  <2>2. UNCHANGED <<content, job, overlapped>> /\ (settled' <=> settled /\ Whole(p)) /\ settled' \in BOOLEAN
    BY <1>18 DEF PassWalked
  <2> QED  BY <1>1, <1>2, <2>1, <2>2 DEF content
<1>19. ASSUME NEW p \in Passes, Reconcile(p) \/ ReconcileFails(p) \/ Plan(p) \/ Replace(p) \/ ReembedFails(p)
       PROVE  ContentOK'
  <2>1. PassesOK'  BY <1>19, PassSteps DEF Reconcile, ReconcileFails
  <2>2. UNCHANGED <<content, job, overlapped>> /\ settled' \in {TRUE, FALSE, settled}
    BY <1>19 DEF Reconcile, ReconcileFails, Plan, Replace, ReembedFails, history
  <2> QED  BY <1>1, <1>2, <2>1, <2>2 DEF content
<1>20. ASSUME NEW p \in Passes, NEW model \in Models, Restart(model, p) PROVE ContentOK'
  <2>1. PassesOK' /\ job' = NoJob /\ settled' = FALSE /\ UNCHANGED <<content, overlapped>>
    BY <1>20, RestartPasses DEF Restart
  <2> QED  BY <1>1, <1>2, <2>1 DEF content
<1>21. ASSUME NEW e \in Entries, NEW now \in {"block", "bare", "bad", "none"}, Outside(e, now)
       PROVE  ContentOK'
  <2>1. Content' /\ Running' /\ pass' = pass  BY <1>1, <1>21 DEF Outside, history
  <2> QED  BY <1>2, <1>4, <2>1
<1>22. CASE UNCHANGED vars  BY <1>3, <1>22 DEF vars, history
<1> HIDE DEF Content, Running, Same
<1> QED
  BY <1>6, <1>7, <1>8, <1>9, <1>10, <1>11, <1>12, <1>13, <1>14, <1>15, <1>16, <1>17, <1>18,
     <1>19, <1>20, <1>21, <1>22 DEF Next

-----------------------------------------------------------------------------
(* Who runs, and what a pass has yet to do.                                *)

\* While nothing has overlapped, one call or one pass runs ...
OneRuns ==
  ~overlapped =>
    /\ \A p, q \in Passes : pass[p] # NoPass /\ pass[q] # NoPass => p = q
    /\ job # NoJob => NoPasses

\* ... and a pass that is to reconcile finds the row of every file, or will insert it.
Awaits(p) ==
  /\ pass[p].pc = "walk" =>
       /\ \A e \in pass[p].stale : ~Live(e)
       /\ Whole(p) => \A e \in Entries : Live(e) => e \in indexed \union pass[p].todo
  /\ pass[p].pc = "reconcile" => \A e \in Entries : Live(e) => e \in indexed
WalkFinds == ~overlapped => \A p \in Passes : Awaits(p)

\* A deleted entry is gone, file and row.
DeletedGone ==
  job # NoJob /\ job.op = "delete" /\ job.done =>
    ~Live(job.entry) /\ (~overlapped => job.entry \notin indexed)

AloneInv == ContentOK /\ OneRuns /\ WalkFinds /\ DeletedGone

\* One pass and no call: the pass alone is to be looked at.
LEMMA OnePass ==
  ASSUME NEW p \in Passes, \A q \in Passes \ {p} : pass'[q] = NoPass, job' = NoJob, Awaits(p)'
  PROVE  OneRuns' /\ WalkFinds'
<1>1. ASSUME NEW q \in Passes PROVE Awaits(q)'
  <2>1. CASE q = p  BY <2>1
  <2>2. CASE q # p  BY <2>2, NoPassOK DEF Awaits
  <2> QED  BY <2>1, <2>2
<1> QED  BY <1>1 DEF OneRuns, WalkFinds

LEMMA DeletedStep == ASSUME AloneInv, [Next]_vars PROVE DeletedGone'
<1> USE DEF AloneInv
<1>1. ASSUME UNCHANGED <<file, indexed, job, overlapped>> PROVE DeletedGone'
  BY <1>1 DEF DeletedGone, Live
<1>2. ASSUME job' = NoJob PROVE DeletedGone'  BY <1>2 DEF DeletedGone
<1>3. ASSUME job \in Jobs, job.done, job.op = "delete"
      PROVE  job # NoJob /\ file[job.entry] = "none" /\ job.entry \in Entries
             /\ (~overlapped => job.entry \notin indexed /\ NoPasses)
  BY <1>3, CallSteps DEF DeletedGone, Live, OneRuns, Jobs, ContentOK
<1>4. ASSUME NEW s \in Searches,
             SearchRead(s) \/ SearchRecord(s) \/ Expire(s)
               \/ \E targets \in Requests(s) : Feedback(s, targets)
      PROVE  DeletedGone'
  <2>1. UNCHANGED <<file, indexed, job, overlapped>>
    BY <1>4 DEF SearchRead, SearchRecord, Expire, Feedback, history, content
  <2> QED  BY <1>1, <2>1
<1>5. ASSUME NEW e \in Entries, NEW op \in {"delete", "update", "blockDelete"}, Call(op, e)
      PROVE  DeletedGone'
  BY <1>5, CallSteps DEF DeletedGone
<1>6. ASSUME DeleteContent PROVE DeletedGone'
  <2>1. job.entry \in Entries /\ job'.entry = job.entry  BY <1>6, CallSteps DEF Jobs
  <2>2. file' = [file EXCEPT ![job.entry] = "none"] /\ indexed' = indexed \ {job.entry}
    BY <1>6 DEF DeleteContent
  <2>3. file'[job.entry] = "none"  BY <2>1, <2>2 DEF ContentOK
  <2> QED  BY <2>1, <2>2, <2>3 DEF DeletedGone, Live
<1>7. ASSUME UpdateContent \/ BlockDeleteContent PROVE DeletedGone'
  BY <1>7, CallSteps DEF DeletedGone
<1>8. ASSUME CallSignals \/ CallFails PROVE DeletedGone'
  BY <1>2, <1>8 DEF CallSignals, CallFails
<1>9. ASSUME NEW p \in Passes, SyncStart(p) \/ RebuildStart(p) PROVE DeletedGone'
  <2>1. file' = file /\ job' = job /\ indexed' \subseteq indexed
        /\ (~overlapped' => ~overlapped)
    BY <1>9 DEF SyncStart, RebuildStart, StartPass, content
  <2> QED  BY <2>1 DEF DeletedGone, Live
<1>10. ASSUME NEW p \in Passes, NEW e \in Entries, PassIndexes(p, e) PROVE DeletedGone'
  <2>1. file' = file /\ job' = job /\ overlapped' = overlapped /\ indexed' = indexed \union {e}
        /\ pass[p].pc = "walk"
    BY <1>10 DEF PassIndexes, history
  <2>2. ~NoPasses  BY <2>1, NoPassOK DEF NoPasses
  <2> QED  BY <2>1, <2>2 DEF DeletedGone, Live, OneRuns
<1>11. ASSUME NEW p \in Passes, NEW e \in Entries, PassFails(p, e) \/ PassRemoves(p, e)
       PROVE  DeletedGone'
  <2>1. file' = file /\ job' = job /\ overlapped' = overlapped /\ indexed' \subseteq indexed
    BY <1>11 DEF PassFails, PassRemoves, history, content
  <2> QED  BY <2>1 DEF DeletedGone, Live
<1>12. ASSUME NEW p \in Passes, PassWalked(p) \/ Reconcile(p) \/ ReconcileFails(p) \/ Plan(p)
                                  \/ Replace(p) \/ ReembedFails(p)
       PROVE  DeletedGone'
  <2>1. UNCHANGED <<file, indexed, job, overlapped>>
    BY <1>12 DEF PassWalked, Reconcile, ReconcileFails, Plan, Replace, ReembedFails, history, content
  <2> QED  BY <1>1, <2>1
<1>13. ASSUME NEW p \in Passes, NEW model \in Models, Restart(model, p) PROVE DeletedGone'
  BY <1>2, <1>13, RestartPasses
<1>14. ASSUME NEW e \in Entries, NEW now \in {"block", "bare", "bad", "none"}, Outside(e, now)
       PROVE  DeletedGone'
  <2>1. file' = [file EXCEPT ![e] = now] /\ file[e] # "none"
        /\ job' = job /\ overlapped' = overlapped /\ indexed' = indexed
    BY <1>14 DEF Outside, history
  <2>2. \A d \in Entries : file[d] = "none" => file'[d] = "none"  BY <2>1 DEF ContentOK
  <2>3. job \in Jobs \/ job = NoJob  BY DEF ContentOK
  <2>4. job \in Jobs => job.entry \in Entries  BY DEF Jobs
  <2> QED  BY <2>1, <2>2, <2>3, <2>4 DEF DeletedGone, Live
<1>15. CASE UNCHANGED vars  BY <1>1, <1>15 DEF vars, history, content
<1> QED
  BY <1>4, <1>5, <1>6, <1>7, <1>8, <1>9, <1>10, <1>11, <1>12, <1>13, <1>14, <1>15 DEF Next

LEMMA AloneStep == ASSUME AloneInv, [Next]_vars PROVE AloneInv'
<1> USE DEF AloneInv
<1>1. ContentOK' /\ DeletedGone'  BY ContentStep, DeletedStep
<1>2. ASSUME overlapped' PROVE OneRuns' /\ WalkFinds'  BY <1>2 DEF OneRuns, WalkFinds
<1>3. ASSUME UNCHANGED <<file, indexed, pass, overlapped>>, job' = job \/ job' = NoJob
      PROVE  OneRuns' /\ WalkFinds'
  BY <1>3 DEF OneRuns, WalkFinds, Awaits, Whole, Live, NoPasses
<1>4. ASSUME NoPasses', UNCHANGED <<overlapped>> PROVE OneRuns' /\ WalkFinds'
  BY <1>4, NoPassOK DEF NoPasses, OneRuns, WalkFinds, Awaits
<1>5. ASSUME ~overlapped, NEW p \in Passes, pass[p].pc # "idle"
      PROVE  job = NoJob /\ \A q \in Passes \ {p} : pass[q] = NoPass
  <2>1. pass[p] # NoPass  BY <1>5, NoPassOK
  <2> QED  BY <1>5, <2>1 DEF OneRuns, NoPasses
<1>6. ASSUME NEW p \in Passes, pass[p].pc # "idle", \A q \in Passes \ {p} : pass'[q] = pass[q],
             UNCHANGED <<overlapped, job>>, ~overlapped => Awaits(p)'
      PROVE  OneRuns' /\ WalkFinds'
  <2>1. CASE overlapped  BY <1>2, <1>6, <2>1
  <2>2. CASE ~overlapped
    <3>1. job' = NoJob /\ \A q \in Passes \ {p} : pass'[q] = NoPass  BY <1>5, <1>6, <2>2
    <3>2. Awaits(p)'  BY <1>6, <2>2
    <3> QED  BY <3>1, <3>2, OnePass
  <2> QED  BY <2>1, <2>2
<1>7. \A p \in Passes : Awaits(p) \/ overlapped  BY DEF WalkFinds
<1>8. ASSUME NEW s \in Searches,
             SearchRead(s) \/ SearchRecord(s) \/ Expire(s)
               \/ \E targets \in Requests(s) : Feedback(s, targets)
      PROVE  OneRuns' /\ WalkFinds'
  <2>1. UNCHANGED <<file, indexed, job, pass, overlapped>>
    BY <1>8 DEF SearchRead, SearchRecord, Expire, Feedback, history, content
  <2> QED  BY <1>3, <2>1
<1>9. ASSUME NEW e \in Entries, NEW op \in {"delete", "update", "blockDelete"}, Call(op, e)
      PROVE  OneRuns' /\ WalkFinds'
  <2>1. overlapped' = (overlapped \/ ~NoPasses) /\ pass' = pass  BY <1>9 DEF Call
  <2>2. CASE overlapped'  BY <1>2, <2>2
  <2>3. CASE ~overlapped'
    <3>1. NoPasses' /\ overlapped' = overlapped  BY <2>1, <2>3 DEF NoPasses, ContentOK
    <3> QED  BY <1>4, <3>1
  <2> QED  BY <2>2, <2>3
<1>10. ASSUME DeleteContent \/ UpdateContent \/ BlockDeleteContent PROVE OneRuns' /\ WalkFinds'
  <2>1. pass' = pass /\ overlapped' = overlapped
    BY <1>10 DEF DeleteContent, UpdateContent, BlockDeleteContent, history
  <2>2. job # NoJob  BY <1>10, CallSteps
  <2>3. CASE overlapped  BY <1>2, <2>1, <2>3
  <2>4. CASE ~overlapped
    <3>1. NoPasses'  BY <2>1, <2>2, <2>4 DEF OneRuns, NoPasses
    <3> QED  BY <1>4, <2>1, <3>1
  <2> QED  BY <2>3, <2>4
<1>11. ASSUME CallSignals \/ CallFails PROVE OneRuns' /\ WalkFinds'
  <2>1. job' = NoJob /\ UNCHANGED <<file, indexed, pass, overlapped>>
    BY <1>11 DEF CallSignals, CallFails, history, content
  <2> QED  BY <1>3, <2>1
<1>12. ASSUME NEW p \in Passes, SyncStart(p) \/ RebuildStart(p) PROVE OneRuns' /\ WalkFinds'
  <2>1. StartPass(p) /\ job' = job /\ file' = file
    BY <1>12 DEF SyncStart, RebuildStart, content
  <2>2. overlapped' = (overlapped \/ job # NoJob \/ ~NoPasses)  BY <2>1 DEF StartPass
  <2>3. CASE overlapped'  BY <1>2, <2>3
  <2>4. CASE ~overlapped'
    <3>1. job' = NoJob /\ \A q \in Passes \ {p} : pass'[q] = NoPass
      BY <1>12, <2>1, <2>2, <2>4, PassSteps DEF NoPasses
    <3>2. CASE SyncStart(p)
      <4>1. pass'[p] = Scan("sync") /\ indexed' = indexed
        BY <3>2, PassSteps DEF SyncStart, content
      <4>2. Awaits(p)'  BY <2>1, <4>1, ScanOK DEF Awaits, Whole, Live, OnDisk, ContentOK
      <4> QED  BY <3>1, <4>2, OnePass
    <3>3. CASE RebuildStart(p)
      <4>1. pass'[p].pc = "walk" /\ pass'[p].todo = OnDisk /\ pass'[p].stale = {}
        BY <3>3, PassSteps
      <4>2. Awaits(p)'  BY <2>1, <4>1 DEF Awaits, Whole, Live, OnDisk
      <4> QED  BY <3>1, <4>2, OnePass
    <3> QED  BY <1>12, <3>2, <3>3
  <2> QED  BY <2>3, <2>4
<1>13. ASSUME NEW p \in Passes, NEW e \in Entries, PassIndexes(p, e) PROVE OneRuns' /\ WalkFinds'
  <2>1. pass[p].pc = "walk" /\ file' = file /\ indexed' = indexed \union {e}
        /\ UNCHANGED <<overlapped, job>>
    BY <1>13 DEF PassIndexes, history
  <2>2. /\ pass'[p].pc = "walk" /\ pass'[p].whole = pass[p].whole
        /\ pass'[p].todo = pass[p].todo \ {e} /\ pass'[p].stale = pass[p].stale
        /\ \A q \in Passes \ {p} : pass'[q] = pass[q]
    BY <1>13, PassSteps
  <2>3. ~overlapped => Awaits(p)'  BY <1>7, <2>1, <2>2 DEF Awaits, Whole, Live
  <2> QED  BY <1>6, <2>1, <2>2, <2>3
<1>14. ASSUME NEW p \in Passes, NEW e \in Entries, PassFails(p, e) PROVE OneRuns' /\ WalkFinds'
  <2>1. pass[p].pc = "walk" /\ file' = file /\ indexed' = indexed /\ UNCHANGED <<overlapped, job>>
    BY <1>14 DEF PassFails, content
  <2>2. /\ \A q \in Passes \ {p} : pass'[q] = pass[q]
        /\ \/ pass'[p] = NoPass
           \/ pass'[p].pc = "walk" /\ ~pass'[p].whole /\ pass'[p].stale = pass[p].stale
    BY <1>14, PassSteps
  <2>3. ~overlapped => Awaits(p)'  BY <1>7, <2>1, <2>2, NoPassOK DEF Awaits, Whole, Live
  <2> QED  BY <1>6, <2>1, <2>2, <2>3
<1>15. ASSUME NEW p \in Passes, NEW e \in Entries, PassRemoves(p, e) PROVE OneRuns' /\ WalkFinds'
  <2>1. /\ pass[p].pc = "walk" /\ file' = file /\ indexed' = indexed \ {e}
        /\ UNCHANGED <<overlapped, job>>
        /\ file[e] = "none" \/ e \in pass[p].stale
    BY <1>15 DEF PassRemoves, history
  <2>2. /\ pass'[p].pc = "walk" /\ pass'[p].whole = pass[p].whole
        /\ pass'[p].todo = pass[p].todo \ {e} /\ pass'[p].stale = pass[p].stale \ {e}
        /\ \A q \in Passes \ {p} : pass'[q] = pass[q]
    BY <1>15, PassSteps
  <2>3. ~overlapped => ~Live(e)  BY <1>7, <2>1 DEF Awaits, Live
  <2>4. ~overlapped => Awaits(p)'  BY <1>7, <2>1, <2>2, <2>3 DEF Awaits, Whole, Live
  <2> QED  BY <1>6, <2>1, <2>2, <2>4
<1>16. ASSUME NEW p \in Passes, PassWalked(p) PROVE OneRuns' /\ WalkFinds'
  <2>1. /\ pass[p].pc = "walk" /\ pass[p].todo = {} /\ file' = file /\ indexed' = indexed
        /\ UNCHANGED <<overlapped, job>>
    BY <1>16 DEF PassWalked, content
  <2>2. /\ \A q \in Passes \ {p} : pass'[q] = pass[q]
        /\ pass'[p] = NoPass \/ (Whole(p) /\ pass'[p].pc = "reconcile")
    BY <1>16, PassSteps
  <2>3. ~overlapped => Awaits(p)'  BY <1>7, <2>1, <2>2, NoPassOK DEF Awaits, Live
  <2> QED  BY <1>6, <2>1, <2>2, <2>3
<1>17. ASSUME NEW p \in Passes,
              Reconcile(p) \/ ReconcileFails(p) \/ Plan(p) \/ Replace(p) \/ ReembedFails(p)
       PROVE  OneRuns' /\ WalkFinds'
  <2>1. pass[p].pc # "idle" /\ UNCHANGED <<overlapped, job>>
    BY <1>17 DEF Reconcile, ReconcileFails, Plan, Replace, ReembedFails, history
  <2>2. AfterReconcile(p) \/ Plan(p) \/ Replace(p) \/ ReembedFails(p)
    BY <1>17 DEF Reconcile, ReconcileFails
  <2>3. /\ \A q \in Passes \ {p} : pass'[q] = pass[q]
        /\ pass'[p].pc \notin {"walk", "reconcile"}
    BY <2>2, PassSteps
  <2>4. Awaits(p)'  BY <2>3 DEF Awaits
  <2> QED  BY <1>6, <2>1, <2>3, <2>4
<1>18. ASSUME NEW p \in Passes, NEW model \in Models, Restart(model, p) PROVE OneRuns' /\ WalkFinds'
  <2>1. pass'[p] = Scan("boot") /\ job' = NoJob /\ \A q \in Passes \ {p} : pass'[q] = NoPass
    BY <1>18, RestartPasses
  <2>2. file' = file /\ indexed' = indexed  BY <1>18 DEF Restart, content
  <2>3. Awaits(p)'  BY <2>1, <2>2, ScanOK DEF Awaits, Whole, Live, OnDisk, ContentOK
  <2> QED  BY <2>1, <2>3, OnePass
<1>19. ASSUME NEW e \in Entries, NEW now \in {"block", "bare", "bad", "none"}, Outside(e, now)
       PROVE  OneRuns' /\ WalkFinds'
  <2>1. file' = [file EXCEPT ![e] = now] /\ file[e] # "none"
        /\ UNCHANGED <<job, pass, overlapped, indexed>>
    BY <1>19 DEF Outside, history
  <2>2. \A d \in Entries : Live(d)' => Live(d)  BY <2>1 DEF Live, ContentOK
  <2>3. \A p \in Passes : pass[p].stale \subseteq Entries  BY DEF ContentOK, PassesOK
  <2>4. \A p \in Passes : Awaits(p) => Awaits(p)'  BY <2>1, <2>2, <2>3 DEF Awaits, Whole
  <2> QED  BY <1>7, <2>1, <2>4 DEF OneRuns, WalkFinds, NoPasses
<1>20. ASSUME UNCHANGED vars PROVE OneRuns' /\ WalkFinds'  BY <1>3, <1>20 DEF vars, history, content
<1> QED
  BY <1>1, <1>8, <1>9, <1>10, <1>11, <1>12, <1>13, <1>14, <1>15, <1>16, <1>17, <1>18, <1>19, <1>20
  DEF Next

-----------------------------------------------------------------------------
(* Feedback and what it earns.                                             *)

\* An entry's strength and its receipts are those of its answered feedback.
Credited(e) ==
  /\ stats[e] = Cap(Cardinality(credited[e]))
  /\ \A s \in Searches : <<s, e>> \in receipts <=> s \in credited[e]

\* A file that was removed may come back, by block.update, while its row is there:
\* what is indexed keeps its strength as well.
CreditKept ==
  /\ stats \in [Entries -> Nat] /\ DOMAIN credited = Entries
  /\ \A e \in Entries : IsFiniteSet(credited[e])
  /\ ~overlapped => \A e \in Entries : Live(e) \/ e \in indexed => Credited(e)

CreditInv == AloneInv /\ CreditKept

LEMMA CapOnce ==
  ASSUME NEW n \in Nat
  PROVE  Cap(n) \in Nat /\ Cap(Cap(n) + 1) = Cap(n + 1)
BY ConstantsAssumption DEF Cap

LEMMA FeedbackCredit ==
  ASSUME CreditInv, NEW s \in Searches, NEW targets, Feedback(s, targets)
  PROVE  CreditKept'
<1> USE DEF CreditInv, CreditKept
<1> DEFINE new == New(s, targets)
<1>1. /\ receipts' = receipts \union {<<s, e>> : e \in new}
      /\ stats' = [e \in Entries |-> IF e \in new THEN Cap(stats[e] + 1) ELSE stats[e]]
      /\ credited' = [e \in Entries |-> IF e \in new THEN credited[e] \union {s} ELSE credited[e]]
      /\ UNCHANGED <<file, indexed, overlapped>>
      /\ \A e \in new : e \in indexed
  BY DEF Feedback, content, Owned
<1>2. \A e \in new : <<s, e>> \notin receipts  BY DEF New
<1> HIDE DEF new
<1>3. \A e \in Entries : /\ IsFiniteSet(credited[e]) /\ Cardinality(credited[e]) \in Nat
                         /\ IsFiniteSet(credited[e] \union {s})
                         /\ s \notin credited[e] =>
                              Cardinality(credited[e] \union {s}) = Cardinality(credited[e]) + 1
  BY FS_CardinalityType, FS_AddElement
<1>4. stats' \in [Entries -> Nat]  BY <1>1, ConstantsAssumption DEF Cap
<1>5. \A e \in Entries : IsFiniteSet(credited'[e])  BY <1>1, <1>3
<1>6. ASSUME ~overlapped, NEW e \in Entries, Live(e) \/ e \in indexed PROVE Credited(e)'
  <2>1. Credited(e)  BY <1>6
  <2>2. CASE e \in new
    <3>1. s \notin credited[e]  BY <1>2, <2>1, <2>2 DEF Credited
    <3>2. stats'[e] = Cap(stats[e] + 1) /\ credited'[e] = credited[e] \union {s}  BY <1>1, <2>2
    <3>3. stats'[e] = Cap(Cardinality(credited'[e]))
      BY <1>3, <2>1, <3>1, <3>2, CapOnce DEF Credited
    <3>4. \A r \in Searches : <<r, e>> \in receipts' <=> r \in credited'[e]
      BY <1>1, <2>1, <2>2, <3>2 DEF Credited
    <3> QED  BY <3>3, <3>4 DEF Credited
  <2>3. CASE e \notin new
    <3>1. stats'[e] = stats[e] /\ credited'[e] = credited[e]  BY <1>1, <2>3
    <3>2. \A r \in Searches : <<r, e>> \in receipts' <=> <<r, e>> \in receipts  BY <1>1, <2>3
    <3> QED  BY <2>1, <3>1, <3>2 DEF Credited
  <2> QED  BY <2>2, <2>3
<1>7. ~overlapped' => \A e \in Entries : Live(e)' \/ e \in indexed' => Credited(e)'
  BY <1>1, <1>6 DEF Live
<1> QED  BY <1>1, <1>4, <1>5, <1>7

\* Cleaning up takes the strength of entries that are gone, and of no other.
LEMMA CleanUpCredit ==
  ASSUME CreditInv, NEW gone, NEW blocks, NEW chunks, CleanUp(gone, blocks, chunks),
         UNCHANGED <<file, indexed, overlapped, credited>>,
         ~overlapped => \A e \in gone \intersect Entries : ~Live(e) /\ e \notin indexed
  PROVE  CreditKept'
<1> USE DEF CreditInv, CreditKept
<1>1. stats' = [e \in Entries |-> IF e \in gone THEN 0 ELSE stats[e]]
      /\ receipts' = {r \in receipts : r[2] \notin gone}
  BY DEF CleanUp
<1>2. ASSUME ~overlapped, NEW e \in Entries, Live(e) \/ e \in indexed PROVE Credited(e)'
  <2>1. e \notin gone /\ Credited(e)  BY <1>2
  <2>2. stats'[e] = stats[e]  BY <1>1, <2>1
  <2>3. \A s \in Searches : <<s, e>> \in receipts' <=> <<s, e>> \in receipts  BY <1>1, <2>1
  <2> QED  BY <2>1, <2>2, <2>3 DEF Credited
<1>3. stats' \in [Entries -> Nat]  BY <1>1
<1> QED  BY <1>2, <1>3 DEF Live

LEMMA CreditStep == ASSUME CreditInv, [Next]_vars PROVE CreditInv'
<1> USE DEF CreditInv
<1>1. AloneInv'  BY AloneStep
<1> USE DEF AloneInv
\* Nothing comes back that had neither file nor row, and no strength changes.
<1>2. ASSUME UNCHANGED <<stats, receipts, credited>>, ~overlapped' => ~overlapped,
             \A e \in Entries : Live(e)' \/ e \in indexed' => Live(e) \/ e \in indexed
      PROVE  CreditKept'
  BY <1>2 DEF CreditKept, Credited
<1>3. ASSUME NEW s \in Searches, SearchRead(s) \/ SearchRecord(s) \/ Expire(s) PROVE CreditKept'
  BY <1>2, <1>3 DEF SearchRead, SearchRecord, Expire, history, content, Live
<1>4. ASSUME NEW s \in Searches, NEW targets, Feedback(s, targets) PROVE CreditKept'
  BY <1>4, FeedbackCredit
<1>5. ASSUME NEW e \in Entries, NEW op \in {"delete", "update", "blockDelete"}, Call(op, e)
      PROVE  CreditKept'
  BY <1>2, <1>5 DEF Call, signals, content, Live
<1>6. ASSUME DeleteContent \/ UpdateContent \/ BlockDeleteContent PROVE CreditKept'
  <2>1. job \in Jobs /\ job.entry \in Entries  BY <1>6, CallSteps DEF Jobs
  <2>2. UNCHANGED <<stats, receipts, credited, overlapped>> /\ indexed' \subseteq indexed
    BY <1>6 DEF DeleteContent, UpdateContent, BlockDeleteContent, signals, history
  <2>3. \E now \in {"none", "block", "bare"} :
          file' = [file EXCEPT ![job.entry] = now] /\ (now # "none" => job.entry \in indexed)
    BY <1>6, CallSteps DEF DeleteContent, UpdateContent, BlockDeleteContent
  <2>4. \A e \in Entries : Live(e)' => Live(e) \/ e \in indexed
    BY <2>1, <2>3 DEF Live, ContentOK
  <2> QED  BY <1>2, <2>2, <2>4
<1>7. ASSUME CallSignals PROVE CreditKept'
  <2>1. UNCHANGED <<file, indexed, overlapped, credited>> /\ job.done
    BY <1>7 DEF CallSignals, history, content
  <2>2. CASE job.op = "delete" /\ CleanUp({job.entry}, {}, {})
    <3> ~NoJob.done  BY DEF NoJob
    <3>1. job # NoJob  BY <2>1
    <3>2. ~Live(job.entry) /\ (~overlapped => job.entry \notin indexed)
      BY <2>1, <2>2, <3>1 DEF DeletedGone
    <3> QED  BY <2>1, <2>2, <3>2, CleanUpCredit
  <2>3. ASSUME NEW blocks, NEW chunks, CleanUp({}, blocks, chunks) PROVE CreditKept'
    BY <2>1, <2>3, CleanUpCredit
  <2> QED  BY <1>7, <2>2, <2>3 DEF CallSignals
<1>8. ASSUME CallFails PROVE CreditKept'
  BY <1>2, <1>8 DEF CallFails, signals, content, Live
<1>9. ASSUME NEW p \in Passes, SyncStart(p) \/ RebuildStart(p) PROVE CreditKept'
  BY <1>2, <1>9 DEF SyncStart, RebuildStart, StartPass, signals, content, Live
<1>10. ASSUME NEW p \in Passes, NEW e \in Entries, PassIndexes(p, e) PROVE CreditKept'
  <2>1. /\ UNCHANGED <<stats, receipts, credited, overlapped, file>> /\ indexed' = indexed \union {e}
        /\ file[e] # "none"
    BY <1>10 DEF PassIndexes, signals, history
  <2> QED  BY <1>2, <2>1 DEF Live
<1>11. ASSUME NEW p \in Passes, NEW e \in Entries, PassFails(p, e) \/ PassRemoves(p, e)
       PROVE  CreditKept'
  <2>1. UNCHANGED <<stats, receipts, credited, overlapped, file>> /\ indexed' \subseteq indexed
    BY <1>11 DEF PassFails, PassRemoves, signals, history, content
  <2> QED  BY <1>2, <2>1 DEF Live
<1>12. ASSUME NEW p \in Passes,
              PassWalked(p) \/ ReconcileFails(p) \/ Plan(p) \/ Replace(p) \/ ReembedFails(p)
       PROVE  CreditKept'
  <2>1. UNCHANGED <<stats, receipts, credited, overlapped, file, indexed>>
    BY <1>12 DEF PassWalked, ReconcileFails, Plan, Replace, ReembedFails, signals, history, content
  <2> QED  BY <1>2, <2>1 DEF Live
<1>13. ASSUME NEW p \in Passes, Reconcile(p) PROVE CreditKept'
  <2>1. UNCHANGED <<file, indexed, overlapped, credited>> /\ pass[p].pc = "reconcile"
    BY <1>13 DEF Reconcile, content
  <2>2. ~overlapped => \A e \in Entries : Live(e) => e \in indexed
    BY <2>1 DEF WalkFinds, Awaits
  <2>3. CleanUp(Entries \ indexed, (1 .. ids) \ {at[e].block : e \in Entries},
                                   (1 .. ids) \ {at[e].chunk : e \in Entries})
    BY <1>13 DEF Reconcile
  <2> QED  BY <2>1, <2>2, <2>3, CleanUpCredit
<1>14. ASSUME NEW p \in Passes, NEW model \in Models, Restart(model, p) PROVE CreditKept'
  BY <1>2, <1>14 DEF Restart, content, Live
<1>15. ASSUME NEW e \in Entries, NEW now \in {"block", "bare", "bad", "none"}, Outside(e, now)
       PROVE  CreditKept'
  <2>1. UNCHANGED <<stats, receipts, credited, overlapped, indexed>>
        /\ file' = [file EXCEPT ![e] = now] /\ file[e] # "none"
    BY <1>15 DEF Outside, signals, history
  <2> QED  BY <1>2, <2>1 DEF Live, ContentOK
<1>16. ASSUME UNCHANGED vars PROVE CreditKept'
  BY <1>2, <1>16 DEF vars, signals, history, content, Live
<1> QED
  BY <1>1, <1>3, <1>4, <1>5, <1>6, <1>7, <1>8, <1>9, <1>10, <1>11, <1>12, <1>13, <1>14, <1>15, <1>16
  DEF Next

LEMMA CreditInit == Init => CreditInv
<1> SUFFICES ASSUME Init PROVE CreditInv  OBVIOUS
<1>1. ContentOK  BY ContentInit
<1>2. OneRuns /\ WalkFinds /\ DeletedGone
  BY NoPassOK DEF Init, OneRuns, WalkFinds, Awaits, DeletedGone, NoJob, NoPasses
<1>3. IsFiniteSet({}) /\ Cardinality({}) = 0  BY FS_EmptySet
<1>4. CreditKept
  BY <1>3, ConstantsAssumption DEF Init, CreditKept, Credited, Cap
<1> QED  BY <1>1, <1>2, <1>4 DEF CreditInv, AloneInv

\* The strength of an entry whose file exists counts the searches whose feedback on it
\* was answered as applied, each once, up to the cap, for any history of calls, passes,
\* failures, crashes and edits in which no pass ran beside another or beside a call
\* (apply_feedback, delete_entries_signals, reconcile_content_references).
THEOREM FeedbackAlwaysCounts == Spec => []FeedbackCounts
<1>1. Init => CreditInv  BY CreditInit
<1>2. CreditInv /\ [Next]_vars => CreditInv'  BY CreditStep
<1>3. CreditInv => FeedbackCounts  BY DEF CreditInv, CreditKept, Credited, FeedbackCounts
<1> QED  BY <1>1, <1>2, <1>3, PTL DEF Spec

-----------------------------------------------------------------------------
(* What was learned does not weaken.                                       *)

CountsOK == \A k \in DOMAIN aff : aff[k].count \in 1 .. MaxReinforcements

LEMMA MaxIs ==
  ASSUME NEW N \in Nat, NEW S \in SUBSET (0 .. N), S # {}
  PROVE  Max(S) \in S /\ \A y \in S : y <= Max(S)
<1>1. \E x \in S : \A y \in S : x >= y  BY Greatest
<1>2. Max(S) \in S /\ \A y \in S : Max(S) >= y  BY <1>1 DEF Max
<1> QED  BY <1>2

\* The strongest of the affinities a of an entry, if it has any, has the entry's strength.
Best(a, e) == Max({0} \union {a[k].count : k \in {k \in DOMAIN a : k[2] = e}})

LEMMA BestIs ==
  ASSUME NEW a, \A k \in DOMAIN a : a[k].count \in 1 .. MaxReinforcements, NEW e
  PROVE  /\ Best(a, e) \in 0 .. MaxReinforcements
         /\ \A k \in DOMAIN a : k[2] = e => a[k].count <= Best(a, e)
         /\ Best(a, e) # 0 => \E k \in DOMAIN a : k[2] = e /\ a[k].count = Best(a, e)
<1> DEFINE S == {0} \union {a[k].count : k \in {k \in DOMAIN a : k[2] = e}}
<1>1. MaxReinforcements \in Nat  BY ConstantsAssumption
<1>2. S \in SUBSET (0 .. MaxReinforcements) /\ S # {}  BY <1>1
<1>3. Max(S) \in S /\ \A y \in S : y <= Max(S)
  <2> HIDE DEF S
  <2> QED  BY <1>1, <1>2, MaxIs
<1>4. Best(a, e) = Max(S)  BY DEF Best
<1> HIDE DEF Max
<1> QED  BY <1>2, <1>3, <1>4

\* If every affinity of an entry has one that is no weaker, so has the strongest.
LEMMA NoWeaker ==
  ASSUME CountsOK, CountsOK', NEW e,
         \A k \in DOMAIN aff : k[2] = e =>
           \E n \in DOMAIN aff' : n[2] = e /\ aff[k].count <= aff'[n].count
  PROVE  Strongest(e)' >= Strongest(e)
<1>1. Strongest(e) = Best(aff, e) /\ Strongest(e)' = Best(aff', e)  BY DEF Strongest, Best
<1>2. /\ Best(aff, e) \in 0 .. MaxReinforcements /\ Best(aff', e) \in 0 .. MaxReinforcements
      /\ \A n \in DOMAIN aff' : n[2] = e => aff'[n].count <= Best(aff', e)
      /\ Best(aff, e) # 0 => \E k \in DOMAIN aff : k[2] = e /\ aff[k].count = Best(aff, e)
  BY BestIs DEF CountsOK
<1>3. CASE Best(aff, e) = 0  BY <1>1, <1>2, <1>3, ConstantsAssumption
<1>4. CASE Best(aff, e) # 0
  <2>1. PICK k \in DOMAIN aff : k[2] = e /\ aff[k].count = Best(aff, e)  BY <1>2, <1>4
  <2>2. PICK n \in DOMAIN aff' : n[2] = e /\ aff[k].count <= aff'[n].count  BY <2>1
  <2>3. aff'[n].count <= Best(aff', e) /\ aff'[n].count \in Nat /\ Best(aff, e) \in Nat
        /\ Best(aff', e) \in Nat
    BY <1>2, <2>2, ConstantsAssumption DEF CountsOK
  <2> QED  BY <1>1, <2>1, <2>2, <2>3
<1> QED  BY <1>3, <1>4

\* Merging keeps the greatest count of those that meet.
LEMMA MergedStrength ==
  ASSUME CountsOK, NEW to, DOMAIN to \subseteq DOMAIN aff,
         aff' = [n \in NewKeys(to) |-> Merged(Becoming(n, to))]
  PROVE  /\ CountsOK'
         /\ \A k \in DOMAIN to : to[k] \in DOMAIN aff' /\ aff[k].count <= aff'[to[k]].count
<1>1. ASSUME NEW n \in NewKeys(to)
      PROVE  /\ aff'[n].count \in 1 .. MaxReinforcements
             /\ \A k \in Becoming(n, to) : aff[k].count <= aff'[n].count
  <2> DEFINE ks == Becoming(n, to)
             S == {aff[k].count : k \in ks}
  <2>1. ks # {} /\ ks \subseteq DOMAIN aff  BY DEF NewKeys, Becoming
  <2>2. S \in SUBSET (1 .. MaxReinforcements) /\ S # {}  BY <2>1 DEF CountsOK
  <2>3. MaxReinforcements \in Nat /\ S \in SUBSET (0 .. MaxReinforcements)
    BY <2>2, ConstantsAssumption
  <2>4. aff'[n].count = Max(S)  BY DEF Merged, Strength
  <2> HIDE DEF S, ks, Max
  <2>5. Max(S) \in S /\ \A y \in S : y <= Max(S)  BY <2>2, <2>3, MaxIs
  <2>6. \A k \in ks : aff[k].count \in S  BY DEF S
  <2> QED  BY <2>2, <2>4, <2>5, <2>6 DEF ks
<1>2. DOMAIN aff' = NewKeys(to)  OBVIOUS
<1>3. \A k \in DOMAIN to : to[k] \in NewKeys(to) /\ k \in Becoming(to[k], to)
  BY DEF NewKeys, Becoming
<1> QED  BY <1>1, <1>2, <1>3 DEF CountsOK

LEMMA CleanUpLearned ==
  ASSUME CountsOK, NEW gone, NEW blocks, NEW chunks, CleanUp(gone, blocks, chunks)
  PROVE  CountsOK' /\ \A e : e \notin gone => Strongest(e)' >= Strongest(e)
<1> DEFINE to == [k \in Remaining(gone, blocks, chunks) |->
                    <<k[1], k[2], Degraded(k[3], blocks, chunks)>>]
<1>1. DOMAIN to \subseteq DOMAIN aff  BY DEF Remaining
<1>2. aff' = [n \in NewKeys(to) |-> Merged(Becoming(n, to))]  BY DEF CleanUp, Moved
<1>3. \A k \in DOMAIN aff : k[2] \notin gone => k \in DOMAIN to /\ to[k][2] = k[2]
  BY DEF Remaining
<1> HIDE DEF to
<1>4. CountsOK' /\ \A k \in DOMAIN to : to[k] \in DOMAIN aff' /\ aff[k].count <= aff'[to[k]].count
  BY <1>1, <1>2, MergedStrength
<1>5. ASSUME NEW e, e \notin gone PROVE Strongest(e)' >= Strongest(e)
  BY <1>3, <1>4, <1>5, NoWeaker
<1> QED  BY <1>4, <1>5

LEMMA FeedbackLearned ==
  ASSUME CountsOK, NEW s \in Searches, NEW targets, Feedback(s, targets)
  PROVE  CountsOK' /\ \A e : Strongest(e)' >= Strongest(e)
<1> DEFINE keys == {<<session[s].model, e, targets[e]>> : e \in New(s, targets)}
           old(k) == IF k \in DOMAIN aff THEN aff[k].count ELSE 0
<1>1. /\ DOMAIN aff' = DOMAIN aff \union keys
      /\ \A k \in keys : aff'[k].count = Cap(old(k) + 1)
      /\ \A k \in DOMAIN aff \ keys : aff'[k] = aff[k]
  BY DEF Feedback
<1> HIDE DEF keys
<1>2. \A k \in DOMAIN aff' : aff'[k].count \in 1 .. MaxReinforcements
  <2>1. ASSUME NEW k \in keys PROVE Cap(old(k) + 1) \in 1 .. MaxReinforcements
    <3>1. old(k) \in 0 .. MaxReinforcements  BY ConstantsAssumption DEF CountsOK
    <3> QED  BY <3>1, ConstantsAssumption DEF Cap
  <2> QED  BY <1>1, <2>1 DEF CountsOK
<1>3. ASSUME NEW k \in DOMAIN aff PROVE k \in DOMAIN aff' /\ aff[k].count <= aff'[k].count
  <2>1. aff[k].count \in 1 .. MaxReinforcements  BY DEF CountsOK
  <2>2. aff[k].count <= Cap(aff[k].count + 1)  BY <2>1, ConstantsAssumption DEF Cap
  <2> QED  BY <1>1, <2>1, <2>2, ConstantsAssumption
<1>4. CountsOK'  BY <1>2 DEF CountsOK
<1>5. ASSUME NEW e PROVE Strongest(e)' >= Strongest(e)  BY <1>3, <1>4, NoWeaker
<1> QED  BY <1>4, <1>5

LEMMA ReplaceLearned ==
  ASSUME CountsOK, NEW p \in Passes, Replace(p)
  PROVE  CountsOK' /\ \A e : Strongest(e)' >= Strongest(e)
<1> DEFINE to == [k \in DOMAIN aff |-> <<active, k[2], k[3]>>]
<1>1. aff' = [n \in NewKeys(to) |-> Merged(Becoming(n, to))]  BY DEF Replace
<1>2. \A k \in DOMAIN aff : k \in DOMAIN to /\ to[k][2] = k[2]  OBVIOUS
<1>3. DOMAIN to \subseteq DOMAIN aff  OBVIOUS
<1> HIDE DEF to
<1>4. CountsOK' /\ \A k \in DOMAIN to : to[k] \in DOMAIN aff' /\ aff[k].count <= aff'[to[k]].count
  BY <1>1, <1>3, MergedStrength
<1>5. ASSUME NEW e PROVE Strongest(e)' >= Strongest(e)  BY <1>2, <1>4, NoWeaker
<1> QED  BY <1>4, <1>5

Learned ==
  /\ CountsOK'
  /\ \A e \in Entries : Live(e) /\ Live(e)' /\ ~overlapped' => Strongest(e)' >= Strongest(e)

LEMMA LearnedStep == ASSUME AloneInv, CountsOK, [Next]_vars PROVE Learned
<1> USE DEF AloneInv
<1>1. ASSUME aff' = aff PROVE Learned
  <2>1. CountsOK'  BY <1>1 DEF CountsOK
  <2>2. ASSUME NEW e \in Entries PROVE Strongest(e)' >= Strongest(e)
    <3>1. \A k \in DOMAIN aff : aff[k].count \in Nat  BY ConstantsAssumption DEF CountsOK
    <3> QED  BY <1>1, <2>1, <3>1, NoWeaker
  <2> QED  BY <2>1, <2>2 DEF Learned
<1>2. ASSUME NEW s \in Searches, SearchRead(s) \/ SearchRecord(s) \/ Expire(s) PROVE Learned
  BY <1>1, <1>2 DEF SearchRead, SearchRecord, Expire
<1>3. ASSUME NEW s \in Searches, NEW targets, Feedback(s, targets) PROVE Learned
  BY <1>3, FeedbackLearned DEF Learned
<1>4. ASSUME NEW e \in Entries, NEW op, Call(op, e) PROVE Learned
  BY <1>1, <1>4 DEF Call, signals
<1>5. ASSUME DeleteContent \/ UpdateContent \/ BlockDeleteContent \/ CallFails PROVE Learned
  BY <1>1, <1>5 DEF DeleteContent, UpdateContent, BlockDeleteContent, CallFails, signals
<1>6. ASSUME CallSignals PROVE Learned
  <2>1. job.done  BY <1>6 DEF CallSignals
  <2>2. CASE job.op = "delete" /\ CleanUp({job.entry}, {}, {})
    <3> ~NoJob.done  BY DEF NoJob
    <3>1. job # NoJob  BY <2>1
    <3>2. ~Live(job.entry)  BY <2>1, <2>2, <3>1 DEF DeletedGone
    <3>3. CountsOK' /\ \A e : e \notin {job.entry} => Strongest(e)' >= Strongest(e)
      BY <2>2, CleanUpLearned
    <3> QED  BY <3>2, <3>3 DEF Learned
  <2>3. ASSUME NEW blocks, NEW chunks, CleanUp({}, blocks, chunks) PROVE Learned
    <3>1. CountsOK' /\ \A e : e \notin {} => Strongest(e)' >= Strongest(e)
      BY <2>3, CleanUpLearned
    <3> QED  BY <3>1 DEF Learned
  <2> QED  BY <1>6, <2>2, <2>3 DEF CallSignals
<1>7. ASSUME NEW p \in Passes, SyncStart(p) \/ RebuildStart(p) PROVE Learned
  BY <1>1, <1>7 DEF SyncStart, RebuildStart, signals
<1>8. ASSUME NEW p \in Passes, NEW e \in Entries, PassIndexes(p, e) \/ PassFails(p, e) \/ PassRemoves(p, e)
      PROVE  Learned
  BY <1>1, <1>8 DEF PassIndexes, PassFails, PassRemoves, signals
<1>9. ASSUME NEW p \in Passes, PassWalked(p) \/ ReconcileFails(p) \/ Plan(p) \/ ReembedFails(p)
      PROVE  Learned
  BY <1>1, <1>9 DEF PassWalked, ReconcileFails, Plan, ReembedFails, signals
<1>10. ASSUME NEW p \in Passes, Reconcile(p) PROVE Learned
  <2>1. CleanUp(Entries \ indexed, (1 .. ids) \ {at[e].block : e \in Entries},
                                   (1 .. ids) \ {at[e].chunk : e \in Entries})
        /\ pass[p].pc = "reconcile" /\ overlapped' = overlapped
    BY <1>10 DEF Reconcile
  <2>2. ~overlapped => \A e \in Entries : Live(e) => e \in indexed
    BY <2>1 DEF WalkFinds, Awaits
  <2>3. CountsOK' /\ \A e : e \notin Entries \ indexed => Strongest(e)' >= Strongest(e)
    BY <2>1, CleanUpLearned
  <2> QED  BY <2>1, <2>2, <2>3 DEF Learned
<1>11. ASSUME NEW p \in Passes, Replace(p) PROVE Learned
  BY <1>11, ReplaceLearned DEF Learned
<1>12. ASSUME NEW p \in Passes, NEW model \in Models, Restart(model, p) PROVE Learned
  BY <1>1, <1>12 DEF Restart
<1>13. ASSUME NEW e \in Entries, NEW now, Outside(e, now) PROVE Learned
  BY <1>1, <1>13 DEF Outside, signals
<1>14. ASSUME UNCHANGED vars PROVE Learned
  BY <1>1, <1>14 DEF vars, signals
<1> QED
  BY <1>2, <1>3, <1>4, <1>5, <1>6, <1>7, <1>8, <1>9, <1>10, <1>11, <1>12, <1>13, <1>14 DEF Next

\* What was learned about an entry whose file exists never weakens: when the targets
\* of affinities meet after a block, a chunk or a model has changed, the strongest
\* count is kept, and no pass that runs alone drops an entry that will be indexed
\* again (degrade_affinity_precision_in_tx, replace_affinity_vectors).
THEOREM LearnedAlwaysStays == Spec => LearnedStays
<1> DEFINE Inv == AloneInv /\ CountsOK
<1>1. Init => Inv
  <2>1. Init => AloneInv  BY CreditInit DEF CreditInv
  <2> QED  BY <2>1 DEF Init, CountsOK
<1>2. Inv /\ [Next]_vars =>
        Inv' /\ [\A e \in Entries : Live(e) /\ Live(e)' /\ ~overlapped'
                    => Strongest(e)' >= Strongest(e)]_vars
  BY AloneStep, LearnedStep DEF Learned
<1> HIDE DEF Inv
<1> QED  BY <1>1, <1>2, PTL DEF Spec, LearnedStays

-----------------------------------------------------------------------------
(* What an affinity points at.                                             *)

Parts == {"block", "chunk"}

\* What a search recorded names entries and ids.
SessionFields == {"pc", "model", "results"}
RecordOK(r) ==
  /\ DOMAIN r = SessionFields
  /\ DOMAIN r.results \subseteq Entries
  /\ \A e \in DOMAIN r.results : r.results[e] \in Target
SessionsOK == DOMAIN session = Searches /\ \A s \in Searches : RecordOK(session[s])

\* An id is given out once, to one entry; a call that has yet to change the content
\* finds its block with the chunk it has read, or not at all.
EntryIds(e) ==
  /\ at[e].block <= ids /\ at[e].chunk <= ids
  /\ at[e].block = 0 => at[e] = ToEntry
  /\ \A d \in Entries \ {e} : \A p \in Parts : at[e][p] # at[d][p] \/ at[e][p] = 0
CallIds ==
  job # NoJob =>
    /\ job.old.block <= ids /\ job.old.chunk <= ids
    /\ job.op # "delete" /\ ~job.done =>
         job.old.block # 0 /\ (at[job.entry].block = job.old.block => at[job.entry] = job.old)
IdsOK == (\A e \in Entries : EntryIds(e)) /\ CallIds

\* A target's parts are ids of its entry, now or before.
TargetOK(k) ==
  /\ k[2] \in Entries /\ k[3] \in Target
  /\ k[3].block <= ids /\ k[3].chunk <= ids
  /\ \A d \in Entries \ {k[2]} : \A p \in Parts : k[3][p] = 0 \/ k[3][p] # at[d][p]
TargetsOK == \A k \in DOMAIN aff : TargetOK(k)

\* A target that its entry has, and one that the call will mend.
Owns(k) == k[2] \in indexed /\ \A p \in Parts : k[3][p] \in {0, at[k[2]][p]}
CallMends(k) ==
  /\ job # NoJob /\ job.done /\ k[2] = job.entry
  /\ job.op # "delete" =>
       /\ k[2] \in indexed
       /\ k[3].block \in {0, at[k[2]].block}
            \union (IF job.op = "blockDelete" THEN {job.old.block} ELSE {})
       /\ k[3].chunk \in {0, at[k[2]].chunk, job.old.chunk}

\* Unless a pass is to reconcile, or something has failed, nothing else is wrong.
PassMends == \E p \in Passes : pass[p].pc \in {"walk", "reconcile"}
Mended == settled => PassMends \/ \A k \in DOMAIN aff : Owns(k) \/ CallMends(k)

OwnInv == ContentOK /\ SessionsOK /\ IdsOK /\ TargetsOK /\ Mended

LEMMA DegradedOK ==
  ASSUME NEW t \in Target, NEW blocks, NEW chunks
  PROVE  /\ Degraded(t, blocks, chunks) \in Target
         /\ \A p \in Parts : Degraded(t, blocks, chunks)[p] \in {0, t[p]}
         /\ t.block \in blocks => Degraded(t, blocks, chunks) = ToEntry
         /\ t.chunk \in chunks => Degraded(t, blocks, chunks).chunk = 0
BY DEF Degraded, Target, Parts, ToEntry

LEMMA GoneOK ==
  ASSUME NEW r, RecordOK(r)
  PROVE  RecordOK([r EXCEPT !.pc = "gone", !.results = <<>>])
<1> DEFINE g == [r EXCEPT !.pc = "gone", !.results = <<>>]
<1>1. DOMAIN g = SessionFields /\ g.results = <<>>  BY DEF RecordOK, SessionFields
<1>2. DOMAIN g.results = {}  BY <1>1
<1> HIDE DEF g
<1>3. RecordOK(g)  BY <1>1, <1>2 DEF RecordOK
<1> QED  BY <1>3 DEF g

LEMMA SessionsStep == ASSUME ContentOK, SessionsOK, [Next]_vars PROVE SessionsOK'
<1> USE DEF SessionsOK
<1>1. ASSUME session' = session PROVE SessionsOK'  BY <1>1
<1>2. ASSUME NEW keep, NEW ss, DOMAIN ss = Searches, session' = Purged(keep, ss),
             \A s \in Searches : RecordOK(ss[s])
      PROVE  SessionsOK'
  <2>1. session' = [s \in Searches |->
          IF ss[s].pc = "expired" /\ s # keep
            THEN [ss[s] EXCEPT !.pc = "gone", !.results = <<>>] ELSE ss[s]]
    BY <1>2 DEF Purged
  <2> QED  BY <1>2, <2>1, GoneOK
<1>3. ASSUME NEW gone, NEW blocks, NEW chunks, CleanUp(gone, blocks, chunks) PROVE SessionsOK'
  <2>1. session' = [s \in Searches |->
          IF session[s].pc \in {"open", "expired"}
            THEN [session[s] EXCEPT !.results =
                    [e \in DOMAIN @ \ gone |-> Degraded(@[e], blocks, chunks)]]
            ELSE session[s]]
    BY <1>3 DEF CleanUp
  <2>2. ASSUME NEW s \in Searches PROVE RecordOK(session'[s])
    <3>1. CASE session[s].pc \in {"open", "expired"}
      <4> DEFINE rs == [e \in DOMAIN session[s].results \ gone |->
                          Degraded(session[s].results[e], blocks, chunks)]
      <4>1. session'[s] = [session[s] EXCEPT !.results = rs]  BY <2>1, <3>1
      <4>2. DOMAIN rs \subseteq Entries /\ \A e \in DOMAIN rs : rs[e] \in Target
        BY DegradedOK DEF RecordOK
      <4> HIDE DEF rs
      <4> QED  BY <4>1, <4>2 DEF RecordOK, SessionFields
    <3>2. CASE session[s].pc \notin {"open", "expired"}  BY <2>1, <3>2
    <3> QED  BY <3>1, <3>2
  <2> QED  BY <2>1, <2>2
<1>4. ASSUME NEW s \in Searches, SearchRead(s) PROVE SessionsOK'
  <2>1. PICK found \in SUBSET indexed :
          session' = [session EXCEPT ![s] = [pc |-> "read", model |-> active,
                                             results |-> [e \in found |-> at[e]]]]
    BY <1>4 DEF SearchRead
  <2> DEFINE r == [pc |-> "read", model |-> active, results |-> [e \in found |-> at[e]]]
  <2>2. found \subseteq Entries /\ \A e \in found : at[e] \in Target  BY DEF ContentOK
  <2>3. RecordOK(r)  BY <2>2 DEF RecordOK, SessionFields
  <2>4. session' = [session EXCEPT ![s] = r]  BY <2>1
  <2> HIDE DEF r
  <2> QED  BY <2>3, <2>4
<1>5. ASSUME NEW s \in Searches, SearchRecord(s) PROVE SessionsOK'
  <2> DEFINE ss == [session EXCEPT ![s].pc = "open"]
  <2>1. session' = Purged(s, ss)  BY <1>5 DEF SearchRecord
  <2>2. DOMAIN ss = Searches /\ \A r \in Searches : RecordOK(ss[r])
    BY DEF RecordOK, SessionFields
  <2> HIDE DEF ss
  <2> QED  BY <1>2, <2>1, <2>2
<1>6. ASSUME NEW s \in Searches, Expire(s) PROVE SessionsOK'
  BY <1>6 DEF Expire, RecordOK, SessionFields
<1>7. ASSUME NEW s \in Searches, NEW targets, Feedback(s, targets) PROVE SessionsOK'
  BY <1>2, <1>7 DEF Feedback
<1>8. ASSUME CallSignals PROVE SessionsOK'  BY <1>3, <1>8 DEF CallSignals
<1>9. ASSUME NEW p \in Passes, Reconcile(p) PROVE SessionsOK'  BY <1>3, <1>9 DEF Reconcile
<1>10. ASSUME NEW p \in Passes, NEW model \in Models, Restart(model, p) PROVE SessionsOK'
  <2>1. session' = [s \in Searches |-> IF session[s].pc = "read"
                      THEN [session[s] EXCEPT !.pc = "gone", !.results = <<>>] ELSE session[s]]
    BY <1>10 DEF Restart
  <2> QED  BY <2>1, GoneOK
<1>11. ASSUME \/ \E e \in Entries, op \in {"delete", "update", "blockDelete"} : Call(op, e)
              \/ DeleteContent \/ UpdateContent \/ BlockDeleteContent \/ CallFails
              \/ \E e \in Entries, now \in {"block", "bare", "bad", "none"} : Outside(e, now)
       PROVE  SessionsOK'
  <2>1. session' = session
    BY <1>11
       DEF Call, DeleteContent, UpdateContent, BlockDeleteContent, CallFails, Outside, signals
  <2> QED  BY <1>1, <2>1
<1>12. ASSUME NEW p \in Passes,
              \/ SyncStart(p) \/ RebuildStart(p) \/ PassWalked(p) \/ ReconcileFails(p)
              \/ Plan(p) \/ Replace(p) \/ ReembedFails(p)
              \/ \E e \in Entries : PassIndexes(p, e) \/ PassFails(p, e) \/ PassRemoves(p, e)
       PROVE  SessionsOK'
  <2>1. session' = session
    BY <1>12
       DEF SyncStart, RebuildStart, PassWalked, ReconcileFails, Plan, Replace, ReembedFails,
           PassIndexes, PassFails, PassRemoves, signals
  <2> QED  BY <1>1, <2>1
<1>13. ASSUME UNCHANGED vars PROVE SessionsOK'  BY <1>1, <1>13 DEF vars, signals
<1> HIDE DEF SessionsOK
<1> QED
  BY <1>4, <1>5, <1>6, <1>7, <1>8, <1>9, <1>10, <1>11, <1>12, <1>13 DEF Next

\* Whatever a caller may name is a target.
LEMMA RequestsOK ==
  ASSUME ContentOK, SessionsOK, NEW s \in Searches, NEW targets \in Requests(s),
         NEW e \in DOMAIN targets
  PROVE  targets[e] \in Target
<1> DEFINE less(t) == {t, [t EXCEPT !.chunk = 0], ToEntry}
<1>1. \A t \in Target : less(t) \subseteq Target  BY DEF Target, ToEntry
<1>2. PICK es \in SUBSET (DOMAIN session[s].results) :
        targets \in [es -> UNION {less(session[s].results[d]) \union less(at[d]) : d \in es}]
  BY DEF Requests
<1>3. \A d \in es : session[s].results[d] \in Target /\ at[d] \in Target
  BY <1>2 DEF SessionsOK, RecordOK, ContentOK
<1>4. targets[e] \in UNION {less(session[s].results[d]) \union less(at[d]) : d \in es}  BY <1>2
<1> HIDE DEF less
<1> QED  BY <1>1, <1>3, <1>4

\* A new text gives a block a new chunk; indexing anew gives both new ids.
Fresh(e) ==
  /\ \/ at'[e].block \in (ids + 1) .. ids'
     \/ UpdateContent /\ at'[e].block = at[e].block /\ at[e].block # 0
  /\ at'[e].chunk \in (ids + 1) .. ids'
  /\ \A d \in Entries \ {e} : at'[d] = at[d]

LEMMA AtSteps ==
  ASSUME ContentOK, IdsOK, [Next]_vars
  PROVE  /\ ids' \in Nat /\ ids' >= ids
         /\ \A e \in Entries : at'[e] = at[e] \/ at'[e] = ToEntry \/ Fresh(e)
<1> USE DEF ContentOK
<1> DEFINE Goal == /\ ids' \in Nat /\ ids' >= ids
                   /\ \A e \in Entries : at'[e] = at[e] \/ at'[e] = ToEntry \/ Fresh(e)
<1>1. ASSUME UNCHANGED <<at, ids>> PROVE Goal  BY <1>1
<1>2. ASSUME NEW e \in Entries, at' = [at EXCEPT ![e] = ToEntry], ids' = ids PROVE Goal  BY <1>2
<1>3. ASSUME DeleteContent \/ BlockDeleteContent PROVE Goal
  <2>1. job.entry \in Entries  BY <1>3, CallSteps DEF Jobs
  <2> QED  BY <1>2, <1>3, <2>1 DEF DeleteContent, BlockDeleteContent
<1>4. ASSUME UpdateContent PROVE Goal
  <2>1. /\ job \in Jobs /\ job.entry \in Entries /\ ~job.done /\ job.op = "update"
        /\ at[job.entry].block = job.old.block
    BY <1>4, CallSteps DEF Jobs
  <2>2. job # NoJob  BY <2>1, CallSteps
  <2>3. at[job.entry].block # 0  BY <2>1, <2>2 DEF IdsOK, CallIds
  <2>4. ids' = ids + 1 /\ at' = [at EXCEPT ![job.entry].chunk = ids']  BY <1>4 DEF UpdateContent
  <2>5. at'[job.entry].block = at[job.entry].block /\ at'[job.entry].chunk = ids'
        /\ \A d \in Entries \ {job.entry} : at'[d] = at[d]
    BY <2>1, <2>4 DEF Target
  <2>6. Fresh(job.entry)  BY <1>4, <2>3, <2>4, <2>5 DEF Fresh
  <2> QED  BY <2>4, <2>5, <2>6
<1>5. ASSUME NEW p \in Passes, RebuildStart(p) PROVE Goal
  <2>1. at' = [e \in Entries |-> ToEntry] /\ ids' = ids  BY <1>5 DEF RebuildStart
  <2> QED  BY <2>1
<1>6. ASSUME NEW p \in Passes, NEW e \in Entries, PassIndexes(p, e) PROVE Goal
  <2>1. /\ ids' = ids + 2
        /\ \/ at' = [at EXCEPT ![e] = [block |-> ids + 1, chunk |-> ids + 2]]
           \/ at' = [at EXCEPT ![e] = ToEntry]
    BY <1>6 DEF PassIndexes
  <2>2. at'[e] = ToEntry \/ Fresh(e)  BY <2>1 DEF Fresh
  <2> QED  BY <2>1, <2>2
<1>7. ASSUME NEW p \in Passes, NEW e \in Entries, PassRemoves(p, e) PROVE Goal
  BY <1>2, <1>7 DEF PassRemoves
<1>8. ASSUME NEW s \in Searches,
             SearchRead(s) \/ SearchRecord(s) \/ Expire(s)
               \/ \E targets \in Requests(s) : Feedback(s, targets)
      PROVE  Goal
  BY <1>1, <1>8 DEF SearchRead, SearchRecord, Expire, Feedback, content
<1>9. ASSUME \/ \E e \in Entries, op \in {"delete", "update", "blockDelete"} : Call(op, e)
             \/ CallSignals \/ CallFails
             \/ \E e \in Entries, now \in {"block", "bare", "bad", "none"} : Outside(e, now)
      PROVE  Goal
  <2>1. UNCHANGED <<at, ids>>  BY <1>9 DEF Call, CallSignals, CallFails, Outside, content
  <2> QED  BY <1>1, <2>1
<1>10. ASSUME NEW p \in Passes,
              \/ SyncStart(p) \/ PassWalked(p) \/ Reconcile(p) \/ ReconcileFails(p)
              \/ Plan(p) \/ Replace(p) \/ ReembedFails(p)
              \/ \E e \in Entries : PassFails(p, e)
              \/ \E model \in Models : Restart(model, p)
       PROVE  Goal
  <2>1. UNCHANGED <<at, ids>>
    BY <1>10 DEF SyncStart, PassWalked, Reconcile, ReconcileFails, Plan, Replace, ReembedFails,
                 PassFails, Restart, content
  <2> QED  BY <1>1, <2>1
<1>11. ASSUME UNCHANGED vars PROVE Goal  BY <1>1, <1>11 DEF vars, content
<1> HIDE DEF Goal
<1>12. Goal
  BY <1>3, <1>4, <1>5, <1>6, <1>7, <1>8, <1>9, <1>10, <1>11 DEF Next
<1> QED  BY <1>12 DEF Goal

\* What a step does to the call.
LEMMA JobSteps ==
  ASSUME ContentOK, [Next]_vars
  PROVE  \/ job' = job /\ ~UpdateContent
         \/ job' = NoJob
         \/ job # NoJob /\ job'.done /\ job'.old = job.old
         \/ \E e \in Entries, op \in {"delete", "update", "blockDelete"} : Call(op, e)
<1> DEFINE Goal == \/ job' = job /\ ~UpdateContent
                   \/ job' = NoJob
                   \/ job # NoJob /\ job'.done /\ job'.old = job.old
                   \/ \E e \in Entries, op \in {"delete", "update", "blockDelete"} : Call(op, e)
<1>1. ASSUME DeleteContent \/ UpdateContent \/ BlockDeleteContent PROVE Goal
  <2>1. job \in Jobs /\ job'.done /\ job'.old = job.old  BY <1>1, CallSteps
  <2> QED  BY <2>1, CallSteps
<1>2. ASSUME CallSignals \/ CallFails PROVE Goal  BY <1>2 DEF CallSignals, CallFails
<1>3. ASSUME NEW p \in Passes, NEW model \in Models, Restart(model, p) PROVE Goal
  BY <1>3, RestartPasses
<1>4. ASSUME NEW s \in Searches,
             SearchRead(s) \/ SearchRecord(s) \/ Expire(s)
               \/ \E targets \in Requests(s) : Feedback(s, targets)
      PROVE  job' = job
  BY <1>4 DEF SearchRead, SearchRecord, Expire, Feedback
<1>5. ASSUME NEW p \in Passes,
             \/ SyncStart(p) \/ RebuildStart(p) \/ PassWalked(p) \/ Reconcile(p) \/ ReconcileFails(p)
             \/ Plan(p) \/ Replace(p) \/ ReembedFails(p)
             \/ \E e \in Entries : PassIndexes(p, e) \/ PassFails(p, e) \/ PassRemoves(p, e)
      PROVE  job' = job
  BY <1>5 DEF SyncStart, RebuildStart, PassWalked, Reconcile, ReconcileFails, Plan, Replace,
              ReembedFails, PassIndexes, PassFails, PassRemoves
<1>6. ASSUME NEW e \in Entries, NEW now \in {"block", "bare", "bad", "none"}, Outside(e, now)
      PROVE  job' = job
  BY <1>6 DEF Outside
<1>7. ASSUME UNCHANGED vars PROVE job' = job  BY <1>7 DEF vars
<1>8. job' = job => Goal  BY <1>1
<1>9. (\E e \in Entries : \E op \in {"delete", "update", "blockDelete"} : Call(op, e)) => Goal
  OBVIOUS
<1> HIDE DEF Goal
<1>10. Goal  BY <1>1, <1>2, <1>3, <1>4, <1>5, <1>6, <1>7, <1>8, <1>9 DEF Next
<1> QED  BY <1>10 DEF Goal

LEMMA IdsStep == ASSUME ContentOK, IdsOK, [Next]_vars PROVE IdsOK'
<1> USE DEF IdsOK
<1>1. /\ ids' \in Nat /\ ids' >= ids /\ ids \in Nat
      /\ \A e \in Entries : at'[e] = at[e] \/ at'[e] = ToEntry \/ Fresh(e)
  BY AtSteps DEF ContentOK
<1>2. \A e \in Entries : /\ at[e] \in Target /\ at[e].block \in Nat /\ at[e].chunk \in Nat
                         /\ at'[e] \in Target /\ at'[e].block \in Nat /\ at'[e].chunk \in Nat
  BY ContentStep DEF ContentOK, Target
<1>3. ToEntry.block = 0 /\ ToEntry.chunk = 0  BY DEF ToEntry
<1>4. ASSUME NEW e \in Entries PROVE EntryIds(e)'
  <2>1. at'[e].block <= ids' /\ at'[e].chunk <= ids'
    BY <1>1, <1>2, <1>3 DEF EntryIds, Fresh
  <2>2. at'[e].block = 0 => at'[e] = ToEntry
    BY <1>1, <1>2 DEF EntryIds, Fresh
  <2>3. ASSUME NEW d \in Entries \ {e}, NEW p \in Parts PROVE at'[e][p] # at'[d][p] \/ at'[e][p] = 0
    <3>1. at[e][p] # at[d][p] \/ at[e][p] = 0  BY DEF EntryIds
    <3>2. at[e][p] <= ids /\ at[d][p] <= ids /\ at[e][p] \in Nat /\ at[d][p] \in Nat
      BY <1>2 DEF EntryIds, Parts
    <3>3. ToEntry[p] = 0  BY <1>3 DEF Parts
    <3>4. CASE at'[e] = ToEntry \/ at'[d] = ToEntry  BY <3>3, <3>4
    <3>5. CASE at'[e] = at[e] /\ at'[d] = at[d]  BY <3>1, <3>5
    <3>6. CASE Fresh(e)
      <4>1. at'[d] = at[d]  BY <3>6 DEF Fresh
      <4>2. at'[e][p] = at[e][p] \/ at'[e][p] \in (ids + 1) .. ids'  BY <3>6 DEF Fresh, Parts
      <4> QED  BY <1>1, <3>1, <3>2, <4>1, <4>2
    <3>7. CASE Fresh(d)
      <4>1. at'[e] = at[e]  BY <3>7 DEF Fresh
      <4>2. at'[d][p] = at[d][p] \/ at'[d][p] \in (ids + 1) .. ids'  BY <3>7 DEF Fresh, Parts
      <4> QED  BY <1>1, <3>1, <3>2, <4>1, <4>2
    <3> QED  BY <1>1, <3>4, <3>5, <3>6, <3>7
  <2> QED  BY <2>1, <2>2, <2>3 DEF EntryIds
<1>5. CallIds'
  <2>1. CASE job' = job /\ ~UpdateContent
    <3>1. CASE job = NoJob  BY <2>1, <3>1 DEF CallIds
    <3>2. CASE job # NoJob
      <4>1. job \in Jobs /\ job.entry \in Entries /\ job.old.block \in Nat /\ job.old.chunk \in Nat
        BY <3>2 DEF ContentOK, Jobs, Target
      <4>2. job.old.block <= ids' /\ job.old.chunk <= ids'  BY <1>1, <3>2, <4>1 DEF CallIds
      <4>3. ASSUME job.op # "delete", ~job.done, at'[job.entry].block = job.old.block
            PROVE  at'[job.entry] = job.old
        <5>1. job.old.block # 0 /\ job.old.block <= ids
              /\ (at[job.entry].block = job.old.block => at[job.entry] = job.old)
          BY <3>2, <4>3 DEF CallIds
        <5>2. ~Fresh(job.entry)  BY <1>1, <2>1, <4>1, <4>3, <5>1 DEF Fresh
        <5> QED  BY <1>1, <1>3, <4>1, <4>3, <5>1, <5>2
      <4>4. job.op # "delete" /\ ~job.done => job.old.block # 0  BY <3>2 DEF CallIds
      <4> QED  BY <2>1, <4>2, <4>3, <4>4 DEF CallIds
    <3> QED  BY <3>1, <3>2
  <2>2. CASE job' = NoJob  BY <2>2 DEF CallIds
  <2>3. CASE job # NoJob /\ job'.done /\ job'.old = job.old
    <3>1. job.old.block \in Nat /\ job.old.chunk \in Nat  BY <2>3 DEF ContentOK, Jobs, Target
    <3> QED  BY <1>1, <2>3, <3>1 DEF CallIds
  <2>4. ASSUME NEW e \in Entries, NEW op \in {"delete", "update", "blockDelete"}, Call(op, e)
        PROVE  CallIds'
    <3>1. job' \in Jobs /\ job'.op = op /\ job'.entry = e /\ job'.old = at[e]  BY <2>4, CallSteps
    <3>2. at' = at /\ ids' = ids /\ (op # "delete" => at[e] # ToEntry)  BY <2>4 DEF Call, content
    <3>3. at[e].block <= ids /\ at[e].chunk <= ids /\ (at[e].block = 0 => at[e] = ToEntry)
      BY DEF EntryIds
    <3> QED  BY <3>1, <3>2, <3>3 DEF CallIds
  <2> QED  BY <2>1, <2>2, <2>3, <2>4, JobSteps
<1> QED  BY <1>4, <1>5

\* An id that an entry gave up, or has, is not another's.
LEMMA TargetLater ==
  ASSUME ContentOK, IdsOK, [Next]_vars, NEW k, TargetOK(k)
  PROVE  TargetOK(k)'
<1>1. /\ ids' \in Nat /\ ids' >= ids /\ ids \in Nat
      /\ \A e \in Entries : at'[e] = at[e] \/ at'[e] = ToEntry \/ Fresh(e)
  BY AtSteps DEF ContentOK
<1>2. k[2] \in Entries /\ k[3] \in Target /\ k[3].block \in Nat /\ k[3].chunk \in Nat
      /\ k[3].block <= ids /\ k[3].chunk <= ids
  BY DEF TargetOK, Target
<1>3. ASSUME NEW d \in Entries \ {k[2]}, NEW p \in Parts
      PROVE  k[3][p] = 0 \/ k[3][p] # at'[d][p]
  <2>1. k[3][p] = 0 \/ k[3][p] # at[d][p]  BY DEF TargetOK
  <2>2. k[3][p] \in Nat /\ k[3][p] <= ids  BY <1>2 DEF Parts
  <2>3. ToEntry[p] = 0  BY DEF Parts, ToEntry
  <2>4. CASE Fresh(d)
    <3>1. at'[d][p] = at[d][p] \/ at'[d][p] \in (ids + 1) .. ids'  BY <2>4 DEF Fresh, Parts
    <3> QED  BY <1>1, <2>1, <2>2, <3>1
  <2> QED  BY <1>1, <2>1, <2>3, <2>4
<1>4. k[3].block <= ids' /\ k[3].chunk <= ids'  BY <1>1, <1>2
<1> QED  BY <1>2, <1>3, <1>4 DEF TargetOK

\* What cleaning up makes of the targets.
LEMMA CleanUpKeys ==
  ASSUME TargetsOK, NEW gone, NEW blocks, NEW chunks, CleanUp(gone, blocks, chunks),
         NEW n \in DOMAIN aff'
  PROVE  \E k \in DOMAIN aff :
           /\ TargetOK(k) /\ k[2] \notin gone /\ n[2] = k[2] /\ n[3] = Degraded(k[3], blocks, chunks)
           /\ n[3] \in Target /\ \A p \in Parts : n[3][p] \in {0, k[3][p]}
           /\ k[3].block \in blocks => n[3] = ToEntry
           /\ k[3].chunk \in chunks => n[3].chunk = 0
<1> DEFINE to == [k \in Remaining(gone, blocks, chunks) |->
                    <<k[1], k[2], Degraded(k[3], blocks, chunks)>>]
<1>1. DOMAIN aff' = NewKeys(to)  BY DEF CleanUp, Moved
<1>2. PICK k \in DOMAIN to : n = to[k]  BY <1>1 DEF NewKeys
<1>3. k \in DOMAIN aff /\ k[2] \notin gone /\ n = <<k[1], k[2], Degraded(k[3], blocks, chunks)>>
  BY <1>2 DEF Remaining
<1>4. TargetOK(k) /\ k[3] \in Target  BY <1>3 DEF TargetsOK, TargetOK
<1> HIDE DEF to
<1>5. n[2] = k[2] /\ n[3] = Degraded(k[3], blocks, chunks)  BY <1>3
<1>6. /\ n[3] \in Target /\ \A p \in Parts : n[3][p] \in {0, k[3][p]}
      /\ k[3].block \in blocks => n[3] = ToEntry
      /\ k[3].chunk \in chunks => n[3].chunk = 0
  BY <1>4, <1>5, DegradedOK
<1> QED  BY <1>3, <1>4, <1>5, <1>6

\* What feedback adds is the entry's now.
LEMMA FeedbackKeys ==
  ASSUME ContentOK, SessionsOK, NEW s \in Searches, NEW targets \in Requests(s),
         Feedback(s, targets), NEW k \in DOMAIN aff' \ DOMAIN aff
  PROVE  Owns(k) /\ k[3] \in Target /\ k[2] \in Entries
<1>1. PICK e \in New(s, targets) : k = <<session[s].model, e, targets[e]>>
  <2> DEFINE keys == {<<session[s].model, e, targets[e]>> : e \in New(s, targets)}
  <2>1. DOMAIN aff' = DOMAIN aff \union keys  BY DEF Feedback
  <2> QED  BY <2>1
<1>2. e \in DOMAIN targets /\ Owned(s, e, targets[e])  BY DEF Feedback, New
<1>3. targets[e] \in Target  BY <1>2, RequestsOK
<1>4. e \in indexed /\ \A p \in Parts : targets[e][p] \in {0, at[e][p]}
  BY <1>2 DEF Owned, Kept, Parts
<1> QED  BY <1>1, <1>3, <1>4 DEF Owns, ContentOK

LEMMA ReplaceKeys ==
  ASSUME NEW p \in Passes, Replace(p), NEW n \in DOMAIN aff'
  PROVE  \E k \in DOMAIN aff : n[2] = k[2] /\ n[3] = k[3]
<1> DEFINE to == [k \in DOMAIN aff |-> <<active, k[2], k[3]>>]
<1>1. DOMAIN aff' = NewKeys(to)  BY DEF Replace
<1>2. PICK k \in DOMAIN aff : n = <<active, k[2], k[3]>>  BY <1>1 DEF NewKeys
<1> QED  BY <1>2

LEMMA TargetsStep ==
  ASSUME ContentOK, SessionsOK, IdsOK, TargetsOK, [Next]_vars
  PROVE  TargetsOK'
<1>1. \A k : TargetOK(k) => TargetOK(k)'  BY TargetLater
<1> SUFFICES ASSUME NEW n \in DOMAIN aff' PROVE TargetOK(n)  BY <1>1 DEF TargetsOK
<1>2. ASSUME aff' = aff PROVE TargetOK(n)  BY <1>2 DEF TargetsOK
<1>3. ASSUME NEW k \in DOMAIN aff, n[2] = k[2], n[3] \in Target,
             \A p \in Parts : n[3][p] \in {0, k[3][p]}
      PROVE  TargetOK(n)
  <2>1. TargetOK(k)  BY DEF TargetsOK
  <2>2. ids \in Nat  BY DEF ContentOK
  <2> QED  BY <1>3, <2>1, <2>2 DEF TargetOK, Parts
<1>4. ASSUME NEW gone, NEW blocks, NEW chunks, CleanUp(gone, blocks, chunks) PROVE TargetOK(n)
  BY <1>3, <1>4, CleanUpKeys
<1>5. ASSUME CallSignals PROVE TargetOK(n)  BY <1>4, <1>5 DEF CallSignals
<1>6. ASSUME NEW p \in Passes, Reconcile(p) PROVE TargetOK(n)  BY <1>4, <1>6 DEF Reconcile
<1>7. ASSUME NEW p \in Passes, Replace(p) PROVE TargetOK(n)
  <2>1. PICK k \in DOMAIN aff : n[2] = k[2] /\ n[3] = k[3]  BY <1>7, ReplaceKeys
  <2>2. k[3] \in Target  BY DEF TargetsOK, TargetOK
  <2> QED  BY <1>3, <2>1, <2>2
<1>8. ASSUME NEW s \in Searches, NEW targets \in Requests(s), Feedback(s, targets) PROVE TargetOK(n)
  <2>1. CASE n \in DOMAIN aff  BY <2>1 DEF TargetsOK
  <2>2. CASE n \notin DOMAIN aff
    <3>1. Owns(n) /\ n[3] \in Target /\ n[2] \in Entries  BY <1>8, <2>2, FeedbackKeys
    <3>2. EntryIds(n[2]) /\ ids \in Nat  BY <3>1 DEF IdsOK, ContentOK
    <3> QED  BY <3>1, <3>2 DEF Owns, EntryIds, TargetOK, Parts
  <2> QED  BY <2>1, <2>2
<1>9. ASSUME NEW s \in Searches, SearchRead(s) \/ SearchRecord(s) \/ Expire(s) PROVE TargetOK(n)
  BY <1>2, <1>9 DEF SearchRead, SearchRecord, Expire
<1>10. ASSUME \/ \E e \in Entries, op \in {"delete", "update", "blockDelete"} : Call(op, e)
              \/ DeleteContent \/ UpdateContent \/ BlockDeleteContent \/ CallFails
              \/ \E e \in Entries, now \in {"block", "bare", "bad", "none"} : Outside(e, now)
       PROVE  TargetOK(n)
  <2>1. aff' = aff
    BY <1>10
       DEF Call, DeleteContent, UpdateContent, BlockDeleteContent, CallFails, Outside, signals
  <2> QED  BY <1>2, <2>1
<1>11. ASSUME NEW p \in Passes,
              \/ SyncStart(p) \/ RebuildStart(p) \/ PassWalked(p) \/ ReconcileFails(p)
              \/ Plan(p) \/ ReembedFails(p)
              \/ \E e \in Entries : PassIndexes(p, e) \/ PassFails(p, e) \/ PassRemoves(p, e)
              \/ \E model \in Models : Restart(model, p)
       PROVE  TargetOK(n)
  <2>1. aff' = aff
    BY <1>11
       DEF SyncStart, RebuildStart, PassWalked, ReconcileFails, Plan, ReembedFails,
           PassIndexes, PassFails, PassRemoves, Restart, signals
  <2> QED  BY <1>2, <2>1
<1>12. ASSUME UNCHANGED vars PROVE TargetOK(n)  BY <1>2, <1>12 DEF vars, signals
<1> QED  BY <1>5, <1>6, <1>7, <1>8, <1>9, <1>10, <1>11, <1>12 DEF Next

LEMMA MendedStep == ASSUME OwnInv, [Next]_vars PROVE Mended'
<1> USE DEF OwnInv
<1>1. \A p \in Passes : pass[p].pc \in {"walk", "reconcile"} => PassMends  BY DEF PassMends
<1>2. \A p \in Passes : pass'[p].pc \in {"walk", "reconcile"} => PassMends'  BY DEF PassMends
\* A pass other than p that is to reconcile still is.
<1>3. ASSUME NEW p \in Passes, pass[p].pc \notin {"walk", "reconcile"},
             \A q \in Passes \ {p} : pass'[q] = pass[q], PassMends
      PROVE  PassMends'
  BY <1>3 DEF PassMends
\* Nothing changed that matters.
<1>4. ASSUME UNCHANGED <<indexed, at, job>>, settled' => settled, PassMends => PassMends',
             \A n \in DOMAIN aff' : \/ \E k \in DOMAIN aff : n[2] = k[2] /\ n[3] = k[3]
                                    \/ Owns(n)
      PROVE  Mended'
  <2>1. SUFFICES ASSUME settled', ~PassMends', NEW n \in DOMAIN aff' PROVE (Owns(n) \/ CallMends(n))'
    BY DEF Mended
  <2>2. \A k \in DOMAIN aff : Owns(k) \/ CallMends(k)  BY <1>4, <2>1 DEF Mended
  <2>3. Owns(n) \/ CallMends(n)
    <3>1. CASE Owns(n)  BY <3>1
    <3>2. ASSUME NEW k \in DOMAIN aff, n[2] = k[2], n[3] = k[3] PROVE Owns(n) \/ CallMends(n)
      BY <2>2, <3>2 DEF Owns, CallMends
    <3> QED  BY <1>4, <3>1, <3>2
  <2> QED  BY <1>4, <2>3 DEF Owns, CallMends
<1>5. ASSUME UNCHANGED <<indexed, at, job, aff, settled>>, PassMends => PassMends' PROVE Mended'
  BY <1>4, <1>5
<1>6. pass' = pass => (PassMends => PassMends')  BY DEF PassMends
<1>7. ASSUME NEW s \in Searches, SearchRead(s) \/ SearchRecord(s) \/ Expire(s) PROVE Mended'
  <2>1. UNCHANGED <<indexed, at, job, aff, settled, pass>>
    BY <1>7 DEF SearchRead, SearchRecord, Expire, content, history
  <2> QED  BY <1>5, <1>6, <2>1
<1>8. ASSUME NEW s \in Searches, NEW targets \in Requests(s), Feedback(s, targets) PROVE Mended'
  <2>1. UNCHANGED <<indexed, at, job, settled, pass>>  BY <1>8 DEF Feedback, content
  <2>2. \A n \in DOMAIN aff' : n \in DOMAIN aff \/ Owns(n)  BY <1>8, FeedbackKeys
  <2> QED  BY <1>4, <1>6, <2>1, <2>2
<1>9. ASSUME NEW e \in Entries, NEW op \in {"delete", "update", "blockDelete"}, Call(op, e)
      PROVE  Mended'
  <2>1. UNCHANGED <<indexed, at, aff, settled, pass>> /\ job = NoJob
    BY <1>9 DEF Call, content, signals
  <2>2. SUFFICES ASSUME settled', ~PassMends', NEW k \in DOMAIN aff PROVE Owns(k)'
    BY <2>1 DEF Mended
  <2>3. Owns(k)  BY <1>6, <2>1, <2>2 DEF Mended, CallMends
  <2> QED  BY <2>1, <2>3 DEF Owns
\* The call has changed the content, and will clean up after itself.
<1>10. ASSUME DeleteContent \/ UpdateContent \/ BlockDeleteContent PROVE Mended'
  <2>1. UNCHANGED <<aff, settled, pass>>
    BY <1>10 DEF DeleteContent, UpdateContent, BlockDeleteContent, signals, history
  <2>2. /\ job \in Jobs /\ job # NoJob /\ job.entry \in Entries /\ job' \in Jobs /\ job' # NoJob
        /\ ~job.done /\ job'.done /\ job'.entry = job.entry /\ job'.op = job.op /\ job'.old = job.old
    <3>1. /\ job \in Jobs /\ job' \in Jobs /\ ~job.done /\ job'.done /\ job'.entry = job.entry
          /\ job'.op = job.op /\ job'.old = job.old /\ NoJob \notin Jobs
      BY <1>10, CallSteps
    <3> QED  BY <3>1 DEF Jobs
  <2>3. SUFFICES ASSUME settled', ~PassMends', NEW k \in DOMAIN aff PROVE (Owns(k) \/ CallMends(k))'
    BY <2>1 DEF Mended
  <2>4. Owns(k) /\ k[2] \in Entries  BY <1>6, <2>1, <2>2, <2>3 DEF Mended, CallMends, TargetsOK, TargetOK
  <2>5. CASE k[2] # job.entry
    <3>1. at'[k[2]] = at[k[2]] /\ k[2] \in indexed'
      BY <1>10, <2>2, <2>4, <2>5
         DEF DeleteContent, UpdateContent, BlockDeleteContent, ContentOK, Owns
    <3> QED  BY <2>4, <3>1 DEF Owns
  <2>6. CASE k[2] = job.entry
    <3>1. job.op # "delete" =>
            job.old.block # 0 /\ (at[job.entry].block = job.old.block => at[job.entry] = job.old)
      BY <2>2 DEF IdsOK, CallIds
    <3>2. k[3].block \in {0, at[job.entry].block} /\ k[3].chunk \in {0, at[job.entry].chunk}
      BY <2>4, <2>6 DEF Owns, Parts
    <3>3. CASE DeleteContent
      <4>1. job'.op = "delete"  BY <2>2, <3>3, CallSteps
      <4> QED  BY <2>2, <2>6, <4>1 DEF CallMends
    <3>4. CASE UpdateContent
      <4>1. job.op = "update" /\ at[job.entry] = job.old  BY <3>1, <3>4, CallSteps
      <4>2. indexed' = indexed /\ at' = [at EXCEPT ![job.entry].chunk = ids']
        BY <3>4 DEF UpdateContent
      <4>3. at'[job.entry].block = job.old.block
        BY <2>2, <4>1, <4>2 DEF ContentOK, Target
      <4> QED  BY <2>2, <2>4, <2>6, <3>2, <4>1, <4>2, <4>3 DEF CallMends, Owns
    <3>5. CASE BlockDeleteContent
      <4>1. job.op = "blockDelete" /\ at[job.entry] = job.old  BY <3>1, <3>5, CallSteps
      <4>2. indexed' = indexed  BY <3>5 DEF BlockDeleteContent
      <4> QED  BY <2>2, <2>4, <2>6, <3>2, <4>1, <4>2 DEF CallMends, Owns
    <3> QED  BY <1>10, <3>3, <3>4, <3>5
  <2> QED  BY <2>5, <2>6
<1>11. ASSUME CallSignals PROVE Mended'
  <2>1. UNCHANGED <<indexed, at, settled, pass>> /\ job.done /\ job' = NoJob
    BY <1>11 DEF CallSignals, content, history
  <2>2. SUFFICES ASSUME settled', ~PassMends', NEW n \in DOMAIN aff' PROVE Owns(n)
    BY <2>1 DEF Mended, Owns
  <2>3. \A k \in DOMAIN aff : Owns(k) \/ CallMends(k)  BY <1>6, <2>1, <2>2 DEF Mended
  <2>4. ASSUME NEW k \in DOMAIN aff, Owns(k), n[2] = k[2],
               \A p \in Parts : n[3][p] \in {0, k[3][p]}
        PROVE  Owns(n)
    BY <2>4 DEF Owns
  <2>5. ASSUME NEW gone, NEW blocks, NEW chunks, CleanUp(gone, blocks, chunks),
               \A k \in DOMAIN aff : CallMends(k) /\ k[2] \notin gone =>
                 /\ k[2] \in indexed
                 /\ k[3].block \in {0, at[k[2]].block} \union blocks
                 /\ k[3].chunk \in {0, at[k[2]].chunk} \union chunks
        PROVE  Owns(n)
    <3>1. PICK k \in DOMAIN aff :
            /\ TargetOK(k) /\ k[2] \notin gone /\ n[2] = k[2]
            /\ n[3] \in Target /\ \A p \in Parts : n[3][p] \in {0, k[3][p]}
            /\ k[3].block \in blocks => n[3] = ToEntry
            /\ k[3].chunk \in chunks => n[3].chunk = 0
      BY <2>5, CleanUpKeys
    <3>2. CASE Owns(k)  BY <2>4, <3>1, <3>2
    <3>3. CASE CallMends(k)
      <4>1. /\ k[2] \in indexed
            /\ k[3].block \in {0, at[k[2]].block} \union blocks
            /\ k[3].chunk \in {0, at[k[2]].chunk} \union chunks
        BY <2>5, <3>1, <3>3
      <4>2. n[3].block \in {0, at[k[2]].block} /\ n[3].chunk \in {0, at[k[2]].chunk}
        BY <3>1, <4>1 DEF Parts, ToEntry
      <4> QED  BY <3>1, <4>1, <4>2 DEF Owns, Parts
    <3> QED  BY <2>3, <3>2, <3>3
  <2>6. CASE job.op = "delete" /\ CleanUp({job.entry}, {}, {})
    <3>1. \A k \in DOMAIN aff : CallMends(k) => k[2] \in {job.entry}  BY DEF CallMends
    <3> QED  BY <2>5, <2>6, <3>1
  <2>7. CASE job.op = "update" /\ CleanUp({}, {}, {job.old.chunk})
    <3>1. \A k \in DOMAIN aff : CallMends(k) =>
            /\ k[2] \in indexed
            /\ k[3].block \in {0, at[k[2]].block} \union {}
            /\ k[3].chunk \in {0, at[k[2]].chunk} \union {job.old.chunk}
      BY <2>7 DEF CallMends
    <3> QED  BY <2>5, <2>7, <3>1
  <2>8. CASE job.op = "blockDelete" /\ CleanUp({}, {job.old.block}, {job.old.chunk})
    <3>1. \A k \in DOMAIN aff : CallMends(k) =>
            /\ k[2] \in indexed
            /\ k[3].block \in {0, at[k[2]].block} \union {job.old.block}
            /\ k[3].chunk \in {0, at[k[2]].chunk} \union {job.old.chunk}
      BY <2>8 DEF CallMends
    <3> QED  BY <2>5, <2>8, <3>1
  <2> QED  BY <1>11, <2>6, <2>7, <2>8 DEF CallSignals
\* A call that fails before it has changed anything leaves nothing to mend.
<1>12. ASSUME CallFails PROVE Mended'
  <2>1. UNCHANGED <<indexed, at, pass, aff>> /\ (settled' => settled /\ ~job.done)
    BY <1>12 DEF CallFails, content, signals
  <2>2. SUFFICES ASSUME settled', ~PassMends', NEW k \in DOMAIN aff PROVE Owns(k)'
    BY <2>1 DEF Mended
  <2>3. Owns(k)  BY <1>6, <2>1, <2>2 DEF Mended, CallMends
  <2> QED  BY <2>1, <2>3 DEF Owns
<1>13. ASSUME NEW p \in Passes, SyncStart(p) \/ RebuildStart(p) PROVE Mended'
  <2>1. pass'[p].pc = "walk"  BY <1>13, PassSteps, ScanOK
  <2> QED  BY <1>2, <2>1 DEF Mended
<1>14. ASSUME NEW p \in Passes, NEW e \in Entries, PassIndexes(p, e) \/ PassRemoves(p, e) PROVE Mended'
  <2>1. pass'[p].pc = "walk"  BY <1>14, PassSteps
  <2> QED  BY <1>2, <2>1 DEF Mended
<1>15. ASSUME ~settled' PROVE Mended'  BY <1>15 DEF Mended
<1>16. ASSUME NEW p \in Passes,
              \/ ReconcileFails(p)
              \/ \E e \in Entries : PassFails(p, e)
              \/ \E model \in Models : Restart(model, p)
       PROVE  Mended'
  BY <1>15, <1>16 DEF ReconcileFails, PassFails, Restart
<1>17. ASSUME NEW p \in Passes, PassWalked(p) PROVE Mended'
  <2>1. CASE Whole(p)
    <3>1. Become(p, [pass[p] EXCEPT !.pc = "reconcile"])  BY <1>17, <2>1 DEF PassWalked
    <3>2. pass'[p].pc = "reconcile"
      BY <3>1 DEF Become, ContentOK, PassesOK, PassFields
    <3> QED  BY <1>2, <3>2 DEF Mended
  <2>2. CASE ~Whole(p)  BY <1>15, <1>17, <2>2 DEF PassWalked
  <2> QED  BY <2>1, <2>2
\* What points at something that no entry has any more is found and mended.
<1>18. ASSUME NEW p \in Passes, Reconcile(p) PROVE Mended'
  <2> DEFINE gone == Entries \ indexed
             blocks == (1 .. ids) \ {at[e].block : e \in Entries}
             chunks == (1 .. ids) \ {at[e].chunk : e \in Entries}
  <2>1. UNCHANGED <<indexed, at>> /\ CleanUp(gone, blocks, chunks)
    BY <1>18 DEF Reconcile, content
  <2>2. ASSUME NEW n \in DOMAIN aff' PROVE Owns(n)
    <3>1. PICK k \in DOMAIN aff :
            /\ TargetOK(k) /\ k[2] \notin gone /\ n[2] = k[2]
            /\ n[3] \in Target /\ \A q \in Parts : n[3][q] \in {0, k[3][q]}
            /\ k[3].block \in blocks => n[3] = ToEntry
            /\ k[3].chunk \in chunks => n[3].chunk = 0
      BY <2>1, CleanUpKeys
    <3>2. k[2] \in Entries /\ k[2] \in indexed /\ ids \in Nat
          /\ k[3].block \in Nat /\ k[3].block <= ids /\ k[3].chunk \in Nat /\ k[3].chunk <= ids
      BY <3>1 DEF TargetOK, Target, ContentOK
    <3>3. k[3].block = 0 \/ k[3].block \in blocks \/ k[3].block = at[k[2]].block
      BY <3>1, <3>2 DEF TargetOK, Parts
    <3>4. k[3].chunk = 0 \/ k[3].chunk \in chunks \/ k[3].chunk = at[k[2]].chunk
      BY <3>1, <3>2 DEF TargetOK, Parts
    <3> HIDE DEF blocks, chunks
    <3>5. n[3].block \in {0, at[k[2]].block} /\ n[3].chunk \in {0, at[k[2]].chunk}
      BY <3>1, <3>3, <3>4 DEF Parts, ToEntry
    <3> QED  BY <3>1, <3>2, <3>5 DEF Owns, Parts
  <2> QED  BY <2>1, <2>2 DEF Mended, Owns
<1>19. ASSUME NEW p \in Passes, Plan(p) \/ ReembedFails(p) \/ Replace(p) PROVE Mended'
  <2>1. UNCHANGED <<indexed, at, job, settled>> /\ pass[p].pc \notin {"walk", "reconcile"}
    BY <1>19 DEF Plan, ReembedFails, Replace, content, history
  <2>2. \A q \in Passes \ {p} : pass'[q] = pass[q]  BY <1>19, PassSteps
  <2>3. \A n \in DOMAIN aff' : \E k \in DOMAIN aff : n[2] = k[2] /\ n[3] = k[3]
    BY <1>19, ReplaceKeys DEF Plan, ReembedFails, signals
  <2> QED  BY <1>3, <1>4, <2>1, <2>2, <2>3
<1>20. ASSUME NEW e \in Entries, NEW now \in {"block", "bare", "bad", "none"}, Outside(e, now)
       PROVE  Mended'
  <2>1. UNCHANGED <<indexed, at, job, aff, settled, pass>>
    BY <1>20 DEF Outside, signals, history
  <2> QED  BY <1>5, <1>6, <2>1
<1>21. ASSUME UNCHANGED vars PROVE Mended'
  <2>1. UNCHANGED <<indexed, at, job, aff, settled, pass>>
    BY <1>21 DEF vars, content, signals, history
  <2> QED  BY <1>5, <1>6, <2>1
<1> HIDE DEF OwnInv
<1> QED
  BY <1>7, <1>8, <1>9, <1>10, <1>11, <1>12, <1>13, <1>14, <1>16, <1>17, <1>18, <1>19, <1>20, <1>21
  DEF Next

LEMMA OwnInit == Init => OwnInv
<1> SUFFICES ASSUME Init PROVE OwnInv  OBVIOUS
<1>1. ContentOK  BY ContentInit
<1>2. SessionsOK
  <2>1. DOMAIN NoSession = SessionFields /\ NoSession.results = <<>>
    BY DEF NoSession, SessionFields
  <2>2. DOMAIN NoSession.results = {}  BY <2>1
  <2>3. RecordOK(NoSession)  BY <2>1, <2>2 DEF RecordOK
  <2> QED  BY <2>3 DEF Init, SessionsOK
<1>3. IdsOK
  <2>1. /\ at \in [Entries -> [block : 1 .. ids, chunk : 1 .. ids]] /\ job = NoJob
        /\ \A e \in Entries : /\ at[e].chunk = at[e].block + 1
                              /\ \A d \in Entries \ {e} : at[d] # at[e]
    BY DEF Init
  <2>2. ids \in Nat  BY <1>1 DEF ContentOK
  <2>3. ASSUME NEW e \in Entries PROVE EntryIds(e)
    <3>1. at[e].block \in 1 .. ids /\ at[e].chunk \in 1 .. ids  BY <2>1
    <3>2. ASSUME NEW d \in Entries \ {e} PROVE at[e].block # at[d].block /\ at[e].chunk # at[d].chunk
      <4>1. at[d] \in [block : 1 .. ids, chunk : 1 .. ids] /\ at[e] \in [block : 1 .. ids, chunk : 1 .. ids]
            /\ at[d] # at[e] /\ at[e].chunk = at[e].block + 1 /\ at[d].chunk = at[d].block + 1
        BY <2>1
      <4>2. at[d] = [block |-> at[d].block, chunk |-> at[d].chunk]
            /\ at[e] = [block |-> at[e].block, chunk |-> at[e].chunk]
        BY <4>1
      <4> QED  BY <2>2, <4>1, <4>2
    <3> QED  BY <2>2, <3>1, <3>2 DEF EntryIds, Parts
  <2> QED  BY <2>1, <2>3 DEF IdsOK, CallIds
<1>4. aff = <<>>  BY DEF Init
<1>5. DOMAIN aff = {}  BY <1>4
<1> QED  BY <1>1, <1>2, <1>3, <1>5 DEF OwnInv, TargetsOK, Mended

\* With nothing running, and nothing failed or given up since the last reconciliation,
\* every affinity points at something its entry has, whatever feedback came between
\* the reading of the old ids and the change, or from a search that had read its
\* results before it, and however passes and calls met (delete_entries_signals,
\* degrade_block_precision, degrade_chunk_precision, reconcile_content_references).
THEOREM PrecisionAlwaysOwned == Spec => []PrecisionOwned
<1>1. Init => OwnInv  BY OwnInit
<1>2. OwnInv /\ [Next]_vars => OwnInv'
  BY ContentStep, SessionsStep, IdsStep, TargetsStep, MendedStep DEF OwnInv
<1>3. OwnInv => PrecisionOwned
  <2>1. NoPasses => ~PassMends  BY NoPassOK DEF NoPasses, PassMends
  <2> QED  BY <2>1 DEF OwnInv, Mended, CallMends, Owns, Parts, PrecisionOwned
<1> QED  BY <1>1, <1>2, <1>3, PTL DEF Spec
===========================================================================
