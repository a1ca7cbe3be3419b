------------------------------ MODULE Ranking ------------------------------
(* The page that search.hybrid answers with adaptive memory enabled, as a     *)
(* function of what its reads return: the blocks that fulltext search matches *)
(* (service.rs), the chunks nearest to the query (chunk_service.rs), the      *)
(* learned affinities (memory_service.rs) and the factors of entries.         *)
(* Scores are exact here; the code has floats.                                *)
EXTENDS Integers, SequencesExt

CONSTANTS
  Entries,      \* numbers: ids are ordered
  Limits,       \* what clients ask for
  MinRecall,    \* 20 in the code
  Supplements,  \* affinity_candidate_limit
  Weights,      \* fulltext_weight, semantic_weight
  Kinds,        \* of affinities: cosine similarity in tenths, reinforcement_count
  Fading,       \* entries that were not reinforced for long
  Transient,    \* entries with attrs.transient
  MaxRows,      \* bound: blocks that match
  MaxNear,      \* bound: chunks with a vector
  MaxLearned    \* bound: affinities

RankingAssumption ==
  /\ Entries \subseteq Nat \ {0} /\ Limits \subseteq Nat \ {0} /\ (Fading \union Transient) \subseteq Entries
  /\ {MinRecall, Supplements, MaxRows, MaxNear, MaxLearned} \subseteq Nat
  /\ Weights \in Nat \X Nat /\ Kinds \subseteq (0..10) \X (1..3)
  /\ Cardinality(Entries) <= 3

VARIABLES
  rows,       \* matching blocks, best first, by the entry of each
  near,       \* chunks, nearest first, by the entry of each
  learned     \* query_affinities, by entry and kind

vars == <<rows, near, learned>>

Filtered == 0  \* an entry without the tag that the request asks for

First(n, s) == SubSeq(s, 1, IF n < Len(s) THEN n ELSE Len(s))
-----------------------------------------------------------------------------
(* Base candidates. *)

BaseRecall(limit) == IF 2 * limit < MinRecall THEN MinRecall ELSE 2 * limit

\* Entries in the order in which they are first seen.
Dedupe(s) == FoldLeft(LAMBDA seen, e : IF Contains(seen, e) THEN seen ELSE Append(seen, e), <<>>, s)

\* Entries are cut here, but chunks by the KNN query, which has not yet applied the
\* filters of the request.
Fulltext(recall) == First(recall, Dedupe(rows))
Semantic(recall) == Dedupe(SelectSeq(First(recall, near), LAMBDA e : e # Filtered))

\* A multiple of the denominators of all formulas: ranks are at most three.
Unit == 61 * 62 * 63
Reciprocal(rank) == Unit \div (60 + rank)
Position(s, e) == SelectInSeq(s, LAMBDA x : x = e)
Part(s, e) == IF Contains(s, e) THEN Reciprocal(Position(s, e)) ELSE 0

\* rrf_fuse: best score first, ties by fulltext rank.
Fuse(ft, sem, recall) ==
  LET score == [e \in Entries |-> 100 * (Weights[1] * Part(ft, e) + Weights[2] * Part(sem, e))]
      order == SetToSortSeq(Range(ft \o sem),
        LAMBDA a, b : \/ score[a] > score[b]
                      \/ score[a] = score[b] /\ Part(ft, a) > Part(ft, b))
  IN [i \in DOMAIN First(recall, order) |-> [entry |-> order[i], fusion |-> score[order[i]]]]

Base(limit) ==
  Fuse(Fulltext(BaseRecall(limit)), Semantic(BaseRecall(limit)), BaseRecall(limit))
-----------------------------------------------------------------------------
(* Affinities. *)

Threshold == 8
Normalized(similarity) == ((similarity - Threshold) * 10) \div (10 - Threshold)
CountFactor == <<7, 9, 10>>
Confidence(a) == Normalized(a.kind[1]) * CountFactor[a.kind[2]]

Stronger(a, b) ==
  \/ Confidence(a) > Confidence(b)
  \/ /\ Confidence(a) = Confidence(b)
     /\ \/ a.kind[1] > b.kind[1]
        \/ a.kind[1] = b.kind[1] /\ a.entry < b.entry

Matching == {a \in learned : a.kind[1] >= Threshold}

\* Strongest first; the first of an entry is its hit, and hits are ranked.
RankAffinities ==
  LET hits == FoldLeft(LAMBDA seen, a : IF \E h \in Range(seen) : h.entry = a.entry
                                        THEN seen ELSE Append(seen, a),
                       <<>>, SetToSortSeq(Matching, Stronger))
  IN [i \in DOMAIN hits |->
        [entry |-> hits[i].entry, score |-> Confidence(hits[i]) * Reciprocal(i)]]

\* Slip: hits of base candidates count against the limit.
HitsForAll(ranked, required) ==
  SelectSeq(ranked, LAMBDA h : h.entry \in required \/ Position(ranked, h) <= Supplements)

\* All hits of the base candidates, and the first few of others.
Hits(ranked, required) ==
  LET others == SelectSeq(ranked, LAMBDA h : h.entry \notin required)
  IN SelectSeq(ranked, LAMBDA h : h.entry \in required \/ Position(others, h) <= Supplements)
-----------------------------------------------------------------------------
(* The page. *)

MemoryFactor(e) == IF e \in Fading THEN 8 ELSE 11
TransientFactor(e) == IF e \in Transient THEN 1 ELSE 2

RankCandidates(base, hits, limit) ==
  LET required == {c.entry : c \in Range(base)}
      fusion == [e \in Entries |-> IF e \in required
                   THEN base[SelectInSeq(base, LAMBDA c : c.entry = e)].fusion ELSE 0]
      gain == [e \in Entries |-> LET i == SelectInSeq(hits, LAMBDA h : h.entry = e)
                                 IN IF i = 0 THEN 0 ELSE hits[i].score]
      score == [e \in Entries |-> (fusion[e] + gain[e]) * MemoryFactor(e) * TransientFactor(e)]
  IN First(limit, SetToSortSeq(required \union {h.entry : h \in Range(hits)},
       LAMBDA a, b : \/ score[a] > score[b]
                     \/ /\ score[a] = score[b]
                        /\ fusion[a] > fusion[b] \/ (fusion[a] = fusion[b] /\ a < b)))

Page(limit) ==
  LET base == Base(limit)
  IN RankCandidates(base, Hits(RankAffinities, {c.entry : c \in Range(base)}), limit)
-----------------------------------------------------------------------------
(* What the reads may return. *)

Init == rows = <<>> /\ near = <<>> /\ learned = {}

Match == /\ near = <<>> /\ learned = {} /\ Len(rows) < MaxRows
         /\ \E e \in Entries : rows' = Append(rows, e)
         /\ UNCHANGED <<near, learned>>

Near == /\ learned = {} /\ Len(near) < MaxNear
        /\ \E e \in Entries \union {Filtered} : near' = Append(near, e)
        /\ UNCHANGED <<rows, learned>>

Learn == /\ Cardinality(learned) < MaxLearned
         /\ \E a \in [entry : Entries, kind : Kinds] : learned' = learned \union {a}
         /\ UNCHANGED <<rows, near>>

Next == Match \/ Near \/ Learn

Spec == Init /\ [][Next]_vars
-----------------------------------------------------------------------------
(* Properties. *)

\* The documented scores, without the stages that compute them.  An entry's rank is one
\* more than the number of entries that a retriever has before it.
RankIn(s, e) == Cardinality(Range(SubSeq(s, 1, Position(s, e))))
Fusion(limit) ==
  LET found(s) == First(BaseRecall(limit), s)
      matched == found(Dedupe(rows))
      reached == SelectSeq(found(near), LAMBDA x : x # Filtered)
      share(s, e) == IF e \in Range(s) THEN Reciprocal(RankIn(s, e)) ELSE 0
  IN [e \in Entries |-> 100 * (Weights[1] * share(matched, e) + Weights[2] * share(reached, e))]

\* Its affinity is the strongest one, at its rank among the strongest of all entries.
Strongest == {a \in Matching : ~\E b \in Matching : b.entry = a.entry /\ Stronger(b, a)}
Gain(e) ==
  LET mine == {a \in Strongest : a.entry = e}
  IN IF mine = {} THEN 0 ELSE LET a == CHOOSE x \in mine : TRUE
     IN Confidence(a) * Reciprocal(1 + Cardinality({b \in Strongest : Stronger(b, a)}))

\* The best of those that either retriever found, and the few others whose affinities
\* are stronger than those of the rest.
InBase(limit, fusion) ==
  LET first == [e \in Entries |-> Part(Dedupe(rows), e)]
      before(e) == {x \in Entries : \/ fusion[x] > fusion[e]
                                    \/ fusion[x] = fusion[e] /\ first[x] > first[e]}
  IN {e \in Entries : fusion[e] > 0 /\ Cardinality(before(e)) < BaseRecall(limit)}
Supplemented(base) ==
  LET others == {a \in Strongest : a.entry \notin base}
  IN {a.entry : a \in {x \in others :
                         Cardinality({b \in others : Stronger(b, x)}) < Supplements}}

\* The page is what scores best by the documented formula among base candidates and the
\* few learned-only ones, each once, best first: however many matches and affinities an
\* entry has, and whether affinities of base candidates outnumber the limit or not.
BestByScore(limit) ==
  LET fusion == Fusion(limit)
      base == InBase(limit, fusion)
      all == base \union Supplemented(base)
      score == [e \in all |-> ((IF e \in base THEN fusion[e] ELSE 0) + Gain(e))
                                * MemoryFactor(e) * TransientFactor(e)]
      page == Page(limit)
  IN /\ Range(page) \subseteq all /\ IsInjective(page)
     /\ Len(page) = IF limit < Cardinality(all) THEN limit ELSE Cardinality(all)
     /\ \A i \in DOMAIN page : \A e \in all \ {page[j] : j \in 1 .. i} :
          score[page[i]] >= score[e]

PageRight == \A limit \in Limits : BestByScore(limit)
=============================================================================
