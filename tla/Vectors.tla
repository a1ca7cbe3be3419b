------------------------------- MODULE Vectors -------------------------------
(* The vectors of one entry's chunks: embed_entry_chunks                       *)
(* (daemon/src/handlers/embed.rs) as run by handlers and index passes at the   *)
(* same time, the cache of embeddings it goes through                          *)
(* (providers/src/cached.rs), and the table of vectors (chunk_service.rs),     *)
(* under changes of the blocks and reboots with another model or dimension. A  *)
(* vector is told by what it was computed from.                                *)
EXTENDS Naturals, FiniteSets, Sequences, Functions

CONSTANTS Blocks,    \* the blocks of the entry
          Texts,     \* chunk texts, told apart by their hash
          Configs,   \* <<model, dim>> pairs the daemon is booted with
          Jobs,      \* runs of embed_entry_chunks
          NoText,    \* what the zero vector is of
          MaxChunks, \* bound on chunk ids
          MaxBoots,  \* bound on reboots
          MaxRuns    \* bound on runs of a behaviour

VectorsAssumption ==
  /\ NoText \notin Texts
  /\ Configs \subseteq (STRING \X Nat)
  /\ MaxChunks \in Nat /\ MaxBoots \in Nat /\ MaxRuns \in Nat

VARIABLES chunks, \* chunk rows: id -> block and text
          minted, \* chunk ids given out
          vec,    \* vec_chunk_embeddings: chunk id -> vector
          dim,    \* the dimension in its CREATE statement
          cache,  \* emb_cache: <<model, text>> -> vector
          conf,   \* the configuration of this boot
          job,    \* job[j]: a run in its steps
          boots, runs,
          passed  \* history: chunks whose row went while a run had listed them

vars == <<chunks, minted, vec, dim, cache, conf, job, boots, runs, passed>>

Ids == 1..MaxChunks
Vector == [model : {c[1] : c \in Configs}, dim : {c[2] : c \in Configs},
           text : Texts \union {NoText}]
Chunk == [block : Blocks, text : Texts]
Listed == Seq([id : Ids, text : Texts])

\* The members of a set of numbers in ascending order: one sequence.
Ascending(S) ==
  {f \in [1..Cardinality(S) -> S] :
     S = Range(f) /\ \A m, n \in DOMAIN f : m < n => f[m] < f[n]}

NoJob == [pc |-> "idle", todo |-> {}, list |-> <<>>, got |-> <<>>, pos |-> 1]

Partial(f, D, R) == DOMAIN f \subseteq D /\ \A x \in DOMAIN f : f[x] \in R

TypeOK ==
  /\ Partial(chunks, Ids, Chunk)
  /\ minted \in 0..MaxChunks /\ DOMAIN chunks \subseteq 1..minted
  /\ Partial(vec, Ids, Vector) /\ \A i \in DOMAIN vec : vec[i].dim = dim
  /\ Partial(cache, {c[1] : c \in Configs} \X Texts, Vector)
  /\ conf \in Configs /\ dim = conf[2]
  /\ \A j \in Jobs :
       /\ job[j].pc \in {"idle", "list", "lookup", "inner", "write"}
       /\ job[j].todo \subseteq Blocks
       /\ job[j].list \in Listed
       /\ job[j].pos \in 1..(Len(job[j].list) + 1)
       /\ \A i \in 1..Len(job[j].got) : job[j].got[i] \in Vector \union {NoText}
  /\ boots \in 0..MaxBoots /\ runs \in 0..MaxRuns /\ passed \subseteq Ids

Init ==
  /\ chunks = <<>> /\ vec = <<>> /\ cache = <<>>
  /\ minted = 0 /\ boots = 0 /\ runs = 0 /\ passed = {}
  /\ conf \in Configs /\ dim = conf[2]
  /\ job = [j \in Jobs |-> NoJob]

Of(b) == {i \in DOMAIN chunks : chunks[i].block = b}
ListedBy(j) == {job[j].list[n].id : n \in 1..Len(job[j].list)}
-----------------------------------------------------------------------------
(* Changes of a block: its chunk rows are deleted, the chunks_ad trigger takes *)
(* their vectors along, and chunks with new ids are inserted.                  *)
ReplaceRows(b, texts, kept) ==
  /\ minted + Len(texts) <= MaxChunks
  /\ chunks' = [i \in (DOMAIN chunks \ Of(b)) \union (minted + 1)..(minted + Len(texts)) |->
                  IF i <= minted THEN chunks[i] ELSE [block |-> b, text |-> texts[i - minted]]]
  /\ minted' = minted + Len(texts)
  /\ vec' = [i \in DOMAIN vec \ (Of(b) \ kept) |-> vec[i]]
  /\ passed' = passed \union (Of(b) \intersect UNION {ListedBy(j) : j \in Jobs})
  /\ UNCHANGED <<dim, cache, conf, job, boots, runs>>

Replace(b, texts) == ReplaceRows(b, texts, {})
-----------------------------------------------------------------------------
(* A run.                                                                     *)

\* The blocks of the entry are listed first,
Plan(j) ==
  /\ job[j].pc = "idle" /\ runs < MaxRuns
  /\ job' = [job EXCEPT ![j] = [NoJob EXCEPT !.pc = "list", !.todo = {chunks[i].block : i \in DOMAIN chunks}]]
  /\ runs' = runs + 1
  /\ UNCHANGED <<chunks, minted, vec, dim, cache, conf, boots, passed>>

\* then the chunks of one block after the other, which may have others by then.
ListBlock(j, b) ==
  /\ job[j].pc = "list" /\ b \in job[j].todo
  /\ \E found \in Ascending(Of(b)) :
     job' = [job EXCEPT ![j].todo = @ \ {b},
                        ![j].list = @ \o [n \in 1..Len(found) |->
                                            [id |-> found[n], text |-> chunks[found[n]].text]]]
  /\ UNCHANGED <<chunks, minted, vec, dim, cache, conf, boots, runs, passed>>

\* Nothing to embed is a success.
ListDone(j) ==
  /\ job[j].pc = "list" /\ job[j].todo = {}
  /\ job' = [job EXCEPT ![j] = IF job[j].list = <<>> THEN NoJob ELSE [@ EXCEPT !.pc = "lookup"]]
  /\ UNCHANGED <<chunks, minted, vec, dim, cache, conf, boots, runs, passed>>

\* A row counts only with the dimension of this boot.
Cached(text) == <<conf[1], text>> \in DOMAIN cache /\ cache[<<conf[1], text>>].dim = conf[2]

Looked(j) ==
  [n \in 1..Len(job[j].list) |->
     LET text == job[j].list[n].text IN
     IF Cached(text) THEN cache[<<conf[1], text>>] ELSE NoText]

Lookup(j) ==
  /\ job[j].pc = "lookup"
  /\ LET got == Looked(j) IN
     job' = [job EXCEPT ![j].got = got, ![j].pc = IF NoText \in Range(got) THEN "inner" ELSE "write"]
  /\ UNCHANGED <<chunks, minted, vec, dim, cache, conf, boots, runs, passed>>

Misses(j) == {n \in 1..Len(job[j].got) : job[j].got[n] = NoText}
VectorOf(text) == [model |-> conf[1], dim |-> conf[2], text |-> text]

\* INSERT OR IGNORE of new[k] under the text at place at[k]: the key is the model
\* and the hash, and a row of another dimension keeps its place.
Persist(j, new, at) ==
  LET key(k) == <<conf[1], job[j].list[at[k]].text>>
      keys == {key(k) : k \in 1..Len(new)}
      first(x) == CHOOSE k \in 1..Len(new) : key(k) = x /\ \A l \in 1..(k - 1) : key(l) # x
  IN cache' = [x \in DOMAIN cache \union keys |->
                 IF x \in DOMAIN cache THEN cache[x] ELSE new[first(x)]]

\* The answers in the order of the texts; those the provider left out are zero.
Assembled(j, new, at) ==
  [n \in 1..Len(job[j].got) |->
     IF job[j].got[n] # NoText THEN job[j].got[n]
     ELSE LET k == CHOOSE k \in 1..Len(at) : at[k] = n IN
          IF k <= Len(new) THEN new[k] ELSE VectorOf(NoText)]

\* Slip: the k-th answer is filed under the k-th text, not under the k-th miss.
InnerMisfiled(j, m) ==
  /\ job[j].pc = "inner" /\ m \in 0..Cardinality(Misses(j))
  /\ \E at \in Ascending(Misses(j)) :
     LET new == [k \in 1..m |-> VectorOf(job[j].list[at[k]].text)]
     IN /\ Persist(j, new, [k \in 1..Len(at) |-> k])
        /\ job' = [job EXCEPT ![j].pc = "write", ![j].got = Assembled(j, new, at)]
  /\ UNCHANGED <<chunks, minted, vec, dim, conf, boots, runs, passed>>

\* The provider answers, without any lock held since the lookup, the first m of
\* the misses, which is all of them unless its answer is short.
Inner(j, m) ==
  /\ job[j].pc = "inner" /\ m \in 0..Cardinality(Misses(j))
  /\ \E at \in Ascending(Misses(j)) :
     LET new == [k \in 1..m |-> VectorOf(job[j].list[at[k]].text)]
     IN /\ Persist(j, new, at)
        /\ job' = [job EXCEPT ![j].pc = "write", ![j].got = Assembled(j, new, at)]
  /\ UNCHANGED <<chunks, minted, vec, dim, conf, boots, runs, passed>>

\* The provider, a lookup or a write fails: the run is over, what it wrote stays.
JobFails(j) ==
  /\ job[j].pc # "idle"
  /\ job' = [job EXCEPT ![j] = NoJob]
  /\ UNCHANGED <<chunks, minted, vec, dim, cache, conf, boots, runs, passed>>

LastOf(j) == job[j].pos = Len(job[j].list)
Written(j) == IF LastOf(j) THEN NoJob ELSE [job[j] EXCEPT !.pos = @ + 1]

\* Slip: a chunk that has a vector keeps it.
WriteOnce(j) ==
  /\ job[j].pc = "write"
  /\ LET id == job[j].list[job[j].pos].id IN
     vec' = [i \in DOMAIN vec \union {id} |-> IF i \in DOMAIN vec THEN vec[i] ELSE job[j].got[job[j].pos]]
  /\ job' = [job EXCEPT ![j] = Written(j)]
  /\ UNCHANGED <<chunks, minted, dim, cache, conf, boots, runs, passed>>

\* write_embedding: DELETE and INSERT in a transaction, whether or not the chunk
\* is still there.
Write(j) ==
  /\ job[j].pc = "write"
  /\ LET id == job[j].list[job[j].pos].id IN
     vec' = [i \in DOMAIN vec \union {id} |-> IF i = id THEN job[j].got[job[j].pos] ELSE vec[i]]
  /\ job' = [job EXCEPT ![j] = Written(j)]
  /\ UNCHANGED <<chunks, minted, dim, cache, conf, boots, runs, passed>>
-----------------------------------------------------------------------------
(* Around it.                                                                 *)

\* The daemon starts again, perhaps with another configuration; the table is
\* made anew if its dimension differs (ensure_vec_chunk_embeddings).
Boot(c) ==
  /\ boots < MaxBoots /\ boots' = boots + 1
  /\ conf' = c /\ dim' = c[2]
  /\ vec' = IF c[2] = dim THEN vec ELSE <<>>
  /\ job' = [j \in Jobs |-> NoJob]
  /\ UNCHANGED <<chunks, minted, cache, runs, passed>>

\* cache.clear with a model, a date or a number of rows to keep.
Clear(some) ==
  /\ cache' = [x \in DOMAIN cache \ some |-> cache[x]]
  /\ UNCHANGED <<chunks, minted, vec, dim, conf, job, boots, runs, passed>>

Next ==
  \/ \E b \in Blocks : \/ Replace(b, <<>>)
                       \/ \E t \in Texts : Replace(b, <<t>>)
                       \/ \E t, u \in Texts : Replace(b, <<t, u>>)
  \/ \E j \in Jobs : \/ Plan(j) \/ ListDone(j) \/ Lookup(j) \/ Write(j) \/ JobFails(j)
                     \/ \E b \in Blocks : ListBlock(j, b)
                     \/ \E m \in 0..MaxChunks : Inner(j, m)
  \/ \E c \in Configs : Boot(c)
  \/ \E some \in SUBSET DOMAIN cache : some # {} /\ Clear(some)

Spec == Init /\ [][Next]_vars
-----------------------------------------------------------------------------
\* Whatever the runs, the cache and the changes made while the provider was
\* answering: the vector of a chunk is that of its text, or the zero vector, and
\* the cache files no vector under another text or model. A vector without a chunk,
\* which takes a place among a search's nearest, is left only by a run that had
\* listed the chunk before its block was changed.
VectorsRight ==
  /\ DOMAIN vec \ DOMAIN chunks \subseteq passed
  /\ \A i \in DOMAIN chunks \intersect DOMAIN vec : vec[i].text \in {chunks[i].text, NoText}
  /\ \A x \in DOMAIN cache : <<cache[x].model, cache[x].text>> = x

\* A run that ends without an error leaves every chunk that it listed, and that is
\* still there, with a vector of the configured model, also if one of an earlier
\* model was there, and whatever other runs wrote meanwhile.
RunCovers ==
  [][\A j \in Jobs :
       Write(j) /\ LastOf(j)
         => \A i \in ListedBy(j) \intersect DOMAIN chunks :
              i \in DOMAIN vec' /\ vec'[i].model = conf[1]]_vars
===============================================================================
