----------------------------- MODULE SearchCache -----------------------------
(***************************************************************************)
(* The search-results cache of the daemon and everything that races it:    *)
(* the RPC handlers that change the index, each a sequence of effects in   *)
(* source order with its own place for the generation bump, and the three  *)
(* search handlers, which load the generation, look the key up, compute    *)
(* with no lock held and insert under the key they started with.           *)
(*                                                                         *)
(* Every transaction on the one SQLite connection is atomic and totally    *)
(* ordered by its mutex, so what a read sees is a prefix of the commit     *)
(* history: a result is the length of the prefix each of its parts was     *)
(* read from.  One query is modelled; keys of other queries never meet it. *)
(***************************************************************************)
EXTENDS Naturals, Sequences, FiniteSets, FiniteSetsExt

CONSTANTS
  Writers,    \* client connections that call mutating RPCs
  Searchers,  \* client connections that search
  NoWriter,   \* the sync_lock is free
  Methods,    \* the mutating RPCs the clients of this instance call
  Rpcs,       \* the search RPCs they call
  MayFail,    \* handler steps that may fail in this instance
  MaxCalls,   \* bound: mutating calls of a behaviour
  MaxAsks,    \* bound: searches of a behaviour
  MaxPass     \* bound: entries one index pass or purge changes

-----------------------------------------------------------------------------
(* Plausible slips in the handlers below, for showing that the properties *)
(* notice them: no definition of the model uses these.                    *)

CreateBumpsBeforeVectors == <<"commit", "bump", "embed">>
UpdateWithoutBump        == <<"commit">>
SyncBumpsFirst           == <<"bump", "syncPass", "embed", "cleanup">>
DeleteBumpsFirst         == <<"bump", "commit", "removeDir", "cleanup">>

(* Handlers, as the sequence of their effects. *)

EntryCreate    == <<"commit", "embed", "bump">>
EntryUpdate    == <<"commit", "bump">>
EntryDelete    == <<"commit", "removeDir", "bump", "cleanup">>
PurgeTransient == <<"purge", "bumpIfChanged", "cleanup">>
BlockAppend    == <<"commit", "rerender", "embed", "bump">>
BlockUpdate    == <<"commit", "bump", "rerender", "embed", "cleanup">>
BlockDelete    == <<"commit", "bump", "rerender", "cleanup">>
Batch          == <<"commit", "embed", "cleanup">>
IndexSync      == <<"syncPass", "bumpIfChanged", "embed", "cleanup">>
IndexRebuild   == <<"commit", "reindexAll", "bump", "cleanup", "embedAll">>

AllMethods == {"entry.create", "entry.update", "entry.delete",
               "entries.purge_transient", "block.append", "block.update",
               "block.delete", "batch", "index.sync", "index.rebuild"}

Handler(op) ==
  CASE op = "entry.create"            -> EntryCreate
    [] op = "entry.update"            -> EntryUpdate
    [] op = "entry.delete"            -> EntryDelete
    [] op = "entries.purge_transient" -> PurgeTransient
    [] op = "block.append"            -> BlockAppend
    [] op = "block.update"            -> BlockUpdate
    [] op = "block.delete"            -> BlockDelete
    [] op = "batch"                   -> Batch
    [] op = "index.sync"              -> IndexSync
    [] op = "index.rebuild"           -> IndexRebuild

\* is_mutating(): dispatched under sync_lock.  The index passes are not.
Serialized == AllMethods \ {"index.sync", "index.rebuild"}

LoopSteps    == {"purge", "syncPass", "reindexAll"}
ContentSteps == LoopSteps \union {"commit"}   \* change rows, blocks or FTS
BumpSteps    == {"bump", "bumpIfChanged"}
VectorSteps  == {"embed", "embedAll"}
QuietSteps   == {"removeDir", "cleanup"}      \* touch nothing a search reads
Steps == ContentSteps \union BumpSteps \union VectorSteps \union QuietSteps
           \union {"rerender"}

\* What a commit changes: indexed content, the updated_at stamp a rerender
\* writes, or the vectors of chunks.
Facets == {"content", "stamp", "vec"}

SearchRpc == {"fulltext", "semantic", "hybrid"}
Parts == {"fts", "knn"}
PartsOf(rpc) == CASE rpc = "fulltext" -> {"fts"}
                  [] rpc = "semantic" -> {"knn"}
                  [] rpc = "hybrid"   -> Parts

Key == [generation : Nat, rpc : SearchRpc]

ASSUME ConstantsAssumption ==
  /\ NoWriter \notin Writers
  /\ Methods \subseteq AllMethods
  /\ Rpcs \subseteq SearchRpc
  /\ MayFail \subseteq Steps \ BumpSteps
  /\ MaxCalls \in Nat
  /\ MaxAsks \in Nat
  /\ MaxPass \in Nat

-----------------------------------------------------------------------------
VARIABLES
  db,          \* number of committed transactions
  generation,  \* SearchCache.generation
  map,         \* SearchCache.map
  syncLock,    \* holder of Daemon.sync_lock
  wr,          \* wr[w]: the handler running for writer w
  srch,        \* srch[s]: the search running for searcher s
  calls,       \* mutating calls made so far
  asks,        \* searches made so far
  acked,       \* history: last commit of each facet a success answer reported
  settled,     \* history: last commit of each facet by a call that ended at all
  floor        \* history: floor[g] = db when the generation became g

vars == <<db, generation, map, syncLock, wr, srch, calls, asks, acked, settled, floor>>

Zero == [f \in Facets |-> 0]
MaxOf(a, b) == IF a >= b THEN a ELSE b
Join(p, q) == [f \in Facets |-> MaxOf(p[f], q[f])]

IdleWriter == [pc |-> "idle", op |-> "none", at |-> 1, pos |-> Zero,
               changed |-> FALSE, rounds |-> 0]
IdleSearch == [pc |-> "idle", rpc |-> "none", key |-> 0, todo |-> {},
               got |-> [p \in Parts |-> 0], need |-> Zero, due |-> Zero]

Init ==
  /\ db = 0
  /\ generation = 0
  /\ map = [k \in {} |-> [p \in Parts |-> 0]]
  /\ syncLock = NoWriter
  /\ wr = [w \in Writers |-> IdleWriter]
  /\ srch = [s \in Searchers |-> IdleSearch]
  /\ calls = 0
  /\ asks = 0
  /\ acked = Zero
  /\ settled = Zero
  /\ floor = [g \in {0} |-> 0]

-----------------------------------------------------------------------------
(* Mutating handlers. *)

\* Daemon::dispatch: a mutating handler queues for sync_lock, an index pass
\* starts at once.
Call(w, op) ==
  /\ wr[w].pc = "idle"
  /\ calls < MaxCalls
  /\ calls' = calls + 1
  /\ wr' = [wr EXCEPT ![w] = [IdleWriter EXCEPT
              !.op = op, !.pc = IF op \in Serialized THEN "queued" ELSE "run"]]
  /\ UNCHANGED <<db, generation, map, syncLock, srch, asks, acked, settled, floor>>

Acquire(w) ==
  /\ wr[w].pc = "queued"
  /\ syncLock = NoWriter
  /\ syncLock' = w
  /\ wr' = [wr EXCEPT ![w].pc = "run"]
  /\ UNCHANGED <<db, generation, map, srch, calls, asks, acked, settled, floor>>

Running(w) == wr[w].pc = "run" /\ wr[w].at <= Len(Handler(wr[w].op))
Doing(w, kinds) == Running(w) /\ Handler(wr[w].op)[wr[w].at] \in kinds

Reached(pos, facet) == [pos EXCEPT ![facet] = db + 1]

\* One transaction commits: every later read sees it.
CommitFacet(w, facet, next, rounds) ==
  /\ db' = db + 1
  /\ wr' = [wr EXCEPT ![w] = [@ EXCEPT !.pos = Reached(wr[w].pos, facet), !.changed = TRUE,
                                         !.at = next, !.rounds = rounds]]
  /\ UNCHANGED <<generation, map, syncLock, srch, calls, asks, acked, settled, floor>>

Skip(w) ==
  /\ wr' = [wr EXCEPT ![w].at = @ + 1]
  /\ UNCHANGED <<db, generation, map, syncLock, srch, calls, asks, acked, settled, floor>>

Commit(w) == Doing(w, {"commit"}) /\ CommitFacet(w, "content", wr[w].at + 1, 0)

\* purge_transient: the row is gone but its directory could not be removed, so
\* the entry is reported as failed and not counted as deleted.
PurgeUncounted(w) ==
  /\ Doing(w, {"purge"})
  /\ "purge" \in MayFail
  /\ db' = db + 1
  /\ wr' = [wr EXCEPT ![w] = [@ EXCEPT !.pos = Reached(wr[w].pos, "content"),
                                         !.rounds = wr[w].rounds + 1]]
  /\ UNCHANGED <<generation, map, syncLock, srch, calls, asks, acked, settled, floor>>

\* A purge or an index pass commits entry by entry, then moves on.
PassEntry(w) ==
  /\ Doing(w, LoopSteps)
  /\ wr[w].rounds < MaxPass
  /\ PurgeUncounted(w) \/ CommitFacet(w, "content", wr[w].at, wr[w].rounds + 1)

PassDone(w) == Doing(w, LoopSteps) /\ Skip(w)

\* rerender_entry_nomai: the file, then the row's fs_mtime and updated_at.
Rerender(w) == Doing(w, {"rerender"}) /\ CommitFacet(w, "stamp", wr[w].at + 1, 0)

\* embed_entry_chunks: vectors written, or nothing to embed.
Embed(w) == Doing(w, VectorSteps) /\ CommitFacet(w, "vec", wr[w].at + 1, 0)
NothingToEmbed(w) == Doing(w, VectorSteps) /\ Skip(w)

Quiet(w) == Doing(w, QuietSteps) /\ Skip(w)

\* bump_generation, conditional for index.sync and a purge.
Bump(w) ==
  /\ Doing(w, BumpSteps)
  /\ Doing(w, {"bump"}) \/ wr[w].changed
  /\ generation' = generation + 1
  /\ floor' = [g \in 0 .. generation + 1 |-> IF g <= generation THEN floor[g] ELSE db]
  /\ wr' = [wr EXCEPT ![w].at = @ + 1]
  /\ UNCHANGED <<db, map, syncLock, srch, calls, asks, acked, settled>>

BumpSkipped(w) == Doing(w, {"bumpIfChanged"}) /\ ~wr[w].changed /\ Skip(w)

NeverReleased(w) == syncLock  \* slip: the guard is leaked

Release(w) == IF syncLock = w THEN NoWriter ELSE syncLock

\* A step fails and its error leaves the handler, after what it committed.
\* A failed re-embedding of index.rebuild and a failed purge are collected
\* instead, so they are not failures of the call.
StepFails(w) ==
  /\ Doing(w, MayFail \ {"embedAll", "reindexAll", "purge"})
  /\ settled' = Join(settled, wr[w].pos)
  /\ wr' = [wr EXCEPT ![w] = IdleWriter]
  /\ syncLock' = Release(w)
  /\ UNCHANGED <<db, generation, map, srch, calls, asks, acked, floor>>

Answer(w) ==
  /\ wr[w].pc = "run"
  /\ wr[w].at > Len(Handler(wr[w].op))
  /\ acked' = Join(acked, wr[w].pos)
  /\ settled' = Join(settled, wr[w].pos)
  /\ wr' = [wr EXCEPT ![w] = IdleWriter]
  /\ syncLock' = Release(w)
  /\ UNCHANGED <<db, generation, map, srch, calls, asks, floor>>

WriterStep(w) ==
  \/ Acquire(w) \/ Commit(w) \/ PassEntry(w) \/ PassDone(w)
  \/ Rerender(w) \/ Embed(w) \/ NothingToEmbed(w) \/ Quiet(w)
  \/ Bump(w) \/ BumpSkipped(w) \/ StepFails(w) \/ Answer(w)
-----------------------------------------------------------------------------
(* Search handlers. *)

UnchangedBySearch == UNCHANGED <<db, generation, syncLock, wr, calls, acked, settled, floor>>

\* The request arrives; query rewriting and embedding may follow before the
\* cache is consulted.
Ask(s, rpc) ==
  /\ srch[s].pc = "idle"
  /\ asks < MaxAsks
  /\ asks' = asks + 1
  /\ srch' = [srch EXCEPT ![s] = [IdleSearch EXCEPT !.pc = "load", !.rpc = rpc,
                                    !.need = acked, !.due = settled]]
  /\ UnchangedBySearch /\ UNCHANGED map

LoadGeneration(s) ==
  /\ srch[s].pc = "load"
  /\ srch' = [srch EXCEPT ![s] = [@ EXCEPT !.pc = "get", !.key = generation]]
  /\ UnchangedBySearch /\ UNCHANGED <<map, asks>>

KeyOf(s) == [generation |-> srch[s].key, rpc |-> srch[s].rpc]

Hit(s) ==
  /\ srch[s].pc = "get"
  /\ KeyOf(s) \in DOMAIN map
  /\ srch' = [srch EXCEPT ![s] = [@ EXCEPT !.pc = "done", !.got = map[KeyOf(s)]]]
  /\ UnchangedBySearch /\ UNCHANGED <<map, asks>>

Miss(s) ==
  /\ srch[s].pc = "get"
  /\ KeyOf(s) \notin DOMAIN map
  /\ srch' = [srch EXCEPT ![s] = [@ EXCEPT !.pc = "compute",
                                             !.todo = PartsOf(srch[s].rpc)]]
  /\ UnchangedBySearch /\ UNCHANGED <<map, asks>>

\* One read transaction of compute(); hybrid runs its two in either order.
ReadPart(s, part) ==
  /\ srch[s].pc = "compute"
  /\ part \in srch[s].todo
  /\ srch' = [srch EXCEPT ![s] = [@ EXCEPT !.got[part] = db,
                                             !.todo = srch[s].todo \ {part}]]
  /\ UnchangedBySearch /\ UNCHANGED <<map, asks>>

\* compute() fails (the provider did not embed the query): nothing is cached.
ComputeFails(s) ==
  /\ srch[s].pc = "compute"
  /\ "knn" \in srch[s].todo
  /\ srch' = [srch EXCEPT ![s] = IdleSearch]
  /\ UnchangedBySearch /\ UNCHANGED <<map, asks>>

Insert(s) ==
  /\ srch[s].pc = "compute"
  /\ srch[s].todo = {}
  /\ map' = [k \in DOMAIN map \union {KeyOf(s)} |->
               IF k = KeyOf(s) THEN srch[s].got ELSE map[k]]
  /\ srch' = [srch EXCEPT ![s].pc = "done"]
  /\ UnchangedBySearch /\ UNCHANGED asks

Finish(s) ==
  /\ srch[s].pc = "done"
  /\ srch' = [srch EXCEPT ![s] = IdleSearch]
  /\ UnchangedBySearch /\ UNCHANGED <<map, asks>>

SearcherStep(s) ==
  \/ LoadGeneration(s) \/ Hit(s) \/ Miss(s) \/ ComputeFails(s)
  \/ (\E part \in Parts : ReadPart(s, part))
  \/ Insert(s) \/ Finish(s)

\* cache.clear with namespace searches or all: the map, not the generation.
CacheClear ==
  /\ map' = [k \in {} |-> [p \in Parts |-> 0]]
  /\ UNCHANGED <<db, generation, syncLock, wr, srch, calls, asks, acked, settled, floor>>

Next ==
  \/ \E w \in Writers : WriterStep(w) \/ \E op \in Methods : Call(w, op)
  \/ \E s \in Searchers : SearcherStep(s) \/ \E rpc \in Rpcs : Ask(s, rpc)
  \/ CacheClear

Spec == Init /\ [][Next]_vars

\* Handlers run to completion once started; tokio's mutex is handed over in
\* FIFO order, so a queued handler is not overtaken forever.
Fairness == /\ \A w \in Writers : WF_vars(WriterStep(w)) /\ SF_vars(Acquire(w))
            /\ \A s \in Searchers : WF_vars(SearcherStep(s))

FairSpec == Spec /\ Fairness
-----------------------------------------------------------------------------
(* Properties. *)

Result == [Parts -> Nat]
Stamps == [Facets -> Nat]

WriterRecord ==
  [pc : {"idle", "queued", "run"}, op : AllMethods \union {"none"}, at : Nat \ {0},
   pos : Stamps, changed : BOOLEAN, rounds : Nat]

SearchRecord ==
  [pc : {"idle", "load", "get", "compute", "done"}, rpc : SearchRpc \union {"none"},
   key : Nat, todo : SUBSET Parts, got : Result, need : Stamps, due : Stamps]

StoreType ==
  /\ db \in Nat /\ generation \in Nat /\ calls \in Nat /\ asks \in Nat
  /\ DOMAIN map \subseteq Key
  /\ \A k \in DOMAIN map : map[k] \in Result
  /\ acked \in Stamps /\ settled \in Stamps
  /\ floor \in [0 .. generation -> Nat]

WritersType ==
  /\ wr \in [Writers -> WriterRecord]
  /\ \A w \in Writers : wr[w].pc # "idle" => wr[w].op \in Methods

SearchersType ==
  /\ srch \in [Searchers -> SearchRecord]
  /\ \A s \in Searchers : srch[s].pc # "idle" => srch[s].rpc \in SearchRpc

LockType ==
  /\ syncLock \in Writers \union {NoWriter}
  /\ \A w \in Writers : syncLock = w => wr[w].pc = "run"
  /\ \A w \in Writers : wr[w].pc = "run" /\ wr[w].op \in Serialized => syncLock = w

\* Every variable has the shape the daemon gives it; sync_lock is held by a
\* running handler, and every serialized handler that runs holds it.
TypeOK == StoreType /\ WritersType /\ SearchersType /\ LockType

Answered(s) == srch[s].pc = "done"

\* A search that starts after a mutating call was answered with success returns
\* nothing read before that call's content commit, whatever other searches
\* inserted meanwhile under keys loaded earlier.
ContentFresh ==
  \A s \in Searchers : Answered(s) =>
    \A p \in PartsOf(srch[s].rpc) : srch[s].got[p] >= srch[s].need["content"]

\* The same for the vectors a call wrote before it was answered: semantic hits
\* on new text are not hidden by a result cached while it was being embedded.
VectorFresh ==
  \A s \in Searchers : Answered(s) /\ "knn" \in PartsOf(srch[s].rpc) =>
    srch[s].got["knn"] >= srch[s].need["vec"]

\* The same for the updated_at stamp in the entry snapshot of a fulltext hit.
StampFresh ==
  \A s \in Searchers : Answered(s) /\ "fts" \in PartsOf(srch[s].rpc) =>
    srch[s].got["fts"] >= srch[s].need["stamp"]

\* A committed change is owed to later searches even when the call that made it
\* was answered with an error.
SettledFresh ==
  \A s \in Searchers : Answered(s) =>
    \A p \in PartsOf(srch[s].rpc) : srch[s].got[p] >= srch[s].due["content"]

\* Every search that started is answered (or reports its error).
SearchEnds == \A s \in Searchers : srch[s].pc = "load" ~> srch[s].pc \in {"done", "idle"}

\* Every mutating call is answered: no handler waits for sync_lock forever.
CallEnds == \A w \in Writers : wr[w].pc = "queued" ~> wr[w].pc = "idle"

\* What a search owes beyond content: vectors, stamps, and what a failed call left.
EffectsFresh == VectorFresh /\ StampFresh /\ SettledFresh

-----------------------------------------------------------------------------
(* Why they hold.  A client may have heard of a commit from an answer        *)
(* ("acked") or from the end of the call ("settled").  Handlers are well     *)
(* ordered when a bump stands between every commit of the facet and the      *)
(* moment a client hears of it; the generation a result is filed under then  *)
(* bounds its age from below by floor[generation].                           *)

News == {"acked", "settled"}
Heard(n) == IF n = "acked" THEN acked ELSE settled
Owed(s, n) == IF n = "acked" THEN srch[s].need ELSE srch[s].due

\* The steps that commit a facet.
StepsOf(facet) == CASE facet = "content" -> ContentSteps
                    [] facet = "stamp"   -> {"rerender"}
                    [] facet = "vec"     -> VectorSteps

\* Steps whose failure ends the call.
FatalSteps == MayFail \ {"embedAll", "reindexAll", "purge"}

\* A handler that stands before step i has committed the facet in step j, which
\* it may still be in if that is a loop, and has not bumped since.
OwesBump(op, i, j, facet) ==
  /\ Handler(op)[j] \in StepsOf(facet)
  /\ j < i \/ (j = i /\ Handler(op)[j] \in LoopSteps)
  /\ \A b \in 1 .. Len(Handler(op)) : (j < b /\ b < i) => Handler(op)[b] \notin BumpSteps

\* No answer, and for "settled" no failure, comes between a commit and its bump.
BumpsLast(op, n, facet) ==
  \A j \in 1 .. Len(Handler(op)) :
    /\ ~OwesBump(op, Len(Handler(op)) + 1, j, facet)
    /\ n = "settled" =>
         \A i \in 1 .. Len(Handler(op)) :
           Handler(op)[i] \in FatalSteps => ~OwesBump(op, i, j, facet)

\* What the instance must satisfy: all its handlers are well ordered, and no
\* purge leaves a row deleted but its entry reported as failed.
WellOrdered(n, facet) == /\ \A op \in Methods : BumpsLast(op, n, facet)
                         /\ facet = "content" => "purge" \notin MayFail

FloorOK ==
  /\ \A g \in 0 .. generation : floor[g] <= db
  /\ \A g, h \in 0 .. generation : g <= h => floor[g] <= floor[h]

MapOK == \A k \in DOMAIN map :
  /\ k.generation <= generation
  /\ \A p \in PartsOf(k.rpc) : map[k][p] >= floor[k.generation]

WriterBounded(w, facet) ==
  /\ wr[w].pos[facet] <= db
  /\ (~wr[w].changed \/ wr[w].pc # "run") => wr[w].pos[facet] = 0
  /\ wr[w].pos[facet] > floor[generation] =>
       \E j \in 1 .. Len(Handler(wr[w].op)) : OwesBump(wr[w].op, wr[w].at, j, facet)

SearchBounded(s, n, facet) ==
  /\ Owed(s, n)[facet] <= floor[generation]
  /\ srch[s].pc \in {"get", "compute", "done"} =>
       /\ srch[s].key <= generation
       /\ Owed(s, n)[facet] <= floor[srch[s].key]
  /\ srch[s].pc \in {"compute", "done"} =>
       \A p \in PartsOf(srch[s].rpc) \ srch[s].todo : srch[s].got[p] >= floor[srch[s].key]
  /\ srch[s].pc # "compute" => srch[s].todo = {}

\* The inductive invariant: a cached or half-computed result is never older
\* than the bump that made its key's generation current, and a handler that is
\* ahead of the current generation still owes a bump.
Bounded(n, facet) ==
  /\ FloorOK /\ MapOK
  /\ \A w \in Writers : WriterBounded(w, facet)
  /\ \A s \in Searchers : SearchBounded(s, n, facet)
  /\ Heard(n)[facet] <= floor[generation]

\* Nothing in the cache or on its way into it is older than the content that
\* clients have had answers about when its generation began.
CacheInv == Bounded("acked", "content")

\* A result was read from a prefix of the history: no part is from the future.
PastOK ==
  /\ \A k \in DOMAIN map : \A p \in Parts : map[k][p] <= db
  /\ \A s \in Searchers : \A p \in Parts : srch[s].got[p] <= db

-----------------------------------------------------------------------------
(* What the cached search implements: the uncached promise of FreshReads.     *)

\* A search is answered with the oldest of the parts it was computed from.
Oldest(s) == Min({srch[s].got[p] : p \in PartsOf(srch[s].rpc)})

Request(s) ==
  CASE srch[s].pc = "idle" -> [pc |-> "idle", need |-> 0, got |-> 0]
    [] srch[s].pc = "done" -> [pc |-> "done", need |-> srch[s].need["content"],
                               got |-> Oldest(s)]
    [] OTHER -> [pc |-> "open", need |-> srch[s].need["content"], got |-> 0]

Reads == INSTANCE FreshReads WITH
  committed <- db,
  acked <- acked["content"],
  req <- [s \in Searchers |-> Request(s)]

\* The cached search implements the uncached promise: every answer is a prefix
\* of the history no shorter than what was acknowledged when it was asked.
Refines == Reads!Spec
=============================================================================
