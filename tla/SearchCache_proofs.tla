------------------------- MODULE SearchCache_proofs -------------------------
(***************************************************************************)
(* Proofs about SearchCache, for every set of clients, every bound and     *)
(* every set of handlers that bump the generation after their last content *)
(* commit (which is every handler but batch).                              *)
(***************************************************************************)
EXTENDS SearchCache, TLAPS

-----------------------------------------------------------------------------
(* Handlers. *)

\* Every handler is a finite sequence of the steps the actions execute.
LEMMA HandlerSteps ==
  ASSUME NEW op \in AllMethods
  PROVE  Handler(op) \in Seq(Steps)
<1> USE DEF Handler, Steps, ContentSteps, LoopSteps, BumpSteps, VectorSteps, QuietSteps
<1>1. CASE op = "entry.create"            BY <1>1 DEF EntryCreate
<1>2. CASE op = "entry.update"            BY <1>2 DEF EntryUpdate
<1>3. CASE op = "entry.delete"            BY <1>3 DEF EntryDelete
<1>4. CASE op = "entries.purge_transient" BY <1>4 DEF PurgeTransient
<1>5. CASE op = "block.append"            BY <1>5 DEF BlockAppend
<1>6. CASE op = "block.update"            BY <1>6 DEF BlockUpdate
<1>7. CASE op = "block.delete"            BY <1>7 DEF BlockDelete
<1>8. CASE op = "batch"                   BY <1>8 DEF Batch
<1>9. CASE op = "index.sync"              BY <1>9 DEF IndexSync
<1>10. CASE op = "index.rebuild"          BY <1>10 DEF IndexRebuild
<1> QED BY <1>1, <1>2, <1>3, <1>4, <1>5, <1>6, <1>7, <1>8, <1>9, <1>10 DEF AllMethods

\* Every handler but batch bumps the generation after its last content commit.
THEOREM HandlersBumpLast ==
  \A op \in AllMethods \ {"batch"} : BumpsLast(op, "acked", "content")
<1> SUFFICES ASSUME NEW op \in AllMethods \ {"batch"}
             PROVE  BumpsLast(op, "acked", "content")
  OBVIOUS
<1> USE DEF Handler, BumpsLast, OwesBump, StepsOf, ContentSteps, LoopSteps, BumpSteps
<1>1. CASE op = "entry.create"            BY <1>1 DEF EntryCreate
<1>2. CASE op = "entry.update"            BY <1>2 DEF EntryUpdate
<1>3. CASE op = "entry.delete"            BY <1>3 DEF EntryDelete
<1>4. CASE op = "entries.purge_transient" BY <1>4 DEF PurgeTransient
<1>5. CASE op = "block.append"            BY <1>5 DEF BlockAppend
<1>6. CASE op = "block.update"            BY <1>6 DEF BlockUpdate
<1>7. CASE op = "block.delete"            BY <1>7 DEF BlockDelete
<1>8. CASE op = "index.sync"              BY <1>8 DEF IndexSync
<1>9. CASE op = "index.rebuild"           BY <1>9 DEF IndexRebuild
<1> QED BY <1>1, <1>2, <1>3, <1>4, <1>5, <1>6, <1>7, <1>8, <1>9 DEF AllMethods

\* These handlers bump after the vectors they write, or write none.
LEMMA HandlersEmbedFirst ==
  \A op \in AllMethods \ {"batch", "block.update", "index.sync", "index.rebuild"} : BumpsLast(op, "acked", "vec")
<1> SUFFICES ASSUME NEW op \in AllMethods \ {"batch", "block.update", "index.sync", "index.rebuild"}
             PROVE  BumpsLast(op, "acked", "vec")
  OBVIOUS
<1> USE DEF Handler, BumpsLast, OwesBump, StepsOf, BumpSteps, VectorSteps
<1>1. CASE op = "entry.create"            BY <1>1 DEF EntryCreate
<1>2. CASE op = "entry.update"            BY <1>2 DEF EntryUpdate
<1>3. CASE op = "entry.delete"            BY <1>3 DEF EntryDelete
<1>4. CASE op = "entries.purge_transient" BY <1>4 DEF PurgeTransient
<1>5. CASE op = "block.append"            BY <1>5 DEF BlockAppend
<1>6. CASE op = "block.delete"            BY <1>6 DEF BlockDelete
<1> QED BY <1>1, <1>2, <1>3, <1>4, <1>5, <1>6 DEF AllMethods

\* These handlers bump after the stamp their rerender writes, or rerender nothing.
LEMMA HandlersRerenderFirst ==
  \A op \in AllMethods \ {"block.update", "block.delete"} : BumpsLast(op, "acked", "stamp")
<1> SUFFICES ASSUME NEW op \in AllMethods \ {"block.update", "block.delete"}
             PROVE  BumpsLast(op, "acked", "stamp")
  OBVIOUS
<1> USE DEF Handler, BumpsLast, OwesBump, StepsOf, BumpSteps, LoopSteps
<1>1. CASE op = "entry.create"            BY <1>1 DEF EntryCreate
<1>2. CASE op = "entry.update"            BY <1>2 DEF EntryUpdate
<1>3. CASE op = "entry.delete"            BY <1>3 DEF EntryDelete
<1>4. CASE op = "entries.purge_transient" BY <1>4 DEF PurgeTransient
<1>5. CASE op = "block.append"            BY <1>5 DEF BlockAppend
<1>6. CASE op = "index.sync"              BY <1>6 DEF IndexSync
<1>7. CASE op = "index.rebuild"           BY <1>7 DEF IndexRebuild
<1>8. CASE op = "batch"                   BY <1>8 DEF Batch
<1> QED BY <1>1, <1>2, <1>3, <1>4, <1>5, <1>6, <1>7, <1>8 DEF AllMethods

\* These handlers bump right after their content, whatever fails later.
LEMMA HandlersBumpBeforeFailing ==
  \A op \in {"entry.update", "entries.purge_transient", "block.update",
               "block.delete", "index.rebuild"} : BumpsLast(op, "settled", "content")
<1> SUFFICES ASSUME NEW op \in {"entry.update", "entries.purge_transient",
                                "block.update", "block.delete", "index.rebuild"}
             PROVE  BumpsLast(op, "settled", "content")
  OBVIOUS
<1>0. FatalSteps \cap (BumpSteps \union {"purge", "reindexAll", "embedAll"}) = {}
  BY ConstantsAssumption DEF FatalSteps
<1> USE DEF Handler, BumpsLast, OwesBump, StepsOf, ContentSteps, LoopSteps, BumpSteps
<1>1. CASE op = "entry.update"            BY <1>0, <1>1 DEF EntryUpdate
<1>2. CASE op = "entries.purge_transient" BY <1>0, <1>2 DEF PurgeTransient
<1>3. CASE op = "block.update"            BY <1>0, <1>3 DEF BlockUpdate
<1>4. CASE op = "block.delete"            BY <1>0, <1>4 DEF BlockDelete
<1>5. CASE op = "index.rebuild"           BY <1>0, <1>5 DEF IndexRebuild
<1> QED BY <1>1, <1>2, <1>3, <1>4, <1>5

-----------------------------------------------------------------------------
(* Type correctness. *)

\* The later of two stamps is a stamp, facet by facet.
LEMMA JoinType ==
  ASSUME NEW p \in Stamps, NEW q \in Stamps
  PROVE  Join(p, q) \in Stamps
BY DEF Join, MaxOf, Stamps

\* Zero is a stamp.
LEMMA ZeroType == Zero \in Stamps
BY DEF Zero, Stamps

\* The idle records are records of their kinds.
LEMMA IdleTypes == IdleWriter \in WriterRecord /\ IdleSearch \in SearchRecord
BY ZeroType DEF IdleWriter, IdleSearch, WriterRecord, SearchRecord, Result, Parts

\* The daemon starts in a well-typed state.
LEMMA InitType == Init => TypeOK
BY ConstantsAssumption, ZeroType, IdleTypes
   DEF Init, TypeOK, StoreType, WritersType, SearchersType, LockType,
       IdleWriter, IdleSearch, Key, Result

\* A writer that does a step is running a handler of the instance.
LEMMA RunningDoes ==
  ASSUME WritersType, NEW w \in Writers, NEW kinds, Doing(w, kinds)
  PROVE  /\ wr[w].pc = "run"
         /\ wr[w].op \in Methods
         /\ wr[w].op \in AllMethods
         /\ wr[w].at \in 1 .. Len(Handler(wr[w].op))
         /\ Handler(wr[w].op)[wr[w].at] \in kinds
<1>1. wr[w].pc = "run" /\ wr[w].op \in Methods /\ wr[w].op \in AllMethods
  BY ConstantsAssumption DEF Doing, Running, WritersType
<1>2. Len(Handler(wr[w].op)) \in Nat
  BY <1>1, HandlerSteps
<1>3. wr[w].at \in Nat \ {0}
  BY DEF WritersType, WriterRecord
<1> QED BY <1>1, <1>2, <1>3 DEF Doing, Running

\* Replacing a running writer's record by one that keeps its pc and op.
LEMMA KeepRunning ==
  ASSUME TypeOK, NEW w \in Writers, NEW r \in WriterRecord,
         r.pc = wr[w].pc, r.op = wr[w].op,
         wr' = [wr EXCEPT ![w] = r],
         UNCHANGED <<syncLock, srch>>
  PROVE  WritersType' /\ SearchersType' /\ LockType'
BY DEF TypeOK, WritersType, SearchersType, LockType

\* Recording a commit in a stamp gives a stamp.
LEMMA ReachedType ==
  ASSUME NEW pos \in Stamps, NEW facet \in Facets, db \in Nat
  PROVE  Reached(pos, facet) \in Stamps
BY DEF Reached, Stamps

\* A transaction of a running handler keeps the types.
LEMMA CommitType ==
  ASSUME TypeOK, NEW w \in Writers, NEW facet \in Facets, NEW n \in Nat \ {0},
         NEW r \in Nat, CommitFacet(w, facet, n, r)
  PROVE  TypeOK'
<1> DEFINE new == [wr[w] EXCEPT !.pos = Reached(wr[w].pos, facet), !.changed = TRUE,
                                !.at = n, !.rounds = r]
<1>1. wr[w] \in WriterRecord /\ db \in Nat
  BY DEF TypeOK, WritersType, StoreType
<1>2. new \in WriterRecord /\ new.pc = wr[w].pc /\ new.op = wr[w].op
  <2>1. Reached(wr[w].pos, facet) \in Stamps
    BY <1>1, ReachedType DEF WriterRecord
  <2> QED BY <1>1, <2>1 DEF WriterRecord
<1>3. wr' = [wr EXCEPT ![w] = new] /\ UNCHANGED <<syncLock, srch>>
  BY DEF CommitFacet, TypeOK, WritersType
<1>4. WritersType' /\ SearchersType' /\ LockType'
  BY <1>2, <1>3, KeepRunning
<1>5. StoreType'
  BY DEF TypeOK, StoreType, CommitFacet
<1> QED BY <1>4, <1>5 DEF TypeOK

\* A handler step that commits nothing keeps the types.
LEMMA SkipType ==
  ASSUME TypeOK, NEW w \in Writers, Skip(w)
  PROVE  TypeOK'
<1> DEFINE new == [wr[w] EXCEPT !.at = @ + 1]
<1>1. wr[w] \in WriterRecord
  BY DEF TypeOK, WritersType
<1>2. new \in WriterRecord /\ new.pc = wr[w].pc /\ new.op = wr[w].op
  BY <1>1 DEF WriterRecord
<1>3. wr' = [wr EXCEPT ![w] = new] /\ UNCHANGED <<syncLock, srch>>
  BY DEF Skip, TypeOK, WritersType
<1>4. WritersType' /\ SearchersType' /\ LockType'
  BY <1>2, <1>3, KeepRunning
<1>5. StoreType'
  BY DEF TypeOK, StoreType, Skip
<1> QED BY <1>4, <1>5 DEF TypeOK

\* The arrival of a mutating call keeps the types.
LEMMA CallType ==
  ASSUME TypeOK, NEW w \in Writers, NEW op \in Methods, Call(w, op)
  PROVE  TypeOK'
<1> DEFINE new == [IdleWriter EXCEPT
                     !.op = op, !.pc = IF op \in Serialized THEN "queued" ELSE "run"]
<1>1. new \in WriterRecord /\ new.op = op
  BY IdleTypes, ConstantsAssumption DEF IdleWriter, WriterRecord
<1>2. new.pc = IF op \in Serialized THEN "queued" ELSE "run"
  BY DEF IdleWriter
<1>3. wr' = [wr EXCEPT ![w] = new] /\ wr[w].pc = "idle"
  BY DEF Call
<1>4. WritersType' /\ LockType'
  BY <1>1, <1>2, <1>3 DEF TypeOK, WritersType, LockType, Call
<1>5. StoreType' /\ SearchersType'
  BY DEF TypeOK, StoreType, SearchersType, Call
<1> QED BY <1>4, <1>5 DEF TypeOK

\* Taking sync_lock keeps the types and its ownership.
LEMMA AcquireType ==
  ASSUME TypeOK, NEW w \in Writers, Acquire(w)
  PROVE  TypeOK'
<1>1. WritersType'
  BY DEF TypeOK, WritersType, WriterRecord, Acquire
<1>2. LockType'
  BY ConstantsAssumption DEF TypeOK, WritersType, WriterRecord, LockType, Acquire
<1>3. StoreType' /\ SearchersType'
  BY DEF TypeOK, StoreType, SearchersType, Acquire
<1> QED BY <1>1, <1>2, <1>3 DEF TypeOK

\* A purge of one entry that leaves its directory keeps the types.
LEMMA PurgeUncountedType ==
  ASSUME TypeOK, NEW w \in Writers, PurgeUncounted(w)
  PROVE  TypeOK'
<1> DEFINE p == Reached(wr[w].pos, "content")
           n == wr[w].rounds + 1
           new == [wr[w] EXCEPT !.pos = p, !.rounds = n]
<1>1. wr[w] \in WriterRecord
  BY DEF TypeOK, WritersType
<1>2. p \in Stamps /\ n \in Nat
  BY <1>1, ReachedType DEF TypeOK, StoreType, WriterRecord, Facets
<1>3. wr' = [wr EXCEPT ![w] = new] /\ UNCHANGED <<syncLock, srch>>
  BY DEF PurgeUncounted, TypeOK, WritersType
<1>4. new \in WriterRecord /\ new.pc = wr[w].pc /\ new.op = wr[w].op
  <2> HIDE DEF p, n
  <2> QED BY <1>1, <1>2 DEF WriterRecord
<1>5. WritersType' /\ SearchersType' /\ LockType'
  BY <1>3, <1>4, KeepRunning
<1>6. StoreType'
  BY DEF TypeOK, StoreType, PurgeUncounted
<1> QED BY <1>5, <1>6 DEF TypeOK

\* bump_generation keeps the types; floor grows with the generation.
LEMMA BumpType ==
  ASSUME TypeOK, NEW w \in Writers, Bump(w)
  PROVE  TypeOK'
<1> DEFINE new == [wr[w] EXCEPT !.at = @ + 1]
<1>1. wr[w] \in WriterRecord
  BY DEF TypeOK, WritersType
<1>2. new \in WriterRecord /\ new.pc = wr[w].pc /\ new.op = wr[w].op
  BY <1>1 DEF WriterRecord
<1>3. wr' = [wr EXCEPT ![w] = new] /\ UNCHANGED <<syncLock, srch>>
  BY DEF Bump, TypeOK, WritersType
<1>4. WritersType' /\ SearchersType' /\ LockType'
  BY <1>2, <1>3, KeepRunning
<1>5. StoreType'
  BY DEF TypeOK, StoreType, Bump
<1> QED BY <1>4, <1>5 DEF TypeOK

\* A call that ends, with an answer or with an error, frees the lock it holds.
LEMMA EndType ==
  ASSUME TypeOK, NEW w \in Writers, wr[w].pc = "run",
         wr' = [wr EXCEPT ![w] = IdleWriter],
         syncLock' = Release(w), srch' = srch
  PROVE  WritersType' /\ SearchersType' /\ LockType'
<1>1. IdleWriter \in WriterRecord /\ IdleWriter.pc = "idle"
  BY IdleTypes DEF IdleWriter
<1>2. WritersType' /\ SearchersType'
  BY <1>1 DEF TypeOK, WritersType, SearchersType
<1>3. LockType'
  BY <1>1, ConstantsAssumption DEF TypeOK, WritersType, LockType, Release
<1> QED BY <1>2, <1>3

\* A handler that ends with an error keeps the types.
LEMMA StepFailsType ==
  ASSUME TypeOK, NEW w \in Writers, StepFails(w)
  PROVE  TypeOK'
<1>1. wr[w].pc = "run" /\ wr[w].pos \in Stamps
  BY RunningDoes DEF StepFails, TypeOK, WritersType, WriterRecord
<1>2. WritersType' /\ SearchersType' /\ LockType'
  BY <1>1, EndType DEF StepFails
<1>3. Join(settled, wr[w].pos) \in Stamps
  BY <1>1, JoinType DEF TypeOK, StoreType
<1>4. StoreType'
  BY <1>3 DEF TypeOK, StoreType, StepFails
<1> QED BY <1>2, <1>4 DEF TypeOK

\* A handler that is answered keeps the types.
LEMMA AnswerType ==
  ASSUME TypeOK, NEW w \in Writers, Answer(w)
  PROVE  TypeOK'
<1>1. wr[w].pc = "run" /\ wr[w].pos \in Stamps
  BY DEF Answer, TypeOK, WritersType, WriterRecord
<1>2. WritersType' /\ SearchersType' /\ LockType'
  BY <1>1, EndType DEF Answer
<1>3. Join(settled, wr[w].pos) \in Stamps /\ Join(acked, wr[w].pos) \in Stamps
  BY <1>1, JoinType DEF TypeOK, StoreType
<1>4. StoreType'
  BY <1>3 DEF TypeOK, StoreType, Answer
<1> QED BY <1>2, <1>4 DEF TypeOK

\* Every step of a mutating handler keeps the types.
LEMMA WriterStepType ==
  ASSUME TypeOK, NEW w \in Writers, WriterStep(w)
  PROVE  TypeOK'
<1>1. wr[w].at + 1 \in Nat \ {0} /\ wr[w].at \in Nat \ {0} /\ wr[w].rounds + 1 \in Nat
  BY DEF TypeOK, WritersType, WriterRecord
<1>2. CASE Commit(w)          BY <1>1, <1>2, CommitType DEF Commit, Facets
<1>3. CASE PassEntry(w)
  BY <1>1, <1>3, CommitType, PurgeUncountedType DEF PassEntry, Facets
<1>4. CASE Rerender(w)        BY <1>1, <1>4, CommitType DEF Rerender, Facets
<1>5. CASE Embed(w)           BY <1>1, <1>5, CommitType DEF Embed, Facets
<1>6. CASE PassDone(w)        BY <1>6, SkipType DEF PassDone
<1>7. CASE NothingToEmbed(w)  BY <1>7, SkipType DEF NothingToEmbed
<1>8. CASE Quiet(w)           BY <1>8, SkipType DEF Quiet
<1>9. CASE BumpSkipped(w)     BY <1>9, SkipType DEF BumpSkipped
<1> QED BY <1>2, <1>3, <1>4, <1>5, <1>6, <1>7, <1>8, <1>9, AcquireType,
           BumpType, StepFailsType, AnswerType
        DEF WriterStep

-----------------------------------------------------------------------------
\* A search RPC reads some of the two parts.
LEMMA PartsOfType ==
  ASSUME NEW rpc \in SearchRpc  PROVE PartsOf(rpc) \subseteq Parts
BY DEF SearchRpc, PartsOf, Parts

\* Replacing one search's record, keeping the rest.
LEMMA ReplaceSearch ==
  ASSUME TypeOK, NEW s \in Searchers, NEW r \in SearchRecord,
         r.pc # "idle" => r.rpc \in SearchRpc,
         srch' = [srch EXCEPT ![s] = r],
         UNCHANGED <<wr, syncLock>>
  PROVE  WritersType' /\ SearchersType' /\ LockType'
BY DEF TypeOK, WritersType, SearchersType, LockType

\* A step of one search that changes no shared variable.
LEMMA SearchOnly ==
  ASSUME TypeOK, NEW s \in Searchers, NEW r \in SearchRecord,
         r.pc # "idle" => r.rpc \in SearchRpc,
         srch' = [srch EXCEPT ![s] = r],
         UnchangedBySearch, map' = map, asks' \in Nat
  PROVE  TypeOK'
<1>1. WritersType' /\ SearchersType' /\ LockType'
  BY ReplaceSearch DEF UnchangedBySearch
<1>2. StoreType'
  BY DEF TypeOK, StoreType, UnchangedBySearch
<1> QED BY <1>1, <1>2 DEF TypeOK

\* The arrival of a search keeps the types.
LEMMA AskType ==
  ASSUME TypeOK, NEW s \in Searchers, NEW rpc \in Rpcs, Ask(s, rpc)
  PROVE  TypeOK'
<1> DEFINE new == [IdleSearch EXCEPT !.pc = "load", !.rpc = rpc,
                                     !.need = acked, !.due = settled]
<1>1. new \in SearchRecord /\ new.rpc \in SearchRpc
  BY IdleTypes, ConstantsAssumption DEF TypeOK, StoreType, IdleSearch, SearchRecord
<1>2. asks' \in Nat
  BY DEF Ask, TypeOK, StoreType
<1> QED BY <1>1, <1>2, SearchOnly DEF Ask

\* Every step of a search keeps the types.
LEMMA SearcherStepType ==
  ASSUME TypeOK, NEW s \in Searchers, SearcherStep(s)
  PROVE  TypeOK'
<1>1. /\ srch[s] \in SearchRecord
      /\ srch[s].pc # "idle" => srch[s].rpc \in SearchRpc
      /\ asks \in Nat /\ db \in Nat /\ generation \in Nat
  BY DEF TypeOK, SearchersType, StoreType
<1>2. IdleSearch \in SearchRecord /\ IdleSearch.pc = "idle"
  BY IdleTypes DEF IdleSearch
<1>3. CASE LoadGeneration(s)
  <2>1. [srch[s] EXCEPT !.pc = "get", !.key = generation] \in SearchRecord
    BY <1>1 DEF SearchRecord
  <2> QED BY <1>1, <1>3, <2>1, SearchOnly DEF LoadGeneration, SearchRecord
<1>4. CASE Hit(s)
  <2>1. map[KeyOf(s)] \in Result
    BY <1>4 DEF Hit, TypeOK, StoreType
  <2>2. [srch[s] EXCEPT !.pc = "done", !.got = map[KeyOf(s)]] \in SearchRecord
    BY <1>1, <2>1 DEF SearchRecord
  <2> QED BY <1>1, <1>4, <2>2, SearchOnly DEF Hit, SearchRecord
<1>5. CASE Miss(s)
  <2>1. PartsOf(srch[s].rpc) \in SUBSET Parts
    BY <1>1, <1>5, PartsOfType DEF Miss
  <2>2. [srch[s] EXCEPT !.pc = "compute", !.todo = PartsOf(srch[s].rpc)] \in SearchRecord
    BY <1>1, <2>1 DEF SearchRecord
  <2> QED BY <1>1, <1>5, <2>2, SearchOnly DEF Miss, SearchRecord
<1>6. CASE ComputeFails(s)
  BY <1>1, <1>2, <1>6, SearchOnly DEF ComputeFails
<1>7. ASSUME NEW part \in Parts, ReadPart(s, part) PROVE TypeOK'
  <2>1. [srch[s].got EXCEPT ![part] = db] \in Result
    BY <1>1 DEF SearchRecord, Result
  <2>2. srch[s].todo \ {part} \in SUBSET Parts
    BY <1>1 DEF SearchRecord
  <2>3. [srch[s] EXCEPT !.got[part] = db, !.todo = srch[s].todo \ {part}] \in SearchRecord
    BY <1>1, <2>1, <2>2 DEF SearchRecord
  <2> QED BY <1>1, <1>7, <2>3, SearchOnly DEF ReadPart, SearchRecord
<1>8. CASE Insert(s)
  <2>1. KeyOf(s) \in Key /\ srch[s].got \in Result
    BY <1>1, <1>8 DEF Insert, KeyOf, Key, SearchRecord
  <2>2. StoreType'
    BY <1>8, <2>1 DEF Insert, TypeOK, StoreType, UnchangedBySearch
  <2>3. [srch[s] EXCEPT !.pc = "done"] \in SearchRecord
    BY <1>1 DEF SearchRecord
  <2>4. srch' = [srch EXCEPT ![s] = [srch[s] EXCEPT !.pc = "done"]]
    BY <1>8 DEF Insert, TypeOK, SearchersType
  <2>5. WritersType' /\ SearchersType' /\ LockType'
    BY <1>1, <1>8, <2>3, <2>4, ReplaceSearch DEF Insert, UnchangedBySearch, SearchRecord
  <2> QED BY <2>2, <2>5 DEF TypeOK
<1>9. CASE Finish(s)
  BY <1>1, <1>2, <1>9, SearchOnly DEF Finish
<1> QED BY <1>3, <1>4, <1>5, <1>6, <1>7, <1>8, <1>9 DEF SearcherStep

\* cache.clear keeps the types.
LEMMA ClearType ==
  ASSUME TypeOK, CacheClear  PROVE TypeOK'
BY DEF TypeOK, StoreType, WritersType, SearchersType, LockType, CacheClear

\* A step that changes nothing keeps the types.
LEMMA StutterType ==
  ASSUME TypeOK, UNCHANGED vars  PROVE TypeOK'
BY DEF TypeOK, StoreType, WritersType, SearchersType, LockType, vars

\* Every reachable state is well typed, and sync_lock is held exactly by the
\* serialized handler that runs.
THEOREM TypeCorrect == Spec => []TypeOK
<1>1. TypeOK /\ [Next]_vars => TypeOK'
  BY CallType, WriterStepType, AskType, SearcherStepType, ClearType, StutterType DEF Next
<1> QED BY InitType, <1>1, PTL DEF Spec

-----------------------------------------------------------------------------
(* Freshness.  Bounded(n, f) is inductive for handlers well ordered in f.  *)

\* What FloorOK says of the current generation's floor.
LEMMA FloorFacts ==
  ASSUME TypeOK, FloorOK
  PROVE  /\ generation \in Nat /\ db \in Nat
         /\ floor[generation] \in Nat /\ floor[generation] <= db
         /\ \A g \in 0 .. generation :
              floor[g] \in Nat /\ floor[g] <= db /\ floor[g] <= floor[generation]
BY DEF TypeOK, StoreType, FloorOK

\* What the types say of one writer.
LEMMA WriterFacts ==
  ASSUME TypeOK, NEW w \in Writers, NEW f \in Facets
  PROVE  /\ wr[w] \in WriterRecord
         /\ wr[w].pos \in Stamps
         /\ wr[w].pos[f] \in Nat
         /\ wr[w].changed \in BOOLEAN
BY DEF TypeOK, WritersType, WriterRecord, Stamps

\* What the types say of one search.
LEMMA SearchFacts ==
  ASSUME TypeOK, NEW s \in Searchers, NEW n \in News, NEW f \in Facets
  PROVE  /\ srch[s] \in SearchRecord
         /\ Owed(s, n)[f] \in Nat
         /\ srch[s].key \in Nat
         /\ \A p \in Parts : srch[s].got[p] \in Nat
         /\ srch[s].pc # "idle" => PartsOf(srch[s].rpc) \subseteq Parts
BY PartsOfType DEF TypeOK, SearchersType, SearchRecord, Stamps, Result, Owed, News

\* What clients have heard of is a stamp.
LEMMA HeardFacts ==
  ASSUME TypeOK, NEW n \in News, NEW f \in Facets
  PROVE  Heard(n) \in Stamps /\ Heard(n)[f] \in Nat
BY DEF TypeOK, StoreType, Stamps, Heard, News

\* The empty cache satisfies the invariant.
LEMMA InitBounded ==
  ASSUME Init, NEW n \in News, NEW f \in Facets  PROVE Bounded(n, f)
<1>1. FloorOK /\ MapOK
  BY DEF Init, FloorOK, MapOK
<1>2. floor[generation] = 0 /\ db = 0 /\ Heard(n)[f] = 0
  BY DEF Init, Heard, News, Zero
<1>3. \A w \in Writers : WriterBounded(w, f)
  BY <1>2 DEF Init, WriterBounded, IdleWriter, Zero
<1>4. \A s \in Searchers : SearchBounded(s, n, f)
  BY <1>2 DEF Init, SearchBounded, IdleSearch, Zero, Owed, News
<1> QED BY <1>1, <1>2, <1>3, <1>4 DEF Bounded

\* A running handler stands in one of its steps; passing a step that is no bump
\* leaves a bump owed.
LEMMA StillOwes ==
  ASSUME TypeOK, NEW w \in Writers, NEW f \in Facets, NEW kinds, Doing(w, kinds),
         kinds \cap BumpSteps = {},
         NEW i \in {wr[w].at, wr[w].at + 1},
         NEW j \in 1 .. Len(Handler(wr[w].op)), OwesBump(wr[w].op, wr[w].at, j, f)
  PROVE  OwesBump(wr[w].op, i, j, f)
<1>1. /\ wr[w].op \in AllMethods
      /\ wr[w].at \in 1 .. Len(Handler(wr[w].op))
      /\ Handler(wr[w].op)[wr[w].at] \notin BumpSteps
  BY RunningDoes DEF TypeOK
<1>2. Len(Handler(wr[w].op)) \in Nat
  BY <1>1, HandlerSteps
<1>3. \A b \in 1 .. Len(Handler(wr[w].op)) : b < i => b < wr[w].at \/ b = wr[w].at
  BY <1>1, <1>2
<1> QED BY <1>1, <1>2, <1>3 DEF OwesBump

\* A step that moves one handler and at most commits, when the handler's new
\* record keeps its own part of the invariant.
LEMMA WriterMoves ==
  ASSUME TypeOK, NEW n \in News, NEW f \in Facets, Bounded(n, f), NEW w \in Writers,
         \A v \in Writers \ {w} : wr'[v] = wr[v],
         db' \in Nat, db' >= db,
         UNCHANGED <<generation, floor, map, srch>>,
         Heard(n)'[f] <= floor[generation],
         WriterBounded(w, f)'
  PROVE  Bounded(n, f)'
<1>1. FloorOK'
  BY FloorFacts DEF Bounded, FloorOK
<1>2. MapOK'
  BY DEF Bounded, MapOK
<1>3. \A s \in Searchers : SearchBounded(s, n, f)'
  BY DEF Bounded, SearchBounded, Owed
<1>4. \A v \in Writers : WriterBounded(v, f)'
  <2> SUFFICES ASSUME NEW v \in Writers  PROVE WriterBounded(v, f)'
    OBVIOUS
  <2>1. CASE v = w
    BY <2>1
  <2>2. CASE v # w
    <3>1. wr'[v] = wr[v] /\ wr[v].pos[f] \in Nat /\ db \in Nat /\ WriterBounded(v, f)
      BY <2>2, WriterFacts, FloorFacts DEF Bounded
    <3> QED BY <3>1 DEF WriterBounded
  <2> QED BY <2>1, <2>2
<1> QED BY <1>1, <1>2, <1>3, <1>4 DEF Bounded

\* A handler that has committed nothing yet keeps its part.
LEMMA NothingCommitted ==
  ASSUME TypeOK, NEW n \in News, NEW f \in Facets, Bounded(n, f), NEW w \in Writers,
         \A v \in Writers \ {w} : wr'[v] = wr[v],
         UNCHANGED <<db, generation, floor, map, srch>>,
         Heard(n)'[f] <= floor[generation],
         wr'[w].pos[f] = 0
  PROVE  Bounded(n, f)'
<1>1. floor[generation] \in Nat /\ db \in Nat
  BY FloorFacts DEF Bounded
<1>2. WriterBounded(w, f)'
  BY <1>1 DEF WriterBounded
<1> QED BY <1>1, <1>2, WriterMoves

\* What clients have heard of is bounded by the current floor.
LEMMA HeardBounded ==
  ASSUME NEW n \in News, NEW f \in Facets, Bounded(n, f), UNCHANGED <<acked, settled>>
  PROVE  Heard(n)'[f] <= floor[generation]
BY DEF Bounded, Heard

\* The arrival of a mutating call keeps the invariant.
LEMMA CallInv ==
  ASSUME TypeOK, NEW n \in News, NEW f \in Facets, Bounded(n, f),
         NEW w \in Writers, NEW op \in Methods, Call(w, op)
  PROVE  Bounded(n, f)'
<1> DEFINE r == [IdleWriter EXCEPT
                   !.op = op, !.pc = IF op \in Serialized THEN "queued" ELSE "run"]
<1>1. r.pos[f] = 0
  BY DEF IdleWriter, Zero
<1>2. wr'[w] = r /\ \A v \in Writers \ {w} : wr'[v] = wr[v]
  BY DEF Call, TypeOK, WritersType
<1>3. UNCHANGED <<db, generation, floor, map, srch, acked, settled>>
  BY DEF Call
<1> HIDE DEF r
<1> QED BY <1>1, <1>2, <1>3, HeardBounded, NothingCommitted

\* Taking sync_lock keeps the invariant.
LEMMA AcquireInv ==
  ASSUME TypeOK, NEW n \in News, NEW f \in Facets, Bounded(n, f),
         NEW w \in Writers, Acquire(w)
  PROVE  Bounded(n, f)'
<1> DEFINE r == [wr[w] EXCEPT !.pc = "run"]
<1>1. r.pos[f] = 0
  BY WriterFacts DEF Bounded, WriterBounded, Acquire, WriterRecord
<1>2. wr'[w] = r /\ \A v \in Writers \ {w} : wr'[v] = wr[v]
  BY DEF Acquire, TypeOK, WritersType
<1>3. UNCHANGED <<db, generation, floor, map, srch, acked, settled>>
  BY DEF Acquire
<1> HIDE DEF r
<1> QED BY <1>1, <1>2, <1>3, HeardBounded, NothingCommitted

\* The new record of a handler after a commit.
LEMMA CommitRecord ==
  ASSUME TypeOK, NEW w \in Writers, NEW kinds, Doing(w, kinds), NEW g \in Facets,
         NEW next \in Nat, NEW c \in Nat, CommitFacet(w, g, next, c)
  PROVE  /\ wr'[w].pc = "run" /\ wr'[w].op = wr[w].op /\ wr'[w].at = next
         /\ wr'[w].changed = TRUE
         /\ wr'[w].pos[g] = db + 1
         /\ \A f \in Facets \ {g} : wr'[w].pos[f] = wr[w].pos[f]
         /\ \A v \in Writers \ {w} : wr'[v] = wr[v]
         /\ db \in Nat /\ db' = db + 1
         /\ UNCHANGED <<generation, floor, map, srch, acked, settled>>
<1> DEFINE r == [wr[w] EXCEPT !.pos = Reached(wr[w].pos, g), !.changed = TRUE,
                              !.at = next, !.rounds = c]
<1>1. /\ wr[w] \in WriterRecord /\ wr[w].pc = "run" /\ wr[w].pos \in Stamps
      /\ db \in Nat
  BY WriterFacts, RunningDoes DEF TypeOK, StoreType
<1>2. /\ r.pc = "run" /\ r.op = wr[w].op /\ r.at = next /\ r.changed = TRUE
      /\ r.pos = Reached(wr[w].pos, g)
  BY <1>1 DEF WriterRecord
<1>3. r.pos[g] = db + 1 /\ \A f \in Facets \ {g} : r.pos[f] = wr[w].pos[f]
  BY <1>1, <1>2 DEF Stamps, Reached
<1>4. wr'[w] = r /\ \A v \in Writers \ {w} : wr'[v] = wr[v]
  BY DEF CommitFacet, TypeOK, WritersType
<1> HIDE DEF r
<1> QED BY <1>1, <1>2, <1>3, <1>4 DEF CommitFacet

\* A commit of facet g, in a step of that facet: the handler now owes a bump for
\* g, and still owes what it owed for another facet.
LEMMA CommitInv ==
  ASSUME TypeOK, NEW n \in News, NEW f \in Facets, Bounded(n, f),
         NEW w \in Writers, NEW g \in Facets, NEW kinds, Doing(w, kinds),
         kinds \subseteq StepsOf(g), NEW next \in Nat, NEW c \in Nat,
         next = wr[w].at + 1 \/ (next = wr[w].at /\ kinds \subseteq LoopSteps),
         CommitFacet(w, g, next, c)
  PROVE  Bounded(n, f)'
<1> DEFINE op == wr[w].op
           at == wr[w].at
<1>1. /\ op \in AllMethods /\ at \in 1 .. Len(Handler(op)) /\ Handler(op)[at] \in kinds
  BY RunningDoes DEF TypeOK
<1>2. Len(Handler(op)) \in Nat
  BY <1>1, HandlerSteps
<1>3. /\ wr'[w].pc = "run" /\ wr'[w].op = op /\ wr'[w].at = next /\ wr'[w].changed = TRUE
      /\ wr'[w].pos[g] = db + 1
      /\ \A h \in Facets \ {g} : wr'[w].pos[h] = wr[w].pos[h]
      /\ \A v \in Writers \ {w} : wr'[v] = wr[v]
      /\ db \in Nat /\ db' = db + 1
      /\ UNCHANGED <<generation, floor, map, srch, acked, settled>>
  BY CommitRecord
<1>4. WriterBounded(w, f)
  BY DEF Bounded
<1>5. CASE f = g
  <2>1. OwesBump(op, next, at, f)
    BY <1>1, <1>2, <1>5 DEF OwesBump
  <2> QED BY <1>1, <1>3, <1>5, <2>1, HeardBounded, WriterMoves DEF WriterBounded
<1>6. CASE f # g
  <2>1. kinds \cap BumpSteps = {}
    BY DEF StepsOf, Facets, BumpSteps, ContentSteps, LoopSteps, VectorSteps
  <2>2. \A j \in 1 .. Len(Handler(op)) : OwesBump(op, at, j, f) => OwesBump(op, next, j, f)
    BY <2>1, StillOwes
  <2>3. wr[w].pos[f] \in Nat /\ floor[generation] \in Nat
    BY WriterFacts, FloorFacts DEF Bounded
  <2>4. WriterBounded(w, f)'
    BY <1>3, <1>4, <1>6, <2>2, <2>3 DEF WriterBounded
  <2> QED BY <1>3, <2>4, HeardBounded, WriterMoves
<1> QED BY <1>5, <1>6

\* A row purged but not counted matters to content only.
LEMMA PurgeUncountedInv ==
  ASSUME TypeOK, NEW n \in News, NEW f \in Facets, WellOrdered(n, f), Bounded(n, f),
         NEW w \in Writers, PurgeUncounted(w)
  PROVE  Bounded(n, f)'
<1> DEFINE r == [wr[w] EXCEPT !.pos = Reached(wr[w].pos, "content"),
                              !.rounds = wr[w].rounds + 1]
<1>1. f # "content"
  BY DEF WellOrdered, PurgeUncounted
<1>2. /\ wr[w] \in WriterRecord /\ wr[w].pos \in Stamps /\ wr[w].pos[f] \in Nat
      /\ db \in Nat /\ WriterBounded(w, f)
  BY WriterFacts DEF TypeOK, StoreType, Bounded
<1>3. /\ r.pc = wr[w].pc /\ r.op = wr[w].op /\ r.at = wr[w].at
      /\ r.changed = wr[w].changed /\ r.pos = Reached(wr[w].pos, "content")
  BY <1>2 DEF WriterRecord
<1>4. r.pos[f] = wr[w].pos[f]
  BY <1>1, <1>2, <1>3 DEF Stamps, Reached
<1>5. wr'[w] = r /\ \A v \in Writers \ {w} : wr'[v] = wr[v]
  BY DEF PurgeUncounted, TypeOK, WritersType
<1>6. db' = db + 1 /\ UNCHANGED <<generation, floor, map, srch, acked, settled>>
  BY DEF PurgeUncounted
<1> HIDE DEF r
<1>7. WriterBounded(w, f)'
  BY <1>2, <1>3, <1>4, <1>5, <1>6 DEF WriterBounded
<1> QED BY <1>2, <1>5, <1>6, <1>7, HeardBounded, WriterMoves

\* A step without a commit that is no bump, or a bump skipped because the call
\* changed nothing.
LEMMA SkipInv ==
  ASSUME TypeOK, NEW n \in News, NEW f \in Facets, Bounded(n, f),
         NEW w \in Writers, NEW kinds, Doing(w, kinds), Skip(w),
         kinds \cap BumpSteps = {} \/ ~wr[w].changed
  PROVE  Bounded(n, f)'
<1> DEFINE r == [wr[w] EXCEPT !.at = wr[w].at + 1]
<1>1. /\ wr[w] \in WriterRecord /\ wr[w].pc = "run" /\ wr[w].pos[f] \in Nat
      /\ db \in Nat /\ floor[generation] \in Nat /\ WriterBounded(w, f)
  BY WriterFacts, RunningDoes, FloorFacts DEF TypeOK, Bounded
<1>2. /\ r.pc = "run" /\ r.op = wr[w].op /\ r.at = wr[w].at + 1
      /\ r.changed = wr[w].changed /\ r.pos = wr[w].pos
  BY <1>1 DEF WriterRecord
<1>3. wr'[w] = r /\ \A v \in Writers \ {w} : wr'[v] = wr[v]
  BY DEF Skip, TypeOK, WritersType
<1>4. UNCHANGED <<db, generation, floor, map, srch, acked, settled>>
  BY DEF Skip
<1> HIDE DEF r
<1>5. CASE ~wr[w].changed
  <2>1. wr'[w].pos[f] = 0
    BY <1>1, <1>2, <1>3, <1>5 DEF WriterBounded
  <2> QED BY <1>3, <1>4, <2>1, HeardBounded, NothingCommitted
<1>6. CASE kinds \cap BumpSteps = {}
  <2>1. \A j \in 1 .. Len(Handler(wr[w].op)) :
          OwesBump(wr[w].op, wr[w].at, j, f) => OwesBump(wr[w].op, wr[w].at + 1, j, f)
    BY <1>6, StillOwes
  <2>2. WriterBounded(w, f)'
    BY <1>1, <1>2, <1>3, <1>4, <2>1 DEF WriterBounded
  <2> QED BY <1>1, <1>3, <1>4, <2>2, HeardBounded, WriterMoves
<1> QED BY <1>5, <1>6

\* Bumping makes every commit so far visible under the new generation.
LEMMA BumpInv ==
  ASSUME TypeOK, NEW n \in News, NEW f \in Facets, Bounded(n, f), NEW w \in Writers, Bump(w)
  PROVE  Bounded(n, f)'
<1>1. /\ generation \in Nat /\ db \in Nat
      /\ generation' = generation + 1
      /\ floor'[generation + 1] = db
      /\ \A g \in 0 .. generation : floor'[g] = floor[g]
      /\ \A g \in 0 .. generation : floor[g] \in Nat /\ floor[g] <= db
      /\ UNCHANGED <<db, map, srch, acked, settled>>
  BY FloorFacts DEF Bump, Bounded
<1>2. FloorOK'
  BY <1>1 DEF Bounded, FloorOK
<1>3. MapOK'
  <2>1. \A k \in DOMAIN map : k.generation \in 0 .. generation
    BY <1>1 DEF Bounded, MapOK, TypeOK, StoreType, Key
  <2> QED BY <1>1, <2>1 DEF Bounded, MapOK
<1>4. ASSUME NEW v \in Writers  PROVE WriterBounded(v, f)'
  <2>1. wr'[v].pos = wr[v].pos /\ wr'[v].changed = wr[v].changed /\ wr'[v].pc = wr[v].pc
    BY WriterFacts DEF Bump, TypeOK, WritersType, WriterRecord
  <2>2. wr[v].pos[f] \in Nat /\ WriterBounded(v, f)
    BY WriterFacts DEF Bounded
  <2> QED BY <1>1, <2>1, <2>2 DEF WriterBounded
<1>5. ASSUME NEW s \in Searchers  PROVE SearchBounded(s, n, f)'
  <2>1. srch[s].key \in Nat /\ Owed(s, n)[f] \in Nat /\ Owed(s, n)' = Owed(s, n)
    BY <1>1, SearchFacts DEF Owed
  <2>2. SearchBounded(s, n, f)
    BY DEF Bounded
  <2> QED BY <1>1, <2>1, <2>2 DEF SearchBounded
<1>6. Heard(n)'[f] <= floor'[generation']
  <2>1. Heard(n)[f] \in Nat /\ Heard(n)' = Heard(n)
    BY <1>1, HeardFacts DEF Heard
  <2>2. floor[generation] \in Nat /\ floor[generation] <= db /\ Heard(n)[f] <= floor[generation]
    BY <1>1 DEF Bounded
  <2> QED BY <1>1, <2>1, <2>2
<1> QED BY <1>2, <1>3, <1>4, <1>5, <1>6 DEF Bounded

\* Join takes the later of the two commits, facet by facet.
LEMMA JoinBound ==
  ASSUME NEW p \in Stamps, NEW q \in Stamps, NEW f \in Facets, NEW m \in Nat,
         p[f] <= m, q[f] <= m
  PROVE  Join(p, q)[f] <= m
BY DEF Join, MaxOf, Stamps

\* A call that ends leaves an idle record.
LEMMA EndInv ==
  ASSUME TypeOK, NEW n \in News, NEW f \in Facets, Bounded(n, f), NEW w \in Writers,
         wr' = [wr EXCEPT ![w] = IdleWriter],
         UNCHANGED <<db, generation, floor, map, srch>>,
         Heard(n)'[f] <= floor[generation]
  PROVE  Bounded(n, f)'
<1>1. wr'[w].pos[f] = 0 /\ \A v \in Writers \ {w} : wr'[v] = wr[v]
  BY DEF IdleWriter, Zero, TypeOK, WritersType
<1> QED BY <1>1, NothingCommitted

\* A handler that owes no bump is not ahead of the current generation.
LEMMA OwesNothing ==
  ASSUME TypeOK, NEW n \in News, NEW f \in Facets, Bounded(n, f), NEW w \in Writers,
         \A j \in 1 .. Len(Handler(wr[w].op)) : ~OwesBump(wr[w].op, wr[w].at, j, f)
  PROVE  wr[w].pos[f] <= floor[generation]
BY WriterFacts, FloorFacts DEF Bounded, WriterBounded

\* When a handler fails, clients hear of nothing that no bump has covered.
LEMMA StepFailsInv ==
  ASSUME TypeOK, NEW n \in News, NEW f \in Facets, WellOrdered(n, f), Bounded(n, f),
         NEW w \in Writers, StepFails(w)
  PROVE  Bounded(n, f)'
<1> DEFINE op == wr[w].op
<1>1. /\ op \in Methods /\ wr[w].at \in 1 .. Len(Handler(op))
      /\ Handler(op)[wr[w].at] \in FatalSteps
  BY RunningDoes DEF StepFails, FatalSteps, TypeOK
<1>2. CASE n = "acked"
  BY <1>2, EndInv DEF StepFails, Heard, Bounded
<1>3. CASE n = "settled"
  <2>1. \A j \in 1 .. Len(Handler(op)) : ~OwesBump(op, wr[w].at, j, f)
    BY <1>1, <1>3 DEF WellOrdered, BumpsLast
  <2>2. wr[w].pos[f] <= floor[generation]
    BY <2>1, OwesNothing
  <2>3. settled[f] <= floor[generation] /\ settled \in Stamps /\ floor[generation] \in Nat
    BY <1>3, HeardFacts, FloorFacts DEF Bounded, Heard
  <2>4. settled'[f] <= floor[generation]
    BY <2>2, <2>3, JoinBound, WriterFacts DEF StepFails
  <2> QED BY <1>3, <2>4, EndInv DEF StepFails, Heard
<1> QED BY <1>2, <1>3 DEF News

\* An answer tells clients only of commits its bump has covered.
LEMMA AnswerInv ==
  ASSUME TypeOK, NEW n \in News, NEW f \in Facets, WellOrdered(n, f), Bounded(n, f),
         NEW w \in Writers, Answer(w)
  PROVE  Bounded(n, f)'
<1> DEFINE op == wr[w].op
<1>1. op \in Methods /\ op \in AllMethods /\ wr[w].at \in Nat /\ Len(Handler(op)) \in Nat
  <2>1. op \in Methods /\ op \in AllMethods
    BY ConstantsAssumption DEF Answer, TypeOK, WritersType
  <2> QED BY <2>1, HandlerSteps, WriterFacts DEF WriterRecord, Facets
<1>2. \A j \in 1 .. Len(Handler(op)) : ~OwesBump(op, Len(Handler(op)) + 1, j, f)
  BY <1>1 DEF WellOrdered, BumpsLast
<1>3. \A j \in 1 .. Len(Handler(op)) : ~OwesBump(op, wr[w].at, j, f)
  BY <1>1, <1>2 DEF OwesBump, Answer
<1>4. wr[w].pos[f] <= floor[generation]
  BY <1>3, OwesNothing
<1>5. Heard(n)[f] <= floor[generation] /\ Heard(n) \in Stamps /\ floor[generation] \in Nat
  BY HeardFacts, FloorFacts DEF Bounded
<1>6. Heard(n)' = Join(Heard(n), wr[w].pos)
  BY DEF Answer, Heard
<1>7. Heard(n)'[f] <= floor[generation]
  BY <1>4, <1>5, <1>6, JoinBound, WriterFacts
<1> QED BY <1>7, EndInv DEF Answer

\* Every step of a well ordered handler keeps the invariant.
LEMMA WriterStepInv ==
  ASSUME TypeOK, NEW n \in News, NEW f \in Facets, WellOrdered(n, f), Bounded(n, f),
         NEW w \in Writers, WriterStep(w)
  PROVE  Bounded(n, f)'
<1>1. wr[w].at \in Nat /\ wr[w].at + 1 \in Nat /\ wr[w].rounds + 1 \in Nat
  BY WriterFacts DEF WriterRecord
<1>2. /\ LoopSteps \subseteq StepsOf("content") /\ {"commit"} \subseteq StepsOf("content")
      /\ {"rerender"} \subseteq StepsOf("stamp") /\ VectorSteps \subseteq StepsOf("vec")
      /\ "content" \in Facets /\ "stamp" \in Facets /\ "vec" \in Facets
  BY DEF StepsOf, ContentSteps, Facets
<1>3. CASE Commit(w)
  BY <1>1, <1>2, <1>3, CommitInv DEF Commit
<1>4. CASE PassEntry(w)
  <2>1. CASE PurgeUncounted(w)
    BY <2>1, PurgeUncountedInv
  <2>2. CASE CommitFacet(w, "content", wr[w].at, wr[w].rounds + 1)
    BY <1>1, <1>2, <1>4, <2>2, CommitInv DEF PassEntry
  <2> QED BY <1>4, <2>1, <2>2 DEF PassEntry
<1>5. CASE Rerender(w)
  BY <1>1, <1>2, <1>5, CommitInv DEF Rerender
<1>6. CASE Embed(w)
  BY <1>1, <1>2, <1>6, CommitInv DEF Embed
<1>7. CASE PassDone(w)
  BY <1>7, SkipInv DEF PassDone, LoopSteps, BumpSteps
<1>8. CASE NothingToEmbed(w)
  BY <1>8, SkipInv DEF NothingToEmbed, VectorSteps, BumpSteps
<1>9. CASE Quiet(w)
  BY <1>9, SkipInv DEF Quiet, QuietSteps, BumpSteps
<1>10. CASE BumpSkipped(w)
  BY <1>10, SkipInv DEF BumpSkipped
<1> QED BY <1>3, <1>4, <1>5, <1>6, <1>7, <1>8, <1>9, <1>10, AcquireInv,
           BumpInv, StepFailsInv, AnswerInv
        DEF WriterStep

\* A step of one search keeps the invariant when its own new record is bounded
\* and what it leaves in the map is.
LEMMA SearchMoves ==
  ASSUME TypeOK, NEW n \in News, NEW f \in Facets, Bounded(n, f), NEW s \in Searchers,
         \A t \in Searchers \ {s} : srch'[t] = srch[t],
         UNCHANGED <<db, generation, floor, wr, acked, settled>>,
         SearchBounded(s, n, f)', MapOK'
  PROVE  Bounded(n, f)'
<1>1. FloorOK' /\ Heard(n)'[f] <= floor'[generation']
  BY DEF Bounded, FloorOK, Heard
<1>2. \A w \in Writers : WriterBounded(w, f)'
  BY DEF Bounded, WriterBounded
<1>3. \A t \in Searchers : SearchBounded(t, n, f)'
  <2> SUFFICES ASSUME NEW t \in Searchers  PROVE SearchBounded(t, n, f)'
    OBVIOUS
  <2>1. CASE t = s
    BY <2>1
  <2>2. CASE t # s
    BY <2>2 DEF Bounded, SearchBounded, Owed
  <2> QED BY <2>1, <2>2
<1> QED BY <1>1, <1>2, <1>3 DEF Bounded

\* A search starts owing no more than the floor of the current generation.
LEMMA AskInv ==
  ASSUME TypeOK, NEW n \in News, NEW f \in Facets, Bounded(n, f), NEW s \in Searchers,
         NEW rpc \in Rpcs, Ask(s, rpc)
  PROVE  Bounded(n, f)'
<1>1. /\ srch'[s].pc = "load" /\ srch'[s].need = acked
      /\ srch'[s].due = settled /\ srch'[s].todo = {}
      /\ \A t \in Searchers \ {s} : srch'[t] = srch[t]
  BY DEF Ask, TypeOK, SearchersType, IdleSearch
<1>2. UNCHANGED <<db, generation, floor, wr, acked, settled, map>>
  BY DEF Ask, UnchangedBySearch
<1>3. SearchBounded(s, n, f)'
  BY <1>1, <1>2 DEF SearchBounded, Bounded, Owed, Heard
<1>4. MapOK'
  BY <1>2 DEF MapOK, Bounded
<1> QED BY <1>1, <1>2, <1>3, <1>4, SearchMoves

\* Every step of a search keeps the invariant.
LEMMA SearcherStepInv ==
  ASSUME TypeOK, NEW n \in News, NEW f \in Facets, Bounded(n, f),
         NEW s \in Searchers, SearcherStep(s)
  PROVE  Bounded(n, f)'
<1> USE DEF UnchangedBySearch, Owed
<1>1. /\ srch[s] \in SearchRecord /\ srch \in [Searchers -> SearchRecord]
      /\ srch[s].pc # "idle" => srch[s].rpc \in SearchRpc
      /\ SearchBounded(s, n, f)
      /\ generation \in Nat /\ db \in Nat
      /\ \A g \in 0 .. generation : floor[g] \in Nat /\ floor[g] <= db
  BY SearchFacts, FloorFacts DEF Bounded, TypeOK, SearchersType
<1>2. MapOK
  BY DEF Bounded
<1>3. CASE LoadGeneration(s)
  <2>1. /\ srch'[s] = [srch[s] EXCEPT !.pc = "get", !.key = generation]
        /\ \A t \in Searchers \ {s} : srch'[t] = srch[t]
        /\ UNCHANGED <<db, generation, floor, wr, acked, settled, map>>
    BY <1>1, <1>3 DEF LoadGeneration
  <2>2. /\ srch'[s].pc = "get" /\ srch'[s].key = generation
        /\ srch'[s].need = srch[s].need /\ srch'[s].due = srch[s].due /\ srch'[s].todo = srch[s].todo
    BY <1>1, <2>1 DEF SearchRecord
  <2>3. srch[s].pc = "load"
    BY <1>3 DEF LoadGeneration
  <2>4. SearchBounded(s, n, f)'
    BY <1>1, <2>1, <2>2, <2>3 DEF SearchBounded
  <2> QED BY <1>2, <2>1, <2>4, SearchMoves DEF MapOK
<1>4. CASE Hit(s)
  <2>1. /\ srch'[s] = [srch[s] EXCEPT !.pc = "done", !.got = map[KeyOf(s)]]
        /\ \A t \in Searchers \ {s} : srch'[t] = srch[t]
        /\ UNCHANGED <<db, generation, floor, wr, acked, settled, map>>
        /\ srch[s].pc = "get" /\ KeyOf(s) \in DOMAIN map
    BY <1>1, <1>4 DEF Hit
  <2>2. /\ srch'[s].pc = "done" /\ srch'[s].key = srch[s].key
        /\ srch'[s].need = srch[s].need /\ srch'[s].due = srch[s].due /\ srch'[s].todo = srch[s].todo
        /\ srch'[s].rpc = srch[s].rpc /\ srch'[s].got = map[KeyOf(s)]
    BY <1>1, <2>1 DEF SearchRecord
  <2>3. \A p \in PartsOf(srch[s].rpc) : map[KeyOf(s)][p] >= floor[srch[s].key]
    BY <1>2, <2>1 DEF MapOK, KeyOf
  <2>4. SearchBounded(s, n, f)'
    BY <1>1, <2>1, <2>2, <2>3 DEF SearchBounded
  <2> QED BY <1>2, <2>1, <2>4, SearchMoves DEF MapOK
<1>5. CASE Miss(s)
  <2>1. /\ srch'[s] = [srch[s] EXCEPT !.pc = "compute", !.todo = PartsOf(srch[s].rpc)]
        /\ \A t \in Searchers \ {s} : srch'[t] = srch[t]
        /\ UNCHANGED <<db, generation, floor, wr, acked, settled, map>>
        /\ srch[s].pc = "get"
    BY <1>1, <1>5 DEF Miss
  <2>2. /\ srch'[s].pc = "compute" /\ srch'[s].key = srch[s].key
        /\ srch'[s].need = srch[s].need /\ srch'[s].due = srch[s].due /\ srch'[s].rpc = srch[s].rpc
        /\ srch'[s].todo = PartsOf(srch[s].rpc)
    BY <1>1, <2>1 DEF SearchRecord
  <2>3. SearchBounded(s, n, f)'
    BY <1>1, <2>1, <2>2 DEF SearchBounded
  <2> QED BY <1>2, <2>1, <2>3, SearchMoves DEF MapOK
<1>6. CASE ComputeFails(s) \/ Finish(s)
  <2>1. /\ srch'[s] = IdleSearch
        /\ \A t \in Searchers \ {s} : srch'[t] = srch[t]
        /\ UNCHANGED <<db, generation, floor, wr, acked, settled, map>>
    BY <1>1, <1>6 DEF ComputeFails, Finish
  <2>2. SearchBounded(s, n, f)'
    BY <1>1, <2>1 DEF SearchBounded, IdleSearch, Zero
  <2> QED BY <1>2, <2>1, <2>2, SearchMoves DEF MapOK
<1>7. ASSUME NEW part \in Parts, ReadPart(s, part)  PROVE Bounded(n, f)'
  <2>1. /\ srch' = [srch EXCEPT ![s] = [srch[s] EXCEPT !.got[part] = db,
                                                     !.todo = srch[s].todo \ {part}]]
        /\ UNCHANGED <<db, generation, floor, wr, acked, settled, map>>
        /\ srch[s].pc = "compute"
    BY <1>7 DEF ReadPart
  <2>2. /\ srch'[s].pc = "compute" /\ srch'[s].key = srch[s].key
        /\ srch'[s].need = srch[s].need /\ srch'[s].due = srch[s].due /\ srch'[s].rpc = srch[s].rpc
        /\ srch'[s].todo = srch[s].todo \ {part}
        /\ srch'[s].got = [srch[s].got EXCEPT ![part] = db]
    BY <1>1, <2>1 DEF SearchRecord
  <2>3. srch[s].got \in [Parts -> Nat] /\ PartsOf(srch[s].rpc) \subseteq Parts
        /\ srch[s].key \in 0 .. generation
    BY <1>1, <2>1, PartsOfType DEF SearchRecord, Result, SearchBounded
  <2>4. \A p \in PartsOf(srch[s].rpc) \ srch'[s].todo : srch'[s].got[p] >= floor[srch[s].key]
    BY <1>1, <2>1, <2>2, <2>3 DEF SearchBounded
  <2>5. SearchBounded(s, n, f)'
    BY <1>1, <2>1, <2>2, <2>4 DEF SearchBounded
  <2>6. \A t \in Searchers \ {s} : srch'[t] = srch[t]
    BY <1>1, <2>1
  <2> QED BY <1>2, <2>1, <2>5, <2>6, SearchMoves DEF MapOK
<1>8. CASE Insert(s)
  <2>1. /\ srch'[s] = [srch[s] EXCEPT !.pc = "done"]
        /\ \A t \in Searchers \ {s} : srch'[t] = srch[t]
        /\ UNCHANGED <<db, generation, floor, wr, acked, settled>>
        /\ srch[s].pc = "compute" /\ srch[s].todo = {}
        /\ map' = [k \in DOMAIN map \union {KeyOf(s)} |->
                     IF k = KeyOf(s) THEN srch[s].got ELSE map[k]]
    BY <1>1, <1>8 DEF Insert
  <2>2. /\ srch'[s].pc = "done" /\ srch'[s].key = srch[s].key
        /\ srch'[s].need = srch[s].need /\ srch'[s].due = srch[s].due /\ srch'[s].rpc = srch[s].rpc
        /\ srch'[s].todo = {} /\ srch'[s].got = srch[s].got
    BY <1>1, <2>1 DEF SearchRecord
  <2>3. SearchBounded(s, n, f)'
    BY <1>1, <2>1, <2>2 DEF SearchBounded
  <2>4. /\ KeyOf(s).generation = srch[s].key /\ KeyOf(s).rpc = srch[s].rpc
        /\ srch[s].key <= generation
        /\ \A p \in PartsOf(srch[s].rpc) : srch[s].got[p] >= floor[srch[s].key]
    BY <1>1, <2>1 DEF SearchBounded, KeyOf
  <2>5. MapOK'
    BY <1>2, <2>1, <2>4 DEF MapOK
  <2> QED BY <2>1, <2>3, <2>5, SearchMoves
<1> QED BY <1>3, <1>4, <1>5, <1>6, <1>7, <1>8 DEF SearcherStep

\* cache.clear only forgets results.
LEMMA ClearInv ==
  ASSUME NEW n \in News, NEW f \in Facets, Bounded(n, f), CacheClear
  PROVE  Bounded(n, f)'
BY DEF Bounded, FloorOK, MapOK, WriterBounded, SearchBounded, Heard, Owed, CacheClear

\* A step that changes nothing keeps the invariant.
LEMMA StutterInv ==
  ASSUME NEW n \in News, NEW f \in Facets, Bounded(n, f), UNCHANGED vars
  PROVE  Bounded(n, f)'
BY DEF Bounded, FloorOK, MapOK, WriterBounded, SearchBounded, Heard, Owed, vars

\* For handlers well ordered in a facet every step keeps the invariant.
LEMMA NextBounded ==
  ASSUME NEW n \in News, NEW f \in Facets, WellOrdered(n, f),
         TypeOK, Bounded(n, f), [Next]_vars
  PROVE  Bounded(n, f)'
BY CallInv, WriterStepInv, AskInv, SearcherStepInv, ClearInv, StutterInv DEF Next

\* For handlers well ordered in a facet, nothing in the map and nothing on its way
\* into it is older than the bump that made its generation current, and what
\* clients have heard of lies before that bump.
THEOREM BoundedInvariance ==
  ASSUME NEW n \in News, NEW f \in Facets, WellOrdered(n, f)
  PROVE  Spec => []Bounded(n, f)
<1>1. TypeOK /\ Bounded(n, f) /\ [Next]_vars => Bounded(n, f)'
  BY NextBounded
<1>2. Init => Bounded(n, f)
  BY InitBounded
<1> QED BY <1>1, <1>2, TypeCorrect, PTL DEF Spec

\* The same for content and answers, the facet that the runs check.
THEOREM CacheInvariance ==
  ASSUME WellOrdered("acked", "content")  PROVE Spec => []CacheInv
<1>1. Init => CacheInv
  BY InitBounded DEF CacheInv, News, Facets
<1>2. TypeOK /\ CacheInv /\ [Next]_vars => CacheInv'
  BY NextBounded DEF CacheInv, News, Facets
<1> QED BY <1>1, <1>2, TypeCorrect, PTL DEF Spec

\* An answered search is not older than what its client had heard of.
LEMMA AnswerIsFresh ==
  ASSUME TypeOK, NEW n \in News, NEW f \in Facets, Bounded(n, f),
         NEW s \in Searchers, Answered(s), NEW p \in PartsOf(srch[s].rpc)
  PROVE  srch[s].got[p] >= Owed(s, n)[f]
<1>1. /\ srch[s].todo = {} /\ srch[s].key <= generation
      /\ Owed(s, n)[f] <= floor[srch[s].key]
      /\ srch[s].got[p] >= floor[srch[s].key]
  BY DEF Bounded, SearchBounded, Answered
<1>2. /\ Owed(s, n)[f] \in Nat /\ srch[s].got[p] \in Nat
      /\ srch[s].key \in 0 .. generation
  BY <1>1, SearchFacts, FloorFacts DEF Answered, Bounded
<1>3. floor[srch[s].key] \in Nat
  BY <1>2, FloorFacts DEF Bounded
<1> QED BY <1>1, <1>2, <1>3

\* Any search that starts after a successful answer returns at least the content
\* that answer promised, for every mix of well ordered handlers and searches.
THEOREM ContentFreshness ==
  ASSUME WellOrdered("acked", "content")  PROVE Spec => []ContentFresh
<1>1. TypeOK /\ CacheInv => ContentFresh
  <2> SUFFICES ASSUME TypeOK, CacheInv, NEW s \in Searchers, Answered(s),
                      NEW p \in PartsOf(srch[s].rpc)
               PROVE  srch[s].got[p] >= srch[s].need["content"]
    BY DEF ContentFresh
  <2> QED BY AnswerIsFresh DEF CacheInv, Owed, News, Facets
<1> QED BY <1>1, TypeCorrect, CacheInvariance, PTL

\* The handlers as they are: freshness holds for every client that does not
\* call batch, as long as no purge leaves an entry half deleted.
THEOREM DaemonFreshness ==
  ASSUME "batch" \notin Methods, "purge" \notin MayFail
  PROVE  Spec => []ContentFresh
<1>1. WellOrdered("acked", "content")
  BY HandlersBumpLast, ConstantsAssumption DEF WellOrdered
<1> QED BY <1>1, ContentFreshness

\* Vectors that an answered call wrote are seen by later semantic searches, for
\* clients of the methods that bump after they embed.
THEOREM VectorsStayFresh ==
  ASSUME Methods \cap {"batch", "block.update", "index.sync", "index.rebuild"} = {}
  PROVE  Spec => []VectorFresh
<1>0. WellOrdered("acked", "vec")
  BY HandlersEmbedFirst, ConstantsAssumption DEF WellOrdered
<1>1. Init => Bounded("acked", "vec")
  BY InitBounded DEF News, Facets
<1>2. TypeOK /\ Bounded("acked", "vec") /\ [Next]_vars => Bounded("acked", "vec")'
  BY <1>0, NextBounded DEF News, Facets
<1>3. TypeOK /\ Bounded("acked", "vec") => VectorFresh
  <2> SUFFICES ASSUME TypeOK, Bounded("acked", "vec"), NEW s \in Searchers, Answered(s),
                      "knn" \in PartsOf(srch[s].rpc)
               PROVE  srch[s].got["knn"] >= srch[s].need["vec"]
    BY DEF VectorFresh
  <2> QED BY AnswerIsFresh DEF Owed, News, Facets
<1> QED BY <1>1, <1>2, <1>3, TypeCorrect, PTL DEF Spec

\* The stamps of an answered call's rerender are seen by later fulltext searches,
\* for clients of the methods that bump after they rerender.
THEOREM StampsStayFresh ==
  ASSUME Methods \cap {"block.update", "block.delete"} = {}
  PROVE  Spec => []StampFresh
<1>0. WellOrdered("acked", "stamp")
  BY HandlersRerenderFirst, ConstantsAssumption DEF WellOrdered
<1>1. Init => Bounded("acked", "stamp")
  BY InitBounded DEF News, Facets
<1>2. TypeOK /\ Bounded("acked", "stamp") /\ [Next]_vars => Bounded("acked", "stamp")'
  BY <1>0, NextBounded DEF News, Facets
<1>3. TypeOK /\ Bounded("acked", "stamp") => StampFresh
  <2> SUFFICES ASSUME TypeOK, Bounded("acked", "stamp"), NEW s \in Searchers, Answered(s),
                      "fts" \in PartsOf(srch[s].rpc)
               PROVE  srch[s].got["fts"] >= srch[s].need["stamp"]
    BY DEF StampFresh
  <2> QED BY AnswerIsFresh DEF Owed, News, Facets
<1> QED BY <1>1, <1>2, <1>3, TypeCorrect, PTL DEF Spec

\* What a call committed before it failed is seen too, when its handler bumps
\* before anything can fail.
THEOREM FailuresStayFresh ==
  ASSUME WellOrdered("settled", "content")  PROVE Spec => []SettledFresh
<1>1. Init => Bounded("settled", "content")
  BY InitBounded DEF News, Facets
<1>2. TypeOK /\ Bounded("settled", "content") /\ [Next]_vars => Bounded("settled", "content")'
  BY NextBounded DEF News, Facets
<1>3. TypeOK /\ Bounded("settled", "content") => SettledFresh
  <2> SUFFICES ASSUME TypeOK, Bounded("settled", "content"), NEW s \in Searchers, Answered(s),
                      NEW p \in PartsOf(srch[s].rpc)
               PROVE  srch[s].got[p] >= srch[s].due["content"]
    BY DEF SettledFresh
  <2> QED BY AnswerIsFresh DEF Owed, News, Facets
<1> QED BY <1>1, <1>2, <1>3, TypeCorrect, PTL DEF Spec

\* The daemon's handlers that bump right after their content: whatever fails in them
\* later, what they committed is seen by the searches that start after the error.
THEOREM DaemonFailuresFresh ==
  ASSUME Methods \subseteq {"entry.update", "entries.purge_transient", "block.update",
                            "block.delete", "index.rebuild"},
         "purge" \notin MayFail
  PROVE  Spec => []SettledFresh
<1>1. WellOrdered("settled", "content")
  BY HandlersBumpBeforeFailing DEF WellOrdered
<1> QED BY <1>1, FailuresStayFresh

\* All three for entry.create, block.append and entry.update as long as the embedding
\* of new text does not fail: a failed one leaves its content to the next bump.
THEOREM EffectsStayFresh ==
  ASSUME Methods \cap {"batch", "block.update", "block.delete", "index.sync",
                       "index.rebuild"} = {},
         WellOrdered("settled", "content")
  PROVE  Spec => []EffectsFresh
<1>1. VectorFresh /\ StampFresh /\ SettledFresh => EffectsFresh
  BY DEF EffectsFresh
<1>2. Spec => []VectorFresh
  BY VectorsStayFresh
<1>3. Spec => []StampFresh
  BY StampsStayFresh
<1> QED BY <1>1, <1>2, <1>3, FailuresStayFresh, PTL

-----------------------------------------------------------------------------
(* The cached search implements FreshReads.                                *)

\* No result holds a part read from a prefix longer than the history.
LEMMA PastStep ==
  ASSUME TypeOK, PastOK, [Next]_vars  PROVE PastOK'
<1>1. /\ db \in Nat
      /\ \A k \in DOMAIN map : \A p \in Parts : map[k][p] \in Nat /\ map[k][p] <= db
      /\ \A s \in Searchers : \A p \in Parts : srch[s].got[p] \in Nat /\ srch[s].got[p] <= db
  BY DEF TypeOK, StoreType, SearchersType, SearchRecord, Result, PastOK
<1>2. ASSUME UNCHANGED <<map, srch>>, db' = db \/ db' = db + 1  PROVE PastOK'
  BY <1>1, <1>2 DEF PastOK
<1>3. ASSUME NEW w \in Writers, WriterStep(w) \/ \E op \in Methods : Call(w, op)
      PROVE  PastOK'
  <2>1. UNCHANGED <<map, srch>> /\ (db' = db \/ db' = db + 1)
    <3>1. ASSUME NEW facet, NEW next, NEW c, CommitFacet(w, facet, next, c)
          PROVE  UNCHANGED <<map, srch>> /\ db' = db + 1
      BY <3>1 DEF CommitFacet
    <3>2. CASE Skip(w)
      BY <3>2 DEF Skip
    <3>3. CASE PurgeUncounted(w)
      BY <3>3 DEF PurgeUncounted
    <3>4. CASE Acquire(w) \/ Bump(w) \/ StepFails(w) \/ Answer(w)
      BY <3>4 DEF Acquire, Bump, StepFails, Answer
    <3>5. CASE \E op \in Methods : Call(w, op)
      BY <3>5 DEF Call
    <3>6. CASE Commit(w)     BY <3>1, <3>6 DEF Commit
    <3>7. CASE PassEntry(w)  BY <3>1, <3>3, <3>7 DEF PassEntry
    <3>8. CASE Rerender(w)   BY <3>1, <3>8 DEF Rerender
    <3>9. CASE Embed(w)      BY <3>1, <3>9 DEF Embed
    <3>10. CASE PassDone(w) \/ NothingToEmbed(w) \/ Quiet(w) \/ BumpSkipped(w)
      BY <3>2, <3>10 DEF PassDone, NothingToEmbed, Quiet, BumpSkipped
    <3> QED BY <1>3, <3>4, <3>5, <3>6, <3>7, <3>8, <3>9, <3>10 DEF WriterStep
  <2> QED BY <1>2, <2>1
<1>4. ASSUME NEW s \in Searchers, NEW rpc \in Rpcs, Ask(s, rpc)  PROVE PastOK'
  <2>1. UNCHANGED <<map, db>> /\ \A p \in Parts : srch'[s].got[p] = 0
    BY <1>4 DEF Ask, UnchangedBySearch, IdleSearch, TypeOK, SearchersType
  <2>2. \A t \in Searchers \ {s} : srch'[t] = srch[t]
    BY <1>4 DEF Ask, TypeOK, SearchersType
  <2> QED BY <1>1, <2>1, <2>2 DEF PastOK
<1>5. ASSUME NEW s \in Searchers, SearcherStep(s)  PROVE PastOK'
  <2> USE DEF UnchangedBySearch
  <2>1. srch \in [Searchers -> SearchRecord] /\ srch[s].got \in [Parts -> Nat]
    BY DEF TypeOK, SearchersType, SearchRecord, Result
  <2>2. db' = db /\ \A t \in Searchers \ {s} : srch'[t] = srch[t]
    BY <1>5, <2>1 DEF SearcherStep, LoadGeneration, Hit, Miss, ComputeFails, ReadPart,
                      Insert, Finish
  <2>3. CASE LoadGeneration(s) \/ Miss(s)
    <3>1. map' = map /\ srch'[s].got = srch[s].got
      <4>1. CASE LoadGeneration(s) BY <2>1, <4>1 DEF LoadGeneration, SearchRecord
      <4>2. CASE Miss(s)           BY <2>1, <4>2 DEF Miss, SearchRecord
      <4> QED BY <2>3, <4>1, <4>2
    <3> QED BY <1>1, <2>2, <3>1 DEF PastOK
  <2>4. CASE Hit(s)
    <3>1. map' = map /\ KeyOf(s) \in DOMAIN map /\ srch'[s].got = map[KeyOf(s)]
      BY <2>1, <2>4 DEF Hit, SearchRecord
    <3> QED BY <1>1, <2>2, <3>1 DEF PastOK
  <2>5. CASE ComputeFails(s) \/ Finish(s)
    BY <1>1, <2>1, <2>2, <2>5 DEF ComputeFails, Finish, PastOK, IdleSearch
  <2>6. ASSUME NEW part \in Parts, ReadPart(s, part)  PROVE PastOK'
    <3>1. map' = map /\ srch'[s].got = [srch[s].got EXCEPT ![part] = db]
      BY <2>1, <2>6 DEF ReadPart, SearchRecord
    <3> QED BY <1>1, <2>1, <2>2, <3>1 DEF PastOK
  <2>7. CASE Insert(s)
    <3>1. srch'[s].got = srch[s].got
      BY <2>1, <2>7 DEF Insert, SearchRecord
    <3> QED BY <1>1, <2>2, <2>7, <3>1 DEF Insert, PastOK
  <2> QED BY <1>5, <2>3, <2>4, <2>5, <2>6, <2>7 DEF SearcherStep
<1>6. ASSUME CacheClear  PROVE PastOK'
  BY <1>1, <1>6 DEF CacheClear, PastOK
<1> QED BY <1>2, <1>3, <1>4, <1>5, <1>6 DEF Next, vars

\* The oldest of the parts of a search is one of them.
LEMMA OldestIsPart ==
  ASSUME TypeOK, NEW s \in Searchers, srch[s].pc # "idle"
  PROVE  \E p \in PartsOf(srch[s].rpc) : Oldest(s) = srch[s].got[p]
<1> DEFINE a == srch[s].got["fts"]
           b == srch[s].got["knn"]
           S == {srch[s].got[p] : p \in PartsOf(srch[s].rpc)}
<1>1. srch[s].rpc \in SearchRpc /\ a \in Nat /\ b \in Nat
  BY DEF TypeOK, SearchersType, SearchRecord, Result, Parts
<1>2. S \in {{a}, {b}, {a, b}}
  BY <1>1 DEF PartsOf, SearchRpc, Parts
<1>3. \E x \in S : \A y \in S : x <= y
  <2> HIDE DEF a, b, S
  <2> QED BY <1>1, <1>2
<1>4. Oldest(s) \in S
  BY <1>3 DEF Oldest, Min
<1> QED BY <1>4

\* An answer lies between what its client had heard of and the whole history.
AnswersInRange ==
  \A s \in Searchers : Answered(s) => Oldest(s) \in srch[s].need["content"] .. db

\* The invariants say so.
LEMMA InvInRange == TypeOK /\ CacheInv /\ PastOK => AnswersInRange
<1> SUFFICES ASSUME TypeOK, CacheInv, PastOK, NEW s \in Searchers, Answered(s)
             PROVE  Oldest(s) \in srch[s].need["content"] .. db
  BY DEF AnswersInRange
<1>1. PICK p \in PartsOf(srch[s].rpc) : Oldest(s) = srch[s].got[p]
  BY OldestIsPart DEF Answered
<1>2. srch[s].got[p] >= srch[s].need["content"]
  BY AnswerIsFresh DEF CacheInv, Owed, News, Facets
<1>3. /\ p \in Parts /\ srch[s].got[p] \in Nat /\ srch[s].got[p] <= db
      /\ srch[s].need["content"] \in Nat /\ db \in Nat
  BY PartsOfType DEF TypeOK, StoreType, SearchersType, SearchRecord, Result, Stamps,
                     Facets, PastOK, Answered
<1> QED BY <1>1, <1>2, <1>3


\* The daemon starts as FreshReads does: nothing committed, nobody asking.
LEMMA InitRefines == Init => Reads!Init
<1> SUFFICES ASSUME Init  PROVE Reads!Init
  OBVIOUS
<1>1. db = 0 /\ acked["content"] = 0
  BY DEF Init, Zero, Facets
<1>2. \A s \in Searchers : Request(s) = [pc |-> "idle", need |-> 0, got |-> 0]
  BY DEF Init, Request, IdleSearch
<1> QED BY <1>1, <1>2 DEF Reads!Init, Reads!Idle

\* The request that a search is for FreshReads, by how far it has come.
LEMMA RequestOf ==
  ASSUME NEW s \in Searchers
  PROVE  /\ srch[s].pc = "idle" => Request(s) = [pc |-> "idle", need |-> 0, got |-> 0]
         /\ srch[s].pc = "done" =>
              Request(s) = [pc |-> "done", need |-> srch[s].need["content"],
                            got |-> Oldest(s)]
         /\ srch[s].pc \in {"load", "get", "compute"} =>
              Request(s) = [pc |-> "open", need |-> srch[s].need["content"], got |-> 0]
BY DEF Request

\* A step of a handler is a write, an acknowledgement, or nothing.
LEMMA WriterRefines ==
  ASSUME TypeOK, CacheInv, CacheInv', TypeOK', NEW w \in Writers,
         WriterStep(w) \/ \E op \in Methods : Call(w, op)
  PROVE  [Reads!Next]_Reads!vars
<1>1. ASSUME srch' = srch  PROVE [s \in Searchers |-> Request(s)]' = [s \in Searchers |-> Request(s)]
  BY <1>1 DEF Request, Oldest
<1>2. ASSUME srch' = srch, acked' = acked, db' = db \/ db' = db + 1
      PROVE  [Reads!Next]_Reads!vars
  BY <1>1, <1>2 DEF Reads!Next, Reads!Write, Reads!vars
<1>3. ASSUME NEW facet, NEW next, NEW c, CommitFacet(w, facet, next, c)
      PROVE  UNCHANGED <<acked, srch>> /\ db' = db + 1
  BY <1>3 DEF CommitFacet
<1>4. CASE Answer(w)
  <2>1. acked["content"] \in Nat /\ acked'["content"] \in Nat /\ db \in Nat
    BY DEF TypeOK, StoreType, Stamps, Facets
  <2>2. acked["content"] <= acked'["content"]
    BY <1>4, <2>1, WriterFacts DEF Answer, Join, MaxOf, Facets
  <2>3. acked'["content"] <= db
    <3>1. db' = db /\ floor'[generation'] <= db' /\ floor'[generation'] \in Nat
          /\ acked'["content"] <= floor'[generation']
      BY <1>4 DEF Answer, CacheInv, Bounded, FloorOK, TypeOK, StoreType, Heard
    <3> QED BY <2>1, <3>1
  <2>4. srch' = srch /\ db' = db
    BY <1>4 DEF Answer
  <2> QED BY <1>1, <2>1, <2>2, <2>3, <2>4 DEF Reads!Next, Reads!Ack
<1>5. CASE Skip(w) \/ PurgeUncounted(w) \/ Acquire(w) \/ Bump(w) \/ StepFails(w)
  BY <1>2, <1>5 DEF Skip, PurgeUncounted, Acquire, Bump, StepFails
<1>6. CASE \E op \in Methods : Call(w, op)
  BY <1>2, <1>6 DEF Call
<1>7. CASE Commit(w)     BY <1>2, <1>3, <1>7 DEF Commit
<1>8. CASE PassEntry(w)  BY <1>2, <1>3, <1>5, <1>8 DEF PassEntry
<1>9. CASE Rerender(w)   BY <1>2, <1>3, <1>9 DEF Rerender
<1>10. CASE Embed(w)     BY <1>2, <1>3, <1>10 DEF Embed
<1>11. CASE PassDone(w) \/ NothingToEmbed(w) \/ Quiet(w) \/ BumpSkipped(w)
  BY <1>5, <1>11 DEF PassDone, NothingToEmbed, Quiet, BumpSkipped
<1> QED BY <1>4, <1>5, <1>6, <1>7, <1>8, <1>9, <1>10, <1>11 DEF WriterStep

\* The requests of the others stay as they are.
LEMMA OthersStay ==
  ASSUME TypeOK, NEW s \in Searchers, \A t \in Searchers \ {s} : srch'[t] = srch[t]
  PROVE  \A t \in Searchers \ {s} : Request(t)' = Request(t)
BY DEF Request, Oldest

\* A search that arrives asks.
LEMMA AskRefines ==
  ASSUME TypeOK, NEW s \in Searchers, NEW rpc \in Rpcs, Ask(s, rpc)
  PROVE  Reads!Ask(s)
<1>1. /\ srch[s].pc = "idle" /\ srch'[s].pc = "load" /\ srch'[s].need = acked
      /\ \A t \in Searchers \ {s} : srch'[t] = srch[t]
      /\ UNCHANGED <<db, acked>>
  BY DEF Ask, UnchangedBySearch, TypeOK, SearchersType, IdleSearch
<1>2. Request(s).pc = "idle"
  BY <1>1, RequestOf
<1>3. Request(s)' = [pc |-> "open", need |-> acked["content"], got |-> 0]
  BY <1>1 DEF Request
<1>4. \A t \in Searchers \ {s} : Request(t)' = Request(t)
  BY <1>1, OthersStay
<1> QED BY <1>1, <1>2, <1>3, <1>4 DEF Reads!Ask

\* A search replies when it hits or inserts, closes when it finishes or fails, and
\* does nothing in between.
LEMMA SearcherRefines ==
  ASSUME TypeOK, AnswersInRange', NEW s \in Searchers, SearcherStep(s)
  PROVE  [Reads!Next]_Reads!vars
<1> USE DEF UnchangedBySearch
<1>1. srch \in [Searchers -> SearchRecord]
  BY DEF TypeOK, SearchersType
<1>2. /\ UNCHANGED <<db, acked>>
      /\ \A t \in Searchers \ {s} : srch'[t] = srch[t]
  BY <1>1 DEF SearcherStep, LoadGeneration, Hit, Miss, ComputeFails, ReadPart, Insert, Finish
<1>3. \A t \in Searchers \ {s} : Request(t)' = Request(t)
  BY <1>2, OthersStay
<1>4. ASSUME srch[s].pc \in {"load", "get", "compute"},
             srch'[s].pc \in {"load", "get", "compute"}, srch'[s].need = srch[s].need
      PROVE  [Reads!Next]_Reads!vars
  <2>1. Request(s)' = Request(s)
    BY <1>4 DEF Request
  <2> QED BY <1>2, <1>3, <2>1 DEF Reads!vars
<1>5. ASSUME srch[s].pc \in {"get", "compute"}, srch'[s].pc = "done",
             srch'[s].need = srch[s].need
      PROVE  [Reads!Next]_Reads!vars
  <2>1. Request(s) = [pc |-> "open", need |-> srch[s].need["content"], got |-> 0]
    BY <1>5, RequestOf
  <2>2. Request(s)' = [pc |-> "done", need |-> srch[s].need["content"], got |-> Oldest(s)']
    BY <1>5 DEF Request
  <2>3. Oldest(s)' \in srch[s].need["content"] .. db
    <3>1. Oldest(s)' \in srch'[s].need["content"] .. db'
      BY <1>5 DEF AnswersInRange, Answered
    <3> QED BY <1>2, <1>5, <3>1
  <2>4. PICK p \in srch[s].need["content"] .. db : p = Oldest(s)'
    BY <2>3
  <2> DEFINE r == [pc |-> "done", need |-> srch[s].need["content"], got |-> p]
             req == [t \in Searchers |-> Request(t)]
  <2>5. req' = [req EXCEPT ![s] = r]
    BY <1>3, <2>2, <2>4
  <2>6. Reads!Reply(s)
    <3>1. req[s].pc = "open" /\ req[s].need = srch[s].need["content"]
      BY <2>1
    <3> QED BY <1>2, <2>4, <2>5, <3>1 DEF Reads!Reply
  <2> QED BY <2>6 DEF Reads!Next
<1>6. ASSUME srch[s].pc # "idle", srch'[s].pc = "idle"
      PROVE  [Reads!Next]_Reads!vars
  <2>1. Request(s).pc # "idle"
    BY <1>6 DEF Request
  <2>2. Request(s)' = [pc |-> "idle", need |-> 0, got |-> 0]
    BY <1>6 DEF Request
  <2>3. Reads!Close(s)
    BY <1>2, <1>3, <2>1, <2>2 DEF Reads!Close, Reads!Idle
  <2> QED BY <2>3 DEF Reads!Next
<1>7. CASE LoadGeneration(s)  BY <1>1, <1>4, <1>7 DEF LoadGeneration, SearchRecord
<1>8. CASE Miss(s)            BY <1>1, <1>4, <1>8 DEF Miss, SearchRecord
<1>9. ASSUME NEW part \in Parts, ReadPart(s, part)  PROVE [Reads!Next]_Reads!vars
  BY <1>1, <1>4, <1>9 DEF ReadPart, SearchRecord
<1>10. CASE Hit(s)            BY <1>1, <1>5, <1>10 DEF Hit, SearchRecord
<1>11. CASE Insert(s)         BY <1>1, <1>5, <1>11 DEF Insert, SearchRecord
<1>12. CASE ComputeFails(s) \/ Finish(s)
  BY <1>1, <1>6, <1>12 DEF ComputeFails, Finish, IdleSearch
<1> QED BY <1>7, <1>8, <1>9, <1>10, <1>11, <1>12 DEF SearcherStep

\* Every step of the daemon is a step of FreshReads or none.
LEMMA NextRefines ==
  ASSUME TypeOK, CacheInv, TypeOK', CacheInv', AnswersInRange', [Next]_vars
  PROVE  [Reads!Next]_Reads!vars
<1>1. ASSUME UNCHANGED <<db, acked, srch>>  PROVE UNCHANGED Reads!vars
  BY <1>1 DEF Reads!vars, Request, Oldest
<1>2. ASSUME NEW s \in Searchers, NEW rpc \in Rpcs, Ask(s, rpc)
      PROVE  [Reads!Next]_Reads!vars
  BY <1>2, AskRefines DEF Reads!Next
<1>3. CASE CacheClear \/ UNCHANGED vars
  BY <1>1, <1>3 DEF CacheClear, vars
<1> QED BY <1>2, <1>3, WriterRefines, SearcherRefines DEF Next

\* The cached search implements the promise of FreshReads, for well ordered handlers:
\* with the cache, its generation and the lock taken away, every answer is a prefix of
\* the history no shorter than what was acknowledged when it was asked.
THEOREM CacheImplementsReads ==
  ASSUME WellOrdered("acked", "content")  PROVE Spec => Refines
<1>1. Init => PastOK
  BY DEF Init, PastOK, IdleSearch
<1>2. Spec => []PastOK
  BY <1>1, PastStep, TypeCorrect, PTL DEF Spec
<1>3. Spec => []AnswersInRange
  BY <1>2, InvInRange, TypeCorrect, CacheInvariance, PTL
<1> QED BY <1>3, InitRefines, NextRefines, TypeCorrect, CacheInvariance, PTL
        DEF Spec, Refines, Reads!Spec
=============================================================================
