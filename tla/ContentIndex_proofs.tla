------------------------ MODULE ContentIndex_proofs ------------------------
(***************************************************************************)
(* Proofs about ContentIndex: types for every use of the daemon, and, when *)
(* clients call no index RPC beside other calls and nobody else touches    *)
(* the files, that what was answered is kept across failures, syncs and    *)
(* crashes, for any number of entries, calls and crashes.                  *)
(***************************************************************************)
EXTENDS ContentIndex, TLAPS

-----------------------------------------------------------------------------
(* The operators the actions are built from. *)

\* Writing a file.
LEMMA PutDoc ==
  ASSUME StoresType, NEW e \in Entries, NEW v \in FileRecord, doc' = Put(doc, e, v)
  PROVE  /\ DOMAIN doc' = DOMAIN doc \union {e} /\ doc' \in [DOMAIN doc' -> FileRecord]
         /\ doc'[e] = v /\ \A x \in DOMAIN doc : x # e => doc'[x] = doc[x]
BY DEF StoresType, Put

\* Removing a file.
LEMMA DropDoc ==
  ASSUME StoresType, NEW e, doc' = Drop(doc, e)
  PROVE  /\ DOMAIN doc' = DOMAIN doc \ {e} /\ doc' \in [DOMAIN doc' -> FileRecord]
         /\ \A x \in DOMAIN doc' : doc'[x] = doc[x]
BY DEF StoresType, Drop

\* Inserting a row, or replacing it.
LEMMA PutRow ==
  ASSUME StoresType, NEW e \in Entries, NEW content \in Content, NEW m \in Nat,
         Insert(e, content, m)
  PROVE  /\ DOMAIN row' = DOMAIN row \union {e} /\ row' \in [DOMAIN row' -> RowRecord]
         /\ row'[e] = [text |-> content.text, meta |-> content.meta, mtime |-> m]
         /\ \A x \in DOMAIN row : x # e => row'[x] = row[x]
<1>1. [text |-> content.text, meta |-> content.meta, mtime |-> m] \in RowRecord
  BY DEF Content, RowRecord
<1> QED BY <1>1 DEF StoresType, Insert, Put

\* Deleting a row, and the links that go with it.
LEMMA DropRow ==
  ASSUME StoresType, NEW e, DeleteRow(e)
  PROVE  /\ DOMAIN row' = DOMAIN row \ {e} /\ row' \in [DOMAIN row' -> RowRecord]
         /\ \A x \in DOMAIN row' : row'[x] = row[x]
         /\ links' \subseteq links
<1>1. links' \subseteq links
  BY DEF DeleteRow
<1> QED BY <1>1 DEF StoresType, DeleteRow, Drop

\* An mtime is a number, 0 for a file that is not there.
LEMMA MtimeType == StoresType => \A e : MtimeOf(e) \in Nat
BY DEF MtimeOf, StoresType, FileRecord

\* The idle records have their types.
LEMMA IdleTypes ==
  /\ IdleJob \in JobRecord /\ IdleJob.pc = "idle" /\ IdleJob.op = "none"
  /\ IdlePass \in PassRecord /\ IdlePass.pc = "idle" /\ IdlePass.snap = {}
  /\ IdlePass.todo = {} /\ IdlePass.op = "none"
BY DEF IdleJob, IdlePass, JobRecord, PassRecord, Blank, Content

\* A pass that sees the stores change only learns that it is not alone.
LEMMA SeenFacts ==
  ASSUME PassType, NEW q
  PROVE  /\ Seen(q) \in [Passes -> PassRecord]
         /\ \A p \in Passes : 
              /\ Seen(q)[p].pc = pass[p].pc /\ Seen(q)[p].op = pass[p].op
              /\ Seen(q)[p].todo = pass[p].todo /\ Seen(q)[p].seen = pass[p].seen
              /\ Seen(q)[p].snap = pass[p].snap /\ Seen(q)[p].e = pass[p].e
              /\ Seen(q)[p].got = pass[p].got
              /\ pass[p].pc = "idle" => Seen(q)[p] = pass[p]
<1>1. ASSUME NEW p \in Passes
      PROVE  LET r == pass[p]
                 s == [r EXCEPT !.alone = FALSE]
             IN  /\ s \in PassRecord /\ s.pc = r.pc /\ s.op = r.op /\ s.todo = r.todo
                 /\ s.seen = r.seen /\ s.snap = r.snap /\ s.e = r.e /\ s.got = r.got
  <2>1. pass[p] \in PassRecord
    BY DEF PassType
  <2> QED BY <2>1 DEF PassRecord
<1> QED BY <1>1 DEF PassType, Seen

\* Changing the record of one pass.
LEMMA BecomeType ==
  ASSUME PassType, NEW p \in Passes, NEW r \in PassRecord,
         r.pc \in {"read", "replace", "orphan"} => r.e \in Entries,
         r.pc = "idle" => r = IdlePass,
         Become(p, r)
  PROVE  PassType'
BY DEF PassType, Become

\* The same, while the other passes notice.
LEMMA StoreType ==
  ASSUME PassType, NEW p \in Passes, NEW r \in PassRecord,
         r.pc \in {"read", "replace", "orphan"} => r.e \in Entries,
         r.pc = "idle" => r = IdlePass,
         Store(p, r)
  PROVE  PassType'
BY SeenFacts DEF PassType, Store

\* All passes notice.
LEMMA NoticeType ==
  ASSUME PassType, pass' = Seen(NoEntry)
  PROVE  PassType'
BY SeenFacts DEF PassType

\* The records a job may become.
LEMMA GotoType ==
  ASSUME JobType, NEW pc \in {"idle", "write", "attach", "undo", "insert", "getRow",
           "getBlocks", "stat", "stamp", "removeDoc", "removeDir", "answer"}, Goto(pc)
  PROVE  job' \in JobRecord /\ job'.pc = pc /\ job'.op = job.op /\ job'.e = job.e
           /\ job'.text = job.text /\ job'.meta = job.meta /\ job'.mtime = job.mtime
BY DEF JobType, JobRecord, Goto

\* Telling clients that an entry is going away.
LEMMA LeavingType ==
  ASSUME HistoryType, NEW e \in Entries, owed' = Leaving(e)
  PROVE  /\ owed' \in [entry : [Entries -> OwedRecord], links : SUBSET (Entries \X Entries)]
         /\ owed'.entry = [owed.entry EXCEPT ![e].fate = "leaving"]
         /\ owed'.links \subseteq owed.links
BY DEF HistoryType, Leaving, OwedRecord, Touching

\* The daemon starts in a well-typed state.
LEMMA InitType == Init => TypeOK
BY IdleTypes, ConstantsAssumption
   DEF Init, TypeOK, StoresType, JobType, PassType, HistoryType, At, Nothing, Blank,
       Content, OwedRecord, CountsRecord

-----------------------------------------------------------------------------
(* Type correctness of the handlers. *)

\* A handler that starts has a typed record and counts one call.
LEMMA StartType ==
  ASSUME TypeOK, NEW op \in AllOps, Startable(op), NEW e \in Entries,
         NEW pc \in {"write", "insert", "getRow", "removeDoc", "answer"},
         pc = "answer" => op = "update",
         job' \in JobRecord, job'.op = op, job'.pc = pc, job'.e = e,
         pass' = Seen(NoEntry), up' = up
  PROVE  JobType' /\ PassType' /\ up' \in {"up", "down", "boot"} /\ counts' \in CountsRecord
<1>1. JobType'
  BY DEF JobType, At
<1>2. PassType'
  BY NoticeType DEF TypeOK
<1>3. counts' \in CountsRecord
  BY DEF TypeOK, Startable, CountsRecord
<1> QED BY <1>1, <1>2, <1>3 DEF TypeOK

\* The first step of each call keeps the types.
LEMMA CallType ==
  ASSUME TypeOK, NEW e \in Entries,
         CreateDir(e) \/ Update(e) \/ EditCommit(e) \/ DeleteCommit(e)
  PROVE  TypeOK'
<1>1. CASE CreateDir(e)
  <2>1. job' \in JobRecord /\ job'.op = "create" /\ job'.pc = "write" /\ job'.e = e
    BY <1>1 DEF CreateDir, IdleJob, JobRecord, AllOps
  <2>2. JobType' /\ PassType' /\ up' \in {"up", "down", "boot"} /\ counts' \in CountsRecord
    BY <1>1, <2>1, StartType DEF CreateDir, AllOps
  <2>3. StoresType' /\ HistoryType'
    BY <1>1 DEF CreateDir, TypeOK, StoresType, HistoryType, Content
  <2> QED BY <2>2, <2>3 DEF TypeOK
<1>2. CASE Update(e)
  <2>1. ver[e].meta + 1 \in Nat
    BY DEF TypeOK, HistoryType, Content
  <2>5. job' \in JobRecord /\ job'.op = "update" /\ job'.pc = "answer" /\ job'.e = e
    BY <1>2, <2>1 DEF Update, IdleJob, JobRecord, AllOps
  <2>2. JobType' /\ PassType' /\ up' \in {"up", "down", "boot"} /\ counts' \in CountsRecord
    BY <1>2, <2>5, StartType DEF Update, AllOps
  <2>3. StoresType'
    BY <1>2, <2>1 DEF Update, TypeOK, StoresType, RowRecord
  <2>4. HistoryType'
    BY <1>2, <2>1 DEF Update, TypeOK, HistoryType, Content
  <2> QED BY <2>2, <2>3, <2>4 DEF TypeOK
<1>3. CASE EditCommit(e)
  <2>1. ver[e].text + 1 \in Nat
    BY DEF TypeOK, HistoryType, Content
  <2>2. job' \in JobRecord /\ job'.op = "edit" /\ job'.pc = "getRow" /\ job'.e = e
    BY <1>3 DEF EditCommit, IdleJob, JobRecord, AllOps
  <2>3. JobType' /\ PassType' /\ up' \in {"up", "down", "boot"} /\ counts' \in CountsRecord
    BY <1>3, <2>2, StartType DEF EditCommit, AllOps
  <2>4. StoresType'
    BY <1>3, <2>1 DEF EditCommit, TypeOK, StoresType, RowRecord
  <2>5. HistoryType'
    BY <1>3, <2>1 DEF EditCommit, TypeOK, HistoryType, Content
  <2> QED BY <2>3, <2>4, <2>5 DEF TypeOK
<1>4. CASE DeleteCommit(e)
  <2>1. job' \in JobRecord /\ job'.op = "delete" /\ job'.pc = "removeDoc" /\ job'.e = e
    BY <1>4 DEF DeleteCommit, IdleJob, JobRecord, AllOps
  <2>2. JobType' /\ PassType' /\ up' \in {"up", "down", "boot"} /\ counts' \in CountsRecord
    BY <1>4, <2>1, StartType DEF DeleteCommit, AllOps
  <2>3. StoresType'
    <3>1. StoresType /\ DeleteRow(e)
      BY <1>4 DEF DeleteCommit, TypeOK
    <3> QED BY <1>4, <3>1, DropRow DEF DeleteCommit, StoresType
  <2>4. HistoryType'
    BY <1>4, LeavingType DEF DeleteCommit, TypeOK, HistoryType
  <2> QED BY <2>2, <2>3, <2>4 DEF TypeOK
<1> QED BY <1>1, <1>2, <1>3, <1>4

\* link.create keeps the types.
LEMMA LinkType ==
  ASSUME TypeOK, NEW a \in Entries, NEW b \in Entries, Link(a, b)
  PROVE  TypeOK'
<1>1. StoresType'
  BY DEF Link, TypeOK, StoresType
<1>2. HistoryType'
  BY DEF Link, TypeOK, HistoryType
<1>3. PassType'
  BY NoticeType DEF Link, TypeOK
<1>4. JobType'
  BY DEF Link, TypeOK, JobType, At
<1>5. counts' \in CountsRecord
  BY DEF Link, TypeOK, CountsRecord
<1> QED BY <1>1, <1>2, <1>3, <1>4, <1>5 DEF Link, TypeOK

\* Every step of a create keeps the types.
LEMMA CreateType ==
  ASSUME TypeOK,
         CreateWrite \/ CreateWriteFails \/ CreateAttach \/ CreateUndo
           \/ CreateInsert \/ CreateInsertFails
  PROVE  TypeOK'
<1> USE DEF TypeOK
<1>0. clock + 1 \in Nat
  BY DEF StoresType
<1>1. CASE CreateWrite
  <2>1. [text |-> 1, meta |-> 1, mtime |-> clock + 1, ok |-> TRUE] \in FileRecord
    BY <1>0 DEF FileRecord
  <2>2. StoresType'
    <3>1. job.e \in Entries /\ job.e \in dir
      BY <1>1 DEF CreateWrite, At, JobType
    <3>2. DOMAIN doc' = DOMAIN doc \union {job.e} /\ doc' \in [DOMAIN doc' -> FileRecord]
      BY <1>1, <2>1, <3>1, PutDoc DEF CreateWrite
    <3> QED BY <1>0, <1>1, <3>1, <3>2 DEF CreateWrite, StoresType
  <2>3. JobType'
    BY <1>1, GotoType DEF CreateWrite, JobType, At
  <2>4. PassType'
    BY <1>1, NoticeType DEF CreateWrite
  <2> QED BY <1>1, <2>2, <2>3, <2>4 DEF CreateWrite, history, HistoryType
<1>2. CASE CreateWriteFails
  BY <1>2, IdleTypes DEF CreateWriteFails, stores, history, StoresType, HistoryType, JobType,
     PassType, At
<1>3. CASE CreateAttach
  <2>1. JobType'
    BY <1>3, GotoType DEF CreateAttach, JobType, At
  <2> QED BY <1>3, <2>1 DEF CreateAttach, stores, history, StoresType, HistoryType, PassType
<1>4. CASE CreateUndo
  <2>1. StoresType'
    BY <1>4, DropDoc DEF CreateUndo, StoresType
  <2>2. JobType'
    BY <1>4, IdleTypes DEF CreateUndo, JobType, At
  <2>3. PassType'
    BY <1>4, NoticeType DEF CreateUndo
  <2> QED BY <1>4, <2>1, <2>2, <2>3 DEF CreateUndo, history, HistoryType
<1>5. CASE CreateInsert
  <2>1. MtimeOf(job.e) \in Nat
    BY MtimeType
  <2>2. job.e \in Entries
    BY <1>5 DEF CreateInsert, At, JobType
  <2>3. StoresType'
    <3>1. Insert(job.e, [text |-> 1, meta |-> 1], MtimeOf(job.e))
      BY <1>5 DEF CreateInsert
    <3>2. [text |-> 1, meta |-> 1] \in Content
      BY DEF Content
    <3>3. DOMAIN row' = DOMAIN row \union {job.e} /\ row' \in [DOMAIN row' -> RowRecord]
      BY <2>1, <2>2, <3>1, <3>2, PutRow
    <3> QED BY <1>5, <2>2, <3>3 DEF CreateInsert, StoresType
  <2>4. JobType'
    BY <1>5, GotoType DEF CreateInsert, JobType, At
  <2>5. PassType'
    BY <1>5, NoticeType DEF CreateInsert
  <2> QED BY <1>5, <2>3, <2>4, <2>5 DEF CreateInsert, history, HistoryType
<1>6. CASE CreateInsertFails
  BY <1>6, IdleTypes DEF CreateInsertFails, stores, history, StoresType, HistoryType, JobType,
     PassType, At
<1> QED BY <1>1, <1>2, <1>3, <1>4, <1>5, <1>6

\* Every step of a rerender keeps the types.
LEMMA RenderType ==
  ASSUME TypeOK,
         RenderGetRow \/ RenderGetBlocks \/ RenderWrite \/ RenderWriteFails
           \/ RenderStat \/ RenderStamp
  PROVE  TypeOK'
<1> USE DEF TypeOK
<1>1. CASE RenderGetRow
  <2>1. JobType'
    <3>1. CASE job.e \in DOMAIN row
      <4>1. row[job.e].meta \in Nat
        BY <3>1 DEF StoresType, RowRecord
      <4> QED BY <1>1, <3>1, <4>1 DEF RenderGetRow, JobType, JobRecord, At
    <3>2. CASE job.e \notin DOMAIN row
      BY <1>1, <3>2, IdleTypes DEF RenderGetRow, JobType, At
    <3> QED BY <3>1, <3>2
  <2> QED BY <1>1, <2>1 DEF RenderGetRow, stores, history, StoresType, HistoryType, PassType
<1>2. CASE RenderGetBlocks
  <2>1. (IF job.e \in DOMAIN row THEN row[job.e].text ELSE 0) \in Nat
    BY DEF StoresType, RowRecord
  <2>2. JobType'
    BY <1>2, <2>1 DEF RenderGetBlocks, JobType, JobRecord, At
  <2> QED BY <1>2, <2>2 DEF RenderGetBlocks, stores, history, StoresType, HistoryType, PassType
<1>3. CASE RenderWrite
  <2>1. clock + 1 \in Nat
    BY DEF StoresType
  <2>2. job.e \in Entries
    BY <1>3 DEF RenderWrite, At, JobType
  <2>3. [text |-> job.text, meta |-> job.meta, mtime |-> clock + 1, ok |-> TRUE] \in FileRecord
    BY <2>1 DEF FileRecord, JobType, JobRecord
  <2>4. DOMAIN doc' = DOMAIN doc \union {job.e} /\ doc' \in [DOMAIN doc' -> FileRecord]
    BY <1>3, <2>2, <2>3, PutDoc DEF RenderWrite
  <2>5. StoresType'
    BY <1>3, <2>1, <2>2, <2>4 DEF RenderWrite, StoresType
  <2>6. JobType'
    BY <1>3, GotoType DEF RenderWrite, JobType, At
  <2>7. PassType'
    BY <1>3, NoticeType DEF RenderWrite
  <2> QED BY <1>3, <2>5, <2>6, <2>7 DEF RenderWrite, history, HistoryType
<1>4. CASE RenderWriteFails
  BY <1>4, IdleTypes DEF RenderWriteFails, stores, history, StoresType, HistoryType, JobType,
     PassType, At
<1>5. CASE RenderStat
  <2>1. JobType'
    <3>1. CASE job.e \in DOMAIN doc
      <4>1. doc[job.e].mtime \in Nat
        BY <3>1 DEF StoresType, FileRecord
      <4> QED BY <1>5, <3>1, <4>1 DEF RenderStat, JobType, JobRecord, At
    <3>2. CASE job.e \notin DOMAIN doc
      BY <1>5, <3>2, IdleTypes DEF RenderStat, JobType, At
    <3> QED BY <3>1, <3>2
  <2> QED BY <1>5, <2>1 DEF RenderStat, stores, history, StoresType, HistoryType, PassType
<1>6. CASE RenderStamp
  <2>1. job.mtime \in Nat
    BY DEF JobType, JobRecord
  <2>2. StoresType'
    BY <1>6, <2>1 DEF RenderStamp, StoresType, RowRecord
  <2>3. JobType'
    BY <1>6, GotoType DEF RenderStamp, JobType, At
  <2>4. PassType'
    BY <1>6, NoticeType DEF RenderStamp
  <2> QED BY <1>6, <2>2, <2>3, <2>4 DEF RenderStamp, history, HistoryType
<1> QED BY <1>1, <1>2, <1>3, <1>4, <1>5, <1>6

\* Every step of a delete keeps the types, and so does an answer.
LEMMA DeleteType ==
  ASSUME TypeOK, RemoveDoc \/ RemoveDir \/ Answer
  PROVE  TypeOK'
<1> USE DEF TypeOK
<1>1. CASE RemoveDoc
  <2>1. PassType'
    BY <1>1, NoticeType DEF RemoveDoc
  <2>2. CASE doc' = Drop(doc, job.e) /\ Goto("removeDir")
    <3>1. StoresType'
      BY <1>1, <2>2, DropDoc DEF RemoveDoc, StoresType
    <3>2. JobType'
      BY <1>1, <2>2, GotoType, DropDoc DEF RemoveDoc, JobType, At
    <3> QED BY <1>1, <2>1, <3>1, <3>2 DEF RemoveDoc, history, HistoryType
  <2>3. CASE job' = IdleJob /\ UNCHANGED doc
    BY <1>1, <2>1, <2>3, IdleTypes DEF RemoveDoc, history, StoresType, HistoryType, JobType, At
  <2> QED BY <1>1, <2>2, <2>3 DEF RemoveDoc
<1>2. CASE RemoveDir
  <2>1. StoresType'
    BY <1>2 DEF RemoveDir, StoresType, JobType
  <2>2. JobType'
    BY <1>2, GotoType DEF RemoveDir, JobType, At
  <2>3. PassType'
    BY <1>2, NoticeType DEF RemoveDir
  <2> QED BY <1>2, <2>1, <2>2, <2>3 DEF RemoveDir, history, HistoryType
<1>3. CASE Answer
  <2>1. Told \in OwedRecord
    <3>1. job.e \in Entries /\ job.op \in {"create", "update", "edit", "delete"}
      BY <1>3 DEF Answer, JobType
    <3>2. owed.entry[job.e] \in OwedRecord /\ ver[job.e].text \in Nat /\ job.meta \in Nat
      BY <3>1 DEF HistoryType, Content, JobType, JobRecord
    <3>3. CASE job.op = "create"
      BY <3>2, <3>3 DEF Told, OwedRecord
    <3>4. CASE job.op = "update"
      BY <3>2, <3>4 DEF Told, OwedRecord
    <3>5. CASE job.op = "edit"
      BY <3>2, <3>5 DEF Told, OwedRecord
    <3>6. CASE job.op = "delete"
      BY <3>2, <3>6 DEF Told, OwedRecord
    <3> QED BY <3>1, <3>3, <3>4, <3>5, <3>6
  <2>2. HistoryType'
    BY <1>3, <2>1 DEF Answer, HistoryType
  <2>3. JobType'
    BY <1>3, IdleTypes DEF Answer, JobType, At
  <2> QED BY <1>3, <2>2, <2>3 DEF Answer, stores, StoresType, PassType
<1> QED BY <1>1, <1>2, <1>3

-----------------------------------------------------------------------------
(* Type correctness of the passes and of the world. *)

\* What the record of a pass must satisfy.
LEMMA PassFacts ==
  ASSUME TypeOK, NEW p \in Passes
  PROVE  /\ pass[p] \in PassRecord
         /\ pass[p].op \in {"none", "sync", "rebuild"}
         /\ pass[p].todo \subseteq Entries /\ pass[p].seen \subseteq Entries
         /\ pass[p].snap \subseteq Entries \X Nat
         /\ pass[p].e \in Entries \union {NoEntry} /\ pass[p].got \in Content
         /\ pass[p].alone \in BOOLEAN /\ pass[p].ok \in BOOLEAN
         /\ pass[p].pc \in {"read", "replace", "orphan"} => pass[p].e \in Entries
<1>1. pass[p] \in PassRecord
  BY DEF TypeOK, PassType
<1>2. pass[p].pc \in {"read", "replace", "orphan"} => pass[p].e \in Entries
  BY DEF TypeOK, PassType
<1> QED BY <1>1, <1>2 DEF PassRecord

\* A step of a pass that leaves the stores alone.
LEMMA QuietType ==
  ASSUME TypeOK, NEW p \in Passes, NEW r \in PassRecord,
         r.pc \in {"read", "replace", "orphan"} => r.e \in Entries,
         r.pc = "idle" => r = IdlePass,
         Become(p, r), UnchangedByPass, UNCHANGED <<row, links>>,
         up' \in {"up", "down", "boot"}, counts' \in CountsRecord
  PROVE  TypeOK'
<1>1. PassType'
  BY BecomeType DEF TypeOK
<1>2. StoresType' /\ JobType' /\ HistoryType'
  BY DEF TypeOK, UnchangedByPass, StoresType, JobType, HistoryType, At
<1> QED BY <1>1, <1>2 DEF TypeOK

\* A step of a pass that changes the index.
LEMMA StoringType ==
  ASSUME TypeOK, NEW p \in Passes, NEW r \in PassRecord,
         r.pc \in {"read", "replace", "orphan"} => r.e \in Entries,
         r.pc # "idle",
         Store(p, r), UnchangedByPass, UNCHANGED <<up, counts>>,
         DOMAIN row' \subseteq Entries, row' \in [DOMAIN row' -> RowRecord],
         links' \subseteq links
  PROVE  TypeOK'
<1>1. PassType'
  BY StoreType DEF TypeOK
<1>2. StoresType' /\ JobType' /\ HistoryType'
  BY DEF TypeOK, UnchangedByPass, StoresType, JobType, HistoryType, At
<1> QED BY <1>1, <1>2 DEF TypeOK

\* A pass starts with a typed record.
LEMMA BeginType ==
  ASSUME NEW op \in {"sync", "rebuild"}
  PROVE  /\ Begin(op) \in PassRecord /\ Begin(op).op = op
         /\ Begin(op).pc = IF op = "sync" THEN "scan" ELSE "wipe"
         /\ Begin(op).todo = {} /\ Begin(op).snap = {}
BY DEF Begin, IdlePass, PassRecord, Blank, Content

\* The steps of a pass that only read the stores, or end it.
LEMMA ReadingType ==
  ASSUME TypeOK, NEW p \in Passes,
         \/ Scan(p) \/ Snapshot(p) \/ Read(p) \/ ReadFails(p) \/ WalkDone(p)
         \/ SweepDone(p) \/ PassEnd(p)
         \/ \E e \in Entries : VisitSkips(p, e) \/ VisitReindexes(p, e) \/ VisitOrphan(p, e)
  PROVE  TypeOK'
<1> DEFINE q == pass[p]
<1>0. PICK r : /\ Become(p, r) /\ r \in PassRecord
               /\ r.pc \in {"read", "replace", "orphan"} => r.e \in Entries
               /\ r.pc = "idle" => r = IdlePass
  <2>1. CASE Scan(p)
    <3>1. dir \subseteq Entries
      BY DEF TypeOK, StoresType
    <3>2. ASSUME NEW pc \in {"snapshot", "walk"}
          PROVE  [q EXCEPT !.todo = dir, !.seen = dir, !.pc = pc] \in PassRecord
                 /\ [q EXCEPT !.todo = dir, !.seen = dir, !.pc = pc].pc = pc
      BY <3>1, PassFacts DEF PassRecord
    <3>3. PICK pc \in {"snapshot", "walk"} :
            Become(p, [q EXCEPT !.todo = dir, !.seen = dir, !.pc = pc])
      BY <2>1 DEF Scan
    <3> QED BY <3>2, <3>3
  <2>2. CASE Snapshot(p)
    <3>1. {<<e, row[e].mtime>> : e \in DOMAIN row} \subseteq Entries \X Nat
      BY DEF TypeOK, StoresType, RowRecord
    <3>2. [q EXCEPT !.snap = {<<e, row[e].mtime>> : e \in DOMAIN row}, !.pc = "walk"]
            \in PassRecord
          /\ [q EXCEPT !.snap = {<<e, row[e].mtime>> : e \in DOMAIN row}, !.pc = "walk"].pc
               = "walk"
      BY <3>1, PassFacts DEF PassRecord
    <3>3. Become(p, [q EXCEPT !.snap = {<<e, row[e].mtime>> : e \in DOMAIN row}, !.pc = "walk"])
      BY <2>2 DEF Snapshot
    <3> QED BY <3>2, <3>3
  <2>3. CASE Read(p)
    <3>1. q.e \in DOMAIN doc /\ q.pc = "read" /\ q.e \in Entries
      BY <2>3, PassFacts DEF Read, Readable, In
    <3>2. [text |-> doc[q.e].text, meta |-> doc[q.e].meta] \in Content
      BY <3>1 DEF TypeOK, StoresType, FileRecord, Content
    <3>3. ASSUME NEW got \in Content
          PROVE  /\ [q EXCEPT !.pc = "replace", !.got = got] \in PassRecord
                 /\ [q EXCEPT !.pc = "replace", !.got = got].pc = "replace"
                 /\ [q EXCEPT !.pc = "replace", !.got = got].e = q.e
      BY PassFacts DEF PassRecord
    <3>4. Become(p, [q EXCEPT !.pc = "replace",
                       !.got = [text |-> doc[q.e].text, meta |-> doc[q.e].meta]])
      BY <2>3 DEF Read
    <3> QED BY <3>1, <3>2, <3>3, <3>4
  <2>4. CASE ReadFails(p)
    <3>1. /\ [q EXCEPT !.pc = "walk"] \in PassRecord /\ [q EXCEPT !.pc = "walk"].pc = "walk"
          /\ [q EXCEPT !.pc = "done", !.ok = FALSE] \in PassRecord
          /\ [q EXCEPT !.pc = "done", !.ok = FALSE].pc = "done"
      BY PassFacts DEF PassRecord
    <3>2. \/ Become(p, [q EXCEPT !.pc = "walk"])
          \/ Become(p, [q EXCEPT !.pc = "done", !.ok = FALSE])
      BY <2>4 DEF ReadFails
    <3> QED BY <3>1, <3>2
  <2>5. CASE WalkDone(p)
    <3>1. Ids(q.snap) \ q.seen \subseteq Entries
      BY PassFacts DEF Ids
    <3>2. /\ [q EXCEPT !.pc = "done"] \in PassRecord /\ [q EXCEPT !.pc = "done"].pc = "done"
          /\ [q EXCEPT !.pc = "sweep", !.todo = Ids(q.snap) \ q.seen] \in PassRecord
          /\ [q EXCEPT !.pc = "sweep", !.todo = Ids(q.snap) \ q.seen].pc = "sweep"
      BY <3>1, PassFacts DEF PassRecord
    <3>3. \/ Become(p, [q EXCEPT !.pc = "done"])
          \/ Become(p, [q EXCEPT !.pc = "sweep", !.todo = Ids(q.snap) \ q.seen])
      BY <2>5 DEF WalkDone
    <3> QED BY <3>2, <3>3
  <2>6. CASE SweepDone(p)
    BY <2>6, PassFacts DEF SweepDone, PassRecord
  <2>7. CASE PassEnd(p)
    BY <2>7, IdleTypes DEF PassEnd
  <2>8. CASE \E e \in Entries : VisitSkips(p, e) \/ VisitReindexes(p, e) \/ VisitOrphan(p, e)
    <3>1. PICK e \in Entries, pc \in {"walk", "read", "orphan"} : Visit(p, e, pc)
      BY <2>8 DEF VisitSkips, VisitReindexes, VisitOrphan
    <3>2. /\ [q EXCEPT !.todo = q.todo \ {e}, !.e = e, !.pc = pc] \in PassRecord
          /\ [q EXCEPT !.todo = q.todo \ {e}, !.e = e, !.pc = pc].pc = pc
          /\ [q EXCEPT !.todo = q.todo \ {e}, !.e = e, !.pc = pc].e = e
      BY PassFacts DEF PassRecord
    <3>3. Become(p, [q EXCEPT !.todo = q.todo \ {e}, !.e = e, !.pc = pc])
      BY <3>1 DEF Visit
    <3> QED BY <3>2, <3>3
  <2> QED BY <2>1, <2>2, <2>3, <2>4, <2>5, <2>6, <2>7, <2>8
<1>1. UnchangedByPass /\ UNCHANGED <<row, links, counts>> /\ up' \in {"up", up}
  BY DEF Scan, Snapshot, Read, ReadFails, WalkDone, SweepDone, PassEnd, VisitSkips,
         VisitReindexes, VisitOrphan, Visit, Unstored
<1>2. up' \in {"up", "down", "boot"} /\ counts' \in CountsRecord
  BY <1>1 DEF TypeOK
<1> QED BY <1>0, <1>1, <1>2, QuietType

\* The steps of a pass that change the index.
LEMMA WritingType ==
  ASSUME TypeOK, NEW p \in Passes,
         Wipe(p) \/ Replace(p) \/ DropOrphan(p) \/ \E e \in Entries : Sweep(p, e)
  PROVE  TypeOK'
<1> DEFINE q == pass[p]
<1>0. StoresType
  BY DEF TypeOK
<1>1. CASE Wipe(p)
  <2>1. DOMAIN row' \subseteq Entries /\ row' \in [DOMAIN row' -> RowRecord] /\ links' \subseteq links
    BY <1>1 DEF Wipe, Nothing
  <2>2. [q EXCEPT !.pc = "scan"] \in PassRecord /\ [q EXCEPT !.pc = "scan"].pc = "scan"
    BY PassFacts DEF PassRecord
  <2> QED BY <1>1, <2>1, <2>2, StoringType DEF Wipe
<1>2. CASE Replace(p)
  <2>1. q.e \in Entries /\ q.got \in Content /\ MtimeOf(q.e) \in Nat
    BY <1>0, <1>2, PassFacts, MtimeType DEF Replace, In
  <2>2. Insert(q.e, q.got, MtimeOf(q.e))
    BY <1>2 DEF Replace
  <2>3. DOMAIN row' = DOMAIN row \union {q.e} /\ row' \in [DOMAIN row' -> RowRecord]
    BY <1>0, <2>1, <2>2, PutRow
  <2>4. DOMAIN row' \subseteq Entries /\ links' \subseteq links
    BY <1>0, <1>2, <2>1, <2>3 DEF Replace, StoresType
  <2>5. [q EXCEPT !.pc = "walk", !.got = Blank] \in PassRecord
        /\ [q EXCEPT !.pc = "walk", !.got = Blank].pc = "walk"
    BY PassFacts DEF PassRecord, Blank, Content
  <2> QED BY <1>2, <2>3, <2>4, <2>5, StoringType DEF Replace
<1>3. CASE DropOrphan(p)
  <2>1. DeleteRow(q.e)
    BY <1>3 DEF DropOrphan
  <2>2. DOMAIN row' = DOMAIN row \ {q.e} /\ row' \in [DOMAIN row' -> RowRecord]
        /\ links' \subseteq links
    BY <1>0, <2>1, DropRow
  <2>3. DOMAIN row' \subseteq Entries
    BY <1>0, <2>2 DEF StoresType
  <2>4. [q EXCEPT !.pc = "walk"] \in PassRecord /\ [q EXCEPT !.pc = "walk"].pc = "walk"
    BY PassFacts DEF PassRecord
  <2> QED BY <1>3, <2>2, <2>3, <2>4, StoringType DEF DropOrphan
<1>4. CASE \E e \in Entries : Sweep(p, e)
  <2>1. PICK e \in Entries : Sweep(p, e)
    BY <1>4
  <2>2. DeleteRow(e)
    BY <2>1 DEF Sweep
  <2>3. DOMAIN row' = DOMAIN row \ {e} /\ row' \in [DOMAIN row' -> RowRecord]
        /\ links' \subseteq links
    BY <1>0, <2>2, DropRow
  <2>4. DOMAIN row' \subseteq Entries
    BY <1>0, <2>3 DEF StoresType
  <2>5. [q EXCEPT !.todo = q.todo \ {e}] \in PassRecord
        /\ [q EXCEPT !.todo = q.todo \ {e}].pc = "sweep"
    BY <2>1, PassFacts DEF PassRecord, Sweep, In
  <2> QED BY <2>1, <2>3, <2>4, <2>5, StoringType DEF Sweep
<1> QED BY <1>1, <1>2, <1>3, <1>4

\* Starting a pass keeps the types.
LEMMA PassStartType ==
  ASSUME TypeOK, NEW p \in Passes, NEW op \in PassOps, PassStart(p, op)
  PROVE  TypeOK'
<1>1. op \in {"sync", "rebuild"}
  BY ConstantsAssumption
<1>2. counts' \in CountsRecord
  BY DEF PassStart, TypeOK, CountsRecord
<1>3. Begin(op).pc # "idle" /\ Begin(op).pc \notin {"read", "replace", "orphan"}
      /\ Begin(op) \in PassRecord
  BY <1>1, BeginType
<1>4. up' \in {"up", "down", "boot"}
  BY DEF PassStart, TypeOK
<1> QED BY <1>2, <1>3, <1>4, QuietType DEF PassStart

\* A crash, a restart and a change from outside keep the types.
LEMMA WorldType ==
  ASSUME TypeOK, World
  PROVE  TypeOK'
<1>1. CASE Crash
  <2>1. counts' \in CountsRecord
    BY <1>1 DEF Crash, TypeOK, CountsRecord
  <2>2. PassType' /\ JobType'
    BY <1>1, IdleTypes DEF Crash, PassType, JobType, At
  <2> QED BY <1>1, <2>1, <2>2 DEF Crash, TypeOK, stores, history, StoresType, HistoryType
<1>2. ASSUME NEW p \in Passes, Restart(p) PROVE TypeOK'
  <2>1. Begin("sync") \in PassRecord /\ Begin("sync").pc = "scan"
    BY BeginType
  <2>2. PassType'
    BY <1>2, <2>1, BecomeType DEF Restart, TypeOK
  <2> QED BY <1>2, <2>2 DEF Restart, TypeOK, stores, history, StoresType, HistoryType, JobType, At
<1>3. ASSUME NEW kind \in Outside, OutsideChange(kind) \/ OutsideChange("remove")
      PROVE  PassType' /\ counts' \in CountsRecord
  BY <1>3, NoticeType DEF OutsideChange, TypeOK, CountsRecord
<1>4. ASSUME NEW e \in Entries, NEW kind \in Outside, OutsideWrite(kind, e) PROVE TypeOK'
  <2>1. PassType' /\ counts' \in CountsRecord
    BY <1>3, <1>4 DEF OutsideWrite
  <2>2. ver[e].text + 1 \in Nat /\ ver[e].meta + 1 \in Nat /\ clock + 1 \in Nat
    BY DEF TypeOK, HistoryType, StoresType, Content
  <2>3. StoresType'
    BY <1>4, <2>2 DEF OutsideWrite, TypeOK, StoresType, FileRecord
  <2>4. HistoryType'
    BY <1>4, <2>2 DEF OutsideWrite, TypeOK, HistoryType, Content
  <2>5. JobType'
    BY <1>4 DEF OutsideWrite, TypeOK, JobType, At
  <2> QED BY <1>4, <2>1, <2>3, <2>4, <2>5 DEF OutsideWrite, TypeOK
<1>5. ASSUME NEW e \in Entries, OutsideRemove(e) PROVE TypeOK'
  <2>1. PassType' /\ counts' \in CountsRecord
    BY <1>5, NoticeType DEF OutsideRemove, OutsideChange, TypeOK, CountsRecord
  <2>2. StoresType'
    BY <1>5, DropDoc DEF OutsideRemove, TypeOK, StoresType
  <2>3. HistoryType'
    BY <1>5, LeavingType DEF OutsideRemove, TypeOK, HistoryType
  <2>4. JobType'
    BY <1>5, DropDoc DEF OutsideRemove, TypeOK, JobType, At
  <2> QED BY <1>5, <2>1, <2>2, <2>3, <2>4 DEF OutsideRemove, TypeOK
<1> QED BY <1>1, <1>2, <1>4, <1>5 DEF World

\* Every step keeps the types.
LEMMA NextType ==
  ASSUME TypeOK, [Next]_vars
  PROVE  TypeOK'
<1>1. CASE NewCall
  BY <1>1, CallType, LinkType DEF NewCall
<1>2. CASE JobStep
  BY <1>2, CreateType, RenderType, DeleteType DEF JobStep
<1>3. CASE World
  BY <1>3, WorldType
<1>4. ASSUME NEW p \in Passes, PassStep(p) PROVE TypeOK'
  BY <1>4, ReadingType, WritingType DEF PassStep
<1>5. ASSUME NEW p \in Passes, NEW op \in PassOps, PassStart(p, op) PROVE TypeOK'
  BY <1>5, PassStartType
<1>6. CASE UNCHANGED vars
  BY <1>6 DEF vars, TypeOK, StoresType, JobType, PassType, HistoryType, At
<1> QED BY <1>1, <1>2, <1>3, <1>4, <1>5, <1>6 DEF Next

\* The stores, the handler, the passes and what clients were told keep their
\* types through every interleaving, failure, crash and outside change.
THEOREM TypeCorrect == Spec => []TypeOK
<1>1. Init => TypeOK
  BY InitType
<1>2. TypeOK /\ [Next]_vars => TypeOK'
  BY NextType
<1> QED BY <1>1, <1>2, PTL DEF Spec

-----------------------------------------------------------------------------
(* KeptInv is an inductive invariant: when clients call no index RPC beside  *)
(* other calls and nobody else touches the files, whatever was answered is   *)
(* kept across failing steps, syncs and crashes.                             *)

Kept == OneActor /\ StoresOK /\ StaleOK /\ JobOK /\ PassOK /\ FatesOK
Quiet == \A p \in Passes : ~Active(p)

-----------------------------------------------------------------------------
(* The parts of the invariant that a step of the other actor cannot disturb. *)

\* The numbers in the stores and in what clients were told.
LEMMA Numbers ==
  ASSUME TypeOK
  PROVE  /\ dir \subseteq Entries /\ DOMAIN doc \subseteq dir /\ DOMAIN row \subseteq Entries
         /\ \A e \in DOMAIN doc : doc[e].text \in Nat /\ doc[e].meta \in Nat /\ doc[e].mtime \in Nat
         /\ \A e \in DOMAIN row : row[e].text \in Nat /\ row[e].meta \in Nat /\ row[e].mtime \in Nat
         /\ \A e \in Entries : ver[e].text \in Nat /\ ver[e].meta \in Nat
         /\ \A e \in Entries : owed.entry[e].text \in Nat /\ owed.entry[e].meta \in Nat
         /\ job.text \in Nat /\ job.meta \in Nat /\ job.mtime \in Nat /\ clock \in Nat
         /\ job.pc # "idle" => job.e \in Entries
BY DEF TypeOK, StoresType, HistoryType, JobType, JobRecord, FileRecord, RowRecord, Content,
       OwedRecord

\* While every pass is idle there is nobody to notice a change.
LEMMA QuietSeen ==
  ASSUME TypeOK, Quiet, NEW q
  PROVE  Seen(q) = pass
BY DEF TypeOK, PassType, Quiet, Active, Seen

\* A pass that runs alone has nobody else to notice it.
LEMMA AloneStore ==
  ASSUME TypeOK, OneActor, NEW p \in Passes, Active(p), NEW r, Store(p, r)
  PROVE  Become(p, r)
BY DEF TypeOK, PassType, OneActor, Active, Seen, Store, Become

\* While a handler runs, or may start, no pass runs and the daemon is up.
LEMMA HandlerAlone ==
  ASSUME TypeOK, Kept, SerialUse, \/ job.pc # "idle"
                                  \/ \E op \in AllOps : Startable(op)
  PROVE  Quiet /\ up = "up" /\ Seen(NoEntry) = pass
<1>1. Quiet /\ up = "up"
  BY DEF TypeOK, Kept, OneActor, Quiet, Active, SerialUse, Startable
<1> QED BY <1>1, QuietSeen

\* What a handler's step keeps: it is the one actor, and no pass runs.
LEMMA HandlerKeeps ==
  ASSUME Quiet, up = "up", UNCHANGED <<up, pass>>
  PROVE  OneActor' /\ PassOK' /\ Quiet'
BY DEF Quiet, Active, OneActor, PassOK

\* With the daemon up and no pass running, only a rerender's entry is stale.
LEMMA StaleUp ==
  ASSUME TypeOK, Kept, up = "up", NEW e \in DOMAIN row, row[e].mtime # doc[e].mtime
  PROVE  SameContent(e) /\ job.e = e /\ (At("edit", "stat") \/ At("edit", "stamp"))
<1>1. e \in Entries
  BY Numbers
<1> QED BY <1>1 DEF Kept, StaleOK, Stale

\* No handler runs: what is said of one holds.
LEMMA IdleJobOK == ASSUME job.pc = "idle" PROVE JobOK
BY DEF JobOK, CreateOK, EditOK, UpdateOK, DeleteOK, At

-----------------------------------------------------------------------------
(* Handlers. *)

\* The first step of a create.
LEMMA CreateDirKept ==
  ASSUME TypeOK, Kept, SerialUse, NEW e \in Entries, CreateDir(e)
  PROVE  Kept'
<1>1. Quiet /\ up = "up" /\ pass' = pass /\ up' = up
  BY HandlerAlone DEF CreateDir, AllOps
<1>2. job.pc = "idle" /\ ver[e].text = 0 /\ dir' = dir \union {e} /\ UNCHANGED <<doc, row, owed>>
  BY DEF CreateDir, Startable
<1>3. job'.op = "create" /\ job'.pc = "write" /\ job'.e = e
  BY DEF CreateDir, IdleJob
<1>4. /\ ver'[e].text = 1 /\ ver'[e].meta = 1
      /\ \A x \in Entries : x # e => ver'[x] = ver[x]
  BY DEF CreateDir, TypeOK, HistoryType
<1>5. e \notin dir /\ e \notin DOMAIN doc /\ e \notin DOMAIN row /\ owed.entry[e].fate = "none"
  BY <1>2, Numbers DEF Kept, StoresOK, FatesOK
<1>6. OneActor' /\ PassOK'
  BY <1>1, HandlerKeeps
<1>7. StoresOK'
  BY <1>2, <1>4, <1>5, Numbers DEF Kept, StoresOK
<1>8. StaleOK'
  BY <1>1, <1>2, StaleUp, Numbers DEF StaleOK, Stale, At
<1>9. JobOK'
  BY <1>2, <1>3, <1>4, <1>5 DEF JobOK, CreateOK, EditOK, UpdateOK, DeleteOK, At
<1>10. FatesOK'
  BY <1>2, <1>4, <1>5, Numbers DEF Kept, FatesOK, Live
<1> QED BY <1>6, <1>7, <1>8, <1>9, <1>10 DEF Kept

\* entry.update.
LEMMA UpdateKept ==
  ASSUME TypeOK, Kept, SerialUse, NEW e \in Entries, Update(e)
  PROVE  Kept'
<1>1. Quiet /\ up = "up" /\ pass' = pass /\ up' = up
  BY HandlerAlone DEF Update, AllOps
<1>2. job.pc = "idle" /\ e \in DOMAIN row /\ UNCHANGED <<dir, doc, owed>>
  BY DEF Update, Startable
<1>3. /\ job'.op = "update" /\ job'.pc = "answer" /\ job'.e = e /\ job'.meta = ver[e].meta + 1
  BY DEF Update, IdleJob
<1>4. /\ ver'[e].text = ver[e].text /\ ver'[e].meta = ver[e].meta + 1
      /\ \A x \in Entries : x # e => ver'[x] = ver[x]
  BY DEF Update, TypeOK, HistoryType, Content
<1>5. /\ DOMAIN row' = DOMAIN row
      /\ row'[e].text = row[e].text /\ row'[e].meta = ver[e].meta + 1
      /\ row'[e].mtime = row[e].mtime
      /\ \A x \in DOMAIN row : x # e => row'[x] = row[x]
  BY <1>2 DEF Update, TypeOK, StoresType, RowRecord
<1>6. OneActor' /\ PassOK'
  BY <1>1, HandlerKeeps
<1>7. StoresOK'
  BY <1>2, <1>4, <1>5, Numbers DEF Kept, StoresOK
<1>8. StaleOK'
  BY <1>1, <1>2, <1>5, StaleUp, Numbers DEF StaleOK, Stale, At
<1>9. JobOK'
  BY <1>2, <1>3, <1>5, Numbers DEF JobOK, CreateOK, EditOK, UpdateOK, DeleteOK, At
<1>10. FatesOK'
  BY <1>2, <1>4, <1>5, Numbers DEF Kept, StoresOK, FatesOK, Live
<1> QED BY <1>6, <1>7, <1>8, <1>9, <1>10 DEF Kept

\* The first step of a block mutation.
LEMMA EditCommitKept ==
  ASSUME TypeOK, Kept, SerialUse, NEW e \in Entries, EditCommit(e)
  PROVE  Kept'
<1>1. Quiet /\ up = "up" /\ pass' = pass /\ up' = up
  BY HandlerAlone DEF EditCommit, AllOps
<1>2. job.pc = "idle" /\ e \in DOMAIN row /\ UNCHANGED <<dir, doc, owed>>
  BY DEF EditCommit, Startable
<1>3. job'.op = "edit" /\ job'.pc = "getRow" /\ job'.e = e
  BY DEF EditCommit, IdleJob
<1>4. /\ ver'[e].text = ver[e].text + 1 /\ ver'[e].meta = ver[e].meta
      /\ \A x \in Entries : x # e => ver'[x] = ver[x]
  BY DEF EditCommit, TypeOK, HistoryType, Content
<1>5. /\ DOMAIN row' = DOMAIN row
      /\ row'[e].text = ver[e].text + 1 /\ row'[e].meta = row[e].meta
      /\ row'[e].mtime = row[e].mtime
      /\ \A x \in DOMAIN row : x # e => row'[x] = row[x]
  BY <1>2 DEF EditCommit, TypeOK, StoresType, RowRecord
<1>6. OneActor' /\ PassOK'
  BY <1>1, HandlerKeeps
<1>7. StoresOK'
  BY <1>2, <1>4, <1>5, Numbers DEF Kept, StoresOK
<1>8. StaleOK'
  BY <1>1, <1>2, <1>5, StaleUp, Numbers DEF StaleOK, Stale, At
<1>9. JobOK'
  BY <1>2, <1>3, <1>4, <1>5 DEF JobOK, CreateOK, EditOK, UpdateOK, DeleteOK, At
<1>10. FatesOK'
  BY <1>2, <1>4, <1>5, Numbers DEF Kept, StoresOK, FatesOK, Live
<1> QED BY <1>6, <1>7, <1>8, <1>9, <1>10 DEF Kept

\* The first step of a delete.
LEMMA DeleteCommitKept ==
  ASSUME TypeOK, Kept, SerialUse, NEW e \in Entries, DeleteCommit(e)
  PROVE  Kept'
<1>1. Quiet /\ up = "up" /\ pass' = pass /\ up' = up
  BY HandlerAlone DEF DeleteCommit, AllOps
<1>2. job.pc = "idle" /\ e \in DOMAIN row /\ UNCHANGED <<dir, doc, ver>> /\ DeleteRow(e)
  BY DEF DeleteCommit, Startable
<1>3. job'.op = "delete" /\ job'.pc = "removeDoc" /\ job'.e = e
  BY DEF DeleteCommit, IdleJob
<1>4. /\ owed'.entry[e].fate = "leaving"
      /\ \A x \in Entries : x # e => owed'.entry[x] = owed.entry[x]
  BY DEF DeleteCommit, Leaving, TypeOK, HistoryType, OwedRecord
<1>5. DOMAIN row' = DOMAIN row \ {e} /\ \A x \in DOMAIN row' : row'[x] = row[x]
  BY <1>2, DropRow DEF TypeOK
<1>6. OneActor' /\ PassOK'
  BY <1>1, HandlerKeeps
<1>7. StoresOK'
  BY <1>2, <1>5, Numbers DEF Kept, StoresOK
<1>8. StaleOK'
  BY <1>1, <1>2, <1>5, StaleUp, Numbers DEF StaleOK, Stale, At
<1>11. e \in dir /\ ver[e].text > 0
  BY <1>2, Numbers DEF Kept, StoresOK
<1>9. JobOK'
  BY <1>2, <1>3, <1>4, <1>5, <1>11 DEF JobOK, CreateOK, EditOK, UpdateOK, DeleteOK, At
<1>10. FatesOK'
  BY <1>2, <1>4, <1>5, <1>11, Numbers DEF Kept, FatesOK, Live
<1> QED BY <1>6, <1>7, <1>8, <1>9, <1>10 DEF Kept

\* link.create, beside a handler or alone.
LEMMA LinkKept ==
  ASSUME TypeOK, Kept, SerialUse, NEW a \in Entries, NEW b \in Entries, Link(a, b)
  PROVE  Kept'
<1>1. Quiet
  BY DEF Link, SerialUse, TypeOK, Quiet, Active
<1>2. UNCHANGED <<dir, doc, row, up, job, pass, ver>> /\ owed'.entry = owed.entry
  BY <1>1, QuietSeen DEF Link, TypeOK, HistoryType
<1>3. OneActor' /\ PassOK'
  BY <1>1, <1>2 DEF Kept, Quiet, Active, OneActor, PassOK
<1>4. StoresOK' /\ StaleOK'
  BY <1>1, <1>2 DEF Kept, Quiet, Active, StoresOK, StaleOK, Stale, SameContent, At
<1>5. JobOK' /\ FatesOK'
  BY <1>2 DEF Kept, JobOK, CreateOK, EditOK, UpdateOK, DeleteOK, FatesOK, Live, SameContent, At
<1> QED BY <1>3, <1>4, <1>5 DEF Kept

\* The later steps of a create.
LEMMA CreateKept ==
  ASSUME TypeOK, Kept, SerialUse,
         CreateWrite \/ CreateWriteFails \/ CreateAttach \/ CreateUndo
           \/ CreateInsert \/ CreateInsertFails
  PROVE  Kept'
<1> DEFINE e == job.e
<1>1. job.op = "create" /\ job.pc # "idle" /\ e \in Entries /\ up' = up /\ UNCHANGED <<ver, owed>>
  BY Numbers DEF CreateWrite, CreateWriteFails, CreateAttach, CreateUndo, CreateInsert,
     CreateInsertFails, At, history
<1>2. Quiet /\ up = "up" /\ pass' = pass
  BY <1>1, HandlerAlone DEF CreateWrite, CreateWriteFails, CreateAttach, CreateUndo, CreateInsert,
     CreateInsertFails
<1>3. OneActor' /\ PassOK'
  BY <1>1, <1>2, HandlerKeeps
<1>4. \A x \in DOMAIN row : row[x].mtime = doc[x].mtime
  BY <1>1, <1>2, StaleUp DEF At
<1>5. owed.entry[e].fate = "none" /\ ver[e].text > 0 /\ ver[e].meta > 0
  BY <1>1 DEF Kept, JobOK, CreateOK
<1>6. CASE CreateWrite
  <2>1. job'.op = "create" /\ job'.pc = "attach" /\ job'.e = e /\ UNCHANGED <<dir, row>>
    BY <1>6, GotoType DEF CreateWrite, At, TypeOK
  <2>2. e \notin DOMAIN row /\ e \in dir
    BY <1>6 DEF CreateWrite, Kept, JobOK, CreateOK
  <2>3. /\ DOMAIN doc' = DOMAIN doc \union {e}
        /\ doc'[e] = [text |-> 1, meta |-> 1, mtime |-> clock + 1, ok |-> TRUE]
        /\ \A x \in DOMAIN doc : x # e => doc'[x] = doc[x]
    BY <1>6 DEF CreateWrite, Put
  <2>4. StoresOK'
    BY <1>1, <1>5, <2>1, <2>2, <2>3, Numbers DEF Kept, StoresOK
  <2>5. StaleOK'
    BY <1>4, <2>1, <2>2, <2>3 DEF Kept, StoresOK, StaleOK, Stale
  <2>6. JobOK'
    BY <1>1, <1>5, <2>1, <2>2, <2>3 DEF JobOK, CreateOK, EditOK, UpdateOK, DeleteOK, At
  <2>7. FatesOK'
    BY <1>1, <1>5, <2>1, <2>3 DEF Kept, FatesOK, Live
  <2> QED BY <1>3, <2>4, <2>5, <2>6, <2>7 DEF Kept
<1>7. CASE CreateWriteFails \/ CreateInsertFails
  <2>1. job'.pc = "idle" /\ UNCHANGED <<dir, doc, row>>
    BY <1>7, IdleTypes DEF CreateWriteFails, CreateInsertFails, stores
  <2>2. StoresOK' /\ FatesOK'
    BY <1>1, <2>1 DEF Kept, StoresOK, FatesOK, Live
  <2>3. StaleOK'
    BY <1>4, <2>1 DEF StaleOK, Stale
  <2>4. JobOK'
    BY <2>1 DEF JobOK, CreateOK, EditOK, UpdateOK, DeleteOK, At
  <2> QED BY <1>3, <2>2, <2>3, <2>4 DEF Kept
<1>8. CASE CreateAttach
  <2>1. /\ job'.op = "create" /\ job'.pc \in {"insert", "undo"} /\ job'.e = e
        /\ UNCHANGED <<dir, doc, row>> /\ job.pc = "attach"
    BY <1>8, GotoType DEF CreateAttach, At, TypeOK, stores
  <2>2. StoresOK' /\ FatesOK'
    BY <1>1, <2>1 DEF Kept, StoresOK, FatesOK, Live
  <2>3. StaleOK'
    BY <1>4, <2>1 DEF StaleOK, Stale
  <2>4. JobOK'
    BY <1>1, <2>1 DEF Kept, JobOK, CreateOK, EditOK, UpdateOK, DeleteOK, At
  <2> QED BY <1>3, <2>2, <2>3, <2>4 DEF Kept
<1>9. CASE CreateUndo
  <2>1. job'.pc = "idle" /\ UNCHANGED row /\ dir' = dir \ {e} /\ e \notin DOMAIN row
    BY <1>9, IdleTypes DEF CreateUndo, Kept, JobOK, CreateOK, At
  <2>2. DOMAIN doc' = DOMAIN doc \ {e} /\ \A x \in DOMAIN doc' : doc'[x] = doc[x]
    BY <1>9 DEF CreateUndo, Drop
  <2>3. StoresOK'
    BY <1>1, <2>1, <2>2, Numbers DEF Kept, StoresOK
  <2>4. StaleOK'
    BY <1>4, <2>1, <2>2 DEF Kept, StoresOK, StaleOK, Stale
  <2>5. JobOK'
    BY <2>1 DEF JobOK, CreateOK, EditOK, UpdateOK, DeleteOK, At
  <2>6. FatesOK'
    BY <1>1, <1>5, <2>1, <2>2 DEF Kept, FatesOK, Live
  <2> QED BY <1>3, <2>3, <2>4, <2>5, <2>6 DEF Kept
<1>10. CASE CreateInsert
  <2>1. job'.op = "create" /\ job'.pc = "answer" /\ job'.e = e /\ UNCHANGED <<dir, doc>>
    BY <1>10, GotoType DEF CreateInsert, At, TypeOK
  <2>2. e \notin DOMAIN row /\ e \in DOMAIN doc /\ doc[e].text = 1 /\ doc[e].meta = 1
    BY <1>10 DEF CreateInsert, Kept, JobOK, CreateOK, At
  <2>3. /\ DOMAIN row' = DOMAIN row \union {e}
        /\ row'[e] = [text |-> 1, meta |-> 1, mtime |-> doc[e].mtime]
        /\ \A x \in DOMAIN row : row'[x] = row[x]
    BY <1>10, <2>2 DEF CreateInsert, Insert, Put, MtimeOf
  <2>4. StoresOK'
    BY <1>1, <1>5, <2>1, <2>2, <2>3, Numbers DEF Kept, StoresOK
  <2>5. StaleOK'
    BY <1>4, <2>1, <2>2, <2>3 DEF StaleOK, Stale
  <2>6. JobOK'
    BY <1>1, <1>5, <2>1, <2>2, <2>3 DEF JobOK, CreateOK, EditOK, UpdateOK, DeleteOK, At
  <2>7. FatesOK'
    BY <1>1, <1>5, <2>1, <2>3 DEF Kept, FatesOK, Live
  <2> QED BY <1>3, <2>4, <2>5, <2>6, <2>7 DEF Kept
<1> QED BY <1>6, <1>7, <1>8, <1>9, <1>10

\* The later steps of a block mutation: the file gets the row's content, then
\* the row the file's mtime.
LEMMA RenderKept ==
  ASSUME TypeOK, Kept, SerialUse,
         RenderGetRow \/ RenderGetBlocks \/ RenderWrite \/ RenderWriteFails
           \/ RenderStat \/ RenderStamp
  PROVE  Kept'
<1> DEFINE e == job.e
<1>1. job.op = "edit" /\ job.pc # "idle" /\ e \in Entries /\ up' = up /\ UNCHANGED <<ver, owed>>
  BY Numbers DEF RenderGetRow, RenderGetBlocks, RenderWrite, RenderWriteFails, RenderStat,
     RenderStamp, At, history
<1>2. Quiet /\ up = "up" /\ pass' = pass
  BY <1>1, HandlerAlone DEF RenderGetRow, RenderGetBlocks, RenderWrite, RenderWriteFails,
     RenderStat, RenderStamp
<1>3. OneActor' /\ PassOK'
  BY <1>1, <1>2, HandlerKeeps
<1>4. \A x \in DOMAIN row : row[x].mtime # doc[x].mtime =>
        SameContent(x) /\ x = e /\ job.pc \in {"stat", "stamp"}
  BY <1>1, <1>2, StaleUp DEF At
<1>5. e \in DOMAIN row /\ row[e].text = ver[e].text /\ e \in DOMAIN doc /\ e \in dir
  BY <1>1, Numbers DEF Kept, JobOK, EditOK, StoresOK
<1>6. CASE RenderGetRow
  <2>1. /\ job'.op = "edit" /\ job'.pc = "getBlocks" /\ job'.e = e /\ job'.meta = row[e].meta
        /\ UNCHANGED <<dir, doc, row>> /\ job.pc = "getRow"
    BY <1>5, <1>6 DEF RenderGetRow, At, TypeOK, JobType, JobRecord, stores
  <2>2. StoresOK' /\ FatesOK'
    BY <1>1, <2>1 DEF Kept, StoresOK, FatesOK, Live
  <2>3. StaleOK'
    BY <1>4, <2>1 DEF StaleOK, Stale
  <2>4. JobOK'
    BY <1>1, <1>5, <2>1 DEF JobOK, CreateOK, EditOK, UpdateOK, DeleteOK, At
  <2> QED BY <1>3, <2>2, <2>3, <2>4 DEF Kept
<1>7. CASE RenderGetBlocks
  <2>1. /\ job'.op = "edit" /\ job'.pc = "write" /\ job'.e = e /\ job'.meta = job.meta
        /\ job'.text = row[e].text
        /\ UNCHANGED <<dir, doc, row>> /\ job.pc = "getBlocks"
    BY <1>5, <1>7 DEF RenderGetBlocks, At, TypeOK, JobType, JobRecord, stores
  <2>2. StoresOK' /\ FatesOK'
    BY <1>1, <2>1 DEF Kept, StoresOK, FatesOK, Live
  <2>3. StaleOK'
    BY <1>4, <2>1 DEF StaleOK, Stale
  <2>4. JobOK'
    BY <1>1, <1>5, <2>1 DEF Kept, JobOK, CreateOK, EditOK, UpdateOK, DeleteOK, At
  <2> QED BY <1>3, <2>2, <2>3, <2>4 DEF Kept
<1>8. CASE RenderWrite
  <2>1. /\ job'.op = "edit" /\ job'.pc = "stat" /\ job'.e = e
        /\ UNCHANGED row /\ dir' = dir \union {e} /\ job.pc = "write"
    BY <1>8, GotoType DEF RenderWrite, At, TypeOK
  <2>2. job.text = row[e].text /\ job.meta = row[e].meta
    BY <1>1, <2>1 DEF Kept, JobOK, EditOK
  <2>3. /\ DOMAIN doc' = DOMAIN doc
        /\ doc'[e].text = row[e].text /\ doc'[e].meta = row[e].meta /\ doc'[e].ok
        /\ \A x \in DOMAIN doc : x # e => doc'[x] = doc[x]
    BY <1>5, <1>8, <2>2 DEF RenderWrite, Put
  <2>4. StoresOK'
    BY <1>1, <1>5, <2>1, <2>3, Numbers DEF Kept, StoresOK
  <2>5. StaleOK'
    BY <1>2, <1>4, <1>5, <2>1, <2>3, Numbers
       DEF Kept, StoresOK, StaleOK, Stale, SameContent, Quiet, Active, At
  <2>6. JobOK'
    BY <1>1, <1>5, <2>1, <2>3 DEF JobOK, CreateOK, EditOK, UpdateOK, DeleteOK, SameContent, At
  <2>7. FatesOK'
    BY <1>1, <1>5, <2>1, <2>3, Numbers DEF Kept, StoresOK, FatesOK, Live
  <2> QED BY <1>3, <2>4, <2>5, <2>6, <2>7 DEF Kept
<1>9. CASE RenderWriteFails
  <2>1. job'.pc = "idle" /\ UNCHANGED <<dir, doc, row>> /\ job.pc = "write"
    BY <1>9, IdleTypes DEF RenderWriteFails, stores, At
  <2>2. StoresOK' /\ FatesOK'
    BY <1>1, <2>1 DEF Kept, StoresOK, FatesOK, Live
  <2>3. StaleOK'
    BY <1>4, <2>1 DEF StaleOK, Stale
  <2>4. JobOK'
    BY <2>1 DEF JobOK, CreateOK, EditOK, UpdateOK, DeleteOK, At
  <2> QED BY <1>3, <2>2, <2>3, <2>4 DEF Kept
<1>10. CASE RenderStat
  <2>1. /\ job'.op = "edit" /\ job'.pc = "stamp" /\ job'.e = e /\ job'.mtime = doc[e].mtime
        /\ UNCHANGED <<dir, doc, row>> /\ job.pc = "stat"
    BY <1>5, <1>10 DEF RenderStat, At, TypeOK, JobType, JobRecord, stores
  <2>2. StoresOK' /\ FatesOK'
    BY <1>1, <2>1 DEF Kept, StoresOK, FatesOK, Live
  <2>3. StaleOK'
    BY <1>1, <1>2, <1>4, <2>1 DEF StaleOK, Stale, SameContent, Quiet, Active, At
  <2>4. JobOK'
    BY <1>1, <1>5, <2>1
       DEF Kept, JobOK, CreateOK, EditOK, UpdateOK, DeleteOK, SameContent, At
  <2> QED BY <1>3, <2>2, <2>3, <2>4 DEF Kept
<1>11. CASE RenderStamp
  <2>1. /\ job'.op = "edit" /\ job'.pc = "answer" /\ job'.e = e
        /\ UNCHANGED <<dir, doc>> /\ job.pc = "stamp"
    BY <1>11, GotoType DEF RenderStamp, At, TypeOK
  <2>2. job.mtime = doc[e].mtime /\ SameContent(e)
    BY <1>1, <2>1 DEF Kept, JobOK, EditOK
  <2>3. /\ DOMAIN row' = DOMAIN row
        /\ row'[e].text = row[e].text /\ row'[e].meta = row[e].meta
        /\ row'[e].mtime = doc[e].mtime
        /\ \A x \in DOMAIN row : x # e => row'[x] = row[x]
    BY <1>5, <1>11, <2>2 DEF RenderStamp, TypeOK, StoresType, RowRecord
  <2>4. StoresOK'
    BY <1>1, <2>1, <2>3 DEF Kept, StoresOK
  <2>5. StaleOK'
    BY <1>4, <2>1, <2>3 DEF StaleOK, Stale
  <2>6. JobOK'
    BY <1>1, <1>5, <2>1, <2>2, <2>3
       DEF JobOK, CreateOK, EditOK, UpdateOK, DeleteOK, SameContent, At
  <2>7. FatesOK'
    BY <1>1, <2>1, <2>3 DEF Kept, FatesOK, Live
  <2> QED BY <1>3, <2>4, <2>5, <2>6, <2>7 DEF Kept
<1> QED BY <1>6, <1>7, <1>8, <1>9, <1>10, <1>11

\* The later steps of a delete.
LEMMA DeleteKept ==
  ASSUME TypeOK, Kept, SerialUse, RemoveDoc \/ RemoveDir
  PROVE  Kept'
<1> DEFINE e == job.e
<1>1. job.op = "delete" /\ job.pc # "idle" /\ e \in Entries /\ up' = up /\ UNCHANGED <<row, ver, owed>>
  BY Numbers DEF RemoveDoc, RemoveDir, At, history
<1>2. Quiet /\ up = "up" /\ pass' = pass
  BY <1>1, HandlerAlone DEF RemoveDoc, RemoveDir
<1>3. OneActor' /\ PassOK'
  BY <1>1, <1>2, HandlerKeeps
<1>4. \A x \in DOMAIN row : row[x].mtime = doc[x].mtime
  BY <1>1, <1>2, StaleUp DEF At
<1>5. e \notin DOMAIN row /\ ver[e].text > 0 /\ owed.entry[e].fate # "live"
  BY <1>1 DEF Kept, JobOK, DeleteOK
<1>6. CASE RemoveDoc
  <2>1. /\ UNCHANGED dir
        /\ DOMAIN doc' \subseteq DOMAIN doc /\ DOMAIN doc \subseteq DOMAIN doc' \union {e}
        /\ \A x \in DOMAIN doc' : doc'[x] = doc[x]
    BY <1>6 DEF RemoveDoc, Drop
  <2>2. \/ job'.pc = "idle"
        \/ job'.op = "delete" /\ job'.pc = "removeDir" /\ job'.e = e /\ e \notin DOMAIN doc'
    BY <1>1, <1>6, GotoType, IdleTypes DEF RemoveDoc, TypeOK, Drop
  <2>3. StoresOK'
    BY <1>1, <1>5, <2>1 DEF Kept, StoresOK
  <2>4. StaleOK'
    BY <1>1, <1>4, <1>5, <2>1 DEF Kept, StoresOK, StaleOK, Stale
  <2>5. JobOK'
    BY <1>1, <1>5, <2>1, <2>2 DEF JobOK, CreateOK, EditOK, UpdateOK, DeleteOK, At
  <2>6. FatesOK'
    BY <1>1, <1>5, <2>1 DEF Kept, FatesOK, Live
  <2> QED BY <1>3, <2>3, <2>4, <2>5, <2>6 DEF Kept
<1>7. CASE RemoveDir
  <2>1. /\ job'.op = "delete" /\ job'.pc = "answer" /\ job'.e = e
        /\ UNCHANGED doc /\ dir' = dir \ {e} /\ e \notin DOMAIN doc
    BY <1>7, GotoType DEF RemoveDir, At, TypeOK, JobType
  <2>2. StoresOK'
    BY <1>1, <2>1 DEF Kept, StoresOK
  <2>3. StaleOK'
    BY <1>1, <1>4, <2>1 DEF StaleOK, Stale
  <2>4. JobOK'
    BY <1>1, <1>5, <2>1 DEF JobOK, CreateOK, EditOK, UpdateOK, DeleteOK, At
  <2>5. FatesOK'
    BY <1>1, <2>1 DEF Kept, FatesOK, Live
  <2> QED BY <1>3, <2>2, <2>3, <2>4, <2>5 DEF Kept
<1> QED BY <1>6, <1>7

\* A success answer tells the client what the stores hold.
LEMMA AnswerKept ==
  ASSUME TypeOK, Kept, SerialUse, Answer
  PROVE  Kept'
<1> DEFINE e == job.e
<1>1. /\ job.pc = "answer" /\ e \in Entries /\ job'.pc = "idle"
      /\ UNCHANGED <<dir, doc, row, up, pass, ver>>
  BY Numbers, IdleTypes DEF Answer, stores
<1>2. Quiet /\ up = "up"
  BY <1>1, HandlerAlone
<1>3. OneActor' /\ PassOK'
  BY <1>1, <1>2, HandlerKeeps
<1>4. StoresOK'
  BY <1>1 DEF Kept, StoresOK
<1>5. StaleOK'
  BY <1>1, <1>2, StaleUp DEF StaleOK, Stale, At
<1>6. JobOK'
  BY <1>1 DEF JobOK, CreateOK, EditOK, UpdateOK, DeleteOK, At
<1>7. owed'.entry[e] = Told /\ \A x \in Entries : x # e => owed'.entry[x] = owed.entry[x]
  BY <1>1 DEF Answer, TypeOK, HistoryType
<1>8. owed.entry[e] \in OwedRecord
  BY <1>1 DEF TypeOK, HistoryType
<1>9. job.op \in {"create", "update", "edit", "delete"}
  BY <1>1 DEF TypeOK, JobType
<1>10. e \in DOMAIN row => e \in DOMAIN doc /\ e \in dir /\ ver[e].text > 0
  BY Numbers DEF Kept, StoresOK
<1>11. ASSUME \/ Told.fate = owed.entry[e].fate /\ (Live(e) => /\ Told.text <= doc[e].text
                                                                /\ Told.meta <= row[e].meta)
                   /\ e \in DOMAIN row
              \/ Told.fate = "live" /\ e \in DOMAIN row /\ Told.text <= doc[e].text
                   /\ Told.meta <= row[e].meta
              \/ Told.fate = "gone" /\ e \notin DOMAIN row /\ e \notin dir /\ ver[e].text > 0
       PROVE  FatesOK'
  BY <1>1, <1>7, <1>10, <1>11 DEF Kept, FatesOK, Live
<1>12. CASE job.op = "create"
  <2>1. Told = [text |-> 1, meta |-> 1, fate |-> "live"]
    BY <1>1, <1>12 DEF Told, Kept, JobOK, CreateOK
  <2>2. e \in DOMAIN row /\ 1 <= doc[e].text /\ 1 <= row[e].meta
    BY <1>1, <1>10, <1>12, Numbers DEF Kept, JobOK, CreateOK, At
  <2> QED BY <1>3, <1>4, <1>5, <1>6, <1>11, <2>1, <2>2 DEF Kept
<1>13. CASE job.op = "update"
  <2>1. /\ Told.fate = owed.entry[e].fate /\ Told.text = owed.entry[e].text /\ Told.meta = job.meta
    BY <1>8, <1>13 DEF Told, OwedRecord
  <2>2. e \in DOMAIN row /\ job.meta <= row[e].meta
    BY <1>1, <1>13 DEF Kept, JobOK, UpdateOK
  <2>3. Live(e) => owed.entry[e].text <= doc[e].text
    BY <1>1 DEF Kept, FatesOK
  <2> QED BY <1>3, <1>4, <1>5, <1>6, <1>11, <2>1, <2>2, <2>3 DEF Kept
<1>14. CASE job.op = "edit"
  <2>1. Told.fate = owed.entry[e].fate /\ Told.text = ver[e].text /\ Told.meta = owed.entry[e].meta
    BY <1>8, <1>14 DEF Told, OwedRecord
  <2>2. e \in DOMAIN row /\ ver[e].text <= doc[e].text
    BY <1>1, <1>10, <1>14, Numbers DEF Kept, JobOK, EditOK
  <2>3. FatesOK'
    BY <1>1, <1>7, <1>10, <2>1, <2>2 DEF Kept, FatesOK, Live
  <2> QED BY <1>3, <1>4, <1>5, <1>6, <2>3 DEF Kept
<1>15. CASE job.op = "delete"
  <2>1. Told.fate = "gone"
    BY <1>8, <1>15 DEF Told, OwedRecord
  <2>2. e \notin DOMAIN row /\ e \notin dir /\ ver[e].text > 0
    BY <1>1, <1>15 DEF Kept, JobOK, DeleteOK
  <2> QED BY <1>3, <1>4, <1>5, <1>6, <1>11, <2>1, <2>2 DEF Kept
<1> QED BY <1>9, <1>12, <1>13, <1>14, <1>15

-----------------------------------------------------------------------------
(* Index passes. *)

\* What a pass's step keeps, once its new record is known: it is the one actor.
LEMMA PassKeeps ==
  ASSUME TypeOK, Kept, NEW p \in Passes, NEW r, Become(p, r), job.pc = "idle", job' = job,
         \A q \in Passes : Active(q) => q = p,
         up' # "down", r.pc # "idle" \/ up' = "up"
  PROVE  /\ OneActor' /\ JobOK' /\ pass'[p] = r
         /\ \A q \in Passes : pass'[q].pc # "idle" => q = p
<1>1. pass'[p] = r /\ \A q \in Passes : q # p => pass'[q] = pass[q]
  BY DEF Become, TypeOK, PassType
<1>2. \A q \in Passes : pass'[q].pc # "idle" => q = p
  BY <1>1 DEF Active
<1>3. OneActor'
  BY <1>2 DEF OneActor, Active
<1>4. JobOK'
  BY DEF JobOK, CreateOK, EditOK, UpdateOK, DeleteOK, At
<1> QED BY <1>1, <1>2, <1>3, <1>4

\* While a pass runs no handler does, and only an entry that the pass has still
\* to visit is stale, never in a daemon that is up.
LEMMA PassAlone ==
  ASSUME TypeOK, Kept, NEW p \in Passes, Active(p)
  PROVE  /\ job.pc = "idle" /\ up \in {"up", "boot"} /\ \A q \in Passes : Active(q) => q = p
         /\ \A e \in DOMAIN row : row[e].mtime # doc[e].mtime =>
              /\ e \in Entries /\ SameContent(e) /\ up = "boot"
              /\ \/ pass[p].pc \in {"scan", "snapshot"}
                 \/ e \in pass[p].todo
                 \/ pass[p].pc \in {"read", "replace"} /\ pass[p].e = e
<1>1. job.pc = "idle" /\ up \in {"up", "boot"} /\ \A q \in Passes : Active(q) => q = p
  BY DEF Kept, OneActor, TypeOK
<1>2. \A e \in DOMAIN row : e \in Entries
  BY Numbers
<1> QED BY <1>1, <1>2 DEF Kept, StaleOK, Stale, At

\* A pass that a client asks for.
LEMMA PassStartKept ==
  ASSUME TypeOK, Kept, SerialUse, NEW p \in Passes, NEW op \in PassOps, PassStart(p, op)
  PROVE  Kept'
<1>1. /\ up = "up" /\ up' = up /\ job.pc = "idle" /\ job' = job
      /\ \A q \in Passes : ~Active(q)
      /\ UNCHANGED <<dir, doc, row, ver, owed>> /\ Become(p, Begin(op))
  BY DEF PassStart, SerialUse, TypeOK, Active, UnchangedByPass
<1>2. op \in {"sync", "rebuild"} /\ (op = "rebuild" => ~NoRebuild)
  BY ConstantsAssumption DEF NoRebuild
<1>3. Begin(op).op = op /\ Begin(op).snap = {} /\ Begin(op).pc # "idle"
      /\ Begin(op).pc = IF op = "sync" THEN "scan" ELSE "wipe"
  BY <1>2, BeginType
<1>4. /\ OneActor' /\ JobOK' /\ pass'[p] = Begin(op)
      /\ \A q \in Passes : pass'[q].pc # "idle" => q = p
  BY <1>1, <1>3, PassKeeps
<1>5. StoresOK' /\ FatesOK'
  BY <1>1 DEF Kept, StoresOK, FatesOK, Live
<1>6. StaleOK'
  BY <1>1, StaleUp DEF StaleOK, Stale, At
<1>7. PassOK'
  BY <1>1, <1>2, <1>3, <1>4 DEF PassOK, SyncOK, Active
<1> QED BY <1>4, <1>5, <1>6, <1>7 DEF Kept

\* The pass that a daemon begins with when it is started again.
LEMMA RestartKept ==
  ASSUME TypeOK, Kept, NEW p \in Passes, Restart(p)
  PROVE  Kept'
<1>1. /\ up = "down" /\ up' = "boot" /\ job.pc = "idle" /\ job' = job
      /\ \A q \in Passes : ~Active(q)
      /\ UNCHANGED <<dir, doc, row, ver, owed>> /\ Become(p, Begin("sync"))
  BY DEF Restart, Kept, OneActor, stores, history
<1>2. Begin("sync").op = "sync" /\ Begin("sync").snap = {} /\ Begin("sync").pc = "scan"
  BY BeginType
<1>3. /\ OneActor' /\ JobOK' /\ pass'[p] = Begin("sync")
      /\ \A q \in Passes : pass'[q].pc # "idle" => q = p
  BY <1>1, <1>2, PassKeeps
<1>4. StoresOK' /\ FatesOK'
  BY <1>1 DEF Kept, StoresOK, FatesOK, Live
<1>5. StaleOK'
  BY <1>1, <1>2, <1>3 DEF Kept, StaleOK, Stale, SameContent, Active
<1>6. PassOK'
  BY <1>2, <1>3 DEF PassOK, SyncOK, Active
<1> QED BY <1>3, <1>4, <1>5, <1>6 DEF Kept

\* What a step of a pass that leaves files and rows alone keeps, when what is
\* stale is still to be visited.
LEMMA QuietPassKept ==
  ASSUME TypeOK, Kept, NEW p \in Passes, NEW r, Active(p), r.pc # "idle", Become(p, r),
         UnchangedByPass, UNCHANGED <<row, up>>,
         \A e \in DOMAIN row : row[e].mtime # doc[e].mtime =>
           r.pc \in {"scan", "snapshot"} \/ e \in r.todo \/ (r.pc \in {"read", "replace"} /\ r.e = e)
  PROVE  /\ OneActor' /\ StoresOK' /\ StaleOK' /\ JobOK' /\ FatesOK'
         /\ pass'[p] = r /\ \A q \in Passes : pass'[q].pc # "idle" => q = p
         /\ UNCHANGED <<dir, doc, row, up>>
<1>1. /\ job.pc = "idle" /\ up # "down" /\ \A q \in Passes : Active(q) => q = p
      /\ \A e \in DOMAIN row : row[e].mtime # doc[e].mtime => SameContent(e) /\ up = "boot"
  BY PassAlone
<1>2. UNCHANGED <<dir, doc, row, up, job, ver, owed>>
  BY DEF UnchangedByPass
<1>3. /\ OneActor' /\ JobOK' /\ pass'[p] = r
      /\ \A q \in Passes : pass'[q].pc # "idle" => q = p
  BY <1>1, <1>2, PassKeeps
<1>4. StoresOK' /\ FatesOK'
  BY <1>2 DEF Kept, StoresOK, FatesOK, Live
<1>5. StaleOK'
  BY <1>1, <1>2, <1>3 DEF StaleOK, Stale, SameContent, Active
<1> QED BY <1>2, <1>3, <1>4, <1>5

\* What the invariant says of the one pass that runs.
LEMMA PassSays ==
  ASSUME TypeOK, Kept, NEW p \in Passes, Active(p)
  PROVE  LET q == pass[p] IN
         /\ q.op = "sync" \/ (q.op = "rebuild" /\ up = "up" /\ ~NoRebuild)
         /\ q.pc # "orphan"
         /\ q.pc = "wipe" => q.op = "rebuild"
         /\ q.pc = "sweep" => q.op = "sync"
         /\ q.pc \notin {"wipe", "scan"} => q.seen = dir
         /\ q.pc = "snapshot" => q.todo = dir
         /\ q.pc \in {"sweep", "done"} => q.todo = {}
         /\ q.pc \in {"read", "replace"} => q.e \notin q.todo
         /\ q.pc = "replace" => /\ q.e \in DOMAIN doc
                                /\ q.got = [text |-> doc[q.e].text, meta |-> doc[q.e].meta]
         /\ q.op = "sync" => SyncOK(p)
BY DEF Kept, PassOK

\* The steps of a pass before its walk: the scan and the snapshot.
LEMMA ScanKept ==
  ASSUME TypeOK, Kept, NEW p \in Passes, Scan(p) \/ Snapshot(p)
  PROVE  Kept'
<1> DEFINE q == pass[p]
<1>1. Active(p) /\ UnchangedByPass /\ UNCHANGED <<row, up>> /\ q \in PassRecord
  BY PassFacts DEF Scan, Snapshot, In, Active, Unstored
<1>2. \A e \in DOMAIN row : e \in dir
  BY Numbers DEF Kept, StoresOK
<1>3. CASE Scan(p)
  <2>1. PICK pc \in {"snapshot", "walk"} :
          /\ Become(p, [q EXCEPT !.todo = dir, !.seen = dir, !.pc = pc])
          /\ pc = IF q.op = "sync" THEN "snapshot" ELSE "walk"
    BY <1>3 DEF Scan
  <2> DEFINE r == [q EXCEPT !.todo = dir, !.seen = dir, !.pc = pc]
  <2>2. r.pc = pc /\ r.todo = dir /\ r.seen = dir /\ r.op = q.op /\ r.snap = q.snap /\ r.e = q.e
    BY <1>1 DEF PassRecord
  <2>3. /\ OneActor' /\ StoresOK' /\ StaleOK' /\ JobOK' /\ FatesOK'
        /\ pass'[p] = r /\ \A x \in Passes : pass'[x].pc # "idle" => x = p
        /\ UNCHANGED <<dir, doc, row, up>>
    <3> HIDE DEF r
    <3>1. r.pc # "idle" /\ Become(p, r)
      BY <2>1, <2>2 DEF r
    <3> QED BY <1>1, <1>2, <2>2, <3>1, QuietPassKept
  <2>4. PassOK'
    <3>1. q.pc = "scan"
      BY <1>3 DEF Scan, In
    <3>2. q.op = "sync" => \A x \in q.snap : x[1] \in dir
      BY <1>1, PassSays DEF SyncOK
    <3> HIDE DEF r
    <3> QED BY <1>1, <2>1, <2>2, <2>3, <3>1, <3>2, PassSays DEF PassOK, SyncOK, Active
  <2> QED BY <2>3, <2>4 DEF Kept
<1>4. CASE Snapshot(p)
  <2> DEFINE s == {<<e, row[e].mtime>> : e \in DOMAIN row}
             r == [q EXCEPT !.snap = s, !.pc = "walk"]
  <2>1. r.pc = "walk" /\ r.todo = q.todo /\ r.seen = q.seen /\ r.op = q.op /\ r.snap = s /\ r.e = q.e
    BY <1>1 DEF PassRecord
  <2>2. q.todo = dir /\ q.seen = dir
    BY <1>1, <1>4, PassSays DEF Snapshot, In
  <2>3. /\ OneActor' /\ StoresOK' /\ StaleOK' /\ JobOK' /\ FatesOK'
        /\ pass'[p] = r /\ \A x \in Passes : pass'[x].pc # "idle" => x = p
        /\ UNCHANGED <<dir, doc, row, up>>
    <3>1. Become(p, r)
      BY <1>4 DEF Snapshot
    <3> HIDE DEF r
    <3> QED BY <1>1, <1>2, <2>1, <2>2, <3>1, QuietPassKept
  <2>4. /\ \A x \in s : x[1] \in DOMAIN row /\ x[1] \in dir /\ x[2] = row[x[1]].mtime
        /\ \A e \in DOMAIN row : <<e, row[e].mtime>> \in s
    BY <1>2
  <2>5. PassOK'
    <3> HIDE DEF r, s
    <3> QED BY <1>1, <2>1, <2>2, <2>3, <2>4, PassSays DEF PassOK, SyncOK, Active
  <2> QED BY <2>3, <2>5 DEF Kept
<1> QED BY <1>3, <1>4

\* Visiting an entry: it is skipped when it is not stale, and re-indexed else;
\* none is an orphan, since rows have files.
LEMMA VisitKept ==
  ASSUME TypeOK, Kept, NEW p \in Passes, NEW e \in Entries,
         VisitSkips(p, e) \/ VisitReindexes(p, e) \/ VisitOrphan(p, e)
  PROVE  Kept'
<1> DEFINE q == pass[p]
<1>1. PICK pc \in {"walk", "read", "orphan"} :
        /\ Visit(p, e, pc)
        /\ pc = "walk" => /\ q.op = "sync"
                          /\ Unchanged(p, e) \/ (e \notin DOMAIN doc /\ ~Known(p, e))
        /\ pc = "read" => q.op = "rebuild" \/ (e \in DOMAIN doc /\ ~Unchanged(p, e))
        /\ pc = "orphan" => q.op = "sync" /\ e \notin DOMAIN doc /\ Known(p, e)
  BY DEF VisitSkips, VisitReindexes, VisitOrphan
<1> DEFINE r == [q EXCEPT !.todo = q.todo \ {e}, !.e = e, !.pc = pc]
<1>2. /\ Active(p) /\ UnchangedByPass /\ UNCHANGED <<row, up>> /\ q \in PassRecord
      /\ q.pc = "walk" /\ e \in q.todo /\ Become(p, r)
  BY <1>1, PassFacts DEF Visit, In, Active, Unstored
<1>3. /\ r.pc = pc /\ r.todo = q.todo \ {e} /\ r.seen = q.seen /\ r.op = q.op /\ r.snap = q.snap
      /\ r.e = e
  BY <1>2 DEF PassRecord
<1>4. DOMAIN row \subseteq DOMAIN doc
  BY DEF Kept, StoresOK
<1>5. q.op = "sync" =>
        /\ \A x \in q.snap : x[1] \in dir
        /\ \A x \in q.snap : x[1] \in q.todo => x[1] \in DOMAIN row /\ x[2] = row[x[1]].mtime
        /\ \A x \in DOMAIN row \intersect q.todo : <<x, row[x].mtime>> \in q.snap
  BY <1>2, PassSays DEF SyncOK
<1>6. pc # "orphan"
  BY <1>1, <1>2, <1>4, <1>5 DEF Known, Ids
<1>7. pc = "walk" => (e \in DOMAIN row => row[e].mtime = doc[e].mtime)
  <2>1. ASSUME pc = "walk", e \in DOMAIN row PROVE row[e].mtime = doc[e].mtime
    <3>1. <<e, doc[e].mtime>> \in q.snap
      BY <1>1, <1>4, <2>1 DEF Unchanged
    <3>2. q.op = "sync"
      BY <1>1, <2>1
    <3> QED BY <1>2, <1>5, <3>1, <3>2
  <2> QED BY <2>1
<1>8. pc = "read" /\ q.op = "sync" /\ e \in DOMAIN row => row[e].mtime # doc[e].mtime
  BY <1>1, <1>2, <1>5 DEF Unchanged
<1>9. /\ OneActor' /\ StoresOK' /\ StaleOK' /\ JobOK' /\ FatesOK'
      /\ pass'[p] = r /\ \A x \in Passes : pass'[x].pc # "idle" => x = p
      /\ UNCHANGED <<dir, doc, row, up>>
  <2> HIDE DEF r
  <2>1. \A x \in DOMAIN row : row[x].mtime # doc[x].mtime =>
          x \in r.todo \/ (r.pc \in {"read", "replace"} /\ r.e = x)
    BY <1>2, <1>3, <1>6, <1>7, PassAlone
  <2> QED BY <1>2, <1>3, <2>1, QuietPassKept
<1>10. PassOK'
  <2> HIDE DEF r
  <2>1. /\ q.op = "sync" \/ (q.op = "rebuild" /\ up = "up" /\ ~NoRebuild)
        /\ q.seen = dir
    BY <1>2, PassSays
  <2>2. q.op = "sync" => SyncOK(p)'
    BY <1>1, <1>3, <1>5, <1>6, <1>8, <1>9 DEF SyncOK, Stale
  <2> QED BY <1>3, <1>6, <1>9, <2>1, <2>2 DEF PassOK, Active
<1> QED BY <1>9, <1>10 DEF Kept

\* Reading a file; none is unreadable, and a sync that finds none of its files
\* gone goes on.
LEMMA ReadKept ==
  ASSUME TypeOK, Kept, NEW p \in Passes, Read(p) \/ ReadFails(p)
  PROVE  Kept'
<1> DEFINE q == pass[p]
<1>1. Active(p) /\ UnchangedByPass /\ UNCHANGED <<row, up>> /\ q \in PassRecord /\ q.pc = "read"
  BY PassFacts DEF Read, ReadFails, In, Active, Unstored
<1>2. /\ q.op = "sync" \/ (q.op = "rebuild" /\ up = "up" /\ ~NoRebuild)
      /\ q.seen = dir /\ q.e \notin q.todo
      /\ q.op = "sync" => SyncOK(p)
  BY <1>1, PassSays
<1>3. CASE Read(p)
  <2> DEFINE g == [text |-> doc[q.e].text, meta |-> doc[q.e].meta]
             r == [q EXCEPT !.pc = "replace", !.got = g]
  <2>1. /\ r.pc = "replace" /\ r.todo = q.todo /\ r.seen = q.seen /\ r.op = q.op
        /\ r.snap = q.snap /\ r.e = q.e /\ r.got = g
    BY <1>1 DEF PassRecord
  <2>2. q.e \in DOMAIN doc
    BY <1>3 DEF Read, Readable
  <2>3. /\ OneActor' /\ StoresOK' /\ StaleOK' /\ JobOK' /\ FatesOK'
        /\ pass'[p] = r /\ \A x \in Passes : pass'[x].pc # "idle" => x = p
        /\ UNCHANGED <<dir, doc, row, up>>
    <3>1. Become(p, r)
      BY <1>3 DEF Read
    <3> HIDE DEF r
    <3>2. \A x \in DOMAIN row : row[x].mtime # doc[x].mtime =>
            x \in r.todo \/ (r.pc \in {"read", "replace"} /\ r.e = x)
      BY <1>1, <2>1, PassAlone
    <3> QED BY <1>1, <2>1, <3>1, <3>2, QuietPassKept
  <2>4. PassOK'
    <3> HIDE DEF r
    <3>1. q.op = "sync" => SyncOK(p)'
      BY <1>1, <1>2, <2>1, <2>3 DEF SyncOK, Stale
    <3> QED BY <1>2, <2>1, <2>2, <2>3, <3>1 DEF PassOK, Active
  <2> QED BY <2>3, <2>4 DEF Kept
<1>4. CASE ReadFails(p)
  <2> DEFINE r == [q EXCEPT !.pc = "walk"]
  <2>1. /\ r.pc = "walk" /\ r.todo = q.todo /\ r.seen = q.seen /\ r.op = q.op
        /\ r.snap = q.snap /\ r.e = q.e
    BY <1>1 DEF PassRecord
  <2>2. q.op = "rebuild"
    BY <1>1, <1>2, <1>4 DEF ReadFails, Readable, SyncOK, Kept, StoresOK
  <2>3. /\ OneActor' /\ StoresOK' /\ StaleOK' /\ JobOK' /\ FatesOK'
        /\ pass'[p] = r /\ \A x \in Passes : pass'[x].pc # "idle" => x = p
        /\ UNCHANGED <<dir, doc, row, up>>
    <3>1. Become(p, r)
      BY <1>4, <2>2 DEF ReadFails
    <3> HIDE DEF r
    <3>2. \A x \in DOMAIN row : row[x].mtime = doc[x].mtime
      BY <1>1, <1>2, <2>2, PassAlone
    <3> QED BY <1>1, <2>1, <3>1, <3>2, QuietPassKept
  <2>4. PassOK'
    <3> HIDE DEF r
    <3> QED BY <1>2, <2>1, <2>2, <2>3 DEF PassOK, Active
  <2> QED BY <2>3, <2>4 DEF Kept
<1> QED BY <1>3, <1>4

\* The end of the walk and of the sweep: every row of the snapshot was scanned,
\* so that nothing is left to sweep.
LEMMA WalkDoneKept ==
  ASSUME TypeOK, Kept, NEW p \in Passes, WalkDone(p) \/ SweepDone(p)
  PROVE  Kept'
<1> DEFINE q == pass[p]
<1>1. /\ Active(p) /\ UnchangedByPass /\ UNCHANGED <<row, up>> /\ q \in PassRecord
      /\ q.pc \in {"walk", "sweep"} /\ q.todo = {}
  BY PassFacts DEF WalkDone, SweepDone, In, Active, Unstored
<1>2. /\ q.op = "sync" \/ (q.op = "rebuild" /\ up = "up" /\ ~NoRebuild)
      /\ q.seen = dir
      /\ q.op = "sync" => \A x \in q.snap : x[1] \in dir
  BY <1>1, PassSays DEF SyncOK
<1>3. \A x \in DOMAIN row : row[x].mtime = doc[x].mtime
  BY <1>1, PassAlone
<1>4. PICK r : /\ Become(p, r) /\ r.pc \in {"sweep", "done"} /\ r.todo = {} /\ r.seen = q.seen
               /\ r.op = q.op /\ r.snap = q.snap /\ (r.pc = "sweep" => r.op = "sync")
  <2>1. CASE q.op = "sync" /\ WalkDone(p)
    <3>1. Ids(q.snap) \ q.seen = {}
      BY <1>2, <2>1 DEF Ids
    <3>2. Become(p, [q EXCEPT !.pc = "sweep", !.todo = {}])
      BY <2>1, <3>1 DEF WalkDone
    <3> DEFINE r == [q EXCEPT !.pc = "sweep", !.todo = {}]
    <3>3. /\ r.pc = "sweep" /\ r.todo = {} /\ r.seen = q.seen /\ r.op = q.op /\ r.snap = q.snap
      BY <1>1 DEF PassRecord
    <3> HIDE DEF r
    <3>4. Become(p, r)
      BY <3>2 DEF r
    <3> QED BY <2>1, <3>3, <3>4
  <2>2. CASE ~(q.op = "sync" /\ WalkDone(p))
    <3>1. Become(p, [q EXCEPT !.pc = "done"])
      BY <2>2 DEF WalkDone, SweepDone
    <3> DEFINE r == [q EXCEPT !.pc = "done"]
    <3>3. /\ r.pc = "done" /\ r.todo = {} /\ r.seen = q.seen /\ r.op = q.op /\ r.snap = q.snap
      BY <1>1 DEF PassRecord
    <3> HIDE DEF r
    <3>4. Become(p, r)
      BY <3>1 DEF r
    <3> QED BY <3>3, <3>4
  <2> QED BY <2>1, <2>2
<1>5. /\ OneActor' /\ StoresOK' /\ StaleOK' /\ JobOK' /\ FatesOK'
      /\ pass'[p] = r /\ \A x \in Passes : pass'[x].pc # "idle" => x = p
      /\ UNCHANGED <<dir, doc, row, up>>
  BY <1>1, <1>3, <1>4, QuietPassKept
<1>6. PassOK'
  BY <1>2, <1>4, <1>5 DEF PassOK, SyncOK, Active
<1> QED BY <1>5, <1>6 DEF Kept

\* The RPC is answered, or the daemon has booted: nothing is stale any more.
LEMMA PassEndKept ==
  ASSUME TypeOK, Kept, NEW p \in Passes, PassEnd(p)
  PROVE  Kept'
<1>1. /\ Active(p) /\ pass[p].pc = "done" /\ up' = "up" /\ Become(p, IdlePass)
      /\ UNCHANGED <<dir, doc, row, job, ver, owed>>
  BY DEF PassEnd, In, Active, UnchangedByPass
<1>2. /\ job.pc = "idle" /\ \A q \in Passes : Active(q) => q = p
      /\ \A x \in DOMAIN row : row[x].mtime = doc[x].mtime
  BY <1>1, PassAlone, PassSays
<1>3. /\ OneActor' /\ JobOK' /\ pass'[p] = IdlePass
      /\ \A q \in Passes : pass'[q].pc # "idle" => q = p
  BY <1>1, <1>2, PassKeeps
<1>4. StoresOK' /\ FatesOK'
  BY <1>1 DEF Kept, StoresOK, FatesOK, Live
<1>5. StaleOK'
  BY <1>1, <1>2 DEF StaleOK, Stale
<1>6. PassOK'
  BY <1>3, IdleTypes DEF PassOK, Active
<1> QED BY <1>3, <1>4, <1>5, <1>6 DEF Kept

\* A rebuild empties the index; it runs only where metadata is not promised.
LEMMA WipeKept ==
  ASSUME TypeOK, Kept, NEW p \in Passes, Wipe(p)
  PROVE  Kept'
<1> DEFINE q == pass[p]
           r == [q EXCEPT !.pc = "scan"]
<1>1. /\ Active(p) /\ q \in PassRecord /\ q.pc = "wipe" /\ Store(p, r) /\ DOMAIN row' = {}
      /\ UNCHANGED <<dir, doc, job, up, ver, owed>>
  BY PassFacts DEF Wipe, In, Active, UnchangedByPass, Nothing
<1>2. r.pc = "scan" /\ r.op = q.op /\ r.snap = q.snap
  BY <1>1 DEF PassRecord
<1> HIDE DEF r
<1>3. job.pc = "idle" /\ up # "down" /\ \A x \in Passes : Active(x) => x = p
  BY <1>1, PassAlone
<1>4. q.op = "rebuild" /\ up = "up" /\ ~NoRebuild
  BY <1>1, PassSays
<1>5. Become(p, r)
  BY <1>1, AloneStore DEF Kept
<1>6. /\ OneActor' /\ JobOK' /\ pass'[p] = r
      /\ \A x \in Passes : pass'[x].pc # "idle" => x = p
  BY <1>1, <1>2, <1>3, <1>5, PassKeeps
<1>7. StoresOK' /\ StaleOK'
  BY <1>1 DEF Kept, StoresOK, StaleOK, Stale
<1>8. FatesOK'
  BY <1>1, <1>4 DEF Kept, FatesOK, Live
<1>9. PassOK'
  BY <1>1, <1>2, <1>4, <1>6 DEF PassOK, Active
<1> QED BY <1>6, <1>7, <1>8, <1>9 DEF Kept

\* Replacing the row of an entry by what its file holds: in a sync the row was
\* stale and had the same content.
LEMMA ReplaceKept ==
  ASSUME TypeOK, Kept, NEW p \in Passes, Replace(p)
  PROVE  Kept'
<1> DEFINE q == pass[p]
           e == q.e
           r == [q EXCEPT !.pc = "walk", !.got = Blank]
<1>1. /\ Active(p) /\ q \in PassRecord /\ q.pc = "replace" /\ Store(p, r)
      /\ UNCHANGED <<dir, doc, job, up, ver, owed>>
  BY PassFacts DEF Replace, In, Active, UnchangedByPass
<1>2. /\ r.pc = "walk" /\ r.op = q.op /\ r.snap = q.snap /\ r.todo = q.todo /\ r.seen = q.seen
      /\ r.e = e
  BY <1>1 DEF PassRecord
<1>3. /\ job.pc = "idle" /\ up # "down" /\ \A x \in Passes : Active(x) => x = p
      /\ \A x \in DOMAIN row : row[x].mtime # doc[x].mtime =>
           SameContent(x) /\ up = "boot" /\ (x \in q.todo \/ x = e)
  BY <1>1, PassAlone
<1>4. /\ q.op = "sync" \/ (q.op = "rebuild" /\ up = "up" /\ ~NoRebuild)
      /\ q.seen = dir /\ e \notin q.todo /\ e \in DOMAIN doc
      /\ q.got = [text |-> doc[e].text, meta |-> doc[e].meta]
      /\ q.op = "sync" => SyncOK(p)
  BY <1>1, PassSays
<1>5. /\ DOMAIN row' = DOMAIN row \union {e}
      /\ row'[e] = [text |-> doc[e].text, meta |-> doc[e].meta, mtime |-> doc[e].mtime]
      /\ \A x \in DOMAIN row : x # e => row'[x] = row[x]
  BY <1>4 DEF Replace, Insert, Put, MtimeOf
<1>6. e \in Entries /\ e \in dir
  BY <1>4, Numbers
<1>7. Become(p, r)
  BY <1>1, AloneStore DEF Kept
<1> HIDE DEF r
<1>8. /\ OneActor' /\ JobOK' /\ pass'[p] = r
      /\ \A x \in Passes : pass'[x].pc # "idle" => x = p
  BY <1>1, <1>2, <1>3, <1>7, PassKeeps
<1>9. StoresOK'
  BY <1>1, <1>4, <1>5, <1>6, Numbers DEF Kept, StoresOK
<1>10. StaleOK'
  <2>1. ASSUME NEW x \in Entries, Stale(x)'
        PROVE  x \in DOMAIN row /\ x # e /\ row'[x] = row[x] /\ row[x].mtime # doc[x].mtime
    BY <1>1, <1>5, <2>1 DEF Stale
  <2> QED BY <1>1, <1>2, <1>3, <1>8, <2>1 DEF StaleOK, SameContent, Active
<1>11. FatesOK'
  <2>1. ASSUME NEW x \in Entries, Live(x), NoRebuild
        PROVE  x \in DOMAIN row' /\ owed.entry[x].meta <= row'[x].meta
    <3>1. x \in DOMAIN row /\ owed.entry[x].meta <= row[x].meta
      BY <2>1 DEF Kept, FatesOK
    <3>2. CASE x = e
      <4>1. SameContent(e)
        BY <1>1, <1>3, <1>4, <2>1, <3>1, <3>2 DEF SyncOK, Stale
      <4> QED BY <1>5, <3>1, <3>2, <4>1 DEF SameContent
    <3>3. CASE x # e
      BY <1>5, <3>1, <3>3
    <3> QED BY <3>2, <3>3
  <2>2. \A x \in Entries : Live(x)' <=> Live(x)
    BY <1>1 DEF Live
  <2> QED BY <1>1, <1>5, <1>6, <2>1, <2>2 DEF Kept, FatesOK
<1>12. PassOK'
  <2>1. q.op = "sync" => SyncOK(p)'
    BY <1>1, <1>2, <1>4, <1>5, <1>8 DEF SyncOK
  <2> QED BY <1>1, <1>2, <1>4, <1>8, <2>1 DEF PassOK, Active
<1> QED BY <1>8, <1>9, <1>10, <1>11, <1>12 DEF Kept

-----------------------------------------------------------------------------
(* The invariant, and what it gives clients. *)

\* A crash loses what was running and keeps the stores.
LEMMA CrashKept ==
  ASSUME TypeOK, Kept, Crash
  PROVE  Kept'
<1>1. /\ up' = "down" /\ job'.pc = "idle" /\ \A p \in Passes : pass'[p].pc = "idle"
      /\ UNCHANGED <<dir, doc, row, ver, owed>>
  BY IdleTypes DEF Crash, stores, history
<1>2. OneActor' /\ PassOK' /\ JobOK'
  BY <1>1 DEF OneActor, PassOK, Active, JobOK, CreateOK, EditOK, UpdateOK, DeleteOK, At
<1>3. StoresOK' /\ FatesOK'
  BY <1>1 DEF Kept, StoresOK, FatesOK, Live
<1>4. StaleOK'
  BY <1>1 DEF Kept, StaleOK, Stale, SameContent, Active
<1> QED BY <1>2, <1>3, <1>4 DEF Kept

\* The daemon starts with nothing to keep.
LEMMA InitKept == Init => Kept
<1> SUFFICES ASSUME Init PROVE Kept
  OBVIOUS
<1>1. /\ dir = {} /\ DOMAIN doc = {} /\ DOMAIN row = {} /\ up = "up" /\ job.pc = "idle"
      /\ \A p \in Passes : pass[p].pc = "idle"
      /\ \A e \in Entries : owed.entry[e].fate = "none"
  BY IdleTypes DEF Init, Nothing
<1>2. OneActor /\ PassOK /\ JobOK
  BY <1>1 DEF OneActor, PassOK, Active, JobOK, CreateOK, EditOK, UpdateOK, DeleteOK, At
<1>3. StoresOK /\ FatesOK /\ StaleOK
  BY <1>1 DEF StoresOK, FatesOK, StaleOK, Live, Stale
<1> QED BY <1>2, <1>3 DEF Kept

\* Every step keeps the invariant.
LEMMA NextKept ==
  ASSUME TypeOK, Kept, SerialUse, [Next]_vars
  PROVE  Kept'
<1>1. CASE NewCall
  BY <1>1, CreateDirKept, UpdateKept, EditCommitKept, DeleteCommitKept, LinkKept DEF NewCall
<1>2. CASE JobStep
  BY <1>2, CreateKept, RenderKept, DeleteKept, AnswerKept DEF JobStep
<1>3. CASE World
  <2>1. \A kind : ~OutsideChange(kind)
    BY DEF SerialUse, OutsideChange
  <2> QED BY <1>3, <2>1, CrashKept, RestartKept DEF World, OutsideWrite, OutsideRemove
<1>4. ASSUME NEW p \in Passes, PassStep(p) PROVE Kept'
  <2>1. ~DropOrphan(p)
    <3>1. ASSUME DropOrphan(p) PROVE FALSE
      <4>1. Active(p) /\ pass[p].pc = "orphan"
        BY <3>1 DEF DropOrphan, In, Active
      <4> QED BY <4>1, PassSays
    <3> QED BY <3>1
  <2>2. \A e \in Entries : ~Sweep(p, e)
    <3>1. ASSUME NEW e \in Entries, Sweep(p, e) PROVE FALSE
      <4>1. Active(p) /\ pass[p].pc = "sweep" /\ e \in pass[p].todo
        BY <3>1 DEF Sweep, In, Active
      <4> QED BY <4>1, PassSays
    <3> QED BY <3>1
  <2> QED BY <1>4, <2>1, <2>2, ScanKept, VisitKept, ReadKept, WalkDoneKept, PassEndKept, WipeKept,
             ReplaceKept DEF PassStep
<1>5. ASSUME NEW p \in Passes, NEW op \in PassOps, PassStart(p, op) PROVE Kept'
  BY <1>5, PassStartKept
<1>6. CASE UNCHANGED vars
  BY <1>6 DEF vars, Kept, OneActor, StoresOK, StaleOK, JobOK, CreateOK, EditOK, UpdateOK,
     DeleteOK, PassOK, SyncOK, FatesOK, Active, Stale, SameContent, Live, At
<1> QED BY <1>1, <1>2, <1>3, <1>4, <1>5, <1>6 DEF Next

\* KeptInv is an invariant: without overlap and outside changes a row differs
\* from its file only in what the file lacks, and an entry whose mtimes differ
\* has the same content in both.
THEOREM KeptInvariance == Spec => []KeptInv
<1>1. Init => KeptInv
  BY InitKept DEF Kept, KeptInv
<1>2. TypeOK /\ KeptInv /\ [Next]_vars => KeptInv'
  <2> SUFFICES ASSUME TypeOK, KeptInv, [Next]_vars, SerialUse
               PROVE  Kept'
    BY DEF KeptInv, Kept, SerialUse
  <2> QED BY NextKept DEF KeptInv, Kept
<1> QED BY <1>1, <1>2, TypeCorrect, PTL DEF Spec

\* No row without a file, across every crash and failing step.
THEOREM RowsBacked == ASSUME SerialUse PROVE Spec => []RowBacked
<1>1. KeptInv => RowBacked
  BY SerialUse DEF KeptInv, StoresOK, RowBacked
<1> QED BY <1>1, KeptInvariance, PTL

\* A block edit that was answered stays in the file of a live entry, rebuilds
\* included.
THEOREM EditsStayInFile == ASSUME SerialUse PROVE Spec => []EditsInFile
<1>1. TypeOK /\ KeptInv => EditsInFile
  <2> SUFFICES ASSUME TypeOK, FatesOK, NEW e \in Entries, Live(e)
               PROVE  e \in DOMAIN doc /\ doc[e].text >= owed.entry[e].text
    BY SerialUse DEF KeptInv, EditsInFile
  <2> QED BY Numbers DEF FatesOK
<1> QED BY <1>1, KeptInvariance, TypeCorrect, PTL

\* While nobody rebuilds, an answered block edit stays in the index too.
THEOREM EditsStay == ASSUME SerialUse, NoRebuild PROVE Spec => []EditsDurable
<1>1. TypeOK /\ KeptInv /\ EditsInFile => EditsDurable
  <2> SUFFICES ASSUME TypeOK, KeptInv, EditsInFile, NEW e \in Entries, Live(e)
               PROVE  e \in DOMAIN row /\ row[e].text >= owed.entry[e].text
    BY DEF EditsDurable
  <2>1. e \in DOMAIN row /\ e \in DOMAIN doc /\ doc[e].text <= row[e].text
    BY SerialUse, NoRebuild DEF KeptInv, FatesOK, StoresOK
  <2>2. owed.entry[e].text <= doc[e].text
    BY SerialUse DEF KeptInv, FatesOK
  <2> QED BY <2>1, <2>2, Numbers
<1> QED BY <1>1, KeptInvariance, EditsStayInFile, TypeCorrect, PTL

\* While nobody rebuilds, an answered entry.update stays in the index, although
\* no file holds it: no sync re-indexes an entry whose file lacks something.
THEOREM UpdatesStay == ASSUME SerialUse, NoRebuild PROVE Spec => []MetaDurable
<1>1. TypeOK /\ KeptInv => MetaDurable
  <2> SUFFICES ASSUME TypeOK, FatesOK, NEW e \in Entries, Live(e)
               PROVE  e \in DOMAIN row /\ row[e].meta >= owed.entry[e].meta
    BY SerialUse DEF KeptInv, MetaDurable
  <2> QED BY NoRebuild, Numbers DEF FatesOK
<1> QED BY <1>1, KeptInvariance, TypeCorrect, PTL

\* An entry whose delete was answered does not come back.
THEOREM DeletesStay == ASSUME SerialUse PROVE Spec => []DeletesFinal
<1>1. KeptInv => DeletesFinal
  BY SerialUse DEF KeptInv, FatesOK, DeletesFinal
<1> QED BY <1>1, KeptInvariance, PTL


-----------------------------------------------------------------------------
(* What holds for every use of the daemon: index RPCs beside calls and beside *)
(* each other, and files that others edit, damage and remove.                 *)

\* A create that has yet to be answered has its file, unless somebody removed it, and
\* a delete is of an entry that clients were not told is there.
CreateHasFile == job.op = "create" /\ job.pc # "idle" =>
  /\ ~Live(job.e) /\ ver[job.e].text > 0
  /\ job.pc \in {"attach", "insert", "answer"} =>
       job.e \in DOMAIN doc \/ owed.entry[job.e].fate = "leaving"
DeleteIsKnown == job.op = "delete" /\ job.pc # "idle" => ~Live(job.e)
LiveHasFile == \A e \in Entries : Live(e) => e \in DOMAIN doc /\ ver[e].text > 0
FileInv == CreateHasFile /\ DeleteIsKnown /\ LiveHasFile

LEMMA FileStep == ASSUME TypeOK, FileInv, [Next]_vars PROVE FileInv'
<1> USE DEF FileInv
<1>1. TypeOK'  BY NextType
<1>2. /\ job.pc # "idle" => job.e \in Entries
      /\ \A e \in Entries : ver[e].text \in Nat /\ owed.entry[e] \in OwedRecord
      /\ ver \in [Entries -> Content] /\ DOMAIN owed.entry = Entries
  BY DEF TypeOK, JobType, HistoryType, Content
<1>3. ASSUME UNCHANGED <<doc, job, ver, owed>> PROVE FileInv'
  BY <1>3 DEF CreateHasFile, DeleteIsKnown, LiveHasFile, Live
<1>4. ASSUME UNCHANGED <<doc, ver, owed>>, job'.pc = "idle" PROVE FileInv'
  BY <1>4 DEF CreateHasFile, DeleteIsKnown, LiveHasFile, Live
<1>5. IdleJob.pc = "idle"  BY IdleTypes
<1>6. ASSUME NEW e \in Entries, CreateDir(e) PROVE FileInv'
  <2>1. /\ job'.op = "create" /\ job'.pc = "write" /\ job'.e = e /\ UNCHANGED <<doc, owed>>
        /\ ver[e].text = 0
    BY <1>6 DEF CreateDir, IdleJob
  <2>2. ver'[e].text = 1 /\ \A x \in Entries : x # e => ver'[x] = ver[x]
    BY <1>2, <1>6 DEF CreateDir
  <2>3. ~Live(e)  BY <2>1 DEF LiveHasFile
  <2> QED  BY <2>1, <2>2, <2>3 DEF CreateHasFile, DeleteIsKnown, LiveHasFile, Live
<1>7. ASSUME NEW e \in Entries, Update(e) \/ EditCommit(e) PROVE FileInv'
  <2>1. job'.op \in {"update", "edit"} /\ UNCHANGED <<doc, owed>>
    BY <1>7 DEF Update, EditCommit, IdleJob
  <2>2. \A x \in Entries : ver'[x].text >= ver[x].text
    BY <1>2, <1>7 DEF Update, EditCommit, Content
  <2>3. \A x \in Entries : ver'[x].text \in Nat  BY <1>1 DEF TypeOK, HistoryType, Content
  <2> QED  BY <1>2, <2>1, <2>2, <2>3 DEF CreateHasFile, DeleteIsKnown, LiveHasFile, Live
<1>8. ASSUME NEW e \in Entries, DeleteCommit(e) PROVE FileInv'
  <2>1. job'.op = "delete" /\ job'.e = e /\ UNCHANGED <<doc, ver>> /\ owed' = Leaving(e)
    BY <1>8 DEF DeleteCommit, IdleJob
  <2>2. owed'.entry = [owed.entry EXCEPT ![e].fate = "leaving"]
    BY <2>1, LeavingType DEF TypeOK
  <2>3. owed'.entry[e].fate = "leaving" /\ \A x \in Entries : x # e => owed'.entry[x] = owed.entry[x]
    BY <1>2, <2>2 DEF OwedRecord
  <2> QED  BY <2>1, <2>3 DEF CreateHasFile, DeleteIsKnown, LiveHasFile, Live
<1>9. ASSUME NEW a \in Entries, NEW b \in Entries, Link(a, b) PROVE FileInv'
  <2>1. UNCHANGED <<doc, job, ver>> /\ owed'.entry = owed.entry
    BY <1>9 DEF Link, TypeOK, HistoryType
  <2> QED  BY <2>1 DEF CreateHasFile, DeleteIsKnown, LiveHasFile, Live
<1>10. ASSUME CreateWrite PROVE FileInv'
  <2>1. At("create", "write") /\ Goto("attach") /\ UNCHANGED <<ver, owed>>
        /\ doc' = Put(doc, job.e, [text |-> 1, meta |-> 1, mtime |-> clock + 1, ok |-> TRUE])
    BY <1>10 DEF CreateWrite, history
  <2>2. job'.op = "create" /\ job'.e = job.e /\ job.op = "create" /\ job.pc = "write"
    BY <2>1, GotoType DEF TypeOK, At
  <2>3. DOMAIN doc' = DOMAIN doc \union {job.e}  BY <2>1 DEF Put
  <2> QED  BY <2>1, <2>2, <2>3 DEF CreateHasFile, DeleteIsKnown, LiveHasFile, Live
<1>11. ASSUME CreateAttach PROVE FileInv'
  <2>1. job.pc = "attach" /\ job.op = "create" /\ UNCHANGED <<doc, ver, owed>>
        /\ (Goto("insert") \/ Goto("undo"))
    BY <1>11 DEF CreateAttach, stores, history, At
  <2>2. job'.op = job.op /\ job'.e = job.e  BY <2>1, GotoType DEF TypeOK
  <2> QED  BY <2>1, <2>2 DEF CreateHasFile, DeleteIsKnown, LiveHasFile, Live
<1>12. ASSUME CreateUndo PROVE FileInv'
  <2>1. job'.pc = "idle" /\ UNCHANGED <<ver, owed>> /\ DOMAIN doc' = DOMAIN doc \ {job.e}
        /\ job.op = "create" /\ job.pc = "undo"
    BY <1>5, <1>12 DEF CreateUndo, Drop, history, At
  <2> QED  BY <2>1 DEF CreateHasFile, DeleteIsKnown, LiveHasFile, Live
<1>13. ASSUME CreateInsert PROVE FileInv'
  <2>1. job.pc = "insert" /\ job.op = "create" /\ UNCHANGED <<doc, ver, owed>> /\ Goto("answer")
    BY <1>13 DEF CreateInsert, history, At
  <2>2. job'.op = job.op /\ job'.e = job.e  BY <2>1, GotoType DEF TypeOK
  <2> QED  BY <2>1, <2>2 DEF CreateHasFile, DeleteIsKnown, LiveHasFile, Live
<1>14. ASSUME CreateWriteFails \/ CreateInsertFails \/ RenderWriteFails PROVE FileInv'
  BY <1>4, <1>5, <1>14 DEF CreateWriteFails, CreateInsertFails, RenderWriteFails, stores, history
<1>15. ASSUME RenderGetRow \/ RenderGetBlocks \/ RenderStat \/ RenderStamp PROVE FileInv'
  <2>1. job.op = "edit" /\ UNCHANGED <<doc, ver, owed>>
    BY <1>15 DEF RenderGetRow, RenderGetBlocks, RenderStat, RenderStamp, stores, history, At
  <2>2. job \in JobRecord  BY DEF TypeOK, JobType
  <2>3. job'.op = "edit" \/ job'.pc = "idle"
    BY <1>5, <1>15, <2>1, <2>2
       DEF RenderGetRow, RenderGetBlocks, RenderStat, RenderStamp, Goto, JobRecord
  <2> QED  BY <2>1, <2>3 DEF CreateHasFile, DeleteIsKnown, LiveHasFile, Live
<1>16. ASSUME RenderWrite PROVE FileInv'
  <2>1. job.op = "edit" /\ Goto("stat") /\ UNCHANGED <<ver, owed>> /\ DOMAIN doc' = DOMAIN doc \union {job.e}
    BY <1>16 DEF RenderWrite, Put, history, At
  <2>2. job'.op = "edit"  BY <2>1, GotoType DEF TypeOK
  <2> QED  BY <2>1, <2>2 DEF CreateHasFile, DeleteIsKnown, LiveHasFile, Live
<1>17. ASSUME RemoveDoc \/ RemoveDir PROVE FileInv'
  <2>1. /\ job.op = "delete" /\ job.pc # "idle" /\ UNCHANGED <<ver, owed>>
        /\ DOMAIN doc' = DOMAIN doc \ {job.e} \/ doc' = doc
        /\ Goto("removeDir") \/ Goto("answer") \/ job' = IdleJob
    BY <1>17 DEF RemoveDoc, RemoveDir, Drop, history, At
  <2>2. job'.pc = "idle" \/ (job'.op = "delete" /\ job'.e = job.e)
    BY <1>5, <2>1, GotoType DEF TypeOK
  <2>3. ~Live(job.e)  BY <2>1 DEF DeleteIsKnown
  <2> QED  BY <2>1, <2>2, <2>3 DEF CreateHasFile, DeleteIsKnown, LiveHasFile, Live
<1>18. ASSUME Answer PROVE FileInv'
  <2>1. job.pc = "answer" /\ job.e \in Entries /\ job'.pc = "idle" /\ UNCHANGED <<doc, ver>>
        /\ job.op \in {"create", "update", "edit", "delete"}
        /\ owed' = [owed EXCEPT !.entry[job.e] = Told]
    BY <1>5, <1>18 DEF Answer, stores, TypeOK, JobType
  <2>2. owed'.entry[job.e] = Told /\ \A x \in Entries : x # job.e => owed'.entry[x] = owed.entry[x]
    BY <2>1 DEF TypeOK, HistoryType
  <2>3. Told.fate = "live" => Live(job.e) \/ (job.op = "create" /\ owed.entry[job.e].fate # "leaving")
    BY <1>2, <2>1 DEF Told, Live, OwedRecord
  <2>4. Told.fate = "live" => job.e \in DOMAIN doc /\ ver[job.e].text > 0
    BY <2>1, <2>3 DEF CreateHasFile, LiveHasFile
  <2> QED  BY <2>1, <2>2, <2>4 DEF CreateHasFile, DeleteIsKnown, LiveHasFile, Live
<1>19. ASSUME NEW p \in Passes, PassStep(p) PROVE FileInv'
  <2>1. UNCHANGED <<doc, job, ver, owed>>
    BY <1>19 DEF PassStep, Wipe, Scan, Snapshot, Read, ReadFails, Replace, DropOrphan, WalkDone, Sweep,
                 SweepDone, PassEnd, VisitSkips, VisitReindexes, VisitOrphan, Visit, UnchangedByPass
  <2> QED  BY <1>3, <2>1
<1>20. ASSUME NEW p \in Passes, NEW op \in PassOps, PassStart(p, op) PROVE FileInv'
  BY <1>3, <1>20 DEF PassStart, UnchangedByPass
<1>21. ASSUME Crash PROVE FileInv'  BY <1>4, <1>5, <1>21 DEF Crash, stores, history
<1>22. ASSUME NEW p \in Passes, Restart(p) PROVE FileInv'
  BY <1>3, <1>22 DEF Restart, stores, history
<1>23. ASSUME NEW e \in Entries, OutsideRemove(e) PROVE FileInv'
  <2>1. UNCHANGED <<job, ver>> /\ DOMAIN doc' = DOMAIN doc \ {e} /\ owed' = Leaving(e)
    BY <1>23 DEF OutsideRemove, Drop
  <2>2. owed'.entry = [owed.entry EXCEPT ![e].fate = "leaving"]
    BY <2>1, LeavingType DEF TypeOK
  <2>3. owed'.entry[e].fate = "leaving" /\ \A x \in Entries : x # e => owed'.entry[x] = owed.entry[x]
    BY <1>2, <2>2 DEF OwedRecord
  <2> QED  BY <1>2, <2>1, <2>3 DEF CreateHasFile, DeleteIsKnown, LiveHasFile, Live
<1>24. ASSUME NEW e \in Entries, NEW kind, OutsideWrite(kind, e) PROVE FileInv'
  <2>1. UNCHANGED <<job, owed>> /\ DOMAIN doc' = DOMAIN doc
    BY <1>24 DEF OutsideWrite
  <2>2. \A x \in Entries : ver'[x].text >= ver[x].text /\ ver'[x].text \in Nat
    BY <1>2, <1>24 DEF OutsideWrite
  <2> QED  BY <1>2, <2>1, <2>2 DEF CreateHasFile, DeleteIsKnown, LiveHasFile, Live
<1>25. ASSUME UNCHANGED vars PROVE FileInv'  BY <1>3, <1>25 DEF vars
<1> HIDE DEF FileInv
<1>26. ASSUME NewCall PROVE FileInv'  BY <1>6, <1>7, <1>8, <1>9, <1>26 DEF NewCall
<1>27. ASSUME JobStep PROVE FileInv'
  BY <1>10, <1>11, <1>12, <1>13, <1>14, <1>15, <1>16, <1>17, <1>18, <1>27 DEF JobStep
<1>28. ASSUME World PROVE FileInv'  BY <1>21, <1>22, <1>23, <1>24, <1>28 DEF World
<1> QED  BY <1>19, <1>20, <1>25, <1>26, <1>27, <1>28 DEF Next

\* No pass, no crash and no failing step costs a live entry its file, whatever overlaps
\* whatever: the index can be had again from the files.
THEOREM FilesStay == Spec => []FilesSurvive
<1>1. Init => FileInv
  BY IdleTypes DEF Init, FileInv, CreateHasFile, DeleteIsKnown, LiveHasFile, Live
<1>2. TypeOK /\ FileInv /\ [Next]_vars => FileInv'  BY FileStep
<1>3. FileInv => FilesSurvive  BY DEF FileInv, LiveHasFile, FilesSurvive
<1> QED  BY <1>1, <1>2, <1>3, TypeCorrect, PTL DEF Spec

-----------------------------------------------------------------------------
(* Links, which no file holds: a row that is replaced takes its links with it. *)

\* A link has both its ends in the index; until the daemon is killed it serves, and
\* knows every link that it answered.
LinkEnds == \A l \in links : l[1] \in DOMAIN row /\ l[2] \in DOMAIN row
LinkInv == LinkEnds /\ (counts.crashes = 0 => up = "up" /\ owed.links \subseteq links)

\* A step that costs the index no row and no link.
LEMMA LinkSame ==
  ASSUME LinkInv, links' = links, DOMAIN row \subseteq DOMAIN row', owed'.links = owed.links,
         counts'.crashes = counts.crashes, up' = up \/ up' = "up"
  PROVE  LinkInv'
BY DEF LinkInv, LinkEnds

\* A sync that meets an up-to-date index replaces rows of entries that it did not know,
\* and those have no links.
LEMMA LinkReplace ==
  ASSUME TypeOK, Kept, NoRebuild, LinkInv, NEW p \in Passes, Replace(p)
  PROVE  LinkInv'
<1> DEFINE e == pass[p].e
<1>1. /\ Active(p) /\ pass[p].pc = "replace" /\ UNCHANGED <<owed, up, counts>>
      /\ DOMAIN row' = DOMAIN row \union {e} /\ links' = links \ Touching(e, links)
  BY DEF Replace, In, Active, UnchangedByPass, Insert, Put
<1>2. e \in DOMAIN row => row[e].mtime # doc[e].mtime
  BY <1>1, PassSays DEF SyncOK, Stale
<1>3. up = "up" => e \notin DOMAIN row
  BY <1>1, <1>2, PassAlone
<1>4. up = "up" => Touching(e, links) = {}
  BY <1>3 DEF LinkInv, LinkEnds, Touching
<1> QED BY <1>1, <1>4 DEF LinkInv, LinkEnds

LEMMA LinkStep ==
  ASSUME TypeOK, Kept, SerialUse, NoRebuild, LinkInv, [Next]_vars
  PROVE  LinkInv'
<1>1. counts \in CountsRecord /\ DOMAIN owed = {"entry", "links"}
  BY DEF TypeOK, HistoryType
<1>2. ASSUME NEW e \in Entries, CreateDir(e) \/ Update(e) \/ EditCommit(e) PROVE LinkInv'
  <2>1. links' = links /\ DOMAIN row' = DOMAIN row /\ UNCHANGED <<owed, up>>
    BY <1>2 DEF CreateDir, Update, EditCommit, Startable
  <2>2. counts'.crashes = counts.crashes
    BY <1>1, <1>2 DEF CreateDir, Update, EditCommit, Startable, CountsRecord
  <2> QED BY <2>1, <2>2, LinkSame
<1>3. ASSUME NEW e \in Entries, DeleteCommit(e) PROVE LinkInv'
  <2>1. /\ DOMAIN row' = DOMAIN row \ {e} /\ links' = links \ Touching(e, links) /\ up' = up
        /\ owed' = Leaving(e)
    BY <1>3 DEF DeleteCommit, DeleteRow, Drop
  <2>2. owed'.links = owed.links \ Touching(e, owed.links)
    BY <1>1, <2>1 DEF Leaving
  <2>3. counts'.crashes = counts.crashes
    BY <1>1, <1>3 DEF DeleteCommit, Startable, CountsRecord
  <2>4. owed.links \subseteq links => owed'.links \subseteq links'
    BY <2>1, <2>2 DEF Touching
  <2> QED BY <2>1, <2>3, <2>4 DEF LinkInv, LinkEnds, Touching
<1>4. ASSUME NEW a \in Entries, NEW b \in Entries, Link(a, b) PROVE LinkInv'
  <2>1. /\ row' = row /\ links' = links \union {<<a, b>>} /\ up' = up
        /\ a \in DOMAIN row /\ b \in DOMAIN row
    BY <1>4 DEF Link
  <2>2. owed'.links = owed.links \union {<<a, b>>} /\ counts'.crashes = counts.crashes
    BY <1>1, <1>4 DEF Link, CountsRecord
  <2> QED BY <2>1, <2>2 DEF LinkInv, LinkEnds
<1>5. ASSUME JobStep PROVE LinkInv'
  <2>1. links' = links /\ UNCHANGED <<up, counts>>
    BY <1>5 DEF JobStep, CreateWrite, CreateWriteFails, CreateAttach, CreateUndo, CreateInsert,
       CreateInsertFails, RenderGetRow, RenderGetBlocks, RenderWrite, RenderWriteFails, RenderStat,
       RenderStamp, RemoveDoc, RemoveDir, Answer, stores
  <2>2. DOMAIN row \subseteq DOMAIN row'
    <3>1. ASSUME CreateInsert \/ RenderStamp PROVE DOMAIN row \subseteq DOMAIN row'
      BY <3>1 DEF CreateInsert, RenderStamp, Insert, Put
    <3>2. ASSUME ~CreateInsert, ~RenderStamp PROVE row' = row
      BY <1>5, <3>2 DEF JobStep, CreateWrite, CreateWriteFails, CreateAttach, CreateUndo,
         CreateInsertFails, RenderGetRow, RenderGetBlocks, RenderWrite, RenderWriteFails, RenderStat,
         RemoveDoc, RemoveDir, Answer, stores
    <3> QED BY <3>1, <3>2
  <2>3. owed'.links = owed.links
    <3>1. ASSUME Answer PROVE owed'.links = owed.links
      BY <1>1, <3>1 DEF Answer
    <3>2. ASSUME ~Answer PROVE owed' = owed
      BY <1>5, <3>2 DEF JobStep, CreateWrite, CreateWriteFails, CreateAttach, CreateUndo, CreateInsert,
         CreateInsertFails, RenderGetRow, RenderGetBlocks, RenderWrite, RenderWriteFails, RenderStat,
         RenderStamp, RemoveDoc, RemoveDir, history
    <3> QED BY <3>1, <3>2
  <2> QED BY <2>1, <2>2, <2>3, LinkSame
<1>6. ASSUME NEW p \in Passes, PassStep(p) PROVE LinkInv'
  <2>1. CASE Replace(p)
    BY <2>1, LinkReplace
  <2>2. ASSUME ~Replace(p) PROVE LinkInv'
    <3>1. ~Wipe(p) /\ ~DropOrphan(p) /\ \A e \in Entries : ~Sweep(p, e)
      <4>1. Active(p) => pass[p].pc \notin {"wipe", "orphan"} /\ (pass[p].pc = "sweep" => pass[p].todo = {})
        BY PassSays DEF NoRebuild
      <4> QED BY <4>1 DEF Wipe, DropOrphan, Sweep, In, Active
    <3>2. UNCHANGED <<row, links, counts, owed>> /\ (up' = up \/ up' = "up")
      BY <1>6, <2>2, <3>1 DEF PassStep, Scan, Snapshot, Read, ReadFails, WalkDone, SweepDone, PassEnd,
         VisitSkips, VisitReindexes, VisitOrphan, Visit, UnchangedByPass, Unstored
    <3> QED BY <3>2, LinkSame
  <2> QED BY <2>1, <2>2
<1>7. ASSUME NEW p \in Passes, NEW op \in PassOps, PassStart(p, op) PROVE LinkInv'
  <2>1. counts'.crashes = counts.crashes
    BY <1>1, <1>7 DEF PassStart, CountsRecord
  <2> QED BY <1>7, <2>1, LinkSame DEF PassStart, UnchangedByPass
<1>8. ASSUME World PROVE LinkInv'
  <2>1. ASSUME Crash PROVE LinkInv'
    <3>1. counts'.crashes = counts.crashes + 1 /\ counts.crashes \in Nat
      BY <1>1, <2>1 DEF Crash, CountsRecord
    <3> QED BY <2>1, <3>1 DEF Crash, stores, LinkInv, LinkEnds
  <2>2. ASSUME NEW p \in Passes, Restart(p) PROVE LinkInv'
    BY <2>2 DEF Restart, stores, LinkInv, LinkEnds
  <2>3. \A e \in Entries : ~OutsideRemove(e) /\ \A kind \in Outside : ~OutsideWrite(kind, e)
    BY DEF SerialUse, OutsideRemove, OutsideChange
  <2> QED BY <1>8, <2>1, <2>2, <2>3 DEF World
<1>9. CASE UNCHANGED vars
  BY <1>9 DEF vars, LinkInv, LinkEnds
<1>10. ASSUME NewCall PROVE LinkInv'  BY <1>2, <1>3, <1>4, <1>10 DEF NewCall
<1> QED BY <1>5, <1>6, <1>7, <1>8, <1>9, <1>10 DEF Next

\* While the daemon is not killed and nobody rebuilds, an answered link.create stays until
\* one of its ends is deleted: the syncs that clients ask for replace no row that is
\* up to date.
THEOREM LinksStay == ASSUME SerialUse, NoRebuild PROVE Spec => []LinksKept
<1>1. Init => LinkInv
  BY DEF Init, LinkInv, LinkEnds
<1>2. TypeOK /\ KeptInv /\ LinkInv /\ [Next]_vars => LinkInv'
  BY SerialUse, NoRebuild, LinkStep DEF KeptInv, Kept
<1>3. LinkInv => LinksKept
  BY DEF LinkInv, LinksKept
<1> QED BY <1>1, <1>2, <1>3, KeptInvariance, TypeCorrect, PTL DEF Spec

-----------------------------------------------------------------------------
(* What a pass has done so far, when nothing else touched the stores while it  *)
(* ran: whatever was in the index before it, and whatever else was going on.   *)

\* What a sync and what a rebuild are to make true of an entry.
Synced(e) == /\ e \in DOMAIN row <=> e \in DOMAIN doc
             /\ e \in DOMAIN row => row[e].mtime = doc[e].mtime
Rebuilt(e) ==
  /\ e \in DOMAIN row <=> Readable(e)
  /\ e \in DOMAIN row => row[e] = [text |-> doc[e].text, meta |-> doc[e].meta, mtime |-> doc[e].mtime]

\* In phase 1 the snapshot holds of the entries still to be visited, those visited are
\* in step, and rows without a directory are left for phase 2.
SyncVisits(q) == q.pc \in {"walk", "read", "replace", "orphan"} =>
  /\ q.todo \subseteq dir
  /\ \A e \in q.todo : \A m \in Nat : <<e, m>> \in q.snap <=> e \in DOMAIN row /\ m = row[e].mtime
  /\ \A e \in DOMAIN row \ dir : e \in Ids(q.snap)
  /\ \A e \in dir \ q.todo : q.pc = "walk" \/ e # q.e => Synced(e)
  /\ q.pc # "walk" => q.e \in dir \ q.todo
  /\ q.pc \in {"read", "replace"} => q.e \in DOMAIN doc
  /\ q.pc = "orphan" => q.e \notin DOMAIN doc

SyncSays(q) ==
  /\ q.pc # "wipe"
  /\ q.pc # "scan" => q.seen = dir
  /\ q.pc = "snapshot" => q.todo = dir
  /\ SyncVisits(q)
  /\ q.pc = "sweep" => /\ \A e \in dir : Synced(e)
                       /\ DOMAIN row \ dir \subseteq q.todo /\ q.todo \intersect dir = {}
  /\ q.pc = "done" /\ q.ok => \A e \in Entries : Synced(e)

RebuildVisits(q) == q.pc \in {"walk", "read", "replace"} =>
  /\ q.todo \subseteq dir /\ DOMAIN row \subseteq dir \ q.todo
  /\ \A e \in dir \ q.todo : q.pc = "walk" \/ e # q.e => Rebuilt(e)
  /\ q.pc # "walk" => q.e \in dir \ q.todo /\ q.e \notin DOMAIN row
  /\ q.pc = "replace" => /\ Readable(q.e)
                         /\ q.got = [text |-> doc[q.e].text, meta |-> doc[q.e].meta]

RebuildSays(q) ==
  /\ q.pc \notin {"snapshot", "orphan", "sweep"}
  /\ q.pc = "scan" => DOMAIN row = {}
  /\ RebuildVisits(q)
  /\ q.pc = "done" => \A e \in Entries : Rebuilt(e)

Done(q) == q.pc # "idle" /\ q.alone => \/ q.op = "sync" /\ SyncSays(q)
                                       \/ q.op = "rebuild" /\ RebuildSays(q)
ConvInv == \A p \in Passes : Done(pass[p])

\* What a pass that nobody disturbed has done stays done.
LEMMA Undisturbed ==
  ASSUME NEW q, Done(q), UNCHANGED <<dir, doc, row>>
  PROVE  Done(q)'
BY DEF Done, SyncSays, SyncVisits, RebuildSays, RebuildVisits, Synced, Rebuilt, Readable

\* A step of another actor is noticed, or leaves files and rows alone.
LEMMA OtherConv ==
  ASSUME ConvInv, NEW p \in Passes, NEW q, q = pass[p],
         \/ pass'[p] = q /\ UNCHANGED <<dir, doc, row>>
         \/ pass'[p] = q /\ q.pc = "idle"
         \/ pass'[p] = [q EXCEPT !.alone = FALSE] /\ q \in PassRecord
         \/ pass'[p].pc = "idle"
  PROVE  Done(pass[p])'
<1>1. CASE pass'[p] = q /\ UNCHANGED <<dir, doc, row>>
  BY <1>1, Undisturbed DEF ConvInv
<1>2. CASE pass'[p].pc = "idle"
  BY <1>2 DEF Done
<1>3. CASE pass'[p] = [q EXCEPT !.alone = FALSE] /\ q \in PassRecord
  <2>1. pass'[p].alone = FALSE
    BY <1>3 DEF PassRecord
  <2> QED BY <2>1 DEF Done
<1> QED BY <1>1, <1>2, <1>3

\* Handlers and outsiders are noticed by every pass that runs.
LEMMA NoticedConv ==
  ASSUME TypeOK, ConvInv, pass' = Seen(NoEntry)
  PROVE  ConvInv'
<1> SUFFICES ASSUME NEW p \in Passes PROVE Done(pass[p])'
  BY DEF ConvInv
<1>1. p # NoEntry /\ pass[p] \in PassRecord
  BY ConstantsAssumption, PassFacts
<1>2. pass'[p] = IF pass[p].pc = "idle" THEN pass[p] ELSE [pass[p] EXCEPT !.alone = FALSE]
  BY <1>1 DEF Seen
<1> QED BY <1>1, <1>2, OtherConv

\* A step that leaves files, rows and passes alone.
LEMMA SameConv ==
  ASSUME ConvInv, UNCHANGED <<dir, doc, row, pass>>
  PROVE  ConvInv'
BY OtherConv DEF ConvInv

\* The step of one pass: the others notice that it changed the index, if it did.
LEMMA OwnConv ==
  ASSUME TypeOK, ConvInv, NEW p \in Passes, NEW r, Store(p, r) \/ (Become(p, r) /\ row' = row),
         UNCHANGED <<dir, doc>>, Done(r)'
  PROVE  ConvInv'
<1> SUFFICES ASSUME NEW x \in Passes PROVE Done(pass[x])'
  BY DEF ConvInv
<1>1. pass[x] \in PassRecord /\ DOMAIN pass = Passes
  BY PassFacts DEF TypeOK, PassType
<1>2. CASE x = p
  <2>1. pass'[x] = r
    BY <1>1, <1>2 DEF Store, Become, Seen
  <2> QED BY <2>1
<1>3. CASE x # p /\ Store(p, r)
  <2>1. pass'[x] = IF pass[x].pc = "idle" THEN pass[x] ELSE [pass[x] EXCEPT !.alone = FALSE]
    BY <1>1, <1>3 DEF Store, Seen
  <2> QED BY <1>1, <2>1, OtherConv
<1>4. CASE x # p /\ Become(p, r) /\ row' = row
  <2>1. pass'[x] = pass[x]
    BY <1>1, <1>4 DEF Become
  <2> QED BY <1>4, <2>1, OtherConv
<1> QED BY <1>2, <1>3, <1>4

\* What is said of a pass that runs alone.
LEMMA DoneSays ==
  ASSUME TypeOK, ConvInv, NEW p \in Passes, pass[p].pc # "idle", pass[p].alone
  PROVE  \/ pass[p].op = "sync" /\ SyncSays(pass[p])
         \/ pass[p].op = "rebuild" /\ RebuildSays(pass[p])
BY DEF ConvInv, Done

\* The steps before the walk.
LEMMA BeforeConv ==
  ASSUME TypeOK, ConvInv, NEW p \in Passes, Wipe(p) \/ Scan(p) \/ Snapshot(p)
  PROVE  ConvInv'
<1> DEFINE q == pass[p]
<1>1. q \in PassRecord /\ q.pc # "idle" /\ DOMAIN row \subseteq Entries
  BY PassFacts, Numbers DEF Wipe, Scan, Snapshot, In
<1>2. CASE Wipe(p)
  <2>1. PICK r : r = [q EXCEPT !.pc = "scan"]
    OBVIOUS
  <2>2. Store(p, r) /\ UNCHANGED <<dir, doc>> /\ DOMAIN row' = {} /\ q.pc = "wipe"
    BY <1>2, <2>1 DEF Wipe, UnchangedByPass, Nothing, In
  <2>3. r.pc = "scan" /\ r.op = q.op /\ r.alone = q.alone
    BY <1>1, <2>1 DEF PassRecord
  <2>4. Done(r)'
    <3> SUFFICES ASSUME q.alone PROVE Done(r)'
      BY <2>3 DEF Done
    <3>1. q.op = "rebuild"
      BY <1>1, <2>2, DoneSays DEF SyncSays
    <3> QED BY <2>2, <2>3, <3>1 DEF Done, RebuildSays, RebuildVisits
  <2> QED BY <2>2, <2>4, OwnConv
<1>3. CASE Scan(p)
  <2>1. PICK r : r = [q EXCEPT !.todo = dir, !.seen = dir,
                        !.pc = IF q.op = "sync" THEN "snapshot" ELSE "walk"]
    OBVIOUS
  <2>2. Become(p, r) /\ UNCHANGED <<dir, doc, row>> /\ q.pc = "scan"
    BY <1>3, <2>1 DEF Scan, UnchangedByPass, Unstored, In
  <2>3. /\ r.pc = IF q.op = "sync" THEN "snapshot" ELSE "walk"
        /\ r.op = q.op /\ r.alone = q.alone /\ r.todo = dir /\ r.seen = dir
    BY <1>1, <2>1 DEF PassRecord
  <2>4. Done(r)'
    <3> SUFFICES ASSUME q.alone PROVE Done(r)'
      BY <2>3 DEF Done
    <3>1. CASE q.op = "sync"
      BY <2>2, <2>3, <3>1 DEF Done, SyncSays, SyncVisits
    <3>2. CASE q.op = "rebuild" /\ DOMAIN row = {}
      BY <2>2, <2>3, <3>2 DEF Done, RebuildSays, RebuildVisits
    <3> QED BY <1>1, <2>2, <3>1, <3>2, DoneSays DEF RebuildSays
  <2> QED BY <2>2, <2>4, OwnConv
<1>4. CASE Snapshot(p)
  <2>1. PICK r : r = [q EXCEPT !.snap = {<<e, row[e].mtime>> : e \in DOMAIN row}, !.pc = "walk"]
    OBVIOUS
  <2>2. Become(p, r) /\ UNCHANGED <<dir, doc, row>> /\ q.pc = "snapshot"
    BY <1>4, <2>1 DEF Snapshot, UnchangedByPass, Unstored, In
  <2>3. /\ r.pc = "walk" /\ r.op = q.op /\ r.alone = q.alone /\ r.todo = q.todo /\ r.seen = q.seen
        /\ r.snap = {<<e, row[e].mtime>> : e \in DOMAIN row}
    BY <1>1, <2>1 DEF PassRecord
  <2>4. Done(r)'
    <3> SUFFICES ASSUME q.alone PROVE Done(r)'
      BY <2>3 DEF Done
    <3>1. q.op = "sync" /\ q.todo = dir /\ q.seen = dir
      BY <1>1, <2>2, DoneSays DEF SyncSays, RebuildSays
    <3>2. \A e, m : <<e, m>> \in r.snap <=> e \in DOMAIN row /\ m = row[e].mtime
      BY <2>3
    <3>3. \A e \in DOMAIN row : e \in Ids(r.snap)
      <4> SUFFICES ASSUME NEW e \in DOMAIN row PROVE e \in Ids(r.snap)
        OBVIOUS
      <4>1. <<e, row[e].mtime>> \in r.snap /\ <<e, row[e].mtime>>[1] = e
        BY <2>3
      <4> QED BY <4>1 DEF Ids
    <3>4. SyncSays(r)
      BY <2>2, <2>3, <3>1, <3>2, <3>3 DEF SyncSays, SyncVisits
    <3> QED BY <2>2, <2>3, <3>1, <3>4, Undisturbed DEF Done
  <2> QED BY <2>2, <2>4, OwnConv
<1> QED BY <1>2, <1>3, <1>4

\* One entry is taken from the list: it is in step, or what comes next is for it.
LEMMA VisitConv ==
  ASSUME TypeOK, ConvInv, NEW p \in Passes, NEW e \in Entries,
         VisitSkips(p, e) \/ VisitReindexes(p, e) \/ VisitOrphan(p, e)
  PROVE  ConvInv'
<1> DEFINE q == pass[p]
<1>1. /\ q \in PassRecord /\ DOMAIN row \subseteq Entries
      /\ \A x \in DOMAIN doc : doc[x].mtime \in Nat
      /\ \A x \in DOMAIN row : row[x].mtime \in Nat
  BY PassFacts, Numbers
<1>2. PICK pc \in {"walk", "read", "orphan"} :
        /\ Visit(p, e, pc)
        /\ pc = "walk" => q.op = "sync" /\ (Unchanged(p, e) \/ (e \notin DOMAIN doc /\ ~Known(p, e)))
        /\ pc = "read" => q.op = "rebuild" \/ (e \in DOMAIN doc /\ ~Unchanged(p, e))
        /\ pc = "orphan" => q.op = "sync" /\ e \notin DOMAIN doc
  BY DEF VisitSkips, VisitReindexes, VisitOrphan
<1>3. PICK r : r = [q EXCEPT !.todo = q.todo \ {e}, !.e = e, !.pc = pc]
  OBVIOUS
<1>4. Become(p, r) /\ UNCHANGED <<dir, doc, row>> /\ q.pc = "walk" /\ e \in q.todo
  BY <1>2, <1>3 DEF Visit, UnchangedByPass, Unstored, In
<1>5. /\ r.pc = pc /\ r.op = q.op /\ r.alone = q.alone /\ r.todo = q.todo \ {e} /\ r.e = e
      /\ r.seen = q.seen /\ r.snap = q.snap
  BY <1>1, <1>3 DEF PassRecord
<1>6. Done(r)'
  <2> SUFFICES ASSUME q.alone PROVE Done(r)'
    BY <1>5 DEF Done
  <2>1. CASE q.op = "sync"
    <3>1. SyncSays(q) /\ SyncVisits(q)
      BY <1>4, <2>1, DoneSays DEF SyncSays
    <3>2. \A m \in Nat : <<e, m>> \in q.snap <=> e \in DOMAIN row /\ m = row[e].mtime
      BY <1>4, <3>1 DEF SyncVisits
    <3>3. pc = "walk" => Synced(e)
      <4>1. CASE Unchanged(p, e)
        BY <1>1, <3>2, <4>1 DEF Unchanged, Synced
      <4>2. CASE e \notin DOMAIN doc /\ ~Known(p, e)
        <5>1. e \in DOMAIN row => <<e, row[e].mtime>> \in q.snap /\ <<e, row[e].mtime>>[1] = e
          BY <1>1, <3>2
        <5> QED BY <4>2, <5>1 DEF Known, Ids, Synced
      <4> QED BY <1>2, <4>1, <4>2
    <3>4. pc = "read" => e \in DOMAIN doc
      BY <1>2, <2>1
    <3>5. \A x \in dir \ r.todo : r.pc = "walk" \/ x # r.e => Synced(x)
      BY <1>4, <1>5, <3>1, <3>3 DEF SyncVisits
    <3>6. SyncVisits(r)
      <4>1. /\ r.todo \subseteq dir /\ \A x \in DOMAIN row \ dir : x \in Ids(r.snap)
            /\ \A x \in r.todo : \A m \in Nat : <<x, m>> \in r.snap <=> x \in DOMAIN row /\ m = row[x].mtime
        BY <1>4, <1>5, <3>1 DEF SyncVisits
      <4>2. e \in dir \ r.todo
        BY <1>4, <1>5, <3>1 DEF SyncVisits
      <4> QED BY <1>2, <1>4, <1>5, <3>4, <3>5, <4>1, <4>2 DEF SyncVisits
    <3>7. SyncSays(r)
      BY <1>4, <1>5, <3>1, <3>6 DEF SyncSays
    <3> QED BY <1>4, <1>5, <2>1, <3>7, Undisturbed DEF Done
  <2>2. CASE q.op = "rebuild"
    <3>1. RebuildVisits(q) /\ pc = "read"
      BY <1>2, <1>4, <2>2, DoneSays DEF RebuildSays
    <3>2. RebuildVisits(r)
      BY <1>4, <1>5, <3>1 DEF RebuildVisits
    <3>3. RebuildSays(r)
      BY <1>4, <1>5, <3>1, <3>2 DEF RebuildSays
    <3> QED BY <1>4, <1>5, <2>2, <3>3, Undisturbed DEF Done
  <2> QED BY <1>4, <2>1, <2>2, DoneSays
<1> QED BY <1>4, <1>6, OwnConv

\* The file is read, or cannot be.
LEMMA ReadConv ==
  ASSUME TypeOK, ConvInv, NEW p \in Passes, Read(p) \/ ReadFails(p)
  PROVE  ConvInv'
<1> DEFINE q == pass[p]
<1>1. q \in PassRecord /\ q.pc = "read" /\ UNCHANGED <<dir, doc, row>>
  BY PassFacts DEF Read, ReadFails, In, UnchangedByPass, Unstored
<1>2. CASE Read(p)
  <2>1. PICK r : r = [q EXCEPT !.pc = "replace",
                        !.got = [text |-> doc[q.e].text, meta |-> doc[q.e].meta]]
    OBVIOUS
  <2>2. Become(p, r) /\ Readable(q.e)
    BY <1>2, <2>1 DEF Read
  <2>3. /\ r.pc = "replace" /\ r.op = q.op /\ r.alone = q.alone /\ r.todo = q.todo /\ r.e = q.e
        /\ r.seen = q.seen /\ r.snap = q.snap
        /\ r.got = [text |-> doc[q.e].text, meta |-> doc[q.e].meta]
    BY <1>1, <2>1 DEF PassRecord
  <2>4. Done(r)'
    <3> SUFFICES ASSUME q.alone PROVE Done(r)'
      BY <2>3 DEF Done
    <3>1. CASE q.op = "sync" /\ SyncSays(q)
      <4>1. SyncSays(r)
        BY <1>1, <2>3, <3>1 DEF SyncSays, SyncVisits
      <4> QED BY <1>1, <2>3, <3>1, <4>1, Undisturbed DEF Done
    <3>2. CASE q.op = "rebuild" /\ RebuildSays(q)
      <4>1. RebuildSays(r)
        BY <1>1, <2>2, <2>3, <3>2 DEF RebuildSays, RebuildVisits
      <4> QED BY <1>1, <2>3, <3>2, <4>1, Undisturbed DEF Done
    <3> QED BY <1>1, <3>1, <3>2, DoneSays
  <2> QED BY <1>1, <2>2, <2>4, OwnConv
<1>3. CASE ReadFails(p)
  <2>1. PICK r : r = IF q.op = "sync" THEN [q EXCEPT !.pc = "done", !.ok = FALSE]
                                      ELSE [q EXCEPT !.pc = "walk"]
    OBVIOUS
  <2>2. Become(p, r) /\ ~Readable(q.e)
    BY <1>3, <2>1 DEF ReadFails
  <2>3. /\ r.op = q.op /\ r.alone = q.alone /\ r.todo = q.todo /\ r.seen = q.seen /\ r.e = q.e
        /\ q.op = "sync" => r.pc = "done" /\ r.ok = FALSE
        /\ q.op # "sync" => r.pc = "walk"
    BY <1>1, <2>1 DEF PassRecord
  <2>4. Done(r)'
    <3> SUFFICES ASSUME q.alone PROVE Done(r)'
      BY <2>3 DEF Done
    <3>1. CASE q.op = "sync" /\ SyncSays(q)
      <4>1. SyncSays(r)
        BY <1>1, <2>3, <3>1 DEF SyncSays, SyncVisits
      <4> QED BY <1>1, <2>3, <3>1, <4>1, Undisturbed DEF Done
    <3>2. CASE q.op = "rebuild" /\ RebuildSays(q)
      <4>1. q.e \notin DOMAIN row
        BY <1>1, <3>2 DEF RebuildSays, RebuildVisits
      <4>2. Rebuilt(q.e)
        BY <2>2, <4>1 DEF Rebuilt
      <4>3. RebuildSays(r)
        BY <1>1, <2>3, <3>2, <4>2 DEF RebuildSays, RebuildVisits
      <4> QED BY <1>1, <2>3, <3>2, <4>3, Undisturbed DEF Done
    <3> QED BY <1>1, <3>1, <3>2, DoneSays
  <2> QED BY <1>1, <2>2, <2>4, OwnConv
<1> QED BY <1>2, <1>3

\* The two transactions of phase 1, each of one entry.
LEMMA StoreConv ==
  ASSUME TypeOK, ConvInv, NEW p \in Passes, Replace(p) \/ DropOrphan(p)
  PROVE  ConvInv'
<1> DEFINE q == pass[p]
<1>0. PICK e : e = q.e
  OBVIOUS
<1>1. q \in PassRecord /\ DOMAIN doc \subseteq dir
  BY PassFacts, Numbers
<1>2. PICK got : /\ got = IF q.pc = "replace" THEN Blank ELSE q.got
                 /\ Store(p, [q EXCEPT !.pc = "walk", !.got = got])
  <2>1. CASE Replace(p)
    BY <2>1 DEF Replace, In
  <2>2. CASE DropOrphan(p)
    <3>1. [q EXCEPT !.pc = "walk"] = [q EXCEPT !.pc = "walk", !.got = q.got]
      BY <1>1 DEF PassRecord
    <3> QED BY <2>2, <3>1 DEF DropOrphan, In
  <2> QED BY <2>1, <2>2
<1>3. PICK r : r = [q EXCEPT !.pc = "walk", !.got = got]
  OBVIOUS
<1>4. /\ r.pc = "walk" /\ r.op = q.op /\ r.alone = q.alone /\ r.todo = q.todo
      /\ r.seen = q.seen /\ r.snap = q.snap
  BY <1>1, <1>3 DEF PassRecord
<1>5. Store(p, r) /\ UNCHANGED <<dir, doc>>
  BY <1>2, <1>3 DEF Replace, DropOrphan, UnchangedByPass
<1>6. \/ /\ q.pc = "replace" /\ DOMAIN row' = DOMAIN row \union {e}
         /\ row'[e] = [text |-> q.got.text, meta |-> q.got.meta, mtime |-> MtimeOf(e)]
         /\ \A x \in DOMAIN row : x # e => row'[x] = row[x]
      \/ /\ q.pc = "orphan" /\ DOMAIN row' = DOMAIN row \ {e}
         /\ \A x \in DOMAIN row : x # e => row'[x] = row[x]
  BY <1>0 DEF Replace, DropOrphan, DeleteRow, Insert, Put, Drop, In
<1>7. Done(r)'
  <2> SUFFICES ASSUME q.alone PROVE Done(r)'
    BY <1>4 DEF Done
  <2>1. CASE q.op = "sync" /\ SyncSays(q)
    <3>1. SyncVisits(q) /\ q.seen = dir
      BY <1>6, <2>1 DEF SyncSays
    <3>2. Synced(e)'
      <4>1. CASE q.pc = "replace"
        BY <1>0, <1>5, <1>6, <3>1, <4>1 DEF SyncVisits, Synced, MtimeOf
      <4>2. CASE q.pc = "orphan"
        BY <1>0, <1>5, <1>6, <3>1, <4>2 DEF SyncVisits, Synced
      <4> QED BY <1>6, <4>1, <4>2
    <3>3. \A x \in dir \ q.todo : x # e => Synced(x)'
      BY <1>0, <1>5, <1>6, <3>1 DEF SyncVisits, Synced
    <3>4. \A x \in q.todo : x # e /\ (x \in DOMAIN row' <=> x \in DOMAIN row)
                            /\ (x \in DOMAIN row => row'[x] = row[x])
      BY <1>0, <1>6, <3>1 DEF SyncVisits
    <3>5. \A x \in DOMAIN row' \ dir : x \in DOMAIN row
      BY <1>0, <1>6, <3>1 DEF SyncVisits
    <3>6. SyncVisits(r)'
      BY <1>4, <1>5, <1>6, <3>1, <3>2, <3>3, <3>4, <3>5 DEF SyncVisits
    <3> QED BY <1>4, <1>5, <2>1, <3>1, <3>6 DEF Done, SyncSays
  <2>2. CASE q.op = "rebuild" /\ RebuildSays(q)
    <3>1. /\ q.pc = "replace" /\ RebuildVisits(q) /\ e \in dir \ q.todo /\ e \in DOMAIN doc
          /\ Readable(e) /\ q.got = [text |-> doc[e].text, meta |-> doc[e].meta]
      BY <1>0, <1>6, <2>2 DEF RebuildSays, RebuildVisits, Readable
    <3>2. Rebuilt(e)'
      BY <1>0, <1>5, <1>6, <3>1 DEF Rebuilt, Readable, MtimeOf
    <3>3. \A x \in dir \ q.todo : x # e => Rebuilt(x)'
      BY <1>0, <1>5, <1>6, <3>1 DEF RebuildVisits, Rebuilt, Readable
    <3>4. DOMAIN row' \subseteq dir \ q.todo
      BY <1>0, <1>6, <3>1 DEF RebuildVisits
    <3>5. RebuildVisits(r)'
      BY <1>4, <1>5, <3>1, <3>2, <3>3, <3>4 DEF RebuildVisits
    <3> QED BY <1>4, <2>2, <3>5 DEF Done, RebuildSays
  <2> QED BY <1>6, <2>1, <2>2, DoneSays
<1> QED BY <1>5, <1>7, OwnConv

\* The walk is over: for a sync, what remains are rows without a directory.
LEMMA WalkDoneConv ==
  ASSUME TypeOK, ConvInv, NEW p \in Passes, WalkDone(p)
  PROVE  ConvInv'
<1> DEFINE q == pass[p]
<1>1. q \in PassRecord /\ q.pc = "walk" /\ q.todo = {} /\ UNCHANGED <<dir, doc, row>>
      /\ DOMAIN doc \subseteq dir /\ DOMAIN row \subseteq Entries
  BY PassFacts, Numbers DEF WalkDone, In, UnchangedByPass, Unstored
<1>2. PICK r : r = IF q.op = "sync" THEN [q EXCEPT !.pc = "sweep", !.todo = Ids(q.snap) \ q.seen]
                                    ELSE [q EXCEPT !.pc = "done"]
  OBVIOUS
<1>3. Become(p, r)
  BY <1>2 DEF WalkDone
<1>4. /\ r.op = q.op /\ r.alone = q.alone /\ r.seen = q.seen
      /\ q.op = "sync" => r.pc = "sweep" /\ r.todo = Ids(q.snap) \ q.seen
      /\ q.op # "sync" => r.pc = "done"
  BY <1>1, <1>2 DEF PassRecord
<1>5. Done(r)'
  <2> SUFFICES ASSUME q.alone PROVE Done(r)'
    BY <1>4 DEF Done
  <2>1. CASE q.op = "sync" /\ SyncSays(q)
    <3>1. SyncVisits(q) /\ q.seen = dir
      BY <1>1, <2>1 DEF SyncSays
    <3>2. SyncSays(r)
      BY <1>1, <1>4, <2>1, <3>1 DEF SyncSays, SyncVisits
    <3> QED BY <1>1, <1>4, <2>1, <3>2, Undisturbed DEF Done
  <2>2. CASE q.op = "rebuild" /\ RebuildSays(q)
    <3>1. DOMAIN row \subseteq dir /\ \A x \in dir : Rebuilt(x)
      BY <1>1, <2>2 DEF RebuildSays, RebuildVisits
    <3>2. \A x \in Entries : Rebuilt(x)
      BY <1>1, <3>1 DEF Rebuilt, Readable
    <3>3. RebuildSays(r)
      BY <1>4, <2>2, <3>2 DEF RebuildSays, RebuildVisits
    <3> QED BY <1>1, <1>4, <2>2, <3>3, Undisturbed DEF Done
  <2> QED BY <1>1, <2>1, <2>2, DoneSays
<1> QED BY <1>1, <1>3, <1>5, OwnConv

\* Phase 2 removes rows that have no directory.
LEMMA SweepConv ==
  ASSUME TypeOK, ConvInv, NEW p \in Passes, SweepDone(p) \/ \E e \in Entries : Sweep(p, e)
  PROVE  ConvInv'
<1> DEFINE q == pass[p]
<1>1. q \in PassRecord /\ q.pc = "sweep" /\ UNCHANGED <<dir, doc>> /\ DOMAIN doc \subseteq dir
  BY PassFacts, Numbers DEF SweepDone, Sweep, In, UnchangedByPass
<1>2. q.alone => /\ q.op = "sync" /\ SyncSays(q) /\ \A x \in dir : Synced(x)
                 /\ DOMAIN row \ dir \subseteq q.todo /\ q.todo \intersect dir = {}
  BY <1>1, DoneSays DEF SyncSays, RebuildSays
<1>3. ASSUME SweepDone(p) PROVE ConvInv'
  <2>1. PICK r : r = [q EXCEPT !.pc = "done"]
    OBVIOUS
  <2>2. Become(p, r) /\ q.todo = {} /\ row' = row
    BY <1>3, <2>1 DEF SweepDone, Unstored
  <2>3. r.pc = "done" /\ r.op = q.op /\ r.alone = q.alone /\ r.seen = q.seen
    BY <1>1, <2>1 DEF PassRecord
  <2>4. Done(r)'
    <3> SUFFICES ASSUME q.alone PROVE Done(r)'
      BY <2>3 DEF Done
    <3>1. \A x \in Entries : Synced(x)
      BY <1>1, <1>2, <2>2 DEF Synced
    <3>2. SyncSays(r)
      BY <1>1, <1>2, <2>3, <3>1 DEF SyncSays, SyncVisits
    <3> QED BY <1>1, <1>2, <2>2, <2>3, <3>2, Undisturbed DEF Done
  <2> QED BY <1>1, <2>2, <2>4, OwnConv
<1>4. ASSUME NEW e \in Entries, Sweep(p, e) PROVE ConvInv'
  <2>1. PICK r : r = [q EXCEPT !.todo = q.todo \ {e}]
    OBVIOUS
  <2>2. /\ Store(p, r) /\ e \in q.todo /\ DOMAIN row' = DOMAIN row \ {e}
        /\ \A x \in DOMAIN row : x # e => row'[x] = row[x]
    BY <1>4, <2>1 DEF Sweep, DeleteRow, Drop
  <2>3. r.pc = "sweep" /\ r.op = q.op /\ r.alone = q.alone /\ r.seen = q.seen /\ r.todo = q.todo \ {e}
    BY <1>1, <2>1 DEF PassRecord
  <2>4. Done(r)'
    <3> SUFFICES ASSUME q.alone PROVE Done(r)'
      BY <2>3 DEF Done
    <3>1. \A x \in dir : Synced(x)'
      BY <1>1, <1>2, <2>2 DEF Synced
    <3>2. SyncSays(r)'
      BY <1>1, <1>2, <2>2, <2>3, <3>1 DEF SyncSays, SyncVisits
    <3> QED BY <1>2, <2>3, <3>2 DEF Done
  <2> QED BY <1>1, <2>2, <2>4, OwnConv
<1> QED BY <1>3, <1>4

LEMMA ConvStep == ASSUME TypeOK, ConvInv, [Next]_vars PROVE ConvInv'
<1>1. ASSUME NewCall PROVE ConvInv'
  BY <1>1, NoticedConv DEF NewCall, CreateDir, Update, EditCommit, DeleteCommit, Link
<1>2. ASSUME JobStep PROVE ConvInv'
  <2>1. pass' = Seen(NoEntry) \/ UNCHANGED <<dir, doc, row, pass>>
    BY <1>2 DEF JobStep, CreateWrite, CreateWriteFails, CreateAttach, CreateUndo, CreateInsert,
       CreateInsertFails, RenderGetRow, RenderGetBlocks, RenderWrite, RenderWriteFails, RenderStat,
       RenderStamp, RemoveDoc, RemoveDir, Answer, stores
  <2> QED BY <2>1, NoticedConv, SameConv
<1>3. ASSUME NEW p \in Passes, PassStep(p) PROVE ConvInv'
  <2>1. ASSUME PassEnd(p) PROVE ConvInv'
    <3>1. PICK r : r = IdlePass
      OBVIOUS
    <3>2. Become(p, r) /\ UNCHANGED <<dir, doc, row>> /\ r.pc = "idle"
      BY <2>1, <3>1, IdleTypes DEF PassEnd, UnchangedByPass
    <3>3. Done(r)'
      BY <3>2 DEF Done
    <3> QED BY <3>2, <3>3, OwnConv
  <2> QED BY <1>3, <2>1, BeforeConv, VisitConv, ReadConv, StoreConv, WalkDoneConv, SweepConv DEF PassStep
<1>4. ASSUME NEW p \in Passes, NEW op \in {"sync", "rebuild"}, Become(p, Begin(op)),
             UNCHANGED <<dir, doc, row>>
      PROVE  ConvInv'
  <2>1. PICK r : r = Begin(op)
    OBVIOUS
  <2>2. r.op = op /\ r.pc = IF op = "sync" THEN "scan" ELSE "wipe"
    BY <2>1, BeginType
  <2>3. Done(r)'
    BY <2>2 DEF Done, SyncSays, SyncVisits, RebuildSays, RebuildVisits
  <2> QED BY <1>4, <2>1, <2>3, OwnConv
<1>5. ASSUME NEW p \in Passes, NEW op \in PassOps, PassStart(p, op) PROVE ConvInv'
  BY <1>4, <1>5, ConstantsAssumption DEF PassStart, UnchangedByPass
<1>6. ASSUME World PROVE ConvInv'
  <2>1. ASSUME Crash PROVE ConvInv'
    BY <2>1, IdleTypes DEF Crash, ConvInv, Done
  <2>2. ASSUME NEW p \in Passes, Restart(p) PROVE ConvInv'
    BY <1>4, <2>2 DEF Restart, stores
  <2>3. ASSUME NEW e \in Entries, OutsideRemove(e) \/ \E kind \in Outside : OutsideWrite(kind, e)
        PROVE  ConvInv'
    BY <2>3, NoticedConv DEF OutsideRemove, OutsideWrite, OutsideChange
  <2> QED BY <1>6, <2>1, <2>2, <2>3 DEF World
<1>7. CASE UNCHANGED vars
  BY <1>7, SameConv DEF vars
<1> QED BY <1>1, <1>2, <1>3, <1>5, <1>6, <1>7 DEF Next

\* An index pass that says it succeeded and that nothing else touched the stores during
\* leaves the index in step with the files: a sync with the same entries and mtimes, a
\* rebuild with every readable file's content, whatever crash, overlap or damage to the
\* files came before it.
THEOREM PassesAlwaysConverge == Spec => []PassesConverge
<1>1. Init => ConvInv
  BY IdleTypes DEF Init, ConvInv, Done
<1>2. TypeOK /\ ConvInv /\ [Next]_vars => ConvInv'
  BY ConvStep
<1>3. TypeOK /\ ConvInv => PassesConverge
  <2> SUFFICES ASSUME TypeOK, ConvInv PROVE SyncConverges /\ RebuildConverges
    BY DEF PassesConverge
  <2>1. DOMAIN doc \subseteq Entries /\ DOMAIN row \subseteq Entries
    BY Numbers
  <2>2. SyncConverges
    BY <2>1, DoneSays DEF SyncConverges, Finished, SyncSays, Synced
  <2>3. RebuildConverges
    BY <2>1, DoneSays DEF RebuildConverges, Finished, RebuildSays, Rebuilt, Readable
  <2> QED BY <2>2, <2>3
<1> QED BY <1>1, <1>2, <1>3, TypeCorrect, PTL DEF Spec
=============================================================================
