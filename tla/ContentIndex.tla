---------------------------- MODULE ContentIndex ----------------------------
(***************************************************************************)
(* The two stores of an entry and every path between them: the .nomai file *)
(* under knowledge_root, which is the source of truth, and the row of the  *)
(* SQLite index derived from it.  Mutating handlers run one at a time      *)
(* under sync_lock; index.sync and index.rebuild take no lock and may run  *)
(* beside them, beside each other, and once alone at every start of the    *)
(* daemon.  A crash loses what the handlers held in memory and keeps both  *)
(* stores.                                                                 *)
(*                                                                         *)
(* Content is a version: text is what the blocks hold, meta is title, tags *)
(* and source; 0 is an entry without blocks.  An mtime is the number of    *)
(* the write that set it, so two writes never share one.                   *)
(***************************************************************************)
EXTENDS Naturals, FiniteSets

CONSTANTS
  Entries,     \* ULIDs; one is used for at most one create
  NoEntry,
  Passes,      \* index passes that may be running at a time
  PassOps,     \* the index RPCs clients call: subset of {"sync", "rebuild"}
  Ops,         \* mutating RPCs: subset of AllOps
  Outside,     \* what a person or git does to files: subset of OutsideKinds
  MayFail,     \* steps that may fail: subset of FailKinds
  Overlap,     \* whether clients call index RPCs beside other calls
  MaxOps,      \* bound: mutating calls of a behaviour
  MaxPasses,   \* bound: index passes that clients ask for
  MaxOutside,  \* bound: outside changes
  MaxCrashes   \* bound: crashes

AllOps == {"create", "update", "edit", "delete", "link"}
OutsideKinds == {"edit", "garble", "remove"}
FailKinds == {"attachments", "insert", "render", "removeDir"}

ASSUME ConstantsAssumption ==
  /\ NoEntry \notin Entries \union Passes
  /\ PassOps \subseteq {"sync", "rebuild"}
  /\ Ops \subseteq AllOps
  /\ Outside \subseteq OutsideKinds
  /\ MayFail \subseteq FailKinds
  /\ Overlap \in BOOLEAN
  /\ MaxOps \in Nat /\ MaxPasses \in Nat /\ MaxOutside \in Nat /\ MaxCrashes \in Nat

VARIABLES
  dir,     \* entries that have a directory
  doc,     \* entry.nomai files: a function on the entries that have one
  row,     \* rows of the entries table with their blocks
  links,   \* rows of the links table
  up,      \* "up", "down", "boot" (startup_sync)
  job,     \* the handler that holds sync_lock
  pass,    \* pass[p]: an index pass
  clock,   \* number of file writes so far
  counts,  \* calls, passes, outside changes and crashes so far
  ver,     \* history: the newest version of an entry's text and meta
  owed     \* history: what clients were told of each entry, and of links

stores == <<dir, doc, row, links>>
history == <<ver, owed>>
vars == <<dir, doc, row, links, up, job, pass, clock, counts, ver, owed>>

Put(f, e, v) == [x \in DOMAIN f \union {e} |-> IF x = e THEN v ELSE f[x]]
Drop(f, e) == [x \in DOMAIN f \ {e} |-> f[x]]
Nothing == [x \in {} |-> 0]

Blank == [text |-> 0, meta |-> 0]
IdleJob == [op |-> "none", pc |-> "idle", e |-> NoEntry, text |-> 0, meta |-> 0, mtime |-> 0]
IdlePass == [op |-> "none", pc |-> "idle", todo |-> {}, seen |-> {}, snap |-> {},
             e |-> NoEntry, got |-> Blank, alone |-> TRUE, ok |-> TRUE]

Init ==
  /\ dir = {} /\ doc = Nothing /\ row = Nothing /\ links = {}
  /\ up = "up"
  /\ job = IdleJob
  /\ pass = [p \in Passes |-> IdlePass]
  /\ clock = 0
  /\ counts = [ops |-> 0, passes |-> 0, outside |-> 0, crashes |-> 0]
  /\ ver = [e \in Entries |-> Blank]
  /\ owed = [entry |-> [e \in Entries |-> [text |-> 0, meta |-> 0, fate |-> "none"]],
             links |-> {}]

\* A create keeps the connection's mutex from BEGIN to COMMIT, across its file
\* writes; every other transaction is one step.
ConnFree == ~(job.op = "create" /\ job.pc \in {"write", "attach", "insert", "undo"})

\* Another actor changed the stores while these passes were running.
Seen(q) == [p \in Passes |-> IF p = q \/ pass[p].pc = "idle" THEN pass[p]
                             ELSE [pass[p] EXCEPT !.alone = FALSE]]

Touching(e, l) == {x \in l : x[1] = e \/ x[2] = e}

\* DELETE FROM entries: blocks and links go with the row (ON DELETE CASCADE).
DeleteRow(e) == /\ row' = Drop(row, e)
                /\ links' = links \ Touching(e, links)

-----------------------------------------------------------------------------
(* Mutating handlers. *)

Startable(op) ==
  /\ op \in Ops
  /\ up = "up"
  /\ job.pc = "idle"
  /\ Overlap \/ \A p \in Passes : pass[p].pc = "idle"
  /\ counts.ops < MaxOps
  /\ counts' = [counts EXCEPT !.ops = @ + 1]

At(op, pc) == job.op = op /\ job.pc = pc
Goto(pc) == job' = [job EXCEPT !.pc = pc]

\* Slip: the row first, the file never.
CreateRowFirst(e) ==
  /\ Startable("create")
  /\ ver[e].text = 0
  /\ ver' = [ver EXCEPT ![e] = [text |-> 1, meta |-> 1]]
  /\ job' = [IdleJob EXCEPT !.op = "create", !.pc = "insert", !.e = e]
  /\ pass' = Seen(NoEntry)
  /\ UNCHANGED <<stores, up, clock, owed>>

\* EntryService::create: file first, row second, under one transaction.
CreateDir(e) ==
  /\ Startable("create")
  /\ ver[e].text = 0
  /\ dir' = dir \union {e}
  /\ ver' = [ver EXCEPT ![e] = [text |-> 1, meta |-> 1]]
  /\ job' = [IdleJob EXCEPT !.op = "create", !.pc = "write", !.e = e]
  /\ pass' = Seen(NoEntry)
  /\ UNCHANGED <<doc, row, links, up, clock, owed>>

CreateWrite ==
  /\ At("create", "write")
  /\ job.e \in dir
  /\ clock' = clock + 1
  /\ doc' = Put(doc, job.e, [text |-> 1, meta |-> 1, mtime |-> clock + 1, ok |-> TRUE])
  /\ Goto("attach")
  /\ pass' = Seen(NoEntry)
  /\ UNCHANGED <<dir, row, links, up, counts, history>>

\* The directory was removed between mkdir and the rename into it.
CreateWriteFails ==
  /\ At("create", "write")
  /\ job.e \notin dir
  /\ job' = IdleJob
  /\ UNCHANGED <<stores, up, pass, clock, counts, history>>

CreateAttach ==
  /\ At("create", "attach")
  /\ Goto("insert") \/ ("attachments" \in MayFail /\ Goto("undo"))
  /\ UNCHANGED <<stores, up, pass, clock, counts, history>>

\* An attachment was refused: ContentStore::delete_entry, then the error.
CreateUndo ==
  /\ At("create", "undo")
  /\ dir' = dir \ {job.e}
  /\ doc' = Drop(doc, job.e)
  /\ job' = IdleJob
  /\ pass' = Seen(NoEntry)
  /\ UNCHANGED <<row, links, up, clock, counts, history>>

Insert(e, content, mtime) ==
  row' = Put(row, e, [text |-> content.text, meta |-> content.meta, mtime |-> mtime])

MtimeOf(e) == IF e \in DOMAIN doc THEN doc[e].mtime ELSE 0

CreateInsert ==
  /\ At("create", "insert")
  /\ Insert(job.e, [text |-> 1, meta |-> 1], MtimeOf(job.e))
  /\ Goto("answer")
  /\ pass' = Seen(NoEntry)
  /\ UNCHANGED <<dir, doc, links, up, clock, counts, history>>

\* ROLLBACK; the file stays behind as an orphan.
CreateInsertFails ==
  /\ At("create", "insert")
  /\ "insert" \in MayFail
  /\ job' = IdleJob
  /\ UNCHANGED <<stores, up, pass, clock, counts, history>>

\* entry.update changes the row; no file is written.
Update(e) ==
  /\ Startable("update")
  /\ e \in DOMAIN row
  /\ ver' = [ver EXCEPT ![e].meta = ver[e].meta + 1]
  /\ row' = [row EXCEPT ![e].meta = ver[e].meta + 1]
  /\ job' = [IdleJob EXCEPT !.op = "update", !.pc = "answer", !.e = e,
                            !.meta = ver[e].meta + 1]
  /\ pass' = Seen(NoEntry)
  /\ UNCHANGED <<dir, doc, links, up, clock, owed>>

\* Slip: an edit is answered before its file is written.
EditAnswersEarly(e) ==
  /\ Startable("edit")
  /\ e \in DOMAIN row
  /\ ver' = [ver EXCEPT ![e].text = ver[e].text + 1]
  /\ row' = [row EXCEPT ![e].text = ver[e].text + 1]
  /\ job' = [IdleJob EXCEPT !.op = "edit", !.pc = "answer", !.e = e]
  /\ pass' = Seen(NoEntry)
  /\ UNCHANGED <<dir, doc, links, up, clock, owed>>

\* block.append, block.update, block.delete: blocks first, then
\* rerender_entry_nomai in its five steps.
EditCommit(e) ==
  /\ Startable("edit")
  /\ e \in DOMAIN row
  /\ ver' = [ver EXCEPT ![e].text = ver[e].text + 1]
  /\ row' = [row EXCEPT ![e].text = ver[e].text + 1]
  /\ job' = [IdleJob EXCEPT !.op = "edit", !.pc = "getRow", !.e = e]
  /\ pass' = Seen(NoEntry)
  /\ UNCHANGED <<dir, doc, links, up, clock, owed>>

RenderGetRow ==
  /\ At("edit", "getRow")
  /\ IF job.e \in DOMAIN row
     THEN job' = [job EXCEPT !.pc = "getBlocks", !.meta = row[job.e].meta]
     ELSE job' = IdleJob
  /\ UNCHANGED <<stores, up, pass, clock, counts, history>>

\* A second query: no error when the row has gone, only no blocks.
RenderGetBlocks ==
  /\ At("edit", "getBlocks")
  /\ job' = [job EXCEPT !.pc = "write",
                        !.text = IF job.e \in DOMAIN row THEN row[job.e].text ELSE 0]
  /\ UNCHANGED <<stores, up, pass, clock, counts, history>>

RenderWrite ==
  /\ At("edit", "write")
  /\ clock' = clock + 1
  /\ dir' = dir \union {job.e}
  /\ doc' = Put(doc, job.e, [text |-> job.text, meta |-> job.meta,
                             mtime |-> clock + 1, ok |-> TRUE])
  /\ Goto("stat")
  /\ pass' = Seen(NoEntry)
  /\ UNCHANGED <<row, links, up, counts, history>>

\* The file is not written: the blocks stay committed and the call fails.
RenderWriteFails ==
  /\ At("edit", "write")
  /\ "render" \in MayFail
  /\ job' = IdleJob
  /\ UNCHANGED <<stores, up, pass, clock, counts, history>>

RenderStat ==
  /\ At("edit", "stat")
  /\ IF job.e \in DOMAIN doc
     THEN job' = [job EXCEPT !.pc = "stamp", !.mtime = doc[job.e].mtime]
     ELSE job' = IdleJob
  /\ UNCHANGED <<stores, up, pass, clock, counts, history>>

\* Slip: the row keeps the fs_mtime it had.
RenderForgetsStamp ==
  /\ At("edit", "stamp")
  /\ Goto("answer")
  /\ UNCHANGED <<stores, up, pass, clock, counts, history>>

RenderStamp ==
  /\ At("edit", "stamp")
  /\ row' = IF job.e \in DOMAIN row THEN [row EXCEPT ![job.e].mtime = job.mtime] ELSE row
  /\ Goto("answer")
  /\ pass' = Seen(NoEntry)
  /\ UNCHANGED <<dir, doc, links, up, clock, counts, history>>

Leaving(e) == [owed EXCEPT !.entry[e].fate = "leaving",
                           !.links = owed.links \ Touching(e, owed.links)]

\* Slip: the files go first and the row when they are gone.
DeleteFilesFirst(e) ==
  /\ Startable("delete")
  /\ e \in DOMAIN row
  /\ doc' = Drop(doc, e)
  /\ owed' = Leaving(e)
  /\ job' = [IdleJob EXCEPT !.op = "delete", !.pc = "removeDir", !.e = e]
  /\ pass' = Seen(NoEntry)
  /\ UNCHANGED <<dir, row, links, up, clock, ver>>

\* EntryService::delete: COMMIT, unlock, then the directory, files first.
DeleteCommit(e) ==
  /\ Startable("delete")
  /\ e \in DOMAIN row
  /\ DeleteRow(e)
  /\ owed' = Leaving(e)
  /\ job' = [IdleJob EXCEPT !.op = "delete", !.pc = "removeDoc", !.e = e]
  /\ pass' = Seen(NoEntry)
  /\ UNCHANGED <<dir, doc, up, clock, ver>>

RemoveDoc ==
  /\ At("delete", "removeDoc")
  /\ \/ doc' = Drop(doc, job.e) /\ Goto("removeDir")
     \/ "removeDir" \in MayFail /\ job' = IdleJob /\ UNCHANGED doc
  /\ pass' = Seen(NoEntry)
  /\ UNCHANGED <<dir, row, links, up, clock, counts, history>>

\* Slip: the directory and what is left in it stay.
RemoveNothing ==
  /\ At("delete", "removeDir")
  /\ Goto("answer")
  /\ UNCHANGED <<stores, up, pass, clock, counts, history>>

RemoveDir ==
  /\ At("delete", "removeDir")
  /\ dir' = dir \ {job.e}
  /\ Goto("answer")
  /\ pass' = Seen(NoEntry)
  /\ UNCHANGED <<doc, row, links, up, clock, counts, history>>

\* What a success answer tells the client.
Told ==
  CASE job.op = "create" -> [text |-> 1, meta |-> 1, fate |->
         IF owed.entry[job.e].fate = "leaving" THEN "leaving" ELSE "live"]
    [] job.op = "update" -> [owed.entry[job.e] EXCEPT !.meta = job.meta]
    [] job.op = "edit"   -> [owed.entry[job.e] EXCEPT !.text = ver[job.e].text]
    [] job.op = "delete" -> [owed.entry[job.e] EXCEPT !.fate = "gone"]

Answer ==
  /\ job.pc = "answer"
  /\ owed' = [owed EXCEPT !.entry[job.e] = Told]
  /\ job' = IdleJob
  /\ UNCHANGED <<stores, up, pass, clock, counts, ver>>

\* link.create: one transaction, not under sync_lock; both ends must exist.
Link(a, b) ==
  /\ "link" \in Ops
  /\ up = "up" /\ ConnFree
  /\ Overlap \/ \A p \in Passes : pass[p].pc = "idle"
  /\ counts.ops < MaxOps
  /\ counts' = [counts EXCEPT !.ops = @ + 1]
  /\ a \in DOMAIN row /\ b \in DOMAIN row
  /\ links' = links \union {<<a, b>>}
  /\ owed' = [owed EXCEPT !.links = @ \union {<<a, b>>}]
  /\ pass' = Seen(NoEntry)
  /\ UNCHANGED <<dir, doc, row, up, job, clock, ver>>

JobStep ==
  \/ CreateWrite \/ CreateWriteFails \/ CreateAttach \/ CreateUndo
  \/ CreateInsert \/ CreateInsertFails
  \/ RenderGetRow \/ RenderGetBlocks \/ RenderWrite \/ RenderWriteFails
  \/ RenderStat \/ RenderStamp
  \/ RemoveDoc \/ RemoveDir \/ Answer

NewCall == \E e \in Entries :
  \/ CreateDir(e) \/ Update(e) \/ EditCommit(e) \/ DeleteCommit(e)
  \/ \E b \in Entries : Link(e, b)
-----------------------------------------------------------------------------
(* Index passes. *)

UnchangedByPass == UNCHANGED <<dir, doc, job, clock, ver, owed>>
Unstored == UNCHANGED <<row, links, up, counts>>

In(p, pc) == pass[p].pc = pc
Become(p, r) == pass' = [pass EXCEPT ![p] = r]
Store(p, r) == pass' = [Seen(p) EXCEPT ![p] = r]

Begin(op) == [IdlePass EXCEPT !.op = op, !.pc = IF op = "sync" THEN "scan" ELSE "wipe"]

PassStart(p, op) ==
  /\ op \in PassOps
  /\ up = "up"
  /\ pass[p].pc = "idle"
  /\ Overlap \/ (job.pc = "idle" /\ \A q \in Passes : pass[q].pc = "idle")
  /\ counts.passes < MaxPasses
  /\ counts' = [counts EXCEPT !.passes = @ + 1]
  /\ Become(p, Begin(op))
  /\ UnchangedByPass /\ UNCHANGED <<row, links, up>>

\* rebuild_index: the derived tables, links with them, in one transaction.
Wipe(p) ==
  /\ In(p, "wipe") /\ ConnFree
  /\ row' = Nothing
  /\ links' = {}
  /\ Store(p, [pass[p] EXCEPT !.pc = "scan"])
  /\ UnchangedByPass /\ UNCHANGED <<up, counts>>

Scan(p) ==
  /\ In(p, "scan")
  /\ Become(p, [pass[p] EXCEPT !.todo = dir, !.seen = dir,
                  !.pc = IF pass[p].op = "sync" THEN "snapshot" ELSE "walk"])
  /\ UnchangedByPass /\ Unstored

Snapshot(p) ==
  /\ In(p, "snapshot") /\ ConnFree
  /\ Become(p, [pass[p] EXCEPT !.snap = {<<e, row[e].mtime>> : e \in DOMAIN row},
                               !.pc = "walk"])
  /\ UnchangedByPass /\ Unstored

Ids(snap) == {r[1] : r \in snap}
Known(p, e) == e \in Ids(pass[p].snap)

Visit(p, e, pc) ==
  /\ In(p, "walk") /\ e \in pass[p].todo
  /\ Become(p, [pass[p] EXCEPT !.todo = pass[p].todo \ {e}, !.e = e, !.pc = pc])
  /\ UnchangedByPass /\ Unstored

Unchanged(p, e) == e \in DOMAIN doc /\ <<e, doc[e].mtime>> \in pass[p].snap

\* Slip: an entry that is skipped stays on the list.
VisitAgain(p, e) ==
  /\ pass[p].op = "sync"
  /\ In(p, "walk") /\ e \in pass[p].todo
  /\ Unchanged(p, e) \/ (e \notin DOMAIN doc /\ ~Known(p, e))
  /\ UNCHANGED vars

\* Same mtime, or a directory without a file that the index does not know.
VisitSkips(p, e) ==
  /\ pass[p].op = "sync"
  /\ Unchanged(p, e) \/ (e \notin DOMAIN doc /\ ~Known(p, e))
  /\ Visit(p, e, "walk")

VisitReindexes(p, e) ==
  /\ pass[p].op = "rebuild" \/ (e \in DOMAIN doc /\ ~Unchanged(p, e))
  /\ Visit(p, e, "read")

VisitOrphan(p, e) ==
  /\ pass[p].op = "sync"
  /\ e \notin DOMAIN doc /\ Known(p, e)
  /\ Visit(p, e, "orphan")

Readable(e) == e \in DOMAIN doc /\ doc[e].ok

\* reindex_one reads the file with no lock held ...
Read(p) ==
  /\ In(p, "read") /\ Readable(pass[p].e)
  /\ Become(p, [pass[p] EXCEPT !.pc = "replace",
                  !.got = [text |-> doc[pass[p].e].text, meta |-> doc[pass[p].e].meta]])
  /\ UnchangedByPass /\ Unstored

\* Slip: sync goes on after a file it cannot read, and reports success.
ReadFailsIgnored(p) ==
  /\ In(p, "read") /\ ~Readable(pass[p].e)
  /\ Become(p, [pass[p] EXCEPT !.pc = "walk"])
  /\ UnchangedByPass /\ Unstored

\* ... an unreadable file ends a sync, and is an error a rebuild collects.
ReadFails(p) ==
  /\ In(p, "read") /\ ~Readable(pass[p].e)
  /\ IF pass[p].op = "sync"
     THEN Become(p, [pass[p] EXCEPT !.pc = "done", !.ok = FALSE])
     ELSE Become(p, [pass[p] EXCEPT !.pc = "walk"])
  /\ UnchangedByPass /\ Unstored

\* ... and replaces the row in one transaction that stats the file again.
Replace(p) ==
  /\ In(p, "replace") /\ ConnFree
  /\ Insert(pass[p].e, pass[p].got, MtimeOf(pass[p].e))
  /\ links' = links \ Touching(pass[p].e, links)
  /\ Store(p, [pass[p] EXCEPT !.pc = "walk", !.got = Blank])
  /\ UnchangedByPass /\ UNCHANGED <<up, counts>>

DropOrphan(p) ==
  /\ In(p, "orphan") /\ ConnFree
  /\ DeleteRow(pass[p].e)
  /\ Store(p, [pass[p] EXCEPT !.pc = "walk"])
  /\ UnchangedByPass /\ UNCHANGED <<up, counts>>

WalkDone(p) ==
  /\ In(p, "walk") /\ pass[p].todo = {}
  /\ IF pass[p].op = "sync"
     THEN Become(p, [pass[p] EXCEPT !.pc = "sweep",
                                    !.todo = Ids(pass[p].snap) \ pass[p].seen])
     ELSE Become(p, [pass[p] EXCEPT !.pc = "done"])
  /\ UnchangedByPass /\ Unstored

\* Phase 2 goes by the scan, not by the files as they are now.
Sweep(p, e) ==
  /\ In(p, "sweep") /\ e \in pass[p].todo /\ ConnFree
  /\ DeleteRow(e)
  /\ Store(p, [pass[p] EXCEPT !.todo = pass[p].todo \ {e}])
  /\ UnchangedByPass /\ UNCHANGED <<up, counts>>

SweepDone(p) ==
  /\ In(p, "sweep") /\ pass[p].todo = {}
  /\ Become(p, [pass[p] EXCEPT !.pc = "done"])
  /\ UnchangedByPass /\ Unstored

\* Slip: the next pass starts from what this one left.
PassEndKeeps(p) ==
  /\ In(p, "done")
  /\ Become(p, [pass[p] EXCEPT !.pc = "idle"])
  /\ up' = "up"
  /\ UnchangedByPass /\ UNCHANGED <<row, links, counts>>

\* The RPC is answered; startup_sync lets the daemon serve, whatever it found.
PassEnd(p) ==
  /\ In(p, "done")
  /\ Become(p, IdlePass)
  /\ up' = "up"
  /\ UnchangedByPass /\ UNCHANGED <<row, links, counts>>

PassStep(p) ==
  \/ Wipe(p) \/ Scan(p) \/ Snapshot(p) \/ Read(p) \/ ReadFails(p) \/ Replace(p)
  \/ DropOrphan(p) \/ WalkDone(p) \/ SweepDone(p) \/ PassEnd(p)
  \/ \E e \in Entries : VisitSkips(p, e) \/ VisitReindexes(p, e) \/ VisitOrphan(p, e)
                        \/ Sweep(p, e)
-----------------------------------------------------------------------------
(* The world around the daemon. *)

Crash ==
  /\ up # "down"
  /\ counts.crashes < MaxCrashes
  /\ counts' = [counts EXCEPT !.crashes = @ + 1]
  /\ up' = "down"
  /\ job' = IdleJob
  /\ pass' = [p \in Passes |-> IdlePass]
  /\ UNCHANGED <<stores, clock, history>>

\* Daemon::startup_sync runs before the socket is served.
Restart(p) ==
  /\ up = "down"
  /\ up' = "boot"
  /\ Become(p, Begin("sync"))
  /\ UNCHANGED <<stores, job, clock, counts, history>>

OutsideChange(kind) ==
  /\ kind \in Outside
  /\ counts.outside < MaxOutside
  /\ counts' = [counts EXCEPT !.outside = @ + 1]
  /\ pass' = Seen(NoEntry)

\* A .nomai file is edited by hand or by git, well or so that it does not parse.
OutsideWrite(kind, e) ==
  /\ OutsideChange(kind) /\ kind \in {"edit", "garble"}
  /\ e \in DOMAIN doc
  /\ clock' = clock + 1
  /\ ver' = [ver EXCEPT ![e] = [text |-> ver[e].text + 1, meta |-> ver[e].meta + 1]]
  /\ doc' = [doc EXCEPT ![e] = [text |-> ver[e].text + 1, meta |-> ver[e].meta + 1,
                                mtime |-> clock + 1, ok |-> kind = "edit"]]
  /\ UNCHANGED <<dir, row, links, up, job, owed>>

OutsideRemove(e) ==
  /\ OutsideChange("remove")
  /\ e \in dir
  /\ dir' = dir \ {e}
  /\ doc' = Drop(doc, e)
  /\ owed' = Leaving(e)
  /\ UNCHANGED <<row, links, up, job, clock, ver>>

World ==
  \/ Crash
  \/ \E p \in Passes : Restart(p)
  \/ \E e \in Entries : OutsideRemove(e) \/ \E kind \in Outside : OutsideWrite(kind, e)

Next ==
  \/ NewCall \/ JobStep \/ World
  \/ \E p \in Passes : PassStep(p) \/ \E op \in PassOps : PassStart(p, op)

Spec == Init /\ [][Next]_vars

\* Handlers and passes are plain code that runs to its end; a crashed daemon is
\* started again by the next client.
Fairness == /\ WF_vars(JobStep)
            /\ \A p \in Passes : WF_vars(PassStep(p))
            /\ WF_vars(\E p \in Passes : Restart(p))

FairSpec == Spec /\ Fairness
-----------------------------------------------------------------------------
(* Properties. *)

Content == [text : Nat, meta : Nat]
FileRecord == [text : Nat, meta : Nat, mtime : Nat, ok : BOOLEAN]
RowRecord == [text : Nat, meta : Nat, mtime : Nat]
OwedRecord == [text : Nat, meta : Nat, fate : {"none", "live", "leaving", "gone"}]

JobRecord == [op : AllOps \union {"none"}, e : Entries \union {NoEntry},
              pc : {"idle", "write", "attach", "undo", "insert", "getRow", "getBlocks",
                    "stat", "stamp", "removeDoc", "removeDir", "answer"},
              text : Nat, meta : Nat, mtime : Nat]

PassRecord == [op : {"none", "sync", "rebuild"},
               pc : {"idle", "wipe", "scan", "snapshot", "walk", "read", "replace",
                     "orphan", "sweep", "done"},
               todo : SUBSET Entries, seen : SUBSET Entries, snap : SUBSET (Entries \X Nat),
               e : Entries \union {NoEntry}, got : Content, alone : BOOLEAN, ok : BOOLEAN]

CountsRecord == [ops : Nat, passes : Nat, outside : Nat, crashes : Nat]

StoresType ==
  /\ dir \subseteq Entries /\ links \subseteq Entries \X Entries /\ clock \in Nat
  /\ DOMAIN doc \subseteq dir /\ doc \in [DOMAIN doc -> FileRecord]
  /\ DOMAIN row \subseteq Entries /\ row \in [DOMAIN row -> RowRecord]

JobType ==
  /\ job \in JobRecord
  /\ job.pc # "idle" => job.e \in Entries
  /\ job.pc = "answer" => job.op \in {"create", "update", "edit", "delete"}
  /\ At("delete", "removeDir") => job.e \notin DOMAIN doc

PassType ==
  /\ pass \in [Passes -> PassRecord]
  /\ \A p \in Passes : pass[p].pc \in {"read", "replace", "orphan"} => pass[p].e \in Entries
  /\ \A p \in Passes : pass[p].pc = "idle" => pass[p] = IdlePass

HistoryType ==
  /\ ver \in [Entries -> Content]
  /\ owed \in [entry : [Entries -> OwedRecord], links : SUBSET (Entries \X Entries)]

\* Shapes, that a file always has a directory, and that a pass which is not
\* running remembers nothing.
TypeOK ==
  /\ StoresType /\ JobType /\ PassType /\ HistoryType
  /\ up \in {"up", "down", "boot"} /\ counts \in CountsRecord

Live(e) == owed.entry[e].fate = "live"

\* The index never knows an entry that has no file: a create writes the file
\* first and a delete removes it last, so that a crash at any point leaves at
\* most an orphan file.
RowBacked == DOMAIN row \subseteq DOMAIN doc

\* A block edit that was answered is in the file, which each edit rewrites.
EditsInFile == \A e \in Entries : Live(e) =>
  e \in DOMAIN doc /\ doc[e].text >= owed.entry[e].text

\* It is in the index as well, across crashes, startup passes and later edits,
\* until the entry is deleted.
EditsDurable == EditsInFile /\ \A e \in Entries : Live(e) =>
  e \in DOMAIN row /\ row[e].text >= owed.entry[e].text

\* An entry.update that was answered is in the index.
MetaDurable == \A e \in Entries : Live(e) =>
  e \in DOMAIN row /\ row[e].meta >= owed.entry[e].meta

\* An entry whose delete was answered does not come back, neither as a row nor
\* as a directory that a later pass would adopt.
DeletesFinal == \A e \in Entries : owed.entry[e].fate = "gone" =>
  e \notin DOMAIN row /\ e \notin dir

\* Whatever overlaps whatever, no pass and no crash costs a live entry its file,
\* so that the index can be had again from the files.
FilesSurvive == \A e \in Entries : Live(e) => e \in DOMAIN doc

\* While the daemon is not killed, a link that was answered stays until one of
\* its ends is deleted: no sync re-indexes an entry whose stamp is up to date.
LinksKept == counts.crashes = 0 => owed.links \subseteq links

Finished(p, op) == pass[p].pc = "done" /\ pass[p].op = op /\ pass[p].ok /\ pass[p].alone

\* A successful index.sync that nothing else touched the stores during leaves
\* the index with exactly the entries that have files, each with its file's
\* mtime, whatever crashes, overlaps and outside edits came before it.
SyncConverges == \A p \in Passes : Finished(p, "sync") =>
  /\ DOMAIN row = DOMAIN doc
  /\ \A e \in DOMAIN row : row[e].mtime = doc[e].mtime

\* An index.rebuild that nothing else touched the stores during leaves the
\* index equal to the readable files: one bad file costs only itself.
RebuildConverges == \A p \in Passes : Finished(p, "rebuild") =>
  /\ DOMAIN row = {e \in DOMAIN doc : doc[e].ok}
  /\ \A e \in DOMAIN row : row[e] = [text |-> doc[e].text, meta |-> doc[e].meta,
                                     mtime |-> doc[e].mtime]

\* A pass of either kind that says it succeeded has done what it is for.
PassesConverge == SyncConverges /\ RebuildConverges

\* A daemon that went down serves again, whatever its startup sync met.
BootEnds == up = "down" ~> up = "up"

\* A call holding sync_lock is answered or fails; only a crash interrupts it.
JobEnds == job.pc # "idle" ~> job.pc = "idle"

\* An index pass ends.
PassEnds == \A p \in Passes : pass[p].pc # "idle" ~> pass[p].pc = "idle"
-----------------------------------------------------------------------------
(* Why what was answered is kept, when clients call no index RPC beside other *)
(* calls and nobody else touches the files.  A sync replaces a row only when  *)
(* the mtimes differ, and they differ only where a rerender wrote the file    *)
(* and did not come to stamp the row: there the two have the same content.    *)

SerialUse == ~Overlap /\ Outside = {}
NoRebuild == "rebuild" \notin PassOps

Active(p) == pass[p].pc # "idle"
Stale(e) == e \in DOMAIN row /\ row[e].mtime # doc[e].mtime
SameContent(e) == row[e].text = doc[e].text /\ row[e].meta = doc[e].meta

\* At most one actor, and none in a daemon that is down.
OneActor ==
  /\ \A p \in Passes : Active(p) =>
       job.pc = "idle" /\ \A q \in Passes : Active(q) => q = p
  /\ up = "down" => job.pc = "idle" /\ \A p \in Passes : ~Active(p)
  /\ up = "boot" => job.pc = "idle"

StoresOK ==
  /\ \A e \in DOMAIN doc : /\ doc[e].ok
                           /\ doc[e].text <= ver[e].text /\ doc[e].meta <= ver[e].meta
  /\ DOMAIN row \subseteq DOMAIN doc
  /\ \A e \in DOMAIN row : /\ doc[e].text <= row[e].text /\ row[e].text <= ver[e].text
                           /\ doc[e].meta <= row[e].meta /\ row[e].meta <= ver[e].meta
  /\ \A e \in dir : ver[e].text > 0

StaleOK == \A e \in Entries : Stale(e) =>
  /\ SameContent(e)
  /\ up = "up" => job.e = e /\ (At("edit", "stat") \/ At("edit", "stamp"))
  /\ \A p \in Passes : Active(p) =>
       \/ pass[p].pc \in {"scan", "snapshot"}
       \/ e \in pass[p].todo
       \/ pass[p].pc \in {"read", "replace"} /\ pass[p].e = e

CreateOK ==
  /\ At("create", "write") => job.e \notin DOMAIN row
  /\ job.op = "create" /\ job.pc \in {"attach", "undo", "insert"} =>
       job.e \notin DOMAIN row /\ job.e \in DOMAIN doc /\ doc[job.e].text = 1 /\ doc[job.e].meta = 1
  /\ job.op = "create" /\ job.pc # "idle" =>
       owed.entry[job.e].fate = "none" /\ ver[job.e].text > 0 /\ ver[job.e].meta > 0
  /\ At("create", "answer") =>
       job.e \in DOMAIN row /\ doc[job.e].text >= 1 /\ row[job.e].meta >= 1

EditOK == job.op = "edit" /\ job.pc # "idle" =>
  /\ job.e \in DOMAIN row
  /\ row[job.e].text = ver[job.e].text
  /\ job.pc \in {"getBlocks", "write"} => job.meta = row[job.e].meta
  /\ job.pc = "write" => job.text = row[job.e].text
  /\ job.pc \in {"stat", "stamp"} => SameContent(job.e)
  /\ job.pc = "stamp" => job.mtime = doc[job.e].mtime
  /\ job.pc = "answer" => doc[job.e].text = row[job.e].text

UpdateOK == job.op = "update" /\ job.pc # "idle" =>
  job.e \in DOMAIN row /\ job.meta <= row[job.e].meta

DeleteOK == job.op = "delete" /\ job.pc # "idle" =>
  /\ job.e \notin DOMAIN row /\ ver[job.e].text > 0 /\ owed.entry[job.e].fate # "live"
  /\ job.pc \in {"removeDir", "answer"} => job.e \notin DOMAIN doc
  /\ job.pc = "answer" => job.e \notin dir

JobOK == CreateOK /\ EditOK /\ UpdateOK /\ DeleteOK

SyncOK(p) ==
  /\ \A r \in pass[p].snap : r[1] \in dir
  /\ pass[p].pc \in {"walk", "read", "replace"} =>
       /\ \A r \in pass[p].snap : r[1] \in pass[p].todo =>
            r[1] \in DOMAIN row /\ r[2] = row[r[1]].mtime
       /\ \A e \in DOMAIN row \intersect pass[p].todo : <<e, row[e].mtime>> \in pass[p].snap
  /\ pass[p].pc \in {"read", "replace"} => /\ pass[p].e \in DOMAIN doc
                                           /\ pass[p].e \in DOMAIN row => Stale(pass[p].e)

PassOK == \A p \in Passes : Active(p) =>
  /\ pass[p].op = "sync" => SyncOK(p)
  /\ pass[p].op = "sync" \/ (pass[p].op = "rebuild" /\ up = "up" /\ ~NoRebuild)
  /\ pass[p].pc # "orphan"
  /\ pass[p].pc \in {"wipe", "sweep"} => pass[p].op = IF pass[p].pc = "wipe" THEN "rebuild" ELSE "sync"
  /\ pass[p].pc \notin {"wipe", "scan"} => pass[p].seen = dir
  /\ pass[p].pc = "snapshot" => pass[p].todo = dir
  /\ pass[p].pc \in {"sweep", "done"} => pass[p].todo = {}
  /\ pass[p].pc \in {"read", "replace"} => pass[p].e \notin pass[p].todo
  /\ pass[p].pc = "replace" =>
       /\ pass[p].e \in DOMAIN doc
       /\ pass[p].got = [text |-> doc[pass[p].e].text, meta |-> doc[pass[p].e].meta]

FatesOK == \A e \in Entries :
  /\ owed.entry[e].fate # "none" => ver[e].text > 0
  /\ Live(e) => e \in DOMAIN doc /\ owed.entry[e].text <= doc[e].text
  /\ Live(e) /\ NoRebuild => e \in DOMAIN row /\ owed.entry[e].meta <= row[e].meta
  /\ owed.entry[e].fate = "gone" => e \notin DOMAIN row /\ e \notin dir

\* The inductive invariant of the serial daemon.
KeptInv == SerialUse => OneActor /\ StoresOK /\ StaleOK /\ JobOK /\ PassOK /\ FatesOK
=============================================================================
