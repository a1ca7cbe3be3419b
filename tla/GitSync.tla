------------------------------- MODULE GitSync -------------------------------
(* sync.init and sync.run on one device (daemon/src/handlers/sync.rs): commit,  *)
(* pull --rebase, conflict and resume, push, index, each git call a step,      *)
(* beside the handlers that write entry files, index passes, system.restart,   *)
(* the user who resolves conflicts and another device that pushes to the same  *)
(* remote. A document is the set of edits it holds, its #updated_at line and   *)
(* the conflict markers git has left in it. Git itself is external.            *)
EXTENDS Naturals, FiniteSets

CONSTANTS Entries, Old,  \* entries, and those that exist before sync.init
          Blocks,        \* the blocks of an entry
          MaxEdits,      \* bound on edits of both devices together
          MaxFails       \* bound on failures of git and of the index, and on restarts

GitSyncAssumption ==
  /\ Old \subseteq Entries
  /\ MaxEdits \in Nat /\ MaxFails \in Nat

VARIABLES file,     \* the work tree
          row,      \* the index
          index,    \* git's index
          head,     \* the local branch
          onto,     \* the remote branch as last fetched or pushed
          remote,   \* the branch on the remote
          unmerged, \* paths git holds as unmerged
          repo,     \* "none"; "half": .git without a commit; "ready"; "rebase"
          run,      \* the sync.run under way and the answer to the last one
          slot,     \* "first" or "second": the Daemon that the slot holds
          edits,    \* edits made so far
          fails, trouble   \* number and kinds of the failures so far

vars == <<file, row, index, head, onto, remote, unmerged, repo, run, slot, edits, fails, trouble>>
git == <<index, head, onto, remote, unmerged, repo>>

Edit == (1..MaxEdits) \X Blocks
Doc == [has : SUBSET Edit, upd : 0..MaxEdits, mark : {"no", "body", "header"}]
None == [has |-> {}, upd |-> 0, mark |-> "none"]
Trees == [Entries -> Doc \union {None}]
Empty == [e \in Entries |-> None]

Steps == {"idle", "commit", "pull", "continue", "push", "index"}
Troubles == {"git", "push", "index", "conflict", "restart"}

TypeOK ==
  /\ {file, row, index, head, onto, remote} \subseteq Trees
  /\ \A e \in Entries : row[e].mark # "header"
  /\ unmerged \subseteq Entries
  /\ repo \in {"none", "half", "ready", "rebase"}
  /\ run \in [pc : Steps, by : {"first", "second"}, had : [Entries -> SUBSET Edit],
              last : {"none", "ok", "error", "conflict"}]
  /\ slot \in {"first", "second"}
  /\ edits \in 0..MaxEdits /\ fails \in 0..MaxFails
  /\ trouble \subseteq Troubles

Init ==
  /\ file = [e \in Entries |-> IF e \in Old THEN [has |-> {}, upd |-> 0, mark |-> "no"] ELSE None]
  /\ row = file
  /\ index = Empty /\ head = Empty /\ onto = Empty /\ remote = Empty
  /\ unmerged = {}
  /\ repo = "none"
  /\ run = [pc |-> "idle", by |-> "first", had |-> [e \in Entries |-> {}], last |-> "none"]
  /\ slot = "first"
  /\ edits = 0 /\ fails = 0 /\ trouble = {}

Fail(kind) ==
  /\ fails < MaxFails
  /\ fails' = fails + 1
  /\ trouble' = trouble \union {kind}

Calm == UNCHANGED <<fails, trouble>>
-----------------------------------------------------------------------------
(* The daemon's other work.                                                   *)

\* sync_lock belongs to a Daemon: a run holds that of the Daemon it began on.
LockFree == run.pc = "idle" \/ run.by # slot

\* A handler under sync_lock edits block b and renders the file from the row: its
\* #updated_at is that of the row before the row is stamped anew.
Write(e, b) ==
  /\ LockFree
  /\ edits < MaxEdits
  /\ row[e] # None
  /\ LET n == edits + 1
         now == row[e].has \union {<<n, b>>} IN
     /\ edits' = n
     /\ file' = [file EXCEPT ![e] = [row[e] EXCEPT !.has = now]]
     /\ row' = [row EXCEPT ![e] = [@ EXCEPT !.has = now, !.upd = n]]
  /\ UNCHANGED <<git, run, slot, fails, trouble>>

\* entry.create.
Create(e, b) ==
  /\ LockFree
  /\ edits < MaxEdits
  /\ file[e] = None /\ remote[e] = None
  /\ edits' = edits + 1
  /\ file' = [file EXCEPT ![e] = [has |-> {<<edits + 1, b>>}, upd |-> edits + 1, mark |-> "no"]]
  /\ row' = [row EXCEPT ![e] = file'[e]]
  /\ UNCHANGED <<git, run, slot, fails, trouble>>

\* What an index pass makes of a file: markers in a body are text, a header with
\* markers does not parse and the row stays.
Indexed(e) == IF file[e].mark = "header" THEN row[e] ELSE file[e]

\* index.sync, a boot's or a rebuild's pass over one entry: without sync_lock.
PassEntry(e) ==
  /\ row' = [row EXCEPT ![e] = Indexed(e)]
  /\ UNCHANGED <<file, git, run, slot, edits, fails, trouble>>

\* system.restart puts a new Daemon, with a lock of its own, into the slot.
Restart ==
  /\ slot = "first"
  /\ Fail("restart")
  /\ slot' = "second"
  /\ UNCHANGED <<file, row, git, run, edits>>
-----------------------------------------------------------------------------
(* sync.init.                                                                 *)

\* git init, remote add, lfs install, .gitignore, .gitattributes, add.
InitRepo ==
  /\ repo = "none"
  /\ repo' = "half"
  /\ UNCHANGED <<file, row, index, head, onto, remote, unmerged, run, slot, edits, fails, trouble>>

\* The initial commit. One that fails leaves "half", and no second sync.init
\* passes the check for .git.
InitCommit ==
  /\ repo = "half" /\ "git" \notin trouble
  /\ \/ /\ repo' = "ready"
        /\ index' = file /\ head' = file
        /\ Calm
     \/ /\ Fail("git")
        /\ UNCHANGED <<repo, index, head>>
  /\ UNCHANGED <<file, row, onto, remote, unmerged, run, slot, edits>>
-----------------------------------------------------------------------------
(* sync.run.                                                                  *)
Goto(pc) == run' = [run EXCEPT !.pc = pc]
Return(answer) ==
  run' = [run EXCEPT !.pc = "idle", !.last = answer, !.had = [e \in Entries |-> {}]]

\* Slip: a detached HEAD is refused also when a rebase is under way.
StartNeverResumes ==
  /\ run.pc = "idle"
  /\ run' = IF repo # "ready"
            THEN [run EXCEPT !.last = "error"]
            ELSE [pc |-> "commit", by |-> slot,
                  had |-> [e \in Entries |-> file[e].has], last |-> "none"]
  /\ UNCHANGED <<file, row, git, slot, edits, fails, trouble>>

\* sync_lock, then the checks: .git, rev-parse (which needs a commit), a rebase
\* that is under way.
Start ==
  /\ run.pc = "idle"
  /\ run' = IF repo \in {"none", "half"}
            THEN [run EXCEPT !.last = "error"]
            ELSE [pc |-> IF repo = "rebase" THEN "continue" ELSE "commit",
                  by |-> slot, had |-> [e \in Entries |-> file[e].has], last |-> "none"]
  /\ UNCHANGED <<file, row, git, slot, edits, fails, trouble>>

\* add -A, and a commit when status is not empty.
Commit ==
  /\ run.pc = "commit"
  /\ index' = file /\ head' = file
  /\ Goto("pull")
  /\ UNCHANGED <<file, row, onto, remote, unmerged, repo, slot, edits, fails, trouble>>

CommitFails ==
  /\ run.pc = "commit"
  /\ Fail("git")
  /\ Return("error")
  /\ UNCHANGED <<file, row, git, slot, edits>>

\* Changes that are not staged, which stop pull --rebase and rebase --continue.
Dirty == \E e \in Entries : index[e] # None /\ file[e] # index[e]

Of(d, b) == {x \in d.has : x[2] = b}
Both(e, f(_)) == f(head[e]) # f(onto[e]) /\ f(remote[e]) # f(onto[e]) /\ f(head[e]) # f(remote[e])

\* What both sides have changed since they parted: a block, the header line.
SameBlock(e) == \E b \in Blocks : LET part(d) == Of(d, b) IN Both(e, part)
SameHeader(e) == LET upd(d) == d.upd IN Both(e, upd)

Theirs(e) == head[e] = onto[e]
Ours(e) == remote[e] = onto[e]

\* The three-way merge.
Merged(e) ==
  IF Theirs(e) THEN remote[e]
  ELSE IF Ours(e) THEN head[e]
  ELSE [has |-> (remote[e].has \ (onto[e].has \ head[e].has)) \union (head[e].has \ onto[e].has),
        upd |-> IF remote[e].upd = onto[e].upd THEN head[e].upd ELSE remote[e].upd,
        mark |-> IF "body" \in {head[e].mark, remote[e].mark} THEN "body" ELSE "no"]

Marked(e) ==
  [has |-> head[e].has \union remote[e].has,
   upd |-> remote[e].upd,
   mark |-> IF SameHeader(e) THEN "header" ELSE "body"]

\* pull --rebase. Edits of one block may touch the same line; two different
\* values of the #updated_at line always do.
Pull ==
  /\ run.pc = "pull"
  /\ remote # Empty /\ ~Dirty
  /\ onto' = remote
  /\ \E C \in SUBSET {e \in Entries : SameBlock(e) \/ SameHeader(e)} :
       /\ \A e \in Entries : SameHeader(e) => e \in C
       /\ file' = [e \in Entries |-> IF e \in C THEN Marked(e) ELSE Merged(e)]
       /\ unmerged' = C
       /\ IF C = {}
          THEN /\ index' = file' /\ head' = file'
               /\ Goto("push")
               /\ UNCHANGED <<repo, trouble>>
          ELSE /\ index' = file'
               /\ repo' = "rebase"
               /\ Return("conflict")
               /\ trouble' = trouble \union {"conflict"}
               /\ UNCHANGED head
  /\ UNCHANGED <<row, remote, slot, edits, fails>>

\* A pull that starts no rebase (no such branch yet, no network, changes that are
\* not staged) falls through to the push.
PullFails ==
  /\ run.pc = "pull"
  /\ \/ (remote = Empty \/ Dirty) /\ Calm
     \/ Fail("git")
  /\ Goto("push")
  /\ UNCHANGED <<file, row, git, slot, edits>>

\* Slip: add -A on the resume path too, which also marks conflicts as resolved.
ContinueStagesAll ==
  /\ run.pc = "continue"
  /\ index' = file /\ head' = file
  /\ unmerged' = {}
  /\ repo' = "ready"
  /\ Goto("push")
  /\ UNCHANGED <<file, row, onto, remote, slot, edits, fails, trouble>>

\* rebase --continue commits what is staged; it refuses unmerged paths and
\* changes that are not staged.
Continue ==
  /\ run.pc = "continue"
  /\ IF unmerged = {} /\ ~Dirty
     THEN /\ head' = index
          /\ repo' = "ready"
          /\ Goto("push")
     ELSE /\ Return("conflict")
          /\ UNCHANGED <<head, repo>>
  /\ UNCHANGED <<file, row, index, onto, remote, unmerged, slot, edits, fails, trouble>>

\* Slip: push --force.
PushForced ==
  /\ run.pc = "push"
  /\ remote' = head /\ onto' = head
  /\ Goto("index")
  /\ UNCHANGED <<file, row, index, head, unmerged, repo, slot, edits, fails, trouble>>

\* The remote takes a push only on top of what it has.
Push ==
  /\ run.pc = "push"
  /\ IF remote = onto
     THEN /\ remote' = head /\ onto' = head
          /\ Goto("index")
          /\ UNCHANGED trouble
     ELSE /\ Return("error")
          /\ trouble' = trouble \union {"push"}
          /\ UNCHANGED <<remote, onto>>
  /\ UNCHANGED <<file, row, index, head, unmerged, repo, slot, edits, fails>>

PushFails ==
  /\ run.pc = "push"
  /\ Fail("push")
  /\ Return("error")
  /\ UNCHANGED <<file, row, git, slot, edits>>

\* index.sync, called under the lock that is still held.
Reindex ==
  /\ run.pc = "index"
  /\ row' = [e \in Entries |-> Indexed(e)]
  /\ Return("ok")
  /\ UNCHANGED <<file, git, slot, edits, fails, trouble>>

\* Slip: the result of index.sync is not looked at.
ReindexFailsIgnored ==
  /\ run.pc = "index"
  /\ Fail("index")
  /\ Return("ok")
  /\ UNCHANGED <<file, row, git, slot, edits>>

ReindexFails ==
  /\ run.pc = "index"
  /\ Fail("index")
  /\ Return("error")
  /\ UNCHANGED <<file, row, git, slot, edits>>
-----------------------------------------------------------------------------
(* Outside the daemon.                                                        *)

\* The user edits a conflicting file into one that keeps both sides, or takes a
\* file a handler has rewritten as it is, and stages it.
Resolve(e) ==
  /\ repo = "rebase"
  /\ e \in unmerged \/ (index[e] # None /\ file[e] # index[e])
  /\ file' = [file EXCEPT ![e].mark = "no"]
  /\ index' = [index EXCEPT ![e] = file'[e]]
  /\ unmerged' = unmerged \ {e}
  /\ UNCHANGED <<row, head, onto, remote, repo, run, slot, edits, fails, trouble>>

\* The other device pushes an edit; its #updated_at is new unless this was its
\* first edit since it last pulled.
OtherEdits(e, b) ==
  /\ remote[e] # None
  /\ edits < MaxEdits
  /\ edits' = edits + 1
  /\ \E upd \in {remote[e].upd, edits + 1} :
       remote' = [remote EXCEPT ![e].has = @ \union {<<edits + 1, b>>}, ![e].upd = upd]
  /\ UNCHANGED <<file, row, index, head, onto, unmerged, repo, run, slot, fails, trouble>>

OtherCreates(e, b) ==
  /\ remote # Empty /\ remote[e] = None /\ file[e] = None
  /\ edits < MaxEdits
  /\ edits' = edits + 1
  /\ remote' = [remote EXCEPT ![e] = [has |-> {<<edits + 1, b>>}, upd |-> edits + 1, mark |-> "no"]]
  /\ UNCHANGED <<file, row, index, head, onto, unmerged, repo, run, slot, fails, trouble>>

RunStep ==
  \/ Start \/ Commit \/ CommitFails \/ Pull \/ PullFails \/ Continue
  \/ Push \/ PushFails \/ Reindex \/ ReindexFails

Next ==
  \/ \E e \in Entries, b \in Blocks :
       Write(e, b) \/ Create(e, b) \/ OtherEdits(e, b) \/ OtherCreates(e, b)
  \/ \E e \in Entries : PassEntry(e) \/ Resolve(e)
  \/ InitRepo \/ InitCommit \/ Restart \/ RunStep

Spec == Init /\ [][Next]_vars

\* The user keeps running --sync and resolves what it reports.
Fairness ==
  /\ WF_vars(InitRepo \/ InitCommit)
  /\ WF_vars(RunStep)
  /\ \A e \in Entries : WF_vars(Resolve(e))

FairSpec == Spec /\ Fairness
-----------------------------------------------------------------------------
Same(s, t) == \A e \in Entries : s[e].has = t[e].has /\ s[e].mark = t[e].mark

\* After a sync.run that was answered OK the index shows what the files hold, until
\* the next run: no handler renders from a row that lacks a pulled edit ("Each
\* device rebuilds its own local index from the reconciled filesystem", guide.md).
\* `pushed: true` means that the remote has every edit that was in a tracked file
\* when the run began. (rebase --continue leaves an entry created since the
\* conflict untracked, and a restart lets handlers write into a run.)
OkMeansSynced ==
  [][/\ run'.pc = "idle" /\ run'.last = "ok" /\ "restart" \notin trouble'
          => Same(row', file')
     /\ run.pc = "index" /\ run'.last = "ok" /\ "restart" \notin trouble
          => \A e \in Entries : index[e] # None => run.had[e] \subseteq onto[e].has]_vars

\* While nothing fails, conflicts or restarts, no edit of either device is ever
\* lost, whatever the order of writes, passes, pulls and pushes (sync_lock, the
\* rejected push, index.sync before the lock is released).
EditsKept ==
  trouble = {} =>
    \A n \in 1..edits : \E e \in Entries : \E x \in file[e].has \union remote[e].has : x[1] = n

\* Unless a push or an index pass fails or the daemon restarts, no conflict marker
\* reaches the remote, although index passes read files with markers as text and
\* handlers render them back (the resume path stages nothing).
NoMarkersPushed ==
  trouble \subseteq {"git", "conflict"} => \A e \in Entries : remote[e].mark \in {"no", "none"}

Agreed == repo = "ready" /\ head = remote /\ Same(file, head) /\ Same(row, file)

\* "Re-run nomai-daemon --sync ... No residual state" (guide.md): from any failure,
\* conflict or half-indexed pull, running --sync again and resolving what it
\* reports brings remote, branch, files and index together once more.
SettlesAgain == (repo = "ready") ~> Agreed

\* "Two devices editing different blocks of the same entry merge cleanly on pull
\* --rebase" (guide.md): a conflict has a block that both have edited.
OnlySameBlockConflicts ==
  [][run.pc = "pull" /\ run'.last = "conflict" => \E e \in Entries : SameBlock(e)]_vars
===============================================================================
