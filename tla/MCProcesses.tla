---------------------------- MODULE MCProcesses ----------------------------
(* The components whose liveness is checked on one small instance each: the   *)
(* resident daemon with its clients, git sync, the index passes with crashes  *)
(* and restarts, the handlers under sync_lock, and requests over a restart.   *)
(* They share no variable and no property is of two of them, so that TLC      *)
(* explores them beside each other: `part` says which of them a behaviour is  *)
(* of, and the others stay in their initial states.  A liveness property is   *)
(* of the behaviours of its part that satisfy the fairness of its component.  *)
EXTENDS Resident

CONSTANTS Entries, Old, Blocks, MaxEdits, MaxFails,
          NoEntry, Passes,
          NoWriter, Writers, Searchers,
          Conns, MaxLines, MaxDaemons

VARIABLES part,
          file, row, index, head, onto, remote, unmerged, repo, run, slot, edits, fails, trouble,
          dir, doc, indexed, links, up, job, pass, clock, counts, ver, owed,
          db, generation, map, syncLock, wr, srch, calls, asks, acked, settled, floor,
          current, built, lock, task, commits, gens, found, lines, told, retired

Git == INSTANCE GitSync
Index == INSTANCE ContentIndex WITH
  row <- indexed,
  PassOps <- {"sync", "rebuild"}, Ops <- {"create", "edit"}, Outside <- {"garble", "remove"},
  MayFail <- {}, Overlap <- TRUE, MaxOps <- 2, MaxPasses <- 1, MaxOutside <- 1, MaxCrashes <- 1
Handlers == INSTANCE SearchCache WITH
  Methods <- {"entry.create", "block.append", "entries.purge_transient"},
  Rpcs <- {"semantic"}, MayFail <- {"purge"}, MaxCalls <- 2, MaxAsks <- 1, MaxPass <- 1
Requests == INSTANCE Dispatch WITH slot <- current, gen <- gens, map <- found, acked <- told

ASSUME ProcessesAssumption == Requests!DispatchAssumption

dmn == vars
git == <<file, row, index, head, onto, remote, unmerged, repo, run, slot, edits, fails, trouble>>
idx == <<dir, doc, indexed, links, up, job, pass, clock, counts, ver, owed>>
hdl == <<db, generation, map, syncLock, wr, srch, calls, asks, acked, settled, floor>>
req == <<current, built, lock, task, commits, gens, found, lines, told, retired>>
all == <<part, dmn, git, idx, hdl, req>>

ProcessesInit ==
  /\ part \in {"daemons", "git", "index", "handlers", "requests"}
  /\ Init /\ Git!Init /\ Index!Init /\ Handlers!Init /\ Requests!Init

ProcessesNext ==
  \/ part = "daemons"  /\ Next          /\ UNCHANGED <<part, git, idx, hdl, req>>
  \/ part = "git"      /\ Git!Next      /\ UNCHANGED <<part, dmn, idx, hdl, req>>
  \/ part = "index"    /\ Index!Next    /\ UNCHANGED <<part, dmn, git, hdl, req>>
  \/ part = "handlers" /\ Handlers!Next /\ UNCHANGED <<part, dmn, git, idx, req>>
  \/ part = "requests" /\ Requests!Next /\ UNCHANGED <<part, dmn, git, idx, hdl>>

ProcessesSpec == ProcessesInit /\ [][ProcessesNext]_all
-----------------------------------------------------------------------------
\* A client that starts is served or is told that it cannot be, and once every
\* client is done, every server ends.
DaemonsServeAndLeave == (part = "daemons" /\ Fairness) => ClientsSettle /\ AllLeave

\* From any failure or conflict, running --sync again brings both sides together.
SettlesAgain == (part = "git" /\ Git!Fairness) => Git!SettlesAgain

\* Whatever was started ends: a daemon's startup pass, after a crash too, a mutating
\* call and an index pass, whatever index passes and outside changes come between;
\* a search, whatever is inserted, bumped and cleared meanwhile, and a call that
\* waits for sync_lock; a request, whichever locks its handler and the layers above
\* take, over a restart too.
WorkEnds ==
  /\ (part = "index" /\ Index!Fairness) => Index!BootEnds /\ Index!JobEnds /\ Index!PassEnds
  /\ (part = "handlers" /\ Handlers!Fairness) => Handlers!SearchEnds /\ Handlers!CallEnds
  /\ (part = "requests" /\ Requests!Fairness) => Requests!Answered
=============================================================================
