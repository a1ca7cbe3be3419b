------------------------------ MODULE MCFiles ------------------------------
(* The dispatch of requests with its sync_lock and the components that write  *)
(* entry files under it, on one small instance each: the handlers and index   *)
(* passes, the benchmark runtime and git sync.  What they do to each other's  *)
(* files is part of each module; no variable is shared, so that TLC explores  *)
(* them beside each other: `part` says which of them a behaviour is of, and   *)
(* the others stay in their initial states.                                   *)
EXTENDS ContentIndex, TLC

CONSTANTS Fixtures, Cases, Clients, Searches, MaxStarts, MaxCalls, MaxRestarts,
          Shared, Old, Blocks, MaxEdits, MaxFails,
          Conns, MaxLines, MaxDaemons

VARIABLES part,
          rows, dirs, active, traces, h, rec, gen, found, srch, done, answers, reported, strewn,
          file, indexed, index, head, onto, remote, unmerged, repo, run, slot, edits, fails, trouble,
          current, built, lock, task, commits, gens, map, lines, told, retired

Ben == INSTANCE Benchmark WITH counts <- done, MaxCrashes <- MaxRestarts
Git == INSTANCE GitSync WITH row <- indexed, Entries <- Shared
Dis == INSTANCE Dispatch WITH slot <- current, gen <- gens, acked <- told

ASSUME FilesAssumption ==
  Ben!BenchmarkAssumption /\ Git!GitSyncAssumption /\ Dis!DispatchAssumption

idx == vars
ben == <<rows, dirs, active, traces, h, rec, gen, found, srch, done, answers, reported, strewn>>
git == <<file, indexed, index, head, onto, remote, unmerged, repo, run, slot, edits, fails, trouble>>
dis == <<current, built, lock, task, commits, gens, map, lines, told, retired>>
all == <<part, idx, ben, git, dis>>

FilesInit ==
  /\ part \in {"index", "benchmark", "git", "dispatch"}
  /\ Init /\ Ben!Init /\ Git!Init /\ Dis!Init

FilesNext ==
  \/ part = "index"     /\ Next     /\ UNCHANGED <<part, ben, git, dis>>
  \/ part = "benchmark" /\ Ben!Next /\ UNCHANGED <<part, idx, git, dis>>
  \/ part = "git"       /\ Git!Next /\ UNCHANGED <<part, idx, ben, dis>>
  \/ part = "dispatch"  /\ Dis!Next /\ UNCHANGED <<part, idx, ben, git>>

FilesSpec == FilesInit /\ [][FilesNext]_all

Symmetry == Permutations(Entries) \union Permutations(Passes) \union Permutations(Clients)
-----------------------------------------------------------------------------
(* The properties of the components, as their modules state and explain them. *)

\* Benchmark: a search between undisturbed runs never returns a fixture.
NoFixtureBetweenRuns == Ben!NoFixtureBetweenRuns

\* Benchmark: the report has an answer of its run to each case that was acknowledged
\* one, and none that a later one has replaced.
ReportComplete == Ben!ReportComplete

\* Git sync: after "ok" the index shows what the files hold, and the remote has what
\* the tracked files held at the start.
OkMeansSynced == Git!OkMeansSynced

\* Git sync: without failures and conflicts no edit of either device is lost.
EditsKept == Git!EditsKept

\* Git sync: no conflict marker reaches the remote.
NoMarkersPushed == Git!NoMarkersPushed

\* Dispatch: only a call in flight over the swap of a restart may be missed by a search.
MissedOnlyOverSwap == Dis!MissedOnlyOverSwap

\* Dispatch: no line read after a restart was answered goes to the Daemon it replaced.
RestartTakesEffect == Dis!RestartTakesEffect
=============================================================================
