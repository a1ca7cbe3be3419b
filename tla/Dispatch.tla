------------------------------ MODULE Dispatch ------------------------------
(***************************************************************************)
(* Requests on several connections of one resident process, dispatched to  *)
(* the Daemon that its slot holds when their line is read.  system.restart *)
(* puts a rebuilt Daemon into the slot, with a connection to the database, *)
(* a sync_lock and a search results cache of its own, while the calls that *)
(* were dispatched before go on with the old one.                          *)
(*                                                                         *)
(* A handler is its commit, the bump of its Daemon's cache generation, and *)
(* the locks around it; a search is a cached read of how many commits      *)
(* there have been.  SearchCache has the handlers in detail.  Lines that   *)
(* reach no handler (not JSON, unknown methods) change nothing.            *)
(***************************************************************************)
EXTENDS Naturals, Sequences, FiniteSets, Functions

CONSTANTS
  Conns,       \* connections
  MaxLines,    \* bound: request lines
  MaxDaemons   \* bound: Daemons built, the first one included

DispatchAssumption == MaxLines \in Nat /\ MaxDaemons \in Nat \ {0}

Daemons == 1 .. MaxDaemons

VARIABLES
  slot,     \* the Daemon that the next line goes to
  built,    \* Daemons built so far
  lock,     \* lock[d]: sync_lock of Daemon d, who holds it and who waits, in order
  task,     \* task[c]: the request that connection c is in the middle of
  commits,  \* what the database holds: the number of commits
  gen,      \* gen[d]: generation of the search cache of Daemon d
  map,      \* map[d]: its cached results, by generation
  lines,    \* request lines read
  acked,    \* history: commits whose call was answered
  retired   \* history: the Daemons that answered restarts have replaced

vars == <<slot, built, lock, task, commits, gen, map, lines, acked, retired>>

NotCached == 0

Init ==
  /\ slot = 1 /\ built = 1
  /\ lock = [d \in Daemons |-> <<>>]
  /\ task = [c \in Conns |-> [pc |-> "read", daemon |-> 1]]
  /\ commits = 1
  /\ gen = [d \in Daemons |-> 0]
  /\ map = [d \in Daemons |-> [g \in 0 .. MaxLines |-> NotCached]]
  /\ lines = 0 /\ acked = {} /\ retired = {}

At(c, pc) == task[c].pc = pc
Goto(c, pc) == task' = [task EXCEPT ![c].pc = pc]
-----------------------------------------------------------------------------
(* Reading and answering. *)

Methods == {"entry.update", "index.sync", "sync.run", "search", "system.restart"}
Mutating == {"entry.update"}  \* is_mutating

\* A client calls a method itself or through tools/call: which of them makes a
\* difference to a mutating one only.
Vias(method) == IF method \in Mutating THEN {"direct", "tools/call"} ELSE {"direct"}

\* Slip: a connection keeps the Daemon of its first request.
ReadPinned(c) ==
  /\ At(c, "read") /\ lines < MaxLines /\ lines' = lines + 1
  /\ \E method \in Methods : \E via \in Vias(method) : task' =
       [task EXCEPT ![c] =
         [pc |-> "call", method |-> method, via |-> via,
          daemon |-> task[c].daemon,
          before |-> IF method = "search" THEN acked ELSE {}]]
  /\ UNCHANGED <<slot, built, lock, commits, gen, map, acked, retired>>

\* The next line of connection c.
Read(c) ==
  /\ At(c, "read") /\ lines < MaxLines /\ lines' = lines + 1
  /\ \E method \in Methods : \E via \in Vias(method) : task' =
       [task EXCEPT ![c] =
         [pc |-> "call", method |-> method, via |-> via, daemon |-> slot,
          before |-> IF method = "search" THEN acked ELSE {}]]
  /\ UNCHANGED <<slot, built, lock, commits, gen, map, acked, retired>>

\* Slip: sync.run is marked as mutating.
LocksTwice(r) ==
  {r.via : x \in {r.method} \cap (Mutating \union {"sync.run"})}
    \union {"own" : x \in {r.method} \cap {"sync.run"}}

\* Who takes sync_lock for a request: dispatch or tools/call for a mutating
\* handler, Run::call for itself.
Locks(r) ==
  {r.via : x \in {r.method} \cap Mutating} \union {"own" : x \in {r.method} \cap {"sync.run"}}

Queued(c) == {layer \in Locks(task[c]) : <<c, layer>> \in Range(lock[task[c].daemon])}
Holds(c) == Queued(c) # {} => Head(lock[task[c].daemon])[1] = c /\ Cardinality(Queued(c)) = 1

\* sync_lock.lock().await of the Daemon the request was dispatched to, outermost first.
TakeLock(c) ==
  /\ At(c, "call") /\ Holds(c) /\ Queued(c) # Locks(task[c])
  /\ \E layer \in Locks(task[c]) \ Queued(c) :
       /\ layer = "own" => Queued(c) = Locks(task[c]) \ {"own"}
       /\ lock' = [lock EXCEPT ![task[c].daemon] = Append(@, <<c, layer>>)]
  /\ UNCHANGED <<slot, built, task, commits, gen, map, lines, acked, retired>>

\* The handler has returned: its locks are dropped before the answer is written.
Return(c) ==
  /\ At(c, "done")
  /\ Goto(c, "reply")
  /\ lock' = [lock EXCEPT ![task[c].daemon] = SelectSeq(@, LAMBDA x : x[1] # c)]
  /\ UNCHANGED <<slot, built, commits, gen, map, lines, acked, retired>>

\* Written to the client; not for a notification, nor when the client is gone.
Reply(c) ==
  /\ At(c, "reply")
  /\ task' = [task EXCEPT ![c] = [pc |-> "read", daemon |-> @.daemon]]
  /\ \/ UNCHANGED <<acked, retired>>
     \/ "effect" \in DOMAIN task[c] /\ acked' = acked \union {task[c].effect} /\ UNCHANGED retired
     \/ "swapped" \in DOMAIN task[c] /\ retired' = retired \union {task[c].daemon} /\ UNCHANGED acked
  /\ UNCHANGED <<slot, built, lock, commits, gen, map, lines>>
-----------------------------------------------------------------------------
(* Handlers. *)

\* The handler of c runs: nobody is before it in a lock it needs.
Running(c) == At(c, "call") /\ Queued(c) = Locks(task[c]) /\ Holds(c)
Working(c, methods) == Running(c) /\ task[c].method \in methods

\* A writer commits on its Daemon's connection; `late`: that Daemon has been replaced.
Commit(c) ==
  /\ Working(c, {"entry.update", "index.sync", "sync.run"})
  /\ commits' = commits + 1
  /\ task' = [task EXCEPT ![c] =
       [pc |-> "bump", method |-> @.method, via |-> @.via, daemon |-> @.daemon,
        effect |-> [commit |-> commits', daemon |-> @.daemon, late |-> slot # @.daemon]]]
  /\ UNCHANGED <<slot, built, lock, gen, map, lines, acked, retired>>

Bump(c) ==
  /\ At(c, "bump")
  /\ gen' = [gen EXCEPT ![task[c].daemon] = @ + 1]
  /\ Goto(c, "done")
  /\ UNCHANGED <<slot, built, lock, commits, map, lines, acked, retired>>

\* lookup_or_compute: the generation is loaded once, for the lookup and the insert.
LookUp(c) ==
  /\ Working(c, {"search"})
  /\ LET d == task[c].daemon  hit == map[d][gen[d]] IN
     task' = [task EXCEPT ![c] =
       [pc |-> IF hit = NotCached THEN "compute" ELSE "done", method |-> @.method, via |-> @.via,
        daemon |-> d, before |-> @.before, at |-> gen[d], result |-> hit]]
  /\ UNCHANGED <<slot, built, lock, commits, gen, map, lines, acked, retired>>

Compute(c) ==
  /\ At(c, "compute")
  /\ task' = [task EXCEPT ![c].result = commits, ![c].pc = "insert"]
  /\ UNCHANGED <<slot, built, lock, commits, gen, map, lines, acked, retired>>

Insert(c) ==
  /\ At(c, "insert")
  /\ map' = [map EXCEPT ![task[c].daemon][task[c].at] = task[c].result]
  /\ Goto(c, "done")
  /\ UNCHANGED <<slot, built, lock, commits, gen, lines, acked, retired>>

\* system.restart: Daemon::from_arc, then the swap.
Build(c) ==
  /\ Working(c, {"system.restart"}) /\ built < MaxDaemons
  /\ built' = built + 1
  /\ task' = [task EXCEPT ![c] = [pc |-> "swap", method |-> @.method, via |-> @.via,
                                  daemon |-> @.daemon, new |-> built']]
  /\ UNCHANGED <<slot, lock, commits, gen, map, lines, acked, retired>>

\* Slip: the rebuilt Daemon is given the cached results, and counts generations anew.
SwapKeepsMap(c) ==
  /\ At(c, "swap")
  /\ slot' = task[c].new
  /\ map' = [map EXCEPT ![task[c].new] = map[task[c].daemon]]
  /\ task' = [task EXCEPT ![c] = [pc |-> "done", method |-> @.method, via |-> @.via,
                                  daemon |-> @.daemon, swapped |-> TRUE]]
  /\ UNCHANGED <<built, lock, commits, gen, lines, acked, retired>>

Swap(c) ==
  /\ At(c, "swap")
  /\ slot' = task[c].new
  /\ task' = [task EXCEPT ![c] = [pc |-> "done", method |-> @.method, via |-> @.via,
                                  daemon |-> @.daemon, swapped |-> TRUE]]
  /\ UNCHANGED <<built, lock, commits, gen, map, lines, acked, retired>>

\* A handler, or the building of a Daemon, fails without an effect.
Fail(c) ==
  /\ Running(c) \/ At(c, "compute")
  /\ Goto(c, "done")
  /\ UNCHANGED <<slot, built, lock, commits, gen, map, lines, acked, retired>>

Handle(c) ==
  \/ TakeLock(c) \/ Return(c) \/ Reply(c) \/ Fail(c)
  \/ Commit(c) \/ Bump(c) \/ LookUp(c) \/ Compute(c) \/ Insert(c) \/ Build(c) \/ Swap(c)

Next == \E c \in Conns : Read(c) \/ Handle(c)

\* A connection is a task of its own, and sync_lock is handed on in order.
Fairness == \A c \in Conns : WF_vars(Handle(c))

Spec == Init /\ [][Next]_vars
-----------------------------------------------------------------------------
(* Properties. *)

Found(c) == At(c, "reply") /\ "result" \in DOMAIN task[c] /\ task[c].result # NotCached
Missed(c) == {effect \in task[c].before : effect.commit > task[c].result}

\* A search misses a call answered before its line was read only if that call
\* committed on a Daemon that had been replaced: whatever is in flight over a swap,
\* the two caches, of which only one is bumped, disagree about nothing else.
MissedOnlyOverSwap == \A c \in Conns : Found(c) =>
  \A effect \in Missed(c) : effect.late /\ effect.daemon # task[c].daemon

\* Once a restart is answered, no line that is read later, on any connection, goes to
\* the Daemon the restart was to replace, whichever restarts run beside it.
RestartTakesEffect ==
  [][\A c \in Conns : At(c, "read") /\ ~At(c, "read")' => task'[c].daemon \notin retired]_vars

\* Every request is done with, whoever waits for which sync_lock.
Answered == \A c \in Conns : ~At(c, "read") ~> At(c, "read")
=============================================================================
