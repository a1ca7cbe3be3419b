------------------------------ MODULE Benchmark ------------------------------
(* The benchmark runtime (daemon/src/benchmark/mod.rs, handlers/benchmark.rs): *)
(* a run keeps its fixtures as ordinary entries that other reads do not see,   *)
(* its answers in memory, and removes the fixtures when it ends or, after an   *)
(* interrupted process, when the daemon boots. Beside it searches that read    *)
(* the visibility flag before they look into the cache, judges that answer     *)
(* late, and index passes. next_case and the traces of record_rpc are left out. *)
EXTENDS Naturals, FiniteSets

CONSTANTS Fixtures,  \* the fixtures of a suite
          Cases,     \* its cases
          Clients,   \* callers of record_answer
          Searches,
          MaxStarts, \* bound on runs
          MaxCalls,  \* bound on answers recorded and searches asked
          MaxCrashes \* bound on crashes

BenchmarkAssumption ==
  Cases # {} /\ MaxStarts \in Nat /\ MaxCalls \in Nat /\ MaxCrashes \in Nat

Runs == 1..MaxStarts
NoRun == 0
Entry == Runs \X Fixtures

VARIABLES rows,   \* fixture rows
          dirs,   \* fixture directories
          active, \* the run in BenchmarkRuntime.state
          traces, \* its answers: case -> number of the answer
          h,      \* the start, finish or abort that holds sync_lock
          rec,    \* rec[c]: a record_answer that waits for the judge or for its reply
          gen, found, \* search cache: generation, generation -> did the result hold fixtures
          srch,   \* srch[s]: a search
          counts, \* runs started and undone, answers given, searches asked, crashes
          answers,\* history: number -> what a client sent
          reported,\* history: the answers that were acknowledged
          strewn  \* history: fixtures a failure, a crash or a pass has left or brought back

vars == <<rows, dirs, active, traces, h, rec, gen, found, srch, counts, answers, reported, strewn>>
runVars == <<active, traces>>
recVars == <<rec, answers, reported>>
searchVars == <<gen, found, srch>>

\* An answer is told by its number. It was sent to a run and a case, after others that
\* had been acknowledged.
NoAnswer == 0
Numbers == 1..MaxCalls
Sent == [run : 0..MaxStarts, case : Cases, after : SUBSET Numbers]
NoAnswers == [c \in Cases |-> NoAnswer]
Free == [pc |-> "free", n |-> NoAnswer]
Idle == [pc |-> "idle", op |-> "none", run |-> NoRun, todo |-> {}, at |-> {}, made |-> {}]

NoSearch == [pc |-> "idle", flag |-> FALSE, key |-> 0, sees |-> FALSE, alone |-> FALSE]

TypeOK ==
  /\ rows \subseteq Entry /\ dirs \subseteq Entry /\ strewn \subseteq Entry
  /\ active \in 0..MaxStarts /\ traces \in [Cases -> 0..MaxCalls] /\ answers \in [Numbers -> Sent] /\ reported \subseteq Numbers
  /\ h.pc \in {"idle", "create", "undo", "embed", "purge", "bump", "boot", "scan", "down"}
  /\ h.op \in {"none", "start", "finish", "abort"}
  /\ h.todo \subseteq Entry /\ h.at \subseteq Entry /\ Cardinality(h.at) <= 1 /\ h.made \subseteq Entry
  /\ h.pc \in {"create", "undo"} => active = NoRun
  /\ rec \in [Clients -> [pc : {"free", "judge", "reply"}, n : 0..MaxCalls]]
  /\ DOMAIN found \subseteq 0..gen

Init ==
  /\ rows = {} /\ dirs = {} /\ strewn = {}
  /\ active = NoRun /\ traces = NoAnswers
  /\ h = Idle
  /\ rec = [c \in Clients |-> Free]
  /\ answers = [n \in Numbers |-> [run |-> NoRun, case |-> CHOOSE x \in Cases : TRUE, after |-> {}]]
  /\ reported = {}
  /\ gen = 0 /\ found = <<>>
  /\ srch = [s \in Searches |-> NoSearch]
  /\ counts = [runs |-> 0, answers |-> 0, asks |-> 0, crashes |-> 0, undone |-> 0]

Up == h.pc \notin {"down", "boot", "scan"}
\* BenchmarkRuntime.state is locked while fixtures are created or removed.
StateFree == Up /\ h.pc \notin {"create", "undo", "purge"}

CallsLeft == counts.answers + counts.asks < MaxCalls

\* A search is alone as long as no run is there and none starts or ends.
Watch == srch' = [s \in Searches |-> [srch[s] EXCEPT !.alone = FALSE]]
-----------------------------------------------------------------------------
(* benchmark.start                                                            *)
Start ==
  /\ h.pc = "idle" /\ active = NoRun /\ counts.runs < MaxStarts
  /\ LET n == counts.runs + 1 IN
     h' = [Idle EXCEPT !.pc = "create", !.op = "start", !.run = n, !.todo = {n} \X Fixtures]
  /\ counts' = [counts EXCEPT !.runs = @ + 1]
  /\ Watch
  /\ UNCHANGED <<rows, dirs, runVars, recVars, gen, found, strewn>>

CreateFile(f) ==
  /\ h.pc = "create" /\ h.at = {} /\ f \in h.todo
  /\ dirs' = dirs \union {f}
  /\ h' = [h EXCEPT !.at = {f}, !.todo = @ \ {f}]
  /\ UNCHANGED <<rows, runVars, recVars, searchVars, counts, strewn>>

CreateRow(f) ==
  /\ h.pc = "create" /\ h.at = {f}
  /\ rows' = rows \union {f}
  /\ h' = [h EXCEPT !.at = {}, !.made = @ \union {f}]
  /\ UNCHANGED <<dirs, runVars, recVars, searchVars, counts, strewn>>

\* An entry cannot be created: its directory may stay, those made are deleted.
CreateFails ==
  /\ h.pc = "create" /\ h.todo \union h.at # {}
  /\ strewn' = strewn \union h.at
  /\ h' = [h EXCEPT !.pc = "undo", !.at = {}]
  /\ counts' = [counts EXCEPT !.undone = @ + 1]
  /\ UNCHANGED <<rows, dirs, runVars, recVars, searchVars>>

\* The errors of these deletes are ignored.
Undo ==
  /\ h.pc = "undo"
  /\ \E r \in SUBSET h.made : \E d \in {x \in SUBSET h.made : r \subseteq x} :
       /\ rows' = rows \ (h.made \ r)
       /\ dirs' = dirs \ (h.made \ d)
       /\ strewn' = strewn \union d
  /\ h' = Idle
  /\ UNCHANGED <<runVars, recVars, searchVars, counts>>

Created ==
  /\ h.pc = "create" /\ h.todo \union h.at = {}
  /\ active' = h.run /\ traces' = NoAnswers
  /\ h' = [h EXCEPT !.pc = "embed", !.made = {}]
  /\ UNCHANGED <<rows, dirs, recVars, searchVars, counts, strewn>>

Embedded ==
  /\ h.pc = "embed"
  /\ h' = [h EXCEPT !.pc = "bump"]
  /\ UNCHANGED <<rows, dirs, runVars, recVars, searchVars, counts, strewn>>

\* The run is aborted again.
EmbedFails ==
  /\ h.pc = "embed"
  /\ h' = [h EXCEPT !.pc = "purge", !.todo = rows]
  /\ UNCHANGED <<rows, dirs, runVars, recVars, searchVars, counts, strewn>>
-----------------------------------------------------------------------------
(* benchmark.finish and benchmark.abort: the ids are selected, and every entry *)
(* with the predicate is deleted, of whichever run it is.                      *)
End(op) ==
  /\ h.pc = "idle" /\ active # NoRun /\ op \in {"finish", "abort"}
  /\ h' = [Idle EXCEPT !.pc = "purge", !.op = op, !.run = active, !.todo = rows]
  /\ UNCHANGED <<rows, dirs, runVars, recVars, searchVars, counts, strewn>>

PurgeRow(f) ==
  /\ h.pc \in {"purge", "boot"} /\ h.at = {} /\ f \in h.todo
  /\ rows' = rows \ {f}
  /\ h' = [h EXCEPT !.at = {f}, !.todo = @ \ {f}]
  /\ UNCHANGED <<dirs, runVars, recVars, searchVars, counts, strewn>>

PurgeDir(f) ==
  /\ h.pc \in {"purge", "boot"} /\ h.at = {f}
  /\ dirs' = dirs \ {f}
  /\ h' = [h EXCEPT !.at = {}]
  /\ UNCHANGED <<rows, runVars, recVars, searchVars, counts, strewn>>

\* A delete, or the reconciling of signals after them, fails: the run stays, and
\* may be ended again. A start reports its own error all the same.
PurgeFails ==
  /\ h.pc = "purge"
  /\ strewn' = strewn \union h.at
  /\ h' = IF h.op = "start" THEN [h EXCEPT !.pc = "bump", !.at = {}, !.todo = {}] ELSE Idle
  /\ UNCHANGED <<rows, dirs, runVars, recVars, searchVars, counts>>

PurgeDone ==
  /\ h.pc = "purge" /\ h.todo \union h.at = {}
  /\ active' = NoRun /\ traces' = NoAnswers
  /\ h' = [h EXCEPT !.pc = "bump"]
  /\ UNCHANGED <<rows, dirs, recVars, searchVars, counts, strewn>>

\* Slip: the results are dropped, and those computed meanwhile are filed as before.
ClearOnly ==
  /\ h.pc = "bump"
  /\ found' = <<>>
  /\ h' = Idle
  /\ UNCHANGED <<rows, dirs, runVars, recVars, gen, srch, counts, strewn>>

\* SearchCache::clear and bump_generation, then the answer.
Bump ==
  /\ h.pc = "bump"
  /\ found' = <<>> /\ gen' = gen + 1
  /\ h' = Idle
  /\ UNCHANGED <<rows, dirs, runVars, recVars, srch, counts, strewn>>
-----------------------------------------------------------------------------
(* benchmark.record_answer, which does not take sync_lock.                    *)
Waits(c, phase) == rec[c].pc = phase
Given(c) == rec[c].n

Record(c, case) ==
  /\ StateFree /\ Waits(c, "free") /\ active # NoRun
  /\ CallsLeft /\ counts' = [counts EXCEPT !.answers = @ + 1]
  /\ LET n == counts.answers + 1 IN
     /\ rec' = [rec EXCEPT ![c] = [pc |-> "judge", n |-> n]]
     /\ answers' = [answers EXCEPT ![n] = [run |-> active, case |-> case, after |-> reported]]
  /\ UNCHANGED <<rows, dirs, runVars, h, searchVars, reported, strewn>>

Filed(c) ==
  /\ traces' = [traces EXCEPT ![answers[Given(c)].case] = Given(c)]
  /\ rec' = [rec EXCEPT ![c].pc = "reply"]
  /\ UNCHANGED <<rows, dirs, active, h, searchVars, counts, answers, reported, strewn>>

\* Slip: the run is not checked again.
JudgedUnchecked(c) == StateFree /\ Waits(c, "judge") /\ active # NoRun /\ Filed(c)

\* The judge has answered or failed: the run is checked again, and what this call
\* carries goes over what the traces hold for the case.
Judged(c) == StateFree /\ Waits(c, "judge") /\ active = answers[Given(c)].run /\ Filed(c)

\* The run is over: the answer is refused.
JudgedLate(c) ==
  /\ StateFree /\ Waits(c, "judge") /\ active # answers[Given(c)].run
  /\ rec' = [rec EXCEPT ![c] = Free]
  /\ UNCHANGED <<rows, dirs, runVars, h, searchVars, counts, answers, reported, strewn>>

\* The reply reaches the client, whatever has happened since.
Told(c) ==
  /\ Up /\ Waits(c, "reply")
  /\ reported' = reported \union {Given(c)}
  /\ rec' = [rec EXCEPT ![c] = Free]
  /\ UNCHANGED <<rows, dirs, runVars, h, searchVars, counts, answers, strewn>>
-----------------------------------------------------------------------------
(* A search: the flag, then the generation, then the cache or the tables.     *)
Ask(s) ==
  /\ StateFree /\ srch[s].pc \in {"idle", "done"} /\ CallsLeft
  /\ counts' = [counts EXCEPT !.asks = @ + 1]
  /\ srch' = [srch EXCEPT ![s] = [pc |-> "load", flag |-> active # NoRun, key |-> 0, sees |-> FALSE,
                                  alone |-> active = NoRun /\ h.pc = "idle"]]
  /\ UNCHANGED <<rows, dirs, runVars, h, recVars, gen, found, strewn>>

\* Of an answer, only one to a search that was alone is looked at.
Done(s, sees) ==
  [pc |-> "done", flag |-> FALSE, key |-> 0, sees |-> sees /\ srch[s].alone, alone |-> srch[s].alone]

LookUp(s) ==
  /\ Up /\ srch[s].pc = "load"
  /\ srch' = [srch EXCEPT ![s] = IF gen \in DOMAIN found THEN Done(s, found[gen])
                                 ELSE [@ EXCEPT !.pc = "read", !.key = gen]]
  /\ UNCHANGED <<rows, dirs, runVars, h, recVars, gen, found, counts, strewn>>

Read(s) ==
  /\ Up /\ srch[s].pc = "read"
  /\ srch' = [srch EXCEPT ![s].pc = "insert", ![s].sees = srch[s].flag /\ rows # {}]
  /\ UNCHANGED <<rows, dirs, runVars, h, recVars, gen, found, counts, strewn>>

\* A result under an older generation is not found any more.
Insert(s) ==
  /\ Up /\ srch[s].pc = "insert"
  /\ found' = IF srch[s].key = gen THEN [k \in {gen} |-> srch[s].sees] ELSE found
  /\ srch' = [srch EXCEPT ![s] = Done(s, srch[s].sees)]
  /\ UNCHANGED <<rows, dirs, runVars, h, recVars, gen, counts, strewn>>
-----------------------------------------------------------------------------
(* The process dies; it boots, removes fixtures that were left, then runs an   *)
(* index pass over the directories.                                           *)
Crash ==
  /\ Up /\ counts.crashes < MaxCrashes
  /\ counts' = [counts EXCEPT !.crashes = @ + 1]
  /\ h' = [Idle EXCEPT !.pc = "down"]
  /\ active' = NoRun /\ traces' = NoAnswers
  /\ rec' = [c \in Clients |-> Free]
  /\ found' = <<>> /\ gen' = 0
  /\ srch' = [s \in Searches |-> NoSearch]
  /\ strewn' = strewn \union rows \union dirs
  /\ UNCHANGED <<rows, dirs, answers, reported>>

\* recover_stale_entries
Boot ==
  /\ h.pc = "down"
  /\ h' = [Idle EXCEPT !.pc = "boot", !.todo = rows]
  /\ UNCHANGED <<rows, dirs, runVars, recVars, searchVars, counts, strewn>>

Recovered ==
  /\ h.pc = "boot" /\ h.todo \union h.at = {}
  /\ h' = [h EXCEPT !.pc = "scan"]
  /\ UNCHANGED <<rows, dirs, runVars, recVars, searchVars, counts, strewn>>

\* A delete fails, and the boot with it.
BootFails ==
  /\ h.pc = "boot"
  /\ h' = [Idle EXCEPT !.pc = "down"]
  /\ UNCHANGED <<rows, dirs, runVars, recVars, searchVars, counts, strewn>>

\* An index pass, at boot or later, makes the rows those of the directories.
Reindexed(pc) ==
  /\ rows' = dirs
  /\ strewn' = strewn \union (dirs \ rows)
  /\ h' = [h EXCEPT !.pc = pc]
  /\ UNCHANGED <<dirs, runVars, recVars, searchVars, counts>>

Scanned == h.pc = "scan" /\ Reindexed("idle")
IndexSync == Up /\ rows # dirs /\ Reindexed(h.pc)

Next ==
  \/ Start \/ CreateFails \/ Undo \/ Created \/ Embedded \/ EmbedFails
  \/ \E op \in {"finish", "abort"} : End(op)
  \/ \E f \in Entry : CreateFile(f) \/ CreateRow(f) \/ PurgeRow(f) \/ PurgeDir(f)
  \/ PurgeFails \/ PurgeDone \/ Bump
  \/ \E c \in Clients : Judged(c) \/ JudgedLate(c) \/ Told(c) \/ \E case \in Cases : Record(c, case)
  \/ \E s \in Searches : Ask(s) \/ LookUp(s) \/ Read(s) \/ Insert(s)
  \/ Crash \/ Boot \/ Recovered \/ BootFails \/ Scanned \/ IndexSync

Spec == Init /\ [][Next]_vars
-----------------------------------------------------------------------------
\* A report holds, for each case, an answer that was given to this case in this very
\* run, and that no other has replaced: whoever was told that an answer is recorded,
\* finds it or one that was sent or acknowledged no earlier. So it is however late a
\* judge answers, whatever run was there meanwhile, and after a finish that failed.
ReportComplete ==
  [][h.pc = "purge" /\ h.op = "finish" /\ h'.pc = "bump" =>
       \A case \in Cases :
         LET n == traces[case]
             Mine(m) == answers[m].run = h.run /\ answers[m].case = case IN
         /\ n # NoAnswer => Mine(n)
         /\ \A m \in reported : Mine(m) => n # NoAnswer /\ n \notin answers[m].after]_vars

\* As long as no failure, crash or pass has left a fixture behind, and no start has
\* failed half way, which ends without a bump, a search during which there is no run
\* returns none, whatever searches of the last run file late.
NoFixtureBetweenRuns ==
  strewn = {} /\ counts.undone = 0 =>
    \A s \in Searches : srch[s].pc = "done" /\ srch[s].alone => ~srch[s].sees
===============================================================================
