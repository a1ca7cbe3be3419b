----------------------------- MODULE Files_proofs -----------------------------
(***************************************************************************)
(* Proofs about the components of MCFiles: the benchmark runtime, for any  *)
(* suites, clients and searches and any number of runs, failures and       *)
(* crashes; git sync, for any entries and blocks and any number of edits   *)
(* and failures; dispatch, for any connections, lines and Daemons.         *)
(***************************************************************************)
EXTENDS MCFiles, FiniteSetTheorems, TLAPS

-----------------------------------------------------------------------------
(* The benchmark runtime.                                                  *)

\* No fixture was left or brought back by a failure, a crash or a pass.
Clean == strewn = {} /\ done.undone = 0

HandlerPc == {"idle", "create", "undo", "embed", "purge", "bump", "boot", "scan", "down"}
SearchPc == {"idle", "load", "read", "insert", "done"}

\* The shapes the proof needs, and which phases belong to a run.
Counts == [runs : Nat, answers : Nat, asks : Nat, crashes : Nat, undone : Nat]
HandlerType == [pc : HandlerPc, op : {"none", "start", "finish", "abort"}, run : Nat,
                todo : SUBSET Ben!Entry, at : SUBSET Ben!Entry, made : SUBSET Ben!Entry]
SearchType == [pc : SearchPc, flag : BOOLEAN, key : Nat, sees : BOOLEAN, alone : BOOLEAN]

Phases ==
  /\ done \in Counts /\ h \in HandlerType
  /\ active \in Nat
  /\ rows \subseteq Ben!Entry /\ dirs \subseteq Ben!Entry
  /\ h.pc = "create" => h.run # 0
  /\ h.pc \in {"embed", "purge"} => active # 0 /\ active = h.run
  /\ h.pc = "undo" => done.undone # 0

\* As long as nothing was strewn, the fixtures go with the run: a purge has them
\* all in its list, and none is there without one.
RowsGo ==
  Clean =>
    /\ h.pc = "purge" => rows \subseteq h.todo
    /\ active = 0 /\ h.pc \in {"idle", "bump"} => rows = {}
    /\ h.pc \in {"down", "boot", "scan"} => rows = {} /\ dirs = {}

\* The cache of a process that is not up is empty, and nobody asks it.
Restarted ==
  h.pc \in {"down", "boot", "scan"} => found = <<>> /\ \A s \in Searches : srch[s].pc = "idle"

\* Searches: no key is ahead of the generation; one that is alone was told to leave
\* fixtures out, and does.
SearchesOK ==
  /\ gen \in Nat
  /\ srch \in [Searches -> SearchType]
  /\ \A s \in Searches :
       /\ srch[s].pc \in {"read", "insert"} => srch[s].key <= gen
       /\ srch[s].alone => active = 0 /\ h.pc = "idle"
       /\ srch[s].alone /\ srch[s].pc \in {"load", "read"} => ~srch[s].flag
       /\ srch[s].alone /\ srch[s].pc \in {"insert", "done"} /\ Clean => ~srch[s].sees
  /\ \A k \in DOMAIN found : found[k] \in BOOLEAN

\* Between clean runs nothing with fixtures is filed under the current generation,
\* and no search is about to file it.
CacheClean ==
  Clean /\ active = 0 /\ h.pc = "idle" =>
    /\ gen \in DOMAIN found => found[gen] = FALSE
    /\ \A s \in Searches : srch[s].pc = "insert" /\ srch[s].key = gen => ~srch[s].sees

BenchmarkInv ==
  /\ Phases /\ RowsGo /\ Restarted /\ SearchesOK /\ CacheClean

\* The benchmark starts with nothing.
LEMMA BenchmarkInit == Ben!Init => BenchmarkInv
BY DEF Ben!Init, Ben!Idle, Ben!NoSearch, Ben!NoRun, BenchmarkInv, Phases, RowsGo, Restarted,
       SearchesOK, CacheClean, Clean, Counts, HandlerType, SearchType, HandlerPc, SearchPc

\* The counters only count.
LEMMA CountsGrow ==
  ASSUME NEW c \in Counts
  PROVE  /\ [c EXCEPT !.asks = @ + 1] \in Counts
         /\ [c EXCEPT !.asks = @ + 1].undone = c.undone
         /\ [c EXCEPT !.crashes = @ + 1] \in Counts
BY DEF Counts

\* Every step of the runtime keeps the invariant.
LEMMA BenchmarkStep ==
  ASSUME Ben!BenchmarkAssumption
  PROVE  BenchmarkInv /\ [Ben!Next]_Ben!vars => BenchmarkInv'
<1> SUFFICES ASSUME BenchmarkInv, [Ben!Next]_Ben!vars PROVE BenchmarkInv'
  OBVIOUS
<1> USE DEF BenchmarkInv, Phases, RowsGo, Restarted, SearchesOK, CacheClean, Clean,
       Counts, HandlerType, SearchType, HandlerPc, SearchPc
<1>1. CASE Ben!Start
  <2> DEFINE n == done.runs + 1
  <2>a. n \in Ben!Runs /\ n \in Nat \ {0} /\ {n} \X Fixtures \subseteq Ben!Entry
    BY <1>1 DEF Ben!Start, Ben!BenchmarkAssumption, Ben!Entry, Ben!Runs
  <2>b. h' = [pc |-> "create", op |-> "start", run |-> n, todo |-> {n} \X Fixtures,
              at |-> {}, made |-> {}]
    BY <1>1 DEF Ben!Start, Ben!Idle
  <2>c. done' = [done EXCEPT !.runs = n] /\ UNCHANGED <<rows, dirs, active>>
    BY <1>1 DEF Ben!Start, Ben!runVars, Ben!recVars
  <2>1. Phases'
    <3> HIDE DEF n
    <3> QED BY <2>a, <2>b, <2>c
  <2>2. RowsGo'
    BY <1>1 DEF Ben!Start, Ben!Idle, Ben!Watch, Ben!runVars, Ben!recVars, Ben!NoRun, Ben!Entry, Ben!Runs
  <2>3. Restarted'
    BY <1>1 DEF Ben!Start, Ben!Idle, Ben!Watch, Ben!runVars, Ben!recVars, Ben!NoRun, Ben!Entry, Ben!Runs
  <2>4. SearchesOK'
    <3>1. UNCHANGED <<gen, found>>
      BY <1>1 DEF Ben!Start
    <3>2. \A s \in Searches :
            srch'[s] = [pc |-> srch[s].pc, flag |-> srch[s].flag, key |-> srch[s].key,
                        sees |-> srch[s].sees, alone |-> FALSE]
      BY <1>1 DEF Ben!Start, Ben!Watch
    <3>3. srch' = [s \in Searches |-> srch'[s]]
      BY <1>1 DEF Ben!Start, Ben!Watch
    <3>4. SearchesOK
      OBVIOUS
    <3>5. \A s \in Searches : /\ srch'[s] \in SearchType /\ ~srch'[s].alone
                               /\ srch'[s].pc = srch[s].pc /\ srch'[s].key = srch[s].key
      <4> SUFFICES ASSUME NEW s \in Searches
                   PROVE  /\ srch'[s] \in SearchType /\ ~srch'[s].alone
                          /\ srch'[s].pc = srch[s].pc /\ srch'[s].key = srch[s].key
        OBVIOUS
      <4>1. srch[s] \in SearchType
        BY <3>4
      <4>2. srch'[s] = [pc |-> srch[s].pc, flag |-> srch[s].flag, key |-> srch[s].key,
                        sees |-> srch[s].sees, alone |-> FALSE]
        BY <3>2
      <4> HIDE DEF BenchmarkInv, SearchesOK, Phases
      <4> QED BY <4>1, <4>2
    <3> HIDE DEF BenchmarkInv, SearchType, Phases, RowsGo, CacheClean
    <3>6. srch' \in [Searches -> SearchType]
      BY <3>3, <3>5
    <3> QED BY <3>1, <3>4, <3>5, <3>6
  <2>5. CacheClean'
    BY <1>1 DEF Ben!Start, Ben!Idle, Ben!Watch, Ben!runVars, Ben!recVars, Ben!NoRun, Ben!Entry, Ben!Runs
  <2> QED
    BY <2>1, <2>2, <2>3, <2>4, <2>5
<1>2. CASE Ben!CreateFails
  <2>1. Phases'
    <3>1. done' \in Counts /\ done'.undone # 0
      BY <1>2 DEF Ben!CreateFails
    <3>2. h' \in HandlerType /\ h'.pc = "undo"
      BY <1>2 DEF Ben!CreateFails
    <3> QED BY <1>2, <3>1, <3>2 DEF Ben!CreateFails, Ben!runVars, Ben!recVars
  <2>2. RowsGo'
    BY <1>2 DEF Ben!CreateFails, Ben!runVars, Ben!recVars, Ben!searchVars
  <2>3. Restarted'
    BY <1>2 DEF Ben!CreateFails, Ben!runVars, Ben!recVars, Ben!searchVars
  <2>4. SearchesOK'
    BY <1>2 DEF Ben!CreateFails, Ben!runVars, Ben!recVars, Ben!searchVars
  <2>5. CacheClean'
    BY <1>2 DEF Ben!CreateFails, Ben!runVars, Ben!recVars, Ben!searchVars
  <2> QED
    BY <2>1, <2>2, <2>3, <2>4, <2>5
<1>3. CASE Ben!Undo
  BY <1>3 DEF Ben!Undo, Ben!Idle, Ben!runVars, Ben!recVars, Ben!searchVars, Ben!NoRun
<1>4. CASE Ben!Created
  BY <1>4 DEF Ben!Created, Ben!searchVars
<1>5. CASE Ben!Embedded
  BY <1>5 DEF Ben!Embedded, Ben!runVars, Ben!recVars, Ben!searchVars
<1>6. CASE Ben!EmbedFails
  BY <1>6 DEF Ben!EmbedFails, Ben!runVars, Ben!recVars, Ben!searchVars
<1>7. CASE Ben!PurgeFails
  BY <1>7 DEF Ben!PurgeFails, Ben!Idle, Ben!runVars, Ben!recVars, Ben!searchVars, Ben!NoRun
<1>8. CASE Ben!PurgeDone
  BY <1>8 DEF Ben!PurgeDone, Ben!searchVars, Ben!NoRun
<1>9. CASE Ben!Bump
  BY <1>9 DEF Ben!Bump, Ben!Idle, Ben!runVars, Ben!recVars, Ben!NoRun
<1>10. CASE Ben!Crash
  <2>1. Phases'
    <3>1. done' \in Counts
      BY <1>10, CountsGrow DEF Ben!Crash
    <3>2. h' \in HandlerType /\ h'.pc = "down"
      BY <1>10 DEF Ben!Crash, Ben!Idle, Ben!NoRun
    <3> QED BY <1>10, <3>1, <3>2 DEF Ben!Crash, Ben!NoRun
  <2>2. RowsGo'
    BY <1>10 DEF Ben!Crash, Ben!Idle, Ben!Up, Ben!NoSearch, Ben!NoRun
  <2>3. Restarted'
    BY <1>10 DEF Ben!Crash, Ben!Idle, Ben!Up, Ben!NoSearch, Ben!NoRun
  <2>4. SearchesOK'
    BY <1>10 DEF Ben!Crash, Ben!Idle, Ben!Up, Ben!NoSearch, Ben!NoRun
  <2>5. CacheClean'
    BY <1>10 DEF Ben!Crash, Ben!Idle, Ben!Up, Ben!NoSearch, Ben!NoRun
  <2> QED
    BY <2>1, <2>2, <2>3, <2>4, <2>5
<1>11. CASE Ben!Boot
  BY <1>11 DEF Ben!Boot, Ben!Idle, Ben!runVars, Ben!recVars, Ben!searchVars, Ben!NoRun
<1>12. CASE Ben!Recovered
  BY <1>12 DEF Ben!Recovered, Ben!runVars, Ben!recVars, Ben!searchVars
<1>13. CASE Ben!BootFails
  BY <1>13 DEF Ben!BootFails, Ben!Idle, Ben!runVars, Ben!recVars, Ben!searchVars, Ben!NoRun
<1>14. CASE Ben!Scanned
  <2>1. Phases'
    BY <1>14 DEF Ben!Scanned, Ben!Reindexed, Ben!runVars, Ben!recVars, Ben!searchVars
  <2>2. RowsGo'
    BY <1>14 DEF Ben!Scanned, Ben!Reindexed, Ben!runVars, Ben!recVars, Ben!searchVars
  <2>3. Restarted'
    BY <1>14 DEF Ben!Scanned, Ben!Reindexed, Ben!runVars, Ben!recVars, Ben!searchVars
  <2>4. SearchesOK'
    BY <1>14 DEF Ben!Scanned, Ben!Reindexed, Ben!runVars, Ben!recVars, Ben!searchVars
  <2>5. CacheClean'
    BY <1>14 DEF Ben!Scanned, Ben!Reindexed, Ben!runVars, Ben!recVars, Ben!searchVars
  <2> QED
    BY <2>1, <2>2, <2>3, <2>4, <2>5
<1>15. CASE Ben!IndexSync
  <2>1. Phases'
    BY <1>15 DEF Ben!IndexSync, Ben!Up, Ben!Reindexed, Ben!runVars, Ben!recVars, Ben!searchVars
  <2>2. RowsGo'
    BY <1>15 DEF Ben!IndexSync, Ben!Up, Ben!Reindexed, Ben!runVars, Ben!recVars, Ben!searchVars
  <2>3. Restarted'
    BY <1>15 DEF Ben!IndexSync, Ben!Up, Ben!Reindexed, Ben!runVars, Ben!recVars, Ben!searchVars
  <2>4. SearchesOK'
    BY <1>15 DEF Ben!IndexSync, Ben!Up, Ben!Reindexed, Ben!runVars, Ben!recVars, Ben!searchVars
  <2>5. CacheClean'
    BY <1>15 DEF Ben!IndexSync, Ben!Up, Ben!Reindexed, Ben!runVars, Ben!recVars, Ben!searchVars
  <2> QED
    BY <2>1, <2>2, <2>3, <2>4, <2>5
<1>16. ASSUME NEW op \in {"finish", "abort"}, Ben!End(op) PROVE BenchmarkInv'
  BY <1>16 DEF Ben!End, Ben!Idle, Ben!runVars, Ben!recVars, Ben!searchVars, Ben!NoRun
<1>17. ASSUME NEW f \in Ben!Entry, Ben!CreateFile(f) PROVE BenchmarkInv'
  BY <1>17 DEF Ben!CreateFile, Ben!runVars, Ben!recVars, Ben!searchVars
<1>18. ASSUME NEW f \in Ben!Entry, Ben!CreateRow(f) PROVE BenchmarkInv'
  BY <1>18 DEF Ben!CreateRow, Ben!runVars, Ben!recVars, Ben!searchVars
<1>19. ASSUME NEW f \in Ben!Entry, Ben!PurgeRow(f) PROVE BenchmarkInv'
  BY <1>19 DEF Ben!PurgeRow, Ben!runVars, Ben!recVars, Ben!searchVars
<1>20. ASSUME NEW f \in Ben!Entry, Ben!PurgeDir(f) PROVE BenchmarkInv'
  BY <1>20 DEF Ben!PurgeDir, Ben!runVars, Ben!recVars, Ben!searchVars
<1>21. ASSUME NEW c \in Clients, Ben!Judged(c) PROVE BenchmarkInv'
  BY <1>21 DEF Ben!Judged, Ben!Filed, Ben!searchVars
<1>22. ASSUME NEW c \in Clients, Ben!JudgedLate(c) PROVE BenchmarkInv'
  BY <1>22 DEF Ben!JudgedLate, Ben!runVars, Ben!recVars, Ben!searchVars
<1>23. ASSUME NEW c \in Clients, NEW case \in Cases, Ben!Record(c, case) PROVE BenchmarkInv'
  <2>1. done' = [done EXCEPT !.answers = @ + 1] /\ UNCHANGED <<rows, dirs, active, h, gen, found, srch, strewn>>
    BY <1>23 DEF Ben!Record, Ben!runVars, Ben!searchVars
  <2>2. done' \in Counts /\ done'.undone = done.undone
    BY <2>1
  <2> HIDE DEF Counts, HandlerType, SearchType
  <2> QED BY <2>1, <2>2
<1>24. ASSUME NEW s \in Searches, Ben!Ask(s) PROVE BenchmarkInv'
  <2>1. Phases'
    <3>1. done' \in Counts /\ done'.undone = done.undone
      BY <1>24, CountsGrow DEF Ben!Ask
    <3> QED BY <1>24, <3>1 DEF Ben!Ask, Ben!runVars, Ben!recVars
  <2>2. RowsGo'
    BY <1>24 DEF Ben!Ask, Ben!StateFree, Ben!Up, Ben!runVars, Ben!recVars, Ben!NoRun
  <2>3. Restarted'
    BY <1>24 DEF Ben!Ask, Ben!StateFree, Ben!Up, Ben!runVars, Ben!recVars, Ben!NoRun
  <2>4. SearchesOK'
    BY <1>24 DEF Ben!Ask, Ben!StateFree, Ben!Up, Ben!runVars, Ben!recVars, Ben!NoRun
  <2>5. CacheClean'
    BY <1>24 DEF Ben!Ask, Ben!StateFree, Ben!Up, Ben!runVars, Ben!recVars, Ben!NoRun
  <2> QED
    BY <2>1, <2>2, <2>3, <2>4, <2>5
<1>25. ASSUME NEW s \in Searches, Ben!LookUp(s) PROVE BenchmarkInv'
  <2>1. Phases'
    BY <1>25 DEF Ben!LookUp, Ben!Up, Ben!Done, Ben!runVars, Ben!recVars
  <2>2. RowsGo'
    BY <1>25 DEF Ben!LookUp, Ben!Up, Ben!Done, Ben!runVars, Ben!recVars
  <2>3. Restarted'
    BY <1>25 DEF Ben!LookUp, Ben!Up, Ben!Done, Ben!runVars, Ben!recVars
  <2>4. SearchesOK'
    <3>1. \A q \in Searches \ {s} : srch'[q] = srch[q]
      BY <1>25 DEF Ben!LookUp
    <3>2. srch'[s] = IF gen \in DOMAIN found THEN Ben!Done(s, found[gen])
                     ELSE [srch[s] EXCEPT !.pc = "read", !.key = gen]
      BY <1>25 DEF Ben!LookUp
    <3>3. CASE gen \in DOMAIN found
      BY <1>25, <3>1, <3>2, <3>3 DEF Ben!LookUp, Ben!Done, Ben!runVars, Ben!recVars
    <3>4. CASE gen \notin DOMAIN found
      <4>1. srch'[s] = [pc |-> "read", flag |-> srch[s].flag, key |-> gen,
                        sees |-> srch[s].sees, alone |-> srch[s].alone]
        BY <3>2, <3>4
      <4>2. srch' = [q \in Searches |-> srch'[q]]
        BY <1>25 DEF Ben!LookUp
      <4>3. srch[s].pc = "load" /\ UNCHANGED <<active, h, gen, found, strewn, done>>
        BY <1>25 DEF Ben!LookUp, Ben!runVars, Ben!recVars
      <4>4. SearchesOK
        OBVIOUS
      <4> HIDE DEF BenchmarkInv
      <4> QED BY <3>1, <4>1, <4>2, <4>3, <4>4
    <3> QED BY <3>3, <3>4
  <2>5. CacheClean'
    BY <1>25 DEF Ben!LookUp, Ben!Up, Ben!Done, Ben!runVars, Ben!recVars
  <2> QED
    BY <2>1, <2>2, <2>3, <2>4, <2>5
<1>26. ASSUME NEW s \in Searches, Ben!Read(s) PROVE BenchmarkInv'
  <2>1. Phases'
    BY <1>26 DEF Ben!Read, Ben!Up, Ben!runVars, Ben!recVars
  <2>2. RowsGo'
    BY <1>26 DEF Ben!Read, Ben!Up, Ben!runVars, Ben!recVars
  <2>3. Restarted'
    BY <1>26 DEF Ben!Read, Ben!Up, Ben!runVars, Ben!recVars
  <2>4. SearchesOK'
    <3>1. \A q \in Searches \ {s} : srch'[q] = srch[q]
      BY <1>26 DEF Ben!Read
    <3>2. srch'[s] = [pc |-> "insert", flag |-> srch[s].flag, key |-> srch[s].key,
                      sees |-> srch[s].flag /\ rows # {}, alone |-> srch[s].alone]
      BY <1>26 DEF Ben!Read
    <3>3. srch' = [q \in Searches |-> srch'[q]]
      BY <1>26 DEF Ben!Read
    <3>4. /\ srch[s].pc = "read" /\ h.pc \notin {"down", "boot", "scan"}
          /\ UNCHANGED <<active, h, gen, found, strewn, done>>
      BY <1>26 DEF Ben!Read, Ben!Up, Ben!runVars, Ben!recVars
    <3>5. SearchesOK
      OBVIOUS
    <3> HIDE DEF BenchmarkInv
    <3> QED BY <3>1, <3>2, <3>3, <3>4, <3>5
  <2>5. CacheClean'
    BY <1>26 DEF Ben!Read, Ben!Up, Ben!runVars, Ben!recVars
  <2> QED
    BY <2>1, <2>2, <2>3, <2>4, <2>5
<1>27. ASSUME NEW s \in Searches, Ben!Insert(s) PROVE BenchmarkInv'
  BY <1>27 DEF Ben!Insert, Ben!Up, Ben!Done, Ben!runVars, Ben!recVars
<1>28. ASSUME NEW c \in Clients, Ben!Told(c) PROVE BenchmarkInv'
  BY <1>28 DEF Ben!Told, Ben!runVars, Ben!searchVars
<1>29. CASE UNCHANGED Ben!vars
  BY <1>29 DEF Ben!vars, Ben!runVars, Ben!recVars, Ben!searchVars
<1> QED
  BY <1>1, <1>2, <1>3, <1>4, <1>5, <1>6, <1>7, <1>8, <1>9, <1>10, <1>11,
     <1>12, <1>13, <1>14, <1>15, <1>16, <1>17, <1>18, <1>19, <1>20, <1>21,
     <1>22, <1>23, <1>24, <1>25, <1>26, <1>27, <1>28, <1>29 DEF Ben!Next

-----------------------------------------------------------------------------
(* Its answers.                                                            *)

RecType == [pc : {"free", "judge", "reply"}, n : Nat]
SentType == [run : Nat, case : Cases, after : SUBSET Ben!Numbers]

\* What was sent, and what runs there have been: a run that is created has no answer.
Sendings ==
  /\ rec \in [Clients -> RecType] /\ answers \in [Ben!Numbers -> SentType]
  /\ reported \subseteq Ben!Numbers /\ traces \in [Cases -> Nat]
  /\ active <= done.runs /\ \A n \in Ben!Numbers : answers[n].run <= done.runs
  /\ h.pc = "create" =>
       h.run <= done.runs /\ active = 0 /\ \A n \in Ben!Numbers : answers[n].run # h.run

\* A call has its number for itself, and its client does not know of the answer yet.
Calls ==
  /\ \A n \in reported : n <= done.answers
  /\ \A n \in Ben!Numbers : answers[n].after \subseteq reported
  /\ \A c \in Clients : rec[c].pc # "free" =>
       rec[c].n \in Ben!Numbers /\ rec[c].n <= done.answers /\ rec[c].n \notin reported
  /\ \A c, d \in Clients : rec[c].pc # "free" /\ rec[d].pc # "free" /\ c # d => rec[c].n # rec[d].n

\* An answer that is in the traces, or was until another replaced it.
WasFiled(n) == n \in reported \/ \E c \in Clients : rec[c].pc = "reply" /\ rec[c].n = n

\* The traces have answers of the run to their cases, none of them replaced.
TracesRight ==
  active # 0 =>
    /\ \A case \in Cases : traces[case] # 0 =>
         /\ traces[case] \in Ben!Numbers /\ traces[case] <= done.answers
         /\ answers[traces[case]].run = active /\ answers[traces[case]].case = case
    /\ \A n \in Ben!Numbers : answers[n].run = active /\ WasFiled(n) =>
         traces[answers[n].case] # 0 /\ traces[answers[n].case] \notin answers[n].after

AnswersInv == Sendings /\ Calls /\ TracesRight

\* At the start nothing was answered.
LEMMA AnswersInit == Ben!BenchmarkAssumption /\ Ben!Init => AnswersInv
<1> SUFFICES ASSUME Ben!BenchmarkAssumption, Ben!Init PROVE AnswersInv
  OBVIOUS
<1> DEFINE none == [run |-> 0, case |-> CHOOSE x \in Cases : TRUE, after |-> {}]
<1>1. none \in SentType
  BY DEF Ben!BenchmarkAssumption, SentType
<1>2. /\ answers = [n \in Ben!Numbers |-> none] /\ rec = [c \in Clients |-> [pc |-> "free", n |-> 0]]
      /\ traces = [c \in Cases |-> 0] /\ active = 0 /\ h.pc = "idle" /\ done.runs = 0
      /\ reported = {}
  BY DEF Ben!Init, Ben!Idle, Ben!Free, Ben!NoRun, Ben!NoAnswer, Ben!NoAnswers
<1>3. \A n \in Ben!Numbers : answers[n].run = 0 /\ answers[n].after = {}
  BY <1>2
<1> HIDE DEF none
<1>4. Sendings  BY <1>1, <1>2, <1>3 DEF Sendings, RecType
<1>5. Calls  BY <1>2, <1>3 DEF Calls
<1> QED BY <1>2, <1>4, <1>5 DEF AnswersInv, TracesRight

\* A step that has nothing to do with answers keeps what is known of them.
LEMMA AnswersStay ==
  ASSUME AnswersInv, UNCHANGED <<traces, active, rec, answers, reported>>,
         done'.runs = done.runs, done'.answers = done.answers,
         h'.pc = "create" => h.pc = "create" /\ h'.run = h.run
  PROVE  AnswersInv'
BY DEF AnswersInv, Sendings, Calls, TracesRight, WasFiled

\* No run, no traces: of the answers the numbers and what was told stay.
LEMMA AnswersOver ==
  ASSUME AnswersInv, UNCHANGED <<answers, reported>>, active' = 0, traces' = Ben!NoAnswers, done \in Counts,
         done'.runs = done.runs, done'.answers = done.answers, h'.pc # "create",
         \/ rec' = rec
         \/ rec' = [c \in Clients |-> Ben!Free]
  PROVE  AnswersInv'
<1>1. rec' \in [Clients -> RecType] /\ \A c \in Clients : rec'[c] = rec[c] \/ rec'[c].pc = "free"
  BY DEF AnswersInv, Sendings, Ben!Free, Ben!NoAnswer, RecType
<1>2. Sendings'
  BY <1>1 DEF AnswersInv, Sendings, Ben!NoAnswers, Ben!NoAnswer, Counts
<1>3. Calls'
  BY <1>1 DEF AnswersInv, Calls
<1> QED BY <1>2, <1>3 DEF AnswersInv, TracesRight

\* An answer is sent under a number of its own.
LEMMA AnswerSent ==
  ASSUME Ben!BenchmarkAssumption, BenchmarkInv, AnswersInv,
         NEW c \in Clients, NEW case \in Cases, Ben!Record(c, case)
  PROVE  AnswersInv'
<1> DEFINE n == done.answers + 1
<1>1. n \in Ben!Numbers /\ n \in Nat /\ done.answers \in Nat /\ active # 0 /\ active \in Nat /\ done.runs \in Nat
  BY DEF Ben!Record, Ben!CallsLeft, Ben!Numbers, Ben!BenchmarkAssumption, BenchmarkInv, Phases,
         Counts, Ben!NoRun
<1>2. /\ rec' = [rec EXCEPT ![c] = [pc |-> "judge", n |-> n]]
      /\ answers' = [answers EXCEPT ![n] = [run |-> active, case |-> case, after |-> reported]]
      /\ done' = [done EXCEPT !.answers = n]
      /\ UNCHANGED <<traces, active, h, reported>> /\ h.pc # "create" /\ rec[c].pc = "free"
  BY DEF Ben!Record, Ben!runVars, Ben!StateFree, Ben!Waits
<1>3. done'.runs = done.runs /\ done'.answers = n /\ Ben!Numbers \subseteq Nat
  BY <1>2 DEF BenchmarkInv, Phases, Counts, Ben!Numbers
<1> HIDE DEF n
<1>4. /\ rec' \in [Clients -> RecType] /\ rec'[c] = [pc |-> "judge", n |-> n]
      /\ \A d \in Clients \ {c} : rec'[d] = rec[d]
  BY <1>1, <1>2 DEF AnswersInv, Sendings, RecType
<1>5. /\ answers' \in [Ben!Numbers -> SentType]
      /\ answers'[n] = [run |-> active, case |-> case, after |-> reported]
      /\ \A m \in Ben!Numbers \ {n} : answers'[m] = answers[m]
  BY <1>1, <1>2 DEF AnswersInv, Sendings, SentType
<1>6. done.answers < n
  BY <1>1 DEF n
<1>7. Sendings'
  BY <1>1, <1>2, <1>3, <1>4, <1>5 DEF AnswersInv, Sendings
<1>8. n \notin reported /\ reported \subseteq Ben!Numbers
  BY <1>1, <1>3, <1>6 DEF AnswersInv, Calls, Sendings
<1>10. Calls'
  <2>1. \A m \in reported' : m <= done'.answers
    <3> SUFFICES ASSUME NEW m \in reported PROVE m <= n
      BY <1>2, <1>3
    <3>1. m <= done.answers /\ m \in Nat  BY <1>3, <1>8 DEF AnswersInv, Calls
    <3> QED BY <3>1, <1>1, <1>6
  <2>3. \A m \in Ben!Numbers : answers'[m].after \subseteq reported'
    <3> SUFFICES ASSUME NEW m \in Ben!Numbers PROVE answers'[m].after \subseteq reported
      BY <1>2
    <3>1. CASE m = n  BY <3>1, <1>5
    <3>2. CASE m # n  BY <3>2, <1>5 DEF AnswersInv, Calls
    <3> QED BY <3>1, <3>2
  <2>4. \A d \in Clients : rec'[d].pc # "free" =>
          rec'[d].n \in Ben!Numbers /\ rec'[d].n <= done'.answers /\ rec'[d].n \notin reported'
    <3> SUFFICES ASSUME NEW d \in Clients, rec'[d].pc # "free"
                 PROVE  rec'[d].n \in Ben!Numbers /\ rec'[d].n <= done'.answers /\ rec'[d].n \notin reported'
      OBVIOUS
    <3>1. CASE d = c  BY <3>1, <1>1, <1>2, <1>3, <1>4, <1>8
    <3>2. CASE d # c  BY <3>2, <1>1, <1>2, <1>3, <1>4, <1>6 DEF AnswersInv, Calls
    <3> QED BY <3>1, <3>2
  <2>5. \A d \in Clients \ {c} : rec'[d].pc # "free" => rec'[d].n # n
    BY <1>1, <1>3, <1>4, <1>6 DEF AnswersInv, Calls
  <2>6. \A d, e \in Clients : rec'[d].pc # "free" /\ rec'[e].pc # "free" /\ d # e => rec'[d].n # rec'[e].n
    BY <1>4, <2>5 DEF AnswersInv, Calls
  <2> QED BY <2>1, <2>3, <2>4, <2>6 DEF Calls
<1>11. \A m \in Ben!Numbers : WasFiled(m)' => WasFiled(m) /\ m # n
  <2> SUFFICES ASSUME NEW m \in Ben!Numbers, WasFiled(m)' PROVE WasFiled(m) /\ m # n
    OBVIOUS
  <2>1. CASE m \in reported'  BY <2>1, <1>2, <1>8 DEF WasFiled
  <2>2. ASSUME NEW d \in Clients, rec'[d].pc = "reply", rec'[d].n = m PROVE WasFiled(m) /\ m # n
    <3>1. d # c  BY <2>2, <1>4
    <3> QED BY <3>1, <2>2, <1>1, <1>3, <1>4, <1>6 DEF WasFiled, AnswersInv, Calls
  <2> QED BY <2>1, <2>2 DEF WasFiled
<1>12. TracesRight'
  <2>1. \A x \in Cases : traces[x] # 0 => traces[x] # n /\ traces[x] \in Ben!Numbers /\ traces[x] <= n
    <3> SUFFICES ASSUME NEW x \in Cases, traces[x] # 0
                 PROVE  traces[x] # n /\ traces[x] \in Ben!Numbers /\ traces[x] <= n
      OBVIOUS
    <3>1. traces[x] \in Ben!Numbers /\ traces[x] <= done.answers
      BY <1>1 DEF AnswersInv, TracesRight
    <3>2. traces[x] \in Nat  BY <3>1, <1>3
    <3> QED BY <3>1, <3>2, <1>1, <1>6
  <2> QED BY <1>1, <1>2, <1>3, <1>5, <1>6, <1>11, <2>1 DEF AnswersInv, TracesRight
<1> QED BY <1>7, <1>10, <1>12 DEF AnswersInv

\* Filing an answer, in the run that it was sent in, replaces none that came after it.
LEMMA AnswerFiled ==
  ASSUME BenchmarkInv, AnswersInv, NEW c \in Clients, Ben!Judged(c)
  PROVE  AnswersInv'
<1> DEFINE n == rec[c].n
<1> DEFINE case == answers[n].case
<1>1. /\ n \in Ben!Numbers /\ n <= done.answers /\ n \notin reported /\ rec[c].pc = "judge"
      /\ active = answers[n].run /\ n \in Nat /\ n # 0 /\ case \in Cases
  BY DEF Ben!Judged, Ben!Waits, Ben!Given, AnswersInv, Calls, Ben!Numbers, Sendings, SentType
<1>2. /\ traces' = [traces EXCEPT ![case] = n] /\ rec' = [rec EXCEPT ![c].pc = "reply"]
      /\ UNCHANGED <<active, h, done, answers, reported>>
  BY DEF Ben!Judged, Ben!Filed, Ben!Given
<1>3. /\ rec' \in [Clients -> RecType] /\ rec'[c].pc = "reply" /\ rec'[c].n = n
      /\ \A d \in Clients \ {c} : rec'[d] = rec[d]
  BY <1>2 DEF AnswersInv, Sendings, RecType
<1>4. \A m \in Ben!Numbers : n \notin answers[m].after
  BY <1>1 DEF AnswersInv, Calls
<1> HIDE DEF n, case
<1>5. Sendings'
  BY <1>1, <1>2, <1>3 DEF AnswersInv, Sendings
<1>6. Calls'
  BY <1>1, <1>2, <1>3 DEF AnswersInv, Calls, n
<1>7. \A m \in Ben!Numbers : WasFiled(m)' => WasFiled(m) \/ m = n
  BY <1>2, <1>3 DEF WasFiled
<1>8. traces'[case] = n /\ \A x \in Cases : x # case => traces'[x] = traces[x]
  BY <1>1, <1>2 DEF AnswersInv, Sendings
<1>9. TracesRight'
  <2> SUFFICES ASSUME active # 0 PROVE TracesRight'
    BY <1>2 DEF TracesRight
  <2>1. \A x \in Cases : traces'[x] # 0 =>
          /\ traces'[x] \in Ben!Numbers /\ traces'[x] <= done.answers
          /\ answers[traces'[x]].run = active /\ answers[traces'[x]].case = x
    <3> SUFFICES ASSUME NEW x \in Cases, traces'[x] # 0
                 PROVE  /\ traces'[x] \in Ben!Numbers /\ traces'[x] <= done.answers
                        /\ answers[traces'[x]].run = active /\ answers[traces'[x]].case = x
      OBVIOUS
    <3>1. CASE x = case  BY <3>1, <1>1, <1>8 DEF case
    <3>2. CASE x # case  BY <3>2, <1>8 DEF AnswersInv, TracesRight
    <3> QED BY <3>1, <3>2
  <2>2. \A m \in Ben!Numbers : answers[m].run = active /\ WasFiled(m)' =>
          traces'[answers[m].case] # 0 /\ traces'[answers[m].case] \notin answers[m].after
    <3> SUFFICES ASSUME NEW m \in Ben!Numbers, answers[m].run = active, WasFiled(m)'
                 PROVE  traces'[answers[m].case] # 0 /\ traces'[answers[m].case] \notin answers[m].after
      OBVIOUS
    <3>1. CASE answers[m].case = case  BY <3>1, <1>1, <1>4, <1>8
    <3>2. CASE answers[m].case # case
      <4>1. WasFiled(m)  BY <3>2, <1>7 DEF case
      <4>2. answers[m].case \in Cases  BY DEF AnswersInv, Sendings, SentType
      <4> QED BY <3>2, <4>1, <4>2, <1>8 DEF AnswersInv, TracesRight
    <3> QED BY <3>1, <3>2
  <2> QED BY <1>2, <2>1, <2>2 DEF TracesRight
<1> QED BY <1>5, <1>6, <1>9 DEF AnswersInv

\* A refused answer was never filed.
LEMMA AnswerRefused ==
  ASSUME AnswersInv, NEW c \in Clients, Ben!JudgedLate(c)
  PROVE  AnswersInv'
<1>1. rec' = [rec EXCEPT ![c] = Ben!Free] /\ UNCHANGED <<traces, active, h, done, answers, reported>>
  BY DEF Ben!JudgedLate, Ben!runVars
<1>2. /\ rec' \in [Clients -> RecType] /\ rec'[c].pc = "free"
      /\ \A d \in Clients \ {c} : rec'[d] = rec[d]
  BY <1>1 DEF AnswersInv, Sendings, RecType, Ben!Free, Ben!NoAnswer
<1>3. Sendings'  BY <1>1, <1>2 DEF AnswersInv, Sendings
<1>4. Calls'  BY <1>1, <1>2 DEF AnswersInv, Calls
<1>5. \A m \in Ben!Numbers : WasFiled(m)' => WasFiled(m)
  BY <1>1, <1>2 DEF WasFiled
<1>6. TracesRight'  BY <1>1, <1>5 DEF AnswersInv, TracesRight
<1> QED BY <1>3, <1>4, <1>6 DEF AnswersInv

\* Only a filed answer is acknowledged.
LEMMA AnswerTold ==
  ASSUME AnswersInv, NEW c \in Clients, Ben!Told(c)
  PROVE  AnswersInv'
<1> DEFINE n == rec[c].n
<1>1. n \in Ben!Numbers /\ n <= done.answers /\ rec[c].pc = "reply" /\ WasFiled(n)
  BY DEF Ben!Told, Ben!Waits, Ben!Given, AnswersInv, Calls, WasFiled
<1>2. /\ reported' = reported \union {n} /\ rec' = [rec EXCEPT ![c] = Ben!Free]
      /\ UNCHANGED <<traces, active, h, done, answers>>
  BY DEF Ben!Told, Ben!Given, Ben!runVars
<1>3. /\ rec' \in [Clients -> RecType] /\ rec'[c].pc = "free"
      /\ \A d \in Clients \ {c} : rec'[d] = rec[d]
  BY <1>2 DEF AnswersInv, Sendings, RecType, Ben!Free, Ben!NoAnswer
<1>4. \A d \in Clients \ {c} : rec[d].pc # "free" => rec[d].n # n
  BY <1>1 DEF AnswersInv, Calls
<1> HIDE DEF n
<1>5. Sendings'  BY <1>1, <1>2, <1>3 DEF AnswersInv, Sendings
<1>6. Calls'  BY <1>1, <1>2, <1>3, <1>4 DEF AnswersInv, Calls
<1>7. \A m \in Ben!Numbers : WasFiled(m)' => WasFiled(m)
  BY <1>1, <1>2, <1>3 DEF WasFiled
<1>8. TracesRight'  BY <1>2, <1>7 DEF AnswersInv, TracesRight
<1> QED BY <1>5, <1>6, <1>8 DEF AnswersInv

\* Every step keeps what is known of the answers.
LEMMA AnswersStep ==
  ASSUME Ben!BenchmarkAssumption
  PROVE  BenchmarkInv /\ AnswersInv /\ [Ben!Next]_Ben!vars => AnswersInv'
<1> SUFFICES ASSUME BenchmarkInv, AnswersInv, [Ben!Next]_Ben!vars PROVE AnswersInv'
  OBVIOUS
<1>t. done \in Counts /\ h \in HandlerType /\ active \in Nat
  BY DEF BenchmarkInv, Phases
<1>1. CASE Ben!Start
  <2>1. /\ UNCHANGED <<traces, active, rec, answers, reported>> /\ active = 0
        /\ done'.runs = done.runs + 1 /\ done'.answers = done.answers
        /\ h'.pc = "create" /\ h'.run = done.runs + 1 /\ done.runs \in Nat
    BY <1>1, <1>t DEF Ben!Start, Ben!Idle, Ben!runVars, Ben!recVars, Ben!NoRun, Counts
  <2>2. \A n \in Ben!Numbers : answers[n].run \in Nat
    BY DEF AnswersInv, Sendings, SentType
  <2> QED BY <2>1, <2>2 DEF AnswersInv, Sendings, Calls, TracesRight, WasFiled
<1>2. CASE Ben!Created
  <2>1. /\ active' = h.run /\ traces' = Ben!NoAnswers /\ UNCHANGED <<rec, answers, reported, done>>
        /\ h.pc = "create" /\ h'.pc = "embed"
    BY <1>2, <1>t DEF Ben!Created, Ben!recVars, HandlerType
  <2> QED BY <2>1 DEF AnswersInv, Sendings, Calls, TracesRight, WasFiled, Ben!NoAnswers, Ben!NoAnswer
<1>3. CASE Ben!PurgeDone
  BY <1>3, <1>t, AnswersOver DEF Ben!PurgeDone, Ben!recVars, Ben!NoRun, HandlerType
<1>4. CASE Ben!Crash
  BY <1>4, <1>t, AnswersOver DEF Ben!Crash, Ben!NoRun, Ben!Idle, Counts
<1>5. CASE Ben!CreateFails \/ Ben!Undo \/ Ben!Embedded \/ Ben!EmbedFails
  <2>1. CASE Ben!CreateFails
    BY <2>1, <1>t, AnswersStay DEF Ben!CreateFails, Ben!runVars, Ben!recVars, HandlerType, Counts
  <2>2. CASE Ben!Undo
    BY <2>2, <1>t, AnswersStay DEF Ben!Undo, Ben!Idle, Ben!runVars, Ben!recVars, HandlerType, Counts
  <2>3. CASE Ben!Embedded
    BY <2>3, <1>t, AnswersStay DEF Ben!Embedded, Ben!runVars, Ben!recVars, HandlerType, Counts
  <2>4. CASE Ben!EmbedFails
    BY <2>4, <1>t, AnswersStay DEF Ben!EmbedFails, Ben!runVars, Ben!recVars, HandlerType, Counts
  <2> QED BY <1>5, <2>1, <2>2, <2>3, <2>4
<1>6. CASE Ben!PurgeFails \/ Ben!Bump \/ Ben!Boot \/ Ben!Recovered \/ Ben!BootFails
  <2>1. CASE Ben!PurgeFails
    BY <2>1, <1>t, AnswersStay DEF Ben!PurgeFails, Ben!Idle, Ben!runVars, Ben!recVars, HandlerType, Counts
  <2>2. CASE Ben!Bump
    BY <2>2, <1>t, AnswersStay DEF Ben!Bump, Ben!Idle, Ben!runVars, Ben!recVars, HandlerType, Counts
  <2>3. CASE Ben!Boot
    BY <2>3, <1>t, AnswersStay DEF Ben!Boot, Ben!Idle, Ben!runVars, Ben!recVars, HandlerType, Counts
  <2>4. CASE Ben!Recovered
    BY <2>4, <1>t, AnswersStay DEF Ben!Recovered, Ben!runVars, Ben!recVars, HandlerType, Counts
  <2>5. CASE Ben!BootFails
    BY <2>5, <1>t, AnswersStay DEF Ben!BootFails, Ben!Idle, Ben!runVars, Ben!recVars, HandlerType, Counts
  <2> QED BY <1>6, <2>1, <2>2, <2>3, <2>4, <2>5
<1>7. CASE Ben!Scanned \/ Ben!IndexSync
  BY <1>7, <1>t, AnswersStay
     DEF Ben!Scanned, Ben!IndexSync, Ben!Reindexed, Ben!runVars, Ben!recVars, HandlerType
<1>8. ASSUME NEW op \in {"finish", "abort"}, Ben!End(op) PROVE AnswersInv'
  BY <1>8, AnswersStay DEF Ben!End, Ben!Idle, Ben!runVars, Ben!recVars
<1>9. ASSUME NEW f \in Ben!Entry, Ben!CreateFile(f) \/ Ben!CreateRow(f) \/ Ben!PurgeRow(f) \/ Ben!PurgeDir(f)
      PROVE  AnswersInv'
  BY <1>9, <1>t, AnswersStay
     DEF Ben!CreateFile, Ben!CreateRow, Ben!PurgeRow, Ben!PurgeDir, Ben!runVars, Ben!recVars, HandlerType
<1>10. ASSUME NEW c \in Clients,
              Ben!Judged(c) \/ Ben!JudgedLate(c) \/ Ben!Told(c) \/ \E case \in Cases : Ben!Record(c, case)
       PROVE  AnswersInv'
  BY <1>10, AnswerFiled, AnswerRefused, AnswerTold, AnswerSent
<1>11. ASSUME NEW s \in Searches, Ben!Ask(s) \/ Ben!LookUp(s) \/ Ben!Read(s) \/ Ben!Insert(s)
       PROVE  AnswersInv'
  BY <1>11, <1>t, AnswersStay
     DEF Ben!Ask, Ben!LookUp, Ben!Read, Ben!Insert, Ben!runVars, Ben!recVars, Counts
<1>12. CASE UNCHANGED Ben!vars
  BY <1>12, AnswersStay DEF Ben!vars
<1> QED
  BY <1>1, <1>2, <1>3, <1>4, <1>5, <1>6, <1>7, <1>8, <1>9, <1>10, <1>11, <1>12 DEF Ben!Next

\* The inductive invariants hold of every run of the benchmark runtime: what the
\* cache and the searches hold of fixtures, and what the traces hold of the answers.
THEOREM BenchmarkInvariance ==
  ASSUME Ben!BenchmarkAssumption
  PROVE  Ben!Spec => [](BenchmarkInv /\ AnswersInv)
<1>1. Ben!Init => BenchmarkInv /\ AnswersInv
  BY BenchmarkInit, AnswersInit
<1>2. BenchmarkInv /\ AnswersInv /\ [Ben!Next]_Ben!vars => (BenchmarkInv /\ AnswersInv)'
  BY BenchmarkStep, AnswersStep
<1> QED
  BY <1>1, <1>2, PTL DEF Ben!Spec

\* What happens to the benchmark beside the other parts is a behaviour of it.
LEMMA FilesHaveBenchmark == FilesSpec => Ben!Spec /\ [](BenchmarkInv /\ AnswersInv)
<1>1. FilesInit => Ben!Init
  BY DEF FilesInit
<1>2. [FilesNext]_all => [Ben!Next]_Ben!vars
  <2>1. UNCHANGED ben => UNCHANGED Ben!vars
    BY DEF ben, Ben!vars
  <2>2. UNCHANGED all => UNCHANGED ben
    BY DEF all
  <2> QED BY <2>1, <2>2 DEF FilesNext
<1>3. Ben!BenchmarkAssumption
  BY FilesAssumption
<1> QED BY <1>1, <1>2, <1>3, BenchmarkInvariance, PTL DEF FilesSpec, Ben!Spec

\* A search that has the process to itself between two runs never returns a fixture,
\* unless a failure, a crash or a pass left one behind: what a search of the last run
\* files late is under a generation that is over.
THEOREM FixturesStayHidden == FilesSpec => []NoFixtureBetweenRuns
<1>1. BenchmarkInv => NoFixtureBetweenRuns
  BY DEF BenchmarkInv, SearchesOK, Clean, NoFixtureBetweenRuns, Ben!NoFixtureBetweenRuns
<1> QED
  BY FilesHaveBenchmark, <1>1, PTL

\* A report holds answers of its run, each to its case, and none that was acknowledged
\* before one that has been acknowledged was sent; a late judge, another run in the
\* meantime or a finish that failed change nothing of it.
THEOREM ReportsAlwaysComplete == FilesSpec => ReportComplete
<1> DEFINE Finishes == h.pc = "purge" /\ h.op = "finish" /\ h'.pc = "bump"
<1>1. BenchmarkInv /\ AnswersInv /\ Finishes =>
        \A case \in Cases :
          LET n == traces[case]
              Mine(m) == answers[m].run = h.run /\ answers[m].case = case IN
          /\ n # Ben!NoAnswer => Mine(n)
          /\ \A m \in reported : Mine(m) => n # Ben!NoAnswer /\ n \notin answers[m].after
  BY DEF BenchmarkInv, Phases, AnswersInv, Sendings, TracesRight, WasFiled, Ben!NoAnswer
<1> QED
  BY FilesHaveBenchmark, <1>1, PTL DEF Ben!Spec, ReportComplete, Ben!ReportComplete

-----------------------------------------------------------------------------
(* Git sync.                                                               *)

Runs == [pc : Git!Steps, by : {"first", "second"}, had : [Shared -> SUBSET Git!Edit],
         last : {"none", "ok", "error", "conflict"}]
Docs == Git!Doc \union {Git!None}

-----------------------------------------------------------------------------
(* Documents, trees and the record of a run.                                *)

\* The fields of a document.
LEMMA DocFields ==
  ASSUME Git!GitSyncAssumption, NEW d \in Docs
  PROVE  /\ d.has \subseteq Git!Edit /\ d.upd \in 0 .. MaxEdits
         /\ d.mark \in {"no", "body", "header", "none"}
         /\ d.mark = "none" <=> d = Git!None
         /\ d # Git!None => d \in Git!Doc
<1>1. CASE d \in Git!Doc
  BY <1>1 DEF Git!Doc, Git!None
<1>2. CASE d = Git!None
  BY <1>2 DEF Git!None, Git!GitSyncAssumption
<1> QED BY <1>1, <1>2 DEF Docs

\* A document made of its parts.
LEMMA NewDoc ==
  ASSUME NEW has \in SUBSET Git!Edit, NEW upd \in 0 .. MaxEdits,
         NEW mark \in {"no", "body", "header"}
  PROVE  [has |-> has, upd |-> upd, mark |-> mark] \in Docs \ {Git!None}
BY DEF Git!Doc, Docs, Git!None

\* The next edit.
LEMMA NewEdit ==
  ASSUME Git!GitSyncAssumption, edits \in 0 .. MaxEdits, edits < MaxEdits, NEW b \in Blocks
  PROVE  <<edits + 1, b>> \in Git!Edit /\ edits + 1 \in 0 .. MaxEdits
BY DEF Git!Edit, Git!GitSyncAssumption

LEMMA TypeSays ==
  ASSUME Git!TypeOK
  PROVE  /\ file \in Git!Trees /\ indexed \in Git!Trees /\ index \in Git!Trees /\ head \in Git!Trees
         /\ onto \in Git!Trees /\ remote \in Git!Trees /\ run \in Runs
         /\ \A e \in Shared : /\ file[e] \in Docs /\ indexed[e] \in Docs /\ index[e] \in Docs
                               /\ head[e] \in Docs /\ onto[e] \in Docs /\ remote[e] \in Docs
BY DEF Git!TypeOK, Git!Trees, Docs, Runs

LEMMA Goes ==
  ASSUME run \in Runs, NEW pc \in Git!Steps, Git!Goto(pc)
  PROVE  /\ run' \in Runs /\ run'.pc = pc
         /\ run'.by = run.by /\ run'.had = run.had /\ run'.last = run.last
BY DEF Runs, Git!Goto

LEMMA Returns ==
  ASSUME run \in Runs, NEW answer \in {"ok", "error", "conflict"}, Git!Return(answer)
  PROVE  run' \in Runs /\ run'.pc = "idle" /\ run'.last = answer /\ run'.by = run.by
BY DEF Runs, Git!Return, Git!Steps

\* Starting: refused without a repository that has a commit, resumed in a rebase.
LEMMA Starts ==
  ASSUME Git!TypeOK, Git!Start
  PROVE  /\ run' \in Runs
         /\ \/ run'.pc = "idle" /\ run'.last = "error" /\ run'.by = run.by
            \/ /\ run'.pc = "commit" /\ repo = "ready"
               /\ run'.by = slot /\ run'.last = "none"
               /\ \A e \in Shared : run'.had[e] = file[e].has
            \/ /\ run'.pc = "continue" /\ repo = "rebase"
               /\ run'.by = slot /\ run'.last = "none"
               /\ \A e \in Shared : run'.had[e] = file[e].has
<1>1. run \in Runs /\ slot \in {"first", "second"} /\ repo \in {"none", "half", "ready", "rebase"}
  BY TypeSays DEF Git!TypeOK
<1>2. [e \in Shared |-> file[e].has] \in [Shared -> SUBSET Git!Edit]
  <2>1. \A e \in Shared : file[e].has \subseteq Git!Edit
    BY TypeSays DEF Docs, Git!Doc, Git!None
  <2> QED BY <2>1
<1>3. CASE repo \in {"none", "half"}
  BY <1>1, <1>3 DEF Git!Start, Runs
<1>4. CASE repo \in {"ready", "rebase"}
  BY <1>1, <1>2, <1>4 DEF Git!Start, Runs, Git!Steps
<1> QED BY <1>1, <1>3, <1>4

-----------------------------------------------------------------------------
(* What the steps that write documents make of them.                        *)

\* A handler renders the file from the row.
LEMMA Writes ==
  ASSUME Git!GitSyncAssumption, Git!TypeOK, NEW e \in Shared, NEW b \in Blocks, Git!Write(e, b)
  PROVE  LET now == indexed[e].has \union {<<edits + 1, b>>} IN
         /\ file' \in Git!Trees /\ indexed' \in Git!Trees
         /\ edits' \in 0 .. MaxEdits /\ edits' = edits + 1
         /\ file'[e].has = now /\ indexed'[e].has = now
         /\ file'[e].mark = indexed[e].mark /\ indexed'[e].mark = indexed[e].mark
         /\ \A x \in Shared : x # e => file'[x] = file[x] /\ indexed'[x] = indexed[x]
         /\ UNCHANGED <<index, head, onto, remote, unmerged, repo, run, slot, fails, trouble>>
<1> DEFINE now == indexed[e].has \union {<<edits + 1, b>>}
           f == [indexed[e] EXCEPT !.has = now]
           r == [indexed[e] EXCEPT !.has = now, !.upd = edits + 1]
<1>1. file \in Git!Trees /\ indexed \in Git!Trees /\ indexed[e] \in Git!Doc
      /\ edits \in 0 .. MaxEdits
  BY TypeSays, DocFields DEF Git!Write, Git!TypeOK
<1>2. now \subseteq Git!Edit /\ edits + 1 \in 0 .. MaxEdits
  BY <1>1, NewEdit DEF Git!Doc, Git!Write
<1>3. f \in Git!Doc /\ f.has = now /\ f.mark = indexed[e].mark
  BY <1>1, <1>2 DEF Git!Doc
<1>4. r \in Git!Doc /\ r.has = now /\ r.mark = indexed[e].mark
  BY <1>1, <1>2 DEF Git!Doc
<1>5. file' = [file EXCEPT ![e] = f] /\ indexed' = [indexed EXCEPT ![e] = r] /\ edits' = edits + 1
      /\ UNCHANGED <<index, head, onto, remote, unmerged, repo, run, slot, fails, trouble>>
  BY DEF Git!Write, Git!git
<1> HIDE DEF f, r, now
<1>6. /\ file'[e] = f /\ indexed'[e] = r
      /\ \A x \in Shared : x # e => file'[x] = file[x] /\ indexed'[x] = indexed[x]
      /\ file' \in Git!Trees /\ indexed' \in Git!Trees
  BY <1>1, <1>3, <1>4, <1>5 DEF Git!Trees
<1> QED BY <1>2, <1>3, <1>4, <1>5, <1>6 DEF now

\* entry.create.
LEMMA Creates ==
  ASSUME Git!GitSyncAssumption, Git!TypeOK, NEW e \in Shared, NEW b \in Blocks, Git!Create(e, b)
  PROVE  /\ file' \in Git!Trees /\ indexed' \in Git!Trees
         /\ edits' \in 0 .. MaxEdits /\ edits' = edits + 1
         /\ file'[e].has = {<<edits + 1, b>>} /\ file'[e].mark = "no" /\ indexed'[e] = file'[e]
         /\ file[e] = Git!None /\ remote[e] = Git!None
         /\ \A x \in Shared : x # e => file'[x] = file[x] /\ indexed'[x] = indexed[x]
         /\ UNCHANGED <<index, head, onto, remote, unmerged, repo, run, slot, fails, trouble>>
<1> DEFINE d == [has |-> {<<edits + 1, b>>}, upd |-> edits + 1, mark |-> "no"]
<1>1. file \in Git!Trees /\ indexed \in Git!Trees /\ d \in Docs
  BY TypeSays, NewEdit, NewDoc DEF Git!Create, Git!TypeOK
<1>2. d.has = {<<edits + 1, b>>} /\ d.mark = "no"
  OBVIOUS
<1>3. file' = [file EXCEPT ![e] = d] /\ indexed' = [indexed EXCEPT ![e] = file'[e]]
  BY DEF Git!Create
<1> HIDE DEF d
<1>4. /\ file'[e] = d /\ indexed'[e] = d /\ file' \in Git!Trees /\ indexed' \in Git!Trees
      /\ \A x \in Shared : x # e => file'[x] = file[x] /\ indexed'[x] = indexed[x]
  BY <1>1, <1>3 DEF Git!Trees, Docs
<1> QED BY <1>2, <1>4, NewEdit DEF Git!Create, Git!TypeOK, Git!git

\* The other device's edits.
LEMMA OtherWrites ==
  ASSUME Git!GitSyncAssumption, Git!TypeOK, NEW e \in Shared, NEW b \in Blocks,
         Git!OtherEdits(e, b) \/ Git!OtherCreates(e, b)
  PROVE  /\ remote' \in Git!Trees /\ edits' \in 0 .. MaxEdits /\ edits' = edits + 1
         /\ remote'[e].has = remote[e].has \union {<<edits + 1, b>>}
         /\ remote'[e].mark = remote[e].mark \/ (remote'[e].mark = "no" /\ file[e] = Git!None)
         /\ \A x \in Shared : x # e => remote'[x] = remote[x]
         /\ UNCHANGED <<file, indexed, index, head, onto, unmerged, repo, run, slot,
                        fails, trouble>>
<1>1. remote \in Git!Trees /\ edits \in 0 .. MaxEdits /\ edits < MaxEdits
  BY TypeSays DEF Git!OtherEdits, Git!OtherCreates, Git!TypeOK
<1>2. <<edits + 1, b>> \in Git!Edit /\ edits + 1 \in 0 .. MaxEdits
  BY <1>1, NewEdit
<1>3. CASE Git!OtherEdits(e, b)
  <2>1. PICK upd \in {remote[e].upd, edits + 1} :
          remote' = [remote EXCEPT ![e].has = @ \union {<<edits + 1, b>>}, ![e].upd = upd]
    BY <1>3 DEF Git!OtherEdits
  <2> DEFINE d == [remote[e] EXCEPT !.has = @ \union {<<edits + 1, b>>}, !.upd = upd]
  <2>2. remote[e] \in Git!Doc
    BY <1>3, TypeSays, DocFields DEF Git!OtherEdits
  <2>3. d \in Git!Doc /\ d.has = remote[e].has \union {<<edits + 1, b>>} /\ d.mark = remote[e].mark
    <3>1. upd \in 0 .. MaxEdits /\ remote[e].has \union {<<edits + 1, b>>} \subseteq Git!Edit
      BY <1>2, <2>2 DEF Git!Doc
    <3> QED BY <2>2, <3>1 DEF Git!Doc
  <2>4. remote'[e] = d /\ DOMAIN remote' = Shared
        /\ \A x \in Shared : x # e => remote'[x] = remote[x]
    BY <1>1, <2>1 DEF Git!Trees
  <2>5. remote' = [x \in Shared |-> IF x = e THEN d ELSE remote[x]]
    BY <1>1, <2>1 DEF Git!Trees
  <2> HIDE DEF d
  <2>6. remote' \in Git!Trees
    BY <1>1, <2>3, <2>5 DEF Git!Trees
  <2> QED BY <1>2, <1>3, <2>3, <2>4, <2>6 DEF Git!OtherEdits
<1>4. CASE Git!OtherCreates(e, b)
  <2> DEFINE d == [has |-> {<<edits + 1, b>>}, upd |-> edits + 1, mark |-> "no"]
  <2>1. d \in Docs /\ d.has = {<<edits + 1, b>>} /\ d.mark = "no"
    BY <1>2, NewDoc
  <2>2. remote' = [remote EXCEPT ![e] = d] /\ remote[e] = Git!None /\ file[e] = Git!None
    BY <1>4 DEF Git!OtherCreates
  <2> HIDE DEF d
  <2>3. remote'[e] = d /\ remote' \in Git!Trees /\ \A x \in Shared : x # e => remote'[x] = remote[x]
    BY <1>1, <2>1, <2>2 DEF Git!Trees, Docs
  <2>4. remote[e].has = {}
    BY <2>2 DEF Git!None
  <2> QED BY <1>2, <1>4, <2>1, <2>2, <2>3, <2>4 DEF Git!OtherCreates
<1> QED BY <1>3, <1>4

\* A pass over one entry.
LEMMA Passed ==
  ASSUME Git!TypeOK, NEW e \in Shared, Git!PassEntry(e)
  PROVE  /\ indexed' \in Git!Trees /\ indexed'[e] = Git!Indexed(e)
         /\ \A x \in Shared : x # e => indexed'[x] = indexed[x]
         /\ UNCHANGED <<file, index, head, onto, remote, unmerged, repo, run, slot,
                        edits, fails, trouble>>
<1>1. indexed \in Git!Trees /\ Git!Indexed(e) \in Docs
  BY TypeSays DEF Git!Indexed
<1>2. indexed' = [indexed EXCEPT ![e] = Git!Indexed(e)]
  BY DEF Git!PassEntry
<1> QED BY <1>1, <1>2 DEF Git!PassEntry, Git!Trees, Docs, Git!git

\* The user stages a file without markers.
LEMMA Resolves ==
  ASSUME Git!GitSyncAssumption, Git!TypeOK, NEW e \in Shared, Git!Resolve(e)
  PROVE  /\ file' \in Git!Trees /\ index' \in Git!Trees /\ repo = "rebase"
         /\ unmerged' = unmerged \ {e}
         /\ file'[e].has = file[e].has /\ file'[e].mark = "no" /\ index'[e] = file'[e]
         /\ \A x \in Shared : x # e => file'[x] = file[x] /\ index'[x] = index[x]
         /\ UNCHANGED <<indexed, head, onto, remote, repo, run, slot, edits, fails, trouble>>
<1> DEFINE d == [file[e] EXCEPT !.mark = "no"]
<1>1. file \in Git!Trees /\ index \in Git!Trees /\ file[e] \in Docs
  BY TypeSays
<1>2. d \in Git!Doc /\ d.has = file[e].has /\ d.mark = "no"
  <2>1. CASE file[e] \in Git!Doc
    BY <2>1 DEF Git!Doc
  <2>2. CASE file[e] = Git!None
    <3>1. d = [has |-> {}, upd |-> 0, mark |-> "no"]
      BY <2>2 DEF Git!None
    <3>2. 0 \in 0 .. MaxEdits
      BY DEF Git!GitSyncAssumption
    <3> HIDE DEF d
    <3> QED BY <2>2, <3>1, <3>2 DEF Git!Doc, Git!None
  <2> QED BY <1>1, <2>1, <2>2 DEF Docs
<1>3. file' = [file EXCEPT ![e] = d] /\ index' = [index EXCEPT ![e] = file'[e]]
  BY DEF Git!Resolve
<1> HIDE DEF d
<1>4. /\ file'[e] = d /\ index'[e] = d /\ file' \in Git!Trees /\ index' \in Git!Trees
      /\ \A x \in Shared : x # e => file'[x] = file[x] /\ index'[x] = index[x]
  BY <1>1, <1>2, <1>3 DEF Git!Trees
<1> QED BY <1>2, <1>4 DEF Git!Resolve

\* The three-way merge is a document, with markers in a body only where one side has them.
LEMMA Merges ==
  ASSUME Git!GitSyncAssumption, Git!TypeOK, NEW e \in Shared
  PROVE  /\ Git!Merged(e) \in Docs /\ Git!Marked(e) \in Docs \ {Git!None}
         /\ Git!Merged(e).mark \in {head[e].mark, remote[e].mark, "no", "body"}
         /\ Git!Merged(e).mark = "body" => "body" \in {head[e].mark, remote[e].mark}
         /\ Git!Marked(e).mark \in {"body", "header"}
<1>1. head[e] \in Docs /\ remote[e] \in Docs /\ onto[e] \in Docs
  BY TypeSays
<1>2. /\ head[e].has \subseteq Git!Edit /\ remote[e].has \subseteq Git!Edit
      /\ head[e].upd \in 0 .. MaxEdits /\ remote[e].upd \in 0 .. MaxEdits
  BY <1>1, DocFields
<1>3. Git!Marked(e) \in Docs \ {Git!None} /\ Git!Marked(e).mark \in {"body", "header"}
  BY <1>2, NewDoc DEF Git!Marked
<1>4. CASE Git!Theirs(e) \/ Git!Ours(e)
  BY <1>1, <1>3, <1>4 DEF Git!Merged
<1>5. CASE ~Git!Theirs(e) /\ ~Git!Ours(e)
  <2> DEFINE has == (remote[e].has \ (onto[e].has \ head[e].has)) \union (head[e].has \ onto[e].has)
             upd == IF remote[e].upd = onto[e].upd THEN head[e].upd ELSE remote[e].upd
             mark == IF "body" \in {head[e].mark, remote[e].mark} THEN "body" ELSE "no"
  <2>1. Git!Merged(e) = [has |-> has, upd |-> upd, mark |-> mark]
    BY <1>5 DEF Git!Merged
  <2>2. has \in SUBSET Git!Edit /\ upd \in 0 .. MaxEdits /\ mark \in {"no", "body", "header"}
    BY <1>2
  <2>3. mark \in {"no", "body"} /\ (mark = "body" => "body" \in {head[e].mark, remote[e].mark})
    OBVIOUS
  <2>5. Git!Merged(e).mark = mark
    BY <2>1
  <2> HIDE DEF has, upd, mark
  <2>4. Git!Merged(e) \in Docs /\ Git!Merged(e).mark = mark
    BY <2>1, <2>2, <2>5, NewDoc
  <2> QED BY <1>3, <2>3, <2>4
<1> QED BY <1>4, <1>5

\* A pull that finds a branch on the remote: every entry is merged or left unmerged.
LEMMA Pulls ==
  ASSUME Git!GitSyncAssumption, Git!TypeOK, Git!Pull
  PROVE  /\ run.pc = "pull" /\ onto' = remote /\ file' \in Git!Trees /\ index' = file'
         /\ unmerged' \subseteq Shared
         /\ \A e \in Shared : file'[e] = IF e \in unmerged' THEN Git!Marked(e) ELSE Git!Merged(e)
         /\ \/ /\ unmerged' = {} /\ head' = file' /\ Git!Goto("push") /\ UNCHANGED <<repo, trouble>>
            \/ /\ repo' = "rebase" /\ Git!Return("conflict") /\ head' = head
               /\ trouble' = trouble \union {"conflict"}
         /\ UNCHANGED <<indexed, remote, slot, edits, fails>>
<1>1. PICK C \in SUBSET Shared :
        /\ file' = [e \in Shared |-> IF e \in C THEN Git!Marked(e) ELSE Git!Merged(e)]
        /\ unmerged' = C
        /\ \/ /\ C = {} /\ index' = file' /\ head' = file' /\ Git!Goto("push")
              /\ UNCHANGED <<repo, trouble>>
           \/ /\ index' = file' /\ repo' = "rebase" /\ Git!Return("conflict") /\ head' = head
              /\ trouble' = trouble \union {"conflict"}
  BY DEF Git!Pull
<1>2. file' \in Git!Trees
  BY <1>1, Merges DEF Git!Trees, Docs
<1> QED BY <1>1, <1>2 DEF Git!Pull

-----------------------------------------------------------------------------
(* Types.                                                                   *)

LEMMA InitTypes == ASSUME Git!GitSyncAssumption, Git!Init PROVE Git!TypeOK
<1>1. 0 \in 0 .. MaxEdits /\ 0 \in 0 .. MaxFails
  BY DEF Git!GitSyncAssumption
<1>2. [has |-> {}, upd |-> 0, mark |-> "no"] \in Git!Doc
  BY <1>1 DEF Git!Doc
<1>3. file \in Git!Trees /\ indexed = file /\ \A e \in Shared : indexed[e].mark # "header"
  BY <1>2 DEF Git!Init, Git!Trees, Git!None
<1>4. Git!Empty \in Git!Trees
  BY DEF Git!Empty, Git!Trees
<1>5. run \in Runs
  BY DEF Git!Init, Runs, Git!Steps
<1> QED BY <1>1, <1>3, <1>4, <1>5 DEF Git!Init, Git!TypeOK, Runs, Git!Troubles

LEMMA FailType ==
  ASSUME Git!GitSyncAssumption, Git!TypeOK, NEW kind \in Git!Troubles, Git!Fail(kind)
  PROVE  fails' \in 0 .. MaxFails /\ trouble' \subseteq Git!Troubles
BY DEF Git!Fail, Git!TypeOK, Git!GitSyncAssumption

\* What the types are made of, for a step.
LEMMA TypeParts ==
  ASSUME file' \in Git!Trees, indexed' \in Git!Trees, index' \in Git!Trees, head' \in Git!Trees,
         onto' \in Git!Trees, remote' \in Git!Trees, \A e \in Shared : indexed'[e].mark # "header",
         unmerged' \subseteq Shared, repo' \in {"none", "half", "ready", "rebase"},
         run' \in Runs, slot' \in {"first", "second"},
         edits' \in 0 .. MaxEdits, fails' \in 0 .. MaxFails, trouble' \subseteq Git!Troubles
  PROVE  Git!TypeOK'
BY DEF Git!TypeOK, Runs

LEMMA TypeStep ==
  ASSUME Git!GitSyncAssumption, Git!TypeOK, [Git!Next]_Git!vars
  PROVE  Git!TypeOK'
<1>1. /\ file \in Git!Trees /\ indexed \in Git!Trees /\ index \in Git!Trees /\ head \in Git!Trees
      /\ onto \in Git!Trees /\ remote \in Git!Trees /\ run \in Runs
  BY TypeSays
<1>2. /\ \A e \in Shared : indexed[e].mark # "header"
      /\ unmerged \subseteq Shared
      /\ repo \in {"none", "half", "ready", "rebase"} /\ slot \in {"first", "second"}
      /\ edits \in 0 .. MaxEdits /\ fails \in 0 .. MaxFails /\ trouble \subseteq Git!Troubles
  BY DEF Git!TypeOK
<1>3. \A e \in Shared : Git!Indexed(e) \in Docs /\ Git!Indexed(e).mark # "header"
  BY <1>2, TypeSays DEF Git!Indexed
<1>4. ASSUME NEW e \in Shared, NEW b \in Blocks, Git!Write(e, b) PROVE Git!TypeOK'
  <2>1. \A x \in Shared : indexed'[x].mark # "header"
    BY <1>2, <1>4, Writes
  <2> QED BY <1>1, <1>2, <1>4, <2>1, Writes, TypeParts
<1>5. ASSUME NEW e \in Shared, NEW b \in Blocks, Git!Create(e, b) PROVE Git!TypeOK'
  <2>1. \A x \in Shared : indexed'[x].mark # "header"
    BY <1>2, <1>5, Creates
  <2> QED BY <1>1, <1>2, <1>5, <2>1, Creates, TypeParts
<1>6. ASSUME NEW e \in Shared, NEW b \in Blocks, Git!OtherEdits(e, b) \/ Git!OtherCreates(e, b)
      PROVE  Git!TypeOK'
  BY <1>1, <1>2, <1>6, OtherWrites, TypeParts
<1>7. ASSUME NEW e \in Shared, Git!PassEntry(e) PROVE Git!TypeOK'
  <2>1. \A x \in Shared : indexed'[x].mark # "header"
    BY <1>2, <1>3, <1>7, Passed
  <2> QED BY <1>1, <1>2, <1>7, <2>1, Passed, TypeParts
<1>8. ASSUME NEW e \in Shared, Git!Resolve(e) PROVE Git!TypeOK'
  <2>1. unmerged' \subseteq Shared
    BY <1>2, <1>8, Resolves
  <2> QED BY <1>1, <1>2, <1>8, <2>1, Resolves, TypeParts
<1>9. ASSUME Git!InitRepo \/ Git!InitCommit \/ Git!Restart PROVE Git!TypeOK'
  <2>1. CASE Git!InitRepo
    BY <1>1, <1>2, <2>1, TypeParts DEF Git!InitRepo
  <2>2. CASE Git!InitCommit
    BY <1>1, <1>2, <2>2, FailType, TypeParts DEF Git!InitCommit, Git!Calm, Git!Troubles
  <2>3. CASE Git!Restart
    BY <1>1, <1>2, <2>3, FailType, TypeParts DEF Git!Restart, Git!Troubles, Git!git
  <2> QED BY <1>9, <2>1, <2>2, <2>3
<1>10. ASSUME Git!Start \/ Git!Commit \/ Git!CommitFails PROVE Git!TypeOK'
  <2>1. CASE Git!Start
    BY <1>1, <1>2, <2>1, Starts, TypeParts DEF Git!Start, Git!git
  <2>2. CASE Git!Commit
    BY <1>1, <1>2, <2>2, Goes, TypeParts DEF Git!Commit, Git!Steps
  <2>3. CASE Git!CommitFails
    BY <1>1, <1>2, <2>3, FailType, Returns, TypeParts DEF Git!CommitFails, Git!Troubles, Git!git
  <2> QED BY <1>10, <2>1, <2>2, <2>3
<1>11. ASSUME Git!Pull \/ Git!PullFails PROVE Git!TypeOK'
  <2>1. CASE Git!Pull
    <3>1. run' \in Runs
      BY <1>1, <2>1, Pulls, Goes, Returns DEF Git!Steps
    <3>2. trouble' \subseteq Git!Troubles
      BY <1>2, <2>1, Pulls DEF Git!Troubles
    <3>3. head' \in Git!Trees /\ repo' \in {"none", "half", "ready", "rebase"}
      BY <1>1, <1>2, <2>1, Pulls
    <3> QED BY <1>1, <1>2, <2>1, <3>1, <3>2, <3>3, Pulls, TypeParts
  <2>2. CASE Git!PullFails
    <3>1. run' \in Runs
      BY <1>1, <2>2, Goes DEF Git!PullFails, Git!Steps
    <3> QED BY <1>1, <1>2, <2>2, <3>1, FailType, TypeParts DEF Git!PullFails, Git!Troubles,
          Git!Calm, Git!git
  <2> QED BY <1>11, <2>1, <2>2
<1>12. ASSUME Git!Continue PROVE Git!TypeOK'
  <2>1. run' \in Runs
    BY <1>1, <1>12, Goes, Returns DEF Git!Continue, Git!Steps
  <2> QED BY <1>1, <1>2, <1>12, <2>1, TypeParts DEF Git!Continue
<1>13. ASSUME Git!Push \/ Git!PushFails PROVE Git!TypeOK'
  <2>1. CASE Git!Push
    <3>1. run' \in Runs /\ trouble' \subseteq Git!Troubles
      BY <1>1, <1>2, <2>1, Goes, Returns DEF Git!Push, Git!Steps, Git!Troubles
    <3> QED BY <1>1, <1>2, <2>1, <3>1, TypeParts DEF Git!Push
  <2>2. CASE Git!PushFails
    BY <1>1, <1>2, <2>2, FailType, Returns, TypeParts DEF Git!PushFails, Git!Troubles, Git!git
  <2> QED BY <1>13, <2>1, <2>2
<1>14. ASSUME Git!Reindex \/ Git!ReindexFails PROVE Git!TypeOK'
  <2>1. CASE Git!Reindex
    <3>1. indexed' = [e \in Shared |-> Git!Indexed(e)] /\ run' \in Runs
      BY <1>1, <2>1, Returns DEF Git!Reindex
    <3>2. indexed' \in Git!Trees /\ \A e \in Shared : indexed'[e].mark # "header"
      BY <1>3, <3>1 DEF Git!Trees, Docs
    <3> QED BY <1>1, <1>2, <2>1, <3>1, <3>2, TypeParts DEF Git!Reindex, Git!git
  <2>2. CASE Git!ReindexFails
    BY <1>1, <1>2, <2>2, FailType, Returns, TypeParts DEF Git!ReindexFails, Git!Troubles, Git!git
  <2> QED BY <1>14, <2>1, <2>2
<1>15. CASE UNCHANGED Git!vars
  BY <1>1, <1>2, <1>15, TypeParts DEF Git!vars
<1> QED BY <1>4, <1>5, <1>6, <1>7, <1>8, <1>9, <1>10, <1>11, <1>12, <1>13, <1>14,
                              <1>15 DEF Git!Next, Git!RunStep

-----------------------------------------------------------------------------
(* What holds through failures, conflicts and restarts alike.               *)

\* Where a run is and what the repository is in; the paths git holds as unmerged belong
\* to a rebase; before a restart one Daemon has begun every run.
PhaseOK ==
  /\ run.pc \in {"commit", "pull", "push", "index"} => repo = "ready"
  /\ run.pc = "continue" => repo = "rebase"
  /\ run.pc # "idle" => run.last = "none"
  /\ run.pc = "idle" /\ run.last = "ok" => repo = "ready"
  /\ repo # "rebase" => unmerged = {}
  /\ "restart" \notin trouble => slot = "first" /\ run.by = "first"

\* A header with markers is in an unmerged path, and never in a commit.
HeaderOK == \A e \in Shared :
  /\ head[e].mark # "header" /\ remote[e].mark # "header"
  /\ file[e].mark = "header" \/ index[e].mark = "header" => e \in unmerged

\* The remote only grows: what was fetched from it or pushed is still there.
OntoOK == \A e \in Shared : onto[e].has \subseteq remote[e].has

GitInv == PhaseOK /\ HeaderOK /\ OntoOK

LEMMA PhaseStep ==
  ASSUME Git!GitSyncAssumption, Git!TypeOK, PhaseOK, [Git!Next]_Git!vars
  PROVE  PhaseOK'
<1> USE DEF PhaseOK
<1>1. run \in Runs
  BY TypeSays
<1>2. ASSUME UNCHANGED <<unmerged, repo, run, slot, trouble>> PROVE PhaseOK'
  BY <1>2
<1>3. ASSUME NEW e \in Shared, NEW b \in Blocks,
             Git!Write(e, b) \/ Git!Create(e, b) \/ Git!OtherEdits(e, b) \/ Git!OtherCreates(e, b)
      PROVE  PhaseOK'
  BY <1>2, <1>3, Writes, Creates, OtherWrites
<1>4. ASSUME NEW e \in Shared, Git!PassEntry(e) \/ Git!Resolve(e) PROVE PhaseOK'
  BY <1>2, <1>4, Passed, Resolves
<1>5. ASSUME Git!InitRepo \/ Git!InitCommit \/ Git!Restart PROVE PhaseOK'
  BY <1>5 DEF Git!InitRepo, Git!InitCommit, Git!Restart, Git!Fail, Git!Calm, Git!git
<1>6. CASE Git!Start
  BY <1>1, <1>6, Starts DEF Git!Start, Git!git
<1>7. CASE Git!Commit
  BY <1>1, <1>7, Goes DEF Git!Commit, Git!Steps
<1>8. CASE Git!CommitFails \/ Git!PushFails \/ Git!ReindexFails
  <2>1. run'.pc = "idle" /\ run'.last = "error" /\ run'.by = run.by
    BY <1>1, <1>8, Returns DEF Git!CommitFails, Git!PushFails, Git!ReindexFails
  <2> QED BY <1>8, <2>1 DEF Git!CommitFails, Git!PushFails, Git!ReindexFails, Git!Fail, Git!git
<1>9. CASE Git!Pull
  <2>1. /\ run'.by = run.by /\ run.pc = "pull" /\ slot' = slot
        /\ \/ run'.pc = "push" /\ run'.last = run.last /\ unmerged' = {}
              /\ UNCHANGED <<repo, trouble>>
           \/ run'.pc = "idle" /\ run'.last = "conflict" /\ repo' = "rebase"
              /\ trouble' = trouble \union {"conflict"}
    BY <1>1, <1>9, Pulls, Goes, Returns DEF Git!Steps
  <2> QED BY <2>1
<1>10. CASE Git!PullFails
  <2>1. run'.pc = "push" /\ run'.last = run.last /\ run'.by = run.by
    BY <1>1, <1>10, Goes DEF Git!PullFails, Git!Steps
  <2> QED BY <1>10, <2>1 DEF Git!PullFails, Git!Fail, Git!Calm, Git!git
<1>11. CASE Git!Continue
  <2>1. \/ run'.pc = "push" /\ run'.last = run.last /\ run'.by = run.by
           /\ repo' = "ready" /\ unmerged = {}
        \/ run'.pc = "idle" /\ run'.last = "conflict" /\ run'.by = run.by /\ repo' = repo
    BY <1>1, <1>11, Goes, Returns DEF Git!Continue, Git!Steps
  <2> QED BY <1>11, <2>1 DEF Git!Continue
<1>12. CASE Git!Push
  <2>1. \/ run'.pc = "index" /\ run'.last = run.last /\ run'.by = run.by /\ UNCHANGED trouble
        \/ run'.pc = "idle" /\ run'.last = "error" /\ run'.by = run.by
           /\ trouble' = trouble \union {"push"}
    BY <1>1, <1>12, Goes, Returns DEF Git!Push, Git!Steps
  <2> QED BY <1>12, <2>1 DEF Git!Push
<1>13. CASE Git!Reindex
  <2>1. run'.pc = "idle" /\ run'.by = run.by
    BY <1>1, <1>13, Returns DEF Git!Reindex
  <2> QED BY <1>13, <2>1 DEF Git!Reindex, Git!git
<1>14. CASE UNCHANGED Git!vars
  BY <1>2, <1>14 DEF Git!vars
<1> HIDE DEF PhaseOK
<1> QED BY <1>3, <1>4, <1>5, <1>6, <1>7, <1>8, <1>9, <1>10, <1>11, <1>12, <1>13,
                              <1>14 DEF Git!Next, Git!RunStep

LEMMA HeaderStep ==
  ASSUME Git!GitSyncAssumption, Git!TypeOK, PhaseOK, HeaderOK, [Git!Next]_Git!vars
  PROVE  HeaderOK'
<1>1. run \in Runs /\ \A e \in Shared : indexed[e].mark # "header"
  BY TypeSays DEF Git!TypeOK
<1>2. ASSUME UNCHANGED <<file, index, head, remote, unmerged>> PROVE HeaderOK'
  BY <1>2 DEF HeaderOK
<1>3. ASSUME NEW e \in Shared, NEW b \in Blocks, Git!Write(e, b) \/ Git!Create(e, b)
      PROVE  HeaderOK'
  <2>1. /\ file'[e].mark # "header" /\ \A x \in Shared : x # e => file'[x] = file[x]
        /\ UNCHANGED <<index, head, remote, unmerged>>
    BY <1>1, <1>3, Writes, Creates
  <2> QED BY <2>1 DEF HeaderOK
<1>4. ASSUME NEW e \in Shared, NEW b \in Blocks, Git!OtherEdits(e, b) \/ Git!OtherCreates(e, b)
      PROVE  HeaderOK'
  <2>1. /\ remote'[e].mark # "header" /\ \A x \in Shared : x # e => remote'[x] = remote[x]
        /\ UNCHANGED <<file, index, head, unmerged>>
    BY <1>4, OtherWrites DEF HeaderOK
  <2> QED BY <2>1 DEF HeaderOK
<1>5. ASSUME NEW e \in Shared, Git!PassEntry(e) PROVE HeaderOK'
  BY <1>2, <1>5, Passed
<1>6. ASSUME NEW e \in Shared, Git!Resolve(e) PROVE HeaderOK'
  BY <1>6, Resolves DEF HeaderOK
<1>7. ASSUME Git!InitCommit PROVE HeaderOK'
  <2>1. repo = "half" /\ unmerged = {}
    BY <1>7 DEF Git!InitCommit, PhaseOK
  <2> QED BY <1>7, <2>1 DEF Git!InitCommit, HeaderOK
<1>8. ASSUME Git!Commit PROVE HeaderOK'
  <2>1. unmerged = {}
    BY <1>8 DEF Git!Commit, PhaseOK
  <2> QED BY <1>8, <2>1 DEF Git!Commit, HeaderOK
<1>9. ASSUME Git!Pull PROVE HeaderOK'
  <2>1. \A e \in Shared : Git!Merged(e).mark # "header"
    BY Merges DEF HeaderOK
  <2>2. \A e \in Shared : e \notin unmerged' => file'[e].mark # "header"
    BY <1>9, <2>1, Pulls
  <2>3. index' = file' /\ remote' = remote /\ (head' = head \/ (head' = file' /\ unmerged' = {}))
    BY <1>9, Pulls
  <2> QED BY <2>2, <2>3 DEF HeaderOK
<1>10. ASSUME Git!Continue PROVE HeaderOK'
  BY <1>10 DEF Git!Continue, HeaderOK
<1>11. ASSUME Git!Push PROVE HeaderOK'
  BY <1>11 DEF Git!Push, HeaderOK
<1>12. ASSUME Git!InitRepo \/ Git!Restart \/ Git!Start \/ Git!CommitFails \/ Git!PullFails
                \/ Git!PushFails \/ Git!Reindex \/ Git!ReindexFails
       PROVE  HeaderOK'
  BY <1>2, <1>12 DEF Git!InitRepo, Git!Restart, Git!Start, Git!CommitFails, Git!PullFails,
                     Git!PushFails, Git!Reindex, Git!ReindexFails, Git!git
<1>13. CASE UNCHANGED Git!vars
  BY <1>2, <1>13 DEF Git!vars
<1> QED BY <1>3, <1>4, <1>5, <1>6, <1>7, <1>8, <1>9, <1>10, <1>11, <1>12, <1>13 DEF Git!Next,
      Git!RunStep

LEMMA OntoStep ==
  ASSUME Git!GitSyncAssumption, Git!TypeOK, OntoOK, [Git!Next]_Git!vars
  PROVE  OntoOK'
<1>1. ASSUME UNCHANGED <<onto, remote>> PROVE OntoOK'
  BY <1>1 DEF OntoOK
<1>2. ASSUME NEW e \in Shared, NEW b \in Blocks,
             Git!Write(e, b) \/ Git!Create(e, b) \/ Git!OtherEdits(e, b) \/ Git!OtherCreates(e, b)
      PROVE  OntoOK'
  <2>1. UNCHANGED onto /\ \A x \in Shared : remote[x].has \subseteq remote'[x].has
    BY <1>2, Writes, Creates, OtherWrites
  <2> QED BY <2>1 DEF OntoOK
<1>3. ASSUME NEW e \in Shared, Git!PassEntry(e) \/ Git!Resolve(e) PROVE OntoOK'
  BY <1>1, <1>3, Passed, Resolves
<1>4. ASSUME Git!Pull PROVE OntoOK'
  BY <1>4 DEF Git!Pull, OntoOK
<1>5. ASSUME Git!Push PROVE OntoOK'
  BY <1>5 DEF Git!Push, OntoOK
<1>6. ASSUME Git!InitRepo \/ Git!InitCommit \/ Git!Restart \/ Git!Start \/ Git!Commit \/ Git!CommitFails
               \/ Git!PullFails \/ Git!Continue
             \/ Git!PushFails \/ Git!Reindex \/ Git!ReindexFails
       PROVE  OntoOK'
  BY <1>1, <1>6 DEF Git!InitRepo, Git!InitCommit, Git!Restart, Git!Start, Git!Commit,
                    Git!CommitFails, Git!PullFails, Git!Continue,
     Git!PushFails, Git!Reindex, Git!ReindexFails, Git!git
<1>7. CASE UNCHANGED Git!vars
  BY <1>1, <1>7 DEF Git!vars
<1> QED BY <1>2, <1>3, <1>4, <1>5, <1>6, <1>7 DEF Git!Next, Git!RunStep

THEOREM GitInvariance == ASSUME Git!GitSyncAssumption PROVE Git!Spec => [](Git!TypeOK /\ GitInv)
<1>1. Git!Init => Git!TypeOK /\ GitInv
  <2> SUFFICES ASSUME Git!Init PROVE GitInv
    BY InitTypes
  <2>1. PhaseOK
    BY DEF Git!Init, PhaseOK
  <2>2. HeaderOK /\ OntoOK
    BY DEF Git!Init, HeaderOK, OntoOK, Git!Empty, Git!None
  <2> QED BY <2>1, <2>2 DEF GitInv
<1>2. (Git!TypeOK /\ GitInv) /\ [Git!Next]_Git!vars => (Git!TypeOK /\ GitInv)'
  BY TypeStep, PhaseStep, HeaderStep, OntoStep DEF GitInv
<1> QED BY <1>1, <1>2, PTL DEF Git!Spec

\* No failure is forgotten.
LEMMA TroubleGrows == ASSUME [Git!Next]_Git!vars PROVE trouble \subseteq trouble'
<1>1. ASSUME NEW e \in Shared, Git!PassEntry(e) \/ Git!Resolve(e) PROVE trouble' = trouble
  BY <1>1 DEF Git!PassEntry, Git!Resolve
<1>2. ASSUME NEW e \in Shared, NEW b \in Blocks,
             Git!Write(e, b) \/ Git!Create(e, b) \/ Git!OtherEdits(e, b) \/ Git!OtherCreates(e, b)
      PROVE  trouble' = trouble
  BY <1>2 DEF Git!Write, Git!Create, Git!OtherEdits, Git!OtherCreates
<1>3. ASSUME Git!InitRepo \/ Git!InitCommit \/ Git!Restart PROVE trouble \subseteq trouble'
  BY <1>3 DEF Git!InitRepo, Git!InitCommit, Git!Restart, Git!Fail, Git!Calm
<1>4. ASSUME Git!RunStep PROVE trouble \subseteq trouble'
  BY <1>4 DEF Git!RunStep, Git!Start, Git!Commit, Git!CommitFails, Git!Pull, Git!PullFails,
              Git!Continue, Git!Push, Git!PushFails,
     Git!Reindex, Git!ReindexFails, Git!Fail, Git!Calm
<1> QED BY <1>1, <1>2, <1>3, <1>4 DEF Git!Next, Git!vars

-----------------------------------------------------------------------------
(* While nothing fails, conflicts or restarts, no edit is lost.             *)

\* A clean merge has what either side has, when both grew from what they shared.
LEMMA MergesHas ==
  ASSUME NEW e \in Shared, onto[e].has \subseteq remote[e].has
  PROVE  /\ head[e].has \subseteq Git!Merged(e).has
         /\ onto[e].has \subseteq head[e].has => remote[e].has \subseteq Git!Merged(e).has
<1>1. CASE Git!Theirs(e)
  BY <1>1 DEF Git!Theirs, Git!Merged
<1>2. CASE ~Git!Theirs(e) /\ Git!Ours(e)
  BY <1>2 DEF Git!Ours, Git!Merged
<1>3. CASE ~Git!Theirs(e) /\ ~Git!Ours(e)
  <2>1. Git!Merged(e).has =
          (remote[e].has \ (onto[e].has \ head[e].has)) \union (head[e].has \ onto[e].has)
    BY <1>3 DEF Git!Merged
  <2> QED BY <2>1
<1> QED BY <1>1, <1>2, <1>3

Held == \A n \in 1..edits : \E e \in Shared : \E x \in file[e].has \union remote[e].has : x[1] = n

\* Between runs a row has what its file has, so that a handler renders every edit; in a
\* run the branch is the work tree; and what the remote had is in the files.
Quiet ==
  /\ repo # "rebase"
  /\ run.pc = "idle" => \A e \in Shared : indexed[e].has = file[e].has
  /\ run.pc \in {"pull", "push", "index"} => head = file
  /\ \A e \in Shared : onto[e].has \subseteq file[e].has
  /\ Held

\* A step that loses nothing, and one that adds an edit.
LEMMA HeldSame ==
  ASSUME Held, edits' = edits,
         \A e \in Shared : file[e].has \union remote[e].has
           \subseteq file'[e].has \union remote'[e].has
  PROVE  Held'
BY DEF Held

LEMMA HeldMore ==
  ASSUME Held, edits \in Nat, edits' = edits + 1, NEW e \in Shared, NEW b,
         <<edits + 1, b>> \in file'[e].has \union remote'[e].has,
         \A x \in Shared : file[x].has \union remote[x].has
           \subseteq file'[x].has \union remote'[x].has
  PROVE  Held'
<1> SUFFICES ASSUME NEW n \in 1..(edits + 1)
             PROVE  \E y \in Shared : \E x \in file'[y].has \union remote'[y].has : x[1] = n
  BY DEF Held
<1>1. CASE n = edits + 1
  <2>1. <<edits + 1, b>>[1] = n
    BY <1>1
  <2> QED BY <2>1
<1>2. CASE n \in 1..edits
  BY <1>2 DEF Held
<1> QED BY <1>1, <1>2

LEMMA QuietStep ==
  ASSUME Git!GitSyncAssumption, Git!TypeOK, GitInv, [Git!Next]_Git!vars,
         trouble = {} => Quiet, trouble' = {}
  PROVE  Quiet'
<1>1. /\ run \in Runs /\ edits \in Nat /\ PhaseOK /\ OntoOK
      /\ \A e \in Shared : indexed[e] \in Docs /\ file[e] \in Docs
  BY TypeSays DEF Git!TypeOK, GitInv, Git!GitSyncAssumption
<1>4. trouble = {} /\ Quiet
  BY TroubleGrows
<1>5. /\ unmerged = {} /\ run.pc # "continue" /\ (run.pc = "idle" \/ run.by = slot)
      /\ \A e \in Shared : file[e].mark # "header" /\ Git!Indexed(e) = file[e]
  BY <1>1, <1>4 DEF Quiet, PhaseOK, HeaderOK, GitInv, Git!Indexed
<1>6. ASSUME UNCHANGED <<file, indexed, head, onto, remote, repo, run, edits>> PROVE Quiet'
  BY <1>4, <1>6 DEF Quiet, Held
<1>7. ASSUME NEW e \in Shared, NEW b \in Blocks, Git!Write(e, b) PROVE Quiet'
  <2>1. run.pc = "idle"
    BY <1>5, <1>7 DEF Git!Write, Git!LockFree
  <2>2. /\ edits' = edits + 1 /\ UNCHANGED <<onto, remote, repo, run>>
        /\ file'[e].has = file[e].has \union {<<edits + 1, b>>} /\ indexed'[e].has = file'[e].has
        /\ \A x \in Shared : x # e => file'[x] = file[x] /\ indexed'[x] = indexed[x]
    BY <1>4, <1>7, <2>1, Writes DEF Quiet
  <2>3. Held'
    BY <1>1, <1>4, <2>2, HeldMore DEF Quiet
  <2> QED BY <1>4, <2>1, <2>2, <2>3 DEF Quiet
<1>8. ASSUME NEW e \in Shared, NEW b \in Blocks, Git!Create(e, b) PROVE Quiet'
  <2>1. run.pc = "idle"
    BY <1>5, <1>8 DEF Git!Create, Git!LockFree
  <2>2. /\ edits' = edits + 1 /\ UNCHANGED <<onto, remote, repo, run>>
        /\ file'[e].has = {<<edits + 1, b>>} /\ indexed'[e].has = file'[e].has /\ file[e].has = {}
        /\ \A x \in Shared : x # e => file'[x] = file[x] /\ indexed'[x] = indexed[x]
    BY <1>8, Creates DEF Git!None
  <2>3. \A x \in Shared : file[x].has \subseteq file'[x].has
    BY <2>2
  <2>4. Held'
    BY <1>1, <1>4, <2>2, <2>3, HeldMore DEF Quiet
  <2> QED BY <1>4, <2>1, <2>2, <2>3, <2>4 DEF Quiet
<1>9. ASSUME NEW e \in Shared, NEW b \in Blocks, Git!OtherEdits(e, b) \/ Git!OtherCreates(e, b)
      PROVE  Quiet'
  <2>1. /\ edits' = edits + 1 /\ UNCHANGED <<file, indexed, head, onto, repo, run>>
        /\ remote'[e].has = remote[e].has \union {<<edits + 1, b>>}
        /\ \A x \in Shared : x # e => remote'[x] = remote[x]
    BY <1>9, OtherWrites
  <2>2. \A x \in Shared : remote[x].has \subseteq remote'[x].has
    BY <2>1
  <2>3. Held'
    BY <1>1, <1>4, <2>1, <2>2, HeldMore DEF Quiet
  <2> QED BY <1>4, <2>1, <2>3 DEF Quiet
<1>10. ASSUME NEW e \in Shared, Git!PassEntry(e) PROVE Quiet'
  <2>1. /\ indexed'[e] = file[e] /\ \A x \in Shared : x # e => indexed'[x] = indexed[x]
        /\ UNCHANGED <<file, head, onto, remote, repo, run, edits>>
    BY <1>5, <1>10, Passed
  <2>2. Held'
    BY <1>4, <2>1, HeldSame DEF Quiet
  <2> QED BY <1>4, <2>1, <2>2 DEF Quiet
<1>11. ASSUME NEW e \in Shared, Git!Resolve(e) PROVE Quiet'
  BY <1>4, <1>11 DEF Git!Resolve, Quiet
<1>12. ASSUME Git!InitRepo \/ Git!InitCommit \/ Git!Restart PROVE Quiet'
  <2>1. /\ repo' # "rebase" /\ UNCHANGED <<file, indexed, onto, remote, run, edits>>
        /\ head' = head \/ head' = file
    BY <1>4, <1>12 DEF Git!InitRepo, Git!InitCommit, Git!Restart, Git!Fail, Git!Calm, Quiet, Git!git
  <2> QED BY <1>4, <2>1 DEF Quiet, Held
<1>13. CASE Git!Start
  <2>1. run'.pc \in {"idle", "commit"} /\ (run'.pc = "idle" => run.pc = "idle")
    BY <1>4, <1>13, Starts DEF Quiet, Git!Start
  <2> QED BY <1>4, <1>13, <2>1 DEF Quiet, Held, Git!Start, Git!git
<1>14. CASE Git!Commit
  <2>1. run'.pc = "pull"
    BY <1>1, <1>14, Goes DEF Git!Commit, Git!Steps
  <2> QED BY <1>4, <1>14, <2>1 DEF Quiet, Held, Git!Commit
<1>15. ASSUME Git!CommitFails \/ Git!PushFails \/ Git!ReindexFails PROVE Quiet'
  BY <1>15 DEF Git!CommitFails, Git!PushFails, Git!ReindexFails, Git!Fail
<1>16. CASE Git!Pull
  <2>1. /\ head = file /\ run'.pc = "push" /\ head' = file' /\ onto' = remote
        /\ UNCHANGED <<indexed, remote, repo, edits>>
        /\ \A e \in Shared : file'[e] = Git!Merged(e)
    BY <1>1, <1>4, <1>16, Pulls, Goes DEF Quiet, Git!Steps
  <2>2. \A e \in Shared : file[e].has \subseteq file'[e].has /\ remote[e].has \subseteq file'[e].has
    BY <1>1, <1>4, <2>1, MergesHas DEF Quiet, OntoOK
  <2>3. Held'
    BY <1>4, <2>1, <2>2, HeldSame DEF Quiet
  <2> QED BY <1>4, <2>1, <2>2, <2>3 DEF Quiet
<1>17. CASE Git!PullFails
  <2>1. run'.pc = "push" /\ run.pc = "pull"
    BY <1>1, <1>17, Goes DEF Git!PullFails, Git!Steps
  <2> QED BY <1>4, <1>17, <2>1 DEF Quiet, Held, Git!PullFails, Git!git
<1>18. CASE Git!Continue
  BY <1>5, <1>18 DEF Git!Continue
<1>19. CASE Git!Push
  <2>1. /\ run'.pc = "index" /\ remote = onto /\ head = file /\ remote' = file /\ onto' = file
        /\ UNCHANGED <<file, indexed, head, repo, edits>>
    BY <1>1, <1>4, <1>19, Goes DEF Git!Push, Quiet, Git!Steps
  <2>2. \A e \in Shared : remote[e].has \subseteq file[e].has
    BY <1>4, <2>1 DEF Quiet
  <2>3. Held'
    BY <1>4, <2>1, <2>2, HeldSame DEF Quiet
  <2> QED BY <1>4, <2>1, <2>3 DEF Quiet
<1>20. CASE Git!Reindex
  <2>1. run'.pc = "idle" /\ \A e \in Shared : indexed'[e] = file[e]
    BY <1>1, <1>5, <1>20, Returns DEF Git!Reindex
  <2> QED BY <1>4, <1>20, <2>1 DEF Quiet, Held, Git!Reindex, Git!git
<1>21. CASE UNCHANGED Git!vars
  BY <1>6, <1>21 DEF Git!vars
<1> QED BY <1>7, <1>8, <1>9, <1>10, <1>11, <1>12, <1>13, <1>14, <1>15, <1>16, <1>17, <1>18, <1>19,
           <1>20,
           <1>21 DEF Git!Next, Git!RunStep

\* While nothing fails, conflicts or restarts, no edit of either device is lost, whatever
\* the order of handlers, passes, runs and the other device's pushes: a handler renders
\* from a row that has all its file has, and a run's merge has what both sides have.
LEMMA EditsAlwaysKept == ASSUME Git!GitSyncAssumption PROVE Git!Spec => []Git!EditsKept
<1> DEFINE QuietInv == trouble = {} => Quiet
<1>1. Git!Init => QuietInv
  BY DEF Git!Init, Quiet, Held, Git!Empty, Git!None
<1>2. (Git!TypeOK /\ GitInv) /\ QuietInv /\ [Git!Next]_Git!vars => QuietInv'
  BY QuietStep
<1>3. QuietInv => Git!EditsKept
  BY DEF Quiet, Held, Git!EditsKept
<1> QED BY <1>1, <1>2, <1>3, GitInvariance, PTL DEF Git!Spec

-----------------------------------------------------------------------------
(* Unless a push or an index pass fails or the daemon restarts, no marker     *)
(* reaches the remote.                                                       *)

Bare(d) == d.mark \in {"no", "none"}
Mild == trouble \subseteq {"git", "conflict"}

\* Branches never hold markers, and files do only in a rebase: there in what is unmerged,
\* or was and is not staged as it is. Rows keep those that a pass read until the run that
\* ends the rebase has indexed the files.
Markless ==
  /\ \A e \in Shared : Bare(head[e]) /\ Bare(remote[e])
  /\ repo # "rebase" => \A e \in Shared : Bare(file[e])
  /\ repo # "rebase" /\ run.pc \notin {"push", "index"} => \A e \in Shared : Bare(indexed[e])
  /\ repo = "rebase" => \A e \in Shared :
       /\ e \notin unmerged => Bare(index[e])
       /\ index[e] = Git!None => Bare(file[e]) /\ Bare(indexed[e])

LEMMA MarklessStep ==
  ASSUME Git!GitSyncAssumption, Git!TypeOK, GitInv, [Git!Next]_Git!vars, Mild => Markless, Mild'
  PROVE  Markless'
<1>1. run \in Runs /\ PhaseOK
  BY TypeSays DEF GitInv
<1>2. Mild
  BY TroubleGrows DEF Mild
<1>3. Markless /\ "restart" \notin trouble /\ (run.pc = "idle" \/ run.by = slot)
  BY <1>1, <1>2 DEF Mild, PhaseOK
<1>4. \A e \in Shared : Bare(file[e]) => Bare(Git!Indexed(e))
  BY DEF Bare, Git!Indexed
<1>5. ASSUME UNCHANGED <<file, indexed, index, head, remote, unmerged, repo, run>> PROVE Markless'
  BY <1>3, <1>5 DEF Markless, Bare
<1>6. ASSUME NEW e \in Shared, NEW b \in Blocks, Git!Write(e, b) PROVE Markless'
  <2>1. run.pc = "idle"
    BY <1>3, <1>6 DEF Git!Write, Git!LockFree
  <2>2. /\ file'[e].mark = indexed[e].mark /\ indexed'[e].mark = indexed[e].mark
        /\ \A x \in Shared : x # e => file'[x] = file[x] /\ indexed'[x] = indexed[x]
        /\ UNCHANGED <<index, head, remote, unmerged, repo, run>>
    BY <1>6, Writes
  <2> QED BY <1>3, <2>1, <2>2 DEF Markless, Bare
<1>7. ASSUME NEW e \in Shared, NEW b \in Blocks, Git!Create(e, b) PROVE Markless'
  <2>1. /\ file'[e].mark = "no" /\ indexed'[e].mark = "no"
        /\ \A x \in Shared : x # e => file'[x] = file[x] /\ indexed'[x] = indexed[x]
        /\ UNCHANGED <<index, head, remote, unmerged, repo, run>>
    BY <1>7, Creates
  <2> QED BY <1>3, <2>1 DEF Markless, Bare
<1>8. ASSUME NEW e \in Shared, NEW b \in Blocks, Git!OtherEdits(e, b) \/ Git!OtherCreates(e, b)
      PROVE  Markless'
  <2>1. /\ remote'[e].mark \in {remote[e].mark, "no"}
        /\ \A x \in Shared : x # e => remote'[x] = remote[x]
        /\ UNCHANGED <<file, indexed, index, head, unmerged, repo, run>>
    BY <1>8, OtherWrites
  <2> QED BY <1>3, <2>1 DEF Markless, Bare
<1>9. ASSUME NEW e \in Shared, Git!PassEntry(e) PROVE Markless'
  <2>1. /\ indexed'[e] = Git!Indexed(e) /\ \A x \in Shared : x # e => indexed'[x] = indexed[x]
        /\ UNCHANGED <<file, index, head, remote, unmerged, repo, run>>
    BY <1>9, Passed
  <2> QED BY <1>3, <1>4, <2>1 DEF Markless, Bare
<1>10. ASSUME NEW e \in Shared, Git!Resolve(e) PROVE Markless'
  <2>1. /\ repo = "rebase"
         /\ unmerged' = unmerged \ {e}
        /\ file'[e].mark = "no" /\ index'[e].mark = "no" /\ index'[e] # Git!None
        /\ \A x \in Shared : x # e => file'[x] = file[x] /\ index'[x] = index[x]
        /\ UNCHANGED <<indexed, head, remote, repo, run>>
    BY <1>10, Resolves DEF Git!None
  <2> QED BY <1>3, <2>1 DEF Markless, Bare
<1>11. ASSUME Git!InitRepo \/ Git!InitCommit \/ Git!Restart PROVE Markless'
  <2>1. CASE Git!InitRepo
    BY <1>3, <2>1 DEF Git!InitRepo, Markless, Bare
  <2>2. CASE Git!InitCommit
    BY <1>3, <2>2 DEF Git!InitCommit, Markless, Bare
  <2>3. CASE Git!Restart
    BY <2>3 DEF Git!Restart, Git!Fail, Mild
  <2> QED BY <1>11, <2>1, <2>2, <2>3
<1>12. CASE Git!Start
  <2>1. run.pc = "idle" /\ run'.pc \in {"idle", "commit", "continue"}
    BY <1>12, Starts DEF Git!Start
  <2> QED BY <1>3, <1>12, <2>1 DEF Git!Start, Markless, Bare, Git!git
<1>13. CASE Git!Commit
  <2>1. run.pc = "commit" /\ run'.pc = "pull" /\ repo = "ready"
    BY <1>1, <1>13, Goes DEF Git!Commit, Git!Steps, PhaseOK
  <2> QED BY <1>3, <1>13, <2>1 DEF Git!Commit, Markless, Bare
<1>14. CASE Git!CommitFails
  <2>1. run.pc = "commit" /\ repo = "ready"
    BY <1>1, <1>14 DEF Git!CommitFails, PhaseOK
  <2> QED BY <1>3, <1>14, <2>1 DEF Git!CommitFails, Markless, Bare, Git!git
<1>15. ASSUME Git!PushFails \/ Git!ReindexFails PROVE Markless'
  BY <1>15 DEF Git!PushFails, Git!ReindexFails, Git!Fail, Mild
<1>16. CASE Git!Pull
  <2>1. run.pc = "pull" /\ repo = "ready"
    BY <1>1, <1>16 DEF Git!Pull, PhaseOK
  <2>2. \A e \in Shared : Bare(Git!Merged(e))
    BY <1>3, Merges DEF Markless, Bare
  <2>3. /\ \A e \in Shared : e \notin unmerged' => Bare(file'[e])
        /\ \A e \in Shared : e \in unmerged' => file'[e] # Git!None
        /\ index' = file' /\ UNCHANGED <<indexed, remote>>
    BY <1>16, <2>2, Pulls, Merges
  <2>4. \/ unmerged' = {} /\ head' = file' /\ repo' = repo /\ run'.pc = "push"
        \/ repo' = "rebase" /\ head' = head
    BY <1>1, <1>16, Pulls, Goes DEF Git!Steps
  <2>5. \A e \in Shared : Bare(indexed[e])
    BY <1>3, <2>1 DEF Markless
  <2> QED BY <1>3, <2>1, <2>3, <2>4, <2>5 DEF Markless, Bare
<1>17. CASE Git!PullFails
  <2>1. run.pc = "pull" /\ run'.pc = "push" /\ repo = "ready"
    BY <1>1, <1>17, Goes DEF Git!PullFails, Git!Steps, PhaseOK
  <2> QED BY <1>3, <1>17, <2>1 DEF Git!PullFails, Markless, Bare, Git!git
<1>18. CASE Git!Continue
  <2>1. run.pc = "continue" /\ repo = "rebase"
        /\ UNCHANGED <<file, indexed, index, remote, unmerged>>
    BY <1>1, <1>18 DEF Git!Continue, PhaseOK
  <2>2. CASE unmerged = {} /\ ~Git!Dirty
    <3>1. head' = index /\ repo' = "ready" /\ run'.pc = "push"
      BY <1>1, <1>18, <2>2, Goes DEF Git!Continue, Git!Steps
    <3>2. \A e \in Shared : Bare(index[e]) /\ Bare(file[e])
      BY <1>3, <2>1, <2>2 DEF Markless, Git!Dirty
    <3> QED BY <1>3, <2>1, <3>1, <3>2 DEF Markless, Bare
  <2>3. CASE ~(unmerged = {} /\ ~Git!Dirty)
    <3>1. UNCHANGED <<head, repo>>
      BY <1>18, <2>3 DEF Git!Continue
    <3> QED BY <1>3, <2>1, <3>1 DEF Markless, Bare
  <2> QED BY <2>2, <2>3
<1>19. CASE Git!Push
  <2>1. CASE remote = onto
    <3>1. run.pc = "push" /\ run'.pc = "index" /\ remote' = head /\ repo = "ready"
          /\ UNCHANGED <<file, indexed, index, head, unmerged, repo>>
      BY <1>1, <1>19, <2>1, Goes DEF Git!Push, Git!Steps, PhaseOK
    <3> QED BY <1>3, <3>1 DEF Markless, Bare
  <2>2. CASE remote # onto
    BY <1>19, <2>2 DEF Git!Push, Mild
  <2> QED BY <2>1, <2>2
<1>20. CASE Git!Reindex
  <2>1. /\ repo = "ready" /\ \A e \in Shared : indexed'[e] = Git!Indexed(e)
        /\ UNCHANGED <<file, index, head, remote, unmerged, repo>>
    BY <1>1, <1>20 DEF Git!Reindex, PhaseOK, Git!git
  <2> QED BY <1>3, <1>4, <2>1 DEF Markless, Bare
<1>21. CASE UNCHANGED Git!vars
  BY <1>5, <1>21 DEF Git!vars
<1> QED BY <1>6, <1>7, <1>8, <1>9, <1>10, <1>11, <1>12, <1>13, <1>14, <1>15, <1>16, <1>17, <1>18,
           <1>19, <1>20,
           <1>21 DEF Git!Next, Git!RunStep

\* Unless a push or an index pass fails or the daemon restarts, no conflict marker reaches
\* the remote, although passes read files with markers as text and handlers render them
\* back: a run that resumes stages nothing, and rebase --continue refuses what is not
\* staged as it is.
LEMMA NoMarkersReachRemote == ASSUME Git!GitSyncAssumption PROVE Git!Spec => []Git!NoMarkersPushed
<1> DEFINE MarklessInv == Mild => Markless
<1>1. Git!Init => MarklessInv
  BY DEF Git!Init, Markless, Bare, Git!Empty, Git!None
<1>2. (Git!TypeOK /\ GitInv) /\ MarklessInv /\ [Git!Next]_Git!vars => MarklessInv'
  BY MarklessStep
<1>3. MarklessInv => Git!NoMarkersPushed
  BY DEF Mild, Markless, Bare, Git!NoMarkersPushed
<1> QED BY <1>1, <1>2, <1>3, GitInvariance, PTL DEF Git!Spec

-----------------------------------------------------------------------------
(* What the answer OK means.                                                *)

\* What a run that no restart has let others into has carried so far: first the files as
\* they were when it began, then a commit that has all of them, then the remote.
Carried ==
  /\ run.pc = "idle" /\ run.last = "ok" => Git!Same(indexed, file)
  /\ run.pc \in {"commit", "continue"} => \A e \in Shared : run.had[e] = file[e].has
  /\ run.pc = "pull" => \A e \in Shared : run.had[e] \subseteq head[e].has
  /\ run.pc = "push" => \A e \in Shared : index[e] # Git!None => run.had[e] \subseteq head[e].has
  /\ run.pc = "index" => \A e \in Shared : index[e] # Git!None => run.had[e] \subseteq onto[e].has

LEMMA CarriedStep ==
  ASSUME Git!GitSyncAssumption, Git!TypeOK, GitInv, [Git!Next]_Git!vars,
         "restart" \notin trouble => Carried, "restart" \notin trouble'
  PROVE  Carried'
<1>1. run \in Runs /\ PhaseOK /\ HeaderOK /\ OntoOK
  BY TypeSays DEF GitInv
<1>2. "restart" \notin trouble
  BY TroubleGrows
<1>3. Carried /\ (run.pc = "idle" \/ run.by = slot)
  BY <1>1, <1>2 DEF PhaseOK
<1>4. repo # "rebase" => \A e \in Shared : Git!Indexed(e) = file[e]
  BY <1>1 DEF PhaseOK, HeaderOK, Git!Indexed
<1>5. ASSUME UNCHANGED <<file, indexed, index, head, onto, run>> PROVE Carried'
  BY <1>3, <1>5 DEF Carried, Git!Same
<1>6. ASSUME NEW e \in Shared, NEW b \in Blocks, Git!Write(e, b) \/ Git!Create(e, b)
      PROVE  Carried'
  <2>1. run.pc = "idle"
    BY <1>3, <1>6 DEF Git!Write, Git!Create, Git!LockFree
  <2>2. /\ indexed'[e].has = file'[e].has /\ indexed'[e].mark = file'[e].mark /\ run' = run
        /\ \A x \in Shared : x # e => file'[x] = file[x] /\ indexed'[x] = indexed[x]
    <3>1. CASE Git!Write(e, b)
      BY <3>1, Writes
    <3>2. CASE Git!Create(e, b)
      BY <3>2, Creates
    <3> QED BY <1>6, <3>1, <3>2
  <2> QED BY <1>3, <2>1, <2>2 DEF Carried, Git!Same
<1>7. ASSUME NEW e \in Shared, NEW b \in Blocks, Git!OtherEdits(e, b) \/ Git!OtherCreates(e, b)
      PROVE  Carried'
  BY <1>5, <1>7, OtherWrites
<1>8. ASSUME NEW e \in Shared, Git!PassEntry(e) PROVE Carried'
  <2>1. /\ indexed'[e] = Git!Indexed(e) /\ \A x \in Shared : x # e => indexed'[x] = indexed[x]
        /\ UNCHANGED <<file, index, head, onto, run>>
    BY <1>8, Passed
  <2>2. run.pc = "idle" /\ run.last = "ok" => indexed'[e] = file[e]
    BY <1>1, <1>4, <2>1 DEF PhaseOK
  <2> QED BY <1>3, <2>1, <2>2 DEF Carried, Git!Same
<1>9. ASSUME NEW e \in Shared, Git!Resolve(e) PROVE Carried'
  <2>1. repo = "rebase" /\ run' = run /\ \A x \in Shared : file'[x].has = file[x].has
    BY <1>9, Resolves
  <2>2. run.pc \in {"commit", "continue"} \/ (run.pc = "idle" /\ run.last # "ok")
    BY <1>1, <2>1 DEF PhaseOK, Runs, Git!Steps
  <2> QED BY <1>3, <2>1, <2>2 DEF Carried
<1>10. ASSUME Git!InitRepo \/ Git!Restart PROVE Carried'
  BY <1>5, <1>10 DEF Git!InitRepo, Git!Restart, Git!git
<1>11. ASSUME Git!InitCommit PROVE Carried'
  <2>1. repo = "half" /\ UNCHANGED <<file, indexed, run>>
    BY <1>11 DEF Git!InitCommit
  <2>2. run.pc = "idle" /\ run.last # "ok"
    BY <1>1, <2>1 DEF PhaseOK, Runs, Git!Steps
  <2> QED BY <2>1, <2>2 DEF Carried
<1>12. CASE Git!Start
  <2>1. \/ run'.pc = "idle" /\ run'.last = "error"
        \/ run'.pc \in {"commit", "continue"} /\ \A e \in Shared : run'.had[e] = file[e].has
    BY <1>12, Starts
  <2> QED BY <1>12, <2>1 DEF Git!Start, Carried
<1>13. CASE Git!Commit
  <2>1. run'.pc = "pull" /\ run'.had = run.had /\ run.pc = "commit"
    BY <1>1, <1>13, Goes DEF Git!Commit, Git!Steps
  <2> QED BY <1>3, <1>13, <2>1 DEF Git!Commit, Carried
<1>14. ASSUME Git!CommitFails \/ Git!PushFails \/ Git!ReindexFails PROVE Carried'
  <2>1. run'.pc = "idle" /\ run'.last = "error"
    BY <1>1, <1>14, Returns DEF Git!CommitFails, Git!PushFails, Git!ReindexFails
  <2> QED BY <2>1 DEF Carried
<1>15. CASE Git!Pull
  <2>1. \/ run'.pc = "idle" /\ run'.last = "conflict"
        \/ /\ run'.pc = "push" /\ run'.had = run.had
           /\ \A e \in Shared : head'[e] = Git!Merged(e)
    BY <1>1, <1>15, Pulls, Goes, Returns DEF Git!Steps
  <2>2. \A e \in Shared : /\ run.had[e] \subseteq head[e].has
                          /\ head[e].has \subseteq Git!Merged(e).has
    BY <1>1, <1>3, <1>15, MergesHas DEF Git!Pull, Carried, OntoOK
  <2> QED BY <2>1, <2>2 DEF Carried
<1>16. CASE Git!PullFails
  <2>1. run.pc = "pull" /\ run'.pc = "push" /\ run'.had = run.had /\ head' = head
    BY <1>1, <1>16, Goes DEF Git!PullFails, Git!Steps, Git!git
  <2> QED BY <1>3, <2>1 DEF Carried
<1>17. CASE Git!Continue
  <2>1. CASE unmerged = {} /\ ~Git!Dirty
    <3>1. /\ run.pc = "continue" /\ run'.pc = "push" /\ run'.had = run.had
          /\ head' = index /\ index' = index
      BY <1>1, <1>17, <2>1, Goes DEF Git!Continue, Git!Steps
    <3>2. \A e \in Shared : index[e] # Git!None => run.had[e] = index[e].has
      BY <1>3, <2>1, <3>1 DEF Carried, Git!Dirty
    <3> QED BY <3>1, <3>2 DEF Carried
  <2>2. CASE ~(unmerged = {} /\ ~Git!Dirty)
    <3>1. run'.pc = "idle" /\ run'.last = "conflict"
      BY <1>1, <1>17, <2>2, Returns DEF Git!Continue
    <3> QED BY <3>1 DEF Carried
  <2> QED BY <2>1, <2>2
<1>18. CASE Git!Push
  <2>1. \/ run'.pc = "idle" /\ run'.last = "error"
        \/ run.pc = "push" /\ run'.pc = "index" /\ run'.had = run.had
           /\ onto' = head /\ index' = index
    BY <1>1, <1>18, Goes, Returns DEF Git!Push, Git!Steps
  <2> QED BY <1>3, <2>1 DEF Carried
<1>19. CASE Git!Reindex
  <2>1. run'.pc = "idle" /\ file' = file /\ \A e \in Shared : indexed'[e] = file[e]
    BY <1>1, <1>4, <1>19, Returns DEF Git!Reindex, PhaseOK
  <2> QED BY <2>1 DEF Carried, Git!Same
<1>20. CASE UNCHANGED Git!vars
  BY <1>5, <1>20 DEF Git!vars
<1> QED BY <1>6, <1>7, <1>8, <1>9, <1>10, <1>11, <1>12, <1>13, <1>14, <1>15, <1>16, <1>17, <1>18,
           <1>19, <1>20
        DEF Git!Next, Git!RunStep

\* A run that is answered OK leaves the index showing what the files hold, until the next
\* run, and has brought to the remote every edit that a tracked file had when it began,
\* unless a restart let a second Daemon's handlers write into it.
LEMMA OkMeansWhatItSays == ASSUME Git!GitSyncAssumption PROVE Git!Spec => Git!OkMeansSynced
<1> DEFINE CarriedInv == "restart" \notin trouble => Carried
           Answered == /\ run'.pc = "idle" /\ run'.last = "ok" /\ "restart" \notin trouble'
                          => Git!Same(indexed', file')
                       /\ run.pc = "index" /\ run'.last = "ok" /\ "restart" \notin trouble
                            => \A e \in Shared : index[e] # Git!None => run.had[e] \subseteq onto[e].has
<1>1. Git!Init => CarriedInv
  BY DEF Git!Init, Carried
<1>2. (Git!TypeOK /\ GitInv) /\ CarriedInv /\ [Git!Next]_Git!vars => CarriedInv'
  BY CarriedStep
<1>3. (Git!TypeOK /\ GitInv) /\ CarriedInv /\ CarriedInv' /\ [Git!Next]_Git!vars
      => [Answered]_Git!vars
  <2> SUFFICES ASSUME Git!TypeOK, GitInv, CarriedInv, CarriedInv', [Git!Next]_Git!vars
               PROVE  Answered
    OBVIOUS
  <2>1. ASSUME run'.pc = "idle", run'.last = "ok", "restart" \notin trouble'
        PROVE  Git!Same(indexed', file')
    BY <2>1 DEF Carried, Git!Same
  <2>2. ASSUME run.pc = "index", run'.last = "ok", "restart" \notin trouble,
               NEW e \in Shared, index[e] # Git!None
        PROVE  run.had[e] \subseteq onto[e].has
    BY <2>2 DEF Carried
  <2> QED BY <2>1, <2>2
<1> QED BY <1>1, <1>2, <1>3, GitInvariance, PTL DEF Git!Spec, Git!OkMeansSynced

\* What happens to git sync beside the other parts is a behaviour of git sync.
LEMMA FilesHaveGit == FilesSpec => Git!Spec
<1>1. FilesInit => Git!Init
  BY DEF FilesInit
<1>2. [FilesNext]_all => [Git!Next]_Git!vars
  <2>1. UNCHANGED git => UNCHANGED Git!vars
    BY DEF git, Git!vars
  <2>2. UNCHANGED all => UNCHANGED git
    BY DEF all
  <2> QED BY <2>1, <2>2 DEF FilesNext
<1> QED BY <1>1, <1>2, PTL DEF FilesSpec, Git!Spec

LEMMA GitAssumed == Git!GitSyncAssumption
BY FilesAssumption

\* While nothing fails, conflicts or restarts, no edit of either device is lost.
THEOREM EditsAreKept == FilesSpec => []EditsKept
BY FilesHaveGit, GitAssumed, EditsAlwaysKept, PTL DEF EditsKept

\* Unless a push or an index pass fails or the daemon restarts, no conflict marker
\* reaches the remote.
THEOREM MarkersStayHere == FilesSpec => []NoMarkersPushed
BY FilesHaveGit, GitAssumed, NoMarkersReachRemote, PTL DEF NoMarkersPushed

\* A sync.run answered "ok" leaves the index as the files are, and has pushed what
\* the tracked files held when it began.
THEOREM OkMeansIt == FilesSpec => OkMeansSynced
BY FilesHaveGit, GitAssumed, OkMeansWhatItSays, PTL DEF OkMeansSynced
-----------------------------------------------------------------------------
(* Dispatch.                                                               *)

(* The shapes of a task, by what its handler has come to.                  *)
Effects == [commit : Nat, daemon : Dis!Daemons, late : BOOLEAN]
ViaNames == {"direct", "tools/call"}

Idle == [pc : {"read"}, daemon : Dis!Daemons]

Called == [pc : {"call", "done", "reply"}, method : Dis!Methods, via : ViaNames,
           daemon : Dis!Daemons, before : SUBSET Effects]

Committed == [pc : {"bump", "done", "reply"}, method : Dis!Methods, via : ViaNames,
              daemon : Dis!Daemons, effect : Effects]

Searching == [pc : {"compute", "insert", "done", "reply"}, method : Dis!Methods, via : ViaNames,
              daemon : Dis!Daemons, before : SUBSET Effects, at : 0 .. MaxLines, result : Nat]

Restarting == [pc : {"swap"}, method : Dis!Methods, via : ViaNames,
               daemon : Dis!Daemons, new : Dis!Daemons]

RestartDone == [pc : {"done", "reply"}, method : Dis!Methods, via : ViaNames,
              daemon : Dis!Daemons, swapped : {TRUE}]

Tasks == Idle \union Called \union Committed \union Searching \union Restarting \union RestartDone

\* The connections whose call may still commit and bump.
Busy == {c \in Conns : task[c].pc \notin {"read", "done", "reply"}}

DispatchTypes ==
  /\ current \in Dis!Daemons /\ built \in Dis!Daemons
  /\ task \in [Conns -> Tasks]
  /\ commits \in Nat
  /\ gens \in [Dis!Daemons -> Nat]
  /\ map \in [Dis!Daemons -> [0 .. MaxLines -> Nat]]
  /\ lines \in 0 .. MaxLines
  /\ told \subseteq Effects /\ retired \subseteq Dis!Daemons

\* A generation is counted by a line that was read.
GensCounted ==
  /\ IsFiniteSet(Busy)
  /\ \A d \in Dis!Daemons : gens[d] + Cardinality(Busy) <= lines
-----------------------------------------------------------------------------
(* The slot.                                                               *)

\* A Daemon is built once, waits in one restart, and goes into the slot once.
SlotInv ==
  /\ current <= built
  /\ current \notin retired
  /\ \A d \in retired : d <= built
  /\ \A c \in Conns :
       /\ task[c].daemon <= built
       /\ task[c] \in RestartDone => current # task[c].daemon
       /\ task[c] \in Restarting =>
            /\ task[c].new <= built
            /\ task[c].new \notin retired \union {current}
            /\ \A b \in Conns :
                 /\ task[b].daemon # task[c].new
                 /\ task[b] \in Restarting /\ b # c => task[b].new # task[c].new
-----------------------------------------------------------------------------
(* The caches.                                                             *)

\* A Daemon that has not been in the slot.
Waiting(d) == d > built \/ \E c \in Conns : task[c] \in Restarting /\ task[c].new = d

HasResult(c) == task[c] \in Searching /\ task[c].result # Dis!NotCached

\* Whatever is cached or in flight on Daemon d shows effect e.
SeenOn(e, d) ==
  /\ \A g \in 0 .. MaxLines : map[d][g] # Dis!NotCached => e.commit <= map[d][g]
  /\ \A c \in Conns : HasResult(c) /\ task[c].daemon = d => e.commit <= task[c].result

\* The effects that have happened, those that are bumped, and those a search came after.
Pending == {task[c].effect : c \in {x \in Conns : task[x] \in Committed}}
Bumped == told \union
  {task[c].effect : c \in {x \in Conns : task[x] \in Committed /\ task[x].pc # "bump"}}
Before(c) == IF task[c] \in Called \union Searching THEN task[c].before ELSE {}

\* A result is filed under the generation that its search found, and a cache
\* holds none under a later one.
Filed ==
  /\ \A d \in Dis!Daemons, g \in 0 .. MaxLines : g > gens[d] => map[d][g] = Dis!NotCached
  /\ \A d \in Dis!Daemons : Waiting(d) => \A g \in 0 .. MaxLines : map[d][g] = Dis!NotCached
  /\ \A c \in Conns : task[c] \in Searching => task[c].at <= gens[task[c].daemon]

\* What is filed under a Daemon's current generation shows the effects it has bumped.
CurrentShows ==
  \A e \in Bumped :
    /\ gens[e.daemon] <= MaxLines /\ map[e.daemon][gens[e.daemon]] # Dis!NotCached
         => e.commit <= map[e.daemon][gens[e.daemon]]
    /\ \A c \in Conns :
         HasResult(c) /\ task[c].daemon = e.daemon /\ task[c].at = gens[e.daemon]
           => e.commit <= task[c].result

\* The Daemon in the slot came after every effect of another that was not late.
SlotShows == \A e \in told \union Pending : ~e.late /\ e.daemon # current => SeenOn(e, current)

\* A search shows the effects it came after: its own Daemon's, and those of another
\* that were not late.
SearchShows ==
  \A c \in Conns : \A e \in Before(c) :
    /\ e \in told
    /\ e.daemon = task[c].daemon /\ HasResult(c) => e.commit <= task[c].result
    /\ e.daemon # task[c].daemon /\ ~e.late => SeenOn(e, task[c].daemon)

Committing ==
  /\ \A e \in told \union Pending : e.commit <= commits
  /\ \A c \in Conns : task[c] \in Committed => task[c].effect.daemon = task[c].daemon
-----------------------------------------------------------------------------
RestartInv == DispatchTypes /\ SlotInv
DispatchInv ==
  /\ DispatchTypes /\ GensCounted /\ SlotInv
  /\ Filed /\ CurrentShows /\ SlotShows /\ SearchShows /\ Committing
-----------------------------------------------------------------------------
(* What each action does to the task of its connection.                    *)

USE DEF Dis!NotCached

\* The fields of a task tell its shape.
LEMMA Fields ==
  ASSUME NEW t \in Tasks
  PROVE  /\ t \in Idle       => DOMAIN t = {"pc", "daemon"}
         /\ t \in Called     => DOMAIN t = {"pc", "method", "via", "daemon", "before"}
         /\ t \in Committed  => DOMAIN t = {"pc", "method", "via", "daemon", "effect"}
         /\ t \in Searching  => DOMAIN t = {"pc", "method", "via", "daemon", "before", "at", "result"}
         /\ t \in Restarting => DOMAIN t = {"pc", "method", "via", "daemon", "new"}
         /\ t \in RestartDone  => DOMAIN t = {"pc", "method", "via", "daemon", "swapped"}
<1>1. t \in Idle => DOMAIN t = {"pc", "daemon"}  BY DEF Idle
<1>2. t \in Called => DOMAIN t = {"pc", "method", "via", "daemon", "before"}  BY DEF Called
<1>3. t \in Committed => DOMAIN t = {"pc", "method", "via", "daemon", "effect"}  BY DEF Committed
<1>4. t \in Searching => DOMAIN t = {"pc", "method", "via", "daemon", "before", "at", "result"}
  BY DEF Searching
<1>5. t \in Restarting => DOMAIN t = {"pc", "method", "via", "daemon", "new"}  BY DEF Restarting
<1>6. t \in RestartDone => DOMAIN t = {"pc", "method", "via", "daemon", "swapped"}
  BY DEF RestartDone
<1> QED  BY <1>1, <1>2, <1>3, <1>4, <1>5, <1>6

LEMMA Shapes ==
  ASSUME NEW t \in Tasks
  PROVE  /\ "effect" \in DOMAIN t <=> t \in Committed
         /\ "result" \in DOMAIN t <=> t \in Searching
         /\ "swapped" \in DOMAIN t <=> t \in RestartDone
         /\ t \in Called => t \notin Committed \union Searching \union Restarting \union RestartDone
         /\ t \in Committed => t \notin Searching \union Restarting \union RestartDone
         /\ t \in Searching => t \notin Restarting \union RestartDone
         /\ t \in Restarting => t \notin RestartDone
<1>1. PICK dom : DOMAIN t = dom  OBVIOUS
<1> QED  BY <1>1, Fields DEF Tasks

LEMMA Places ==
  ASSUME NEW t \in Tasks
  PROVE  /\ t.daemon \in Dis!Daemons
         /\ t.pc \in {"read", "call", "bump", "compute", "insert", "swap", "done", "reply"}
         /\ t.pc = "read" <=> t \in Idle
         /\ t.pc = "call" => t \in Called
         /\ t.pc = "bump" => t \in Committed
         /\ t.pc \in {"compute", "insert"} => t \in Searching
         /\ t.pc = "swap" <=> t \in Restarting
BY DEF Tasks, Idle, Called, Committed, Searching, Restarting, RestartDone

OthersKept(c) == \A b \in Conns \ {c} : task'[b] = task[b]

\* Goto changes where a task is and nothing else of it.
LEMMA GotoKeeps ==
  ASSUME DispatchTypes, NEW c \in Conns, NEW pc \in {"done", "reply"}, Dis!Goto(c, pc),
         task[c] \notin Idle, task[c] \notin Restarting
  PROVE  /\ task' \in [Conns -> Tasks] /\ OthersKept(c)
         /\ task'[c].pc = pc /\ task'[c].daemon = task[c].daemon
         /\ task[c] \in Called =>
              task'[c] \in Called /\ task'[c].before = task[c].before
         /\ task[c] \in Committed =>
              task'[c] \in Committed /\ task'[c].effect = task[c].effect
         /\ task[c] \in Searching =>
              /\ task'[c] \in Searching /\ task'[c].before = task[c].before
              /\ task'[c].at = task[c].at /\ task'[c].result = task[c].result
         /\ task[c] \in RestartDone => task'[c] \in RestartDone
<1> DEFINE t == task[c]
           u == [t EXCEPT !.pc = pc]
<1>1. t \in Tasks /\ task' = [task EXCEPT ![c] = u]  BY DEF DispatchTypes, Dis!Goto
<1>2. OthersKept(c) /\ task'[c] = u  BY <1>1 DEF OthersKept, DispatchTypes
<1> HIDE DEF t
<1>3. t \in Called => u \in Called /\ u.pc = pc /\ u.daemon = t.daemon /\ u.before = t.before
  BY DEF Called
<1>4. t \in Committed => u \in Committed /\ u.pc = pc /\ u.daemon = t.daemon /\ u.effect = t.effect
  BY DEF Committed
<1>5. t \in Searching => /\ u \in Searching /\ u.pc = pc /\ u.daemon = t.daemon
                         /\ u.before = t.before /\ u.at = t.at /\ u.result = t.result
  BY DEF Searching
<1>6. t \in RestartDone => u \in RestartDone /\ u.pc = pc /\ u.daemon = t.daemon  BY DEF RestartDone
<1> HIDE DEF u
<1>7. t \in Called \union Committed \union Searching \union RestartDone  BY <1>1 DEF Tasks, t
<1>8. u \in Tasks  BY <1>3, <1>4, <1>5, <1>6, <1>7 DEF Tasks
<1>9. task' \in [Conns -> Tasks]  BY <1>1, <1>8 DEF DispatchTypes
<1> QED  BY <1>2, <1>3, <1>4, <1>5, <1>6, <1>7, <1>9 DEF t

\* A line is read: a new call of the Daemon in the slot, after what was answered.
LEMMA ReadMoves ==
  ASSUME Dis!DispatchAssumption, DispatchTypes, NEW c \in Conns, Dis!Read(c)
  PROVE  /\ DispatchTypes' /\ OthersKept(c)
         /\ task[c] \in Idle /\ task'[c] \in Called /\ task'[c].pc = "call"
         /\ task'[c].daemon = current /\ task'[c].before \subseteq told
         /\ lines' = lines + 1
<1>1. PICK method \in Dis!Methods : \E via \in Dis!Vias(method) : task' =
        [task EXCEPT ![c] = [pc |-> "call", method |-> method, via |-> via, daemon |-> current,
                             before |-> IF method = "search" THEN told ELSE {}]]
  BY DEF Dis!Read
<1>1a. PICK via \in Dis!Vias(method) : task' =
        [task EXCEPT ![c] = [pc |-> "call", method |-> method, via |-> via, daemon |-> current,
                             before |-> IF method = "search" THEN told ELSE {}]]
  BY <1>1
<1>2. task[c] \in Idle  BY Places DEF DispatchTypes, Dis!Read, Dis!At
<1> DEFINE u == [pc |-> "call", method |-> method, via |-> via, daemon |-> current,
                 before |-> IF method = "search" THEN told ELSE {}]
<1>3. u \in Called /\ u.pc = "call" /\ u.daemon = current /\ u.before \subseteq told
  BY DEF Called, Dis!Vias, ViaNames, DispatchTypes
<1> HIDE DEF u
<1>4. task' = [task EXCEPT ![c] = u]  BY <1>1a DEF u
<1>5. task'[c] = u /\ OthersKept(c) /\ task' \in [Conns -> Tasks]
  BY <1>3, <1>4 DEF DispatchTypes, OthersKept, Tasks
<1>6. lines' \in 0 .. MaxLines /\ lines' = lines + 1
  BY DEF Dis!Read, DispatchTypes, Dis!DispatchAssumption
<1>7. DispatchTypes'  BY <1>5, <1>6 DEF DispatchTypes, Dis!Read
<1> QED  BY <1>2, <1>3, <1>5, <1>6, <1>7

LEMMA ReplyMoves ==
  ASSUME DispatchTypes, NEW c \in Conns, Dis!Reply(c)
  PROVE  /\ DispatchTypes' /\ OthersKept(c)
         /\ task'[c] \in Idle /\ task'[c].daemon = task[c].daemon
         /\ told \subseteq told' /\ retired \subseteq retired'
         /\ told' # told => task[c] \in Committed /\ told' = told \union {task[c].effect}
         /\ retired' # retired =>
              task[c] \in RestartDone /\ retired' = retired \union {task[c].daemon}
<1>1. task[c] \in Tasks /\ task[c].daemon \in Dis!Daemons  BY Places DEF DispatchTypes
<1> DEFINE u == [pc |-> "read", daemon |-> task[c].daemon]
<1>2. u \in Idle /\ u.daemon = task[c].daemon  BY <1>1 DEF Idle
<1>3. task' = [task EXCEPT ![c] = u]  BY DEF Dis!Reply
<1> HIDE DEF u
<1>4. task'[c] = u /\ OthersKept(c) /\ task' \in [Conns -> Tasks]
  BY <1>2, <1>3 DEF DispatchTypes, OthersKept, Tasks
<1>5. "effect" \in DOMAIN task[c] => task[c] \in Committed /\ task[c].effect \in Effects
  BY <1>1, Shapes DEF Committed
<1>6. "swapped" \in DOMAIN task[c] => task[c] \in RestartDone  BY <1>1, Shapes
<1>7. DispatchTypes'  BY <1>1, <1>4, <1>5 DEF DispatchTypes, Dis!Reply
<1> QED  BY <1>2, <1>4, <1>5, <1>6, <1>7 DEF Dis!Reply

LEMMA CommitMoves ==
  ASSUME DispatchTypes, NEW c \in Conns, Dis!Commit(c)
  PROVE  /\ DispatchTypes' /\ OthersKept(c) /\ commits' = commits + 1
         /\ task[c] \in Called /\ task[c].pc = "call"
         /\ task'[c] \in Committed /\ task'[c].pc = "bump"
         /\ task'[c].daemon = task[c].daemon
         /\ task'[c].effect.commit = commits' /\ task'[c].effect.daemon = task[c].daemon
         /\ task'[c].effect.late <=> current # task[c].daemon
<1>1. task[c] \in Called /\ task[c].pc = "call"
  BY Places DEF DispatchTypes, Dis!Commit, Dis!Working, Dis!Running, Dis!At
<1>2. commits' = commits + 1 /\ commits' \in Nat  BY DEF Dis!Commit, DispatchTypes
<1> DEFINE e == [commit |-> commits', daemon |-> task[c].daemon, late |-> current # task[c].daemon]
           u == [pc |-> "bump", method |-> task[c].method, via |-> task[c].via,
                 daemon |-> task[c].daemon, effect |-> e]
<1>3. e \in Effects /\ e.commit = commits' /\ e.daemon = task[c].daemon
      /\ (e.late <=> current # task[c].daemon)
  BY <1>1, <1>2 DEF Effects, Called
<1>4. task' = [task EXCEPT ![c] = u]  BY DEF Dis!Commit
<1> HIDE DEF e
<1>5. u \in Committed /\ u.pc = "bump" /\ u.daemon = task[c].daemon /\ u.effect = e
  BY <1>1, <1>3 DEF Committed, Called
<1> HIDE DEF u
<1>6. task'[c] = u /\ OthersKept(c) /\ task' \in [Conns -> Tasks]
  BY <1>4, <1>5 DEF DispatchTypes, OthersKept, Tasks
<1>7. DispatchTypes'  BY <1>2, <1>6 DEF DispatchTypes, Dis!Commit
<1> QED  BY <1>1, <1>2, <1>3, <1>5, <1>6, <1>7

LEMMA LookUpMoves ==
  ASSUME DispatchTypes, NEW c \in Conns, gens[task[c].daemon] <= MaxLines, Dis!LookUp(c)
  PROVE  LET d == task[c].daemon IN
         /\ DispatchTypes' /\ OthersKept(c) /\ d \in Dis!Daemons
         /\ task[c] \in Called /\ task[c].pc = "call"
         /\ task'[c] \in Searching /\ task'[c].daemon = d
         /\ task'[c].pc \in {"compute", "done"}
         /\ task'[c].before = task[c].before
         /\ task'[c].at = gens[d] /\ gens[d] \in 0 .. MaxLines
         /\ task'[c].result = map[d][gens[d]]
<1> DEFINE d == task[c].daemon
           hit == map[d][gens[d]]
           u == [pc |-> IF hit = Dis!NotCached THEN "compute" ELSE "done",
                 method |-> task[c].method, via |-> task[c].via, daemon |-> d,
                 before |-> task[c].before, at |-> gens[d], result |-> hit]
<1>1. task[c] \in Called /\ task[c].pc = "call"
  BY Places DEF DispatchTypes, Dis!LookUp, Dis!Working, Dis!Running, Dis!At
<1>2. /\ d \in Dis!Daemons /\ task[c].method \in Dis!Methods /\ task[c].via \in ViaNames
      /\ task[c].before \in SUBSET Effects
  BY <1>1 DEF Called
<1>3. gens[d] \in Nat  BY <1>2 DEF DispatchTypes
<1>4. gens[d] \in 0 .. MaxLines  BY <1>3
<1>5. hit \in Nat  BY <1>2, <1>4 DEF DispatchTypes
<1>6. task' = [task EXCEPT ![c] = u]  BY DEF Dis!LookUp
<1> HIDE DEF hit
<1>7. u \in Searching /\ u.daemon = d /\ u.before = task[c].before /\ u.at = gens[d] /\ u.result = hit
      /\ u.pc \in {"compute", "done"}
  BY <1>2, <1>4, <1>5 DEF Searching
<1> HIDE DEF u
<1>8. task'[c] = u /\ OthersKept(c) /\ task' \in [Conns -> Tasks]
  BY <1>6, <1>7 DEF DispatchTypes, OthersKept, Tasks
<1>9. DispatchTypes'  BY <1>8 DEF DispatchTypes, Dis!LookUp
<1> QED  BY <1>1, <1>2, <1>4, <1>7, <1>8, <1>9 DEF hit

LEMMA ComputeMoves ==
  ASSUME DispatchTypes, NEW c \in Conns, Dis!Compute(c)
  PROVE  /\ DispatchTypes' /\ OthersKept(c)
         /\ task[c] \in Searching /\ task[c].pc = "compute"
         /\ task'[c] \in Searching /\ task'[c].daemon = task[c].daemon
         /\ task'[c].pc = "insert" /\ task'[c].before = task[c].before
         /\ task'[c].at = task[c].at /\ task'[c].result = commits
<1>1. task[c] \in Searching /\ task[c].pc = "compute"
  BY Places DEF DispatchTypes, Dis!Compute, Dis!At
<1> DEFINE u == [task[c] EXCEPT !.result = commits, !.pc = "insert"]
<1>2. task' = [task EXCEPT ![c] = u]  BY <1>1 DEF Dis!Compute, DispatchTypes
<1>3. /\ u \in Searching /\ u.daemon = task[c].daemon /\ u.pc = "insert"
      /\ u.before = task[c].before /\ u.at = task[c].at /\ u.result = commits
  BY <1>1 DEF Searching, DispatchTypes
<1> HIDE DEF u
<1>4. task'[c] = u /\ OthersKept(c) /\ task' \in [Conns -> Tasks]
  BY <1>2, <1>3 DEF DispatchTypes, OthersKept, Tasks
<1>5. DispatchTypes'  BY <1>4 DEF DispatchTypes, Dis!Compute
<1> QED  BY <1>1, <1>3, <1>4, <1>5

LEMMA BuildMoves ==
  ASSUME DispatchTypes, NEW c \in Conns, Dis!Build(c), Dis!DispatchAssumption
  PROVE  /\ DispatchTypes' /\ OthersKept(c) /\ built' = built + 1
         /\ task[c] \in Called /\ task[c].pc = "call"
         /\ task'[c] \in Restarting /\ task'[c].daemon = task[c].daemon
         /\ task'[c].pc = "swap" /\ task'[c].new = built'
<1>1. task[c] \in Called /\ task[c].pc = "call"
  BY Places DEF DispatchTypes, Dis!Build, Dis!Working, Dis!Running, Dis!At
<1>2. built' = built + 1 /\ built' \in Dis!Daemons
  BY DEF Dis!Build, DispatchTypes, Dis!Daemons, Dis!DispatchAssumption
<1> DEFINE u == [pc |-> "swap", method |-> task[c].method, via |-> task[c].via,
                 daemon |-> task[c].daemon, new |-> built']
<1>3. u \in Restarting /\ u.daemon = task[c].daemon /\ u.pc = "swap" /\ u.new = built'
  BY <1>1, <1>2 DEF Restarting, Called
<1>4. task' = [task EXCEPT ![c] = u]  BY DEF Dis!Build
<1> HIDE DEF u
<1>5. task'[c] = u /\ OthersKept(c) /\ task' \in [Conns -> Tasks]
  BY <1>3, <1>4 DEF DispatchTypes, OthersKept, Tasks
<1>6. DispatchTypes'  BY <1>2, <1>5 DEF DispatchTypes, Dis!Build
<1> QED  BY <1>1, <1>2, <1>3, <1>5, <1>6

LEMMA SwapMoves ==
  ASSUME DispatchTypes, NEW c \in Conns, Dis!Swap(c)
  PROVE  /\ DispatchTypes' /\ OthersKept(c)
         /\ task[c] \in Restarting /\ current' = task[c].new
         /\ task'[c] \in RestartDone /\ task'[c].daemon = task[c].daemon /\ task'[c].pc = "done"
<1>1. task[c] \in Restarting  BY Places DEF DispatchTypes, Dis!Swap, Dis!At
<1> DEFINE u == [pc |-> "done", method |-> task[c].method, via |-> task[c].via,
                 daemon |-> task[c].daemon, swapped |-> TRUE]
<1>2. u \in RestartDone /\ u.daemon = task[c].daemon /\ u.pc = "done"
  BY <1>1 DEF Restarting, RestartDone
<1>3. current' = task[c].new /\ current' \in Dis!Daemons  BY <1>1 DEF Dis!Swap, Restarting
<1>4. task' = [task EXCEPT ![c] = u]  BY DEF Dis!Swap
<1> HIDE DEF u
<1>5. task'[c] = u /\ OthersKept(c) /\ task' \in [Conns -> Tasks]
  BY <1>2, <1>4 DEF DispatchTypes, OthersKept, Tasks
<1>6. DispatchTypes'  BY <1>3, <1>5 DEF DispatchTypes, Dis!Swap
<1> QED  BY <1>1, <1>2, <1>3, <1>5, <1>6

\* Bump, Insert, Return and Fail only move their task on.
MovesOn(c, pc) ==
  /\ task' \in [Conns -> Tasks] /\ OthersKept(c)
  /\ task'[c].pc = pc /\ task'[c].daemon = task[c].daemon
  /\ task[c] \in Called \union Committed \union Searching \union RestartDone
  /\ task[c] \in Called => task'[c] \in Called /\ task'[c].before = task[c].before
  /\ task[c] \in Committed => task'[c] \in Committed /\ task'[c].effect = task[c].effect
  /\ task[c] \in Searching =>
       /\ task'[c] \in Searching /\ task'[c].before = task[c].before
       /\ task'[c].at = task[c].at /\ task'[c].result = task[c].result
  /\ task[c] \in RestartDone => task'[c] \in RestartDone

LEMMA BumpMoves ==
  ASSUME DispatchTypes, NEW c \in Conns, Dis!Bump(c)
  PROVE  /\ DispatchTypes' /\ MovesOn(c, "done") /\ task[c] \in Committed /\ task[c].pc = "bump"
         /\ gens' = [gens EXCEPT ![task[c].daemon] = @ + 1]
<1>1. task[c] \in Tasks  BY DEF DispatchTypes
<1>2. task[c] \in Committed /\ task[c].pc = "bump"  BY <1>1, Places DEF Dis!Bump, Dis!At
<1>3. task[c] \notin Idle /\ task[c] \notin Restarting  BY <1>1, <1>2, Places
<1>4. MovesOn(c, "done")  BY <1>2, <1>3, GotoKeeps DEF Dis!Bump, MovesOn
<1>5. gens' \in [Dis!Daemons -> Nat]  BY <1>1, Places DEF Dis!Bump, DispatchTypes
<1>6. DispatchTypes'  BY <1>4, <1>5 DEF DispatchTypes, Dis!Bump, MovesOn
<1> QED  BY <1>2, <1>4, <1>6 DEF Dis!Bump

LEMMA InsertMoves ==
  ASSUME DispatchTypes, NEW c \in Conns, Dis!Insert(c)
  PROVE  /\ DispatchTypes' /\ MovesOn(c, "done") /\ task[c] \in Searching /\ task[c].pc = "insert"
         /\ map' = [map EXCEPT ![task[c].daemon][task[c].at] = task[c].result]
<1>1. task[c] \in Tasks  BY DEF DispatchTypes
<1>2. task[c] \in Searching /\ task[c].pc = "insert"  BY <1>1, Places DEF Dis!Insert, Dis!At
<1>3. task[c] \notin Idle /\ task[c] \notin Restarting  BY <1>1, <1>2, Places
<1>4. MovesOn(c, "done")  BY <1>2, <1>3, GotoKeeps DEF Dis!Insert, MovesOn
<1>5. task[c].daemon \in Dis!Daemons /\ task[c].at \in 0 .. MaxLines /\ task[c].result \in Nat
  BY <1>2 DEF Searching
<1>6. map' \in [Dis!Daemons -> [0 .. MaxLines -> Nat]]  BY <1>5 DEF Dis!Insert, DispatchTypes
<1>7. DispatchTypes'  BY <1>4, <1>6 DEF DispatchTypes, Dis!Insert, MovesOn
<1> QED  BY <1>2, <1>4, <1>7 DEF Dis!Insert

LEMMA EndMoves ==
  ASSUME DispatchTypes, NEW c \in Conns, Dis!Return(c) \/ Dis!Fail(c)
  PROVE  /\ DispatchTypes' /\ MovesOn(c, task'[c].pc) /\ task'[c].pc \in {"done", "reply"}
         /\ task[c].pc \in {"call", "compute", "done"}
<1>1. task[c] \in Tasks  BY DEF DispatchTypes
<1>2. PICK pc \in {"done", "reply"} : Dis!Goto(c, pc)  BY DEF Dis!Return, Dis!Fail
<1>3. task[c].pc \in {"call", "compute", "done"}  BY DEF Dis!Return, Dis!Fail, Dis!Running, Dis!At
<1>4. task[c] \notin Idle /\ task[c] \notin Restarting  BY <1>1, <1>3, Places
<1>5. task'[c].pc = pc  BY <1>2, <1>4, GotoKeeps
<1>6. MovesOn(c, pc)
  <2>1. task[c] \in Called \union Committed \union Searching \union RestartDone
    BY <1>1, <1>4 DEF Tasks
  <2> QED  BY <1>2, <1>4, <2>1, GotoKeeps DEF MovesOn
<1>7. DispatchTypes'  BY <1>6 DEF DispatchTypes, Dis!Return, Dis!Fail, MovesOn
<1> QED  BY <1>3, <1>5, <1>6, <1>7

LEMMA TakeLockMoves ==
  ASSUME DispatchTypes, NEW c \in Conns, Dis!TakeLock(c)
  PROVE  DispatchTypes'
BY DEF DispatchTypes, Dis!TakeLock

-----------------------------------------------------------------------------
(* Types, and the count of the generations.                                *)

LEMMA GenBound ==
  ASSUME Dis!DispatchAssumption, DispatchTypes, GensCounted, NEW d \in Dis!Daemons
  PROVE  gens[d] <= MaxLines
<1>1. Cardinality(Busy) \in Nat  BY FS_CardinalityType DEF GensCounted
<1> QED  BY <1>1 DEF GensCounted, DispatchTypes, Dis!DispatchAssumption

LEMMA DispatchTypesStep ==
  ASSUME Dis!DispatchAssumption, DispatchTypes, GensCounted, [Dis!Next]_Dis!vars
  PROVE  DispatchTypes'
<1>1. ASSUME NEW c \in Conns, Dis!LookUp(c) PROVE DispatchTypes'
  <2>1. task[c].daemon \in Dis!Daemons  BY Places DEF DispatchTypes
  <2> QED  BY <1>1, <2>1, GenBound, LookUpMoves
<1>2. CASE UNCHANGED Dis!vars  BY <1>2 DEF DispatchTypes, Dis!vars
<1> QED  BY <1>1, <1>2, ReadMoves, ReplyMoves, CommitMoves, ComputeMoves, BuildMoves, SwapMoves,
            BumpMoves, InsertMoves, EndMoves, TakeLockMoves DEF Dis!Next, Dis!Handle

\* A call that ends, or goes on, makes no connection busy.
LEMMA FewerBusy ==
  ASSUME DispatchTypes, GensCounted, Busy' \subseteq Busy, UNCHANGED <<gens, lines>>
  PROVE  GensCounted'
<1>1. IsFiniteSet(Busy') /\ Cardinality(Busy') <= Cardinality(Busy)
  BY FS_Subset DEF GensCounted
<1>2. Cardinality(Busy) \in Nat /\ Cardinality(Busy') \in Nat
  BY <1>1, FS_CardinalityType DEF GensCounted
<1>3. ASSUME NEW d \in Dis!Daemons PROVE gens'[d] + Cardinality(Busy') <= lines'
  <2>1. gens'[d] = gens[d] /\ gens[d] \in Nat /\ lines' = lines /\ lines \in Int
    BY DEF DispatchTypes
  <2>2. gens[d] + Cardinality(Busy) <= lines  BY DEF GensCounted
  <2> QED  BY <1>1, <1>2, <2>1, <2>2
<1> QED  BY <1>1, <1>3 DEF GensCounted

LEMMA GensStep ==
  ASSUME Dis!DispatchAssumption, DispatchTypes, GensCounted, [Dis!Next]_Dis!vars
  PROVE  GensCounted'
<1> USE DEF OthersKept
<1>1. Cardinality(Busy) \in Nat /\ IsFiniteSet(Busy)
  BY FS_CardinalityType DEF GensCounted
<1>2. ASSUME NEW c \in Conns, Dis!Read(c) PROVE GensCounted'
  <2>1. /\ task[c].pc = "read" /\ task'[c].pc = "call"
        /\ \A b \in Conns \ {c} : task'[b] = task[b]
    BY <1>2, ReadMoves, Places DEF DispatchTypes
  <2>2. c \notin Busy /\ Busy' = Busy \union {c}  BY <2>1 DEF Busy
  <2>3. IsFiniteSet(Busy') /\ Cardinality(Busy') = Cardinality(Busy) + 1
    BY <1>1, <2>2, FS_AddElement
  <2>4. gens' = gens /\ lines' = lines + 1  BY <1>2 DEF Dis!Read
  <2>5. ASSUME NEW d \in Dis!Daemons PROVE gens'[d] + Cardinality(Busy') <= lines'
    <3>1. gens[d] + Cardinality(Busy) <= lines /\ gens[d] \in Nat /\ lines \in Int
      BY DEF GensCounted, DispatchTypes
    <3> QED  BY <1>1, <2>3, <2>4, <3>1
  <2> QED  BY <2>3, <2>5 DEF GensCounted
<1>3. ASSUME NEW c \in Conns, Dis!Bump(c) PROVE GensCounted'
  <2>1. /\ task[c].pc = "bump" /\ task'[c].pc = "done" /\ task[c].daemon \in Dis!Daemons
        /\ \A b \in Conns \ {c} : task'[b] = task[b]
    BY <1>3, BumpMoves, Places DEF DispatchTypes, MovesOn
  <2>2. c \in Busy /\ Busy' = Busy \ {c}  BY <2>1 DEF Busy
  <2>3. IsFiniteSet(Busy') /\ Cardinality(Busy') = Cardinality(Busy) - 1
    BY <1>1, <2>2, FS_RemoveElement
  <2>4. gens' = [gens EXCEPT ![task[c].daemon] = @ + 1] /\ lines' = lines  BY <1>3 DEF Dis!Bump
  <2>5. ASSUME NEW d \in Dis!Daemons PROVE gens'[d] + Cardinality(Busy') <= lines'
    <3>1. gens[d] + Cardinality(Busy) <= lines /\ gens[d] \in Nat /\ lines \in Int
      BY DEF GensCounted, DispatchTypes
    <3>2. gens'[d] <= gens[d] + 1 /\ gens'[d] \in Nat  BY <2>1, <2>4, <3>1 DEF DispatchTypes
    <3> QED  BY <1>1, <2>3, <2>4, <3>1, <3>2
  <2> QED  BY <2>3, <2>5 DEF GensCounted
<1>4. ASSUME NEW c \in Conns, Dis!Handle(c), ~Dis!Bump(c)
      PROVE  Busy' \subseteq Busy /\ UNCHANGED <<gens, lines>>
  <2>1. UNCHANGED <<gens, lines>>
    BY <1>4 DEF Dis!Handle, Dis!TakeLock, Dis!Return, Dis!Reply, Dis!Fail, Dis!Commit, Dis!LookUp,
                Dis!Compute, Dis!Insert, Dis!Build, Dis!Swap
  <2>2. CASE Dis!TakeLock(c)  BY <2>1, <2>2 DEF Dis!TakeLock, Busy
  <2>3. CASE Dis!Return(c) \/ Dis!Fail(c)
    BY <2>1, <2>3, EndMoves DEF Busy, MovesOn
  <2>4. CASE Dis!Reply(c)
    <3>1. task'[c] \in Idle /\ DispatchTypes'  BY <2>4, ReplyMoves
    <3>2. task'[c].pc = "read"  BY <3>1 DEF Idle
    <3> QED  BY <2>1, <2>4, <3>2, ReplyMoves DEF Busy
  <2>5. CASE Dis!Commit(c)  BY <2>1, <2>5, CommitMoves DEF Busy
  <2>6. CASE Dis!LookUp(c)
    <3>1. task[c].daemon \in Dis!Daemons  BY Places DEF DispatchTypes
    <3> QED  BY <2>1, <2>6, <3>1, GenBound, LookUpMoves DEF Busy
  <2>7. CASE Dis!Compute(c)  BY <2>1, <2>7, ComputeMoves DEF Busy
  <2>8. CASE Dis!Insert(c)  BY <2>1, <2>8, InsertMoves DEF Busy, MovesOn
  <2>9. CASE Dis!Build(c)  BY <2>1, <2>9, BuildMoves DEF Busy
  <2>10. CASE Dis!Swap(c)
    <3>1. task[c].pc = "swap"  BY <2>10 DEF Dis!Swap, Dis!At
    <3> QED  BY <2>1, <2>10, <3>1, SwapMoves DEF Busy
  <2> QED  BY <1>4, <2>2, <2>3, <2>4, <2>5, <2>6, <2>7, <2>8, <2>9, <2>10 DEF Dis!Handle
<1>5. CASE UNCHANGED Dis!vars
  <2>1. Busy' \subseteq Busy /\ UNCHANGED <<gens, lines>>  BY <1>5 DEF Dis!vars, Busy
  <2> QED  BY <2>1, FewerBusy
<1> QED  BY <1>2, <1>3, <1>4, <1>5, FewerBusy DEF Dis!Next

-----------------------------------------------------------------------------
(* The slot: no answered restart is taken back.                            *)

\* A step that neither builds, swaps nor retires.
LEMMA SlotKept ==
  ASSUME DispatchTypes, DispatchTypes', SlotInv, UNCHANGED <<current, built, retired>>,
         \A c \in Conns : /\ task'[c].daemon \in {task[c].daemon, current}
                          /\ task'[c] \in RestartDone =>
                               task[c] \in RestartDone /\ task'[c].daemon = task[c].daemon
                          /\ task'[c] \in Restarting => task'[c] = task[c]
  PROVE  SlotInv'
<1> USE DEF SlotInv
<1>1. current' <= built' /\ current' \notin retired' /\ \A d \in retired' : d <= built'  OBVIOUS
<1>2. ASSUME NEW c \in Conns
      PROVE  /\ task'[c].daemon <= built'
             /\ task'[c] \in RestartDone => current' # task'[c].daemon
  OBVIOUS
<1>3. ASSUME NEW c \in Conns, task'[c] \in Restarting
      PROVE  /\ task'[c].new <= built'
             /\ task'[c].new \notin retired' \union {current'}
             /\ \A b \in Conns :
                  /\ task'[b].daemon # task'[c].new
                  /\ task'[b] \in Restarting /\ b # c => task'[b].new # task'[c].new
  <2>1. task'[c] = task[c] /\ task[c] \in Restarting  BY <1>3
  <2>2. task[c].new <= built /\ task[c].new \notin retired \union {current}  BY <2>1
  <2>3. ASSUME NEW b \in Conns
        PROVE  /\ task'[b].daemon # task'[c].new
               /\ task'[b] \in Restarting /\ b # c => task'[b].new # task'[c].new
    BY <2>1, <2>2
  <2> QED  BY <2>1, <2>2, <2>3
<1> QED  BY <1>1, <1>2, <1>3

LEMMA SlotStep ==
  ASSUME Dis!DispatchAssumption, DispatchTypes, GensCounted, SlotInv, [Dis!Next]_Dis!vars
  PROVE  SlotInv'
<1> USE DEF OthersKept
<1>1. DispatchTypes'  BY DispatchTypesStep
<1>2. \A c \in Conns : task[c] \in Tasks /\ task'[c] \in Tasks  BY <1>1 DEF DispatchTypes
<1>3. ASSUME NEW c \in Conns, Dis!Read(c) PROVE SlotInv'
  <2>1. UNCHANGED <<current, built, retired>>  BY <1>3 DEF Dis!Read
  <2>2. task'[c] \notin RestartDone /\ task'[c] \notin Restarting  BY <1>2, <1>3, ReadMoves, Shapes
  <2> QED  BY <1>1, <1>3, <2>1, <2>2, ReadMoves, SlotKept
<1>4. ASSUME NEW c \in Conns, Dis!Reply(c) PROVE SlotInv'
  <2>1. task'[c] \notin RestartDone /\ task'[c] \notin Restarting
    <3>1. task'[c] \in Idle  BY <1>4, ReplyMoves
    <3> QED  BY <1>2, <3>1, Fields, Places, DOMAIN task'[c] = {"pc", "daemon"}
  <2>2. CASE retired' = retired
    <3>1. UNCHANGED <<current, built, retired>>  BY <1>4, <2>2 DEF Dis!Reply
    <3> QED  BY <1>1, <1>4, <2>1, <3>1, ReplyMoves, SlotKept
  <2>3. CASE retired' # retired
    <3>1. task[c] \in RestartDone /\ retired' = retired \union {task[c].daemon}
      BY <1>4, <2>3, ReplyMoves
    <3>2. current # task[c].daemon /\ task[c].daemon <= built  BY <3>1 DEF SlotInv
    <3>3. UNCHANGED <<current, built>>  BY <1>4 DEF Dis!Reply
    <3>4. \A b \in Conns : task'[b].daemon = task[b].daemon
      BY <1>4, ReplyMoves
    <3>5. \A b \in Conns : task'[b] \in RestartDone \union Restarting => task'[b] = task[b]
      BY <1>4, <2>1, ReplyMoves
    <3>6. \A b \in Conns : task'[b] \in Restarting =>
            task'[b].new # task[c].daemon
      BY <3>5 DEF SlotInv
    <3> QED  BY <3>1, <3>2, <3>3, <3>4, <3>5, <3>6 DEF SlotInv
  <2> QED  BY <2>2, <2>3
<1>5. ASSUME NEW c \in Conns, Dis!Build(c) PROVE SlotInv'
  <2>1. /\ built' = built + 1 /\ UNCHANGED <<current, retired>>
        /\ task'[c] \in Restarting /\ task'[c].new = built' /\ task'[c].daemon = task[c].daemon
        /\ \A b \in Conns \ {c} : task'[b] = task[b]
    BY <1>5, BuildMoves DEF Dis!Build
  <2>2. task'[c] \notin RestartDone  BY <1>2, <2>1, Shapes
  <2>3. built \in Nat /\ current \in Nat /\ retired \subseteq Nat  BY DEF DispatchTypes, Dis!Daemons
  <2>4. \A b \in Conns : task[b].daemon \in Nat  BY <1>2, Places DEF Dis!Daemons
  <2>5. \A b \in Conns : task[b] \in Restarting => task[b].new \in Nat
    BY DEF Restarting, Dis!Daemons
  <2>6. current' <= built' /\ current' \notin retired' /\ \A d \in retired' : d <= built'
    BY <2>1, <2>3 DEF SlotInv
  <2>7. ASSUME NEW b \in Conns
        PROVE  /\ task'[b].daemon <= built'
               /\ task'[b] \in RestartDone => current' # task'[b].daemon
    BY <2>1, <2>2, <2>3, <2>4 DEF SlotInv
  <2>8. ASSUME NEW b \in Conns, task'[b] \in Restarting
        PROVE  /\ task'[b].new <= built'
               /\ task'[b].new \notin retired' \union {current'}
               /\ \A a \in Conns :
                    /\ task'[a].daemon # task'[b].new
                    /\ task'[a] \in Restarting /\ a # b => task'[a].new # task'[b].new
    <3>1. CASE b = c
      <4>1. built' \notin retired' \union {current'}  BY <2>1, <2>3 DEF SlotInv
      <4>2. ASSUME NEW a \in Conns PROVE task'[a].daemon # built'
        BY <2>1, <2>3, <2>4 DEF SlotInv
      <4>3. ASSUME NEW a \in Conns, task'[a] \in Restarting, a # c PROVE task'[a].new # built'
        BY <2>1, <2>3, <2>5, <4>3 DEF SlotInv
      <4> QED  BY <2>1, <2>3, <3>1, <4>1, <4>2, <4>3
    <3>2. CASE b # c
      <4>1. task'[b] = task[b] /\ task[b] \in Restarting  BY <2>1, <2>8, <3>2
      <4>2. task[b].new <= built /\ task[b].new \in Nat  BY <2>5, <4>1 DEF SlotInv
      <4> QED  BY <2>1, <2>3, <4>1, <4>2 DEF SlotInv
    <3> QED  BY <3>1, <3>2
  <2> QED  BY <2>6, <2>7, <2>8 DEF SlotInv
<1>6. ASSUME NEW c \in Conns, Dis!Swap(c) PROVE SlotInv'
  <2>1. /\ task[c] \in Restarting /\ current' = task[c].new /\ UNCHANGED <<built, retired>>
        /\ task'[c] \in RestartDone /\ task'[c].daemon = task[c].daemon
        /\ \A b \in Conns \ {c} : task'[b] = task[b]
    BY <1>6, SwapMoves DEF Dis!Swap
  <2>2. task'[c] \notin Restarting  BY <1>2, <2>1, Shapes
  <2> QED  BY <2>1, <2>2 DEF SlotInv
<1>7. ASSUME NEW c \in Conns, Dis!Handle(c), ~Dis!Reply(c), ~Dis!Build(c), ~Dis!Swap(c)
      PROVE  SlotInv'
  <2>1. UNCHANGED <<current, built, retired>>
    BY <1>7 DEF Dis!Handle, Dis!TakeLock, Dis!Return, Dis!Fail, Dis!Commit, Dis!Bump, Dis!LookUp,
                Dis!Compute, Dis!Insert
  <2>2. \A b \in Conns : /\ task'[b].daemon = task[b].daemon
                         /\ task'[b] \in RestartDone => task[b] \in RestartDone
                         /\ task'[b] \in Restarting => task'[b] = task[b]
    <3>1. CASE Dis!TakeLock(c)  BY <3>1 DEF Dis!TakeLock
    <3>2. CASE \E pc \in {"done", "reply"} : MovesOn(c, pc)
      <4>1. task'[c].pc \in {"done", "reply"}  BY <3>2 DEF MovesOn
      <4>2. task'[c] \notin Restarting  BY <1>2, <4>1, Places
      <4>3. task'[c] \in RestartDone => task[c] \in RestartDone
        BY <1>2, <3>2, Shapes DEF MovesOn
      <4> QED  BY <3>2, <4>2, <4>3 DEF MovesOn
    <3>3. CASE Dis!Commit(c) \/ Dis!LookUp(c) \/ Dis!Compute(c)
      <4>1. task[c].daemon \in Dis!Daemons  BY <1>2, Places
      <4>2. /\ task'[c] \in Committed \union Searching /\ task'[c].daemon = task[c].daemon
            /\ \A b \in Conns \ {c} : task'[b] = task[b]
        BY <3>3, <4>1, GenBound, CommitMoves, LookUpMoves, ComputeMoves
      <4>3. task'[c] \notin RestartDone /\ task'[c] \notin Restarting  BY <1>2, <4>2, Shapes
      <4> QED  BY <4>2, <4>3
    <3>4. Dis!Return(c) \/ Dis!Fail(c) \/ Dis!Bump(c) \/ Dis!Insert(c)
          => \E pc \in {"done", "reply"} : MovesOn(c, pc)
      BY EndMoves, BumpMoves, InsertMoves
    <3> QED  BY <1>7, <3>1, <3>2, <3>3, <3>4 DEF Dis!Handle
  <2> QED  BY <1>1, <2>1, <2>2, SlotKept
<1>8. CASE UNCHANGED Dis!vars
  <2>1. UNCHANGED <<current, built, retired, task>>  BY <1>8 DEF Dis!vars
  <2> QED  BY <1>1, <2>1, SlotKept
<1> QED  BY <1>3, <1>4, <1>5, <1>6, <1>7, <1>8 DEF Dis!Next, Dis!Handle

-----------------------------------------------------------------------------
(* The caches: what a search shows.                                        *)

CacheInv == Filed /\ CurrentShows /\ SlotShows /\ SearchShows /\ Committing

\* What a task may come to in a step that touches no generation and no cache.
ResultKept(b) ==
  /\ task[b] \in Searching
  /\ task'[b].daemon = task[b].daemon /\ task'[b].at = task[b].at
  /\ task'[b].result = task[b].result
ResultFound(b) ==
  LET d == task[b].daemon  at == task'[b].at IN
  /\ task'[b].daemon = d /\ at <= gens[d]
  /\ \/ task'[b].result = commits
     \/ at = gens[d] /\ task'[b].result = map[d][at]
BeforeKept(b) == Before(b)' \subseteq Before(b) /\ task'[b].daemon = task[b].daemon
BeforeRead(b) ==
  Before(b)' \subseteq told /\ task'[b].daemon = current' /\ current' = current
  /\ task'[b] \notin Searching
EffectKept(b) ==
  /\ task[b] \in Committed /\ task'[b].effect = task[b].effect
  /\ task'[b].daemon = task[b].daemon
  /\ task'[b].pc # "bump" => task[b].pc # "bump"
EffectNew(b) ==
  /\ task'[b].pc = "bump" /\ task'[b].effect.commit <= commits'
  /\ task'[b].effect.late \/ task'[b].effect.daemon = current'
  /\ task'[b].effect.daemon = task'[b].daemon

QuietTask(b) ==
  /\ task'[b] \in Searching => ResultKept(b) \/ ResultFound(b)
  /\ Before(b)' # {} => BeforeKept(b) \/ BeforeRead(b)
  /\ task'[b] \in Committed => EffectKept(b) \/ EffectNew(b)

Still ==
  /\ UNCHANGED <<gens, map>>
  /\ commits \in Nat /\ commits' \in Nat /\ commits <= commits'
  /\ told \subseteq told' /\ told' \subseteq Bumped
  /\ current' = current \/ \A e \in Effects : SeenOn(e, current')
  /\ \A d \in Dis!Daemons : Waiting(d)' => Waiting(d)
  /\ \A b \in Conns : QuietTask(b)

LEMMA SomeEffects ==
  ASSUME DispatchTypes
  PROVE  Bumped \subseteq Effects /\ Pending \subseteq Effects /\ Bumped \subseteq told \union Pending
BY DEF DispatchTypes, Bumped, Pending, Committed

\* In a quiet step, what was shown is.
LEMMA QuietSeen ==
  ASSUME DispatchTypes, DispatchTypes', CacheInv, Still,
         NEW e \in Effects, e.commit <= commits, NEW d \in Dis!Daemons, SeenOn(e, d)
  PROVE  SeenOn(e, d)'
<1>1. \A g \in 0 .. MaxLines : map'[d][g] # Dis!NotCached => e.commit <= map'[d][g]
  BY DEF SeenOn, Still
<1>2. ASSUME NEW c \in Conns, HasResult(c)', task'[c].daemon = d
      PROVE  e.commit <= task'[c].result
  <2>1. task'[c] \in Searching /\ task'[c].result # Dis!NotCached /\ task'[c].at \in 0 .. MaxLines
    BY <1>2 DEF HasResult, Searching
  <2>2. CASE ResultKept(c)  BY <1>2, <2>1, <2>2 DEF ResultKept, HasResult, SeenOn
  <2>3. CASE ResultFound(c)  BY <1>2, <2>1, <2>3 DEF ResultFound, SeenOn
  <2> QED  BY <2>1, <2>2, <2>3 DEF Still, QuietTask
<1> QED  BY <1>1, <1>2 DEF SeenOn

LEMMA StillStep ==
  ASSUME DispatchTypes, DispatchTypes', CacheInv, Still
  PROVE  CacheInv'
<1> USE DEF CacheInv
<1>1. /\ Bumped \subseteq Effects /\ Pending \subseteq Effects /\ told \subseteq Bumped
      /\ Bumped \subseteq told \union Pending
      /\ Bumped' \subseteq Effects /\ Pending' \subseteq Effects
  BY SomeEffects DEF Bumped, DispatchTypes, Pending, Committed
<1>2. Bumped' \subseteq Bumped
  <2>1. ASSUME NEW c \in Conns, task'[c] \in Committed, task'[c].pc # "bump"
        PROVE  task'[c].effect \in Bumped
    <3>1. EffectKept(c)  BY <2>1 DEF Still, QuietTask, EffectNew
    <3> QED  BY <2>1, <3>1 DEF EffectKept, Bumped
  <2> QED  BY <2>1 DEF Bumped, Still
<1>3. ASSUME NEW e \in told' \union Pending', e \notin told \union Pending
      PROVE  e.commit <= commits' /\ (e.late \/ e.daemon = current')
  <2>1. PICK c \in Conns : task'[c] \in Committed /\ e = task'[c].effect
    BY <1>1, <1>3 DEF Pending, Still
  <2>2. ~EffectKept(c)  BY <1>3, <2>1 DEF EffectKept, Pending
  <2> QED  BY <2>1, <2>2 DEF Still, QuietTask, EffectNew
<1>4. Committing'
  <2>1. ASSUME NEW e \in told \union Pending PROVE e.commit <= commits'
    <3>1. e.commit \in Nat /\ e.commit <= commits
      BY <1>1 DEF Committing, Effects, DispatchTypes
    <3> QED  BY <3>1 DEF Still
  <2>2. \A c \in Conns : task'[c] \in Committed => task'[c].effect.daemon = task'[c].daemon
    BY DEF Still, QuietTask, EffectKept, EffectNew, Committing
  <2> QED  BY <1>3, <2>1, <2>2 DEF Committing
<1>5. Filed'
  <2>1. ASSUME NEW c \in Conns, task'[c] \in Searching
        PROVE  task'[c].at <= gens'[task'[c].daemon]
    BY <2>1 DEF Still, QuietTask, ResultKept, ResultFound, Filed
  <2> QED  BY <2>1 DEF Filed, Still
<1>6. CurrentShows'
  <2> SUFFICES ASSUME NEW e \in Bumped'
               PROVE  /\ gens'[e.daemon] <= MaxLines
                           /\ map'[e.daemon][gens'[e.daemon]] # Dis!NotCached
                           => e.commit <= map'[e.daemon][gens'[e.daemon]]
                      /\ \A c \in Conns :
                           HasResult(c)' /\ task'[c].daemon = e.daemon
                             /\ task'[c].at = gens'[e.daemon] => e.commit <= task'[c].result
    BY DEF CurrentShows
  <2>1. e \in Bumped /\ e.commit <= commits  BY <1>1, <1>2 DEF Committing
  <2>2. gens'[e.daemon] <= MaxLines
                           /\ map'[e.daemon][gens'[e.daemon]] # Dis!NotCached
          => e.commit <= map'[e.daemon][gens'[e.daemon]]
    BY <2>1 DEF CurrentShows, Still
  <2>3. ASSUME NEW c \in Conns, HasResult(c)', task'[c].daemon = e.daemon,
               task'[c].at = gens'[e.daemon]
        PROVE  e.commit <= task'[c].result
    <3>1. task'[c] \in Searching /\ task'[c].result # Dis!NotCached /\ task'[c].at \in 0 .. MaxLines
      BY <2>3 DEF HasResult, Searching
    <3>2. CASE ResultKept(c)
      <4>1. HasResult(c) /\ task[c].daemon = e.daemon /\ task[c].at = gens[e.daemon]
        BY <2>3, <3>1, <3>2 DEF ResultKept, HasResult, Still
      <4> QED  BY <2>1, <3>2, <4>1 DEF CurrentShows, ResultKept
    <3>3. CASE ResultFound(c)
      <4>1. \/ task'[c].result = commits
            \/ /\ gens[e.daemon] <= MaxLines
               /\ task'[c].result = map[e.daemon][gens[e.daemon]]
        BY <2>3, <3>1, <3>3 DEF ResultFound
      <4> QED  BY <2>1, <3>1, <4>1 DEF CurrentShows
    <3> QED  BY <3>1, <3>2, <3>3 DEF Still, QuietTask
  <2> QED  BY <2>2, <2>3
<1>7. SlotShows'
  <2> SUFFICES ASSUME NEW e \in told' \union Pending', ~e.late, e.daemon # current'
               PROVE  SeenOn(e, current)'
    BY DEF SlotShows
  <2>1. e \in told \union Pending /\ e \in Effects /\ e.commit <= commits
    BY <1>1, <1>3 DEF Committing
  <2>2. PICK s \in Dis!Daemons : s = current'  BY DEF DispatchTypes
  <2>3. SeenOn(e, s)  BY <2>1, <2>2 DEF Still, SlotShows
  <2>4. SeenOn(e, s)'  BY <2>1, <2>3, QuietSeen
  <2> QED  BY <2>2, <2>4 DEF SeenOn
<1>8. SearchShows'
  <2> SUFFICES ASSUME NEW c \in Conns, NEW e \in Before(c)'
               PROVE  /\ e \in told'
                      /\ e.daemon = task'[c].daemon /\ HasResult(c)' => e.commit <= task'[c].result
                      /\ e.daemon # task'[c].daemon /\ ~e.late => SeenOn(e, task[c].daemon)'
    BY DEF SearchShows
  <2>1. e \in told /\ e \in told'
    BY DEF Still, QuietTask, BeforeKept, BeforeRead, SearchShows
  <2>2. e \in Bumped /\ e \in Effects /\ e.commit <= commits  BY <1>1, <2>1 DEF Committing
  <2>3. ASSUME e.daemon = task'[c].daemon, HasResult(c)' PROVE e.commit <= task'[c].result
    <3>1. task'[c] \in Searching /\ task'[c].result # Dis!NotCached /\ task'[c].at \in 0 .. MaxLines
      BY <2>3 DEF HasResult, Searching
    <3>2. CASE ResultKept(c)
      <4>1. HasResult(c) /\ task'[c].daemon = task[c].daemon
        BY <3>1, <3>2 DEF ResultKept, HasResult
      <4>2. e \in Before(c)  BY <3>1 DEF Still, QuietTask, BeforeKept, BeforeRead
      <4> QED  BY <2>3, <3>2, <4>1, <4>2 DEF SearchShows, ResultKept
    <3>3. CASE ResultFound(c)
      <4>1. \/ task'[c].result = commits
            \/ /\ gens[e.daemon] <= MaxLines
               /\ task'[c].result = map[e.daemon][gens[e.daemon]]
        BY <2>3, <3>1, <3>3 DEF ResultFound
      <4> QED  BY <2>2, <3>1, <4>1 DEF CurrentShows
    <3> QED  BY <3>1, <3>2, <3>3 DEF Still, QuietTask
  <2>4. ASSUME e.daemon # task'[c].daemon, ~e.late PROVE SeenOn(e, task[c].daemon)'
    <3>1. task'[c].daemon \in Dis!Daemons  BY Places DEF DispatchTypes
    <3>2. PICK d \in Dis!Daemons : d = task'[c].daemon  BY <3>1
    <3>3. SeenOn(e, d)
      <4>1. CASE BeforeKept(c)  BY <2>4, <3>2, <4>1 DEF BeforeKept, SearchShows
      <4>2. CASE BeforeRead(c)  BY <2>1, <2>4, <3>2, <4>2 DEF BeforeRead, SlotShows
      <4> QED  BY <4>1, <4>2 DEF Still, QuietTask
    <3>4. SeenOn(e, d)'  BY <2>2, <3>3, QuietSeen
    <3> QED  BY <3>2, <3>4 DEF SeenOn
  <2> QED  BY <2>1, <2>3, <2>4
<1> QED  BY <1>4, <1>5, <1>6, <1>7, <1>8

LEMMA SameQuiet ==
  ASSUME NEW b \in Conns, task'[b] = task[b]
  PROVE  QuietTask(b)
<1>1. Before(b)' = Before(b)  BY DEF Before
<1> QED  BY <1>1 DEF QuietTask, ResultKept, BeforeKept, EffectKept

LEMMA WaitingKept ==
  ASSUME DispatchTypes, DispatchTypes', built <= built',
         \A b \in Conns : task'[b] \in Restarting =>
                            task'[b] = task[b] \/ task'[b].new > built
  PROVE  \A d \in Dis!Daemons : Waiting(d)' => Waiting(d)
<1> SUFFICES ASSUME NEW d \in Dis!Daemons, Waiting(d)' PROVE Waiting(d)
  OBVIOUS
<1>1. CASE d > built'
  <2>1. d \in Nat /\ built \in Nat /\ built' \in Nat  BY DEF DispatchTypes, Dis!Daemons
  <2> QED  BY <1>1, <2>1 DEF Waiting
<1>2. CASE \E b \in Conns : task'[b] \in Restarting /\ task'[b].new = d
  BY <1>2 DEF Waiting
<1> QED  BY <1>1, <1>2 DEF Waiting

\* A task that only moves on is quiet, except for what its action does to a
\* generation or a cache.
LEMMA MovesOnQuiet ==
  ASSUME DispatchTypes, NEW c \in Conns, NEW pc \in {"done", "reply"}, MovesOn(c, pc),
         task[c] \in Committed => task[c].pc # "bump"
  PROVE  QuietTask(c)
<1>1. task[c] \in Tasks /\ task'[c] \in Tasks  BY DEF DispatchTypes, MovesOn
<1>2. CASE task[c] \in Called
  <2>1. task'[c] \in Called /\ task'[c].before = task[c].before  BY <1>2 DEF MovesOn
  <2>2. task'[c] \notin Searching /\ task'[c] \notin Committed  BY <1>1, <2>1, Shapes
  <2>3. Before(c)' = Before(c)  BY <1>2, <2>1 DEF Before
  <2> QED  BY <2>2, <2>3 DEF QuietTask, BeforeKept, MovesOn
<1>3. CASE task[c] \in Committed
  <2>1. task'[c] \in Committed /\ task'[c].effect = task[c].effect  BY <1>3 DEF MovesOn
  <2>2. task'[c] \notin Searching /\ task'[c] \notin Called  BY <1>1, <2>1, Shapes
  <2>3. Before(c)' = {}  BY <2>2 DEF Before
  <2> QED  BY <1>3, <2>1, <2>2, <2>3 DEF QuietTask, EffectKept, MovesOn
<1>4. CASE task[c] \in Searching
  <2>1. /\ task'[c] \in Searching /\ task'[c].before = task[c].before
        /\ task'[c].at = task[c].at /\ task'[c].result = task[c].result
    BY <1>4 DEF MovesOn
  <2>2. task'[c] \notin Committed  BY <1>1, <2>1, Shapes
  <2>3. Before(c)' = Before(c)  BY <1>4, <2>1 DEF Before
  <2> QED  BY <1>4, <2>1, <2>2, <2>3 DEF QuietTask, BeforeKept, ResultKept, MovesOn
<1>5. CASE task[c] \in RestartDone
  <2>1. task'[c] \in RestartDone  BY <1>5 DEF MovesOn
  <2>2. task'[c] \notin Searching \union Called \union Committed  BY <1>1, <2>1, Shapes
  <2>3. Before(c)' = {}  BY <2>2 DEF Before
  <2> QED  BY <2>2, <2>3 DEF QuietTask
<1> QED  BY <1>2, <1>3, <1>4, <1>5 DEF MovesOn

LEMMA QuietActions ==
  ASSUME Dis!DispatchAssumption, DispatchTypes, GensCounted, SlotInv, CacheInv,
         NEW c \in Conns, Dis!Read(c) \/ Dis!Handle(c), ~Dis!Bump(c), ~Dis!Insert(c)
  PROVE  Still
<1> USE DEF OthersKept
<1>1. DispatchTypes'  BY DispatchTypesStep DEF Dis!Next
<1>2. task[c] \in Tasks /\ task'[c] \in Tasks /\ task[c].daemon \in Dis!Daemons
  BY <1>1, Places DEF DispatchTypes
<1>3. told \subseteq Bumped  BY DEF Bumped
<1>4. commits \in Nat /\ built \in Nat  BY DEF DispatchTypes, Dis!Daemons
<1>5. CASE Dis!Read(c)
  <2>1. task'[c] \in Called /\ task'[c].before \subseteq told /\ task'[c].daemon = current
    BY <1>5, ReadMoves
  <2>2. task'[c] \notin Committed \union Searching \union Restarting  BY <1>2, <2>1, Shapes
  <2>3. Before(c)' \subseteq told  BY <2>1 DEF Before
  <2>4. current' = current  BY <1>5 DEF Dis!Read
  <2>5. QuietTask(c)  BY <2>1, <2>2, <2>3, <2>4 DEF QuietTask, BeforeRead
  <2>6. \A b \in Conns : QuietTask(b)  BY <1>5, <2>5, ReadMoves, SameQuiet
  <2>7. built <= built'  BY <1>4, <1>5 DEF Dis!Read
  <2>8. \A d \in Dis!Daemons : Waiting(d)' => Waiting(d)
    BY <1>1, <1>5, <2>2, <2>7, ReadMoves, WaitingKept
  <2> QED  BY <1>3, <1>4, <1>5, <2>6, <2>8 DEF Still, Dis!Read
<1>6. CASE Dis!TakeLock(c)
  <2>1. UNCHANGED <<current, built, task, commits, gens, map, told>>  BY <1>6 DEF Dis!TakeLock
  <2>2. \A b \in Conns : QuietTask(b)  BY <2>1, SameQuiet
  <2>3. \A d \in Dis!Daemons : Waiting(d)' => Waiting(d)  BY <2>1 DEF Waiting
  <2> QED  BY <1>3, <1>4, <2>1, <2>2, <2>3 DEF Still
<1>7. CASE Dis!Return(c) \/ Dis!Fail(c)
  <2>1. UNCHANGED <<current, built, commits, gens, map, told>>  BY <1>7 DEF Dis!Return, Dis!Fail
  <2>2. MovesOn(c, task'[c].pc) /\ task'[c].pc \in {"done", "reply"} /\ task[c].pc # "bump"
    BY <1>7, EndMoves
  <2>3. QuietTask(c)  BY <2>2, MovesOnQuiet
  <2>4. \A b \in Conns : QuietTask(b)  BY <2>2, <2>3, SameQuiet DEF MovesOn
  <2>5. task'[c] \notin Restarting  BY <1>2, <2>2, Places
  <2>6. \A d \in Dis!Daemons : Waiting(d)' => Waiting(d)
    BY <1>1, <1>4, <2>1, <2>2, <2>5, WaitingKept DEF MovesOn
  <2> QED  BY <1>3, <1>4, <2>1, <2>4, <2>6 DEF Still
<1>8. CASE Dis!Reply(c)
  <2>1. UNCHANGED <<current, built, commits, gens, map>>  BY <1>8 DEF Dis!Reply
  <2>2. task'[c] \in Idle  BY <1>8, ReplyMoves
  <2>3. DOMAIN task'[c] = {"pc", "daemon"}  BY <1>2, <2>2, Fields
  <2>4. task'[c] \notin Called \union Committed \union Searching \union Restarting
    BY <1>2, <2>2, <2>3, Fields
  <2>5. Before(c)' = {}  BY <2>4 DEF Before
  <2>6. QuietTask(c)  BY <2>4, <2>5 DEF QuietTask
  <2>7. \A b \in Conns : QuietTask(b)  BY <1>8, <2>6, ReplyMoves, SameQuiet
  <2>8. \A d \in Dis!Daemons : Waiting(d)' => Waiting(d)
    BY <1>1, <1>4, <1>8, <2>1, <2>4, ReplyMoves, WaitingKept
  <2>9. task[c].pc = "reply"  BY <1>8 DEF Dis!Reply, Dis!At
  <2>10. told \subseteq told' /\ told' \subseteq Bumped
    BY <1>3, <1>8, <2>9, ReplyMoves DEF Bumped
  <2> QED  BY <1>4, <2>1, <2>7, <2>8, <2>10 DEF Still
<1>9. CASE Dis!Commit(c)
  <2>1. UNCHANGED <<current, built, gens, map, told>>  BY <1>9 DEF Dis!Commit
  <2>2. /\ commits' = commits + 1 /\ task'[c] \in Committed /\ task'[c].pc = "bump"
        /\ task'[c].daemon = task[c].daemon
        /\ task'[c].effect.commit = commits' /\ task'[c].effect.daemon = task[c].daemon
        /\ task'[c].effect.late <=> current # task[c].daemon
    BY <1>9, CommitMoves
  <2>3. task'[c] \notin Searching \union Called \union Restarting  BY <1>2, <2>2, Shapes
  <2>4. Before(c)' = {}  BY <2>3 DEF Before
  <2>5. commits <= commits' /\ commits' \in Nat /\ commits' <= commits'  BY <1>4, <2>2
  <2>6. EffectNew(c)  BY <2>1, <2>2, <2>5 DEF EffectNew
  <2>7. QuietTask(c)  BY <2>3, <2>4, <2>6 DEF QuietTask
  <2>8. \A b \in Conns : QuietTask(b)  BY <1>9, <2>7, CommitMoves, SameQuiet
  <2>9. \A d \in Dis!Daemons : Waiting(d)' => Waiting(d)
    BY <1>1, <1>4, <1>9, <2>1, <2>3, CommitMoves, WaitingKept
  <2> QED  BY <1>3, <1>4, <2>1, <2>5, <2>8, <2>9 DEF Still
<1>10. CASE Dis!LookUp(c) \/ Dis!Compute(c)
  <2>1. UNCHANGED <<current, built, commits, gens, map, told>>  BY <1>10 DEF Dis!LookUp, Dis!Compute
  <2>2. gens[task[c].daemon] \in Nat /\ gens[task[c].daemon] <= MaxLines
    BY <1>2, GenBound DEF DispatchTypes
  <2>3. /\ task'[c] \in Searching /\ ResultFound(c) /\ task'[c].before = task[c].before
        /\ \A b \in Conns \ {c} : task'[b] = task[b]
        /\ task[c] \in Called \union Searching
    <3>1. CASE Dis!LookUp(c)  BY <2>2, <3>1, LookUpMoves DEF ResultFound
    <3>2. CASE Dis!Compute(c)
      <4>1. task[c] \in Searching /\ task[c].at <= gens[task[c].daemon]
        BY <3>2, ComputeMoves DEF CacheInv, Filed
      <4> QED  BY <3>2, <4>1, ComputeMoves DEF ResultFound
    <3> QED  BY <1>10, <3>1, <3>2
  <2>4. task'[c] \notin Committed \union Restarting  BY <1>2, <2>3, Shapes
  <2>5. Before(c)' = Before(c) /\ task'[c].daemon = task[c].daemon
    BY <2>3 DEF Before, ResultFound
  <2>6. QuietTask(c)  BY <2>3, <2>4, <2>5 DEF QuietTask, BeforeKept
  <2>7. \A b \in Conns : QuietTask(b)  BY <2>3, <2>6, SameQuiet
  <2>8. \A d \in Dis!Daemons : Waiting(d)' => Waiting(d)
    BY <1>1, <1>4, <2>1, <2>3, <2>4, WaitingKept
  <2> QED  BY <1>3, <1>4, <2>1, <2>7, <2>8 DEF Still
<1>11. CASE Dis!Build(c)
  <2>1. UNCHANGED <<current, commits, gens, map, told>>  BY <1>11 DEF Dis!Build
  <2>2. task'[c] \in Restarting /\ task'[c].new = built' /\ built' = built + 1
    BY <1>11, BuildMoves
  <2>3. task'[c] \notin Searching \union Called \union Committed  BY <1>2, <2>2, Shapes
  <2>4. Before(c)' = {}  BY <2>3 DEF Before
  <2>5. QuietTask(c)  BY <2>3, <2>4 DEF QuietTask
  <2>6. \A b \in Conns : QuietTask(b)  BY <1>11, <2>5, BuildMoves, SameQuiet
  <2>7. built <= built' /\ task'[c].new > built  BY <1>4, <2>2
  <2>8. \A d \in Dis!Daemons : Waiting(d)' => Waiting(d)
    BY <1>1, <1>11, <2>7, BuildMoves, WaitingKept
  <2> QED  BY <1>3, <1>4, <2>1, <2>6, <2>8 DEF Still
<1>12. CASE Dis!Swap(c)
  <2>1. UNCHANGED <<built, commits, gens, map, told>>  BY <1>12 DEF Dis!Swap
  <2>2. task[c] \in Restarting /\ current' = task[c].new /\ task'[c] \in RestartDone
        /\ task'[c].daemon = task[c].daemon
    BY <1>12, SwapMoves
  <2>3. task'[c] \notin Searching \union Called \union Committed \union Restarting
    <3>1. task'[c].pc # "swap"  BY <1>12, SwapMoves
    <3> QED  BY <1>2, <2>2, <3>1, Shapes, Places
  <2>4. Before(c)' = {}  BY <2>3 DEF Before
  <2>5. QuietTask(c)  BY <2>3, <2>4 DEF QuietTask
  <2>6. \A b \in Conns : QuietTask(b)  BY <1>12, <2>5, SwapMoves, SameQuiet
  <2>7. \A d \in Dis!Daemons : Waiting(d)' => Waiting(d)
    BY <1>1, <1>4, <1>12, <2>1, <2>3, SwapMoves, WaitingKept
  <2>8. Waiting(current') /\ current' \in Dis!Daemons  BY <2>2 DEF Waiting, Restarting
  <2>9. \A g \in 0 .. MaxLines : map[current'][g] = Dis!NotCached  BY <2>8 DEF CacheInv, Filed
  <2>10. \A b \in Conns : task[b].daemon # current'  BY <2>2 DEF SlotInv
  <2>11. \A e \in Effects : SeenOn(e, current')  BY <2>9, <2>10 DEF SeenOn
  <2> QED  BY <1>3, <1>4, <2>1, <2>6, <2>7, <2>11 DEF Still
<1> QED  BY <1>5, <1>6, <1>7, <1>8, <1>9, <1>10, <1>11, <1>12 DEF Dis!Handle

\* A bump starts a generation that nothing is filed under.
LEMMA BumpStep ==
  ASSUME Dis!DispatchAssumption, DispatchTypes, GensCounted, SlotInv, CacheInv,
         NEW c \in Conns, Dis!Bump(c)
  PROVE  CacheInv'
<1> USE DEF CacheInv
<1>1. DispatchTypes'  BY BumpMoves
<1>2. /\ MovesOn(c, "done") /\ task[c] \in Committed /\ task[c].pc = "bump"
      /\ UNCHANGED <<current, built, commits, map, told>>
      /\ gens' = [gens EXCEPT ![task[c].daemon] = @ + 1]
  BY BumpMoves DEF Dis!Bump
<1>3. task'[c] \in Committed /\ task'[c].effect = task[c].effect
      /\ \A b \in Conns \ {c} : task'[b] = task[b]
  BY <1>2 DEF MovesOn, OthersKept
<1>4. \A b \in Conns : task[b] \in Tasks /\ task'[b] \in Tasks /\ task[b].daemon \in Dis!Daemons
                       /\ task'[b].daemon = task[b].daemon
  BY <1>1, <1>2, Places DEF DispatchTypes, MovesOn, OthersKept
<1>5. \A b \in Conns : task'[b] \in Called \union Searching \union Restarting => task'[b] = task[b]
  BY <1>3, <1>4, Shapes
<1>6. \A b \in Conns : Before(b)' = Before(b) /\ (HasResult(b)' => HasResult(b) /\ task'[b] = task[b])
  <2>1. ASSUME NEW b \in Conns PROVE Before(b)' = Before(b)
    <3>1. CASE b = c
      <4>1. task[c] \notin Called \union Searching /\ task'[c] \notin Called \union Searching
        BY <1>2, <1>3, <1>4, Shapes
      <4> QED  BY <3>1, <4>1 DEF Before
    <3>2. CASE b # c  BY <1>3, <3>2 DEF Before
    <3> QED  BY <3>1, <3>2
  <2> QED  BY <1>5, <2>1 DEF HasResult
<1>7. Pending' = Pending  BY <1>2, <1>3 DEF Pending
<1>8. \A d \in Dis!Daemons : gens'[d] = (IF d = task[c].daemon THEN gens[d] + 1 ELSE gens[d])
                            /\ gens[d] \in Nat
  BY <1>2, <1>4 DEF DispatchTypes
<1>9. \A e \in Effects, d \in Dis!Daemons : SeenOn(e, d) => SeenOn(e, d)'
  BY <1>2, <1>6 DEF SeenOn
<1>10. Bumped \subseteq Effects /\ Bumped' \subseteq Effects /\ Pending \subseteq Effects
       /\ told \subseteq Effects
  BY <1>1, SomeEffects DEF DispatchTypes, Bumped, Committed
<1>11. Filed'
  <2>1. ASSUME NEW d \in Dis!Daemons, NEW g \in 0 .. MaxLines, g > gens'[d]
        PROVE  map'[d][g] = Dis!NotCached
    <3>1. g > gens[d]  BY <1>8, <2>1
    <3> QED  BY <1>2, <3>1 DEF Filed
  <2>2. \A d \in Dis!Daemons : Waiting(d)' => Waiting(d)  BY <1>2, <1>5 DEF Waiting
  <2>3. ASSUME NEW b \in Conns, task'[b] \in Searching PROVE task'[b].at <= gens'[task'[b].daemon]
    <3>1. task'[b] = task[b] /\ task[b].at \in Nat /\ task[b].at <= gens[task[b].daemon]
      BY <1>5, <2>3 DEF Filed, Searching
    <3> QED  BY <1>4, <1>8, <3>1
  <2> QED  BY <1>2, <2>1, <2>2, <2>3 DEF Filed
<1>12. CurrentShows'
  <2> SUFFICES ASSUME NEW e \in Bumped'
               PROVE  /\ gens'[e.daemon] <= MaxLines
                           /\ map'[e.daemon][gens'[e.daemon]] # Dis!NotCached
                           => e.commit <= map'[e.daemon][gens'[e.daemon]]
                      /\ \A b \in Conns :
                           HasResult(b)' /\ task'[b].daemon = e.daemon
                             /\ task'[b].at = gens'[e.daemon] => e.commit <= task'[b].result
    BY DEF CurrentShows
  <2>1. e \in Effects /\ e.daemon \in Dis!Daemons  BY <1>10 DEF Effects
  <2>2. CASE e.daemon = task[c].daemon
    <3>1. gens'[e.daemon] = gens[e.daemon] + 1 /\ gens[e.daemon] \in Nat  BY <1>8, <2>1, <2>2
    <3>2. gens'[e.daemon] <= MaxLines => map'[e.daemon][gens'[e.daemon]] = Dis!NotCached
      <4>1. gens'[e.daemon] <= MaxLines => gens'[e.daemon] \in 0 .. MaxLines  BY <3>1
      <4> QED  BY <1>2, <2>1, <3>1, <4>1 DEF Filed
    <3>3. ASSUME NEW b \in Conns, HasResult(b)', task'[b].daemon = e.daemon
          PROVE  task'[b].at # gens'[e.daemon]
      <4>1. HasResult(b) /\ task'[b] = task[b]  BY <1>6, <3>3
      <4>2. task[b].at \in Nat /\ task[b].at <= gens[e.daemon]
        BY <3>3, <4>1 DEF Filed, HasResult, Searching
      <4> QED  BY <3>1, <4>1, <4>2
    <3> QED  BY <3>2, <3>3
  <2>3. CASE e.daemon # task[c].daemon
    <3>1. e \in Bumped
      <4>1. e # task[c].effect  BY <1>2, <2>3 DEF Committing
      <4> QED  BY <1>2, <1>3, <4>1 DEF Bumped
    <3>2. gens'[e.daemon] = gens[e.daemon]  BY <1>8, <2>1, <2>3
    <3> QED  BY <1>2, <1>6, <3>1, <3>2 DEF CurrentShows
  <2> QED  BY <2>2, <2>3
<1>13. SlotShows'
  <2>1. PICK s \in Dis!Daemons : s = current  BY DEF DispatchTypes
  <2>2. \A e \in told \union Pending : ~e.late /\ e.daemon # current => SeenOn(e, s)'
    BY <1>9, <1>10, <2>1 DEF SlotShows
  <2> QED  BY <1>2, <1>7, <2>1, <2>2 DEF SlotShows, SeenOn
<1>14. SearchShows'
  <2> SUFFICES ASSUME NEW b \in Conns, NEW e \in Before(b)
               PROVE  /\ e \in told'
                      /\ e.daemon = task'[b].daemon /\ HasResult(b)' => e.commit <= task'[b].result
                      /\ e.daemon # task'[b].daemon /\ ~e.late => SeenOn(e, task[b].daemon)'
    BY <1>6 DEF SearchShows
  <2>1. e \in told /\ e \in Effects  BY <1>10 DEF SearchShows
  <2>2. e.daemon # task[b].daemon /\ ~e.late => SeenOn(e, task[b].daemon)  BY DEF SearchShows
  <2>3. PICK d \in Dis!Daemons : d = task[b].daemon /\ d = task'[b].daemon  BY <1>4
  <2>4. SeenOn(e, d) => SeenOn(e, task[b].daemon)'  BY <1>9, <2>1, <2>3 DEF SeenOn
  <2> QED  BY <1>2, <1>6, <2>1, <2>2, <2>3, <2>4 DEF SearchShows
<1>15. Committing'  BY <1>2, <1>3, <1>4, <1>7 DEF Committing
<1> QED  BY <1>11, <1>12, <1>13, <1>14, <1>15

\* What an insert files shows what is asked of a value under its generation: the
\* search that computed it was in flight when the effects were bumped.
LEMMA InsertStep ==
  ASSUME Dis!DispatchAssumption, DispatchTypes, GensCounted, SlotInv, CacheInv,
         NEW c \in Conns, Dis!Insert(c)
  PROVE  CacheInv'
<1> USE DEF CacheInv
<1> DEFINE home == task[c].daemon
           at == task[c].at
           result == task[c].result
<1>1. DispatchTypes'  BY InsertMoves
<1>2. /\ MovesOn(c, "done") /\ task[c] \in Searching
      /\ UNCHANGED <<current, built, commits, gens, told>>
      /\ map' = [map EXCEPT ![home][at] = result]
  BY InsertMoves DEF Dis!Insert
<1>3. home \in Dis!Daemons /\ at \in 0 .. MaxLines /\ result \in Nat  BY <1>2 DEF Searching
<1>4. \A d \in Dis!Daemons, g \in 0 .. MaxLines :
        map'[d][g] = IF d = home /\ g = at THEN result ELSE map[d][g]
  BY <1>2, <1>3 DEF DispatchTypes
<1>5. /\ task'[c] \in Searching /\ task'[c].daemon = home /\ task'[c].at = at
      /\ task'[c].result = result /\ task'[c].before = task[c].before
      /\ \A b \in Conns \ {c} : task'[b] = task[b]
  BY <1>2 DEF MovesOn, OthersKept
<1>6. task[c] \in Tasks /\ task'[c] \in Tasks  BY <1>1 DEF DispatchTypes
<1>7. task[c] \notin Committed \union Restarting /\ task'[c] \notin Committed \union Restarting
  BY <1>2, <1>5, <1>6, Shapes
<1>8. Pending' = Pending /\ Bumped' = Bumped /\ told' = told
  BY <1>2, <1>5, <1>7 DEF Pending, Bumped
<1>9. \A b \in Conns : /\ Before(b)' = Before(b) /\ (HasResult(b)' <=> HasResult(b))
                       /\ task'[b].daemon = task[b].daemon
                       /\ HasResult(b) => task'[b].at = task[b].at /\ task'[b].result = task[b].result
  BY <1>2, <1>5 DEF Before, HasResult
<1>10. Bumped \subseteq Effects /\ Pending \subseteq Effects /\ told \subseteq Effects
  BY SomeEffects DEF DispatchTypes
<1>11. ASSUME NEW e \in Effects, NEW d \in Dis!Daemons, SeenOn(e, d) PROVE SeenOn(e, d)'
  <2>1. ASSUME NEW g \in 0 .. MaxLines, map'[d][g] # Dis!NotCached PROVE e.commit <= map'[d][g]
    <3>1. CASE d = home /\ g = at
      <4>1. HasResult(c)  BY <1>2, <1>4, <2>1, <3>1 DEF HasResult
      <4> QED  BY <1>4, <1>11, <3>1, <4>1 DEF SeenOn
    <3>2. CASE ~(d = home /\ g = at)  BY <1>4, <1>11, <2>1, <3>2 DEF SeenOn
    <3> QED  BY <3>1, <3>2
  <2>2. \A b \in Conns : HasResult(b)' /\ task'[b].daemon = d => e.commit <= task'[b].result
    BY <1>9, <1>11 DEF SeenOn
  <2> QED  BY <2>1, <2>2 DEF SeenOn
<1>12. Filed'
  <2>1. at <= gens[home] /\ \A d \in Dis!Daemons : gens[d] \in Nat  BY <1>2 DEF Filed, DispatchTypes
  <2>2. ASSUME NEW d \in Dis!Daemons, NEW g \in 0 .. MaxLines, g > gens[d]
        PROVE  map'[d][g] = Dis!NotCached
    <3>1. ~(d = home /\ g = at)  BY <1>3, <2>1, <2>2
    <3> QED  BY <1>4, <2>2, <3>1 DEF Filed
  <2>3. \A d \in Dis!Daemons : Waiting(d)' => Waiting(d)  BY <1>2, <1>5, <1>7 DEF Waiting
  <2>4. ~Waiting(home)
    <3>1. home <= built /\ home \in Nat /\ built \in Nat
      BY <1>3 DEF SlotInv, DispatchTypes, Dis!Daemons
    <3> QED  BY <3>1 DEF Waiting, SlotInv
  <2>5. ASSUME NEW d \in Dis!Daemons, Waiting(d)', NEW g \in 0 .. MaxLines
        PROVE  map'[d][g] = Dis!NotCached
    <3>1. Waiting(d) /\ d # home  BY <2>3, <2>4, <2>5
    <3> QED  BY <1>4, <3>1 DEF Filed
  <2>6. ASSUME NEW b \in Conns, task'[b] \in Searching PROVE task'[b].at <= gens'[task'[b].daemon]
    BY <1>2, <1>5, <2>6 DEF Filed
  <2> QED  BY <1>2, <2>2, <2>5, <2>6 DEF Filed
<1>13. CurrentShows'
  <2> SUFFICES ASSUME NEW e \in Bumped
               PROVE  /\ gens[e.daemon] <= MaxLines /\ map'[e.daemon][gens[e.daemon]] # Dis!NotCached
                           => e.commit <= map'[e.daemon][gens[e.daemon]]
                      /\ \A b \in Conns :
                           HasResult(b)' /\ task'[b].daemon = e.daemon
                             /\ task'[b].at = gens[e.daemon] => e.commit <= task'[b].result
    BY <1>2, <1>8 DEF CurrentShows
  <2>1. e.daemon \in Dis!Daemons /\ gens[e.daemon] \in Nat  BY <1>10 DEF Effects, DispatchTypes
  <2>2. ASSUME gens[e.daemon] <= MaxLines, map'[e.daemon][gens[e.daemon]] # Dis!NotCached
        PROVE  e.commit <= map'[e.daemon][gens[e.daemon]]
    <3>1. gens[e.daemon] \in 0 .. MaxLines  BY <2>1, <2>2
    <3>2. CASE e.daemon = home /\ gens[e.daemon] = at
      <4>1. HasResult(c)  BY <1>2, <1>4, <2>1, <2>2, <3>1, <3>2 DEF HasResult
      <4> QED  BY <1>4, <2>1, <3>1, <3>2, <4>1 DEF CurrentShows
    <3>3. CASE ~(e.daemon = home /\ gens[e.daemon] = at)
      <4>1. map'[e.daemon][gens[e.daemon]] = map[e.daemon][gens[e.daemon]]
        BY <1>4, <2>1, <3>1, <3>3
      <4> QED  BY <2>2, <4>1 DEF CurrentShows
    <3> QED  BY <3>2, <3>3
  <2>3. \A b \in Conns :
          HasResult(b)' /\ task'[b].daemon = e.daemon
            /\ task'[b].at = gens[e.daemon] => e.commit <= task'[b].result
    BY <1>9 DEF CurrentShows
  <2> QED  BY <2>2, <2>3
<1>14. SlotShows'
  <2>1. PICK s \in Dis!Daemons : s = current  BY DEF DispatchTypes
  <2>2. \A e \in told \union Pending : ~e.late /\ e.daemon # current => SeenOn(e, s)'
    BY <1>10, <1>11, <2>1 DEF SlotShows
  <2> QED  BY <1>2, <1>8, <2>1, <2>2 DEF SlotShows, SeenOn
<1>15. SearchShows'
  <2> SUFFICES ASSUME NEW b \in Conns, NEW e \in Before(b)
               PROVE  /\ e \in told'
                      /\ e.daemon = task'[b].daemon /\ HasResult(b)' => e.commit <= task'[b].result
                      /\ e.daemon # task'[b].daemon /\ ~e.late => SeenOn(e, task[b].daemon)'
    BY <1>9 DEF SearchShows
  <2>1. e \in told /\ e \in Effects  BY <1>10 DEF SearchShows
  <2>2. e.daemon # task[b].daemon /\ ~e.late => SeenOn(e, task[b].daemon)  BY DEF SearchShows
  <2>3. task[b].daemon \in Dis!Daemons  BY Places DEF DispatchTypes
  <2>4. PICK d \in Dis!Daemons : d = task[b].daemon /\ d = task'[b].daemon  BY <1>9, <2>3
  <2>5. SeenOn(e, d) => SeenOn(e, task[b].daemon)'  BY <1>11, <2>1, <2>4 DEF SeenOn
  <2> QED  BY <1>2, <1>9, <2>1, <2>2, <2>4, <2>5 DEF SearchShows
<1>16. Committing'  BY <1>2, <1>5, <1>7, <1>8 DEF Committing
<1> QED  BY <1>12, <1>13, <1>14, <1>15, <1>16

-----------------------------------------------------------------------------
(* The theorems.                                                           *)

\* A handler's steps are those of a connection that has read a line.
LEMMA HandleOne ==
  ASSUME DispatchTypes, NEW c \in Conns, Dis!Handle(c)
  PROVE  OthersKept(c) /\ ~Dis!At(c, "read")
<1>1. OthersKept(c)
  BY DEF Dis!Handle, OthersKept, DispatchTypes, Dis!Goto, Dis!TakeLock, Dis!Return, Dis!Reply,
         Dis!Fail, Dis!Commit, Dis!Bump, Dis!LookUp,
         Dis!Compute, Dis!Insert, Dis!Build, Dis!Swap
<1>2. ~Dis!At(c, "read")
  BY DEF Dis!Handle, Dis!At, Dis!TakeLock, Dis!Return, Dis!Reply, Dis!Fail, Dis!Commit, Dis!Bump,
         Dis!LookUp, Dis!Compute, Dis!Insert,
         Dis!Build, Dis!Swap, Dis!Working, Dis!Running
<1> QED  BY <1>1, <1>2

LEMMA DispatchInit == ASSUME Dis!DispatchAssumption, Dis!Init PROVE DispatchInv
<1> USE DEF Dis!Init
<1>1. \A c \in Conns : task[c] \in Idle /\ task[c] = [pc |-> "read", daemon |-> 1]
  BY DEF Idle, Dis!Daemons, Dis!DispatchAssumption
<1>2. DispatchTypes
  <2>1. 1 \in Dis!Daemons /\ 0 \in 0 .. MaxLines  BY DEF Dis!Daemons, Dis!DispatchAssumption
  <2>2. task \in [Conns -> Tasks]  BY <1>1 DEF Tasks
  <2> QED  BY <2>1, <2>2 DEF DispatchTypes
<1>3. \A c \in Conns : task[c] \notin Called \union Committed \union Searching
                                        \union Restarting \union RestartDone
  <2> SUFFICES ASSUME NEW c \in Conns
               PROVE  task[c] \notin Called \union Committed \union Searching
                                        \union Restarting \union RestartDone
    OBVIOUS
  <2>1. PICK t : t = task[c]  OBVIOUS
  <2>2. t \in Tasks /\ DOMAIN t = {"pc", "daemon"}  BY <1>1, <2>1 DEF Tasks
  <2> HIDE DEF Dis!Init
  <2>3. t \notin Called \union Committed \union Searching \union Restarting \union RestartDone
    BY <2>2, Fields
  <2> QED  BY <2>1, <2>3
<1>4. Busy = {}  BY <1>1 DEF Busy
<1>5. GensCounted
  <2>1. IsFiniteSet({}) /\ Cardinality({}) = 0  BY FS_EmptySet
  <2>2. \A d \in Dis!Daemons : gens[d] = 0 /\ lines = 0  OBVIOUS
  <2> QED  BY <1>4, <2>1, <2>2 DEF GensCounted
<1>6. SlotInv  BY <1>1, <1>3 DEF SlotInv
<1>7. Pending = {} /\ Bumped = {} /\ \A c \in Conns : Before(c) = {} /\ ~HasResult(c)
  BY <1>3 DEF Pending, Bumped, Before, HasResult
<1>8. Filed  BY <1>3 DEF Filed
<1> QED  BY <1>2, <1>3, <1>5, <1>6, <1>7, <1>8
         DEF DispatchInv, CurrentShows, SlotShows, SearchShows, Committing

LEMMA DispatchStep == ASSUME Dis!DispatchAssumption, DispatchInv, [Dis!Next]_Dis!vars
                      PROVE  DispatchInv'
<1>1. DispatchTypes /\ GensCounted /\ SlotInv /\ CacheInv  BY DEF DispatchInv, CacheInv
<1>2. DispatchTypes' /\ GensCounted' /\ SlotInv'  BY <1>1, DispatchTypesStep, GensStep, SlotStep
<1>3. CacheInv'
  <2>1. ASSUME NEW c \in Conns, Dis!Bump(c) PROVE CacheInv'  BY <1>1, <2>1, BumpStep
  <2>2. ASSUME NEW c \in Conns, Dis!Insert(c) PROVE CacheInv'  BY <1>1, <2>2, InsertStep
  <2>3. ASSUME NEW c \in Conns, Dis!Read(c) \/ Dis!Handle(c), ~Dis!Bump(c), ~Dis!Insert(c)
        PROVE  CacheInv'
    <3>1. Still  BY <1>1, <2>3, QuietActions
    <3> QED  BY <1>1, <1>2, <3>1, StillStep
  <2>4. CASE UNCHANGED Dis!vars
    <3>1. UNCHANGED <<current, built, task, commits, gens, map, told>>  BY <2>4 DEF Dis!vars
    <3>2. \A b \in Conns : QuietTask(b)  BY <3>1, SameQuiet
    <3>3. \A d \in Dis!Daemons : Waiting(d)' => Waiting(d)  BY <3>1 DEF Waiting
    <3>4. Still  BY <1>1, <3>1, <3>2, <3>3 DEF Still, DispatchTypes, Bumped
    <3> QED  BY <1>1, <1>2, <3>4, StillStep
  <2> QED  BY <2>1, <2>2, <2>3, <2>4 DEF Dis!Next
<1> QED  BY <1>2, <1>3 DEF DispatchInv, CacheInv

\* What holds of the Daemons, their caches and the calls in flight, at every moment.
THEOREM DispatchInvariance ==
  ASSUME Dis!DispatchAssumption
  PROVE  Dis!Spec => []DispatchInv
<1>1. Dis!Init => DispatchInv  BY DispatchInit
<1>2. DispatchInv /\ [Dis!Next]_Dis!vars => DispatchInv'  BY DispatchStep
<1> QED  BY <1>1, <1>2, PTL DEF Dis!Spec

\* However many connections call, and however many restarts are in flight beside
\* each other, a search shows every call that was answered before its line was
\* read, except one that committed on a Daemon already replaced
\* (lookup_or_compute, Runtime::swap_daemon).
LEMMA SearchesMissOnlyOverSwap ==
  ASSUME Dis!DispatchAssumption
  PROVE  Dis!Spec => []Dis!MissedOnlyOverSwap
<1>1. DispatchInv => Dis!MissedOnlyOverSwap
  <2> SUFFICES ASSUME DispatchInv, NEW c \in Conns, Dis!Found(c), NEW e \in Dis!Missed(c)
               PROVE  e.late /\ e.daemon # task[c].daemon
    BY DEF Dis!MissedOnlyOverSwap
  <2>1. task[c] \in Tasks  BY DEF DispatchInv, DispatchTypes
  <2>2. task[c] \in Searching /\ HasResult(c)  BY <2>1, Shapes DEF Dis!Found, HasResult
  <2>3. e \in Before(c) /\ e.commit > task[c].result /\ task[c].result \in Nat
        /\ e \in Effects
    BY <2>2 DEF Dis!Missed, Before, Searching
  <2>4. ~(e.commit <= task[c].result)  BY <2>3 DEF Effects
  <2>5. ~SeenOn(e, task[c].daemon)  BY <2>2, <2>4 DEF SeenOn
  <2> QED  BY <2>2, <2>3, <2>4, <2>5 DEF DispatchInv, SearchShows
<1> QED  BY <1>1, DispatchInvariance, PTL

\* A restart that was answered is never taken back by another one in flight: the
\* Daemon it replaced gets no line that is read later.
LEMMA RestartsTakeEffect ==
  ASSUME Dis!DispatchAssumption
  PROVE  Dis!Spec => Dis!RestartTakesEffect
<1>1. DispatchInv /\ [Dis!Next]_Dis!vars =>
        [\A c \in Conns : Dis!At(c, "read") /\ ~Dis!At(c, "read")' => task'[c].daemon \notin retired]_Dis!vars
  <2> SUFFICES ASSUME DispatchInv, Dis!Next, NEW c \in Conns, Dis!At(c, "read"), ~Dis!At(c, "read")'
               PROVE  task'[c].daemon \notin retired
    OBVIOUS
  <2>1. DispatchTypes /\ current \notin retired  BY DEF DispatchInv, SlotInv
  <2>2. PICK b \in Conns : Dis!Read(b) \/ Dis!Handle(b)  BY DEF Dis!Next
  <2>3. CASE Dis!Read(b)
    <3>1. c = b  BY <2>1, <2>3, ReadMoves DEF OthersKept, Dis!At
    <3> QED  BY <2>1, <2>3, <3>1, ReadMoves
  <2>4. CASE Dis!Handle(b)
    <3>1. OthersKept(b) /\ ~Dis!At(b, "read")  BY <2>1, <2>4, HandleOne
    <3> QED  BY <3>1 DEF OthersKept, Dis!At
  <2> QED  BY <2>2, <2>3, <2>4
<1> QED  BY <1>1, DispatchInvariance, PTL DEF Dis!RestartTakesEffect, Dis!Spec

\* What happens to dispatch beside the other parts is a behaviour of dispatch.
LEMMA FilesHaveDispatch == FilesSpec => Dis!Spec
<1>1. FilesInit => Dis!Init
  BY DEF FilesInit
<1>2. [FilesNext]_all => [Dis!Next]_Dis!vars
  <2>1. UNCHANGED dis => UNCHANGED Dis!vars
    BY DEF dis, Dis!vars
  <2>2. UNCHANGED all => UNCHANGED dis
    BY DEF all
  <2> QED BY <2>1, <2>2 DEF FilesNext
<1> QED BY <1>1, <1>2, PTL DEF FilesSpec, Dis!Spec

LEMMA DispatchAssumed == Dis!DispatchAssumption
BY FilesAssumption

\* A search misses a call answered before its line was read only if that call
\* committed on a Daemon that had been replaced.
THEOREM MissesNeedSwap == FilesSpec => []MissedOnlyOverSwap
BY FilesHaveDispatch, DispatchAssumed, SearchesMissOnlyOverSwap, PTL DEF MissedOnlyOverSwap

\* Once a restart is answered no line goes to the Daemon it replaced.
THEOREM RestartsHold == FilesSpec => RestartTakesEffect
BY FilesHaveDispatch, DispatchAssumed, RestartsTakeEffect, PTL DEF RestartTakesEffect
=============================================================================
