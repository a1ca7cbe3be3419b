--------------------------- MODULE MemorySignals ---------------------------
(***************************************************************************)
(* Adaptive memory: search sessions, feedback on their results, and what   *)
(* is learned from it: a strength for each entry and affinities between a  *)
(* query and an entry, with vectors under the active embedding model.      *)
(*                                                                         *)
(* The signals are local state of their own.  No foreign key ties them to  *)
(* the index, whose rows a pass may remove and insert again, so each       *)
(* handler that changes content cleans them up in a transaction of its own *)
(* and the passes reconcile them at their end.                             *)
(*                                                                         *)
(* An entry has at most one block, with one chunk.  Indexing an entry      *)
(* anew gives both new ids; a new text gives the chunk one.  Each search   *)
(* has a query of its own and all normalize alike, so a text is named by   *)
(* its search.  The file follows the row at once: ContentIndex has the gap *)
(* between them.                                                           *)
(***************************************************************************)
EXTENDS Naturals, FiniteSets, FiniteSetsExt

CONSTANTS
  Entries, Searches, Models, Passes,
  MaxReinforcements,  \* memory.max_reinforcements
  Ops,                \* calls and passes of the instance
  MaxCalls, MaxFeedback, MaxEvents  \* bounds: calls and passes, feedback, events

ASSUME ConstantsAssumption ==
  /\ IsFiniteSet(Entries)
  /\ MaxReinforcements \in 1 .. 3
  /\ Ops \subseteq {"delete", "update", "blockDelete", "sync", "rebuild"}
  /\ MaxCalls \in Nat /\ MaxFeedback \in Nat /\ MaxEvents \in Nat

VARIABLES
  file,      \* file[e]: "block", "bare" (without a block), "bad" (unreadable), "none"
  changed,   \* files whose mtime is not the row's
  indexed,   \* entries that have a row
  at,        \* at[e]: the ids of the entry's block and its chunk, 0 for none
  ids,       \* the newest id given out
  active,    \* the daemon's embedding model
  session,   \* search_sessions with their results
  receipts,  \* search_feedback: pairs of search and entry
  stats,     \* entry_memory_stats: reinforcement_count, 0 when there is no row
  aff,       \* query_affinities, by model, entry and target
  vec,       \* vec_query_affinities: what each vector was computed from, model and text
  job,       \* the call that holds sync_lock
  pass,      \* index.sync and index.rebuild calls that run
  counts,    \* calls, feedback and events so far
  credited,  \* history: searches whose feedback on an entry was answered as applied
  settled,   \* history: nothing has failed, died or ended without its reconciliation
             \* since the last one
  overlapped \* history: a pass has run beside a call or another pass

content == <<file, changed, indexed, at, ids>>
signals == <<session, receipts, stats, aff, vec>>
history == <<credited, settled, overlapped>>
vars == <<content, signals, active, job, pass, counts, history>>

\* A target names a block and a chunk of it, a block alone, or the entry alone.
ToEntry == [block |-> 0, chunk |-> 0]

NoSession == [pc |-> "none", model |-> "", results |-> <<>>]
NoJob == [op |-> "none", entry |-> "", old |-> ToEntry, done |-> FALSE]
NoPass == [op |-> "none", pc |-> "idle", todo |-> {}, stale |-> {}, whole |-> TRUE, plan |-> <<>>]

Init ==
  /\ file = [e \in Entries |-> "block"] /\ changed = {}
  /\ indexed = Entries
  /\ ids = 2 * Cardinality(Entries)
  /\ at \in {a \in [Entries -> [block : 1 .. ids, chunk : 1 .. ids]] :
               \A e \in Entries : /\ a[e].block % 2 = 1 /\ a[e].chunk = a[e].block + 1
                                  /\ \A d \in Entries \ {e} : a[d] # a[e]}
  /\ active \in Models
  /\ session = [s \in Searches |-> NoSession]
  /\ receipts = {} /\ stats = [e \in Entries |-> 0]
  /\ aff = <<>> /\ vec = <<>>
  /\ job = NoJob /\ pass = [p \in Passes |-> NoPass]
  /\ counts = [calls |-> 0, feedback |-> 0, events |-> 0]
  /\ credited = [e \in Entries |-> {}] /\ settled = TRUE /\ overlapped = FALSE

\* The socket is bound after the startup sync.
Serving == \A p \in Passes : pass[p].op # "boot"
NoPasses == \A p \in Passes : pass[p] = NoPass

Cap(n) == IF n < MaxReinforcements THEN n ELSE MaxReinforcements

-----------------------------------------------------------------------------
(* Searches *)

\* search.hybrid has its results, with what each of them matched.
SearchRead(s) ==
  /\ Serving /\ session[s].pc = "none"
  /\ \E found \in (SUBSET indexed) \ {{}} :
       session' = [session EXCEPT ![s] = [pc |-> "read", model |-> active,
                                          results |-> [e \in found |-> at[e]]]]
  /\ UNCHANGED <<content, receipts, stats, aff, vec, active, job, pass, counts, history>>

\* Expired sessions go, with their results, whenever a session is written or used.
Purged(keep, ss) ==
  [s \in Searches |-> IF ss[s].pc = "expired" /\ s # keep
                        THEN [ss[s] EXCEPT !.pc = "gone", !.results = <<>>] ELSE ss[s]]

\* create_search_session: what was read is recorded, as it was read.
SearchRecord(s) ==
  /\ session[s].pc = "read"
  /\ session' = Purged(s, [session EXCEPT ![s].pc = "open"])
  /\ UNCHANGED <<content, receipts, stats, aff, vec, active, job, pass, counts, history>>

\* session_ttl_hours pass.
Expire(s) ==
  /\ session[s].pc = "open"
  /\ session' = [session EXCEPT ![s].pc = "expired"]
  /\ UNCHANGED <<content, receipts, stats, aff, vec, active, job, pass, counts, history>>

-----------------------------------------------------------------------------
(* Feedback *)

\* The part p of target t is one that the search recorded ...
Recorded(s, e, t, p) == t[p] \in {0, session[s].results[e][p]}

\* ... and is the entry's still; the slip trusts the record.
Trusted(e, t, p) == TRUE
Kept(e, t, p) == t[p] \in {0, at[e][p]}

\* validate_feedback_target
Owned(s, e, t) ==
  /\ e \in DOMAIN session[s].results /\ e \in indexed
  /\ \A p \in {"block", "chunk"} : Recorded(s, e, t, p) /\ Kept(e, t, p)

\* Entries of a request that have no receipt.
New(s, targets) == {e \in DOMAIN targets : <<s, e>> \notin receipts}

\* search.feedback: one transaction for all its targets.  Those that have a receipt
\* are passed over unexamined; one that is refused fails them all.
Feedback(s, targets) ==
  LET new == New(s, targets)
      keys == {<<session[s].model, e, targets[e]>> : e \in new}
      old(k) == IF k \in DOMAIN aff THEN aff[k].count ELSE 0
      now == counts.feedback + 1
  IN
  /\ Serving /\ session[s].pc = "open" /\ session[s].model = active
  /\ \A e \in new : Owned(s, e, targets[e])
  /\ counts.feedback < MaxFeedback
  /\ counts' = [counts EXCEPT !.feedback = now]
  /\ session' = Purged(s, session)
  /\ receipts' = receipts \union {<<s, e>> : e \in new}
  /\ stats' = [e \in Entries |-> IF e \in new THEN Cap(stats[e] + 1) ELSE stats[e]]
  /\ aff' = [k \in DOMAIN aff \union keys |->
               IF k \in keys
                 THEN [text |-> s, count |-> Cap(old(k) + 1), last |-> now]
                 ELSE aff[k]]
  /\ vec' = [k \in DOMAIN vec \union keys |->
               IF k \in keys THEN <<session[s].model, s>> ELSE vec[k]]
  /\ credited' = [e \in Entries |-> IF e \in new THEN credited[e] \union {s} ELSE credited[e]]
  /\ UNCHANGED <<content, active, job, pass, settled, overlapped>>

\* A caller names what the search returned, or what there is now, or less of it.
Requests(s) ==
  LET less(t) == {t, [t EXCEPT !.chunk = 0], ToEntry}
      found == DOMAIN session[s].results
  IN UNION {[es -> UNION {less(session[s].results[e]) \union less(at[e]) : e \in es}] :
              es \in (SUBSET found) \ {{}}}

-----------------------------------------------------------------------------
(* Cleaning up *)

Latest(ks) == CHOOSE k \in ks : \A j \in ks : aff[j].last <= aff[k].last

\* "Strength never stacks": merged rows keep the strongest count.
Strength(ks) == Max({aff[k].count : k \in ks})

Merged(ks) == [text |-> aff[Latest(ks)].text, count |-> Strength(ks), last |-> aff[Latest(ks)].last]

\* The keys that become n when each key k in DOMAIN to becomes to[k].
Becoming(n, to) == {k \in DOMAIN to : to[k] = n}
NewKeys(to) == {to[k] : k \in DOMAIN to}

\* degrade_affinity_precision_in_tx.  Keys outside DOMAIN to are deleted, with their
\* vectors, which no foreign key reaches.
Moved(to) ==
  LET with(n) == Becoming(n, to) \intersect DOMAIN vec IN
  /\ aff' = [n \in NewKeys(to) |-> Merged(Becoming(n, to))]
  /\ vec' = [n \in {n \in NewKeys(to) : with(n) # {}} |-> vec[Latest(with(n))]]

\* What is left of a target when blocks and chunks have gone.
Degraded(t, blocks, chunks) ==
  IF t.block \in blocks THEN ToEntry
  ELSE IF t.chunk \in chunks THEN [t EXCEPT !.chunk = 0]
  ELSE t

\* Only the affinities of entries that are gone go; in the slip those of gone blocks
\* and chunks go with them.
Untouched(gone, blocks, chunks) ==
  {k \in DOMAIN aff : k[2] \notin gone /\ k[3].block \notin blocks /\ k[3].chunk \notin chunks}
Remaining(gone, blocks, chunks) == {k \in DOMAIN aff : k[2] \notin gone}

\* delete_entries_signals, degrade_block_precision, degrade_chunk_precision and
\* reconcile_content_references: what is gone is forgotten, what points at a block
\* or a chunk that is gone points at what is left.
CleanUp(gone, blocks, chunks) ==
  /\ Moved([k \in Remaining(gone, blocks, chunks) |->
              <<k[1], k[2], Degraded(k[3], blocks, chunks)>>])
  /\ stats' = [e \in Entries |-> IF e \in gone THEN 0 ELSE stats[e]]
  /\ receipts' = {r \in receipts : r[2] \notin gone}
  /\ session' = [s \in Searches |->
       IF session[s].pc \in {"open", "expired"}
         THEN [session[s] EXCEPT !.results =
                 [e \in DOMAIN @ \ gone |-> Degraded(@[e], blocks, chunks)]]
         ELSE session[s]]

-----------------------------------------------------------------------------
(* entry.delete, block.update and block.delete *)

Counted == counts.calls < MaxCalls /\ counts' = [counts EXCEPT !.calls = @ + 1]

\* The ids of the block's chunks are read before the change.
Call(op, e) ==
  /\ Serving /\ op \in Ops /\ job = NoJob
  /\ Counted
  /\ e \in indexed /\ (op # "delete" => at[e] # ToEntry)
  /\ job' = [op |-> op, entry |-> e, old |-> at[e], done |-> FALSE]
  /\ overlapped' = (overlapped \/ ~NoPasses)
  /\ UNCHANGED <<content, signals, active, pass, credited, settled>>

\* The call finds what it is to change.
Finds(op) ==
  /\ job.op = op /\ ~job.done
  /\ job.entry \in indexed
  /\ op # "delete" => at[job.entry].block = job.old.block

DeleteContent == LET e == job.entry IN
  /\ Finds("delete")
  /\ indexed' = indexed \ {e} /\ at' = [at EXCEPT ![e] = ToEntry]
  /\ file' = [file EXCEPT ![e] = "none"] /\ changed' = changed \ {e}
  /\ job' = [job EXCEPT !.done = TRUE]
  /\ UNCHANGED <<ids, signals, active, pass, counts, history>>

UpdateContent == LET e == job.entry IN
  /\ Finds("update")
  /\ ids' = ids + 1
  /\ at' = [at EXCEPT ![e].chunk = ids']
  /\ file' = [file EXCEPT ![e] = "block"]
  /\ job' = [job EXCEPT !.done = TRUE]
  /\ UNCHANGED <<changed, indexed, signals, active, pass, counts, history>>

BlockDeleteContent == LET e == job.entry IN
  /\ Finds("blockDelete")
  /\ at' = [at EXCEPT ![e] = ToEntry]
  /\ file' = [file EXCEPT ![e] = "bare"]
  /\ job' = [job EXCEPT !.done = TRUE]
  /\ UNCHANGED <<changed, indexed, ids, signals, active, pass, counts, history>>

\* The transaction that follows the change of content.
CallSignals ==
  /\ job.done
  /\ \/ job.op = "delete" /\ CleanUp({job.entry}, {}, {})
     \/ job.op = "update" /\ CleanUp({}, {}, {job.old.chunk})
     \/ job.op = "blockDelete" /\ CleanUp({}, {job.old.block}, {job.old.chunk})
  /\ job' = NoJob
  /\ UNCHANGED <<content, active, pass, counts, history>>

\* The change is refused, or cleaning up fails and is left to a reconciliation.
CallFails ==
  /\ job # NoJob
  /\ settled' = (settled /\ ~job.done)
  /\ job' = NoJob
  /\ UNCHANGED <<content, signals, active, pass, counts, credited, overlapped>>

-----------------------------------------------------------------------------
(* index.sync, index.rebuild and the startup sync *)

Become(p, r) == pass' = [pass EXCEPT ![p] = r]
OnDisk == {e \in Entries : file[e] # "none"}

\* The scan of sync_from_fs: files to index, and rows whose file is gone.
Scan(op) == [NoPass EXCEPT !.op = op, !.pc = "walk",
               !.todo = OnDisk \intersect (changed \union (Entries \ indexed)),
               !.stale = indexed \ OnDisk]

\* Neither takes sync_lock.
StartPass(p) ==
  /\ Serving /\ pass[p] = NoPass /\ Counted
  /\ overlapped' = (overlapped \/ job # NoJob \/ ~NoPasses)

SyncStart(p) ==
  /\ "sync" \in Ops /\ StartPass(p)
  /\ Become(p, Scan("sync"))
  /\ UNCHANGED <<content, signals, active, job, credited, settled>>

\* rebuild_index wipes the rows, and will index every file.
RebuildStart(p) ==
  /\ "rebuild" \in Ops /\ StartPass(p)
  /\ indexed' = {} /\ at' = [e \in Entries |-> ToEntry]
  /\ Become(p, [NoPass EXCEPT !.op = "rebuild", !.pc = "walk", !.todo = OnDisk])
  /\ UNCHANGED <<file, changed, ids, signals, active, job, credited, settled>>

\* reindex_one: the entry and its block are inserted anew.
PassIndexes(p, e) ==
  /\ pass[p].pc = "walk" /\ e \in pass[p].todo /\ file[e] \in {"block", "bare"}
  /\ indexed' = indexed \union {e}
  /\ ids' = ids + 2
  /\ at' = [at EXCEPT ![e] = IF file[e] = "block" THEN [block |-> ids + 1, chunk |-> ids + 2] ELSE ToEntry]
  /\ changed' = changed \ {e}
  /\ Become(p, [pass[p] EXCEPT !.todo = @ \ {e}])
  /\ UNCHANGED <<file, signals, active, job, counts, history>>

\* A file that cannot be read ends a sync; a rebuild notes it and goes on.
PassFails(p, e) ==
  /\ pass[p].pc = "walk" /\ e \in pass[p].todo /\ file[e] \in {"bad", "none"}
  /\ Become(p, IF pass[p].op = "rebuild" THEN [pass[p] EXCEPT !.todo = @ \ {e}, !.whole = FALSE]
                                         ELSE NoPass)
  /\ settled' = FALSE
  /\ UNCHANGED <<content, signals, active, job, counts, credited, overlapped>>

\* A sync removes the row of an entry whose file is gone when it gets there, and, in
\* the end, the rows whose file was gone at the scan.
PassRemoves(p, e) ==
  /\ pass[p].pc = "walk"
  /\ \/ e \in pass[p].todo /\ file[e] = "none" /\ pass[p].op # "rebuild"
     \/ e \in pass[p].stale /\ pass[p].todo = {}
  /\ indexed' = indexed \ {e} /\ at' = [at EXCEPT ![e] = ToEntry]
  /\ changed' = changed \ {e}
  /\ Become(p, [pass[p] EXCEPT !.todo = @ \ {e}, !.stale = @ \ {e}])
  /\ UNCHANGED <<file, ids, signals, active, job, counts, history>>

\* A rebuild that is not whole leaves the signals alone; the slip does not care.
GoesOn(p) == TRUE
Whole(p) == pass[p].whole

PassWalked(p) ==
  /\ pass[p].pc = "walk" /\ pass[p].todo = {} /\ pass[p].stale = {}
  /\ Become(p, IF Whole(p) THEN [pass[p] EXCEPT !.pc = "reconcile"] ELSE NoPass)
  /\ settled' = (settled /\ Whole(p))
  /\ UNCHANGED <<content, signals, active, job, counts, credited, overlapped>>

AfterReconcile(p) == Become(p, IF pass[p].op = "rebuild" THEN [pass[p] EXCEPT !.pc = "plan"] ELSE NoPass)

Reconcile(p) ==
  /\ pass[p].pc = "reconcile"
  /\ CleanUp(Entries \ indexed, (1 .. ids) \ {at[e].block : e \in Entries},
                                (1 .. ids) \ {at[e].chunk : e \in Entries})
  /\ settled' = TRUE
  /\ AfterReconcile(p)
  /\ UNCHANGED <<content, active, job, counts, credited, overlapped>>

ReconcileFails(p) ==
  /\ pass[p].pc = "reconcile"
  /\ settled' = FALSE
  /\ AfterReconcile(p)
  /\ UNCHANGED <<content, signals, active, job, counts, credited, overlapped>>

\* list_affinities_for_reembedding: the rows and their fingerprint.
Plan(p) ==
  /\ pass[p].pc = "plan"
  /\ Become(p, [pass[p] EXCEPT !.pc = "embed", !.plan = aff])
  /\ UNCHANGED <<content, signals, active, job, counts, history>>

\* The fingerprint is compared; the slip compares nothing but the ids.
SameIds(p) == DOMAIN aff = DOMAIN pass[p].plan
Unchanged(p) == aff = pass[p].plan

\* replace_affinity_vectors: all rows move to the active model, with the vectors
\* that the provider computed from the plan.
Replace(p) ==
  LET to == [k \in DOMAIN aff |-> <<active, k[2], k[3]>>]
      text(n) == pass[p].plan[Latest(Becoming(n, to))].text
  IN
  /\ pass[p].pc = "embed" /\ Unchanged(p)
  /\ aff' = [n \in NewKeys(to) |-> Merged(Becoming(n, to))]
  /\ vec' = [n \in NewKeys(to) |-> <<active, text(n)>>]
  /\ Become(p, NoPass)
  /\ UNCHANGED <<content, session, receipts, stats, active, job, counts, history>>

\* The provider fails, or the rows changed meanwhile.
ReembedFails(p) ==
  /\ pass[p].pc = "embed"
  /\ Become(p, NoPass)
  /\ UNCHANGED <<content, signals, active, job, counts, history>>

-----------------------------------------------------------------------------
(* Events *)

Event == counts.events < MaxEvents /\ counts' = [counts EXCEPT !.events = @ + 1]

\* The process ends, and another starts, perhaps with another model: it keeps the
\* vectors of its own model and runs its startup sync.
Restart(model, p) ==
  /\ Event
  /\ active' = model
  /\ vec' = [k \in {k \in DOMAIN vec : k[1] = model} |-> vec[k]]
  /\ session' = [s \in Searches |-> IF session[s].pc = "read"
                   THEN [session[s] EXCEPT !.pc = "gone", !.results = <<>>] ELSE session[s]]
  /\ job' = NoJob
  /\ pass' = [q \in Passes |-> IF q = p THEN Scan("boot") ELSE NoPass]
  /\ settled' = FALSE
  /\ UNCHANGED <<content, receipts, stats, aff, credited, overlapped>>

\* An editor or git: a file is rewritten, damaged, repaired or removed.
Outside(e, now) ==
  /\ Event
  /\ file[e] # "none"
  /\ file' = [file EXCEPT ![e] = now]
  /\ changed' = changed \union {e}
  /\ UNCHANGED <<indexed, at, ids, signals, active, job, pass, history>>

Next ==
  \/ \E s \in Searches :
       \/ SearchRead(s) \/ SearchRecord(s) \/ Expire(s)
       \/ \E targets \in Requests(s) : Feedback(s, targets)
  \/ \E e \in Entries : \E op \in {"delete", "update", "blockDelete"} : Call(op, e)
  \/ DeleteContent \/ UpdateContent \/ BlockDeleteContent \/ CallSignals \/ CallFails
  \/ \E p \in Passes :
       \/ SyncStart(p) \/ RebuildStart(p)
       \/ \E e \in Entries : PassIndexes(p, e) \/ PassFails(p, e) \/ PassRemoves(p, e)
       \/ PassWalked(p) \/ Reconcile(p) \/ ReconcileFails(p)
       \/ Plan(p) \/ Replace(p) \/ ReembedFails(p)
       \/ \E model \in Models : Restart(model, p)
  \/ \E e \in Entries : \E now \in {"block", "bare", "bad", "none"} : Outside(e, now)

Spec == Init /\ [][Next]_vars

-----------------------------------------------------------------------------

TargetsNow == [block : 0 .. ids, chunk : 0 .. ids]

\* Types; no entry without a row has a block, no vector is without its affinity,
\* and a session that is gone has no results.
TypeOK ==
  /\ file \in [Entries -> {"block", "bare", "bad", "none"}]
  /\ changed \subseteq Entries /\ indexed \subseteq Entries
  /\ at \in [Entries -> TargetsNow] /\ \A e \in Entries \ indexed : at[e] = ToEntry
  /\ ids \in Nat /\ active \in Models
  /\ receipts \subseteq Searches \X Entries
  /\ stats \in [Entries -> 0 .. MaxReinforcements]
  /\ DOMAIN aff \subseteq Models \X Entries \X TargetsNow /\ DOMAIN vec \subseteq DOMAIN aff
  /\ \A k \in DOMAIN aff : aff[k].count \in 1 .. MaxReinforcements /\ aff[k].text \in Searches
  /\ \A s \in Searches : session[s].pc \in {"none", "gone"} => DOMAIN session[s].results = {}
  /\ credited \in [Entries -> SUBSET Searches]
  /\ job = NoJob \/ job.entry \in Entries
  /\ \A p \in Passes : pass[p].todo \union pass[p].stale \subseteq Entries

Live(e) == file[e] # "none"

\* The strength of an entry whose file exists is the number of searches whose
\* feedback on it was answered as applied, up to the cap: a retry counts once, and no
\* rebuild, sync, failed call or crash takes it away - unless a pass has run beside
\* another, or beside a call, whose rows it then takes for deleted.
FeedbackCounts ==
  ~overlapped =>
    \A e \in Entries : Live(e) => stats[e] = Cap(Cardinality(credited[e]))

Strongest(e) == Max({0} \union {aff[k].count : k \in {k \in DOMAIN aff : k[2] = e}})

\* What was learned about an entry whose file exists never weakens: whatever its
\* blocks, chunks and models become, some affinity is as strong as the strongest was.
LearnedStays == [][\A e \in Entries : Live(e) /\ Live(e)' /\ ~overlapped'
                         => Strongest(e)' >= Strongest(e)]_vars

\* A vector is the one of its affinity's text under the active model, also when
\* affinities are merged, or reinforced while they are embedded again.
VectorsMatch ==
  \A k \in DOMAIN vec : k[1] = active /\ vec[k] = <<k[1], aff[k].text>>

\* With nothing running, and nothing failed or given up since the last reconciliation,
\* every affinity points at something its entry has: cleaning up misses no feedback that
\* came between the reading of the old ids and the change, or from a search that
\* read its results before it.
PrecisionOwned ==
  settled /\ job = NoJob /\ NoPasses =>
    \A k \in DOMAIN aff : /\ k[2] \in indexed
                          /\ \A p \in {"block", "chunk"} : k[3][p] \in {0, at[k[2]][p]}
=============================================================================
