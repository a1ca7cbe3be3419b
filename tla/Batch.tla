-------------------------------- MODULE Batch --------------------------------
(* The batch RPC (daemon/src/handlers/batch.rs): one transaction of entry and   *)
(* link operations that may name the results of earlier ones by $ref, rolled    *)
(* back as a whole when one fails, then, after the COMMIT and without the       *)
(* connection, the cleaning up of learned signals and the embedding of what     *)
(* was touched, beside index passes. A batch is its operations in the order in  *)
(* which they run; its text is left out.                                       *)
EXTENDS Naturals, Sequences

CONSTANTS Handles,  \* the `id`s an operation may be given for $ref
          NoHandle, \* an operation without one
          MaxIds,   \* bound on entries and links ever created
          MaxOps    \* bound on the operations of a batch (1000 in the code)

BatchAssumption == MaxIds \in Nat /\ MaxOps \in Nat /\ NoHandle \notin Handles

Ids == 1..MaxIds
NoId == 0
Link == [id : Ids, ends : Ids \X Ids]

VARIABLES db,      \* the tables: entries, links, entries with vectors
          files,   \* entry directories
          signals, \* entries with learned signals
          minted,  \* ids given out
          tx       \* the batch under way

vars == <<db, files, signals, minted, tx>>

DB == [rows : SUBSET Ids, links : SUBSET Link, vecs : SUBSET Ids]
\* gone, touched: deleted by the committed batch, and created or updated by it; redone:
\* those of them that a pass has re-indexed since; listed: whose chunks the batch has
\* listed and no pass has replaced; left: to be embedded yet; at: with the provider.
NoTx == [pc |-> "idle", before |-> [rows |-> {}, links |-> {}, vecs |-> {}], names |-> <<>>,
         res |-> <<>>, made |-> {}, gone |-> {}, left |-> {}, uncleaned |-> FALSE, answer |-> "none",
         touched |-> {}, at |-> NoId, listed |-> {}, redone |-> {}]

TypeOK ==
  /\ db \in DB
  /\ files \subseteq Ids /\ signals \subseteq Ids /\ minted \in 0..MaxIds
  /\ tx.pc \in {"idle", "ops", "signals", "embed", "await", "done"}
  /\ tx.before \in DB
  /\ Len(tx.res) \in 0..MaxOps /\ Len(tx.names) = Len(tx.res)
  /\ \A i \in 1..Len(tx.res) : tx.res[i] \in 0..MaxIds
  /\ tx.made \subseteq Ids /\ tx.gone \subseteq Ids /\ tx.left \subseteq Ids
  /\ tx.uncleaned \in BOOLEAN
  /\ tx.answer \in {"none", "ok", "error"}
  /\ tx.touched \subseteq Ids /\ tx.listed \subseteq Ids /\ tx.redone \subseteq Ids
  /\ tx.at \in Ids \union {NoId}

Init ==
  /\ db = [rows |-> {}, links |-> {}, vecs |-> {}]
  /\ files = {} /\ signals = {} /\ minted = 0
  /\ tx = NoTx

\* What remains of the tables without entry e: the cascades of its blocks, chunks,
\* vectors and links.
Without(e) ==
  [rows |-> db.rows \ {e}, vecs |-> db.vecs \ {e},
   links |-> {l \in db.links : l.ends[1] # e /\ l.ends[2] # e}]
-----------------------------------------------------------------------------
(* The transaction. The connection is held from BEGIN to COMMIT, without an     *)
(* await in between.                                                           *)
Begin ==
  /\ tx.pc \in {"idle", "done"}
  /\ tx' = [NoTx EXCEPT !.pc = "ops", !.before = db]
  /\ UNCHANGED <<db, files, signals, minted>>

Running == tx.pc = "ops" /\ Len(tx.res) < MaxOps

\* An operation succeeds with the id in its result, which later ones may name.
Result(h, id) ==
  [tx EXCEPT !.res = Append(@, id), !.names = Append(@, h)]

\* id_to_index: of two operations with one name the later is meant.
Named(h) == {i \in 1..Len(tx.names) : tx.names[i] = h /\ \A j \in (i + 1)..Len(tx.names) : tx.names[j] # h}

\* A parameter is an id or {"$ref": "h.id"}. A name that is unknown, or whose
\* result has no id, fails the operation.
Arg == Ids \union Handles
Resolve(a) == IF a \in Handles THEN {tx.res[i] : i \in Named(a)} \ {NoId} ELSE {a}

\* The file is written before the row.
Create(h) ==
  /\ Running /\ minted < MaxIds
  /\ LET e == minted + 1 IN
     /\ minted' = e
     /\ files' = files \union {e}
     /\ db' = [db EXCEPT !.rows = @ \union {e}]
     /\ tx' = [Result(h, e) EXCEPT !.made = @ \union {e}, !.left = @ \union {e}]
  /\ UNCHANGED signals

\* entry.update writes the row only. What is embedded later is read from the
\* parameters as they came in, before $refs are resolved.
Update(a, h) ==
  /\ Running
  /\ \E e \in Resolve(a) \intersect db.rows :
       tx' = [Result(h, e) EXCEPT !.left = IF a \in Ids THEN @ \union {e} ELSE @]
  /\ UNCHANGED <<db, files, signals, minted>>

\* entry.delete leaves the directory, and its result has no id.
Delete(a, h) ==
  /\ Running
  /\ \E e \in Resolve(a) \intersect db.rows :
       /\ db' = Without(e)
       /\ tx' = [Result(h, NoId) EXCEPT !.gone = @ \union {e}]
  /\ UNCHANGED <<files, signals, minted>>

LinkCreate(a, b, h) ==
  /\ Running /\ minted < MaxIds
  /\ \E s \in Resolve(a) \intersect db.rows, t \in Resolve(b) \intersect db.rows :
       /\ \A l \in db.links : l.ends # <<s, t>>
       /\ db' = [db EXCEPT !.links = @ \union {[id |-> minted + 1, ends |-> <<s, t>>]}]
  /\ minted' = minted + 1
  /\ tx' = Result(h, minted + 1)
  /\ UNCHANGED <<files, signals>>

LinkDelete(a, h) ==
  /\ Running
  /\ \E l \in db.links :
       /\ l.id \in Resolve(a)
       /\ db' = [db EXCEPT !.links = @ \ {l}]
  /\ tx' = Result(h, NoId)
  /\ UNCHANGED <<files, signals, minted>>

Ended(answer) == [NoTx EXCEPT !.pc = "done", !.answer = answer]

RolledBack ==
  /\ db' = tx.before
  /\ tx' = Ended("error")

\* Slip: a failed operation ends the loop and what came before it is committed.
FailsAfterCommit ==
  /\ tx.pc = "ops"
  /\ tx' = Ended("error")
  /\ UNCHANGED <<db, files, signals, minted>>

\* An operation fails: its method, its parameters, a $ref or the row it needs. The
\* others are skipped. (That COMMIT itself fails is left out.)
Fails ==
  /\ tx.pc = "ops"
  /\ RolledBack
  /\ UNCHANGED <<files, signals, minted>>

\* entry.create fails once its file is there: the directory is removed if an
\* attachment is to blame, and left otherwise.
CreateFails ==
  /\ Running /\ minted < MaxIds
  /\ RolledBack
  /\ minted' = minted + 1
  /\ files' \in {files, files \union {minted + 1}}
  /\ UNCHANGED signals

Commit ==
  /\ tx.pc = "ops" /\ tx.res # <<>>
  /\ tx' = [NoTx EXCEPT !.pc = "signals", !.gone = tx.gone, !.left = tx.left, !.touched = tx.left]
  /\ UNCHANGED <<db, files, signals, minted>>
-----------------------------------------------------------------------------
(* After it.                                                                  *)

\* delete_entries_signals in a transaction of its own.
CleanSignals ==
  /\ tx.pc = "signals"
  /\ \/ /\ signals' = signals \ tx.gone
        /\ tx' = [tx EXCEPT !.pc = "embed"]
     \/ /\ tx.gone # {}
        /\ tx' = [tx EXCEPT !.pc = "embed", !.uncleaned = TRUE]
        /\ UNCHANGED signals
  /\ UNCHANGED <<db, files, minted>>

Listed(e) == [tx EXCEPT !.pc = "await", !.at = e, !.left = @ \ {e}, !.listed = @ \union {e}]

\* embed_entry_chunks lists the chunks of an entry; without any it is done.
ListChunks ==
  /\ tx.pc = "embed"
  /\ \E e \in tx.left :
       \/ e \in db.rows /\ tx' = Listed(e)
       \/ e \notin db.rows /\ tx' = [tx EXCEPT !.left = @ \ {e}]
  /\ UNCHANGED <<db, files, signals, minted>>

\* Once the provider has answered, the vectors are written under the ids of the
\* chunks that were listed: those that a pass has made since get none.
WriteVectors ==
  /\ tx.pc = "await"
  /\ db' = [db EXCEPT !.vecs = @ \union ({tx.at} \intersect tx.listed)]
  /\ tx' = [tx EXCEPT !.pc = "embed", !.at = NoId]
  /\ UNCHANGED <<files, signals, minted>>

\* Slip: the provider's error is dropped.
EmbedFailureIgnored ==
  /\ tx.pc = "await"
  /\ tx' = [tx EXCEPT !.pc = "embed", !.at = NoId]
  /\ UNCHANGED <<db, files, signals, minted>>

\* The provider's error comes first, before that of the signals.
EmbedFails ==
  /\ tx.pc = "await"
  /\ tx' = Ended("error")
  /\ UNCHANGED <<db, files, signals, minted>>

Answer ==
  /\ tx.pc = "embed" /\ tx.left = {}
  /\ tx' = Ended(IF tx.uncleaned THEN "error" ELSE "ok")
  /\ UNCHANGED <<db, files, signals, minted>>
-----------------------------------------------------------------------------
(* Beside it, index passes and feedback: what needs the connection waits for    *)
(* the transaction. What a pass does next never depends on the batch, so that   *)
(* any number of them are taken to be under way, each step of one possible at   *)
(* any time; that they reconcile the signals is left out.                       *)

Remade(e) == [Without(e) EXCEPT !.rows = @ \union {e}]

\* reindex_one, of a directory with or without a row: the row and its chunks are
\* new, and its vectors and links are gone.
Reindex(e) ==
  /\ tx.pc # "ops" /\ e \in files
  /\ db' = Remade(e)
  /\ tx' = [tx EXCEPT !.listed = @ \ {e},
                      !.redone = @ \union ({e} \intersect (tx.touched \union tx.gone))]
  /\ UNCHANGED <<files, signals, minted>>

\* A pass deletes the row of an entry whose directory it did not find, be it that it
\* looked before the directory was made.
Sweep(e) ==
  /\ tx.pc # "ops" /\ e \in db.rows
  /\ db' = Without(e)
  /\ tx' = [tx EXCEPT !.listed = @ \ {e}]
  /\ UNCHANGED <<files, signals, minted>>

\* A rebuild begins by emptying the tables.
Wipe ==
  /\ tx.pc # "ops" /\ db.rows # {}
  /\ db' = [rows |-> {}, links |-> {}, vecs |-> {}]
  /\ tx' = [tx EXCEPT !.listed = {}]
  /\ UNCHANGED <<files, signals, minted>>

\* A pass embeds, in the end, what it has re-indexed, unless the provider fails it.
PassEmbeds(e) ==
  /\ tx.pc # "ops" /\ e \in db.rows \ db.vecs
  /\ db' = [db EXCEPT !.vecs = @ \union {e}]
  /\ UNCHANGED <<files, signals, minted, tx>>

\* Feedback on a search result, the first that leaves a signal.
Learn(e) ==
  /\ tx.pc # "ops" /\ e \in db.rows \ signals
  /\ signals' = signals \union {e}
  /\ UNCHANGED <<db, files, minted, tx>>

Op ==
  \E h \in Handles \union {NoHandle} :
    \/ Create(h)
    \/ \E a \in Arg : Update(a, h) \/ Delete(a, h) \/ LinkDelete(a, h)
    \/ \E a, b \in Arg : LinkCreate(a, b, h)

Next ==
  \/ Begin \/ Op \/ Fails \/ CreateFails \/ Commit
  \/ CleanSignals \/ ListChunks \/ WriteVectors \/ EmbedFails \/ Answer
  \/ Wipe \/ \E e \in Ids : Reindex(e) \/ Sweep(e) \/ PassEmbeds(e) \/ Learn(e)

Spec == Init /\ [][Next]_vars
-----------------------------------------------------------------------------
\* The record of what a batch did is dropped when it is answered, so the action
\* properties read it in the state before.

\* A batch is all or nothing: an error inside the transaction leaves the tables as
\* BEGIN found them, whatever its earlier operations did and whichever file they
\* wrote; a COMMIT leaves every entry that was created and not deleted by a later
\* operation, and no row that was there is lost but by an operation of the batch.
\* Learned signals outlive a batch that is rolled back: they are removed only once
\* the deletes they belong to are committed.
AllOrNothing ==
  [][/\ signals \ signals' # {} => tx.pc = "signals" /\ signals \ signals' \subseteq tx.gone
     /\ tx.pc = "ops" /\ tx'.pc # "ops"
       => IF tx'.answer = "error" THEN db' = tx.before
          ELSE /\ db'.rows = (tx.before.rows \union tx.made) \ tx.gone
               /\ \A l \in tx.before.links \ db'.links :
                    \/ \E n \in 1..2 : l.ends[n] \in tx.gone
                    \/ \E i \in 1..Len(tx.res) : tx.res[i] = NoId]_vars

\* What a COMMIT leaves to be embedded has all that was created, and "ok" says that
\* everything after it was done too. Each entry created or updated that has a row has
\* its vectors, whatever passes did beside the batch, unless one of them re-indexed it
\* after the batch had listed its chunks: only then are they left for that pass to
\* embed. And no learned signal is left of an entry that was deleted, unless a pass
\* has brought the entry back.
OkIsComplete ==
  [][/\ tx.pc = "ops" /\ tx'.pc = "signals" => tx.made \subseteq tx'.touched
     /\ tx.pc # "done" /\ tx'.pc = "done" /\ tx'.answer = "ok"
          => /\ tx.touched \intersect db.rows \subseteq db.vecs \union (tx.redone \ tx.listed)
             /\ tx.gone \intersect signals \subseteq tx.redone]_vars

===============================================================================
