------------------------------ MODULE Channels ------------------------------
(***************************************************************************)
(* Channels: append-only message logs with one read cursor for each        *)
(* subscriber, kept in SQLite.  A daemon works through one connection      *)
(* behind a mutex, but two connections may be open: after system.restart   *)
(* calls in flight finish on the old one, and a shim that could not reach  *)
(* the resident daemon serves in its own process.  What keeps them apart   *)
(* is SQLite's file lock: who reads in a transaction holds it shared, who  *)
(* writes reserves it, and nobody commits over a shared lock.              *)
(*                                                                         *)
(* A message is its seq and its channel.  Reads without a subscriber       *)
(* (since, tail, list) change nothing and are left out; a batch counts as  *)
(* handed over when its transaction commits, whether the answer arrives or *)
(* not.                                                                    *)
(***************************************************************************)
EXTENDS Naturals, FiniteSets

CONSTANTS
  Channel,      \* channel names
  Subscribers,  \* subscriber names; agents that use one name share its cursor
  NoKey,
  Conns,        \* connections to the database
  Limits,       \* values of recv's limit
  MaxSeq,       \* bound: messages sent
  MaxPurges,    \* bound: purges
  MaxResets     \* bound: unsubscribes

Keys == Channel \X Subscribers

ASSUME ConstantsAssumption ==
  /\ NoKey \notin Keys
  /\ Limits \subseteq Nat \ {0}
  /\ MaxSeq \in Nat /\ MaxPurges \in Nat /\ MaxResets \in Nat

VARIABLES
  log,       \* channel_messages: pairs of seq and channel
  nextSeq,   \* sqlite_sequence: the next AUTOINCREMENT value
  cursor,    \* channel_cursors: last_seq of each key, 0 when there is no row
  tx,        \* tx[c]: the recv that connection c is in the middle of
  counts,    \* purges and unsubscribes so far
  handed     \* history: what each subscription was handed so far

vars == <<log, nextSeq, cursor, tx, counts, handed>>

NoTx == [pc |-> "idle", key |-> NoKey, items |-> {}]

Init ==
  /\ log = {}
  /\ nextSeq = 1
  /\ cursor = [k \in Keys |-> 0]
  /\ tx = [c \in Conns |-> NoTx]
  /\ counts = [purges |-> 0, resets |-> 0]
  /\ handed = [k \in Keys |-> {}]

Idle(c) == tx[c].pc = "idle"

\* A statement outside a transaction commits at once: it waits for every lock.
FileFree == \A c \in Conns : Idle(c)

-----------------------------------------------------------------------------

\* Slip: without AUTOINCREMENT the seq is one more than the greatest in the table.
SendReuses(ch) ==
  /\ FileFree /\ nextSeq <= MaxSeq
  /\ \E s \in 1 .. nextSeq :
       /\ \A m \in log : m[1] < s
       /\ s = 1 \/ \E m \in log : m[1] = s - 1
       /\ log' = log \union {<<s, ch>>}
  /\ nextSeq' = nextSeq + 1
  /\ UNCHANGED <<cursor, tx, counts, handed>>

Send(ch) ==
  /\ FileFree /\ nextSeq <= MaxSeq
  /\ log' = log \union {<<nextSeq, ch>>}
  /\ nextSeq' = nextSeq + 1
  /\ UNCHANGED <<cursor, tx, counts, handed>>

\* The messages of a channel that lie beyond a position.
After(ch, from) == {s \in 1 .. nextSeq - 1 : <<s, ch>> \in log /\ s > from}

\* ORDER BY seq ASC LIMIT limit
ReadAfter(ch, from, limit) ==
  {s \in After(ch, from) : Cardinality({t \in After(ch, from) : t <= s}) <= limit}

\* The cursor and the batch after it are read under one shared lock.
RecvRead(c, k, limit) ==
  /\ Idle(c)
  /\ tx' = [tx EXCEPT ![c] = [pc |-> "shared", key |-> k,
                              items |-> ReadAfter(k[1], cursor[k], limit)]]
  /\ UNCHANGED <<log, nextSeq, cursor, counts, handed>>

\* Nothing to read: no cursor is written.
RecvEmpty(c) ==
  /\ tx[c].pc = "shared" /\ tx[c].items = {}
  /\ tx' = [tx EXCEPT ![c] = NoTx]
  /\ UNCHANGED <<log, nextSeq, cursor, counts, handed>>

\* The upsert of the cursor reserves the file: one writer at a time.
RecvWrite(c) ==
  /\ tx[c].pc = "shared" /\ tx[c].items # {}
  /\ \A d \in Conns : tx[d].pc # "reserved"
  /\ tx' = [tx EXCEPT ![c].pc = "reserved"]
  /\ UNCHANGED <<log, nextSeq, cursor, counts, handed>>

\* Slip: the transaction stays open on the connection after an error.
RecvFailsOpen(c) ==
  /\ tx[c].pc = "reserved"
  /\ tx' = [tx EXCEPT ![c].pc = "idle"]
  /\ UNCHANGED <<log, nextSeq, cursor, counts, handed>>

\* SQLITE_BUSY, or the process is killed: the transaction is rolled back.
RecvFails(c) ==
  /\ ~Idle(c)
  /\ tx' = [tx EXCEPT ![c] = NoTx]
  /\ UNCHANGED <<log, nextSeq, cursor, counts, handed>>

\* write_cursor: MAX(last_seq, excluded.last_seq).
Advance(k, last) ==
  cursor' = [cursor EXCEPT ![k] = IF cursor[k] < last THEN last ELSE cursor[k]]

\* The batch is handed over and the cursor moves to its last message.
HandOver(c, k) ==
  /\ \E last \in tx[c].items : (\A s \in tx[c].items : s <= last) /\ Advance(k, last)
  /\ handed' = [handed EXCEPT ![k] = handed[k] \union tx[c].items]
  /\ tx' = [tx EXCEPT ![c] = NoTx]
  /\ UNCHANGED <<log, nextSeq, counts>>

\* Slip: read and write are not one transaction, so others read in between.
RecvCommitShared(c) ==
  /\ tx[c].pc = "reserved"
  /\ HandOver(c, tx[c].key)

\* COMMIT waits until nobody else reads.
RecvCommit(c) ==
  /\ tx[c].pc = "reserved"
  /\ \A d \in Conns \ {c} : Idle(d)
  /\ HandOver(c, tx[c].key)

\* The cursors stay where they are.
Purge(ch, before) ==
  /\ FileFree
  /\ counts.purges < MaxPurges
  /\ counts' = [counts EXCEPT !.purges = @ + 1]
  /\ log' = {m \in log : m[2] = ch => m[1] >= before}
  /\ UNCHANGED <<nextSeq, cursor, tx, handed>>

\* The next recv under this name starts a subscription anew.
Unsubscribe(k) ==
  /\ FileFree
  /\ cursor[k] # 0
  /\ counts.resets < MaxResets
  /\ counts' = [counts EXCEPT !.resets = @ + 1]
  /\ cursor' = [cursor EXCEPT ![k] = 0]
  /\ handed' = [handed EXCEPT ![k] = {}]
  /\ UNCHANGED <<log, nextSeq, tx>>

Next ==
  \/ \E ch \in Channel : Send(ch) \/ \E before \in 1 .. nextSeq : Purge(ch, before)
  \/ \E k \in Keys : Unsubscribe(k)
  \/ \E c \in Conns :
       \/ \E k \in Keys, limit \in Limits : RecvRead(c, k, limit)
       \/ RecvEmpty(c) \/ RecvWrite(c) \/ RecvFails(c) \/ RecvCommit(c)

Spec == Init /\ [][Next]_vars

-----------------------------------------------------------------------------

\* Types; a connection without a transaction remembers nothing of the last one,
\* and only a batch with messages reserves the file.
TypeOK ==
  /\ nextSeq \in Nat \ {0}
  /\ log \subseteq (1 .. nextSeq - 1) \X Channel
  /\ cursor \in [Keys -> 0 .. nextSeq - 1]
  /\ handed \in [Keys -> SUBSET (1 .. nextSeq - 1)]
  /\ counts \in [purges : Nat, resets : Nat]
  /\ tx \in [Conns -> {NoTx} \union
               [pc : {"shared", "reserved"}, key : Keys, items : SUBSET (1 .. nextSeq - 1)]]
  /\ \A c \in Conns : tx[c].pc = "reserved" => tx[c].items # {}

\* A message at or before the cursor was handed to the subscription, unless it
\* was purged: paging with any limit strands nothing, and a message sent after a
\* purge never falls behind a cursor ("seq is never reused").
NoneSkipped ==
  \A k \in Keys, s \in 1 .. nextSeq - 1 :
    <<s, k[1]>> \in log /\ s <= cursor[k] => s \in handed[k]

\* At most once and in order: a batch that is handed over lies after everything
\* the subscription was handed before, also when agents on two connections share
\* the subscriber name.
HandedOnce ==
  [][\A c \in Conns : RecvCommit(c) =>
       \A s \in tx[c].items, t \in handed[tx[c].key] : t < s]_vars

-----------------------------------------------------------------------------

\* Why they hold: everything handed lies at or before the cursor, and a batch in
\* the making is still the messages right after the cursor.
BatchOK(c) ==
  LET k == tx[c].key IN
  ~Idle(c) =>
    /\ tx[c].items \subseteq After(k[1], cursor[k])
    /\ \A s \in tx[c].items, t \in After(k[1], cursor[k]) : t <= s => t \in tx[c].items

BehindCursor == \A k \in Keys : \A s \in handed[k] : s <= cursor[k]

ChannelInv == TypeOK /\ NoneSkipped /\ BehindCursor /\ \A c \in Conns : BatchOK(c)
=============================================================================
