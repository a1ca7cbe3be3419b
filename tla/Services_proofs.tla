--------------------------- MODULE Services_proofs ---------------------------
(***************************************************************************)
(* Proofs about the components of MCServices, which share no variable: the *)
(* channels, for any channels, subscribers, connections and limits; the    *)
(* batch RPC, for batches of any length and any interference of index      *)
(* passes and feedback; the event log, its consumers and the replicas they *)
(* build, for any calls and purges; the vectors of chunks, for any runs,   *)
(* changes of the blocks and reboots.                                      *)
(***************************************************************************)
EXTENDS MCServices, Sequences, FiniteSetTheorems, WellFoundedInduction, TLAPS

-----------------------------------------------------------------------------
\* What happens to one of them beside the others is a behaviour of it.
LEMMA ServicesHave == ServicesSpec => Spec /\ Bat!Spec /\ Con!Spec /\ Vec!Spec
<1>1. ServicesInit => Init /\ Bat!Init /\ Con!Init /\ Vec!Init
  BY DEF ServicesInit
<1>2. [ServicesNext]_all =>
        [Next]_vars /\ [Bat!Next]_Bat!vars /\ [Con!Next]_Con!vars /\ [Vec!Next]_Vec!vars
  <2>1. /\ UNCHANGED chn => UNCHANGED vars
        /\ UNCHANGED bat => UNCHANGED Bat!vars
        /\ UNCHANGED con => UNCHANGED Con!vars
        /\ UNCHANGED vcs => UNCHANGED Vec!vars
    BY DEF chn, bat, con, vcs, Bat!vars, Con!vars, Con!tables, Con!follower, Vec!vars
  <2>2. UNCHANGED all => UNCHANGED <<chn, bat, con, vcs>>
    BY DEF all
  <2> QED BY <2>1, <2>2 DEF ServicesNext
<1> QED BY <1>1, <1>2, PTL DEF ServicesSpec, Spec, Bat!Spec, Con!Spec, Vec!Spec

LEMMA Assumed ==
  Bat!BatchAssumption /\ Con!ConversationsAssumption /\ Vec!VectorsAssumption
BY ServicesAssumption

-----------------------------------------------------------------------------
(* The channels.                                                           *)

\* A connection in the middle of a recv has its key and its batch.
LEMMA OpenTx ==
  ASSUME TypeOK, NEW c \in Conns, ~Idle(c)
  PROVE  /\ tx[c].pc \in {"shared", "reserved"}
         /\ tx[c].key \in Keys
         /\ tx[c].items \subseteq 1 .. nextSeq - 1
BY DEF TypeOK, Idle, NoTx

\* read_after returns an initial segment of what lies beyond the position.
LEMMA ReadAfterIsInitial ==
  ASSUME TypeOK, NEW k \in Keys, NEW limit \in Nat
  PROVE  LET start == cursor[k]
             got == ReadAfter(k[1], start, limit) IN
         /\ got \subseteq After(k[1], start)
         /\ \A s \in got, t \in After(k[1], start) : t <= s => t \in got
<1> DEFINE beyond == After(k[1], cursor[k])
           upTo(s) == {t \in beyond : t <= s}
<1>1. beyond \subseteq 1 .. nextSeq - 1  BY DEF After
<1>2. nextSeq - 1 \in Int  BY DEF TypeOK
<1>3. IsFiniteSet(beyond)
  <2>1. IsFiniteSet(1 .. nextSeq - 1)  BY <1>2, FS_Interval
  <2> QED  BY <2>1, <1>1, FS_Subset
<1>4. ASSUME NEW s \in ReadAfter(k[1], cursor[k], limit), NEW t \in beyond, t <= s
      PROVE  t \in ReadAfter(k[1], cursor[k], limit)
  <2>1. s \in beyond /\ Cardinality(upTo(s)) <= limit  BY <1>4 DEF ReadAfter
  <2>2. upTo(t) \subseteq upTo(s)  BY <1>1, <1>2, <1>4, <2>1
  <2>3. IsFiniteSet(upTo(s))  BY <1>3, FS_Subset, upTo(s) \in SUBSET beyond
  <2>4. IsFiniteSet(upTo(t))  BY <2>2, <2>3, FS_Subset
  <2>5. Cardinality(upTo(t)) <= Cardinality(upTo(s))  BY <2>2, <2>3, FS_Subset
  <2>6. Cardinality(upTo(t)) \in Nat /\ Cardinality(upTo(s)) \in Nat
    BY <2>3, <2>4, FS_CardinalityType
  <2>7. Cardinality(upTo(t)) <= limit  BY <2>1, <2>5, <2>6
  <2> QED  BY <2>7, <1>4 DEF ReadAfter
<1> QED  BY <1>4 DEF ReadAfter

-----------------------------------------------------------------------------

LEMMA InitOK == Init => ChannelInv
BY DEF Init, ChannelInv, TypeOK, NoneSkipped, BehindCursor, BatchOK, Idle, NoTx, Keys

\* A new message lies after every cursor.
LEMMA SendOK ==
  ASSUME ChannelInv, NEW ch \in Channel, Send(ch)
  PROVE  ChannelInv'
<1> USE DEF ChannelInv, Send, FileFree, Idle
<1>1. nextSeq' = nextSeq + 1 /\ nextSeq \in Nat \ {0}  BY DEF TypeOK
<1>2. TypeOK'
  <2>1. log' \subseteq (1 .. nextSeq' - 1) \X Channel  BY <1>1 DEF TypeOK
  <2>2. cursor' \in [Keys -> 0 .. nextSeq' - 1]  BY <1>1 DEF TypeOK
  <2>3. handed' \in [Keys -> SUBSET (1 .. nextSeq' - 1)]  BY <1>1 DEF TypeOK
  <2>4. \A c \in Conns : tx'[c] = NoTx  BY DEF TypeOK, NoTx
  <2>5. tx' \in [Conns -> {NoTx}]  BY <2>4 DEF TypeOK
  <2> QED  BY <1>1, <2>1, <2>2, <2>3, <2>4, <2>5 DEF TypeOK, NoTx
<1>3. NoneSkipped'
  <2> SUFFICES ASSUME NEW k \in Keys, NEW s \in 1 .. nextSeq' - 1,
                      <<s, k[1]>> \in log', s <= cursor'[k]
               PROVE  s \in handed'[k]
    BY DEF NoneSkipped
  <2>1. cursor[k] \in 0 .. nextSeq - 1  BY DEF TypeOK
  <2>2. s < nextSeq  BY <1>1, <2>1
  <2>3. <<s, k[1]>> \in log  BY <2>2, <1>1
  <2> QED  BY <2>2, <2>3, <1>1 DEF NoneSkipped
<1>4. BehindCursor'  BY DEF BehindCursor
<1>5. \A c \in Conns : BatchOK(c)'  BY DEF BatchOK
<1> QED  BY <1>2, <1>3, <1>4, <1>5

LEMMA RecvReadOK ==
  ASSUME ChannelInv, ConstantsAssumption,
         NEW c \in Conns, NEW k \in Keys, NEW limit \in Limits, RecvRead(c, k, limit)
  PROVE  ChannelInv'
<1> USE DEF ChannelInv, RecvRead
<1> DEFINE got == ReadAfter(k[1], cursor[k], limit)
<1>1. /\ got \subseteq After(k[1], cursor[k])
      /\ \A s \in got, t \in After(k[1], cursor[k]) : t <= s => t \in got
  BY ReadAfterIsInitial DEF ConstantsAssumption
<1>2. got \subseteq 1 .. nextSeq - 1  BY <1>1 DEF After
<1> HIDE DEF got
<1>3. tx' = [tx EXCEPT ![c] = [pc |-> "shared", key |-> k, items |-> got]]  BY DEF got
<1>4. TypeOK'  BY <1>2, <1>3 DEF TypeOK
<1>5. NoneSkipped'  BY DEF NoneSkipped
<1>6. BehindCursor'  BY DEF BehindCursor
<1>7. ASSUME NEW d \in Conns PROVE BatchOK(d)'
  <2>1. CASE d = c
    <3>1. tx'[d] = [pc |-> "shared", key |-> k, items |-> got]  BY <2>1, <1>3 DEF TypeOK
    <3>2. tx'[d].key = k /\ tx'[d].items = got  BY <3>1
    <3>3. After(k[1], cursor[k])' = After(k[1], cursor[k])  BY DEF After
    <3> QED  BY <3>2, <3>3, <1>1 DEF BatchOK, got
  <2>2. CASE d # c  BY <2>2, <1>3 DEF BatchOK, Idle, After, TypeOK
  <2> QED  BY <2>1, <2>2
<1> QED  BY <1>4, <1>5, <1>6, <1>7

\* Ending a transaction without a commit changes no table.
LEMMA RollbackOK ==
  ASSUME ChannelInv, NEW c \in Conns, tx' = [tx EXCEPT ![c] = NoTx],
         UNCHANGED <<log, nextSeq, cursor, counts, handed>>
  PROVE  ChannelInv'
<1> USE DEF ChannelInv
<1>1. TypeOK'  BY DEF TypeOK, NoTx
<1>2. NoneSkipped' /\ BehindCursor'  BY DEF NoneSkipped, BehindCursor
<1>3. ASSUME NEW d \in Conns PROVE BatchOK(d)'
  <2>1. CASE d = c  BY <2>1 DEF BatchOK, Idle, NoTx, TypeOK
  <2>2. CASE d # c  BY <2>2 DEF BatchOK, Idle, After, TypeOK
  <2> QED  BY <2>1, <2>2
<1> QED  BY <1>1, <1>2, <1>3

LEMMA RecvWriteOK ==
  ASSUME ChannelInv, NEW c \in Conns, RecvWrite(c)
  PROVE  ChannelInv'
<1> USE DEF ChannelInv, RecvWrite
<1>1. ~Idle(c)  BY DEF Idle
<1>2. TypeOK'
  <2> DEFINE open == [pc : {"shared", "reserved"}, key : Keys, items : SUBSET (1 .. nextSeq - 1)]
  <2>1. tx[c] \in open  BY <1>1 DEF TypeOK, NoTx, Idle
  <2>2. [tx[c] EXCEPT !.pc = "reserved"] \in open  BY <2>1
  <2>3. tx' \in [Conns -> {NoTx} \union open]  BY <2>2 DEF TypeOK
  <2>4. ASSUME NEW d \in Conns, tx'[d].pc = "reserved" PROVE tx'[d].items # {}
    <3>1. tx'[d].items = tx[d].items /\ (d # c => tx'[d] = tx[d])  BY <2>1 DEF TypeOK
    <3> QED  BY <3>1, <2>4 DEF TypeOK
  <2> QED  BY <2>3, <2>4 DEF TypeOK
<1>3. NoneSkipped' /\ BehindCursor'  BY DEF NoneSkipped, BehindCursor
<1>4. ASSUME NEW d \in Conns PROVE BatchOK(d)'
  <2>1. tx'[d].key = tx[d].key /\ tx'[d].items = tx[d].items  BY DEF TypeOK
  <2>2. Idle(d)' => Idle(d)  BY <1>1 DEF Idle, TypeOK
  <2> QED  BY <2>1, <2>2 DEF BatchOK, After, Idle
<1> QED  BY <1>2, <1>3, <1>4

\* The batch is what follows the cursor, up to its new place.
LEMMA RecvCommitOK ==
  ASSUME ChannelInv, NEW c \in Conns, RecvCommit(c)
  PROVE  ChannelInv'
<1> USE DEF ChannelInv, RecvCommit, HandOver
<1> DEFINE k == tx[c].key
           items == tx[c].items
<1>1. ~Idle(c)  BY DEF Idle
<1>2. k \in Keys /\ items \subseteq 1 .. nextSeq - 1  BY <1>1, OpenTx
<1>3. PICK newest \in items : (\A s \in items : s <= newest) /\ Advance(k, newest)  OBVIOUS
<1>4. /\ items \subseteq After(k[1], cursor[k])
      /\ \A s \in items, t \in After(k[1], cursor[k]) : t <= s => t \in items
  BY <1>1 DEF BatchOK
<1>5. cursor[k] \in Nat /\ newest \in Nat /\ cursor[k] < newest
  <2>1. newest \in After(k[1], cursor[k])  BY <1>4
  <2>2. nextSeq \in Nat /\ cursor[k] \in 0 .. nextSeq - 1  BY <1>2 DEF TypeOK
  <2>3. newest \in 1 .. nextSeq - 1 /\ newest > cursor[k]  BY <2>1 DEF After
  <2> QED  BY <2>2, <2>3
<1>6. cursor' = [cursor EXCEPT ![k] = newest]  BY <1>3, <1>5 DEF Advance
<1>7. TypeOK'
  <2>1. tx' \in [Conns -> {NoTx} \union
               [pc : {"shared", "reserved"}, key : Keys, items : SUBSET (1 .. nextSeq - 1)]]
    BY DEF TypeOK
  <2>2. cursor' \in [Keys -> 0 .. nextSeq - 1]  BY <1>2, <1>3, <1>6 DEF TypeOK
  <2>3. handed' \in [Keys -> SUBSET (1 .. nextSeq - 1)]  BY <1>2 DEF TypeOK
  <2> QED  BY <2>1, <2>2, <2>3 DEF TypeOK, NoTx
<1>8. NoneSkipped'
  <2> SUFFICES ASSUME NEW j \in Keys, NEW s \in 1 .. nextSeq - 1,
                      <<s, j[1]>> \in log, s <= cursor'[j]
               PROVE  s \in handed'[j]
    BY DEF NoneSkipped
  <2>1. CASE j # k  BY <2>1, <1>2, <1>6 DEF NoneSkipped, TypeOK
  <2>2. CASE j = k /\ s <= cursor[k]  BY <2>2, <1>2 DEF NoneSkipped, TypeOK
  <2>3. CASE j = k /\ ~(s <= cursor[k])
    <3>1. s <= newest  BY <2>3, <1>2, <1>6 DEF TypeOK
    <3>2. s \in After(k[1], cursor[k])  BY <2>3, <1>5 DEF After
    <3>3. s \in items  BY <3>1, <3>2, <1>3, <1>4
    <3> QED  BY <3>3, <2>3, <1>2 DEF TypeOK
  <2> QED  BY <2>1, <2>2, <2>3
<1>9. BehindCursor'
  <2> SUFFICES ASSUME NEW j \in Keys, NEW s \in handed'[j] PROVE s <= cursor'[j]
    BY DEF BehindCursor
  <2>1. CASE j # k  BY <2>1, <1>2, <1>6 DEF BehindCursor, TypeOK
  <2>2. CASE j = k
    <3>1. cursor'[k] = newest  BY <1>2, <1>6 DEF TypeOK
    <3>2. CASE s \in items  BY <3>1, <3>2, <2>2, <1>3
    <3>3. CASE s \in handed[k]
      <4>1. s <= cursor[k] /\ s \in Nat  BY <3>3, <1>2 DEF BehindCursor, TypeOK
      <4> QED  BY <4>1, <3>1, <2>2, <1>5
    <3> QED  BY <3>2, <3>3, <2>2, <1>2 DEF TypeOK
  <2> QED  BY <2>1, <2>2
<1>10. \A d \in Conns : Idle(d)'  BY DEF Idle, NoTx, TypeOK
<1> QED  BY <1>7, <1>8, <1>9, <1>10 DEF BatchOK

LEMMA PurgeOK ==
  ASSUME ChannelInv, NEW ch \in Channel, NEW before \in Nat, Purge(ch, before)
  PROVE  ChannelInv'
<1> USE DEF ChannelInv, Purge, FileFree
<1>1. TypeOK'  BY DEF TypeOK, NoTx
<1>2. NoneSkipped'  BY DEF NoneSkipped
<1>3. BehindCursor'  BY DEF BehindCursor
<1>4. \A c \in Conns : BatchOK(c)'  BY DEF BatchOK, Idle
<1> QED  BY <1>1, <1>2, <1>3, <1>4

LEMMA UnsubscribeOK ==
  ASSUME ChannelInv, NEW k \in Keys, Unsubscribe(k)
  PROVE  ChannelInv'
<1> USE DEF ChannelInv, Unsubscribe, FileFree
<1>1. TypeOK'
  <2>1. cursor' \in [Keys -> 0 .. nextSeq - 1]  BY DEF TypeOK
  <2>2. handed' \in [Keys -> SUBSET (1 .. nextSeq - 1)]  BY DEF TypeOK
  <2> QED  BY <2>1, <2>2 DEF TypeOK, NoTx
<1>2. NoneSkipped'  BY DEF NoneSkipped, TypeOK
<1>3. BehindCursor'  BY DEF BehindCursor, TypeOK
<1>4. \A c \in Conns : BatchOK(c)'  BY DEF BatchOK, Idle
<1> QED  BY <1>1, <1>2, <1>3, <1>4

LEMMA NextOK ==
  ASSUME ChannelInv, ConstantsAssumption, [Next]_vars
  PROVE  ChannelInv'
<1>1. CASE UNCHANGED vars
  BY <1>1 DEF vars, ChannelInv, TypeOK, NoneSkipped, BehindCursor, BatchOK, Idle, After
<1>2. ASSUME NEW ch \in Channel, Send(ch) PROVE ChannelInv'  BY <1>2, SendOK
<1>3. ASSUME NEW ch \in Channel, NEW before \in 1 .. nextSeq, Purge(ch, before)
      PROVE  ChannelInv'
  BY <1>3, PurgeOK DEF ChannelInv, TypeOK
<1>4. ASSUME NEW k \in Keys, Unsubscribe(k) PROVE ChannelInv'  BY <1>4, UnsubscribeOK
<1>5. ASSUME NEW c \in Conns, NEW k \in Keys, NEW limit \in Limits, RecvRead(c, k, limit)
      PROVE  ChannelInv'
  BY <1>5, RecvReadOK
<1>6. ASSUME NEW c \in Conns, RecvEmpty(c) \/ RecvFails(c) PROVE ChannelInv'
  BY <1>6, RollbackOK DEF RecvEmpty, RecvFails
<1>7. ASSUME NEW c \in Conns, RecvWrite(c) PROVE ChannelInv'  BY <1>7, RecvWriteOK
<1>8. ASSUME NEW c \in Conns, RecvCommit(c) PROVE ChannelInv'  BY <1>8, RecvCommitOK
<1> QED  BY <1>1, <1>2, <1>3, <1>4, <1>5, <1>6, <1>7, <1>8 DEF Next

-----------------------------------------------------------------------------

\* Types, what was handed, and each batch in the making stand in the right
\* relation to the cursors whatever connections interleave.
THEOREM ChannelInvariance == Spec => []ChannelInv
<1> USE ConstantsAssumption
<1>1. Init => ChannelInv  BY InitOK
<1>2. ChannelInv /\ [Next]_vars => ChannelInv'  BY NextOK
<1> QED  BY <1>1, <1>2, PTL DEF Spec

\* Whatever the limits and however purges and sends are ordered, no message at or
\* before a cursor was withheld from its subscription.
THEOREM NothingSkipped == Spec => []NoneSkipped
BY ChannelInvariance, PTL DEF ChannelInv

\* Delivery is at most once and in order, also on two connections.
THEOREM DeliveredOnce == Spec => HandedOnce
<1> DEFINE Step == \A c \in Conns : RecvCommit(c) =>
                     \A s \in tx[c].items, t \in handed[tx[c].key] : t < s
<1>1. ChannelInv => Step
  <2> SUFFICES ASSUME ChannelInv, NEW c \in Conns, RecvCommit(c),
                      NEW s \in tx[c].items, NEW t \in handed[tx[c].key]
               PROVE  t < s
    OBVIOUS
  <2>1. ~Idle(c)  BY DEF RecvCommit, Idle
  <2>2. tx[c].key \in Keys  BY <2>1, OpenTx DEF ChannelInv
  <2>3. s \in Nat /\ s > cursor[tx[c].key]
    <3>1. s \in After(tx[c].key[1], cursor[tx[c].key])  BY <2>1 DEF ChannelInv, BatchOK
    <3>2. nextSeq \in Nat  BY DEF ChannelInv, TypeOK
    <3> QED  BY <3>1, <3>2 DEF After
  <2>4. t \in Nat /\ t <= cursor[tx[c].key]
    BY <2>2 DEF ChannelInv, BehindCursor, TypeOK
  <2>5. cursor[tx[c].key] \in Nat  BY <2>2 DEF ChannelInv, TypeOK
  <2> QED  BY <2>3, <2>4, <2>5
<1>2. ChannelInv /\ [Next]_vars => [Step]_vars  BY <1>1
<1> QED  BY <1>2, ChannelInvariance, PTL DEF Spec, HandedOnce

-----------------------------------------------------------------------------
(* The batch RPC.                                                          *)

TxType == [pc : {"idle", "ops", "signals", "embed", "await", "done"}, before : Bat!DB,
           names : Seq(Handles \union {NoHandle}), res : Seq(Nat),
           made : SUBSET Bat!Ids, gone : SUBSET Bat!Ids, left : SUBSET Bat!Ids,
           uncleaned : BOOLEAN, answer : {"none", "ok", "error"},
           touched : SUBSET Bat!Ids, at : Bat!Ids \union {Bat!NoId},
           listed : SUBSET Bat!Ids, redone : SUBSET Bat!Ids]

\* Types; and no table, directory or record names an id that was not given out.
BatchTypes ==
  /\ db \in Bat!DB /\ batch \in TxType /\ made \in Nat
  /\ files \subseteq Bat!Ids /\ signals \subseteq Bat!Ids
  /\ \A e \in db.rows \union files \union batch.gone \union batch.before.rows : e <= made

\* Inside the transaction the tables are those that BEGIN found, changed by what the
\* record says: a link that is missing went with one of its ends, or by an operation
\* whose result has no id.
Recorded ==
  batch.pc = "ops" =>
    /\ db.rows = (batch.before.rows \union batch.made) \ batch.gone
    /\ batch.made \subseteq batch.left
    /\ \A l \in batch.before.links \ db.links :
         \/ \E n \in 1..2 : l.ends[n] \in batch.gone
         \/ \E i \in 1..Len(batch.res) : batch.res[i] = Bat!NoId

AfterCommit == batch.pc \in {"signals", "embed", "await"}

\* After it, a row of what was created or updated is still on the list, or has the
\* chunks that the batch listed, or is the work of a pass; the chunks that were
\* listed and are still there have their vectors, but for those with the provider;
\* only a pass can bring back what was deleted; and it has no signals otherwise, once
\* they were cleaned up.
Finishing ==
  /\ AfterCommit =>
       /\ batch.touched \intersect db.rows \subseteq batch.left \union batch.listed \union batch.redone
       /\ batch.gone \intersect db.rows \subseteq batch.redone
       /\ batch.listed \subseteq db.vecs \union {batch.at}
       /\ batch.pc # "await" => batch.at = Bat!NoId
  /\ batch.pc \in {"embed", "await"} /\ ~batch.uncleaned => batch.gone \intersect signals \subseteq batch.redone

BatchInv == BatchTypes /\ Recorded /\ Finishing

\* A fresh record of a batch.
LEMMA NoTxType ==
  /\ Bat!NoTx \in TxType
  /\ Bat!NoTx.made = {} /\ Bat!NoTx.gone = {} /\ Bat!NoTx.left = {} /\ Bat!NoTx.res = <<>>
  /\ Bat!NoTx.before.rows = {} /\ ~Bat!NoTx.uncleaned
  /\ Bat!NoTx.at = Bat!NoId /\ Bat!NoTx.listed = {} /\ Bat!NoTx.redone = {}
BY DEF TxType, Bat!NoTx, Bat!DB

LEMMA BatchInit == Bat!BatchAssumption /\ Bat!Init => BatchInv
<1> SUFFICES ASSUME Bat!BatchAssumption, Bat!Init PROVE BatchInv
  OBVIOUS
<1>1. batch = Bat!NoTx /\ batch.pc = "idle"
  BY DEF Bat!Init, Bat!NoTx
<1>2. BatchTypes
  BY <1>1, NoTxType DEF Bat!Init, BatchTypes, Bat!DB
<1> QED BY <1>1, <1>2 DEF BatchInv, Recorded, Finishing, AfterCommit

\* The record of an answered batch is a fresh one.
LEMMA EndedType ==
  ASSUME NEW a \in {"ok", "error"}
  PROVE  /\ Bat!Ended(a) \in TxType /\ Bat!Ended(a).pc = "done" /\ Bat!Ended(a).answer = a
         /\ Bat!Ended(a).gone = {} /\ Bat!Ended(a).before.rows = {}
BY NoTxType DEF Bat!Ended, TxType, Bat!NoTx, Bat!DB

\* An operation that succeeds adds its name and its result to the record.
LEMMA ResultType ==
  ASSUME BatchTypes, NEW x \in Handles \union {NoHandle}, NEW id \in Nat
  PROVE  /\ Bat!Result(x, id) \in TxType
         /\ Bat!Result(x, id).res = Append(batch.res, id)
         /\ Bat!Result(x, id).pc = batch.pc /\ Bat!Result(x, id).before = batch.before
         /\ Bat!Result(x, id).made = batch.made /\ Bat!Result(x, id).gone = batch.gone
         /\ Bat!Result(x, id).left = batch.left /\ Bat!Result(x, id).uncleaned = batch.uncleaned
<1>1. batch \in TxType /\ Append(batch.res, id) \in Seq(Nat)
      /\ Append(batch.names, x) \in Seq(Handles \union {NoHandle})
  BY DEF BatchTypes, TxType
<1>2. Bat!Result(x, id) = [batch EXCEPT !.res = Append(@, id), !.names = Append(@, x)]
  BY DEF Bat!Result
<1> QED BY <1>1, <1>2 DEF TxType

\* An id that was given out stays so.
LEMMA GivenOut ==
  ASSUME BatchTypes
  PROVE  \A id \in db.rows \union files \union batch.gone \union batch.before.rows :
           id \in Nat /\ id <= made /\ id <= made + 1
BY DEF BatchTypes, TxType, Bat!DB, Bat!Ids

\* Results without an id stay on record.
LEMMA ResultsKept ==
  ASSUME NEW s \in Seq(Nat), NEW id \in Nat, NEW v
  PROVE  /\ (\E i \in 1..Len(s) : s[i] = v) => \E i \in 1..Len(Append(s, id)) : Append(s, id)[i] = v
         /\ \E i \in 1..Len(Append(s, id)) : Append(s, id)[i] = id
<1>1. Len(Append(s, id)) = Len(s) + 1 /\ \A i \in 1..Len(s) : Append(s, id)[i] = s[i]
  OBVIOUS
<1>2. Append(s, id)[Len(s) + 1] = id
  OBVIOUS
<1> QED BY <1>1, <1>2

\* Each operation keeps the invariant.
LEMMA CreateStep ==
  ASSUME Bat!BatchAssumption, BatchInv, NEW x \in Handles \union {NoHandle}, Bat!Create(x)
  PROVE  BatchInv'
<1> DEFINE e == made + 1
<1>1. e \in Bat!Ids /\ e \in Nat /\ batch.pc = "ops"
  BY DEF Bat!Create, Bat!Running, Bat!Ids, Bat!BatchAssumption, BatchInv, BatchTypes
<1>2. /\ db' = [db EXCEPT !.rows = @ \union {e}] /\ files' = files \union {e}
      /\ batch' = [Bat!Result(x, e) EXCEPT !.made = @ \union {e}, !.left = @ \union {e}]
      /\ made' = e /\ signals' = signals
  BY DEF Bat!Create
<1> HIDE DEF e
<1>3. /\ Bat!Result(x, e) \in TxType /\ Bat!Result(x, e).res = Append(batch.res, e)
      /\ Bat!Result(x, e).pc = "ops" /\ Bat!Result(x, e).before = batch.before
      /\ Bat!Result(x, e).made = batch.made /\ Bat!Result(x, e).gone = batch.gone
      /\ Bat!Result(x, e).left = batch.left
  BY <1>1, ResultType DEF BatchInv
<1>4. /\ batch' \in TxType /\ batch'.res = Append(batch.res, e) /\ batch'.pc = "ops"
      /\ batch'.before = batch.before /\ batch'.gone = batch.gone
      /\ batch'.made = batch.made \union {e} /\ batch'.left = batch.left \union {e}
  <2> DEFINE r == Bat!Result(x, e)
  <2>1. batch' = [r EXCEPT !.made = @ \union {e}, !.left = @ \union {e}]
    BY <1>2
  <2> HIDE DEF r
  <2>2. r \in TxType /\ r.made = batch.made /\ r.left = batch.left /\ r.pc = "ops"
        /\ r.res = Append(batch.res, e) /\ r.before = batch.before /\ r.gone = batch.gone
    BY <1>3 DEF r
  <2> QED BY <1>1, <2>1, <2>2 DEF TxType
<1>5. /\ db' \in Bat!DB /\ db'.rows = db.rows \union {e} /\ db'.links = db.links
  BY <1>1, <1>2 DEF BatchInv, BatchTypes, Bat!DB
<1>6. BatchTypes'
  <2>1. \A id \in db'.rows \union files' \union batch'.gone \union batch'.before.rows : id <= made'
    BY <1>1, <1>2, <1>4, <1>5, GivenOut DEF BatchInv, e
  <2> QED BY <1>1, <1>2, <1>4, <1>5, <2>1 DEF BatchInv, BatchTypes
<1>7. e \notin batch.gone
  BY <1>1 DEF BatchInv, BatchTypes, e
<1>8. \A l \in batch'.before.links \ db'.links :
        \/ \E n \in 1..2 : l.ends[n] \in batch'.gone
        \/ \E i \in 1..Len(batch'.res) : batch'.res[i] = Bat!NoId
  <2>1. batch.res \in Seq(Nat)
    BY DEF BatchInv, BatchTypes, TxType
  <2> QED BY <1>1, <1>4, <1>5, <2>1, ResultsKept DEF BatchInv, Recorded
<1>9. Recorded'
  BY <1>1, <1>4, <1>5, <1>7, <1>8 DEF BatchInv, Recorded
<1> QED BY <1>4, <1>6, <1>9 DEF BatchInv, Finishing, AfterCommit

LEMMA UpdateStep ==
  ASSUME BatchInv, NEW x \in Handles \union {NoHandle}, NEW a \in Bat!Arg, Bat!Update(a, x)
  PROVE  BatchInv'
<1>1. PICK e \in Bat!Resolve(a) \intersect db.rows :
        batch' = [Bat!Result(x, e) EXCEPT !.left = IF a \in Bat!Ids THEN @ \union {e} ELSE @]
  BY DEF Bat!Update
<1>2. e \in Bat!Ids /\ e \in Nat /\ batch.pc = "ops" /\ UNCHANGED <<db, files, signals, made>>
  BY DEF Bat!Update, Bat!Running, Bat!Ids, BatchInv, BatchTypes, Bat!DB
<1>3. /\ batch' \in TxType /\ batch'.res = Append(batch.res, e) /\ batch'.pc = "ops"
      /\ batch'.before = batch.before /\ batch'.gone = batch.gone
      /\ batch'.made = batch.made /\ batch.left \subseteq batch'.left
  <2> DEFINE r == Bat!Result(x, e)
  <2>1. r \in TxType /\ r.made = batch.made /\ r.left = batch.left /\ r.pc = "ops"
        /\ r.res = Append(batch.res, e) /\ r.before = batch.before /\ r.gone = batch.gone
    BY <1>2, ResultType DEF BatchInv
  <2>2. batch' = [r EXCEPT !.left = IF a \in Bat!Ids THEN @ \union {e} ELSE @]
    BY <1>1
  <2> HIDE DEF r
  <2> QED BY <1>2, <2>1, <2>2 DEF TxType
<1>4. BatchTypes'
  BY <1>2, <1>3 DEF BatchInv, BatchTypes
<1>5. batch.res \in Seq(Nat)
  BY DEF BatchInv, BatchTypes, TxType
<1>6. Recorded'
  BY <1>2, <1>3, <1>5, ResultsKept DEF BatchInv, Recorded
<1> QED BY <1>3, <1>4, <1>6 DEF BatchInv, Finishing, AfterCommit

LEMMA DeleteStep ==
  ASSUME BatchInv, NEW x \in Handles \union {NoHandle}, NEW a \in Bat!Arg, Bat!Delete(a, x)
  PROVE  BatchInv'
<1>1. PICK e \in Bat!Resolve(a) \intersect db.rows :
        /\ db' = Bat!Without(e)
        /\ batch' = [Bat!Result(x, Bat!NoId) EXCEPT !.gone = @ \union {e}]
  BY DEF Bat!Delete
<1>2. /\ e \in Bat!Ids /\ e \in Nat /\ e <= made /\ batch.pc = "ops" /\ Bat!NoId \in Nat
      /\ UNCHANGED <<files, signals, made>>
  BY DEF Bat!Delete, Bat!Running, Bat!Ids, BatchInv, BatchTypes, Bat!DB, Bat!NoId
<1>3. /\ batch' \in TxType /\ batch'.res = Append(batch.res, Bat!NoId) /\ batch'.pc = "ops"
      /\ batch'.before = batch.before /\ batch'.gone = batch.gone \union {e}
      /\ batch'.made = batch.made /\ batch.left = batch'.left
  <2> DEFINE r == Bat!Result(x, Bat!NoId)
  <2>1. r \in TxType /\ r.made = batch.made /\ r.left = batch.left /\ r.pc = "ops"
        /\ r.res = Append(batch.res, Bat!NoId) /\ r.before = batch.before /\ r.gone = batch.gone
    BY <1>2, ResultType DEF BatchInv
  <2>2. batch' = [r EXCEPT !.gone = @ \union {e}]
    BY <1>1
  <2> HIDE DEF r
  <2> QED BY <1>2, <2>1, <2>2 DEF TxType
<1>4. /\ db' \in Bat!DB /\ db'.rows = db.rows \ {e}
      /\ \A l \in db.links \ db'.links : \E n \in 1..2 : l.ends[n] = e
  BY <1>1 DEF Bat!Without, BatchInv, BatchTypes, Bat!DB
<1>5. BatchTypes'
  BY <1>2, <1>3, <1>4 DEF BatchInv, BatchTypes
<1>6. Recorded'
  <2>1. \A l \in batch.before.links \ db'.links : \E i \in 1..Len(batch'.res) : batch'.res[i] = Bat!NoId
    <3>1. batch.res \in Seq(Nat)
      BY DEF BatchInv, BatchTypes, TxType
    <3> QED BY <1>2, <1>3, <3>1, ResultsKept
  <2> QED BY <1>2, <1>3, <1>4, <2>1 DEF BatchInv, Recorded
<1> QED BY <1>3, <1>5, <1>6 DEF BatchInv, Finishing, AfterCommit

LEMMA LinkCreateStep ==
  ASSUME Bat!BatchAssumption, BatchInv, NEW x \in Handles \union {NoHandle},
         NEW a \in Bat!Arg, NEW b \in Bat!Arg, Bat!LinkCreate(a, b, x)
  PROVE  BatchInv'
<1>1. PICK s \in Bat!Resolve(a) \intersect db.rows, t \in Bat!Resolve(b) \intersect db.rows :
        db' = [db EXCEPT !.links = @ \union {[id |-> made + 1, ends |-> <<s, t>>]}]
  BY DEF Bat!LinkCreate
<1> DEFINE e == made + 1
<1>2. /\ e \in Bat!Ids /\ e \in Nat /\ batch.pc = "ops"
      /\ batch' = Bat!Result(x, e) /\ made' = e /\ UNCHANGED <<files, signals>>
  BY DEF Bat!LinkCreate, Bat!Running, Bat!Ids, Bat!BatchAssumption, BatchInv, BatchTypes
<1>3. /\ batch' \in TxType /\ batch'.res = Append(batch.res, e) /\ batch'.pc = "ops"
      /\ batch'.before = batch.before /\ batch'.gone = batch.gone
      /\ batch'.made = batch.made /\ batch'.left = batch.left
  <2> HIDE DEF e
  <2> QED BY <1>2, ResultType DEF BatchInv
<1>4. /\ db' \in Bat!DB /\ db'.rows = db.rows /\ db.links \subseteq db'.links
  <2>1. [id |-> made + 1, ends |-> <<s, t>>] \in Bat!Link
    BY <1>2 DEF Bat!Link, BatchInv, BatchTypes, Bat!DB
  <2> QED BY <1>1, <2>1 DEF BatchInv, BatchTypes, Bat!DB
<1>5. BatchTypes'
  <2>1. \A id \in db'.rows \union files' \union batch'.gone \union batch'.before.rows : id <= made'
    BY <1>2, <1>3, <1>4, GivenOut DEF BatchInv
  <2> QED BY <1>2, <1>3, <1>4, <2>1 DEF BatchInv, BatchTypes
<1>6. Recorded'
  <2>1. batch.res \in Seq(Nat)
    BY DEF BatchInv, BatchTypes, TxType
  <2> HIDE DEF e
  <2> QED BY <1>2, <1>3, <1>4, <2>1, ResultsKept DEF BatchInv, Recorded
<1> QED BY <1>3, <1>5, <1>6 DEF BatchInv, Finishing, AfterCommit

LEMMA LinkDeleteStep ==
  ASSUME BatchInv, NEW x \in Handles \union {NoHandle}, NEW a \in Bat!Arg, Bat!LinkDelete(a, x)
  PROVE  BatchInv'
<1>1. PICK l \in db.links : db' = [db EXCEPT !.links = @ \ {l}]
  BY DEF Bat!LinkDelete
<1>2. /\ batch' = Bat!Result(x, Bat!NoId) /\ batch.pc = "ops" /\ Bat!NoId \in Nat
      /\ UNCHANGED <<files, signals, made>>
  BY DEF Bat!LinkDelete, Bat!Running, Bat!NoId
<1>3. /\ batch' \in TxType /\ batch'.res = Append(batch.res, Bat!NoId) /\ batch'.pc = "ops"
      /\ batch'.before = batch.before /\ batch'.gone = batch.gone
      /\ batch'.made = batch.made /\ batch'.left = batch.left
  BY <1>2, ResultType DEF BatchInv
<1>4. db' \in Bat!DB /\ db'.rows = db.rows
  BY <1>1 DEF BatchInv, BatchTypes, Bat!DB
<1>5. BatchTypes'
  BY <1>2, <1>3, <1>4 DEF BatchInv, BatchTypes
<1>6. Recorded'
  <2>1. batch.res \in Seq(Nat)
    BY DEF BatchInv, BatchTypes, TxType
  <2> QED BY <1>2, <1>3, <1>4, <2>1, ResultsKept DEF BatchInv, Recorded
<1> QED BY <1>3, <1>5, <1>6 DEF BatchInv, Finishing, AfterCommit

\* So do BEGIN, the two ways out of the transaction, what follows it, and what runs
\* beside it.
LEMMA BeginStep == ASSUME BatchInv, Bat!Begin PROVE BatchInv'
<1>1. batch' = [Bat!NoTx EXCEPT !.pc = "ops", !.before = db] /\ UNCHANGED <<db, files, signals, made>>
  BY DEF Bat!Begin
<1>2. /\ batch' \in TxType /\ batch'.pc = "ops" /\ batch'.before = db
      /\ batch'.made = {} /\ batch'.gone = {} /\ batch'.left = {}
  <2> DEFINE r == Bat!NoTx
  <2>1. r \in TxType /\ r.made = {} /\ r.gone = {} /\ r.left = {}
    BY NoTxType
  <2>2. batch' = [r EXCEPT !.pc = "ops", !.before = db] /\ db \in Bat!DB
    BY <1>1 DEF BatchInv, BatchTypes
  <2> HIDE DEF r
  <2> QED BY <2>1, <2>2 DEF TxType
<1> QED BY <1>1, <1>2 DEF BatchInv, BatchTypes, Recorded, Finishing, AfterCommit

LEMMA RollBackStep ==
  ASSUME Bat!BatchAssumption, BatchInv, Bat!Fails \/ Bat!CreateFails
  PROVE  BatchInv'
<1>1. /\ db' = batch.before /\ batch' = Bat!Ended("error") /\ signals' = signals
      /\ \/ made' = made /\ files' = files
         \/ /\ made' = made + 1 /\ made < MaxIds
            /\ files' \in {files, files \union {made + 1}}
  BY DEF Bat!Fails, Bat!CreateFails, Bat!RolledBack
<1>2. /\ batch' \in TxType /\ batch'.pc = "done" /\ batch'.gone = {} /\ batch'.before.rows = {}
  BY <1>1, EndedType
<1>3. files' \subseteq Bat!Ids /\ made' \in Nat /\ made <= made'
  <2>1. made \in Nat /\ MaxIds \in Nat /\ files \subseteq Bat!Ids
    BY DEF Bat!BatchAssumption, BatchInv, BatchTypes
  <2>2. CASE made' = made /\ files' = files
    BY <2>1, <2>2
  <2>3. CASE made' = made + 1 /\ made < MaxIds /\ files' \in {files, files \union {made + 1}}
    <3>1. made + 1 \in Bat!Ids
      BY <2>1, <2>3 DEF Bat!Ids
    <3> QED BY <2>1, <2>3, <3>1
  <2> QED BY <1>1, <2>2, <2>3
<1>4. \A id \in db'.rows \union files' \union batch'.gone \union batch'.before.rows : id <= made'
  BY <1>1, <1>2, GivenOut DEF BatchInv, BatchTypes
<1>5. db' \in Bat!DB
  BY <1>1 DEF BatchInv, BatchTypes, TxType
<1>6. BatchTypes'
  BY <1>1, <1>2, <1>3, <1>4, <1>5 DEF BatchInv, BatchTypes
<1> QED BY <1>2, <1>6 DEF BatchInv, Recorded, Finishing, AfterCommit

LEMMA CommitStep == ASSUME BatchInv, Bat!Commit PROVE BatchInv'
<1>1. /\ batch' = [Bat!NoTx EXCEPT !.pc = "signals", !.gone = batch.gone, !.left = batch.left, !.touched = batch.left]
      /\ batch.pc = "ops" /\ UNCHANGED <<db, files, signals, made>>
  BY DEF Bat!Commit
<1>2. /\ batch' \in TxType /\ batch'.pc = "signals" /\ batch'.before.rows = {}
      /\ batch'.gone = batch.gone /\ batch'.left = batch.left
      /\ batch'.touched = batch.left /\ batch'.at = Bat!NoId
      /\ batch'.listed = {} /\ batch'.redone = {}
  <2> DEFINE r == Bat!NoTx
  <2>1. r \in TxType /\ r.before.rows = {} /\ r.at = Bat!NoId /\ r.listed = {} /\ r.redone = {}
    BY NoTxType
  <2>2. batch' = [r EXCEPT !.pc = "signals", !.gone = batch.gone, !.left = batch.left, !.touched = batch.left]
    BY <1>1
  <2>3. batch \in TxType
    BY DEF BatchInv, BatchTypes
  <2> HIDE DEF r
  <2> QED BY <2>1, <2>2, <2>3 DEF TxType
<1> QED BY <1>1, <1>2 DEF BatchInv, BatchTypes, Recorded, Finishing, AfterCommit

LEMMA CleanSignalsStep == ASSUME BatchInv, Bat!CleanSignals PROVE BatchInv'
<1>1. /\ batch.pc = "signals" /\ UNCHANGED <<db, files, made>> /\ signals' \subseteq Bat!Ids
      /\ batch' \in TxType /\ batch'.pc = "embed" /\ batch'.before = batch.before
      /\ batch'.made = batch.made /\ batch'.gone = batch.gone /\ batch'.left = batch.left
      /\ batch'.touched = batch.touched /\ batch'.at = batch.at
      /\ batch'.listed = batch.listed /\ batch'.redone = batch.redone
      /\ signals' = signals \ batch.gone \/ batch'.uncleaned
  BY DEF Bat!CleanSignals, BatchInv, BatchTypes, TxType
<1> QED BY <1>1 DEF BatchInv, BatchTypes, Recorded, Finishing, AfterCommit

LEMMA ListChunksStep == ASSUME BatchInv, Bat!ListChunks PROVE BatchInv'
<1>1. PICK e \in batch.left :
        \/ e \in db.rows /\ batch' = Bat!Listed(e)
        \/ e \notin db.rows /\ batch' = [batch EXCEPT !.left = @ \ {e}]
  BY DEF Bat!ListChunks
<1>2. batch.pc = "embed" /\ UNCHANGED <<db, files, signals, made>>
  BY DEF Bat!ListChunks
<1>3. e \in Bat!Ids /\ batch \in TxType
  BY <1>1 DEF BatchInv, BatchTypes, TxType
<1>4. /\ batch' \in TxType /\ batch'.pc \in {"embed", "await"} /\ batch'.before = batch.before
      /\ batch'.uncleaned = batch.uncleaned /\ batch'.made = batch.made /\ batch'.gone = batch.gone
      /\ batch'.left = batch.left \ {e} /\ batch'.touched = batch.touched /\ batch'.redone = batch.redone
      /\ IF e \in db.rows THEN batch'.pc = "await" /\ batch'.at = e /\ batch'.listed = batch.listed \union {e}
         ELSE batch'.pc = "embed" /\ batch'.at = batch.at /\ batch'.listed = batch.listed
  <2>1. CASE e \in db.rows
    <3> DEFINE b == batch
    <3>1. batch' = [b EXCEPT !.pc = "await", !.at = e, !.left = @ \ {e}, !.listed = @ \union {e}]
      BY <1>1, <2>1 DEF Bat!Listed
    <3>2. b \in TxType /\ b = batch
      BY <1>3
    <3> HIDE DEF b
    <3>3. batch' \in TxType
      BY <1>3, <3>1, <3>2 DEF TxType
    <3> QED BY <1>3, <2>1, <3>1, <3>2, <3>3 DEF TxType
  <2>2. CASE e \notin db.rows
    BY <1>1, <1>2, <1>3, <2>2 DEF TxType
  <2> QED BY <2>1, <2>2
<1>5. BatchTypes' /\ Recorded'
  BY <1>2, <1>4 DEF BatchInv, BatchTypes, Recorded
<1>6. Finishing'
  <2>1. batch.at = Bat!NoId /\ Bat!NoId \notin Bat!Ids /\ batch.listed \subseteq Bat!Ids
    BY <1>2, <1>3 DEF BatchInv, Finishing, AfterCommit, TxType, Bat!NoId, Bat!Ids
  <2> QED BY <1>2, <1>4, <2>1 DEF BatchInv, Finishing, AfterCommit
<1> QED BY <1>5, <1>6 DEF BatchInv

LEMMA WriteVectorsStep == ASSUME BatchInv, Bat!WriteVectors PROVE BatchInv'
<1>1. /\ db' = [db EXCEPT !.vecs = @ \union ({batch.at} \intersect batch.listed)]
      /\ batch' = [batch EXCEPT !.pc = "embed", !.at = Bat!NoId]
      /\ batch.pc = "await" /\ UNCHANGED <<files, signals, made>>
  BY DEF Bat!WriteVectors
<1>2. db \in Bat!DB /\ batch \in TxType
  BY DEF BatchInv, BatchTypes
<1>3. /\ db' \in Bat!DB /\ db'.rows = db.rows
      /\ db'.vecs = db.vecs \union ({batch.at} \intersect batch.listed)
  BY <1>1, <1>2 DEF Bat!DB, TxType
<1>4. /\ batch' \in TxType /\ batch'.pc = "embed" /\ batch'.at = Bat!NoId /\ batch'.before = batch.before
      /\ batch'.uncleaned = batch.uncleaned /\ batch'.made = batch.made /\ batch'.gone = batch.gone
      /\ batch'.left = batch.left /\ batch'.touched = batch.touched
      /\ batch'.listed = batch.listed /\ batch'.redone = batch.redone
  BY <1>1, <1>2 DEF TxType
<1> QED BY <1>1, <1>3, <1>4 DEF BatchInv, BatchTypes, Recorded, Finishing, AfterCommit

LEMMA AnswerStep == ASSUME BatchInv, Bat!EmbedFails \/ Bat!Answer PROVE BatchInv'
<1>1. /\ batch' \in {Bat!Ended("error"), Bat!Ended("ok")} /\ UNCHANGED <<db, files, signals, made>>
  BY DEF Bat!EmbedFails, Bat!Answer
<1>2. /\ batch' \in TxType /\ batch'.pc = "done" /\ batch'.gone = {} /\ batch'.before.rows = {}
  BY <1>1, EndedType
<1> QED BY <1>1, <1>2 DEF BatchInv, BatchTypes, Recorded, Finishing, AfterCommit

\* What a pass does to the tables and the record: rows lose vectors and links with
\* their chunks, and what comes back is marked.
LEMMA PassStep ==
  ASSUME BatchInv, NEW e \in Bat!Ids,
         Bat!Reindex(e) \/ Bat!Sweep(e) \/ Bat!PassEmbeds(e)
  PROVE  BatchInv'
<1>1. db \in Bat!DB /\ batch \in TxType /\ batch.pc # "ops" /\ UNCHANGED <<files, signals, made>>
  BY DEF BatchInv, BatchTypes, Bat!Reindex, Bat!Sweep, Bat!PassEmbeds
<1> DEFINE Same == /\ batch' \in TxType /\ batch'.pc = batch.pc /\ batch'.before = batch.before
                   /\ batch'.uncleaned = batch.uncleaned /\ batch'.made = batch.made
                   /\ batch'.gone = batch.gone /\ batch'.left = batch.left
                   /\ batch'.touched = batch.touched /\ batch'.at = batch.at
<1>2. CASE Bat!Reindex(e)
  <2>1. /\ Same /\ batch'.listed = batch.listed \ {e} /\ batch'.redone = batch.redone \union ({e} \intersect (batch.touched \union batch.gone))
        /\ e \in files
    BY <1>1, <1>2 DEF Bat!Reindex, TxType
  <2>2. /\ db' \in Bat!DB /\ db'.rows = db.rows \union {e} /\ db'.vecs = db.vecs \ {e}
    BY <1>1, <1>2 DEF Bat!Reindex, Bat!Remade, Bat!Without, Bat!DB
  <2> QED BY <1>1, <2>1, <2>2 DEF BatchInv, BatchTypes, Recorded, Finishing, AfterCommit
<1>3. CASE Bat!Sweep(e)
  <2>1. Same /\ batch'.listed = batch.listed \ {e} /\ batch'.redone = batch.redone
    BY <1>1, <1>3 DEF Bat!Sweep, TxType
  <2>2. /\ db' \in Bat!DB /\ db'.rows = db.rows \ {e} /\ db'.vecs = db.vecs \ {e}
    BY <1>1, <1>3 DEF Bat!Sweep, Bat!Without, Bat!DB
  <2> QED BY <1>1, <2>1, <2>2 DEF BatchInv, BatchTypes, Recorded, Finishing, AfterCommit
<1>4. CASE Bat!PassEmbeds(e)
  <2>1. batch' = batch /\ db' \in Bat!DB /\ db'.rows = db.rows /\ db'.vecs = db.vecs \union {e}
    BY <1>1, <1>4 DEF Bat!PassEmbeds, Bat!DB
  <2> QED BY <1>1, <2>1 DEF BatchInv, BatchTypes, Recorded, Finishing, AfterCommit
<1> QED BY <1>2, <1>3, <1>4

LEMMA WipeStep == ASSUME BatchInv, Bat!Wipe PROVE BatchInv'
<1>1. db \in Bat!DB /\ batch \in TxType /\ batch.pc # "ops" /\ UNCHANGED <<files, signals, made>>
  BY DEF BatchInv, BatchTypes, Bat!Wipe
<1>2. /\ batch' \in TxType /\ batch'.pc = batch.pc /\ batch'.before = batch.before
      /\ batch'.uncleaned = batch.uncleaned /\ batch'.made = batch.made
      /\ batch'.gone = batch.gone /\ batch'.left = batch.left
      /\ batch'.touched = batch.touched /\ batch'.at = batch.at
      /\ batch'.listed = {} /\ batch'.redone = batch.redone
  BY <1>1 DEF Bat!Wipe, TxType
<1>3. db' \in Bat!DB /\ db'.rows = {}
  BY DEF Bat!Wipe, Bat!DB
<1> QED BY <1>1, <1>2, <1>3 DEF BatchInv, BatchTypes, Recorded, Finishing, AfterCommit

LEMMA LearnStep == ASSUME BatchInv, NEW e \in Bat!Ids, Bat!Learn(e) PROVE BatchInv'
BY DEF Bat!Learn, BatchInv, BatchTypes, Recorded, Finishing, AfterCommit

LEMMA BatchStep ==
  ASSUME Bat!BatchAssumption
  PROVE  BatchInv /\ [Bat!Next]_Bat!vars => BatchInv'
<1> SUFFICES ASSUME BatchInv, [Bat!Next]_Bat!vars PROVE BatchInv'
  OBVIOUS
<1>1. CASE Bat!Op
  <2>1. PICK x \in Handles \union {NoHandle} :
          \/ Bat!Create(x)
          \/ \E a \in Bat!Arg : Bat!Update(a, x) \/ Bat!Delete(a, x) \/ Bat!LinkDelete(a, x)
          \/ \E a, b \in Bat!Arg : Bat!LinkCreate(a, b, x)
    BY <1>1 DEF Bat!Op
  <2> QED BY <2>1, CreateStep, UpdateStep, DeleteStep, LinkDeleteStep, LinkCreateStep
<1>2. CASE UNCHANGED Bat!vars
  BY <1>2 DEF Bat!vars, BatchInv, BatchTypes, Recorded, Finishing, AfterCommit
<1> QED BY <1>1, <1>2, BeginStep, RollBackStep, CommitStep, CleanSignalsStep, ListChunksStep,
           WriteVectorsStep, AnswerStep, WipeStep, PassStep, LearnStep DEF Bat!Next

\* The inductive invariant holds of every behaviour of the batch RPC.
THEOREM BatchInvariance ==
  ASSUME Bat!BatchAssumption
  PROVE  Bat!Spec => []BatchInv
<1>1. Bat!Init => BatchInv
  BY BatchInit
<1>2. BatchInv /\ [Bat!Next]_Bat!vars => BatchInv'
  BY BatchStep
<1> QED BY <1>1, <1>2, PTL DEF Bat!Spec

\* The record has a name for every result, and no more than MaxOps.
Sizes ==
  /\ made \in 0..MaxIds
  /\ Len(batch.res) \in 0..MaxOps /\ Len(batch.names) = Len(batch.res)
  /\ \A i \in 1..Len(batch.res) : batch.res[i] \in 0..MaxIds

LEMMA NoSizes ==
  ASSUME Bat!BatchAssumption, NEW r, r.res = <<>>, r.names = <<>>
  PROVE  /\ Len(r.res) \in 0..MaxOps /\ Len(r.names) = Len(r.res)
         /\ \A i \in 1..Len(r.res) : r.res[i] \in 0..MaxIds
BY DEF Bat!BatchAssumption

LEMMA ResultSizes ==
  ASSUME Bat!BatchAssumption, BatchInv, Sizes, Bat!Running,
         NEW x \in Handles \union {NoHandle}, NEW id \in 0..MaxIds,
         NEW r, r.res = Append(batch.res, id), r.names = Append(batch.names, x)
  PROVE  /\ Len(r.res) \in 0..MaxOps /\ Len(r.names) = Len(r.res)
         /\ \A i \in 1..Len(r.res) : r.res[i] \in 0..MaxIds
<1>1. batch.res \in Seq(Nat) /\ batch.names \in Seq(Handles \union {NoHandle})
  BY DEF BatchInv, BatchTypes, TxType
<1>2. Len(batch.res) < MaxOps /\ id \in Nat /\ MaxOps \in Nat
  BY DEF Bat!Running, Bat!BatchAssumption
<1>3. /\ Len(r.res) = Len(batch.res) + 1 /\ Len(r.names) = Len(batch.names) + 1
      /\ \A i \in 1..Len(batch.res) : r.res[i] = batch.res[i]
      /\ r.res[Len(batch.res) + 1] = id
  BY <1>1, <1>2
<1>4. Len(r.res) \in 0..MaxOps /\ Len(r.names) = Len(r.res)
  BY <1>1, <1>2, <1>3 DEF Sizes
<1>5. ASSUME NEW i \in 1..Len(r.res) PROVE r.res[i] \in 0..MaxIds
  <2>1. CASE i = Len(batch.res) + 1
    BY <1>3, <2>1
  <2>2. CASE i # Len(batch.res) + 1
    <3>1. i \in 1..Len(batch.res)
      BY <1>1, <1>3, <2>2
    <3> QED BY <1>3, <3>1 DEF Sizes
  <2> QED BY <2>1, <2>2
<1> QED BY <1>4, <1>5

\* What an operation that succeeds adds is one result with its name.
LEMMA OpSizes ==
  ASSUME Bat!BatchAssumption, BatchInv, Sizes, Bat!Op  PROVE Sizes'
<1>1. PICK x \in Handles \union {NoHandle} :
        \/ Bat!Create(x)
        \/ \E a \in Bat!Arg : Bat!Update(a, x) \/ Bat!Delete(a, x) \/ Bat!LinkDelete(a, x)
        \/ \E a, b \in Bat!Arg : Bat!LinkCreate(a, b, x)
  BY DEF Bat!Op
<1>2. batch \in TxType /\ db \in Bat!DB /\ made \in 0..MaxIds /\ MaxIds \in Nat
  BY DEF BatchInv, BatchTypes, Sizes, Bat!BatchAssumption
<1>3. \A id : /\ Bat!Result(x, id).res = Append(batch.res, id)
              /\ Bat!Result(x, id).names = Append(batch.names, x)
  BY <1>2 DEF Bat!Result, TxType
<1> DEFINE OneMore == /\ Bat!Running /\ made' \in 0..MaxIds
                      /\ \E id \in 0..MaxIds : /\ batch'.res = Append(batch.res, id)
                                               /\ batch'.names = Append(batch.names, x)
<1>4. OneMore
  <2>1. CASE Bat!Create(x)
    <3> DEFINE e == made + 1
               r == Bat!Result(x, e)
    <3>1. /\ Bat!Running /\ e \in 0..MaxIds /\ made' = e
          /\ batch' = [r EXCEPT !.made = @ \union {e}, !.left = @ \union {e}]
      BY <2>1, <1>2 DEF Bat!Create
    <3>2. r.res = Append(batch.res, e) /\ r.names = Append(batch.names, x)
          /\ r = [batch EXCEPT !.res = Append(@, e), !.names = Append(@, x)]
      BY <1>3 DEF Bat!Result
    <3>3. batch'.res = r.res /\ batch'.names = r.names
      BY <3>1, <3>2, <1>2 DEF TxType
    <3> QED BY <3>1, <3>2, <3>3
  <2>2. ASSUME NEW a \in Bat!Arg, Bat!Update(a, x) PROVE OneMore
    <3>1. PICK e \in db.rows :
            batch' = [Bat!Result(x, e) EXCEPT !.left = IF a \in Bat!Ids THEN @ \union {e} ELSE @]
      BY <2>2 DEF Bat!Update
    <3>2. e \in 0..MaxIds
      BY <1>2 DEF Bat!DB, Bat!Ids
    <3>3. batch'.res = Bat!Result(x, e).res /\ batch'.names = Bat!Result(x, e).names
      BY <3>1, <1>2 DEF Bat!Result, TxType
    <3> QED BY <2>2, <3>2, <3>3, <1>2, <1>3 DEF Bat!Update
  <2>3. ASSUME NEW a \in Bat!Arg, Bat!Delete(a, x) PROVE OneMore
    <3>1. PICK e \in db.rows : batch' = [Bat!Result(x, Bat!NoId) EXCEPT !.gone = @ \union {e}]
      BY <2>3 DEF Bat!Delete
    <3>2. batch'.res = Bat!Result(x, Bat!NoId).res /\ batch'.names = Bat!Result(x, Bat!NoId).names
      BY <3>1, <1>2 DEF Bat!Result, TxType
    <3>3. Bat!NoId \in 0..MaxIds
      BY <1>2 DEF Bat!NoId
    <3> QED BY <2>3, <3>2, <3>3, <1>2, <1>3 DEF Bat!Delete
  <2>4. ASSUME NEW a \in Bat!Arg, Bat!LinkDelete(a, x) PROVE OneMore
    <3>1. batch' = Bat!Result(x, Bat!NoId) /\ Bat!NoId \in 0..MaxIds
      BY <2>4, <1>2 DEF Bat!LinkDelete, Bat!NoId
    <3> QED BY <2>4, <3>1, <1>2, <1>3 DEF Bat!LinkDelete
  <2>5. ASSUME NEW a \in Bat!Arg, NEW b \in Bat!Arg, Bat!LinkCreate(a, b, x) PROVE OneMore
    <3>1. batch' = Bat!Result(x, made + 1) /\ made + 1 \in 0..MaxIds
      BY <2>5, <1>2 DEF Bat!LinkCreate
    <3> QED BY <2>5, <3>1, <1>2, <1>3 DEF Bat!LinkCreate
  <2> HIDE DEF OneMore
  <2> QED BY <1>1, <2>1, <2>2, <2>3, <2>4, <2>5
<1>5. PICK id \in 0..MaxIds : /\ batch'.res = Append(batch.res, id)
                              /\ batch'.names = Append(batch.names, x)
  BY <1>4
<1>6. /\ Len(batch'.res) \in 0..MaxOps /\ Len(batch'.names) = Len(batch'.res)
      /\ \A i \in 1..Len(batch'.res) : batch'.res[i] \in 0..MaxIds
  <2> DEFINE r == batch'
  <2>1. r.res = Append(batch.res, id) /\ r.names = Append(batch.names, x)
    BY <1>5
  <2> HIDE DEF r
  <2> QED BY <2>1, <1>4, ResultSizes
<1> QED BY <1>4, <1>6 DEF Sizes

\* Listing chunks leaves the results alone.
LEMMA ListChunksRecord ==
  ASSUME BatchInv, Bat!ListChunks
  PROVE  /\ batch'.pc # "done" /\ made' = made
         /\ batch'.res = batch.res /\ batch'.names = batch.names
<1>1. batch \in TxType /\ batch.pc = "embed" /\ made' = made
  BY DEF BatchInv, BatchTypes, Bat!ListChunks
<1>2. PICK e \in batch.left :
        \/ e \in db.rows /\ batch' = Bat!Listed(e)
        \/ e \notin db.rows /\ batch' = [batch EXCEPT !.left = @ \ {e}]
  BY DEF Bat!ListChunks
<1>3. CASE batch' = Bat!Listed(e)
  BY <1>1, <1>3 DEF Bat!Listed, TxType
<1>4. CASE batch' = [batch EXCEPT !.left = @ \ {e}]
  BY <1>1, <1>4 DEF TxType
<1> QED BY <1>1, <1>2, <1>3, <1>4

\* What runs beside the batch waits for its transaction, and leaves its results alone.
LEMMA PassRecord ==
  ASSUME BatchInv, NEW e \in Bat!Ids,
         Bat!Reindex(e) \/ Bat!Sweep(e) \/ Bat!PassEmbeds(e) \/ Bat!Learn(e)
  PROVE  /\ batch.pc # "ops" /\ batch'.pc = batch.pc /\ made' = made
         /\ batch'.res = batch.res /\ batch'.names = batch.names
         /\ signals \subseteq signals'
<1>1. batch \in TxType
  BY DEF BatchInv, BatchTypes
<1>2. CASE Bat!Reindex(e)
  BY <1>1, <1>2 DEF Bat!Reindex, TxType
<1>3. CASE Bat!Sweep(e)
  BY <1>1, <1>3 DEF Bat!Sweep, TxType
<1>4. CASE Bat!PassEmbeds(e) \/ Bat!Learn(e)
  BY <1>4 DEF Bat!PassEmbeds, Bat!Learn
<1> QED BY <1>2, <1>3, <1>4

LEMMA BesideSteps ==
  ASSUME BatchInv,
         Bat!Wipe \/ \E e \in Bat!Ids : Bat!Reindex(e) \/ Bat!Sweep(e) \/ Bat!PassEmbeds(e) \/ Bat!Learn(e)
  PROVE  /\ batch.pc # "ops" /\ batch'.pc = batch.pc /\ made' = made
         /\ batch'.res = batch.res /\ batch'.names = batch.names
         /\ signals \subseteq signals'
<1>1. CASE Bat!Wipe
  <2>1. batch \in TxType
    BY DEF BatchInv, BatchTypes
  <2> QED BY <1>1, <2>1 DEF Bat!Wipe, TxType
<1> QED BY <1>1, PassRecord

LEMMA SizesStep ==
  ASSUME Bat!BatchAssumption, BatchInv, Sizes, [Bat!Next]_Bat!vars  PROVE Sizes'
<1> DEFINE Shorter == batch'.res = <<>> /\ batch'.names = <<>>
           Same == batch'.res = batch.res /\ batch'.names = batch.names
<1>1. /\ batch \in TxType /\ made \in 0..MaxIds
      /\ Bat!NoTx.res = <<>> /\ Bat!NoTx.names = <<>>
  BY DEF BatchInv, BatchTypes, Sizes, Bat!NoTx
<1>2. CASE Bat!Op
  BY <1>2, OpSizes
<1>3. ASSUME Bat!Begin \/ Bat!Fails \/ Bat!CreateFails \/ Bat!Commit \/ Bat!EmbedFails \/ Bat!Answer
      PROVE  Shorter /\ made' \in 0..MaxIds
  <2>1. \A a : Bat!Ended(a).res = <<>> /\ Bat!Ended(a).names = <<>>
    BY DEF Bat!Ended, Bat!NoTx
  <2>2. CASE Bat!Begin \/ Bat!Commit
    BY <1>1, <2>2 DEF Bat!Begin, Bat!Commit, Bat!NoTx
  <2>3. CASE Bat!Fails \/ Bat!EmbedFails \/ Bat!Answer
    BY <1>1, <2>1, <2>3 DEF Bat!Fails, Bat!EmbedFails, Bat!Answer, Bat!RolledBack
  <2>4. CASE Bat!CreateFails
    BY <1>1, <2>1, <2>4 DEF Bat!CreateFails, Bat!RolledBack, Bat!BatchAssumption
  <2> QED BY <1>3, <2>2, <2>3, <2>4
<1>4. ASSUME \/ Bat!CleanSignals \/ Bat!ListChunks \/ Bat!WriteVectors \/ UNCHANGED Bat!vars
             \/ Bat!Wipe \/ \E e \in Bat!Ids : Bat!Reindex(e) \/ Bat!Sweep(e) \/ Bat!PassEmbeds(e) \/ Bat!Learn(e)
      PROVE  Same /\ made' = made
  <2>1. CASE Bat!CleanSignals \/ Bat!WriteVectors \/ UNCHANGED Bat!vars
    BY <1>1, <2>1 DEF Bat!CleanSignals, Bat!WriteVectors, Bat!vars, TxType
  <2>2. CASE Bat!ListChunks
    BY <1>1, <2>2, ListChunksRecord
  <2>3. CASE Bat!Wipe \/ \E e \in Bat!Ids : Bat!Reindex(e) \/ Bat!Sweep(e) \/ Bat!PassEmbeds(e) \/ Bat!Learn(e)
    BY <2>3, BesideSteps
  <2> QED BY <1>4, <2>1, <2>2, <2>3
<1>5. Shorter /\ made' \in 0..MaxIds => Sizes'
  BY NoSizes DEF Sizes
<1>6. Same /\ made' = made => Sizes'
  BY DEF Sizes
<1> QED BY <1>2, <1>3, <1>4, <1>5, <1>6 DEF Bat!Next

\* Types of the tables and of the record of a batch.
THEOREM BatchTypesHold == Bat!Spec => []Bat!TypeOK
<1>1. Bat!Init => Sizes
  BY Assumed, NoSizes DEF Bat!Init, Bat!NoTx, Sizes, Bat!BatchAssumption
<1>2. BatchInv /\ Sizes => Bat!TypeOK
  BY DEF BatchInv, BatchTypes, TxType, Sizes, Bat!TypeOK
<1>3. Bat!Spec => []Sizes
  BY BatchInvariance, SizesStep, Assumed, <1>1, PTL DEF Bat!Spec
<1> QED BY Assumed, BatchInvariance, <1>2, <1>3, PTL

\* Operations stay in the transaction and leave signals alone.
LEMMA OpStays == ASSUME BatchInv, Bat!Op PROVE batch.pc = "ops" /\ batch'.pc = "ops" /\ signals' = signals
<1>1. PICK x \in Handles \union {NoHandle} :
        \/ Bat!Create(x)
        \/ \E a \in Bat!Arg : Bat!Update(a, x) \/ Bat!Delete(a, x) \/ Bat!LinkDelete(a, x)
        \/ \E a, b \in Bat!Arg : Bat!LinkCreate(a, b, x)
  BY DEF Bat!Op
<1>2. batch.pc = "ops" /\ signals' = signals
  BY <1>1 DEF Bat!Create, Bat!Update, Bat!Delete, Bat!LinkDelete, Bat!LinkCreate, Bat!Running
<1>3. batch \in TxType
  BY DEF BatchInv, BatchTypes
<1>4. CASE Bat!Create(x)
  BY <1>3, <1>4, <1>2 DEF Bat!Create, Bat!Result, TxType
<1>5. ASSUME NEW a \in Bat!Arg, Bat!Update(a, x) PROVE batch'.pc = batch.pc
  BY <1>3, <1>5 DEF Bat!Update, Bat!Result, TxType
<1>6. ASSUME NEW a \in Bat!Arg, Bat!Delete(a, x) PROVE batch'.pc = batch.pc
  BY <1>3, <1>6 DEF Bat!Delete, Bat!Result, TxType
<1>7. ASSUME NEW a \in Bat!Arg, Bat!LinkDelete(a, x) PROVE batch'.pc = batch.pc
  BY <1>3, <1>7 DEF Bat!LinkDelete, Bat!Result, TxType
<1>8. ASSUME NEW a \in Bat!Arg, NEW b \in Bat!Arg, Bat!LinkCreate(a, b, x) PROVE batch'.pc = batch.pc
  BY <1>3, <1>8 DEF Bat!LinkCreate, Bat!Result, TxType
<1> QED BY <1>1, <1>2, <1>4, <1>5, <1>6, <1>7, <1>8

\* A batch that fails inside its transaction leaves the tables as BEGIN found them, and
\* one that commits leaves what its operations made; signals go only after the COMMIT.
THEOREM BatchesAllOrNothing == ServicesSpec => AllOrNothing
<1> DEFINE Removed == signals \ signals' # {} => batch.pc = "signals" /\ signals \ signals' \subseteq batch.gone
           Kept == /\ db'.rows = (batch.before.rows \union batch.made) \ batch.gone
                   /\ \A l \in batch.before.links \ db'.links :
                        \/ \E n \in 1..2 : l.ends[n] \in batch.gone
                        \/ \E i \in 1..Len(batch.res) : batch.res[i] = Bat!NoId
           Whole == batch.pc = "ops" /\ batch'.pc # "ops" =>
                      IF batch'.answer = "error" THEN db' = batch.before ELSE Kept
<1>1. ASSUME BatchInv, Bat!Next PROVE Removed /\ Whole
  <2>1. CASE Bat!Op
    BY <2>1, <1>1, OpStays
  <2>2. CASE Bat!Begin
    BY <2>2 DEF Bat!Begin
  <2>3. CASE Bat!Fails \/ Bat!CreateFails
    BY <2>3, EndedType DEF Bat!Fails, Bat!CreateFails, Bat!RolledBack
  <2>4. CASE Bat!Commit
    <3>1. batch.pc = "ops" /\ UNCHANGED <<db, signals>>
      BY <2>4 DEF Bat!Commit
    <3>2. batch'.answer # "error"
      BY <2>4 DEF Bat!Commit, Bat!NoTx
    <3> QED BY <1>1, <3>1, <3>2 DEF BatchInv, Recorded
  <2>5. CASE Bat!CleanSignals
    BY <2>5 DEF Bat!CleanSignals
  <2>6. CASE Bat!ListChunks \/ Bat!WriteVectors \/ Bat!EmbedFails \/ Bat!Answer
    <3>1. batch.pc # "ops" /\ signals' = signals
      <4>1. CASE Bat!ListChunks \/ Bat!WriteVectors
        BY <4>1 DEF Bat!ListChunks, Bat!WriteVectors
      <4>2. CASE Bat!EmbedFails \/ Bat!Answer
        BY <4>2 DEF Bat!EmbedFails, Bat!Answer
      <4> QED BY <2>6, <4>1, <4>2
    <3> QED BY <3>1
  <2>7. CASE Bat!Wipe \/ \E e \in Bat!Ids : Bat!Reindex(e) \/ Bat!Sweep(e) \/ Bat!PassEmbeds(e) \/ Bat!Learn(e)
    <3>1. batch.pc # "ops" /\ signals \subseteq signals'
      BY <2>7, <1>1, BesideSteps
    <3> QED BY <3>1
  <2> QED BY <1>1, <2>1, <2>2, <2>3, <2>4, <2>5, <2>6, <2>7 DEF Bat!Next
<1>2. BatchInv /\ [Bat!Next]_Bat!vars => [Removed /\ Whole]_Bat!vars
  BY <1>1
<1> QED
  BY ServicesHave, Assumed, BatchInvariance, <1>2, PTL DEF Bat!Spec, AllOrNothing, Bat!AllOrNothing

\* A batch that is answered "ok" leaves every row that it created or updated with its
\* vectors, unless a pass has re-indexed it since its chunks were listed, and no
\* signals of what it deleted, unless a pass has brought that back.
THEOREM OkMeansComplete == ServicesSpec => OkIsComplete
<1> DEFINE Listed == batch.pc = "ops" /\ batch'.pc = "signals" => batch.made \subseteq batch'.touched
           Answered == batch.pc # "done" /\ batch'.pc = "done" /\ batch'.answer = "ok"
           Complete == /\ batch.touched \intersect db.rows \subseteq db.vecs \union (batch.redone \ batch.listed)
                       /\ batch.gone \intersect signals \subseteq batch.redone
<1>1. ASSUME BatchInv, Bat!Next, Answered PROVE Complete
  <2>1. batch \in TxType
    BY <1>1 DEF BatchInv, BatchTypes
  <2>2. CASE Bat!Answer
    <3>1. batch.pc = "embed" /\ batch.left = {} /\ batch' = Bat!Ended(IF batch.uncleaned THEN "error" ELSE "ok")
      BY <2>2 DEF Bat!Answer
    <3>2. ~batch.uncleaned
      BY <1>1, <3>1, EndedType
    <3>3. batch.at = Bat!NoId /\ Bat!NoId \notin Bat!Ids /\ batch.listed \subseteq Bat!Ids
      BY <1>1, <2>1, <3>1 DEF BatchInv, Finishing, AfterCommit, TxType, Bat!NoId, Bat!Ids
    <3> QED BY <1>1, <3>1, <3>2, <3>3 DEF BatchInv, Finishing, AfterCommit
  <2>3. CASE Bat!Op
    BY <2>3, <1>1, OpStays
  <2>4. CASE Bat!Begin \/ Bat!Commit
    BY <2>4, <1>1 DEF Bat!Begin, Bat!Commit, Bat!NoTx
  <2>5. CASE Bat!Fails \/ Bat!CreateFails \/ Bat!EmbedFails
    BY <2>5, <1>1, EndedType DEF Bat!Fails, Bat!CreateFails, Bat!EmbedFails, Bat!RolledBack
  <2>6. CASE Bat!CleanSignals \/ Bat!WriteVectors
    BY <2>6, <1>1, <2>1 DEF Bat!CleanSignals, Bat!WriteVectors, TxType
  <2>7. CASE Bat!ListChunks
    BY <2>7, <1>1, ListChunksRecord
  <2>8. CASE Bat!Wipe \/ \E e \in Bat!Ids : Bat!Reindex(e) \/ Bat!Sweep(e) \/ Bat!PassEmbeds(e) \/ Bat!Learn(e)
    BY <2>8, <1>1, BesideSteps
  <2> QED BY <1>1, <2>2, <2>3, <2>4, <2>5, <2>6, <2>7, <2>8 DEF Bat!Next
<1>2. ASSUME BatchInv, Bat!Next PROVE Listed
  <2>1. CASE Bat!Commit
    <3>1. batch.pc = "ops" /\ batch'.touched = batch.left
      BY <2>1 DEF Bat!Commit, Bat!NoTx
    <3> QED BY <1>2, <3>1 DEF BatchInv, Recorded
  <2>2. CASE Bat!Op
    BY <2>2, <1>2, OpStays
  <2>3. CASE Bat!Begin
    BY <2>3 DEF Bat!Begin, Bat!NoTx
  <2>4. CASE Bat!Fails \/ Bat!CreateFails \/ Bat!EmbedFails \/ Bat!Answer
    BY <2>4, EndedType DEF Bat!Fails, Bat!CreateFails, Bat!EmbedFails, Bat!Answer, Bat!RolledBack
  <2>5. CASE Bat!CleanSignals \/ Bat!WriteVectors
    BY <2>5 DEF Bat!CleanSignals, Bat!WriteVectors
  <2>6. CASE Bat!ListChunks
    BY <2>6 DEF Bat!ListChunks
  <2>7. CASE Bat!Wipe \/ \E e \in Bat!Ids : Bat!Reindex(e) \/ Bat!Sweep(e) \/ Bat!PassEmbeds(e) \/ Bat!Learn(e)
    BY <2>7, <1>2, BesideSteps
  <2> QED BY <1>2, <2>1, <2>2, <2>3, <2>4, <2>5, <2>6, <2>7 DEF Bat!Next
<1>3. BatchInv /\ [Bat!Next]_Bat!vars => [Listed /\ (Answered => Complete)]_Bat!vars
  BY <1>1, <1>2
<1> QED
  BY ServicesHave, Assumed, BatchInvariance, <1>3, PTL DEF Bat!Spec, OkIsComplete, Bat!OkIsComplete

-----------------------------------------------------------------------------
(* The event log and its consumers.                                        *)

Id == Nat \X Nat

\* Every event ever written, and those a consumer was not given.
Ever == {written[i] : i \in DOMAIN written}

\* An id is a millisecond of the past and random bits; the log holds events that were
\* written, and each of them is there still, was given or was purged.
LogOK ==
  /\ now \in Nat \ {0} /\ written \in Seq(Ever)
  /\ \A e \in Ever : e.id \in Id /\ e.id[1] <= now /\ e.id # <<0, 0>>
  /\ IsFiniteSet(events) /\ events \subseteq Ever
  /\ seen \in [Consumer -> SUBSET Ever] /\ outrun \in [Consumer -> SUBSET Ever]
  /\ \A c \in Consumer : Ever \subseteq events \union seen[c] \union outrun[c]

\* A cursor stands before everything or at an event that its consumer was given.
CursorOK ==
  /\ last \in [Consumer -> Id]
  /\ \A c \in Consumer : last[c] = <<0, 0>> \/ \E e \in seen[c] : last[c] = e.id

LogInv == LogOK /\ CursorOK /\ Con!MissedOnlyInMs

LEMMA LogInit == Con!Init => LogInv
<1> SUFFICES ASSUME Con!Init PROVE LogInv
  OBVIOUS
<1>1. /\ written = <<>> /\ events = {} /\ now = 1
      /\ last = [c \in Consumer |-> <<0, 0>>] /\ seen = [c \in Consumer |-> {}]
      /\ outrun = [c \in Consumer |-> {}]
  BY DEF Con!Init
<1>2. Ever = {} /\ written \in Seq({})
  BY <1>1 DEF Ever
<1>3. LogOK
  BY <1>1, <1>2, FS_EmptySet DEF LogOK
<1>4. CursorOK
  BY <1>1 DEF CursorOK, Id
<1>5. Con!MissedOnlyInMs
  BY <1>1 DEF Con!MissedOnlyInMs, Con!Missed, Con!Range
<1> QED BY <1>3, <1>4, <1>5 DEF LogInv

\* Writing an event appends it.
LEMMA EverGrows ==
  ASSUME written \in Seq(Ever), NEW e, written' = Append(written, e)
  PROVE  /\ Ever' = Ever \union {e} /\ written' \in Seq(Ever')
         /\ DOMAIN written = 1..Len(written) /\ Len(written) \in Nat
         /\ DOMAIN written' = 1..Len(written) + 1
         /\ written'[Len(written) + 1] = e
         /\ \A i \in 1..Len(written) : written'[i] = written[i]
<1> DEFINE S == Ever \union {e}
<1>1. written \in Seq(S)
  BY DEF Ever
<1> HIDE DEF S
<1>2. e \in S
  BY DEF S
<1>3. /\ DOMAIN written = 1..Len(written) /\ Len(written) \in Nat
      /\ DOMAIN written' = 1..Len(written) + 1
      /\ written'[Len(written) + 1] = e
      /\ \A i \in 1..Len(written) : written'[i] = written[i]
      /\ written' \in Seq(S)
  BY <1>1, <1>2
<1>4. Ever' = S
  BY <1>3 DEF Ever, S
<1> QED BY <1>3, <1>4 DEF S

\* A consumer's miss is excused by an event of the same millisecond, written earlier,
\* that it was given.
Excused(c, e) ==
  \E i, j \in DOMAIN written :
    i < j /\ written[j] = e /\ written[i] \in seen[c] /\ written[i].id[1] = e.id[1]

LEMMA MissesExcused ==
  Con!MissedOnlyInMs <=>
    \A c \in Consumer : \A e \in Ever :
      ~Con!Later(e.id, last[c]) /\ e \notin seen[c] \union outrun[c] => Excused(c, e)
BY DEF Con!MissedOnlyInMs, Con!Missed, Con!Range, Ever, Excused

LEMMA MissesExcusedNext ==
  (\A c \in Consumer : \A e \in Ever' :
     ~Con!Later(e.id, last'[c]) /\ e \notin seen'[c] \union outrun'[c] => Excused(c, e)')
  => Con!MissedOnlyInMs'
BY DEF Con!MissedOnlyInMs, Con!Missed, Con!Range, Ever, Excused

\* An event is written under an id of this millisecond.
Wrote(e) ==
  /\ e.id \in {<<now, r>> : r \in Randoms}
  /\ events' = events \union {e} /\ written' = Append(written, e)

\* A mutating call writes one event or none, and changes nothing else of the log.
LEMMA CallsWrite ==
  ASSUME NEW conv \in Conversation,
         \/ \E shape \in Con!Shapes \union {<<>>} : Con!Create(conv, shape)
         \/ \E shape \in Con!Shapes : Con!AppendTurns(conv, shape)
         \/ Con!Update(conv) \/ Con!Delete(conv)
  PROVE  /\ UNCHANGED <<now, last, seen, outrun>>
         /\ UNCHANGED <<events, written>> \/ \E e : Wrote(e)
<1>1. UNCHANGED <<now, last, seen, outrun>>
  BY DEF Con!Create, Con!AppendTurns, Con!Update, Con!Delete, Con!Untouched, Con!follower
<1>2. ASSUME NEW type, NEW body, Con!Emit(type, conv, body) PROVE \E e : Wrote(e)
  <2>1. PICK r \in Randoms :
          LET event == [id |-> <<now, r>>, type |-> type, conv |-> conv, body |-> body] IN
          /\ events' = events \union {event}
          /\ written' = Append(written, event)
    BY <1>2 DEF Con!Emit
  <2> QED BY <2>1 DEF Wrote
<1>3. ASSUME NEW shape \in Con!Shapes \union {<<>>}, Con!Create(conv, shape)
      PROVE  UNCHANGED <<events, written>> \/ \E e : Wrote(e)
  BY <1>3, <1>2 DEF Con!Create
<1>4. ASSUME NEW shape \in Con!Shapes, Con!AppendTurns(conv, shape)
      PROVE  UNCHANGED <<events, written>> \/ \E e : Wrote(e)
  BY <1>4, <1>2 DEF Con!AppendTurns
<1>5. CASE Con!Update(conv)
  <2>1. Con!Emit("updated", conv, [row |-> [convs[conv] EXCEPT !.meta = writes]])
    BY <1>5 DEF Con!Update
  <2> QED BY <2>1, <1>1, <1>2
<1>6. CASE Con!Delete(conv)
  <2>1. Con!Emit("deleted", conv, [row |-> convs[conv]])
    BY <1>6 DEF Con!Delete
  <2> QED BY <2>1, <1>1, <1>2
<1> QED BY <1>1, <1>3, <1>4, <1>5, <1>6

\* A cursor that an event comes to lie behind is at an event of its millisecond.
LEMMA WriteStep ==
  ASSUME Con!ConversationsAssumption, LogInv, UNCHANGED <<now, last, seen, outrun>>,
         NEW e, Wrote(e)
  PROVE  LogInv'
<1>1. /\ Ever' = Ever \union {e} /\ written' \in Seq(Ever')
      /\ DOMAIN written = 1..Len(written) /\ Len(written) \in Nat
      /\ DOMAIN written' = 1..Len(written) + 1
      /\ written'[Len(written) + 1] = e
      /\ \A i \in 1..Len(written) : written'[i] = written[i]
  BY EverGrows DEF LogInv, LogOK, Wrote
<1>2. e.id \in Id /\ e.id[1] = now /\ e.id # <<0, 0>> /\ now \in Nat \ {0}
  <2>1. PICK r \in Randoms : e.id = <<now, r>>
    BY DEF Wrote
  <2>2. now \in Nat \ {0} /\ r \in Nat
    BY DEF LogInv, LogOK, Con!ConversationsAssumption
  <2> QED BY <2>1, <2>2 DEF Id
<1>3. LogOK'
  <2>1. IsFiniteSet(events') /\ events' \subseteq Ever'
    BY <1>1, FS_AddElement DEF LogInv, LogOK, Wrote
  <2> QED BY <1>1, <1>2, <2>1 DEF LogInv, LogOK, Wrote
<1>4. CursorOK'
  BY <1>1 DEF LogInv, CursorOK
<1>5. ASSUME NEW c \in Consumer, NEW x \in Ever', ~Con!Later(x.id, last'[c]),
             x \notin seen'[c] \union outrun'[c]
      PROVE  Excused(c, x)'
  <2>1. CASE x \in Ever
    <3>1. Excused(c, x)
      BY <1>5, <2>1, MissesExcused DEF LogInv
    <3>2. PICK i \in DOMAIN written, j \in DOMAIN written :
            i < j /\ written[j] = x /\ written[i] \in seen[c] /\ written[i].id[1] = x.id[1]
      BY <3>1 DEF Excused
    <3> QED BY <1>1, <3>2 DEF Excused
  <2>2. CASE x = e
    <3>1. last[c] # <<0, 0>>
      BY <1>2, <1>5, <2>2 DEF Con!Later
    <3>2. PICK given \in seen[c] : last[c] = given.id
      BY <3>1 DEF LogInv, CursorOK
    <3>3. given \in Ever /\ given.id \in Id /\ given.id[1] <= now
      BY <3>2 DEF LogInv, LogOK
    <3>4. PICK i \in 1..Len(written) : given = written[i]
      BY <1>1, <3>3 DEF Ever
    <3>5. given.id[1] = now
      BY <1>2, <1>5, <2>2, <3>2, <3>3 DEF Con!Later, Id
    <3> QED
      <4>1. i < Len(written) + 1 /\ i \in DOMAIN written' /\ Len(written) + 1 \in DOMAIN written'
        BY <1>1, <3>4
      <4>2. written'[i] \in seen'[c] /\ written'[i].id[1] = x.id[1]
        BY <1>1, <1>2, <2>2, <3>2, <3>4, <3>5
      <4> QED BY <1>1, <2>2, <4>1, <4>2 DEF Excused
  <2> QED BY <1>1, <2>1, <2>2
<1> QED BY <1>3, <1>4, <1>5, MissesExcusedNext DEF LogInv

\* The instance counts as we do.
LEMMA SameCardinality == \A S : Con!Cardinality(S) = Cardinality(S)
BY DEF Con!Cardinality, Cardinality

\* The page of a pull: its n events in the order of their ids, which is that in which
\* they are applied; the cursor goes to the newest.
Taken(c, limit, n, order) ==
  /\ DOMAIN order = 1..n
  /\ \A e : e \in Con!List(last[c], limit) <=> \E i \in 1..n : order[i] = e
  /\ \A i, j \in 1..n : i < j => Con!Later(order[j].id, order[i].id)
  /\ last' = [last EXCEPT ![c] = order[n].id]
  /\ replica' = [replica EXCEPT ![c] = Con!ApplyAll(replica[c], order)]

LEMMA PageTaken ==
  ASSUME IsFiniteSet(events), NEW c \in Consumer, NEW limit, Con!Pull(c, limit)
  PROVE  \E n \in Nat \ {0} : \E order : Taken(c, limit, n, order)
<1> DEFINE page == Con!List(last[c], limit)
           n == Cardinality(page)
<1>1. PICK order \in [1..n -> page] :
        /\ \A e \in page : \E i \in DOMAIN order : order[i] = e
        /\ \A i, j \in DOMAIN order : i < j => Con!Later(order[j].id, order[i].id)
        /\ last' = [last EXCEPT ![c] = order[n].id]
        /\ replica' = [replica EXCEPT ![c] = Con!ApplyAll(replica[c], order)]
  BY SameCardinality DEF Con!Pull
<1>2. IsFiniteSet(page) /\ page # {}
  <2>1. page \subseteq events
    BY DEF Con!List
  <2> QED BY <2>1, FS_Subset DEF Con!Pull
<1>3. n \in Nat \ {0}
  BY <1>2, FS_CardinalityType, FS_EmptySet
<1> HIDE DEF n, page
<1>4. \A e : e \in page <=> \E i \in 1..n : order[i] = e
  BY <1>1
<1>5. DOMAIN order = 1..n
  BY <1>1
<1>6. Taken(c, limit, n, order)
  BY <1>1, <1>4, <1>5 DEF Taken, page
<1> QED BY <1>3, <1>6

\* The next page of the log takes a cursor past nothing that is not on it.
LEMMA PullStep ==
  ASSUME LogInv, NEW c \in Consumer, NEW limit \in Nat, Con!Pull(c, limit)
  PROVE  LogInv'
<1> DEFINE ahead == {e \in events : Con!Later(e.id, last[c])}
           page == {e \in ahead : Cardinality({f \in ahead : Con!Later(e.id, f.id)}) < limit}
<1>0. Con!List(last[c], limit) = page
  BY SameCardinality DEF Con!List
<1>1. PICK newest \in page : /\ \A e \in page : ~Con!Later(e.id, newest.id)
                           /\ last' = [last EXCEPT ![c] = newest.id]
  <2> HIDE DEF page
  <2>0. PICK n \in Nat \ {0} : \E order : Taken(c, limit, n, order)
    <3>1. IsFiniteSet(events)
      BY DEF LogInv, LogOK
    <3> QED BY <3>1, PageTaken
  <2>1. PICK order :
          /\ \A e : e \in page <=> \E i \in 1..n : order[i] = e
          /\ \A i, j \in 1..n : i < j => Con!Later(order[j].id, order[i].id)
          /\ last' = [last EXCEPT ![c] = order[n].id]
    BY <1>0, <2>0 DEF Taken
  <2>2. order[n] \in page
    BY <2>1
  <2>3. ASSUME NEW e \in page PROVE ~Con!Later(e.id, order[n].id)
    <3>1. PICK i \in 1..n : order[i] = e
      BY <2>1
    <3>2. i = n \/ Con!Later(order[n].id, e.id)
      BY <2>1, <3>1
    <3>3. e.id \in Id /\ order[n].id \in Id
      <4>1. page \subseteq Ever
        BY <1>0 DEF Con!List, LogInv, LogOK
      <4> QED BY <2>2, <4>1 DEF LogInv, LogOK
    <3> QED BY <3>1, <3>2, <3>3 DEF Con!Later, Id
  <2> QED BY <2>1, <2>2, <2>3
<1>2. /\ seen' = [seen EXCEPT ![c] = @ \union page]
      /\ UNCHANGED <<events, now, outrun, written>>
  <2> HIDE DEF page
  <2> QED BY <1>0 DEF Con!Pull
<1>3. page = {e \in ahead : Cardinality({f \in ahead : Con!Later(e.id, f.id)}) < limit}
  OBVIOUS
<1> HIDE DEF page
<1>4. page \subseteq events /\ events \subseteq Ever /\ Ever' = Ever
  BY <1>2, <1>3 DEF LogInv, LogOK, Ever
<1>5. seen' \in [Consumer -> SUBSET Ever] /\ \A d \in Consumer : seen[d] \subseteq seen'[d]
  BY <1>2, <1>4 DEF LogInv, LogOK
<1>6. LogOK'
  BY <1>2, <1>4, <1>5 DEF LogInv, LogOK
<1>7. CursorOK'
  BY <1>1, <1>2, <1>4, <1>5 DEF LogInv, LogOK, CursorOK
<1>8. ASSUME NEW e \in ahead, ~Con!Later(e.id, newest.id) PROVE e \in page
  <2> DEFINE before(x) == {f \in ahead : Con!Later(x.id, f.id)}
  <2>1. newest \in ahead /\ Cardinality(before(newest)) < limit
    BY <1>1, <1>3
  <2>2. IsFiniteSet(before(newest))
    <3>1. IsFiniteSet(events)
      BY DEF LogInv, LogOK
    <3> QED BY <3>1, FS_Subset
  <2>3. before(e) \subseteq before(newest)
    <3>1. \A x \in ahead : x.id \in Id
      BY DEF LogInv, LogOK
    <3> QED BY <1>8, <2>1, <3>1 DEF Con!Later, Id
  <2>4. /\ Cardinality(before(e)) <= Cardinality(before(newest))
        /\ Cardinality(before(e)) \in Nat /\ Cardinality(before(newest)) \in Nat
    BY <2>2, <2>3, FS_Subset, FS_CardinalityType
  <2>5. Cardinality(before(e)) < limit
    BY <2>1, <2>4
  <2> QED BY <1>3, <2>5
<1>9. ASSUME NEW d \in Consumer, NEW x \in Ever', ~Con!Later(x.id, last'[d]),
             x \notin seen'[d] \union outrun'[d]
      PROVE  Excused(d, x)'
  <2>1. x \in Ever /\ x \notin seen[d] \union outrun[d] /\ x \in events
    BY <1>2, <1>4, <1>5, <1>9 DEF LogInv, LogOK
  <2>2. ~Con!Later(x.id, last[d])
    <3>1. CASE d # c
      BY <1>1, <1>9, <3>1 DEF LogInv, CursorOK
    <3>2. CASE d = c
      <4>1. last'[c] = newest.id /\ seen'[c] = seen[c] \union page
        BY <1>1, <1>2 DEF LogInv, LogOK, CursorOK
      <4> QED BY <1>8, <1>9, <2>1, <3>2, <4>1
    <3> QED BY <3>1, <3>2
  <2>3. Excused(d, x)
    BY <2>1, <2>2, MissesExcused DEF LogInv
  <2> QED BY <1>2, <1>5, <2>3 DEF Excused
<1> QED BY <1>6, <1>7, <1>9, MissesExcusedNext DEF LogInv

LEMMA PurgeStep ==
  ASSUME LogInv, NEW before, NEW types, Con!Purge(before, types)
  PROVE  LogInv'
<1> DEFINE gone == {e \in events : Con!Later(before, e.id) /\ e.type \in types}
<1>1. /\ events' = events \ gone
      /\ outrun' = [c \in Consumer |-> outrun[c] \union (gone \ seen[c])]
      /\ UNCHANGED <<now, last, seen, written>>
  BY DEF Con!Purge, Con!follower
<1>2. gone \subseteq events
  OBVIOUS
<1> HIDE DEF gone
<1>3. LogOK'
  <2>1. IsFiniteSet(events')
    BY <1>1, FS_Subset DEF LogInv, LogOK
  <2> QED BY <1>1, <1>2, <2>1 DEF LogInv, LogOK, Ever
<1>4. CursorOK'
  BY <1>1 DEF LogInv, CursorOK
<1>5. Con!MissedOnlyInMs'
  <2> SUFFICES ASSUME NEW c \in Consumer, NEW x \in Ever', ~Con!Later(x.id, last'[c]),
                      x \notin seen'[c] \union outrun'[c]
               PROVE  Excused(c, x)'
    BY MissesExcusedNext
  <2>1. Excused(c, x)
    BY <1>1, MissesExcused DEF LogInv, Ever
  <2> QED BY <1>1, <2>1 DEF Excused
<1> QED BY <1>3, <1>4, <1>5 DEF LogInv

LEMMA LogStep ==
  ASSUME Con!ConversationsAssumption
  PROVE  LogInv /\ [Con!Next]_Con!vars => LogInv'
<1> SUFFICES ASSUME LogInv, [Con!Next]_Con!vars PROVE LogInv'
  OBVIOUS
<1>1. CASE UNCHANGED <<now, last, seen, outrun, events, written>>
  <2>1. LogOK' /\ CursorOK'
    BY <1>1 DEF LogInv, LogOK, CursorOK, Ever
  <2>2. Con!MissedOnlyInMs'
    BY <1>1 DEF LogInv, Con!MissedOnlyInMs, Con!Missed, Con!Range, Con!Later
  <2> QED BY <2>1, <2>2 DEF LogInv
<1>2. ASSUME NEW conv \in Conversation,
             \/ \E shape \in Con!Shapes \union {<<>>} : Con!Create(conv, shape)
             \/ \E shape \in Con!Shapes : Con!AppendTurns(conv, shape)
             \/ Con!Update(conv) \/ Con!Delete(conv)
      PROVE  LogInv'
  <2>1. /\ UNCHANGED <<now, last, seen, outrun>>
        /\ UNCHANGED <<events, written>> \/ \E e : Wrote(e)
    BY <1>2, CallsWrite
  <2> QED BY <1>1, <2>1, WriteStep
<1>3. CASE Con!Tick
  <2>1. now' = now + 1 /\ UNCHANGED <<last, seen, outrun, events, written>>
    BY <1>3 DEF Con!Tick, Con!follower
  <2>2. LogOK'
    <3>1. now \in Nat \ {0} /\ now' \in Nat \ {0} /\ Ever' = Ever
      BY <2>1 DEF LogInv, LogOK, Ever
    <3>2. \A e \in Ever : e.id[1] <= now'
      BY <2>1, <3>1 DEF LogInv, LogOK, Id
    <3> QED BY <2>1, <3>1, <3>2 DEF LogInv, LogOK
  <2>3. CursorOK' /\ Con!MissedOnlyInMs'
    BY <2>1 DEF LogInv, CursorOK, Con!MissedOnlyInMs, Con!Missed, Con!Range, Con!Later
  <2> QED BY <2>2, <2>3 DEF LogInv
<1>4. ASSUME NEW c \in Consumer, NEW limit \in Limits, Con!Pull(c, limit) PROVE LogInv'
  BY <1>4, PullStep DEF Con!ConversationsAssumption
<1>5. ASSUME NEW e \in events,
             \E types \in {{e.type}, {"created", "appended", "updated", "deleted"}} :
               Con!Purge(e.id, types)
      PROVE  LogInv'
  BY <1>5, PurgeStep
<1>6. CASE UNCHANGED Con!vars
  BY <1>1, <1>6 DEF Con!vars, Con!follower
<1> QED BY <1>2, <1>3, <1>4, <1>5, <1>6 DEF Con!Next

\* The inductive invariant of the event log.
THEOREM LogInvariance ==
  ASSUME Con!ConversationsAssumption
  PROVE  Con!Spec => []LogInv
<1>1. Con!Init => LogInv
  BY LogInit
<1>2. LogInv /\ [Con!Next]_Con!vars => LogInv'
  BY LogStep
<1> QED BY <1>1, <1>2, PTL DEF Con!Spec

\* A consumer that pages through events.list with its cursor misses an event only if
\* it was committed after one of the same millisecond that the consumer had.
THEOREM EventsMissedOnlyInMs == ServicesSpec => []MissedOnlyInMs
<1>1. LogInv => MissedOnlyInMs
  BY DEF LogInv, MissedOnlyInMs
<1> QED BY ServicesHave, Assumed, LogInvariance, <1>1, PTL

-----------------------------------------------------------------------------
(* What consumers make of the log.                                         *)

Replayed(r, e) == Con!Apply(r, e)
Replay == INSTANCE Folding WITH Op <- Replayed

\* Replicas: a page is applied as by a loop.
LEMMA PageIsLoop ==
  ASSUME NEW n \in Nat, NEW page, DOMAIN page = 1..n, NEW r
  PROVE  \E b : /\ b[0] = r /\ b[n] = Con!ApplyAll(r, page)
                /\ \A i \in 1..n : b[i] = Con!Apply(b[i-1], page[i])
<1>1. \A q, base : Replay!Fold(base, q) = Con!ApplyAll(base, q)
  BY DEF Replay!Fold, Replay!Greatest, Replayed,
         Con!ApplyAll, Con!FoldLeft, Con!MapThenFoldSet, Con!Max
<1>2. PICK b : /\ b[0] = r /\ b[n] = Replay!Fold(r, page)
               /\ \A i \in 1..n : b[i] = Replayed(b[i-1], page[i])
  BY Replay!FoldIsLoop
<1>3. b[n] = Con!ApplyAll(r, page)
  BY <1>1, <1>2
<1> QED BY <1>2, <1>3 DEF Replayed

\* Ids: they are ordered.
LEMMA LaterOrders ==
  /\ \A a \in Id : ~Con!Later(a, a)
  /\ \A a, b, c \in Id : Con!Later(a, b) /\ Con!Later(b, c) => Con!Later(a, c)
  /\ \A a, b \in Id : ~(Con!Later(a, b) /\ Con!Later(b, a))
BY DEF Con!Later, Id

Tables == [convs |-> convs, turns |-> turns]

\* The tables are what the written events make of empty ones: a[i] is what the first i
\* make of them.
History(a) ==
  /\ a[0] = Con!Empty
  /\ \A i \in DOMAIN written : a[i] = Con!Apply(a[i-1], written[i])
  /\ a[Len(written)] = Tables

\* A consumer stands behind the first k events.
Stands(c, a, k) ==
  /\ replica[c] = a[k]
  /\ \A i \in DOMAIN written : Con!Later(written[i].id, last[c]) <=> k < i

FollowInv ==
  /\ LogInv /\ DOMAIN replica = Consumer
  /\ \A c \in Consumer : \A e \in seen[c] : ~Con!Later(e.id, last[c])
  /\ \E a : /\ History(a)
            /\ \A c \in Consumer : Con!Ordered /\ outrun[c] = {} =>
                 \E k \in 0..Len(written) : Stands(c, a, k)

\* Replicas: a mutating call changes the tables as its event says, and without an event
\* it does not change them.
LEMMA CallsAreReplayed ==
  ASSUME NEW conv \in Conversation,
         \/ \E shape \in Con!Shapes \union {<<>>} : Con!Create(conv, shape)
         \/ \E shape \in Con!Shapes : Con!AppendTurns(conv, shape)
         \/ Con!Update(conv) \/ Con!Delete(conv)
  PROVE  /\ UNCHANGED <<now, last, seen, outrun, replica>>
         /\ \/ UNCHANGED <<events, written, convs, turns>>
            \/ \E e : Wrote(e) /\ Tables' = Con!Apply(Tables, e)
<1>1. UNCHANGED <<now, last, seen, outrun, replica>>
  BY DEF Con!Create, Con!AppendTurns, Con!Update, Con!Delete, Con!Untouched, Con!follower
<1>2. ASSUME NEW type, NEW body, Con!Emit(type, conv, body)
      PROVE  \E e : Wrote(e) /\ e.type = type /\ e.conv = conv /\ e.body = body
  <2>1. PICK r \in Randoms :
          LET event == [id |-> <<now, r>>, type |-> type, conv |-> conv, body |-> body] IN
          /\ events' = events \union {event}
          /\ written' = Append(written, event)
    BY <1>2 DEF Con!Emit
  <2> QED BY <2>1 DEF Wrote
<1>3. ASSUME NEW shape, Con!Create(conv, shape)
      PROVE  \/ UNCHANGED <<events, written, convs, turns>>
             \/ \E e : Wrote(e) /\ Tables' = Con!Apply(Tables, e)
  <2> DEFINE new == Con!Inserted(conv, 0, shape)
             row == [meta |-> writes, count |-> Con!Cardinality(new)]
  <2>1. CASE ~Con!Valid(shape)
    BY <1>3, <2>1 DEF Con!Create, Con!tables
  <2>2. CASE Con!Valid(shape)
    <3>1. /\ convs' = [x \in DOMAIN convs \union {conv} |-> IF x = conv THEN row ELSE convs[x]]
          /\ turns' = turns \union new
          /\ Con!Emit("created", conv, [row |-> row, turns |-> new])
      BY <1>3, <2>2 DEF Con!Create
    <3> HIDE DEF new, row
    <3>2. PICK e : /\ Wrote(e) /\ e.type = "created" /\ e.conv = conv
                   /\ e.body = [row |-> row, turns |-> new]
      BY <3>1, <1>2
    <3>3. Con!Apply(Tables, e) =
            [convs |-> [x \in DOMAIN convs \union {conv} |-> IF x = conv THEN row ELSE convs[x]],
             turns |-> turns \union new]
      BY <3>2 DEF Con!Apply, Tables
    <3> QED BY <3>1, <3>2, <3>3 DEF Tables
  <2> QED BY <2>1, <2>2
<1>4. ASSUME NEW shape, Con!AppendTurns(conv, shape)
      PROVE  \/ UNCHANGED <<events, written, convs, turns>>
             \/ \E e : Wrote(e) /\ Tables' = Con!Apply(Tables, e)
  <2> DEFINE new == Con!Inserted(conv, Con!NextOrdinal(conv), shape)
  <2>1. CASE ~Con!Valid(shape)
    BY <1>4, <2>1 DEF Con!AppendTurns, Con!tables
  <2>2. CASE Con!Valid(shape)
    <3>1. /\ convs' = [convs EXCEPT ![conv].count = @ + Con!Cardinality(new)]
          /\ turns' = turns \union new
          /\ Con!Emit("appended", conv, [turns |-> new])
      BY <1>4, <2>2 DEF Con!AppendTurns, Con!AddTurns
    <3> HIDE DEF new
    <3>2. PICK e : /\ Wrote(e) /\ e.type = "appended" /\ e.conv = conv
                   /\ e.body = [turns |-> new]
      BY <3>1, <1>2
    <3>3. Con!Apply(Tables, e) =
            [convs |-> [x \in DOMAIN convs |->
               IF x = conv THEN [convs[x] EXCEPT !.count = @ + Con!Cardinality(new)]
                           ELSE convs[x]],
             turns |-> turns \union new]
      BY <3>2 DEF Con!Apply, Tables
    <3>4. convs' = [x \in DOMAIN convs |->
               IF x = conv THEN [convs[x] EXCEPT !.count = @ + Con!Cardinality(new)]
                           ELSE convs[x]]
      BY <3>1
    <3> QED BY <3>1, <3>2, <3>3, <3>4 DEF Tables
  <2> QED BY <2>1, <2>2
<1>5. CASE Con!Update(conv)
  <2> DEFINE row == [convs[conv] EXCEPT !.meta = writes]
  <2>1. /\ convs' = [convs EXCEPT ![conv] = row]
        /\ Con!Emit("updated", conv, [row |-> row]) /\ turns' = turns
    BY <1>5 DEF Con!Update
  <2> HIDE DEF row
  <2>2. PICK e : Wrote(e) /\ e.type = "updated" /\ e.conv = conv /\ e.body = [row |-> row]
    BY <2>1, <1>2
  <2>3. Con!Apply(Tables, e) =
          [convs |-> [x \in DOMAIN convs |-> IF x = conv THEN row ELSE convs[x]],
           turns |-> turns]
    BY <2>2 DEF Con!Apply, Tables
  <2>4. convs' = [x \in DOMAIN convs |-> IF x = conv THEN row ELSE convs[x]]
    BY <2>1
  <2> QED BY <1>1, <2>1, <2>2, <2>3, <2>4 DEF Tables
<1>6. CASE Con!Delete(conv)
  <2>1. /\ convs' = [x \in DOMAIN convs \ {conv} |-> convs[x]]
        /\ turns' = turns \ Con!TurnsOf(conv)
        /\ Con!Emit("deleted", conv, [row |-> convs[conv]])
    BY <1>6 DEF Con!Delete
  <2>2. PICK e : Wrote(e) /\ e.type = "deleted" /\ e.conv = conv
    BY <2>1, <1>2
  <2>3. Con!Apply(Tables, e) =
          [convs |-> [x \in DOMAIN convs \ {conv} |-> convs[x]],
           turns |-> {t \in turns : t.conv # conv}]
    BY <2>2 DEF Con!Apply, Tables
  <2>4. turns \ Con!TurnsOf(conv) = {t \in turns : t.conv # conv}
    BY DEF Con!TurnsOf
  <2> QED BY <1>1, <2>1, <2>2, <2>3, <2>4 DEF Tables
<1> QED BY <1>1, <1>3, <1>4, <1>5, <1>6

\* Replicas: one more event continues the history, and a consumer that stood behind all
\* stands behind all but it.
LEMMA WriteIsFollowed ==
  ASSUME Con!ConversationsAssumption, FollowInv, UNCHANGED <<now, last, seen, outrun, replica>>,
         NEW e, Wrote(e), Tables' = Con!Apply(Tables, e)
  PROVE  FollowInv'
<1>1. LogInv'
  BY WriteStep DEF FollowInv
<1>2. /\ DOMAIN written = 1..Len(written) /\ Len(written) \in Nat
      /\ DOMAIN written' = 1..Len(written) + 1 /\ Len(written') = Len(written) + 1
      /\ written'[Len(written) + 1] = e
      /\ \A i \in 1..Len(written) : written'[i] = written[i]
  BY EverGrows DEF FollowInv, LogInv, LogOK, Wrote
<1>3. PICK a : /\ History(a)
               /\ \A c \in Consumer : Con!Ordered /\ outrun[c] = {} =>
                    \E k \in 0..Len(written) : Stands(c, a, k)
  BY DEF FollowInv
<1> DEFINE n == Len(written) + 1
<1>0. PICK b : b = [i \in 0..n |-> IF i = n THEN Tables' ELSE a[i]]
  OBVIOUS
<1>4. \A i \in 0..Len(written) : b[i] = a[i]
  BY <1>0, <1>2
<1>5. b[n] = Tables' /\ b[0] = a[0]
  BY <1>0, <1>2
<1>6. History(b)'
  <2>1. ASSUME NEW i \in 1..n PROVE b[i] = Con!Apply(b[i-1], written'[i])
    <3>1. CASE i = n
      BY <1>2, <1>3, <1>4, <1>5, <3>1 DEF History
    <3>2. CASE i # n
      <4>1. i \in 1..Len(written) /\ i \in 0..Len(written) /\ i - 1 \in 0..Len(written)
        BY <1>2, <3>2
      <4>2. a[i] = Con!Apply(a[i-1], written[i])
        BY <1>2, <1>3, <4>1 DEF History
      <4> QED BY <1>2, <1>4, <4>1, <4>2
    <3> QED BY <3>1, <3>2
  <2>2. b[0] = Con!Empty
    BY <1>3, <1>5 DEF History
  <2> QED BY <1>2, <1>5, <2>1, <2>2 DEF History, Con!Apply
<1>7. ASSUME NEW c \in Consumer, Con!Ordered', outrun'[c] = {}
      PROVE  \E k \in 0..Len(written') : Stands(c, b, k)'
  <2>1. Con!Ordered
    BY <1>2, <1>7 DEF Con!Ordered, Con!Later
  <2>2. PICK k \in 0..Len(written) : Stands(c, a, k)
    BY <1>3, <1>7, <2>1
  <2>3. Con!Later(e.id, last[c])
    <3>1. CASE last[c] = <<0, 0>>
      BY <3>1 DEF Wrote, FollowInv, LogInv, LogOK, Con!Later
    <3>2. ASSUME NEW g \in seen[c], last[c] = g.id PROVE Con!Later(e.id, last[c])
      <4>1. PICK i \in 1..Len(written) : written[i] = g
        BY <1>2, <3>2 DEF FollowInv, LogInv, LogOK, Ever
      <4>2. Con!Later(written'[n].id, written'[i].id)
        BY <1>2, <1>7, <4>1 DEF Con!Ordered, Con!Later
      <4> QED BY <1>2, <3>2, <4>1, <4>2
    <3> QED BY <3>1, <3>2 DEF FollowInv, LogInv, CursorOK
  <2>4. replica'[c] = b[k]
    BY <1>4, <2>2 DEF Stands
  <2>5. ASSUME NEW i \in 1..n PROVE Con!Later(written'[i].id, last[c]) <=> k < i
    <3>1. CASE i = n
      BY <1>2, <2>2, <2>3, <3>1
    <3>2. CASE i # n
      BY <1>2, <2>2, <3>2 DEF Stands
    <3> QED BY <3>1, <3>2
  <2>6. k \in 0..Len(written')
    BY <1>2
  <2>7. Stands(c, b, k)'
    BY <1>2, <2>4, <2>5 DEF Stands, Con!Later
  <2> QED BY <2>6, <2>7
<1>8. /\ DOMAIN replica' = Consumer
      /\ \A c \in Consumer : \A x \in seen'[c] : ~Con!Later(x.id, last'[c])
  BY DEF FollowInv
<1> QED BY <1>1, <1>6, <1>7, <1>8 DEF FollowInv, Con!Range, Con!Later

\* Replicas: the page that follows the first k events of an ordered log is the next ones,
\* one by one.
LEMMA PageIsNext ==
  ASSUME FollowInv, Con!Ordered, NEW c \in Consumer, outrun[c] = {},
         NEW limit \in Nat, Con!Pull(c, limit), NEW a, NEW k \in 0..Len(written),
         Stands(c, a, k), NEW n \in Nat \ {0}, NEW order, DOMAIN order = 1..n,
         \A e : e \in Con!List(last[c], limit) <=> \E i \in 1..n : order[i] = e,
         \A i, j \in 1..n : i < j => Con!Later(order[j].id, order[i].id)
  PROVE  k + n <= Len(written) /\ \A i \in 1..n : order[i] = written[k + i]
<1> DEFINE ahead == {e \in events : Con!Later(e.id, last[c])}
           page == Con!List(last[c], limit)
           before(x) == {f \in ahead : Con!Later(x.id, f.id)}
<1>1. /\ DOMAIN written = 1..Len(written) /\ Len(written) \in Nat
      /\ \A i \in 1..Len(written) : written[i] \in Ever /\ written[i].id \in Id
  BY DEF FollowInv, LogInv, LogOK, Ever
<1>2. page = {e \in ahead : Cardinality(before(e)) < limit}
  BY SameCardinality DEF Con!List
<1>3. IsFiniteSet(ahead)
  <2>1. IsFiniteSet(events)
    BY DEF FollowInv, LogInv, LogOK
  <2> QED BY <2>1, FS_Subset
<1>4. \A i, j \in 1..Len(written) : i < j => Con!Later(written[j].id, written[i].id)
  BY <1>1 DEF Con!Ordered
<1>5. \A i \in 1..Len(written) : written[i] \in ahead <=> k < i
  <2>1. ASSUME NEW i \in 1..Len(written), k < i PROVE written[i] \in events
    <3>1. Con!Later(written[i].id, last[c])
      BY <1>1, <2>1 DEF Stands
    <3>2. written[i] \notin seen[c]
      BY <3>1 DEF FollowInv
    <3> QED BY <1>1, <3>2 DEF FollowInv, LogInv, LogOK
  <2> QED BY <1>1, <2>1 DEF Stands
<1>6. \A e \in ahead : \E i \in 1..Len(written) : e = written[i]
  BY <1>1 DEF FollowInv, LogInv, LogOK, Ever
\* What comes before an event of the page is on it too.
<1>7. ASSUME NEW i \in 1..Len(written), NEW j \in 1..Len(written), k < i, i < j,
             written[j] \in page
      PROVE  written[i] \in page
  <2>1. before(written[i]) \subseteq before(written[j])
    <3>1. ASSUME NEW f \in before(written[i]) PROVE Con!Later(written[j].id, f.id)
      <4>1. f.id \in Id
        BY <1>6, <1>1
      <4>2. Con!Later(written[j].id, written[i].id) /\ Con!Later(written[i].id, f.id)
        BY <1>4, <1>7
      <4>3. written[i].id \in Id /\ written[j].id \in Id
        BY <1>1
      <4> QED BY <4>1, <4>2, <4>3, LaterOrders
    <3> QED BY <3>1
  <2>2. /\ Cardinality(before(written[i])) <= Cardinality(before(written[j]))
        /\ Cardinality(before(written[i])) \in Nat /\ Cardinality(before(written[j])) \in Nat
    <3>1. IsFiniteSet(before(written[j])) /\ IsFiniteSet(before(written[i]))
      BY <1>3, FS_Subset
    <3> QED BY <2>1, <3>1, FS_Subset, FS_CardinalityType
  <2>3. Cardinality(before(written[j])) < limit
    BY <1>2, <1>7
  <2>4. written[i] \in ahead
    BY <1>5, <1>7
  <2>5. Cardinality(before(written[i])) < limit
    BY <2>2, <2>3
  <2> HIDE DEF ahead, page, before
  <2> QED BY <1>2, <2>4, <2>5
<1>8. \A i \in 1..n : \E g \in 1..Len(written) : order[i] = written[g] /\ k < g
  BY <1>2, <1>5, <1>6
<1> HIDE DEF ahead, page, before
<1>9. \A i \in 1..Len(written) : written[i] \in page => \E l \in 1..n : order[l] = written[i]
  BY DEF page
<1>10. \A l \in 1..n : order[l] \in page
  BY DEF page
<1>11. \A i, j \in 1..Len(written) : written[i] = written[j] => i = j
  <2>1. ASSUME NEW i \in 1..Len(written), NEW j \in 1..Len(written), i < j
        PROVE  written[i] # written[j]
    BY <1>1, <1>4, <2>1 DEF Con!Later, Id
  <2> QED BY <2>1
<1> DEFINE T == {i \in 0..n : \A j \in 1..i : k + j <= Len(written) /\ order[j] = written[k + j]}
<1>12. ASSUME NEW i \in 1..n, i - 1 \in T PROVE i \in T
  <2>1. PICK g \in 1..Len(written) : order[i] = written[g] /\ k < g
    BY <1>8
  <2>2. \A j \in 1..(i-1) : k + j <= Len(written) /\ order[j] = written[k + j]
    BY <1>12
  <2>3. ~(g < k + i)
    <3>1. SUFFICES ASSUME g < k + i PROVE FALSE
      OBVIOUS
    <3>2. g - k \in 1..(i-1) /\ k + (g - k) = g
      BY <2>1, <3>1
    <3>3. order[g - k] = order[i]
      BY <2>1, <2>2, <3>2
    <3>4. Con!Later(order[i].id, order[g - k].id)
      BY <3>2
    <3> QED BY <1>1, <2>1, <3>3, <3>4 DEF Con!Later, Id
  <2>4. ~(k + i < g)
    <3>1. SUFFICES ASSUME k + i < g PROVE FALSE
      OBVIOUS
    <3>2. k + i \in 1..Len(written) /\ k < k + i
      BY <3>1
    <3>3. written[k + i] \in page
      BY <1>7, <1>10, <2>1, <3>1, <3>2
    <3>4. PICK l \in 1..n : order[l] = written[k + i]
      BY <1>9, <3>2, <3>3
    <3>5. CASE l < i
      <4>1. l \in 1..(i-1) /\ k + l \in 1..Len(written) /\ order[l] = written[k + l]
        BY <2>2, <3>5
      <4>2. k + l = k + i
        BY <1>11, <3>2, <3>4, <4>1
      <4> QED BY <3>5, <4>2
    <3>6. CASE l = i
      BY <1>11, <2>1, <3>1, <3>2, <3>4, <3>6
    <3>7. CASE i < l
      <4>1. Con!Later(written[k + i].id, written[g].id)
        BY <2>1, <3>4, <3>7
      <4>2. Con!Later(written[g].id, written[k + i].id)
        BY <1>4, <3>1, <3>2
      <4> QED BY <1>1, <3>2, <4>1, <4>2 DEF Con!Later, Id
    <3> QED BY <3>5, <3>6, <3>7
  <2>5. g = k + i
    BY <2>3, <2>4
  <2>6. ASSUME NEW j \in 1..i PROVE k + j <= Len(written) /\ order[j] = written[k + j]
    <3>1. CASE j = i
      BY <2>1, <2>5, <3>1
    <3>2. CASE j # i
      BY <2>2, <3>2
    <3> QED BY <3>1, <3>2
  <2> QED BY <2>6
<1>13. 0..n \subseteq T
  <2>1. 0 \in T
    OBVIOUS
  <2> HIDE DEF T
  <2> QED BY <1>12, <2>1, Replay!UpTo
<1>14. n \in T
  BY <1>13
<1> QED BY <1>14

\* Replicas: a pull takes its consumer from behind k events to behind more of them.
LEMMA PullIsFollowed ==
  ASSUME FollowInv, NEW c \in Consumer, NEW limit \in Nat, Con!Pull(c, limit)
  PROVE  FollowInv'
<1>1. LogInv'
  BY PullStep DEF FollowInv
<1>0. PICK n \in Nat \ {0} : \E order : Taken(c, limit, n, order)
  <2>1. IsFiniteSet(events)
    BY DEF FollowInv, LogInv, LogOK
  <2> QED BY <2>1, PageTaken
<1>2. PICK order : Taken(c, limit, n, order)
  BY <1>0
<1> USE DEF Taken
<1>3. /\ seen' = [seen EXCEPT ![c] = @ \union Con!List(last[c], limit)]
      /\ UNCHANGED <<convs, turns, events, outrun, written>>
  BY DEF Con!Pull, Con!tables
<1>4. /\ DOMAIN written = 1..Len(written) /\ Len(written) \in Nat
      /\ \A e \in Ever : e.id \in Id
      /\ Con!List(last[c], limit) \subseteq Ever /\ seen[c] \subseteq Ever
  BY DEF FollowInv, LogInv, LogOK, Con!List
<1>5. /\ last'[c] = order[n].id /\ replica'[c] = Con!ApplyAll(replica[c], order)
      /\ seen'[c] = seen[c] \union Con!List(last[c], limit)
      /\ \A d \in Consumer \ {c} :
           last'[d] = last[d] /\ replica'[d] = replica[d] /\ seen'[d] = seen[d]
      /\ DOMAIN replica' = Consumer
  BY <1>2, <1>3 DEF FollowInv, LogInv, LogOK, CursorOK
<1>6. ASSUME NEW d \in Consumer, NEW e \in seen'[d] PROVE ~Con!Later(e.id, last'[d])
  <2>1. CASE d # c
    BY <1>5, <1>6, <2>1 DEF FollowInv
  <2>2. CASE d = c
    <3>1. order[n] \in Con!List(last[c], limit)
      BY <1>2
    <3>2. Con!Later(order[n].id, last[c]) /\ order[n].id \in Id /\ last[c] \in Id
      BY <1>4, <3>1 DEF Con!List, FollowInv, LogInv, CursorOK
    <3>3. CASE e \in seen[c]
      <4>1. ~Con!Later(e.id, last[c]) /\ e.id \in Id
        BY <1>4, <3>3 DEF FollowInv
      <4> QED BY <1>5, <2>2, <3>2, <4>1 DEF Con!Later, Id
    <3>4. CASE e \in Con!List(last[c], limit)
      <4>1. PICK i \in 1..n : order[i] = e
        BY <1>2, <3>4
      <4>2. i = n \/ Con!Later(order[n].id, e.id)
        BY <1>2, <4>1
      <4>3. e.id \in Id
        BY <1>4, <3>4
      <4> QED BY <1>5, <2>2, <3>2, <4>1, <4>2, <4>3 DEF Con!Later, Id
    <3> QED BY <1>5, <1>6, <2>2, <3>3, <3>4
  <2> QED BY <2>1, <2>2
<1>7. PICK a : /\ History(a)
               /\ \A d \in Consumer : Con!Ordered /\ outrun[d] = {} =>
                    \E k \in 0..Len(written) : Stands(d, a, k)
  BY DEF FollowInv
<1>8. History(a)'
  BY <1>3, <1>7 DEF History, Tables
<1>9. Con!Ordered' <=> Con!Ordered
  BY <1>3 DEF Con!Ordered
<1>10. ASSUME NEW d \in Consumer, Con!Ordered', outrun'[d] = {}
       PROVE  \E k \in 0..Len(written') : Stands(d, a, k)'
  <2>1. PICK k \in 0..Len(written) : Stands(d, a, k)
    BY <1>3, <1>7, <1>9, <1>10
  <2>2. CASE d # c
    BY <1>3, <1>5, <2>1, <2>2 DEF Stands
  <2>3. CASE d = c
    <3>1. k + n <= Len(written) /\ \A i \in 1..n : order[i] = written[k + i]
      <4>1. Con!Ordered /\ outrun[c] = {} /\ Stands(c, a, k)
        BY <1>3, <1>9, <1>10, <2>1, <2>3
      <4> QED BY <1>2, <4>1, PageIsNext
    <3>2. PICK b : /\ b[0] = replica[c] /\ b[n] = Con!ApplyAll(replica[c], order)
                   /\ \A i \in 1..n : b[i] = Con!Apply(b[i-1], order[i])
      BY <1>2, PageIsLoop
    <3> DEFINE T == {i \in 0..n : b[i] = a[k + i]}
    <3>3. 0 \in T
      BY <2>1, <2>3, <3>2 DEF Stands
    <3>4. ASSUME NEW i \in 1..n, i - 1 \in T PROVE i \in T
      <4>1. k + i \in 1..Len(written) /\ k + (i - 1) = (k + i) - 1
        BY <1>4, <3>1
      <4>2. a[k + i] = Con!Apply(a[(k + i) - 1], written[k + i])
        BY <1>4, <1>7, <4>1 DEF History
      <4>3. b[i] = Con!Apply(b[i - 1], written[k + i])
        BY <3>1, <3>2
      <4>4. b[i - 1] = a[(k + i) - 1]
        BY <3>4, <4>1
      <4> QED BY <4>2, <4>3, <4>4
    <3>5. 0..n \subseteq T
      <4> HIDE DEF T
      <4> QED BY <3>3, <3>4, Replay!UpTo
    <3>6. replica'[c] = a[k + n]
      <4>1. n \in T
        BY <3>5
      <4> QED BY <1>5, <3>2, <4>1
    <3>7. ASSUME NEW i \in 1..Len(written)
          PROVE  Con!Later(written[i].id, last'[c]) <=> k + n < i
      <4>1. last'[c] = written[k + n].id /\ k + n \in 1..Len(written)
        BY <1>4, <1>5, <3>1
      <4>2. written[i].id \in Id /\ written[k + n].id \in Id
        BY <1>4, <4>1 DEF Ever
      <4>3. k + n < i => Con!Later(written[i].id, written[k + n].id)
        BY <1>4, <1>9, <1>10, <4>1 DEF Con!Ordered
      <4>4. i < k + n => Con!Later(written[k + n].id, written[i].id)
        BY <1>4, <1>9, <1>10, <4>1 DEF Con!Ordered
      <4> QED BY <4>1, <4>2, <4>3, <4>4 DEF Con!Later, Id
    <3> QED
      <4>1. k + n \in 0..Len(written') /\ Stands(c, a, k + n)'
        BY <1>3, <1>4, <3>1, <3>6, <3>7 DEF Stands, Con!Later
      <4> QED BY <2>3, <4>1
  <2> QED BY <2>2, <2>3
<1> QED BY <1>1, <1>5, <1>6, <1>8, <1>10 DEF FollowInv, Con!Later

LEMMA FollowStep ==
  ASSUME Con!ConversationsAssumption
  PROVE  FollowInv /\ [Con!Next]_Con!vars => FollowInv'
<1> SUFFICES ASSUME FollowInv, [Con!Next]_Con!vars PROVE FollowInv'
  OBVIOUS
<1>1. LogInv'
  BY LogStep DEF FollowInv
<1>2. ASSUME UNCHANGED <<convs, turns, replica, last, seen, written>>,
             \A c \in Consumer : outrun'[c] = {} => outrun[c] = {}
      PROVE  FollowInv'
  <2>1. PICK a : /\ History(a)
                 /\ \A c \in Consumer : Con!Ordered /\ outrun[c] = {} =>
                      \E k \in 0..Len(written) : Stands(c, a, k)
    BY DEF FollowInv
  <2>2. History(a)' /\ (Con!Ordered' => Con!Ordered)
    BY <1>2, <2>1 DEF History, Tables, Con!Ordered
  <2>3. \A c \in Consumer : \A k : Stands(c, a, k) => Stands(c, a, k)'
    BY <1>2 DEF Stands, Con!Later
  <2>4. /\ DOMAIN replica' = Consumer
        /\ \A c \in Consumer : \A x \in seen'[c] : ~Con!Later(x.id, last'[c])
    BY <1>2 DEF FollowInv
  <2> QED BY <1>1, <1>2, <2>1, <2>2, <2>3, <2>4 DEF FollowInv, Con!Later
<1>3. ASSUME NEW conv \in Conversation,
             \/ \E shape \in Con!Shapes \union {<<>>} : Con!Create(conv, shape)
             \/ \E shape \in Con!Shapes : Con!AppendTurns(conv, shape)
             \/ Con!Update(conv) \/ Con!Delete(conv)
      PROVE  FollowInv'
  <2>1. /\ UNCHANGED <<now, last, seen, outrun, replica>>
        /\ \/ UNCHANGED <<events, written, convs, turns>>
           \/ \E e : Wrote(e) /\ Tables' = Con!Apply(Tables, e)
    BY <1>3, CallsAreReplayed
  <2> QED BY <1>2, <2>1, WriteIsFollowed
<1>4. CASE Con!Tick
  BY <1>2, <1>4 DEF Con!Tick, Con!tables, Con!follower
<1>5. ASSUME NEW c \in Consumer, NEW limit \in Limits, Con!Pull(c, limit) PROVE FollowInv'
  BY <1>5, PullIsFollowed DEF Con!ConversationsAssumption
<1>6. ASSUME NEW before, NEW types, Con!Purge(before, types) PROVE FollowInv'
  BY <1>2, <1>6 DEF Con!Purge, Con!tables, Con!follower
<1>7. CASE UNCHANGED Con!vars
  BY <1>2, <1>7 DEF Con!vars, Con!tables, Con!follower
<1> QED BY <1>3, <1>4, <1>5, <1>6, <1>7 DEF Con!Next

LEMMA FollowInit == Con!Init => FollowInv
<1> SUFFICES ASSUME Con!Init PROVE FollowInv
  OBVIOUS
<1>1. /\ written = <<>> /\ seen = [c \in Consumer |-> {}]
      /\ replica = [c \in Consumer |-> Con!Empty]
      /\ convs = Con!Empty.convs /\ turns = {} /\ last = [c \in Consumer |-> <<0, 0>>]
  BY DEF Con!Init
<1>2. Tables = Con!Empty
  BY <1>1 DEF Tables, Con!Empty
<1> DEFINE a == [i \in {0} |-> Con!Empty]
<1>3. DOMAIN written = {} /\ Len(written) = 0
  BY <1>1
<1>4. History(a)
  BY <1>2, <1>3 DEF History
<1>5. \A c \in Consumer : Stands(c, a, 0)
  BY <1>1, <1>3 DEF Stands
<1>6. \A c \in Consumer : \A e \in seen[c] : ~Con!Later(e.id, last[c])
  BY <1>1
<1> HIDE DEF a
<1>7. 0 \in 0..Len(written)
  BY <1>3
<1> QED BY <1>1, <1>4, <1>5, <1>6, <1>7, LogInit DEF FollowInv

\* The inductive invariant of the consumers: a replica is a state that the tables were in.
THEOREM FollowInvariance ==
  ASSUME Con!ConversationsAssumption
  PROVE  Con!Spec => []FollowInv
<1>1. Con!Init => FollowInv
  BY FollowInit
<1>2. FollowInv /\ [Con!Next]_Con!vars => FollowInv'
  BY FollowStep
<1> QED BY <1>1, <1>2, PTL DEF Con!Spec

\* Replicas: who has caught up stands behind all events, and so has the tables.
LEMMA CaughtUpFollows == FollowInv => Con!ReplicaFollows
<1> SUFFICES ASSUME FollowInv, NEW c \in Consumer, Con!CaughtUp(c), outrun[c] = {}, Con!Ordered
             PROVE  replica[c] = Tables
  BY DEF Con!ReplicaFollows, Tables
<1>1. PICK a : /\ History(a)
               /\ \E k \in 0..Len(written) : Stands(c, a, k)
  BY DEF FollowInv
<1>2. PICK k \in 0..Len(written) : Stands(c, a, k)
  BY <1>1
<1>3. DOMAIN written = 1..Len(written) /\ Len(written) \in Nat
  BY DEF FollowInv, LogInv, LogOK
<1>4. k = Len(written)
  <2>1. SUFFICES ASSUME k # Len(written) PROVE FALSE
    OBVIOUS
  <2>0. k < Len(written) /\ 0 < Len(written)
    <3>1. Len(written) \in Nat
      BY <1>3
    <3>2. k \in Nat /\ k <= Len(written)
      BY <3>1
    <3> QED BY <2>1, <3>1, <3>2
  <2>2. Len(written) \in DOMAIN written
    BY <1>3, <2>0
  <2>3. Con!Later(written[Len(written)].id, last[c]) /\ written[Len(written)] \in Ever
    BY <1>2, <2>0, <2>2 DEF Stands, Ever
  <2>4. written[Len(written)] \notin events /\ written[Len(written)] \notin seen[c]
    BY <2>3 DEF FollowInv, Con!CaughtUp
  <2> QED BY <2>3, <2>4 DEF FollowInv, LogInv, LogOK
<1> QED BY <1>1, <1>2, <1>4 DEF Stands, History

\* A consumer that has caught up, that no purge outran and that got no events of one
\* millisecond in the wrong order has exactly the conversations and the numbered turns
\* of the tables, however its polls were cut into pages and whatever it was given twice.
THEOREM ReplicasFollow == ServicesSpec => []ReplicaFollows
<1>1. FollowInv => ReplicaFollows
  BY CaughtUpFollows DEF ReplicaFollows
<1> QED BY ServicesHave, Assumed, FollowInvariance, <1>1, PTL

-----------------------------------------------------------------------------
(* The vectors of chunks.                                                  *)

JobType == [pc : {"idle", "list", "lookup", "inner", "write"}, todo : SUBSET Blocks,
            list : Vec!Listed, got : Seq(Vec!Vector \union {NoText}), pos : Nat]

\* The types of the tables; ids are given out once.
StoreTypes ==
  /\ Vec!Partial(chunks, Vec!Ids, Vec!Chunk)
  /\ minted \in 0..MaxChunks /\ DOMAIN chunks \subseteq 1..minted /\ DOMAIN vec \subseteq 1..minted
  /\ Vec!Partial(vec, Vec!Ids, Vec!Vector) /\ \A i \in DOMAIN vec : vec[i].dim = dim
  /\ Vec!Partial(cache, {c[1] : c \in Configs} \X Texts, Vec!Vector)
  /\ conf \in Configs /\ dim = conf[2]
  /\ boots \in 0..MaxBoots /\ runs \in 0..MaxRuns /\ passed \subseteq Vec!Ids

JobTypes ==
  job \in [Jobs -> JobType] /\ \A j \in Jobs : job[j].pos \in 1..(Len(job[j].list) + 1)

\* An answer for a text: computed by this boot's model, from the text or from nothing.
Answers(v, words) ==
  v \in Vec!Vector /\ v.model = conf[1] /\ v.dim = conf[2] /\ v.text \in {words, NoText}

\* What a run has listed is there with that text, or went while it was listed; what it
\* has got answers what it listed; and what it has written stands, as long as the chunk.
JobOK(j) ==
  LET list == job[j].list
      got == job[j].got
      pc == job[j].pc
  IN /\ \A n \in 1..Len(list) :
          /\ list[n].id <= minted
          /\ IF list[n].id \in DOMAIN chunks THEN chunks[list[n].id].text = list[n].text
                                             ELSE list[n].id \in passed
     /\ pc \in {"lookup", "inner", "write"} => list # <<>>
     /\ pc \in {"list", "lookup", "inner"} => job[j].pos = 1
     /\ pc \in {"inner", "write"} =>
          /\ Len(got) = Len(list)
          /\ \A n \in 1..Len(list) :
               Answers(got[n], list[n].text) \/ (pc = "inner" /\ got[n] = NoText)
     /\ pc = "write" =>
          /\ job[j].pos \in 1..Len(list)
          /\ \A n \in 1..(job[j].pos - 1) :
               list[n].id \in DOMAIN chunks =>
                 list[n].id \in DOMAIN vec /\ vec[list[n].id].model = conf[1]

VectorInv ==
  /\ StoreTypes /\ JobTypes /\ Vec!VectorsRight
  /\ \A j \in Jobs : JobOK(j)

\* A run that is over, or not begun, remembers nothing.
LEMMA NoJobOK ==
  /\ Vec!NoJob \in JobType /\ Vec!NoJob.pc = "idle" /\ Vec!NoJob.pos = 1
  /\ Vec!NoJob.list = <<>> /\ Len(Vec!NoJob.list) = 0
BY DEF Vec!NoJob, JobType, Vec!Listed

LEMMA VectorInit == Vec!VectorsAssumption /\ Vec!Init => VectorInv
<1> SUFFICES ASSUME Vec!VectorsAssumption, Vec!Init PROVE VectorInv
  OBVIOUS
<1>1. /\ chunks = <<>> /\ vec = <<>> /\ cache = <<>> /\ minted = 0 /\ boots = 0 /\ runs = 0
      /\ passed = {} /\ conf \in Configs /\ dim = conf[2]
      /\ job = [j \in Jobs |-> Vec!NoJob]
  BY DEF Vec!Init
<1>2. StoreTypes
  BY <1>1 DEF StoreTypes, Vec!Partial, Vec!VectorsAssumption
<1>3. JobTypes
  BY <1>1, NoJobOK DEF JobTypes
<1>4. Vec!VectorsRight
  BY <1>1 DEF Vec!VectorsRight
<1>5. \A j \in Jobs : JobOK(j)
  BY <1>1, NoJobOK DEF JobOK
<1> QED BY <1>2, <1>3, <1>4, <1>5 DEF VectorInv

\* The other runs, while one takes a step that only adds vectors of this model.
LEMMA OthersOK ==
  ASSUME VectorInv, NEW j \in Jobs, UNCHANGED <<chunks, minted, conf, passed>>,
         \A q \in Jobs \ {j} : job'[q] = job[q],
         \A i \in DOMAIN vec : i \in DOMAIN vec' /\ vec'[i].model \in {vec[i].model, conf[1]},
         JobOK(j)'
  PROVE  \A q \in Jobs : JobOK(q)'
<1> SUFFICES ASSUME NEW q \in Jobs \ {j} PROVE JobOK(q)'
  OBVIOUS
<1>1. JobOK(q) /\ job'[q] = job[q]
  BY DEF VectorInv
<1> QED BY <1>1 DEF JobOK, Answers

\* A run's step that keeps its type keeps the types of all.
LEMMA JobTypesKept ==
  ASSUME JobTypes, NEW j \in Jobs, NEW r \in JobType, job' = [job EXCEPT ![j] = r],
         r.pos \in 1..(Len(r.list) + 1)
  PROVE  JobTypes' /\ job'[j] = r /\ \A q \in Jobs \ {j} : job'[q] = job[q]
BY DEF JobTypes

\* A sequence has a length and its places hold members of its set.
LEMMA SeqPlaces ==
  ASSUME NEW S, NEW s \in Seq(S)
  PROVE  Len(s) \in Nat /\ DOMAIN s = 1..Len(s) /\ \A n \in 1..Len(s) : s[n] \in S
OBVIOUS

LEMMA FunctionsAreSeqs ==
  ASSUME NEW S, NEW k \in Nat, NEW g \in [1..k -> S]
  PROVE  g \in Seq(S) /\ Len(g) = k
OBVIOUS

LEMMA SeqConcat ==
  ASSUME NEW S, NEW s \in Seq(S), NEW t \in Seq(S)
  PROVE  /\ s \o t \in Seq(S) /\ Len(s) \in Nat /\ Len(t) \in Nat /\ Len(s \o t) = Len(s) + Len(t)
         /\ \A n \in 1..Len(s \o t) :
              \/ n \in 1..Len(s) /\ (s \o t)[n] = s[n]
              \/ n - Len(s) \in 1..Len(t) /\ (s \o t)[n] = t[n - Len(s)]
OBVIOUS

LEMMA ListedConcat ==
  ASSUME NEW s \in Vec!Listed, NEW t \in Vec!Listed
  PROVE  /\ s \o t \in Vec!Listed /\ Len(s) \in Nat /\ Len(t) \in Nat
         /\ Len(s \o t) = Len(s) + Len(t)
         /\ \A n \in 1..Len(s \o t) :
              \/ n \in 1..Len(s) /\ (s \o t)[n] = s[n]
              \/ n - Len(s) \in 1..Len(t) /\ (s \o t)[n] = t[n - Len(s)]
<1> DEFINE T == [id : Vec!Ids, text : Texts]
<1>1. Vec!Listed = Seq(T)
  BY DEF Vec!Listed
<1> HIDE DEF T
<1>2. s \in Seq(T) /\ t \in Seq(T)
  BY <1>1
<1> QED BY <1>1, <1>2, SeqConcat

LEMMA EmptyListed == \A list \in Vec!Listed : Len(list) = 0 => list = <<>>
BY DEF Vec!Listed

\* The places of a list hold what its type says.
LEMMA ListedTypes ==
  ASSUME NEW list \in Vec!Listed
  PROVE  /\ Len(list) \in Nat
         /\ \A n \in 1..Len(list) : list[n].id \in Nat /\ list[n].id \in Vec!Ids /\ list[n].text \in Texts
<1>1. /\ Len(list) \in Nat
      /\ \A n \in 1..Len(list) : list[n] \in [id : Vec!Ids, text : Texts]
  BY SeqPlaces DEF Vec!Listed
<1>2. Vec!Ids \subseteq Nat
  BY DEF Vec!Ids
<1> QED BY <1>1, <1>2

LEMMA ReplaceStep ==
  ASSUME Vec!VectorsAssumption, VectorInv, NEW b \in Blocks, NEW texts \in Seq(Texts),
         Vec!Replace(b, texts)
  PROVE  VectorInv'
<1> DEFINE new == (minted + 1)..(minted + Len(texts))
           old == DOMAIN chunks \ Vec!Of(b)
<1>1. /\ minted + Len(texts) <= MaxChunks
      /\ chunks' = [i \in old \union new |->
                      IF i <= minted THEN chunks[i] ELSE [block |-> b, text |-> texts[i - minted]]]
      /\ minted' = minted + Len(texts)
      /\ vec' = [i \in DOMAIN vec \ Vec!Of(b) |-> vec[i]]
      /\ passed' = passed \union (Vec!Of(b) \intersect UNION {Vec!ListedBy(j) : j \in Jobs})
      /\ UNCHANGED <<dim, cache, conf, job, boots, runs>>
  BY DEF Vec!Replace, Vec!ReplaceRows
<1>2. /\ minted \in Nat /\ MaxChunks \in Nat /\ Len(texts) \in Nat /\ minted' \in 0..MaxChunks /\ minted <= minted'
      /\ old \subseteq 1..minted /\ \A i \in new : i \in Nat /\ i > minted /\ i <= minted'
      /\ Vec!Of(b) \subseteq DOMAIN chunks
  BY <1>1 DEF Vec!VectorsAssumption, VectorInv, StoreTypes, Vec!Of
<1>3. /\ DOMAIN chunks' = old \union new
      /\ \A i \in old : chunks'[i] = chunks[i]
      /\ \A i \in new : chunks'[i] = [block |-> b, text |-> texts[i - minted]]
  BY <1>1, <1>2
<1>4. /\ DOMAIN vec' = DOMAIN vec \ Vec!Of(b) /\ \A i \in DOMAIN vec' : vec'[i] = vec[i]
  BY <1>1
<1>5. \A i \in new : texts[i - minted] \in Texts
  BY <1>2
<1> HIDE DEF new, old
<1>6. StoreTypes'
  <2>1. \A i \in old \union new : i \in Vec!Ids /\ chunks'[i] \in Vec!Chunk /\ i \in 1..minted'
    <3>1. \A i \in old : i \in Vec!Ids /\ chunks[i] \in Vec!Chunk
      BY DEF old, VectorInv, StoreTypes, Vec!Partial
    <3>2. \A i \in new : i \in Vec!Ids /\ i \in 1..minted'
      BY <1>2 DEF Vec!Ids
    <3> QED BY <1>2, <1>3, <1>5, <3>1, <3>2 DEF Vec!Chunk
  <2>2. Vec!Partial(chunks, Vec!Ids, Vec!Chunk)' /\ DOMAIN chunks' \subseteq 1..minted'
    BY <1>3, <2>1 DEF Vec!Partial
  <2>3. /\ DOMAIN vec' \subseteq 1..minted' /\ Vec!Partial(vec, Vec!Ids, Vec!Vector)'
        /\ \A i \in DOMAIN vec' : vec'[i].dim = dim'
    BY <1>1, <1>2, <1>4 DEF VectorInv, StoreTypes, Vec!Partial
  <2>4. passed' \subseteq Vec!Ids
    BY <1>1, <1>2 DEF VectorInv, StoreTypes, Vec!Partial
  <2> QED BY <1>1, <1>2, <2>2, <2>3, <2>4 DEF VectorInv, StoreTypes, Vec!Partial
<1>7. JobTypes'
  BY <1>1 DEF VectorInv, JobTypes
<1>8. Vec!VectorsRight'
  <2>1. DOMAIN vec' \ DOMAIN chunks' \subseteq passed'
    BY <1>1, <1>3, <1>4 DEF old, VectorInv, Vec!VectorsRight
  <2>2. \A i \in DOMAIN chunks' \intersect DOMAIN vec' : i \in old
    BY <1>2, <1>3, <1>4 DEF VectorInv, StoreTypes
  <2>3. \A i \in DOMAIN chunks' \intersect DOMAIN vec' : vec'[i].text \in {chunks'[i].text, NoText}
    BY <1>3, <1>4, <2>2 DEF old, VectorInv, Vec!VectorsRight
  <2> QED BY <1>1, <2>1, <2>3 DEF VectorInv, Vec!VectorsRight
<1>9. ASSUME NEW j \in Jobs PROVE JobOK(j)'
  <2>1. JobOK(j) /\ job'[j] = job[j] /\ conf' = conf
    BY <1>1 DEF VectorInv
  <2> DEFINE list == job[j].list
  <2>2. \A n \in 1..Len(list) :
          /\ list[n].id \in Nat /\ list[n].id <= minted
          /\ list[n].id \in Vec!ListedBy(j)
    <3>1. list \in Vec!Listed /\ \A n \in 1..Len(list) : list[n].id <= minted
      BY <2>1 DEF JobOK, VectorInv, JobTypes, JobType
    <3>2. \A n \in 1..Len(list) : list[n].id \in Vec!ListedBy(j)
      BY DEF Vec!ListedBy
    <3> HIDE DEF list
    <3> QED BY <3>1, <3>2, ListedTypes
  <2>3. \A n \in 1..Len(list) :
          /\ list[n].id <= minted'
          /\ IF list[n].id \in DOMAIN chunks' THEN chunks'[list[n].id].text = list[n].text
                                              ELSE list[n].id \in passed'
    <3> SUFFICES ASSUME NEW n \in 1..Len(list)
                 PROVE  /\ list[n].id <= minted'
                        /\ IF list[n].id \in DOMAIN chunks'
                             THEN chunks'[list[n].id].text = list[n].text
                             ELSE list[n].id \in passed'
      OBVIOUS
    <3>1. list[n].id \notin new
      BY <1>2, <2>2
    <3>2. CASE list[n].id \in old
      BY <1>2, <1>3, <2>1, <2>2, <3>2 DEF JobOK, old
    <3>3. CASE list[n].id \notin old
      <4>1. list[n].id \notin DOMAIN chunks'
        BY <1>3, <3>1, <3>3
      <4>2. CASE list[n].id \in DOMAIN chunks
        BY <1>1, <1>2, <2>2, <3>3, <4>1, <4>2 DEF old
      <4>3. CASE list[n].id \notin DOMAIN chunks
        BY <1>1, <1>2, <2>1, <2>2, <4>1, <4>3 DEF JobOK
      <4> QED BY <4>2, <4>3
    <3> QED BY <3>2, <3>3
  <2>4. \A n \in 1..Len(list) : list[n].id \in DOMAIN chunks' =>
          /\ list[n].id \in DOMAIN chunks
          /\ list[n].id \in DOMAIN vec => list[n].id \in DOMAIN vec' /\ vec'[list[n].id] = vec[list[n].id]
    BY <1>2, <1>3, <1>4, <2>2 DEF old
  <2>5. job[j].pc = "write" => \A n \in 1..(job[j].pos - 1) : n \in 1..Len(list)
    BY <2>1 DEF JobOK, VectorInv, JobTypes, JobType, Vec!Listed
  <2> QED BY <2>1, <2>3, <2>4, <2>5 DEF JobOK, Answers
<1> QED BY <1>6, <1>7, <1>8, <1>9 DEF VectorInv

LEMMA PlanStep ==
  ASSUME Vec!VectorsAssumption, VectorInv, NEW j \in Jobs, Vec!Plan(j)
  PROVE  VectorInv'
<1> DEFINE r == [Vec!NoJob EXCEPT !.pc = "list", !.todo = {chunks[i].block : i \in DOMAIN chunks}]
<1>1. /\ job' = [job EXCEPT ![j] = r] /\ runs < MaxRuns /\ runs' = runs + 1
      /\ UNCHANGED <<chunks, minted, vec, dim, cache, conf, boots, passed>>
  BY DEF Vec!Plan
<1>2. {chunks[i].block : i \in DOMAIN chunks} \subseteq Blocks
  BY DEF VectorInv, StoreTypes, Vec!Partial, Vec!Chunk
<1>3. r \in JobType /\ r.pc = "list" /\ r.list = <<>> /\ r.pos = 1 /\ r.pos \in 1..(Len(r.list) + 1)
  <2> DEFINE z == Vec!NoJob
  <2>1. z \in JobType /\ z.list = <<>> /\ z.pos = 1
    BY NoJobOK
  <2>2. r = [z EXCEPT !.pc = "list", !.todo = {chunks[i].block : i \in DOMAIN chunks}]
    OBVIOUS
  <2> HIDE DEF z, r
  <2>3. r.pos = 1 /\ r \in JobType /\ r.pc = "list" /\ r.list = z.list /\ r.pos = z.pos
    BY <1>2, <2>1, <2>2 DEF JobType
  <2>4. Len(r.list) = 0
    BY <2>1, <2>3
  <2> QED BY <2>1, <2>3, <2>4
<1> HIDE DEF r
<1>4. JobTypes' /\ job'[j] = r /\ \A q \in Jobs \ {j} : job'[q] = job[q]
  BY <1>1, <1>3, JobTypesKept DEF VectorInv
<1>5. JobOK(j)'
  BY <1>3, <1>4 DEF JobOK
<1>6. \A q \in Jobs : JobOK(q)'
  BY <1>1, <1>4, <1>5, OthersOK
<1>7. StoreTypes' /\ Vec!VectorsRight'
  <2>1. runs' \in 0..MaxRuns
    BY <1>1 DEF VectorInv, StoreTypes, Vec!VectorsAssumption
  <2> QED BY <1>1, <2>1 DEF VectorInv, StoreTypes, Vec!Partial, Vec!VectorsRight
<1> QED BY <1>4, <1>6, <1>7 DEF VectorInv

LEMMA JobFailsStep == ASSUME VectorInv, NEW j \in Jobs, Vec!JobFails(j) PROVE VectorInv'
<1>1. /\ job' = [job EXCEPT ![j] = Vec!NoJob]
      /\ UNCHANGED <<chunks, minted, vec, dim, cache, conf, boots, runs, passed>>
  BY DEF Vec!JobFails
<1>2. JobTypes' /\ job'[j] = Vec!NoJob /\ \A q \in Jobs \ {j} : job'[q] = job[q]
  <2>1. Vec!NoJob \in JobType /\ Vec!NoJob.pos \in 1..(Len(Vec!NoJob.list) + 1)
    BY NoJobOK
  <2> QED BY <1>1, <2>1, JobTypesKept DEF VectorInv
<1>3. JobOK(j)'
  BY <1>2, NoJobOK DEF JobOK
<1>4. \A q \in Jobs : JobOK(q)'
  BY <1>1, <1>2, <1>3, OthersOK
<1>5. StoreTypes' /\ Vec!VectorsRight'
  BY <1>1 DEF VectorInv, StoreTypes, Vec!Partial, Vec!VectorsRight
<1> QED BY <1>2, <1>4, <1>5 DEF VectorInv

\* An ascending sequence of a finite set of numbers lists its members.
LEMMA AscendingLists ==
  ASSUME NEW k \in Nat, NEW S \in SUBSET (1..k), NEW f \in Vec!Ascending(S)
  PROVE  /\ Vec!Cardinality(S) \in Nat /\ f \in [1..Vec!Cardinality(S) -> S]
         /\ f \in Seq(S) /\ Len(f) = Vec!Cardinality(S)
         /\ \A x \in S : \E i \in 1..Len(f) : f[i] = x
<1>1. IsFiniteSet(S)
  <2>1. IsFiniteSet(1..k)
    BY FS_Interval
  <2> QED BY <2>1, FS_Subset
<1>2. Vec!Cardinality(S) = Cardinality(S)
  BY DEF Vec!Cardinality, Cardinality
<1>3. Vec!Cardinality(S) \in Nat
  BY <1>1, <1>2, FS_CardinalityType
<1>4. f \in [1..Vec!Cardinality(S) -> S] /\ S = {f[i] : i \in DOMAIN f}
  BY DEF Vec!Ascending, Vec!Range
<1>5. f \in Seq(S) /\ Len(f) = Vec!Cardinality(S)
  BY <1>3, <1>4
<1> QED BY <1>3, <1>4, <1>5

LEMMA ListBlockStep ==
  ASSUME VectorInv, NEW j \in Jobs, NEW b \in Blocks, Vec!ListBlock(j, b)
  PROVE  VectorInv'
<1> DEFINE row(asc) == [n \in 1..Len(asc) |-> [id |-> asc[n], text |-> chunks[asc[n]].text]]
<1>1. PICK asc \in Vec!Ascending(Vec!Of(b)) :
        job' = [job EXCEPT ![j].todo = @ \ {b}, ![j].list = @ \o row(asc)]
  BY DEF Vec!ListBlock
<1>2. /\ job[j].pc = "list"
      /\ UNCHANGED <<chunks, minted, vec, dim, cache, conf, boots, runs, passed>>
  BY DEF Vec!ListBlock
<1>3. /\ Vec!Of(b) \subseteq DOMAIN chunks /\ minted \in Nat /\ Vec!Of(b) \in SUBSET (1..minted)
  BY DEF Vec!Of, VectorInv, StoreTypes
<1> DEFINE new == row(asc)
           list == job[j].list
           r == [job[j] EXCEPT !.todo = @ \ {b}, !.list = @ \o new]
<1>4. /\ asc \in Seq(Vec!Of(b)) /\ Len(asc) \in Nat
      /\ \A n \in 1..Len(asc) : asc[n] \in DOMAIN chunks
  BY <1>3, AscendingLists, SeqPlaces
<1>5. /\ new \in Vec!Listed /\ Len(new) = Len(asc)
      /\ \A n \in 1..Len(new) : new[n].id \in DOMAIN chunks /\ new[n].text = chunks[new[n].id].text
  <2>1. \A n \in 1..Len(asc) :
          [id |-> asc[n], text |-> chunks[asc[n]].text] \in [id : Vec!Ids, text : Texts]
    BY <1>4 DEF VectorInv, StoreTypes, Vec!Partial, Vec!Chunk
  <2>2. new \in [1..Len(asc) -> [id : Vec!Ids, text : Texts]]
    BY <2>1
  <2>4. new \in Seq([id : Vec!Ids, text : Texts]) /\ Len(new) = Len(asc)
    BY <1>4, <2>2, FunctionsAreSeqs
  <2> QED BY <1>4, <2>4 DEF Vec!Listed
<1>6. job[j] \in JobType /\ list \in Vec!Listed /\ job[j].pos \in 1..(Len(list) + 1) /\ JobOK(j)
  BY DEF VectorInv, JobTypes, JobType
<1>7. job' = [job EXCEPT ![j] = r]
  BY <1>1
<1> HIDE DEF new, list
<1>8. /\ list \o new \in Vec!Listed /\ Len(list) \in Nat /\ Len(new) \in Nat
      /\ Len(list \o new) = Len(list) + Len(new)
      /\ \A n \in 1..Len(list \o new) :
           \/ n \in 1..Len(list) /\ (list \o new)[n] = list[n]
           \/ n - Len(list) \in 1..Len(new) /\ (list \o new)[n] = new[n - Len(list)]
  BY <1>5, <1>6, ListedConcat
<1>9. /\ r \in JobType /\ r.pc = "list" /\ r.list = list \o new /\ r.pos = job[j].pos
  BY <1>2, <1>6, <1>8 DEF JobType, list
<1> HIDE DEF r
<1>10. r.pos \in 1..(Len(r.list) + 1)
  BY <1>6, <1>8, <1>9
<1>11. JobTypes' /\ job'[j] = r /\ \A q \in Jobs \ {j} : job'[q] = job[q]
  BY <1>7, <1>9, <1>10, JobTypesKept DEF VectorInv
<1>12. JobOK(j)'
  <2>1. \A n \in 1..Len(list \o new) :
          LET l == (list \o new)[n] IN
          l.id <= minted /\ IF l.id \in DOMAIN chunks THEN chunks[l.id].text = l.text ELSE l.id \in passed
    <3> SUFFICES ASSUME NEW n \in 1..Len(list \o new)
                 PROVE  LET l == (list \o new)[n] IN
                        /\ l.id <= minted
                        /\ IF l.id \in DOMAIN chunks THEN chunks[l.id].text = l.text ELSE l.id \in passed
      OBVIOUS
    <3>1. CASE n \in 1..Len(list) /\ (list \o new)[n] = list[n]
      BY <1>6, <3>1 DEF JobOK, list
    <3>2. CASE n - Len(list) \in 1..Len(new) /\ (list \o new)[n] = new[n - Len(list)]
      <4>1. \A i \in DOMAIN chunks : i <= minted
        BY DEF VectorInv, StoreTypes
      <4> QED BY <1>5, <3>2, <4>1
    <3> QED BY <1>8, <3>1, <3>2
  <2>2. r.pos = 1
    BY <1>2, <1>6, <1>9 DEF JobOK
  <2> QED BY <1>9, <1>11, <1>2, <2>1, <2>2 DEF JobOK
<1>13. \A q \in Jobs : JobOK(q)'
  BY <1>2, <1>11, <1>12, OthersOK
<1>14. StoreTypes' /\ Vec!VectorsRight'
  BY <1>2 DEF VectorInv, StoreTypes, Vec!Partial, Vec!VectorsRight
<1> QED BY <1>11, <1>13, <1>14 DEF VectorInv

LEMMA ListDoneStep == ASSUME VectorInv, NEW j \in Jobs, Vec!ListDone(j) PROVE VectorInv'
<1> DEFINE r == IF job[j].list = <<>> THEN Vec!NoJob ELSE [job[j] EXCEPT !.pc = "lookup"]
<1>1. /\ job' = [job EXCEPT ![j] = r] /\ job[j].pc = "list"
      /\ UNCHANGED <<chunks, minted, vec, dim, cache, conf, boots, runs, passed>>
  BY DEF Vec!ListDone
<1>2. job[j] \in JobType /\ job[j].pos \in 1..(Len(job[j].list) + 1) /\ JobOK(j)
  BY DEF VectorInv, JobTypes
<1>3. CASE job[j].list = <<>>
  <2>1. job' = [job EXCEPT ![j] = Vec!NoJob]
    BY <1>1, <1>3
  <2>2. Vec!NoJob \in JobType /\ Vec!NoJob.pos \in 1..(Len(Vec!NoJob.list) + 1)
    BY NoJobOK
  <2>3. JobTypes' /\ job'[j] = Vec!NoJob /\ \A q \in Jobs \ {j} : job'[q] = job[q]
    BY <2>1, <2>2, JobTypesKept DEF VectorInv
  <2>4. JobOK(j)'
    BY <2>3, NoJobOK DEF JobOK
  <2>5. \A q \in Jobs : JobOK(q)'
    BY <1>1, <2>3, <2>4, OthersOK
  <2>6. StoreTypes' /\ Vec!VectorsRight'
    BY <1>1 DEF VectorInv, StoreTypes, Vec!Partial, Vec!VectorsRight
  <2> QED BY <2>3, <2>5, <2>6 DEF VectorInv
<1>4. CASE job[j].list # <<>>
  <2>1. r = [job[j] EXCEPT !.pc = "lookup"]
    BY <1>4
  <2> HIDE DEF r
  <2>2. r \in JobType /\ r.pc = "lookup" /\ r.list = job[j].list /\ r.pos = job[j].pos
    BY <1>2, <2>1 DEF JobType
  <2>3. JobTypes' /\ job'[j] = r /\ \A q \in Jobs \ {j} : job'[q] = job[q]
    BY <1>1, <1>2, <2>2, JobTypesKept DEF VectorInv
  <2>4. JobOK(j)'
    BY <1>1, <1>2, <1>4, <2>2, <2>3 DEF JobOK
  <2>5. \A q \in Jobs : JobOK(q)'
    BY <1>1, <2>3, <2>4, OthersOK
  <2>6. StoreTypes' /\ Vec!VectorsRight'
    BY <1>1 DEF VectorInv, StoreTypes, Vec!Partial, Vec!VectorsRight
  <2> QED BY <2>3, <2>5, <2>6 DEF VectorInv
<1> QED BY <1>3, <1>4

\* What the lookup finds under a text answers it.
LEMMA CachedAnswers ==
  ASSUME VectorInv, NEW words \in Texts, Vec!Cached(words)
  PROVE  Answers(cache[<<conf[1], words>>], words)
<1> DEFINE x == <<conf[1], words>>
<1>1. x \in DOMAIN cache /\ cache[x].dim = conf[2]
  BY DEF Vec!Cached
<1>2. cache[x] \in Vec!Vector
  BY <1>1 DEF VectorInv, StoreTypes, Vec!Partial
<1>3. <<cache[x].model, cache[x].text>> = x
  BY <1>1 DEF VectorInv, Vec!VectorsRight
<1>4. cache[x].model = conf[1] /\ cache[x].text = words
  BY <1>3
<1> QED BY <1>1, <1>2, <1>4 DEF Answers

LEMMA LookupStep == ASSUME VectorInv, NEW j \in Jobs, Vec!Lookup(j) PROVE VectorInv'
<1> DEFINE list == job[j].list
           hits == Vec!Looked(j)
           V == Vec!Vector \union {NoText}
           next == IF NoText \in Vec!Range(hits) THEN "inner" ELSE "write"
           r == [job[j] EXCEPT !.got = hits, !.pc = next]
<1>1. /\ job' = [job EXCEPT ![j] = r] /\ job[j].pc = "lookup"
      /\ UNCHANGED <<chunks, minted, vec, dim, cache, conf, boots, runs, passed>>
  BY DEF Vec!Lookup
<1>2. job[j] \in JobType /\ list \in Vec!Listed /\ job[j].pos \in 1..(Len(list) + 1) /\ JobOK(j)
  BY DEF VectorInv, JobTypes, JobType
<1>3. Len(list) \in Nat /\ \A n \in 1..Len(list) : list[n].text \in Texts
  BY <1>2, ListedTypes
<1>4. \A n \in 1..Len(list) : hits[n] = NoText \/ Answers(hits[n], list[n].text)
  BY <1>3, CachedAnswers DEF Vec!Looked
<1>5. hits \in [1..Len(list) -> V]
  <2>1. \A n \in 1..Len(list) : hits[n] \in V
    BY <1>4 DEF Answers
  <2> QED BY <2>1 DEF Vec!Looked
<1>6. hits \in Seq(V) /\ Len(hits) = Len(list) /\ DOMAIN hits = 1..Len(list)
  <2> HIDE DEF V, hits, list
  <2> QED BY <1>3, <1>5, FunctionsAreSeqs
<1>7. next = "write" => \A n \in 1..Len(list) : hits[n] # NoText
  BY <1>6 DEF Vec!Range
<1>8. next \in {"inner", "write"}
  OBVIOUS
<1> HIDE DEF hits, next
<1>9. /\ r \in JobType /\ r.pc = next /\ r.list = list /\ r.got = hits /\ r.pos = job[j].pos
  BY <1>2, <1>6, <1>8 DEF JobType
<1> HIDE DEF r
<1>10. JobTypes' /\ job'[j] = r /\ \A q \in Jobs \ {j} : job'[q] = job[q]
  BY <1>1, <1>2, <1>9, JobTypesKept DEF VectorInv
<1>11. r.pos = 1 /\ list # <<>> /\ Len(list) # 0
  <2>1. r.pos = 1 /\ list # <<>>
    BY <1>1, <1>2, <1>9 DEF JobOK
  <2>2. Len(list) # 0
    BY <1>2, <2>1, EmptyListed
  <2> QED BY <2>1, <2>2
<1>12. JobOK(j)'
  <2>1. \A n \in 1..Len(list) :
          /\ list[n].id <= minted
          /\ IF list[n].id \in DOMAIN chunks THEN chunks[list[n].id].text = list[n].text
                                             ELSE list[n].id \in passed
    BY <1>2 DEF JobOK
  <2>2. \A n \in 1..Len(list) :
          Answers(hits[n], list[n].text) \/ (next = "inner" /\ hits[n] = NoText)
    BY <1>4, <1>7, <1>8
  <2> HIDE DEF list
  <2> QED BY <1>1, <1>3, <1>6, <1>8, <1>9, <1>10, <1>11, <2>1, <2>2 DEF JobOK, Answers
<1>13. \A q \in Jobs : JobOK(q)'
  BY <1>1, <1>10, <1>12, OthersOK
<1>14. StoreTypes' /\ Vec!VectorsRight'
  BY <1>1 DEF VectorInv, StoreTypes, Vec!Partial, Vec!VectorsRight
<1> QED BY <1>10, <1>13, <1>14 DEF VectorInv

LEMMA LeastMember ==
  ASSUME NEW S \in SUBSET Nat, S # {}
  PROVE  \E x \in S : \A y \in S : x <= y
<1>1. PICK x \in S : \A y \in S : ~ (<<y, x>> \in OpToRel(<, Nat))
  BY NatLessThanWellFounded, WFMin
<1>2. \A y \in S : ~ (y < x)
  BY <1>1 DEF OpToRel
<1> QED BY <1>2

LEMMA MissPlaces ==
  ASSUME NEW j \in Jobs, NEW size \in Nat, Vec!Misses(j) \in SUBSET (1..size),
         NEW at \in Vec!Ascending(Vec!Misses(j))
  PROVE  /\ Vec!Cardinality(Vec!Misses(j)) \in Nat
         /\ at \in [1..Vec!Cardinality(Vec!Misses(j)) -> Vec!Misses(j)]
         /\ Len(at) = Vec!Cardinality(Vec!Misses(j))
         /\ \A x \in Vec!Misses(j) : \E i \in 1..Len(at) : at[i] = x
<1> DEFINE S == Vec!Misses(j)
<1> HIDE DEF S
<1>1. /\ Vec!Cardinality(S) \in Nat /\ at \in [1..Vec!Cardinality(S) -> S]
      /\ Len(at) = Vec!Cardinality(S)
      /\ \A x \in S : \E i \in 1..Len(at) : at[i] = x
  <2>1. S \in SUBSET (1..size) /\ at \in Vec!Ascending(S)
    BY DEF S
  <2> QED BY <2>1, AscendingLists
<1> QED BY <1>1 DEF S

\* The provider's answers, those it left out being zero, are put where they are missing.
LEMMA AssembledAnswers ==
  ASSUME VectorInv, NEW j \in Jobs, job[j].pc = "inner",
         NEW m \in 0..Vec!Cardinality(Vec!Misses(j)),
         NEW at \in Vec!Ascending(Vec!Misses(j)), NEW new,
         new = [k \in 1..m |-> Vec!VectorOf(job[j].list[at[k]].text)]
  PROVE  /\ Vec!Assembled(j, new, at) \in Seq(Vec!Vector \union {NoText})
         /\ Len(Vec!Assembled(j, new, at)) = Len(job[j].list)
         /\ \A n \in 1..Len(job[j].list) :
              Answers(Vec!Assembled(j, new, at)[n], job[j].list[n].text)
         /\ m \in Nat /\ \A k \in 1..m : at[k] \in 1..Len(job[j].list)
<1> DEFINE list == job[j].list
           got == job[j].got
           whole == Vec!Assembled(j, new, at)
           V == Vec!Vector \union {NoText}
<1>1. /\ list \in Vec!Listed /\ Len(got) = Len(list)
      /\ \A n \in 1..Len(list) : Answers(got[n], list[n].text) \/ got[n] = NoText
  BY DEF VectorInv, JobTypes, JobType, JobOK
<1>2. Len(list) \in Nat /\ \A n \in 1..Len(list) : list[n].text \in Texts
  BY <1>1, ListedTypes
<1>3. /\ Vec!Misses(j) \in SUBSET (1..Len(list))
      /\ \A n \in 1..Len(list) : n \in Vec!Misses(j) <=> got[n] = NoText
  BY <1>1 DEF Vec!Misses
<1>4. /\ Vec!Cardinality(Vec!Misses(j)) \in Nat
      /\ at \in [1..Vec!Cardinality(Vec!Misses(j)) -> Vec!Misses(j)]
      /\ Len(at) = Vec!Cardinality(Vec!Misses(j))
      /\ \A x \in Vec!Misses(j) : \E i \in 1..Len(at) : at[i] = x
  <2> DEFINE size == Len(list)
  <2>1. size \in Nat /\ Vec!Misses(j) \in SUBSET (1..size)
    BY <1>2, <1>3
  <2> HIDE DEF size
  <2> QED BY <2>1, MissPlaces
<1>5. m \in Nat /\ \A k \in 1..m : at[k] \in 1..Len(list)
  <2> DEFINE missing == Vec!Misses(j)
             c == Vec!Cardinality(missing)
  <2>1. c \in Nat /\ m \in 0..c /\ at \in [1..c -> missing] /\ missing \subseteq 1..Len(list)
    BY <1>3, <1>4
  <2> HIDE DEF c, missing, list
  <2>2. m \in Nat /\ \A k \in 1..m : k \in 1..c
    BY <2>1
  <2> QED BY <2>1, <2>2
<1>6. \A words \in Texts : Answers(Vec!VectorOf(words), words) /\ Answers(Vec!VectorOf(NoText), words)
  BY DEF VectorInv, StoreTypes, Answers, Vec!VectorOf, Vec!Vector
<1>7. Len(new) = m
  BY <1>5
<1>8. ASSUME NEW n \in 1..Len(list) PROVE Answers(whole[n], list[n].text)
  <2>1. CASE got[n] # NoText
    BY <1>1, <2>1 DEF Vec!Assembled
  <2>2. CASE got[n] = NoText
    <3> DEFINE k == CHOOSE k \in 1..Len(at) : at[k] = n
    <3>1. k \in 1..Len(at) /\ at[k] = n
      BY <1>3, <1>4, <2>2
    <3>2. whole[n] = IF k <= Len(new) THEN new[k] ELSE Vec!VectorOf(NoText)
      BY <1>1, <2>2 DEF Vec!Assembled
    <3>3. CASE k <= Len(new)
      <4>1. whole[n] = Vec!VectorOf(list[n].text)
        BY <1>5, <1>7, <3>1, <3>2, <3>3
      <4> QED BY <1>2, <1>6, <4>1
    <3> QED BY <1>2, <1>6, <3>2, <3>3
  <2> QED BY <2>1, <2>2
<1>9. whole \in [1..Len(list) -> V]
  BY <1>1, <1>8 DEF Vec!Assembled, Answers
<1>10. whole \in Seq(V) /\ Len(whole) = Len(list)
  <2> HIDE DEF V, whole, list
  <2> QED BY <1>2, <1>9, FunctionsAreSeqs
<1> QED BY <1>5, <1>8, <1>10

\* What is filed in the cache is filed under its model and its text.
LEMMA PersistFiles ==
  ASSUME VectorInv, NEW j \in Jobs, NEW at, NEW m \in Nat,
         \A k \in 1..m : job[j].list[at[k]].text \in Texts,
         NEW new, new = [k \in 1..m |-> Vec!VectorOf(job[j].list[at[k]].text)],
         Vec!Persist(j, new, at)
  PROVE  /\ Vec!Partial(cache', {c[1] : c \in Configs} \X Texts, Vec!Vector)
         /\ \A x \in DOMAIN cache' : <<cache'[x].model, cache'[x].text>> = x
<1> DEFINE key(k) == <<conf[1], job[j].list[at[k]].text>>
           keys == {key(k) : k \in 1..Len(new)}
           first(x) == CHOOSE k \in 1..Len(new) : key(k) = x /\ \A l \in 1..(k - 1) : key(l) # x
<1>1. cache' = [x \in DOMAIN cache \union keys |->
                  IF x \in DOMAIN cache THEN cache[x] ELSE new[first(x)]]
  BY DEF Vec!Persist
<1>2. Len(new) = m
  OBVIOUS
<1>3. /\ conf \in Configs /\ Vec!Partial(cache, {c[1] : c \in Configs} \X Texts, Vec!Vector)
      /\ \A x \in DOMAIN cache : <<cache[x].model, cache[x].text>> = x
  BY DEF VectorInv, StoreTypes, Vec!VectorsRight
<1>4. ASSUME NEW x \in keys PROVE first(x) \in 1..m /\ key(first(x)) = x
  <2> DEFINE S == {k \in 1..m : key(k) = x}
  <2>1. S \in SUBSET Nat /\ S # {}
    BY <1>2
  <2>2. PICK k \in S : \A y \in S : k <= y
    BY <2>1, LeastMember
  <2>3. k \in 1..Len(new) /\ key(k) = x /\ \A l \in 1..(k - 1) : key(l) # x
    BY <1>2, <2>2
  <2> HIDE DEF key
  <2> QED BY <1>2, <2>3
<1>5. ASSUME NEW k \in 1..m
      PROVE  /\ key(k) \in {c[1] : c \in Configs} \X Texts /\ new[k] \in Vec!Vector
             /\ <<new[k].model, new[k].text>> = key(k)
  BY <1>3 DEF Vec!VectorOf, Vec!Vector
<1> HIDE DEF key, first
<1>6. ASSUME NEW x \in DOMAIN cache'
      PROVE  /\ x \in {c[1] : c \in Configs} \X Texts /\ cache'[x] \in Vec!Vector
             /\ <<cache'[x].model, cache'[x].text>> = x
  <2>1. CASE x \in DOMAIN cache
    BY <1>1, <1>3, <2>1 DEF Vec!Partial
  <2>2. CASE x \in keys /\ x \notin DOMAIN cache
    BY <1>1, <1>4, <1>5, <2>2
  <2> QED BY <1>1, <2>1, <2>2
<1> QED BY <1>6 DEF Vec!Partial

LEMMA InnerStep == ASSUME VectorInv, NEW j \in Jobs, NEW m, Vec!Inner(j, m) PROVE VectorInv'
<1>1. /\ job[j].pc = "inner" /\ m \in 0..Vec!Cardinality(Vec!Misses(j))
      /\ UNCHANGED <<chunks, minted, vec, dim, conf, boots, runs, passed>>
  BY DEF Vec!Inner
<1>2. PICK at \in Vec!Ascending(Vec!Misses(j)) :
        LET new == [k \in 1..m |-> Vec!VectorOf(job[j].list[at[k]].text)]
        IN /\ Vec!Persist(j, new, at)
           /\ job' = [job EXCEPT ![j].pc = "write", ![j].got = Vec!Assembled(j, new, at)]
  BY DEF Vec!Inner
<1> DEFINE new == [k \in 1..m |-> Vec!VectorOf(job[j].list[at[k]].text)]
           list == job[j].list
           whole == Vec!Assembled(j, new, at)
           r == [job[j] EXCEPT !.pc = "write", !.got = whole]
<1>3. job' = [job EXCEPT ![j] = r] /\ Vec!Persist(j, new, at)
  BY <1>2
<1>4. /\ whole \in Seq(Vec!Vector \union {NoText}) /\ Len(whole) = Len(list)
      /\ \A n \in 1..Len(list) : Answers(whole[n], list[n].text)
      /\ m \in Nat /\ \A k \in 1..m : at[k] \in 1..Len(list)
  BY <1>1, AssembledAnswers
<1>5. job[j] \in JobType /\ list \in Vec!Listed /\ job[j].pos \in 1..(Len(list) + 1) /\ JobOK(j)
  BY DEF VectorInv, JobTypes, JobType
<1>6. Len(list) \in Nat /\ \A n \in 1..Len(list) : list[n].text \in Texts
  BY <1>5, ListedTypes
<1>7. /\ Vec!Partial(cache', {c[1] : c \in Configs} \X Texts, Vec!Vector)
      /\ \A x \in DOMAIN cache' : <<cache'[x].model, cache'[x].text>> = x
  BY <1>3, <1>4, <1>6, PersistFiles
<1> HIDE DEF whole, new
<1>8. r \in JobType /\ r.pc = "write" /\ r.list = list /\ r.got = whole /\ r.pos = job[j].pos
  BY <1>4, <1>5 DEF JobType
<1> HIDE DEF r
<1>9. JobTypes' /\ job'[j] = r /\ \A q \in Jobs \ {j} : job'[q] = job[q]
  BY <1>3, <1>5, <1>8, JobTypesKept DEF VectorInv
<1>10. r.pos = 1 /\ list # <<>> /\ Len(list) # 0
  BY <1>1, <1>5, <1>8, EmptyListed DEF JobOK
<1>11. JobOK(j)'
  <2>1. \A n \in 1..Len(list) :
          /\ list[n].id <= minted
          /\ IF list[n].id \in DOMAIN chunks THEN chunks[list[n].id].text = list[n].text
                                             ELSE list[n].id \in passed
    BY <1>5 DEF JobOK
  <2> HIDE DEF list
  <2> QED BY <1>1, <1>4, <1>6, <1>8, <1>9, <1>10, <2>1 DEF JobOK, Answers
<1>12. \A q \in Jobs : JobOK(q)'
  BY <1>1, <1>9, <1>11, OthersOK
<1>13. StoreTypes' /\ Vec!VectorsRight'
  BY <1>1, <1>7 DEF VectorInv, StoreTypes, Vec!VectorsRight, Vec!Partial
<1> QED BY <1>9, <1>12, <1>13 DEF VectorInv

LEMMA WriteVectorStep == ASSUME VectorInv, NEW j \in Jobs, Vec!Write(j) PROVE VectorInv'
<1> DEFINE list == job[j].list
           pos == job[j].pos
           id == list[pos].id
           v == job[j].got[pos]
           r == Vec!Written(j)
<1>1. /\ job[j].pc = "write" /\ job' = [job EXCEPT ![j] = r]
      /\ vec' = [i \in DOMAIN vec \union {id} |-> IF i = id THEN v ELSE vec[i]]
      /\ UNCHANGED <<chunks, minted, dim, cache, conf, boots, runs, passed>>
  BY DEF Vec!Write
<1>2. job[j] \in JobType /\ list \in Vec!Listed /\ JobOK(j)
  BY DEF VectorInv, JobTypes, JobType
<1>3. /\ Len(list) \in Nat
      /\ \A n \in 1..Len(list) : list[n].id \in Nat /\ list[n].id \in Vec!Ids /\ list[n].text \in Texts
  BY <1>2, ListedTypes
<1>4. /\ pos \in 1..Len(list) /\ Answers(v, list[pos].text) /\ id <= minted
      /\ IF id \in DOMAIN chunks THEN chunks[id].text = list[pos].text ELSE id \in passed
  BY <1>1, <1>2 DEF JobOK
<1>5. id \in Vec!Ids /\ id \in 1..minted
  <2>1. id \in Nat /\ id \in Vec!Ids /\ id <= minted /\ minted \in Nat
    BY <1>3, <1>4 DEF VectorInv, StoreTypes
  <2>2. id >= 1
    BY <2>1 DEF Vec!Ids
  <2> QED BY <2>1, <2>2
<1> HIDE DEF id, v
<1>6. StoreTypes'
  <2>1. /\ Vec!Partial(vec', Vec!Ids, Vec!Vector) /\ \A i \in DOMAIN vec' : vec'[i].dim = dim
        /\ DOMAIN vec' \subseteq 1..minted
    BY <1>1, <1>4, <1>5 DEF VectorInv, StoreTypes, Vec!Partial, Answers
  <2> QED BY <1>1, <2>1 DEF VectorInv, StoreTypes, Vec!Partial
<1>7. Vec!VectorsRight'
  BY <1>1, <1>4 DEF VectorInv, Vec!VectorsRight, Answers
<1>8. /\ r \in JobType /\ r.pos \in 1..(Len(r.list) + 1)
      /\ r.pc \in {"idle", "write"}
      /\ r.pc = "idle" => r = Vec!NoJob
      /\ r.pc = "write" => /\ r.list = list /\ r.got = job[j].got /\ r.pos = pos + 1
                           /\ pos + 1 \in 1..Len(list)
  <2>1. CASE Vec!LastOf(j)
    BY <2>1, NoJobOK DEF Vec!Written
  <2>2. CASE ~Vec!LastOf(j)
    <3> DEFINE next == pos + 1
    <3>1. r = [job[j] EXCEPT !.pos = next] /\ pos # Len(list)
      BY <2>2 DEF Vec!Written, Vec!LastOf
    <3>2. next \in Nat /\ next \in 1..Len(list)
      BY <1>3, <1>4, <3>1
    <3> HIDE DEF r, next
    <3>3. r.list = list /\ r.got = job[j].got /\ r.pos = next /\ r.pc = "write" /\ r \in JobType
      BY <1>1, <1>2, <3>1, <3>2 DEF JobType
    <3> QED BY <1>3, <3>2, <3>3 DEF next
  <2> QED BY <2>1, <2>2
<1> HIDE DEF r
<1>9. JobTypes' /\ job'[j] = r /\ \A q \in Jobs \ {j} : job'[q] = job[q]
  BY <1>1, <1>8, JobTypesKept DEF VectorInv
<1>10. /\ \A i \in DOMAIN vec : i \in DOMAIN vec' /\ vec'[i].model \in {vec[i].model, conf[1]}
       /\ id \in DOMAIN vec' /\ vec'[id].model = conf[1]
  BY <1>1, <1>4 DEF Answers
<1>11. JobOK(j)'
  <2>1. CASE r.pc = "idle"
    BY <1>8, <1>9, <2>1, NoJobOK DEF JobOK
  <2>2. CASE r.pc = "write"
    <3>1. \A n \in 1..Len(list) :
            /\ list[n].id <= minted
            /\ IF list[n].id \in DOMAIN chunks THEN chunks[list[n].id].text = list[n].text
                                               ELSE list[n].id \in passed
      BY <1>2 DEF JobOK
    <3>2. /\ list # <<>> /\ Len(job[j].got) = Len(list)
          /\ \A n \in 1..Len(list) : Answers(job[j].got[n], list[n].text)
      BY <1>1, <1>2 DEF JobOK
    <3>3. ASSUME NEW n \in 1..pos, list[n].id \in DOMAIN chunks
          PROVE  list[n].id \in DOMAIN vec' /\ vec'[list[n].id].model = conf[1]
      <4>1. CASE n = pos
        BY <1>10, <4>1 DEF id
      <4>2. CASE n # pos
        <5>1. n \in 1..(pos - 1)
          BY <1>4, <4>2
        <5>2. list[n].id \in DOMAIN vec /\ vec[list[n].id].model = conf[1]
          BY <1>1, <1>2, <3>3, <5>1 DEF JobOK
        <5> QED BY <1>10, <5>2
      <4> QED BY <4>1, <4>2
    <3>4. pos \in Nat
      BY <1>4
    <3>5. /\ r.pos - 1 = pos /\ r.pos \in 1..Len(list)
          /\ r.list = list /\ r.got = job[j].got
      BY <1>8, <2>2, <3>4
    <3> HIDE DEF list, pos
    <3>6. \A n \in 1..(r.pos - 1) :
            list[n].id \in DOMAIN chunks =>
              list[n].id \in DOMAIN vec' /\ vec'[list[n].id].model = conf[1]
      BY <3>3, <3>5
    <3> HIDE DEF r
    <3>7. job'[j] = r /\ UNCHANGED <<chunks, minted, conf, passed>>
      BY <1>1, <1>9
    <3>8. /\ job'[j].pc = "write" /\ job'[j].list = list /\ list # <<>>
          /\ Len(job'[j].got) = Len(list) /\ job'[j].pos \in 1..Len(list)
      BY <2>2, <3>2, <3>5, <3>7
    <3>9. \A n \in 1..Len(list) :
            LET a == job'[j].got[n] IN
            a \in Vec!Vector /\ a.model = conf'[1] /\ a.dim = conf'[2] /\ a.text \in {list[n].text, NoText}
      BY <3>2, <3>5, <3>7 DEF Answers
    <3>10. \A n \in 1..(job'[j].pos - 1) :
             list[n].id \in DOMAIN chunks' =>
               list[n].id \in DOMAIN vec' /\ vec'[list[n].id].model = conf'[1]
      BY <3>6, <3>7
    <3>11. \A n \in 1..Len(list) :
             /\ list[n].id <= minted'
             /\ IF list[n].id \in DOMAIN chunks' THEN chunks'[list[n].id].text = list[n].text
                                                 ELSE list[n].id \in passed'
      BY <3>1, <3>7
    <3> QED BY <3>8, <3>9, <3>10, <3>11 DEF JobOK, Answers, Vec!Vector
  <2> QED BY <1>8, <2>1, <2>2
<1>12. \A q \in Jobs : JobOK(q)'
  BY <1>1, <1>9, <1>10, <1>11, OthersOK
<1> QED BY <1>6, <1>7, <1>9, <1>12 DEF VectorInv

LEMMA BootStep == ASSUME Vec!VectorsAssumption, VectorInv, NEW c \in Configs, Vec!Boot(c) PROVE VectorInv'
<1>1. /\ boots < MaxBoots /\ boots' = boots + 1 /\ conf' = c /\ dim' = c[2]
      /\ vec' = IF c[2] = dim THEN vec ELSE <<>>
      /\ job' = [q \in Jobs |-> Vec!NoJob]
      /\ UNCHANGED <<chunks, minted, cache, runs, passed>>
  BY DEF Vec!Boot
<1>2. JobTypes'
  BY <1>1, NoJobOK DEF JobTypes
<1>3. \A q \in Jobs : JobOK(q)'
  BY <1>1, NoJobOK DEF JobOK
<1>4. StoreTypes'
  <2>1. /\ Vec!Partial(vec', Vec!Ids, Vec!Vector) /\ \A i \in DOMAIN vec' : vec'[i].dim = dim'
        /\ DOMAIN vec' \subseteq 1..minted
    <3>1. CASE c[2] = dim
      BY <1>1, <3>1 DEF VectorInv, StoreTypes
    <3>2. CASE c[2] # dim
      BY <1>1, <3>2 DEF Vec!Partial
    <3> QED BY <3>1, <3>2
  <2>2. boots' \in 0..MaxBoots
    BY <1>1 DEF VectorInv, StoreTypes, Vec!VectorsAssumption
  <2> QED BY <1>1, <2>1, <2>2 DEF VectorInv, StoreTypes, Vec!Partial
<1>5. Vec!VectorsRight'
  BY <1>1 DEF VectorInv, Vec!VectorsRight
<1> QED BY <1>2, <1>3, <1>4, <1>5 DEF VectorInv

LEMMA ClearStep == ASSUME VectorInv, NEW some \in SUBSET DOMAIN cache, Vec!Clear(some) PROVE VectorInv'
<1>1. /\ cache' = [x \in DOMAIN cache \ some |-> cache[x]]
      /\ UNCHANGED <<chunks, minted, vec, dim, conf, job, boots, runs, passed>>
  BY DEF Vec!Clear
<1>2. StoreTypes' /\ JobTypes' /\ Vec!VectorsRight'
  BY <1>1 DEF VectorInv, StoreTypes, JobTypes, Vec!Partial, Vec!VectorsRight
<1>3. \A q \in Jobs : JobOK(q)'
  BY <1>1 DEF VectorInv, JobOK, Answers, Vec!Vector
<1> QED BY <1>2, <1>3 DEF VectorInv

LEMMA VectorStep == Vec!VectorsAssumption /\ VectorInv /\ [Vec!Next]_Vec!vars => VectorInv'
<1> SUFFICES ASSUME Vec!VectorsAssumption, VectorInv, [Vec!Next]_Vec!vars PROVE VectorInv'
  OBVIOUS
<1>1. CASE \E b \in Blocks : \/ Vec!Replace(b, <<>>)
                             \/ \E t \in Texts : Vec!Replace(b, <<t>>)
                             \/ \E t, u \in Texts : Vec!Replace(b, <<t, u>>)
  <2>1. PICK b \in Blocks, texts \in Seq(Texts) : Vec!Replace(b, texts)
    <3>1. /\ <<>> \in Seq(Texts) /\ \A t \in Texts : <<t>> \in Seq(Texts)
          /\ \A t, u \in Texts : <<t, u>> \in Seq(Texts)
      OBVIOUS
    <3> QED BY <1>1, <3>1, Zenon
  <2> QED BY <2>1, ReplaceStep
<1>2. CASE \E j \in Jobs : Vec!Plan(j) \/ Vec!ListDone(j) \/ Vec!Lookup(j) \/ Vec!Write(j) \/ Vec!JobFails(j)
  BY <1>2, PlanStep, ListDoneStep, LookupStep, WriteVectorStep, JobFailsStep
<1>3. CASE \E j \in Jobs : \/ \E b \in Blocks : Vec!ListBlock(j, b)
                           \/ \E m \in 0..MaxChunks : Vec!Inner(j, m)
  BY <1>3, ListBlockStep, InnerStep
<1>4. CASE \E c \in Configs : Vec!Boot(c)
  BY <1>4, BootStep
<1>5. CASE \E some \in SUBSET DOMAIN cache : some # {} /\ Vec!Clear(some)
  BY <1>5, ClearStep
<1>6. CASE UNCHANGED Vec!vars
  <2>1. UNCHANGED <<chunks, minted, vec, dim, cache, conf, job, boots, runs, passed>>
    BY <1>6 DEF Vec!vars
  <2>2. StoreTypes' /\ JobTypes' /\ Vec!VectorsRight'
    BY <2>1 DEF VectorInv, StoreTypes, JobTypes, Vec!Partial, Vec!VectorsRight
  <2>3. \A q \in Jobs : JobOK(q)'
    BY <2>1 DEF VectorInv, JobOK, Answers, Vec!Vector
  <2> QED BY <2>2, <2>3 DEF VectorInv
<1> QED BY <1>1, <1>2, <1>3, <1>4, <1>5, <1>6, Zenon DEF Vec!Next

\* What is listed, got, written and cached stays as VectorInv says.
THEOREM VectorInvariance ==
  ASSUME Vec!VectorsAssumption
  PROVE  Vec!Spec => []VectorInv
<1>1. Vec!Init => VectorInv
  BY VectorInit
<1>2. VectorInv /\ [Vec!Next]_Vec!vars => VectorInv'
  BY VectorStep
<1> QED BY <1>1, <1>2, PTL DEF Vec!Spec

\* Types of the tables and of the runs, also across boots with another configuration.
THEOREM VectorTypes ==
  ASSUME Vec!VectorsAssumption
  PROVE  Vec!Spec => []Vec!TypeOK
<1>1. VectorInv => Vec!TypeOK
  <2> SUFFICES ASSUME VectorInv PROVE Vec!TypeOK
    OBVIOUS
  <2>1. ASSUME NEW j \in Jobs
        PROVE  /\ job[j].pc \in {"idle", "list", "lookup", "inner", "write"}
               /\ job[j].todo \subseteq Blocks /\ job[j].list \in Vec!Listed
               /\ job[j].pos \in 1..(Len(job[j].list) + 1)
               /\ \A i \in 1..Len(job[j].got) : job[j].got[i] \in Vec!Vector \union {NoText}
    <3>1. /\ job[j] \in JobType /\ job[j].pos \in 1..(Len(job[j].list) + 1)
          /\ job[j].got \in Seq(Vec!Vector \union {NoText})
      BY DEF VectorInv, JobTypes, JobType
    <3>2. \A i \in 1..Len(job[j].got) : job[j].got[i] \in Vec!Vector \union {NoText}
      BY <3>1, SeqPlaces
    <3> QED BY <3>1, <3>2 DEF JobType
  <2> QED BY <2>1 DEF VectorInv, StoreTypes, Vec!TypeOK
<1> QED BY <1>1, VectorInvariance, PTL

\* A chunk's vector is that of its text or the zero vector, the cache files no vector
\* under another text or model, and only chunks that went under a run that had listed
\* them leave a vector (embed_entry_chunks, CachedEmbedding, write_embedding), for any
\* number of runs, blocks, texts, models and reboots.
THEOREM VectorsAlwaysRight == ServicesSpec => []VectorsRight
<1>1. VectorInv => VectorsRight
  BY DEF VectorInv, VectorsRight
<1> QED BY <1>1, ServicesHave, Assumed, VectorInvariance, PTL

\* A run that ends without an error leaves every chunk it listed, and that is still
\* there, with a vector of the configured model (embed_entry_chunks).
THEOREM RunsCover == ServicesSpec => RunCovers
<1> DEFINE Covered(j) == Vec!Write(j) /\ Vec!LastOf(j)
                           => \A i \in Vec!ListedBy(j) \intersect DOMAIN chunks :
                                i \in DOMAIN vec' /\ vec'[i].model = conf[1]
<1>1. ASSUME VectorInv, NEW j \in Jobs PROVE Covered(j)
  <2> SUFFICES ASSUME Vec!Write(j), Vec!LastOf(j), NEW i \in Vec!ListedBy(j), i \in DOMAIN chunks
               PROVE  i \in DOMAIN vec' /\ vec'[i].model = conf[1]
    OBVIOUS
  <2> DEFINE list == job[j].list
             pos == job[j].pos
             id == list[pos].id
  <2>1. /\ job[j].pc = "write" /\ pos = Len(list)
        /\ vec' = [k \in DOMAIN vec \union {id} |-> IF k = id THEN job[j].got[pos] ELSE vec[k]]
    BY DEF Vec!Write, Vec!LastOf
  <2>2. JobOK(j) /\ pos \in 1..Len(list)
    BY <1>1, <2>1 DEF VectorInv, JobOK
  <2>3. PICK n \in 1..Len(list) : i = list[n].id
    BY DEF Vec!ListedBy
  <2>4. job[j].got[pos].model = conf[1]
    BY <2>1, <2>2 DEF JobOK, Answers
  <2>5. CASE i = id
    BY <2>1, <2>4, <2>5
  <2>6. CASE i # id
    <3>1. n \in 1..(pos - 1)
      BY <2>1, <2>2, <2>3, <2>6
    <3>2. i \in DOMAIN vec /\ vec[i].model = conf[1]
      BY <2>1, <2>2, <2>3, <3>1 DEF JobOK
    <3> QED BY <2>1, <2>6, <3>2
  <2> QED BY <2>5, <2>6
<1>2. VectorInv => [\A j \in Jobs : Covered(j)]_Vec!vars
  BY <1>1
<1> QED
  BY ServicesHave, Assumed, VectorInvariance, <1>2, PTL DEF Vec!Spec, RunCovers, Vec!RunCovers

\* The types of the channels, of batches and of the vectors' tables and runs.
THEOREM TypesStayOK == ServicesSpec => []TypesOK
<1>1. ChannelInv /\ Bat!TypeOK /\ Vec!TypeOK => TypesOK
  BY DEF ChannelInv, TypesOK
<1> QED BY <1>1, ServicesHave, Assumed, ChannelInvariance, BatchTypesHold, VectorTypes, PTL
-----------------------------------------------------------------------------
(* The search results cache, in the two instances of MCServices.  Those of *)
(* SearchCache_proofs are of the same specifications.                      *)

LateProofs == INSTANCE SearchCache_proofs WITH
  db <- version,
  Methods <- {"entry.create", "block.append", "entries.purge_transient"},
  Rpcs <- {"semantic", "fulltext"}, MayFail <- {"purge"},
  MaxCalls <- 2, MaxAsks <- 2, MaxPass <- 1

FailingProofs == INSTANCE SearchCache_proofs WITH
  db <- version,
  Methods <- {"block.update", "block.delete", "index.rebuild"},
  Rpcs <- {"fulltext", "hybrid"},
  MayFail <- {"commit", "rerender", "embed", "cleanup", "reindexAll", "embedAll"},
  MaxCalls <- 1, MaxAsks <- 2, MaxPass <- 1

LEMMA LateInit == Late!Init => LateProofs!Init
BY DEF Late!Init, LateProofs!Init, Late!IdleWriter, LateProofs!IdleWriter, Late!IdleSearch,
      LateProofs!IdleSearch, Late!Zero, LateProofs!Zero, Late!Facets, LateProofs!Facets,
      Late!Parts, LateProofs!Parts

LEMMA LateHandlers ==
  /\ \A op : Late!Handler(op) = LateProofs!Handler(op)
  /\ \A w, kinds : Late!Doing(w, kinds) <=> LateProofs!Doing(w, kinds)
  /\ Late!IdleWriter = LateProofs!IdleWriter /\ Late!IdleSearch = LateProofs!IdleSearch
  /\ Late!Serialized = LateProofs!Serialized
<1>1. \A op : Late!Handler(op) = LateProofs!Handler(op)
  BY DEF Late!Handler, LateProofs!Handler, Late!EntryCreate, LateProofs!EntryCreate,
      Late!EntryUpdate, LateProofs!EntryUpdate, Late!EntryDelete, LateProofs!EntryDelete,
      Late!PurgeTransient, LateProofs!PurgeTransient, Late!BlockAppend, LateProofs!BlockAppend,
      Late!BlockUpdate, LateProofs!BlockUpdate, Late!BlockDelete, LateProofs!BlockDelete,
      Late!Batch, LateProofs!Batch, Late!IndexSync, LateProofs!IndexSync, Late!IndexRebuild,
      LateProofs!IndexRebuild
<1>2. Late!Serialized = LateProofs!Serialized
  BY DEF Late!Serialized, LateProofs!Serialized, Late!AllMethods, LateProofs!AllMethods
<1> QED
  BY <1>1, <1>2
  DEF Late!Doing, LateProofs!Doing, Late!Running, LateProofs!Running, Late!IdleWriter,
      LateProofs!IdleWriter, Late!IdleSearch, LateProofs!IdleSearch, Late!Zero, LateProofs!Zero,
      Late!Facets, LateProofs!Facets, Late!Parts, LateProofs!Parts

LEMMA LateWrites ==
  ASSUME NEW w \in Writers, Late!WriterStep(w)  PROVE LateProofs!WriterStep(w)
  BY LateHandlers
  DEF Late!WriterStep, LateProofs!WriterStep, Late!Acquire, LateProofs!Acquire, Late!Commit,
      LateProofs!Commit, Late!PassEntry, LateProofs!PassEntry, Late!PassDone, LateProofs!PassDone,
      Late!Rerender, LateProofs!Rerender, Late!Embed, LateProofs!Embed, Late!NothingToEmbed,
      LateProofs!NothingToEmbed, Late!Quiet, LateProofs!Quiet, Late!Bump, LateProofs!Bump,
      Late!BumpSkipped, LateProofs!BumpSkipped, Late!StepFails, LateProofs!StepFails, Late!Answer,
      LateProofs!Answer, Late!PurgeUncounted, LateProofs!PurgeUncounted, Late!CommitFacet,
      LateProofs!CommitFacet, Late!Reached, LateProofs!Reached, Late!Skip, LateProofs!Skip,
      Late!LoopSteps, LateProofs!LoopSteps, Late!VectorSteps, LateProofs!VectorSteps,
      Late!QuietSteps, LateProofs!QuietSteps, Late!BumpSteps, LateProofs!BumpSteps, Late!Release,
      LateProofs!Release, Late!Join, LateProofs!Join, Late!MaxOf, LateProofs!MaxOf, Late!Facets,
      LateProofs!Facets

LEMMA LateSearches ==
  ASSUME NEW s \in Searchers, Late!SearcherStep(s)  PROVE LateProofs!SearcherStep(s)
BY LateHandlers
  DEF Late!SearcherStep, LateProofs!SearcherStep, Late!LoadGeneration, LateProofs!LoadGeneration,
      Late!Hit, LateProofs!Hit, Late!Miss, LateProofs!Miss, Late!ComputeFails,
      LateProofs!ComputeFails, Late!Insert, LateProofs!Insert, Late!Finish, LateProofs!Finish,
      Late!ReadPart, LateProofs!ReadPart, Late!UnchangedBySearch, LateProofs!UnchangedBySearch,
      Late!KeyOf, LateProofs!KeyOf, Late!PartsOf, LateProofs!PartsOf, Late!Parts, LateProofs!Parts

LEMMA LateNext == [Late!Next]_Late!vars => [LateProofs!Next]_LateProofs!vars
<1>1. \A w \in Writers : \A op : Late!Call(w, op) => LateProofs!Call(w, op)
  BY LateHandlers
  DEF Late!Call, LateProofs!Call
<1>2. \A s \in Searchers : \A rpc : Late!Ask(s, rpc) => LateProofs!Ask(s, rpc)
  BY LateHandlers
  DEF Late!Ask, LateProofs!Ask, Late!UnchangedBySearch, LateProofs!UnchangedBySearch
<1>3. Late!CacheClear => LateProofs!CacheClear
  BY DEF Late!CacheClear, LateProofs!CacheClear, Late!Parts, LateProofs!Parts
<1> QED
  BY <1>1, <1>2, <1>3, LateWrites, LateSearches
  DEF Late!Next, LateProofs!Next, Late!vars, LateProofs!vars

LEMMA FailingInit == Failing!Init => FailingProofs!Init
BY DEF Failing!Init, FailingProofs!Init, Failing!IdleWriter, FailingProofs!IdleWriter,
      Failing!IdleSearch, FailingProofs!IdleSearch, Failing!Zero, FailingProofs!Zero,
      Failing!Facets, FailingProofs!Facets, Failing!Parts, FailingProofs!Parts

LEMMA FailingHandlers ==
  /\ \A op : Failing!Handler(op) = FailingProofs!Handler(op)
  /\ \A w, kinds : Failing!Doing(w, kinds) <=> FailingProofs!Doing(w, kinds)
  /\ Failing!IdleWriter = FailingProofs!IdleWriter /\ Failing!IdleSearch = FailingProofs!IdleSearch
  /\ Failing!Serialized = FailingProofs!Serialized
<1>1. \A op : Failing!Handler(op) = FailingProofs!Handler(op)
  BY DEF Failing!Handler, FailingProofs!Handler, Failing!EntryCreate, FailingProofs!EntryCreate,
      Failing!EntryUpdate, FailingProofs!EntryUpdate, Failing!EntryDelete,
      FailingProofs!EntryDelete, Failing!PurgeTransient, FailingProofs!PurgeTransient,
      Failing!BlockAppend, FailingProofs!BlockAppend, Failing!BlockUpdate,
      FailingProofs!BlockUpdate, Failing!BlockDelete, FailingProofs!BlockDelete, Failing!Batch,
      FailingProofs!Batch, Failing!IndexSync, FailingProofs!IndexSync, Failing!IndexRebuild,
      FailingProofs!IndexRebuild
<1>2. Failing!Serialized = FailingProofs!Serialized
  BY DEF Failing!Serialized, FailingProofs!Serialized, Failing!AllMethods, FailingProofs!AllMethods
<1> QED
  BY <1>1, <1>2
  DEF Failing!Doing, FailingProofs!Doing, Failing!Running, FailingProofs!Running,
      Failing!IdleWriter, FailingProofs!IdleWriter, Failing!IdleSearch, FailingProofs!IdleSearch,
      Failing!Zero, FailingProofs!Zero, Failing!Facets, FailingProofs!Facets, Failing!Parts,
      FailingProofs!Parts

LEMMA FailingWrites ==
  ASSUME NEW w \in Writers, Failing!WriterStep(w)  PROVE FailingProofs!WriterStep(w)
  BY FailingHandlers
  DEF Failing!WriterStep, FailingProofs!WriterStep, Failing!Acquire, FailingProofs!Acquire,
      Failing!Commit, FailingProofs!Commit, Failing!PassEntry, FailingProofs!PassEntry,
      Failing!PassDone, FailingProofs!PassDone, Failing!Rerender, FailingProofs!Rerender,
      Failing!Embed, FailingProofs!Embed, Failing!NothingToEmbed, FailingProofs!NothingToEmbed,
      Failing!Quiet, FailingProofs!Quiet, Failing!Bump, FailingProofs!Bump, Failing!BumpSkipped,
      FailingProofs!BumpSkipped, Failing!StepFails, FailingProofs!StepFails, Failing!Answer,
      FailingProofs!Answer, Failing!PurgeUncounted, FailingProofs!PurgeUncounted,
      Failing!CommitFacet, FailingProofs!CommitFacet, Failing!Reached, FailingProofs!Reached,
      Failing!Skip, FailingProofs!Skip, Failing!LoopSteps, FailingProofs!LoopSteps,
      Failing!VectorSteps, FailingProofs!VectorSteps, Failing!QuietSteps,
      FailingProofs!QuietSteps, Failing!BumpSteps, FailingProofs!BumpSteps, Failing!Release,
      FailingProofs!Release, Failing!Join, FailingProofs!Join, Failing!MaxOf, FailingProofs!MaxOf,
      Failing!Facets, FailingProofs!Facets

LEMMA FailingSearches ==
  ASSUME NEW s \in Searchers, Failing!SearcherStep(s)  PROVE FailingProofs!SearcherStep(s)
BY FailingHandlers
  DEF Failing!SearcherStep, FailingProofs!SearcherStep, Failing!LoadGeneration,
      FailingProofs!LoadGeneration, Failing!Hit, FailingProofs!Hit, Failing!Miss,
      FailingProofs!Miss, Failing!ComputeFails, FailingProofs!ComputeFails, Failing!Insert,
      FailingProofs!Insert, Failing!Finish, FailingProofs!Finish, Failing!ReadPart,
      FailingProofs!ReadPart, Failing!UnchangedBySearch, FailingProofs!UnchangedBySearch,
      Failing!KeyOf, FailingProofs!KeyOf, Failing!PartsOf, FailingProofs!PartsOf, Failing!Parts,
      FailingProofs!Parts

LEMMA FailingNext == [Failing!Next]_Failing!vars => [FailingProofs!Next]_FailingProofs!vars
<1>1. \A w \in Writers : \A op : Failing!Call(w, op) => FailingProofs!Call(w, op)
  BY FailingHandlers
  DEF Failing!Call, FailingProofs!Call
<1>2. \A s \in Searchers : \A rpc : Failing!Ask(s, rpc) => FailingProofs!Ask(s, rpc)
  BY FailingHandlers
  DEF Failing!Ask, FailingProofs!Ask, Failing!UnchangedBySearch, FailingProofs!UnchangedBySearch
<1>3. Failing!CacheClear => FailingProofs!CacheClear
  BY DEF Failing!CacheClear, FailingProofs!CacheClear, Failing!Parts, FailingProofs!Parts
<1> QED
  BY <1>1, <1>2, <1>3, FailingWrites, FailingSearches
  DEF Failing!Next, FailingProofs!Next, Failing!vars, FailingProofs!vars

\* What the cache does in either instance is a behaviour of it.
LEMMA CacheParts ==
  ServicesSpec => /\ part = "late" => LateProofs!Spec
                  /\ part = "failing" => FailingProofs!Spec
                  /\ part = "late" => [](part = "late")
                  /\ part = "failing" => [](part = "failing")
                  /\ ~(part = "late") => [](~(part = "late"))
                  /\ ~(part = "failing") => [](~(part = "failing"))
<1>1. ServicesInit => /\ part = "late" => LateProofs!Init
                      /\ part = "failing" => FailingProofs!Init
  BY LateInit, FailingInit DEF ServicesInit
<1>2. [ServicesNext]_all => part' = part
  BY DEF ServicesNext, all
<1>3. /\ UNCHANGED csh => UNCHANGED Late!vars /\ UNCHANGED Failing!vars
      /\ UNCHANGED all => UNCHANGED csh
  BY DEF csh, all, Late!vars, Failing!vars
<1>4. part = "late" /\ [ServicesNext]_all => [LateProofs!Next]_LateProofs!vars
  <2>1. part = "late" /\ [ServicesNext]_all => [Late!Next]_Late!vars
    BY <1>3 DEF ServicesNext
  <2> QED BY <2>1, LateNext
<1>5. part = "failing" /\ [ServicesNext]_all => [FailingProofs!Next]_FailingProofs!vars
  <2>1. part = "failing" /\ [ServicesNext]_all => [Failing!Next]_Failing!vars
    BY <1>3 DEF ServicesNext
  <2> QED BY <2>1, FailingNext
<1>6. [ServicesNext]_all => /\ part = "late" => (part = "late")'
                            /\ part = "failing" => (part = "failing")'
                            /\ ~(part = "late") => (~(part = "late"))'
                            /\ ~(part = "failing") => (~(part = "failing"))'
  BY <1>2
<1> QED BY <1>1, <1>4, <1>5, <1>6, PTL DEF ServicesSpec, LateProofs!Spec, FailingProofs!Spec

\* Vectors and stamps that are written before the bump, and content whose call failed
\* after the bump, are in every later search.
THEOREM EffectsStayFresh == ServicesSpec => []EffectsFresh
<1>1. /\ LateProofs!ConstantsAssumption
      /\ FailingProofs!ConstantsAssumption
  BY ServicesAssumption
  DEF Late!ConstantsAssumption, LateProofs!ConstantsAssumption,
      Failing!ConstantsAssumption, FailingProofs!ConstantsAssumption,
      Late!AllMethods, LateProofs!AllMethods, Failing!AllMethods, FailingProofs!AllMethods,
      Late!SearchRpc, LateProofs!SearchRpc, Failing!SearchRpc, FailingProofs!SearchRpc,
      Late!Steps, LateProofs!Steps, Failing!Steps, FailingProofs!Steps,
      Late!BumpSteps, LateProofs!BumpSteps, Failing!BumpSteps, FailingProofs!BumpSteps,
      Late!ContentSteps, LateProofs!ContentSteps, Failing!ContentSteps, FailingProofs!ContentSteps,
      Late!LoopSteps, LateProofs!LoopSteps, Failing!LoopSteps, FailingProofs!LoopSteps,
      Late!VectorSteps, LateProofs!VectorSteps, Failing!VectorSteps, FailingProofs!VectorSteps,
      Late!QuietSteps, LateProofs!QuietSteps, Failing!QuietSteps, FailingProofs!QuietSteps
<1>2. LateProofs!Spec => []LateProofs!VectorFresh
  BY <1>1, LateProofs!VectorsStayFresh
<1>3. LateProofs!Spec => []LateProofs!StampFresh
  BY <1>1, LateProofs!StampsStayFresh
<1>4. FailingProofs!Spec => []FailingProofs!SettledFresh
  BY <1>1, FailingProofs!DaemonFailuresFresh
<1>5. /\ LateProofs!VectorFresh /\ LateProofs!StampFresh => Late!VectorFresh /\ Late!StampFresh
      /\ FailingProofs!SettledFresh => Failing!SettledFresh
  BY DEF Late!VectorFresh, LateProofs!VectorFresh, Late!StampFresh, LateProofs!StampFresh,
         Failing!SettledFresh, FailingProofs!SettledFresh, Late!Answered, LateProofs!Answered,
         Failing!Answered, FailingProofs!Answered, Late!PartsOf, LateProofs!PartsOf,
         Failing!PartsOf, FailingProofs!PartsOf, Late!Parts, LateProofs!Parts,
         Failing!Parts, FailingProofs!Parts
<1>6. /\ (part = "late" => Late!VectorFresh /\ Late!StampFresh)
      /\ (part = "failing" => Failing!SettledFresh)
      => EffectsFresh
  BY DEF EffectsFresh
<1> QED BY CacheParts, <1>2, <1>3, <1>4, <1>5, <1>6, PTL
=============================================================================
