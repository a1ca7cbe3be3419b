---------------------------- MODULE Conversations ----------------------------
(***************************************************************************)
(* Conversations with their turns, the events that every mutation writes   *)
(* in its own transaction, and a consumer that follows the events with a   *)
(* cursor, as events.list documents it: it pulls what is newer than the    *)
(* last event it has seen.  An event's id is a ULID, milliseconds and then *)
(* random bits, so the order of ids is the order of commits only from one  *)
(* millisecond to the next.                                                *)
(***************************************************************************)
EXTENDS Naturals, Sequences, FiniteSets, SequencesExt

CONSTANTS
  Conversation,  \* ULIDs; one is used for at most one create
  Consumer,      \* clients that follow the event log
  Limits,        \* `limit` of events.list
  Randoms,       \* random parts of event ids
  MaxCalls,      \* bound: mutating calls
  MaxMs,         \* bound: milliseconds
  MaxPurges      \* bound: calls of events.purge

ConversationsAssumption ==
  /\ Limits \subseteq Nat /\ Randoms \subseteq Nat
  /\ MaxCalls \in Nat /\ MaxMs \in Nat /\ MaxPurges \in Nat

VARIABLES
  convs,    \* conversations: metadata and turn_count of each row
  turns,    \* rows of the turns table
  events,   \* rows of the events table
  now,      \* the clock, in milliseconds
  cursor,   \* cursor[c]: the id of the last event consumer c has seen
  replica,  \* replica[c]: conversations and turns as c knows them
  seen,     \* history: the events c has been given
  outrun,   \* history: the events that were purged before c was given them
  written,  \* history: every event, in the order of the commits
  calls, purges

tables == <<convs, turns>>
follower == <<cursor, replica, seen>>
vars == <<tables, events, now, follower, outrun, written, calls, purges>>

Empty == [convs |-> [x \in {} |-> 0], turns |-> {}]

Init ==
  /\ convs = Empty.convs /\ turns = {} /\ events = {} /\ now = 1
  /\ cursor = [c \in Consumer |-> <<0, 0>>]
  /\ replica = [c \in Consumer |-> Empty]
  /\ seen = [c \in Consumer |-> {}] /\ outrun = [c \in Consumer |-> {}]
  /\ written = <<>> /\ calls = 0 /\ purges = 0

-----------------------------------------------------------------------------
(* Mutating calls, one transaction each, under the connection's mutex. *)

Later(a, b) == a[1] > b[1] \/ (a[1] = b[1] /\ a[2] > b[2])

Counted == calls < MaxCalls /\ calls' = calls + 1
Untouched == UNCHANGED <<now, follower, outrun, purges>>

\* INSERT INTO events, with Ulid::new(): `body` is the snapshot in the payload.
Emit(type, conv, body) == \E r \in Randoms :
  LET event == [id |-> <<now, r>>, type |-> type, conv |-> conv, body |-> body] IN
  /\ \A i \in DOMAIN written : written[i].id # event.id
  /\ events' = events \union {event}
  /\ written' = Append(written, event)

\* What the caller asks to store: for each turn whether its attrs are an object,
\* without which insert_turn_in_tx refuses it.
Shapes == {<<TRUE>>, <<TRUE, TRUE>>, <<TRUE, FALSE>>}
Valid(shape) == \A i \in DOMAIN shape : shape[i]

TurnsOf(conv) == {t \in turns : t.conv = conv}

\* MAX(ordinal) + 1, or 0.
NextOrdinal(conv) ==
  IF TurnsOf(conv) = {} THEN 0
  ELSE 1 + CHOOSE n \in {t.ordinal : t \in TurnsOf(conv)} :
             \A t \in TurnsOf(conv) : t.ordinal <= n

\* The turns inserted up to the first that is refused; `calls` is their content.
Inserted(conv, from, shape) ==
  {[conv |-> conv, ordinal |-> from + i - 1, text |-> calls] :
     i \in {i \in DOMAIN shape : \A j \in 1 .. i : shape[j]}}

\* turns_ai, the trigger on INSERT, counts the turn.
AddTurns(conv, new) ==
  /\ turns' = turns \union new
  /\ convs' = [convs EXCEPT ![conv].count = @ + Cardinality(new)]

\* Used: a conversation is created once, under a fresh id.
Fresh(conv) == \A i \in DOMAIN written : written[i].conv # conv

\* conversation.create, with the turns it starts with, if any.
Create(conv, shape) ==
  /\ Counted /\ Fresh(conv) /\ Untouched
  /\ LET new == Inserted(conv, 0, shape)
         row == [meta |-> calls, count |-> Cardinality(new)]
     IN IF Valid(shape)
        THEN /\ convs' = [x \in DOMAIN convs \union {conv} |-> IF x = conv THEN row ELSE convs[x]]
             /\ turns' = turns \union new
             /\ Emit("created", conv, [row |-> row, turns |-> new])
        ELSE UNCHANGED <<tables, events, written>>

\* Slip: the turns before the refused one stay, without an event.
AppendKeepsPart(conv, shape) ==
  /\ Counted /\ conv \in DOMAIN convs /\ Untouched
  /\ LET new == Inserted(conv, NextOrdinal(conv), shape)
     IN /\ AddTurns(conv, new)
        /\ IF Valid(shape) THEN Emit("appended", conv, [turns |-> new])
                           ELSE UNCHANGED <<events, written>>

\* conversation.append: a refused turn rolls back the ones before it.
AppendTurns(conv, shape) ==
  /\ Counted /\ conv \in DOMAIN convs /\ Untouched
  /\ LET new == Inserted(conv, NextOrdinal(conv), shape)
     IN IF Valid(shape)
        THEN AddTurns(conv, new) /\ Emit("appended", conv, [turns |-> new])
        ELSE UNCHANGED <<tables, events, written>>

\* conversation.update: metadata only; the snapshot has the turn_count of the row
\* it read.
Update(conv) ==
  /\ Counted /\ conv \in DOMAIN convs /\ Untouched
  /\ LET row == [convs[conv] EXCEPT !.meta = calls]
     IN /\ convs' = [convs EXCEPT ![conv] = row]
        /\ Emit("updated", conv, [row |-> row])
  /\ UNCHANGED turns

\* conversation.delete: the row, and its turns by ON DELETE CASCADE.
Delete(conv) ==
  /\ Counted /\ conv \in DOMAIN convs /\ Untouched
  /\ Emit("deleted", conv, [row |-> convs[conv]])
  /\ convs' = [x \in DOMAIN convs \ {conv} |-> convs[x]]
  /\ turns' = turns \ TurnsOf(conv)

Tick == /\ now < MaxMs /\ now' = now + 1
        /\ UNCHANGED <<tables, events, follower, outrun, written, calls, purges>>
-----------------------------------------------------------------------------
(* The event log. *)

\* Slip: the newest are returned when there are more than `limit`.
ListNewest(since, limit) ==
  LET ahead == {e \in events : Later(e.id, since)}
  IN {e \in ahead : Cardinality({f \in ahead : Later(f.id, e.id)}) < limit}

\* EventService::list in ascending order: the oldest `limit` events after `since`.
List(since, limit) ==
  LET ahead == {e \in events : Later(e.id, since)}
  IN {e \in ahead : Cardinality({f \in ahead : Later(e.id, f.id)}) < limit}

\* What a consumer makes of an event's payload.
Apply(r, e) ==
  CASE e.type = "created" ->
         [convs |-> [x \in DOMAIN r.convs \union {e.conv} |->
                       IF x = e.conv THEN e.body.row ELSE r.convs[x]],
          turns |-> r.turns \union e.body.turns]
    [] e.type = "appended" ->
         [convs |-> [x \in DOMAIN r.convs |->
                       IF x = e.conv
                         THEN [r.convs[x] EXCEPT !.count = @ + Cardinality(e.body.turns)]
                         ELSE r.convs[x]],
          turns |-> r.turns \union e.body.turns]
    [] e.type = "updated" ->
         [r EXCEPT !.convs = [x \in DOMAIN r.convs |->
                                IF x = e.conv THEN e.body.row ELSE r.convs[x]]]
    [] e.type = "deleted" ->
         [convs |-> [x \in DOMAIN r.convs \ {e.conv} |-> r.convs[x]],
          turns |-> {t \in r.turns : t.conv # e.conv}]

ApplyAll(r, order) == FoldLeft(Apply, r, order)

\* A consumer pulls the next events, applies them in order and keeps the id of the last.
Pull(c, limit) == LET page == List(cursor[c], limit) IN
  /\ page # {}
  /\ \E order \in [1..Cardinality(page) -> page] :
       /\ \A e \in page : \E i \in DOMAIN order : order[i] = e
       /\ \A i, j \in DOMAIN order : i < j => Later(order[j].id, order[i].id)
       /\ cursor' = [cursor EXCEPT ![c] = order[Cardinality(page)].id]
       /\ replica' = [replica EXCEPT ![c] = ApplyAll(@, order)]
  /\ seen' = [seen EXCEPT ![c] = @ \union page]
  /\ UNCHANGED <<tables, events, now, outrun, written, calls, purges>>

\* EventService::purge: events older than `before`, perhaps of one type.
Purge(before, types) ==
  LET gone == {e \in events : Later(before, e.id) /\ e.type \in types} IN
  /\ purges < MaxPurges /\ purges' = purges + 1
  /\ events' = events \ gone
  /\ outrun' = [c \in Consumer |-> outrun[c] \union (gone \ seen[c])]
  /\ UNCHANGED <<tables, now, follower, written, calls>>

Next ==
  \/ \E conv \in Conversation : \/ \E shape \in Shapes \union {<<>>} : Create(conv, shape)
                                \/ \E shape \in Shapes : AppendTurns(conv, shape)
                                \/ Update(conv) \/ Delete(conv)
  \/ Tick
  \/ \E c \in Consumer : \E limit \in Limits : Pull(c, limit)
  \/ \E e \in events : \E types \in {{e.type}, {"created", "appended", "updated", "deleted"}} :
       Purge(e.id, types)

Spec == Init /\ [][Next]_vars
-----------------------------------------------------------------------------
(* Properties. *)

Missed(c) == {e \in Range(written) : ~Later(e.id, cursor[c])} \ (seen[c] \union outrun[c])
CaughtUp(c) == \A e \in events : ~Later(e.id, cursor[c])
Ordered == \A i, j \in DOMAIN written : i < j => Later(written[j].id, written[i].id)

\* A consumer that has caught up has exactly the conversations, turn counts and
\* numbered turns of the tables, whatever was refused half-way, as long as no purge
\* outran it and no two events of one millisecond came in the wrong order.
ReplicaFollows == \A c \in Consumer :
  CaughtUp(c) /\ outrun[c] = {} /\ Ordered => replica[c] = [convs |-> convs, turns |-> turns]

\* The only event that a cursor passes by is one that was committed after an event
\* of the same millisecond which the consumer had already been given.
MissedOnlyInMs == \A c \in Consumer : \A e \in Missed(c) :
  \E i, j \in DOMAIN written :
    i < j /\ written[j] = e /\ written[i] \in seen[c] /\ written[i].id[1] = e.id[1]
=============================================================================
