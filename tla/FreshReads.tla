----------------------------- MODULE FreshReads -----------------------------
(***************************************************************************)
(* What the search RPCs promise, without a cache: the index is a history   *)
(* of commits, a search is told how much of it some client has already     *)
(* been told about, and it answers with any later prefix.                  *)
(***************************************************************************)
EXTENDS Naturals

CONSTANT Searchers

VARIABLES
  committed,  \* length of the history of committed transactions
  acked,      \* the longest prefix a successful answer has reported
  req         \* req[s]: the request of searcher s

vars == <<committed, acked, req>>

Idle == [pc |-> "idle", need |-> 0, got |-> 0]

Init == /\ committed = 0
        /\ acked = 0
        /\ req = [s \in Searchers |-> Idle]

Write == /\ committed' = committed + 1
         /\ UNCHANGED <<acked, req>>

\* A writer is answered: everything it committed is now owed to later searches.
Ack == /\ \E p \in acked .. committed : acked' = p
       /\ UNCHANGED <<committed, req>>

Ask(s) == /\ req[s].pc = "idle"
          /\ req' = [req EXCEPT ![s] = [pc |-> "open", need |-> acked, got |-> 0]]
          /\ UNCHANGED <<committed, acked>>

Reply(s) == /\ req[s].pc = "open"
            /\ \E p \in req[s].need .. committed :
                 req' = [req EXCEPT ![s] = [pc |-> "done", need |-> req[s].need, got |-> p]]
            /\ UNCHANGED <<committed, acked>>

Close(s) == /\ req[s].pc # "idle"
            /\ req' = [req EXCEPT ![s] = Idle]
            /\ UNCHANGED <<committed, acked>>

Next == \/ Write \/ Ack
        \/ \E s \in Searchers : Ask(s) \/ Reply(s) \/ Close(s)

Spec == Init /\ [][Next]_vars
=============================================================================
