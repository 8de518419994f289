--------------------------- MODULE OutboxContract ---------------------------
(* What the outbox promises to the rest of the system, without its table, its  *)
(* worker or its batches: an event recorded with its entity is appended to its *)
(* topic a bounded number of times, is retired as delivered only after an      *)
(* append, and is otherwise abandoned.                                          *)
EXTENDS Naturals

CONSTANTS Entries,    \* the events
          MaxCopies   \* the most copies of one event that may be appended

VARIABLES status,     \* event -> "new", "pending", "delivered" or "abandoned"
          copies      \* event -> number of copies appended

vars == <<status, copies>>

Init ==
    /\ status = [e \in Entries |-> "new"]
    /\ copies = [e \in Entries |-> 0]

Record(e) ==
    /\ status[e] = "new"
    /\ status' = [status EXCEPT ![e] = "pending"]
    /\ UNCHANGED copies

Deliver(e) ==
    /\ status[e] = "pending"
    /\ copies[e] < MaxCopies
    /\ copies' = [copies EXCEPT ![e] = @ + 1]
    /\ UNCHANGED status

Retire(e) ==
    /\ status[e] = "pending"
    /\ copies[e] > 0
    /\ status' = [status EXCEPT ![e] = "delivered"]
    /\ UNCHANGED copies

Abandon(e) ==
    /\ status[e] = "pending"
    /\ status' = [status EXCEPT ![e] = "abandoned"]
    /\ UNCHANGED copies

Next == \E e \in Entries : Record(e) \/ Deliver(e) \/ Retire(e) \/ Abandon(e)

Spec == Init /\ [][Next]_vars
=============================================================================
