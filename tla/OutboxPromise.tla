---------------------------- MODULE OutboxPromise ----------------------------
(* What is left of OutboxContract when saves may throw and HTTP clients write the same  *)
(* rows: no bound on the copies of an event (a save that throws forgets a failure, a    *)
(* client can write an older RetryCount back), but an event is retired only after a     *)
(* copy of it was appended, or because a client says so; it is retired for good; and at *)
(* most one copy, the one of a worker that had read the row before, follows.            *)
EXTENDS Naturals

CONSTANTS Entries

VARIABLES
    status,    \* event -> "new", "unsent" or "sent"
    copies,    \* event -> number of copies appended
    late       \* event -> how many of them after it was sent

vars == <<status, copies, late>>

Init ==
    /\ status = [e \in Entries |-> "new"]
    /\ copies = [e \in Entries |-> 0]
    /\ late = [e \in Entries |-> 0]

Record(e) ==
    /\ status[e] = "new"
    /\ status' = [status EXCEPT ![e] = "unsent"]
    /\ UNCHANGED <<copies, late>>

Deliver(e) ==
    /\ status[e] = "unsent"
    /\ copies' = [copies EXCEPT ![e] = @ + 1]
    /\ UNCHANGED <<status, late>>

DeliverLate(e) ==
    /\ status[e] = "sent"
    /\ late[e] = 0
    /\ copies' = [copies EXCEPT ![e] = @ + 1]
    /\ late' = [late EXCEPT ![e] = 1]
    /\ UNCHANGED status

(* One save may retire several events: earlier saves that threw left theirs behind. *)
Retire(S) ==
    /\ \A e \in S : status[e] = "unsent" /\ copies[e] > 0
    /\ status' = [e \in Entries |-> IF e \in S THEN "sent" ELSE status[e]]
    /\ UNCHANGED <<copies, late>>

(* An HTTP client marks an event as sent. *)
Claim(e) ==
    /\ status[e] = "unsent"
    /\ status' = [status EXCEPT ![e] = "sent"]
    /\ UNCHANGED <<copies, late>>

Next ==
    \/ \E e \in Entries : Record(e) \/ Deliver(e) \/ DeliverLate(e) \/ Claim(e)
    \/ \E S \in SUBSET Entries : Retire(S)

Spec == Init /\ [][Next]_vars
==============================================================================
