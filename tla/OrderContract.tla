---------------------------- MODULE OrderContract ----------------------------
(* What OrderService promises about its orders: a row and the event that announces it   *)
(* are one step; only deactivated users lose orders, and only their own, all that one    *)
(* message cancels in one step; and each order is cancelled by messages at most as often *)
(* as it was made Pending.  A restart loses the orders.                                 *)
EXTENDS Naturals

CONSTANTS Orders, Users, NoUser

Statuses == {"Pending", "Completed", "Paid", "Cancelled"}

VARIABLES
    owner,         \* order -> its user, NoUser when there is no such order
    status,        \* order -> Status, "Absent" when there is no such order
    spare,         \* order -> how often it was made Pending and not cancelled for it
    deactivated    \* users with a deactivation on the topic

vars == <<owner, status, spare, deactivated>>

Init ==
    /\ owner = [o \in Orders |-> NoUser]
    /\ status = [o \in Orders |-> "Absent"]
    /\ spare = [o \in Orders |-> 0]
    /\ deactivated = {}

Deactivate(u) ==
    /\ deactivated' = deactivated \cup {u}
    /\ UNCHANGED <<owner, status, spare>>

Create(o, u) ==
    /\ status[o] = "Absent"
    /\ owner' = [owner EXCEPT ![o] = u]
    /\ status' = [status EXCEPT ![o] = "Pending"]
    /\ spare' = [spare EXCEPT ![o] = @ + 1]
    /\ UNCHANGED deactivated

(* On request, whatever the status was. *)
Change(o, s) ==
    /\ status[o] # "Absent"
    /\ status' = [status EXCEPT ![o] = s]
    /\ spare' = [spare EXCEPT ![o] = IF s = "Pending" THEN @ + 1 ELSE @]
    /\ UNCHANGED <<owner, deactivated>>

CancelAll(S, u) ==
    /\ u \in deactivated
    /\ \A o \in S : owner[o] = u /\ spare[o] > 0
    /\ status' = [o \in Orders |-> IF o \in S THEN "Cancelled" ELSE status[o]]
    /\ spare' = [o \in Orders |-> IF o \in S THEN spare[o] - 1 ELSE spare[o]]
    /\ UNCHANGED <<owner, deactivated>>

Lose ==
    /\ owner' = [o \in Orders |-> NoUser]
    /\ status' = [o \in Orders |-> "Absent"]
    /\ spare' = [o \in Orders |-> 0]
    /\ UNCHANGED deactivated

Next ==
    \/ \E u \in Users : Deactivate(u) \/ \E S \in SUBSET Orders : CancelAll(S, u)
    \/ \E o \in Orders : (\E u \in Users : Create(o, u)) \/ (\E s \in Statuses : Change(o, s))
    \/ Lose

Spec == Init /\ [][Next]_vars
==============================================================================
