---------------------------- MODULE UserContract ----------------------------
(* What UserService promises about the status of its users: a change and the event    *)
(* that announces it are one step, and a change is one from a status the user had at    *)
(* some time to another.  Two requests that overlap may announce the same status twice, *)
(* and the later of two changes need not start from the earlier.  UserService           *)
(* implements this specification; OrderService takes it as its environment.             *)
EXTENDS Naturals, Sequences

CONSTANTS Users

Statuses == {"Active", "Inactive"}

VARIABLES
    status,      \* user -> Status
    announced    \* user -> NewStatus of its users.status-changed events, in commit order

Init ==
    /\ status = [u \in Users |-> "Active"]
    /\ announced = [u \in Users |-> <<>>]

(* Active is the status every user starts with. *)
WasOnce(u, s) == s = "Active" \/ \E i \in 1..Len(announced[u]) : announced[u][i] = s

Change(u, s) ==
    /\ \E old \in Statuses \ {s} : WasOnce(u, old)
    /\ status' = [status EXCEPT ![u] = s]
    /\ announced' = [announced EXCEPT ![u] = Append(@, s)]

Next == \E u \in Users, s \in Statuses : Change(u, s)

Spec == Init /\ [][Next]_<<status, announced>>
==============================================================================
