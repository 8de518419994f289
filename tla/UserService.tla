----------------------------- MODULE UserService -----------------------------
(* UsersController: concurrent POST /api/users and PATCH /api/users/{id}/status. *)
(* Each request has its own DbContext on the shared in-memory database, so a      *)
(* request is a read followed, in a later step, by one atomic save of the user    *)
(* row and its outbox row.  Nothing (index, concurrency token, lock) ties the     *)
(* save to what the read saw.                                                     *)
EXTENDS Naturals, Sequences

CONSTANTS Requests,   \* HTTP requests; a create request r inserts the user row r
          Emails,     \* e-mail addresses, already validated and trimmed
          NoEmail     \* the address of a request that never got to its check

Statuses == {"Active", "Inactive"}

ASSUME EmailAssumption == NoEmail \notin Emails

VARIABLES
    users,      \* ids of the rows of the Users table
    email,      \* create request (= id of its user) -> address
    status,     \* user -> Status column
    pc,         \* request -> "none", "insert", "save" or "done"
    target,     \* update request -> the user it changes
    from,       \* update request -> the status its read returned
    to,         \* update request -> the status it asks for
    events      \* user -> its users.status-changed outbox rows, in commit order

(* History *)
VARIABLES
    seen,       \* create request -> the users its duplicate check saw
    base        \* update request -> events already committed when it read the row

requests == <<pc, target, from, to>>
vars     == <<users, email, status, requests, events, seen, base>>

Init ==
    /\ users = {}
    /\ email = [r \in Requests |-> NoEmail]
    /\ status = [r \in Requests |-> "Active"]
    /\ pc = [r \in Requests |-> "none"]
    /\ target = [r \in Requests |-> r]
    /\ from = [r \in Requests |-> "Active"]
    /\ to = [r \in Requests |-> "Active"]
    /\ events = [r \in Requests |-> <<>>]
    /\ seen = [r \in Requests |-> {}]
    /\ base = [r \in Requests |-> 0]

------------------------------------------------------------------------------
(* Create: AnyAsync on the e-mail; 409 if it is taken. *)

(* Mutant: only active users are looked at. *)
TakenByActive(m) == \E u \in users : email[u] = m /\ status[u] = "Active"

Taken(m) == \E u \in users : email[u] = m

CreateConflicts(r, m) ==
    /\ pc[r] = "none"
    /\ Taken(m)
    /\ pc' = [pc EXCEPT ![r] = "done"]
    /\ UNCHANGED <<users, email, status, target, from, to, events, seen, base>>

CreateChecks(r, m) ==
    /\ pc[r] = "none"
    /\ ~Taken(m)
    /\ email' = [email EXCEPT ![r] = m]
    /\ seen' = [seen EXCEPT ![r] = users]
    /\ pc' = [pc EXCEPT ![r] = "insert"]
    /\ UNCHANGED <<users, status, target, from, to, events, base>>

(* Mutant: Status is left unset. *)
CreateInsertsUnset(r) ==
    /\ pc[r] = "insert"
    /\ users' = users \cup {r}
    /\ status' = [status EXCEPT ![r] = "Unset"]
    /\ pc' = [pc EXCEPT ![r] = "done"]
    /\ UNCHANGED <<email, target, from, to, events, seen, base>>

CreateInserts(r) ==
    /\ pc[r] = "insert"
    /\ users' = users \cup {r}
    /\ status' = [status EXCEPT ![r] = "Active"]
    /\ pc' = [pc EXCEPT ![r] = "done"]
    /\ UNCHANGED <<email, target, from, to, events, seen, base>>

------------------------------------------------------------------------------
(* UpdateStatus: a no-op when the row read already has the requested status. *)

(* Mutant: without the no-op test. *)
UpdateReadsAlways(r, u, s) ==
    /\ pc[r] = "none"
    /\ u \in users
    /\ target' = [target EXCEPT ![r] = u]
    /\ from' = [from EXCEPT ![r] = status[u]]
    /\ to' = [to EXCEPT ![r] = s]
    /\ base' = [base EXCEPT ![r] = Len(events[u])]
    /\ pc' = [pc EXCEPT ![r] = "save"]
    /\ UNCHANGED <<users, email, status, events, seen>>

UpdateReads(r, u, s) ==
    /\ pc[r] = "none"
    /\ u \in users
    /\ target' = [target EXCEPT ![r] = u]
    /\ from' = [from EXCEPT ![r] = status[u]]
    /\ to' = [to EXCEPT ![r] = s]
    /\ base' = [base EXCEPT ![r] = Len(events[u])]
    /\ pc' = [pc EXCEPT ![r] = IF status[u] = s THEN "done" ELSE "save"]
    /\ UNCHANGED <<users, email, status, events, seen>>

(* Mutant: OldStatus and NewStatus are swapped in the event. *)
UpdateSavesSwapped(r) ==
    /\ pc[r] = "save"
    /\ status' = [status EXCEPT ![target[r]] = to[r]]
    /\ events' = [events EXCEPT ![target[r]] =
                    Append(@, [old |-> to[r], new |-> from[r], base |-> base[r]])]
    /\ pc' = [pc EXCEPT ![r] = "done"]
    /\ UNCHANGED <<users, email, target, from, to, seen, base>>

UpdateSaves(r) ==
    /\ pc[r] = "save"
    /\ status' = [status EXCEPT ![target[r]] = to[r]]
    /\ events' = [events EXCEPT ![target[r]] =
                    Append(@, [old |-> from[r], new |-> to[r], base |-> base[r]])]
    /\ pc' = [pc EXCEPT ![r] = "done"]
    /\ UNCHANGED <<users, email, target, from, to, seen, base>>

(* The client disconnects, or the 15 s save timeout fires: nothing is saved. *)
RequestCancelled(r) ==
    /\ pc[r] \in {"insert", "save"}
    /\ pc' = [pc EXCEPT ![r] = "done"]
    /\ UNCHANGED <<users, email, status, target, from, to, events, seen, base>>

Next ==
    \E r \in Requests :
        \/ \E m \in Emails : CreateConflicts(r, m) \/ CreateChecks(r, m)
        \/ CreateInserts(r)
        \/ \E u \in users, s \in Statuses : UpdateReads(r, u, s)
        \/ UpdateSaves(r)
        \/ RequestCancelled(r)

Spec == Init /\ [][Next]_vars

------------------------------------------------------------------------------
(* Properties *)

StatusEvent == [old : Statuses, new : Statuses, base : Nat]

(* Every variable has its type. *)
TypeOK ==
    /\ users \in SUBSET Requests
    /\ email \in [Requests -> Emails \cup {NoEmail}]
    /\ status \in [Requests -> Statuses]
    /\ pc \in [Requests -> {"none", "insert", "save", "done"}]
    /\ target \in [Requests -> Requests]
    /\ from \in [Requests -> Statuses]
    /\ to \in [Requests -> Statuses]
    /\ events \in [Requests -> Seq(StatusEvent)]
    /\ seen \in [Requests -> SUBSET Requests]
    /\ base \in [Requests -> Nat]

StatusAfter(u, n) == IF n = 0 THEN "Active" ELSE events[u][n].new

(* Two users share an address only if their requests overlapped: neither row was  *)
(* committed when the other request ran its duplicate check.                      *)
DuplicatesOnlyByOverlap ==
    \A a, b \in users : a # b /\ email[a] = email[b] => a \notin seen[b] /\ b \notin seen[a]

(* The outbox tells the truth about the table: whatever requests interleave, a     *)
(* user's status is the NewStatus of the last event committed for it.              *)
StatusIsLastAnnounced ==
    \A u \in users : status[u] = StatusAfter(u, Len(events[u]))

(* An event's OldStatus is a status the user really had, the one its request read, *)
(* even when other requests committed in between; and no event announces a change  *)
(* from a status to itself.                                                        *)
OldStatusWasReal ==
    \A u \in users : \A i \in 1..Len(events[u]) :
        LET e == events[u][i] IN
            e.base < i /\ e.old = StatusAfter(u, e.base) /\ e.old # e.new

(* Seen from the other services, the table and the outbox change as UserContract says: *)
(* one event with every change of a status, never an event without one, and each from   *)
(* a status the user had.                                                            *)
Contract == INSTANCE UserContract WITH
    Users <- Requests,
    announced <- [u \in Requests |-> [i \in 1..Len(events[u]) |-> events[u][i].new]]

ImplementsContract == Contract!Spec

(* "Check for existing user with same email and return 409 Conflict if found": no  *)
(* two users share an address.                                                     *)
EmailUnique == \A a, b \in users : email[a] = email[b] => a = b

==============================================================================
