-------------------------- MODULE UserServiceProofs --------------------------
(* The users table and its outbox, for any number of concurrent requests and any   *)
(* set of addresses.                                                              *)
EXTENDS UserService, TLAPS

(* Type correctness, for every set of requests and addresses. *)
THEOREM TypeCorrect == Spec => []TypeOK
<1>1. Init => TypeOK
  BY DEF Init, TypeOK, Statuses
<1>2. TypeOK /\ [Next]_vars => TypeOK'
  <2> SUFFICES ASSUME TypeOK, [Next]_vars
               PROVE  TypeOK'
    OBVIOUS
  <2> USE DEF TypeOK
  <2>1. ASSUME NEW r \in Requests, NEW m \in Emails, CreateConflicts(r, m)
        PROVE  TypeOK'
    BY <2>1 DEF CreateConflicts
  <2>2. ASSUME NEW r \in Requests, NEW m \in Emails, CreateChecks(r, m)
        PROVE  TypeOK'
    BY <2>2 DEF CreateChecks
  <2>3. ASSUME NEW r \in Requests, CreateInserts(r)
        PROVE  TypeOK'
    BY <2>3 DEF CreateInserts, Statuses
  <2>4. ASSUME NEW r \in Requests, NEW u \in users, NEW s \in Statuses, UpdateReads(r, u, s)
        PROVE  TypeOK'
    <3>1. u \in Requests /\ Len(events[u]) \in Nat
      OBVIOUS
    <3> QED
      BY <2>4, <3>1 DEF UpdateReads
  <2>5. ASSUME NEW r \in Requests, UpdateSaves(r)
        PROVE  TypeOK'
    <3>1. [old |-> from[r], new |-> to[r], base |-> base[r]] \in StatusEvent
      BY DEF StatusEvent
    <3> QED
      BY <2>5, <3>1 DEF UpdateSaves
  <2>6. ASSUME NEW r \in Requests, RequestCancelled(r)
        PROVE  TypeOK'
    BY <2>6 DEF RequestCancelled
  <2>7. CASE UNCHANGED vars
    BY <2>7 DEF vars, requests
  <2> QED
    BY <2>1, <2>2, <2>3, <2>4, <2>5, <2>6, <2>7 DEF Next
<1> QED
  BY <1>1, <1>2, PTL DEF Spec

------------------------------------------------------------------------------
(* Duplicates.  A request that has not inserted yet has no row, and what a check    *)
(* saw is still there, under another address than the one it let through.          *)
SeenInv ==
    /\ \A r \in Requests : pc[r] \in {"none", "insert"} => r \notin users
    /\ \A b \in Requests : \A a \in seen[b] : a \in users /\ email[a] # email[b]

(* SeenInv is inductive: only a request without a row gets an address. *)
LEMMA SeenStep == TypeOK /\ SeenInv /\ [Next]_vars => SeenInv'
  <1> SUFFICES ASSUME TypeOK, SeenInv, [Next]_vars
               PROVE  SeenInv'
    OBVIOUS
  <1> USE DEF TypeOK, SeenInv
  <1>1. ASSUME NEW r \in Requests, NEW m \in Emails, CreateConflicts(r, m)
        PROVE  SeenInv'
    BY <1>1 DEF CreateConflicts
  <1>2. ASSUME NEW r \in Requests, NEW m \in Emails, CreateChecks(r, m)
        PROVE  SeenInv'
    <2>1. r \notin users /\ \A a \in users : email[a] # m
      BY <1>2 DEF CreateChecks, Taken
    <2>2. ASSUME NEW b \in Requests, NEW a \in seen'[b]
          PROVE  a \in users' /\ email'[a] # email'[b]
      BY <1>2, <2>1, <2>2 DEF CreateChecks
    <2> QED
      BY <1>2, <2>2 DEF CreateChecks
  <1>3. ASSUME NEW r \in Requests, CreateInserts(r)
        PROVE  SeenInv'
    BY <1>3 DEF CreateInserts
  <1>4. ASSUME NEW r \in Requests, NEW u \in users, NEW s \in Statuses, UpdateReads(r, u, s)
        PROVE  SeenInv'
    BY <1>4 DEF UpdateReads
  <1>5. ASSUME NEW r \in Requests, UpdateSaves(r)
        PROVE  SeenInv'
    BY <1>5 DEF UpdateSaves
  <1>6. ASSUME NEW r \in Requests, RequestCancelled(r)
        PROVE  SeenInv'
    BY <1>6 DEF RequestCancelled
  <1>7. CASE UNCHANGED vars
    BY <1>7 DEF vars, requests
  <1> QED
    BY <1>1, <1>2, <1>3, <1>4, <1>5, <1>6, <1>7 DEF Next

(* SeenInv holds in every behaviour. *)
LEMMA SeenInvariant == Spec => []SeenInv
<1>1. Init => SeenInv
  BY DEF Init, SeenInv
<1> QED
  BY <1>1, SeenStep, TypeCorrect, PTL DEF Spec

(* Two users share an address only if neither request's check saw the other's row. *)
THEOREM OnlyOverlapDuplicates == Spec => []DuplicatesOnlyByOverlap
<1>1. TypeOK /\ SeenInv => DuplicatesOnlyByOverlap
  BY DEF TypeOK, SeenInv, DuplicatesOnlyByOverlap
<1> QED
  BY <1>1, SeenInvariant, TypeCorrect, PTL

------------------------------------------------------------------------------
(* The outbox tells the truth.  A user without a row has no event; an update that   *)
(* is about to save holds a status its user had when base events were committed.    *)
AnnounceInv ==
    /\ \A r \in Requests : r \notin users => events[r] = <<>>
    /\ StatusIsLastAnnounced
    /\ OldStatusWasReal
    /\ \A r \in Requests : pc[r] = "save" =>
         /\ target[r] \in users
         /\ base[r] <= Len(events[target[r]])
         /\ from[r] = StatusAfter(target[r], base[r])
         /\ from[r] # to[r]

(* Steps that leave the events, the rows and the running updates alone. *)
LEMMA AnnounceUntouched ==
    ASSUME TypeOK, AnnounceInv,
           UNCHANGED <<users, status, events, target, from, to, base>>,
           \A r \in Requests : pc'[r] = "save" => pc[r] = "save"
    PROVE  AnnounceInv'
  BY DEF AnnounceInv, StatusIsLastAnnounced, OldStatusWasReal, StatusAfter

(* The save appends one event: the ones before keep their places. *)
LEMMA SaveAnnounces ==
    ASSUME TypeOK, AnnounceInv, NEW r \in Requests, UpdateSaves(r)
    PROVE  AnnounceInv'
<1> USE DEF TypeOK
<1>a. PICK u \in Requests : u = target[r]
  OBVIOUS
<1>b. PICK e \in StatusEvent : e = [old |-> from[r], new |-> to[r], base |-> base[r]]
  BY DEF StatusEvent
<1>c. PICK len \in Nat : len = Len(events[u])
  OBVIOUS
<1>1. /\ u \in users /\ u \in Requests /\ base[r] \in Nat /\ base[r] <= len
      /\ from[r] = StatusAfter(u, base[r]) /\ from[r] # to[r]
  BY <1>a, <1>c DEF UpdateSaves, AnnounceInv
<1>2. events[u] \in Seq(StatusEvent) /\ len = Len(events[u])
  BY <1>c
<1>3. /\ events' = [events EXCEPT ![u] = Append(events[u], e)]
      /\ status' = [status EXCEPT ![u] = to[r]]
      /\ pc' = [pc EXCEPT ![r] = "done"]
      /\ UNCHANGED <<users, target, from, to, base>>
  BY <1>a, <1>b DEF UpdateSaves
<1>4. /\ Len(events'[u]) = len + 1
      /\ events'[u][len + 1] = e
      /\ \A i \in 1..len : events'[u][i] = events[u][i]
  BY <1>1, <1>2, <1>3
<1>5. \A v \in Requests : v # u => events'[v] = events[v]
  BY <1>3
<1>6. ASSUME NEW v \in Requests, NEW n \in 0..Len(events[v])
      PROVE  StatusAfter(v, n)' = StatusAfter(v, n)
  <2>1. CASE v = u
    BY <2>1, <1>2, <1>4 DEF StatusAfter
  <2>2. CASE v # u
    BY <2>2, <1>5 DEF StatusAfter
  <2> QED
    BY <2>1, <2>2
<1>7. \A v \in Requests : v \notin users' => events'[v] = <<>>
  BY <1>1, <1>3, <1>5 DEF AnnounceInv
<1>8. StatusIsLastAnnounced'
  <2> SUFFICES ASSUME NEW v \in users
               PROVE  status'[v] = StatusAfter(v, Len(events[v]))'
    BY <1>3 DEF StatusIsLastAnnounced
  <2>1. CASE v = u
    <3>1. status'[u] = to[r] /\ e.new = to[r]
      BY <1>a, <1>b, <1>3
    <3> QED
      BY <2>1, <3>1, <1>4 DEF StatusAfter
  <2>2. CASE v # u
    BY <2>2, <1>3, <1>5 DEF AnnounceInv, StatusIsLastAnnounced, StatusAfter
  <2> QED
    BY <2>1, <2>2
<1>9. OldStatusWasReal'
  <2> SUFFICES ASSUME NEW v \in users, NEW i \in 1..Len(events'[v])
               PROVE  /\ events'[v][i].base < i
                      /\ events'[v][i].old = StatusAfter(v, events[v][i].base)'
                      /\ events'[v][i].old # events'[v][i].new
    BY <1>3 DEF OldStatusWasReal
  <2>0. v \in Requests /\ events[v] \in Seq(StatusEvent)
    OBVIOUS
  <2>1. CASE v = u /\ i = len + 1
    <3>1. events'[v][i].base = base[r] /\ events'[v][i].old = from[r] /\ events'[v][i].new = to[r]
      BY <2>1, <1>4, <1>b
    <3>2. StatusAfter(v, events[v][i].base)' = StatusAfter(u, base[r])'
      BY <2>1, <3>1, <1>3 DEF StatusAfter
    <3>3. StatusAfter(u, base[r])' = StatusAfter(u, base[r])
      BY <1>1, <1>3, <1>4 DEF StatusAfter
    <3> QED
      BY <2>1, <3>1, <3>2, <3>3, <1>1
  <2>2. CASE ~(v = u /\ i = len + 1)
    <3>1. i \in 1..Len(events[v]) /\ events'[v][i] = events[v][i]
      <4>1. CASE v = u
        BY <4>1, <2>2, <1>2, <1>4
      <4>2. CASE v # u
        BY <4>2, <1>5
      <4> QED
        BY <4>1, <4>2
    <3>2. /\ events[v][i].base < i
          /\ events[v][i].old = StatusAfter(v, events[v][i].base)
          /\ events[v][i].old # events[v][i].new
      BY <3>1 DEF AnnounceInv, OldStatusWasReal
    <3>3. events[v][i] \in StatusEvent
      BY <2>0, <3>1
    <3>4. events[v][i].base \in 0..Len(events[v])
      BY <2>0, <3>1, <3>2, <3>3 DEF StatusEvent
    <3>5. StatusAfter(v, events[v][i].base)' = StatusAfter(v, events[v][i].base)
      <4>1. PICK n \in 0..Len(events[v]) : n = events[v][i].base
        BY <3>4
      <4>2. StatusAfter(v, events[v][i].base)' = StatusAfter(v, n)'
        BY <4>1, <3>1 DEF StatusAfter
      <4> QED
        BY <4>1, <4>2, <1>6, <2>0
    <3> QED
      BY <3>1, <3>2, <3>5
  <2> QED
    BY <2>1, <2>2
<1>10. ASSUME NEW q \in Requests, pc'[q] = "save"
       PROVE  /\ target'[q] \in users'
              /\ base'[q] <= Len(events'[target'[q]])
              /\ from'[q] = StatusAfter(target[q], base[q])'
              /\ from'[q] # to'[q]
  <2>1. q # r /\ pc[q] = "save"
    BY <1>3, <1>10
  <2>2. /\ target[q] \in users /\ target[q] \in Requests /\ base[q] \in Nat
        /\ base[q] <= Len(events[target[q]])
        /\ from[q] = StatusAfter(target[q], base[q])
        /\ from[q] # to[q]
    BY <2>1 DEF AnnounceInv
  <2>3. Len(events[target[q]]) \in Nat /\ Len(events[target[q]]) <= Len(events'[target[q]])
    <3>1. target[q] \in Requests /\ Len(events[target[q]]) \in Nat
      BY <2>2
    <3>2. CASE target[q] = u
      BY <3>1, <3>2, <1>2, <1>4
    <3>3. CASE target[q] # u
      BY <3>1, <3>3, <1>5
    <3> QED
      BY <3>1, <3>2, <3>3
  <2>4. StatusAfter(target[q], base[q])' = StatusAfter(target[q], base[q])
    BY <2>2, <1>3, <1>4, <1>5 DEF StatusAfter
  <2> QED
    BY <2>2, <2>3, <2>4, <1>3
<1> QED
  BY <1>7, <1>8, <1>9, <1>10 DEF AnnounceInv

(* AnnounceInv is inductive, together with SeenInv. *)
LEMMA AnnounceStep == TypeOK /\ SeenInv /\ AnnounceInv /\ [Next]_vars => AnnounceInv'
  <1> SUFFICES ASSUME TypeOK, SeenInv, AnnounceInv, [Next]_vars
               PROVE  AnnounceInv'
    OBVIOUS
  <1> USE DEF TypeOK
  <1>1. ASSUME NEW r \in Requests, NEW m \in Emails, CreateConflicts(r, m)
        PROVE  AnnounceInv'
    BY <1>1, AnnounceUntouched DEF CreateConflicts
  <1>2. ASSUME NEW r \in Requests, NEW m \in Emails, CreateChecks(r, m)
        PROVE  AnnounceInv'
    BY <1>2, AnnounceUntouched DEF CreateChecks
  <1>3. ASSUME NEW r \in Requests, CreateInserts(r)
        PROVE  AnnounceInv'
    <2>1. r \notin users /\ events[r] = <<>>
      BY <1>3 DEF CreateInserts, SeenInv, AnnounceInv
    <2>2. /\ users' = users \cup {r} /\ status' = [status EXCEPT ![r] = "Active"]
          /\ UNCHANGED <<events, target, from, to, base>>
          /\ \A q \in Requests : pc'[q] = "save" => pc[q] = "save"
      BY <1>3 DEF CreateInserts
    <2>3. \A v \in Requests, n \in Nat : StatusAfter(v, n)' = StatusAfter(v, n)
      BY <2>2 DEF StatusAfter
    <2>4. StatusIsLastAnnounced'
      BY <2>1, <2>2 DEF AnnounceInv, StatusIsLastAnnounced, StatusAfter
    <2>5. OldStatusWasReal'
      BY <2>1, <2>2 DEF AnnounceInv, OldStatusWasReal, StatusAfter
    <2> QED
      BY <2>2, <2>4, <2>5 DEF AnnounceInv, StatusAfter
  <1>4. ASSUME NEW r \in Requests, NEW u \in users, NEW s \in Statuses, UpdateReads(r, u, s)
        PROVE  AnnounceInv'
    <2>1. /\ UNCHANGED <<users, status, events>>
          /\ target' = [target EXCEPT ![r] = u] /\ from' = [from EXCEPT ![r] = status[u]]
          /\ to' = [to EXCEPT ![r] = s] /\ base' = [base EXCEPT ![r] = Len(events[u])]
          /\ pc'[r] = "save" => status[u] # s
          /\ \A q \in Requests : q # r => pc'[q] = pc[q]
      BY <1>4 DEF UpdateReads
    <2>2. status[u] = StatusAfter(u, Len(events[u])) /\ u \in Requests
      BY DEF AnnounceInv, StatusIsLastAnnounced
    <2>3. ASSUME NEW q \in Requests, pc'[q] = "save"
          PROVE  /\ target'[q] \in users'
                 /\ base'[q] <= Len(events'[target'[q]])
                 /\ from'[q] = StatusAfter(target[q], base[q])'
                 /\ from'[q] # to'[q]
      <3>1. CASE q = r
        BY <3>1, <2>1, <2>2, <2>3 DEF StatusAfter
      <3>2. CASE q # r
        BY <3>2, <2>1, <2>3 DEF AnnounceInv, StatusAfter
      <3> QED
        BY <3>1, <3>2
    <2> QED
      BY <2>1, <2>3 DEF AnnounceInv, StatusIsLastAnnounced, OldStatusWasReal, StatusAfter
  <1>5. ASSUME NEW r \in Requests, UpdateSaves(r)
        PROVE  AnnounceInv'
    BY <1>5, SaveAnnounces
  <1>6. ASSUME NEW r \in Requests, RequestCancelled(r)
        PROVE  AnnounceInv'
    BY <1>6, AnnounceUntouched DEF RequestCancelled
  <1>7. CASE UNCHANGED vars
    BY <1>7, AnnounceUntouched DEF vars, requests
  <1> QED
    BY <1>1, <1>2, <1>3, <1>4, <1>5, <1>6, <1>7 DEF Next

(* AnnounceInv holds in every behaviour. *)
LEMMA AnnounceInvariant == Spec => []AnnounceInv
<1>1. Init => AnnounceInv
  BY DEF Init, AnnounceInv, StatusIsLastAnnounced, OldStatusWasReal
<1> QED
  BY <1>1, AnnounceStep, SeenInvariant, TypeCorrect, PTL DEF Spec

(* A user's status is the one its last committed event announces. *)
THEOREM LastEventIsTrue == Spec => []StatusIsLastAnnounced
<1>1. AnnounceInv => StatusIsLastAnnounced
  BY DEF AnnounceInv
<1> QED
  BY <1>1, AnnounceInvariant, PTL

(* Every event's OldStatus is a status its user had, and no event is a no-op. *)
THEOREM OldStatusIsTrue == Spec => []OldStatusWasReal
<1>1. AnnounceInv => OldStatusWasReal
  BY DEF AnnounceInv
<1> QED
  BY <1>1, AnnounceInvariant, PTL

------------------------------------------------------------------------------
(* A user without a row has the status a new row gets: rows appear without a step of  *)
(* the contract.                                                                   *)
NewUsersActive == \A r \in Requests : r \notin users => status[r] = "Active"

(* NewUsersActive is inductive: an update saves the status of a user that has a row. *)
LEMMA NewUsersStep == TypeOK /\ AnnounceInv /\ NewUsersActive /\ [Next]_vars => NewUsersActive'
<1> SUFFICES ASSUME TypeOK, AnnounceInv, NewUsersActive, [Next]_vars, NEW q \in Requests, q \notin users'
             PROVE  status'[q] = "Active"
  BY DEF NewUsersActive
<1> USE DEF NewUsersActive, TypeOK
<1>1. ASSUME NEW r \in Requests, CreateInserts(r) PROVE status'[q] = "Active"
  BY <1>1 DEF CreateInserts
<1>2. ASSUME NEW r \in Requests, UpdateSaves(r) PROVE status'[q] = "Active"
  BY <1>2 DEF UpdateSaves, AnnounceInv
<1>3. CASE UNCHANGED <<users, status>>
  BY <1>3
<1> QED
  BY <1>1, <1>2, <1>3
     DEF Next, CreateConflicts, CreateChecks, UpdateReads, RequestCancelled, vars, requests

(* The statuses of the contract are the ones a user's events announced. *)
LEMMA WasOnceEither ==
    ASSUME TypeOK, NEW u \in Requests, NEW n \in 0..Len(events[u])
    PROVE  Contract!WasOnce(u, StatusAfter(u, n))
<1>1. CASE n = 0
  BY <1>1 DEF Contract!WasOnce, StatusAfter
<1>2. CASE n # 0
  <2> DEFINE news == [i \in 1..Len(events[u]) |-> events[u][i].new]
  <2>1. n \in 1..Len(news) /\ news[n] = StatusAfter(u, n)
    BY <1>2 DEF StatusAfter, TypeOK
  <2> QED
    BY <2>1 DEF Contract!WasOnce
<1> QED
  BY <1>1, <1>2

(* The save of an update is the contract's Change; every other step leaves the statuses *)
(* and the announcements alone.                                                      *)
LEMMA ContractStep ==
    ASSUME TypeOK, SeenInv, AnnounceInv, NewUsersActive, [Next]_vars
    PROVE  [Contract!Next]_<<status, [u \in Requests |-> [i \in 1..Len(events[u]) |-> events[u][i].new]]>>
<1> DEFINE news(es) == [i \in 1..Len(es) |-> es[i].new]
<1> DEFINE announced == [u \in Requests |-> news(events[u])]
<1>1. CASE UNCHANGED <<status, events>>
  BY <1>1
<1>2. ASSUME NEW r \in Requests, CreateInserts(r) PROVE UNCHANGED <<status, events>>
  BY <1>2 DEF CreateInserts, NewUsersActive, SeenInv, TypeOK
<1>3. ASSUME NEW r \in Requests, UpdateSaves(r) PROVE Contract!Next
  <2>1. PICK u \in Requests : u = target[r]
    BY DEF TypeOK
  <2>2. PICK s \in Statuses : s = to[r]
    BY DEF TypeOK
  <2>3. PICK e \in StatusEvent : e = [old |-> from[r], new |-> s, base |-> base[r]]
    BY <2>2 DEF TypeOK, StatusEvent
  <2>4. /\ status' = [status EXCEPT ![u] = s]
        /\ events' = [events EXCEPT ![u] = Append(events[u], e)]
    BY <1>3, <2>1, <2>2, <2>3 DEF UpdateSaves
  <2>5. \E old \in Contract!Statuses \ {s} : Contract!WasOnce(u, old)
    <3>1. /\ base[r] \in 0..Len(events[u]) /\ from[r] = StatusAfter(u, base[r])
          /\ from[r] # s /\ from[r] \in Statuses
      BY <1>3, <2>1, <2>2 DEF UpdateSaves, AnnounceInv, TypeOK
    <3>2. Contract!WasOnce(u, from[r])
      BY <3>1, WasOnceEither
    <3> QED
      BY <3>1, <3>2 DEF Statuses, Contract!Statuses
  <2>6. events[u] \in Seq(StatusEvent) /\ events \in [Requests -> Seq(StatusEvent)]
    BY DEF TypeOK
  <2>7. news(Append(events[u], e)) = Append(news(events[u]), s)
    <3>1. /\ Len(Append(events[u], e)) = Len(events[u]) + 1 /\ Len(events[u]) \in Nat
          /\ Append(events[u], e)[Len(events[u]) + 1] = e
          /\ \A i \in 1..Len(events[u]) : Append(events[u], e)[i] = events[u][i]
      BY <2>6
    <3>2. e.new = s
      BY <2>3
    <3>3. news(events[u]) \in Seq(Statuses) /\ Len(news(events[u])) = Len(events[u])
      <4>1. \A i \in 1..Len(events[u]) : events[u][i].new \in Statuses
        <5>1. \A i \in 1..Len(events[u]) : events[u][i] \in StatusEvent
          BY <2>6
        <5> QED
          BY <5>1 DEF StatusEvent
      <4> QED
        BY <2>6, <4>1
    <3> QED
      BY <2>2, <3>1, <3>2, <3>3
  <2>8. announced' = [announced EXCEPT ![u] = Append(announced[u], s)]
    BY <2>4, <2>6, <2>7
  <2>9. Contract!Change(u, s)
    BY <2>4, <2>5, <2>8 DEF Contract!Change
  <2> QED
    BY <2>9 DEF Contract!Next, Contract!Statuses, Statuses
<1> QED
  BY <1>1, <1>2, <1>3
     DEF Next, CreateConflicts, CreateChecks, UpdateReads, RequestCancelled, vars, requests

(* Whatever requests interleave, the users table and its outbox are UserContract: the   *)
(* environment that OrderService assumes.                                            *)
THEOREM UsersImplementContract == Spec => ImplementsContract
<1>1. Init => Contract!Init /\ NewUsersActive
  BY DEF Init, Contract!Init, NewUsersActive
<1>2. TypeOK /\ SeenInv /\ AnnounceInv /\ NewUsersActive /\ [Next]_vars =>
        [Contract!Next]_<<status, [u \in Requests |-> [i \in 1..Len(events[u]) |-> events[u][i].new]]>>
  BY ContractStep
<1> QED
  BY <1>1, <1>2, NewUsersStep, TypeCorrect, SeenInvariant, AnnounceInvariant, PTL
     DEF Spec, ImplementsContract, Contract!Spec
==============================================================================
