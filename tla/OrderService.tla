----------------------------- MODULE OrderService -----------------------------
(* OrderService: concurrent POST /api/orders and PATCH /api/orders/{id}/status      *)
(* (OrdersController), and the UserStatusChangedHandler that the Kafka consumer     *)
(* runs for each users.status-changed event.  Requests and handler each have their  *)
(* own DbContext on the shared in-memory database: a read, then in a later step one *)
(* atomic save of what their own copy holds, together with the outbox rows.         *)
(*                                                                                *)
(* UserService is the environment: its users change status as UserContract says, its  *)
(* GET answers with the current one, and its outbox delivers as OutboxPromise allows:   *)
(* an event that was recorded comes late, in any order, again, or never.               *)
EXTENDS Naturals, Sequences, FiniteSets

CONSTANTS
    Orders,           \* orders: one create request each
    Users,
    NoUser,
    Patches,          \* PATCH requests
    MaxChanges,       \* bound: user status changes
    MaxLog,           \* bound: messages on the topic
    MaxDisruptions    \* bound: rebalances, process restarts and repeated deliveries

OrderStatuses == {"Pending", "Completed", "Paid", "Cancelled"}
UserStatuses  == {"Active", "Inactive"}
StatusEvents  == [user : Users, new : UserStatuses]

ASSUME OrderAssumption ==
    /\ NoUser \notin Users
    /\ MaxChanges \in Nat
    /\ MaxLog \in Nat
    /\ MaxDisruptions \in Nat

VARIABLES
    userStatus,    \* external: user -> status in UserService's table
    changes,       \* external: user -> the status events recorded for it, in order
    copies,        \* external: user and number of an event -> copies on the topic
    topic, committed, position, cpc, disruptions, handled, failed,   \* StatusConsumer
    owner,         \* order -> UserId
    status,        \* order -> Status column, "Absent" when there is no row
    cancelledAt,   \* order -> is CancelledAtUtc set?
    events,        \* order -> its outbox rows, in commit order
    cpcreate,      \* order -> create request: "none", "valid" or "done"
    batch,         \* the orders in the handler's DbContext
    fresh,         \* PATCH requests that have not arrived yet
    patches,       \* running PATCH requests: [id, order, from, to, step], where
                   \* from is the Status that was read, to the one asked for
    earlier        \* history: order -> the offsets whose handling had begun when it
                   \* became Pending

environment == <<userStatus, changes, copies>>
consumer    == <<topic, committed, position, cpc, disruptions, handled, failed>>
table       == <<owner, status, cancelledAt, events, earlier>>
patch       == <<fresh, patches>>
vars        == <<environment, consumer, table, cpcreate, batch, patch>>

Consumer == INSTANCE StatusConsumer WITH
    Values <- StatusEvents, EmptyValues <- {}, MalformedValues <- {},
    MaxLength <- MaxLog

User == INSTANCE UserContract WITH status <- userStatus, announced <- changes

EventIds == Users \X (1..MaxChanges)
Recorded == {e \in EventIds : e[2] <= Len(changes[e[1]])}

Init ==
    /\ User!Init
    /\ copies = [e \in EventIds |-> 0]
    /\ Consumer!Init
    /\ owner = [o \in Orders |-> NoUser]
    /\ status = [o \in Orders |-> "Absent"]
    /\ cancelledAt = [o \in Orders |-> FALSE]
    /\ events = [o \in Orders |-> <<>>]
    /\ cpcreate = [o \in Orders |-> "none"]
    /\ batch = {}
    /\ fresh = Patches
    /\ patches = {}
    /\ earlier = [o \in Orders |-> {}]

------------------------------------------------------------------------------
(* The environment: UserService. *)

UserChanges(u, s) ==
    /\ Cardinality(Recorded) < MaxChanges
    /\ User!Change(u, s)
    /\ UNCHANGED <<copies, consumer, table, cpcreate, batch, patch>>

Repeated == Len(topic) - Cardinality({e \in EventIds : copies[e] > 0})
Disruption == disruptions + Repeated < MaxDisruptions

(* Deliver and DeliverLate of OutboxPromise.  An event that is retired or out of retries  *)
(* is one that gets no further copy.                                                  *)
EventPublished(u, i) ==
    /\ <<u, i>> \in Recorded
    /\ copies[<<u, i>>] = 0 \/ Disruption
    /\ copies' = [copies EXCEPT ![<<u, i>>] = @ + 1]
    /\ Consumer!Produce([user |-> u, new |-> changes[u][i]])
    /\ UNCHANGED <<userStatus, changes, table, cpcreate, batch, patch>>

------------------------------------------------------------------------------
(* ValidateUserExistsAsync: true for an active user.  An inactive user, a 404, another    *)
(* error status, an exception and a cancellation end the request.  Two branches assume   *)
(* an active user instead, and are not taken: an answer 200 without a status it can read  *)
(* (GetById of UserService always sends one), and no client factory (Program.cs           *)
(* registers one).                                                                   *)
ValidUser(u) == userStatus[u] = "Active"

CreateValidates(o, u) ==
    /\ cpcreate[o] = "none"
    /\ ValidUser(u)
    /\ owner' = [owner EXCEPT ![o] = u]
    /\ cpcreate' = [cpcreate EXCEPT ![o] = "valid"]
    /\ UNCHANGED <<environment, consumer, status, cancelledAt, events, earlier, batch, patch>>

(* The offsets whose handling is over or under way. *)
Begun == IF batch = {} THEN handled ELSE handled \cup {Consumer!Current}

CreateSaves(o) ==
    /\ cpcreate[o] = "valid"
    /\ status' = [status EXCEPT ![o] = "Pending"]
    /\ events' = [events EXCEPT ![o] = Append(@, [type |-> "created", status |-> "Pending"])]
    /\ earlier' = [earlier EXCEPT ![o] = Begun]
    /\ cpcreate' = [cpcreate EXCEPT ![o] = "done"]
    /\ UNCHANGED <<environment, consumer, owner, cancelledAt, batch, patch>>

(* Nothing was saved: o stands for the next request.  One that is not valid leaves no    *)
(* trace at all.                                                                     *)
CreateFails(o) ==
    /\ cpcreate[o] = "valid"
    /\ owner' = [owner EXCEPT ![o] = NoUser]
    /\ cpcreate' = [cpcreate EXCEPT ![o] = "none"]
    /\ UNCHANGED <<environment, consumer, status, cancelledAt, events, earlier, batch, patch>>

------------------------------------------------------------------------------
(* UpdateStatus: read the order, then validate its user, then save. *)

PatchReads(p, o, s) ==
    /\ p \in fresh
    /\ status[o] # "Absent"
    /\ fresh' = fresh \ {p}
    /\ patches' = patches \cup {[id |-> p, order |-> o, from |-> status[o], to |-> s, step |-> "read"]}
    /\ UNCHANGED <<environment, consumer, table, cpcreate, batch>>

(* The no-op test compares with the status read before the HTTP call. *)
PatchValidates(r) ==
    /\ r.step = "read"
    /\ ValidUser(owner[r.order])
    /\ patches' = (patches \ {r}) \cup
                    (IF r.from = r.to THEN {} ELSE {[r EXCEPT !.step = "save"]})
    /\ UNCHANGED <<environment, consumer, table, cpcreate, batch, fresh>>

(* Mutant: CancelledAtUtc is not reset. *)
PatchSavesKeepsCancelledAt(r) ==
    /\ r.step = "save"
    /\ status' = [status EXCEPT ![r.order] = r.to]
    /\ cancelledAt' = [cancelledAt EXCEPT ![r.order] = @ \/ r.to = "Cancelled"]
    /\ events' = [events EXCEPT ![r.order] = Append(@, [type |-> "changed", status |-> r.to])]
    /\ earlier' = [earlier EXCEPT ![r.order] =
                     IF r.to # "Pending" THEN {} ELSE IF status[r.order] = "Pending" THEN @ ELSE Begun]
    /\ patches' = patches \ {r}
    /\ UNCHANGED <<environment, consumer, owner, cpcreate, batch, fresh>>

(* Update(order) marks every column modified: the save overwrites the row. *)
PatchSaves(r) ==
    /\ r.step = "save"
    /\ status' = [status EXCEPT ![r.order] = r.to]
    /\ cancelledAt' = [cancelledAt EXCEPT ![r.order] = (r.to = "Cancelled")]
    /\ events' = [events EXCEPT ![r.order] = Append(@, [type |-> "changed", status |-> r.to])]
    /\ earlier' = [earlier EXCEPT ![r.order] =
                     IF r.to # "Pending" THEN {} ELSE IF status[r.order] = "Pending" THEN @ ELSE Begun]
    /\ patches' = patches \ {r}
    /\ UNCHANGED <<environment, consumer, owner, cpcreate, batch, fresh>>

(* The user is not valid, or the request or its save is cancelled or fails. *)
PatchFails(r) ==
    /\ patches' = patches \ {r}
    /\ UNCHANGED <<environment, consumer, table, cpcreate, batch, fresh>>

------------------------------------------------------------------------------
(* HandleAsync, run by the consumer for the event it fetched.  batch is what the    *)
(* query returned; the test "still Pending" of the loop looks at those copies.      *)

Event == topic[Consumer!Current + 1]

(* Mutants: every status; every user; FirstOrDefault for ToList. *)
OrdersOf(u) == {o \in Orders : owner[o] = u /\ status[o] # "Absent"}
PendingOrdersOfAnyone(u) == {o \in Orders : status[o] = "Pending"}
FirstPendingOrderOf(u) ==
    LET S == {o \in Orders : owner[o] = u /\ status[o] = "Pending"} IN
        IF S = {} THEN {} ELSE {CHOOSE o \in S : TRUE}

PendingOrdersOf(u) == {o \in Orders : owner[o] = u /\ status[o] = "Pending"}

(* Nothing to do: another status, or no pending order.  Cancellation by shutdown    *)
(* is part of Restart.                                                             *)
HandlerIgnores ==
    /\ batch = {}
    /\ cpc = "handle"
    /\ Event.new = "Inactive" => PendingOrdersOf(Event.user) = {}
    /\ Consumer!HandlerReturns
    /\ UNCHANGED <<environment, table, cpcreate, batch, patch>>

HandlerReads ==
    /\ batch = {}
    /\ cpc = "handle"
    /\ Event.new = "Inactive"
    /\ PendingOrdersOf(Event.user) # {}
    /\ batch' = PendingOrdersOf(Event.user)
    /\ UNCHANGED <<environment, consumer, table, cpcreate, patch>>

(* One save: Status and CancelledAtUtc of every order read, one outbox row each. *)
HandlerSaves ==
    /\ batch # {}
    /\ Consumer!HandlerReturns
    /\ status' = [o \in Orders |-> IF o \in batch THEN "Cancelled" ELSE status[o]]
    /\ cancelledAt' = [o \in Orders |-> o \in batch \/ cancelledAt[o]]
    /\ events' = [o \in Orders |-> IF o \in batch
                    THEN Append(events[o], [type |-> "cancelled", status |-> "Cancelled"])
                    ELSE events[o]]
    /\ earlier' = [o \in Orders |-> IF o \in batch THEN {} ELSE earlier[o]]
    /\ batch' = {}
    /\ UNCHANGED <<environment, owner, cpcreate, patch>>

(* Mutant: the DbContext outlives the message. *)
HandlerFailsKeepsContext ==
    /\ batch # {}
    /\ Consumer!HandlerThrows
    /\ UNCHANGED <<batch, environment, table, cpcreate, patch>>

HandlerFails ==
    /\ batch # {}
    /\ Consumer!HandlerThrows
    /\ batch' = {}
    /\ UNCHANGED <<environment, table, cpcreate, patch>>

(* The consumer's own steps leave the orders alone. *)
ConsumerStep ==
    /\ \/ Consumer!Connect
       \/ Consumer!Consume
       \/ Consumer!CommitOffset
       \/ Consumer!CommitThrows
    /\ UNCHANGED <<environment, table, cpcreate, batch, patch>>

Rebalance ==
    /\ Disruption
    /\ Consumer!Rebalance
    /\ UNCHANGED <<environment, table, cpcreate, batch, patch>>

(* The process stops: its in-memory database, with orders and outbox, and its       *)
(* requests are gone; the topic and the committed offset are the broker's.          *)
Restart ==
    /\ Disruption
    /\ Consumer!Restart
    /\ owner' = [o \in Orders |-> NoUser]
    /\ status' = [o \in Orders |-> "Absent"]
    /\ cancelledAt' = [o \in Orders |-> FALSE]
    /\ events' = [o \in Orders |-> <<>>]
    /\ earlier' = [o \in Orders |-> {}]
    /\ cpcreate' = [o \in Orders |-> IF cpcreate[o] = "done" THEN "done" ELSE "none"]
    /\ patches' = {}
    /\ batch' = {}
    /\ UNCHANGED <<environment, fresh>>

------------------------------------------------------------------------------
Environment ==
    \/ \E u \in Users, s \in UserStatuses : UserChanges(u, s)
    \/ \E u \in Users, i \in 1..MaxChanges : EventPublished(u, i)

Creates == \E o \in Orders :
    (\E u \in Users : CreateValidates(o, u)) \/ CreateSaves(o) \/ CreateFails(o)

Updates ==
    \/ \E p \in Patches, o \in Orders, s \in OrderStatuses : PatchReads(p, o, s)
    \/ \E r \in patches : PatchValidates(r) \/ PatchSaves(r) \/ PatchFails(r)

ConsumerLoop ==
    HandlerIgnores \/ HandlerReads \/ HandlerSaves \/ HandlerFails \/ ConsumerStep

Next == Environment \/ Creates \/ Updates \/ ConsumerLoop \/ Rebalance \/ Restart

Spec == Init /\ [][Next]_vars

(* The hosted service keeps running. *)
FairSpec == Spec /\ WF_vars(ConsumerLoop)
------------------------------------------------------------------------------
(* Properties *)

OrderEvent == [type : {"created", "changed", "cancelled"}, status : OrderStatuses]

PatchRequests ==
    [id : Patches, order : Orders, from : OrderStatuses, to : OrderStatuses, step : {"read", "save"}]

Present == {o \in Orders : status[o] # "Absent"}

(* Every variable has its type; an order with a row has an owner; only a running    *)
(* handler has orders in its DbContext.                                            *)
TypeOK ==
    /\ userStatus \in [Users -> UserStatuses]
    /\ changes \in [Users -> Seq(UserStatuses)]
    /\ copies \in [EventIds -> 0..MaxLog]
    /\ Consumer!TypeOK
    /\ owner \in [Orders -> Users \cup {NoUser}]
    /\ status \in [Orders -> OrderStatuses \cup {"Absent"}]
    /\ cancelledAt \in [Orders -> BOOLEAN]
    /\ events \in [Orders -> Seq(OrderEvent)]
    /\ cpcreate \in [Orders -> {"none", "valid", "done"}]
    /\ batch \in SUBSET Present
    /\ fresh \in SUBSET Patches
    /\ patches \in SUBSET PatchRequests
    /\ \A o \in Orders : owner[o] = NoUser <=> status[o] = "Absent" /\ cpcreate[o] # "valid"
    /\ batch # {} => cpc = "handle"
    /\ earlier \in [Orders -> SUBSET Nat]

(* Row and outbox agree although requests and handler save from stale copies: the    *)
(* last event of an order announces its Status, and CancelledAtUtc is set exactly    *)
(* for the orders whose Status is Cancelled.                                       *)
RowMatchesEvents ==
    \A o \in Present :
        /\ events[o] # <<>>
        /\ status[o] = events[o][Len(events[o])].status
        /\ cancelledAt[o] <=> status[o] = "Cancelled"

IndicesOf(o, e) == {i \in 1..Len(events[o]) : events[o][i] = e}

Cancellations(o) == Cardinality(IndicesOf(o, [type |-> "cancelled", status |-> "Cancelled"]))
Pendings(o)      == Cardinality({i \in 1..Len(events[o]) : events[o][i].status = "Pending"})

(* Replay is harmless: however often rebalances redeliver deactivations, an order    *)
(* gets one orders.cancelled for each time it was made Pending, by its creation or    *)
(* by a PATCH.                                                                    *)
HandlerCancelsOnce ==
    \A o \in Orders : Cancellations(o) <= Pendings(o)

Deactivates(n, o) == topic[n + 1] = [user |-> owner[o], new |-> "Inactive"]

(* The handler does not look at OccurredAt, so a deactivation may be applied to orders    *)
(* that came after it was handled first.  That takes a rebalance or a restart, which     *)
(* catches the group before it commits the message; what is committed is never applied   *)
(* again.                                                                          *)
AppliedAgainOnlyAfterDisruption ==
    [][\A o \in batch' \ batch : Consumer!Current \in earlier[o] =>
          disruptions > 0 /\ committed <= Consumer!Current]_vars

(* "Cancel all Pending orders for that user": once the message about a deactivation is *)
(* handled, an order of its user is Pending only if it became so after the handling    *)
(* had begun.                                                                      *)
HandledMeansCancelled ==
    \A o \in Orders : \A n \in handled :
        status[o] = "Pending" /\ Deactivates(n, o) => n \in earlier[o]

(* The same for the group's offset: whatever restarts, rebalances and failed commits   *)
(* do, a deactivation the group has left behind has cancelled what it had to, unless    *)
(* the handler threw for it.                                                        *)
CommittedMeansCancelled ==
    \A o \in Orders : \A n \in 0..(committed - 1) :
        status[o] = "Pending" /\ Deactivates(n, o) => n \in failed \cup earlier[o]

(* o is pending, and the deactivation of its owner at offset n is still unread. *)
Doomed(o, n) ==
    status[o] = "Pending" /\ n \in position..(Len(topic) - 1) /\ Deactivates(n, o)

(* A pending order does not survive the handling of its owner's deactivation: it is  *)
(* cancelled, or a PATCH took it out of Pending first, or the process lost it, or   *)
(* the handler failed for that message.                                            *)
PendingOrdersAreCancelled ==
    \A o \in Orders, n \in 0..(MaxLog - 1) :
        Doomed(o, n) ~> status[o] # "Pending" \/ n \in failed

(* "Idempotency: only cancel if still Pending": the save that cancels an order finds *)
(* it Pending.                                                                    *)
HandlerCancelsOnlyPending ==
    [][\A o \in Orders :
          events'[o] = Append(events[o], [type |-> "cancelled", status |-> "Cancelled"])
            => status[o] = "Pending"]_vars

(* The orders as their users and the other services see them. *)
OwnerOf(o)  == IF status[o] = "Absent" THEN NoUser ELSE owner[o]
Deactivated == {u \in Users : \E n \in 1..Len(topic) : topic[n] = [user |-> u, new |-> "Inactive"]}

Contract == INSTANCE OrderContract WITH
    owner <- [o \in Orders |-> OwnerOf(o)],
    spare <- [o \in Orders |-> Pendings(o) - Cancellations(o)],
    deactivated <- Deactivated

(* Although requests and handler save stale copies, and messages come again, the orders *)
(* and their outbox rows change only as OrderContract says.                           *)
ImplementsContract == Contract!Spec

(* "Cancel pending orders when user becomes inactive": once every status event is    *)
(* published, handled and committed, no order of an inactive user is Pending.       *)
NoPendingForInactive ==
    /\ \A e \in Recorded : copies[e] > 0
    /\ committed = Len(topic) /\ cpc = "poll" /\ failed = {}
    =>
        \A o \in Present : status[o] = "Pending" => userStatus[owner[o]] = "Active"

==============================================================================
