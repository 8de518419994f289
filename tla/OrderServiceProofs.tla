-------------------------- MODULE OrderServiceProofs ---------------------------
(* Theorems about OrderService, for any orders, users, requests and bounds. *)
EXTENDS OrderService, SequenceTheorems, FiniteSetTheorems, TLAPS

------------------------------------------------------------------------------
(* Types *)

(* TypeOK and what keeps it: a message in hand was read; a copy is a message; an order    *)
(* without a row has no outbox rows, one with a row had its create request; PATCH requests *)
(* run on rows.                                                                        *)
TypeInv ==
    /\ TypeOK
    /\ cpc \in {"handle", "commit"} => position > 0
    /\ \A e \in EventIds : copies[e] <= Len(topic)
    /\ \A o \in Orders : status[o] = "Absent" => events[o] = <<>> /\ cancelledAt[o] = FALSE
    /\ \A o \in Orders : status[o] # "Absent" => cpcreate[o] = "done"
    /\ \A r \in patches : r.order \in Present

(* The empty database, before any request, has its types. *)
LEMMA TypeInit == Init => TypeInv
BY OrderAssumption
   DEF Init, User!Init, Consumer!Init, TypeInv, TypeOK, Consumer!TypeOK, Present, StatusEvents, UserStatuses,
       OrderStatuses

(* The steps of the consumer leave the order service's own types alone, and back.        *)
LEMMA ConsumerTyped ==
    ASSUME TypeInv, UNCHANGED <<environment, table, cpcreate, batch, patch>>,
           Consumer!TypeOK', cpc' \in {"handle", "commit"} => position' > 0,
           topic' = topic, batch # {} => cpc' = "handle"
    PROVE  TypeInv'
BY DEF TypeInv, TypeOK, Present, environment, table, patch

(* A message appended to the topic is an event that was recorded. *)
LEMMA PublishedEvent ==
    ASSUME TypeInv, NEW u \in Users, NEW i \in 1..MaxChanges, EventPublished(u, i)
    PROVE  /\ [user |-> u, new |-> changes[u][i]] \in StatusEvents
           /\ topic' = Append(topic, [user |-> u, new |-> changes[u][i]])
           /\ Len(topic) < MaxLog
           /\ UNCHANGED <<committed, position, cpc, disruptions, handled, failed>>
<1>1. <<u, i>> \in Recorded /\ Consumer!Produce([user |-> u, new |-> changes[u][i]])
  BY DEF EventPublished
<1>2. i \in 1..Len(changes[u]) /\ changes[u] \in Seq(UserStatuses)
  BY <1>1, LenProperties DEF Recorded, EventIds, TypeInv, TypeOK
<1>3. changes[u][i] \in UserStatuses
  BY <1>2, ElementOfSeq
<1> QED
  BY <1>1, <1>3 DEF StatusEvents, Consumer!Produce, Consumer!history

(* The offsets whose handling has begun are numbers: a message in hand has an offset. *)
LEMMA BegunType == TypeInv => Begun \in SUBSET Nat
<1> SUFFICES ASSUME TypeInv PROVE Begun \in SUBSET Nat
  OBVIOUS
<1>1. batch # {} => position - 1 \in Nat
  BY DEF TypeInv, TypeOK, Consumer!TypeOK
<1>2. handled \in SUBSET Nat
  BY DEF TypeInv, TypeOK, Consumer!TypeOK
<1> QED
  BY <1>1, <1>2 DEF Begun, Consumer!Current

(* Each step of environment, requests, handler and consumer keeps TypeInv. *)
LEMMA TypeStep == TypeInv /\ [Next]_vars => TypeInv'
<1> SUFFICES ASSUME TypeInv, [Next]_vars PROVE TypeInv'
  OBVIOUS
<1> USE OrderAssumption
<1>1. CASE UNCHANGED vars
  BY <1>1 DEF vars, environment, consumer, table, patch, TypeInv, TypeOK, Consumer!TypeOK, Present
<1>2. ASSUME NEW u \in Users, NEW s \in UserStatuses, UserChanges(u, s) PROVE TypeInv'
  <2>1. /\ userStatus' = [userStatus EXCEPT ![u] = s]
        /\ changes' = [changes EXCEPT ![u] = Append(changes[u], s)]
        /\ UNCHANGED <<copies, consumer, table, cpcreate, batch, patch>>
    BY <1>2 DEF UserChanges, User!Change
  <2>2. /\ userStatus' \in [Users -> UserStatuses]
        /\ changes' \in [Users -> Seq(UserStatuses)]
    BY <2>1 DEF TypeInv, TypeOK
  <2> QED
    BY <2>1, <2>2 DEF consumer, table, patch, TypeInv, TypeOK, Consumer!TypeOK, Present
<1>3. ASSUME NEW u \in Users, NEW i \in 1..MaxChanges, EventPublished(u, i) PROVE TypeInv'
  <2> DEFINE e == <<u, i>>
  <2> DEFINE v == [user |-> u, new |-> changes[u][i]]
  <2>1. /\ e \in EventIds /\ copies' = [copies EXCEPT ![e] = copies[e] + 1]
        /\ UNCHANGED <<userStatus, changes, table, cpcreate, batch, patch>>
    BY <1>3 DEF EventPublished, EventIds
  <2>2. /\ topic \in Seq(StatusEvents) /\ v \in StatusEvents /\ Len(topic) \in Nat
        /\ topic' = Append(topic, v) /\ Len(topic) < MaxLog
        /\ UNCHANGED <<committed, position, cpc, disruptions, handled, failed>>
    BY <1>3, PublishedEvent, LenProperties DEF TypeInv, TypeOK, Consumer!TypeOK
  <2> HIDE DEF e, v
  <2>3. topic' \in Seq(StatusEvents) /\ Len(topic') = Len(topic) + 1
    BY <2>1, <2>2, AppendProperties
  <2>4. Consumer!TypeOK'
    BY <2>1, <2>2, <2>3 DEF TypeInv, TypeOK, Consumer!TypeOK
  <2>5. \A k \in EventIds : copies'[k] \in 0..MaxLog /\ copies'[k] <= Len(topic')
    BY <2>1, <2>2, <2>3 DEF TypeInv, TypeOK
  <2>6. copies' \in [EventIds -> 0..MaxLog]
    BY <2>1, <2>5 DEF TypeInv, TypeOK
  <2>7. UNCHANGED <<owner, status, cancelledAt, events, earlier, cpcreate, batch, fresh, patches, position, cpc>>
    BY <2>1, <2>2 DEF table, patch
  <2>8. TypeOK'
    BY <2>1, <2>4, <2>6, <2>7 DEF TypeInv, TypeOK, Present
  <2> QED
    BY <2>5, <2>7, <2>8 DEF TypeInv, Present
<1>4. ASSUME NEW o \in Orders, NEW u \in Users, CreateValidates(o, u) PROVE TypeInv'
  BY <1>4 DEF CreateValidates, environment, consumer, patch, TypeInv, TypeOK, Consumer!TypeOK, Present
<1>5. ASSUME NEW o \in Orders, CreateSaves(o) PROVE TypeInv'
  <2>1. /\ status' = [status EXCEPT ![o] = "Pending"]
        /\ cpcreate' = [cpcreate EXCEPT ![o] = "done"]
        /\ cpcreate[o] = "valid"
        /\ UNCHANGED <<environment, consumer, owner, cancelledAt, batch, patch>>
    BY <1>5 DEF CreateSaves
  <2>2. [type |-> "created", status |-> "Pending"] \in OrderEvent
    BY DEF OrderEvent, OrderStatuses
  <2>3. events' \in [Orders -> Seq(OrderEvent)] /\ \A p \in Orders \ {o} : events'[p] = events[p]
    BY <1>5, <2>2 DEF CreateSaves, TypeInv, TypeOK
  <2>4. earlier' \in [Orders -> SUBSET Nat]
    BY <1>5, BegunType DEF CreateSaves, TypeInv, TypeOK
  <2> QED
    BY <2>1, <2>3, <2>4
       DEF environment, consumer, patch, TypeInv, TypeOK, Consumer!TypeOK, Present, OrderStatuses
<1>6. ASSUME NEW o \in Orders, CreateFails(o) PROVE TypeInv'
  BY <1>6 DEF CreateFails, environment, consumer, patch, TypeInv, TypeOK, Consumer!TypeOK, Present
<1>7. ASSUME NEW p \in Patches, NEW o \in Orders, NEW s \in OrderStatuses, PatchReads(p, o, s)
      PROVE  TypeInv'
  <2>1. patches' \in SUBSET PatchRequests /\ fresh' \in SUBSET Patches
    BY <1>7 DEF PatchReads, PatchRequests, TypeInv, TypeOK
  <2>2. \A r \in patches' : r.order \in Present
    BY <1>7 DEF PatchReads, TypeInv, Present
  <2> QED
    BY <1>7, <2>1, <2>2
       DEF PatchReads, environment, consumer, table, TypeInv, TypeOK, Consumer!TypeOK, Present
<1>8. ASSUME NEW r \in patches, PatchValidates(r) \/ PatchFails(r) PROVE TypeInv'
  <2>1. r \in PatchRequests /\ r.order \in Present
    BY DEF TypeInv, TypeOK
  <2>2. [r EXCEPT !.step = "save"] \in PatchRequests /\ [r EXCEPT !.step = "save"].order = r.order
    BY <2>1 DEF PatchRequests
  <2>3. patches' \subseteq patches \cup {[r EXCEPT !.step = "save"]}
    BY <1>8 DEF PatchValidates, PatchFails
  <2>4. patches' \in SUBSET PatchRequests /\ \A q \in patches' : q.order \in Present
    <3> DEFINE saving == [r EXCEPT !.step = "save"]
    <3>1. saving \in PatchRequests /\ saving.order \in Present
      BY <2>1, <2>2
    <3>2. patches' \subseteq patches \cup {saving}
      BY <2>3
    <3> HIDE DEF saving
    <3> QED
      BY <3>1, <3>2 DEF TypeInv, TypeOK
  <2>5. UNCHANGED <<environment, consumer, table, cpcreate, batch, fresh>>
    BY <1>8 DEF PatchValidates, PatchFails
  <2> QED
    BY <2>4, <2>5 DEF environment, consumer, table, TypeInv, TypeOK, Consumer!TypeOK, Present
<1>9. ASSUME NEW r \in patches, PatchSaves(r) PROVE TypeInv'
  <2>1. r \in PatchRequests /\ r.order \in Present /\ r.order \in Orders /\ r.to \in OrderStatuses
    BY DEF TypeInv, TypeOK, PatchRequests
  <2>2. [type |-> "changed", status |-> r.to] \in OrderEvent
    BY <2>1 DEF OrderEvent
  <2>3. events' \in [Orders -> Seq(OrderEvent)] /\ \A p \in Orders \ {r.order} : events'[p] = events[p]
    BY <1>9, <2>1, <2>2 DEF PatchSaves, TypeInv, TypeOK
  <2>4. cancelledAt' \in [Orders -> BOOLEAN] /\ \A p \in Orders \ {r.order} : cancelledAt'[p] = cancelledAt[p]
    BY <1>9, <2>1 DEF PatchSaves, TypeInv, TypeOK
  <2>5. /\ status' = [status EXCEPT ![r.order] = r.to] /\ patches' = patches \ {r}
        /\ UNCHANGED <<environment, consumer, owner, cpcreate, batch, fresh>>
    BY <1>9 DEF PatchSaves
  <2>7. earlier' \in [Orders -> SUBSET Nat]
    BY <1>9, BegunType DEF PatchSaves, TypeInv, TypeOK
  <2>6. status' \in [Orders -> OrderStatuses \cup {"Absent"}] /\ Present' = Present
    BY <2>1, <2>5 DEF TypeInv, TypeOK, Present, OrderStatuses
  <2> QED
    BY <2>1, <2>3, <2>4, <2>5, <2>6, <2>7
       DEF environment, consumer, TypeInv, TypeOK, Consumer!TypeOK, Present
<1>10. CASE HandlerIgnores \/ HandlerReads \/ HandlerFails
  <2>1. /\ topic' = topic /\ position' = position /\ committed' = committed /\ disruptions' = disruptions
        /\ UNCHANGED <<environment, table, cpcreate, patch>>
        /\ batch' \in SUBSET Present /\ (batch' # {} => cpc' = "handle")
        /\ cpc' \in {"handle", "commit", "poll"} /\ cpc = "handle"
        /\ handled' \in SUBSET (handled \cup {position - 1})
        /\ failed' \in SUBSET (failed \cup {position - 1})
    BY <1>10 DEF HandlerIgnores, HandlerReads, HandlerFails, Consumer!HandlerReturns, Consumer!HandlerThrows,
                 Consumer!Current, consumer, PendingOrdersOf, Present, TypeInv, TypeOK
  <2>2. position - 1 \in Nat
    BY <2>1 DEF TypeInv, TypeOK, Consumer!TypeOK
  <2> QED
    BY <2>1, <2>2 DEF environment, table, patch, TypeInv, TypeOK, Consumer!TypeOK, Present
<1>11. CASE HandlerSaves
  <2>1. /\ batch # {} /\ batch' = {} /\ cpc = "handle" /\ cpc' = "commit"
        /\ handled' = handled \cup {position - 1}
        /\ UNCHANGED <<topic, committed, position, disruptions, failed>>
        /\ UNCHANGED <<environment, owner, cpcreate, patch>>
        /\ status' = [o \in Orders |-> IF o \in batch THEN "Cancelled" ELSE status[o]]
    BY <1>11 DEF HandlerSaves, Consumer!HandlerReturns, Consumer!Current
  <2>2. position - 1 \in Nat
    BY <2>1 DEF TypeInv, TypeOK, Consumer!TypeOK
  <2>3. [type |-> "cancelled", status |-> "Cancelled"] \in OrderEvent
    BY DEF OrderEvent, OrderStatuses
  <2>4. events' \in [Orders -> Seq(OrderEvent)] /\ \A o \in Orders \ batch : events'[o] = events[o]
    BY <1>11, <2>3 DEF HandlerSaves, TypeInv, TypeOK
  <2>5. cancelledAt' \in [Orders -> BOOLEAN] /\ \A o \in Orders \ batch : cancelledAt'[o] = cancelledAt[o]
    BY <1>11 DEF HandlerSaves, TypeInv, TypeOK
  <2>6. status' \in [Orders -> OrderStatuses \cup {"Absent"}] /\ Present' = Present
    BY <2>1 DEF TypeInv, TypeOK, Present, OrderStatuses
  <2>7. earlier' \in [Orders -> SUBSET Nat]
    BY <1>11 DEF HandlerSaves, TypeInv, TypeOK
  <2> QED
    BY <2>1, <2>2, <2>4, <2>5, <2>6, <2>7
       DEF environment, patch, TypeInv, TypeOK, Consumer!TypeOK, Present
<1>12. CASE ConsumerStep \/ Rebalance
  <2>1. UNCHANGED <<environment, table, cpcreate, batch, patch>> /\ topic' = topic
    BY <1>12 DEF ConsumerStep, Rebalance, Consumer!Connect, Consumer!Consume, Consumer!CommitOffset,
                 Consumer!CommitThrows, Consumer!Rebalance
  <2>2. committed \in 0..Len(topic) /\ position \in 0..Len(topic) /\ disruptions \in Nat
    BY DEF TypeInv, TypeOK, Consumer!TypeOK
  <2>3. Len(topic) \in Nat
    BY LenProperties DEF TypeInv, TypeOK, Consumer!TypeOK
  <2>4. ASSUME committed' \in 0..Len(topic), position' \in 0..Len(topic), disruptions' \in Nat,
               cpc' \in {"down", "poll", "handle", "commit"},
               handled' \in SUBSET Nat, failed' = failed,
               cpc' \in {"handle", "commit"} => position' > 0, batch # {} => cpc' = "handle"
        PROVE  TypeInv'
    <3>1. Consumer!TypeOK'
      BY <2>1, <2>4 DEF TypeInv, TypeOK, Consumer!TypeOK
    <3> QED
      BY <2>1, <2>4, <3>1, ConsumerTyped
  <2>5. cpc # "handle" => batch = {}
    BY DEF TypeInv, TypeOK
  <2>6. CASE Consumer!Connect
    BY <2>2, <2>4, <2>5, <2>6 DEF Consumer!Connect, Consumer!history, TypeInv, TypeOK, Consumer!TypeOK
  <2>7. CASE Consumer!Consume
    <3>1. position' = position + 1 /\ position' \in 0..Len(topic) /\ position' > 0
      BY <2>2, <2>3, <2>7 DEF Consumer!Consume
    <3>2. handled' \in SUBSET Nat /\ cpc' \in {"handle", "commit", "poll"} /\ cpc = "poll"
      BY <2>2, <2>7 DEF Consumer!Consume, TypeInv, TypeOK, Consumer!TypeOK
    <3>3. committed' = committed /\ disruptions' = disruptions /\ failed' = failed
      BY <2>7 DEF Consumer!Consume
    <3> QED
      BY <2>2, <2>4, <2>5, <3>1, <3>2, <3>3
  <2>8. CASE Consumer!CommitOffset
    <3>1. committed' = position
      BY <2>2, <2>8 DEF Consumer!CommitOffset, Consumer!Current
    <3> QED
      BY <2>2, <2>4, <2>5, <2>8, <3>1
         DEF Consumer!CommitOffset, Consumer!history, TypeInv, TypeOK, Consumer!TypeOK
  <2>9. CASE Consumer!CommitThrows
    BY <2>2, <2>4, <2>5, <2>9 DEF Consumer!CommitThrows, Consumer!history, TypeInv, TypeOK, Consumer!TypeOK
  <2>10. CASE Consumer!Rebalance
    <3>1. /\ cpc = "poll" /\ cpc' = cpc /\ position' = committed /\ committed' = committed
          /\ disruptions' = disruptions + 1 /\ handled' = handled /\ failed' = failed
      BY <2>10 DEF Consumer!Rebalance, Consumer!history
    <3>2. handled \in SUBSET Nat /\ disruptions + 1 \in Nat
      BY <2>2 DEF TypeInv, TypeOK, Consumer!TypeOK
    <3> QED
      BY <2>2, <2>4, <2>5, <3>1, <3>2
  <2> QED
    BY <1>12, <2>6, <2>7, <2>8, <2>9, <2>10 DEF ConsumerStep, Rebalance
<1>13. CASE Restart
  BY <1>13 DEF Restart, Consumer!Restart, Consumer!history, environment, TypeInv, TypeOK,
               Consumer!TypeOK, Present
<1> QED
  BY <1>1, <1>2, <1>3, <1>4, <1>5, <1>6, <1>7, <1>8, <1>9, <1>10, <1>11, <1>12, <1>13
     DEF Next, Environment, Creates, Updates, ConsumerLoop

(* TypeInv holds in every reachable state. *)
LEMMA TypeAlways == Spec => []TypeInv
BY TypeInit, TypeStep, PTL DEF Spec

(* TypeOK: the types of tables, requests, handler and consumer. *)
THEOREM TypeCorrect == Spec => []TypeOK
<1>1. TypeInv => TypeOK
  BY DEF TypeInv
<1> QED
  BY <1>1, TypeAlways, PTL

------------------------------------------------------------------------------
(* Rows, outbox rows and the handler's copies *)

CancelledEvent == [type |-> "cancelled", status |-> "Cancelled"]

(* Only these actions write rows; only a read of pending orders fills the DbContext. *)
LEMMA Writers ==
    ASSUME [Next]_vars
    PROVE  \/ /\ UNCHANGED <<status, cancelledAt, events, earlier>>
              /\ batch' \subseteq batch \cup {o \in Orders : status[o] = "Pending"}
           \/ \E o \in Orders : CreateSaves(o)
           \/ \E r \in patches : PatchSaves(r)
           \/ HandlerSaves
           \/ Restart
<1> USE DEF table, consumer, patch
<1>1. CASE UNCHANGED vars
  BY <1>1 DEF vars
<1>2. CASE Environment
  BY <1>2 DEF Environment, UserChanges, EventPublished
<1>3. CASE Creates
  BY <1>3 DEF Creates, CreateValidates, CreateFails
<1>4. CASE Updates
  BY <1>4 DEF Updates, PatchReads, PatchValidates, PatchFails
<1>5. CASE ConsumerLoop
  BY <1>5 DEF ConsumerLoop, HandlerIgnores, HandlerReads, HandlerFails, ConsumerStep, PendingOrdersOf
<1>6. CASE Rebalance
  BY <1>6 DEF Rebalance
<1> QED
  BY <1>1, <1>2, <1>3, <1>4, <1>5, <1>6 DEF Next

(* What a save does to the outbox rows of an order. *)
LEMMA Appended ==
    ASSUME NEW es \in Seq(OrderEvent), NEW e \in OrderEvent
    PROVE  /\ Append(es, e) \in Seq(OrderEvent)
           /\ Len(es) \in Nat
           /\ Len(Append(es, e)) = Len(es) + 1
           /\ Append(es, e)[Len(es) + 1] = e
           /\ \A i \in 1..Len(es) : Append(es, e)[i] = es[i]
           /\ Append(es, e) # <<>>
BY AppendProperties, LenProperties

(* RowMatchesEvents of one order. *)
RowOf(o) ==
    status[o] # "Absent" =>
        /\ events[o] # <<>>
        /\ status[o] = events[o][Len(events[o])].status
        /\ cancelledAt[o] <=> status[o] = "Cancelled"

(* The rows of all orders. *)
RowInv == \A o \in Orders : RowOf(o)

(* Each save writes a row and the event that announces it together. *)
LEMMA RowStep == TypeInv /\ RowInv /\ [Next]_vars => RowInv'
<1> SUFFICES ASSUME TypeInv, \A o \in Orders : RowOf(o), [Next]_vars, NEW o \in Orders
             PROVE  RowOf(o)'
  BY DEF RowInv
<1>0. /\ events[o] \in Seq(OrderEvent) /\ status \in [Orders -> OrderStatuses \cup {"Absent"}]
      /\ cancelledAt \in [Orders -> BOOLEAN] /\ events \in [Orders -> Seq(OrderEvent)]
  BY DEF TypeInv, TypeOK
<1>1. CASE UNCHANGED <<status, cancelledAt, events>>
  BY <1>1 DEF RowOf
<1>2. ASSUME NEW p \in Orders, CreateSaves(p) PROVE RowOf(o)'
  <2>1. CASE o # p
    BY <1>0, <1>2, <2>1 DEF CreateSaves, RowOf
  <2>2. CASE o = p
    <3> DEFINE e == [type |-> "created", status |-> "Pending"]
    <3>1. e \in OrderEvent /\ e.status = "Pending"
      BY DEF OrderEvent, OrderStatuses
    <3>2. status'[o] = "Pending" /\ events'[o] = Append(events[o], e) /\ cancelledAt' = cancelledAt
      BY <1>0, <1>2, <2>2 DEF CreateSaves
    <3>3. cancelledAt[o] = FALSE
      BY <1>2, <2>2 DEF CreateSaves, TypeInv
    <3> HIDE DEF e
    <3> QED
      BY <1>0, <3>1, <3>2, <3>3, Appended DEF RowOf
  <2> QED
    BY <2>1, <2>2
<1>3. ASSUME NEW r \in patches, PatchSaves(r) PROVE RowOf(o)'
  <2>1. CASE o # r.order
    BY <1>0, <1>3, <2>1 DEF PatchSaves, RowOf
  <2>2. CASE o = r.order
    <3> DEFINE e == [type |-> "changed", status |-> r.to]
    <3>1. e \in OrderEvent /\ e.status = r.to
      BY DEF OrderEvent, TypeInv, TypeOK, PatchRequests
    <3>2. /\ status'[o] = r.to /\ events'[o] = Append(events[o], e)
          /\ cancelledAt'[o] <=> r.to = "Cancelled"
      BY <1>0, <1>3, <2>2 DEF PatchSaves
    <3> HIDE DEF e
    <3>3. events'[o] # <<>> /\ events'[o][Len(events'[o])].status = r.to
      BY <1>0, <3>1, <3>2, Appended
    <3> QED
      BY <3>2, <3>3 DEF RowOf
  <2> QED
    BY <2>1, <2>2
<1>4. CASE HandlerSaves
  <2>1. CASE o \notin batch
    BY <1>0, <1>4, <2>1 DEF HandlerSaves, RowOf
  <2>2. CASE o \in batch
    <3>1. CancelledEvent \in OrderEvent /\ CancelledEvent.status = "Cancelled"
      BY DEF OrderEvent, OrderStatuses, CancelledEvent
    <3>2. /\ status'[o] = "Cancelled" /\ events'[o] = Append(events[o], CancelledEvent)
          /\ cancelledAt'[o] = TRUE
      BY <1>4, <2>2 DEF HandlerSaves, CancelledEvent
    <3> QED
      BY <1>0, <3>1, <3>2, Appended DEF RowOf
  <2> QED
    BY <2>1, <2>2
<1>5. CASE Restart
  BY <1>5 DEF Restart, RowOf
<1> QED
  BY <1>1, <1>2, <1>3, <1>4, <1>5, Writers

(* RowMatchesEvents: although PATCH requests and the handler save copies they read    *)
(* earlier, a row agrees with the last event announced for it.                       *)
THEOREM RowsMatchEvents == Spec => []RowMatchesEvents
<1>1. Init => RowInv
  BY DEF Init, RowInv, RowOf
<1>2. RowInv => RowMatchesEvents
  BY DEF RowInv, RowOf, RowMatchesEvents, Present
<1> QED
  BY <1>1, <1>2, RowStep, TypeAlways, PTL DEF Spec

------------------------------------------------------------------------------
(* Counting outbox rows *)

(* Positions and number of the rows of es that are in T. *)
Where(es, T) == {i \in 1..Len(es) : es[i] \in T}
Count(es, T) == Cardinality(Where(es, T))

(* An order without outbox rows has none of any kind. *)
LEMMA CountEmpty == \A T : Count(<<>>, T) = 0
<1>1. \A T : Where(<<>>, T) = {}
  BY EmptySeq DEF Where
<1> QED
  BY <1>1, FS_EmptySet DEF Count

(* One more row is one more, or none. *)
LEMMA CountAppend ==
    ASSUME NEW es \in Seq(OrderEvent), NEW e \in OrderEvent, NEW T
    PROVE  /\ Count(es, T) \in Nat
           /\ e \in T => Count(Append(es, e), T) = Count(es, T) + 1
           /\ e \notin T => Count(Append(es, e), T) = Count(es, T)
<1>1. Len(es) \in Nat
  BY Appended
<1>2. IsFiniteSet(Where(es, T))
  <2>1. IsFiniteSet(1..Len(es))
    BY <1>1, FS_Interval
  <2> QED
    BY <2>1, FS_Subset DEF Where
<1>3. Len(es) + 1 \notin Where(es, T)
  BY <1>1 DEF Where
<1>4. ASSUME e \in T PROVE Where(Append(es, e), T) = Where(es, T) \cup {Len(es) + 1}
  BY <1>1, <1>4, Appended DEF Where
<1>5. ASSUME e \notin T PROVE Where(Append(es, e), T) = Where(es, T)
  BY <1>1, <1>5, Appended DEF Where
<1>6. Count(es, T) \in Nat
  BY <1>2, FS_CardinalityType DEF Count
<1>7. Cardinality(Where(es, T) \cup {Len(es) + 1}) = Count(es, T) + 1
  BY <1>2, <1>3, FS_AddElement DEF Count
<1> QED
  BY <1>4, <1>5, <1>6, <1>7 DEF Count

CancelledRows == {CancelledEvent}
PendingRows   == {e \in OrderEvent : e.status = "Pending"}

(* The counts that the properties speak of. *)
LEMMA CountsOf ==
    ASSUME NEW es \in Seq(OrderEvent)
    PROVE  /\ Cardinality({i \in 1..Len(es) : es[i] = CancelledEvent}) = Count(es, CancelledRows)
           /\ Cardinality({i \in 1..Len(es) : es[i].status = "Pending"}) = Count(es, PendingRows)
<1>1. \A i \in 1..Len(es) : es[i] \in OrderEvent
  BY ElementOfSeq
<1>2. {i \in 1..Len(es) : es[i] = CancelledEvent} = Where(es, CancelledRows)
  BY DEF Where, CancelledRows
<1>3. {i \in 1..Len(es) : es[i].status = "Pending"} = Where(es, PendingRows)
  BY <1>1 DEF Where, PendingRows
<1> QED
  BY <1>2, <1>3 DEF Count

(* An order that is Pending, or that the handler read when it was, has one cancellation *)
(* to spare.                                                                         *)
SpareOf(o) ==
    /\ Count(events[o], CancelledRows) <= Count(events[o], PendingRows)
    /\ o \in batch \/ status[o] = "Pending"
         => Count(events[o], CancelledRows) < Count(events[o], PendingRows)

SpareInv == \A o \in Orders : SpareOf(o)

(* Only the handler spends a cancellation, and it saves each order it read once. *)
LEMMA SpareStep == TypeInv /\ SpareInv /\ [Next]_vars => SpareInv'
<1> SUFFICES ASSUME TypeInv, \A o \in Orders : SpareOf(o), [Next]_vars, NEW o \in Orders
             PROVE  SpareOf(o)'
  BY DEF SpareInv
<1> DEFINE c == Count(events[o], CancelledRows)
<1> DEFINE p == Count(events[o], PendingRows)
<1>0. /\ events[o] \in Seq(OrderEvent) /\ status \in [Orders -> OrderStatuses \cup {"Absent"}]
      /\ events \in [Orders -> Seq(OrderEvent)]
  BY DEF TypeInv, TypeOK
<1>a. CancelledEvent \in OrderEvent /\ CancelledEvent \in CancelledRows /\ CancelledEvent \notin PendingRows
  BY DEF CancelledEvent, OrderEvent, OrderStatuses, CancelledRows, PendingRows
<1>b. c \in Nat /\ p \in Nat
  BY <1>0, <1>a, CountAppend
<1>c. c <= p /\ (o \in batch \/ status[o] = "Pending" => c < p)
  BY DEF SpareOf
<1>1. CASE UNCHANGED <<status, cancelledAt, events>>
           /\ batch' \subseteq batch \cup {q \in Orders : status[q] = "Pending"}
  BY <1>1, <1>c DEF SpareOf
<1>2. ASSUME NEW q \in Orders, CreateSaves(q) PROVE SpareOf(o)'
  <2>0. batch' = batch
    BY <1>2 DEF CreateSaves
  <2>1. CASE o # q
    <3>1. events'[o] = events[o] /\ status'[o] = status[o]
      BY <1>0, <1>2, <2>1 DEF CreateSaves
    <3> QED
      BY <2>0, <3>1, <1>c DEF SpareOf
  <2>2. CASE o = q
    <3> DEFINE e == [type |-> "created", status |-> "Pending"]
    <3>1. e \in OrderEvent /\ e \in PendingRows /\ e \notin CancelledRows
      BY DEF OrderEvent, OrderStatuses, PendingRows, CancelledRows, CancelledEvent
    <3>2. events'[o] = Append(events[o], e)
      BY <1>0, <1>2, <2>2 DEF CreateSaves
    <3> HIDE DEF e
    <3>3. Count(events'[o], CancelledRows) = c /\ Count(events'[o], PendingRows) = p + 1
      BY <1>0, <3>1, <3>2, CountAppend
    <3> QED
      BY <3>3, <1>b, <1>c DEF SpareOf
  <2> QED
    BY <2>1, <2>2
<1>3. ASSUME NEW r \in patches, PatchSaves(r) PROVE SpareOf(o)'
  <2>0. batch' = batch
    BY <1>3 DEF PatchSaves
  <2>1. CASE o # r.order
    <3>1. events'[o] = events[o] /\ status'[o] = status[o]
      BY <1>0, <1>3, <2>1 DEF PatchSaves
    <3> QED
      BY <2>0, <3>1, <1>c DEF SpareOf
  <2>2. CASE o = r.order
    <3> DEFINE e == [type |-> "changed", status |-> r.to]
    <3>1. /\ e \in OrderEvent /\ e \notin CancelledRows
          /\ e \in PendingRows <=> r.to = "Pending"
      BY DEF OrderEvent, TypeInv, TypeOK, PatchRequests, CancelledRows, PendingRows, CancelledEvent
    <3>2. status'[o] = r.to /\ events'[o] = Append(events[o], e)
      BY <1>0, <1>3, <2>2 DEF PatchSaves
    <3> HIDE DEF e
    <3>3. /\ Count(events'[o], CancelledRows) = c
          /\ Count(events'[o], PendingRows) = IF r.to = "Pending" THEN p + 1 ELSE p
      BY <1>0, <3>1, <3>2, CountAppend
    <3> QED
      BY <2>0, <3>2, <3>3, <1>b, <1>c DEF SpareOf
  <2> QED
    BY <2>1, <2>2
<1>4. CASE HandlerSaves
  <2>0. batch' = {}
    BY <1>4 DEF HandlerSaves
  <2>1. CASE o \notin batch
    <3>1. events'[o] = events[o] /\ status'[o] = status[o]
      BY <1>4, <2>1 DEF HandlerSaves
    <3> QED
      BY <2>0, <3>1, <1>c DEF SpareOf
  <2>2. CASE o \in batch
    <3>1. status'[o] = "Cancelled" /\ events'[o] = Append(events[o], CancelledEvent)
      BY <1>4, <2>2 DEF HandlerSaves, CancelledEvent
    <3>2. Count(events'[o], CancelledRows) = c + 1 /\ Count(events'[o], PendingRows) = p
      BY <1>0, <1>a, <3>1, CountAppend
    <3> QED
      BY <2>0, <2>2, <3>1, <3>2, <1>b, <1>c DEF SpareOf
  <2> QED
    BY <2>1, <2>2
<1>5. CASE Restart
  <2>1. events'[o] = <<>> /\ status'[o] = "Absent" /\ batch' = {}
    BY <1>5 DEF Restart
  <2>2. Count(events'[o], CancelledRows) = 0 /\ Count(events'[o], PendingRows) = 0
    BY <2>1, CountEmpty
  <2> QED
    BY <2>1, <2>2 DEF SpareOf
<1> HIDE DEF c, p
<1> QED
  BY <1>1, <1>2, <1>3, <1>4, <1>5, Writers

(* SpareInv holds in every reachable state. *)
LEMMA SpareAlways == Spec => []SpareInv
<1>1. Init => SpareInv
  <2> SUFFICES ASSUME Init, NEW o \in Orders PROVE SpareOf(o)
    BY DEF SpareInv
  <2>1. events[o] = <<>> /\ status[o] = "Absent" /\ batch = {}
    BY DEF Init
  <2> QED
    BY <2>1, CountEmpty DEF SpareOf
<1> QED
  BY <1>1, SpareStep, TypeAlways, PTL DEF Spec

(* HandlerCancelsOnce: however often deactivations are redelivered, an order gets at   *)
(* most one orders.cancelled for each time it was made Pending.                      *)
THEOREM CancelsOncePerPending == Spec => []HandlerCancelsOnce
<1>1. TypeInv /\ SpareInv => HandlerCancelsOnce
  BY CountsOf DEF TypeInv, TypeOK, SpareInv, SpareOf, HandlerCancelsOnce, Cancellations, Pendings, IndicesOf,
                  CancelledEvent
<1> QED
  BY <1>1, SpareAlways, TypeAlways, PTL

------------------------------------------------------------------------------
(* Whose orders the handler holds *)

(* Steps of environment and requests leave the consumer alone. *)
LEMMA ConsumerOnly ==
    ASSUME [Next]_vars
    PROVE  \/ UNCHANGED <<topic, position, cpc, handled>>
           \/ \E u \in Users, i \in 1..MaxChanges : EventPublished(u, i)
           \/ HandlerIgnores \/ HandlerSaves \/ HandlerFails
           \/ ConsumerStep \/ Rebalance \/ Restart
<1> USE DEF consumer
<1>1. CASE UNCHANGED vars
  BY <1>1 DEF vars
<1>2. CASE Environment
  BY <1>2 DEF Environment, UserChanges
<1>3. CASE Creates
  BY <1>3 DEF Creates, CreateValidates, CreateSaves, CreateFails
<1>4. CASE Updates
  BY <1>4 DEF Updates, PatchReads, PatchValidates, PatchSaves, PatchFails
<1>5. CASE HandlerReads
  BY <1>5 DEF HandlerReads
<1> QED
  BY <1>1, <1>2, <1>3, <1>4, <1>5 DEF Next, ConsumerLoop

(* The topic keeps what it has; a message that was handled stays so; the handler      *)
(* keeps its message until it is done.                                              *)
LEMMA TopicStep ==
    ASSUME TypeInv, [Next]_vars, handled \subseteq 0..(Len(topic) - 1)
    PROVE  /\ Len(topic) \in Nat /\ Len(topic') \in Nat /\ Len(topic) <= Len(topic')
           /\ \A n \in 0..(Len(topic) - 1) : topic'[n + 1] = topic[n + 1]
           /\ handled \subseteq handled' /\ handled' \subseteq 0..(Len(topic') - 1)
           /\ cpc = "handle" => position' = position
<1>0. /\ Len(topic) \in Nat /\ topic \in Seq(StatusEvents)
      /\ position \in 0..Len(topic) /\ (cpc = "handle" => position > 0)
  BY LenProperties DEF TypeInv, TypeOK, Consumer!TypeOK
<1>1. ASSUME NEW u \in Users, NEW i \in 1..MaxChanges, EventPublished(u, i)
      PROVE  /\ \A m \in 0..(Len(topic) - 1) : topic'[m + 1] = topic[m + 1]
             /\ Len(topic') = Len(topic) + 1 /\ handled' = handled /\ position' = position
  <2> DEFINE v == [user |-> u, new |-> changes[u][i]]
  <2>1. topic' = Append(topic, v) /\ handled' = handled /\ position' = position /\ v \in StatusEvents
    BY <1>1, PublishedEvent
  <2> HIDE DEF v
  <2>2. /\ \A m \in 1..Len(topic) : topic'[m] = topic[m]
        /\ Len(topic') = Len(topic) + 1
    BY <1>0, <2>1, AppendProperties
  <2> QED
    BY <1>0, <2>1, <2>2
<1>2. CASE UNCHANGED <<topic, position, cpc, handled>>
  BY <1>0, <1>2
<1>3. CASE HandlerIgnores \/ HandlerSaves \/ HandlerFails
  <2>1. topic' = topic /\ position' = position /\ cpc = "handle"
        /\ (handled' = handled \/ handled' = handled \cup {position - 1})
    BY <1>3 DEF HandlerIgnores, HandlerSaves, HandlerFails, Consumer!HandlerReturns,
                Consumer!HandlerThrows, Consumer!Current
  <2>2. position - 1 \in 0..(Len(topic) - 1)
    BY <1>0, <2>1
  <2>3. handled \subseteq handled' /\ handled' \subseteq 0..(Len(topic) - 1)
    BY <2>1, <2>2
  <2> QED
    BY <1>0, <2>1, <2>3
<1>4. CASE ConsumerStep \/ Rebalance
  <2>1. topic' = topic /\ cpc # "handle"
    BY <1>4 DEF ConsumerStep, Rebalance, Consumer!Connect, Consumer!Consume, Consumer!CommitOffset,
                Consumer!CommitThrows, Consumer!Rebalance
  <2>2. handled' = handled \/ (Consumer!Consume /\ handled' = handled \cup {position})
    BY <1>4 DEF ConsumerStep, Rebalance, Consumer!Connect, Consumer!Consume, Consumer!CommitOffset,
                Consumer!CommitThrows, Consumer!Rebalance, Consumer!history
  <2>3. Consumer!Consume => position \in 0..(Len(topic) - 1)
    BY <1>0 DEF Consumer!Consume
  <2>4. handled \subseteq handled' /\ handled' \subseteq 0..(Len(topic) - 1)
    BY <2>2, <2>3
  <2> QED
    BY <1>0, <2>1, <2>4
<1>5. CASE Restart
  BY <1>0, <1>5 DEF Restart, Consumer!Restart, Consumer!history
<1>6. ASSUME NEW u \in Users, NEW i \in 1..MaxChanges, EventPublished(u, i)
      PROVE  /\ Len(topic') \in Nat /\ Len(topic) <= Len(topic')
             /\ handled \subseteq handled' /\ handled' \subseteq 0..(Len(topic') - 1)
  <2>1. Len(topic') = Len(topic) + 1 /\ Len(topic) \in Nat /\ handled' = handled
    BY <1>0, <1>1, <1>6
  <2>2. 0..(Len(topic) - 1) \subseteq 0..(Len(topic') - 1)
    BY <2>1
  <2> QED
    BY <2>1, <2>2
<1> QED
  BY <1>0, <1>1, <1>2, <1>3, <1>4, <1>5, <1>6, ConsumerOnly

(* An order with a row keeps its owner, unless the process restarts. *)
LEMMA OwnerStep ==
    ASSUME TypeInv, [Next]_vars, NEW o \in Present
    PROVE  owner'[o] = owner[o] \/ Restart
<1> USE DEF table, consumer
<1>1. o \in Orders /\ cpcreate[o] = "done" /\ owner \in [Orders -> Users \cup {NoUser}]
  BY DEF TypeInv, TypeOK, Present
<1>2. CASE UNCHANGED vars
  BY <1>2 DEF vars
<1>3. CASE Environment
  BY <1>3 DEF Environment, UserChanges, EventPublished
<1>4. CASE Creates
  BY <1>1, <1>4 DEF Creates, CreateValidates, CreateSaves, CreateFails
<1>5. CASE Updates
  BY <1>5 DEF Updates, PatchReads, PatchValidates, PatchSaves, PatchFails
<1>6. CASE ConsumerLoop
  BY <1>6 DEF ConsumerLoop, HandlerIgnores, HandlerReads, HandlerSaves, HandlerFails, ConsumerStep
<1>7. CASE Rebalance
  BY <1>7 DEF Rebalance
<1> QED
  BY <1>2, <1>3, <1>4, <1>5, <1>6, <1>7 DEF Next

(* Only the handler's query puts orders into the DbContext. *)
LEMMA BatchStep ==
    ASSUME [Next]_vars
    PROVE  HandlerReads \/ batch' = batch \/ batch' = {}
<1>1. CASE UNCHANGED vars
  BY <1>1 DEF vars
<1>2. CASE Environment
  BY <1>2 DEF Environment, UserChanges, EventPublished
<1>3. CASE Creates
  BY <1>3 DEF Creates, CreateValidates, CreateSaves, CreateFails
<1>4. CASE Updates
  BY <1>4 DEF Updates, PatchReads, PatchValidates, PatchSaves, PatchFails
<1>5. CASE ConsumerLoop
  BY <1>5 DEF ConsumerLoop, HandlerIgnores, HandlerSaves, HandlerFails, ConsumerStep
<1>6. CASE Rebalance \/ Restart
  BY <1>6 DEF Rebalance, Restart
<1> QED
  BY <1>1, <1>2, <1>3, <1>4, <1>5, <1>6 DEF Next

(* The orders in the DbContext are those of the user whose deactivation is handled. *)
CauseInv ==
    /\ handled \subseteq 0..(Len(topic) - 1)
    /\ \A o \in batch : Deactivates(position - 1, o)

(* Messages and owners do not change while the handler holds its copies. *)
LEMMA CauseStep == TypeInv /\ CauseInv /\ [Next]_vars => CauseInv'
<1> SUFFICES ASSUME TypeInv, CauseInv, [Next]_vars PROVE CauseInv'
  OBVIOUS
<1>a. /\ handled \subseteq 0..(Len(topic) - 1)
      /\ \A o \in batch : Deactivates(position - 1, o)
  BY DEF CauseInv
<1>b. /\ Len(topic) \in Nat /\ Len(topic') \in Nat /\ Len(topic) <= Len(topic')
      /\ \A n \in 0..(Len(topic) - 1) : topic'[n + 1] = topic[n + 1]
      /\ handled \subseteq handled' /\ handled' \subseteq 0..(Len(topic') - 1)
      /\ cpc = "handle" => position' = position
  BY <1>a, TopicStep
<1>c. /\ batch \subseteq Present
      /\ (batch # {} => cpc = "handle") /\ position \in 0..Len(topic)
      /\ (cpc = "handle" => position > 0)
  BY DEF TypeInv, TypeOK, Consumer!TypeOK
<1>1. CASE Restart
  <2>1. batch' = {}
    BY <1>1 DEF Restart
  <2> QED
    BY <1>b, <2>1 DEF CauseInv
<1>2. CASE ~ Restart
  <2>1. \A o \in batch' : Deactivates(position - 1, o)'
    <3>1. CASE HandlerReads
      <4>1. /\ Event.new = "Inactive" /\ batch' = PendingOrdersOf(Event.user)
            /\ UNCHANGED <<topic, position, owner, cpc>> /\ Event = topic[position - 1 + 1]
        BY <3>1 DEF HandlerReads, Event, Consumer!Current, consumer, table
      <4>2. topic[position] \in StatusEvents /\ Event = topic[position]
        BY <4>1, <3>1, <1>c, ElementOfSeq DEF TypeInv, TypeOK, Consumer!TypeOK, HandlerReads
      <4>3. topic[position] = [user |-> Event.user, new |-> "Inactive"]
        BY <4>1, <4>2 DEF StatusEvents
      <4>4. \A o \in batch' : owner[o] = Event.user
        BY <4>1 DEF PendingOrdersOf
      <4> QED
        BY <4>1, <4>2, <4>3, <4>4 DEF Deactivates
    <3>2. CASE batch' \subseteq batch
      <4> SUFFICES ASSUME NEW o \in batch' PROVE Deactivates(position - 1, o)'
        OBVIOUS
      <4>1. o \in batch /\ o \in Present /\ cpc = "handle" /\ position' = position
        BY <3>2, <1>b, <1>c
      <4>2. position - 1 \in 0..(Len(topic) - 1) /\ Deactivates(position - 1, o)
        BY <4>1, <1>a, <1>c
      <4>3. topic'[position - 1 + 1] = topic[position - 1 + 1] /\ owner'[o] = owner[o]
        BY <1>2, <1>b, <4>1, <4>2, OwnerStep
      <4> QED
        BY <4>1, <4>2, <4>3 DEF Deactivates
    <3>3. HandlerReads \/ batch' \subseteq batch
      BY BatchStep
    <3> QED
      BY <3>1, <3>2, <3>3
  <2> QED
    BY <1>b, <2>1 DEF CauseInv
<1> QED
  BY <1>1, <1>2

(* CauseInv holds in every reachable state. *)
LEMMA CauseAlways == Spec => []CauseInv
<1>1. Init => CauseInv
  BY DEF Init, Consumer!Init, CauseInv
<1> QED
  BY <1>1, CauseStep, TypeAlways, PTL DEF Spec

------------------------------------------------------------------------------
(* The handler is complete *)

(* An order that is Pending after a step was so before, or had its handling begun noted. *)
LEMMA PendingStep ==
    ASSUME TypeInv, [Next]_vars, NEW o \in Orders, status'[o] = "Pending"
    PROVE  \/ /\ status[o] = "Pending" /\ earlier'[o] = earlier[o] /\ owner'[o] = owner[o]
              /\ ~ (HandlerSaves /\ o \in batch)
           \/ /\ earlier'[o] = Begun
              /\ UNCHANGED <<topic, position, handled, batch>>
<1>1. /\ status \in [Orders -> OrderStatuses \cup {"Absent"}] /\ earlier \in [Orders -> SUBSET Nat]
      /\ owner \in [Orders -> Users \cup {NoUser}]
  BY DEF TypeInv, TypeOK
<1>2. CASE status[o] = "Pending" /\ earlier'[o] = earlier[o]
  <2>1. ~ Restart
    BY DEF Restart
  <2>2. ~ (HandlerSaves /\ o \in batch)
    BY DEF HandlerSaves
  <2>3. owner'[o] = owner[o]
    BY <1>2, <2>1, OwnerStep DEF Present
  <2> QED
    BY <1>2, <2>2, <2>3
<1>3. CASE UNCHANGED <<status, cancelledAt, events, earlier>>
  BY <1>2, <1>3
<1>4. ASSUME NEW p \in Orders, CreateSaves(p)
      PROVE  \/ status[o] = "Pending" /\ earlier'[o] = earlier[o]
             \/ earlier'[o] = Begun /\ UNCHANGED <<topic, position, handled, batch>>
  BY <1>1, <1>4 DEF CreateSaves, consumer
<1>5. ASSUME NEW r \in patches, PatchSaves(r)
      PROVE  \/ status[o] = "Pending" /\ earlier'[o] = earlier[o]
             \/ earlier'[o] = Begun /\ UNCHANGED <<topic, position, handled, batch>>
  BY <1>1, <1>5 DEF PatchSaves, consumer
<1>6. HandlerSaves => status[o] = "Pending" /\ earlier'[o] = earlier[o]
  BY DEF HandlerSaves
<1>7. ~ Restart
  BY DEF Restart
<1> QED
  BY <1>2, <1>3, <1>4, <1>5, <1>6, <1>7, Writers

(* Only a handler that has nothing to do, or saves, completes a message. *)
LEMMA HandledStep ==
    ASSUME [Next]_vars
    PROVE  \/ handled' = handled
           \/ (HandlerIgnores \/ HandlerSaves) /\ cpc = "handle" /\ handled' = handled \cup {position - 1}
<1>1. CASE HandlerIgnores \/ HandlerSaves \/ HandlerFails
  BY <1>1 DEF HandlerIgnores, HandlerSaves, HandlerFails, Consumer!HandlerReturns, Consumer!HandlerThrows,
              Consumer!Current
<1>2. CASE ConsumerStep \/ Rebalance \/ Restart
  BY <1>2 DEF ConsumerStep, Rebalance, Restart, Consumer!Connect, Consumer!Consume, Consumer!CommitOffset,
              Consumer!CommitThrows, Consumer!Rebalance, Consumer!Restart, Consumer!history
<1>3. ASSUME NEW u \in Users, NEW i \in 1..MaxChanges, EventPublished(u, i) PROVE handled' = handled
  BY <1>3 DEF EventPublished, Consumer!Produce, Consumer!history
<1> QED
  BY <1>1, <1>2, <1>3, ConsumerOnly

(* What the handler still owes: while it holds copies, every pending order of the user    *)
(* is among them, or became Pending after it began.                                     *)
CompleteInv ==
    /\ handled \subseteq 0..(Len(topic) - 1)
    /\ HandledMeansCancelled
    /\ batch # {} => \A o \in Orders :
         status[o] = "Pending" /\ Deactivates(position - 1, o) => o \in batch \/ position - 1 \in earlier[o]

(* The query returns all of the user's pending orders, and the save cancels all it returned. *)
LEMMA CompleteStep == TypeInv /\ CompleteInv /\ [Next]_vars => CompleteInv'
<1> SUFFICES ASSUME TypeInv, CompleteInv, [Next]_vars PROVE CompleteInv'
  OBVIOUS
<1>a. /\ handled \subseteq 0..(Len(topic) - 1)
      /\ \A o \in Orders : \A n \in handled : status[o] = "Pending" /\ Deactivates(n, o) => n \in earlier[o]
      /\ batch # {} => \A o \in Orders :
           status[o] = "Pending" /\ Deactivates(position - 1, o) => o \in batch \/ position - 1 \in earlier[o]
  BY DEF CompleteInv, HandledMeansCancelled
<1>b. /\ \A n \in 0..(Len(topic) - 1) : topic'[n + 1] = topic[n + 1]
      /\ handled' \subseteq 0..(Len(topic') - 1)
      /\ cpc = "handle" => position' = position
  BY <1>a, TopicStep
<1>c. /\ Len(topic) \in Nat /\ position \in 0..Len(topic) /\ (cpc = "handle" => position > 0)
      /\ (batch # {} => cpc = "handle")
  BY LenProperties DEF TypeInv, TypeOK, Consumer!TypeOK
<1>d. ASSUME NEW o \in Orders, NEW n \in 0..(Len(topic) - 1), owner'[o] = owner[o], Deactivates(n, o)'
      PROVE  Deactivates(n, o)
  BY <1>b, <1>d DEF Deactivates
<1>1. ASSUME NEW o \in Orders, NEW n \in handled', status'[o] = "Pending", Deactivates(n, o)'
      PROVE  n \in earlier'[o]
  <2>1. CASE earlier'[o] = Begun /\ handled' = handled
    BY <1>1, <2>1 DEF Begun
  <2>2. CASE /\ status[o] = "Pending" /\ earlier'[o] = earlier[o] /\ owner'[o] = owner[o]
             /\ ~ (HandlerSaves /\ o \in batch)
    <3>1. CASE n \in handled
      BY <1>1, <1>a, <1>d, <2>2, <3>1
    <3>2. CASE n \notin handled
      <4>1. /\ HandlerIgnores \/ HandlerSaves
            /\ cpc = "handle" /\ n = position - 1
        BY <1>1, <3>2, HandledStep
      <4>2. n \in 0..(Len(topic) - 1) /\ Deactivates(n, o)
        BY <1>1, <1>c, <1>d, <2>2, <4>1
      <4>3. CASE HandlerIgnores
        <5>1. Event = topic[n + 1]
          BY <4>1 DEF Event, Consumer!Current
        <5>2. Event.new = "Inactive" /\ Event.user = owner[o]
          BY <4>2, <5>1 DEF Deactivates
        <5>3. o \in PendingOrdersOf(Event.user)
          BY <2>2, <5>2 DEF PendingOrdersOf
        <5> QED
          BY <4>3, <5>2, <5>3 DEF HandlerIgnores
      <4>4. CASE HandlerSaves
        <5>1. batch # {} /\ o \notin batch
          BY <2>2, <4>4 DEF HandlerSaves
        <5> QED
          BY <1>a, <2>2, <4>1, <4>2, <5>1
      <4> QED
        BY <4>1, <4>3, <4>4
    <3> QED
      BY <3>1, <3>2
  <2> QED
    BY <1>1, <2>1, <2>2, PendingStep
<1>2. ASSUME batch' # {}, NEW o \in Orders, status'[o] = "Pending", Deactivates(position - 1, o)'
      PROVE  o \in batch' \/ position' - 1 \in earlier'[o]
  <2>1. CASE HandlerReads
    <3>1. /\ UNCHANGED <<topic, position, owner, status>> /\ batch' = PendingOrdersOf(Event.user)
          /\ cpc = "handle"
      BY <2>1 DEF HandlerReads, consumer, table
    <3>2. topic[position - 1 + 1] = [user |-> owner[o], new |-> "Inactive"] /\ Event = topic[position - 1 + 1]
      BY <1>2, <3>1 DEF Deactivates, Event, Consumer!Current
    <3> QED
      BY <1>2, <3>1, <3>2 DEF PendingOrdersOf
  <2>2. CASE batch' = batch
    <3>1. position' = position /\ position - 1 \in 0..(Len(topic) - 1)
      BY <1>2, <1>b, <1>c, <2>2
    <3>2. CASE earlier'[o] = Begun
      BY <1>2, <2>2, <3>1, <3>2 DEF Begun, Consumer!Current
    <3>3. CASE status[o] = "Pending" /\ earlier'[o] = earlier[o] /\ owner'[o] = owner[o]
      <4>1. Deactivates(position - 1, o)
        <5>1. topic'[position - 1 + 1] = [user |-> owner[o], new |-> "Inactive"]
          BY <1>2, <3>1, <3>3 DEF Deactivates
        <5> QED
          BY <1>b, <3>1, <5>1 DEF Deactivates
      <4> QED
        BY <1>2, <1>a, <2>2, <3>1, <3>3, <4>1
    <3> QED
      BY <1>2, <3>2, <3>3, PendingStep
  <2> QED
    BY <1>2, <2>1, <2>2, BatchStep
<1> QED
  BY <1>b, <1>1, <1>2 DEF CompleteInv, HandledMeansCancelled

(* CompleteInv holds in every reachable state. *)
LEMMA CompleteAlways == Spec => []CompleteInv
<1>1. Init => CompleteInv
  BY DEF Init, Consumer!Init, CompleteInv, HandledMeansCancelled
<1> QED
  BY <1>1, CompleteStep, TypeAlways, PTL DEF Spec

(* HandledMeansCancelled: whatever else runs, a handled deactivation leaves no order of    *)
(* its user Pending that was Pending when its handling began.                            *)
THEOREM HandledIsComplete == Spec => []HandledMeansCancelled
<1>1. CompleteInv => HandledMeansCancelled
  BY DEF CompleteInv
<1> QED
  BY <1>1, CompleteAlways, PTL

------------------------------------------------------------------------------
(* A deactivation is applied again only after a disruption *)

(* The consumer is past the message at offset n, and its handler is not about to read    *)
(* orders for it.                                                                     *)
Past(n) == cpc # "down" /\ n < position /\ (cpc = "handle" /\ batch = {} => n # position - 1)

(* Until the first disruption the consumer is past all whose handling has begun; and a     *)
(* connected consumer never lies below the committed offset.                             *)
FreshInv ==
    /\ disruptions = 0 => \A n \in handled : Past(n)
    /\ disruptions = 0 => \A o \in Orders : \A n \in earlier[o] : Past(n)
    /\ cpc # "down" => committed <= position
    /\ cpc = "handle" => committed < position

(* What a step does to the consumer's offsets, but for those it disrupts. *)
LEMMA OffsetStep ==
    ASSUME TypeInv, [Next]_vars
    PROVE  \/ UNCHANGED <<position, cpc, committed, disruptions, handled, batch>>
           \/ /\ HandlerReads
              /\ UNCHANGED <<position, cpc, committed, disruptions, handled, earlier>>
              /\ batch' # {}
           \/ /\ HandlerIgnores \/ HandlerSaves \/ HandlerFails
              /\ UNCHANGED <<position, committed, disruptions>>
              /\ cpc = "handle" /\ cpc' \in {"poll", "commit"}
              /\ handled' \subseteq handled \cup {position - 1}
           \/ Consumer!Connect /\ UNCHANGED <<earlier, batch>>
           \/ /\ Consumer!Consume /\ UNCHANGED <<earlier, batch>>
              /\ cpc' = "handle" /\ handled' = handled
           \/ (Consumer!CommitOffset \/ Consumer!CommitThrows) /\ UNCHANGED <<earlier, batch>>
           \/ Consumer!Rebalance /\ UNCHANGED <<earlier, batch>>
           \/ Consumer!Restart
<1> USE DEF consumer, table
<1>1. CASE UNCHANGED vars
  BY <1>1 DEF vars
<1>2. ASSUME NEW u \in Users, NEW s \in UserStatuses, UserChanges(u, s)
      PROVE  UNCHANGED <<position, cpc, committed, disruptions, handled, batch>>
  BY <1>2 DEF UserChanges
<1>3. ASSUME NEW u \in Users, NEW i \in 1..MaxChanges, EventPublished(u, i)
      PROVE  UNCHANGED <<position, cpc, committed, disruptions, handled, batch>>
  BY <1>3 DEF EventPublished, Consumer!Produce, Consumer!history
<1>4. CASE Creates
  BY <1>4 DEF Creates, CreateValidates, CreateSaves, CreateFails
<1>5. CASE Updates
  BY <1>5 DEF Updates, PatchReads, PatchValidates, PatchSaves, PatchFails
<1>6. CASE HandlerReads
  BY <1>6 DEF HandlerReads
<1>7. CASE HandlerIgnores \/ HandlerSaves \/ HandlerFails
  BY <1>7 DEF HandlerIgnores, HandlerSaves, HandlerFails, Consumer!HandlerReturns, Consumer!HandlerThrows,
              Consumer!Current
<1>8. CASE ConsumerStep
  <2>1. Consumer!Consume => cpc' = "handle" /\ handled' = handled
    BY DEF Consumer!Consume
  <2> QED
    BY <1>8, <2>1 DEF ConsumerStep
<1>9. CASE Rebalance \/ Restart
  BY <1>9 DEF Rebalance, Restart
<1> QED
  BY <1>1, <1>2, <1>3, <1>4, <1>5, <1>6, <1>7, <1>8, <1>9 DEF Next, Environment, ConsumerLoop

(* An order keeps what was begun before it, forgets it, or takes note of it anew. *)
LEMMA EarlierStep ==
    ASSUME TypeInv, [Next]_vars, NEW o \in Orders
    PROVE  earlier'[o] \in {earlier[o], {}, Begun}
<1>1. earlier \in [Orders -> SUBSET Nat]
  BY DEF TypeInv, TypeOK
<1>2. ASSUME NEW p \in Orders, CreateSaves(p) PROVE earlier'[o] \in {earlier[o], {}, Begun}
  BY <1>1, <1>2 DEF CreateSaves
<1>3. ASSUME NEW r \in patches, PatchSaves(r) PROVE earlier'[o] \in {earlier[o], {}, Begun}
  BY <1>1, <1>3 DEF PatchSaves
<1>4. HandlerSaves => earlier'[o] \in {earlier[o], {}, Begun}
  BY DEF HandlerSaves
<1>5. Restart => earlier'[o] \in {earlier[o], {}, Begun}
  BY DEF Restart
<1> QED
  BY <1>2, <1>3, <1>4, <1>5, Writers

(* What the consumer is past stays so until it is disrupted. *)
LEMMA PastStep ==
    ASSUME TypeInv, [Next]_vars, disruptions' = 0, NEW n \in Nat, Past(n)
    PROVE  Past(n)' /\ disruptions = 0
<1>1. position \in Nat /\ disruptions \in Nat
  BY DEF TypeInv, TypeOK, Consumer!TypeOK
<1>2. CASE HandlerReads /\ UNCHANGED <<position, cpc, disruptions>> /\ batch' # {}
  BY <1>2, <1>1 DEF Past
<1>3. CASE Consumer!Consume
  BY <1>1, <1>3 DEF Past, Consumer!Consume
<1>4. ~ Consumer!Connect /\ ~ Consumer!Rebalance /\ ~ Consumer!Restart
  BY <1>1 DEF Past, Consumer!Connect, Consumer!Rebalance, Consumer!Restart
<1>5. CASE Consumer!CommitOffset \/ Consumer!CommitThrows
  BY <1>5 DEF Past, Consumer!CommitOffset, Consumer!CommitThrows
<1>6. CASE UNCHANGED <<position, disruptions>> /\ cpc' \in {"poll", "commit"}
  BY <1>6 DEF Past
<1>7. CASE UNCHANGED <<position, cpc, disruptions, batch>>
  BY <1>7 DEF Past
<1> QED
  BY <1>2, <1>3, <1>4, <1>5, <1>6, <1>7, OffsetStep

(* Only a disruption takes the position back, and never below what was committed. *)
LEMMA FreshStep == TypeInv /\ FreshInv /\ [Next]_vars => FreshInv'
<1> SUFFICES ASSUME TypeInv, FreshInv, [Next]_vars PROVE FreshInv'
  OBVIOUS
<1>1. /\ position \in Nat /\ committed \in Nat /\ disruptions \in Nat /\ handled \subseteq Nat
      /\ \A o \in Orders : earlier[o] \subseteq Nat
      /\ cpc \in {"handle", "commit"} => position > 0
      /\ batch # {} => cpc = "handle"
  BY DEF TypeInv, TypeOK, Consumer!TypeOK
<1>2. ASSUME disruptions' = 0, NEW n \in handled' PROVE Past(n)'
  <2>1. CASE n \in handled
    <3>1. disruptions = 0
      BY <1>1, <1>2, OffsetStep
         DEF Consumer!Connect, Consumer!Consume, Consumer!CommitOffset, Consumer!CommitThrows,
             Consumer!Rebalance, Consumer!Restart
    <3> QED
      BY <1>1, <1>2, <2>1, <3>1, PastStep DEF FreshInv
  <2>2. CASE n \notin handled
    <3>1. /\ n = position - 1 /\ position' = position /\ cpc' \in {"poll", "commit"} /\ cpc = "handle"
      BY <1>2, <2>2, OffsetStep
         DEF Consumer!Connect, Consumer!Consume, Consumer!CommitOffset, Consumer!CommitThrows,
             Consumer!Rebalance, Consumer!Restart, Consumer!history
    <3> QED
      BY <1>1, <3>1 DEF Past
  <2> QED
    BY <2>1, <2>2
<1>3. ASSUME disruptions' = 0, NEW o \in Orders, NEW n \in earlier'[o] PROVE Past(n)'
  <2>1. disruptions = 0
    BY <1>1, <1>3, OffsetStep
       DEF Consumer!Connect, Consumer!Consume, Consumer!CommitOffset, Consumer!CommitThrows,
           Consumer!Rebalance, Consumer!Restart
  <2>2. Past(n) /\ n \in Nat
    <3>1. n \in earlier[o] \/ n \in Begun
      BY <1>3, EarlierStep
    <3>2. n \in Begun => n \in handled \/ (batch # {} /\ n = position - 1)
      BY DEF Begun, Consumer!Current
    <3>3. batch # {} => Past(position - 1)
      BY <1>1 DEF Past
    <3>4. CASE batch # {} /\ n = position - 1
      BY <1>1, <3>3, <3>4
    <3>5. CASE n \in handled
      BY <1>1, <2>1, <3>5 DEF FreshInv
    <3>6. CASE n \in earlier[o]
      BY <1>1, <2>1, <3>6 DEF FreshInv
    <3> QED
      BY <3>1, <3>2, <3>4, <3>5, <3>6
  <2> QED
    BY <1>3, <2>2, PastStep
<1>4. /\ cpc' # "down" => committed' <= position'
      /\ cpc' = "handle" => committed' < position'
  <2>1. /\ cpc # "down" => committed <= position
        /\ cpc = "handle" => committed < position
    BY DEF FreshInv
  <2> QED
    BY <1>1, <2>1, OffsetStep
       DEF Consumer!Connect, Consumer!Consume, Consumer!CommitOffset, Consumer!CommitThrows,
           Consumer!Rebalance, Consumer!Restart, Consumer!Current
<1> QED
  BY <1>2, <1>3, <1>4 DEF FreshInv

(* FreshInv holds in every reachable state. *)
LEMMA FreshAlways == Spec => []FreshInv
<1>1. Init => FreshInv
  BY DEF Init, Consumer!Init, FreshInv
<1> QED
  BY <1>1, FreshStep, TypeAlways, PTL DEF Spec

(* AppliedAgainOnlyAfterDisruption: a deactivation is applied to an order that came after  *)
(* its handling had begun only if a rebalance or restart repeats it, uncommitted.         *)
THEOREM AppliedAgainIsRedelivered == Spec => AppliedAgainOnlyAfterDisruption
<1> DEFINE Redelivered ==
      \A o \in batch' \ batch : Consumer!Current \in earlier[o] =>
          disruptions > 0 /\ committed <= Consumer!Current
<1>1. TypeInv /\ FreshInv /\ [Next]_vars => Redelivered
  <2> SUFFICES ASSUME TypeInv, FreshInv, [Next]_vars, NEW o \in batch' \ batch, position - 1 \in earlier[o]
               PROVE  disruptions > 0 /\ committed <= position - 1
    BY DEF Consumer!Current
  <2>1. HandlerReads
    BY BatchStep
  <2>2. cpc = "handle" /\ batch = {} /\ o \in Orders
    BY <2>1 DEF HandlerReads, PendingOrdersOf
  <2>3. ~ Past(position - 1)
    BY <2>2 DEF Past
  <2>4. position \in Nat /\ committed \in Nat /\ disruptions \in Nat
    BY DEF TypeInv, TypeOK, Consumer!TypeOK
  <2> QED
    BY <2>2, <2>3, <2>4 DEF FreshInv
<1>2. Redelivered => [Redelivered]_vars
  OBVIOUS
<1> QED
  BY <1>1, FreshAlways, TypeAlways, PTL DEF Spec, AppliedAgainOnlyAfterDisruption

------------------------------------------------------------------------------
(* The consumer inside the order service *)

ConsumerTheorems == INSTANCE StatusConsumerProofs WITH
    Values <- StatusEvents, EmptyValues <- {}, MalformedValues <- {},
    MaxLength <- MaxLog

(* The order service gives the consumer's handler its effect, and nothing else touches    *)
(* the consumer: each step is one of StatusConsumer, or leaves it alone.                   *)
LEMMA ConsumerRefined ==
    ASSUME TypeInv, [Next]_vars
    PROVE  [ConsumerTheorems!Next]_(ConsumerTheorems!consumer)
<1> USE DEF ConsumerTheorems!Next, ConsumerTheorems!Step, ConsumerTheorems!consumer, ConsumerTheorems!history
<1>1. CASE UNCHANGED vars
  BY <1>1 DEF vars, consumer
<1>2. CASE Environment
  <2>1. ASSUME NEW u \in Users, NEW i \in 1..MaxChanges, EventPublished(u, i)
        PROVE  ConsumerTheorems!Next
    BY <2>1, PublishedEvent
       DEF EventPublished, Consumer!Produce, Consumer!history, ConsumerTheorems!Produce
  <2>2. ASSUME NEW u \in Users, NEW s \in UserStatuses, UserChanges(u, s)
        PROVE  UNCHANGED ConsumerTheorems!consumer
    BY <2>2 DEF UserChanges, consumer
  <2> QED
    BY <1>2, <2>1, <2>2 DEF Environment
<1>3. CASE Creates
  BY <1>3 DEF Creates, CreateValidates, CreateSaves, CreateFails, consumer
<1>4. CASE Updates
  BY <1>4 DEF Updates, PatchReads, PatchValidates, PatchSaves, PatchFails, consumer
<1>5. CASE HandlerReads
  BY <1>5 DEF HandlerReads, consumer
<1>6. CASE HandlerIgnores \/ HandlerSaves \/ HandlerFails
  BY <1>6 DEF HandlerIgnores, HandlerSaves, HandlerFails, Consumer!HandlerReturns, Consumer!HandlerThrows,
              Consumer!Current, ConsumerTheorems!HandlerReturns, ConsumerTheorems!HandlerThrows,
              ConsumerTheorems!Current
<1>7. CASE ConsumerStep
  BY <1>7 DEF ConsumerStep, Consumer!Connect, Consumer!Consume, Consumer!CommitOffset, Consumer!CommitThrows,
              Consumer!Current, Consumer!Fetched, Consumer!history,
              ConsumerTheorems!Connect, ConsumerTheorems!Consume, ConsumerTheorems!CommitOffset,
              ConsumerTheorems!CommitThrows, ConsumerTheorems!Current, ConsumerTheorems!Fetched
<1>8. CASE Rebalance \/ Restart
  BY <1>8 DEF Rebalance, Restart, Consumer!Rebalance, Consumer!Restart, Consumer!history,
              ConsumerTheorems!Rebalance, ConsumerTheorems!Restart
<1> QED
  BY <1>1, <1>2, <1>3, <1>4, <1>5, <1>6, <1>7, <1>8 DEF Next, ConsumerLoop

(* The order service implements StatusConsumer, so the group's offset is as there. *)
LEMMA CommittedAreSettled == Spec => []Consumer!CommittedWasSettled
<1>1. ConsumerTheorems!ValuesAssumption
  BY OrderAssumption DEF ConsumerTheorems!ValuesAssumption
<1>2. Init => ConsumerTheorems!Init
  BY DEF Init, Consumer!Init, ConsumerTheorems!Init
<1>3. TypeInv /\ [Next]_vars => [ConsumerTheorems!Next]_(ConsumerTheorems!consumer)
  BY ConsumerRefined
<1>4. Spec => ConsumerTheorems!Spec
  BY <1>2, <1>3, TypeAlways, PTL DEF Spec, ConsumerTheorems!Spec
<1>5. ConsumerTheorems!Spec => []ConsumerTheorems!CommittedWasSettled
  BY <1>1, ConsumerTheorems!NothingSkipped
<1>6. ConsumerTheorems!CommittedWasSettled => Consumer!CommittedWasSettled
  BY DEF ConsumerTheorems!CommittedWasSettled, Consumer!CommittedWasSettled, ConsumerTheorems!Settled,
         Consumer!Settled, ConsumerTheorems!Unparsable, Consumer!Unparsable
<1> QED
  BY <1>4, <1>5, <1>6, PTL

(* CommittedMeansCancelled: the group leaves no deactivation behind without its effect,     *)
(* but for one whose handler threw.                                                      *)
THEOREM CommittedIsComplete == Spec => []CommittedMeansCancelled
<1>1. HandledMeansCancelled /\ Consumer!CommittedWasSettled => CommittedMeansCancelled
  BY DEF HandledMeansCancelled, Consumer!CommittedWasSettled, Consumer!Settled, Consumer!Unparsable,
         CommittedMeansCancelled
<1> QED
  BY <1>1, HandledIsComplete, CommittedAreSettled, PTL

==============================================================================
