------------------------- MODULE OrderContractProofs --------------------------
(* OrderService implements OrderContract, for any orders, users, requests and bounds.   *)
EXTENDS OrderServiceProofs

------------------------------------------------------------------------------
(* Spare cancellations *)

SpareIn(es) == Count(es, PendingRows) - Count(es, CancelledRows)

(* The contract's spare is a function of the outbox rows of the order. *)
LEMMA SpareOfRows ==
    ASSUME NEW o \in Orders
    PROVE  /\ events[o] \in Seq(OrderEvent) => Pendings(o) - Cancellations(o) = SpareIn(events[o])
           /\ events'[o] \in Seq(OrderEvent) => (Pendings(o) - Cancellations(o))' = SpareIn(events'[o])
BY CountsOf DEF Pendings, Cancellations, IndicesOf, SpareIn, CancelledEvent

(* One more outbox row announces Pending, a cancellation, or neither. *)
LEMMA SpareAppend ==
    ASSUME NEW es \in Seq(OrderEvent), NEW e \in OrderEvent
    PROVE  /\ SpareIn(es) \in Int
           /\ e = CancelledEvent => SpareIn(Append(es, e)) = SpareIn(es) - 1
           /\ e # CancelledEvent => SpareIn(Append(es, e)) =
                                      IF e.status = "Pending" THEN SpareIn(es) + 1 ELSE SpareIn(es)
<1>1. /\ e \in CancelledRows <=> e = CancelledEvent
      /\ e \in PendingRows <=> e.status = "Pending"
      /\ e = CancelledEvent => e.status # "Pending"
  BY DEF CancelledRows, PendingRows, CancelledEvent
<1> QED
  BY <1>1, CountAppend DEF SpareIn

------------------------------------------------------------------------------
(* Steps *)

(* A message about a deactivation is the only thing that deactivates. *)
LEMMA DeactivatedStep ==
    ASSUME TypeInv, [Next]_vars
    PROVE  \/ Deactivated' = Deactivated
           \/ \E u \in Users : Deactivated' = Deactivated \cup {u} /\ UNCHANGED <<owner, status, events>>
<1>1. CASE topic' = topic
  BY <1>1 DEF Deactivated
<1>2. ASSUME NEW u \in Users, NEW i \in 1..MaxChanges, EventPublished(u, i)
      PROVE  \/ Deactivated' = Deactivated
             \/ Deactivated' = Deactivated \cup {u} /\ UNCHANGED <<owner, status, events>>
  <2> DEFINE v == [user |-> u, new |-> changes[u][i]]
  <2>1. v \in StatusEvents /\ topic' = Append(topic, v) /\ topic \in Seq(StatusEvents)
    BY <1>2, PublishedEvent DEF TypeInv, TypeOK, Consumer!TypeOK
  <2>2. v.user = u
    OBVIOUS
  <2> HIDE DEF v
  <2>3. /\ Len(topic) \in Nat /\ Len(topic') = Len(topic) + 1 /\ topic'[Len(topic) + 1] = v
        /\ \A n \in 1..Len(topic) : topic'[n] = topic[n]
    BY <2>1, AppendProperties, LenProperties
  <2>4. \A w \in Users : w \in Deactivated' <=> w \in Deactivated \/ v = [user |-> w, new |-> "Inactive"]
    BY <2>3 DEF Deactivated
  <2>5. \A w \in Users : v = [user |-> w, new |-> "Inactive"] => w = u
    BY <2>2
  <2>6. Deactivated \subseteq Users /\ Deactivated' \subseteq Users
    BY DEF Deactivated
  <2>7. UNCHANGED <<owner, status, events>>
    BY <1>2 DEF EventPublished, table
  <2> QED
    BY <2>4, <2>5, <2>6, <2>7
<1>3. topic' = topic \/ \E u \in Users, i \in 1..MaxChanges : EventPublished(u, i)
  BY ConsumerOnly
     DEF HandlerIgnores, HandlerSaves, HandlerFails, ConsumerStep, Rebalance, Restart,
         Consumer!HandlerReturns, Consumer!HandlerThrows, Consumer!Connect, Consumer!Consume,
         Consumer!CommitOffset, Consumer!CommitThrows, Consumer!Rebalance, Consumer!Restart
<1> QED
  BY <1>1, <1>2, <1>3

(* Orders that no step writes to are, in the contract, what they were. *)
LEMMA OrderUntouched ==
    ASSUME TypeInv, [Next]_vars, ~ Restart, NEW o \in Orders, status'[o] = status[o], events'[o] = events[o]
    PROVE  /\ OwnerOf(o)' = OwnerOf(o)
           /\ (Pendings(o) - Cancellations(o))' = Pendings(o) - Cancellations(o)
<1>1. OwnerOf(o)' = OwnerOf(o)
  BY OwnerStep DEF OwnerOf, Present
<1> QED
  BY <1>1 DEF Pendings, Cancellations, IndicesOf

(* Every step of requests, handler and restart is a step of the contract; the others,     *)
(* but for a deactivation that arrives, do not show.                                     *)
LEMMA ContractStep ==
    ASSUME TypeInv, TypeInv', SpareInv, CauseInv, [Next]_vars
    PROVE  [Contract!Next]_(Contract!vars)
<1> DEFINE own   == [o \in Orders |-> OwnerOf(o)]
<1> DEFINE spare == [o \in Orders |-> Pendings(o) - Cancellations(o)]
<1>t. /\ status \in [Orders -> OrderStatuses \cup {"Absent"}] /\ owner \in [Orders -> Users \cup {NoUser}]
      /\ \A o \in Orders : events[o] \in Seq(OrderEvent) /\ events'[o] \in Seq(OrderEvent)
      /\ events \in [Orders -> Seq(OrderEvent)]
  BY DEF TypeInv, TypeOK
<1>s. \A o \in Orders : spare[o] = SpareIn(events[o]) /\ spare'[o] = SpareIn(events'[o])
  BY <1>t, SpareOfRows
<1>1. ASSUME NEW p \in Orders, CreateSaves(p) PROVE Contract!Next
  <2> DEFINE e == [type |-> "created", status |-> "Pending"]
  <2>1. /\ cpcreate[p] = "valid" /\ UNCHANGED <<topic, owner>>
        /\ status' = [status EXCEPT ![p] = "Pending"]
        /\ events' = [events EXCEPT ![p] = Append(events[p], e)]
    BY <1>1 DEF CreateSaves, consumer
  <2>2. e \in OrderEvent /\ e # CancelledEvent /\ e.status = "Pending"
    BY DEF OrderEvent, OrderStatuses, CancelledEvent
  <2> HIDE DEF e
  <2>3. status[p] = "Absent" /\ owner[p] \in Users
    BY <1>t, <2>1 DEF TypeInv, TypeOK
  <2>4. spare'[p] = spare[p] + 1
    BY <1>s, <1>t, <2>1, <2>2, SpareAppend
  <2>5. \A o \in Orders \ {p} : own'[o] = own[o] /\ spare'[o] = spare[o]
    BY <1>t, <2>1, <1>1, OrderUntouched DEF CreateSaves, Restart
  <2>6. own'[p] = owner[p]
    BY <1>t, <2>1 DEF OwnerOf
  <2>7. Deactivated' = Deactivated
    BY <2>1 DEF Deactivated
  <2>8. own' = [own EXCEPT ![p] = owner[p]] /\ spare' = [spare EXCEPT ![p] = spare[p] + 1]
    BY <2>4, <2>5, <2>6
  <2>9. Contract!Create(p, owner[p])
    BY <2>1, <2>3, <2>7, <2>8 DEF Contract!Create
  <2> QED
    BY <2>3, <2>9 DEF Contract!Next
<1>2. ASSUME NEW r \in patches, PatchSaves(r) PROVE Contract!Next
  <2> DEFINE p == r.order
  <2> DEFINE e == [type |-> "changed", status |-> r.to]
  <2>1. /\ UNCHANGED <<topic, owner>>
        /\ status' = [status EXCEPT ![p] = r.to]
        /\ events' = [events EXCEPT ![p] = Append(events[p], e)]
    BY <1>2 DEF PatchSaves, consumer
  <2>2. /\ p \in Orders /\ status[p] # "Absent" /\ r.to \in OrderStatuses
        /\ e \in OrderEvent /\ e # CancelledEvent /\ e.status = r.to
    BY DEF TypeInv, TypeOK, PatchRequests, Present, OrderEvent, CancelledEvent
  <2> HIDE DEF e, p
  <2>3. ~ Restart
    BY <1>t, <2>1, <2>2 DEF Restart, OrderStatuses
  <2>4. spare'[p] = IF r.to = "Pending" THEN spare[p] + 1 ELSE spare[p]
    BY <1>s, <1>t, <2>1, <2>2, SpareAppend
  <2>5. \A o \in Orders \ {p} : own'[o] = own[o] /\ spare'[o] = spare[o]
    BY <1>t, <2>1, <2>3, OrderUntouched
  <2>6. own'[p] = own[p]
    BY <1>t, <2>1, <2>2 DEF OwnerOf, OrderStatuses
  <2>7. Deactivated' = Deactivated
    BY <2>1 DEF Deactivated
  <2>8. /\ own' = own
        /\ spare' = [spare EXCEPT ![p] = IF r.to = "Pending" THEN spare[p] + 1 ELSE spare[p]]
    BY <2>2, <2>4, <2>5, <2>6
  <2>9. Contract!Change(p, r.to)
    BY <2>1, <2>2, <2>7, <2>8 DEF Contract!Change
  <2> QED
    BY <2>2, <2>9 DEF Contract!Next, Contract!Statuses, OrderStatuses
<1>3. CASE HandlerSaves
  <2>1. /\ UNCHANGED <<topic, owner>> /\ batch # {}
        /\ status' = [o \in Orders |-> IF o \in batch THEN "Cancelled" ELSE status[o]]
        /\ \A o \in Orders : events'[o] = IF o \in batch THEN Append(events[o], CancelledEvent) ELSE events[o]
    BY <1>3 DEF HandlerSaves, Consumer!HandlerReturns, CancelledEvent
  <2>2. batch \subseteq Present /\ Present \subseteq Orders
    BY DEF TypeInv, TypeOK, Present
  <2>3. PICK p : p \in batch
    BY <2>1
  <2>4. \A o \in batch : topic[position - 1 + 1] = [user |-> owner[o], new |-> "Inactive"]
    BY DEF CauseInv, Deactivates
  <2>5. /\ position - 1 + 1 \in 1..Len(topic)
        /\ topic[position - 1 + 1] \in StatusEvents
    <3>1. position > 0 /\ position \in 0..Len(topic) /\ topic \in Seq(StatusEvents) /\ Len(topic) \in Nat
      BY <2>1, LenProperties DEF TypeInv, TypeOK, Consumer!TypeOK
    <3> QED
      BY <3>1, ElementOfSeq
  <2> DEFINE v == topic[position - 1 + 1]
  <2>e. v \in StatusEvents /\ \A o \in batch : v = [user |-> owner[o], new |-> "Inactive"]
    BY <2>4, <2>5
  <2> HIDE DEF v
  <2>f. v.user \in Users /\ \A o \in batch : owner[o] = v.user
    BY <2>e DEF StatusEvents
  <2>6. PICK u \in Users : u = v.user
    BY <2>f
  <2>8. \A o \in batch : owner[o] = u
    BY <2>f, <2>6
  <2>7. u \in Deactivated
    BY <2>3, <2>4, <2>5, <2>8 DEF Deactivated
  <2>9. \A o \in batch : own[o] = u /\ own'[o] = u
    BY <2>1, <2>2, <2>8 DEF OwnerOf, Present
  <2>10. CancelledEvent \in OrderEvent
    BY DEF OrderEvent, OrderStatuses, CancelledEvent
  <2>11. \A o \in batch : spare[o] > 0 /\ spare'[o] = spare[o] - 1
    <3>1. \A o \in batch : SpareIn(events[o]) > 0
      BY <1>t, <2>2, <2>10, CountAppend DEF SpareInv, SpareOf, SpareIn
    <3> QED
      BY <1>s, <1>t, <2>1, <2>2, <2>10, <3>1, SpareAppend
  <2>12. ~ Restart
    BY <2>1, <2>2, <2>3 DEF Restart
  <2>13. \A o \in Orders \ batch : own'[o] = own[o] /\ spare'[o] = spare[o]
    BY <2>1, <2>12, OrderUntouched
  <2>14. Deactivated' = Deactivated
    BY <2>1 DEF Deactivated
  <2>15. own' = own /\ spare' = [o \in Orders |-> IF o \in batch THEN spare[o] - 1 ELSE spare[o]]
    BY <2>2, <2>9, <2>11, <2>13
  <2>16. Contract!CancelAll(batch, u)
    BY <2>1, <2>2, <2>7, <2>9, <2>11, <2>14, <2>15 DEF Contract!CancelAll
  <2> QED
    BY <2>2, <2>16 DEF Contract!Next
<1>4. CASE Restart
  <2>1. /\ topic' = topic /\ status' = [o \in Orders |-> "Absent"]
        /\ \A o \in Orders : events'[o] = <<>>
    BY <1>4 DEF Restart, Consumer!Restart
  <2>2. own' = [o \in Orders |-> NoUser]
    BY <2>1 DEF OwnerOf
  <2>3. SpareIn(<<>>) = 0
    BY CountEmpty DEF SpareIn
  <2>4. spare' = [o \in Orders |-> 0]
    BY <1>s, <2>1, <2>3
  <2>5. Deactivated' = Deactivated
    BY <2>1 DEF Deactivated
  <2>6. Contract!Lose
    BY <2>1, <2>2, <2>4, <2>5 DEF Contract!Lose
  <2> QED
    BY <2>6 DEF Contract!Next
<1>5. CASE UNCHANGED <<status, events>> /\ ~ Restart
  <2>1. own' = own /\ spare' = spare /\ status' = status
    BY <1>5, OrderUntouched
  <2>2. ASSUME NEW u \in Users, Deactivated' = Deactivated \cup {u} PROVE Contract!Next
    <3>1. Contract!Deactivate(u)
      BY <2>1, <2>2 DEF Contract!Deactivate
    <3> QED
      BY <3>1 DEF Contract!Next
  <2>3. CASE Deactivated' = Deactivated
    BY <2>1, <2>3 DEF Contract!vars
  <2> QED
    BY <2>2, <2>3, DeactivatedStep
<1> QED
  BY <1>1, <1>2, <1>3, <1>4, <1>5, Writers

(* OrderService implements OrderContract: the outbox rows that other services read tell    *)
(* of every change of an order, one by one, and of no cancellation that is not due.       *)
THEOREM OrdersImplementContract == Spec => ImplementsContract
<1>1. Init => Contract!Init
  <2> SUFFICES ASSUME Init PROVE Contract!Init
    OBVIOUS
  <2>1. \A o \in Orders : events[o] = <<>> /\ events[o] \in Seq(OrderEvent) /\ OwnerOf(o) = NoUser
    BY DEF Init, OwnerOf
  <2>2. SpareIn(<<>>) = 0
    BY CountEmpty DEF SpareIn
  <2>3. \A o \in Orders : Pendings(o) - Cancellations(o) = 0
    BY <2>1, <2>2, SpareOfRows
  <2>4. Deactivated = {}
    BY DEF Init, Consumer!Init, Deactivated
  <2> QED
    BY <2>1, <2>3, <2>4 DEF Init, Contract!Init
<1>2. TypeInv /\ TypeInv' /\ SpareInv /\ CauseInv /\ [Next]_vars => [Contract!Next]_(Contract!vars)
  BY ContractStep
<1> QED
  BY <1>1, <1>2, TypeAlways, SpareAlways, CauseAlways, PTL DEF Spec, ImplementsContract, Contract!Spec
===============================================================================
