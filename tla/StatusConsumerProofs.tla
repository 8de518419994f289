------------------------- MODULE StatusConsumerProofs -------------------------
(* The consumer's offsets, for topics of any length, any values and any number of  *)
(* restarts and rebalances.                                                       *)
EXTENDS StatusConsumer, TLAPS

(* A message is being handled or committed only after one was read. *)
TypeInv == TypeOK /\ (cpc \in {"handle", "commit"} => position > 0)

(* TypeInv is inductive: TypeOK alone is not, the handler step needs an offset. *)
LEMMA TypeStep == TypeInv /\ [Next]_consumer => TypeInv'
  <1> SUFFICES ASSUME TypeInv, [Next]_consumer
               PROVE  TypeInv'
    OBVIOUS
  <1> USE DEF TypeInv, TypeOK
  <1>1. ASSUME NEW v \in Values, Produce(v)
        PROVE  TypeInv'
    BY <1>1 DEF Produce, history
  <1>2. CASE Connect
    BY <1>2 DEF Connect, history
  <1>3. CASE Consume
    <2>1. position \in Nat /\ position' = position + 1 /\ position' \in 0..Len(topic)
      BY <1>3 DEF Consume
    <2>2. cpc' \in {"poll", "handle", "commit"}
      BY <1>3 DEF Consume
    <2>3. handled' \in SUBSET Nat
      BY <1>3, <2>1 DEF Consume
    <2> QED
      BY <1>3, <2>1, <2>2, <2>3 DEF Consume
  <1>4. CASE HandlerReturns
    <2>1. Current \in Nat
      BY <1>4 DEF HandlerReturns, Current
    <2> QED
      BY <1>4, <2>1 DEF HandlerReturns
  <1>5. CASE HandlerThrows
    <2>1. Current \in Nat
      BY <1>5 DEF HandlerThrows, Current
    <2> QED
      BY <1>5, <2>1 DEF HandlerThrows
  <1>6. CASE CommitOffset
    <2>1. committed' = position
      BY <1>6 DEF CommitOffset, Current
    <2> QED
      BY <1>6, <2>1 DEF CommitOffset, history
  <1>7. CASE CommitThrows
    BY <1>7 DEF CommitThrows, history
  <1>8. CASE Rebalance
    BY <1>8 DEF Rebalance, history
  <1>9. CASE Restart
    BY <1>9 DEF Restart, history
  <1>10. CASE UNCHANGED consumer
    BY <1>10 DEF consumer, history
  <1> QED
    BY <1>1, <1>2, <1>3, <1>4, <1>5, <1>6, <1>7, <1>8, <1>9, <1>10 DEF Next, Step

(* TypeInv holds in every behaviour. *)
LEMMA TypeInvariant == Spec => []TypeInv
<1>1. Init => TypeInv
  BY DEF Init, TypeInv, TypeOK
<1> QED
  BY <1>1, TypeStep, PTL DEF Spec

(* Type correctness: committed offset and position never leave the log. *)
THEOREM TypeCorrect == Spec => []TypeOK
<1>1. TypeInv => TypeOK
  BY DEF TypeInv
<1> QED
  BY <1>1, TypeInvariant, PTL

(* What a connected consumer has read is settled, but for the message its handler   *)
(* is at; the committed offset never passes the position.                          *)
OffsetInv ==
    /\ committed <= position
    /\ CommittedWasSettled
    /\ cpc # "down" =>
         \A n \in 0..(position - 1) : Settled(n) \/ (cpc = "handle" /\ n = position - 1)

(* Settled is for good: handled and failed only grow, the log keeps its messages. *)
LEMMA SettledStep ==
    ASSUME TypeInv, [Next]_consumer, NEW n \in Nat, Settled(n)
    PROVE  Settled(n)'
<1> USE DEF TypeInv, TypeOK
<1>1. handled \subseteq handled' /\ failed \subseteq failed'
  BY DEF Next, Step, Produce, Connect, Consume, HandlerReturns, HandlerThrows,
         CommitOffset, CommitThrows, Rebalance, Restart, history, consumer
<1>2. Unparsable \subseteq Unparsable'
  <2>1. topic' = topic \/ \E v \in Values : topic' = Append(topic, v)
    BY DEF Next, Step, Produce, Connect, Consume, HandlerReturns, HandlerThrows,
           CommitOffset, CommitThrows, Rebalance, Restart, history, consumer
  <2>2. ASSUME NEW v \in Values, topic' = Append(topic, v), NEW m \in Unparsable
        PROVE  m \in Unparsable'
    <3>1. m \in 0..(Len(topic) - 1) /\ topic[m + 1] \in MalformedValues
      BY DEF Unparsable
    <3>2. Len(topic') = Len(topic) + 1 /\ topic'[m + 1] = topic[m + 1]
      BY <2>2, <3>1
    <3> QED
      BY <3>1, <3>2 DEF Unparsable
  <2> QED
    BY <2>1, <2>2 DEF Unparsable
<1> QED
  BY <1>1, <1>2 DEF Settled

(* OffsetInv is inductive. *)
LEMMA OffsetStep == TypeInv /\ OffsetInv /\ [Next]_consumer => OffsetInv'
  <1> SUFFICES ASSUME TypeInv, OffsetInv, [Next]_consumer
               PROVE  OffsetInv'
    OBVIOUS
  <1> USE DEF TypeInv, TypeOK
  <1>0. \A n \in Nat : Settled(n) => Settled(n)'
    BY SettledStep
  <1>a. /\ committed \in Nat /\ position \in Nat /\ committed <= position
        /\ \A n \in 0..(committed - 1) : Settled(n)
    BY DEF OffsetInv, CommittedWasSettled
  <1>b. cpc # "down" =>
          \A n \in 0..(position - 1) : Settled(n) \/ (cpc = "handle" /\ n = position - 1)
    BY DEF OffsetInv
  <1>c. ASSUME committed' = committed
        PROVE  CommittedWasSettled'
    BY <1>c, <1>0, <1>a DEF CommittedWasSettled
  <1>1. ASSUME NEW v \in Values, Produce(v)
        PROVE  OffsetInv'
    BY <1>1, <1>0, <1>a, <1>b, <1>c DEF Produce, history, OffsetInv
  <1>2. CASE Connect
    BY <1>2, <1>0, <1>a, <1>c DEF Connect, history, OffsetInv
  <1>3. CASE Consume
    <2>1. /\ cpc = "poll" /\ position' = position + 1 /\ committed' = committed
          /\ position \in 0..(Len(topic) - 1) /\ topic' = topic
      BY <1>3 DEF Consume
    <2>2. cpc' = "handle" \/ Settled(position - 1)'     \* the message just read
      <3>1. CASE topic[position + 1] \in EmptyValues
        BY <1>3, <2>1, <3>1, position' - 1 = position DEF Consume, Fetched, Settled
      <3>2. CASE topic[position + 1] \notin EmptyValues /\ topic[position + 1] \in MalformedValues
        BY <2>1, <3>2, position' - 1 = position DEF Settled, Unparsable
      <3>3. CASE topic[position + 1] \notin EmptyValues /\ topic[position + 1] \notin MalformedValues
        BY <1>3, <3>3 DEF Consume, Fetched
      <3> QED
        BY <3>1, <3>2, <3>3
    <2>3. \A n \in 0..(position' - 1) : n \in 0..(position - 1) \/ n = position' - 1
      BY <2>1
    <2>4. \A n \in 0..(position' - 1) : Settled(n)' \/ (cpc' = "handle" /\ n = position' - 1)
      BY <2>1, <2>2, <2>3, <1>0, <1>b
    <2> QED
      BY <2>1, <2>4, <1>a, <1>c DEF OffsetInv
  <1>4. CASE HandlerReturns
    <2>1. Settled(position - 1)'
      BY <1>4 DEF HandlerReturns, Current, Settled
    <2> QED
      BY <1>4, <2>1, <1>0, <1>a, <1>b, <1>c DEF HandlerReturns, OffsetInv
  <1>5. CASE HandlerThrows
    <2>1. Settled(position - 1)'
      BY <1>5 DEF HandlerThrows, Current, Settled
    <2> QED
      BY <1>5, <2>1, <1>0, <1>a, <1>b, <1>c DEF HandlerThrows, OffsetInv
  <1>6. CASE CommitOffset
    <2>1. committed' = position /\ position' = position /\ cpc = "commit" /\ cpc' = "poll"
      BY <1>6 DEF CommitOffset, Current
    <2>2. \A n \in 0..(position - 1) : Settled(n)'
      BY <2>1, <1>0, <1>b
    <2> QED
      BY <2>1, <2>2 DEF OffsetInv, CommittedWasSettled
  <1>7. CASE CommitThrows
    BY <1>7, <1>0, <1>a, <1>b, <1>c DEF CommitThrows, history, OffsetInv
  <1>8. CASE Rebalance
    BY <1>8, <1>0, <1>a, <1>c DEF Rebalance, history, OffsetInv
  <1>9. CASE Restart
    BY <1>9, <1>a, <1>c DEF Restart, history, OffsetInv
  <1>10. CASE UNCHANGED consumer
    BY <1>10, <1>0, <1>a, <1>b, <1>c DEF consumer, history, OffsetInv
  <1> QED
    BY <1>1, <1>2, <1>3, <1>4, <1>5, <1>6, <1>7, <1>8, <1>9, <1>10 DEF Next, Step

(* OffsetInv holds in every behaviour. *)
LEMMA OffsetInvariant == Spec => []OffsetInv
<1>1. Init => OffsetInv
  BY DEF Init, OffsetInv, CommittedWasSettled
<1> QED
  BY <1>1, TypeInvariant, OffsetStep, PTL DEF Spec

(* The group never commits past a message that was not offered to the handler,      *)
(* whatever restarts, rebalances, failed handlers and failed commits do.           *)
THEOREM NothingSkipped == Spec => []CommittedWasSettled
<1>1. OffsetInv => CommittedWasSettled
  BY DEF OffsetInv
<1> QED
  BY <1>1, OffsetInvariant, PTL

(* No commit, late or repeated, moves the group back. *)
THEOREM CommitMonotone == Spec => CommitNeverRegresses
<1>1. TypeInv /\ OffsetInv /\ [Next]_consumer => [committed' >= committed]_consumer
  <2> SUFFICES ASSUME TypeInv, OffsetInv, [Next]_consumer
               PROVE  committed' >= committed
    OBVIOUS
  <2>1. committed \in Nat /\ position \in Nat /\ committed <= position
    BY DEF TypeInv, TypeOK, OffsetInv
  <2>2. committed' = committed \/ committed' = position
    BY <2>1 DEF Next, Step, Produce, Connect, Consume, HandlerReturns, HandlerThrows,
       CommitOffset, CommitThrows, Rebalance, Restart, history, consumer, Current
  <2> QED
    BY <2>1, <2>2
<1> QED
  BY <1>1, TypeInvariant, OffsetInvariant, PTL DEF Spec, CommitNeverRegresses

(* An unparsable message is one when it is produced, and stays one. *)
LEMMA UnparsableProduce ==
    ASSUME TypeInv, NEW v \in Values, Produce(v)
    PROVE  /\ Len(topic') = Len(topic) + 1
           /\ \E lost \in {{}, {Len(topic)}} : Unparsable' = Unparsable \cup lost
<1>1. /\ topic \in Seq(Values) /\ Len(topic) \in Nat /\ topic' = Append(topic, v)
  BY DEF TypeInv, TypeOK, Produce
<1>2. /\ Len(topic') = Len(topic) + 1
      /\ topic'[Len(topic) + 1] = v
      /\ \A n \in 0..(Len(topic) - 1) : topic'[n + 1] = topic[n + 1]
  BY <1>1
<1>3. \A n : n \in Unparsable' <=>
         n \in Unparsable \/ (n = Len(topic) /\ v \in MalformedValues)
  BY <1>1, <1>2 DEF Unparsable
<1>4. CASE v \in MalformedValues
  BY <1>2, <1>3, <1>4
<1>5. CASE v \notin MalformedValues
  BY <1>2, <1>3, <1>5
<1> QED
  BY <1>4, <1>5

(* A message is settled only when all before it are: the one the loop holds is the only   *)
(* one below the position that may not be.                                            *)
LEMMA QueueStep == TypeInv /\ OffsetInv /\ [Next]_consumer =>
    [Queue!Next]_<<Len(topic), Unparsable, handled \cup failed, committed>>
<1> SUFFICES ASSUME TypeInv, OffsetInv, [Next]_consumer
             PROVE  \/ Queue!Next
                    \/ UNCHANGED <<Len(topic), Unparsable, handled \cup failed, committed>>
  OBVIOUS
<1>t. /\ position \in 0..Len(topic) /\ Len(topic) \in Nat /\ committed \in 0..Len(topic)
      /\ committed <= position
      /\ cpc \in {"handle", "commit"} => position > 0
      /\ \A n : Queue!Settled(n) <=> Settled(n)
  BY DEF TypeInv, TypeOK, OffsetInv, Queue!Settled, Settled
<1>o. cpc # "down" => \A n \in 0..(position - 1) : Settled(n) \/ (cpc = "handle" /\ n = position - 1)
  BY DEF OffsetInv
<1>e. topic' = topic => Len(topic') = Len(topic) /\ Unparsable' = Unparsable
  BY DEF Unparsable
<1>1. ASSUME NEW v \in Values, Produce(v) PROVE Queue!Next
  <2>1. PICK lost \in {{}, {Len(topic)}} : Unparsable' = Unparsable \cup lost
    BY <1>1, UnparsableProduce
  <2>2. Queue!Produce(lost)
    BY <1>1, <2>1, UnparsableProduce DEF Produce, history, Queue!Produce
  <2> QED
    BY <2>1, <2>2 DEF Queue!Next
<1>2. ASSUME NEW n \in 0..(Len(topic) - 1), topic' = topic, committed' = committed,
             (handled \cup failed)' = (handled \cup failed) \cup {n},
             \A m \in 0..(n - 1) : Settled(m)
      PROVE  Queue!Next
  <2>1. Queue!Offer(n)
    BY <1>t, <1>e, <1>2 DEF Queue!Offer
  <2> QED
    BY <1>t, <2>1 DEF Queue!Next
<1>3. CASE Consume
  <2>1. /\ position < Len(topic) /\ topic' = topic /\ committed' = committed /\ failed' = failed
        /\ cpc = "poll"
        /\ handled' = handled \cup {position} \/ handled' = handled
    BY <1>3 DEF Consume
  <2>2. CASE handled' = handled
    BY <1>e, <2>1, <2>2
  <2>3. CASE handled' = handled \cup {position}
    <3>1. \A m \in 0..(position - 1) : Settled(m)
      BY <1>o, <2>1
    <3>2. position \in 0..(Len(topic) - 1)
      BY <1>t, <2>1
    <3> QED
      BY <1>2, <2>1, <2>3, <3>1, <3>2
  <2> QED
    BY <2>1, <2>2, <2>3
<1>4. CASE HandlerReturns \/ HandlerThrows
  <2>1. /\ cpc = "handle" /\ topic' = topic /\ committed' = committed
        /\ (handled \cup failed)' = (handled \cup failed) \cup {position - 1}
    BY <1>4 DEF HandlerReturns, HandlerThrows, Current
  <2>2. position - 1 \in 0..(Len(topic) - 1) /\ \A m \in 0..(position - 1 - 1) : Settled(m)
    BY <1>t, <1>o, <2>1
  <2> QED
    BY <1>2, <2>1, <2>2
<1>5. CASE CommitOffset
  <2>1. /\ cpc = "commit" /\ topic' = topic /\ committed' = position
        /\ (handled \cup failed)' = handled \cup failed
    BY <1>t, <1>5 DEF CommitOffset, Current, history
  <2>2. Queue!Acknowledge(position)
    BY <1>t, <1>o, <1>e, <2>1 DEF Queue!Acknowledge
  <2> QED
    BY <1>t, <2>2 DEF Queue!Next
<1>6. CASE Connect \/ CommitThrows \/ Rebalance \/ Restart \/ UNCHANGED consumer
  <2>1. UNCHANGED <<topic, committed, handled, failed>>
    BY <1>6 DEF Connect, CommitThrows, Rebalance, Restart, consumer, history
  <2> QED
    BY <1>e, <2>1
<1> QED
  BY <1>1, <1>3, <1>4, <1>5, <1>6 DEF Next, Step

(* ImplementsContract: at least once, and in order, for logs of any length and any number  *)
(* of restarts, rebalances, failed commits and handlers that throw.                       *)
THEOREM ConsumerImplementsContract == Spec => ImplementsContract
<1>1. Init => Queue!Init
  <2>1. topic = <<>> => Len(topic) = 0 /\ Unparsable = {}
    BY DEF Unparsable
  <2> QED
    BY <2>1 DEF Init, Queue!Init
<1> QED
  BY <1>1, QueueStep, TypeInvariant, OffsetInvariant, PTL
     DEF Spec, ImplementsContract, Queue!Spec, Queue!vars
==============================================================================
