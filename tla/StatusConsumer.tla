---------------------------- MODULE StatusConsumer ----------------------------
(* UserStatusConsumerService: the Kafka consumer of OrderService, one partition,   *)
(* auto-commit off.  The handler is a step that returns or throws; OrderService    *)
(* gives it its effect.  The broker is external: topic is the partition's log,     *)
(* committed the group's committed offset, which survives restarts.                *)
(* Offsets count from 0; the message at offset n is topic[n + 1].                  *)
EXTENDS Naturals, Sequences

CONSTANTS
    Values,            \* message values
    EmptyValues,       \* ... that are null, empty or the JSON null
    MalformedValues,   \* ... on which JsonSerializer.Deserialize throws
    MaxLength,         \* bound: messages ever produced
    MaxDisruptions     \* bound: restarts and rebalances

ASSUME ValuesAssumption ==
    /\ EmptyValues \subseteq Values
    /\ MalformedValues \subseteq Values
    /\ EmptyValues \cap MalformedValues = {}
    /\ MaxLength \in Nat
    /\ MaxDisruptions \in Nat

VARIABLES
    topic,        \* the partition's log
    committed,    \* committed offset: the next one to consume after a restart
    position,     \* next offset Consume returns
    cpc,          \* "down", "poll", "handle" or "commit"
    disruptions,  \* restarts and rebalances so far
    handled,      \* history: offsets whose processing completed
    failed        \* history: offsets whose handler threw

history  == <<handled, failed>>
consumer == <<topic, committed, position, cpc, disruptions, history>>

Init ==
    /\ topic = <<>>
    /\ committed = 0
    /\ position = 0
    /\ cpc = "down"
    /\ disruptions = 0
    /\ handled = {}
    /\ failed = {}

(* A publisher appends a message. *)
Produce(v) ==
    /\ Len(topic) < MaxLength
    /\ topic' = Append(topic, v)
    /\ UNCHANGED <<committed, position, cpc, disruptions, history>>

(* Mutants: every connection starts at the first message, or at the newest. *)
ConnectAtFirst ==
    /\ cpc = "down"
    /\ position' = 0
    /\ cpc' = "poll"
    /\ UNCHANGED <<topic, committed, disruptions, history>>

ConnectAtLatest ==
    /\ cpc = "down"
    /\ position' = Len(topic)
    /\ cpc' = "poll"
    /\ UNCHANGED <<topic, committed, disruptions, history>>

(* StartAsync, or the retry loop of ExecuteAsync, builds the consumer and          *)
(* subscribes; AutoOffsetReset.Earliest starts at 0 when nothing is committed.     *)
Connect ==
    /\ cpc = "down"
    /\ position' = committed
    /\ cpc' = "poll"
    /\ UNCHANGED <<topic, committed, disruptions, history>>

Current == position - 1
Fetched == topic[position + 1]

(* Mutant: EnableAutoCommit: the offset is committed when the message is fetched. *)
ConsumeAutoCommits ==
    /\ cpc = "poll"
    /\ position < Len(topic)
    /\ position' = position + 1
    /\ committed' = position + 1
    /\ cpc' = IF Fetched \in EmptyValues THEN "commit"
              ELSE IF Fetched \in MalformedValues THEN "poll" ELSE "handle"
    /\ handled' = IF Fetched \in EmptyValues THEN handled \cup {position} ELSE handled
    /\ UNCHANGED <<topic, disruptions, failed>>

(* Consume returns the next message and moves the position past it: an empty one   *)
(* is committed at once, a malformed one ends in the catch block, without commit   *)
(* and without seek, and an event goes to the handler.                             *)
Consume ==
    /\ cpc = "poll"
    /\ position < Len(topic)
    /\ position' = position + 1
    /\ cpc' = IF Fetched \in EmptyValues THEN "commit"
              ELSE IF Fetched \in MalformedValues THEN "poll" ELSE "handle"
    /\ handled' = IF Fetched \in EmptyValues THEN handled \cup {position} ELSE handled
    /\ UNCHANGED <<topic, committed, disruptions, failed>>

HandlerReturns ==
    /\ cpc = "handle"
    /\ handled' = handled \cup {Current}
    /\ cpc' = "commit"
    /\ UNCHANGED <<topic, committed, position, disruptions, failed>>

(* The catch block logs and waits; the position is already past the message. *)
HandlerThrows ==
    /\ cpc = "handle"
    /\ cpc' = "poll"
    /\ failed' = failed \cup {Current}
    /\ UNCHANGED <<topic, committed, position, disruptions, handled>>

(* Mutant: an offset too far. *)
CommitOffsetPlusOne ==
    /\ cpc = "commit"
    /\ committed' = Current + 2
    /\ cpc' = "poll"
    /\ UNCHANGED <<topic, position, disruptions, history>>

CommitOffset ==
    /\ cpc = "commit"
    /\ committed' = Current + 1
    /\ cpc' = "poll"
    /\ UNCHANGED <<topic, position, disruptions, history>>

(* Mutant: the catch block returns to the message whose commit failed. *)
CommitThrowsSeeksBack ==
    /\ cpc = "commit"
    /\ cpc' = "poll"
    /\ position' = Current
    /\ UNCHANGED <<topic, committed, disruptions, history>>

CommitThrows ==
    /\ cpc = "commit"
    /\ cpc' = "poll"
    /\ UNCHANGED <<topic, committed, position, disruptions, history>>

(* The group coordinator reassigns the partition: the consumer resumes from the    *)
(* committed offset, the process keeps running.                                    *)
Rebalance ==
    /\ cpc = "poll"
    /\ disruptions < MaxDisruptions
    /\ position' = committed
    /\ disruptions' = disruptions + 1
    /\ UNCHANGED <<topic, committed, cpc, history>>

(* The process stops or crashes, at any point, and starts again. *)
Restart ==
    /\ disruptions < MaxDisruptions
    /\ cpc' = "down"
    /\ disruptions' = disruptions + 1
    /\ UNCHANGED <<topic, committed, position, history>>

Step ==
    Connect \/ Consume \/ HandlerReturns \/ HandlerThrows \/ CommitOffset \/ CommitThrows

Next == (\E v \in Values : Produce(v)) \/ Step \/ Rebalance \/ Restart

Spec == Init /\ [][Next]_consumer

(* The consume loop is a hosted service of a running process and the broker is      *)
(* eventually reachable; an await on the handler or on Commit eventually returns.   *)
FairSpec == Spec /\ WF_consumer(Step)

------------------------------------------------------------------------------
(* Properties *)

(* Every variable has its type; the committed offset is an offset of the log. *)
TypeOK ==
    /\ topic \in Seq(Values)
    /\ committed \in 0..Len(topic)
    /\ position \in 0..Len(topic)
    /\ cpc \in {"down", "poll", "handle", "commit"}
    /\ disruptions \in Nat
    /\ handled \in SUBSET Nat
    /\ failed \in SUBSET Nat

Unparsable == {n \in 0..(Len(topic) - 1) : topic[n + 1] \in MalformedValues}

(* Processing of the message at offset n is over. *)
Settled(n) == n \in handled \cup failed \cup Unparsable

(* At-least-once: whatever restarts, rebalances and failed commits do, the group    *)
(* never commits past a message that was not offered to the handler; only one whose *)
(* handler threw, or that cannot be parsed, is passed over unhandled.              *)
CommittedWasSettled == \A n \in 0..(committed - 1) : Settled(n)

(* A late commit never moves the group back over messages it already passed. *)
CommitNeverRegresses == [][committed' >= committed]_consumer

Queue == INSTANCE QueueContract WITH
    length <- Len(topic), unusable <- Unparsable, offered <- handled \cup failed,
    acknowledged <- committed

(* The messages are settled in the order of the log, each at least once, although a     *)
(* throwing handler's message is passed over and the group resumes where it committed.   *)
ImplementsContract == Queue!Spec

(* No message is stuck: each one is eventually handled, or fails for good. *)
EveryMessageSettles == \A n \in 0..(MaxLength - 1) : n < Len(topic) ~> Settled(n)

==============================================================================
