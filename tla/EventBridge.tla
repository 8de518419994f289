------------------------------ MODULE EventBridge ------------------------------
(* KafkaConsumerService, the hosted service of EventBridge: it waits for its topics, *)
(* consumes them with auto-commit and broadcasts each message to the SignalR hub.    *)
(*                                                                                  *)
(* The broker is external.  Each topic has one partition (NumPartitions = 1); a       *)
(* message is identified by its topic and offset, offsets count from 0.               *)
(*                                                                                  *)
(* The process is part of the model: on .NET 8 a BackgroundService runs ExecuteAsync  *)
(* inside StartAsync up to its first incomplete await, and the web server, the last   *)
(* hosted service, starts after that (yielded, serving).  A host that stops ends its   *)
(* services in the reverse order: the web server first, then this one (stopping).      *)
EXTENDS Naturals

CONSTANTS
    Topics,        \* the configured topics
    Blank,         \* messages whose value is null, empty or white space
    NoMessage,     \* "the loop holds no message"
    MaxMessages,   \* bound: messages on a topic
    MaxStops       \* bound: process ends and rebalances

Messages == Topics \X (0..(MaxMessages - 1))

VARIABLES
    existing,    \* external: topics that exist
    logged,      \* external: topic -> number of messages
    committed,   \* external: topic -> the group's committed offset
    assigned,    \* topics whose partition this consumer was assigned
    position,    \* topic -> next offset Consume returns; its predecessor is stored
    bpc,         \* "down", "wait" (for topics), "poll" or "send"
    pending,     \* the message being broadcast
    yielded,     \* has ExecuteAsync met an incomplete await?
    serving,     \* does the web server, with the hub, run?
    stopping,    \* has the host stopped the web server, and not yet this service?
    stops,       \* process ends and rebalances so far

    attempts,    \* history: message -> broadcasts attempted
    rewinds      \* history: process ends and rebalances without a commit

broker  == <<existing, logged, committed>>
host    == <<yielded, serving, stopping>>
history == <<attempts, rewinds>>
bridge  == <<broker, assigned, position, bpc, pending, host, stops, history>>

Init ==
    /\ existing = {}
    /\ logged = [t \in Topics |-> 0]
    /\ committed = [t \in Topics |-> 0]
    /\ assigned = {}
    /\ position = [t \in Topics |-> 0]
    /\ bpc = "down"
    /\ pending = NoMessage
    /\ yielded = FALSE
    /\ serving = FALSE
    /\ stopping = FALSE
    /\ stops = 0
    /\ attempts = [m \in Messages |-> 0]
    /\ rewinds = 0

(* The outbox publishers; the broker creates a topic on first use. *)
Produce(t) ==
    /\ logged[t] < MaxMessages
    /\ existing' = existing \cup {t}
    /\ logged' = [logged EXCEPT ![t] = @ + 1]
    /\ UNCHANGED <<committed, assigned, position, bpc, pending, host, stops, history>>

------------------------------------------------------------------------------
(* Start-up, and the wait for the topics. *)

(* The configuration is complete (appsettings.json), so that the consumer subscribes;   *)
(* with an empty one ExecuteAsync would go on without a subscription.                    *)
Start ==
    /\ bpc = "down"
    /\ bpc' = "wait"
    /\ UNCHANGED <<broker, assigned, position, pending, host, stops, history>>

TopicsAvailable ==
    /\ bpc = "wait"
    /\ Topics \subseteq existing
    /\ bpc' = "poll"
    /\ UNCHANGED <<broker, assigned, position, pending, host, stops, history>>

(* No metadata, or topics are missing: create what can be created, wait 2 s. *)
WaitAgain ==
    /\ bpc = "wait"
    /\ \E created \in SUBSET Topics : existing' = existing \cup created
    /\ yielded' = TRUE
    /\ UNCHANGED <<logged, committed, assigned, position, bpc, pending, serving, stopping, stops, history>>

(* 60 s are over, topics are missing or the broker does not answer: consume.  One      *)
(* attempt can take that long, CreateTopicsAsync waits for its result synchronously.    *)
WaitTimesOut ==
    /\ bpc = "wait"
    /\ bpc' = "poll"
    /\ \E created \in SUBSET Topics : existing' = existing \cup created
    /\ UNCHANGED <<logged, committed, assigned, position, pending, host, stops, history>>

WebServerStarts ==
    /\ bpc # "down"
    /\ yielded
    /\ ~serving
    /\ ~stopping
    /\ serving' = TRUE
    /\ UNCHANGED <<broker, assigned, position, bpc, pending, yielded, stopping, stops, history>>

------------------------------------------------------------------------------
(* The consume loop. *)

(* Partitions are assigned within Consume, also those of topics that appear late;    *)
(* they start at the committed offset, or at 0 (AutoOffsetReset.Earliest).            *)
Assign ==
    /\ bpc = "poll"
    /\ existing # assigned
    /\ assigned' = existing
    /\ position' = [t \in Topics |-> IF t \in assigned THEN position[t] ELSE committed[t]]
    /\ UNCHANGED <<broker, bpc, pending, host, stops, history>>

(* Mutant: two messages are taken and stored, the second is broadcast. *)
ConsumePair(t) ==
    /\ bpc = "poll"
    /\ t \in assigned
    /\ position[t] + 1 < logged[t]
    /\ position' = [position EXCEPT ![t] = @ + 2]
    /\ bpc' = "send"
    /\ pending' = <<t, position[t] + 1>>
    /\ UNCHANGED <<broker, assigned, host, stops, history>>

(* Consume moves the position and, with auto-commit, stores the offset; a blank       *)
(* value is skipped.                                                                *)
Consume(t) ==
    /\ bpc = "poll"
    /\ t \in assigned
    /\ position[t] < logged[t]
    /\ position' = [position EXCEPT ![t] = @ + 1]
    /\ IF <<t, position[t]>> \in Blank
       THEN UNCHANGED <<bpc, pending>>
       ELSE bpc' = "send" /\ pending' = <<t, position[t]>>
    /\ UNCHANGED <<broker, assigned, host, stops, history>>

(* "Fatal consume error": a second of delay.  A ConsumeException changes nothing. *)
ConsumeThrows ==
    /\ bpc = "poll"
    /\ ~yielded
    /\ yielded' = TRUE
    /\ UNCHANGED <<broker, assigned, position, bpc, pending, serving, stopping, stops, history>>

(* Mutant: the message is not given up after the broadcast. *)
SendKeepsMessage ==
    /\ bpc = "send"
    /\ attempts' = [attempts EXCEPT ![pending] = @ + 1]
    /\ bpc' = "poll"
    /\ UNCHANGED <<broker, assigned, position, pending, host, stops, rewinds>>

(* SendAsync, which may fail (only a log entry).  It completes at once when there is   *)
(* no client, and a client takes a web server, which takes an incomplete await.        *)
SendReturns ==
    /\ bpc = "send"
    /\ attempts' = [attempts EXCEPT ![pending] = @ + 1]
    /\ bpc' = "poll"
    /\ pending' = NoMessage
    /\ UNCHANGED <<broker, assigned, position, host, stops, rewinds>>

(* Librdkafka's background thread commits what Consume has stored. *)
AutoCommit ==
    /\ bpc # "down"
    /\ committed # position
    /\ committed' = [t \in Topics |-> IF t \in assigned THEN position[t] ELSE committed[t]]
    /\ UNCHANGED <<existing, logged, assigned, position, bpc, pending, host, stops, history>>

------------------------------------------------------------------------------
(* The end of a process, and a rebalance of its group. *)

Stored == [t \in Topics |-> IF t \in assigned THEN position[t] ELSE committed[t]]

(* The consumer gives up its partitions with the offsets in commits. *)
Release(commits) ==
    /\ stops < MaxStops
    /\ stops' = stops + 1
    /\ committed' = commits
    /\ assigned' = {}
    /\ position' = commits
    /\ pending' = NoMessage
    /\ UNCHANGED <<existing, logged, attempts>>

ProcessEnds ==
    /\ bpc' = "down"
    /\ yielded' = FALSE
    /\ serving' = FALSE
    /\ stopping' = FALSE

(* The host begins to stop.  The loop goes on: what it broadcasts now, nobody gets.      *)
WebServerStops ==
    /\ stops < MaxStops
    /\ serving
    /\ serving' = FALSE
    /\ stopping' = TRUE
    /\ UNCHANGED <<broker, assigned, position, bpc, pending, yielded, stops, history>>

(* Mutant: no Close in the finally block. *)
ShutdownWithoutClose ==
    /\ bpc \in {"wait", "poll"}
    /\ ~serving
    /\ Release(committed)
    /\ ProcessEnds
    /\ UNCHANGED rewinds

(* The web server has stopped, or never started: the stopping token ends the loop, and   *)
(* Close commits and leaves the group.                                                *)
Shutdown ==
    /\ bpc \in {"wait", "poll"}
    /\ ~serving
    /\ Release(Stored)
    /\ ProcessEnds
    /\ UNCHANGED rewinds

Crash ==
    /\ bpc # "down"
    /\ Release(committed)
    /\ ProcessEnds
    /\ rewinds' = rewinds + 1

(* The partitions are revoked, which commits, or lost, which does not. *)
Rebalance ==
    /\ bpc = "poll"
    /\ assigned # {}
    /\ \/ Release(Stored) /\ UNCHANGED rewinds
       \/ Release(committed) /\ rewinds' = rewinds + 1
    /\ UNCHANGED <<bpc, host>>

------------------------------------------------------------------------------
Wait == TopicsAvailable \/ WaitTimesOut

Loop == Assign \/ \E t \in Topics : Consume(t)

------------------------------------------------------------------------------
(* Properties *)

(* The types of the bridge's state; it consumes only what it was assigned, and holds   *)
(* a message exactly while it is broadcasting.                                        *)
TypeOK ==
    /\ existing \in SUBSET Topics
    /\ logged \in [Topics -> 0..MaxMessages]
    /\ committed \in [Topics -> Nat]
    /\ assigned \in SUBSET existing
    /\ position \in [Topics -> Nat]
    /\ bpc \in {"down", "wait", "poll", "send"}
    /\ pending \in Messages \cup {NoMessage}
    /\ bpc = "send" <=> pending # NoMessage
    /\ yielded \in BOOLEAN
    /\ serving \in BOOLEAN
    /\ stopping \in BOOLEAN
    /\ stops \in 0..MaxStops
    /\ attempts \in [Messages -> Nat]
    /\ rewinds \in 0..stops
    /\ serving => yielded
    /\ stopping => yielded /\ ~serving
    /\ yielded => bpc # "down"
    /\ \A t \in Topics \ assigned : position[t] = committed[t]
    /\ \A t \in Topics : committed[t] <= position[t] /\ position[t] <= logged[t]

(* Passed over for good: committed, never given to SendAsync. *)
Skipped == {m \in Messages \ Blank : m[2] < committed[m[1]] /\ attempts[m] = 0}

(* A message is broadcast again only after a rewind. *)
RebroadcastOnlyAfterRewind == \A m \in Messages : attempts[m] <= 1 + rewinds
==============================================================================
