------------------------------ MODULE EventStream ------------------------------
(* EventBridge and the page together: the bridge broadcasts to the connections its     *)
(* SignalR hub knows, and the page shows what arrives over its own.                    *)
(*                                                                                  *)
(* The transport is external: ordered and reliable while it lasts; when it breaks, a   *)
(* suffix of what is under way is lost, and the client notices after the rest.          *)
EXTENDS Naturals, Sequences, FiniteSets

CONSTANTS
    Topics, Blank, NoMessage, MaxMessages, MaxStops,
    MaxMounts, ReconnectAttempts, Unset, Fallback, WindowEnv,
    HubUrls,       \* the addresses at which a browser reaches /eventhub
    MaxFaults,     \* bound: broken connections and failed attempts while the hub serves
    MaxOccasions   \* bound: messages, process ends, rebalances, faults, refreshes together

ASSUME StreamAssumption ==
    /\ IsFiniteSet(Topics)
    /\ MaxMessages \in Nat
    /\ MaxStops \in Nat
    /\ Blank \subseteq Topics \X (0..(MaxMessages - 1))
    /\ NoMessage \notin Topics \X (0..(MaxMessages - 1))
    /\ MaxMounts \in Nat \ {0}
    /\ ReconnectAttempts \in Nat \ {0}
    /\ MaxFaults \in Nat
    /\ MaxOccasions \in Nat

VARIABLES
    existing, logged, committed, assigned, position, bpc, pending, yielded, serving, stopping, stops,
    attempts, rewinds,
    env, mount, link, tries, starter, status, lists, cleaned,
    hub,       \* connection -> "out", "joining" (accepted) or "in" (Clients.All has it)
    channel,   \* connection -> the events on their way to it
    faults,    \* faults of the network so far
    since      \* history: connection -> topic -> the next message to be broadcast when
               \* the hub listed the connection

Bridge == INSTANCE EventBridge
Page == INSTANCE App

bridge == <<existing, logged, committed, assigned, position, bpc, pending, yielded, serving,
            stopping, stops, attempts, rewinds>>
page == <<env, mount, link, tries, starter, status, lists, cleaned>>
network == <<hub, channel, faults, since>>
vars == <<bridge, page, network>>

Connections == Page!Connections
Messages == Bridge!Messages

Init ==
    /\ Bridge!Init
    /\ Page!Init
    /\ hub = [c \in Connections |-> "out"]
    /\ channel = [c \in Connections |-> <<>>]
    /\ faults = 0
    /\ since = [c \in Connections |-> [t \in Topics |-> 0]]

Disruptions ==
    stops + (IF stopping THEN 1 ELSE 0) + faults + (IF mount = 0 THEN 0 ELSE mount - 1)
Produced == Cardinality({m \in Messages : m[2] < logged[m[1]]})
Occasion == Produced + Disruptions < MaxOccasions

------------------------------------------------------------------------------
(* Steps of the bridge. *)

BridgeWorks ==
    /\ \/ Occasion /\ \E t \in Topics : Bridge!Produce(t)
       \/ Bridge!Start
       \/ Bridge!WaitAgain
       \/ Bridge!ConsumeThrows
       \/ Bridge!AutoCommit
       \/ Occasion /\ Bridge!Rebalance
    /\ UNCHANGED <<page, network>>

TopicsAwaited == Bridge!Wait /\ UNCHANGED <<page, network>>
WebServerStarts == Bridge!WebServerStarts /\ UNCHANGED <<page, network>>
Consumes == Bridge!Loop /\ UNCHANGED <<page, network>>

(* Clients.All.SendAsync writes to every connection of the hub. *)
Broadcast ==
    /\ Bridge!SendReturns
    /\ LET event == [topic |-> pending[1], offset |-> pending[2], run |-> rewinds]
       IN channel' = [c \in Connections |->
              IF hub[c] = "in" THEN Append(channel[c], event) ELSE channel[c]]
    /\ UNCHANGED <<page, hub, faults, since>>

Prefixes(s) == {SubSeq(s, 1, n) : n \in 0..Len(s)}

(* The web server stops and closes its connections, or the process ends. *)
BridgeEnds ==
    /\ Occasion \/ stopping
    /\ Bridge!WebServerStops \/ Bridge!Shutdown \/ Bridge!Crash
    /\ hub' = [c \in Connections |-> "out"]
    /\ channel' \in {f \in [Connections -> UNION {Prefixes(channel[c]) : c \in Connections}] :
                        \A c \in Connections : f[c] \in Prefixes(channel[c])}
    /\ UNCHANGED <<page, faults, since>>

------------------------------------------------------------------------------
(* The network, and the hub's book-keeping. *)

Fault == Occasion /\ faults < MaxFaults /\ faults' = faults + 1

Reachable == serving /\ Page!HubUrl \in HubUrls

(* An attempt to connect fails: it must if there is nothing to connect to. *)
AttemptFails == IF Reachable THEN Fault ELSE UNCHANGED faults

Accepted(c) ==
    /\ Reachable
    /\ hub' = [hub EXCEPT ![c] = "joining"]
    /\ UNCHANGED <<channel, faults, since>>

NextSent == [t \in Topics |->
    IF pending # NoMessage /\ pending[1] = t THEN pending[2] ELSE position[t]]

(* The lifetime manager lists a connection after it has answered the handshake. *)
HubJoins(c) ==
    /\ hub[c] = "joining"
    /\ hub' = [hub EXCEPT ![c] = "in"]
    /\ since' = [since EXCEPT ![c] = NextSent]
    /\ UNCHANGED <<bridge, page, channel, faults>>

ConnectionBreaks(c) ==
    /\ hub[c] # "out"
    /\ Fault
    /\ hub' = [hub EXCEPT ![c] = "out"]
    /\ \E rest \in Prefixes(channel[c]) : channel' = [channel EXCEPT ![c] = rest]
    /\ UNCHANGED <<bridge, page, since>>

------------------------------------------------------------------------------
(* Steps of the page. *)

Renders == Page!Render /\ UNCHANGED <<bridge, network>>

(* A stopped connection receives nothing more. *)
Refreshes ==
    /\ Occasion
    /\ Page!Refresh
    /\ hub' = [hub EXCEPT ![mount] = "out"]
    /\ channel' = [channel EXCEPT ![mount] = <<>>]
    /\ UNCHANGED <<bridge, faults, since>>

PageStarts(c) ==
    /\ \/ Page!StartSucceeds(c) /\ Accepted(c)
       \/ Page!StartFails(c) /\ link[c] = "Connecting" /\ AttemptFails /\ UNCHANGED <<hub, channel, since>>
       \/ Page!StartFails(c) /\ link[c] = "Disconnecting" /\ UNCHANGED network
       \/ Page!TimerFires(c) /\ UNCHANGED network
    /\ UNCHANGED bridge

PageReconnects(c) ==
    /\ \/ Page!OnReconnecting(c) /\ hub[c] = "out" /\ channel[c] = <<>> /\ UNCHANGED network
       \/ Page!OnReconnected(c) /\ Accepted(c)
       \/ Page!ReconnectFails(c) /\ AttemptFails /\ UNCHANGED <<hub, channel, since>>
    /\ UNCHANGED bridge

PageCloses(c) ==
    /\ Page!OnClose(c)
    /\ \/ link[c] = "Disconnecting" /\ UNCHANGED network
       \/ link[c] = "Reconnecting" /\ AttemptFails /\ UNCHANGED <<hub, channel, since>>
    /\ UNCHANGED bridge

Receives(c) ==
    /\ channel[c] # <<>>
    /\ LET e == Head(channel[c])
       IN Page!ReceiveEvent(c, [topic |-> e.topic, offset |-> e.offset, run |-> e.run, via |-> c])
    /\ channel' = [channel EXCEPT ![c] = Tail(@)]
    /\ UNCHANGED <<bridge, hub, faults, since>>

PageWorks(c) == PageStarts(c) \/ PageReconnects(c) \/ PageCloses(c) \/ Receives(c)

------------------------------------------------------------------------------
Next ==
    \/ BridgeWorks \/ TopicsAwaited \/ WebServerStarts \/ Consumes \/ Broadcast \/ BridgeEnds
    \/ Renders \/ Refreshes
    \/ \E c \in Connections : HubJoins(c) \/ ConnectionBreaks(c) \/ PageWorks(c)

(* The thread of ExecuteAsync, the web server, the hub and the browser's event loop go   *)
(* on; a process that ended need not be started again, and no message, fault or refresh   *)
(* is due.                                                                           *)
Fairness ==
    /\ WF_vars(TopicsAwaited \/ Consumes \/ Broadcast)
    /\ WF_vars(WebServerStarts)
    /\ WF_vars(\E c \in Connections : HubJoins(c))
    /\ WF_vars(\E c \in Connections : PageWorks(c))

Spec == Init /\ [][Next]_vars /\ Fairness

------------------------------------------------------------------------------
(* Properties *)

(* The two parts are well-formed; the hub knows only connections the page believes to   *)
(* be connected, and only while the web server runs.                                   *)
TypeOK ==
    /\ Bridge!TypeOK
    /\ Page!TypeOK
    /\ hub \in [Connections -> {"out", "joining", "in"}]
    /\ \A c \in Connections : hub[c] # "out" => serving /\ link[c] = "Connected"
    /\ \A c \in Connections : channel[c] # <<>> => link[c] = "Connected"
    /\ faults \in 0..MaxFaults
    /\ since \in [Connections -> [Topics -> Nat]]

(* The bridge stores an offset before it broadcasts: each end of its process, and each   *)
(* rebalance, skips at most the one message it held.                                   *)
SkipsAtMostOnePerStop == Cardinality(Bridge!Skipped \ {pending}) <= stops

(* A message is broadcast again only after a crash or a lost partition: a shutdown        *)
(* commits all that was consumed.                                                     *)
RebroadcastOnlyAfterRewind == Bridge!RebroadcastOnlyAfterRewind

(* The status line of the page does not claim more than its connections have. *)
StatusTruthful == Page!StatusTruthful

(* Of the connections of unmounted effects, only those caught in start() live on. *)
OrphansWereStarting == Page!OrphansWereStarting

(* Within a list, the events of one topic that came over one connection are newest       *)
(* first and without repetition, as long as the bridge was not thrown back.              *)
NewestFirst ==
    \A l \in Page!Lists : \A i, j \in DOMAIN lists[l] :
        LET above == lists[l][i]
            below == lists[l][j]
        IN i < j /\ above.topic = below.topic /\ above.via = below.via /\ above.run = below.run
              => above.offset > below.offset

(* The events that came, or will come, over c. *)
Carried(c) ==
    {channel[c][i] : i \in 1..Len(channel[c])} \cup {e \in Page!Shown : e.via = c}

(* While a connection is in the hub its page misses nothing: whatever the bridge read     *)
(* and broadcast since is on the page or on its way.                                    *)
NothingMissed ==
    \A c \in Connections : hub[c] = "in" =>
        \A t \in Topics : \A o \in since[c][t]..(position[t] - 1) :
            <<t, o>> \notin Blank /\ <<t, o>> # pending
                => \E e \in Carried(c) : e.topic = t /\ e.offset = o

(* And it shows nothing twice but after a rewind: the entries of one message that came     *)
(* over one connection, and none of a blank one.                                        *)
ShownOncePerRewind ==
    \A l \in Page!Lists : \A i \in DOMAIN lists[l] :
        LET e == lists[l][i]
            again == {j \in DOMAIN lists[l] : /\ lists[l][j].topic = e.topic
                                             /\ lists[l][j].offset = e.offset
                                             /\ lists[l][j].via = e.via}
        IN <<e.topic, e.offset>> \notin Blank /\ Cardinality(again) <= 1 + rewinds

Unread(m) == m = pending \/ m[2] \in position[m[1]]..(logged[m[1]] - 1)

Listening == mount # 0 /\ hub[mount] = "in"

(* What the bridge has not read yet reaches the page over its own connection, if that is *)
(* in the hub, unless the connection is lost or the page mounted anew first.            *)
EventsReachThePage ==
    \A m \in Messages \ Blank :
        Unread(m) /\ Listening
            ~> \/ ~Listening
               \/ \E e \in Page!Shown : e.topic = m[1] /\ e.offset = m[2] /\ e.via = mount

Starting == mount # 0 /\ starter[mount] \in {"starting", "timer"}

(* The mounted page does not stop starting before it was connected once: it gets         *)
(* connected, unless the hub cannot be reached any more.  (It is remounted finitely often.) *)
PageConnects ==
    Reachable /\ Starting ~> ~Reachable \/ (mount # 0 /\ link[mount] = "Connected")

(* README.md:273 has the page updated live by EventBridge, at port 5005: once every topic *)
(* exists, a bridge that is started comes to serve its hub, or is stopped.                *)
BridgeServes ==
    bpc = "wait" /\ Topics \subseteq existing ~> serving \/ stopping \/ bpc = "down"
==============================================================================
