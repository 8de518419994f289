--------------------------- MODULE EventStreamProofs ---------------------------
(* Theorems about EventStream, for any topics, limits and addresses.  The page and the *)
(* network do not touch the bridge, so its invariants are proved for its own steps.     *)
EXTENDS EventStream, FiniteSetTheorems, SequenceTheorems, TLAPS

BridgeStep ==
    \/ \E t \in Topics : Bridge!Produce(t)
    \/ Bridge!Start
    \/ Bridge!TopicsAvailable
    \/ Bridge!WaitAgain
    \/ Bridge!WaitTimesOut
    \/ Bridge!WebServerStarts
    \/ Bridge!Assign
    \/ \E t \in Topics : Bridge!Consume(t)
    \/ Bridge!ConsumeThrows
    \/ Bridge!SendReturns
    \/ Bridge!AutoCommit
    \/ Bridge!WebServerStops
    \/ Bridge!Shutdown
    \/ Bridge!Crash
    \/ Bridge!Rebalance
    \/ UNCHANGED bridge

(* Every step of the system is one of these for the bridge. *)
LEMMA StepsOfBridge == [Next]_vars => BridgeStep
<1>1. CASE UNCHANGED vars
  BY <1>1 DEF vars, BridgeStep
<1>2. CASE BridgeWorks
  BY <1>2 DEF BridgeWorks, BridgeStep
<1>3. CASE TopicsAwaited
  BY <1>3 DEF TopicsAwaited, Bridge!Wait, BridgeStep
<1>4. CASE WebServerStarts
  BY <1>4 DEF WebServerStarts, BridgeStep
<1>5. CASE Consumes
  BY <1>5 DEF Consumes, Bridge!Loop, BridgeStep
<1>6. CASE Broadcast
  BY <1>6 DEF Broadcast, BridgeStep
<1>7. CASE BridgeEnds
  BY <1>7 DEF BridgeEnds, BridgeStep
<1>8. CASE Renders \/ Refreshes
  BY <1>8 DEF Renders, Refreshes, BridgeStep
<1>9. ASSUME NEW c \in Connections, HubJoins(c) \/ ConnectionBreaks(c) \/ PageWorks(c)
      PROVE  BridgeStep
  BY <1>9 DEF HubJoins, ConnectionBreaks, PageWorks, PageStarts, PageReconnects, PageCloses,
              Receives, BridgeStep
<1> QED
  BY <1>1, <1>2, <1>3, <1>4, <1>5, <1>6, <1>7, <1>8, <1>9 DEF Next

------------------------------------------------------------------------------
(* The types of the bridge *)

(* A message in the loop is the last one read of its topic, which is assigned. *)
PendingRead ==
    pending # NoMessage => pending[1] \in assigned /\ pending[2] + 1 = position[pending[1]]

BridgeTyped == Bridge!TypeOK /\ PendingRead

LEMMA BridgeInit == Init => BridgeTyped
<1> SUFFICES ASSUME Init PROVE BridgeTyped
  OBVIOUS
<1> USE StreamAssumption DEF Init, Bridge!Init
<1>1. Bridge!TypeOK
  <2>1. attempts \in [Bridge!Messages -> Nat]
    OBVIOUS
  <2>2. logged \in [Topics -> 0..MaxMessages] /\ committed \in [Topics -> Nat] /\ position \in [Topics -> Nat]
    OBVIOUS
  <2>3. /\ yielded \in BOOLEAN /\ serving \in BOOLEAN /\ stopping \in BOOLEAN
        /\ (serving => yielded) /\ (stopping => yielded /\ ~serving) /\ (yielded => bpc # "down")
    OBVIOUS
  <2>4. stops \in 0..MaxStops /\ rewinds \in 0..stops
    OBVIOUS
  <2>5. \A t \in Topics : committed[t] <= position[t] /\ position[t] <= logged[t] /\ position[t] = committed[t]
    OBVIOUS
  <2> QED
    BY <2>1, <2>2, <2>3, <2>4, <2>5 DEF Bridge!TypeOK
<1>2. PendingRead
  BY DEF PendingRead
<1> QED
  BY <1>1, <1>2 DEF BridgeTyped

LEMMA BridgeTypedStep == BridgeTyped /\ BridgeStep => BridgeTyped'
<1> SUFFICES ASSUME BridgeTyped, BridgeStep PROVE BridgeTyped'
  OBVIOUS
<1> USE StreamAssumption DEF BridgeTyped, Bridge!TypeOK, PendingRead, Bridge!Messages
<1>1. ASSUME NEW t \in Topics, Bridge!Produce(t) PROVE BridgeTyped'
  BY <1>1 DEF Bridge!Produce, Bridge!host, Bridge!history
<1>2. CASE Bridge!Start
  BY <1>2 DEF Bridge!Start, Bridge!broker, Bridge!host, Bridge!history
<1>3. CASE Bridge!TopicsAvailable
  BY <1>3 DEF Bridge!TopicsAvailable, Bridge!broker, Bridge!host, Bridge!history
<1>4. CASE Bridge!WaitAgain
  BY <1>4 DEF Bridge!WaitAgain, Bridge!history
<1>5. CASE Bridge!WaitTimesOut
  BY <1>5 DEF Bridge!WaitTimesOut, Bridge!host, Bridge!history
<1>6. CASE Bridge!WebServerStarts
  BY <1>6 DEF Bridge!WebServerStarts, Bridge!broker, Bridge!history
<1>7. CASE Bridge!Assign
  BY <1>7 DEF Bridge!Assign, Bridge!broker, Bridge!host, Bridge!history
<1>8. ASSUME NEW t \in Topics, Bridge!Consume(t) PROVE BridgeTyped'
  <2> USE <1>8 DEF Bridge!Consume, Bridge!broker, Bridge!host, Bridge!history
  <2>1. <<t, position[t]>> \in Bridge!Messages
    OBVIOUS
  <2>2. pending = NoMessage
    OBVIOUS
  <2>3. position' = [position EXCEPT ![t] = position[t] + 1]
    OBVIOUS
  <2>4. CASE <<t, position[t]>> \in Blank
    BY <2>1, <2>2, <2>3, <2>4
  <2>5. CASE <<t, position[t]>> \notin Blank
    BY <2>1, <2>2, <2>3, <2>5
  <2> QED
    BY <2>4, <2>5
<1>9. CASE Bridge!ConsumeThrows
  BY <1>9 DEF Bridge!ConsumeThrows, Bridge!broker, Bridge!history
<1>10. CASE Bridge!SendReturns
  <2> USE <1>10 DEF Bridge!SendReturns, Bridge!broker, Bridge!host
  <2>1. pending \in Bridge!Messages
    OBVIOUS
  <2>2. attempts' \in [Bridge!Messages -> Nat]
    BY <2>1
  <2> QED
    BY <2>2
<1>11. CASE Bridge!AutoCommit
  BY <1>11 DEF Bridge!AutoCommit, Bridge!host, Bridge!history
<1>12. CASE Bridge!Shutdown
  <2> USE <1>12 DEF Bridge!Shutdown, Bridge!Release, Bridge!Stored, Bridge!ProcessEnds
  <2>1. /\ yielded' \in BOOLEAN /\ serving' \in BOOLEAN /\ stopping' \in BOOLEAN
        /\ (serving' => yielded') /\ (stopping' => yielded' /\ ~serving') /\ (yielded' => bpc' # "down")
    BY Zenon
  <2>2. /\ committed' \in [Topics -> Nat] /\ position' = committed'
        /\ \A t \in Topics : committed'[t] <= logged'[t]
    OBVIOUS
  <2>3. /\ bpc' = "down" /\ pending' = NoMessage /\ assigned' = {} /\ existing' = existing
        /\ logged' = logged /\ attempts' = attempts
    OBVIOUS
  <2>4. stops' \in 0..MaxStops /\ rewinds' \in 0..stops'
    OBVIOUS
  <2> QED
    BY <2>1, <2>2, <2>3, <2>4
<1>13. CASE Bridge!Crash
  <2> USE <1>13 DEF Bridge!Crash, Bridge!Release, Bridge!ProcessEnds
  <2>1. /\ yielded' \in BOOLEAN /\ serving' \in BOOLEAN /\ stopping' \in BOOLEAN
        /\ (serving' => yielded') /\ (stopping' => yielded' /\ ~serving') /\ (yielded' => bpc' # "down")
    BY Zenon
  <2>2. /\ committed' \in [Topics -> Nat] /\ position' = committed'
        /\ \A t \in Topics : committed'[t] <= logged'[t]
    OBVIOUS
  <2>3. /\ bpc' = "down" /\ pending' = NoMessage /\ assigned' = {} /\ existing' = existing
        /\ logged' = logged /\ attempts' = attempts
    OBVIOUS
  <2>4. stops' \in 0..MaxStops /\ rewinds' \in 0..stops'
    OBVIOUS
  <2> QED
    BY <2>1, <2>2, <2>3, <2>4
<1>14. CASE Bridge!Rebalance
  BY <1>14 DEF Bridge!Rebalance, Bridge!Release, Bridge!Stored, Bridge!host
<1>15. CASE Bridge!WebServerStops
  BY <1>15 DEF Bridge!WebServerStops, Bridge!broker, Bridge!history
<1>16. CASE UNCHANGED bridge
  BY <1>16 DEF bridge
<1> QED
  BY <1>1, <1>2, <1>3, <1>4, <1>5, <1>6, <1>7, <1>8, <1>9, <1>10, <1>11, <1>12, <1>13,
     <1>14, <1>15, <1>16 DEF BridgeStep

(* Every step keeps the types, so they hold for ever. *)
LEMMA BridgeTypedAlways == Spec => []BridgeTyped
<1>1. BridgeTyped /\ [Next]_vars => BridgeTyped'
  BY BridgeTypedStep, StepsOfBridge
<1> QED
  BY BridgeInit, <1>1, PTL DEF Spec

------------------------------------------------------------------------------
(* Repeated broadcasts *)

(* A message that is yet to be broadcast has been so only before a rewind. *)
ReplayInv ==
    \A m \in Messages :
        /\ attempts[m] <= 1 + rewinds
        /\ m = pending \/ position[m[1]] <= m[2] => attempts[m] <= rewinds

LEMMA ReplayStep == BridgeTyped /\ ReplayInv /\ BridgeStep => ReplayInv'
<1> SUFFICES ASSUME BridgeTyped, ReplayInv, BridgeStep, NEW m \in Messages
             PROVE  /\ attempts'[m] <= 1 + rewinds'
                    /\ m = pending' \/ position'[m[1]] <= m[2] => attempts'[m] <= rewinds'
  BY DEF ReplayInv, Messages, Bridge!Messages
<1> USE StreamAssumption DEF BridgeTyped, Bridge!TypeOK, PendingRead, ReplayInv, Messages, Bridge!Messages
<1>1. ASSUME UNCHANGED <<position, pending, attempts, rewinds>>
      PROVE  /\ attempts'[m] <= 1 + rewinds'
             /\ m = pending' \/ position'[m[1]] <= m[2] => attempts'[m] <= rewinds'
  BY <1>1
<1>2. ASSUME NEW t \in Topics, Bridge!Produce(t) PROVE UNCHANGED <<position, pending, attempts, rewinds>>
  BY <1>2 DEF Bridge!Produce, Bridge!history
<1>3. CASE Bridge!Start \/ Bridge!TopicsAvailable \/ Bridge!WaitAgain \/ Bridge!WaitTimesOut
  BY <1>1, <1>3 DEF Bridge!Start, Bridge!TopicsAvailable, Bridge!WaitAgain, Bridge!WaitTimesOut,
                    Bridge!history
<1>4. CASE Bridge!WebServerStarts \/ Bridge!WebServerStops \/ Bridge!ConsumeThrows \/ Bridge!AutoCommit
  BY <1>1, <1>4 DEF Bridge!WebServerStarts, Bridge!WebServerStops, Bridge!ConsumeThrows, Bridge!AutoCommit, Bridge!history
<1>5. CASE Bridge!Assign
  <2>1. position' = position
    BY <1>5 DEF Bridge!Assign
  <2> QED
    BY <1>1, <1>5, <2>1 DEF Bridge!Assign, Bridge!history
<1>6. ASSUME NEW t \in Topics, Bridge!Consume(t)
      PROVE  /\ attempts'[m] <= 1 + rewinds'
             /\ m = pending' \/ position'[m[1]] <= m[2] => attempts'[m] <= rewinds'
  <2>1. attempts' = attempts /\ rewinds' = rewinds
    BY <1>6 DEF Bridge!Consume, Bridge!history
  <2>2. ASSUME position'[m[1]] <= m[2] PROVE position[m[1]] <= m[2]
    BY <1>6, <2>2 DEF Bridge!Consume
  <2>3. ASSUME m = pending' PROVE m = pending \/ position[m[1]] <= m[2]
    BY <1>6, <2>3 DEF Bridge!Consume
  <2> QED
    BY <2>1, <2>2, <2>3
<1>7. CASE Bridge!SendReturns
  <2>1. pending \in Messages /\ pending' = NoMessage /\ position' = position /\ rewinds' = rewinds
    BY <1>7 DEF Bridge!SendReturns
  <2>2. attempts' = [attempts EXCEPT ![pending] = attempts[pending] + 1]
    BY <1>7 DEF Bridge!SendReturns
  <2>3. CASE m = pending
    BY <2>1, <2>2, <2>3
  <2>4. CASE m # pending
    BY <2>1, <2>2, <2>4
  <2> QED
    BY <2>3, <2>4
<1>8. ASSUME attempts' = attempts, rewinds' = rewinds + 1
      PROVE  /\ attempts'[m] <= 1 + rewinds'
             /\ m = pending' \/ position'[m[1]] <= m[2] => attempts'[m] <= rewinds'
  BY <1>8
<1>9. ASSUME Bridge!Release(Bridge!Stored), rewinds' = rewinds, pending = NoMessage
      PROVE  UNCHANGED <<position, pending, attempts, rewinds>>
  BY <1>9 DEF Bridge!Release, Bridge!Stored
<1>10. CASE Bridge!Shutdown
  BY <1>1, <1>9, <1>10 DEF Bridge!Shutdown
<1>11. CASE Bridge!Crash
  BY <1>8, <1>11 DEF Bridge!Crash, Bridge!Release
<1>12. CASE Bridge!Rebalance
  <2>1. pending = NoMessage
    BY <1>12 DEF Bridge!Rebalance
  <2> QED
    BY <1>1, <1>8, <1>9, <1>12, <2>1 DEF Bridge!Rebalance, Bridge!Release
<1>13. CASE UNCHANGED bridge
  BY <1>1, <1>13 DEF bridge
<1> QED
  BY <1>1, <1>2, <1>3, <1>4, <1>5, <1>6, <1>7, <1>10, <1>11, <1>12, <1>13 DEF BridgeStep

(* RebroadcastOnlyAfterRewind: a message is broadcast once, and once more at most for     *)
(* each crash or lost partition.                                                       *)
THEOREM ReplaysAreRewinds == Spec => []RebroadcastOnlyAfterRewind
<1>1. Init => ReplayInv
  BY DEF Init, Bridge!Init, ReplayInv, Messages, Bridge!Messages
<1>2. BridgeTyped /\ ReplayInv /\ [Next]_vars => ReplayInv'
  BY ReplayStep, StepsOfBridge
<1>3. ReplayInv => RebroadcastOnlyAfterRewind
  BY DEF ReplayInv, RebroadcastOnlyAfterRewind, Bridge!RebroadcastOnlyAfterRewind, Messages
<1> QED
  BY BridgeTypedAlways, <1>1, <1>2, <1>3, PTL DEF Spec

------------------------------------------------------------------------------
(* Skipped messages *)

(* Read, let go, and never given to SendAsync: these may come to be committed. *)
PassedOver == {m \in Messages \ Blank : m[2] < position[m[1]] /\ attempts[m] = 0} \ {pending}

SkipInv == Cardinality(PassedOver) <= stops

LEMMA MessagesFinite == IsFiniteSet(Messages)
<1>1. IsFiniteSet(0..(MaxMessages - 1))
  <2>1. 0 \in Int /\ MaxMessages - 1 \in Int
    BY StreamAssumption
  <2> QED
    BY <2>1, FS_Interval
<1>2. IsFiniteSet(Topics \X (0..(MaxMessages - 1)))
  BY StreamAssumption, <1>1, FS_Product
<1> QED
  BY <1>2 DEF Messages, Bridge!Messages

LEMMA PassedOverFinite == IsFiniteSet(PassedOver) /\ Cardinality(PassedOver) \in Nat
<1>1. PassedOver \in SUBSET Messages
  BY DEF PassedOver
<1> QED
  BY <1>1, MessagesFinite, FS_Subset, FS_CardinalityType

(* A step passes over nothing new, or it ends a process or a tenure and drops what the   *)
(* loop held.                                                                          *)
LEMMA PassedOverStep ==
    ASSUME BridgeTyped, BridgeStep
    PROVE  \/ PassedOver' \subseteq PassedOver /\ stops' = stops
           \/ PassedOver' \subseteq PassedOver \cup {pending} /\ stops' = stops + 1
<1> USE StreamAssumption DEF BridgeTyped, Bridge!TypeOK, PendingRead, Messages, Bridge!Messages
<1> DEFINE Same == PassedOver' \subseteq PassedOver /\ stops' = stops
           Drop == PassedOver' \subseteq PassedOver \cup {pending} /\ stops' = stops + 1
<1>1. ASSUME UNCHANGED <<position, pending, attempts, stops>> PROVE Same
  BY <1>1 DEF PassedOver
<1>2. ASSUME NEW t \in Topics, Bridge!Produce(t) PROVE Same
  BY <1>1, <1>2 DEF Bridge!Produce, Bridge!history
<1>3. CASE Bridge!Start \/ Bridge!TopicsAvailable \/ Bridge!WaitAgain \/ Bridge!WaitTimesOut
  BY <1>1, <1>3 DEF Bridge!Start, Bridge!TopicsAvailable, Bridge!WaitAgain, Bridge!WaitTimesOut,
                    Bridge!history
<1>4. CASE Bridge!WebServerStarts \/ Bridge!WebServerStops \/ Bridge!ConsumeThrows \/ Bridge!AutoCommit
  BY <1>1, <1>4 DEF Bridge!WebServerStarts, Bridge!WebServerStops, Bridge!ConsumeThrows, Bridge!AutoCommit, Bridge!history
<1>5. CASE Bridge!Assign
  <2>1. position' = position
    BY <1>5 DEF Bridge!Assign
  <2> QED
    BY <1>1, <1>5, <2>1 DEF Bridge!Assign, Bridge!history
<1>6. ASSUME NEW t \in Topics, Bridge!Consume(t) PROVE Same
  <2>1. attempts' = attempts /\ stops' = stops /\ pending = NoMessage
    BY <1>6 DEF Bridge!Consume, Bridge!history
  <2>2. ASSUME NEW m \in Messages \ Blank, m[2] < position'[m[1]], m # pending'
        PROVE  m[2] < position[m[1]] /\ m # pending
    <3>1. CASE m[1] = t
      <4>1. m # <<t, position[t]>>
        BY <1>6, <2>2 DEF Bridge!Consume
      <4>2. m[2] < position[t] + 1 /\ m = <<t, m[2]>>
        BY <1>6, <2>2, <3>1 DEF Bridge!Consume
      <4> QED
        BY <2>1, <3>1, <4>1, <4>2
    <3>2. CASE m[1] # t
      BY <1>6, <2>1, <2>2, <3>2 DEF Bridge!Consume
    <3> QED
      BY <3>1, <3>2
  <2> QED
    BY <2>1, <2>2 DEF PassedOver
<1>7. CASE Bridge!SendReturns
  <2>1. pending \in Messages /\ position' = position /\ stops' = stops
    BY <1>7 DEF Bridge!SendReturns
  <2>2. attempts' = [attempts EXCEPT ![pending] = attempts[pending] + 1]
    BY <1>7 DEF Bridge!SendReturns
  <2>3. ASSUME NEW m \in Messages \ Blank, attempts'[m] = 0 PROVE attempts[m] = 0 /\ m # pending
    BY <2>1, <2>2, <2>3
  <2> QED
    BY <2>1, <2>3 DEF PassedOver
<1>8. ASSUME NEW commits, Bridge!Release(commits), \A t \in Topics : commits[t] \in Nat /\ commits[t] <= position[t]
      PROVE  Drop
  <2>1. attempts' = attempts /\ position' = commits /\ stops' = stops + 1
    BY <1>8 DEF Bridge!Release
  <2>2. ASSUME NEW m \in Messages, m[2] < position'[m[1]] PROVE m[2] < position[m[1]]
    BY <1>8, <2>1, <2>2
  <2> QED
    BY <2>1, <2>2 DEF PassedOver
<1>9. \A t \in Topics : Bridge!Stored[t] \in Nat /\ Bridge!Stored[t] <= position[t]
  BY DEF Bridge!Stored
<1>10. CASE Bridge!Shutdown \/ Bridge!Crash \/ Bridge!Rebalance
  BY <1>8, <1>9, <1>10 DEF Bridge!Shutdown, Bridge!Crash, Bridge!Rebalance
<1>11. CASE UNCHANGED bridge
  BY <1>1, <1>11 DEF bridge
<1> QED
  BY <1>2, <1>3, <1>4, <1>5, <1>6, <1>7, <1>10, <1>11 DEF BridgeStep

LEMMA SkipStep == BridgeTyped /\ SkipInv /\ BridgeStep => SkipInv'
<1> SUFFICES ASSUME BridgeTyped, SkipInv, BridgeStep PROVE SkipInv'
  OBVIOUS
<1> DEFINE C == Cardinality(PassedOver)
<1>1. stops \in Nat
  BY StreamAssumption DEF BridgeTyped, Bridge!TypeOK
<1>2. CASE PassedOver' \subseteq PassedOver /\ stops' = stops
  <2>1. Cardinality(PassedOver') <= C
    BY <1>2, PassedOverFinite, FS_Subset
  <2> QED
    BY <1>1, <1>2, <2>1, PassedOverFinite, FS_Subset, FS_CardinalityType DEF SkipInv
<1>3. CASE PassedOver' \subseteq PassedOver \cup {pending} /\ stops' = stops + 1
  <2>1. /\ IsFiniteSet(PassedOver \cup {pending})
        /\ Cardinality(PassedOver \cup {pending}) <= C + 1
    BY PassedOverFinite, FS_AddElement
  <2>2. Cardinality(PassedOver') <= C + 1 /\ Cardinality(PassedOver') \in Nat
    BY <1>3, <2>1, PassedOverFinite, FS_Subset, FS_CardinalityType
  <2> QED
    BY <1>1, <1>3, <2>2, PassedOverFinite DEF SkipInv
<1> QED
  BY <1>2, <1>3, PassedOverStep

(* SkipsAtMostOnePerStop: although offsets are stored before the broadcast, each end of   *)
(* the process and each rebalance costs one message at most.                             *)
THEOREM SkipsBounded == Spec => []SkipsAtMostOnePerStop
<1>1. Init => SkipInv
  <2> SUFFICES ASSUME Init PROVE SkipInv
    OBVIOUS
  <2>1. PassedOver = {}
    BY DEF Init, Bridge!Init, PassedOver, Messages, Bridge!Messages
  <2> QED
    BY <2>1, FS_EmptySet DEF SkipInv, Init, Bridge!Init
<1>2. BridgeTyped /\ SkipInv /\ [Next]_vars => SkipInv'
  BY SkipStep, StepsOfBridge
<1>3. BridgeTyped /\ SkipInv => SkipsAtMostOnePerStop
  <2> SUFFICES ASSUME BridgeTyped, SkipInv PROVE SkipsAtMostOnePerStop
    OBVIOUS
  <2>1. Bridge!Skipped \ {pending} \subseteq PassedOver
    BY StreamAssumption
       DEF BridgeTyped, Bridge!TypeOK, Bridge!Skipped, PassedOver, Messages, Bridge!Messages
  <2>2. /\ Cardinality(Bridge!Skipped \ {pending}) <= Cardinality(PassedOver)
        /\ Cardinality(Bridge!Skipped \ {pending}) \in Nat
    BY <2>1, PassedOverFinite, FS_Subset, FS_CardinalityType
  <2>3. stops \in Nat
    BY StreamAssumption DEF BridgeTyped, Bridge!TypeOK
  <2> QED
    BY <2>2, <2>3, PassedOverFinite DEF SkipInv, SkipsAtMostOnePerStop
<1> QED
  BY BridgeTypedAlways, <1>1, <1>2, <1>3, PTL DEF Spec

------------------------------------------------------------------------------
(* The page *)

PageStep ==
    \/ Page!Render
    \/ Page!Refresh
    \/ \E c \in Connections :
          \/ Page!StartSucceeds(c) \/ Page!StartFails(c) \/ Page!TimerFires(c)
          \/ Page!OnReconnecting(c) \/ Page!OnReconnected(c) \/ Page!ReconnectFails(c)
          \/ Page!OnClose(c)
          \/ \E event : Page!ReceiveEvent(c, event)
    \/ UNCHANGED page

(* Every step of the system is one of these for the page. *)
LEMMA StepsOfPage == [Next]_vars => PageStep
<1>1. CASE UNCHANGED vars
  BY <1>1 DEF vars, PageStep
<1>2. CASE BridgeWorks \/ TopicsAwaited \/ WebServerStarts \/ Consumes
  BY <1>2 DEF BridgeWorks, TopicsAwaited, WebServerStarts, Consumes, PageStep
<1>3. CASE Broadcast \/ BridgeEnds
  BY <1>3 DEF Broadcast, BridgeEnds, PageStep
<1>4. CASE Renders \/ Refreshes
  BY <1>4 DEF Renders, Refreshes, PageStep
<1>5. ASSUME NEW c \in Connections, HubJoins(c) \/ ConnectionBreaks(c) PROVE PageStep
  BY <1>5 DEF HubJoins, ConnectionBreaks, PageStep
<1>6. ASSUME NEW c \in Connections, PageWorks(c) PROVE PageStep
  BY <1>6 DEF PageWorks, PageStarts, PageReconnects, PageCloses, Receives, PageStep
<1> QED
  BY <1>1, <1>2, <1>3, <1>4, <1>5, <1>6 DEF Next

(* The types of the page's control, all of Page!TypeOK but the lists; and what a cleanup   *)
(* leaves behind.                                                                      *)
PageTyped ==
    /\ env \in WindowEnv
    /\ mount \in 0..MaxMounts
    /\ link \in [Connections -> Page!LinkStates]
    /\ tries \in [Connections -> Nat]
    /\ \A c \in Connections : tries[c] > 0 => link[c] = "Reconnecting" /\ tries[c] < ReconnectAttempts
    /\ starter \in [Connections -> {"none", "starting", "timer", "done"}]
    /\ \A c \in Connections :
          /\ starter[c] = "none" <=> c > mount
          /\ starter[c] \in {"none", "timer"} => link[c] = "Disconnected"
          /\ starter[c] = "starting" => link[c] \in {"Connecting", "Disconnecting"}
          /\ link[c] = "Connecting" => starter[c] = "starting"
    /\ status \in {"Disconnected", "Connected", "Reconnecting"}
    /\ cleaned \in [Connections -> {"no", "starting", "timer", "done"}]
    /\ \A c \in Connections :
          /\ cleaned[c] # "no" <=> c < mount
          /\ cleaned[c] = "done" => starter[c] = "done" /\ link[c] \in {"Disconnected", "Disconnecting"}

LEMMA PageInit == Init => PageTyped
BY StreamAssumption DEF Init, Page!Init, PageTyped, Connections, Page!Connections, Page!LinkStates

LEMMA PageTypedStep == PageTyped /\ PageStep => PageTyped'
<1> SUFFICES ASSUME PageTyped, PageStep PROVE PageTyped'
  OBVIOUS
<1> USE StreamAssumption DEF PageTyped, Connections, Page!Connections, Page!LinkStates
<1>1. CASE Page!Render
  BY <1>1 DEF Page!Render, Page!view
<1>2. CASE Page!Refresh
  <2> USE <1>2 DEF Page!Refresh
  <2>1. PICK state \in Page!Stopped(link[mount]) :
            link' = [link EXCEPT ![mount] = state, ![mount + 1] = "Connecting"]
    OBVIOUS
  <2>2. mount \in Connections /\ mount + 1 \in Connections /\ mount' = mount + 1
    OBVIOUS
  <2>3. /\ state \in {"Disconnected", "Disconnecting"}
        /\ link[mount] = "Disconnected" => state = "Disconnected"
        /\ link[mount] \in {"Connecting", "Disconnecting"} => state = "Disconnecting"
    BY <2>1, <2>2 DEF Page!Stopped
  <2>4. link' \in [Connections -> Page!LinkStates]
    BY <2>1, <2>2, <2>3
  <2>5. /\ starter' = [starter EXCEPT ![mount + 1] = "starting"]
        /\ tries' = [tries EXCEPT ![mount] = 0]
        /\ cleaned' = [cleaned EXCEPT ![mount] = starter[mount]]
        /\ env' = env
    OBVIOUS
  <2>6. status' \in {"Disconnected", "Connected", "Reconnecting"}
    OBVIOUS
  <2>7. starter[mount] # "none" /\ starter[mount + 1] = "none" /\ link[mount + 1] = "Disconnected"
    BY <2>2
  <2>8. /\ starter' \in [Connections -> {"none", "starting", "timer", "done"}]
        /\ tries' \in [Connections -> Nat]
        /\ cleaned' \in [Connections -> {"no", "starting", "timer", "done"}]
    BY <2>2, <2>5, <2>7
  <2>9. ASSUME NEW c \in Connections
        PROVE  /\ tries'[c] > 0 => link'[c] = "Reconnecting" /\ tries'[c] < ReconnectAttempts
               /\ starter'[c] = "none" <=> c > mount'
               /\ starter'[c] \in {"none", "timer"} => link'[c] = "Disconnected"
               /\ starter'[c] = "starting" => link'[c] \in {"Connecting", "Disconnecting"}
               /\ link'[c] = "Connecting" => starter'[c] = "starting"
               /\ cleaned'[c] # "no" <=> c < mount'
               /\ cleaned'[c] = "done" => starter'[c] = "done" /\ link'[c] \in {"Disconnected", "Disconnecting"}
    <3>1. CASE c = mount
      BY <2>1, <2>2, <2>3, <2>5, <2>7, <3>1
    <3>2. CASE c = mount + 1
      BY <2>1, <2>2, <2>3, <2>5, <2>7, <3>2
    <3>3. CASE c # mount /\ c # mount + 1
      BY <2>1, <2>2, <2>5, <3>3
    <3> QED
      BY <3>1, <3>2, <3>3
  <2> QED
    BY <2>2, <2>4, <2>5, <2>6, <2>8, <2>9
<1>3. ASSUME NEW c \in Connections, Page!StartSucceeds(c) PROVE PageTyped'
  BY <1>3 DEF Page!StartSucceeds, Page!view
<1>4. ASSUME NEW c \in Connections, Page!StartFails(c) PROVE PageTyped'
  BY <1>4 DEF Page!StartFails, Page!view
<1>5. ASSUME NEW c \in Connections, Page!TimerFires(c) PROVE PageTyped'
  BY <1>5 DEF Page!TimerFires, Page!view
<1>6. ASSUME NEW c \in Connections, Page!OnReconnecting(c) PROVE PageTyped'
  BY <1>6 DEF Page!OnReconnecting, Page!view
<1>7. ASSUME NEW c \in Connections, Page!OnReconnected(c) PROVE PageTyped'
  BY <1>7 DEF Page!OnReconnected, Page!view
<1>8. ASSUME NEW c \in Connections, Page!ReconnectFails(c) PROVE PageTyped'
  BY <1>8 DEF Page!ReconnectFails, Page!view
<1>9. ASSUME NEW c \in Connections, Page!OnClose(c) PROVE PageTyped'
  BY <1>9 DEF Page!OnClose, Page!view
<1>10. ASSUME NEW c \in Connections, NEW event, Page!ReceiveEvent(c, event) PROVE PageTyped'
  BY <1>10 DEF Page!ReceiveEvent
<1>11. CASE UNCHANGED page
  BY <1>11 DEF page
<1> QED
  BY <1>1, <1>2, <1>3, <1>4, <1>5, <1>6, <1>7, <1>8, <1>9, <1>10, <1>11 DEF PageStep

LEMMA PageTypedAlways == Spec => []PageTyped
<1>1. PageTyped /\ [Next]_vars => PageTyped'
  BY PageTypedStep, StepsOfPage
<1> QED
  BY PageInit, <1>1, PTL DEF Spec

(* OrphansWereStarting: a connection outlives its mount only through the timer or the     *)
(* pending attempt of start().                                                         *)
THEOREM OrphansOnlyFromStart == Spec => []OrphansWereStarting
<1>1. PageTyped => OrphansWereStarting
  BY DEF PageTyped, OrphansWereStarting, Page!OrphansWereStarting, Connections
<1> QED
  BY PageTypedAlways, <1>1, PTL

LEMMA StatusStep == PageTyped /\ StatusTruthful /\ PageStep => StatusTruthful'
<1> SUFFICES ASSUME PageTyped, StatusTruthful, PageStep PROVE StatusTruthful'
  OBVIOUS
<1> USE StreamAssumption DEF PageTyped, StatusTruthful, Page!StatusTruthful, Connections, Page!Connections,
                             Page!LinkStates
<1>1. CASE Page!Render
  BY <1>1 DEF Page!Render, Page!view
<1>2. CASE Page!Refresh
  BY <1>2 DEF Page!Refresh, Page!Stopped
<1>3. ASSUME NEW c \in Connections, Page!StartSucceeds(c) PROVE StatusTruthful'
  BY <1>3 DEF Page!StartSucceeds, Page!view
<1>4. ASSUME NEW c \in Connections, Page!StartFails(c) PROVE StatusTruthful'
  BY <1>4 DEF Page!StartFails, Page!view
<1>5. ASSUME NEW c \in Connections, Page!TimerFires(c) PROVE StatusTruthful'
  BY <1>5 DEF Page!TimerFires, Page!view
<1>6. ASSUME NEW c \in Connections, Page!OnReconnecting(c) PROVE StatusTruthful'
  BY <1>6 DEF Page!OnReconnecting, Page!view
<1>7. ASSUME NEW c \in Connections, Page!OnReconnected(c) PROVE StatusTruthful'
  BY <1>7 DEF Page!OnReconnected, Page!view
<1>8. ASSUME NEW c \in Connections, Page!ReconnectFails(c) PROVE StatusTruthful'
  BY <1>8 DEF Page!ReconnectFails, Page!view
<1>9. ASSUME NEW c \in Connections, Page!OnClose(c) PROVE StatusTruthful'
  BY <1>9 DEF Page!OnClose, Page!view
<1>10. ASSUME NEW c \in Connections, NEW event, Page!ReceiveEvent(c, event) PROVE StatusTruthful'
  BY <1>10 DEF Page!ReceiveEvent
<1>11. CASE UNCHANGED page
  BY <1>11 DEF page
<1> QED
  BY <1>1, <1>2, <1>3, <1>4, <1>5, <1>6, <1>7, <1>8, <1>9, <1>10, <1>11 DEF PageStep

(* StatusTruthful: with any number of connections, the status line claims no more than    *)
(* one of them has.                                                                     *)
THEOREM StatusIsTruthful == Spec => []StatusTruthful
<1>1. Init => StatusTruthful
  BY DEF Init, Page!Init, StatusTruthful, Page!StatusTruthful
<1>2. PageTyped /\ StatusTruthful /\ [Next]_vars => StatusTruthful'
  BY StatusStep, StepsOfPage
<1> QED
  BY PageTypedAlways, <1>1, <1>2, PTL DEF Spec

------------------------------------------------------------------------------
(* The types of the network and of the lists *)

Wire == [topic : Topics, offset : 0..(MaxMessages - 1), run : Nat]
Entry == [topic : Topics, offset : 0..(MaxMessages - 1), run : Nat, via : Connections]

NetTyped ==
    /\ hub \in [Connections -> {"out", "joining", "in"}]
    /\ channel \in [Connections -> Seq(Wire)]
    /\ lists \in [Page!Lists -> Seq(Entry)]
    /\ faults \in 0..MaxFaults
    /\ since \in [Connections -> [Topics -> Nat]]
    /\ \A c \in Connections : hub[c] # "out" => serving /\ link[c] = "Connected"
    /\ \A c \in Connections : channel[c] # <<>> => link[c] = "Connected"
    /\ \A l \in Page!Lists : \A i \in 1..Len(lists[l]) : Page!ListFor(lists[l][i].topic) = l

(* A connection in the hub stays where it is while web server, link and network do. *)
LEMMA NetKept ==
    ASSUME NetTyped, UNCHANGED <<link, lists, network>>, serving => serving'
    PROVE  NetTyped'
BY DEF NetTyped, network, Connections, Page!Connections, Page!Lists, Page!ListFor

(* The prefix that a broken connection still delivers. *)
LEMMA PrefixFacts ==
    ASSUME NEW S, NEW s \in Seq(S), NEW p \in Prefixes(s)
    PROVE  /\ p \in Seq(S)
           /\ Len(p) <= Len(s)
           /\ \A i \in 1..Len(p) : p[i] = s[i]
           /\ s = <<>> => p = <<>>
<1>1. PICK n \in 0..Len(s) : p = SubSeq(s, 1, n)
  BY DEF Prefixes
<1>2. Len(s) \in Nat /\ n \in Int /\ \A i \in 1..n : s[i] \in S
  BY <1>1, LenProperties, ElementOfSeq
<1>3. /\ p \in Seq(S)
      /\ Len(p) = IF 1 <= n THEN n - 1 + 1 ELSE 0
      /\ \A i \in 1..(n - 1 + 1) : p[i] = s[1 + i - 1]
  BY <1>1, <1>2, SubSeqProperties
<1>4. Len(p) = n /\ \A i \in 1..Len(p) : p[i] = s[i]
  BY <1>1, <1>2, <1>3
<1>5. ASSUME s = <<>> PROVE p = <<>>
  <2>1. n = 0
    BY <1>1, <1>5, EmptySeq
  <2> QED
    BY <1>3, <1>4, <2>1, EmptySeq
<1> QED
  BY <1>1, <1>2, <1>3, <1>4, <1>5

LEMMA NextSentType == BridgeTyped => NextSent \in [Topics -> Nat]
<1> SUFFICES ASSUME BridgeTyped, NEW t \in Topics, pending # NoMessage, pending[1] = t PROVE pending[2] \in Nat
  BY DEF NextSent, BridgeTyped, Bridge!TypeOK
<1> QED
  BY StreamAssumption DEF BridgeTyped, Bridge!TypeOK, Bridge!Messages

LEMMA NetInit == Init => NetTyped
BY StreamAssumption DEF Init, Page!Init, NetTyped, Connections, Page!Connections, Page!Lists

LEMMA NetTypedStep == BridgeTyped /\ PageTyped /\ NetTyped /\ [Next]_vars => NetTyped'
<1> SUFFICES ASSUME BridgeTyped, PageTyped, NetTyped, [Next]_vars PROVE NetTyped'
  OBVIOUS
<1> USE StreamAssumption
<1>1. CASE UNCHANGED vars
  BY <1>1, NetKept DEF vars, bridge, page
<1>2. CASE BridgeWorks
  <2>1. UNCHANGED <<page, network>>
    BY <1>2 DEF BridgeWorks
  <2>2. serving' = serving
    BY <1>2 DEF BridgeWorks, Bridge!Produce, Bridge!Start, Bridge!WaitAgain, Bridge!ConsumeThrows,
                Bridge!AutoCommit, Bridge!Rebalance, Bridge!host
  <2> QED
    BY <2>1, <2>2, NetKept DEF page
<1>3. CASE TopicsAwaited
  BY <1>3, NetKept DEF TopicsAwaited, Bridge!Wait, Bridge!TopicsAvailable, Bridge!WaitTimesOut,
                       Bridge!host, page
<1>4. CASE WebServerStarts
  BY <1>4, NetKept DEF WebServerStarts, Bridge!WebServerStarts, page
<1>5. CASE Consumes
  <2>1. serving' = serving
    BY <1>5 DEF Consumes, Bridge!Loop, Bridge!Assign, Bridge!Consume, Bridge!host
  <2> QED
    BY <1>5, <2>1, NetKept DEF Consumes, page
<1>6. CASE Broadcast
  <2>1. /\ serving' = serving /\ UNCHANGED <<page, hub, faults, since>>
        /\ pending \in Messages
    BY <1>6 DEF Broadcast, Bridge!SendReturns, Bridge!host, BridgeTyped, Bridge!TypeOK, Messages
  <2> DEFINE event == [topic |-> pending[1], offset |-> pending[2], run |-> rewinds]
  <2>2. event \in Wire
    BY <2>1 DEF Messages, Bridge!Messages, Wire, BridgeTyped, Bridge!TypeOK
  <2>3. channel' = [c \in Connections |->
             IF hub[c] = "in" THEN Append(channel[c], event) ELSE channel[c]]
    BY <1>6 DEF Broadcast
  <2> HIDE DEF event
  <2>4. channel' \in [Connections -> Seq(Wire)]
    BY <2>2, <2>3, AppendProperties DEF NetTyped
  <2> QED
    BY <2>1, <2>3, <2>4 DEF NetTyped, page
<1>7. CASE BridgeEnds
  <2>1. UNCHANGED <<page, faults, since>> /\ hub' = [c \in Connections |-> "out"]
    BY <1>7 DEF BridgeEnds
  <2>2. DOMAIN channel' = Connections /\ \A c \in Connections : channel'[c] \in Prefixes(channel[c])
    BY <1>7 DEF BridgeEnds
  <2>3. \A c \in Connections : channel'[c] \in Seq(Wire) /\ (channel[c] = <<>> => channel'[c] = <<>>)
    BY <2>2, PrefixFacts DEF NetTyped
  <2>4. channel' \in [Connections -> Seq(Wire)]
    BY <1>7, <2>2, <2>3 DEF BridgeEnds
  <2> QED
    BY <2>1, <2>3, <2>4 DEF NetTyped, page
<1>8. CASE Renders
  <2>1. /\ mount = 0 /\ UNCHANGED <<lists, network, serving>>
        /\ link' = [link EXCEPT ![1] = "Connecting"]
    BY <1>8 DEF Renders, Page!Render, Page!view, bridge
  <2>2. 1 \in Connections /\ link[1] = "Disconnected"
    BY <2>1 DEF PageTyped, Connections, Page!Connections
  <2> QED
    BY <2>1, <2>2 DEF NetTyped, PageTyped, network
<1>9. CASE Refreshes
  <2>1. /\ mount \in Connections /\ mount + 1 \in Connections
        /\ link[mount + 1] = "Disconnected"
    BY <1>9 DEF Refreshes, Page!Refresh, PageTyped, Connections, Page!Connections
  <2>2. \A c \in Connections : c # mount /\ c # mount + 1 => link'[c] = link[c]
    BY <1>9, <2>1 DEF Refreshes, Page!Refresh, PageTyped
  <2>3. /\ hub' = [hub EXCEPT ![mount] = "out"] /\ channel' = [channel EXCEPT ![mount] = <<>>]
        /\ UNCHANGED <<serving, faults, since, lists>>
    BY <1>9 DEF Refreshes, Page!Refresh, bridge
  <2> QED
    BY <2>1, <2>2, <2>3 DEF NetTyped
<1>10. ASSUME NEW c \in Connections, HubJoins(c) \/ ConnectionBreaks(c) PROVE NetTyped'
  <2>1. UNCHANGED <<serving, link, lists>>
    BY <1>10 DEF HubJoins, ConnectionBreaks, bridge, page
  <2>2. CASE HubJoins(c)
    <3>1. since' = [since EXCEPT ![c] = NextSent]
      BY <2>2 DEF HubJoins
    <3> QED
      BY <2>1, <2>2, <3>1, NextSentType DEF HubJoins, NetTyped
  <2>3. CASE ConnectionBreaks(c)
    <3>1. PICK rest \in Prefixes(channel[c]) : channel' = [channel EXCEPT ![c] = rest]
      BY <2>3 DEF ConnectionBreaks
    <3>2. rest \in Seq(Wire) /\ (channel[c] = <<>> => rest = <<>>)
      BY <3>1, PrefixFacts DEF NetTyped
    <3>3. hub' = [hub EXCEPT ![c] = "out"] /\ faults' \in 0..MaxFaults /\ since' = since
      BY <2>3 DEF ConnectionBreaks, Fault, NetTyped
    <3> QED
      BY <2>1, <3>1, <3>2, <3>3 DEF NetTyped
  <2> QED
    BY <1>10, <2>2, <2>3
<1>11. ASSUME NEW c \in Connections, PageStarts(c) \/ PageReconnects(c) \/ PageCloses(c)
       PROVE  NetTyped'
  <2>1. UNCHANGED <<serving, lists, since>> /\ faults' \in 0..MaxFaults
    BY <1>11 DEF PageStarts, PageReconnects, PageCloses, bridge, network, AttemptFails, Accepted, Fault,
                 Page!StartSucceeds, Page!StartFails, Page!TimerFires, Page!OnReconnecting,
                 Page!OnReconnected, Page!ReconnectFails, Page!OnClose, Page!view, NetTyped
  <2>2. \A d \in Connections \ {c} : link'[d] = link[d]
    BY <1>11 DEF PageStarts, PageReconnects, PageCloses, PageTyped,
                 Page!StartSucceeds, Page!StartFails, Page!TimerFires, Page!OnReconnecting,
                 Page!OnReconnected, Page!ReconnectFails, Page!OnClose
  <2>3. CASE UNCHANGED <<hub, channel>> /\ hub[c] = "out" /\ channel[c] = <<>>
    BY <2>1, <2>2, <2>3 DEF NetTyped
  <2>4. CASE Accepted(c) /\ link'[c] = "Connected"
    BY <2>1, <2>2, <2>4 DEF NetTyped, Accepted, Reachable
  <2>5. ASSUME link[c] # "Connected" PROVE hub[c] = "out" /\ channel[c] = <<>>
    BY <2>5 DEF NetTyped
  <2>6. CASE PageStarts(c)
    BY <2>3, <2>4, <2>5, <2>6
       DEF PageStarts, network, Page!StartSucceeds, Page!StartFails, Page!TimerFires, PageTyped
  <2>7. CASE PageReconnects(c)
    BY <2>3, <2>4, <2>5, <2>7
       DEF PageReconnects, network, Page!OnReconnecting, Page!OnReconnected, Page!ReconnectFails, PageTyped
  <2>8. CASE PageCloses(c)
    BY <2>3, <2>5, <2>8 DEF PageCloses, network, Page!OnClose
  <2> QED
    BY <1>11, <2>6, <2>7, <2>8
<1>12. ASSUME NEW c \in Connections, Receives(c) PROVE NetTyped'
  <2> DEFINE e == Head(channel[c])
             entry == [topic |-> e.topic, offset |-> e.offset, run |-> e.run, via |-> c]
  <2>1. /\ channel[c] \in Seq(Wire) /\ channel[c] # <<>>
        /\ UNCHANGED <<serving, link, hub, faults, since>>
        /\ channel' = [channel EXCEPT ![c] = Tail(channel[c])]
    BY <1>12 DEF Receives, NetTyped, bridge, Page!ReceiveEvent
  <2>2. e \in Wire /\ Tail(channel[c]) \in Seq(Wire)
    BY <2>1, HeadTailProperties
  <2>3. entry \in Entry
    BY <2>2 DEF Wire, Entry
  <2>4. lists' = [l \in Page!Lists |->
                    IF l = Page!ListFor(entry.topic) THEN <<entry>> \o lists[l] ELSE lists[l]]
    BY <1>12 DEF Receives, Page!ReceiveEvent
  <2> HIDE DEF entry
  <2>5. <<entry>> \in Seq(Entry) /\ Len(<<entry>>) = 1 /\ <<entry>>[1] = entry
    BY <2>3
  <2>6. ASSUME NEW l \in Page!Lists
        PROVE  /\ lists'[l] \in Seq(Entry)
               /\ \A i \in 1..Len(lists'[l]) : Page!ListFor(lists'[l][i].topic) = l
    <3>1. lists[l] \in Seq(Entry) /\ Len(lists[l]) \in Nat
      BY LenProperties DEF NetTyped
    <3>2. CASE l = Page!ListFor(entry.topic)
      <4>1. lists'[l] = <<entry>> \o lists[l]
        BY <2>4, <3>2
      <4>2. /\ lists'[l] \in Seq(Entry)
            /\ Len(lists'[l]) = 1 + Len(lists[l])
            /\ \A i \in 1..(1 + Len(lists[l])) :
                   lists'[l][i] = IF i <= 1 THEN <<entry>>[i] ELSE lists[l][i - 1]
        BY <2>5, <3>1, <4>1, ConcatProperties
      <4>3. ASSUME NEW i \in 1..(1 + Len(lists[l]))
            PROVE  Page!ListFor(lists'[l][i].topic) = l
        <5>1. CASE i <= 1
          <6>1. lists'[l][i] = entry
            BY <2>5, <4>2, <5>1
          <6> QED
            BY <6>1, <3>2
        <5>2. CASE i > 1
          <6>1. lists'[l][i] = lists[l][i - 1] /\ i - 1 \in 1..Len(lists[l])
            BY <3>1, <4>2, <5>2
          <6>2. Page!ListFor(lists[l][i - 1].topic) = l
            BY <6>1 DEF NetTyped
          <6> QED
            BY <6>1, <6>2
        <5> QED
          BY <3>1, <5>1, <5>2
      <4> QED
        BY <4>2, <4>3
    <3>3. CASE l # Page!ListFor(entry.topic)
      BY <2>4, <3>1, <3>3 DEF NetTyped
    <3> QED
      BY <3>2, <3>3
  <2>7. lists' \in [Page!Lists -> Seq(Entry)]
    BY <2>4, <2>6
  <2> QED
    BY <1>12, <2>1, <2>2, <2>6, <2>7 DEF NetTyped, Page!ReceiveEvent
<1> QED
  BY <1>1, <1>2, <1>3, <1>4, <1>5, <1>6, <1>7, <1>8, <1>9, <1>10, <1>11, <1>12 DEF Next, PageWorks

LEMMA NetTypedAlways == Spec => []NetTyped
BY NetInit, NetTypedStep, BridgeTypedAlways, PageTypedAlways, PTL DEF Spec

(* TypeOK: types of both parts, of the hub and of the lists; no connection is in the hub  *)
(* that the page does not believe to have.                                             *)
THEOREM TypeCorrect == Spec => []TypeOK
<1>1. ASSUME BridgeTyped, PageTyped, NetTyped PROVE TypeOK
  <2>1. Page!TypeOK
    <3>1. DOMAIN lists = Page!Lists
      BY <1>1 DEF NetTyped
    <3>2. ASSUME NEW l \in Page!Lists, NEW i \in DOMAIN lists[l]
          PROVE  Page!ListFor(lists[l][i].topic) = l
      <4>1. DOMAIN lists[l] = 1..Len(lists[l])
        BY <1>1, LenProperties DEF NetTyped
      <4> QED
        BY <1>1, <4>1 DEF NetTyped
    <3> QED
      BY <1>1, <3>1, <3>2 DEF PageTyped, Page!TypeOK, Connections
  <2> QED
    BY <1>1, <2>1 DEF TypeOK, BridgeTyped, NetTyped
<1> QED
  BY BridgeTypedAlways, PageTypedAlways, NetTypedAlways, <1>1, PTL

------------------------------------------------------------------------------
(* The order of the lists *)

(* An offset that has left the loop, in a run of rewinds that is over or in this one. *)
Gone(t, o, r) ==
    /\ r <= rewinds
    /\ r = rewinds => o < position[t] /\ <<t, o>> # pending

LEMMA GoneStep ==
    ASSUME BridgeTyped, BridgeStep, NEW t \in Topics, NEW o \in Nat, NEW r \in Nat, Gone(t, o, r)
    PROVE  Gone(t, o, r)'
<1> USE StreamAssumption DEF Gone
<1>1. ASSUME NEW s \in Topics, Bridge!Produce(s) PROVE Gone(t, o, r)'
  BY <1>1 DEF Bridge!Produce, Bridge!history
<1>2. CASE Bridge!Start \/ Bridge!TopicsAvailable \/ Bridge!WaitAgain \/ Bridge!WaitTimesOut
  BY <1>2 DEF Bridge!Start, Bridge!TopicsAvailable, Bridge!WaitAgain, Bridge!WaitTimesOut, Bridge!history
<1>3. CASE Bridge!WebServerStarts \/ Bridge!WebServerStops \/ Bridge!ConsumeThrows \/ Bridge!AutoCommit
  BY <1>3 DEF Bridge!WebServerStarts, Bridge!WebServerStops, Bridge!ConsumeThrows, Bridge!AutoCommit, Bridge!history
<1>4. CASE Bridge!Assign
  BY <1>4 DEF Bridge!Assign, Bridge!history, BridgeTyped, Bridge!TypeOK
<1>5. ASSUME NEW s \in Topics, Bridge!Consume(s) PROVE Gone(t, o, r)'
  <2>1. /\ position' = [position EXCEPT ![s] = @ + 1] /\ rewinds' = rewinds
        /\ pending' = pending \/ pending' = <<s, position[s]>>
    BY <1>5 DEF Bridge!Consume, Bridge!history
  <2>2. position[t] \in Nat /\ position'[t] >= position[t]
    BY <2>1 DEF BridgeTyped, Bridge!TypeOK
  <2> QED
    BY <2>1, <2>2
<1>6. CASE Bridge!SendReturns
  <2>1. position' = position /\ rewinds' = rewinds /\ pending' = NoMessage
    BY <1>6 DEF Bridge!SendReturns
  <2>2. position[t] <= MaxMessages /\ position[t] \in Nat
    BY DEF BridgeTyped, Bridge!TypeOK
  <2>3. o < position[t] => <<t, o>> \in Topics \X (0..(MaxMessages - 1))
    BY <2>2
  <2> QED
    BY <2>1, <2>3
<1>7. CASE Bridge!Shutdown
  <2>1. rewinds' = rewinds /\ position' = Bridge!Stored /\ pending' = NoMessage
    BY <1>7 DEF Bridge!Shutdown, Bridge!Release
  <2>2. pending = NoMessage
    BY <1>7 DEF Bridge!Shutdown, BridgeTyped, Bridge!TypeOK
  <2>3. position'[t] = position[t]
    BY <2>1 DEF Bridge!Stored, BridgeTyped, Bridge!TypeOK
  <2> QED
    BY <2>1, <2>2, <2>3
<1>8. CASE Bridge!Crash
  BY <1>8 DEF Bridge!Crash, BridgeTyped, Bridge!TypeOK
<1>9. CASE Bridge!Rebalance
  <2>1. CASE rewinds' = rewinds + 1
    BY <2>1 DEF BridgeTyped, Bridge!TypeOK
  <2>2. CASE rewinds' = rewinds /\ Bridge!Release(Bridge!Stored)
    <3>1. position' = Bridge!Stored /\ pending' = NoMessage
      BY <2>2 DEF Bridge!Release
    <3>2. pending = NoMessage
      BY <1>9 DEF Bridge!Rebalance, BridgeTyped, Bridge!TypeOK
    <3>3. position'[t] = position[t]
      BY <3>1 DEF Bridge!Stored, BridgeTyped, Bridge!TypeOK
    <3> QED
      BY <2>2, <3>1, <3>2, <3>3
  <2> QED
    BY <1>9, <2>1, <2>2 DEF Bridge!Rebalance
<1>10. CASE UNCHANGED bridge
  BY <1>10 DEF bridge
<1> QED
  BY <1>1, <1>2, <1>3, <1>4, <1>5, <1>6, <1>7, <1>8, <1>9, <1>10 DEF BridgeStep

(* Every event on the way or on the page has left the loop. *)
LeftLoop ==
    /\ \A c \in Connections : \A i \in 1..Len(channel[c]) :
          Gone(channel[c][i].topic, channel[c][i].offset, channel[c][i].run)
    /\ \A l \in Page!Lists : \A i \in 1..Len(lists[l]) :
          Gone(lists[l][i].topic, lists[l][i].offset, lists[l][i].run)

Precedes(d, e) == d.topic = e.topic /\ d.run = e.run => d.offset < e.offset

(* A connection carries the events of a topic in order, behind those it has delivered, *)
(* and they are on the page in the opposite order.                                    *)
InOrder ==
    /\ \A c \in Connections : \A i, j \in 1..Len(channel[c]) :
          i < j => Precedes(channel[c][i], channel[c][j])
    /\ \A l \in Page!Lists : \A i \in 1..Len(lists[l]) : \A c \in Connections : \A j \in 1..Len(channel[c]) :
          lists[l][i].via = c => Precedes(lists[l][i], channel[c][j])
    /\ \A l \in Page!Lists : \A i, j \in 1..Len(lists[l]) :
          i < j /\ lists[l][i].via = lists[l][j].via => Precedes(lists[l][j], lists[l][i])

(* Nothing arrives, and what is under way is cut off at most. *)
LEMMA OrderKept ==
    ASSUME NetTyped, NetTyped', BridgeTyped, BridgeStep, LeftLoop, InOrder,
           lists' = lists,
           \A c \in Connections : /\ Len(channel'[c]) <= Len(channel[c])
                                  /\ \A i \in 1..Len(channel'[c]) : channel'[c][i] = channel[c][i]
    PROVE  LeftLoop' /\ InOrder'
<1>1. ASSUME NEW c \in Connections
      PROVE  /\ channel[c] \in Seq(Wire) /\ channel'[c] \in Seq(Wire)
             /\ Len(channel[c]) \in Nat /\ Len(channel'[c]) \in Nat
  BY LenProperties DEF NetTyped
<1>2. ASSUME NEW c \in Connections, NEW i \in 1..Len(channel'[c])
      PROVE  Gone(channel[c][i].topic, channel[c][i].offset, channel[c][i].run)'
  <2>1. i \in 1..Len(channel[c]) /\ channel'[c][i] = channel[c][i]
    BY <1>1
  <2>2. channel[c][i] \in Wire
    BY <1>1, <2>1, ElementOfSeq
  <2>3. Gone(channel[c][i].topic, channel[c][i].offset, channel[c][i].run)
    BY <2>1 DEF LeftLoop
  <2> QED
    BY <2>1, <2>2, <2>3, GoneStep DEF Wire, Gone
<1>3. ASSUME NEW l \in Page!Lists, NEW i \in 1..Len(lists[l])
      PROVE  Gone(lists[l][i].topic, lists[l][i].offset, lists[l][i].run)'
  <2>1. lists[l][i] \in Entry
    BY ElementOfSeq DEF NetTyped
  <2>2. Gone(lists[l][i].topic, lists[l][i].offset, lists[l][i].run)
    BY DEF LeftLoop
  <2> QED
    BY <2>1, <2>2, GoneStep DEF Entry, Gone
<1>4. LeftLoop'
  BY <1>2, <1>3 DEF LeftLoop
<1>5. ASSUME NEW c \in Connections, NEW i \in 1..Len(channel'[c])
      PROVE  i \in 1..Len(channel[c]) /\ channel'[c][i] = channel[c][i]
  BY <1>1
<1>6. \A c \in Connections : \A i, j \in 1..Len(channel'[c]) :
        i < j => Precedes(channel'[c][i], channel'[c][j])
  <2> TAKE c \in Connections
  <2> TAKE i, j \in 1..Len(channel'[c])
  <2>1. i < j => Precedes(channel[c][i], channel[c][j])
    BY <1>5 DEF InOrder
  <2> QED
    BY <1>5, <2>1
<1>7. \A l \in Page!Lists : \A i \in 1..Len(lists[l]) : \A c \in Connections : \A j \in 1..Len(channel'[c]) :
        lists[l][i].via = c => Precedes(lists[l][i], channel'[c][j])
  BY <1>5 DEF InOrder
<1>8. InOrder'
  BY <1>6, <1>7 DEF InOrder, Precedes
<1> QED
  BY <1>4, <1>8

(* What is broadcast was read after everything that left the loop in the same run. *)
LEMMA OrderBroadcast ==
    ASSUME NetTyped, NetTyped', BridgeTyped, BridgeStep, LeftLoop, InOrder, Broadcast
    PROVE  LeftLoop' /\ InOrder'
<1>1. PICK event : event = [topic |-> pending[1], offset |-> pending[2], run |-> rewinds]
  OBVIOUS
<1>2. /\ pending \in Messages /\ pending # NoMessage
      /\ lists' = lists /\ position' = position /\ rewinds' = rewinds /\ pending' = NoMessage
      /\ channel' = [c \in Connections |->
             IF hub[c] = "in" THEN Append(channel[c], event) ELSE channel[c]]
  BY <1>1 DEF Broadcast, Bridge!SendReturns, page, BridgeTyped, Bridge!TypeOK, Messages
<1>3. /\ event \in Wire
      /\ event.offset + 1 = position[event.topic]
      /\ event.run = rewinds
      /\ pending = <<event.topic, event.offset>>
  BY <1>1, <1>2 DEF Messages, Bridge!Messages, Wire, BridgeTyped, Bridge!TypeOK, PendingRead
<1>4. Gone(event.topic, event.offset, event.run)'
  BY <1>2, <1>3, StreamAssumption DEF Gone, Wire, BridgeTyped, Bridge!TypeOK
<1>5. ASSUME NEW c \in Connections, NEW i \in 1..Len(channel'[c])
      PROVE  \/ i \in 1..Len(channel[c]) /\ channel'[c][i] = channel[c][i]
             \/ i = Len(channel[c]) + 1 /\ channel'[c][i] = event
  <2>1. channel[c] \in Seq(Wire) /\ Len(channel[c]) \in Nat
    BY LenProperties DEF NetTyped
  <2>2. CASE hub[c] = "in"
    <3>1. channel'[c] = Append(channel[c], event)
      BY <1>2, <2>2
    <3>2. /\ Len(channel'[c]) = Len(channel[c]) + 1
          /\ \A k \in 1..Len(channel[c]) : channel'[c][k] = channel[c][k]
          /\ channel'[c][Len(channel[c]) + 1] = event
      BY <1>2, <2>1, <3>1, AppendProperties
    <3> QED
      BY <2>1, <3>2
  <2>3. CASE hub[c] # "in"
    BY <1>2, <2>1, <2>3
  <2> QED
    BY <2>2, <2>3
<1>6. ASSUME NEW d, d \in Wire \/ d \in Entry, Gone(d.topic, d.offset, d.run)
      PROVE  Gone(d.topic, d.offset, d.run)' /\ Precedes(d, event)
  <2>1. d.topic \in Topics /\ d.offset \in Nat /\ d.run \in Nat
    BY <1>6, StreamAssumption DEF Wire, Entry
  <2>2. Gone(d.topic, d.offset, d.run)'
    BY <1>6, <2>1, GoneStep
  <2>3. Precedes(d, event)
    BY <1>3, <1>6, <2>1 DEF Gone, Precedes, Wire, BridgeTyped, Bridge!TypeOK
  <2> QED
    BY <2>2, <2>3
<1>7. ASSUME NEW c \in Connections, NEW i \in 1..Len(channel[c]), NEW d, d = channel[c][i]
      PROVE  Gone(d.topic, d.offset, d.run)' /\ Precedes(d, event)
  <2>1. d \in Wire
    BY <1>7, ElementOfSeq DEF NetTyped
  <2>2. Gone(d.topic, d.offset, d.run)
    BY <1>7 DEF LeftLoop
  <2> QED
    BY <2>1, <2>2, <1>6
<1>8. ASSUME NEW l \in Page!Lists, NEW i \in 1..Len(lists[l]), NEW d, d = lists[l][i]
      PROVE  Gone(d.topic, d.offset, d.run)' /\ Precedes(d, event)
  <2>1. d \in Entry
    BY <1>8, ElementOfSeq DEF NetTyped
  <2>2. Gone(d.topic, d.offset, d.run)
    BY <1>8 DEF LeftLoop
  <2> QED
    BY <2>1, <2>2, <1>6
<1>9. ASSUME NEW c \in Connections, NEW i \in 1..Len(channel'[c]), NEW d, d = channel'[c][i]
      PROVE  Gone(d.topic, d.offset, d.run)'
  BY <1>4, <1>5, <1>7, <1>9
<1>10. LeftLoop'
  BY <1>2, <1>8, <1>9 DEF LeftLoop
<1>11. \A c \in Connections : \A i, j \in 1..Len(channel'[c]) :
         i < j => Precedes(channel'[c][i], channel'[c][j])
  <2> TAKE c \in Connections
  <2> TAKE i, j \in 1..Len(channel'[c])
  <2> HAVE i < j
  <2>1. Len(channel[c]) \in Nat
    BY LenProperties DEF NetTyped
  <2>2. i \in 1..Len(channel[c]) /\ channel'[c][i] = channel[c][i]
    BY <1>5, <2>1
  <2>3. CASE channel'[c][j] = event
    BY <1>7, <2>2, <2>3
  <2>4. CASE j \in 1..Len(channel[c]) /\ channel'[c][j] = channel[c][j]
    BY <2>2, <2>4 DEF InOrder
  <2> QED
    BY <1>5, <2>3, <2>4
<1>12. \A l \in Page!Lists : \A i \in 1..Len(lists[l]) : \A c \in Connections : \A j \in 1..Len(channel'[c]) :
         lists[l][i].via = c => Precedes(lists[l][i], channel'[c][j])
  BY <1>5, <1>8 DEF InOrder
<1>13. \A l \in Page!Lists : \A i, j \in 1..Len(lists[l]) :
         i < j /\ lists[l][i].via = lists[l][j].via => Precedes(lists[l][j], lists[l][i])
  BY DEF InOrder
<1>14. InOrder'
  <2>1. lists' = lists
    BY <1>2
  <2> QED
    BY <2>1, <1>11, <1>12, <1>13 DEF InOrder, Precedes
<1> QED
  BY <1>10, <1>14

(* The head of a connection becomes the top of a list: it is the youngest event that       *)
(* connection has delivered, and the oldest it still carried.                           *)
LEMMA OrderReceives ==
    ASSUME NetTyped, NetTyped', BridgeTyped, BridgeStep, LeftLoop, InOrder,
           NEW c \in Connections, Receives(c)
    PROVE  LeftLoop' /\ InOrder'
<1>1. PICK e : e = Head(channel[c])
  OBVIOUS
<1>2. PICK entry : entry = [topic |-> e.topic, offset |-> e.offset, run |-> e.run, via |-> c]
  OBVIOUS
<1>3. /\ channel[c] \in Seq(Wire) /\ channel[c] # <<>>
      /\ channel' = [channel EXCEPT ![c] = Tail(channel[c])]
      /\ UNCHANGED bridge
      /\ lists' = [l \in Page!Lists |->
                     IF l = Page!ListFor(entry.topic) THEN <<entry>> \o lists[l] ELSE lists[l]]
  BY <1>1, <1>2 DEF Receives, NetTyped, Page!ReceiveEvent
<1>4. /\ e \in Wire /\ e = channel[c][1] /\ 1 \in 1..Len(channel[c])
      /\ Len(channel[c]) \in Nat /\ Len(Tail(channel[c])) = Len(channel[c]) - 1
      /\ \A i \in 1..Len(Tail(channel[c])) : Tail(channel[c])[i] = channel[c][i + 1]
  BY <1>1, <1>3, HeadTailProperties, EmptySeq, LenProperties
<1>5. entry \in Entry /\ entry.via = c
  BY <1>2, <1>4 DEF Wire, Entry
<1>6. Gone(entry.topic, entry.offset, entry.run)
  BY <1>2, <1>4 DEF LeftLoop
<1>7. \A t, o, r : Gone(t, o, r)' <=> Gone(t, o, r)
  BY <1>3 DEF bridge, Bridge!history, Gone
<1>8. ASSUME NEW d \in Connections, NEW i \in 1..Len(channel'[d])
      PROVE  \E k \in 1..Len(channel[d]) :
                /\ channel'[d][i] = channel[d][k]
                /\ k = IF d = c THEN i + 1 ELSE i
  BY <1>3, <1>4 DEF NetTyped
<1>9. ASSUME NEW l \in Page!Lists, NEW i \in 1..Len(lists'[l])
      PROVE  \/ i = 1 /\ lists'[l][i] = entry /\ Len(lists'[l]) = Len(lists[l]) + 1
             \/ /\ Len(lists'[l]) = Len(lists[l]) + 1 /\ i > 1
                /\ i - 1 \in 1..Len(lists[l]) /\ lists'[l][i] = lists[l][i - 1]
             \/ /\ Len(lists'[l]) = Len(lists[l])
                /\ i \in 1..Len(lists[l]) /\ lists'[l][i] = lists[l][i]
  <2>1. lists[l] \in Seq(Entry) /\ Len(lists[l]) \in Nat
    BY LenProperties DEF NetTyped
  <2>2. CASE l = Page!ListFor(entry.topic)
    <3>1. lists'[l] = <<entry>> \o lists[l]
      BY <1>3, <2>2
    <3>2. <<entry>> \in Seq(Entry) /\ Len(<<entry>>) = 1 /\ <<entry>>[1] = entry
      BY <1>5
    <3>3. /\ Len(lists'[l]) = 1 + Len(lists[l])
          /\ \A k \in 1..(1 + Len(lists[l])) :
                lists'[l][k] = IF k <= 1 THEN <<entry>>[k] ELSE lists[l][k - 1]
      BY <2>1, <3>1, <3>2, ConcatProperties
    <3> QED
      BY <2>1, <3>2, <3>3
  <2>3. CASE l # Page!ListFor(entry.topic)
    BY <1>3, <2>1, <2>3
  <2> QED
    BY <2>2, <2>3
<1>10. LeftLoop'
  <2>1. ASSUME NEW d \in Connections, NEW i \in 1..Len(channel'[d])
        PROVE  Gone(channel'[d][i].topic, channel'[d][i].offset, channel'[d][i].run)
    BY <1>8 DEF LeftLoop
  <2>2. ASSUME NEW l \in Page!Lists, NEW i \in 1..Len(lists'[l])
        PROVE  Gone(lists'[l][i].topic, lists'[l][i].offset, lists'[l][i].run)
    BY <1>6, <1>9 DEF LeftLoop
  <2> QED
    BY <1>3, <2>1, <2>2 DEF LeftLoop, Gone, bridge, Bridge!history
<1>11. \A d \in Connections : \A i, j \in 1..Len(channel'[d]) :
         i < j => Precedes(channel'[d][i], channel'[d][j])
  <2> TAKE d \in Connections
  <2> TAKE i, j \in 1..Len(channel'[d])
  <2> HAVE i < j
  <2>1. Len(channel'[d]) \in Nat
    BY LenProperties DEF NetTyped
  <2> QED
    BY <1>8, <2>1 DEF InOrder
<1>12. \A l \in Page!Lists : \A i \in 1..Len(lists'[l]) : \A d \in Connections : \A j \in 1..Len(channel'[d]) :
         lists'[l][i].via = d => Precedes(lists'[l][i], channel'[d][j])
  <2> TAKE l \in Page!Lists
  <2> TAKE i \in 1..Len(lists'[l])
  <2> TAKE d \in Connections
  <2> TAKE j \in 1..Len(channel'[d])
  <2> HAVE lists'[l][i].via = d
  <2>1. PICK k \in 1..Len(channel[d]) :
              channel'[d][j] = channel[d][k] /\ k = IF d = c THEN j + 1 ELSE j
    BY <1>8
  <2>2. CASE lists'[l][i] = entry
    <3>1. d = c /\ 1 < k
      BY <1>5, <2>1, <2>2, LenProperties DEF NetTyped
    <3>2. Precedes(e, channel[c][k])
      BY <1>4, <2>1, <3>1 DEF InOrder
    <3> QED
      BY <1>2, <2>1, <2>2, <3>1, <3>2 DEF Precedes
  <2>3. CASE \E h \in 1..Len(lists[l]) : lists'[l][i] = lists[l][h]
    BY <2>1, <2>3 DEF InOrder
  <2> QED
    BY <1>9, <2>2, <2>3
<1>13. \A l \in Page!Lists : \A i, j \in 1..Len(lists'[l]) :
         i < j /\ lists'[l][i].via = lists'[l][j].via => Precedes(lists'[l][j], lists'[l][i])
  <2> TAKE l \in Page!Lists
  <2> TAKE i, j \in 1..Len(lists'[l])
  <2> HAVE i < j /\ lists'[l][i].via = lists'[l][j].via
  <2>1. Len(lists[l]) \in Nat
    BY LenProperties DEF NetTyped
  <2>2. CASE lists'[l][i] = entry /\ \E h \in 1..Len(lists[l]) : lists'[l][j] = lists[l][h]
    <3>1. PICK h \in 1..Len(lists[l]) : lists'[l][j] = lists[l][h]
      BY <2>2
    <3>2. Precedes(lists[l][h], channel[c][1])
      BY <1>4, <1>5, <2>2, <3>1 DEF InOrder
    <3> QED
      BY <1>2, <1>4, <2>2, <3>1, <3>2 DEF Precedes
  <2>3. CASE \E g, h \in 1..Len(lists[l]) : g < h /\ lists'[l][i] = lists[l][g] /\ lists'[l][j] = lists[l][h]
    BY <2>3 DEF InOrder
  <2>4. CASE Len(lists'[l]) = Len(lists[l]) + 1
    <3>1. j - 1 \in 1..Len(lists[l]) /\ lists'[l][j] = lists[l][j - 1]
      BY <1>9, <2>1, <2>4
    <3>2. CASE i = 1
      <4>1. lists'[l][i] = entry
        BY <1>9, <2>1, <2>4, <3>2
      <4> QED
        BY <2>2, <3>1, <4>1
    <3>3. CASE i > 1
      <4>1. i - 1 \in 1..Len(lists[l]) /\ lists'[l][i] = lists[l][i - 1] /\ i - 1 < j - 1
        BY <1>9, <2>1, <2>4, <3>3
      <4> QED
        BY <2>3, <3>1, <4>1
    <3> QED
      BY <3>2, <3>3
  <2>5. CASE Len(lists'[l]) = Len(lists[l])
    <3>1. /\ i \in 1..Len(lists[l]) /\ lists'[l][i] = lists[l][i]
          /\ j \in 1..Len(lists[l]) /\ lists'[l][j] = lists[l][j]
      BY <1>9, <2>1, <2>5
    <3> QED
      BY <2>3, <3>1
  <2> QED
    BY <1>9, <2>4, <2>5
<1>14. InOrder'
  BY <1>11, <1>12, <1>13 DEF InOrder
<1> QED
  BY <1>10, <1>14

LEMMA OrderInit == Init => LeftLoop /\ InOrder
BY DEF Init, Page!Init, LeftLoop, InOrder, Connections, Page!Connections, Page!Lists

LEMMA OrderStep ==
    NetTyped /\ NetTyped' /\ BridgeTyped /\ PageTyped /\ LeftLoop /\ InOrder /\ [Next]_vars
        => LeftLoop' /\ InOrder'
<1> SUFFICES ASSUME NetTyped, NetTyped', BridgeTyped, PageTyped, LeftLoop, InOrder, [Next]_vars
             PROVE  LeftLoop' /\ InOrder'
  OBVIOUS
<1>1. BridgeStep
  BY StepsOfBridge
<1>2. CASE lists' = lists /\ \A c \in Connections : channel'[c] \in Prefixes(channel[c]) \cup {channel[c], <<>>}
  <2>1. ASSUME NEW c \in Connections
        PROVE  /\ Len(channel'[c]) <= Len(channel[c])
               /\ \A i \in 1..Len(channel'[c]) : channel'[c][i] = channel[c][i]
    <3>1. channel[c] \in Seq(Wire) /\ Len(channel[c]) \in Nat /\ Len(<<>>) = 0
      BY LenProperties, EmptySeq DEF NetTyped
    <3>2. CASE channel'[c] \in Prefixes(channel[c])
      BY <3>1, <3>2, PrefixFacts
    <3>3. CASE channel'[c] = channel[c]
      BY <3>1, <3>3
    <3>4. CASE channel'[c] = <<>>
      BY <3>1, <3>4
    <3> QED
      BY <1>2, <3>2, <3>3, <3>4
  <2> QED
    BY <1>1, <1>2, <2>1, OrderKept
<1>3. CASE UNCHANGED vars
  BY <1>2, <1>3 DEF vars, page, network
<1>4. CASE BridgeWorks \/ TopicsAwaited \/ WebServerStarts \/ Consumes
  BY <1>2, <1>4 DEF BridgeWorks, TopicsAwaited, WebServerStarts, Consumes, page, network
<1>5. CASE Broadcast
  BY <1>1, <1>5, OrderBroadcast
<1>6. CASE BridgeEnds
  BY <1>2, <1>6 DEF BridgeEnds, page
<1>7. CASE Renders
  BY <1>2, <1>7 DEF Renders, Page!Render, Page!view, network
<1>8. CASE Refreshes
  BY <1>2, <1>8 DEF Refreshes, Page!Refresh, NetTyped
<1>9. ASSUME NEW c \in Connections, HubJoins(c) \/ ConnectionBreaks(c) PROVE LeftLoop' /\ InOrder'
  BY <1>2, <1>9 DEF HubJoins, ConnectionBreaks, page, NetTyped
<1>10. ASSUME NEW c \in Connections, PageStarts(c) \/ PageReconnects(c) \/ PageCloses(c)
       PROVE  LeftLoop' /\ InOrder'
  BY <1>2, <1>10 DEF PageStarts, PageReconnects, PageCloses, network, AttemptFails, Accepted,
                     Page!StartSucceeds, Page!StartFails, Page!TimerFires, Page!OnReconnecting,
                     Page!OnReconnected, Page!ReconnectFails, Page!OnClose, Page!view
<1>11. ASSUME NEW c \in Connections, Receives(c) PROVE LeftLoop' /\ InOrder'
  BY <1>1, <1>11, OrderReceives
<1> QED
  BY <1>3, <1>4, <1>5, <1>6, <1>7, <1>8, <1>9, <1>10, <1>11 DEF Next, PageWorks

(* NewestFirst: the events of one topic that one connection delivered are on the page in   *)
(* descending order of their offsets, for logs of any length.                            *)
THEOREM ListsNewestFirst == Spec => []NewestFirst
<1>1. NetTyped /\ InOrder => NewestFirst
  <2> SUFFICES ASSUME NetTyped, InOrder, NEW l \in Page!Lists,
                      NEW i \in DOMAIN lists[l], NEW j \in DOMAIN lists[l],
                      i < j, lists[l][i].topic = lists[l][j].topic,
                      lists[l][i].via = lists[l][j].via, lists[l][i].run = lists[l][j].run
               PROVE  lists[l][i].offset > lists[l][j].offset
    BY DEF NewestFirst
  <2>1. DOMAIN lists[l] = 1..Len(lists[l]) /\ lists[l] \in Seq(Entry)
    BY LenProperties DEF NetTyped
  <2>2. lists[l][j].offset < lists[l][i].offset
    BY <2>1 DEF InOrder, Precedes
  <2>3. lists[l][i] \in Entry /\ lists[l][j] \in Entry
    BY <2>1, ElementOfSeq
  <2> QED
    BY <2>2, <2>3, StreamAssumption DEF Entry
<1> QED
  BY BridgeTypedAlways, PageTypedAlways, NetTypedAlways, OrderInit, OrderStep, <1>1, PTL DEF Spec

------------------------------------------------------------------------------
(* What a connection misses, and what it shows twice *)

(* Only Consume moves a position up, past a blank message or the one in the loop. *)
LEMMA ReadBefore ==
    ASSUME BridgeTyped, BridgeStep, NEW t \in Topics, NEW o \in Nat,
           o < position'[t], <<t, o>> \notin Blank, <<t, o>> # pending'
    PROVE  o < position[t]
<1> USE StreamAssumption DEF BridgeTyped, Bridge!TypeOK
<1>1. ASSUME NEW s \in Topics, Bridge!Produce(s) PROVE o < position[t]
  BY <1>1 DEF Bridge!Produce
<1>2. CASE Bridge!Start \/ Bridge!TopicsAvailable \/ Bridge!WaitAgain \/ Bridge!WaitTimesOut
  BY <1>2 DEF Bridge!Start, Bridge!TopicsAvailable, Bridge!WaitAgain, Bridge!WaitTimesOut
<1>3. CASE Bridge!WebServerStarts \/ Bridge!WebServerStops \/ Bridge!ConsumeThrows \/ Bridge!AutoCommit \/ Bridge!SendReturns
  BY <1>3 DEF Bridge!WebServerStarts, Bridge!WebServerStops, Bridge!ConsumeThrows, Bridge!AutoCommit, Bridge!SendReturns
<1>4. CASE Bridge!Assign
  BY <1>4 DEF Bridge!Assign
<1>5. ASSUME NEW s \in Topics, Bridge!Consume(s) PROVE o < position[t]
  <2>1. /\ position' = [position EXCEPT ![s] = @ + 1]
        /\ <<s, position[s]>> \in Blank \/ pending' = <<s, position[s]>>
    BY <1>5 DEF Bridge!Consume
  <2>2. CASE s = t
    <3>1. position'[t] = position[t] + 1 /\ position[t] \in Nat /\ o # position[t]
      BY <2>1, <2>2
    <3> QED
      BY <3>1
  <2>3. CASE s # t
    BY <2>1, <2>3
  <2> QED
    BY <2>2, <2>3
<1>6. ASSUME NEW commits, Bridge!Release(commits), commits = committed \/ commits = Bridge!Stored
      PROVE  o < position[t]
  <2>1. position' = commits
    BY <1>6 DEF Bridge!Release
  <2>2. committed[t] <= position[t] /\ committed[t] \in Nat /\ position[t] \in Nat
    OBVIOUS
  <2>3. CASE commits = committed
    BY <2>1, <2>2, <2>3
  <2>4. CASE commits = Bridge!Stored
    BY <2>1, <2>2, <2>4 DEF Bridge!Stored
  <2> QED
    BY <1>6, <2>3, <2>4
<1>7. CASE Bridge!Shutdown \/ Bridge!Crash \/ Bridge!Rebalance
  BY <1>6, <1>7 DEF Bridge!Shutdown, Bridge!Crash, Bridge!Rebalance
<1>8. CASE UNCHANGED bridge
  BY <1>8 DEF bridge
<1> QED
  BY <1>1, <1>2, <1>3, <1>4, <1>5, <1>7, <1>8 DEF BridgeStep

(* While the web server goes on, a message leaves the loop by its broadcast. *)
LEMMA LeavesByBroadcast ==
    ASSUME BridgeTyped, [Next]_vars, pending # NoMessage, pending' # pending, serving' = TRUE
    PROVE  Broadcast
<1>t. bpc = "send"
  BY DEF BridgeTyped, Bridge!TypeOK
<1>1. CASE UNCHANGED vars
  BY <1>1 DEF vars, bridge
<1>2. CASE BridgeWorks
  BY <1>t, <1>2 DEF BridgeWorks, Bridge!Produce, Bridge!Start, Bridge!WaitAgain, Bridge!ConsumeThrows,
                    Bridge!AutoCommit, Bridge!Rebalance
<1>3. CASE TopicsAwaited \/ WebServerStarts \/ Consumes
  BY <1>t, <1>3 DEF TopicsAwaited, WebServerStarts, Consumes, Bridge!Wait, Bridge!Loop, Bridge!TopicsAvailable,
                    Bridge!WaitTimesOut, Bridge!WebServerStarts, Bridge!Assign, Bridge!Consume
<1>4. CASE BridgeEnds
  BY <1>4 DEF BridgeEnds, Bridge!WebServerStops, Bridge!Shutdown, Bridge!Crash, Bridge!ProcessEnds
<1>5. CASE Renders \/ Refreshes
  BY <1>5 DEF Renders, Refreshes, bridge
<1>6. ASSUME NEW c \in Connections, HubJoins(c) \/ ConnectionBreaks(c) \/ PageWorks(c) PROVE FALSE
  BY <1>6 DEF HubJoins, ConnectionBreaks, PageWorks, PageStarts, PageReconnects, PageCloses, Receives, bridge
<1> QED
  BY <1>1, <1>2, <1>3, <1>4, <1>5, <1>6 DEF Next

(* The message at offset o of topic t came, or will come, over c. *)
Arrives(c, t, o) ==
    \/ \E i \in 1..Len(channel[c]) : channel[c][i].topic = t /\ channel[c][i].offset = o
    \/ \E l \in Page!Lists : \E i \in 1..Len(lists[l]) :
          lists[l][i].topic = t /\ lists[l][i].offset = o /\ lists[l][i].via = c

LEMMA ArrivesIsCarried ==
    ASSUME NetTyped, NEW c \in Connections, NEW t, NEW o
    PROVE  Arrives(c, t, o) <=> \E e \in Carried(c) : e.topic = t /\ e.offset = o
<1>1. \A l \in Page!Lists : DOMAIN lists[l] = 1..Len(lists[l])
  BY LenProperties DEF NetTyped
<1>2. \A e : e \in Page!Shown <=> \E l \in Page!Lists : \E i \in 1..Len(lists[l]) : e = lists[l][i]
  BY <1>1 DEF Page!Shown
<1> QED
  BY <1>2 DEF Arrives, Carried

(* A connection that stays in the hub loses nothing. *)
LEMMA ArrivesStep ==
    ASSUME NetTyped, NetTyped', [Next]_vars, NEW c \in Connections, NEW t, NEW o,
           Arrives(c, t, o), hub'[c] = "in"
    PROVE  Arrives(c, t, o)'
<1>1. CASE lists' = lists /\ channel'[c] = channel[c]
  BY <1>1 DEF Arrives
<1>2. CASE UNCHANGED vars
  BY <1>1, <1>2 DEF vars, page, network
<1>3. CASE BridgeWorks \/ TopicsAwaited \/ WebServerStarts \/ Consumes
  BY <1>1, <1>3 DEF BridgeWorks, TopicsAwaited, WebServerStarts, Consumes, page, network
<1>4. CASE Broadcast
  <2>1. lists' = lists /\ channel[c] \in Seq(Wire) /\ Len(channel[c]) \in Nat
    BY <1>4, LenProperties DEF Broadcast, page, NetTyped
  <2>2. PICK event : channel' = [d \in Connections |->
                        IF hub[d] = "in" THEN Append(channel[d], event) ELSE channel[d]]
    BY <1>4 DEF Broadcast
  <2>3. CASE hub[c] = "in"
    <3>1. channel'[c] = Append(channel[c], event)
      BY <2>2, <2>3
    <3>2. channel'[c] \in Seq(Wire)
      BY DEF NetTyped
    <3>3. /\ Len(channel'[c]) = Len(channel[c]) + 1
          /\ \A i \in 1..Len(channel[c]) : channel'[c][i] = channel[c][i]
      BY <2>1, <3>1 DEF NetTyped
    <3>4. \A i \in 1..Len(channel[c]) : i \in 1..Len(channel'[c]) /\ channel'[c][i] = channel[c][i]
      BY <2>1, <3>3
    <3> QED
      BY <2>1, <3>4 DEF Arrives
  <2>4. CASE hub[c] # "in"
    BY <1>1, <2>1, <2>2, <2>4
  <2> QED
    BY <2>3, <2>4
<1>5. CASE BridgeEnds
  BY <1>5 DEF BridgeEnds
<1>6. CASE Renders
  BY <1>1, <1>6 DEF Renders, Page!Render, Page!view, network
<1>7. CASE Refreshes
  BY <1>1, <1>7 DEF Refreshes, Page!Refresh, NetTyped
<1>8. ASSUME NEW d \in Connections, HubJoins(d) \/ ConnectionBreaks(d) PROVE Arrives(c, t, o)'
  BY <1>1, <1>8 DEF HubJoins, ConnectionBreaks, page, NetTyped
<1>9. ASSUME NEW d \in Connections, PageStarts(d) \/ PageReconnects(d) \/ PageCloses(d)
      PROVE  Arrives(c, t, o)'
  BY <1>1, <1>9 DEF PageStarts, PageReconnects, PageCloses, network, AttemptFails, Accepted,
                    Page!StartSucceeds, Page!StartFails, Page!TimerFires, Page!OnReconnecting,
                    Page!OnReconnected, Page!ReconnectFails, Page!OnClose, Page!view
<1>10. ASSUME NEW d \in Connections, Receives(d) PROVE Arrives(c, t, o)'
  <2>1. PICK entry : /\ entry = [topic |-> Head(channel[d]).topic, offset |-> Head(channel[d]).offset,
                                 run |-> Head(channel[d]).run, via |-> d]
                     /\ lists' = [l \in Page!Lists |->
                            IF l = Page!ListFor(entry.topic) THEN <<entry>> \o lists[l] ELSE lists[l]]
    BY <1>10 DEF Receives, Page!ReceiveEvent
  <2>2. /\ channel[d] \in Seq(Wire) /\ channel[d] # <<>>
        /\ channel' = [channel EXCEPT ![d] = Tail(channel[d])]
    BY <1>10 DEF Receives, NetTyped
  <2>3. /\ Len(channel[d]) \in Nat /\ Head(channel[d]) = channel[d][1] /\ Head(channel[d]) \in Wire
        /\ Len(Tail(channel[d])) = Len(channel[d]) - 1
        /\ \A i \in 1..Len(Tail(channel[d])) : Tail(channel[d])[i] = channel[d][i + 1]
    BY <2>2, HeadTailProperties, EmptySeq, LenProperties
  <2>4. entry \in Entry /\ entry.via = d
    BY <2>1, <2>3 DEF Wire, Entry
  <2>5. ASSUME NEW l \in Page!Lists
        PROVE  /\ l = Page!ListFor(entry.topic) => 1 \in 1..Len(lists'[l]) /\ lists'[l][1] = entry
               /\ \A i \in 1..Len(lists[l]) : \E k \in 1..Len(lists'[l]) : lists'[l][k] = lists[l][i]
    <3>1. lists[l] \in Seq(Entry) /\ Len(lists[l]) \in Nat
      BY LenProperties DEF NetTyped
    <3>2. CASE l = Page!ListFor(entry.topic)
      <4>1. lists'[l] = <<entry>> \o lists[l]
        BY <2>1, <3>2
      <4>2. <<entry>> \in Seq(Entry) /\ Len(<<entry>>) = 1 /\ <<entry>>[1] = entry
        BY <2>4
      <4>3. /\ Len(lists'[l]) = 1 + Len(lists[l])
            /\ \A k \in 1..(1 + Len(lists[l])) :
                  lists'[l][k] = IF k <= 1 THEN <<entry>>[k] ELSE lists[l][k - 1]
        BY <3>1, <4>1, <4>2, ConcatProperties
      <4>4. \A i \in 1..Len(lists[l]) : i + 1 \in 1..Len(lists'[l]) /\ lists'[l][i + 1] = lists[l][i]
        BY <3>1, <4>3
      <4> QED
        BY <3>1, <4>2, <4>3, <4>4
    <3>3. CASE l # Page!ListFor(entry.topic)
      BY <2>1, <3>3
    <3> QED
      BY <3>2, <3>3
  <2>6. ASSUME NEW i \in 1..Len(channel[c]), channel[c][i].topic = t, channel[c][i].offset = o
        PROVE  Arrives(c, t, o)'
    <3>1. CASE c = d /\ i = 1
      <4>1. entry.topic = t /\ entry.offset = o /\ entry.via = c
        BY <2>1, <2>3, <2>6, <3>1
      <4>2. Page!ListFor(entry.topic) \in Page!Lists
        BY DEF Page!ListFor, Page!Lists
      <4> QED
        BY <2>5, <4>1, <4>2 DEF Arrives
    <3>2. CASE c = d /\ i # 1
      <4>1. i - 1 \in 1..Len(channel'[c]) /\ channel'[c][i - 1] = channel[c][i]
        BY <2>2, <2>3, <3>2 DEF NetTyped
      <4> QED
        BY <2>6, <4>1 DEF Arrives
    <3>3. CASE c # d
      <4>1. channel'[c] = channel[c]
        BY <2>2, <3>3
      <4> QED
        BY <2>6, <4>1 DEF Arrives
    <3> QED
      BY <3>1, <3>2, <3>3
  <2>7. ASSUME NEW l \in Page!Lists, NEW i \in 1..Len(lists[l]),
               lists[l][i].topic = t, lists[l][i].offset = o, lists[l][i].via = c
        PROVE  Arrives(c, t, o)'
    BY <2>5, <2>7 DEF Arrives
  <2> QED
    BY <2>6, <2>7 DEF Arrives
<1> QED
  BY <1>2, <1>3, <1>4, <1>5, <1>6, <1>7, <1>8, <1>9, <1>10 DEF Next, PageWorks

Missing(c, t, o) ==
    /\ o \in since[c][t]..(position[t] - 1)
    /\ <<t, o>> \notin Blank
    /\ <<t, o>> # pending
    /\ ~ Arrives(c, t, o)

(* A connection the hub lists was listed before, from the same point on, or joins now. *)
LEMMA SinceStep ==
    ASSUME NetTyped, [Next]_vars, NEW c \in Connections, hub'[c] = "in"
    PROVE  \/ hub[c] = "in" /\ since'[c] = since[c]
           \/ since'[c] = NextSent /\ UNCHANGED bridge
<1>1. CASE UNCHANGED <<hub, since>>
  BY <1>1
<1>2. CASE UNCHANGED vars
  BY <1>1, <1>2 DEF vars, network
<1>3. CASE BridgeWorks \/ TopicsAwaited \/ WebServerStarts \/ Consumes \/ Broadcast \/ Renders
  BY <1>1, <1>3 DEF BridgeWorks, TopicsAwaited, WebServerStarts, Consumes, Broadcast, Renders, network
<1>4. CASE BridgeEnds
  BY <1>4 DEF BridgeEnds
<1>5. CASE Refreshes
  BY <1>5 DEF Refreshes, NetTyped
<1>6. ASSUME NEW d \in Connections, HubJoins(d) \/ ConnectionBreaks(d)
      PROVE  \/ hub[c] = "in" /\ since'[c] = since[c]
             \/ since'[c] = NextSent /\ UNCHANGED bridge
  BY <1>6 DEF HubJoins, ConnectionBreaks, NetTyped
<1>7. ASSUME NEW d \in Connections, PageWorks(d)
      PROVE  hub[c] = "in" /\ since'[c] = since[c]
  BY <1>7 DEF PageWorks, PageStarts, PageReconnects, PageCloses, Receives, Accepted, network, NetTyped
<1> QED
  BY <1>2, <1>3, <1>4, <1>5, <1>6, <1>7 DEF Next

LEMMA MissingStep ==
    ASSUME BridgeTyped, NetTyped, NetTyped', [Next]_vars,
           \A c \in Connections : hub[c] = "in" => \A t \in Topics, o \in Nat : ~ Missing(c, t, o),
           NEW c \in Connections, hub'[c] = "in", NEW t \in Topics, NEW o \in Nat
    PROVE  ~ Missing(c, t, o)'
<1> SUFFICES ASSUME Missing(c, t, o)' PROVE FALSE
  OBVIOUS
<1>1. /\ o \in since'[c][t]..(position'[t] - 1)
      /\ <<t, o>> \notin Blank /\ <<t, o>> # pending' /\ ~ Arrives(c, t, o)'
  BY DEF Missing
<1>2. position[t] \in Nat /\ BridgeStep
  BY StepsOfBridge DEF BridgeTyped, Bridge!TypeOK
<1>3. serving' = TRUE
  BY StepsOfBridge, BridgeTypedStep DEF NetTyped, BridgeTyped, Bridge!TypeOK
<1>4. CASE since'[c] = NextSent /\ UNCHANGED bridge
  <2>1. position' = position /\ pending' = pending
    BY <1>4 DEF bridge
  <2>2. o >= NextSent[t] /\ o < position[t]
    BY <1>1, <1>2, <1>4, <2>1, NextSentType
  <2>3. pending # NoMessage /\ pending[1] = t /\ o >= pending[2]
    <3>1. NextSent[t] = IF pending # NoMessage /\ pending[1] = t THEN pending[2] ELSE position[t]
      BY DEF NextSent
    <3>2. NextSent[t] # position[t]
      BY <1>2, <2>2
    <3> QED
      BY <2>2, <3>1, <3>2
  <2>4. pending[2] + 1 = position[t] /\ pending \in Topics \X (0..(MaxMessages - 1))
    BY <2>3 DEF BridgeTyped, PendingRead, Bridge!TypeOK, Bridge!Messages
  <2>5. o = pending[2]
    BY <2>2, <2>3, <2>4, StreamAssumption
  <2> QED
    BY <1>1, <2>1, <2>3, <2>4, <2>5
<1>5. CASE hub[c] = "in" /\ since'[c] = since[c]
  <2>1. since[c][t] \in Nat /\ position'[t] \in Nat
    BY StepsOfBridge, BridgeTypedStep DEF NetTyped, BridgeTyped, Bridge!TypeOK
  <2>2. o < position[t] /\ o >= since[c][t]
    BY <1>1, <1>2, <1>5, <2>1, ReadBefore
  <2>3. CASE <<t, o>> # pending
    <3>1. Arrives(c, t, o)
      BY <1>1, <1>2, <1>5, <2>1, <2>2, <2>3 DEF Missing
    <3> QED
      BY <1>1, <3>1, ArrivesStep
  <2>4. CASE <<t, o>> = pending
    <3>1. pending # NoMessage
      BY <1>2, <2>2, <2>4, StreamAssumption DEF BridgeTyped, Bridge!TypeOK
    <3>2. Broadcast
      BY <1>1, <1>3, <2>4, <3>1, LeavesByBroadcast
    <3> DEFINE event == [topic |-> pending[1], offset |-> pending[2], run |-> rewinds]
    <3>3. channel'[c] = Append(channel[c], event)
      BY <1>5, <3>2 DEF Broadcast
    <3>4. event.topic = t /\ event.offset = o
      BY <2>4
    <3> HIDE DEF event
    <3>5. channel[c] \in Seq(Wire) /\ channel'[c] \in Seq(Wire) /\ Len(channel[c]) \in Nat
      BY LenProperties DEF NetTyped
    <3>6. Len(channel'[c]) = Len(channel[c]) + 1 /\ channel'[c][Len(channel[c]) + 1] = event
      BY <3>3, <3>5
    <3>7. \E i \in 1..Len(channel'[c]) : channel'[c][i] = event
      BY <3>5, <3>6
    <3> QED
      BY <1>1, <3>4, <3>7 DEF Arrives
  <2> QED
    BY <2>3, <2>4
<1> QED
  BY <1>4, <1>5, SinceStep

MissingInv ==
    \A c \in Connections : hub[c] = "in" => \A t \in Topics, o \in Nat : ~ Missing(c, t, o)

(* NothingMissed: a connection that the hub lists gets every event that is broadcast, for   *)
(* logs of any length, through any rebalance and whatever else the page does.             *)
THEOREM ListenersMissNothing == Spec => []NothingMissed
<1>1. Init => MissingInv
  BY DEF Init, MissingInv
<1>2. BridgeTyped /\ NetTyped /\ NetTyped' /\ MissingInv /\ [Next]_vars => MissingInv'
  <2> SUFFICES ASSUME BridgeTyped, NetTyped, NetTyped', MissingInv, [Next]_vars PROVE MissingInv'
    OBVIOUS
  <2>1. ASSUME NEW c \in Connections, hub'[c] = "in", NEW t \in Topics, NEW o \in Nat
        PROVE  ~ Missing(c, t, o)'
    BY <2>1, MissingStep DEF MissingInv
  <2> QED
    BY <2>1 DEF MissingInv
<1>3. BridgeTyped /\ NetTyped /\ MissingInv => NothingMissed
  <2> SUFFICES ASSUME BridgeTyped, NetTyped, MissingInv, NEW c \in Connections, hub[c] = "in",
                      NEW t \in Topics, NEW o \in since[c][t]..(position[t] - 1),
                      <<t, o>> \notin Blank, <<t, o>> # pending
               PROVE  \E e \in Carried(c) : e.topic = t /\ e.offset = o
    BY DEF NothingMissed
  <2>1. o \in Nat
    BY DEF NetTyped, BridgeTyped, Bridge!TypeOK
  <2>2. Arrives(c, t, o)
    BY <2>1 DEF MissingInv, Missing
  <2> QED
    BY <2>2, ArrivesIsCarried
<1> QED
  BY BridgeTypedAlways, NetTypedAlways, <1>1, <1>2, <1>3, PTL DEF Spec

------------------------------------------------------------------------------
LEMMA NoBlankInLoop ==
    ASSUME BridgeTyped, BridgeStep, pending \notin Blank
    PROVE  pending' \notin Blank
<1>0. NoMessage \notin Blank
  BY StreamAssumption
<1>1. CASE pending' = pending \/ pending' = NoMessage
  BY <1>0, <1>1
<1>2. ASSUME NEW s \in Topics, Bridge!Consume(s) PROVE pending' \notin Blank
  BY <1>2 DEF Bridge!Consume
<1>3. ASSUME NEW s \in Topics, Bridge!Produce(s) PROVE pending' = pending
  BY <1>3 DEF Bridge!Produce
<1> QED
  BY <1>1, <1>2, <1>3
     DEF BridgeStep, Bridge!Start, Bridge!TopicsAvailable, Bridge!WaitAgain, Bridge!WaitTimesOut,
         Bridge!WebServerStarts, Bridge!WebServerStops, Bridge!ConsumeThrows, Bridge!AutoCommit,
         Bridge!SendReturns, Bridge!Assign,
         Bridge!Shutdown, Bridge!Crash, Bridge!Rebalance, Bridge!Release, bridge

(* Only the message in the loop gets on the wire. *)
LEMMA ArrivesFromLoop ==
    ASSUME BridgeTyped, NetTyped, NetTyped', PageTyped, [Next]_vars, NEW c \in Connections, NEW t, NEW o,
           Arrives(c, t, o)'
    PROVE  Arrives(c, t, o) \/ <<t, o>> = pending
<1>1. CASE lists' = lists /\ \A d \in Connections : channel'[d] \in Prefixes(channel[d]) \cup {channel[d], <<>>}
  <2>1. /\ channel[c] \in Seq(Wire) /\ Len(channel[c]) \in Nat /\ Len(channel'[c]) \in Nat /\ Len(<<>>) = 0
    BY LenProperties, EmptySeq DEF NetTyped
  <2>2. /\ Len(channel'[c]) <= Len(channel[c])
        /\ \A i \in 1..Len(channel'[c]) : channel'[c][i] = channel[c][i]
    <3>1. CASE channel'[c] \in Prefixes(channel[c])
      BY <2>1, <3>1, PrefixFacts
    <3>2. CASE channel'[c] = channel[c] \/ channel'[c] = <<>>
      BY <2>1, <3>2
    <3> QED
      BY <1>1, <3>1, <3>2
  <2>3. \A i \in 1..Len(channel'[c]) : i \in 1..Len(channel[c]) /\ channel'[c][i] = channel[c][i]
    BY <2>1, <2>2
  <2> QED
    BY <1>1, <2>3 DEF Arrives
<1>2. CASE UNCHANGED vars
  BY <1>1, <1>2 DEF vars, page, network
<1>3. CASE BridgeWorks \/ TopicsAwaited \/ WebServerStarts \/ Consumes
  BY <1>1, <1>3 DEF BridgeWorks, TopicsAwaited, WebServerStarts, Consumes, page, network
<1>4. CASE Broadcast
  <2>1. lists' = lists /\ channel[c] \in Seq(Wire) /\ Len(channel[c]) \in Nat
    BY <1>4, LenProperties DEF Broadcast, page, NetTyped
  <2>2. PICK event : /\ event = [topic |-> pending[1], offset |-> pending[2], run |-> rewinds]
                     /\ channel' = [d \in Connections |->
                            IF hub[d] = "in" THEN Append(channel[d], event) ELSE channel[d]]
    BY <1>4 DEF Broadcast
  <2>3. <<event.topic, event.offset>> = pending
    BY <1>4, <2>2 DEF Broadcast, Bridge!SendReturns, BridgeTyped, Bridge!TypeOK, Bridge!Messages
  <2>4. ASSUME NEW i \in 1..Len(channel'[c])
        PROVE  \/ i \in 1..Len(channel[c]) /\ channel'[c][i] = channel[c][i]
               \/ channel'[c][i] = event
    <3>1. CASE hub[c] = "in"
      <4>1. channel'[c] = Append(channel[c], event) /\ channel'[c] \in Seq(Wire)
        BY <2>2, <3>1 DEF NetTyped
      <4>2. /\ Len(channel'[c]) = Len(channel[c]) + 1
            /\ \A k \in 1..Len(channel[c]) : channel'[c][k] = channel[c][k]
            /\ channel'[c][Len(channel[c]) + 1] = event
        BY <2>1, <4>1
      <4> QED
        BY <2>1, <4>2
    <3>2. CASE hub[c] # "in"
      BY <2>2, <3>2
    <3> QED
      BY <3>1, <3>2
  <2> QED
    BY <2>1, <2>3, <2>4 DEF Arrives
<1>5. CASE BridgeEnds
  BY <1>1, <1>5 DEF BridgeEnds, page
<1>6. CASE Renders
  BY <1>1, <1>6 DEF Renders, Page!Render, Page!view, network
<1>7. CASE Refreshes
  BY <1>1, <1>7 DEF Refreshes, Page!Refresh, NetTyped
<1>8. ASSUME NEW d \in Connections, HubJoins(d) \/ ConnectionBreaks(d)
      PROVE  Arrives(c, t, o) \/ <<t, o>> = pending
  BY <1>1, <1>8 DEF HubJoins, ConnectionBreaks, page, NetTyped
<1>9. ASSUME NEW d \in Connections, PageStarts(d) \/ PageReconnects(d) \/ PageCloses(d)
      PROVE  Arrives(c, t, o) \/ <<t, o>> = pending
  BY <1>1, <1>9 DEF PageStarts, PageReconnects, PageCloses, network, AttemptFails, Accepted,
                    Page!StartSucceeds, Page!StartFails, Page!TimerFires, Page!OnReconnecting,
                    Page!OnReconnected, Page!ReconnectFails, Page!OnClose, Page!view
<1>10. ASSUME NEW d \in Connections, Receives(d) PROVE Arrives(c, t, o)
  <2>1. PICK entry : /\ entry = [topic |-> Head(channel[d]).topic, offset |-> Head(channel[d]).offset,
                                 run |-> Head(channel[d]).run, via |-> d]
                     /\ lists' = [l \in Page!Lists |->
                            IF l = Page!ListFor(entry.topic) THEN <<entry>> \o lists[l] ELSE lists[l]]
    BY <1>10 DEF Receives, Page!ReceiveEvent
  <2>2. /\ channel[d] \in Seq(Wire) /\ channel[d] # <<>>
        /\ channel' = [channel EXCEPT ![d] = Tail(channel[d])]
    BY <1>10 DEF Receives, NetTyped
  <2>3. /\ Len(channel[d]) \in Nat /\ Head(channel[d]) = channel[d][1] /\ Head(channel[d]) \in Wire
        /\ 1 \in 1..Len(channel[d])
        /\ Len(Tail(channel[d])) = Len(channel[d]) - 1
        /\ \A i \in 1..Len(Tail(channel[d])) : Tail(channel[d])[i] = channel[d][i + 1]
    BY <2>2, HeadTailProperties, EmptySeq, LenProperties
  <2>4. entry \in Entry /\ entry.via = d
    BY <2>1, <2>3 DEF Wire, Entry
  <2>5. ASSUME NEW i \in 1..Len(channel'[c])
        PROVE  \E k \in 1..Len(channel[c]) : channel'[c][i] = channel[c][k]
    <3>1. CASE c = d
      <4>1. i + 1 \in 1..Len(channel[c]) /\ channel'[c][i] = channel[c][i + 1]
        BY <2>2, <2>3, <3>1 DEF NetTyped
      <4> QED
        BY <4>1
    <3>2. CASE c # d
      <4>1. channel'[c] = channel[c]
        BY <2>2, <3>2
      <4> QED
        BY <4>1
    <3> QED
      BY <3>1, <3>2
  <2>6. ASSUME NEW l \in Page!Lists, NEW i \in 1..Len(lists'[l])
        PROVE  \/ lists'[l][i] = entry
               \/ \E k \in 1..Len(lists[l]) : lists'[l][i] = lists[l][k]
    <3>1. lists[l] \in Seq(Entry) /\ Len(lists[l]) \in Nat
      BY LenProperties DEF NetTyped
    <3>2. CASE l = Page!ListFor(entry.topic)
      <4>1. lists'[l] = <<entry>> \o lists[l]
        BY <2>1, <3>2
      <4>2. <<entry>> \in Seq(Entry) /\ Len(<<entry>>) = 1 /\ <<entry>>[1] = entry
        BY <2>4
      <4>3. /\ Len(lists'[l]) = 1 + Len(lists[l])
            /\ \A k \in 1..(1 + Len(lists[l])) :
                  lists'[l][k] = IF k <= 1 THEN <<entry>>[k] ELSE lists[l][k - 1]
        BY <3>1, <4>1, <4>2, ConcatProperties
      <4>4. i = 1 \/ i - 1 \in 1..Len(lists[l])
        BY <3>1, <4>3
      <4> QED
        BY <3>1, <4>2, <4>3, <4>4
    <3>3. CASE l # Page!ListFor(entry.topic)
      BY <2>1, <3>3
    <3> QED
      BY <3>2, <3>3
  <2>7. ASSUME NEW i \in 1..Len(channel'[c]), channel'[c][i].topic = t, channel'[c][i].offset = o
        PROVE  Arrives(c, t, o)
    BY <2>5, <2>7 DEF Arrives
  <2>8. ASSUME NEW l \in Page!Lists, NEW i \in 1..Len(lists'[l]),
               lists'[l][i].topic = t, lists'[l][i].offset = o, lists'[l][i].via = c
        PROVE  Arrives(c, t, o)
    <3>1. CASE lists'[l][i] = entry
      <4>1. c = d /\ channel[c][1].topic = t /\ channel[c][1].offset = o
        BY <2>1, <2>3, <2>4, <2>8, <3>1
      <4> QED
        BY <2>3, <4>1 DEF Arrives
    <3>2. CASE \E k \in 1..Len(lists[l]) : lists'[l][i] = lists[l][k]
      BY <2>8, <3>2 DEF Arrives
    <3> QED
      BY <2>6, <3>1, <3>2
  <2> QED
    BY <2>7, <2>8 DEF Arrives
<1> QED
  BY <1>2, <1>3, <1>4, <1>5, <1>6, <1>7, <1>8, <1>9, <1>10 DEF Next, PageWorks

NoBlank ==
    /\ pending \notin Blank
    /\ \A c \in Connections : \A t \in Topics, o \in Nat : Arrives(c, t, o) => <<t, o>> \notin Blank

(* The entries of one message that came over one connection are of different runs. *)
LEMMA AgainBounded ==
    ASSUME BridgeTyped, NetTyped, LeftLoop, InOrder, NEW l \in Page!Lists, NEW e,
           NEW again, again = {j \in 1..Len(lists[l]) : /\ lists[l][j].topic = e.topic
                                                       /\ lists[l][j].offset = e.offset
                                                       /\ lists[l][j].via = e.via}
    PROVE  Cardinality(again) <= 1 + rewinds
<1>1. rewinds \in Nat /\ Len(lists[l]) \in Nat
  BY LenProperties, StreamAssumption DEF BridgeTyped, Bridge!TypeOK, NetTyped
<1>2. ASSUME NEW j \in again PROVE lists[l][j] \in Entry /\ lists[l][j].run \in 0..rewinds
  <2>1. lists[l][j] \in Entry
    BY ElementOfSeq DEF NetTyped
  <2>2. lists[l][j].run <= rewinds
    BY DEF LeftLoop, Gone
  <2> QED
    BY <1>1, <2>1, <2>2 DEF Entry
<1>3. ASSUME NEW i \in again, NEW j \in again, lists[l][i].run = lists[l][j].run PROVE i = j
  <2>1. i \in Int /\ j \in Int /\ lists[l][i].offset \in Int
    BY <1>1, <1>2, StreamAssumption DEF Entry
  <2>2. ~ i < j
    BY <1>3, <2>1 DEF InOrder, Precedes
  <2>3. ~ j < i
    BY <1>3, <2>1 DEF InOrder, Precedes
  <2> QED
    BY <2>1, <2>2, <2>3
<1> DEFINE f == [j \in again |-> lists[l][j].run]
<1>4. f \in Injection(again, 0..rewinds)
  BY <1>2, <1>3 DEF Injection, IsInjective
<1>5. IsFiniteSet(0..rewinds) /\ Cardinality(0..rewinds) = rewinds + 1
  <2>1. 0 \in Int /\ rewinds \in Int /\ ~ 0 > rewinds /\ rewinds - 0 + 1 = rewinds + 1
    BY <1>1
  <2>2. /\ IsFiniteSet(0..rewinds)
        /\ Cardinality(0..rewinds) = IF 0 > rewinds THEN 0 ELSE rewinds - 0 + 1
    BY <2>1, FS_Interval
  <2> QED
    BY <2>1, <2>2
<1> HIDE DEF f
<1>6. Cardinality(again) <= Cardinality(0..rewinds)
  BY <1>4, <1>5, FS_Injection
<1> QED
  BY <1>1, <1>5, <1>6

(* ShownOncePerRewind: from the log to the page an event is neither invented nor, unless the *)
(* bridge is thrown back, repeated.                                                     *)
THEOREM ShownOnce == Spec => []ShownOncePerRewind
<1>1. Init => NoBlank
  BY StreamAssumption DEF Init, Bridge!Init, Page!Init, NoBlank, Arrives, Connections, Page!Connections, Page!Lists
<1>2. BridgeTyped /\ PageTyped /\ NetTyped /\ NetTyped' /\ NoBlank /\ [Next]_vars => NoBlank'
  <2> SUFFICES ASSUME BridgeTyped, PageTyped, NetTyped, NetTyped', NoBlank, [Next]_vars PROVE NoBlank'
    OBVIOUS
  <2>1. pending' \notin Blank
    BY StepsOfBridge, NoBlankInLoop DEF NoBlank
  <2>2. ASSUME NEW c \in Connections, NEW t \in Topics, NEW o \in Nat, Arrives(c, t, o)'
        PROVE  <<t, o>> \notin Blank
    BY <2>2, ArrivesFromLoop DEF NoBlank
  <2> QED
    BY <2>1, <2>2 DEF NoBlank
<1>3. BridgeTyped /\ NetTyped /\ LeftLoop /\ InOrder /\ NoBlank => ShownOncePerRewind
  <2> SUFFICES ASSUME BridgeTyped, NetTyped, LeftLoop, InOrder, NoBlank,
                      NEW l \in Page!Lists, NEW i \in DOMAIN lists[l], NEW e, e = lists[l][i],
                      NEW again, again = {j \in DOMAIN lists[l] : /\ lists[l][j].topic = e.topic
                                                                 /\ lists[l][j].offset = e.offset
                                                                 /\ lists[l][j].via = e.via}
               PROVE  <<e.topic, e.offset>> \notin Blank /\ Cardinality(again) <= 1 + rewinds
    BY DEF ShownOncePerRewind
  <2>1. DOMAIN lists[l] = 1..Len(lists[l]) /\ lists[l] \in Seq(Entry)
    BY LenProperties DEF NetTyped
  <2>2. e \in Entry
    BY <2>1, ElementOfSeq
  <2>3. e.via \in Connections /\ e.topic \in Topics /\ e.offset \in Nat
    BY <2>2, StreamAssumption DEF Entry
  <2>4. Arrives(e.via, e.topic, e.offset)
    BY <2>1 DEF Arrives
  <2>5. <<e.topic, e.offset>> \notin Blank
    BY <2>3, <2>4 DEF NoBlank
  <2>6. Cardinality(again) <= 1 + rewinds
    BY <2>1, AgainBounded
  <2> QED
    BY <2>5, <2>6
<1> QED
  BY BridgeTypedAlways, PageTypedAlways, NetTypedAlways, OrderInit, OrderStep, <1>1, <1>2, <1>3, PTL DEF Spec
==============================================================================
