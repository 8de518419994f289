---------------------------------- MODULE App ----------------------------------
(* The React page of the front end: one effect per mount builds a SignalR connection, *)
(* starts it until it succeeds, shows its state and sorts what it receives into three  *)
(* lists.                                                                           *)
(*                                                                                  *)
(* The connection is the HubConnection of @microsoft/signalr, external: its states,   *)
(* when it calls back, and its reconnect policy.  A connection is named by the mount   *)
(* that built it; the page is mounted again when a development server replaces App     *)
(* (fast refresh), which runs the cleanup of the old effect and keeps the state.       *)
EXTENDS Naturals, Sequences

CONSTANTS
    MaxMounts,           \* bound: times the effect runs
    ReconnectAttempts,   \* external: length of the default list of reconnect delays
    Unset,               \* no window._env, or an empty value in it
    Fallback,            \* http://<host of the page>:5005/eventhub
    WindowEnv            \* what env.js may hold: substituted, the placeholder, or Unset

Connections == 1..MaxMounts

VARIABLES
    env,          \* the value of REACT_APP_EVENTBRIDGE_URL in window._env
    mount,        \* effects run so far; the newest is the mounted one
    link,         \* connection -> HubConnectionState
    tries,        \* connection -> failed attempts of the reconnect in progress
    starter,      \* connection -> where its start() is: "none", "starting", "timer", "done"
    status,       \* React state: the text behind "SignalR:"
    lists,        \* React state: list -> the events in it, first one on top

    cleaned       \* history: connection -> where start() was when it was cleaned up

view == <<status, lists>>
page == <<env, mount, link, tries, starter, view, cleaned>>

Lists == {"user", "order", "other"}

(* index.js renders App once, without StrictMode. *)
Init ==
    /\ env \in WindowEnv
    /\ mount = 0
    /\ link = [c \in Connections |-> "Disconnected"]
    /\ tries = [c \in Connections |-> 0]
    /\ starter = [c \in Connections |-> "none"]
    /\ status = "Disconnected"
    /\ lists = [l \in Lists |-> <<>>]
    /\ cleaned = [c \in Connections |-> "no"]

HubUrl == IF env # Unset THEN env ELSE Fallback

------------------------------------------------------------------------------
(* The effect, and its cleanup. *)

Render ==
    /\ mount = 0
    /\ mount' = 1
    /\ link' = [link EXCEPT ![1] = "Connecting"]
    /\ starter' = [starter EXCEPT ![1] = "starting"]
    /\ UNCHANGED <<env, tries, view, cleaned>>

(* Mutant: the cleanup does not call stop. *)
NotStopped(state) == {state}

(* stop() does nothing to a connection that is not started.  It closes one that waits  *)
(* for its next reconnect attempt at once, and the others later.                      *)
Stopped(state) ==
    CASE state = "Disconnected" -> {"Disconnected"}
      [] state = "Reconnecting" -> {"Disconnected", "Disconnecting"}
      [] OTHER -> {"Disconnecting"}

(* The cleanup leaves the timer of start() alone. *)
Refresh ==
    /\ mount \in 1..(MaxMounts - 1)
    /\ mount' = mount + 1
    /\ \E state \in Stopped(link[mount]) :
          /\ link' = [link EXCEPT ![mount] = state, ![mount + 1] = "Connecting"]
          /\ status' = IF link[mount] = "Reconnecting" /\ state = "Disconnected"
                       THEN "Disconnected" ELSE status
    /\ tries' = [tries EXCEPT ![mount] = 0]
    /\ starter' = [starter EXCEPT ![mount + 1] = "starting"]
    /\ cleaned' = [cleaned EXCEPT ![mount] = starter[mount]]
    /\ UNCHANGED <<env, lists>>

------------------------------------------------------------------------------
(* start() *)

StartSucceeds(c) ==
    /\ link[c] = "Connecting"
    /\ link' = [link EXCEPT ![c] = "Connected"]
    /\ starter' = [starter EXCEPT ![c] = "done"]
    /\ status' = "Connected"
    /\ UNCHANGED <<env, mount, tries, lists, cleaned>>

(* Mutant: the catch block does not try again. *)
StartFailsForGood(c) ==
    /\ starter[c] = "starting"
    /\ link' = [link EXCEPT ![c] = "Disconnected"]
    /\ starter' = [starter EXCEPT ![c] = "done"]
    /\ status' = "Disconnected"
    /\ UNCHANGED <<env, mount, tries, lists, cleaned>>

(* No connection, or stop() was called meanwhile: again in 3 s. *)
StartFails(c) ==
    /\ starter[c] = "starting"
    /\ link' = [link EXCEPT ![c] = "Disconnected"]
    /\ starter' = [starter EXCEPT ![c] = "timer"]
    /\ status' = "Disconnected"
    /\ UNCHANGED <<env, mount, tries, lists, cleaned>>

TimerFires(c) ==
    /\ starter[c] = "timer"
    /\ link' = [link EXCEPT ![c] = "Connecting"]
    /\ starter' = [starter EXCEPT ![c] = "starting"]
    /\ UNCHANGED <<env, mount, tries, view, cleaned>>

------------------------------------------------------------------------------
(* The callbacks of the connection. *)

(* Mutant: no onreconnecting handler. *)
OnReconnectingSilent(c) ==
    /\ link[c] = "Connected"
    /\ link' = [link EXCEPT ![c] = "Reconnecting"]
    /\ UNCHANGED <<env, mount, tries, starter, view, cleaned>>

(* The connection is lost; with automatic reconnect it tries again by itself. *)
OnReconnecting(c) ==
    /\ link[c] = "Connected"
    /\ link' = [link EXCEPT ![c] = "Reconnecting"]
    /\ status' = "Reconnecting"
    /\ UNCHANGED <<env, mount, tries, starter, lists, cleaned>>

OnReconnected(c) ==
    /\ link[c] = "Reconnecting"
    /\ link' = [link EXCEPT ![c] = "Connected"]
    /\ tries' = [tries EXCEPT ![c] = 0]
    /\ status' = "Connected"
    /\ UNCHANGED <<env, mount, starter, lists, cleaned>>

ReconnectFails(c) ==
    /\ link[c] = "Reconnecting"
    /\ tries[c] + 1 < ReconnectAttempts
    /\ tries' = [tries EXCEPT ![c] = @ + 1]
    /\ UNCHANGED <<env, mount, link, starter, view, cleaned>>

(* Closed: stop() has finished, or the last reconnect attempt failed.  Nobody starts   *)
(* the connection again.                                                            *)
OnClose(c) ==
    /\ \/ link[c] = "Disconnecting" /\ starter[c] = "done"
       \/ link[c] = "Reconnecting" /\ tries[c] + 1 >= ReconnectAttempts
    /\ link' = [link EXCEPT ![c] = "Disconnected"]
    /\ tries' = [tries EXCEPT ![c] = 0]
    /\ status' = "Disconnected"
    /\ UNCHANGED <<env, mount, starter, lists, cleaned>>

(* Mutant: no else branch. *)
ListForKnown(topic) ==
    CASE topic \in {"users.created", "users.created.v1"} -> "user"
      [] topic \in {"orders.created", "orders.created.v1"} -> "order"
      [] OTHER -> "none"

ListFor(topic) ==
    CASE topic \in {"users.created", "users.created.v1"} -> "user"
      [] topic \in {"orders.created", "orders.created.v1"} -> "order"
      [] OTHER -> "other"

(* Mutant: the event is added at the end. *)
ReceiveLast(c, event) ==
    /\ link[c] = "Connected"
    /\ lists' = [l \in Lists |-> IF l = ListFor(event.topic) THEN lists[l] \o <<event>> ELSE lists[l]]
    /\ UNCHANGED <<env, mount, link, tries, starter, status, cleaned>>

ReceiveEvent(c, event) ==
    /\ link[c] = "Connected"
    /\ lists' = [l \in Lists |-> IF l = ListFor(event.topic) THEN <<event>> \o lists[l] ELSE lists[l]]
    /\ UNCHANGED <<env, mount, link, tries, starter, status, cleaned>>

(* What the page puts on the screen: every entry of every list, by its position. *)
Shown == UNION {{lists[l][i] : i \in DOMAIN lists[l]} : l \in Lists}

------------------------------------------------------------------------------
(* Properties *)

LinkStates == {"Disconnected", "Connecting", "Connected", "Reconnecting", "Disconnecting"}

(* The types of the page's state, and that start() and its connection agree. *)
TypeOK ==
    /\ env \in WindowEnv
    /\ mount \in 0..MaxMounts
    /\ link \in [Connections -> LinkStates]
    /\ tries \in [Connections -> Nat]
    /\ \A c \in Connections : tries[c] > 0 => link[c] = "Reconnecting" /\ tries[c] < ReconnectAttempts
    /\ starter \in [Connections -> {"none", "starting", "timer", "done"}]
    /\ \A c \in Connections :
          /\ starter[c] = "none" <=> c > mount
          /\ starter[c] \in {"none", "timer"} => link[c] = "Disconnected"
          /\ starter[c] = "starting" => link[c] \in {"Connecting", "Disconnecting"}
          /\ link[c] = "Connecting" => starter[c] = "starting"
    /\ status \in {"Disconnected", "Connected", "Reconnecting"}
    /\ DOMAIN lists = Lists
    /\ \A l \in Lists : \A i \in DOMAIN lists[l] : ListFor(lists[l][i].topic) = l
    /\ cleaned \in [Connections -> {"no", "starting", "timer", "done"}]

(* The text is never better than the truth: "Connected" and "Reconnecting" name a       *)
(* connection in that state or on its way out of it, and "Disconnected" one that is      *)
(* closed or being started.  Which connection, of an old mount or the new, it may not say. *)
StatusTruthful ==
    /\ status \in {"Connected", "Reconnecting"} =>
          \E c \in Connections : link[c] \in {status, "Disconnecting"}
    /\ mount # 0 /\ status = "Disconnected" =>
          \E c \in 1..mount : link[c] \in {"Disconnected", "Connecting"}

(* A cleaned-up connection is alive only if the cleanup met it in start() or waiting    *)
(* for the timer of start(): those outlive their mount.                               *)
OrphansWereStarting ==
    \A c \in Connections :
        cleaned[c] # "no" /\ link[c] \in {"Connecting", "Connected", "Reconnecting"}
            => cleaned[c] \in {"starting", "timer"}
==============================================================================
