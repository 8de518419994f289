------------------------------- MODULE MCStream --------------------------------
(* EventStream for TLC: one blank message, and the addresses env.js may hold. *)
EXTENDS EventStream

MCBlank == {<<"users.created", 0>>}
MCWindowEnv == {"%%REACT_APP_EVENTBRIDGE_URL%%", Unset}
MCHubUrls == {"http://localhost:5005/eventhub"}
==============================================================================
