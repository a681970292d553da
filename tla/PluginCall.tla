----------------------------- MODULE PluginCall -----------------------------
(***************************************************************************)
(* A typed call of the client library on a plugin: one request, one        *)
(* response, as squid_client_response and the server's pass carry them     *)
(* when the link holds (ClientExchange).  When the link is lost the call   *)
(* fails, and the client cannot tell whether its request was handled: the  *)
(* server drops a request it has not taken, and completes one it has.      *)
(***************************************************************************)
EXTENDS Naturals

VARIABLES
    request,        \* what the plugin has been asked and not answered
    reply,          \* the response on its way to the client
    awaited         \* is the client in a call

callvars == <<request, reply, awaited>>

None == [op |-> "none"]

CallInit ==
    /\ request = None
    /\ reply = None
    /\ awaited = FALSE

\* The server is one thread: a client of a new session is heard once the
\* request of the old one is done with.
Quiet == request = None /\ ~awaited

Call(what) ==
    /\ Quiet
    /\ request' = what
    /\ awaited' = TRUE
    /\ UNCHANGED reply

Answer(response) ==
    /\ request' = None
    /\ reply' = IF awaited THEN response ELSE None
    /\ UNCHANGED awaited

Take ==
    /\ reply # None
    /\ reply' = None
    /\ awaited' = FALSE
    /\ UNCHANGED request

\* The link is lost.  A request the handler has begun is completed.
GiveUp(begun) ==
    /\ awaited
    /\ awaited' = FALSE
    /\ reply' = None
    /\ \/ UNCHANGED request
       \/ ~begun /\ request' = None

\* The server is started afresh.
Restarted ==
    /\ request' = None
    /\ reply' = None
    /\ awaited' = FALSE
=============================================================================
