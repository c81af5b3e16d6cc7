---------------------------- MODULE Connections -----------------------------
(***************************************************************************)
(* The TCP connections between a client process and its servers, as far as *)
(* both sides see them: the segments on their way, in order.  A connection *)
(* has the number of the client socket that opened it.                     *)
(***************************************************************************)
EXTENDS Deployment

VARIABLES
    up,      \* what travels to the server, per connection
    down     \* what travels to the client, per connection

(* The last segment says the sender will not receive any more.             *)
Ended(channel) == channel # <<>> /\ channel[Len(channel)] \in {"FIN", "RST"}
=============================================================================
