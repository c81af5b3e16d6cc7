------------------------------ MODULE Metersim ------------------------------
(***************************************************************************)
(* The meter simulators (Metersim.cpp, with the server side of             *)
(* LinuxSocket.cpp) and the TCP connections that lead to them.  A meter's  *)
(* process is a loop: build a base library, listen, accept one connection, *)
(* serve it until it closes, and start over.  The listening socket stays   *)
(* open while a connection is served, so the kernel goes on completing     *)
(* connections into its backlog; the next turn of the loop resets those.   *)
(***************************************************************************)
EXTENDS Connections

VARIABLES
    mode,      \* where the process is in its loop
    serving,   \* the connection accepted in this turn, or NoSocket
    context,   \* the server's association is open
    backlog,   \* connections the kernel completed and nobody accepted
    executed   \* history: the Disconnect Control methods invoked

meterVars == <<mode, serving, context, backlog, executed, up, down>>

Execution == [sess : Sockets, cmd : Commands]

MeterTypeOK ==
    /\ mode \in [Meters -> {"starting", "listening", "serving", "exited"}]
    /\ serving \in [Meters -> Sockets \cup {NoSocket}]
    /\ context \in [Meters -> BOOLEAN]
    /\ backlog \in [Meters -> Seq(Sockets)]
    /\ executed \in [Meters -> Seq(Execution)]
    /\ up \in [Sockets -> Seq(ToMeter)]
    /\ down \in [Sockets -> Seq(ToClient)]

MeterInit ==
    /\ mode = [m \in Meters |-> "starting"]
    /\ serving = [m \in Meters |-> NoSocket]
    /\ context = [m \in Meters |-> FALSE]
    /\ backlog = [m \in Meters |-> <<>>]
    /\ executed = [m \in Meters |-> <<>>]
    /\ up = [s \in Sockets |-> <<>>]
    /\ down = [s \in Sockets |-> <<>>]

-----------------------------------------------------------------------------
(* The kernel's side of a connection.                                      *)

Waiting(m, s) == \E i \in 1..Len(backlog[m]) : backlog[m][i] = s
Joined(s) == \E m \in Meters : serving[m] = s \/ Waiting(m, s)

Accepting(m) == mode[m] \in {"listening", "serving"}

EstablishConnection(m, s) ==
    /\ Accepting(m)
    /\ backlog' = [backlog EXCEPT ![m] = Append(@, s)]
    /\ UNCHANGED <<mode, serving, context, executed, up, down>>

(* What a client writes reaches a connection that still stands.            *)
Sent(s, segments) ==
    IF Joined(s) /\ ~Ended(up[s]) THEN [up EXCEPT ![s] = @ \o segments] ELSE up

ConnectionReset(s) ==
    /\ "reset" \in Faults
    /\ Joined(s)
    /\ ~(up[s] = <<"RST">> /\ down[s] = <<"RST">>)
    /\ up' = [up EXCEPT ![s] = <<"RST">>]
    /\ down' = [down EXCEPT ![s] = <<"RST">>]
    /\ UNCHANGED <<mode, serving, context, backlog, executed>>

(* The end of a base library closes the served connection and resets what  *)
(* waits in the backlog of the listening socket.                           *)
EndOfSockets(m) ==
    /\ backlog' = [backlog EXCEPT ![m] = <<>>]
    /\ up' = [s \in Sockets |->
                 IF s = serving[m] \/ Waiting(m, s) THEN <<>> ELSE up[s]]
    /\ down' = [s \in Sockets |->
                   IF Waiting(m, s) THEN Append(down[s], "RST") ELSE down[s]]

-----------------------------------------------------------------------------
(* The process.                                                            *)

(* Server_Handler: a new engine, wrapper and socket, then Open.            *)
Server_Handler(m) ==
    /\ mode[m] = "starting"
    /\ mode' = [mode EXCEPT ![m] = "listening"]
    /\ UNCHANGED <<serving, context, backlog, executed, up, down>>

(* "Failed to initiate listen": exit(0).                                   *)
Server_Handler_Fails(m) ==
    /\ "bind" \in Faults
    /\ mode[m] = "starting"
    /\ mode' = [mode EXCEPT ![m] = "exited"]
    /\ UNCHANGED <<serving, context, backlog, executed, up, down>>

ASIO_Accept_Handler(m) ==
    /\ mode[m] = "listening"
    /\ backlog[m] # <<>>
    /\ up[Head(backlog[m])] # <<"RST">>
    /\ mode' = [mode EXCEPT ![m] = "serving"]
    /\ serving' = [serving EXCEPT ![m] = Head(backlog[m])]
    /\ context' = [context EXCEPT ![m] = FALSE]
    /\ backlog' = [backlog EXCEPT ![m] = Tail(@)]
    /\ UNCHANGED <<executed, up, down>>

(* remote_endpoint() throws for a connection reset before it was accepted, *)
(* and nothing catches the exception: the process ends.                    *)
Accept_Handler_Throws(m) ==
    /\ mode[m] = "listening"
    /\ backlog[m] # <<>>
    /\ up[Head(backlog[m])] = <<"RST">>
    /\ mode' = [mode EXCEPT ![m] = "exited"]
    /\ EndOfSockets(m)
    /\ UNCHANGED <<serving, context, executed>>

Incoming(m, segments) ==
    /\ serving[m] # NoSocket
    /\ up[serving[m]] # <<>>
    /\ Head(up[serving[m]]) \in segments

(* A segment is consumed and answered; an answer to a client that has      *)
(* closed is lost.                                                         *)
Answer(m, reply) ==
    LET s == serving[m] IN
    /\ up' = [up EXCEPT ![s] = Tail(@)]
    /\ down' = IF Ended(up[s]) THEN down
               ELSE [down EXCEPT ![s] = Append(@, reply)]

(* OnOpenRequest accepts every association.                                *)
OpenRequest(m) ==
    /\ Incoming(m, {"AARQ"})
    /\ context' = [context EXCEPT ![m] = TRUE]
    /\ Answer(m, "AARE")
    /\ UNCHANGED <<mode, serving, backlog, executed>>

Invoked_Swapped(m) ==               \* mutant: methods 1 and 2 exchanged
    [sess |-> serving[m],
     cmd  |-> CHOOSE c \in Commands : c # Head(up[serving[m]])]

(* The method an Action request names, as the history keeps it.            *)
Invoked(m) == [sess |-> serving[m], cmd |-> Head(up[serving[m]])]

InternalAction_KeepsRequest(m) ==   \* mutant: the request is not consumed
    /\ Incoming(m, Commands)
    /\ executed' = IF context[m]
                   THEN [executed EXCEPT ![m] = Append(@, Invoked(m))]
                   ELSE executed
    /\ UNCHANGED <<mode, serving, context, backlog, up, down>>

(* InternalAction of LinuxDisconnect succeeds for both methods.            *)
InternalAction(m) ==
    /\ Incoming(m, Commands)
    /\ executed' = IF context[m]
                   THEN [executed EXCEPT ![m] = Append(@, Invoked(m))]
                   ELSE executed
    /\ Answer(m, "ACTRES")
    /\ UNCHANGED <<mode, serving, context, backlog>>

ReleaseRequest(m) ==
    /\ Incoming(m, {"RLRQ"})
    /\ context' = [context EXCEPT ![m] = FALSE]
    /\ Answer(m, "RLRE")
    /\ UNCHANGED <<mode, serving, backlog, executed>>

(* The read ends: nothing is outstanding, Run returns, the base library    *)
(* goes with every socket it owns, and main starts over.                   *)
Restart(m) ==
    /\ Incoming(m, {"FIN", "RST"})
    /\ mode' = [mode EXCEPT ![m] = "starting"]
    /\ serving' = [serving EXCEPT ![m] = NoSocket]
    /\ context' = [context EXCEPT ![m] = FALSE]
    /\ EndOfSockets(m)
    /\ executed' = executed

MeterStep(m) ==
    \/ Server_Handler(m)
    \/ ASIO_Accept_Handler(m)
    \/ Accept_Handler_Throws(m)
    \/ OpenRequest(m)
    \/ InternalAction(m)
    \/ ReleaseRequest(m)
    \/ Restart(m)

MeterFault(m) == Server_Handler_Fails(m)
=============================================================================
