----------------------------- MODULE ServerMenu -----------------------------
(***************************************************************************)
(* The server test harness (ServerApp of Linux.cpp): a menu that adds      *)
(* COSEM engines to one io_service, each with a device of its own, over    *)
(* the listening TCP socket or over a serial port.  The menu's selection   *)
(* is a handler of the io_service, and the questions it asks are read      *)
(* inside that handler: while one is unanswered no engine is served.       *)
(***************************************************************************)
EXTENDS Connections, CosemObjects

CONSTANTS
    MaxEngines,     \* how many engines a behaviour may add
    MaxRequests,    \* how many gets, sets and actions it may contain
    Requests,       \* those that are sent over TCP
    LineRequests    \* those that arrive on a serial port

ASSUME MaxEnginesAssumption == MaxEngines \in Nat
ASSUME MaxRequestsAssumption == MaxRequests \in Nat
ASSUME RequestsAssumption ==
    \A q \in Requests \cup LineRequests : q.kind \in {"get", "set", "action"}

VARIABLES
    engines,      \* what each LinuxCOSEMServerEngine listens on
    m_Values,     \* the values of each engine's device
    association,  \* which engines' associations are open
    acceptor,     \* the engine whose m_Acceptor is open, or 0
    accepting,    \* its async_accept is outstanding
    serving,      \* the connection it accepted, or NoSocket
    backlog,      \* connections the kernel completed and nobody accepted
    lines,        \* the serial engines whose port was opened
    prompting,    \* the menu's handler waits for an answer
    ended,        \* the process has ended
    requests,     \* how many gets, sets and actions were made
    log,          \* history: those that were performed, with their results
    behind        \* history: something was written behind an array

serverVars == <<engines, m_Values, association, acceptor, accepting, serving, backlog,
                lines, prompting, ended, requests, log, behind, up, down>>

Engines == 1..Len(engines)
Signal(k) == [kind |-> k]
Segments == Requests \cup {Signal(k) : k \in {"AARQ", "RLRQ", "FIN", "RST"}}

(* The strings an object may hold, and those a get may answer.             *)
Strings ==
    {q.value : q \in {r \in Requests \cup LineRequests : r.kind = "set"}}
        \cup {NewValues["Data"][i] : i \in 0..(Size - 1)} \cup {""}
Answers == Strings \cup {"512", "true", "garbage"}

Entries == [engine : Nat, q : Requests \cup LineRequests, res : ResultCodes, data : Answers]

ServerTypeOK ==
    /\ engines \in Seq({"tcp", "serial"}) /\ Len(engines) <= MaxEngines
    /\ m_Values \in Seq(Devices(Strings)) /\ Len(m_Values) = Len(engines)
    /\ association \subseteq Engines
    /\ acceptor \in Engines \cup {0}
    /\ accepting \in BOOLEAN
    /\ serving \in Sockets \cup {NoSocket}
    /\ backlog \in Seq(Sockets)
    /\ lines \subseteq {e \in Engines : engines[e] = "serial"}
    /\ prompting \in BOOLEAN
    /\ ended \in BOOLEAN
    /\ requests \in 0..MaxRequests
    /\ log \in Seq(Entries) /\ \A i \in 1..Len(log) : log[i].engine \in Engines
    /\ behind \in BOOLEAN
    /\ up \in [Sockets -> Seq(Segments)]
    /\ down \in [Sockets -> Seq(ToClient)]

ServerInit ==
    /\ engines = <<>>
    /\ m_Values = <<>>
    /\ association = {}
    /\ acceptor = 0
    /\ accepting = FALSE
    /\ serving = NoSocket
    /\ backlog = <<>>
    /\ lines = {}
    /\ prompting = FALSE
    /\ ended = FALSE
    /\ requests = 0
    /\ log = <<>>
    /\ behind = FALSE
    /\ up = [s \in Sockets |-> <<>>]
    /\ down = [s \in Sockets |-> <<>>]

-----------------------------------------------------------------------------
(* The menu.                                                               *)

Looping == ~ended /\ ~prompting

NewEngine(over) ==
    /\ Len(engines) < MaxEngines
    /\ engines' = Append(engines, over)
    /\ m_Values' = Append(m_Values, NewValues)

(* 1 - TCP Server.  The address is in use once an engine listens, whether  *)
(* or not it has its connection: "Failed to initiate listen", and the new  *)
(* engine stays without a socket.                                          *)
TCPServer ==
    /\ Looping
    /\ NewEngine("tcp")
    /\ IF acceptor = 0
       THEN acceptor' = Len(engines') /\ accepting' = TRUE
       ELSE UNCHANGED <<acceptor, accepting>>
    /\ UNCHANGED <<association, serving, backlog, lines, prompting, ended,
                   requests, log, behind, up, down>>

(* 2 - HDLC Server, 3 - Serial Wrapper Server: the questions ...           *)
SerialServer ==
    /\ Looping
    /\ prompting' = TRUE
    /\ UNCHANGED <<engines, m_Values, association, acceptor, accepting, serving, backlog,
                   lines, ended, requests, log, behind, up, down>>

SerialServerAnswered_Previous ==       \* mutant: opens m_pServerEngine as it was before
    /\ ~ended
    /\ prompting
    /\ prompting' = FALSE
    /\ NewEngine("serial")
    /\ lines' \in {lines, lines \cup {Len(engines)}}
    /\ UNCHANGED <<association, acceptor, accepting, serving, backlog, ended,
                   requests, log, behind, up, down>>

(* ... and their answers.  (With MaxEngines engines they are not answered  *)
(* any more.)                                                              *)
SerialServerAnswered ==
    /\ ~ended
    /\ prompting
    /\ prompting' = FALSE
    /\ NewEngine("serial")
    /\ lines' \in {lines, lines \cup {Len(engines')}}
    /\ UNCHANGED <<association, acceptor, accepting, serving, backlog, ended,
                   requests, log, behind, up, down>>

(* The kernel ends every connection of a process that is gone.             *)
Joined(s) ==
    ~ended /\ (s = serving \/ \E i \in 1..Len(backlog) : backlog[i] = s)

Resets ==
    [s \in Sockets |->
        IF Joined(s) /\ ~Ended(down[s]) THEN Append(down[s], "RST") ELSE down[s]]

(* 0 - Exit Application.                                                   *)
ExitServer ==
    /\ Looping
    /\ ended' = TRUE
    /\ down' = Resets
    /\ UNCHANGED <<engines, m_Values, association, acceptor, accepting, serving, backlog,
                   lines, prompting, requests, log, behind, up>>

ServerSelection == TCPServer \/ SerialServer \/ ExitServer

-----------------------------------------------------------------------------
(* The engines.                                                            *)

Broken(s) == up[s] = <<Signal("RST")>>

ASIO_Accept_Handler_Rearms ==          \* mutant: the accept is issued again
    /\ Looping
    /\ accepting /\ backlog # <<>> /\ ~Broken(Head(backlog))
    /\ serving' = Head(backlog)
    /\ backlog' = Tail(backlog)
    /\ UNCHANGED <<engines, m_Values, association, acceptor, accepting, lines, prompting,
                   ended, requests, log, behind, up, down>>

(* The accept is issued once, in Open.                                     *)
ASIO_Accept_Handler ==
    /\ Looping
    /\ accepting /\ backlog # <<>> /\ ~Broken(Head(backlog))
    /\ accepting' = FALSE
    /\ serving' = Head(backlog)
    /\ backlog' = Tail(backlog)
    /\ UNCHANGED <<engines, m_Values, association, acceptor, lines, prompting,
                   ended, requests, log, behind, up, down>>

(* remote_endpoint() throws for a connection reset before it was accepted, *)
(* and nothing catches the exception: the process ends.                    *)
Accept_Handler_Throws ==
    /\ Looping
    /\ accepting /\ backlog # <<>> /\ Broken(Head(backlog))
    /\ ended' = TRUE
    /\ down' = Resets
    /\ UNCHANGED <<engines, m_Values, association, acceptor, accepting, serving, backlog,
                   lines, prompting, requests, log, behind, up>>

Performing_Shared(e, o) ==             \* mutant: one device for all engines
    [f \in Engines |-> o.values]

Performing(e, o) == [m_Values EXCEPT ![e] = o.values]

(* A get, set or action on engine e; the library refuses it outside an     *)
(* association.                                                            *)
Perform(e, q) ==
    IF e \notin association
    THEN UNCHANGED <<m_Values, log, behind, ended>>
    ELSE \E o \in Outcomes(q, m_Values[e]) :
            /\ m_Values' = Performing(e, o)
            /\ log' = Append(log, [engine |-> e, q |-> q, res |-> o.res, data |-> o.data])
            /\ behind' = (behind \/ o.behind)
            /\ ended' = o.ends

(* The next segment of the accepted connection.                            *)
Incoming(kinds) ==
    /\ Looping
    /\ serving # NoSocket
    /\ up[serving] # <<>>
    /\ Head(up[serving]).kind \in kinds

Consume == up' = [up EXCEPT ![serving] = Tail(@)]

HangsUp(channel) == channel # <<>> /\ channel[Len(channel)].kind \in {"FIN", "RST"}

Answering(reply) ==
    IF HangsUp(up[serving]) THEN down
    ELSE [down EXCEPT ![serving] = Append(@, reply)]

OpenRequest_Silent ==                  \* mutant: the association is not confirmed
    /\ Incoming({"AARQ"})
    /\ association' = association \cup {acceptor}
    /\ Consume
    /\ UNCHANGED <<engines, m_Values, acceptor, accepting, serving, backlog, lines,
                   prompting, ended, requests, log, behind, down>>

OpenRequest ==
    /\ Incoming({"AARQ"})
    /\ association' = association \cup {acceptor}
    /\ Consume
    /\ down' = Answering("AARE")
    /\ UNCHANGED <<engines, m_Values, acceptor, accepting, serving, backlog, lines,
                   prompting, ended, requests, log, behind>>

ReleaseRequest ==
    /\ Incoming({"RLRQ"})
    /\ association' = association \ {acceptor}
    /\ Consume
    /\ down' = Answering("RLRE")
    /\ UNCHANGED <<engines, m_Values, acceptor, accepting, serving, backlog, lines,
                   prompting, ended, requests, log, behind>>

(* "ACTRES" stands for the response to any of the three services.          *)
ServiceRequest ==
    /\ Incoming({"get", "set", "action"})
    /\ Perform(acceptor, Head(up[serving]))
    /\ Consume
    /\ down' = IF ended' THEN Resets ELSE Answering("ACTRES")
    /\ UNCHANGED <<engines, association, acceptor, accepting, serving, backlog, lines,
                   prompting, requests>>

(* The read ends; the connection stays the accepted one.                   *)
ConnectionCloses ==
    /\ Incoming({"FIN", "RST"})
    /\ association' = association \ {acceptor}
    /\ Consume
    /\ UNCHANGED <<engines, m_Values, acceptor, accepting, serving, backlog, lines,
                   prompting, ended, requests, log, behind, down>>

(* A peer on the port of engine e opens its association, which it keeps,   *)
(* or asks for something.                                                  *)
LineAssociation(e) ==
    /\ Looping
    /\ association' = association \cup {e}
    /\ UNCHANGED <<engines, m_Values, acceptor, accepting, serving, backlog, lines,
                   prompting, ended, requests, log, behind, up, down>>

LineRequest(e) ==
    /\ Looping
    /\ requests < MaxRequests
    /\ requests' = requests + 1
    /\ \E q \in LineRequests : Perform(e, q)
    /\ down' = IF ended' THEN Resets ELSE down
    /\ UNCHANGED <<engines, association, acceptor, accepting, serving, backlog, lines,
                   prompting, up>>

ServerStep ==
    \/ ASIO_Accept_Handler \/ Accept_Handler_Throws
    \/ OpenRequest \/ ReleaseRequest \/ ServiceRequest \/ ConnectionCloses

(* Where no request is to arrive the lines are silent.                     *)
LineStep ==
    /\ LineRequests # {}
    /\ \E e \in lines : LineAssociation(e) \/ LineRequest(e)
=============================================================================
