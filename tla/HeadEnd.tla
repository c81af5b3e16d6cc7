------------------------------ MODULE HeadEnd -------------------------------
(***************************************************************************)
(* serviceConnect of HESsim.cpp: one call is one session with one meter    *)
(* over one new socket.  The process has one thread; it calls poll() from  *)
(* the two waiting loops of serviceConnect and from nowhere else, so the   *)
(* handlers of every socket it ever made run only there.  The sockets are  *)
(* TcpSocket's, the meters Metersim's; the kernel's steps join the two.    *)
(***************************************************************************)
EXTENDS TcpSocket, Metersim

CONSTANT MaxTries    \* max_tries, 400 in the source

ASSUME MaxTriesAssumption == MaxTries \in Nat \ {0}

VARIABLES
    pc,       \* "idle", the loop the call is in, or "died"
    cur,      \* the session, which is also its socket
    tries,    \* turns of the loop left
    req,      \* the arguments of each session's call
    assoc,    \* the client engine's IsOpen()
    asked,    \* the Action request was handed to the transport
    result    \* what each call returned

hesVars == <<pc, cur, tries, req, assoc, asked, result>>
vars == <<socketVars, meterVars, hesVars>>

Requests == [meter : Meters, cmd : Commands]
NoRequest == [meter |-> "none", cmd |-> "none"]

HesTypeOK ==
    /\ pc \in {"idle", "connect", "associate", "died"}
    /\ cur \in 0..MaxSockets
    /\ tries \in 0..MaxTries
    /\ req \in [Sockets -> Requests \cup {NoRequest}]
    /\ pc # "idle" => cur \in Sockets /\ req[cur] \in Requests
    /\ assoc \in [Sockets -> BOOLEAN]
    /\ asked \in [Sockets -> BOOLEAN]
    /\ result \in [Sockets -> {"none", "failed", "ok"}]

(* Every variable of the sockets, the meters and the calls keeps its type. *)
TypeOK == SocketTypeOK /\ MeterTypeOK /\ HesTypeOK

Init ==
    /\ SocketInit
    /\ MeterInit
    /\ pc = "idle"
    /\ cur = 0
    /\ tries = 0
    /\ req = [s \in Sockets |-> NoRequest]
    /\ assoc = [s \in Sockets |-> FALSE]
    /\ asked = [s \in Sockets |-> FALSE]
    /\ result = [s \in Sockets |-> "none"]

-----------------------------------------------------------------------------
(* The thread of the head end.                                             *)

(* serviceConnect is called: engine, wrapper and socket, then Open.        *)
Call(m, c) ==
    /\ pc = "idle"
    /\ cur < MaxSockets
    /\ cur' = cur + 1
    /\ req' = [req EXCEPT ![cur + 1] = [meter |-> m, cmd |-> c]]
    /\ CreateSocket(cur + 1)

Begin(m, c) ==
    /\ Call(m, c)
    /\ OpenClient(cur + 1)
    /\ pc' = "connect"
    /\ tries' = MaxTries
    /\ UNCHANGED <<left, ready, stopped, transport, meterVars, assoc, asked, result>>

(* "Failed to initiate connect": the call returns and the engine goes with *)
(* its wrapper; nobody releases the socket.                                *)
BeginFails(m, c) ==
    /\ Call(m, c)
    /\ OpenFails(cur + 1)
    /\ transport' = [transport EXCEPT ![cur + 1] = "dead"]
    /\ result' = [result EXCEPT ![cur + 1] = "failed"]
    /\ UNCHANGED <<left, ready, stopped, meterVars, pc, tries, assoc, asked>>

EngineHears_NotTheEnd(h) ==         \* mutant: a closed transport leaves it open
    IF h.call = "read" /\ transport[h.sock] # "dead"
    THEN [assoc EXCEPT ![h.sock] = @ \/ h.res = "AARE"]
    ELSE assoc

(* What the wrapper makes of a completed read in the engine: the           *)
(* association response opens it, the end of the transport closes it.      *)
EngineHears(h) ==
    IF h.call = "read" /\ transport[h.sock] # "dead"
    THEN [assoc EXCEPT ![h.sock] =
             IF h.res = "error" THEN FALSE ELSE @ \/ h.res = "AARE"]
    ELSE assoc

InLoop == pc \in {"connect", "associate"}

(* poll() calls one handler.                                               *)
Poll ==
    /\ InLoop
    /\ PollOne
    /\ assoc' = EngineHears(Head(ready))
    /\ UNCHANGED <<meterVars, pc, cur, tries, req, asked, result>>

(* The kernel ends every connection of a process that is gone.             *)
HangUp ==
    [s \in Sockets |->
        IF Joined(s) /\ ~Ended(up[s]) THEN Append(up[s], "FIN") ELSE up[s]]

(* A handler's exception leaves poll(), and serviceConnect, and nothing    *)
(* catches it: the process ends, and its variables keep what they had.     *)
HandlerThrows ==
    /\ InLoop
    /\ PollThrows
    /\ pc' = "died"
    /\ up' = HangUp
    /\ UNCHANGED <<mode, serving, context, backlog, executed, down,
                   cur, tries, req, assoc, asked, result>>

TransportUp == IsConnected(cur) /\ IsTransportConnected(cur)

(* First loop: the transport is up, the engine asks for the association    *)
(* and the second loop begins.                                             *)
Associate ==
    /\ pc = "connect"
    /\ PollReturns
    /\ TransportUp
    /\ up' = Sent(cur, <<"AARQ">>)
    /\ pc' = "associate"
    /\ tries' = MaxTries
    /\ UNCHANGED <<socketVars, mode, serving, context, backlog, executed, down,
                   cur, req, assoc, asked, result>>

ConnectAgain ==
    /\ pc = "connect"
    /\ PollReturns
    /\ ~TransportUp
    /\ tries > 1
    /\ tries' = tries - 1
    /\ UNCHANGED <<socketVars, meterVars, pc, cur, req, assoc, asked, result>>

(* tries <= 0: the call returns false.  The engine and its wrapper are     *)
(* destroyed; the socket stays, with whatever it has outstanding.          *)
GiveUp ==
    /\ pc = "connect"
    /\ PollReturns
    /\ ~TransportUp
    /\ tries = 1
    /\ pc' = "idle"
    /\ tries' = 0
    /\ result' = [result EXCEPT ![cur] = "failed"]
    /\ transport' = [transport EXCEPT ![cur] = "dead"]
    /\ UNCHANGED <<sock, isOpen, op, left, ready, stopped, meterVars,
                   cur, req, assoc, asked>>

Associated_NotAwaited == IsConnected(cur)   \* mutant: no wait for the AARE

Associated == IsConnected(cur) /\ assoc[cur]

AssociateAgain_Forever ==           \* mutant: the loop does not count
    /\ pc = "associate"
    /\ PollReturns
    /\ ~Associated
    /\ UNCHANGED vars

AssociateAgain ==
    /\ pc = "associate"
    /\ PollReturns
    /\ ~Associated
    /\ tries > 1
    /\ tries' = tries - 1
    /\ UNCHANGED <<socketVars, meterVars, pc, cur, req, assoc, asked, result>>

Goodbye_ClosesFirst(segments) ==    \* mutant: the socket closes too early
    Sent(cur, <<"FIN">> \o segments)

Goodbye_NoClose(segments) == Sent(cur, segments)   \* mutant: it never closes

(* What the meter gets at the end of a call: the last requests, and the    *)
(* end of the stream.                                                      *)
Goodbye(segments) == Sent(cur, segments \o <<"FIN">>)

Returned_Uninitialised == "failed"  \* mutant: result = true is missing

(* The value of result after ReleaseSocket.                                *)
Returned == "ok"

(* The end of a call that got past the first loop: Release, ReleaseSocket, *)
(* the destruction of the engine, and true.                                *)
Finish(segments) ==
    /\ ReleaseSocket(cur)
    /\ up' = Goodbye(segments)
    /\ transport' = [transport EXCEPT ![cur] = "dead"]
    /\ pc' = "idle"
    /\ tries' = 0
    /\ result' = [result EXCEPT ![cur] = Returned]
    /\ UNCHANGED <<sock, left, stopped, mode, serving, context, backlog, executed,
                   down, cur, req, assoc>>

(* The Action goes out, the Release behind it unless the engine, with the  *)
(* Action unanswered, refuses it; nobody waits for an answer.              *)
Command ==
    /\ pc = "associate"
    /\ PollReturns
    /\ Associated
    /\ asked' = [asked EXCEPT ![cur] = TRUE]
    /\ \E release \in {<<>>, <<"RLRQ">>} :
          Finish(<<req[cur].cmd>> \o release)

(* Action returns false: only the Release and the end.                     *)
CommandRefused ==
    /\ "action" \in Faults
    /\ pc = "associate"
    /\ PollReturns
    /\ Associated
    /\ asked' = asked
    /\ Finish(<<"RLRQ">>)

(* The second loop runs out: the code below it runs all the same.          *)
FallThrough ==
    /\ pc = "associate"
    /\ PollReturns
    /\ ~Associated
    /\ tries = 1
    /\ asked' = asked
    /\ Finish(<<>>)

HesStep ==
    \/ Poll \/ HandlerThrows
    \/ Associate \/ ConnectAgain \/ GiveUp
    \/ Command \/ CommandRefused \/ AssociateAgain \/ FallThrough

-----------------------------------------------------------------------------
(* The kernels and the resolver's thread; for a process that is gone they  *)
(* complete nothing.                                                       *)

Alive == pc # "died"

Resolve(s) ==
    /\ Alive
    /\ ResolveDone(s)
    /\ UNCHANGED <<meterVars, hesVars>>

ConnectSucceeds(s) ==
    /\ Alive
    /\ ConnectDone(s, "ok")
    /\ EstablishConnection(req[s].meter, s)
    /\ UNCHANGED hesVars

ConnectRefused(s) ==
    /\ Alive
    /\ ConnectDone(s, "error")
    /\ "refuse" \in Faults \/ ~Accepting(req[s].meter)
    /\ UNCHANGED <<meterVars, hesVars>>

Receive(s) ==
    /\ Alive
    /\ down[s] # <<>>
    /\ ReadDone(s, IF Head(down[s]) = "RST" THEN "error" ELSE Head(down[s]))
    /\ down' = [down EXCEPT ![s] = Tail(@)]
    /\ UNCHANGED <<mode, serving, context, backlog, executed, up, hesVars>>

Reset(s) ==
    /\ ConnectionReset(s)
    /\ UNCHANGED <<socketVars, hesVars>>

Meter(m) ==
    /\ MeterStep(m)
    /\ UNCHANGED <<socketVars, hesVars>>

MeterFails(m) ==
    /\ MeterFault(m)
    /\ UNCHANGED <<socketVars, hesVars>>

NetworkStep ==
    \E s \in Sockets : \/ Resolve(s)
                       \/ ConnectSucceeds(s) \/ ConnectRefused(s)
                       \/ Receive(s)

Next ==
    \/ \E m \in Meters, c \in Commands : Begin(m, c) \/ BeginFails(m, c)
    \/ HesStep
    \/ NetworkStep
    \/ \E s \in Sockets : Reset(s)
    \/ \E m \in Meters : Meter(m) \/ MeterFails(m)

Spec == Init /\ [][Next]_vars

(* The process's thread runs, the resolver answers, the kernels complete a *)
(* connect or a read that can complete, and a meter's process runs.  No    *)
(* fault is ever owed, nor is another call.                                *)
Fairness ==
    /\ WF_vars(HesStep)
    /\ \A s \in Sockets : /\ WF_vars(Resolve(s))
                          /\ WF_vars(ConnectSucceeds(s) \/ ConnectRefused(s))
                          /\ WF_vars(Receive(s))
    /\ \A m \in Meters : WF_vars(Meter(m))

FairSpec == Spec /\ Fairness

-----------------------------------------------------------------------------
(* Properties.                                                             *)

Performed(s) == \E m \in Meters : \E i \in 1..Len(executed[m]) : executed[m][i].sess = s

(* A meter performs the commands of the calls made for it in the order of  *)
(* the calls, each at most once and as it was requested, although nobody   *)
(* waits for an answer and connections queue up behind one another.        *)
PerformedInOrder ==
    \A m \in Meters : \A i \in 1..Len(executed[m]) :
        /\ req[executed[m][i].sess] = [meter |-> m, cmd |-> executed[m][i].cmd]
        /\ \A j \in 1..(i - 1) : executed[m][j].sess < executed[m][i].sess

(* serviceConnect returns false only for a meter it has not operated: the  *)
(* caller reports the meter as failed, and it will not be operated later   *)
(* by what the failed call left behind.                                    *)
FailedNotPerformed ==
    \A s \in Sockets : Performed(s) => asked[s] /\ result[s] = "ok"

(* A command that was sent is performed, or it is what the meter that      *)
(* serves the connection reads next, with the association still standing,  *)
(* unless the connection was reset.  So nobody has to wait for the answer: *)
(* neither the Release nor the close behind it can overtake the command,   *)
(* and it is never left to a meter that has forgotten the association.     *)
ReadNext(s) ==
    \E m \in Meters :
        /\ serving[m] = s /\ context[m]
        /\ up[s] # <<>> /\ Head(up[s]) = req[s].cmd

CommandNotLost ==
    \A s \in Sockets :
        asked[s] => Performed(s) \/ ReadNext(s) \/ ("reset" \in Faults /\ Ended(down[s]))

(* What the comment in ReleaseSocket posts RemoveSocket for: when a socket *)
(* is destroyed, no operation of it is outstanding and no handler of it is *)
(* still to be called.                                                     *)
CleanupBeforeRemoval ==
    \A s \in Sockets : sock[s] = "removed" =>
        /\ op[s] = "none"
        /\ \A i \in 1..Len(ready) : ready[i].sock # s

(* The socket of a call that returned true is removed, or waits for its    *)
(* one RemoveSocket; the socket of any other call has none posted.         *)
ReleasedOnce ==
    \A s \in Sockets :
        LET posted == {i \in 1..Len(ready) : ready[i] = Done("remove", s, "ok")} IN
        IF result[s] = "ok"
        THEN (sock[s] = "removed" /\ posted = {}) \/ (\E i \in posted : posted = {i})
        ELSE sock[s] # "removed" /\ posted = {}

(* A loop that has stopped commands nobody: the socket that could still    *)
(* carry an Action would have a read outstanding and keep the loop going.  *)
StoppedIsSilent == [][stopped => asked' = asked]_vars

(* Every call returns, whatever the network and the meters do, unless the  *)
(* process ends; and it ends only when a peer, which may be a meter whose  *)
(* loop starts over, resets a connection that the head end keeps open and  *)
(* whose connect handler has not run yet.                                  *)
SessionEnds ==
    pc # "idle" ~>
        \/ pc = "idle"
        \/ /\ pc = "died"
           /\ \E s \in Sockets : isOpen[s] /\ transport[s] # "connected" /\ Ended(down[s])

(* A command that was sent is performed, however long its connection waits *)
(* at the meter, unless that connection breaks.                            *)
AskedIsPerformed ==
    \A s \in Sockets : (asked[s] ~> Performed(s)) \/ <>(up[s] = <<"RST">>)

(* A meter does not stay with the connection of a call that returned true. *)
MeterIsFreed ==
    \A m \in Meters, s \in Sockets :
        serving[m] = s /\ result[s] = "ok" ~> serving[m] # s

(* What a caller is promised, as CommandRelay states it.                   *)
Outcome == [s \in Sockets |->
               IF s = cur /\ pc # "idle" THEN "pending" ELSE result[s]]

Relay == INSTANCE CommandRelay WITH
    request <- req, outcome <- Outcome,
    sent <- {s \in Sockets : asked[s]}, performed <- executed

ImplementsRelay == Relay!RelaySpec

(* "If everything is OK": true means that the Action request was sent.     *)
OkMeansAsked == \A s \in Sockets : result[s] = "ok" => asked[s]

(* The traffic is periodic: a meter that serves a connection is free again *)
(* for the next.                                                           *)
MeterServesAgain == \A m \in Meters : serving[m] # NoSocket ~> serving[m] = NoSocket
=============================================================================
