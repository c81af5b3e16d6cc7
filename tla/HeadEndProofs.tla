--------------------------- MODULE HeadEndProofs ----------------------------
(***************************************************************************)
(* Theorems about HeadEnd, for every set of meters, every number of        *)
(* sessions, tries and endpoints, and every set of faults.                 *)
(***************************************************************************)
EXTENDS HeadEnd, TcpSocketProofs

-----------------------------------------------------------------------------
(* The inductive invariant, in parts.                                      *)

(* For FailedNotPerformed: a command is performed only if it was in the    *)
(* stream, it gets into the stream only in the step that makes the call    *)
(* return true, and no other call returns for the same socket.             *)
AskedReturnedTrue ==
    \A s \in Sockets : asked[s] => result[s] = "ok" /\ sock[s] # "new"

CallInProgressNotAsked == pc # "idle" => ~asked[cur]

StreamCarriesAsked ==
    \A s \in Sockets : \A i \in 1..Len(up[s]) : up[s][i] \in Commands => asked[s]

PerformedWasAsked ==
    \A m \in Meters : \A i \in 1..Len(executed[m]) : asked[executed[m][i].sess]

CommandInv ==
    /\ AskedReturnedTrue
    /\ CallInProgressNotAsked
    /\ StreamCarriesAsked
    /\ PerformedWasAsked

(* For CleanupBeforeRemoval, ReleasedOnce and StoppedIsSilent: a socket    *)
(* has one operation outstanding or one handler waiting, except that       *)
(* behind the end of its read its removal may wait; it connects only       *)
(* before its call can release it, and is open then; a transport that is   *)
(* up is being read.                                                       *)
Ordered(q) ==
    \A i, j \in 1..Len(q) :
        i < j /\ q[i].sock = q[j].sock =>
            q[i].call = "read" /\ q[i].res = "error" /\ q[j].call = "remove"

HandlerOK(c) ==
    /\ sock[c.sock] = "listed" /\ op[c.sock] = "none"
    /\ c.call \in {"resolver", "connect"} =>
          result[c.sock] # "ok" /\ transport[c.sock] \in {"idle", "dead"}
    /\ c.call = "connect" => isOpen[c.sock]
    /\ c.call = "read" =>
          /\ transport[c.sock] \in {"connected", "dead"}
          /\ result[c.sock] = "ok" => c.res = "error"
    /\ c.call = "remove" => result[c.sock] = "ok" /\ c.res = "ok"

OperationOK(s) ==
    /\ op[s] # "none" => sock[s] = "listed" /\ result[s] # "ok"
    /\ op[s] \in {"resolve", "connect"} => transport[s] \in {"idle", "dead"}
    /\ op[s] = "connect" => isOpen[s]
    /\ op[s] = "read" => transport[s] \in {"connected", "dead"}

SessionOK(s) ==
    /\ sock[s] = "new" <=> s > cur
    /\ sock[s] = "new" => transport[s] = "idle" /\ result[s] = "none"
    /\ sock[s] = "removed" => result[s] = "ok"
    /\ result[s] = "none" /\ sock[s] # "new" => s = cur /\ pc # "idle"
    /\ result[s] = "ok" =>
          /\ transport[s] = "dead"
          /\ sock[s] = "removed" \/ Done("remove", s, "ok") \in Queued
    /\ transport[s] = "connected" =>
          op[s] = "read" \/ \E c \in Queued : c.call = "read" /\ c.sock = s
    /\ assoc[s] => transport[s] \in {"connected", "dead"}

CallOK ==
    /\ pc # "idle" =>
          sock[cur] = "listed" /\ result[cur] = "none" /\ transport[cur] # "dead"
    /\ pc = "associate" => transport[cur] # "idle"
    /\ stopped /\ pc = "connect" => transport[cur] # "connected"
    /\ stopped /\ pc = "associate" => ready = <<>> /\ \A s \in Sockets : op[s] = "none"

CleanupInv ==
    /\ Ordered(ready)
    /\ \A c \in Queued : HandlerOK(c)
    /\ \A s \in Sockets : OperationOK(s) /\ SessionOK(s)
    /\ CallOK

(* For PerformedInOrder: a socket is connected once, to the meter of its   *)
(* call; connections of failed calls may come late, and carry no command;  *)
(* the others queue up at a meter in the order of the calls, behind those  *)
(* it has performed. With the two invariants above and the type invariant  *)
(* this is inductive.                                                      *)
Joining(s) ==
    \/ op[s] \in {"resolve", "connect"}
    \/ \E c \in Queued : c.sock = s /\ (c.call = "connect" => c.res = "error")
                                   /\ c.call \in {"resolver", "connect"}

JoinedOnce ==
    \A m \in Meters, s \in Sockets :
        serving[m] = s \/ Waiting(m, s) =>
            sock[s] # "new" /\ req[s].meter = m /\ ~Joining(s)

InTurn ==
    \A m \in Meters : \A j \in 1..Len(backlog[m]) :
        LET s == backlog[m][j] IN
        result[s] # "failed" =>
            /\ serving[m] < s
            /\ \A i \in 1..(j - 1) : backlog[m][i] < s
            /\ \A i \in 1..Len(executed[m]) : executed[m][i].sess < s

OneCommand ==
    \A s \in Sockets : \A i \in 1..Len(up[s]) :
        up[s][i] \in Commands =>
            /\ up[s][i] = req[s].cmd
            /\ \A j \in 1..Len(up[s]) : up[s][j] \in Commands => j = i
            /\ \A m \in Meters : \A j \in 1..Len(executed[m]) :
                  serving[m] = s => executed[m][j].sess < s

ConnectionInv ==
    /\ JoinedOnce
    /\ InTurn
    /\ OneCommand
    /\ PerformedInOrder

(* For CommandNotLost: a meter serves a connection in its serving mode;    *)
(* until a call associates its stream is empty or reset and nothing of an  *)
(* association comes back; while it does, the stream holds its AARQ at     *)
(* most; and the engine hears of the AARE only while the meter serves it,  *)
(* keeps the association and has read all, unless the connection was       *)
(* reset.  Once the process has died no call associates any more, and only *)
(* what was asked before matters.  With the invariants above this is       *)
(* inductive.                                                              *)
Associating(s) == pc = "associate" /\ s = cur

Heard(s) ==
    \/ assoc[s]
    \/ \E c \in Queued : c.sock = s /\ c.res = "AARE"
    \/ \E i \in 1..Len(down[s]) : down[s][i] = "AARE"

Served(s) == \E m \in Meters : serving[m] = s /\ context[m] /\ up[s] = <<>>

(* The reset has been there, and no meter will answer any more.            *)
Gone(s) == Ended(down[s]) /\ (up[s] = <<"RST">> \/ ~Joined(s))

BrokenOff(s) ==
    /\ "reset" \in Faults
    /\ \/ Gone(s)
       \/ \E c \in Queued : c.sock = s /\ c.call = "read" /\ c.res = "error"
       \/ transport[s] = "closed"

ServingMode == \A m \in Meters : mode[m] = "serving" <=> serving[m] # NoSocket

BeforeCommand(s) ==
    Alive /\ result[s] # "ok" =>
        /\ up[s] \in {<<>>, <<"RST">>} \/ (Associating(s) /\ up[s] = <<"AARQ">>)
        /\ Heard(s) => Associating(s) /\ (Served(s) \/ BrokenOff(s))

AfterCommand(s) ==
    asked[s] => Performed(s) \/ ReadNext(s) \/ ("reset" \in Faults /\ Gone(s))

DeliveryInv == ServingMode /\ \A s \in Sockets : BeforeCommand(s) /\ AfterCommand(s)

-----------------------------------------------------------------------------
(* Types: meters.                                                          *)

LEMMA MeterInitType == MeterInit => MeterTypeOK
<1> SUFFICES ASSUME MeterInit PROVE MeterTypeOK OBVIOUS
<1>1. /\ backlog \in [Meters -> Seq(Sockets)]
      /\ executed \in [Meters -> Seq(Execution)]
      /\ up \in [Sockets -> Seq(ToMeter)]
      /\ down \in [Sockets -> Seq(ToClient)]
  BY EmptySeq DEF MeterInit
<1>2. QED BY <1>1 DEF MeterInit, MeterTypeOK

(* What is written to a connection keeps the type of the stream.           *)
LEMMA SentType ==
    ASSUME MeterTypeOK, NEW s \in Sockets, NEW segments \in Seq(ToMeter)
    PROVE  Sent(s, segments) \in [Sockets -> Seq(ToMeter)]
<1>1. up[s] \o segments \in Seq(ToMeter) BY ConcatProperties DEF MeterTypeOK
<1>2. QED BY <1>1 DEF Sent, MeterTypeOK

LEMMA EndOfSocketsType ==
    ASSUME MeterTypeOK, NEW m \in Meters, EndOfSockets(m)
    PROVE  /\ backlog' \in [Meters -> Seq(Sockets)]
           /\ up' \in [Sockets -> Seq(ToMeter)]
           /\ down' \in [Sockets -> Seq(ToClient)]
<1>1. "RST" \in ToClient BY DEF ToClient
<1>2. \A s \in Sockets : Append(down[s], "RST") \in Seq(ToClient)
  BY <1>1 DEF MeterTypeOK
<1>3. backlog' \in [Meters -> Seq(Sockets)]
  BY EmptySeq DEF EndOfSockets, MeterTypeOK
<1>4. up' \in [Sockets -> Seq(ToMeter)]
  BY EmptySeq DEF EndOfSockets, MeterTypeOK
<1>5. down' \in [Sockets -> Seq(ToClient)]
  BY <1>2 DEF EndOfSockets, MeterTypeOK
<1>6. QED BY <1>3, <1>4, <1>5

LEMMA AnswerType ==
    ASSUME MeterTypeOK, NEW m \in Meters, NEW segments, Incoming(m, segments),
           NEW reply \in Replies, Answer(m, reply)
    PROVE  /\ up' \in [Sockets -> Seq(ToMeter)]
           /\ down' \in [Sockets -> Seq(ToClient)]
<1>1. serving[m] \in Sockets /\ up[serving[m]] \in Seq(ToMeter)
  BY DEF Incoming, MeterTypeOK
<1>2. Tail(up[serving[m]]) \in Seq(ToMeter) BY <1>1, TailType DEF Incoming
<1>3. up' \in [Sockets -> Seq(ToMeter)]
  BY <1>2 DEF Answer, MeterTypeOK
<1>4. reply \in ToClient BY DEF ToClient
<1>5. Append(down[serving[m]], reply) \in Seq(ToClient)
  BY <1>1, <1>4 DEF MeterTypeOK
<1>6. down' \in [Sockets -> Seq(ToClient)]
  BY <1>5 DEF Answer, MeterTypeOK
<1>7. QED BY <1>3, <1>6

(* Each step of a meter's process keeps the types.                         *)
LEMMA MeterStepType ==
    ASSUME MeterTypeOK, NEW m \in Meters, MeterStep(m)
    PROVE  MeterTypeOK'
<1>1. CASE Server_Handler(m)
  BY <1>1 DEF Server_Handler, MeterTypeOK
<1>2. CASE ASIO_Accept_Handler(m)
  <2>1. backlog[m] \in Seq(Sockets) /\ backlog[m] # <<>>
    BY <1>2 DEF ASIO_Accept_Handler, MeterTypeOK
  <2>2. Head(backlog[m]) \in Sockets /\ Tail(backlog[m]) \in Seq(Sockets)
    BY <2>1, TailType
  <2>3. QED BY <1>2, <2>2 DEF ASIO_Accept_Handler, MeterTypeOK
<1>3. CASE Accept_Handler_Throws(m)
  BY <1>3, EndOfSocketsType DEF Accept_Handler_Throws, MeterTypeOK
<1>4. CASE OpenRequest(m)
  <2>1. "AARE" \in Replies BY DEF Replies
  <2>2. QED BY <1>4, <2>1, AnswerType DEF OpenRequest, MeterTypeOK
<1>5. CASE InternalAction(m)
  <2>1. "ACTRES" \in Replies BY DEF Replies
  <2>2. Invoked(m) \in Execution
    BY <1>5 DEF InternalAction, Incoming, Invoked, Execution, MeterTypeOK
  <2>3. executed' \in [Meters -> Seq(Execution)]
    BY <1>5, <2>2 DEF InternalAction, MeterTypeOK
  <2>4. QED BY <1>5, <2>1, <2>3, AnswerType DEF InternalAction, MeterTypeOK
<1>6. CASE ReleaseRequest(m)
  <2>1. "RLRE" \in Replies BY DEF Replies
  <2>2. QED BY <1>6, <2>1, AnswerType DEF ReleaseRequest, MeterTypeOK
<1>7. CASE Restart(m)
  BY <1>7, EndOfSocketsType DEF Restart, MeterTypeOK
<1>8. QED BY <1>1, <1>2, <1>3, <1>4, <1>5, <1>6, <1>7 DEF MeterStep

-----------------------------------------------------------------------------
(* Types: the head end.                                                    *)

(* What the thread writes at the end of a call is made of requests.        *)
LEMMA GoodbyeType ==
    ASSUME MeterTypeOK, cur \in Sockets, NEW segments \in Seq(ToMeter)
    PROVE  Goodbye(segments) \in [Sockets -> Seq(ToMeter)]
<1>1. <<"FIN">> \in Seq(ToMeter) BY DEF ToMeter
<1>2. segments \o <<"FIN">> \in Seq(ToMeter) BY <1>1, ConcatProperties
<1>3. QED BY <1>2, SentType DEF Goodbye

(* The Action request, with or without the Release behind it.              *)
LEMMA CommandSegments ==
    ASSUME TypeOK, pc = "associate", NEW release \in {<<>>, <<"RLRQ">>}
    PROVE  <<req[cur].cmd>> \o release \in Seq(ToMeter)
<1>1. req[cur].cmd \in ToMeter BY DEF TypeOK, HesTypeOK, Requests, ToMeter
<1>2. <<"RLRQ">> \in Seq(ToMeter) BY DEF ToMeter
<1>3. <<>> \in Seq(ToMeter) BY EmptySeq
<1>4. release \in Seq(ToMeter)
  <2>1. CASE release = <<>> BY <1>3, <2>1
  <2>2. CASE release = <<"RLRQ">> BY <1>2, <2>2
  <2>3. QED BY <2>1, <2>2
<1>5. QED BY <1>1, <1>4, ConcatProperties

LEMMA FinishType ==
    ASSUME TypeOK, pc = "associate", NEW segments \in Seq(ToMeter),
           Finish(segments), asked' \in [Sockets -> BOOLEAN]
    PROVE  TypeOK'
<1>1. cur \in Sockets BY DEF TypeOK, HesTypeOK
<1>2. SocketTypeOK'
  BY <1>1, ReleaseType DEF Finish, SocketTypeOK, TypeOK
<1>3. MeterTypeOK'
  BY <1>1, GoodbyeType DEF Finish, MeterTypeOK, TypeOK
<1>4. HesTypeOK'
  <2>1. 0 \in 0..MaxTries BY MaxTriesAssumption
  <2>2. result' \in [Sockets -> {"none", "failed", "ok"}]
    BY DEF Finish, Returned, HesTypeOK, TypeOK
  <2>3. QED BY <2>1, <2>2 DEF Finish, HesTypeOK, TypeOK
<1>5. QED BY <1>2, <1>3, <1>4 DEF TypeOK

(* The end of the process ends its streams and adds no command to them.    *)
LEMMA HangUpStreams ==
    ASSUME MeterTypeOK, up' = HangUp, NEW s \in Sockets
    PROVE  /\ up'[s] = up[s] \/ up'[s] = Append(up[s], "FIN")
           /\ up' \in [Sockets -> Seq(ToMeter)]
           /\ \A i \in 1..Len(up'[s]) : up'[s][i] \in Commands =>
                  i \in 1..Len(up[s]) /\ up'[s][i] = up[s][i]
<1>1. "FIN" \in ToMeter /\ "FIN" \notin Commands BY DEF ToMeter, Commands
<1>2. ASSUME NEW r \in Sockets
      PROVE  up[r] \in Seq(ToMeter) /\ Append(up[r], "FIN") \in Seq(ToMeter)
  <2>1. up[r] \in Seq(ToMeter) BY DEF MeterTypeOK
  <2>2. QED BY <1>1, <2>1, AppendProperties
<1>3. up'[s] = up[s] \/ up'[s] = Append(up[s], "FIN") BY DEF HangUp
<1>4. up' \in [Sockets -> Seq(ToMeter)] BY <1>2 DEF HangUp
<1>5. ASSUME NEW i \in 1..Len(up'[s]), up'[s][i] \in Commands
      PROVE  i \in 1..Len(up[s]) /\ up'[s][i] = up[s][i]
  <2>1. CASE up'[s] = up[s] BY <2>1
  <2>2. CASE up'[s] = Append(up[s], "FIN")
    <3>1. Len(up'[s]) = Len(up[s]) + 1 /\ Len(up[s]) \in Nat
      BY <1>1, <1>2, <2>2, AppendProperties, LenProperties
    <3>2. up'[s][Len(up[s]) + 1] = "FIN"
      BY <1>1, <1>2, <2>2, AppendProperties
    <3>3. \A j \in 1..Len(up[s]) : up'[s][j] = up[s][j]
      BY <1>1, <1>2, <2>2, AppendProperties
    <3>4. i # Len(up[s]) + 1 BY <1>1, <1>5, <3>2
    <3>5. i \in 1..Len(up[s]) BY <3>1, <3>4
    <3>6. QED BY <3>3, <3>5
  <2>3. QED BY <1>3, <2>1, <2>2
<1>6. QED BY <1>3, <1>4, <1>5

LEMMA ThrowsStepType ==
    ASSUME TypeOK, HandlerThrows
    PROVE  TypeOK'
<1>1. SocketTypeOK' BY ThrowsType DEF HandlerThrows, TypeOK
<1>2. cur \in Sockets BY DEF HandlerThrows, InLoop, TypeOK, HesTypeOK
<1>3. up' \in [Sockets -> Seq(ToMeter)]
  BY <1>2, HangUpStreams DEF HandlerThrows, TypeOK
<1>4. MeterTypeOK' BY <1>3 DEF HandlerThrows, TypeOK, MeterTypeOK
<1>5. HesTypeOK' BY DEF HandlerThrows, InLoop, TypeOK, HesTypeOK
<1>6. QED BY <1>1, <1>4, <1>5 DEF TypeOK

(* The thread's steps, one after the other.                                *)
LEMMA HesStepType ==
    ASSUME TypeOK, HesStep
    PROVE  TypeOK'
<1> USE DEF TypeOK
<1>1. CASE Poll
  <2>1. SocketTypeOK' BY <1>1, PollType DEF Poll
  <2>2. MeterTypeOK' BY <1>1 DEF Poll, meterVars, MeterTypeOK
  <2>3. Head(ready) \in Completions
    BY <1>1, TailType DEF Poll, PollOne, SocketTypeOK
  <2>4. assoc' \in [Sockets -> BOOLEAN]
    BY <1>1, <2>3 DEF Poll, EngineHears, Completions, HesTypeOK
  <2>5. HesTypeOK' BY <1>1, <2>4 DEF Poll, HesTypeOK
  <2>6. QED BY <2>1, <2>2, <2>5
<1>2. CASE Associate
  <2>1. cur \in Sockets BY <1>2 DEF Associate, HesTypeOK
  <2>2. <<"AARQ">> \in Seq(ToMeter) BY DEF ToMeter
  <2>3. up' \in [Sockets -> Seq(ToMeter)]
    BY <1>2, <2>1, <2>2, SentType DEF Associate
  <2>4. SocketTypeOK' BY <1>2 DEF Associate, socketVars, SocketTypeOK
  <2>5. MeterTypeOK' BY <1>2, <2>3 DEF Associate, MeterTypeOK
  <2>6. HesTypeOK' BY <1>2, MaxTriesAssumption DEF Associate, HesTypeOK
  <2>7. QED BY <2>4, <2>5, <2>6
<1>3. CASE ConnectAgain \/ AssociateAgain
  <2>1. SocketTypeOK' /\ MeterTypeOK'
    BY <1>3 DEF ConnectAgain, AssociateAgain, socketVars, meterVars,
                SocketTypeOK, MeterTypeOK
  <2>2. tries' \in 0..MaxTries
    BY <1>3, MaxTriesAssumption DEF ConnectAgain, AssociateAgain, HesTypeOK
  <2>3. HesTypeOK' BY <1>3, <2>2 DEF ConnectAgain, AssociateAgain, HesTypeOK
  <2>4. QED BY <2>1, <2>3
<1>4. CASE GiveUp
  <2>1. SocketTypeOK' BY <1>4 DEF GiveUp, SocketTypeOK
  <2>2. MeterTypeOK' BY <1>4 DEF GiveUp, meterVars, MeterTypeOK
  <2>3. HesTypeOK' BY <1>4, MaxTriesAssumption DEF GiveUp, HesTypeOK
  <2>4. QED BY <2>1, <2>2, <2>3
<1>5. CASE Command
  <2>1. PICK release \in {<<>>, <<"RLRQ">>} :
            Finish(<<req[cur].cmd>> \o release)
    BY <1>5 DEF Command
  <2>2. <<req[cur].cmd>> \o release \in Seq(ToMeter)
    BY <1>5, <2>1, CommandSegments DEF Command
  <2>5. asked' \in [Sockets -> BOOLEAN] BY <1>5 DEF Command, HesTypeOK
  <2>6. QED BY <1>5, <2>1, <2>2, <2>5, FinishType DEF Command
<1>6. CASE CommandRefused
  <2>1. <<"RLRQ">> \in Seq(ToMeter) BY DEF ToMeter
  <2>2. asked' \in [Sockets -> BOOLEAN] BY <1>6 DEF CommandRefused, HesTypeOK
  <2>3. QED BY <1>6, <2>1, <2>2, FinishType DEF CommandRefused
<1>7. CASE FallThrough
  <2>1. <<>> \in Seq(ToMeter) BY EmptySeq
  <2>2. asked' \in [Sockets -> BOOLEAN] BY <1>7 DEF FallThrough, HesTypeOK
  <2>3. QED BY <1>7, <2>1, <2>2, FinishType DEF FallThrough
<1>8. CASE HandlerThrows BY <1>8, ThrowsStepType
<1>9. QED BY <1>1, <1>2, <1>3, <1>4, <1>5, <1>6, <1>7, <1>8 DEF HesStep

LEMMA CallType ==
    ASSUME TypeOK, NEW m \in Meters, NEW c \in Commands,
           Begin(m, c) \/ BeginFails(m, c)
    PROVE  TypeOK'
<1> USE DEF TypeOK
<1>1. cur + 1 \in Sockets /\ cur' = cur + 1 /\ cur' \in 0..MaxSockets
  BY MaxSocketsAssumption DEF Begin, BeginFails, Call, HesTypeOK, Sockets
<1>2. [meter |-> m, cmd |-> c] \in Requests BY DEF Requests
<1>3. req' \in [Sockets -> Requests \cup {NoRequest}] /\ req'[cur'] \in Requests
  BY <1>1, <1>2 DEF Begin, BeginFails, Call, HesTypeOK
<1>4. SocketTypeOK'
  BY <1>1 DEF Begin, BeginFails, Call, CreateSocket, OpenClient, OpenFails,
              SocketTypeOK, Operations
<1>5. MeterTypeOK'
  BY DEF Begin, BeginFails, meterVars, MeterTypeOK
<1>6. HesTypeOK'
  BY <1>1, <1>3, MaxTriesAssumption DEF Begin, BeginFails, Call, HesTypeOK
<1>7. QED BY <1>4, <1>5, <1>6

(* The network's steps, and its faults.                                    *)
LEMMA NetworkType ==
    ASSUME TypeOK, NEW s \in Sockets,
           \/ Resolve(s) \/ ConnectSucceeds(s) \/ ConnectRefused(s)
           \/ Receive(s) \/ Reset(s)
    PROVE  TypeOK'
<1> USE DEF TypeOK
<1>1. CASE Resolve(s)
  <2>1. SocketTypeOK' BY <1>1, ResolveType DEF Resolve
  <2>2. QED BY <1>1, <2>1 DEF Resolve, meterVars, hesVars, MeterTypeOK, HesTypeOK
<1>2. CASE ConnectSucceeds(s)
  <2>1. "ok" \in Results BY DEF Results
  <2>2. SocketTypeOK'
    BY <1>2, <2>1, CompleteType DEF ConnectSucceeds, ConnectDone, SocketTypeOK
  <2>3. backlog' \in [Meters -> Seq(Sockets)]
    <3>1. ASSUME NEW m \in Meters
          PROVE  Append(backlog[m], s) \in Seq(Sockets)
      BY DEF MeterTypeOK
    <3>2. backlog' = [backlog EXCEPT ![req[s].meter] = Append(@, s)]
      BY <1>2 DEF ConnectSucceeds, EstablishConnection
    <3>3. QED BY <3>1, <3>2 DEF MeterTypeOK
  <2>4. MeterTypeOK'
    BY <1>2, <2>3 DEF ConnectSucceeds, EstablishConnection, MeterTypeOK
  <2>5. HesTypeOK' BY <1>2 DEF ConnectSucceeds, hesVars, HesTypeOK
  <2>6. QED BY <2>2, <2>4, <2>5
<1>3. CASE ConnectRefused(s)
  <2>1. "error" \in Results BY DEF Results
  <2>2. SocketTypeOK'
    BY <1>3, <2>1, CompleteType DEF ConnectRefused, ConnectDone, SocketTypeOK
  <2>3. QED
    BY <1>3, <2>2 DEF ConnectRefused, meterVars, hesVars, MeterTypeOK, HesTypeOK
<1>4. CASE Receive(s)
  <2>1. Head(down[s]) \in ToClient /\ Tail(down[s]) \in Seq(ToClient)
    BY <1>4, TailType DEF Receive, MeterTypeOK
  <2>2. PICK res \in Results : ReadDone(s, res)
    BY <1>4, <2>1 DEF Receive, ToClient, Results
  <2>3. SocketTypeOK'
    BY <2>2, CompleteType DEF ReadDone, SocketTypeOK
  <2>4. MeterTypeOK' BY <1>4, <2>1 DEF Receive, MeterTypeOK
  <2>5. HesTypeOK' BY <1>4 DEF Receive, hesVars, HesTypeOK
  <2>6. QED BY <2>3, <2>4, <2>5
<1>5. CASE Reset(s)
  <2>1. <<"RST">> \in Seq(ToMeter) /\ <<"RST">> \in Seq(ToClient)
    BY DEF ToMeter, ToClient
  <2>2. MeterTypeOK' BY <1>5, <2>1 DEF Reset, ConnectionReset, MeterTypeOK
  <2>3. QED
    BY <1>5, <2>2 DEF Reset, socketVars, hesVars, SocketTypeOK, HesTypeOK
<1>6. QED BY <1>1, <1>2, <1>3, <1>4, <1>5

LEMMA ProcessType ==
    ASSUME TypeOK, NEW m \in Meters, Meter(m) \/ MeterFails(m)
    PROVE  TypeOK'
<1> USE DEF TypeOK
<1>1. MeterTypeOK'
  BY MeterStepType
  DEF Meter, MeterFails, MeterFault, Server_Handler_Fails, MeterTypeOK
<1>2. QED
  BY <1>1 DEF Meter, MeterFails, socketVars, hesVars, SocketTypeOK, HesTypeOK

LEMMA StutterType ==
    ASSUME TypeOK, UNCHANGED vars
    PROVE  TypeOK'
BY DEF TypeOK, vars, socketVars, meterVars, hesVars, SocketTypeOK, MeterTypeOK,
       HesTypeOK

LEMMA InitType == Init => TypeOK
<1> SUFFICES ASSUME Init PROVE TypeOK OBVIOUS
<1>1. SocketTypeOK /\ MeterTypeOK BY SocketInitType, MeterInitType DEF Init
<1>2. HesTypeOK
  BY MaxSocketsAssumption, MaxTriesAssumption DEF Init, HesTypeOK
<1>3. QED BY <1>1, <1>2 DEF TypeOK

LEMMA NextType == TypeOK /\ [Next]_vars => TypeOK'
<1> SUFFICES ASSUME TypeOK, [Next]_vars PROVE TypeOK' OBVIOUS
<1>1. ASSUME NEW m \in Meters, NEW c \in Commands, Begin(m, c) \/ BeginFails(m, c)
      PROVE  TypeOK'
  BY <1>1, CallType
<1>2. CASE HesStep BY <1>2, HesStepType
<1>3. ASSUME NEW s \in Sockets,
             \/ Resolve(s) \/ ConnectSucceeds(s) \/ ConnectRefused(s)
             \/ Receive(s) \/ Reset(s)
      PROVE  TypeOK'
  BY <1>3, NetworkType
<1>4. ASSUME NEW m \in Meters, Meter(m) \/ MeterFails(m)
      PROVE  TypeOK'
  BY <1>4, ProcessType
<1>5. CASE UNCHANGED vars BY <1>5, StutterType
<1>6. QED BY <1>1, <1>2, <1>3, <1>4, <1>5 DEF Next, NetworkStep

(* Every variable keeps its type, the session counter stays within its     *)
(* bound, and a call in progress has a socket and a request.               *)
THEOREM TypeCorrect == Spec => []TypeOK
<1>1. QED BY InitType, NextType, PTL DEF Spec

-----------------------------------------------------------------------------
(* A failed call never operates its meter.                                 *)

(* Where what is left of the streams was there before, or answers nothing, *)
(* the invariant's part about the streams holds on.                        *)
LEMMA FewerSegments ==
    ASSUME TypeOK, CommandInv, asked' = asked,
           \A s \in Sockets :
               \/ up'[s] = up[s]
               \/ up'[s] = <<>>
               \/ up'[s] = <<"RST">>
               \/ up[s] # <<>> /\ up'[s] = Tail(up[s])
    PROVE  StreamCarriesAsked'
<1> SUFFICES ASSUME NEW s \in Sockets, NEW i \in 1..Len(up'[s]),
                    up'[s][i] \in Commands
             PROVE  asked[s]
  BY DEF StreamCarriesAsked
<1>1. CASE up'[s] = up[s]
  BY <1>1 DEF CommandInv, StreamCarriesAsked
<1>2. CASE up'[s] = <<>> BY <1>2
<1>3. CASE up'[s] = <<"RST">> BY <1>3 DEF Commands
<1>4. CASE up[s] # <<>> /\ up'[s] = Tail(up[s])
  <2>1. up[s] \in Seq(ToMeter) BY DEF TypeOK, MeterTypeOK
  <2>2. i + 1 \in 1..Len(up[s]) /\ up'[s][i] = up[s][i + 1]
    BY <1>4, <2>1, TailElements
  <2>3. QED BY <2>2 DEF CommandInv, StreamCarriesAsked
<1>5. QED BY <1>1, <1>2, <1>3, <1>4

(* A write adds its segments to one stream or is lost.                     *)
LEMMA MoreSegments ==
    ASSUME TypeOK, CommandInv, NEW s \in Sockets, NEW segments \in Seq(ToMeter),
           up' = Sent(s, segments),
           \A t \in Sockets : asked[t] => asked'[t],
           \A j \in 1..Len(segments) : segments[j] \in Commands => asked'[s]
    PROVE  StreamCarriesAsked'
<1> SUFFICES ASSUME NEW t \in Sockets, NEW i \in 1..Len(up'[t]),
                    up'[t][i] \in Commands
             PROVE  asked'[t]
  BY DEF StreamCarriesAsked
<1>1. CASE up'[t] = up[t]
  BY <1>1 DEF CommandInv, StreamCarriesAsked
<1>2. CASE t = s /\ up'[t] = up[t] \o segments
  <2>1. up[t] \in Seq(ToMeter) BY DEF TypeOK, MeterTypeOK
  <2>2. /\ Len(up'[t]) = Len(up[t]) + Len(segments)
        /\ i <= Len(up[t]) => up'[t][i] = up[t][i]
        /\ i > Len(up[t]) => up'[t][i] = segments[i - Len(up[t])]
    BY <1>2, <2>1, ConcatProperties
  <2>3. CASE i <= Len(up[t])
    <3>1. i \in 1..Len(up[t]) BY <2>1, <2>3, LenProperties
    <3>2. QED BY <2>2, <2>3, <3>1 DEF CommandInv, StreamCarriesAsked
  <2>4. CASE i > Len(up[t])
    <3>1. i - Len(up[t]) \in 1..Len(segments)
      BY <2>1, <2>2, <2>4, LenProperties
    <3>2. QED BY <1>2, <2>2, <2>4, <3>1
  <2>5. QED
    <3>1. i \in Int /\ Len(up[t]) \in Int BY <2>1, LenProperties
    <3>2. QED BY <2>3, <2>4, <3>1
<1>3. QED BY <1>1, <1>2 DEF Sent, TypeOK, MeterTypeOK

(* What is in a meter's history is an execution.                           *)
LEMMA HistoryType ==
    ASSUME TypeOK, NEW m \in Meters, NEW i \in 1..Len(executed[m])
    PROVE  executed[m][i] \in Execution /\ executed[m][i].sess \in Sockets
<1>1. executed[m] \in Seq(Execution) BY DEF TypeOK, MeterTypeOK
<1>2. executed[m][i] \in Execution BY <1>1, ElementOfSeq
<1>3. QED BY <1>2 DEF Execution

LEMMA FinishCommand ==
    ASSUME TypeOK, CommandInv, pc = "associate", NEW segments \in Seq(ToMeter),
           Finish(segments),
           \/ asked' = [asked EXCEPT ![cur] = TRUE]
           \/ /\ asked' = asked
              /\ \A j \in 1..Len(segments) : segments[j] \notin Commands
    PROVE  CommandInv'
<1>1. cur \in Sockets BY DEF TypeOK, HesTypeOK
<1>2. \A t \in Sockets : (asked[t] => asked'[t]) /\ (asked'[t] => asked[t] \/ t = cur)
  BY DEF TypeOK, HesTypeOK
<1>3. AskedReturnedTrue'
  BY <1>1, <1>2
  DEF Finish, ReleaseSocket, Returned, CommandInv, AskedReturnedTrue, TypeOK, HesTypeOK
<1>4. CallInProgressNotAsked' BY DEF Finish, CallInProgressNotAsked
<1>5. StreamCarriesAsked'
  <2>1. <<"FIN">> \in Seq(ToMeter) BY DEF ToMeter
  <2> DEFINE all == segments \o <<"FIN">>
  <2>2. all \in Seq(ToMeter) BY <2>1, ConcatProperties
  <2>3. \A j \in 1..Len(all) : all[j] \in Commands => asked'[cur]
    <3>1. CASE asked' = [asked EXCEPT ![cur] = TRUE]
      BY <1>1, <3>1 DEF TypeOK, HesTypeOK
    <3>2. CASE \A j \in 1..Len(segments) : segments[j] \notin Commands
      <4>1. "FIN" \notin Commands BY DEF Commands
      <4>2. QED BY <2>1, <3>2, <4>1, ConcatProperties
    <3>3. QED BY <3>1, <3>2
  <2>4. up' = Sent(cur, all) BY DEF Finish, Goodbye
  <2> HIDE DEF all
  <2>5. QED BY <1>1, <1>2, <2>2, <2>3, <2>4, MoreSegments
<1>6. PerformedWasAsked'
  BY <1>2, HistoryType DEF Finish, CommandInv, PerformedWasAsked
<1>7. QED BY <1>3, <1>4, <1>5, <1>6 DEF CommandInv

(* The end of the process.                                                 *)
LEMMA ThrowsCommand ==
    ASSUME TypeOK, CommandInv, HandlerThrows
    PROVE  CommandInv'
<1>1. UNCHANGED <<sock, executed, cur, asked, result>> /\ pc # "idle"
  BY DEF HandlerThrows, PollThrows, ConnectHandlerThrows, InLoop
<1>2. StreamCarriesAsked'
  BY <1>1, HangUpStreams
  DEF HandlerThrows, CommandInv, StreamCarriesAsked, TypeOK
<1>3. QED
  BY <1>1, <1>2 DEF CommandInv, AskedReturnedTrue, CallInProgressNotAsked,
                    PerformedWasAsked

(* The thread's steps.                                                     *)
LEMMA HesStepCommand ==
    ASSUME TypeOK, CommandInv, HesStep
    PROVE  CommandInv'
<1>1. CASE Poll
  <2>1. /\ UNCHANGED <<up, executed, asked, result, pc, cur>>
        /\ \A s \in Sockets : sock'[s] = "new" => sock[s] = "new"
    <3>1. \A s \in Sockets : sock'[s] \in {sock[s], "removed"}
      BY <1>1
      DEF Poll, PollOne, CallHandler, DanglingHandler, ASIO_Resolver_Handler,
          ASIO_Connect_Handler, ASIO_Read_Handler, RemoveSocket, TypeOK, SocketTypeOK
    <3>2. QED BY <1>1, <3>1 DEF Poll, meterVars
  <2>2. QED
    BY <2>1 DEF CommandInv, AskedReturnedTrue, CallInProgressNotAsked,
                StreamCarriesAsked, PerformedWasAsked
<1>2. CASE Associate
  <2>1. cur \in Sockets BY <1>2 DEF Associate, TypeOK, HesTypeOK
  <2>2. <<"AARQ">> \in Seq(ToMeter) BY DEF ToMeter
  <2>3. \A j \in 1..Len(<<"AARQ">>) : <<"AARQ">>[j] \notin Commands
    BY DEF Commands
  <2>4. StreamCarriesAsked'
    BY <1>2, <2>1, <2>2, <2>3, MoreSegments DEF Associate
  <2>5. QED
    BY <1>2, <2>4 DEF Associate, socketVars, CommandInv, AskedReturnedTrue,
                      CallInProgressNotAsked, PerformedWasAsked
<1>3. CASE ConnectAgain \/ AssociateAgain
  BY <1>3 DEF ConnectAgain, AssociateAgain, socketVars, meterVars, CommandInv,
              AskedReturnedTrue, CallInProgressNotAsked, StreamCarriesAsked,
              PerformedWasAsked
<1>4. CASE GiveUp
  <2>1. ~asked[cur] BY <1>4 DEF GiveUp, CommandInv, CallInProgressNotAsked
  <2>2. AskedReturnedTrue'
    BY <1>4, <2>1 DEF GiveUp, CommandInv, AskedReturnedTrue, TypeOK, HesTypeOK
  <2>3. QED
    BY <1>4, <2>2 DEF GiveUp, meterVars, CommandInv, CallInProgressNotAsked,
                      StreamCarriesAsked, PerformedWasAsked
<1>5. CASE Command
  <2>1. PICK release \in {<<>>, <<"RLRQ">>} :
            Finish(<<req[cur].cmd>> \o release)
    BY <1>5 DEF Command
  <2>2. <<req[cur].cmd>> \o release \in Seq(ToMeter)
    BY <1>5, <2>1, CommandSegments DEF Command
  <2>3. QED BY <1>5, <2>1, <2>2, FinishCommand DEF Command
<1>6. CASE CommandRefused
  <2>1. <<"RLRQ">> \in Seq(ToMeter) BY DEF ToMeter
  <2>2. \A j \in 1..Len(<<"RLRQ">>) : <<"RLRQ">>[j] \notin Commands
    BY DEF Commands
  <2>3. QED BY <1>6, <2>1, <2>2, FinishCommand DEF CommandRefused
<1>7. CASE FallThrough
  <2> DEFINE nothing == <<>>
  <2>1. nothing \in Seq(ToMeter) BY EmptySeq
  <2>2. Len(nothing) = 0 BY EmptySeq
  <2>3. \A j \in 1..Len(nothing) : nothing[j] \notin Commands BY <2>2
  <2>4. pc = "associate" /\ Finish(nothing) /\ asked' = asked
    BY <1>7 DEF FallThrough
  <2> HIDE DEF nothing
  <2>5. QED BY <2>1, <2>3, <2>4, FinishCommand
<1>8. CASE HandlerThrows BY <1>8, ThrowsCommand
<1>9. QED BY <1>1, <1>2, <1>3, <1>4, <1>5, <1>6, <1>7, <1>8 DEF HesStep

LEMMA CallCommand ==
    ASSUME TypeOK, CommandInv, NEW m \in Meters, NEW c \in Commands,
           Begin(m, c) \/ BeginFails(m, c)
    PROVE  CommandInv'
<1>1. cur + 1 \in Sockets
  BY MaxSocketsAssumption
  DEF Begin, BeginFails, Call, TypeOK, HesTypeOK, Sockets
<1>2. sock[cur + 1] = "new" /\ ~asked[cur + 1]
  BY <1>1 DEF Begin, BeginFails, Call, CreateSocket, CommandInv, AskedReturnedTrue
<1>3. AskedReturnedTrue'
  BY <1>1, <1>2
  DEF Begin, BeginFails, Call, CreateSocket, CommandInv, AskedReturnedTrue,
      TypeOK, SocketTypeOK, HesTypeOK
<1>4. CallInProgressNotAsked'
  BY <1>2 DEF Begin, BeginFails, Call, CallInProgressNotAsked
<1>5. QED
  BY <1>3, <1>4 DEF Begin, BeginFails, meterVars, CommandInv, StreamCarriesAsked,
                    PerformedWasAsked

(* The network delivers, completes and breaks, and adds no command.        *)
LEMMA NetworkCommand ==
    ASSUME TypeOK, CommandInv, NEW s \in Sockets,
           \/ Resolve(s) \/ ConnectSucceeds(s) \/ ConnectRefused(s)
           \/ Receive(s) \/ Reset(s)
    PROVE  CommandInv'
<1>1. UNCHANGED <<sock, executed, pc, cur, asked, result>>
  BY DEF Resolve, ResolveDone, ConnectSucceeds, ConnectRefused, ConnectDone,
         EstablishConnection, Receive, ReadDone, Complete, Reset,
         ConnectionReset, socketVars, meterVars, hesVars
<1>2. \A t \in Sockets : up'[t] = up[t] \/ up'[t] = <<"RST">>
  BY DEF Resolve, ConnectSucceeds, ConnectRefused, EstablishConnection, Receive,
         Reset, ConnectionReset, meterVars, TypeOK, MeterTypeOK
<1>3. StreamCarriesAsked' BY <1>1, <1>2, FewerSegments
<1>4. QED
  BY <1>1, <1>3 DEF CommandInv, AskedReturnedTrue, CallInProgressNotAsked,
                    PerformedWasAsked

(* A meter performs what heads the stream it serves.                       *)
LEMMA PerformCommand ==
    ASSUME TypeOK, CommandInv, NEW m \in Meters, InternalAction(m), asked' = asked
    PROVE  PerformedWasAsked'
<1>1. serving[m] \in Sockets /\ up[serving[m]] \in Seq(ToMeter)
  BY DEF InternalAction, Incoming, TypeOK, MeterTypeOK
<1>2. 1 \in 1..Len(up[serving[m]]) /\ up[serving[m]][1] \in Commands
  BY <1>1, HeadTailProperties, LenProperties DEF InternalAction, Incoming
<1>3. asked[serving[m]] BY <1>1, <1>2 DEF CommandInv, StreamCarriesAsked
<1>4. CASE executed' = executed
  BY <1>4 DEF CommandInv, PerformedWasAsked
<1>5. CASE executed' = [executed EXCEPT ![m] = Append(@, Invoked(m))]
  <2>1. executed[m] \in Seq(Execution) BY DEF TypeOK, MeterTypeOK
  <2>2. Invoked(m) \in Execution
    BY <1>1 DEF InternalAction, Incoming, Invoked, Execution
  <2>3. /\ Len(Append(executed[m], Invoked(m))) = Len(executed[m]) + 1
        /\ \A i \in 1..Len(executed[m]) :
               Append(executed[m], Invoked(m))[i] = executed[m][i]
        /\ Append(executed[m], Invoked(m))[Len(executed[m]) + 1] = Invoked(m)
    BY <2>1, <2>2, AppendProperties
  <2>4. Invoked(m).sess = serving[m] BY DEF Invoked
  <2>5. ASSUME NEW n \in Meters, NEW i \in 1..Len(executed'[n])
        PROVE  asked[executed'[n][i].sess]
    <3>1. CASE n # m
      BY <1>5, <2>5, <3>1 DEF CommandInv, PerformedWasAsked, TypeOK, MeterTypeOK
    <3>2. CASE n = m
      <4>1. executed'[m] = Append(executed[m], Invoked(m))
        BY <1>5 DEF TypeOK, MeterTypeOK
      <4>2. i \in 1..Len(executed[m]) \/ i = Len(executed[m]) + 1
        BY <2>1, <2>3, <2>5, <3>2, <4>1, LenProperties
      <4>3. QED
        BY <1>3, <2>3, <2>4, <3>2, <4>1, <4>2 DEF CommandInv, PerformedWasAsked
    <3>3. QED BY <3>1, <3>2
  <2>6. QED BY <2>5 DEF PerformedWasAsked
<1>6. QED BY <1>4, <1>5 DEF InternalAction

LEMMA ProcessCommand ==
    ASSUME TypeOK, CommandInv, NEW m \in Meters, Meter(m) \/ MeterFails(m)
    PROVE  CommandInv'
<1>1. UNCHANGED <<sock, pc, cur, asked, result>>
  BY DEF Meter, MeterFails, socketVars, hesVars
<1>2. \A t \in Sockets : \/ up'[t] = up[t] \/ up'[t] = <<>>
                         \/ up[t] # <<>> /\ up'[t] = Tail(up[t])
  BY DEF Meter, MeterFails, MeterStep, MeterFault, Server_Handler,
         Server_Handler_Fails, ASIO_Accept_Handler, Accept_Handler_Throws,
         OpenRequest, InternalAction, ReleaseRequest, Restart, EndOfSockets,
         Incoming, Answer, TypeOK, MeterTypeOK
<1>3. StreamCarriesAsked' BY <1>1, <1>2, FewerSegments
<1>4. PerformedWasAsked'
  <2>1. CASE InternalAction(m) BY <1>1, <2>1, PerformCommand
  <2>2. CASE executed' = executed
    BY <1>1, <2>2 DEF CommandInv, PerformedWasAsked
  <2>3. QED
    BY <2>1, <2>2 DEF Meter, MeterFails, MeterStep, MeterFault, Server_Handler,
         Server_Handler_Fails, ASIO_Accept_Handler, Accept_Handler_Throws,
         OpenRequest, ReleaseRequest, Restart
<1>5. QED
  BY <1>1, <1>3, <1>4 DEF CommandInv, AskedReturnedTrue, CallInProgressNotAsked

LEMMA InitCommand == Init => CommandInv
BY DEF Init, SocketInit, MeterInit, CommandInv, AskedReturnedTrue,
       CallInProgressNotAsked, StreamCarriesAsked, PerformedWasAsked

LEMMA NextCommand == TypeOK /\ CommandInv /\ [Next]_vars => CommandInv'
<1> SUFFICES ASSUME TypeOK, CommandInv, [Next]_vars PROVE CommandInv' OBVIOUS
<1>1. ASSUME NEW m \in Meters, NEW c \in Commands, Begin(m, c) \/ BeginFails(m, c)
      PROVE  CommandInv'
  BY <1>1, CallCommand
<1>2. CASE HesStep BY <1>2, HesStepCommand
<1>3. ASSUME NEW s \in Sockets,
             \/ Resolve(s) \/ ConnectSucceeds(s) \/ ConnectRefused(s)
             \/ Receive(s) \/ Reset(s)
      PROVE  CommandInv'
  BY <1>3, NetworkCommand
<1>4. ASSUME NEW m \in Meters, Meter(m) \/ MeterFails(m)
      PROVE  CommandInv'
  BY <1>4, ProcessCommand
<1>5. CASE UNCHANGED vars
  BY <1>5 DEF vars, socketVars, meterVars, hesVars, CommandInv, AskedReturnedTrue,
              CallInProgressNotAsked, StreamCarriesAsked, PerformedWasAsked
<1>6. QED BY <1>1, <1>2, <1>3, <1>4, <1>5 DEF Next, NetworkStep

(* serviceConnect returns false only for a meter that the call has not     *)
(* operated and never will.                                                *)
THEOREM FailedIsNotPerformed == Spec => []FailedNotPerformed
<1>1. TypeOK /\ CommandInv => FailedNotPerformed
  <2> SUFFICES ASSUME TypeOK, CommandInv, NEW s \in Sockets, Performed(s)
               PROVE  asked[s] /\ result[s] = "ok"
    BY DEF FailedNotPerformed
  <2>1. asked[s] BY DEF Performed, CommandInv, PerformedWasAsked
  <2>2. QED BY <2>1 DEF CommandInv, AskedReturnedTrue
<1>2. Spec => []CommandInv
  BY InitCommand, NextCommand, TypeCorrect, PTL DEF Spec
<1>3. QED BY <1>1, <1>2, TypeCorrect, PTL

-----------------------------------------------------------------------------
(* The order of the queue.                                                 *)

(* Taking the head off keeps the order; what still waits for the head's    *)
(* socket is its removal, and then the head was the end of its read.       *)
LEMMA OrderedTail ==
    ASSUME NEW q \in Seq(Completions), q # <<>>, Ordered(q)
    PROVE  /\ Ordered(Tail(q))
           /\ \A c \in QueueOf(Tail(q)) :
                 c.sock = Head(q).sock =>
                     Head(q).call = "read" /\ Head(q).res = "error" /\ c.call = "remove"
<1>1. /\ Tail(q) \in Seq(Completions) /\ Len(q) \in Nat /\ Len(q) > 0
      /\ Len(Tail(q)) = Len(q) - 1
      /\ \A i \in 1..Len(Tail(q)) : Tail(q)[i] = q[i + 1]
      /\ Head(q) = q[1]
  BY HeadTailProperties, LenProperties, EmptySeq
<1>2. Ordered(Tail(q))
  <2> SUFFICES ASSUME NEW i \in 1..Len(Tail(q)), NEW j \in 1..Len(Tail(q)),
                      i < j, Tail(q)[i].sock = Tail(q)[j].sock
               PROVE  /\ Tail(q)[i].call = "read" /\ Tail(q)[i].res = "error"
                      /\ Tail(q)[j].call = "remove"
    BY DEF Ordered
  <2>1. i + 1 \in 1..Len(q) /\ j + 1 \in 1..Len(q) /\ i + 1 < j + 1 BY <1>1
  <2>2. Tail(q)[i] = q[i + 1] /\ Tail(q)[j] = q[j + 1] BY <1>1
  <2>3. QED BY <2>1, <2>2 DEF Ordered
<1>3. ASSUME NEW i \in 1..Len(Tail(q)), Tail(q)[i].sock = Head(q).sock
      PROVE  /\ Head(q).call = "read" /\ Head(q).res = "error"
             /\ Tail(q)[i].call = "remove"
  <2>1. 1 \in 1..Len(q) /\ i + 1 \in 1..Len(q) /\ 1 < i + 1 BY <1>1
  <2>2. Tail(q)[i] = q[i + 1] /\ Head(q) = q[1] BY <1>1
  <2>3. QED BY <1>3, <2>1, <2>2 DEF Ordered
<1>4. QED BY <1>2, <1>3 DEF QueueOf

(* Appending keeps the order if nothing waits for that socket, or only the *)
(* end of its read, and its removal is what is appended.                   *)
LEMMA OrderedAppend ==
    ASSUME NEW q \in Seq(Completions), NEW c \in Completions, Ordered(q),
           \A d \in QueueOf(q) :
               d.sock = c.sock => d.call = "read" /\ d.res = "error" /\ c.call = "remove"
    PROVE  Ordered(Append(q, c))
<1> DEFINE a == Append(q, c)
<1>1. /\ Len(a) = Len(q) + 1 /\ Len(q) \in Nat
      /\ \A i \in 1..Len(q) : a[i] = q[i]
      /\ a[Len(q) + 1] = c
  <2>1. a \in Seq(Completions) /\ Len(a) = Len(q) + 1 BY AppendProperties
  <2>2. \A i \in 1..Len(q) : a[i] = q[i] BY AppendProperties
  <2>3. a[Len(q) + 1] = c BY AppendProperties
  <2>4. QED BY <2>1, <2>2, <2>3, LenProperties
<1> HIDE DEF a
<1>2. ASSUME NEW i \in 1..Len(a), NEW j \in 1..Len(a), i < j, a[i].sock = a[j].sock
      PROVE  a[i].call = "read" /\ a[i].res = "error" /\ a[j].call = "remove"
  <2>1. i \in 1..Len(q) /\ a[i] = q[i] /\ a[i] \in QueueOf(q)
    BY <1>1, <1>2 DEF QueueOf
  <2>2. CASE j = Len(q) + 1
    BY <1>1, <1>2, <2>1, <2>2
  <2>3. CASE j \in 1..Len(q)
    BY <1>1, <1>2, <2>1, <2>3 DEF Ordered
  <2>4. QED BY <1>1, <2>2, <2>3
<1>3. QED BY <1>2 DEF Ordered, a

-----------------------------------------------------------------------------
(* CleanupInv.                                                             *)

(* What it reads.                                                          *)
cleanupVars == <<sock, isOpen, op, ready, stopped, transport, pc, cur, assoc, result>>

LEMMA UnchangedCleanup ==
    ASSUME CleanupInv, UNCHANGED cleanupVars
    PROVE  CleanupInv'
<1>1. Queued' = Queued BY DEF cleanupVars, Queued
<1>2. Ordered(ready)' BY DEF CleanupInv, Ordered, cleanupVars
<1>3. ASSUME NEW c \in Queued' PROVE HandlerOK(c)'
  BY <1>1, <1>3 DEF CleanupInv, HandlerOK, cleanupVars
<1>4. ASSUME NEW s \in Sockets PROVE OperationOK(s)' /\ SessionOK(s)'
  BY <1>1, <1>4 DEF CleanupInv, OperationOK, SessionOK, cleanupVars
<1>5. CallOK' BY DEF CleanupInv, CallOK, cleanupVars
<1>6. QED BY <1>2, <1>3, <1>4, <1>5 DEF CleanupInv

LEMMA CallCleanup ==
    ASSUME TypeOK, CleanupInv, NEW m \in Meters, NEW c \in Commands,
           Begin(m, c) \/ BeginFails(m, c)
    PROVE  CleanupInv'
<1> DEFINE n == cur + 1
<1>1. /\ n \in Sockets /\ cur \in Int /\ cur' = n /\ pc = "idle" /\ sock[n] = "new"
      /\ \A s \in Sockets : s \in Int
  BY MaxSocketsAssumption
  DEF Begin, BeginFails, Call, CreateSocket, TypeOK, HesTypeOK, Sockets
<1>2. /\ ready' = ready /\ stopped' = stopped /\ Queued' = Queued /\ assoc' = assoc
      /\ sock' = [sock EXCEPT ![n] = "listed"]
      /\ isOpen' = [isOpen EXCEPT ![n] = FALSE]
  BY DEF Begin, BeginFails, Call, CreateSocket, OpenClient, OpenFails, Queued
<1>3. \/ /\ op' = [op EXCEPT ![n] = "resolve"]
         /\ pc' = "connect" /\ transport' = transport /\ result' = result
      \/ /\ op' = op /\ pc' = pc
         /\ transport' = [transport EXCEPT ![n] = "dead"]
         /\ result' = [result EXCEPT ![n] = "failed"]
  BY DEF Begin, BeginFails, Call, OpenClient, OpenFails
<1>4. op[n] = "none" /\ transport[n] = "idle" /\ result[n] = "none"
  BY <1>1 DEF CleanupInv, OperationOK, SessionOK
<1> HIDE DEF n
<1>5. \A s \in Sockets \ {n} :
          /\ sock'[s] = sock[s] /\ isOpen'[s] = isOpen[s] /\ op'[s] = op[s]
          /\ transport'[s] = transport[s] /\ result'[s] = result[s]
  BY <1>2, <1>3 DEF TypeOK, SocketTypeOK, HesTypeOK
<1>6. /\ sock'[n] = "listed" /\ result'[n] # "ok"
      /\ op'[n] \in {"none", "resolve"}
      /\ transport'[n] \in {"idle", "dead"}
      /\ result'[n] = "none" => pc' # "idle"
      /\ pc' # "idle" => result'[n] = "none" /\ transport'[n] = "idle" /\ pc' = "connect"
  BY <1>1, <1>2, <1>3, <1>4 DEF TypeOK, SocketTypeOK, HesTypeOK
<1>7. Ordered(ready)' BY <1>2 DEF CleanupInv, Ordered
<1>8. ASSUME NEW d \in Queued' PROVE HandlerOK(d)'
  <2>1. d.sock \in Sockets /\ HandlerOK(d)
    BY <1>2, <1>8, QueuedType DEF CleanupInv, TypeOK
  <2>2. d.sock # n BY <1>1, <2>1 DEF HandlerOK
  <2>3. QED BY <1>5, <2>1, <2>2 DEF HandlerOK
<1>9. ASSUME NEW s \in Sockets PROVE OperationOK(s)' /\ SessionOK(s)'
  <2>1. CASE s = n
    <3>1. ~assoc[n] BY <1>1, <1>4 DEF CleanupInv, SessionOK
    <3>2. QED BY <1>1, <1>2, <1>6, <2>1, <3>1 DEF OperationOK, SessionOK
  <2>2. CASE s # n
    <3>1. OperationOK(s) /\ SessionOK(s) BY DEF CleanupInv
    <3>2. OperationOK(s)' BY <1>5, <2>2, <3>1 DEF OperationOK
    <3>3. s > cur <=> s > n BY <1>1, <2>2 DEF n
    <3>4. SessionOK(s)' BY <1>1, <1>2, <1>5, <2>2, <3>1, <3>3 DEF SessionOK
    <3>5. QED BY <3>2, <3>4
  <2>3. QED BY <2>1, <2>2
<1>10. CallOK' BY <1>1, <1>6 DEF CallOK
<1>11. QED BY <1>7, <1>8, <1>9, <1>10 DEF CleanupInv

(* One turn of poll(): under the invariant no handler dangles, so one of   *)
(* the four runs.                                                          *)
LEMMA PollOneHandler ==
    ASSUME TypeOK, CleanupInv, PollOne, NEW h, h = Head(ready)
    PROVE  /\ h \in Completions /\ h.sock \in Sockets
           /\ HandlerOK(h)
           /\ Queued = Queued' \cup {h}
           /\ \A c \in Queued' : c.sock = h.sock =>
                 h.call = "read" /\ h.res = "error" /\ c.call = "remove"
           /\ Ordered(ready)'
           /\ ready' = Tail(ready) /\ ready' \in Seq(Completions)
           /\ stopped' = ~Work'
           /\ \/ ASIO_Resolver_Handler(h) \/ ASIO_Connect_Handler(h)
              \/ ASIO_Read_Handler(h) \/ RemoveSocket(h)
<1>1. ready \in Seq(Completions) /\ ready # <<>> /\ CallHandler(h)
  BY DEF PollOne, TypeOK, SocketTypeOK
<1>2. h \in Completions /\ Tail(ready) \in Seq(Completions)
  BY <1>1, TailType
<1>3. QueueOf(ready) = QueueOf(Tail(ready)) \cup {h} BY <1>1, QueueTail
<1>4. HandlerOK(h) BY <1>3 DEF CleanupInv, Queued, QueueOf
<1>5. h.sock \in Sockets BY <1>2 DEF Completions
<1>6. /\ stopped' = ~Work'
      /\ \/ ASIO_Resolver_Handler(h) \/ ASIO_Connect_Handler(h)
         \/ ASIO_Read_Handler(h) \/ RemoveSocket(h)
  BY <1>1, <1>4 DEF CallHandler, DanglingHandler, HandlerOK
<1>7. ready' = Tail(ready)
  <2>1. CASE RemoveSocket(h)
    <3>1. Interrupted(h.sock) = <<>> BY <1>4 DEF HandlerOK, Interrupted
    <3>2. QED BY <1>2, <2>1, <3>1, ConcatEmptySeq DEF RemoveSocket
  <2>2. QED
    BY <1>6, <2>1
    DEF ASIO_Resolver_Handler, ASIO_Connect_Handler, ASIO_Read_Handler
<1>8. /\ Ordered(Tail(ready))
      /\ \A c \in QueueOf(Tail(ready)) : c.sock = h.sock =>
            h.call = "read" /\ h.res = "error" /\ c.call = "remove"
  BY <1>1, OrderedTail DEF CleanupInv
<1>9. Ordered(ready)' BY <1>7, <1>8 DEF Ordered
<1>10. Queued = QueueOf(ready) /\ Queued' = QueueOf(Tail(ready))
  BY <1>7 DEF Queued, QueueOf
<1>11. QED
  BY <1>2, <1>3, <1>4, <1>5, <1>6, <1>7, <1>8, <1>9, <1>10

(* What a handler does to its own socket; it leaves the others alone.      *)
LEMMA HandlerEffect ==
    ASSUME TypeOK, CleanupInv, PollOne, NEW h, h = Head(ready)
    PROVE  /\ \A s \in Sockets \ {h.sock} :
                 /\ sock'[s] = sock[s] /\ isOpen'[s] = isOpen[s]
                 /\ op'[s] = op[s] /\ transport'[s] = transport[s]
           /\ LET s == h.sock IN
              /\ sock'[s] = IF h.call = "remove" THEN "removed" ELSE "listed"
              /\ op'[s] \in {"none", "connect", "read"}
              /\ op'[s] = "connect" =>
                    /\ isOpen'[s] /\ h.call \in {"resolver", "connect"}
                    /\ transport'[s] = transport[s]
                    /\ h.call = "connect" => h.res = "error"
              /\ op'[s] = "read" =>
                    \/ h.call = "connect" /\ h.res = "ok"
                    \/ h.call = "read" /\ h.res # "error"
              /\ h.call \in {"resolver", "remove"} => transport'[s] = transport[s]
              /\ h.call = "connect" => transport'[s] =
                    IF h.res = "ok" /\ transport[s] # "dead" THEN "connected"
                    ELSE transport[s]
              /\ h.call = "read" => transport'[s] =
                    IF h.res = "error" /\ transport[s] # "dead" THEN "closed"
                    ELSE transport[s]
              /\ transport'[s] = "connected" => op'[s] = "read"
<1>1. /\ h \in Completions /\ h.sock \in Sockets /\ HandlerOK(h)
      /\ \/ ASIO_Resolver_Handler(h) \/ ASIO_Connect_Handler(h)
         \/ ASIO_Read_Handler(h) \/ RemoveSocket(h)
  BY PollOneHandler
<1>2. sock[h.sock] = "listed" /\ op[h.sock] = "none" BY <1>1 DEF HandlerOK
<1>3. CASE ASIO_Resolver_Handler(h)
  BY <1>1, <1>2, <1>3
  DEF ASIO_Resolver_Handler, Connecting, HandlerOK, TypeOK, SocketTypeOK
<1>4. CASE ASIO_Connect_Handler(h)
  BY <1>1, <1>2, <1>4
  DEF ASIO_Connect_Handler, Connecting, WrapperReads, HandlerOK, TypeOK, SocketTypeOK
<1>5. CASE ASIO_Read_Handler(h)
  BY <1>1, <1>2, <1>5
  DEF ASIO_Read_Handler, WrapperReads, HandlerOK, TypeOK, SocketTypeOK
<1>6. CASE RemoveSocket(h)
  <2>1. transport[h.sock] = "dead"
    BY <1>1, <1>6 DEF RemoveSocket, HandlerOK, CleanupInv, SessionOK
  <2>2. QED BY <1>1, <1>2, <1>6, <2>1
       DEF RemoveSocket, AfterClose, HandlerOK, TypeOK, SocketTypeOK
<1>7. QED BY <1>1, <1>3, <1>4, <1>5, <1>6

LEMMA PollCleanup ==
    ASSUME TypeOK, CleanupInv, Poll
    PROVE  CleanupInv'
<1>1. PICK h : h = Head(ready) OBVIOUS
<1>2. PollOne BY DEF Poll
<1>3. /\ h \in Completions /\ h.sock \in Sockets /\ HandlerOK(h)
      /\ Queued = Queued' \cup {h}
      /\ \A c \in Queued' : c.sock = h.sock =>
            h.call = "read" /\ h.res = "error" /\ c.call = "remove"
      /\ Ordered(ready)'
      /\ ready' \in Seq(Completions)
      /\ stopped' = ~Work'
  BY <1>1, <1>2, PollOneHandler
<1>4. /\ UNCHANGED <<pc, cur, result>>
      /\ cur \in 0..MaxSockets
      /\ assoc' = EngineHears(h)
  BY <1>1 DEF Poll, TypeOK, HesTypeOK
<1>5. \A s \in Sockets \ {h.sock} :
          /\ sock'[s] = sock[s] /\ isOpen'[s] = isOpen[s]
          /\ op'[s] = op[s] /\ transport'[s] = transport[s] /\ assoc'[s] = assoc[s]
  BY <1>1, <1>2, <1>4, HandlerEffect DEF EngineHears, TypeOK, HesTypeOK
<1> DEFINE s0 == h.sock
<1>6. /\ sock'[s0] = IF h.call = "remove" THEN "removed" ELSE "listed"
      /\ op'[s0] \in {"none", "connect", "read"}
      /\ op'[s0] = "connect" =>
            /\ isOpen'[s0] /\ h.call \in {"resolver", "connect"}
            /\ transport'[s0] = transport[s0]
            /\ h.call = "connect" => h.res = "error"
      /\ op'[s0] = "read" => \/ h.call = "connect" /\ h.res = "ok"
                             \/ h.call = "read" /\ h.res # "error"
      /\ h.call \in {"resolver", "remove"} => transport'[s0] = transport[s0]
      /\ h.call = "connect" => transport'[s0] =
            IF h.res = "ok" /\ transport[s0] # "dead" THEN "connected"
            ELSE transport[s0]
      /\ h.call = "read" => transport'[s0] =
            IF h.res = "error" /\ transport[s0] # "dead" THEN "closed"
            ELSE transport[s0]
      /\ transport'[s0] = "connected" => op'[s0] = "read"
  BY <1>1, <1>2, HandlerEffect
<1>7. h.call \in {"resolver", "connect", "read", "remove"} BY <1>3 DEF Completions
<1>8. ASSUME NEW c \in Queued' PROVE HandlerOK(c)'
  <2>0. c \in Queued BY <1>3, <1>8
  <2>1. c \in Completions /\ c.sock \in Sockets
    BY <2>0, QueuedType DEF TypeOK
  <2>2. HandlerOK(c) BY <1>3, <1>8 DEF CleanupInv
  <2>3. CASE c.sock = s0
    <3>1. h.call = "read" /\ h.res = "error" /\ c.call = "remove"
      BY <1>3, <1>8, <2>3
    <3>2. sock'[c.sock] = "listed" /\ op'[c.sock] = "none"
      BY <1>6, <2>3, <3>1
    <3>3. QED BY <1>4, <2>2, <3>1, <3>2 DEF HandlerOK
  <2>4. CASE c.sock # s0
    BY <1>4, <1>5, <2>1, <2>2, <2>4 DEF HandlerOK
  <2>5. QED BY <2>3, <2>4
<1>9. sock[s0] = "listed" /\ op[s0] = "none" BY <1>3 DEF HandlerOK
<1>10. ASSUME NEW s \in Sockets PROVE OperationOK(s)'
  <2>1. CASE s = s0
    <3>1. result[s0] = "ok" => op'[s0] = "none"
      BY <1>3, <1>6, <1>7 DEF HandlerOK
    <3>2. op'[s0] = "connect" => transport'[s0] \in {"idle", "dead"}
      BY <1>3, <1>6 DEF HandlerOK
    <3>3. op'[s0] = "read" => transport'[s0] \in {"connected", "dead"}
      BY <1>3, <1>6 DEF HandlerOK
    <3>4. op'[s0] # "none" => sock'[s0] = "listed"
      BY <1>6
    <3>5. QED BY <1>4, <1>6, <2>1, <3>1, <3>2, <3>3, <3>4 DEF OperationOK
  <2>2. CASE s # s0
    BY <1>4, <1>5, <2>2 DEF CleanupInv, OperationOK
  <2>3. QED BY <2>1, <2>2
<1>11. ASSUME NEW s \in Sockets PROVE SessionOK(s)'
  <2>0. SessionOK(s) BY DEF CleanupInv
  <2>1. CASE s = s0
    <3>1. sock[s] = "listed" /\ ~(s > cur) BY <1>9, <2>0, <2>1 DEF SessionOK
    <3>2. sock'[s] # "new" /\ (sock'[s] = "removed" => result[s] = "ok")
      BY <1>3, <1>6, <2>1 DEF HandlerOK
    <3>3. result[s] = "ok" => transport'[s] = "dead"
      BY <1>6, <1>7, <2>0, <2>1 DEF SessionOK
    <3>4. result[s] = "ok" => sock'[s] = "removed" \/ Done("remove", s, "ok") \in Queued'
      <4>1. CASE h.call = "remove" BY <1>6, <2>1, <4>1
      <4>2. CASE h.call # "remove"
        <5>1. h # Done("remove", s, "ok") BY <4>2 DEF Done
        <5>2. QED BY <1>3, <2>0, <3>1, <5>1 DEF SessionOK
      <4>3. QED BY <4>1, <4>2
    <3>5. assoc'[s] => transport'[s] \in {"connected", "dead"}
      <4>1. CASE h.call = "read" /\ transport[s] # "dead"
        <5>1. transport[s] = "connected" BY <1>3, <2>1, <4>1 DEF HandlerOK
        <5>2. h.res = "error" => ~assoc'[s]
          BY <1>3, <1>4, <2>1, <4>1 DEF EngineHears, TypeOK, HesTypeOK
        <5>3. QED BY <1>6, <2>1, <4>1, <5>1, <5>2
      <4>2. CASE ~(h.call = "read" /\ transport[s] # "dead")
        <5>1. assoc'[s] = assoc[s] BY <1>4, <2>1, <4>2 DEF EngineHears
        <5>2. QED BY <1>6, <1>7, <2>0, <2>1, <4>2, <5>1 DEF SessionOK
      <4>3. QED BY <4>1, <4>2
    <3>6. transport'[s] = "connected" => op'[s] = "read" BY <1>6, <2>1
    <3>7. QED
      BY <1>4, <2>0, <3>1, <3>2, <3>3, <3>4, <3>5, <3>6 DEF SessionOK
  <2>2. CASE s # s0
    <3>1. /\ sock'[s] = sock[s] /\ op'[s] = op[s]
          /\ transport'[s] = transport[s] /\ assoc'[s] = assoc[s]
      BY <1>5, <2>2
    <3>2. Done("remove", s, "ok") \in Queued => Done("remove", s, "ok") \in Queued'
      <4>1. h # Done("remove", s, "ok") BY <2>2 DEF Done
      <4>2. QED BY <1>3, <4>1
    <3>3. \A c \in Queued : c.sock = s => c \in Queued' BY <1>3, <2>2
    <3>4. QED BY <1>4, <2>0, <3>1, <3>2, <3>3 DEF SessionOK
  <2>3. QED BY <2>1, <2>2
<1>12. CallOK'
  <2>1. pc # "idle" => cur \in Sockets BY DEF TypeOK, HesTypeOK
  <2>2. ASSUME pc # "idle"
        PROVE  /\ sock'[cur] = "listed" /\ transport'[cur] # "dead"
               /\ pc = "associate" => transport'[cur] # "idle"
    <3>1. /\ sock[cur] = "listed" /\ transport[cur] # "dead" /\ result[cur] = "none"
          /\ pc = "associate" => transport[cur] # "idle"
      BY <2>2 DEF CleanupInv, CallOK
    <3>2. CASE cur = s0
      <4>1. h.call # "remove" BY <1>3, <3>1, <3>2 DEF HandlerOK
      <4>2. QED BY <1>6, <1>7, <3>1, <3>2, <4>1
    <3>3. CASE cur # s0 BY <1>5, <2>1, <2>2, <3>1, <3>3
    <3>4. QED BY <3>2, <3>3
  <2>3. stopped' => ready' = <<>> /\ \A s \in Sockets : op'[s] = "none"
    BY <1>3 DEF Work
  <2>4. ready' = <<>> => Queued' = {}
    BY EmptySeq DEF Queued
  <2>5. stopped' /\ pc = "connect" => transport'[cur] # "connected"
    BY <1>4, <1>11, <2>1, <2>3, <2>4 DEF SessionOK
  <2>6. QED BY <1>4, <2>2, <2>3, <2>5 DEF CleanupInv, CallOK
<1>13. QED BY <1>3, <1>8, <1>10, <1>11, <1>12 DEF CleanupInv

LEMMA GiveUpCleanup ==
    ASSUME TypeOK, CleanupInv, GiveUp
    PROVE  CleanupInv'
<1>1. /\ UNCHANGED <<sock, isOpen, op, ready, stopped, cur, assoc>>
      /\ pc = "connect" /\ pc' = "idle" /\ cur \in Sockets /\ Queued' = Queued
  BY DEF GiveUp, Queued, TypeOK, HesTypeOK
<1>2. result[cur] = "none" /\ sock[cur] = "listed"
  BY <1>1 DEF CleanupInv, CallOK
<1>3. /\ result'[cur] = "failed" /\ transport'[cur] = "dead"
      /\ \A s \in Sockets \ {cur} : result'[s] = result[s] /\ transport'[s] = transport[s]
  BY <1>1 DEF GiveUp, TypeOK, SocketTypeOK, HesTypeOK
<1>4. Ordered(ready)' BY <1>1 DEF CleanupInv, Ordered
<1>5. ASSUME NEW c \in Queued' PROVE HandlerOK(c)'
  <2>1. c.sock \in Sockets /\ HandlerOK(c)
    BY <1>1, <1>5, QueuedType DEF CleanupInv, TypeOK
  <2>2. QED BY <1>1, <1>2, <1>3, <2>1 DEF HandlerOK
<1>6. ASSUME NEW s \in Sockets PROVE OperationOK(s)' /\ SessionOK(s)'
  <2>1. OperationOK(s) /\ SessionOK(s) BY DEF CleanupInv
  <2>2. CASE s = cur BY <1>1, <1>2, <1>3, <2>1, <2>2 DEF OperationOK, SessionOK
  <2>3. CASE s # cur BY <1>1, <1>3, <2>1, <2>3 DEF OperationOK, SessionOK
  <2>4. QED BY <2>2, <2>3
<1>7. CallOK' BY <1>1 DEF CallOK
<1>8. QED BY <1>4, <1>5, <1>6, <1>7 DEF CleanupInv

(* When a call gets to its end, nothing waits in the queue, and its socket *)
(* is being read or has been closed by the peer.                           *)
LEMMA AtTheEnd ==
    ASSUME TypeOK, CleanupInv, pc = "associate", PollReturns
    PROVE  /\ cur \in Sockets /\ ready = <<>> /\ Queued = {}
           /\ sock[cur] = "listed" /\ result[cur] = "none"
           /\ transport[cur] \in {"connected", "closed"}
           /\ op[cur] \in {"none", "read"}
           /\ transport[cur] = "connected" => op[cur] = "read"
           /\ stopped => \A s \in Sockets : op[s] = "none"
<1>1. /\ cur \in Sockets
      /\ transport[cur] \in {"idle", "connected", "closed", "dead"}
      /\ op[cur] \in Operations
  BY DEF TypeOK, SocketTypeOK, HesTypeOK
<1>2. /\ sock[cur] = "listed" /\ result[cur] = "none"
      /\ transport[cur] # "dead" /\ transport[cur] # "idle"
      /\ stopped => ready = <<>> /\ \A s \in Sockets : op[s] = "none"
  BY DEF CleanupInv, CallOK
<1>3. ready = <<>> BY <1>2 DEF PollReturns
<1>4. Queued = {} BY <1>3, EmptySeq DEF Queued
<1>5. op[cur] \in {"none", "read"}
  BY <1>1, <1>2 DEF CleanupInv, OperationOK, Operations
<1>6. transport[cur] = "connected" => op[cur] = "read"
  BY <1>1, <1>4 DEF CleanupInv, SessionOK
<1>7. QED BY <1>1, <1>2, <1>3, <1>4, <1>5, <1>6

(* What ReleaseSocket queues then: the end of the read, if there is one,   *)
(* and the removal.                                                        *)
LEMMA ReleaseQueue ==
    ASSUME TypeOK, CleanupInv, pc = "associate", PollReturns, ReleaseSocket(cur)
    PROVE  LET r == Done("read", cur, "error")
               d == Done("remove", cur, "ok") IN
           /\ r \in Completions /\ d \in Completions
           /\ Queued' = {d} \/ Queued' = {r, d}
           /\ Ordered(ready)'
<1> DEFINE r == Done("read", cur, "error")
           d == Done("remove", cur, "ok")
<1>1. /\ cur \in Sockets /\ ready = <<>> /\ op[cur] \in {"none", "read"}
  BY AtTheEnd
<1>2. r \in Completions /\ d \in Completions
  BY <1>1 DEF Done, Completions, Results
<1>3. \/ ready' = <<d>>
      \/ Len(ready') = 2 /\ ready'[1] = r /\ ready'[2] = d
  <2>1. ready' = ready \o Interrupted(cur) \o <<d>> BY DEF ReleaseSocket
  <2>2. Interrupted(cur) = <<>> \/ Interrupted(cur) = <<r>>
    BY <1>1 DEF Interrupted
  <2> HIDE DEF r, d
  <2>3. CASE Interrupted(cur) = <<>>
    BY <1>1, <1>2, <2>1, <2>3
  <2>4. CASE Interrupted(cur) = <<r>>
    <3>1. <<r>> \in Seq(Completions) BY <1>2
    <3>2. ready \o <<r>> = <<r>> BY <1>1, <3>1, ConcatEmptySeq
    <3>3. <<d>> \in Seq(Completions) BY <1>2
    <3>4. /\ Len(<<r>> \o <<d>>) = 2
          /\ (<<r>> \o <<d>>)[1] = r /\ (<<r>> \o <<d>>)[2] = d
      BY <3>1, <3>3, ConcatProperties
    <3>5. QED BY <2>1, <2>4, <3>2, <3>4
  <2>5. QED BY <2>2, <2>3, <2>4
<1>4. r.call = "read" /\ r.res = "error" /\ d.call = "remove" BY DEF Done
<1> HIDE DEF r, d
<1>5. Queued' = {d} \/ Queued' = {r, d}
  <2>1. CASE ready' = <<d>> BY <2>1 DEF Queued
  <2>2. CASE Len(ready') = 2 /\ ready'[1] = r /\ ready'[2] = d
    BY <2>2 DEF Queued
  <2>3. QED BY <1>3, <2>1, <2>2
<1>6. Ordered(ready)'
  <2>1. CASE ready' = <<d>> BY <2>1 DEF Ordered
  <2>2. CASE Len(ready') = 2 /\ ready'[1] = r /\ ready'[2] = d
    BY <1>4, <2>2 DEF Ordered
  <2>3. QED BY <1>3, <2>1, <2>2
<1>7. QED BY <1>2, <1>3, <1>5, <1>6 DEF r, d

LEMMA FinishCleanup ==
    ASSUME TypeOK, CleanupInv, pc = "associate", PollReturns, NEW segments,
           Finish(segments)
    PROVE  CleanupInv'
<1> DEFINE r == Done("read", cur, "error")
           d == Done("remove", cur, "ok")
<1>1. /\ cur \in Sockets /\ ready = <<>> /\ Queued = {} /\ sock[cur] = "listed"
      /\ op[cur] \in {"none", "read"}
  BY AtTheEnd
<1>2. ReleaseSocket(cur) BY DEF Finish
<1>3. /\ r \in Completions /\ d \in Completions
      /\ Queued' = {d} \/ Queued' = {r, d}
      /\ Ordered(ready)'
  BY <1>2, ReleaseQueue
<1>4. /\ UNCHANGED <<sock, stopped, cur, assoc>> /\ pc' = "idle"
      /\ op'[cur] = "none" /\ transport'[cur] = "dead" /\ result'[cur] = "ok"
      /\ \A s \in Sockets \ {cur} :
            /\ op'[s] = op[s] /\ isOpen'[s] = isOpen[s]
            /\ transport'[s] = transport[s] /\ result'[s] = result[s]
  BY <1>1 DEF Finish, ReleaseSocket, AfterClose, Returned, TypeOK, SocketTypeOK, HesTypeOK
<1>5. ASSUME NEW c \in Queued' PROVE HandlerOK(c)'
  <2>1. c = r \/ c = d BY <1>3, <1>5
  <2>2. /\ c.sock = cur /\ c.call \in {"read", "remove"}
        /\ c.call = "read" => c.res = "error"
        /\ c.call = "remove" => c.res = "ok"
    BY <2>1 DEF Done
  <2> HIDE DEF r, d
  <2>3. QED BY <1>1, <1>4, <2>2 DEF HandlerOK
<1>6. ASSUME NEW s \in Sockets PROVE OperationOK(s)' /\ SessionOK(s)'
  <2>1. OperationOK(s) /\ SessionOK(s) BY DEF CleanupInv
  <2>2. CASE s = cur
    <3>1. d \in Queued' BY <1>3
    <3>2. QED BY <1>1, <1>4, <2>1, <2>2, <3>1 DEF OperationOK, SessionOK
  <2>3. CASE s # cur BY <1>1, <1>4, <2>1, <2>3 DEF OperationOK, SessionOK
  <2>4. QED BY <2>2, <2>3
<1>7. CallOK' BY <1>4 DEF CallOK
<1>8. QED BY <1>3, <1>5, <1>6, <1>7 DEF CleanupInv

(* A handler that throws is a connect handler; its socket has not          *)
(* connected and has nothing else that waits.                              *)
LEMMA ThrowsCleanup ==
    ASSUME TypeOK, CleanupInv, HandlerThrows
    PROVE  CleanupInv'
<1>1. PICK h : h = Head(ready) OBVIOUS
<1>2. /\ UNCHANGED <<sock, isOpen, op, transport, cur, assoc, result>>
      /\ pc # "idle" /\ pc' = "died"
      /\ h.call = "connect"
      /\ ready # <<>> /\ ready' = Tail(ready)
  BY <1>1 DEF HandlerThrows, PollThrows, ConnectHandlerThrows, InLoop
<1>3. ready \in Seq(Completions) BY DEF TypeOK, SocketTypeOK
<1>4. QueueOf(ready) = QueueOf(Tail(ready)) \cup {h} BY <1>1, <1>2, <1>3, QueueTail
<1>5. Queued = Queued' \cup {h} BY <1>2, <1>4 DEF Queued, QueueOf
<1>6. Ordered(Tail(ready)) BY <1>2, <1>3, OrderedTail DEF CleanupInv
<1>7. Ordered(ready)' BY <1>2, <1>6 DEF Ordered
<1>8. ASSUME NEW c \in Queued' PROVE HandlerOK(c)'
  BY <1>2, <1>5, <1>8 DEF CleanupInv, HandlerOK
<1>9. ASSUME NEW s \in Sockets PROVE OperationOK(s)' /\ SessionOK(s)'
  <2>1. OperationOK(s) /\ SessionOK(s) BY DEF CleanupInv
  <2>2. \A c \in Queued : c.call \in {"read", "remove"} => c \in Queued'
    BY <1>2, <1>5
  <2>3. Done("remove", s, "ok") \in Queued => Done("remove", s, "ok") \in Queued'
    BY <2>2 DEF Done
  <2>4. OperationOK(s)' BY <1>2, <2>1 DEF OperationOK
  <2>5. SessionOK(s)' BY <1>2, <2>1, <2>2, <2>3 DEF SessionOK
  <2>6. QED BY <2>4, <2>5
<1>10. CallOK' BY <1>2 DEF CleanupInv, CallOK
<1>11. QED BY <1>7, <1>8, <1>9, <1>10 DEF CleanupInv

LEMMA HesStepCleanup ==
    ASSUME TypeOK, CleanupInv, HesStep
    PROVE  CleanupInv'
<1>1. CASE Poll BY <1>1, PollCleanup
<1>2. CASE Associate \/ ConnectAgain \/ AssociateAgain
  <2>1. /\ UNCHANGED <<sock, isOpen, op, ready, stopped, transport, cur, assoc, result>>
        /\ Queued' = Queued /\ pc # "idle" /\ pc' # "idle"
    BY <1>2 DEF Associate, ConnectAgain, AssociateAgain, socketVars, Queued
  <2>2. Ordered(ready)' BY <2>1 DEF CleanupInv, Ordered
  <2>3. ASSUME NEW c \in Queued' PROVE HandlerOK(c)'
    BY <2>1, <2>3 DEF CleanupInv, HandlerOK
  <2>4. ASSUME NEW s \in Sockets PROVE OperationOK(s)' /\ SessionOK(s)'
    BY <2>1, <2>4 DEF CleanupInv, OperationOK, SessionOK
  <2>5. CallOK'
    <3>1. CASE pc' = pc BY <2>1, <3>1 DEF CleanupInv, CallOK
    <3>2. CASE Associate
      BY <2>1, <3>2
      DEF Associate, TransportUp, IsTransportConnected, CleanupInv, CallOK
    <3>3. QED BY <1>2, <3>1, <3>2 DEF ConnectAgain, AssociateAgain
  <2>6. QED BY <2>2, <2>3, <2>4, <2>5 DEF CleanupInv
<1>3. CASE GiveUp BY <1>3, GiveUpCleanup
<1>4. CASE Command \/ CommandRefused \/ FallThrough
  <2>1. /\ pc = "associate" /\ PollReturns
        /\ \E segments : Finish(segments)
    BY <1>4 DEF Command, CommandRefused, FallThrough
  <2>2. QED BY <2>1, FinishCleanup
<1>5. CASE HandlerThrows BY <1>5, ThrowsCleanup
<1>6. QED BY <1>1, <1>2, <1>3, <1>4, <1>5 DEF HesStep

(* An operation completes: its handler joins a queue that holds no other   *)
(* of that socket.                                                         *)
LEMMA CompleteQueue ==
    ASSUME TypeOK, CleanupInv, NEW s \in Sockets, op[s] # "none",
           NEW call \in {"resolver", "connect", "read"}, NEW res \in Results,
           Complete(call, s, res)
    PROVE  /\ Queued' = Queued \cup {Done(call, s, res)}
           /\ \A c \in Queued : c.sock # s
           /\ Ordered(ready)'
<1> DEFINE d == Done(call, s, res)
<1>1. d \in Completions /\ d.sock = s BY DoneType DEF Done
<1>2. ready \in Seq(Completions) /\ ready' = Append(ready, d)
  BY DEF Complete, TypeOK, SocketTypeOK
<1>3. \A c \in Queued : c.sock # s BY DEF CleanupInv, HandlerOK
<1> HIDE DEF d
<1>4. QueueOf(Append(ready, d)) = QueueOf(ready) \cup {d} BY <1>1, <1>2, QueueAppend
<1>5. Queued = QueueOf(ready) /\ Queued' = QueueOf(Append(ready, d))
  BY <1>2 DEF Queued, QueueOf
<1>6. Ordered(Append(ready, d)) BY <1>1, <1>2, <1>3, <1>5, OrderedAppend DEF CleanupInv
<1>7. Ordered(ready)' BY <1>2, <1>6 DEF Ordered
<1>8. QED BY <1>3, <1>4, <1>5, <1>7 DEF d

LEMMA CompleteCleanup ==
    ASSUME TypeOK, CleanupInv, NEW s \in Sockets, op[s] # "none",
           NEW call \in {"resolver", "connect", "read"}, NEW res \in Results,
           op[s] = IF call = "resolver" THEN "resolve" ELSE call,
           Complete(call, s, res), UNCHANGED <<pc, cur, assoc, result>>
    PROVE  CleanupInv'
<1> DEFINE d == Done(call, s, res)
<1>1. /\ Queued' = Queued \cup {d}
      /\ \A c \in Queued : c.sock # s
      /\ Ordered(ready)'
  BY CompleteQueue
<1>2. d.call = call /\ d.sock = s /\ d.res = res BY DEF Done
<1> HIDE DEF d
<1>3. /\ UNCHANGED <<sock, isOpen, stopped, transport>>
      /\ op'[s] = "none" /\ \A t \in Sockets \ {s} : op'[t] = op[t]
  BY DEF Complete, TypeOK, SocketTypeOK
<1>4. OperationOK(s) BY DEF CleanupInv
<1>5. ASSUME NEW c \in Queued' PROVE HandlerOK(c)'
  <2>1. CASE c = d BY <1>2, <1>3, <1>4, <2>1 DEF OperationOK, HandlerOK
  <2>2. CASE c \in Queued
    <3>1. c.sock \in Sockets /\ c.sock # s BY <1>1, <2>2, QueuedType DEF TypeOK
    <3>2. HandlerOK(c) BY <2>2 DEF CleanupInv
    <3>3. QED BY <1>3, <3>1, <3>2 DEF HandlerOK
  <2>3. QED BY <1>1, <1>5, <2>1, <2>2
<1>6. ASSUME NEW t \in Sockets PROVE OperationOK(t)' /\ SessionOK(t)'
  <2>1. OperationOK(t) /\ SessionOK(t) BY DEF CleanupInv
  <2>2. OperationOK(t)' BY <1>3, <2>1 DEF OperationOK
  <2>3. SessionOK(t)'
    <3>1. transport[t] = "connected" =>
              op'[t] = "read" \/ \E c \in Queued' : c.call = "read" /\ c.sock = t
      <4>1. CASE t = s
        BY <1>1, <1>2, <1>4, <2>1, <4>1 DEF OperationOK, SessionOK
      <4>2. CASE t # s BY <1>1, <1>3, <2>1, <4>2 DEF SessionOK
      <4>3. QED BY <4>1, <4>2
    <3>2. Done("remove", t, "ok") \in Queued => Done("remove", t, "ok") \in Queued'
      BY <1>1
    <3>3. QED BY <1>3, <2>1, <3>1, <3>2 DEF SessionOK
  <2>4. QED BY <2>2, <2>3
<1>7. CallOK' BY <1>3 DEF CleanupInv, CallOK
<1>8. QED BY <1>1, <1>5, <1>6, <1>7 DEF CleanupInv

(* The network's completions, each of an operation that is outstanding.    *)
LEMMA NetworkComplete ==
    ASSUME TypeOK, NEW s \in Sockets,
           Resolve(s) \/ ConnectSucceeds(s) \/ ConnectRefused(s) \/ Receive(s)
    PROVE  \E call \in {"resolver", "connect", "read"}, res \in Results :
               /\ op[s] = IF call = "resolver" THEN "resolve" ELSE call
               /\ Complete(call, s, res)
               /\ UNCHANGED hesVars
               /\ ConnectSucceeds(s) => call = "connect" /\ res = "ok"
               /\ ~ConnectSucceeds(s) => (call = "connect" => res = "error")
<1>1. "ok" \in Results /\ "error" \in Results BY DEF Results
<1>2. CASE Resolve(s)
  <2>1. op[s] = "resolve" /\ UNCHANGED hesVars BY <1>2 DEF Resolve, ResolveDone
  <2>2. ~ConnectSucceeds(s) BY <2>1 DEF ConnectSucceeds, ConnectDone
  <2>3. \E res \in {"ok", "error"} : Complete("resolver", s, res)
    BY <1>2 DEF Resolve, ResolveDone
  <2>4. QED BY <1>1, <2>1, <2>2, <2>3
<1>3. CASE ConnectSucceeds(s)
  BY <1>1, <1>3 DEF ConnectSucceeds, ConnectDone
<1>4. CASE ConnectRefused(s) /\ ~ConnectSucceeds(s)
  BY <1>1, <1>4 DEF ConnectRefused, ConnectDone
<1>5. CASE Receive(s)
  <2>1. op[s] = "read" /\ UNCHANGED hesVars BY <1>5 DEF Receive, ReadDone
  <2>2. ~ConnectSucceeds(s) BY <2>1 DEF ConnectSucceeds, ConnectDone
  <2>3. Head(down[s]) \in ToClient
    BY <1>5, TailType DEF Receive, TypeOK, MeterTypeOK
  <2>4. \E res \in Results : Complete("read", s, res)
    BY <1>5, <2>3 DEF Receive, ReadDone, ToClient, Results
  <2>5. QED BY <2>1, <2>2, <2>4
<1>6. QED BY <1>2, <1>3, <1>4, <1>5

LEMMA NetworkCleanup ==
    ASSUME TypeOK, CleanupInv, NEW s \in Sockets,
           Resolve(s) \/ ConnectSucceeds(s) \/ ConnectRefused(s) \/ Receive(s)
    PROVE  CleanupInv'
<1>1. PICK call \in {"resolver", "connect", "read"}, res \in Results :
          /\ op[s] = IF call = "resolver" THEN "resolve" ELSE call
          /\ Complete(call, s, res)
          /\ UNCHANGED hesVars
  BY NetworkComplete
<1>2. op[s] # "none" BY <1>1
<1>3. QED BY <1>1, <1>2, CompleteCleanup DEF hesVars

LEMMA InitCleanup == Init => CleanupInv
<1> SUFFICES ASSUME Init PROVE CleanupInv OBVIOUS
<1>1. Len(ready) = 0 BY EmptySeq DEF Init, SocketInit
<1>2. Queued = {} /\ Ordered(ready) BY <1>1 DEF Queued, Ordered
<1>3. ASSUME NEW s \in Sockets PROVE OperationOK(s) /\ SessionOK(s)
  <2>1. s > 0 BY MaxSocketsAssumption DEF Sockets
  <2>2. QED BY <2>1 DEF Init, SocketInit, OperationOK, SessionOK
<1>4. CallOK BY DEF Init, CallOK
<1>5. QED BY <1>2, <1>3, <1>4 DEF CleanupInv

LEMMA NextCleanup == TypeOK /\ CleanupInv /\ [Next]_vars => CleanupInv'
<1> SUFFICES ASSUME TypeOK, CleanupInv, [Next]_vars PROVE CleanupInv' OBVIOUS
<1>1. ASSUME NEW m \in Meters, NEW c \in Commands, Begin(m, c) \/ BeginFails(m, c)
      PROVE  CleanupInv'
  BY <1>1, CallCleanup
<1>2. CASE HesStep BY <1>2, HesStepCleanup
<1>3. CASE NetworkStep BY <1>3, NetworkCleanup DEF NetworkStep
<1>4. CASE UNCHANGED <<socketVars, hesVars>>
  BY <1>4, UnchangedCleanup DEF cleanupVars, socketVars, hesVars
<1>5. QED
  BY <1>1, <1>2, <1>3, <1>4 DEF Next, Reset, Meter, MeterFails, vars

LEMMA CleanupInvariant == Spec => [](TypeOK /\ CleanupInv)
BY InitType, InitCleanup, NextType, NextCleanup, PTL DEF Spec

(* When a socket is destroyed nothing of it is outstanding, and no handler *)
(* of it will be called any more: the promise of ReleaseSocket's comment.  *)
THEOREM CleanedUpBeforeRemoval == Spec => []CleanupBeforeRemoval
<1>1. TypeOK /\ CleanupInv => CleanupBeforeRemoval
  <2> SUFFICES ASSUME TypeOK, CleanupInv, NEW s \in Sockets, sock[s] = "removed"
               PROVE  /\ op[s] = "none"
                      /\ \A i \in 1..Len(ready) : ready[i].sock # s
    BY DEF CleanupBeforeRemoval
  <2>1. op[s] = "none" BY DEF CleanupInv, OperationOK
  <2>2. ASSUME NEW i \in 1..Len(ready) PROVE ready[i].sock # s
    BY DEF Queued, CleanupInv, HandlerOK
  <2>3. QED BY <2>1, <2>2
<1>2. QED BY <1>1, CleanupInvariant, PTL

(* A call that returned true has its socket removed by exactly one posted  *)
(* RemoveSocket; no other call posts one.                                  *)
THEOREM IsReleasedOnce == Spec => []ReleasedOnce
<1>1. TypeOK /\ CleanupInv => ReleasedOnce
  <2> SUFFICES ASSUME TypeOK, CleanupInv, NEW s \in Sockets
               PROVE  LET posted == {i \in 1..Len(ready) : ready[i] = Done("remove", s, "ok")} IN
                      IF result[s] = "ok"
                      THEN \/ sock[s] = "removed" /\ posted = {}
                           \/ \E i \in posted : posted = {i}
                      ELSE sock[s] # "removed" /\ posted = {}
    BY DEF ReleasedOnce
  <2> DEFINE d == Done("remove", s, "ok")
             posted == {i \in 1..Len(ready) : ready[i] = d}
  <2>1. d.sock = s /\ d.call = "remove" BY DEF Done
  <2>2. \A i \in posted : ready[i] = d /\ HandlerOK(d) BY DEF CleanupInv, Queued
  <2> HIDE DEF d
  <2>3. \A i, j \in posted : i = j
    <3> SUFFICES ASSUME NEW i \in posted, NEW j \in posted, i < j PROVE FALSE
      OBVIOUS
    <3>1. ready[i] = d /\ ready[j] = d OBVIOUS
    <3>2. ready[i].call = "read" BY <2>1, <3>1 DEF CleanupInv, Ordered
    <3>3. QED BY <2>1, <3>1, <3>2
  <2>4. SessionOK(s) BY DEF CleanupInv
  <2>5. CASE sock[s] = "removed"
    <3>1. posted = {} BY <2>1, <2>2, <2>5 DEF HandlerOK
    <3>2. QED BY <2>4, <2>5, <3>1 DEF SessionOK, d
  <2>6. CASE sock[s] # "removed" /\ result[s] = "ok"
    <3>1. d \in Queued BY <2>4, <2>6 DEF SessionOK, d
    <3>2. PICK i \in 1..Len(ready) : ready[i] = d BY <3>1 DEF Queued
    <3>3. posted = {i} BY <2>3, <3>2
    <3>4. QED BY <2>6, <3>3 DEF d
  <2>7. CASE sock[s] # "removed" /\ result[s] # "ok"
    <3>1. posted = {} BY <2>1, <2>2, <2>7 DEF HandlerOK
    <3>2. QED BY <2>7, <3>1 DEF d
  <2>8. QED BY <2>5, <2>6, <2>7
<1>2. QED BY <1>1, CleanupInvariant, PTL

(* A head end whose loop has stopped sends no more commands.               *)
THEOREM StoppedCommandsNobody == Spec => StoppedIsSilent
<1>1. TypeOK /\ CleanupInv /\ [Next]_vars => [stopped => asked' = asked]_vars
  <2> SUFFICES ASSUME TypeOK, CleanupInv, Next, stopped PROVE asked' = asked
    BY DEF vars, hesVars
  <2>1. ~Command
    <3> SUFFICES ASSUME Command PROVE FALSE OBVIOUS
    <3>1. pc = "associate" /\ PollReturns /\ assoc[cur] BY DEF Command, Associated
    <3>2. /\ cur \in Sockets /\ op[cur] = "none"
          /\ transport[cur] \in {"connected", "closed"}
          /\ transport[cur] = "connected" => op[cur] = "read"
      BY <3>1, AtTheEnd
    <3>3. transport[cur] = "connected"
      BY <3>1, <3>2 DEF CleanupInv, SessionOK
    <3>4. QED BY <3>2, <3>3
  <2>2. QED
    BY <2>1 DEF Next, Begin, BeginFails, HesStep, Poll, HandlerThrows, Associate,
       ConnectAgain, GiveUp, CommandRefused, AssociateAgain, FallThrough, NetworkStep, Resolve,
       ConnectSucceeds, ConnectRefused, Receive, Reset, Meter, MeterFails, hesVars
<1>2. QED BY <1>1, CleanupInvariant, PTL DEF Spec, StoppedIsSilent

-----------------------------------------------------------------------------
(* A meter performs the commands in the order of the calls.                *)

(* No step but a new call makes a socket connect that was not about to.    *)
LEMMA HesStepJoining ==
    ASSUME TypeOK, CleanupInv, HesStep
    PROVE  \A s \in Sockets : /\ Joining(s)' => Joining(s)
                              /\ sock'[s] = "new" => sock[s] = "new"
<1>1. CASE Poll
  <2>1. PICK h : h = Head(ready) OBVIOUS
  <2>2. PollOne BY <1>1 DEF Poll
  <2>3. /\ h \in Queued /\ h.sock \in Sockets
        /\ \A c \in Queued' : c \in Queued
    BY <2>1, <2>2, PollOneHandler
  <2>4. \A s \in Sockets : s # h.sock => sock'[s] = sock[s] /\ op'[s] = op[s]
    BY <2>1, <2>2, HandlerEffect
  <2>5. LET s == h.sock IN
        /\ sock'[s] # "new"
        /\ op'[s] \in {"none", "connect", "read"}
        /\ op'[s] = "connect" =>
              /\ h.call \in {"resolver", "connect"}
              /\ h.call = "connect" => h.res = "error"
    BY <2>1, <2>2, HandlerEffect
  <2>6. QED BY <2>3, <2>4, <2>5 DEF Joining
<1>2. CASE Associate \/ ConnectAgain \/ AssociateAgain
  BY <1>2 DEF Associate, ConnectAgain, AssociateAgain, socketVars, Queued, Joining
<1>3. CASE GiveUp
  BY <1>3 DEF GiveUp, Queued, Joining
<1>4. CASE Command \/ CommandRefused \/ FallThrough
  <2>1. pc = "associate" /\ PollReturns /\ \E segments : Finish(segments)
    BY <1>4 DEF Command, CommandRefused, FallThrough
  <2>2. cur \in Sockets /\ Queued = {} /\ op[cur] \in {"none", "read"}
    BY <2>1, AtTheEnd
  <2>3. ReleaseSocket(cur) /\ sock' = sock BY <2>1 DEF Finish
  <2>4. \A c \in Queued' : c.call \in {"read", "remove"}
    BY <2>1, <2>3, ReleaseQueue DEF Done
  <2>5. \A s \in Sockets : op'[s] \in {op[s], "none"}
    BY <2>2, <2>3 DEF ReleaseSocket, AfterClose, TypeOK, SocketTypeOK
  <2>6. QED BY <2>3, <2>4, <2>5 DEF Joining
<1>5. CASE HandlerThrows
  <2>1. UNCHANGED <<sock, op>> /\ ready # <<>> /\ ready' = Tail(ready)
    BY <1>5 DEF HandlerThrows, PollThrows, ConnectHandlerThrows
  <2>2. ready \in Seq(Completions) BY DEF TypeOK, SocketTypeOK
  <2>3. QueueOf(ready) = QueueOf(Tail(ready)) \cup {Head(ready)}
    BY <2>1, <2>2, QueueTail
  <2>4. \A c \in Queued' : c \in Queued BY <2>1, <2>3 DEF Queued, QueueOf
  <2>5. QED BY <2>1, <2>4 DEF Joining
<1>6. QED BY <1>1, <1>2, <1>3, <1>4, <1>5 DEF HesStep

LEMMA NetworkJoining ==
    ASSUME TypeOK, CleanupInv, NEW s \in Sockets,
           Resolve(s) \/ ConnectSucceeds(s) \/ ConnectRefused(s) \/ Receive(s)
    PROVE  /\ sock' = sock
           /\ \A t \in Sockets : Joining(t)' => Joining(t)
           /\ ConnectSucceeds(s) => Joining(s) /\ ~Joining(s)'
<1>1. PICK call \in {"resolver", "connect", "read"}, res \in Results :
          /\ op[s] = IF call = "resolver" THEN "resolve" ELSE call
          /\ Complete(call, s, res)
          /\ ConnectSucceeds(s) => call = "connect" /\ res = "ok"
  BY NetworkComplete
<1>2. op[s] # "none" BY <1>1
<1> DEFINE d == Done(call, s, res)
<1>3. /\ Queued' = Queued \cup {d}
      /\ \A c \in Queued : c.sock # s
  BY <1>1, <1>2, CompleteQueue
<1>4. d.call = call /\ d.sock = s /\ d.res = res BY DEF Done
<1> HIDE DEF d
<1>5. /\ sock' = sock /\ op'[s] = "none"
      /\ \A t \in Sockets \ {s} : op'[t] = op[t]
  BY <1>1 DEF Complete, TypeOK, SocketTypeOK
<1>6. ASSUME NEW t \in Sockets, Joining(t)' PROVE Joining(t)
  <2>1. CASE t = s
    BY <1>1, <1>3, <1>4, <1>5, <1>6, <2>1 DEF Joining
  <2>2. CASE t # s
    BY <1>3, <1>4, <1>5, <1>6, <2>2 DEF Joining
  <2>3. QED BY <2>1, <2>2
<1>7. ConnectSucceeds(s) => Joining(s) /\ ~Joining(s)'
  BY <1>1, <1>3, <1>4, <1>5 DEF Joining
<1>8. QED BY <1>5, <1>6, <1>7

(* What has been performed was asked for by a call that has returned.      *)
LEMMA PerformedEarlier ==
    ASSUME TypeOK, CommandInv, CleanupInv, NEW m \in Meters,
           NEW i \in 1..Len(executed[m])
    PROVE  LET s == executed[m][i].sess IN
           s \in Sockets /\ asked[s] /\ result[s] = "ok" /\ sock[s] # "new" /\ s <= cur
<1> DEFINE s == executed[m][i].sess
<1>1. s \in Sockets BY HistoryType
<1>2. asked[s] BY DEF CommandInv, PerformedWasAsked
<1>3. result[s] = "ok" /\ sock[s] # "new"
  BY <1>1, <1>2 DEF CommandInv, AskedReturnedTrue
<1>4. ~(s > cur) BY <1>1, <1>3 DEF CleanupInv, SessionOK
<1>5. s <= cur BY <1>1, <1>4 DEF Sockets, TypeOK, HesTypeOK
<1>6. QED BY <1>1, <1>2, <1>3, <1>5

(* A connection at a meter was made for a call up to the present one.      *)
LEMMA BacklogType ==
    ASSUME TypeOK, NEW m \in Meters, NEW j \in 1..Len(backlog[m])
    PROVE  backlog[m][j] \in Sockets
BY ElementOfSeq DEF TypeOK, MeterTypeOK

LEMMA CallConnection ==
    ASSUME TypeOK, CommandInv, CleanupInv, ConnectionInv,
           NEW m \in Meters, NEW c \in Commands, Begin(m, c) \/ BeginFails(m, c)
    PROVE  ConnectionInv'
<1> DEFINE n == cur + 1
<1>1. n \in Sockets /\ sock[n] = "new"
  BY MaxSocketsAssumption
  DEF Begin, BeginFails, Call, CreateSocket, TypeOK, HesTypeOK, Sockets
<1>2. /\ UNCHANGED meterVars /\ ready' = ready /\ Queued' = Queued
      /\ sock' = [sock EXCEPT ![n] = "listed"]
      /\ req' = [req EXCEPT ![n] = [meter |-> m, cmd |-> c]]
      /\ op' \in {op, [op EXCEPT ![n] = "resolve"]}
      /\ result' \in {result, [result EXCEPT ![n] = "failed"]}
  BY DEF Begin, BeginFails, Call, CreateSocket, OpenClient, OpenFails, Queued
<1> HIDE DEF n
<1>3. \A s \in Sockets \ {n} :
          /\ sock'[s] = sock[s] /\ req'[s] = req[s] /\ result'[s] = result[s]
          /\ Joining(s)' => Joining(s)
  BY <1>2 DEF Joining, TypeOK, SocketTypeOK, HesTypeOK
<1>4. \A k \in Meters : serving[k] # n /\ ~Waiting(k, n)
  BY <1>1 DEF ConnectionInv, JoinedOnce
<1>5. JoinedOnce'
  <2> SUFFICES ASSUME NEW k \in Meters, NEW s \in Sockets, serving[k] = s \/ Waiting(k, s)
               PROVE  sock'[s] # "new" /\ req'[s].meter = k /\ ~Joining(s)'
    BY <1>2 DEF JoinedOnce, Waiting, meterVars
  <2>1. s # n BY <1>4
  <2>2. QED BY <1>3, <2>1 DEF ConnectionInv, JoinedOnce
<1>6. InTurn'
  <2> SUFFICES ASSUME NEW k \in Meters, NEW j \in 1..Len(backlog[k]),
                      result'[backlog[k][j]] # "failed"
               PROVE  /\ serving[k] < backlog[k][j]
                      /\ \A i \in 1..(j - 1) : backlog[k][i] < backlog[k][j]
                      /\ \A i \in 1..Len(executed[k]) :
                            executed[k][i].sess < backlog[k][j]
    BY <1>2 DEF InTurn, meterVars
  <2>1. backlog[k][j] \in Sockets /\ Waiting(k, backlog[k][j])
    BY BacklogType DEF Waiting
  <2>2. result[backlog[k][j]] # "failed" BY <1>3, <1>4, <2>1
  <2>3. QED BY <2>2 DEF ConnectionInv, InTurn
<1>7. OneCommand'
  <2> SUFFICES ASSUME NEW s \in Sockets, NEW i \in 1..Len(up[s]), up[s][i] \in Commands
               PROVE  /\ up[s][i] = req'[s].cmd
                      /\ \A j \in 1..Len(up[s]) : up[s][j] \in Commands => j = i
                      /\ \A k \in Meters : \A j \in 1..Len(executed[k]) :
                            serving[k] = s => executed[k][j].sess < s
    BY <1>2 DEF OneCommand, meterVars
  <2>1. asked[s] BY DEF CommandInv, StreamCarriesAsked
  <2>2. s # n BY <1>1, <2>1 DEF CommandInv, AskedReturnedTrue
  <2>3. QED BY <1>3, <2>2 DEF ConnectionInv, OneCommand
<1>8. PerformedInOrder'
  <2>0. executed' = executed BY <1>2 DEF meterVars
  <2> SUFFICES ASSUME NEW k \in Meters, NEW i \in 1..Len(executed[k])
               PROVE  /\ req'[executed[k][i].sess] = [meter |-> k, cmd |-> executed[k][i].cmd]
                      /\ \A j \in 1..(i - 1) : executed[k][j].sess < executed[k][i].sess
    BY <2>0, Zenon DEF PerformedInOrder
  <2>1. executed[k][i].sess \in Sockets /\ sock[executed[k][i].sess] # "new"
    BY PerformedEarlier
  <2>2. executed[k][i].sess # n BY <1>1, <2>1
  <2>3. QED BY <1>3, <2>1, <2>2 DEF ConnectionInv, PerformedInOrder
<1>9. QED BY <1>5, <1>6, <1>7, <1>8 DEF ConnectionInv

(* Where the meters, but for their streams, and the requests are as they   *)
(* were, and no call has been taken back, the order stands if the streams  *)
(* still carry one command at most.                                        *)
LEMMA SameConnections ==
    ASSUME TypeOK, ConnectionInv, UNCHANGED <<serving, backlog, executed, req>>,
           OneCommand',
           \A s \in Sockets : /\ Joining(s)' => Joining(s)
                              /\ sock'[s] = "new" => sock[s] = "new"
                              /\ result[s] = "failed" => result'[s] = "failed"
    PROVE  ConnectionInv'
<1>1. JoinedOnce' BY DEF ConnectionInv, JoinedOnce, Waiting
<1>2. InTurn'
  <2> SUFFICES ASSUME NEW k \in Meters, NEW j \in 1..Len(backlog[k]),
                      result'[backlog[k][j]] # "failed"
               PROVE  /\ serving[k] < backlog[k][j]
                      /\ \A i \in 1..(j - 1) : backlog[k][i] < backlog[k][j]
                      /\ \A i \in 1..Len(executed[k]) :
                            executed[k][i].sess < backlog[k][j]
    BY DEF InTurn
  <2>1. result[backlog[k][j]] # "failed" BY BacklogType
  <2>2. QED BY <2>1 DEF ConnectionInv, InTurn
<1>3. PerformedInOrder' BY DEF ConnectionInv, PerformedInOrder
<1>4. QED BY <1>1, <1>2, <1>3 DEF ConnectionInv

(* The end of a call writes its command first, and nothing else that is a  *)
(* command.                                                                *)
LEMMA OneInGoodbye ==
    ASSUME TypeOK, pc = "associate", NEW release \in {<<>>, <<"RLRQ">>},
           NEW all, all = (<<req[cur].cmd>> \o release) \o <<"FIN">>
    PROVE  /\ all \in Seq(ToMeter)
           /\ \A j \in 1..Len(all) :
                 all[j] \in Commands => j = 1 /\ all[j] = req[cur].cmd
<1> DEFINE c == req[cur].cmd
<1>1. c \in ToMeter BY DEF TypeOK, HesTypeOK, Requests, ToMeter
<1>2. "RLRQ" \notin Commands /\ "FIN" \notin Commands BY DEF Commands
<1>3. <<"FIN">> \in Seq(ToMeter) /\ <<"RLRQ">> \in Seq(ToMeter) BY DEF ToMeter
<1> HIDE DEF c
<1>4. <<c>> \in Seq(ToMeter) BY <1>1
<1>5. CASE release = <<>>
  <2> DEFINE one == <<c>> \o release
  <2>1. one \in Seq(ToMeter) /\ Len(one) = 1 /\ one[1] = c
    BY <1>4, <1>5, ConcatEmptySeq
  <2>2. all = one \o <<"FIN">> BY DEF c
  <2> HIDE DEF one
  <2>3. all \in Seq(ToMeter) /\ Len(all) = 2
    <3>1. all \in Seq(ToMeter) BY <1>3, <2>1, <2>2, ConcatProperties
    <3>2. Len(all) = Len(one) + Len(<<"FIN">>)
      BY <1>3, <2>1, <2>2, ConcatProperties
    <3>3. Len(<<"FIN">>) = 1 OBVIOUS
    <3>4. QED BY <2>1, <3>1, <3>2, <3>3
  <2>4. all[1] = c BY <1>3, <2>1, <2>2, ConcatProperties
  <2>5. all[2] = "FIN" BY <1>3, <2>1, <2>2, ConcatProperties
  <2>6. QED BY <1>2, <2>3, <2>4, <2>5 DEF c
<1>6. CASE release = <<"RLRQ">>
  <2> DEFINE two == <<c>> \o release
  <2>1. two \in Seq(ToMeter) /\ Len(two) = 2 /\ two[1] = c /\ two[2] = "RLRQ"
    BY <1>3, <1>4, <1>6, ConcatProperties
  <2>2. all = two \o <<"FIN">> BY DEF c
  <2> HIDE DEF two
  <2>3. /\ all \in Seq(ToMeter) /\ Len(all) = 3
        /\ all[1] = c /\ all[2] = "RLRQ" /\ all[3] = "FIN"
    BY <1>3, <2>1, <2>2, ConcatProperties
  <2>4. QED BY <1>2, <2>3 DEF c
<1>7. QED BY <1>5, <1>6

LEMMA CommandWritesOne ==
    ASSUME TypeOK, CommandInv, CleanupInv, ConnectionInv, Command
    PROVE  OneCommand'
<1>1. pc = "associate" /\ cur \in Sockets /\ ~asked[cur]
  BY DEF Command, TypeOK, HesTypeOK, CommandInv, CallInProgressNotAsked
<1>2. UNCHANGED <<serving, executed, req>> BY DEF Command, Finish
<1>3. PICK release \in {<<>>, <<"RLRQ">>} :
          up' = Sent(cur, (<<req[cur].cmd>> \o release) \o <<"FIN">>)
  BY DEF Command, Finish, Goodbye
<1> DEFINE all == (<<req[cur].cmd>> \o release) \o <<"FIN">>
<1>4. up' = Sent(cur, all) BY <1>3
<1>5. /\ all \in Seq(ToMeter)
      /\ \A j \in 1..Len(all) : all[j] \in Commands => j = 1 /\ all[j] = req[cur].cmd
  BY <1>1, OneInGoodbye
<1> HIDE DEF all
<1>6. up[cur] \in Seq(ToMeter) /\ \A i \in 1..Len(up[cur]) : up[cur][i] \notin Commands
  BY <1>1 DEF CommandInv, StreamCarriesAsked, TypeOK, MeterTypeOK
<1>7. SUFFICES ASSUME NEW s \in Sockets, NEW i \in 1..Len(up'[s]), up'[s][i] \in Commands
               PROVE  /\ up'[s][i] = req[s].cmd
                      /\ \A j \in 1..Len(up'[s]) : up'[s][j] \in Commands => j = i
                      /\ \A m \in Meters : \A j \in 1..Len(executed[m]) :
                            serving[m] = s => executed[m][j].sess < s
  BY <1>2 DEF OneCommand
<1>8. CASE up'[s] = up[s]
  BY <1>7, <1>8 DEF ConnectionInv, OneCommand
<1>9. CASE s = cur /\ up'[s] = up[s] \o all
  <2>1. /\ Len(up'[s]) = Len(up[s]) + Len(all)
        /\ Len(up[s]) \in Nat /\ Len(all) \in Nat
        /\ \A j \in 1..Len(up'[s]) :
              up'[s][j] = IF j <= Len(up[s]) THEN up[s][j] ELSE all[j - Len(up[s])]
    BY <1>5, <1>6, <1>9, ConcatProperties, LenProperties
  <2>2. \A j \in 1..Len(up'[s]) : up'[s][j] \in Commands =>
            j = Len(up[s]) + 1 /\ up'[s][j] = req[s].cmd
    <3> SUFFICES ASSUME NEW j \in 1..Len(up'[s]), up'[s][j] \in Commands
                 PROVE  j = Len(up[s]) + 1 /\ up'[s][j] = req[s].cmd
      OBVIOUS
    <3>1. ~(j <= Len(up[s])) BY <1>6, <1>9, <2>1
    <3>2. j - Len(up[s]) \in 1..Len(all) BY <2>1, <3>1
    <3>3. QED BY <1>5, <1>9, <2>1, <3>1, <3>2
  <2>3. ASSUME NEW m \in Meters, NEW j \in 1..Len(executed[m])
        PROVE  executed[m][j].sess < s
    <3>1. executed[m][j].sess \in Sockets /\ asked[executed[m][j].sess]
          /\ executed[m][j].sess <= cur
      BY PerformedEarlier
    <3>2. executed[m][j].sess # cur BY <1>1, <3>1
    <3>3. QED BY <1>1, <1>9, <3>1, <3>2 DEF Sockets
  <2>4. QED BY <1>7, <2>2, <2>3
<1>10. QED BY <1>4, <1>8, <1>9 DEF Sent, TypeOK, MeterTypeOK

LEMMA HesStepConnection ==
    ASSUME TypeOK, CommandInv, CleanupInv, ConnectionInv, HesStep
    PROVE  ConnectionInv'
<1>1. UNCHANGED <<serving, backlog, executed, req>>
  BY DEF HesStep, Poll, HandlerThrows, Associate, ConnectAgain, GiveUp, Command,
         CommandRefused, AssociateAgain, FallThrough, Finish, meterVars
<1>2. OneCommand'
  <2>1. CASE up' = up
    BY <1>1, <2>1 DEF ConnectionInv, OneCommand
  <2>2. CASE Command BY <2>2, CommandWritesOne
  <2>3. CASE Associate \/ CommandRefused \/ FallThrough
    <3>1. asked' = asked /\ pc # "idle" /\ cur \in Sockets
      BY <2>3 DEF Associate, CommandRefused, FallThrough, TypeOK, HesTypeOK
    <3>2. ~asked'[cur] BY <3>1 DEF CommandInv, CallInProgressNotAsked
    <3>3. CommandInv' BY HesStepCommand
    <3>4. \A i \in 1..Len(up'[cur]) : up'[cur][i] \notin Commands
      BY <3>1, <3>2, <3>3 DEF CommandInv, StreamCarriesAsked
    <3>5. \A s \in Sockets \ {cur} : up'[s] = up[s]
      <4>1. \E segments : up' = Sent(cur, segments)
        BY <2>3 DEF Associate, CommandRefused, FallThrough, Finish, Goodbye
      <4>2. QED BY <4>1 DEF Sent, TypeOK, MeterTypeOK
    <3>6. QED BY <1>1, <3>4, <3>5 DEF ConnectionInv, OneCommand
  <2>4. CASE HandlerThrows
    <3>1. \A s \in Sockets : \A i \in 1..Len(up'[s]) : up'[s][i] \in Commands =>
              i \in 1..Len(up[s]) /\ up'[s][i] = up[s][i]
      BY <2>4, HangUpStreams DEF HandlerThrows, TypeOK
    <3>2. QED BY <1>1, <3>1 DEF ConnectionInv, OneCommand
  <2>5. QED
    BY <2>1, <2>2, <2>3, <2>4 DEF HesStep, Poll, ConnectAgain, GiveUp, AssociateAgain, meterVars
<1>3. \A s \in Sockets : result[s] = "failed" => result'[s] = "failed"
  <2>1. pc # "idle" /\ result[cur] = "none"
    BY DEF HesStep, Poll, HandlerThrows, InLoop, Associate, ConnectAgain, GiveUp,
           Command, CommandRefused, AssociateAgain, FallThrough, CleanupInv, CallOK
  <2>2. \A s \in Sockets : result'[s] = result[s] \/ s = cur
    BY DEF HesStep, Poll, HandlerThrows, Associate, ConnectAgain, GiveUp, Command,
           CommandRefused, AssociateAgain, FallThrough, Finish, TypeOK, HesTypeOK
  <2>3. QED BY <2>1, <2>2
<1>4. QED BY <1>1, <1>2, <1>3, HesStepJoining, SameConnections

(* A connection that the kernel completes late belongs to a call that has  *)
(* failed; any other is the present call's and goes behind all the others. *)
LEMMA ConnectConnection ==
    ASSUME TypeOK, CommandInv, CleanupInv, ConnectionInv, NEW s \in Sockets,
           ConnectSucceeds(s)
    PROVE  ConnectionInv'
<1> DEFINE m0 == req[s].meter
<1>1. /\ UNCHANGED <<serving, executed, up, req, result, cur>>
      /\ backlog' = [backlog EXCEPT ![m0] = Append(@, s)]
  BY DEF ConnectSucceeds, EstablishConnection, hesVars
<1>2. /\ sock' = sock /\ Joining(s) /\ ~Joining(s)'
      /\ \A t \in Sockets : Joining(t)' => Joining(t)
  BY NetworkJoining
<1>3. op[s] = "connect" /\ sock[s] = "listed" /\ result[s] # "ok"
  BY DEF ConnectSucceeds, ConnectDone, CleanupInv, OperationOK
<1> HIDE DEF m0
<1>4. \A m \in Meters : serving[m] # s /\ ~Waiting(m, s)
  BY <1>2 DEF ConnectionInv, JoinedOnce
<1>5. ASSUME NEW m \in Meters
      PROVE  \/ backlog'[m] = backlog[m]
             \/ /\ m = m0 /\ Len(backlog'[m]) = Len(backlog[m]) + 1
                /\ \A j \in 1..Len(backlog[m]) : backlog'[m][j] = backlog[m][j]
                /\ backlog'[m][Len(backlog[m]) + 1] = s
                /\ Len(backlog[m]) \in Nat
  <2>1. backlog[m] \in Seq(Sockets) BY DEF TypeOK, MeterTypeOK
  <2>2. /\ Len(Append(backlog[m], s)) = Len(backlog[m]) + 1
        /\ Len(backlog[m]) \in Nat
    BY <2>1, AppendProperties, LenProperties
  <2>3. \A j \in 1..Len(backlog[m]) : Append(backlog[m], s)[j] = backlog[m][j]
    BY <2>1, AppendProperties
  <2>4. Append(backlog[m], s)[Len(backlog[m]) + 1] = s
    BY <2>1, AppendProperties
  <2>5. m = m0 => backlog'[m] = Append(backlog[m], s)
    BY <1>1 DEF TypeOK, MeterTypeOK
  <2>6. m # m0 => backlog'[m] = backlog[m]
    BY <1>1 DEF TypeOK, MeterTypeOK
  <2>7. QED BY <2>2, <2>3, <2>4, <2>5, <2>6
<1>6. JoinedOnce'
  <2> SUFFICES ASSUME NEW m \in Meters, NEW t \in Sockets,
                      serving[m] = t \/ \E i \in 1..Len(backlog'[m]) : backlog'[m][i] = t
               PROVE  sock[t] # "new" /\ req[t].meter = m /\ ~Joining(t)'
    BY <1>1, <1>2 DEF JoinedOnce, Waiting
  <2>1. (serving[m] = t \/ Waiting(m, t)) \/ (m = m0 /\ t = s)
    BY <1>5 DEF Waiting
  <2>2. CASE serving[m] = t \/ Waiting(m, t)
    BY <1>2, <2>2 DEF ConnectionInv, JoinedOnce
  <2>3. CASE m = m0 /\ t = s
    BY <1>2, <1>3, <2>3 DEF m0
  <2>4. QED BY <2>1, <2>2, <2>3
<1>7. InTurn'
  <2> SUFFICES ASSUME NEW m \in Meters, NEW j \in 1..Len(backlog'[m]),
                      result[backlog'[m][j]] # "failed"
               PROVE  /\ serving[m] < backlog'[m][j]
                      /\ \A i \in 1..(j - 1) : backlog'[m][i] < backlog'[m][j]
                      /\ \A i \in 1..Len(executed[m]) :
                            executed[m][i].sess < backlog'[m][j]
    BY <1>1 DEF InTurn
  <2>1. CASE j \in 1..Len(backlog[m]) /\ backlog'[m][j] = backlog[m][j]
    <3>1. \A i \in 1..(j - 1) : backlog'[m][i] = backlog[m][i]
      BY <1>5, <2>1
    <3>2. QED BY <2>1, <3>1 DEF ConnectionInv, InTurn
  <2>2. CASE j = Len(backlog[m]) + 1 /\ backlog'[m][j] = s
    <3>1. result[s] = "none"
      BY <1>3, <2>2 DEF TypeOK, HesTypeOK
    <3>2. s = cur BY <1>3, <3>1 DEF CleanupInv, SessionOK
    <3>3. \A t \in Sockets : sock[t] # "new" /\ t # s => t < s
      BY <3>2 DEF CleanupInv, SessionOK, Sockets, TypeOK, HesTypeOK
    <3>4. serving[m] < s
      <4>1. CASE serving[m] = NoSocket BY <4>1 DEF NoSocket, Sockets
      <4>2. CASE serving[m] \in Sockets
        BY <1>4, <3>3, <4>2 DEF ConnectionInv, JoinedOnce
      <4>3. QED BY <4>1, <4>2 DEF TypeOK, MeterTypeOK
    <3>5. ASSUME NEW i \in 1..(j - 1) PROVE backlog'[m][i] < s
      <4>1. i \in 1..Len(backlog[m]) /\ backlog'[m][i] = backlog[m][i]
        BY <1>5, <2>2
      <4>2. backlog[m][i] \in Sockets /\ Waiting(m, backlog[m][i])
        BY <4>1, BacklogType DEF Waiting
      <4>3. QED BY <1>4, <3>3, <4>1, <4>2 DEF ConnectionInv, JoinedOnce
    <3>6. ASSUME NEW i \in 1..Len(executed[m]) PROVE executed[m][i].sess < s
      <4>1. /\ executed[m][i].sess \in Sockets /\ result[executed[m][i].sess] = "ok"
            /\ sock[executed[m][i].sess] # "new"
        BY PerformedEarlier
      <4>2. QED BY <3>1, <3>3, <4>1
    <3>7. QED BY <2>2, <3>4, <3>5, <3>6
  <2>3. QED BY <1>5, <2>1, <2>2
<1>8. OneCommand' BY <1>1 DEF ConnectionInv, OneCommand
<1>9. PerformedInOrder' BY <1>1 DEF ConnectionInv, PerformedInOrder
<1>10. QED BY <1>6, <1>7, <1>8, <1>9 DEF ConnectionInv

LEMMA NetworkConnection ==
    ASSUME TypeOK, CommandInv, CleanupInv, ConnectionInv, NEW s \in Sockets,
           Resolve(s) \/ ConnectSucceeds(s) \/ ConnectRefused(s) \/ Receive(s)
    PROVE  ConnectionInv'
<1>1. CASE ConnectSucceeds(s) BY <1>1, ConnectConnection
<1>2. CASE Resolve(s) \/ ConnectRefused(s) \/ Receive(s)
  <2>1. UNCHANGED <<serving, backlog, executed, up, req, result>>
    BY <1>2 DEF Resolve, ConnectRefused, Receive, meterVars, hesVars
  <2>2. OneCommand' BY <2>1 DEF ConnectionInv, OneCommand
  <2>3. QED BY <2>1, <2>2, NetworkJoining, SameConnections
<1>3. QED BY <1>1, <1>2

(* A meter's process: what it accepts was first in turn, what it performs  *)
(* it takes off its stream, and what it drops is dropped with its streams. *)
LEMMA AcceptConnection ==
    ASSUME TypeOK, CommandInv, CleanupInv, ConnectionInv, NEW m \in Meters,
           ASIO_Accept_Handler(m), UNCHANGED <<socketVars, hesVars>>
    PROVE  ConnectionInv'
<1> DEFINE s0 == Head(backlog[m])
           n == Len(backlog[m])
<1>1. /\ backlog[m] \in Seq(Sockets) /\ backlog[m] # <<>>
      /\ UNCHANGED <<executed, up, req, result, asked, sock, op, ready>>
      /\ \A k \in Meters \ {m} : serving'[k] = serving[k] /\ backlog'[k] = backlog[k]
      /\ serving'[m] = s0 /\ backlog'[m] = Tail(backlog[m])
  BY DEF ASIO_Accept_Handler, socketVars, hesVars, TypeOK, MeterTypeOK
<1>2. /\ n \in Nat /\ n > 0 /\ s0 = backlog[m][1] /\ s0 \in Sockets
      /\ Len(backlog'[m]) = n - 1
      /\ \A j \in 1..(n - 1) : backlog'[m][j] = backlog[m][j + 1]
  BY <1>1, HeadTailProperties, LenProperties, EmptySeq
<1> HIDE DEF s0, n
<1>3. Queued' = Queued BY <1>1 DEF Queued
<1>4. JoinedOnce'
  <2> SUFFICES ASSUME NEW k \in Meters, NEW t \in Sockets,
                      \/ serving'[k] = t
                      \/ \E i \in 1..Len(backlog'[k]) : backlog'[k][i] = t
               PROVE  serving[k] = t \/ Waiting(k, t)
    BY <1>1, <1>3 DEF ConnectionInv, JoinedOnce, Waiting, Joining
  <2>1. CASE k # m BY <1>1, <2>1 DEF Waiting
  <2>2. CASE k = m
    <3>1. CASE serving'[k] = t
      <4>1. 1 \in 1..Len(backlog[m]) /\ backlog[m][1] = t
        BY <1>1, <1>2, <2>2, <3>1 DEF n
      <4>2. QED BY <2>2, <4>1 DEF Waiting
    <3>2. ASSUME NEW i \in 1..Len(backlog'[m]), backlog'[m][i] = t
          PROVE  Waiting(m, t)
      <4>1. i + 1 \in 1..Len(backlog[m]) /\ backlog[m][i + 1] = t
        BY <1>2, <3>2 DEF n
      <4>2. QED BY <4>1 DEF Waiting
    <3>3. QED BY <2>2, <3>1, <3>2
  <2>3. QED BY <2>1, <2>2
<1>5. InTurn'
  <2> SUFFICES ASSUME NEW k \in Meters, NEW j \in 1..Len(backlog'[k]),
                      result[backlog'[k][j]] # "failed"
               PROVE  /\ serving'[k] < backlog'[k][j]
                      /\ \A i \in 1..(j - 1) : backlog'[k][i] < backlog'[k][j]
                      /\ \A i \in 1..Len(executed[k]) :
                            executed[k][i].sess < backlog'[k][j]
    BY <1>1 DEF InTurn
  <2>1. CASE k # m
    BY <1>1, <2>1 DEF ConnectionInv, InTurn
  <2>2. CASE k = m
    <3>1. j + 1 \in 1..Len(backlog[m]) /\ backlog'[m][j] = backlog[m][j + 1]
      BY <1>2, <2>2 DEF n
    <3>2. /\ \A i \in 1..j : backlog[m][i] < backlog[m][j + 1]
          /\ \A i \in 1..Len(executed[m]) : executed[m][i].sess < backlog[m][j + 1]
      <4>1. j + 1 - 1 = j BY <3>1
      <4>2. QED BY <2>2, <3>1, <4>1 DEF ConnectionInv, InTurn
    <3>3. s0 < backlog'[m][j] BY <1>2, <3>1, <3>2
    <3>4. ASSUME NEW i \in 1..(j - 1) PROVE backlog'[m][i] < backlog'[m][j]
      <4>1. i \in 1..(n - 1) /\ i + 1 \in 1..j BY <1>2, <2>2
      <4>2. QED BY <1>2, <3>1, <3>2, <4>1
    <3>5. QED BY <1>1, <2>2, <3>1, <3>2, <3>3, <3>4
  <2>3. QED BY <2>1, <2>2
<1>6. OneCommand'
  <2> SUFFICES ASSUME NEW s \in Sockets, NEW i \in 1..Len(up[s]), up[s][i] \in Commands,
                      NEW k \in Meters, NEW j \in 1..Len(executed[k]), serving'[k] = s
               PROVE  executed[k][j].sess < s
    BY <1>1 DEF ConnectionInv, OneCommand
  <2>1. CASE k # m BY <1>1, <2>1 DEF ConnectionInv, OneCommand
  <2>2. CASE k = m
    <3>1. result[s] = "ok" BY DEF CommandInv, StreamCarriesAsked, AskedReturnedTrue
    <3>2. 1 \in 1..Len(backlog[m]) /\ backlog[m][1] = s
      BY <1>1, <1>2, <2>2 DEF n
    <3>3. QED BY <2>2, <3>1, <3>2 DEF ConnectionInv, InTurn
  <2>3. QED BY <2>1, <2>2
<1>7. PerformedInOrder' BY <1>1 DEF ConnectionInv, PerformedInOrder
<1>8. QED BY <1>4, <1>5, <1>6, <1>7 DEF ConnectionInv

(* Where a meter loses connections and streams lose what they carried.     *)
LEMMA DropConnection ==
    ASSUME TypeOK, CommandInv, ConnectionInv,
           UNCHANGED <<socketVars, hesVars, executed>>,
           \A m \in Meters : serving'[m] \in {serving[m], NoSocket},
           \A m \in Meters : backlog'[m] \in {backlog[m], <<>>},
           \A s \in Sockets : up'[s] \in {up[s], <<>>, <<"RST">>}
    PROVE  ConnectionInv'
<1>1. UNCHANGED <<executed, req, result, sock, op, ready>> /\ Queued' = Queued
  BY DEF socketVars, hesVars, Queued
<1>2. JoinedOnce'
  <2>1. \A m \in Meters, s \in Sockets :
            serving'[m] = s \/ Waiting(m, s)' => serving[m] = s \/ Waiting(m, s)
    <3>1. NoSocket \notin Sockets BY DEF NoSocket, Sockets
    <3>2. QED BY <3>1 DEF Waiting
  <2>2. QED BY <1>1, <2>1 DEF ConnectionInv, JoinedOnce, Joining
<1>3. InTurn'
  <2> SUFFICES ASSUME NEW m \in Meters, NEW j \in 1..Len(backlog'[m]),
                      result[backlog'[m][j]] # "failed"
               PROVE  /\ serving'[m] < backlog'[m][j]
                      /\ \A i \in 1..(j - 1) : backlog'[m][i] < backlog'[m][j]
                      /\ \A i \in 1..Len(executed[m]) :
                            executed[m][i].sess < backlog'[m][j]
    BY <1>1 DEF InTurn
  <2>1. backlog'[m] = backlog[m] BY EmptySeq
  <2>2. backlog[m][j] \in Sockets BY <2>1, BacklogType
  <2>3. NoSocket < backlog[m][j] BY <2>2 DEF NoSocket, Sockets
  <2>4. QED BY <2>1, <2>3 DEF ConnectionInv, InTurn
<1>4. OneCommand'
  <2> SUFFICES ASSUME NEW s \in Sockets, NEW i \in 1..Len(up'[s]), up'[s][i] \in Commands
               PROVE  /\ up'[s][i] = req[s].cmd
                      /\ \A j \in 1..Len(up'[s]) : up'[s][j] \in Commands => j = i
                      /\ \A m \in Meters : \A j \in 1..Len(executed[m]) :
                            serving'[m] = s => executed[m][j].sess < s
    BY <1>1 DEF OneCommand
  <2>1. up'[s] = up[s]
    <3>1. up'[s] # <<>> BY EmptySeq
    <3>2. up'[s] # <<"RST">> BY DEF Commands
    <3>3. QED BY <3>1, <3>2
  <2>2. NoSocket # s BY DEF NoSocket, Sockets
  <2>3. QED BY <2>1, <2>2 DEF ConnectionInv, OneCommand
<1>5. PerformedInOrder' BY <1>1 DEF ConnectionInv, PerformedInOrder
<1>6. QED BY <1>2, <1>3, <1>4, <1>5 DEF ConnectionInv

(* A segment is taken off the stream that a meter serves.                  *)
LEMMA ConsumedStream ==
    ASSUME TypeOK, NEW m \in Meters, NEW segments, NEW reply,
           Incoming(m, segments), Answer(m, reply)
    PROVE  LET s0 == serving[m] IN
           /\ s0 \in Sockets /\ up[s0] \in Seq(ToMeter) /\ up[s0] # <<>>
           /\ Head(up[s0]) = up[s0][1] /\ up[s0][1] \in segments /\ 1 \in 1..Len(up[s0])
           /\ up'[s0] = Tail(up[s0])
           /\ \A i \in 1..Len(up'[s0]) :
                 i + 1 \in 1..Len(up[s0]) /\ up'[s0][i] = up[s0][i + 1]
           /\ \A s \in Sockets \ {s0} : up'[s] = up[s]
<1> DEFINE s0 == serving[m]
<1>1. s0 \in Sockets /\ up[s0] \in Seq(ToMeter) /\ up[s0] # <<>> /\ Head(up[s0]) \in segments
  BY DEF Incoming, TypeOK, MeterTypeOK
<1>2. up'[s0] = Tail(up[s0]) /\ \A s \in Sockets \ {s0} : up'[s] = up[s]
  BY <1>1 DEF Answer, TypeOK, MeterTypeOK
<1> HIDE DEF s0
<1>3. Head(up[s0]) = up[s0][1] /\ 1 \in 1..Len(up[s0])
  BY <1>1, LenProperties, EmptySeq
<1>4. \A i \in 1..Len(up'[s0]) : i + 1 \in 1..Len(up[s0]) /\ up'[s0][i] = up[s0][i + 1]
  BY <1>1, <1>2, TailElements
<1>5. QED BY <1>1, <1>2, <1>3, <1>4 DEF s0

LEMMA OpenReleaseConnection ==
    ASSUME TypeOK, CommandInv, CleanupInv, ConnectionInv, NEW m \in Meters,
           OpenRequest(m) \/ ReleaseRequest(m), UNCHANGED <<socketVars, hesVars>>
    PROVE  ConnectionInv'
<1>1. /\ UNCHANGED <<serving, backlog, executed, req, result, sock>>
      /\ \A s \in Sockets : Joining(s)' => Joining(s)
  BY DEF OpenRequest, ReleaseRequest, socketVars, hesVars, Joining, Queued
<1>2. PICK segments, reply : Incoming(m, segments) /\ Answer(m, reply)
  BY DEF OpenRequest, ReleaseRequest
<1>3. /\ \A i \in 1..Len(up'[serving[m]]) :
            /\ i + 1 \in 1..Len(up[serving[m]])
            /\ up'[serving[m]][i] = up[serving[m]][i + 1]
      /\ \A s \in Sockets \ {serving[m]} : up'[s] = up[s]
  BY <1>2, ConsumedStream
<1>4. OneCommand'
  <2> SUFFICES ASSUME NEW s \in Sockets, NEW i \in 1..Len(up'[s]), up'[s][i] \in Commands
               PROVE  /\ up'[s][i] = req[s].cmd
                      /\ \A j \in 1..Len(up'[s]) : up'[s][j] \in Commands => j = i
                      /\ \A k \in Meters : \A j \in 1..Len(executed[k]) :
                            serving[k] = s => executed[k][j].sess < s
    BY <1>1 DEF OneCommand
  <2>1. CASE s # serving[m]
    BY <1>3, <2>1 DEF ConnectionInv, OneCommand
  <2>2. CASE s = serving[m]
    <3>1. i + 1 \in 1..Len(up[s]) /\ up[s][i + 1] \in Commands /\ up'[s][i] = up[s][i + 1]
      BY <1>3, <2>2
    <3>2. ASSUME NEW j \in 1..Len(up'[s]), up'[s][j] \in Commands PROVE j = i
      <4>1. j + 1 \in 1..Len(up[s]) /\ up[s][j + 1] \in Commands
        BY <1>3, <2>2, <3>2
      <4>2. j + 1 = i + 1 BY <3>1, <4>1 DEF ConnectionInv, OneCommand
      <4>3. QED BY <4>2
    <3>3. QED BY <3>1, <3>2 DEF ConnectionInv, OneCommand
  <2>3. QED BY <2>1, <2>2
<1>5. QED BY <1>1, <1>4, SameConnections

(* The command that heads a stream is the one the call was made for, and   *)
(* nothing of this call or a later one has been performed by the meter.    *)
LEMMA PerformConnection ==
    ASSUME TypeOK, CommandInv, CleanupInv, ConnectionInv, NEW m \in Meters,
           InternalAction(m), UNCHANGED <<socketVars, hesVars>>
    PROVE  /\ Invoked(m) \in Execution /\ Invoked(m).sess = serving[m]
           /\ asked[serving[m]]
           /\ req[serving[m]] = [meter |-> m, cmd |-> Invoked(m).cmd]
           /\ \A j \in 1..Len(executed[m]) : executed[m][j].sess < serving[m]
           /\ ConnectionInv'
<1> DEFINE s0 == serving[m]
           x == Invoked(m)
<1>1. /\ UNCHANGED <<serving, backlog, req, result, asked, sock>>
      /\ \A s \in Sockets : Joining(s)' => Joining(s)
  BY DEF InternalAction, socketVars, hesVars, Joining, Queued
<1>2. /\ s0 \in Sockets /\ up[s0][1] \in Commands /\ 1 \in 1..Len(up[s0])
      /\ Head(up[s0]) = up[s0][1]
      /\ \A i \in 1..Len(up'[s0]) :
            i + 1 \in 1..Len(up[s0]) /\ up'[s0][i] = up[s0][i + 1]
      /\ \A s \in Sockets \ {s0} : up'[s] = up[s]
  BY ConsumedStream DEF InternalAction
<1>3. x \in Execution /\ x.sess = s0 /\ x.cmd = up[s0][1]
  BY <1>2 DEF Invoked, Execution
<1> HIDE DEF s0, x
<1>4. asked[s0] BY <1>2 DEF CommandInv, StreamCarriesAsked
<1>5. req[s0] = [meter |-> m, cmd |-> x.cmd]
  <2>1. req[s0].cmd = x.cmd BY <1>2, <1>3 DEF ConnectionInv, OneCommand
  <2>2. req[s0].meter = m BY <1>2 DEF ConnectionInv, JoinedOnce, s0
  <2>3. req[s0] \in Requests
    <3>1. req[s0] # NoRequest BY <1>2, <1>3, <2>1 DEF NoRequest, Commands
    <3>2. QED BY <1>2, <3>1 DEF TypeOK, HesTypeOK
  <2>4. QED BY <2>1, <2>2, <2>3 DEF Requests
<1>6. \A j \in 1..Len(executed[m]) : executed[m][j].sess < s0
  BY <1>2 DEF ConnectionInv, OneCommand, s0
<1>7. \/ executed' = executed
      \/ executed' = [executed EXCEPT ![m] = Append(@, x)]
  BY DEF InternalAction, x
<1>8. /\ \A k \in Meters \ {m} : executed'[k] = executed[k]
      /\ executed[m] \in Seq(Execution)
      /\ \/ executed'[m] = executed[m]
         \/ executed'[m] = Append(executed[m], x)
  BY <1>7 DEF TypeOK, MeterTypeOK
<1>9. \/ executed'[m] = executed[m]
      \/ /\ Len(executed'[m]) = Len(executed[m]) + 1 /\ Len(executed[m]) \in Nat
         /\ \A i \in 1..Len(executed[m]) : executed'[m][i] = executed[m][i]
         /\ executed'[m][Len(executed[m]) + 1] = x
  <2>1. /\ Len(Append(executed[m], x)) = Len(executed[m]) + 1
        /\ Len(executed[m]) \in Nat
    BY <1>3, <1>8, AppendProperties, LenProperties
  <2>2. \A i \in 1..Len(executed[m]) : Append(executed[m], x)[i] = executed[m][i]
    BY <1>3, <1>8, AppendProperties
  <2>3. Append(executed[m], x)[Len(executed[m]) + 1] = x
    BY <1>3, <1>8, AppendProperties
  <2>4. QED BY <1>8, <2>1, <2>2, <2>3
<1>10. \A i \in 1..Len(executed'[m]) :
          \/ i \in 1..Len(executed[m]) /\ executed'[m][i] = executed[m][i]
          \/ i = Len(executed[m]) + 1 /\ executed'[m][i] = x
  BY <1>9
<1>11. JoinedOnce' BY <1>1 DEF ConnectionInv, JoinedOnce, Waiting
<1>12. InTurn'
  <2> SUFFICES ASSUME NEW k \in Meters, NEW j \in 1..Len(backlog[k]),
                      result[backlog[k][j]] # "failed"
               PROVE  /\ serving[k] < backlog[k][j]
                      /\ \A i \in 1..(j - 1) : backlog[k][i] < backlog[k][j]
                      /\ \A i \in 1..Len(executed'[k]) :
                            executed'[k][i].sess < backlog[k][j]
    BY <1>1 DEF InTurn
  <2>1. /\ serving[k] < backlog[k][j]
        /\ \A i \in 1..(j - 1) : backlog[k][i] < backlog[k][j]
        /\ \A i \in 1..Len(executed[k]) : executed[k][i].sess < backlog[k][j]
    BY DEF ConnectionInv, InTurn
  <2>2. ASSUME NEW i \in 1..Len(executed'[k])
        PROVE  executed'[k][i].sess < backlog[k][j]
    <3>1. CASE k # m BY <1>8, <2>1, <3>1
    <3>2. CASE k = m BY <1>3, <1>10, <2>1, <3>2 DEF s0
    <3>3. QED BY <3>1, <3>2
  <2>3. QED BY <2>1, <2>2
<1>13. OneCommand'
  <2> SUFFICES ASSUME NEW s \in Sockets, NEW i \in 1..Len(up'[s]), up'[s][i] \in Commands
               PROVE  /\ up'[s][i] = req[s].cmd
                      /\ \A j \in 1..Len(up'[s]) : up'[s][j] \in Commands => j = i
                      /\ \A k \in Meters : \A j \in 1..Len(executed'[k]) :
                            serving[k] = s => executed'[k][j].sess < s
    BY <1>1 DEF OneCommand
  <2>1. s # s0
    <3> SUFFICES ASSUME s = s0 PROVE FALSE OBVIOUS
    <3>1. i + 1 \in 1..Len(up[s0]) /\ up[s0][i + 1] \in Commands BY <1>2
    <3>2. i + 1 = 1 BY <1>2, <3>1 DEF ConnectionInv, OneCommand
    <3>3. QED BY <3>2
  <2>2. up'[s] = up[s] BY <1>2, <2>1
  <2>3. ASSUME NEW k \in Meters, NEW j \in 1..Len(executed'[k]), serving[k] = s
        PROVE  executed'[k][j].sess < s
    <3>1. k # m BY <2>1, <2>3 DEF s0
    <3>2. QED BY <1>8, <2>2, <2>3, <3>1 DEF ConnectionInv, OneCommand
  <2>4. QED BY <2>2, <2>3 DEF ConnectionInv, OneCommand
<1>14. PerformedInOrder'
  <2> SUFFICES ASSUME NEW k \in Meters, NEW i \in 1..Len(executed'[k])
               PROVE  /\ req[executed'[k][i].sess] = [meter |-> k, cmd |-> executed'[k][i].cmd]
                      /\ \A j \in 1..(i - 1) : executed'[k][j].sess < executed'[k][i].sess
    BY <1>1, Zenon DEF PerformedInOrder
  <2>1. CASE k # m BY <1>8, <2>1 DEF ConnectionInv, PerformedInOrder
  <2>2. CASE k = m /\ i \in 1..Len(executed[m]) /\ executed'[m][i] = executed[m][i]
    <3>1. \A j \in 1..(i - 1) : executed'[m][j] = executed[m][j]
      BY <1>9, <2>2
    <3>2. QED BY <2>2, <3>1 DEF ConnectionInv, PerformedInOrder
  <2>3. CASE k = m /\ i = Len(executed[m]) + 1 /\ executed'[m][i] = x
    <3>1. \A j \in 1..(i - 1) : j \in 1..Len(executed[m]) /\ executed'[m][j] = executed[m][j]
      BY <1>9, <2>3
    <3>2. QED BY <1>3, <1>5, <1>6, <2>3, <3>1
  <2>4. QED BY <1>10, <2>1, <2>2, <2>3
<1>15. ConnectionInv' BY <1>11, <1>12, <1>13, <1>14 DEF ConnectionInv
<1>16. QED BY <1>3, <1>4, <1>5, <1>6, <1>15 DEF s0, x

LEMMA ProcessConnection ==
    ASSUME TypeOK, CommandInv, CleanupInv, ConnectionInv, NEW m \in Meters,
           Meter(m) \/ MeterFails(m)
    PROVE  ConnectionInv'
<1>1. UNCHANGED <<socketVars, hesVars>> BY DEF Meter, MeterFails
<1>2. CASE ASIO_Accept_Handler(m) BY <1>1, <1>2, AcceptConnection
<1>3. CASE OpenRequest(m) \/ ReleaseRequest(m) BY <1>1, <1>3, OpenReleaseConnection
<1>4. CASE InternalAction(m) BY <1>1, <1>4, PerformConnection
<1>5. CASE \/ Server_Handler(m) \/ Server_Handler_Fails(m)
           \/ Accept_Handler_Throws(m) \/ Restart(m)
  <2>1. /\ executed' = executed
        /\ \A k \in Meters : serving'[k] \in {serving[k], NoSocket}
    BY <1>5 DEF Server_Handler, Server_Handler_Fails, Accept_Handler_Throws, Restart,
                TypeOK, MeterTypeOK
  <2>2. /\ \A k \in Meters : backlog'[k] \in {backlog[k], <<>>}
        /\ \A s \in Sockets : up'[s] \in {up[s], <<>>, <<"RST">>}
    <3>1. CASE UNCHANGED <<backlog, up>> BY <3>1
    <3>2. CASE EndOfSockets(m) BY <3>2 DEF EndOfSockets, TypeOK, MeterTypeOK
    <3>3. QED
      BY <1>5, <3>1, <3>2
      DEF Server_Handler, Server_Handler_Fails, Accept_Handler_Throws, Restart
  <2>3. QED BY <1>1, <2>1, <2>2, DropConnection
<1>6. QED
  BY <1>2, <1>3, <1>4, <1>5 DEF Meter, MeterFails, MeterStep, MeterFault

LEMMA InitConnection == Init => ConnectionInv
<1> SUFFICES ASSUME Init PROVE ConnectionInv OBVIOUS
<1>1. /\ \A m \in Meters : Len(backlog[m]) = 0 /\ Len(executed[m]) = 0
      /\ \A s \in Sockets : Len(up[s]) = 0
  BY EmptySeq DEF Init, MeterInit
<1>2. \A m \in Meters, s \in Sockets : serving[m] # s /\ ~Waiting(m, s)
  BY <1>1 DEF Init, MeterInit, NoSocket, Sockets, Waiting
<1>3. QED
  BY <1>1, <1>2 DEF ConnectionInv, JoinedOnce, InTurn, OneCommand, PerformedInOrder

LEMMA NextConnection ==
    TypeOK /\ CommandInv /\ CleanupInv /\ ConnectionInv /\ [Next]_vars => ConnectionInv'
<1> SUFFICES ASSUME TypeOK, CommandInv, CleanupInv, ConnectionInv, [Next]_vars
             PROVE  ConnectionInv'
  OBVIOUS
<1>1. ASSUME NEW m \in Meters, NEW c \in Commands, Begin(m, c) \/ BeginFails(m, c)
      PROVE  ConnectionInv'
  BY <1>1, CallConnection
<1>2. CASE HesStep BY <1>2, HesStepConnection
<1>3. CASE NetworkStep BY <1>3, NetworkConnection DEF NetworkStep
<1>4. ASSUME NEW s \in Sockets, Reset(s) PROVE ConnectionInv'
  <2>1. /\ UNCHANGED <<socketVars, hesVars, serving, backlog, executed>>
        /\ \A t \in Sockets : up'[t] \in {up[t], <<"RST">>}
    BY <1>4 DEF Reset, ConnectionReset, TypeOK, MeterTypeOK
  <2>2. QED BY <2>1, DropConnection
<1>5. ASSUME NEW m \in Meters, Meter(m) \/ MeterFails(m) PROVE ConnectionInv'
  BY <1>5, ProcessConnection
<1>6. CASE UNCHANGED vars
  BY <1>6, DropConnection DEF vars, meterVars
<1>7. QED BY <1>1, <1>2, <1>3, <1>4, <1>5, <1>6 DEF Next

HeadEndInv == TypeOK /\ CommandInv /\ CleanupInv /\ ConnectionInv

LEMMA HeadEndInvariant == Spec => []HeadEndInv
<1>1. Init => HeadEndInv
  BY InitType, InitCommand, InitCleanup, InitConnection DEF HeadEndInv
<1>2. HeadEndInv /\ [Next]_vars => HeadEndInv'
  BY NextType, NextCommand, NextCleanup, NextConnection DEF HeadEndInv
<1>3. QED BY <1>1, <1>2, PTL DEF Spec

(* A meter performs each call's command at most once, as it was requested, *)
(* and in the order of the calls.                                          *)
THEOREM IsPerformedInOrder == Spec => []PerformedInOrder
<1>1. HeadEndInv => PerformedInOrder BY DEF HeadEndInv, ConnectionInv
<1>2. QED BY <1>1, HeadEndInvariant, PTL

-----------------------------------------------------------------------------
(* HeadEnd implements CommandRelay.                                        *)

(* The relay's calls and commands are the head end's.                      *)
LEMMA SameVocabulary ==
    Relay!Sockets = Sockets /\ Relay!Commands = Commands
BY DEF Relay!Sockets, Sockets, Relay!Commands, Commands

LEMMA InitRelay == Init => Relay!RelayInit
<1> SUFFICES ASSUME Init PROVE Relay!RelayInit OBVIOUS
<1>1. Outcome = [s \in Sockets |-> "none"] BY DEF Outcome, Init
<1>2. {s \in Sockets : asked[s]} = {} BY DEF Init
<1>3. req = [s \in Sockets |-> Relay!NotCalled]
  BY DEF Init, NoRequest, Relay!NotCalled
<1>4. executed = [m \in Meters |-> <<>>] BY DEF Init, MeterInit
<1>5. QED BY <1>1, <1>2, <1>3, <1>4, SameVocabulary DEF Relay!RelayInit

(* A call that begins is accepted, as pending or as failed at once.        *)
LEMMA CallRelay ==
    ASSUME HeadEndInv, NEW m \in Meters, NEW c \in Commands,
           Begin(m, c) \/ BeginFails(m, c)
    PROVE  Relay!RelayNext
<1> USE DEF HeadEndInv
<1> DEFINE n == cur + 1
           w == [meter |-> m, cmd |-> c]
<1>1. /\ n \in Sockets /\ cur \in Int /\ cur' = n /\ pc = "idle" /\ sock[n] = "new"
      /\ \A s \in Sockets : s \in Int
  BY MaxSocketsAssumption
  DEF Begin, BeginFails, Call, CreateSocket, TypeOK, HesTypeOK, Sockets
<1>2. req' = [req EXCEPT ![n] = w] /\ w \in Relay!Wanted
  BY SameVocabulary DEF Begin, BeginFails, Call, Relay!Wanted
<1>3. asked' = asked /\ executed' = executed
  BY DEF Begin, BeginFails, meterVars
<1> HIDE DEF w
<1>4. \A t \in Sockets : Outcome[t] = result[t] /\ result[t] # "pending"
  BY <1>1 DEF Outcome, TypeOK, HesTypeOK
<1>5. Outcome[n] = "none" BY <1>1, <1>4 DEF CleanupInv, SessionOK
<1>6. \A t \in Sockets : t < n => Outcome[t] # "none"
  <2> SUFFICES ASSUME NEW t \in Sockets, t < n PROVE result[t] # "none"
    BY <1>4
  <2>1. sock[t] # "new" BY <1>1 DEF CleanupInv, SessionOK
  <2>2. QED BY <1>1, <2>1 DEF CleanupInv, SessionOK
<1>7. PICK now \in {"pending", "failed"} :
          \A s \in Sockets : Outcome'[s] = IF s = n THEN now ELSE Outcome[s]
  <2>1. CASE Begin(m, c)
    <3>1. pc' = "connect" /\ result' = result BY <2>1 DEF Begin
    <3>2. \A s \in Sockets : Outcome'[s] = IF s = n THEN "pending" ELSE Outcome[s]
      BY <1>1, <1>4, <3>1 DEF Outcome
    <3>3. QED BY <3>2
  <2>2. CASE BeginFails(m, c)
    <3>1. pc' = "idle" /\ result' = [result EXCEPT ![n] = "failed"]
      BY <1>1, <2>2 DEF BeginFails
    <3>2. \A s \in Sockets : Outcome'[s] = IF s = n THEN "failed" ELSE Outcome[s]
      BY <1>1, <1>4, <3>1 DEF Outcome, TypeOK, HesTypeOK
    <3>3. QED BY <3>2
  <2>3. QED BY <2>1, <2>2
<1>8. Outcome' = [Outcome EXCEPT ![n] = now] BY <1>1, <1>7 DEF Outcome
<1> HIDE DEF n
<1>9. Relay!Accept(n, w, now)
  BY <1>2, <1>3, <1>4, <1>5, <1>6, <1>8, SameVocabulary
  DEF Relay!Accept
<1>10. QED BY <1>1, <1>2, <1>9, SameVocabulary DEF Relay!RelayNext

(* A call that gives up fails, and one that gets to its end succeeds.      *)
LEMMA ReturnRelay ==
    ASSUME HeadEndInv, GiveUp \/ Command \/ CommandRefused \/ FallThrough
    PROVE  Relay!RelayNext
<1> USE DEF HeadEndInv
<1>1. /\ pc # "idle" /\ pc' = "idle" /\ cur \in Sockets
      /\ UNCHANGED <<cur, req, executed>>
  BY DEF GiveUp, Command, CommandRefused, FallThrough, Finish, meterVars,
         TypeOK, HesTypeOK
<1>2. Outcome[cur] = "pending" BY <1>1 DEF Outcome
<1>3. CASE GiveUp
  <2>1. result' = [result EXCEPT ![cur] = "failed"] /\ asked' = asked
    BY <1>3 DEF GiveUp
  <2>2. Outcome' = [Outcome EXCEPT ![cur] = "failed"]
    BY <1>1, <2>1 DEF Outcome, TypeOK, HesTypeOK
  <2>3. Relay!Fail(cur) BY <1>1, <1>2, <2>1, <2>2 DEF Relay!Fail
  <2>4. QED BY <1>1, <2>3, SameVocabulary DEF Relay!RelayNext
<1>4. CASE Command \/ CommandRefused \/ FallThrough
  <2>1. result' = [result EXCEPT ![cur] = "ok"]
    BY <1>4 DEF Command, CommandRefused, FallThrough, Finish, Returned
  <2>2. Outcome' = [Outcome EXCEPT ![cur] = "ok"]
    BY <1>1, <2>1 DEF Outcome, TypeOK, HesTypeOK
  <2>3. {s \in Sockets : asked'[s]} \in
            {{s \in Sockets : asked[s]}, {s \in Sockets : asked[s]} \cup {cur}}
    <3>1. CASE asked' = asked BY <3>1
    <3>2. CASE asked' = [asked EXCEPT ![cur] = TRUE]
      <4>1. {s \in Sockets : asked'[s]} = {s \in Sockets : asked[s]} \cup {cur}
        BY <1>1, <3>2 DEF TypeOK, HesTypeOK
      <4>2. QED BY <4>1
    <3>3. QED BY <1>4, <3>1, <3>2 DEF Command, CommandRefused, FallThrough
  <2>4. cur \in Relay!Sockets BY <1>1, SameVocabulary
  <2>5. QED BY <1>1, <1>2, <2>2, <2>3, <2>4 DEF Relay!RelayNext, Relay!Succeed
<1>5. QED BY <1>3, <1>4

(* A meter that performs a command performs that of a call that sent it.   *)
LEMMA PerformRelay ==
    ASSUME HeadEndInv, NEW m \in Meters, InternalAction(m),
           UNCHANGED <<socketVars, hesVars>>, executed' # executed
    PROVE  Relay!RelayNext
<1> DEFINE s0 == serving[m]
<1>1. /\ Invoked(m).sess = s0 /\ asked[s0]
      /\ req[s0] = [meter |-> m, cmd |-> Invoked(m).cmd]
      /\ \A j \in 1..Len(executed[m]) : executed[m][j].sess < s0
  BY PerformConnection DEF HeadEndInv
<1>2. s0 \in Sockets
  BY DEF InternalAction, Incoming, HeadEndInv, TypeOK, MeterTypeOK
<1>3. executed' = [executed EXCEPT ![m] = Append(@, Invoked(m))]
  BY DEF InternalAction
<1>4. Invoked(m) = [sess |-> s0, cmd |-> req[s0].cmd] /\ req[s0].meter = m
  <2>1. Invoked(m) = [sess |-> s0, cmd |-> Invoked(m).cmd] BY DEF Invoked
  <2>2. QED BY <1>1, <2>1
<1>5. UNCHANGED <<req, asked>> /\ Outcome' = Outcome
  BY DEF hesVars, Outcome
<1> HIDE DEF s0
<1>6. Relay!Perform(s0)
  BY <1>1, <1>2, <1>3, <1>4, <1>5 DEF Relay!Perform
<1>7. QED BY <1>2, <1>6, SameVocabulary DEF Relay!RelayNext

LEMMA NextRelay == HeadEndInv /\ [Next]_vars => [Relay!RelayNext]_(Relay!relayVars)
<1> SUFFICES ASSUME HeadEndInv, [Next]_vars
             PROVE  Relay!RelayNext \/ UNCHANGED Relay!relayVars
  OBVIOUS
<1>1. ASSUME UNCHANGED <<req, asked, executed, cur, result>>, pc' = "idle" <=> pc = "idle"
      PROVE  UNCHANGED Relay!relayVars
  <2>1. Outcome' = Outcome BY <1>1 DEF Outcome
  <2>2. QED BY <1>1, <2>1 DEF Relay!relayVars
<1>2. ASSUME NEW m \in Meters, NEW c \in Commands, Begin(m, c) \/ BeginFails(m, c)
      PROVE  Relay!RelayNext
  BY <1>2, CallRelay
<1>3. CASE HesStep
  <2>1. CASE GiveUp \/ Command \/ CommandRefused \/ FallThrough BY <2>1, ReturnRelay
  <2>2. CASE Poll \/ HandlerThrows \/ Associate \/ ConnectAgain \/ AssociateAgain
    <3>1. /\ UNCHANGED <<req, asked, executed, cur, result>>
          /\ pc' = "idle" <=> pc = "idle"
      BY <2>2 DEF Poll, HandlerThrows, InLoop, Associate, ConnectAgain, AssociateAgain, meterVars
    <3>2. QED BY <1>1, <3>1
  <2>3. QED BY <1>3, <2>1, <2>2 DEF HesStep
<1>4. CASE UNCHANGED <<hesVars, executed>>
  BY <1>1, <1>4 DEF hesVars
<1>5. ASSUME NEW m \in Meters, Meter(m) \/ MeterFails(m)
      PROVE  Relay!RelayNext \/ UNCHANGED Relay!relayVars
  <2>1. CASE InternalAction(m) /\ executed' # executed
    BY <1>5, <2>1, PerformRelay DEF Meter, MeterFails
  <2>2. CASE executed' = executed
    BY <1>4, <1>5, <2>2 DEF Meter, MeterFails
  <2>3. QED
    BY <1>5, <2>1, <2>2 DEF Meter, MeterFails, MeterStep, MeterFault, Server_Handler,
       Server_Handler_Fails, ASIO_Accept_Handler, Accept_Handler_Throws,
       OpenRequest, ReleaseRequest, Restart
<1>6. CASE NetworkStep \/ (\E s \in Sockets : Reset(s)) \/ UNCHANGED vars
  <2>1. UNCHANGED <<hesVars, executed>>
    BY <1>6 DEF NetworkStep, Resolve, ConnectSucceeds, EstablishConnection,
       ConnectRefused, Receive, Reset, ConnectionReset, meterVars, vars
  <2>2. QED BY <1>4, <2>1
<1>7. QED BY <1>2, <1>3, <1>5, <1>6 DEF Next

(* The head end implements the relay: a call that fails commands nobody, a *)
(* call that succeeds commands its meter at most once, and a meter carries *)
(* commands out in the order of the calls.                                 *)
THEOREM RelayImplemented == Spec => ImplementsRelay
<1>1. Init => Relay!RelayInit BY InitRelay
<1>2. HeadEndInv /\ [Next]_vars => [Relay!RelayNext]_(Relay!relayVars) BY NextRelay
<1>3. QED
  BY <1>1, <1>2, HeadEndInvariant, PTL DEF Spec, ImplementsRelay, Relay!RelaySpec

-----------------------------------------------------------------------------
(* No command is lost.                                                     *)

(* A session whose connection, engine and call change in none of the ways  *)
(* listed keeps its part of the invariant.                                 *)
LEMMA DeliveryKept ==
    ASSUME TypeOK, NEW s \in Sockets, BeforeCommand(s), AfterCommand(s),
           pc' # "died" => pc # "died",
           result'[s] # "ok" => result[s] # "ok",
           asked'[s] => asked[s],
           up'[s] \in {up[s], <<>>, <<"RST">>},
           Associating(s) => Associating(s)',
           Alive /\ result[s] # "ok" /\ Heard(s)' =>
               /\ Heard(s)
               /\ Served(s) => Served(s)' \/ BrokenOff(s)'
               /\ BrokenOff(s) => BrokenOff(s)',
           asked[s] =>
               /\ Performed(s) => Performed(s)'
               /\ ReadNext(s) => \/ Performed(s)' \/ ReadNext(s)'
                                 \/ "reset" \in Faults /\ Gone(s)'
               /\ Gone(s) => Gone(s)'
    PROVE  BeforeCommand(s)' /\ AfterCommand(s)'
<1>1. BeforeCommand(s)' BY DEF BeforeCommand, Alive
<1>2. AfterCommand(s)' BY DEF AfterCommand
<1>3. QED BY <1>1, <1>2

(* A connection has one meter: while the meter that serves it has not let  *)
(* go of it, no other turns to it, and it is not in a backlog.             *)
LEMMA OneMeter ==
    ASSUME HeadEndInv, NEW s \in Sockets, NEW m \in Meters, serving[m] = s
    PROVE  /\ \A k \in Meters : serving[k] = s \/ Waiting(k, s) => k = m
           /\ result[s] # "failed" => ~Waiting(m, s)
<1>1. \A k \in Meters : serving[k] = s \/ Waiting(k, s) => k = m
  BY DEF HeadEndInv, ConnectionInv, JoinedOnce
<1>2. ASSUME result[s] # "failed", Waiting(m, s) PROVE FALSE
  <2>1. PICK j \in 1..Len(backlog[m]) : backlog[m][j] = s BY <1>2 DEF Waiting
  <2>2. serving[m] < s BY <1>2, <2>1 DEF HeadEndInv, ConnectionInv, InTurn
  <2>3. QED BY <2>2 DEF Sockets
<1>3. QED BY <1>1, <1>2

LEMMA NoSocketIsNone == NoSocket \notin Sockets
BY DEF NoSocket, Sockets

(* Before it associates and after it has returned, a call that did not     *)
(* return true hears of no association.                                    *)
LEMMA HeardOnlyAssociating ==
    ASSUME Alive, NEW s \in Sockets, BeforeCommand(s), result[s] # "ok", ~Associating(s)
    PROVE  ~Heard(s)
BY DEF BeforeCommand

LEMMA AskedIsIdle ==
    ASSUME HeadEndInv, NEW s \in Sockets, asked[s]
    PROVE  result[s] = "ok" /\ op[s] = "none" /\ sock[s] # "new"
<1>1. result[s] = "ok" /\ sock[s] # "new"
  BY DEF HeadEndInv, CommandInv, AskedReturnedTrue
<1>2. op[s] = "none" BY <1>1 DEF HeadEndInv, CleanupInv, OperationOK
<1>3. QED BY <1>1, <1>2

LEMMA CallDelivery ==
    ASSUME HeadEndInv, DeliveryInv, NEW m \in Meters, NEW c \in Commands,
           Begin(m, c) \/ BeginFails(m, c)
    PROVE  DeliveryInv'
<1>1. /\ UNCHANGED <<mode, serving, context, backlog, executed, up, down, assoc, asked, ready>>
      /\ pc = "idle" /\ pc' # "associate"
      /\ sock[cur + 1] = "new" /\ cur + 1 \in Sockets
      /\ req' = [req EXCEPT ![cur + 1] = [meter |-> m, cmd |-> c]]
      /\ \/ result' = result
         \/ result' = [result EXCEPT ![cur + 1] = "failed"]
  BY MaxSocketsAssumption
  DEF Begin, BeginFails, Call, CreateSocket, meterVars, HeadEndInv, TypeOK, HesTypeOK, Sockets
<1>2. ServingMode' BY <1>1 DEF DeliveryInv, ServingMode
<1>3. ASSUME NEW s \in Sockets PROVE BeforeCommand(s)' /\ AfterCommand(s)'
  <2>1. BeforeCommand(s) /\ AfterCommand(s) /\ ~Associating(s)
    BY <1>1 DEF DeliveryInv, Associating
  <2>2. result'[s] # "ok" => result[s] # "ok"
    <3>1. result[cur + 1] # "ok" BY <1>1 DEF HeadEndInv, CleanupInv, SessionOK
    <3>2. QED BY <1>1, <3>1 DEF HeadEndInv, TypeOK, HesTypeOK
  <2>3. Queued' = Queued BY <1>1 DEF Queued
  <2>4. result[s] # "ok" => ~Heard(s)'
    BY <1>1, <2>1, <2>3, HeardOnlyAssociating DEF Heard, Alive
  <2>5. asked[s] => /\ Performed(s) => Performed(s)'
                    /\ ReadNext(s) => ReadNext(s)'
                    /\ Gone(s) => Gone(s)'
    <3> SUFFICES ASSUME asked[s]
                 PROVE  /\ Performed(s) => Performed(s)'
                        /\ ReadNext(s) => ReadNext(s)'
                        /\ Gone(s) => Gone(s)'
      OBVIOUS
    <3>1. s # cur + 1 BY <1>1, AskedIsIdle
    <3>2. req'[s] = req[s] BY <1>1, <3>1 DEF HeadEndInv, TypeOK, HesTypeOK
    <3>3. QED BY <1>1, <3>2 DEF Performed, ReadNext, Gone, Joined, Waiting
  <2>6. TypeOK BY DEF HeadEndInv
  <2>7. QED BY <1>1, <2>1, <2>2, <2>4, <2>5, <2>6, DeliveryKept
<1>4. QED BY <1>2, <1>3 DEF DeliveryInv

(* What the poll hands to the engine was on its way; the end of a read     *)
(* that is called closes the transport.                                    *)
LEMMA PollDelivery ==
    ASSUME HeadEndInv, DeliveryInv, Poll
    PROVE  DeliveryInv'
<1> USE DEF HeadEndInv
<1>1. PICK h : h = Head(ready) OBVIOUS
<1>2. PollOne /\ Alive BY DEF Poll, InLoop, Alive
<1>3. /\ h \in Completions /\ h.sock \in Sockets /\ HandlerOK(h)
      /\ Queued = Queued' \cup {h}
  BY <1>1, <1>2, PollOneHandler
<1>4. /\ UNCHANGED <<mode, serving, context, backlog, executed, up, down, pc, cur, req, asked, result>>
      /\ assoc' = EngineHears(h)
  BY <1>1 DEF Poll, meterVars
<1>5. /\ \A s \in Sockets \ {h.sock} : transport'[s] = transport[s]
      /\ h.call = "read" => transport'[h.sock] =
            IF h.res = "error" /\ transport[h.sock] # "dead" THEN "closed"
            ELSE transport[h.sock]
  BY <1>1, <1>2, <1>3, HandlerEffect
<1>6. ServingMode' BY <1>4 DEF DeliveryInv, ServingMode
<1>7. ASSUME NEW s \in Sockets PROVE BeforeCommand(s)' /\ AfterCommand(s)'
  <2>1. BeforeCommand(s) /\ AfterCommand(s) BY DEF DeliveryInv
  <2>2. /\ Performed(s) => Performed(s)'
        /\ ReadNext(s) => ReadNext(s)'
        /\ Gone(s) => Gone(s)'
        /\ Served(s) => Served(s)'
    BY <1>4 DEF Performed, ReadNext, Gone, Served, Joined, Waiting
  <2>3. Associating(s) => Associating(s)' BY <1>4 DEF Associating
  <2>4. Heard(s)' => Heard(s)
    BY <1>3, <1>4 DEF Heard, EngineHears, TypeOK, HesTypeOK
  <2>5. ASSUME result[s] # "ok", Heard(s)', BrokenOff(s) PROVE BrokenOff(s)'
    <3>1. s = cur /\ transport[s] # "dead"
      BY <1>2, <2>1, <2>4, <2>5 DEF BeforeCommand, Associating, CleanupInv, CallOK
    <3>2. CASE Gone(s) BY <2>2, <2>5, <3>2 DEF BrokenOff
    <3>3. CASE transport[s] = "closed"
      <4>1. h.sock # s BY <1>3, <2>5, <3>3 DEF HandlerOK, Completions
      <4>2. QED BY <1>5, <2>5, <3>3, <4>1 DEF BrokenOff
    <3>4. ASSUME NEW c \in Queued, c.sock = s, c.call = "read", c.res = "error"
          PROVE  BrokenOff(s)'
      <4>1. CASE c = h BY <1>5, <2>5, <3>1, <3>4, <4>1 DEF BrokenOff
      <4>2. CASE c # h
        <5>1. c \in Queued' BY <1>3, <3>4, <4>2
        <5>2. QED BY <2>5, <3>4, <5>1 DEF BrokenOff
      <4>3. QED BY <4>1, <4>2
    <3>5. QED BY <2>5, <3>2, <3>3, <3>4 DEF BrokenOff
  <2>6. QED BY <1>4, <2>1, <2>2, <2>3, <2>4, <2>5, DeliveryKept
<1>8. QED BY <1>6, <1>7 DEF DeliveryInv

(* The process ends: what was asked stays ahead of the end of its stream.  *)
LEMMA ThrowsDelivery ==
    ASSUME HeadEndInv, DeliveryInv, HandlerThrows
    PROVE  DeliveryInv'
<1> USE DEF HeadEndInv
<1>1. /\ UNCHANGED <<mode, serving, context, backlog, executed, down, req, asked>>
      /\ pc' = "died" /\ up' = HangUp
  BY DEF HandlerThrows
<1>2. ServingMode' BY <1>1 DEF DeliveryInv, ServingMode
<1>3. ASSUME NEW s \in Sockets PROVE BeforeCommand(s)' /\ AfterCommand(s)'
  <2>1. BeforeCommand(s)' BY <1>1 DEF BeforeCommand, Alive
  <2>2. up'[s] = up[s] \/ (~Ended(up[s]) /\ up'[s] = Append(up[s], "FIN"))
    BY <1>1 DEF HangUp
  <2>3. up[s] \in Seq(ToMeter) /\ "FIN" \in ToMeter
    BY DEF TypeOK, MeterTypeOK, ToMeter
  <2>4. Performed(s) => Performed(s)' BY <1>1 DEF Performed
  <2>5. up[s] # <<>> => up'[s] # <<>> /\ Head(up'[s]) = Head(up[s])
    BY <2>2, <2>3
  <2>6. ReadNext(s) => ReadNext(s)' BY <1>1, <2>5 DEF ReadNext
  <2>7. up[s] = <<"RST">> => up'[s] = <<"RST">>
    <3>1. Len(<<"RST">>) = 1 /\ <<"RST">>[1] = "RST" OBVIOUS
    <3>2. QED BY <2>2, <3>1 DEF Ended
  <2>8. Gone(s) => Gone(s)' BY <1>1, <2>7 DEF Gone, Joined, Waiting
  <2>9. AfterCommand(s) BY DEF DeliveryInv
  <2>10. AfterCommand(s)' BY <1>1, <2>4, <2>6, <2>8, <2>9 DEF AfterCommand
  <2>11. QED BY <2>1, <2>10
<1>4. QED BY <1>2, <1>3 DEF DeliveryInv

(* The request for the association is all that a stream holds.             *)
LEMMA AssociateDelivery ==
    ASSUME HeadEndInv, DeliveryInv, Associate
    PROVE  DeliveryInv'
<1> USE DEF HeadEndInv
<1>1. /\ UNCHANGED <<socketVars, mode, serving, context, backlog, executed, down,
                     cur, req, assoc, asked, result>>
      /\ pc = "connect" /\ pc' = "associate" /\ cur \in Sockets
      /\ up' = Sent(cur, <<"AARQ">>)
  BY DEF Associate, TypeOK, HesTypeOK
<1>2. Queued' = Queued /\ transport' = transport BY <1>1 DEF socketVars, Queued
<1>3. ServingMode' BY <1>1 DEF DeliveryInv, ServingMode
<1>4. ASSUME NEW s \in Sockets PROVE BeforeCommand(s)' /\ AfterCommand(s)'
  <2>1. BeforeCommand(s) /\ AfterCommand(s) /\ ~Associating(s)
    BY <1>1 DEF DeliveryInv, Associating
  <2>2. result[s] # "ok" => ~Heard(s)'
    BY <1>1, <1>2, <2>1, HeardOnlyAssociating DEF Heard, Alive
  <2>3. CASE s = cur
    <3>1. ~asked'[s] /\ result[s] # "ok"
      BY <1>1, <2>3 DEF CommandInv, CallInProgressNotAsked, CleanupInv, CallOK
    <3>2. Associating(s)' BY <1>1, <2>3 DEF Associating
    <3>3. up[s] \in {<<>>, <<"RST">>} BY <1>1, <2>1, <3>1 DEF BeforeCommand, Alive
    <3>4. up'[s] \in {<<>>, <<"RST">>, <<"AARQ">>}
      <4>1. up'[s] = up[s] \/ up'[s] = up[s] \o <<"AARQ">>
        BY <1>1, <2>3 DEF Sent, TypeOK, MeterTypeOK
      <4>2. up'[s] # up[s] => ~Ended(up[s])
        BY <1>1, <2>3 DEF Sent, TypeOK, MeterTypeOK
      <4>3. Ended(<<"RST">>)
        <5>1. Len(<<"RST">>) = 1 OBVIOUS
        <5>2. QED BY <5>1 DEF Ended
      <4>4. <<>> \o <<"AARQ">> = <<"AARQ">> OBVIOUS
      <4>5. QED BY <3>3, <4>1, <4>2, <4>3, <4>4
    <3>5. QED BY <2>2, <3>1, <3>2, <3>4, <1>1 DEF BeforeCommand, AfterCommand
  <2>4. CASE s # cur
    <3>1. up'[s] = up[s] BY <1>1, <2>4 DEF Sent, TypeOK, MeterTypeOK
    <3>2. /\ Performed(s) => Performed(s)'
          /\ ReadNext(s) => ReadNext(s)'
          /\ Gone(s) => Gone(s)'
      BY <1>1, <3>1 DEF Performed, ReadNext, Gone, Joined, Waiting
    <3>3. QED BY <1>1, <2>1, <2>2, <3>1, <3>2, DeliveryKept
  <2>5. QED BY <2>3, <2>4
<1>5. QED BY <1>3, <1>4 DEF DeliveryInv

LEMMA LoopDelivery ==
    ASSUME HeadEndInv, DeliveryInv, ConnectAgain \/ AssociateAgain \/ GiveUp
    PROVE  DeliveryInv'
<1> USE DEF HeadEndInv
<1>1. /\ UNCHANGED <<mode, serving, context, backlog, executed, up, down,
                     ready, cur, req, assoc, asked>>
      /\ cur \in Sockets
      /\ \/ UNCHANGED <<pc, result, transport>>
         \/ pc = "connect" /\ result' = [result EXCEPT ![cur] = "failed"]
  BY DEF ConnectAgain, AssociateAgain, GiveUp, socketVars, meterVars, TypeOK, HesTypeOK
<1>2. ServingMode' BY <1>1 DEF DeliveryInv, ServingMode
<1>3. ASSUME NEW s \in Sockets PROVE BeforeCommand(s)' /\ AfterCommand(s)'
  <2>1. BeforeCommand(s) /\ AfterCommand(s) BY DEF DeliveryInv
  <2>2. result'[s] # "ok" => result[s] # "ok"
    <3>1. pc = "connect" => result[cur] # "ok" BY DEF CleanupInv, CallOK
    <3>2. QED BY <1>1, <3>1 DEF TypeOK, HesTypeOK
  <2>3. /\ Performed(s) => Performed(s)'
        /\ ReadNext(s) => ReadNext(s)'
        /\ Gone(s) => Gone(s)'
        /\ Served(s) => Served(s)'
    BY <1>1 DEF Performed, ReadNext, Gone, Served, Joined, Waiting
  <2>4. Associating(s) => Associating(s)' BY <1>1 DEF Associating
  <2>5. Queued' = Queued BY <1>1 DEF Queued
  <2>6. Heard(s)' => Heard(s) BY <1>1, <2>5 DEF Heard
  <2>7. ASSUME Alive, result[s] # "ok", Heard(s)', BrokenOff(s) PROVE BrokenOff(s)'
    <3>1. Associating(s) BY <2>1, <2>6, <2>7 DEF BeforeCommand
    <3>2. transport' = transport BY <1>1, <3>1 DEF Associating
    <3>3. QED BY <2>3, <2>5, <2>7, <3>2 DEF BrokenOff
  <2>8. QED BY <1>1, <2>1, <2>2, <2>3, <2>4, <2>6, <2>7, DeliveryKept
<1>4. QED BY <1>2, <1>3 DEF DeliveryInv

(* The segments of a command begin with it.                                *)
LEMMA CommandIsFirst ==
    ASSUME TypeOK, pc = "associate", NEW release \in {<<>>, <<"RLRQ">>},
           NEW all, all = (<<req[cur].cmd>> \o release) \o <<"FIN">>
    PROVE  /\ all \in Seq(ToMeter) /\ all # <<>>
           /\ Head(all) = req[cur].cmd
<1>1. all \in Seq(ToMeter) BY OneInGoodbye
<1>2. <<req[cur].cmd>> \o release \in Seq(ToMeter) BY CommandSegments
<1> DEFINE front == <<req[cur].cmd>> \o release
<1>3. Len(front) > 0 /\ front[1] = req[cur].cmd
  <2>1. CASE release = <<>> BY <2>1
  <2>2. CASE release = <<"RLRQ">> BY <2>2
  <2>3. QED BY <2>1, <2>2
<1>4. all = front \o <<"FIN">> OBVIOUS
<1>5. front \in Seq(ToMeter) BY <1>2
<1> HIDE DEF front
<1>6. <<"FIN">> \in Seq(ToMeter) BY DEF ToMeter
<1>7. Len(front) \in Nat BY <1>5, LenProperties
<1>8. Len(all) = Len(front) + Len(<<"FIN">>) BY <1>4, <1>5, <1>6, ConcatProperties
<1>9. all[1] = front[1] BY <1>3, <1>4, <1>5, <1>6, <1>7, ConcatProperties
<1>10. Len(<<"FIN">>) = 1 OBVIOUS
<1>11. Len(all) # 0 BY <1>3, <1>7, <1>8, <1>10
<1>12. all # <<>> BY <1>1, <1>11, EmptySeq
<1>13. QED BY <1>1, <1>3, <1>9, <1>12, HeadTailProperties

(* A call that got this far with the association has a meter that has read *)
(* all and keeps the association, or a connection that was reset.          *)
LEMMA FinishDelivery ==
    ASSUME HeadEndInv, DeliveryInv, Command \/ CommandRefused \/ FallThrough
    PROVE  DeliveryInv'
<1> USE DEF HeadEndInv
<1>1. PICK segments : Finish(segments)
  BY DEF Command, CommandRefused, FallThrough
<1>2. /\ UNCHANGED <<mode, serving, context, backlog, executed, down, cur, req, assoc>>
      /\ pc = "associate" /\ PollReturns /\ ReleaseSocket(cur)
      /\ up' = Goodbye(segments)
      /\ result' = [result EXCEPT ![cur] = "ok"]
      /\ asked' \in {asked, [asked EXCEPT ![cur] = TRUE]}
  BY <1>1 DEF Command, CommandRefused, FallThrough, Finish, Returned
<1>3. /\ cur \in Sockets /\ Queued = {} /\ result[cur] = "none"
      /\ transport[cur] \in {"connected", "closed"}
  BY <1>2, AtTheEnd
<1>4. \A c \in Queued' : c.sock = cur /\ c.res # "AARE"
  <2> DEFINE r == Done("read", cur, "error")
             d == Done("remove", cur, "ok")
  <2>1. Queued' = {d} \/ Queued' = {r, d} BY <1>2, ReleaseQueue
  <2>2. r.sock = cur /\ r.res = "error" /\ d.sock = cur /\ d.res = "ok" BY DEF Done
  <2> HIDE DEF r, d
  <2>3. QED BY <2>1, <2>2
<1>5. ServingMode' BY <1>2 DEF DeliveryInv, ServingMode
<1>6. ASSUME NEW s \in Sockets, s # cur PROVE BeforeCommand(s)' /\ AfterCommand(s)'
  <2>1. BeforeCommand(s) /\ AfterCommand(s) /\ ~Associating(s)
    BY <1>6 DEF DeliveryInv, Associating
  <2>2. up'[s] = up[s] /\ asked'[s] = asked[s] /\ result'[s] = result[s]
    BY <1>2, <1>3, <1>6 DEF Goodbye, Sent, TypeOK, MeterTypeOK, HesTypeOK
  <2>3. result[s] # "ok" => ~Heard(s)'
    BY <1>2, <1>4, <1>6, <2>1, HeardOnlyAssociating DEF Heard, Alive
  <2>4. /\ Performed(s) => Performed(s)'
        /\ ReadNext(s) => ReadNext(s)'
        /\ Gone(s) => Gone(s)'
    BY <1>2, <2>2 DEF Performed, ReadNext, Gone, Joined, Waiting
  <2>5. QED BY <1>2, <2>1, <2>2, <2>3, <2>4, DeliveryKept
<1>7. result'[cur] = "ok" BY <1>2, <1>3 DEF TypeOK, HesTypeOK
<1>8. BeforeCommand(cur)' BY <1>2, <1>7 DEF BeforeCommand
<1>9. AfterCommand(cur)'
  <2> SUFFICES ASSUME asked'[cur]
               PROVE  ReadNext(cur)' \/ ("reset" \in Faults /\ Gone(cur)')
    BY <1>2 DEF AfterCommand
  <2>1. ~asked[cur] BY <1>2 DEF CommandInv, CallInProgressNotAsked
  <2>2. Command BY <1>2, <2>1 DEF CommandRefused, FallThrough
  <2>3. assoc[cur] BY <2>2 DEF Command, Associated
  <2>4. Served(cur) \/ BrokenOff(cur)
    BY <1>2, <1>3, <2>3 DEF DeliveryInv, BeforeCommand, Heard, Alive
  <2>5. CASE Served(cur)
    <3>1. PICK m \in Meters : serving[m] = cur /\ context[m] /\ up[cur] = <<>>
      BY <2>5 DEF Served
    <3>2. PICK release \in {<<>>, <<"RLRQ">>} :
              up' = Sent(cur, (<<req[cur].cmd>> \o release) \o <<"FIN">>)
      BY <2>2 DEF Command, Finish, Goodbye
    <3> DEFINE all == (<<req[cur].cmd>> \o release) \o <<"FIN">>
    <3>3. up' = Sent(cur, all) BY <3>2
    <3>4. all \in Seq(ToMeter) /\ all # <<>> /\ Head(all) = req[cur].cmd
      BY <1>2, CommandIsFirst
    <3> HIDE DEF all
    <3>5. Joined(cur) /\ ~Ended(up[cur]) BY <3>1 DEF Joined, Ended
    <3>6. up'[cur] = up[cur] \o all
      BY <1>3, <3>3, <3>5 DEF Sent, TypeOK, MeterTypeOK
    <3>7. up'[cur] = all BY <3>1, <3>4, <3>6
    <3>8. QED BY <1>2, <3>1, <3>4, <3>7 DEF ReadNext
  <2>6. CASE BrokenOff(cur)
    <3>1. transport[cur] # "closed"
      BY <1>3, <2>3 DEF CleanupInv, SessionOK
    <3>2. "reset" \in Faults /\ Gone(cur) BY <1>3, <2>6, <3>1 DEF BrokenOff
    <3>3. Len(<<"RST">>) = 1 /\ <<"RST">>[1] = "RST" OBVIOUS
    <3>4. ~Joined(cur) \/ Ended(up[cur]) BY <3>2, <3>3 DEF Gone, Ended
    <3>5. up' = up BY <1>2, <3>4 DEF Goodbye, Sent
    <3>6. QED BY <1>2, <3>2, <3>5 DEF Gone, Joined, Waiting
  <2>7. QED BY <2>4, <2>5, <2>6
<1>10. \A s \in Sockets : BeforeCommand(s)' /\ AfterCommand(s)'
  <2>1. TAKE s \in Sockets
  <2>2. CASE s = cur BY <1>2, <1>8, <1>9, <2>2
  <2>3. CASE s # cur BY <1>6, <2>3
  <2>4. QED BY <2>2, <2>3
<1>11. QED BY <1>5, <1>10 DEF DeliveryInv

(* Taking a segment off an ended stream leaves its end, unless that is it. *)
LEMMA EndedTail ==
    ASSUME NEW q \in Seq(ToClient), Ended(q)
    PROVE  Head(q) = "RST" \/ Ended(Tail(q))
<1>1. q # <<>> /\ Len(q) \in Nat /\ Len(q) # 0 BY LenProperties, EmptySeq DEF Ended
<1>2. CASE Len(q) = 1
  <2>1. Head(q) = q[1] BY <1>1, HeadTailProperties
  <2>2. q[1] \in ToClient
    <3>1. 1 \in 1..Len(q) BY <1>2
    <3>2. QED BY <3>1, ElementOfSeq
  <2>3. q[1] \in {"FIN", "RST"} BY <1>2 DEF Ended
  <2>4. QED BY <2>1, <2>2, <2>3 DEF ToClient, Replies
<1>3. CASE Len(q) # 1
  <2> DEFINE t == Tail(q)
  <2>1. t \in Seq(ToClient) /\ Len(t) = Len(q) - 1 BY <1>1, HeadTailProperties
  <2>2. Len(t) \in 1..Len(t) BY <1>1, <1>3, <2>1
  <2>3. t[Len(t)] = q[Len(q)] BY <1>1, <2>1, <2>2, TailElements
  <2> HIDE DEF t
  <2>4. t # <<>>
    <3>1. Len(t) # 0 BY <2>2
    <3>2. QED BY <3>1
  <2>5. Ended(t) BY <2>3, <2>4 DEF Ended
  <2>6. QED BY <2>5 DEF t
<1>4. QED BY <1>2, <1>3

(* A completion brings the AARE only out of the stream; a connection that  *)
(* comes into being belongs to a call that has not associated.             *)
LEMMA NetworkDelivery ==
    ASSUME HeadEndInv, DeliveryInv, NEW n \in Sockets,
           Resolve(n) \/ ConnectSucceeds(n) \/ ConnectRefused(n) \/ Receive(n)
    PROVE  DeliveryInv'
<1> USE DEF HeadEndInv
<1>1. PICK call \in {"resolver", "connect", "read"}, res \in Results :
          /\ op[n] = IF call = "resolver" THEN "resolve" ELSE call
          /\ Complete(call, n, res)
          /\ UNCHANGED hesVars
  BY NetworkComplete
<1> DEFINE d == Done(call, n, res)
<1>2. op[n] # "none" BY <1>1
<1>3. Queued' = Queued \cup {d} BY <1>1, <1>2, CompleteQueue
<1>4. d.sock = n /\ d.call = call /\ d.res = res BY DEF Done
<1> HIDE DEF d
<1>5. /\ UNCHANGED <<pc, cur, req, assoc, asked, result, transport>>
      /\ UNCHANGED <<mode, serving, context, executed, up>>
  BY <1>1 DEF Complete, hesVars, Resolve, ConnectSucceeds, ConnectRefused, Receive,
              EstablishConnection, meterVars
<1>6. ServingMode' BY <1>5 DEF DeliveryInv, ServingMode
<1>7. ~asked[n] BY <1>2, AskedIsIdle
<1>8. ASSUME NEW s \in Sockets PROVE BeforeCommand(s)' /\ AfterCommand(s)'
  <2>1. BeforeCommand(s) /\ AfterCommand(s) BY DEF DeliveryInv
  <2>2. Served(s) => Served(s)' BY <1>5 DEF Served
  <2>3. Associating(s) => Associating(s)' BY <1>5 DEF Associating
  <2>4. CASE s # n
    <3>1. down'[s] = down[s]
      BY <1>1, <2>4 DEF Resolve, ConnectSucceeds, ConnectRefused, Receive,
         EstablishConnection, meterVars, TypeOK, MeterTypeOK
    <3>2. Joined(s)' => Joined(s)
      <4>1. CASE backlog' = backlog BY <1>5, <4>1 DEF Joined, Waiting
      <4>2. CASE EstablishConnection(req[n].meter, n)
        <5> SUFFICES ASSUME NEW m \in Meters, Waiting(m, s)' PROVE Waiting(m, s)
          BY <1>5 DEF Joined
        <5>1. backlog[m] \in Seq(Sockets) BY DEF TypeOK, MeterTypeOK
        <5>2. backlog'[m] \in {backlog[m], Append(backlog[m], n)}
          BY <4>2 DEF EstablishConnection, TypeOK, MeterTypeOK
        <5>3. Len(Append(backlog[m], n)) = Len(backlog[m]) + 1
          BY <5>1, AppendProperties
        <5>4. \A j \in 1..Len(backlog[m]) : Append(backlog[m], n)[j] = backlog[m][j]
          BY <5>1, AppendProperties
        <5>5. Append(backlog[m], n)[Len(backlog[m]) + 1] = n
          BY <5>1, AppendProperties
        <5>6. Len(backlog[m]) \in Nat BY <5>1, LenProperties
        <5>7. PICK j \in 1..Len(backlog'[m]) : backlog'[m][j] = s
          BY DEF Waiting
        <5>8. QED BY <2>4, <5>2, <5>3, <5>4, <5>5, <5>6, <5>7 DEF Waiting
      <4>3. QED BY <4>1, <4>2
        DEF Resolve, ConnectSucceeds, ConnectRefused, Receive, meterVars
    <3>3. /\ Performed(s) => Performed(s)'
          /\ ReadNext(s) => ReadNext(s)'
          /\ Gone(s) => Gone(s)'
      BY <1>5, <3>1, <3>2 DEF Performed, ReadNext, Gone
    <3>4. Heard(s)' => Heard(s) BY <1>3, <1>4, <1>5, <2>4, <3>1 DEF Heard
    <3>5. BrokenOff(s) => BrokenOff(s)' BY <1>3, <1>5, <3>3 DEF BrokenOff
    <3>6. QED BY <1>5, <2>1, <2>2, <2>3, <3>3, <3>4, <3>5, DeliveryKept
  <2>5. CASE s = n /\ Receive(n)
    <3> DEFINE q == down[n]
    <3>1. /\ q \in Seq(ToClient) /\ q # <<>> /\ down'[n] = Tail(q)
          /\ ReadDone(n, IF Head(q) = "RST" THEN "error" ELSE Head(q))
          /\ backlog' = backlog
      BY <2>5 DEF Receive, TypeOK, MeterTypeOK
    <3>2. Head(q) = q[1] /\ 1 \in 1..Len(q)
      BY <3>1, HeadTailProperties, LenProperties, EmptySeq
    <3> HIDE DEF q
    <3>3. op[n] = "read" /\ Complete("read", n, IF Head(q) = "RST" THEN "error" ELSE Head(q))
      BY <3>1 DEF ReadDone
    <3>4. call = "read" BY <1>1, <3>3
    <3> DEFINE e == Done("read", n, IF Head(q) = "RST" THEN "error" ELSE Head(q))
    <3>5. e.sock = n /\ e.call = "read"
          /\ e.res = IF Head(q) = "RST" THEN "error" ELSE Head(q)
      BY DEF Done
    <3>6. Head(q) \in ToClient BY <3>1, <3>2, ElementOfSeq
    <3>7. (IF Head(q) = "RST" THEN "error" ELSE Head(q)) \in Results
      BY <3>6 DEF ToClient, Results
    <3>8. Queued' = Queued \cup {e} BY <3>3, <3>7, CompleteQueue
    <3> HIDE DEF e
    <3>9. Heard(s)' => Heard(s)
      <4>1. \A i \in 1..Len(Tail(q)) : i + 1 \in 1..Len(q) /\ Tail(q)[i] = q[i + 1]
        BY <3>1, TailElements
      <4>2. e.res = "AARE" => q[1] = "AARE" BY <3>2, <3>5
      <4>3. QED BY <1>5, <2>5, <3>1, <3>2, <3>8, <4>1, <4>2 DEF Heard, q
    <3>10. ASSUME BrokenOff(s) PROVE BrokenOff(s)'
      <4>1. CASE Gone(s)
        <5>1. Ended(q) /\ (up[s] = <<"RST">> \/ ~Joined(s))
          BY <2>5, <4>1 DEF Gone, q
        <5>2. CASE Head(q) = "RST"
          BY <2>5, <3>5, <3>8, <3>10, <5>2 DEF BrokenOff
        <5>3. CASE Ended(Tail(q))
          <6>1. Gone(s)' BY <1>5, <2>5, <3>1, <5>1, <5>3 DEF Gone, Joined, Waiting
          <6>2. QED BY <3>10, <6>1 DEF BrokenOff
        <5>4. QED BY <3>1, <5>1, <5>2, <5>3, EndedTail
      <4>2. CASE ~Gone(s) BY <1>5, <3>8, <3>10, <4>2 DEF BrokenOff
      <4>3. QED BY <4>1, <4>2
    <3>11. QED BY <1>5, <1>7, <2>1, <2>2, <2>3, <2>5, <3>9, <3>10, DeliveryKept
  <2>6. CASE s = n /\ ~Receive(n)
    <3>1. PICK k \in {"resolver", "connect"}, x \in {"ok", "error"} : Complete(k, n, x)
      BY <2>6 DEF Resolve, ResolveDone, ConnectSucceeds, ConnectRefused, ConnectDone
    <3>2. down' = down
      BY <2>6 DEF Resolve, ConnectSucceeds, ConnectRefused, EstablishConnection, meterVars
    <3>3. ~Associating(s)
      <4>1. op[n] \in {"resolve", "connect"}
        BY <2>6 DEF Resolve, ResolveDone, ConnectSucceeds, ConnectRefused, ConnectDone
      <4>2. QED BY <2>6, <4>1 DEF Associating, CleanupInv, CallOK, OperationOK
    <3>4. x \in Results BY DEF Results
    <3> DEFINE e == Done(k, n, x)
    <3>5. e.res # "AARE" BY DEF Done
    <3>6. Queued' = Queued \cup {e} BY <1>2, <3>1, <3>4, CompleteQueue
    <3> HIDE DEF e
    <3>7. Heard(s)' => Heard(s) BY <1>5, <3>2, <3>5, <3>6 DEF Heard
    <3>8. Alive /\ result[s] # "ok" => ~Heard(s)' BY <2>1, <3>3, <3>7, HeardOnlyAssociating
    <3>9. QED BY <1>5, <1>7, <2>1, <2>3, <2>6, <3>8, DeliveryKept
  <2>7. QED BY <2>4, <2>5, <2>6
<1>9. QED BY <1>6, <1>8 DEF DeliveryInv

(* A reset takes what travelled with it.                                   *)
LEMMA ResetDelivery ==
    ASSUME HeadEndInv, DeliveryInv, NEW n \in Sockets, Reset(n)
    PROVE  DeliveryInv'
<1> USE DEF HeadEndInv
<1>1. /\ UNCHANGED <<mode, serving, context, backlog, executed, transport, ready,
                     pc, cur, req, assoc, asked, result>>
      /\ "reset" \in Faults
      /\ up'[n] = <<"RST">> /\ down'[n] = <<"RST">>
      /\ \A s \in Sockets \ {n} : up'[s] = up[s] /\ down'[s] = down[s]
  BY DEF Reset, ConnectionReset, socketVars, hesVars, TypeOK, MeterTypeOK
<1>2. Queued' = Queued BY <1>1 DEF Queued
<1>3. ServingMode' BY <1>1 DEF DeliveryInv, ServingMode
<1>4. ASSUME NEW s \in Sockets PROVE BeforeCommand(s)' /\ AfterCommand(s)'
  <2>1. BeforeCommand(s) /\ AfterCommand(s) BY DEF DeliveryInv
  <2>2. Performed(s) => Performed(s)' BY <1>1 DEF Performed
  <2>3. Associating(s) => Associating(s)' BY <1>1 DEF Associating
  <2>4. CASE s = n
    <3>1. Len(<<"RST">>) = 1 /\ <<"RST">>[1] = "RST" OBVIOUS
    <3>2. Gone(s)' BY <1>1, <2>4, <3>1 DEF Gone, Ended
    <3>3. BrokenOff(s)' BY <1>1, <3>2 DEF BrokenOff
    <3>4. Heard(s)' => Heard(s) BY <1>1, <1>2, <2>4, <3>1 DEF Heard
    <3>5. QED BY <1>1, <2>1, <2>2, <2>3, <2>4, <3>2, <3>3, <3>4, DeliveryKept
  <2>5. CASE s # n
    <3>1. up'[s] = up[s] /\ down'[s] = down[s] BY <1>1, <2>5
    <3>2. /\ ReadNext(s) => ReadNext(s)'
          /\ Gone(s) => Gone(s)'
          /\ Served(s) => Served(s)'
      BY <1>1, <3>1 DEF ReadNext, Gone, Served, Joined, Waiting
    <3>3. Heard(s)' => Heard(s) BY <1>1, <1>2, <3>1 DEF Heard
    <3>4. BrokenOff(s) => BrokenOff(s)' BY <1>1, <1>2, <3>2 DEF BrokenOff
    <3>5. QED BY <1>1, <2>1, <2>2, <2>3, <3>1, <3>2, <3>3, <3>4, DeliveryKept
  <2>6. QED BY <2>4, <2>5
<1>5. QED BY <1>3, <1>4 DEF DeliveryInv

-----------------------------------------------------------------------------
(* ... and by the meters.                                                  *)

LEMMA ServingModeKept ==
    ASSUME HeadEndInv, ServingMode, NEW m \in Meters, Meter(m) \/ MeterFails(m)
    PROVE  ServingMode'
<1> USE DEF HeadEndInv
<1>1. \/ UNCHANGED <<mode, serving>>
      \/ /\ mode' = [mode EXCEPT ![m] = "listening"] /\ serving' = serving
         /\ mode[m] = "starting"
      \/ /\ mode' = [mode EXCEPT ![m] = "exited"] /\ serving' = serving
         /\ mode[m] \in {"starting", "listening"}
      \/ /\ mode' = [mode EXCEPT ![m] = "starting"]
         /\ serving' = [serving EXCEPT ![m] = NoSocket]
      \/ ASIO_Accept_Handler(m)
  BY DEF Meter, MeterFails, MeterStep, MeterFault, Server_Handler, Server_Handler_Fails,
         Accept_Handler_Throws, OpenRequest, InternalAction, ReleaseRequest, Restart
<1>2. CASE ASIO_Accept_Handler(m)
  <2>1. backlog[m] \in Seq(Sockets) /\ backlog[m] # <<>>
    BY <1>2 DEF ASIO_Accept_Handler, TypeOK, MeterTypeOK
  <2>2. Head(backlog[m]) \in Sockets BY <2>1
  <2>3. Head(backlog[m]) # NoSocket BY <2>2, NoSocketIsNone
  <2>4. QED BY <1>2, <2>3 DEF ASIO_Accept_Handler, ServingMode, TypeOK, MeterTypeOK
<1>3. QED BY <1>1, <1>2 DEF ServingMode, TypeOK, MeterTypeOK

(* No step of a meter makes a connection wait or be served that did not.   *)
LEMMA NoneJoins ==
    ASSUME HeadEndInv, NEW m \in Meters, Meter(m) \/ MeterFails(m),
           NEW s \in Sockets, Joined(s)'
    PROVE  Joined(s)
<1> USE DEF HeadEndInv
<1>1. CASE ASIO_Accept_Handler(m)
  <2>1. backlog[m] \in Seq(Sockets) /\ backlog[m] # <<>>
    BY <1>1 DEF ASIO_Accept_Handler, TypeOK, MeterTypeOK
  <2>2. Head(backlog[m]) = backlog[m][1] /\ 1 \in 1..Len(backlog[m])
    BY <2>1, HeadTailProperties, LenProperties, EmptySeq
  <2>3. \A i \in 1..Len(Tail(backlog[m])) :
            i + 1 \in 1..Len(backlog[m]) /\ Tail(backlog[m])[i] = backlog[m][i + 1]
    BY <2>1, TailElements
  <2>4. \A k \in Meters : /\ serving'[k] = s => serving[k] = s \/ Waiting(k, s)
                          /\ Waiting(k, s)' => Waiting(k, s)
    BY <1>1, <2>2, <2>3 DEF ASIO_Accept_Handler, Waiting, TypeOK, MeterTypeOK
  <2>5. QED BY <2>4 DEF Joined
<1>2. CASE ~ASIO_Accept_Handler(m)
  <2>1. /\ \A k \in Meters : serving'[k] \in {serving[k], NoSocket}
        /\ \A k \in Meters : backlog'[k] \in {backlog[k], <<>>}
    BY <1>2 DEF Meter, MeterFails, MeterStep, MeterFault, Server_Handler,
       Server_Handler_Fails, Accept_Handler_Throws, OpenRequest, InternalAction,
       ReleaseRequest, Restart, EndOfSockets, TypeOK, MeterTypeOK
  <2>2. \A k \in Meters : /\ serving'[k] = s => serving[k] = s
                          /\ Waiting(k, s)' => Waiting(k, s)
    BY <2>1, NoSocketIsNone DEF Waiting
  <2>3. QED BY <2>2 DEF Joined
<1>3. QED BY <1>1, <1>2

LEMMA StaysPerformed ==
    ASSUME HeadEndInv, NEW m \in Meters, Meter(m) \/ MeterFails(m),
           NEW s \in Sockets, Performed(s)
    PROVE  Performed(s)'
<1> USE DEF HeadEndInv
<1>1. CASE executed' = executed BY <1>1 DEF Performed
<1>2. CASE InternalAction(m)
  <2>1. Invoked(m) \in Execution BY <1>2, PerformConnection DEF Meter, MeterFails
  <2>0. PICK k \in Meters : \E i \in 1..Len(executed[k]) : executed[k][i].sess = s
    BY DEF Performed
  <2>2. PICK i \in 1..Len(executed[k]) : executed[k][i].sess = s BY <2>0
  <2>3. executed[k] \in Seq(Execution) BY DEF TypeOK, MeterTypeOK
  <2>4. executed'[k] \in {executed[k], Append(executed[k], Invoked(m))}
    BY <1>2 DEF InternalAction, TypeOK, MeterTypeOK
  <2>5. Len(Append(executed[k], Invoked(m))) = Len(executed[k]) + 1
    BY <2>1, <2>3, AppendProperties
  <2>6. Append(executed[k], Invoked(m))[i] = executed[k][i]
    BY <2>1, <2>3, AppendProperties
  <2>7. Len(executed[k]) \in Nat BY <2>3, LenProperties
  <2>8. i \in 1..Len(executed'[k]) /\ executed'[k][i].sess = s
    BY <2>2, <2>4, <2>5, <2>6, <2>7
  <2>9. QED BY <2>8 DEF Performed
<1>3. QED BY <1>1, <1>2
  DEF Meter, MeterFails, MeterStep, MeterFault, Server_Handler, Server_Handler_Fails,
      ASIO_Accept_Handler, Accept_Handler_Throws, OpenRequest, ReleaseRequest, Restart

(* A meter takes a segment from the connection that it serves: an AARQ     *)
(* opens the association, an Action is performed, and the Release cannot   *)
(* be next where a command is.                                             *)
LEMMA AnswerDelivery ==
    ASSUME HeadEndInv, DeliveryInv, NEW m \in Meters, Meter(m),
           OpenRequest(m) \/ InternalAction(m) \/ ReleaseRequest(m)
    PROVE  DeliveryInv'
<1> USE DEF HeadEndInv
<1> DEFINE n == serving[m]
<1>1. /\ UNCHANGED <<transport, ready, pc, cur, req, assoc, asked, result>>
      /\ UNCHANGED <<mode, serving, backlog>>
  BY DEF Meter, socketVars, hesVars, OpenRequest, InternalAction, ReleaseRequest
<1>2. PICK segments, reply : Incoming(m, segments) /\ Answer(m, reply)
  BY DEF OpenRequest, InternalAction, ReleaseRequest
<1>3. /\ n \in Sockets /\ up[n] \in Seq(ToMeter) /\ up[n] # <<>>
      /\ up'[n] = Tail(up[n])
      /\ \A s \in Sockets \ {n} : up'[s] = up[s]
  BY <1>2, ConsumedStream
<1>4. \A s \in Sockets \ {n} : down'[s] = down[s]
  BY <1>2, <1>3 DEF Answer, TypeOK, MeterTypeOK
<1>5. \A k \in Meters \ {m} : context'[k] = context[k]
  BY DEF OpenRequest, InternalAction, ReleaseRequest, TypeOK, MeterTypeOK
<1>6. Head(up[n]) \in {"AARQ", "RLRQ"} \cup Commands
  BY DEF OpenRequest, InternalAction, ReleaseRequest, Incoming
<1> HIDE DEF n
<1>7. Queued' = Queued BY <1>1 DEF Queued
<1>8. ServingMode' BY ServingModeKept DEF DeliveryInv
<1>9. ASSUME NEW s \in Sockets, s # n PROVE BeforeCommand(s)' /\ AfterCommand(s)'
  <2>1. BeforeCommand(s) /\ AfterCommand(s) BY DEF DeliveryInv
  <2>2. up'[s] = up[s] /\ down'[s] = down[s] BY <1>3, <1>4, <1>9
  <2>3. \A k \in Meters : serving[k] = s => context'[k] = context[k]
    BY <1>5, <1>9 DEF n
  <2>4. /\ ReadNext(s) => ReadNext(s)'
        /\ Gone(s) => Gone(s)'
        /\ Served(s) => Served(s)'
    BY <1>1, <2>2, <2>3 DEF ReadNext, Gone, Served, Joined, Waiting
  <2>5. Performed(s) => Performed(s)' BY StaysPerformed
  <2>6. Heard(s)' => Heard(s) BY <1>1, <1>7, <2>2 DEF Heard
  <2>7. BrokenOff(s) => BrokenOff(s)' BY <1>1, <1>7, <2>4 DEF BrokenOff
  <2>8. Associating(s) => Associating(s)' BY <1>1 DEF Associating
  <2>9. QED BY <1>1, <2>1, <2>2, <2>4, <2>5, <2>6, <2>7, <2>8, DeliveryKept
<1>10. BeforeCommand(n) /\ AfterCommand(n) BY <1>3 DEF DeliveryInv
<1>11. BeforeCommand(n)'
  <2> SUFFICES ASSUME Alive, result[n] # "ok" PROVE BeforeCommand(n)'
    BY <1>1 DEF BeforeCommand, Alive, n
  <2>1. Head(<<"AARQ">>) = "AARQ" /\ Tail(<<"AARQ">>) = <<>> /\ Head(<<"RST">>) = "RST"
    OBVIOUS
  <2>2. Associating(n) /\ up[n] = <<"AARQ">>
    BY <1>3, <1>6, <1>10, <2>1 DEF BeforeCommand, Commands
  <2>3. OpenRequest(m)
    BY <2>1, <2>2 DEF InternalAction, ReleaseRequest, Incoming, Commands, n
  <2>4. up'[n] = <<>> BY <1>3, <2>1, <2>2
  <2>5. context'[m] BY <2>3 DEF OpenRequest, TypeOK, MeterTypeOK
  <2>6. n' = n BY <1>1 DEF n
  <2>7. serving'[m] = n BY <1>1 DEF n
  <2>8. Served(n)' BY <2>4, <2>5, <2>6, <2>7 DEF Served
  <2>9. Associating(n)' BY <1>1, <2>2, <2>6 DEF Associating
  <2>10. QED BY <2>4, <2>6, <2>8, <2>9 DEF BeforeCommand
<1>12. AfterCommand(n)'
  <2>1. n' = n BY <1>1 DEF n
  <2> SUFFICES ASSUME asked[n] PROVE Performed(n)'
    BY <1>1, <2>1 DEF AfterCommand
  <2>2. CASE Performed(n)
    <3>1. ASSUME NEW s \in Sockets, s = n PROVE Performed(s)'
      BY <2>2, <3>1, StaysPerformed
    <3>2. QED BY <1>3, <2>1, <3>1
  <2>3. CASE ReadNext(n)
    <3>1. PICK k \in Meters : serving[k] = n /\ context[k] /\ Head(up[n]) = req[n].cmd
      BY <2>3 DEF ReadNext
    <3>2. k = m BY <1>3, <3>1, OneMeter DEF n
    <3>3. req[n].cmd \notin {"AARQ", "RLRQ"}
      BY <1>3 DEF TypeOK, HesTypeOK, Requests, NoRequest, Commands
    <3>4. InternalAction(m)
      BY <3>1, <3>3 DEF OpenRequest, ReleaseRequest, Incoming, n
    <3>5. executed' = [executed EXCEPT ![m] = Append(@, Invoked(m))]
      BY <3>1, <3>2, <3>4 DEF InternalAction
    <3>6. Invoked(m) \in Execution /\ Invoked(m).sess = n
      BY <3>4, PerformConnection DEF Meter, n
    <3>7. executed[m] \in Seq(Execution) BY DEF TypeOK, MeterTypeOK
    <3>8. executed'[m] = Append(executed[m], Invoked(m))
      BY <3>5 DEF TypeOK, MeterTypeOK
    <3>9. Len(executed'[m]) = Len(executed[m]) + 1
      BY <3>6, <3>7, <3>8, AppendProperties
    <3>10. executed'[m][Len(executed[m]) + 1] = Invoked(m)
      BY <3>6, <3>7, <3>8, AppendProperties
    <3>11. Len(executed[m]) \in Nat BY <3>7, LenProperties
    <3>12. Len(executed[m]) + 1 \in 1..Len(executed'[m]) BY <3>9, <3>11
    <3>13. QED BY <2>1, <3>6, <3>10, <3>12 DEF Performed
  <2>4. CASE Gone(n)
    <3>1. Head(<<"RST">>) = "RST" OBVIOUS
    <3>2. Joined(n) BY DEF Joined, n
    <3>3. QED BY <1>6, <2>4, <3>1, <3>2 DEF Gone, Commands
  <2>5. QED BY <1>10, <2>2, <2>3, <2>4 DEF AfterCommand
<1>13. \A s \in Sockets : BeforeCommand(s)' /\ AfterCommand(s)'
  <2>1. n' = n BY <1>1 DEF n
  <2>2. TAKE s \in Sockets
  <2>3. CASE s = n BY <1>11, <1>12, <2>1, <2>3
  <2>4. CASE s # n BY <1>9, <2>4
  <2>5. QED BY <2>3, <2>4
<1>14. QED BY <1>8, <1>13 DEF DeliveryInv

(* A base library goes with its sockets: what waited in its backlog is     *)
(* gone, and the connection it served had nothing on it but its end.       *)
LEMMA EndDelivery ==
    ASSUME HeadEndInv, DeliveryInv, NEW m \in Meters, Meter(m),
           Restart(m) \/ Accept_Handler_Throws(m)
    PROVE  DeliveryInv'
<1> USE DEF HeadEndInv
<1>1. /\ UNCHANGED <<transport, ready, pc, cur, req, assoc, asked, result, executed>>
      /\ EndOfSockets(m)
  BY DEF Meter, socketVars, hesVars, Restart, Accept_Handler_Throws
<1>2. Queued' = Queued BY <1>1 DEF Queued
<1>3. ServingMode' BY ServingModeKept DEF DeliveryInv
<1>4. ~Restart(m) => serving[m] = NoSocket
  BY DEF Accept_Handler_Throws, DeliveryInv, ServingMode
<1>5. Restart(m) => /\ serving[m] \in Sockets /\ up[serving[m]] # <<>>
                    /\ Head(up[serving[m]]) \in {"FIN", "RST"}
  BY DEF Restart, Incoming, TypeOK, MeterTypeOK
<1>6. /\ \A k \in Meters \ {m} : serving'[k] = serving[k] /\ context'[k] = context[k]
      /\ Restart(m) => serving'[m] = NoSocket
      /\ ~Restart(m) => serving'[m] = serving[m]
      /\ backlog'[m] = <<>>
  BY <1>1 DEF Restart, Accept_Handler_Throws, EndOfSockets, TypeOK, MeterTypeOK
<1>7. ASSUME NEW s \in Sockets PROVE BeforeCommand(s)' /\ AfterCommand(s)'
  <2>1. BeforeCommand(s) /\ AfterCommand(s) BY DEF DeliveryInv
  <2>2. /\ up'[s] = IF s = serving[m] \/ Waiting(m, s) THEN <<>> ELSE up[s]
        /\ down'[s] = IF Waiting(m, s) THEN Append(down[s], "RST") ELSE down[s]
    BY <1>1 DEF EndOfSockets
  <2>3. up'[s] \in {up[s], <<>>} BY <2>2
  <2>4. Performed(s) => Performed(s)' BY <1>1 DEF Performed
  <2>5. Associating(s) => Associating(s)' BY <1>1 DEF Associating
  <2>6. /\ down[s] \in Seq(ToClient) /\ "RST" \in ToClient /\ Len(down[s]) \in Nat
        /\ Len(Append(down[s], "RST")) = Len(down[s]) + 1
        /\ Append(down[s], "RST")[Len(down[s]) + 1] = "RST"
        /\ \A i \in 1..Len(down[s]) : Append(down[s], "RST")[i] = down[s][i]
    <3>1. down[s] \in Seq(ToClient) /\ "RST" \in ToClient
      BY DEF TypeOK, MeterTypeOK, ToClient
    <3>2. Len(Append(down[s], "RST")) = Len(down[s]) + 1 BY <3>1, AppendProperties
    <3>3. Append(down[s], "RST")[Len(down[s]) + 1] = "RST" BY <3>1, AppendProperties
    <3>4. \A i \in 1..Len(down[s]) : Append(down[s], "RST")[i] = down[s][i]
      BY <3>1, AppendProperties
    <3>5. Len(down[s]) \in Nat BY <3>1, LenProperties
    <3>6. QED BY <3>1, <3>2, <3>3, <3>4, <3>5
  <2>7. Heard(s)' => Heard(s)
    <3>1. \A i \in 1..Len(down'[s]) : down'[s][i] = "AARE" =>
              \E j \in 1..Len(down[s]) : down[s][j] = "AARE"
      <4> SUFFICES ASSUME NEW i \in 1..Len(down'[s]), down'[s][i] = "AARE"
                   PROVE  \E j \in 1..Len(down[s]) : down[s][j] = "AARE"
        OBVIOUS
      <4>1. CASE down'[s] = down[s] BY <4>1
      <4>2. CASE down'[s] = Append(down[s], "RST")
        <5>1. i \in 1..Len(down[s]) BY <2>6, <4>2
        <5>2. QED BY <2>6, <4>2, <5>1
      <4>3. QED BY <2>2, <4>1, <4>2
    <3>2. QED BY <1>1, <1>2, <3>1 DEF Heard
  <2>8. ASSUME Gone(s) PROVE Gone(s)'
    <3>1. Ended(down[s])' BY <2>2, <2>6, <2>8 DEF Ended, Gone
    <3>2. CASE up'[s] = up[s]
      <4>1. Joined(s)' => Joined(s) BY NoneJoins
      <4>2. QED BY <2>8, <3>1, <3>2, <4>1 DEF Gone
    <3>3. CASE s = serving[m] \/ Waiting(m, s)
      <4>1. \A k \in Meters \ {m} : serving[k] # s /\ ~Waiting(k, s)
        BY <3>3 DEF ConnectionInv, JoinedOnce
      <4>2. \A k \in Meters \ {m} : backlog'[k] = backlog[k]
        BY <1>1 DEF EndOfSockets, TypeOK, MeterTypeOK
      <4>3. \A k \in Meters \ {m} : serving'[k] # s /\ ~Waiting(k, s)'
        BY <1>6, <4>1, <4>2 DEF Waiting
      <4>4. serving'[m] # s BY <1>4, <1>6, NoSocketIsNone
      <4>5. ~Waiting(m, s)' BY <1>6 DEF Waiting
      <4>6. ~Joined(s)' BY <4>3, <4>4, <4>5 DEF Joined
      <4>7. QED BY <3>1, <4>6 DEF Gone
    <3>4. QED BY <2>2, <3>2, <3>3
  <2>9. ASSUME NEW k \in Meters, serving[k] = s, result[s] # "failed", k # m
        PROVE  up'[s] = up[s] /\ serving'[k] = s /\ context'[k] = context[k]
    <3>1. serving[m] # s /\ ~Waiting(m, s) BY <2>9, OneMeter
    <3>2. QED BY <1>6, <2>2, <2>9, <3>1
  <2>10. ASSUME Served(s) PROVE Served(s)'
    <3>1. PICK k \in Meters : serving[k] = s /\ context[k] /\ up[s] = <<>>
      BY <2>10 DEF Served
    <3>2. k # m BY <1>4, <1>5, <3>1, NoSocketIsNone
    <3>3. serving'[k] = s /\ context'[k] = context[k] BY <1>6, <3>1, <3>2
    <3>4. QED BY <2>3, <3>1, <3>3 DEF Served
  <2>11. ASSUME asked[s], ReadNext(s) PROVE ReadNext(s)'
    <3>1. PICK k \in Meters :
              /\ serving[k] = s /\ context[k]
              /\ up[s] # <<>> /\ Head(up[s]) = req[s].cmd
      BY <2>11 DEF ReadNext
    <3>2. req[s].cmd \notin {"FIN", "RST"}
      BY DEF TypeOK, HesTypeOK, Requests, NoRequest, Commands
    <3>3. k # m BY <1>4, <1>5, <3>1, <3>2, NoSocketIsNone
    <3>4. result[s] # "failed" BY <2>11, AskedIsIdle
    <3>5. QED BY <1>1, <2>9, <3>1, <3>3, <3>4 DEF ReadNext
  <2>12. BrokenOff(s) => BrokenOff(s)' BY <1>1, <1>2, <2>8 DEF BrokenOff
  <2>13. QED
    BY <1>1, <2>1, <2>3, <2>4, <2>5, <2>7, <2>8, <2>10, <2>11, <2>12, DeliveryKept
<1>8. QED BY <1>3, <1>7 DEF DeliveryInv

(* A meter that starts, or turns to its next connection, served none.      *)
LEMMA TurnDelivery ==
    ASSUME HeadEndInv, DeliveryInv, NEW m \in Meters, Meter(m) \/ MeterFails(m),
           Server_Handler(m) \/ Server_Handler_Fails(m) \/ ASIO_Accept_Handler(m)
    PROVE  DeliveryInv'
<1> USE DEF HeadEndInv
<1>1. /\ UNCHANGED <<transport, ready, pc, cur, req, assoc, asked, result>>
      /\ UNCHANGED <<executed, up, down>>
  BY DEF Meter, MeterFails, socketVars, hesVars, Server_Handler, Server_Handler_Fails,
         ASIO_Accept_Handler
<1>2. Queued' = Queued BY <1>1 DEF Queued
<1>3. ServingMode' BY ServingModeKept DEF DeliveryInv
<1>4. serving[m] = NoSocket
  BY DEF Server_Handler, Server_Handler_Fails, ASIO_Accept_Handler, DeliveryInv,
         ServingMode
<1>5. \A k \in Meters : serving[k] # NoSocket =>
          serving'[k] = serving[k] /\ context'[k] = context[k]
  BY <1>4 DEF Server_Handler, Server_Handler_Fails, ASIO_Accept_Handler,
              TypeOK, MeterTypeOK
<1>6. ASSUME NEW s \in Sockets PROVE BeforeCommand(s)' /\ AfterCommand(s)'
  <2>1. BeforeCommand(s) /\ AfterCommand(s) BY DEF DeliveryInv
  <2>2. s # NoSocket BY NoSocketIsNone
  <2>3. Joined(s)' => Joined(s) BY NoneJoins
  <2>4. /\ Performed(s) => Performed(s)'
        /\ ReadNext(s) => ReadNext(s)'
        /\ Gone(s) => Gone(s)'
        /\ Served(s) => Served(s)'
    BY <1>1, <1>5, <2>2, <2>3 DEF Performed, ReadNext, Gone, Served
  <2>5. Heard(s)' => Heard(s) BY <1>1, <1>2 DEF Heard
  <2>6. BrokenOff(s) => BrokenOff(s)' BY <1>1, <1>2, <2>4 DEF BrokenOff
  <2>7. Associating(s) => Associating(s)' BY <1>1 DEF Associating
  <2>8. QED BY <1>1, <2>1, <2>4, <2>5, <2>6, <2>7, DeliveryKept
<1>7. QED BY <1>3, <1>6 DEF DeliveryInv

LEMMA InitDelivery == Init => DeliveryInv
<1> SUFFICES ASSUME Init PROVE DeliveryInv OBVIOUS
<1>1. Len(ready) = 0 /\ \A s \in Sockets : Len(down[s]) = 0
  BY EmptySeq DEF Init, SocketInit, MeterInit
<1>2. Queued = {} BY <1>1 DEF Queued
<1>3. ServingMode BY DEF Init, MeterInit, ServingMode
<1>4. ASSUME NEW s \in Sockets PROVE BeforeCommand(s) /\ AfterCommand(s)
  <2>1. ~Heard(s) BY <1>1, <1>2 DEF Init, Heard
  <2>2. QED BY <2>1 DEF Init, MeterInit, BeforeCommand, AfterCommand
<1>5. QED BY <1>3, <1>4 DEF DeliveryInv

LEMMA NextDelivery == HeadEndInv /\ DeliveryInv /\ [Next]_vars => DeliveryInv'
<1> SUFFICES ASSUME HeadEndInv, DeliveryInv, [Next]_vars PROVE DeliveryInv'
  OBVIOUS
<1>1. ASSUME NEW m \in Meters, NEW c \in Commands, Begin(m, c) \/ BeginFails(m, c)
      PROVE  DeliveryInv'
  BY <1>1, CallDelivery
<1>2. CASE HesStep
  BY <1>2, PollDelivery, ThrowsDelivery, AssociateDelivery, LoopDelivery, FinishDelivery
  DEF HesStep
<1>3. CASE NetworkStep BY <1>3, NetworkDelivery DEF NetworkStep
<1>4. ASSUME NEW s \in Sockets, Reset(s) PROVE DeliveryInv'
  BY <1>4, ResetDelivery
<1>5. ASSUME NEW m \in Meters, Meter(m) \/ MeterFails(m) PROVE DeliveryInv'
  BY <1>5, AnswerDelivery, EndDelivery, TurnDelivery
  DEF Meter, MeterFails, MeterStep, MeterFault
<1>6. CASE UNCHANGED vars
  <2>1. /\ UNCHANGED <<transport, ready, pc, cur, req, assoc, asked, result>>
        /\ UNCHANGED <<mode, serving, context, backlog, executed, up, down>>
        /\ Queued' = Queued
    BY <1>6 DEF vars, socketVars, meterVars, hesVars, Queued
  <2>2. ServingMode' BY <2>1 DEF DeliveryInv, ServingMode
  <2>3. ASSUME NEW s \in Sockets PROVE BeforeCommand(s)' /\ AfterCommand(s)'
    <3>1. BeforeCommand(s) /\ AfterCommand(s) BY DEF DeliveryInv
    <3>2. /\ Performed(s)' = Performed(s)
          /\ ReadNext(s)' = ReadNext(s)
          /\ Gone(s)' = Gone(s)
          /\ Served(s)' = Served(s)
          /\ Heard(s)' = Heard(s)
          /\ Associating(s)' = Associating(s)
      BY <2>1 DEF Performed, ReadNext, Gone, Served, Heard, Associating, Joined, Waiting
    <3>3. BrokenOff(s)' = BrokenOff(s) BY <2>1, <3>2 DEF BrokenOff
    <3>4. QED BY <2>1, <3>1, <3>2, <3>3 DEF BeforeCommand, AfterCommand, Alive
  <2>4. QED BY <2>2, <2>3 DEF DeliveryInv
<1>7. QED BY <1>1, <1>2, <1>3, <1>4, <1>5, <1>6 DEF Next

(* A command that was sent has been performed or is what its meter reads   *)
(* next, with the association open, unless the connection was reset:       *)
(* Release and close follow it at once and never overtake it.              *)
THEOREM CommandIsNotLost == Spec => []CommandNotLost
<1>1. DeliveryInv => CommandNotLost
  BY DEF DeliveryInv, AfterCommand, Gone, CommandNotLost
<1>2. Spec => []DeliveryInv
  BY InitDelivery, NextDelivery, HeadEndInvariant, PTL DEF Spec
<1>3. QED BY <1>1, <1>2, PTL
=============================================================================
