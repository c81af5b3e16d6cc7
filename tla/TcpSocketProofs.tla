-------------------------- MODULE TcpSocketProofs ---------------------------
(***************************************************************************)
(* Lemmas about TcpSocket for the modules that compose it, for any number  *)
(* of sockets and endpoints and any faults.                                *)
(***************************************************************************)
EXTENDS TcpSocket, SequenceTheorems, TLAPS

-----------------------------------------------------------------------------
(* The handlers that wait to be called.                                    *)
Queued == {ready[i] : i \in 1..Len(ready)}

-----------------------------------------------------------------------------
(* Sequences.                                                              *)

(* A queue keeps its element type when its head is taken off.              *)
LEMMA TailType ==
    ASSUME NEW S, NEW q \in Seq(S), q # <<>>
    PROVE  Head(q) \in S /\ Tail(q) \in Seq(S)
BY HeadTailProperties

(* The elements of a queue behind its head are elements of the queue.      *)
LEMMA TailElements ==
    ASSUME NEW S, NEW q \in Seq(S), q # <<>>, NEW i \in 1..Len(Tail(q))
    PROVE  i + 1 \in 1..Len(q) /\ Tail(q)[i] = q[i + 1]
BY HeadTailProperties

-----------------------------------------------------------------------------
(* Types: sockets.                                                         *)

LEMMA SocketInitType == SocketInit => SocketTypeOK
<1> SUFFICES ASSUME SocketInit PROVE SocketTypeOK OBVIOUS
<1>1. 0 \in 0..(MaxEndpoints - 1) BY MaxEndpointsAssumption
<1>2. left \in [Sockets -> 0..(MaxEndpoints - 1)] BY <1>1 DEF SocketInit
<1>3. ready \in Seq(Completions) BY EmptySeq DEF SocketInit
<1>4. QED BY <1>2, <1>3 DEF SocketInit, SocketTypeOK, Operations

LEMMA DoneType ==
    ASSUME NEW call \in {"resolver", "connect", "read", "remove"},
           NEW s \in Sockets, NEW res \in Results
    PROVE  Done(call, s, res) \in Completions
BY DEF Done, Completions

LEMMA InterruptedType ==
    ASSUME NEW s \in Sockets
    PROVE  Interrupted(s) \in Seq(Completions)
<1>1. CASE op[s] \in {"connect", "read"}
  <2>1. Done(op[s], s, "error") \in Completions
    BY <1>1 DEF Done, Completions, Results
  <2>2. QED BY <1>1, <2>1 DEF Interrupted
<1>2. CASE op[s] \notin {"connect", "read"}
  BY <1>2 DEF Interrupted
<1>3. QED BY <1>1, <1>2

(* Every completion the kernel or the resolver reports keeps the types.    *)
LEMMA CompleteType ==
    ASSUME SocketTypeOK, NEW s \in Sockets, NEW res \in Results,
           NEW call \in {"resolver", "connect", "read"},
           Complete(call, s, res),
           left' \in [Sockets -> 0..(MaxEndpoints - 1)]
    PROVE  SocketTypeOK'
<1>1. Done(call, s, res) \in Completions BY DoneType
<1>2. ready' \in Seq(Completions)
  BY <1>1 DEF Complete, SocketTypeOK
<1>3. QED BY <1>2 DEF Complete, SocketTypeOK, Operations

LEMMA ResolveType ==
    ASSUME SocketTypeOK, NEW s \in Sockets, ResolveDone(s)
    PROVE  SocketTypeOK'
<1>1. left' \in [Sockets -> 0..(MaxEndpoints - 1)]
  BY DEF ResolveDone, SocketTypeOK
<1>2. PICK res \in {"ok", "error"} : Complete("resolver", s, res)
  BY DEF ResolveDone
<1>3. res \in Results BY DEF Results
<1>4. QED BY <1>1, <1>2, <1>3, CompleteType

(* Each handler keeps the types.                                           *)
LEMMA PollType ==
    ASSUME SocketTypeOK, PollOne
    PROVE  SocketTypeOK'
<1> DEFINE h == Head(ready)
<1>1. h \in Completions /\ Tail(ready) \in Seq(Completions)
  BY TailType DEF PollOne, SocketTypeOK
<1>2. h.sock \in Sockets BY <1>1 DEF Completions
<1>3. CallHandler(h) BY DEF PollOne
<1> HIDE DEF h
<1>4. stopped' \in BOOLEAN
  <2>1. (~Work') \in BOOLEAN BY DEF Work
  <2>2. QED BY <1>3, <2>1 DEF CallHandler, DanglingHandler
<1>5. CASE DanglingHandler(h)
  BY <1>1, <1>4, <1>5 DEF DanglingHandler, SocketTypeOK
<1>6. CASE ASIO_Resolver_Handler(h)
  BY <1>1, <1>2, <1>4, <1>6
  DEF ASIO_Resolver_Handler, Connecting, SocketTypeOK, Operations
<1>7. CASE ASIO_Connect_Handler(h)
  <2>1. left[h.sock] \in 0..(MaxEndpoints - 1) BY <1>2 DEF SocketTypeOK
  <2>2. left' \in [Sockets -> 0..(MaxEndpoints - 1)]
    <3>1. CASE NextEndpoint(h.sock) /\ left' = [left EXCEPT ![h.sock] = @ - 1]
      <4>1. left[h.sock] - 1 \in 0..(MaxEndpoints - 1)
        BY <2>1, <3>1, MaxEndpointsAssumption DEF NextEndpoint
      <4>2. QED BY <3>1, <4>1 DEF SocketTypeOK
    <3>2. CASE left' = left
      BY <3>2 DEF SocketTypeOK
    <3>3. QED BY <1>7, <3>1, <3>2 DEF ASIO_Connect_Handler
  <2>3. op' \in [Sockets -> Operations]
    BY <1>2, <1>7
    DEF ASIO_Connect_Handler, Connecting, WrapperReads, SocketTypeOK, Operations
  <2>4. isOpen' \in [Sockets -> BOOLEAN]
    BY <1>2, <1>7 DEF ASIO_Connect_Handler, Connecting, SocketTypeOK
  <2>5. transport' \in [Sockets -> {"idle", "connected", "closed", "dead"}]
    BY <1>2, <1>7 DEF ASIO_Connect_Handler, SocketTypeOK
  <2>6. ready' = Tail(ready) /\ sock' = sock
    BY <1>7 DEF ASIO_Connect_Handler
  <2>7. QED
    BY <1>1, <1>4, <2>2, <2>3, <2>4, <2>5, <2>6 DEF SocketTypeOK
<1>8. CASE ASIO_Read_Handler(h)
  BY <1>1, <1>2, <1>4, <1>8
  DEF ASIO_Read_Handler, WrapperReads, SocketTypeOK, Operations
<1>9. CASE RemoveSocket(h)
  <2>1. Interrupted(h.sock) \in Seq(Completions) BY <1>2, InterruptedType
  <2>2. ready' \in Seq(Completions)
    BY <1>1, <1>9, <2>1, ConcatProperties DEF RemoveSocket
  <2>3. QED
    BY <1>1, <1>2, <1>4, <1>9, <2>2
    DEF RemoveSocket, AfterClose, SocketTypeOK, Operations
<1>10. QED BY <1>3, <1>5, <1>6, <1>7, <1>8, <1>9 DEF CallHandler

(* A handler that throws takes its completion off the queue and stops.     *)
LEMMA ThrowsType ==
    ASSUME SocketTypeOK, PollThrows
    PROVE  SocketTypeOK'
<1>1. Tail(ready) \in Seq(Completions) BY TailType DEF PollThrows, SocketTypeOK
<1>2. QED BY <1>1 DEF PollThrows, ConnectHandlerThrows, SocketTypeOK

LEMMA ReleaseType ==
    ASSUME SocketTypeOK, NEW s \in Sockets, ReleaseSocket(s)
    PROVE  /\ ready' \in Seq(Completions)
           /\ isOpen' \in [Sockets -> BOOLEAN]
           /\ op' \in [Sockets -> Operations]
<1>1. Interrupted(s) \in Seq(Completions) BY InterruptedType
<1>2. <<Done("remove", s, "ok")>> \in Seq(Completions)
  BY DEF Done, Completions, Results
<1>3. ready' \in Seq(Completions)
  BY <1>1, <1>2, ConcatProperties DEF ReleaseSocket, SocketTypeOK
<1>4. QED BY <1>3 DEF ReleaseSocket, AfterClose, SocketTypeOK, Operations

-----------------------------------------------------------------------------
(* What waits in a queue.                                                  *)

QueueOf(q) == {q[i] : i \in 1..Len(q)}

(* Taking the head off a queue, or appending to it, does just that to the  *)
(* set of what waits in it.                                                *)
LEMMA QueueTail ==
    ASSUME NEW S, NEW q \in Seq(S), q # <<>>
    PROVE  QueueOf(q) = QueueOf(Tail(q)) \cup {Head(q)}
<1>1. /\ Len(Tail(q)) = Len(q) - 1
      /\ \A i \in 1..Len(Tail(q)) : Tail(q)[i] = q[i + 1]
      /\ Len(q) \in Nat /\ Len(q) # 0
    BY HeadTailProperties, LenProperties, EmptySeq
<1>2. Head(q) = q[1]
    BY EmptySeq
<1>3. ASSUME NEW i \in 1..Len(q) PROVE q[i] \in QueueOf(Tail(q)) \cup {Head(q)}
    <2>1. CASE i = 1
        BY <1>2, <2>1
    <2>2. CASE i # 1
        <3>1. i - 1 \in 1..Len(Tail(q)) /\ Tail(q)[i - 1] = q[i]
            BY <1>1, <2>2
        <3> QED BY <3>1 DEF QueueOf
    <2> QED BY <2>1, <2>2
<1>4. ASSUME NEW i \in 1..Len(Tail(q)) PROVE Tail(q)[i] \in QueueOf(q)
    <2>1. i + 1 \in 1..Len(q)
        BY <1>1
    <2> QED BY <1>1, <2>1 DEF QueueOf
<1>5. Head(q) \in QueueOf(q)
    BY <1>1, <1>2 DEF QueueOf
<1> QED BY <1>3, <1>4, <1>5 DEF QueueOf

LEMMA QueueAppend ==
    ASSUME NEW S, NEW q \in Seq(S), NEW c \in S
    PROVE  QueueOf(Append(q, c)) = QueueOf(q) \cup {c}
<1> DEFINE a == Append(q, c)
<1>1. /\ Len(a) = Len(q) + 1 /\ Len(q) \in Nat
      /\ \A i \in 1..Len(q) : a[i] = q[i]
      /\ a[Len(q) + 1] = c
    <2>1. a \in Seq(S) /\ Len(a) = Len(q) + 1
        BY AppendProperties
    <2>2. \A i \in 1..Len(q) : a[i] = q[i]
        BY AppendProperties
    <2>3. a[Len(q) + 1] = c
        BY AppendProperties
    <2> QED BY <2>1, <2>2, <2>3, LenProperties
<1> HIDE DEF a
<1>2. 1..Len(a) = 1..Len(q) \cup {Len(q) + 1}
    BY <1>1
<1>3. QueueOf(a) = QueueOf(q) \cup {c}
    BY <1>1, <1>2 DEF QueueOf
<1> QED BY <1>3 DEF a

(* What Close interrupts joins the queue, for the same socket.             *)
LEMMA QueueInterrupted ==
    ASSUME NEW q \in Seq(Completions), NEW s \in Sockets
    PROVE  /\ q \o Interrupted(s) \in Seq(Completions)
           /\ QueueOf(q) \subseteq QueueOf(q \o Interrupted(s))
           /\ \A c \in QueueOf(q \o Interrupted(s)) : c \in QueueOf(q) \/ c.sock = s
<1>1. CASE op[s] \in {"connect", "read"}
    <2> DEFINE c == Done(op[s], s, "error")
    <2>1. c \in Completions /\ c.sock = s
        BY <1>1 DEF Done, Completions, Results
    <2>2. q \o Interrupted(s) = q \o <<c>>
        BY <1>1 DEF Interrupted
    <2> HIDE DEF c
    <2>3. q \o Interrupted(s) = Append(q, c)
        BY <2>1, <2>2, AppendIsConcat
    <2> QED BY <2>1, <2>3, QueueAppend, AppendProperties
<1>2. CASE op[s] \notin {"connect", "read"}
    <2>1. q \o Interrupted(s) = q
        BY <1>2, ConcatEmptySeq DEF Interrupted
    <2> QED BY <2>1
<1> QED BY <1>1, <1>2

(* What waits is a completion.                                             *)
LEMMA QueuedType ==
    ASSUME SocketTypeOK, NEW c \in Queued
    PROVE  c \in Completions /\ c.sock \in Sockets
<1>1. PICK i \in 1..Len(ready) : c = ready[i] BY DEF Queued
<1>2. ready[i] \in Completions BY <1>1, ElementOfSeq DEF SocketTypeOK
<1>3. QED BY <1>1, <1>2 DEF Completions
=============================================================================
