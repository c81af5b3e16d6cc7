------------------------ MODULE HarnessSessionProofs ------------------------
(***************************************************************************)
(* What is proved of the two harnesses, for any number of sockets,         *)
(* endpoints and engines, any faults and any requests: a released socket   *)
(* has one removal, only the first connection is served, and no request    *)
(* writes behind an object's values.                                       *)
(***************************************************************************)
EXTENDS HarnessSession, TcpSocketProofs

-----------------------------------------------------------------------------
(* The inductive invariant, in parts.                                      *)

(* For OneRemoval: a posted removal is the only one of its socket, which   *)
(* is in the list until it is carried out, as m_pSocket always is.         *)
RemovalsOnce(q, state, held) ==
    \A i \in 1..Len(q) :
        q[i].call = "remove" =>
            /\ state[q[i].sock] = "listed"
            /\ q[i].sock # held
            /\ \A j \in 1..Len(q) : q[j].call = "remove" /\ q[j].sock = q[i].sock => j = i

RemovalInv ==
    /\ RemovalsOnce(ready, sock, m_pSocket)
    /\ m_pSocket # NoSocket => sock[m_pSocket] = "listed"

(* For LoopEndsOnlyWithCause: a socket that connects was opened by its     *)
(* resolver's handler, and is closed only when it is released.             *)
Released(s) == Done("remove", s, "ok") \in Queued \/ sock[s] = "removed"

ConnectInv ==
    \A s \in Sockets :
        /\ sock[s] = "new" => op[s] = "none" /\ \A c \in Queued : c.sock # s
        /\ op[s] = "connect" => isOpen[s] \/ Released(s)
        /\ \A c \in Queued :
              c.call = "connect" /\ c.sock = s => isOpen[s] \/ Released(s)

(* For OnlyFirstIsServed: the accept is outstanding only before there is   *)
(* an accepted connection, and only the accepted connection has seen an    *)
(* AARE; the others have seen nothing but their end.                       *)
AcceptInv ==
    /\ accepting => serving = NoSocket
    /\ acceptor = 0 => serving = NoSocket /\ ~accepting

ConfirmedInv ==
    /\ \A s \in Sockets : engine[s] = "open" => s = serving
    /\ ready \in Seq({c \in Completions : c.res = "AARE" => c.sock = serving})
    /\ \A s \in Sockets \ {serving} : down[s] \in Seq({"RST"})

FirstInv == AcceptInv /\ ConfirmedInv

(* For ReadsLatestSet: it is true of what the engines' objects hold.       *)
KeptInv ==
    \A e \in Engines : \A i \in 0..(Size - 1) :
        Latest(log, Len(log) + 1, e, i, m_Values[e]["Data"][i])

-----------------------------------------------------------------------------
(* Removals in a queue.                                                    *)

(* Taking off the head, and removing the socket it was for, if it was a    *)
(* removal, leaves the other removals what they are.                       *)
LEMMA OnceTail ==
    ASSUME NEW q \in Seq(Completions), q # <<>>,
           NEW st, NEW held, RemovalsOnce(q, st, held),
           NEW st2,
           \A s \in Sockets : st2[s] = st[s] \/ (Head(q).call = "remove" /\ Head(q).sock = s)
    PROVE  RemovalsOnce(Tail(q), st2, held)
<1>1. /\ Tail(q) \in Seq(Completions) /\ Len(Tail(q)) = Len(q) - 1
      /\ \A i \in 1..Len(Tail(q)) : Tail(q)[i] = q[i + 1]
      /\ Len(q) \in Nat
    BY HeadTailProperties, LenProperties
<1>2. Head(q) = q[1] /\ 1 \in 1..Len(q)
    BY EmptySeq, LenProperties
<1> DEFINE t == Tail(q)
<1>3. SUFFICES ASSUME NEW i \in 1..Len(t), t[i].call = "remove"
               PROVE  /\ st2[t[i].sock] = "listed"
                      /\ t[i].sock # held
                      /\ \A j \in 1..Len(t) :
                            t[j].call = "remove" /\ t[j].sock = t[i].sock => j = i
    BY DEF RemovalsOnce
<1>4. t[i] = q[i + 1] /\ i + 1 \in 1..Len(q) /\ i \in Nat
    BY <1>1
<1> HIDE DEF t
<1>5. q[i + 1] \in Completions
    BY <1>4, ElementOfSeq
<1>6. q[i + 1].sock \in Sockets
    BY <1>5 DEF Completions
<1>7. /\ st[q[i + 1].sock] = "listed"
      /\ q[i + 1].sock # held
      /\ \A j \in 1..Len(q) :
            q[j].call = "remove" /\ q[j].sock = q[i + 1].sock => j = i + 1
    BY <1>3, <1>4 DEF RemovalsOnce
<1>8. ~(Head(q).call = "remove" /\ Head(q).sock = q[i + 1].sock)
    <2>1. 1 # i + 1
        BY <1>3, <1>1 DEF t
    <2> QED BY <1>2, <1>7, <2>1
<1>9. \A j \in 1..Len(t) : t[j].call = "remove" /\ t[j].sock = t[i].sock => j = i
    <2>1. SUFFICES ASSUME NEW j \in 1..Len(t), t[j].call = "remove", t[j].sock = t[i].sock
                   PROVE  j = i
        OBVIOUS
    <2>2. t[j] = q[j + 1] /\ j + 1 \in 1..Len(q) /\ j \in Nat
        BY <1>1 DEF t
    <2>3. j + 1 = i + 1
        BY <1>4, <1>7, <2>1, <2>2
    <2> QED BY <1>4, <2>2, <2>3
<1> QED BY <1>4, <1>6, <1>7, <1>8, <1>9

(* A completion that is no removal may join the queue.                     *)
LEMMA OnceAppend ==
    ASSUME NEW q \in Seq(Completions), NEW st, NEW held, RemovalsOnce(q, st, held),
           NEW c \in Completions, c.call # "remove"
    PROVE  RemovalsOnce(Append(q, c), st, held)
<1> DEFINE a == Append(q, c)
<1>1. /\ Len(a) = Len(q) + 1 /\ Len(q) \in Nat
      /\ \A i \in 1..Len(q) : a[i] = q[i]
      /\ a[Len(q) + 1] = c
    <2>1. a \in Seq(Completions) /\ Len(a) = Len(q) + 1
        BY AppendProperties
    <2>2. \A i \in 1..Len(q) : a[i] = q[i]
        BY AppendProperties
    <2>3. a[Len(q) + 1] = c
        BY AppendProperties
    <2> QED BY <2>1, <2>2, <2>3, LenProperties
<1> HIDE DEF a
<1>2. \A i \in 1..Len(a) : a[i].call = "remove" => i \in 1..Len(q) /\ a[i] = q[i]
    BY <1>1
<1> QED BY <1>2 DEF RemovalsOnce, a

(* What Close interrupts is no removal.                                    *)
LEMMA OnceInterrupted ==
    ASSUME NEW q \in Seq(Completions), NEW st, NEW held, RemovalsOnce(q, st, held),
           NEW s \in Sockets
    PROVE  RemovalsOnce(q \o Interrupted(s), st, held)
<1>1. CASE op[s] \in {"connect", "read"}
    <2> DEFINE c == Done(op[s], s, "error")
    <2>1. c \in Completions /\ c.call # "remove"
        BY <1>1 DEF Done, Completions, Results
    <2>2. q \o Interrupted(s) = Append(q, c)
        <3>1. q \o Interrupted(s) = q \o <<c>>
            BY <1>1 DEF Interrupted
        <3> HIDE DEF c
        <3> QED BY <2>1, <3>1, AppendIsConcat
    <2> HIDE DEF c
    <2> QED BY <2>1, <2>2, OnceAppend
<1>2. CASE op[s] \notin {"connect", "read"}
    <2>1. q \o Interrupted(s) = q
        BY <1>2, ConcatEmptySeq DEF Interrupted
    <2> QED BY <2>1
<1> QED BY <1>1, <1>2

(* The removal of a socket that has none joins, and nobody holds it then.  *)
LEMMA OnceRemoval ==
    ASSUME NEW q \in Seq(Completions), NEW st, NEW held, RemovalsOnce(q, st, held),
           NEW c \in Completions, c.call = "remove", c.sock = held, st[c.sock] = "listed"
    PROVE  RemovalsOnce(Append(q, c), st, NoSocket)
<1> DEFINE a == Append(q, c)
<1>1. /\ Len(a) = Len(q) + 1 /\ Len(q) \in Nat
      /\ \A i \in 1..Len(q) : a[i] = q[i] /\ q[i] \in Completions
      /\ a[Len(q) + 1] = c
    <2>1. a \in Seq(Completions) /\ Len(a) = Len(q) + 1
        BY AppendProperties
    <2>2. \A i \in 1..Len(q) : a[i] = q[i]
        BY AppendProperties
    <2>3. a[Len(q) + 1] = c
        BY AppendProperties
    <2>4. \A i \in 1..Len(q) : q[i] \in Completions
        BY ElementOfSeq
    <2> QED BY <2>1, <2>2, <2>3, <2>4, LenProperties
<1> HIDE DEF a
<1>2. \A x \in Completions : x.sock # NoSocket
    BY MaxSocketsAssumption DEF Completions, Sockets, NoSocket
<1>3. \A i \in 1..Len(a) : \/ i \in 1..Len(q) /\ a[i] = q[i] /\ a[i].sock # NoSocket
                           \/ i = Len(q) + 1 /\ a[i] = c
    BY <1>1, <1>2
<1>4. \A i \in 1..Len(q) : q[i].call = "remove" => q[i].sock # held
    BY DEF RemovalsOnce
<1>5. SUFFICES ASSUME NEW i \in 1..Len(a), a[i].call = "remove"
               PROVE  /\ st[a[i].sock] = "listed"
                      /\ a[i].sock # NoSocket
                      /\ \A j \in 1..Len(a) :
                            a[j].call = "remove" /\ a[j].sock = a[i].sock => j = i
    BY DEF RemovalsOnce, a
<1>6. CASE i \in 1..Len(q) /\ a[i] = q[i] /\ a[i].sock # NoSocket
    BY <1>3, <1>4, <1>5, <1>6 DEF RemovalsOnce
<1>7. CASE i = Len(q) + 1 /\ a[i] = c
    BY <1>2, <1>3, <1>4, <1>5, <1>7
<1> QED BY <1>3, <1>6, <1>7

(* The pointer may move to a socket that was not in the list before.       *)
LEMMA OnceCreated ==
    ASSUME NEW q \in Seq(Completions), NEW st \in [Sockets -> {"new", "listed", "removed"}],
           NEW held, RemovalsOnce(q, st, held),
           NEW s \in Sockets, st[s] = "new"
    PROVE  RemovalsOnce(q, [st EXCEPT ![s] = "listed"], s)
<1>1. \A i \in 1..Len(q) : q[i] \in Completions
    BY ElementOfSeq
<1>2. \A i \in 1..Len(q) : q[i].sock \in Sockets
    BY <1>1 DEF Completions
<1> QED BY <1>2 DEF RemovalsOnce

-----------------------------------------------------------------------------
(* Types.  What the safety theorems need of ServerTypeOK, beside the       *)
(* client's TypeOK.                                                        *)

WireTypeOK ==
    /\ TypeOK
    /\ engines \in Seq({"tcp", "serial"})
    /\ serving \in Sockets \cup {NoSocket}
    /\ backlog \in Seq(Sockets)
    /\ up \in [Sockets -> Seq(Segments)]
    /\ down \in [Sockets -> Seq(ToClient)]

(* The handler that is called leaves the queue; only a removal changes the *)
(* list, and what it interrupts joins the queue.                           *)
LEMMA PollEffect ==
    ASSUME SocketTypeOK, PollOne \/ PollThrows
    PROVE  /\ ready # <<>> /\ Head(ready) \in Completions
           /\ Tail(ready) \in Seq(Completions)
           /\ \/ sock' = sock /\ ready' = Tail(ready)
              \/ /\ Head(ready).call = "remove"
                 /\ sock' = [sock EXCEPT ![Head(ready).sock] = "removed"]
                 /\ ready' = Tail(ready) \o Interrupted(Head(ready).sock)
<1>1. ready \in Seq(Completions) /\ ready # <<>>
    BY DEF SocketTypeOK, PollOne, PollThrows
<1>2. Head(ready) \in Completions /\ Tail(ready) \in Seq(Completions)
    BY <1>1, HeadTailProperties
<1> DEFINE h == Head(ready)
<1>3. CallHandler(h) \/ ConnectHandlerThrows(h)
    BY DEF PollOne, PollThrows
<1> HIDE DEF h
<1>4. \/ sock' = sock /\ ready' = Tail(ready)
      \/ /\ h.call = "remove"
         /\ sock' = [sock EXCEPT ![h.sock] = "removed"]
         /\ ready' = Tail(ready) \o Interrupted(h.sock)
    <2>1. CASE ConnectHandlerThrows(h)
        BY <2>1 DEF ConnectHandlerThrows, h
    <2>2. CASE CallHandler(h)
        BY <2>2 DEF CallHandler, DanglingHandler, ASIO_Resolver_Handler,
                    ASIO_Connect_Handler, ASIO_Read_Handler, RemoveSocket, h
    <2> QED BY <1>3, <2>1, <2>2
<1> QED BY <1>1, <1>2, <1>4 DEF h

(* The client's loop keeps the client's types.                             *)
LEMMA RunType ==
    ASSUME TypeOK, Run
    PROVE  TypeOK'
<1>1. SocketTypeOK'
    BY PollType, ThrowsType DEF TypeOK, Run
<1> DEFINE h == Head(ready)
<1>2. engine \in [Sockets -> {"none", "asked", "open"}]
    BY DEF TypeOK
<1>3. EngineHears(h) \in [Sockets -> {"none", "asked", "open"}]
    BY <1>2 DEF EngineHears
<1>4. QED BY <1>1, <1>2, <1>3 DEF TypeOK, Run

(* A selection that asks, or sends what the client keeps nothing of.       *)
OnlyAsks == UNCHANGED <<socketVars, created, m_pSocket, m_pClientEngine, engine>>

Questions == {"none", "A", "1", "2", "3", "4"}

(* So do its selections: 0, A, 1 to 5 and T.                               *)
LEMMA SelectionType ==
    ASSUME TypeOK,
           \/ TCPConnect \/ COSEMOpen \/ COSEMRelease \/ COSEMRelease_NullEngine
           \/ TCPDisconnect \/ Exit
           \/ OnlyAsks /\ question' \in Questions
    PROVE  TypeOK'
<1>1. CASE TCPConnect
    <2>1. created + 1 \in Sockets
        BY <1>1, MaxSocketsAssumption DEF TCPConnect, TypeOK, Sockets
    <2>2. created' \in 0..MaxSockets
        BY <1>1, <2>1 DEF TCPConnect, Sockets
    <2>3. sock' \in [Sockets -> {"new", "listed", "removed"}]
        BY <1>1, <2>1 DEF TCPConnect, CreateSocket, TypeOK, SocketTypeOK
    <2>4. isOpen' \in [Sockets -> BOOLEAN] /\ op' \in [Sockets -> Operations]
        BY <1>1, <2>1 DEF TCPConnect, OpenClient, OpenFails, TypeOK, SocketTypeOK, Operations
    <2> QED BY <1>1, <2>1, <2>2, <2>3, <2>4 DEF TCPConnect, Answered, TypeOK, SocketTypeOK
<1>2. CASE COSEMOpen
    BY <1>2 DEF COSEMOpen, Answered, TypeOK, SocketTypeOK, socketVars
<1>3. CASE COSEMRelease
    <2>1. stopped' \in BOOLEAN
        BY <1>3 DEF COSEMRelease
    <2> QED BY <1>3, <2>1 DEF COSEMRelease, TypeOK, SocketTypeOK
<1>4. CASE COSEMRelease_NullEngine
    BY <1>4 DEF COSEMRelease_NullEngine, TypeOK, SocketTypeOK, menuVars
<1>5. CASE TCPDisconnect
    <2>1. m_pSocket \in Sockets
        BY <1>5 DEF TCPDisconnect, TypeOK
    <2>2. /\ ready' \in Seq(Completions)
          /\ isOpen' \in [Sockets -> BOOLEAN]
          /\ op' \in [Sockets -> Operations]
        BY <1>5, <2>1, ReleaseType DEF TCPDisconnect, TypeOK
    <2> QED BY <1>5, <2>2 DEF TCPDisconnect, TypeOK, SocketTypeOK
<1>6. CASE Exit
    BY <1>6 DEF Exit, TypeOK, SocketTypeOK, menuVars
<1>7. CASE OnlyAsks /\ question' \in Questions
    BY <1>7 DEF OnlyAsks, Questions, TypeOK, SocketTypeOK, socketVars
<1> QED BY <1>1, <1>2, <1>3, <1>4, <1>5, <1>6, <1>7

(* A completion the kernel reports, or a resolution, with what it appends  *)
(* to the queue.                                                           *)
LEMMA CompletionType ==
    ASSUME TypeOK, NEW s \in Sockets, UNCHANGED menuVars,
           \/ ResolveDone(s)
           \/ \E res \in Results : ConnectDone(s, res) \/ ReadDone(s, res)
    PROVE  TypeOK'
<1>1. SocketTypeOK
    BY DEF TypeOK
<1>2. CASE ResolveDone(s)
    BY <1>1, <1>2, ResolveType DEF TypeOK, menuVars
<1>3. ASSUME NEW res \in Results, ConnectDone(s, res) \/ ReadDone(s, res)
      PROVE  TypeOK'
    <2>1. left' \in [Sockets -> 0..(MaxEndpoints - 1)]
        BY <1>1, <1>3 DEF ConnectDone, ReadDone, SocketTypeOK
    <2>2. PICK call \in {"connect", "read"} : Complete(call, s, res)
        BY <1>3 DEF ConnectDone, ReadDone
    <2>3. SocketTypeOK'
        BY <1>1, <2>1, <2>2, CompleteType
    <2> QED BY <2>3 DEF TypeOK, menuVars
<1> QED BY <1>2, <1>3

-----------------------------------------------------------------------------
(* What the steps of one side do to the other.                             *)

LEMMA SegmentTypes ==
    /\ \A k \in {"AARQ", "RLRQ", "FIN", "RST"} : Signal(k) \in Segments
    /\ Requests \subseteq Segments
BY DEF Segments

LEMMA SentType ==
    ASSUME WireTypeOK, NEW s, NEW segment \in Segments
    PROVE  Sent(s, segment) \in [Sockets -> Seq(Segments)]
<1>1. up \in [Sockets -> Seq(Segments)]
    BY DEF WireTypeOK
<1>2. CASE s \in Sockets
    <2>1. Append(up[s], segment) \in Seq(Segments)
        BY <1>1, <1>2, AppendProperties
    <2> QED BY <1>1, <2>1 DEF Sent
<1>3. CASE s \notin Sockets
    BY <1>1, <1>3 DEF Sent
<1> QED BY <1>2, <1>3

LEMMA ClosingType ==
    ASSUME WireTypeOK, Closing
    PROVE  up' \in [Sockets -> Seq(Segments)]
<1>1. up \in [Sockets -> Seq(Segments)]
    BY DEF WireTypeOK
<1>2. Signal("FIN") \in Segments
    BY SegmentTypes
<1>3. \A s \in Sockets : Append(up[s], Signal("FIN")) \in Seq(Segments)
    BY <1>1, <1>2, AppendProperties
<1> QED BY <1>1, <1>3 DEF Closing

(* The menu's number for a request is one of its selections.               *)
LEMMA SelectionQuestion ==
    ASSUME NEW q \in Requests
    PROVE  Selection(q) \in Questions
<1>1. q.kind \in {"get", "set", "action"}
    BY RequestsAssumption
<1> QED BY <1>1 DEF Selection, Questions

(* Selections that only ask, or are answered.                              *)
LEMMA AskingEffect ==
    /\ AskAddress \/ AskSecurity \/ AskRequest \/ NothingSent
           => OnlyAsks /\ question' \in Questions
    /\ \A q \in Requests : Request(q) => OnlyAsks /\ question' \in Questions
<1>1. AskAddress \/ AskSecurity => OnlyAsks /\ question' \in Questions
    BY DEF AskAddress, AskSecurity, Asks, OnlyAsks, Questions
<1>2. ASSUME AskRequest PROVE OnlyAsks /\ question' \in Questions
    <2>1. PICK q \in Requests : AskDescriptor(Selection(q))
        BY <1>2 DEF AskRequest
    <2>2. Asks(Selection(q))
        BY <2>1 DEF AskDescriptor
    <2> QED BY <2>2, SelectionQuestion DEF Asks, OnlyAsks
<1>3. NothingSent => OnlyAsks /\ question' \in Questions
    BY DEF NothingSent, Answered, OnlyAsks, Questions
<1>4. \A q \in Requests : Request(q) => OnlyAsks /\ question' \in Questions
    BY DEF Request, COSEMRequest, Answered, OnlyAsks, Questions
<1> QED BY <1>1, <1>2, <1>3, <1>4

(* The client sends, or hangs up, and touches nothing else of the server.  *)
LEMMA ClientEffect ==
    ASSUME WireTypeOK, ClientStep \/ Running
    PROVE  /\ TypeOK'
           /\ \/ TCPConnect \/ COSEMOpen \/ COSEMRelease \/ COSEMRelease_NullEngine
              \/ TCPDisconnect \/ Exit \/ Run \/ OnlyAsks
           /\ UNCHANGED <<engines, acceptor, accepting, serving, backlog, ended, behind, down>>
           /\ up' \in [Sockets -> Seq(Segments)]
<1>0. TypeOK /\ up \in [Sockets -> Seq(Segments)]
    BY DEF WireTypeOK
<1>1. CASE Quiet(TCPConnect)
    BY <1>0, <1>1, SelectionType DEF Quiet, serverVars
<1>2. CASE Open1
    <2>1. up' \in [Sockets -> Seq(Segments)]
        BY <1>2, SentType, SegmentTypes DEF Open1
    <2> QED BY <1>0, <1>2, <2>1, SelectionType DEF Open1
<1>3. CASE Release
    <2>1. up' \in [Sockets -> Seq(Segments)]
        BY <1>3, SentType, ClosingType, SegmentTypes DEF Release
    <2> QED BY <1>0, <1>3, <2>1, SelectionType DEF Release
<1>4. ASSUME NEW q \in Requests, Request(q)
      PROVE  /\ TypeOK'
             /\ OnlyAsks
             /\ UNCHANGED <<engines, acceptor, accepting, serving, backlog, ended, behind, down>>
             /\ up' \in [Sockets -> Seq(Segments)]
    <2>1. up' \in [Sockets -> Seq(Segments)]
        BY <1>4, SentType, SegmentTypes DEF Request
    <2>2. OnlyAsks /\ question' \in Questions
        BY <1>4, AskingEffect
    <2>3. TypeOK'
        BY <1>0, <2>2, SelectionType
    <2> QED BY <1>4, <2>1, <2>2, <2>3 DEF Request
<1>5. CASE Closes(COSEMRelease_NullEngine) \/ Closes(TCPDisconnect) \/ Closes(Exit)
    <2>1. up' \in [Sockets -> Seq(Segments)]
        BY <1>5, ClosingType DEF Closes
    <2> QED BY <1>0, <1>5, <2>1, SelectionType DEF Closes
<1>6. CASE Running
    <2>1. up' \in [Sockets -> Seq(Segments)]
        BY <1>6, ClosingType DEF Running, Closes
    <2> QED BY <1>0, <1>6, <2>1, RunType DEF Running, Closes
<1>7. CASE Quiet(AskAddress) \/ Quiet(AskSecurity) \/ Quiet(AskRequest) \/ Quiet(NothingSent)
    <2>1. OnlyAsks /\ question' \in Questions
        BY <1>7, AskingEffect DEF Quiet
    <2>2. TypeOK'
        BY <1>0, <2>1, SelectionType
    <2>3. UNCHANGED serverVars
        BY <1>7 DEF Quiet
    <2> QED BY <1>0, <2>1, <2>2, <2>3 DEF serverVars
<1> QED BY <1>1, <1>2, <1>3, <1>4, <1>5, <1>6, <1>7 DEF ClientStep

(* The accept is issued when the first engine listens, and ends with the   *)
(* head of the backlog.                                                    *)
AcceptorEffect ==
    \/ UNCHANGED <<acceptor, accepting, serving, backlog>>
    \/ /\ acceptor = 0 /\ acceptor' # 0
       /\ UNCHANGED <<serving, backlog>>
    \/ /\ accepting /\ ~accepting' /\ acceptor' = acceptor
       /\ backlog # <<>> /\ serving' = Head(backlog) /\ backlog' = Tail(backlog)

(* The server sends on the accepted connection only, but for the resets    *)
(* when it ends.                                                           *)
DownEffect ==
    \/ down' = down
    \/ /\ serving \in Sockets /\ serving' = serving
       /\ \E reply \in Replies : down' = [down EXCEPT ![serving] = Append(@, reply)]
    \/ ended' /\ down' = Resets

UpEffect ==
    \/ up' = up
    \/ serving \in Sockets /\ up[serving] # <<>> /\ Consume

LEMMA AnsweringEffect ==
    ASSUME WireTypeOK, NEW kinds, Incoming(kinds), serving' = serving,
           NEW reply \in Replies, down' = Answering(reply)
    PROVE  DownEffect
BY DEF WireTypeOK, Incoming, Answering, DownEffect

LEMMA IncomingEffect ==
    ASSUME WireTypeOK, NEW kinds, Incoming(kinds), Consume
    PROVE  UpEffect
BY DEF WireTypeOK, Incoming, UpEffect

-----------------------------------------------------------------------------
(* The objects.                                                            *)

LEMMA OutcomeInside ==
    \A o, res, data, values : o = Outcome(res, data, values) => ~o.behind
BY DEF Outcome

(* Only a string is stored, and only instances below ten admit one.        *)
LEMMA StoredInside ==
    ASSUME NEW q, NEW mv, Known(q), q.kind = "set",
           NEW o \in InternalSet(q, mv)
    PROVE  ~o.behind
<1>1. CASE q.type \in Schema(q.class, q.id) /\ q.type = "visible_string"
    <2>1. q.class # "Disconnect"
        BY <1>1 DEF Schema
    <2>2. Instances(q.class) \subseteq 0..9
        BY <2>1 DEF Instances
    <2>3. q.e \in Instances(q.class)
        BY DEF Known
    <2>4. q.e < Size
        BY <2>2, <2>3, SMT DEF Size
    <2>5. o = Outcome("success", "", [mv EXCEPT ![q.class][q.e] = q.value])
        BY <1>1, <2>4 DEF InternalSet, Stored
    <2> QED BY <2>5 DEF Outcome
<1>2. CASE ~(q.type \in Schema(q.class, q.id) /\ q.type = "visible_string")
    <2>1. o = Outcome("type_unmatched", "", mv)
        BY <1>2 DEF InternalSet
    <2> QED BY <2>1 DEF Outcome
<1> QED BY <1>1, <1>2

LEMMA OutcomesInside ==
    ASSUME NEW q \in Requests \cup LineRequests, NEW mv, NEW o \in Outcomes(q, mv)
    PROVE  ~o.behind
<1>1. q.kind \in {"get", "set", "action"}
    BY RequestsAssumption
<1>2. CASE ~Known(q)
    <2>1. o = Outcome("object_undefined", "", mv)
        BY <1>2 DEF Outcomes
    <2> QED BY <2>1, OutcomeInside
<1>3. CASE Known(q) /\ q.kind = "get"
    <2>1. o \in InternalGet(q, mv) /\ q.class \in Classes
        BY <1>3 DEF Outcomes, Known
    <2>2. CASE q.class = "Data"
        BY <2>1, <2>2 DEF InternalGet, DataGet, Outcome
    <2>3. CASE q.class = "Disconnect"
        BY <2>1, <2>3 DEF InternalGet, DisconnectGet, Outcome
    <2>4. CASE q.class = "ImageTransfer"
        <3>1. o \in ImageTransferGet(q, mv)
            BY <2>1, <2>4 DEF InternalGet
        <3>2. PICK res, data : o = Outcome(res, data, mv)
            BY <3>1 DEF ImageTransferGet, Unavailable
        <3> QED BY <3>2, OutcomeInside
    <2>5. CASE q.class = "Clock"
        <3>1. o = Outcome("object_unavailable", "", mv)
            BY <2>1, <2>5 DEF InternalGet, ClockGet, Unavailable
        <3> QED BY <3>1, OutcomeInside
    <2> QED BY <2>1, <2>2, <2>3, <2>4, <2>5 DEF Classes
<1>4. CASE Known(q) /\ q.kind = "set" /\ q.class \in Keeping
    <2>1. o \in InternalSet(q, mv)
        BY <1>4 DEF Outcomes
    <2> QED BY <1>4, <2>1, StoredInside
<1>5. CASE Known(q) /\ q.kind = "set" /\ q.class \notin Keeping
    <2>1. o \in InheritedSet(q, mv)
        BY <1>5 DEF Outcomes
    <2>2. PICK res : o = Outcome(res, "", mv)
        BY <2>1 DEF InheritedSet
    <2> QED BY <2>2, OutcomeInside
<1>6. CASE Known(q) /\ q.kind = "action"
    <2>1. o \in InternalAction(q, mv) /\ q.class \in Classes /\ q.id \in Methods(q.class)
        BY <1>6 DEF Outcomes, Known
    <2>2. q.class # "Data"
        BY <2>1 DEF Methods
    <2>3. PICK res : o = Outcome(res, "", mv)
        BY <2>1, <2>2
        DEF InternalAction, DisconnectAction, ImageTransferAction, ClockAction,
            Unavailable, Classes
    <2> QED BY <2>3, OutcomeInside
<1> QED BY <1>1, <1>2, <1>3, <1>4, <1>5, <1>6

LEMMA PerformInside ==
    ASSUME NEW e, NEW q \in Requests \cup LineRequests, Perform(e, q)
    PROVE  behind' => behind
<1>1. CASE e \notin association
    BY <1>1 DEF Perform
<1>2. CASE e \in association
    <2>1. PICK o \in Outcomes(q, m_Values[e]) : behind' = (behind \/ o.behind)
        BY <1>2 DEF Perform
    <2>2. ~o.behind
        BY OutcomesInside
    <2> QED BY <2>1, <2>2
<1> QED BY <1>1, <1>2

(* The server's steps, as the connections see them.                        *)
LEMMA ServerEffect ==
    ASSUME WireTypeOK,
           ServerSelection \/ SerialServerAnswered \/ ServerStep \/ LineStep
    PROVE  /\ ~ended
           /\ engines' \in Seq({"tcp", "serial"})
           /\ AcceptorEffect /\ DownEffect /\ UpEffect
           /\ behind' => behind
<1>0. engines \in Seq({"tcp", "serial"}) /\ backlog \in Seq(Sockets)
    BY DEF WireTypeOK
<1>1. ASSUME NEW over \in {"tcp", "serial"}, NewEngine(over)
      PROVE  engines' \in Seq({"tcp", "serial"}) /\ Len(engines') # 0
    <2>1. engines' = Append(engines, over)
        BY <1>1 DEF NewEngine
    <2>2. engines' \in Seq({"tcp", "serial"}) /\ Len(engines') = Len(engines) + 1
        BY <1>0, <2>1, AppendProperties
    <2>3. Len(engines) \in Nat
        BY <1>0, LenProperties
    <2> QED BY <2>2, <2>3
<1>2. CASE TCPServer
    <2>1. NewEngine("tcp")
        BY <1>2 DEF TCPServer
    <2>2. engines' \in Seq({"tcp", "serial"}) /\ Len(engines') # 0
        BY <1>1, <2>1
    <2>3. AcceptorEffect
        BY <1>2, <2>2 DEF TCPServer, AcceptorEffect
    <2> QED BY <1>2, <2>2, <2>3 DEF TCPServer, Looping, DownEffect, UpEffect
<1>3. CASE SerialServer
    BY <1>0, <1>3 DEF SerialServer, Looping, AcceptorEffect, DownEffect, UpEffect
<1>4. CASE ExitServer
    BY <1>0, <1>4 DEF ExitServer, Looping, AcceptorEffect, DownEffect, UpEffect
<1>5. CASE SerialServerAnswered
    <2>1. NewEngine("serial")
        BY <1>5 DEF SerialServerAnswered
    <2>2. engines' \in Seq({"tcp", "serial"})
        BY <1>1, <2>1
    <2> QED BY <1>5, <2>2 DEF SerialServerAnswered, AcceptorEffect, DownEffect, UpEffect
<1>6. CASE ASIO_Accept_Handler
    BY <1>0, <1>6
    DEF ASIO_Accept_Handler, Looping, AcceptorEffect, DownEffect, UpEffect
<1>12. CASE Accept_Handler_Throws
    BY <1>0, <1>12
    DEF Accept_Handler_Throws, Looping, AcceptorEffect, DownEffect, UpEffect
<1>7. CASE OpenRequest
    <2>1. DownEffect /\ UpEffect
        BY <1>7, AnsweringEffect, IncomingEffect DEF OpenRequest, Replies
    <2> QED BY <1>0, <1>7, <2>1 DEF OpenRequest, Incoming, Looping, AcceptorEffect
<1>8. CASE ReleaseRequest
    <2>1. DownEffect /\ UpEffect
        BY <1>8, AnsweringEffect, IncomingEffect DEF ReleaseRequest, Replies
    <2> QED BY <1>0, <1>8, <2>1 DEF ReleaseRequest, Incoming, Looping, AcceptorEffect
<1>9. CASE ServiceRequest
    <2>1. UpEffect
        BY <1>9, IncomingEffect DEF ServiceRequest
    <2>2. DownEffect
        <3>1. CASE ended'
            BY <1>9, <3>1 DEF ServiceRequest, DownEffect
        <3>2. CASE ~ended'
            BY <1>9, <3>2, AnsweringEffect DEF ServiceRequest, Replies
        <3> QED BY <3>1, <3>2
    <2>3. serving \in Sockets /\ up[serving] # <<>> /\ up[serving] \in Seq(Segments)
        BY <1>9 DEF ServiceRequest, Incoming, WireTypeOK
    <2>4. Head(up[serving]) \in Segments
        BY <2>3, HeadTailProperties
    <2>5. Head(up[serving]).kind \in {"get", "set", "action"}
        BY <1>9 DEF ServiceRequest, Incoming
    <2>6. Head(up[serving]) \in Requests
        BY <2>4, <2>5 DEF Segments, Signal
    <2>7. behind' => behind
        BY <1>9, <2>6, PerformInside DEF ServiceRequest
    <2> QED BY <1>0, <1>9, <2>1, <2>2, <2>7 DEF ServiceRequest, Incoming, Looping, AcceptorEffect
<1>10. CASE ConnectionCloses
    <2>1. UpEffect
        BY <1>10, IncomingEffect DEF ConnectionCloses
    <2> QED BY <1>0, <1>10, <2>1 DEF ConnectionCloses, Incoming, Looping, AcceptorEffect, DownEffect
<1>11. ASSUME NEW e \in lines, LineAssociation(e) \/ LineRequest(e)
       PROVE  /\ ~ended
              /\ engines' \in Seq({"tcp", "serial"})
              /\ AcceptorEffect /\ DownEffect /\ UpEffect
              /\ behind' => behind
    <2>1. CASE LineAssociation(e)
        BY <1>0, <2>1 DEF LineAssociation, Looping, AcceptorEffect, DownEffect, UpEffect
    <2>2. CASE LineRequest(e)
        <3>1. behind' => behind
            BY <2>2, PerformInside DEF LineRequest
        <3>2. DownEffect
            BY <2>2 DEF LineRequest, DownEffect
        <3> QED BY <1>0, <2>2, <3>1, <3>2 DEF LineRequest, Looping, AcceptorEffect, UpEffect
    <2> QED BY <1>11, <2>1, <2>2
<1> QED
    BY <1>2, <1>3, <1>4, <1>5, <1>6, <1>7, <1>8, <1>9, <1>10, <1>11, <1>12
    DEF ServerSelection, ServerStep, LineStep

-----------------------------------------------------------------------------
(* The types are kept.                                                     *)

LEMMA ResetsType ==
    ASSUME WireTypeOK
    PROVE  Resets \in [Sockets -> Seq(ToClient)]
<1>1. down \in [Sockets -> Seq(ToClient)] /\ "RST" \in ToClient
    BY DEF WireTypeOK, ToClient
<1>2. \A s \in Sockets : Append(down[s], "RST") \in Seq(ToClient)
    BY <1>1, AppendProperties
<1> QED BY <1>1, <1>2 DEF Resets

LEMMA ServerType ==
    ASSUME WireTypeOK, UNCHANGED vars, engines' \in Seq({"tcp", "serial"}),
           AcceptorEffect, DownEffect, UpEffect
    PROVE  WireTypeOK'
<1>0. /\ serving \in Sockets \cup {NoSocket} /\ backlog \in Seq(Sockets)
      /\ up \in [Sockets -> Seq(Segments)] /\ down \in [Sockets -> Seq(ToClient)]
    BY DEF WireTypeOK
<1>1. TypeOK'
    BY DEF vars, socketVars, menuVars, WireTypeOK, TypeOK, SocketTypeOK
<1>2. serving' \in Sockets \cup {NoSocket} /\ backlog' \in Seq(Sockets)
    BY <1>0, HeadTailProperties DEF AcceptorEffect
<1>3. up' \in [Sockets -> Seq(Segments)]
    <2>1. CASE up' = up
        BY <1>0, <2>1
    <2>2. CASE serving \in Sockets /\ up[serving] # <<>> /\ Consume
        <3>1. Tail(up[serving]) \in Seq(Segments)
            BY <1>0, <2>2, HeadTailProperties
        <3> QED BY <1>0, <2>2, <3>1 DEF Consume
    <2> QED BY <2>1, <2>2 DEF UpEffect
<1>4. down' \in [Sockets -> Seq(ToClient)]
    <2>1. ASSUME serving \in Sockets, NEW reply \in Replies,
                 down' = [down EXCEPT ![serving] = Append(@, reply)]
          PROVE  down' \in [Sockets -> Seq(ToClient)]
        <3>1. reply \in ToClient
            BY DEF ToClient
        <3>2. Append(down[serving], reply) \in Seq(ToClient)
            BY <1>0, <2>1, <3>1, AppendProperties
        <3> QED BY <1>0, <2>1, <3>2
    <2> QED BY <1>0, <2>1, ResetsType DEF DownEffect
<1> QED BY <1>1, <1>2, <1>3, <1>4 DEF WireTypeOK

LEMMA DeliveryType ==
    ASSUME WireTypeOK, NEW s \in Sockets, Delivery(s)
    PROVE  /\ WireTypeOK'
           /\ Head(down[s]) \in ToClient /\ Tail(down[s]) \in Seq(ToClient)
<1>0. down \in [Sockets -> Seq(ToClient)] /\ down[s] # <<>>
    BY DEF WireTypeOK, Delivery
<1>1. Head(down[s]) \in ToClient /\ Tail(down[s]) \in Seq(ToClient)
    BY <1>0, HeadTailProperties
<1> DEFINE res == IF Head(down[s]) = "RST" THEN "error" ELSE Head(down[s])
<1>2. res \in Results
    BY <1>1 DEF ToClient, Results
<1>3. ReadDone(s, res) /\ UNCHANGED menuVars
    BY DEF Delivery
<1> HIDE DEF res
<1>4. TypeOK'
    BY <1>2, <1>3, CompletionType DEF WireTypeOK
<1>5. down' \in [Sockets -> Seq(ToClient)]
    BY <1>0, <1>1 DEF Delivery
<1> QED BY <1>1, <1>4, <1>5 DEF Delivery, WireTypeOK

LEMMA ConnectionType ==
    ASSUME WireTypeOK, NEW s \in Sockets, Connection(s)
    PROVE  WireTypeOK'
<1>1. \E res \in Results : ConnectDone(s, res)
    BY DEF Connection, Results
<1>2. TypeOK'
    BY <1>1, CompletionType DEF Connection, WireTypeOK
<1>3. backlog' \in Seq(Sockets)
    <2>1. backlog \in Seq(Sockets)
        BY DEF WireTypeOK
    <2>2. Append(backlog, s) \in Seq(Sockets)
        BY <2>1, AppendProperties
    <2> QED BY <2>1, <2>2 DEF Connection
<1> QED BY <1>2, <1>3 DEF Connection, WireTypeOK

LEMMA ResolutionType ==
    ASSUME WireTypeOK, NEW s \in Sockets, Resolution(s)
    PROVE  WireTypeOK'
<1>1. TypeOK'
    BY CompletionType DEF Resolution, WireTypeOK
<1> QED BY <1>1 DEF Resolution, WireTypeOK, serverVars

(* A connection that breaks carries nothing but that.                      *)
LEMMA ResetType ==
    ASSUME WireTypeOK, NEW s \in Sockets, Reset(s)
    PROVE  WireTypeOK'
<1>1. TypeOK'
    BY DEF Reset, vars, socketVars, menuVars, WireTypeOK, TypeOK, SocketTypeOK
<1>2. <<Signal("RST")>> \in Seq(Segments) /\ <<"RST">> \in Seq(ToClient)
    BY SegmentTypes DEF ToClient
<1>3. up' \in [Sockets -> Seq(Segments)] /\ down' \in [Sockets -> Seq(ToClient)]
    BY <1>2 DEF Reset, WireTypeOK
<1> QED BY <1>1, <1>3 DEF Reset, WireTypeOK

LEMMA WireTypeInit == SessionInit => WireTypeOK
<1> SUFFICES ASSUME SessionInit PROVE WireTypeOK
    OBVIOUS
<1>1. SocketTypeOK
    BY SocketInitType DEF SessionInit, Init
<1>2. TypeOK
    BY <1>1, MaxSocketsAssumption DEF SessionInit, Init, TypeOK
<1>3. <<>> \in Seq(Segments) /\ <<>> \in Seq(ToClient) /\ <<>> \in Seq(Sockets)
          /\ <<>> \in Seq({"tcp", "serial"})
    BY EmptySeq
<1> QED BY <1>2, <1>3 DEF SessionInit, ServerInit, WireTypeOK

LEMMA WireTypeNext == WireTypeOK /\ [SessionNext]_session => WireTypeOK'
<1> SUFFICES ASSUME WireTypeOK, [SessionNext]_session PROVE WireTypeOK'
    OBVIOUS
<1>1. CASE ClientStep \/ Running
    BY <1>1, ClientEffect DEF WireTypeOK
<1>2. CASE Kernel
    BY <1>2, ResolutionType, ConnectionType, DeliveryType DEF Kernel
<1>3. CASE /\ ServerSelection \/ SerialServerAnswered \/ ServerStep \/ LineStep
           /\ UNCHANGED vars
    BY <1>3, ServerEffect, ServerType
<1>4. CASE UNCHANGED session
    BY <1>4 DEF session, vars, socketVars, menuVars, serverVars, WireTypeOK, TypeOK, SocketTypeOK
<1>5. ASSUME NEW s \in Sockets, Reset(s) PROVE WireTypeOK'
    BY <1>5, ResetType
<1> QED BY <1>1, <1>2, <1>3, <1>4, <1>5 DEF SessionNext, Server

-----------------------------------------------------------------------------
(* One removal for each released socket.                                   *)

LEMMA RemovalClient ==
    ASSUME TypeOK, RemovalInv,
           \/ TCPConnect \/ COSEMOpen \/ COSEMRelease \/ COSEMRelease_NullEngine
           \/ TCPDisconnect \/ Exit \/ Run \/ OnlyAsks
    PROVE  RemovalInv'
<1>0. /\ ready \in Seq(Completions) /\ sock \in [Sockets -> {"new", "listed", "removed"}]
      /\ SocketTypeOK /\ m_pSocket \in Sockets \cup {NoSocket}
      /\ RemovalsOnce(ready, sock, m_pSocket)
      /\ m_pSocket # NoSocket => sock[m_pSocket] = "listed"
    BY DEF TypeOK, SocketTypeOK, RemovalInv
<1>1. CASE TCPConnect
    <2> DEFINE s == created + 1
    <2>1. s \in Sockets
        BY <1>1, MaxSocketsAssumption DEF TCPConnect, TypeOK, Sockets
    <2>2. /\ sock[s] = "new" /\ sock' = [sock EXCEPT ![s] = "listed"]
          /\ ready' = ready /\ m_pSocket' = s
        BY <1>1 DEF TCPConnect, CreateSocket
    <2> HIDE DEF s
    <2>3. RemovalsOnce(ready, [sock EXCEPT ![s] = "listed"], s)
        BY <1>0, <2>1, <2>2, OnceCreated
    <2> QED BY <1>0, <2>1, <2>2, <2>3 DEF RemovalInv
<1>2. CASE UNCHANGED <<ready, sock, m_pSocket>>
    BY <1>2 DEF RemovalInv
<1>3. CASE TCPDisconnect
    <2> DEFINE p == m_pSocket
               c == Done("remove", p, "ok")
    <2>1. p \in Sockets /\ ReleaseSocket(p) /\ m_pSocket' = NoSocket /\ sock' = sock
        BY <1>0, <1>3 DEF TCPDisconnect
    <2>2. c \in Completions /\ c.call = "remove" /\ c.sock = p
        BY <2>1 DEF Done, Completions, Results
    <2>3. Interrupted(p) \in Seq(Completions)
        BY <2>1, InterruptedType
    <2>4. ready \o Interrupted(p) \in Seq(Completions)
        BY <1>0, <2>3, ConcatProperties
    <2>5. ready' = (ready \o Interrupted(p)) \o <<c>>
        BY <2>1 DEF ReleaseSocket
    <2>6. ready' = Append(ready \o Interrupted(p), c)
        <3> HIDE DEF c, p
        <3> QED BY <2>2, <2>4, <2>5, AppendIsConcat
    <2>7. RemovalsOnce(ready \o Interrupted(p), sock, p)
        BY <1>0, <2>1, OnceInterrupted
    <2>8. sock[p] = "listed"
        BY <2>1 DEF ReleaseSocket
    <2> HIDE DEF c, p
    <2>9. RemovalsOnce(Append(ready \o Interrupted(p), c), sock, NoSocket)
        BY <2>2, <2>4, <2>7, <2>8, OnceRemoval
    <2> QED BY <2>1, <2>6, <2>9 DEF RemovalInv
<1>4. CASE Run
    <2> DEFINE h == Head(ready)
               t == Tail(ready)
    <2>1. /\ ready # <<>> /\ h \in Completions /\ t \in Seq(Completions)
          /\ \/ sock' = sock /\ ready' = t
             \/ /\ h.call = "remove"
                /\ sock' = [sock EXCEPT ![h.sock] = "removed"]
                /\ ready' = t \o Interrupted(h.sock)
        BY <1>0, <1>4, PollEffect DEF Run
    <2>2. m_pSocket' = m_pSocket
        BY <1>4 DEF Run
    <2>3. h.sock \in Sockets
        BY <2>1 DEF Completions
    <2>4. h = ready[1] /\ 1 \in 1..Len(ready)
        BY <1>0, <2>1, EmptySeq, LenProperties
    <2>5. \A s \in Sockets : sock'[s] = sock[s] \/ (h.call = "remove" /\ h.sock = s)
        BY <1>0, <2>1
    <2>6. RemovalsOnce(t, sock', m_pSocket)
        <3> HIDE DEF h, t
        <3>1. \A s \in Sockets : sock'[s] = sock[s] \/ (Head(ready).call = "remove" /\ Head(ready).sock = s)
            BY <2>5 DEF h
        <3>2. RemovalsOnce(Tail(ready), sock', m_pSocket)
            BY <1>0, <2>1, <3>1, OnceTail
        <3> QED BY <3>2 DEF t
    <2>7. RemovalsOnce(ready', sock', m_pSocket)
        <3> HIDE DEF h, t
        <3>1. CASE ready' = t
            BY <2>6, <3>1
        <3>2. CASE ready' = t \o Interrupted(h.sock)
            <4>1. RemovalsOnce(t \o Interrupted(h.sock), sock', m_pSocket)
                BY <2>1, <2>3, <2>6, OnceInterrupted
            <4> QED BY <3>2, <4>1
        <3> QED BY <2>1, <3>1, <3>2
    <2>8. m_pSocket # NoSocket => sock'[m_pSocket] = "listed"
        <3>1. h.call = "remove" => h.sock # m_pSocket
            BY <1>0, <2>4 DEF RemovalsOnce
        <3> HIDE DEF h
        <3> QED BY <1>0, <2>5, <3>1
    <2> QED BY <2>2, <2>7, <2>8 DEF RemovalInv
<1> QED
    BY <1>1, <1>2, <1>3, <1>4
    DEF COSEMOpen, COSEMRelease, COSEMRelease_NullEngine, Exit, OnlyAsks, socketVars, menuVars

(* What the kernel completes is no removal.                                *)
LEMMA RemovalKernel ==
    ASSUME TypeOK, RemovalInv, NEW s \in Sockets, UNCHANGED menuVars,
           \/ ResolveDone(s)
           \/ \E res \in Results : ConnectDone(s, res) \/ ReadDone(s, res)
    PROVE  RemovalInv'
<1>1. PICK call \in {"resolver", "connect", "read"}, res \in Results : Complete(call, s, res)
    BY DEF ResolveDone, ConnectDone, ReadDone, Results
<1> DEFINE c == Done(call, s, res)
<1>2. c \in Completions /\ c.call # "remove"
    BY DEF Done, Completions
<1>3. ready' = Append(ready, c) /\ sock' = sock /\ m_pSocket' = m_pSocket
    BY <1>1 DEF Complete, menuVars
<1> HIDE DEF c
<1>4. ready \in Seq(Completions) /\ RemovalsOnce(ready, sock, m_pSocket)
    BY DEF TypeOK, SocketTypeOK, RemovalInv
<1>5. RemovalsOnce(Append(ready, c), sock, m_pSocket)
    BY <1>2, <1>4, OnceAppend
<1> QED BY <1>3, <1>5 DEF RemovalInv

LEMMA RemovalNext == WireTypeOK /\ RemovalInv /\ [SessionNext]_session => RemovalInv'
<1> SUFFICES ASSUME WireTypeOK, RemovalInv, [SessionNext]_session PROVE RemovalInv'
    OBVIOUS
<1>0. TypeOK
    BY DEF WireTypeOK
<1>1. CASE ClientStep \/ Running
    BY <1>0, <1>1, ClientEffect, RemovalClient
<1>2. ASSUME NEW s \in Sockets, Resolution(s) \/ Connection(s) \/ Delivery(s)
      PROVE  RemovalInv'
    <2>1. CASE Resolution(s)
        BY <1>0, <2>1, RemovalKernel DEF Resolution
    <2>2. CASE Connection(s)
        <3>1. \E res \in Results : ConnectDone(s, res)
            BY <2>2 DEF Connection, Results
        <3>2. UNCHANGED menuVars
            BY <2>2 DEF Connection
        <3> QED BY <1>0, <3>1, <3>2, RemovalKernel
    <2>3. CASE Delivery(s)
        <3>1. Head(down[s]) \in ToClient
            BY <2>3, DeliveryType
        <3>2. \E res \in Results : ReadDone(s, res)
            BY <2>3, <3>1 DEF Delivery, ToClient, Results
        <3>3. UNCHANGED menuVars
            BY <2>3 DEF Delivery
        <3> QED BY <1>0, <3>2, <3>3, RemovalKernel
    <2> QED BY <1>2, <2>1, <2>2, <2>3
<1>3. CASE UNCHANGED vars
    BY <1>0, <1>3, RemovalClient DEF OnlyAsks, vars, menuVars
<1> QED BY <1>1, <1>2, <1>3 DEF SessionNext, Kernel, Reset, Server, session

LEMMA RemovalInit == SessionInit => RemovalInv
BY DEF SessionInit, Init, SocketInit, RemovalInv, RemovalsOnce, NoSocket

(* ReleaseSocket posts one removal for a socket, which T gives up with it: *)
(* neither a second T nor another A leads to the same socket again.        *)
THEOREM RemovedOnce == SessionSpec => []OneRemoval
<1>1. WireTypeOK /\ RemovalInv => OneRemoval
    <2> SUFFICES ASSUME WireTypeOK, RemovalInv, NEW s \in Sockets
                 PROVE  /\ \A i, j \in Posted(s) : i = j
                        /\ sock[s] = "removed" => Posted(s) = {}
                        /\ Posted(s) # {} \/ sock[s] = "removed" => m_pSocket # s
        BY DEF OneRemoval
    <2>1. \A i \in Posted(s) : /\ i \in 1..Len(ready)
                               /\ ready[i].call = "remove" /\ ready[i].sock = s
        BY DEF Posted, Done
    <2>2. s # NoSocket
        BY MaxSocketsAssumption DEF Sockets, NoSocket
    <2>3. RemovalsOnce(ready, sock, m_pSocket) /\ (m_pSocket # NoSocket => sock[m_pSocket] = "listed")
        BY DEF RemovalInv
    <2> QED BY <2>1, <2>2, <2>3 DEF RemovalsOnce
<1>2. SessionInit => WireTypeOK /\ RemovalInv
    BY WireTypeInit, RemovalInit
<1>3. WireTypeOK /\ RemovalInv /\ [SessionNext]_session => (WireTypeOK /\ RemovalInv)'
    BY WireTypeNext, RemovalNext
<1> QED BY <1>1, <1>2, <1>3, PTL DEF SessionSpec

-----------------------------------------------------------------------------
(* Only the first connection.                                              *)

Confirmable == {c \in Completions : c.res = "AARE" => c.sock = serving}

(* What the loop is called with, and what it queues, confirms no other     *)
(* connection.                                                             *)
LEMMA FirstClient ==
    ASSUME WireTypeOK, FirstInv,
           UNCHANGED <<acceptor, accepting, serving, ended, down>>,
           \/ TCPConnect \/ COSEMOpen \/ COSEMRelease \/ COSEMRelease_NullEngine
           \/ TCPDisconnect \/ Exit \/ Run \/ OnlyAsks
    PROVE  FirstInv'
<1>0. /\ ready \in Seq(Completions) /\ ready \in Seq(Confirmable)
      /\ SocketTypeOK /\ m_pSocket \in Sockets \cup {NoSocket}
      /\ engine \in [Sockets -> {"none", "asked", "open"}]
      /\ \A s \in Sockets : engine[s] = "open" => s = serving
    BY DEF WireTypeOK, TypeOK, SocketTypeOK, FirstInv, ConfirmedInv, Confirmable
<1>1. SUFFICES /\ ready' \in Seq(Confirmable)
               /\ \A s \in Sockets : engine'[s] = "open" => s = serving
    BY DEF FirstInv, AcceptInv, ConfirmedInv, Confirmable
<1>2. CASE UNCHANGED <<ready, engine>>
    BY <1>0, <1>2
<1>3. CASE COSEMOpen
    BY <1>0, <1>3 DEF COSEMOpen, socketVars
<1>4. CASE COSEMRelease
    BY <1>0, <1>4 DEF COSEMRelease
<1>5. \A s \in Sockets : Interrupted(s) \in Seq(Confirmable)
    <2>1. SUFFICES ASSUME NEW s \in Sockets PROVE Interrupted(s) \in Seq(Confirmable)
        OBVIOUS
    <2>2. CASE op[s] \in {"connect", "read"}
        <3>1. Done(op[s], s, "error") \in Confirmable
            BY <2>2 DEF Done, Confirmable, Completions, Results
        <3> QED BY <2>2, <3>1 DEF Interrupted
    <2>3. CASE op[s] \notin {"connect", "read"}
        BY <2>3 DEF Interrupted
    <2> QED BY <2>2, <2>3
<1>6. CASE TCPDisconnect
    <2> DEFINE p == m_pSocket
    <2>1. p \in Sockets /\ ReleaseSocket(p) /\ engine' = engine
        BY <1>0, <1>6 DEF TCPDisconnect
    <2>2. Done("remove", p, "ok") \in Confirmable
        BY <2>1 DEF Done, Confirmable, Completions, Results
    <2>3. Interrupted(p) \in Seq(Confirmable)
        BY <1>5, <2>1
    <2>4. ready \o Interrupted(p) \in Seq(Confirmable)
        BY <1>0, <2>3, ConcatProperties
    <2>5. <<Done("remove", p, "ok")>> \in Seq(Confirmable)
        BY <2>2
    <2>6. ready' \in Seq(Confirmable)
        BY <2>1, <2>4, <2>5, ConcatProperties DEF ReleaseSocket
    <2> QED BY <1>0, <2>1, <2>6
<1>7. CASE Run
    <2> DEFINE h == Head(ready)
               t == Tail(ready)
    <2>1. /\ ready # <<>> /\ h \in Completions
          /\ ready' = t \/ ready' = t \o Interrupted(h.sock)
        BY <1>0, <1>7, PollEffect DEF Run
    <2>2. h \in Confirmable /\ t \in Seq(Confirmable)
        BY <1>0, <2>1, HeadTailProperties
    <2>3. engine' = EngineHears(h) \/ engine' = engine
        BY <1>7 DEF Run
    <2> HIDE DEF h, t
    <2>4. h.sock \in Sockets
        BY <2>1 DEF Completions
    <2>5. ready' \in Seq(Confirmable)
        BY <1>5, <2>1, <2>2, <2>4, ConcatProperties
    <2>6. \A s \in Sockets : engine'[s] = "open" => engine[s] = "open" \/ s = serving
        BY <1>0, <2>2, <2>3, <2>4 DEF EngineHears, Confirmable
    <2> QED BY <1>0, <2>5, <2>6
<1> QED
    BY <1>2, <1>3, <1>4, <1>6, <1>7, Zenon
    DEF TCPConnect, COSEMRelease_NullEngine, Exit, OnlyAsks, socketVars, menuVars

LEMMA FirstKernel ==
    ASSUME WireTypeOK, FirstInv, NEW s \in Sockets,
           Resolution(s) \/ Connection(s) \/ Delivery(s)
    PROVE  FirstInv'
<1>0. /\ ready \in Seq(Confirmable)
      /\ down \in [Sockets -> Seq(ToClient)]
      /\ \A t \in Sockets \ {serving} : down[t] \in Seq({"RST"})
    BY DEF WireTypeOK, FirstInv, ConfirmedInv, Confirmable
<1>1. UNCHANGED <<engine, acceptor, accepting, serving, ended>>
    BY DEF Resolution, Connection, Delivery, menuVars, serverVars
<1>2. /\ \A t \in Sockets : down'[t] = down[t] \/ (t = s /\ down[t] # <<>> /\ down'[t] = Tail(down[t]))
      /\ down' \in [Sockets -> Seq(ToClient)]
    <2>1. WireTypeOK'
        BY ResolutionType, ConnectionType, DeliveryType
    <2> QED BY <1>0, <2>1 DEF Resolution, Connection, Delivery, serverVars, WireTypeOK
<1>3. PICK call \in {"resolver", "connect", "read"}, res \in Results :
         Complete(call, s, res) /\ (res = "AARE" => s = serving)
    <2>1. CASE Resolution(s)
        BY <2>1 DEF Resolution, ResolveDone, Results
    <2>2. CASE Connection(s)
        BY <2>2 DEF Connection, ConnectDone, Results
    <2>3. CASE Delivery(s)
        <3> DEFINE res == IF Head(down[s]) = "RST" THEN "error" ELSE Head(down[s])
        <3>1. Head(down[s]) \in ToClient /\ down[s] # <<>>
            BY <2>3, DeliveryType DEF Delivery
        <3>2. res \in Results
            BY <3>1 DEF ToClient, Results
        <3>3. s # serving => Head(down[s]) # "AARE"
            <4>1. SUFFICES ASSUME s # serving PROVE Head(down[s]) # "AARE"
                OBVIOUS
            <4>2. down[s] \in Seq({"RST"})
                BY <1>0, <4>1
            <4>3. Head(down[s]) \in {"RST"}
                BY <3>1, <4>2, HeadTailProperties
            <4> QED BY <4>3
        <3>4. Complete("read", s, res)
            BY <2>3 DEF Delivery, ReadDone
        <3>5. res = "AARE" => s = serving
            BY <3>3
        <3> HIDE DEF res
        <3> QED BY <3>2, <3>4, <3>5
    <2> QED BY <2>1, <2>2, <2>3
<1>4. ready' \in Seq(Confirmable)
    <2> DEFINE c == Done(call, s, res)
    <2>1. c \in Confirmable
        BY <1>3 DEF Done, Confirmable, Completions
    <2>2. ready' = Append(ready, c)
        BY <1>3 DEF Complete
    <2> HIDE DEF c
    <2> QED BY <1>0, <2>1, <2>2, AppendProperties
<1>5. \A t \in Sockets \ {serving} : down'[t] \in Seq({"RST"})
    <2>1. SUFFICES ASSUME NEW t \in Sockets \ {serving}
                   PROVE  down'[t] \in Seq({"RST"})
        OBVIOUS
    <2>2. down[t] \in Seq({"RST"})
        BY <1>0
    <2>3. down[t] # <<>> => Tail(down[t]) \in Seq({"RST"})
        BY <2>2, HeadTailProperties
    <2> QED BY <1>2, <2>2, <2>3
<1> QED BY <1>1, <1>4, <1>5 DEF FirstInv, AcceptInv, ConfirmedInv, Confirmable

LEMMA FirstServer ==
    ASSUME WireTypeOK, FirstInv, UNCHANGED vars, ~ended, AcceptorEffect, DownEffect
    PROVE  FirstInv'
<1>0. /\ ready \in Seq(Confirmable)
      /\ serving \in Sockets \cup {NoSocket} /\ down \in [Sockets -> Seq(ToClient)]
      /\ \A s \in Sockets : engine[s] = "open" => s = serving
      /\ \A s \in Sockets \ {serving} : down[s] \in Seq({"RST"})
      /\ AcceptInv
    BY DEF WireTypeOK, FirstInv, ConfirmedInv, Confirmable
<1>1. NoSocket \notin Sockets
    BY MaxSocketsAssumption DEF Sockets, NoSocket
<1>2. serving' = serving \/ serving = NoSocket
    BY <1>0 DEF AcceptorEffect, AcceptInv
<1>3. AcceptInv'
    BY <1>0 DEF AcceptorEffect, AcceptInv
<1>4. engine' = engine /\ ready' = ready
    BY DEF vars, socketVars, menuVars
<1>5. \A s \in Sockets : s = serving => s = serving'
    BY <1>1, <1>2
<1>6. ready' \in Seq(Confirmable')
    <2>1. Confirmable \subseteq Confirmable'
        BY <1>5 DEF Confirmable, Completions
    <2>2. \A i \in 1..Len(ready) : ready[i] \in Confirmable'
        BY <1>0, <2>1, ElementOfSeq
    <2>3. ready \in [1..Len(ready) -> Confirmable'] /\ Len(ready) \in Nat
        BY <1>0, <2>2, LenProperties
    <2>4. ready \in Seq(Confirmable')
        BY <2>3, SeqDef
    <2> QED BY <1>4, <2>4
<1>7. \A s \in Sockets : \/ down'[s] = down[s]
                         \/ s = serving /\ serving' = serving
                         \/ ended' /\ down'[s] \in {down[s], Append(down[s], "RST")}
    BY <1>0 DEF DownEffect, Resets
<1>9. \A s \in Sockets \ {serving'} : down'[s] \in Seq({"RST"})
    <2>1. SUFFICES ASSUME NEW s \in Sockets \ {serving'}
                   PROVE  down'[s] \in Seq({"RST"})
        OBVIOUS
    <2>2. s # serving
        BY <1>5, <2>1
    <2>3. down[s] \in Seq({"RST"})
        BY <1>0, <2>2
    <2>5. Append(down[s], "RST") \in Seq({"RST"})
        BY <2>3, AppendProperties
    <2> QED BY <1>7, <2>2, <2>3, <2>5
<1>10. \A s \in Sockets : engine'[s] = "open" => s = serving'
    BY <1>0, <1>4, <1>5
<1>11. ConfirmedInv'
    BY <1>6, <1>9, <1>10 DEF ConfirmedInv, Confirmable
<1> QED BY <1>3, <1>11 DEF FirstInv

LEMMA FirstReset ==
    ASSUME WireTypeOK, FirstInv, NEW s \in Sockets, Reset(s)
    PROVE  FirstInv'
<1>1. /\ down \in [Sockets -> Seq(ToClient)]
      /\ \A t \in Sockets \ {serving} : down[t] \in Seq({"RST"})
    BY DEF WireTypeOK, FirstInv, ConfirmedInv
<1>2. \A t \in Sockets : down'[t] = down[t] \/ down'[t] = <<"RST">>
    BY <1>1 DEF Reset
<1>3. \A t \in Sockets \ {serving} : down'[t] \in Seq({"RST"})
    <2>1. <<"RST">> \in Seq({"RST"})
        OBVIOUS
    <2> QED BY <1>1, <1>2, <2>1
<1>4. UNCHANGED <<engine, ready, acceptor, accepting, serving>>
    BY DEF Reset, vars, socketVars, menuVars
<1> QED BY <1>3, <1>4 DEF FirstInv, AcceptInv, ConfirmedInv

LEMMA FirstNext == WireTypeOK /\ FirstInv /\ [SessionNext]_session => FirstInv'
<1> SUFFICES ASSUME WireTypeOK, FirstInv, [SessionNext]_session PROVE FirstInv'
    OBVIOUS
<1>1. CASE ClientStep \/ Running
    BY <1>1, ClientEffect, FirstClient
<1>2. CASE Kernel
    BY <1>2, FirstKernel DEF Kernel
<1>3. CASE /\ ServerSelection \/ SerialServerAnswered \/ ServerStep \/ LineStep
           /\ UNCHANGED vars
    BY <1>3, ServerEffect, FirstServer
<1>4. CASE UNCHANGED session
    BY <1>4, FirstClient DEF OnlyAsks, session, vars, menuVars, serverVars
<1>5. ASSUME NEW s \in Sockets, Reset(s) PROVE FirstInv'
    BY <1>5, FirstReset
<1> QED BY <1>1, <1>2, <1>3, <1>4, <1>5 DEF SessionNext, Server

LEMMA FirstInit == SessionInit => FirstInv
<1> SUFFICES ASSUME SessionInit PROVE FirstInv
    OBVIOUS
<1>1. AcceptInv
    BY DEF SessionInit, Init, ServerInit, AcceptInv
<1>2. ConfirmedInv
    <2>1. \A S : <<>> \in Seq(S)
        BY EmptySeq
    <2>2. ready = <<>> /\ \A s \in Sockets : down[s] = <<>> /\ engine[s] = "none"
        BY DEF SessionInit, Init, SocketInit, ServerInit
    <2> QED BY <2>1, <2>2 DEF ConfirmedInv
<1> QED BY <1>1, <1>2 DEF FirstInv

(* The one accept of the listening engine ends with the first connection   *)
(* the kernel completed, and only an accepted connection is answered: the  *)
(* client never has an association over another.                           *)
THEOREM FirstServed == SessionSpec => []OnlyFirstIsServed
<1>1. FirstInv => OnlyFirstIsServed
    <2> SUFFICES ASSUME FirstInv, NEW s \in Sockets, s # serving
                 PROVE  \A i \in 1..Len(down[s]) : down[s][i] = "RST"
        BY DEF FirstInv, ConfirmedInv, OnlyFirstIsServed
    <2>1. down[s] \in Seq({"RST"})
        BY DEF FirstInv, ConfirmedInv
    <2>2. \A i \in 1..Len(down[s]) : down[s][i] \in {"RST"}
        BY <2>1, ElementOfSeq
    <2> QED BY <2>2
<1>2. SessionInit => WireTypeOK /\ FirstInv
    BY WireTypeInit, FirstInit
<1>3. WireTypeOK /\ FirstInv /\ [SessionNext]_session => (WireTypeOK /\ FirstInv)'
    BY WireTypeNext, FirstNext
<1> QED BY <1>1, <1>2, <1>3, PTL DEF SessionSpec

-----------------------------------------------------------------------------
(* No set of any request, over TCP or over a line, stores behind an        *)
(* object's ten values: the instance numbered ten admits no string.        *)
THEOREM NothingBehind == SessionSpec => []NothingBehindTheArray
<1>1. SessionInit => WireTypeOK /\ NothingBehindTheArray
    <2>1. SessionInit => NothingBehindTheArray
        BY DEF SessionInit, ServerInit, NothingBehindTheArray
    <2> QED BY <2>1, WireTypeInit
<1>2. ASSUME WireTypeOK, NothingBehindTheArray, [SessionNext]_session
      PROVE  NothingBehindTheArray'
    <2>1. behind' => behind
        <3>1. CASE ClientStep \/ Running
            BY <1>2, <3>1, ClientEffect
        <3>2. CASE Kernel
            BY <3>2 DEF Kernel, Resolution, Connection, Delivery, serverVars
        <3>5. CASE \E s \in Sockets : Reset(s)
            BY <3>5 DEF Reset
        <3>3. CASE ServerSelection \/ SerialServerAnswered \/ ServerStep \/ LineStep
            BY <1>2, <3>3, ServerEffect
        <3>4. CASE UNCHANGED session
            BY <3>4 DEF session, serverVars
        <3> QED BY <1>2, <3>1, <3>2, <3>3, <3>4, <3>5 DEF SessionNext, Server
    <2> QED BY <1>2, <2>1 DEF NothingBehindTheArray
<1>3. WireTypeOK /\ NothingBehindTheArray /\ [SessionNext]_session
        => (WireTypeOK /\ NothingBehindTheArray)'
    BY <1>2, WireTypeNext
<1> QED BY <1>1, <1>3, PTL DEF SessionSpec

-----------------------------------------------------------------------------
(* The end of the loop.                                                    *)

(* The loop: a handler may start a connect, on a socket it opens.          *)
LEMMA ConnectRun ==
    ASSUME SocketTypeOK, ConnectInv, PollOne \/ PollThrows
    PROVE  ConnectInv'
<1> DEFINE h == Head(ready)
           t == Tail(ready)
<1>1. /\ ready \in Seq(Completions) /\ ready # <<>> /\ h \in Completions
      /\ t \in Seq(Completions) /\ (CallHandler(h) \/ ConnectHandlerThrows(h))
    BY PollEffect DEF SocketTypeOK, PollOne, PollThrows
<1>2. Queued = QueueOf(t) \cup {h} /\ Queued = QueueOf(ready) /\ Queued' = QueueOf(ready')
    BY <1>1, QueueTail DEF Queued, QueueOf
<1>3. h.sock \in Sockets
    BY <1>1 DEF Completions
<1>4. op \in [Sockets -> Operations] /\ isOpen \in [Sockets -> BOOLEAN]
      /\ sock \in [Sockets -> {"new", "listed", "removed"}]
    BY DEF SocketTypeOK
<1>5. sock[h.sock] # "new"
    BY <1>2, <1>3 DEF ConnectInv
<1> HIDE DEF h, t
<1>6. ASSUME sock' = sock, ready' = t, h.call # "remove",
             \A s \in Sockets \ {h.sock} : op'[s] = op[s] /\ isOpen'[s] = isOpen[s],
             op'[h.sock] = "connect" => isOpen'[h.sock] \/ (op[h.sock] = "connect" /\ isOpen'[h.sock] = isOpen[h.sock]),
             isOpen[h.sock] => isOpen'[h.sock]
      PROVE  ConnectInv'
    <2>1. Queued' \subseteq Queued
        BY <1>2, <1>6
    <2>2. \A s \in Sockets : Released(s) => Released(s)'
        <3>1. \A s \in Sockets : Done("remove", s, "ok") # h
            BY <1>6 DEF Done
        <3> QED BY <1>2, <1>6, <3>1 DEF Released
    <2>3. SUFFICES ASSUME NEW s \in Sockets
                   PROVE  /\ sock'[s] = "new" => op'[s] = "none" /\ \A c \in Queued' : c.sock # s
                          /\ op'[s] = "connect" => isOpen'[s] \/ Released(s)'
                          /\ \A c \in Queued' :
                                c.call = "connect" /\ c.sock = s => isOpen'[s] \/ Released(s)'
        BY DEF ConnectInv
    <2>4. isOpen[s] => isOpen'[s]
        BY <1>6
    <2>5. sock'[s] = "new" => op'[s] = "none"
        BY <1>5, <1>6 DEF ConnectInv
    <2> QED BY <1>6, <2>1, <2>2, <2>4, <2>5 DEF ConnectInv
<1>7. CASE DanglingHandler(h)
    BY <1>6, <1>7 DEF DanglingHandler, t, h
<1>8. CASE ConnectHandlerThrows(h)
    BY <1>6, <1>8 DEF ConnectHandlerThrows, t, h
<1>9. CASE ASIO_Resolver_Handler(h)
    BY <1>3, <1>4, <1>6, <1>9 DEF ASIO_Resolver_Handler, Connecting, t, h
<1>10. CASE ASIO_Connect_Handler(h)
    <2>1. sock' = sock /\ ready' = t /\ h.call # "remove"
        BY <1>10 DEF ASIO_Connect_Handler, t, h
    <2>2. \A s \in Sockets \ {h.sock} : op'[s] = op[s] /\ isOpen'[s] = isOpen[s]
        BY <1>3, <1>4, <1>10 DEF ASIO_Connect_Handler, Connecting, WrapperReads
    <2>3. /\ op'[h.sock] = "connect" =>
                isOpen'[h.sock] \/ (op[h.sock] = "connect" /\ isOpen'[h.sock] = isOpen[h.sock])
          /\ isOpen[h.sock] => isOpen'[h.sock]
        BY <1>3, <1>4, <1>10 DEF ASIO_Connect_Handler, Connecting, WrapperReads
    <2> QED BY <1>6, <2>1, <2>2, <2>3
<1>11. CASE ASIO_Read_Handler(h)
    BY <1>3, <1>4, <1>6, <1>11 DEF ASIO_Read_Handler, WrapperReads, t, h
<1>12. CASE RemoveSocket(h)
    <2>1. /\ sock' = [sock EXCEPT ![h.sock] = "removed"] /\ AfterClose(h.sock)
          /\ ready' = t \o Interrupted(h.sock)
        BY <1>12 DEF RemoveSocket, t, h
    <2>2. /\ \A s \in Sockets \ {h.sock} :
                op'[s] = op[s] /\ isOpen'[s] = isOpen[s] /\ sock'[s] = sock[s]
          /\ sock'[h.sock] = "removed"
        BY <1>3, <1>4, <2>1 DEF AfterClose
    <2>3. /\ QueueOf(t) \subseteq Queued'
          /\ \A c \in Queued' : c \in Queued \/ c.sock = h.sock
        BY <1>1, <1>2, <1>3, <2>1, QueueInterrupted
    <2>4. \A s \in Sockets : Released(s) => Released(s)'
        <3>1. \A s \in Sockets : Done("remove", s, "ok") = h => s = h.sock
            BY DEF Done
        <3> QED BY <1>2, <2>2, <2>3, <3>1 DEF Released
    <2>5. SUFFICES ASSUME NEW s \in Sockets
                   PROVE  /\ sock'[s] = "new" => op'[s] = "none" /\ \A c \in Queued' : c.sock # s
                          /\ op'[s] = "connect" => isOpen'[s] \/ Released(s)'
                          /\ \A c \in Queued' :
                                c.call = "connect" /\ c.sock = s => isOpen'[s] \/ Released(s)'
        BY DEF ConnectInv
    <2>6. CASE s = h.sock
        BY <2>2, <2>6 DEF Released
    <2>7. CASE s # h.sock
        BY <2>2, <2>3, <2>4, <2>7 DEF ConnectInv
    <2> QED BY <2>6, <2>7
<1> QED
    BY <1>1, <1>7, <1>8, <1>9, <1>10, <1>11, <1>12 DEF CallHandler

LEMMA ConnectKernel ==
    ASSUME SocketTypeOK, ConnectInv, NEW s \in Sockets,
           \/ ResolveDone(s)
           \/ \E res \in Results : ConnectDone(s, res) \/ ReadDone(s, res)
    PROVE  ConnectInv'
<1>1. PICK call \in {"resolver", "connect", "read"}, res \in Results :
         Complete(call, s, res) /\ op[s] # "none" /\ (call = "connect" => op[s] = "connect")
    BY DEF ResolveDone, ConnectDone, ReadDone, Results
<1> DEFINE c == Done(call, s, res)
<1>2. c \in Completions /\ c.call = call /\ c.sock = s
    BY DEF Done, Completions
<1>3. ready' = Append(ready, c) /\ sock' = sock /\ isOpen' = isOpen
         /\ op' = [op EXCEPT ![s] = "none"]
    BY <1>1 DEF Complete
<1> HIDE DEF c
<1>4. ready \in Seq(Completions) /\ op \in [Sockets -> Operations]
    BY DEF SocketTypeOK
<1>5. Queued' = Queued \cup {c}
    BY <1>2, <1>3, <1>4, QueueAppend DEF Queued, QueueOf
<1>6. \A u \in Sockets : Released(u) => Released(u)'
    BY <1>3, <1>5 DEF Released
<1> QED BY <1>1, <1>2, <1>3, <1>4, <1>5, <1>6 DEF ConnectInv

LEMMA ConnectSelection ==
    ASSUME TypeOK, ConnectInv,
           \/ TCPConnect \/ COSEMOpen \/ COSEMRelease \/ COSEMRelease_NullEngine
           \/ TCPDisconnect \/ Exit \/ OnlyAsks
    PROVE  ConnectInv'
<1>0. /\ ready \in Seq(Completions) /\ m_pSocket \in Sockets \cup {NoSocket}
      /\ op \in [Sockets -> Operations] /\ isOpen \in [Sockets -> BOOLEAN]
      /\ sock \in [Sockets -> {"new", "listed", "removed"}]
    BY DEF TypeOK, SocketTypeOK
<1>1. CASE TCPConnect
    <2> DEFINE p == created + 1
    <2>1. p \in Sockets
        BY <1>1, MaxSocketsAssumption DEF TCPConnect, TypeOK, Sockets
    <2>2. /\ sock[p] = "new" /\ sock' = [sock EXCEPT ![p] = "listed"] /\ ready' = ready
          /\ op' = [op EXCEPT ![p] = "resolve"] \/ op' = op
          /\ isOpen' = [isOpen EXCEPT ![p] = FALSE]
        BY <1>1 DEF TCPConnect, CreateSocket, OpenClient, OpenFails
    <2> HIDE DEF p
    <2>3. Queued' = Queued
        BY <2>2 DEF Queued
    <2>4. \A s \in Sockets : Released(s) => Released(s)'
        BY <1>0, <2>2, <2>3 DEF Released
    <2>5. op[p] = "none" /\ \A c \in Queued : c.sock # p
        BY <2>1, <2>2 DEF ConnectInv
    <2>6. \A s \in Sockets \ {p} : op'[s] = op[s] /\ isOpen'[s] = isOpen[s] /\ sock'[s] = sock[s]
        BY <1>0, <2>1, <2>2
    <2>7. op'[p] # "connect" /\ sock'[p] # "new"
        BY <1>0, <2>1, <2>2, <2>5
    <2> QED BY <2>3, <2>4, <2>5, <2>6, <2>7 DEF ConnectInv
<1>2. CASE UNCHANGED <<ready, sock, op, isOpen>>
    <2>1. Queued' = Queued
        BY <1>2 DEF Queued
    <2>2. \A s \in Sockets : Released(s) => Released(s)'
        BY <1>2, <2>1 DEF Released
    <2> QED BY <1>2, <2>1, <2>2 DEF ConnectInv
<1>3. CASE TCPDisconnect
    <2>1. PICK p \in Sockets : ReleaseSocket(p) /\ sock' = sock
        BY <1>0, <1>3 DEF TCPDisconnect
    <2> DEFINE c == Done("remove", p, "ok")
    <2>2. c \in Completions /\ c.sock = p /\ c.call = "remove"
        BY <2>1 DEF Done, Completions, Results
    <2>3. ready \o Interrupted(p) \in Seq(Completions)
        BY <1>0, <2>1, QueueInterrupted
    <2>4. ready' = (ready \o Interrupted(p)) \o <<c>>
        BY <2>1 DEF ReleaseSocket
    <2>5. ready' = Append(ready \o Interrupted(p), c)
        <3> HIDE DEF c
        <3> QED BY <2>2, <2>3, <2>4, AppendIsConcat
    <2>6. Queued = QueueOf(ready) /\ Queued' = QueueOf(ready')
        BY DEF Queued, QueueOf
    <2>7. /\ Queued \subseteq Queued' /\ c \in Queued'
          /\ \A d \in Queued' : d \in Queued \/ d.sock = p
        <3> DEFINE q == ready \o Interrupted(p)
        <3> HIDE DEF c
        <3>1. /\ QueueOf(ready) \subseteq QueueOf(q)
              /\ \A d \in QueueOf(q) : d \in QueueOf(ready) \/ d.sock = p
            BY <1>0, <2>1, QueueInterrupted
        <3> HIDE DEF q
        <3>2. q \in Seq(Completions)
            BY <2>3 DEF q
        <3>3. ready' = Append(q, c)
            BY <2>5 DEF q
        <3>4. c \in Completions
            BY <2>2
        <3>5. QueueOf(Append(q, c)) = QueueOf(q) \cup {c}
            BY <3>2, <3>4, QueueAppend
        <3> QED BY <2>2, <2>6, <3>1, <3>3, <3>5
    <2>8. \A s \in Sockets : Released(s) => Released(s)'
        BY <2>1, <2>7 DEF Released
    <2>9. Released(p)' /\ sock[p] = "listed"
        BY <2>1, <2>7 DEF Released, ReleaseSocket
    <2>10. \A s \in Sockets \ {p} : op'[s] = op[s] /\ isOpen'[s] = isOpen[s]
        BY <1>0, <2>1 DEF ReleaseSocket, AfterClose
    <2> HIDE DEF c
    <2>11. SUFFICES ASSUME NEW s \in Sockets
                    PROVE  /\ sock'[s] = "new" => op'[s] = "none" /\ \A d \in Queued' : d.sock # s
                           /\ op'[s] = "connect" => isOpen'[s] \/ Released(s)'
                           /\ \A d \in Queued' :
                                 d.call = "connect" /\ d.sock = s => isOpen'[s] \/ Released(s)'
        BY DEF ConnectInv
    <2>12. CASE s = p
        BY <2>1, <2>9, <2>12
    <2>13. CASE s # p
        BY <2>1, <2>7, <2>8, <2>10, <2>13 DEF ConnectInv
    <2> QED BY <2>12, <2>13
<1> QED
    BY <1>1, <1>2, <1>3, Zenon
    DEF COSEMOpen, COSEMRelease, COSEMRelease_NullEngine, Exit, OnlyAsks, socketVars, menuVars

LEMMA ConnectInit == SessionInit => ConnectInv
<1> SUFFICES ASSUME SessionInit PROVE ConnectInv
    OBVIOUS
<1>1. Queued = {}
    BY DEF SessionInit, Init, SocketInit, Queued
<1> QED BY <1>1 DEF SessionInit, Init, SocketInit, ConnectInv

LEMMA ConnectNext == WireTypeOK /\ ConnectInv /\ [SessionNext]_session => ConnectInv'
<1> SUFFICES ASSUME WireTypeOK, ConnectInv, [SessionNext]_session PROVE ConnectInv'
    OBVIOUS
<1>0. TypeOK /\ SocketTypeOK
    BY DEF WireTypeOK, TypeOK
<1>1. CASE ClientStep \/ Running
    <2>1. CASE Run
        BY <1>0, <2>1, ConnectRun DEF Run
    <2> QED BY <1>0, <1>1, <2>1, ClientEffect, ConnectSelection
<1>2. ASSUME NEW s \in Sockets, Resolution(s) \/ Connection(s) \/ Delivery(s)
      PROVE  ConnectInv'
    <2>1. CASE Resolution(s)
        BY <1>0, <2>1, ConnectKernel DEF Resolution
    <2>2. CASE Connection(s)
        <3>1. \E res \in Results : ConnectDone(s, res)
            BY <2>2 DEF Connection, Results
        <3> QED BY <1>0, <3>1, ConnectKernel
    <2>3. CASE Delivery(s)
        <3>1. Head(down[s]) \in ToClient
            BY <2>3, DeliveryType
        <3>2. \E res \in Results : ReadDone(s, res)
            BY <2>3, <3>1 DEF Delivery, ToClient, Results
        <3> QED BY <1>0, <3>2, ConnectKernel
    <2> QED BY <1>2, <2>1, <2>2, <2>3
<1>3. CASE UNCHANGED vars
    BY <1>0, <1>3, ConnectSelection DEF OnlyAsks, vars, menuVars
<1> QED BY <1>1, <1>2, <1>3 DEF SessionNext, Kernel, Reset, Server, session

(* With the menu's input outstanding the loop does not run out of work, so *)
(* it ends by selection 0, by selection 5 without an engine, by what a     *)
(* released socket leaves behind, or by a reset before the client heard    *)
(* that it is connected: remote_endpoint() throws for no other, and no     *)
(* handler meets a destroyed socket.                                       *)
THEOREM LoopEnds ==
    ASSUME OtherWork
    PROVE  SessionSpec => LoopEndsOnlyWithCause
<1> DEFINE Ends == ~stopped /\ stopped' =>
                       \/ Exit \/ COSEMRelease_NullEngine
                       \/ \E s \in Sockets :
                             Posted(s) # {} \/ sock[s] = "removed" \/ ResetOnArrival(s)
<1>1. ASSUME NEW s \in Sockets, Released(s)
      PROVE  Posted(s) # {} \/ sock[s] = "removed"
    BY <1>1 DEF Released, Queued, Posted
<1>2. ASSUME WireTypeOK, ConnectInv, [SessionNext]_session, ~stopped, stopped'
      PROVE  \/ Exit \/ COSEMRelease_NullEngine
             \/ \E s \in Sockets :
                   Posted(s) # {} \/ sock[s] = "removed" \/ ResetOnArrival(s)
    <2>1. CASE COSEMRelease
        <3>1. m_pClientEngine \in Sockets
            BY <1>2, <2>1 DEF COSEMRelease, WireTypeOK, TypeOK
        <3> QED BY <1>2, <2>1, <3>1 DEF COSEMRelease
    <2>2. CASE Run
        <3> DEFINE h == Head(ready)
        <3>1. /\ h \in Completions /\ ready \in Seq(Completions) /\ ready # <<>>
              /\ CallHandler(h) \/ ConnectHandlerThrows(h)
            BY <1>2, <2>2, PollEffect DEF Run, PollOne, PollThrows, WireTypeOK, TypeOK, SocketTypeOK
        <3>2. h \in Queued
            <4>1. h = ready[1] /\ 1 \in 1..Len(ready)
                BY <3>1, EmptySeq, LenProperties
            <4> QED BY <4>1 DEF Queued
        <3> HIDE DEF h
        <3>3. h.sock \in Sockets
            BY <3>1 DEF Completions
        <3>4. Work'
            BY DEF Work
        <3>5. CASE DanglingHandler(h)
            BY <3>3, <3>5 DEF DanglingHandler
        <3>6. CASE ConnectHandlerThrows(h)
            <4>1. CASE ~isOpen[h.sock]
                <5>1. Released(h.sock)
                    BY <1>2, <3>2, <3>3, <3>6, <4>1 DEF ConnectHandlerThrows, ConnectInv
                <5> QED BY <1>1, <3>3, <5>1
            <4>2. CASE ResetByPeer(h.sock)
                <5>1. h = Done("connect", h.sock, "ok")
                    BY <3>1, <3>6 DEF ConnectHandlerThrows, Completions, Done
                <5>2. ResetOnArrival(h.sock)
                    BY <3>1, <4>2, <5>1 DEF ResetOnArrival, h
                <5> QED BY <3>3, <5>2
            <4> QED BY <3>6, <4>1, <4>2 DEF ConnectHandlerThrows
        <3>7. CASE stopped' = ~Work'
            BY <1>2, <3>4, <3>7
        <3> QED BY <3>1, <3>5, <3>6, <3>7 DEF CallHandler
    <2>3. CASE UNCHANGED stopped
        BY <1>2, <2>3
    <2>4. CASE ClientStep \/ Running
        BY <1>2, <2>1, <2>2, <2>3, <2>4, ClientEffect
        DEF TCPConnect, COSEMOpen, TCPDisconnect, OnlyAsks, socketVars
    <2>5. CASE Kernel
        BY <2>3, <2>5
        DEF Kernel, Resolution, Connection, Delivery, ResolveDone, ConnectDone, ReadDone, Complete
    <2>6. CASE UNCHANGED vars
        BY <2>3, <2>6 DEF vars, socketVars
    <2> QED BY <1>2, <2>4, <2>5, <2>6 DEF SessionNext, Reset, Server, session
<1>3. WireTypeOK /\ ConnectInv /\ [SessionNext]_session => [Ends]_vars
    BY <1>2
<1>4. SessionInit => WireTypeOK /\ ConnectInv
    BY WireTypeInit, ConnectInit
<1>5. WireTypeOK /\ ConnectInv /\ [SessionNext]_session => (WireTypeOK /\ ConnectInv)'
    BY WireTypeNext, ConnectNext
<1>6. SessionSpec => [][Ends]_vars
    BY <1>3, <1>4, <1>5, PTL DEF SessionSpec
<1> QED BY <1>6 DEF LoopEndsOnlyWithCause

-----------------------------------------------------------------------------
(* What the objects answer and keep.                                       *)

LEMMA NewValuesType == NewValues \in Devices(Strings)
<1>1. \A c \in Keeping : \A i \in 0..(Size - 1) : NewValues[c][i] \in Strings
    <2>1. SUFFICES ASSUME NEW c \in Keeping, NEW i \in 0..(Size - 1)
                   PROVE  NewValues[c][i] \in Strings
        OBVIOUS
    <2>2. CASE c = "Data"
        BY <2>2 DEF Strings
    <2>3. CASE c # "Data"
        <3>1. NewValues[c][i] = ""
            BY <2>3 DEF NewValues
        <3> QED BY <3>1 DEF Strings
    <2> QED BY <2>2, <2>3
<1>2. NewValues = [c \in Keeping |-> [i \in 0..(Size - 1) |-> NewValues[c][i]]]
    BY DEF NewValues
<1> QED BY <1>1, <1>2 DEF Devices

OutcomeOK(q, mv, o) ==
    /\ o.values \in Devices(Strings) /\ o.res \in ResultCodes /\ o.data \in Answers
    /\ o.behind \in BOOLEAN /\ o.ends \in BOOLEAN
    /\ \A i \in 0..(Size - 1) :
          o.values["Data"][i] =
              IF q.kind = "set" /\ q.class = "Data" /\ o.res = "success" /\ q.e = i
              THEN q.value ELSE mv["Data"][i]
    /\ q.kind = "get" /\ q.class = "Data" /\ o.res = "success" =>
          q.e \in 0..(Size - 1) /\ o.data = mv["Data"][q.e]

(* An outcome that answers without storing.                                *)
LEMMA OutcomePlain ==
    ASSUME NEW q, NEW mv \in Devices(Strings), NEW res \in ResultCodes, NEW data \in Answers,
           NEW o, o = Outcome(res, data, mv),
           q.class = "Data" => (q.kind = "get" \/ res # "success"),
           q.kind = "get" /\ q.class = "Data" /\ res = "success" =>
               q.e \in 0..(Size - 1) /\ data = mv["Data"][q.e]
    PROVE  OutcomeOK(q, mv, o)
BY DEF Outcome, OutcomeOK

LEMMA OutcomesOK ==
    ASSUME NEW q \in Requests \cup LineRequests, NEW mv \in Devices(Strings),
           NEW o \in Outcomes(q, mv)
    PROVE  OutcomeOK(q, mv, o)
<1>1. q.kind \in {"get", "set", "action"}
    BY RequestsAssumption
<1>2. /\ {"", "512", "true", "garbage"} \subseteq Answers /\ Strings \subseteq Answers
      /\ {"success", "object_unavailable", "object_undefined", "type_unmatched"} \subseteq ResultCodes
    BY DEF Answers, Strings, ResultCodes
<1>3. \A c \in Keeping : \A i \in 0..(Size - 1) : mv[c][i] \in Strings
    BY DEF Devices
<1>4. CASE ~Known(q)
    <2>1. o = Outcome("object_undefined", "", mv)
        BY <1>4 DEF Outcomes
    <2> QED BY <1>2, <2>1, OutcomePlain
<1>5. CASE Known(q) /\ q.kind = "get"
    <2>1. o \in InternalGet(q, mv) /\ q.class \in Classes /\ q.e \in Instances(q.class)
        BY <1>5 DEF Outcomes, Known
    <2>2. CASE q.class = "Data"
        <3>1. o = Outcome("success", mv["Data"][q.e], mv)
            BY <2>1, <2>2 DEF InternalGet, DataGet
        <3>2. q.e \in 0..(Size - 1)
            BY <2>1, <2>2, SMT DEF Instances, Size
        <3>3. mv["Data"][q.e] \in Answers
            BY <1>2, <1>3, <3>2 DEF Keeping
        <3> QED BY <1>2, <1>5, <3>1, <3>2, <3>3, OutcomePlain
    <2>3. CASE q.class = "Disconnect"
        <3>1. CASE q.e < Size
            <4>1. q.e \in 0..(Size - 1)
                BY <2>1, <2>3, <3>1 DEF Instances, Size
            <4>2. mv["Disconnect"][q.e] \in Answers
                BY <1>2, <1>3, <4>1 DEF Keeping
            <4>3. o = Outcome("success", mv["Disconnect"][q.e], mv)
                BY <2>1, <2>3, <3>1 DEF InternalGet, DisconnectGet
            <4> QED BY <1>2, <2>3, <4>2, <4>3, OutcomePlain
        <3>2. CASE ~(q.e < Size)
            <4>1. PICK end \in BOOLEAN :
                     o = [Outcome("success", "garbage", mv) EXCEPT !.ends = end]
                BY <2>1, <2>3, <3>2 DEF InternalGet, DisconnectGet
            <4> QED BY <1>2, <1>5, <2>3, <4>1 DEF Outcome, OutcomeOK
        <3> QED BY <3>1, <3>2
    <2>4. CASE q.class = "ImageTransfer"
        <3>1. o \in ImageTransferGet(q, mv)
            BY <2>1, <2>4 DEF InternalGet
        <3>2. PICK res \in ResultCodes, data \in Answers : o = Outcome(res, data, mv)
            BY <1>2, <3>1 DEF ImageTransferGet, Unavailable
        <3> QED BY <2>4, <3>2, OutcomePlain
    <2>5. CASE q.class = "Clock"
        <3>1. o = Outcome("object_unavailable", "", mv)
            BY <2>1, <2>5 DEF InternalGet, ClockGet, Unavailable
        <3> QED BY <1>2, <2>5, <3>1, OutcomePlain
    <2> QED BY <2>1, <2>2, <2>3, <2>4, <2>5 DEF Classes
<1>6. CASE Known(q) /\ q.kind = "set" /\ q.class \in Keeping
    <2>1. o \in InternalSet(q, mv)
        BY <1>6 DEF Outcomes
    <2>2. CASE q.type \in Schema(q.class, q.id) /\ q.type = "visible_string"
        <3>1. q.class # "Disconnect"
            BY <2>2 DEF Schema
        <3>2. Instances(q.class) \subseteq 0..9
            BY <3>1 DEF Instances
        <3>3. q.e \in 0..(Size - 1)
            BY <1>6, <3>2, SMT DEF Known, Size
        <3>4. q.e < Size
            BY <3>3, SMT DEF Size
        <3> DEFINE v == [mv EXCEPT ![q.class][q.e] = q.value]
        <3>5. o = Outcome("success", "", v)
            BY <2>1, <2>2, <3>4 DEF InternalSet, Stored
        <3>6. q.value \in Strings
            BY <1>6 DEF Strings
        <3>7. v \in Devices(Strings)
            BY <1>6, <3>3, <3>6 DEF Devices
        <3>8. \A i \in 0..(Size - 1) :
                 v["Data"][i] = IF q.class = "Data" /\ q.e = i THEN q.value ELSE mv["Data"][i]
            BY <1>6, <3>3 DEF Devices, Keeping
        <3> HIDE DEF v
        <3>9. /\ o.values = v /\ o.res = "success" /\ o.data = ""
              /\ o.behind = FALSE /\ o.ends = FALSE
            BY <3>5 DEF Outcome
        <3> QED BY <1>2, <1>6, <3>7, <3>8, <3>9 DEF OutcomeOK
    <2>3. CASE ~(q.type \in Schema(q.class, q.id) /\ q.type = "visible_string")
        <3>1. o = Outcome("type_unmatched", "", mv)
            BY <2>1, <2>3 DEF InternalSet
        <3> QED BY <1>2, <3>1, OutcomePlain
    <2> QED BY <2>2, <2>3
<1>7. CASE Known(q) /\ q.kind = "set" /\ q.class \notin Keeping
    <2>1. o \in InheritedSet(q, mv)
        BY <1>7 DEF Outcomes
    <2>2. PICK res \in ResultCodes : o = Outcome(res, "", mv)
        BY <1>2, <2>1 DEF InheritedSet
    <2>3. q.class # "Data"
        BY <1>7 DEF Keeping
    <2> QED BY <1>2, <2>2, <2>3, OutcomePlain
<1>8. CASE Known(q) /\ q.kind = "action"
    <2>1. o \in InternalAction(q, mv) /\ q.class \in Classes /\ q.id \in Methods(q.class)
        BY <1>8 DEF Outcomes, Known
    <2>2. q.class # "Data"
        BY <2>1 DEF Methods
    <2>3. PICK res \in ResultCodes : o = Outcome(res, "", mv)
        BY <1>2, <2>1, <2>2
        DEF InternalAction, DisconnectAction, ImageTransferAction, ClockAction,
            Unavailable, Classes
    <2> QED BY <1>2, <2>2, <2>3, OutcomePlain
<1> QED BY <1>1, <1>4, <1>5, <1>6, <1>7, <1>8

-----------------------------------------------------------------------------
(* The log and what the latest sets stored.                                *)

LEMMA LogAppend ==
    ASSUME NEW l \in Seq(Entries), NEW c \in Entries
    PROVE  /\ Append(l, c) \in Seq(Entries)
           /\ Len(Append(l, c)) = Len(l) + 1 /\ Len(l) \in Nat
           /\ \A i \in 1..Len(l) : Append(l, c)[i] = l[i]
           /\ Append(l, c)[Len(l) + 1] = c
<1>1. Append(l, c) \in Seq(Entries) /\ Len(Append(l, c)) = Len(l) + 1
    BY AppendProperties
<1>2. \A i \in 1..Len(l) : Append(l, c)[i] = l[i]
    BY AppendProperties
<1>3. Append(l, c)[Len(l) + 1] = c
    BY AppendProperties
<1> QED BY <1>1, <1>2, <1>3, LenProperties

(* An entry changes nothing for those before it ...                        *)
LEMMA LatestBefore ==
    ASSUME NEW l \in Seq(Entries), NEW c \in Entries, NEW n \in 1..(Len(l) + 1),
           NEW e, NEW i, NEW v, Latest(l, n, e, i, v)
    PROVE  Latest(Append(l, c), n, e, i, v)
<1> DEFINE a == Append(l, c)
<1>1. Len(l) \in Nat /\ \A j \in 1..Len(l) : a[j] = l[j]
    BY LogAppend
<1> HIDE DEF a
<1>2. \A j \in 1..(n - 1) : a[j] = l[j]
    BY <1>1
<1>3. SetsBefore(a, n, e, i) = SetsBefore(l, n, e, i)
    BY <1>2 DEF SetsBefore
<1>4. \A j \in SetsBefore(l, n, e, i) : a[j] = l[j]
    BY <1>2 DEF SetsBefore
<1>5. Latest(a, n, e, i, v)
    BY <1>3, <1>4 DEF Latest
<1> QED BY <1>5 DEF a

(* ... and decides for those behind it, if it is a set of that object.     *)
LEMMA LatestAfter ==
    ASSUME NEW l \in Seq(Entries), NEW c \in Entries, NEW e, NEW i, NEW v,
           Latest(l, Len(l) + 1, e, i, v)
    PROVE  Latest(Append(l, c), Len(l) + 2, e, i,
                  IF /\ c.engine = e /\ c.res = "success"
                     /\ c.q.kind = "set" /\ c.q.class = "Data" /\ c.q.e = i
                  THEN c.q.value ELSE v)
<1> DEFINE a == Append(l, c)
           n == Len(l) + 1
           Hit == /\ c.engine = e /\ c.res = "success"
                  /\ c.q.kind = "set" /\ c.q.class = "Data" /\ c.q.e = i
<1>1. Len(l) \in Nat /\ a[n] = c /\ \A j \in 1..Len(l) : a[j] = l[j]
    BY LogAppend
<1>2. Latest(a, n, e, i, v)
    <2>1. n \in 1..(Len(l) + 1)
        BY <1>1
    <2> QED BY <2>1, LatestBefore
<1>3. n \in Nat /\ 1..((n + 1) - 1) = 1..(n - 1) \cup {n} /\ Len(l) + 2 = n + 1 /\ n \notin 1..(n - 1)
    BY <1>1
<1> HIDE DEF a, n
<1>4. CASE Hit
    <2>1. n \in SetsBefore(a, n + 1, e, i)
        BY <1>1, <1>3, <1>4 DEF SetsBefore
    <2>2. \A k \in SetsBefore(a, n + 1, e, i) : k <= n
        BY <1>3 DEF SetsBefore
    <2>3. Latest(a, n + 1, e, i, c.q.value)
        BY <1>1, <2>1, <2>2 DEF Latest
    <2> QED BY <1>3, <1>4, <2>3 DEF a, n
<1>5. CASE ~Hit
    <2>1. SetsBefore(a, n + 1, e, i) = SetsBefore(a, n, e, i)
        BY <1>1, <1>3, <1>5 DEF SetsBefore
    <2>2. Latest(a, n + 1, e, i, v)
        BY <1>2, <2>1 DEF Latest
    <2> QED BY <1>3, <1>5, <2>2 DEF a, n
<1> QED BY <1>4, <1>5

-----------------------------------------------------------------------------
(* The engines' devices.                                                   *)

DeviceTypeOK ==
    /\ engines \in Seq({"tcp", "serial"})
    /\ m_Values \in Seq(Devices(Strings)) /\ Len(m_Values) = Len(engines)
    /\ log \in Seq(Entries) /\ \A i \in 1..Len(log) : log[i].engine \in Engines
    /\ association \subseteq Engines

DeviceInv == DeviceTypeOK /\ KeptInv /\ ReadsLatestSet

(* A new engine has a new device, which nobody has told anything.          *)
LEMMA NewDevice ==
    ASSUME DeviceInv, NEW over \in {"tcp", "serial"}, NewEngine(over),
           UNCHANGED <<log, association>>
    PROVE  DeviceInv'
<1>0. /\ engines \in Seq({"tcp", "serial"}) /\ m_Values \in Seq(Devices(Strings))
      /\ Len(m_Values) = Len(engines) /\ log \in Seq(Entries)
      /\ \A i \in 1..Len(log) : log[i].engine \in Engines
      /\ association \subseteq Engines
    BY DEF DeviceInv, DeviceTypeOK
<1>1. engines' = Append(engines, over) /\ m_Values' = Append(m_Values, NewValues)
    BY DEF NewEngine
<1>2. Len(engines) \in Nat /\ Len(log) \in Nat
    BY <1>0, LenProperties
<1>3. engines' \in Seq({"tcp", "serial"}) /\ Len(engines') = Len(engines) + 1
    BY <1>0, <1>1, AppendProperties
<1>4. /\ m_Values' \in Seq(Devices(Strings)) /\ Len(m_Values') = Len(m_Values) + 1
      /\ \A e \in 1..Len(m_Values) : m_Values'[e] = m_Values[e]
      /\ m_Values'[Len(m_Values) + 1] = NewValues
    <2>1. m_Values' \in Seq(Devices(Strings)) /\ Len(m_Values') = Len(m_Values) + 1
        BY <1>0, <1>1, NewValuesType, AppendProperties
    <2>2. \A e \in 1..Len(m_Values) : m_Values'[e] = m_Values[e]
        BY <1>0, <1>1, NewValuesType, AppendProperties
    <2>3. m_Values'[Len(m_Values) + 1] = NewValues
        BY <1>0, <1>1, NewValuesType, AppendProperties
    <2> QED BY <2>1, <2>2, <2>3
<1>5. Engines' = Engines \cup {Len(engines) + 1} /\ Len(engines) + 1 \notin Engines
    BY <1>2, <1>3 DEF Engines
<1>6. DeviceTypeOK'
    BY <1>0, <1>3, <1>4, <1>5 DEF DeviceTypeOK
<1>7. KeptInv'
    <2>1. SUFFICES ASSUME NEW e \in Engines', NEW i \in 0..(Size - 1)
                   PROVE  Latest(log, Len(log) + 1, e, i, m_Values'[e]["Data"][i])
        BY DEF KeptInv
    <2>2. CASE e \in Engines
        BY <1>0, <1>4, <2>2 DEF DeviceInv, KeptInv, Engines
    <2>3. CASE e = Len(engines) + 1
        <3>1. \A j \in 1..((Len(log) + 1) - 1) : log[j].engine # e
            BY <1>0, <1>2, <1>5, <2>3
        <3>2. SetsBefore(log, Len(log) + 1, e, i) = {}
            BY <3>1 DEF SetsBefore
        <3>3. m_Values'[e]["Data"][i] = NewValues["Data"][i]
            BY <1>0, <1>4, <2>3
        <3> QED BY <3>2, <3>3 DEF Latest
    <2> QED BY <1>5, <2>2, <2>3
<1>8. ReadsLatestSet'
    BY DEF DeviceInv, ReadsLatestSet
<1> QED BY <1>6, <1>7, <1>8 DEF DeviceInv

(* A request reads or writes the device of its own engine.                 *)
LEMMA PerformDevice ==
    ASSUME DeviceInv, NEW e, NEW q \in Requests \cup LineRequests, Perform(e, q),
           engines' = engines, association' = association
    PROVE  /\ DeviceInv'
           /\ UNCHANGED <<behind, ended>> \/ (behind' \in BOOLEAN /\ ended' \in BOOLEAN)
<1>0. /\ engines \in Seq({"tcp", "serial"}) /\ m_Values \in Seq(Devices(Strings))
      /\ Len(m_Values) = Len(engines) /\ log \in Seq(Entries)
      /\ \A i \in 1..Len(log) : log[i].engine \in Engines
      /\ association \subseteq Engines
    BY DEF DeviceInv, DeviceTypeOK
<1>1. Engines' = Engines
    BY DEF Engines
<1>2. CASE e \notin association
    <2>1. UNCHANGED <<m_Values, log, behind, ended>>
        BY <1>2 DEF Perform
    <2> QED BY <1>1, <2>1 DEF DeviceInv, DeviceTypeOK, KeptInv, ReadsLatestSet
<1>3. CASE e \in association
    <2>1. e \in Engines /\ e \in 1..Len(m_Values) /\ Engines \subseteq Nat
        BY <1>0, <1>3 DEF Engines
    <2>2. m_Values[e] \in Devices(Strings)
        BY <1>0, <2>1, ElementOfSeq
    <2>3. PICK o \in Outcomes(q, m_Values[e]) :
            /\ m_Values' = Performing(e, o)
            /\ log' = Append(log, [engine |-> e, q |-> q, res |-> o.res, data |-> o.data])
            /\ behind' = (behind \/ o.behind)
            /\ ended' = o.ends
        BY <1>3 DEF Perform
    <2>4. OutcomeOK(q, m_Values[e], o)
        BY <2>2, OutcomesOK
    <2> DEFINE c == [engine |-> e, q |-> q, res |-> o.res, data |-> o.data]
    <2>5. c \in Entries /\ c.engine = e /\ c.q = q /\ c.res = o.res /\ c.data = o.data
        BY <2>1, <2>4 DEF Entries, OutcomeOK
    <2>6. log' = Append(log, c)
        BY <2>3
    <2> HIDE DEF c
    <2>7. /\ log' \in Seq(Entries) /\ Len(log') = Len(log) + 1 /\ Len(log) \in Nat
          /\ \A i \in 1..Len(log) : log'[i] = log[i]
          /\ log'[Len(log) + 1] = c
        BY <1>0, <2>5, <2>6, LogAppend
    <2>8. /\ m_Values' \in Seq(Devices(Strings)) /\ Len(m_Values') = Len(m_Values)
          /\ m_Values'[e] = o.values
          /\ \A f \in Engines : f # e => m_Values'[f] = m_Values[f]
        <3>1. m_Values' = [m_Values EXCEPT ![e] = o.values] /\ o.values \in Devices(Strings)
            BY <2>3, <2>4 DEF Performing, OutcomeOK
        <3>2. m_Values \in [1..Len(m_Values) -> Devices(Strings)] /\ Len(m_Values) \in Nat
            BY <1>0, LenProperties
        <3>3. m_Values' \in [1..Len(m_Values) -> Devices(Strings)]
            BY <2>1, <3>1, <3>2
        <3>4. m_Values' \in Seq(Devices(Strings))
            BY <3>2, <3>3, SeqDef
        <3>5. Len(m_Values') = Len(m_Values)
            BY <3>2, <3>3, <3>4, LenProperties
        <3> QED BY <1>0, <2>1, <3>1, <3>2, <3>4, <3>5 DEF Engines
    <2>9. DeviceTypeOK'
        <3>1. \A i \in 1..Len(log') : log'[i].engine \in Engines
            <4>1. \A i \in 1..Len(log') : i \in 1..Len(log) \/ i = Len(log) + 1
                BY <2>7
            <4> QED BY <1>0, <2>1, <2>5, <2>7, <4>1
        <3> QED BY <1>0, <1>1, <2>7, <2>8, <3>1 DEF DeviceTypeOK
    <2>10. \A i \in 0..(Size - 1) :
              o.values["Data"][i] =
                  IF q.kind = "set" /\ q.class = "Data" /\ o.res = "success" /\ q.e = i
                  THEN q.value ELSE m_Values[e]["Data"][i]
        BY <2>4 DEF OutcomeOK
    <2>11. KeptInv'
        <3>1. SUFFICES ASSUME NEW f \in Engines, NEW i \in 0..(Size - 1)
                       PROVE  Latest(log', Len(log') + 1, f, i, m_Values'[f]["Data"][i])
            BY <1>1 DEF KeptInv
        <3> DEFINE v == m_Values[f]["Data"][i]
                   w == IF /\ c.engine = f /\ c.res = "success"
                           /\ c.q.kind = "set" /\ c.q.class = "Data" /\ c.q.e = i
                        THEN c.q.value ELSE v
        <3>2. Latest(log, Len(log) + 1, f, i, v)
            BY DEF DeviceInv, KeptInv
        <3>3. Latest(Append(log, c), Len(log) + 2, f, i, w)
            BY <1>0, <2>5, <3>2, LatestAfter
        <3>4. m_Values'[f]["Data"][i] = w
            BY <2>5, <2>8, <2>10
        <3>5. Len(log') + 1 = Len(log) + 2
            BY <2>7
        <3> HIDE DEF w
        <3> QED BY <2>6, <3>3, <3>4, <3>5
    <2>12. ReadsLatestSet'
        <3>1. SUFFICES ASSUME NEW n \in 1..Len(log'),
                              log'[n].q.kind = "get", log'[n].q.class = "Data",
                              log'[n].res = "success"
                       PROVE  Latest(log', n, log'[n].engine, log'[n].q.e, log'[n].data)
            BY DEF ReadsLatestSet
        <3>2. CASE n \in 1..Len(log)
            <4>1. Latest(log, n, log[n].engine, log[n].q.e, log[n].data)
                BY <2>7, <3>1, <3>2 DEF DeviceInv, ReadsLatestSet
            <4>2. n \in 1..(Len(log) + 1)
                BY <2>7, <3>2
            <4>3. Latest(Append(log, c), n, log[n].engine, log[n].q.e, log[n].data)
                BY <1>0, <2>5, <4>1, <4>2, LatestBefore
            <4> QED BY <2>6, <2>7, <3>2, <4>3
        <3>3. CASE n = Len(log) + 1
            <4>1. log'[n] = c
                BY <2>7, <3>3
            <4>2. q.e \in 0..(Size - 1) /\ o.data = m_Values[e]["Data"][q.e]
                BY <2>4, <2>5, <3>1, <4>1 DEF OutcomeOK
            <4>3. Latest(log, Len(log) + 1, e, q.e, o.data)
                BY <2>1, <4>2 DEF DeviceInv, KeptInv
            <4>4. Len(log) + 1 \in 1..(Len(log) + 1)
                BY <2>7
            <4>5. Latest(Append(log, c), Len(log) + 1, e, q.e, o.data)
                BY <1>0, <2>5, <4>3, <4>4, LatestBefore
            <4> QED BY <2>5, <2>6, <3>3, <4>1, <4>5
        <3> QED BY <2>7, <3>2, <3>3
    <2>13. ended' \in BOOLEAN /\ behind' \in BOOLEAN
        BY <2>3, <2>4 DEF OutcomeOK
    <2> QED BY <2>9, <2>11, <2>12, <2>13 DEF DeviceInv
<1> QED BY <1>2, <1>3

-----------------------------------------------------------------------------
(* The server's types, step by step.                                       *)

MenuTypeOK ==
    /\ Len(engines) <= MaxEngines
    /\ acceptor \in Engines \cup {0}
    /\ accepting \in BOOLEAN
    /\ lines \subseteq {e \in Engines : engines[e] = "serial"}
    /\ prompting \in BOOLEAN
    /\ ended \in BOOLEAN
    /\ requests \in 0..MaxRequests
    /\ behind \in BOOLEAN

ServerInv == DeviceInv /\ MenuTypeOK /\ AcceptInv

LEMMA NewEngineType ==
    ASSUME DeviceInv, MenuTypeOK, NEW over \in {"tcp", "serial"}, NewEngine(over)
    PROVE  /\ Len(engines') <= MaxEngines
           /\ Engines' = Engines \cup {Len(engines')} /\ Engines \subseteq Engines'
           /\ \A e \in Engines : engines'[e] = engines[e]
           /\ engines'[Len(engines')] = over
<1>0. engines \in Seq({"tcp", "serial"}) /\ Len(engines) \in Nat
    BY LenProperties DEF DeviceInv, DeviceTypeOK
<1>1. engines' = Append(engines, over) /\ Len(engines) < MaxEngines
    BY DEF NewEngine
<1>2. Len(engines') = Len(engines) + 1
    BY <1>0, <1>1, AppendProperties
<1>3. \A e \in 1..Len(engines) : engines'[e] = engines[e]
    BY <1>0, <1>1, AppendProperties
<1>4. engines'[Len(engines) + 1] = over
    BY <1>0, <1>1, AppendProperties
<1> QED BY <1>0, <1>1, <1>2, <1>3, <1>4, MaxEnginesAssumption DEF Engines

LEMMA ServerKeeps ==
    ASSUME WireTypeOK, ServerInv,
           ServerSelection \/ SerialServerAnswered \/ ServerStep \/ LineStep
    PROVE  DeviceInv' /\ MenuTypeOK'
<1>0. DeviceInv /\ DeviceTypeOK /\ MenuTypeOK /\ AcceptInv
    BY DEF ServerInv, DeviceInv
<1>1. ASSUME UNCHANGED <<engines, m_Values, log>>, association' \subseteq Engines
      PROVE  DeviceInv' /\ Engines' = Engines
    BY <1>0, <1>1 DEF DeviceInv, DeviceTypeOK, KeptInv, ReadsLatestSet, Engines
<1>2. association \subseteq Engines
    BY <1>0 DEF DeviceTypeOK
<1>3. serving # NoSocket => acceptor \in Engines
    BY <1>0 DEF MenuTypeOK, AcceptInv
<1>4. CASE TCPServer
    <2>1. NewEngine("tcp") /\ UNCHANGED <<log, association>>
        BY <1>4 DEF TCPServer
    <2>2. DeviceInv'
        BY <1>0, <2>1, NewDevice
    <2>3. /\ Len(engines') <= MaxEngines
          /\ Engines' = Engines \cup {Len(engines')} /\ Engines \subseteq Engines'
          /\ \A e \in Engines : engines'[e] = engines[e]
        BY <1>0, <2>1, NewEngineType
    <2>4. acceptor' \in Engines' \cup {0} /\ accepting' \in BOOLEAN
        BY <1>0, <1>4, <2>3 DEF TCPServer, MenuTypeOK
    <2>5. lines' \subseteq {e \in Engines' : engines'[e] = "serial"}
        BY <1>0, <1>4, <2>3 DEF TCPServer, MenuTypeOK
    <2> QED BY <1>0, <1>4, <2>2, <2>3, <2>4, <2>5 DEF TCPServer, MenuTypeOK
<1>5. CASE SerialServer
    BY <1>0, <1>1, <1>2, <1>5 DEF SerialServer, MenuTypeOK
<1>6. CASE ExitServer
    BY <1>0, <1>1, <1>2, <1>6 DEF ExitServer, MenuTypeOK
<1>7. CASE SerialServerAnswered
    <2>1. NewEngine("serial") /\ UNCHANGED <<log, association>>
        BY <1>7 DEF SerialServerAnswered
    <2>2. DeviceInv'
        BY <1>0, <2>1, NewDevice
    <2>3. /\ Len(engines') <= MaxEngines
          /\ Engines' = Engines \cup {Len(engines')} /\ Engines \subseteq Engines'
          /\ \A e \in Engines : engines'[e] = engines[e]
          /\ engines'[Len(engines')] = "serial"
        BY <1>0, <2>1, NewEngineType
    <2>4. lines' \subseteq {e \in Engines' : engines'[e] = "serial"}
        BY <1>0, <1>7, <2>3 DEF SerialServerAnswered, MenuTypeOK
    <2>5. acceptor' \in Engines' \cup {0}
        BY <1>0, <1>7, <2>3 DEF SerialServerAnswered, MenuTypeOK
    <2> QED BY <1>0, <1>7, <2>2, <2>3, <2>4, <2>5 DEF SerialServerAnswered, MenuTypeOK
<1>8. CASE ASIO_Accept_Handler
    BY <1>0, <1>1, <1>2, <1>8 DEF ASIO_Accept_Handler, MenuTypeOK
<1>15. CASE Accept_Handler_Throws
    BY <1>0, <1>1, <1>2, <1>15 DEF Accept_Handler_Throws, MenuTypeOK
<1>9. CASE OpenRequest
    <2>1. association' \subseteq Engines
        BY <1>2, <1>3, <1>9 DEF OpenRequest, Incoming
    <2> QED BY <1>0, <1>1, <1>9, <2>1 DEF OpenRequest, MenuTypeOK
<1>10. CASE ReleaseRequest
    <2>1. association' \subseteq Engines
        BY <1>2, <1>10 DEF ReleaseRequest
    <2> QED BY <1>0, <1>1, <1>10, <2>1 DEF ReleaseRequest, MenuTypeOK
<1>11. CASE ConnectionCloses
    <2>1. association' \subseteq Engines
        BY <1>2, <1>11 DEF ConnectionCloses
    <2> QED BY <1>0, <1>1, <1>11, <2>1 DEF ConnectionCloses, MenuTypeOK
<1>12. CASE ServiceRequest
    <2>1. serving \in Sockets /\ up[serving] # <<>> /\ up[serving] \in Seq(Segments)
        BY <1>12 DEF ServiceRequest, Incoming, WireTypeOK
    <2>2. Head(up[serving]) \in Segments
        BY <2>1, HeadTailProperties
    <2>3. Head(up[serving]).kind \in {"get", "set", "action"}
        BY <1>12 DEF ServiceRequest, Incoming
    <2>4. Head(up[serving]) \in Requests \cup LineRequests
        BY <2>2, <2>3 DEF Segments, Signal
    <2>5. Perform(acceptor, Head(up[serving])) /\ engines' = engines /\ association' = association
        BY <1>12 DEF ServiceRequest
    <2>6. /\ DeviceInv'
          /\ UNCHANGED <<behind, ended>> \/ (behind' \in BOOLEAN /\ ended' \in BOOLEAN)
        BY <1>0, <2>4, <2>5, PerformDevice
    <2> QED BY <1>0, <1>12, <2>5, <2>6 DEF ServiceRequest, MenuTypeOK, Engines
<1>13. ASSUME NEW e \in lines, LineAssociation(e)
       PROVE  DeviceInv' /\ MenuTypeOK'
    <2>1. association' \subseteq Engines
        BY <1>0, <1>2, <1>13 DEF LineAssociation, MenuTypeOK
    <2> QED BY <1>0, <1>1, <1>13, <2>1 DEF LineAssociation, MenuTypeOK
<1>14. ASSUME NEW e \in lines, LineRequest(e)
       PROVE  DeviceInv' /\ MenuTypeOK'
    <2>1. PICK q \in LineRequests : Perform(e, q)
        BY <1>14 DEF LineRequest
    <2>2. /\ DeviceInv'
          /\ UNCHANGED <<behind, ended>> \/ (behind' \in BOOLEAN /\ ended' \in BOOLEAN)
        BY <1>0, <1>14, <2>1, PerformDevice DEF LineRequest
    <2>3. requests' \in 0..MaxRequests
        BY <1>0, <1>14, MaxRequestsAssumption DEF LineRequest, MenuTypeOK
    <2> QED BY <1>0, <1>14, <2>2, <2>3 DEF LineRequest, MenuTypeOK, Engines
<1> QED
    BY <1>4, <1>5, <1>6, <1>7, <1>8, <1>9, <1>10, <1>11, <1>12, <1>13, <1>14, <1>15
    DEF ServerSelection, ServerStep, LineStep

(* Neither the client nor the kernels touch the engines or their menu,     *)
(* except that the client counts its requests.                             *)
LEMMA OthersKeep ==
    ASSUME WireTypeOK, DeviceInv, MenuTypeOK,
           \/ ClientStep \/ Running \/ Kernel \/ UNCHANGED session
           \/ \E s \in Sockets : Reset(s)
    PROVE  DeviceInv' /\ MenuTypeOK'
<1>1. /\ UNCHANGED <<engines, m_Values, association, acceptor, accepting, lines, prompting,
                     ended, log, behind>>
      /\ requests' \in 0..MaxRequests
    <2>1. requests \in 0..MaxRequests
        BY DEF MenuTypeOK
    <2>2. CASE \E q \in Requests : Request(q)
        BY <2>1, <2>2, MaxRequestsAssumption DEF Request
    <2>3. CASE Open1 \/ Release
        BY <2>1, <2>3 DEF Open1, Release
    <2>7. CASE UNCHANGED serverVars
        BY <2>1, <2>7 DEF serverVars
    <2>8. CASE \E s \in Sockets : Reset(s)
        BY <2>1, <2>8 DEF Reset
    <2>4. CASE \/ Closes(COSEMRelease_NullEngine) \/ Closes(TCPDisconnect)
               \/ Closes(Exit) \/ Running
        BY <2>1, <2>4 DEF Closes, Running
    <2>5. CASE Kernel
        BY <2>1, <2>5 DEF Kernel, Resolution, Connection, Delivery, serverVars
    <2>6. CASE UNCHANGED session
        BY <2>1, <2>6 DEF session, serverVars
    <2> QED BY <2>2, <2>3, <2>4, <2>5, <2>6, <2>7, <2>8 DEF ClientStep, Quiet
<1>2. DeviceInv'
    BY <1>1 DEF DeviceInv, DeviceTypeOK, KeptInv, ReadsLatestSet, Engines
<1>3. MenuTypeOK'
    BY <1>1 DEF MenuTypeOK, Engines
<1> QED BY <1>2, <1>3

SessionInv == WireTypeOK /\ FirstInv /\ DeviceInv /\ MenuTypeOK

LEMMA SessionInvInit == SessionInit => SessionInv
<1> SUFFICES ASSUME SessionInit PROVE SessionInv
    OBVIOUS
<1>1. \A S : <<>> \in Seq(S)
    BY EmptySeq
<1>2. /\ engines = <<>> /\ m_Values = <<>> /\ log = <<>> /\ association = {}
      /\ acceptor = 0 /\ accepting = FALSE /\ lines = {} /\ prompting = FALSE
      /\ ended = FALSE /\ requests = 0 /\ behind = FALSE
    BY DEF SessionInit, ServerInit
<1>3. Len(engines) = 0 /\ Len(m_Values) = 0 /\ Len(log) = 0 /\ Engines = {}
    BY <1>2 DEF Engines
<1>4. DeviceInv
    BY <1>1, <1>2, <1>3 DEF DeviceInv, DeviceTypeOK, KeptInv, ReadsLatestSet
<1>5. MenuTypeOK
    <2>1. Len(engines) <= MaxEngines
        BY <1>3, MaxEnginesAssumption
    <2>2. requests \in 0..MaxRequests
        BY <1>2, MaxRequestsAssumption
    <2>3. lines \subseteq {e \in Engines : engines[e] = "serial"}
        BY <1>2
    <2> QED BY <1>2, <2>1, <2>2, <2>3 DEF MenuTypeOK
<1> QED BY <1>4, <1>5, WireTypeInit, FirstInit DEF SessionInv

LEMMA SessionInvNext == SessionInv /\ [SessionNext]_session => SessionInv'
<1> SUFFICES ASSUME SessionInv, [SessionNext]_session PROVE SessionInv'
    OBVIOUS
<1>1. WireTypeOK' /\ FirstInv'
    BY WireTypeNext, FirstNext DEF SessionInv
<1>2. DeviceInv' /\ MenuTypeOK'
    <2>1. ServerInv
        BY DEF SessionInv, FirstInv, ServerInv
    <2>2. CASE ServerSelection \/ SerialServerAnswered \/ ServerStep \/ LineStep
        BY <2>1, <2>2, ServerKeeps DEF SessionInv
    <2>3. CASE \/ ClientStep \/ Running \/ Kernel \/ UNCHANGED session
               \/ \E s \in Sockets : Reset(s)
        BY <2>3, OthersKeep DEF SessionInv
    <2> QED BY <2>2, <2>3 DEF SessionNext, Server
<1> QED BY <1>1, <1>2 DEF SessionInv

(* Both processes keep their types, and so does what travels between them. *)
THEOREM SessionTypeCorrect == SessionSpec => []SessionTypeOK
<1>1. SessionInv => SessionTypeOK
    BY DEF SessionInv, WireTypeOK, DeviceInv, DeviceTypeOK, MenuTypeOK, SessionTypeOK, ServerTypeOK
<1> QED BY <1>1, SessionInvInit, SessionInvNext, PTL DEF SessionSpec

(* A get answers what the latest set of the instance through the same      *)
(* engine stored, however many engines, refused requests and other         *)
(* objects there are.                                                      *)
THEOREM LatestIsRead == SessionSpec => []ReadsLatestSet
<1>1. SessionInv => ReadsLatestSet
    BY DEF SessionInv, DeviceInv
<1> QED BY <1>1, SessionInvInit, SessionInvNext, PTL DEF SessionSpec
=============================================================================
