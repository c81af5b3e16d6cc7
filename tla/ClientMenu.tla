----------------------------- MODULE ClientMenu -----------------------------
(***************************************************************************)
(* The TCP part of the client test harness (ClientApp of Linux.cpp).  The  *)
(* menu is itself a handler of the io_service; its pending input keeps the *)
(* loop going (OtherWork is TRUE).  A selection that asks questions reads  *)
(* the answers inside that handler (GetLine): while one is unanswered no   *)
(* other handler is called.  Here, unlike in the head end, a socket may be *)
(* released while its name is being resolved, while a connect or a read is *)
(* outstanding, or behind a handler not yet called.                        *)
(***************************************************************************)
EXTENDS TcpSocket

VARIABLES
    created,           \* how many sockets selection A has created
    m_pSocket,         \* the socket of the last A, until T
    m_pClientEngine,   \* the engine of the last A, named by its socket
    engine,            \* each engine's association: "none", "asked" or "open"
    question           \* the selection whose questions are not answered, or "none"

menuVars == <<created, m_pSocket, m_pClientEngine, engine, question>>
vars == <<socketVars, menuVars>>

(* The sockets' variables, the two pointers, the engines and the question. *)
TypeOK ==
    /\ SocketTypeOK
    /\ created \in 0..MaxSockets
    /\ m_pSocket \in Sockets \cup {NoSocket}
    /\ m_pClientEngine \in Sockets \cup {NoSocket}
    /\ engine \in [Sockets -> {"none", "asked", "open"}]
    /\ question \in {"none", "A", "1", "2", "3", "4"}

Init ==
    /\ SocketInit
    /\ created = 0
    /\ m_pSocket = NoSocket
    /\ m_pClientEngine = NoSocket
    /\ engine = [s \in Sockets |-> "none"]
    /\ question = "none"

-----------------------------------------------------------------------------
(* The menu's input.                                                       *)

Posted(s) == {i \in 1..Len(ready) : ready[i] = Done("remove", s, "ok")}

(* A selection is read only after the one before has returned, by an input *)
(* that is armed after it, behind the removal it may have posted.          *)
MenuReady ==
    /\ ~stopped
    /\ question = "none"
    /\ \A s \in Sockets : Posted(s) = {}

Asks(selection) ==
    /\ MenuReady
    /\ question' = selection
    /\ UNCHANGED <<socketVars, created, m_pSocket, m_pClientEngine, engine>>

Answered(selection) ==
    /\ ~stopped
    /\ question = selection
    /\ question' = "none"

(* A - TCP Connect: the address ...                                        *)
AskAddress ==
    /\ created < MaxSockets
    /\ Asks("A")

(* ... and the socket.  The pointers move on; what they pointed to stays.  *)
TCPConnect ==
    /\ Answered("A")
    /\ created < MaxSockets
    /\ created' = created + 1
    /\ CreateSocket(created + 1)
    /\ OpenClient(created + 1) \/ OpenFails(created + 1)
    /\ m_pSocket' = created + 1
    /\ m_pClientEngine' = created + 1
    /\ UNCHANGED <<left, ready, stopped, transport, engine>>

(* 1 - COSEM Open: the check, the questions ...                            *)
AskSecurity ==
    /\ m_pSocket # NoSocket
    /\ IsConnected(m_pSocket)
    /\ IsTransportConnected(m_pClientEngine)
    /\ Asks("1")

(* ... and the request, which an engine makes only without an association. *)
COSEMOpen ==
    /\ Answered("1")
    /\ engine[m_pClientEngine] = "none"
    /\ engine' = [engine EXCEPT ![m_pClientEngine] = "asked"]
    /\ UNCHANGED <<socketVars, created, m_pSocket, m_pClientEngine>>

(* 2 - COSEM Get, 3 - COSEM Set, 4 - COSEM Action: the same check for all, *)
(* the questions, ...                                                      *)
AskDescriptor(selection) ==
    /\ m_pSocket # NoSocket
    /\ IsConnected(m_pSocket)
    /\ engine[m_pClientEngine] = "open"
    /\ Asks(selection)

(* ... and the request, of which the client keeps nothing.                 *)
COSEMRequest(selection) ==
    /\ Answered(selection)
    /\ UNCHANGED <<socketVars, created, m_pSocket, m_pClientEngine, engine>>

(* The answers to 1 to 4 may also be such that nothing is sent: a security *)
(* level that is not supported, a malformed OBIS code, or an engine that   *)
(* refuses.                                                                *)
NothingSent ==
    /\ \E selection \in {"1", "2", "3", "4"} : Answered(selection)
    /\ UNCHANGED <<socketVars, created, m_pSocket, m_pClientEngine, engine>>

(* 5 - COSEM Release.  An engine that is still open after its socket was   *)
(* destroyed writes to freed memory.                                       *)
COSEMRelease ==
    /\ MenuReady
    /\ m_pClientEngine # NoSocket
    /\ engine[m_pClientEngine] = "open"
    /\ engine' = [engine EXCEPT ![m_pClientEngine] = "none"]
    /\ stopped' \in {FALSE, sock[m_pClientEngine] = "removed"}
    /\ UNCHANGED <<sock, isOpen, op, left, ready, transport,
                   created, m_pSocket, m_pClientEngine, question>>

(* Nothing checks that there is an engine at all.                          *)
COSEMRelease_NullEngine ==
    /\ MenuReady
    /\ m_pClientEngine = NoSocket
    /\ stopped' = TRUE
    /\ UNCHANGED <<sock, isOpen, op, left, ready, transport, menuVars>>

TCPDisconnect_KeepsPointer ==          \* mutant: m_pSocket is not cleared
    /\ MenuReady
    /\ m_pSocket # NoSocket
    /\ ReleaseSocket(m_pSocket)
    /\ UNCHANGED <<sock, left, stopped, transport, menuVars>>

(* T - TCP Disconnect.                                                     *)
TCPDisconnect ==
    /\ MenuReady
    /\ m_pSocket # NoSocket
    /\ ReleaseSocket(m_pSocket)
    /\ m_pSocket' = NoSocket
    /\ UNCHANGED <<sock, left, stopped, transport, created, m_pClientEngine, engine,
                   question>>

(* 0 - Exit Application.                                                   *)
Exit ==
    /\ MenuReady
    /\ stopped' = TRUE
    /\ UNCHANGED <<sock, isOpen, op, left, ready, transport, menuVars>>

-----------------------------------------------------------------------------
(* run() calls the next handler; m_Read and m_Close reach the engine.      *)
EngineHears(h) ==
    IF h.call # "read" \/ sock[h.sock] = "removed" THEN engine
    ELSE [engine EXCEPT ![h.sock] =
            CASE h.res = "error" -> "none"
              [] h.res = "AARE" /\ @ = "asked" -> "open"
              [] OTHER -> @]

Run ==
    /\ question = "none"
    /\ \/ PollOne /\ engine' = EngineHears(Head(ready))
       \/ PollThrows /\ engine' = engine
    /\ UNCHANGED <<created, m_pSocket, m_pClientEngine, question>>

-----------------------------------------------------------------------------
(* Properties.                                                             *)

(* RemoveSocket is posted once for a socket, and only the pointer it was   *)
(* posted for has been given up: T cannot reach a socket twice.            *)
OneRemoval ==
    \A s \in Sockets :
        /\ \A i, j \in Posted(s) : i = j
        /\ sock[s] = "removed" => Posted(s) = {}
        /\ Posted(s) # {} \/ sock[s] = "removed" => m_pSocket # s

(* The handler that is called next would hear that s is connected, but the *)
(* peer has reset the connection.                                          *)
ResetOnArrival(s) ==
    ready # <<>> /\ Head(ready) = Done("connect", s, "ok") /\ ResetByPeer(s)

(* Unless it is told to, the process ends only when selection 5 finds no   *)
(* engine, after a socket was released, or when the peer resets a          *)
(* connection before the client has heard that it stands.  Without these   *)
(* no handler throws, none runs on a destroyed socket, and the loop does   *)
(* not run out of work.                                                    *)
LoopEndsOnlyWithCause ==
    [][~stopped /\ stopped' =>
            \/ Exit \/ COSEMRelease_NullEngine
            \/ \E s \in Sockets :
                  Posted(s) # {} \/ sock[s] = "removed" \/ ResetOnArrival(s)]_vars

(* A released socket is removed, unless the process ends before.  It is    *)
(* the one created last, and no other is created before it is removed.     *)
ReleasedIsRemoved ==
    created # 0 /\ m_pSocket = NoSocket
        ~> stopped \/ (created # 0 /\ sock[created] = "removed")
=============================================================================
