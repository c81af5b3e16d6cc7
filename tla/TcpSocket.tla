----------------------------- MODULE TcpSocket ------------------------------
(***************************************************************************)
(* The client side of LinuxTCPSocket and LinuxIP (LinuxSocket.cpp) over    *)
(* one asio io_service.  A socket is a number; what the source keeps in    *)
(* m_TCPSockets, m_Socket and the pending asynchronous operation is a      *)
(* function of it.  Completed operations wait in the FIFO queue of the     *)
(* io_service until poll() or run() calls their handler.                   *)
(*                                                                         *)
(* Operations and handlers are operators in action form: the module that   *)
(* uses the sockets conjoins them with what its own step does.             *)
(***************************************************************************)
EXTENDS Connections

CONSTANTS
    MaxEndpoints,   \* bound on the endpoints a name resolves to
    OtherWork       \* TRUE when the io_service has work besides the sockets

ASSUME MaxEndpointsAssumption == MaxEndpoints \in Nat \ {0}
ASSUME OtherWorkAssumption == OtherWork \in BOOLEAN

VARIABLES
    sock,        \* membership in m_TCPSockets: "new", "listed" or "removed"
    isOpen,      \* m_Socket.is_open()
    op,          \* the outstanding asynchronous operation
    left,        \* endpoints behind the one that is tried next or now
    ready,       \* the io_service's queue of completed operations
    stopped,     \* the io_service calls no handler any more
    transport    \* the wrapper's side of the callbacks, m_Connect and m_Close

socketVars == <<sock, isOpen, op, left, ready, stopped, transport>>

Operations == {"none", "resolve", "connect", "read"}
Results == {"ok", "error"} \cup Replies
Completions == [call : {"resolver", "connect", "read", "remove"},
                sock : Sockets,
                res  : Results]

Done(call, s, res) == [call |-> call, sock |-> s, res |-> res]

SocketTypeOK ==
    /\ sock \in [Sockets -> {"new", "listed", "removed"}]
    /\ isOpen \in [Sockets -> BOOLEAN]
    /\ op \in [Sockets -> Operations]
    /\ left \in [Sockets -> 0..(MaxEndpoints - 1)]
    /\ ready \in Seq(Completions)
    /\ stopped \in BOOLEAN
    /\ transport \in [Sockets -> {"idle", "connected", "closed", "dead"}]

SocketInit ==
    /\ sock = [s \in Sockets |-> "new"]
    /\ isOpen = [s \in Sockets |-> FALSE]
    /\ op = [s \in Sockets |-> "none"]
    /\ left = [s \in Sockets |-> 0]
    /\ ready = <<>>
    /\ stopped = FALSE
    /\ transport = [s \in Sockets |-> "idle"]

-----------------------------------------------------------------------------
(* What the owner of a socket calls.                                       *)

CreateSocket(s) ==
    /\ sock[s] = "new"
    /\ sock' = [sock EXCEPT ![s] = "listed"]

(* Open closes the socket and starts the name resolution.                  *)
OpenClient(s) ==
    /\ isOpen' = [isOpen EXCEPT ![s] = FALSE]
    /\ op' = [op EXCEPT ![s] = "resolve"]

(* The resolution cannot even be started: catch (...) in Open.             *)
OpenFails(s) ==
    /\ "open" \in Faults
    /\ isOpen' = [isOpen EXCEPT ![s] = FALSE]
    /\ op' = op

IsConnected(s) == isOpen[s]
IsTransportConnected(s) == transport[s] = "connected"

(* Closing or destroying a tcp::socket queues the handler of the operation *)
(* it interrupts; a name resolution is the resolver's and goes on.         *)
Interrupted(s) ==
    IF op[s] \in {"connect", "read"} THEN <<Done(op[s], s, "error")>> ELSE <<>>

AfterClose(s) ==
    /\ isOpen' = [isOpen EXCEPT ![s] = FALSE]
    /\ op' = [op EXCEPT ![s] = IF @ = "resolve" THEN @ ELSE "none"]

(* ReleaseSocket: Close, then post RemoveSocket behind what Close queued.  *)
ReleaseSocket_RemovesFirst(s) ==    \* mutant: posts before it closes
    /\ sock[s] = "listed"
    /\ AfterClose(s)
    /\ ready' = ready \o <<Done("remove", s, "ok")>> \o Interrupted(s)

ReleaseSocket(s) ==
    /\ sock[s] = "listed"
    /\ AfterClose(s)
    /\ ready' = ready \o Interrupted(s) \o <<Done("remove", s, "ok")>>

-----------------------------------------------------------------------------
(* What the operating system and the resolver's thread complete.           *)

Complete(call, s, res) ==
    /\ op' = [op EXCEPT ![s] = "none"]
    /\ ready' = Append(ready, Done(call, s, res))
    /\ UNCHANGED <<sock, isOpen, stopped, transport>>

(* The resolver of a removed socket is cancelled.                          *)
ResolveDone(s) ==
    /\ op[s] = "resolve"
    /\ \/ /\ "resolve" \in Faults \/ sock[s] = "removed"
          /\ Complete("resolver", s, "error")
          /\ left' = left
       \/ /\ sock[s] # "removed"
          /\ \E n \in 0..(MaxEndpoints - 1) : left' = [left EXCEPT ![s] = n]
          /\ Complete("resolver", s, "ok")

ConnectDone(s, res) ==
    /\ op[s] = "connect"
    /\ Complete("connect", s, res)
    /\ left' = left

ReadDone(s, res) ==
    /\ op[s] = "read"
    /\ Complete("read", s, res)
    /\ left' = left

-----------------------------------------------------------------------------
(* The handlers, called by poll() or run() in the order of the queue.      *)

Work_NoInput ==                     \* mutant: the menu's input is not re-armed
    ready # <<>> \/ \E s \in Sockets : op[s] # "none"

(* After the handler that leaves nothing outstanding the io_service stops, *)
(* and nothing in the program resets it.                                   *)
Work == OtherWork \/ ready # <<>> \/ \E s \in Sockets : op[s] # "none"

(* A completion for a socket that RemoveSocket has destroyed: the handler  *)
(* runs on freed memory, and does nothing or ends the process.             *)
DanglingHandler(h) ==
    /\ sock[h.sock] = "removed"
    /\ h.call # "remove"
    /\ ready' = Tail(ready)
    /\ UNCHANGED <<sock, isOpen, op, left, transport>>
    /\ stopped' \in {~Work', TRUE}

Connecting(s) ==
    /\ isOpen' = [isOpen EXCEPT ![s] = TRUE]
    /\ op' = [op EXCEPT ![s] = "connect"]

ASIO_Resolver_Handler(h) ==
    /\ h.call = "resolver"
    /\ ready' = Tail(ready)
    /\ UNCHANGED <<sock, left, transport>>
    /\ IF h.res = "ok" THEN Connecting(h.sock) ELSE UNCHANGED <<isOpen, op>>

(* The wrapper answers m_Connect and m_Read by starting the next read; one *)
(* that is already destroyed may or may not still do so.                   *)
WrapperReads(s) ==
    \/ op' = [op EXCEPT ![s] = "read"]
    \/ transport[s] = "dead" /\ op' = op

NextEndpoint_Unchecked(s) == TRUE   \* mutant: the iterator's end is ignored

(* it != tcp::resolver::iterator()                                         *)
NextEndpoint(s) == left[s] > 0

ASIO_Connect_Handler(h) ==
    /\ h.call = "connect"
    /\ sock' = sock
    /\ \/ /\ h.res = "ok" /\ isOpen[h.sock]
          /\ transport' = [transport EXCEPT ![h.sock] =
                               IF @ = "dead" THEN @ ELSE "connected"]
          /\ WrapperReads(h.sock)
          /\ ready' = Tail(ready)
          /\ UNCHANGED <<isOpen, left>>
       \/ /\ h.res = "error" /\ NextEndpoint(h.sock)
          /\ Connecting(h.sock)
          /\ left' = [left EXCEPT ![h.sock] = @ - 1]
          /\ ready' = Tail(ready)
          /\ transport' = transport
       \/ /\ h.res = "error" /\ ~NextEndpoint(h.sock)
          /\ ready' = Tail(ready)
          /\ UNCHANGED <<isOpen, op, left, transport>>

(* The peer's RST may have arrived.                                        *)
ResetByPeer(s) == Ended(down[s])

(* remote_endpoint() throws on a socket that was closed, or whose peer has *)
(* reset the connection, after its connect completed and before this       *)
(* handler; the exception leaves the loop.                                 *)
ConnectHandlerThrows(h) ==
    /\ h.call = "connect" /\ h.res = "ok"
    /\ sock[h.sock] # "removed"
    /\ ~isOpen[h.sock] \/ ResetByPeer(h.sock)
    /\ ready' = Tail(ready)
    /\ stopped' = TRUE
    /\ UNCHANGED <<sock, isOpen, op, left, transport>>

(* End of file, reset and abort all report a successful m_Close.  Other    *)
(* errors go to m_Read as failures; the wrapper, which is not in the       *)
(* repository, is taken to give its transport up on those as well.         *)
ASIO_Read_Handler(h) ==
    /\ h.call = "read"
    /\ ready' = Tail(ready)
    /\ UNCHANGED <<sock, isOpen, left>>
    /\ IF h.res = "error"
       THEN /\ transport' = [transport EXCEPT ![h.sock] =
                                 IF @ = "dead" THEN @ ELSE "closed"]
            /\ op' = op
       ELSE transport' = transport /\ WrapperReads(h.sock)

RemoveSocket_FindsNone(h) ==        \* mutant: remove_if matches no socket
    /\ h.call = "remove"
    /\ ready' = Tail(ready)
    /\ UNCHANGED <<sock, isOpen, op, left, transport>>

RemoveSocket(h) ==
    /\ h.call = "remove"
    /\ sock' = [sock EXCEPT ![h.sock] = "removed"]
    /\ AfterClose(h.sock)
    /\ ready' = Tail(ready) \o Interrupted(h.sock)
    /\ UNCHANGED <<left, transport>>

CallHandler(h) ==
    \/ DanglingHandler(h)
    \/ /\ sock[h.sock] # "removed" \/ h.call = "remove"
       /\ \/ ASIO_Resolver_Handler(h)
          \/ ASIO_Connect_Handler(h)
          \/ ASIO_Read_Handler(h)
          \/ RemoveSocket(h)
       /\ stopped' = ~Work'

(* One turn of poll() or run().                                            *)
PollOne ==
    /\ ~stopped
    /\ ready # <<>>
    /\ CallHandler(Head(ready))

(* One that ends in an exception.                                          *)
PollThrows ==
    /\ ~stopped
    /\ ready # <<>>
    /\ ConnectHandlerThrows(Head(ready))

(* poll() returns when no handler is ready, or at once when stopped.       *)
PollReturns == stopped \/ ready = <<>>
=============================================================================
