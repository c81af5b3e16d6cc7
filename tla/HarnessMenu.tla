----------------------------- MODULE HarnessMenu ----------------------------
(***************************************************************************)
(* The client test harness (ClientApp of Linux.cpp) with all its           *)
(* transports, at the level of its four pointers: which sockets they name, *)
(* which list a socket is in, and who releases it.  What happens inside a  *)
(* socket is ClientMenu's and SerialSocket's; here a socket is in a list   *)
(* and open, or not.  The menu is a handler of the io_service, so are the  *)
(* posted removals and the HDLC layer's confirmations.                     *)
(***************************************************************************)
EXTENDS Naturals, Sequences

CONSTANT
    MaxCreated     \* how many sockets a behaviour may create

ASSUME MaxCreatedAssumption == MaxCreated \in Nat

Ids == 1..MaxCreated
Null == 0
Transports == {"tcp", "hdlc", "wrapper"}

VARIABLES
    created,           \* how many sockets there have been
    transport,         \* what each was created for
    listed,            \* the sockets in m_TCPSockets or LinuxSerial's m_Sockets
    isOpen,            \* the sockets whose IsConnected() is true
    posted,            \* the removals in the io_service: a list's and a socket
    link,              \* the HDLC layer over a socket: "down", "up", or "closing"
    m_pSocket,
    m_pSerialSocket,
    m_pHDLC,           \* named by the socket the layer was made for
    m_pClientEngine,   \* likewise
    died               \* why the process ended, or "none"

sockets == <<created, transport, listed, isOpen, posted, link>>
pointers == <<m_pSocket, m_pSerialSocket, m_pHDLC, m_pClientEngine>>
vars == <<sockets, pointers, died>>

Removals == [list : {"tcp", "serial"}, sock : Ids]
Pointers == Ids \cup {Null}
Live == 1..created

TypeOK ==
    /\ created \in 0..MaxCreated
    /\ transport \in [Live -> Transports]
    /\ listed \subseteq Live
    /\ isOpen \subseteq listed
    /\ posted \in Seq(Removals)
    /\ link \in [Ids -> {"down", "up", "closing"}]
    /\ {m_pSocket, m_pSerialSocket, m_pHDLC, m_pClientEngine} \subseteq Live \cup {Null}
    /\ died \in {"none", "close", "freed", "null"}

Init ==
    /\ created = 0
    /\ transport = <<>>
    /\ listed = {}
    /\ isOpen = {}
    /\ posted = <<>>
    /\ link = [s \in Ids |-> "down"]
    /\ m_pSocket = Null
    /\ m_pSerialSocket = Null
    /\ m_pHDLC = Null
    /\ m_pClientEngine = Null
    /\ died = "none"

-----------------------------------------------------------------------------
Alive == died = "none"

(* LinuxIP::CreateSocket or LinuxSerial::CreateSocket, and the new engine. *)
Create(for, opened) ==
    LET s == created + 1 IN
    /\ created < MaxCreated
    /\ created' = s
    /\ transport' = Append(transport, for)
    /\ listed' = listed \cup {s}
    /\ isOpen' = IF opened THEN isOpen \cup {s} ELSE isOpen
    /\ m_pClientEngine' = s
    /\ UNCHANGED <<posted, link, died>>

TCPConnect ==                                                         \* A
    /\ Alive
    /\ \E opened \in BOOLEAN : Create("tcp", opened)
    /\ m_pSocket' = created'
    /\ UNCHANGED <<m_pSerialSocket, m_pHDLC>>

HDLCPhysicalConnect_SetsOnSuccess ==   \* mutant: m_pSerialSocket set with m_pSocket
    /\ Alive
    /\ \E opened, ok \in BOOLEAN :
          /\ ok => opened
          /\ Create("hdlc", opened)
          /\ m_pSocket' = IF ok THEN created' ELSE m_pSocket
          /\ m_pSerialSocket' = IF ok THEN created' ELSE m_pSerialSocket
    /\ m_pHDLC' = created'

(* A port whose Open fails is not made m_pSocket; it is open nevertheless  *)
(* when only its options were refused.                                     *)
HDLCPhysicalConnect ==                                                \* B
    /\ Alive
    /\ \E opened, ok \in BOOLEAN :
          /\ ok => opened
          /\ Create("hdlc", opened)
          /\ m_pSocket' = IF ok THEN created' ELSE m_pSocket
    /\ m_pSerialSocket' = created'
    /\ m_pHDLC' = created'

(* The layer writes to its socket, if there is a layer.                    *)
HDLCIdentify ==                                                       \* C
    /\ Alive
    /\ died' = IF m_pHDLC # Null /\ m_pHDLC \notin listed THEN "freed" ELSE died
    /\ UNCHANGED <<sockets, pointers>>

(* The check is made on m_pSerialSocket, the request on m_pHDLC's socket;  *)
(* the link comes up when the server confirms.                             *)
HDLCDatalinkConnect ==                                                \* D
    /\ Alive
    /\ m_pSerialSocket # Null /\ m_pHDLC # Null
    /\ m_pSerialSocket \in isOpen
    /\ link' = IF m_pHDLC \in isOpen /\ link[m_pHDLC] = "down"
               THEN [link EXCEPT ![m_pHDLC] = "up"] ELSE link
    /\ died' = IF m_pHDLC \in listed THEN died ELSE "freed"
    /\ UNCHANGED <<created, transport, listed, isOpen, posted, pointers>>

(* A port that cannot be opened is made m_pSocket all the same.            *)
SerialWrapperConnect ==                                               \* E
    /\ Alive
    /\ \E opened \in BOOLEAN : Create("wrapper", opened)
    /\ m_pSocket' = created'
    /\ m_pSerialSocket' = created'
    /\ UNCHANGED m_pHDLC

(* Close of a socket of that kind, from ReleaseSocket of that list.  A     *)
(* serial port that is not open throws; a TCP socket does not mind.        *)
CloseThrows(s) == transport[s] # "tcp" /\ s \notin isOpen

ReleaseSocket_NoClose(list, s) ==      \* mutant: posts the removal of an open socket
    /\ posted' = Append(posted, [list |-> list, sock |-> s])
    /\ UNCHANGED <<isOpen, link, died>>

ReleaseSocket(list, s) ==
    IF CloseThrows(s)
    THEN died' = "close" /\ UNCHANGED <<isOpen, posted, link>>
    ELSE /\ isOpen' = isOpen \ {s}
         /\ posted' = Append(posted, [list |-> list, sock |-> s])
         /\ link' = [link EXCEPT ![s] = "down"]
         /\ died' = died

(* m_pSocket is released by the IP, whatever it is a socket of.            *)
TCPDisconnect ==                                                      \* T
    /\ Alive
    /\ m_pSocket # Null
    /\ ReleaseSocket("tcp", m_pSocket)
    /\ m_pSocket' = Null
    /\ UNCHANGED <<created, transport, listed, m_pSerialSocket, m_pHDLC, m_pClientEngine>>

HDLCDisconnect ==                                                     \* U
    /\ Alive
    /\ m_pHDLC # Null
    /\ link[m_pHDLC] = "up"
    /\ link' = [link EXCEPT ![m_pHDLC] = "closing"]
    /\ UNCHANGED <<created, transport, listed, isOpen, posted, pointers, died>>

(* The check of selections 1 to 4: they ask the socket, and then the       *)
(* engine.                                                                 *)
COSEMOpen ==                                                          \* 1
    /\ Alive
    /\ m_pSocket # Null
    /\ died' = IF m_pSocket \in listed THEN died ELSE "freed"
    /\ UNCHANGED <<sockets, pointers>>

(* Selection 5 asks nobody.  An engine that is open writes to the socket   *)
(* it was made for.                                                        *)
COSEMRelease ==                                                       \* 5
    /\ Alive
    /\ IF m_pClientEngine = Null THEN died' = "null"
       ELSE died' \in {"none", IF m_pClientEngine \in listed THEN "none" ELSE "freed"}
    /\ UNCHANGED <<sockets, pointers>>

-----------------------------------------------------------------------------
(* The io_service's other handlers.                                        *)

DisconnectConfirm_KeepsSocket(s) ==    \* mutant: m_pSocket is not cleared
    /\ Alive
    /\ link[s] = "closing"
    /\ m_pSerialSocket # Null
    /\ ReleaseSocket("serial", m_pSerialSocket)
    /\ m_pSerialSocket' = Null
    /\ UNCHANGED <<created, transport, listed, m_pSocket, m_pHDLC, m_pClientEngine>>

(* The HDLC layer over s is told that the server disconnected: what is     *)
(* released is m_pSerialSocket.                                            *)
DisconnectConfirm(s) ==
    /\ Alive
    /\ link[s] = "closing"
    /\ m_pSerialSocket # Null
    /\ ReleaseSocket("serial", m_pSerialSocket)
    /\ m_pSerialSocket' = Null
    /\ m_pSocket' = Null
    /\ UNCHANGED <<created, transport, listed, m_pHDLC, m_pClientEngine>>

NoSocketToRelease(s) ==
    /\ Alive
    /\ link[s] = "closing"
    /\ m_pSerialSocket = Null
    /\ died' = "null"
    /\ UNCHANGED <<sockets, pointers>>

ListOf(for) == IF for = "tcp" THEN "tcp" ELSE "serial"

(* RemoveSocket compares addresses, in its own list.                       *)
RemoveSocket ==
    /\ Alive
    /\ posted # <<>>
    /\ posted' = Tail(posted)
    /\ LET r == Head(posted) IN
       listed' = IF r.list = ListOf(transport[r.sock]) THEN listed \ {r.sock} ELSE listed
    /\ UNCHANGED <<created, transport, isOpen, link, pointers, died>>

Selection ==
    \/ TCPConnect \/ HDLCPhysicalConnect \/ HDLCIdentify \/ HDLCDatalinkConnect
    \/ SerialWrapperConnect \/ COSEMOpen \/ COSEMRelease
    \/ TCPDisconnect \/ HDLCDisconnect

Next ==
    \/ Selection
    \/ \E s \in Ids : DisconnectConfirm(s) \/ NoSocketToRelease(s)
    \/ RemoveSocket

Spec == Init /\ [][Next]_vars

-----------------------------------------------------------------------------
(* Properties.                                                             *)

(* In any order of selections and handlers, and however many transports    *)
(* are opened over one another, m_pSocket and m_pSerialSocket name sockets *)
(* that still exist.  (m_pHDLC and m_pClientEngine may not.)               *)
PointersLive ==
    {m_pSocket, m_pSerialSocket} \subseteq listed \cup {Null}

(* A disconnect confirmation never releases a socket older than the one    *)
(* its link was over; it may release a later one.                          *)
ConfirmReleasesOwnOrLater ==
    [][\A s \in Ids : DisconnectConfirm(s) => m_pSerialSocket >= s]_vars
=============================================================================
