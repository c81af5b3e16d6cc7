------------------------- MODULE HarnessMenuProofs --------------------------
(***************************************************************************)
(* Theorems about the client harness's pointers, for any number of         *)
(* sockets.                                                                *)
(***************************************************************************)
EXTENDS HarnessMenu, SequenceTheorems, TLAPS

-----------------------------------------------------------------------------
(* The inductive invariant, in parts.                                      *)

(* For PointersLive: a removal that will find its socket was posted for a  *)
(* pointer that was then cleared. m_pSocket and m_pSerialSocket may name   *)
(* one socket, but T posts the removal of such a socket to the wrong list. *)
RemovalOK(r, tr, opened, held) ==
    /\ r.sock \in (DOMAIN tr) \ opened
    /\ r.list = ListOf(tr[r.sock]) => r.sock \notin held

RemovalsOK(q, tr, opened, held) ==
    \A i \in 1..Len(q) : RemovalOK(q[i], tr, opened, held)

(* m_pSerialSocket moves on with every serial socket, so it is never older *)
(* than the layer, nor than a socket with a link.                          *)
SerialInv ==
    m_pSerialSocket # Null =>
        /\ transport[m_pSerialSocket] # "tcp"
        /\ m_pHDLC <= m_pSerialSocket
        /\ \A s \in Ids : link[s] # "down" => s <= m_pSerialSocket

LinkInv == \A s \in Ids : link[s] # "down" => s \in Live

MenuInv ==
    /\ PointersLive
    /\ RemovalsOK(posted, transport, isOpen, {m_pSocket, m_pSerialSocket})
    /\ SerialInv
    /\ LinkInv

USE MaxCreatedAssumption

-----------------------------------------------------------------------------
(* The posted removals.                                                    *)

LEMMA RemovalsAppend ==
    ASSUME NEW q \in Seq(Removals), NEW r \in Removals,
           NEW tr, NEW opened, NEW held,
           RemovalsOK(q, tr, opened, held), RemovalOK(r, tr, opened, held)
    PROVE  Append(q, r) \in Seq(Removals) /\ RemovalsOK(Append(q, r), tr, opened, held)
<1> DEFINE a == Append(q, r)
<1>1. a \in Seq(Removals) /\ Len(a) = Len(q) + 1
    BY AppendProperties
<1>2. \A i \in 1..Len(q) : a[i] = q[i]
    BY AppendProperties
<1>3. a[Len(q) + 1] = r
    BY AppendProperties
<1>4. Len(q) \in Nat
    BY LenProperties
<1> HIDE DEF a
<1>5. ASSUME NEW i \in 1..Len(a) PROVE RemovalOK(a[i], tr, opened, held)
    <2>1. CASE i \in 1..Len(q)
        BY <1>2, <2>1 DEF RemovalsOK
    <2>2. CASE i = Len(q) + 1
        BY <1>3, <2>2
    <2> QED BY <1>1, <1>4, <2>1, <2>2
<1> QED BY <1>1, <1>5 DEF RemovalsOK, a

LEMMA RemovalsTail ==
    ASSUME NEW q \in Seq(Removals), q # <<>>, NEW tr, NEW opened, NEW held,
           RemovalsOK(q, tr, opened, held)
    PROVE  /\ Head(q) \in Removals /\ RemovalOK(Head(q), tr, opened, held)
           /\ Tail(q) \in Seq(Removals) /\ RemovalsOK(Tail(q), tr, opened, held)
<1> DEFINE t == Tail(q)
<1>1. Head(q) \in Removals /\ t \in Seq(Removals) /\ Len(t) = Len(q) - 1
    BY HeadTailProperties
<1>2. \A i \in 1..Len(t) : t[i] = q[i + 1]
    BY HeadTailProperties
<1>3. Len(q) \in Nat \ {0}
    BY EmptySeq
<1>4. Head(q) = q[1] /\ 1 \in 1..Len(q)
    BY <1>3
<1> HIDE DEF t
<1>5. \A i \in 1..Len(t) : i + 1 \in 1..Len(q)
    BY <1>1, <1>3
<1>6. RemovalOK(Head(q), tr, opened, held)
    BY <1>4 DEF RemovalsOK
<1>7. \A i \in 1..Len(t) : RemovalOK(t[i], tr, opened, held)
    BY <1>2, <1>5 DEF RemovalsOK
<1> QED BY <1>1, <1>6, <1>7 DEF RemovalsOK, t

(* What was posted stays in order when sockets are created, closed or no   *)
(* longer held.                                                            *)
LEMMA RemovalsStay ==
    ASSUME NEW q, NEW tr, NEW opened, NEW held, RemovalsOK(q, tr, opened, held),
           NEW tr2, NEW opened2, NEW held2,
           \A s \in (DOMAIN tr) \ opened :
               /\ s \in (DOMAIN tr2) \ opened2
               /\ tr2[s] = tr[s]
               /\ s \in held2 => s \in held
    PROVE  RemovalsOK(q, tr2, opened2, held2)
BY DEF RemovalsOK, RemovalOK

(* One more socket.                                                        *)
LEMMA TransportAppend ==
    ASSUME NEW n \in Nat, NEW tr \in [1..n -> Transports], NEW for \in Transports
    PROVE  /\ Append(tr, for) \in [1..(n + 1) -> Transports]
           /\ \A s \in 1..n : Append(tr, for)[s] = tr[s]
           /\ Append(tr, for)[n + 1] = for
<1>1. tr \in Seq(Transports)
    BY SeqDef
<1>2. Len(tr) = n
    BY <1>1, LenProperties
<1> DEFINE a == Append(tr, for)
<1>3. a \in Seq(Transports) /\ Len(a) = n + 1
    BY <1>1, <1>2, AppendProperties
<1>4. \A s \in 1..n : a[s] = tr[s]
    BY <1>1, <1>2, AppendProperties
<1>5. a[n + 1] = for
    BY <1>1, <1>2, AppendProperties
<1> HIDE DEF a
<1>6. a \in [1..(n + 1) -> Transports]
    BY <1>3, LenProperties
<1> QED BY <1>4, <1>5, <1>6 DEF a

-----------------------------------------------------------------------------
(* The steps.                                                              *)

Inv == TypeOK /\ MenuInv

LEMMA InitInv == Init => Inv
<1> SUFFICES ASSUME Init PROVE Inv
    OBVIOUS
<1>1. TypeOK
    <2>1. transport \in [Live -> Transports]
        BY SMT DEF Init, Live
    <2> QED BY <2>1, SMT DEF Init, TypeOK, Live, Null
<1>2. MenuInv
    BY SMT DEF Init, MenuInv, PointersLive, RemovalsOK, SerialInv, LinkInv, Null
<1> QED BY <1>1, <1>2 DEF Inv

(* Selections A, B and E: a new socket, which is in no removal, and any of *)
(* the pointers moved on to it.                                            *)
LEMMA CreateInv ==
    ASSUME Inv, NEW for \in Transports, NEW opened \in BOOLEAN, Create(for, opened),
           m_pSocket' \in {m_pSocket, created + 1},
           m_pSerialSocket' \in {m_pSerialSocket, created + 1},
           m_pHDLC' \in {m_pHDLC, created + 1},
           m_pSerialSocket' = created + 1 => for # "tcp",
           m_pHDLC' = created + 1 => m_pSerialSocket' = created + 1
    PROVE  Inv'
<1> DEFINE s == created + 1
<1>1. created \in Nat /\ created' = s /\ s \in Ids /\ s \notin Live
    BY SMT DEF Inv, TypeOK, Create, Ids, Live
<1>2. Live' = Live \cup {s}
    BY <1>1, SMT DEF Live
<1>3. transport \in [1..created -> Transports]
    BY DEF Inv, TypeOK, Live
<1>4. transport' = Append(transport, for)
    BY DEF Create
<1>5. /\ transport' \in [Live' -> Transports]
      /\ \A t \in Live : transport'[t] = transport[t]
      /\ transport'[s] = for
    BY <1>1, <1>3, <1>4, TransportAppend DEF Live
<1>6. /\ listed' = listed \cup {s} /\ isOpen' \in {isOpen, isOpen \cup {s}}
      /\ UNCHANGED <<posted, link, died>> /\ m_pClientEngine' = s
    BY DEF Create
<1> HIDE DEF s
<1>7. {m_pSocket, m_pSerialSocket, m_pHDLC, m_pClientEngine} \subseteq Live \cup {Null}
    BY DEF Inv, TypeOK
<1>8. TypeOK'
    <2>1. listed' \subseteq Live' /\ isOpen' \subseteq listed'
        BY <1>2, <1>6 DEF Inv, TypeOK
    <2>2. created' \in 0..MaxCreated
        BY <1>1, SMT DEF Ids
    <2>3. m_pSocket' \in Live' \cup {Null} /\ m_pSerialSocket' \in Live' \cup {Null}
        BY <1>2, <1>7 DEF s
    <2>4. m_pHDLC' \in Live' \cup {Null} /\ m_pClientEngine' \in Live' \cup {Null}
        BY <1>2, <1>6, <1>7 DEF s
    <2> QED BY <1>5, <1>6, <2>1, <2>2, <2>3, <2>4 DEF Inv, TypeOK
<1>9. PointersLive'
    BY <1>6 DEF Inv, MenuInv, PointersLive, s
<1>10. RemovalsOK(posted, transport, isOpen, {m_pSocket, m_pSerialSocket})'
    <2>1. ASSUME NEW t \in (DOMAIN transport) \ isOpen
          PROVE  /\ t \in (DOMAIN transport') \ isOpen'
                 /\ transport'[t] = transport[t]
                 /\ t \in {m_pSocket', m_pSerialSocket'} => t \in {m_pSocket, m_pSerialSocket}
        <3>1. t \in Live
            BY <1>3 DEF Live
        <3>2. t # s
            BY <1>1, <3>1
        <3>3. t \in DOMAIN transport'
            BY <1>2, <1>5, <3>1
        <3> QED BY <1>5, <1>6, <2>1, <3>1, <3>2, <3>3 DEF s
    <2>2. RemovalsOK(posted, transport, isOpen, {m_pSocket, m_pSerialSocket})
        BY DEF Inv, MenuInv
    <2>3. RemovalsOK(posted, transport', isOpen', {m_pSocket', m_pSerialSocket'})
        BY <2>1, <2>2, RemovalsStay
    <2> QED BY <1>6, <2>3
<1>11. LinkInv'
    BY <1>2, <1>6 DEF Inv, MenuInv, LinkInv
<1>12. SerialInv'
    <2>1. CASE m_pSerialSocket' = s
        <3>1. transport'[m_pSerialSocket'] # "tcp"
            BY <1>5, <2>1 DEF s
        <3>2. m_pHDLC' \in Live \cup {Null, s}
            BY <1>7 DEF s
        <3>3. m_pHDLC' <= s
            BY <1>1, <3>2, SMT DEF Live, Null, s
        <3>4. \A t \in Ids : link'[t] # "down" => t <= s
            <4>1. \A t \in Ids : link[t] # "down" => t \in Live
                BY DEF Inv, MenuInv, LinkInv
            <4>2. \A t \in Live : t <= s
                BY <1>1, SMT DEF Live, s
            <4> QED BY <1>6, <4>1, <4>2
        <3> QED BY <2>1, <3>1, <3>3, <3>4 DEF SerialInv
    <2>2. CASE m_pSerialSocket' # s
        <3>1. m_pSerialSocket' = m_pSerialSocket /\ m_pHDLC' = m_pHDLC
            BY <2>2 DEF s
        <3>2. m_pSerialSocket # Null => transport'[m_pSerialSocket] = transport[m_pSerialSocket]
            BY <1>5, <1>7
        <3> QED BY <1>6, <3>1, <3>2 DEF Inv, MenuInv, SerialInv
    <2> QED BY <2>1, <2>2
<1> QED BY <1>8, <1>9, <1>10, <1>11, <1>12 DEF Inv, MenuInv

(* T and the confirmation: what is released is cleared, unless the removal *)
(* is posted to the other list.                                            *)
LEMMA ReleaseInv ==
    ASSUME Inv, NEW list \in {"tcp", "serial"}, NEW s \in Live, ReleaseSocket(list, s),
           UNCHANGED <<created, transport, listed, m_pHDLC, m_pClientEngine>>,
           m_pSocket' \in {m_pSocket, Null},
           m_pSerialSocket' \in {m_pSerialSocket, Null},
           list = ListOf(transport[s]) => s \notin {m_pSocket', m_pSerialSocket'} \ {Null}
    PROVE  Inv'
<1> DEFINE held == {m_pSocket, m_pSerialSocket}
           held2 == {m_pSocket', m_pSerialSocket'}
           r == [list |-> list, sock |-> s]
<1>1. created \in Nat /\ s \in Ids /\ s # Null /\ Null \notin Live
    BY SMT DEF Inv, TypeOK, Live, Ids, Null
<1>2. DOMAIN transport = Live
    BY DEF Inv, TypeOK
<1>3. r \in Removals
    BY <1>1 DEF Removals
<1>4. RemovalsOK(posted, transport, isOpen, held)
    BY DEF Inv, MenuInv
<1>5. CASE CloseThrows(s)
    <2>1. died' = "close" /\ UNCHANGED <<isOpen, posted, link>>
        BY <1>5 DEF ReleaseSocket
    <2>2. TypeOK'
        BY <2>1 DEF Inv, TypeOK, Live
    <2>3. RemovalsOK(posted, transport, isOpen, held2)
        BY <1>1, <1>2, <1>4, RemovalsStay
    <2>4. RemovalsOK(posted, transport, isOpen, {m_pSocket, m_pSerialSocket})'
        BY <2>1, <2>3
    <2>5. PointersLive' /\ LinkInv' /\ SerialInv'
        BY <2>1 DEF Inv, MenuInv, PointersLive, LinkInv, SerialInv, Live
    <2> QED BY <2>2, <2>4, <2>5 DEF Inv, MenuInv
<1>6. CASE ~CloseThrows(s)
    <2>1. /\ isOpen' = isOpen \ {s} /\ posted' = Append(posted, r)
          /\ link' = [link EXCEPT ![s] = "down"] /\ died' = died
        BY <1>6 DEF ReleaseSocket
    <2> HIDE DEF r
    <2>2. RemovalsOK(posted, transport, isOpen', held2)
        BY <1>1, <1>2, <1>4, <2>1, RemovalsStay
    <2>3. RemovalOK(r, transport, isOpen', held2)
        BY <1>1, <1>2, <2>1 DEF RemovalOK, r
    <2>4. posted \in Seq(Removals)
        BY DEF Inv, TypeOK
    <2>5. posted' \in Seq(Removals) /\ RemovalsOK(posted', transport, isOpen', held2)
        BY <1>3, <2>1, <2>2, <2>3, <2>4, RemovalsAppend
    <2>6. RemovalsOK(posted, transport, isOpen, {m_pSocket, m_pSerialSocket})'
        BY <2>5
    <2>7. TypeOK'
        BY <2>1, <2>5 DEF Inv, TypeOK, Live
    <2>8. PointersLive' /\ LinkInv' /\ SerialInv'
        BY <2>1 DEF Inv, TypeOK, MenuInv, PointersLive, LinkInv, SerialInv, Live
    <2> QED BY <2>6, <2>7, <2>8 DEF Inv, MenuInv
<1> QED BY <1>5, <1>6

LEMMA StepInv == Inv /\ [Next]_vars => Inv'
<1> SUFFICES ASSUME Inv, [Next]_vars PROVE Inv'
    OBVIOUS
<1>1. CASE TCPConnect
    <2>1. PICK opened \in BOOLEAN : Create("tcp", opened)
        BY <1>1 DEF TCPConnect
    <2>2. created' = created + 1
        BY <2>1 DEF Create
    <2>3. /\ m_pSocket' = created + 1
          /\ m_pSerialSocket' = m_pSerialSocket /\ m_pHDLC' = m_pHDLC
        BY <1>1, <2>2 DEF TCPConnect
    <2>4. created + 1 \notin {m_pSerialSocket, m_pHDLC}
        BY SMT DEF Inv, TypeOK, Live, Null
    <2> QED BY <2>1, <2>3, <2>4, CreateInv DEF Transports
<1>2. CASE HDLCPhysicalConnect
    <2>1. PICK opened \in BOOLEAN, ok \in BOOLEAN :
              /\ Create("hdlc", opened)
              /\ m_pSocket' = IF ok THEN created' ELSE m_pSocket
        BY <1>2 DEF HDLCPhysicalConnect
    <2>2. created' = created + 1
        BY <2>1 DEF Create
    <2>3. m_pSerialSocket' = created + 1 /\ m_pHDLC' = created + 1
        BY <1>2, <2>2 DEF HDLCPhysicalConnect
    <2>4. m_pSocket' \in {m_pSocket, created + 1}
        BY <2>1, <2>2
    <2> QED BY <2>1, <2>3, <2>4, CreateInv DEF Transports
<1>3. CASE SerialWrapperConnect
    <2>1. PICK opened \in BOOLEAN : Create("wrapper", opened)
        BY <1>3 DEF SerialWrapperConnect
    <2>2. created' = created + 1
        BY <2>1 DEF Create
    <2>3. /\ m_pSocket' = created + 1
          /\ m_pSerialSocket' = created + 1 /\ m_pHDLC' = m_pHDLC
        BY <1>3, <2>2 DEF SerialWrapperConnect
    <2> QED BY <2>1, <2>3, CreateInv DEF Transports
<1>4. CASE HDLCIdentify
    BY <1>4 DEF HDLCIdentify, sockets, pointers, Inv, TypeOK, MenuInv, PointersLive,
                SerialInv, LinkInv, Live
<1>5. CASE HDLCDatalinkConnect
    <2>1. UNCHANGED <<created, transport, listed, isOpen, posted, pointers>>
        BY <1>5 DEF HDLCDatalinkConnect
    <2>2. \/ link' = link
          \/ m_pHDLC \in isOpen /\ link' = [link EXCEPT ![m_pHDLC] = "up"]
        BY <1>5 DEF HDLCDatalinkConnect
    <2>3. died' \in {died, "freed"}
        BY <1>5 DEF HDLCDatalinkConnect
    <2>4. m_pHDLC \in isOpen => m_pHDLC \in Live
        BY DEF Inv, TypeOK
    <2>5. TypeOK'
        BY <2>1, <2>2, <2>3 DEF Inv, TypeOK, pointers, Live
    <2>6. \A s \in Ids : link'[s] # "down" =>
              link[s] # "down" \/ (s = m_pHDLC /\ m_pHDLC \in isOpen)
        BY <2>2 DEF Inv, TypeOK
    <2>7. LinkInv'
        BY <2>1, <2>4, <2>6 DEF Inv, MenuInv, LinkInv, Live
    <2>8. SerialInv'
        BY <2>1, <2>6 DEF Inv, MenuInv, SerialInv, pointers
    <2>9. PointersLive' /\ RemovalsOK(posted, transport, isOpen, {m_pSocket, m_pSerialSocket})'
        BY <2>1 DEF Inv, MenuInv, PointersLive, pointers
    <2> QED BY <2>5, <2>7, <2>8, <2>9 DEF Inv, MenuInv
<1>6. CASE COSEMOpen \/ COSEMRelease
    <2>1. UNCHANGED <<sockets, pointers>>
        BY <1>6 DEF COSEMOpen, COSEMRelease
    <2>2. died' \in {"none", "null", "freed", died}
        BY <1>6 DEF COSEMOpen, COSEMRelease
    <2> QED BY <2>1, <2>2 DEF sockets, pointers, Inv, TypeOK, MenuInv, PointersLive,
                SerialInv, LinkInv, Live
<1>7. CASE TCPDisconnect
    <2>1. /\ ReleaseSocket("tcp", m_pSocket) /\ m_pSocket' = Null /\ m_pSocket # Null
          /\ UNCHANGED <<created, transport, listed, m_pSerialSocket, m_pHDLC, m_pClientEngine>>
        BY <1>7 DEF TCPDisconnect
    <2>2. m_pSocket \in Live
        BY <2>1 DEF Inv, TypeOK
    <2>3. "tcp" = ListOf(transport[m_pSocket]) => m_pSocket # m_pSerialSocket
        BY <2>1 DEF Inv, MenuInv, SerialInv, ListOf
    <2> QED BY <2>1, <2>2, <2>3, ReleaseInv
<1>8. CASE HDLCDisconnect
    <2>1. /\ link' = [link EXCEPT ![m_pHDLC] = "closing"] /\ link[m_pHDLC] = "up"
          /\ UNCHANGED <<created, transport, listed, isOpen, posted, pointers, died>>
        BY <1>8 DEF HDLCDisconnect
    <2>2. TypeOK'
        BY <2>1 DEF Inv, TypeOK, pointers, Live
    <2>3. \A s \in Ids : link'[s] # "down" => link[s] # "down"
        BY <2>1 DEF Inv, TypeOK
    <2>4. LinkInv' /\ SerialInv'
        BY <2>1, <2>3 DEF Inv, MenuInv, LinkInv, SerialInv, pointers, Live
    <2>5. PointersLive' /\ RemovalsOK(posted, transport, isOpen, {m_pSocket, m_pSerialSocket})'
        BY <2>1 DEF Inv, MenuInv, PointersLive, pointers
    <2> QED BY <2>2, <2>4, <2>5 DEF Inv, MenuInv
<1>9. ASSUME NEW t \in Ids, DisconnectConfirm(t) PROVE Inv'
    <2>1. /\ ReleaseSocket("serial", m_pSerialSocket) /\ m_pSerialSocket # Null
          /\ m_pSocket' = Null /\ m_pSerialSocket' = Null
          /\ UNCHANGED <<created, transport, listed, m_pHDLC, m_pClientEngine>>
        BY <1>9 DEF DisconnectConfirm
    <2>2. m_pSerialSocket \in Live
        BY <2>1 DEF Inv, TypeOK
    <2> QED BY <2>1, <2>2, ReleaseInv
<1>10. ASSUME NEW t \in Ids, NoSocketToRelease(t) PROVE Inv'
    BY <1>10 DEF NoSocketToRelease, sockets, pointers, Inv, TypeOK, MenuInv, PointersLive,
                SerialInv, LinkInv, Live
<1>11. CASE RemoveSocket
    <2> DEFINE r == Head(posted)
               held == {m_pSocket, m_pSerialSocket}
    <2>1. /\ posted # <<>> /\ posted' = Tail(posted)
          /\ listed' = IF r.list = ListOf(transport[r.sock]) THEN listed \ {r.sock} ELSE listed
          /\ UNCHANGED <<created, transport, isOpen, link, pointers, died>>
        BY <1>11 DEF RemoveSocket
    <2>2. posted \in Seq(Removals) /\ RemovalsOK(posted, transport, isOpen, held)
        BY DEF Inv, TypeOK, MenuInv
    <2>3. /\ posted' \in Seq(Removals) /\ RemovalsOK(posted', transport, isOpen, held)
          /\ RemovalOK(r, transport, isOpen, held)
        BY <2>1, <2>2, RemovalsTail
    <2> HIDE DEF r
    <2>4. RemovalsOK(posted, transport, isOpen, held)'
        BY <2>1, <2>3 DEF pointers
    <2>5. TypeOK'
        BY <2>1, <2>3 DEF Inv, TypeOK, RemovalOK, pointers, Live
    <2>6. PointersLive'
        BY <2>1, <2>3 DEF Inv, MenuInv, PointersLive, RemovalOK, pointers
    <2>7. LinkInv' /\ SerialInv'
        BY <2>1 DEF Inv, MenuInv, LinkInv, SerialInv, pointers, Live
    <2> QED BY <2>4, <2>5, <2>6, <2>7 DEF Inv, MenuInv
<1>12. CASE UNCHANGED vars
    BY <1>12 DEF vars, sockets, pointers, Inv, TypeOK, MenuInv, PointersLive,
                 SerialInv, LinkInv, Live
<1> QED BY <1>1, <1>2, <1>3, <1>4, <1>5, <1>6, <1>7, <1>8, <1>9, <1>10, <1>11, <1>12
        DEF Next, Selection

LEMMA Invariance == Spec => []Inv
BY InitInv, StepInv, PTL DEF Spec

-----------------------------------------------------------------------------
(* The theorems.                                                           *)

(* Sockets, removals and pointers keep their types, and what is open is in *)
(* a list, for any number of sockets.                                      *)
THEOREM TypeCorrect == Spec => []TypeOK
<1>1. Inv => TypeOK
    BY DEF Inv
<1> QED BY <1>1, Invariance, PTL

(* m_pSocket and m_pSerialSocket never name a destroyed socket, however    *)
(* many sockets of whatever transport the menu opens and releases.         *)
THEOREM SocketsLive == Spec => []PointersLive
<1>1. Inv => PointersLive
    BY DEF Inv, MenuInv
<1> QED BY <1>1, Invariance, PTL

(* A confirmation releases the socket of its own link or a later one.      *)
THEOREM ConfirmsOwnOrLater == Spec => ConfirmReleasesOwnOrLater
<1>1. Inv /\ [Next]_vars =>
          [\A s \in Ids : DisconnectConfirm(s) => m_pSerialSocket >= s]_vars
    <2>1. ASSUME Inv, NEW s \in Ids, DisconnectConfirm(s) PROVE m_pSerialSocket >= s
        <3>1. m_pSerialSocket # Null /\ link[s] # "down"
            BY <2>1 DEF DisconnectConfirm
        <3>2. s <= m_pSerialSocket
            BY <2>1, <3>1 DEF Inv, MenuInv, SerialInv
        <3>3. s \in Nat /\ m_pSerialSocket \in Nat
            BY <2>1, SMT DEF Inv, TypeOK, Ids, Live, Null
        <3> QED BY <3>2, <3>3, SMT
    <2> QED BY <2>1
<1> QED BY <1>1, Invariance, PTL DEF Spec, ConfirmReleasesOwnOrLater
=============================================================================
