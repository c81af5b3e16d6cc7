------------------------- MODULE SerialSocketProofs -------------------------
(***************************************************************************)
(* Theorems about SerialSocket, for every bound on the reads and reads     *)
(* with or without timeouts.                                               *)
(***************************************************************************)
EXTENDS SerialSocket, SequenceTheorems, FiniteSetTheorems, TLAPS

-----------------------------------------------------------------------------
(* The inductive invariant, in parts.                                      *)

(* For ReleaseCleansUp: RemoveSocket is posted once, behind the handlers   *)
(* of all that Close cancelled and all that had completed; and what is     *)
(* started on the closed port later fails with a bad descriptor.  So a     *)
(* read or write handler that is called on a destroyed socket has that     *)
(* error: the read's ignores it, the write's is the late write.  With      *)
(* TypeOK inductive.                                                       *)
EntryOK(h, s, e) ==
    /\ h.what = "read" => h.read \in Reads
    /\ h.what = "timeout" /\ h.err = "ok" => h.read \in e
    /\ h.what = "remove" => s = "released"
    /\ h.what \in {"read", "write"} /\ s = "removed" => h.err = "bad_descriptor"

Harmless(h) ==
    h.what # "remove" /\ (h.what \in {"read", "write"} => h.err = "bad_descriptor")

QueueOK(q, s, e) ==
    /\ \A i \in 1..Len(q) : EntryOK(q[i], s, e)
    /\ \A i, j \in 1..Len(q) : i < j /\ q[i].what = "remove" => Harmless(q[j])

CleanupInv == QueueOK(ready, sock, expired) /\ ReleaseCleansUp

(* For what is reported, in terms of the handlers that are queued: there   *)
(* is at most one of a kind, or none.                                      *)
Once(q, kind) == \A i, j \in 1..Len(q) : q[i] \in kind /\ q[j] \in kind => i = j
None(q, kind) == \A i \in 1..Len(q) : q[i] \notin kind

OfRead == {h \in Handlers : h.what = "read"}
OfWrite == {h \in Handlers : h.what = "write"}
Expiries == {h \in Handlers : h.what = "timeout" /\ h.err = "ok"}
ExpiryOf(r) == {h \in Expiries : h.read = r}
With(kind, err) == {h \in kind : h.err = err}

(* A read that did not end yet is outstanding (r) or has its handler       *)
(* queued; there is one of these at most, and it is the last one started.  *)
ReadsOK(q, n, r, told) ==
    /\ Once(q, OfRead)
    /\ None(q, {h \in OfRead : h.read # n})
    /\ r # 0 => r = n /\ None(q, OfRead)
    /\ \A i \in 1..Len(told) :
          told[i].read <= n /\ (r # 0 \/ ~None(q, OfRead) => told[i].read # n)
    /\ Increasing(told)

(* While every read ended with its data, the buffer has bytes of the read  *)
(* in progress only: none or one while it is outstanding, two when it is   *)
(* done.                                                                   *)
BytesOf(b, r, sizes) == Len(b) \in sizes /\ \A i \in 1..Len(b) : b[i] = r

BytesOK(q, n, r, told, b) ==
    /\ InStep(told)
    /\ (\A i \in 1..Len(told) : told[i].told = "data") =>
          /\ r = 0 /\ None(q, OfRead) => b = <<>>
          /\ r # 0 => BytesOf(b, r, {0, 1})
          /\ ~None(q, With(OfRead, "ok")) => BytesOf(b, n, {2})
          /\ ~None(q, With(OfRead, "bad_descriptor")) => b = <<>>

(* Likewise the write.  A timer expires once, and is queued once.          *)
WritesOK(q, w) == Once(q, OfWrite) /\ (w => None(q, OfWrite))

TimersOK(q, n, a, e) ==
    /\ a # 0 => a = n /\ a \notin e
    /\ e \subseteq 1..n
    /\ \A r \in Reads : Once(q, ExpiryOf(r)) /\ (r \notin e => None(q, ExpiryOf(r)))

(* Every ERR_TIMEOUT, told or queued, is paid for by an expiry whose       *)
(* handler was called, and so is every write taken for a disconnection.    *)
Spent(q, e) == {r \in e : None(q, ExpiryOf(r))}

Owed(s, q, kind) == IF s # "released" /\ ~None(q, With(kind, "aborted")) THEN 1 ELSE 0

ExpiriesOK ==
    /\ Cardinality(TimedOut(reports)) + Owed(sock, ready, OfRead)
           <= Cardinality(Spent(ready, expired))
    /\ Cardinality(CutOff(wrote)) + Owed(sock, ready, OfWrite)
           <= Cardinality(Spent(ready, expired))

(* With TypeOK and CleanupInv this is inductive.                           *)
ReportsInv ==
    /\ ReadsOK(ready, count, reading, reports)
    /\ BytesOK(ready, count, reading, reports, buffer)
    /\ WritesOK(ready, writing)
    /\ TimersOK(ready, count, armed, expired)
    /\ ExpiriesOK

Socks == {"none", "listed", "released", "removed"}

-----------------------------------------------------------------------------
(* The queue of handlers.                                                  *)

NoRemoval(q) == \A i \in 1..Len(q) : q[i].what # "remove"

(* A handler may be queued when it is in order itself and, unless it is    *)
(* harmless, no removal is in front of it.                                 *)
LEMMA AppendOK ==
    ASSUME NEW q \in Seq(Handlers), NEW h \in Handlers, NEW s \in Socks, NEW e,
           QueueOK(q, s, e), EntryOK(h, s, e), Harmless(h) \/ NoRemoval(q)
    PROVE  Append(q, h) \in Seq(Handlers) /\ QueueOK(Append(q, h), s, e)
<1> DEFINE a == Append(q, h)
<1>1. a \in Seq(Handlers) /\ Len(a) = Len(q) + 1 BY AppendProperties
<1>2. \A i \in 1..Len(q) : a[i] = q[i] BY AppendProperties
<1>3. a[Len(q) + 1] = h BY AppendProperties
<1>4. Len(q) \in Nat BY LenProperties
<1> HIDE DEF a
<1>5. ASSUME NEW i \in 1..Len(a) PROVE EntryOK(a[i], s, e)
  <2>1. CASE i \in 1..Len(q) BY <1>2, <2>1 DEF QueueOK
  <2>2. CASE i = Len(q) + 1 BY <1>3, <2>2
  <2>3. QED BY <1>1, <1>4, <2>1, <2>2
<1>6. ASSUME NEW i \in 1..Len(a), NEW j \in 1..Len(a), i < j, a[i].what = "remove"
      PROVE  Harmless(a[j])
  <2>1. i \in 1..Len(q) BY <1>1, <1>4, <1>6
  <2>2. q[i].what = "remove" BY <1>2, <1>6, <2>1
  <2>3. CASE j \in 1..Len(q) BY <1>2, <1>6, <2>1, <2>2, <2>3 DEF QueueOK
  <2>4. CASE j = Len(q) + 1 BY <1>3, <2>1, <2>2, <2>4 DEF NoRemoval
  <2>5. QED BY <1>1, <1>4, <2>3, <2>4
<1>7. QED BY <1>1, <1>5, <1>6 DEF QueueOK, a

(* The rest of the queue is in order, behind a removal also for a socket   *)
(* that is destroyed.                                                      *)
LEMMA TailOK ==
    ASSUME NEW q \in Seq(Handlers), q # <<>>, NEW s \in Socks, NEW e, QueueOK(q, s, e)
    PROVE  /\ Head(q) \in Handlers /\ Tail(q) \in Seq(Handlers)
           /\ EntryOK(Head(q), s, e) /\ QueueOK(Tail(q), s, e)
           /\ Head(q).what = "remove" => QueueOK(Tail(q), "removed", e)
<1> DEFINE t == Tail(q)
<1>1. Head(q) \in Handlers /\ t \in Seq(Handlers) /\ Len(t) = Len(q) - 1
  BY HeadTailProperties
<1>2. \A i \in 1..Len(t) : t[i] = q[i + 1] BY HeadTailProperties
<1>3. Len(q) \in Nat \ {0} BY EmptySeq
<1>4. Head(q) = q[1] /\ 1 \in 1..Len(q) BY <1>3
<1> HIDE DEF t
<1>5. \A i \in 1..Len(t) : i + 1 \in 1..Len(q) BY <1>1, <1>3
<1>6. EntryOK(Head(q), s, e) BY <1>4 DEF QueueOK
<1>7. \A i \in 1..Len(t) : EntryOK(t[i], s, e) BY <1>2, <1>5 DEF QueueOK
<1>8. ASSUME NEW i \in 1..Len(t), NEW j \in 1..Len(t), i < j, t[i].what = "remove"
      PROVE  Harmless(t[j])
  <2>1. t[i] = q[i + 1] /\ t[j] = q[j + 1] BY <1>2
  <2>2. i + 1 < j + 1 BY <1>8
  <2>3. QED BY <1>5, <1>8, <2>1, <2>2 DEF QueueOK
<1>9. ASSUME Head(q).what = "remove", NEW i \in 1..Len(t) PROVE EntryOK(t[i], "removed", e)
  <2>1. 1 < i + 1 OBVIOUS
  <2>2. Harmless(q[i + 1]) BY <1>4, <1>5, <1>9, <2>1 DEF QueueOK
  <2>3. Harmless(t[i]) BY <1>2, <2>2
  <2>4. QED BY <1>7, <2>3 DEF EntryOK, Harmless
<1>10. QED BY <1>1, <1>6, <1>7, <1>8, <1>9 DEF QueueOK, t

(* What a cancelled timer queues is ignored by its handler.                *)
LEMMA TimerCancelledOK ==
    ASSUME NEW q \in Seq(Handlers), NEW s \in Socks, NEW e, QueueOK(q, s, e),
           NEW r \in Reads \cup {0}
    PROVE  q \o TimerCancelled(r) \in Seq(Handlers) /\ QueueOK(q \o TimerCancelled(r), s, e)
<1>1. CASE r = 0
  <2>1. q \o TimerCancelled(r) = q BY <1>1, ConcatEmptySeq DEF TimerCancelled
  <2>2. QED BY <2>1
<1>2. CASE r # 0
  <2> DEFINE h == Handler("timeout", r, "aborted")
  <2>1. h \in Handlers BY DEF Handler, Handlers, Errors
  <2>2. EntryOK(h, s, e) /\ Harmless(h) BY DEF Handler, EntryOK, Harmless
  <2>3. q \o TimerCancelled(r) = q \o <<h>> BY <1>2 DEF TimerCancelled
  <2> HIDE DEF h
  <2>4. q \o <<h>> = Append(q, h) BY <2>1, AppendIsConcat
  <2>5. QED BY <2>1, <2>2, <2>3, <2>4, AppendOK
<1>3. QED BY <1>1, <1>2

(* While the socket is listed no removal is queued.                        *)
LEMMA ListedNoRemoval ==
    ASSUME NEW q, NEW e, QueueOK(q, "listed", e)
    PROVE  NoRemoval(q)
BY DEF QueueOK, EntryOK, NoRemoval

LEMMA ReadEndsOK ==
    ASSUME NEW q \in Seq(Handlers), NEW e, QueueOK(q, "listed", e),
           NEW r \in Reads, NEW err \in Errors
    PROVE  /\ Append(q, Handler("read", r, err)) \in Seq(Handlers)
           /\ QueueOK(Append(q, Handler("read", r, err)), "listed", e)
<1> DEFINE h == Handler("read", r, err)
<1>1. h \in Handlers BY DEF Handler, Handlers
<1>2. EntryOK(h, "listed", e) BY DEF Handler, EntryOK
<1> HIDE DEF h
<1>3. QED BY <1>1, <1>2, ListedNoRemoval, AppendOK DEF h, Socks

LEMMA PortCancelledOK ==
    ASSUME NEW q \in Seq(Handlers), NEW e, QueueOK(q, "listed", e),
           NEW r \in Reads \cup {0}
    PROVE  /\ q \o PortCancelled(r) \in Seq(Handlers)
           /\ QueueOK(q \o PortCancelled(r), "listed", e)
<1>1. CASE r = 0
  <2>1. q \o PortCancelled(r) = q BY <1>1, ConcatEmptySeq DEF PortCancelled
  <2>2. QED BY <2>1
<1>2. CASE r # 0
  <2> DEFINE h == Handler("read", r, "aborted")
  <2>1. h \in Handlers BY <1>2 DEF Handler, Handlers, Errors
  <2>2. q \o PortCancelled(r) = q \o <<h>> BY <1>2 DEF PortCancelled
  <2>3. "aborted" \in Errors /\ r \in Reads BY <1>2 DEF Errors
  <2>4. Append(q, h) \in Seq(Handlers) /\ QueueOK(Append(q, h), "listed", e)
    BY <2>3, ReadEndsOK
  <2> HIDE DEF h
  <2>5. q \o <<h>> = Append(q, h) BY <2>1, AppendIsConcat
  <2>6. QED BY <2>2, <2>4, <2>5
<1>3. QED BY <1>1, <1>2

LEMMA WriteEndsOK ==
    ASSUME NEW q \in Seq(Handlers), NEW e, QueueOK(q, "listed", e), NEW err \in Errors
    PROVE  /\ Append(q, Handler("write", 0, err)) \in Seq(Handlers)
           /\ QueueOK(Append(q, Handler("write", 0, err)), "listed", e)
<1> DEFINE h == Handler("write", 0, err)
<1>1. h \in Handlers BY DEF Handler, Handlers
<1>2. EntryOK(h, "listed", e) BY DEF Handler, EntryOK
<1> HIDE DEF h
<1>3. QED BY <1>1, <1>2, ListedNoRemoval, AppendOK DEF h, Socks

LEMMA WriteCancelledOK ==
    ASSUME NEW q \in Seq(Handlers), NEW e, QueueOK(q, "listed", e), NEW w \in BOOLEAN
    PROVE  /\ q \o WriteCancelled(w) \in Seq(Handlers)
           /\ QueueOK(q \o WriteCancelled(w), "listed", e)
<1>1. CASE w = FALSE
  <2>1. q \o WriteCancelled(w) = q BY <1>1, ConcatEmptySeq DEF WriteCancelled
  <2>2. QED BY <2>1
<1>2. CASE w = TRUE
  <2> DEFINE h == Handler("write", 0, "aborted")
  <2>1. h \in Handlers BY DEF Handler, Handlers, Errors
  <2>2. q \o WriteCancelled(w) = q \o <<h>> BY <1>2 DEF WriteCancelled
  <2>3. "aborted" \in Errors BY DEF Errors
  <2>4. Append(q, h) \in Seq(Handlers) /\ QueueOK(Append(q, h), "listed", e)
    BY <2>3, WriteEndsOK
  <2> HIDE DEF h
  <2>5. q \o <<h>> = Append(q, h) BY <2>1, AppendIsConcat
  <2>6. QED BY <2>2, <2>4, <2>5
<1>3. QED BY <1>1, <1>2

(* The buffer holds the numbers of reads.                                  *)
LEMMA RestOK ==
    ASSUME NEW b \in Seq(Reads)
    PROVE  Rest(b) \in Seq(Reads)
<1>1. CASE Len(b) <= 2 BY <1>1 DEF Rest
<1>2. CASE ~(Len(b) <= 2)
  <2>1. Len(b) \in Nat BY LenProperties
  <2>2. b # <<>> BY <1>2, EmptySeq
  <2>3. Tail(b) \in Seq(Reads) /\ Len(Tail(b)) = Len(b) - 1 BY <2>2, HeadTailProperties
  <2>4. Tail(b) # <<>> BY <1>2, <2>1, <2>3, EmptySeq
  <2>5. Tail(Tail(b)) \in Seq(Reads) BY <2>3, <2>4, HeadTailProperties
  <2>6. QED BY <1>2, <2>5 DEF Rest
<1>3. QED BY <1>1, <1>2

(* Read, from outside or from a callback, leaves the queue in order.       *)
LEMMA ReadOK ==
    ASSUME TypeOK, NEW timed \in BOOLEAN, NEW q \in Seq(Handlers),
           QueueOK(q, sock, expired), NEW waiting \in Reads \cup {0},
           Read(timed, q, waiting)
    PROVE  /\ count' \in 0..MaxReads /\ armed' \in 0..count'
           /\ reading' \in 0..count' /\ (reading' # 0 => isOpen)
           /\ ready' \in Seq(Handlers) /\ QueueOK(ready', sock, expired)
<1> DEFINE n == count + 1
           q1 == IF isOpen THEN q ELSE Append(q, Handler("read", n, "bad_descriptor"))
<1>1. n \in Reads /\ count \in Nat /\ count' = n
  BY MaxReadsAssumption DEF TypeOK, Read, Reads
<1>2. count' \in 0..MaxReads /\ armed' \in 0..count'
  BY <1>1, MaxReadsAssumption DEF Read, Reads
<1>3. reading' \in 0..count' /\ (reading' # 0 => isOpen)
  BY <1>1, MaxReadsAssumption DEF Read, Reads
<1>4. q1 \in Seq(Handlers) /\ QueueOK(q1, sock, expired)
  <2>1. CASE isOpen BY <2>1
  <2>2. CASE ~isOpen
    <3> DEFINE h == Handler("read", n, "bad_descriptor")
    <3>1. h \in Handlers BY <1>1 DEF Handler, Handlers, Errors
    <3>2. EntryOK(h, sock, expired) /\ Harmless(h) BY <1>1 DEF Handler, EntryOK, Harmless
    <3>3. sock \in Socks BY DEF TypeOK, Socks
    <3>4. q1 = Append(q, h) BY <2>2
    <3> HIDE DEF h, q1
    <3>5. QED BY <3>1, <3>2, <3>3, <3>4, AppendOK
  <2>3. QED BY <2>1, <2>2
<1>5. ready' = q1 \o TimerCancelled(waiting) BY DEF Read
<1>6. sock \in Socks BY DEF TypeOK, Socks
<1> HIDE DEF q1
<1>7. ready' \in Seq(Handlers) /\ QueueOK(ready', sock, expired)
  BY <1>4, <1>5, <1>6, TimerCancelledOK
<1>8. QED BY <1>2, <1>3, <1>7


(* The queue stays in order when the socket is created or released and     *)
(* when a timer expires.                                                   *)
LEMMA StateOK ==
    ASSUME NEW q, NEW s \in Socks, NEW e, QueueOK(q, s, e),
           NEW t \in Socks, t = s \/ (s # "released" /\ t # "removed"),
           NEW f, e \subseteq f
    PROVE  QueueOK(q, t, f)
BY DEF QueueOK, EntryOK

-----------------------------------------------------------------------------
(* The invariant.                                                          *)

Inv == TypeOK /\ CleanupInv

LEMMA InitInv == Init => Inv
<1> SUFFICES ASSUME Init PROVE Inv OBVIOUS
<1>1. ready \in Seq(Handlers) /\ reports \in Seq(Reports) /\ Len(ready) = 0
  BY EmptySeq DEF Init
<1>6. buffer \in Seq(Reads) /\ wrote \in Seq(WriteReports) BY EmptySeq DEF Init
<1>2. /\ sock = "none" /\ isOpen = FALSE /\ count = 0 /\ reading = 0 /\ armed = 0
      /\ expired = {} /\ died = "none" /\ writes = 0 /\ writing = FALSE
  BY DEF Init
<1>3. TypeOK
  <2>1. 0 \in 0..MaxReads /\ 0 \in 0..MaxWrites
    BY MaxReadsAssumption, MaxWritesAssumption
  <2>2. isOpen \in BOOLEAN /\ (isOpen => sock = "listed") BY <1>2
  <2>3. reading \in 0..count /\ (reading # 0 => isOpen) /\ armed \in 0..count BY <1>2
  <2>4. QED BY <1>1, <1>2, <1>6, <2>1, <2>2, <2>3 DEF TypeOK, Ends
<1>4. QueueOK(ready, sock, expired) BY <1>1 DEF QueueOK
<1>5. QED BY <1>2, <1>3, <1>4 DEF Inv, CleanupInv, ReleaseCleansUp

LEMMA Numbers ==
    ASSUME TypeOK
    PROVE  /\ armed \in Reads \cup {0} /\ reading \in Reads \cup {0}
           /\ count \in Nat /\ sock \in Socks
BY MaxReadsAssumption DEF TypeOK, Reads, Socks

(* The program's calls.                                                    *)
LEMMA CallsInv ==
    ASSUME Inv, CreateSocket \/ Open \/ StartRead \/ StartWrite \/ ReleaseSocket \/ CloseThrows
    PROVE  Inv'
<1>1. TypeOK /\ QueueOK(ready, sock, expired) /\ ReleaseCleansUp BY DEF Inv, CleanupInv
<1>2. CASE CreateSocket
  <2>1. TypeOK' BY <1>1, <1>2 DEF CreateSocket, TypeOK, writeVars
  <2>2. QueueOK(ready, "listed", expired) BY <1>1, <1>2, StateOK DEF CreateSocket, Socks
  <2>3. QED BY <1>1, <1>2, <2>1, <2>2 DEF CreateSocket, Inv, CleanupInv, ReleaseCleansUp
<1>3. CASE Open
  BY <1>1, <1>3 DEF Open, Inv, TypeOK, CleanupInv, ReleaseCleansUp, writeVars
<1>4. CASE StartRead
  <2>1. PICK timed \in Timings : Read(timed, ready, armed) BY <1>4 DEF StartRead
  <2>2. timed \in BOOLEAN BY TimingsAssumption
  <2>3. ready \in Seq(Handlers) BY <1>1 DEF TypeOK
  <2>4. /\ count' \in 0..MaxReads /\ armed' \in 0..count'
        /\ reading' \in 0..count' /\ (reading' # 0 => isOpen)
        /\ ready' \in Seq(Handlers) /\ QueueOK(ready', sock, expired)
    BY <1>1, <2>1, <2>2, <2>3, Numbers, ReadOK
  <2>5. UNCHANGED <<sock, isOpen, reports, expired, died, buffer, writes, writing, wrote>>
    BY <1>4 DEF StartRead, writeVars
  <2>6. TypeOK' BY <1>1, <2>4, <2>5 DEF TypeOK
  <2>7. QED BY <1>1, <2>4, <2>5, <2>6 DEF Inv, CleanupInv, ReleaseCleansUp
<1>5. CASE ReleaseSocket
  <2> DEFINE p == ready \o PortCancelled(reading)
             q == p \o WriteCancelled(writing)
             h == Handler("remove", 0, "ok")
  <2>1. sock = "listed" /\ ready \in Seq(Handlers) BY <1>1, <1>5 DEF ReleaseSocket, TypeOK
  <2>11. p \in Seq(Handlers) /\ QueueOK(p, "listed", expired)
    BY <1>1, <2>1, Numbers, PortCancelledOK
  <2>12. writing \in BOOLEAN BY <1>1 DEF TypeOK
  <2> HIDE DEF p
  <2>2. q \in Seq(Handlers) /\ QueueOK(q, "listed", expired)
    BY <2>11, <2>12, WriteCancelledOK
  <2>3. NoRemoval(q) BY <2>2, ListedNoRemoval
  <2>4. h \in Handlers /\ EntryOK(h, "released", expired)
    BY DEF Handler, Handlers, Errors, EntryOK
  <2>5. ready' = Append(q, h) BY <1>5 DEF ReleaseSocket, p
  <2>6. sock' = "released" /\ isOpen' = FALSE /\ reading' = 0 /\ writing' = FALSE
        /\ UNCHANGED <<count, armed, buffer, reports, expired, died, writes, wrote>>
    BY <1>5 DEF ReleaseSocket
  <2> HIDE DEF q, h
  <2>7. QueueOK(q, "released", expired) BY <2>2, StateOK DEF Socks
  <2>8. ready' \in Seq(Handlers) /\ QueueOK(ready', "released", expired)
    BY <2>2, <2>3, <2>4, <2>5, <2>7, AppendOK DEF Socks
  <2>9. TypeOK'
    <3>1. isOpen' \in BOOLEAN /\ (isOpen' => sock' = "listed") BY <2>6
    <3>2. reading' \in 0..count' /\ (reading' # 0 => isOpen') BY <2>6, Numbers, <1>1
    <3>3. QED BY <1>1, <2>6, <2>8, <3>1, <3>2 DEF TypeOK
  <2>10. QED BY <1>1, <2>6, <2>8, <2>9 DEF Inv, CleanupInv, ReleaseCleansUp
<1>6. CASE CloseThrows
  BY <1>1, <1>6 DEF CloseThrows, Inv, TypeOK, Ends, CleanupInv, ReleaseCleansUp, writeVars
<1>7. CASE StartWrite
  <2> DEFINE h == Handler("write", 0, "bad_descriptor")
  <2>1. writes' \in 0..MaxWrites /\ writing' = isOpen
    BY <1>1, <1>7, MaxWritesAssumption DEF StartWrite, TypeOK
  <2>2. /\ UNCHANGED <<sock, isOpen, count, reading, armed, buffer, reports, wrote,
                       expired, died>>
        /\ ready' = IF isOpen THEN ready ELSE Append(ready, h)
        /\ sock \in {"listed", "released"}
    BY <1>7 DEF StartWrite
  <2>3. h \in Handlers /\ EntryOK(h, sock, expired) /\ Harmless(h)
    BY <2>2 DEF Handler, Handlers, Errors, EntryOK, Harmless
  <2>4. ready \in Seq(Handlers) /\ sock \in Socks BY <1>1, Numbers DEF TypeOK
  <2> HIDE DEF h
  <2>5. Append(ready, h) \in Seq(Handlers) /\ QueueOK(Append(ready, h), sock, expired)
    BY <1>1, <2>3, <2>4, AppendOK
  <2>6. ready' \in Seq(Handlers) /\ QueueOK(ready', sock, expired)
    BY <1>1, <2>2, <2>4, <2>5
  <2>7. writing' \in BOOLEAN /\ (writing' => isOpen) BY <1>1, <2>1 DEF TypeOK
  <2>8. TypeOK' BY <1>1, <2>1, <2>2, <2>6, <2>7 DEF TypeOK
  <2>9. QED BY <1>1, <2>2, <2>6, <2>8 DEF Inv, CleanupInv, ReleaseCleansUp
<1>8. QED BY <1>2, <1>3, <1>4, <1>5, <1>6, <1>7

(* The line and the clock.                                                 *)
LEMMA LineInv ==
    ASSUME Inv, ByteArrives \/ ReadFails \/ ReadDone \/ WriteDone \/ TimerExpires
    PROVE  Inv'
<1>1. TypeOK /\ QueueOK(ready, sock, expired) /\ ReleaseCleansUp BY DEF Inv, CleanupInv
<1>2. CASE ReadDone \/ ReadFails
  <2>1. PICK err \in {"ok", "eof", "failed"} :
            ready' = Append(ready, Handler("read", reading, err))
    BY <1>2 DEF ReadDone, ReadFails
  <2>2. /\ reading \in Reads /\ sock = "listed" /\ err \in Errors
        /\ ready \in Seq(Handlers) /\ buffer \in Seq(Reads)
    BY <1>1, <1>2, Numbers DEF ReadDone, ReadFails, TypeOK, Errors
  <2>3. ready' \in Seq(Handlers) /\ QueueOK(ready', "listed", expired)
    BY <1>1, <2>1, <2>2, ReadEndsOK
  <2>4. /\ reading' = 0
        /\ UNCHANGED <<sock, isOpen, count, armed, reports, expired, died,
                       writes, writing, wrote>>
        /\ buffer' = buffer \/ buffer' = Append(buffer, reading)
    BY <1>2 DEF ReadDone, ReadFails, writeVars
  <2>5. buffer' \in Seq(Reads) BY <2>2, <2>4, AppendProperties
  <2>6. TypeOK' BY <1>1, <2>3, <2>4, <2>5, Numbers DEF TypeOK
  <2>7. QED BY <1>1, <2>2, <2>3, <2>4, <2>6 DEF Inv, CleanupInv, ReleaseCleansUp
<1>5. CASE ByteArrives
  <2>1. reading \in Reads /\ buffer \in Seq(Reads)
    BY <1>1, <1>5, Numbers DEF ByteArrives, TypeOK
  <2>2. buffer' \in Seq(Reads) BY <1>5, <2>1, AppendProperties DEF ByteArrives
  <2>3. UNCHANGED <<sock, isOpen, count, reading, armed, ready, reports, expired, died,
                    writes, writing, wrote>>
    BY <1>5 DEF ByteArrives, writeVars
  <2>4. TypeOK' BY <1>1, <2>2, <2>3 DEF TypeOK
  <2>5. QED BY <1>1, <2>3, <2>4 DEF Inv, CleanupInv, ReleaseCleansUp
<1>6. CASE WriteDone
  <2>1. PICK err \in {"ok", "failed"} : ready' = Append(ready, Handler("write", 0, err))
    BY <1>6 DEF WriteDone
  <2>2. sock = "listed" /\ err \in Errors /\ ready \in Seq(Handlers)
    BY <1>1, <1>6 DEF WriteDone, TypeOK, Errors
  <2>3. ready' \in Seq(Handlers) /\ QueueOK(ready', "listed", expired)
    BY <1>1, <2>1, <2>2, WriteEndsOK
  <2>4. /\ writing' = FALSE
        /\ UNCHANGED <<sock, isOpen, count, reading, armed, buffer, reports, expired, died,
                       writes, wrote>>
    BY <1>6 DEF WriteDone
  <2>5. TypeOK' BY <1>1, <2>3, <2>4 DEF TypeOK
  <2>6. QED BY <1>1, <2>2, <2>3, <2>4, <2>5 DEF Inv, CleanupInv, ReleaseCleansUp
<1>3. CASE TimerExpires
  <2> DEFINE h == Handler("timeout", armed, "ok")
  <2>1. armed \in Reads /\ ready \in Seq(Handlers) /\ sock \in Socks
    BY <1>1, <1>3, Numbers DEF TimerExpires, TypeOK
  <2>2. /\ ready' = Append(ready, h) /\ expired' = expired \cup {armed} /\ armed' = 0
        /\ UNCHANGED <<sock, isOpen, count, reading, reports, died, buffer,
                       writes, writing, wrote>>
    BY <1>3 DEF TimerExpires, writeVars
  <2>3. h \in Handlers /\ EntryOK(h, sock, expired') /\ Harmless(h)
    BY <2>1, <2>2 DEF Handler, Handlers, Errors, EntryOK, Harmless
  <2> HIDE DEF h
  <2>4. QueueOK(ready, sock, expired') BY <1>1, <2>1, <2>2, StateOK
  <2>5. ready' \in Seq(Handlers) /\ QueueOK(ready', sock, expired')
    BY <2>1, <2>2, <2>3, <2>4, AppendOK
  <2>6. TypeOK' BY <1>1, <2>1, <2>2, <2>5, Numbers DEF TypeOK
  <2>7. expired' # {} BY <2>2
  <2>8. QED BY <2>2, <2>5, <2>6, <2>7 DEF Inv, CleanupInv, ReleaseCleansUp
<1>4. QED BY <1>2, <1>3, <1>5, <1>6


(* The handlers.                                                           *)
LEMMA PollInv ==
    ASSUME Inv, PollOne
    PROVE  Inv'
<1> DEFINE c == Head(ready)
           t == Tail(ready)
<1>1. TypeOK /\ QueueOK(ready, sock, expired) /\ ReleaseCleansUp BY DEF Inv, CleanupInv
<1>2. ready \in Seq(Handlers) /\ ready # <<>> /\ Alive BY <1>1 DEF PollOne, TypeOK
<1>3. /\ armed \in Reads \cup {0} /\ reading \in Reads \cup {0}
      /\ count \in Nat /\ sock \in Socks
  BY <1>1, Numbers
<1>4. /\ c \in Handlers /\ t \in Seq(Handlers)
      /\ EntryOK(c, sock, expired) /\ QueueOK(t, sock, expired)
      /\ c.what = "remove" => QueueOK(t, "removed", expired)
  BY <1>1, <1>2, <1>3, TailOK
<1>5. \/ ASIO_Read_Handler(c) \/ ASIO_Write_Handler(c)
      \/ ASIO_Read_Timeout(c) \/ TimeoutThrows(c)
      \/ Ignored(c) \/ RemoveSocket(c) \/ DanglingHandler(c)
  BY DEF PollOne
<1>6. t \o TimerCancelled(armed) \in Seq(Handlers) /\ QueueOK(t \o TimerCancelled(armed), sock, expired)
  BY <1>3, <1>4, TimerCancelledOK
<1>7. CASE ASIO_Read_Handler(c)
  <2> DEFINE queue == t \o TimerCancelled(armed)
             report == Report(c)
  <2>1. /\ c.what = "read" /\ c.err # "bad_descriptor" /\ reports' = Append(reports, report)
        /\ UNCHANGED <<sock, isOpen, expired, died, writes, writing, wrote>>
        /\ buffer' = Rest(buffer) \/ buffer' = buffer
    BY <1>7 DEF ASIO_Read_Handler, writeVars
  <2>6. buffer' \in Seq(Reads) BY <1>1, <2>1, RestOK DEF TypeOK
  <2>2. reports' \in Seq(Reports)
    <3>1. c.read \in Reads /\ c.err \in {"ok", "aborted", "eof", "failed"}
      BY <1>4, <2>1 DEF EntryOK, Handlers, Errors
    <3>2. Told(c.err) \in {"data", "ERR_TIMEOUT", "error", "closed"} BY <3>1 DEF Told
    <3>6. (c.err = "ok" /\ Own(c.read)) \in BOOLEAN BY DEF Own
    <3>7. (sock = "released") \in BOOLEAN OBVIOUS
    <3>3. report \in Reports BY <3>1, <3>2, <3>6, <3>7 DEF Reports, Report
    <3>4. reports \in Seq(Reports) BY <1>1 DEF TypeOK
    <3> HIDE DEF report
    <3>5. QED BY <2>1, <3>3, <3>4, AppendProperties
  <2>3. CASE ready' = queue /\ armed' = 0 /\ UNCHANGED <<count, reading>>
    <3>1. ready' \in Seq(Handlers) /\ QueueOK(ready', sock, expired) BY <1>6, <2>3
    <3> HIDE DEF c, t, queue, report
    <3>2. TypeOK' BY <1>1, <1>3, <2>1, <2>2, <2>3, <2>6, <3>1 DEF TypeOK
    <3>3. QED BY <1>1, <2>1, <3>1, <3>2 DEF Inv, CleanupInv, ReleaseCleansUp
  <2>4. CASE \E timed \in Timings : Read(timed, queue, 0)
    <3>1. PICK timed \in Timings : Read(timed, queue, 0) BY <2>4
    <3>2. timed \in BOOLEAN BY TimingsAssumption
    <3>3. queue \in Seq(Handlers) /\ QueueOK(queue, sock, expired) BY <1>6
    <3> HIDE DEF c, t, queue, report
    <3>4. /\ count' \in 0..MaxReads /\ armed' \in 0..count'
          /\ reading' \in 0..count' /\ (reading' # 0 => isOpen)
          /\ ready' \in Seq(Handlers) /\ QueueOK(ready', sock, expired)
      BY <1>1, <3>1, <3>2, <3>3, ReadOK
    <3>5. TypeOK' BY <1>1, <2>1, <2>2, <2>6, <3>4 DEF TypeOK
    <3>6. QED BY <1>1, <2>1, <3>4, <3>5 DEF Inv, CleanupInv, ReleaseCleansUp
  <2>5. QED BY <1>7, <2>3, <2>4 DEF ASIO_Read_Handler
<1>8. CASE ASIO_Read_Timeout(c)
  <2> DEFINE q == t \o PortCancelled(reading)
  <2>1. /\ isOpen /\ ready' = q \o WriteCancelled(writing)
        /\ reading' = 0 /\ writing' = FALSE
        /\ UNCHANGED <<sock, isOpen, count, armed, buffer, reports, expired, died,
                       writes, wrote>>
    BY <1>8 DEF ASIO_Read_Timeout
  <2>2. sock = "listed" /\ writing \in BOOLEAN BY <1>1, <2>1 DEF TypeOK
  <2>6. q \in Seq(Handlers) /\ QueueOK(q, "listed", expired)
    BY <1>3, <1>4, <2>2, PortCancelledOK
  <2> HIDE DEF c, t, q
  <2>3. ready' \in Seq(Handlers) /\ QueueOK(ready', sock, expired)
    BY <2>1, <2>2, <2>6, WriteCancelledOK
  <2>4. TypeOK'
    <3>1. reading' = 0 /\ count \in 0..MaxReads BY <1>1, <2>1 DEF TypeOK
    <3>2. reading' \in 0..count BY <3>1, MaxReadsAssumption
    <3>3. writing' \in BOOLEAN BY <2>1
    <3>4. ~writing' BY <2>1
    <3>5. QED BY <1>1, <2>1, <2>2, <2>3, <3>1, <3>2, <3>3, <3>4 DEF TypeOK
  <2>5. QED BY <1>1, <2>1, <2>3, <2>4 DEF Inv, CleanupInv, ReleaseCleansUp
<1>9. CASE TimeoutThrows(c) \/ DanglingHandler(c)
  <2>1. /\ ready' = t
        /\ UNCHANGED <<sock, isOpen, count, reading, armed, reports, expired, buffer,
                       writes, writing, wrote>>
    BY <1>9 DEF TimeoutThrows, DanglingHandler, writeVars
  <2>2. \/ died' \in {"cancel", "expiry"} /\ c.what = "timeout" /\ c.err = "ok"
        \/ died' = "late write"
    BY <1>4, <1>9 DEF TimeoutThrows, DanglingHandler, Dangling, EntryOK
  <2>3. died' \in {"cancel", "expiry"} => expired # {}
    <3>1. CASE c.what = "timeout" /\ c.err = "ok" BY <1>4, <3>1 DEF EntryOK
    <3>2. CASE died' = "late write" BY <3>2
    <3>3. QED BY <2>2, <3>1, <3>2
  <2>4. ready' \in Seq(Handlers) /\ QueueOK(ready', sock, expired) BY <1>4, <2>1
  <2>5. died' \in {"cancel", "expiry", "late write"} BY <2>2
  <2> HIDE DEF c, t
  <2>6. TypeOK' BY <1>1, <2>1, <2>4, <2>5 DEF TypeOK, Ends
  <2>7. QED BY <2>1, <2>3, <2>4, <2>5, <2>6 DEF Inv, CleanupInv, ReleaseCleansUp
<1>10. CASE Ignored(c)
  <2>1. /\ ready' = t
        /\ UNCHANGED <<sock, isOpen, count, reading, armed, reports, expired, died, buffer,
                       writes, writing, wrote>>
    BY <1>10 DEF Ignored, writeVars
  <2>2. ready' \in Seq(Handlers) /\ QueueOK(ready', sock, expired) BY <1>4, <2>1
  <2> HIDE DEF c, t
  <2>3. TypeOK' BY <1>1, <2>1, <2>2 DEF TypeOK
  <2>4. QED BY <1>1, <2>1, <2>2, <2>3 DEF Inv, CleanupInv, ReleaseCleansUp
<1>11. CASE RemoveSocket(c)
  <2>1. /\ c.what = "remove" /\ sock' = "removed" /\ armed' = 0
        /\ ready' = t \o TimerCancelled(armed)
        /\ UNCHANGED <<isOpen, count, reading, reports, expired, died, buffer,
                       writes, writing, wrote>>
    BY <1>11 DEF RemoveSocket, writeVars
  <2>2. sock = "released" BY <1>4, <2>1 DEF EntryOK
  <2>3. "removed" \in Socks BY DEF Socks
  <2>4. ready' \in Seq(Handlers) /\ QueueOK(ready', "removed", expired)
    BY <1>3, <1>4, <2>1, <2>3, TimerCancelledOK
  <2> HIDE DEF c, t
  <2>5. TypeOK' BY <1>1, <1>3, <2>1, <2>2, <2>4 DEF TypeOK
  <2>6. QED BY <1>1, <2>1, <2>4, <2>5 DEF Inv, CleanupInv, ReleaseCleansUp
<1>12. CASE ASIO_Write_Handler(c)
  <2> DEFINE report == [told |-> WriteTold(c.err), released |-> sock = "released"]
  <2>1. /\ ready' = t /\ wrote' = Append(wrote, report)
        /\ UNCHANGED <<sock, isOpen, count, reading, armed, buffer, reports, expired, died,
                       writes, writing>>
    BY <1>12 DEF ASIO_Write_Handler
  <2>2. WriteTold(c.err) \in {"sent", "error", "closed"} BY DEF WriteTold
  <2>3. (sock = "released") \in BOOLEAN OBVIOUS
  <2>4. report \in WriteReports BY <2>2, <2>3 DEF WriteReports
  <2>5. wrote \in Seq(WriteReports) BY <1>1 DEF TypeOK
  <2> HIDE DEF report
  <2>6. wrote' \in Seq(WriteReports) BY <2>1, <2>4, <2>5, AppendProperties
  <2>7. ready' \in Seq(Handlers) /\ QueueOK(ready', sock, expired) BY <1>4, <2>1
  <2> HIDE DEF c, t
  <2>8. TypeOK' BY <1>1, <2>1, <2>6, <2>7 DEF TypeOK
  <2>9. QED BY <1>1, <2>1, <2>7, <2>8 DEF Inv, CleanupInv, ReleaseCleansUp
<1>13. QED BY <1>5, <1>7, <1>8, <1>9, <1>10, <1>11, <1>12

LEMMA NextInv == Inv /\ [Next]_vars => Inv'
<1> SUFFICES ASSUME Inv, [Next]_vars PROVE Inv' OBVIOUS
<1>1. CASE Next
  BY <1>1, CallsInv, LineInv, PollInv DEF Next
<1>2. CASE UNCHANGED vars
  BY <1>2 DEF vars, writeVars, Inv, TypeOK, CleanupInv, ReleaseCleansUp
<1>3. QED BY <1>1, <1>2

(* The variables of the socket keep their types, whatever is read,         *)
(* cancelled and released: an outstanding read has an open, listed socket. *)
THEOREM TypeCorrect == Spec => []TypeOK
<1>1. Inv => TypeOK BY DEF Inv
<1>2. QED BY <1>1, InitInv, NextInv, PTL DEF Spec

(* No handler of a read or a write that Close cancelled, or that completed *)
(* before the release, runs on a destroyed socket: posting RemoveSocket    *)
(* gives the cleanup its turn first.  What escapes it is a timer that did  *)
(* expire, and a write made on the closed port.                            *)
THEOREM ReleaseLetsCleanUp == Spec => []ReleaseCleansUp
<1>1. Inv => ReleaseCleansUp BY DEF Inv, CleanupInv
<1>2. QED BY <1>1, InitInv, NextInv, PTL DEF Spec

-----------------------------------------------------------------------------
(* Kinds of handlers in a queue.                                           *)

LEMMA AppendKind ==
    ASSUME NEW q \in Seq(Handlers), NEW h \in Handlers, NEW kind
    PROVE  /\ None(Append(q, h), kind) <=> None(q, kind) /\ h \notin kind
           /\ Once(q, kind) /\ (h \in kind => None(q, kind)) => Once(Append(q, h), kind)
<1> DEFINE a == Append(q, h)
<1>1. Len(a) = Len(q) + 1 BY AppendProperties
<1>2. \A i \in 1..Len(q) : a[i] = q[i] BY AppendProperties
<1>3. a[Len(q) + 1] = h BY AppendProperties
<1>4. Len(q) \in Nat BY LenProperties
<1> HIDE DEF a
<1>5. None(a, kind) <=> None(q, kind) /\ h \notin kind
  <2>1. ASSUME None(a, kind) PROVE None(q, kind) /\ h \notin kind
    <3>1. Len(q) + 1 \in 1..Len(a) /\ \A i \in 1..Len(q) : i \in 1..Len(a)
      BY <1>1, <1>4
    <3>2. QED BY <1>2, <1>3, <2>1, <3>1 DEF None
  <2>2. ASSUME None(q, kind), h \notin kind, NEW i \in 1..Len(a) PROVE a[i] \notin kind
    <3>1. i \in 1..Len(q) \/ i = Len(q) + 1 BY <1>1, <1>4
    <3>2. QED BY <1>2, <1>3, <2>2, <3>1 DEF None
  <2>3. QED BY <2>1, <2>2 DEF None
<1>6. ASSUME Once(q, kind), h \in kind => None(q, kind) PROVE Once(a, kind)
  <2> SUFFICES ASSUME NEW i \in 1..Len(a), NEW j \in 1..Len(a), a[i] \in kind, a[j] \in kind
               PROVE  i = j
    BY DEF Once
  <2>1. (i \in 1..Len(q) \/ i = Len(q) + 1) /\ (j \in 1..Len(q) \/ j = Len(q) + 1)
    BY <1>1, <1>4
  <2>2. CASE h \in kind
    <3>1. \A k \in 1..Len(q) : a[k] \notin kind BY <1>2, <1>6, <2>2 DEF None
    <3>2. QED BY <2>1, <3>1
  <2>3. CASE h \notin kind
    <3>1. i \in 1..Len(q) /\ j \in 1..Len(q) BY <1>3, <2>1, <2>3
    <3>2. q[i] \in kind /\ q[j] \in kind BY <1>2, <3>1
    <3>3. QED BY <1>6, <3>1, <3>2 DEF Once
  <2>4. QED BY <2>2, <2>3
<1>7. QED BY <1>5, <1>6 DEF a

LEMMA TailKind ==
    ASSUME NEW q \in Seq(Handlers), q # <<>>, NEW kind
    PROVE  /\ None(q, kind) <=> Head(q) \notin kind /\ None(Tail(q), kind)
           /\ Once(q, kind) => Once(Tail(q), kind) /\ (Head(q) \in kind => None(Tail(q), kind))
<1> DEFINE t == Tail(q)
<1>1. Len(t) = Len(q) - 1 /\ \A i \in 1..Len(t) : t[i] = q[i + 1] BY HeadTailProperties
<1>2. Len(q) \in Nat \ {0} BY EmptySeq
<1>3. Head(q) = q[1] /\ 1 \in 1..Len(q) BY <1>2
<1> HIDE DEF t
<1>4. \A i \in 1..Len(t) : i + 1 \in 1..Len(q) /\ i + 1 # 1 BY <1>1, <1>2
<1>5. ASSUME Head(q) \notin kind, None(t, kind), NEW i \in 1..Len(q) PROVE q[i] \notin kind
  <2>1. CASE i = 1 BY <1>3, <1>5, <2>1
  <2>2. CASE i # 1
    <3>1. i - 1 \in 1..Len(t) /\ (i - 1) + 1 = i BY <1>1, <1>2, <2>2
    <3>2. t[i - 1] = q[i] BY <1>1, <3>1
    <3>3. QED BY <1>5, <3>1, <3>2 DEF None
  <2>3. QED BY <2>1, <2>2
<1>6. None(q, kind) <=> Head(q) \notin kind /\ None(t, kind)
  BY <1>1, <1>3, <1>4, <1>5 DEF None
<1>7. ASSUME Once(q, kind) PROVE Once(t, kind)
  <2> SUFFICES ASSUME NEW i \in 1..Len(t), NEW j \in 1..Len(t), t[i] \in kind, t[j] \in kind
               PROVE  i = j
    BY DEF Once
  <2>1. q[i + 1] \in kind /\ q[j + 1] \in kind BY <1>1
  <2>2. i + 1 = j + 1 BY <1>4, <1>7, <2>1 DEF Once
  <2>3. QED BY <2>2
<1>8. ASSUME Once(q, kind), Head(q) \in kind, NEW i \in 1..Len(t) PROVE t[i] \notin kind
  <2>1. i + 1 \in 1..Len(q) /\ i + 1 # 1 BY <1>4
  <2>2. q[i + 1] \notin kind BY <1>3, <1>8, <2>1 DEF Once
  <2>3. QED BY <1>1, <2>2
<1>9. QED BY <1>6, <1>7, <1>8 DEF None, t

LEMMA SmallerKind ==
    ASSUME NEW q, NEW kind, None(q, kind), NEW k, k \subseteq kind
    PROVE  None(q, k)
BY DEF None

(* Two queues that hold the same handlers of a class.                      *)
Same(q, p, class) ==
    \A kind \in SUBSET class :
        (None(p, kind) <=> None(q, kind)) /\ (Once(q, kind) => Once(p, kind))

LEMMA SameSame ==
    ASSUME NEW q, NEW p, NEW r, NEW class
    PROVE  /\ Same(q, q, class)
           /\ Same(q, p, class) /\ Same(p, r, class) => Same(q, r, class)
BY DEF Same

LEMMA AppendSame ==
    ASSUME NEW q \in Seq(Handlers), NEW h \in Handlers, NEW class, h \notin class
    PROVE  Same(q, Append(q, h), class)
<1> SUFFICES ASSUME NEW kind \in SUBSET class
             PROVE  /\ None(Append(q, h), kind) <=> None(q, kind)
                    /\ Once(q, kind) => Once(Append(q, h), kind)
  BY DEF Same
<1>1. h \notin kind OBVIOUS
<1>2. QED BY <1>1, AppendKind

LEMMA TailSame ==
    ASSUME NEW q \in Seq(Handlers), q # <<>>, NEW class, Head(q) \notin class
    PROVE  Same(q, Tail(q), class)
<1> SUFFICES ASSUME NEW kind \in SUBSET class
             PROVE  /\ None(Tail(q), kind) <=> None(q, kind)
                    /\ Once(q, kind) => Once(Tail(q), kind)
  BY DEF Same
<1>1. Head(q) \notin kind OBVIOUS
<1>2. QED BY <1>1, TailKind

LEMMA ClassesOf ==
    /\ \A r : Handler("timeout", r, "aborted") \notin OfRead \cup OfWrite \cup Expiries
    /\ \A r, err : Handler("timeout", r, err) \notin OfRead \cup OfWrite
    /\ \A r, err : Handler("read", r, err) \notin OfWrite \cup Expiries
    /\ \A r, err : Handler("write", r, err) \notin OfRead \cup Expiries
    /\ \A r, err : Handler("remove", r, err) \notin OfRead \cup OfWrite \cup Expiries
    /\ \A r : ExpiryOf(r) \subseteq Expiries
BY DEF Handler, OfRead, OfWrite, Expiries, ExpiryOf

(* What cancelling adds to a queue.                                        *)
LEMMA TimerCancelledIs ==
    ASSUME NEW q \in Seq(Handlers), NEW r \in Reads \cup {0}
    PROVE  /\ q \o TimerCancelled(r) \in Seq(Handlers)
           /\ Same(q, q \o TimerCancelled(r), OfRead)
           /\ Same(q, q \o TimerCancelled(r), OfWrite)
           /\ Same(q, q \o TimerCancelled(r), Expiries)
<1>1. CASE r = 0
  <2>1. q \o TimerCancelled(r) = q BY <1>1, ConcatEmptySeq DEF TimerCancelled
  <2>2. QED BY <2>1, SameSame
<1>2. CASE r # 0
  <2> DEFINE h == Handler("timeout", r, "aborted")
  <2>1. h \in Handlers BY DEF Handler, Handlers, Errors
  <2>2. h \notin OfRead /\ h \notin OfWrite /\ h \notin Expiries BY ClassesOf
  <2>3. q \o TimerCancelled(r) = q \o <<h>> BY <1>2 DEF TimerCancelled
  <2> HIDE DEF h
  <2>4. q \o <<h>> = Append(q, h) BY <2>1, AppendIsConcat
  <2>5. Append(q, h) \in Seq(Handlers) BY <2>1, AppendProperties
  <2>6. QED BY <2>1, <2>2, <2>3, <2>4, <2>5, AppendSame
<1>3. QED BY <1>1, <1>2

LEMMA PortCancelledIs ==
    ASSUME NEW q \in Seq(Handlers), NEW r \in Reads \cup {0}
    PROVE  q \o PortCancelled(r) =
               IF r = 0 THEN q ELSE Append(q, Handler("read", r, "aborted"))
<1>1. CASE r = 0 BY <1>1, ConcatEmptySeq DEF PortCancelled
<1>2. CASE r # 0
  <2> DEFINE h == Handler("read", r, "aborted")
  <2>1. h \in Handlers BY <1>2 DEF Handler, Handlers, Errors
  <2>2. q \o PortCancelled(r) = q \o <<h>> BY <1>2 DEF PortCancelled
  <2> HIDE DEF h
  <2>3. q \o <<h>> = Append(q, h) BY <2>1, AppendIsConcat
  <2>4. QED BY <1>2, <2>2, <2>3 DEF h
<1>3. QED BY <1>1, <1>2

LEMMA WriteCancelledIs ==
    ASSUME NEW q \in Seq(Handlers), NEW w \in BOOLEAN
    PROVE  q \o WriteCancelled(w) =
               IF w THEN Append(q, Handler("write", 0, "aborted")) ELSE q
<1>1. CASE w = FALSE BY <1>1, ConcatEmptySeq DEF WriteCancelled
<1>2. CASE w = TRUE
  <2> DEFINE h == Handler("write", 0, "aborted")
  <2>1. h \in Handlers BY DEF Handler, Handlers, Errors
  <2>2. q \o WriteCancelled(w) = q \o <<h>> BY <1>2 DEF WriteCancelled
  <2> HIDE DEF h
  <2>3. q \o <<h>> = Append(q, h) BY <2>1, AppendIsConcat
  <2>4. QED BY <1>2, <2>2, <2>3 DEF h
<1>3. QED BY <1>1, <1>2


-----------------------------------------------------------------------------
(* The reads and their bytes.                                              *)

ReadsAndBytes(q, n, r, told, b) == ReadsOK(q, n, r, told) /\ BytesOK(q, n, r, told, b)

AllData(told) == \A i \in 1..Len(told) : told[i].told = "data"

LEMMA SameReads ==
    ASSUME NEW q, NEW p, NEW n, NEW r, NEW told, NEW b,
           ReadsAndBytes(q, n, r, told, b), Same(q, p, OfRead)
    PROVE  ReadsAndBytes(p, n, r, told, b)
<1>1. /\ None(p, OfRead) <=> None(q, OfRead)
      /\ Once(q, OfRead) => Once(p, OfRead)
  BY DEF Same
<1>2. None(p, {h \in OfRead : h.read # n}) <=> None(q, {h \in OfRead : h.read # n})
  <2>1. {h \in OfRead : h.read # n} \in SUBSET OfRead OBVIOUS
  <2>2. QED BY <2>1 DEF Same
<1>3. ASSUME NEW err PROVE None(p, With(OfRead, err)) <=> None(q, With(OfRead, err))
  <2>1. With(OfRead, err) \in SUBSET OfRead BY DEF With
  <2>2. QED BY <2>1 DEF Same
<1>4. ReadsOK(p, n, r, told) BY <1>1, <1>2 DEF ReadsAndBytes, ReadsOK
<1>5. BytesOK(p, n, r, told, b) BY <1>1, <1>3 DEF ReadsAndBytes, BytesOK
<1>6. QED BY <1>4, <1>5 DEF ReadsAndBytes

(* The first byte arrives.                                                 *)
LEMMA ByteKeeps ==
    ASSUME NEW q, NEW n, NEW r \in Reads, NEW told, NEW b \in Seq(Reads),
           ReadsAndBytes(q, n, r, told, b), ~(b # <<>> /\ b[Len(b)] = r)
    PROVE  ReadsAndBytes(q, n, r, told, Append(b, r))
<1> DEFINE d == Append(b, r)
<1>1. Len(d) = Len(b) + 1 BY AppendProperties
<1>2. d[Len(b) + 1] = r BY AppendProperties
<1>3. Len(b) \in Nat BY LenProperties
<1>4. r # 0 BY MaxReadsAssumption DEF Reads
<1> HIDE DEF d
<1>5. None(q, OfRead) BY <1>4 DEF ReadsAndBytes, ReadsOK
<1>6. \A err : None(q, With(OfRead, err)) BY <1>5, SmallerKind DEF With
<1>7. ASSUME AllData(told) PROVE BytesOf(d, r, {0, 1})
  <2>1. BytesOf(b, r, {0, 1}) BY <1>4, <1>7 DEF ReadsAndBytes, BytesOK, AllData
  <2>2. Len(b) = 0
    <3>1. Len(b) = 1 => b # <<>> BY EmptySeq
    <3>2. Len(b) = 1 => b[Len(b)] = r
      <4>1. Len(b) = 1 => Len(b) \in 1..Len(b) OBVIOUS
      <4>2. QED BY <2>1, <4>1 DEF BytesOf
    <3>3. QED BY <2>1, <3>1, <3>2 DEF BytesOf
  <2>3. QED BY <1>1, <1>2, <2>2 DEF BytesOf
<1>8. BytesOK(q, n, r, told, d)
  BY <1>4, <1>6, <1>7 DEF ReadsAndBytes, BytesOK, AllData
<1>9. QED BY <1>8 DEF ReadsAndBytes, d

(* An outstanding read ends: its handler is queued, and if it is done its  *)
(* second byte is there.                                                   *)
LEMMA ReadEndsKeeps ==
    ASSUME NEW q \in Seq(Handlers), NEW n, NEW r \in Reads, NEW told, NEW b \in Seq(Reads),
           ReadsAndBytes(q, n, r, told, b),
           NEW err \in {"ok", "aborted", "eof", "failed"},
           NEW d, d = IF err = "ok" THEN Append(b, r) ELSE b,
           err = "ok" => b # <<>> /\ b[Len(b)] = r
    PROVE  ReadsAndBytes(Append(q, Handler("read", r, err)), n, 0, told, d)
<1> DEFINE h == Handler("read", r, err)
           p == Append(q, h)
<1>1. r # 0 /\ r = n BY MaxReadsAssumption DEF Reads, ReadsAndBytes, ReadsOK
<1>2. None(q, OfRead) /\ Once(q, OfRead) BY <1>1 DEF ReadsAndBytes, ReadsOK
<1>3. h \in Handlers /\ h.what = "read" /\ h.read = r /\ h.err = err
  BY DEF Handler, Handlers, Errors
<1>4. h \in OfRead BY <1>3 DEF OfRead
<1> HIDE DEF h
<1>5. \A kind : None(p, kind) <=> None(q, kind) /\ h \notin kind BY <1>3, AppendKind
<1>6. Once(p, OfRead) BY <1>2, <1>3, AppendKind
<1>7. ~None(p, OfRead) BY <1>4, <1>5
<1> HIDE DEF p
<1>8. None(p, {g \in OfRead : g.read # n})
  <2>1. None(q, {g \in OfRead : g.read # n}) BY <1>2, SmallerKind
  <2>2. QED BY <1>1, <1>3, <1>5, <2>1
<1>9. ReadsOK(p, n, 0, told)
  BY <1>1, <1>6, <1>7, <1>8 DEF ReadsAndBytes, ReadsOK
<1>10. ASSUME NEW e, e # err PROVE None(p, With(OfRead, e))
  <2>1. None(q, With(OfRead, e)) BY <1>2, SmallerKind DEF With
  <2>2. h \notin With(OfRead, e) BY <1>3, <1>10 DEF With
  <2>3. QED BY <1>5, <2>1, <2>2
<1>11. ASSUME AllData(told), err = "ok" PROVE BytesOf(d, n, {2})
  <2>1. BytesOf(b, r, {0, 1}) BY <1>1, <1>11 DEF ReadsAndBytes, BytesOK, AllData
  <2>2. Len(b) = 1 /\ b[1] = r BY <1>11, <2>1, EmptySeq DEF BytesOf
  <2>3. d = Append(b, r) BY <1>11
  <2>4. Len(d) = Len(b) + 1 BY <2>3, AppendProperties
  <2>5. d[1] = r
    <3>1. 1 \in 1..Len(b) BY <2>2
    <3>2. QED BY <2>2, <2>3, <3>1, AppendProperties
  <2>6. d[Len(b) + 1] = r BY <2>3, AppendProperties
  <2>7. QED BY <1>1, <2>2, <2>4, <2>5, <2>6 DEF BytesOf
<1>12. "bad_descriptor" # err OBVIOUS
<1>13. BytesOK(p, n, 0, told, d)
  <2>1. InStep(told) BY DEF ReadsAndBytes, BytesOK
  <2>2. None(p, With(OfRead, "bad_descriptor")) BY <1>10, <1>12
  <2>3. err # "ok" => None(p, With(OfRead, "ok")) BY <1>10
  <2>4. QED BY <1>7, <1>11, <2>1, <2>2, <2>3 DEF BytesOK, AllData
<1>14. QED BY <1>9, <1>13 DEF ReadsAndBytes, h, p

(* The handler of a read is called: no read is in progress then.           *)
LEMMA ReadOver ==
    ASSUME NEW q \in Seq(Handlers), q # <<>>, Head(q) \in OfRead, NEW n, NEW r, NEW told,
           ReadsOK(q, n, r, told)
    PROVE  /\ r = 0 /\ Head(q).read = n /\ ~None(q, OfRead)
           /\ None(Tail(q), OfRead) /\ Once(Tail(q), OfRead)
<1>1. /\ None(Tail(q), OfRead) /\ Once(Tail(q), OfRead) /\ ~None(q, OfRead)
  BY TailKind DEF ReadsOK
<1>2. r = 0 BY <1>1 DEF ReadsOK
<1>3. Head(q) \notin {h \in OfRead : h.read # n} BY TailKind DEF ReadsOK
<1>4. QED BY <1>1, <1>2, <1>3

(* A bad descriptor is ignored.                                            *)
LEMMA IgnoredKeeps ==
    ASSUME NEW q \in Seq(Handlers), q # <<>>, Head(q) \in OfRead,
           Head(q).err = "bad_descriptor", NEW n, NEW r, NEW told, NEW b,
           ReadsAndBytes(q, n, r, told, b)
    PROVE  ReadsAndBytes(Tail(q), n, r, told, b)
<1> DEFINE t == Tail(q)
<1>1. r = 0 /\ None(t, OfRead) /\ Once(t, OfRead) /\ ~None(q, OfRead)
  BY ReadOver DEF ReadsAndBytes
<1>2. Head(q) \in With(OfRead, "bad_descriptor") BY DEF With
<1>3. ~None(q, With(OfRead, "bad_descriptor")) BY <1>2, TailKind
<1> HIDE DEF t
<1>4. \A err : None(t, With(OfRead, err)) BY <1>1, SmallerKind DEF With
<1>5. None(t, {h \in OfRead : h.read # n}) BY <1>1, SmallerKind
<1>6. ReadsOK(t, n, r, told) BY <1>1, <1>5 DEF ReadsAndBytes, ReadsOK
<1>7. BytesOK(t, n, r, told, b) BY <1>1, <1>3, <1>4 DEF ReadsAndBytes, BytesOK
<1>8. QED BY <1>6, <1>7 DEF ReadsAndBytes, t

(* A read's handler tells the transport, which takes the bytes.            *)
LEMMA ReportedKeeps ==
    ASSUME NEW q \in Seq(Handlers), q # <<>>, Head(q) \in OfRead,
           NEW n \in Nat, NEW r, NEW told \in Seq(Reports), NEW b \in Seq(Reads),
           ReadsAndBytes(q, n, r, told, b),
           NEW report \in Reports, report.read = n,
           NEW err, err = Head(q).err, err \in {"ok", "aborted", "eof", "failed"},
           report.told = "data" <=> err = "ok",
           err = "ok" /\ BytesOf(b, n, {2}) => report.own,
           NEW d, d = IF err = "ok" THEN Rest(b) ELSE b
    PROVE  ReadsAndBytes(Tail(q), n, r, Append(told, report), d)
<1> DEFINE t == Tail(q)
           new == Append(told, report)
<1>1. /\ r = 0 /\ None(t, OfRead) /\ Once(t, OfRead) /\ ~None(q, OfRead)
  BY ReadOver DEF ReadsAndBytes
<1>2. Len(new) = Len(told) + 1 BY AppendProperties
<1>3. \A i \in 1..Len(told) : new[i] = told[i] BY AppendProperties
<1>4. new[Len(told) + 1] = report BY AppendProperties
<1>5. Len(told) \in Nat BY LenProperties
<1>6. err = "ok" => ~None(q, With(OfRead, "ok"))
  <2>1. err = "ok" => Head(q) \in With(OfRead, "ok") BY DEF With
  <2>2. QED BY <2>1, TailKind
<1> HIDE DEF t, new
<1>7. \A i \in 1..Len(new) : i \in 1..Len(told) \/ i = Len(told) + 1 BY <1>2, <1>5
<1>8. None(t, {h \in OfRead : h.read # n}) BY <1>1, SmallerKind
<1>9. \A i \in 1..Len(told) : told[i].read <= n /\ told[i].read # n /\ told[i].read \in Nat
  <2>1. \A i \in 1..Len(told) : told[i] \in Reports BY ElementOfSeq
  <2>2. \A i \in 1..Len(told) : told[i].read \in Nat
    BY <2>1, MaxReadsAssumption DEF Reports, Reads
  <2>3. QED BY <1>1, <2>2 DEF ReadsAndBytes, ReadsOK
<1>10. \A i \in 1..Len(new) : new[i].read <= n BY <1>3, <1>4, <1>7, <1>9
<1>11. Increasing(new)
  <2> SUFFICES ASSUME NEW i \in 1..Len(new), NEW j \in 1..Len(new), i < j
               PROVE  new[i].read < new[j].read
    BY DEF Increasing
  <2>1. i \in 1..Len(told) /\ new[i] = told[i] BY <1>2, <1>3, <1>5
  <2>2. CASE j \in 1..Len(told)
    <3>1. told[i].read < told[j].read BY <2>1, <2>2 DEF ReadsAndBytes, ReadsOK, Increasing
    <3>2. QED BY <1>3, <2>1, <2>2, <3>1
  <2>3. CASE j = Len(told) + 1
    <3>1. told[i].read < n BY <1>9, <2>1
    <3>2. QED BY <1>4, <2>1, <2>3, <3>1
  <2>4. QED BY <1>7, <2>2, <2>3
<1>12. ReadsOK(t, n, r, new) BY <1>1, <1>8, <1>10, <1>11 DEF ReadsOK
<1>13. AllData(told) /\ err = "ok" => BytesOf(b, n, {2})
  BY <1>6 DEF ReadsAndBytes, BytesOK, AllData
<1>14. InStep(new)
  <2> SUFFICES ASSUME NEW i \in 1..Len(new), new[i].told = "data", ~new[i].own
               PROVE  \E j \in 1..(i - 1) : new[j].told # "data"
    BY DEF InStep
  <2>1. CASE i \in 1..Len(told)
    <3>1. PICK j \in 1..(i - 1) : told[j].told # "data"
      BY <1>3, <2>1 DEF ReadsAndBytes, BytesOK, InStep
    <3>2. j \in 1..Len(told) BY <1>5, <2>1
    <3>3. QED BY <1>3, <3>1, <3>2
  <2>2. CASE i = Len(told) + 1
    <3>1. ~AllData(told) BY <1>4, <1>13, <2>2
    <3>2. PICK j \in 1..Len(told) : told[j].told # "data" BY <3>1 DEF AllData
    <3>3. j \in 1..(i - 1) BY <1>5, <2>2
    <3>4. QED BY <1>3, <3>2, <3>3
  <2>3. QED BY <1>7, <2>1, <2>2
<1>15. ASSUME AllData(new) PROVE d = <<>>
  <2>1. Len(told) + 1 \in 1..Len(new) /\ \A i \in 1..Len(told) : i \in 1..Len(new)
    BY <1>2, <1>5
  <2>2. report.told = "data" BY <1>4, <1>15, <2>1 DEF AllData
  <2>3. AllData(told) BY <1>3, <1>15, <2>1 DEF AllData
  <2>4. BytesOf(b, n, {2}) /\ err = "ok" BY <1>13, <2>2, <2>3
  <2>5. Len(b) = 2 BY <2>4, Zenon DEF BytesOf
  <2>6. Len(b) <= 2 BY <2>5
  <2>7. QED BY <2>4, <2>6 DEF Rest
<1>16. \A e : None(t, With(OfRead, e)) BY <1>1, SmallerKind DEF With
<1>17. BytesOK(t, n, r, new, d) BY <1>1, <1>14, <1>15, <1>16 DEF BytesOK, AllData
<1>18. QED BY <1>12, <1>17 DEF ReadsAndBytes, t, new

(* A read is started while none is in progress; on a closed port its bad   *)
(* descriptor is queued at once.                                           *)
LEMMA StartKeeps ==
    ASSUME NEW q \in Seq(Handlers), None(q, OfRead), NEW n \in Nat, n + 1 \in Reads,
           NEW told \in Seq(Reports), NEW b, ReadsAndBytes(q, n, 0, told, b)
    PROVE  /\ ReadsAndBytes(q, n + 1, n + 1, told, b)
           /\ ReadsAndBytes(Append(q, Handler("read", n + 1, "bad_descriptor")),
                            n + 1, 0, told, b)
<1> DEFINE h == Handler("read", n + 1, "bad_descriptor")
           p == Append(q, h)
<1>1. h \in Handlers /\ h.what = "read" /\ h.read = n + 1 /\ h.err = "bad_descriptor"
  BY DEF Handler, Handlers, Errors
<1>2. h \in OfRead BY <1>1 DEF OfRead
<1> HIDE DEF h
<1>3. \A kind : None(p, kind) <=> None(q, kind) /\ h \notin kind BY <1>1, AppendKind
<1>4. Once(q, OfRead) BY DEF ReadsAndBytes, ReadsOK
<1>5. Once(p, OfRead) /\ ~None(p, OfRead) BY <1>1, <1>2, <1>3, <1>4, AppendKind
<1> HIDE DEF p
<1>6. \A kind \in SUBSET OfRead : None(q, kind) BY SmallerKind
<1>7. None(q, {g \in OfRead : g.read # n + 1}) BY <1>6
<1>8. None(p, {g \in OfRead : g.read # n + 1}) BY <1>1, <1>3, <1>7
<1>9. \A i \in 1..Len(told) : told[i].read <= n + 1 /\ told[i].read # n + 1
  <2> SUFFICES ASSUME NEW i \in 1..Len(told)
               PROVE  told[i].read <= n + 1 /\ told[i].read # n + 1
    OBVIOUS
  <2>1. told[i] \in Reports BY ElementOfSeq
  <2>2. told[i].read \in Nat BY <2>1, MaxReadsAssumption DEF Reports, Reads
  <2>3. told[i].read <= n BY DEF ReadsAndBytes, ReadsOK
  <2>4. QED BY <2>2, <2>3
<1>10. Increasing(told) /\ InStep(told) BY DEF ReadsAndBytes, ReadsOK, BytesOK
<1>11. n + 1 # 0 OBVIOUS
<1>12. ReadsOK(q, n + 1, n + 1, told) BY <1>4, <1>7, <1>9, <1>10, <1>11 DEF ReadsOK
<1>13. ReadsOK(p, n + 1, 0, told) BY <1>5, <1>8, <1>9, <1>10 DEF ReadsOK
<1>14. AllData(told) => b = <<>> BY DEF ReadsAndBytes, BytesOK, AllData
<1>15. b = <<>> => BytesOf(b, n + 1, {0, 1}) BY EmptySeq DEF BytesOf
<1>16. \A e : None(q, With(OfRead, e)) BY <1>6 DEF With
<1>17. None(p, With(OfRead, "ok"))
  <2>1. h \notin With(OfRead, "ok") BY <1>1 DEF With
  <2>2. QED BY <1>3, <1>16, <2>1
<1>18. BytesOK(q, n + 1, n + 1, told, b)
  BY <1>10, <1>11, <1>14, <1>15, <1>16 DEF BytesOK, AllData
<1>19. BytesOK(p, n + 1, 0, told, b)
  BY <1>5, <1>10, <1>14, <1>17 DEF BytesOK, AllData
<1>20. QED BY <1>12, <1>13, <1>18, <1>19 DEF ReadsAndBytes, h, p

-----------------------------------------------------------------------------
(* The write and the timer.                                                *)

LEMMA SameWrites ==
    ASSUME NEW q, NEW p, NEW w, WritesOK(q, w), Same(q, p, OfWrite)
    PROVE  WritesOK(p, w)
BY DEF Same, WritesOK

LEMMA WriteEndsKeeps ==
    ASSUME NEW q \in Seq(Handlers), WritesOK(q, TRUE), NEW err \in Errors
    PROVE  WritesOK(Append(q, Handler("write", 0, err)), FALSE)
<1> DEFINE h == Handler("write", 0, err)
<1>1. h \in Handlers BY DEF Handler, Handlers
<1> HIDE DEF h
<1>2. Once(Append(q, h), OfWrite) BY <1>1, AppendKind DEF WritesOK
<1>3. QED BY <1>2 DEF WritesOK, h

LEMMA SameTimers ==
    ASSUME NEW q, NEW p, NEW n, NEW a, NEW e, TimersOK(q, n, a, e), Same(q, p, Expiries)
    PROVE  TimersOK(p, n, a, e) /\ Spent(p, e) = Spent(q, e)
<1>1. \A r : /\ None(p, ExpiryOf(r)) <=> None(q, ExpiryOf(r))
             /\ Once(q, ExpiryOf(r)) => Once(p, ExpiryOf(r))
  <2>1. \A r : ExpiryOf(r) \in SUBSET Expiries BY DEF ExpiryOf
  <2>2. QED BY <2>1 DEF Same
<1>2. TimersOK(p, n, a, e) BY <1>1 DEF TimersOK
<1>3. Spent(p, e) = Spent(q, e) BY <1>1 DEF Spent
<1>4. QED BY <1>2, <1>3

LEMMA ExpiryKeeps ==
    ASSUME NEW q \in Seq(Handlers), NEW n, NEW a \in Reads, NEW e, TimersOK(q, n, a, e),
           a \in 1..n
    PROVE  LET p == Append(q, Handler("timeout", a, "ok")) IN
           /\ TimersOK(p, n, 0, e \cup {a})
           /\ Spent(p, e \cup {a}) = Spent(q, e)
<1> DEFINE h == Handler("timeout", a, "ok")
           p == Append(q, h)
<1>1. h \in Handlers /\ h.what = "timeout" /\ h.read = a /\ h.err = "ok"
  BY DEF Handler, Handlers, Errors
<1>2. a \notin e
  <2>1. a # 0 BY MaxReadsAssumption DEF Reads
  <2>2. QED BY <2>1 DEF TimersOK
<1> HIDE DEF h
<1>3. \A r : h \in ExpiryOf(r) <=> r = a BY <1>1 DEF ExpiryOf, Expiries
<1>4. \A r : None(p, ExpiryOf(r)) <=> None(q, ExpiryOf(r)) /\ r # a BY <1>1, <1>3, AppendKind
<1>5. \A r \in Reads : Once(p, ExpiryOf(r))
  <2>1. None(q, ExpiryOf(a)) BY <1>2 DEF TimersOK
  <2>2. \A r \in Reads : h \in ExpiryOf(r) => None(q, ExpiryOf(r)) BY <1>3, <2>1
  <2>3. \A r \in Reads : Once(q, ExpiryOf(r)) BY DEF TimersOK
  <2>4. QED BY <1>1, <2>2, <2>3, AppendKind
<1> HIDE DEF p
<1>6. TimersOK(p, n, 0, e \cup {a}) BY <1>4, <1>5 DEF TimersOK
<1>7. Spent(p, e \cup {a}) = Spent(q, e) BY <1>2, <1>4 DEF Spent
<1>8. QED BY <1>6, <1>7 DEF p, h

(* The handler of an expiry is called: it is spent.                        *)
LEMMA SpentKeeps ==
    ASSUME NEW q \in Seq(Handlers), q # <<>>, Head(q) \in Expiries, NEW n \in Nat, NEW a, NEW e,
           Head(q).read \in Reads, TimersOK(q, n, a, e)
    PROVE  /\ TimersOK(Tail(q), n, a, e)
           /\ IsFiniteSet(Spent(q, e)) /\ IsFiniteSet(Spent(Tail(q), e))
           /\ Cardinality(Spent(Tail(q), e)) = Cardinality(Spent(q, e)) + 1
<1> DEFINE c == Head(q).read
           t == Tail(q)
<1>1. \A r : Head(q) \in ExpiryOf(r) <=> r = c BY DEF ExpiryOf
<1>2. \A r : None(q, ExpiryOf(r)) <=> r # c /\ None(t, ExpiryOf(r)) BY <1>1, TailKind
<1>3. \A r \in Reads : Once(t, ExpiryOf(r)) BY TailKind DEF TimersOK
<1>4. None(t, ExpiryOf(c)) BY <1>1, TailKind DEF TimersOK
<1> HIDE DEF c, t
<1>5. TimersOK(t, n, a, e) BY <1>2, <1>3, <1>4 DEF TimersOK
<1>6. c \in e BY <1>2 DEF TimersOK, c
<1>7. Spent(t, e) = Spent(q, e) \cup {c} /\ c \notin Spent(q, e)
  BY <1>2, <1>4, <1>6 DEF Spent
<1>8. IsFiniteSet(Spent(q, e))
  <2>1. IsFiniteSet(1..n) BY FS_Interval
  <2>2. Spent(q, e) \subseteq 1..n BY DEF Spent, TimersOK
  <2>3. QED BY <2>1, <2>2, FS_Subset
<1>9. IsFiniteSet(Spent(t, e)) /\ Cardinality(Spent(t, e)) = Cardinality(Spent(q, e)) + 1
  BY <1>7, <1>8, FS_AddElement
<1>10. QED BY <1>5, <1>8, <1>9 DEF t

-----------------------------------------------------------------------------
(* Counting what the transport was told.                                   *)

Those(list, kind) == {i \in 1..Len(list) : list[i] \in kind}

LEMMA CountAppend ==
    ASSUME NEW S, NEW list \in Seq(S), NEW x \in S, NEW kind
    PROVE  /\ IsFiniteSet(Those(list, kind)) /\ Cardinality(Those(list, kind)) \in Nat
           /\ Cardinality(Those(Append(list, x), kind)) =
                 Cardinality(Those(list, kind)) + (IF x \in kind THEN 1 ELSE 0)
<1> DEFINE new == Append(list, x)
<1>1. Len(new) = Len(list) + 1 BY AppendProperties
<1>2. \A i \in 1..Len(list) : new[i] = list[i] BY AppendProperties
<1>3. new[Len(list) + 1] = x BY AppendProperties
<1>4. Len(list) \in Nat BY LenProperties
<1> HIDE DEF new
<1>5. IsFiniteSet(Those(list, kind)) /\ Cardinality(Those(list, kind)) \in Nat
  <2>1. IsFiniteSet(1..Len(list)) BY <1>4, FS_Interval
  <2>2. Those(list, kind) \subseteq 1..Len(list) BY DEF Those
  <2>3. IsFiniteSet(Those(list, kind)) BY <2>1, <2>2, FS_Subset
  <2>4. QED BY <2>3, FS_CardinalityType
<1>6. 1..Len(new) = 1..Len(list) \cup {Len(list) + 1} BY <1>1, <1>4
<1>7. Len(list) + 1 \notin Those(list, kind) BY <1>4 DEF Those
<1>8. CASE x \in kind
  <2>1. Those(new, kind) = Those(list, kind) \cup {Len(list) + 1}
    BY <1>2, <1>3, <1>6, <1>8 DEF Those
  <2>2. Cardinality(Those(new, kind)) = Cardinality(Those(list, kind)) + 1
    BY <1>5, <1>7, <2>1, FS_AddElement
  <2>3. QED BY <1>5, <1>8, <2>2 DEF new
<1>9. CASE x \notin kind
  <2>1. Those(new, kind) = Those(list, kind) BY <1>2, <1>3, <1>6, <1>9 DEF Those
  <2>2. QED BY <1>5, <1>9, <2>1 DEF new
<1>10. QED BY <1>8, <1>9

LEMMA TimedOutAppend ==
    ASSUME NEW told \in Seq(Reports), NEW r \in Reports
    PROVE  /\ Cardinality(TimedOut(told)) \in Nat
           /\ Cardinality(TimedOut(Append(told, r))) = Cardinality(TimedOut(told)) +
                 (IF r.told = "ERR_TIMEOUT" /\ ~r.released THEN 1 ELSE 0)
<1> DEFINE kind == {x \in Reports : x.told = "ERR_TIMEOUT" /\ ~x.released}
<1>1. ASSUME NEW list \in Seq(Reports) PROVE TimedOut(list) = Those(list, kind)
  <2>1. \A i \in 1..Len(list) : list[i] \in Reports BY ElementOfSeq
  <2>2. QED BY <2>1 DEF TimedOut, Those
<1>2. Append(told, r) \in Seq(Reports) BY AppendProperties
<1>3. r \in kind <=> r.told = "ERR_TIMEOUT" /\ ~r.released OBVIOUS
<1> HIDE DEF kind
<1>4. Cardinality(Those(told, kind)) \in Nat BY CountAppend
<1>5. Cardinality(Those(Append(told, r), kind)) =
          Cardinality(Those(told, kind)) + (IF r \in kind THEN 1 ELSE 0)
  BY CountAppend
<1>6. QED BY <1>1, <1>2, <1>3, <1>4, <1>5

LEMMA CutOffAppend ==
    ASSUME NEW told \in Seq(WriteReports), NEW r \in WriteReports
    PROVE  /\ Cardinality(CutOff(told)) \in Nat
           /\ Cardinality(CutOff(Append(told, r))) = Cardinality(CutOff(told)) +
                 (IF r.told = "closed" /\ ~r.released THEN 1 ELSE 0)
<1> DEFINE kind == {x \in WriteReports : x.told = "closed" /\ ~x.released}
<1>1. ASSUME NEW list \in Seq(WriteReports) PROVE CutOff(list) = Those(list, kind)
  <2>1. \A i \in 1..Len(list) : list[i] \in WriteReports BY ElementOfSeq
  <2>2. QED BY <2>1 DEF CutOff, Those
<1>2. Append(told, r) \in Seq(WriteReports) BY AppendProperties
<1>3. r \in kind <=> r.told = "closed" /\ ~r.released OBVIOUS
<1> HIDE DEF kind
<1>4. Cardinality(Those(told, kind)) \in Nat BY CountAppend
<1>5. Cardinality(Those(Append(told, r), kind)) =
          Cardinality(Those(told, kind)) + (IF r \in kind THEN 1 ELSE 0)
  BY CountAppend
<1>6. QED BY <1>1, <1>2, <1>3, <1>4, <1>5

LEMMA OwedIs ==
    ASSUME NEW s, NEW q, NEW kind
    PROVE  /\ Owed(s, q, kind) \in {0, 1}
           /\ s = "released" \/ None(q, kind) => Owed(s, q, kind) = 0
           /\ \A p : Same(q, p, kind) => Owed(s, p, kind) = Owed(s, q, kind)
<1>1. None(q, kind) => None(q, With(kind, "aborted")) BY DEF None, With
<1>2. ASSUME NEW p, Same(q, p, kind)
      PROVE  None(p, With(kind, "aborted")) <=> None(q, With(kind, "aborted"))
  <2>1. With(kind, "aborted") \in SUBSET kind BY DEF With
  <2>2. QED BY <1>2, <2>1 DEF Same
<1>3. QED BY <1>1, <1>2 DEF Owed

(* The numbers that are compared.                                          *)
LEMMA Counts ==
    ASSUME TypeOK, ReportsInv
    PROVE  /\ Cardinality(TimedOut(reports)) \in Nat /\ Cardinality(CutOff(wrote)) \in Nat
           /\ Cardinality(Spent(ready, expired)) \in Nat
           /\ Owed(sock, ready, OfRead) \in Nat /\ Owed(sock, ready, OfWrite) \in Nat
<1>1. reports \in Seq(Reports) /\ wrote \in Seq(WriteReports) /\ count \in Nat
  BY Numbers DEF TypeOK
<1>2. \A i \in 1..Len(reports) : reports[i] \in Reports BY <1>1, ElementOfSeq
<1>3. IsFiniteSet(1..Len(reports)) /\ IsFiniteSet(1..Len(wrote)) /\ IsFiniteSet(1..count)
  BY <1>1, LenProperties, FS_Interval
<1>4. /\ TimedOut(reports) \subseteq 1..Len(reports) /\ CutOff(wrote) \subseteq 1..Len(wrote)
      /\ Spent(ready, expired) \subseteq 1..count
  BY DEF TimedOut, CutOff, Spent, ReportsInv, TimersOK
<1>5. /\ Cardinality(TimedOut(reports)) \in Nat /\ Cardinality(CutOff(wrote)) \in Nat
      /\ Cardinality(Spent(ready, expired)) \in Nat
  BY <1>3, <1>4, FS_Subset, FS_CardinalityType
<1>6. Owed(sock, ready, OfRead) \in {0, 1} /\ Owed(sock, ready, OfWrite) \in {0, 1}
  BY OwedIs
<1>7. QED BY <1>5, <1>6

-----------------------------------------------------------------------------
(* Starting a read, from outside or from a callback.                       *)

LEMMA ReadStep ==
    ASSUME TypeOK, NEW timed \in BOOLEAN, NEW q \in Seq(Handlers), None(q, OfRead),
           NEW waiting \in Reads \cup {0}, Read(timed, q, waiting),
           NEW told \in Seq(Reports), NEW b, ReadsAndBytes(q, count, 0, told, b),
           NEW w, WritesOK(q, w), NEW a, TimersOK(q, count, a, expired)
    PROVE  /\ ReadsAndBytes(ready', count', reading', told, b)
           /\ WritesOK(ready', w)
           /\ TimersOK(ready', count', armed', expired)
           /\ Spent(ready', expired) = Spent(q, expired)
           /\ \A s : Owed(s, ready', OfRead) = 0
           /\ \A s : Owed(s, ready', OfWrite) = Owed(s, q, OfWrite)
<1> DEFINE n == count + 1
           h == Handler("read", n, "bad_descriptor")
           p == IF isOpen THEN q ELSE Append(q, h)
<1>1. n \in Reads /\ count \in Nat /\ count' = n
  BY MaxReadsAssumption DEF TypeOK, Read, Reads
<1>2. /\ reading' = IF isOpen THEN n ELSE 0
      /\ ready' = p \o TimerCancelled(waiting)
      /\ armed' = IF timed THEN n ELSE 0
  BY DEF Read
<1>3. h \in Handlers /\ h \notin OfWrite /\ h \notin Expiries /\ h \notin With(OfRead, "aborted")
  BY <1>1 DEF Handler, Handlers, Errors, OfWrite, Expiries, With
<1>4. ReadsAndBytes(p, n, reading', told, b)
  BY <1>1, <1>2, StartKeeps
<1> HIDE DEF h
<1>5. p \in Seq(Handlers) BY <1>3, AppendProperties
<1>6. Same(q, p, OfWrite) /\ Same(q, p, Expiries) BY <1>3, AppendSame, SameSame
<1>7. None(p, With(OfRead, "aborted"))
  <2>1. None(q, With(OfRead, "aborted")) BY SmallerKind DEF With
  <2>2. QED BY <1>3, <2>1, AppendKind
<1> HIDE DEF p
<1>8. /\ ready' \in Seq(Handlers)
      /\ Same(p, ready', OfRead) /\ Same(p, ready', OfWrite) /\ Same(p, ready', Expiries)
  BY <1>2, <1>5, TimerCancelledIs
<1>9. ReadsAndBytes(ready', n, reading', told, b) BY <1>4, <1>8, SameReads
<1>10. Same(q, ready', OfWrite) /\ Same(q, ready', Expiries) BY <1>6, <1>8, SameSame
<1>11. WritesOK(ready', w) BY <1>10, SameWrites
<1>12. TimersOK(ready', count, a, expired) /\ Spent(ready', expired) = Spent(q, expired)
  BY <1>10, SameTimers
<1>13. TimersOK(ready', n, armed', expired)
  <2>1. expired \subseteq 1..count BY DEF TimersOK
  <2>2. expired \subseteq 1..n /\ n \notin expired BY <1>1, <2>1
  <2>3. QED BY <1>2, <1>12, <2>2 DEF TimersOK
<1>14. \A s : Owed(s, ready', OfWrite) = Owed(s, q, OfWrite) BY <1>10, OwedIs
<1>15. \A s : Owed(s, ready', OfRead) = 0
  <2>1. With(OfRead, "aborted") \in SUBSET OfRead BY DEF With
  <2>2. None(ready', With(OfRead, "aborted")) BY <1>7, <1>8, <2>1 DEF Same
  <2>3. QED BY <2>2 DEF Owed
<1>16. QED BY <1>1, <1>9, <1>11, <1>12, <1>13, <1>14, <1>15

-----------------------------------------------------------------------------
(* The steps.                                                              *)

LEMMA Parts ==
    ReportsInv <=> /\ ReadsAndBytes(ready, count, reading, reports, buffer)
                   /\ WritesOK(ready, writing)
                   /\ TimersOK(ready, count, armed, expired)
                   /\ ExpiriesOK
BY DEF ReportsInv, ReadsAndBytes

(* A step that queues nothing and calls nothing that matters.              *)
LEMMA QuietStep ==
    ASSUME Inv, ReportsInv,
           Same(ready, ready', OfRead), Same(ready, ready', OfWrite),
           Same(ready, ready', Expiries),
           UNCHANGED <<count, reading, reports, wrote, buffer, writing, expired>>,
           armed' \in {armed, 0},
           \/ sock' = "released" <=> sock = "released"
           \/ None(ready', OfRead) /\ None(ready', OfWrite)
           \/ sock' = "removed" /\ None(ready', With(OfRead, "aborted"))
                              /\ None(ready', With(OfWrite, "aborted"))
    PROVE  ReportsInv'
<1>1. ReadsAndBytes(ready', count', reading', reports', buffer') BY Parts, SameReads
<1>2. WritesOK(ready', writing') BY Parts, SameWrites
<1>3. TimersOK(ready', count', armed, expired') /\ Spent(ready', expired') = Spent(ready, expired)
  BY Parts, SameTimers
<1>4. TimersOK(ready', count', armed', expired') BY <1>3 DEF TimersOK
<1>5. /\ Owed(sock', ready', OfRead) \in {0, Owed(sock, ready, OfRead)}
      /\ Owed(sock', ready', OfWrite) \in {0, Owed(sock, ready, OfWrite)}
  <2>1. CASE sock' = "released" <=> sock = "released"
    <3>1. /\ Owed(sock', ready', OfRead) = Owed(sock, ready', OfRead)
          /\ Owed(sock', ready', OfWrite) = Owed(sock, ready', OfWrite)
      BY <2>1 DEF Owed
    <3>2. QED BY <3>1, OwedIs
  <2>2. CASE None(ready', With(OfRead, "aborted")) /\ None(ready', With(OfWrite, "aborted"))
    <3>1. Owed(sock', ready', OfRead) = 0 BY <2>2 DEF Owed
    <3>2. Owed(sock', ready', OfWrite) = 0 BY <2>2 DEF Owed
    <3>3. QED BY <3>1, <3>2
  <2>3. /\ None(ready', OfRead) => None(ready', With(OfRead, "aborted"))
        /\ None(ready', OfWrite) => None(ready', With(OfWrite, "aborted"))
    BY SmallerKind DEF With
  <2>4. QED BY <2>1, <2>2, <2>3
<1>6. ExpiriesOK'
  <2>1. TypeOK BY DEF Inv
  <2>2. ExpiriesOK BY Parts
  <2>3. reports' = reports /\ wrote' = wrote OBVIOUS
  <2>4. QED BY <1>3, <1>5, <2>1, <2>2, <2>3, Counts DEF ExpiriesOK
<1>7. QED BY <1>1, <1>2, <1>4, <1>6 DEF ReportsInv, ReadsAndBytes

LEMMA CallsReports ==
    ASSUME Inv, ReportsInv,
           CreateSocket \/ Open \/ StartRead \/ StartWrite \/ ReleaseSocket \/ CloseThrows
    PROVE  ReportsInv'
<1>1. TypeOK /\ ready \in Seq(Handlers) /\ reports \in Seq(Reports) BY DEF Inv, TypeOK
<1>2. CASE CreateSocket \/ Open \/ CloseThrows
  <2>1. /\ ready' = ready /\ armed' = armed
        /\ UNCHANGED <<count, reading, reports, wrote, buffer, writing, expired>>
        /\ sock' = "released" <=> sock = "released"
    BY <1>2 DEF CreateSocket, Open, CloseThrows, writeVars
  <2>2. QED BY <2>1, SameSame, QuietStep
<1>3. CASE StartWrite
  <2> DEFINE h == Handler("write", 0, "bad_descriptor")
  <2>1. None(ready, OfWrite) BY <1>3 DEF StartWrite, WritePending, None, OfWrite
  <2>2. /\ writing' = isOpen
        /\ ready' = IF isOpen THEN ready ELSE Append(ready, h)
        /\ UNCHANGED <<sock, count, reading, armed, buffer, reports, wrote, expired>>
    BY <1>3 DEF StartWrite
  <2>3. CASE isOpen
    <3>1. WritesOK(ready, TRUE) BY <2>1, Parts DEF WritesOK
    <3>2. ready' = ready /\ writing' = TRUE BY <1>1, <2>2, <2>3 DEF TypeOK
    <3>3. ExpiriesOK' BY <2>2, <3>2 DEF ReportsInv, ExpiriesOK
    <3>4. QED BY <2>2, <3>1, <3>2, <3>3 DEF ReportsInv
  <2>4. CASE ~isOpen
    <3>1. h \in Handlers /\ h \notin With(OfWrite, "aborted")
      BY DEF Handler, Handlers, Errors, With
    <3>2. h \notin OfRead /\ h \notin Expiries BY ClassesOf
    <3> HIDE DEF h
    <3>3. ready' = Append(ready, h) /\ writing' = FALSE BY <1>1, <2>2, <2>4 DEF TypeOK
    <3>4. Same(ready, ready', OfRead) /\ Same(ready, ready', Expiries)
      BY <1>1, <3>1, <3>2, <3>3, AppendSame
    <3>5. Once(ready, OfWrite) BY Parts DEF WritesOK
    <3>6. Once(ready', OfWrite) BY <1>1, <2>1, <3>1, <3>3, <3>5, AppendKind
    <3>7. WritesOK(ready', FALSE) BY <3>6 DEF WritesOK
    <3>8. None(ready', With(OfWrite, "aborted")) <=> None(ready, With(OfWrite, "aborted"))
      BY <1>1, <3>1, <3>3, AppendKind
    <3>9. Owed(sock, ready', OfWrite) = Owed(sock, ready, OfWrite) BY <3>8 DEF Owed
    <3>10. Owed(sock, ready', OfRead) = Owed(sock, ready, OfRead) BY <3>4, OwedIs
    <3>11. ReadsAndBytes(ready', count, reading, reports, buffer) BY <3>4, Parts, SameReads
    <3>12. /\ TimersOK(ready', count, armed, expired)
           /\ Spent(ready', expired) = Spent(ready, expired)
      BY <3>4, Parts, SameTimers
    <3>13. ExpiriesOK' BY <2>2, <3>9, <3>10, <3>12, Parts DEF ExpiriesOK
    <3>14. QED BY <2>2, <3>3, <3>7, <3>11, <3>12, <3>13 DEF ReportsInv, ReadsAndBytes
  <2>5. isOpen \in BOOLEAN BY <1>1 DEF TypeOK
  <2>6. QED BY <2>3, <2>4, <2>5
<1>4. CASE StartRead
  <2>1. PICK timed \in Timings : Read(timed, ready, armed) BY <1>4 DEF StartRead
  <2>2. timed \in BOOLEAN BY TimingsAssumption
  <2>3. None(ready, OfRead) /\ reading = 0
    BY <1>4 DEF StartRead, ReadPending, None, OfRead
  <2>4. UNCHANGED <<sock, reports, expired, buffer, writing, wrote>>
    BY <1>4 DEF StartRead, writeVars
  <2>5. /\ ReadsAndBytes(ready', count', reading', reports, buffer)
        /\ WritesOK(ready', writing)
        /\ TimersOK(ready', count', armed', expired)
        /\ Spent(ready', expired) = Spent(ready, expired)
        /\ Owed(sock, ready', OfRead) = 0
        /\ Owed(sock, ready', OfWrite) = Owed(sock, ready, OfWrite)
    BY <1>1, <2>1, <2>2, <2>3, Parts, Numbers, ReadStep
  <2>6. ExpiriesOK'
    <3>1. ExpiriesOK BY DEF ReportsInv
    <3>2. QED BY <1>1, <2>4, <2>5, <3>1, Counts DEF ExpiriesOK
  <2>7. QED BY <2>4, <2>5, <2>6 DEF ReportsInv, ReadsAndBytes
<1>5. CASE ReleaseSocket
  <2> DEFINE p == ready \o PortCancelled(reading)
             q == p \o WriteCancelled(writing)
             h == Handler("remove", 0, "ok")
  <2>1. /\ ready' = Append(q, h) /\ sock' = "released" /\ reading' = 0 /\ writing' = FALSE
        /\ UNCHANGED <<count, armed, buffer, reports, expired, wrote>>
    BY <1>5 DEF ReleaseSocket
  <2>2. /\ p \in Seq(Handlers) /\ Same(ready, p, OfWrite) /\ Same(ready, p, Expiries)
        /\ ReadsAndBytes(p, count, 0, reports, buffer)
    <3>1. p = IF reading = 0 THEN ready ELSE Append(ready, Handler("read", reading, "aborted"))
      BY <1>1, Numbers, PortCancelledIs
    <3> HIDE DEF p
    <3>2. CASE reading = 0 BY <1>1, <3>1, <3>2, Parts, SameSame
    <3>3. CASE reading # 0
      <4> DEFINE g == Handler("read", reading, "aborted")
      <4>1. reading \in Reads /\ buffer \in Seq(Reads) BY <1>1, <3>3, Numbers DEF TypeOK
      <4>2. g \in Handlers BY <4>1 DEF Handler, Handlers, Errors
      <4>3. g \notin OfWrite /\ g \notin Expiries BY ClassesOf
      <4>4. ReadsAndBytes(Append(ready, g), count, 0, reports, buffer)
        <5>1. ReadsAndBytes(ready, count, reading, reports, buffer) BY Parts
        <5>2. "aborted" \in {"ok", "aborted", "eof", "failed"} /\ "aborted" # "ok" OBVIOUS
        <5>3. QED BY <1>1, <4>1, <5>1, <5>2, ReadEndsKeeps
      <4> HIDE DEF g
      <4>5. p = Append(ready, g) BY <3>1, <3>3 DEF g
      <4>6. QED BY <1>1, <4>2, <4>3, <4>4, <4>5, AppendSame, AppendProperties
    <3>4. QED BY <3>2, <3>3
  <2> HIDE DEF p
  <2>3. /\ q \in Seq(Handlers) /\ Same(p, q, OfRead) /\ Same(p, q, Expiries)
        /\ WritesOK(q, FALSE)
    <3>1. q = IF writing THEN Append(p, Handler("write", 0, "aborted")) ELSE p
      <4>1. writing \in BOOLEAN BY <1>1 DEF TypeOK
      <4>2. QED BY <2>2, <4>1, WriteCancelledIs
    <3> HIDE DEF q
    <3>2. WritesOK(p, writing) BY <2>2, Parts, SameWrites
    <3>3. CASE ~writing
      <4>1. q = p BY <3>1, <3>3
      <4>2. WritesOK(p, FALSE) BY <3>2 DEF WritesOK
      <4>3. QED BY <2>2, <4>1, <4>2, SameSame
    <3>4. CASE writing
      <4> DEFINE g == Handler("write", 0, "aborted")
      <4>1. g \in Handlers BY DEF Handler, Handlers, Errors
      <4>2. g \notin OfRead /\ g \notin Expiries BY ClassesOf
      <4>3. WritesOK(Append(p, g), FALSE)
        <5>1. "aborted" \in Errors BY DEF Errors
        <5>2. WritesOK(p, TRUE) BY <3>2, <3>4 DEF WritesOK
        <5>3. QED BY <2>2, <5>1, <5>2, WriteEndsKeeps
      <4> HIDE DEF g
      <4>4. q = Append(p, g) BY <3>1, <3>4 DEF g
      <4>5. QED BY <2>2, <4>1, <4>2, <4>3, <4>4, AppendSame, AppendProperties
    <3>5. QED BY <3>3, <3>4
  <2> HIDE DEF q
  <2>4. h \in Handlers /\ h \notin OfRead /\ h \notin OfWrite /\ h \notin Expiries
    BY ClassesOf DEF Handler, Handlers, Errors
  <2> HIDE DEF h
  <2>5. Same(q, ready', OfRead) /\ Same(q, ready', OfWrite) /\ Same(q, ready', Expiries)
    BY <2>1, <2>3, <2>4, AppendSame
  <2>6. ReadsAndBytes(ready', count', reading', reports', buffer')
    <3>1. ReadsAndBytes(q, count, 0, reports, buffer) BY <2>2, <2>3, SameReads
    <3>2. ReadsAndBytes(ready', count, 0, reports, buffer) BY <2>5, <3>1, SameReads
    <3>3. QED BY <2>1, <3>2
  <2>7. WritesOK(ready', writing') BY <2>1, <2>3, <2>5, SameWrites
  <2>8. TimersOK(ready', count', armed', expired')
        /\ Spent(ready', expired') = Spent(ready, expired)
    <3>1. Same(ready, ready', Expiries) BY <2>2, <2>3, <2>5, SameSame
    <3>2. TimersOK(ready', count, armed, expired) /\ Spent(ready', expired) = Spent(ready, expired)
      BY <3>1, Parts, SameTimers
    <3>3. QED BY <2>1, <3>2
  <2>9. ExpiriesOK'
    <3>1. Owed(sock', ready', OfRead) = 0 /\ Owed(sock', ready', OfWrite) = 0 BY <2>1, OwedIs
    <3>2. ExpiriesOK BY DEF ReportsInv
    <3>3. reports' = reports /\ wrote' = wrote BY <2>1
    <3>4. QED BY <1>1, <2>8, <3>1, <3>2, <3>3, Counts DEF ExpiriesOK
  <2>10. QED BY <2>6, <2>7, <2>8, <2>9 DEF ReportsInv, ReadsAndBytes
<1>6. QED BY <1>2, <1>3, <1>4, <1>5

LEMMA LineReports ==
    ASSUME Inv, ReportsInv, ByteArrives \/ ReadFails \/ ReadDone \/ WriteDone \/ TimerExpires
    PROVE  ReportsInv'
<1>1. /\ TypeOK /\ ready \in Seq(Handlers) /\ buffer \in Seq(Reads) /\ ExpiriesOK
      /\ reading \in Reads \cup {0} /\ armed \in Reads \cup {0}
  BY Numbers DEF Inv, TypeOK, ReportsInv
<1>2. CASE ByteArrives
  <2>1. /\ reading \in Reads /\ ~(buffer # <<>> /\ buffer[Len(buffer)] = reading)
        /\ buffer' = Append(buffer, reading)
        /\ UNCHANGED <<sock, count, reading, armed, ready, reports, expired, writing, wrote>>
    BY <1>1, <1>2 DEF ByteArrives, HasByte, writeVars
  <2>2. ReadsAndBytes(ready', count', reading', reports', buffer')
    BY <1>1, <2>1, Parts, ByteKeeps
  <2>3. ExpiriesOK' BY <1>1, <2>1 DEF ExpiriesOK
  <2>4. QED BY <2>1, <2>2, <2>3 DEF ReportsInv, ReadsAndBytes
<1>3. CASE ReadFails \/ ReadDone
  <2>1. PICK err \in {"ok", "eof", "failed"} :
            /\ ready' = Append(ready, Handler("read", reading, err))
            /\ buffer' = IF err = "ok" THEN Append(buffer, reading) ELSE buffer
            /\ err = "ok" => buffer # <<>> /\ buffer[Len(buffer)] = reading
    BY <1>3 DEF ReadFails, ReadDone, HasByte
  <2>2. /\ reading \in Reads /\ reading' = 0
        /\ UNCHANGED <<sock, count, armed, reports, expired, writing, wrote>>
    BY <1>1, <1>3 DEF ReadFails, ReadDone, writeVars
  <2> DEFINE h == Handler("read", reading, err)
  <2>3. h \in Handlers /\ h \notin With(OfRead, "aborted")
    BY <2>2 DEF Handler, Handlers, Errors, With
  <2>4. h \notin OfWrite /\ h \notin Expiries BY ClassesOf
  <2>5. ReadsAndBytes(Append(ready, h), count, 0, reports, buffer')
    BY <1>1, <2>1, <2>2, Parts, ReadEndsKeeps
  <2> HIDE DEF h
  <2>6. ready' = Append(ready, h) BY <2>1 DEF h
  <2>7. Same(ready, ready', OfWrite) /\ Same(ready, ready', Expiries)
    BY <1>1, <2>3, <2>4, <2>6, AppendSame
  <2>8. WritesOK(ready', writing') BY <2>2, <2>7, Parts, SameWrites
  <2>9. TimersOK(ready', count', armed', expired')
        /\ Spent(ready', expired') = Spent(ready, expired)
    <3>1. TimersOK(ready', count, armed, expired) /\ Spent(ready', expired) = Spent(ready, expired)
      BY <2>7, Parts, SameTimers
    <3>2. QED BY <2>2, <3>1
  <2>10. Owed(sock', ready', OfRead) = Owed(sock, ready, OfRead)
    <3>1. None(ready', With(OfRead, "aborted")) <=> None(ready, With(OfRead, "aborted"))
      BY <1>1, <2>3, <2>6, AppendKind
    <3>2. QED BY <2>2, <3>1 DEF Owed
  <2>11. Owed(sock', ready', OfWrite) = Owed(sock, ready, OfWrite) BY <2>2, <2>7, OwedIs
  <2>12. ExpiriesOK' BY <1>1, <2>2, <2>9, <2>10, <2>11 DEF ExpiriesOK
  <2>13. ReadsAndBytes(ready', count', reading', reports', buffer') BY <2>2, <2>5, <2>6
  <2>14. QED BY <2>8, <2>9, <2>12, <2>13 DEF ReportsInv, ReadsAndBytes
<1>4. CASE WriteDone
  <2>1. PICK err \in {"ok", "failed"} : ready' = Append(ready, Handler("write", 0, err))
    BY <1>4 DEF WriteDone
  <2>2. /\ writing /\ writing' = FALSE
        /\ UNCHANGED <<sock, count, reading, armed, buffer, reports, expired, wrote>>
    BY <1>4 DEF WriteDone
  <2> DEFINE h == Handler("write", 0, err)
  <2>3. h \in Handlers /\ h \notin With(OfWrite, "aborted")
    BY DEF Handler, Handlers, Errors, With
  <2>4. h \notin OfRead /\ h \notin Expiries BY ClassesOf
  <2>5. WritesOK(Append(ready, h), FALSE)
    <3>1. err \in Errors BY DEF Errors
    <3>2. WritesOK(ready, TRUE) BY <2>2, Parts DEF WritesOK
    <3>3. QED BY <1>1, <3>1, <3>2, WriteEndsKeeps
  <2> HIDE DEF h
  <2>6. ready' = Append(ready, h) BY <2>1 DEF h
  <2>7. Same(ready, ready', OfRead) /\ Same(ready, ready', Expiries)
    BY <1>1, <2>3, <2>4, <2>6, AppendSame
  <2>8. ReadsAndBytes(ready', count', reading', reports', buffer')
    <3>1. ReadsAndBytes(ready', count, reading, reports, buffer) BY <2>7, Parts, SameReads
    <3>2. QED BY <2>2, <3>1
  <2>9. TimersOK(ready', count', armed', expired')
        /\ Spent(ready', expired') = Spent(ready, expired)
    <3>1. TimersOK(ready', count, armed, expired) /\ Spent(ready', expired) = Spent(ready, expired)
      BY <2>7, Parts, SameTimers
    <3>2. QED BY <2>2, <3>1
  <2>10. Owed(sock', ready', OfWrite) = Owed(sock, ready, OfWrite)
    <3>1. None(ready', With(OfWrite, "aborted")) <=> None(ready, With(OfWrite, "aborted"))
      BY <1>1, <2>3, <2>6, AppendKind
    <3>2. QED BY <2>2, <3>1 DEF Owed
  <2>11. Owed(sock', ready', OfRead) = Owed(sock, ready, OfRead) BY <2>2, <2>7, OwedIs
  <2>12. ExpiriesOK' BY <1>1, <2>2, <2>9, <2>10, <2>11 DEF ExpiriesOK
  <2>13. WritesOK(ready', writing') BY <2>2, <2>5, <2>6
  <2>14. QED BY <2>8, <2>9, <2>12, <2>13 DEF ReportsInv, ReadsAndBytes
<1>5. CASE TimerExpires
  <2> DEFINE h == Handler("timeout", armed, "ok")
  <2>1. /\ armed \in Reads /\ ready' = Append(ready, h)
        /\ expired' = expired \cup {armed} /\ armed' = 0
        /\ UNCHANGED <<sock, count, reading, reports, buffer, writing, wrote>>
    BY <1>1, <1>5 DEF TimerExpires, writeVars
  <2>2. h \in Handlers BY <2>1 DEF Handler, Handlers, Errors
  <2>3. h \notin OfRead /\ h \notin OfWrite BY ClassesOf
  <2>4. armed \in 1..count BY <1>1, <2>1, MaxReadsAssumption DEF TypeOK, Reads
  <2>5. TimersOK(Append(ready, h), count, 0, expired \cup {armed})
        /\ Spent(Append(ready, h), expired \cup {armed}) = Spent(ready, expired)
    BY <1>1, <2>1, <2>4, Parts, ExpiryKeeps
  <2> HIDE DEF h
  <2>6. Same(ready, ready', OfRead) /\ Same(ready, ready', OfWrite)
    BY <1>1, <2>1, <2>2, <2>3, AppendSame
  <2>7. ReadsAndBytes(ready', count', reading', reports', buffer')
    <3>1. ReadsAndBytes(ready', count, reading, reports, buffer) BY <2>6, Parts, SameReads
    <3>2. QED BY <2>1, <3>1
  <2>8. WritesOK(ready', writing') BY <2>1, <2>6, Parts, SameWrites
  <2>9. /\ Owed(sock', ready', OfRead) = Owed(sock, ready, OfRead)
        /\ Owed(sock', ready', OfWrite) = Owed(sock, ready, OfWrite)
    BY <2>1, <2>6, OwedIs
  <2>10. ExpiriesOK' BY <1>1, <2>1, <2>5, <2>9 DEF ExpiriesOK
  <2>11. QED BY <2>1, <2>5, <2>7, <2>8, <2>10 DEF ReportsInv, ReadsAndBytes
<1>6. QED BY <1>2, <1>3, <1>4, <1>5

(* The handler of an expiry is called: one more is spent.                  *)
LEMMA ExpiryCalled ==
    ASSUME Inv, ReportsInv, ready # <<>>, Head(ready).what = "timeout", Head(ready).err = "ok"
    PROVE  /\ Head(ready) \in Handlers /\ Head(ready) \in Expiries
           /\ Same(ready, Tail(ready), OfRead) /\ Same(ready, Tail(ready), OfWrite)
           /\ TimersOK(Tail(ready), count, armed, expired)
           /\ Cardinality(Spent(Tail(ready), expired)) = Cardinality(Spent(ready, expired)) + 1
<1> DEFINE c == Head(ready)
<1>1. TypeOK /\ ready \in Seq(Handlers) /\ sock \in Socks /\ count \in Nat
      /\ QueueOK(ready, sock, expired)
  BY Numbers DEF Inv, CleanupInv, TypeOK
<1>2. c \in Handlers /\ EntryOK(c, sock, expired) BY <1>1, TailOK
<1>3. c \in Expiries BY <1>2 DEF Expiries
<1>4. c \notin OfRead /\ c \notin OfWrite BY DEF OfRead, OfWrite
<1>5. c.read \in Reads
  <2>1. c.read \in expired BY <1>2 DEF EntryOK
  <2>2. expired \subseteq Reads BY <1>1 DEF TypeOK
  <2>3. QED BY <2>1, <2>2
<1> HIDE DEF c
<1>6. Same(ready, Tail(ready), OfRead) /\ Same(ready, Tail(ready), OfWrite)
  BY <1>1, <1>4, TailSame DEF c
<1>7. TimersOK(ready, count, armed, expired) BY Parts
<1>8. TimersOK(Tail(ready), count, armed, expired)
      /\ Cardinality(Spent(Tail(ready), expired)) = Cardinality(Spent(ready, expired)) + 1
  BY <1>1, <1>3, <1>5, <1>7, SpentKeeps DEF c
<1>9. QED BY <1>2, <1>3, <1>6, <1>8 DEF c

LEMMA ReadTimeoutReports ==
    ASSUME Inv, ReportsInv, ready # <<>>, ASIO_Read_Timeout(Head(ready))
    PROVE  ReportsInv'
<1> DEFINE t == Tail(ready)
           p == t \o PortCancelled(reading)
<1>1. /\ isOpen /\ ready' = p \o WriteCancelled(writing)
      /\ reading' = 0 /\ writing' = FALSE
      /\ UNCHANGED <<sock, count, armed, buffer, reports, expired, wrote>>
      /\ Head(ready).what = "timeout" /\ Head(ready).err = "ok"
  BY DEF ASIO_Read_Timeout
<1>2. /\ TypeOK /\ ready \in Seq(Handlers) /\ buffer \in Seq(Reads) /\ ExpiriesOK
      /\ reading \in Reads \cup {0} /\ writing \in BOOLEAN
  BY Numbers DEF Inv, TypeOK, ReportsInv
<1>3. t \in Seq(Handlers) BY <1>2, HeadTailProperties
<1>4. /\ Same(ready, t, OfRead) /\ Same(ready, t, OfWrite)
      /\ TimersOK(t, count, armed, expired)
      /\ Cardinality(Spent(t, expired)) = Cardinality(Spent(ready, expired)) + 1
  BY <1>1, ExpiryCalled
<1> HIDE DEF t
<1>5. ReadsAndBytes(t, count, reading, reports, buffer) /\ WritesOK(t, writing)
  BY <1>4, Parts, SameReads, SameWrites
<1>6. /\ p \in Seq(Handlers) /\ Same(t, p, OfWrite) /\ Same(t, p, Expiries)
      /\ ReadsAndBytes(p, count, 0, reports, buffer)
  <2>1. p = IF reading = 0 THEN t ELSE Append(t, Handler("read", reading, "aborted"))
    BY <1>2, <1>3, PortCancelledIs
  <2> HIDE DEF p
  <2>2. CASE reading = 0 BY <1>3, <1>5, <2>1, <2>2, SameSame
  <2>3. CASE reading # 0
    <3> DEFINE g == Handler("read", reading, "aborted")
    <3>1. reading \in Reads BY <1>2, <2>3
    <3>2. g \in Handlers BY <3>1 DEF Handler, Handlers, Errors
    <3>3. g \notin OfWrite /\ g \notin Expiries BY ClassesOf
    <3>4. ReadsAndBytes(Append(t, g), count, 0, reports, buffer)
      <4>1. "aborted" \in {"ok", "aborted", "eof", "failed"} /\ "aborted" # "ok" OBVIOUS
      <4>2. QED BY <1>2, <1>3, <1>5, <3>1, <4>1, ReadEndsKeeps
    <3> HIDE DEF g
    <3>5. p = Append(t, g) BY <2>1, <2>3 DEF g
    <3>6. QED BY <1>3, <3>2, <3>3, <3>4, <3>5, AppendSame, AppendProperties
  <2>4. QED BY <2>2, <2>3
<1> HIDE DEF p
<1>7. /\ Same(p, ready', OfRead) /\ Same(p, ready', Expiries)
      /\ WritesOK(ready', FALSE)
  <2>1. ready' = IF writing THEN Append(p, Handler("write", 0, "aborted")) ELSE p
    BY <1>1, <1>2, <1>6, WriteCancelledIs
  <2>2. WritesOK(p, writing) BY <1>5, <1>6, SameWrites
  <2>3. CASE ~writing
    <3>1. ready' = p BY <2>1, <2>3
    <3>2. WritesOK(p, FALSE) BY <2>2 DEF WritesOK
    <3>3. QED BY <1>6, <3>1, <3>2, SameSame
  <2>4. CASE writing
    <3> DEFINE g == Handler("write", 0, "aborted")
    <3>1. g \in Handlers BY DEF Handler, Handlers, Errors
    <3>2. g \notin OfRead /\ g \notin Expiries BY ClassesOf
    <3>3. WritesOK(Append(p, g), FALSE)
      <4>1. "aborted" \in Errors BY DEF Errors
      <4>2. WritesOK(p, TRUE) BY <2>2, <2>4 DEF WritesOK
      <4>3. QED BY <1>6, <4>1, <4>2, WriteEndsKeeps
    <3> HIDE DEF g
    <3>4. ready' = Append(p, g) BY <2>1, <2>4 DEF g
    <3>5. QED BY <1>6, <3>1, <3>2, <3>3, <3>4, AppendSame
  <2>5. QED BY <2>3, <2>4
<1>8. ReadsAndBytes(ready', count', reading', reports', buffer')
  <2>1. ReadsAndBytes(ready', count, 0, reports, buffer) BY <1>6, <1>7, SameReads
  <2>2. QED BY <1>1, <2>1
<1>9. TimersOK(ready', count', armed', expired')
      /\ Spent(ready', expired') = Spent(t, expired)
  <2>1. Same(t, ready', Expiries) BY <1>6, <1>7, SameSame
  <2>2. TimersOK(ready', count, armed, expired) /\ Spent(ready', expired) = Spent(t, expired)
    BY <1>4, <2>1, SameTimers
  <2>3. QED BY <1>1, <2>2
<1>10. ExpiriesOK'
  <2>1. Owed(sock', ready', OfRead) \in {0, 1} /\ Owed(sock', ready', OfWrite) \in {0, 1}
    BY OwedIs
  <2>2. Cardinality(Spent(ready', expired')) = Cardinality(Spent(ready, expired)) + 1
    BY <1>4, <1>9
  <2>3. reports' = reports /\ wrote' = wrote BY <1>1
  <2>4. QED BY <1>2, <2>1, <2>2, <2>3, Counts DEF ExpiriesOK
<1>11. WritesOK(ready', writing') BY <1>1, <1>7
<1>12. QED BY <1>8, <1>9, <1>10, <1>11 DEF ReportsInv, ReadsAndBytes

LEMMA ReadHandlerReports ==
    ASSUME Inv, ReportsInv, ready # <<>>, ASIO_Read_Handler(Head(ready))
    PROVE  ReportsInv'
<1> DEFINE c == Head(ready)
           t == Tail(ready)
           q == t \o TimerCancelled(armed)
           report == Report(c)
<1>1. /\ c.what = "read" /\ c.err # "bad_descriptor" /\ reports' = Append(reports, report)
      /\ buffer' = IF c.err = "ok" THEN Rest(buffer) ELSE buffer
      /\ UNCHANGED <<sock, expired, writing, wrote>>
      /\ \/ ready' = q /\ armed' = 0 /\ UNCHANGED <<count, reading>>
         \/ \E timed \in Timings : Read(timed, q, 0)
  BY DEF ASIO_Read_Handler, writeVars
<1>2. /\ TypeOK /\ ready \in Seq(Handlers) /\ buffer \in Seq(Reads)
      /\ reports \in Seq(Reports) /\ ExpiriesOK
      /\ armed \in Reads \cup {0} /\ count \in Nat /\ sock \in Socks
      /\ QueueOK(ready, sock, expired)
  BY Numbers DEF Inv, CleanupInv, TypeOK, ReportsInv
<1>3. c \in Handlers /\ t \in Seq(Handlers) /\ EntryOK(c, sock, expired) BY <1>2, TailOK
<1>4. c \in OfRead /\ c \notin OfWrite /\ c \notin Expiries
  BY <1>1, <1>3 DEF OfRead, OfWrite, Expiries
<1>5. /\ c.read \in Reads /\ c.err \in {"ok", "aborted", "eof", "failed"}
  BY <1>1, <1>3 DEF EntryOK, Handlers, Errors
<1>6. reading = 0 /\ c.read = count /\ None(t, OfRead)
  BY <1>2, <1>4, ReadOver DEF ReportsInv
<1>7. /\ report \in Reports /\ report.read = count
      /\ report.told = "data" <=> c.err = "ok"
      /\ report.told = "ERR_TIMEOUT" <=> c.err = "aborted"
      /\ report.released <=> sock = "released"
      /\ report.own <=> c.err = "ok" /\ Own(c.read)
  <2>1. Told(c.err) \in {"data", "ERR_TIMEOUT", "error", "closed"} BY <1>5 DEF Told
  <2>2. (c.err = "ok" /\ Own(c.read)) \in BOOLEAN BY DEF Own
  <2>3. (sock = "released") \in BOOLEAN OBVIOUS
  <2>4. report \in Reports BY <1>5, <2>1, <2>2, <2>3 DEF Reports, Report
  <2>5. Told(c.err) = "data" <=> c.err = "ok" BY <1>5 DEF Told
  <2>6. Told(c.err) = "ERR_TIMEOUT" <=> c.err = "aborted" BY <1>5 DEF Told
  <2>7. report.read = c.read /\ report.told = Told(c.err) BY DEF Report
  <2>8. report.released <=> sock = "released" BY DEF Report
  <2>9. report.own <=> c.err = "ok" /\ Own(c.read) BY DEF Report
  <2>10. QED BY <1>6, <2>4, <2>5, <2>6, <2>7, <2>8, <2>9
<1>8. c.err = "ok" /\ BytesOf(buffer, count, {2}) => report.own
  <2> SUFFICES ASSUME c.err = "ok", BytesOf(buffer, count, {2}) PROVE Own(c.read)
    BY <1>7
  <2>1. Len(buffer) = 2 BY Zenon DEF BytesOf
  <2>2. 1 \in 1..Len(buffer) /\ 2 \in 1..Len(buffer) /\ Len(buffer) >= 2 BY <2>1
  <2>3. buffer[1] = count /\ buffer[2] = count BY <2>2 DEF BytesOf
  <2>4. QED BY <1>6, <2>2, <2>3 DEF Own
<1> HIDE DEF report
<1>9. ReadsAndBytes(t, count, 0, reports', buffer')
  <2>1. ReadsAndBytes(ready, count, 0, reports, buffer) BY <1>6, Parts
  <2>2. ReadsAndBytes(t, count, 0, Append(reports, report), buffer')
    BY <1>1, <1>2, <1>4, <1>5, <1>7, <1>8, <2>1, ReportedKeeps
  <2>3. QED BY <1>1, <2>2
<1>10. Same(ready, t, OfWrite) /\ Same(ready, t, Expiries) BY <1>2, <1>4, TailSame
<1>11. /\ q \in Seq(Handlers) /\ Same(t, q, OfRead)
       /\ Same(t, q, OfWrite) /\ Same(t, q, Expiries)
  BY <1>2, <1>3, TimerCancelledIs
<1>12. c.err = "aborted" /\ sock # "released" => Owed(sock, ready, OfRead) = 1
  <2>1. c.err = "aborted" => c \in With(OfRead, "aborted") BY <1>4 DEF With
  <2>2. c.err = "aborted" => ~None(ready, With(OfRead, "aborted")) BY <1>2, <2>1, TailKind
  <2>3. QED BY <2>2 DEF Owed
<1>13. c.err = "aborted" <=> report.told = "ERR_TIMEOUT" BY <1>7
<1>14. sock = "released" <=> report.released BY <1>7
<1> HIDE DEF t, c
<1>15. ReadsAndBytes(q, count, 0, reports', buffer') BY <1>9, <1>11, SameReads
<1>16. None(q, OfRead)
  <2>1. OfRead \in SUBSET OfRead OBVIOUS
  <2>2. QED BY <1>6, <1>11, <2>1 DEF Same
<1>17. Same(ready, q, OfWrite) /\ Same(ready, q, Expiries) BY <1>10, <1>11, SameSame
<1>18. WritesOK(q, writing) /\ TimersOK(q, count, armed, expired)
       /\ Spent(q, expired) = Spent(ready, expired)
  BY <1>17, Parts, SameWrites, SameTimers
<1>19. Owed(sock, q, OfWrite) = Owed(sock, ready, OfWrite) BY <1>17, OwedIs
<1>20. Owed(sock, q, OfRead) = 0 BY <1>16, OwedIs
<1> HIDE DEF q
<1>21. Cardinality(TimedOut(reports')) + 0
           <= Cardinality(TimedOut(reports)) + Owed(sock, ready, OfRead)
  <2>1. Cardinality(TimedOut(reports')) = Cardinality(TimedOut(reports)) +
            (IF report.told = "ERR_TIMEOUT" /\ ~report.released THEN 1 ELSE 0)
    BY <1>1, <1>2, <1>7, TimedOutAppend
  <2>2. Cardinality(TimedOut(reports)) \in Nat /\ Owed(sock, ready, OfRead) \in Nat
    BY <1>2, Counts
  <2>3. QED BY <1>12, <1>13, <1>14, <2>1, <2>2
<1>22. ASSUME Spent(ready', expired') = Spent(ready, expired),
              Owed(sock', ready', OfRead) = 0,
              Owed(sock', ready', OfWrite) = Owed(sock, ready, OfWrite)
       PROVE  ExpiriesOK'
  <2>1. /\ Cardinality(TimedOut(reports)) \in Nat /\ Cardinality(Spent(ready, expired)) \in Nat
        /\ Owed(sock, ready, OfRead) \in Nat
    BY <1>2, Counts
  <2>2. Cardinality(TimedOut(reports')) \in Nat
    <3>1. reports' \in Seq(Reports) BY <1>1, <1>2, <1>7, AppendProperties
    <3>2. QED BY <1>7, <3>1, TimedOutAppend
  <2>3. Cardinality(TimedOut(reports')) + 0 <= Cardinality(Spent(ready, expired))
    BY <1>2, <1>21, <2>1, <2>2 DEF ExpiriesOK
  <2>4. Cardinality(CutOff(wrote)) + Owed(sock, ready, OfWrite)
            <= Cardinality(Spent(ready, expired))
    BY <1>2 DEF ExpiriesOK
  <2>5. wrote' = wrote BY <1>1
  <2>6. QED BY <1>22, <2>3, <2>4, <2>5 DEF ExpiriesOK
<1>23. CASE ready' = q /\ armed' = 0 /\ UNCHANGED <<count, reading>>
  <2>1. ExpiriesOK' BY <1>1, <1>18, <1>19, <1>20, <1>22, <1>23
  <2>2. TimersOK(q, count, 0, expired) BY <1>18 DEF TimersOK
  <2>3. QED BY <1>1, <1>6, <1>15, <1>18, <1>23, <2>1, <2>2 DEF ReportsInv, ReadsAndBytes
<1>24. CASE \E timed \in Timings : Read(timed, q, 0)
  <2>1. PICK timed \in Timings : Read(timed, q, 0) BY <1>24
  <2>2. timed \in BOOLEAN BY TimingsAssumption
  <2>3. reports' \in Seq(Reports) BY <1>1, <1>2, <1>7, AppendProperties
  <2>4. /\ ReadsAndBytes(ready', count', reading', reports', buffer')
        /\ WritesOK(ready', writing)
        /\ TimersOK(ready', count', armed', expired)
        /\ Spent(ready', expired) = Spent(q, expired)
        /\ Owed(sock, ready', OfRead) = 0
        /\ Owed(sock, ready', OfWrite) = Owed(sock, q, OfWrite)
    BY <1>2, <1>11, <1>15, <1>16, <1>18, <2>1, <2>2, <2>3, ReadStep
  <2>5. ExpiriesOK' BY <1>1, <1>18, <1>19, <1>22, <2>4
  <2>6. QED BY <1>1, <2>4, <2>5 DEF ReportsInv, ReadsAndBytes
<1>25. QED BY <1>1, <1>23, <1>24

LEMMA WriteHandlerReports ==
    ASSUME Inv, ReportsInv, ready # <<>>, ASIO_Write_Handler(Head(ready))
    PROVE  ReportsInv'
<1> DEFINE c == Head(ready)
           t == Tail(ready)
           report == [told |-> WriteTold(c.err), released |-> sock = "released"]
<1>1. /\ c.what = "write" /\ ready' = t /\ wrote' = Append(wrote, report)
      /\ UNCHANGED <<sock, isOpen, count, reading, armed, buffer, reports, expired, writing>>
  BY DEF ASIO_Write_Handler
<1>2. /\ TypeOK /\ ready \in Seq(Handlers) /\ wrote \in Seq(WriteReports) /\ ExpiriesOK
      /\ sock \in Socks /\ QueueOK(ready, sock, expired)
  BY Numbers DEF Inv, CleanupInv, TypeOK, ReportsInv
<1>3. c \in Handlers /\ t \in Seq(Handlers) BY <1>2, TailOK
<1>4. c \in OfWrite /\ c \notin OfRead /\ c \notin Expiries
  BY <1>1, <1>3 DEF OfRead, OfWrite, Expiries
<1>5. None(t, OfWrite) /\ Once(t, OfWrite)
  <2>1. Once(ready, OfWrite) BY DEF ReportsInv, WritesOK
  <2>2. QED BY <1>2, <1>4, <2>1, TailKind
<1>6. Same(ready, t, OfRead) /\ Same(ready, t, Expiries) BY <1>2, <1>4, TailSame
<1>7. /\ report \in WriteReports
      /\ report.told = "closed" <=> c.err = "aborted"
      /\ report.released <=> sock = "released"
  <2>1. WriteTold(c.err) \in {"sent", "error", "closed"} BY DEF WriteTold
  <2>2. (sock = "released") \in BOOLEAN OBVIOUS
  <2>3. report \in WriteReports BY <2>1, <2>2 DEF WriteReports
  <2>4. WriteTold(c.err) = "closed" <=> c.err = "aborted" BY DEF WriteTold
  <2>5. QED BY <2>3, <2>4
<1>8. c.err = "aborted" /\ sock # "released" => Owed(sock, ready, OfWrite) = 1
  <2>1. c.err = "aborted" => c \in With(OfWrite, "aborted") BY <1>4 DEF With
  <2>2. c.err = "aborted" => ~None(ready, With(OfWrite, "aborted")) BY <1>2, <2>1, TailKind
  <2>3. QED BY <2>2 DEF Owed
<1> HIDE DEF report, c, t
<1>9. ReadsAndBytes(ready', count', reading', reports', buffer')
  <2>1. ReadsAndBytes(t, count, reading, reports, buffer) BY <1>6, Parts, SameReads
  <2>2. QED BY <1>1, <2>1
<1>10. WritesOK(ready', writing') BY <1>1, <1>5 DEF WritesOK
<1>11. TimersOK(ready', count', armed', expired')
       /\ Spent(ready', expired') = Spent(ready, expired)
  <2>1. TimersOK(t, count, armed, expired) /\ Spent(t, expired) = Spent(ready, expired)
    BY <1>6, Parts, SameTimers
  <2>2. QED BY <1>1, <2>1
<1>12. Owed(sock', ready', OfRead) = Owed(sock, ready, OfRead) BY <1>1, <1>6, OwedIs
<1>13. Owed(sock', ready', OfWrite) = 0 BY <1>1, <1>5, OwedIs
<1>14. Cardinality(CutOff(wrote')) = Cardinality(CutOff(wrote)) +
            (IF report.told = "closed" /\ ~report.released THEN 1 ELSE 0)
  BY <1>1, <1>2, <1>7, CutOffAppend
<1>15. ExpiriesOK'
  <2>1. /\ Cardinality(CutOff(wrote)) \in Nat /\ Owed(sock, ready, OfWrite) \in Nat
        /\ Cardinality(Spent(ready, expired)) \in Nat
    BY <1>2, Counts
  <2>2. Cardinality(CutOff(wrote')) + 0
            <= Cardinality(CutOff(wrote)) + Owed(sock, ready, OfWrite)
    BY <1>7, <1>8, <1>14, <2>1
  <2>3. Cardinality(CutOff(wrote')) \in Nat
    <3>1. (IF report.told = "closed" /\ ~report.released THEN 1 ELSE 0) \in Nat OBVIOUS
    <3>2. QED BY <1>14, <2>1, <3>1
  <2>4. Cardinality(CutOff(wrote')) + 0 <= Cardinality(Spent(ready, expired))
    BY <1>2, <2>1, <2>2, <2>3 DEF ExpiriesOK
  <2>5. Cardinality(TimedOut(reports)) + Owed(sock, ready, OfRead)
            <= Cardinality(Spent(ready, expired))
    BY <1>2 DEF ExpiriesOK
  <2>6. reports' = reports BY <1>1
  <2>7. QED BY <1>11, <1>12, <1>13, <2>4, <2>5, <2>6 DEF ExpiriesOK
<1>16. QED BY <1>9, <1>10, <1>11, <1>15 DEF ReportsInv, ReadsAndBytes

(* The process ends in an expiry's handler, or in that of the late write.  *)
LEMMA EndReports ==
    ASSUME Inv, ReportsInv, ready # <<>>,
           TimeoutThrows(Head(ready)) \/ DanglingHandler(Head(ready))
    PROVE  ReportsInv'
<1> DEFINE c == Head(ready)
           t == Tail(ready)
<1>1. /\ ready' = t
      /\ UNCHANGED <<sock, count, reading, armed, buffer, reports, expired, writing, wrote>>
  BY DEF TimeoutThrows, DanglingHandler, writeVars
<1>2. /\ TypeOK /\ ready \in Seq(Handlers) /\ ExpiriesOK
      /\ sock \in Socks /\ QueueOK(ready, sock, expired)
  BY Numbers DEF Inv, CleanupInv, TypeOK, ReportsInv
<1>3. EntryOK(c, sock, expired) /\ c \in Handlers BY <1>2, TailOK
<1>4. \/ c.what = "timeout" /\ c.err = "ok"
      \/ c.what = "write" /\ c.err = "bad_descriptor"
  BY <1>3 DEF TimeoutThrows, DanglingHandler, EntryOK
<1>5. CASE c.what = "timeout" /\ c.err = "ok"
  <2>1. /\ Same(ready, t, OfRead) /\ Same(ready, t, OfWrite)
        /\ TimersOK(t, count, armed, expired)
        /\ Cardinality(Spent(t, expired)) = Cardinality(Spent(ready, expired)) + 1
    BY <1>5, ExpiryCalled
  <2> HIDE DEF c, t
  <2>2. ReadsAndBytes(t, count, reading, reports, buffer) /\ WritesOK(t, writing)
    BY <2>1, Parts, SameReads, SameWrites
  <2>3. /\ Owed(sock, t, OfRead) = Owed(sock, ready, OfRead)
        /\ Owed(sock, t, OfWrite) = Owed(sock, ready, OfWrite)
    BY <2>1, OwedIs
  <2>4. ExpiriesOK' BY <1>1, <1>2, <2>1, <2>3, Counts DEF ExpiriesOK
  <2>5. QED BY <1>1, <2>1, <2>2, <2>4 DEF ReportsInv, ReadsAndBytes
<1>6. CASE c.what = "write" /\ c.err = "bad_descriptor"
  <2>1. /\ c \in OfWrite /\ c \notin OfRead /\ c \notin Expiries
        /\ c \notin With(OfWrite, "aborted")
    BY <1>3, <1>6 DEF OfRead, OfWrite, Expiries, With
  <2>2. Same(ready, t, OfRead) /\ Same(ready, t, Expiries) BY <1>2, <2>1, TailSame
  <2>3. None(t, With(OfWrite, "aborted")) <=> None(ready, With(OfWrite, "aborted"))
    BY <1>2, <2>1, TailKind
  <2>4. None(t, OfWrite) /\ Once(t, OfWrite) BY <1>2, <2>1, Parts, TailKind DEF WritesOK
  <2> HIDE DEF c, t
  <2>5. Owed(sock, t, OfWrite) = Owed(sock, ready, OfWrite) BY <2>3 DEF Owed
  <2>6. Owed(sock, t, OfRead) = Owed(sock, ready, OfRead) BY <2>2, OwedIs
  <2>7. ReadsAndBytes(t, count, reading, reports, buffer) BY <2>2, Parts, SameReads
  <2>8. TimersOK(t, count, armed, expired) /\ Spent(t, expired) = Spent(ready, expired)
    BY <2>2, Parts, SameTimers
  <2>9. ExpiriesOK' BY <1>1, <1>2, <2>5, <2>6, <2>8 DEF ExpiriesOK
  <2>10. WritesOK(t, writing) BY <2>4 DEF WritesOK
  <2>11. QED BY <1>1, <2>7, <2>8, <2>9, <2>10 DEF ReportsInv, ReadsAndBytes
<1>7. QED BY <1>4, <1>5, <1>6

LEMMA IgnoredReports ==
    ASSUME Inv, ReportsInv, ready # <<>>, Ignored(Head(ready))
    PROVE  ReportsInv'
<1> DEFINE c == Head(ready)
           t == Tail(ready)
<1>1. /\ ready' = t
      /\ UNCHANGED <<sock, count, reading, armed, buffer, reports, expired, writing, wrote>>
  BY DEF Ignored, writeVars
<1>2. /\ TypeOK /\ ready \in Seq(Handlers) /\ ExpiriesOK
      /\ sock \in Socks /\ QueueOK(ready, sock, expired)
  BY Numbers DEF Inv, CleanupInv, TypeOK, ReportsInv
<1>3. c \in Handlers /\ t \in Seq(Handlers) BY <1>2, TailOK
<1>4. CASE c.what = "timeout" /\ c.err = "aborted"
  <2>1. c \notin OfRead /\ c \notin OfWrite /\ c \notin Expiries
    BY <1>4 DEF OfRead, OfWrite, Expiries
  <2>2. Same(ready, t, OfRead) /\ Same(ready, t, OfWrite) /\ Same(ready, t, Expiries)
    BY <1>2, <2>1, TailSame
  <2> HIDE DEF c, t
  <2>3. QED BY <1>1, <2>2, QuietStep
<1>5. CASE c.what = "read" /\ c.err = "bad_descriptor"
  <2>1. c \in OfRead /\ c \notin OfWrite /\ c \notin Expiries /\ c \notin With(OfRead, "aborted")
    BY <1>3, <1>5 DEF OfRead, OfWrite, Expiries, With
  <2>2. Same(ready, t, OfWrite) /\ Same(ready, t, Expiries) BY <1>2, <2>1, TailSame
  <2>3. ReadsAndBytes(t, count, reading, reports, buffer)
    BY <1>2, <1>5, <2>1, Parts, IgnoredKeeps
  <2>4. None(t, With(OfRead, "aborted")) <=> None(ready, With(OfRead, "aborted"))
    BY <1>2, <2>1, TailKind
  <2> HIDE DEF c, t
  <2>5. /\ Owed(sock, t, OfRead) = Owed(sock, ready, OfRead)
        /\ Owed(sock, t, OfWrite) = Owed(sock, ready, OfWrite)
    <3>1. Owed(sock, t, OfRead) = Owed(sock, ready, OfRead) BY <2>4 DEF Owed
    <3>2. Owed(sock, t, OfWrite) = Owed(sock, ready, OfWrite) BY <2>2, OwedIs
    <3>3. QED BY <3>1, <3>2
  <2>6. WritesOK(t, writing) BY <2>2, Parts, SameWrites
  <2>7. TimersOK(t, count, armed, expired) /\ Spent(t, expired) = Spent(ready, expired)
    BY <2>2, Parts, SameTimers
  <2>8. ExpiriesOK' BY <1>1, <1>2, <2>5, <2>7 DEF ExpiriesOK
  <2>9. QED BY <1>1, <2>3, <2>6, <2>7, <2>8 DEF ReportsInv, ReadsAndBytes
<1>6. QED BY <1>4, <1>5 DEF Ignored

(* The socket is destroyed: every handler behind the removal is harmless.  *)
LEMMA RemovalReports ==
    ASSUME Inv, Inv', ReportsInv, ready # <<>>, RemoveSocket(Head(ready))
    PROVE  ReportsInv'
<1> DEFINE c == Head(ready)
           t == Tail(ready)
<1>1. /\ c.what = "remove" /\ sock' = "removed" /\ armed' = 0
      /\ ready' = t \o TimerCancelled(armed)
      /\ UNCHANGED <<count, reading, buffer, reports, expired, writing, wrote>>
  BY DEF RemoveSocket, writeVars
<1>2. /\ TypeOK /\ ready \in Seq(Handlers) /\ armed \in Reads \cup {0}
  BY Numbers DEF Inv, TypeOK
<1>3. t \in Seq(Handlers) BY <1>2, HeadTailProperties
<1>4. c \notin OfRead /\ c \notin OfWrite /\ c \notin Expiries
  BY <1>1 DEF OfRead, OfWrite, Expiries
<1>5. Same(ready, t, OfRead) /\ Same(ready, t, OfWrite) /\ Same(ready, t, Expiries)
  BY <1>2, <1>4, TailSame
<1> HIDE DEF c, t
<1>6. Same(ready, ready', OfRead) /\ Same(ready, ready', OfWrite) /\ Same(ready, ready', Expiries)
  BY <1>1, <1>2, <1>3, <1>5, TimerCancelledIs, SameSame
<1>7. None(ready', With(OfRead, "aborted")) /\ None(ready', With(OfWrite, "aborted"))
  <2>1. QueueOK(ready', "removed", expired') BY <1>1 DEF Inv, CleanupInv
  <2>2. \A i \in 1..Len(ready') : EntryOK(ready'[i], "removed", expired')
    BY <2>1 DEF QueueOK
  <2>3. \A i \in 1..Len(ready') :
            ready'[i].what \in {"read", "write"} => ready'[i].err = "bad_descriptor"
    BY <2>2 DEF EntryOK
  <2>4. QED BY <2>3 DEF None, With, OfRead, OfWrite
<1>8. QED BY <1>1, <1>6, <1>7, QuietStep

LEMMA NextReports == Inv /\ ReportsInv /\ [Next]_vars => ReportsInv'
<1> SUFFICES ASSUME Inv, ReportsInv, [Next]_vars PROVE ReportsInv' OBVIOUS
<1>1. CASE PollOne
  <2>1. ready # <<>> BY <1>1 DEF PollOne
  <2>2. Inv' BY NextInv
  <2>3. QED
    BY <1>1, <2>1, <2>2, ReadHandlerReports, WriteHandlerReports, ReadTimeoutReports,
       EndReports, IgnoredReports, RemovalReports DEF PollOne
<1>2. CASE UNCHANGED vars
  <2>1. UNCHANGED <<sock, count, reading, armed, ready, buffer, reports, expired, writing, wrote>>
    BY <1>2 DEF vars, writeVars
  <2>2. QED BY <2>1 DEF ReportsInv, ExpiriesOK
<1>3. QED BY <1>1, <1>2, CallsReports, LineReports DEF Next

LEMMA InitReports == Init => ReportsInv
<1> SUFFICES ASSUME Init PROVE ReportsInv OBVIOUS
<1>1. /\ Len(ready) = 0 /\ Len(reports) = 0 /\ Len(wrote) = 0 /\ Len(buffer) = 0
      /\ count = 0 /\ reading = 0 /\ armed = 0 /\ expired = {} /\ writing = FALSE
      /\ buffer = <<>>
  BY EmptySeq DEF Init
<1>2. \A kind : None(ready, kind) /\ Once(ready, kind) BY <1>1 DEF None, Once
<1>3. ReadsOK(ready, count, reading, reports) BY <1>1, <1>2 DEF ReadsOK, Increasing
<1>4. BytesOK(ready, count, reading, reports, buffer) BY <1>1, <1>2 DEF BytesOK, InStep
<1>5. WritesOK(ready, writing) /\ TimersOK(ready, count, armed, expired)
  BY <1>1, <1>2 DEF WritesOK, TimersOK
<1>6. ExpiriesOK
  <2>1. TimedOut(reports) = {} /\ CutOff(wrote) = {} /\ Spent(ready, expired) = {}
    BY <1>1 DEF TimedOut, CutOff, Spent
  <2>2. Cardinality({}) = 0 BY FS_EmptySet
  <2>3. Owed(sock, ready, OfRead) = 0 /\ Owed(sock, ready, OfWrite) = 0 BY <1>2, OwedIs
  <2>4. QED BY <2>1, <2>2, <2>3 DEF ExpiriesOK
<1>7. QED BY <1>3, <1>4, <1>5, <1>6 DEF ReportsInv

LEMMA ReportsAlways == Spec => [](Inv /\ ReportsInv)
<1>1. QED BY InitInv, NextInv, InitReports, NextReports, PTL DEF Spec

(* The transport hears of each read at most once and in the order it       *)
(* started them.                                                           *)
THEOREM IsReportedInOrder == Spec => []ReportedInOrder
<1>1. ReportsInv => ReportedInOrder BY DEF ReportsInv, ReadsOK, ReportedInOrder
<1>2. QED BY <1>1, ReportsAlways, PTL

(* Nothing is reported as timed out, and no write as a disconnection, on a *)
(* port that nobody closed, without an expiry that accounts for it.        *)
THEOREM TimeoutsAreAccountedFor == Spec => []TimeoutsHaveExpiries
<1>1. ASSUME Inv, ReportsInv PROVE TimeoutsHaveExpiries
  <2>1. TypeOK BY <1>1 DEF Inv
  <2>2. IsFiniteSet(expired) /\ Cardinality(expired) \in Nat
    <3>1. IsFiniteSet(1..count) BY <2>1, Numbers, FS_Interval
    <3>2. expired \subseteq 1..count BY <1>1 DEF ReportsInv, TimersOK
    <3>3. QED BY <3>1, <3>2, FS_Subset, FS_CardinalityType
  <2>3. Cardinality(Spent(ready, expired)) <= Cardinality(expired)
    <3>1. Spent(ready, expired) \subseteq expired BY DEF Spent
    <3>2. QED BY <2>2, <3>1, FS_Subset
  <2>4. QED BY <1>1, <2>1, <2>2, <2>3, Counts DEF ReportsInv, ExpiriesOK, TimeoutsHaveExpiries
<1>2. QED BY <1>1, ReportsAlways, PTL

(* As long as every read ended with its data, each gets its own bytes.     *)
THEOREM BytesStayInStep == Spec => []BytesInStep
<1>1. ReportsInv => BytesInStep BY DEF ReportsInv, BytesOK, BytesInStep
<1>2. QED BY <1>1, ReportsAlways, PTL
=============================================================================
