---------------------------- MODULE SerialSocket ----------------------------
(***************************************************************************)
(* A serial socket (LinuxSerial.cpp): the port, its asynchronous reads and *)
(* writes, the timer that bounds the reads, the buffer they fill, and the  *)
(* removal after ReleaseSocket, over an io_service that runs one           *)
(* completion handler at a time, in the order of the completions.  The     *)
(* transport above the socket is not in the repository: it reads when it   *)
(* likes, one read at a time, as a rule from the callback of the read      *)
(* before, and takes from the buffer as many bytes as it asked for.  Two   *)
(* bytes per read are enough for one to be there without the other.        *)
(***************************************************************************)
EXTENDS Integers, Sequences, FiniteSets

CONSTANTS
    Timings,    \* TRUE: reads with a timeout, FALSE: without
    MaxReads,   \* how many reads a behaviour may start
    MaxWrites   \* how many asynchronous writes

ASSUME TimingsAssumption == Timings \subseteq BOOLEAN /\ Timings # {}
ASSUME MaxReadsAssumption == MaxReads \in Nat
ASSUME MaxWritesAssumption == MaxWrites \in Nat

VARIABLES
    sock,      \* "none", "listed", "released" (Close was called) or "removed"
    isOpen,    \* m_Port.is_open()
    count,     \* how many reads were started; the last one is number count
    reading,   \* the read that is outstanding, or 0
    armed,     \* the read m_ReadTimer waits for, or 0
    buffer,    \* m_ReadBuffer: for each byte, the read that transferred it
    writes,    \* how many writes were started
    writing,   \* one of them is outstanding
    ready,     \* the handlers the io_service will call
    reports,   \* history: what m_Read or m_Close was told of which read
    wrote,     \* history: what m_Write or m_Close was told of the writes
    expired,   \* history: the reads whose time ran out
    died       \* why the process ended, or "none"

writeVars == <<writes, writing, wrote>>
vars == <<sock, isOpen, count, reading, armed, buffer, ready, reports, expired, died,
          writeVars>>

Reads == 1..MaxReads
Errors == {"ok", "aborted", "eof", "failed", "bad_descriptor"}
Handler(what, r, err) == [what |-> what, read |-> r, err |-> err]
Handlers == [what : {"read", "write", "timeout", "remove"},
             read : Reads \cup {0},
             err  : Errors]
Reports == [read : Reads, told : {"data", "ERR_TIMEOUT", "error", "closed"},
            released : BOOLEAN, own : BOOLEAN]
Ends == {"none", "close", "cancel", "freed", "expiry", "late write"}
WriteReports == [told : {"sent", "error", "closed"}, released : BOOLEAN]

TypeOK ==
    /\ sock \in {"none", "listed", "released", "removed"}
    /\ isOpen \in BOOLEAN /\ (isOpen => sock = "listed")
    /\ count \in 0..MaxReads
    /\ reading \in 0..count /\ (reading # 0 => isOpen)
    /\ armed \in 0..count
    /\ buffer \in Seq(Reads)
    /\ writes \in 0..MaxWrites
    /\ writing \in BOOLEAN /\ (writing => isOpen)
    /\ wrote \in Seq(WriteReports)
    /\ ready \in Seq(Handlers)
    /\ reports \in Seq(Reports)
    /\ expired \subseteq Reads
    /\ died \in Ends

Init ==
    /\ sock = "none"
    /\ isOpen = FALSE
    /\ count = 0
    /\ reading = 0
    /\ armed = 0
    /\ buffer = <<>>
    /\ writes = 0
    /\ writing = FALSE
    /\ wrote = <<>>
    /\ ready = <<>>
    /\ reports = <<>>
    /\ expired = {}
    /\ died = "none"

-----------------------------------------------------------------------------
(* The program's calls.                                                    *)

Alive == died = "none"

CreateSocket ==
    /\ Alive /\ sock = "none"
    /\ sock' = "listed"
    /\ UNCHANGED <<isOpen, count, reading, armed, ready, reports, expired, died,
                   buffer, writeVars>>

(* m_Port.open succeeds; SetPortOptions may still throw and make Open      *)
(* report a failure, with the port left open.  If open fails, nothing      *)
(* changes.                                                                *)
Open ==
    /\ Alive /\ sock = "listed" /\ ~isOpen
    /\ isOpen' = TRUE
    /\ UNCHANGED <<sock, count, reading, armed, ready, reports, expired, died,
                   buffer, writeVars>>

(* What cancelling m_ReadTimer leaves in the queue when it waits for r.    *)
TimerCancelled(r) == IF r = 0 THEN <<>> ELSE <<Handler("timeout", r, "aborted")>>

(* Cancelling or closing the port: its read and its write.                 *)
PortCancelled(r) == IF r = 0 THEN <<>> ELSE <<Handler("read", r, "aborted")>>
WriteCancelled(w) == IF w THEN <<Handler("write", 0, "aborted")>> ELSE <<>>

(* Read(nullptr, ...) with this queue, while the timer waits for waiting.  *)
(* A closed port fails the read at once, behind the caller's back.         *)
Read(timed, queue, waiting) ==
    /\ count < MaxReads
    /\ count' = count + 1
    /\ reading' = IF isOpen THEN count + 1 ELSE 0
    /\ ready' = (IF isOpen THEN queue
                 ELSE Append(queue, Handler("read", count + 1, "bad_descriptor")))
                \o TimerCancelled(waiting)
    /\ armed' = IF timed THEN count + 1 ELSE 0

ReadPending == reading # 0 \/ \E i \in 1..Len(ready) : ready[i].what = "read"

(* The transport starts to read, outside a callback, on a port that has    *)
(* been opened.                                                            *)
StartRead ==
    /\ Alive /\ isOpen /\ ~ReadPending
    /\ \E timed \in Timings : Read(timed, ready, armed)
    /\ UNCHANGED <<sock, isOpen, reports, expired, died,
                   buffer, writeVars>>

WritePending == writing \/ \E i \in 1..Len(ready) : ready[i].what = "write"

(* Write(Data, true) with a write handler registered, one at a time, by    *)
(* whoever holds the socket.  It does not ask whether the port is open: on *)
(* a closed port, also after the release, the write fails at once and its  *)
(* handler is queued behind all that waits.                                *)
StartWrite ==
    /\ Alive /\ sock \in {"listed", "released"} /\ ~WritePending
    /\ writes < MaxWrites
    /\ writes' = writes + 1
    /\ writing' = isOpen
    /\ ready' = IF isOpen THEN ready
                 ELSE Append(ready, Handler("write", 0, "bad_descriptor"))
    /\ UNCHANGED <<sock, isOpen, count, reading, armed, buffer, reports, wrote,
                   expired, died>>

ReleaseSocket_RemovesFirst ==       \* mutant: the removal is not posted behind
    /\ Alive /\ sock = "listed" /\ isOpen
    /\ sock' = "released"
    /\ isOpen' = FALSE
    /\ reading' = 0
    /\ writing' = FALSE
    /\ ready' = <<Handler("remove", 0, "ok")>> \o ready \o PortCancelled(reading)
                    \o WriteCancelled(writing)
    /\ UNCHANGED <<count, armed, buffer, reports, expired, died, writes, wrote>>

ReleaseSocket_NoCancel ==           \* mutant: Close forgets the read
    /\ Alive /\ sock = "listed" /\ isOpen
    /\ sock' = "released"
    /\ isOpen' = FALSE
    /\ ready' = Append(ready, Handler("remove", 0, "ok"))
    /\ UNCHANGED <<count, reading, armed, buffer, reports, expired, died, writeVars>>

(* LinuxSerial::ReleaseSocket: Close, which cancels the read and the write *)
(* but not the timer, then the posted removal.                             *)
ReleaseSocket ==
    /\ Alive /\ sock = "listed" /\ isOpen
    /\ sock' = "released"
    /\ isOpen' = FALSE
    /\ reading' = 0
    /\ writing' = FALSE
    /\ ready' = Append(ready \o PortCancelled(reading) \o WriteCancelled(writing),
                       Handler("remove", 0, "ok"))
    /\ UNCHANGED <<count, armed, buffer, reports, expired, died, writes, wrote>>

(* Close cancels a port that is not open: an exception nobody catches.     *)
CloseThrows ==
    /\ Alive /\ sock = "listed" /\ ~isOpen
    /\ died' = "close"
    /\ UNCHANGED <<sock, isOpen, count, reading, armed, ready, reports, expired,
                   buffer, writeVars>>

-----------------------------------------------------------------------------
(* The line and the clock.                                                 *)

(* The first byte of a read goes into the buffer when it arrives, and      *)
(* stays there if the second never does.                                   *)
HasByte(r) == buffer # <<>> /\ buffer[Len(buffer)] = r

ByteArrives ==
    /\ Alive /\ reading # 0
    /\ ~HasByte(reading)
    /\ buffer' = Append(buffer, reading)
    /\ UNCHANGED <<sock, isOpen, count, reading, armed, ready, reports, expired, died,
                   writeVars>>

ReadFails ==
    /\ Alive /\ reading # 0
    /\ \E err \in {"eof", "failed"} :
          ready' = Append(ready, Handler("read", reading, err))
    /\ reading' = 0
    /\ UNCHANGED <<sock, isOpen, count, armed, buffer, reports, expired, died, writeVars>>

ReadDone ==
    /\ Alive /\ reading # 0
    /\ HasByte(reading)
    /\ buffer' = Append(buffer, reading)
    /\ ready' = Append(ready, Handler("read", reading, "ok"))
    /\ reading' = 0
    /\ UNCHANGED <<sock, isOpen, count, armed, reports, expired, died, writeVars>>

WriteDone ==
    /\ Alive /\ writing
    /\ \E err \in {"ok", "failed"} : ready' = Append(ready, Handler("write", 0, err))
    /\ writing' = FALSE
    /\ UNCHANGED <<sock, isOpen, count, reading, armed, buffer, reports, expired, died,
                   writes, wrote>>

TimerExpires ==
    /\ Alive /\ armed # 0
    /\ ready' = Append(ready, Handler("timeout", armed, "ok"))
    /\ expired' = expired \cup {armed}
    /\ armed' = 0
    /\ UNCHANGED <<sock, isOpen, count, reading, reports, died,
                   buffer, writeVars>>

-----------------------------------------------------------------------------
(* The handlers.  c is the one that is called.                             *)

Told(err) ==
    CASE err = "ok"      -> "data"
      [] err = "aborted" -> "ERR_TIMEOUT"
      [] err = "eof"     -> "closed"
      [] err = "failed"  -> "error"

Rest_One(b) == IF b = <<>> THEN <<>> ELSE Tail(b)    \* mutant: takes too little

(* AppendAsyncReadResult takes from the front of the buffer.               *)
Rest(b) == IF Len(b) <= 2 THEN <<>> ELSE Tail(Tail(b))

Own(r) == Len(buffer) >= 2 /\ buffer[1] = r /\ buffer[2] = r

Report(c) ==
    [read |-> c.read, told |-> Told(c.err), released |-> sock = "released",
     own |-> c.err = "ok" /\ Own(c.read)]

ASIO_Read_Handler_CancelsPort(c) ==    \* mutant: cancels the port, not the timer
    /\ c.what = "read" /\ c.err # "bad_descriptor"
    /\ sock # "removed"
    /\ reports' = Append(reports, Report(c))
    /\ buffer' = IF c.err = "ok" THEN Rest(buffer) ELSE buffer
    /\ ready' = Tail(ready) \o WriteCancelled(writing)
    /\ writing' = FALSE
    /\ UNCHANGED <<sock, isOpen, count, reading, armed, expired, died, writes, wrote>>

(* A read ends: the timer is cancelled and m_Read or m_Close called, and   *)
(* m_Read may read again.  A bad descriptor is ignored.                    *)
ASIO_Read_Handler(c) ==
    LET queue == Tail(ready) \o TimerCancelled(armed) IN
    /\ c.what = "read" /\ c.err # "bad_descriptor"
    /\ sock # "removed"
    /\ reports' = Append(reports, Report(c))
    /\ buffer' = IF c.err = "ok" THEN Rest(buffer) ELSE buffer
    /\ \/ /\ ready' = queue
          /\ armed' = 0
          /\ UNCHANGED <<count, reading>>
       \/ /\ Told(c.err) # "closed"
          /\ \E timed \in Timings : Read(timed, queue, 0)
    /\ UNCHANGED <<sock, isOpen, expired, died, writeVars>>

WriteTold(err) ==
    CASE err = "aborted"        -> "closed"
      [] err = "ok" /\ isOpen   -> "sent"
      [] OTHER                  -> "error"

(* A write that was cancelled, be it by a read's timeout on an open port,  *)
(* is taken for a disconnection: m_Close.                                  *)
ASIO_Write_Handler(c) ==
    /\ c.what = "write"
    /\ sock # "removed"
    /\ wrote' = Append(wrote, [told |-> WriteTold(c.err), released |-> sock = "released"])
    /\ ready' = Tail(ready)
    /\ UNCHANGED <<sock, isOpen, count, reading, armed, buffer, reports, expired, died,
                   writes, writing>>

ASIO_Read_Timeout_Reports(c) ==     \* mutant: the timeout tells m_Read itself
    /\ c.what = "timeout" /\ c.err = "ok"
    /\ sock # "removed" /\ isOpen
    /\ ready' = Tail(ready) \o PortCancelled(reading) \o WriteCancelled(writing)
    /\ reading' = 0
    /\ writing' = FALSE
    /\ reports' = Append(reports, [read |-> c.read, told |-> "ERR_TIMEOUT",
                                   released |-> FALSE, own |-> FALSE])
    /\ UNCHANGED <<sock, isOpen, count, armed, buffer, expired, died, writes, wrote>>

ASIO_Read_Timeout_Inverted(c) ==    \* mutant: acts on cancelled timers only
    /\ c.what = "timeout" /\ c.err = "ok"
    /\ sock # "removed" /\ isOpen
    /\ ready' = Tail(ready)
    /\ UNCHANGED <<sock, isOpen, count, reading, armed, reports, expired, died,
                   buffer, writeVars>>

(* The time is up: whatever the port is doing is cancelled.                *)
ASIO_Read_Timeout(c) ==
    /\ c.what = "timeout" /\ c.err = "ok"
    /\ sock # "removed" /\ isOpen
    /\ ready' = Tail(ready) \o PortCancelled(reading) \o WriteCancelled(writing)
    /\ reading' = 0
    /\ writing' = FALSE
    /\ UNCHANGED <<sock, isOpen, count, armed, buffer, reports, expired, died, writes, wrote>>

(* m_Port.cancel() of a closed port throws out of the io_service.          *)
TimeoutThrows(c) ==
    /\ c.what = "timeout" /\ c.err = "ok"
    /\ sock # "removed" /\ ~isOpen
    /\ died' = "cancel"
    /\ ready' = Tail(ready)
    /\ UNCHANGED <<sock, isOpen, count, reading, armed, reports, expired,
                   buffer, writeVars>>

(* Handlers that look at their error only.                                 *)
Ignored(c) ==
    /\ \/ c.what = "read" /\ c.err = "bad_descriptor"
       \/ c.what = "timeout" /\ c.err = "aborted"
    /\ ready' = Tail(ready)
    /\ UNCHANGED <<sock, isOpen, count, reading, armed, reports, expired, died,
                   buffer, writeVars>>

RemoveSocket_FindsNone(c) ==        \* mutant: compares with a copy's address
    /\ c.what = "remove"
    /\ ready' = Tail(ready)
    /\ UNCHANGED <<sock, isOpen, count, reading, armed, reports, expired, died,
                   buffer, writeVars>>

(* The socket is destroyed, and its timer with it.                         *)
RemoveSocket(c) ==
    /\ c.what = "remove"
    /\ sock' = "removed"
    /\ ready' = Tail(ready) \o TimerCancelled(armed)
    /\ armed' = 0
    /\ UNCHANGED <<isOpen, count, reading, reports, expired, died,
                   buffer, writeVars>>

(* What a handler came from that uses the socket after it was destroyed.   *)
Dangling(c) ==
    CASE c.what = "timeout"                             -> "expiry"
      [] c.what = "write" /\ c.err = "bad_descriptor"   -> "late write"
      [] OTHER                                          -> "freed"

DanglingHandler(c) ==
    /\ \/ c.what = "read" /\ c.err # "bad_descriptor"
       \/ c.what = "timeout" /\ c.err = "ok"
       \/ c.what = "write"
    /\ sock = "removed"
    /\ died' = Dangling(c)
    /\ ready' = Tail(ready)
    /\ UNCHANGED <<sock, isOpen, count, reading, armed, reports, expired,
                   buffer, writeVars>>

PollOne ==
    /\ Alive /\ ready # <<>>
    /\ LET c == Head(ready) IN
       \/ ASIO_Read_Handler(c) \/ ASIO_Write_Handler(c)
       \/ ASIO_Read_Timeout(c) \/ TimeoutThrows(c)
       \/ Ignored(c)
       \/ RemoveSocket(c)
       \/ DanglingHandler(c)

Next ==
    \/ CreateSocket \/ Open \/ StartRead \/ StartWrite
    \/ ReleaseSocket \/ CloseThrows
    \/ ByteArrives \/ ReadFails \/ ReadDone \/ WriteDone \/ TimerExpires
    \/ PollOne

Spec == Init /\ [][Next]_vars

(* The program polls, and time passes.  Nothing else is owed: the line may *)
(* stay silent for ever.                                                   *)
FairSpec == Spec /\ WF_vars(PollOne) /\ WF_vars(TimerExpires)

-----------------------------------------------------------------------------
(* Properties.                                                             *)

Increasing(told) == \A i, j \in 1..Len(told) : i < j => told[i].read < told[j].read

TimedOut(told) == {i \in 1..Len(told) : told[i].told = "ERR_TIMEOUT" /\ ~told[i].released}
CutOff(told) == {i \in 1..Len(told) : told[i].told = "closed" /\ ~told[i].released}

InStep(told) ==
    \A i \in 1..Len(told) :
        told[i].told = "data" /\ ~told[i].own =>
            \E j \in 1..(i - 1) : told[j].told # "data"

(* The transport hears of each read at most once, in the order it started  *)
(* them, however timeouts, data and the release meet.                      *)
ReportedInOrder == Increasing(reports)

(* On a port that nobody closed, one expiry accounts for at most one       *)
(* ERR_TIMEOUT, though it may be that of a later read, and for at most one *)
(* write that is reported as a disconnection; nothing else aborts either.  *)
TimeoutsHaveExpiries ==
    /\ Cardinality(TimedOut(reports)) <= Cardinality(expired)
    /\ Cardinality(CutOff(wrote)) <= Cardinality(expired)

(* The transport gets a read's own bytes as long as every read before it   *)
(* ended with its data.  (After one that did not, what had arrived for it  *)
(* stays in m_ReadBuffer and is taken for the beginning of the next.)      *)
BytesInStep == InStep(reports)

(* A read with a timeout comes to an end on a silent line.                 *)
TimedReadEnds ==
    \A r \in Reads :
        reading = r /\ armed = r
            ~> died # "none" \/ \E i \in 1..Len(reports) : reports[i].read = r

(* A released socket is destroyed, unless the process ended.               *)
ReleasedIsRemoved == sock = "released" ~> sock = "removed" \/ died # "none"

(* The removal is posted to allow the socket's cleanup before it.  For all *)
(* that Close cancels, and all that completed before, that works whenever  *)
(* the socket is released: no such handler uses the destroyed socket.  The *)
(* timer escapes it once it has expired, by throwing or by dangling; and a *)
(* write that is made on the closed port.                                  *)
ReleaseCleansUp ==
    /\ died # "freed"
    /\ died \in {"expiry", "cancel"} => expired # {}

(* A read that got its data has cancelled its timeout: the expiry of one   *)
(* read never cancels another.                                             *)
DataCancelsTimeout ==
    [][PollOne /\ ASIO_Read_Timeout(Head(ready)) =>
            reading \in {0, Head(ready).read}]_vars
=============================================================================
