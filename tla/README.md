# TLA+ models of the DLMS/COSEM – CIM simulation

The repository simulates the path of a remote *disconnect* or *reconnect* of
electricity meters: a customer information system (`CISsim`) sends a CIM
`CreateEndDeviceControls` request over SOAP to a head end (`HESsim`), the head
end opens one DLMS/COSEM session over TCP with each meter (`Metersim`) and asks
its Disconnect Control object to act.  The DLMS/COSEM protocol itself comes from
a library that is not in the repository; the repository supplies its platform
layer (sockets, serial ports, timers, the event loop) and the COSEM objects, and
a test harness with a menu (`Linux.cpp`).

This directory holds TLA+ modules of that system, the TLC configurations that
check them on small instances, and proofs of their safety properties for every
size of the system.  All source paths below are relative to
`src/src/`.

## Inventory

| Component | State it keeps | Operations | Interacts with |
|---|---|---|---|
| Head end, `serviceConnect` (HESsim.cpp 225-327) | one global `LinuxBaseLibrary`; per call an engine, a transport wrapper, a socket, `max_tries`, `result` | one call per meter: open, two polling loops, Action, Release, `ReleaseSocket` | its sockets (`Open`, `poll`, callbacks), the meters over TCP |
| Head end, CIM requests (HESsim.cpp 331-523) | the list of meters; per request `victims`, `reconnect` | the five SOAP verbs | `serviceConnect`, serially, per device |
| TCP sockets (LinuxSocket.cpp) | `m_TCPSockets`, `m_Socket`, the pending asynchronous operation | Create/Release/RemoveSocket, Open, Read, Write, Close, five asio handlers | the `io_service` (LinuxBaseLibrary.cpp), the wrapper's callbacks |
| Meter simulator (Metersim.cpp, LinuxDisconnect.cpp) | a listening socket, one served connection, an association, the disconnect object | `main`'s loop: listen, accept one, serve, start over | clients over TCP |
| Test harness (Linux.cpp) | the client menu's pointers to sockets and an engine; the server menu's engines | selections of the client and the server menu | TCP and serial sockets; each menu is itself a handler of its loop |
| CIS simulator (CISsim.cpp, UUID.cpp) | two detached threads, one static random generator | a disconnect and a reconnect request every ten seconds, two seconds apart | the head end's SOAP service |
| Serial sockets (LinuxSerial.cpp) | port, read timer, last written, read buffer | Open, Write, Read with a timeout, Close, handlers | the `io_service` |
| Simple timer (LinuxSimpleTimer.cpp) | state, duration, end in ticks | Initialize, Start, Stop, IsExpired, RemainingTime | the library |
| Synchronization (LinuxSynchronization.cpp) | a POSIX semaphore that starts at one | Take, Give | nobody in the repository |
| COSEM objects (Linux{Data,Disconnect,ImageTransfer,Clock}.cpp) | attribute values, image blocks | get, set, action | the server engine |

What makes it hard:

* *Deferred handlers.*  Every completion waits in the `io_service` until somebody
  polls; between the completion and its handler the socket may be closed,
  released, or its owner destroyed.
* *A loop that stops.*  An `io_service` with nothing outstanding stops, and the
  program never calls `reset()`; a single failure may silence the head end.
* *Sessions that overlap by accident.*  `serviceConnect` has three exits and one
  of them leaves its socket behind, with an operation that completes during a
  later call.
* *Nobody waits for the answer.*  The head end closes right behind its request.
* *One connection at a time.*  A meter serves one connection while the kernel
  goes on completing others into the backlog.
* *Crashes.*  `remote_endpoint()` throws for a connection that is already gone: in
  the accept handler, and in the connect handler when the socket was closed, or the
  peer reset the connection, between the connect's completion and its handler.
* *Timers that race.*  A read timeout that is already queued when the data arrives
  acts on whatever read is outstanding by then.
* *Counters that wrap.*  A timer's end wraps at 2^32 milliseconds and is compared as
  if it did not.
* *A question inside a handler.*  While either menu waits for an answer its process
  calls no other handler.
* *Threads that share a clock only.*  What keeps disconnects and reconnects in turn
  is a head start of two seconds.

What makes each part correct:

* *Head end:* a call that says it failed has had and will have no effect on its
  meter; commands reach a meter in the order of the calls; every call returns; a
  released socket is destroyed once, after its last handler.
* *CIM requests:* `OK` is backed by a successful call per device, `FAILED` names
  only devices that were not operated, every request is answered.
* *Sockets:* one report per read, in order; no handler on a destroyed socket; the
  loop does not stop or die while its owner depends on it.
* *Meter:* performs what was asked, once, with the association the command came in,
  and returns to listening.
* *CIS:* disconnects and reconnects take turns.
* *Harness:* its pointers name sockets that exist, and each socket is released by
  the list it is in.
* *Server and objects:* what an engine is told is what it answers, until it is told
  otherwise; nothing is written outside an object; who gets a connection accepted
  and asks for an association gets one.
* *Timer:* it expires once, not before its time and not long after it.

## Modules

| Module | Models | Builds on |
|---|---|---|
| `Deployment` | the constants everyone shares (meters, sockets, faults) and the vocabulary of the wire | |
| `Connections` | what travels between a client and its servers, per connection and direction | `Deployment` |
| `TcpSocket` | `LinuxTCPSocket` and `LinuxIP`, client side, over one `io_service`; operations and handlers are operators in action form that the owner of the sockets conjoins with its own steps | `Connections` |
| `Metersim` | the meters' processes and the TCP connections that lead to them | `Connections` |
| `HeadEnd` | `serviceConnect` | `TcpSocket`, `Metersim` |
| `CommandRelay` | abstract: what `serviceConnect` promises, without sockets | `Deployment` |
| `EndDeviceControls` | the head end's SOAP service | `CommandRelay` for its calls |
| `CISsim` | the two threads of the CIS and the head end's queue | |
| `ClientMenu` | the TCP part of the harness's client menu | `TcpSocket` |
| `CosemObjects` | get, set and action of the data, disconnect, image transfer and clock objects, as operators | |
| `ServerMenu` | the harness's server menu: engines over TCP and serial ports, each with a device | `Connections`, `CosemObjects` |
| `HarnessSession` | the two harnesses against each other, and the kernels between them | `ClientMenu`, `ServerMenu` |
| `HarnessMenu` | the client menu's pointers over all transports | |
| `SerialSocket` | `LinuxSerialSocket` and `LinuxSerial`: asynchronous reads and writes, timer, buffer, release | |
| `SimpleTimer` | `LinuxSimpleTimer` over a tick count that wraps | |
| `MCHeadEnd`, `MCEndDeviceControls`, `MCHarnessSession` | values for TLC | |
| `TcpSocketProofs` | lemmas about the operators of `TcpSocket` | `TcpSocket` |
| `HeadEndProofs`, `EndDeviceControlsProofs`, `CISsimProofs`, `SerialSocketProofs`, `SimpleTimerProofs`, `HarnessMenuProofs`, `HarnessSessionProofs` | theorems | the module each is named for |

`HeadEnd` implements `CommandRelay` (`ImplementsRelay`, checked and proved), and the
service is modelled over `CommandRelay`, of which it is proved to be a client: what is
shown of the service therefore holds of it over `serviceConnect`.

The modules above state the properties; the inductive invariants are in the module of
the proofs that need them.

### Correspondence

`TcpSocket`: `sock` is the membership in `m_TCPSockets`, `isOpen` is
`m_Socket.is_open()`, `op` the outstanding asynchronous operation, `left` the
distance of the resolver's iterator from its end, `ready` the queue of completed
operations, `stopped` is `io_service::stopped()`, `transport` what the wrapper
knows from `m_Connect` and `m_Close` ("dead" after `delete m_pWrapper`).  Each
`ASIO_*_Handler` is the operator of that name; `Interrupted` and `AfterClose` are
what `m_Socket.close()` does to the outstanding operation: it queues its handler
with an error, except a name resolution, which belongs to the resolver.  A write
is synchronous, as every caller in the repository makes it.  `ConnectHandlerThrows`
is the exception of `remote_endpoint()` (line 163), on a closed socket or on one
whose peer's end or reset is on the wire (`ResetByPeer`); it leaves the loop
(`PollThrows`).  "RST" at the end of `down` stands for the end of the stream as well;
an orderly end does not make `remote_endpoint()` throw, so the model throws at least
where the code does, and `ConnectHandlerThrows` and `ASIO_Connect_Handler` are both
possible there.  A reset that the kernel knows of when it collects the connect's
result is a connect that is refused.  A read that fails in another way than by the
end, a reset or an abort calls `m_Read` with the failure; what the wrapper makes of
that is the library's, and the model has it give the transport up.

`HeadEnd`: `pc` says in which loop the call is; `tries` is `max_tries` counted
down (a small number in the runs, 400 in the code).  The loops poll without
sleeping; a turn of a loop may still take any time, because anything may happen
between two steps of the model.  `Begin`/`BeginFails` are lines 227-245,
`Associate`, `ConnectAgain`, `GiveUp` the outcomes of the first loop, `Command`,
`CommandRefused`, `AssociateAgain`, `FallThrough` those of the second; `Finish` is
everything below it, down to the engine's destructor.  `Poll` is one handler called
by `poll()`; `HandlerThrows` is one whose exception leaves `poll()`: nothing catches it,
so the process ends (`pc = "died"`) and the kernel ends its connections (`HangUp`).
`EngineHears` is the library's engine; the callbacks at lines 103-223 only trace.

`Metersim`: `mode` is the position in `main`'s `while` loop; a turn ends when the
`io_service` has nothing outstanding, which is when the served connection ends.
`EndOfSockets` is the destruction of the base library: the listening socket and
its backlog go with it.  `executed` is a history variable that records
`InternalAction` of the disconnect object.

`EndDeviceControls`: `phase` is the position in `CreateEndDeviceControls`: reading
the controls (`todo` is what the loop has still to see), sending to the `victims`
one after the other (`next`), in a call.  A control's reference is one of the two
that are recognised or another one; a device name leads to a meter or, beyond the
table of meters, to none.  `CallBegins`, `CallFails`, `CallReturns` are the call of
`serviceConnect` with the steps `Accept`, `Fail` and `Succeed` of `CommandRelay`.
The service handles one SOAP request after the other (`hes.run` in `main`).
`answers` is a history variable.

`CISsim`: `wake[t]` is the `x` of `timer_start`'s loop, computed before the call is
made; `queue` holds the calls at the head end in the order they came and `began` is
when the first of them got served.  To serve takes at least one tick.  `last` is a
history variable.  A call fails only when the head end is not serving another.

`SerialSocket`: `reading` and `armed` are the read that is outstanding and the one
`m_ReadTimer` waits for, by number; `ready` is the queue of handlers.  `Read` is
the asynchronous read of `LinuxSerialSocket`; cancelling the timer or the port
queues the handler of what was cancelled, and cannot take back what is queued.
`buffer` is `m_ReadBuffer`, each byte being known by the read that transferred it;
a read wants two bytes, so that one may be there without the other.
`AppendAsyncReadResult` is called by the transport from the read's callback and
takes two bytes from the front.  A write is outstanding or not; cancelling the port
cancels it together with the read.  The transport above is not in the repository: it
makes one read at a time and may read again from the callback of the one before.
A write does not ask whether the port is open (lines 232-257): `StartWrite` on a
closed port, also between the release and the removal, fails at once, and its handler
is queued behind the removal.  `died` says that an exception left the loop ("close",
"cancel") or a destroyed socket was used, and by what: the handler of an expiry, of
such a late write, or of something that should have been finished ("freed").  asio
transfers a read's bytes in steps of its own; the model makes each a part of the
arrival of the byte, which no property tells apart.

`SimpleTimer`: the member variables by their names, and `tick` for `GetTickCount`.
`waited` and `left` belong to the environment and to the history: how long the
owner has not asked, and how far the end is by a clock that does not wrap.

`ClientMenu`: one action per selection (A, 1 to 5, T, 0), guarded as in the menu
handler; `Run` is one handler called by `run()`.  A and 1 to 4 ask questions with
`GetLine`, which blocks inside the handler (Linux.cpp 130): they are two actions, from
the selection to its first question (`AskAddress`, `AskSecurity`, `AskDescriptor`) and
from the last answer to the end of the handler (`TCPConnect`, `COSEMOpen`,
`COSEMRequest`, or `NothingSent`), and while `question` names the selection no other
handler is called.  What was checked before the question is not checked again after
it.  0, 5 and T ask nothing.

`CosemObjects`: `Schema` holds the attributes and methods as the classes' tables
declare them; `Outcomes(q, v)` is the set of results of request `q` on a device
whose values are `v`, a set because reading outside an array yields anything.

`ServerMenu`: `TCPServer`, `SerialServer` with `SerialServerAnswered`, and
`ExitServer` are selections 1, 2 and 3, and 0; `prompting` says that the menu's
handler waits for the port to be typed.  `accepting` is the outstanding
`async_accept`, which is issued once, by the engine whose acceptor could be bound.
`Accept_Handler_Throws` is the exception of `remote_endpoint()` (LinuxSocket.cpp 143)
for a connection that was reset before it was accepted.
The associations (`OpenRequest`, `ReleaseRequest`) are the library's;
`ServiceRequest` reaches the objects.  `log` and `behind` are history variables.

`HarnessSession`: `Open1`, `Request`, `Release` and the closing selections (`Closes`)
are the client's menu with what each sends, `Quiet` the steps of the menu that send
nothing; `Resolution`, `Connection` and `Delivery` are the kernels, and `Reset` is a
connection that breaks.  `up` and `down` are the two directions of each
connection, in order, "FIN" and "RST" included.

`HarnessMenu`: one action per selection that touches a pointer (A to E, 1, 5, T, U);
sockets are numbered in the order they are created.  `DisconnectConfirm` is the
handler registered in selection B.  `listed`, `isOpen`, `posted` are the two socket
lists, `IsConnected()` and the posted removals; `link` is the state of the HDLC
layer over a socket.

External, modelled from how the code uses it: asio (queue, stopping, aborting,
the resolver's thread), TCP (in-order delivery, FIN and RST, the backlog), and the
DLMS/COSEM library (an AARQ is answered by an AARE, an Action by a response; the
end of the transport closes the association; HDLC confirms a disconnect that was
requested).

## Runs

| Run | Question | Bounds |
|---|---|---|
| `headend_faults` | Under every fault: does the head end implement `CommandRelay` (`ImplementsRelay`), does no handler outlive its socket (`CleanupBeforeRemoval`), is a command that was sent performed or what its meter reads next unless the connection was reset (`CommandNotLost`), does a stopped loop stay silent (`StoppedIsSilent`)?  Under fairness: does every call return, unless a peer's reset makes a connect handler throw and ends the process (`SessionEnds`), is a command that was sent performed unless its connection breaks (`AskedIsPerformed`), does a meter let go of the connection of a call that returned true (`MeterIsFreed`)? | 1 meter, 2 sessions, 2 endpoints, 2 tries, all faults |
| `headend_two_meters` | Are commands performed in the order of the calls, once, as requested (`PerformedInOrder`), is each released socket removed exactly once (`ReleasedOnce`), is a failed call free of effect (`FailedNotPerformed`)? | 2 meters, 3 sessions, 2 tries; nothing breaks, everything may be slow |
| `service_answers` | Is `OK` backed by calls that succeeded (`OkMeansRelayed`), for every name of every control (`OkCoversControls`); is a device reported as failed untouched (`FailedMeterUntouched`); does a request for one command cause no other, whatever was requested before (`OnlyAskedFor`); is each request answered (`EveryRequestAnswered`)? | 2 requests out of 10, 2 meters, 4 names, 4 calls |
| `cis_exact` | Do disconnects and reconnects take turns for ever, however long the head end takes (`Alternates`, by the invariant `Turns`)? | period 5, head start 1, 26 ticks, an exact timer |
| `serial_reads` | Does each read end in at most one report, in order (`ReportedInOrder`), is each timeout reported owed to an expiry (`TimeoutsHaveExpiries`), does a read get bytes that are not its own only after an earlier read failed (`BytesInStep`), is everything that the release cancels, or that completed before it, finished when the socket is destroyed, so that only an expiry or a write on the closed port uses it later (`ReleaseCleansUp`), does a timed read end on a silent line (`TimedReadEnds`), is a released socket removed (`ReleasedIsRemoved`)? | 3 reads of 2 bytes, timed or not, 1 write |
| `timer_wrap` | Is a timer reported early only while the tick count has still to wrap (`EarlyOnlyAcrossWrap`), and in time unless it is due shortly before the wrap (`ReportedInTime`)? | 8 tick counts, questions at most 3 ticks apart, durations 0, 2, 5 and 7, followed for 11 ticks |
| `harness_pointers` | Do the two socket pointers name sockets that exist (`PointersLive`), does a confirmation release no older transport's socket (`ConfirmReleasesOwnOrLater`)? | 4 sockets of any transport |
| `harness_session` | Client harness against server harness, either of them ended at any moment or left at a question, connections broken at any moment: one removal for each released socket (`OneRemoval`), carried out (`ReleasedIsRemoved`), no end of the client that nobody asked for but after a release, or by a reset that arrives before the connect's handler runs (`LoopEndsOnlyWithCause`), only the first connection is served (`OnlyFirstIsServed`), a COSEM Open on it is answered, or the client hears that the connection is gone, unless one of the two is left at a question for good (`OpenIsAnswered`)? | 2 sockets with 2 endpoints each, 1 engine, no requests, resets |
| `server_engines` | Does a get answer what its own engine was last told (`ReadsLatestSet`), and is nothing written behind an object's values (`NothingBehindTheArray`)? | 1 socket, 2 engines, 3 requests: over TCP those of the client menu, over a line others as well |

Runs that show a disagreement between the code and what the repository says of it
(the findings in `PROJECT.json` quote the lines):

| Run | What TLC shows |
|---|---|
| `headend_ok_unasked` | the second loop runs out and the call returns true although nothing was asked of the meter |
| `headend_meter_stuck` | an abandoned connect completes in a later call's polls and the meter serves it for ever |
| `serial_stale_timeout` | the timeout of a read that has ended, with data or with an error, cancels the next read |

### Disagreements seen while modelling (no run of their own)

* The CIM answer is given when the command has been sent, not when the meter has
  performed it; `doc/01_intro.md:12` tells the story the other way round.
  (`CommandNotLost` and `AskedIsPerformed` say what remains true.)
* In a request with disconnect and reconnect controls, the last recognised
  reference decides for every device (HESsim.cpp 384); a request with no recognised
  reference disconnects, although `doc/05_design.md:20` speaks of disconnect and
  reconnect messages only.  `OnlyAskedFor` is therefore stated for requests of one
  command.
* Only the first of a control's `EndDevices` is read (HESsim.cpp 392), while the
  schema allows any number; the others are neither commanded nor reported.
* The reconnect follows two seconds after the disconnect was *sent*, not, as
  `doc/01_intro.md:12` says, after it was answered; with a timer that may return
  late (`Lateness` above 0) the two can even swap.  The runs and the proof are for
  an exact timer.
* The serial read timer survives `Close`: its handler then cancels a port that is
  closed, which throws, or runs on a removed socket (LinuxSerial.cpp 341); closing
  with a read outstanding reports `ERR_TIMEOUT` (LinuxSerial.cpp 178).
* `LinuxSerialSocket::Write` does not ask whether the port is open (LinuxSerial.cpp
  232).  A write made on the closed port, for instance by the callback that is told of
  the release's abort, completes behind the posted removal, and its handler uses the
  destroyed socket (line 149).  `ReleaseCleansUp` says that it and the expired timer
  are the only ways to use a destroyed serial socket: for all that the release cancels
  the posted removal does what it was posted for.
* `remote_endpoint()` throws in the connect handler (LinuxSocket.cpp 163) when the peer
  has reset the connection, or the socket was closed, since the connect completed; in
  the accept handler (line 143) when the connection was reset before it was accepted.
  Nothing catches either: the head end, the harness or the meter ends.  A meter whose
  loop starts over resets its backlog, so that no fault of the network is needed for
  the head end to end.  `SessionEnds` and `LoopEndsOnlyWithCause` say that it takes
  nothing less.
* After a disconnect was confirmed, `m_pHDLC` refers to a destroyed socket, which
  selections C and D use (Linux.cpp 422): `died = "freed"` is reachable in
  `HarnessMenu`.
* The client menu offers V, for which its handler has no branch.
* A refused connection or a name that cannot be resolved leaves the `io_service`
  without work: it stops, nothing in the repository calls `reset()`, and every later
  `serviceConnect` (HESsim.cpp 246) polls in vain until its tries run out.  The
  harness has the menu's own handler outstanding and does not stop.
* T while a name is being resolved or a connect goes on to the next endpoint
  destroys the socket with that operation outstanding: the comment at
  LinuxSocket.cpp 108 says that everything interrupted is in front of the posted
  removal (line 110), which is true of reads and writes only.
  `LoopEndsOnlyWithCause` says that without T nothing of the kind happens.
* Both menus ask their questions inside a handler (Linux.cpp 130, 159): a client or a
  server that is left at one hears nothing and answers nobody.  `OpenIsAnswered`
  excuses exactly that, on both sides.
* Only the first connection to a server is ever accepted (LinuxSocket.cpp 229): a
  second one is completed by the kernel and stays silent, and so does a second
  connection after the first was closed.  A second TCP engine cannot bind the port
  and stays without a socket, as only the trace says.
* A read that timed out leaves what it had received in `m_ReadBuffer`
  (LinuxSerial.cpp 318), in front of the next read's bytes; `BytesInStep` says when.
* A read's timeout cancels the port, the write that is outstanding included, and
  `ASIO_Write_Handler` reports the abort as a disconnection (LinuxSerial.cpp 145)
  of a port that stays open.
* `RemainingTime` returns the tick count minus the end (LinuxSimpleTimer.cpp 121),
  the negative, as an unsigned number, of what its name says.
* A timer whose end wraps expires at the first question, and one that falls due just
  before the wrap may be missed and runs for another 2^32 milliseconds
  (LinuxSimpleTimer.cpp 99, 109).
* The three attributes of Disconnect are all declared with number 2
  (LinuxDisconnect.h 117-119), and a get of any of them reads `m_Values[10]`
  (LinuxDisconnect.cpp 142), the eleventh of ten elements: value group E of the
  object's name is 10.  Sets are kept from it by their types only
  (`NothingBehindTheArray`).
* The method IMAGE_VERIFY is declared with the short name of another method, 0x40
  (LinuxImageTransfer.h 134).

### Bounds

*Head end.*  Two sessions suffice for one to be abandoned and its leftover to
complete during the other; the third, in `headend_two_meters`, meets the
consequences at the meter.  Two tries distinguish "again" from "give up" in both
loops; more only add turns.  Two endpoints are enough for one connect that is tried
again and one that is not.  Two meters are needed only for the order across meters;
they are symmetric, and only invariants are checked under that symmetry.  A socket
has at most one outstanding operation, so the queue needs no bound of its own.

*Service.*  Two requests show what the first leaves behind for the second.  The
ten requests are what `CISsim` sends and what the schema allows besides: two
controls, mixed and unknown references, several end devices or none, a meter under
two names, a name beyond the table, nothing at all.

*CIS.*  Five ticks per period and a head start of one leave room for every order of
call, answer and waking; 26 ticks are five periods.  The proof is for
every horizon.

*Serial.*  A stale timer needs three reads: the expired one, its successor and a
witness.  One write is enough to be cancelled by somebody else's timeout; two bytes
for one to stay behind.

*Timer.*  Eight tick counts and a gap of three leave ends on both sides of the wrap,
out of reach of it and within it; a timer is followed past a whole turn of the tick
count.  The proof is for every width.

*Harness.*  Four sockets allow two transports to be opened over one another on each
side of a confirmation.  Two sockets against a server are one that is accepted and
one that is not; two endpoints, one that is refused and one that is not.  Two
engines tell a device from its neighbour, and three requests are a set, another
that may be refused, and a get.  With one engine at most, the server of
`harness_session` may still be asked for a second one and be left at its question.  No
request comes over a line there, and the client's 2 to 4 are not selected.  A
connection breaks only until the client has hung up; after that nobody is there to
hear.  The two runs over `HarnessSession` divide its
behaviours between them: connections in the one, requests in the other, because the
two do not fit into one state space.

Deadlock is not checked: every process here may have nothing left to do, or has
ended.

### Fairness

*Head end:* weak fairness on its thread, which does nothing but run the two loops,
on the resolver and on the kernel's completion of each socket's operation, and on
each meter's process.  No fault and no further call is owed.  A process that has died
takes no step, and its kernel completes nothing.
*Service:* weak fairness on its thread; that a call returns is `SessionEnds` of
`HeadEnd`,
which holds unless a reset ends the process.  No client is owed.
*Serial:* the program polls its loop and time passes; the line may stay silent for
ever.
*Harness:* weak fairness of the kernels together, strong fairness of each process's
handlers.  The handlers are disabled while a menu's question is open, so weak fairness
would excuse them whenever somebody goes on making selections.  The code does better:
a menu is posted again at the end of its handler (Linux.cpp 637), behind the handlers
that are ready by then, and only that posted handler arms the next input (line 345);
asio calls handlers in the order in which they got ready, so between two selections
these run, however many selections there are.  Nobody has to type
anything, neither a selection nor the answer to a question: a question that stays
open for good disables the handlers for good, and strong fairness asks nothing of
them.  No peer on a line owes a request.
*Timer, pointers:* none; their properties are safety properties.
*CIS:* none; its properties are safety properties.

## Proofs

All theorems hold for every value of the constants that satisfies the assumptions
in the modules, which TLC evaluates in the runs.  Every safety and action property of
the passing runs is proved, and so is the refinement.

Each module of proofs begins with its inductive invariant, in named parts; then come
lemmas about the operators of the model (what is appended to a queue, taken from it,
cancelled), one lemma per action or group of actions, and the theorems.  TLC checked
every invariant before it was proved, in a module that extends the proofs: of the head
end with all faults (191,419 states with two sessions, 4.6 million with three) and with
two meters (1,217,139), of the service (25,364), of the serial socket with three reads
and two writes (1,977,652), of the harnesses with resets (422,256).

`TcpSocketProofs` holds what the operators of `TcpSocket` preserve: a handler taken
from the queue, an operation that completes or is interrupted, a release; and what
they do to the set of handlers that wait (`Queued`) and to their order.
`HeadEndProofs` and `HarnessSessionProofs` cite these lemmas.

`HeadEndProofs` (any set of meters, any number of sessions, tries and endpoints, any
set of faults):

* `TypeCorrect`: `Spec => []TypeOK`.  `TypeOK` is inductive because it includes
  that a call in progress has a socket and a request (`HesTypeOK`): without it the
  actions that update `asked[cur]` or send `req[cur].cmd` would leave the types.
  One lemma per group of actions.
* `FailedIsNotPerformed`: `Spec => []FailedNotPerformed`.  The property is not
  inductive.  `CommandInv` is: a call that asked has returned true, the call in
  progress has not asked, a stream carries a command only for a call that asked,
  and a meter performs only what was asked.  The only step that puts a command
  into a stream is the one that makes the call return true (`Command`), and a
  connection's stream is never given to another session.
* `CleanedUpBeforeRemoval`, `IsReleasedOnce`, `StoppedCommandsNobody`:
  `CleanupBeforeRemoval`, `ReleasedOnce` and `StoppedIsSilent`, all from `CleanupInv`.
  A socket has one operation outstanding or one handler waiting, never both, and only
  the removal may wait behind another handler, the one of the read that `Close`
  interrupted (`Ordered`).  What the handler at the head of the queue may find is
  `HandlerOK`; what an outstanding operation says of its socket is `OperationOK`.  The
  delicate part is the call that is abandoned: its socket is never released, so
  nothing but its own handlers may touch it (`SessionOK`).  A loop that stopped has no
  operation left, and a transport that is up always has a read outstanding or its
  handler waiting, so a call that has associated cannot find a stopped loop
  (`CallOK`).
* `IsPerformedInOrder`: `PerformedInOrder`, from `ConnectionInv`.  A socket is
  connected once, to the meter of its call (`JoinedOnce`).  Connections of failed
  calls may arrive late and out of turn, and carry no command; the others wait at a
  meter in the order of the calls, behind all it has performed (`InTurn`); a stream
  holds one command at most, the one that was requested, and not one that was
  performed (`OneCommand`).  It needs both invariants above.
* `CommandIsNotLost`: `CommandNotLost`, from `DeliveryInv`, which says how the engine
  can know of the association.  Until its call associates, a stream is empty or reset
  and nothing of an association travels (`BeforeCommand`); the AARE comes back only
  from the meter that serves the connection, has read all and keeps the association,
  and this stays so until the command is written (`Heard`, `Served`), unless the
  connection was reset.  A reset has many traces: the end of the stream still to be
  read, the error in the queue, the transport that is closed (`BrokenOff`).  Behind the
  command come Release and close; the meter takes segments off the front only, and the
  base library ends only at a FIN or RST in front (`AfterCommand`).
* `RelayImplemented`: `Spec => ImplementsRelay`.  The initial states map to initial
  states; under the invariants `Begin` and `BeginFails` map to `Accept`, the returns
  of a call to `Fail` or `Succeed`, a meter's execution to `Perform`, and every other
  step leaves the relay's variables alone.  That `Perform` is enabled in the mapped
  state is `InTurn` and `OneCommand`; that `Accept` comes in turn is that the calls
  are numbered as they are made.

`EndDeviceControlsProofs` (any names, any table of meters, any requests):

* `ServiceTypeCorrect`: `Spec => []TypeOK`, together with the types of
  `CommandRelay` and `RelayInv`: only a call that succeeded has sent something, and
  only what was sent is performed.
* `OkIsRelayed` and `FailedIsUntouched`: `OkMeansRelayed` and
  `FailedMeterUntouched`, from `ServiceInv`: the victims before the one the loop is
  at are settled, the one it is at is pending or untouched, those behind have no
  call, and no two share one.  Answers keep this because the outcome of a call that
  has returned does not change; `FailedMeterUntouched` also needs `RelayInv`,
  because a meter may perform after the answer.
* `IsOnlyAskedFor` and `OkIsForAllControls`: `OnlyAskedFor` and `OkCoversControls`,
  from `ControlsInv`, which follows the two loops: what is left of the request is its
  end, once a control has been read the flag is the command of a request for one, the
  names of the controls that were read are among the victims, and a victim that was
  called was called with the flag.
* `IsInOrderOfRequests`: `InOrderOfRequests` says that each meter performs what was
  asked for earlier, by an earlier request or device, before what was asked for later.
  `OrderInv` says why: the service opens its sessions in the order in which it goes
  through its victims.  TLC checked both with the invariants above, in no run of their
  own.
* `CommandsThroughRelay`: `Spec => RelaySpec`.  The steps of the service and of the
  meters are steps of the relay or leave its variables alone.  With `RelayImplemented`
  the service assumes nothing of `serviceConnect` that `HeadEnd` does not provide.

`CISsimProofs` (any period, any shorter head start, any service times):

* `TypeCorrect`: `Spec => []TypeOK`, with a timer that may also be late; no run checks
  it.  The two theorems below are for an exact timer.
* `TurnsHold` and `AlternatesForEver`: `Turns` is inductive and says which thread
  is next and why the other cannot be: it sleeps until a later time, or its call is
  behind.  The delicate case is a thread that is overdue when it gets its answer;
  then the other's call has only just begun to be served.

`SerialSocketProofs` (any number of reads, timed or not, and of writes):

* `TypeCorrect`, and `ReleaseLetsCleanUp`: `Spec => []ReleaseCleansUp`.  The
  inductive invariant is `CleanupInv`: the removal is posted once, nothing behind it
  in the queue is a read or write handler but of a bad descriptor, and a timer's
  handler that is queued for an expiry is one of `expired`.  The handlers of what
  `Close` cancels are queued before the removal is posted; a read or write that is
  started on the closed port fails with a bad descriptor, which a read's handler
  ignores and a write's does not.
* `IsReportedInOrder`, `TimeoutsAreAccountedFor` and `BytesStayInStep`:
  `ReportedInOrder`, `TimeoutsHaveExpiries` and `BytesInStep`, from `ReportsInv`, which
  is stated by kinds of handlers: in the queue there is at most one of a kind (`Once`)
  or none (`None`).  A read that has not ended is outstanding or has its one handler
  queued, and it is the last one started (`ReadsOK`); a timer expires once and is
  queued once (`TimersOK`).  A cancelled read or write on a port that is not released
  was cancelled by the handler of an expiry that is *spent*, out of the queue: so the
  aborts that were told, with the one that is still owed, are no more than the spent
  expiries (`ExpiriesOK`), which are cardinalities and need `FiniteSetTheorems`.
  While every read has ended with its data, the buffer holds bytes of the read in
  progress only (`BytesOK`).

`SimpleTimerProofs` (any width of the tick count, any gap below it, any durations):

* `TypeCorrect`; `InTime`: `Spec => []ReportedInTime`, and `NeverEarlyOtherwise`:
  `Spec => EarlyOnlyAcrossWrap`.  Both follow from `TimerInv`: as long as a running
  timer is not due, and for ever if its end is not close to the wrap, the end lies
  in this turn of the tick count or in the next; and who asked when it was due has
  been told.

`HarnessMenuProofs` (any number of sockets):

* `TypeCorrect`; `SocketsLive`: `Spec => []PointersLive`, and `ConfirmsOwnOrLater`:
  `Spec => ConfirmReleasesOwnOrLater`.  The inductive invariant is `MenuInv`.  A
  removal that will find its socket in its list was posted for a pointer that was
  then cleared; the one case where the other pointer names the same socket, a serial
  one that T releases, posts its removal to the wrong list.  The serial pointer moves
  on with every serial socket, and is therefore never older than a link.

`HarnessSessionProofs` (any number of sockets, endpoints and engines, any faults; any
requests, as long as each is a get, a set or an action, which `ServerMenu` assumes):

* `SessionTypeCorrect`: `SessionSpec => []SessionTypeOK`, for the whole session: what
  an engine's objects hold is a string somebody may have set or the constructor did.
* `RemovedOnce`: `OneRemoval`, from `RemovalInv`: a posted removal is the only one of
  its socket, which is listed and is not what `m_pSocket` points to.
* `FirstServed`: `OnlyFirstIsServed`, from `FirstInv`.  The accept is outstanding only
  while there is no accepted connection (`AcceptInv`), and nothing but its end travels
  to the client on a connection that is not the accepted one (`ConfirmedInv`), so that
  no other engine of the client can become open.
* `LoopEnds`: `LoopEndsOnlyWithCause`, from `ConnectInv`: a connect is outstanding only
  on a socket that its resolver's handler has opened, and only a release closes it
  before the connect's handler is called; what is left to make that handler throw is
  the peer's reset.  The theorem assumes `OtherWork`, the input that the menu always
  has pending; without it the loop may run out of work.
* `NothingBehind`: `NothingBehindTheArray`: the schemas of the only instance numbered
  ten admit no string, and nothing but a string is stored.
* `LatestIsRead`: `ReadsLatestSet`.  The property is about the answers in the log;
  `KeptInv` says the same of what the objects hold, and is inductive, because one
  request changes one value of one engine's device.

Only model-checked: liveness (`SessionEnds`, `AskedIsPerformed`, `MeterIsFreed`,
`EveryRequestAnswered`, `TimedReadEnds`, `ReleasedIsRemoved` of the serial socket and of
the harness, `OpenIsAnswered`), which is out of the prover's reach.  The properties of
the three runs that expect a violation are false and have no theorem.

## Not modelled, and planned

Not modelled, and why:

* tracing, memory, core and scheduler shells, which have no behaviour to check, and
  the semaphore, which nobody uses;
* the stand-alone SOAP examples, generated code, schemas and packaging;
* in `CISsim`, `run_server` and the handlers of the service it would run: nothing
  calls them;
* the blocking read and write of a serial socket, and the blocking read and the
  asynchronous write of a TCP socket: no caller in the repository makes them.  (The
  blocking serial read arms a timer for which nothing waits, LinuxSerial.cpp 295,
  and does not return on a silent line.);
* the two threads of the CIS that draw their identifiers from one generator
  (UUID.cpp 10): a data race whose outcome nothing reads;
* what the DLMS/COSEM library does inside: its transports, dispatch and encoding;
* the wording of messages, identifiers of requests, options of serial ports.

Planned, in this order:

1. *The safety cores of the remaining liveness properties*, as `CommandNotLost` is that
   of `AskedIsPerformed`: what keeps the timer of a timed read armed until the read has
   ended (`TimedReadEnds`); that an accepted engine's AARQ, or its answer, is on its way
   until the client's engine is open (`OpenIsAnswered`); that a posted removal stays in
   the queue until it is called (`ReleasedIsRemoved`).
2. *Two engines over one serial port* (Linux.cpp 709): both read what arrives.  The
   model has them one after the other.
