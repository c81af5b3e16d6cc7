------------------------- MODULE EndDeviceControls --------------------------
(***************************************************************************)
(* The SOAP service of the head end (HESsim.cpp): one request after the    *)
(* other, each turned into calls of serviceConnect, one per named device.  *)
(* What a call does is CommandRelay's, which HeadEnd implements.           *)
(***************************************************************************)
EXTENDS CommandRelay

CONSTANTS
    Names,         \* the device names a request may hold
    Url,           \* the meter a name leads to, or NoUrl
    Requests,      \* the requests of a run: sequences of controls
    MaxRequests    \* how many requests a behaviour may answer

NoUrl == "none"

(* A control names its action by a reference, of which two are recognised, *)
(* and its devices as a list of EndDevices with a list of names each.      *)
Controls == [ref : Commands \cup {"other"}, devices : Seq(Seq(Names))]

ASSUME UrlAssumption == Url \in [Names -> Meters \cup {NoUrl}]
ASSUME RequestsAssumption == Requests \subseteq Seq(Controls)
ASSUME MaxRequestsAssumption == MaxRequests \in Nat

VARIABLES
    phase,      \* "listening", or the loop of CreateEndDeviceControls
    message,    \* the request being served
    todo,       \* its controls that are still to be read
    reconnect,  \* the flag, as the command it stands for
    victims,    \* the devices found so far
    next,       \* the victim the sending loop is at
    answers     \* history: every answered request

serviceVars == <<phase, message, todo, reconnect, victims, next, answers>>
vars == <<relayVars, serviceVars>>

(* A Device; sess is a history variable, the session that was tried.       *)
Devices == [name : Names, sess : Sockets \cup {NoSocket}, failed : BOOLEAN]
Device(name) == [name |-> name, sess |-> NoSocket, failed |-> TRUE]

Answers == [message : Requests \cup {<<>>}, victims : Seq(Devices),
            result : {"OK", "FAILED"}]

ServiceTypeOK ==
    /\ phase \in {"listening", "reading", "sending", "calling"}
    /\ message \in Requests \cup {<<>>}
    /\ todo \in Seq(Controls)
    /\ reconnect \in Commands
    /\ victims \in Seq(Devices)
    /\ next \in Nat \ {0}
    /\ phase = "calling" => next \in 1..Len(victims) /\ victims[next].sess \in Sockets
    /\ answers \in Seq(Answers)

Init ==
    /\ RelayInit
    /\ phase = "listening"
    /\ message = <<>>
    /\ todo = <<>>
    /\ reconnect = "disconnect"
    /\ victims = <<>>
    /\ next = 1
    /\ answers = <<>>

-----------------------------------------------------------------------------
(* What CISsim sends: one control with one end device, which has all the   *)
(* names.                                                                  *)
connectCreateRequest(ref, meters) == <<[ref |-> ref, devices |-> <<meters>>]>>

CreateEndDeviceControls(r) ==
    /\ phase = "listening"
    /\ Len(answers) < MaxRequests
    /\ phase' = "reading"
    /\ message' = r
    /\ todo' = r
    /\ reconnect' = "disconnect"
    /\ victims' = <<>>
    /\ next' = 1
    /\ UNCHANGED <<relayVars, answers>>

(* The names of EndDevices.front(), if there is one.                       *)
FrontNames(control) ==
    IF control.devices = <<>> THEN <<>> ELSE Head(control.devices)

Recognise_Swapped(control) ==       \* mutant: the two references exchanged
    IF control.ref \in Commands
    THEN CHOOSE c \in Commands : c # control.ref
    ELSE reconnect

(* The flag the source keeps across the controls of a request.             *)
Recognise(control) ==
    IF control.ref \in Commands THEN control.ref ELSE reconnect

ReadControl_Overwrites ==           \* mutant: each control starts a new list
    /\ phase = "reading"
    /\ todo # <<>>
    /\ LET names == FrontNames(Head(todo)) IN
       victims' = [i \in 1..Len(names) |-> Device(names[i])]
    /\ reconnect' = Recognise(Head(todo))
    /\ todo' = Tail(todo)
    /\ UNCHANGED <<relayVars, phase, message, next, answers>>

(* One turn of the loops over the payload.                                 *)
ReadControl ==
    /\ phase = "reading"
    /\ todo # <<>>
    /\ LET names == FrontNames(Head(todo)) IN
       victims' = victims \o [i \in 1..Len(names) |-> Device(names[i])]
    /\ reconnect' = Recognise(Head(todo))
    /\ todo' = Tail(todo)
    /\ UNCHANGED <<relayVars, phase, message, next, answers>>

ReadAll ==
    /\ phase = "reading"
    /\ todo = <<>>
    /\ phase' = "sending"
    /\ UNCHANGED <<relayVars, message, todo, reconnect, victims, next, answers>>

SkipUnknown_Stays ==                \* mutant: the loop does not go on
    /\ phase = "sending"
    /\ next <= Len(victims)
    /\ Url[victims[next].name] = NoUrl
    /\ UNCHANGED vars

(* A name that leads to no meter is left out, and keeps its failed flag.   *)
SkipUnknown ==
    /\ phase = "sending"
    /\ next <= Len(victims)
    /\ Url[victims[next].name] = NoUrl
    /\ next' = next + 1
    /\ UNCHANGED <<relayVars, phase, message, todo, reconnect, victims, answers>>

(* serviceConnect is called and does not return at once.                   *)
CallBegins(s) ==
    /\ phase = "sending"
    /\ next <= Len(victims)
    /\ Url[victims[next].name] # NoUrl
    /\ Accept(s, [meter |-> Url[victims[next].name], cmd |-> reconnect], "pending")
    /\ victims' = [victims EXCEPT ![next].sess = s]
    /\ phase' = "calling"
    /\ UNCHANGED <<message, todo, reconnect, next, answers>>

(* serviceConnect cannot initiate the connect.                             *)
CallFails(s) ==
    /\ phase = "sending"
    /\ next <= Len(victims)
    /\ Url[victims[next].name] # NoUrl
    /\ Accept(s, [meter |-> Url[victims[next].name], cmd |-> reconnect], "failed")
    /\ victims' = [victims EXCEPT ![next].sess = s]
    /\ next' = next + 1
    /\ UNCHANGED <<phase, message, todo, reconnect, answers>>

HasFailed_Inverted(s) == outcome'[s] = "ok"   \* mutant: the negation is lost

(* meter.failed = !success                                                 *)
HasFailed(s) == outcome'[s] # "ok"

CallReturns_StaysInCall(s) ==       \* mutant: the loop's state is not reset
    /\ phase = "calling"
    /\ s = victims[next].sess
    /\ Fail(s) \/ Succeed(s)
    /\ victims' = [victims EXCEPT ![next].failed = HasFailed(s)]
    /\ next' = next + 1
    /\ UNCHANGED <<phase, message, todo, reconnect, answers>>

CallReturns(s) ==
    /\ phase = "calling"
    /\ s = victims[next].sess
    /\ Fail(s) \/ Succeed(s)
    /\ victims' = [victims EXCEPT ![next].failed = HasFailed(s)]
    /\ next' = next + 1
    /\ phase' = "sending"
    /\ UNCHANGED <<message, todo, reconnect, answers>>

Result_AnyOf ==                     \* mutant: one success is enough
    IF victims = <<>> \/ \E i \in 1..Len(victims) : ~victims[i].failed
    THEN "OK" ELSE "FAILED"

Result ==
    IF \A i \in 1..Len(victims) : ~victims[i].failed THEN "OK" ELSE "FAILED"

Respond ==
    /\ phase = "sending"
    /\ next > Len(victims)
    /\ answers' = Append(answers, [message |-> message, victims |-> victims,
                                   result |-> Result])
    /\ phase' = "listening"
    /\ UNCHANGED <<relayVars, message, todo, reconnect, victims, next>>

(* Change, Cancel, Close and Delete answer OK and do not read the payload. *)
OtherOperation ==
    /\ phase = "listening"
    /\ Len(answers) < MaxRequests
    /\ answers' = Append(answers, [message |-> <<>>, victims |-> <<>>, result |-> "OK"])
    /\ UNCHANGED <<relayVars, phase, message, todo, reconnect, victims, next>>

(* The meters go on by themselves.                                         *)
MeterPerforms(s) ==
    /\ Perform(s)
    /\ UNCHANGED serviceVars

Serve ==
    \/ ReadControl \/ ReadAll
    \/ SkipUnknown
    \/ \E s \in Sockets : CallBegins(s) \/ CallFails(s) \/ CallReturns(s)
    \/ Respond

Next ==
    \/ \E r \in Requests : CreateEndDeviceControls(r)
    \/ OtherOperation
    \/ Serve
    \/ \E s \in Sockets : MeterPerforms(s)

Spec == Init /\ [][Next]_vars

(* The service's thread runs; that serviceConnect returns is SessionEnds   *)
(* of HeadEnd.  No client is owed and no meter.                            *)
FairSpec == Spec /\ WF_vars(Serve)

-----------------------------------------------------------------------------
(* Properties.                                                             *)

TypeOK == ServiceTypeOK

PerformedBy(s) == \E m \in Meters : \E i \in 1..Len(performed[m]) : performed[m][i].sess = s

(* OK is said only when every device the service found leads to a meter    *)
(* and had a call of its own to that meter that returned true.             *)
OkMeansRelayed ==
    \A a \in 1..Len(answers) : answers[a].result = "OK" =>
        \A i \in 1..Len(answers[a].victims) :
            LET v == answers[a].victims[i] IN
            /\ v.sess \in Sockets
            /\ outcome[v.sess] = "ok"
            /\ request[v.sess].meter = Url[v.name]
            /\ \A j \in 1..(i - 1) : answers[a].victims[j].sess # v.sess

(* A device reported as failed is not operated by the call made for it,    *)
(* neither before the answer nor after it.                                 *)
FailedMeterUntouched ==
    \A a \in 1..Len(answers) : \A i \in 1..Len(answers[a].victims) :
        LET v == answers[a].victims[i] IN v.failed => ~PerformedBy(v.sess)

(* Every request is answered, whichever of its devices fail, as long as    *)
(* each call of serviceConnect returns: it does unless the process ends    *)
(* (SessionEnds of HeadEnd).                                               *)
EveryRequestAnswered == phase = "reading" ~> phase = "listening"

(* A request asks for one command when every control refers to it.  (The   *)
(* source keeps one flag for the whole request: with two commands the last *)
(* recognised reference decides for all devices.)                          *)
AsksFor(m, cmd) == \A c \in 1..Len(m) : m[c].ref = cmd

(* A request for one command has no device called with the other one,      *)
(* whatever was requested before it.                                       *)
OnlyAskedFor ==
    \A a \in 1..Len(answers), cmd \in Commands :
        LET found == answers[a].victims IN
        AsksFor(answers[a].message, cmd) => \A i \in 1..Len(found) :
            found[i].sess # NoSocket => request[found[i].sess].cmd = cmd

(* OK covers every name in the first end device of every control, however  *)
(* many controls there are.  (Further end devices are not read.)           *)
OkCoversControls ==
    \A a \in 1..Len(answers) : answers[a].result = "OK" =>
        \A c \in 1..Len(answers[a].message) :
            LET names == FrontNames(answers[a].message[c]) IN
            \A n \in 1..Len(names) :
                \E i \in 1..Len(answers[a].victims) :
                    LET v == answers[a].victims[i] IN
                    v.name = names[n] /\ v.sess # NoSocket /\ outcome[v.sess] = "ok"

(* The meters follow the requests: what was asked for earlier, by an       *)
(* earlier request or an earlier device of the same one, is not performed  *)
(* after what was asked for later.                                         *)
InOrderOfRequests ==
    \A a, b \in 1..Len(answers), m \in Meters :
        \A i \in 1..Len(answers[a].victims), j \in 1..Len(answers[b].victims),
           k, l \in 1..Len(performed[m]) :
            /\ a < b \/ (a = b /\ i < j)
            /\ answers[a].victims[i].sess = performed[m][k].sess
            /\ answers[b].victims[j].sess = performed[m][l].sess
            => k < l
=============================================================================
