---------------------- MODULE EndDeviceControlsProofs -----------------------
(***************************************************************************)
(* Theorems about EndDeviceControls, for every set of names and meters,    *)
(* every set of requests the schema allows and every number of them.       *)
(***************************************************************************)
EXTENDS EndDeviceControls, SequenceTheorems, TLAPS

-----------------------------------------------------------------------------
(* The inductive invariant, in parts.                                      *)

(* For OkMeansRelayed and FailedMeterUntouched: the victims before the one *)
(* the loop is at are settled: a failed one has no call or one that        *)
(* failed, another has one that succeeded; the call of the one it is at is *)
(* pending, the ones behind have none; and no two victims share a call.    *)
(* Answers keep all this, because the outcome of a call that returned does *)
(* not change. With the types and RelayInv inductive.                      *)
Settled(v, outs, reqs) ==
    IF v.failed THEN v.sess = NoSocket \/ outs[v.sess] = "failed"
    ELSE v.sess \in Sockets /\ outs[v.sess] = "ok" /\ reqs[v.sess].meter = Url[v.name]

Pending(v, outs, reqs) ==
    v.failed /\ outs[v.sess] = "pending" /\ reqs[v.sess].meter = Url[v.name]

Distinct(list) ==
    \A i, j \in 1..Len(list) :
        j < i /\ list[i].sess # NoSocket => list[j].sess # list[i].sess

VictimsOK(list, n, inCall, outs, reqs) ==
    /\ Distinct(list)
    /\ \A i \in 1..Len(list) :
        /\ i < n => Settled(list[i], outs, reqs)
        /\ i = n /\ inCall => Pending(list[i], outs, reqs)
        /\ i > n \/ (i = n /\ ~inCall) => list[i].failed /\ list[i].sess = NoSocket

AnswerOK(a, outs, reqs) ==
    /\ Distinct(a.victims)
    /\ \A i \in 1..Len(a.victims) :
        /\ Settled(a.victims[i], outs, reqs)
        /\ a.result = "OK" => ~a.victims[i].failed

ServiceInv ==
    /\ VictimsOK(victims, next, phase = "calling", outcome, request)
    /\ phase = "reading" => next = 1
    /\ \A a \in 1..Len(answers) : AnswerOK(answers[a], outcome, request)

(* For OnlyAskedFor and OkCoversControls: what is left of a request is its *)
(* end; once a control is read the flag is the command of a request for    *)
(* one; the front names of the controls read are among the victims, and a  *)
(* victim with a call had it made with the flag. With ServiceInv           *)
(* inductive.                                                              *)
Read == Len(message) - Len(todo)

Covers(list, m, count) ==
    \A c \in 1..count :
        LET names == FrontNames(m[c]) IN
        \A n \in 1..Len(names) : \E i \in 1..Len(list) : list[i].name = names[n]

CalledFor(list, m, reqs) ==
    \A cmd \in Commands : AsksFor(m, cmd) =>
        \A i \in 1..Len(list) : list[i].sess # NoSocket => reqs[list[i].sess].cmd = cmd

ReadingOK ==
    /\ Len(todo) <= Len(message)
    /\ \A i \in 1..Len(todo) : todo[i] = message[Read + i]
    /\ phase # "reading" => todo = <<>>
    /\ Read = 0 => victims = <<>>
    /\ \A cmd \in Commands : AsksFor(message, cmd) /\ Read > 0 => reconnect = cmd

ControlsInv ==
    /\ phase # "listening" =>
          ReadingOK /\ Covers(victims, message, Read) /\ CalledFor(victims, message, request)
    /\ \A a \in 1..Len(answers) :
          LET done == answers[a] IN
          /\ Covers(done.victims, done.message, Len(done.message))
          /\ CalledFor(done.victims, done.message, request)

(* For InOrderOfRequests: sessions are opened in the order of the calls,   *)
(* and each meter performs what they asked for in the order of the         *)
(* sessions. With ServiceInv inductive.                                    *)
Below(v, w) == v.sess # NoSocket /\ w.sess # NoSocket => v.sess < w.sess

Rising(list) == \A i, j \in 1..Len(list) : i < j => Below(list[i], list[j])

Before(list1, list2) ==
    \A i \in 1..Len(list1), j \in 1..Len(list2) : Below(list1[i], list2[j])

OrderInv ==
    /\ \A s, t \in Sockets : t < s /\ outcome[s] # "none" => outcome[t] # "none"
    /\ \A m \in Meters : \A k, l \in 1..Len(performed[m]) :
          k < l => performed[m][k].sess < performed[m][l].sess
    /\ phase # "listening" =>
          Rising(victims) /\ \A a \in 1..Len(answers) : Before(answers[a].victims, victims)
    /\ \A a \in 1..Len(answers) :
          /\ Rising(answers[a].victims)
          /\ \A b \in 1..Len(answers) :
                a < b => Before(answers[a].victims, answers[b].victims)

-----------------------------------------------------------------------------
(* The calls.                                                              *)

CallInv == RelayTypeOK /\ RelayInv

(* What a step never changes about a call that was made.                   *)
KeepsIn(outs, reqs, outs2, reqs2) ==
    \A s \in Sockets :
        outs[s] # "none" => /\ outs2[s] # "none"
                            /\ reqs2[s] = reqs[s]
                            /\ outs[s] # "pending" => outs2[s] = outs[s]

Keeps == KeepsIn(outcome, request, outcome', request')

LEMMA RelayInitInv == RelayInit => CallInv
<1> SUFFICES ASSUME RelayInit PROVE CallInv OBVIOUS
<1>1. \A m \in Meters : performed[m] \in Seq([sess : Sockets, cmd : Commands])
                        /\ Len(performed[m]) = 0
  BY EmptySeq DEF RelayInit
<1>2. performed \in [Meters -> Seq([sess : Sockets, cmd : Commands])]
  BY <1>1 DEF RelayInit
<1>3. RelayTypeOK BY <1>2 DEF RelayInit, RelayTypeOK
<1>4. QED BY <1>1, <1>3 DEF RelayInit, CallInv, RelayInv

LEMMA AcceptInv ==
    ASSUME CallInv, NEW s \in Sockets, NEW w \in Wanted,
           NEW now \in {"pending", "failed"}, Accept(s, w, now)
    PROVE  CallInv' /\ Keeps /\ outcome[s] = "none" /\ outcome'[s] = now /\ request'[s] = w
           /\ \A t \in Sockets : t # s => outcome'[t] = outcome[t] /\ request'[t] = request[t]
<1>1. RelayTypeOK /\ RelayInv BY DEF CallInv
<1>2. /\ outcome[s] = "none" /\ request' = [request EXCEPT ![s] = w]
      /\ outcome' = [outcome EXCEPT ![s] = now] /\ UNCHANGED <<sent, performed>>
  BY DEF Accept
<1>3. s \notin sent BY <1>1, <1>2 DEF RelayInv
<1>4. RelayTypeOK' BY <1>1, <1>2 DEF RelayTypeOK
<1>5. RelayInv' BY <1>1, <1>2, <1>3 DEF RelayInv, RelayTypeOK
<1>6. QED BY <1>1, <1>2, <1>4, <1>5 DEF CallInv, Keeps, KeepsIn, RelayTypeOK

LEMMA ReturnInv ==
    ASSUME CallInv, NEW s \in Sockets, Fail(s) \/ Succeed(s)
    PROVE  CallInv' /\ Keeps /\ outcome'[s] \in {"failed", "ok"} /\ request' = request
           /\ \A t \in Sockets : t # s => outcome'[t] = outcome[t]
<1>1. RelayTypeOK /\ RelayInv BY DEF CallInv
<1>2. PICK o \in {"failed", "ok"} :
        /\ outcome[s] = "pending" /\ outcome' = [outcome EXCEPT ![s] = o]
        /\ sent' = sent \/ (sent' = sent \cup {s} /\ o = "ok")
        /\ UNCHANGED <<request, performed>>
  BY DEF Fail, Succeed
<1>3. s \notin sent BY <1>1, <1>2 DEF RelayInv
<1>4. RelayTypeOK' BY <1>1, <1>2 DEF RelayTypeOK
<1>5. RelayInv' BY <1>1, <1>2, <1>3 DEF RelayInv, RelayTypeOK
<1>6. QED BY <1>1, <1>2, <1>4, <1>5 DEF CallInv, Keeps, KeepsIn, RelayTypeOK

LEMMA PerformInv ==
    ASSUME CallInv, NEW s \in Sockets, Perform(s)
    PROVE  CallInv' /\ UNCHANGED <<request, outcome>>
<1> DEFINE m == request[s].meter
           e == [sess |-> s, cmd |-> request[s].cmd]
           E == [sess : Sockets, cmd : Commands]
<1>1. RelayTypeOK /\ RelayInv BY DEF CallInv
<1>2. /\ s \in sent /\ UNCHANGED <<request, outcome, sent>>
      /\ performed' = [performed EXCEPT ![m] = Append(@, e)]
  BY DEF Perform
<1>3. request[s] \in Wanted BY <1>1, <1>2 DEF RelayInv
<1>4. m \in Meters /\ e \in E BY <1>3 DEF Wanted
<1>5. performed \in [Meters -> Seq(E)] BY <1>1 DEF RelayTypeOK
<1>6. e.sess = s OBVIOUS
<1> HIDE DEF m, e, E
<1>7. performed[m] \in Seq(E) BY <1>4, <1>5
<1> DEFINE p == Append(performed[m], e)
<1>8. p \in Seq(E) /\ Len(p) = Len(performed[m]) + 1 BY <1>4, <1>7, AppendProperties
<1>9. \A i \in 1..Len(performed[m]) : p[i] = performed[m][i] BY <1>4, <1>7, AppendProperties
<1>10. p[Len(performed[m]) + 1] = e BY <1>4, <1>7, AppendProperties
<1>11. Len(performed[m]) \in Nat BY <1>7, LenProperties
<1>12. performed' = [performed EXCEPT ![m] = p] BY <1>2
<1> HIDE DEF p
<1>13. RelayTypeOK'
  <2>1. performed' \in [Meters -> Seq(E)] BY <1>5, <1>8, <1>12
  <2>2. QED BY <1>1, <1>2, <2>1 DEF RelayTypeOK, E
<1>14. ASSUME NEW n \in Meters, NEW i \in 1..Len(performed'[n])
       PROVE  performed'[n][i].sess \in sent
  <2>1. CASE n = m
    <3>1. performed'[n] = p BY <1>4, <1>5, <1>12, <2>1
    <3>2. CASE i = Len(performed[m]) + 1 BY <1>2, <1>6, <1>10, <3>1, <3>2
    <3>3. CASE i \in 1..Len(performed[m]) BY <1>1, <1>4, <1>9, <3>1, <3>3 DEF RelayInv
    <3>4. QED BY <1>8, <1>11, <3>1, <3>2, <3>3
  <2>2. CASE n # m BY <1>1, <1>5, <1>12, <1>14, <2>2 DEF RelayInv
  <2>3. QED BY <2>1, <2>2
<1>15. RelayInv' BY <1>1, <1>2, <1>14 DEF RelayInv
<1>16. QED BY <1>2, <1>13, <1>15 DEF CallInv

-----------------------------------------------------------------------------
(* The service's data.                                                     *)

LEMMA Recognised ==
    ASSUME NEW control \in Controls, reconnect \in Commands
    PROVE  Recognise(control) \in Commands /\ FrontNames(control) \in Seq(Names)
<1>1. control.devices \in Seq(Seq(Names)) BY DEF Controls
<1>2. CASE control.devices = <<>>
  BY <1>2, EmptySeq DEF FrontNames, Recognise
<1>3. CASE control.devices # <<>>
  BY <1>1, <1>3, HeadTailProperties DEF FrontNames, Recognise
<1>4. QED BY <1>2, <1>3

(* The new victims have no call yet.                                       *)
LEMMA NewVictims ==
    ASSUME NEW names \in Seq(Names)
    PROVE  /\ [i \in 1..Len(names) |-> Device(names[i])] \in Seq(Devices)
           /\ Len([i \in 1..Len(names) |-> Device(names[i])]) = Len(names)
<1>1. Len(names) \in Nat BY LenProperties
<1>2. \A i \in 1..Len(names) : names[i] \in Names BY ElementOfSeq
<1>3. \A i \in 1..Len(names) : Device(names[i]) \in Devices BY <1>2 DEF Device, Devices
<1> DEFINE f == [i \in 1..Len(names) |-> Device(names[i])]
<1>4. f \in [1..Len(names) -> Devices] BY <1>3
<1> HIDE DEF f
<1>5. f \in Seq(Devices) BY <1>1, <1>4
<1>6. Len(f) = Len(names) BY <1>1, <1>4, <1>5, LenProperties
<1>7. QED BY <1>5, <1>6 DEF f

(* What was settled stays settled.                                         *)
LEMMA SettledStays ==
    ASSUME NEW v \in Devices, NEW outs, NEW reqs, NEW outs2, NEW reqs2,
           KeepsIn(outs, reqs, outs2, reqs2), Settled(v, outs, reqs)
    PROVE  Settled(v, outs2, reqs2)
BY DEF Devices, KeepsIn, Settled

LEMMA AnswersStay ==
    ASSUME NEW a \in Answers, NEW outs, NEW reqs, NEW outs2, NEW reqs2,
           KeepsIn(outs, reqs, outs2, reqs2), AnswerOK(a, outs, reqs)
    PROVE  AnswerOK(a, outs2, reqs2)
<1>1. a.victims \in Seq(Devices) BY DEF Answers
<1>2. \A i \in 1..Len(a.victims) : a.victims[i] \in Devices BY <1>1, ElementOfSeq
<1>3. QED BY <1>2, SettledStays DEF AnswerOK


LEMMA Updated ==
    ASSUME NEW list \in Seq(Devices), NEW n \in 1..Len(list), NEW v \in Devices
    PROVE  /\ [list EXCEPT ![n] = v] \in Seq(Devices)
           /\ Len([list EXCEPT ![n] = v]) = Len(list)
           /\ [list EXCEPT ![n] = v][n] = v
           /\ \A i \in 1..Len(list) : i # n => [list EXCEPT ![n] = v][i] = list[i]
BY ExceptSeq

(* A victim is given a call of its own.                                    *)
LEMMA GivenCall ==
    ASSUME NEW list \in Seq(Devices), NEW n \in 1..Len(list), NEW s \in Sockets,
           NEW outs, NEW reqs, NEW outs2, NEW reqs2,
           VictimsOK(list, n, FALSE, outs, reqs), KeepsIn(outs, reqs, outs2, reqs2),
           outs[s] = "none", outs2[s] \in {"pending", "failed"},
           reqs2[s].meter = Url[list[n].name]
    PROVE  LET list2 == [list EXCEPT ![n].sess = s] IN
           /\ list2 \in Seq(Devices) /\ Len(list2) = Len(list) /\ list2[n].sess = s
           /\ IF outs2[s] = "pending" THEN VictimsOK(list2, n, TRUE, outs2, reqs2)
              ELSE VictimsOK(list2, n + 1, FALSE, outs2, reqs2)
<1> DEFINE v == [list[n] EXCEPT !.sess = s]
           list2 == [list EXCEPT ![n] = v]
<1>1. list[n] \in Devices BY ElementOfSeq
<1>2. /\ v \in Devices /\ v.sess = s /\ v.name = list[n].name /\ v.failed = list[n].failed
      /\ list[n].failed /\ list[n].sess = NoSocket
  <2>1. v.sess = s /\ v.name = list[n].name /\ v.failed = list[n].failed
    BY <1>1 DEF Devices
  <2>2. v \in Devices BY <1>1 DEF Devices
  <2>3. Len(list) \in Nat /\ n \in Nat BY LenProperties
  <2>4. list[n].failed /\ list[n].sess = NoSocket BY <2>3 DEF VictimsOK
  <2>5. QED BY <2>1, <2>2, <2>4
<1>3. list2 = [list EXCEPT ![n].sess = s] OBVIOUS
<1> HIDE DEF v
<1>4. /\ list2 \in Seq(Devices) /\ Len(list2) = Len(list) /\ list2[n] = v
      /\ \A i \in 1..Len(list) : i # n => list2[i] = list[i]
  BY <1>2, Updated
<1> HIDE DEF list2
<1>5. ASSUME NEW i \in 1..Len(list), i # n PROVE list2[i].sess # s
  <2>1. i < n \/ i > n BY <1>5, LenProperties
  <2>2. s # NoSocket BY MaxSocketsAssumption DEF Sockets, NoSocket
  <2>3. CASE i > n BY <1>4, <1>5, <2>2, <2>3 DEF VictimsOK
  <2>4. CASE i < n
    <3>1. Settled(list[i], outs, reqs) BY <2>4 DEF VictimsOK
    <3>2. QED BY <1>4, <1>5, <2>2, <3>1 DEF Settled
  <2>5. QED BY <2>1, <2>3, <2>4
<1>6. Distinct(list2)
  <2>1. SUFFICES ASSUME NEW i \in 1..Len(list), NEW j \in 1..Len(list), j < i,
                        list2[i].sess # NoSocket
                 PROVE  list2[j].sess # list2[i].sess
    BY <1>4 DEF Distinct
  <2>2. CASE i = n BY <1>2, <1>4, <1>5, <2>1, <2>2
  <2>3. CASE i # n
    <3>1. list2[i] = list[i] BY <1>4, <2>3
    <3>2. CASE j = n BY <1>2, <1>4, <1>5, <2>3, <3>2
    <3>3. CASE j # n BY <1>4, <2>1, <3>1, <3>3 DEF VictimsOK, Distinct
    <3>4. QED BY <3>2, <3>3
  <2>4. QED BY <2>2, <2>3
<1>7. ASSUME NEW i \in 1..Len(list)
      PROVE  /\ i < n => Settled(list2[i], outs2, reqs2)
             /\ i > n => list2[i].failed /\ list2[i].sess = NoSocket
  <2>1. CASE i < n
    <3>1. i # n /\ Settled(list[i], outs, reqs) /\ list[i] \in Devices
      BY <2>1, LenProperties, ElementOfSeq DEF VictimsOK
    <3>2. QED BY <1>4, <2>1, <3>1, LenProperties, SettledStays
  <2>2. CASE i > n
    <3>1. i # n BY <2>2, LenProperties
    <3>2. QED BY <1>4, <2>2, <3>1, LenProperties DEF VictimsOK
  <2>3. QED BY <2>1, <2>2
<1>8. CASE outs2[s] = "pending"
  <2>1. Pending(list2[n], outs2, reqs2) BY <1>2, <1>4, <1>8 DEF Pending
  <2>2. VictimsOK(list2, n, TRUE, outs2, reqs2)
    BY <1>4, <1>6, <1>7, <2>1 DEF VictimsOK
  <2>3. QED BY <1>2, <1>3, <1>4, <1>8, <2>2
<1>9. CASE outs2[s] = "failed"
  <2>1. Settled(list2[n], outs2, reqs2) BY <1>2, <1>4, <1>9 DEF Settled
  <2>2. \A i \in 1..Len(list) : (i < n + 1 => i < n \/ i = n) /\ (i >= n + 1 => i > n)
    BY LenProperties
  <2>3. VictimsOK(list2, n + 1, FALSE, outs2, reqs2)
    BY <1>4, <1>6, <1>7, <2>1, <2>2 DEF VictimsOK
  <2>4. QED BY <1>2, <1>3, <1>4, <1>9, <2>3
<1>10. QED BY <1>8, <1>9


(* A victim's call returns.                                                *)
LEMMA CallReturned ==
    ASSUME NEW list \in Seq(Devices), NEW n \in 1..Len(list), NEW s \in Sockets,
           NEW outs, NEW reqs, NEW outs2, list[n].sess = s,
           VictimsOK(list, n, TRUE, outs, reqs), KeepsIn(outs, reqs, outs2, reqs),
           outs2[s] \in {"failed", "ok"},
           NEW f \in BOOLEAN, f <=> outs2[s] # "ok"
    PROVE  LET list2 == [list EXCEPT ![n].failed = f] IN
           /\ list2 \in Seq(Devices) /\ Len(list2) = Len(list)
           /\ VictimsOK(list2, n + 1, FALSE, outs2, reqs)
<1> DEFINE v == [list[n] EXCEPT !.failed = f]
           list2 == [list EXCEPT ![n] = v]
<1>1. list[n] \in Devices BY ElementOfSeq
<1>2. /\ v \in Devices /\ v.sess = s /\ v.name = list[n].name
      /\ (v.failed <=> outs2[s] # "ok") /\ v.failed \in BOOLEAN /\ reqs[s].meter = Url[list[n].name]
  <2>1. v.sess = s /\ v.name = list[n].name /\ (v.failed <=> outs2[s] # "ok") /\ v.failed \in BOOLEAN
    BY <1>1 DEF Devices
  <2>2. v \in Devices BY <1>1 DEF Devices
  <2>3. Len(list) \in Nat /\ n \in Nat BY LenProperties
  <2>4. Pending(list[n], outs, reqs) BY <2>3 DEF VictimsOK
  <2>5. QED BY <2>1, <2>2, <2>4 DEF Pending
<1>3. list2 = [list EXCEPT ![n].failed = f] OBVIOUS
<1> HIDE DEF v
<1>4. /\ list2 \in Seq(Devices) /\ Len(list2) = Len(list) /\ list2[n] = v
      /\ \A i \in 1..Len(list) : i # n => list2[i] = list[i]
  BY <1>2, Updated
<1> HIDE DEF list2
<1>5. \A i \in 1..Len(list) : list2[i].sess = list[i].sess BY <1>2, <1>4
<1>6. Distinct(list2) BY <1>4, <1>5 DEF VictimsOK, Distinct
<1>7. ASSUME NEW i \in 1..Len(list), i < n + 1 PROVE Settled(list2[i], outs2, reqs)
  <2>1. i < n \/ i = n BY <1>7, LenProperties
  <2>2. CASE i = n
    <3>1. ~v.failed <=> outs2[s] = "ok" BY <1>2
    <3>2. v.failed => outs2[s] = "failed" BY <1>2
    <3>3. Settled(v, outs2, reqs) BY <1>2, <3>1, <3>2 DEF Settled
    <3>4. QED BY <1>4, <2>2, <3>3
  <2>3. CASE i < n
    <3>1. i # n /\ Settled(list[i], outs, reqs) /\ list[i] \in Devices
      BY <2>3, LenProperties, ElementOfSeq DEF VictimsOK
    <3>2. QED BY <1>4, <3>1, SettledStays
  <2>4. QED BY <2>1, <2>2, <2>3
<1>8. ASSUME NEW i \in 1..Len(list), i >= n + 1
      PROVE  list2[i].failed /\ list2[i].sess = NoSocket
  <2>1. i > n /\ i # n BY <1>8, LenProperties
  <2>2. QED BY <1>4, <2>1 DEF VictimsOK
<1>9. n + 1 \in Nat /\ \A i \in 1..Len(list) : i > n + 1 \/ i = n + 1 => i >= n + 1
  BY LenProperties
<1>10. VictimsOK(list2, n + 1, FALSE, outs2, reqs)
  BY <1>4, <1>6, <1>7, <1>8, <1>9 DEF VictimsOK
<1>11. QED BY <1>3, <1>4, <1>10

(* A victim that leads to no meter is passed over.                         *)
LEMMA PassedOver ==
    ASSUME NEW list \in Seq(Devices), NEW n \in 1..Len(list), NEW outs, NEW reqs,
           VictimsOK(list, n, FALSE, outs, reqs)
    PROVE  VictimsOK(list, n + 1, FALSE, outs, reqs)
<1>1. \A i \in 1..Len(list) : /\ i < n + 1 => i < n \/ i = n
                              /\ i > n + 1 \/ i = n + 1 => i > n
  BY LenProperties
<1>2. list[n].failed /\ list[n].sess = NoSocket BY LenProperties DEF VictimsOK
<1>3. Settled(list[n], outs, reqs) BY <1>2 DEF Settled
<1>4. QED BY <1>1, <1>3 DEF VictimsOK

(* Victims found by another control come behind the ones before.           *)
LEMMA MoreVictims ==
    ASSUME NEW list \in Seq(Devices), NEW names \in Seq(Names), NEW outs, NEW reqs,
           VictimsOK(list, 1, FALSE, outs, reqs)
    PROVE  LET list2 == list \o [i \in 1..Len(names) |-> Device(names[i])] IN
           list2 \in Seq(Devices) /\ VictimsOK(list2, 1, FALSE, outs, reqs)
<1> DEFINE new == [i \in 1..Len(names) |-> Device(names[i])]
           list2 == list \o new
<1>1. new \in Seq(Devices) /\ Len(new) = Len(names) BY NewVictims
<1>2. \A i \in 1..Len(new) : new[i].failed /\ new[i].sess = NoSocket
  BY <1>1 DEF Device
<1> HIDE DEF new
<1>3. /\ list2 \in Seq(Devices) /\ Len(list2) = Len(list) + Len(new)
      /\ Len(list) \in Nat /\ Len(new) \in Nat
  BY <1>1, ConcatProperties, LenProperties
<1>4. \A i \in 1..(Len(list) + Len(new)) :
         list2[i] = IF i <= Len(list) THEN list[i] ELSE new[i - Len(list)]
  BY <1>1, ConcatProperties
<1> HIDE DEF list2
<1>5. ASSUME NEW i \in 1..Len(list2) PROVE list2[i].failed /\ list2[i].sess = NoSocket
  <2>1. CASE i <= Len(list)
    <3>1. list2[i] = list[i] /\ i \in 1..Len(list) BY <1>3, <1>4, <2>1
    <3>2. i > 1 \/ i = 1 BY <3>1, <1>3
    <3>3. QED BY <3>1, <3>2 DEF VictimsOK
  <2>2. CASE ~(i <= Len(list))
    <3>1. list2[i] = new[i - Len(list)] /\ i - Len(list) \in 1..Len(new)
      BY <1>3, <1>4, <2>2
    <3>2. QED BY <1>2, <3>1
  <2>3. QED BY <2>1, <2>2
<1>6. \A i \in 1..Len(list2) : ~(i < 1) BY <1>3
<1>7. VictimsOK(list2, 1, FALSE, outs, reqs) BY <1>5, <1>6 DEF VictimsOK, Distinct
<1>8. QED BY <1>3, <1>7 DEF list2, new

-----------------------------------------------------------------------------
(* The invariant.                                                          *)

Inv == ServiceTypeOK /\ CallInv /\ ServiceInv

LEMMA InitInv == Init => Inv
<1> SUFFICES ASSUME Init PROVE Inv OBVIOUS
<1>1. CallInv BY RelayInitInv DEF Init
<1>2. /\ todo \in Seq(Controls) /\ victims \in Seq(Devices) /\ answers \in Seq(Answers)
      /\ Len(victims) = 0 /\ Len(answers) = 0
  BY EmptySeq DEF Init
<1>3. /\ phase = "listening" /\ message = <<>> /\ reconnect = "disconnect" /\ next = 1
  BY DEF Init
<1>4. ServiceTypeOK BY <1>2, <1>3 DEF ServiceTypeOK, Commands
<1>5. ServiceInv BY <1>2, <1>3 DEF ServiceInv, VictimsOK, Distinct
<1>6. QED BY <1>1, <1>4, <1>5 DEF Inv

(* What the answers need from a step that adds none.                       *)
LEMMA AnswersKept ==
    ASSUME Inv, Keeps, answers' = answers
    PROVE  \A a \in 1..Len(answers') : AnswerOK(answers'[a], outcome', request')
<1>1. answers \in Seq(Answers) BY DEF Inv, ServiceTypeOK
<1>2. \A a \in 1..Len(answers) : answers[a] \in Answers BY <1>1, ElementOfSeq
<1>3. QED BY <1>2, AnswersStay DEF Inv, ServiceInv, Keeps

LEMMA SameKeeps ==
    ASSUME UNCHANGED <<request, outcome>>
    PROVE  Keeps
BY DEF Keeps, KeepsIn

LEMMA SameCalls ==
    ASSUME CallInv, UNCHANGED relayVars
    PROVE  CallInv' /\ Keeps
BY DEF CallInv, RelayTypeOK, RelayInv, relayVars, Keeps, KeepsIn

(* The request is taken, read, or answered.                                *)
LEMMA RequestInv ==
    ASSUME Inv, NEW r \in Requests, CreateEndDeviceControls(r)
    PROVE  Inv'
<1>1. /\ phase' = "reading" /\ message' = r /\ todo' = r /\ reconnect' = "disconnect"
      /\ victims' = <<>> /\ next' = 1 /\ UNCHANGED <<relayVars, answers>>
  BY DEF CreateEndDeviceControls
<1>2. CallInv' /\ Keeps BY <1>1, SameCalls DEF Inv
<1>3. victims' \in Seq(Devices) /\ Len(victims') = 0 BY <1>1, EmptySeq
<1>4. todo' \in Seq(Controls) BY <1>1, RequestsAssumption
<1>5. ServiceTypeOK' BY <1>1, <1>3, <1>4 DEF Inv, ServiceTypeOK, Commands
<1>6. VictimsOK(victims', next', phase' = "calling", outcome', request')
  BY <1>3 DEF VictimsOK, Distinct
<1>7. \A a \in 1..Len(answers') : AnswerOK(answers'[a], outcome', request')
  BY <1>1, <1>2, AnswersKept
<1>8. QED BY <1>1, <1>2, <1>5, <1>6, <1>7 DEF Inv, ServiceInv

LEMMA ReadInv ==
    ASSUME Inv, ReadControl
    PROVE  Inv'
<1> DEFINE control == Head(todo)
           names == FrontNames(control)
<1>1. /\ phase = "reading" /\ todo # <<>>
      /\ victims' = victims \o [i \in 1..Len(names) |-> Device(names[i])]
      /\ reconnect' = Recognise(control) /\ todo' = Tail(todo)
      /\ UNCHANGED <<relayVars, phase, message, next, answers>>
  BY DEF ReadControl
<1>2. CallInv' /\ Keeps BY <1>1, SameCalls DEF Inv
<1>3. /\ todo \in Seq(Controls) /\ reconnect \in Commands /\ victims \in Seq(Devices)
      /\ next = 1 /\ VictimsOK(victims, 1, FALSE, outcome, request)
  BY <1>1 DEF Inv, ServiceTypeOK, ServiceInv
<1>4. control \in Controls /\ todo' \in Seq(Controls) BY <1>1, <1>3, HeadTailProperties
<1> HIDE DEF control
<1>5. reconnect' \in Commands /\ names \in Seq(Names) BY <1>1, <1>3, <1>4, Recognised
<1> HIDE DEF names
<1>6. victims' \in Seq(Devices) /\ VictimsOK(victims', 1, FALSE, outcome, request)
  BY <1>1, <1>3, <1>5, MoreVictims
<1>7. ServiceTypeOK' BY <1>1, <1>4, <1>5, <1>6 DEF Inv, ServiceTypeOK
<1>8. request' = request /\ outcome' = outcome BY <1>1 DEF relayVars
<1>9. \A a \in 1..Len(answers') : AnswerOK(answers'[a], outcome', request')
  BY <1>1, <1>2, AnswersKept
<1>10. (phase' = "calling") = FALSE /\ next' = 1 BY <1>1, <1>3
<1>11. ServiceInv' BY <1>6, <1>8, <1>9, <1>10 DEF ServiceInv
<1>12. QED BY <1>2, <1>7, <1>11 DEF Inv

LEMMA ReadAllInv ==
    ASSUME Inv, ReadAll
    PROVE  Inv'
<1>1. /\ phase = "reading" /\ phase' = "sending"
      /\ UNCHANGED <<relayVars, message, todo, reconnect, victims, next, answers>>
  BY DEF ReadAll
<1>2. CallInv' /\ Keeps BY <1>1, SameCalls DEF Inv
<1>3. ServiceTypeOK' BY <1>1 DEF Inv, ServiceTypeOK
<1>4. request' = request /\ outcome' = outcome BY <1>1 DEF relayVars
<1>5. ServiceInv' BY <1>1, <1>4 DEF Inv, ServiceInv
<1>6. QED BY <1>2, <1>3, <1>5 DEF Inv

LEMMA SkipInv ==
    ASSUME Inv, SkipUnknown
    PROVE  Inv'
<1>1. /\ phase = "sending" /\ next <= Len(victims) /\ next' = next + 1
      /\ UNCHANGED <<relayVars, phase, message, todo, reconnect, victims, answers>>
  BY DEF SkipUnknown
<1>2. CallInv' /\ Keeps BY <1>1, SameCalls DEF Inv
<1>3. ServiceTypeOK' BY <1>1 DEF Inv, ServiceTypeOK
<1>4. request' = request /\ outcome' = outcome BY <1>1 DEF relayVars
<1>5. victims \in Seq(Devices) /\ VictimsOK(victims, next, FALSE, outcome, request)
      /\ next \in Nat \ {0}
  BY <1>1 DEF Inv, ServiceTypeOK, ServiceInv
<1>6. VictimsOK(victims, next + 1, FALSE, outcome, request)
  <2>1. next \in 1..Len(victims) BY <1>1, <1>5, LenProperties
  <2>2. QED BY <1>5, <2>1, PassedOver
<1>7. (phase' = "calling") = FALSE /\ phase' # "reading" BY <1>1
<1>8. ServiceInv' BY <1>1, <1>4, <1>6, <1>7 DEF Inv, ServiceInv
<1>9. QED BY <1>2, <1>3, <1>8 DEF Inv


(* The calls begin, fail to begin, and return.                             *)
LEMMA CallInvStep ==
    ASSUME Inv, NEW s \in Sockets, CallBegins(s) \/ CallFails(s)
    PROVE  Inv'
<1> DEFINE w == [meter |-> Url[victims[next].name], cmd |-> reconnect]
<1>1. /\ phase = "sending" /\ next <= Len(victims) /\ Url[victims[next].name] # NoUrl
      /\ victims' = [victims EXCEPT ![next].sess = s]
      /\ UNCHANGED <<message, todo, reconnect, answers>>
  BY DEF CallBegins, CallFails
<1>2. /\ victims \in Seq(Devices) /\ next \in Nat \ {0} /\ reconnect \in Commands
      /\ VictimsOK(victims, next, FALSE, outcome, request) /\ CallInv
  BY <1>1 DEF Inv, ServiceTypeOK, ServiceInv
<1>3. next \in 1..Len(victims) BY <1>1, <1>2, LenProperties
<1>4. w \in Wanted
  <2>1. victims[next] \in Devices BY <1>2, <1>3, ElementOfSeq
  <2>2. Url[victims[next].name] \in Meters BY <1>1, <2>1, UrlAssumption DEF Devices
  <2>3. QED BY <1>2, <2>2 DEF Wanted
<1>5. PICK now \in {"pending", "failed"} :
        /\ Accept(s, w, now)
        /\ IF now = "pending" THEN phase' = "calling" /\ next' = next
           ELSE phase' = phase /\ next' = next + 1
  BY DEF CallBegins, CallFails
<1>6. w.meter = Url[victims[next].name] OBVIOUS
<1> HIDE DEF w
<1>7. /\ CallInv' /\ Keeps /\ outcome[s] = "none" /\ outcome'[s] = now /\ request'[s] = w
  BY <1>2, <1>4, <1>5, AcceptInv
<1>8. /\ victims' \in Seq(Devices) /\ Len(victims') = Len(victims) /\ victims'[next].sess = s
      /\ IF outcome'[s] = "pending"
         THEN VictimsOK(victims', next, TRUE, outcome', request')
         ELSE VictimsOK(victims', next + 1, FALSE, outcome', request')
  <2>1. KeepsIn(outcome, request, outcome', request') BY <1>7 DEF Keeps
  <2>2. request'[s].meter = Url[victims[next].name] BY <1>6, <1>7
  <2>3. outcome[s] = "none" /\ outcome'[s] \in {"pending", "failed"} BY <1>7
  <2>4. VictimsOK(victims, next, FALSE, outcome, request) BY <1>2
  <2>5. victims \in Seq(Devices) BY <1>2
  <2> DEFINE list2 == [victims EXCEPT ![next].sess = s]
  <2>6. /\ list2 \in Seq(Devices) /\ Len(list2) = Len(victims) /\ list2[next].sess = s
        /\ IF outcome'[s] = "pending"
           THEN VictimsOK(list2, next, TRUE, outcome', request')
           ELSE VictimsOK(list2, next + 1, FALSE, outcome', request')
    BY ONLY <1>3, <2>1, <2>2, <2>3, <2>4, <2>5, GivenCall, Zenon
  <2>7. victims' = list2 BY <1>1
  <2> HIDE DEF list2
  <2>8. QED BY <2>6, <2>7
<1>9. next' \in Nat \ {0} /\ (phase' = "calling" => next' \in 1..Len(victims') /\ victims'[next'].sess = s)
  BY <1>1, <1>2, <1>3, <1>5, <1>8
<1>10. ServiceTypeOK'
  BY <1>1, <1>5, <1>8, <1>9 DEF Inv, ServiceTypeOK
<1>11. VictimsOK(victims', next', phase' = "calling", outcome', request')
  <2>1. CASE now = "pending"
    <3>1. (phase' = "calling") = TRUE /\ next' = next BY <1>5, <2>1
    <3>2. VictimsOK(victims', next, TRUE, outcome', request') BY <1>7, <1>8, <2>1
    <3>3. QED BY <3>1, <3>2
  <2>2. CASE now = "failed"
    <3>1. (phase' = "calling") = FALSE /\ next' = next + 1 BY <1>1, <1>5, <2>2
    <3>2. VictimsOK(victims', next + 1, FALSE, outcome', request') BY <1>7, <1>8, <2>2
    <3>3. QED BY <3>1, <3>2
  <2>3. QED BY <2>1, <2>2
<1>12. \A a \in 1..Len(answers') : AnswerOK(answers'[a], outcome', request')
  BY <1>1, <1>7, AnswersKept
<1>13. phase' # "reading" BY <1>1, <1>5
<1>14. QED BY <1>7, <1>10, <1>11, <1>12, <1>13 DEF Inv, ServiceInv

LEMMA ReturnsInv ==
    ASSUME Inv, NEW s \in Sockets, CallReturns(s)
    PROVE  Inv'
<1>1. /\ phase = "calling" /\ s = victims[next].sess /\ (Fail(s) \/ Succeed(s))
      /\ victims' = [victims EXCEPT ![next].failed = (outcome'[s] # "ok")]
      /\ next' = next + 1 /\ phase' = "sending"
      /\ UNCHANGED <<message, todo, reconnect, answers>>
  BY DEF CallReturns, HasFailed
<1>2. /\ victims \in Seq(Devices) /\ next \in 1..Len(victims) /\ next \in Nat
      /\ VictimsOK(victims, next, TRUE, outcome, request) /\ CallInv
  <2>1. (phase = "calling") = TRUE BY <1>1
  <2>2. QED BY <1>1, <2>1 DEF Inv, ServiceTypeOK, ServiceInv
<1>3. /\ CallInv' /\ Keeps /\ outcome'[s] \in {"failed", "ok"} /\ request' = request
  BY <1>1, <1>2, ReturnInv
<1>4. /\ victims' \in Seq(Devices)
      /\ VictimsOK(victims', next + 1, FALSE, outcome', request')
  <2>1. KeepsIn(outcome, request, outcome', request) BY <1>3 DEF Keeps
  <2>2. victims[next].sess = s BY <1>1
  <2>3. outcome'[s] \in {"failed", "ok"} BY <1>3
  <2>4. victims \in Seq(Devices) /\ VictimsOK(victims, next, TRUE, outcome, request)
    BY <1>2
  <2>5. next \in 1..Len(victims) BY <1>2
  <2>6. ASSUME NEW f \in BOOLEAN, f <=> outcome'[s] # "ok"
        PROVE  /\ [victims EXCEPT ![next].failed = f] \in Seq(Devices)
               /\ VictimsOK([victims EXCEPT ![next].failed = f], next + 1, FALSE, outcome', request)
    <3>1. VictimsOK(victims, next, TRUE, outcome, request) BY <2>4
    <3>2. victims \in Seq(Devices) BY <2>4
    <3>3. QED BY <2>1, <2>2, <2>3, <2>5, <2>6, <3>1, <3>2, CallReturned, Zenon
  <2>7. PICK f \in BOOLEAN : f = (outcome'[s] # "ok") OBVIOUS
  <2>8. victims' = [victims EXCEPT ![next].failed = f] BY <1>1, <2>7
  <2>9. request' = request BY <1>3
  <2>10. QED BY <2>6, <2>7, <2>8, <2>9
<1>5. ServiceTypeOK' BY <1>1, <1>2, <1>4 DEF Inv, ServiceTypeOK
<1>6. VictimsOK(victims', next', phase' = "calling", outcome', request')
  <2>1. (phase' = "calling") = FALSE BY <1>1
  <2>2. QED BY <1>1, <1>4, <2>1
<1>7. \A a \in 1..Len(answers') : AnswerOK(answers'[a], outcome', request')
  BY <1>1, <1>3, AnswersKept
<1>8. QED BY <1>1, <1>3, <1>5, <1>6, <1>7 DEF Inv, ServiceInv

(* One more answer.                                                        *)
LEMMA AnswerAdded ==
    ASSUME Inv, NEW a \in Answers, AnswerOK(a, outcome, request),
           answers' = Append(answers, a), UNCHANGED <<request, outcome>>
    PROVE  /\ answers' \in Seq(Answers)
           /\ \A k \in 1..Len(answers') : AnswerOK(answers'[k], outcome', request')
<1>1. answers \in Seq(Answers) BY DEF Inv, ServiceTypeOK
<1>2. answers' \in Seq(Answers) /\ Len(answers') = Len(answers) + 1
  BY <1>1, AppendProperties
<1>3. \A k \in 1..Len(answers) : answers'[k] = answers[k] BY <1>1, AppendProperties
<1>4. answers'[Len(answers) + 1] = a BY <1>1, AppendProperties
<1>5. Len(answers) \in Nat BY <1>1, LenProperties
<1>6. ASSUME NEW k \in 1..Len(answers') PROVE AnswerOK(answers'[k], outcome', request')
  <2>1. CASE k \in 1..Len(answers) BY <1>3, <2>1 DEF Inv, ServiceInv
  <2>2. CASE k = Len(answers) + 1 BY <1>4, <2>2
  <2>3. QED BY <1>2, <1>5, <2>1, <2>2
<1>7. QED BY <1>2, <1>6

LEMMA RespondInv ==
    ASSUME Inv, Respond
    PROVE  Inv'
<1> DEFINE a == [message |-> message, victims |-> victims, result |-> Result]
<1>1. /\ phase = "sending" /\ next > Len(victims) /\ answers' = Append(answers, a)
      /\ phase' = "listening"
      /\ UNCHANGED <<relayVars, message, todo, reconnect, victims, next>>
  BY DEF Respond
<1>2. CallInv' BY <1>1, SameCalls DEF Inv
<1>3. UNCHANGED <<request, outcome>> BY <1>1 DEF relayVars
<1>4. /\ victims \in Seq(Devices) /\ next \in Nat /\ message \in Requests \cup {<<>>}
      /\ VictimsOK(victims, next, FALSE, outcome, request)
  BY <1>1 DEF Inv, ServiceTypeOK, ServiceInv
<1>5. a \in Answers BY <1>4 DEF Answers, Result
<1>6. AnswerOK(a, outcome, request)
  <2>1. \A i \in 1..Len(victims) : i < next BY <1>1, <1>4, LenProperties
  <2>2. Distinct(victims) /\ \A i \in 1..Len(victims) : Settled(victims[i], outcome, request)
    BY <1>4, <2>1 DEF VictimsOK
  <2>3. a.result = "OK" => \A i \in 1..Len(victims) : ~victims[i].failed BY DEF Result
  <2>4. a.victims = victims OBVIOUS
  <2> HIDE DEF a
  <2>5. QED BY <2>2, <2>3, <2>4 DEF AnswerOK
<1> HIDE DEF a
<1>7. /\ answers' \in Seq(Answers)
      /\ \A k \in 1..Len(answers') : AnswerOK(answers'[k], outcome', request')
  BY <1>1, <1>3, <1>5, <1>6, AnswerAdded
<1>8. ServiceTypeOK' BY <1>1, <1>7 DEF Inv, ServiceTypeOK
<1>9. VictimsOK(victims', next', phase' = "calling", outcome', request')
  <2>1. (phase' = "calling") = FALSE BY <1>1
  <2>2. QED BY <1>1, <1>3, <1>4, <2>1
<1>10. QED BY <1>1, <1>2, <1>7, <1>8, <1>9 DEF Inv, ServiceInv

LEMMA OtherInv ==
    ASSUME Inv, OtherOperation
    PROVE  Inv'
<1> DEFINE a == [message |-> <<>>, victims |-> <<>>, result |-> "OK"]
<1>1. /\ answers' = Append(answers, a)
      /\ UNCHANGED <<relayVars, phase, message, todo, reconnect, victims, next>>
  BY DEF OtherOperation
<1>2. CallInv' BY <1>1, SameCalls DEF Inv
<1>3. UNCHANGED <<request, outcome>> BY <1>1 DEF relayVars
<1>4. a.victims \in Seq(Devices) /\ Len(a.victims) = 0 BY EmptySeq
<1>5. a \in Answers BY <1>4 DEF Answers
<1>6. AnswerOK(a, outcome, request) BY <1>4 DEF AnswerOK, Distinct
<1> HIDE DEF a
<1>7. /\ answers' \in Seq(Answers)
      /\ \A k \in 1..Len(answers') : AnswerOK(answers'[k], outcome', request')
  BY <1>1, <1>3, <1>5, <1>6, AnswerAdded
<1>8. ServiceTypeOK' BY <1>1, <1>7 DEF Inv, ServiceTypeOK
<1>9. QED BY <1>1, <1>2, <1>3, <1>7, <1>8 DEF Inv, ServiceInv

LEMMA MeterInv ==
    ASSUME Inv, NEW s \in Sockets, MeterPerforms(s)
    PROVE  Inv'
<1>1. Perform(s) /\ UNCHANGED serviceVars BY DEF MeterPerforms
<1>2. CallInv' /\ UNCHANGED <<request, outcome>> BY <1>1, PerformInv DEF Inv
<1>3. QED BY <1>1, <1>2 DEF Inv, ServiceTypeOK, ServiceInv, serviceVars

LEMMA NextInv == Inv /\ [Next]_vars => Inv'
<1> SUFFICES ASSUME Inv, [Next]_vars PROVE Inv' OBVIOUS
<1>1. CASE Next
  BY <1>1, RequestInv, ReadInv, ReadAllInv, SkipInv, CallInvStep, ReturnsInv, RespondInv,
     OtherInv, MeterInv
  DEF Next, Serve
<1>2. CASE UNCHANGED vars
  <2>1. UNCHANGED relayVars /\ UNCHANGED serviceVars BY <1>2 DEF vars
  <2>2. CallInv' BY <2>1, SameCalls DEF Inv
  <2>3. QED BY <2>1, <2>2 DEF Inv, ServiceTypeOK, ServiceInv, serviceVars, relayVars
<1>3. QED BY <1>1, <1>2

-----------------------------------------------------------------------------
LEMMA InvAlways == Spec => []Inv
BY InitInv, NextInv, PTL DEF Spec

(* The loops of CreateEndDeviceControls keep their variables' types: while *)
(* a call is made, the loop is at a victim that has this call.             *)
THEOREM ServiceTypeCorrect == Spec => []TypeOK
<1>1. Inv => TypeOK BY DEF Inv, TypeOK
<1>2. QED BY <1>1, InvAlways, PTL

(* "If everything is OK" is meant: each device of a request answered OK    *)
(* leads to a meter and had a call of its own that returned true.          *)
THEOREM OkIsRelayed == Spec => []OkMeansRelayed
<1>1. ASSUME Inv PROVE OkMeansRelayed
  <2>1. SUFFICES ASSUME NEW a \in 1..Len(answers), answers[a].result = "OK",
                        NEW i \in 1..Len(answers[a].victims)
                 PROVE  LET v == answers[a].victims[i] IN
                        /\ v.sess \in Sockets
                        /\ outcome[v.sess] = "ok"
                        /\ request[v.sess].meter = Url[v.name]
                        /\ \A j \in 1..(i - 1) : answers[a].victims[j].sess # v.sess
    BY DEF OkMeansRelayed
  <2> DEFINE found == answers[a].victims
  <2>2. /\ Distinct(found) /\ ~found[i].failed /\ Settled(found[i], outcome, request)
    BY <1>1, <2>1 DEF Inv, ServiceInv, AnswerOK
  <2>3. /\ found[i].sess \in Sockets /\ outcome[found[i].sess] = "ok"
        /\ request[found[i].sess].meter = Url[found[i].name]
    BY <2>2 DEF Settled
  <2>4. found[i].sess # NoSocket BY <2>3, MaxSocketsAssumption DEF Sockets, NoSocket
  <2>5. found \in Seq(Devices)
    <3>1. answers \in Seq(Answers) BY <1>1 DEF Inv, ServiceTypeOK
    <3>2. answers[a] \in Answers BY <3>1, ElementOfSeq
    <3>3. QED BY <3>2 DEF Answers
  <2>6. \A j \in 1..(i - 1) : j \in 1..Len(found) /\ j < i BY <2>5, LenProperties
  <2>7. \A j \in 1..(i - 1) : found[j].sess # found[i].sess
    BY <2>2, <2>4, <2>6 DEF Distinct
  <2>8. QED BY <2>3, <2>7
<1>2. QED BY <1>1, InvAlways, PTL

(* A device reported as failed has not been operated by the call that was  *)
(* made for it, and will not be.                                           *)
THEOREM FailedIsUntouched == Spec => []FailedMeterUntouched
<1>1. ASSUME Inv PROVE FailedMeterUntouched
  <2>1. SUFFICES ASSUME NEW a \in 1..Len(answers), NEW i \in 1..Len(answers[a].victims),
                        answers[a].victims[i].failed, PerformedBy(answers[a].victims[i].sess)
                 PROVE  FALSE
    BY DEF FailedMeterUntouched
  <2> DEFINE v == answers[a].victims[i]
  <2>2. v.sess = NoSocket \/ outcome[v.sess] = "failed"
    BY <1>1, <2>1 DEF Inv, ServiceInv, AnswerOK, Settled
  <2>3. v.sess \in sent BY <1>1, <2>1 DEF PerformedBy, Inv, CallInv, RelayInv
  <2>4. v.sess \in Sockets /\ outcome[v.sess] = "ok"
    BY <1>1, <2>3 DEF Inv, CallInv, RelayInv, RelayTypeOK
  <2>5. v.sess # NoSocket BY <2>4, MaxSocketsAssumption DEF Sockets, NoSocket
  <2>6. QED BY <2>2, <2>4, <2>5
<1>2. QED BY <1>1, InvAlways, PTL

-----------------------------------------------------------------------------
(* What the answers have to do with the requests.                          *)

LEMMA RequestType ==
    ASSUME Inv
    PROVE  /\ message \in Seq(Controls) /\ todo \in Seq(Controls)
           /\ victims \in Seq(Devices) /\ answers \in Seq(Answers)
           /\ \A a \in 1..Len(answers) :
                 answers[a].message \in Seq(Controls) /\ answers[a].victims \in Seq(Devices)
           /\ Len(message) \in Nat /\ Len(todo) \in Nat /\ Len(victims) \in Nat
           /\ Len(answers) \in Nat
<1>1. <<>> \in Seq(Controls) BY EmptySeq
<1>2. Requests \cup {<<>>} \subseteq Seq(Controls) BY <1>1, RequestsAssumption
<1>3. /\ message \in Seq(Controls) /\ todo \in Seq(Controls)
      /\ victims \in Seq(Devices) /\ answers \in Seq(Answers)
  BY <1>2 DEF Inv, ServiceTypeOK
<1>4. \A a \in 1..Len(answers) : answers[a] \in Answers BY <1>3, ElementOfSeq
<1>5. QED BY <1>2, <1>3, <1>4, LenProperties DEF Answers

(* A victim with a call has one that was made.                             *)
LEMMA CallsWereMade ==
    ASSUME Inv
    PROVE  /\ \A i \in 1..Len(victims) :
                 victims[i].sess # NoSocket =>
                     victims[i].sess \in Sockets /\ outcome[victims[i].sess] # "none"
           /\ \A a \in 1..Len(answers) : \A i \in 1..Len(answers[a].victims) :
                 LET v == answers[a].victims[i] IN
                 v.sess # NoSocket => v.sess \in Sockets /\ outcome[v.sess] # "none"
<1>1. ASSUME NEW v \in Devices, v.sess # NoSocket,
             Settled(v, outcome, request) \/ Pending(v, outcome, request)
      PROVE  v.sess \in Sockets /\ outcome[v.sess] # "none"
  BY <1>1 DEF Devices, Settled, Pending
<1>2. ASSUME NEW i \in 1..Len(victims), victims[i].sess # NoSocket
      PROVE  Settled(victims[i], outcome, request) \/ Pending(victims[i], outcome, request)
  <2>1. next \in Nat BY DEF Inv, ServiceTypeOK
  <2>2. VictimsOK(victims, next, phase = "calling", outcome, request)
    BY DEF Inv, ServiceInv
  <2>3. ~(i > next \/ (i = next /\ phase # "calling"))
    BY <1>2, <2>2 DEF VictimsOK
  <2>4. i < next \/ (i = next /\ phase = "calling") BY <2>1, <2>3
  <2>5. QED BY <2>2, <2>4 DEF VictimsOK
<1>3. \A i \in 1..Len(victims) : victims[i] \in Devices BY RequestType, ElementOfSeq
<1>4. ASSUME NEW a \in 1..Len(answers), NEW i \in 1..Len(answers[a].victims)
      PROVE  /\ answers[a].victims[i] \in Devices
             /\ Settled(answers[a].victims[i], outcome, request)
  BY RequestType, ElementOfSeq DEF Inv, ServiceInv, AnswerOK
<1>5. QED BY <1>1, <1>2, <1>3, <1>4

(* What was called for remains so.                                         *)
LEMMA CalledForStays ==
    ASSUME NEW list, NEW m, Keeps, CalledFor(list, m, request),
           \A i \in 1..Len(list) : list[i].sess # NoSocket =>
               list[i].sess \in Sockets /\ outcome[list[i].sess] # "none"
    PROVE  CalledFor(list, m, request')
BY DEF CalledFor, Keeps, KeepsIn

AnswersCovered ==
    \A a \in 1..Len(answers) :
        LET done == answers[a] IN
        /\ Covers(done.victims, done.message, Len(done.message))
        /\ CalledFor(done.victims, done.message, request)

ControlsPart ==
    phase # "listening" =>
        ReadingOK /\ Covers(victims, message, Read) /\ CalledFor(victims, message, request)

LEMMA ControlsParts == ControlsInv <=> ControlsPart /\ AnswersCovered
BY DEF ControlsInv, ControlsPart, AnswersCovered

LEMMA AnswersStayCovered ==
    ASSUME Inv, Keeps, AnswersCovered, answers' = answers
    PROVE  AnswersCovered'
<1> SUFFICES ASSUME NEW a \in 1..Len(answers)
             PROVE  /\ Covers(answers[a].victims, answers[a].message, Len(answers[a].message))
                    /\ CalledFor(answers[a].victims, answers[a].message, request')
  BY DEF AnswersCovered
<1>1. /\ Covers(answers[a].victims, answers[a].message, Len(answers[a].message))
      /\ CalledFor(answers[a].victims, answers[a].message, request)
  BY DEF AnswersCovered
<1>2. CalledFor(answers[a].victims, answers[a].message, request')
  BY <1>1, CallsWereMade, CalledForStays
<1>3. QED BY <1>1, <1>2

(* Reading a control.                                                      *)
LEMMA ReadCovers ==
    ASSUME Inv, ControlsPart, ReadControl
    PROVE  ControlsPart'
<1> DEFINE control == Head(todo)
           names == FrontNames(control)
           new == [i \in 1..Len(names) |-> Device(names[i])]
<1>1. /\ phase = "reading" /\ phase' = "reading" /\ todo # <<>>
      /\ victims' = victims \o new
      /\ reconnect' = Recognise(control) /\ todo' = Tail(todo)
      /\ UNCHANGED <<message, request>>
  BY DEF ReadControl, relayVars
<1>2. ReadingOK /\ Covers(victims, message, Read) BY <1>1 DEF ControlsPart
<1>3. /\ message \in Seq(Controls) /\ todo \in Seq(Controls) /\ victims \in Seq(Devices)
      /\ Len(message) \in Nat /\ Len(todo) \in Nat /\ Len(victims) \in Nat
      /\ reconnect \in Commands
  BY RequestType DEF Inv, ServiceTypeOK
<1>4. /\ control = todo[1] /\ Len(todo) > 0 /\ Len(todo') = Len(todo) - 1
      /\ \A i \in 1..Len(todo') : todo'[i] = todo[i + 1]
  BY <1>1, <1>3, HeadTailProperties, EmptySeq
<1>5. Read \in Nat /\ Read' = Read + 1 /\ Read + 1 \in 1..Len(message)
  BY <1>1, <1>2, <1>3, <1>4 DEF Read, ReadingOK
<1>6. control = message[Read + 1] /\ control \in Controls
  <2>1. control = message[Read + 1] BY <1>2, <1>3, <1>4 DEF ReadingOK
  <2>2. QED BY <1>3, <1>5, <2>1, ElementOfSeq
<1> HIDE DEF control
<1>7. names \in Seq(Names) BY <1>3, <1>6, Recognised
<1>8. /\ new \in Seq(Devices) /\ Len(new) = Len(names)
      /\ \A i \in 1..Len(names) : new[i].name = names[i]
  BY <1>7, NewVictims DEF Device
<1> HIDE DEF new
<1>9. /\ Len(victims') = Len(victims) + Len(names) /\ Len(names) \in Nat
      /\ \A i \in 1..Len(victims) : victims'[i] = victims[i]
      /\ \A i \in 1..Len(names) : victims'[Len(victims) + i] = new[i]
  <2>1. Len(victims') = Len(victims) + Len(names) /\ Len(names) \in Nat
    <3>1. Len(names) \in Nat BY <1>7, LenProperties
    <3>2. Len(new) = Len(names) BY <1>8
    <3>3. new \in Seq(Devices) BY <1>8
    <3> HIDE DEF names
    <3>4. Len(victims') = Len(victims) + Len(new) BY <1>1, <1>3, <3>3, ConcatProperties
    <3>5. QED BY <3>1, <3>2, <3>4
  <2>2. \A i \in 1..(Len(victims) + Len(names)) :
            victims'[i] = IF i <= Len(victims) THEN victims[i] ELSE new[i - Len(victims)]
    BY <1>1, <1>3, <1>8, ConcatProperties
  <2>3. ASSUME NEW i \in 1..Len(names) PROVE victims'[Len(victims) + i] = new[i]
    <3>1. /\ Len(victims) + i \in 1..(Len(victims) + Len(names))
          /\ ~(Len(victims) + i <= Len(victims))
          /\ (Len(victims) + i) - Len(victims) = i
      BY <1>3, <2>1
    <3>2. QED BY <2>2, <3>1
  <2>4. ASSUME NEW i \in 1..Len(victims) PROVE victims'[i] = victims[i]
    <3>1. i \in 1..(Len(victims) + Len(names)) /\ i <= Len(victims)
      BY <1>3, <2>1
    <3>2. QED BY <2>2, <3>1
  <2>5. QED BY <2>1, <2>3, <2>4
<1>10. Covers(victims', message, Read + 1)
  <2> SUFFICES ASSUME NEW c \in 1..(Read + 1), NEW n \in 1..Len(FrontNames(message[c]))
               PROVE  \E i \in 1..Len(victims') :
                          victims'[i].name = FrontNames(message[c])[n]
    BY DEF Covers
  <2>1. CASE c = Read + 1
    <3>1. FrontNames(message[c]) = names BY <1>6, <2>1
    <3>2. n \in 1..Len(names) BY <3>1
    <3> HIDE DEF names
    <3>3. Len(victims) + n \in 1..Len(victims') BY <1>3, <1>9, <3>2
    <3>4. victims'[Len(victims) + n].name = names[n] BY <1>8, <1>9, <3>2
    <3>5. QED BY <3>1, <3>3, <3>4
  <2>2. CASE c \in 1..Read
    <3>1. PICK i \in 1..Len(victims) : victims[i].name = FrontNames(message[c])[n]
      BY <1>2, <2>2 DEF Covers
    <3>2. i \in 1..Len(victims') BY <1>3, <1>9
    <3>3. QED BY <1>9, <3>1, <3>2
  <2>3. QED BY <1>5, <2>1, <2>2
<1>11. ReadingOK'
  <2>1. ASSUME NEW i \in 1..Len(todo') PROVE todo'[i] = message[(Read + 1) + i]
    <3>1. i + 1 \in 1..Len(todo) BY <1>3, <1>4
    <3>2. todo[i + 1] = message[Read + (i + 1)] BY <1>2, <3>1 DEF ReadingOK
    <3>3. Read + (i + 1) = (Read + 1) + i BY <1>5
    <3>4. QED BY <1>4, <3>2, <3>3
  <2>2. ASSUME NEW cmd \in Commands, AsksFor(message, cmd) PROVE reconnect' = cmd
    <3>1. control.ref = cmd BY <1>5, <1>6, <2>2 DEF AsksFor
    <3>2. QED BY <1>1, <3>1 DEF Recognise
  <2>3. Len(todo') <= Len(message) BY <1>2, <1>3, <1>4 DEF ReadingOK
  <2>4. Read' # 0 BY <1>5
  <2>5. QED BY <1>1, <1>5, <2>1, <2>2, <2>3, <2>4 DEF ReadingOK
<1>12. \A i \in 1..Len(victims') : victims'[i].sess = NoSocket
  <2>1. Inv' BY ReadInv
  <2>2. next' = 1 /\ (phase' = "calling") = FALSE BY <1>1, <2>1 DEF Inv, ServiceInv
  <2>3. VictimsOK(victims', 1, FALSE, outcome', request')
    BY <2>1, <2>2 DEF Inv, ServiceInv
  <2>4. \A i \in 1..Len(victims') : i > 1 \/ i = 1 BY <1>3, <1>9
  <2>5. QED BY <2>3, <2>4 DEF VictimsOK
<1>13. CalledFor(victims', message, request') BY <1>12 DEF CalledFor
<1>14. QED BY <1>1, <1>5, <1>10, <1>11, <1>13 DEF ControlsPart

(* Sending: the list keeps its names, and a call is made with the flag.    *)
LEMMA SameNames ==
    ASSUME NEW list, NEW list2, NEW m, NEW count, Covers(list, m, count),
           Len(list2) = Len(list),
           \A i \in 1..Len(list) : list2[i].name = list[i].name
    PROVE  Covers(list2, m, count)
BY DEF Covers

LEMMA CallCovers ==
    ASSUME Inv, ControlsPart, NEW s \in Sockets, CallBegins(s) \/ CallFails(s)
    PROVE  ControlsPart'
<1>1. /\ phase = "sending" /\ phase' \in {"sending", "calling"} /\ next <= Len(victims)
      /\ victims' = [victims EXCEPT ![next].sess = s]
      /\ UNCHANGED <<message, todo, reconnect>>
      /\ \E now \in {"pending", "failed"} :
            Accept(s, [meter |-> Url[victims[next].name], cmd |-> reconnect], now)
  BY DEF CallBegins, CallFails
<1>2. /\ ReadingOK /\ Covers(victims, message, Read) /\ CalledFor(victims, message, request)
  BY <1>1 DEF ControlsPart
<1>3. /\ victims \in Seq(Devices) /\ next \in 1..Len(victims)
      /\ Len(message) \in Nat /\ Len(todo) \in Nat
  BY <1>1, RequestType DEF Inv, ServiceTypeOK
<1>4. victims[next] \in Devices BY <1>3, ElementOfSeq
<1> DEFINE v == [victims[next] EXCEPT !.sess = s]
<1>5. v \in Devices /\ v.sess = s /\ v.name = victims[next].name
  BY <1>4 DEF Devices
<1>6. victims' = [victims EXCEPT ![next] = v] BY <1>1
<1> HIDE DEF v
<1>7. /\ Len(victims') = Len(victims) /\ victims'[next] = v
      /\ \A i \in 1..Len(victims) : i # next => victims'[i] = victims[i]
  BY <1>3, <1>5, <1>6, Updated
<1>8. Covers(victims', message, Read)
  BY <1>2, <1>5, <1>7, SameNames
<1>9. /\ \A t \in Sockets : outcome[t] # "none" => request'[t] = request[t]
      /\ request'[s].cmd = reconnect
  <2>1. outcome[s] = "none" BY <1>1 DEF Accept
  <2>2. request \in [Sockets -> Wanted \cup {NotCalled}]
    BY DEF Inv, CallInv, RelayTypeOK
  <2>3. request' = [request EXCEPT ![s] =
                        [meter |-> Url[victims[next].name], cmd |-> reconnect]]
    BY <1>1 DEF Accept
  <2>4. QED BY <2>1, <2>2, <2>3
<1>10. CalledFor(victims', message, request')
  <2> SUFFICES ASSUME NEW cmd \in Commands, AsksFor(message, cmd),
                      NEW i \in 1..Len(victims), victims'[i].sess # NoSocket
               PROVE  request'[victims'[i].sess].cmd = cmd
    BY <1>7 DEF CalledFor
  <2>1. CASE i = next
    <3>1. victims # <<>> BY <1>3, EmptySeq
    <3>2. Read # 0 BY <1>2, <3>1 DEF ReadingOK
    <3>3. Read > 0 BY <1>2, <1>3, <3>2 DEF Read, ReadingOK
    <3>4. reconnect = cmd BY <1>2, <3>3 DEF ReadingOK
    <3>5. QED BY <1>5, <1>7, <1>9, <2>1, <3>4
  <2>2. CASE i # next
    <3>1. victims'[i] = victims[i] BY <1>7, <2>2
    <3>2. victims[i].sess \in Sockets /\ outcome[victims[i].sess] # "none"
      BY <3>1, CallsWereMade
    <3>3. QED BY <1>2, <1>9, <3>1, <3>2 DEF CalledFor
  <2>3. QED BY <2>1, <2>2
<1>11. Read' = Read BY <1>1 DEF Read
<1>12. ReadingOK'
  <2>1. Read # 0
    <3>1. victims # <<>> BY <1>3, EmptySeq
    <3>2. QED BY <1>2, <3>1 DEF ReadingOK
  <2>2. QED BY <1>1, <1>2, <1>11, <2>1 DEF ReadingOK
<1>13. QED BY <1>1, <1>8, <1>10, <1>11, <1>12 DEF ControlsPart

LEMMA ReturnCovers ==
    ASSUME Inv, ControlsPart, NEW s \in Sockets, CallReturns(s)
    PROVE  ControlsPart'
<1>1. /\ phase = "calling" /\ phase' = "sending"
      /\ victims' = [victims EXCEPT ![next].failed = HasFailed(s)]
      /\ UNCHANGED <<message, todo, reconnect, request>>
  BY DEF CallReturns, Fail, Succeed
<1>2. /\ ReadingOK /\ Covers(victims, message, Read) /\ CalledFor(victims, message, request)
  BY <1>1 DEF ControlsPart
<1>3. /\ victims \in Seq(Devices) /\ next \in 1..Len(victims)
  BY <1>1 DEF Inv, ServiceTypeOK
<1>4. victims[next] \in Devices BY <1>3, ElementOfSeq
<1>5. PICK f \in BOOLEAN : f = (outcome'[s] # "ok") OBVIOUS
<1> DEFINE v == [victims[next] EXCEPT !.failed = f]
<1>6. v \in Devices /\ v.sess = victims[next].sess /\ v.name = victims[next].name
  BY <1>4 DEF Devices
<1>7. victims' = [victims EXCEPT ![next] = v] BY <1>1, <1>5 DEF HasFailed
<1> HIDE DEF v
<1>8. /\ Len(victims') = Len(victims) /\ victims'[next] = v
      /\ \A i \in 1..Len(victims) : i # next => victims'[i] = victims[i]
  BY <1>3, <1>6, <1>7, Updated
<1>9. Covers(victims', message, Read) BY <1>2, <1>6, <1>8, SameNames
<1>10. \A i \in 1..Len(victims) : victims'[i].sess = victims[i].sess BY <1>6, <1>8
<1>11. CalledFor(victims', message, request) BY <1>2, <1>8, <1>10 DEF CalledFor
<1>12. Read' = Read BY <1>1 DEF Read
<1>13. ReadingOK'
  <2>1. victims # <<>> BY <1>3, EmptySeq
  <2>2. Read # 0 BY <1>2, <2>1 DEF ReadingOK
  <2>3. QED BY <1>1, <1>2, <1>12, <2>2 DEF ReadingOK
<1>14. QED BY <1>1, <1>9, <1>11, <1>12, <1>13 DEF ControlsPart

(* Answering: the whole request has been read.                             *)
LEMMA AnswerCovered ==
    ASSUME Inv, AnswersCovered, NEW a \in Answers,
           answers' = Append(answers, a), request' = request,
           Covers(a.victims, a.message, Len(a.message)), CalledFor(a.victims, a.message, request)
    PROVE  AnswersCovered'
<1>1. answers \in Seq(Answers) /\ Len(answers) \in Nat BY RequestType
<1>2. Len(answers') = Len(answers) + 1 BY <1>1, AppendProperties
<1>3. \A k \in 1..Len(answers) : answers'[k] = answers[k] BY <1>1, AppendProperties
<1>4. answers'[Len(answers) + 1] = a BY <1>1, AppendProperties
<1>5. ASSUME NEW k \in 1..Len(answers')
      PROVE  /\ Covers(answers'[k].victims, answers'[k].message, Len(answers'[k].message))
             /\ CalledFor(answers'[k].victims, answers'[k].message, request)
  <2>1. CASE k \in 1..Len(answers) BY <1>3, <2>1 DEF AnswersCovered
  <2>2. CASE k = Len(answers) + 1 BY <1>4, <2>2
  <2>3. QED BY <1>1, <1>2, <2>1, <2>2
<1>6. QED BY <1>5 DEF AnswersCovered

LEMMA RespondCovers ==
    ASSUME Inv, ControlsPart, AnswersCovered, Respond
    PROVE  ControlsPart' /\ AnswersCovered'
<1> DEFINE a == [message |-> message, victims |-> victims, result |-> Result]
<1>1. /\ phase = "sending" /\ phase' = "listening" /\ request' = request
      /\ answers' = Append(answers, a)
  BY DEF Respond, relayVars
<1>2. ControlsPart' BY <1>1 DEF ControlsPart
<1>3. a \in Answers BY DEF Inv, ServiceTypeOK, Answers, Result
<1>4. a.message = message /\ a.victims = victims OBVIOUS
<1> HIDE DEF a
<1>5. ReadingOK /\ Covers(victims, message, Read) /\ CalledFor(victims, message, request)
  BY <1>1 DEF ControlsPart
<1>6. Read = Len(message)
  <2>1. Len(todo) = 0 /\ Len(message) \in Nat
    BY <1>1, <1>5, RequestType, EmptySeq DEF ReadingOK
  <2>2. QED BY <2>1 DEF Read
<1>7. AnswersCovered' BY <1>1, <1>3, <1>4, <1>5, <1>6, AnswerCovered
<1>8. QED BY <1>2, <1>7

LEMMA OtherCovers ==
    ASSUME Inv, ControlsPart, AnswersCovered, OtherOperation
    PROVE  ControlsPart' /\ AnswersCovered'
<1> DEFINE a == [message |-> <<>>, victims |-> <<>>, result |-> "OK"]
<1>1. /\ phase = "listening" /\ phase' = "listening" /\ request' = request
      /\ answers' = Append(answers, a)
  BY DEF OtherOperation, relayVars
<1>2. ControlsPart' BY <1>1 DEF ControlsPart
<1>3. a.victims \in Seq(Devices) /\ Len(a.victims) = 0 /\ Len(a.message) = 0
  BY EmptySeq
<1>4. a \in Answers BY <1>3 DEF Answers
<1>5. Covers(a.victims, a.message, Len(a.message)) /\ CalledFor(a.victims, a.message, request)
  BY <1>3 DEF Covers, CalledFor
<1> HIDE DEF a
<1>6. AnswersCovered' BY <1>1, <1>4, <1>5, AnswerCovered
<1>7. QED BY <1>2, <1>6

LEMMA NextControls == Inv /\ ControlsInv /\ [Next]_vars => ControlsInv'
<1> SUFFICES ASSUME Inv, ControlsPart, AnswersCovered, [Next]_vars
             PROVE  ControlsPart' /\ AnswersCovered'
  BY ControlsParts DEF ControlsInv, ControlsPart, AnswersCovered
<1>1. ASSUME NEW r \in Requests, CreateEndDeviceControls(r)
      PROVE  ControlsPart' /\ AnswersCovered'
  <2>1. /\ phase' = "reading" /\ message' = r /\ todo' = r /\ victims' = <<>>
        /\ UNCHANGED <<relayVars, answers>>
    BY <1>1 DEF CreateEndDeviceControls
  <2>2. r \in Seq(Controls) /\ Len(r) \in Nat BY RequestsAssumption, LenProperties
  <2>3. Read' = 0 BY <2>1, <2>2 DEF Read
  <2>4. ReadingOK' BY <2>1, <2>2, <2>3 DEF ReadingOK
  <2>5. Len(victims') = 0 BY <2>1, EmptySeq
  <2>6. Covers(victims', message', 0) /\ CalledFor(victims', message', request')
    BY <2>5 DEF Covers, CalledFor
  <2>7. AnswersCovered' BY <2>1, SameCalls, AnswersStayCovered DEF Inv
  <2>8. QED BY <2>3, <2>4, <2>6, <2>7 DEF ControlsPart
<1>2. CASE ReadControl
  <2>1. Keeps /\ answers' = answers BY <1>2, SameCalls DEF ReadControl, Inv
  <2>2. QED BY <1>2, <2>1, ReadCovers, AnswersStayCovered
<1>3. CASE ReadAll \/ SkipUnknown \/ (\E s \in Sockets : MeterPerforms(s)) \/ UNCHANGED vars
  <2>1. /\ UNCHANGED <<request, outcome, message, todo, reconnect, victims, answers>>
        /\ phase' = phase \/ (phase = "reading" /\ todo = <<>>)
    BY <1>3 DEF ReadAll, SkipUnknown, MeterPerforms, Perform, vars, relayVars, serviceVars
  <2>2. AnswersCovered' BY <2>1, SameKeeps, AnswersStayCovered
  <2>3. phase' # "listening" => phase # "listening" BY <2>1
  <2>4. Read' = Read BY <2>1 DEF Read
  <2>5. ReadingOK => ReadingOK' BY <2>1, <2>4 DEF ReadingOK
  <2>6. QED BY <2>1, <2>2, <2>3, <2>4, <2>5 DEF ControlsPart
<1>4. ASSUME NEW s \in Sockets, CallBegins(s) \/ CallFails(s)
      PROVE  ControlsPart' /\ AnswersCovered'
  <2>1. Keeps /\ answers' = answers
    <3>1. answers' = answers BY <1>4 DEF CallBegins, CallFails
    <3>2. outcome[s] = "none" /\ UNCHANGED <<sent, performed>>
          /\ \A t \in Sockets : t # s => outcome'[t] = outcome[t] /\ request'[t] = request[t]
      BY <1>4 DEF CallBegins, CallFails, Accept, Inv, CallInv, RelayTypeOK
    <3>3. Keeps BY <3>2 DEF Keeps, KeepsIn
    <3>4. QED BY <3>1, <3>3
  <2>2. QED BY <1>4, <2>1, CallCovers, AnswersStayCovered
<1>5. ASSUME NEW s \in Sockets, CallReturns(s)
      PROVE  ControlsPart' /\ AnswersCovered'
  <2>1. Keeps /\ answers' = answers BY <1>5, ReturnInv DEF CallReturns, Inv
  <2>2. QED BY <1>5, <2>1, ReturnCovers, AnswersStayCovered
<1>6. CASE Respond BY <1>6, RespondCovers
<1>7. CASE OtherOperation BY <1>7, OtherCovers
<1>8. QED BY <1>1, <1>2, <1>3, <1>4, <1>5, <1>6, <1>7 DEF Next, Serve

LEMMA ControlsAlways == Spec => [](Inv /\ ControlsInv)
<1>1. Init => ControlsInv
  <2>1. Init => phase = "listening" /\ Len(answers) = 0 BY EmptySeq DEF Init
  <2>2. QED BY <2>1 DEF ControlsInv
<1>2. QED BY <1>1, InvAlways, NextControls, PTL DEF Spec

(* A request all of whose controls ask for one command has no device       *)
(* called with the other, whatever was requested before it.                *)
THEOREM IsOnlyAskedFor == Spec => []OnlyAskedFor
<1>1. Inv /\ ControlsInv => OnlyAskedFor
  BY DEF ControlsInv, CalledFor, OnlyAskedFor
<1>2. QED BY <1>1, ControlsAlways, PTL

(* OK covers every name in the first end device of every control.          *)
THEOREM OkIsForAllControls == Spec => []OkCoversControls
<1>1. ASSUME Inv, ControlsInv PROVE OkCoversControls
  <2> SUFFICES ASSUME NEW a \in 1..Len(answers), answers[a].result = "OK",
                      NEW c \in 1..Len(answers[a].message),
                      NEW n \in 1..Len(FrontNames(answers[a].message[c]))
               PROVE  \E i \in 1..Len(answers[a].victims) :
                          LET v == answers[a].victims[i] IN
                          /\ v.name = FrontNames(answers[a].message[c])[n]
                          /\ v.sess # NoSocket /\ outcome[v.sess] = "ok"
    BY DEF OkCoversControls
  <2>1. PICK i \in 1..Len(answers[a].victims) :
            answers[a].victims[i].name = FrontNames(answers[a].message[c])[n]
    BY <1>1 DEF ControlsInv, Covers
  <2> DEFINE v == answers[a].victims[i]
  <2>2. ~v.failed /\ Settled(v, outcome, request)
    BY <1>1 DEF Inv, ServiceInv, AnswerOK
  <2>3. v.sess \in Sockets /\ outcome[v.sess] = "ok" BY <2>2 DEF Settled
  <2>4. v.sess # NoSocket BY <2>3 DEF Sockets, NoSocket
  <2>5. QED BY <2>1, <2>3, <2>4
<1>2. QED BY <1>1, ControlsAlways, PTL

-----------------------------------------------------------------------------
(* The service commands meters through calls of serviceConnect only: as    *)
(* far as the relay can tell, its steps are the relay's.  So the service   *)
(* assumes no more of the calls than the relay promises, which             *)
(* RelayImplemented proves of HeadEnd.                                     *)
THEOREM CommandsThroughRelay == Spec => RelaySpec
<1>1. Init => RelayInit BY DEF Init
<1>2. Inv /\ [Next]_vars => [RelayNext]_relayVars
  <2> SUFFICES ASSUME Inv, [Next]_vars PROVE [RelayNext]_relayVars OBVIOUS
  <2>1. ASSUME NEW s \in Sockets, CallBegins(s) \/ CallFails(s) PROVE RelayNext
    <3> DEFINE w == [meter |-> Url[victims[next].name], cmd |-> reconnect]
    <3>1. next \in Nat \ {0} /\ victims \in Seq(Devices) /\ reconnect \in Commands
      BY DEF Inv, ServiceTypeOK
    <3>2. next <= Len(victims) /\ Url[victims[next].name] # NoUrl
      BY <2>1 DEF CallBegins, CallFails
    <3>3. next \in 1..Len(victims) BY <3>1, <3>2
    <3>4. victims[next] \in Devices BY <3>1, <3>3, ElementOfSeq
    <3>5. victims[next].name \in Names BY <3>4 DEF Devices
    <3>6. Url[victims[next].name] \in Meters BY <3>2, <3>5, UrlAssumption
    <3>7. w \in Wanted BY <3>1, <3>6 DEF Wanted
    <3>8. Accept(s, w, "pending") \/ Accept(s, w, "failed")
      BY <2>1 DEF CallBegins, CallFails
    <3> HIDE DEF w
    <3>9. QED BY <3>7, <3>8 DEF RelayNext
  <2>2. ASSUME NEW s \in Sockets, CallReturns(s) PROVE RelayNext
    BY <2>2 DEF CallReturns, RelayNext
  <2>3. ASSUME NEW s \in Sockets, MeterPerforms(s) PROVE RelayNext
    BY <2>3 DEF MeterPerforms, RelayNext
  <2>4. CASE (\E r \in Requests : CreateEndDeviceControls(r)) \/ OtherOperation
    BY <2>4 DEF CreateEndDeviceControls, OtherOperation
  <2>5. CASE ReadControl \/ ReadAll \/ SkipUnknown \/ Respond
    BY <2>5 DEF ReadControl, ReadAll, SkipUnknown, Respond
  <2>6. CASE UNCHANGED vars BY <2>6 DEF vars
  <2>7. QED BY <2>1, <2>2, <2>3, <2>4, <2>5, <2>6 DEF Next, Serve
<1>3. QED BY <1>1, <1>2, InvAlways, PTL DEF Spec, RelaySpec

-----------------------------------------------------------------------------
(* The order in which meters do what was asked for.                        *)

CallsInTurn == \A s, t \in Sockets : t < s /\ outcome[s] # "none" => outcome[t] # "none"

PerformedRising ==
    \A m \in Meters : \A k, l \in 1..Len(performed[m]) :
        k < l => performed[m][k].sess < performed[m][l].sess

VictimsRising ==
    phase # "listening" =>
        Rising(victims) /\ \A a \in 1..Len(answers) : Before(answers[a].victims, victims)

AnswersRising ==
    \A a \in 1..Len(answers) :
        /\ Rising(answers[a].victims)
        /\ \A b \in 1..Len(answers) :
              a < b => Before(answers[a].victims, answers[b].victims)

LEMMA OrderParts ==
    OrderInv <=> CallsInTurn /\ PerformedRising /\ VictimsRising /\ AnswersRising
BY DEF OrderInv, CallsInTurn, PerformedRising, VictimsRising, AnswersRising

(* A call is made with the lowest session that has not been used.          *)
LEMMA AcceptInTurn ==
    ASSUME Inv, CallsInTurn, PerformedRising, NEW s \in Sockets, NEW w,
           NEW now \in {"pending", "failed"}, Accept(s, w, now)
    PROVE  /\ CallsInTurn' /\ PerformedRising'
           /\ \A u \in Sockets : outcome[u] # "none" => u < s
<1>1. /\ outcome[s] = "none" /\ \A t \in Sockets : t < s => outcome[t] # "none"
      /\ outcome' = [outcome EXCEPT ![s] = now] /\ performed' = performed
  BY DEF Accept
<1>2. outcome \in [Sockets -> {"none", "pending", "failed", "ok"}]
  BY DEF Inv, CallInv, RelayTypeOK
<1>3. outcome'[s] # "none" /\ \A t \in Sockets : t # s => outcome'[t] = outcome[t]
  BY <1>1, <1>2
<1>4. ASSUME NEW u \in Sockets, NEW t \in Sockets, t < u, outcome'[u] # "none"
      PROVE  outcome'[t] # "none"
  <2>1. CASE u = s BY <1>1, <1>3, <1>4, <2>1
  <2>2. CASE u # s BY <1>3, <1>4, <2>2 DEF CallsInTurn
  <2>3. QED BY <2>1, <2>2
<1>5. ASSUME NEW u \in Sockets, outcome[u] # "none" PROVE u < s
  <2>1. u # s /\ ~(s < u) BY <1>1, <1>5 DEF CallsInTurn
  <2>2. QED BY <2>1, MaxSocketsAssumption DEF Sockets
<1>6. QED BY <1>1, <1>4, <1>5 DEF CallsInTurn, PerformedRising

(* A meter does what a call asked for after what the calls before it did.  *)
LEMMA PerformRising ==
    ASSUME Inv, PerformedRising, NEW s \in Sockets, Perform(s)
    PROVE  PerformedRising'
<1> DEFINE m == request[s].meter
           e == [sess |-> s, cmd |-> request[s].cmd]
           E == [sess : Sockets, cmd : Commands]
           p == Append(performed[m], e)
<1>1. /\ s \in sent /\ \A i \in 1..Len(performed[m]) : performed[m][i].sess < s
      /\ performed' = [performed EXCEPT ![m] = p]
  BY DEF Perform
<1>2. request[s] \in Wanted BY <1>1 DEF Inv, CallInv, RelayInv
<1>3. m \in Meters /\ e \in E /\ e.sess = s BY <1>2 DEF Wanted
<1>4. performed \in [Meters -> Seq(E)] BY DEF Inv, CallInv, RelayTypeOK
<1> HIDE DEF e, E
<1>5. performed[m] \in Seq(E) BY <1>3, <1>4
<1>6. Len(p) = Len(performed[m]) + 1 BY <1>3, <1>5, AppendProperties
<1>7. \A i \in 1..Len(performed[m]) : p[i] = performed[m][i] BY <1>3, <1>5, AppendProperties
<1>8. p[Len(performed[m]) + 1] = e BY <1>3, <1>5, AppendProperties
<1>9. Len(performed[m]) \in Nat BY <1>5, LenProperties
<1>10. performed'[m] = p /\ \A n \in Meters : n # m => performed'[n] = performed[n]
  BY <1>1, <1>3, <1>4
<1> HIDE DEF p, m
<1>11. ASSUME NEW k \in 1..Len(p), NEW l \in 1..Len(p), k < l PROVE p[k].sess < p[l].sess
  <2>1. k \in 1..Len(performed[m]) BY <1>6, <1>9, <1>11
  <2>2. CASE l \in 1..Len(performed[m])
    BY <1>3, <1>7, <1>11, <2>1, <2>2 DEF PerformedRising
  <2>3. CASE l = Len(performed[m]) + 1 BY <1>1, <1>3, <1>7, <1>8, <2>1, <2>3
  <2>4. QED BY <1>6, <1>9, <2>2, <2>3
<1>12. QED
  <2> SUFFICES ASSUME NEW n \in Meters, NEW k \in 1..Len(performed'[n]),
                      NEW l \in 1..Len(performed'[n]), k < l
               PROVE  performed'[n][k].sess < performed'[n][l].sess
    BY DEF PerformedRising
  <2>1. CASE n = m
    <3>1. performed'[n] = p BY <1>10, <2>1
    <3>2. QED BY <1>11, <3>1
  <2>2. CASE n # m BY <1>10, <2>2 DEF PerformedRising
  <2>3. QED BY <2>1, <2>2

(* Victims found by another control have no call yet.                      *)
LEMMA ReadRises ==
    ASSUME Inv, VictimsRising, ReadControl
    PROVE  VictimsRising'
<1> DEFINE control == Head(todo)
           names == FrontNames(control)
           new == [i \in 1..Len(names) |-> Device(names[i])]
<1>1. /\ phase = "reading" /\ todo # <<>> /\ victims' = victims \o new /\ answers' = answers
  BY DEF ReadControl
<1>2. /\ Rising(victims) /\ \A a \in 1..Len(answers) : Before(answers[a].victims, victims)
  BY <1>1 DEF VictimsRising
<1>3. victims \in Seq(Devices) /\ Len(victims) \in Nat /\ todo \in Seq(Controls)
      /\ reconnect \in Commands
  BY RequestType DEF Inv, ServiceTypeOK
<1>4. control \in Controls BY <1>1, <1>3, HeadTailProperties
<1> HIDE DEF control
<1>5. names \in Seq(Names) BY <1>3, <1>4, Recognised
<1>6. new \in Seq(Devices) BY <1>5, NewVictims
<1>7. \A i \in 1..Len(new) : new[i].sess = NoSocket
  <2>1. Len(new) = Len(names) BY <1>5, NewVictims
  <2>2. \A i \in 1..Len(names) : new[i].sess = NoSocket BY DEF Device
  <2>3. QED BY <2>1, <2>2
<1> HIDE DEF new
<1>8. /\ Len(victims') = Len(victims) + Len(new) /\ Len(new) \in Nat
  BY <1>1, <1>3, <1>6, ConcatProperties, LenProperties
<1>9. \A i \in 1..(Len(victims) + Len(new)) :
         victims'[i] = IF i <= Len(victims) THEN victims[i] ELSE new[i - Len(victims)]
  BY <1>1, <1>3, <1>6, ConcatProperties
<1>10. ASSUME NEW i \in 1..Len(victims'), victims'[i].sess # NoSocket
       PROVE  i \in 1..Len(victims) /\ victims'[i] = victims[i]
  <2>1. CASE i <= Len(victims) BY <1>3, <1>8, <1>9, <2>1
  <2>2. CASE ~(i <= Len(victims))
    <3>1. i - Len(victims) \in 1..Len(new) BY <1>3, <1>8, <2>2
    <3>2. victims'[i] = new[i - Len(victims)] BY <1>8, <1>9, <2>2
    <3>3. QED BY <1>7, <1>10, <3>1, <3>2
  <2>3. QED BY <2>1, <2>2
<1>11. Rising(victims') BY <1>2, <1>10 DEF Rising, Below
<1>12. \A a \in 1..Len(answers) : Before(answers[a].victims, victims')
  BY <1>2, <1>10 DEF Before, Below
<1>13. QED BY <1>1, <1>11, <1>12 DEF VictimsRising

(* The victim that is called gets a later session than any before it.      *)
LEMMA CallRises ==
    ASSUME Inv, CallsInTurn, PerformedRising, VictimsRising, AnswersRising,
           NEW s \in Sockets, CallBegins(s) \/ CallFails(s)
    PROVE  CallsInTurn' /\ PerformedRising' /\ VictimsRising' /\ AnswersRising'
<1>1. /\ phase = "sending" /\ next <= Len(victims)
      /\ victims' = [victims EXCEPT ![next].sess = s] /\ answers' = answers
      /\ \E now \in {"pending", "failed"} :
            Accept(s, [meter |-> Url[victims[next].name], cmd |-> reconnect], now)
  BY DEF CallBegins, CallFails
<1>2. /\ CallsInTurn' /\ PerformedRising'
      /\ \A u \in Sockets : outcome[u] # "none" => u < s
  BY <1>1, AcceptInTurn
<1>3. /\ Rising(victims) /\ \A a \in 1..Len(answers) : Before(answers[a].victims, victims)
  BY <1>1 DEF VictimsRising
<1>4. victims \in Seq(Devices) /\ Len(victims) \in Nat /\ next \in 1..Len(victims)
  BY <1>1, RequestType DEF Inv, ServiceTypeOK
<1>5. victims[next] \in Devices BY <1>4, ElementOfSeq
<1> DEFINE v == [victims[next] EXCEPT !.sess = s]
<1>6. v \in Devices /\ v.sess = s BY <1>5 DEF Devices
<1>7. victims' = [victims EXCEPT ![next] = v] BY <1>1
<1> HIDE DEF v
<1>8. /\ Len(victims') = Len(victims) /\ victims'[next] = v
      /\ \A i \in 1..Len(victims) : i # next => victims'[i] = victims[i]
  BY <1>4, <1>6, <1>7, Updated
<1>9. ASSUME NEW i \in 1..Len(victims), i > next PROVE victims[i].sess = NoSocket
  BY <1>9 DEF Inv, ServiceInv, VictimsOK
<1>10. \A i \in 1..Len(victims) : victims[i].sess # NoSocket => victims[i].sess < s
  BY <1>2, CallsWereMade
<1>11. Rising(victims')
  <2> SUFFICES ASSUME NEW i \in 1..Len(victims), NEW j \in 1..Len(victims), i < j,
                      victims'[i].sess # NoSocket, victims'[j].sess # NoSocket
               PROVE  victims'[i].sess < victims'[j].sess
    BY <1>8 DEF Rising, Below
  <2>1. CASE i = next
    <3>1. j > next /\ j # next BY <1>4, <2>1
    <3>2. QED BY <1>8, <1>9, <3>1
  <2>2. CASE i # next /\ j = next BY <1>6, <1>8, <1>10, <2>2
  <2>3. CASE i # next /\ j # next BY <1>3, <1>8, <2>3 DEF Rising, Below
  <2>4. QED BY <2>1, <2>2, <2>3
<1>12. ASSUME NEW a \in 1..Len(answers) PROVE Before(answers[a].victims, victims')
  <2> SUFFICES ASSUME NEW i \in 1..Len(answers[a].victims), NEW j \in 1..Len(victims),
                      answers[a].victims[i].sess # NoSocket, victims'[j].sess # NoSocket
               PROVE  answers[a].victims[i].sess < victims'[j].sess
    BY <1>8 DEF Before, Below
  <2>1. CASE j = next
    <3>1. answers[a].victims[i].sess \in Sockets
          /\ outcome[answers[a].victims[i].sess] # "none"
      BY CallsWereMade
    <3>2. QED BY <1>2, <1>6, <1>8, <2>1, <3>1
  <2>2. CASE j # next BY <1>3, <1>8, <2>2 DEF Before, Below
  <2>3. QED BY <2>1, <2>2
<1>13. QED BY <1>1, <1>2, <1>11, <1>12 DEF VictimsRising, AnswersRising

(* Returning changes no session.                                           *)
LEMMA ReturnRises ==
    ASSUME Inv, CallsInTurn, PerformedRising, VictimsRising, AnswersRising,
           NEW s \in Sockets, CallReturns(s)
    PROVE  CallsInTurn' /\ PerformedRising' /\ VictimsRising' /\ AnswersRising'
<1>1. /\ phase = "calling" /\ phase' = "sending"
      /\ victims' = [victims EXCEPT ![next].failed = HasFailed(s)]
      /\ answers' = answers /\ performed' = performed
  BY DEF CallReturns, Fail, Succeed
<1>2. CallsInTurn'
  <2>1. PICK o \in {"failed", "ok"} : outcome' = [outcome EXCEPT ![s] = o]
    BY DEF CallReturns, Fail, Succeed
  <2>2. outcome \in [Sockets -> {"none", "pending", "failed", "ok"}]
    BY DEF Inv, CallInv, RelayTypeOK
  <2>3. outcome[s] # "none" BY DEF CallReturns, Fail, Succeed
  <2>4. \A t \in Sockets : outcome'[t] # "none" <=> outcome[t] # "none" BY <2>1, <2>2, <2>3
  <2>5. QED BY <2>4 DEF CallsInTurn
<1>3. /\ Rising(victims) /\ \A a \in 1..Len(answers) : Before(answers[a].victims, victims)
  BY <1>1 DEF VictimsRising
<1>4. victims \in Seq(Devices) /\ next \in 1..Len(victims)
  BY <1>1 DEF Inv, ServiceTypeOK
<1>5. victims[next] \in Devices BY <1>4, ElementOfSeq
<1>6. PICK f \in BOOLEAN : f = (outcome'[s] # "ok") OBVIOUS
<1> DEFINE v == [victims[next] EXCEPT !.failed = f]
<1>7. v \in Devices /\ v.sess = victims[next].sess BY <1>5 DEF Devices
<1>8. victims' = [victims EXCEPT ![next] = v] BY <1>1, <1>6 DEF HasFailed
<1> HIDE DEF v
<1>9. /\ Len(victims') = Len(victims) /\ victims'[next] = v
      /\ \A i \in 1..Len(victims) : i # next => victims'[i] = victims[i]
  BY <1>4, <1>7, <1>8, Updated
<1>10. \A i \in 1..Len(victims) : victims'[i].sess = victims[i].sess BY <1>7, <1>9
<1>11. Rising(victims') BY <1>3, <1>9, <1>10 DEF Rising, Below
<1>12. \A a \in 1..Len(answers) : Before(answers[a].victims, victims')
  BY <1>3, <1>9, <1>10 DEF Before, Below
<1>13. QED BY <1>1, <1>2, <1>11, <1>12 DEF PerformedRising, VictimsRising, AnswersRising

(* An answer is added, behind all others.                                  *)
LEMMA AnswerRises ==
    ASSUME Inv, AnswersRising, NEW x \in Answers, answers' = Append(answers, x),
           Rising(x.victims), \A a \in 1..Len(answers) : Before(answers[a].victims, x.victims)
    PROVE  AnswersRising'
<1>1. answers \in Seq(Answers) /\ Len(answers) \in Nat BY RequestType
<1>2. Len(answers') = Len(answers) + 1 BY <1>1, AppendProperties
<1>3. \A k \in 1..Len(answers) : answers'[k] = answers[k] BY <1>1, AppendProperties
<1>4. answers'[Len(answers) + 1] = x BY <1>1, AppendProperties
<1>5. \A k \in 1..Len(answers') : k \in 1..Len(answers) \/ k = Len(answers) + 1
  BY <1>1, <1>2
<1>6. \A k \in 1..Len(answers') : Rising(answers'[k].victims)
  BY <1>3, <1>4, <1>5 DEF AnswersRising
<1>7. ASSUME NEW a \in 1..Len(answers'), NEW b \in 1..Len(answers'), a < b
      PROVE  Before(answers'[a].victims, answers'[b].victims)
  <2>1. a \in 1..Len(answers) BY <1>1, <1>2, <1>7
  <2>2. CASE b \in 1..Len(answers) BY <1>3, <1>7, <2>1, <2>2 DEF AnswersRising
  <2>3. CASE b = Len(answers) + 1 BY <1>3, <1>4, <2>1, <2>3
  <2>4. QED BY <1>5, <2>2, <2>3
<1>8. QED BY <1>6, <1>7 DEF AnswersRising

LEMMA NextOrder == Inv /\ OrderInv /\ [Next]_vars => OrderInv'
<1> SUFFICES ASSUME Inv, [Next]_vars,
                    CallsInTurn, PerformedRising, VictimsRising, AnswersRising
             PROVE  CallsInTurn' /\ PerformedRising' /\ VictimsRising' /\ AnswersRising'
  BY OrderParts DEF OrderInv, CallsInTurn, PerformedRising, VictimsRising, AnswersRising
<1>1. UNCHANGED relayVars => CallsInTurn' /\ PerformedRising'
  BY DEF relayVars, CallsInTurn, PerformedRising
<1>2. answers' = answers => AnswersRising' BY DEF AnswersRising
<1>3. CASE \E r \in Requests : CreateEndDeviceControls(r)
  <2>1. UNCHANGED relayVars /\ answers' = answers /\ victims' = <<>>
    BY <1>3 DEF CreateEndDeviceControls
  <2>2. Len(victims') = 0 BY <2>1, EmptySeq
  <2>3. VictimsRising' BY <2>2 DEF VictimsRising, Rising, Before
  <2>4. QED BY <1>1, <1>2, <2>1, <2>3
<1>4. CASE ReadControl
  <2>1. UNCHANGED relayVars /\ answers' = answers BY <1>4 DEF ReadControl
  <2>2. QED BY <1>1, <1>2, <1>4, <2>1, ReadRises
<1>5. CASE ReadAll \/ SkipUnknown \/ UNCHANGED vars
  <2>1. /\ UNCHANGED relayVars /\ answers' = answers /\ victims' = victims
        /\ phase' # "listening" => phase # "listening"
    BY <1>5 DEF ReadAll, SkipUnknown, vars, serviceVars
  <2>2. VictimsRising' BY <2>1 DEF VictimsRising
  <2>3. QED BY <1>1, <1>2, <2>1, <2>2
<1>6. ASSUME NEW s \in Sockets, MeterPerforms(s)
      PROVE  CallsInTurn' /\ PerformedRising' /\ VictimsRising' /\ AnswersRising'
  <2>1. Perform(s) /\ UNCHANGED serviceVars BY <1>6 DEF MeterPerforms
  <2>2. UNCHANGED <<outcome, answers, victims, phase>> BY <2>1 DEF Perform, serviceVars
  <2>3. CallsInTurn' BY <2>2 DEF CallsInTurn
  <2>4. VictimsRising' BY <2>2 DEF VictimsRising
  <2>5. QED BY <1>2, <2>1, <2>2, <2>3, <2>4, PerformRising
<1>7. ASSUME NEW s \in Sockets, CallBegins(s) \/ CallFails(s) \/ CallReturns(s)
      PROVE  CallsInTurn' /\ PerformedRising' /\ VictimsRising' /\ AnswersRising'
  BY <1>7, CallRises, ReturnRises
<1>8. CASE Respond
  <2> DEFINE x == [message |-> message, victims |-> victims, result |-> Result]
  <2>1. /\ phase = "sending" /\ phase' = "listening" /\ UNCHANGED relayVars
        /\ answers' = Append(answers, x)
    BY <1>8 DEF Respond
  <2>2. x \in Answers BY DEF Inv, ServiceTypeOK, Answers, Result
  <2>3. x.victims = victims OBVIOUS
  <2> HIDE DEF x
  <2>4. /\ Rising(x.victims) /\ \A a \in 1..Len(answers) : Before(answers[a].victims, x.victims)
    BY <2>1, <2>3 DEF VictimsRising
  <2>5. AnswersRising' BY <2>1, <2>2, <2>4, AnswerRises
  <2>6. VictimsRising' BY <2>1 DEF VictimsRising
  <2>7. QED BY <1>1, <2>1, <2>5, <2>6
<1>9. CASE OtherOperation
  <2> DEFINE x == [message |-> <<>>, victims |-> <<>>, result |-> "OK"]
  <2>1. /\ phase = "listening" /\ phase' = phase /\ UNCHANGED relayVars
        /\ answers' = Append(answers, x)
    BY <1>9 DEF OtherOperation
  <2>2. x \in Answers /\ Len(x.victims) = 0 BY EmptySeq DEF Answers
  <2> HIDE DEF x
  <2>3. /\ Rising(x.victims) /\ \A a \in 1..Len(answers) : Before(answers[a].victims, x.victims)
    BY <2>2 DEF Rising, Before
  <2>4. AnswersRising' BY <2>1, <2>2, <2>3, AnswerRises
  <2>5. VictimsRising' BY <2>1 DEF VictimsRising
  <2>6. QED BY <1>1, <2>1, <2>4, <2>5
<1>10. QED BY <1>3, <1>4, <1>5, <1>6, <1>7, <1>8, <1>9 DEF Next, Serve

LEMMA InitOrder == Init => OrderInv
<1> SUFFICES ASSUME Init PROVE OrderInv OBVIOUS
<1>1. \A m \in Meters : Len(performed[m]) = 0 BY EmptySeq DEF Init, RelayInit
<1>2. Len(answers) = 0 /\ phase = "listening" BY EmptySeq DEF Init
<1>3. \A s \in Sockets : outcome[s] = "none" BY DEF Init, RelayInit
<1>4. QED BY <1>1, <1>2, <1>3 DEF OrderInv

LEMMA OrderAlways == Spec => [](Inv /\ OrderInv)
BY InitInv, NextInv, InitOrder, NextOrder, PTL DEF Spec

(* The meters follow the requests: nothing that was asked for earlier is   *)
(* performed after what was asked for later.                               *)
THEOREM IsInOrderOfRequests == Spec => []InOrderOfRequests
<1>1. Inv /\ OrderInv => InOrderOfRequests
  <2> SUFFICES ASSUME Inv, OrderInv PROVE InOrderOfRequests OBVIOUS
  <2> USE DEF InOrderOfRequests
  <2> TAKE a, b \in 1..Len(answers), m \in Meters
  <2> TAKE i \in 1..Len(answers[a].victims), j \in 1..Len(answers[b].victims),
           k, l \in 1..Len(performed[m])
  <2> HAVE /\ a < b \/ (a = b /\ i < j)
           /\ answers[a].victims[i].sess = performed[m][k].sess
           /\ answers[b].victims[j].sess = performed[m][l].sess
  <2> HIDE DEF InOrderOfRequests
  <2> DEFINE E == [sess : Sockets, cmd : Commands]
             p == performed[m][k].sess
             q == performed[m][l].sess
  <2>1. performed[m] \in Seq(E) BY DEF Inv, CallInv, RelayTypeOK
  <2>2. Len(performed[m]) \in Nat BY <2>1, LenProperties
  <2>3. p \in Sockets /\ q \in Sockets
    <3>1. \A e \in E : e.sess \in Sockets OBVIOUS
    <3> HIDE DEF E
    <3>2. performed[m][k] \in E BY <2>1, ElementOfSeq
    <3>3. performed[m][l] \in E BY <2>1, ElementOfSeq
    <3>4. QED BY <3>1, <3>2, <3>3
  <2>4. Below(answers[a].victims[i], answers[b].victims[j])
    <3>1. CASE a < b BY <3>1 DEF OrderInv, Before
    <3>2. CASE a = b /\ i < j BY <3>2 DEF OrderInv, Rising
    <3>3. QED BY <3>1, <3>2
  <2>5. p # NoSocket /\ q # NoSocket => p < q BY <2>4 DEF Below
  <2>6. l < k => q < p BY DEF OrderInv
  <2> HIDE DEF p, q
  <2>7. p \in Nat \ {0} /\ q \in Nat \ {0} BY <2>3, MaxSocketsAssumption DEF Sockets
  <2>8. p < q BY <2>5, <2>7 DEF NoSocket
  <2>9. ~(l < k) BY <2>6, <2>7, <2>8
  <2>10. k # l BY <2>7, <2>8 DEF p, q
  <2>11. QED BY <2>2, <2>9, <2>10
<1>2. QED BY <1>1, OrderAlways, PTL
=============================================================================
