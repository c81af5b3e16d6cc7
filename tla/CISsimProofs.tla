---------------------------- MODULE CISsimProofs ----------------------------
(***************************************************************************)
(* Proofs about CISsim: with an exact timer, disconnects and reconnects    *)
(* alternate for ever, however long the head end takes to serve a call and *)
(* however often it cannot be reached.                                     *)
(***************************************************************************)
EXTENDS CISsim, SequenceTheorems, TLAPS

(* Each thread has one other thread.                                       *)
LEMMA OtherThread ==
    ASSUME NEW t \in Threads
    PROVE  /\ Other(t) \in Threads
           /\ Other(t) # t
           /\ \A u \in Threads : u = t \/ u = Other(t)
<1>1. \E u \in Threads : u # t
  BY DEF Threads
<1>2. Other(t) \in Threads /\ Other(t) # t
  BY <1>1, Zenon DEF Other
<1> QED
  BY <1>2 DEF Threads

(* Appending to queues of the two lengths at which a thread may call.      *)
LEMMA Queues ==
    ASSUME NEW t \in Threads, NEW u \in Threads
    PROVE  /\ Append(<<>>, t) = <<t>>
           /\ Append(<<u>>, t) = <<u, t>>
           /\ Head(<<t>>) = t /\ Tail(<<t>>) = <<>>
           /\ Head(<<u, t>>) = u /\ Tail(<<u, t>>) = <<t>>
           /\ <<t>> # <<>> /\ <<u, t>> # <<>>
<1>1. Append(<<>>, t) = <<t>>
  BY DEF Threads
<1>2. Append(<<u>>, t) = <<u, t>>
  <2> DEFINE one == <<u>>
             two == <<u, t>>
  <2>1. one \in Seq(Threads) /\ Len(one) = 1 /\ one[1] = u
    OBVIOUS
  <2>2. two \in Seq(Threads) /\ Len(two) = 2 /\ two[1] = u /\ two[2] = t
    OBVIOUS
  <2> HIDE DEF one, two
  <2>3. /\ Append(one, t) \in Seq(Threads) /\ Len(Append(one, t)) = 2
        /\ Append(one, t)[1] = u /\ Append(one, t)[2] = t
    <3>1. /\ Append(one, t) \in Seq(Threads)
          /\ Len(Append(one, t)) = Len(one) + 1
          /\ \A i \in 1..Len(one) : Append(one, t)[i] = one[i]
          /\ Append(one, t)[Len(one) + 1] = t
      <4>1. one \in Seq(Threads) /\ t \in Threads
        BY <2>1
      <4>2. Append(one, t) \in Seq(Threads) /\ Len(Append(one, t)) = Len(one) + 1
        BY <4>1, AppendProperties
      <4>3. \A i \in 1..Len(one) : Append(one, t)[i] = one[i]
        BY <4>1, AppendProperties
      <4>4. Append(one, t)[Len(one) + 1] = t
        BY <4>1, AppendProperties
      <4> QED
        BY <4>2, <4>3, <4>4
    <3>2. 1 + 1 = 2 /\ 1 \in 1..1
      OBVIOUS
    <3> QED
      BY <2>1, <3>1, <3>2
  <2>4. Append(one, t) = two
    BY <2>2, <2>3, SeqEqual
  <2> QED
    BY <2>4 DEF one, two
<1>3. Head(<<t>>) = t /\ Head(<<u, t>>) = u
  OBVIOUS
<1>4. Tail(<<t>>) = <<>> /\ Tail(<<u, t>>) = <<t>>
  OBVIOUS
<1>5. <<t>> # <<>> /\ <<u, t>> # <<>>
  OBVIOUS
<1> QED
  BY <1>1, <1>2, <1>3, <1>4, <1>5

Inv == TypeOK /\ Turns

LEMMA InitInv ==
    Init => Inv
<1> SUFFICES ASSUME Init PROVE Inv
  OBVIOUS
<1> USE DEF Init, FirstTurn
<1>1. Other("reconnect") = "disconnect"
  BY OtherThread DEF Threads
<1>2. TypeOK
  BY HeadStartAssumption, HorizonAssumption DEF TypeOK, Threads
<1>3. Turn("disconnect", "reconnect")
  <2>1. wake["disconnect"] = 0 /\ wake["reconnect"] = HeadStart
    BY DEF Threads
  <2>2. /\ 0 < HeadStart /\ HeadStart - Period < 0 /\ HeadStart - Period <= 0 /\ 0 <= 0
    BY HeadStartAssumption, PeriodAssumption
  <2> QED
    BY <2>1, <2>2 DEF Turn
<1> QED
  BY <1>1, <1>2, <1>3 DEF Inv, Turns

LEMMA NextTypeOK ==
    TypeOK /\ [Next]_vars => TypeOK'
<1> SUFFICES ASSUME TypeOK, [Next]_vars PROVE TypeOK'
  OBVIOUS
<1>0. now \in 0..Horizon /\ began \in 0..Horizon /\ queue \in Seq(Threads)
      /\ asleep \subseteq Threads /\ wake \in [Threads -> Nat] /\ last \in Threads
  BY DEF TypeOK
<1>1. ASSUME NEW t \in Threads, Call(t) PROVE TypeOK'
  <2>1. Deadline \in Nat
    BY <1>0, PeriodAssumption, HorizonAssumption DEF Deadline
  <2>2. queue' \in Seq(Threads)
    BY <1>0, <1>1, AppendProperties DEF Call
  <2> QED
    BY <1>0, <1>1, <2>1, <2>2 DEF Call, TypeOK
<1>2. ASSUME NEW t \in Threads, CallFails(t) PROVE TypeOK'
  <2>1. Deadline \in Nat
    BY <1>0, PeriodAssumption, HorizonAssumption DEF Deadline
  <2> QED
    BY <1>0, <1>2, <2>1 DEF CallFails, TypeOK
<1>3. CASE Response
  <2>1. Head(queue) \in Threads /\ Tail(queue) \in Seq(Threads)
    BY <1>0, <1>3, HeadTailProperties DEF Response
  <2> QED
    BY <1>0, <1>3, <2>1 DEF Response, TypeOK
<1>4. CASE Tick
  BY <1>0, <1>4, HorizonAssumption DEF Tick, TypeOK
<1>5. CASE UNCHANGED vars
  BY <1>5 DEF vars, TypeOK
<1> QED
  BY <1>1, <1>2, <1>3, <1>4, <1>5 DEF Next

(* Whoever calls is the thread whose turn it is: the other one is waiting, *)
(* or sleeps until later.                                                  *)
LEMMA OnlyFirstCalls ==
    ASSUME TypeOK, Turns, NEW t \in Threads, Due(t)
    PROVE  t = Other(last)
<1>1. last \in Threads
  BY DEF TypeOK
<1>2. SUFFICES ASSUME t = last PROVE FALSE
  BY <1>1, OtherThread
<1>3. wake[t] \in Nat /\ wake[Other(last)] \in Nat /\ now \in Nat
  BY <1>1, OtherThread, HorizonAssumption DEF TypeOK
<1>4. Other(last) # last
  BY <1>1, OtherThread
<1>5. wake[Other(last)] < wake[last]
  BY DEF Turns, Turn
<1>6. asleep = Threads /\ now <= wake[Other(last)]
  BY <1>2, <1>4 DEF Turns, Turn, Due
<1> QED
  BY <1>2, <1>3, <1>5, <1>6 DEF Due

(* With an exact timer every step keeps the threads' turns.                *)
LEMMA NextTurns ==
    ASSUME Lateness = 0, TypeOK, Turns, [Next]_vars
    PROVE  Turns'
<1>0. PICK first \in Threads, second \in Threads :
         /\ first = Other(last) /\ second = last
         /\ first # second /\ Other(first) = second
         /\ Threads = {first, second}
  <2>1. last \in Threads
    BY DEF TypeOK
  <2>2. Other(Other(last)) = last
    BY <2>1, OtherThread
  <2> QED
    BY <2>1, <2>2, OtherThread
<1>1. /\ now \in Nat /\ began \in Nat
      /\ wake \in [Threads -> Nat]
      /\ wake[first] \in Nat /\ wake[second] \in Nat
      /\ Period \in Nat
  BY HorizonAssumption, PeriodAssumption DEF TypeOK
<1>2. Turn(first, second)
  BY <1>0 DEF Turns
<1>3. CASE \E t \in Threads : Call(t) \/ CallFails(t)
  <2>1. PICK t \in Threads : Call(t) \/ CallFails(t)
    BY <1>3
  <2>2. t = first
    BY <1>0, <2>1, OnlyFirstCalls DEF Call, CallFails
  <2>3. /\ first \in asleep /\ wake[first] <= now
        /\ last' = first /\ now' = now
        /\ wake' = [wake EXCEPT ![first] = now + Period]
    BY <2>1, <2>2 DEF Call, CallFails, Deadline, Due
  <2>4. wake'[first] = now + Period /\ wake'[second] = wake[second]
    BY <1>0, <1>1, <2>3
  <2>5. SUFFICES Turn(second, first)'
    BY <1>0, <2>3 DEF Turns
  <2>6. (now + Period) - Period = now
    BY <1>1
  <2>7. wake[second] < now + Period
    BY <1>1, <1>2, <2>3, <1>0, Queues DEF Turn
  <2>8. CASE queue = <<>>
    <3>1. now < wake[second] /\ asleep = Threads
      BY <1>0, <1>1, <1>2, <2>8, Queues DEF Turn
    <3>2. CASE Call(first)
      <4>1. queue' = <<first>> /\ asleep' = {second} /\ began' = now
        BY <1>0, <2>8, <3>1, <3>2, Queues DEF Call
      <4> QED
        BY <1>1, <2>3, <2>4, <2>6, <2>7, <3>1, <4>1 DEF Turn
    <3>3. CASE CallFails(first)
      <4>1. queue' = <<>> /\ asleep' = Threads /\ began' = began
        BY <2>8, <3>1, <3>3 DEF CallFails
      <4>2. began <= now
        BY <1>2 DEF Turn
      <4> QED
        BY <1>1, <2>3, <2>4, <2>6, <2>7, <3>1, <4>1, <4>2 DEF Turn
    <3> QED
      BY <2>1, <2>2, <3>2, <3>3
  <2>9. CASE queue # <<>>
    <3>1. queue = <<second>> /\ asleep = {first} /\ (now <= wake[first] \/ began = now)
      BY <1>2, <2>3, <2>9 DEF Turn
    <3>2. queue' = <<second, first>> /\ asleep' = {} /\ began' = began
      BY <2>1, <2>2, <2>9, <3>1, Queues DEF Call, CallFails
    <3>3. now < wake[second] \/ now <= began
      BY <1>1, <1>2, <3>1 DEF Turn
    <3>4. began <= now
      BY <1>2 DEF Turn
    <3> QED
      BY <1>1, <2>3, <2>4, <2>6, <2>7, <3>2, <3>3, <3>4 DEF Turn
  <2> QED
    BY <2>8, <2>9
<1>4. CASE Response
  <2>1. /\ queue # <<>> /\ began < now
        /\ now' = now /\ wake' = wake /\ last' = last /\ began' = now
        /\ asleep' = asleep \cup {Head(queue)} /\ queue' = Tail(queue)
    BY <1>4 DEF Response
  <2>2. SUFFICES Turn(first, second)'
    BY <1>0, <2>1 DEF Turns
  <2>3. CASE queue = <<second>>
    <3>1. queue' = <<>> /\ asleep' = Threads
      BY <1>0, <1>2, <2>1, <2>3, Queues DEF Turn
    <3>2. now <= wake[first]
      BY <1>0, <1>1, <1>2, <2>1, <2>3, Queues DEF Turn
    <3>3. wake[second] - Period < wake[first] \/ wake[second] - Period < now
      BY <1>2, <2>3 DEF Turn
    <3> QED
      BY <1>1, <1>2, <2>1, <3>1, <3>2, <3>3 DEF Turn
  <2>4. CASE queue = <<first, second>>
    <3>1. queue' = <<second>> /\ asleep' = {first}
      BY <1>0, <1>2, <2>1, <2>4, Queues DEF Turn
    <3>2. wake[second] - Period < wake[first] \/ wake[second] - Period < now
      BY <1>1, <1>2, <2>1, <2>4 DEF Turn
    <3>3. wake[first] < wake[second] /\ wake[second] - Period <= now
      BY <1>2 DEF Turn
    <3>4. now <= now
      BY <1>1
    <3> QED
      BY ONLY <2>1, <3>1, <3>2, <3>3, <3>4, Zenon DEF Turn
  <2> QED
    BY <1>2, <2>1, <2>3, <2>4 DEF Turn
<1>5. CASE Tick
  <2>1. /\ now' = now + 1
        /\ wake' = wake /\ last' = last /\ began' = began
        /\ asleep' = asleep /\ queue' = queue
    BY <1>5 DEF Tick
  <2>2. \A t \in asleep : now < wake[t]
    BY <1>0, <1>1, <1>2, <1>5 DEF Tick, Turn
  <2>3. SUFFICES Turn(first, second)'
    BY <1>0, <2>1 DEF Turns
  <2>4. first \in asleep => now + 1 <= wake[first]
    BY <1>1, <2>2
  <2> QED
    BY <1>0, <1>1, <1>2, <2>1, <2>4 DEF Turn
<1>6. CASE UNCHANGED vars
  BY <1>6 DEF vars, Turns, Turn, Other
<1> QED
  BY <1>3, <1>4, <1>5, <1>6 DEF Next

(* Whatever the timer and the head end do, every time point is a time, the *)
(* clock stays in its bounds and the queue holds threads' calls.           *)
THEOREM TypeCorrect == Spec => []TypeOK
<1>1. Init => TypeOK BY InitInv DEF Inv
<1>2. QED BY <1>1, NextTypeOK, PTL DEF Spec

(* The threads' turns hold in every state, for every period, every head    *)
(* start shorter than it and every service time, if the timer is exact.    *)
THEOREM TurnsHold ==
    ASSUME Lateness = 0
    PROVE  Spec => []Turns
<1>1. Init => Inv
  BY InitInv
<1>2. Inv /\ [Next]_vars => Inv'
  BY NextTypeOK, NextTurns DEF Inv
<1>3. Inv => Turns
  BY DEF Inv
<1> QED
  BY <1>1, <1>2, <1>3, PTL DEF Spec

(* Hence a reconnect never follows a reconnect, nor a disconnect a         *)
(* disconnect.                                                             *)
THEOREM AlternatesForEver ==
    ASSUME Lateness = 0
    PROVE  Spec => Alternates
<1>1. Init => Inv
  BY InitInv
<1>2. Inv /\ [Next]_vars => Inv'
  BY NextTypeOK, NextTurns DEF Inv
<1>3. Inv /\ [Next]_vars => [\A t \in Threads : Call(t) \/ CallFails(t) => t # last]_vars
  <2> SUFFICES ASSUME Inv, NEW t \in Threads, Call(t) \/ CallFails(t)
               PROVE  t # last
    OBVIOUS
  <2>1. t = Other(last)
    BY OnlyFirstCalls DEF Inv, Call, CallFails
  <2> QED
    BY <2>1, OtherThread DEF Inv, TypeOK
<1> QED
  BY <1>1, <1>2, <1>3, PTL DEF Spec, Alternates
=============================================================================
