------------------------------- MODULE CISsim -------------------------------
(***************************************************************************)
(* The customer information system (CISsim.cpp): two detached threads,     *)
(* one for disconnects and one for reconnects, that share nothing but a    *)
(* head start.  Each notes when its next turn is due, makes its call,      *)
(* waits for the answer and sleeps until then.  The head end's SOAP        *)
(* service takes one connection after the other, in the order they came.   *)
(*                                                                         *)
(* Time is counted in ticks; how long a call is served is open.            *)
(***************************************************************************)
EXTENDS Integers, Sequences

CONSTANTS
    Period,      \* 10 seconds
    HeadStart,   \* 2 seconds
    Lateness,    \* how much later than due sleep_until may return
    Horizon      \* bound on the time of a behaviour

ASSUME HeadStartAssumption == HeadStart \in Nat \ {0}
ASSUME PeriodAssumption == Period \in Nat /\ Period > HeadStart
ASSUME LatenessAssumption == Lateness \in Nat
ASSUME HorizonAssumption == Horizon \in Nat

Threads == {"disconnect", "reconnect"}

VARIABLES
    now,      \* the steady clock
    asleep,   \* the threads in sleep_until, or in main's sleep_for
    wake,     \* x, the time point a thread sleeps until
    queue,    \* the calls at the head end, in the order they came
    began,    \* since when the first of them is served
    last      \* history: who called last

vars == <<now, asleep, wake, queue, began, last>>

TypeOK ==
    /\ now \in 0..Horizon
    /\ asleep \subseteq Threads
    /\ wake \in [Threads -> Nat]
    /\ queue \in Seq(Threads)
    /\ began \in 0..Horizon
    /\ last \in Threads

FirstTurn_NoHeadStart ==            \* mutant: main does not sleep
    [t \in Threads |-> 0]

(* main starts one thread, sleeps, and starts the other.                   *)
FirstTurn == [t \in Threads |-> IF t = "reconnect" THEN HeadStart ELSE 0]

Init ==
    /\ now = 0
    /\ asleep = Threads
    /\ wake = FirstTurn
    /\ queue = <<>>
    /\ began = 0
    /\ last = "reconnect"

-----------------------------------------------------------------------------
(* x of timer_start's loop, computed before the call is made.              *)
Deadline == now + Period

Due(t) == t \in asleep /\ wake[t] <= now

(* A turn of the loop begins, and its call reaches the head end.           *)
Call(t) ==
    /\ Due(t)
    /\ wake' = [wake EXCEPT ![t] = Deadline]
    /\ asleep' = asleep \ {t}
    /\ queue' = Append(queue, t)
    /\ began' = IF queue = <<>> THEN now ELSE began
    /\ last' = t
    /\ now' = now

(* The head end cannot be reached (one that serves a call can): run_client *)
(* prints the fault, and the thread sleeps again.                          *)
CallFails(t) ==
    /\ Due(t)
    /\ queue = <<>>
    /\ wake' = [wake EXCEPT ![t] = Deadline]
    /\ last' = t
    /\ UNCHANGED <<now, asleep, queue, began>>

Response_SleepsAPeriod ==           \* mutant: x is computed after the call
    /\ queue # <<>>
    /\ began < now
    /\ wake' = [wake EXCEPT ![Head(queue)] = now + Period]
    /\ asleep' = asleep \cup {Head(queue)}
    /\ queue' = Tail(queue)
    /\ began' = now
    /\ UNCHANGED <<now, last>>

(* run_client gets its response; the thread sleeps until x, which may be   *)
(* in the past.  To serve a call takes time.                               *)
Response ==
    /\ queue # <<>>
    /\ began < now
    /\ asleep' = asleep \cup {Head(queue)}
    /\ queue' = Tail(queue)
    /\ began' = now
    /\ UNCHANGED <<now, wake, last>>

(* Time passes, but not past a thread that has to wake up.                 *)
Tick ==
    /\ now < Horizon
    /\ \A t \in asleep : now < wake[t] + Lateness
    /\ now' = now + 1
    /\ UNCHANGED <<asleep, wake, queue, began, last>>

Next ==
    \/ \E t \in Threads : Call(t) \/ CallFails(t)
    \/ Response
    \/ Tick

Spec == Init /\ [][Next]_vars

-----------------------------------------------------------------------------
(* Properties.                                                             *)

Other(t) == CHOOSE u \in Threads : u # t

(* Disconnects and reconnects take turns, however long the head end takes: *)
(* a thread that was delayed by the head end was delayed behind the other  *)
(* thread's call, which therefore comes first again.                       *)
Alternates == [][\A t \in Threads : Call(t) \/ CallFails(t) => t # last]_vars

(* Why.  The thread whose turn it is (first) sleeps until an earlier time  *)
(* than the one that called last (second), or its call is in front of the  *)
(* other's; and once it is overdue, the other's call has only begun to be  *)
(* served.  This is inductive.                                             *)
Turn(first, second) ==
    /\ wake[first] < wake[second]
    /\ wake[second] - Period <= now
    /\ began <= now
    /\ \/ /\ queue = <<>> /\ asleep = Threads
          /\ now <= wake[first]
       \/ /\ queue = <<second>> /\ asleep = {first}
          /\ now <= wake[first] \/ began = now
       \/ /\ queue = <<first, second>> /\ asleep = {}
          /\ wake[second] - Period < wake[first] \/ wake[second] - Period <= began
    /\ queue # <<first, second>> =>
          wake[second] - Period < wake[first] \/ wake[second] - Period < now

Turns == Turn(Other(last), last)
=============================================================================
