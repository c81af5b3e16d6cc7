------------------------- MODULE SimpleTimerProofs --------------------------
(***************************************************************************)
(* What SimpleTimer promises its owner, for every width of the tick count, *)
(* every set of durations and every gap between two questions shorter than *)
(* a turn of the tick count.                                               *)
(***************************************************************************)
EXTENDS SimpleTimer, TLAPS

-----------------------------------------------------------------------------
(* The inductive invariant, in parts.                                      *)

(* For ReportedInTime and EarlyOnlyAcrossWrap: m_End is where the tick     *)
(* count was or will be when the timer is due: in this turn of the tick    *)
(* count, in the next, or (if it was missed) in one before; and who asked  *)
(* when it was due has been told.                                          *)
DueInThisTurn == tick + left = m_End
DueInTheNext == tick + left = m_End + Wrap
TimerInv ==
    Running =>
        /\ left >= -waited \/ m_End + Gap >= Wrap
        /\ left > 0 => DueInThisTurn \/ DueInTheNext
        /\ m_End + Gap < Wrap => DueInThisTurn \/ DueInTheNext

USE WrapAssumption, GapAssumption, DurationsAssumption, MaxLateAssumption

(* Unsigned addition of two tick counts yields a tick count.               *)
LEMMA WrappedTick ==
    ASSUME NEW a \in Ticks, NEW b \in Ticks
    PROVE  /\ Wrapped(a + b) \in Ticks
           /\ a + b = Wrapped(a + b) \/ a + b = Wrapped(a + b) + Wrap
BY SMT DEF Wrapped, Ticks

LEMMA InitInv == Init => TypeOK /\ TimerInv
BY SMT DEF Init, TypeOK, TimerInv, Running, Ticks

(* Every step keeps the types of the timer's variables.                    *)
LEMMA TypeStep == TypeOK /\ [Next]_vars => TypeOK'
<1> SUFFICES ASSUME TypeOK, [Next]_vars PROVE TypeOK'
    OBVIOUS
<1> USE DEF TypeOK
<1>1. ASSUME NEW d \in Durations, Initialize(d) PROVE TypeOK'
    BY <1>1, SMT DEF Initialize, Ticks
<1>2. CASE Start
    <2>1. Wrapped(tick + m_DurationInMilliseconds) \in Ticks
        BY WrappedTick
    <2> QED BY <1>2, <2>1, SMT DEF Start, Ticks
<1>3. CASE Stop
    BY <1>3 DEF Stop
<1>4. CASE IsExpired
    BY <1>4, SMT DEF IsExpired
<1>5. CASE IsNotExpired
    BY <1>5, SMT DEF IsNotExpired, timerVars
<1>6. ASSUME NEW n \in 1..Gap, GetTickCount(n) PROVE TypeOK'
    <2>1. n \in Ticks
        BY SMT DEF Ticks
    <2>2. Wrapped(tick + n) \in Ticks
        BY <2>1, WrappedTick
    <2> QED BY <1>6, <2>2, SMT DEF GetTickCount, timerVars, Running
<1>7. CASE UNCHANGED vars
    BY <1>7 DEF vars, timerVars
<1> QED BY <1>1, <1>2, <1>3, <1>4, <1>5, <1>6, <1>7 DEF Next

(* A timer that starts is due at its end, in this turn or in the next.     *)
LEMMA StartInv == TypeOK /\ Start => TimerInv'
<1> SUFFICES ASSUME TypeOK, Start PROVE TimerInv'
    OBVIOUS
<1>1. /\ tick' = tick /\ waited' = 0
      /\ left' = m_DurationInMilliseconds
      /\ m_End' = Wrapped(tick + m_DurationInMilliseconds)
    BY DEF Start
<1>2. tick \in Ticks /\ m_DurationInMilliseconds \in Ticks
    BY DEF TypeOK
<1>3. left' >= -waited'
    BY <1>1, <1>2, SMT DEF Ticks
<1>4. (DueInThisTurn \/ DueInTheNext)'
    <2>1. \/ tick + m_DurationInMilliseconds = Wrapped(tick + m_DurationInMilliseconds)
          \/ tick + m_DurationInMilliseconds =
                 Wrapped(tick + m_DurationInMilliseconds) + Wrap
        BY <1>2, WrappedTick
    <2> QED BY <1>1, <2>1 DEF DueInThisTurn, DueInTheNext
<1> QED BY <1>3, <1>4 DEF TimerInv

(* A question that is answered false leaves a timer that is not yet due or *)
(* whose end is close to the wrap.                                         *)
LEMMA NotExpiredInv == TypeOK /\ TimerInv /\ IsNotExpired => TimerInv'
<1> SUFFICES ASSUME TypeOK, TimerInv, IsNotExpired PROVE TimerInv'
    OBVIOUS
<1>1. CASE ~Running
    BY <1>1 DEF TimerInv, IsNotExpired, timerVars, Running
<1>2. CASE Running
    <2>1. tick < m_End
        BY <1>2, SMT DEF IsNotExpired, Reached, TypeOK, Ticks
    <2> QED BY <1>2, <2>1, SMT DEF TimerInv, IsNotExpired, timerVars, Running,
                TypeOK, DueInThisTurn, DueInTheNext, Ticks
<1> QED BY <1>1, <1>2

(* Time passes: a timer that must be reported in this turn of the tick     *)
(* count is, because its owner asks before the tick count wraps.           *)
LEMMA AdvanceInv ==
    ASSUME NEW n \in 1..Gap, TypeOK, TimerInv, GetTickCount(n)
    PROVE  TimerInv'
<1>1. CASE ~Running
    BY <1>1 DEF TimerInv, GetTickCount, timerVars, Running
<1>2. CASE Running
    <2>1. /\ waited' = waited + n /\ left' = left - n
          /\ waited' <= Gap
          /\ m_End' = m_End
          /\ tick' \in {tick + n, tick + n - Wrap}
          /\ tick' = IF tick + n >= Wrap THEN tick + n - Wrap ELSE tick + n
        BY <1>2, SMT DEF GetTickCount, timerVars, Wrapped, TypeOK, Ticks
    <2>2. /\ left >= -waited \/ m_End + Gap >= Wrap
          /\ left > 0 => DueInThisTurn \/ DueInTheNext
          /\ m_End + Gap < Wrap => DueInThisTurn \/ DueInTheNext
        BY <1>2 DEF TimerInv
    <2>3. left' >= -waited' \/ m_End' + Gap >= Wrap
        BY <2>1, <2>2, SMT DEF TypeOK
    <2>4. left' > 0 => (DueInThisTurn \/ DueInTheNext)'
        BY <2>1, <2>2, SMT DEF TypeOK, DueInThisTurn, DueInTheNext, Ticks
    <2>5. m_End' + Gap < Wrap => (DueInThisTurn \/ DueInTheNext)'
        BY <2>1, <2>2, <2>3, SMT DEF TypeOK, DueInThisTurn, DueInTheNext, Ticks
    <2> QED BY <2>3, <2>4, <2>5 DEF TimerInv
<1> QED BY <1>1, <1>2

(* TimerInv is inductive with TypeOK.                                      *)
LEMMA InvStep == TypeOK /\ TimerInv /\ [Next]_vars => TimerInv'
<1> SUFFICES ASSUME TypeOK, TimerInv, [Next]_vars PROVE TimerInv'
    OBVIOUS
<1>1. ASSUME NEW d \in Durations, Initialize(d) PROVE TimerInv'
    BY <1>1 DEF Initialize, TimerInv, Running, DueInThisTurn, DueInTheNext
<1>2. CASE Start
    BY <1>2, StartInv
<1>3. CASE Stop
    BY <1>3 DEF Stop, TimerInv, Running
<1>4. CASE IsExpired
    BY <1>4 DEF IsExpired, TimerInv, Running
<1>5. CASE IsNotExpired
    BY <1>5, NotExpiredInv
<1>6. ASSUME NEW n \in 1..Gap, GetTickCount(n) PROVE TimerInv'
    BY <1>6, AdvanceInv
<1>7. CASE UNCHANGED vars
    BY <1>7 DEF vars, timerVars, TimerInv, Running, DueInThisTurn, DueInTheNext
<1> QED BY <1>1, <1>2, <1>3, <1>4, <1>5, <1>6, <1>7 DEF Next

(* The variables of LinuxSimpleTimer keep their types: in particular the   *)
(* deadline is a tick count, whatever the timer is set for.                *)
THEOREM TypeCorrect == Spec => []TypeOK
<1>1. Init => TypeOK
    BY InitInv
<1> QED BY <1>1, TypeStep, PTL DEF Spec

(* IsExpired reports a timer at most Gap ticks after it is due, if it is   *)
(* due more than Gap ticks before the tick count wraps.                    *)
THEOREM InTime == Spec => []ReportedInTime
<1>1. TypeOK /\ TimerInv => ReportedInTime
    BY SMT DEF TypeOK, TimerInv, ReportedInTime, DueInThisTurn, DueInTheNext, Ticks
<1> QED BY <1>1, InitInv, TypeStep, InvStep, PTL DEF Spec

(* IsExpired reports a timer that is not due only before the wrap that     *)
(* lies between the start and the deadline.                                *)
THEOREM NeverEarlyOtherwise == Spec => EarlyOnlyAcrossWrap
<1>1. TypeOK /\ TimerInv /\ [Next]_vars =>
          [IsExpired => left <= 0 \/ tick + left >= Wrap]_vars
    <2> SUFFICES ASSUME TypeOK, TimerInv, IsExpired, ~(left <= 0)
                 PROVE  tick + left >= Wrap
        OBVIOUS
    <2>1. tick + left = m_End \/ tick + left = m_End + Wrap
        BY SMT DEF TimerInv, IsExpired, TypeOK, DueInThisTurn, DueInTheNext
    <2>2. tick >= m_End
        BY DEF IsExpired, Reached
    <2> QED BY <2>1, <2>2, SMT DEF TypeOK, Ticks
<1> QED BY <1>1, InitInv, TypeStep, InvStep, PTL DEF Spec, EarlyOnlyAcrossWrap
=============================================================================
