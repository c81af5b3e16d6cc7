---------------------------- MODULE SimpleTimer -----------------------------
(***************************************************************************)
(* The timer of the platform layer (LinuxSimpleTimer.cpp): a deadline in   *)
(* milliseconds, compared with a tick count that wraps (at 2^32, after     *)
(* some 50 days).  Nobody calls back; the timer's owner asks IsExpired     *)
(* again and again, and may let up to Gap ticks pass in between.           *)
(***************************************************************************)
EXTENDS Integers

CONSTANTS
    Wrap,        \* how many tick counts there are: 2^32
    Gap,         \* bound on the ticks between two questions of the owner
    Durations,   \* what Initialize is given
    MaxLate      \* bound on how far past its deadline a timer is followed

ASSUME WrapAssumption == Wrap \in Nat /\ Wrap > 1
ASSUME GapAssumption == Gap \in Nat /\ Gap < Wrap
ASSUME DurationsAssumption == Durations \subseteq 0..(Wrap - 1)
ASSUME MaxLateAssumption == MaxLate \in Nat

VARIABLES
    tick,                       \* GetTickCount()
    m_State,
    m_DurationInMilliseconds,
    m_End,
    waited,                     \* ticks since the last Start or IsExpired
    left                        \* history: ticks until a running timer is due

timerVars == <<m_State, m_DurationInMilliseconds, m_End>>
vars == <<tick, timerVars, waited, left>>

Ticks == 0..(Wrap - 1)
Running == m_State = "RUNNING"

TypeOK ==
    /\ tick \in Ticks
    /\ m_State \in {"IDLE", "RUNNING", "EXPIRED"}
    /\ m_DurationInMilliseconds \in Ticks
    /\ m_End \in Ticks
    /\ waited \in 0..Gap
    /\ left \in Int

Init ==
    /\ tick \in Ticks
    /\ m_State = "IDLE"
    /\ m_DurationInMilliseconds = 0
    /\ m_End = 0
    /\ waited = 0
    /\ left = 0

-----------------------------------------------------------------------------
(* Unsigned addition: neither number exceeds Wrap - 1.                     *)
Wrapped(n) == IF n >= Wrap THEN n - Wrap ELSE n

Initialize(duration) ==
    /\ m_DurationInMilliseconds' = duration
    /\ UNCHANGED <<tick, m_State, m_End, waited, left>>

Start_Signed ==                     \* mutant: the sum does not wrap
    /\ m_State' = "RUNNING"
    /\ m_End' = tick + m_DurationInMilliseconds
    /\ waited' = 0
    /\ left' = m_DurationInMilliseconds
    /\ UNCHANGED <<tick, m_DurationInMilliseconds>>

Start_KeepsEnd ==                   \* mutant: a running timer keeps its deadline
    /\ m_State' = "RUNNING"
    /\ m_End' = IF Running THEN m_End ELSE Wrapped(tick + m_DurationInMilliseconds)
    /\ waited' = 0
    /\ left' = m_DurationInMilliseconds
    /\ UNCHANGED <<tick, m_DurationInMilliseconds>>

Start ==
    /\ m_State' = "RUNNING"
    /\ m_End' = Wrapped(tick + m_DurationInMilliseconds)
    /\ waited' = 0
    /\ left' = m_DurationInMilliseconds
    /\ UNCHANGED <<tick, m_DurationInMilliseconds>>

Stop ==
    /\ m_State' = "IDLE"
    /\ UNCHANGED <<tick, m_DurationInMilliseconds, m_End, waited, left>>

Reached_Exactly == tick = m_End     \* mutant: equal instead of at or past

Reached == tick >= m_End

(* true, once for each Start.                                              *)
IsExpired ==
    /\ Running /\ Reached
    /\ m_State' = "EXPIRED"
    /\ waited' = 0
    /\ UNCHANGED <<tick, m_DurationInMilliseconds, m_End, left>>

(* false: the timer is not running, or its end has not been reached.       *)
IsNotExpired ==
    /\ ~(Running /\ Reached)
    /\ waited' = 0
    /\ UNCHANGED <<tick, timerVars, left>>

(* CLOCK_MONOTONIC goes on.  The owner of a running timer asks in time.    *)
GetTickCount(n) ==
    /\ Running => waited + n <= Gap /\ left - n >= -MaxLate
    /\ tick' = Wrapped(tick + n)
    /\ waited' = IF Running THEN waited + n ELSE waited
    /\ left' = IF Running THEN left - n ELSE left
    /\ UNCHANGED timerVars

Next ==
    \/ \E d \in Durations : Initialize(d)
    \/ Start \/ Stop
    \/ IsExpired \/ IsNotExpired
    \/ \E n \in 1..Gap : GetTickCount(n)

Spec == Init /\ [][Next]_vars

-----------------------------------------------------------------------------
(* Properties.                                                             *)

(* A timer is reported before it is due only while the tick count has      *)
(* still to wrap before it is: until then IsExpired's comparison holds at  *)
(* once, however long the timer was set for.                               *)
EarlyOnlyAcrossWrap ==
    [][IsExpired => left <= 0 \/ tick + left >= Wrap]_vars

(* Asked every Gap ticks, a timer that is due more than that before the    *)
(* tick count wraps is reported within Gap ticks of being due.  (One that  *)
(* is due closer to the wrap may be missed, and then runs for 2^32 more.)  *)
ReportedInTime == Running /\ left < -Gap => m_End + Gap >= Wrap
=============================================================================
