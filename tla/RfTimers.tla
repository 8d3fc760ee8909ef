------------------------------ MODULE RfTimers ------------------------------
(***************************************************************************)
(* The software timers of the RF network task (network_os.c).  A timer is  *)
(* armed and disarmed by the RF task inside a window in which the tick     *)
(* interrupt may not touch the timer table (_TimerEnable = 0); the tick    *)
(* interrupt counts the ticks that fall into a window in _NoHandleNum and  *)
(* replays them on a later tick.                                           *)
(*                                                                         *)
(* The module defines the state and the bodies of the operations.  RfOs    *)
(* composes them with the message loop, RfTimersDrift with an accounting   *)
(* of real ticks.                                                          *)
(***************************************************************************)
EXTENDS Integers

CONSTANTS
  TimerNum,     \* number of timers, SYS_TIME_MAX_NUM (5 in the firmware)
  MaxValue,     \* bound on the tick counts timers are armed with
  NoHandleMod   \* 2^8: _NoHandleNum is a UINT_8

ASSUME TimerNumAssumption == TimerNum \in Nat \ {0}
ASSUME MaxValueAssumption == MaxValue \in Nat \ {0}
ASSUME NoHandleAssumption == NoHandleMod \in Nat \ {0}

VARIABLES
  value,        \* SYS_Timers.value: ticks left
  seting,       \* SYS_Timers.seting: the timers that run
  timeout,      \* SYS_Timers.timeout: expired, not yet dispatched
  owned,        \* the timers whose taskID is not EMN_TASK_MAX
  timerEnable,  \* _TimerEnable, FALSE inside a window
  noHandle      \* _NoHandleNum: ticks seen while a window was open

timerVars == <<value, seting, timeout, owned, timerEnable, noHandle>>

Timers == 0 .. TimerNum - 1

TimersTypeOK ==
  /\ value \in [Timers -> 0 .. MaxValue]
  /\ seting \subseteq Timers
  /\ timeout \subseteq Timers
  /\ owned \subseteq Timers
  /\ timerEnable \in BOOLEAN
  /\ noHandle \in 0 .. NoHandleMod - 1

(* SYS_TimerInit *)
TimersInit ==
  /\ value = [t \in Timers |-> 0]
  /\ seting = {}
  /\ timeout = {}
  /\ owned = {}
  /\ timerEnable = TRUE
  /\ noHandle = 0

TimersReset ==
  /\ value' = [t \in Timers |-> 0]
  /\ seting' = {}
  /\ timeout' = {}
  /\ owned' = {}
  /\ timerEnable' = TRUE
  /\ noHandle' = 0

-----------------------------------------------------------------------------
(* SYS_StartTimer up to the closing SYS_EnableTimerISR: the table is        *)
(* written while the interrupt is locked out.                               *)
StartBody(t, v) ==
  /\ timerEnable' = FALSE
  /\ value' = [value EXCEPT ![t] = v]
  /\ owned' = owned \cup {t}
  /\ seting' = seting \cup {t}
  /\ timeout' = timeout \ {t}
  /\ UNCHANGED noHandle

(* SYS_StopTimer up to the closing SYS_EnableTimerISR. *)
StopBody(t) ==
  /\ timerEnable' = FALSE
  /\ value' = [value EXCEPT ![t] = 0]
  /\ owned' = owned \ {t}
  /\ seting' = seting \ {t}
  /\ timeout' = timeout \ {t}
  /\ UNCHANGED noHandle

(* SYS_EnableTimerISR *)
EndWindow ==
  /\ timerEnable' = TRUE
  /\ UNCHANGED <<value, seting, timeout, owned, noHandle>>

-----------------------------------------------------------------------------
(* Slips: the loop makes up for the current tick too; missed ticks are lost. *)
PassesPlusOne == noHandle + 1
OnePass == 1

(* How often the do-while loop of SYS_TimersISR walks the table: the loop   *)
(* takes one missed tick off after each pass, so that k missed ticks are    *)
(* replayed by k passes in all, the pass of the current tick included.      *)
Passes == IF noHandle = 0 THEN 1 ELSE noHandle

Expiring == {t \in seting : value[t] <= Passes}

(* SYS_TimersISR inside a window: the tick is only counted. *)
TickMissed ==
  /\ ~timerEnable
  /\ noHandle' = (noHandle + 1) % NoHandleMod
  /\ UNCHANGED <<value, seting, timeout, owned, timerEnable>>

(* SYS_TimersISR outside a window with a timer running.  With no timer      *)
(* running it returns early and leaves _NoHandleNum as it is.               *)
TickHandled ==
  /\ timerEnable
  /\ seting # {}
  /\ value' = [t \in Timers |->
                 IF t \notin seting THEN value[t]
                 ELSE IF value[t] <= Passes THEN 0 ELSE value[t] - Passes]
  /\ seting' = seting \ Expiring
  /\ timeout' = timeout \cup Expiring
  /\ noHandle' = 0
  /\ UNCHANGED <<owned, timerEnable>>

-----------------------------------------------------------------------------
(* A running timer has ticks left, is not expired and is registered: the    *)
(* 32-bit count never passes through zero, and a timer that expires still   *)
(* names the task its EMN_TIMEOUT goes to.                                  *)
TimersCoherent ==
  /\ seting \cap timeout = {}
  /\ seting \cup timeout \subseteq owned
  /\ \A t \in Timers : t \in seting <=> value[t] > 0
=============================================================================
