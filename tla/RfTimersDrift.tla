--------------------------- MODULE RfTimersDrift ----------------------------
(***************************************************************************)
(* How exact the software timers are: the operations of RfTimers under any *)
(* use by the RF task, together with a history of the ticks that really    *)
(* happened.  The history is not part of the program.                      *)
(***************************************************************************)
EXTENDS RfTimers

CONSTANT MaxAge   \* bound on the ticks counted while a timer runs

ASSUME MaxAgeAssumption == MaxAge \in Nat

VARIABLES
  armed,     \* the tick count each timer was last armed with
  age,       \* ticks that happened since then while the timer ran
  debt,      \* missed ticks not replayed when it was armed, but for one
  replays    \* replays of missed ticks since it was armed

historyVars == <<armed, age, debt, replays>>
driftVars == <<timerVars, historyVars>>

DriftInit ==
  /\ TimersInit
  /\ armed = [t \in Timers |-> 0]
  /\ age = [t \in Timers |-> 0]
  /\ debt = [t \in Timers |-> 0]
  /\ replays = [t \in Timers |-> 0]

Start(t, v) ==
  /\ timerEnable
  /\ StartBody(t, v)
  /\ armed' = [armed EXCEPT ![t] = v]
  /\ age' = [age EXCEPT ![t] = 0]
  /\ debt' = [debt EXCEPT ![t] = IF noHandle > 1 THEN noHandle - 1 ELSE 0]
  /\ replays' = [replays EXCEPT ![t] = 0]

Stop(t) ==
  /\ timerEnable
  /\ StopBody(t)
  /\ UNCHANGED historyVars

End == ~timerEnable /\ EndWindow /\ UNCHANGED historyVars

Older == [t \in Timers |-> IF t \in seting THEN age[t] + 1 ELSE age[t]]

Bounded == \A t \in seting : age[t] < MaxAge

(* The number of missed ticks is kept below the modulus of the counter: a   *)
(* window is a few instructions, not 2^8 ticks, long.                       *)
TickInWindow ==
  /\ Bounded
  /\ noHandle + 1 < NoHandleMod
  /\ TickMissed
  /\ age' = Older
  /\ UNCHANGED <<armed, debt, replays>>

TickOutside ==
  /\ Bounded
  /\ TickHandled
  /\ age' = Older
  /\ replays' = [t \in Timers |->
                   IF t \in seting /\ noHandle > 0 THEN replays[t] + 1 ELSE replays[t]]
  /\ UNCHANGED <<armed, debt>>

DriftNext ==
  \/ \E t \in Timers : (\E v \in 1 .. MaxValue : Start(t, v)) \/ Stop(t)
  \/ End
  \/ TickInWindow
  \/ TickOutside

DriftSpec == DriftInit /\ [][DriftNext]_driftVars

-----------------------------------------------------------------------------
(* Type invariant. *)
DriftTypeOK ==
  /\ TimersTypeOK
  /\ armed \in [Timers -> 0 .. MaxValue]
  /\ age \in [Timers -> 0 .. MaxAge]
  /\ debt \in [Timers -> 0 .. NoHandleMod]
  /\ replays \in [Timers -> 0 .. MaxAge]

Charged(t) == armed[t] - value[t]

(* A timer is never charged more ticks than have happened since it was      *)
(* armed, but for ticks that were missed before it was armed and are        *)
(* replayed on it: the only way a timeout of the RF protocol comes early    *)
(* (network_os.c:137-144, 152-177).                                         *)
NeverEarly == DriftTypeOK /\ \A t \in seting \cup timeout : Charged(t) <= age[t] + debt[t]

(* A running timer lags behind the ticks that happened by the missed ticks  *)
(* still to be replayed and by one tick for each replay: the loop that      *)
(* replays k missed ticks passes k times and so never makes up for the tick *)
(* that triggers it (network_os.c:152-177).                                 *)
LagBounded == \A t \in seting : age[t] <= Charged(t) + noHandle + replays[t]
=============================================================================
