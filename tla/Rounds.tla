------------------------------- MODULE Rounds -------------------------------
(* The rounds of the third-device task and the time they take: the list of  *)
(* devices, the count each keeps of the rounds since its last poll, and the *)
(* watchdog of the task, which is fed only between two rounds.              *)
(*                                                                          *)
(* External: time, in ticks; a delay shorter than one counts as at most     *)
(* one.  What a poll says on the bus is in module Modbus; here it takes at  *)
(* most PollTime, the sum of its time limits and retries.                   *)
EXTENDS Naturals
CONSTANTS
  Table,                     \* number of devices in thirddevicetable.txt
  Period,                    \* per device: rounds from one poll to the next
  PollTime,                  \* longest poll
  Deadline                   \* of the watchdog: 60*60*1000
\* The code checks none of the last: see Deadline in README.md.
ASSUME RoundsAssumption ==
  /\ Table \in Nat /\ Period \in [1 .. Table -> Nat]
  /\ PollTime \in Nat /\ Deadline \in Nat
  /\ Table * PollTime + 2 < Deadline

VARIABLES
  place,                     \* of the task: load, failed, count, visit, poll, rest
  listed,                    \* devices in the list ThirdDevLinkRoot, the first of the table
  pNode,                     \* the next of them to visit
  cur,                       \* poll_timer->cur, up to top: only cur >= top is asked
  sinceFed,                  \* the watchdog: ticks since it was fed
  waited                     \* ticks the task has waited where it is
listVars == <<listed, cur>>
roundVars == <<place, listVars, pNode, sinceFed, waited>>

Least(a, b) == IF a < b THEN a ELSE b
Go(p) == place' = p /\ waited' = 0
RoundsInit ==
  /\ place = "load" /\ listed = 0 /\ pNode = 1 /\ cur = [d \in 1 .. Table |-> 0]
  /\ sinceFed = 0 /\ waited = 0

(***************************************************************************)
(* The table is read; registering stops at the first device that has no    *)
(* driver or finds no memory, and the others are polled all the same.      *)
(***************************************************************************)
LoadThirdDevFormSDCard ==
  /\ place = "load"
  /\ \/ listed' \in 0 .. Table /\ Go("count")
     \/ UNCHANGED listed /\ Go("failed")              \* no memory for the table
  /\ UNCHANGED <<cur, pNode, sinceFed>>
StayFailed ==
  /\ place = "failed" /\ Go("failed") /\ sinceFed' = 0
  /\ UNCHANGED <<listVars, pNode>>

(***************************************************************************)
(* A round: every count goes up, then the devices whose count is full are  *)
(* polled one after the other.                                             *)
(***************************************************************************)
Third_Device_Timer_Inc ==
  /\ place = "count" /\ Go("visit") /\ pNode' = 1
  /\ cur' = [d \in 1 .. Table |-> IF d <= listed THEN Least(cur[d] + 1, Period[d]) ELSE 0]
  /\ UNCHANGED <<listed, sinceFed>>
Skip ==
  /\ place = "visit" /\ pNode <= listed /\ cur[pNode] < Period[pNode]
  /\ pNode' = pNode + 1
  /\ UNCHANGED <<place, listVars, sinceFed, waited>>
Poll(d) ==
  /\ place = "visit" /\ pNode = d /\ d <= listed /\ cur[d] >= Period[d]
  /\ cur' = [cur EXCEPT ![d] = 0] /\ Go("poll")
  /\ UNCHANGED <<listed, pNode, sinceFed>>
\* A good sample feeds, too, but only while the server is connected.
Polled ==
  /\ place = "poll" /\ Go("visit") /\ pNode' = pNode + 1
  /\ sinceFed' \in {0, sinceFed}
  /\ UNCHANGED listVars
RoundOver ==
  /\ place = "visit" /\ pNode > listed /\ Go("rest")
  /\ UNCHANGED <<listVars, pNode, sinceFed>>
RestFeedsIdle ==              \* A slip: only a round with no device to poll feeds
  /\ place = "rest" /\ Go("count") /\ sinceFed' = (IF listed = 0 THEN 0 ELSE sinceFed)
  /\ UNCHANGED <<listVars, pNode>>
Rest ==
  /\ place = "rest" /\ Go("count") /\ sinceFed' = 0
  /\ UNCHANGED <<listVars, pNode>>

\* Time passes where the task waits, up to the limit of that wait.
Limit == IF place = "poll" THEN PollTime ELSE 1
TimePasses ==
  /\ place \in {"load", "failed", "poll", "rest"} /\ waited < Limit
  /\ waited' = waited + 1 /\ sinceFed' = sinceFed + 1
  /\ UNCHANGED <<place, listVars, pNode>>

TaskSteps == \/ LoadThirdDevFormSDCard \/ StayFailed \/ Third_Device_Timer_Inc \/ Skip
             \/ (\E d \in 1 .. Table : Poll(d)) \/ Polled \/ RoundOver \/ Rest
RoundsNext == TaskSteps \/ TimePasses
RoundsSpec == RoundsInit /\ [][RoundsNext]_roundVars

-----------------------------------------------------------------------------
(* Type invariant. *)
RoundsTypeOK ==
  /\ place \in {"load", "failed", "count", "visit", "poll", "rest"}
  /\ listed \in 0 .. Table /\ pNode \in 1 .. Table + 1
  /\ cur \in [1 .. Table -> Nat] /\ \A d \in 1 .. Table : cur[d] <= Period[d]
  /\ sinceFed \in Nat /\ waited \in Nat

(* However many devices are due in one round, and whether they answer or not, *)
(* the watchdog of a task that works is fed in time: with a table whose polls *)
(* fit into the hour together (third_device.c:395-420).                       *)
FedInTime == RoundsTypeOK /\ sinceFed < Deadline
=============================================================================
