------------------------------- MODULE Keeper -------------------------------
(* What keeps the gateway alive: the software watchdogs of the tasks, the   *)
(* task that restarts the gateway when one of them expires or the supply    *)
(* voltage drops, and the log task, whose semaphore both wait for.  The     *)
(* tasks are reduced to their priority, their watchdog and the locks they   *)
(* hold.                                                                    *)
(*                                                                          *)
(* External: the MQX scheduler (the highest ready priority runs; destroying *)
(* a task releases none of its locks), the lock of the file system, time.   *)
EXTENDS Naturals, FiniteSets
CONSTANTS
  LOG_POOL_SIZE,             \* messages of the log
  MaxStuck                   \* bound: tasks that get stuck between two restarts
ASSUME KeeperAssumption == LOG_POOL_SIZE \in Nat \ {0} /\ MaxStuck \in Nat

VARIABLES
  cond,                      \* per task: ok, loops, blocked, gone
  dog,                       \* watchdogs: off, fed, stale
  third,                     \* third-device task: does it still load its table of devices?
  TaskIndex,                 \* whose watchdog expired
  LowVolFlag,
  keeper,                    \* watchdog task: where it is
  logger,                    \* log task: where it is
  writesem,                  \* pDiCorLog->writesem: who holds it
  card,                      \* lock of the file system: who holds it
  queued, leaked             \* messages of the log: waiting, never freed

\* From the highest priority down; the watchdog task itself is above them all.
Order == [log |-> 9, rf |-> 10, upload |-> 11, telnet |-> 12, third |-> 13, connect |-> 14,
          lost |-> 17, shell |-> 18]
Tasks == DOMAIN Order
dogVars == <<cond, dog, third>>
keepVars == <<TaskIndex, keeper>>
logVars  == <<logger, queued, leaked>>
lockVars == <<writesem, card>>
keeperVars == <<dogVars, keepVars, LowVolFlag, logVars, lockVars>>

\* A task that never waits keeps those of lower priority from running.
Starved(t) == \E u \in Tasks : cond[u] = "loops" /\ Order[u] < Order[t]
Able(t) == cond[t] = "ok" /\ ~Starved(t)
\* Once the gateway is to be restarted the watchdogs decide nothing: all count as off.
Ending == LowVolFlag \/ TaskIndex # "none"
Set(t, d) == dog' = IF Ending THEN dog ELSE [dog EXCEPT ![t] = d]
Switch(t) == Set(t, IF dog[t] = "off" THEN "fed" ELSE "off")
Feeds(t) == Set(t, "fed")
AllOff == [t \in Tasks |-> "off"]

\* Armed at the start; the lost-log task arms its own only by day, and feeds it
\* only while Pulldown_Cc2530_flag is set.
Armed(day) == [t \in Tasks |-> IF t \in {"telnet", "shell", "upload"} \/ (t = "lost" /\ ~day)
                               THEN "off" ELSE "fed"]
KeeperInit ==
  /\ cond = [t \in Tasks |-> "ok"] /\ third = "loading"
  /\ \E day \in BOOLEAN : dog = Armed(day)
  /\ TaskIndex = "none" /\ LowVolFlag = FALSE /\ keeper = "scan"
  /\ logger = "receive" /\ writesem = "none" /\ card = "none" /\ queued = 0 /\ leaked = 0
Restart ==
  /\ cond' = [t \in Tasks |-> "ok"] /\ third' = "loading"
  /\ \E day \in BOOLEAN : dog' = Armed(day)
  /\ TaskIndex' = "none" /\ LowVolFlag' = FALSE /\ keeper' = "scan"
  /\ logger' = "receive" /\ writesem' = "none" /\ card' = "none" /\ queued' = 0 /\ leaked' = 0

(***************************************************************************)
(* The tasks feed their watchdogs, or stop doing so.                       *)
(***************************************************************************)
Due(t) == Able(t) /\ dog[t] = "stale"
\* After a round of polls, or each second without a table: module Rounds.
ThirdTurn ==
  /\ third = "running" /\ Due("third") /\ Feeds("third")
  /\ UNCHANGED <<cond, third, keepVars, LowVolFlag, logVars, lockVars>>
ConnectTurn ==
  /\ Due("connect") /\ Feeds("connect")
  /\ UNCHANGED <<cond, third, keepVars, LowVolFlag, logVars, lockVars>>
\* Every handler of the polling feeds; the watchdog is stopped with it.
RadioTurn ==
  /\ Due("rf") /\ Feeds("rf")
  /\ UNCHANGED <<cond, third, keepVars, LowVolFlag, logVars, lockVars>>
StartStopPolling ==
  /\ Able("rf") /\ Switch("rf")
  /\ UNCHANGED <<cond, third, keepVars, LowVolFlag, logVars, lockVars>>
\* While the coordinator is held in reset; by night this arms the watchdog.
LostTurn ==
  /\ Able("lost") /\ dog["lost"] # "fed" /\ Feeds("lost")
  /\ UNCHANGED <<cond, third, keepVars, LowVolFlag, logVars, lockVars>>
\* The upload task arms its watchdog when it finds the server connected and
\* stops it when it does not; in between only a packet of the server feeds it.
Watch ==
  /\ Able("upload") /\ Switch("upload")
  /\ UNCHANGED <<cond, third, keepVars, LowVolFlag, logVars, lockVars>>
Packet ==
  /\ Due("upload") /\ Feeds("upload")
  /\ UNCHANGED <<cond, third, keepVars, LowVolFlag, logVars, lockVars>>
Turns == ThirdTurn \/ ConnectTurn \/ RadioTurn \/ StartStopPolling \/ LostTurn
         \/ Watch \/ Packet

(***************************************************************************)
(* Tasks that get stuck: a file without its end mark read by a command of  *)
(* the server, Shell_testwatchdog, a radio handler that waits for the      *)
(* upload task or a chain of polls that ended.                              *)
(***************************************************************************)
Stuck == {t \in Tasks : cond[t] \in {"loops", "blocked"}}
Hang(t, how) ==
  /\ Able(t) /\ card # t /\ Cardinality(Stuck) < MaxStuck /\ cond' = [cond EXCEPT ![t] = how]
  /\ UNCHANGED <<third, keepVars, LowVolFlag, logVars, lockVars>>
EndlessFile == Hang("upload", "loops") /\ dog["upload"] # "off" /\ Feeds("upload")
TestWatchdog == (Hang("shell", "loops") \/ Hang("telnet", "loops")) /\ UNCHANGED dog
RadioWaits == Hang("rf", "blocked") /\ UNCHANGED dog
Hangs == EndlessFile \/ TestWatchdog \/ RadioWaits

(***************************************************************************)
(* The lock of the file system, of whoever works on a file.  The upload task *)
(* may destroy the third-device task where it loads its table, with the     *)
(* lock: every task that uses the card then waits for ever.                 *)
(***************************************************************************)
CardUsers == {"third", "upload", "shell"}
TakeCard ==
  /\ card = "none"
  /\ \E t \in CardUsers : Able(t) /\ (t = "third" => third = "loading") /\ card' = t
  /\ UNCHANGED <<dogVars, keepVars, LowVolFlag, logVars, writesem>>
GiveCard ==
  /\ card \in CardUsers /\ Able(card) /\ card' = "none"
  /\ UNCHANGED <<dogVars, keepVars, LowVolFlag, logVars, writesem>>
\* A table that cannot be read counts as one without devices.
Loaded ==
  /\ Able("third") /\ third = "loading" /\ card # "third" /\ third' = "running"
  /\ UNCHANGED <<cond, dog, keepVars, LowVolFlag, logVars, lockVars>>
dicor_kill_task ==
  /\ Able("upload") /\ card # "upload" /\ cond["third"] # "gone" /\ cond' = [cond EXCEPT !["third"] = "gone"]
  /\ Set("third", "off") /\ third' = "loading"
  /\ card' = IF card = "third" THEN "nobody" ELSE card
  /\ UNCHANGED <<keepVars, LowVolFlag, logVars, writesem>>
Create ==
  /\ Able("upload") /\ cond["third"] = "gone" /\ cond' = [cond EXCEPT !["third"] = "ok"]
  /\ Feeds("third")
  /\ UNCHANGED <<third, keepVars, LowVolFlag, logVars, lockVars>>
UseCard ==
  /\ card = "nobody"
  /\ \E t \in CardUsers : /\ Able(t) /\ (t = "third" => third = "loading")
                          /\ cond' = [cond EXCEPT ![t] = "blocked"]
  /\ UNCHANGED <<dog, third, keepVars, LowVolFlag, logVars, lockVars>>

(***************************************************************************)
(* The log task.  A message that finds the pool empty is dropped; one whose *)
(* file cannot be opened is never freed.  The log task runs above those that *)
(* print and writes faster than they do: at most one prints during a write.  *)
(***************************************************************************)
Held == IF logger = "write" THEN 1 ELSE 0
Free == LOG_POOL_SIZE - queued - leaked - Held
PrintLog ==
  /\ Able("upload") \/ Able("connect") \/ Able("shell")
  /\ logger = "write" /\ card = "none" => queued = 0
  /\ Free > 0 /\ queued' = queued + 1
  /\ UNCHANGED <<dogVars, keepVars, LowVolFlag, logger, leaked, lockVars>>
\* logging_getfileptr waits for the card; the semaphore is taken with the file open.
Opened ==
  /\ logger = "receive" /\ queued > 0 /\ card = "none" /\ writesem = "none"
  /\ logger' = "write" /\ writesem' = "log" /\ queued' = queued - 1
  /\ UNCHANGED <<dogVars, keepVars, LowVolFlag, leaked, card>>
FailStopsDog ==               \* A slip: without a file the watchdog is left stopped
  /\ logger = "receive" /\ queued > 0 /\ card = "none"
  /\ queued' = queued - 1 /\ leaked' = leaked + 1 /\ Set("log", "off")
  /\ UNCHANGED <<cond, third, keepVars, LowVolFlag, logger, lockVars>>
\* Without a file: the message is not freed; the watchdog is fed all the same.
OpenFails ==
  /\ logger = "receive" /\ queued > 0 /\ card = "none"
  /\ queued' = queued - 1 /\ leaked' = leaked + 1 /\ Feeds("log")
  /\ UNCHANGED <<cond, third, keepVars, LowVolFlag, logger, lockVars>>
WriteNext ==
  /\ logger = "write" /\ card = "none" /\ queued > 0 /\ queued' = queued - 1
  /\ UNCHANGED <<dogVars, keepVars, LowVolFlag, logger, leaked, lockVars>>
CloseKeepsSem ==              \* A slip: the semaphore is not posted
  /\ logger = "write" /\ card = "none" /\ queued = 0 /\ logger' = "receive" /\ Feeds("log")
  /\ UNCHANGED <<cond, third, keepVars, LowVolFlag, queued, leaked, lockVars>>
\* The last message is written, the file is closed.
CloseLog ==
  /\ logger = "write" /\ card = "none" /\ queued = 0 /\ logger' = "receive"
  /\ writesem' = "none" /\ Feeds("log")
  /\ UNCHANGED <<cond, third, keepVars, LowVolFlag, queued, leaked, card>>
LogTask == Opened \/ OpenFails \/ WriteNext \/ CloseLog

(***************************************************************************)
(* Time, the voltage and the watchdog task.                                *)
(***************************************************************************)
\* A period of any of the watchdogs is over: one that was not fed for all of it
\* expires, and Wacthdog_Error notes whose it was.
Expired == {t \in Tasks : dog[t] = "stale"}
Hour ==
  /\ ~Ending
  /\ IF Expired = {}
     THEN dog' = [t \in Tasks |-> IF dog[t] = "fed" THEN "stale" ELSE "off"]
          /\ UNCHANGED TaskIndex
     ELSE dog' = AllOff /\ TaskIndex' = "expired"
  /\ UNCHANGED <<cond, third, keeper, LowVolFlag, logVars, lockVars>>
\* The flag stays set although the supply may recover; it is read by the scan only.
VoltageDrops ==
  /\ keeper = "scan" /\ ~LowVolFlag /\ LowVolFlag' = TRUE
  /\ dog' = AllOff
  /\ UNCHANGED <<cond, third, keepVars, logVars, lockVars>>
PowerGone == LowVolFlag /\ Restart
Scan ==
  /\ keeper = "scan"
  /\ \/ LowVolFlag /\ keeper' = "flush"
     \/ ~LowVolFlag /\ TaskIndex # "none" /\ keeper' = "doomed"
  /\ UNCHANGED <<dogVars, TaskIndex, LowVolFlag, logVars, lockVars>>
\* upload_data_exit: the data file is closed, the shutdown is logged, the log
\* is waited for; rf_nwk_exit
Flush ==
  /\ keeper = "flush" /\ card = "none" /\ keeper' = "exit"
  /\ queued' = IF Free > 0 THEN queued + 1 ELSE queued
  /\ UNCHANGED <<dogVars, TaskIndex, LowVolFlag, logger, leaked, lockVars>>
Exit ==
  /\ keeper = "exit" /\ writesem = "none" /\ keeper' = "power"
  /\ UNCHANGED <<dogVars, TaskIndex, LowVolFlag, logVars, lockVars>>
\* after the flush once the supply has recovered, or once the log is written
KeeperReboot ==
  /\ keeper = "power" \/ (keeper = "doomed" /\ writesem = "none")
  /\ Restart
Keep == Scan \/ Flush \/ Exit \/ KeeperReboot

KeeperNext == \/ Turns \/ Hangs \/ TakeCard \/ GiveCard \/ Loaded \/ dicor_kill_task \/ Create
              \/ UseCard \/ PrintLog \/ LogTask \/ Hour \/ VoltageDrops \/ PowerGone \/ Keep
KeeperFairness ==
  /\ WF_keeperVars(GiveCard)
  /\ SF_keeperVars(LogTask) /\ SF_keeperVars(CloseLog) /\ SF_keeperVars(Hour) /\ SF_keeperVars(Keep)
KeeperSpec == KeeperInit /\ [][KeeperNext]_keeperVars
KeeperFairSpec == KeeperSpec /\ KeeperFairness

-----------------------------------------------------------------------------
(* Type invariant; a message of the log (Logging_Task.c) is in one place.  *)
KeeperTypeOK ==
  /\ cond \in [Tasks -> {"ok", "loops", "blocked", "gone"}]
  /\ dog \in [Tasks -> {"off", "fed", "stale"}]
  /\ third \in {"loading", "running"}
  /\ TaskIndex \in {"none", "expired"}
  /\ keeper \in {"scan", "flush", "exit", "power", "doomed"}
  /\ logger \in {"receive", "write"}
  /\ writesem \in {"none", "log"} /\ card \in {"none", "nobody"} \cup CardUsers
  /\ queued \in 0 .. LOG_POOL_SIZE /\ leaked \in 0 .. LOG_POOL_SIZE /\ Free >= 0

(* A watched task that is stuck or kept from running, a watchdog that expired *)
(* and a drop of the voltage always end in a restart - unless the watchdog of *)
(* that task is switched off by another, or a destroyed task left the file    *)
(* system locked, or one that is kept from running holds its lock, and the    *)
(* log task with its semaphore or the watchdog task itself waits for it.      *)
Trouble == \/ Ending
           \/ \E t \in Tasks : dog[t] # "off" /\ (t \in Stuck \/ Starved(t))
Wedged == /\ card = "nobody" \/ (card \in CardUsers /\ ~Able(card))
          /\ writesem = "log" \/ keeper = "flush"
Recovers == Trouble ~> ~Trouble \/ Wedged

(* A log that lost all its messages to files it could not open logs nothing   *)
(* more, its watchdog is not fed, and the gateway restarts with a new pool.   *)
LogsGoOn == leaked = LOG_POOL_SIZE ~> leaked < LOG_POOL_SIZE \/ Wedged
=============================================================================
