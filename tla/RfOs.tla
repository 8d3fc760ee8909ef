-------------------------------- MODULE RfOs --------------------------------
(***************************************************************************)
(* The operating system of the RF network task (network_os.c): a ring of   *)
(* messages served one at a time by run-to-completion handlers, the        *)
(* software timers of RfTimers, and the flag by which the radio's          *)
(* data-ready interrupt announces a packet.                                *)
(*                                                                         *)
(* Actors: the RF task (SYS_MainFunction), the tick interrupt              *)
(* (SYS_TimersISR), the data-ready interrupt (rf_dr_int_hdl) and other MQX *)
(* tasks that post a message while they hold NetworkRfSem.  The handlers   *)
(* of the PHY, MAC, NWK, APL and HAVST layers are abstracted to what they  *)
(* can do to this state: post messages and arm or disarm timers, at most   *)
(* HandlerOps times a message.                                             *)
(***************************************************************************)
EXTENDS RfTimers

CONSTANTS
  QMax,         \* SYS_LOW_MESSAGE_MAX_NUM (10 in the firmware)
  HandlerOps,   \* bound on the operating-system calls of one handler
  Posters,      \* MQX tasks that post under NetworkRfSem
  RfTask,       \* the RF task as holder of NetworkRfSem
  NoTask        \* NetworkRfSem is free

ASSUME QMaxAssumption == QMax \in Nat /\ QMax >= 2
ASSUME HandlerOpsAssumption == HandlerOps \in Nat
ASSUME TasksAssumption ==
  RfTask \notin Posters /\ NoTask \notin Posters /\ RfTask # NoTask

VARIABLES
  slots,        \* _LowMsgList
  head,         \* _LowMsgHead
  tail,         \* _LowMsgTail
  size,         \* _LowCurSizes
  rxReady,      \* RF_RxReady
  getDataEnd,   \* RF_PhyGetDataEnd
  event,        \* RFNET_EVENT of RF_NET_event
  sem,          \* the holder of NetworkRfSem
  pc,           \* where the RF task is in SYS_MainFunction
  opsLeft,      \* operating-system calls the running handler may still make
  scan,         \* n: expired timers the dispatch loop has yet to visit
  ppc,          \* where each poster is in SendStartCommand
  errCode       \* argument of SYS_Error, 0 if none

queueVars == <<slots, head, tail, size>>
radioVars == <<rxReady, getDataEnd>>
taskVars  == <<event, sem, pc, opsLeft, scan, ppc, errCode>>
vars      == <<timerVars, queueVars, radioVars, taskVars>>

-----------------------------------------------------------------------------
Index == 0 .. QMax - 1

(* A message: "app" from a handler or a poster, "rx" EMN_RF_RX_READY,       *)
(* "timeout" EMN_TIMEOUT for timer arg, "bad" addressed to EMN_TASK_MAX.    *)
Message == [kind : {"app", "rx", "timeout", "bad"}, arg : Timers]

App        == [kind |-> "app", arg |-> 0]
RxReadyMsg == [kind |-> "rx", arg |-> 0]
Timeout(t) == [kind |-> IF t \in owned THEN "timeout" ELSE "bad", arg |-> t]

(* A slip: the index runs off the end of the ring. *)
NextIndexNoWrap(i) == i + 1

NextIndex(i) == IF i + 1 = QMax THEN 0 ELSE i + 1

PCs == {"lock", "test", "handler", "window", "rx", "rxPost", "rxClear",
        "timers", "scan", "scanPost", "clear", "wait", "error"}

PPCs == {"idle", "send", "fill", "unlock"}

Alive == pc # "error"

(* SYS_Error resets the board; nothing the tasks do in the 500 ms before    *)
(* the reset survives it.                                                   *)
Error(code) ==
  /\ pc' = "error"
  /\ errCode' = code
  /\ UNCHANGED <<queueVars, opsLeft>>

(* SYS_SendMsg, called by the RF task, which then goes on at place next     *)
(* with ops calls left to its handler.                                      *)
SendMsg(m, next, ops) ==
  IF size >= QMax
    THEN Error(16)
    ELSE /\ slots' = [slots EXCEPT ![tail] = m]
         /\ tail' = NextIndex(tail)
         /\ size' = size + 1
         /\ pc' = next
         /\ opsLeft' = ops
         /\ UNCHANGED <<head, errCode>>

(* The messages of EMN_MAC_TaskInit and EMN_APL_GetSampleData are in the    *)
(* list when SYS_MainFunction enters its loop.                              *)
BootSlots == [i \in Index |-> App]

Init ==
  /\ TimersInit
  /\ slots = BootSlots /\ head = 0 /\ tail = NextIndex(1) /\ size = 2
  /\ rxReady = FALSE /\ getDataEnd = TRUE
  /\ event = FALSE /\ sem = NoTask
  /\ pc = "lock" /\ opsLeft = 0 /\ scan = {}
  /\ ppc = [p \in Posters |-> "idle"]
  /\ errCode = 0

(* The reset SYS_Error asked for. *)
Reboot ==
  /\ pc = "error"
  /\ TimersReset
  /\ slots' = BootSlots /\ head' = 0 /\ tail' = NextIndex(1) /\ size' = 2
  /\ rxReady' = FALSE /\ getDataEnd' = TRUE
  /\ event' = FALSE /\ sem' = NoTask
  /\ pc' = "lock" /\ opsLeft' = 0 /\ scan' = {}
  /\ ppc' = [p \in Posters |-> "idle"]
  /\ errCode' = 0

-----------------------------------------------------------------------------
(* The RF task. *)

(* _lwsem_wait(&NetworkRfSem) *)
Lock ==
  /\ pc = "lock" /\ sem = NoTask
  /\ sem' = RfTask /\ pc' = "test"
  /\ UNCHANGED <<timerVars, queueVars, radioVars, event, opsLeft, scan, ppc, errCode>>

(* A slip: the loop is left although a timer has expired. *)
TestIgnoresTimeout ==
  /\ pc = "test"
  /\ \/ /\ size # 0 /\ slots[head].kind # "bad"
        /\ pc' = "handler" /\ opsLeft' = HandlerOps /\ UNCHANGED sem
     \/ /\ size = 0 /\ rxReady
        /\ pc' = "rx" /\ UNCHANGED <<opsLeft, sem>>
     \/ /\ size = 0 /\ ~rxReady
        /\ pc' = "wait" /\ sem' = NoTask /\ UNCHANGED opsLeft
  /\ UNCHANGED <<timerVars, queueVars, radioVars, event, scan, ppc, errCode>>

(* The condition of the inner while loop; when it fails the semaphore is    *)
(* given back and the task waits for RFNET_EVENT or 50 ticks.               *)
Test ==
  /\ pc = "test"
  /\ \/ /\ size # 0
        /\ IF slots[head].kind = "bad"
             THEN pc' = "error" /\ errCode' = 2 /\ UNCHANGED <<opsLeft, sem>>
             ELSE /\ pc' = "handler" /\ opsLeft' = HandlerOps
                  /\ UNCHANGED <<errCode, sem>>
     \/ /\ size = 0 /\ (timeout # {} \/ rxReady)
        /\ pc' = "rx" /\ UNCHANGED <<opsLeft, errCode, sem>>
     \/ /\ size = 0 /\ timeout = {} /\ ~rxReady
        /\ pc' = "wait" /\ sem' = NoTask /\ UNCHANGED <<opsLeft, errCode>>
  /\ UNCHANGED <<timerVars, queueVars, radioVars, event, scan, ppc>>

(* EMN_PHY_Task on EMN_RF_RX_READY first reads the packet out of the radio  *)
(* and only then lets the interrupt announce the next one.                  *)
RxUnread == slots[head].kind = "rx" /\ ~getDataEnd

PhyRead ==
  /\ pc = "handler" /\ RxUnread
  /\ getDataEnd' = TRUE
  /\ UNCHANGED <<timerVars, queueVars, rxReady, taskVars>>

HandlerCall == pc = "handler" /\ ~RxUnread /\ opsLeft > 0

HandlerSend ==
  /\ HandlerCall
  /\ SendMsg(App, "handler", opsLeft - 1)
  /\ UNCHANGED <<timerVars, radioVars, event, sem, scan, ppc>>

HandlerTimer(t) ==
  /\ HandlerCall
  /\ (\E v \in 1 .. MaxValue : StartBody(t, v)) \/ StopBody(t)
  /\ pc' = "window" /\ opsLeft' = opsLeft - 1
  /\ UNCHANGED <<queueVars, radioVars, event, sem, scan, ppc, errCode>>

HandlerWindowEnd ==
  /\ pc = "window"
  /\ EndWindow
  /\ pc' = "handler"
  /\ UNCHANGED <<queueVars, radioVars, event, sem, opsLeft, scan, ppc, errCode>>

(* The handler returns; only now is its slot released. *)
HandlerReturn ==
  /\ pc = "handler" /\ ~RxUnread
  /\ size' = size - 1
  /\ head' = NextIndex(head)
  /\ pc' = "rx" /\ opsLeft' = 0
  /\ UNCHANGED <<timerVars, slots, tail, radioVars, event, sem, scan, ppc, errCode>>

(* A slip: the interrupt is not locked out while the packet is unread. *)
RxTestNoLockout ==
  /\ pc = "rx"
  /\ pc' = IF rxReady THEN "rxPost" ELSE "timers"
  /\ UNCHANGED <<timerVars, queueVars, radioVars, event, sem, opsLeft, scan, ppc, errCode>>

(* if (RF_RxReady == 1): lock the interrupt out, post, clear the flag. *)
RxTest ==
  /\ pc = "rx"
  /\ IF rxReady THEN pc' = "rxPost" /\ getDataEnd' = FALSE
                ELSE pc' = "timers" /\ UNCHANGED getDataEnd
  /\ UNCHANGED <<timerVars, queueVars, rxReady, event, sem, opsLeft, scan, ppc, errCode>>

RxPost ==
  /\ pc = "rxPost"
  /\ SendMsg(RxReadyMsg, "rxClear", opsLeft)
  /\ UNCHANGED <<timerVars, radioVars, event, sem, scan, ppc>>

RxClear ==
  /\ pc = "rxClear"
  /\ rxReady' = FALSE /\ pc' = "timers"
  /\ UNCHANGED <<timerVars, queueVars, getDataEnd, event, sem, opsLeft, scan, ppc, errCode>>

(* n = SYS_Timers.timeout *)
TimersTest ==
  /\ pc = "timers"
  /\ scan' = timeout
  /\ pc' = IF timeout = {} THEN "test" ELSE "scan"
  /\ UNCHANGED <<timerVars, queueVars, radioVars, event, sem, opsLeft, ppc, errCode>>

(* A slip: SYS_StopTimer is called where the loop disarms the timer itself, *)
(* and erases the owner before the message is built from it.                *)
ScanStopErasesOwner(t) ==
  /\ pc = "scan" /\ t \in scan /\ (\A u \in scan : t <= u)
  /\ StopBody(t)
  /\ pc' = "scanPost"
  /\ UNCHANGED <<queueVars, radioVars, event, sem, opsLeft, scan, ppc, errCode>>

(* The loop over n, lowest timer first: the timer is disarmed in a window   *)
(* that leaves its owner, the message is built from the owner, the owner is *)
(* erased and the message posted.                                           *)
ScanStop(t) ==
  /\ pc = "scan" /\ t \in scan /\ (\A u \in scan : t <= u)
  /\ timerEnable' = FALSE
  /\ value' = [value EXCEPT ![t] = 0]
  /\ seting' = seting \ {t}
  /\ timeout' = timeout \ {t}
  /\ pc' = "scanPost"
  /\ UNCHANGED <<owned, noHandle, queueVars, radioVars, event, sem, opsLeft, scan, ppc, errCode>>

ScanPost(t) ==
  /\ pc = "scanPost" /\ t \in scan /\ (\A u \in scan : t <= u)
  /\ timerEnable' = TRUE
  /\ owned' = owned \ {t}
  /\ scan' = scan \ {t}
  /\ SendMsg(Timeout(t), IF scan = {t} THEN "test" ELSE "scan", opsLeft)
  /\ UNCHANGED <<value, seting, timeout, noHandle, radioVars, event, sem, ppc>>

(* A slip: the wait has no time limit. *)
WakeOnEventOnly ==
  /\ pc = "wait" /\ event
  /\ pc' = "clear"
  /\ UNCHANGED <<timerVars, queueVars, radioVars, event, sem, opsLeft, scan, ppc, errCode>>

(* dicor_waite_rf: the wait returns on the event or after 50 ticks, and the *)
(* event is cleared by a call of its own.                                   *)
Wake ==
  /\ pc = "wait"
  /\ pc' = "clear"
  /\ UNCHANGED <<timerVars, queueVars, radioVars, event, sem, opsLeft, scan, ppc, errCode>>

ClearEvent ==
  /\ pc = "clear"
  /\ event' = FALSE /\ pc' = "lock"
  /\ UNCHANGED <<timerVars, queueVars, radioVars, sem, opsLeft, scan, ppc, errCode>>

-----------------------------------------------------------------------------
(* The interrupts. *)

Tick ==
  /\ Alive
  /\ TickMissed \/ TickHandled
  /\ event' = (event \/ (timerEnable /\ Expiring # {}))
  /\ UNCHANGED <<queueVars, radioVars, sem, pc, opsLeft, scan, ppc, errCode>>

(* rf_dr_int_hdl with the radio in receive mode: while a packet is waiting  *)
(* or not yet read the new one only sets RF_RxOverflow, which nothing reads.*)
DataReady ==
  /\ Alive
  /\ rxReady' = (rxReady \/ getDataEnd)
  /\ event' = TRUE
  /\ UNCHANGED <<timerVars, queueVars, getDataEnd, sem, pc, opsLeft, scan, ppc, errCode>>

-----------------------------------------------------------------------------
(* Another MQX task posts a message (SendStartCommand).  It may be          *)
(* preempted anywhere in SYS_SendMsg, so the count and the slot are written *)
(* in steps of their own.                                                   *)

(* Slips: NetworkRfSem is not waited for; the slot after the tail is filled. *)
PosterNoWait(p) ==
  /\ Alive /\ ppc[p] = "idle"
  /\ sem' = p
  /\ ppc' = [ppc EXCEPT ![p] = "send"]
  /\ UNCHANGED <<timerVars, queueVars, radioVars, event, pc, opsLeft, scan, errCode>>

PosterFillsNext(p) ==
  /\ Alive /\ ppc[p] = "fill"
  /\ slots' = [slots EXCEPT ![NextIndex(tail)] = App]
  /\ tail' = NextIndex(tail)
  /\ ppc' = [ppc EXCEPT ![p] = "unlock"]
  /\ UNCHANGED <<timerVars, head, size, radioVars, event, sem, pc, opsLeft, scan, errCode>>

PosterLock(p) ==
  /\ Alive /\ ppc[p] = "idle" /\ sem = NoTask
  /\ sem' = p
  /\ ppc' = [ppc EXCEPT ![p] = "send"]
  /\ UNCHANGED <<timerVars, queueVars, radioVars, event, pc, opsLeft, scan, errCode>>

PosterReserve(p) ==
  /\ Alive /\ ppc[p] = "send"
  /\ IF size >= QMax
       THEN pc' = "error" /\ errCode' = 16 /\ UNCHANGED <<size, ppc>>
       ELSE /\ size' = size + 1
            /\ ppc' = [ppc EXCEPT ![p] = "fill"]
            /\ UNCHANGED <<pc, errCode>>
  /\ UNCHANGED <<timerVars, slots, head, tail, radioVars, event, sem, opsLeft, scan>>

PosterFill(p) ==
  /\ Alive /\ ppc[p] = "fill"
  /\ slots' = [slots EXCEPT ![tail] = App]
  /\ tail' = NextIndex(tail)
  /\ ppc' = [ppc EXCEPT ![p] = "unlock"]
  /\ UNCHANGED <<timerVars, head, size, radioVars, event, sem, pc, opsLeft, scan, errCode>>

PosterUnlock(p) ==
  /\ Alive /\ ppc[p] = "unlock"
  /\ sem' = NoTask
  /\ ppc' = [ppc EXCEPT ![p] = "idle"]
  /\ UNCHANGED <<timerVars, queueVars, radioVars, event, pc, opsLeft, scan, errCode>>

-----------------------------------------------------------------------------
RfStep ==
  \/ Lock \/ Test \/ PhyRead \/ HandlerSend \/ HandlerWindowEnd \/ HandlerReturn
  \/ RxTest \/ RxPost \/ RxClear \/ TimersTest \/ Wake \/ ClearEvent
  \/ \E t \in Timers : HandlerTimer(t) \/ ScanStop(t) \/ ScanPost(t)

PosterStep(p) ==
  PosterLock(p) \/ PosterReserve(p) \/ PosterFill(p) \/ PosterUnlock(p)

Next ==
  \/ RfStep
  \/ Tick
  \/ DataReady
  \/ \E p \in Posters : PosterStep(p)
  \/ Reboot

Spec == Init /\ [][Next]_vars

(* The scheduler runs the RF task whenever it is ready and a poster that    *)
(* holds the semaphore until it gives it back; the RF task gets the         *)
(* semaphore although posters compete for it (MQX queues the waiters); the  *)
(* tick interrupt never stops; the reset follows the request.               *)
Fairness ==
  /\ WF_vars(RfStep)
  /\ SF_vars(Lock)
  /\ \A p \in Posters : WF_vars(PosterReserve(p) \/ PosterFill(p) \/ PosterUnlock(p))
  /\ WF_vars(Tick)
  /\ WF_vars(Reboot)

FairSpec == Spec /\ Fairness

-----------------------------------------------------------------------------
(* Type invariant. *)
TypeOK ==
  /\ TimersTypeOK
  /\ slots \in [Index -> Message]
  /\ head \in Index /\ tail \in Index
  /\ size \in 0 .. QMax
  /\ rxReady \in BOOLEAN /\ getDataEnd \in BOOLEAN /\ event \in BOOLEAN
  /\ sem \in Posters \cup {RfTask, NoTask}
  /\ pc \in PCs
  /\ opsLeft \in 0 .. HandlerOps
  /\ scan \subseteq Timers
  /\ ppc \in [Posters -> PPCs]
  /\ errCode \in {0, 2, 16}

(* NetworkRfSem keeps the message list to one task: the RF task is inside   *)
(* its loop only while it holds the semaphore, a poster is inside           *)
(* SYS_SendMsg only while that poster does (network_os.c:376,               *)
(* upgradedidi.c:113).                                                      *)
InLoop == pc \notin {"lock", "wait", "clear", "error"}

ListExclusive ==
  /\ InLoop => sem = RfTask
  /\ (Alive /\ ~InLoop) => sem # RfTask
  /\ \A p \in Posters : ppc[p] # "idle" <=> sem = p

(* The number of slots that hold a complete message: a poster that has      *)
(* counted its message but not yet copied it is one short.                  *)
Reserved == \E p \in Posters : ppc[p] = "fill"
Filled == IF Reserved THEN size - 1 ELSE size

(* A ring with n complete messages from slot h up to, not including, t.     *)
RingOK(h, t, n) ==
  \/ h < t /\ n = t - h
  \/ t < h /\ n = t + QMax - h
  \/ h = t /\ n \in {0, QMax}

RingSlots(h, t, n) ==
  {i \in Index : \/ h < t /\ h <= i /\ i < t
                 \/ t < h /\ (h <= i \/ i < t)
                 \/ h = t /\ n # 0}

(* The count and the two indices of the ring agree (network_os.c:215-225,   *)
(* 386-390), so that the RF task never serves a slot nobody filled; a       *)
(* poster's half-done SYS_SendMsg is the one exception, and NetworkRfSem    *)
(* keeps the RF task away from it.                                          *)
RingCoherent == RingOK(head, tail, Filled)

Occupied == RingSlots(head, tail, Filled)

(* At most one EMN_RF_RX_READY waits in the list, and while it waits the    *)
(* interrupt cannot announce another packet: the handshake of RF_RxReady    *)
(* and RF_PhyGetDataEnd over the interrupt, the main loop and the PHY       *)
(* handler (dicor_spi_dri.c:412, network_os.c:392-402, network_phy.c:514).  *)
PendingRx == {i \in Occupied : slots[i].kind = "rx"}

(* The PHY handler has read the packet the message at the head announced.   *)
RxRead(i) == pc \in {"handler", "window"} /\ i = head /\ getDataEnd

OneRxReady ==
  /\ \A i, j \in PendingRx : i = j
  /\ pc # "error" =>
       \A i \in PendingRx :
         /\ ~RxRead(i) => ~getDataEnd
         /\ rxReady => pc = "rxClear" \/ RxRead(i)

(* An expired timer is dispatched to the task that armed it: no message is  *)
(* ever addressed to EMN_TASK_MAX, so that SYS_Error(2) in the main loop is *)
(* unreachable, whatever the handlers and the interrupts do between the     *)
(* expiry and the dispatch (network_os.c:381-384, 442-470).                 *)
NoBadDestination == errCode # 2 /\ (\A i \in Occupied : slots[i].kind # "bad")

-----------------------------------------------------------------------------
(* The list implements a first-in first-out queue. *)
Boot == <<App, App>>

QueueOf ==
  [k \in 1 .. Filled |-> slots[IF head + k - 1 < QMax THEN head + k - 1
                                                      ELSE head + k - 1 - QMax]]

Fifo == INSTANCE MsgFifo WITH Capacity <- QMax, queue <- QueueOf

(* Every message is served once and in the order in which it was accepted,  *)
(* whichever of the RF task, the timer dispatch, the data-ready check and   *)
(* the posters accepted it.                                                 *)
FifoSpec == Fifo!Spec

(* The message at the head is served, unless the board resets: a message    *)
(* posted by another task, which sets no event, is found at the latest when *)
(* the 50-tick wait runs out (network_os.c:474).                            *)
EveryMessageServed ==
  \A i \in Index : (size > 0 /\ head = i) ~> (head # i \/ pc = "error")

(* An expired timer is dispatched (network_os.c:439-471): the event set by  *)
(* the interrupt may be wiped by the clear after the wait, yet the          *)
(* condition of the loop is evaluated after it.                             *)
EveryTimeoutDispatched ==
  \A t \in Timers : (t \in timeout) ~> (t \notin timeout)
=============================================================================
