----------------------------- MODULE RfOsProofs -----------------------------
(***************************************************************************)
(* What the tasks stand on.  For every size of the message ring, number of *)
(* timers, bound on a handler's calls and set of posting tasks: the ring,  *)
(* the semaphore, the timer table and the radio handshake of the RF task   *)
(* stay consistent (RfOs).  Then how exact the software timers are         *)
(* (RfTimersDrift), that the watchdog of the third-device task is fed in   *)
(* time (Rounds), and that the log loses count of no message (Keeper).     *)
(***************************************************************************)
EXTENDS RfOs, RfTimersDrift, Keeper, Rounds, SequenceTheorems, TLAPS

(* What holds at each place of the RF task's program, beyond the properties *)
(* of RfOs: the strengthening that makes them inductive.                    *)
PlacesOK ==
  /\ pc \in {"handler", "window"} => size > 0
  /\ Alive => (timerEnable <=> pc \notin {"window", "scanPost"})
  /\ rxReady => getDataEnd \/ pc \in {"rxPost", "rxClear", "error"}
  /\ pc = "rxPost" => ~getDataEnd /\ PendingRx = {}
  /\ pc = "rxClear" => ~getDataEnd
  /\ pc \in {"scan", "scanPost"} => scan \subseteq owned
  /\ pc = "scan" => scan \cap seting = {}
  /\ pc = "scanPost" => scan \cap seting = {}
  /\ pc = "scanPost" =>
       \A t \in scan : (\A u \in scan : t <= u) => t \notin timeout
  /\ \A p \in Posters : ppc[p] = "fill" => size > 0

IInv ==
  /\ TypeOK
  /\ ListExclusive
  /\ RingCoherent
  /\ OneRxReady
  /\ NoBadDestination
  /\ TimersCoherent
  /\ PlacesOK

-----------------------------------------------------------------------------
(* Writing slot t of a ring that is not full adds t to its slots. *)
LEMMA EnqueueLemma ==
  ASSUME NEW h \in Index, NEW t \in Index, NEW n \in 0 .. QMax - 1, RingOK(h, t, n)
  PROVE  /\ NextIndex(t) \in Index
         /\ RingOK(h, NextIndex(t), n + 1)
         /\ RingSlots(h, NextIndex(t), n + 1) = RingSlots(h, t, n) \cup {t}
         /\ t \notin RingSlots(h, t, n)
  BY QMaxAssumption DEF Index, NextIndex, RingOK, RingSlots

(* Releasing slot h of a ring that is not empty takes h off its slots. *)
LEMMA DequeueLemma ==
  ASSUME NEW h \in Index, NEW t \in Index, NEW n \in 1 .. QMax, RingOK(h, t, n)
  PROVE  /\ NextIndex(h) \in Index
         /\ RingOK(NextIndex(h), t, n - 1)
         /\ RingSlots(NextIndex(h), t, n - 1) = RingSlots(h, t, n) \ {h}
         /\ h \in RingSlots(h, t, n)
  BY QMaxAssumption DEF Index, NextIndex, RingOK, RingSlots

(* While the RF task is in its loop no poster is inside SYS_SendMsg. *)
LEMMA NoReservation ==
  ASSUME TypeOK, ListExclusive, InLoop
  PROVE  Filled = size /\ \A p \in Posters : ppc[p] = "idle"
  BY TasksAssumption DEF TypeOK, ListExclusive, Filled, Reserved

(* A message the RF task posts keeps the ring coherent and is the only      *)
(* change of the messages in it.                                            *)
LEMMA SendLemma ==
  ASSUME NEW m \in Message, TypeOK, ListExclusive, RingCoherent, InLoop,
         size < QMax, ppc' = ppc,
         slots' = [slots EXCEPT ![tail] = m], tail' = NextIndex(tail),
         size' = size + 1, head' = head
  PROVE  /\ slots' \in [Index -> Message] /\ tail' \in Index /\ size' \in 1 .. QMax
         /\ RingCoherent'
         /\ Occupied' = Occupied \cup {tail}
         /\ tail \notin Occupied
         /\ slots'[tail] = m
         /\ \A i \in Occupied : slots'[i] = slots[i]
<1>1. Filled = size /\ Filled' = size + 1
  BY NoReservation, TasksAssumption DEF Filled, Reserved
<1>2. size \in 0 .. QMax - 1 /\ head \in Index /\ tail \in Index
  BY QMaxAssumption DEF TypeOK
<1>3. RingOK(head, tail, size)
  BY <1>1 DEF RingCoherent
<1>4. /\ NextIndex(tail) \in Index
      /\ RingOK(head, NextIndex(tail), size + 1)
      /\ RingSlots(head, NextIndex(tail), size + 1) = RingSlots(head, tail, size) \cup {tail}
      /\ tail \notin RingSlots(head, tail, size)
  BY <1>2, <1>3, EnqueueLemma
<1>5. slots' \in [Index -> Message] /\ slots'[tail] = m
  BY <1>2 DEF TypeOK
<1>6. RingCoherent' /\ Occupied' = Occupied \cup {tail} /\ tail \notin Occupied
  BY <1>1, <1>4 DEF RingCoherent, Occupied, Index, RingSlots, RingOK
<1>7. \A i \in Occupied : slots'[i] = slots[i]
  BY <1>2, <1>6 DEF Occupied, RingSlots, TypeOK
<1>8. QED
  BY <1>2, <1>4, <1>5, <1>6, <1>7, QMaxAssumption

(* Steps that leave the ring alone leave its slots alone. *)
LEMMA FrameLemma ==
  ASSUME UNCHANGED <<queueVars, ppc>>
  PROVE  /\ RingCoherent' <=> RingCoherent
         /\ Occupied' = Occupied /\ PendingRx' = PendingRx /\ Filled' = Filled
<1>1. head' = head /\ tail' = tail /\ size' = size /\ slots' = slots /\ ppc' = ppc
  BY DEF queueVars
<1>2. Filled' = Filled
  BY <1>1 DEF Filled, Reserved
<1>3. Occupied' = Occupied
  BY <1>1, <1>2 DEF Occupied, RingSlots, Index
<1>4. PendingRx' = PendingRx
  BY <1>1, <1>3 DEF PendingRx
<1>5. RingCoherent' <=> RingCoherent
  BY <1>1, <1>2 DEF RingCoherent, RingOK
<1>6. QED
  BY <1>2, <1>3, <1>4, <1>5

(* While a handler may run, or the RF task finds the list not empty, the    *)
(* slot at the head holds a message.                                        *)
LEMMA HeadLemma ==
  ASSUME TypeOK, ListExclusive, RingCoherent, InLoop, size > 0
  PROVE  head \in Occupied /\ Filled = size /\ size \in 1 .. QMax
<1>1. Filled = size /\ size \in 1 .. QMax /\ head \in Index /\ tail \in Index
  BY NoReservation, QMaxAssumption DEF TypeOK
<1>2. QED
  BY <1>1, DequeueLemma DEF RingCoherent, Occupied

(* The tick interrupt keeps the timer table in shape. *)
LEMMA TickLemma ==
  ASSUME TimersTypeOK, TimersCoherent, TickMissed \/ TickHandled
  PROVE  TimersTypeOK' /\ TimersCoherent' /\ seting' \subseteq seting
<1> USE TimerNumAssumption, MaxValueAssumption, NoHandleAssumption
<1>1. CASE TickMissed
  <2>1. (noHandle + 1) % NoHandleMod \in 0 .. NoHandleMod - 1
    BY DEF TimersTypeOK
  <2>2. QED
    BY <1>1, <2>1 DEF TickMissed, TimersTypeOK, TimersCoherent
<1>2. CASE TickHandled
  <2>1. Passes \in Nat \ {0}
    BY DEF Passes, TimersTypeOK
  <2>2. \A t \in Timers : value[t] \in 0 .. MaxValue
    BY DEF TimersTypeOK
  <2>3. \A t \in Timers :
          value'[t] = IF t \notin seting THEN value[t]
                      ELSE IF value[t] <= Passes THEN 0 ELSE value[t] - Passes
    BY <1>2 DEF TickHandled
  <2>4. value' \in [Timers -> 0 .. MaxValue]
    <3>1. \A t \in Timers : value'[t] \in 0 .. MaxValue
      BY <2>1, <2>2, <2>3
    <3>2. value' = [t \in Timers |-> value'[t]]
      BY <1>2 DEF TickHandled
    <3>3. QED
      BY <3>1, <3>2
  <2>5. TimersTypeOK'
    BY <1>2, <2>4 DEF TickHandled, TimersTypeOK, Expiring
  <2>6. seting' = {t \in seting : ~(value[t] <= Passes)} /\ seting \subseteq Timers
    BY <1>2 DEF TickHandled, Expiring, TimersTypeOK
  <2>7. \A t \in Timers : t \in seting' <=> value'[t] > 0
    BY <2>1, <2>2, <2>3, <2>6 DEF TimersCoherent
  <2>8. seting' \cap timeout' = {} /\ seting' \cup timeout' \subseteq owned'
    BY <1>2 DEF TickHandled, TimersCoherent, Expiring
  <2>9. QED
    BY <2>5, <2>6, <2>7, <2>8 DEF TimersCoherent
<1>3. QED
  BY <1>1, <1>2

(* So do arming and disarming a timer. *)
LEMMA TimerCallLemma ==
  ASSUME NEW t \in Timers, TimersTypeOK, TimersCoherent,
         (\E v \in 1 .. MaxValue : StartBody(t, v)) \/ StopBody(t)
  PROVE  TimersTypeOK' /\ TimersCoherent'
<1> USE MaxValueAssumption
<1>1. CASE \E v \in 1 .. MaxValue : StartBody(t, v)
  <2>1. PICK v \in 1 .. MaxValue : StartBody(t, v)
    BY <1>1
  <2>2. value' = [value EXCEPT ![t] = v] /\ v \in 0 .. MaxValue
    BY <2>1 DEF StartBody
  <2>3. value' \in [Timers -> 0 .. MaxValue]
    BY <2>2 DEF TimersTypeOK
  <2>4. TimersTypeOK'
    BY <2>1, <2>3 DEF StartBody, TimersTypeOK
  <2>5. TimersCoherent'
    BY <2>1, <2>2 DEF StartBody, TimersTypeOK, TimersCoherent
  <2>6. QED
    BY <2>4, <2>5
<1>2. CASE StopBody(t)
  <2>1. value' = [value EXCEPT ![t] = 0] /\ 0 \in 0 .. MaxValue
    BY <1>2 DEF StopBody
  <2>2. value' \in [Timers -> 0 .. MaxValue]
    BY <2>1 DEF TimersTypeOK
  <2>3. TimersTypeOK'
    BY <1>2, <2>2 DEF StopBody, TimersTypeOK
  <2>4. TimersCoherent'
    BY <1>2, <2>1 DEF StopBody, TimersTypeOK, TimersCoherent
  <2>5. QED
    BY <2>3, <2>4
<1>3. QED
  BY <1>1, <1>2

-----------------------------------------------------------------------------
(* The state in which SYS_MainFunction enters its loop satisfies the        *)
(* invariant.                                                               *)
LEMMA InitIInv == Init => IInv
<1> SUFFICES ASSUME Init PROVE IInv
  OBVIOUS
<1> USE QMaxAssumption, HandlerOpsAssumption, TasksAssumption, TimerNumAssumption,
        MaxValueAssumption, NoHandleAssumption
<1>1. TypeOK
  <2>1. TimersTypeOK
    BY DEF Init, TimersInit, TimersTypeOK, Timers
  <2>2. App \in Message
    BY DEF App, Message, Timers
  <2>3. BootSlots \in [Index -> Message]
    BY <2>2 DEF BootSlots
  <2>4. NextIndex(1) \in Index /\ 0 \in Index
    BY DEF NextIndex, Index
  <2>5. size \in 0 .. QMax /\ opsLeft \in 0 .. HandlerOps
    BY DEF Init
  <2>6. ppc \in [Posters -> PPCs]
    BY DEF Init, PPCs
  <2>7. /\ slots \in [Index -> Message] /\ head \in Index /\ tail \in Index
        /\ sem = NoTask /\ pc = "lock" /\ scan = {} /\ errCode = 0
        /\ rxReady = FALSE /\ getDataEnd = TRUE /\ event = FALSE
    BY <2>3, <2>4 DEF Init
  <2>8. QED
    BY <2>1, <2>5, <2>6, <2>7 DEF TypeOK, PCs
<1>2. ListExclusive
  BY DEF Init, ListExclusive, InLoop, Alive
<1>3. Filled = 2 /\ slots = BootSlots /\ head = 0 /\ tail = NextIndex(1)
  BY DEF Init, Filled, Reserved
<1>4. RingCoherent
  BY <1>3 DEF RingCoherent, RingOK, NextIndex
<1>5. \A i \in Occupied : slots[i].kind = "app"
  BY <1>3 DEF Occupied, RingSlots, BootSlots, App
<1>6. PendingRx = {}
  BY <1>5 DEF PendingRx
<1>7. OneRxReady
  BY <1>6 DEF OneRxReady
<1>8. NoBadDestination
  BY <1>5 DEF Init, NoBadDestination
<1>9. TimersCoherent /\ PlacesOK
  BY DEF Init, TimersInit, TimersCoherent, PlacesOK, Timers, Alive
<1> QED
  BY <1>1, <1>2, <1>4, <1>7, <1>8, <1>9 DEF IInv

-----------------------------------------------------------------------------
(* Steps of the RF task and of the interrupts that leave the ring alone: a  *)
(* lemma for each, with a step for each part of the invariant.              *)

(* The RF task takes NetworkRfSem: no poster holds it, so none is inside    *)
(* SYS_SendMsg.                                                             *)
LEMMA LockStep == ASSUME IInv, Lock PROVE IInv'
<1> USE TasksAssumption
    DEF IInv, Lock, timerVars, queueVars, radioVars, taskVars
<1>0. UNCHANGED <<queueVars, ppc>>
  OBVIOUS
<1>1. RingCoherent' /\ Occupied' = Occupied /\ PendingRx' = PendingRx
  BY <1>0, FrameLemma
<1>2. TypeOK'
  BY DEF TypeOK, TimersTypeOK, PCs
<1>3. ListExclusive'
  BY DEF ListExclusive, TypeOK, InLoop, Alive
<1>4. OneRxReady'
  BY <1>1 DEF OneRxReady, PlacesOK, TypeOK, RxRead
<1>5. NoBadDestination'
  BY <1>1 DEF NoBadDestination
<1>6. TimersCoherent'
  BY DEF TimersCoherent, TypeOK, TimersTypeOK
<1>7. PlacesOK'
  BY <1>1 DEF PlacesOK, TypeOK, ListExclusive, Alive
<1> QED
  BY <1>1, <1>2, <1>3, <1>4, <1>5, <1>6, <1>7

(* The loop condition: the message at the head lies in the ring, so its     *)
(* destination is a task.                                                   *)
LEMMA TestStep == ASSUME IInv, Test PROVE IInv'
<1> USE TasksAssumption
    DEF IInv, Test, timerVars, queueVars, radioVars, taskVars, InLoop
<1>0. UNCHANGED <<queueVars, ppc>>
  OBVIOUS
<1>1. RingCoherent' /\ Occupied' = Occupied /\ PendingRx' = PendingRx
  BY <1>0, FrameLemma
<1>2. TypeOK'
  BY HandlerOpsAssumption DEF TypeOK, TimersTypeOK, PCs
<1>3. ListExclusive'
  BY DEF ListExclusive, TypeOK, InLoop, Alive
<1>4. OneRxReady'
  BY <1>1 DEF OneRxReady, PlacesOK, TypeOK, RxRead
<1>5. NoBadDestination'
  <2>1. CASE size # 0 /\ slots[head].kind = "bad"
    <3>1. head \in Occupied
      BY <2>1, HeadLemma DEF InLoop, TypeOK
    <3>2. QED
      BY <2>1, <3>1 DEF NoBadDestination
  <2>2. CASE ~(size # 0 /\ slots[head].kind = "bad")
    BY <1>1, <2>2 DEF NoBadDestination
  <2>3. QED
    BY <2>1, <2>2
<1>6. TimersCoherent'
  BY DEF TimersCoherent, TypeOK, TimersTypeOK
<1>7. PlacesOK'
  BY <1>1 DEF PlacesOK, TypeOK, ListExclusive, Alive
<1> QED
  BY <1>1, <1>2, <1>3, <1>4, <1>5, <1>6, <1>7

(* The PHY handler has read the packet: the announcement at the head is the *)
(* only one in the list, so the interrupt may announce the next.            *)
LEMMA PhyReadStep == ASSUME IInv, PhyRead PROVE IInv'
<1> USE TasksAssumption
    DEF IInv, PhyRead, timerVars, queueVars, radioVars, taskVars, RxUnread, InLoop
<1>0. UNCHANGED <<queueVars, ppc>>
  OBVIOUS
<1>1. RingCoherent' /\ Occupied' = Occupied /\ PendingRx' = PendingRx
  BY <1>0, FrameLemma
<1>2. TypeOK'
  BY DEF TypeOK, TimersTypeOK, PCs
<1>3. ListExclusive'
  BY DEF ListExclusive, TypeOK, InLoop, Alive
<1>4. OneRxReady'
  <2>1. head \in PendingRx
    BY HeadLemma DEF PlacesOK, PendingRx, TypeOK
  <2>2. \A i \in PendingRx : i = head
    BY <2>1 DEF OneRxReady
  <2>3. QED
    BY <1>1, <2>2 DEF OneRxReady, RxRead
<1>5. NoBadDestination'
  BY <1>1 DEF NoBadDestination
<1>6. TimersCoherent'
  BY DEF TimersCoherent, TypeOK, TimersTypeOK
<1>7. PlacesOK'
  BY <1>1 DEF PlacesOK, TypeOK, ListExclusive, Alive
<1> QED
  BY <1>1, <1>2, <1>3, <1>4, <1>5, <1>6, <1>7

(* A timer window ends.                                                     *)
LEMMA HandlerWindowEndStep == ASSUME IInv, HandlerWindowEnd PROVE IInv'
<1> USE TasksAssumption
    DEF IInv, HandlerWindowEnd, timerVars, queueVars, radioVars, taskVars, EndWindow
<1>0. UNCHANGED <<queueVars, ppc>>
  OBVIOUS
<1>1. RingCoherent' /\ Occupied' = Occupied /\ PendingRx' = PendingRx
  BY <1>0, FrameLemma
<1>2. TypeOK'
  BY DEF TypeOK, TimersTypeOK, PCs
<1>3. ListExclusive'
  BY DEF ListExclusive, TypeOK, InLoop, Alive
<1>4. OneRxReady'
  BY <1>1 DEF OneRxReady, PlacesOK, TypeOK, RxRead
<1>5. NoBadDestination'
  BY <1>1 DEF NoBadDestination
<1>6. TimersCoherent'
  BY DEF TimersCoherent, TypeOK, TimersTypeOK
<1>7. PlacesOK'
  BY <1>1 DEF PlacesOK, TypeOK, ListExclusive, Alive
<1> QED
  BY <1>1, <1>2, <1>3, <1>4, <1>5, <1>6, <1>7

(* The RF_RxReady test: a packet is waiting only when no announcement is in *)
(* the list or the announced packet has been read.                          *)
LEMMA RxTestStep == ASSUME IInv, RxTest PROVE IInv'
<1> USE TasksAssumption
    DEF IInv, RxTest, timerVars, queueVars, radioVars, taskVars
<1>0. UNCHANGED <<queueVars, ppc>>
  OBVIOUS
<1>1. RingCoherent' /\ Occupied' = Occupied /\ PendingRx' = PendingRx
  BY <1>0, FrameLemma
<1>2. TypeOK'
  BY DEF TypeOK, TimersTypeOK, PCs
<1>3. ListExclusive'
  BY DEF ListExclusive, TypeOK, InLoop, Alive
<1>4. OneRxReady'
  BY <1>1 DEF OneRxReady, PlacesOK, TypeOK, RxRead
<1>5. NoBadDestination'
  BY <1>1 DEF NoBadDestination
<1>6. TimersCoherent'
  BY DEF TimersCoherent, TypeOK, TimersTypeOK
<1>7. PlacesOK'
  <2>1. rxReady => PendingRx = {}
    BY DEF OneRxReady, RxRead
  <2>2. CASE rxReady
    BY <1>1, <2>1, <2>2 DEF PlacesOK, TypeOK, Alive
  <2>3. CASE ~rxReady
    BY <1>1, <2>3 DEF PlacesOK, TypeOK, Alive
  <2>4. QED
    BY <2>2, <2>3
<1> QED
  BY <1>1, <1>2, <1>3, <1>4, <1>5, <1>6, <1>7

(* RF_RxReady is cleared while the interrupt is locked out.                 *)
LEMMA RxClearStep == ASSUME IInv, RxClear PROVE IInv'
<1> USE TasksAssumption
    DEF IInv, RxClear, timerVars, queueVars, radioVars, taskVars
<1>0. UNCHANGED <<queueVars, ppc>>
  OBVIOUS
<1>1. RingCoherent' /\ Occupied' = Occupied /\ PendingRx' = PendingRx
  BY <1>0, FrameLemma
<1>2. TypeOK'
  BY DEF TypeOK, TimersTypeOK, PCs
<1>3. ListExclusive'
  BY DEF ListExclusive, TypeOK, InLoop, Alive
<1>4. OneRxReady'
  BY <1>1 DEF OneRxReady, PlacesOK, TypeOK, RxRead
<1>5. NoBadDestination'
  BY <1>1 DEF NoBadDestination
<1>6. TimersCoherent'
  BY DEF TimersCoherent, TypeOK, TimersTypeOK
<1>7. PlacesOK'
  BY <1>1 DEF PlacesOK, TypeOK, ListExclusive, Alive
<1> QED
  BY <1>1, <1>2, <1>3, <1>4, <1>5, <1>6, <1>7

(* The dispatch loop takes its copy of the expired timers: they are stopped *)
(* and owned.                                                               *)
LEMMA TimersTestStep == ASSUME IInv, TimersTest PROVE IInv'
<1> USE TasksAssumption
    DEF IInv, TimersTest, timerVars, queueVars, radioVars, taskVars
<1>0. UNCHANGED <<queueVars, ppc>>
  OBVIOUS
<1>1. RingCoherent' /\ Occupied' = Occupied /\ PendingRx' = PendingRx
  BY <1>0, FrameLemma
<1>2. TypeOK'
  BY DEF TypeOK, TimersTypeOK, PCs
<1>3. ListExclusive'
  BY DEF ListExclusive, TypeOK, InLoop, Alive
<1>4. OneRxReady'
  BY <1>1 DEF OneRxReady, PlacesOK, TypeOK, RxRead
<1>5. NoBadDestination'
  BY <1>1 DEF NoBadDestination
<1>6. TimersCoherent'
  BY DEF TimersCoherent, TypeOK, TimersTypeOK
<1>7. PlacesOK'
  <2>1. CASE timeout = {}
    BY <1>1, <2>1 DEF PlacesOK, Alive
  <2>2. CASE timeout # {}
    BY <1>1, <2>2 DEF PlacesOK, Alive, TimersCoherent
  <2>3. QED
    BY <2>1, <2>2
<1> QED
  BY <1>1, <1>2, <1>3, <1>4, <1>5, <1>6, <1>7

(* The wait for RFNET_EVENT ends.                                           *)
LEMMA WakeStep == ASSUME IInv, Wake PROVE IInv'
<1> USE TasksAssumption
    DEF IInv, Wake, timerVars, queueVars, radioVars, taskVars
<1>0. UNCHANGED <<queueVars, ppc>>
  OBVIOUS
<1>1. RingCoherent' /\ Occupied' = Occupied /\ PendingRx' = PendingRx
  BY <1>0, FrameLemma
<1>2. TypeOK'
  BY DEF TypeOK, TimersTypeOK, PCs
<1>3. ListExclusive'
  BY DEF ListExclusive, TypeOK, InLoop, Alive
<1>4. OneRxReady'
  BY <1>1 DEF OneRxReady, PlacesOK, TypeOK, RxRead
<1>5. NoBadDestination'
  BY <1>1 DEF NoBadDestination
<1>6. TimersCoherent'
  BY DEF TimersCoherent, TypeOK, TimersTypeOK
<1>7. PlacesOK'
  BY <1>1 DEF PlacesOK, TypeOK, ListExclusive, Alive
<1> QED
  BY <1>1, <1>2, <1>3, <1>4, <1>5, <1>6, <1>7

(* The event is cleared.                                                    *)
LEMMA ClearEventStep == ASSUME IInv, ClearEvent PROVE IInv'
<1> USE TasksAssumption
    DEF IInv, ClearEvent, timerVars, queueVars, radioVars, taskVars
<1>0. UNCHANGED <<queueVars, ppc>>
  OBVIOUS
<1>1. RingCoherent' /\ Occupied' = Occupied /\ PendingRx' = PendingRx
  BY <1>0, FrameLemma
<1>2. TypeOK'
  BY DEF TypeOK, TimersTypeOK, PCs
<1>3. ListExclusive'
  BY DEF ListExclusive, TypeOK, InLoop, Alive
<1>4. OneRxReady'
  BY <1>1 DEF OneRxReady, PlacesOK, TypeOK, RxRead
<1>5. NoBadDestination'
  BY <1>1 DEF NoBadDestination
<1>6. TimersCoherent'
  BY DEF TimersCoherent, TypeOK, TimersTypeOK
<1>7. PlacesOK'
  BY <1>1 DEF PlacesOK, TypeOK, ListExclusive, Alive
<1> QED
  BY <1>1, <1>2, <1>3, <1>4, <1>5, <1>6, <1>7

(* The tick interrupt: only timers that run expire, and none of the timers  *)
(* being dispatched runs.                                                   *)
LEMMA TickStep == ASSUME IInv, Tick PROVE IInv'
<1> USE TasksAssumption
    DEF IInv, Tick, timerVars, queueVars, radioVars, taskVars, TickMissed, TickHandled
<1>0. UNCHANGED <<queueVars, ppc>>
  OBVIOUS
<1>1. RingCoherent' /\ Occupied' = Occupied /\ PendingRx' = PendingRx
  BY <1>0, FrameLemma
<1>2. TypeOK'
  BY TickLemma DEF TypeOK
<1>3. ListExclusive'
  BY DEF ListExclusive, TypeOK, InLoop, Alive
<1>4. OneRxReady'
  BY <1>1 DEF OneRxReady, PlacesOK, TypeOK, RxRead
<1>5. NoBadDestination'
  BY <1>1 DEF NoBadDestination
<1>6. TimersCoherent'
  BY TickLemma DEF TypeOK
<1>7. PlacesOK'
  BY <1>1, TickLemma DEF PlacesOK, TypeOK, Expiring, ListExclusive, Alive
<1> QED
  BY <1>1, <1>2, <1>3, <1>4, <1>5, <1>6, <1>7

(* The data-ready interrupt: while getDataEnd is clear it changes nothing   *)
(* but the event.                                                           *)
LEMMA DataReadyStep == ASSUME IInv, DataReady PROVE IInv'
<1> USE TasksAssumption
    DEF IInv, DataReady, timerVars, queueVars, radioVars, taskVars, Alive
<1>0. UNCHANGED <<queueVars, ppc>>
  OBVIOUS
<1>1. RingCoherent' /\ Occupied' = Occupied /\ PendingRx' = PendingRx
  BY <1>0, FrameLemma
<1>2. TypeOK'
  BY DEF TypeOK, TimersTypeOK, PCs
<1>3. ListExclusive'
  BY DEF ListExclusive, TypeOK, InLoop, Alive
<1>4. OneRxReady'
  BY <1>1 DEF OneRxReady, PlacesOK, TypeOK, RxRead
<1>5. NoBadDestination'
  BY <1>1 DEF NoBadDestination
<1>6. TimersCoherent'
  BY DEF TimersCoherent, TypeOK, TimersTypeOK
<1>7. PlacesOK'
  BY <1>1 DEF PlacesOK, TypeOK, ListExclusive, Alive
<1> QED
  BY <1>1, <1>2, <1>3, <1>4, <1>5, <1>6, <1>7

(* A handler arms or disarms a timer; no dispatch is under way.             *)
LEMMA HandlerTimerStep == ASSUME NEW t \in Timers, IInv, HandlerTimer(t) PROVE IInv'
<1> USE TasksAssumption
    DEF IInv, HandlerTimer, timerVars, queueVars, radioVars, taskVars, HandlerCall, RxUnread,
        StartBody, StopBody
<1>0. UNCHANGED <<queueVars, ppc>>
  OBVIOUS
<1>1. RingCoherent' /\ Occupied' = Occupied /\ PendingRx' = PendingRx
  BY <1>0, FrameLemma
<1>2. TypeOK'
  <2>1. opsLeft' \in 0 .. HandlerOps
    BY HandlerOpsAssumption DEF TypeOK
  <2>2. TimersTypeOK'
    BY TimerCallLemma DEF TypeOK
  <2>3. QED
    BY <2>1, <2>2 DEF TypeOK, PCs
<1>3. ListExclusive'
  BY DEF ListExclusive, TypeOK, InLoop, Alive
<1>4. OneRxReady'
  BY <1>1 DEF OneRxReady, PlacesOK, TypeOK, RxRead
<1>5. NoBadDestination'
  BY <1>1 DEF NoBadDestination
<1>6. TimersCoherent'
  BY TimerCallLemma DEF TypeOK
<1>7. PlacesOK'
  BY <1>1 DEF PlacesOK, TypeOK, ListExclusive, Alive
<1> QED
  BY <1>1, <1>2, <1>3, <1>4, <1>5, <1>6, <1>7

(* The dispatch loop disarms the lowest of its timers and leaves its owner. *)
LEMMA ScanStopStep == ASSUME NEW t \in Timers, IInv, ScanStop(t) PROVE IInv'
<1> USE TasksAssumption
    DEF IInv, ScanStop, timerVars, queueVars, radioVars, taskVars
<1>0. UNCHANGED <<queueVars, ppc>>
  OBVIOUS
<1>1. RingCoherent' /\ Occupied' = Occupied /\ PendingRx' = PendingRx
  BY <1>0, FrameLemma
<1>2. TypeOK'
  <2>1. value' \in [Timers -> 0 .. MaxValue]
    <3>1. 0 \in 0 .. MaxValue
      BY MaxValueAssumption
    <3>2. QED
      BY <3>1 DEF TypeOK, TimersTypeOK
  <2>2. TimersTypeOK'
    BY <2>1 DEF TypeOK, TimersTypeOK
  <2>3. QED
    BY <2>2 DEF TypeOK, PCs
<1>3. ListExclusive'
  BY DEF ListExclusive, TypeOK, InLoop, Alive
<1>4. OneRxReady'
  BY <1>1 DEF OneRxReady, PlacesOK, TypeOK, RxRead
<1>5. NoBadDestination'
  BY <1>1 DEF NoBadDestination
<1>6. TimersCoherent'
  BY DEF TimersCoherent, TypeOK, TimersTypeOK
<1>7. PlacesOK'
  <2>1. scan \subseteq Timers /\ t \in scan /\ (\A u \in scan : t <= u)
    BY DEF TypeOK
  <2>2. \A r \in scan : (\A u \in scan : r <= u) => r = t
    BY <2>1 DEF Timers
  <2>3. QED
    BY <1>1, <2>1, <2>2 DEF PlacesOK, TypeOK, Alive
<1> QED
  BY <1>1, <1>2, <1>3, <1>4, <1>5, <1>6, <1>7

-----------------------------------------------------------------------------
(* Steps that change the ring. *)

(* A list that is full: SYS_Error stops the program, and what the parts of  *)
(* the invariant say of a dead program is weaker than what they said.       *)
LEMMA OverflowLemma ==
  ASSUME IInv, Error(16), TypeOK', TimersCoherent', UNCHANGED <<sem, ppc>>
  PROVE  IInv'
<1> USE DEF IInv, Error
<1>0. UNCHANGED <<queueVars, ppc>>
  OBVIOUS
<1>1. RingCoherent' /\ Occupied' = Occupied /\ PendingRx' = PendingRx
  BY <1>0, FrameLemma
<1>2. ListExclusive'
  BY DEF ListExclusive, InLoop, Alive
<1>3. OneRxReady'
  BY <1>1 DEF OneRxReady
<1>4. NoBadDestination'
  BY <1>0, <1>1 DEF NoBadDestination, queueVars
<1>5. PlacesOK'
  BY <1>0 DEF PlacesOK, Alive, queueVars
<1> QED
  BY <1>1, <1>2, <1>3, <1>4, <1>5

(* A handler posts a message.                                               *)
LEMMA HandlerSendStep == ASSUME IInv, HandlerSend PROVE IInv'
<1> USE TasksAssumption
    DEF IInv, HandlerSend, HandlerCall, timerVars, queueVars, radioVars, taskVars, InLoop
<1>1. TimersTypeOK' /\ TimersCoherent'
  BY DEF TypeOK, TimersTypeOK, TimersCoherent
<1>2. CASE size >= QMax
  <2>1. Error(16)
    BY <1>2 DEF SendMsg
  <2>2. TypeOK'
    BY <1>1, <2>1 DEF Error, TypeOK, PCs
  <2>3. QED
    BY <1>1, <2>1, <2>2, OverflowLemma
<1>3. CASE ~(size >= QMax)
  <2>1. /\ slots' = [slots EXCEPT ![tail] = App] /\ tail' = NextIndex(tail)
        /\ size' = size + 1 /\ head' = head /\ pc' = "handler"
        /\ opsLeft' = opsLeft - 1 /\ errCode' = errCode /\ ppc' = ppc
    BY <1>3 DEF SendMsg
  <2>2. App \in Message /\ App.kind = "app"
    BY TimerNumAssumption DEF App, Message, Timers
  <2>3. size < QMax
    BY <1>3, QMaxAssumption DEF TypeOK
  <2>4. /\ slots' \in [Index -> Message] /\ tail' \in Index /\ size' \in 1 .. QMax
        /\ RingCoherent'
        /\ Occupied' = Occupied \cup {tail}
        /\ tail \notin Occupied
        /\ slots'[tail] = App
        /\ \A i \in Occupied : slots'[i] = slots[i]
    BY <2>1, <2>2, <2>3, SendLemma
  <2>5. PendingRx' = PendingRx
    BY <2>2, <2>4 DEF PendingRx
  <2>6. TypeOK'
    <3>1. opsLeft' \in 0 .. HandlerOps
      BY <2>1, HandlerOpsAssumption DEF TypeOK
    <3>2. QED
      BY <1>1, <2>1, <2>4, <3>1 DEF TypeOK, PCs
  <2>7. ListExclusive'
    BY <2>1 DEF ListExclusive, Alive
  <2>8. OneRxReady'
    BY <2>1, <2>5 DEF OneRxReady, RxRead
  <2>9. NoBadDestination'
    BY <2>1, <2>2, <2>4 DEF NoBadDestination
  <2>10. PlacesOK'
    BY <2>1, <2>4 DEF PlacesOK, Alive
  <2>11. QED
    BY <1>1, <2>4, <2>6, <2>7, <2>8, <2>9, <2>10
<1> QED
  BY <1>2, <1>3

(* The announcement of a packet is posted: there is none in the list.       *)
LEMMA RxPostStep == ASSUME IInv, RxPost PROVE IInv'
<1> USE TasksAssumption
    DEF IInv, RxPost, timerVars, queueVars, radioVars, taskVars, InLoop
<1>1. TimersTypeOK' /\ TimersCoherent'
  BY DEF TypeOK, TimersTypeOK, TimersCoherent
<1>2. CASE size >= QMax
  <2>1. Error(16)
    BY <1>2 DEF SendMsg
  <2>2. TypeOK'
    BY <1>1, <2>1 DEF Error, TypeOK, PCs
  <2>3. QED
    BY <1>1, <2>1, <2>2, OverflowLemma
<1>3. CASE ~(size >= QMax)
  <2>1. /\ slots' = [slots EXCEPT ![tail] = RxReadyMsg] /\ tail' = NextIndex(tail)
        /\ size' = size + 1 /\ head' = head /\ pc' = "rxClear"
        /\ opsLeft' = opsLeft /\ errCode' = errCode /\ ppc' = ppc
    BY <1>3 DEF SendMsg
  <2>2. RxReadyMsg \in Message /\ RxReadyMsg.kind = "rx"
    BY TimerNumAssumption DEF RxReadyMsg, Message, Timers
  <2>3. size < QMax
    BY <1>3, QMaxAssumption DEF TypeOK
  <2>4. /\ slots' \in [Index -> Message] /\ tail' \in Index /\ size' \in 1 .. QMax
        /\ RingCoherent'
        /\ Occupied' = Occupied \cup {tail}
        /\ tail \notin Occupied
        /\ slots'[tail] = RxReadyMsg
        /\ \A i \in Occupied : slots'[i] = slots[i]
    BY <2>1, <2>2, <2>3, SendLemma
  <2>5. PendingRx' = {tail} /\ ~getDataEnd'
    <3>1. PendingRx = {} /\ ~getDataEnd
      BY DEF PlacesOK
    <3>2. QED
      BY <2>2, <2>4, <3>1 DEF PendingRx
  <2>6. TypeOK'
    BY <1>1, <2>1, <2>4 DEF TypeOK, PCs
  <2>7. ListExclusive'
    BY <2>1 DEF ListExclusive, Alive
  <2>8. OneRxReady'
    BY <2>1, <2>5 DEF OneRxReady, RxRead
  <2>9. NoBadDestination'
    BY <2>1, <2>2, <2>4 DEF NoBadDestination
  <2>10. PlacesOK'
    BY <2>1, <2>4 DEF PlacesOK, Alive
  <2>11. QED
    BY <1>1, <2>4, <2>6, <2>7, <2>8, <2>9, <2>10
<1> QED
  BY <1>2, <1>3

(* The EMN_TIMEOUT of an expired timer is posted: its owner is still known. *)
LEMMA ScanPostStep == ASSUME NEW t \in Timers, IInv, ScanPost(t) PROVE IInv'
<1> USE TasksAssumption
    DEF IInv, ScanPost, timerVars, queueVars, radioVars, taskVars, InLoop
<1>1. TimersTypeOK' /\ TimersCoherent'
  <2>1. t \notin timeout /\ t \notin seting
    BY DEF PlacesOK
  <2>2. QED
    BY <2>1 DEF TypeOK, TimersTypeOK, TimersCoherent
<1>2. CASE size >= QMax
  <2>1. Error(16)
    BY <1>2 DEF SendMsg
  <2>2. TypeOK'
    BY <1>1, <2>1 DEF Error, TypeOK, PCs
  <2>3. QED
    BY <1>1, <2>1, <2>2, OverflowLemma
<1>3. CASE ~(size >= QMax)
  <2>1. /\ slots' = [slots EXCEPT ![tail] = Timeout(t)] /\ tail' = NextIndex(tail)
        /\ size' = size + 1 /\ head' = head
        /\ pc' = IF scan = {t} THEN "test" ELSE "scan"
        /\ opsLeft' = opsLeft /\ errCode' = errCode /\ ppc' = ppc
    BY <1>3 DEF SendMsg
  <2>2. Timeout(t) \in Message /\ Timeout(t).kind = "timeout"
    BY DEF Timeout, Message, PlacesOK
  <2>3. size < QMax
    BY <1>3, QMaxAssumption DEF TypeOK
  <2>4. /\ slots' \in [Index -> Message] /\ tail' \in Index /\ size' \in 1 .. QMax
        /\ RingCoherent'
        /\ Occupied' = Occupied \cup {tail}
        /\ tail \notin Occupied
        /\ slots'[tail] = Timeout(t)
        /\ \A i \in Occupied : slots'[i] = slots[i]
    BY <2>1, <2>2, <2>3, SendLemma
  <2>5. PendingRx' = PendingRx
    BY <2>2, <2>4 DEF PendingRx
  <2>6. TypeOK'
    BY <1>1, <2>1, <2>4 DEF TypeOK, PCs
  <2>7. ListExclusive'
    BY <2>1 DEF ListExclusive, Alive
  <2>8. OneRxReady'
    BY <2>1, <2>5 DEF OneRxReady, RxRead
  <2>9. NoBadDestination'
    BY <2>1, <2>2, <2>4 DEF NoBadDestination
  <2>10. PlacesOK'
    <3>1. scan' \subseteq owned' /\ scan' \cap seting' = {}
      BY DEF PlacesOK
    <3>2. QED
      BY <2>1, <2>4, <3>1 DEF PlacesOK, Alive
  <2>11. QED
    BY <1>1, <2>4, <2>6, <2>7, <2>8, <2>9, <2>10
<1> QED
  BY <1>2, <1>3

(* The handler returns and the slot at the head is released; if it was the  *)
(* announcement, it has been read.                                          *)
LEMMA HandlerReturnStep == ASSUME IInv, HandlerReturn PROVE IInv'
<1> USE TasksAssumption
    DEF IInv, HandlerReturn, timerVars, queueVars, radioVars, taskVars, InLoop
<1>1. TimersTypeOK' /\ TimersCoherent'
  BY DEF TypeOK, TimersTypeOK, TimersCoherent
<1>2. /\ Filled = size /\ size \in 1 .. QMax /\ head \in Index /\ tail \in Index
      /\ \A p \in Posters : ppc[p] = "idle"
  BY HeadLemma, NoReservation DEF PlacesOK, TypeOK
<1>3. Filled' = size - 1 /\ size - 1 \in 0 .. QMax
  BY <1>2, QMaxAssumption DEF Filled, Reserved
<1>4. /\ NextIndex(head) \in Index
      /\ RingOK(NextIndex(head), tail, size - 1)
      /\ RingSlots(NextIndex(head), tail, size - 1) = RingSlots(head, tail, size) \ {head}
  BY <1>2, DequeueLemma DEF RingCoherent
<1>5. RingCoherent'
  BY <1>3, <1>4 DEF RingCoherent, RingOK
<1>6. Occupied' = Occupied \ {head}
  BY <1>2, <1>3, <1>4 DEF Occupied, RingSlots, Index
<1>7. PendingRx' = PendingRx \ {head}
  BY <1>6 DEF PendingRx
<1>8. TypeOK'
  BY <1>1, <1>3, <1>4, HandlerOpsAssumption DEF TypeOK, PCs
<1>9. ListExclusive'
  BY DEF ListExclusive, Alive
<1>10. OneRxReady'
  BY <1>7 DEF OneRxReady, RxRead
<1>11. NoBadDestination'
  BY <1>6 DEF NoBadDestination
<1>12. PlacesOK'
  BY <1>2 DEF PlacesOK, Alive
<1> QED
  BY <1>1, <1>5, <1>8, <1>9, <1>10, <1>11, <1>12

(* A poster takes NetworkRfSem.                                             *)
LEMMA PosterLockStep == ASSUME NEW p \in Posters, IInv, PosterLock(p) PROVE IInv'
<1> USE TasksAssumption
    DEF IInv, PosterLock, timerVars, queueVars, radioVars, taskVars, InLoop
<1>1. Filled' = Filled
  <2>1. \A q \in Posters : ppc[q] = "fill" <=> ppc'[q] = "fill"
    BY DEF TypeOK
  <2>2. QED
    BY <2>1 DEF Filled, Reserved
<1>2. RingCoherent' /\ Occupied' = Occupied
  BY <1>1 DEF RingCoherent, Occupied, RingOK, RingSlots, Index
<1>3. PendingRx' = PendingRx
  BY <1>2 DEF PendingRx
<1>4. TypeOK'
  BY DEF TypeOK, TimersTypeOK, PPCs
<1>5. ListExclusive'
  BY DEF ListExclusive, Alive, TypeOK
<1>6. OneRxReady'
  BY <1>3 DEF OneRxReady, RxRead
<1>7. NoBadDestination'
  BY <1>2 DEF NoBadDestination
<1>8. TimersCoherent'
  BY DEF TimersCoherent
<1>9. PlacesOK'
  BY <1>3 DEF PlacesOK, Alive, TypeOK
<1> QED
  BY <1>2, <1>4, <1>5, <1>6, <1>7, <1>8, <1>9

(* A poster counts its message: the count is one ahead of the slots.        *)
LEMMA PosterReserveStep == ASSUME NEW p \in Posters, IInv, PosterReserve(p) PROVE IInv'
<1> USE TasksAssumption
    DEF IInv, PosterReserve, timerVars, queueVars, radioVars, taskVars, InLoop
<1>1. TimersTypeOK' /\ TimersCoherent'
  BY DEF TypeOK, TimersTypeOK, TimersCoherent
<1>2. CASE size >= QMax
  <2>1. Error(16) /\ ppc' = ppc
    BY <1>2 DEF Error
  <2>2. TypeOK'
    BY <1>1, <2>1 DEF Error, TypeOK, PCs
  <2>3. QED
    BY <1>1, <2>1, <2>2, OverflowLemma
<1>3. CASE ~(size >= QMax)
  <2>1. /\ size' = size + 1 /\ ppc' = [ppc EXCEPT ![p] = "fill"]
        /\ pc' = pc /\ errCode' = errCode
    BY <1>3
  <2>2. sem = p /\ \A q \in Posters : q # p => ppc[q] = "idle"
    BY DEF ListExclusive
  <2>3. Filled = size /\ Filled' = size /\ size' \in 1 .. QMax
    <3>1. size \in 0 .. QMax - 1
      BY <1>3, QMaxAssumption DEF TypeOK
    <3>2. ~Reserved
      BY <2>2 DEF Reserved
    <3>3. Reserved'
      BY <2>1 DEF Reserved, TypeOK
    <3>4. QED
      BY <2>1, <3>1, <3>2, <3>3, QMaxAssumption DEF Filled
  <2>4. RingCoherent' /\ Occupied' = Occupied
    BY <2>3 DEF RingCoherent, Occupied, RingOK, RingSlots, Index
  <2>5. PendingRx' = PendingRx
    BY <2>4 DEF PendingRx
  <2>6. TypeOK'
    BY <1>1, <2>1, <2>3 DEF TypeOK, PPCs
  <2>7. ListExclusive'
    BY <2>1, <2>2 DEF ListExclusive, Alive, TypeOK
  <2>8. OneRxReady'
    BY <2>1, <2>5 DEF OneRxReady, RxRead
  <2>9. NoBadDestination'
    BY <2>1, <2>4 DEF NoBadDestination
  <2>10. PlacesOK'
    BY <2>1, <2>3, <2>5 DEF PlacesOK, Alive, TypeOK
  <2>11. QED
    BY <1>1, <2>4, <2>6, <2>7, <2>8, <2>9, <2>10
<1> QED
  BY <1>2, <1>3

(* A poster writes the slot it has counted: the ring is coherent again.     *)
LEMMA PosterFillStep == ASSUME NEW p \in Posters, IInv, PosterFill(p) PROVE IInv'
<1> USE TasksAssumption
    DEF IInv, PosterFill, timerVars, queueVars, radioVars, taskVars, InLoop
<1>1. TimersTypeOK' /\ TimersCoherent'
  BY DEF TypeOK, TimersTypeOK, TimersCoherent
<1>2. sem = p /\ \A q \in Posters : q # p => ppc[q] = "idle"
  BY DEF ListExclusive
<1>3. Filled = size - 1 /\ Filled' = size /\ size - 1 \in 0 .. QMax - 1
  <2>1. Reserved
    BY DEF Reserved
  <2>2. ~Reserved'
    BY <1>2 DEF Reserved, TypeOK
  <2>3. size \in 1 .. QMax
    BY QMaxAssumption DEF PlacesOK, TypeOK
  <2>4. QED
    BY <2>1, <2>2, <2>3, QMaxAssumption DEF Filled
<1>4. App \in Message /\ App.kind = "app"
  BY TimerNumAssumption DEF App, Message, Timers
<1>5. head \in Index /\ tail \in Index
  BY DEF TypeOK
<1>6. /\ NextIndex(tail) \in Index
      /\ RingOK(head, NextIndex(tail), (size - 1) + 1)
      /\ RingSlots(head, NextIndex(tail), (size - 1) + 1)
           = RingSlots(head, tail, size - 1) \cup {tail}
      /\ tail \notin RingSlots(head, tail, size - 1)
  <2>1. RingOK(head, tail, size - 1)
    BY <1>3 DEF RingCoherent
  <2>2. QED
    BY <1>3, <1>5, <2>1, EnqueueLemma
<1>7. (size - 1) + 1 = size
  BY <1>3, QMaxAssumption DEF TypeOK
<1>8. RingCoherent'
  BY <1>3, <1>6, <1>7 DEF RingCoherent, RingOK
<1>9. Occupied' = Occupied \cup {tail} /\ tail \notin Occupied
  BY <1>3, <1>6, <1>7 DEF Occupied, RingSlots, Index
<1>10. /\ slots' \in [Index -> Message] /\ slots'[tail] = App
       /\ \A i \in Occupied : slots'[i] = slots[i]
  BY <1>4, <1>5, <1>9 DEF TypeOK, Occupied, RingSlots
<1>11. PendingRx' = PendingRx
  BY <1>4, <1>9, <1>10 DEF PendingRx
<1>12. TypeOK'
  BY <1>1, <1>6, <1>10 DEF TypeOK, PPCs
<1>13. ListExclusive'
  BY <1>2 DEF ListExclusive, Alive, TypeOK
<1>14. OneRxReady'
  BY <1>11 DEF OneRxReady, RxRead
<1>15. NoBadDestination'
  BY <1>4, <1>9, <1>10 DEF NoBadDestination
<1>16. PlacesOK'
  BY <1>11 DEF PlacesOK, Alive, TypeOK
<1> QED
  BY <1>1, <1>8, <1>12, <1>13, <1>14, <1>15, <1>16

(* A poster gives NetworkRfSem back.                                        *)
LEMMA PosterUnlockStep == ASSUME NEW p \in Posters, IInv, PosterUnlock(p) PROVE IInv'
<1> USE TasksAssumption
    DEF IInv, PosterUnlock, timerVars, queueVars, radioVars, taskVars, InLoop
<1>1. Filled' = Filled
  <2>1. \A q \in Posters : ppc[q] = "fill" <=> ppc'[q] = "fill"
    BY DEF TypeOK
  <2>2. QED
    BY <2>1 DEF Filled, Reserved
<1>2. RingCoherent' /\ Occupied' = Occupied
  BY <1>1 DEF RingCoherent, Occupied, RingOK, RingSlots, Index
<1>3. PendingRx' = PendingRx
  BY <1>2 DEF PendingRx
<1>4. TypeOK'
  BY DEF TypeOK, TimersTypeOK, PPCs
<1>5. ListExclusive'
  BY DEF ListExclusive, Alive, TypeOK
<1>6. OneRxReady'
  BY <1>3 DEF OneRxReady, RxRead
<1>7. NoBadDestination'
  BY <1>2 DEF NoBadDestination
<1>8. TimersCoherent'
  BY DEF TimersCoherent
<1>9. PlacesOK'
  BY <1>3 DEF PlacesOK, Alive, TypeOK
<1> QED
  BY <1>2, <1>4, <1>5, <1>6, <1>7, <1>8, <1>9

(* The reset starts the program over. *)
LEMMA RebootStep == ASSUME Reboot PROVE IInv'
<1>1. Init'
  BY DEF Reboot, Init, TimersReset, TimersInit, BootSlots, Index, Timers
<1>2. Init => IInv
  BY InitIInv
<1> QED
  BY <1>1, <1>2, InitIInv, PTL

(* A step that changes nothing. *)
LEMMA StutterStep == ASSUME IInv, UNCHANGED vars PROVE IInv'
<1> USE DEF IInv, vars, timerVars, queueVars, radioVars, taskVars
<1>1. RingCoherent' /\ Occupied' = Occupied /\ PendingRx' = PendingRx
  BY FrameLemma
<1>2. TypeOK'
  BY DEF TypeOK, TimersTypeOK
<1>3. ListExclusive' /\ TimersCoherent'
  BY DEF ListExclusive, InLoop, Alive, TimersCoherent
<1>4. OneRxReady' /\ NoBadDestination' /\ PlacesOK'
  BY <1>1 DEF OneRxReady, RxRead, NoBadDestination, PlacesOK, Alive
<1> QED
  BY <1>1, <1>2, <1>3, <1>4

-----------------------------------------------------------------------------
(* The strengthened invariant is inductive: every step of the RF task, of   *)
(* the two interrupts, of the posters and of the reset keeps it.            *)
THEOREM Invariance == Spec => []IInv
<1>1. Init => IInv
  BY InitIInv
<1>2. IInv /\ [Next]_vars => IInv'
  <2> SUFFICES ASSUME IInv, [Next]_vars PROVE IInv'
    OBVIOUS
  <2>1. CASE RfStep
    <3>1. ASSUME NEW t \in Timers, HandlerTimer(t) \/ ScanStop(t) \/ ScanPost(t)
          PROVE  IInv'
      BY <3>1, HandlerTimerStep, ScanStopStep, ScanPostStep
    <3>2. QED
      BY <2>1, <3>1, LockStep, TestStep, PhyReadStep, HandlerSendStep,
         HandlerWindowEndStep, HandlerReturnStep, RxTestStep, RxPostStep,
         RxClearStep, TimersTestStep, WakeStep, ClearEventStep DEF RfStep
  <2>2. CASE Tick
    BY <2>2, TickStep
  <2>3. CASE DataReady
    BY <2>3, DataReadyStep
  <2>4. ASSUME NEW p \in Posters, PosterStep(p) PROVE IInv'
    BY <2>4, PosterLockStep, PosterReserveStep, PosterFillStep, PosterUnlockStep
       DEF PosterStep
  <2>5. CASE Reboot
    BY <2>5, RebootStep
  <2>6. CASE UNCHANGED vars
    BY <2>6, StutterStep
  <2> QED
    BY <2>1, <2>2, <2>3, <2>4, <2>5, <2>6 DEF Next
<1> QED
  BY <1>1, <1>2, PTL DEF Spec

(* Every variable keeps its type: the count and the indices of the ring     *)
(* stay within it (network_os.c:207-225), a timer count never wraps below   *)
(* zero (network_os.c:152-177).                                             *)
THEOREM TypeCorrect == Spec => []TypeOK
<1>1. IInv => TypeOK
  BY DEF IInv
<1> QED
  BY <1>1, Invariance, PTL

(* NetworkRfSem keeps the message list to one task at a time                *)
(* (network_os.c:376, upgradedidi.c:113).                                   *)
THEOREM ListExclusiveCorrect == Spec => []ListExclusive
<1>1. IInv => ListExclusive
  BY DEF IInv
<1> QED
  BY <1>1, Invariance, PTL

(* The count and the indices of the message ring agree at every step of     *)
(* every task (network_os.c:215-225, 386-390).                              *)
THEOREM RingCoherentCorrect == Spec => []RingCoherent
<1>1. IInv => RingCoherent
  BY DEF IInv
<1> QED
  BY <1>1, Invariance, PTL

(* The handshake over RF_RxReady and RF_PhyGetDataEnd lets one              *)
(* EMN_RF_RX_READY at a time into the list (dicor_spi_dri.c:412,            *)
(* network_os.c:392-402, network_phy.c:514).                                *)
THEOREM OneRxReadyCorrect == Spec => []OneRxReady
<1>1. IInv => OneRxReady
  BY DEF IInv
<1> QED
  BY <1>1, Invariance, PTL

(* No timeout is dispatched to EMN_TASK_MAX, so that SYS_Error(2) is        *)
(* unreachable (network_os.c:381-384, 442-470).                             *)
THEOREM NoBadDestinationCorrect == Spec => []NoBadDestination
<1>1. IInv => NoBadDestination
  BY DEF IInv
<1> QED
  BY <1>1, Invariance, PTL

(* A running timer has ticks left and an owner, an expired one has not been *)
(* restarted, whatever the windows and the tick interrupt do                *)
(* (network_os.c:84-182, 439-471).                                          *)
THEOREM TimersCoherentCorrect == Spec => []TimersCoherent
<1>1. IInv => TimersCoherent
  BY DEF IInv
<1> QED
  BY <1>1, Invariance, PTL
-----------------------------------------------------------------------------
(***************************************************************************)
(* The list of the RF task is a first-in first-out queue: each step of the *)
(* RF task, of the interrupts, of a poster and of the reset posts, serves  *)
(* or resets in MsgFifo, or leaves its queue alone.                        *)
(***************************************************************************)

(* The slot of the k-th message of a ring that starts at slot h.            *)
Slot(h, k) == IF h + k - 1 < QMax THEN h + k - 1 ELSE h + k - 1 - QMax

Messages(s, h, n) == [k \in 1 .. n |-> s[Slot(h, k)]]

LEMMA QueueLemma == QueueOf = Messages(slots, head, Filled)
  BY DEF QueueOf, Messages, Slot

(* The slots of the messages are slots of the ring.                         *)
LEMMA SlotLemma ==
  ASSUME NEW h \in Index, NEW k \in 1 .. QMax
  PROVE  Slot(h, k) \in Index
  BY QMaxAssumption DEF Slot, Index

(* The slot to be written is the one behind the last message.               *)
LEMMA TailSlotLemma ==
  ASSUME NEW h \in Index, NEW t \in Index, NEW n \in 0 .. QMax - 1, RingOK(h, t, n)
  PROVE  /\ Slot(h, n + 1) = t
         /\ \A k \in 1 .. n : Slot(h, k) # t
  BY QMaxAssumption DEF Slot, Index, RingOK

LEMMA MessagesLemma ==
  ASSUME NEW s \in [Index -> Message], NEW h \in Index, NEW n \in 0 .. QMax
  PROVE  Messages(s, h, n) \in Seq(Message) /\ Len(Messages(s, h, n)) = n
<1>1. \A k \in 1 .. n : s[Slot(h, k)] \in Message
  BY SlotLemma, QMaxAssumption
<1> QED
  BY <1>1, QMaxAssumption DEF Messages

(* Writing the slot at the tail appends the message.                        *)
LEMMA AppendLemma ==
  ASSUME NEW s \in [Index -> Message], NEW h \in Index, NEW t \in Index, NEW m \in Message,
         NEW n \in 0 .. QMax - 1, RingOK(h, t, n)
  PROVE  Messages([s EXCEPT ![t] = m], h, n + 1) = Append(Messages(s, h, n), m)
<1> DEFINE new == [s EXCEPT ![t] = m]
           old == Messages(s, h, n)
<1>1. n \in 0 .. QMax /\ n + 1 \in 0 .. QMax /\ new \in [Index -> Message]
  BY QMaxAssumption
<1>2. old \in Seq(Message) /\ Len(old) = n
  BY <1>1, MessagesLemma
<1>3. Messages(new, h, n + 1) \in Seq(Message) /\ Len(Messages(new, h, n + 1)) = n + 1
  BY <1>1, MessagesLemma
<1>4. ASSUME NEW k \in 1 .. n + 1
      PROVE  Messages(new, h, n + 1)[k] = Append(old, m)[k]
  <2>1. Slot(h, k) \in Index
    BY SlotLemma, QMaxAssumption
  <2>2. Messages(new, h, n + 1)[k] = new[Slot(h, k)]
    BY DEF Messages
  <2>3. CASE k = n + 1
    <3>1. new[Slot(h, k)] = m
      BY <2>1, <2>3, TailSlotLemma
    <3> QED
      BY <2>2, <2>3, <3>1, <1>2, AppendProperties
  <2>4. CASE k \in 1 .. n
    <3>1. new[Slot(h, k)] = s[Slot(h, k)]
      BY <2>1, <2>4, TailSlotLemma
    <3>2. old[k] = s[Slot(h, k)]
      BY <2>4 DEF Messages
    <3>3. Append(old, m)[k] = old[k]
      BY <2>4, <1>2, AppendProperties
    <3> QED
      BY <2>2, <3>1, <3>2, <3>3
  <2>5. k = n + 1 \/ k \in 1 .. n
    <3> HIDE DEF new, old
    <3> QED
      BY QMaxAssumption
  <2> QED
    BY <2>3, <2>4, <2>5
<1>5. Append(old, m) \in Seq(Message) /\ Len(Append(old, m)) = n + 1
  BY <1>2, AppendProperties
<1> QED
  BY <1>3, <1>4, <1>5, SeqEqual

(* Releasing the slot at the head takes the first message off.              *)
LEMMA TailLemma ==
  ASSUME NEW s \in [Index -> Message], NEW h \in Index, NEW n \in 1 .. QMax
  PROVE  Messages(s, NextIndex(h), n - 1) = Tail(Messages(s, h, n))
<1> DEFINE old == Messages(s, h, n)
           new == Messages(s, NextIndex(h), n - 1)
<1>1. NextIndex(h) \in Index /\ n - 1 \in 0 .. QMax /\ n \in 0 .. QMax
  BY QMaxAssumption DEF NextIndex, Index
<1>2. old \in Seq(Message) /\ Len(old) = n
  BY <1>1, MessagesLemma
<1>3. new \in Seq(Message) /\ Len(new) = n - 1
  BY <1>1, MessagesLemma
<1>4. ASSUME NEW k \in 1 .. n - 1
      PROVE  new[k] = old[k + 1]
  <2>1. Slot(NextIndex(h), k) = Slot(h, k + 1)
    BY QMaxAssumption DEF Slot, NextIndex, Index
  <2> QED
    BY <2>1 DEF Messages
<1>5. old # <<>>
  BY <1>2
<1>6. /\ Tail(old) \in Seq(Message) /\ Len(Tail(old)) = n - 1
      /\ \A k \in 1 .. n - 1 : Tail(old)[k] = old[k + 1]
  BY <1>2, <1>5, HeadTailProperties
<1> QED
  BY <1>3, <1>4, <1>6, SeqEqual

-----------------------------------------------------------------------------
(* What the steps do to the queue.                                          *)
LEMMA KeepsQueue ==
  ASSUME UNCHANGED <<slots, head>>, Filled' = Filled
  PROVE  UNCHANGED QueueOf
  BY QueueLemma DEF QueueOf

LEMMA QueueType ==
  ASSUME IInv
  PROVE  /\ slots \in [Index -> Message] /\ head \in Index /\ tail \in Index
         /\ Filled \in 0 .. QMax /\ RingOK(head, tail, Filled)
         /\ QueueOf \in Seq(Message) /\ Len(QueueOf) = Filled
<1>1. slots \in [Index -> Message] /\ head \in Index /\ tail \in Index /\ size \in 0 .. QMax
  BY DEF IInv, TypeOK
<1>2. Reserved => size > 0
  BY DEF IInv, PlacesOK, Reserved
<1>3. Filled \in 0 .. QMax
  BY <1>1, <1>2, QMaxAssumption DEF Filled
<1>4. RingOK(head, tail, Filled)
  BY DEF IInv, RingCoherent
<1> QED
  BY <1>1, <1>3, <1>4, MessagesLemma, QueueLemma

(* A message written at the tail and counted is posted in MsgFifo.          *)
LEMMA PostLemma ==
  ASSUME IInv, NEW m \in Message, Filled < QMax,
         slots' = [slots EXCEPT ![tail] = m], head' = head, Filled' = Filled + 1
  PROVE  Fifo!Post
<1>1. /\ slots \in [Index -> Message] /\ head \in Index /\ tail \in Index
      /\ Filled \in 0 .. QMax - 1 /\ RingOK(head, tail, Filled)
      /\ Len(QueueOf) = Filled
  BY QueueType, QMaxAssumption
<1>2. Messages([slots EXCEPT ![tail] = m], head, Filled + 1)
        = Append(Messages(slots, head, Filled), m)
  BY <1>1, AppendLemma
<1>3. QueueOf' = Messages([slots EXCEPT ![tail] = m], head, Filled + 1)
  BY QueueLemma DEF QueueOf, Messages, Slot
<1>4. QueueOf' = Append(QueueOf, m) /\ Len(QueueOf) < QMax
  BY <1>1, <1>2, <1>3, QueueLemma
<1> QED
  BY <1>4 DEF Fifo!Post

(* SYS_SendMsg of the RF task posts its message, or the board resets.       *)
LEMMA SendRefines ==
  ASSUME IInv, InLoop, NEW m \in Message, NEW next, NEW ops, SendMsg(m, next, ops), ppc' = ppc
  PROVE  Fifo!Post \/ UNCHANGED QueueOf
<1>1. Filled = size /\ size \in 0 .. QMax /\ ~Reserved
  BY NoReservation DEF IInv, TypeOK, Reserved
<1>2. ~Reserved'
  BY <1>1 DEF Reserved
<1>3. CASE size >= QMax
  <2>1. UNCHANGED <<slots, head, size>>
    BY <1>3 DEF SendMsg, Error, queueVars
  <2> QED
    BY <2>1, <1>1, <1>2, KeepsQueue DEF Filled
<1>4. CASE ~(size >= QMax)
  <2>1. slots' = [slots EXCEPT ![tail] = m] /\ head' = head /\ size' = size + 1
    BY <1>4 DEF SendMsg
  <2>2. Filled' = size'
    BY <1>2 DEF Filled
  <2>3. Filled < QMax /\ Filled' = Filled + 1
    BY <2>1, <2>2, <1>1, <1>4, QMaxAssumption
  <2> QED
    BY <2>1, <2>3, PostLemma
<1> QED
  BY <1>3, <1>4

(* Steps that leave the list and the places of the posters alone.           *)
LEMMA QuietRefines ==
  ASSUME UNCHANGED <<queueVars, ppc>>
  PROVE  UNCHANGED QueueOf
<1>1. UNCHANGED <<slots, head>> /\ Filled' = Filled
  BY DEF queueVars, Filled, Reserved
<1> QED
  BY <1>1, KeepsQueue

LEMMA MessageTypes ==
  ASSUME IInv
  PROVE  /\ App \in Message /\ RxReadyMsg \in Message
         /\ \A t \in Timers : Timeout(t) \in Message
  BY TimerNumAssumption DEF App, RxReadyMsg, Timeout, Message, Timers

(* The handler returns: the message at the head has been served.            *)
LEMMA ReturnRefines ==
  ASSUME IInv, HandlerReturn
  PROVE  Fifo!Serve
<1>1. pc = "handler" /\ InLoop /\ size > 0
  BY DEF IInv, PlacesOK, HandlerReturn, InLoop
<1>2. Filled = size /\ size \in 1 .. QMax /\ ~Reserved
  BY <1>1, NoReservation, QMaxAssumption DEF IInv, TypeOK, Reserved
<1>3. slots' = slots /\ head' = NextIndex(head) /\ Filled' = Filled - 1
  BY <1>2 DEF HandlerReturn, Filled, Reserved
<1>4. /\ slots \in [Index -> Message] /\ head \in Index
      /\ QueueOf \in Seq(Message) /\ Len(QueueOf) = Filled
  BY QueueType
<1>5. Messages(slots, NextIndex(head), Filled - 1) = Tail(Messages(slots, head, Filled))
  BY <1>2, <1>4, TailLemma
<1>6. QueueOf' = Messages(slots, NextIndex(head), Filled - 1)
  BY <1>3 DEF QueueOf, Messages, Slot
<1>7. QueueOf' = Tail(QueueOf)
  BY <1>5, <1>6, QueueLemma
<1>8. QueueOf # <<>>
  BY <1>2, <1>4, EmptySeq
<1> QED
  BY <1>7, <1>8 DEF Fifo!Serve

(* The RF task: it posts, serves, or leaves the list alone.                 *)
LEMMA RfRefines ==
  ASSUME IInv, RfStep
  PROVE  Fifo!Next \/ UNCHANGED QueueOf
<1>1. CASE \/ Lock \/ Test \/ PhyRead \/ HandlerWindowEnd \/ RxTest \/ RxClear
           \/ TimersTest \/ Wake \/ ClearEvent \/ \E t \in Timers : HandlerTimer(t) \/ ScanStop(t)
  <2>1. UNCHANGED <<queueVars, ppc>>
    BY <1>1 DEF Lock, Test, PhyRead, HandlerWindowEnd, RxTest, RxClear, TimersTest, Wake,
                ClearEvent, HandlerTimer, ScanStop, taskVars, queueVars
  <2> QED
    BY <2>1, QuietRefines
<1>2. CASE HandlerSend
  <2>1. InLoop /\ SendMsg(App, "handler", opsLeft - 1) /\ ppc' = ppc
    BY <1>2 DEF HandlerSend, HandlerCall, InLoop
  <2> QED
    BY <2>1, SendRefines, MessageTypes DEF Fifo!Next
<1>3. CASE RxPost
  <2>1. InLoop /\ SendMsg(RxReadyMsg, "rxClear", opsLeft) /\ ppc' = ppc
    BY <1>3 DEF RxPost, InLoop
  <2> QED
    BY <2>1, SendRefines, MessageTypes DEF Fifo!Next
<1>4. ASSUME NEW t \in Timers, ScanPost(t)
      PROVE  Fifo!Next \/ UNCHANGED QueueOf
  <2>1. InLoop /\ SendMsg(Timeout(t), IF scan = {t} THEN "test" ELSE "scan", opsLeft) /\ ppc' = ppc
    BY <1>4 DEF ScanPost, InLoop
  <2>2. Timeout(t) \in Message
    BY MessageTypes
  <2> QED
    BY <2>1, <2>2, SendRefines DEF Fifo!Next
<1>5. CASE HandlerReturn
  BY <1>5, ReturnRefines DEF Fifo!Next
<1> QED
  BY <1>1, <1>2, <1>3, <1>4, <1>5 DEF RfStep

(* A poster posts where it copies its message; counting it first, and the   *)
(* semaphore, do not show.                                                  *)
LEMMA PosterRefines ==
  ASSUME IInv, NEW p \in Posters, PosterStep(p)
  PROVE  Fifo!Next \/ UNCHANGED QueueOf
<1> USE DEF IInv, ListExclusive, TypeOK
<1>1. \A q \in Posters : ppc[q] # "idle" => sem = q
  OBVIOUS
<1>2. ppc \in [Posters -> PPCs] /\ size \in 0 .. QMax
  OBVIOUS
<1>3. CASE PosterLock(p) \/ PosterUnlock(p)
  <2>1. UNCHANGED <<slots, head, size>> /\ (Reserved' <=> Reserved)
    BY <1>2, <1>3 DEF PosterLock, PosterUnlock, queueVars, Reserved
  <2> QED
    BY <2>1, KeepsQueue DEF Filled
<1>4. CASE PosterReserve(p)
  <2>1. ~Reserved
    BY <1>1, <1>2, <1>4 DEF PosterReserve, Reserved
  <2>2. UNCHANGED <<slots, head>>
    BY <1>4 DEF PosterReserve
  <2>3. Filled' = Filled
    <3>1. CASE size >= QMax
      BY <1>4, <2>1, <3>1 DEF PosterReserve, Filled, Reserved
    <3>2. CASE ~(size >= QMax)
      <4>1. size' = size + 1 /\ ppc'[p] = "fill"
        BY <1>2, <1>4, <3>2 DEF PosterReserve
      <4>2. Reserved'
        BY <4>1 DEF Reserved
      <4> QED
        BY <1>2, <2>1, <4>1, <4>2, QMaxAssumption DEF Filled
    <3> QED
      BY <3>1, <3>2
  <2> QED
    BY <2>2, <2>3, KeepsQueue
<1>5. CASE PosterFill(p)
  <2>1. Reserved /\ Filled = size - 1 /\ size > 0
    BY <1>5 DEF PosterFill, Reserved, Filled, PlacesOK
  <2>2. ~Reserved'
    BY <1>1, <1>2, <1>5 DEF PosterFill, Reserved
  <2>3. /\ slots' = [slots EXCEPT ![tail] = App] /\ head' = head /\ size' = size
        /\ Filled' = Filled + 1 /\ Filled < QMax
    BY <1>2, <1>5, <2>1, <2>2, QMaxAssumption DEF PosterFill, Filled
  <2> QED
    BY <2>3, PostLemma, MessageTypes DEF Fifo!Next
<1> QED
  BY <1>3, <1>4, <1>5 DEF PosterStep

(* At the start, and after the reset, the list holds the two messages of    *)
(* the initialisations.                                                     *)
LEMMA BootLemma ==
  ASSUME slots = BootSlots, head = 0, size = 2, ppc = [p \in Posters |-> "idle"]
  PROVE  QueueOf = Boot
<1>1. Filled = 2
  BY DEF Filled, Reserved
<1>2. \A k \in 1 .. 2 : Slot(0, k) \in Index
  BY QMaxAssumption DEF Slot, Index
<1>3. QueueOf = [k \in 1 .. 2 |-> App]
  BY <1>1, <1>2, QueueLemma DEF Messages, BootSlots
<1> QED
  BY <1>3 DEF Boot

LEMMA RebootRefines ==
  ASSUME Reboot
  PROVE  Fifo!Reset
<1>1. /\ slots' = BootSlots /\ head' = 0 /\ size' = 2
      /\ ppc' = [p \in Posters |-> "idle"]
  BY DEF Reboot
<1>2. Filled' = 2
  BY <1>1 DEF Filled, Reserved
<1>3. \A k \in 1 .. 2 : Slot(0, k) \in Index
  BY QMaxAssumption DEF Slot, Index
<1>4. QueueOf' = [k \in 1 .. 2 |-> App]
  BY <1>1, <1>2, <1>3 DEF QueueOf, Slot, BootSlots
<1> QED
  BY <1>4 DEF Boot, Fifo!Reset

-----------------------------------------------------------------------------
(* The message list of the RF task implements the abstract bounded queue:   *)
(* every message is served once, in the order of acceptance, unless the     *)
(* board resets (network_os.c:206-228, 376-391).                            *)
THEOREM ListImplementsQueue == Spec => FifoSpec
<1>1. Init => Fifo!Init
  BY BootLemma DEF Init, Fifo!Init
<1>2. IInv /\ [Next]_vars => [Fifo!Next]_QueueOf
  <2> SUFFICES ASSUME IInv, [Next]_vars PROVE Fifo!Next \/ UNCHANGED QueueOf
    OBVIOUS
  <2>1. CASE RfStep
    BY <2>1, RfRefines
  <2>2. CASE Tick \/ DataReady \/ UNCHANGED vars
    <3>1. UNCHANGED <<queueVars, ppc>>
      BY <2>2 DEF Tick, DataReady, vars, taskVars
    <3> QED
      BY <3>1, QuietRefines
  <2>3. ASSUME NEW p \in Posters, PosterStep(p) PROVE Fifo!Next \/ UNCHANGED QueueOf
    BY <2>3, PosterRefines
  <2>4. CASE Reboot
    BY <2>4, RebootRefines DEF Fifo!Next
  <2> QED
    BY <2>1, <2>2, <2>3, <2>4 DEF Next
<1> QED
  BY <1>1, <1>2, Invariance, PTL DEF Spec, FifoSpec, Fifo!Spec
-----------------------------------------------------------------------------
(***************************************************************************)
(* How exact the software timers are, for every number of timers and every *)
(* width of the counter of missed ticks.                                   *)
(***************************************************************************)
(* The next handled tick charges one tick for each missed one, itself not   *)
(* counted: these are the ticks the timer will be charged beyond that one.  *)
Replayed(n) == IF n = 0 THEN 0 ELSE n - 1

(* NeverEarly and LagBounded speak of the ticks charged so far; to be kept   *)
(* by the replay they must count the ticks that are still to be replayed.    *)
DriftIInv ==
  /\ DriftTypeOK
  /\ seting \cap timeout = {}
  /\ \A t \in seting : /\ Charged(t) + Replayed(noHandle) <= age[t] + debt[t]
                       /\ age[t] <= Charged(t) + noHandle + replays[t]
                       /\ replays[t] <= age[t]
  /\ \A t \in timeout : Charged(t) <= age[t] + debt[t]

USE TimerNumAssumption, MaxValueAssumption, NoHandleAssumption, MaxAgeAssumption

LEMMA DriftIInvInit == DriftInit => DriftIInv
  BY DEF DriftInit, TimersInit, DriftIInv, DriftTypeOK, TimersTypeOK, Timers, Charged, Replayed,
         timerVars

(* A timer that is armed starts with nothing charged, and owes no more than  *)
(* the missed ticks it will be charged with the first tick.                  *)
LEMMA StartKeeps ==
  ASSUME DriftIInv, NEW t \in Timers, NEW v \in 1 .. MaxValue, Start(t, v)
  PROVE  DriftIInv'
<1> USE DEF DriftIInv, DriftTypeOK, TimersTypeOK, Start, StartBody
<1>1. DriftTypeOK'
  <2>1. debt' \in [Timers -> 0 .. NoHandleMod]
    OBVIOUS
  <2>2. value' \in [Timers -> 0 .. MaxValue] /\ armed' \in [Timers -> 0 .. MaxValue]
    OBVIOUS
  <2>3. age' \in [Timers -> 0 .. MaxAge] /\ replays' \in [Timers -> 0 .. MaxAge]
    OBVIOUS
  <2> QED
    BY <2>1, <2>2, <2>3
<1>2. (seting \cap timeout = {})'
  OBVIOUS
<1>3. ASSUME NEW u \in seting'
      PROVE  /\ Charged(u)' + Replayed(noHandle)' <= age'[u] + debt'[u]
             /\ age'[u] <= Charged(u)' + noHandle' + replays'[u]
             /\ replays'[u] <= age'[u]
  <2>1. CASE u = t
    BY <2>1 DEF Charged, Replayed
  <2>2. CASE u # t
    BY <2>2 DEF Charged, Replayed
  <2> QED
    BY <2>1, <2>2
<1>4. ASSUME NEW u \in timeout'
      PROVE  Charged(u)' <= age'[u] + debt'[u]
  BY DEF Charged
<1> QED
  BY <1>1, <1>2, <1>3, <1>4

LEMMA StopKeeps ==
  ASSUME DriftIInv, NEW t \in Timers, Stop(t)
  PROVE  DriftIInv'
<1> USE DEF DriftIInv, DriftTypeOK, TimersTypeOK, Stop, StopBody, historyVars
<1>1. DriftTypeOK'
  <2>1. value' \in [Timers -> 0 .. MaxValue]
    OBVIOUS
  <2> QED
    BY <2>1
<1>2. ASSUME NEW u \in seting' \cup timeout'
      PROVE  Charged(u)' = Charged(u)
  BY DEF Charged
<1> QED
  BY <1>1, <1>2 DEF Replayed

LEMMA EndKeeps == ASSUME DriftIInv, End PROVE DriftIInv'
  BY DEF DriftIInv, DriftTypeOK, TimersTypeOK, End, EndWindow, historyVars, Charged, Replayed

(* A missed tick makes every running timer one tick older and leaves it one  *)
(* more tick to be charged.                                                  *)
LEMMA TickInWindowKeeps ==
  ASSUME DriftIInv, TickInWindow
  PROVE  DriftIInv'
<1> USE DEF DriftIInv, DriftTypeOK, TimersTypeOK, TickInWindow, TickMissed, Bounded
<1>1. noHandle' = noHandle + 1
  OBVIOUS
<1>2. age' \in [Timers -> 0 .. MaxAge]
  BY DEF Older
<1>3. \A t \in seting : age'[t] = age[t] + 1
  BY DEF Older
<1>4. \A t \in timeout : age'[t] = age[t]
  BY DEF Older
<1>5. DriftTypeOK'
  BY <1>1, <1>2
<1>6. ASSUME NEW t \in seting
      PROVE  /\ Charged(t)' + Replayed(noHandle)' <= age'[t] + debt'[t]
             /\ age'[t] <= Charged(t)' + noHandle' + replays'[t]
             /\ replays'[t] <= age'[t]
  BY <1>1, <1>3 DEF Charged, Replayed
<1>7. ASSUME NEW t \in timeout
      PROVE  Charged(t)' <= age'[t] + debt'[t]
  BY <1>4 DEF Charged
<1> QED
  BY <1>5, <1>6, <1>7

(* A handled tick charges every running timer the missed ticks, or one: one  *)
(* tick too few when there were any, which is counted as a replay.           *)
LEMMA TickOutsideKeeps ==
  ASSUME DriftIInv, TickOutside
  PROVE  DriftIInv'
<1> USE DEF DriftIInv, DriftTypeOK, TimersTypeOK, TickOutside, TickHandled, Bounded
<1>1. /\ Passes \in Nat \ {0} /\ Passes = Replayed(noHandle) + 1
      /\ noHandle > 0 => Passes = noHandle
  BY DEF Passes, Replayed
<1>2. value' \in [Timers -> 0 .. MaxValue]
  BY <1>1
<1>3. age' \in [Timers -> 0 .. MaxAge]
  BY DEF Older
<1>4. \A t \in seting : age'[t] = age[t] + 1
  BY DEF Older
<1>5. \A t \in timeout : age'[t] = age[t] /\ Charged(t)' = Charged(t)
  BY DEF Older, Charged
<1>6. replays' \in [Timers -> 0 .. MaxAge]
  OBVIOUS
<1>7. DriftTypeOK' /\ seting' \cap timeout' = {}
  BY <1>2, <1>3, <1>6 DEF Expiring
<1>8. ASSUME NEW t \in seting
      PROVE  Charged(t)' <= age'[t] + debt'[t]
  <2>1. Charged(t)' <= Charged(t) + Passes
    BY <1>1 DEF Charged
  <2> QED
    BY <1>1, <1>4, <2>1 DEF Charged, Replayed
<1>9. ASSUME NEW t \in seting, t \notin Expiring
      PROVE  /\ Charged(t)' + Replayed(noHandle)' <= age'[t] + debt'[t]
             /\ age'[t] <= Charged(t)' + noHandle' + replays'[t]
             /\ replays'[t] <= age'[t]
  <2>1. Charged(t)' = Charged(t) + Passes /\ Replayed(noHandle)' = 0
    BY <1>1, <1>9 DEF Charged, Expiring, Replayed
  <2>2. replays'[t] = IF noHandle > 0 THEN replays[t] + 1 ELSE replays[t]
    OBVIOUS
  <2> QED
    BY <1>1, <1>4, <1>8, <2>1, <2>2 DEF Charged, Replayed
<1> QED
  BY <1>5, <1>7, <1>8, <1>9 DEF Expiring

(* What the timers are charged and what is still to be replayed stay in step *)
(* (network_os.c:137-177).                                                   *)
THEOREM DriftInvariance == DriftSpec => []DriftIInv
<1>1. DriftIInv /\ [DriftNext]_driftVars => DriftIInv'
  <2> SUFFICES ASSUME DriftIInv, [DriftNext]_driftVars PROVE DriftIInv'
    OBVIOUS
  <2>1. CASE UNCHANGED driftVars
    BY <2>1 DEF driftVars, timerVars, historyVars, DriftIInv, DriftTypeOK, TimersTypeOK,
                Charged, Replayed
  <2> QED
    BY <2>1, StartKeeps, StopKeeps, EndKeeps, TickInWindowKeeps, TickOutsideKeeps DEF DriftNext
<1> QED
  BY <1>1, DriftIInvInit, PTL DEF DriftSpec

(* No timeout comes before its ticks, but for ticks missed before the timer  *)
(* was armed (network_os.c:137-144, 152-177).                                *)
THEOREM NeverEarlyCorrect == DriftSpec => []NeverEarly
<1>1. DriftIInv => NeverEarly
  BY DEF DriftIInv, DriftTypeOK, TimersTypeOK, NeverEarly, Charged, Replayed
<1> QED
  BY <1>1, DriftInvariance, PTL

(* A timer lags by what is to be replayed and one tick for each replay       *)
(* (network_os.c:152-177).                                                   *)
THEOREM LagBoundedCorrect == DriftSpec => []LagBounded
<1>1. DriftIInv => LagBounded
  BY DEF DriftIInv, LagBounded
<1> QED
  BY <1>1, DriftInvariance, PTL

-----------------------------------------------------------------------------
(***************************************************************************)
(* The watchdogs are justified for every size of the log and any number of *)
(* tasks that get stuck.                                                   *)
(***************************************************************************)
(* The log task and the watchdogs: a message of the log is in one place.     *)
TasksOK == /\ cond \in [Tasks -> {"ok", "loops", "blocked", "gone"}]
           /\ dog \in [Tasks -> {"off", "fed", "stale"}]
           /\ third \in {"loading", "running"}
KeeperOK == /\ TaskIndex \in {"none", "expired"}
            /\ keeper \in {"scan", "flush", "exit", "power", "doomed"}
LogOK == /\ logger \in {"receive", "write"}
         /\ queued \in 0 .. LOG_POOL_SIZE /\ leaked \in 0 .. LOG_POOL_SIZE /\ Free >= 0
LocksOK == writesem \in {"none", "log"} /\ card \in {"none", "nobody"} \cup CardUsers
KeeperIInv == TasksOK /\ KeeperOK /\ LogOK /\ LocksOK

USE KeeperAssumption

LEMMA KeeperIInvInit == KeeperInit => KeeperIInv
  BY DEF KeeperInit, KeeperIInv, TasksOK, KeeperOK, LogOK, LocksOK, Armed, Free, Held

LEMMA RestartKeeps == Restart => KeeperIInv'
  BY DEF Restart, KeeperIInv, TasksOK, KeeperOK, LogOK, LocksOK, Armed, Free, Held

(* What feeds, arms or stops a watchdog keeps the types.                     *)
LEMMA FeedKeeps ==
  ASSUME KeeperIInv, NEW t \in Tasks, Feeds(t)
  PROVE  dog' \in [Tasks -> {"off", "fed", "stale"}]
  BY DEF KeeperIInv, TasksOK, Feeds, Set

LEMMA SwitchKeeps ==
  ASSUME KeeperIInv, NEW t \in Tasks, Switch(t)
  PROVE  dog' \in [Tasks -> {"off", "fed", "stale"}]
  BY DEF KeeperIInv, TasksOK, Switch, Set

LEMMA TurnsKeep ==
  ASSUME KeeperIInv, Turns
  PROVE  KeeperIInv'
<1>1. UNCHANGED <<cond, third, TaskIndex, keeper, logger, queued, leaked, writesem, card>>
  BY DEF Turns, ThirdTurn, ConnectTurn, RadioTurn, StartStopPolling, LostTurn, Watch, Packet,
         keepVars, logVars, lockVars
<1>2. dog' \in [Tasks -> {"off", "fed", "stale"}]
  <2>1. {"rf", "third", "connect", "lost", "upload"} \subseteq Tasks
    BY DEF Tasks, Order
  <2>2. CASE StartStopPolling \/ Watch
    BY <2>1, <2>2, SwitchKeeps DEF StartStopPolling, Watch, KeeperIInv, TasksOK
  <2>3. CASE ThirdTurn \/ ConnectTurn \/ RadioTurn \/ LostTurn \/ Packet
    BY <2>1, <2>3, FeedKeeps DEF ThirdTurn, ConnectTurn, RadioTurn, LostTurn, Packet
  <2> QED
    BY <2>2, <2>3 DEF Turns
<1> QED
  BY <1>1, <1>2 DEF KeeperIInv, TasksOK, KeeperOK, LogOK, LocksOK, Free, Held

LEMMA HangsKeep ==
  ASSUME KeeperIInv, Hangs
  PROVE  KeeperIInv'
<1>1. UNCHANGED <<third, TaskIndex, keeper, logger, queued, leaked, writesem, card>>
  BY DEF Hangs, EndlessFile, TestWatchdog, RadioWaits, Hang, keepVars, logVars, lockVars
<1>2. cond' \in [Tasks -> {"ok", "loops", "blocked", "gone"}]
  BY DEF Hangs, EndlessFile, TestWatchdog, RadioWaits, Hang, KeeperIInv, TasksOK
<1>3. dog' \in [Tasks -> {"off", "fed", "stale"}]
  <2>1. "upload" \in Tasks
    BY DEF Tasks, Order
  <2> QED
    BY <2>1, FeedKeeps DEF Hangs, EndlessFile, TestWatchdog, RadioWaits, KeeperIInv, TasksOK
<1> QED
  BY <1>1, <1>2, <1>3 DEF KeeperIInv, TasksOK, KeeperOK, LogOK, LocksOK, Free, Held

LEMMA CardKeeps ==
  ASSUME KeeperIInv, TakeCard \/ GiveCard \/ Loaded \/ dicor_kill_task \/ Create \/ UseCard
  PROVE  KeeperIInv'
<1>1. UNCHANGED <<TaskIndex, keeper, logger, queued, leaked, writesem>>
  BY DEF TakeCard, GiveCard, Loaded, dicor_kill_task, Create, UseCard, keepVars, logVars, lockVars
<1>2. /\ third' \in {"loading", "running"}
      /\ card' \in {"none", "nobody"} \cup CardUsers
      /\ cond' \in [Tasks -> {"ok", "loops", "blocked", "gone"}]
  <2> USE DEF KeeperIInv, TasksOK, LocksOK, dogVars, lockVars
  <2>1. CASE TakeCard
    BY <2>1 DEF TakeCard
  <2>2. CASE GiveCard
    BY <2>2 DEF GiveCard
  <2>3. CASE Loaded
    BY <2>3 DEF Loaded
  <2>4. CASE dicor_kill_task
    BY <2>4 DEF dicor_kill_task
  <2>5. CASE Create \/ UseCard
    BY <2>5 DEF Create, UseCard
  <2> QED
    BY <2>1, <2>2, <2>3, <2>4, <2>5
<1>3. dog' \in [Tasks -> {"off", "fed", "stale"}]
  <2>1. "third" \in Tasks
    BY DEF Tasks, Order
  <2> QED
    BY <2>1, FeedKeeps DEF TakeCard, GiveCard, Loaded, dicor_kill_task, Create, UseCard,
                           KeeperIInv, TasksOK, Set, dogVars
<1> QED
  BY <1>1, <1>2, <1>3 DEF KeeperIInv, TasksOK, KeeperOK, LogOK, LocksOK, Free, Held

(* A message of the pool is free, waits, is being written, or is lost.       *)
LEMMA LogKeeps ==
  ASSUME KeeperIInv, PrintLog \/ LogTask
  PROVE  KeeperIInv'
<1>1. UNCHANGED <<cond, third, TaskIndex, keeper, card>>
  BY DEF PrintLog, LogTask, Opened, OpenFails, WriteNext, CloseLog, dogVars, keepVars, lockVars
<1>2. dog' \in [Tasks -> {"off", "fed", "stale"}]
  <2>1. "log" \in Tasks
    BY DEF Tasks, Order
  <2> QED
    BY <2>1, FeedKeeps DEF PrintLog, LogTask, Opened, OpenFails, WriteNext, CloseLog, dogVars,
                           KeeperIInv, TasksOK
<1>3. LogOK' /\ writesem' \in {"none", "log"}
  <2> USE DEF KeeperIInv, LogOK, LocksOK, Free, Held
  <2>1. CASE PrintLog
    BY <2>1 DEF PrintLog, lockVars
  <2>2. CASE Opened
    BY <2>2 DEF Opened
  <2>3. CASE OpenFails
    BY <2>3 DEF OpenFails, lockVars
  <2>4. CASE WriteNext
    BY <2>4 DEF WriteNext, lockVars
  <2>5. CASE CloseLog
    BY <2>5 DEF CloseLog
  <2> QED
    BY <2>1, <2>2, <2>3, <2>4, <2>5 DEF LogTask
<1> QED
  BY <1>1, <1>2, <1>3 DEF KeeperIInv, TasksOK, KeeperOK, LocksOK

LEMMA HourKeeps ==
  ASSUME KeeperIInv, Hour
  PROVE  KeeperIInv'
<1>1. UNCHANGED <<cond, third, keeper, logger, queued, leaked, writesem, card>>
  BY DEF Hour, logVars, lockVars
<1>2. dog' \in [Tasks -> {"off", "fed", "stale"}]
  BY DEF Hour, AllOff
<1>3. TaskIndex' \in {"none", "expired"}
  BY DEF Hour, KeeperIInv, KeeperOK
<1> QED
  BY <1>1, <1>2, <1>3 DEF KeeperIInv, TasksOK, KeeperOK, LogOK, LocksOK, Free, Held

LEMMA VoltageKeeps ==
  ASSUME KeeperIInv, VoltageDrops
  PROVE  KeeperIInv'
  BY DEF KeeperIInv, VoltageDrops, AllOff, keepVars, logVars, lockVars,
               TasksOK, KeeperOK, LogOK, LocksOK, Free, Held

LEMMA KeepKeeps ==
  ASSUME KeeperIInv, Keep
  PROVE  KeeperIInv'
<1>1. CASE Scan \/ Exit
  BY <1>1 DEF KeeperIInv, Scan, Exit, dogVars, logVars, lockVars,
                     TasksOK, KeeperOK, LogOK, LocksOK, Free, Held
<1>2. CASE Flush
  <2>1. UNCHANGED <<cond, dog, third, TaskIndex, logger, leaked, writesem, card>>
        /\ keeper' = "exit"
    BY <1>2 DEF Flush, dogVars, lockVars
  <2>2. LogOK'
    BY <1>2, <2>1 DEF KeeperIInv, Flush, LogOK, Free, Held
  <2> QED
    BY <2>1, <2>2 DEF KeeperIInv, TasksOK, KeeperOK, LocksOK
<1>3. CASE KeeperReboot
  BY <1>3, RestartKeeps DEF KeeperReboot
<1> QED
  BY <1>1, <1>2, <1>3 DEF Keep

(* The watchdogs and locks keep their types, and a message of the log is     *)
(* free, waits, is being written or is lost, never two of these              *)
(* (Logging_Task.c).                                                         *)
THEOREM KeeperTypeCorrect == KeeperSpec => []KeeperTypeOK
<1>1. KeeperIInv /\ [KeeperNext]_keeperVars => KeeperIInv'
  <2> SUFFICES ASSUME KeeperIInv, [KeeperNext]_keeperVars PROVE KeeperIInv'
    OBVIOUS
  <2>1. CASE UNCHANGED keeperVars
    BY <2>1 DEF KeeperIInv, keeperVars, dogVars, keepVars, logVars, lockVars,
                       TasksOK, KeeperOK, LogOK, LocksOK, Free, Held
  <2>2. CASE PowerGone
    BY <2>2, RestartKeeps DEF PowerGone
  <2> QED
    BY <2>1, <2>2, TurnsKeep, HangsKeep, CardKeeps, LogKeeps, HourKeeps, VoltageKeeps, KeepKeeps
       DEF KeeperNext
<1>2. KeeperIInv => KeeperTypeOK
  BY DEF KeeperIInv, TasksOK, KeeperOK, LogOK, LocksOK, KeeperTypeOK
<1> QED
  BY <1>1, <1>2, KeeperIInvInit, PTL DEF KeeperSpec

(***************************************************************************)
(* The rounds of the third-device task.  What was spent since the last feed *)
(* is bounded by the polls of this round: PollTime for each device behind   *)
(* which the task is, and the waits of the poll and of the rest.            *)
(***************************************************************************)
Spent == IF place = "rest" THEN listed * PollTime ELSE (pNode - 1) * PollTime
Paced ==
  /\ place \in {"load", "failed"} => sinceFed <= 1 + waited
  /\ place = "load" => sinceFed <= waited
  /\ place = "count" => sinceFed <= 1
  /\ place = "visit" => sinceFed <= 1 + Spent /\ pNode <= listed + 1
  /\ place = "poll" => sinceFed <= 1 + Spent + waited /\ pNode <= listed
  /\ place = "rest" => sinceFed <= 1 + Spent + waited
  /\ waited <= Limit
RoundsIInv == RoundsTypeOK /\ Paced

USE RoundsAssumption

LEMMA OneMore ==
  ASSUME NEW n \in Nat
  PROVE  /\ n * PollTime \in Nat
         /\ (n + 1) * PollTime = n * PollTime + PollTime
  OBVIOUS

LEMMA NoMore ==
  ASSUME NEW m \in Nat, NEW n \in Nat, m <= n
  PROVE  m * PollTime <= n * PollTime
<1>1. PICK k \in Nat : n = m + k
  <2>1. n - m \in Nat /\ n = m + (n - m)
    OBVIOUS
  <2> QED
    BY <2>1
<1>2. (m + k) * PollTime = m * PollTime + k * PollTime
      /\ k * PollTime \in Nat /\ m * PollTime \in Nat
  OBVIOUS
<1> QED
  BY <1>1, <1>2

(* The task is fed in time because all it can wait for before the next feed  *)
(* fits: one wait, a poll of every device, one wait more.                    *)
LEMMA PacedInTime ==
  ASSUME RoundsTypeOK, Paced
  PROVE  FedInTime
<1>1. /\ sinceFed \in Nat /\ waited \in Nat /\ listed \in Nat /\ pNode \in Nat
      /\ pNode - 1 \in Nat /\ listed <= Table /\ pNode - 1 <= Table
  BY DEF RoundsTypeOK
<1>2. /\ listed * PollTime <= Table * PollTime
      /\ (pNode - 1) * PollTime <= Table * PollTime
  BY <1>1, NoMore
<1>3. /\ listed * PollTime \in Nat /\ (pNode - 1) * PollTime \in Nat /\ Table * PollTime \in Nat
  BY <1>1, OneMore
<1>4. CASE place = "poll"
  <2>1. pNode <= Table /\ pNode * PollTime <= Table * PollTime
    BY <1>1, <1>4, NoMore DEF Paced
  <2>2. pNode * PollTime = (pNode - 1) * PollTime + PollTime
    <3>1. (pNode - 1) + 1 = pNode
      BY <1>1
    <3> QED
      BY <1>1, <3>1, OneMore
  <2>3. waited <= PollTime /\ sinceFed <= 1 + (pNode - 1) * PollTime + waited
    BY <1>4 DEF Paced, Limit, Spent
  <2> DEFINE q == (pNode - 1) * PollTime
             t == Table * PollTime
  <2>4. q \in Nat /\ t \in Nat /\ q + PollTime <= t
    BY <2>1, <2>2, <1>3
  <2>5. sinceFed <= 1 + q + waited /\ t + 2 < Deadline
    BY <2>3
  <2> HIDE DEF q, t
  <2> QED
    BY <1>1, <2>3, <2>4, <2>5 DEF FedInTime
<1>5. CASE place # "poll"
  <2>1. waited <= 1
    BY <1>5 DEF Paced, Limit
  <2> DEFINE q == (pNode - 1) * PollTime
             l == listed * PollTime
             t == Table * PollTime
  <2>2. q \in Nat /\ l \in Nat /\ t \in Nat /\ q <= t /\ l <= t /\ t + 2 < Deadline
    BY <1>2, <1>3
  <2>3. sinceFed <= 1 + waited \/ sinceFed <= 1 + q \/ sinceFed <= 1 + l + waited
    <3>1. place \in {"load", "failed", "count", "visit", "rest"}
      BY <1>5 DEF RoundsTypeOK
    <3> QED
      BY <1>1, <3>1 DEF Paced, Spent
  <2> HIDE DEF q, l, t
  <2> QED
    BY <1>1, <2>1, <2>2, <2>3 DEF FedInTime
<1> QED
  BY <1>4, <1>5

LEMMA RoundsStepType ==
  ASSUME RoundsIInv, [RoundsNext]_roundVars
  PROVE  RoundsTypeOK'
<1> USE DEF RoundsIInv, RoundsTypeOK
<1>1. CASE LoadThirdDevFormSDCard
  BY <1>1 DEF LoadThirdDevFormSDCard, Go
<1>2. CASE StayFailed
  BY <1>2 DEF StayFailed, Go, listVars
<1>3. CASE Third_Device_Timer_Inc
  BY <1>3 DEF Third_Device_Timer_Inc, Go, Least
<1>4. CASE Skip
  BY <1>4 DEF Skip, listVars
<1>5. ASSUME NEW d \in 1 .. Table, Poll(d)
      PROVE  RoundsTypeOK'
  BY <1>5 DEF Poll, Go
<1>6. CASE Polled
  BY <1>6 DEF Polled, Go, listVars, Paced
<1>7. CASE RoundOver
  BY <1>7 DEF RoundOver, Go, listVars
<1>8. CASE Rest
  BY <1>8 DEF Rest, Go, listVars
<1>9. CASE TimePasses
  BY <1>9 DEF TimePasses, listVars
<1>10. CASE UNCHANGED roundVars
  BY <1>10 DEF roundVars, listVars
<1> QED
  BY <1>1, <1>2, <1>3, <1>4, <1>5, <1>6, <1>7, <1>8, <1>9, <1>10 DEF RoundsNext, TaskSteps

LEMMA RoundsStepPaced ==
  ASSUME RoundsIInv, [RoundsNext]_roundVars
  PROVE  Paced'
<1>0. /\ sinceFed \in Nat /\ waited \in Nat /\ listed \in Nat /\ pNode \in Nat /\ pNode - 1 \in Nat
      /\ PollTime \in Nat
  BY DEF RoundsIInv, RoundsTypeOK
<1>a. 0 * PollTime = 0 /\ listed * PollTime \in Nat /\ (pNode - 1) * PollTime \in Nat
  BY <1>0, OneMore
<1>b. Paced
  BY DEF RoundsIInv
<1>1. CASE LoadThirdDevFormSDCard
  BY <1>0, <1>b, <1>1 DEF LoadThirdDevFormSDCard, Go, Paced, Limit
<1>2. CASE StayFailed
  BY <1>0, <1>2 DEF StayFailed, Go, Paced, Limit
<1>3. CASE Third_Device_Timer_Inc
  <2>1. pNode' = 1 /\ place' = "visit" /\ sinceFed' = sinceFed /\ sinceFed <= 1 /\ waited' = 0
        /\ listed' = listed
    BY <1>b, <1>3 DEF Third_Device_Timer_Inc, Go, Paced
  <2>2. Spent' = 0
    BY <2>1, <1>a DEF Spent
  <2> QED
    BY <2>1, <2>2, <1>0 DEF Paced, Limit
<1>4. CASE Skip
  <2>1. /\ place = "visit" /\ place' = "visit" /\ pNode' = pNode + 1 /\ sinceFed' = sinceFed
        /\ waited' = waited /\ listed' = listed /\ pNode <= listed
    BY <1>4 DEF Skip, listVars
  <2>2. (pNode - 1) + 1 = pNode /\ pNode' - 1 = pNode
    BY <2>1, <1>0
  <2>3. Spent' = Spent + PollTime /\ Spent \in Nat
    BY <2>1, <2>2, <1>0, <1>a, OneMore DEF Spent
  <2>4. sinceFed <= 1 + Spent /\ waited <= Limit /\ Limit' = Limit
    BY <2>1, <1>b DEF Paced, Limit
  <2> HIDE DEF Spent, Limit
  <2> QED
    BY <2>1, <2>3, <2>4, <1>0 DEF Paced
<1>5. ASSUME NEW d \in 1 .. Table, Poll(d)
      PROVE  Paced'
  <2>1. /\ place = "visit" /\ place' = "poll" /\ pNode' = pNode /\ sinceFed' = sinceFed
        /\ waited' = 0 /\ listed' = listed /\ pNode <= listed
    BY <1>5 DEF Poll, Go
  <2>2. Spent' = Spent /\ Spent \in Nat /\ sinceFed <= 1 + Spent
    BY <2>1, <1>a, <1>b DEF Spent, Paced
  <2>3. Limit' = PollTime
    BY <2>1 DEF Limit
  <2> QED
    BY <2>1, <2>2, <2>3, <1>0 DEF Paced
<1>6. CASE Polled
  <2>1. /\ place = "poll" /\ place' = "visit" /\ pNode' = pNode + 1 /\ sinceFed' \in {0, sinceFed}
        /\ waited' = 0 /\ listed' = listed /\ pNode <= listed
    BY <1>6, <1>b DEF Polled, Go, listVars, Paced
  <2>2. (pNode - 1) + 1 = pNode /\ pNode' - 1 = pNode
    BY <2>1, <1>0
  <2>3. Spent' = Spent + PollTime /\ Spent \in Nat
    BY <2>1, <2>2, <1>0, <1>a, OneMore DEF Spent
  <2>4. sinceFed <= 1 + Spent + waited /\ waited <= PollTime
    BY <2>1, <1>b DEF Paced, Limit
  <2>5. Limit' = 1
    BY <2>1 DEF Limit
  <2> HIDE DEF Spent, Limit
  <2> QED
    BY <2>1, <2>3, <2>4, <2>5, <1>0 DEF Paced
<1>7. CASE RoundOver
  <2>1. /\ place = "visit" /\ place' = "rest" /\ sinceFed' = sinceFed
        /\ waited' = 0 /\ listed' = listed /\ pNode > listed
    BY <1>7 DEF RoundOver, Go, listVars
  <2>2. pNode - 1 = listed /\ sinceFed <= 1 + Spent
    BY <2>1, <1>0, <1>b DEF Paced
  <2>3. Spent' = Spent /\ Spent \in Nat
    BY <2>1, <2>2, <1>a DEF Spent
  <2>4. Limit' = 1
    BY <2>1 DEF Limit
  <2> QED
    BY <2>1, <2>2, <2>3, <2>4, <1>0 DEF Paced
<1>8. CASE Rest
  BY <1>0, <1>8 DEF Rest, Go, Paced, Limit
<1>9. CASE TimePasses
  <2>1. /\ place' = place /\ pNode' = pNode /\ listed' = listed
        /\ waited' = waited + 1 /\ sinceFed' = sinceFed + 1 /\ waited < Limit
        /\ place \notin {"visit", "count"}
    BY <1>9 DEF TimePasses, listVars
  <2>2. Spent' = Spent /\ Limit' = Limit /\ Spent \in Nat /\ Limit \in Nat
    BY <2>1, <1>0, <1>a DEF Spent, Limit
  <2> HIDE DEF Spent, Limit
  <2> QED
    BY <2>1, <2>2, <1>0, <1>b DEF Paced
<1>10. CASE UNCHANGED roundVars
  BY <1>10, <1>b DEF roundVars, listVars, Paced, Spent, Limit
<1> QED
  BY <1>1, <1>2, <1>3, <1>4, <1>5, <1>6, <1>7, <1>8, <1>9, <1>10 DEF RoundsNext, TaskSteps

(* Whatever the table, the periods and the answers: the watchdog of a        *)
(* third-device task that works never expires, if the polls of all devices   *)
(* fit into its hour together (third_device.c, thirddevice_poll.c).          *)
THEOREM FedInTimeCorrect == RoundsSpec => []FedInTime
<1>1. RoundsInit => RoundsIInv
  BY DEF RoundsInit, RoundsIInv, RoundsTypeOK, Paced, Limit
<1>2. RoundsIInv /\ [RoundsNext]_roundVars => RoundsIInv'
  BY RoundsStepType, RoundsStepPaced DEF RoundsIInv
<1>3. RoundsIInv => FedInTime
  BY PacedInTime DEF RoundsIInv
<1> QED
  BY <1>1, <1>2, <1>3, PTL DEF RoundsSpec
=============================================================================
