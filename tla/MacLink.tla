------------------------------- MODULE MacLink -------------------------------
(***************************************************************************)
(* The sending side of the RF stack: the MAC layer of the coordinator in   *)
(* its normal state EMN_MAC_CON (network_dlc.c) with the transmitter of    *)
(* the PHY layer (network_phy.c).  A request of the NWK layer is sent and  *)
(* sent again until it is acknowledged or has been tried often enough; at  *)
(* start-up, without a static register table, the node pages its network   *)
(* before it sets it up.  Both use the one timer of the MAC layer.         *)
(*                                                                         *)
(* The messages go through the queue that RfOs implements and the timer is *)
(* one of RfTimers, here without their limits.  Received frames are events *)
(* of the environment (PhyRx models how they are received).                *)
(***************************************************************************)
EXTENDS Naturals, Sequences

CONSTANTS
  Builds,         \* the values of DICOR_STATIC_REG_TAB
  Incoming,       \* the kinds of frames the peers send
  MaxIn,          \* bound: frames the peers send
  MaxReq,         \* bound: requests of the NWK layer
  MaxResend,      \* timeouts after which a frame is given up (2)
  MaxDis          \* pages after which paging ends (30)

ASSUME BuildsAssumption == Builds \subseteq BOOLEAN
ASSUME IncomingAssumption == Incoming \subseteq {"ackOk", "ackErr", "data"}
ASSUME LimitsAssumption ==
  MaxIn \in Nat /\ MaxReq \in Nat /\ MaxResend \in Nat \ {0} /\ MaxDis \in Nat

VARIABLES
  staticRegTab,   \* DICOR_STATIC_REG_TAB, fixed for a behaviour
  queue,       \* the message list
  pc,          \* where the RF task is in its loop
  err,         \* argument of SYS_Error, 0 if none
  reSend,      \* MAC_ReSendBuf.which: "none", or the buffer to send again
  ct,          \* MAC_ResendTimeoutCt
  disTime,     \* MAC_DisNetTime
  disEnd,      \* EMN_MAC_DIS_NETWORK_CFM was sent
  timer,       \* the MAC timer: off, running or expired
  timerId,     \* its msgID
  buf,         \* NWK_ComBuf: the last request made
  received,    \* frames the peers have sent
  acked,       \* history: requests whose acknowledgement was handled
  round,       \* history: transmissions of a request since the resend
               \* buffer was last released or a request was made
  hasty        \* history: a timer has expired, or a request been made,
               \* while messages waited, or an error acknowledgement came

osVars   == <<queue, pc, err>>
timerVars == <<timer, timerId>>
disVars  == <<disTime, disEnd>>
history  == <<acked, round, hasty>>
envVars  == <<staticRegTab, buf, received>>
vars == <<osVars, reSend, ct, disVars, timerVars, envVars, history>>

-----------------------------------------------------------------------------
(* EMN_MAC_DIS_NETWORK_REQ, EMN_MAC_DATA_REQ, EMN_PHY_TX_REQ by the buffer  *)
(* it names, EMN_PHY_TX_CFM, EMN_PHY_RX_IND by the frame, EMN_MAC_DATA_IND, *)
(* EMN_TIMEOUT by its msgID; what the release of a frame in the receive     *)
(* ring names: "res" the slots of the indication, "badRes" a buffer.        *)
Frames == {"ackOk", "ackErr", "data"}
Kinds == Frames \cup {"disReq", "dataReq", "txReq", "txAck", "txDis", "txNone", "cfm",
                      "dataInd", "dataRes", "badRes", "res", "resend", "disnet"}

Fail(code) == err' = code /\ pc' = "error" /\ UNCHANGED queue

Return(msgs) == queue' = Tail(queue) \o msgs /\ pc' = "timers" /\ UNCHANGED err

Serving(k) == pc = "serve" /\ queue # <<>> /\ Head(queue) = k

Init ==
  /\ staticRegTab \in Builds
  /\ queue = IF staticRegTab THEN <<>> ELSE <<"disReq">>
  /\ pc = "serve" /\ err = 0
  /\ reSend = "none" /\ ct = 0 /\ disTime = 0 /\ disEnd = FALSE
  /\ timer = "off" /\ timerId = "resend"
  /\ buf = 0 /\ received = 0 /\ acked = {} /\ round = 0 /\ hasty = FALSE

StartTimer(id) == timer' = "running" /\ timerId' = id
StopTimer == timer' = "off" /\ UNCHANGED timerId

(* The buffer to be sent again is let go. *)
ReleaseBuffer == reSend' = "none" /\ ct' = 0 /\ round' = 0

-----------------------------------------------------------------------------
(* The environment: the tick interrupt, the peers, the NWK layer. *)

Expire ==
  /\ timer = "running"
  /\ timer' = "expired"
  /\ hasty' = (hasty \/ pc # "serve" \/ queue # <<>>)
  /\ UNCHANGED <<osVars, reSend, ct, disVars, timerId, envVars, acked, round>>

Receive ==
  /\ pc = "serve" /\ received < MaxIn
  /\ \E f \in Incoming :
       /\ queue' = Append(queue, f)
       /\ hasty' = (hasty \/ f = "ackErr")
  /\ received' = received + 1
  /\ UNCHANGED <<pc, err, reSend, ct, disVars, timerVars, staticRegTab, buf, acked, round>>

(* NWK_CordGetSampleReq and the other requests build a frame in NWK_ComBuf  *)
(* and post EMN_MAC_DATA_REQ; before the network is set up none is made.    *)
Request ==
  /\ pc = "serve" /\ staticRegTab /\ buf < MaxReq
  /\ buf' = buf + 1 /\ round' = 0
  /\ hasty' = (hasty \/ queue # <<>> \/ timer = "expired")
  /\ queue' = Append(queue, "dataReq")
  /\ UNCHANGED <<pc, err, reSend, ct, disVars, timerVars, staticRegTab, received, acked>>

-----------------------------------------------------------------------------
(* The dispatch of an expired timer after each message. *)
Dispatch ==
  /\ pc = "timers" \/ (pc = "serve" /\ queue = <<>> /\ timer = "expired")
  /\ pc' = "serve"
  /\ IF timer = "expired"
       THEN queue' = Append(queue, timerId) /\ timer' = "off"
       ELSE UNCHANGED <<queue, timer>>
  /\ UNCHANGED <<err, reSend, ct, disVars, timerId, envVars, history>>

(* EMN_PHY_TxPacket: a frame that wants an acknowledgement is noted in      *)
(* MAC_ReSendBuf, any other clears it; a buffer nobody knows is an error.   *)
TxRequest ==
  /\ Serving("txReq")
  /\ reSend' = "nwkCom" /\ round' = round + 1
  /\ Return(<<"cfm">>)
  /\ UNCHANGED <<ct, disVars, timerVars, envVars, acked, hasty>>

TxOther ==
  /\ Serving("txAck") \/ Serving("txDis")
  /\ reSend' = "none" /\ round' = 0
  /\ Return(<<"cfm">>)
  /\ UNCHANGED <<ct, disVars, timerVars, envVars, acked, hasty>>

TxUnknown ==
  /\ Serving("txNone")
  /\ Fail(10)
  /\ UNCHANGED <<reSend, ct, disVars, timerVars, envVars, history>>

(* MAC_MacDataReqHal, for a destination in the routing table. *)
DataReq ==
  /\ Serving("dataReq")
  /\ Return(<<"txReq">>)
  /\ UNCHANGED <<reSend, ct, disVars, timerVars, envVars, history>>

(* A slip: the resend timer is not started. *)
TxCfmNoTimer ==
  /\ Serving("cfm")
  /\ IF reSend # "none"
       THEN UNCHANGED <<timerVars, reSend, ct, round>>
       ELSE StopTimer /\ ReleaseBuffer
  /\ Return(<<>>)
  /\ UNCHANGED <<disVars, envVars, acked, hasty>>

(* EMN_PHY_TX_CFM *)
TxCfm ==
  /\ Serving("cfm")
  /\ IF reSend # "none"
       THEN StartTimer("resend") /\ UNCHANGED <<reSend, ct, round>>
       ELSE StopTimer /\ ReleaseBuffer
  /\ Return(<<>>)
  /\ UNCHANGED <<disVars, envVars, acked, hasty>>

(* EMN_PHY_TX_REQ for the buffer in MAC_ReSendBuf. *)
Resent == IF reSend = "none" THEN "txNone" ELSE "txReq"

(* MAC_AckFrameHal *)
AckOk ==
  /\ Serving("ackOk")
  /\ StopTimer /\ ReleaseBuffer
  /\ acked' = IF reSend = "none" THEN acked ELSE acked \cup {buf}
  /\ Return(<<"res">>)
  /\ UNCHANGED <<disVars, envVars, hasty>>

AckErr ==
  /\ Serving("ackErr")
  /\ IF ct + 1 < 2
       THEN ct' = ct + 1 /\ Return(<<Resent, "res">>) /\ UNCHANGED <<reSend, round>>
       ELSE ReleaseBuffer /\ Return(<<"res">>)
  /\ UNCHANGED <<disVars, timerVars, envVars, acked, hasty>>

(* MAC_PhyDataInd: a data frame is acknowledged twice. *)
DataInd ==
  /\ Serving("data")
  /\ Return(<<"txAck", "txAck", "dataInd", "res">>)
  /\ UNCHANGED <<reSend, ct, disVars, timerVars, envVars, history>>

(* EMN_NWK_Task on EMN_MAC_DATA_IND: in EMN_NWK_CORD_CON the data is used,  *)
(* in EMN_NWK_CORD_DIS_SCAN a release goes back, and the MAC layer passes   *)
(* it on to the PHY layer.                                                  *)
NwkDataInd ==
  /\ Serving("dataInd")
  /\ Return(IF staticRegTab THEN <<>> ELSE <<"dataRes">>)
  /\ UNCHANGED <<reSend, ct, disVars, timerVars, envVars, history>>

DataRes ==
  /\ Serving("dataRes")
  /\ Return(<<"badRes">>)
  /\ UNCHANGED <<reSend, ct, disVars, timerVars, envVars, history>>

(* EMN_PHY_RX_RES: every frame was released before, so that one more        *)
(* release is one too many.                                                 *)
RxRes ==
  /\ Serving("res") \/ Serving("badRes")
  /\ IF Head(queue) = "badRes" THEN Fail(5) ELSE Return(<<>>)
  /\ UNCHANGED <<reSend, ct, disVars, timerVars, envVars, history>>

(* Slips: the timeouts are not counted; the frame is given up but not let go. *)
TimeoutResendUncounted ==
  /\ Serving("resend")
  /\ StopTimer
  /\ Return(IF reSend = "none" THEN <<>> ELSE <<"txReq">>)
  /\ UNCHANGED <<ct, reSend, round, disVars, envVars, acked, hasty>>

TimeoutResendKeepsBuffer ==
  /\ Serving("resend")
  /\ StopTimer
  /\ IF ct + 1 > MaxResend
       THEN ct' = 0 /\ Return(<<>>)
       ELSE /\ ct' = ct + 1
            /\ Return(IF reSend = "none" THEN <<>> ELSE <<"txReq">>)
  /\ UNCHANGED <<reSend, round, disVars, envVars, acked, hasty>>

(* EMN_TIMEOUT with SYS_TIMEOUT_RESEND *)
TimeoutResend ==
  /\ Serving("resend")
  /\ StopTimer
  /\ IF ct + 1 > MaxResend
       THEN ReleaseBuffer /\ Return(<<>>)
       ELSE /\ ct' = ct + 1
            /\ Return(IF reSend = "none" THEN <<>> ELSE <<"txReq">>)
            /\ UNCHANGED <<reSend, round>>
  /\ UNCHANGED <<disVars, envVars, acked, hasty>>

(* EMN_MAC_DIS_NETWORK_REQ: MAC_DisNetwork pages the network. *)
DisReq ==
  /\ Serving("disReq")
  /\ StartTimer("disnet")
  /\ Return(<<"txDis">>)
  /\ UNCHANGED <<reSend, ct, disVars, envVars, history>>

(* EMN_TIMEOUT with SYS_TIMEOUT_DIS_NET *)
TimeoutDisNet ==
  /\ Serving("disnet")
  /\ disTime' = disTime + 1
  /\ IF disTime + 1 > MaxDis
       THEN disEnd' = TRUE /\ Return(<<>>) /\ UNCHANGED timerVars
       ELSE StartTimer("disnet") /\ Return(<<"txDis">>) /\ UNCHANGED disEnd
  /\ UNCHANGED <<reSend, ct, envVars, history>>

RfStep ==
  \/ Dispatch \/ TxRequest \/ TxOther \/ TxUnknown \/ DataReq \/ TxCfm \/ AckOk \/ AckErr
  \/ DataInd \/ NwkDataInd \/ DataRes \/ RxRes \/ TimeoutResend \/ DisReq \/ TimeoutDisNet

Next == RfStep \/ Expire \/ Receive \/ Request

Spec == Init /\ [][Next]_vars

(* The RF task runs whenever there is something to serve; a running timer   *)
(* expires.                                                                 *)
FairSpec == Spec /\ WF_vars(RfStep) /\ WF_vars(Expire)

-----------------------------------------------------------------------------
(* Type invariant. *)
TypeOK ==
  /\ queue \in Seq(Kinds)
  /\ pc \in {"serve", "timers", "error"} /\ err \in {0, 5, 10}
  /\ reSend \in {"none", "nwkCom"} /\ ct \in 0 .. MaxResend
  /\ disTime \in 0 .. MaxDis + 1 /\ disEnd \in BOOLEAN
  /\ timer \in {"off", "running", "expired"} /\ timerId \in {"resend", "disnet"}
  /\ buf \in 0 .. MaxReq /\ received \in 0 .. MaxIn
  /\ acked \subseteq 1 .. MaxReq /\ round \in Nat
  /\ staticRegTab \in Builds /\ hasty \in BOOLEAN

Queued(k) == \E i \in 1 .. Len(queue) : queue[i] = k

(* A request that waits for its acknowledgement is not forgotten: the       *)
(* resend timer runs or has expired, or a message is on its way whose       *)
(* handler starts the timer, sends the request again or lets it go          *)
(* (network_dlc.c:1090-1116, 1150-1166, network_phy.c:307-317).             *)
NoOrphan ==
  /\ TypeOK
  /\ reSend # "none" /\ err = 0 =>
       timer # "off" \/ Queued("resend") \/ Queued("cfm") \/ Queued("txReq")

(* A frame is sent once and again at most MaxResend times before the MAC    *)
(* layer lets it go, whatever acknowledgements and data frames come in      *)
(* between, as long as the waiting messages are served before the timer     *)
(* expires or the next request is made and no peer sends an error           *)
(* acknowledgement (network_dlc.c:1095-1104, 1150-1166).                    *)
RetryBound == ~hasty => round <= MaxResend + 1

(* Whatever is lost and whatever comes late, the sending side comes to rest *)
(* once no more requests are made and no more frames received: nothing is   *)
(* sent again for ever (network_dlc.c:1095-1114, 1117-1131).                *)
Quiesces == <>[](pc = "error" \/ (queue = <<>> /\ timer = "off" /\ reSend = "none"))

(* The paging of the network comes to its end, after which the node sets    *)
(* the network up (network_dlc.c:1047).                                     *)
PagingEnds == <>(disEnd \/ pc = "error")
=============================================================================
