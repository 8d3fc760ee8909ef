-------------------------------- MODULE PhyRx --------------------------------
(***************************************************************************)
(* The receive path of the RF stack: the nRF905 radio and its data-ready   *)
(* interrupt, the ring EMN_PHY_RxBuf in which the PHY layer collects the   *)
(* packets of a logical frame (network_phy.c), and the MAC layer of the    *)
(* coordinator in its normal state, which reads a logical frame in the     *)
(* ring when EMN_PHY_RX_IND reaches it and releases it with                *)
(* EMN_PHY_RX_RES (network_dlc.c).  The messages go through the queue that *)
(* RfOs implements, here the first-in first-out list of MsgFifo.           *)
(*                                                                         *)
(* The peers send logical frames 1, 2, ... of up to MaxLen packets; what a *)
(* packet says beyond its place in its frame is left out.  The frames sent *)
(* by this node are events of the radio without contents.                  *)
(*                                                                         *)
(* Only request and response of the application keep the peers from        *)
(* sending when it does not suit the node.  Patient peers start a frame    *)
(* when the node has dealt with the last one and leave the PHY handler the *)
(* time to reopen the receiver between two packets, and their packets are  *)
(* not lost twice in a row; eager peers keep to none of this.              *)
(***************************************************************************)
EXTENDS Integers, Sequences, FiniteSets

CONSTANTS
  Slots,         \* EMN_PHY_RXBUF_COUNT (10 in the firmware)
  QMax,          \* SYS_LOW_MESSAGE_MAX_NUM (10 in the firmware)
  MaxLen,        \* packets of a logical frame
  MaxMsg,        \* bound: logical frames the peers send
  MaxRequests,   \* bound: frames this node sends on its own account
  Peers          \* the kinds of peers the node may have

ASSUME SlotsAssumption == Slots \in Nat \ {0}
ASSUME MaxLenAssumption == MaxLen \in 1 .. 8 /\ MaxLen <= Slots
ASSUME BoundsAssumption ==
  QMax \in Nat /\ MaxMsg \in Nat /\ MaxRequests \in Nat
ASSUME PeersAssumption == Peers \subseteq {"patient", "eager"}

VARIABLES
  slots,       \* EMN_PHY_RxBuf.data
  head,        \* EMN_PHY_RxBuf.head
  tail,        \* EMN_PHY_RxBuf.tail
  count,       \* EMN_PHY_RxBuf.count
  frmNum,      \* PHY_PhyFrmNum: packets of the logical frame in the making
  comBuf,      \* MAC_ComBuf or NWK_TxBuf: the frame copied for the NWK layer
  dr,          \* the data-ready pin of the radio
  payload,     \* the packet in the radio
  rxReady,     \* RF_RxReady
  getDataEnd,  \* RF_PhyGetDataEnd
  queue,       \* the message list
  pc,          \* where the RF task is in its loop
  err,         \* argument of SYS_Error, 0 if none
  peers,       \* the kind of peers, fixed for a behaviour
  cur, nxt, len,   \* the peers are to send packet nxt of frame cur, len long
  lossRun,     \* packets lost since one was received
  requests,    \* frames this node has sent on its own account
  lost,        \* history: frames of which a packet was lost
  delivered    \* history: frames the MAC layer read whole

ringVars  == <<slots, head, tail, count, frmNum>>
macVars   == <<comBuf>>
radioVars == <<dr, payload, rxReady, getDataEnd>>
osVars    == <<queue, pc, err>>
sentVars  == <<cur, nxt, len, lossRun>>
peerVars  == <<sentVars, peers>>
history   == <<lost, delivered>>
vars == <<ringVars, macVars, radioVars, osVars, peerVars, requests, history>>

-----------------------------------------------------------------------------
(* The header of a packet has its index in the logical frame, mac_h.index,  *)
(* and the mark of the last one, mac_h.last; msg is the frame it is from.   *)
Packet == [msg : 0 .. MaxMsg, idx : 0 .. MaxLen - 1, last : BOOLEAN]

Blank == [msg |-> 0, idx |-> 0, last |-> FALSE]   \* memory at start-up

(* EMN_RF_RX_READY, EMN_PHY_RX_IND, EMN_PHY_RX_RES, EMN_PHY_TX_REQ,         *)
(* EMN_MAC_DATA_IND, and the messages that change nothing here.  from is    *)
(* the first packet of the frame an EMN_MAC_DATA_IND was posted for; the    *)
(* message itself only names the buffer.                                    *)
Message == [kind : {"rx", "ind", "res", "tx", "data", "other"},
            hd : 0 .. Slots - 1, num : 0 .. MaxLen, from : Packet]

Msg(k) == [kind |-> k, hd |-> 0, num |-> 0, from |-> Blank]

Fail(code) == err' = code /\ pc' = "error" /\ UNCHANGED queue

(* The handler of the message at the head ends after posting msgs: the slot *)
(* of that message is still taken while they are posted.                    *)
Return(msgs) ==
  IF Len(queue) + Len(msgs) > QMax
    THEN Fail(16)
    ELSE queue' = Tail(queue) \o msgs /\ pc' = "rx" /\ UNCHANGED err

Wrap(i) == IF i >= Slots THEN i - Slots ELSE i

Serving(k) == pc = "serve" /\ queue # <<>> /\ Head(queue).kind = k

(* Nothing is received, waiting to be read or waiting to be served. *)
Quiet == pc = "serve" /\ queue = <<>> /\ ~rxReady /\ getDataEnd /\ ~dr

Init ==
  /\ slots = [i \in 0 .. Slots - 1 |-> Blank]
  /\ head = 0 /\ tail = 0 /\ count = 0 /\ frmNum = 0 /\ comBuf = Blank
  /\ dr = FALSE /\ payload = Blank /\ rxReady = FALSE /\ getDataEnd = TRUE
  /\ queue = <<>> /\ pc = "serve" /\ err = 0
  /\ peers \in Peers
  /\ cur = 1 /\ nxt = 0 /\ len \in 1 .. MaxLen /\ lossRun = 0
  /\ requests = 0
  /\ lost = {} /\ delivered = {}

-----------------------------------------------------------------------------
(* The peers. *)

Sent == [msg |-> cur, idx |-> nxt, last |-> nxt + 1 = len]

MaySend ==
  cur <= MaxMsg /\ pc # "error" /\ (peers = "patient" /\ nxt = 0 => Quiet)

MaxLossRun == IF peers = "patient" THEN 1 ELSE 2

Advance ==
  IF nxt + 1 < len
    THEN nxt' = nxt + 1 /\ UNCHANGED <<cur, len>>
    ELSE nxt' = 0 /\ cur' = cur + 1 /\ len' \in 1 .. MaxLen

(* A packet is received: the pin rises and rf_dr_int_hdl runs. *)
Arrive ==
  /\ MaySend /\ ~dr
  /\ pc = "reopen" => peers = "eager"
  /\ dr' = TRUE /\ payload' = Sent
  /\ rxReady' = (rxReady \/ getDataEnd)
  /\ lossRun' = 0
  /\ Advance
  /\ UNCHANGED <<ringVars, macVars, getDataEnd, osVars, peers, requests, history>>

(* A packet is lost on the air or while the radio holds another. *)
Lose ==
  /\ MaySend /\ lossRun < MaxLossRun
  /\ lossRun' = lossRun + 1
  /\ lost' = lost \cup {cur}
  /\ Advance
  /\ UNCHANGED <<ringVars, macVars, radioVars, osVars, peers, requests, delivered>>

-----------------------------------------------------------------------------
(* The main loop. *)

(* if (RF_RxReady == 1): EMN_RF_RX_READY is posted and the interrupt locked *)
(* out; when the list is empty the flag alone brings the task here.         *)
RxCheck ==
  /\ pc = "rx" \/ (pc = "serve" /\ queue = <<>> /\ rxReady)
  /\ IF ~rxReady
       THEN pc' = "serve" /\ UNCHANGED <<queue, err, rxReady, getDataEnd>>
       ELSE /\ getDataEnd' = FALSE
            /\ IF Len(queue) >= QMax
                 THEN Fail(16) /\ UNCHANGED rxReady
                 ELSE /\ queue' = Append(queue, Msg("rx"))
                      /\ rxReady' = FALSE
                      /\ pc' = "serve" /\ UNCHANGED err
  /\ UNCHANGED <<ringVars, macVars, dr, payload, peerVars, requests, history>>

(* A frame of the NWK layer, or one sent again, reaches the PHY layer. *)
Request ==
  /\ pc = "serve" /\ requests < MaxRequests /\ Len(queue) < QMax
  /\ peers = "patient" => Quiet /\ nxt = 0
  /\ requests' = requests + 1
  /\ queue' = Append(queue, Msg("tx"))
  /\ UNCHANGED <<ringVars, macVars, radioVars, pc, err, peerVars, history>>

-----------------------------------------------------------------------------
(* EMN_PHY_Task on EMN_RF_RX_READY, up to SET_RX_MODE in EMN_PHY_RxPacket:  *)
(* the packet goes to the slot at the tail if the pin is high; if not, the  *)
(* slot keeps what it had.                                                  *)
RxPacket ==
  /\ Serving("rx")
  /\ slots' = IF dr THEN [slots EXCEPT ![tail] = payload] ELSE slots
  /\ dr' = FALSE
  /\ pc' = "reopen"
  /\ UNCHANGED <<head, tail, count, frmNum, macVars, payload, rxReady, getDataEnd,
                 queue, err, peerVars, requests, history>>

(* Slips: the packets dropped stay in the ring; the next one is still       *)
(* expected to go on with the frame dropped.                                *)
DiscardKeepsTail ==
  /\ count' = count - frmNum /\ frmNum' = 0 /\ UNCHANGED tail
  /\ Return(<<>>)

DiscardKeepsNumber ==
  /\ IF count >= frmNum
       THEN /\ count' = count - frmNum
            /\ tail' = IF tail >= frmNum THEN tail - frmNum ELSE Slots - (frmNum - tail)
       ELSE UNCHANGED <<count, tail>>
  /\ UNCHANGED frmNum
  /\ Return(<<>>)

(* A packet out of sequence: it is dropped, and with it the packets of its  *)
(* logical frame collected so far.                                          *)
Discard ==
  /\ IF count >= frmNum
       THEN /\ count' = count - frmNum
            /\ tail' = IF tail >= frmNum THEN tail - frmNum ELSE Slots - (frmNum - tail)
            /\ frmNum' = 0
       ELSE UNCHANGED <<count, tail, frmNum>>
  /\ Return(<<>>)

(* A slip: the indication overtakes the messages that wait. *)
CollectUrgent(hd) ==
  /\ tail' = Wrap(tail + 1)
  /\ count' = count + 1
  /\ frmNum' = IF hd.last THEN 0 ELSE frmNum + 1
  /\ queue' = IF hd.last
                THEN << [Msg("ind") EXCEPT !.hd = head, !.num = frmNum + 1] >> \o Tail(queue)
                ELSE Tail(queue)
  /\ pc' = "rx" /\ UNCHANGED err

(* The next packet of the logical frame; the last one makes an indication,  *)
(* which carries the head of the ring at this moment.                       *)
Collect(hd) ==
  /\ tail' = Wrap(tail + 1)
  /\ count' = count + 1
  /\ frmNum' = IF hd.last THEN 0 ELSE frmNum + 1
  /\ IF count + 1 > Slots \/ frmNum + 1 > 8
       THEN Fail(6)
       ELSE Return(IF hd.last
                     THEN << [Msg("ind") EXCEPT !.hd = head, !.num = frmNum + 1] >>
                     ELSE <<>>)

(* Slips: the sequence is not looked at; the interrupt stays locked out. *)
RxReadyUnchecked ==
  /\ pc = "reopen"
  /\ getDataEnd' = TRUE
  /\ Collect(slots[tail])
  /\ UNCHANGED <<slots, head, macVars, dr, payload, rxReady, peerVars, requests, history>>

RxReadyLocked ==
  /\ pc = "reopen"
  /\ IF frmNum # slots[tail].idx THEN Discard ELSE Collect(slots[tail])
  /\ UNCHANGED <<slots, head, macVars, dr, payload, rxReady, getDataEnd, peerVars, requests,
                 history>>

RxReadyHandled ==
  /\ pc = "reopen"
  /\ getDataEnd' = TRUE
  /\ IF frmNum # slots[tail].idx THEN Discard ELSE Collect(slots[tail])
  /\ UNCHANGED <<slots, head, macVars, dr, payload, rxReady, peerVars, requests, history>>

(* EMN_PHY_TX_REQ: what becomes of a packet in the radio that nobody has    *)
(* read is up to the radio.                                                 *)
TxPacket ==
  /\ Serving("tx")
  /\ dr' \in {dr, FALSE}
  /\ lost' = IF dr /\ ~dr' THEN lost \cup {payload.msg} ELSE lost
  /\ Return(<<Msg("other")>>)
  /\ UNCHANGED <<ringVars, macVars, payload, rxReady, getDataEnd, peerVars, requests, delivered>>

(* The packets an indication stands for, as the MAC layer reads them. *)
Content(m) == [k \in 1 .. m.num |-> slots[Wrap(m.hd + k - 1)]]

Whole(c) ==
  /\ c # <<>>
  /\ \A k \in 1 .. Len(c) :
       c[k] = [msg |-> c[1].msg, idx |-> k - 1, last |-> k = Len(c)]

(* EMN_MAC_Task on EMN_PHY_RX_IND: a data frame for this node is            *)
(* acknowledged twice, copied and announced to the NWK layer, any other     *)
(* frame is not; either is released.                                        *)
Release(m) == [Msg("res") EXCEPT !.hd = m.hd, !.num = m.num]
DataInd(m) == [Msg("data") EXCEPT !.from = slots[m.hd]]

PhyDataInd ==
  /\ Serving("ind")
  /\ LET m == Head(queue) IN
       /\ \/ /\ comBuf' = slots[m.hd]
             /\ Return(<<Msg("tx"), Msg("tx"), DataInd(m), Release(m)>>)
          \/ /\ UNCHANGED comBuf
             /\ Return(<<Release(m)>>)
       /\ delivered' = IF Whole(Content(m)) THEN delivered \cup {slots[m.hd].msg} ELSE delivered
  /\ UNCHANGED <<ringVars, radioVars, peerVars, requests, lost>>

(* EMN_PHY_Task on EMN_PHY_RX_RES. *)
RxRes ==
  /\ Serving("res")
  /\ LET m == Head(queue) IN
       IF m.hd # head \/ count < m.num
         THEN Fail(5) /\ UNCHANGED <<head, count>>
         ELSE IF m.num = 0
           THEN Fail(6) /\ UNCHANGED <<head, count>>
           ELSE head' = Wrap(head + m.num) /\ count' = count - m.num /\ Return(<<>>)
  /\ UNCHANGED <<slots, tail, frmNum, macVars, radioVars, peerVars, requests, history>>

(* EMN_MAC_DATA_IND, whose buffer the NWK layer now reads, and the others.  *)
OtherHandled ==
  /\ Serving("data") \/ Serving("other")
  /\ Return(<<>>)
  /\ UNCHANGED <<ringVars, macVars, radioVars, peerVars, requests, history>>

RfStep ==
  RxCheck \/ RxPacket \/ RxReadyHandled \/ TxPacket \/ PhyDataInd \/ RxRes \/ OtherHandled

Next == RfStep \/ Arrive \/ Lose \/ Request

Spec == Init /\ [][Next]_vars

(* The RF task runs whenever there is something to serve. *)
FairSpec == Spec /\ WF_vars(RfStep)

-----------------------------------------------------------------------------
(* Type invariant. *)
TypeOK ==
  /\ slots \in [0 .. Slots - 1 -> Packet]
  /\ head \in 0 .. Slots - 1 /\ tail \in 0 .. Slots - 1
  /\ count \in 0 .. Slots + 1 /\ frmNum \in 0 .. MaxLen /\ comBuf \in Packet
  /\ dr \in BOOLEAN /\ payload \in Packet
  /\ rxReady \in BOOLEAN /\ getDataEnd \in BOOLEAN
  /\ queue \in Seq(Message) /\ Len(queue) <= QMax
  /\ pc \in {"serve", "reopen", "rx", "error"} /\ err \in {0, 5, 6, 16}
  /\ cur \in 1 .. MaxMsg + 1 /\ nxt \in 0 .. MaxLen - 1 /\ len \in 1 .. MaxLen
  /\ peers \in Peers /\ lossRun \in 0 .. 2 /\ requests \in 0 .. MaxRequests
  /\ lost \subseteq 0 .. MaxMsg /\ delivered \subseteq 0 .. MaxMsg

(* The slots counted are those of the logical frame in the making and those *)
(* of the frames indicated and not yet released, and they lie between head  *)
(* and tail: no slot leaks and none is released twice, whatever is lost and *)
(* whatever order the messages come in.  With peers that wait for an answer *)
(* every release names the head of the ring and a frame or ring never grows *)
(* beyond its size: the assertions hold (network_phy.c:479-501, 519-588,    *)
(* network_dlc.c:1134-1149).                                                *)
Pending(m) == IF m.kind \in {"ind", "res"} THEN m.num ELSE 0
Held(q) == {x \in (1 .. Len(q)) \X (1 .. MaxLen) : x[2] <= Pending(q[x[1]])}

RingAccount ==
  /\ TypeOK
  /\ err = 0 => count = frmNum + Cardinality(Held(queue)) /\ tail = Wrap(head + count)
  /\ peers = "patient" => err \notin {5, 6}

(* The buffer in which the MAC layer hands a frame to the NWK layer is not  *)
(* written again before the NWK layer reads it, although nothing guards it: *)
(* the next indication is always behind the message of the last frame       *)
(* (network_dlc.c:942-955, network_nwk.c:973-985).                          *)
HandedOver ==
  \A i \in 1 .. Len(queue) : queue[i].kind = "data" => comBuf = queue[i].from

(* What the MAC layer is told is one logical frame is one: all the packets  *)
(* of one frame, in order, as long as no two packets are lost in a row and  *)
(* no frame is complete before the last one is released                     *)
(* (network_phy.c:516-534, 577-579).                                        *)
WholeFrames ==
  peers = "patient" => \A i \in 1 .. Len(queue) : queue[i].kind = "ind" => Whole(Content(queue[i]))

(* A lost packet costs its own frame and the one after it, at whose first   *)
(* packet the gap is noticed; every other frame of patient peers reaches    *)
(* the MAC layer (network_phy.c:519-534).                                   *)
LossContained ==
  peers = "patient" /\ Quiet /\ nxt = 0 =>
    \A m \in 1 .. cur - 1 : m \in delivered \/ m \in lost \/ m - 1 \in lost

(* Every packet of patient peers is read out of the radio: the pin does not *)
(* stay high with nobody told (dicor_spi_dri.c:412-418, network_phy.c:514). *)
PacketRead == dr /\ peers = "patient" ~> (~dr \/ pc = "error")
=============================================================================
