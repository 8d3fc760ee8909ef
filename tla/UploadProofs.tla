---------------------------- MODULE UploadProofs ----------------------------
(* Theorems of module Upload: what becomes of every sample, which records    *)
(* are not whole, and in which order samples reach the server.               *)
(*                                                                           *)
(* The inductive invariant has four layers.  Places: one task at a time      *)
(* writes a record, and a resend is of the head of the card.  Fate: what is  *)
(* lost when the buffer is freed, overwritten or resent has been counted.    *)
(* Order: the buffer holds the newest sample, the card is sorted, and        *)
(* nothing on it is older than what has left the gateway.  Wire: neither is  *)
(* what waits in the transmit buffer older than what the server has.         *)
EXTENDS Upload, SequenceTheorems, TLAPS

Half == {"fill2", "ready", "index"}          \* half way through a record
Filling == {"fill1"} \cup Half

(* One task is filling the buffer, with a sample that is set aside for it.   *)
Places ==
  /\ \A t, u \in Tasks : third[t] \in Filling /\ third[u] \in Filling => t = u
  /\ \A t \in Tasks : third[t] = "fill1" => taken < MaxSamples
  /\ \A t \in Tasks : third[t] \in Half => sample[t] \notin done /\ sample[t] \in 1 .. taken
  /\ \A s \in done : s \in 1 .. taken
  /\ up \in {"resending", "resent"} => card # <<>> /\ xfer = Head(card)

(* A completed sample is in the buffer's second half or safe: out of it, in   *)
(* a place where it is accounted for.                                        *)
Good(r) == Whole(r) /\ r.h1 # None
Out == delivered \cup ToSet(conn.tx)
Safe(s) == \/ s \in Out \cup conn.dropped \cup lost
           \/ \E i \in DOMAIN card : Whole(card[i]) /\ card[i].h1 = s
Fate ==
  /\ \A s \in done : Safe(s) \/ (upload_buffer.state = "CAN_READ" /\ upload_buffer.h2 = s)
  /\ up \in {"sent", "resent"} /\ Good(xfer) => xfer.h1 \in Out \cup conn.dropped
  /\ \A t \in Tasks : third[t] \in {"ready", "index"} /\ upload_buffer.h1 = sample[t]
                        => upload_buffer.h2 = sample[t]

(* While nobody is half way through a record the buffer holds one sample.    *)
Clean == spoiled = {} /\ \A t \in Tasks : third[t] \notin Half
OneSample ==
  /\ Clean => upload_buffer.h1 = upload_buffer.h2
  /\ Clean /\ upload_buffer.state = "CAN_READ" => upload_buffer.write_index = 1
  /\ \A t \in Tasks : third[t] = "fill2" /\ spoiled = {} => upload_buffer.h1 = sample[t]
  /\ \A t \in Tasks : third[t] \in {"ready", "index"} /\ spoiled = {}
                        => upload_buffer.h1 = upload_buffer.h2
  /\ Transferring /\ xfer.races = {}
       => xfer.type = "data" /\ xfer.len = 1 /\ xfer.h1 = upload_buffer.h2

(* What has left the gateway and what the card holds, in the order it was     *)
(* taken.  Nothing is known of a first half that the version message wrote    *)
(* over.                                                                     *)
Upto(D, c, n) ==
  /\ \A d \in D : d <= n
  /\ \A i \in DOMAIN c : Good(c[i]) => c[i].h1 <= n
Order ==
  /\ upload_buffer.h1 <= taken /\ Upto(Out, card, taken)
  /\ upload_buffer.h1 # None => Upto(Out, card, upload_buffer.h1)
  /\ Transferring /\ xfer.h1 # None
       => /\ Upto(Out, card, xfer.h1) /\ xfer.h1 <= taken
          /\ upload_buffer.h1 # None => xfer.h1 <= upload_buffer.h1
  /\ \A i, j \in DOMAIN card :
       i <= j /\ Good(card[i]) /\ Good(card[j]) => card[i].h1 <= card[j].h1
  /\ \A d \in Out : \A i \in DOMAIN card : Good(card[i]) => d <= card[i].h1
  /\ card # <<>> => Fileexist
  /\ (up = "sending" => ~Fileexist) /\ (up = "storing" => Fileexist)

(* The transmit buffer is in that order too, behind what has arrived.         *)
Wire ==
  /\ \A i, j \in DOMAIN conn.tx : i <= j /\ conn.tx[j] # None => conn.tx[i] <= conn.tx[j]
  /\ \A d \in delivered : \A i \in DOMAIN conn.tx : conn.tx[i] # None => d <= conn.tx[i]

IInv == TypeOK /\ Places /\ Fate /\ OneSample /\ Order /\ Wire

-----------------------------------------------------------------------------
(***************************************************************************)
(* Types.                                                                  *)
(***************************************************************************)
Places3 == Busy \cup {"none", "start", "poll", "ask", "wait", "meter"}

(* The connection: a step closes it, opens it or leaves it alone.            *)
ConnOK ==
  /\ conn \in [st : {"none", "open", "broken"}, tx : Seq(Samples), dropped : SUBSET Samples]
  /\ Len(conn.tx) <= TX_RECORDS /\ (~Open => conn.tx = <<>>)
States == {"INIT", "CABLE", "CABLE_IP", "CON"}

LEMMA InitTypes == Init => TypeOK
<1> SUFFICES ASSUME Init
             PROVE  TypeOK
  OBVIOUS
<1>1. upload_buffer \in [state : {"CAN_WRITE", "CAN_READ"}, write_index : {0, 1},
                         type : {"data", "version"}, h1 : Samples, h2 : Samples]
  BY UploadAssumption DEF Init, NoRecord, None, Samples
<1>2. Stored(None) \in Records
  BY UploadAssumption DEF Stored, None, Records, Samples
<1>3. card \in Seq(Records) /\ nodes \in Seq({"gateway", "meter"})
  BY DEF Init
<1>4. third \in [Tasks -> Busy \cup {"none", "start", "poll", "ask", "wait", "meter"}]
  BY DEF Init, OneTask
<1>5. sample \in [Tasks -> Samples] /\ taken \in Samples
  BY UploadAssumption DEF Init, None, Samples
<1>6. served \in 0 .. MaxCommands /\ faults \in 0 .. MaxFaults
  BY UploadAssumption DEF Init
<1>7. ConnOK /\ eth_st \in States
  <2>1. <<>> \in Seq(Samples) /\ Len(<<>>) = 0 /\ 0 <= TX_RECORDS
    BY UploadAssumption
  <2>2. eth_st \in States /\ \E st \in {"none", "open"} : conn = Fresh(st)
    BY DEF Init, States
  <2>3. PICK st \in {"none", "open", "broken"} : conn = Fresh(st)
    BY <2>2
  <2>4. conn.tx = <<>>
    BY <2>3 DEF Fresh
  <2>5. conn \in [st : {"none", "open", "broken"}, tx : Seq(Samples), dropped : SUBSET Samples]
    BY <2>1, <2>3 DEF Fresh
  <2> QED
    BY <2>1, <2>2, <2>4, <2>5 DEF ConnOK
<1>8. spoiled = {} /\ delivered = {} /\ lost = {} /\ done = {} /\ up = "top" /\ script = <<>>
  BY DEF Init
<1>9. START \in BOOLEAN /\ link \in BOOLEAN /\ {idle, FirstPackage, Fileexist} \subseteq BOOLEAN
      /\ connect = "idle" /\ xfer = Stored(None)
  BY DEF Init
<1> QED
  BY <1>1, <1>2, <1>3, <1>4, <1>5, <1>6, <1>7, <1>8, <1>9 DEF TypeOK, ConnOK, States

LEMMA TxTypes ==
  ASSUME TypeOK
  PROVE  /\ ToSet(conn.tx) \subseteq Samples /\ conn.dropped \subseteq Samples
         /\ \A i \in DOMAIN conn.tx : conn.tx[i] \in Samples
         /\ Len(conn.tx) \in Nat /\ DOMAIN conn.tx = 1 .. Len(conn.tx)
<1> DEFINE S == Samples  tx == conn.tx
<1>1. tx \in Seq(S) /\ conn.dropped \subseteq S
  BY DEF TypeOK
<1> HIDE DEF S, tx
<1>2. Len(tx) \in Nat /\ DOMAIN tx = 1 .. Len(tx) /\ \A i \in DOMAIN tx : tx[i] \in S
  BY <1>1
<1>3. ToSet(tx) \subseteq S
  BY <1>2 DEF ToSet
<1> QED
  BY <1>1, <1>2, <1>3 DEF S, tx

LEMMA ConnTypes ==
  ASSUME TypeOK,
         \/ conn' = conn
         \/ \E st \in {"none", "broken"} : conn' = Closed(st)
         \/ conn' = [conn EXCEPT !.st = "open"]
  PROVE  ConnOK'
<1>1. CASE conn' = conn
  BY <1>1 DEF ConnOK, TypeOK, Open
<1>2. CASE \E st \in {"none", "broken"} : conn' = Closed(st)
  <2>1. <<>> \in Seq(Samples) /\ Len(<<>>) = 0
    OBVIOUS
  <2>2. 0 <= TX_RECORDS
    BY UploadAssumption
  <2>3. /\ conn'.tx = <<>> /\ conn'.st \in {"none", "broken"}
        /\ conn' \in [st : {"none", "open", "broken"}, tx : Seq(Samples),
                      dropped : SUBSET Samples]
    BY <1>2, <2>1, TxTypes DEF Closed
  <2> QED
    BY <2>1, <2>2, <2>3 DEF ConnOK
<1>3. CASE conn' = [conn EXCEPT !.st = "open"]
  BY <1>3 DEF ConnOK, TypeOK, Open
<1> QED
  BY <1>1, <1>2, <1>3

LEMMA AbortTypes ==
  ASSUME TypeOK, Abort
  PROVE  eth_st' \in States /\ ConnOK'
BY ConnTypes DEF Abort, States

LEMMA CheckLinkTypes ==
  ASSUME TypeOK, CheckLink
  PROVE  eth_st' \in States /\ ConnOK'
BY AbortTypes, ConnTypes DEF TypeOK, CheckLink, States

LEMMA ArriveTypes ==
  ASSUME TypeOK, Arrive
  PROVE  ConnOK' /\ delivered' \subseteq Samples
<1> DEFINE S == Samples  tx == conn.tx
<1>1. tx \in Seq(S) /\ tx # <<>> /\ Len(tx) <= TX_RECORDS /\ Open
  BY DEF TypeOK, Arrive
<1>2. TX_RECORDS \in Nat
  BY UploadAssumption
<1> HIDE DEF S, tx
<1>3. Tail(tx) \in Seq(S) /\ Head(tx) \in S /\ Len(Tail(tx)) <= TX_RECORDS
  <2>1. Tail(tx) \in Seq(S) /\ Head(tx) \in S /\ Len(Tail(tx)) = Len(tx) - 1 /\ Len(tx) \in Nat
    BY <1>1
  <2> QED
    BY <1>1, <1>2, <2>1
<1>4. conn' = [conn EXCEPT !.tx = Tail(tx)] /\ delivered' = delivered \cup ({Head(tx)} \ {None})
  BY DEF Arrive, tx
<1> QED
  BY <1>1, <1>3, <1>4 DEF ConnOK, TypeOK, Open, S

LEMMA NetworkTypes ==
  ASSUME TypeOK, Network
  PROVE  TypeOK'
<1>1. faults' \in 0 .. MaxFaults
  BY UploadAssumption DEF TypeOK, Network, Plug, Break, TcpGivesUp, Arrive, Fault
<1>2. link' \in BOOLEAN /\ eth_st' = eth_st
  BY DEF TypeOK, Network, Plug, Break, TcpGivesUp, Arrive
<1>3. ConnOK' /\ delivered' \subseteq Samples
  <2>1. CASE Plug \/ Break \/ TcpGivesUp
    <3>1. delivered' = delivered
      BY <2>1 DEF Plug, Break, TcpGivesUp, fateVars
    <3>2. conn' = conn \/ conn' = Closed("broken")
      BY <2>1 DEF Plug, Break, TcpGivesUp
    <3> QED
      BY <3>1, <3>2, ConnTypes DEF TypeOK
  <2> QED
    BY <2>1, ArriveTypes DEF Network
<1>4. UNCHANGED <<bufVars, cardVars, thirdVars, upVars, lost, spoiled, connect, FirstPackage>>
  BY DEF Network, Plug, Break, TcpGivesUp, Arrive, fateVars
<1> QED
  BY <1>1, <1>2, <1>3, <1>4 DEF TypeOK, ConnOK, bufVars, cardVars, thirdVars, upVars

LEMMA VersionTypes ==
  ASSUME TypeOK, SendVersion
  PROVE  TypeOK'
<1>1. connect' = "sent"
      /\ UNCHANGED <<netVars, idle, cardVars, thirdVars, up, script, served, delivered,
                     FirstPackage>>
  BY DEF SendVersion
<1>2. upload_buffer' \in [state : {"CAN_WRITE", "CAN_READ"}, write_index : {0, 1},
                          type : {"data", "version"}, h1 : Samples, h2 : Samples]
  <2>1. upload_buffer' = upload_buffer \/ upload_buffer' = WriteOver(upload_buffer)
    BY DEF SendVersion
  <2>2. None \in Samples
    BY UploadAssumption DEF None, Samples
  <2> QED
    BY <2>1, <2>2 DEF TypeOK, WriteOver
<1>3. xfer' \in Records /\ (~Transferring => xfer' = xfer)
  <2>1. xfer' = xfer \/ (Transferring
                         /\ xfer' = [WriteOver(xfer) EXCEPT !.races = @ \cup {"version"}])
    BY DEF SendVersion
  <2>2. None \in Samples /\ xfer \in Records
    BY UploadAssumption DEF None, Samples, TypeOK
  <2>3. [WriteOver(xfer) EXCEPT !.races = @ \cup {"version"}] \in Records
    BY <2>2 DEF Records, WriteOver
  <2> QED
    BY <2>1, <2>2, <2>3
<1>4. lost' \subseteq Samples /\ spoiled' \subseteq {"torn", "version"}
  BY DEF SendVersion, TypeOK, Wiped
<1>5. up \notin {"sending", "sent", "storing", "resending", "resent"} => xfer' = Stored(None)
  BY <1>3 DEF TypeOK, Transferring
<1> QED
  BY <1>1, <1>2, <1>3, <1>4, <1>5 DEF TypeOK, netVars, cardVars, thirdVars, Open

LEMMA ConnectTypes ==
  ASSUME TypeOK, ConnectTask
  PROVE  TypeOK'
<1>1. CASE SendVersion
  BY <1>1, VersionTypes
<1>2. CASE VersionSent
  <2>1. upload_buffer' \in [state : {"CAN_WRITE", "CAN_READ"}, write_index : {0, 1},
                            type : {"data", "version"}, h1 : Samples, h2 : Samples]
    BY <1>2 DEF TypeOK, VersionSent
  <2> QED
    BY <1>2, <2>1 DEF VersionSent, TypeOK, netVars, cardVars, thirdVars, upVars, fateVars, Open
<1>3. CASE CheckConnect \/ Connected(TRUE) \/ Connected(FALSE)
  <2>1. faults' \in 0 .. MaxFaults
    BY <1>3, UploadAssumption DEF TypeOK, CheckConnect, Connected, Fault
  <2>2. /\ eth_st' \in States /\ connect' \in {"idle", "connect", "version", "sent"}
        /\ link' = link
    BY <1>3 DEF TypeOK, CheckConnect, Connected, Abort, States
  <2>3. ConnOK'
    <3>1. \/ conn' = conn \/ conn' = Closed("none") \/ conn' = [conn EXCEPT !.st = "open"]
      BY <1>3 DEF CheckConnect, Connected, Abort
    <3> QED
      BY <3>1, ConnTypes
  <2>4. UNCHANGED <<bufVars, cardVars, thirdVars, upVars, fateVars, FirstPackage>>
    BY <1>3 DEF CheckConnect, Connected
  <2> QED
    BY <2>1, <2>2, <2>3, <2>4 DEF TypeOK, ConnOK, States, bufVars, cardVars, thirdVars, upVars,
       fateVars
<1> QED
  BY <1>1, <1>2, <1>3 DEF ConnectTask

LEMMA WrittenTypes ==
  ASSUME TypeOK
  PROVE  /\ Written \in Records
         /\ ~Transferring => Written = xfer
BY DEF TypeOK, Written, Transferring, Records

LEMMA RebootTypes ==
  ASSUME TypeOK, Reboot, faults' \in 0 .. MaxFaults
  PROVE  TypeOK'
<1>1. upload_buffer' \in [state : {"CAN_WRITE", "CAN_READ"}, write_index : {0, 1},
                         type : {"data", "version"}, h1 : Samples, h2 : Samples]
  BY UploadAssumption DEF Reboot, NoRecord, None, Samples
<1>2. Stored(None) \in Records
  BY UploadAssumption DEF Stored, None, Records, Samples
<1>3. nodes' \in Seq({"gateway", "meter"})
  BY DEF Reboot
<1>4. third' \in [Tasks -> Busy \cup {"none", "start", "poll", "ask", "wait", "meter"}]
  BY DEF Reboot, OneTask
<1>5. sample' \in [Tasks -> Samples]
  BY UploadAssumption DEF Reboot, None, Samples
<1>6. lost' \subseteq Samples
  BY DEF TypeOK, Reboot, Wiped
<1>7. eth_st' \in States /\ ConnOK'
  BY AbortTypes DEF Reboot
<1> QED
  BY <1>1, <1>2, <1>3, <1>4, <1>5, <1>6, <1>7 DEF Reboot, TypeOK, ConnOK, States, cardVars

LEMMA ThirdTypes ==
  ASSUME TypeOK, Places, NEW t \in Tasks, ThirdTask(t)
  PROVE  TypeOK'
<1>1. CASE Start(t)
  <2>1. nodes' \in Seq({"gateway", "meter"})
    <3> DEFINE D == {"gateway", "meter"}
    <3>1. nodes \in Seq(D) /\ Devices \in Seq(D) /\ nodes' = nodes \o Devices
      BY <1>1, UploadAssumption DEF Start, TypeOK
    <3> HIDE DEF D
    <3>2. nodes' \in Seq(D)
      BY <3>1
    <3> QED
      BY <3>2 DEF D
  <2>2. third' \in [Tasks -> Busy \cup {"none", "start", "poll", "ask", "wait", "meter"}]
    BY <1>1 DEF Start, TypeOK
  <2> QED
    BY <1>1, <2>1, <2>2 DEF Start, TypeOK, netVars, bufVars, cardVars, upVars, fateVars, Open
<1>2. CASE Due(t) \/ Waits(t) \/ Answer(t)
  <2>1. third' \in [Tasks -> Busy \cup {"none", "start", "poll", "ask", "wait", "meter"}]
    BY <1>2 DEF Due, Waits, Answer, TypeOK, Busy
  <2>2. UNCHANGED <<netVars, bufVars, cardVars, sample, nodes, taken, done, upVars, fateVars,
                    connect, FirstPackage>>
    BY <1>2 DEF Due, Waits, Answer
  <2>3. START' \in BOOLEAN
    BY <1>2 DEF Due, Waits, Answer, TypeOK
  <2> QED
    BY <2>1, <2>2, <2>3 DEF TypeOK, netVars, bufVars, cardVars, upVars, fateVars, Open
<1>3. CASE Fill(t)
  <2>1. third' \in [Tasks -> Busy \cup {"none", "start", "poll", "ask", "wait", "meter"}]
    <3>1. After(third[t]) \in Busy \cup {"none", "start", "poll", "ask", "wait", "meter"}
      BY DEF After, Busy
    <3> QED
      BY <1>3, <3>1 DEF Fill, TypeOK
  <2>2. taken' \in Samples /\ sample' \in [Tasks -> Samples]
    BY <1>3, UploadAssumption, SMTT(30) DEF Fill, TypeOK, Samples, Busy, Places
  <2>3. upload_buffer' \in [state : {"CAN_WRITE", "CAN_READ"}, write_index : {0, 1},
                            type : {"data", "version"}, h1 : Samples, h2 : Samples]
    <3>1. sample[t] \in Samples /\ (third[t] = "fill1" => taken + 1 \in Samples)
      BY UploadAssumption, SMTT(30) DEF TypeOK, Samples, Places
    <3>2. \/ upload_buffer' = upload_buffer
          \/ upload_buffer' = [upload_buffer EXCEPT !.h1 = taken + 1] /\ third[t] = "fill1"
          \/ upload_buffer' = [upload_buffer EXCEPT !.h2 = sample[t]]
          \/ upload_buffer' = [upload_buffer EXCEPT !.state = "CAN_READ"]
          \/ upload_buffer' = [upload_buffer EXCEPT !.write_index = 1]
      BY <1>3 DEF Fill, Busy, bufVars
    <3> QED
      BY <3>1, <3>2 DEF TypeOK
  <2>4. done' \subseteq Samples /\ lost' \subseteq Samples
    BY <1>3 DEF Fill, TypeOK, Busy, Wiped
  <2>5. xfer' \in Records /\ (~Transferring => xfer' = xfer)
    BY <1>3, WrittenTypes DEF Fill, TypeOK, Busy
  <2>6. idle' \in BOOLEAN /\ spoiled' \subseteq {"torn", "version"}
    BY <1>3 DEF Fill, TypeOK, Busy, bufVars
  <2>7. eth_st' \in States /\ ConnOK'
    <3>1. CASE CheckLink
      BY <3>1, CheckLinkTypes
    <3>2. CASE UNCHANGED <<conn, eth_st>>
      BY <3>2, ConnTypes DEF TypeOK, States
    <3> QED
      BY <1>3, <3>1, <3>2 DEF Fill, Busy
  <2>8. up' = up /\ script' = script
        /\ (up \notin {"sending", "sent", "storing", "resending", "resent"} => xfer' = Stored(None))
    BY <1>3, <2>5 DEF Fill, TypeOK, Transferring
  <2> QED
    BY <1>3, <2>1, <2>2, <2>3, <2>4, <2>5, <2>6, <2>7, <2>8
       DEF Fill, TypeOK, ConnOK, States, cardVars
<1>4. CASE BusRestarts(t)
  <2>1. faults' \in 0 .. MaxFaults
    BY <1>4, UploadAssumption DEF BusRestarts, Fault, TypeOK
  <2> QED
    BY <1>4, <2>1, RebootTypes DEF BusRestarts
<1> QED
  BY <1>1, <1>2, <1>3, <1>4 DEF ThirdTask

LEMMA KillTypes ==
  ASSUME TypeOK, Kill \/ Create \/ Talk \/ Served \/ Delay
  PROVE  TypeOK'
<1>1. third' \in [Tasks -> Busy \cup {"none", "start", "poll", "ask", "wait", "meter"}]
  BY DEF TypeOK, Kill, Create, Talk, Served, Delay, thirdVars
<1>2. spoiled' \subseteq {"torn", "version"}
  BY DEF TypeOK, Kill, Create, Talk, Served, Delay, fateVars
<1>3. START' \in BOOLEAN
  BY DEF TypeOK, Kill, Create, Talk, Served, Delay, thirdVars
<1>4. /\ up' \in {"top", "command", "switch", "sending", "sent", "storing", "resume",
                  "resending", "resent", "delay"}
      /\ up' # "command" => script' = <<>>
      /\ up' \notin {"sending", "sent", "storing", "resending", "resent"} => xfer' = Stored(None)
      /\ xfer' = xfer
  BY DEF TypeOK, Kill, Create, Talk, Served, Delay, Step, upVars
<1>5. UNCHANGED <<netVars, bufVars, cardVars, sample, nodes, taken, done, served,
                  delivered, lost, connect, FirstPackage>>
  BY DEF Kill, Create, Talk, Served, Delay, thirdVars, upVars, fateVars
<1> QED
  BY <1>1, <1>2, <1>3, <1>4, <1>5 DEF TypeOK, netVars, bufVars, cardVars, Open

LEMMA SampleTypes ==
  ASSUME TypeOK, TakeSample
  PROVE  TypeOK'
<1>1. taken + 1 \in Samples /\ taken' = taken + 1
  BY UploadAssumption DEF TypeOK, Samples, TakeSample, SamplesLeft
<1>2. upload_buffer' \in [state : {"CAN_WRITE", "CAN_READ"}, write_index : {0, 1},
                          type : {"data", "version"}, h1 : Samples, h2 : Samples]
  BY <1>1 DEF TypeOK, TakeSample
<1>3. done' \subseteq Samples /\ lost' \subseteq Samples
  BY <1>1 DEF TypeOK, TakeSample, Wiped
<1>4. eth_st' \in States /\ ConnOK'
  BY CheckLinkTypes DEF TakeSample
<1>5. up' = up /\ up = "command"
  BY DEF TakeSample, Step
<1>6. spoiled' \subseteq {"torn", "version"} /\ idle' \in BOOLEAN
  BY DEF TakeSample
<1> QED
  BY <1>1, <1>2, <1>3, <1>4, <1>5, <1>6 DEF TypeOK, ConnOK, States, TakeSample, cardVars

LEMMA TopTypes ==
  ASSUME TypeOK, Top
  PROVE  TypeOK'
<1>1. eth_st' \in States /\ ConnOK'
  <2>1. CASE RecvError
    BY <2>1, AbortTypes DEF RecvError
  <2>2. CASE UNCHANGED <<eth_st, conn>>
    BY <2>2, ConnTypes DEF TypeOK, States
  <2> QED
    BY <2>1, <2>2 DEF Top
<1>2. served' \in 0 .. MaxCommands
  BY UploadAssumption DEF TypeOK, Top
<1>3. up' \in {"switch", "command"} /\ (up' # "command" => script' = <<>>)
  BY DEF TypeOK, Top
<1>4. xfer' = Stored(None)
  BY DEF TypeOK, Top
<1>5. UNCHANGED <<link, faults, bufVars, cardVars, thirdVars, xfer, fateVars, connect,
                  FirstPackage>>
  BY DEF Top
<1> QED
  BY <1>1, <1>2, <1>3, <1>4, <1>5 DEF TypeOK, ConnOK, States, bufVars, cardVars, thirdVars,
     fateVars

LEMMA FreeTypes ==
  ASSUME TypeOK, FreeBuffer
  PROVE  upload_buffer' \in [state : {"CAN_WRITE", "CAN_READ"}, write_index : {0, 1},
                             type : {"data", "version"}, h1 : Samples, h2 : Samples]
BY DEF TypeOK, FreeBuffer

LEMMA SwitchTypes ==
  ASSUME TypeOK, Switch
  PROVE  TypeOK'
<1>1. eth_st' \in States /\ ConnOK'
  <2>1. CASE idle
    BY <2>1, CheckLinkTypes DEF Switch
  <2>2. CASE ~idle
    BY <2>2, ConnTypes DEF Switch, TypeOK, States
  <2> QED
    BY <2>1, <2>2
<1>2. Record \in Records
  BY DEF TypeOK, Record, Records, Races
<1>3. upload_buffer' \in [state : {"CAN_WRITE", "CAN_READ"}, write_index : {0, 1},
                          type : {"data", "version"}, h1 : Samples, h2 : Samples]
  BY FreeTypes DEF Switch, TypeOK
<1>4. lost' \subseteq Samples
  BY DEF Switch, TypeOK, Wiped
<1>5. xfer' \in {xfer, Record} /\ (up' \notin {"sending", "storing"} => xfer' = xfer)
  BY DEF Switch
<1>6. /\ up' \in {"sending", "storing", "resume", "delay"} /\ script' = script /\ script = <<>>
      /\ xfer = Stored(None)
  BY DEF Switch, TypeOK
<1>7. FirstPackage' \in BOOLEAN /\ Fileexist' \in BOOLEAN
  BY DEF Switch, TypeOK
<1>8. UNCHANGED <<link, faults, idle, card, thirdVars, script, served, delivered, spoiled,
                  connect>>
  BY DEF Switch
<1> QED
  BY <1>1, <1>2, <1>3, <1>4, <1>5, <1>6, <1>7, <1>8
     DEF TypeOK, ConnOK, States, thirdVars

LEMMA ReturnsTypes ==
  ASSUME TypeOK, NEW ok, NEW w, NEW a, Returns(ok, w, a)
  PROVE  eth_st' \in States /\ ConnOK' /\ up \in {w, a}
<1>1. CASE Abort
  BY <1>1, AbortTypes DEF Returns
<1>2. CASE UNCHANGED <<eth_st, conn>>
  BY <1>2, ConnTypes DEF Returns, TypeOK, States
<1> QED
  BY <1>1, <1>2 DEF Returns

LEMMA SentTypes ==
  ASSUME TypeOK, NEW ok, Sent(ok)
  PROVE  TypeOK'
<1>1. lost' \subseteq Samples
  BY DEF Sent, TypeOK, Wiped
<1>2. eth_st' \in States /\ ConnOK' /\ up \in {"sending", "sent"}
  BY ReturnsTypes DEF Sent
<1>3. Stored(None) \in Records
  BY UploadAssumption DEF Stored, None, Records, Samples
<1>4. up' = "resume" /\ script' = <<>> /\ xfer' = Stored(None)
  BY <1>2 DEF Sent, TypeOK
<1>5. UNCHANGED <<link, faults, idle, cardVars, thirdVars, script, served, delivered, spoiled,
                  connect, FirstPackage>> /\ FreeBuffer
  BY DEF Sent
<1> QED
  BY <1>1, <1>2, <1>3, <1>4, <1>5, FreeTypes DEF TypeOK, ConnOK, States, cardVars, thirdVars

LEMMA FinalTypes ==
  ASSUME TypeOK
  PROVE  /\ Final \in Records /\ Final.h1 = xfer.h1 /\ Final.races = xfer.races
         /\ ~Transferring => Final = xfer
         /\ Transferring => /\ Final.h2 = upload_buffer.h2
                            /\ Whole(Final) => xfer.len = 1 /\ xfer.h1 = upload_buffer.h2
                            /\ xfer.type = "data" /\ xfer.len = 1 /\ xfer.h1 = upload_buffer.h2
                                 => Whole(Final)
<1>1. CASE ~Transferring
  BY <1>1 DEF TypeOK, Final
<1>2. CASE Transferring
  BY <1>2 DEF TypeOK, Final, Records, Whole
<1> QED
  BY <1>1, <1>2

LEMMA AcceptTypes ==
  ASSUME TypeOK, Accept
  PROVE  TypeOK'
<1> DEFINE S == Samples  tx == conn.tx  s == IF Whole(Final) THEN Final.h1 ELSE None
<1>1. tx \in Seq(S) /\ Len(tx) < TX_RECORDS /\ TX_RECORDS \in Nat /\ Open
  BY UploadAssumption DEF TypeOK, Accept
<1>2. s \in S
  BY FinalTypes, UploadAssumption, SMTT(30) DEF TypeOK, Records, None, Samples
<1>3. conn' = [conn EXCEPT !.tx = Append(tx, s)]
  BY DEF Accept
<1> HIDE DEF S, tx, s
<1>4. Append(tx, s) \in Seq(S) /\ Len(Append(tx, s)) <= TX_RECORDS
  <2>1. Append(tx, s) \in Seq(S) /\ Len(Append(tx, s)) = Len(tx) + 1 /\ Len(tx) \in Nat
    BY <1>1, <1>2
  <2> QED
    BY <1>1, <2>1
<1>5. ConnOK'
  BY <1>1, <1>3, <1>4 DEF ConnOK, TypeOK, Open, S
<1>6. up' \in {"sent", "resent"} /\ script' = <<>> /\ xfer' \in Records
  BY FinalTypes DEF Accept, TypeOK
<1>7. UNCHANGED <<link, eth_st, faults, bufVars, cardVars, thirdVars, script, served, fateVars,
                  connect, FirstPackage>>
  BY DEF Accept
<1> QED
  BY <1>5, <1>6, <1>7 DEF TypeOK, ConnOK, bufVars, cardVars, thirdVars, fateVars

LEMMA StoreTypes ==
  ASSUME TypeOK, Store
  PROVE  TypeOK'
<1>2. lost' \subseteq Samples
  BY DEF Store, TypeOK, Wiped
<1>3. card' \in Seq(Records)
  <2> DEFINE F == Final
  <2>1. F \in Records /\ card \in Seq(Records) /\ card' = Append(card, F)
    BY FinalTypes DEF Store, TypeOK
  <2> HIDE DEF F
  <2> QED
    BY <2>1
<1>4. Stored(None) \in Records
  BY UploadAssumption DEF Stored, None, Records, Samples
<1>5. up' = "resume" /\ script' = <<>> /\ xfer' = Stored(None)
  BY DEF Store, TypeOK
<1>6. UNCHANGED <<netVars, idle, Fileexist, thirdVars, script, served, delivered, spoiled,
                  connect, FirstPackage>> /\ FreeBuffer
  BY DEF Store
<1> QED
  BY <1>2, <1>3, <1>4, <1>5, <1>6, FreeTypes DEF TypeOK, netVars, thirdVars, Open

LEMMA CardTypes ==
  ASSUME TypeOK, card # <<>>
  PROVE  /\ Head(card) \in Records /\ Tail(card) \in Seq(Records)
         /\ Len(card) \in Nat \ {0} /\ Head(card) = card[1] /\ Len(Tail(card)) = Len(card) - 1
         /\ \A i \in 1 .. Len(card) - 1 : Tail(card)[i] = card[i + 1]
<1> DEFINE R == Records
<1>1. card \in Seq(R)
  BY DEF TypeOK
<1> HIDE DEF R
<1>2. \A s \in Seq(R) : s # <<>> =>
        /\ Head(s) \in R /\ Tail(s) \in Seq(R)
        /\ Len(s) \in Nat \ {0} /\ Head(s) = s[1] /\ Len(Tail(s)) = Len(s) - 1
        /\ \A i \in 1 .. Len(s) - 1 : Tail(s)[i] = s[i + 1]
  OBVIOUS
<1> QED
  BY <1>1, <1>2 DEF R

LEMMA ResumeTypes ==
  ASSUME TypeOK, Resume
  PROVE  TypeOK'
<1>1. eth_st' \in States /\ ConnOK'
  <2>1. CASE Fileexist
    BY <2>1, CheckLinkTypes DEF Resume
  <2>2. CASE ~Fileexist
    BY <2>2, ConnTypes DEF Resume, TypeOK, States
  <2> QED
    BY <2>1, <2>2
<1>2. xfer' \in Records /\ (up' # "resending" => xfer' = xfer)
  BY CardTypes DEF Resume, TypeOK
<1>3. xfer = Stored(None) /\ script' = <<>> /\ up' \in {"resending", "delay"}
  BY DEF Resume, TypeOK
<1>4. Fileexist' \in BOOLEAN
  <2>1. CASE Fileexist' = Fileexist
    BY <2>1 DEF TypeOK
  <2>2. CASE Fileexist' = (Fileexist /\ ~(eth_st' = "CON"))
    BY <2>2
  <2> QED
    BY <2>1, <2>2 DEF Resume
<1>5. UNCHANGED <<link, faults, bufVars, card, thirdVars, script, served, fateVars, connect,
                  FirstPackage>>
  BY DEF Resume
<1> QED
  BY <1>1, <1>2, <1>3, <1>4, <1>5 DEF TypeOK, ConnOK, States, bufVars, thirdVars, fateVars

LEMMA ResentTypes ==
  ASSUME TypeOK, Places, NEW ok, Resent(ok)
  PROVE  TypeOK'
<1>1. eth_st' \in States /\ ConnOK' /\ up \in {"resending", "resent"}
  BY ReturnsTypes DEF Resent
<1>2. card' \in Seq(Records)
  BY <1>1, CardTypes DEF Resent, TypeOK, Places
<1>3. Stored(None) \in Records
  BY UploadAssumption DEF Stored, None, Records, Samples
<1>4. up' = "delay" /\ script' = <<>> /\ xfer' = Stored(None)
  BY <1>1 DEF Resent, TypeOK
<1>5. UNCHANGED <<link, faults, bufVars, Fileexist, thirdVars, script, served, fateVars,
                  connect, FirstPackage>>
  BY DEF Resent
<1> QED
  BY <1>1, <1>2, <1>3, <1>4, <1>5 DEF TypeOK, ConnOK, States, bufVars, thirdVars, fateVars

LEMMA NextTypes ==
  ASSUME TypeOK, Places, [Next]_vars
  PROVE  TypeOK'
<1>1. CASE UNCHANGED vars
  BY <1>1 DEF TypeOK, Open, vars, netVars, bufVars, cardVars, thirdVars, upVars, fateVars
<1>2. CASE UploadTask
  <2>1. CASE Restarts
    BY <2>1, RebootTypes DEF Restarts, TypeOK
  <2> QED
    BY <1>2, <2>1, KillTypes, SampleTypes, TopTypes, SwitchTypes, SentTypes, StoreTypes,
       ResumeTypes, ResentTypes, AcceptTypes DEF UploadTask, Command
<1>3. CASE \E t \in Tasks : ThirdTask(t)
  BY <1>3, ThirdTypes
<1> QED
  BY <1>1, <1>2, <1>3, NetworkTypes, ConnectTypes DEF Next

-----------------------------------------------------------------------------
(***************************************************************************)
(* What a step does to the connection: a record goes on its way, or the    *)
(* connection is closed and what it carried is known to be lost.           *)
(***************************************************************************)
Layers == Places /\ Fate /\ OneSample /\ Order /\ Wire
Cut == \/ conn'.tx = conn.tx /\ conn'.dropped = conn.dropped
       \/ conn'.tx = <<>> /\ conn'.dropped = conn.dropped \cup (ToSet(conn.tx) \ {None})
Flow == /\ Out' \subseteq Out
        /\ \A s : s # None /\ s \in Out \cup conn.dropped => s \in Out' \cup conn'.dropped

LEMMA Cuts ==
  ASSUME TypeOK,
         \/ conn' = conn
         \/ \E st \in {"none", "broken"} : conn' = Closed(st)
         \/ conn' = [conn EXCEPT !.st = "open"]
         \/ Abort \/ CheckLink
         \/ \E ok, w, a : Returns(ok, w, a)
  PROVE  Cut
<1>1. \/ conn' = conn
      \/ \E st \in {"none", "broken"} : conn' = Closed(st)
      \/ conn' = [conn EXCEPT !.st = "open"]
  BY DEF Abort, CheckLink, Returns
<1>2. CASE conn' = conn
  BY <1>2 DEF Cut
<1>3. CASE \E st \in {"none", "broken"} : conn' = Closed(st)
  BY <1>3 DEF Cut, Closed
<1>4. CASE conn' = [conn EXCEPT !.st = "open"]
  BY <1>4 DEF Cut, TypeOK
<1> QED
  BY <1>1, <1>2, <1>3, <1>4

LEMMA CutFlows ==
  ASSUME TypeOK, Wire, Cut, delivered' = delivered
  PROVE  Flow /\ Wire'
<1>1. CASE conn'.tx = conn.tx /\ conn'.dropped = conn.dropped
  BY <1>1 DEF Flow, Out, Wire
<1>2. CASE conn'.tx = <<>> /\ conn'.dropped = conn.dropped \cup (ToSet(conn.tx) \ {None})
  <2>1. DOMAIN conn'.tx = {} /\ ToSet(conn'.tx) = {}
    <3>1. DOMAIN <<>> = {} /\ ToSet(<<>>) = {}
      BY DEF ToSet
    <3> QED
      BY <1>2, <3>1
  <2>2. Flow
    BY <1>2, <2>1 DEF Flow, Out
  <2>3. Wire'
    BY <2>1 DEF Wire
  <2> QED
    BY <2>2, <2>3
<1> QED
  BY <1>1, <1>2 DEF Cut

LEMMA ArriveFlows ==
  ASSUME TypeOK, Wire, Arrive
  PROVE  Flow /\ Wire'
<1> DEFINE S == Samples  tx == conn.tx
<1>1. tx \in Seq(S) /\ tx # <<>>
  BY DEF TypeOK, Arrive
<1>2. /\ conn'.tx = Tail(tx) /\ conn'.dropped = conn.dropped
      /\ delivered' = delivered \cup ({Head(tx)} \ {None})
  BY DEF Arrive, TypeOK
<1>3. S \subseteq Nat /\ delivered \subseteq Nat
  BY DEF TypeOK, Samples
<1> HIDE DEF S, tx
<1>4. /\ Len(tx) \in Nat \ {0} /\ DOMAIN tx = 1 .. Len(tx) /\ Head(tx) = tx[1]
      /\ DOMAIN Tail(tx) = 1 .. Len(tx) - 1
      /\ \A i \in 1 .. Len(tx) - 1 : Tail(tx)[i] = tx[i + 1]
      /\ \A i \in DOMAIN tx : tx[i] \in S
  <2>1. Tail(tx) \in Seq(S) /\ Len(Tail(tx)) = Len(tx) - 1 /\ Len(tx) \in Nat \ {0}
    BY <1>1
  <2>2. DOMAIN Tail(tx) = 1 .. Len(tx) - 1
    BY <2>1
  <2> QED
    BY <1>1, <2>1, <2>2
<1>5. \A i \in DOMAIN Tail(tx) : i + 1 \in DOMAIN tx /\ Tail(tx)[i] = tx[i + 1] /\ i \in Nat
  BY <1>4
<1>6. \A i \in DOMAIN tx : i = 1 \/ (i - 1 \in DOMAIN Tail(tx) /\ Tail(tx)[i - 1] = tx[i])
  BY <1>4
<1>7. 1 \in DOMAIN tx
  BY <1>4
<1>8. ToSet(tx) \subseteq ToSet(Tail(tx)) \cup {Head(tx)}
      /\ ToSet(Tail(tx)) \cup {Head(tx)} \subseteq ToSet(tx)
  <2> DEFINE y == Tail(tx)
  <2>1. \A x \in ToSet(tx) : \E i \in DOMAIN tx : x = tx[i]
    BY DEF ToSet
  <2>2. \A i \in DOMAIN y : y[i] \in ToSet(y)
    BY DEF ToSet
  <2>3. \A x \in ToSet(y) : \E i \in DOMAIN y : x = y[i]
    BY DEF ToSet
  <2>4. \A i \in DOMAIN tx : tx[i] \in ToSet(tx)
    BY DEF ToSet
  <2>5. \A i \in DOMAIN tx : tx[i] \in ToSet(y) \cup {Head(tx)}
    <3>1. \A i \in DOMAIN tx : tx[i] = Head(tx) \/ \E k \in DOMAIN y : tx[i] = y[k]
      BY <1>4, <1>6
    <3> QED
      BY <2>2, <3>1
  <2>6. \A i \in DOMAIN y : y[i] \in ToSet(tx)
    <3>1. \A i \in DOMAIN y : \E k \in DOMAIN tx : y[i] = tx[k]
      BY <1>5
    <3> QED
      BY <2>4, <3>1
  <2>7. Head(tx) \in ToSet(tx)
    BY <1>4, <1>7, <2>4
  <2> QED
    BY <2>1, <2>3, <2>5, <2>6, <2>7
<1>9. Out = delivered \cup ToSet(tx) /\ Out' = delivered' \cup ToSet(Tail(tx))
  BY <1>2 DEF Out, tx
<1>10. Flow
  BY <1>2, <1>8, <1>9 DEF Flow
<1>11. /\ \A i, j \in DOMAIN tx : i <= j /\ tx[j] # None => tx[i] <= tx[j]
       /\ \A d \in delivered : \A i \in DOMAIN tx : tx[i] # None => d <= tx[i]
  BY DEF Wire, tx
<1>12. ASSUME NEW i \in DOMAIN Tail(tx), NEW j \in DOMAIN Tail(tx), i <= j, Tail(tx)[j] # None
       PROVE  Tail(tx)[i] <= Tail(tx)[j]
  <2>1. i + 1 <= j + 1
    BY <1>5, <1>12
  <2> QED
    BY <1>5, <1>11, <1>12, <2>1
<1>13. ASSUME NEW d \in delivered', NEW i \in DOMAIN Tail(tx), Tail(tx)[i] # None
       PROVE  d <= Tail(tx)[i]
  <2>1. i + 1 \in DOMAIN tx /\ Tail(tx)[i] = tx[i + 1] /\ 1 <= i + 1
    BY <1>5
  <2>2. d \in delivered \/ d = tx[1]
    BY <1>2, <1>4
  <2> QED
    BY <1>7, <1>11, <1>13, <2>1, <2>2
<1>14. Wire'
  BY <1>2, <1>12, <1>13 DEF Wire
<1> QED
  BY <1>10, <1>14

(* A sample that is safe stays so.                                           *)
LEMMA SafeKeeps ==
  ASSUME Flow, lost \subseteq lost',
         \A i \in DOMAIN card : \E j \in DOMAIN card' : card'[j] = card[i]
  PROVE  \A s : s # None /\ Safe(s) => Safe(s)'
BY DEF Flow, Safe, Whole

(* What is wiped is counted, or its record has already been taken.           *)
LEMMA WipedSafe ==
  ASSUME TypeOK, Places, Fate, Flow, lost \cup Wiped \subseteq lost',
         \A i \in DOMAIN card : \E j \in DOMAIN card' : card'[j] = card[i]
  PROVE  \A s \in done : Safe(s)'
<1> SUFFICES ASSUME NEW s \in done
             PROVE  Safe(s)'
  OBVIOUS
<1>1. s # None
  BY DEF Places, None, TypeOK, Samples
<1>2. CASE Safe(s)
  BY <1>1, <1>2, SafeKeeps
<1>3. CASE s \in Wiped
  BY <1>3 DEF Safe
<1>4. CASE s \in Taken
  <2>1. Good(xfer) /\ s = xfer.h1 /\ up = "sent"
    BY <1>1, <1>4 DEF Taken, Good
  <2>2. s \in Out \cup conn.dropped
    BY <2>1 DEF Fate
  <2> QED
    BY <1>1, <2>2 DEF Flow, Safe
<1>5. Safe(s) \/ s \in Pending
  BY DEF Fate, Pending
<1> QED
  BY <1>2, <1>3, <1>4, <1>5 DEF Wiped

LEMMA UptoKeeps ==
  ASSUME Out' \subseteq Out, card' = card
  PROVE  \A n : Upto(Out, card, n) => Upto(Out', card', n)
BY DEF Upto

-----------------------------------------------------------------------------
(***************************************************************************)
(* Steps that leave the record, the card and the history alone: a task     *)
(* that is not half way through a record moves, or is killed, elsewhere.   *)
(***************************************************************************)
SameBuffer == /\ upload_buffer'.h1 = upload_buffer.h1 /\ upload_buffer'.h2 = upload_buffer.h2
              /\ upload_buffer'.state = upload_buffer.state
              /\ upload_buffer'.write_index = upload_buffer.write_index
Quiet ==
  /\ UNCHANGED <<card, Fileexist, sample, taken, done, lost, spoiled>> /\ SameBuffer /\ Flow
  /\ \A t \in Tasks : third'[t] = third[t] \/ (third[t] \notin Half /\ third'[t] \notin Filling)
  /\ \/ up' = up /\ xfer' = xfer
     \/ up' \notin {"sending", "sent", "storing", "resending", "resent"}

LEMMA QuietKeeps ==
  ASSUME Layers, Quiet, Wire'
  PROVE  Layers'
<1>1. \A t \in Tasks : third'[t] \in Filling => third'[t] = third[t]
  BY DEF Quiet
<1>2. \A t \in Tasks : (third'[t] \in Half <=> third[t] \in Half)
  BY DEF Quiet, Half, Filling
<1>3. \A t \in Tasks : third'[t] \in Half => third'[t] = third[t]
  BY <1>1 DEF Half, Filling
<1>4. Places'
  BY <1>1, <1>2 DEF Layers, Places, Quiet, Filling
<1>5. Transferring' => Transferring /\ xfer' = xfer
  BY DEF Quiet, Transferring
<1>6. Fate'
  <2>1. \A s : s # None /\ Safe(s) => Safe(s)'
    BY SafeKeeps DEF Quiet
  <2>2. \A s \in done : s # None
    BY DEF Layers, Places, None
  <2>3. up' \in {"sent", "resent"} /\ Good(xfer') => xfer'.h1 \in Out' \cup conn'.dropped
    <3>1. up' \in {"sent", "resent"} => up' = up /\ xfer' = xfer
      BY DEF Quiet
    <3> QED
      BY <3>1 DEF Layers, Fate, Quiet, Flow, Good
  <2>4. \A t \in Tasks : third'[t] \in {"ready", "index"} => third'[t] = third[t]
    BY <1>3 DEF Half
  <2>5. \A s \in done' : Safe(s)' \/ (upload_buffer'.state = "CAN_READ" /\ upload_buffer'.h2 = s)
    BY <2>1, <2>2 DEF Layers, Fate, Quiet, SameBuffer
  <2>6. \A t \in Tasks : third'[t] \in {"ready", "index"} /\ upload_buffer'.h1 = sample'[t]
                           => upload_buffer'.h2 = sample'[t]
    BY <2>4 DEF Layers, Fate, Quiet, SameBuffer
  <2> QED
    BY <2>3, <2>5, <2>6 DEF Fate, Good, Whole
<1>7. Clean' <=> Clean
  BY <1>2 DEF Clean, Quiet
<1>8. OneSample'
  <2>1. \A t \in Tasks : third'[t] \in {"fill2", "ready", "index"} => third'[t] = third[t]
    BY <1>3 DEF Half
  <2> QED
    BY <1>5, <1>7, <2>1 DEF Layers, OneSample, Quiet, SameBuffer
<1>9. Order'
  <2>1. \A n : Upto(Out, card, n) => Upto(Out', card', n)
    BY UptoKeeps DEF Quiet, Flow
  <2>2. \A d \in Out' : d \in Out
    BY DEF Quiet, Flow
  <2>3. (up' = "sending" => up = "sending") /\ (up' = "storing" => up = "storing")
    BY DEF Quiet
  <2> QED
    BY <1>5, <2>1, <2>2, <2>3 DEF Layers, Order, Quiet, SameBuffer, Good, Whole
<1> QED
  BY <1>4, <1>6, <1>8, <1>9 DEF Layers

LEMMA QuietSteps ==
  ASSUME TypeOK, Wire,
         \/ Network \/ CheckConnect \/ Connected(TRUE) \/ Connected(FALSE) \/ VersionSent
         \/ Create \/ Talk \/ Served \/ Delay \/ Top \/ Resent(FALSE)
  PROVE  Quiet /\ Wire'
<1>1. CASE Plug \/ Break \/ TcpGivesUp
  <2>1. UNCHANGED <<bufVars, cardVars, thirdVars, upVars, fateVars>>
    BY <1>1 DEF Plug, Break, TcpGivesUp
  <2>2. Flow /\ Wire'
    <3>1. Cut
      BY <1>1, Cuts DEF Plug, Break, TcpGivesUp
    <3> QED
      BY <2>1, <3>1, CutFlows DEF fateVars
  <2> QED
    BY <2>1, <2>2 DEF Quiet, SameBuffer, bufVars, cardVars, thirdVars, upVars, fateVars
<1>2. CASE Arrive
  BY <1>2, ArriveFlows DEF Arrive, Quiet, SameBuffer, bufVars, cardVars, thirdVars, upVars
<1>3. CASE CheckConnect \/ Connected(TRUE) \/ Connected(FALSE) \/ VersionSent
  <2>1. SameBuffer
    BY <1>3 DEF CheckConnect, Connected, VersionSent, SameBuffer, bufVars, TypeOK
  <2>2. UNCHANGED <<cardVars, thirdVars, upVars, fateVars>>
    BY <1>3 DEF CheckConnect, Connected, VersionSent
  <2>3. Flow /\ Wire'
    <3>1. conn' = conn \/ conn' = Closed("none") \/ conn' = [conn EXCEPT !.st = "open"]
      BY <1>3 DEF CheckConnect, Connected, VersionSent, netVars, Abort
    <3>2. Cut
      BY <3>1, Cuts
    <3> QED
      BY <2>2, <3>2, CutFlows DEF fateVars
  <2> QED
    BY <2>1, <2>2, <2>3 DEF Quiet, cardVars, thirdVars, upVars, fateVars
<1>4. CASE Create \/ Talk \/ Served \/ Delay
  <2>1. conn' = conn /\ delivered' = delivered
    BY <1>4 DEF Create, Talk, Served, Delay, netVars, fateVars
  <2>2. Flow /\ Wire'
    BY <2>1, Cuts, CutFlows
  <2>3. CASE Create
    BY <2>2, <2>3 DEF Create, Alive, Half, Filling, Quiet, SameBuffer, bufVars, cardVars, fateVars,
       TypeOK
  <2>4. CASE Talk \/ Served \/ Delay
    BY <2>2, <2>4 DEF Talk, Served, Delay, Quiet, SameBuffer, bufVars, cardVars, thirdVars, fateVars
  <2> QED
    BY <1>4, <2>3, <2>4, <2>2
<1>5. CASE Top
  <2>1. Flow /\ Wire'
    <3>1. Cut
      BY <1>5, Cuts DEF Top, RecvError
    <3> QED
      BY <1>5, <3>1, CutFlows DEF Top, fateVars
  <2> QED
    BY <1>5, <2>1 DEF Top, Quiet, SameBuffer, bufVars, cardVars, thirdVars, fateVars
<1>6. CASE Resent(FALSE)
  <2>1. Flow /\ Wire'
    <3>1. Cut
      BY <1>6, Cuts DEF Resent
    <3> QED
      BY <1>6, <3>1, CutFlows DEF Resent, fateVars
  <2> QED
    BY <1>6, <2>1 DEF Resent, Quiet, SameBuffer, bufVars, thirdVars, fateVars
<1> QED
  BY <1>1, <1>2, <1>3, <1>4, <1>5, <1>6 DEF Network

LEMMA QuietPolling ==
  ASSUME TypeOK, Wire, NEW t \in Tasks,
         \/ Start(t) \/ Due(t) \/ Waits(t)
         \/ Answer(t) /\ third'[t] = "poll"
         \/ Fill(t) /\ third[t] = "link"
  PROVE  Quiet /\ Wire'
<1>0. Flow /\ Wire'
  <2>1. CASE Fill(t) /\ third[t] = "link"
    <3>1. Cut /\ delivered' = delivered
      BY <2>1, Cuts DEF Fill
    <3> QED
      BY <3>1, CutFlows
  <2>2. CASE Start(t) \/ Due(t) \/ Waits(t) \/ Answer(t)
    <3>1. Cut /\ delivered' = delivered
      BY <2>2, Cuts DEF Start, Due, Waits, Answer, netVars, fateVars
    <3> QED
      BY <3>1, CutFlows
  <2> QED
    BY <2>1, <2>2
<1>1. CASE Start(t)
  BY <1>0, <1>1 DEF Start, Half, Filling, Quiet, SameBuffer, bufVars, cardVars, upVars, fateVars,
     TypeOK
<1>2. CASE Due(t)
  BY <1>0, <1>2 DEF Due, Half, Filling, Quiet, SameBuffer, bufVars, cardVars, upVars, fateVars,
     TypeOK
<1>3. CASE Waits(t)
  BY <1>0, <1>3 DEF Waits, Half, Filling, Quiet, SameBuffer, bufVars, cardVars, upVars, fateVars,
     TypeOK
<1>4. CASE Answer(t) /\ third'[t] = "poll"
  BY <1>0, <1>4 DEF Answer, Half, Filling, Quiet, SameBuffer, bufVars, cardVars, upVars, fateVars,
     TypeOK
<1>5. CASE Fill(t) /\ third[t] = "link"
  <2>1. third' = [third EXCEPT ![t] = "poll"]
    BY <1>5 DEF Fill, After
  <2>2. UNCHANGED <<bufVars, cardVars, sample, taken, done, delivered, lost, spoiled, up, xfer>>
    BY <1>5 DEF Fill
  <2> QED
    BY <1>0, <1>5, <2>1, <2>2 DEF Half, Filling, Quiet, SameBuffer, bufVars, cardVars, TypeOK
<1> QED
  BY <1>1, <1>2, <1>3, <1>4, <1>5

-----------------------------------------------------------------------------
(***************************************************************************)
(* The steps of a third-device task on the record.                         *)
(***************************************************************************)
LEMMA InitLayers == Init => Layers
<1> SUFFICES ASSUME Init
             PROVE  Layers
  OBVIOUS
<1>1. Places
  BY DEF Init, Places, OneTask, Half, Filling
<1>2. Fate
  <2>1. up = "top" /\ done = {} /\ \A t \in Tasks : third[t] \notin {"ready", "index"}
    BY DEF Init, OneTask
  <2> QED
    BY <2>1 DEF Fate
<1>3. OneSample
  BY DEF Init, OneSample, Clean, Transferring, NoRecord, OneTask
<1>4. conn.tx = <<>> /\ DOMAIN conn.tx = {} /\ ToSet(conn.tx) = {}
  <2>1. DOMAIN <<>> = {} /\ ToSet(<<>>) = {}
    BY DEF ToSet
  <2>2. conn.tx = <<>>
    BY DEF Init, Fresh
  <2> QED
    BY <2>1, <2>2
<1>5. Order
  <2>1. Out = {} /\ card = <<>> /\ DOMAIN card = {}
    BY <1>4 DEF Init, Out
  <2> QED
    BY <2>1 DEF Init, Order, Upto, Transferring, NoRecord, None
<1>6. Wire
  BY <1>4 DEF Wire
<1> QED
  BY <1>1, <1>2, <1>3, <1>5, <1>6 DEF Layers

LEMMA AnswerKeeps ==
  ASSUME TypeOK, Layers, NEW t \in Tasks, Answer(t), third'[t] # "poll"
  PROVE  Layers'
<1>1. /\ third[t] = "ask" /\ third' = [third EXCEPT ![t] = "fill1"] /\ taken < MaxSamples
      /\ \A u \in Tasks : third[u] \notin Filling
  BY DEF Answer, TypeOK, Busy, Filling, Half
<1>2. \A u \in Tasks : u # t => third'[u] = third[u] /\ third[u] \notin Half
  BY <1>1 DEF TypeOK, Filling
<1>3. \A u \in Tasks : third'[u] \notin Half /\ third[u] \notin Half
  BY <1>1 DEF TypeOK, Half, Filling
<1>4. \A u \in Tasks : third'[u] \in Filling => u = t
  BY <1>1 DEF TypeOK
<1>5. UNCHANGED <<upload_buffer, card, Fileexist, sample, taken, done, delivered, lost,
                  spoiled, up, xfer, conn>>
  BY DEF Answer, bufVars, cardVars, upVars, fateVars, netVars
<1>6. Places'
  BY <1>1, <1>3, <1>4, <1>5 DEF Layers, Places
<1>7. Fate'
  BY <1>3, <1>5 DEF Layers, Fate, Safe, Out, Good, Whole, Half
<1>8. OneSample'
  BY <1>3, <1>5 DEF Layers, OneSample, Clean, Transferring, Half
<1>9. Order' /\ Wire'
  BY <1>5 DEF Layers, Order, Upto, Out, Transferring, Wire, Good, Whole
<1> QED
  BY <1>6, <1>7, <1>8, <1>9 DEF Layers

LEMMA Numbers ==
  ASSUME TypeOK
  PROVE  /\ taken \in Nat /\ upload_buffer.h1 \in Nat /\ upload_buffer.h2 \in Nat
         /\ xfer.h1 \in Nat /\ Out \subseteq Nat /\ done \subseteq Nat /\ None \in Nat
         /\ \A t \in Tasks : sample[t] \in Nat
         /\ \A i \in DOMAIN card : card[i] \in Records /\ card[i].h1 \in Nat
         /\ upload_buffer.state \in {"CAN_WRITE", "CAN_READ"}
         /\ upload_buffer.write_index \in {0, 1}
<1>1. \A i \in DOMAIN card : card[i] \in Records
  <2> DEFINE R == Records
  <2>1. card \in Seq(R)
    BY DEF TypeOK
  <2> HIDE DEF R
  <2>2. \A i \in DOMAIN card : card[i] \in R
    BY <2>1
  <2> QED
    BY <2>2 DEF R
<1>2. Samples \subseteq Nat
  BY DEF Samples
<1>3. Out \subseteq Nat
  BY <1>2, TxTypes DEF TypeOK, Out
<1> QED
  BY <1>1, <1>2, <1>3 DEF TypeOK, Records, None

(* The first half: the sample before it is lost if it is still waiting, and  *)
(* is known to be rewritten if it is being sent or stored.                   *)
LEMMA Fill1Keeps ==
  ASSUME TypeOK, Layers, NEW t \in Tasks, Fill(t), third[t] = "fill1"
  PROVE  Layers'
<1>1. /\ third' = [third EXCEPT ![t] = "fill2"] /\ taken' = taken + 1
      /\ sample' = [sample EXCEPT ![t] = taken + 1]
      /\ upload_buffer' = [upload_buffer EXCEPT !.h1 = taken + 1]
      /\ lost' = lost \cup Wiped /\ xfer' = Written /\ spoiled' = {}
      /\ UNCHANGED <<done, up, card, Fileexist, delivered, conn>>
  BY DEF Fill, After, cardVars
<1>2. /\ upload_buffer'.h1 = taken + 1 /\ upload_buffer'.h2 = upload_buffer.h2
      /\ upload_buffer'.state = upload_buffer.state
      /\ upload_buffer'.write_index = upload_buffer.write_index
  BY <1>1 DEF TypeOK
<1>3. \A u \in Tasks : u # t => third'[u] = third[u] /\ third[u] \notin Filling
  BY <1>1 DEF TypeOK, Layers, Places, Filling
<1>4. third'[t] = "fill2" /\ sample'[t] = taken + 1
  BY <1>1 DEF TypeOK
<1>5. taken + 1 \notin done /\ taken + 1 \in 1 .. taken + 1 /\ taken + 1 # None
      /\ \A n \in 1 .. taken : n \in 1 .. taken + 1
  BY Numbers DEF Layers, Places, None
<1>6. up \notin {"sending", "storing"} => xfer' = xfer
  BY <1>1 DEF Written, Transferring
<1>7. Places'
  <2>1. \A u \in Tasks : third'[u] \in Filling => u = t
    BY <1>3
  <2>2. \A u \in Tasks : third'[u] \in Half => u = t
    BY <2>1 DEF Filling
  <2>3. \A u \in Tasks : third'[u] # "fill1"
    BY <1>3, <1>4 DEF Filling
  <2>4. up \in {"resending", "resent"} => card # <<>> /\ xfer' = Head(card)
    BY <1>6 DEF Layers, Places
  <2>5. \A s \in done : s \in 1 .. taken'
    BY <1>1, <1>5 DEF Layers, Places
  <2> QED
    BY <1>1, <1>4, <1>5, <2>1, <2>2, <2>3, <2>4, <2>5 DEF Places
<1>8. Flow /\ Wire' /\ Out' = Out
  BY <1>1, Cuts, CutFlows DEF Layers, Out
<1>20. Fate'
  <2>1. \A s \in done : Safe(s)'
    BY <1>1, <1>8, WipedSafe DEF Layers
  <2>2. up' \in {"sent", "resent"} /\ Good(xfer') => xfer'.h1 \in Out' \cup conn'.dropped
    BY <1>1, <1>6, <1>8 DEF Layers, Fate
  <2>3. \A u \in Tasks : third'[u] \notin {"ready", "index"}
    BY <1>3, <1>4 DEF Filling, Half
  <2> QED
    BY <1>1, <2>1, <2>2, <2>3 DEF Fate, Good, Whole
<1>9. ~Clean'
  BY <1>4 DEF Clean, Half
<1>10. OneSample'
  <2>1. Transferring' => xfer'.races # {}
    BY <1>1 DEF Transferring, Written, TypeOK, Records
  <2>2. \A u \in Tasks : third'[u] = "fill2" => u = t
    BY <1>3 DEF Filling, Half
  <2>3. \A u \in Tasks : third'[u] \notin {"ready", "index"}
    BY <1>3, <1>4 DEF Filling, Half
  <2> QED
    BY <1>2, <1>4, <1>9, <2>1, <2>2, <2>3 DEF OneSample
<1>11. Order'
  <2>1. \A n \in Nat : n <= taken => n <= taken + 1
    BY Numbers
  <2>2. Upto(Out, card, taken + 1) /\ upload_buffer.h1 <= taken
    <3>1. Upto(Out, card, taken) /\ upload_buffer.h1 <= taken
      BY DEF Layers, Order
    <3>2. \A d \in Out : d \in Nat
      BY Numbers
    <3>3. \A i \in DOMAIN card : card[i].h1 \in Nat
      BY Numbers
    <3> QED
      BY <2>1, <3>1, <3>2, <3>3 DEF Upto
  <2>3. Transferring' => Transferring /\ xfer'.h1 = xfer.h1
    BY <1>1 DEF Transferring, Written, TypeOK, Records
  <2>4. Transferring' /\ xfer'.h1 # None
          => Upto(Out', card', xfer'.h1) /\ xfer'.h1 <= taken' /\ xfer'.h1 <= upload_buffer'.h1
    <3>1. Transferring /\ xfer.h1 # None => Upto(Out, card, xfer.h1) /\ xfer.h1 <= taken + 1
      BY <2>1, Numbers DEF Layers, Order
    <3>2. Upto(Out', card', xfer.h1) <=> Upto(Out, card, xfer.h1)
      BY <1>1, <1>8
    <3> QED
      BY <1>1, <1>2, <2>3, <3>1, <3>2
  <2>5. taken + 1 <= taken + 1
    BY Numbers
  <2>6. Upto(Out', card', taken') /\ Upto(Out', card', upload_buffer'.h1)
    BY <1>1, <1>2, <1>8, <2>2
  <2> QED
    BY <1>1, <1>2, <1>8, <2>4, <2>5, <2>6 DEF Layers, Order, Good, Whole
<1> QED
  BY <1>7, <1>8, <1>10, <1>11, <1>20 DEF Layers

(* The second half, of the sample whose first half is there unless the       *)
(* sample of a command has come between.                                     *)
LEMMA Fill2Keeps ==
  ASSUME TypeOK, Layers, NEW t \in Tasks, Fill(t), third[t] = "fill2"
  PROVE  Layers'
<1>1. /\ third' = [third EXCEPT ![t] = "ready"]
      /\ upload_buffer' = [upload_buffer EXCEPT !.h2 = sample[t]]
      /\ lost' = lost \cup Wiped /\ xfer' = Written
      /\ UNCHANGED <<taken, sample, done, up, card, Fileexist, delivered, spoiled, conn>>
  BY DEF Fill, After, cardVars
<1>2. /\ upload_buffer'.h1 = upload_buffer.h1 /\ upload_buffer'.h2 = sample[t]
      /\ upload_buffer'.state = upload_buffer.state
      /\ upload_buffer'.write_index = upload_buffer.write_index
  BY <1>1 DEF TypeOK
<1>3. \A u \in Tasks : u # t => third'[u] = third[u] /\ third[u] \notin Filling
  BY <1>1 DEF TypeOK, Layers, Places, Filling, Half
<1>4. third'[t] = "ready"
  BY <1>1 DEF TypeOK
<1>5. \A u \in Tasks : third'[u] \in Filling => u = t
  BY <1>3
<1>6. \A u \in Tasks : third'[u] \in Half => u = t
  BY <1>5 DEF Filling
<1>7. up \notin {"sending", "storing"} => xfer' = xfer
  BY <1>1 DEF Written, Transferring
<1>8. Places'
  <2>1. \A u \in Tasks : third'[u] # "fill1"
    BY <1>3, <1>4 DEF Filling
  <2>2. sample[t] \notin done /\ sample[t] \in 1 .. taken
    BY DEF Layers, Places, Half
  <2>3. \A s \in done : s \in 1 .. taken
    BY DEF Layers, Places
  <2>4. up \in {"resending", "resent"} => card # <<>> /\ xfer' = Head(card)
    BY <1>7 DEF Layers, Places
  <2> QED
    BY <1>1, <1>5, <1>6, <2>1, <2>2, <2>3, <2>4 DEF Places
<1>20. Flow /\ Wire' /\ Out' = Out
  BY <1>1, Cuts, CutFlows DEF Layers, Out
<1>9. Fate'
  <2>1. \A s \in done : Safe(s)'
    BY <1>1, <1>20, WipedSafe DEF Layers
  <2>2. up' \in {"sent", "resent"} /\ Good(xfer') => xfer'.h1 \in Out' \cup conn'.dropped
    BY <1>1, <1>7, <1>20 DEF Layers, Fate
  <2>3. \A u \in Tasks : third'[u] \in {"ready", "index"} => u = t
    BY <1>6 DEF Half
  <2> QED
    BY <1>1, <1>2, <2>1, <2>2, <2>3 DEF Fate, Good, Whole
<1>10. OneSample'
  <2>1. Transferring' => xfer'.races # {}
    BY <1>1 DEF Transferring, Written, TypeOK, Records
  <2>2. ~Clean'
    BY <1>4 DEF Clean, Half
  <2>3. \A u \in Tasks : third'[u] # "fill2"
    BY <1>3, <1>4 DEF Filling, Half
  <2>4. \A u \in Tasks : third'[u] \in {"ready", "index"} => u = t
    BY <1>6 DEF Half
  <2>5. spoiled' = {} => upload_buffer'.h1 = upload_buffer'.h2
    BY <1>1, <1>2 DEF Layers, OneSample
  <2> QED
    BY <2>1, <2>2, <2>3, <2>4, <2>5 DEF OneSample
<1>11. Order'
  <2>1. Transferring' => Transferring /\ xfer'.h1 = xfer.h1
    BY <1>1 DEF Transferring, Written, TypeOK, Records
  <2> QED
    BY <1>1, <1>2, <1>20, <2>1 DEF Layers, Order, Upto, Good, Whole
<1> QED
  BY <1>8, <1>9, <1>10, <1>11, <1>20 DEF Layers

LEMMA ReadyKeeps ==
  ASSUME TypeOK, Layers, NEW t \in Tasks, Fill(t), third[t] = "ready"
  PROVE  Layers'
<1>1. /\ third' = [third EXCEPT ![t] = "index"]
      /\ upload_buffer' = [upload_buffer EXCEPT !.state = "CAN_READ"]
      /\ UNCHANGED <<taken, sample, done, up, card, Fileexist, delivered, spoiled, lost, xfer,
                     conn>>
  BY DEF Fill, After, cardVars
<1>2. /\ upload_buffer'.h1 = upload_buffer.h1 /\ upload_buffer'.h2 = upload_buffer.h2
      /\ upload_buffer'.state = "CAN_READ"
      /\ upload_buffer'.write_index = upload_buffer.write_index
  BY <1>1 DEF TypeOK
<1>3. \A u \in Tasks : u # t => third'[u] = third[u] /\ third[u] \notin Filling
  BY <1>1 DEF TypeOK, Layers, Places, Filling, Half
<1>4. third'[t] = "index"
  BY <1>1 DEF TypeOK
<1>5. \A u \in Tasks : third'[u] \in Filling => u = t
  BY <1>3
<1>6. \A u \in Tasks : third'[u] \in Half => u = t
  BY <1>5 DEF Filling
<1>7. Places'
  <2>1. \A u \in Tasks : third'[u] # "fill1"
    BY <1>3, <1>4 DEF Filling
  <2>2. sample[t] \notin done /\ sample[t] \in 1 .. taken
    BY DEF Layers, Places, Half
  <2> QED
    BY <1>1, <1>5, <1>6, <2>1, <2>2 DEF Layers, Places
<1>8. Fate'
  <2>1. \A u \in Tasks : third'[u] \in {"ready", "index"} => u = t
    BY <1>6 DEF Half
  <2>2. \A s : Safe(s)' <=> Safe(s)
    BY <1>1 DEF Safe, Out, Whole
  <2> QED
    BY <1>1, <1>2, <2>1, <2>2 DEF Layers, Fate, Out, Good, Whole
<1>9. OneSample'
  <2>1. ~Clean'
    BY <1>4 DEF Clean, Half
  <2>2. \A u \in Tasks : third'[u] # "fill2"
    BY <1>3, <1>4 DEF Filling, Half
  <2>3. spoiled' = {} => upload_buffer'.h1 = upload_buffer'.h2
    BY <1>1, <1>2 DEF Layers, OneSample
  <2>4. Transferring' <=> Transferring
    BY <1>1 DEF Transferring
  <2> QED
    BY <1>1, <1>2, <2>1, <2>2, <2>3, <2>4 DEF Layers, OneSample
<1>10. Order' /\ Wire'
  <2>1. Transferring' <=> Transferring
    BY <1>1 DEF Transferring
  <2>2. Out' = Out
    BY <1>1 DEF Out
  <2> QED
    BY <1>1, <1>2, <2>1, <2>2 DEF Layers, Order, Upto, Wire, Good, Whole
<1> QED
  BY <1>7, <1>8, <1>9, <1>10 DEF Layers

LEMMA IndexKeeps ==
  ASSUME TypeOK, Layers, NEW t \in Tasks, Fill(t), third[t] = "index"
  PROVE  Layers'
<1>1. /\ third' = [third EXCEPT ![t] = "link"]
      /\ upload_buffer' = [upload_buffer EXCEPT !.write_index = 1]
      /\ done' = done \cup {sample[t]} /\ lost' = lost \cup ({sample[t]} \ Pending)
      /\ UNCHANGED <<taken, sample, up, card, Fileexist, delivered, spoiled, xfer, conn>>
  BY DEF Fill, After, cardVars
<1>2. /\ upload_buffer'.h1 = upload_buffer.h1 /\ upload_buffer'.h2 = upload_buffer.h2
      /\ upload_buffer'.state = upload_buffer.state /\ upload_buffer'.write_index = 1
  BY <1>1 DEF TypeOK
<1>3. \A u \in Tasks : third'[u] \notin Filling
  BY <1>1 DEF TypeOK, Layers, Places, Filling, Half
<1>4. \A u \in Tasks : third'[u] \notin Half /\ third'[u] # "fill1"
  BY <1>3 DEF Filling
<1>5. Places'
  <2>1. sample[t] \in 1 .. taken
    BY DEF Layers, Places, Half
  <2> QED
    BY <1>1, <1>3, <1>4, <2>1 DEF Layers, Places
<1>6. Fate'
  <2>1. \A u \in Tasks : third'[u] \notin {"ready", "index"}
    BY <1>4 DEF Half
  <2>2. \A s : Safe(s) => Safe(s)'
    BY <1>1 DEF Safe, Out, Whole
  <2>3. sample[t] \in Pending
          => upload_buffer.state = "CAN_READ" /\ upload_buffer.h2 = sample[t]
    BY DEF Layers, Fate, Pending
  <2>4. sample[t] \notin Pending => Safe(sample[t])'
    BY <1>1 DEF Safe
  <2>5. \A s \in done' : Safe(s)' \/ (upload_buffer'.state = "CAN_READ" /\ upload_buffer'.h2 = s)
    BY <1>1, <1>2, <2>2, <2>3, <2>4 DEF Layers, Fate
  <2> QED
    BY <1>1, <2>1, <2>5 DEF Layers, Fate, Out, Good, Whole
<1>7. OneSample'
  <2>1. \A u \in Tasks : third'[u] \notin {"fill2", "ready", "index"}
    BY <1>4 DEF Half
  <2>2. spoiled' = {} => upload_buffer'.h1 = upload_buffer'.h2
    BY <1>1, <1>2 DEF Layers, OneSample
  <2>3. Transferring' <=> Transferring
    BY <1>1 DEF Transferring
  <2> QED
    BY <1>1, <1>2, <2>1, <2>2, <2>3 DEF Layers, OneSample, Clean
<1>8. Order' /\ Wire'
  <2>1. Transferring' <=> Transferring
    BY <1>1 DEF Transferring
  <2>2. Out' = Out
    BY <1>1 DEF Out
  <2> QED
    BY <1>1, <1>2, <2>1, <2>2 DEF Layers, Order, Upto, Wire, Good, Whole
<1> QED
  BY <1>5, <1>6, <1>7, <1>8 DEF Layers

LEMMA RebootKeeps ==
  ASSUME TypeOK, Layers, Reboot
  PROVE  Layers'
<1>1. /\ up' = "top" /\ xfer' = Stored(None) /\ upload_buffer' = NoRecord
      /\ lost' = lost \cup Wiped /\ spoiled' = {}
      /\ UNCHANGED <<taken, done, card, Fileexist, delivered>>
  BY DEF Reboot, cardVars
<1>2. \A u \in Tasks : third'[u] \notin Filling /\ third'[u] \notin Half
  BY DEF Reboot, OneTask, Filling, Half
<1>3. /\ upload_buffer'.h1 = None /\ upload_buffer'.h2 = None
      /\ upload_buffer'.state = "CAN_WRITE"
  BY <1>1 DEF NoRecord
<1>4. Places'
  BY <1>1, <1>2 DEF Layers, Places, Filling
<1>20. Flow /\ Wire'
  <2>1. Cut
    BY Cuts DEF Reboot
  <2> QED
    BY <1>1, <2>1, CutFlows DEF Layers
<1>5. Fate'
  <2>1. \A s \in done : Safe(s)'
    BY <1>1, <1>20, WipedSafe DEF Layers
  <2>2. \A u \in Tasks : third'[u] \notin {"ready", "index"}
    BY <1>2 DEF Half
  <2> QED
    BY <1>1, <2>1, <2>2 DEF Fate
<1>6. ~Transferring'
  BY <1>1 DEF Transferring
<1>7. OneSample'
  BY <1>1, <1>2, <1>3, <1>6 DEF OneSample, Half
<1>8. Order'
  <2>1. None <= taken
    BY Numbers DEF None
  <2>2. Upto(Out', card', taken')
    BY <1>1, <1>20, UptoKeeps DEF Layers, Order, Flow
  <2>3. \A d \in Out' : d \in Out
    BY <1>20 DEF Flow
  <2> QED
    BY <1>1, <1>3, <1>6, <2>1, <2>2, <2>3 DEF Layers, Order, Good, Whole
<1> QED
  BY <1>4, <1>5, <1>7, <1>8, <1>20 DEF Layers

LEMMA PollingKeeps ==
  ASSUME TypeOK, Layers, NEW t \in Tasks, ThirdTask(t)
  PROVE  Layers'
<1>1. CASE Start(t) \/ Due(t) \/ Waits(t)
  BY <1>1, QuietPolling, QuietKeeps DEF Layers
<1>2. CASE Answer(t)
  BY <1>2, QuietPolling, QuietKeeps, AnswerKeeps DEF Layers
<1>3. CASE Fill(t)
  <2>1. third[t] \in {"fill1", "fill2", "ready", "index", "link"}
    BY <1>3 DEF Fill, Busy
  <2> QED
    BY <1>3, <2>1, Fill1Keeps, Fill2Keeps, ReadyKeeps, IndexKeeps, QuietPolling,
       QuietKeeps DEF Layers
<1>4. CASE BusRestarts(t)
  BY <1>4, RebootKeeps DEF BusRestarts
<1> QED
  BY <1>1, <1>2, <1>3, <1>4 DEF ThirdTask

-----------------------------------------------------------------------------
(***************************************************************************)
(* The steps of the upload task.                                           *)
(***************************************************************************)
LEMMA KillKeeps ==
  ASSUME TypeOK, Layers, Kill
  PROVE  Layers'
<1>0. Flow /\ Wire'
  BY Cuts, CutFlows DEF Kill, netVars, Layers
<1>1. CASE ~\E t \in Tasks : Alive(t)
  <2>1. Quiet
    BY <1>0, <1>1 DEF Kill, Quiet, SameBuffer, bufVars, cardVars
  <2> QED
    BY <1>0, <2>1, QuietKeeps
<1>2. CASE \E t \in Tasks : Alive(t)
  <2>1. PICK t \in Tasks : /\ third' = [third EXCEPT ![t] = "none"]
                           /\ spoiled' = spoiled \cup
                                (IF third[t] \in {"fill2", "ready", "index"}
                                 THEN {"torn"} ELSE {})
    BY <1>2 DEF Kill
  <2>2. /\ UNCHANGED <<upload_buffer, card, Fileexist, sample, taken, done, delivered, lost, xfer,
                      conn>>
        /\ up' = up
    BY DEF Kill, bufVars, cardVars, netVars
  <2>3. third'[t] = "none" /\ \A u \in Tasks : u # t => third'[u] = third[u]
    BY <2>1 DEF TypeOK
  <2>4. CASE third[t] \notin Half
    <3>1. Quiet
      BY <1>0, <2>1, <2>2, <2>3, <2>4 DEF Quiet, SameBuffer, Half, Filling, TypeOK
    <3> QED
      BY <1>0, <3>1, QuietKeeps
  <2>5. CASE third[t] \in Half
    <3>1. spoiled' # {}
      BY <2>1, <2>5 DEF Half
    <3>2. \A u \in Tasks : third'[u] \notin Filling /\ third'[u] \notin Half
      BY <2>3, <2>5 DEF Layers, Places, Filling, Half
    <3>3. Places'
      BY <2>2, <3>2 DEF Layers, Places, Filling
    <3>4. Fate'
      BY <2>2, <3>2 DEF Layers, Fate, Safe, Out, Good, Whole, Half
    <3>5. OneSample'
      BY <2>2, <3>1 DEF Layers, OneSample, Clean, Transferring
    <3>6. Order' /\ Wire'
      BY <2>2 DEF Layers, Order, Upto, Out, Transferring, Wire, Good, Whole
    <3> QED
      BY <3>3, <3>4, <3>5, <3>6 DEF Layers
  <2> QED
    BY <2>4, <2>5
<1> QED
  BY <1>1, <1>2

(* The message with the version writes over the first half of the buffer, and *)
(* of a record that is on its way if these bytes have not been taken.        *)
LEMMA VersionKeeps ==
  ASSUME TypeOK, Layers, SendVersion
  PROVE  Layers'
<1>0. UNCHANGED <<conn, card, Fileexist, third, sample, taken, done, delivered, up>>
  BY DEF SendVersion, netVars, cardVars, thirdVars
<1>1. Flow /\ Wire' /\ Out' = Out
  BY <1>0, Cuts, CutFlows DEF Layers, Out
<1>2. CASE eth_st # "CON"
  <2>1. Quiet
    BY <1>0, <1>1, <1>2 DEF SendVersion, Quiet, SameBuffer
  <2> QED
    BY <1>1, <2>1, QuietKeeps
<1>3. CASE eth_st = "CON"
  <2>1. /\ upload_buffer'.h1 = None /\ upload_buffer'.h2 = upload_buffer.h2
        /\ upload_buffer'.state = upload_buffer.state /\ spoiled' # {}
    BY <1>3 DEF SendVersion, WriteOver, TypeOK
  <2>2. \/ xfer' = xfer
        \/ Transferring /\ xfer'.h1 = None /\ xfer'.races # {}
    <3> DEFINE w == [WriteOver(xfer) EXCEPT !.races = @ \cup {"version"}]
    <3>1. xfer' = xfer \/ (Transferring /\ xfer' = w)
      BY <1>3 DEF SendVersion
    <3>2. w.h1 = None /\ w.races # {}
      BY DEF WriteOver, TypeOK, Records
    <3> QED
      BY <3>1, <3>2
  <2>3. lost \subseteq lost'
    BY <1>3 DEF SendVersion
  <2>4. Transferring' <=> Transferring
    BY <1>0 DEF Transferring
  <2>5. Places'
    <3>1. up \in {"resending", "resent"} => xfer' = xfer
      BY <2>2 DEF Transferring
    <3> QED
      BY <1>0, <3>1 DEF Layers, Places
  <2>6. Fate'
    <3>1. \A s \in done : s # None
      BY DEF Layers, Places, None
    <3>2. \A s : s # None /\ Safe(s) => Safe(s)'
      BY <1>0, <1>1, <2>3, SafeKeeps
    <3>3. up \in {"sent", "resent"} => xfer' = xfer
      BY <2>2 DEF Transferring
    <3>4. \A t \in Tasks : third[t] \in {"ready", "index"} => sample[t] # None
      BY DEF Layers, Places, Half, None
    <3> QED
      BY <1>0, <1>1, <2>1, <3>1, <3>2, <3>3, <3>4 DEF Layers, Fate, Good, Whole
  <2>7. OneSample'
    <3>1. ~Clean'
      BY <2>1 DEF Clean
    <3>2. Transferring' /\ xfer'.races = {}
            => xfer'.type = "data" /\ xfer'.len = 1 /\ xfer'.h1 = upload_buffer'.h2
      BY <2>1, <2>2, <2>4 DEF Layers, OneSample
    <3> QED
      BY <2>1, <3>1, <3>2 DEF OneSample
  <2>8. Order'
    <3>1. None <= taken
      BY Numbers DEF None
    <3>2. xfer'.h1 # None => xfer' = xfer
      BY <2>2
    <3> QED
      BY <1>0, <1>1, <2>1, <2>4, <3>1, <3>2 DEF Layers, Order, Upto, Good, Whole
  <2> QED
    BY <1>1, <2>5, <2>6, <2>7, <2>8 DEF Layers
<1> QED
  BY <1>2, <1>3

(* The sample of a command is newer than every other, and what it writes     *)
(* over is lost; a task half way through its record spoils it.               *)
LEMMA SampleKeeps ==
  ASSUME TypeOK, Layers, TakeSample
  PROVE  Layers'
<1>1. /\ up = "command" /\ up' = up /\ taken' = taken + 1
      /\ upload_buffer' = [upload_buffer EXCEPT !.h1 = taken + 1, !.h2 = taken + 1,
                             !.state = "CAN_READ", !.write_index = 1]
      /\ done' = done \cup {taken + 1} /\ lost' = lost \cup Wiped
      /\ spoiled' = IF \E t \in Tasks : third[t] = "fill2" THEN {"torn"} ELSE {}
      /\ UNCHANGED <<card, Fileexist, third, sample, xfer, delivered>>
  BY DEF TakeSample, Step, cardVars
<1>2. /\ upload_buffer'.h1 = taken + 1 /\ upload_buffer'.h2 = taken + 1
      /\ upload_buffer'.state = "CAN_READ" /\ upload_buffer'.write_index = 1
  BY <1>1 DEF TypeOK
<1>3. taken + 1 \in 1 .. taken + 1 /\ taken + 1 # None
      /\ \A n \in 1 .. taken : n \in 1 .. taken + 1 /\ n # taken + 1
  BY Numbers DEF None
<1>4. ~Transferring'
  BY <1>1 DEF Transferring
<1>5. Places'
  <2>1. ASSUME NEW u \in Tasks, third[u] = "fill1"
        PROVE  taken + 1 < MaxSamples
    <3>1. taken + (IF \E t \in Tasks : third[t] = "fill1" THEN 1 ELSE 0) < MaxSamples
      BY DEF TakeSample, SamplesLeft
    <3> QED
      BY <2>1, <3>1
  <2>2. \A u \in Tasks : third[u] \in Half =>
          sample[u] \notin done' /\ sample[u] \in 1 .. taken'
    BY <1>1, <1>3 DEF Layers, Places
  <2>3. \A s \in done' : s \in 1 .. taken'
    BY <1>1, <1>3 DEF Layers, Places
  <2> QED
    BY <1>1, <2>1, <2>2, <2>3 DEF Layers, Places
<1>20. Flow /\ Wire'
  <2>1. Cut
    BY Cuts DEF TakeSample
  <2> QED
    BY <1>1, <2>1, CutFlows DEF Layers
<1>6. Fate'
  <2>1. \A s \in done : Safe(s)'
    BY <1>1, <1>20, WipedSafe DEF Layers
  <2>2. up' \notin {"sent", "resent"}
    BY <1>1
  <2> QED
    BY <1>1, <1>2, <2>1, <2>2 DEF Fate
<1>7. OneSample'
  <2>1. \A u \in Tasks : third'[u] = "fill2" => spoiled' # {}
    BY <1>1
  <2> QED
    BY <1>2, <1>4, <2>1 DEF OneSample
<1>8. Order'
  <2>1. Upto(Out, card, taken + 1)
    <3>1. Upto(Out, card, taken)
      BY DEF Layers, Order
    <3>2. \A n \in Nat : n <= taken => n <= taken + 1
      BY Numbers
    <3>3. \A d \in Out : d \in Nat
      BY Numbers
    <3>4. \A i \in DOMAIN card : card[i].h1 \in Nat
      BY Numbers
    <3> QED
      BY <3>1, <3>2, <3>3, <3>4 DEF Upto
  <2>2. Upto(Out', card', taken + 1)
    BY <1>1, <1>20, <2>1, UptoKeeps DEF Flow
  <2>3. taken + 1 <= taken + 1
    BY Numbers
  <2>4. \A d \in Out' : d \in Out
    BY <1>20 DEF Flow
  <2> QED
    BY <1>1, <1>2, <1>4, <2>2, <2>3, <2>4 DEF Layers, Order, Good, Whole
<1> QED
  BY <1>5, <1>6, <1>7, <1>8, <1>20 DEF Layers

(* Freeing the buffer when what it held has been counted.                    *)
LEMMA FreeKeeps ==
  ASSUME TypeOK, Layers, FreeBuffer, up' = "resume",
         UNCHANGED <<third, sample, taken, done, spoiled>>
  PROVE  Places' /\ OneSample' /\ ~Transferring'
         /\ upload_buffer'.h1 = upload_buffer.h1 /\ upload_buffer'.h2 = upload_buffer.h2
<1>1. /\ upload_buffer'.h1 = upload_buffer.h1 /\ upload_buffer'.h2 = upload_buffer.h2
      /\ upload_buffer'.state = "CAN_WRITE"
  BY DEF FreeBuffer, TypeOK
<1>2. ~Transferring'
  BY DEF Transferring
<1>3. Places'
  BY DEF Layers, Places
<1>4. OneSample'
  BY <1>1, <1>2 DEF Layers, OneSample, Clean
<1> QED
  BY <1>1, <1>2, <1>3, <1>4

(* The two ways of freeing it that leave the card alone: the first package of *)
(* a connection, and a direct send that has returned.                        *)
LEMMA DropKeeps ==
  ASSUME TypeOK, Layers, FreeBuffer, up' = "resume", Cut, lost' = lost \cup Wiped,
         UNCHANGED <<third, sample, taken, done, spoiled, card, Fileexist, delivered>>
  PROVE  Layers'
<1>1. Flow /\ Wire'
  BY CutFlows DEF Layers
<1>2. Fate'
  <2>1. \A s \in done : Safe(s)'
    BY <1>1, WipedSafe DEF Layers
  <2>2. \A t \in Tasks : third[t] \in {"ready", "index"} /\ upload_buffer.h1 = sample[t]
                           => upload_buffer.h2 = sample[t]
    BY DEF Layers, Fate
  <2> QED
    BY <2>1, <2>2, FreeKeeps DEF Fate
<1>3. Order'
  <2>1. \A n : Upto(Out, card, n) => Upto(Out', card', n)
    BY <1>1, UptoKeeps DEF Flow
  <2>2. \A d \in Out' : d \in Out
    BY <1>1 DEF Flow
  <2> QED
    BY <2>1, <2>2, FreeKeeps DEF Layers, Order, Good, Whole
<1> QED
  BY <1>1, <1>2, <1>3, FreeKeeps DEF Layers

LEMMA SwitchKeeps ==
  ASSUME TypeOK, Layers, Switch
  PROVE  Layers'
<1>1. UNCHANGED <<card, third, sample, taken, done, delivered, spoiled>> /\ up = "switch"
  BY DEF Switch, thirdVars
<1>0. Cut
  BY Cuts DEF Switch
<1>20. Flow /\ Wire'
  BY <1>0, <1>1, CutFlows DEF Layers
<1>2. CASE ~(idle /\ upload_buffer.state = "CAN_READ")
  <2>1. Quiet
    BY <1>1, <1>2, <1>20 DEF Switch, Quiet, SameBuffer
  <2> QED
    BY <1>20, <2>1, QuietKeeps
<1>3. CASE /\ idle /\ upload_buffer.state = "CAN_READ" /\ up' = "resume" /\ FreeBuffer
           /\ lost' = lost \cup Wiped /\ Fileexist' = Fileexist
  BY <1>0, <1>1, <1>3, DropKeeps
<1>4. CASE /\ upload_buffer.state = "CAN_READ" /\ xfer' = Record /\ lost' = lost
           /\ upload_buffer' = upload_buffer
           /\ \/ up' = "sending" /\ ~Fileexist /\ Fileexist' = Fileexist
              \/ up' = "storing" /\ Fileexist' = TRUE
  <2>1. Places'
    BY <1>1, <1>4 DEF Layers, Places
  <2>2. Fate'
    <3>1. \A s : s # None /\ Safe(s) => Safe(s)'
      BY <1>1, <1>4, <1>20, SafeKeeps
    <3>2. \A s \in done : s # None
      BY DEF Layers, Places, None
    <3>3. up' \notin {"sent", "resent"}
      BY <1>4
    <3> QED
      BY <1>1, <1>4, <3>1, <3>2, <3>3 DEF Layers, Fate
  <2>3. xfer'.h1 = upload_buffer.h1 /\ xfer'.type = upload_buffer.type /\ xfer'.races = Races
        /\ xfer'.len = upload_buffer.write_index
    BY <1>4 DEF Record
  <2>4. ASSUME Races = {}
        PROVE  Clean /\ upload_buffer.type = "data"
    <3>1. spoiled = {} /\ upload_buffer.type # "version" /\ (\A t \in Tasks : third[t] # "index")
      BY <2>4 DEF Races
    <3>2. \A t \in Tasks : third[t] \in {"fill2", "ready"} => sample[t] \in done
      BY <2>4 DEF Races
    <3>3. \A t \in Tasks : third[t] \notin {"fill2", "ready"}
      BY <3>2 DEF Layers, Places, Half
    <3> QED
      BY <3>1, <3>3 DEF Clean, Half, TypeOK
  <2>5. OneSample'
    <3>1. xfer'.races = {} =>
            xfer'.type = "data" /\ xfer'.len = 1 /\ xfer'.h1 = upload_buffer'.h2
      BY <1>4, <2>3, <2>4 DEF Layers, OneSample
    <3> QED
      BY <1>1, <1>4, <3>1 DEF Layers, OneSample, Clean
  <2>6. Order'
    <3>1. \A n : Upto(Out, card, n) => Upto(Out', card', n)
      BY <1>1, <1>20, UptoKeeps DEF Flow
    <3>2. upload_buffer.h1 <= upload_buffer.h1
      BY Numbers
    <3>3. card # <<>> => Fileexist'
      BY <1>4 DEF Layers, Order
    <3>4. \A d \in Out' : d \in Out
      BY <1>20 DEF Flow
    <3>5. (up' = "sending" => ~Fileexist') /\ (up' = "storing" => Fileexist')
      BY <1>4
    <3> QED
      BY <1>1, <1>4, <2>3, <3>1, <3>2, <3>3, <3>4, <3>5 DEF Layers, Order, Good, Whole
  <2> QED
    BY <1>20, <2>1, <2>2, <2>5, <2>6 DEF Layers
<1> QED
  BY <1>2, <1>3, <1>4 DEF Switch, Direct

(* The head of the card.                                                     *)
LEMMA HeadOfCard ==
  ASSUME TypeOK, Places, up \in {"resending", "resent"}
  PROVE  card # <<>> /\ xfer = card[1] /\ 1 \in DOMAIN card /\ \A i \in DOMAIN card : 1 <= i
<1>1. card # <<>> /\ xfer = Head(card)
  BY DEF Places
<1> DEFINE R == Records
<1>2. card \in Seq(R)
  BY DEF TypeOK
<1> HIDE DEF R
<1>3. DOMAIN card = 1 .. Len(card) /\ Len(card) \in Nat
  BY <1>2
<1> QED
  BY <1>1, <1>3, CardTypes

(* A record that send() takes goes behind those that wait: a sample of the    *)
(* buffer when nothing is stored, or the oldest of the card.                 *)
LEMMA AcceptKeeps ==
  ASSUME TypeOK, Layers, Accept
  PROVE  Layers'
<1> DEFINE tx == conn.tx  s == IF Whole(Final) THEN Final.h1 ELSE None
<1>1. /\ up \in {"sending", "resending"} /\ up' \in {"sent", "resent"} /\ xfer' = Final
      /\ (up = "resending" <=> up' = "resent")
      /\ UNCHANGED <<upload_buffer, card, Fileexist, third, sample, taken, done, delivered, lost,
                     spoiled>>
  BY DEF Accept, bufVars, cardVars, thirdVars, fateVars
<1>2. conn'.tx = Append(tx, s) /\ conn'.dropped = conn.dropped
  BY DEF Accept, TypeOK
<1>3. s \in Nat /\ xfer.h1 \in Nat /\ (s # None => s = xfer.h1 /\ Good(Final))
      /\ (Good(Final) => s = Final.h1)
  BY FinalTypes, Numbers DEF Good
<1>4. /\ \A i \in DOMAIN tx : i \in Nat /\ i \in DOMAIN conn'.tx /\ conn'.tx[i] = tx[i]
                             /\ tx[i] \in ToSet(tx)
      /\ \A i \in DOMAIN conn'.tx : i \in DOMAIN tx \/ (i = Len(tx) + 1 /\ conn'.tx[i] = s)
      /\ \A i \in DOMAIN tx : i < Len(tx) + 1
      /\ ToSet(conn'.tx) = ToSet(tx) \cup {s}
  <2> DEFINE N == Nat
  <2>1. tx \in Seq(N) /\ s \in N
    <3>1. Samples \subseteq N
      BY DEF Samples
    <3>2. tx \in Seq(Samples)
      BY DEF TypeOK
    <3> HIDE DEF N, tx
    <3>3. tx \in Seq(N)
      BY <3>1, <3>2
    <3> QED
      BY <1>3, <3>3 DEF N
  <2> HIDE DEF tx, s, N
  <2>2. /\ DOMAIN tx = 1 .. Len(tx) /\ Len(tx) \in Nat
        /\ DOMAIN Append(tx, s) = 1 .. Len(tx) + 1
        /\ \A i \in 1 .. Len(tx) : Append(tx, s)[i] = tx[i]
        /\ Append(tx, s)[Len(tx) + 1] = s
    BY <2>1
  <2>3. \A i \in DOMAIN tx : i \in Nat /\ i \in DOMAIN conn'.tx /\ conn'.tx[i] = tx[i]
                             /\ i < Len(tx) + 1
    BY <1>2, <2>2
  <2>4. \A i \in DOMAIN conn'.tx : i \in DOMAIN tx \/ (i = Len(tx) + 1 /\ conn'.tx[i] = s)
    BY <1>2, <2>2
  <2>5. Len(tx) + 1 \in DOMAIN conn'.tx /\ conn'.tx[Len(tx) + 1] = s
    BY <1>2, <2>2
  <2>6. \A i \in DOMAIN tx : tx[i] \in ToSet(tx)
    BY DEF ToSet
  <2>7. ToSet(conn'.tx) = ToSet(tx) \cup {s}
    BY <2>3, <2>4, <2>5 DEF ToSet
  <2> QED
    BY <2>3, <2>4, <2>6, <2>7
<1>5. Out' = Out \cup {s} /\ ToSet(tx) \subseteq Out
  BY <1>1, <1>4 DEF Out
<1>6. s # None => /\ \A d \in Out : d <= s
                  /\ s <= taken /\ (upload_buffer.h1 # None => s <= upload_buffer.h1)
                  /\ \A i \in DOMAIN card : Good(card[i]) => s <= card[i].h1
  <2>1. CASE up = "sending"
    <3>1. Transferring
      BY <2>1 DEF Transferring
    <3>2. DOMAIN card = {}
      <4>1. card = <<>>
        BY <2>1 DEF Layers, Order
      <4>2. DOMAIN <<>> = {}
        OBVIOUS
      <4> QED
        BY <4>1, <4>2
    <3> QED
      BY <1>3, <3>1, <3>2 DEF Layers, Order, Upto
  <2>2. CASE up = "resending"
    <3>1. Final = xfer /\ xfer = card[1] /\ 1 \in DOMAIN card /\ \A i \in DOMAIN card : 1 <= i
      BY <2>2, FinalTypes, HeadOfCard DEF Layers, Transferring
    <3>2. s # None => Good(card[1]) /\ s = card[1].h1
      BY <1>3, <3>1
    <3> QED
      BY <3>1, <3>2 DEF Layers, Order, Upto
  <2> QED
    BY <1>1, <2>1, <2>2
<1>7. ~Transferring'
  BY <1>1 DEF Transferring
<1>8. Places'
  <2>1. up = "resending" => xfer' = xfer
    BY <1>1, FinalTypes DEF Transferring
  <2> QED
    BY <1>1, <2>1 DEF Layers, Places
<1>9. Fate'
  <2>1. \A x : Safe(x) => Safe(x)'
    BY <1>1, <1>2, <1>5 DEF Safe, Whole
  <2>2. Good(xfer') => xfer'.h1 \in Out'
    BY <1>1, <1>3, <1>5
  <2> QED
    BY <1>1, <2>1, <2>2 DEF Layers, Fate, Good, Whole
<1>10. OneSample'
  BY <1>1, <1>7 DEF Layers, OneSample, Clean
<1>11. Order'
  <2>1. \A n \in Nat : Upto(Out, card, n) /\ (s # None => s <= n) => Upto(Out', card', n)
    BY <1>1, <1>3, <1>5 DEF Upto, None
  <2>2. taken \in Nat /\ upload_buffer.h1 \in Nat
    BY Numbers
  <2>3. \A i \in DOMAIN card : card[i].h1 \in Nat /\ None <= card[i].h1
    BY Numbers DEF None
  <2>4. \A d \in Out' : \A i \in DOMAIN card : Good(card[i]) => d <= card[i].h1
    BY <1>5, <1>6, <2>3 DEF Layers, Order
  <2>5. /\ Upto(Out', card', taken')
        /\ upload_buffer.h1 # None => Upto(Out', card', upload_buffer.h1)
    BY <1>1, <1>6, <2>1, <2>2 DEF Layers, Order
  <2> QED
    BY <1>1, <1>7, <2>4, <2>5 DEF Layers, Order, Good, Whole
<1>12. Wire'
  <2>1. ASSUME NEW i \in DOMAIN conn'.tx, NEW j \in DOMAIN conn'.tx, i <= j, conn'.tx[j] # None
        PROVE  conn'.tx[i] <= conn'.tx[j]
    <3>1. CASE j \in DOMAIN tx
      <4>1. i \in DOMAIN tx
        BY <1>4, <2>1, <3>1, TxTypes
      <4> QED
        BY <1>4, <2>1, <3>1, <4>1 DEF Layers, Wire
    <3>2. CASE j = Len(tx) + 1 /\ conn'.tx[j] = s
      <4>1. CASE i \in DOMAIN tx
        BY <1>4, <1>5, <1>6, <2>1, <3>2, <4>1
      <4>2. CASE i = Len(tx) + 1 /\ conn'.tx[i] = s
        BY <1>3, <3>2, <4>2
      <4> QED
        BY <1>4, <4>1, <4>2
    <3> QED
      BY <1>4, <3>1, <3>2
  <2>2. ASSUME NEW d \in delivered', NEW i \in DOMAIN conn'.tx, conn'.tx[i] # None
        PROVE  d <= conn'.tx[i]
    <3>1. d \in delivered /\ d \in Out
      BY <1>1 DEF Out
    <3>2. CASE i \in DOMAIN tx
      BY <1>4, <2>2, <3>1, <3>2 DEF Layers, Wire
    <3>3. CASE conn'.tx[i] = s
      BY <1>6, <2>2, <3>1, <3>3
    <3> QED
      BY <1>4, <3>2, <3>3
  <2> QED
    BY <2>1, <2>2 DEF Wire
<1> QED
  BY <1>8, <1>9, <1>10, <1>11, <1>12 DEF Layers

(* A direct send returns: what the buffer held is on its way or counted.     *)
LEMMA SentKeeps ==
  ASSUME TypeOK, Layers, NEW ok \in BOOLEAN, Sent(ok)
  PROVE  Layers'
<1>1. Cut
  BY Cuts DEF Sent
<1> QED
  BY <1>1, DropKeeps DEF Sent, cardVars, thirdVars

(* A record stored goes behind the others, which are older.                  *)
LEMMA StoreKeeps ==
  ASSUME TypeOK, Layers, Store
  PROVE  Layers'
<1>1. /\ up = "storing" /\ up' = "resume" /\ FreeBuffer /\ card' = Append(card, Final)
      /\ lost' = lost \cup (Wiped \ Kept) /\ Transferring
      /\ UNCHANGED <<third, sample, taken, done, spoiled, delivered, Fileexist, conn>>
  BY DEF Store, thirdVars, netVars, Transferring
<1>2. /\ Len(card) \in Nat /\ DOMAIN card = 1 .. Len(card) /\ DOMAIN card' = 1 .. Len(card) + 1
      /\ \A i \in DOMAIN card : i \in DOMAIN card' /\ card'[i] = card[i]
      /\ card'[Len(card) + 1] = Final /\ Len(card) + 1 \in DOMAIN card'
      /\ \A i \in DOMAIN card' : i \in DOMAIN card \/ i = Len(card) + 1
  <2> DEFINE R == Records  F == Final
  <2>1. card \in Seq(R) /\ F \in R /\ card' = Append(card, F)
    BY <1>1, FinalTypes DEF TypeOK
  <2> HIDE DEF R, F
  <2>2. /\ Len(card) \in Nat /\ DOMAIN card = 1 .. Len(card) /\ DOMAIN card' = 1 .. Len(card) + 1
        /\ \A i \in DOMAIN card : i \in DOMAIN card' /\ card'[i] = card[i]
        /\ card'[Len(card) + 1] = F /\ Len(card) + 1 \in DOMAIN card'
        /\ \A i \in DOMAIN card' : i \in DOMAIN card \/ i = Len(card) + 1
    BY <2>1
  <2> QED
    BY <2>2 DEF F
<1>20. Flow /\ Wire' /\ Out' = Out
  BY <1>1, Cuts, CutFlows DEF Layers, Out
<1>3. Fate'
  <2>1. \A s : s # None /\ Safe(s) => Safe(s)'
    BY <1>1, <1>2, <1>20, SafeKeeps
  <2>2. ASSUME NEW s \in done
        PROVE  Safe(s)'
    <3>0. s # None
      BY DEF Layers, Places, None
    <3>1. CASE Safe(s)
      BY <2>1, <3>0, <3>1
    <3>2. CASE Whole(Final) /\ s = xfer.h1
      <4>1. Whole(card'[Len(card) + 1]) /\ card'[Len(card) + 1].h1 = s
        BY <1>2, <3>2, FinalTypes
      <4> QED
        BY <1>2, <4>1 DEF Safe, Whole
    <3>3. CASE s \in Pending /\ ~(Whole(Final) /\ s = xfer.h1)
      <4>1. s \in Wiped \ Kept
        BY <1>1, <3>3 DEF Wiped, Taken, Kept
      <4> QED
        BY <1>1, <4>1 DEF Safe
    <3> QED
      BY <3>1, <3>2, <3>3 DEF Layers, Fate, Pending
  <2> QED
    BY <1>1, <2>2, FreeKeeps DEF Layers, Fate
<1>4. Order'
  <2>0. /\ Final.h1 = xfer.h1 /\ xfer.h1 \in Nat /\ taken \in Nat /\ upload_buffer.h1 \in Nat
        /\ (Good(Final) => xfer.h1 # None)
    BY FinalTypes, Numbers DEF Good
  <2>1. /\ Upto(Out, card, taken) /\ upload_buffer.h1 <= taken
        /\ upload_buffer.h1 # None => Upto(Out, card, upload_buffer.h1)
        /\ xfer.h1 # None => /\ Upto(Out, card, xfer.h1) /\ xfer.h1 <= taken
                             /\ upload_buffer.h1 # None => xfer.h1 <= upload_buffer.h1
    BY <1>1 DEF Layers, Order
  <2>2. \A n \in Nat : (Good(Final) => xfer.h1 <= n) /\ Upto(Out, card, n) => Upto(Out', card', n)
    BY <1>2, <1>20, <2>0 DEF Upto
  <2>3. /\ Upto(Out', card', taken')
        /\ upload_buffer.h1 # None => Upto(Out', card', upload_buffer.h1)
    BY <1>1, <2>0, <2>1, <2>2
  <2>4. ASSUME NEW i \in DOMAIN card', NEW j \in DOMAIN card', i <= j, Good(card'[i]),
               Good(card'[j])
        PROVE  card'[i].h1 <= card'[j].h1
    <3>1. CASE j \in DOMAIN card
      <4>1. i \in DOMAIN card
        BY <1>2, <2>4, <3>1
      <4> QED
        BY <1>2, <2>4, <3>1, <4>1 DEF Layers, Order
    <3>2. CASE i \in DOMAIN card /\ j = Len(card) + 1
      BY <1>2, <2>0, <2>1, <2>4, <3>2 DEF Upto
    <3>3. CASE i = Len(card) + 1 /\ j = Len(card) + 1
      BY <1>2, <2>0, <3>3
    <3> QED
      BY <1>2, <3>1, <3>2, <3>3
  <2>5. ASSUME NEW d \in Out', NEW i \in DOMAIN card', Good(card'[i])
        PROVE  d <= card'[i].h1
    <3>1. CASE i \in DOMAIN card
      BY <1>2, <1>20, <2>5, <3>1 DEF Layers, Order
    <3>2. CASE i = Len(card) + 1
      BY <1>2, <1>20, <2>0, <2>1, <2>5, <3>2 DEF Upto
    <3> QED
      BY <1>2, <3>1, <3>2
  <2>6. Fileexist'
    <3>1. Fileexist
      BY <1>1 DEF Layers, Order
    <3> QED
      BY <1>1, <3>1
  <2>7. upload_buffer'.h1 = upload_buffer.h1 /\ ~Transferring'
    BY <1>1, FreeKeeps
  <2> QED
    BY <1>1, <2>1, <2>3, <2>4, <2>5, <2>6, <2>7 DEF Order, Good, Whole
<1> QED
  BY <1>1, <1>3, <1>4, <1>20, FreeKeeps DEF Layers

LEMMA ResumeKeeps ==
  ASSUME TypeOK, Layers, Resume
  PROVE  Layers'
<1>1. /\ up = "resume" /\ up' \in {"resending", "delay"}
      /\ UNCHANGED <<upload_buffer, card, third, sample, taken, done, delivered, lost,
                     spoiled>>
  BY DEF Resume, bufVars, thirdVars, fateVars
<1>2. up' = "resending" => card # <<>> /\ xfer' = Head(card)
  BY DEF Resume
<1>3. card # <<>> => Fileexist'
  <2>1. card # <<>> => Fileexist
    BY DEF Layers, Order
  <2> QED
    BY <2>1 DEF Resume, TypeOK
<1>4. ~Transferring'
  BY <1>1 DEF Transferring
<1>5. Places'
  BY <1>1, <1>2 DEF Layers, Places
<1>20. Flow /\ Wire'
  <2>1. Cut
    BY Cuts DEF Resume
  <2> QED
    BY <1>1, <2>1, CutFlows DEF Layers
<1>6. Fate'
  <2>1. \A s : s # None /\ Safe(s) => Safe(s)'
    BY <1>1, <1>20, SafeKeeps
  <2>2. \A s \in done : s # None
    BY DEF Layers, Places, None
  <2> QED
    BY <1>1, <2>1, <2>2 DEF Layers, Fate
<1>7. OneSample'
  BY <1>1, <1>4 DEF Layers, OneSample, Clean
<1>8. Order'
  <2>1. \A n : Upto(Out, card, n) => Upto(Out', card', n)
    BY <1>1, <1>20, UptoKeeps DEF Flow
  <2>2. \A d \in Out' : d \in Out
    BY <1>20 DEF Flow
  <2> QED
    BY <1>1, <1>3, <1>4, <2>1, <2>2 DEF Layers, Order, Good, Whole
<1> QED
  BY <1>5, <1>6, <1>7, <1>8, <1>20 DEF Layers

(* The head of the card leaves it only when send() has taken it; the rest is  *)
(* not older.                                                                *)
LEMMA ResentKeeps ==
  ASSUME TypeOK, Layers, Resent(TRUE)
  PROVE  Layers'
<1>1. /\ up = "resent" /\ up' = "delay" /\ card' = Tail(card)
      /\ UNCHANGED <<upload_buffer, third, sample, taken, done, lost, spoiled, Fileexist, conn,
                     delivered>>
  BY DEF Resent, Returns, bufVars, thirdVars, fateVars
<1>2. card # <<>> /\ xfer = card[1] /\ 1 \in DOMAIN card
  BY <1>1, HeadOfCard DEF Layers
<1>3. /\ \A j \in DOMAIN card' : j \in Nat /\ j + 1 \in DOMAIN card /\ card'[j] = card[j + 1]
      /\ \A i \in DOMAIN card : i = 1 \/ \E j \in DOMAIN card' : card'[j] = card[i]
  <2> DEFINE R == Records
  <2>1. card \in Seq(R) /\ Tail(card) \in Seq(R)
    BY <1>2, CardTypes DEF TypeOK
  <2> HIDE DEF R
  <2>2. DOMAIN card = 1 .. Len(card) /\ DOMAIN Tail(card) = 1 .. Len(card) - 1
    BY <1>2, <2>1, CardTypes
  <2>3. \A i \in DOMAIN card : i # 1 => i - 1 \in DOMAIN Tail(card)
                                        /\ Tail(card)[i - 1] = card[i]
    BY <1>2, <2>2, CardTypes
  <2>4. \A j \in DOMAIN Tail(card) : j \in Nat /\ j + 1 \in DOMAIN card
                                      /\ Tail(card)[j] = card[j + 1]
    BY <1>2, <2>2, CardTypes
  <2> QED
    BY <1>1, <2>3, <2>4
<1>4. Flow /\ Wire' /\ Out' = Out
  BY <1>1, Cuts, CutFlows DEF Layers, Out
<1>5. ~Transferring'
  BY <1>1 DEF Transferring
<1>6. Places'
  BY <1>1 DEF Layers, Places
<1>7. Fate'
  <2>1. ASSUME NEW s \in done, Safe(s)
        PROVE  Safe(s)'
    <3>0. s # None
      BY DEF Layers, Places, None
    <3>1. CASE s \in Out \cup conn.dropped \cup lost
      BY <1>1, <1>4, <3>1 DEF Safe
    <3>2. CASE \E i \in DOMAIN card : Whole(card[i]) /\ card[i].h1 = s
      <4>1. PICK i \in DOMAIN card : Whole(card[i]) /\ card[i].h1 = s
        BY <3>2
      <4>2. CASE i = 1
        <5>1. Good(xfer) /\ xfer.h1 = s
          BY <1>2, <3>0, <4>1, <4>2 DEF Good
        <5>2. s \in Out \cup conn.dropped
          BY <1>1, <5>1 DEF Layers, Fate
        <5> QED
          BY <1>1, <1>4, <5>2 DEF Safe
      <4>3. CASE i # 1
        <5>1. PICK j \in DOMAIN card' : card'[j] = card[i]
          BY <1>3, <4>3
        <5> QED
          BY <4>1, <5>1 DEF Safe, Whole
      <4> QED
        BY <4>2, <4>3
    <3> QED
      BY <2>1, <3>1, <3>2 DEF Safe
  <2> QED
    BY <1>1, <2>1 DEF Layers, Fate
<1>8. OneSample'
  BY <1>1, <1>5 DEF Layers, OneSample, Clean
<1>9. Order'
  <2>1. \A n : Upto(Out, card, n) => Upto(Out', card', n)
    BY <1>3, <1>4 DEF Upto
  <2>2. ASSUME NEW i \in DOMAIN card', NEW j \in DOMAIN card', i <= j, Good(card'[i]),
               Good(card'[j])
        PROVE  card'[i].h1 <= card'[j].h1
    <3>1. i + 1 <= j + 1
      BY <1>3, <2>2
    <3> QED
      BY <1>3, <2>2, <3>1 DEF Layers, Order
  <2>3. \A d \in Out' : \A j \in DOMAIN card' : Good(card'[j]) => d <= card'[j].h1
    BY <1>3, <1>4 DEF Layers, Order
  <2>4. Fileexist
    BY <1>2 DEF Layers, Order
  <2> QED
    BY <1>1, <1>5, <2>1, <2>2, <2>3, <2>4 DEF Layers, Order, Good, Whole
<1> QED
  BY <1>4, <1>6, <1>7, <1>8, <1>9 DEF Layers

-----------------------------------------------------------------------------
(***************************************************************************)
(* The invariant, and what follows from it.                                *)
(***************************************************************************)
LEMMA NextKeeps == IInv /\ [Next]_vars => IInv'
<1> SUFFICES ASSUME IInv, [Next]_vars
             PROVE  IInv'
  OBVIOUS
<1>1. TypeOK /\ Layers
  BY DEF IInv, Layers
<1>2. TypeOK'
  BY <1>1, NextTypes DEF Layers
<1>3. Layers'
  <2>0. Wire
    BY <1>1 DEF Layers
  <2>1. CASE UNCHANGED vars
    <3>1. Cut /\ delivered' = delivered
      BY <2>1 DEF vars, netVars, fateVars, Cut
    <3>2. Flow /\ Wire'
      BY <1>1, <2>0, <3>1, CutFlows
    <3>3. Quiet
      BY <2>1, <3>2 DEF vars, netVars, bufVars, cardVars, thirdVars, upVars, fateVars, Quiet,
         SameBuffer
    <3> QED
      BY <1>1, <3>2, <3>3, QuietKeeps
  <2>2. CASE Network \/ ConnectTask
    BY <1>1, <2>0, <2>2, QuietSteps, QuietKeeps, VersionKeeps DEF ConnectTask
  <2>3. CASE UploadTask
    <3>1. CASE Restarts
      BY <1>1, <3>1, RebootKeeps DEF Restarts
    <3>2. CASE Create \/ Talk \/ Served \/ Delay \/ Top \/ Resent(FALSE)
      BY <1>1, <2>0, <3>2, QuietSteps, QuietKeeps
    <3>3. CASE Kill \/ TakeSample \/ Switch \/ Accept
      BY <1>1, <3>3, KillKeeps, SampleKeeps, SwitchKeeps, AcceptKeeps
    <3>4. CASE Sent(TRUE) \/ Sent(FALSE)
      BY <1>1, <3>4, SentKeeps
    <3>5. CASE Store \/ Resume \/ Resent(TRUE)
      BY <1>1, <3>5, StoreKeeps, ResumeKeeps, ResentKeeps
    <3> QED
      BY <2>3, <3>1, <3>2, <3>3, <3>4, <3>5 DEF UploadTask, Command
  <2>4. CASE \E t \in Tasks : ThirdTask(t)
    BY <1>1, <2>4, PollingKeeps
  <2> QED
    BY <2>1, <2>2, <2>3, <2>4 DEF Next
<1> QED
  BY <1>2, <1>3 DEF IInv, Layers

(* The inductive invariant holds of every behaviour.                         *)
THEOREM Invariance == Spec => []IInv
<1>1. Init => IInv
  BY InitTypes, InitLayers DEF IInv, Layers
<1> QED
  BY <1>1, NextKeeps, PTL DEF Spec

(* Every sample that was completed is at the server, accepted by TCP, whole on *)
(* the card, in the buffer or known to be lost, whatever the commands kill,   *)
(* the connections drop and the version message writes over                  *)
(* (Dicor_upload.c:1249-1280, 1767-1831, 1886-1942).                         *)
THEOREM AccountedCorrect == Spec => []Accounted
<1>1. IInv => Accounted
  BY DEF IInv, Fate, Accounted, Safe, Out, Pending
<1> QED
  BY <1>1, Invariance, PTL

(* A record that send() or the card takes is one whole sample, unless one of  *)
(* the six races is to blame (thirddev_gateway.c:71-129 and                  *)
(* Dicor_upload.c:1249-1280 against Dicor_upload.c:1767-1831).               *)
THEOREM WholeOrRacedCorrect == Spec => WholeOrRaced
<1>1. IInv /\ [Next]_vars =>
        [Transferring /\ up' \in {"sent", "resume"} => Whole(Final) \/ Final.races # {}]_vars
  <2> SUFFICES ASSUME IInv, Transferring
               PROVE  Whole(Final) \/ Final.races # {}
    OBVIOUS
  <2> QED
    BY FinalTypes DEF IInv, OneSample
<1> QED
  BY <1>1, Invariance, PTL DEF Spec, WholeOrRaced

(* The server gets the samples in the order they were taken, although some   *)
(* go through the card and some are lost on the way                          *)
(* (Dicor_upload.c:1767-1831, 1886-1942).                                    *)
THEOREM InOrderCorrect == Spec => InOrder
<1>1. IInv /\ [Next]_vars =>
        [\A s \in delivered' \ delivered : \A d \in delivered : d < s]_vars
  <2> SUFFICES ASSUME IInv, Next, NEW s \in delivered' \ delivered, NEW d \in delivered
               PROVE  d < s
    OBVIOUS
  <2>1. Arrive
    <3>1. CASE Plug \/ Break \/ TcpGivesUp
      BY <3>1 DEF Plug, Break, TcpGivesUp, fateVars
    <3>2. CASE ConnectTask
      BY <3>2 DEF ConnectTask, CheckConnect, Connected, SendVersion, VersionSent, fateVars
    <3>3. CASE Top \/ Command \/ Switch \/ Store \/ Resume \/ Delay
      BY <3>3 DEF Top, Command, Kill, Create, TakeSample, Talk, Restarts, Reboot, Served,
         Switch, Store, Resume, Delay, fateVars
    <3>4. CASE Accept \/ Sent(TRUE) \/ Sent(FALSE) \/ Resent(TRUE) \/ Resent(FALSE)
      BY <3>4 DEF Accept, Sent, Resent, fateVars
    <3>5. CASE \E t \in Tasks : ThirdTask(t)
      BY <3>5 DEF ThirdTask, Start, Due, Waits, Answer, Fill, BusRestarts, Reboot, fateVars
    <3> QED
      BY <3>1, <3>2, <3>3, <3>4, <3>5 DEF Next, Network, UploadTask
  <2>2. s = Head(conn.tx) /\ s # None /\ conn.tx # <<>>
    BY <2>1 DEF Arrive
  <2>3. s = conn.tx[1] /\ 1 \in DOMAIN conn.tx /\ s \in Nat
    <3> DEFINE S == Samples  tx == conn.tx
    <3>1. tx \in Seq(S) /\ tx # <<>> /\ s = Head(tx) /\ S \subseteq Nat
      BY <2>2 DEF IInv, TypeOK, Samples
    <3> HIDE DEF S, tx
    <3>2. s = tx[1] /\ 1 \in DOMAIN tx /\ tx[1] \in S
      BY <3>1
    <3> QED
      BY <3>1, <3>2 DEF tx
  <2>4. d <= s /\ d # s /\ d \in Nat
    BY <2>2, <2>3, Numbers DEF IInv, Wire, Out
  <2> QED
    BY <2>3, <2>4
<1> QED
  BY <1>1, Invariance, PTL DEF Spec, InOrder

=============================================================================
