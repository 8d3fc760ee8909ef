------------------------------- MODULE Upload -------------------------------
(* The path of a sample from the RS-485 bus to the server: the third-device  *)
(* task (priority 13) fills upload_buffer, the upload task (11) sends it or  *)
(* stores it on the card, executes the server's commands - most of which     *)
(* kill the third-device task - and resends the card; the connect task (14)  *)
(* keeps the TCP connection.  They share upload_buffer, eth_st and the       *)
(* socket; the mutex is only taken by the upload task.                       *)
(*                                                                           *)
(* An action of the upload task runs up to the next call that blocks, the    *)
(* tasks below it can be preempted after every statement, and the connect    *)
(* task runs only while no third-device task is ready.  A record is its two  *)
(* halves: send() takes the second one when the socket has room for it.  A   *)
(* record that send() took is in the transmit buffer of the socket until the *)
(* network has brought it to the server; nobody looks for its arrival.  The  *)
(* card is the queue that module Breakpoint refines into files; what a       *)
(* command says on the bus is module Modbus.                                 *)
EXTENDS Naturals, Sequences, FiniteSets, SequencesExt
CONSTANTS
  Tasks,       \* identities a third-device task can get (bound)
  Devices,     \* thirddevicetable.txt: a sequence of "gateway" and "meter"
  Commands,    \* commands of the server
  TX_RECORDS,  \* records of 1130 bytes the transmit buffer holds (OPT_TBSIZE: two)
  MaxSamples, MaxFaults, MaxCommands      \* bounds
ASSUME UploadAssumption ==
  /\ Commands \subseteq {"download", "update", "config", "reset", "load",
                         "ffdtable", "collect", "bind", "command", "router"}
  /\ Devices \in Seq({"gateway", "meter"})
  /\ TX_RECORDS \in Nat \ {0} /\ {MaxSamples, MaxFaults, MaxCommands} \subseteq Nat

VARIABLES
  link,                  \* ipcfg_get_link_active
  conn,                  \* the TCP connection of upload_buffer.sock: [st, tx, dropped],
                         \* tx: records accepted and not arrived (their samples),
                         \* dropped: those that were lost with a connection (history)
  eth_st,
  upload_buffer,         \* [state, write_index, type, h1, h2]
  idle,                  \* rfnwk_state = RF_NWK_IDLE
  FirstPackage,
  Fileexist, card,       \* BreakPointInfo.Fileexist and the stored records
  third, sample,         \* of each third-device task: where it is, what it fills
  nodes,                 \* the devices in the list of ThirdDevLinkRoot
  START,                 \* event THIRD_DEVICE_DATA_START
  up, script, xfer,      \* the upload task: where, the rest of its command, the record
  connect,               \* the connect task
  taken, done,           \* samples begun and samples completed (history)
  delivered, lost,       \* of them: at the server, wiped or damaged in the buffer (history)
  spoiled,               \* what happened to the record in the buffer (history): torn,
                         \* cut short half way; version, written over by that message
  served, faults         \* commands and faults so far (bounds)

netVars   == <<link, conn, eth_st, faults>>
bufVars   == <<upload_buffer, idle>>
cardVars  == <<Fileexist, card>>
thirdVars == <<third, sample, nodes, START, taken, done>>
upVars    == <<up, script, xfer, served>>
fateVars  == <<delivered, lost, spoiled>>
vars == <<netVars, bufVars, cardVars, thirdVars, upVars, fateVars, connect, FirstPackage>>

None == 0                                              \* no sample
Stored(s) == [type |-> "data", len |-> 1, h1 |-> s, h2 |-> s, races |-> {}]
Whole(r) == r.type = "data" /\ r.len = 1 /\ r.h1 = r.h2
Busy == {"fill1", "fill2", "ready", "index", "link"}   \* a task that is running
Alive(t) == third[t] # "none"

NoRecord == [state |-> "CAN_WRITE", write_index |-> 0, type |-> "data",
             h1 |-> None, h2 |-> None]
Fresh(st) == [st |-> st, tx |-> <<>>, dropped |-> {}]
OneTask == [t \in Tasks |-> IF t = CHOOSE u \in Tasks : TRUE THEN "start" ELSE "none"]

Init ==
  /\ link = TRUE /\ faults = 0
  /\ \/ eth_st = "CON" /\ conn = Fresh("open")
     \/ eth_st \in {"INIT", "CABLE", "CABLE_IP"} /\ conn = Fresh("none")
  /\ upload_buffer = NoRecord
  /\ idle = FALSE /\ FirstPackage = FALSE
  /\ Fileexist = FALSE /\ card = <<>>
  /\ third = OneTask
  /\ sample = [t \in Tasks |-> None]
  /\ nodes = <<>> /\ START = TRUE /\ taken = 0 /\ done = {}
  /\ up = "top" /\ script = <<>> /\ xfer = Stored(None) /\ served = 0
  /\ delivered = {} /\ lost = {} /\ spoiled = {}
  /\ connect = "idle"

(***************************************************************************)
(* The network.  A cable that is unplugged keeps the connection until TCP  *)
(* gives up.  What a connection has not brought to the server goes with it. *)
(***************************************************************************)
Open == conn.st = "open"
Closed(st) == [st |-> st, tx |-> <<>>,
               dropped |-> conn.dropped \cup (ToSet(conn.tx) \ {None})]
Fault == faults < MaxFaults /\ faults' = faults + 1
Plug ==
  /\ \/ link /\ Fault /\ link' = FALSE
     \/ ~link /\ link' = TRUE /\ UNCHANGED faults
  /\ UNCHANGED <<conn, eth_st, bufVars, cardVars, thirdVars, upVars, fateVars, connect,
                 FirstPackage>>
Break == Open /\ Fault /\ conn' = Closed("broken")
  /\ UNCHANGED <<link, eth_st, bufVars, cardVars, thirdVars, upVars, fateVars, connect,
                 FirstPackage>>
TcpGivesUp == Open /\ ~link /\ conn' = Closed("broken")
  /\ UNCHANGED <<link, eth_st, faults, bufVars, cardVars, thirdVars, upVars, fateVars,
                 connect, FirstPackage>>

Arrive ==
  /\ Open /\ link /\ conn.tx # <<>> /\ conn' = [conn EXCEPT !.tx = Tail(@)]
  /\ delivered' = delivered \cup ({Head(conn.tx)} \ {None})
  /\ UNCHANGED <<link, eth_st, faults, bufVars, cardVars, thirdVars, upVars, lost, spoiled,
                 connect, FirstPackage>>

\* shutdown(sock, FLAG_ABORT_CONNECTION) with eth_st = ETH_INIT
Abort == eth_st' = "INIT" /\ conn' = Closed("none")
\* "please plug cable": the check every task makes of a connected cable
CheckLink == IF eth_st = "CON" /\ ~link THEN Abort ELSE UNCHANGED <<eth_st, conn>>

(***************************************************************************)
(* The connect task: one case of dicor_check_connect every second.         *)
(***************************************************************************)
MayConnect == \A t \in Tasks : third[t] \notin Busy
CheckConnect ==
  /\ connect = "idle" /\ MayConnect
  /\ CASE eth_st = "INIT" ->
            /\ eth_st' = IF link THEN "CABLE" ELSE "INIT"
            /\ UNCHANGED <<conn, connect, faults>>
       [] eth_st = "CABLE" ->
            /\ UNCHANGED connect
            /\ \/ ~link /\ Abort /\ UNCHANGED faults
               \/ link /\ eth_st' = "CABLE_IP" /\ UNCHANGED <<conn, faults>>
               \/ link /\ Fault /\ UNCHANGED <<conn, eth_st>>      \* no DHCP
       [] eth_st = "CABLE_IP" ->
            /\ UNCHANGED faults
            /\ IF link
               THEN connect' = "connect" /\ conn' = Closed("none") /\ UNCHANGED eth_st
               ELSE Abort /\ UNCHANGED connect
       [] OTHER -> FALSE
  /\ UNCHANGED <<link, bufVars, cardVars, thirdVars, upVars, fateVars, FirstPackage>>
Connected(ok) ==                              \* dicor_connect_datacenter returns
  /\ connect = "connect" /\ MayConnect
  /\ IF ok
     THEN /\ link /\ eth_st' = "CON" /\ conn' = [conn EXCEPT !.st = "open"]
          /\ connect' = "version"
          /\ UNCHANGED faults
     ELSE /\ eth_st' = "CABLE" /\ connect' = "idle" /\ UNCHANGED conn
          /\ IF link THEN Fault ELSE UNCHANGED faults
  /\ UNCHANGED <<link, bufVars, cardVars, thirdVars, upVars, fateVars, FirstPackage>>
Transferring == up \in {"sending", "storing"}
Pending == IF upload_buffer.state = "CAN_READ" THEN {upload_buffer.h1, upload_buffer.h2} ELSE {}
\* A sample whose record send() has taken no longer depends on the buffer.
Taken == IF up = "sent" /\ Whole(xfer) THEN {xfer.h1} ELSE {}
Wiped == (Pending \cap done) \ Taken
\* DiCor_SendIntfaceVersion builds its message in the first ten bytes of data0:
\* the header and the beginning of the data.
WriteOver(r) == [r EXCEPT !.type = "version", !.h1 = None]
SendVersion ==
  /\ connect = "version" /\ MayConnect /\ connect' = "sent"
  /\ IF eth_st = "CON"
     THEN /\ upload_buffer' = WriteOver(upload_buffer) /\ spoiled' = spoiled \cup {"version"}
          /\ \/ Transferring /\ UNCHANGED <<xfer, lost>>      \* these bytes were taken
             \/ /\ xfer' = IF Transferring
                           THEN [WriteOver(xfer) EXCEPT !.races = @ \cup {"version"}] ELSE xfer
                /\ lost' = lost \cup Wiped
     ELSE UNCHANGED <<upload_buffer, spoiled, xfer, lost>>
  /\ UNCHANGED <<netVars, idle, cardVars, thirdVars, up, script, served, delivered,
                 FirstPackage>>
VersionSent ==         \* of the ten bytes only the type is put back
  /\ connect = "sent" /\ MayConnect
  /\ upload_buffer' = [upload_buffer EXCEPT !.type = "data"]
  /\ FirstPackage' = TRUE /\ connect' = "idle"
  /\ UNCHANGED <<netVars, idle, cardVars, thirdVars, upVars, fateVars>>
ConnectTask == CheckConnect \/ Connected(TRUE) \/ Connected(FALSE) \/ SendVersion \/ VersionSent

(***************************************************************************)
(* A third-device task: register the devices, then poll them.  A gateway   *)
(* is asked over the bus and its record copied; a meter waits for START.   *)
(***************************************************************************)
Written == IF Transferring THEN [xfer EXCEPT !.races = @ \cup {"rewritten"}] ELSE xfer

Start(t) ==            \* the list keeps the nodes of a task that was killed
  /\ third[t] = "start"
  /\ nodes' = nodes \o Devices
  /\ third' = [third EXCEPT ![t] = "poll"]
  /\ UNCHANGED <<netVars, bufVars, cardVars, sample, START, taken, done, upVars, fateVars,
                 connect, FirstPackage>>
Due(t) ==                                         \* Third_Device_Poll
  /\ third[t] = "poll" /\ taken < MaxSamples
  /\ \E n \in ToSet(nodes) :
       third' = [third EXCEPT ![t] = IF n = "gateway" THEN "ask" ELSE "wait"]
  /\ UNCHANGED <<netVars, bufVars, cardVars, sample, nodes, START, taken, done, upVars,
                 fateVars, connect, FirstPackage>>
Waits(t) ==                                       \* ThirdDeviceWaitSendData
  /\ third[t] = "wait" /\ START /\ START' = FALSE
  /\ third' = [third EXCEPT ![t] = "meter"]
  /\ UNCHANGED <<netVars, bufVars, cardVars, sample, nodes, taken, done, upVars, fateVars,
                 connect, FirstPackage>>
Answer(t) ==                                      \* Modbus_RecvReadRegData returns
  /\ \/ /\ third[t] = "ask" /\ third' = [third EXCEPT ![t] = "fill1"]
        /\ taken < MaxSamples
        /\ \A u \in Tasks : third[u] \notin Busy \ {"link"}     \* no time slices
     \/ third[t] \in {"ask", "meter"} /\ third' = [third EXCEPT ![t] = "poll"]
  /\ UNCHANGED <<netVars, bufVars, cardVars, sample, nodes, START, taken, done, upVars,
                 fateVars, connect, FirstPackage>>
\* The statements of GATEWAY_ReadData in their order.
ReadyFirst(pc) ==          \* A slip: CAN_READ before the record is complete
  CASE pc = "fill1" -> "ready" [] pc = "ready" -> "index"
    [] pc = "index" -> "fill2" [] pc = "fill2" -> "link" [] OTHER -> "poll"
After(pc) == CASE pc = "fill1" -> "fill2" [] pc = "fill2" -> "ready"
               [] pc = "ready" -> "index" [] pc = "index" -> "link" [] OTHER -> "poll"
Fill(t) ==
  /\ third[t] \in Busy
  /\ third' = [third EXCEPT ![t] = After(third[t])]
  /\ CASE third[t] = "fill1" ->
            /\ taken' = taken + 1 /\ sample' = [sample EXCEPT ![t] = taken + 1]
            /\ upload_buffer' = [upload_buffer EXCEPT !.h1 = taken + 1]
            /\ lost' = lost \cup Wiped
            /\ xfer' = Written /\ spoiled' = {}
            /\ UNCHANGED <<conn, eth_st, idle, done>>
       [] third[t] = "fill2" ->
            /\ upload_buffer' = [upload_buffer EXCEPT !.h2 = sample[t]]
            /\ lost' = lost \cup Wiped
            /\ xfer' = Written
            /\ UNCHANGED <<conn, eth_st, idle, sample, taken, done, spoiled>>
       [] third[t] = "ready" ->
            /\ upload_buffer' = [upload_buffer EXCEPT !.state = "CAN_READ"]
            /\ idle' = TRUE
            /\ UNCHANGED <<conn, eth_st, sample, taken, done, lost, xfer, spoiled>>
       [] third[t] = "index" ->
            /\ upload_buffer' = [upload_buffer EXCEPT !.write_index = 1]
            /\ done' = done \cup {sample[t]}
            /\ lost' = lost \cup ({sample[t]} \ Pending)
            /\ UNCHANGED <<conn, eth_st, idle, sample, taken, xfer, spoiled>>
       [] OTHER ->
            /\ CheckLink
            /\ UNCHANGED <<bufVars, sample, taken, done, lost, xfer, spoiled>>
  /\ UNCHANGED <<link, faults, cardVars, nodes, START, up, script, served, delivered,
                 connect, FirstPackage>>
\* Dicor_Reboot: everything but the card starts anew, module Breakpoint has
\* what a restart does to the files.
Reboot ==
  /\ Abort /\ up' = "top" /\ script' = <<>> /\ xfer' = Stored(None) /\ connect' = "idle"
  /\ upload_buffer' = NoRecord /\ idle' = FALSE /\ FirstPackage' = FALSE
  /\ third' = OneTask /\ sample' = [t \in Tasks |-> None] /\ nodes' = <<>> /\ START' = TRUE
  /\ lost' = lost \cup Wiped /\ spoiled' = {}
  /\ UNCHANGED <<link, cardVars, taken, done, served, delivered>>
BusRestarts(t) ==                  \* the samples on the bus failed too often
  third[t] = "ask" /\ Fault /\ Reboot
ThirdTask(t) == Start(t) \/ Due(t) \/ Waits(t) \/ Answer(t) \/ Fill(t) \/ BusRestarts(t)

(***************************************************************************)
(* The upload task.                                                        *)
(***************************************************************************)
\* What a command does, step by step: dicor_process_DiMo_packet.
Script(c) ==
  CASE c = "download" -> <<"kill", "busy">>                   \* 0x02, 0x0a
    [] c = "update"   -> <<"kill", "update", "busy">>         \* 0x05
    [] c = "config"   -> <<"busy", "reboot">>                 \* 0x07
    [] c = "reset"    -> <<"kill", "busy", "create">>         \* 0x09
    [] c = "load"     -> <<"kill", "busy">>                   \* 0x31
    [] c = "ffdtable" -> <<"busy">>                           \* 0x66
    [] c = "collect"  -> <<"kill", "busy", "sample", "create">>\* 0x04
    [] c = "bind"     -> <<"busy", "create">>                 \* 0x45
    [] c = "router"   -> <<"kill", "busy">>                   \* 0x51
    [] OTHER          -> <<"kill", "busy", "create">>         \* 0x42 0x44 0x41 0x46 0x03 0x10

RecvErrorKeeps == conn' = Closed("none") /\ UNCHANGED eth_st    \* A slip: eth_st stays
RecvError == Abort
Top ==
  /\ up = "top"
  /\ \/ /\ eth_st # "CON" /\ up' = "switch"
        /\ UNCHANGED <<script, served, eth_st, conn>>
     \/ /\ eth_st = "CON" /\ Open /\ up' = "switch"
        /\ UNCHANGED <<script, served, eth_st, conn>>
     \/ /\ eth_st = "CON" /\ ~Open /\ RecvError /\ up' = "switch"
        /\ UNCHANGED <<script, served>>
     \/ /\ eth_st = "CON" /\ Open /\ served < MaxCommands
        /\ \E c \in Commands : script' = Script(c)
        /\ up' = "command" /\ served' = served + 1
        /\ UNCHANGED <<eth_st, conn>>
  /\ UNCHANGED <<link, faults, bufVars, cardVars, thirdVars, xfer, fateVars, connect,
                 FirstPackage>>

Step(s) == up = "command" /\ script # <<>> /\ Head(script) = s /\ script' = Tail(script)
Kill ==                                           \* dicor_kill_task, by name
  /\ Step("kill") /\ UNCHANGED up
  /\ IF \E t \in Tasks : Alive(t)
     THEN \E t \in Tasks :
            /\ Alive(t) /\ third' = [third EXCEPT ![t] = "none"]
            /\ spoiled' = spoiled \cup (IF third[t] \in {"fill2", "ready", "index"}
                                       THEN {"torn"} ELSE {})
     ELSE UNCHANGED <<third, spoiled>>
  /\ UNCHANGED <<netVars, bufVars, cardVars, sample, nodes, START, taken, done, xfer,
                 served, delivered, lost, connect, FirstPackage>>
Create ==
  /\ Step("create") /\ UNCHANGED up
  /\ \E t \in Tasks : ~Alive(t) /\ third' = [third EXCEPT ![t] = "start"]
  /\ UNCHANGED <<netVars, bufVars, cardVars, sample, nodes, START, taken, done, xfer,
                 served, fateVars, connect, FirstPackage>>
\* A sample for the task whose device has answered is already set aside.  \* bound
SamplesLeft ==
  taken + (IF \E t \in Tasks : third[t] = "fill1" THEN 1 ELSE 0) < MaxSamples
TakeSample ==                                     \* Modbus_SendReadRegCommand
  /\ Step("sample") /\ UNCHANGED up
  /\ SamplesLeft /\ taken' = taken + 1
  /\ upload_buffer' = [upload_buffer EXCEPT !.h1 = taken + 1, !.h2 = taken + 1,
                         !.state = "CAN_READ", !.write_index = 1]
  /\ done' = done \cup {taken + 1}
  /\ lost' = lost \cup Wiped
  /\ idle' = TRUE /\ CheckLink
  /\ spoiled' = IF \E t \in Tasks : third[t] = "fill2" THEN {"torn"} ELSE {}
  /\ UNCHANGED <<link, faults, cardVars, third, sample, nodes, START, xfer, served,
                 delivered, connect, FirstPackage>>
Talk ==                            \* the steps that only take time
  /\ Step("busy")
     \/ Step("update")                                     \* failed
     \/ (~SamplesLeft /\ Step("sample"))                      \* bound
  /\ UNCHANGED up
  /\ UNCHANGED <<netVars, bufVars, cardVars, thirdVars, xfer, served, fateVars, connect,
                 FirstPackage>>
Restarts ==                        \* Dicor_Update restarts only if it succeeded
  /\ up = "command" /\ script # <<>> /\ Head(script) \in {"reboot", "update"}
  /\ Reboot /\ UNCHANGED faults
Served ==
  /\ up = "command" /\ script = <<>> /\ up' = "switch"
  /\ UNCHANGED <<netVars, bufVars, cardVars, thirdVars, script, xfer, served, fateVars,
                 connect, FirstPackage>>
Command == Kill \/ Create \/ TakeSample \/ Talk \/ Restarts \/ Served

Races == (IF \E t \in Tasks : third[t] = "index" THEN {"index"} ELSE {})
         \cup (IF \E t \in Tasks : third[t] \in {"fill2", "ready"} /\ sample[t] \notin done
             THEN {"half"} ELSE {})
         \cup spoiled \cup (IF upload_buffer.type = "version" THEN {"version"} ELSE {})
Record == [type |-> upload_buffer.type, len |-> upload_buffer.write_index,
           h1 |-> upload_buffer.h1, h2 |-> upload_buffer.h2, races |-> Races]
NoFree == upload_buffer' = [upload_buffer EXCEPT !.write_index = 0]  \* A slip
FreeBuffer == upload_buffer' =
  [upload_buffer EXCEPT !.state = "CAN_WRITE", !.write_index = 0]
DirectAnyway == eth_st' = "CON"         \* A slip: older records are on the card
Direct == eth_st' = "CON" /\ ~Fileexist
Switch ==
  /\ up = "switch"
  /\ IF idle THEN CheckLink ELSE UNCHANGED <<eth_st, conn>>
  /\ IF idle /\ upload_buffer.state = "CAN_READ"
     THEN CASE Direct /\ FirstPackage ->
                 /\ FirstPackage' = FALSE /\ FreeBuffer /\ up' = "resume"
                 /\ lost' = lost \cup Wiped
                 /\ UNCHANGED <<xfer, Fileexist>>
            [] Direct /\ ~FirstPackage ->
                 /\ xfer' = Record /\ up' = "sending"
                 /\ UNCHANGED <<upload_buffer, FirstPackage, Fileexist, lost>>
            [] OTHER ->
                 /\ xfer' = Record /\ up' = "storing" /\ Fileexist' = TRUE
                 /\ UNCHANGED <<upload_buffer, FirstPackage, lost>>
     ELSE /\ up' = IF idle THEN "resume" ELSE "delay"
          /\ UNCHANGED <<upload_buffer, xfer, FirstPackage, Fileexist, lost>>
  /\ UNCHANGED <<link, faults, idle, card, thirdVars, script, served, delivered, spoiled,
                 connect>>

\* The record as it leaves: its second half is read from the buffer at the end; the
\* type is not stored.
Final == IF Transferring
         THEN [xfer EXCEPT !.h2 = upload_buffer.h2, !.type = IF up = "storing" THEN "data" ELSE @]
         ELSE xfer
Kept == IF Whole(Final) THEN {xfer.h1} ELSE {}
\* send() has copied the record; it returns now or once the server has it.
Accept ==
  /\ up \in {"sending", "resending"} /\ Open /\ Len(conn.tx) < TX_RECORDS
  /\ up' = (IF up = "sending" THEN "sent" ELSE "resent") /\ xfer' = Final
  /\ conn' = [conn EXCEPT !.tx = Append(@, IF Whole(Final) THEN Final.h1 ELSE None)]
  /\ UNCHANGED <<link, eth_st, faults, bufVars, cardVars, thirdVars, script, served, fateVars,
                 connect, FirstPackage>>
Returns(ok, waiting, accepted) ==
  \/ ok /\ up = accepted /\ Open /\ UNCHANGED <<eth_st, conn>>
  \/ ~ok /\ up \in {waiting, accepted} /\ ~Open /\ Abort
Sent(ok) ==
  /\ Returns(ok, "sending", "sent")
  /\ up' = "resume" /\ FreeBuffer /\ xfer' = Stored(None) /\ lost' = lost \cup Wiped
  /\ UNCHANGED <<link, faults, idle, cardVars, thirdVars, script, served, delivered, spoiled,
                 connect, FirstPackage>>
Store ==                                          \* SaveData2SdCard
  /\ up = "storing" /\ up' = "resume" /\ FreeBuffer /\ xfer' = Stored(None)
  /\ card' = Append(card, Final)
  /\ lost' = lost \cup (Wiped \ Kept)
  /\ UNCHANGED <<netVars, idle, Fileexist, thirdVars, script, served, delivered, spoiled,
                 connect, FirstPackage>>

Resume ==                                         \* BreakpointContinuingly
  /\ up = "resume"
  /\ IF Fileexist THEN CheckLink ELSE UNCHANGED <<eth_st, conn>>
  /\ IF Fileexist /\ eth_st' = "CON" /\ card # <<>>
     THEN xfer' = Head(card) /\ up' = "resending" /\ UNCHANGED Fileexist
     ELSE /\ Fileexist' = (Fileexist /\ ~(eth_st' = "CON"))
          /\ up' = "delay" /\ UNCHANGED xfer
  /\ UNCHANGED <<link, faults, bufVars, card, thirdVars, script, served, fateVars, connect,
                 FirstPackage>>
ResentPops(ok) ==    \* A slip: the record leaves the card, sent or not
  /\ Returns(ok, "resending", "resent")
  /\ up' = "delay" /\ xfer' = Stored(None) /\ card' = Tail(card)
  /\ UNCHANGED <<link, faults, bufVars, Fileexist, thirdVars, script, served, fateVars,
                 connect, FirstPackage>>
Resent(ok) ==
  /\ Returns(ok, "resending", "resent")
  /\ up' = "delay" /\ xfer' = Stored(None) /\ card' = IF ok THEN Tail(card) ELSE card
  /\ UNCHANGED <<link, faults, bufVars, Fileexist, thirdVars, script, served, fateVars,
                 connect, FirstPackage>>
Delay ==                                          \* and the signal before it
  /\ up = "delay" /\ up' = "top" /\ START' = TRUE
  /\ UNCHANGED <<netVars, bufVars, cardVars, third, sample, nodes, taken, done, script,
                 xfer, served, fateVars, connect, FirstPackage>>
UploadTask ==
  \/ Top \/ Command \/ Switch \/ Store \/ Resume \/ Delay
  \/ Accept \/ Sent(TRUE) \/ Sent(FALSE) \/ Resent(TRUE) \/ Resent(FALSE)

Network == Plug \/ Break \/ TcpGivesUp \/ Arrive
Next == Network \/ ConnectTask \/ UploadTask \/ \E t \in Tasks : ThirdTask(t)
Spec == Init /\ [][Next]_vars
Fairness == /\ WF_vars(UploadTask) /\ WF_vars(ConnectTask) /\ WF_vars(TcpGivesUp)
            /\ WF_vars(Arrive)
            /\ \A t \in Tasks : WF_vars(ThirdTask(t))
FairSpec == Spec /\ Fairness

-----------------------------------------------------------------------------
Samples == 0 .. MaxSamples
Records == [type : {"data", "version"}, len : {0, 1}, h1 : Samples, h2 : Samples,
            races : SUBSET {"rewritten", "index", "half", "torn", "version"}]
(* Type invariant. *)
TypeOK ==
  /\ link \in BOOLEAN
  /\ conn \in [st : {"none", "open", "broken"}, tx : Seq(Samples), dropped : SUBSET Samples]
  /\ Len(conn.tx) <= TX_RECORDS /\ (~Open => conn.tx = <<>>)
  /\ eth_st \in {"INIT", "CABLE", "CABLE_IP", "CON"}
  /\ upload_buffer \in [state : {"CAN_WRITE", "CAN_READ"}, write_index : {0, 1},
                        type : {"data", "version"}, h1 : Samples, h2 : Samples]
  /\ {idle, FirstPackage, Fileexist, START} \subseteq BOOLEAN
  /\ spoiled \subseteq {"torn", "version"}
  /\ card \in Seq(Records) /\ xfer \in Records
  /\ third \in [Tasks -> Busy \cup {"none", "start", "poll", "ask", "wait", "meter"}]
  /\ sample \in [Tasks -> Samples] /\ taken \in Samples
  /\ nodes \in Seq({"gateway", "meter"})
  /\ up \in {"top", "command", "switch", "sending", "sent", "storing", "resume", "resending",
             "resent", "delay"}
  /\ up # "command" => script = <<>>
  /\ up \notin {"sending", "sent", "storing", "resending", "resent"} => xfer = Stored(None)
  /\ connect \in {"idle", "connect", "version", "sent"}
  /\ done \subseteq Samples /\ delivered \subseteq Samples /\ lost \subseteq Samples
  /\ served \in 0 .. MaxCommands /\ faults \in 0 .. MaxFaults

(* A record that send() takes or the card gets is one whole sample under the  *)
(* header of a sample, or one of six races is to blame: it was taken between  *)
(* CAN_READ and write_index, while a task was half way through a record, after *)
(* a kill or the sample of a command came half way through one, rewritten      *)
(* while send() or the card took it, taken with the header of the version      *)
(* message, or after that message was written over the first bytes of the      *)
(* sample that waited in the buffer for the connection.                        *)
WholeOrRaced ==
  [][Transferring /\ up' \in {"sent", "resume"} => Whole(Final) \/ Final.races # {}]_vars

(* Every sample that was completed is at the server, in the transmit buffer,   *)
(* whole on the card or in the buffer, or it was lost in one of the ways the   *)
(* code lets it: accepted by a connection that broke before it arrived, or     *)
(* wiped or damaged in the buffer - by a failed direct send, as the first      *)
(* package of a connection, by the version message, by a race.                 *)
Accounted ==
  /\ TypeOK
  /\ \A s \in done :
       \/ s \in delivered \cup ToSet(conn.tx) \cup conn.dropped \cup lost \cup Pending
       \/ \E i \in DOMAIN card : Whole(card[i]) /\ card[i].h1 = s

(* The server gets the samples in the order they were taken, although some    *)
(* go through the card and some are lost with a connection: a sample is sent  *)
(* directly only when nothing older is stored, and only a failed resend       *)
(* repeats one.                                                              *)
InOrder == [][\A s \in delivered' \ delivered : \A d \in delivered : d < s]_vars

(* Once the cable stays in and the faults are over, the gateway is connected  *)
(* again and again: no task leaves eth_st and the socket in a state that no    *)
(* task repairs.                                                             *)
Reconnected ==
  <>[]link => []<>(eth_st = "CON" /\ Open)

(* A buffer marked CAN_READ is always emptied, whatever the command and the   *)
(* connection do meanwhile.                                                  *)
Drained == upload_buffer.state = "CAN_READ" ~> upload_buffer.state = "CAN_WRITE"

=============================================================================
