# Cosmos / DiCor gateway firmware: TLA+ specifications

The program is the firmware of a gateway for photovoltaic installations: an
MQX real-time system on a ColdFire board. It collects measurements from power
optimisers, over a radio mesh (nRF905) and over RS485, sends them to a data
centre over TCP, and keeps them on an SD card while the data centre cannot be
reached. This directory holds TLA+ models of its core, their TLC
configurations, and proofs checked by TLAPS. `PROJECT.json` lists the
components, runs, mutants, hazards and theorems, and for each definition the
lines it models.

Build options read from the source: `DICOR_STATIC_REG_TAB` 0 (dicor.h:102),
`DICOR_ACK_RESEND` 1, `DI_HARVESTER_V4`; the tasks for telnet, RF, upload,
connect, logging, lost logging, watchdog, third devices and shell are enabled,
those for alive messages, USB and the web server are not. Where an option
changes the behaviour of a modelled part both values are explored (`Builds` in
`MacLink`, `WorkModes` in `NodeApp`).

## 1. Inventory

Tasks and priorities (a smaller number is more urgent): watchdog 8, logging 9,
RF 10, upload 11, telnet 12, third device 13, connect 14, lost logging 17,
shell 18. Two interrupts matter: the 10 ms tick and the radio's data-ready
pin. The tasks share memory, mostly without locks.

### RF stack

| part | source | state | operations | makes it correct |
|---|---|---|---|---|
| operating system | network_os.c, network_frame.c | ring of messages, software timers, RF_RxReady / RF_PhyGetDataEnd, NetworkRfSem | SYS_SendMsg, SYS_StartTimer/StopTimer, SYS_TimersISR, SYS_MainFunction, SYS_Error | list is a bounded FIFO used by one task at a time; every message served, every timeout dispatched to its owner |
| PHY | network_phy.c | ring of ten packets, number of the packet expected, buffers to send | receive a packet, release a frame, split and send | frames indicated are whole, slots neither leak nor are released twice |
| MAC | network_dlc.c | state, MAC_ReSendBuf, retry counter, one timer, routing table, MAC_ComBuf | data request, indication, acknowledgement, paging, relaying, beacons | an unacknowledged request is sent again, a bounded number of times; buffers are not overwritten while in use |
| NWK | network_nwk.c | state, NWK_ComBuf, parameters | build a request, pass on an answer, set-up | an answer is passed to the request it belongs to |
| application | dicor_network_apl.c, unconnected_grid.c | position in the registration table, one timer, flags set by the shells, upgrade state | poll, lend the chain to a request, upgrade, time out | polling goes on whatever is lost; every subnet has its turn; a success reported is one |
| radio driver | network_rf_dri.c, dicor_spi_dri.c | registers, interrupt | set mode, read and write payload, data-ready interrupt | one notice for each packet |
| harvester | di-harvest.c | | | compiled for the V3 board only |

The layers call each other through messages only; other tasks post messages
(upgradedidi.c, shell) under NetworkRfSem and set flags without it.

### Data path

| part | source | state | operations | makes it correct |
|---|---|---|---|---|
| third-device polling | third_device.c, thirddevice_poll.c, typetable, dev/* | list of devices, counts of rounds | register, count, poll the devices that are due | a record is complete before it is handed over; its watchdog is fed in time |
| Modbus, RS485 | modbus.c, rs485.c | serial port, answer buffer, counters of failed polls | command, answer with timeout, loader of a node's program, reset of the coordinator | an answer belongs to its command; a program is ended only when it was written |
| upload | Dicor_upload.c | upload_buffer (state, write_index, type, data, mutex), eth_st, sockets and their transmit buffers, FirstPackage | upload loop, connect task, commands of the data centre | a record handed over is sent or saved once, in order; connection state agrees with the socket |
| store and forward | breakpoint.c | BreakPointInfo, files and FileCounter on the card, offset and bak_offset | BreakpointInit, SaveData2SdCard, BreakpointContinuingly, SaveFileCounter | nothing saved is passed over; the card is emptied; power failures |
| upgrade of nodes | upgradedidi.c | image, list of nodes, answer flags | stop and start polling, upgrade command, transfer | polling is started again whatever fails |

Calls: the third-device task fills `upload_buffer` and marks it CAN_READ; the
upload task sends or saves it and paces the producers with the events
THIRD_DEVICE_DATA_START / _END; the connect task opens the connection again;
the upload task serves the packets of the data centre, most of which destroy
the third-device task and create another, and talks on the RS485 bus itself.

### Services

| part | source | state | operations | makes it correct |
|---|---|---|---|---|
| configuration | eeprom.c, shell | sectors of the internal flash, one static handle | repair at the start, tables, fields, the coordinator's address | what a start needs is sound after any power failure; tables installed together stay together |
| upgrade of the gateway | Dicor_update.c, tftp.c | version file on the card, record for the boot loader | download, analyse, order, restart | only a version somebody asked for is loaded |
| power and watchdog | pmu.c | a software watchdog for each task, TaskIndex, LowVolFlag | feed, expire, low voltage, restart | trouble ends in a restart, a gateway that works does not restart |
| logging | Logging_Task.c, LostLogging_Task.c | pool of messages, semaphore, file | print, write | logs go on |
| network interface | dicor_network.c | link, DHCP | calls of the network library | |
| start-up, utilities | dicor_app.c, utility.c, led.c | task table | conversions, LEDs | |
| shell, telnet | My_Shell_Commands.c, shell_task.c, telnet/* | terminal | commands: calls of the other parts | |
| web server, USB | | | disabled in this configuration | |

### Hard behaviours

`PROJECT.json`, "hazards", has them line by line: interrupts between two
statements of the RF task, lost and late packets, answers and
acknowledgements, buffers and flags shared by tasks of different priorities,
tasks destroyed wherever they are, power failures between two operations on
the card or on the flash, positions and handles that outlive their file, and
semaphores waited for on the way to a restart.

## 2. Modules

| module | models | corresponds to |
|---|---|---|
| `RfTimers` | timer table and tick interrupt | one action for the interrupt while the table is open, one while it is being written; `StartBody`/`StopBody` are called between |
| `RfTimersDrift` | the same under any use, with a history of the ticks that happened | the history is not part of the program |
| `MsgFifo` | abstract bounded FIFO queue | what the RF task's list promises |
| `RfOs` | SYS_MainFunction step by step, SYS_SendMsg, interrupts, posters, reset | one action for each place of the loop at which an interrupt or another task can make a difference |
| `PhyRx` | reception: radio, interrupt, ring, MAC indication, release | the handler of EMN_RF_RX_READY is two steps, before and after the receiver is switched on again |
| `MacLink` | sending: acknowledgement, retransmission, give-up, paging | one action for each message the MAC and PHY layers handle |
| `NodeApp` | application and network layer, independent-grid task, the shells' commands to nodes | one action for each message; a shell's command is a script whose steps are the statements the RF task can come between |
| `Upload` | upload_buffer between third-device tasks, upload task, connect task and the commands of the data centre; the connection and what it has accepted | the upload task runs from one call that blocks to the next; the producers run statement by statement |
| `Breakpoint` | saving and draining on the SD card, sending, connect, power failure | one action for each operation on the card, so that power can fail between any two |
| `Modbus` | the RS485 bus: commands, loader, polls, coordinator, reset, the flag shared with the shell | write, wait and report of each command; what each read makes of its first frame, and whether it reads on |
| `Config` | flash sectors, the static handle, installation of tables, repair, update of the gateway | open, seek, erase, program and close of EepromWrite are steps of their own |
| `Rounds` | the rounds of the third-device task: counts, polls, the feeding of its watchdog, time | one action for each statement of the loop and each device of a round |
| `Keeper` | watchdogs, watchdog task, low voltage, log task, semaphore of the log, lock of the card | tasks reduced to priority, watchdog and the locks they hold |
| `RfOsProofs`, `PhyRxProofs`, `MacLinkProofs`, `ConfigProofs`, `BreakpointProofs`, `ModbusProofs`, `NodeAppProofs`, `UploadProofs` | theorems about the modules they are named for, in `RfOsProofs` also about `RfTimersDrift`, `Keeper` and `Rounds` | section 4 |

`MC...` modules instantiate them for TLC.

How they compose. `RfOs` is shown to implement `MsgFifo`, and `PhyRx`,
`MacLink` and `NodeApp` use the list as that queue; the timer is the one of
`RfTimers`: off, running, expired. `Upload` uses the card as a queue, the
abstraction of what `Breakpoint` does in files; what its steps "bus" and
"sample" do is `Modbus`. `Modbus` keeps the coordinator's address, which
`Config` writes; the `SetParameterData.flag` it counts in is the one `NodeApp`
fills. A restart is a step of `Upload`, `Modbus` and `Config`; when it comes is
decided by `Keeper`. `Rounds` shows when the third-device task feeds the
watchdog that `Keeper` takes to be fed at any time while that task runs.

Abstractions, by module:

- `RfOs`: handlers of the layers are any sequence of at most `HandlerOps`
  posts and timer calls.
- `PhyRx`: a packet is its frame, its index and the mark of the last one.
  Frames sent are events of the radio; carrier sense and the splitting
  into packets are left out. Peers are *patient* (a frame is started when the
  node has dealt with the last, the PHY handler gets the time to let the
  interrupt in again, no two packets lost in a row) or *eager* (none of this).
  Only the request and response scheme of the application makes peers
  patient; properties that need it say so.
- `MacLink`: the MAC layer is in EMN_MAC_CON, with a route to every
  destination. The history `hasty` notes that a timer expired or a request was
  made while messages waited, or that a peer sent an error acknowledgement.
- `NodeApp`: the MAC layer sends what is in NWK_ComBuf when its turn comes and
  nodes answer soon, late or never. The histories `mixed` and `lost` note the
  situations the properties except; they are listed under the run.
- `Upload`: a record is its two halves, so that tearing shows. A record that
  send() took is in the transmit buffer of the socket (`conn.tx`, two records:
  OPT_TBSIZE 2920 bytes, Dicor_upload.c:1004) until the network brings it to the
  data centre; a connection that breaks or is aborted takes it along
  (`conn.dropped`). Of the ten bytes the version message is written over
  (Dicor_upload.c:1258-1271) the type is put back and the beginning of the data
  is not; of the rest the id is the same, the length is set again before each
  send, and the byte between them is used by nobody. The connect task runs only while no third-device task is
  busy (it has the lower priority and tasks of one priority have no time slices).
- `Breakpoint`: a record is a number, positions count in units of the eight
  bytes of a header. The producer waits for the buffer to be free (the races
  are in `Upload`). Opening a file and deleting one succeed. What `feof` says
  after a read that stopped exactly at the end is a property of the file
  system; both answers are explored (`EofKinds`). A start with an empty card
  has written FileCounter (0, 0); one left empty by a power failure gives
  indices zero.
- `Modbus`: a frame is its code, whose request it answers, and whether it is
  good, refused or cut; bytes cut off read as zeros, since rs485_read clears the
  whole buffer first (rs485.c:158-169), and zero is the code of success. The
  coordinator may be slow, hang, answer every poll with an error, lose or refuse
  a request, or leave noise on the bus.
- `Config`: a sector is a record of the fields that matter or a content;
  bytes of another sector, or half of the bytes meant, are "junk". A file read
  from the card is good, bad, missing or without its end mark, or the command
  was given wrong arguments. The version file of the server may change at any time:
  a download may get any version, or part of one. A router table without its end mark runs over a
  buffer of 512 bytes on the heap before it loops for ever
  (My_Shell_Commands.c:2011-2053); what it hits there is not modelled. The boot
  loader carries out an order or fails to, whatever it finds.
- `Keeper`: a watchdog is fed, stale or off. `Hour` is the period of any of
  them and may end at any time, also for a task that works: a watchdog nobody
  fed meanwhile expires. Once one expired or the voltage dropped, all count as off,
  since nothing they do matters any more. The log task writes faster than the
  tasks below it print.
- `Rounds`: time is ticks that pass where the task waits; a delay of less than
  a tick counts as at most one. A poll takes any time up to `PollTime`.

## 3. Runs

| run | result | distinct states | question |
|---|---|---|---|
| `MCRfOs` | pass | 226,425 | list, semaphore, timers and radio handshake under every interleaving; the list implements `MsgFifo`; every message served, every timeout dispatched |
| `RfTimersDrift` | pass | 251,587 | how far timers drift from real ticks |
| `MCPhyRx` | pass | 1,943,342 | reception with both kinds of peers |
| `MCMacLink` | pass | 170,824 | sending in both builds |
| `MCMacLinkPaging` | violation | | paging never ends |
| `MCNodeApp` | pass | 880,576 | polling, parameters and upgrades in both modes |
| `MCUpload` | pass | 1,349,151 | the way of a sample to the data centre |
| `MCBreakpoint` | pass | 428,056 | saved, sent, in order, emptied; power failures |
| `MCBreakpointSwitch` | violation | | failed send after a change of file |
| `MCModbus` | pass | 1,470,584 | commands on the bus beside the polling |
| `MCConfig` | pass | 2,828,434 | tables, repairs and updates in the flash; power failures |
| `MCKeeper` | pass | 238,672 | watchdogs, low voltage, log; rounds of polls and the watchdog they feed |

A passing run checks at most one type invariant, alone or as the first conjunct of
an invariant named below; that of `Keeper` is proved (`KeeperTypeCorrect`). Every property has a mutant in PROJECT.json: a slip
of the code under which TLC finds it violated. The mutants stand in the modules
just before the definition they change, marked "A slip".

### RF operating system (`MCRfOs`, `RfTimersDrift`)

The list never has a slot served that nobody filled, also while a task of
another priority is inside SYS_SendMsg (`ListExclusive`, `FifoSpec`); at most
one EMN_RF_RX_READY waits (`OneRxReady`); SYS_Error(2) is unreachable
(`NoBadDestination`); an overflow resets the board and nothing else. Every
message is served and every timeout dispatched, although the event that wakes
the task may be cleared after it was set. Timers are early only by missed
ticks replayed on them (`NeverEarly`) and late by one tick for each replay
(`LagBounded`).

Bounds: a ring of three slots wraps and overflows; two timers expire together;
one poster is enough since NetworkRfSem admits one. `NoHandleMod` stands for
the 256 of the missed-tick byte; 2 lets it wrap. Fairness: the RF task runs
when it has work (its priority is above all tasks that compute for long),
ticks happen, and the 50-tick wait ends; a poster that holds the semaphore
goes on.

### Reception (`MCPhyRx`)

Whatever peers do, the ring is accounted for (`RingAccount`) and MAC_ComBuf is
read before it is written again (`HandedOver`). With patient peers frames are
whole, a lost packet costs its own frame and at most the one after it, no
assertion of the layer fails, and no packet stays in the radio (`WholeFrames`,
`LossContained`, the last conjunct of `RingAccount`, `PacketRead`). Eager
peers break this: EMN_PHY_RX_IND carries the head of the ring at the moment
its frame is complete (network_phy.c:575), so that of two frames complete
before the first is released the second is indicated as the first, and its
release trips the assertion at 480-483. Two losses in a row can also splice two
frames, and a packet complete between lines 180 and 514 is read by nobody.

Bounds: four slots and frames of up to three packets, so that frames wrap and
the ring fills; three frames, so that one can be lost between two others.
Fairness: the RF task only; peers may fall silent.

### Sending (`MCMacLink`, `MCMacLinkPaging`)

No request is forgotten (`NoOrphan`), retransmissions are bounded when the
messages are served in time (`RetryBound`), and sending comes to rest
(`Quiesces`). An acknowledgement that finds the retransmission already in the
list does not stop it (network_dlc.c:787): the request is sent once more. The
confirmation of each page stops the timer of the next (`MCMacLinkPaging`):
with `DICOR_STATIC_REG_TAB` 0 the radio network is never set up, and the data
path is the RS485 one. Resets of the board by SYS_Error are end states; two
ways into them, an error acknowledgement with nothing to send again and a data
frame before set-up, are in the hazards.

Bounds: two frames received and two requests, so that each meets the
retransmission of the other; `MaxResend` is the program's 2, `MaxDis` 3
instead of 30. Fairness: the RF task runs, a running timer expires.

### Polling and commands to nodes (`MCNodeApp`)

`PollingAlive`: while nodes are to be polled the chain of messages and timers
is never broken, whatever is lost, late or asked in between. Excepted (`lost`):
an upgrade command or its answer handled while polling was on, since it stops
the polling's timer (dicor_network_apl.c:642, 647: a missing break makes the
answer of an upgrade start it again, too); and the very first request taken
before the shell has filled in its type, which posts message 0 (the flag is
raised first, network_os.c:249). `ReportedDone`: a shell that reports success
has had this very request carried out by the node it named. In mode DIHAVST4
a set command never succeeds: its confirmation is ignored there, as no command of
this build is of the type HAVST_SEND_CMD (dicor_network_apl.c:705-722). Excepted
(`mixed`): after a request was given up, so that it or its answer may still
come; when requests of two shells overlap or one was taken half written; and
when two chains, the second started by an answer later than its timeout, took a
request twice or overwrote one in NWK_ComBuf. A request may be taken before its
flag was raised, too: the shell gets the answer to a GET from the NWK layer
(network_nwk.c:138), one message before the APL layer lowers the flag
(dicor_network_apl.c:750). The run is too small for this; an instance with
three commands on two nodes showed it while the proof was prepared.
`EverySubnetPolled`: every subnet of the table is asked again
and again, unless a node never stops saying that it has more.

Bounds: a table with a node of the gateway's own subnet, a router and a node
behind it; one command besides the set-up of the network; two messages in the
list when another event occurs, and one answer under way, so that a late
answer meets the next request. Commands: setting and getting a parameter, and
both upgrades. Fairness: the RF task, the timer and the shells; nothing is
assumed of nodes, radio or whoever gives commands.

### Upload (`MCUpload`)

`Accounted`: every sample completed is at the data centre, in the transmit
buffer of the connection, on the card or in the buffer, or lost in one of the
ways the code lets it: accepted by send() and lost with the connection
(`conn.dropped`: nobody asks whether a record arrived, and one from the card is
deleted as soon as it is accepted), a direct send that failed, the first package
of a connection, the version message, or a race.
`WholeOrRaced`: a record sent or saved is one whole sample unless it was (1) taken
between CAN_READ and write_index (thirddev_gateway.c:96-99), (2) taken while
another task was half way through a record, (3) left by a task killed half way, or
by one that was half way when the sample of a command went into the buffer,
(4) written again while send() or the card took it, (5) taken with the header of the
version message (Dicor_upload.c:1421), or (6) taken after that message was written
over its first bytes, of which only the type is put back (1258-1271, 1427). The
six races are real in the code; the property shows there is no other. `InOrder`:
samples arrive in the order in which they were taken, although some go over
the card and some are lost. `Reconnected`: with the cable in, no task leaves
eth_st and the socket in a state that no task repairs. `Drained`: a buffer
marked CAN_READ is always emptied.

On the way: `unsigned char count == -1` never holds
(third_device.c:314, 341), so that a failed registration goes on with no
devices; the list of devices outlives a task that was killed, and a new one
registers them again; the commands 0x02, 0x0a, 0x05, 0x31 and 0x51 kill the
third-device task and create none, 0x45 creates a second.

Bounds: two task identities, a gateway of nodes and a meter, two samples (one of
them set aside for the task whose device has answered), one fault and one command
of each kind of script, a transmit buffer of one record (the code's holds two, a
record of 1130 bytes each; the smaller one fills with the samples of the run). The
first half of a record stands for what is in the buffer when send() begins, the
second for what is there when it ends. Fairness: each task that is ready runs; TCP
gives up on a cable pulled, and what an open connection accepted arrives in the
end. Faults are never forced.

### Store and forward (`MCBreakpoint`, `MCBreakpointSwitch`)

`offset` leaves out eight bytes for each record read, so that after a failed
send the reader is put inside an earlier record and searches for the next
header; `NothingPassedOver` shows that records are sent twice by this but
never passed over, as long as the position stays in its file, whichever answer
`feof` gives and with power failing anywhere. `InOrder` shows that records
reach the data centre in the order in which they were produced, `Drains` that
the card is emptied, `OpenHandles` that a closed handle is used only after a
start that found the card torn. Records are given up (`lost`) where the code
does so: the first live record after a connection, a live record whose send
fails, the record in hand when power fails or when it came with the end of the
last file. A start that finds FileCounter and the files disagreeing is noted
in `torn`; the source says that power failures are not considered
(breakpoint.c:352, 369). `MCBreakpointSwitch`: bak_offset survives a change of
file, and a send that fails right after it passes over records of the new
file, which is then deleted.

Bounds: two records to a file and two units to a record (the lag reaches a
whole record within a file), six records, two failures and one power failure;
two files with a change between them, the second still growing, are covered.
Fairness: the upload task runs, the connect task tries again every second and
succeeds in the end, and power comes back. Failures are never forced.

### RS485 (`MCModbus`)

A poll is three exchanges (thirddev_gateway.c:58-62): the synchronisation, the
start of the collection (0x46) and the read. The wait for a sample reads on until
it finds an answer to a poll or nothing comes for twenty reads (modbus.c:1513-1524);
those for the other commands read on as long as what came is from somebody else.

`TrueReport`: the data centre is told of a success, of a command or of a step of
a load, only when the coordinator carried out what was asked last - provided the
command was alone on the bus (the third-device task may poll at the same time,
and a read takes whatever frame is first), no frame was cut and no step of the
load repeated; the reading of a parameter (modbus.c:868-940) is reported as a
success whatever came. The last try of a step tells the code of whatever was
read last, also when that is the success of another step (modbus.c:1171-1183).
`EndAfterWrites`: the loader ends a node's program only when the node holds
every chunk, unless a step was repeated or a request of a load given up before
is still on its way: the late answer passes for that of the next chunk.
`ResetAfterSilence`: the coordinator is reset, and the gateway with it, only
after as many failed polls in a row as the code asks for - one less when the
radio has confirmed a parameter in the flag they are counted in
(modbus.c:1660). `Answered`: a command ends, and the data centre was told how,
except in the cases of `Untold`: the last thing read was neither answer nor
silence, a sample long enough and of no use (modbus.c:1528-1541, 1615-1633), a load
that found no memory or no file (upgradedidi.c:398-413, Dicor_upload.c:669-674), and
a restart. `Gathers`: good samples come in again and again, unless the third-device
task was killed for good, a node stays in its loader, or the coordinator has
another address than the gateway believes: command 0x10 stores the new address
whether it was confirmed or not, and a power failure between the erase and the
write (eeprom.c:265-270) goes back to the default.

Bounds: all eleven commands, a program of two chunks, three failed polls
instead of 4 and 12, two faults, one command and one set command of the shell.
Fairness: the coordinator answers requests it heard, the third-device and the
upload task run, and the minute of a reset ends.

### Flash and update (`MCConfig`)

`Sound`: once EepromInit is through, the flash has a valid head, the version
of the program that runs and a valid record for the boot loader, whatever
ended the last run; it keeps them until two tasks meet in EepromWrite
(`raced`: one static handle, eeprom.c:31, 126-139) or a register table without
its end mark is read (`overrun`: page after page over the following sectors).
`AskedFor`: the boot loader is told to load only a version that the shell or a
version file downloaded whole asked for, unless a failed download was reported
as a success (tftp.c returns only the first error and a second silence) or the
record was hit. `Installed`: the tables installed by command 0x07 from two good
files stay together through restarts, updates, repairs and the setting of
fields. It does not speak of an installation beside which a table was written
(`beside`): nothing keeps the shell from writing another file between the two
tables of 0x07, and the mixture is then answered as a success.

Bounds: two versions and two contents (told from what was there before and from
junk), both symmetric, which is sound as only invariants are checked; two commands and two power
failures, each of which may cut any step short; every command of the data centre and of the shell that writes. The comparison
of versions is commented out in the source and absent here. Safety only.

### Watchdogs, voltage, log (`MCKeeper`)

A watchdog that nobody feeds for its period expires, whatever its task does: the
log task's is fed by a message, the radio task's by a message of the polling, the
upload task's by a packet of the data centre, and the lost-log task's, armed by day,
only while Pulldown_Cc2530_flag is set; all of them may restart a gateway that
works. What can be said of the third-device task follows below.
`Recovers`: a watched task that is stuck or starved, an expired watchdog and a
drop of the voltage end in a restart, or in the watchdog being switched off by
another task - unless (`Wedged`) the log task with its semaphore, or the watchdog
task itself, waits for the lock of the card, held by a destroyed task or by one
kept from running (pmu.c:199, Dicor_upload.c:1996, 2009). `LogsGoOn`: a log that
lost all its messages to files it could not open (Logging_Task.c:152) is silent
only until its own watchdog restarts the gateway.

Bounds: two messages, two tasks stuck at once. Fairness: a task that holds the
card and is able to run gives it back; strong for the log task, the watchdog task
and the end of a period, whose priority is higher than that of the tasks that keep
disabling them.

### Rounds of the third-device task (`Rounds`, in `MCKeeper`)

`Keeper` and `Rounds` share no variable; the run explores each with the other at rest.

The task feeds its watchdog when a round is over (third_device.c:414-420), not
between two devices of a round; a good sample feeds it too, but only while the
data centre is connected (thirddev_gateway.c:100-123). `FedInTime`: it does not run
out as long as the longest polls of all devices of the table fit the hour
together. This is an assumption (`RoundsAssumption`), not a check of the code: with
all its waits and retries one poll takes up to about 4.75 minutes, so that more
than twelve devices that are due together and do not answer may restart a gateway
that works, while the table may have 127 (THIRDDEV_CFG_POLL_MAX). The periods are
said to be in units of 10 ms (thirddev_gateway.c:133), but they are counted in
rounds, each of which takes as long as its polls.

Not part of it: the wait of a meter for THIRD_DEVICE_DATA_START, which has no limit
(`Upload`), and the list of devices of a task that was destroyed, which the next
task lengthens (`Upload`; what its nodes are once MQX has given back the memory of
their task is not modelled).

Bounds: three devices with periods of one, two and three rounds, so that all are
due together in every sixth; polls of up to four ticks against an hour of fifteen,
the least the assumption allows. Safety only.

Deadlock is checked in the runs of `RfOs` and `RfTimersDrift`; the others may
stop (peers finished, the board reset, bounds reached).

## 4. Proofs

Eight modules hold the theorems. TLC checks a small instance of each statement;
the theorems hold for every value of the constants that the named assumptions
of the modules allow (a ring of at least two slots, positive sizes, at least
one resend, "blank" and the other marks are not versions, a list that takes at
least the message that starts the polling, commands that are those of the shells,
and so on).

`RfOsProofs`: `Invariance`, and from it `TypeCorrect`, `ListExclusiveCorrect`,
`RingCoherentCorrect`, `OneRxReadyCorrect`, `NoBadDestinationCorrect`,
`TimersCoherentCorrect`. None of the invariants is inductive alone. `PlacesOK`
adds what holds at each place of the loop: that `OneRxReady` survives the post
needs the interrupt to be locked out between the post and the clear;
`NoBadDestination` needs that every timer the scan has still to visit has an
owner and does not run; the ring needs that no poster is inside SYS_SendMsg
while the loop works on the list. The lemmas say what writing and releasing a
slot do to the set of slots in use, what SYS_SendMsg keeps and what a tick does
to the timers; then there is one lemma for each action.

Also there: `ListImplementsQueue`, that every step of the loop, of a poster and
of the interrupts maps to a step of `MsgFifo` or a stutter. The queue is the
messages in the slots from the head on, less the one a poster has counted but not
yet written. `AppendLemma` and `TailLemma` carry this through the wrap of the
ring; the invariant above supplies that the slot written is not in use.

Also there, of `RfTimersDrift`: `NeverEarlyCorrect`, `LagBoundedCorrect`. To be kept by
the replay, both bounds must count the ticks that are still to be replayed, and a
timer is never both running and expired.

`PhyRxProofs`: `RingAccountCorrect`, `HandedOverCorrect`, `WholeFramesCorrect`,
`LossContainedCorrect`. The first two hold whatever the peers do and rest on the
order of the list (`OrderOK`): one EMN_RF_RX_READY at a time, an indication always
behind the announcement of the frame before it. The other two hold of patient
peers and need `PatientOK`: while a frame is dealt with nothing is received, so
that the one indication or release names the head of the ring (`TurnsOK`,
`IndicatedOK`); the packets collected are the first of one frame, and the packet in
flight is the one behind them, the next but one, or the first of another frame
(`CollectedOK`, `FlightOK`); a frame spared by every loss, and whose predecessor was
spared, is collected packet by packet (`LossOK`). The slots held by the messages are
counted by a set (`Held`), with lemmas on what serving and posting do to it; then
there is one lemma for each handler and part.

`MacLinkProofs`: `NoOrphanCorrect`, `RetryBoundCorrect`. `Orphans` ties the
resend buffer to the timer and the messages, `Paging` says that one page token is
under way (so that the number of pages passes its limit once), `Retry` that,
without haste, one message at most asks for the request, none while the timer has
expired, and each repetition is counted before it is made. Messages are counted
by their kind, with lemmas on the head, the tail and the join of sequences.

`ConfigProofs`: `AskedForCorrect`. What is still to be done is part of the
invariant: every step of every script leaves the record of the boot loader idle
or orders a version that was asked for, and a version file is analysed only after
its download. The scripts of all other commands are `Plain`; that `asked`,
`misled` and `torn` only grow carries the rest over.

Also there: `SoundCorrect`, `InstalledCorrect`, whatever the numbers of versions,
contents, commands and power failures. `Form` says what scripts look like: what
decides the next step stands last, the record is never erased without an order
behind it, an 0x07 writes one content and every repair of the head before the
configuration. `HandleOK`: as long as none was replaced, the handle of a task stands
where that task sought, so a write ends in the sector it was meant for. A sector is
then what `Sound` asks (`Good`), or the step that repairs it is still to come
(`Repairs`, `Ordering`) - on the flash and in the cache of a write that has erased
the sector. In the same way the tables of an 0x07 are in the flash or still to be
written (`WholeOK`) until its restart makes them the installed ones (`InstalledOK`).
`Moves` is what a step does to the scripts, the lemmas on frames what it leaves
alone, and there is one lemma for each action.

In `RfOsProofs`, of `Keeper`: `KeeperTypeCorrect`. The lock of the card and the
semaphore of the log have the holders the places of the tasks say, and the messages
of the pool are free, waiting, in hand or lost, whatever gets stuck or is destroyed.

Also there, of `Rounds`: `FedInTimeCorrect`. The time since the last feed is bounded by
the places passed since: `PollTime` for each device before the next one to visit,
a tick for each of the two short waits, and what was waited in the present one.
Periods do not matter: in the worst round all devices are due.

`BreakpointProofs`: `OpenHandlesCorrect`. While the card is in use the handles
are those of the files the indices name and both files exist (`HandlesOK`); the
one exception is the first record after a start that found the card torn.
`ChangeOK` says what remains of this while one file gives way to the next, and
`EmptyOK` that the indices are zero where no record waits. The type invariant
does not bound the length of a file: that a file never holds more than `Full`
records and one is not inductive, so the sizes are left to TLC.

Also there: `NothingPassedOverCorrect`, from `Covered`: a record saved
is sent, lost, in hand, or ahead of the position. For this the number of the
record where a failed send puts the position back (`BackOne`) must not exceed
that of the next one (`NextOne`), which rests on `Offset` never running ahead of
the position (`OffsetOK`: it counts records without their headers), and no record
may be in two files (`NumbersOK`, `HandOK`). `DivLemma` to `LagLemma` are the
arithmetic of positions and record numbers. `Covered` and `PlaceOK` are stated under
`Clean`: the code does pass over records after the switch of files
(`MCBreakpointSwitch`) and on a torn card.

And `InOrderCorrect`, under the same `Clean`: a record leaves for the first time
only when every record before it was sent or given up. Every number given out is
saved, sent, lost or in the upload buffer, which holds the newest (`Known`,
`NewestOK`); the files, and the records in each, stand in the order of writing
(`Sorted`); nothing is left in a file that is not still to be read (`RangeOK`);
and the record read last is older than all that is left elsewhere (`HandFirst`).
What is older than the record in hand is then in no file ahead of the position,
and `Covered` supplies that it was sent or given up.

`ModbusProofs`: `TrueReportCorrect`, `EndAfterWritesCorrect`,
`ResetAfterSilenceCorrect`, for every set of commands the model has an order for
and every number of chunks, resends and faults; the limits of the two counters
of failed polls need only be ordered (2 <= 4 <= 12 in the code). `AloneOK`:
while a command waits alone on the bus, whatever is on its way answers it, and no
poll is. `LoadOK`: the steps left are the end of the loader's script, the node
holds the chunks of the steps done, and of the step under way there is one request
or its answer, never both - this is what a repeated step destroys. `FailuresOK`:
neither counter exceeds the polls that failed in a row, but for the one the radio
adds. There is one lemma for each of these and each kind of step.

`NodeAppProofs`: `PollingAliveCorrect`, for every registration table, set of
shells, nodes and commands. `ListOK` types the messages: which task gets which,
and what comes with it. `ParseOK` ties the evaluation of a round to its one
message in the list. `UsersOK` says of the scripts that polling is enabled only
right before the chain is started (`KickFollows`, a lemma about the command tables).
`Alive` is the property itself: the chain is a timer, a message or the shell about
to start it. Lemmas say what a handler's reply and a message posted between
handlers do to the list; then there is one for each handler and each step of a shell.

Also there: `ReportedDoneCorrect`. As long as nothing was mixed up one shell asks
at a time (`OneAsks`); `Written` says, for each place of its request, what it has
written, and that a flag it finds set is that of a request carried out; the flag
for the RF task is up only while somebody asks or its request was taken
(`Flagged`). From the moment the chain takes the request one message (`OnTheWay`)
or one answer (`InTheAir`) at most carries it, and what it carries is what the
shell wrote (`Bears`, `OneWay`). `CalmStays` is the lemma for the many steps that
do not touch a request; `HandOn` that for the messages that take it further.

`UploadProofs`: `AccountedCorrect`, `WholeOrRacedCorrect`, `InOrderCorrect`, for
every list of devices, size of the transmit buffer and any number of tasks,
samples, commands and faults. `Places`: one task at a time fills the buffer, with a
sample set aside for it, and a resend is of the head of the card. `Fate`: a
completed sample is delivered, in the transmit buffer, dropped with it, lost, on its
way or on the card, where a record that is not whole was counted as lost.
`OneSample`: while nobody is half way through a record and no version message was
written over it the buffer holds one sample, and a transfer no race is noted for
sends that one. `Order` and `Wire`: the buffer holds the newest sample, the card is
sorted, so is the transmit buffer; nothing on the card is older than what was sent,
and nothing sent older than what the data centre has. None of the three
statements is inductive without the others: a transfer is as old as the buffer was
when it began, and the buffer may be overwritten, freed or torn before it ends.

Only model-checked: liveness, which is out of the prover's reach, as is ENABLED
(`EveryMessageServed`, `EveryTimeoutDispatched`, `PacketRead`, `Quiesces`,
`EverySubnetPolled`, `Reconnected`, `Drained`, `Drains`, `Answered`, `Gathers`,
`Recovers`, `LogsGoOn`). Every safety property of the passing runs has its
theorem. No module uses a RECURSIVE operator; nothing is claimed of functions on
data of unbounded size.

## 5. What the plan has left

- An abstract store-and-forward queue, refined by `Breakpoint` and used by
  `Upload` in place of its card.
- The set-up of the radio network, should a build reach it.

## 6. Not modelled, and why

- The set-up of the radio network (beacons, registration, routing table) and
  the relaying of frames in network_dlc.c: this build never gets there
  (`MCMacLinkPaging`), and the endless loop without a route
  (network_dlc.c:727) depends on tables only the set-up fills.
- Splitting a frame into packets and carrier sense (network_phy.c): output of
  the radio without a decision the properties depend on.
- NWK_WriteSampleData2 (network_nwk.c:210-305) copies a radio sample into the
  upload buffer with a length that may be uninitialised, and unlocks a mutex it
  may not hold; it runs only when radio nodes answer with samples. Its wait
  inside a handler is `RadioWaits` of `Keeper`.
- The 8245 upgrade and the radio loader (OPT_* in modbus.c, most of
  upgradedidi.c): called by nobody in this build.
- What a closed file handle points to (breakpoint.c:194): decided by the
  memory pool of MQX.
- Shell commands that print or set a variable, terminal input and output of
  the telnet servers, LEDs, conversions, register access of the drivers, the
  calls of the network library, disabled tasks, the V3 harvester application.
