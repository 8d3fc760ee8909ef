------------------------------- MODULE Modbus -------------------------------
(* The RS-485 bus between the gateway and the coordinator of the nodes.  The *)
(* third-device task reads samples (command 0x04), the upload task executes  *)
(* the server's commands, one of them the loader that programs a node; both  *)
(* write to the bus and read the one receive buffer without a lock.  Polls   *)
(* that fail too often reset the coordinator and restart the gateway; they   *)
(* are counted in SetParameterData.flag, the byte by which a set command of  *)
(* the shell waits for the radio to confirm it.                              *)
(*                                                                           *)
(* A read empties the buffer and looks at its first frame only; what is cut  *)
(* off a frame reads as zeros, and zero is the code of success.  The         *)
(* coordinator is external: it carries out requests in their order, may be   *)
(* slow, lose or refuse one, hang or answer every poll with an error.        *)
EXTENDS Integers, Sequences
CONSTANTS
  Commands,                  \* commands of the server
  Chunks,                    \* chunks of a node's program
  Retries,                   \* re_wtimes of DETECT_ISP_CMD
  NoAnswers, Errors,         \* failed polls before the reset: 4 and 12
  MaxFaults, MaxCommands, MaxSets       \* bounds
ASSUME ModbusAssumption ==
  /\ Chunks \in Nat \ {0}
  /\ {NoAnswers, Errors} \subseteq Nat /\ 2 <= NoAnswers /\ NoAnswers <= Errors
  /\ Retries \in Nat \ {0} /\ {MaxFaults, MaxCommands, MaxSets} \subseteq Nat

VARIABLES
  CoodAddr, stored,          \* the coordinator's address: in use, in the flash
  node,                      \* the coordinator: [addr, health, boot, flash]
  todo, rx,                  \* requests on their way, frames received and not read
  poller,                    \* third-device task
  flag, cmd_04_error_flag,   \* SetParameterData.flag and the errors in a row
  up, cmd, script, try,      \* upload task: where, command, steps left, resends
  shell,                     \* a set command of the shell
  reported,                  \* what the server was told of the command (history)
  quiet,                     \* the command was alone on the bus (history)
  resent,                    \* a step was repeated, or one of an earlier load is on its way
  silent,                    \* polls in a row without a good answer (history)
  faults, served, sets       \* bounds

addrVars == <<CoodAddr, stored>>
busVars  == <<todo, rx>>
pollVars == <<poller, flag, cmd_04_error_flag, silent>>
upVars   == <<up, cmd, script, try, reported, resent, served>>
shVars   == <<shell, sets>>
vars == <<addrVars, node, busVars, pollVars, upVars, shVars, quiet, faults>>

(***************************************************************************)
(* The commands: whether the receive buffer is emptied before the request  *)
(* is written, and the function that waits for the answer.                 *)
(***************************************************************************)
SetRouterTable == [code |-> "router",   clears |-> TRUE,  waits |-> "detect"]   \* 0x51
SetFFDTable    == [code |-> "ffdtable", clears |-> FALSE, waits |-> "detect"]   \* 0x66
BindRFD        == [code |-> "bind",     clears |-> FALSE, waits |-> "detect"]   \* 0x45
StartCollect   == [code |-> "collect",  clears |-> FALSE, waits |-> "detect"]   \* 0x42
SetAddress     == [code |-> "address",  clears |-> TRUE,  waits |-> "detect"]   \* 0x10
GetParameter   == [code |-> "param",    clears |-> TRUE,  waits |-> "once"]     \* 0x03
StartPoll      == [code |-> "start",    clears |-> TRUE,  waits |-> "detect"]   \* 0x46
TurnOn         == [code |-> "on",       clears |-> FALSE, waits |-> "detect"]   \* 0x41
ShutDown       == [code |-> "off",      clears |-> FALSE, waits |-> "detect"]   \* 0x44
ReadSample     == [code |-> "read",     clears |-> TRUE,  waits |-> "sample"]   \* 0x04
LoadNode       == [code |-> "load",     clears |-> TRUE,  waits |-> "isp"]      \* 0x31
Orders == {SetRouterTable, SetFFDTable, BindRFD, StartCollect, SetAddress, GetParameter, StartPoll,
           TurnOn, ShutDown, ReadSample, LoadNode}
ASSUME CommandsAssumption == Commands \subseteq Orders

Sync == [code |-> "sync", n |-> 0]

EnterIap     == [code |-> "enter", n |-> 0]
LoadPreamble == [code |-> "preamble", n |-> 0]
EraseFlash   == [code |-> "erase", n |-> 0]
WriteFlash(k) == [code |-> "write", n |-> k]
EndIap       == [code |-> "end", n |-> 0]
Loader == <<EnterIap, LoadPreamble, EraseFlash>>
          \o [k \in 1 .. Chunks |-> WriteFlash(k)] \o <<EndIap>>
OfLoader(q) == q.code \in {"enter", "preamble", "erase", "write", "end"}

NoCommand == [code |-> "none", clears |-> FALSE, waits |-> "none"]
Steps(c) == IF c.waits = "isp" THEN Loader ELSE <<[code |-> c.code, n |-> 0]>>
Kills(c) == c \notin {SetFFDTable, BindRFD}
\* 0x45 creates a second task: module Upload
Creates(c) == c \notin {SetFFDTable, LoadNode, SetRouterTable}

Noise == [code |-> "noise", by |-> "none", own |-> FALSE, ok |-> TRUE, cut |-> FALSE,
          addr |-> "none"]
Fault == faults < MaxFaults /\ faults' = faults + 1
Min2(a, b) == IF a < b THEN a ELSE b

Init ==
  /\ CoodAddr = "D" /\ stored = "none" /\ todo = <<>> /\ rx = <<>>
  /\ node = [addr |-> "D", health |-> "ok", boot |-> FALSE, flash |-> 1 .. Chunks]
  /\ poller = "idle" /\ flag = 0 /\ cmd_04_error_flag = 0 /\ silent = 0
  /\ up = "idle" /\ cmd = NoCommand /\ script = <<>> /\ try = 0
  /\ shell = "idle" /\ reported = "none" /\ quiet = TRUE /\ resent = FALSE
  /\ faults = 0 /\ served = 0 /\ sets = 0

(***************************************************************************)
(* The bus and the coordinator.                                            *)
(***************************************************************************)
Request(by, s) == [code |-> s.code, n |-> s.n, by |-> by, own |-> TRUE, addr |-> CoodAddr]
Hears(q) == q.addr = node.addr /\ node.health # "hung" /\ ~(node.boot /\ q.code = "read")
\* rs485_write, the frame arrives or is lost
Puts(q) == \/ todo' = (IF Hears(q) THEN Append(todo, q) ELSE todo) /\ UNCHANGED faults
           \/ Hears(q) /\ Fault /\ UNCHANGED todo
\* Frames that answer a talker who no longer waits for them.
Stale(s, by) == [i \in DOMAIN s |-> IF s[i].by = by THEN [s[i] EXCEPT !.own = FALSE] ELSE s[i]]
Outstanding(by) == \E i \in DOMAIN todo : todo[i].by = by /\ todo[i].own /\ Hears(todo[i])
CarriesOut(q) ==
  node' = CASE q.code = "enter"   -> [node EXCEPT !.boot = TRUE]
            [] q.code = "erase"   -> [node EXCEPT !.flash = {}]
            [] q.code = "write"   -> [node EXCEPT !.flash = @ \cup {q.n}]
            [] q.code = "end"     -> [node EXCEPT !.boot = node.flash # 1 .. Chunks]
            [] q.code = "address" -> [node EXCEPT !.addr = "N"]
            [] OTHER              -> node
Works(q) == /\ q.code = "read" => node.health # "sick"
            /\ q.code = "end" => node.flash = 1 .. Chunks
Frame(q, ok, cut) == [code |-> q.code, by |-> q.by, own |-> q.own, ok |-> ok, cut |-> cut,
                      addr |-> IF q.code = "address" /\ ok THEN "N" ELSE node.addr]
Respond ==
  /\ todo # <<>> /\ todo' = Tail(todo)
  /\ LET q == Head(todo)
     IN \/ ~Hears(q) /\ UNCHANGED <<rx, node, faults, quiet>>
        \/ /\ Hears(q) /\ UNCHANGED <<faults, quiet>>
           /\ IF Works(q) THEN CarriesOut(q) ELSE UNCHANGED node
           /\ rx' = Append(rx, Frame(q, Works(q), FALSE))
        \/ /\ Hears(q) /\ Fault                        \* refused, perhaps cut short
           /\ \E cut \in BOOLEAN :
                rx' = Append(rx, Frame(q, FALSE, cut)) /\ quiet' = (quiet /\ ~cut)
           /\ UNCHANGED node
        \/ /\ Hears(q) /\ Works(q) /\ Fault            \* done, the answer lost or cut
           /\ CarriesOut(q) /\ quiet' = FALSE
           /\ rx' \in {rx, Append(rx, Frame(q, TRUE, TRUE))}
  /\ UNCHANGED <<addrVars, pollVars, upVars, shVars>>
Hiccup ==
  /\ Fault
  /\ \/ /\ node.health = "ok" /\ UNCHANGED rx
        /\ \E h \in {"hung", "sick"} : node' = [node EXCEPT !.health = h]
        /\ todo' = IF node'.health = "hung" THEN <<>> ELSE todo
     \/ rx' = Append(rx, Noise) /\ UNCHANGED <<node, todo>>
  /\ UNCHANGED <<addrVars, pollVars, upVars, shVars, quiet>>

(***************************************************************************)
(* A restart, and the reading of a sample, by the third-device task or by  *)
(* the upload task ("collect").                                            *)
(***************************************************************************)
Reboot ==
  /\ CoodAddr' = (IF stored = "none" THEN "D" ELSE stored) /\ rx' = <<>>
  /\ poller' = "idle" /\ flag' = 0 /\ cmd_04_error_flag' = 0
  /\ up' = "idle" /\ cmd' = NoCommand /\ script' = <<>> /\ try' = 0 /\ shell' = "idle"
  /\ reported' = "restart" /\ resent' = FALSE /\ todo' = <<>>
  /\ UNCHANGED <<stored, quiet, silent, served, sets>>
PowerFails == Fault /\ Reboot /\ UNCHANGED node
\* The coordinator is held in reset for a minute, then Dicor_Reboot.
ResetDone ==
  /\ poller = "reset" \/ up = "reset"
  /\ Reboot /\ UNCHANGED faults
  /\ node' = [node EXCEPT !.health = "ok", !.boot = node.flash # 1 .. Chunks]

\* Modbus_RecvReadRegData reads on until an answer to a poll, 20 times; the
\* checksum of the answer is taken over all that was read with it.
FromCood(f) == f.code # "noise" /\ f.addr = CoodAddr
Heard  == rx # <<>> /\ FromCood(Head(rx))
Answer == Heard /\ Head(rx).code = "read"
GoodKeepsFlag == UNCHANGED flag /\ cmd_04_error_flag' = 0     \* A slip
Good == flag' = 0 /\ cmd_04_error_flag' = 0
Whole == Len(rx) = 1 /\ Head(rx).ok /\ ~Head(rx).cut
GoodSample == Answer /\ Whole /\ Good /\ silent' = 0
\* Where a failed poll is counted: no answer, an error, or nowhere (what is
\* long and no sample, or has a bad checksum)
CountedSilence ==             \* A slip: error answers are not counted
  IF Answer THEN {"crc"} ELSE {"none"}
Counted == CASE rx = <<>> -> {"none"}
             [] Answer /\ Len(rx) = 1 /\ ~Head(rx).ok -> {"error"}
             [] OTHER -> IF Heard THEN {"error", "crc"} ELSE {"none", "crc"}
TooMany(c) == \/ c = "none" /\ flag + 1 = NoAnswers
              \/ c = "error" /\ cmd_04_error_flag + 1 = Errors
BadSample(c) ==
  /\ ~(Answer /\ Whole)
  /\ c \in Counted /\ silent' = Min2(silent + 1, Errors)
  /\ IF TooMany(c) THEN flag' = 0 /\ cmd_04_error_flag' = 0
                   ELSE /\ flag' = IF c = "none" THEN flag + 1 ELSE flag
                        /\ cmd_04_error_flag' = IF c = "error" THEN cmd_04_error_flag + 1
                                                ELSE cmd_04_error_flag
\* Skipping what is no answer, while there is time; then the coordinator was
\* slow, or does not answer at all.
Skips(answer) == rx # <<>> /\ ~answer /\ UNCHANGED faults
InTime(by, answer) == IF ~answer /\ Outstanding(by) THEN Fault ELSE UNCHANGED faults
HeldInReset(t) == t = "reset" /\ node' = [node EXCEPT !.health = "hung"] /\ todo' = <<>>

\* GATEWAY_ReadData: OPTIMUS_SYNC_Command, Modbus_SendStartCommand, and then
\* Read_Data_Command
Ask ==
  /\ \/ poller = "idle"   /\ poller' = "sync"  /\ Puts(Request("poll", Sync))
     \/ poller = "synced" /\ poller' = "start" /\ Puts(Request("poll", Steps(StartPoll)[1]))
     \/ poller = "ready"  /\ poller' = "asked" /\ Puts(Request("poll", Steps(ReadSample)[1]))
  /\ rx' = <<>> /\ quiet' = FALSE
  /\ UNCHANGED <<addrVars, node, flag, cmd_04_error_flag, silent, upVars, shVars>>
\* DETECT_POLL_TIME_OUT_Command: whatever the coordinator said
Synced ==
  /\ poller \in {"sync", "start"} /\ rx' = <<>>
  /\ \/ Skips(Heard) /\ UNCHANGED <<poller, todo>>
     \/ /\ poller' = IF poller = "sync" THEN "synced" ELSE "ready"
        /\ todo' = Stale(todo, "poll") /\ InTime("poll", Heard)
  /\ UNCHANGED <<addrVars, node, flag, cmd_04_error_flag, silent, upVars, shVars, quiet>>
Passes ==
  /\ Skips(Answer) /\ UNCHANGED <<poller, todo, node, flag, cmd_04_error_flag, silent>>
Gather ==
  /\ poller = "asked" /\ rx' = <<>>
  /\ \/ Passes
     \/ /\ \/ GoodSample /\ poller' = "idle" /\ UNCHANGED faults
           \/ \E c \in {"none", "error", "crc"} :
                /\ BadSample(c) /\ InTime("poll", Answer)
                /\ poller' = IF TooMany(c) THEN "reset" ELSE "idle"
        /\ \/ HeldInReset(poller')
           \/ poller' = "idle" /\ todo' = Stale(todo, "poll") /\ UNCHANGED node
  /\ UNCHANGED <<addrVars, upVars, shVars, quiet>>

(***************************************************************************)
(* The upload task executes a command.                                     *)
(***************************************************************************)
Begin ==
  /\ up = "idle" /\ served < MaxCommands
  /\ \E c \in Commands :
       /\ cmd' = c /\ script' = Steps(c)
       /\ poller' = IF Kills(c) THEN "off" ELSE poller
       /\ todo' = IF Kills(c) THEN Stale(todo, "poll") ELSE todo
       /\ rx' = IF Kills(c) THEN Stale(rx, "poll") ELSE rx
  /\ up' = "write" /\ try' = 0 /\ served' = served + 1
  /\ reported' = "none" /\ quiet' = TRUE
  /\ resent' = \E i \in DOMAIN todo : OfLoader(todo[i])
  /\ UNCHANGED <<addrVars, node, flag, cmd_04_error_flag, silent, shVars, faults>>
Loads == cmd = LoadNode
Talking == {"sync", "start", "asked"}
\* No memory, or no file of the program: the load ends without a word.
NoProgram ==
  /\ up = "write" /\ Loads /\ script = Loader /\ try = 0 /\ Fault
  /\ up' = "end" /\ reported' = "nofile"
  /\ UNCHANGED <<addrVars, node, busVars, pollVars, cmd, script, try, resent, served, shVars,
                 quiet>>
Write ==
  /\ up = "write" /\ up' = "wait" /\ reported' = "none"
  /\ rx' = IF cmd.clears THEN <<>> ELSE rx
  /\ Puts(Request("cmd", Head(script)))
  /\ quiet' = (quiet /\ todo = <<>> /\ poller \notin Talking /\ (cmd.clears \/ rx = <<>>))
  /\ UNCHANGED <<addrVars, node, pollVars, cmd, script, try, resent, served, shVars>>

\* DETECT_POLL_TIME_OUT_Command, DETECT_MESAGE_TIME_OUT_Command
AcceptsAny(f) == TRUE                   \* A slip: whoever sent it
Accepts(f) == f.code # "noise" /\ (f.addr = CoodAddr \/ (cmd = SetAddress /\ f.addr = "N"))
Told(f) == IF f.ok \/ f.cut THEN (IF f.own /\ f.ok THEN "ok" ELSE "false") ELSE "fail"
Ends == up' = "end" /\ UNCHANGED <<script, try, resent>>
NoReplyForgotten == UNCHANGED reported              \* A slip
NoReply == reported' = "fail"
Detect ==
  /\ cmd.waits = "detect"
  /\ LET heard == rx # <<>> /\ Accepts(Head(rx))
     IN \/ heard /\ Ends /\ reported' = Told(Head(rx)) /\ UNCHANGED faults
        \/ Skips(heard) /\ UNCHANGED <<up, script, try, resent, reported>>
        \/ ~heard /\ InTime("cmd", heard) /\ Ends
           /\ IF rx = <<>> THEN NoReply ELSE reported' = "unheard"   \* the last read: neither
  /\ UNCHANGED <<flag, cmd_04_error_flag, silent>>
\* Modbus_RecvReadParameter: one read, reported whatever it found
ReadParameter ==
  /\ cmd.waits = "once" /\ Ends /\ InTime("cmd", rx # <<>>)
  /\ reported' = IF rx = <<>> THEN "false" ELSE Told(Head(rx))
  /\ UNCHANGED <<flag, cmd_04_error_flag, silent>>
\* What is long and no sample is told of by nobody; whatever a poll came to, the
\* bytes go into the upload buffer as a record (module Upload).
Unreported(c) == c = "crc" /\ ~(Answer /\ Head(rx).ok)
Collect ==
  /\ cmd.waits = "sample" /\ UNCHANGED <<script, try, resent>>
  /\ \/ GoodSample /\ up' = "end" /\ UNCHANGED faults
        /\ reported' = IF Head(rx).own THEN "ok" ELSE "false"
     \/ Skips(Answer) /\ UNCHANGED <<up, reported, flag, cmd_04_error_flag, silent>>
     \/ \E c \in {"none", "error", "crc"} :
          /\ BadSample(c) /\ InTime("cmd", Answer)
          /\ reported' = IF Unreported(c) THEN "unheard" ELSE "fail"
          /\ up' = IF TooMany(c) THEN "reset" ELSE "end"
\* DETECT_ISP_CMD: whatever else the coordinator says, or nothing, repeats the
\* step; the last time the code of that is told, and the load is given up.
\* Boot_AnalysisHEX tells of each step, and of the chunks after the last one.
IspAcceptsAny(f) == FromCood(f) /\ f.ok       \* A slip: the code is not compared
IspAccepts(f) == FromCood(f) /\ f.code = Head(script).code /\ f.ok
LastWord == CASE rx = <<>> -> {"fail"}
              [] Heard -> {Told(Head(rx))}
              [] OTHER -> {"false", "fail"}
Again == IF try < Retries
         THEN try' = try + 1 /\ up' = "write" /\ resent' = TRUE /\ UNCHANGED <<script, reported>>
         ELSE Ends /\ reported' \in LastWord
StepDone ==
  /\ script' = Tail(script) /\ try' = 0 /\ up' = IF Len(script) = 1 THEN "end" ELSE "write"
  /\ reported' = IF Head(script).code = "write" /\ Head(script).n < Chunks THEN reported
                 ELSE Told(Head(rx))
Isp ==
  /\ Loads
  /\ LET done == rx # <<>> /\ IspAccepts(Head(rx))
     IN \/ done /\ StepDone /\ UNCHANGED <<resent, faults>>
        \/ Skips(Heard) /\ UNCHANGED <<up, script, try, reported, resent>>
        \/ ~done /\ InTime("cmd", Heard) /\ Again
  /\ UNCHANGED <<flag, cmd_04_error_flag, silent>>
Wait ==
  /\ up = "wait" /\ (Detect \/ ReadParameter \/ Collect \/ Isp)
  /\ rx' = <<>>
  /\ \/ HeldInReset(up')
     \/ up' = "wait" /\ UNCHANGED <<todo, node>>
     \/ up' \in {"write", "end"} /\ todo' = Stale(todo, "cmd") /\ UNCHANGED node
  /\ UNCHANGED <<addrVars, poller, cmd, served, shVars, quiet>>

\* After 0x10 the address is stored, the sector first erased; then the poller.
Store ==
  /\ up = "end" /\ cmd = SetAddress /\ stored' = "none" /\ up' = "erased"
  /\ UNCHANGED <<CoodAddr, node, busVars, pollVars, cmd, script, try, reported, resent, served,
                 shVars, quiet, faults>>
Done ==
  /\ \/ up = "end" /\ cmd # SetAddress /\ UNCHANGED addrVars
     \/ up = "erased" /\ stored' = "N" /\ CoodAddr' = "N"
  /\ up' = "idle" /\ poller' = IF Creates(cmd) /\ poller = "off" THEN "idle" ELSE poller
  /\ UNCHANGED <<node, busVars, flag, cmd_04_error_flag, silent, cmd, script, try, reported,
                 resent, served, shVars, quiet, faults>>

(***************************************************************************)
(* A set command of the shell: EMN_APL_SetParameter, the confirmation of    *)
(* the radio, and the shell looking at the flag until its time is over.    *)
(***************************************************************************)
ShellSet ==
  /\ shell = "idle" /\ sets < MaxSets /\ sets' = sets + 1 /\ shell' = "waiting" /\ flag' = 0
  /\ UNCHANGED <<addrVars, node, busVars, poller, cmd_04_error_flag, silent, upVars, quiet, faults>>
RadioConfirms ==
  /\ shell = "waiting" /\ flag' = 1 /\ shell' = "confirmed"
  /\ UNCHANGED <<addrVars, node, busVars, poller, cmd_04_error_flag, silent, upVars, sets, quiet,
                 faults>>
ShellEnds ==
  /\ shell # "idle" /\ shell' = "idle"
  /\ UNCHANGED <<addrVars, node, busVars, pollVars, upVars, sets, quiet, faults>>

UploadTask == Begin \/ NoProgram \/ Write \/ Wait \/ Store \/ Done
Next == \/ Respond \/ Hiccup \/ PowerFails \/ ResetDone \/ Ask \/ Synced \/ Gather \/ UploadTask
        \/ ShellSet \/ RadioConfirms \/ ShellEnds
Fairness == /\ WF_vars(Respond) /\ WF_vars(ResetDone) /\ WF_vars(Ask) /\ WF_vars(Synced)
            /\ WF_vars(Gather)
            /\ WF_vars(Write) /\ WF_vars(Wait) /\ WF_vars(Store) /\ WF_vars(Done)
Spec == Init /\ [][Next]_vars
FairSpec == Spec /\ Fairness

-----------------------------------------------------------------------------
(* Type invariant. *)
Codes == {"router", "ffdtable", "bind", "collect", "address", "param", "start", "on", "off", "read",
          "sync", "enter", "preamble", "erase", "write", "end"}
Parts == {p \in [code : Codes, n : 0 .. Chunks] : p.code = "write" => p.n > 0}
Requests == {q \in [code : Codes, n : 0 .. Chunks, by : {"poll", "cmd"}, own : BOOLEAN,
                    addr : {"D", "N"}] : q.code = "write" => q.n > 0}
Frames == [code : Codes \cup {"noise"}, by : {"poll", "cmd", "none"}, own : BOOLEAN, ok : BOOLEAN,
           cut : BOOLEAN, addr : {"D", "N", "none"}]
TypeOK ==
  /\ CoodAddr \in {"D", "N"} /\ stored \in {"none", "N"}
  /\ node \in [addr : {"D", "N"}, health : {"ok", "hung", "sick"}, boot : BOOLEAN,
               flash : SUBSET (1 .. Chunks)]
  /\ rx \in Seq(Frames) /\ todo \in Seq(Requests) /\ script \in Seq(Parts)
  /\ cmd \in Orders \cup {NoCommand}
  /\ poller \in {"off", "idle", "sync", "synced", "start", "ready", "asked", "reset"}
  /\ flag \in 0 .. NoAnswers /\ cmd_04_error_flag \in 0 .. Errors /\ silent \in 0 .. Errors
  /\ up \in {"idle", "write", "wait", "end", "erased", "reset"}
  /\ try \in 0 .. Retries /\ shell \in {"idle", "waiting", "confirmed"}
  /\ reported \in {"none", "ok", "false", "fail", "unheard", "nofile", "restart"}

(* The server is told of a success, of a command or of a step of a load, only *)
(* when the coordinator carried out what was asked last - provided the command *)
(* was alone on the bus, no frame was cut and no step of a load repeated; the  *)
(* reading of a parameter is reported as a success whatever came.             *)
TrueReport == TypeOK /\ (reported = "false" => cmd = GetParameter \/ ~quiet \/ resent)

(* The loader ends the programming of a node only when the node holds every   *)
(* chunk, unless a step was repeated or one of a load given up before is still *)
(* on its way: then the answer to the first copy can pass for the answer to   *)
(* the next step of the same code.                                            *)
EndAfterWrites ==
  Loads /\ up \in {"write", "wait"} /\ Len(script) = 1 => node.flash = 1 .. Chunks \/ resent

(* The coordinator is reset and the gateway restarted only after as many      *)
(* failed polls in a row as the code asks for - one less when the radio has   *)
(* confirmed a set command in the flag they are counted in.                   *)
ResetAfterSilence ==
  [][(poller' = "reset" /\ poller # "reset") \/ (up' = "reset" /\ up # "reset")
      => silent' >= NoAnswers - 1]_vars

(* Every command of the server ends, and then the server was told how: done,  *)
(* refused or no reply, in the end of every step of a load that was not a      *)
(* chunk before the last.  It is told nothing when the last read found a frame *)
(* that was no answer, when there was no memory or file for a load, and when   *)
(* the gateway restarted.                                                     *)
Untold == {"unheard", "nofile", "restart"}
Answered == up # "idle" ~> up = "idle" /\ reported \in {"ok", "false", "fail"} \cup Untold

(* As long as the third-device task is not killed for good and the gateway     *)
(* has the coordinator's address, good samples come in again and again: a      *)
(* coordinator that hangs or answers errors is noticed and reset.              *)
Gathers == \/ []<><<Gather /\ GoodSample>>_vars
           \/ <>[](poller = "off") \/ <>[](CoodAddr # node.addr) \/ <>[]node.boot
=============================================================================
