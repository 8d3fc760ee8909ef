------------------------------ MODULE NodeApp ------------------------------
(***************************************************************************)
(* The application layer of the radio network (dicor_network_apl.c) with   *)
(* the network layer below it (network_nwk.c), the independent-grid task   *)
(* (unconnected_grid.c) and the commands of the shells that ask nodes for  *)
(* parameters, set them or upgrade them (My_Shell_Commands.c,              *)
(* upgradedidi.c).  The nodes are polled in the order of the registration  *)
(* table; a command borrows the polling chain for one request.             *)
(*                                                                         *)
(* The RF task handles a message to its end and has a higher priority than *)
(* the tasks of the commands: it can run between any two of their steps.   *)
(* The list and the timer are those RfOs and RfTimers describe, the MAC    *)
(* layer (MacLink) sends what is in NWK_ComBuf when its turn comes, and    *)
(* the nodes answer soon, late or never.                                   *)
(***************************************************************************)
EXTENDS Integers, Sequences, FiniteSets, FiniteSetsExt

CONSTANTS
  RegTable,      \* the registration table: a sequence of [subnet, dev]
  WorkModes,     \* the values of workmode: "normal", "DIHAVST4"
  Users,         \* tasks that run commands: the shells
  Commands,      \* the commands they run
  Targets,       \* the nodes the commands are about: pairs as in the table
  MaxCommands,   \* bound: commands run, and times the network is set up
  MaxLag,        \* bound: messages in the list when another event occurs
  MaxAir         \* bound: answers under way; further ones are lost

ASSUME TableAssumption == RegTable \in Seq([subnet : Nat, dev : Nat])
ASSUME ModesAssumption == WorkModes \subseteq {"normal", "DIHAVST4"}
\* the list holds the message that starts the polling
ASSUME BoundsAssumption ==
  MaxCommands \in Nat /\ MaxLag \in Nat \ {0} /\ MaxAir \in Nat
ASSUME TargetsAssumption == Targets \subseteq [subnet : Nat, dev : Nat]

VARIABLES
  workmode,      \* fixed for a behaviour
  list,          \* the message list: [to, id, arg]
  timer,         \* EMN_AplTimer: its msgID while it runs, else "off"
  walk,          \* CurRegTabIndx, GetDataSubNet and GetDataDev
  EMN_NWK_State, \* "DIS_SCAN" or "CON"
  NWK_ComBuf,    \* the request being built or sent
  HAVST_State,   \* "START", "COLLECT_DATA", "PARSE_DATA"
  Get_Data_Flag, \* a command wants its request sent
  SetType, SetAddr,             \* the message to post for it, and SetSubnet/SetDev
  SetParameterData, GetParaData,\* [idx, dev, flag]
  NwkSetParaData,               \* [idx, dev]
  GetSubDateFlag,               \* nodes are to be polled
  UpgradeState,                 \* 0 waiting, 1 done, -1 timeout, other: error
  air,           \* answers of nodes not yet received
  user,          \* what each shell is doing
  commands,      \* commands run so far
  done,          \* history: requests nodes have carried out since the last
                 \* request was made, until mixed
  lent,          \* history: the chain has taken the last request made
  mixed,         \* history: requests may have been mixed up (see Mixing)
  lost           \* history: the chain may have been broken (see Losing)

listVars == <<list, timer>>
askVars  == <<Get_Data_Flag, SetType, SetAddr, SetParameterData, GetParaData>>
netVars  == <<EMN_NWK_State, NWK_ComBuf, NwkSetParaData, air>>
pollVars == <<walk, HAVST_State>>
history  == <<done, lent, mixed, lost>>
vars == <<workmode, listVars, askVars, netVars, pollVars, GetSubDateFlag,
          UpgradeState, user, commands, history>>

None == [subnet |-> 0, dev |-> 0]
Msg(task, id, arg) == [to |-> task, id |-> id, arg |-> arg]
StartGetData == Msg("APL", "START_GET_DATA", None)

-----------------------------------------------------------------------------
(* The commands: what each asks of the nodes, in order.  A "set" or "get"  *)
(* names the first parameter it is about and whether the command goes on   *)
(* when there is no answer.                                                *)
Ask(op, idx, go) == [op |-> op, idx |-> idx, go |-> go]
Do(op) == Ask(op, 0, TRUE)

Restart        == <<Do("enable"), Do("kick")>>
UpdateDiDi     == <<Ask("set", 56, FALSE)>>
GetDiDiVersion == <<Ask("get", 0, FALSE)>>
GetDiDiPt      == <<Ask("get", 0, TRUE), Ask("get", 20, TRUE),
                    Ask("get", 40, TRUE), Ask("get", 56, TRUE)>>
SetDiDiPt      == <<Ask("set", 56, TRUE), Ask("set", 70, TRUE)>>
GetDiAnArg     == <<Ask("get", 0, TRUE), Ask("get", 20, TRUE), Ask("get", 40, TRUE)>>
SetDiAnArg     == <<Ask("set", 4, FALSE), Ask("set", 15, FALSE), Ask("set", 28, FALSE),
                    Ask("set", 40, FALSE), Ask("set", 255, FALSE)>>
SetRFFreq      == <<Do("stop")>> \o Restart
StopPolling    == <<Do("stop"), Do("reset")>>
UpgradeSub     == <<Do("reset"), Do("upgradeNoRouter"), Do("await"), Do("stop")>> \o Restart
UpgradeRoute   == <<Do("stop"), Do("reset"), Do("upgradeRouter"), Do("stop"), Do("awaitLimited")>>
UpgradeDiDiSub == StopPolling \o <<Do("alloc")>> \o UpgradeSub \o Restart
UpgradeDiDi    == StopPolling \o UpgradeRoute \o Restart
DetectDevUpgrade == <<Do("alloc")>> \o UpgradeSub

ShellCommands == {UpdateDiDi, GetDiDiVersion, GetDiDiPt, SetDiDiPt, GetDiAnArg, SetDiAnArg,
                  SetRFFreq, UpgradeDiDiSub, UpgradeDiDi, DetectDevUpgrade}
ASSUME CommandsAssumption == Commands \subseteq ShellCommands

-----------------------------------------------------------------------------
(* The walk through the registration table: the nodes of the gateway's own *)
(* subnet (0) are asked one by one, another subnet through its router.     *)
Own(e) == e.subnet = 0
Entry(k) == ((walk.at + k - 1) % Len(RegTable)) + 1
FitsOwn(e) == Own(e)   \* A slip: other subnets are passed over
Fits(e) == Own(e) \/ e.subnet # walk.subnet
NextEntry ==
  LET ahead == {k \in 1..Len(RegTable) : Fits(RegTable[Entry(k)])}
  IN IF ahead = {} THEN walk
     ELSE LET i == Entry(Min(ahead)) IN
          [at |-> i, subnet |-> RegTable[i].subnet,
           dev |-> IF Own(RegTable[i]) THEN RegTable[i].dev ELSE 0]
SampleFromTop == [at |-> 0, subnet |-> 0, dev |-> 1]
RoundEnd(w) == workmode = "DIHAVST4" /\ w.subnet = 1 /\ w.dev = 0
Node(w) == [subnet |-> w.subnet, dev |-> w.dev]

Init ==
  /\ workmode \in WorkModes
  /\ list = <<StartGetData>> /\ timer = "off"
  /\ walk = SampleFromTop /\ HAVST_State = "START"
  /\ EMN_NWK_State \in {"DIS_SCAN", "CON"}
  /\ NWK_ComBuf = [op |-> "none", addr |-> None, dev |-> None, idx |-> 0]
  /\ Get_Data_Flag = FALSE /\ SetType = "none" /\ SetAddr = None
  /\ SetParameterData = [idx |-> 0, dev |-> None, flag |-> FALSE]
  /\ GetParaData = [idx |-> 0, dev |-> None, flag |-> FALSE]
  /\ NwkSetParaData = [idx |-> 0, dev |-> None]
  /\ GetSubDateFlag = TRUE /\ UpgradeState = 0
  /\ air = {} /\ commands = 0
  /\ user = [u \in Users |-> [left |-> <<>>, at |-> "rest", node |-> None]]
  /\ done = {} /\ lent = FALSE /\ mixed = FALSE /\ lost = FALSE

(* A handler takes the message at the head and posts others.               *)
Received(task, id) == list # <<>> /\ Head(list).to = task /\ Head(list).id = id
Arg == Head(list).arg
Reply(ms) == list' = Tail(list) \o ms
Timeout(id) == Msg("APL", "TIMEOUT", id)
Expired(id) == Received("APL", "TIMEOUT") /\ Arg = id

-----------------------------------------------------------------------------
(* EMN_APL_Task: the polling chain.                                        *)
Polls == \/ Received("APL", "START_GET_DATA")
         \/ Expired("GET_CFM_DATA")
         \/ Expired("GET_DATA")

Sample(w) ==
  /\ Reply(<<Msg("NWK", "GET_SAMPLE_REQ", Node(w))>>)
  /\ timer' = "GET_DATA"

Filling == {"fill1", "fill2"}
Torn == \E u \in Users : user[u].at \in {"flag"} \cup Filling

PollStopped ==
  /\ Polls /\ ~GetSubDateFlag
  /\ Reply(<<>>)
  /\ UNCHANGED <<timer, pollVars, lent, mixed, lost>>

(* The request is taken from SetType, SetSubnet and SetDev as they are now. *)
PollLends ==
  /\ Polls /\ GetSubDateFlag /\ Get_Data_Flag
  /\ Reply(<<Msg("APL", SetType, SetAddr)>>)
  /\ mixed' = (mixed \/ Torn \/ lent) /\ lent' = ~mixed'
  /\ lost' = (lost \/ SetType = "none")
  /\ UNCHANGED <<timer, pollVars>>

PollNext ==
  /\ Polls /\ GetSubDateFlag /\ ~Get_Data_Flag
  /\ ~(RoundEnd(NextEntry) /\ HAVST_State = "COLLECT_DATA")
  /\ HAVST_State # "PARSE_DATA"
  /\ walk' = NextEntry
  /\ HAVST_State' = IF RoundEnd(NextEntry) /\ HAVST_State = "START"
                    THEN "COLLECT_DATA" ELSE HAVST_State
  /\ Sample(NextEntry)
  /\ UNCHANGED <<lent, mixed, lost>>

(* In DIHAVST4 a full round is evaluated before the next one begins.       *)
PollRoundEnd ==
  /\ Polls /\ GetSubDateFlag /\ ~Get_Data_Flag
  /\ RoundEnd(NextEntry) /\ HAVST_State = "COLLECT_DATA"
  /\ walk' = NextEntry /\ HAVST_State' = "PARSE_DATA"
  /\ Reply(<<Msg("HAVST", "PARSE_INFO_CMD", None)>>)
  /\ UNCHANGED <<timer, lent, mixed, lost>>

PollParsing ==
  /\ Polls /\ GetSubDateFlag /\ ~Get_Data_Flag /\ HAVST_State = "PARSE_DATA"
  /\ Reply(<<>>)
  /\ UNCHANGED <<timer, pollVars, lent, mixed, lost>>

Poll ==
  /\ PollStopped \/ PollLends \/ PollNext \/ PollRoundEnd \/ PollParsing
  /\ UNCHANGED <<workmode, askVars, netVars, GetSubDateFlag, UpgradeState,
                 user, commands, done>>

(* EMN_HAVST_Task: the round is evaluated, the next one begins at the top.  *)
HavstTask ==
  /\ list # <<>> /\ Head(list).to = "HAVST"
  /\ IF HAVST_State = "PARSE_DATA" /\ Head(list).id = "PARSE_INFO_CMD"
     THEN /\ walk' = SampleFromTop /\ HAVST_State' = "START"
          /\ Reply(<<StartGetData>>)
     ELSE Reply(<<>>) /\ UNCHANGED pollVars
  /\ UNCHANGED <<workmode, timer, askVars, netVars, GetSubDateFlag,
                 UpgradeState, user, commands, history>>

(* EMN_APL_GetTimeoutValue is left out: a timer may expire at any time.     *)
Rest == UNCHANGED <<workmode, pollVars, netVars, GetSubDateFlag, user,
                    commands, history>>

(* A slip: the request ends, the chain is not resumed *)
AskTimeoutOnly ==
  /\ Expired("SET_DATA") \/ Expired("GET_PARA_DATA")
  /\ Get_Data_Flag' = FALSE
  /\ Reply(<<>>)
  /\ Rest /\ UNCHANGED <<timer, SetType, SetAddr, SetParameterData,
                         GetParaData, UpgradeState>>
(* No answer to a request: the chain goes on.                              *)
AskTimeout ==
  /\ Expired("SET_DATA") \/ Expired("GET_PARA_DATA")
  /\ Get_Data_Flag' = FALSE
  /\ Reply(<<StartGetData>>)
  /\ Rest /\ UNCHANGED <<timer, SetType, SetAddr, SetParameterData,
                         GetParaData, UpgradeState>>

(* The pause after an answer is over.                                      *)
PauseEnd ==
  /\ Expired("SET_CFM_STATUS") \/ Expired("GET_PARA_CFM_DATA")
  /\ Reply(<<StartGetData>>)
  /\ Rest /\ UNCHANGED <<timer, askVars, UpgradeState>>

UpgradeTimeout ==
  /\ Expired("GET_UPDATE_CMD")
  /\ UpgradeState' = -1
  /\ Reply(<<>>)
  /\ Rest /\ UNCHANGED <<timer, askVars>>

StartSetData ==
  /\ Received("APL", "START_SET_DATA")
  /\ NwkSetParaData' = [idx |-> SetParameterData.idx, dev |-> SetParameterData.dev]
  /\ Reply(<<Msg("NWK", "SET_DATA_REQ", Arg)>>)
  /\ timer' = "SET_DATA"
  /\ UNCHANGED <<workmode, pollVars, askVars, EMN_NWK_State, NWK_ComBuf, air,
                 GetSubDateFlag, UpgradeState, user, commands, history>>

StartGetParaData ==
  /\ Received("APL", "START_GET_PARA_DATA")
  /\ Reply(<<Msg("NWK", "GET_PARA_REQ", Arg)>>)
  /\ timer' = "GET_PARA_DATA"
  /\ Rest /\ UNCHANGED <<askVars, UpgradeState>>

(* In DIHAVST4 only the commands of the V3 board (HAVST_SEND_CMD, which this  *)
(* build cannot make) are confirmed: that of a shell is ignored, its timer    *)
(* runs on and the shell learns nothing of the answer.                        *)
SetDataCfm ==
  /\ Received("APL", "SET_DATA_CFM") /\ Reply(<<>>)
  /\ IF workmode = "DIHAVST4"
     THEN UNCHANGED <<timer, Get_Data_Flag, SetParameterData>>
     ELSE /\ SetParameterData' = [SetParameterData EXCEPT !.flag = TRUE]
          /\ Get_Data_Flag' = FALSE /\ timer' = "SET_CFM_STATUS"
  /\ Rest /\ UNCHANGED <<SetType, SetAddr, GetParaData, UpgradeState>>

GetParaCfm ==
  /\ Received("APL", "GET_PARA_CFM")
  /\ Get_Data_Flag' = FALSE
  /\ Reply(<<>>) /\ timer' = "GET_PARA_CFM_DATA"
  /\ Rest /\ UNCHANGED <<SetType, SetAddr, SetParameterData, GetParaData, UpgradeState>>

(* More of the node's data is asked for at once, whatever the commands want. *)
GetSampleCfm ==
  /\ Received("APL", "GET_SAMPLE_CFM")
  /\ IF Arg THEN Sample(walk) ELSE Reply(<<>>) /\ timer' = "GET_CFM_DATA"
  /\ Rest /\ UNCHANGED <<askVars, UpgradeState>>

(* The upgrade command takes the timer of the chain; without a router in    *)
(* between (data[3] = 2) an answer is waited for.                           *)
Losing == lost' = (lost \/ GetSubDateFlag)

UpgradeRequest(type) ==
  /\ Reply(<<Msg("NWK", "UPGRADE_CMD_REQ", Arg.to)>>)
  /\ timer' = IF type = 2 THEN "GET_UPDATE_CMD" ELSE "off"
  /\ Losing
  /\ UNCHANGED <<workmode, pollVars, askVars, netVars, GetSubDateFlag, user,
                 commands, done, lent, mixed>>

StartUpgradeCmd ==
  /\ Received("APL", "START_UPGRADE_CMD")
  /\ UpgradeRequest(Arg.type)
  /\ UNCHANGED UpgradeState

(* There is no break between the two cases of the switch: the answer starts *)
(* the command again, with its return code in the place of the type.        *)
StartUpgradeCfm ==
  /\ Received("APL", "START_UPGRADE_CFM")
  /\ UpgradeState' = IF Arg.type = 0 THEN 1 ELSE Arg.type
  /\ UpgradeRequest(Arg.type)

OtherApl ==
  /\ \/ Received("APL", "END_SETUP_NWK")
     \/ Received("APL", "none")
  /\ Reply(<<>>)
  /\ Rest /\ UNCHANGED <<timer, askVars, UpgradeState>>

-----------------------------------------------------------------------------
(* EMN_NWK_Task.  Every request is built in the one buffer NWK_ComBuf.      *)
NwkRest == UNCHANGED <<workmode, timer, pollVars, GetSubDateFlag, UpgradeState,
                       user, commands, done, lent, lost>>

Unsent == \E i \in 1..Len(list) : list[i].to = "MAC" /\ list[i].id = "DATA_REQ"

ToMac(frame) ==
  /\ NWK_ComBuf' = frame
  /\ mixed' = (mixed \/ Unsent)
  /\ Reply(<<Msg("MAC", "DATA_REQ", None)>>)

NwkSetDataReq ==
  /\ Received("NWK", "SET_DATA_REQ")
  /\ ToMac([op |-> "set", addr |-> Arg, dev |-> NwkSetParaData.dev,
            idx |-> NwkSetParaData.idx])

NwkGetParaReq ==
  /\ Received("NWK", "GET_PARA_REQ")
  /\ ToMac([op |-> "get", addr |-> Arg, dev |-> GetParaData.dev,
            idx |-> GetParaData.idx])

NwkUpgradeCmdReq ==
  /\ Received("NWK", "UPGRADE_CMD_REQ")
  /\ ToMac([op |-> "upgrade", addr |-> Arg, dev |-> Arg, idx |-> 0])

NwkGetSampleReq ==
  /\ Received("NWK", "GET_SAMPLE_REQ")
  /\ ToMac([op |-> "sample", addr |-> Arg, dev |-> Arg, idx |-> 0])

NwkRequest ==
  /\ EMN_NWK_State = "CON"
  /\ NwkSetDataReq \/ NwkGetParaReq \/ NwkUpgradeCmdReq \/ NwkGetSampleReq
  /\ NwkRest
  /\ UNCHANGED <<askVars, EMN_NWK_State, NwkSetParaData, air>>

(* An answer: the parameter of a GET is stored here, the others are passed  *)
(* on.  Which request it answers is not looked at.                          *)
Confirm(a) == CASE a.op = "set"     -> Msg("APL", "SET_DATA_CFM", None)
                [] a.op = "get"     -> Msg("APL", "GET_PARA_CFM", None)
                [] a.op = "upgrade" -> Msg("APL", "START_UPGRADE_CFM",
                                           [to |-> None, type |-> a.code])
                [] a.op = "sample"  -> Msg("APL", "GET_SAMPLE_CFM", a.code = 1)

NwkDataInd ==
  /\ EMN_NWK_State = "CON" /\ Received("NWK", "DATA_IND")
  /\ Reply(<<Confirm(Arg)>>)
  /\ GetParaData' = [GetParaData EXCEPT !.flag = @ \/ Arg.op = "get"]
  /\ NwkRest
  /\ UNCHANGED <<Get_Data_Flag, SetType, SetAddr, SetParameterData, netVars, mixed>>

(* While the network is set up everything else is left unanswered.          *)
Setup(m) == CASE m.id = "DIS_NETWORK_CFM" -> <<Msg("MAC", "SCAN_REQ", None)>>
              [] m.id = "SCAN_CFM"        -> <<Msg("MAC", "END_SCAN_REQ", None)>>
              [] m.id = "END_SCAN_CFM"    -> <<Msg("APL", "END_SETUP_NWK", None)>>
              [] m.id = "DATA_IND"        -> <<Msg("MAC", "DATA_RES", None)>>
              [] OTHER                    -> <<>>

NwkSetup ==
  /\ EMN_NWK_State = "DIS_SCAN" /\ list # <<>> /\ Head(list).to = "NWK"
  /\ Reply(Setup(Head(list)))
  /\ EMN_NWK_State' = IF Head(list).id = "END_SCAN_CFM" THEN "CON" ELSE EMN_NWK_State
  /\ NwkRest
  /\ UNCHANGED <<askVars, NWK_ComBuf, NwkSetParaData, air, mixed>>

-----------------------------------------------------------------------------
(* The MAC layer: DATA_REQ sends what NWK_ComBuf holds by now.  The node    *)
(* carries the request out or does not hear it; its answer is under way or  *)
(* lost.  The scan is reduced to its confirmations.                         *)
MacRest == UNCHANGED <<workmode, timer, pollVars, askVars, EMN_NWK_State, NWK_ComBuf,
                       NwkSetParaData, GetSubDateFlag, UpgradeState, user,
                       commands, lent, mixed, lost>>

Codes(op) == CASE op = "upgrade" -> {0, 2}     \* return code
               [] op = "sample"  -> {0, 1}     \* 1: there is more
               [] OTHER          -> {0}

NodeHears ==
  /\ Received("MAC", "DATA_REQ")
  /\ Reply(<<>>)
  /\ done' = IF NWK_ComBuf.op \in {"set", "get"} /\ ~mixed THEN done \cup {NWK_ComBuf} ELSE done
  /\ \/ UNCHANGED air
     \/ /\ Cardinality(air) < MaxAir
        /\ \E c \in Codes(NWK_ComBuf.op) :
             air' = air \cup {[op |-> NWK_ComBuf.op, code |-> c]}
  /\ MacRest

NodeMisses ==
  /\ Received("MAC", "DATA_REQ")
  /\ Reply(<<>>)
  /\ MacRest /\ UNCHANGED <<air, done>>

MacScan ==
  /\ \/ Received("MAC", "SCAN_REQ")     /\ Reply(<<Msg("NWK", "SCAN_CFM", None)>>)
     \/ Received("MAC", "END_SCAN_REQ") /\ Reply(<<Msg("NWK", "END_SCAN_CFM", None)>>)
     \/ Received("MAC", "DATA_RES")     /\ Reply(<<>>)
  /\ MacRest /\ UNCHANGED <<air, done>>

(* Between handlers: an answer arrives, an answer is lost, the timer        *)
(* expires, paging ends.                                                    *)
Post(m) == Len(list) < MaxLag /\ list' = Append(list, m)
Idle == UNCHANGED <<workmode, pollVars, askVars, NwkSetParaData, NWK_ComBuf,
                    GetSubDateFlag, UpgradeState, user, history>>

Arrive ==
  /\ \E a \in air : Post(Msg("NWK", "DATA_IND", a)) /\ air' = air \ {a}
  /\ Idle /\ UNCHANGED <<timer, EMN_NWK_State, commands>>

Lose ==
  /\ \E a \in air : air' = air \ {a}
  /\ Idle /\ UNCHANGED <<listVars, EMN_NWK_State, commands>>

Expire ==
  /\ timer # "off" /\ Post(Timeout(timer))
  /\ timer' = "off"
  /\ Idle /\ UNCHANGED <<EMN_NWK_State, air, commands>>

PagingEnd ==
  /\ commands < MaxCommands /\ commands' = commands + 1
  /\ EMN_NWK_State' = "DIS_SCAN"
  /\ Post(Msg("NWK", "DIS_NETWORK_CFM", None))
  /\ Idle /\ UNCHANGED <<timer, air>>

-----------------------------------------------------------------------------
(* The commands.                                                            *)
Next1(u) == Head(user[u].left)
At(u, place) == user[u].at = place
Goto(u, place) == user' = [user EXCEPT ![u].at = place]
(* The command goes on with its next step, or ends.                         *)
Proceed(u) == user' = [user EXCEPT ![u].left = Tail(@),
                         ![u].at = IF Len(user[u].left) = 1 THEN "rest" ELSE "go"]
Quit(u) == user' = [user EXCEPT ![u].left = <<>>, ![u].at = "rest"]
UserRest == UNCHANGED <<workmode, timer, netVars, pollVars>>

Command(u) ==
  /\ At(u, "rest") /\ commands < MaxCommands
  /\ commands' = commands + 1
  /\ \E c \in Commands, n \in Targets :
       user' = [user EXCEPT ![u] = [left |-> c, at |-> "go", node |-> n]]
  /\ UserRest /\ UNCHANGED <<list, askVars, GetSubDateFlag, UpgradeState, history>>

(* The parameters are written into the shared record first; they may be     *)
(* those of another command that is not over.                               *)
Asking(u) == user[u].at \in {"flag", "poll"} \cup Filling
Request(u) == [op |-> Next1(u).op, addr |-> user[u].node, dev |-> user[u].node,
               idx |-> Next1(u).idx]

Prepare(u) ==
  /\ At(u, "go") /\ Next1(u).op \in {"set", "get"}
  /\ IF Next1(u).op = "set"
     THEN /\ SetParameterData' = [SetParameterData EXCEPT !.idx = Next1(u).idx,
                                    !.dev = user[u].node]
          /\ UNCHANGED GetParaData
     ELSE /\ GetParaData' = [GetParaData EXCEPT !.idx = Next1(u).idx, !.dev = user[u].node]
          /\ UNCHANGED SetParameterData
  /\ Goto(u, "flag")
  /\ done' = {} /\ lent' = FALSE
  /\ mixed' = (mixed \/ \E v \in Users : Asking(v))
  /\ UserRest
  /\ UNCHANGED <<list, Get_Data_Flag, SetType, SetAddr, GetSubDateFlag,
                 UpgradeState, commands, lost>>

RaiseFlag(u) ==
  /\ At(u, "flag")
  /\ Get_Data_Flag' = TRUE
  /\ Goto(u, "fill1")
  /\ UserRest
  /\ UNCHANGED <<list, SetType, SetAddr, SetParameterData, GetParaData,
                 GetSubDateFlag, UpgradeState, commands, history>>

FillAddress(u) ==
  /\ SetAddr' = user[u].node
  /\ SetType' = IF Next1(u).op = "set" THEN "START_SET_DATA" ELSE "START_GET_PARA_DATA"
  /\ UNCHANGED <<SetParameterData, GetParaData>>

(* A slip: the flag of the last answer is left set *)
FillDataKeepsFlag(u) == UNCHANGED <<SetParameterData, GetParaData, SetType, SetAddr>>
FillData(u) ==
  /\ IF Next1(u).op = "set"
     THEN SetParameterData' = [SetParameterData EXCEPT !.flag = FALSE] /\ UNCHANGED GetParaData
     ELSE GetParaData' = [GetParaData EXCEPT !.flag = FALSE] /\ UNCHANGED SetParameterData
  /\ UNCHANGED <<SetType, SetAddr>>

(* A set fills in the address, then the data, a get the other way round.    *)
Fill(u) ==
  /\ user[u].at \in Filling
  /\ IF At(u, "fill1") = (Next1(u).op = "set") THEN FillAddress(u) ELSE FillData(u)
  /\ Goto(u, IF At(u, "fill1") THEN "fill2" ELSE "poll")
  /\ UserRest
  /\ UNCHANGED <<list, Get_Data_Flag, GetSubDateFlag, UpgradeState, commands, history>>

AnswerFlag(u) == IF Next1(u).op = "set" THEN SetParameterData.flag ELSE GetParaData.flag

Answered(u) ==
  /\ At(u, "poll") /\ AnswerFlag(u)
  /\ Proceed(u)
  /\ UserRest
  /\ UNCHANGED <<list, askVars, GetSubDateFlag, UpgradeState, commands, history>>

(* The shell has looked 400 times.  The request stays where it is.          *)
GiveUp(u) ==
  /\ At(u, "poll") /\ ~AnswerFlag(u)
  /\ IF Next1(u).go THEN Proceed(u) ELSE Quit(u)
  /\ mixed' = TRUE /\ done' = {} /\ lent' = FALSE
  /\ UserRest
  /\ UNCHANGED <<list, askVars, GetSubDateFlag, UpgradeState, commands, lost>>

(* StopGetData, StartGetData, EMN_APL_GetSampleData and the upgrade state.   *)
Step(u, op) == At(u, "go") /\ Next1(u).op = op
StepRest == UserRest /\ UNCHANGED <<askVars, commands, history>>

SetPolling(u) ==
  /\ \/ Step(u, "stop")   /\ GetSubDateFlag' = FALSE
     \/ Step(u, "enable") /\ GetSubDateFlag' = TRUE
  /\ Proceed(u)
  /\ StepRest /\ UNCHANGED <<list, UpgradeState>>

Kick(u) ==
  /\ Step(u, "kick") /\ Post(StartGetData)
  /\ Proceed(u)
  /\ StepRest /\ UNCHANGED <<GetSubDateFlag, UpgradeState>>

Reset(u) ==
  /\ Step(u, "reset") /\ UpgradeState' = 0
  /\ Proceed(u)
  /\ StepRest /\ UNCHANGED <<list, GetSubDateFlag>>

(* Without memory for the image the command ends here and now.              *)
Allocate(u) ==
  /\ Step(u, "alloc")
  /\ Proceed(u) \/ Quit(u)
  /\ StepRest /\ UNCHANGED <<list, GetSubDateFlag, UpgradeState>>

SendStartCommand(u) ==
  /\ \/ /\ Step(u, "upgradeNoRouter")
        /\ Post(Msg("APL", "START_UPGRADE_CMD", [to |-> user[u].node, type |-> 2]))
     \/ /\ Step(u, "upgradeRouter")
        /\ Post(Msg("APL", "START_UPGRADE_CMD", [to |-> user[u].node, type |-> 1]))
  /\ Proceed(u)
  /\ StepRest /\ UNCHANGED <<GetSubDateFlag, UpgradeState>>

UpgradeEnd(u) ==
  /\ UpgradeState # 0
  /\ \/ Step(u, "await") /\ UpgradeState' = 0
     \/ Step(u, "awaitLimited") /\ UNCHANGED UpgradeState
  /\ Proceed(u)
  /\ StepRest /\ UNCHANGED <<list, GetSubDateFlag>>

(* Five minutes, MAXUPGRADETIMEOUT; SendStartCommand has no such limit.     *)
UpgradeGivenUp(u) ==
  /\ Step(u, "awaitLimited") /\ UpgradeState = 0
  /\ Proceed(u)
  /\ StepRest /\ UNCHANGED <<list, GetSubDateFlag, UpgradeState>>

-----------------------------------------------------------------------------
EMN_APL_Task == \/ Poll \/ AskTimeout \/ PauseEnd \/ UpgradeTimeout
                \/ StartSetData \/ StartGetParaData \/ SetDataCfm \/ GetParaCfm
                \/ GetSampleCfm \/ StartUpgradeCmd \/ StartUpgradeCfm \/ OtherApl
EMN_NWK_Task == NwkRequest \/ NwkDataInd \/ NwkSetup
EMN_MAC_Task == NodeHears \/ NodeMisses \/ MacScan
RfTask == EMN_APL_Task \/ EMN_NWK_Task \/ EMN_MAC_Task \/ HavstTask

Shell(u) == \/ Prepare(u) \/ RaiseFlag(u) \/ Fill(u) \/ Answered(u) \/ GiveUp(u)
            \/ SetPolling(u) \/ Kick(u) \/ Reset(u) \/ Allocate(u)
            \/ SendStartCommand(u) \/ UpgradeEnd(u) \/ UpgradeGivenUp(u)

Next == RfTask \/ Arrive \/ Lose \/ Expire \/ PagingEnd
        \/ \E u \in Users : Command(u) \/ Shell(u)

Spec == Init /\ [][Next]_vars
(* The RF task and the shells get the processor, and a running timer        *)
(* expires; nothing is assumed of the nodes, the radio or who gives commands. *)
FairSpec == Spec /\ WF_vars(RfTask) /\ WF_vars(Expire)
                 /\ \A u \in Users : WF_vars(Shell(u))

-----------------------------------------------------------------------------
Requests == [op : {"none", "set", "get", "upgrade", "sample"},
             addr : [subnet : Nat, dev : Nat], dev : [subnet : Nat, dev : Nat], idx : Nat]

(* Types, with the length of the list: a handler takes one message and     *)
(* posts at most one.                                                       *)
TypeOK ==
  /\ Len(list) <= MaxLag
  /\ timer \in {"off", "GET_DATA", "GET_CFM_DATA", "SET_DATA", "SET_CFM_STATUS",
                "GET_PARA_DATA", "GET_PARA_CFM_DATA", "GET_UPDATE_CMD"}
  /\ walk \in [at : 0..Len(RegTable), subnet : Nat, dev : Nat]
  /\ HAVST_State \in {"START", "COLLECT_DATA", "PARSE_DATA"}
  /\ NWK_ComBuf \in Requests /\ done \subseteq Requests
  /\ UpgradeState \in {-1, 0, 1, 2}
  /\ \A u \in Users : user[u].at \in {"rest", "go", "flag", "poll"} \cup Filling

(* While nodes are to be polled the chain of messages and timers that polls *)
(* them is never broken, whatever is lost, late or asked in between: its    *)
(* timer runs, or one of its messages is in the list, or a command is about *)
(* to start it.  Except (lost) after an upgrade command or its answer was   *)
(* handled while polling was on, or the very first request was taken before *)
(* the shell had filled in its type.                                        *)
ChainMessage(m) ==
  \/ m.id \in {"START_GET_DATA", "START_SET_DATA", "START_GET_PARA_DATA", "PARSE_INFO_CMD"}
  \/ m.id = "TIMEOUT" /\ m.arg # "GET_UPDATE_CMD"
PollingAlive ==
  /\ TypeOK
  /\ GetSubDateFlag /\ ~lost =>
       \/ timer \notin {"off", "GET_UPDATE_CMD"}
       \/ \E i \in 1..Len(list) : ChainMessage(list[i])
       \/ \E u \in Users, i \in 1..4 : i <= Len(user[u].left) /\ user[u].left[i].op = "kick"

(* A shell that reports success has had this very request carried out, by   *)
(* the node it named, since it made it.  Except (mixed) after a request was *)
(* given up, so that it or its answer may still come, when requests of two  *)
(* shells overlap, when the RF task took a request that was not all written *)
(* (after a GET it may do so before Get_Data_Flag is raised, as the answer  *)
(* reaches the shell before the flag is lowered), or when two chains of     *)
(* polling, the second started by a late answer, took the request twice or  *)
(* overwrote one in NWK_ComBuf.                                             *)
ReportedDone ==
  [][\A u \in Users : Answered(u) /\ ~mixed => Request(u) \in done]_vars

(* Every subnet of the table is asked for its data again and again, in both *)
(* modes, unless polling is stopped for good, the chain was broken or a     *)
(* node never stops saying that it has more.                                *)
Sampled(s) == \E i \in 1..Len(list) : list[i].id = "GET_SAMPLE_REQ" /\ list[i].arg.subnet = s
More == \E i \in 1..Len(list) : list[i].id = "GET_SAMPLE_CFM" /\ list[i].arg
EverySubnetPolled ==
  \A i \in DOMAIN RegTable :
    []<>(Sampled(RegTable[i].subnet) \/ lost \/ ~GetSubDateFlag \/ More)
=============================================================================
