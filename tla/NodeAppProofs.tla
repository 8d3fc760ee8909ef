--------------------------- MODULE NodeAppProofs ---------------------------
(***************************************************************************)
(* For every registration table, every set of shells, commands and nodes   *)
(* and every bound: the chain of messages and timers that polls the nodes  *)
(* is never broken but in the two ways that are recorded, and a shell that *)
(* reports success has had its request carried out, but where requests     *)
(* were mixed up.                                                          *)
(***************************************************************************)
EXTENDS NodeApp, SequenceTheorems, FiniteSetTheorems, WellFoundedInduction, TLAPS

Address == [subnet : Nat, dev : Nat]
Running == {"GET_DATA", "GET_CFM_DATA", "SET_DATA", "SET_CFM_STATUS",
            "GET_PARA_DATA", "GET_PARA_CFM_DATA", "GET_UPDATE_CMD"}

(* The messages of each task, and what comes with them.                     *)
ToApl == {"START_GET_DATA", "START_SET_DATA", "START_GET_PARA_DATA", "TIMEOUT",
          "SET_DATA_CFM", "GET_PARA_CFM", "GET_SAMPLE_CFM", "START_UPGRADE_CMD",
          "START_UPGRADE_CFM", "END_SETUP_NWK", "none"}
ToNwk == {"SET_DATA_REQ", "GET_PARA_REQ", "UPGRADE_CMD_REQ", "GET_SAMPLE_REQ", "DATA_IND",
          "DIS_NETWORK_CFM", "SCAN_CFM", "END_SCAN_CFM"}
OfMac == {"DATA_REQ", "SCAN_REQ", "END_SCAN_REQ", "DATA_RES"}
OfHavst == {"PARSE_INFO_CMD"}
Addressed == {"START_GET_DATA", "START_SET_DATA", "START_GET_PARA_DATA", "none",
              "SET_DATA_REQ", "GET_PARA_REQ", "UPGRADE_CMD_REQ", "GET_SAMPLE_REQ"}

AnswerOK(a) == /\ a.op \in {"set", "get", "upgrade", "sample"}
               /\ a.op = "upgrade" => a.code \in {0, 2}
MessageOK(m) ==
  /\ \/ m.to = "APL" /\ m.id \in ToApl
     \/ m.to = "NWK" /\ m.id \in ToNwk
     \/ m.to = "MAC" /\ m.id \in OfMac
     \/ m.to = "HAVST" /\ m.id \in OfHavst
  /\ m.id \in Addressed => m.arg \in Address
  /\ m.id = "TIMEOUT" => m.arg \in Running
  /\ m.id = "START_UPGRADE_CMD" => m.arg.to \in Address
  /\ m.id = "START_UPGRADE_CFM" => m.arg.to \in Address /\ m.arg.type \in {0, 2}
  /\ m.id = "DATA_IND" => AnswerOK(m.arg)

Parses(m) == m.id = "PARSE_INFO_CMD"
Sends(m) == m.id = "DATA_REQ"

ListOK == /\ \E S : list \in Seq(S)
          /\ Len(list) <= MaxLag
          /\ \A i \in 1..Len(list) : MessageOK(list[i])

(* A full round is evaluated exactly while its message is in the list.      *)
ParseOK == /\ HAVST_State \in {"START", "COLLECT_DATA", "PARSE_DATA"}
           /\ HAVST_State = "PARSE_DATA" <=> \E i \in 1..Len(list) : Parses(list[i])
           /\ \A i, j \in 1..Len(list) : Parses(list[i]) /\ Parses(list[j]) => i = j

WalkOK == walk \in [at : 0..Len(RegTable), subnet : Nat, dev : Nat]
Sending == \E i \in 1..Len(list) : Sends(list[i])
FrameOK == /\ NWK_ComBuf \in Requests /\ done \subseteq Requests
           /\ Sending => NWK_ComBuf.op # "none"
           /\ NwkSetParaData \in [idx : Nat, dev : Address]
           /\ \A a \in air : AnswerOK(a)
AskOK == /\ SetAddr \in Address
         /\ SetType \in {"none", "START_SET_DATA", "START_GET_PARA_DATA"}
         /\ SetParameterData \in [idx : Nat, dev : Address, flag : BOOLEAN]
         /\ GetParaData \in [idx : Nat, dev : Address, flag : BOOLEAN]
StateOK == /\ timer \in {"off"} \cup Running
           /\ UpgradeState \in {-1, 0, 1, 2}
           /\ GetSubDateFlag \in BOOLEAN /\ Get_Data_Flag \in BOOLEAN
           /\ lent \in BOOLEAN /\ mixed \in BOOLEAN /\ lost \in BOOLEAN

(* The steps of a command that are left: polling is enabled only right       *)
(* before the chain is started.                                             *)
Ops == {"set", "get", "stop", "enable", "kick", "reset", "alloc", "upgradeNoRouter",
        "upgradeRouter", "await", "awaitLimited"}
Steps == [op : Ops, idx : Nat, go : BOOLEAN]
KickFollows(s) == \A i \in 1..Len(s) : s[i].op = "enable" => i < Len(s) /\ s[i + 1].op = "kick"
Asked == {"flag", "poll"} \cup Filling
UserOK(u) == /\ KickFollows(u.left)
             /\ u.at = "rest" <=> u.left = <<>>
             /\ u.at \in Asked => u.left[1].op \in {"set", "get"}
UsersOK == /\ user \in [Users -> [left : Seq(Steps), at : {"rest", "go"} \cup Asked,
                                  node : Address]]
           /\ \A u \in Users : UserOK(user[u])

(* The chain: its timer, its messages, or the shell that is to start it.     *)
Ticking == timer \notin {"off", "GET_UPDATE_CMD"}
Chained == \E i \in 1..Len(list) : ChainMessage(list[i])
Kicked == \E u \in Users : user[u].left # <<>> /\ user[u].left[1].op = "kick"
Alive == GetSubDateFlag /\ ~lost => Ticking \/ Chained \/ Kicked

IInv == /\ ListOK /\ ParseOK /\ WalkOK /\ FrameOK /\ AskOK /\ StateOK /\ UsersOK
        /\ Alive

-----------------------------------------------------------------------------
(* What a handler's reply, or a message posted between handlers, does to the *)
(* list.                                                                    *)
LEMMA SilentLemma ==
  ASSUME ListOK, list # <<>>, Reply(<<>>)
  PROVE  /\ ListOK'
         /\ Len(list') = Len(list) - 1
         /\ \A i \in 1..Len(list') : list'[i] = list[i + 1]
<1>1. PICK S : list \in Seq(S)
  BY DEF ListOK
<1>2. Tail(list) \in Seq(S) /\ Len(Tail(list)) = Len(list) - 1
      /\ \A i \in 1..Len(list) - 1 : Tail(list)[i] = list[i + 1]
  BY <1>1
<1>3. list' = Tail(list)
  BY <1>2 DEF Reply
<1>4. Len(list) \in Nat \ {0}
  BY <1>1
<1>5. Len(list') <= MaxLag
  BY <1>2, <1>3, <1>4, BoundsAssumption DEF ListOK
<1>6. \A i \in 1..Len(list') : MessageOK(list'[i])
  BY <1>2, <1>3, <1>4 DEF ListOK
<1> QED
  BY <1>2, <1>3, <1>4, <1>5, <1>6 DEF ListOK

LEMMA ReplyPlaces ==
  ASSUME ListOK, list # <<>>, NEW m, Reply(<<m>>)
  PROVE  /\ \E S : list' \in Seq(S)
         /\ Len(list') = Len(list)
         /\ \A i \in 1..Len(list) - 1 : list'[i] = list[i + 1]
         /\ list'[Len(list)] = m /\ Len(list) \in Nat \ {0}
<1>1. PICK S : list \in Seq(S)
  BY DEF ListOK
<1> DEFINE T == S \cup {m}
<1>2. Len(list) \in Nat \ {0}
  BY <1>1
<1>3. Tail(list) \in Seq(T) /\ Len(Tail(list)) = Len(list) - 1
      /\ \A i \in 1..Len(list) - 1 : Tail(list)[i] = list[i + 1]
  BY <1>1
<1>4. <<m>> \in Seq(T) /\ Len(<<m>>) = 1 /\ <<m>>[1] = m
  OBVIOUS
<1> HIDE DEF T
<1>5. /\ list' \in Seq(T) /\ Len(list') = Len(list)
      /\ \A i \in 1..Len(list) - 1 : list'[i] = Tail(list)[i]
      /\ list'[Len(list)] = m
  <2> DEFINE p == Tail(list)  q == <<m>>
  <2>1. p \in Seq(T) /\ q \in Seq(T) /\ list' = p \o q
    BY <1>3, <1>4 DEF Reply
  <2>2. Len(p) = Len(list) - 1 /\ Len(q) = 1 /\ q[1] = m
    BY <1>3, <1>4
  <2> HIDE DEF p, q
  <2>3. /\ p \o q \in Seq(T) /\ Len(p \o q) = Len(p) + Len(q)
        /\ \A i \in 1..Len(p) : (p \o q)[i] = p[i]
        /\ \A i \in 1..Len(q) : (p \o q)[Len(p) + i] = q[i]
    BY <2>1
  <2>4. list'[Len(p) + 1] = m
    BY <2>1, <2>2, <2>3
  <2>5. Len(list') = Len(list) /\ list'[Len(list)] = m
    BY <1>2, <2>1, <2>2, <2>3, <2>4
  <2>6. \A i \in 1..Len(list) - 1 : list'[i] = p[i]
    BY <1>2, <2>1, <2>2, <2>3
  <2> QED
    BY <2>1, <2>3, <2>5, <2>6 DEF p
<1> QED
  BY <1>2, <1>3, <1>5

LEMMA ReplyLemma ==
  ASSUME ListOK, list # <<>>, NEW m, MessageOK(m), Reply(<<m>>)
  PROVE  /\ ListOK'
         /\ Len(list') = Len(list)
         /\ \A i \in 1..Len(list) - 1 : list'[i] = list[i + 1]
         /\ list'[Len(list)] = m /\ Len(list) \in Nat \ {0}
<1>1. /\ \E S : list' \in Seq(S)
      /\ Len(list') = Len(list)
      /\ \A i \in 1..Len(list) - 1 : list'[i] = list[i + 1]
      /\ list'[Len(list)] = m /\ Len(list) \in Nat \ {0}
  BY ReplyPlaces
<1>2. \A i \in 1..Len(list') : i = Len(list) \/ i + 1 \in 1..Len(list)
  BY <1>1
<1>3. \A i \in 1..Len(list') : MessageOK(list'[i])
  BY <1>1, <1>2 DEF ListOK
<1> QED
  BY <1>1, <1>3 DEF ListOK

LEMMA PostPlaces ==
  ASSUME ListOK, NEW m, Post(m)
  PROVE  /\ \E S : list' \in Seq(S)
         /\ Len(list') = Len(list) + 1
         /\ \A i \in 1..Len(list) : list'[i] = list[i]
         /\ list'[Len(list) + 1] = m /\ Len(list) \in Nat
<1>1. PICK S : list \in Seq(S)
  BY DEF ListOK
<1> DEFINE T == S \cup {m}
<1>2. list \in Seq(T) /\ Len(list) \in Nat /\ m \in T
  BY <1>1
<1> HIDE DEF T
<1>3. /\ list' \in Seq(T) /\ Len(list') = Len(list) + 1
      /\ \A i \in 1..Len(list) : list'[i] = list[i]
      /\ list'[Len(list) + 1] = m
  BY <1>2 DEF Post
<1> QED
  BY <1>2, <1>3

LEMMA PostLemma ==
  ASSUME ListOK, NEW m, MessageOK(m), Post(m)
  PROVE  /\ ListOK'
         /\ Len(list') = Len(list) + 1
         /\ \A i \in 1..Len(list) : list'[i] = list[i]
         /\ list'[Len(list) + 1] = m /\ Len(list) \in Nat
<1>1. /\ \E S : list' \in Seq(S)
      /\ Len(list') = Len(list) + 1
      /\ \A i \in 1..Len(list) : list'[i] = list[i]
      /\ list'[Len(list) + 1] = m /\ Len(list) \in Nat
  BY PostPlaces
<1>2. Len(list') <= MaxLag
  BY <1>1, BoundsAssumption DEF Post
<1>3. \A i \in 1..Len(list') : MessageOK(list'[i])
  BY <1>1 DEF ListOK
<1> QED
  BY <1>1, <1>2, <1>3 DEF ListOK
-----------------------------------------------------------------------------
(* The commands: in each, polling is enabled only to be started.            *)
Script(s) == s \in Seq(Steps) /\ s # <<>> /\ KickFollows(s)

LEMMA JoinLemma ==
  ASSUME NEW p, NEW q, Script(p), Script(q)
  PROVE  Script(p \o q)
<1>1. p \in Seq(Steps) /\ q \in Seq(Steps) /\ Len(p) \in Nat \ {0} /\ Len(q) \in Nat \ {0}
  BY DEF Script
<1>2. /\ p \o q \in Seq(Steps) /\ Len(p \o q) = Len(p) + Len(q)
      /\ \A i \in 1..Len(p) : (p \o q)[i] = p[i]
      /\ \A i \in 1..Len(q) : (p \o q)[Len(p) + i] = q[i]
  BY <1>1
<1>3. ASSUME NEW i \in 1..Len(p \o q), (p \o q)[i].op = "enable"
      PROVE  i < Len(p \o q) /\ (p \o q)[i + 1].op = "kick"
  <2>1. CASE i \in 1..Len(p)
    <3>1. p[i].op = "enable"
      BY <1>2, <1>3, <2>1
    <3>2. i < Len(p) /\ p[i + 1].op = "kick"
      BY <2>1, <3>1 DEF Script, KickFollows
    <3>3. i + 1 \in 1..Len(p)
      BY <1>1, <2>1, <3>2
    <3> QED
      BY <1>1, <1>2, <3>2, <3>3
  <2>2. CASE i \notin 1..Len(p)
    <3> DEFINE j == i - Len(p)
    <3>1. j \in 1..Len(q) /\ i = Len(p) + j
      BY <1>1, <1>2, <2>2
    <3>2. q[j].op = "enable"
      BY <1>2, <1>3, <3>1
    <3>3. j < Len(q) /\ q[j + 1].op = "kick"
      BY <3>1, <3>2 DEF Script, KickFollows
    <3>4. j + 1 \in 1..Len(q) /\ i + 1 = Len(p) + (j + 1)
      BY <1>1, <3>1, <3>3
    <3>5. (p \o q)[i + 1].op = "kick"
      BY <1>2, <3>3, <3>4
    <3> QED
      BY <1>1, <1>2, <3>1, <3>3, <3>5
  <2> QED
    BY <2>1, <2>2
<1>4. Len(p \o q) # 0
  BY <1>1, <1>2
<1> QED
  BY <1>2, <1>3, <1>4 DEF Script, KickFollows

LEMMA RestartScript == Script(Restart)
<1>1. Restart \in Seq(Steps) /\ Len(Restart) = 2
      /\ Restart[1].op = "enable" /\ Restart[2].op = "kick"
  BY DEF Restart, Do, Ask, Steps, Ops
<1>2. \A i \in 1..2 : i = 1 \/ i = 2
  OBVIOUS
<1> HIDE DEF Restart
<1>3. KickFollows(Restart)
  BY <1>1, <1>2 DEF KickFollows
<1>4. Restart # <<>>
  BY <1>1
<1> QED
  BY <1>1, <1>3, <1>4 DEF Script

LEMMA AskScripts ==
  /\ Script(UpdateDiDi) /\ Script(GetDiDiVersion) /\ Script(GetDiDiPt)
  /\ Script(SetDiDiPt) /\ Script(GetDiAnArg) /\ Script(SetDiAnArg)
<1> USE DEF Script, KickFollows, Do, Ask, Steps, Ops
<1>1. Script(UpdateDiDi) /\ Script(GetDiDiVersion)
  BY DEF UpdateDiDi, GetDiDiVersion
<1>2. Script(GetDiDiPt) /\ Script(SetDiDiPt)
  BY DEF GetDiDiPt, SetDiDiPt
<1>3. Script(GetDiAnArg) /\ Script(SetDiAnArg)
  BY DEF GetDiAnArg, SetDiAnArg
<1> QED
  BY <1>1, <1>2, <1>3

LEMMA RouteScripts == Script(StopPolling) /\ Script(UpgradeRoute)
<1> USE DEF Script, KickFollows, Do, Ask, Steps, Ops
<1>1. Script(StopPolling)
  BY DEF StopPolling
<1>2. Script(UpgradeRoute)
  BY DEF UpgradeRoute
<1> QED
  BY <1>1, <1>2

LEMMA ScriptLemma == \A c \in Commands : Script(c)
<1>1. Script(<<Do("stop")>>) /\ Script(<<Do("alloc")>>)
  BY DEF Script, KickFollows, Do, Ask, Steps, Ops
<1>2. Script(<<Do("reset"), Do("upgradeNoRouter"), Do("await"), Do("stop")>>)
  BY DEF Script, KickFollows, Do, Ask, Steps, Ops
<1>3. Script(SetRFFreq)
  BY <1>1, RestartScript, JoinLemma DEF SetRFFreq
<1>4. Script(UpgradeSub)
  BY <1>2, RestartScript, JoinLemma DEF UpgradeSub
<1>5. Script(DetectDevUpgrade)
  BY <1>1, <1>4, JoinLemma DEF DetectDevUpgrade
<1>6. Script(UpgradeDiDi)
  BY RouteScripts, RestartScript, JoinLemma DEF UpgradeDiDi
<1>7. Script(UpgradeDiDiSub)
  <2>1. Script(StopPolling \o <<Do("alloc")>>)
    BY <1>1, RouteScripts, JoinLemma
  <2>2. Script((StopPolling \o <<Do("alloc")>>) \o UpgradeSub)
    BY <1>4, <2>1, JoinLemma
  <2> QED
    BY <2>2, RestartScript, JoinLemma DEF UpgradeDiDiSub
<1> QED
  BY <1>3, <1>5, <1>6, <1>7, AskScripts, CommandsAssumption DEF ShellCommands

-----------------------------------------------------------------------------
(* The walk: the next entry is one of the table.                            *)
LEMMA MinLemma ==
  ASSUME NEW S, S \subseteq Nat, S # {}
  PROVE  Min(S) \in S
<1>1. PICK x \in S : \A y \in S : ~(<<y, x>> \in OpToRel(<, Nat))
  BY NatLessThanWellFounded, WFMin
<1>2. \A y \in S : y < x => <<y, x>> \in OpToRel(<, Nat)
  BY DEF OpToRel
<1>3. \A y \in S : x =< y
  <2>1. \A y \in S : ~(y < x)
    BY <1>1, <1>2
  <2> QED
    BY <2>1
<1> QED
  BY <1>3 DEF Min

LEMMA EntryLemma ==
  ASSUME NEW at \in Nat, NEW n \in Nat \ {0}, NEW k \in 1..n
  PROVE  ((at + k - 1) % n) + 1 \in 1..n
  OBVIOUS

LEMMA NextEntryLemma ==
  ASSUME WalkOK
  PROVE  NextEntry \in [at : 0..Len(RegTable), subnet : Nat, dev : Nat]
<1>0. \A j \in 1..Len(RegTable) : RegTable[j] \in [subnet : Nat, dev : Nat]
  <2> DEFINE S == [subnet : Nat, dev : Nat]
  <2>1. RegTable \in Seq(S)
    BY TableAssumption
  <2> HIDE DEF S
  <2>2. \A j \in 1..Len(RegTable) : RegTable[j] \in S
    BY <2>1
  <2> QED
    BY <2>2 DEF S
<1> DEFINE ahead == {k \in 1..Len(RegTable) : Fits(RegTable[Entry(k)])}
<1>1. CASE ahead = {}
  BY <1>1 DEF NextEntry, WalkOK
<1>2. CASE ahead # {}
  <2>1. ahead \subseteq Nat
    OBVIOUS
  <2> DEFINE k == Min(ahead)  i == Entry(k)
  <2>2. k \in ahead
    BY <1>2, <2>1, MinLemma
  <2>3. Len(RegTable) \in Nat \ {0} /\ k \in 1..Len(RegTable)
    BY <2>2, TableAssumption
  <2>4. i \in 1..Len(RegTable)
    <3>1. walk.at \in Nat
      BY TableAssumption DEF WalkOK
    <3> HIDE DEF k
    <3> QED
      BY <2>3, <3>1, EntryLemma DEF Entry
  <2>5. NextEntry = [at |-> i, subnet |-> RegTable[i].subnet,
                     dev |-> IF Own(RegTable[i]) THEN RegTable[i].dev ELSE 0]
    BY <1>2 DEF NextEntry
  <2> HIDE DEF i
  <2>6. RegTable[i] \in [subnet : Nat, dev : Nat]
    BY <1>0, <2>4
  <2> QED
    BY <2>3, <2>4, <2>5, <2>6
<1> QED
  BY <1>1, <1>2

-----------------------------------------------------------------------------
(* What the list still holds once its head was handled.                     *)
LEMMA HeadLemma ==
  ASSUME ListOK, list # <<>>
  PROVE  Head(list) = list[1] /\ MessageOK(Head(list)) /\ Len(list) \in Nat \ {0}
<1>1. PICK S : list \in Seq(S)
  BY DEF ListOK
<1>2. Head(list) = list[1] /\ Len(list) \in Nat \ {0}
  BY <1>1
<1> QED
  BY <1>2 DEF ListOK

LEMMA SilentKeeps ==
  ASSUME ListOK, ParseOK, list # <<>>, Reply(<<>>), ~Parses(Head(list)), UNCHANGED HAVST_State
  PROVE  /\ ListOK' /\ ParseOK'
         /\ Chained /\ ~ChainMessage(Head(list)) => Chained'
         /\ Sending' => Sending
<1>1. /\ Head(list) = list[1] /\ Len(list) \in Nat \ {0}
  BY HeadLemma
<1>2. /\ ListOK'
      /\ Len(list') = Len(list) - 1
      /\ \A i \in 1..Len(list') : list'[i] = list[i + 1]
  BY SilentLemma
<1>3. \A i \in 1..Len(list) : i # 1 => i - 1 \in 1..Len(list') /\ list'[i - 1] = list[i]
  BY <1>1, <1>2
<1>4. \A i \in 1..Len(list') : i + 1 \in 1..Len(list) /\ list'[i] = list[i + 1]
  BY <1>1, <1>2
<1>5. Chained /\ ~ChainMessage(Head(list)) => Chained'
  BY <1>1, <1>3 DEF Chained
<1>6. Sending' => Sending
  BY <1>4 DEF Sending
<1>7. ParseOK'
  <2>1. (\E i \in 1..Len(list') : Parses(list'[i])) <=> (\E i \in 1..Len(list) : Parses(list[i]))
    BY <1>1, <1>3, <1>4
  <2>2. \A i, j \in 1..Len(list') : Parses(list'[i]) /\ Parses(list'[j]) => i = j
    <3> SUFFICES ASSUME NEW i \in 1..Len(list'), NEW j \in 1..Len(list'),
                        Parses(list'[i]), Parses(list'[j])
                 PROVE  i = j
      OBVIOUS
    <3>1. i + 1 = j + 1
      BY <1>4 DEF ParseOK
    <3> QED
      BY <3>1
  <2> QED
    BY <2>1, <2>2 DEF ParseOK
<1> QED
  BY <1>2, <1>5, <1>6, <1>7

LEMMA ReplyKeeps ==
  ASSUME ListOK, ParseOK, list # <<>>, ~Parses(Head(list)),
         HAVST_State' \in {"START", "COLLECT_DATA", "PARSE_DATA"},
         HAVST_State' = "PARSE_DATA" <=> HAVST_State = "PARSE_DATA",
         NEW m, MessageOK(m), Reply(<<m>>), ~Parses(m)
  PROVE  /\ ListOK' /\ ParseOK'
         /\ Chained /\ ~ChainMessage(Head(list)) => Chained'
         /\ ChainMessage(m) => Chained'
         /\ Sending' => Sending \/ Sends(m)
<1>1. Head(list) = list[1]
  BY HeadLemma
<1>2. /\ ListOK'
      /\ Len(list') = Len(list)
      /\ \A i \in 1..Len(list) - 1 : list'[i] = list[i + 1]
      /\ list'[Len(list)] = m /\ Len(list) \in Nat \ {0}
  BY ReplyLemma
<1>3. \A i \in 1..Len(list) : i # 1 => i - 1 \in 1..Len(list') /\ list'[i - 1] = list[i]
  BY <1>2
<1>4. \A i \in 1..Len(list') : \/ i = Len(list) /\ list'[i] = m
                               \/ i + 1 \in 1..Len(list) /\ list'[i] = list[i + 1]
  BY <1>2
<1>5. Chained /\ ~ChainMessage(Head(list)) => Chained'
  BY <1>1, <1>3 DEF Chained
<1>6. ChainMessage(m) => Chained'
  BY <1>2 DEF Chained
<1>7. Sending' => Sending \/ Sends(m)
  BY <1>4 DEF Sending
<1>8. ParseOK'
  <2>1. (\E i \in 1..Len(list') : Parses(list'[i])) <=> (\E i \in 1..Len(list) : Parses(list[i]))
    BY <1>1, <1>3, <1>4
  <2>2. \A i, j \in 1..Len(list') : Parses(list'[i]) /\ Parses(list'[j]) => i = j
    <3> SUFFICES ASSUME NEW i \in 1..Len(list'), NEW j \in 1..Len(list'),
                        Parses(list'[i]), Parses(list'[j])
                 PROVE  i = j
      OBVIOUS
    <3>1. i + 1 = j + 1
      BY <1>4 DEF ParseOK
    <3> QED
      BY <3>1
  <2> QED
    BY <2>1, <2>2 DEF ParseOK
<1> QED
  BY <1>2, <1>5, <1>6, <1>7, <1>8

LEMMA PostKeeps ==
  ASSUME ListOK, ParseOK, UNCHANGED HAVST_State, NEW m, MessageOK(m), Post(m), ~Parses(m)
  PROVE  /\ ListOK' /\ ParseOK'
         /\ Chained => Chained'
         /\ ChainMessage(m) => Chained'
         /\ Sending' => Sending \/ Sends(m)
<1>1. /\ ListOK'
      /\ Len(list') = Len(list) + 1
      /\ \A i \in 1..Len(list) : list'[i] = list[i]
      /\ list'[Len(list) + 1] = m /\ Len(list) \in Nat
  BY PostLemma
<1>2. \A i \in 1..Len(list) : i \in 1..Len(list')
  BY <1>1
<1>3. \A i \in 1..Len(list') : \/ i = Len(list) + 1 /\ list'[i] = m
                               \/ i \in 1..Len(list) /\ list'[i] = list[i]
  BY <1>1
<1>4. (Chained => Chained') /\ (ChainMessage(m) => Chained')
  BY <1>1, <1>2 DEF Chained
<1>5. Sending' => Sending \/ Sends(m)
  BY <1>3 DEF Sending
<1>6. ParseOK'
  BY <1>1, <1>2, <1>3 DEF ParseOK
<1> QED
  BY <1>1, <1>4, <1>5, <1>6

LEMMA UsersStay ==
  ASSUME UsersOK, UNCHANGED user
  PROVE  UsersOK' /\ (Kicked' <=> Kicked)
  BY DEF UsersOK, Kicked

LEMMA IInvInit == Init => IInv
<1> SUFFICES ASSUME Init PROVE IInv
  OBVIOUS
<1> USE DEF Init
<1>1. None \in Address
  BY DEF None, Address
<1>2. Len(RegTable) \in Nat
  BY TableAssumption
<1>3. list \in Seq({StartGetData}) /\ Len(list) = 1 /\ list[1] = StartGetData
  OBVIOUS
<1>4. ListOK
  <2>1. MessageOK(StartGetData)
    BY <1>1 DEF MessageOK, StartGetData, Msg, ToApl, Addressed
  <2>2. 1 <= MaxLag
    BY BoundsAssumption
  <2>3. \A i \in 1..1 : i = 1
    OBVIOUS
  <2>4. \A i \in 1..Len(list) : MessageOK(list[i])
    BY <1>3, <2>1, <2>3
  <2>5. \E S : list \in Seq(S)
    BY <1>3
  <2> QED
    BY <1>3, <2>2, <2>4, <2>5 DEF ListOK
<1>5. ParseOK /\ Chained
  BY <1>3 DEF ParseOK, Chained, Parses, StartGetData, Msg, ChainMessage
<1>6. WalkOK
  BY <1>2 DEF WalkOK, SampleFromTop
<1>7. FrameOK
  <2>1. NWK_ComBuf \in Requests
    BY <1>1 DEF Requests, Address
  <2>2. ~Sending
    BY <1>3 DEF Sending, Sends, StartGetData, Msg
  <2> QED
    BY <1>1, <2>1, <2>2 DEF FrameOK
<1>8. AskOK /\ StateOK
  BY <1>1 DEF AskOK, StateOK
<1>9. UsersOK
  <2>1. \A u \in Users : user[u].left = <<>> /\ user[u].at = "rest"
    OBVIOUS
  <2>2. user \in [Users -> [left : Seq(Steps), at : {"rest", "go"} \cup Asked, node : Address]]
    BY <1>1
  <2>3. Len(<<>>) = 0 /\ \A i \in 1..0 : FALSE
    OBVIOUS
  <2> QED
    BY <2>1, <2>2, <2>3 DEF UsersOK, UserOK, KickFollows, Asked, Filling
<1> QED
  BY <1>4, <1>5, <1>6, <1>7, <1>8, <1>9 DEF IInv, Alive

-----------------------------------------------------------------------------
(* The polling.                                                             *)
LEMMA PollStoppedKeeps ==
  ASSUME IInv, PollStopped, UNCHANGED <<workmode, askVars, netVars, GetSubDateFlag, UpgradeState,
                                        user, commands, done>>
  PROVE  IInv'
<1> USE DEF IInv
<1>1. list # <<>> /\ Reply(<<>>) /\ ~Parses(Head(list)) /\ UNCHANGED HAVST_State
  BY DEF PollStopped, Polls, Received, Expired, Parses, pollVars
<1>2. ListOK' /\ ParseOK' /\ (Sending' => Sending)
  BY <1>1, SilentKeeps
<1>3. UsersOK'
  BY UsersStay
<1>4. WalkOK' /\ FrameOK' /\ AskOK' /\ StateOK' /\ Alive'
  BY <1>2 DEF PollStopped, pollVars, askVars, netVars, WalkOK, FrameOK, AskOK, StateOK, Alive
<1> QED
  BY <1>2, <1>3, <1>4

LEMMA PollLendsKeeps ==
  ASSUME IInv, PollLends, UNCHANGED <<workmode, askVars, netVars, GetSubDateFlag, UpgradeState,
                                      user, commands, done>>
  PROVE  IInv'
<1> USE DEF IInv
<1> DEFINE m == Msg("APL", SetType, SetAddr)
<1>1. list # <<>> /\ Reply(<<m>>) /\ ~Parses(Head(list)) /\ UNCHANGED HAVST_State
  BY DEF PollLends, Polls, Received, Expired, Parses, pollVars
<1>2. MessageOK(m) /\ ~Parses(m) /\ ~Sends(m)
  BY DEF AskOK, Msg, MessageOK, ToApl, Addressed, Parses, Sends
<1>3. SetType # "none" => ChainMessage(m)
  BY DEF AskOK, Msg, ChainMessage
<1> HIDE DEF m
<1>4. ListOK' /\ ParseOK' /\ (Sending' => Sending) /\ (ChainMessage(m) => Chained')
  BY <1>1, <1>2, ReplyKeeps DEF ParseOK
<1>5. UsersOK'
  BY UsersStay
<1>6. StateOK'
  BY DEF PollLends, askVars, StateOK
<1>7. Alive'
  BY <1>3, <1>4 DEF PollLends, Alive
<1>8. WalkOK' /\ FrameOK' /\ AskOK'
  BY <1>4 DEF PollLends, pollVars, askVars, netVars, WalkOK, FrameOK, AskOK
<1> QED
  BY <1>4, <1>5, <1>6, <1>7, <1>8

LEMMA PollNextKeeps ==
  ASSUME IInv, PollNext, UNCHANGED <<workmode, askVars, netVars, GetSubDateFlag, UpgradeState,
                                     user, commands, done>>
  PROVE  IInv'
<1> USE DEF IInv
<1> DEFINE m == Msg("NWK", "GET_SAMPLE_REQ", Node(NextEntry))
<1>1. list # <<>> /\ Reply(<<m>>) /\ ~Parses(Head(list)) /\ timer' = "GET_DATA"
  BY DEF PollNext, Sample, Polls, Received, Expired, Parses
<1>2. HAVST_State' \in {"START", "COLLECT_DATA", "PARSE_DATA"} /\ HAVST_State' # "PARSE_DATA"
      /\ HAVST_State # "PARSE_DATA"
  BY DEF PollNext, ParseOK
<1>3. WalkOK'
  BY NextEntryLemma DEF PollNext, WalkOK
<1>4. Node(NextEntry) \in Address
  BY NextEntryLemma DEF Node, Address
<1>5. MessageOK(m) /\ ~Parses(m) /\ ~Sends(m)
  BY <1>4 DEF Msg, MessageOK, ToNwk, Addressed, Parses, Sends
<1> HIDE DEF m
<1>6. ListOK' /\ ParseOK' /\ (Sending' => Sending)
  BY <1>1, <1>2, <1>5, ReplyKeeps
<1>7. UsersOK'
  BY UsersStay
<1>8. StateOK' /\ Alive'
  BY <1>1 DEF PollNext, askVars, StateOK, Running, Alive, Ticking
<1>9. FrameOK' /\ AskOK'
  BY <1>6 DEF PollNext, askVars, netVars, FrameOK, AskOK
<1> QED
  BY <1>3, <1>6, <1>7, <1>8, <1>9

LEMMA PollRoundEndKeeps ==
  ASSUME IInv, PollRoundEnd, UNCHANGED <<workmode, askVars, netVars, GetSubDateFlag,
                                         UpgradeState, user, commands, done>>
  PROVE  IInv'
<1> USE DEF IInv
<1> DEFINE m == Msg("HAVST", "PARSE_INFO_CMD", None)
<1>1. list # <<>> /\ Reply(<<m>>) /\ HAVST_State = "COLLECT_DATA" /\ HAVST_State' = "PARSE_DATA"
  BY DEF PollRoundEnd, Polls, Received, Expired
<1>2. MessageOK(m) /\ Parses(m) /\ ~Sends(m) /\ ChainMessage(m)
  BY DEF Msg, MessageOK, OfHavst, Addressed, Parses, Sends, ChainMessage
<1> HIDE DEF m
<1>3. /\ ListOK'
      /\ Len(list') = Len(list)
      /\ \A i \in 1..Len(list) - 1 : list'[i] = list[i + 1]
      /\ list'[Len(list)] = m /\ Len(list) \in Nat \ {0}
  BY <1>1, <1>2, ReplyLemma
<1>4. \A i \in 1..Len(list') : \/ i = Len(list) /\ list'[i] = m
                               \/ i + 1 \in 1..Len(list) /\ list'[i] = list[i + 1]
  BY <1>3
<1>5. \A i \in 1..Len(list) : ~Parses(list[i])
  BY <1>1 DEF ParseOK
<1>6. ParseOK' /\ Chained'
  BY <1>1, <1>2, <1>3, <1>4, <1>5 DEF ParseOK, Chained
<1>7. Sending' => Sending
  BY <1>2, <1>4 DEF Sending
<1>8. WalkOK'
  BY NextEntryLemma DEF PollRoundEnd, WalkOK
<1>9. UsersOK'
  BY UsersStay
<1>10. FrameOK' /\ AskOK' /\ StateOK' /\ Alive'
  BY <1>6, <1>7 DEF PollRoundEnd, askVars, netVars, FrameOK, AskOK, StateOK, Alive
<1> QED
  BY <1>3, <1>6, <1>8, <1>9, <1>10

(* A chain that meets a round being evaluated ends: that round's message     *)
(* starts the next one.                                                     *)
LEMMA PollParsingKeeps ==
  ASSUME IInv, PollParsing, UNCHANGED <<workmode, askVars, netVars, GetSubDateFlag, UpgradeState,
                                        user, commands, done>>
  PROVE  IInv'
<1> USE DEF IInv
<1>1. list # <<>> /\ Reply(<<>>) /\ ~Parses(Head(list)) /\ UNCHANGED HAVST_State
      /\ HAVST_State = "PARSE_DATA"
  BY DEF PollParsing, Polls, Received, Expired, Parses, pollVars
<1>2. ListOK' /\ ParseOK' /\ (Sending' => Sending)
  BY <1>1, SilentKeeps
<1>3. Chained'
  BY <1>1, <1>2 DEF ParseOK, Chained, Parses, ChainMessage
<1>4. UsersOK'
  BY UsersStay
<1>5. WalkOK' /\ FrameOK' /\ AskOK' /\ StateOK' /\ Alive'
  BY <1>2, <1>3 DEF PollParsing, pollVars, askVars, netVars, WalkOK, FrameOK, AskOK, StateOK, Alive
<1> QED
  BY <1>2, <1>3, <1>4, <1>5

LEMMA HavstTaskKeeps ==
  ASSUME IInv, HavstTask
  PROVE  IInv'
<1> USE DEF IInv
<1>1. list # <<>> /\ Head(list).to = "HAVST"
  BY DEF HavstTask
<1>2. Head(list) = list[1] /\ MessageOK(Head(list)) /\ Len(list) \in Nat \ {0}
  BY <1>1, HeadLemma
<1>3. UsersOK' /\ (Kicked' <=> Kicked)
  BY UsersStay DEF HavstTask
<1>4. CASE HAVST_State = "PARSE_DATA" /\ Head(list).id = "PARSE_INFO_CMD"
  <2> DEFINE m == StartGetData
  <2>1. Reply(<<m>>) /\ HAVST_State' = "START" /\ walk' = SampleFromTop
    BY <1>4 DEF HavstTask
  <2>2. MessageOK(m) /\ ~Parses(m) /\ ~Sends(m) /\ ChainMessage(m)
    BY DEF StartGetData, Msg, MessageOK, ToApl, Addressed, Address, None, Parses, Sends,
           ChainMessage
  <2> HIDE DEF m
  <2>3. /\ ListOK'
        /\ Len(list') = Len(list)
        /\ \A i \in 1..Len(list) - 1 : list'[i] = list[i + 1]
        /\ list'[Len(list)] = m
    BY <1>1, <2>1, <2>2, ReplyLemma
  <2>4. \A i \in 1..Len(list') : \/ i = Len(list) /\ list'[i] = m
                                 \/ i + 1 \in 1..Len(list) /\ list'[i] = list[i + 1]
    BY <1>2, <2>3
  <2>5. \A i \in 1..Len(list) : i # 1 => ~Parses(list[i])
    BY <1>2, <1>4 DEF ParseOK, Parses
  <2>6. \A i \in 1..Len(list') : ~Parses(list'[i])
    BY <1>2, <2>2, <2>4, <2>5
  <2>7. ParseOK' /\ Chained'
    BY <1>2, <2>1, <2>2, <2>3, <2>6 DEF ParseOK, Chained
  <2>8. Sending' => Sending
    BY <2>2, <2>4 DEF Sending
  <2>9. WalkOK'
    BY <2>1, TableAssumption DEF WalkOK, SampleFromTop
  <2>10. FrameOK' /\ AskOK' /\ StateOK' /\ Alive'
    BY <2>7, <2>8 DEF HavstTask, askVars, netVars, history, FrameOK, AskOK, StateOK, Alive
  <2> QED
    BY <1>3, <2>3, <2>7, <2>9, <2>10
<1>5. CASE ~(HAVST_State = "PARSE_DATA" /\ Head(list).id = "PARSE_INFO_CMD")
  <2>1. Reply(<<>>) /\ UNCHANGED pollVars
    BY <1>5 DEF HavstTask
  <2>2. ~Parses(Head(list)) /\ ~ChainMessage(Head(list))
    BY <1>1, <1>2, <1>5 DEF ParseOK, Parses, MessageOK, OfHavst, ChainMessage
  <2>3. ListOK' /\ ParseOK' /\ (Sending' => Sending) /\ (Chained => Chained')
    BY <1>1, <2>1, <2>2, SilentKeeps DEF pollVars
  <2>4. WalkOK' /\ FrameOK' /\ AskOK' /\ StateOK'
    BY <2>1, <2>3 DEF HavstTask, pollVars, askVars, netVars, history, WalkOK, FrameOK, AskOK,
                        StateOK
  <2>5. Alive'
    BY <1>3, <2>3 DEF HavstTask, history, Alive, Ticking
  <2> QED
    BY <1>3, <2>3, <2>4, <2>5
<1> QED
  BY <1>4, <1>5

-----------------------------------------------------------------------------
(* The other handlers of the application layer.                             *)
LEMMA RestKeeps ==
  ASSUME IInv, Rest, ListOK', ParseOK', Sending' => Sending, AskOK', StateOK',
         Ticking \/ Chained => Ticking' \/ Chained'
  PROVE  IInv'
<1> USE DEF IInv, Rest
<1>1. UsersOK' /\ (Kicked' <=> Kicked)
  BY UsersStay
<1>2. WalkOK' /\ FrameOK'
  BY DEF pollVars, netVars, history, WalkOK, FrameOK
<1>3. Alive'
  BY <1>1 DEF history, Alive
<1> QED
  BY <1>1, <1>2, <1>3

LEMMA StartMessage ==
  MessageOK(StartGetData) /\ ~Parses(StartGetData) /\ ~Sends(StartGetData)
  /\ ChainMessage(StartGetData)
  BY DEF StartGetData, Msg, MessageOK, ToApl, Addressed, Address, None, Parses, Sends,
         ChainMessage

LEMMA StartReplied ==
  ASSUME ListOK, ParseOK, list # <<>>, ~Parses(Head(list)), UNCHANGED HAVST_State,
         Reply(<<StartGetData>>)
  PROVE  ListOK' /\ ParseOK' /\ Chained' /\ (Sending' => Sending)
<1> DEFINE m == StartGetData
<1>1. MessageOK(m) /\ ~Parses(m) /\ ~Sends(m) /\ ChainMessage(m) /\ Reply(<<m>>)
  BY StartMessage
<1> HIDE DEF m
<1> QED
  BY <1>1, ReplyKeeps DEF ParseOK

LEMMA AskTimeoutKeeps ==
  ASSUME IInv, AskTimeout \/ PauseEnd
  PROVE  IInv'
<1>1. list # <<>> /\ ~Parses(Head(list)) /\ Reply(<<StartGetData>>) /\ Rest
  BY DEF AskTimeout, PauseEnd, Expired, Received, Parses
<1>2. ListOK' /\ ParseOK' /\ Chained' /\ (Sending' => Sending)
  BY <1>1, StartReplied DEF IInv, Rest, pollVars
<1>3. AskOK' /\ StateOK'
  BY DEF AskTimeout, PauseEnd, Rest, history, askVars, IInv, AskOK, StateOK
<1> QED
  BY <1>1, <1>2, <1>3, RestKeeps

LEMMA UpgradeTimeoutKeeps ==
  ASSUME IInv, UpgradeTimeout
  PROVE  IInv'
<1>1. list # <<>> /\ ~Parses(Head(list)) /\ ~ChainMessage(Head(list)) /\ Reply(<<>>) /\ Rest
  BY DEF UpgradeTimeout, Expired, Received, Parses, ChainMessage, Arg
<1>2. ListOK' /\ ParseOK' /\ (Chained => Chained') /\ (Sending' => Sending)
  BY <1>1, SilentKeeps DEF IInv, Rest, pollVars
<1>3. AskOK' /\ StateOK' /\ timer' = timer
  BY DEF UpgradeTimeout, Rest, history, askVars, IInv, AskOK, StateOK
<1> QED
  BY <1>1, <1>2, <1>3, RestKeeps DEF Ticking

LEMMA StartSetDataKeeps ==
  ASSUME IInv, StartSetData
  PROVE  IInv'
<1> USE DEF IInv
<1> DEFINE m == Msg("NWK", "SET_DATA_REQ", Arg)
<1>1. list # <<>> /\ Head(list).id = "START_SET_DATA" /\ Reply(<<m>>) /\ UNCHANGED HAVST_State
      /\ timer' = "SET_DATA"
  BY DEF StartSetData, Received, pollVars
<1>2. Arg \in Address
  BY <1>1, HeadLemma DEF MessageOK, Addressed, Arg
<1>3. MessageOK(m) /\ ~Parses(m) /\ ~Sends(m) /\ ~Parses(Head(list))
  BY <1>1, <1>2 DEF Msg, MessageOK, ToNwk, Addressed, Parses, Sends
<1> HIDE DEF m
<1>4. ListOK' /\ ParseOK' /\ (Sending' => Sending)
  BY <1>1, <1>3, ReplyKeeps DEF ParseOK
<1>5. UsersOK'
  BY UsersStay DEF StartSetData
<1>6. StateOK' /\ Alive'
  BY <1>1 DEF StartSetData, askVars, history, StateOK, Running, Alive, Ticking
<1>7. FrameOK'
  <2>1. NwkSetParaData' \in [idx : Nat, dev : Address]
    BY DEF StartSetData, AskOK
  <2> QED
    BY <1>4, <2>1 DEF StartSetData, FrameOK, history
<1>8. AskOK' /\ WalkOK'
  BY DEF StartSetData, pollVars, askVars, AskOK, WalkOK
<1> QED
  BY <1>4, <1>5, <1>6, <1>7, <1>8

LEMMA StartGetParaDataKeeps ==
  ASSUME IInv, StartGetParaData
  PROVE  IInv'
<1> DEFINE m == Msg("NWK", "GET_PARA_REQ", Arg)
<1>1. list # <<>> /\ Head(list).id = "START_GET_PARA_DATA" /\ Reply(<<m>>)
      /\ UNCHANGED HAVST_State /\ timer' = "GET_PARA_DATA" /\ Rest
  BY DEF StartGetParaData, Received, Rest, pollVars
<1>2. Arg \in Address
  BY <1>1, HeadLemma DEF MessageOK, Addressed, Arg, IInv
<1>3. MessageOK(m) /\ ~Parses(m) /\ ~Sends(m) /\ ~Parses(Head(list))
  BY <1>1, <1>2 DEF Msg, MessageOK, ToNwk, Addressed, Parses, Sends
<1> HIDE DEF m
<1>4. ListOK' /\ ParseOK' /\ (Sending' => Sending)
  BY <1>1, <1>3, ReplyKeeps DEF ParseOK, IInv
<1>5. AskOK' /\ StateOK'
  BY <1>1 DEF StartGetParaData, Rest, askVars, history, IInv, AskOK, StateOK, Running
<1> QED
  BY <1>1, <1>4, <1>5, RestKeeps DEF Ticking

LEMMA SetDataCfmKeeps ==
  ASSUME IInv, SetDataCfm
  PROVE  IInv'
<1>1. list # <<>> /\ Head(list).id = "SET_DATA_CFM" /\ UNCHANGED HAVST_State /\ Rest
      /\ Reply(<<>>)
  BY DEF SetDataCfm, Received, Rest, pollVars
<1>2. ~Parses(Head(list)) /\ ~ChainMessage(Head(list))
  BY <1>1 DEF Parses, ChainMessage
<1>3. ListOK' /\ ParseOK' /\ (Sending' => Sending) /\ (Chained => Chained')
  BY <1>1, <1>2, SilentKeeps DEF IInv
<1>4. CASE workmode = "DIHAVST4"
  <2>1. UNCHANGED <<timer, SetParameterData>>
    BY <1>4 DEF SetDataCfm
  <2>2. AskOK' /\ StateOK'
    BY <2>1 DEF SetDataCfm, Rest, history, IInv, AskOK, StateOK
  <2> QED
    BY <1>1, <1>3, <2>1, <2>2, RestKeeps DEF Ticking
<1>5. CASE workmode # "DIHAVST4"
  <2>1. timer' = "SET_CFM_STATUS"
        /\ SetParameterData' = [SetParameterData EXCEPT !.flag = TRUE]
    BY <1>5 DEF SetDataCfm
  <2>2. AskOK'
    BY <2>1 DEF SetDataCfm, IInv, AskOK
  <2>3. StateOK'
    BY <2>1 DEF SetDataCfm, Rest, history, IInv, StateOK, Running
  <2> QED
    BY <1>1, <1>3, <2>1, <2>2, <2>3, RestKeeps DEF Ticking
<1> QED
  BY <1>4, <1>5

LEMMA GetParaCfmKeeps ==
  ASSUME IInv, GetParaCfm
  PROVE  IInv'
<1>1. list # <<>> /\ Head(list).id = "GET_PARA_CFM" /\ UNCHANGED HAVST_State /\ Rest
      /\ Reply(<<>>) /\ timer' = "GET_PARA_CFM_DATA"
  BY DEF GetParaCfm, Received, Rest, pollVars
<1>2. ~Parses(Head(list))
  BY <1>1 DEF Parses
<1>3. ListOK' /\ ParseOK' /\ (Sending' => Sending)
  BY <1>1, <1>2, SilentKeeps DEF IInv
<1>4. AskOK' /\ StateOK'
  BY <1>1 DEF GetParaCfm, Rest, history, IInv, AskOK, StateOK, Running
<1> QED
  BY <1>1, <1>3, <1>4, RestKeeps DEF Ticking

LEMMA GetSampleCfmKeeps ==
  ASSUME IInv, GetSampleCfm
  PROVE  IInv'
<1>1. list # <<>> /\ Head(list).id = "GET_SAMPLE_CFM" /\ UNCHANGED HAVST_State /\ Rest
      /\ ~Parses(Head(list))
  BY DEF GetSampleCfm, Received, Rest, pollVars, Parses
<1>2. timer' \in {"GET_DATA", "GET_CFM_DATA"}
  BY DEF GetSampleCfm, Sample
<1>3. AskOK' /\ StateOK'
  BY <1>2 DEF GetSampleCfm, Rest, askVars, history, IInv, AskOK, StateOK, Running
<1>4. CASE Arg
  <2> DEFINE m == Msg("NWK", "GET_SAMPLE_REQ", Node(walk))
  <2>1. Reply(<<m>>)
    BY <1>4 DEF GetSampleCfm, Sample
  <2>2. Node(walk) \in Address
    BY DEF IInv, WalkOK, Node, Address
  <2>3. MessageOK(m) /\ ~Parses(m) /\ ~Sends(m)
    BY <2>2 DEF Msg, MessageOK, ToNwk, Addressed, Parses, Sends
  <2> HIDE DEF m
  <2>4. ListOK' /\ ParseOK' /\ (Sending' => Sending)
    BY <1>1, <2>1, <2>3, ReplyKeeps DEF ParseOK, IInv
  <2> QED
    BY <1>1, <1>2, <1>3, <2>4, RestKeeps DEF Ticking
<1>5. CASE ~Arg
  <2>1. Reply(<<>>)
    BY <1>5 DEF GetSampleCfm
  <2>2. ListOK' /\ ParseOK' /\ (Sending' => Sending)
    BY <1>1, <2>1, SilentKeeps DEF IInv
  <2> QED
    BY <1>1, <1>2, <1>3, <2>2, RestKeeps DEF Ticking
<1> QED
  BY <1>4, <1>5

LEMMA UpgradeKeeps ==
  ASSUME IInv, StartUpgradeCmd \/ StartUpgradeCfm
  PROVE  IInv'
<1> USE DEF IInv
<1> DEFINE m == Msg("NWK", "UPGRADE_CMD_REQ", Arg.to)
<1>1. list # <<>> /\ Head(list).id \in {"START_UPGRADE_CMD", "START_UPGRADE_CFM"}
      /\ UpgradeRequest(Arg.type)
  BY DEF StartUpgradeCmd, StartUpgradeCfm, Received
<1>2. UNCHANGED <<HAVST_State, user>> /\ Reply(<<m>>)
  BY <1>1 DEF UpgradeRequest, pollVars
<1>3. MessageOK(Head(list))
  BY <1>1, HeadLemma
<1>4. Arg.to \in Address
  BY <1>1, <1>3 DEF MessageOK, Arg
<1>5. MessageOK(m) /\ ~Parses(m) /\ ~Sends(m) /\ ~Parses(Head(list))
  BY <1>1, <1>4 DEF Msg, MessageOK, ToNwk, Addressed, Parses, Sends
<1> HIDE DEF m
<1>6. ListOK' /\ ParseOK' /\ (Sending' => Sending)
  BY <1>1, <1>2, <1>5, ReplyKeeps DEF ParseOK
<1>7. UsersOK'
  BY <1>2, UsersStay
<1>8. UpgradeState' \in {-1, 0, 1, 2}
  <2>1. CASE StartUpgradeCmd
    BY <2>1 DEF StartUpgradeCmd, StateOK
  <2>2. CASE StartUpgradeCfm
    <3>1. Arg.type \in {0, 2}
      BY <1>3, <2>2 DEF StartUpgradeCfm, Received, MessageOK, Arg
    <3> QED
      BY <2>2, <3>1 DEF StartUpgradeCfm
  <2> QED
    BY <2>1, <2>2
<1>9. StateOK'
  <2>1. timer' \in {"off"} \cup Running
    BY <1>1 DEF UpgradeRequest, Running
  <2>2. lost' \in BOOLEAN
    BY <1>1 DEF UpgradeRequest, Losing, StateOK
  <2> QED
    BY <1>1, <1>8, <2>1, <2>2 DEF UpgradeRequest, askVars, StateOK
<1>10. WalkOK' /\ FrameOK' /\ AskOK' /\ Alive'
  BY <1>1, <1>6 DEF UpgradeRequest, Losing, pollVars, askVars, netVars, WalkOK, FrameOK, AskOK,
                    Alive
<1> QED
  BY <1>6, <1>7, <1>9, <1>10

LEMMA OtherAplKeeps ==
  ASSUME IInv, OtherApl
  PROVE  IInv'
<1>1. list # <<>> /\ ~Parses(Head(list)) /\ ~ChainMessage(Head(list)) /\ Reply(<<>>) /\ Rest
  BY DEF OtherApl, Received, Parses, ChainMessage
<1>2. ListOK' /\ ParseOK' /\ (Chained => Chained') /\ (Sending' => Sending)
  BY <1>1, SilentKeeps DEF IInv, Rest, pollVars
<1>3. AskOK' /\ StateOK' /\ timer' = timer
  BY DEF OtherApl, Rest, history, askVars, IInv, AskOK, StateOK
<1> QED
  BY <1>1, <1>2, <1>3, RestKeeps DEF Ticking

-----------------------------------------------------------------------------
(* The network layer.                                                       *)
LEMMA NwkHead ==
  ASSUME ListOK, list # <<>>, Head(list).to \in {"NWK", "MAC"}
  PROVE  ~Parses(Head(list)) /\ ~ChainMessage(Head(list))
<1>1. MessageOK(Head(list))
  BY HeadLemma
<1> QED
  BY <1>1 DEF MessageOK, ToNwk, OfMac, Parses, ChainMessage

LEMMA NwkRequestKeeps ==
  ASSUME IInv, NwkRequest
  PROVE  IInv'
<1> USE DEF IInv
<1> DEFINE m == Msg("MAC", "DATA_REQ", None)
<1>1. /\ list # <<>> /\ Head(list).to = "NWK"
      /\ Head(list).id \in {"SET_DATA_REQ", "GET_PARA_REQ", "UPGRADE_CMD_REQ", "GET_SAMPLE_REQ"}
  BY DEF NwkRequest, NwkSetDataReq, NwkGetParaReq, NwkUpgradeCmdReq, NwkGetSampleReq, Received
<1>2. Arg \in Address
  BY <1>1, HeadLemma DEF MessageOK, Addressed, Arg
<1>3. NWK_ComBuf' \in Requests /\ NWK_ComBuf'.op # "none"
  BY <1>2 DEF NwkRequest, NwkSetDataReq, NwkGetParaReq, NwkUpgradeCmdReq, NwkGetSampleReq, ToMac,
              FrameOK, AskOK, Requests, Address
<1>4. Reply(<<m>>) /\ mixed' = (mixed \/ Unsent)
  BY DEF NwkRequest, NwkSetDataReq, NwkGetParaReq, NwkUpgradeCmdReq, NwkGetSampleReq, ToMac
<1>5. NwkRest /\ UNCHANGED <<askVars, EMN_NWK_State, NwkSetParaData, air>>
  BY DEF NwkRequest
<1>6. MessageOK(m) /\ ~Parses(m)
  BY DEF Msg, MessageOK, OfMac, Addressed, Parses
<1> HIDE DEF m
<1>7. ListOK' /\ ParseOK' /\ (Chained => Chained')
  BY <1>1, <1>4, <1>5, <1>6, NwkHead, ReplyKeeps DEF ParseOK, NwkRest, pollVars
<1>8. UsersOK' /\ (Kicked' <=> Kicked)
  BY <1>5, UsersStay DEF NwkRest
<1>9. FrameOK'
  BY <1>3, <1>5 DEF NwkRest, FrameOK
<1>10. WalkOK' /\ AskOK'
  BY <1>5 DEF NwkRest, pollVars, askVars, WalkOK, AskOK
<1>11. StateOK'
  BY <1>4, <1>5 DEF NwkRest, askVars, StateOK
<1>12. Alive'
  BY <1>5, <1>7, <1>8 DEF NwkRest, Alive, Ticking
<1> QED
  BY <1>7, <1>8, <1>9, <1>10, <1>11, <1>12

LEMMA NwkDataIndKeeps ==
  ASSUME IInv, NwkDataInd
  PROVE  IInv'
<1> USE DEF IInv
<1> DEFINE m == Confirm(Arg)
<1>1. /\ list # <<>> /\ Head(list).to = "NWK" /\ Head(list).id = "DATA_IND"
      /\ Reply(<<m>>) /\ NwkRest
      /\ UNCHANGED <<Get_Data_Flag, SetType, SetAddr, SetParameterData, netVars, mixed>>
  BY DEF NwkDataInd, Received
<1>2. AnswerOK(Arg)
  BY <1>1, HeadLemma DEF MessageOK, Arg
<1>3. MessageOK(m) /\ ~Parses(m) /\ ~Sends(m)
  <2>1. CASE Arg.op = "set"
    BY <2>1 DEF Confirm, Msg, MessageOK, ToApl, Addressed, Parses, Sends
  <2>2. CASE Arg.op = "get"
    BY <2>2 DEF Confirm, Msg, MessageOK, ToApl, Addressed, Parses, Sends
  <2>3. CASE Arg.op = "upgrade"
    <3>1. None \in Address /\ Arg.code \in {0, 2}
      BY <1>2, <2>3 DEF AnswerOK, None, Address
    <3> QED
      BY <2>3, <3>1 DEF Confirm, Msg, MessageOK, ToApl, Addressed, Parses, Sends
  <2>4. CASE Arg.op = "sample"
    BY <2>4 DEF Confirm, Msg, MessageOK, ToApl, Addressed, Parses, Sends
  <2> QED
    BY <1>2, <2>1, <2>2, <2>3, <2>4 DEF AnswerOK
<1> HIDE DEF m
<1>4. ListOK' /\ ParseOK' /\ (Chained => Chained') /\ (Sending' => Sending)
  BY <1>1, <1>3, NwkHead, ReplyKeeps DEF ParseOK, NwkRest, pollVars
<1>5. UsersOK' /\ (Kicked' <=> Kicked)
  BY <1>1, UsersStay DEF NwkRest
<1>6. AskOK'
  BY <1>1 DEF NwkDataInd, AskOK
<1>7. WalkOK' /\ FrameOK' /\ StateOK'
  BY <1>1, <1>4 DEF NwkRest, netVars, pollVars, WalkOK, FrameOK, StateOK
<1>8. Alive'
  BY <1>1, <1>4, <1>5 DEF NwkRest, Alive, Ticking
<1> QED
  BY <1>4, <1>5, <1>6, <1>7, <1>8

LEMMA NwkSetupKeeps ==
  ASSUME IInv, NwkSetup
  PROVE  IInv'
<1> USE DEF IInv
<1>1. /\ list # <<>> /\ Head(list).to = "NWK" /\ Reply(Setup(Head(list))) /\ NwkRest
      /\ UNCHANGED <<askVars, NWK_ComBuf, NwkSetParaData, air, mixed>>
  BY DEF NwkSetup
<1>2. ~Parses(Head(list)) /\ ~ChainMessage(Head(list)) /\ UNCHANGED HAVST_State
  BY <1>1, NwkHead DEF NwkRest, pollVars
<1>3. ListOK' /\ ParseOK' /\ (Chained => Chained') /\ (Sending' => Sending)
  <2>1. CASE Setup(Head(list)) = <<>>
    BY <1>1, <1>2, <2>1, SilentKeeps
  <2>2. ASSUME NEW m, Setup(Head(list)) = <<m>>,
               \/ m = Msg("MAC", "SCAN_REQ", None)
               \/ m = Msg("MAC", "END_SCAN_REQ", None)
               \/ m = Msg("APL", "END_SETUP_NWK", None)
               \/ m = Msg("MAC", "DATA_RES", None)
        PROVE  ListOK' /\ ParseOK' /\ (Chained => Chained') /\ (Sending' => Sending)
    <3>1. MessageOK(m) /\ ~Parses(m) /\ ~Sends(m)
      BY <2>2 DEF Msg, MessageOK, OfMac, ToApl, Addressed, Parses, Sends
    <3>2. Reply(<<m>>)
      BY <1>1, <2>2
    <3> QED
      BY <1>1, <1>2, <3>1, <3>2, ReplyKeeps DEF ParseOK
  <2> QED
    BY <2>1, <2>2 DEF Setup
<1>4. UsersOK' /\ (Kicked' <=> Kicked)
  BY <1>1, UsersStay DEF NwkRest
<1>5. WalkOK' /\ FrameOK' /\ AskOK' /\ StateOK'
  BY <1>1, <1>3 DEF NwkRest, askVars, pollVars, WalkOK, FrameOK, AskOK, StateOK
<1>6. Alive'
  BY <1>1, <1>3, <1>4 DEF NwkRest, Alive, Ticking
<1> QED
  BY <1>3, <1>4, <1>5, <1>6

-----------------------------------------------------------------------------
(* The MAC layer.                                                           *)
LEMMA MacKeeps ==
  ASSUME IInv, MacRest, ListOK', ParseOK', Chained => Chained', Sending' => Sending,
         \A a \in air' : AnswerOK(a), done' \subseteq Requests
  PROVE  IInv'
<1> USE DEF IInv, MacRest
<1>1. UsersOK' /\ (Kicked' <=> Kicked)
  BY UsersStay
<1>2. WalkOK' /\ FrameOK' /\ AskOK' /\ StateOK'
  BY DEF askVars, pollVars, WalkOK, FrameOK, AskOK, StateOK
<1>3. Alive'
  BY <1>1 DEF Alive, Ticking
<1> QED
  BY <1>1, <1>2, <1>3

LEMMA NodeKeeps ==
  ASSUME IInv, NodeHears \/ NodeMisses
  PROVE  IInv'
<1>1. list # <<>> /\ Head(list).to = "MAC" /\ Head(list).id = "DATA_REQ" /\ Reply(<<>>)
      /\ UNCHANGED HAVST_State /\ MacRest
  BY DEF NodeHears, NodeMisses, Received, MacRest, pollVars
<1>2. ListOK' /\ ParseOK' /\ (Chained => Chained') /\ (Sending' => Sending)
  BY <1>1, NwkHead, SilentKeeps DEF IInv
<1>3. NWK_ComBuf \in Requests /\ NWK_ComBuf.op \in {"set", "get", "upgrade", "sample"}
  <2>1. Head(list) = list[1] /\ Len(list) \in Nat \ {0}
    BY <1>1, HeadLemma DEF IInv
  <2>2. Sending
    BY <1>1, <2>1 DEF Sending, Sends
  <2>3. NWK_ComBuf \in Requests /\ NWK_ComBuf.op # "none"
    BY <2>2 DEF IInv, FrameOK
  <2> QED
    BY <2>3 DEF Requests
<1>4. done' \subseteq Requests
  BY <1>3 DEF NodeHears, NodeMisses, IInv, FrameOK
<1>5. \A a \in air' : AnswerOK(a)
  BY <1>3 DEF NodeHears, NodeMisses, IInv, FrameOK, AnswerOK, Codes
<1> QED
  BY <1>1, <1>2, <1>4, <1>5, MacKeeps

LEMMA MacScanKeeps ==
  ASSUME IInv, MacScan
  PROVE  IInv'
<1>1. list # <<>> /\ Head(list).to = "MAC" /\ UNCHANGED HAVST_State /\ MacRest
      /\ UNCHANGED <<air, done>>
  BY DEF MacScan, Received, MacRest, pollVars
<1>2. ~Parses(Head(list)) /\ ~ChainMessage(Head(list))
  BY <1>1, NwkHead DEF IInv
<1>3. ListOK' /\ ParseOK' /\ (Chained => Chained') /\ (Sending' => Sending)
  <2>1. CASE Reply(<<>>)
    BY <1>1, <1>2, <2>1, SilentKeeps DEF IInv
  <2>2. ASSUME NEW m, Reply(<<m>>),
               m = Msg("NWK", "SCAN_CFM", None) \/ m = Msg("NWK", "END_SCAN_CFM", None)
        PROVE  ListOK' /\ ParseOK' /\ (Chained => Chained') /\ (Sending' => Sending)
    <3>1. MessageOK(m) /\ ~Parses(m) /\ ~Sends(m)
      BY <2>2 DEF Msg, MessageOK, ToNwk, Addressed, Parses, Sends
    <3> QED
      BY <1>1, <1>2, <2>2, <3>1, ReplyKeeps DEF ParseOK, IInv
  <2> QED
    BY <2>1, <2>2 DEF MacScan
<1>4. (\A a \in air' : AnswerOK(a)) /\ done' \subseteq Requests
  BY <1>1 DEF IInv, FrameOK
<1> QED
  BY <1>1, <1>3, <1>4, MacKeeps

-----------------------------------------------------------------------------
(* Between handlers.                                                        *)
LEMMA IdleKeeps ==
  ASSUME IInv, Idle, ListOK', ParseOK', Sending' => Sending,
         \A a \in air' : AnswerOK(a), timer' \in {"off"} \cup Running,
         Ticking \/ Chained => Ticking' \/ Chained'
  PROVE  IInv'
<1> USE DEF IInv, Idle
<1>1. UsersOK' /\ (Kicked' <=> Kicked)
  BY UsersStay
<1>2. WalkOK' /\ FrameOK' /\ AskOK' /\ StateOK'
  BY DEF askVars, pollVars, history, WalkOK, FrameOK, AskOK, StateOK
<1>3. Alive'
  BY <1>1 DEF history, Alive
<1> QED
  BY <1>1, <1>2, <1>3

LEMMA ArriveKeeps ==
  ASSUME IInv, Arrive
  PROVE  IInv'
<1>1. PICK a \in air : Post(Msg("NWK", "DATA_IND", a)) /\ air' = air \ {a}
  BY DEF Arrive
<1>2. Idle /\ UNCHANGED <<timer, HAVST_State>>
  BY DEF Arrive, Idle, pollVars
<1>3. \A b \in air : AnswerOK(b)
  BY DEF IInv, FrameOK
<1> DEFINE m == Msg("NWK", "DATA_IND", a)
<1>4. MessageOK(m) /\ ~Parses(m) /\ ~Sends(m) /\ Post(m)
  BY <1>1, <1>3 DEF Msg, MessageOK, ToNwk, Addressed, Parses, Sends
<1> HIDE DEF m
<1>5. ListOK' /\ ParseOK' /\ (Chained => Chained') /\ (Sending' => Sending)
  BY <1>2, <1>4, PostKeeps DEF IInv
<1>6. timer' \in {"off"} \cup Running
  BY <1>2 DEF IInv, StateOK
<1> QED
  BY <1>1, <1>2, <1>3, <1>5, <1>6, IdleKeeps DEF Ticking

LEMMA LoseKeeps ==
  ASSUME IInv, Lose
  PROVE  IInv'
<1>1. Idle /\ UNCHANGED <<list, timer, HAVST_State>> /\ air' \subseteq air
  BY DEF Lose, Idle, pollVars, listVars
<1>2. ListOK' /\ ParseOK' /\ (Chained => Chained') /\ (Sending' => Sending)
  BY <1>1 DEF IInv, ListOK, ParseOK, Chained, Sending
<1>3. (\A a \in air' : AnswerOK(a)) /\ timer' \in {"off"} \cup Running
  BY <1>1 DEF IInv, FrameOK, StateOK
<1> QED
  BY <1>1, <1>2, <1>3, IdleKeeps DEF Ticking

(* The chain goes on as a message when its timer expires.                   *)
LEMMA ExpireKeeps ==
  ASSUME IInv, Expire
  PROVE  IInv'
<1> DEFINE m == Timeout(timer)
<1>1. Post(m) /\ timer # "off" /\ timer' = "off" /\ Idle /\ UNCHANGED <<air, HAVST_State>>
  BY DEF Expire, Idle, pollVars
<1>2. timer \in Running
  BY <1>1 DEF IInv, StateOK
<1>3. MessageOK(m) /\ ~Parses(m) /\ ~Sends(m)
  BY <1>2 DEF Timeout, Msg, MessageOK, ToApl, Addressed, Parses, Sends
<1>4. Ticking => ChainMessage(m)
  BY DEF Ticking, Timeout, Msg, ChainMessage
<1> HIDE DEF m
<1>5. ListOK' /\ ParseOK' /\ (Chained => Chained') /\ (ChainMessage(m) => Chained')
      /\ (Sending' => Sending)
  BY <1>1, <1>3, PostKeeps DEF IInv
<1>6. (\A a \in air' : AnswerOK(a)) /\ timer' \in {"off"} \cup Running
  BY <1>1 DEF IInv, FrameOK
<1> QED
  BY <1>1, <1>4, <1>5, <1>6, IdleKeeps

LEMMA PagingEndKeeps ==
  ASSUME IInv, PagingEnd
  PROVE  IInv'
<1> DEFINE m == Msg("NWK", "DIS_NETWORK_CFM", None)
<1>1. Post(m) /\ Idle /\ UNCHANGED <<air, timer, HAVST_State>>
  BY DEF PagingEnd, Idle, pollVars
<1>2. MessageOK(m) /\ ~Parses(m) /\ ~Sends(m)
  BY DEF Msg, MessageOK, ToNwk, Addressed, Parses, Sends
<1> HIDE DEF m
<1>3. ListOK' /\ ParseOK' /\ (Chained => Chained') /\ (Sending' => Sending)
  BY <1>1, <1>2, PostKeeps DEF IInv
<1>4. (\A a \in air' : AnswerOK(a)) /\ timer' \in {"off"} \cup Running
  BY <1>1 DEF IInv, FrameOK, StateOK
<1> QED
  BY <1>1, <1>3, <1>4, IdleKeeps DEF Ticking

-----------------------------------------------------------------------------
(* The shells.  Moves of one of them keep what the others are about to do.   *)
Places == {"rest", "go"} \cup Asked
UserType == [left : Seq(Steps), at : Places, node : Address]

LEMMA UserMoves ==
  ASSUME UsersOK, NEW u \in Users, NEW r \in UserType, UserOK(r),
         user' = [user EXCEPT ![u] = r]
  PROVE  /\ UsersOK'
         /\ Kicked
              /\ (r.left = user[u].left \/ ~(user[u].left # <<>> /\ user[u].left[1].op = "kick"))
              => Kicked'
         /\ r.left # <<>> /\ r.left[1].op = "kick" => Kicked'
<1>1. user \in [Users -> UserType]
  BY DEF UsersOK, UserType, Places
<1> HIDE DEF UserType
<1>2. user' \in [Users -> UserType] /\ user'[u] = r /\ \A v \in Users : v # u => user'[v] = user[v]
  BY <1>1
<1>3. \A v \in Users : UserOK(user'[v])
  BY <1>2 DEF UsersOK
<1>4. UsersOK'
  BY <1>2, <1>3 DEF UsersOK, UserType, Places
<1>5. r.left # <<>> /\ r.left[1].op = "kick" => Kicked'
  BY <1>2 DEF Kicked
<1>6. ASSUME Kicked, r.left = user[u].left \/ ~(user[u].left # <<>> /\ user[u].left[1].op = "kick")
      PROVE  Kicked'
  <2>1. PICK v \in Users : user[v].left # <<>> /\ user[v].left[1].op = "kick"
    BY <1>6 DEF Kicked
  <2>2. CASE v = u
    BY <1>5, <1>6, <2>1, <2>2
  <2>3. CASE v # u
    BY <1>2, <2>1, <2>3 DEF Kicked
  <2> QED
    BY <2>2, <2>3
<1> QED
  BY <1>4, <1>5, <1>6

LEMMA UserFacts ==
  ASSUME UsersOK, NEW u \in Users
  PROVE  /\ user[u] \in UserType /\ UserOK(user[u])
         /\ user[u].at # "rest" =>
              /\ user[u].left # <<>> /\ Len(user[u].left) \in Nat \ {0}
              /\ Next1(u) = user[u].left[1] /\ Next1(u) \in Steps
<1>1. user[u] \in UserType /\ UserOK(user[u])
  BY DEF UsersOK, UserType, Places
<1>2. user[u].left \in Seq(Steps)
  BY <1>1 DEF UserType
<1>3. ASSUME user[u].at # "rest"
      PROVE  user[u].left # <<>>
  BY <1>1, <1>3 DEF UserOK
<1> HIDE DEF Steps
<1>4. user[u].left # <<>> => /\ Len(user[u].left) \in Nat \ {0}
                             /\ Head(user[u].left) = user[u].left[1]
                             /\ user[u].left[1] \in Steps
  BY <1>2
<1> QED
  BY <1>1, <1>3, <1>4 DEF Next1

LEMMA GotoKeeps ==
  ASSUME UsersOK, NEW u \in Users, NEW place \in Asked, user[u].at # "rest",
         Next1(u).op \in {"set", "get"}, Goto(u, place)
  PROVE  UsersOK' /\ (Kicked => Kicked')
<1> DEFINE r == [user[u] EXCEPT !.at = place]
<1>1. user[u] \in UserType /\ UserOK(user[u]) /\ user[u].left # <<>> /\ Next1(u) = user[u].left[1]
  BY UserFacts
<1>2. r \in UserType /\ r.left = user[u].left /\ r.at = place
  BY <1>1 DEF UserType, Places
<1>3. UserOK(r)
  BY <1>1, <1>2 DEF UserOK, Asked, Filling
<1>4. user' = [user EXCEPT ![u] = r]
  BY DEF Goto
<1> HIDE DEF r
<1> QED
  BY <1>2, <1>3, <1>4, UserMoves

LEMMA QuitKeeps ==
  ASSUME UsersOK, NEW u \in Users, user[u].at # "rest", Next1(u).op # "kick", Quit(u)
  PROVE  UsersOK' /\ (Kicked => Kicked')
<1> DEFINE r == [user[u] EXCEPT !.left = <<>>, !.at = "rest"]
<1>1. user[u] \in UserType /\ Next1(u) = user[u].left[1]
  BY UserFacts
<1>2. r \in UserType /\ r.left = <<>> /\ r.at = "rest"
  <2>1. <<>> \in Seq(Steps)
    OBVIOUS
  <2> QED
    BY <1>1, <2>1 DEF UserType, Places
<1>3. UserOK(r)
  <2>1. Len(<<>>) = 0 /\ \A i \in 1..0 : FALSE
    OBVIOUS
  <2> QED
    BY <1>2, <2>1 DEF UserOK, KickFollows, Asked, Filling
<1>4. user' = [user EXCEPT ![u] = r]
  BY DEF Quit
<1> HIDE DEF r
<1> QED
  BY <1>1, <1>2, <1>3, <1>4, UserMoves

(* A command that has just enabled the polling is the one to start it.       *)
LEMMA ProceedKeeps ==
  ASSUME UsersOK, NEW u \in Users, user[u].at # "rest", Proceed(u)
  PROVE  /\ UsersOK'
         /\ Kicked /\ Next1(u).op # "kick" => Kicked'
         /\ Next1(u).op = "enable" => Kicked'
<1> DEFINE s == user[u].left
           place == IF Len(s) = 1 THEN "rest" ELSE "go"
           r == [user[u] EXCEPT !.left = Tail(s), !.at = place]
<1>1. user[u] \in UserType /\ UserOK(user[u]) /\ Next1(u) = s[1] /\ Len(s) \in Nat \ {0} /\ s # <<>>
  BY UserFacts
<1>2. s \in Seq(Steps)
  BY <1>1 DEF UserType
<1>3. /\ Tail(s) \in Seq(Steps) /\ Len(Tail(s)) = Len(s) - 1
      /\ \A i \in 1..Len(s) - 1 : Tail(s)[i] = s[i + 1]
  <2> HIDE DEF Steps, s
  <2> QED
    BY <1>1, <1>2
<1>4. r \in UserType /\ r.left = Tail(s) /\ r.at = place
  BY <1>1, <1>3 DEF UserType, Places
<1>5. user' = [user EXCEPT ![u] = r]
  BY DEF Proceed
<1>6. KickFollows(s)
  BY <1>1 DEF UserOK
<1>7. Tail(s) = <<>> <=> Len(s) = 1
  <2> HIDE DEF Steps, s
  <2>1. \A t \in Seq(Steps) : t = <<>> <=> Len(t) = 0
    OBVIOUS
  <2>2. Tail(s) = <<>> <=> Len(Tail(s)) = 0
    BY <1>3, <2>1, Zenon
  <2>3. Len(s) - 1 = 0 <=> Len(s) = 1
    BY <1>1
  <2> QED
    BY <1>3, <2>2, <2>3
<1> HIDE DEF s, r
<1>8. UserOK(r)
  <2>1. KickFollows(Tail(s))
    <3>1. ASSUME NEW i \in 1..Len(Tail(s)), Tail(s)[i].op = "enable"
          PROVE  i < Len(Tail(s)) /\ Tail(s)[i + 1].op = "kick"
      <4>1. i + 1 \in 1..Len(s) /\ s[i + 1].op = "enable"
        BY <1>1, <1>3, <3>1
      <4>2. i + 1 < Len(s) /\ s[(i + 1) + 1].op = "kick"
        BY <1>6, <4>1 DEF KickFollows
      <4>3. i + 1 \in 1..Len(s) - 1
        BY <1>1, <4>1, <4>2
      <4> QED
        BY <1>1, <1>3, <4>2, <4>3
    <3> QED
      BY <3>1 DEF KickFollows
  <2> QED
    BY <1>4, <1>7, <2>1 DEF UserOK, Asked, Filling
<1>9. s[1].op = "enable" => r.left # <<>> /\ r.left[1].op = "kick"
  <2>1. s[1].op = "enable" => 1 < Len(s) /\ s[1 + 1].op = "kick"
    BY <1>1, <1>6 DEF KickFollows
  <2> QED
    BY <1>1, <1>3, <1>4, <1>7, <2>1
<1>10. /\ UsersOK'
       /\ Kicked /\ (r.left = user[u].left \/ ~(user[u].left # <<>> /\ user[u].left[1].op = "kick"))
            => Kicked'
       /\ r.left # <<>> /\ r.left[1].op = "kick" => Kicked'
  BY <1>4, <1>5, <1>8, UserMoves
<1> QED
  BY <1>1, <1>9, <1>10 DEF s

(* A step of a shell that leaves the list and the chain alone.              *)
LEMMA ShellKeeps ==
  ASSUME IInv, UserRest, list' = list, UsersOK', AskOK', StateOK', done' \subseteq Requests,
         Kicked \/ GetSubDateFlag' # GetSubDateFlag => Kicked' \/ ~GetSubDateFlag',
         lost' = lost
  PROVE  IInv'
<1> USE DEF IInv, UserRest
<1>1. ListOK' /\ ParseOK' /\ (Chained' <=> Chained) /\ (Sending' <=> Sending)
  BY DEF pollVars, ListOK, ParseOK, Chained, Sending
<1>2. WalkOK' /\ FrameOK'
  BY <1>1 DEF pollVars, netVars, WalkOK, FrameOK
<1>3. Alive'
  BY <1>1 DEF Alive, Ticking
<1> QED
  BY <1>1, <1>2, <1>3

LEMMA CommandKeeps ==
  ASSUME IInv, NEW u \in Users, Command(u)
  PROVE  IInv'
<1>1. PICK c \in Commands, n \in Targets :
        user' = [user EXCEPT ![u] = [left |-> c, at |-> "go", node |-> n]]
  BY DEF Command
<1> DEFINE r == [left |-> c, at |-> "go", node |-> n]
<1>2. c \in Seq(Steps) /\ c # <<>> /\ KickFollows(c) /\ n \in Address
  BY ScriptLemma, TargetsAssumption DEF Script, Address
<1>3. r \in UserType /\ UserOK(r)
  BY <1>2 DEF UserType, Places, UserOK, Asked, Filling
<1>4. user[u].left = <<>>
  BY UserFacts DEF IInv, Command, At, UserOK
<1> HIDE DEF r
<1>5. user' = [user EXCEPT ![u] = r]
  BY <1>1 DEF r
<1>6. UsersOK' /\ (Kicked => Kicked')
  BY <1>3, <1>4, <1>5, UserMoves DEF IInv
<1>7. /\ UserRest /\ list' = list /\ AskOK' /\ StateOK' /\ done' \subseteq Requests /\ lost' = lost
      /\ GetSubDateFlag' = GetSubDateFlag
  BY DEF Command, UserRest, askVars, history, IInv, AskOK, StateOK, FrameOK
<1> QED
  BY <1>6, <1>7, ShellKeeps

LEMMA PrepareKeeps ==
  ASSUME IInv, NEW u \in Users, Prepare(u)
  PROVE  IInv'
<1>1. user[u].at = "go" /\ Next1(u).op \in {"set", "get"} /\ Goto(u, "flag")
  BY DEF Prepare, At
<1>2. UsersOK' /\ (Kicked => Kicked')
  BY <1>1, GotoKeeps DEF IInv, Asked
<1>3. Next1(u).idx \in Nat /\ user[u].node \in Address
  BY <1>1, UserFacts DEF IInv, Steps, UserType
<1>4. AskOK'
  BY <1>3 DEF Prepare, IInv, AskOK
<1>5. StateOK'
  BY DEF Prepare, UserRest, IInv, StateOK
<1>6. UserRest /\ list' = list /\ done' \subseteq Requests /\ lost' = lost
      /\ GetSubDateFlag' = GetSubDateFlag
  BY DEF Prepare
<1> QED
  BY <1>2, <1>4, <1>5, <1>6, ShellKeeps

LEMMA RaiseFlagKeeps ==
  ASSUME IInv, NEW u \in Users, RaiseFlag(u) \/ Fill(u)
  PROVE  IInv'
<1>1. PICK place \in Asked : Goto(u, place)
  BY DEF RaiseFlag, Fill, Asked, Filling
<1>2. user[u].at \in Asked
  BY DEF RaiseFlag, Fill, At, Asked
<1>3. user[u].at # "rest" /\ Next1(u).op \in {"set", "get"}
  BY <1>2, UserFacts DEF IInv, UserOK, Asked, Filling
<1>4. UsersOK' /\ (Kicked => Kicked')
  BY <1>1, <1>3, GotoKeeps DEF IInv
<1>5. user[u].node \in Address
  BY UserFacts DEF IInv, UserType
<1>6. AskOK'
  BY <1>5 DEF RaiseFlag, Fill, FillAddress, FillData, IInv, AskOK
<1>7. StateOK'
  BY DEF RaiseFlag, Fill, UserRest, history, IInv, StateOK
<1>8. UserRest /\ list' = list /\ done' \subseteq Requests /\ lost' = lost
      /\ GetSubDateFlag' = GetSubDateFlag
  BY DEF RaiseFlag, Fill, history, IInv, FrameOK
<1> QED
  BY <1>4, <1>6, <1>7, <1>8, ShellKeeps

LEMMA AnsweredKeeps ==
  ASSUME IInv, NEW u \in Users, Answered(u) \/ GiveUp(u)
  PROVE  IInv'
<1>1. user[u].at = "poll" /\ (Proceed(u) \/ Quit(u))
  BY DEF Answered, GiveUp, At
<1>2. user[u].at # "rest" /\ Next1(u).op \in {"set", "get"}
  BY <1>1, UserFacts DEF IInv, UserOK, Asked
<1>3. UsersOK' /\ (Kicked => Kicked')
  <2>1. CASE Proceed(u)
    BY <1>2, <2>1, ProceedKeeps DEF IInv
  <2>2. CASE Quit(u)
    BY <1>2, <2>2, QuitKeeps DEF IInv
  <2> QED
    BY <1>1, <2>1, <2>2
<1>4. AskOK' /\ StateOK'
  BY DEF Answered, GiveUp, UserRest, askVars, history, IInv, AskOK, StateOK
<1>5. UserRest /\ list' = list /\ done' \subseteq Requests /\ lost' = lost
      /\ GetSubDateFlag' = GetSubDateFlag
  BY DEF Answered, GiveUp, history, IInv, FrameOK
<1> QED
  BY <1>3, <1>4, <1>5, ShellKeeps

(* The steps that only change the flag of the polling or the state of the    *)
(* upgrade.                                                                 *)
LEMMA StepKeeps ==
  ASSUME IInv, NEW u \in Users,
         SetPolling(u) \/ Reset(u) \/ Allocate(u) \/ UpgradeEnd(u) \/ UpgradeGivenUp(u)
  PROVE  IInv'
<1>1. /\ user[u].at = "go" /\ Next1(u).op # "kick" /\ (Proceed(u) \/ Quit(u))
      /\ StepRest /\ list' = list
  BY DEF SetPolling, Reset, Allocate, UpgradeEnd, UpgradeGivenUp, Step, At
<1>2. SetPolling(u) => Proceed(u)
  BY DEF SetPolling
<1>3. UsersOK' /\ (Kicked => Kicked') /\ (Next1(u).op = "enable" /\ Proceed(u) => Kicked')
  <2>1. CASE Proceed(u)
    BY <1>1, <2>1, ProceedKeeps DEF IInv
  <2>2. CASE Quit(u) /\ ~Proceed(u)
    BY <1>1, <2>2, QuitKeeps DEF IInv
  <2> QED
    BY <1>1, <2>1, <2>2
<1>4. AskOK' /\ done' \subseteq Requests /\ lost' = lost /\ UserRest
  BY <1>1 DEF StepRest, askVars, history, IInv, AskOK, FrameOK
<1>5. StateOK'
  BY <1>1 DEF StepRest, UserRest, askVars, history, IInv, StateOK, SetPolling, Reset, Allocate,
              UpgradeEnd, UpgradeGivenUp
<1>6. GetSubDateFlag' # GetSubDateFlag => Kicked' \/ ~GetSubDateFlag'
  BY <1>2, <1>3 DEF SetPolling, Reset, Allocate, UpgradeEnd, UpgradeGivenUp, Step
<1> QED
  BY <1>1, <1>3, <1>4, <1>5, <1>6, ShellKeeps

LEMMA KickKeeps ==
  ASSUME IInv, NEW u \in Users, Kick(u) \/ SendStartCommand(u)
  PROVE  IInv'
<1> USE DEF IInv
<1>1. user[u].at = "go" /\ Proceed(u) /\ StepRest /\ UNCHANGED <<GetSubDateFlag, UpgradeState>>
  BY DEF Kick, SendStartCommand, Step, At
<1>2. UsersOK' /\ (Kicked /\ Next1(u).op # "kick" => Kicked')
  BY <1>1, ProceedKeeps
<1>3. user[u].node \in Address
  BY UserFacts DEF UserType
<1>4. PICK m : /\ Post(m) /\ MessageOK(m) /\ ~Parses(m) /\ ~Sends(m)
               /\ Next1(u).op = "kick" => ChainMessage(m)
  <2>1. CASE Kick(u)
    BY <2>1, StartMessage DEF Kick
  <2>2. ASSUME NEW k \in {1, 2},
               Post(Msg("APL", "START_UPGRADE_CMD", [to |-> user[u].node, type |-> k]))
        PROVE  \E m : Post(m) /\ MessageOK(m) /\ ~Parses(m) /\ ~Sends(m)
    <3> DEFINE m == Msg("APL", "START_UPGRADE_CMD", [to |-> user[u].node, type |-> k])
    <3>1. MessageOK(m) /\ ~Parses(m) /\ ~Sends(m)
      BY <1>3 DEF Msg, MessageOK, ToApl, Addressed, Parses, Sends
    <3> QED
      BY <2>2, <3>1
  <2>3. CASE SendStartCommand(u)
    <3>1. Next1(u).op # "kick"
      BY <2>3 DEF SendStartCommand, Step
    <3>2. \E k \in {1, 2} : Post(Msg("APL", "START_UPGRADE_CMD", [to |-> user[u].node, type |-> k]))
      BY <2>3 DEF SendStartCommand
    <3> QED
      BY <2>2, <3>1, <3>2
  <2> QED
    BY <2>1, <2>3
<1>5. ListOK' /\ ParseOK' /\ (Chained => Chained') /\ (Next1(u).op = "kick" => Chained')
      /\ (Sending' => Sending)
  BY <1>1, <1>4, PostKeeps DEF StepRest, UserRest, pollVars
<1>6. AskOK' /\ FrameOK' /\ WalkOK' /\ StateOK'
  BY <1>1, <1>5 DEF StepRest, UserRest, askVars, history, netVars, pollVars, AskOK, FrameOK, WalkOK,
                    StateOK
<1>7. Alive'
  BY <1>1, <1>2, <1>5 DEF StepRest, UserRest, history, Alive, Ticking
<1> QED
  BY <1>2, <1>5, <1>6, <1>7

-----------------------------------------------------------------------------
(* Types, the messages in the list and the chain keep each other.           *)
THEOREM Invariance == Spec => []IInv
<1>1. IInv /\ [Next]_vars => IInv'
  <2> SUFFICES ASSUME IInv, [Next]_vars PROVE IInv'
    OBVIOUS
  <2>1. CASE UNCHANGED vars
    <3>1. ListOK' /\ ParseOK' /\ (Sending' <=> Sending) /\ (Chained' <=> Chained)
      BY <2>1 DEF vars, listVars, pollVars, IInv, ListOK, ParseOK, Sending, Chained
    <3>2. UsersOK' /\ (Kicked' <=> Kicked)
      BY <2>1, UsersStay DEF vars, IInv
    <3>3. WalkOK' /\ FrameOK' /\ AskOK' /\ StateOK'
      BY <2>1, <3>1 DEF vars, listVars, askVars, netVars, pollVars, history, IInv, WalkOK, FrameOK,
                        AskOK, StateOK
    <3>4. Alive'
      BY <2>1, <3>1, <3>2 DEF vars, listVars, history, IInv, Alive, Ticking
    <3> QED
      BY <3>1, <3>2, <3>3, <3>4 DEF IInv
  <2>2. CASE Poll
    BY <2>2, PollStoppedKeeps, PollLendsKeeps, PollNextKeeps, PollRoundEndKeeps, PollParsingKeeps
       DEF Poll
  <2>3. CASE EMN_APL_Task
    BY <2>2, <2>3, AskTimeoutKeeps, UpgradeTimeoutKeeps, StartSetDataKeeps, StartGetParaDataKeeps,
       SetDataCfmKeeps, GetParaCfmKeeps, GetSampleCfmKeeps, UpgradeKeeps, OtherAplKeeps
       DEF EMN_APL_Task
  <2>4. CASE EMN_NWK_Task \/ EMN_MAC_Task
    BY <2>4, NwkRequestKeeps, NwkDataIndKeeps, NwkSetupKeeps, NodeKeeps, MacScanKeeps
       DEF EMN_NWK_Task, EMN_MAC_Task
  <2>5. CASE Arrive \/ Lose \/ Expire \/ PagingEnd
    BY <2>5, ArriveKeeps, LoseKeeps, ExpireKeeps, PagingEndKeeps
  <2>6. ASSUME NEW u \in Users, Command(u) \/ Shell(u)
        PROVE  IInv'
    BY <2>6, CommandKeeps, PrepareKeeps, RaiseFlagKeeps, AnsweredKeeps, StepKeeps, KickKeeps
       DEF Shell
  <2> QED
    BY <2>1, <2>3, <2>4, <2>5, <2>6, HavstTaskKeeps DEF Next, RfTask
<1> QED
  BY <1>1, IInvInit, PTL DEF Spec

(* While nodes are to be polled the chain of messages and timers is never    *)
(* broken but by an upgrade command or by the first request, taken half       *)
(* written (dicor_network_apl.c, EMN_APL_Task; My_Shell_Commands.c).         *)
THEOREM PollingAliveCorrect == Spec => []PollingAlive
<1>1. IInv => PollingAlive
  <2> SUFFICES ASSUME IInv PROVE PollingAlive
    OBVIOUS
  <2>1. \A u \in Users : user[u].at \in {"rest", "go", "flag", "poll"} \cup Filling
    BY UserFacts DEF IInv, UserType, Places, Asked
  <2>2. TypeOK
    BY <2>1 DEF IInv, ListOK, ParseOK, WalkOK, FrameOK, StateOK, Running, TypeOK
  <2>3. Kicked => \E u \in Users, i \in 1..4 : i <= Len(user[u].left) /\ user[u].left[i].op = "kick"
    <3>1. ASSUME NEW u \in Users, user[u].left # <<>>, user[u].left[1].op = "kick"
          PROVE  1 <= Len(user[u].left) /\ 1 \in 1..4
      <4>1. user[u].left \in Seq(Steps)
        BY UserFacts DEF IInv, UserType
      <4> QED
        BY <3>1, <4>1
    <3> QED
      BY <3>1 DEF Kicked
  <2> QED
    BY <2>2, <2>3 DEF IInv, Alive, Ticking, Chained, PollingAlive
<1> QED
  BY <1>1, Invariance, PTL
-----------------------------------------------------------------------------
(***************************************************************************)
(* A request on its way: the messages that carry it, one at a time, and    *)
(* the answer in the air.                                                  *)
(***************************************************************************)
OfRequest == {"START_SET_DATA", "START_GET_PARA_DATA", "SET_DATA_REQ", "GET_PARA_REQ",
              "SET_DATA_CFM"}
Asks == {"set", "get"}
Carries(m, op) == \/ m.id \in OfRequest
                  \/ m.id = "DATA_REQ" /\ op \in Asks
                  \/ m.id = "DATA_IND" /\ m.arg.op \in Asks
Tracked(m) == \/ m.id \in OfRequest \cup {"DATA_REQ"}
              \/ m.id = "DATA_IND" /\ m.arg.op \in Asks

(* The message is one of the request the shell waits for; an answer comes    *)
(* after the request was carried out.                                       *)
Bears(m, u) ==
  /\ m.id \in {"START_SET_DATA", "SET_DATA_REQ"} => Next1(u).op = "set" /\ m.arg = user[u].node
  /\ m.id \in {"START_GET_PARA_DATA", "GET_PARA_REQ"} =>
       Next1(u).op = "get" /\ m.arg = user[u].node
  /\ m.id = "SET_DATA_REQ" => NwkSetParaData = [idx |-> Next1(u).idx, dev |-> user[u].node]
  /\ m.id = "DATA_REQ" => NWK_ComBuf = Request(u)
  /\ m.id = "DATA_IND" => m.arg.op = Next1(u).op /\ Request(u) \in done
  /\ m.id = "SET_DATA_CFM" => Next1(u).op = "set" /\ Request(u) \in done
Waiting(u) == At(u, "poll") /\ ~AnswerFlag(u)

(* What the shell has written for the RF task, at each place of its request. *)
Type(u) == IF Next1(u).op = "set" THEN "START_SET_DATA" ELSE "START_GET_PARA_DATA"
WrittenBy(u) ==
  /\ Next1(u).op = "set" => /\ SetParameterData.idx = Next1(u).idx
                            /\ SetParameterData.dev = user[u].node
  /\ Next1(u).op = "get" => /\ GetParaData.idx = Next1(u).idx
                            /\ GetParaData.dev = user[u].node
  /\ At(u, "poll") \/ (At(u, "fill2") /\ Next1(u).op = "set") =>
       SetAddr = user[u].node /\ SetType = Type(u)
  /\ At(u, "fill2") /\ Next1(u).op = "get" => ~AnswerFlag(u)
  /\ At(u, "poll") /\ AnswerFlag(u) => lent /\ Request(u) \in done
  /\ lent => At(u, "poll")

OneAsks == \A u, v \in Users : Asking(u) /\ Asking(v) => u = v
Written == \A u \in Users : Asking(u) => WrittenBy(u)
Flagged == Get_Data_Flag => lent \/ \E u \in Users : Asking(u)
OnTheWay == \A i \in 1..Len(list) : Carries(list[i], NWK_ComBuf.op) =>
              lent /\ \E u \in Users : Waiting(u) /\ Bears(list[i], u)
InTheAir == \A a \in air : a.op \in Asks =>
              /\ lent /\ \A i \in 1..Len(list) : ~Carries(list[i], NWK_ComBuf.op)
              /\ \E u \in Users : Waiting(u) /\ a.op = Next1(u).op /\ Request(u) \in done
OneWay ==
  /\ \A i, j \in 1..Len(list) :
       Carries(list[i], NWK_ComBuf.op) /\ Carries(list[j], NWK_ComBuf.op) => i = j
  /\ \A i, j \in 1..Len(list) : Sends(list[i]) /\ Sends(list[j]) => i = j
  /\ \A a, b \in air : a.op \in Asks /\ b.op \in Asks => a = b

RInv == ~mixed => OneAsks /\ Written /\ Flagged /\ OnTheWay /\ InTheAir /\ OneWay

(* Messages of other kinds come and go, those of a request at most go.       *)
Fewer == \E d \in {0, 1} : \A i \in 1..Len(list') :
           Tracked(list'[i]) => i + d \in 1..Len(list) /\ list'[i] = list[i + d]

LEMMA FewerLemma ==
  ASSUME ListOK,
         \/ UNCHANGED list
         \/ list # <<>> /\ Reply(<<>>)
         \/ list # <<>> /\ \E m : ~Tracked(m) /\ Reply(<<m>>)
         \/ \E m : ~Tracked(m) /\ Post(m)
  PROVE  Fewer
<1>0. Len(list) \in Nat
  BY DEF ListOK
<1>1. CASE UNCHANGED list
  BY <1>0, <1>1 DEF Fewer
<1>2. CASE list # <<>> /\ Reply(<<>>)
  <2>1. /\ Len(list') = Len(list) - 1
        /\ \A i \in 1..Len(list') : list'[i] = list[i + 1]
    BY <1>2, SilentLemma
  <2>2. \A i \in 1..Len(list') : i + 1 \in 1..Len(list)
    BY <1>0, <2>1
  <2> QED
    BY <2>1, <2>2 DEF Fewer
<1>3. ASSUME NEW m, list # <<>>, ~Tracked(m), Reply(<<m>>)
      PROVE  Fewer
  <2>1. /\ Len(list') = Len(list)
        /\ \A i \in 1..Len(list) - 1 : list'[i] = list[i + 1]
        /\ list'[Len(list)] = m /\ Len(list) \in Nat \ {0}
    BY <1>3, ReplyPlaces
  <2>2. \A i \in 1..Len(list') : \/ list'[i] = m
                                 \/ i + 1 \in 1..Len(list) /\ list'[i] = list[i + 1]
    BY <2>1
  <2> QED
    BY <1>3, <2>2 DEF Fewer
<1>4. ASSUME NEW m, ~Tracked(m), Post(m)
      PROVE  Fewer
  <2>1. /\ Len(list') = Len(list) + 1
        /\ \A i \in 1..Len(list) : list'[i] = list[i]
        /\ list'[Len(list) + 1] = m
    BY <1>4, PostPlaces
  <2>2. \A i \in 1..Len(list') : \/ list'[i] = m
                                 \/ i + 0 \in 1..Len(list) /\ list'[i] = list[i + 0]
    BY <1>0, <2>1
  <2> QED
    BY <1>4, <2>2 DEF Fewer
<1> QED
  BY <1>1, <1>2, <1>3, <1>4

(* What a shell that does not move has asked for stays as it is.             *)
LEMMA SameUser ==
  ASSUME NEW u \in Users, user'[u] = user[u], UNCHANGED <<SetParameterData, GetParaData>>
  PROVE  /\ Next1(u)' = Next1(u) /\ Request(u)' = Request(u) /\ (Asking(u)' <=> Asking(u))
         /\ (AnswerFlag(u)' <=> AnswerFlag(u)) /\ (Waiting(u)' <=> Waiting(u))
  BY DEF Next1, Request, Asking, AnswerFlag, Waiting, At

LEMMA WayLemma ==
  ASSUME OneWay, Fewer, NWK_ComBuf' = NWK_ComBuf, \A a \in air' : a.op \in Asks => a \in air
  PROVE  OneWay'
<1>1. PICK d \in {0, 1} : \A i \in 1..Len(list') :
        Tracked(list'[i]) => i + d \in 1..Len(list) /\ list'[i] = list[i + d]
  BY DEF Fewer
<1>2. \A m : Carries(m, NWK_ComBuf.op) \/ Sends(m) => Tracked(m)
  BY DEF Carries, Sends, Tracked
<1>3. \A i, j \in 1..Len(list') : i + d = j + d => i = j
  OBVIOUS
<1>4. ASSUME NEW i \in 1..Len(list'), NEW j \in 1..Len(list'),
             Carries(list'[i], NWK_ComBuf.op), Carries(list'[j], NWK_ComBuf.op)
      PROVE  i = j
  BY <1>1, <1>2, <1>3, <1>4 DEF OneWay
<1>5. ASSUME NEW i \in 1..Len(list'), NEW j \in 1..Len(list'),
             Sends(list'[i]), Sends(list'[j])
      PROVE  i = j
  BY <1>1, <1>2, <1>3, <1>5 DEF OneWay
<1> QED
  BY <1>4, <1>5 DEF OneWay

LEMMA CalmStays ==
  ASSUME IInv, RInv, Fewer,
         UNCHANGED <<SetType, SetAddr, SetParameterData, GetParaData, NwkSetParaData, NWK_ComBuf,
                     done, lent, mixed>>,
         Get_Data_Flag' => Get_Data_Flag, \A a \in air' : a.op \in Asks => a \in air,
         \A v \in Users : user'[v] = user[v] \/ (~Asking(v) /\ ~Asking(v)')
  PROVE  RInv'
<1> SUFFICES ASSUME ~mixed
             PROVE  (OneAsks /\ Written /\ Flagged /\ OnTheWay /\ InTheAir /\ OneWay)'
  BY DEF RInv
<1>0. OneAsks /\ Written /\ Flagged /\ OnTheWay /\ InTheAir /\ OneWay
  BY DEF RInv
<1>1. \A v \in Users : /\ Asking(v)' <=> Asking(v)
                       /\ Asking(v) => user'[v] = user[v]
  BY SameUser
<1>2. \A v \in Users : Asking(v) => WrittenBy(v)'
  <2> SUFFICES ASSUME NEW v \in Users, Asking(v) PROVE WrittenBy(v)'
    OBVIOUS
  <2>1. WrittenBy(v) /\ user'[v] = user[v]
    BY <1>0, <1>1 DEF Written
  <2>2. Next1(v)' = Next1(v) /\ Request(v)' = Request(v) /\ (AnswerFlag(v)' <=> AnswerFlag(v))
    BY <2>1, SameUser
  <2> QED
    BY <2>1, <2>2 DEF WrittenBy, At, Type
<1>3. OneAsks' /\ Written' /\ Flagged'
  BY <1>0, <1>1, <1>2 DEF OneAsks, Written, Flagged
<1>4. \A v \in Users : Waiting(v) => user'[v] = user[v] /\ Waiting(v)'
  BY <1>1, SameUser DEF Waiting, Asking, At
<1>5. ASSUME NEW m, NEW v \in Users, Waiting(v), Bears(m, v)
      PROVE  Bears(m, v)'
  <2>1. user'[v] = user[v] /\ Next1(v)' = Next1(v) /\ Request(v)' = Request(v)
    BY <1>4, <1>5, SameUser
  <2> QED
    BY <1>5, <2>1 DEF Bears
<1>6. PICK d \in {0, 1} : \A i \in 1..Len(list') :
        Tracked(list'[i]) => i + d \in 1..Len(list) /\ list'[i] = list[i + d]
  BY DEF Fewer
<1>7. \A m : Carries(m, NWK_ComBuf.op) => Tracked(m)
  BY DEF Carries, Tracked
<1>8. \A i \in 1..Len(list') : Carries(list'[i], NWK_ComBuf.op) =>
        i + d \in 1..Len(list) /\ list'[i] = list[i + d]
  BY <1>6, <1>7
<1>9. OnTheWay'
  <2> SUFFICES ASSUME NEW i \in 1..Len(list'), Carries(list'[i], NWK_ComBuf.op)
               PROVE  lent /\ \E u \in Users : Waiting(u)' /\ Bears(list[i], u)'
    BY DEF OnTheWay
  <2> DEFINE m == list[i + d]
  <2>1. lent /\ list'[i] = m /\ \E u \in Users : Waiting(u) /\ Bears(m, u)
    BY <1>0, <1>8 DEF OnTheWay
  <2>2. PICK u \in Users : Waiting(u) /\ Bears(m, u)
    BY <2>1
  <2>3. Waiting(u)' /\ user'[u] = user[u]
    BY <1>4, <2>2
  <2>4. Next1(u)' = Next1(u) /\ Request(u)' = Request(u)
    BY <2>3, SameUser
  <2>5. Bears(list[i], u)'
    BY <2>1, <2>2, <2>3, <2>4 DEF Bears
  <2> QED
    BY <2>1, <2>3, <2>5
<1>10. InTheAir'
  <2>1. ASSUME NEW a \in air, a.op \in Asks
        PROVE  /\ lent /\ \A i \in 1..Len(list') : ~Carries(list'[i], NWK_ComBuf.op)
               /\ \E u \in Users : Waiting(u)' /\ a.op = Next1(u)'.op /\ Request(u)' \in done
    <3>1. lent /\ \A i \in 1..Len(list) : ~Carries(list[i], NWK_ComBuf.op)
      BY <1>0, <2>1 DEF InTheAir
    <3>2. PICK u \in Users : Waiting(u) /\ a.op = Next1(u).op /\ Request(u) \in done
      BY <1>0, <2>1 DEF InTheAir
    <3>3. Waiting(u)' /\ Next1(u)' = Next1(u) /\ Request(u)' = Request(u)
      BY <1>4, <3>2, SameUser
    <3> QED
      BY <1>8, <3>1, <3>2, <3>3
  <2> QED
    BY <2>1 DEF InTheAir
<1> QED
  BY <1>0, <1>3, <1>9, <1>10, WayLemma

LEMMA RInvInit == Init => RInv
<1> SUFFICES ASSUME Init PROVE RInv
  OBVIOUS
<1>1. list \in Seq({StartGetData}) /\ Len(list) = 1 /\ list[1] = StartGetData
  BY DEF Init
<1>2. \A i \in 1..Len(list) : ~Carries(list[i], NWK_ComBuf.op) /\ ~Sends(list[i])
  BY <1>1 DEF Carries, Sends, OfRequest, StartGetData, Msg
<1>3. \A u \in Users : ~Asking(u)
  BY DEF Init, Asking, Filling
<1>4. air = {} /\ ~Get_Data_Flag
  BY DEF Init
<1> QED
  BY <1>2, <1>3, <1>4 DEF RInv, OneAsks, Written, Flagged, OnTheWay, InTheAir, OneWay

-----------------------------------------------------------------------------
(* The steps that do not touch a request, or only lose it.                   *)
LEMMA Untracked ==
  ASSUME NEW t, NEW id, NEW a, id \notin OfRequest \cup {"DATA_REQ", "DATA_IND"}
  PROVE  ~Tracked(Msg(t, id, a))
  BY DEF Tracked, Msg

LEMMA CalmReplies ==
  ASSUME ListOK,
         \/ PollStopped \/ PollNext \/ PollRoundEnd \/ PollParsing \/ HavstTask
         \/ AskTimeout \/ PauseEnd \/ UpgradeTimeout \/ GetParaCfm \/ GetSampleCfm
         \/ StartUpgradeCmd \/ StartUpgradeCfm \/ OtherApl \/ NwkSetup \/ MacScan \/ NodeMisses
  PROVE  Fewer
<1> USE DEF OfRequest
<1>0. ~Tracked(StartGetData)
  BY DEF StartGetData, Msg, Tracked
<1>1. CASE PollStopped \/ PollParsing \/ UpgradeTimeout \/ GetParaCfm \/ OtherApl \/ NodeMisses
  <2>1. list # <<>> /\ Reply(<<>>)
    BY <1>1 DEF PollStopped, PollParsing, UpgradeTimeout, GetParaCfm, OtherApl, NodeMisses, Polls,
       Expired, Received
  <2> QED
    BY <2>1, FewerLemma
<1>2. CASE PollNext \/ GetSampleCfm
  <2>1. list # <<>>
    BY <1>2 DEF PollNext, GetSampleCfm, Polls, Expired, Received
  <2>2. Reply(<<>>) \/ \E w : Reply(<<Msg("NWK", "GET_SAMPLE_REQ", Node(w))>>)
    BY <1>2 DEF PollNext, GetSampleCfm, Sample
  <2>3. \A w : ~Tracked(Msg("NWK", "GET_SAMPLE_REQ", Node(w)))
    BY DEF Tracked, Msg
  <2> QED
    BY <2>1, <2>2, <2>3, FewerLemma
<1>3. CASE PollRoundEnd
  <2>1. list # <<>> /\ Reply(<<Msg("HAVST", "PARSE_INFO_CMD", None)>>)
    BY <1>3 DEF PollRoundEnd, Polls, Expired, Received
  <2> QED
    BY <2>1, Untracked, FewerLemma
<1>4. CASE HavstTask \/ AskTimeout \/ PauseEnd
  <2>1. list # <<>> /\ (Reply(<<>>) \/ Reply(<<StartGetData>>))
    BY <1>4 DEF HavstTask, AskTimeout, PauseEnd, Expired, Received
  <2> QED
    BY <1>0, <2>1, FewerLemma
<1>5. CASE StartUpgradeCmd \/ StartUpgradeCfm
  <2>1. list # <<>> /\ Reply(<<Msg("NWK", "UPGRADE_CMD_REQ", Arg.to)>>)
    BY <1>5 DEF StartUpgradeCmd, StartUpgradeCfm, UpgradeRequest, Received
  <2> QED
    BY <2>1, Untracked, FewerLemma
<1>6. CASE NwkSetup
  <2>1. list # <<>> /\ Reply(Setup(Head(list)))
    BY <1>6 DEF NwkSetup
  <2>2. \/ Setup(Head(list)) = <<>>
        \/ Setup(Head(list)) = <<Msg("MAC", "SCAN_REQ", None)>>
        \/ Setup(Head(list)) = <<Msg("MAC", "END_SCAN_REQ", None)>>
        \/ Setup(Head(list)) = <<Msg("APL", "END_SETUP_NWK", None)>>
        \/ Setup(Head(list)) = <<Msg("MAC", "DATA_RES", None)>>
    BY DEF Setup
  <2> QED
    BY <2>1, <2>2, Untracked, FewerLemma
<1>7. CASE MacScan
  <2>1. list # <<>> /\ \/ Reply(<<>>)
                       \/ Reply(<<Msg("NWK", "SCAN_CFM", None)>>)
                       \/ Reply(<<Msg("NWK", "END_SCAN_CFM", None)>>)
    BY <1>7 DEF MacScan, Received
  <2> QED
    BY <2>1, Untracked, FewerLemma
<1> QED
  BY <1>1, <1>2, <1>3, <1>4, <1>5, <1>6, <1>7

LEMMA PollCalm ==
  ASSUME IInv, RInv, PollStopped \/ PollNext \/ PollRoundEnd \/ PollParsing,
         UNCHANGED <<workmode, askVars, netVars, GetSubDateFlag, UpgradeState, user, commands,
                     done>>
  PROVE  RInv'
<1>1. Fewer
  BY CalmReplies DEF IInv
<1>2. UNCHANGED <<lent, mixed>>
  BY DEF PollStopped, PollNext, PollRoundEnd, PollParsing
<1>3. UNCHANGED <<SetType, SetAddr, SetParameterData, GetParaData, NwkSetParaData, NWK_ComBuf, done,
                  Get_Data_Flag, air, user>>
  BY DEF askVars, netVars
<1> QED
  BY <1>1, <1>2, <1>3, CalmStays

LEMMA HandlerCalm ==
  ASSUME IInv, RInv,
         \/ HavstTask \/ AskTimeout \/ PauseEnd \/ UpgradeTimeout \/ GetParaCfm \/ GetSampleCfm
         \/ StartUpgradeCmd \/ StartUpgradeCfm \/ OtherApl \/ NwkSetup \/ MacScan \/ NodeMisses
  PROVE  RInv'
<1>1. Fewer
  BY CalmReplies DEF IInv
<1> DEFINE Same == /\ UNCHANGED <<SetType, SetAddr, SetParameterData, GetParaData, NwkSetParaData,
                                  NWK_ComBuf, done, lent, mixed, air, user>>
                   /\ Get_Data_Flag' => Get_Data_Flag
<1>2. CASE HavstTask \/ AskTimeout \/ PauseEnd
  <2>1. Same
    BY <1>2 DEF HavstTask, AskTimeout, PauseEnd, Rest, askVars, netVars, history
  <2> QED
    BY <1>1, <2>1, CalmStays
<1>3. CASE UpgradeTimeout \/ GetParaCfm \/ GetSampleCfm \/ OtherApl
  <2>1. Same
    BY <1>3 DEF UpgradeTimeout, GetParaCfm, GetSampleCfm, OtherApl, Rest, askVars, netVars, history
  <2> QED
    BY <1>1, <2>1, CalmStays
<1>4. CASE StartUpgradeCmd \/ StartUpgradeCfm
  <2>1. Same
    BY <1>4 DEF StartUpgradeCmd, StartUpgradeCfm, UpgradeRequest, askVars, netVars
  <2> QED
    BY <1>1, <2>1, CalmStays
<1>5. CASE NwkSetup
  <2>1. Same
    BY <1>5 DEF NwkSetup, NwkRest, askVars
  <2> QED
    BY <1>1, <2>1, CalmStays
<1>6. CASE MacScan \/ NodeMisses
  <2>1. Same
    BY <1>6 DEF MacScan, NodeMisses, MacRest, askVars
  <2> QED
    BY <1>1, <2>1, CalmStays
<1> QED
  BY <1>2, <1>3, <1>4, <1>5, <1>6

LEMMA EventCalm ==
  ASSUME IInv, RInv, Lose \/ Expire \/ PagingEnd
  PROVE  RInv'
<1>1. Fewer
  <2>1. CASE Lose
    BY <2>1, FewerLemma DEF Lose, listVars, IInv
  <2>2. CASE Expire
    <3>1. Post(Timeout(timer)) /\ ~Tracked(Timeout(timer))
      BY <2>2 DEF Expire, Timeout, Msg, Tracked, OfRequest
    <3> QED
      BY <3>1, FewerLemma DEF IInv
  <2>3. CASE PagingEnd
    <3> DEFINE m == Msg("NWK", "DIS_NETWORK_CFM", None)
    <3>1. Post(m) /\ ~Tracked(m)
      BY <2>3 DEF PagingEnd, Msg, Tracked, OfRequest
    <3> QED
      BY <3>1, FewerLemma DEF IInv
  <2> QED
    BY <2>1, <2>2, <2>3
<1>2. UNCHANGED <<SetType, SetAddr, SetParameterData, GetParaData, NwkSetParaData, NWK_ComBuf, done,
                  lent, mixed, Get_Data_Flag, user>>
  BY DEF Lose, Expire, PagingEnd, Idle, askVars, history
<1>3. air' \subseteq air
  BY DEF Lose, Expire, PagingEnd
<1> QED
  BY <1>1, <1>2, <1>3, CalmStays

LEMMA ShellCalm ==
  ASSUME IInv, RInv, NEW u \in Users,
         \/ Command(u) \/ SetPolling(u) \/ Kick(u) \/ Reset(u) \/ Allocate(u)
         \/ SendStartCommand(u) \/ UpgradeEnd(u) \/ UpgradeGivenUp(u)
  PROVE  RInv'
<1>1. /\ user[u].at \in {"rest", "go"}
      /\ \/ \E c, n : user' = [user EXCEPT ![u] = [left |-> c, at |-> "go", node |-> n]]
         \/ Proceed(u) \/ Quit(u)
  BY DEF Command, SetPolling, Kick, Reset, Allocate, SendStartCommand, UpgradeEnd, UpgradeGivenUp,
         Step, At
<1>2. user'[u].at \in {"rest", "go"}
  <2>1. u \in DOMAIN user /\ user[u] \in UserType
    BY UserFacts DEF IInv, UsersOK
  <2>2. CASE \E c, n : user' = [user EXCEPT ![u] = [left |-> c, at |-> "go", node |-> n]]
    BY <2>1, <2>2
  <2>3. CASE Proceed(u)
    <3> DEFINE place == IF Len(user[u].left) = 1 THEN "rest" ELSE "go"
               r == [user[u] EXCEPT !.left = Tail(@), !.at = place]
    <3>1. r.at = place
      BY <2>1 DEF UserType
    <3>2. user'[u] = r
      BY <2>1, <2>3 DEF Proceed
    <3> QED
      BY <3>1, <3>2
  <2>4. CASE Quit(u)
    BY <2>1, <2>4 DEF Quit, UserType
  <2> QED
    BY <1>1, <2>2, <2>3, <2>4
<1>3. \A v \in Users : v # u => user'[v] = user[v]
  <2>1. \A v \in Users : v \in DOMAIN user
    BY DEF IInv, UsersOK
  <2> QED
    BY <1>1, <2>1 DEF Proceed, Quit
<1>4. \A v \in Users : user'[v] = user[v] \/ (~Asking(v) /\ ~Asking(v)')
  BY <1>1, <1>2, <1>3 DEF Asking, Filling
<1>5. Fewer
  <2>1. CASE list' = list
    BY <2>1, FewerLemma DEF IInv
  <2>2. CASE Kick(u)
    <3>1. Post(StartGetData) /\ ~Tracked(StartGetData)
      BY <2>2 DEF Kick, StartGetData, Msg, Tracked, OfRequest
    <3> QED
      BY <3>1, FewerLemma DEF IInv
  <2>3. ASSUME NEW k \in {1, 2},
               Post(Msg("APL", "START_UPGRADE_CMD", [to |-> user[u].node, type |-> k]))
        PROVE  Fewer
    BY <2>3, Untracked, FewerLemma DEF IInv, OfRequest
  <2>4. CASE SendStartCommand(u)
    <3>1. \E k \in {1, 2} : Post(Msg("APL", "START_UPGRADE_CMD", [to |-> user[u].node, type |-> k]))
      BY <2>4 DEF SendStartCommand
    <3> QED
      BY <2>3, <3>1
  <2> QED
    BY <2>1, <2>2, <2>4 DEF Command, SetPolling, Reset, Allocate, UpgradeEnd, UpgradeGivenUp
<1>6. UNCHANGED <<SetType, SetAddr, SetParameterData, GetParaData, NwkSetParaData, NWK_ComBuf, done,
                  lent, mixed, Get_Data_Flag, air>>
  BY DEF Command, SetPolling, Kick, Reset, Allocate, SendStartCommand, UpgradeEnd, UpgradeGivenUp,
         StepRest, UserRest, askVars, netVars, history
<1> QED
  BY <1>4, <1>5, <1>6, CalmStays

-----------------------------------------------------------------------------
(* The steps that take a request further.                                   *)
LEMMA AskStays ==
  ASSUME OneAsks, Written, Flagged,
         UNCHANGED <<user, SetType, SetAddr, SetParameterData, GetParaData, lent>>,
         done \subseteq done', Get_Data_Flag' => Get_Data_Flag
  PROVE  (OneAsks /\ Written /\ Flagged)'
<1>1. \A v \in Users : Asking(v)' <=> Asking(v)
  BY DEF Asking
<1>2. ASSUME NEW v \in Users, Asking(v)
      PROVE  WrittenBy(v)'
  <2>1. WrittenBy(v)
    BY <1>2 DEF Written
  <2>2. Next1(v)' = Next1(v) /\ Request(v)' = Request(v) /\ (AnswerFlag(v)' <=> AnswerFlag(v))
    BY SameUser
  <2> QED
    BY <2>1, <2>2 DEF WrittenBy, At, Type
<1> QED
  BY <1>1, <1>2 DEF OneAsks, Written, Flagged

LEMMA Quiet ==
  ASSUME \A i \in 1..Len(list') : ~Carries(list'[i], NWK_ComBuf.op'),
         \A a \in air' : a.op \notin Asks,
         \A i, j \in 1..Len(list') : Sends(list'[i]) /\ Sends(list'[j]) => i = j
  PROVE  (OnTheWay /\ InTheAir /\ OneWay)'
  BY DEF OnTheWay, InTheAir, OneWay

(* The head of the list carries the request: nothing else does.             *)
LEMMA HeadCarries ==
  ASSUME ListOK, RInv, ~mixed, list # <<>>, Carries(Head(list), NWK_ComBuf.op)
  PROVE  /\ \A i \in 1..Len(list) - 1 : ~Carries(list[i + 1], NWK_ComBuf.op)
         /\ \A a \in air : a.op \notin Asks
         /\ lent /\ \E u \in Users : Waiting(u) /\ Bears(Head(list), u)
<1>1. Len(list) \in Nat \ {0} /\ Head(list) = list[1]
  BY DEF ListOK
<1>2. OnTheWay /\ InTheAir /\ OneWay
  BY DEF RInv
<1>3. Carries(list[1], NWK_ComBuf.op)
  BY <1>1
<1>4. \A i \in 1..Len(list) - 1 : ~Carries(list[i + 1], NWK_ComBuf.op)
  <2>1. \A i \in 1..Len(list) - 1 : i + 1 \in 1..Len(list) /\ i + 1 # 1
    BY <1>1
  <2> QED
    BY <1>1, <1>2, <1>3, <2>1 DEF OneWay
<1>5. \A a \in air : a.op \notin Asks
  BY <1>1, <1>2, <1>3 DEF InTheAir
<1>6. lent /\ \E u \in Users : Waiting(u) /\ Bears(list[1], u)
  BY <1>1, <1>2, <1>3 DEF OnTheWay
<1> QED
  BY <1>1, <1>4, <1>5, <1>6

(* Nobody waits: nothing carries a request.                                  *)
LEMMA NobodyWaits ==
  ASSUME RInv, ~mixed, ~lent \/ \A u \in Users : ~Waiting(u)
  PROVE  /\ \A i \in 1..Len(list) : ~Carries(list[i], NWK_ComBuf.op)
         /\ \A a \in air : a.op \notin Asks
  BY DEF RInv, OnTheWay, InTheAir

(* A message that bears the request is replied, the only one to carry it.    *)
LEMMA HandOn ==
  ASSUME IInv, OneAsks', Written', Flagged', lent',
         NEW m, NEW u \in Users, list # <<>>, Reply(<<m>>), Waiting(u)', Bears(m, u)',
         \A i \in 1..Len(list) - 1 : ~Carries(list[i + 1], NWK_ComBuf.op'),
         \A a \in air' : a.op \notin Asks,
         \A i, j \in 1..Len(list) : Sends(list[i]) /\ Sends(list[j]) => i = j,
         Sends(m) => \A i \in 1..Len(list) - 1 : ~Sends(list[i + 1])
  PROVE  RInv'
<1>1. /\ Len(list') = Len(list)
      /\ \A i \in 1..Len(list) - 1 : list'[i] = list[i + 1]
      /\ list'[Len(list)] = m /\ Len(list) \in Nat \ {0}
  BY ReplyPlaces DEF IInv
<1>2. \A i \in 1..Len(list') : \/ i = Len(list) /\ list'[i] = m
                               \/ i \in 1..Len(list) - 1 /\ list'[i] = list[i + 1]
  BY <1>1
<1>3. \A i \in 1..Len(list') : Carries(list'[i], NWK_ComBuf.op') => i = Len(list) /\ list'[i] = m
  BY <1>2
<1>4. OnTheWay' /\ InTheAir'
  BY <1>3 DEF OnTheWay, InTheAir
<1>5. ASSUME NEW i \in 1..Len(list'), NEW j \in 1..Len(list'), Sends(list'[i]), Sends(list'[j])
      PROVE  i = j
  <2>1. \A k \in 1..Len(list) - 1 : k + 1 \in 1..Len(list)
    BY <1>1
  <2>2. CASE Sends(m)
    BY <1>2, <1>5, <2>2
  <2>3. CASE ~Sends(m)
    <3>1. /\ i + 1 \in 1..Len(list) /\ j + 1 \in 1..Len(list)
          /\ Sends(list[i + 1]) /\ Sends(list[j + 1])
      BY <1>2, <1>5, <2>1, <2>3
    <3>2. i + 1 = j + 1
      BY <3>1
    <3> QED
      BY <3>2
  <2> QED
    BY <2>2, <2>3
<1>6. OneWay'
  BY <1>3, <1>5 DEF OneWay
<1> QED
  BY <1>4, <1>6 DEF RInv

LEMMA PollLendsTakes ==
  ASSUME IInv, RInv, PollLends,
         UNCHANGED <<workmode, askVars, netVars, GetSubDateFlag, UpgradeState, user, commands,
                     done>>
  PROVE  RInv'
<1> SUFFICES ASSUME ~mixed'
             PROVE  RInv'
  BY DEF RInv
<1>0. ListOK /\ list # <<>> /\ Reply(<<Msg("APL", SetType, SetAddr)>>)
  BY DEF PollLends, Polls, Expired, Received, IInv
<1>1. ~mixed /\ ~Torn /\ ~lent /\ lent'
  BY DEF PollLends
<1>2. OneAsks /\ Written /\ Flagged /\ OneWay
  BY <1>1 DEF RInv
<1>3. PICK u \in Users : Asking(u)
  BY <1>1, <1>2 DEF PollLends, Flagged
<1>4. At(u, "poll")
  BY <1>1, <1>3 DEF Torn, Asking, At
<1>5. WrittenBy(u) /\ Waiting(u)
  BY <1>1, <1>2, <1>3, <1>4 DEF Written, WrittenBy, Waiting
<1>6. Waiting(u)' /\ Next1(u)' = Next1(u) /\ Request(u)' = Request(u)
  BY <1>5, SameUser DEF askVars
<1>7. SetAddr = user[u].node /\ SetType = Type(u)
  BY <1>4, <1>5 DEF WrittenBy
<1>8. Next1(u).op \in Asks
  <2>1. user[u].at \in Asked /\ user[u].at # "rest"
    BY <1>4 DEF At, Asked
  <2> QED
    BY <2>1, UserFacts DEF IInv, UserOK, Asks
<1>9. PICK m : m = Msg("APL", SetType, SetAddr)
  OBVIOUS
<1>10. m.id = Type(u) /\ m.arg = user[u].node /\ ~Sends(m)
  BY <1>7, <1>9 DEF Msg, Type, Sends
<1>11. Bears(m, u)'
  BY <1>6, <1>8, <1>10 DEF Bears, Type, Asks
<1>12. Written'
  <2> SUFFICES ASSUME NEW v \in Users, Asking(v)'
               PROVE  WrittenBy(v)'
    BY DEF Written
  <2>1. v = u
    BY <1>2, <1>3 DEF OneAsks, Asking
  <2>2. /\ AnswerFlag(u)' <=> AnswerFlag(u)
        /\ At(u, "poll")' /\ ~AnswerFlag(u)
    BY <1>4, <1>5, SameUser DEF askVars, At, Waiting
  <2> QED
    BY <1>5, <1>6, <2>1, <2>2 DEF WrittenBy, At, Type, askVars
<1>13. OneAsks' /\ Flagged'
  BY <1>1, <1>2 DEF OneAsks, Asking, Flagged
<1>14. /\ \A i \in 1..Len(list) : ~Carries(list[i], NWK_ComBuf.op)
       /\ \A a \in air : a.op \notin Asks
  BY <1>1, NobodyWaits
<1>15. \A i \in 1..Len(list) - 1 : ~Carries(list[i + 1], NWK_ComBuf.op')
  <2>1. \A i \in 1..Len(list) - 1 : i + 1 \in 1..Len(list)
    BY <1>0 DEF ListOK
  <2> QED
    BY <1>14, <2>1 DEF netVars
<1>16. \A a \in air' : a.op \notin Asks
  BY <1>14 DEF netVars
<1>17. Reply(<<m>>)
  BY <1>0, <1>9
<1> QED
  BY <1>0, <1>1, <1>2, <1>6, <1>10, <1>11, <1>12, <1>13, <1>15, <1>16, <1>17, HandOn DEF OneWay

LEMMA StartSetDataTakes ==
  ASSUME IInv, RInv, StartSetData
  PROVE  RInv'
<1> SUFFICES ASSUME ~mixed'
             PROVE  RInv'
  BY DEF RInv
<1>0. ListOK /\ list # <<>> /\ Head(list).id = "START_SET_DATA"
  BY DEF StartSetData, Received, IInv
<1>1. ~mixed /\ UNCHANGED <<user, SetType, SetAddr, SetParameterData, GetParaData, lent, done,
                            Get_Data_Flag, NWK_ComBuf, air>>
  BY DEF StartSetData, askVars, history
<1>2. OneAsks /\ Written /\ Flagged /\ OneWay
  BY <1>1 DEF RInv
<1>3. Carries(Head(list), NWK_ComBuf.op)
  BY <1>0 DEF Carries, OfRequest
<1>4. /\ \A i \in 1..Len(list) - 1 : ~Carries(list[i + 1], NWK_ComBuf.op)
      /\ \A a \in air : a.op \notin Asks
      /\ lent /\ \E u \in Users : Waiting(u) /\ Bears(Head(list), u)
  BY <1>0, <1>1, <1>3, HeadCarries
<1>5. PICK u \in Users : Waiting(u) /\ Bears(Head(list), u)
  BY <1>4
<1>6. Next1(u).op = "set" /\ Arg = user[u].node
  BY <1>0, <1>5 DEF Bears, Arg
<1>7. WrittenBy(u)
  BY <1>2, <1>5 DEF Written, Waiting, Asking, At
<1>8. NwkSetParaData' = [idx |-> Next1(u).idx, dev |-> user[u].node]
  BY <1>6, <1>7 DEF StartSetData, WrittenBy
<1>9. PICK m : m = Msg("NWK", "SET_DATA_REQ", Arg)
  OBVIOUS
<1>10. m.id = "SET_DATA_REQ" /\ m.arg = user[u].node /\ ~Sends(m)
  BY <1>6, <1>9 DEF Msg, Sends
<1>11. Waiting(u)' /\ Next1(u)' = Next1(u)
  BY <1>1, <1>5, SameUser
<1>12. Bears(m, u)'
  BY <1>1, <1>6, <1>8, <1>10, <1>11 DEF Bears
<1>13. Reply(<<m>>)
  BY <1>9 DEF StartSetData
<1>14. (OneAsks /\ Written /\ Flagged)'
  BY <1>1, <1>2, AskStays
<1> QED
  BY <1>0, <1>1, <1>2, <1>4, <1>10, <1>11, <1>12, <1>13, <1>14, HandOn DEF OneWay

LEMMA StartGetParaDataTakes ==
  ASSUME IInv, RInv, StartGetParaData
  PROVE  RInv'
<1> SUFFICES ASSUME ~mixed'
             PROVE  RInv'
  BY DEF RInv
<1>0. ListOK /\ list # <<>> /\ Head(list).id = "START_GET_PARA_DATA"
  BY DEF StartGetParaData, Received, IInv
<1>1. ~mixed /\ UNCHANGED <<user, SetType, SetAddr, SetParameterData, GetParaData, lent, done,
                            Get_Data_Flag, NWK_ComBuf, air>>
  BY DEF StartGetParaData, Rest, askVars, netVars, history
<1>2. OneAsks /\ Written /\ Flagged /\ OneWay
  BY <1>1 DEF RInv
<1>3. Carries(Head(list), NWK_ComBuf.op)
  BY <1>0 DEF Carries, OfRequest
<1>4. /\ \A i \in 1..Len(list) - 1 : ~Carries(list[i + 1], NWK_ComBuf.op)
      /\ \A a \in air : a.op \notin Asks
      /\ lent /\ \E u \in Users : Waiting(u) /\ Bears(Head(list), u)
  BY <1>0, <1>1, <1>3, HeadCarries
<1>5. PICK u \in Users : Waiting(u) /\ Bears(Head(list), u)
  BY <1>4
<1>6. Next1(u).op = "get" /\ Arg = user[u].node
  BY <1>0, <1>5 DEF Bears, Arg
<1>7. PICK m : m = Msg("NWK", "GET_PARA_REQ", Arg)
  OBVIOUS
<1>8. m.id = "GET_PARA_REQ" /\ m.arg = user[u].node /\ ~Sends(m)
  BY <1>6, <1>7 DEF Msg, Sends
<1>9. Waiting(u)' /\ Next1(u)' = Next1(u)
  BY <1>1, <1>5, SameUser
<1>10. Bears(m, u)'
  BY <1>1, <1>6, <1>8, <1>9 DEF Bears
<1>11. Reply(<<m>>)
  BY <1>7 DEF StartGetParaData
<1>12. (OneAsks /\ Written /\ Flagged)'
  BY <1>1, <1>2, AskStays
<1> QED
  BY <1>0, <1>1, <1>2, <1>4, <1>8, <1>9, <1>10, <1>11, <1>12, HandOn DEF OneWay

(* A request is built in NWK_ComBuf, where no other may be waiting.          *)
LEMMA NwkAsks ==
  ASSUME IInv, RInv, ~mixed', NwkSetDataReq \/ NwkGetParaReq, NwkRest,
         UNCHANGED <<askVars, EMN_NWK_State, NwkSetParaData, air>>
  PROVE  RInv'
<1>0. /\ ListOK /\ list # <<>> /\ Head(list).id \in {"SET_DATA_REQ", "GET_PARA_REQ"}
      /\ Reply(<<Msg("MAC", "DATA_REQ", None)>>) /\ mixed' = (mixed \/ Unsent)
  BY DEF NwkSetDataReq, NwkGetParaReq, ToMac, Received, IInv
<1>1. ~mixed /\ UNCHANGED <<user, SetType, SetAddr, SetParameterData, GetParaData, lent, done,
                            Get_Data_Flag, NwkSetParaData, air>>
  BY <1>0 DEF NwkRest, askVars
<1>2. OneAsks /\ Written /\ Flagged /\ OneWay
  BY <1>1 DEF RInv
<1>3. Carries(Head(list), NWK_ComBuf.op)
  BY <1>0 DEF Carries, OfRequest
<1>4. /\ \A i \in 1..Len(list) - 1 : ~Carries(list[i + 1], NWK_ComBuf.op)
      /\ \A a \in air : a.op \notin Asks
      /\ lent /\ \E u \in Users : Waiting(u) /\ Bears(Head(list), u)
  BY <1>0, <1>1, <1>3, HeadCarries
<1>5. PICK u \in Users : Waiting(u) /\ Bears(Head(list), u)
  BY <1>4
<1>6. WrittenBy(u)
  BY <1>2, <1>5 DEF Written, Waiting, Asking, At
<1>7. NWK_ComBuf' = Request(u)
  <2>1. CASE NwkSetDataReq
    BY <2>1, <1>5 DEF NwkSetDataReq, Received, ToMac, Bears, Arg, Request
  <2>2. CASE NwkGetParaReq
    BY <2>2, <1>5, <1>6 DEF NwkGetParaReq, Received, ToMac, Bears, Arg, Request, WrittenBy
  <2> QED
    BY <2>1, <2>2
<1>8. \A i \in 1..Len(list) : ~Sends(list[i])
  BY <1>0 DEF Unsent, Sends, ListOK, MessageOK, OfMac, ToApl, ToNwk, OfHavst
<1>9. \A i \in 1..Len(list) - 1 : i + 1 \in 1..Len(list)
  BY <1>0 DEF ListOK
<1>10. \A i \in 1..Len(list) - 1 : ~Carries(list[i + 1], NWK_ComBuf.op') /\ ~Sends(list[i + 1])
  BY <1>4, <1>8, <1>9 DEF Carries, Sends
<1>11. PICK m : m = Msg("MAC", "DATA_REQ", None)
  OBVIOUS
<1>12. m.id = "DATA_REQ" /\ Reply(<<m>>)
  BY <1>0, <1>11 DEF Msg
<1>13. Waiting(u)' /\ Request(u)' = Request(u)
  BY <1>1, <1>5, SameUser
<1>14. Bears(m, u)'
  BY <1>7, <1>12, <1>13 DEF Bears
<1>15. (OneAsks /\ Written /\ Flagged)'
  BY <1>1, <1>2, AskStays
<1> QED
  BY <1>0, <1>1, <1>2, <1>4, <1>8, <1>10, <1>12, <1>13, <1>14, <1>15, HandOn

LEMMA NwkOthers ==
  ASSUME IInv, RInv, ~mixed', NwkUpgradeCmdReq \/ NwkGetSampleReq, NwkRest,
         UNCHANGED <<askVars, EMN_NWK_State, NwkSetParaData, air>>
  PROVE  RInv'
<1>0. /\ ListOK /\ list # <<>> /\ NWK_ComBuf'.op \notin Asks
      /\ Reply(<<Msg("MAC", "DATA_REQ", None)>>) /\ mixed' = (mixed \/ Unsent)
  BY DEF NwkUpgradeCmdReq, NwkGetSampleReq, ToMac, Received, IInv, Asks
<1>1. ~mixed /\ UNCHANGED <<user, SetType, SetAddr, SetParameterData, GetParaData, lent, done,
                            Get_Data_Flag, NwkSetParaData, air>>
  BY <1>0 DEF NwkRest, askVars
<1>2. OneAsks /\ Written /\ Flagged /\ OnTheWay /\ InTheAir /\ OneWay
  BY <1>1 DEF RInv
<1>3. (OneAsks /\ Written /\ Flagged)'
  BY <1>1, <1>2, AskStays
<1>4. PICK m : m = Msg("MAC", "DATA_REQ", None)
  OBVIOUS
<1>5. m.id = "DATA_REQ" /\ Reply(<<m>>) /\ ~Carries(m, NWK_ComBuf'.op)
  BY <1>0, <1>4 DEF Msg, Carries, OfRequest
<1>6. /\ Len(list') = Len(list)
      /\ \A i \in 1..Len(list) - 1 : list'[i] = list[i + 1]
      /\ list'[Len(list)] = m /\ Len(list) \in Nat \ {0}
  BY <1>0, <1>5, ReplyPlaces
<1>7. \A i \in 1..Len(list') : \/ i = Len(list) /\ list'[i] = m
                               \/ i + 1 \in 1..Len(list) /\ list'[i] = list[i + 1]
  BY <1>6
<1>8. \A i \in 1..Len(list) : ~Sends(list[i])
  BY <1>0 DEF Unsent, Sends, ListOK, MessageOK, OfMac, ToApl, ToNwk, OfHavst
<1>9. \A i \in 1..Len(list) : Carries(list[i], NWK_ComBuf'.op) => Carries(list[i], NWK_ComBuf.op)
  BY <1>8 DEF Carries, Sends
<1>10. \A i \in 1..Len(list') : Carries(list'[i], NWK_ComBuf'.op) =>
         /\ i + 1 \in 1..Len(list) /\ list'[i] = list[i + 1]
         /\ Carries(list[i + 1], NWK_ComBuf.op) /\ ~Sends(list[i + 1])
  BY <1>5, <1>7, <1>8, <1>9
<1>11. OnTheWay'
  <2> SUFFICES ASSUME NEW i \in 1..Len(list'), Carries(list'[i], NWK_ComBuf'.op)
               PROVE  lent /\ \E u \in Users : Waiting(u)' /\ Bears(list[i], u)'
    BY <1>1 DEF OnTheWay
  <2>1. lent /\ \E u \in Users : Waiting(u) /\ Bears(list'[i], u)
    BY <1>2, <1>10 DEF OnTheWay
  <2>2. PICK u \in Users : Waiting(u) /\ Bears(list'[i], u)
    BY <2>1
  <2>3. Waiting(u)' /\ Request(u)' = Request(u) /\ Next1(u)' = Next1(u)
    BY <1>1, <2>2, SameUser
  <2>4. list'[i].id # "DATA_REQ"
    BY <1>10 DEF Sends
  <2>5. Bears(list[i], u)'
    BY <1>1, <2>2, <2>3, <2>4 DEF Bears
  <2> QED
    BY <2>1, <2>3, <2>5
<1>12. InTheAir'
  <2>1. ASSUME NEW a \in air, a.op \in Asks
        PROVE  /\ lent /\ \A i \in 1..Len(list') : ~Carries(list'[i], NWK_ComBuf'.op)
               /\ \E u \in Users : Waiting(u)' /\ a.op = Next1(u)'.op /\ Request(u)' \in done
    <3>1. lent /\ \A i \in 1..Len(list) : ~Carries(list[i], NWK_ComBuf.op)
      BY <1>2, <2>1 DEF InTheAir
    <3>2. PICK u \in Users : Waiting(u) /\ a.op = Next1(u).op /\ Request(u) \in done
      BY <1>2, <2>1 DEF InTheAir
    <3>3. Waiting(u)' /\ Next1(u)' = Next1(u) /\ Request(u)' = Request(u)
      BY <1>1, <3>2, SameUser
    <3> QED
      BY <1>10, <3>1, <3>2, <3>3
  <2> QED
    BY <1>1, <2>1 DEF InTheAir
<1>13. OneWay'
  <2>1. \A i, j \in 1..Len(list') :
          Carries(list'[i], NWK_ComBuf'.op) /\ Carries(list'[j], NWK_ComBuf'.op) => i = j
    <3> SUFFICES ASSUME NEW i \in 1..Len(list'), NEW j \in 1..Len(list'),
                        Carries(list'[i], NWK_ComBuf'.op), Carries(list'[j], NWK_ComBuf'.op)
                 PROVE  i = j
      OBVIOUS
    <3>1. i + 1 = j + 1
      BY <1>2, <1>10 DEF OneWay
    <3> QED
      BY <3>1
  <2>2. \A i, j \in 1..Len(list') : Sends(list'[i]) /\ Sends(list'[j]) => i = j
    BY <1>7, <1>8
  <2>3. \A a, b \in air : a.op \in Asks /\ b.op \in Asks => a = b
    BY <1>2 DEF OneWay
  <2> QED
    BY <1>1, <2>1, <2>2, <2>3 DEF OneWay
<1> QED
  BY <1>3, <1>11, <1>12, <1>13 DEF RInv

(* The node that hears the frame carries the request out; its answer may be  *)
(* under way.                                                               *)
LEMMA NodeHearsTakes ==
  ASSUME IInv, RInv, NodeHears
  PROVE  RInv'
<1> SUFFICES ASSUME ~mixed
             PROVE  RInv'
  BY DEF RInv, NodeHears, MacRest
<1>0. ListOK /\ list # <<>> /\ Head(list).id = "DATA_REQ" /\ Reply(<<>>)
  BY DEF NodeHears, Received, IInv
<1>1. UNCHANGED <<user, SetType, SetAddr, SetParameterData, GetParaData, NwkSetParaData, NWK_ComBuf,
                  lent, mixed, Get_Data_Flag>>
  BY DEF NodeHears, MacRest, askVars
<1>2. PICK b : b.op = NWK_ComBuf.op /\ (air' = air \/ air' = air \cup {b})
  <2>1. \/ air' = air
        \/ \E c \in Codes(NWK_ComBuf.op) : air' = air \cup {[op |-> NWK_ComBuf.op, code |-> c]}
    BY DEF NodeHears
  <2>2. [op |-> NWK_ComBuf.op, code |-> 0].op = NWK_ComBuf.op
    OBVIOUS
  <2> QED
    BY <2>1, <2>2
<1>3. CASE NWK_ComBuf.op \notin Asks
  <2>1. done' = done
    BY <1>3 DEF NodeHears, Asks
  <2>2. \A a \in air' : a.op \in Asks => a \in air
    BY <1>2, <1>3
  <2>3. Fewer
    BY <1>0, FewerLemma
  <2> QED
    BY <1>1, <2>1, <2>2, <2>3, CalmStays
<1>4. CASE NWK_ComBuf.op \in Asks
  <2>1. done' = done \cup {NWK_ComBuf}
    BY <1>4 DEF NodeHears, Asks
  <2>2. Carries(Head(list), NWK_ComBuf.op)
    BY <1>0, <1>4 DEF Carries
  <2>3. /\ \A i \in 1..Len(list) - 1 : ~Carries(list[i + 1], NWK_ComBuf.op)
        /\ \A a \in air : a.op \notin Asks
        /\ lent /\ \E u \in Users : Waiting(u) /\ Bears(Head(list), u)
    BY <1>0, <2>2, HeadCarries
  <2>4. PICK u \in Users : Waiting(u) /\ Bears(Head(list), u)
    BY <2>3
  <2>5. NWK_ComBuf = Request(u) /\ NWK_ComBuf.op = Next1(u).op
    BY <1>0, <2>4 DEF Bears, Request
  <2>6. Waiting(u)' /\ Next1(u)' = Next1(u) /\ Request(u)' = Request(u) /\ Request(u) \in done'
    BY <1>1, <2>1, <2>4, <2>5, SameUser
  <2>7. OneAsks /\ Written /\ Flagged /\ OneWay
    BY DEF RInv
  <2>8. (OneAsks /\ Written /\ Flagged)'
    BY <1>1, <2>1, <2>7, AskStays
  <2>9. /\ Len(list') = Len(list) - 1
        /\ \A i \in 1..Len(list') : list'[i] = list[i + 1]
    BY <1>0, SilentLemma
  <2>10. \A i \in 1..Len(list') : ~Carries(list'[i], NWK_ComBuf'.op)
    BY <1>1, <2>3, <2>9
  <2>11. \A i, j \in 1..Len(list') : Sends(list'[i]) /\ Sends(list'[j]) => i = j
    <3>1. \A i \in 1..Len(list') : ~Sends(list'[i])
      BY <1>1, <1>4, <2>10 DEF Sends, Carries
    <3> QED
      BY <3>1
  <2>12. \A a \in air' : a.op \in Asks => a = b
    BY <1>2, <2>3
  <2>13. OnTheWay' /\ OneWay'
    BY <2>10, <2>11, <2>12 DEF OnTheWay, OneWay
  <2>14. InTheAir'
    BY <1>1, <1>2, <2>3, <2>5, <2>6, <2>10, <2>12 DEF InTheAir
  <2> QED
    BY <2>8, <2>13, <2>14 DEF RInv
<1> QED
  BY <1>3, <1>4

LEMMA ArriveTakes ==
  ASSUME IInv, RInv, Arrive
  PROVE  RInv'
<1> SUFFICES ASSUME ~mixed
             PROVE  RInv'
  BY DEF RInv, Arrive, Idle, history
<1>1. PICK a \in air : Post(Msg("NWK", "DATA_IND", a)) /\ air' = air \ {a}
  BY DEF Arrive
<1>2. UNCHANGED <<user, SetType, SetAddr, SetParameterData, GetParaData, NwkSetParaData, NWK_ComBuf,
                  lent, mixed, done, Get_Data_Flag>>
  BY DEF Arrive, Idle, askVars, history
<1>3. PICK m : m = Msg("NWK", "DATA_IND", a)
  OBVIOUS
<1>4. m.id = "DATA_IND" /\ m.arg = a /\ Post(m)
  BY <1>1, <1>3 DEF Msg
<1>5. CASE a.op \notin Asks
  <2>1. ~Tracked(m)
    BY <1>4, <1>5 DEF Tracked, OfRequest
  <2>2. Fewer
    BY <1>4, <2>1, FewerLemma DEF IInv
  <2> QED
    BY <1>1, <1>2, <2>2, CalmStays
<1>6. CASE a.op \in Asks
  <2>1. OneAsks /\ Written /\ Flagged /\ InTheAir /\ OneWay
    BY DEF RInv
  <2>2. (OneAsks /\ Written /\ Flagged)'
    BY <1>2, <2>1, AskStays
  <2>3. lent /\ \A i \in 1..Len(list) : ~Carries(list[i], NWK_ComBuf.op)
    BY <1>6, <2>1 DEF InTheAir
  <2>4. PICK u \in Users : Waiting(u) /\ a.op = Next1(u).op /\ Request(u) \in done
    BY <1>6, <2>1 DEF InTheAir
  <2>5. Waiting(u)' /\ Next1(u)' = Next1(u) /\ Request(u)' = Request(u)
    BY <1>2, <2>4, SameUser
  <2>6. Bears(m, u)'
    BY <1>2, <1>4, <2>4, <2>5 DEF Bears
  <2>7. \A b \in air' : b.op \notin Asks
    BY <1>1, <1>6, <2>1 DEF OneWay
  <2>8. /\ Len(list') = Len(list) + 1
        /\ \A i \in 1..Len(list) : list'[i] = list[i]
        /\ list'[Len(list) + 1] = m /\ Len(list) \in Nat
    BY <1>4, PostPlaces DEF IInv
  <2>9. \A i \in 1..Len(list') : \/ i = Len(list) + 1 /\ list'[i] = m
                                 \/ i \in 1..Len(list) /\ list'[i] = list[i]
    BY <2>8
  <2>10. \A i \in 1..Len(list') :
           Carries(list'[i], NWK_ComBuf.op) => i = Len(list) + 1 /\ list'[i] = m
    BY <2>3, <2>9
  <2>11. OnTheWay' /\ InTheAir'
    BY <1>2, <2>3, <2>5, <2>6, <2>7, <2>10 DEF OnTheWay, InTheAir
  <2>12. \A i, j \in 1..Len(list') : Sends(list'[i]) /\ Sends(list'[j]) => i = j
    <3>1. ~Sends(m)
      BY <1>4 DEF Sends
    <3> QED
      BY <2>1, <2>9, <3>1 DEF OneWay
  <2>13. OneWay'
    BY <1>2, <2>7, <2>10, <2>12 DEF OneWay
  <2> QED
    BY <2>2, <2>11, <2>13 DEF RInv
<1> QED
  BY <1>5, <1>6

(* The answer sets the flag the shell looks at.                              *)
LEMMA FlagSet ==
  ASSUME RInv, ~mixed, NEW u \in Users, Waiting(u), lent, Request(u) \in done,
         UNCHANGED <<user, SetType, SetAddr, lent, done>>, Get_Data_Flag' => Get_Data_Flag,
         /\ SetParameterData'.idx = SetParameterData.idx
         /\ SetParameterData'.dev = SetParameterData.dev
         /\ GetParaData'.idx = GetParaData.idx /\ GetParaData'.dev = GetParaData.dev
  PROVE  (OneAsks /\ Written /\ Flagged)'
<1>1. OneAsks /\ Written /\ Flagged
  BY DEF RInv
<1>2. (OneAsks /\ Flagged)' /\ \A v \in Users : Asking(v)' <=> Asking(v)
  BY <1>1 DEF OneAsks, Flagged, Asking
<1>3. ASSUME NEW v \in Users, Asking(v)
      PROVE  WrittenBy(v)'
  <2>1. v = u /\ At(u, "poll")
    BY <1>1, <1>3 DEF OneAsks, Waiting, Asking, At
  <2>2. WrittenBy(u) /\ ~At(u, "fill2")'
    BY <1>1, <1>3, <2>1 DEF Written, At
  <2>3. Next1(u)' = Next1(u) /\ Request(u)' = Request(u) /\ At(u, "poll")'
    BY <2>1 DEF Next1, Request, At
  <2> QED
    BY <2>1, <2>2, <2>3 DEF WrittenBy, Type
<1> QED
  BY <1>2, <1>3 DEF Written

LEMMA NwkDataIndTakes ==
  ASSUME IInv, RInv, NwkDataInd
  PROVE  RInv'
<1> SUFFICES ASSUME ~mixed
             PROVE  RInv'
  BY DEF RInv, NwkDataInd
<1>0. /\ ListOK /\ list # <<>> /\ Head(list).id = "DATA_IND" /\ Reply(<<Confirm(Arg)>>)
      /\ AnswerOK(Arg)
  <2>1. list # <<>> /\ Head(list).id = "DATA_IND" /\ Reply(<<Confirm(Arg)>>) /\ ListOK
    BY DEF NwkDataInd, Received, IInv
  <2>2. MessageOK(Head(list))
    BY <2>1, HeadLemma DEF IInv
  <2> QED
    BY <2>1, <2>2 DEF MessageOK, Arg
<1>1. UNCHANGED <<user, SetType, SetAddr, SetParameterData, NwkSetParaData, NWK_ComBuf,
                  lent, mixed, done, Get_Data_Flag, air>>
  BY DEF NwkDataInd, NwkRest, netVars
<1>2. GetParaData' = [GetParaData EXCEPT !.flag = @ \/ Arg.op = "get"]
      /\ GetParaData \in [idx : Nat, dev : Address, flag : BOOLEAN]
  BY DEF NwkDataInd, IInv, AskOK
<1>3. Arg.op # "get" => GetParaData' = GetParaData
  <2> SUFFICES ASSUME Arg.op # "get" PROVE GetParaData' = GetParaData
    OBVIOUS
  <2>1. GetParaData' = [GetParaData EXCEPT !.flag = GetParaData.flag \/ FALSE]
    BY <1>2
  <2>2. (GetParaData.flag \/ FALSE) = GetParaData.flag
    BY <1>2
  <2> QED
    BY <1>2, <2>1, <2>2
<1>4. PICK m : m = Confirm(Arg)
  OBVIOUS
<1>5. /\ Reply(<<m>>) /\ ~Sends(m)
      /\ Arg.op = "set" => m.id = "SET_DATA_CFM"
      /\ Arg.op # "set" => ~Tracked(m)
  BY <1>0, <1>4 DEF Confirm, AnswerOK, Msg, Sends, Tracked, OfRequest
<1>6. CASE Arg.op \notin Asks
  <2>1. Fewer
    BY <1>0, <1>5, <1>6, FewerLemma DEF Asks
  <2> QED
    BY <1>1, <1>3, <1>6, <2>1, CalmStays DEF Asks
<1>7. CASE Arg.op \in Asks
  <2>1. Carries(Head(list), NWK_ComBuf.op)
    BY <1>0, <1>7 DEF Carries, Arg
  <2>2. /\ \A i \in 1..Len(list) - 1 : ~Carries(list[i + 1], NWK_ComBuf.op)
        /\ \A a \in air : a.op \notin Asks
        /\ lent /\ \E u \in Users : Waiting(u) /\ Bears(Head(list), u)
    BY <1>0, <2>1, HeadCarries
  <2>3. PICK u \in Users : Waiting(u) /\ Bears(Head(list), u)
    BY <2>2
  <2>4. Arg.op = Next1(u).op /\ Request(u) \in done
    BY <1>0, <2>3 DEF Bears, Arg
  <2>5. OneAsks /\ Written /\ Flagged /\ OneWay
    BY DEF RInv
  <2>6. CASE Arg.op = "set"
    <3>1. GetParaData' = GetParaData
      BY <1>3, <2>6
    <3>2. (OneAsks /\ Written /\ Flagged)'
      BY <1>1, <2>5, <3>1, AskStays
    <3>3. Waiting(u)' /\ Next1(u)' = Next1(u) /\ Request(u)' = Request(u)
      BY <1>1, <2>3, <3>1, SameUser
    <3>4. Bears(m, u)'
      BY <1>1, <1>5, <2>4, <2>6, <3>3 DEF Bears
    <3> QED
      BY <1>0, <1>1, <1>5, <2>2, <2>5, <3>2, <3>3, <3>4, HandOn DEF OneWay
  <2>7. CASE Arg.op = "get"
    <3>1. GetParaData'.idx = GetParaData.idx /\ GetParaData'.dev = GetParaData.dev
      BY <1>2
    <3>2. (OneAsks /\ Written /\ Flagged)'
      BY <1>1, <2>2, <2>3, <2>4, <3>1, FlagSet
    <3>3. /\ Len(list') = Len(list)
          /\ \A i \in 1..Len(list) - 1 : list'[i] = list[i + 1]
          /\ list'[Len(list)] = m /\ Len(list) \in Nat \ {0}
      BY <1>0, <1>5, ReplyPlaces
    <3>4. \A i \in 1..Len(list') : \/ list'[i] = m
                                   \/ /\ i + 1 \in 1..Len(list) /\ list'[i] = list[i + 1]
                                      /\ ~Carries(list[i + 1], NWK_ComBuf.op)
      BY <2>2, <3>3
    <3>5. ~Carries(m, NWK_ComBuf.op)
      BY <1>5, <2>7 DEF Tracked, Carries
    <3>6. \A i \in 1..Len(list') : ~Carries(list'[i], NWK_ComBuf'.op)
      BY <1>1, <3>4, <3>5
    <3>7. \A i, j \in 1..Len(list') : Sends(list'[i]) /\ Sends(list'[j]) => i = j
      <4> SUFFICES ASSUME NEW i \in 1..Len(list'), NEW j \in 1..Len(list'),
                          Sends(list'[i]), Sends(list'[j])
                   PROVE  i = j
        OBVIOUS
      <4>1. i + 1 = j + 1
        BY <1>5, <2>5, <3>4 DEF OneWay
      <4> QED
        BY <4>1
    <3> QED
      BY <1>1, <2>2, <3>2, <3>6, <3>7, Quiet DEF RInv
  <2> QED
    BY <1>7, <2>6, <2>7 DEF Asks
<1> QED
  BY <1>6, <1>7

LEMMA SetDataCfmTakes ==
  ASSUME IInv, RInv, SetDataCfm
  PROVE  RInv'
<1> SUFFICES ASSUME ~mixed
             PROVE  RInv'
  BY DEF RInv, SetDataCfm, Rest, history
<1>0. ListOK /\ list # <<>> /\ Head(list).id = "SET_DATA_CFM" /\ Carries(Head(list), NWK_ComBuf.op)
      /\ Reply(<<>>)
  BY DEF SetDataCfm, Received, IInv, Carries, OfRequest
<1>1. UNCHANGED <<user, SetType, SetAddr, GetParaData, NWK_ComBuf, lent, mixed, done, air>>
      /\ (Get_Data_Flag' => Get_Data_Flag)
  BY DEF SetDataCfm, Rest, netVars, history
<1>2. /\ \A i \in 1..Len(list) - 1 : ~Carries(list[i + 1], NWK_ComBuf.op)
      /\ \A a \in air : a.op \notin Asks
      /\ lent /\ \E u \in Users : Waiting(u) /\ Bears(Head(list), u)
  BY <1>0, HeadCarries
<1>3. PICK u \in Users : Waiting(u) /\ Request(u) \in done
  BY <1>0, <1>2 DEF Bears
<1>4. /\ SetParameterData'.idx = SetParameterData.idx
      /\ SetParameterData'.dev = SetParameterData.dev
  BY DEF SetDataCfm, IInv, AskOK
<1>5. (OneAsks /\ Written /\ Flagged)'
  BY <1>1, <1>2, <1>3, <1>4, FlagSet
<1>6. Fewer /\ \A i \in 1..Len(list') : ~Carries(list'[i], NWK_ComBuf'.op)
  <2>1. /\ Len(list') = Len(list) - 1
        /\ \A i \in 1..Len(list') : list'[i] = list[i + 1]
    BY <1>0, SilentLemma
  <2> QED
    BY <1>0, <1>1, <1>2, <2>1, FewerLemma
<1>7. OneWay'
  BY <1>1, <1>6, WayLemma DEF RInv
<1> QED
  BY <1>1, <1>2, <1>5, <1>6, <1>7 DEF RInv, OnTheWay, InTheAir

-----------------------------------------------------------------------------
(* The steps of the shell that asks.                                        *)
LEMMA GotoPlaces ==
  ASSUME UsersOK, NEW u \in Users, NEW place, Goto(u, place)
  PROVE  /\ At(u, place)' /\ user'[u].at = place
         /\ Next1(u)' = Next1(u) /\ Request(u)' = Request(u) /\ user'[u].node = user[u].node
         /\ \A v \in Users : v # u => user'[v] = user[v]
<1>1. u \in DOMAIN user /\ user[u] \in UserType
  BY UserFacts DEF UsersOK
<1>2. user' = [user EXCEPT ![u] = [@ EXCEPT !.at = place]]
  BY DEF Goto
<1>3. user'[u] = [user[u] EXCEPT !.at = place]
  BY <1>1, <1>2
<1>4. user'[u].at = place /\ user'[u].left = user[u].left /\ user'[u].node = user[u].node
  BY <1>1, <1>3 DEF UserType
<1>5. \A v \in Users : v # u => user'[v] = user[v]
  BY <1>2 DEF UsersOK
<1> QED
  BY <1>4, <1>5 DEF At, Next1, Request

(* Before the request is taken nothing of it is under way.                   *)
LEMMA StillWriting ==
  ASSUME IInv, RInv, ~mixed, NEW u \in Users, WrittenBy(u)', Asking(u), Asking(u)',
         \A v \in Users : v # u => user'[v] = user[v], ~lent,
         UNCHANGED <<list, NWK_ComBuf, air, lent>>
  PROVE  RInv'
<1>1. OneAsks /\ OneWay
  BY DEF RInv
<1>2. \A v \in Users : v # u => ~Asking(v) /\ ~Asking(v)'
  BY <1>1 DEF OneAsks, Asking
<1>3. (OneAsks /\ Written /\ Flagged)'
  BY <1>2 DEF OneAsks, Written, Flagged
<1>4. (OnTheWay /\ InTheAir /\ OneWay)'
  BY <1>1, NobodyWaits, Quiet DEF OneWay
<1> QED
  BY <1>3, <1>4 DEF RInv

LEMMA PrepareTakes ==
  ASSUME IInv, RInv, NEW u \in Users, Prepare(u)
  PROVE  RInv'
<1> SUFFICES ASSUME ~mixed'
             PROVE  RInv'
  BY DEF RInv
<1>1. ~mixed /\ \A v \in Users : ~Asking(v)
  BY DEF Prepare
<1>2. OneWay
  BY <1>1 DEF RInv
<1>3. \A v \in Users : ~Waiting(v)
  BY <1>1 DEF Waiting, Asking, At
<1>4. /\ \A i \in 1..Len(list) : ~Carries(list[i], NWK_ComBuf.op)
      /\ \A a \in air : a.op \notin Asks
  BY <1>1, <1>3, NobodyWaits
<1>5. UNCHANGED <<list, NWK_ComBuf, air>> /\ ~lent' /\ Goto(u, "flag")
  BY DEF Prepare, UserRest, netVars
<1>6. /\ At(u, "flag")' /\ user'[u].at = "flag" /\ Next1(u)' = Next1(u)
      /\ user'[u].node = user[u].node /\ \A v \in Users : v # u => user'[v] = user[v]
  BY <1>5, GotoPlaces DEF IInv
<1>7. Next1(u).op = "set" => /\ SetParameterData'.idx = Next1(u).idx
                             /\ SetParameterData'.dev = user[u].node
  BY DEF Prepare, IInv, AskOK
<1>8. Next1(u).op = "get" => /\ GetParaData'.idx = Next1(u).idx
                             /\ GetParaData'.dev = user[u].node
  BY DEF Prepare, IInv, AskOK
<1>9. WrittenBy(u)'
  BY <1>5, <1>6, <1>7, <1>8 DEF WrittenBy, At
<1>10. Asking(u)' /\ \A v \in Users : v # u => ~Asking(v)'
  BY <1>1, <1>6 DEF Asking
<1>11. (OneAsks /\ Written /\ Flagged)'
  BY <1>9, <1>10 DEF OneAsks, Written, Flagged
<1>12. (OnTheWay /\ InTheAir /\ OneWay)'
  BY <1>2, <1>4, <1>5, Quiet DEF OneWay
<1> QED
  BY <1>11, <1>12 DEF RInv

LEMMA RaiseFlagTakes ==
  ASSUME IInv, RInv, NEW u \in Users, RaiseFlag(u)
  PROVE  RInv'
<1> SUFFICES ASSUME ~mixed
             PROVE  RInv'
  BY DEF RInv, RaiseFlag, history
<1>1. Asking(u) /\ At(u, "flag")
  BY DEF RaiseFlag, Asking, At
<1>2. WrittenBy(u)
  BY <1>1 DEF RInv, Written
<1>3. ~lent
  BY <1>1, <1>2 DEF WrittenBy, At
<1>4. UNCHANGED <<list, NWK_ComBuf, air, lent, SetType, SetAddr, SetParameterData, GetParaData>>
      /\ Goto(u, "fill1")
  BY DEF RaiseFlag, UserRest, netVars, history
<1>5. /\ At(u, "fill1")' /\ user'[u].at = "fill1" /\ Next1(u)' = Next1(u)
      /\ user'[u].node = user[u].node /\ \A v \in Users : v # u => user'[v] = user[v]
  BY <1>4, GotoPlaces DEF IInv
<1>6. WrittenBy(u)'
  BY <1>2, <1>3, <1>4, <1>5 DEF WrittenBy, At
<1>7. Asking(u)'
  BY <1>5 DEF Asking, Filling
<1> QED
  BY <1>1, <1>3, <1>4, <1>5, <1>6, <1>7, StillWriting

LEMMA FillTakes ==
  ASSUME IInv, RInv, NEW u \in Users, Fill(u)
  PROVE  RInv'
<1> SUFFICES ASSUME ~mixed
             PROVE  RInv'
  BY DEF RInv, Fill, history
<1>1. Asking(u) /\ user[u].at \in Filling
  BY DEF Fill, Asking
<1>2. WrittenBy(u)
  BY <1>1 DEF RInv, Written
<1>3. ~lent
  BY <1>1, <1>2 DEF WrittenBy, At, Filling
<1>4. Next1(u).op \in {"set", "get"}
  <2>1. user[u].at \in Asked /\ user[u].at # "rest"
    BY <1>1 DEF Asked, Filling
  <2> QED
    BY <2>1, UserFacts DEF IInv, UserOK
<1>5. UNCHANGED <<list, NWK_ComBuf, air, lent>>
  BY DEF Fill, UserRest, netVars, history
<1>6. /\ SetParameterData'.idx = SetParameterData.idx
      /\ SetParameterData'.dev = SetParameterData.dev
      /\ GetParaData'.idx = GetParaData.idx /\ GetParaData'.dev = GetParaData.dev
  BY DEF Fill, FillAddress, FillData, IInv, AskOK
<1>7. CASE At(u, "fill1")
  <2>1. Goto(u, "fill2")
    BY <1>7 DEF Fill
  <2>2. /\ At(u, "fill2")' /\ user'[u].at = "fill2" /\ Next1(u)' = Next1(u)
        /\ user'[u].node = user[u].node /\ \A v \in Users : v # u => user'[v] = user[v]
    BY <2>1, GotoPlaces DEF IInv
  <2>3. Next1(u).op = "set" => SetAddr' = user[u].node /\ SetType' = "START_SET_DATA"
    BY <1>7 DEF Fill, FillAddress
  <2>4. Next1(u).op = "get" => ~GetParaData'.flag
    BY <1>7 DEF Fill, FillData, IInv, AskOK
  <2>5. WrittenBy(u)'
    BY <1>2, <1>3, <1>5, <1>6, <2>2, <2>3, <2>4 DEF WrittenBy, At, Type, AnswerFlag
  <2>6. Asking(u)'
    BY <2>2 DEF Asking, Filling
  <2> QED
    BY <1>1, <1>3, <1>5, <2>2, <2>5, <2>6, StillWriting
<1>8. CASE At(u, "fill2")
  <2>1. Goto(u, "poll") /\ ~At(u, "fill1")
    BY <1>8 DEF Fill, At
  <2>2. /\ At(u, "poll")' /\ user'[u].at = "poll" /\ Next1(u)' = Next1(u)
        /\ user'[u].node = user[u].node /\ \A v \in Users : v # u => user'[v] = user[v]
    BY <2>1, GotoPlaces DEF IInv
  <2>3. CASE Next1(u).op = "set"
    <3>1. ~SetParameterData'.flag /\ SetAddr' = SetAddr /\ SetType' = SetType
      BY <2>1, <2>3 DEF Fill, FillData, IInv, AskOK
    <3>2. SetAddr = user[u].node /\ SetType = "START_SET_DATA"
      BY <1>2, <1>8, <2>3 DEF WrittenBy, Type
    <3> QED
      BY <1>2, <1>3, <1>5, <1>6, <2>2, <2>3, <3>1, <3>2, <1>1, StillWriting
         DEF WrittenBy, At, Type, AnswerFlag, Asking
  <2>4. CASE Next1(u).op = "get"
    <3>0. At(u, "fill1") = (Next1(u).op = "set") /\ ~(Next1(u).op = "set")
      BY <2>1, <2>4 DEF At
    <3>1. SetAddr' = user[u].node /\ SetType' = "START_GET_PARA_DATA" /\ GetParaData' = GetParaData
      <4>1. FillAddress(u)
        BY <3>0 DEF Fill
      <4> QED
        BY <3>0, <4>1 DEF FillAddress
    <3>2. ~GetParaData.flag
      BY <1>2, <1>8, <2>4 DEF WrittenBy, AnswerFlag
    <3> QED
      BY <1>2, <1>3, <1>5, <1>6, <2>2, <2>4, <3>1, <3>2, <1>1, StillWriting
         DEF WrittenBy, At, Type, AnswerFlag, Asking
  <2> QED
    BY <1>4, <2>3, <2>4
<1> QED
  BY <1>1, <1>7, <1>8 DEF Filling, At

LEMMA AnsweredTakes ==
  ASSUME IInv, RInv, NEW u \in Users, Answered(u) \/ GiveUp(u)
  PROVE  RInv'
<1> SUFFICES ASSUME ~mixed'
             PROVE  RInv'
  BY DEF RInv
<1>0. ~mixed /\ Answered(u)
  BY DEF Answered, GiveUp, history
<1>1. OneAsks /\ Written /\ Flagged /\ OneWay
  BY <1>0 DEF RInv
<1>2. At(u, "poll") /\ AnswerFlag(u) /\ Asking(u)
  BY <1>0 DEF Answered, Asking, At
<1>3. \A v \in Users : ~Waiting(v)
  <2>1. \A v \in Users : Waiting(v) => Asking(v)
    BY DEF Waiting, Asking, At
  <2> QED
    BY <1>1, <1>2, <2>1 DEF OneAsks, Waiting
<1>4. lent
  BY <1>1, <1>2 DEF Written, WrittenBy
<1>5. UNCHANGED <<list, NWK_ComBuf, air, lent>>
  BY <1>0 DEF Answered, UserRest, netVars, history
<1>6. user'[u].at \in {"rest", "go"} /\ \A v \in Users : v # u => user'[v] = user[v]
  <2> DEFINE place == IF Len(user[u].left) = 1 THEN "rest" ELSE "go"
             r == [user[u] EXCEPT !.left = Tail(@), !.at = place]
  <2>1. u \in DOMAIN user /\ user[u] \in UserType
    BY UserFacts DEF IInv, UsersOK
  <2>2. r.at = place
    BY <2>1 DEF UserType
  <2>3. user'[u] = r /\ \A v \in Users : v # u => user'[v] = user[v]
    BY <1>0, <2>1 DEF Answered, Proceed, IInv, UsersOK
  <2> QED
    BY <2>2, <2>3
<1>7. \A v \in Users : ~Asking(v)'
  BY <1>1, <1>2, <1>6 DEF OneAsks, Asking, Filling
<1>8. (OneAsks /\ Written /\ Flagged)'
  BY <1>4, <1>5, <1>7 DEF OneAsks, Written, Flagged
<1>9. (OnTheWay /\ InTheAir /\ OneWay)'
  BY <1>0, <1>1, <1>3, <1>5, NobodyWaits, Quiet DEF OneWay
<1> QED
  BY <1>8, <1>9 DEF RInv

-----------------------------------------------------------------------------
LEMMA RequestStep == IInv /\ RInv /\ [Next]_vars => RInv'
<1> SUFFICES ASSUME IInv, RInv, [Next]_vars PROVE RInv'
  OBVIOUS
<1>1. CASE UNCHANGED vars
  <2>1. /\ UNCHANGED <<list, SetType, SetAddr, SetParameterData, GetParaData, NwkSetParaData,
                       NWK_ComBuf, done, lent, mixed, air, user>>
        /\ Get_Data_Flag' => Get_Data_Flag
    BY <1>1 DEF vars, listVars, askVars, netVars, history
  <2>2. Fewer
    BY <2>1, FewerLemma DEF IInv
  <2> QED
    BY <2>1, <2>2, CalmStays
<1>2. CASE Poll
  BY <1>2, PollCalm, PollLendsTakes DEF Poll
<1>3. CASE NwkRequest
  <2>1. CASE mixed'
    BY <2>1 DEF RInv
  <2>2. CASE ~mixed'
    BY <1>3, <2>2, NwkAsks, NwkOthers DEF NwkRequest
  <2> QED
    BY <2>1, <2>2
<1>4. CASE RfTask
  BY <1>2, <1>3, <1>4, HandlerCalm, StartSetDataTakes, StartGetParaDataTakes, SetDataCfmTakes,
     NwkDataIndTakes, NodeHearsTakes DEF RfTask, EMN_APL_Task, EMN_NWK_Task, EMN_MAC_Task
<1>5. CASE Arrive \/ Lose \/ Expire \/ PagingEnd
  BY <1>5, ArriveTakes, EventCalm
<1>6. ASSUME NEW u \in Users, Command(u) \/ Shell(u)
      PROVE  RInv'
  BY <1>6, ShellCalm, PrepareTakes, RaiseFlagTakes, FillTakes, AnsweredTakes DEF Shell
<1> QED
  BY <1>1, <1>4, <1>5, <1>6 DEF Next

(* While no requests were mixed up one shell asks at a time, what it has     *)
(* written is what the RF task takes, and one message or one answer in the   *)
(* air, if any, bears the request it waits for.                             *)
THEOREM RequestInvariance == Spec => []RInv
<1>1. IInv /\ RInv /\ [Next]_vars => RInv'
  BY RequestStep
<1> QED
  BY <1>1, RInvInit, Invariance, PTL DEF Spec

(* A shell that reports success has had this very request carried out, by    *)
(* the node it named, since it made it, unless requests were mixed up        *)
(* (My_Shell_Commands.c, the commands; dicor_network_apl.c, EMN_APL_Task).   *)
THEOREM ReportedDoneCorrect == Spec => ReportedDone
<1>1. RInv => \A u \in Users : Answered(u) /\ ~mixed => Request(u) \in done
  <2> SUFFICES ASSUME RInv, NEW u \in Users, Answered(u), ~mixed
               PROVE  Request(u) \in done
    OBVIOUS
  <2>1. At(u, "poll") /\ AnswerFlag(u) /\ Asking(u)
    BY DEF Answered, Asking, At
  <2> QED
    BY <2>1 DEF RInv, Written, WrittenBy
<1>2. RInv => [\A u \in Users : Answered(u) /\ ~mixed => Request(u) \in done]_vars
  BY <1>1
<1> QED
  BY <1>2, RequestInvariance, PTL DEF ReportedDone

=============================================================================
