---------------------------- MODULE ConfigProofs ----------------------------
(***************************************************************************)
(* Whatever the versions and contents and however often the power fails,    *)
(* the boot loader is ordered to load only what was asked for, the start    *)
(* leaves the flash sound, and what 0x07 installed stays together.          *)
(***************************************************************************)
EXTENDS Config, TLAPS

Writers == {"upload", "shell"}
Orderable == Versions \cup {"blank", "junk"}
Steps == [do : {"write", "erase", "peek", "overrun", "spin", "tftp", "analyse", "reboot"},
          at : Sectors \cup {"none"},
          kind : {"table", "conf", "field", "first", "soft", "idle", "order", "none"},
          val : Orderable \cup Contents \cup {"none"}]
Records == [sig : BOOLEAN, update : BOOLEAN, file : Orderable]

(* What else the boot loader may have been ordered to load.                 *)
Excused == misled \/ torn

(* The record of the boot loader carries no order that is not allowed.      *)
RecordOK ==
  /\ DOMAIN flash = Sectors /\ flash["params"] \in Records /\ firmware \in Versions
  /\ flash["params"].sig /\ flash["params"].update => flash["params"].file \in asked \/ Excused

(* What is still to be done leaves the record idle or orders an allowed     *)
(* version; a version file is analysed only after its download, which then  *)
(* was whole or was reported as a success it was not.                       *)
StepOK(e, allowed, excused) ==
  /\ e.do = "write" /\ e.at = "params"
       => e.kind = "idle" \/ (e.kind = "order" /\ e.val \in Orderable
                               /\ (e.val \in allowed \/ excused))
  /\ e.do = "overrun" => e.at \in Sectors
Downloaded == local \in asked \/ misled
ScriptOK ==
  /\ script \in [Writers -> Seq(Steps)]
  /\ \A t \in Writers : \A i \in 1 .. Len(script[t]) : StepOK(script[t][i], asked, Excused)
  /\ \A i \in 1 .. Len(script["shell"]) : script["shell"][i].do \notin {"tftp", "analyse"}
  /\ \A i \in 1 .. Len(script["upload"]) :
       script["upload"][i].do = "analyse"
         => (i = 1 /\ Downloaded) \/ (i = 2 /\ script["upload"][1].do = "tftp")

AskedOK == asked \subseteq Versions

IInv == RecordOK /\ ScriptOK /\ AskedOK

-----------------------------------------------------------------------------
LEMMA SectorsLemma ==
  Sectors = {"base", "router", "reg1", "reg2", "index", "didi", "cood", "params"}
  BY DEF Sectors, Layout

LEMMA FollowingLemma ==
  ASSUME NEW s \in Sectors
  PROVE  Following(s) \in Sectors
<1> DEFINE i == CHOOSE k \in 1 .. Len(Layout) : Layout[k] = s
<1>1. \E k \in 1 .. Len(Layout) : Layout[k] = s
  BY DEF Sectors
<1>2. i \in 1 .. Len(Layout) /\ Layout[i] = s
  BY <1>1
<1>3. Len(Layout) = 8
  BY DEF Layout
<1>4. i = 8 \/ i + 1 \in 1 .. Len(Layout)
  BY <1>2, <1>3
<1>5. Following(s) = IF i = Len(Layout) THEN s ELSE Layout[i + 1]
  BY DEF Following
<1> QED
  BY <1>3, <1>4, <1>5 DEF Sectors

(* What power failures, races and tables without an end leave in the record *)
(* counts as torn.                                                          *)
LEMMA JunkLemma == Junk("params") \subseteq Records
  BY DEF Junk, Records, Orderable

LEMMA BlankLemma == Blank("params") \in Records /\ ~Blank("params").sig
  BY DEF Blank, Records, Orderable

(* Scripts get shorter: what is left of an allowed one is allowed.          *)
LEMMA RestLemma ==
  ASSUME NEW s \in Seq(Steps), s # <<>>
  PROVE  /\ Tail(s) \in Seq(Steps) /\ Len(Tail(s)) = Len(s) - 1 /\ Len(s) \in Nat
         /\ \A i \in 1 .. Len(s) - 1 : Tail(s)[i] = s[i + 1] /\ i + 1 \in 1 .. Len(s)
         /\ Head(s) = s[1] /\ 1 \in 1 .. Len(s)
  OBVIOUS

Weaker == asked \subseteq asked' /\ (misled => misled') /\ (torn => torn')

LEMMA AllowedLemma ==
  ASSUME Weaker, NEW e, StepOK(e, asked, Excused)
  PROVE  StepOK(e, asked', Excused')
  BY DEF Weaker, StepOK, Excused

(* A task goes on with its command.                                         *)
LEMMA RestKeeps ==
  ASSUME ScriptOK, Weaker, local' = local, NEW t \in Writers, script[t] # <<>>,
         Head(script[t]).do # "tftp", script' = Rest(t)
  PROVE  ScriptOK'
<1> USE DEF ScriptOK
<1>1. /\ script' \in [Writers -> Seq(Steps)] /\ script'[t] = Tail(script[t])
      /\ \A u \in Writers \ {t} : script'[u] = script[u]
  BY RestLemma DEF Rest
<1>2. /\ Len(script'[t]) = Len(script[t]) - 1
      /\ \A i \in 1 .. Len(script'[t]) : /\ script'[t][i] = script[t][i + 1]
                                         /\ i + 1 \in 1 .. Len(script[t])
      /\ Head(script[t]) = script[t][1]
  BY <1>1, RestLemma
<1>3. ASSUME NEW u \in Writers, NEW i \in 1 .. Len(script'[u])
      PROVE  StepOK(script'[u][i], asked', Excused')
  <2>1. StepOK(script'[u][i], asked, Excused)
    <3>1. CASE u = t
      BY <1>2, <3>1
    <3>2. CASE u # t
      BY <1>1, <3>2
    <3> QED
      BY <3>1, <3>2
  <2> QED
    BY <2>1, AllowedLemma
<1>4. \A i \in 1 .. Len(script'["shell"]) : script'["shell"][i].do \notin {"tftp", "analyse"}
  <2>1. CASE t = "shell"
    BY <1>2, <2>1
  <2>2. CASE t # "shell"
    BY <1>1, <2>2 DEF Writers
  <2> QED
    BY <2>1, <2>2
<1>5. ASSUME NEW i \in 1 .. Len(script'["upload"]), script'["upload"][i].do = "analyse"
      PROVE  (i = 1 /\ Downloaded') \/ (i = 2 /\ script'["upload"][1].do = "tftp")
  <2>1. CASE t = "upload"
    <3>1. script["upload"][i + 1].do = "analyse" /\ i + 1 \in 1 .. Len(script["upload"])
      BY <1>2, <1>5, <2>1
    <3>2. i \in Nat /\ i >= 1 /\ i + 1 # 1
      BY <1>1, <2>1
    <3> QED
      BY <3>1, <3>2, <1>2, <2>1
  <2>2. CASE t # "upload"
    BY <1>1, <1>5, <2>2 DEF Weaker, Downloaded, Writers
  <2> QED
    BY <2>1, <2>2
<1> QED
  BY <1>1, <1>3, <1>4, <1>5

(* A task ends its command, begins one, or loops for ever: all of the new   *)
(* script is allowed, and it analyses only after a download.                *)
LEMMA NewScriptKeeps ==
  ASSUME ScriptOK, Weaker, local' = local, NEW t \in Writers, NEW s \in Seq(Steps),
         script' = [script EXCEPT ![t] = s],
         \A i \in 1 .. Len(s) : StepOK(s[i], asked', Excused'),
         \A i \in 1 .. Len(s) : s[i].do = "analyse" => t = "upload" /\ i = 2 /\ s[1].do = "tftp",
         \A i \in 1 .. Len(s) : s[i].do = "tftp" => t = "upload"
  PROVE  ScriptOK'
<1> USE DEF ScriptOK
<1>1. /\ script' \in [Writers -> Seq(Steps)] /\ script'[t] = s
      /\ \A u \in Writers \ {t} : script'[u] = script[u]
  OBVIOUS
<1>2. ASSUME NEW u \in Writers, NEW i \in 1 .. Len(script'[u])
      PROVE  StepOK(script'[u][i], asked', Excused')
  <2>1. CASE u = t
    BY <1>1, <2>1
  <2>2. CASE u # t
    <3>1. StepOK(script'[u][i], asked, Excused)
      BY <1>1, <2>2
    <3> QED
      BY <3>1, AllowedLemma
  <2> QED
    BY <2>1, <2>2
<1>3. \A i \in 1 .. Len(script'["shell"]) : script'["shell"][i].do \notin {"tftp", "analyse"}
  BY <1>1 DEF Writers
<1>4. \A i \in 1 .. Len(script'["upload"]) :
        script'["upload"][i].do = "analyse"
          => (i = 1 /\ Downloaded') \/ (i = 2 /\ script'["upload"][1].do = "tftp")
  BY <1>1 DEF Writers, Weaker, Downloaded
<1> QED
  BY <1>1, <1>2, <1>3, <1>4

-----------------------------------------------------------------------------
(* The steps of the commands.  Those of all but the updates are plain.      *)
Plain == {e \in Steps : /\ e.do \notin {"tftp", "analyse"}
                        /\ e.do = "write" /\ e.at = "params" => e.kind = "idle"
                        /\ e.do = "overrun" => e.at \in Sectors}
PlainBut(v) == Plain \cup {Write("params", "order", v)}

LEMMA WritesPlain ==
  ASSUME NEW s \in Sectors, s # "params", NEW k \in {"table", "conf", "field", "first", "soft"},
         NEW v \in Contents \cup {"none"}
  PROVE  Write(s, k, v) \in Plain
  BY DEF Plain, Steps, Write

LEMMA IdlePlain == Write("params", "idle", "none") \in Plain
  BY SectorsLemma DEF Plain, Steps, Write

LEMMA StepPlain == ASSUME NEW n \in {"spin", "reboot"} PROVE Step(n) \in Plain
  BY DEF Plain, Steps, Step

LEMMA PeekPlain == ASSUME NEW s \in Sectors PROVE [Step("peek") EXCEPT !.at = s] \in Plain
  BY DEF Plain, Steps, Step

LEMMA RebootPlain ==
  ASSUME NEW v \in Contents \cup {"none"} PROVE [Step("reboot") EXCEPT !.val = v] \in Plain
  BY DEF Plain, Steps, Step

LEMMA RunsOverPlain ==
  ASSUME NEW s \in Sectors, NEW v \in Contents
  PROVE  [do |-> "overrun", at |-> s, kind |-> "none", val |-> v] \in Plain
  BY DEF Plain, Steps

LEMMA ErasesPlain == Erase \in Plain /\ EraseCood \in Plain
  BY SectorsLemma DEF Plain, Steps, Erase, EraseCood

LEMMA OneStep == ASSUME NEW S, NEW d \in S PROVE <<d>> \in Seq(S)
  OBVIOUS

LEMMA TwoSteps == ASSUME NEW S, NEW d \in S, NEW e \in S PROVE <<d, e>> \in Seq(S)
  OBVIOUS

LEMMA ThreeSteps ==
  ASSUME NEW S, NEW d \in S, NEW e \in S, NEW f \in S PROVE <<d, e, f>> \in Seq(S)
  OBVIOUS

LEMMA FourSteps ==
  ASSUME NEW S, NEW d \in S, NEW e \in S, NEW f \in S, NEW g \in S
  PROVE  <<d, e, f, g>> \in Seq(S)
  OBVIOUS

LEMMA Joined == ASSUME NEW S, NEW s \in Seq(S), NEW r \in Seq(S) PROVE s \o r \in Seq(S)
  OBVIOUS

LEMMA EepromInitPlain == EepromInit \in Seq(Plain)
<1>1. /\ Write("base", "first", "none") \in Plain
      /\ Write("base", "soft", "none") \in Plain
  BY WritesPlain, SectorsLemma
<1>2. [Step("peek") EXCEPT !.at = "base"] \in Plain
  BY PeekPlain, SectorsLemma
<1> QED
  BY <1>1, <1>2, IdlePlain, FourSteps DEF EepromInit

LEMMA TablesPlain ==
  ASSUME NEW file, NEW c \in Contents
  PROVE  /\ Wbaseconfig(file, c) \in Seq(Plain)
         /\ Wregtable(file, c) \in Seq(Plain)
         /\ Wroutertable(file, c) \in Seq(Plain)
         /\ Wdidi_diantable(file, c) \in Seq(Plain)
<1>1. /\ Write("base", "conf", c) \in Plain /\ Write("reg1", "table", c) \in Plain
      /\ Write("reg2", "table", c) \in Plain /\ Write("router", "table", c) \in Plain
      /\ Write("index", "table", c) \in Plain /\ Write("didi", "table", c) \in Plain
  BY WritesPlain, SectorsLemma
<1>2. <<>> \in Seq(Plain)
  OBVIOUS
<1>3. <<Step("spin")>> \in Seq(Plain)
  BY StepPlain, OneStep
<1>4. Wbaseconfig(file, c) \in Seq(Plain)
  BY <1>1, <1>2, OneStep DEF Wbaseconfig
<1>5. Wregtable(file, c) \in Seq(Plain)
  <2>1. [do |-> "overrun", at |-> "index", kind |-> "none", val |-> c] \in Plain
    BY RunsOverPlain, SectorsLemma
  <2>2. <<Write("reg1", "table", c), Write("reg2", "table", c)>> \in Seq(Plain)
    BY <1>1, TwoSteps
  <2>3. <<Write("reg1", "table", c), Write("reg2", "table", c),
          [do |-> "overrun", at |-> "index", kind |-> "none", val |-> c]>> \in Seq(Plain)
    BY <1>1, <2>1, ThreeSteps
  <2> QED
    BY <1>2, <2>2, <2>3 DEF Wregtable
<1>6. Wroutertable(file, c) \in Seq(Plain)
  BY <1>1, <1>2, <1>3, OneStep DEF Wroutertable
<1>7. Wdidi_diantable(file, c) \in Seq(Plain)
  BY <1>1, <1>2, <1>3, TwoSteps DEF Wdidi_diantable
<1> QED
  BY <1>4, <1>5, <1>6, <1>7

LEMMA InstallPlain ==
  ASSUME NEW b, NEW r, NEW c \in Contents
  PROVE  Install(b, r, c) \in Seq(Plain)
<1> DEFINE last == [Step("reboot") EXCEPT !.val = IF b = "good" /\ r = "good" THEN c ELSE "none"]
<1>1. last \in Plain
  BY RebootPlain
<1>2. <<last>> \in Seq(Plain)
  BY <1>1, OneStep
<1>3. EepromInit \o Wbaseconfig(b, c) \in Seq(Plain)
  BY EepromInitPlain, TablesPlain, Joined
<1>4. EepromInit \o Wbaseconfig(b, c) \o Wregtable(r, c) \in Seq(Plain)
  BY <1>3, TablesPlain, Joined
<1>5. EepromInit \o Wbaseconfig(b, c) \o Wregtable(r, c) \o <<last>> \in Seq(Plain)
  BY <1>2, <1>4, Joined
<1> QED
  BY <1>5 DEF Install

LEMMA CoodPlain == ASSUME NEW c \in Contents PROVE EepromWriteCoodaddr(c) \in Seq(Plain)
<1>1. Write("cood", "table", c) \in Plain
  BY WritesPlain, SectorsLemma
<1>2. [Step("peek") EXCEPT !.at = "cood"] \in Plain
  BY PeekPlain, SectorsLemma
<1> QED
  BY <1>1, <1>2, ErasesPlain, FourSteps DEF EepromWriteCoodaddr

LEMMA FieldPlain == SetField \in Seq(Plain)
<1>1. Write("base", "field", "none") \in Plain
  BY WritesPlain, SectorsLemma
<1> QED
  BY <1>1, OneStep DEF SetField

(* The updates order one version.                                           *)
LEMMA UpdatesOrder ==
  ASSUME NEW v
  PROVE  UpgradeDiCor(v) \in Seq(PlainBut(v)) /\ UpdateTo(v) \in Seq(PlainBut(v))
<1>1. /\ Step("reboot") \in PlainBut(v) /\ Erase \in PlainBut(v)
      /\ Write("params", "order", v) \in PlainBut(v)
  BY StepPlain, ErasesPlain DEF PlainBut
<1> QED
  BY <1>1, TwoSteps, ThreeSteps DEF UpgradeDiCor, UpdateTo

(* A task whose script orders only an allowed version.                      *)
LEMMA OrderKeeps ==
  ASSUME ScriptOK, Weaker, local' = local, NEW t \in Writers, NEW v \in Orderable,
         v \in asked' \/ Excused', NEW s \in Seq(PlainBut(v)),
         script' = [script EXCEPT ![t] = s]
  PROVE  ScriptOK'
<1>1. /\ Write("params", "order", v) \in Steps
      /\ StepOK(Write("params", "order", v), asked', Excused')
      /\ Write("params", "order", v).do = "write"
  BY SectorsLemma DEF Steps, Write, StepOK
<1>2. PlainBut(v) \subseteq Steps
  BY <1>1 DEF PlainBut, Plain
<1>3. ASSUME NEW e \in PlainBut(v)
      PROVE  StepOK(e, asked', Excused') /\ e.do \notin {"tftp", "analyse"}
  <2>1. CASE e \in Plain
    BY <2>1 DEF Plain, StepOK
  <2>2. CASE e = Write("params", "order", v)
    BY <2>2, <1>1
  <2> QED
    BY <2>1, <2>2 DEF PlainBut
<1>4. s \in Seq(Steps) /\ \A i \in 1 .. Len(s) : s[i] \in PlainBut(v)
  BY <1>2
<1> QED
  BY <1>3, <1>4, NewScriptKeeps

LEMMA PlainKeeps ==
  ASSUME ScriptOK, Weaker, local' = local, NEW t \in Writers, NEW s \in Seq(Plain),
         script' = [script EXCEPT ![t] = s]
  PROVE  ScriptOK'
<1>1. Plain \subseteq Steps
  BY DEF Plain
<1>2. \A e \in Plain : StepOK(e, asked', Excused') /\ e.do \notin {"tftp", "analyse"}
  BY DEF Plain, StepOK
<1>3. s \in Seq(Steps) /\ \A i \in 1 .. Len(s) : s[i] \in Plain
  BY <1>1
<1> QED
  BY <1>2, <1>3, NewScriptKeeps

(* The scripts are dropped at a restart, or stay as they are.               *)
LEMMA ClearKeeps ==
  ASSUME script' = [t \in Writers |-> <<>>]
  PROVE  ScriptOK'
  BY DEF ScriptOK, Writers

LEMMA SameKeeps ==
  ASSUME ScriptOK, Weaker, UNCHANGED <<script, local>>
  PROVE  ScriptOK'
<1>1. \A t \in Writers : \A i \in 1 .. Len(script[t]) : StepOK(script[t][i], asked', Excused')
  BY AllowedLemma DEF ScriptOK
<1> QED
  BY <1>1 DEF ScriptOK, Weaker, Downloaded

-----------------------------------------------------------------------------
(* The record of the boot loader.                                           *)
LEMMA RecordSame ==
  ASSUME RecordOK, Weaker, UNCHANGED <<flash, firmware>>
  PROVE  RecordOK'
  BY DEF RecordOK, Weaker, Excused

LEMMA RecordWritten ==
  ASSUME RecordOK, Weaker, firmware' = firmware, NEW s, NEW v,
         flash' = [flash EXCEPT ![s] = v],
         s = "params" => v \in Records /\ (v.sig /\ v.update => v.file \in asked' \/ Excused')
  PROVE  RecordOK'
<1>1. "params" \in Sectors
  BY SectorsLemma
<1> QED
  BY <1>1 DEF RecordOK, Weaker, Excused

-----------------------------------------------------------------------------
LEMMA IInvInit == Init => IInv
<1> SUFFICES ASSUME Init PROVE IInv
  OBVIOUS
<1>1. DOMAIN flash = Sectors /\ flash["params"] = Blank("params")
  BY SectorsLemma DEF Init, OldFlash
<1>2. RecordOK
  BY <1>1, BlankLemma DEF Init, RecordOK
<1>3. ScriptOK
  BY DEF Init, ScriptOK, Writers
<1> QED
  BY <1>2, <1>3 DEF IInv, Init, AskedOK

(* The boot loader loads what the record orders, if it is a version.        *)
LEMMA BootKeeps ==
  ASSUME IInv, Boot
  PROVE  IInv'
<1>1. UNCHANGED <<local, asked, misled, torn>> /\ Weaker
  BY DEF Boot, askVars, Weaker
<1>2. /\ firmware' \in Versions
      /\ flash' = flash \/ flash' = [flash EXCEPT !["params"].update = FALSE]
  BY DEF Boot, IInv, RecordOK
<1>3. RecordOK'
  <2>1. CASE flash' = flash
    BY <1>1, <1>2, <2>1 DEF IInv, RecordOK, Excused
  <2>2. CASE flash' = [flash EXCEPT !["params"].update = FALSE]
    <3>1. /\ DOMAIN flash' = Sectors
          /\ flash'["params"] = [flash["params"] EXCEPT !.update = FALSE]
      BY <2>2, SectorsLemma DEF IInv, RecordOK
    <3>2. flash'["params"] \in Records /\ ~flash'["params"].update
      BY <3>1 DEF IInv, RecordOK, Records
    <3> QED
      BY <1>2, <3>1, <3>2 DEF RecordOK
  <2> QED
    BY <1>2, <2>1, <2>2
<1>4. ScriptOK'
  BY <1>1, EepromInitPlain, PlainKeeps DEF Boot, IInv, Writers
<1> QED
  BY <1>1, <1>3, <1>4 DEF IInv, AskedOK

(* What a restart cuts short may tear the record.                           *)
LEMMA CutShortKeeps ==
  ASSUME IInv, UNCHANGED <<firmware, askVars>>, CutShort \/ UNCHANGED <<flash, torn>>
  PROVE  RecordOK' /\ AskedOK'
<1>1. Weaker /\ AskedOK'
  <2>1. torn => torn'
    BY DEF CutShort
  <2> QED
    BY <2>1 DEF askVars, Weaker, IInv, AskedOK
<1>2. CASE flash' = flash
  BY <1>1, <1>2, RecordSame DEF IInv
<1>3. ASSUME NEW s, NEW v \in Junk(s), flash' = [flash EXCEPT ![s] = v],
             torn' = (torn \/ s = "params")
      PROVE  RecordOK'
  <2>1. s = "params" => v \in Records /\ Excused'
    BY <1>3, JunkLemma DEF Excused
  <2> QED
    BY <1>1, <1>3, <2>1, RecordWritten DEF IInv
<1> QED
  BY <1>1, <1>2, <1>3 DEF CutShort

LEMMA RestartKeeps ==
  ASSUME IInv, PowerFail \/ \E t \in Writers : Dicor_Reboot(t)
  PROVE  IInv'
<1>1. UNCHANGED <<firmware, askVars>> /\ (CutShort \/ UNCHANGED <<flash, torn>>)
  BY DEF PowerFail, Dicor_Reboot
<1>2. script' = [t \in Writers |-> <<>>]
  BY DEF PowerFail, Dicor_Reboot, Restart, Writers
<1> QED
  BY <1>1, <1>2, CutShortKeeps, ClearKeeps DEF IInv

(* EepromWrite, by one task.                                                *)
LEMMA QuietKeeps ==
  ASSUME IInv, UNCHANGED <<firmware, flash, script, askVars, torn>>
  PROVE  IInv'
<1>1. Weaker /\ local' = local
  BY DEF askVars, Weaker
<1> QED
  BY <1>1, RecordSame, SameKeeps DEF IInv, AskedOK, askVars

LEMMA NotEmpty ==
  ASSUME IInv, NEW t \in Writers, script[t] # <<>>
  PROVE  Head(script[t]) \in Steps /\ StepOK(Head(script[t]), asked, Excused)
  BY RestLemma DEF IInv, ScriptOK

LEMMA ProgramKeeps ==
  ASSUME IInv, NEW t \in Writers, Program(t)
  PROVE  IInv'
<1> DEFINE e == Head(script[t])
<1>1. /\ script[t] # <<>> /\ e.do = "write" /\ script' = Rest(t)
      /\ UNCHANGED <<firmware, local, asked, misled>>
      /\ torn' = (torn \/ (place[t] = "params" /\ e.at # "params"))
  BY DEF Program, Writing, Busy, askVars
<1>2. Weaker /\ AskedOK'
  BY <1>1 DEF Weaker, IInv, AskedOK
<1>3. PICK v \in IF place[t] = e.at THEN {New(e, cache[t])} ELSE Junk(place[t]) :
        flash' = [flash EXCEPT ![place[t]] = v]
  BY DEF Program
<1>4. ASSUME place[t] = "params"
      PROVE  v \in Records /\ (v.sig /\ v.update => v.file \in asked' \/ Excused')
  <2>1. CASE e.at = "params"
    <3>1. v = New(e, cache[t])
      BY <1>3, <1>4, <2>1
    <3>2. e.kind = "idle" \/ (/\ e.kind = "order" /\ e.val \in Orderable
                              /\ e.val \in asked \/ Excused)
      BY <1>1, <2>1, NotEmpty DEF StepOK
    <3>3. CASE e.kind = "idle"
      <4>1. v = [sig |-> TRUE, update |-> FALSE, file |-> firmware]
        BY <3>1, <3>3 DEF New
      <4> QED
        BY <4>1 DEF Records, Orderable, IInv, RecordOK
    <3>4. CASE e.kind = "order" /\ e.val \in Orderable /\ (e.val \in asked \/ Excused)
      <4>1. v = [sig |-> TRUE, update |-> TRUE, file |-> e.val]
        BY <3>1, <3>4 DEF New
      <4> QED
        BY <4>1, <3>4, <1>2 DEF Records, Weaker, Excused
    <3> QED
      BY <3>2, <3>3, <3>4
  <2>2. CASE e.at # "params"
    BY <1>1, <1>3, <1>4, <2>2, JunkLemma DEF Excused
  <2> QED
    BY <2>1, <2>2
<1>5. RecordOK'
  BY <1>1, <1>2, <1>3, <1>4, RecordWritten DEF IInv
<1>6. ScriptOK'
  BY <1>1, <1>2, RestKeeps DEF IInv
<1> QED
  BY <1>2, <1>5, <1>6 DEF IInv

LEMMA RewriteKeeps ==
  ASSUME IInv, NEW t \in Writers, Rewrite(t)
  PROVE  IInv'
<1>1. /\ UNCHANGED <<firmware, local, asked, misled, torn>>
      /\ script[t] # <<>> /\ Head(script[t]).do = "write"
  BY DEF Rewrite, Writing, Busy, askVars
<1>2. Weaker /\ AskedOK'
  BY <1>1 DEF Weaker, IInv, AskedOK
<1>3. CASE script' = Rest(t) /\ flash' = flash
  BY <1>1, <1>2, <1>3, RestKeeps, RecordSame DEF IInv
<1>4. ASSUME NEW s, flash' = [flash EXCEPT ![s] = Blank(s)], script' = script
      PROVE  IInv'
  BY <1>1, <1>2, <1>4, BlankLemma, RecordWritten, SameKeeps DEF IInv
<1> QED
  BY <1>3, <1>4 DEF Rewrite

LEMMA EepromWriteKeeps ==
  ASSUME IInv, NEW t \in Writers, EepromWrite(t)
  PROVE  IInv'
<1>1. CASE Open(t) \/ Seek(t)
  BY <1>1, QuietKeeps DEF Open, Seek, Race, histVars
<1>2. CASE Skip(t)
  <2>1. /\ script[t] # <<>> /\ Head(script[t]).do = "write" /\ script' = Rest(t)
        /\ UNCHANGED <<firmware, flash, local, asked, misled, torn>>
    BY <1>2 DEF Skip, Writing, Busy, askVars, histVars
  <2>2. Weaker
    BY <2>1 DEF Weaker
  <2> QED
    BY <2>1, <2>2, RestKeeps, RecordSame DEF IInv, AskedOK
<1> QED
  BY <1>1, <1>2, RewriteKeeps, ProgramKeeps DEF EepromWrite

(* Reading, erasing, and a register table that runs over.                   *)
LEMMA PeekKeeps ==
  ASSUME IInv, NEW t \in Writers, Peek(t)
  PROVE  IInv'
<1>1. /\ script[t] # <<>> /\ Head(script[t]).do = "peek" /\ script' = Rest(t)
      /\ UNCHANGED <<firmware, flash, local, asked, misled, torn>>
  BY DEF Peek, Busy, askVars, histVars
<1>2. Weaker
  BY <1>1 DEF Weaker
<1> QED
  BY <1>1, <1>2, RestKeeps, RecordSame DEF IInv, AskedOK

LEMMA EepromErasKeeps ==
  ASSUME IInv, NEW t \in Writers, EepromEras(t)
  PROVE  IInv'
<1> DEFINE s == Head(script[t]).at
<1>1. /\ script[t] # <<>> /\ Head(script[t]).do = "erase" /\ script' = Rest(t)
      /\ UNCHANGED <<firmware, local, asked, misled, torn>>
      /\ flash' = [flash EXCEPT ![s] = Blank(s)]
  BY DEF EepromEras, Busy, askVars, histVars
<1>2. Weaker
  BY <1>1 DEF Weaker
<1>3. RecordOK'
  BY <1>1, <1>2, BlankLemma, RecordWritten DEF IInv
<1> QED
  BY <1>1, <1>2, <1>3, RestKeeps DEF IInv, AskedOK

LEMMA RunsOverKeeps ==
  ASSUME IInv, NEW t \in Writers, RunsOver(t)
  PROVE  IInv'
<1> DEFINE e == Head(script[t])
           s == e.at
<1>1. /\ script[t] # <<>> /\ e.do = "overrun"
      /\ UNCHANGED <<firmware, local, asked, misled>>
  BY DEF RunsOver, Busy, askVars
<1>2. s \in Sectors /\ e \in Steps
  BY <1>1, NotEmpty DEF StepOK
<1>3. torn => torn'
  BY DEF RunsOver
<1>4. Weaker /\ AskedOK'
  BY <1>1, <1>3 DEF Weaker, IInv, AskedOK
<1>5. RecordOK'
  <2>1. CASE UNCHANGED <<flash, torn>>
    BY <1>1, <1>4, <2>1, RecordSame DEF IInv
  <2>2. ASSUME NEW v \in Junk(s), flash' = [flash EXCEPT ![s] = v],
               torn' = (torn \/ s = "params")
        PROVE  RecordOK'
    BY <1>1, <1>4, <2>2, JunkLemma, RecordWritten DEF IInv, Excused
  <2> QED
    BY <2>1, <2>2 DEF RunsOver
<1>6. ScriptOK'
  <2>1. <<Step("spin")>> \in Seq(Plain)
    BY StepPlain, OneStep
  <2>2. <<[e EXCEPT !.at = Following(s)]>> \in Seq(Plain)
    <3>1. [e EXCEPT !.at = Following(s)] \in Plain
      <4>1. Following(s) \in Sectors
        BY <1>2, FollowingLemma
      <4>2. [e EXCEPT !.at = Following(s)] \in Steps
        BY <1>2, <4>1 DEF Steps
      <4>3. /\ [e EXCEPT !.at = Following(s)].do = "overrun"
            /\ [e EXCEPT !.at = Following(s)].at \in Sectors
        BY <1>1, <1>2, <4>1 DEF Steps
      <4> QED
        BY <4>2, <4>3 DEF Plain
    <3> QED
      BY <3>1, OneStep
  <2>3. \/ script' = [script EXCEPT ![t] = <<Step("spin")>>]
        \/ script' = [script EXCEPT ![t] = <<[e EXCEPT !.at = Following(s)]>>]
    <3>1. script \in [Writers -> Seq(Steps)]
      BY DEF IInv, ScriptOK
    <3> QED
      BY <3>1 DEF RunsOver
  <2> QED
    BY <1>1, <1>4, <2>1, <2>2, <2>3, PlainKeeps DEF IInv
<1> QED
  BY <1>4, <1>5, <1>6 DEF IInv

-----------------------------------------------------------------------------
(* The commands.                                                            *)
LEMMA PlainCommandKeeps ==
  ASSUME IInv, NEW t \in Writers, NEW s \in Seq(Plain), Begins(t, s), UNCHANGED asked
  PROVE  IInv'
<1>1. /\ script' = [script EXCEPT ![t] = s]
      /\ UNCHANGED <<firmware, flash, local, asked, misled, torn>>
  BY DEF Begins
<1>2. Weaker
  BY <1>1 DEF Weaker
<1> QED
  BY <1>1, <1>2, PlainKeeps, RecordSame DEF IInv, AskedOK

LEMMA CommandKeeps ==
  ASSUME IInv, Command
  PROVE  IInv'
<1> USE DEF Writers
<1>1. ASSUME NEW b, NEW r, NEW c \in Contents, Begins("upload", Install(b, r, c)), UNCHANGED asked
      PROVE  IInv'
  BY <1>1, InstallPlain, PlainCommandKeeps
<1>2. ASSUME NEW c \in Contents, Begins("upload", EepromWriteCoodaddr(c)), UNCHANGED asked
      PROVE  IInv'
  BY <1>2, CoodPlain, PlainCommandKeeps
<1>3. ASSUME Begins("upload", <<Step("tftp"), Step("analyse")>>), UNCHANGED asked
      PROVE  IInv'
  <2> DEFINE s == <<Step("tftp"), Step("analyse")>>
  <2>1. /\ script' = [script EXCEPT !["upload"] = s]
        /\ UNCHANGED <<firmware, flash, local, asked, misled, torn>>
    BY <1>3 DEF Begins
  <2>2. Weaker
    BY <2>1 DEF Weaker
  <2>3. /\ Step("tftp") \in Steps /\ Step("analyse") \in Steps
        /\ Step("tftp").do = "tftp" /\ Step("analyse").do = "analyse"
    BY DEF Step, Steps
  <2>4. s \in Seq(Steps) /\ Len(s) = 2 /\ s[1] = Step("tftp") /\ s[2] = Step("analyse")
    BY <2>3, TwoSteps
  <2>5. ASSUME NEW i \in 1 .. Len(s)
        PROVE  /\ StepOK(s[i], asked', Excused')
               /\ s[i].do = "analyse" => i = 2
    <3>1. i = 1 \/ i = 2
      BY <2>4
    <3> QED
      BY <3>1, <2>3, <2>4 DEF StepOK
  <2>6. ScriptOK'
    <3> HIDE DEF s
    <3> QED
      BY <2>1, <2>2, <2>3, <2>4, <2>5, NewScriptKeeps DEF IInv
  <2> QED
    BY <2>1, <2>2, <2>6, RecordSame DEF IInv, AskedOK
<1> QED
  BY <1>1, <1>2, <1>3 DEF Command

LEMMA ShellKeeps ==
  ASSUME IInv, Shell
  PROVE  IInv'
<1> USE DEF Writers
<1>1. ASSUME NEW f, NEW c \in Contents, UNCHANGED asked,
             \/ Begins("shell", Wbaseconfig(f, c)) \/ Begins("shell", Wregtable(f, c))
             \/ Begins("shell", Wroutertable(f, c)) \/ Begins("shell", Wdidi_diantable(f, c))
      PROVE  IInv'
  BY <1>1, TablesPlain, PlainCommandKeeps
<1>2. ASSUME Begins("shell", SetField), UNCHANGED asked
      PROVE  IInv'
  BY <1>2, FieldPlain, PlainCommandKeeps
<1>3. ASSUME Begins("shell", <<Step("reboot")>>), UNCHANGED asked
      PROVE  IInv'
  BY <1>3, StepPlain, OneStep, PlainCommandKeeps
<1>4. ASSUME NEW v \in Versions, Begins("shell", UpgradeDiCor(v)), asked' = asked \cup {v}
      PROVE  IInv'
  <2>1. /\ script' = [script EXCEPT !["shell"] = UpgradeDiCor(v)]
        /\ UNCHANGED <<firmware, flash, local, misled, torn>>
    BY <1>4 DEF Begins
  <2>2. Weaker /\ v \in Orderable /\ v \in asked'
    BY <1>4, <2>1 DEF Weaker, Orderable
  <2>3. ScriptOK'
    BY <2>1, <2>2, UpdatesOrder, OrderKeeps DEF IInv
  <2> QED
    BY <1>4, <2>1, <2>2, <2>3, RecordSame DEF IInv, AskedOK
<1> QED
  BY <1>1, <1>2, <1>3, <1>4 DEF Shell

(* A download reports success when it was whole; when it reports one that    *)
(* it was not, misled says so.                                               *)
LEMMA TftpKeeps ==
  ASSUME IInv, Tftp
  PROVE  IInv'
<1> DEFINE s == script["upload"]
<1>1. /\ s # <<>> /\ s[1].do = "tftp"
      /\ UNCHANGED <<firmware, flash, torn>>
  BY DEF Tftp, Now, Busy, histVars
<1>2. Weaker /\ AskedOK'
  BY <1>1 DEF Tftp, Weaker, IInv, AskedOK
<1>3. script \in [Writers -> Seq(Steps)] /\ s \in Seq(Steps) /\ "upload" \in Writers
  BY DEF IInv, ScriptOK, Writers
<1>4. \/ script' = [script EXCEPT !["upload"] = Tail(s)] /\ Downloaded'
      \/ script' = [script EXCEPT !["upload"] = <<>>]
  <2>1. PICK got \in Versions \cup {"partial", "none"}, ok \in BOOLEAN :
               /\ local' = IF got = "none" THEN local ELSE got
               /\ script' = IF ok THEN Rest("upload") ELSE [script EXCEPT !["upload"] = <<>>]
               /\ misled' = (misled \/ (ok /\ got \notin Versions))
               /\ asked' = asked \cup ({got} \cap Versions)
    BY DEF Tftp
  <2>2. "none" \notin Versions
    BY ConfigAssumption
  <2> QED
    BY <2>1, <2>2 DEF Downloaded, Rest
<1>5. \A i \in 1 .. Len(s) : s[i].do = "analyse" => i = 2
  BY <1>1 DEF IInv, ScriptOK
<1>6. CASE script' = [script EXCEPT !["upload"] = Tail(s)] /\ Downloaded'
  <2>1. /\ script' \in [Writers -> Seq(Steps)] /\ script'["upload"] = Tail(s)
        /\ script'["shell"] = script["shell"]
    BY <1>1, <1>3, <1>6, RestLemma DEF Writers
  <2>2. /\ Len(script'["upload"]) = Len(s) - 1
        /\ \A i \in 1 .. Len(script'["upload"]) : /\ script'["upload"][i] = s[i + 1]
                                                   /\ i + 1 \in 1 .. Len(s) /\ i \in Nat
    BY <1>1, <1>3, <2>1, RestLemma
  <2>3. ASSUME NEW t \in Writers, NEW i \in 1 .. Len(script'[t])
        PROVE  StepOK(script'[t][i], asked', Excused')
    <3>1. StepOK(script'[t][i], asked, Excused)
      <4>1. CASE t = "upload"
        BY <2>2, <4>1 DEF IInv, ScriptOK, Writers
      <4>2. CASE t = "shell"
        BY <2>1, <4>2 DEF IInv, ScriptOK, Writers
      <4> QED
        BY <4>1, <4>2 DEF Writers
    <3> QED
      BY <1>2, <3>1, AllowedLemma
  <2>4. \A i \in 1 .. Len(script'["upload"]) : script'["upload"][i].do = "analyse" => i = 1
    BY <1>5, <2>2
  <2>5. ScriptOK'
    BY <1>6, <2>1, <2>3, <2>4 DEF IInv, ScriptOK
  <2> QED
    BY <1>1, <1>2, <2>5, RecordSame DEF IInv
<1>7. CASE script' = [script EXCEPT !["upload"] = <<>>]
  <2>1. ASSUME NEW t \in Writers, NEW i \in 1 .. Len(script'[t])
        PROVE  StepOK(script'[t][i], asked', Excused')
    <3>1. t = "shell"
      BY <1>3, <1>7, <2>1 DEF Writers
    <3>2. StepOK(script'[t][i], asked, Excused)
      BY <1>3, <1>7, <3>1 DEF IInv, ScriptOK, Writers
    <3> QED
      BY <1>2, <3>2, AllowedLemma
  <2>2. ScriptOK'
    BY <1>3, <1>7, <2>1 DEF IInv, ScriptOK, Writers
  <2> QED
    BY <1>1, <1>2, <2>2, RecordSame DEF IInv
<1> QED
  BY <1>4, <1>6, <1>7

(* The version file orders what was asked for, or a download misled.         *)
LEMMA AnalyseKeeps ==
  ASSUME IInv, Analyse
  PROVE  IInv'
<1>1. /\ script["upload"] # <<>> /\ Head(script["upload"]).do = "analyse"
      /\ UNCHANGED <<firmware, flash, local, asked, misled, torn>>
  BY DEF Analyse, Now, Busy, askVars, histVars
<1>2. Weaker
  BY <1>1 DEF Weaker
<1>3. local \in asked \/ misled
  <2>1. Head(script["upload"]) = script["upload"][1] /\ 1 \in 1 .. Len(script["upload"])
    BY <1>1, RestLemma DEF IInv, ScriptOK, Writers
  <2> QED
    BY <1>1, <2>1 DEF IInv, ScriptOK, Downloaded
<1>4. CASE \/ script' = [script EXCEPT !["upload"] = <<>>]
           \/ script' = [script EXCEPT !["upload"] = <<Step("spin")>>]
  <2>1. <<>> \in Seq(Plain) /\ <<Step("spin")>> \in Seq(Plain)
    BY StepPlain, OneStep
  <2>2. ScriptOK'
    BY <1>1, <1>2, <1>4, <2>1, PlainKeeps DEF IInv, Writers
  <2> QED
    BY <1>1, <1>2, <2>2, RecordSame DEF IInv, AskedOK
<1>5. ASSUME NEW v \in Orderable, v \in asked \/ misled,
             script' = [script EXCEPT !["upload"] = UpdateTo(v)]
      PROVE  IInv'
  <2>1. v \in asked' \/ Excused'
    BY <1>1, <1>5 DEF Excused
  <2>2. ScriptOK'
    BY <1>1, <1>2, <1>5, <2>1, UpdatesOrder, OrderKeeps DEF IInv, Writers
  <2> QED
    BY <1>1, <1>2, <2>2, RecordSame DEF IInv, AskedOK
<1>6. local = "partial" => misled
  BY <1>3, ConfigAssumption DEF IInv, AskedOK
<1> QED
  BY <1>3, <1>4, <1>5, <1>6 DEF Analyse, Orderable

-----------------------------------------------------------------------------
LEMMA NextKeeps ==
  ASSUME IInv, [Next]_vars
  PROVE  IInv'
<1>1. CASE UNCHANGED vars
  BY <1>1, QuietKeeps DEF vars, taskVars, histVars
<1>2. CASE Started
  BY <1>2, QuietKeeps DEF Started, taskVars, histVars
<1>3. ASSUME NEW t \in Writers,
             EepromWrite(t) \/ EepromEras(t) \/ Peek(t) \/ RunsOver(t) \/ Dicor_Reboot(t)
      PROVE  IInv'
  BY <1>3, EepromWriteKeeps, EepromErasKeeps, PeekKeeps, RunsOverKeeps, RestartKeeps
<1> QED
  BY <1>1, <1>2, <1>3, BootKeeps, RestartKeeps, CommandKeeps, ShellKeeps, TftpKeeps,
     AnalyseKeeps DEF Next, Writers

(* The boot loader is never ordered to load what nobody asked for, but for  *)
(* what a download that failed as a success, or a torn record, left there   *)
(* (eeprom.c, tftp.c, Dicor_upload.c).                                      *)
THEOREM AskedForCorrect == Spec => []AskedFor
<1>1. IInv => AskedFor
  BY DEF IInv, RecordOK, AskedFor, Excused
<1> QED
  BY <1>1, IInvInit, NextKeeps, PTL DEF Spec
-----------------------------------------------------------------------------
(***************************************************************************)
(* Soundness of the flash, and the tables installed.  Below, Good is what   *)
(* EepromInit leaves of the first sector or has still to write.             *)
(***************************************************************************)
Kinds(s) == CASE s = "base"   -> {"conf", "field", "first", "soft"}
              [] s = "params" -> {"idle", "order"}
              [] OTHER        -> {"table"}
Forms == {e \in Steps :
            /\ e.do = "write" => e.at \in Sectors /\ e.kind \in Kinds(e.at)
            /\ e.do # "write" => e.kind = "none"
            /\ e.kind \in {"conf", "table"} => e.val \in Contents
            /\ e.kind = "order" => e.val \in Orderable
            /\ e.do = "peek" => e.at \in Sectors
            /\ e.do = "erase" => e.at \in {"params", "cood"}
            /\ e.do = "overrun" => e.at \in {"index", "didi", "cood", "params"}
            /\ e.do = "reboot" => e.val \in Contents \cup {"none"}}

(* What decides the next step is the last of a script, the record erased is  *)
(* ordered next, and an 0x07 that counts as installed ends with a restart,   *)
(* writes one content and writes the configuration after the first repair.   *)
Wipes(e) == e.do = "erase" /\ e.at = "params"
Counts(e) == e.do = "reboot" /\ e.val # "none"
EndOK(s) == \A i, j \in 1 .. Len(s) :
              s[i].do \in {"overrun", "tftp", "analyse"} /\ i < j => s[j].kind = "none"
EraseOK(s) == \A i \in 1 .. Len(s) : Wipes(s[i]) => i + 1 \in 1 .. Len(s) /\ s[i + 1].kind = "order"
CountOK(s) == \A i, j \in 1 .. Len(s) :
                Counts(s[i]) => /\ i = Len(s)
                                /\ s[j].kind \in {"conf", "table"} => s[j].val = s[i].val
                                /\ s[j].kind = "first" =>
                                     \E k \in 1 .. Len(s) : j < k /\ s[k].kind = "conf"
Has(s, kind) == \E i \in 1 .. Len(s) : s[i].kind = kind
Form(s) == s \in Seq(Forms) /\ EndOK(s) /\ EraseOK(s) /\ CountOK(s)
FormOK ==
  /\ \A t \in Writers : Form(script[t])
  /\ \A i \in 1 .. Len(script["shell"]) : ~Counts(script["shell"][i])
  /\ ~Has(script["shell"], "first")

(* Between the steps of EepromWrite.                                        *)
Values(s) == CASE s = "base"   -> [head : BOOLEAN, soft : Versions \cup {"older", "blank", "junk"},
                                   conf : Contents \cup {"default", "blank", "junk"}]
               [] s = "params" -> Records
               [] OTHER        -> Contents \cup {"default", "blank", "junk"}
StageOK ==
  /\ phase \in {"boot", "init", "up"}
  /\ stage \in [Writers -> {"run", "opened", "sought", "erased"}]
  /\ place \in [Writers -> Sectors \cup {"none"}] /\ DOMAIN cache = Writers
  /\ \A t \in Writers : (stage[t] = "erased") = (place[t] # "none")
  /\ \A t \in Writers : stage[t] # "run" => script[t] # <<>> /\ Head(script[t]).do = "write"
  /\ \A t \in Writers : stage[t] = "erased" => stage[Other(t)] # "erased"
  /\ phase = "boot" => script["upload"] = <<>>
  /\ phase # "up" => script["shell"] = <<>>
ValuesOK ==
  /\ local \in Versions \cup {"none", "partial"}
  /\ \A s \in Sectors : flash[s] \in Values(s)
  /\ \A t \in Writers : place[t] # "none" => cache[t] \in Values(place[t])

(* A handle that was not replaced is the one its task opened, and stands     *)
(* where that task sought.                                                  *)
HandleOK ==
  /\ flash_hdl \in [by : Writers \cup {"none"}, at : Sectors, open : BOOLEAN]
  /\ raced \in BOOLEAN
  /\ ~raced => \A t \in Writers :
       /\ flash_hdl.by = t /\ stage[t] # "run" => flash_hdl.open
       /\ flash_hdl.by = t /\ stage[t] \in {"sought", "erased"}
            => flash_hdl.at = Head(script[t]).at
       /\ place[t] # "none" => place[t] = Head(script[t]).at

(* What the start has still to repair, and what it leaves.                  *)
Repairs(kind) == phase = "init" /\ Has(script["upload"], kind)
Good(b) == (b.head \/ Repairs("first")) /\ (b.soft = firmware \/ Repairs("soft"))
BaseOK ==
  ~raced /\ phase # "boot" =>
    /\ ~Rewriting("base") => Good(flash["base"])
    /\ \A t \in Writers : place[t] = "base" => Good(cache[t])
ParamsOK ==
  ~raced /\ ~overrun /\ phase # "boot" =>
    flash["params"].sig \/ Rewriting("params") \/ Ordering \/ Repairs("idle")

(* The tables of an 0x07 under way are in the flash or still to be written.  *)
Configured(c) ==
  /\ ~Rewriting("base") => flash["base"].conf = c
  /\ \A t \in Writers : place[t] = "base" => cache[t].conf = c
Plans(s, at) == \E i \in 1 .. Len(s) : s[i].do = "write" /\ s[i].at = at
                                       /\ s[i].kind \in {"conf", "table"}
Counting(s, c) == \E i \in 1 .. Len(s) : Counts(s[i]) /\ s[i].val = c
WholeOK ==
  ~raced /\ ~beside =>
    \A c : Counting(script["upload"], c) =>
      /\ ~Configures(script["shell"]) /\ phase = "up"
      /\ Plans(script["upload"], "base") \/ Configured(c)
      /\ Plans(script["upload"], "reg1") \/ flash["reg1"] = c
      /\ Plans(script["upload"], "reg2") \/ flash["reg2"] = c

(* What was installed is not being written; only the repair of a sector that *)
(* is just being rewritten may have been begun, and that is a race.          *)
InstalledOK ==
  installed # "none" =>
    /\ ~raced /\ \A t \in Writers : ~Configures(script[t])
    /\ Configured(installed) /\ flash["reg1"] = installed /\ flash["reg2"] = installed
    /\ ~Rewriting("base") => flash["base"].head
    /\ \A t \in Writers : place[t] = "base" => cache[t].head
    /\ \A t \in Writers : stage[t] # "run" /\ Head(script[t]).kind = "first"
                            => place[Other(t)] = "base" /\ Taken(Other(t))

Sane ==
  /\ FormOK /\ StageOK /\ ValuesOK /\ HandleOK
  /\ BaseOK /\ ParamsOK /\ WholeOK /\ InstalledOK
SInv == IInv /\ Sane
-----------------------------------------------------------------------------
(* Scripts, and what is left of them.                                       *)
LEMMA FormsSteps == Forms \subseteq Steps
  BY DEF Forms

LEMMA FormRest ==
  ASSUME NEW s, Form(s), s # <<>>
  PROVE  /\ s \in Seq(Steps) /\ Tail(s) \in Seq(Forms) /\ Head(s) \in Forms /\ Head(s) = s[1]
         /\ Len(s) \in Nat /\ Len(Tail(s)) = Len(s) - 1 /\ 1 \in 1 .. Len(s)
         /\ \A i \in 1 .. Len(s) - 1 : Tail(s)[i] = s[i + 1] /\ i + 1 \in 1 .. Len(s)
         /\ \A i \in 1 .. Len(s) : i # 1 => i - 1 \in 1 .. Len(s) - 1 /\ Tail(s)[i - 1] = s[i]
<1>1. s \in Seq(Forms) /\ s \in Seq(Steps)
  BY FormsSteps DEF Form
<1> QED
  BY <1>1, RestLemma

LEMMA TailForm == ASSUME NEW s, Form(s), s # <<>> PROVE Form(Tail(s))
<1> DEFINE r == Tail(s)
           n == Len(s)
<1>1. /\ n \in Nat /\ Len(r) = n - 1 /\ r \in Seq(Forms)
      /\ \A i \in 1 .. n - 1 : r[i] = s[i + 1] /\ i + 1 \in 1 .. n
      /\ \A i \in 1 .. n : i # 1 => i - 1 \in 1 .. n - 1 /\ r[i - 1] = s[i]
  BY FormRest
<1> HIDE DEF r, n
<1>2. EndOK(s) /\ EraseOK(s) /\ CountOK(s) /\ n = Len(s)
  BY DEF Form, n
<1>3. EndOK(r)
  <2> SUFFICES ASSUME NEW i \in 1 .. Len(r), NEW j \in 1 .. Len(r), i < j,
                      r[i].do \in {"overrun", "tftp", "analyse"}
               PROVE  r[j].kind = "none"
    BY DEF EndOK
  <2>1. i \in 1 .. n - 1 /\ j \in 1 .. n - 1
    BY <1>1
  <2>2. /\ i + 1 \in 1 .. n /\ j + 1 \in 1 .. n
        /\ r[i] = s[i + 1] /\ r[j] = s[j + 1]
    BY <1>1, <2>1
  <2>3. i + 1 < j + 1
    BY <1>1, <2>1
  <2> QED
    BY <1>2, <2>2, <2>3 DEF EndOK
<1>4. EraseOK(r)
  <2> SUFFICES ASSUME NEW i \in 1 .. Len(r), Wipes(r[i])
               PROVE  i + 1 \in 1 .. Len(r) /\ r[i + 1].kind = "order"
    BY DEF EraseOK
  <2>1. i + 1 \in 1 .. n /\ r[i] = s[i + 1] /\ i \in 1 .. n - 1
    BY <1>1
  <2>2. i + 2 \in 1 .. n /\ s[i + 2].kind = "order"
    <3>1. (i + 1) + 1 \in 1 .. n /\ s[(i + 1) + 1].kind = "order"
      BY <1>2, <2>1 DEF EraseOK
    <3>2. (i + 1) + 1 = i + 2
      BY <2>1
    <3> QED
      BY <3>1, <3>2
  <2>3. i + 1 \in 1 .. n - 1 /\ (i + 1) + 1 = i + 2
    BY <1>1, <2>1, <2>2
  <2>4. r[i + 1] = s[i + 2]
    BY <1>1, <2>3
  <2> QED
    BY <1>1, <2>2, <2>3, <2>4
<1>5. CountOK(r)
  <2> SUFFICES ASSUME NEW i \in 1 .. Len(r), NEW j \in 1 .. Len(r), Counts(r[i])
               PROVE  /\ i = Len(r)
                      /\ r[j].kind \in {"conf", "table"} => r[j].val = r[i].val
                      /\ r[j].kind = "first" => \E k \in 1 .. Len(r) : j < k /\ r[k].kind = "conf"
    BY DEF CountOK
  <2>1. /\ i + 1 \in 1 .. n /\ j + 1 \in 1 .. n /\ i \in Nat /\ j \in Nat
        /\ r[i] = s[i + 1] /\ r[j] = s[j + 1]
    BY <1>1
  <2>2. /\ i + 1 = n
        /\ s[j + 1].kind \in {"conf", "table"} => s[j + 1].val = s[i + 1].val
        /\ s[j + 1].kind = "first" => \E k \in 1 .. n : j + 1 < k /\ s[k].kind = "conf"
    BY <1>2, <2>1 DEF CountOK
  <2>3. ASSUME NEW k \in 1 .. n, j + 1 < k, s[k].kind = "conf"
        PROVE  \E m \in 1 .. Len(r) : j < m /\ r[m].kind = "conf"
    <3>1. k # 1
      BY <2>1, <2>3
    <3>2. k - 1 \in 1 .. Len(r) /\ r[k - 1] = s[k]
      BY <1>1, <3>1
    <3>3. j < k - 1
      BY <2>1, <2>3
    <3> QED
      BY <2>3, <3>2, <3>3
  <2> QED
    BY <1>1, <2>1, <2>2, <2>3
<1> QED
  BY <1>1, <1>3, <1>4, <1>5 DEF Form, r

(* What is still to come when the first step is taken off.                  *)
LEMMA HasRest ==
  ASSUME NEW s, Form(s), s # <<>>, NEW k
  PROVE  /\ Has(s, k) => Head(s).kind = k \/ Has(Tail(s), k)
         /\ Has(Tail(s), k) => Has(s, k)
         /\ Head(s).kind = k => Has(s, k)
<1> HIDE DEF Form
<1> QED
  BY FormRest DEF Has

LEMMA EndsRest ==
  ASSUME NEW s, Form(s), s # <<>>, NEW k, k # "none",
         Head(s).do \in {"overrun", "tftp", "analyse"}
  PROVE  ~Has(s, k)
<1>1. Head(s).kind = "none"
  BY FormRest DEF Forms
<1>2. \A i \in 1 .. Len(s) : 1 < i => s[i].kind = "none"
  BY FormRest DEF Form, EndOK
<1>3. Len(s) \in Nat
  BY FormRest
<1>4. \A i \in 1 .. Len(s) : i = 1 \/ 1 < i
  BY <1>3
<1> QED
  BY <1>1, <1>2, <1>4, FormRest DEF Has

LEMMA WipesRest ==
  ASSUME NEW s, Form(s), s # <<>>, Wipes(Head(s))
  PROVE  Has(Tail(s), "order")
<1>1. 1 + 1 \in 1 .. Len(s) /\ s[1 + 1].kind = "order"
  BY FormRest DEF Form, EraseOK
<1>2. 1 \in 1 .. Len(s) - 1
  BY <1>1, FormRest
<1> QED
  BY <1>1, <1>2, FormRest DEF Has

LEMMA ConfiguresRest ==
  ASSUME NEW s, Form(s), s # <<>>, ~Configures(s)
  PROVE  /\ ~Configures(Tail(s))
         /\ ~(/\ Head(s).do \in {"write", "overrun"} /\ Head(s).kind \in {"table", "conf", "none"}
              /\ Head(s).at \in {"base", "reg1", "reg2"})
<1> DEFINE C(e) == /\ e.do \in {"write", "overrun"} /\ e.kind \in {"table", "conf", "none"}
                   /\ e.at \in {"base", "reg1", "reg2"}
<1>1. s \in Seq(Forms) /\ Tail(s) \in Seq(Forms)
  BY FormRest
<1>2. DOMAIN s = 1 .. Len(s) /\ DOMAIN Tail(s) = 1 .. Len(Tail(s))
  BY <1>1
<1>3. /\ Configures(s) = \E i \in DOMAIN s : C(s[i])
      /\ Configures(Tail(s)) = \E i \in DOMAIN Tail(s) : C(Tail(s)[i])
  BY DEF Configures
<1>4. \A i \in 1 .. Len(s) : ~C(s[i])
  BY <1>2, <1>3
<1> HIDE DEF C
<1>5. ~C(Head(s))
  BY <1>4, FormRest
<1>6. \A i \in 1 .. Len(s) - 1 : Tail(s)[i] = s[i + 1] /\ i + 1 \in 1 .. Len(s)
  BY FormRest
<1>7. Len(Tail(s)) = Len(s) - 1
  BY FormRest
<1>8. \A i \in DOMAIN Tail(s) : ~C(Tail(s)[i])
  BY <1>2, <1>4, <1>6, <1>7
<1> QED
  BY <1>3, <1>5, <1>8 DEF C

-----------------------------------------------------------------------------
(* The scripts of the commands have this form.                              *)
Ends == {"overrun", "tftp", "analyse"}
Early == {e \in Forms : e.do \notin Ends /\ ~Wipes(e) /\ ~Counts(e)}
EarlyOf(c) == {e \in Early : e.kind \in {"conf", "table"} => e.val = c}

LEMMA WritesForm ==
  ASSUME NEW s \in Sectors, NEW k \in Kinds(s), NEW v \in Orderable \cup Contents \cup {"none"},
         k \in {"conf", "table"} => v \in Contents, k = "order" => v \in Orderable
  PROVE  /\ Write(s, k, v) \in Early /\ Write(s, k, v).kind = k
         /\ Write(s, k, v).val = v /\ Write(s, k, v).do = "write"
<1>1. k \in {"table", "conf", "field", "first", "soft", "idle", "order", "none"}
  BY DEF Kinds
<1>2. Write(s, k, v) \in Forms
  BY <1>1 DEF Write, Forms, Steps
<1> QED
  BY <1>2 DEF Write, Early, Ends, Wipes, Counts

LEMMA OthersForm ==
  ASSUME NEW s \in Sectors, NEW v \in Contents \cup {"none"}, NEW n \in {"spin", "reboot"}
  PROVE  /\ [Step("peek") EXCEPT !.at = s] \in Early /\ [Step("peek") EXCEPT !.at = s].kind = "none"
         /\ Step(n) \in Early /\ Step(n).kind = "none"
         /\ EraseCood \in Early /\ EraseCood.kind = "none"
         /\ Erase \in Forms /\ Wipes(Erase) /\ Erase.kind = "none" /\ Erase.do = "erase"
         /\ Step("tftp") \in Forms /\ Step("tftp").kind = "none" /\ Step("tftp").do = "tftp"
         /\ Step("analyse") \in Forms /\ Step("analyse").kind = "none"
         /\ Step("analyse").do = "analyse"
  BY SectorsLemma DEF Step, Erase, EraseCood, Early, Ends, Forms, Steps, Wipes, Counts

LEMMA OverrunForm ==
  ASSUME NEW s \in {"index", "didi", "cood", "params"}, NEW v \in Contents
  PROVE  [do |-> "overrun", at |-> s, kind |-> "none", val |-> v] \in Forms
  BY SectorsLemma DEF Forms, Steps

LEMMA RebootForm ==
  ASSUME NEW c \in Contents \cup {"none"}
  PROVE  LET e == [Step("reboot") EXCEPT !.val = c]
         IN e \in Forms /\ e.kind = "none" /\ e.do = "reboot" /\ e.val = c
  BY DEF Step, Forms, Steps

(* Nothing decides the next step before the last, nothing erases the record. *)
LEMMA SimpleForm ==
  ASSUME NEW s \in Seq(Forms),
         \A i \in 1 .. Len(s) : ~Wipes(s[i]) /\ ~Counts(s[i]) /\ (s[i].do \in Ends => i = Len(s))
  PROVE  Form(s)
<1>1. EndOK(s)
  <2>1. \A i, j \in 1 .. Len(s) : i < j => i # Len(s)
    OBVIOUS
  <2> QED
    BY <2>1 DEF EndOK, Ends
<1> QED
  BY <1>1 DEF Form, EraseOK, CountOK

LEMMA EarlyForm == ASSUME NEW s \in Seq(Early) PROVE Form(s)
<1>1. s \in Seq(Forms) /\ \A i \in 1 .. Len(s) : s[i] \in Early
  BY DEF Early
<1> QED
  BY <1>1, SimpleForm DEF Early

(* One last step, which may be the restart of an 0x07 that counts.          *)
LEMMA LastForm ==
  ASSUME NEW p \in Seq(Forms), NEW e \in Forms, e.kind = "none", ~Wipes(e),
         \A i \in 1 .. Len(p) : ~Wipes(p[i]) /\ ~Counts(p[i]) /\ (p[i].do \in Ends => i = Len(p)),
         Counts(e) => \A i \in 1 .. Len(p) :
           /\ p[i].kind \in {"conf", "table"} => p[i].val = e.val
           /\ p[i].kind = "first" => \E k \in 1 .. Len(p) : i < k /\ p[k].kind = "conf"
  PROVE  Form(p \o <<e>>)
<1> DEFINE s == p \o <<e>>
           n == Len(p)
<1>1. /\ n \in Nat /\ Len(s) = n + 1 /\ s[n + 1] = e /\ s \in Seq(Forms)
      /\ \A i \in 1 .. n : s[i] = p[i]
  OBVIOUS
<1> HIDE DEF s
<1>2. \A i \in 1 .. n + 1 : i \in 1 .. n \/ i = n + 1
  BY <1>1
<1>3. \A i \in 1 .. n : i \in 1 .. n + 1 /\ i # n + 1
  BY <1>1
<1>4. EndOK(s)
  <2> SUFFICES ASSUME NEW i \in 1 .. n + 1, NEW j \in 1 .. n + 1, i < j, s[i].do \in Ends
               PROVE  s[j].kind = "none"
    BY <1>1 DEF EndOK, Ends
  <2>1. i \in 1 .. n
    BY <1>1
  <2>2. i = n
    BY <1>1, <2>1
  <2>3. j = n + 1
    BY <1>1, <2>2
  <2> QED
    BY <1>1, <2>3
<1>5. EraseOK(s)
  BY <1>1, <1>2 DEF EraseOK
<1>6. CountOK(s)
  <2> SUFFICES ASSUME NEW i \in 1 .. n + 1, NEW j \in 1 .. n + 1, Counts(s[i])
               PROVE  /\ i = n + 1
                      /\ s[j].kind \in {"conf", "table"} => s[j].val = s[i].val
                      /\ s[j].kind = "first" => \E k \in 1 .. n + 1 : j < k /\ s[k].kind = "conf"
    BY <1>1 DEF CountOK
  <2>1. i = n + 1
    BY <1>1, <1>2
  <2>2. Counts(e) /\ s[i] = e
    BY <1>1, <2>1
  <2>3. CASE j = n + 1
    BY <1>1, <2>1, <2>3
  <2>4. CASE j \in 1 .. n
    <3>1. s[j] = p[j]
      BY <1>1, <2>4
    <3>2. /\ p[j].kind \in {"conf", "table"} => p[j].val = e.val
          /\ p[j].kind = "first" => \E k \in 1 .. n : j < k /\ p[k].kind = "conf"
      BY <2>2, <2>4
    <3>3. ASSUME NEW k \in 1 .. n, j < k, p[k].kind = "conf"
          PROVE  \E m \in 1 .. n + 1 : j < m /\ s[m].kind = "conf"
      <4>1. k \in 1 .. n + 1 /\ s[k] = p[k]
        BY <1>1, <1>3
      <4> QED
        BY <3>3, <4>1
    <3> QED
      BY <2>1, <2>2, <3>1, <3>2, <3>3
  <2> QED
    BY <1>2, <2>3, <2>4
<1> QED
  BY <1>1, <1>4, <1>5, <1>6 DEF Form, s

LEMMA InitEarly ==
  /\ EepromInit \in Seq(Early) /\ Len(EepromInit) = 4
  /\ \A c : EepromInit \in Seq(EarlyOf(c))
  /\ Has(EepromInit, "first") /\ Has(EepromInit, "soft") /\ Has(EepromInit, "idle")
<1> DEFINE e1 == [Step("peek") EXCEPT !.at = "base"]
           e2 == Write("base", "first", "none")
           e3 == Write("base", "soft", "none")
           e4 == Write("params", "idle", "none")
<1>1. /\ e1 \in Early /\ e2 \in Early /\ e3 \in Early /\ e4 \in Early
      /\ e1.kind = "none" /\ e2.kind = "first" /\ e3.kind = "soft" /\ e4.kind = "idle"
  <2>1. "first" \in Kinds("base") /\ "soft" \in Kinds("base") /\ "idle" \in Kinds("params")
    BY DEF Kinds
  <2> QED
    BY <2>1, WritesForm, OthersForm, SectorsLemma
<1>2. EepromInit = <<e1, e2, e3, e4>>
  BY DEF EepromInit
<1> HIDE DEF e1, e2, e3, e4
<1>3. \A c : e1 \in EarlyOf(c) /\ e2 \in EarlyOf(c) /\ e3 \in EarlyOf(c) /\ e4 \in EarlyOf(c)
  BY <1>1 DEF EarlyOf
<1>4. EepromInit \in Seq(Early) /\ \A c : EepromInit \in Seq(EarlyOf(c))
  BY <1>1, <1>2, <1>3, FourSteps
<1>5. /\ Len(EepromInit) = 4 /\ EepromInit[2] = e2 /\ EepromInit[3] = e3 /\ EepromInit[4] = e4
      /\ 2 \in 1 .. 4 /\ 3 \in 1 .. 4 /\ 4 \in 1 .. 4
  BY <1>2
<1> QED
  BY <1>1, <1>4, <1>5 DEF Has

LEMMA TableWrites ==
  ASSUME NEW c \in Contents
  PROVE  /\ \A s \in {"reg1", "reg2", "router", "index", "didi", "cood"} :
              Write(s, "table", c) \in EarlyOf(c) /\ Write(s, "table", c) \in Early
         /\ Write("base", "conf", c) \in EarlyOf(c) /\ Write("base", "conf", c) \in Early
<1>1. /\ \A s \in {"reg1", "reg2", "router", "index", "didi", "cood"} :
           s \in Sectors /\ "table" \in Kinds(s)
      /\ "base" \in Sectors /\ "conf" \in Kinds("base")
  BY SectorsLemma DEF Kinds
<1> QED
  BY <1>1, WritesForm DEF EarlyOf

LEMMA BaseconfigForm ==
  ASSUME NEW file, NEW c \in Contents
  PROVE  /\ Wbaseconfig(file, c) \in Seq(EarlyOf(c)) /\ Wbaseconfig(file, c) \in Seq(Early)
         /\ file = "good" => /\ Len(Wbaseconfig(file, c)) = 1
                             /\ Wbaseconfig(file, c)[1] = Write("base", "conf", c)
  BY TableWrites, OneStep DEF Wbaseconfig

LEMMA RegtableForm ==
  ASSUME NEW file, NEW c \in Contents
  PROVE  LET s == Wregtable(file, c)
         IN /\ s \in Seq(Forms) /\ Form(s)
            /\ \A i \in 1 .. Len(s) : ~Wipes(s[i]) /\ ~Counts(s[i]) /\ (s[i].do \in Ends => i = Len(s))
            /\ file # "endless" => s \in Seq(EarlyOf(c))
            /\ file = "good" => /\ Len(s) = 2 /\ s[1] = Write("reg1", "table", c)
                                /\ s[2] = Write("reg2", "table", c)
<1> DEFINE s == Wregtable(file, c)
           a == Write("reg1", "table", c)
           b == Write("reg2", "table", c)
           d == [do |-> "overrun", at |-> "index", kind |-> "none", val |-> c]
<1>1. a \in EarlyOf(c) /\ b \in EarlyOf(c) /\ d \in Forms
  BY TableWrites, OverrunForm
<1>2. ~Wipes(d) /\ ~Counts(d)
  BY DEF Wipes, Counts
<1>3. s = (CASE file = "good" -> <<a, b>> [] file = "endless" -> <<a, b, d>> [] OTHER -> <<>>)
  BY DEF Wregtable
<1> HIDE DEF s, a, b, d
<1>4. /\ a \in Early /\ b \in Early /\ Early \subseteq Forms
      /\ \A e \in Early : e.do \notin Ends /\ ~Wipes(e) /\ ~Counts(e)
  BY <1>1 DEF EarlyOf, Early
<1>5. CASE file = "good"
  <2>1. s = <<a, b>>
    BY <1>3, <1>5
  <2>2. s \in Seq(EarlyOf(c)) /\ s \in Seq(Early) /\ s \in Seq(Forms)
    BY <1>1, <1>4, <2>1
  <2>3. Len(s) = 2 /\ s[1] = a /\ s[2] = b
    BY <2>1
  <2>4. \A i \in 1 .. Len(s) : s[i] \in Early
    BY <2>2
  <2> QED
    BY <1>4, <2>2, <2>3, <2>4, EarlyForm, <1>5 DEF s, a, b
<1>6. CASE file = "endless"
  <2>1. s = <<a, b, d>>
    BY <1>3, <1>6
  <2>2. s \in Seq(Forms)
    BY <1>1, <1>4, <2>1
  <2>3. Len(s) = 3 /\ s[1] = a /\ s[2] = b /\ s[3] = d
    BY <2>1
  <2>4. ASSUME NEW i \in 1 .. Len(s)
        PROVE  ~Wipes(s[i]) /\ ~Counts(s[i]) /\ (s[i].do \in Ends => i = Len(s))
    <3>1. i = 1 \/ i = 2 \/ i = 3
      BY <2>3
    <3> QED
      BY <1>2, <1>4, <2>3, <3>1
  <2> QED
    BY <1>6, <2>2, <2>4, SimpleForm DEF s, a, b
<1>7. CASE file \notin {"good", "endless"}
  <2>1. s = <<>>
    BY <1>3, <1>7
  <2>2. s \in Seq(EarlyOf(c)) /\ s \in Seq(Early) /\ s \in Seq(Forms) /\ Len(s) = 0
    BY <2>1
  <2>3. \A i \in 1 .. Len(s) : FALSE
    BY <2>2
  <2> QED
    BY <1>7, <2>2, <2>3, EarlyForm DEF s, a, b
<1> QED
  BY <1>5, <1>6, <1>7

LEMMA TablesForm ==
  ASSUME NEW file, NEW c \in Contents
  PROVE  /\ Wroutertable(file, c) \in Seq(Early) /\ Wdidi_diantable(file, c) \in Seq(Early)
         /\ EepromWriteCoodaddr(c) \in Seq(Early) /\ SetField \in Seq(Early)
         /\ <<Step("reboot")>> \in Seq(Early) /\ <<Step("spin")>> \in Seq(Early)
         /\ <<>> \in Seq(Early)
<1>1. /\ Write("router", "table", c) \in Early /\ Write("index", "table", c) \in Early
      /\ Write("didi", "table", c) \in Early /\ Write("cood", "table", c) \in Early
  BY TableWrites
<1>2. /\ Step("spin") \in Early /\ Step("reboot") \in Early
      /\ [Step("peek") EXCEPT !.at = "cood"] \in Early /\ EraseCood \in Early
  BY OthersForm, SectorsLemma
<1>3. Write("base", "field", "none") \in Early
  <2>1. "base" \in Sectors /\ "field" \in Kinds("base")
    BY SectorsLemma DEF Kinds
  <2> QED
    BY <2>1, WritesForm
<1>4. <<>> \in Seq(Early) /\ <<Step("spin")>> \in Seq(Early) /\ <<Step("reboot")>> \in Seq(Early)
  BY <1>2, OneStep
<1>5. Wroutertable(file, c) \in Seq(Early)
  BY <1>1, <1>4, OneStep DEF Wroutertable
<1>6. Wdidi_diantable(file, c) \in Seq(Early)
  BY <1>1, <1>4, TwoSteps DEF Wdidi_diantable
<1>7. EepromWriteCoodaddr(c) \in Seq(Early)
  BY <1>1, <1>2, FourSteps DEF EepromWriteCoodaddr
<1>8. SetField \in Seq(Early)
  BY <1>3, OneStep DEF SetField
<1> QED
  BY <1>4, <1>5, <1>6, <1>7, <1>8

LEMMA NoCounts ==
  ASSUME NEW s \in Seq(Early) PROVE \A i \in 1 .. Len(s) : ~Counts(s[i])
<1>1. \A i \in 1 .. Len(s) : s[i] \in Early
  OBVIOUS
<1> QED
  BY <1>1 DEF Early

LEMMA UpdatesForm ==
  ASSUME NEW v \in Orderable
  PROVE  /\ Form(UpgradeDiCor(v)) /\ Form(UpdateTo(v))
         /\ \A i \in 1 .. Len(UpgradeDiCor(v)) : ~Counts(UpgradeDiCor(v)[i])
         /\ \A i \in 1 .. Len(UpdateTo(v)) : ~Counts(UpdateTo(v)[i])
<1> DEFINE w == Write("params", "order", v)
           b == Step("reboot")
<1>1. w \in Early /\ w.kind = "order" /\ w.do = "write"
  <2>1. "params" \in Sectors /\ "order" \in Kinds("params")
    BY SectorsLemma DEF Kinds
  <2> QED
    BY <2>1, WritesForm
<1>2. b \in Early /\ Erase \in Forms /\ Wipes(Erase) /\ Erase.do = "erase"
  BY OthersForm, SectorsLemma
<1>3. UpgradeDiCor(v) = <<w, b>> /\ UpdateTo(v) = <<Erase, w, b>>
  BY DEF UpgradeDiCor, UpdateTo
<1> HIDE DEF w, b
<1>4. UpgradeDiCor(v) \in Seq(Early)
  BY <1>1, <1>2, <1>3, TwoSteps
<1>5. \A e \in Early : e \in Forms /\ e.do \notin Ends /\ ~Wipes(e) /\ ~Counts(e)
  BY DEF Early
<1> DEFINE s == UpdateTo(v)
<1>6. s \in Seq(Forms) /\ Len(s) = 3 /\ s[1] = Erase /\ s[2] = w /\ s[3] = b
  BY <1>1, <1>2, <1>3, <1>5
<1>7. \A i \in 1 .. 3 : i = 1 \/ i = 2 \/ i = 3
  OBVIOUS
<1>8. ~Counts(Erase) /\ Erase.do \notin Ends
  BY <1>2 DEF Counts, Ends
<1> HIDE DEF s
<1>9. \A i \in 1 .. Len(s) : ~Counts(s[i]) /\ s[i].do \notin Ends
  BY <1>1, <1>2, <1>5, <1>6, <1>7, <1>8
<1>10. EraseOK(s)
  <2> SUFFICES ASSUME NEW i \in 1 .. Len(s), Wipes(s[i])
               PROVE  i + 1 \in 1 .. Len(s) /\ s[i + 1].kind = "order"
    BY DEF EraseOK
  <2>1. i = 1
    BY <1>1, <1>2, <1>5, <1>6, <1>7
  <2> QED
    BY <1>1, <1>6, <2>1
<1> QED
  BY <1>4, <1>6, <1>9, <1>10, EarlyForm, NoCounts DEF Form, EndOK, CountOK, Ends, s

LEMMA DownloadForm ==
  LET s == <<Step("tftp"), Step("analyse")>>
  IN Form(s) /\ \A i \in 1 .. Len(s) : ~Counts(s[i])
<1> DEFINE a == Step("tftp")
           b == Step("analyse")
           s == <<a, b>>
<1>1. /\ a \in Forms /\ a.kind = "none" /\ a.do = "tftp"
      /\ b \in Forms /\ b.kind = "none" /\ b.do = "analyse"
  BY OthersForm, SectorsLemma
<1> HIDE DEF a, b
<1>2. s \in Seq(Forms) /\ Len(s) = 2 /\ s[1] = a /\ s[2] = b
  BY <1>1
<1>3. \A i \in 1 .. Len(s) : s[i].kind = "none" /\ ~Wipes(s[i]) /\ ~Counts(s[i])
  <2>1. \A i \in 1 .. Len(s) : i = 1 \/ i = 2
    BY <1>2
  <2> QED
    BY <1>1, <1>2, <2>1 DEF Wipes, Counts
<1> HIDE DEF s
<1>4. Form(s)
  BY <1>2, <1>3 DEF Form, EndOK, EraseOK, CountOK
<1> QED
  BY <1>3, <1>4 DEF s, a, b

LEMMA InstallForm ==
  ASSUME NEW b, NEW r, NEW c \in Contents
  PROVE  LET s == Install(b, r, c)
         IN /\ Form(s)
            /\ \A i \in 1 .. Len(s) : Counts(s[i]) =>
                 /\ s[i].val = c /\ Configures(s)
                 /\ Plans(s, "base") /\ Plans(s, "reg1") /\ Plans(s, "reg2")
<1> DEFINE v == IF b = "good" /\ r = "good" THEN c ELSE "none"
           e == [Step("reboot") EXCEPT !.val = v]
           w == Wbaseconfig(b, c)
           g == Wregtable(r, c)
           h == EepromInit \o w
           p == h \o g
           s == p \o <<e>>
           whole == b = "good" /\ r = "good"
<1>1. e \in Forms /\ e.kind = "none" /\ e.do = "reboot" /\ e.val = v /\ ~Wipes(e)
  BY RebootForm DEF Wipes
<1>2. Counts(e) => whole
  BY <1>1 DEF Counts
<1>3. s = Install(b, r, c)
  BY DEF Install
<1> HIDE DEF e
<1>4. /\ EepromInit \in Seq(EarlyOf(c)) /\ Len(EepromInit) = 4 /\ w \in Seq(EarlyOf(c))
      /\ b = "good" => Len(w) = 1 /\ w[1] = Write("base", "conf", c)
  BY InitEarly, BaseconfigForm
<1>5. /\ g \in Seq(Forms)
      /\ \A i \in 1 .. Len(g) : ~Wipes(g[i]) /\ ~Counts(g[i]) /\ (g[i].do \in Ends => i = Len(g))
      /\ r # "endless" => g \in Seq(EarlyOf(c))
      /\ r = "good" => /\ Len(g) = 2 /\ g[1] = Write("reg1", "table", c)
                       /\ g[2] = Write("reg2", "table", c)
  BY RegtableForm
<1> HIDE DEF w, g
<1>6. /\ EarlyOf(c) \subseteq Forms
      /\ \A d \in EarlyOf(c) : d.do \notin Ends /\ ~Wipes(d) /\ ~Counts(d)
      /\ \A d \in EarlyOf(c) : d.kind \in {"conf", "table"} => d.val = c
  BY DEF EarlyOf, Early
<1>7. /\ h \in Seq(EarlyOf(c)) /\ h \in Seq(Forms) /\ Len(h) = 4 + Len(w) /\ Len(w) \in Nat
      /\ \A i \in 1 .. Len(w) : h[4 + i] = w[i]
  <2>0. EepromInit \in Seq(EarlyOf(c)) /\ w \in Seq(EarlyOf(c))
    BY <1>4
  <2>1. /\ h \in Seq(EarlyOf(c)) /\ Len(h) = Len(EepromInit) + Len(w) /\ Len(w) \in Nat
        /\ \A i \in 1 .. Len(w) : h[Len(EepromInit) + i] = w[i]
    BY <2>0
  <2> QED
    BY <1>4, <1>6, <2>1
<1> HIDE DEF h
<1>8. \A i \in 1 .. Len(h) : h[i] \in EarlyOf(c)
  BY <1>7
<1>9. /\ p \in Seq(Forms) /\ Len(p) = Len(h) + Len(g) /\ Len(h) \in Nat /\ Len(g) \in Nat
      /\ \A i \in 1 .. Len(h) : p[i] = h[i]
      /\ \A i \in 1 .. Len(g) : p[Len(h) + i] = g[i]
      /\ \A i \in 1 .. Len(p) :
           \/ i \in 1 .. Len(h) /\ p[i] = h[i]
           \/ i - Len(h) \in 1 .. Len(g) /\ i > Len(h) /\ p[i] = g[i - Len(h)]
  <2>1. h \in Seq(Forms) /\ g \in Seq(Forms)
    BY <1>5, <1>7
  <2> QED
    BY <2>1
<1>10. r # "endless" => p \in Seq(EarlyOf(c))
  BY <1>5, <1>7, Joined
<1> HIDE DEF p
<1>11. \A i \in 1 .. Len(p) : ~Wipes(p[i]) /\ ~Counts(p[i]) /\ (p[i].do \in Ends => i = Len(p))
  <2> SUFFICES ASSUME NEW i \in 1 .. Len(p)
               PROVE  ~Wipes(p[i]) /\ ~Counts(p[i]) /\ (p[i].do \in Ends => i = Len(p))
    OBVIOUS
  <2>1. CASE i \in 1 .. Len(h) /\ p[i] = h[i]
    BY <1>6, <1>8, <2>1
  <2>2. CASE i - Len(h) \in 1 .. Len(g) /\ i > Len(h) /\ p[i] = g[i - Len(h)]
    <3>1. PICK j \in 1 .. Len(g) : j = i - Len(h)
      BY <2>2
    <3>2. i = Len(h) + j
      BY <1>9, <3>1
    <3>3. ~Wipes(g[j]) /\ ~Counts(g[j]) /\ (g[j].do \in Ends => j = Len(g))
      BY <1>5
    <3> QED
      BY <1>9, <2>2, <3>1, <3>2, <3>3
  <2> QED
    BY <1>9, <2>1, <2>2
<1>12. ASSUME whole
       PROVE  /\ Len(h) = 5 /\ Len(p) = 7
              /\ p[5] = Write("base", "conf", c) /\ p[6] = Write("reg1", "table", c)
              /\ p[7] = Write("reg2", "table", c)
  <2>0. Len(w) = 1 /\ Len(g) = 2
    BY <1>4, <1>5, <1>12, Zenon
  <2>1. Len(w) = 1 /\ Len(g) = 2 /\ 1 \in 1 .. Len(w) /\ 1 \in 1 .. Len(g) /\ 2 \in 1 .. Len(g)
    BY <2>0
  <2>2. Len(h) = 5 /\ Len(p) = 7 /\ h[5] = w[1] /\ 5 \in 1 .. Len(h)
    <3>1. h[4 + 1] = w[1]
      BY <1>7, <2>1
    <3> QED
      BY <1>7, <1>9, <2>1, <3>1
  <2>3. p[5 + 1] = g[1] /\ p[5 + 2] = g[2] /\ p[5] = h[5]
    BY <1>9, <2>1, <2>2
  <2> QED
    BY <1>4, <1>5, <1>12, <2>2, <2>3
<1>13. /\ Write("base", "conf", c).kind = "conf" /\ Write("base", "conf", c).do = "write"
       /\ Write("base", "conf", c).at = "base"
       /\ Write("reg1", "table", c).kind = "table" /\ Write("reg1", "table", c).do = "write"
       /\ Write("reg1", "table", c).at = "reg1"
       /\ Write("reg2", "table", c).kind = "table" /\ Write("reg2", "table", c).do = "write"
       /\ Write("reg2", "table", c).at = "reg2"
  BY DEF Write
<1>14. ASSUME Counts(e), NEW i \in 1 .. Len(p)
       PROVE  /\ p[i].kind \in {"conf", "table"} => p[i].val = e.val
              /\ p[i].kind = "first" => \E k \in 1 .. Len(p) : i < k /\ p[k].kind = "conf"
  <2>1. whole /\ e.val = c
    BY <1>1, <1>2, <1>14
  <2>2. p[i] \in EarlyOf(c)
    <3>1. p \in Seq(EarlyOf(c))
      BY <1>10, <2>1
    <3> QED
      BY <3>1, <1>14
  <2>3. p[i].kind \in {"conf", "table"} => p[i].val = e.val
    BY <1>6, <2>1, <2>2
  <2>4. p[i].kind = "first" => i # 5 /\ i # 6 /\ i # 7
    BY <1>12, <1>13, <2>1
  <2>5. i \in 1 .. 7 /\ 5 \in 1 .. Len(p)
    <3>1. Len(p) = 7
      BY <1>12, <2>1, Zenon
    <3> QED
      BY <3>1
  <2>6. p[i].kind = "first" => i < 5
    BY <2>4, <2>5
  <2> QED
    BY <1>12, <1>13, <2>1, <2>3, <2>5, <2>6
<1>15. Form(s)
  BY <1>1, <1>9, <1>11, <1>14, LastForm
<1>16. /\ s \in Seq(Forms) /\ Len(s) = Len(p) + 1 /\ Len(p) \in Nat /\ s[Len(p) + 1] = e
       /\ \A i \in 1 .. Len(p) : s[i] = p[i]
  BY <1>1, <1>9
<1> HIDE DEF s
<1>17. ASSUME whole
       PROVE  Plans(s, "base") /\ Plans(s, "reg1") /\ Plans(s, "reg2") /\ Configures(s)
  <2>0. Len(p) = 7
    BY <1>12, <1>17, Zenon
  <2>1. Len(p) = 7 /\ Len(s) = 8 /\ 5 \in 1 .. 7 /\ 6 \in 1 .. 7 /\ 7 \in 1 .. 7
    BY <1>16, <2>0
  <2>2. s[5] = p[5] /\ s[6] = p[6] /\ s[7] = p[7] /\ 5 \in 1 .. 8 /\ 6 \in 1 .. 8 /\ 7 \in 1 .. 8
    BY <1>16, <2>1
  <2>3. DOMAIN s = 1 .. 8
    BY <1>16, <2>1
  <2> QED
    BY <1>12, <1>13, <1>17, <2>1, <2>2, <2>3 DEF Plans, Configures
<1>18. ASSUME NEW i \in 1 .. Len(s), Counts(s[i])
       PROVE  whole /\ s[i].val = c
  <2>1. i \in 1 .. Len(p) \/ i = Len(p) + 1
    BY <1>16
  <2>2. i = Len(p) + 1
    BY <1>11, <1>16, <1>18, <2>1
  <2> QED
    BY <1>1, <1>2, <1>16, <1>18, <2>2
<1> QED
  BY <1>3, <1>15, <1>17, <1>18

-----------------------------------------------------------------------------
(* What is still to come when a task has done a step, or drops its script.   *)
LEMMA PlansRest ==
  ASSUME NEW s, Form(s), s # <<>>, NEW at, Plans(s, at)
  PROVE  Plans(Tail(s), at) \/ (/\ Head(s).do = "write" /\ Head(s).at = at
                                /\ Head(s).kind \in {"conf", "table"})
<1> HIDE DEF Form
<1> QED
  BY FormRest DEF Plans

LEMMA CountingRest ==
  ASSUME NEW s, Form(s), s # <<>>, NEW c
  PROVE  /\ Counting(Tail(s), c) => Counting(s, c)
         /\ Counting(s, c) /\ Head(s).kind \in {"conf", "table"} => Head(s).val = c
         /\ Counting(s, c) /\ Head(s).kind = "first" => Plans(Tail(s), "base")
         /\ Counts(Head(s)) => Len(s) = 1 /\ Counting(s, Head(s).val)
<1>1. Counting(Tail(s), c) => Counting(s, c)
  BY FormRest DEF Counting
<1>2. ASSUME NEW i \in 1 .. Len(s), Counts(s[i])
      PROVE  /\ i = Len(s)
             /\ Head(s).kind \in {"conf", "table"} => Head(s).val = s[i].val
             /\ Head(s).kind = "first" => \E k \in 1 .. Len(s) : 1 < k /\ s[k].kind = "conf"
  BY <1>2, FormRest DEF Form, CountOK
<1>3. ASSUME NEW k \in 1 .. Len(s), 1 < k, s[k].kind = "conf"
      PROVE  Plans(Tail(s), "base")
  <2>1. s[k] \in Forms
    BY <1>3 DEF Form
  <2>2. s[k].do = "write" /\ s[k].at = "base"
    BY <1>3, <2>1 DEF Forms, Kinds
  <2>3. k # 1
    BY <1>3
  <2>4. k - 1 \in 1 .. Len(s) - 1 /\ Tail(s)[k - 1] = s[k] /\ Len(Tail(s)) = Len(s) - 1
    BY <2>3, FormRest
  <2> QED
    BY <1>3, <2>2, <2>4 DEF Plans
<1>4. Counts(Head(s)) => Len(s) = 1 /\ Counting(s, Head(s).val)
  <2> SUFFICES ASSUME Counts(Head(s)) PROVE Len(s) = 1 /\ Counting(s, Head(s).val)
    OBVIOUS
  <2>1. 1 \in 1 .. Len(s) /\ Head(s) = s[1]
    BY FormRest
  <2> QED
    BY <1>2, <2>1 DEF Counting
<1> QED
  BY <1>1, <1>2, <1>3, <1>4 DEF Counting

Moves(t, e) ==
  /\ FormOK'
  /\ \A u \in Writers : \A k : k # "none" /\ Has(script[u], k)
                             => Has(script'[u], k) \/ (u = t /\ e.kind = k)
  /\ \A u \in Writers : ~Configures(script[u]) => ~Configures(script'[u])
  /\ \A c : Counting(script'["upload"], c) => Counting(script["upload"], c)
  /\ \A c, at : Counting(script'["upload"], c) /\ Plans(script["upload"], at)
                  => \/ Plans(script'["upload"], at)
                     \/ t = "upload" /\ e.at = at /\ e.kind \in {"conf", "table"}
  /\ \A u \in Writers \ {t} : script'[u] = script[u]

LEMMA MovesRest ==
  ASSUME IInv, FormOK, NEW t \in Writers, script[t] # <<>>, script' = Rest(t)
  PROVE  /\ Moves(t, Head(script[t])) /\ script'[t] = Tail(script[t])
         /\ Head(script[t]) \in Forms /\ Form(script[t])
<1> DEFINE s == script[t]
<1>1. /\ script' = [script EXCEPT ![t] = Tail(s)] /\ script \in [Writers -> Seq(Steps)]
      /\ "upload" \in Writers /\ "shell" \in Writers
  BY DEF Rest, IInv, ScriptOK, Writers
<1>2. /\ script'[t] = Tail(s) /\ \A u \in Writers \ {t} : script'[u] = script[u]
      /\ Form(s)
  BY <1>1 DEF FormOK
<1>3. Form(Tail(s)) /\ Head(s) \in Forms
  BY <1>2, TailForm, FormRest
<1>4. \A i \in 1 .. Len(script'["shell"]) : ~Counts(script'["shell"][i])
  <2>1. CASE t = "shell"
    <3>1. /\ Len(Tail(s)) = Len(s) - 1
          /\ \A i \in 1 .. Len(s) - 1 : Tail(s)[i] = s[i + 1] /\ i + 1 \in 1 .. Len(s)
      BY <1>2, FormRest
    <3>2. \A i \in 1 .. Len(s) : ~Counts(s[i])
      BY <2>1 DEF FormOK
    <3>3. \A i \in 1 .. Len(Tail(s)) : ~Counts(Tail(s)[i])
      BY <3>1, <3>2
    <3> QED
      BY <1>2, <2>1, <3>3
  <2>2. CASE t # "shell"
    BY <1>1, <1>2, <2>2 DEF FormOK
  <2> QED
    BY <2>1, <2>2
<1>5. FormOK'
  <2>1. ~Has(script'["shell"], "first")
    BY <1>1, <1>2, HasRest DEF FormOK
  <2> QED
    BY <1>2, <1>3, <1>4, <2>1 DEF FormOK, Has
<1>6. \A u \in Writers : \A k : Has(script[u], k) => Has(script'[u], k) \/ (u = t /\ Head(s).kind = k)
  BY <1>2, HasRest
<1>7. \A u \in Writers : ~Configures(script[u]) => ~Configures(script'[u])
  BY <1>2, ConfiguresRest
<1>8. \A c : Counting(script'["upload"], c) => Counting(script["upload"], c)
  BY <1>1, <1>2, CountingRest
<1>9. \A at : Plans(script["upload"], at)
                => \/ Plans(script'["upload"], at)
                   \/ t = "upload" /\ Head(s).at = at /\ Head(s).kind \in {"conf", "table"}
  BY <1>1, <1>2, PlansRest
<1> QED
  BY <1>2, <1>3, <1>5, <1>6, <1>7, <1>8, <1>9 DEF Moves

(* A script that is replaced at a step that decides what follows.           *)
LEMMA MovesEnds ==
  ASSUME IInv, FormOK, NEW t \in Writers, script[t] # <<>>, Head(script[t]).do \in Ends,
         NEW s, Form(s), \A i \in 1 .. Len(s) : ~Counts(s[i]), ~Configures(s), ~Has(s, "first"),
         script' = [script EXCEPT ![t] = s]
  PROVE  /\ Moves(t, Head(script[t])) /\ Head(script[t]).kind = "none"
         /\ \A k : k # "none" => ~Has(script[t], k)
<1>1. /\ script \in [Writers -> Seq(Steps)] /\ "upload" \in Writers /\ "shell" \in Writers
      /\ Form(script[t])
  BY DEF IInv, ScriptOK, FormOK, Writers
<1>2. script'[t] = s /\ \A u \in Writers \ {t} : script'[u] = script[u]
  BY <1>1
<1>3. FormOK'
  <2>1. ~Has(script'["shell"], "first")
    BY <1>1, <1>2 DEF FormOK
  <2> QED
    BY <1>1, <1>2, <2>1 DEF FormOK, Has
<1>4. \A k : k # "none" => ~Has(script[t], k)
  BY <1>1, EndsRest DEF Ends
<1>5. Head(script[t]).kind = "none"
  BY <1>1, FormRest DEF Forms, Ends
<1>6. \A c : ~Counting(s, c)
  BY DEF Counting
<1>7. \A u \in Writers : \A k : k # "none" /\ Has(script[u], k) => Has(script'[u], k)
  BY <1>2, <1>4
<1>8. \A u \in Writers : ~Configures(script[u]) => ~Configures(script'[u])
  BY <1>2
<1>9. \A c : Counting(script'["upload"], c) => script'["upload"] = script["upload"]
  BY <1>1, <1>2, <1>6
<1> QED
  BY <1>2, <1>3, <1>4, <1>5, <1>7, <1>8, <1>9 DEF Moves

LEMMA MovesNot ==
  ASSUME FormOK, NEW t \in Writers, NEW e, UNCHANGED script
  PROVE  Moves(t, e)
<1>1. FormOK'
  BY DEF FormOK, Has
<1> QED
  BY <1>1 DEF Moves

-----------------------------------------------------------------------------
(* What a step that leaves a part alone keeps of it.                        *)
LEMMA OtherLemma ==
  ASSUME NEW t \in Writers
  PROVE  Other(t) \in Writers /\ Other(t) # t /\ \A u \in Writers : u = t \/ u = Other(t)
  BY DEF Writers, Other

LEMMA RepairsKept ==
  ASSUME NEW t \in Writers, NEW e, Moves(t, e), phase' = phase, NEW k, k # "none", Repairs(k)
  PROVE  Repairs(k)' \/ (t = "upload" /\ e.kind = k)
<1>1. Has(script["upload"], k) /\ "upload" \in Writers
  BY DEF Repairs, Writers
<1>2. Has(script'["upload"], k) \/ ("upload" = t /\ e.kind = k)
  BY <1>1 DEF Moves
<1> QED
  BY <1>2 DEF Repairs, Has

LEMMA OrderingIs == Ordering = \E t \in Writers : Has(script[t], "order")
  BY DEF Ordering, Has, Writers

LEMMA OrderingKept ==
  ASSUME NEW t \in Writers, NEW e, Moves(t, e), Ordering
  PROVE  Ordering' \/ e.kind = "order"
<1>1. PICK u \in Writers : Has(script[u], "order")
  BY OrderingIs
<1>2. Has(script'[u], "order") \/ e.kind = "order"
  BY <1>1 DEF Moves
<1> QED
  BY <1>2 DEF Ordering, Has, Writers

LEMMA StageFrame ==
  ASSUME StageOK, NEW t \in Writers, stage[t] = "run", UNCHANGED <<phase, stage, place, cache>>,
         \A u \in Writers \ {t} : script'[u] = script[u],
         phase = "boot" => script' = script, t = "shell" => phase = "up" \/ script' = script
  PROVE  StageOK'
<1>1. "upload" \in Writers /\ "shell" \in Writers
  BY DEF Writers
<1>2. \A u \in Writers : stage'[u] # "run" => script'[u] # <<>> /\ Head(script'[u]).do = "write"
  BY DEF StageOK
<1>3. phase' = "boot" => script'["upload"] = <<>>
  BY DEF StageOK
<1>4. phase' # "up" => script'["shell"] = <<>>
  BY <1>1 DEF StageOK
<1> QED
  BY <1>2, <1>3, <1>4 DEF StageOK

LEMMA HandleFrame ==
  ASSUME HandleOK, StageOK, NEW t \in Writers, stage[t] = "run", raced' = raced,
         UNCHANGED <<stage, place>>, \A u \in Writers \ {t} : script'[u] = script[u],
         NEW a \in Sectors, flash_hdl' = flash_hdl \/ flash_hdl' = Closed(t, a)
  PROVE  HandleOK'
<1>1. Closed(t, a) \in [by : Writers \cup {"none"}, at : Sectors, open : BOOLEAN]
  BY SectorsLemma DEF Closed, NoHandle
<1>2. Closed(t, a).by \in {t, "none"}
  BY DEF Closed, NoHandle
<1>3. "none" \notin Writers
  BY DEF Writers
<1>4. flash_hdl' \in [by : Writers \cup {"none"}, at : Sectors, open : BOOLEAN] /\ raced' \in BOOLEAN
  BY <1>1 DEF HandleOK
<1>5. ASSUME ~raced', NEW u \in Writers
      PROVE  /\ flash_hdl'.by = u /\ stage'[u] # "run" => flash_hdl'.open
             /\ flash_hdl'.by = u /\ stage'[u] \in {"sought", "erased"}
                  => flash_hdl'.at = Head(script'[u]).at
             /\ place'[u] # "none" => place'[u] = Head(script'[u]).at
  <2>1. CASE u = t
    <3>1. stage'[u] = "run" /\ place'[u] = "none"
      BY <2>1 DEF StageOK
    <3> QED
      BY <3>1
  <2>2. CASE u # t
    <3>1. script'[u] = script[u] /\ place'[u] = place[u] /\ stage'[u] = stage[u]
      BY <2>2
    <3>2. flash_hdl'.by = u => flash_hdl' = flash_hdl
      BY <1>2, <1>3, <2>2
    <3> QED
      BY <1>5, <3>1, <3>2 DEF HandleOK
  <2> QED
    BY <2>1, <2>2
<1> QED
  BY <1>4, <1>5 DEF HandleOK

LEMMA BaseFrame ==
  ASSUME BaseOK, raced => raced', phase' = phase, UNCHANGED <<firmware, place, cache>>,
         flash'["base"] = flash["base"],
         \A k \in {"first", "soft"} : Repairs(k) => Repairs(k)'
  PROVE  BaseOK'
<1>1. \A b : Good(b) => Good(b)'
  BY DEF Good
<1>2. Rewriting("base")' = Rewriting("base")
  BY DEF Rewriting
<1> QED
  BY <1>1, <1>2 DEF BaseOK, Good

LEMMA ParamsFrame ==
  ASSUME ParamsOK, raced => raced', overrun => overrun', phase' = phase,
         flash["params"].sig => flash'["params"].sig,
         Rewriting("params") => Rewriting("params")',
         Ordering => Ordering', Repairs("idle") => Repairs("idle")'
  PROVE  ParamsOK'
  BY DEF ParamsOK

LEMMA ConfiguredKept ==
  ASSUME NEW c, Configured(c), UNCHANGED <<place, cache>>, flash'["base"] = flash["base"]
  PROVE  Configured(c)'
  BY DEF Configured, Rewriting

LEMMA WholeFrame ==
  ASSUME WholeOK, NEW t \in Writers, NEW e, Moves(t, e), raced => raced', beside => beside',
         phase' = phase, UNCHANGED <<place, cache>>,
         \A s \in {"base", "reg1", "reg2"} : flash'[s] = flash[s],
         e.kind \notin {"conf", "table"}
  PROVE  WholeOK'
<1> SUFFICES ASSUME ~raced', ~beside', NEW c, Counting(script'["upload"], c)
             PROVE  /\ ~Configures(script'["shell"]) /\ phase' = "up"
                    /\ Plans(script'["upload"], "base") \/ Configured(c)'
                    /\ Plans(script'["upload"], "reg1") \/ flash'["reg1"] = c
                    /\ Plans(script'["upload"], "reg2") \/ flash'["reg2"] = c
  BY DEF WholeOK, Configures, Plans, Counting, Counts
<1>1. Counting(script["upload"], c) /\ "shell" \in Writers
  BY DEF Moves, Writers
<1>2. /\ ~Configures(script["shell"]) /\ phase = "up"
      /\ Plans(script["upload"], "base") \/ Configured(c)
      /\ Plans(script["upload"], "reg1") \/ flash["reg1"] = c
      /\ Plans(script["upload"], "reg2") \/ flash["reg2"] = c
  BY <1>1 DEF WholeOK
<1>3. ~Configures(script'["shell"])
  BY <1>1, <1>2 DEF Moves
<1>4. \A at : Plans(script["upload"], at) => Plans(script'["upload"], at)
  BY DEF Moves
<1> QED
  BY <1>2, <1>3, <1>4, ConfiguredKept

LEMMA InstalledFrame ==
  ASSUME InstalledOK, StageOK, NEW t \in Writers, stage[t] = "run", NEW e, Moves(t, e),
         raced' = raced, installed' = installed, UNCHANGED <<stage, place, cache>>,
         \A s \in {"base", "reg1", "reg2"} : flash'[s] = flash[s],
         NEW a \in Sectors, flash_hdl' = flash_hdl \/ flash_hdl' = Closed(t, a)
  PROVE  InstalledOK'
<1> SUFFICES ASSUME installed # "none" PROVE InstalledOK'
  BY DEF InstalledOK
<1>1. ~raced' /\ \A u \in Writers : ~Configures(script'[u])
  BY DEF InstalledOK, Moves
<1>2. Configured(installed)' /\ flash'["reg1"] = installed' /\ flash'["reg2"] = installed'
  <2>1. Configured(installed) /\ flash["reg1"] = installed /\ flash["reg2"] = installed
    BY DEF InstalledOK
  <2> QED
    BY <2>1 DEF Configured, Rewriting
<1>3. /\ ~Rewriting("base")' => flash'["base"].head
      /\ \A u \in Writers : place'[u] = "base" => cache'[u].head
  BY DEF InstalledOK, Rewriting
<1>4. \A u \in Writers : ~(/\ stage'[u] # "run" /\ Head(script'[u]).kind = "first"
                           /\ ~(place'[Other(u)] = "base" /\ Taken(Other(u))'))
  <2> SUFFICES ASSUME NEW u \in Writers, stage'[u] # "run", Head(script'[u]).kind = "first"
               PROVE  place'[Other(u)] = "base" /\ Taken(Other(u))'
    OBVIOUS
  <2>1. u # t /\ script'[u] = script[u]
    BY DEF Moves
  <2>2. place[Other(u)] = "base" /\ Taken(Other(u))
    BY <2>1 DEF InstalledOK
  <2>3. t = Other(u)
    BY <2>1, OtherLemma
  <2>4. place[t] = "none"
    BY DEF StageOK
  <2> QED
    BY <2>2, <2>3, <2>4
<1> QED
  BY <1>1, <1>2, <1>3, <1>4 DEF InstalledOK, Configures

LEMMA ValuesFrame ==
  ASSUME ValuesOK, RecordOK, UNCHANGED <<place, cache>>, local' \in Versions \cup {"none", "partial"},
         flash' = flash \/ \E s \in Sectors : \E v \in Values(s) : flash' = [flash EXCEPT ![s] = v]
  PROVE  ValuesOK'
<1>1. DOMAIN flash = Sectors
  BY DEF RecordOK
<1>2. \A s \in Sectors : flash'[s] \in Values(s)
  BY <1>1 DEF ValuesOK
<1> QED
  BY <1>2 DEF ValuesOK, Values, Records

(* The bytes a sector may hold.                                             *)
LEMMA ValuesLemma ==
  ASSUME NEW s \in Sectors
  PROVE  Blank(s) \in Values(s) /\ Junk(s) \subseteq Values(s)
<1>1. CASE s = "base"
  BY <1>1 DEF Blank, Junk, Values
<1>2. CASE s = "params"
  BY <1>2 DEF Blank, Junk, Values, Records, Orderable
<1>3. CASE s \notin {"base", "params"}
  BY <1>3 DEF Blank, Junk, Values
<1> QED
  BY <1>1, <1>2, <1>3

LEMMA BaseNew ==
  ASSUME NEW e \in Forms, e.do = "write", e.at = "base", firmware \in Versions,
         NEW old \in Values("base")
  PROVE  /\ New(e, old) \in Values("base")
         /\ old.head \/ e.kind = "first" => New(e, old).head
         /\ old.soft = firmware \/ e.kind \in {"first", "soft"} => New(e, old).soft = firmware
         /\ e.kind = "conf" => New(e, old).conf = e.val
         /\ e.kind \notin {"conf", "first"} => New(e, old).conf = old.conf
<1>1. e.kind \in {"conf", "field", "first", "soft"}
  BY DEF Forms, Kinds
<1>2. e.kind = "conf" => e.val \in Contents
  BY DEF Forms
<1>3. /\ old \in [head : BOOLEAN, soft : Versions \cup {"older", "blank", "junk"},
                  conf : Contents \cup {"default", "blank", "junk"}]
      /\ Values("base") = [head : BOOLEAN, soft : Versions \cup {"older", "blank", "junk"},
                           conf : Contents \cup {"default", "blank", "junk"}]
  BY DEF Values
<1>4. CASE e.kind = "conf"
  <2>1. New(e, old) = [old EXCEPT !.conf = e.val]
    BY <1>4 DEF New
  <2> QED
    BY <1>2, <1>3, <1>4, <2>1
<1>5. CASE e.kind = "field"
  <2>1. New(e, old) = old
    BY <1>5 DEF New
  <2> QED
    BY <1>3, <1>5, <2>1
<1>6. CASE e.kind = "first"
  <2>1. New(e, old) = [head |-> TRUE, soft |-> firmware, conf |-> "default"]
    BY <1>6 DEF New
  <2>2. New(e, old) \in Values("base")
    BY <1>3, <2>1
  <2>3. New(e, old).head = TRUE /\ New(e, old).soft = firmware
    BY <2>1
  <2> QED
    BY <1>6, <2>2, <2>3
<1>7. CASE e.kind = "soft"
  <2>1. New(e, old) = [old EXCEPT !.soft = firmware]
    BY <1>7 DEF New
  <2> QED
    BY <1>3, <1>7, <2>1
<1> QED
  BY <1>1, <1>4, <1>5, <1>6, <1>7

LEMMA ParamsNew ==
  ASSUME NEW e \in Forms, e.do = "write", e.at = "params", firmware \in Versions, NEW old
  PROVE  New(e, old) \in Values("params") /\ New(e, old).sig
<1>1. e.kind \in {"idle", "order"} /\ (e.kind = "order" => e.val \in Orderable)
  BY DEF Forms, Kinds
<1>2. Values("params") = Records
  BY DEF Values
<1>3. CASE e.kind = "idle"
  <2>1. New(e, old) = [sig |-> TRUE, update |-> FALSE, file |-> firmware]
    BY <1>3 DEF New
  <2>2. New(e, old) \in Records
    BY <2>1 DEF Records, Orderable
  <2>3. New(e, old).sig = TRUE
    BY <2>1
  <2> QED
    BY <1>2, <2>2, <2>3
<1>4. CASE e.kind = "order"
  <2>1. New(e, old) = [sig |-> TRUE, update |-> TRUE, file |-> e.val]
    BY <1>4 DEF New
  <2>2. New(e, old) \in Records
    BY <1>1, <1>4, <2>1 DEF Records
  <2>3. New(e, old).sig = TRUE
    BY <2>1
  <2> QED
    BY <1>2, <2>2, <2>3
<1> QED
  BY <1>1, <1>3, <1>4

LEMMA TableNew ==
  ASSUME NEW e \in Forms, e.do = "write", e.at \notin {"base", "params"}, NEW old
  PROVE  New(e, old) \in Values(e.at) /\ New(e, old) = e.val /\ e.kind = "table"
<1>1. e.kind = "table" /\ e.val \in Contents
  BY DEF Forms, Kinds
<1>2. New(e, old) = e.val
  BY <1>1 DEF New
<1> QED
  BY <1>1, <1>2 DEF Values

LEMMA NewValues ==
  ASSUME NEW e \in Forms, e.do = "write", firmware \in Versions, NEW old \in Values(e.at)
  PROVE  New(e, old) \in Values(e.at)
  BY BaseNew, ParamsNew, TableNew

-----------------------------------------------------------------------------
(* Steps beside EepromWrite's.                                              *)
LEMMA AsideKeeps ==
  ASSUME SInv, NEW t \in Writers, stage[t] = "run", NEW e, Moves(t, e),
         e.kind \notin {"conf", "table"},
         UNCHANGED <<phase, firmware, stage, place, cache, raced, beside, installed>>,
         phase # "boot", t = "shell" => phase = "up",
         local' \in Versions \cup {"none", "partial"},
         \A s \in {"base", "reg1", "reg2"} : flash'[s] = flash[s],
         flash' = flash \/ \E s \in Sectors : \E v \in Values(s) : flash' = [flash EXCEPT ![s] = v],
         NEW a \in Sectors, flash_hdl' = flash_hdl \/ flash_hdl' = Closed(t, a),
         BaseOK', ParamsOK'
  PROVE  Sane'
<1>1. FormOK' /\ \A u \in Writers \ {t} : script'[u] = script[u]
  BY DEF Moves
<1>2. /\ FormOK /\ StageOK /\ ValuesOK /\ HandleOK /\ WholeOK /\ InstalledOK /\ RecordOK
  BY DEF SInv, Sane, IInv
<1>3. StageOK'
  BY <1>1, <1>2, StageFrame
<1>4. HandleOK'
  BY <1>1, <1>2, HandleFrame
<1>5. WholeOK'
  BY <1>2, WholeFrame
<1>6. InstalledOK'
  BY <1>2, InstalledFrame
<1>7. ValuesOK'
  BY <1>2, ValuesFrame
<1> QED
  BY <1>1, <1>3, <1>4, <1>5, <1>6, <1>7 DEF Sane

LEMMA BusyLemma ==
  ASSUME SInv, NEW t \in Writers, Busy(t)
  PROVE  /\ script[t] # <<>> /\ phase # "boot" /\ (t = "shell" => phase = "up")
         /\ Form(script[t]) /\ Head(script[t]) \in Forms
         /\ Head(script[t]).do # "write" => stage[t] = "run" /\ Head(script[t]).kind = "none"
         /\ flash_hdl.at \in Sectors /\ local \in Versions \cup {"none", "partial"}
         /\ Rest(t) = [script EXCEPT ![t] = Tail(script[t])]
<1>1. script[t] # <<>> /\ phase # "boot"
  BY DEF Busy
<1>2. t = "shell" => phase = "up"
  BY <1>1 DEF SInv, Sane, StageOK
<1>3. Form(script[t]) /\ Head(script[t]) \in Forms
  <2>1. Form(script[t])
    BY DEF SInv, Sane, FormOK
  <2> QED
    BY <1>1, <2>1, FormRest
<1>4. Head(script[t]).do # "write" => stage[t] = "run" /\ Head(script[t]).kind = "none"
  <2>1. Head(script[t]).do # "write" => Head(script[t]).kind = "none"
    BY <1>3 DEF Forms
  <2> QED
    BY <2>1 DEF SInv, Sane, StageOK
<1>5. flash_hdl.at \in Sectors /\ local \in Versions \cup {"none", "partial"}
  BY DEF SInv, Sane, HandleOK, ValuesOK
<1> QED
  BY <1>1, <1>2, <1>3, <1>4, <1>5 DEF Rest

(* A step that says nothing of the sectors EepromInit repairs.               *)
LEMMA PlainAside ==
  ASSUME SInv, NEW t \in Writers, NEW e, Moves(t, e), e.kind = "none",
         UNCHANGED <<phase, firmware, place, cache, raced>>, flash'["base"] = flash["base"]
  PROVE  /\ BaseOK'
         /\ (flash["params"].sig => flash'["params"].sig) /\ (overrun => overrun') => ParamsOK'
<1>1. \A k \in {"first", "soft", "idle"} : Repairs(k) => Repairs(k)'
  BY RepairsKept
<1>2. Ordering => Ordering'
  BY OrderingKept
<1>3. BaseOK'
  BY <1>1, BaseFrame DEF SInv, Sane
<1>4. ASSUME flash["params"].sig => flash'["params"].sig, overrun => overrun'
      PROVE  ParamsOK'
  <2>1. Rewriting("params") => Rewriting("params")'
    BY DEF Rewriting
  <2> QED
    BY <1>1, <1>2, <1>4, <2>1, ParamsFrame DEF SInv, Sane
<1> QED
  BY <1>3, <1>4

LEMMA PeekSane ==
  ASSUME SInv, NEW t \in Writers, Peek(t)
  PROVE  Sane'
<1> DEFINE e == Head(script[t])
<1>1. /\ Busy(t) /\ stage[t] = "run" /\ e.do = "peek" /\ script' = Rest(t)
      /\ flash_hdl' = Closed(t, e.at)
      /\ UNCHANGED <<phase, firmware, flash, stage, place, cache, local, raced, overrun, beside,
                     installed>>
  BY DEF Peek, askVars, histVars
<1>2. /\ script[t] # <<>> /\ phase # "boot" /\ (t = "shell" => phase = "up") /\ e.kind = "none"
      /\ local \in Versions \cup {"none", "partial"}
  BY <1>1, BusyLemma
<1>3. Moves(t, e)
  BY <1>1, <1>2, MovesRest DEF SInv, Sane
<1>4. BaseOK' /\ ParamsOK'
  BY <1>1, <1>2, <1>3, PlainAside
<1>5. e.at \in Sectors
  BY <1>1, BusyLemma DEF Forms
<1> HIDE DEF e
<1> QED
  BY <1>1, <1>2, <1>3, <1>4, <1>5, AsideKeeps

LEMMA EepromErasSane ==
  ASSUME SInv, NEW t \in Writers, EepromEras(t)
  PROVE  Sane'
<1> DEFINE e == Head(script[t])
<1>1. /\ Busy(t) /\ e.do = "erase" /\ script' = Rest(t)
      /\ flash' = [flash EXCEPT ![e.at] = Blank(e.at)]
      /\ flash_hdl' = flash_hdl \/ flash_hdl' = Closed(t, "cood")
      /\ UNCHANGED <<phase, firmware, stage, place, cache, local, raced, overrun, beside, installed>>
  BY DEF EepromEras, askVars, histVars
<1>2. /\ script[t] # <<>> /\ phase # "boot" /\ (t = "shell" => phase = "up") /\ e.kind = "none"
      /\ local \in Versions \cup {"none", "partial"} /\ stage[t] = "run" /\ Form(script[t])
  BY <1>1, BusyLemma
<1>3. Moves(t, e) /\ script'[t] = Tail(script[t])
  BY <1>1, <1>2, MovesRest DEF SInv, Sane
<1>4. e.at \in {"params", "cood"} /\ e.at \in Sectors /\ "cood" \in Sectors
  BY <1>1, BusyLemma, SectorsLemma DEF Forms
<1>5. Wipes(e) => Has(script'[t], "order")
  BY <1>2, <1>3, WipesRest
<1> HIDE DEF e
<1>6. DOMAIN flash = Sectors
  BY DEF SInv, IInv, RecordOK
<1>7. \A s \in {"base", "reg1", "reg2"} : flash'[s] = flash[s]
  BY <1>1, <1>4, <1>6, SectorsLemma
<1>8. BaseOK' /\ ParamsOK'
  <2>1. CASE e.at = "params"
    <3>1. Ordering'
      BY <1>1, <1>5, <2>1 DEF Wipes, Ordering, Has, Writers
    <3>2. BaseOK'
      BY <1>1, <1>2, <1>3, <1>7, PlainAside
    <3> QED
      BY <3>1, <3>2 DEF ParamsOK
  <2>2. CASE e.at # "params"
    <3>1. flash'["params"] = flash["params"]
      BY <1>1, <1>6, <2>2, SectorsLemma
    <3> QED
      BY <1>1, <1>2, <1>3, <1>7, <3>1, PlainAside
  <2> QED
    BY <2>1, <2>2
<1>9. \E s \in Sectors : \E v \in Values(s) : flash' = [flash EXCEPT ![s] = v]
  BY <1>1, <1>4, ValuesLemma
<1> QED
  BY <1>1, <1>2, <1>3, <1>4, <1>7, <1>8, <1>9, AsideKeeps

LEMMA FollowingTable ==
  ASSUME NEW s \in {"index", "didi", "cood"}
  PROVE  Following(s) \in {"didi", "cood", "params"}
<1> DEFINE i == CHOOSE k \in 1 .. Len(Layout) : Layout[k] = s
<1>1. Len(Layout) = 8
  BY DEF Layout
<1>2. /\ Layout[1] = "base" /\ Layout[2] = "router" /\ Layout[3] = "reg1" /\ Layout[4] = "reg2"
      /\ Layout[5] = "index" /\ Layout[6] = "didi" /\ Layout[7] = "cood" /\ Layout[8] = "params"
  BY DEF Layout
<1>3. \E k \in 1 .. Len(Layout) : Layout[k] = s
  <2>1. 5 \in 1 .. 8 /\ 6 \in 1 .. 8 /\ 7 \in 1 .. 8
    OBVIOUS
  <2> QED
    BY <1>1, <1>2, <2>1
<1>4. i \in 1 .. 8 /\ Layout[i] = s
  BY <1>1, <1>3
<1> HIDE DEF i
<1>5. i \in {1, 2, 3, 4, 5, 6, 7, 8}
  BY <1>4
<1>6. i \in {5, 6, 7}
  BY <1>2, <1>4, <1>5
<1>7. Following(s) = IF i = Len(Layout) THEN s ELSE Layout[i + 1]
  BY DEF Following, i
<1>8. i # 8 /\ i + 1 \in {6, 7, 8}
  BY <1>6
<1> QED
  BY <1>1, <1>2, <1>7, <1>8

LEMMA SingleScript ==
  ASSUME NEW e \in Forms, e.kind = "none", ~Wipes(e), ~Counts(e),
         ~(e.do \in {"write", "overrun"} /\ e.at \in {"base", "reg1", "reg2"})
  PROVE  /\ Form(<<e>>) /\ ~Configures(<<e>>) /\ <<e>> \in Seq(Forms) /\ ~Has(<<e>>, "first")
         /\ \A i \in 1 .. Len(<<e>>) : ~Counts(<<e>>[i])
<1> DEFINE s == <<e>>
<1>1. s \in Seq(Forms) /\ Len(s) = 1 /\ s[1] = e /\ DOMAIN s = 1 .. 1
  OBVIOUS
<1> HIDE DEF s
<1>2. \A i \in 1 .. Len(s) : s[i] = e /\ i = Len(s)
  BY <1>1
<1>3. Form(s)
  BY <1>1, <1>2, SimpleForm
<1>4. ~Configures(s)
  BY <1>1, <1>2 DEF Configures
<1> QED
  BY <1>1, <1>2, <1>3, <1>4 DEF s, Has

LEMMA SpinScript ==
  /\ Form(<<Step("spin")>>) /\ ~Configures(<<Step("spin")>>) /\ ~Has(<<Step("spin")>>, "first")
  /\ \A i \in 1 .. Len(<<Step("spin")>>) : ~Counts(<<Step("spin")>>[i])
  /\ Form(<<>>) /\ ~Configures(<<>>) /\ ~Has(<<>>, "first") /\ \A i \in 1 .. Len(<<>>) : ~Counts(<<>>[i])
<1>1. Step("spin") \in Early /\ Step("spin").kind = "none"
  BY OthersForm, SectorsLemma
<1>2. Step("spin").do = "spin"
  BY DEF Step
<1>3. <<>> \in Seq(Early) /\ DOMAIN <<>> = {} /\ \A i \in 1 .. Len(<<>>) : FALSE
  OBVIOUS
<1> QED
  BY <1>1, <1>2, <1>3, SingleScript, EarlyForm DEF Early, Configures, Has

LEMMA RunsOverSane ==
  ASSUME SInv, NEW t \in Writers, RunsOver(t)
  PROVE  Sane'
<1> DEFINE e == Head(script[t])
           s == e.at
           next == [e EXCEPT !.at = Following(s)]
<1>1. /\ Busy(t) /\ e.do = "overrun"
      /\ UNCHANGED <<phase, firmware, flash_hdl, stage, place, cache, local, raced, beside, installed>>
  BY DEF RunsOver, askVars
<1>2. /\ script[t] # <<>> /\ phase # "boot" /\ (t = "shell" => phase = "up") /\ e.kind = "none"
      /\ local \in Versions \cup {"none", "partial"} /\ stage[t] = "run" /\ e \in Forms
      /\ flash_hdl.at \in Sectors
  BY <1>1, BusyLemma
<1>3. s \in {"index", "didi", "cood", "params"} /\ s \in Sectors
  BY <1>1, <1>2, SectorsLemma DEF Forms
<1>4. PICK r : /\ script' = [script EXCEPT ![t] = r]
               /\ r = <<Step("spin")>> \/ (s # "params" /\ r = <<next>>)
  BY DEF RunsOver
<1>5. s # "params" => /\ next \in Forms /\ next.kind = "none" /\ next.do = "overrun"
                      /\ next.at \in {"didi", "cood", "params"}
  <2> SUFFICES ASSUME s # "params"
               PROVE  /\ next \in Forms /\ next.kind = "none" /\ next.do = "overrun"
                      /\ next.at \in {"didi", "cood", "params"}
    OBVIOUS
  <2>1. Following(s) \in {"didi", "cood", "params"}
    BY <1>3, FollowingTable
  <2>2. e \in [do : {"write", "erase", "peek", "overrun", "spin", "tftp", "analyse", "reboot"},
               at : Sectors \cup {"none"},
               kind : {"table", "conf", "field", "first", "soft", "idle", "order", "none"},
               val : Orderable \cup Contents \cup {"none"}]
    BY <1>2 DEF Forms, Steps
  <2>3. /\ next \in Steps /\ next.do = "overrun" /\ next.kind = "none" /\ next.at = Following(s)
    BY <1>1, <1>2, <2>1, <2>2, SectorsLemma DEF Steps
  <2> QED
    BY <2>1, <2>3 DEF Forms
<1>6. Form(r) /\ ~Configures(r) /\ ~Has(r, "first") /\ \A i \in 1 .. Len(r) : ~Counts(r[i])
  <2>1. CASE r = <<Step("spin")>>
    BY <2>1, SpinScript
  <2>2. CASE s # "params" /\ r = <<next>>
    <3>1. ~Wipes(next) /\ ~Counts(next)
      BY <1>5, <2>2 DEF Wipes, Counts
    <3> HIDE DEF next
    <3> QED
      BY <1>5, <2>2, <3>1, SingleScript
  <2> QED
    BY <1>4, <2>1, <2>2
<1>7. Moves(t, e)
  BY <1>1, <1>2, <1>4, <1>6, MovesEnds DEF SInv, Sane, Ends
<1>8. \/ flash' = flash /\ overrun' = overrun
      \/ overrun' = TRUE /\ \E v \in Junk(s) : flash' = [flash EXCEPT ![s] = v]
  BY DEF RunsOver
<1> HIDE DEF e, s
<1>9. DOMAIN flash = Sectors
  BY DEF SInv, IInv, RecordOK
<1>10. /\ \A x \in {"base", "reg1", "reg2"} : flash'[x] = flash[x]
       /\ flash' = flash \/ \E x \in Sectors : \E v \in Values(x) : flash' = [flash EXCEPT ![x] = v]
  BY <1>3, <1>8, <1>9, SectorsLemma, ValuesLemma
<1>11. BaseOK'
  BY <1>1, <1>2, <1>7, <1>10, PlainAside
<1>12. ParamsOK'
  <2>1. CASE flash' = flash /\ overrun' = overrun
    BY <1>1, <1>2, <1>7, <1>10, <2>1, PlainAside
  <2>2. CASE overrun' = TRUE
    BY <2>2 DEF ParamsOK
  <2> QED
    BY <1>8, <2>1, <2>2
<1> QED
  BY <1>1, <1>2, <1>7, <1>10, <1>11, <1>12, AsideKeeps

LEMMA SkipSane ==
  ASSUME SInv, NEW t \in Writers, Skip(t)
  PROVE  Sane'
<1> DEFINE e == Head(script[t])
<1>1. /\ Busy(t) /\ stage[t] = "run" /\ e.do = "write" /\ ~Needed(e) /\ script' = Rest(t)
      /\ UNCHANGED <<phase, firmware, flash, flash_hdl, stage, place, cache, local, raced, overrun,
                     beside, installed>>
  BY DEF Skip, Writing, askVars, histVars
<1>2. /\ script[t] # <<>> /\ phase # "boot" /\ (t = "shell" => phase = "up")
      /\ local \in Versions \cup {"none", "partial"} /\ flash_hdl.at \in Sectors
  BY <1>1, BusyLemma
<1>3. Moves(t, e)
  BY <1>1, <1>2, MovesRest DEF SInv, Sane
<1>4. /\ e.kind \in {"first", "soft", "idle"} /\ (e.kind = "first" => flash["base"].head)
      /\ e.kind = "soft" => flash["base"].soft = firmware
      /\ e.kind = "idle" => flash["params"].sig
  BY <1>1 DEF Needed
<1> HIDE DEF e
<1>5. /\ StageOK /\ BaseOK /\ ParamsOK
  BY DEF SInv, Sane
<1>6. phase = "init" => \A u \in Writers : place[u] = "none"
  <2>1. phase = "init" => stage["shell"] = "run"
    BY <1>5 DEF StageOK, Writers
  <2>2. phase = "init" => t = "upload"
    BY <1>2 DEF Writers
  <2> QED
    BY <1>1, <1>5, <2>1, <2>2 DEF StageOK, Writers
<1>7. \A k \in {"first", "soft", "idle"} : Repairs(k) => Repairs(k)' \/ e.kind = k
  BY <1>1, <1>3, RepairsKept
<1>8. BaseOK'
  <2> SUFFICES ASSUME ~raced
               PROVE  /\ ~Rewriting("base") => Good(flash["base"])'
                      /\ \A u \in Writers : place[u] = "base" => Good(cache[u])'
    BY <1>1, <1>2 DEF BaseOK, Rewriting, Good
  <2>1. /\ ~Rewriting("base") => Good(flash["base"])
        /\ \A u \in Writers : place[u] = "base" => Good(cache[u])
    BY <1>2, <1>5 DEF BaseOK
  <2>2. ~Rewriting("base") => Good(flash["base"])'
    BY <1>1, <1>4, <1>7, <2>1 DEF Good
  <2>3. ASSUME NEW u \in Writers, place[u] = "base"
        PROVE  Good(cache[u])'
    <3>1. phase # "init"
      BY <1>6, <2>3
    <3> QED
      BY <1>1, <2>1, <2>3, <3>1 DEF Good, Repairs
  <2> QED
    BY <2>2, <2>3
<1>9. ParamsOK'
  <2>1. Ordering => Ordering'
    BY <1>3, <1>4, OrderingKept
  <2>2. Rewriting("params") => Rewriting("params")'
    BY <1>1 DEF Rewriting
  <2> QED
    BY <1>1, <1>2, <1>4, <1>5, <1>7, <2>1, <2>2 DEF ParamsOK
<1> QED
  BY <1>1, <1>2, <1>3, <1>4, <1>8, <1>9, AsideKeeps

-----------------------------------------------------------------------------
(* The steps of EepromWrite.                                                *)
LEMMA SameKept ==
  ASSUME Sane, UNCHANGED <<phase, firmware, flash, script, place, cache, local, overrun, beside>>,
         raced => raced'
  PROVE  FormOK' /\ ValuesOK' /\ BaseOK' /\ ParamsOK' /\ WholeOK'
<1>1. FormOK'
  BY DEF Sane, FormOK, Has
<1>2. ValuesOK'
  BY DEF Sane, ValuesOK, Values, Records
<1>3. BaseOK'
  BY DEF Sane, BaseOK, Good, Repairs, Has, Rewriting
<1>4. ParamsOK'
  BY DEF Sane, ParamsOK, Ordering, Repairs, Has, Rewriting
<1>5. WholeOK'
  BY DEF Sane, WholeOK, Configures, Plans, Counting, Counts, Configured, Rewriting
<1> QED
  BY <1>1, <1>2, <1>3, <1>4, <1>5

LEMMA RacedSane ==
  ASSUME FormOK', StageOK', ValuesOK', raced' = TRUE, installed' = "none",
         flash_hdl' \in [by : Writers \cup {"none"}, at : Sectors, open : BOOLEAN]
  PROVE  Sane'
<1>1. HandleOK'
  BY DEF HandleOK
<1>2. BaseOK' /\ ParamsOK' /\ WholeOK'
  BY DEF BaseOK, ParamsOK, WholeOK
<1>3. InstalledOK'
  BY DEF InstalledOK
<1> QED
  BY <1>1, <1>2, <1>3 DEF Sane

LEMMA RaceLemma ==
  ASSUME SInv, NEW t \in Writers, Race(t)
  PROVE  \/ raced' = TRUE /\ installed' = "none"
         \/ /\ raced' = FALSE /\ raced = FALSE /\ installed' = installed
            /\ ~Taken(t) /\ flash_hdl.by = t
<1>1. raced \in BOOLEAN /\ (raced => installed = "none")
  BY DEF SInv, Sane, HandleOK, InstalledOK
<1>2. CASE Taken(t)
  BY <1>1, <1>2 DEF Race
<1>3. CASE ~Taken(t)
  BY <1>1, <1>3 DEF Race, Taken
<1> QED
  BY <1>2, <1>3

LEMMA OpenSane ==
  ASSUME SInv, NEW t \in Writers, Open(t)
  PROVE  Sane'
<1>1. /\ Busy(t) /\ stage[t] = "run" /\ Head(script[t]).do = "write" /\ Needed(Head(script[t]))
      /\ flash_hdl' = [by |-> t, at |-> "base", open |-> TRUE]
      /\ stage' = [stage EXCEPT ![t] = "opened"]
      /\ UNCHANGED <<phase, firmware, flash, script, place, cache, local, raced, overrun, beside,
                     installed>>
  BY DEF Open, Writing, askVars, histVars
<1>2. Sane /\ StageOK /\ HandleOK /\ InstalledOK /\ script[t] # <<>>
  BY <1>1, BusyLemma DEF SInv, Sane
<1>3. FormOK' /\ ValuesOK' /\ BaseOK' /\ ParamsOK' /\ WholeOK'
  BY <1>1, <1>2, SameKept
<1>4. stage'[t] = "opened" /\ \A u \in Writers \ {t} : stage'[u] = stage[u]
  BY <1>1, <1>2 DEF StageOK
<1>5. place[t] = "none" /\ \A u \in Writers : place'[u] = place[u] /\ script'[u] = script[u]
  BY <1>1, <1>2 DEF StageOK
<1>6. StageOK'
  <2>1. stage' \in [Writers -> {"run", "opened", "sought", "erased"}]
    BY <1>1, <1>2 DEF StageOK
  <2>2. \A u \in Writers : /\ (stage'[u] = "erased") = (place'[u] # "none")
                           /\ stage'[u] # "run" => /\ script'[u] # <<>>
                                                   /\ Head(script'[u]).do = "write"
                           /\ stage'[u] = "erased" => stage'[Other(u)] # "erased"
    BY <1>1, <1>2, <1>4, <1>5, OtherLemma DEF StageOK
  <2> QED
    BY <1>1, <1>2, <2>1, <2>2 DEF StageOK
<1>7. HandleOK'
  <2>1. flash_hdl' \in [by : Writers \cup {"none"}, at : Sectors, open : BOOLEAN]
    BY <1>1, SectorsLemma
  <2>2. flash_hdl'.by = t /\ flash_hdl'.open
    BY <1>1
  <2> QED
    BY <1>1, <1>2, <1>4, <1>5, <2>1, <2>2 DEF HandleOK
<1>8. InstalledOK'
  <2> SUFFICES ASSUME installed # "none" PROVE InstalledOK'
    BY <1>1 DEF InstalledOK
  <2>1. ASSUME NEW u \in Writers, stage'[u] # "run", Head(script'[u]).kind = "first"
        PROVE  place'[Other(u)] = "base" /\ Taken(Other(u))'
    <3>1. CASE u = t
      <4>1. ~flash["base"].head
        BY <1>1, <2>1, <3>1 DEF Needed
      <4>2. PICK x \in Writers : place[x] = "base"
        BY <1>2, <4>1 DEF InstalledOK, Rewriting, Writers
      <4>3. x = Other(t)
        BY <1>5, <4>2, OtherLemma
      <4>4. flash_hdl'.by # Other(t)
        BY <1>1, OtherLemma
      <4> QED
        BY <1>1, <3>1, <4>2, <4>3, <4>4 DEF Taken
    <3>2. CASE u # t
      <4>1. stage[u] # "run" /\ Head(script[u]).kind = "first"
        BY <1>4, <1>5, <2>1, <3>2
      <4>2. place[Other(u)] = "base"
        BY <1>2, <4>1 DEF InstalledOK
      <4>3. Other(u) = t
        BY <3>2, OtherLemma
      <4> QED
        BY <1>5, <4>2, <4>3
    <3> QED
      BY <3>1, <3>2
  <2> QED
    BY <1>1, <1>2, <2>1 DEF InstalledOK, Configured, Rewriting, Configures
<1> QED
  BY <1>3, <1>6, <1>7, <1>8 DEF Sane

LEMMA SeekSane ==
  ASSUME SInv, NEW t \in Writers, Seek(t)
  PROVE  Sane'
<1> DEFINE e == Head(script[t])
<1>1. /\ Busy(t) /\ stage[t] = "opened" /\ e.do = "write" /\ Race(t)
      /\ flash_hdl' = [flash_hdl EXCEPT !.at = e.at]
      /\ stage' = [stage EXCEPT ![t] = "sought"]
      /\ UNCHANGED <<phase, firmware, flash, script, place, cache, local, overrun, beside>>
  BY DEF Seek, Writing, askVars
<1>2. /\ Sane /\ StageOK /\ HandleOK /\ InstalledOK /\ script[t] # <<>> /\ e \in Forms
      /\ e.at \in Sectors
  BY <1>1, BusyLemma DEF SInv, Sane, Forms
<1>3. FormOK' /\ ValuesOK' /\ BaseOK' /\ ParamsOK' /\ WholeOK'
  BY <1>1, <1>2, SameKept DEF Race
<1>4. stage'[t] = "sought" /\ \A u \in Writers \ {t} : stage'[u] = stage[u]
  BY <1>1, <1>2 DEF StageOK
<1>5. place[t] = "none" /\ \A u \in Writers : place'[u] = place[u] /\ script'[u] = script[u]
  BY <1>1, <1>2 DEF StageOK
<1>6. StageOK'
  <2>1. stage' \in [Writers -> {"run", "opened", "sought", "erased"}]
    BY <1>1, <1>2 DEF StageOK
  <2>2. \A u \in Writers : /\ (stage'[u] = "erased") = (place'[u] # "none")
                           /\ stage'[u] # "run" => /\ script'[u] # <<>>
                                                   /\ Head(script'[u]).do = "write"
                           /\ stage'[u] = "erased" => stage'[Other(u)] # "erased"
    BY <1>1, <1>2, <1>4, <1>5, OtherLemma DEF StageOK
  <2> QED
    BY <1>1, <1>2, <2>1, <2>2 DEF StageOK
<1> HIDE DEF e
<1>7. flash_hdl' \in [by : Writers \cup {"none"}, at : Sectors, open : BOOLEAN]
  BY <1>1, <1>2 DEF HandleOK
<1>8. /\ flash_hdl'.by = flash_hdl.by /\ flash_hdl'.open = flash_hdl.open /\ flash_hdl'.at = e.at
  BY <1>1, <1>2 DEF HandleOK
<1>9. CASE raced' = TRUE /\ installed' = "none"
  BY <1>3, <1>6, <1>7, <1>9, RacedSane
<1>10. CASE raced' = FALSE /\ raced = FALSE /\ installed' = installed /\ flash_hdl.by = t
  <2>1. HandleOK'
    <3>1. flash_hdl.open
      BY <1>1, <1>2, <1>10 DEF HandleOK
    <3>2. \A u \in Writers : flash_hdl'.by = u => u = t
      BY <1>8, <1>10
    <3>3. \A u \in Writers : place'[u] # "none" => place'[u] = Head(script'[u]).at
      BY <1>2, <1>5, <1>10 DEF HandleOK
    <3>4. e = Head(script'[t])
      BY <1>5 DEF e
    <3> QED
      BY <1>7, <1>8, <1>10, <3>1, <3>2, <3>3, <3>4 DEF HandleOK
  <2>2. InstalledOK'
    <3> SUFFICES ASSUME installed # "none" PROVE InstalledOK'
      BY <1>10 DEF InstalledOK
    <3>1. ASSUME NEW u \in Writers, stage'[u] # "run", Head(script'[u]).kind = "first"
          PROVE  place'[Other(u)] = "base" /\ Taken(Other(u))'
      <4>1. stage[u] # "run" /\ Head(script[u]).kind = "first"
        BY <1>1, <1>4, <1>5, <3>1
      <4>2. place[Other(u)] = "base" /\ Taken(Other(u))
        BY <1>2, <4>1 DEF InstalledOK
      <4> QED
        BY <1>1, <1>8, <4>2 DEF Taken
    <3> QED
      BY <1>1, <1>2, <1>10, <3>1 DEF InstalledOK, Configured, Rewriting, Configures
  <2> QED
    BY <1>3, <1>6, <2>1, <2>2 DEF Sane
<1> QED
  BY <1>1, <1>9, <1>10, RaceLemma

(* A step that leaves the base and the register tables to a writer of others. *)
LEMMA NotConfigured ==
  ASSUME SInv, NEW t \in Writers, script[t] # <<>>, Head(script[t]).do = "write",
         Head(script[t]).at \in {"base", "reg1", "reg2"}
  PROVE  /\ Head(script[t]).at # "base" => Head(script[t]).kind = "table"
         /\ Head(script[t]).kind \in {"conf", "table"} => Configures(script[t])
<1>1. Form(script[t])
  BY DEF SInv, Sane, FormOK
<1>2. Head(script[t]) \in Forms
  BY <1>1, FormRest
<1>3. Head(script[t]).at # "base" => Head(script[t]).kind = "table"
  BY <1>2 DEF Forms, Kinds
<1> QED
  BY <1>1, <1>3, ConfiguresRest

LEMMA RewriteFails ==
  ASSUME SInv, NEW t \in Writers, Rewrite(t), ~flash_hdl.open, script' = Rest(t),
         stage' = [stage EXCEPT ![t] = "run"], UNCHANGED <<flash, place, cache>>
  PROVE  Sane'
<1>1. /\ Busy(t) /\ stage[t] = "sought" /\ Race(t) /\ Head(script[t]).do = "write"
      /\ UNCHANGED <<phase, firmware, flash_hdl, local, overrun, beside>>
  BY DEF Rewrite, Writing, askVars
<1>2. /\ Sane /\ StageOK /\ HandleOK /\ ValuesOK /\ script[t] # <<>>
      /\ phase # "boot" /\ (t = "shell" => phase = "up")
  BY <1>1, BusyLemma DEF SInv, Sane
<1>3. raced' = TRUE /\ installed' = "none"
  <2>1. raced \/ flash_hdl.by # t
    BY <1>1, <1>2 DEF HandleOK
  <2> QED
    BY <1>1, <2>1, RaceLemma
<1>4. FormOK' /\ \A u \in Writers \ {t} : script'[u] = script[u]
  BY <1>2, MovesRest DEF SInv, Sane, Moves
<1>5. StageOK'
  <2>1. stage' \in [Writers -> {"run", "opened", "sought", "erased"}]
    BY <1>2 DEF StageOK
  <2>2. stage'[t] = "run" /\ \A u \in Writers \ {t} : stage'[u] = stage[u]
    BY <1>2 DEF StageOK
  <2>3. place[t] = "none"
    BY <1>1, <1>2 DEF StageOK
  <2>4. \A u \in Writers : /\ (stage'[u] = "erased") = (place'[u] # "none")
                           /\ stage'[u] # "run" => /\ script'[u] # <<>>
                                                   /\ Head(script'[u]).do = "write"
                           /\ stage'[u] = "erased" => stage'[Other(u)] # "erased"
    BY <1>2, <1>4, <2>2, <2>3, OtherLemma DEF StageOK
  <2>5. phase # "up" => script'["shell"] = <<>>
    BY <1>2, <1>4 DEF StageOK, Writers
  <2> QED
    BY <1>1, <1>2, <2>1, <2>4, <2>5 DEF StageOK
<1>6. ValuesOK'
  BY <1>1, <1>2 DEF ValuesOK, Values, Records
<1> QED
  BY <1>1, <1>2, <1>3, <1>4, <1>5, <1>6, RacedSane DEF HandleOK

LEMMA RewriteErases ==
  ASSUME SInv, NEW t \in Writers, Rewrite(t), UNCHANGED script,
         NEW s \in Sectors, s = flash_hdl.at \/ Taken(t), place' = [place EXCEPT ![t] = s],
         cache' = [cache EXCEPT ![t] = flash[s]], flash' = [flash EXCEPT ![s] = Blank(s)],
         stage' = [stage EXCEPT ![t] = "erased"]
  PROVE  Sane'
<1> DEFINE e == Head(script[t])
           o == Other(t)
<1>1. /\ Busy(t) /\ stage[t] = "sought" /\ Race(t) /\ e.do = "write" /\ stage[o] # "erased"
      /\ UNCHANGED <<phase, firmware, flash_hdl, local, overrun, beside>>
  BY DEF Rewrite, Writing, askVars
<1>2. /\ Sane /\ StageOK /\ HandleOK /\ ValuesOK /\ FormOK /\ script[t] # <<>> /\ phase # "boot"
      /\ o \in Writers /\ o # t /\ \A u \in Writers : u = t \/ u = o
  BY <1>1, BusyLemma, OtherLemma DEF SInv, Sane
<1>3. DOMAIN flash = Sectors
  BY DEF SInv, IInv, RecordOK
<1> HIDE DEF e, o
<1>4. /\ flash'[s] = Blank(s) /\ \A x \in Sectors \ {s} : flash'[x] = flash[x]
  BY <1>3
<1>5. /\ place'[t] = s /\ cache'[t] = flash[s] /\ stage'[t] = "erased"
      /\ place'[o] = place[o] /\ cache'[o] = cache[o] /\ stage'[o] = stage[o]
  BY <1>2 DEF StageOK
<1>6. place[t] = "none" /\ place[o] = "none" /\ "none" \notin Sectors /\ s # "none"
  BY <1>1, <1>2, SectorsLemma DEF StageOK
<1>7. FormOK'
  BY <1>2, MovesNot DEF Moves
<1>8. StageOK'
  <2>1. /\ stage' \in [Writers -> {"run", "opened", "sought", "erased"}]
        /\ place' \in [Writers -> Sectors \cup {"none"}] /\ DOMAIN cache' = Writers
    BY <1>2 DEF StageOK
  <2>2. \A u \in Writers : /\ (stage'[u] = "erased") = (place'[u] # "none")
                           /\ stage'[u] # "run" => /\ script'[u] # <<>>
                                                   /\ Head(script'[u]).do = "write"
                           /\ stage'[u] = "erased" => stage'[Other(u)] # "erased"
    BY <1>1, <1>2, <1>5, <1>6, OtherLemma DEF StageOK, e, o
  <2> QED
    BY <1>1, <1>2, <2>1, <2>2 DEF StageOK
<1>9. ValuesOK'
  <2>1. flash[s] \in Values(s)
    BY <1>2 DEF ValuesOK
  <2>2. \A x \in Sectors : flash'[x] \in Values(x)
    BY <1>2, <1>4, ValuesLemma DEF ValuesOK
  <2>3. \A u \in Writers : place'[u] # "none" => cache'[u] \in Values(place'[u])
    BY <1>2, <1>5, <1>6, <2>1
  <2> QED
    BY <1>1, <1>2, <2>2, <2>3 DEF ValuesOK, Values, Records
<1>10. CASE raced' = TRUE /\ installed' = "none"
  BY <1>1, <1>2, <1>7, <1>8, <1>9, <1>10, RacedSane DEF HandleOK
<1>11. CASE raced' = FALSE /\ raced = FALSE /\ installed' = installed /\ ~Taken(t) /\ flash_hdl.by = t
  <2>1. s = e.at
    BY <1>1, <1>2, <1>11 DEF HandleOK, e
  <2>2. HandleOK'
    <3>1. flash_hdl.open /\ flash_hdl.at = s
      BY <1>1, <1>2, <1>11 DEF HandleOK
    <3>2. \A u \in Writers : place'[u] # "none" => place'[u] = Head(script'[u]).at
      BY <1>2, <1>5, <1>6, <2>1 DEF e
    <3>3. \A u \in Writers : flash_hdl'.by = u => u = t
      BY <1>1, <1>11
    <3>4. flash_hdl'.at = Head(script'[t]).at
      BY <1>1, <2>1, <3>1 DEF e
    <3> QED
      BY <1>1, <1>2, <1>11, <3>1, <3>2, <3>3, <3>4 DEF HandleOK
  <2>3. Rewriting("base")' = (s = "base") /\ ~Rewriting("base")
    BY <1>2, <1>5, <1>6 DEF Rewriting, Writers
  <2>4. "base" \in Sectors /\ "params" \in Sectors /\ "reg1" \in Sectors /\ "reg2" \in Sectors
    BY SectorsLemma
  <2>5. BaseOK'
    <3>1. Good(flash["base"])
      BY <1>2, <1>11, <2>3 DEF Sane, BaseOK
    <3>2. \A b : Good(b) => Good(b)'
      BY <1>1 DEF Good, Repairs, Has
    <3>3. ~Rewriting("base")' => Good(flash["base"])'
      BY <1>4, <2>3, <2>4, <3>1, <3>2 DEF Good
    <3>4. \A u \in Writers : place'[u] = "base" => Good(cache[u])' 
      BY <1>2, <1>5, <1>6, <3>1, <3>2 DEF Good
    <3> QED
      BY <3>3, <3>4 DEF BaseOK
  <2>6. ParamsOK'
    <3>1. s = "params" => Rewriting("params")'
      BY <1>2, <1>5 DEF Rewriting, Writers
    <3>2. s # "params" => flash'["params"] = flash["params"]
      BY <1>4, <2>4
    <3>3. ~Rewriting("params")
      BY <1>2, <1>6 DEF Rewriting, Writers
    <3>4. (Ordering => Ordering') /\ (Repairs("idle") => Repairs("idle")')
      BY <1>1 DEF Ordering, Repairs, Has
    <3> QED
      BY <1>1, <1>2, <1>11, <3>1, <3>2, <3>3, <3>4 DEF Sane, ParamsOK
  <2>7. ASSUME s \in {"reg1", "reg2"}
        PROVE  Configures(script[t]) /\ Plans(script[t], s)
    <3>1. Configures(script[t]) /\ e.kind = "table"
      BY <1>1, <1>2, <2>1, <2>7, NotConfigured DEF e
    <3>2. e = script[t][1] /\ 1 \in 1 .. Len(script[t])
      BY <1>2, FormRest DEF FormOK, e
    <3> QED
      BY <1>1, <2>1, <3>1, <3>2 DEF Plans
  <2>8. ASSUME NEW c, Configured(c)
        PROVE  Configured(c)'
    <3>1. flash["base"].conf = c
      BY <2>3, <2>8 DEF Configured
    <3>2. ~Rewriting("base")' => flash'["base"].conf = c
      BY <1>4, <2>3, <2>4, <3>1
    <3>3. \A u \in Writers : place'[u] = "base" => cache'[u].conf = c
      BY <1>2, <1>5, <1>6, <3>1
    <3> QED
      BY <3>2, <3>3 DEF Configured
  <2>9. WholeOK'
    <3> SUFFICES ASSUME ~beside, NEW c, Counting(script["upload"], c)
                 PROVE  /\ ~Configures(script["shell"]) /\ phase = "up"
                        /\ Plans(script["upload"], "base") \/ Configured(c)'
                        /\ Plans(script["upload"], "reg1") \/ flash'["reg1"] = c
                        /\ Plans(script["upload"], "reg2") \/ flash'["reg2"] = c
      BY <1>1 DEF WholeOK, Configures, Plans, Counting, Counts
    <3>1. /\ ~Configures(script["shell"]) /\ phase = "up"
          /\ Plans(script["upload"], "base") \/ Configured(c)
          /\ Plans(script["upload"], "reg1") \/ flash["reg1"] = c
          /\ Plans(script["upload"], "reg2") \/ flash["reg2"] = c
      BY <1>2, <1>11 DEF Sane, WholeOK
    <3>2. ASSUME NEW x \in {"reg1", "reg2"}
          PROVE  Plans(script["upload"], x) \/ flash'[x] = flash[x]
      <4>1. CASE s = x
        <5>1. Configures(script[t]) /\ Plans(script[t], x)
          BY <2>7, <4>1
        <5>2. t = "upload"
          BY <3>1, <5>1 DEF Writers
        <5> QED
          BY <5>1, <5>2
      <4>2. CASE s # x
        BY <1>4, <2>4, <4>2
      <4> QED
        BY <4>1, <4>2
    <3> QED
      BY <2>8, <3>1, <3>2
  <2>10. InstalledOK'
    <3> SUFFICES ASSUME installed # "none" PROVE InstalledOK'
      BY <1>11 DEF InstalledOK
    <3>1. /\ ~raced /\ \A u \in Writers : ~Configures(script[u])
          /\ Configured(installed) /\ flash["reg1"] = installed /\ flash["reg2"] = installed
          /\ flash["base"].head
          /\ \A u \in Writers : stage[u] # "run" /\ Head(script[u]).kind = "first"
                                  => place[Other(u)] = "base" /\ Taken(Other(u))
      BY <1>2, <2>3 DEF Sane, InstalledOK
    <3>2. s \notin {"reg1", "reg2"}
      BY <2>7, <3>1
    <3>3. flash'["reg1"] = installed /\ flash'["reg2"] = installed
      BY <1>4, <2>4, <3>1, <3>2
    <3>4. Configured(installed)'
      <4>1. Configured(installed)
        BY <3>1
      <4> QED
        BY <1>11, <2>8, <4>1 DEF Configured, Rewriting
    <3>5. /\ ~Rewriting("base")' => flash'["base"].head
          /\ \A u \in Writers : place'[u] = "base" => cache'[u].head
      BY <1>2, <1>4, <1>5, <1>6, <2>3, <2>4, <3>1
    <3>6. \A u \in Writers : ~(stage'[u] # "run" /\ Head(script'[u]).kind = "first")
      <4>1. \A u \in Writers : place[Other(u)] # "base"
        BY <1>2, <1>6, OtherLemma
      <4> QED
        BY <1>1, <1>2, <1>5, <3>1, <4>1
    <3>7. \A u \in Writers : ~Configures(script[u])'
      BY <3>1 DEF Configures
    <3> QED
      BY <1>11, <3>3, <3>4, <3>5, <3>6, <3>7 DEF InstalledOK
  <2> QED
    BY <1>7, <1>8, <1>9, <2>2, <2>5, <2>6, <2>9, <2>10 DEF Sane
<1> QED
  BY <1>1, <1>10, <1>11, RaceLemma

LEMMA RewriteSane ==
  ASSUME SInv, NEW t \in Writers, Rewrite(t)
  PROVE  Sane'
<1>1. flash_hdl.at \in Sectors
  BY DEF SInv, Sane, HandleOK
<1>2. CASE ~flash_hdl.open /\ script' = Rest(t) /\ stage' = [stage EXCEPT ![t] = "run"]
           /\ UNCHANGED <<flash, place, cache>>
  BY <1>2, RewriteFails
<1>3. CASE \E s \in IF Taken(t) THEN {flash_hdl.at, Following(flash_hdl.at)} ELSE {flash_hdl.at} :
             /\ place' = [place EXCEPT ![t] = s] /\ cache' = [cache EXCEPT ![t] = flash[s]]
             /\ flash' = [flash EXCEPT ![s] = Blank(s)]
             /\ stage' = [stage EXCEPT ![t] = "erased"] /\ UNCHANGED script
  <2>1. PICK s \in IF Taken(t) THEN {flash_hdl.at, Following(flash_hdl.at)} ELSE {flash_hdl.at} :
             /\ place' = [place EXCEPT ![t] = s] /\ cache' = [cache EXCEPT ![t] = flash[s]]
             /\ flash' = [flash EXCEPT ![s] = Blank(s)]
             /\ stage' = [stage EXCEPT ![t] = "erased"] /\ UNCHANGED script
    BY <1>3
  <2>2. s \in Sectors /\ (s = flash_hdl.at \/ Taken(t))
    BY <1>1, FollowingLemma
  <2> QED
    BY <2>1, <2>2, RewriteErases
<1> QED
  BY <1>2, <1>3 DEF Rewrite

LEMMA ProgramSane ==
  ASSUME SInv, NEW t \in Writers, Program(t)
  PROVE  Sane'
<1> DEFINE e == Head(script[t])
           o == Other(t)
           s == place[t]
           a == flash_hdl.at
<1>1. /\ Busy(t) /\ stage[t] = "erased" /\ e.do = "write" /\ Race(t) /\ script' = Rest(t)
      /\ stage' = [stage EXCEPT ![t] = "run"] /\ place' = [place EXCEPT ![t] = "none"]
      /\ cache' = [cache EXCEPT ![t] = Blank("didi")]
      /\ UNCHANGED <<phase, firmware, local, overrun, beside>>
      /\ flash_hdl' = IF Taken(t) THEN flash_hdl ELSE Closed(t, a)
  BY DEF Program, Writing, askVars
<1>2. /\ Sane /\ StageOK /\ HandleOK /\ ValuesOK /\ FormOK /\ script[t] # <<>> /\ phase # "boot"
      /\ o \in Writers /\ o # t /\ \A u \in Writers : u = t \/ u = o
      /\ e \in Forms /\ (t = "shell" => phase = "up") /\ Form(script[t])
  BY <1>1, BusyLemma, OtherLemma DEF SInv, Sane
<1>3. DOMAIN flash = Sectors /\ firmware \in Versions
  BY DEF SInv, IInv, RecordOK
<1>4. PICK v \in IF s = e.at THEN {New(e, cache[t])} ELSE Junk(s) : flash' = [flash EXCEPT ![s] = v]
  BY DEF Program
<1>5. Moves(t, e) /\ script'[t] = Tail(script[t])
  BY <1>1, <1>2, MovesRest DEF SInv
<1>6. /\ s \in Sectors /\ cache[t] \in Values(s) /\ place[o] = "none" /\ stage[o] # "erased"
      /\ "none" \notin Sectors
  BY <1>1, <1>2, SectorsLemma DEF StageOK, ValuesOK
<1> HIDE DEF e, o, s, a
<1>7. flash'[s] = v /\ \A x \in Sectors \ {s} : flash'[x] = flash[x]
  BY <1>3, <1>4, <1>6
<1>8. /\ place'[t] = "none" /\ stage'[t] = "run" /\ \A u \in Writers : place'[u] = "none"
      /\ place'[o] = place[o] /\ cache'[o] = cache[o] /\ stage'[o] = stage[o]
      /\ script'[o] = script[o]
  BY <1>1, <1>2, <1>5, <1>6 DEF StageOK, Moves
<1>9. v \in Values(s)
  BY <1>1, <1>2, <1>3, <1>4, <1>6, NewValues, ValuesLemma
<1>10. FormOK'
  BY <1>5 DEF Moves
<1>11. StageOK'
  <2>1. /\ stage' \in [Writers -> {"run", "opened", "sought", "erased"}]
        /\ place' \in [Writers -> Sectors \cup {"none"}] /\ DOMAIN cache' = Writers
    BY <1>1, <1>2 DEF StageOK
  <2>2. \A u \in Writers : /\ (stage'[u] = "erased") = (place'[u] # "none")
                           /\ stage'[u] # "run" => /\ script'[u] # <<>>
                                                   /\ Head(script'[u]).do = "write"
                           /\ stage'[u] = "erased" => stage'[Other(u)] # "erased"
    BY <1>1, <1>2, <1>6, <1>8, OtherLemma DEF StageOK, o
  <2>3. phase # "up" => script'["shell"] = <<>>
    BY <1>2, <1>8 DEF StageOK, Writers
  <2> QED
    BY <1>1, <1>2, <2>1, <2>2, <2>3 DEF StageOK
<1>12. ValuesOK'
  <2>1. \A x \in Sectors : flash'[x] \in Values(x)
    BY <1>2, <1>7, <1>9 DEF ValuesOK
  <2> QED
    BY <1>1, <1>2, <1>8, <2>1 DEF ValuesOK, Values, Records
<1>13. flash_hdl' \in [by : Writers \cup {"none"}, at : Sectors, open : BOOLEAN]
       /\ (~Taken(t) => flash_hdl'.by \in {t, "none"})
  <2>1. a \in Sectors
    BY <1>2 DEF HandleOK, a
  <2>2. Closed(t, a) \in [by : Writers \cup {"none"}, at : Sectors, open : BOOLEAN]
    BY <2>1, SectorsLemma DEF Closed, NoHandle
  <2>3. Closed(t, a).by \in {t, "none"}
    BY DEF Closed, NoHandle
  <2> QED
    BY <1>1, <1>2, <2>2, <2>3 DEF HandleOK
<1>14. CASE raced' = TRUE /\ installed' = "none"
  BY <1>10, <1>11, <1>12, <1>13, <1>14, RacedSane
<1>15. CASE raced' = FALSE /\ raced = FALSE /\ installed' = installed /\ ~Taken(t) /\ flash_hdl.by = t
  <2>1. s = e.at /\ v = New(e, cache[t])
    BY <1>2, <1>4, <1>6, <1>15 DEF HandleOK, e, s
  <2>2. HandleOK'
    <3>1. flash_hdl'.by # o
      BY <1>2, <1>13, <1>15 DEF Writers
    <3> QED
      BY <1>2, <1>8, <1>13, <1>15, <3>1 DEF HandleOK
  <2>3. e.kind \in Kinds(s) /\ "base" \in Sectors /\ "params" \in Sectors /\ "reg1" \in Sectors
        /\ "reg2" \in Sectors
    BY <1>1, <1>2, <2>1, SectorsLemma DEF Forms
  <2>4. Rewriting("base") = (s = "base") /\ ~Rewriting("base")'
        /\ Rewriting("params") = (s = "params")
    BY <1>2, <1>6, <1>8, SectorsLemma DEF Rewriting, Writers, s
  <2>5. \A k \in {"first", "soft", "idle"} : Repairs(k) => Repairs(k)' \/ (t = "upload" /\ e.kind = k)
    BY <1>1, <1>5, RepairsKept
  <2>6. s = "base" => /\ cache[t].head \/ e.kind = "first" => v.head
                      /\ cache[t].soft = firmware \/ e.kind \in {"first", "soft"} => v.soft = firmware
                      /\ e.kind = "conf" => v.conf = e.val
                      /\ e.kind \notin {"conf", "first"} => v.conf = cache[t].conf
    BY <1>1, <1>2, <1>3, <1>6, <2>1, BaseNew
  <2>7. BaseOK'
    <3>1. CASE s = "base"
      <4>1. Good(cache[t])
        BY <1>2, <1>15, <3>1 DEF Sane, BaseOK, s
      <4>2. Good(flash["base"])'
        BY <1>1, <1>7, <2>5, <2>6, <3>1, <4>1 DEF Good
      <4> QED
        BY <1>8, <1>6, <2>3, <4>2 DEF BaseOK
    <3>2. CASE s # "base"
      <4>1. Good(flash["base"])
        BY <1>2, <1>15, <2>4, <3>2 DEF Sane, BaseOK
      <4>2. e.kind \notin {"first", "soft"}
        BY <2>3, <3>2 DEF Kinds
      <4>3. Good(flash["base"])'
        BY <1>1, <1>7, <2>3, <2>5, <3>2, <4>1, <4>2 DEF Good
      <4> QED
        BY <1>8, <1>6, <2>3, <4>3 DEF BaseOK
    <3> QED
      BY <3>1, <3>2
  <2>8. ParamsOK'
    <3>1. CASE s = "params"
      <4>1. v.sig
        BY <1>1, <1>2, <1>3, <2>1, <3>1, ParamsNew
      <4> QED
        BY <1>7, <3>1, <4>1 DEF ParamsOK
    <3>2. CASE s # "params"
      <4>1. e.kind \notin {"idle", "order"}
        BY <2>3, <3>2 DEF Kinds
      <4>2. Ordering => Ordering'
        BY <1>5, <4>1, OrderingKept
      <4>3. flash'["params"] = flash["params"]
        BY <1>7, <2>3, <3>2
      <4> QED
        BY <1>1, <1>2, <1>15, <2>4, <2>5, <3>2, <4>1, <4>2, <4>3 DEF Sane, ParamsOK
    <3> QED
      BY <3>1, <3>2
  <2>9. \A x \in {"base", "reg1", "reg2"} : e.kind \in {"conf", "table"} /\ s = x => Configures(script[t])
    BY <1>1, <1>2, <2>1, NotConfigured DEF e
  <2>10. \A x \in {"reg1", "reg2"} : s = x => e.kind = "table" /\ v = e.val
    BY <1>1, <1>2, <2>1, TableNew
  <2>11. WholeOK'
    <3> SUFFICES ASSUME ~beside, NEW c, Counting(script'["upload"], c)
                 PROVE  /\ ~Configures(script'["shell"]) /\ phase = "up"
                        /\ Plans(script'["upload"], "base") \/ Configured(c)'
                        /\ Plans(script'["upload"], "reg1") \/ flash'["reg1"] = c
                        /\ Plans(script'["upload"], "reg2") \/ flash'["reg2"] = c
      BY <1>1 DEF WholeOK, Configures, Plans, Counting, Counts
    <3>1. Counting(script["upload"], c)
      BY <1>5 DEF Moves
    <3>2. /\ ~Configures(script["shell"]) /\ phase = "up"
          /\ Plans(script["upload"], "base") \/ Configured(c)
          /\ Plans(script["upload"], "reg1") \/ flash["reg1"] = c
          /\ Plans(script["upload"], "reg2") \/ flash["reg2"] = c
      BY <1>2, <1>15, <3>1 DEF Sane, WholeOK
    <3>3. ~Configures(script'["shell"])
      BY <1>5, <3>2 DEF Moves, Writers
    <3>4. \A x : Plans(script["upload"], x)
                   => \/ Plans(script'["upload"], x)
                      \/ t = "upload" /\ e.at = x /\ e.kind \in {"conf", "table"}
      BY <1>5, <3>1 DEF Moves
    <3>5. e.kind \in {"conf", "table"} /\ s \in {"base", "reg1", "reg2"} => t = "upload" /\ e.val = c
      <4> SUFFICES ASSUME e.kind \in {"conf", "table"}, s \in {"base", "reg1", "reg2"}
                   PROVE  t = "upload" /\ e.val = c
        OBVIOUS
      <4>1. t = "upload"
        BY <2>9, <3>2 DEF Writers
      <4> QED
        BY <1>2, <3>1, <4>1, CountingRest DEF e
    <3>6. ASSUME NEW x \in {"reg1", "reg2"}, Plans(script["upload"], x) \/ flash[x] = c
          PROVE  Plans(script'["upload"], x) \/ flash'[x] = c
      <4>1. CASE s = x
        BY <1>7, <2>10, <3>5, <4>1
      <4>2. CASE s # x
        <5>1. flash'[x] = flash[x]
          BY <1>7, <2>3, <4>2
        <5> QED
          BY <2>1, <3>4, <3>6, <4>2, <5>1
      <4> QED
        BY <4>1, <4>2
    <3>7. Plans(script'["upload"], "base") \/ flash'["base"].conf = c
      <4>1. CASE s = "base" /\ e.kind = "conf"
        BY <1>7, <2>6, <3>5, <4>1
      <4>2. CASE s = "base" /\ e.kind = "first"
        <5>1. Has(script[t], "first")
          BY <1>2, <4>2, HasRest DEF e
        <5>2. t = "upload"
          BY <1>2, <5>1 DEF FormOK, Writers
        <5> QED
          BY <1>2, <1>5, <3>1, <4>2, <5>2, CountingRest DEF e
      <4>3. CASE s = "base" /\ e.kind \notin {"conf", "first"}
        <5>1. e.kind # "table"
          BY <2>3, <4>3 DEF Kinds
        <5>2. v.conf = cache[t].conf /\ flash'["base"] = v
          BY <1>7, <2>6, <4>3
        <5>3. Configured(c) => cache[t].conf = c
          BY <4>3 DEF Configured, s
        <5> QED
          BY <3>2, <3>4, <4>3, <5>1, <5>2, <5>3
      <4>4. CASE s # "base"
        <5>1. flash'["base"] = flash["base"]
          BY <1>7, <2>3, <4>4
        <5>2. Configured(c) => flash["base"].conf = c
          BY <2>4, <4>4 DEF Configured
        <5> QED
          BY <2>1, <3>2, <3>4, <4>4, <5>1, <5>2
      <4> QED
        BY <4>1, <4>2, <4>3, <4>4
    <3>8. flash'["base"].conf = c => Configured(c)'
      BY <1>6, <1>8, <2>3 DEF Configured
    <3> QED
      BY <3>2, <3>3, <3>6, <3>7, <3>8
  <2>12. InstalledOK'
    <3> SUFFICES ASSUME installed # "none" PROVE InstalledOK'
      BY <1>15 DEF InstalledOK
    <3>1. /\ \A u \in Writers : ~Configures(script[u])
          /\ Configured(installed) /\ flash["reg1"] = installed /\ flash["reg2"] = installed
          /\ ~Rewriting("base") => flash["base"].head
          /\ \A u \in Writers : place[u] = "base" => cache[u].head
          /\ \A u \in Writers : stage[u] # "run" /\ Head(script[u]).kind = "first"
                                  => place[Other(u)] = "base" /\ Taken(Other(u))
      BY <1>2 DEF Sane, InstalledOK
    <3>2. \A u \in Writers : ~Configures(script'[u])
      BY <1>5, <3>1 DEF Moves
    <3>3. e.kind # "first"
      BY <1>1, <1>2, <1>6, <2>3, <3>1 DEF e, o
    <3>4. s \notin {"reg1", "reg2"} /\ (s = "base" => e.kind # "conf")
      BY <2>9, <2>10, <3>1
    <3>5. flash'["reg1"] = installed /\ flash'["reg2"] = installed
      BY <1>7, <2>3, <3>1, <3>4
    <3>6. flash'["base"].conf = installed /\ flash'["base"].head
      <4>1. CASE s = "base"
        BY <1>7, <2>6, <3>1, <3>3, <3>4, <4>1 DEF Configured, s
      <4>2. CASE s # "base"
        BY <1>7, <2>3, <2>4, <3>1, <4>2 DEF Configured
      <4> QED
        BY <4>1, <4>2
    <3>7. Configured(installed)'
      BY <1>6, <1>8, <1>15, <2>3, <3>6 DEF Configured
    <3>8. ASSUME NEW u \in Writers, stage'[u] # "run", Head(script'[u]).kind = "first"
          PROVE  FALSE
      <4>1. u = o
        BY <1>2, <1>8, <3>8
      <4>2. stage[o] # "run" /\ Head(script[o]).kind = "first"
        BY <1>8, <3>8, <4>1
      <4>3. Other(o) = t
        BY <1>2, OtherLemma
      <4>4. Taken(t)
        BY <1>2, <3>1, <4>2, <4>3
      <4> QED
        BY <1>15, <4>4
    <3>9. \A u \in Writers : ~Configures(script[u])'
      BY <3>2 DEF Configures
    <3>10. \A u \in Writers : place'[u] # "base"
      BY <1>6, <1>8, <2>3
    <3> QED
      BY <1>15, <3>5, <3>6, <3>7, <3>8, <3>9, <3>10 DEF InstalledOK
  <2> QED
    BY <1>10, <1>11, <1>12, <2>2, <2>7, <2>8, <2>11, <2>12 DEF Sane
<1> QED
  BY <1>1, <1>14, <1>15, RaceLemma

LEMMA EepromWriteSane ==
  ASSUME SInv, NEW t \in Writers, EepromWrite(t)
  PROVE  Sane'
  BY OpenSane, SkipSane, SeekSane, RewriteSane, ProgramSane DEF EepromWrite


-----------------------------------------------------------------------------
(* Downloads, commands and restarts.                                        *)
LEMMA UpdateScript ==
  ASSUME NEW v \in Orderable
  PROVE  ~Configures(UpdateTo(v)) /\ ~Has(UpdateTo(v), "first")
<1> DEFINE w == Write("params", "order", v)
           b == Step("reboot")
           s == UpdateTo(v)
<1>1. /\ w.at = "params" /\ w.kind = "order" /\ b.do = "reboot" /\ b.kind = "none"
      /\ Erase.do = "erase" /\ Erase.kind = "none"
  BY DEF Write, Step, Erase
<1>2. s = <<Erase, w, b>>
  BY DEF UpdateTo
<1> HIDE DEF w, b
<1>3. DOMAIN s = 1 .. 3 /\ Len(s) = 3 /\ s[1] = Erase /\ s[2] = w /\ s[3] = b
  BY <1>2
<1>4. \A i \in 1 .. 3 : i = 1 \/ i = 2 \/ i = 3
  OBVIOUS
<1> HIDE DEF s
<1>5. ~Configures(s)
  BY <1>1, <1>3, <1>4 DEF Configures
<1>6. ~Has(s, "first")
  BY <1>1, <1>3, <1>4 DEF Has
<1> QED
  BY <1>5, <1>6 DEF s

LEMMA TftpSane ==
  ASSUME SInv, Tftp
  PROVE  Sane'
<1> DEFINE e == Head(script["upload"])
<1>0. "upload" \in Writers /\ "none" \notin {"conf", "table"} /\ "upload" # "shell"
  BY DEF Writers
<1>1. /\ Busy("upload") /\ stage["upload"] = "run" /\ e.do = "tftp"
      /\ UNCHANGED <<phase, firmware, flash, flash_hdl, stage, place, cache, raced, overrun, beside,
                     installed>>
  BY DEF Tftp, Now, histVars
<1>2. /\ script["upload"] # <<>> /\ phase # "boot" /\ e.kind = "none" /\ flash_hdl.at \in Sectors
      /\ local \in Versions \cup {"none", "partial"}
  BY <1>0, <1>1, BusyLemma
<1>3. script' = Rest("upload") \/ script' = [script EXCEPT !["upload"] = <<>>]
  BY DEF Tftp
<1>4. local' \in Versions \cup {"none", "partial"}
  BY <1>2 DEF Tftp
<1>5. Moves("upload", e)
  <2>1. CASE script' = Rest("upload")
    BY <1>0, <1>2, <2>1, MovesRest DEF SInv, Sane
  <2>2. CASE script' = [script EXCEPT !["upload"] = <<>>]
    BY <1>0, <1>1, <1>2, <2>2, MovesEnds, SpinScript DEF SInv, Sane, Ends
  <2> QED
    BY <1>3, <2>1, <2>2
<1> HIDE DEF e
<1>6. BaseOK' /\ ParamsOK'
  BY <1>0, <1>1, <1>2, <1>5, PlainAside
<1> QED
  BY <1>0, <1>1, <1>2, <1>4, <1>5, <1>6, AsideKeeps

LEMMA AnalyseSane ==
  ASSUME SInv, Analyse
  PROVE  Sane'
<1> DEFINE e == Head(script["upload"])
<1>0. "upload" \in Writers /\ "none" \notin {"conf", "table"} /\ "upload" # "shell"
  BY DEF Writers
<1>1. /\ Busy("upload") /\ stage["upload"] = "run" /\ e.do = "analyse"
      /\ UNCHANGED <<phase, firmware, flash, flash_hdl, stage, place, cache, raced, overrun, beside,
                     installed, local>>
  BY DEF Analyse, Now, histVars, askVars
<1>2. /\ script["upload"] # <<>> /\ phase # "boot" /\ e.kind = "none" /\ flash_hdl.at \in Sectors
      /\ local \in Versions \cup {"none", "partial"}
  BY <1>0, <1>1, BusyLemma
<1>3. PICK s : /\ script' = [script EXCEPT !["upload"] = s]
               /\ s = <<>> \/ s = <<Step("spin")>> \/ \E v \in Orderable : s = UpdateTo(v)
  <2>1. "junk" \in Orderable /\ Versions \subseteq Orderable
    BY DEF Orderable
  <2> QED
    BY <2>1 DEF Analyse
<1>4. Form(s) /\ ~Configures(s) /\ ~Has(s, "first") /\ \A i \in 1 .. Len(s) : ~Counts(s[i])
  <2>1. CASE s = <<>> \/ s = <<Step("spin")>>
    BY <2>1, SpinScript
  <2>2. ASSUME NEW v \in Orderable, s = UpdateTo(v)
        PROVE  Form(s) /\ ~Configures(s) /\ ~Has(s, "first") /\ \A i \in 1 .. Len(s) : ~Counts(s[i])
    BY <2>2, UpdatesForm, UpdateScript
  <2> QED
    BY <1>3, <2>1, <2>2
<1>5. Moves("upload", e)
  BY <1>0, <1>1, <1>2, <1>3, <1>4, MovesEnds DEF SInv, Sane, Ends
<1> HIDE DEF e
<1>6. BaseOK' /\ ParamsOK'
  BY <1>0, <1>1, <1>2, <1>5, PlainAside
<1> QED
  BY <1>0, <1>1, <1>2, <1>5, <1>6, AsideKeeps

LEMMA BeginsSane ==
  ASSUME SInv, NEW t \in Writers, NEW s, Form(s), Begins(t, s),
         t = "shell" => ~Has(s, "first") /\ \A i \in 1 .. Len(s) : ~Counts(s[i]),
         t = "upload" => \A i \in 1 .. Len(s) : Counts(s[i]) =>
           Configures(s) /\ Plans(s, "base") /\ Plans(s, "reg1") /\ Plans(s, "reg2")
  PROVE  Sane'
<1>1. /\ phase = "up" /\ script[t] = <<>> /\ stage[t] = "run" /\ script' = [script EXCEPT ![t] = s]
      /\ UNCHANGED <<phase, firmware, flash, flash_hdl, stage, place, cache, local, raced, overrun>>
      /\ installed' = IF Configures(s) THEN "none" ELSE installed
      /\ beside' = (beside \/ (Configures(s) /\ IF t = "shell" THEN script["upload"] # <<>>
                                                              ELSE Configures(script["shell"])))
  BY DEF Begins
<1>2. /\ FormOK /\ StageOK /\ ValuesOK /\ HandleOK /\ BaseOK /\ ParamsOK /\ WholeOK /\ InstalledOK
      /\ RecordOK /\ script \in [Writers -> Seq(Steps)] /\ "upload" \in Writers /\ "shell" \in Writers
      /\ "upload" # "shell" /\ "up" # "boot" /\ "up" # "init"
  BY DEF SInv, Sane, IInv, ScriptOK, Writers
<1>3. script'[t] = s /\ \A u \in Writers \ {t} : script'[u] = script[u]
  BY <1>1, <1>2
<1>4. t = "shell" => script'["shell"] = s /\ script'["upload"] = script["upload"]
  BY <1>2, <1>3
<1>5. t = "upload" => script'["upload"] = s /\ script'["shell"] = script["shell"]
  BY <1>2, <1>3
<1>6. t = "shell" \/ t = "upload"
  BY DEF Writers
<1>7. \A k : ~Repairs(k)
  BY <1>1, <1>2 DEF Repairs
<1>8. FormOK'
  <2>1. \A u \in Writers : Form(script'[u])
    BY <1>2, <1>3 DEF FormOK
  <2>2. ~Has(script'["shell"], "first") /\ \A i \in 1 .. Len(script'["shell"]) : ~Counts(script'["shell"][i])
    BY <1>2, <1>4, <1>5, <1>6 DEF FormOK
  <2> HIDE DEF Form
  <2> QED
    BY <2>1, <2>2 DEF FormOK, Has, Counts
<1>9. StageOK'
  BY <1>1, <1>2, <1>3, StageFrame
<1>10. HandleOK'
  BY <1>1, <1>2, <1>3, SectorsLemma, HandleFrame
<1>11. ValuesOK'
  BY <1>1, <1>2, ValuesFrame DEF ValuesOK
<1>12. BaseOK'
  BY <1>1, <1>2, <1>7, BaseFrame
<1>13. Ordering => Ordering'
  <2>1. ASSUME NEW u \in Writers, Has(script[u], "order")
        PROVE  Has(script'[u], "order")
    <3>1. Len(<<>>) = 0 /\ \A i \in 1 .. 0 : FALSE
      OBVIOUS
    <3>2. script[u] # <<>>
      BY <2>1, <3>1 DEF Has
    <3> QED
      BY <1>1, <1>3, <2>1, <3>2
  <2> QED
    BY <2>1 DEF Ordering, Has, Writers
<1>14. ParamsOK'
  <2>1. Rewriting("params") => Rewriting("params")'
    BY <1>1 DEF Rewriting
  <2> QED
    BY <1>1, <1>2, <1>7, <1>13, <2>1, ParamsFrame
<1>15. WholeOK'
  <2> SUFFICES ASSUME ~raced', ~beside', NEW c, Counting(script'["upload"], c)
               PROVE  /\ ~Configures(script'["shell"]) /\ phase' = "up"
                      /\ Plans(script'["upload"], "base") \/ Configured(c)'
                      /\ Plans(script'["upload"], "reg1") \/ flash'["reg1"] = c
                      /\ Plans(script'["upload"], "reg2") \/ flash'["reg2"] = c
    BY DEF WholeOK, Configures, Plans, Counting, Counts
  <2>1. CASE t = "upload"
    <3>1. Configures(s) /\ Plans(s, "base") /\ Plans(s, "reg1") /\ Plans(s, "reg2")
      BY <1>5, <2>1 DEF Counting
    <3>2. ~Configures(script["shell"])
      BY <1>1, <1>2, <2>1, <3>1
    <3> QED
      BY <1>1, <1>5, <2>1, <3>1, <3>2
  <2>2. CASE t = "shell"
    <3>1. Counting(script["upload"], c)
      BY <1>4, <2>2
    <3>2. script["upload"] # <<>>
      <4>1. Len(<<>>) = 0 /\ \A i \in 1 .. 0 : FALSE
        OBVIOUS
      <4> QED
        BY <3>1, <4>1 DEF Counting
    <3>3. ~Configures(s) /\ ~raced /\ ~beside
      BY <1>1, <2>2, <3>2
    <3>4. /\ Plans(script["upload"], "base") \/ Configured(c)
          /\ Plans(script["upload"], "reg1") \/ flash["reg1"] = c
          /\ Plans(script["upload"], "reg2") \/ flash["reg2"] = c
      BY <1>2, <3>1, <3>3 DEF WholeOK
    <3>5. Configured(c) => Configured(c)'
      BY <1>1, ConfiguredKept
    <3> QED
      BY <1>1, <1>4, <2>2, <3>3, <3>4, <3>5
  <2> QED
    BY <1>6, <2>1, <2>2
<1>16. InstalledOK'
  <2> SUFFICES ASSUME installed' # "none" PROVE InstalledOK'
    BY DEF InstalledOK
  <2>1. installed' = installed /\ ~Configures(s)
    BY <1>1
  <2>2. /\ ~raced /\ \A u \in Writers : ~Configures(script[u])
        /\ Configured(installed) /\ flash["reg1"] = installed /\ flash["reg2"] = installed
        /\ ~Rewriting("base") => flash["base"].head
        /\ \A u \in Writers : place[u] = "base" => cache[u].head
        /\ \A u \in Writers : stage[u] # "run" /\ Head(script[u]).kind = "first"
                                => place[Other(u)] = "base" /\ Taken(Other(u))
    BY <1>2, <2>1 DEF InstalledOK
  <2>3. \A u \in Writers : ~Configures(script'[u])
    BY <1>3, <2>1, <2>2
  <2>4. Configured(installed)'
    BY <1>1, <2>1, <2>2 DEF Configured, Rewriting
  <2>5. \A u \in Writers : stage'[u] # "run" /\ Head(script'[u]).kind = "first"
                             => place'[Other(u)] = "base" /\ Taken(Other(u))'
    BY <1>1, <1>3, <2>2 DEF Taken
  <2>6. /\ ~raced' /\ flash'["reg1"] = installed' /\ flash'["reg2"] = installed'
        /\ ~Rewriting("base")' => flash'["base"].head
        /\ \A u \in Writers : place'[u] = "base" => cache'[u].head
    BY <1>1, <2>1, <2>2 DEF Rewriting
  <2> QED
    BY <2>3, <2>4, <2>5, <2>6 DEF InstalledOK, Configures
<1> QED
  BY <1>8, <1>9, <1>10, <1>11, <1>12, <1>14, <1>15, <1>16 DEF Sane

(* The shell never writes the first sector's head.                          *)
LEMMA ShellScripts ==
  ASSUME NEW file, NEW c, NEW v
  PROVE  /\ ~Has(Wbaseconfig(file, c), "first") /\ ~Has(Wregtable(file, c), "first")
         /\ ~Has(Wroutertable(file, c), "first") /\ ~Has(Wdidi_diantable(file, c), "first")
         /\ ~Has(SetField, "first") /\ ~Has(UpgradeDiCor(v), "first")
         /\ ~Has(<<Step("reboot")>>, "first")
<1> DEFINE d == [do |-> "overrun", at |-> "index", kind |-> "none", val |-> c]
           S == {Write("base", "conf", c), Write("reg1", "table", c), Write("reg2", "table", c), d,
                 Write("router", "table", c), Step("spin"), Write("index", "table", c),
                 Write("didi", "table", c), Write("base", "field", "none"),
                 Write("params", "order", v), Step("reboot")}
<1>1. \A e \in S : e.kind # "first"
  BY DEF Write, Step
<1>2. /\ <<>> \in Seq(S) /\ <<Write("base", "conf", c)>> \in Seq(S)
      /\ <<Write("reg1", "table", c), Write("reg2", "table", c)>> \in Seq(S)
      /\ <<Write("reg1", "table", c), Write("reg2", "table", c), d>> \in Seq(S)
      /\ <<Write("router", "table", c)>> \in Seq(S) /\ <<Step("spin")>> \in Seq(S)
      /\ <<Write("index", "table", c), Write("didi", "table", c)>> \in Seq(S)
      /\ <<Write("base", "field", "none")>> \in Seq(S)
      /\ <<Write("params", "order", v), Step("reboot")>> \in Seq(S)
      /\ <<Step("reboot")>> \in Seq(S)
  <2> HIDE DEF d
  <2> QED
    BY OneStep, TwoSteps, ThreeSteps
<1>3. /\ Wbaseconfig(file, c) \in Seq(S) /\ Wregtable(file, c) \in Seq(S)
      /\ Wroutertable(file, c) \in Seq(S) /\ Wdidi_diantable(file, c) \in Seq(S)
      /\ SetField \in Seq(S) /\ UpgradeDiCor(v) \in Seq(S)
  <2> HIDE DEF S
  <2> QED
    BY <1>2 DEF Wbaseconfig, Wregtable, Wroutertable, Wdidi_diantable, SetField, UpgradeDiCor, d
<1> HIDE DEF S
<1>4. ASSUME NEW s \in Seq(S) PROVE ~Has(s, "first")
  <2>1. \A i \in 1 .. Len(s) : s[i] \in S
    OBVIOUS
  <2> QED
    BY <1>1, <2>1 DEF Has
<1> QED
  BY <1>2, <1>3, <1>4

LEMMA EarlyBegins ==
  ASSUME SInv, NEW t \in Writers, NEW s \in Seq(Early), Begins(t, s),
         t = "shell" => ~Has(s, "first")
  PROVE  Sane'
  BY EarlyForm, NoCounts, BeginsSane

LEMMA CommandSane ==
  ASSUME SInv, Command
  PROVE  Sane'
<1>0. "upload" \in Writers /\ "upload" # "shell"
  BY DEF Writers
<1>1. ASSUME NEW b \in {"good", "bad"}, NEW r \in Files, NEW c \in Contents,
             Begins("upload", Install(b, r, c))
      PROVE  Sane'
  <2> DEFINE s == Install(b, r, c)
  <2>1. /\ Form(s)
        /\ \A i \in 1 .. Len(s) : Counts(s[i]) =>
             Configures(s) /\ Plans(s, "base") /\ Plans(s, "reg1") /\ Plans(s, "reg2")
    BY InstallForm
  <2>2. Begins("upload", s)
    BY <1>1
  <2> HIDE DEF s
  <2> QED
    BY <1>0, <2>1, <2>2, BeginsSane
<1>2. ASSUME NEW c \in Contents, Begins("upload", EepromWriteCoodaddr(c))
      PROVE  Sane'
  <2>1. EepromWriteCoodaddr(c) \in Seq(Early)
    BY TablesForm
  <2> QED
    BY <1>0, <1>2, <2>1, EarlyBegins
<1>3. ASSUME Begins("upload", <<Step("tftp"), Step("analyse")>>)
      PROVE  Sane'
  <2> DEFINE s == <<Step("tftp"), Step("analyse")>>
  <2>1. Form(s) /\ \A i \in 1 .. Len(s) : ~Counts(s[i])
    BY DownloadForm
  <2>2. Begins("upload", s)
    BY <1>3
  <2> HIDE DEF s
  <2> QED
    BY <1>0, <2>1, <2>2, BeginsSane
<1> QED
  BY <1>1, <1>2, <1>3 DEF Command

LEMMA ShellSane ==
  ASSUME SInv, Shell
  PROVE  Sane'
<1>0. "shell" \in Writers /\ "upload" # "shell"
  BY DEF Writers
<1>1. ASSUME NEW s \in Seq(Early), ~Has(s, "first"), Begins("shell", s)
      PROVE  Sane'
  BY <1>0, <1>1, EarlyBegins
<1>2. ASSUME NEW f \in Files, NEW c \in Contents,
             \/ Begins("shell", Wbaseconfig(f, c))
             \/ Begins("shell", Wroutertable(f, c))
             \/ Begins("shell", Wdidi_diantable(f, c))
      PROVE  Sane'
  <2>1. PICK s : /\ s = Wbaseconfig(f, c) \/ s = Wroutertable(f, c) \/ s = Wdidi_diantable(f, c)
                 /\ Begins("shell", s)
    BY <1>2
  <2>2. s \in Seq(Early) /\ ~Has(s, "first")
    BY <2>1, BaseconfigForm, TablesForm, ShellScripts
  <2> QED
    BY <1>1, <2>1, <2>2
<1>3. ASSUME NEW f \in Files, NEW c \in Contents, Begins("shell", Wregtable(f, c))
      PROVE  Sane'
  <2> DEFINE s == Wregtable(f, c)
  <2>1. Form(s) /\ \A i \in 1 .. Len(s) : ~Counts(s[i])
    BY RegtableForm
  <2>2. Begins("shell", s) /\ ~Has(s, "first")
    BY <1>3, ShellScripts
  <2> HIDE DEF s
  <2> QED
    BY <1>0, <2>1, <2>2, BeginsSane
<1>4. ASSUME Begins("shell", SetField) \/ Begins("shell", <<Step("reboot")>>)
      PROVE  Sane'
  <2>1. PICK c : c \in Contents
    BY ConfigAssumption
  <2>2. SetField \in Seq(Early) /\ <<Step("reboot")>> \in Seq(Early)
    BY <2>1, TablesForm
  <2>3. ~Has(SetField, "first") /\ ~Has(<<Step("reboot")>>, "first")
    BY ShellScripts
  <2>4. CASE Begins("shell", SetField)
    BY <1>1, <2>2, <2>3, <2>4
  <2>5. CASE Begins("shell", <<Step("reboot")>>)
    BY <1>1, <2>2, <2>3, <2>5
  <2> QED
    BY <1>4, <2>4, <2>5
<1>5. ASSUME NEW v \in Versions, Begins("shell", UpgradeDiCor(v))
      PROVE  Sane'
  <2>1. Form(UpgradeDiCor(v)) /\ \A i \in 1 .. Len(UpgradeDiCor(v)) : ~Counts(UpgradeDiCor(v)[i])
    BY UpdatesForm DEF Orderable
  <2>2. ~Has(UpgradeDiCor(v), "first")
    BY ShellScripts
  <2> QED
    BY <1>0, <1>5, <2>1, <2>2, BeginsSane
<1> QED
  BY <1>2, <1>3, <1>4, <1>5 DEF Shell

(* A restart: the sector that was being rewritten may hold anything.         *)
LEMMA RestartSane ==
  ASSUME SInv, Restart, UNCHANGED <<firmware, local, raced>>,
         flash' = flash \/ \E s \in Sectors : \E v \in Values(s) : flash' = [flash EXCEPT ![s] = v],
         installed' # "none" => /\ ~raced /\ flash'["base"].conf = installed'
                                /\ flash'["base"].head /\ flash'["reg1"] = installed'
                                /\ flash'["reg2"] = installed'
  PROVE  Sane'
<1>1. /\ phase' = "boot" /\ flash_hdl' = NoHandle
      /\ \A t \in Writers : script'[t] = <<>> /\ stage'[t] = "run" /\ place'[t] = "none"
      /\ stage' \in [Writers -> {"run", "opened", "sought", "erased"}]
      /\ place' \in [Writers -> Sectors \cup {"none"}] /\ DOMAIN cache' = Writers
      /\ "upload" \in Writers /\ "shell" \in Writers
  BY DEF Restart, Writers
<1>2. Len(<<>>) = 0 /\ \A i \in 1 .. 0 : FALSE
  OBVIOUS
<1>3. FormOK'
  <2>1. /\ \A t \in Writers : Form(script'[t])
        /\ \A i \in 1 .. Len(script'["shell"]) : ~Counts(script'["shell"][i])
        /\ ~Has(script'["shell"], "first")
    BY <1>1, SpinScript
  <2> HIDE DEF Form
  <2> QED
    BY <2>1 DEF FormOK, Has, Counts
<1>4. StageOK'
  BY <1>1 DEF StageOK
<1>5. "none" \notin Sectors /\ "none" # "base"
  BY SectorsLemma
<1>6. ValuesOK'
  <2>1. DOMAIN flash = Sectors /\ ValuesOK
    BY DEF SInv, Sane, IInv, RecordOK
  <2>2. \A s \in Sectors : flash'[s] \in Values(s)
    BY <2>1 DEF ValuesOK
  <2> QED
    BY <1>1, <2>1, <2>2 DEF ValuesOK, Values, Records
<1>7. HandleOK'
  <2>1. NoHandle \in [by : Writers \cup {"none"}, at : Sectors, open : BOOLEAN]
    BY SectorsLemma DEF NoHandle
  <2>2. raced \in BOOLEAN
    BY DEF SInv, Sane, HandleOK
  <2> QED
    BY <1>1, <2>1, <2>2 DEF HandleOK
<1>8. BaseOK' /\ ParamsOK'
  BY <1>1 DEF BaseOK, ParamsOK
<1>9. WholeOK'
  <2>1. \A c : ~Counting(script'["upload"], c)
    BY <1>1, <1>2 DEF Counting
  <2> QED
    BY <2>1 DEF WholeOK, Counting, Counts
<1>10. InstalledOK'
  <2> SUFFICES ASSUME installed' # "none" PROVE InstalledOK'
    BY DEF InstalledOK
  <2>1. \A t \in Writers : ~Configures(script'[t])
    BY <1>1, SpinScript
  <2>2. ~Rewriting("base")' /\ \A t \in Writers : place'[t] # "base"
    BY <1>1, <1>5 DEF Rewriting, Writers
  <2>3. Configured(installed)'
    BY <2>2 DEF Configured
  <2> QED
    BY <1>1, <2>1, <2>2, <2>3 DEF InstalledOK, Configures
<1> QED
  BY <1>3, <1>4, <1>6, <1>7, <1>8, <1>9, <1>10 DEF Sane

LEMMA CutShortSane ==
  ASSUME SInv, CutShort
  PROVE  /\ flash' = flash \/ \E s \in Sectors : \E v \in Values(s) : flash' = [flash EXCEPT ![s] = v]
         /\ installed' # "none" => /\ ~raced /\ flash'["base"].conf = installed'
                                   /\ flash'["base"].head /\ flash'["reg1"] = installed'
                                   /\ flash'["reg2"] = installed'
<1>1. /\ StageOK /\ InstalledOK /\ DOMAIN flash = Sectors /\ DOMAIN stage = Writers
      /\ "none" # "base"
  BY DEF SInv, Sane, IInv, RecordOK, StageOK
<1>2. ASSUME installed # "none", ~Rewriting("base")
      PROVE  /\ ~raced /\ flash["base"].conf = installed /\ flash["base"].head
             /\ flash["reg1"] = installed /\ flash["reg2"] = installed
  BY <1>1, <1>2 DEF InstalledOK, Configured
<1>3. CASE (\A t \in DOMAIN stage : stage[t] # "erased") /\ UNCHANGED <<flash, torn, installed>>
  <2>1. ~Rewriting("base")
    BY <1>1, <1>3 DEF Rewriting, StageOK, Writers
  <2> QED
    BY <1>2, <1>3, <2>1
<1>4. ASSUME NEW t \in DOMAIN stage, stage[t] = "erased",
             flash' = flash \/ \E v \in Junk(place[t]) : flash' = [flash EXCEPT ![place[t]] = v],
             installed' = IF place[t] \in {"base", "reg1", "reg2"} THEN "none" ELSE installed
      PROVE  /\ flash' = flash \/ \E s \in Sectors : \E v \in Values(s) : flash' = [flash EXCEPT ![s] = v]
             /\ installed' # "none" => /\ ~raced /\ flash'["base"].conf = installed'
                                       /\ flash'["base"].head /\ flash'["reg1"] = installed'
                                       /\ flash'["reg2"] = installed'
  <2>1. t \in Writers /\ place[t] \in Sectors /\ place[t] # "none"
    BY <1>1, <1>4 DEF StageOK
  <2>2. flash' = flash \/ \E s \in Sectors : \E v \in Values(s) : flash' = [flash EXCEPT ![s] = v]
    BY <1>4, <2>1, ValuesLemma
  <2>3. ASSUME installed' # "none"
        PROVE  /\ ~raced /\ flash'["base"].conf = installed' /\ flash'["base"].head
               /\ flash'["reg1"] = installed' /\ flash'["reg2"] = installed'
    <3>1. place[t] \notin {"base", "reg1", "reg2"} /\ installed' = installed
      BY <1>4, <2>3
    <3>2. \A s \in {"base", "reg1", "reg2"} : flash'[s] = flash[s]
      BY <1>1, <1>4, <3>1, SectorsLemma
    <3>3. ~Rewriting("base")
      <4>1. place[Other(t)] = "none"
        BY <1>1, <1>4, <2>1, OtherLemma DEF StageOK
      <4>2. \A u \in Writers : place[u] # "base"
        BY <1>1, <2>1, <3>1, <4>1, OtherLemma
      <4> QED
        BY <4>2 DEF Rewriting, Writers
    <3> QED
      BY <1>2, <2>3, <3>1, <3>2, <3>3
  <2> QED
    BY <2>2, <2>3
<1> QED
  BY <1>3, <1>4 DEF CutShort

LEMMA PowerFailSane ==
  ASSUME SInv, PowerFail
  PROVE  Sane'
<1>1. Restart /\ CutShort /\ UNCHANGED <<firmware, local, raced>>
  BY DEF PowerFail, askVars
<1> QED
  BY <1>1, CutShortSane, RestartSane

LEMMA RebootSane ==
  ASSUME SInv, NEW t \in Writers, Dicor_Reboot(t)
  PROVE  Sane'
<1> DEFINE e == Head(script[t])
           c == e.val
<1>1. /\ Busy(t) /\ stage[t] = "run" /\ e.do = "reboot" /\ Restart
      /\ UNCHANGED <<firmware, local, raced>>
  BY DEF Dicor_Reboot, Now, askVars
<1>2. CASE CutShort
  BY <1>1, <1>2, CutShortSane, RestartSane
<1>3. CASE /\ c # "none" /\ ~raced /\ ~beside /\ script["shell"] = <<>>
           /\ installed' = c /\ UNCHANGED flash
  <2>1. /\ script[t] # <<>> /\ Form(script[t]) /\ Counts(e) /\ "upload" \in Writers /\ "shell" \in Writers
        /\ FormOK /\ StageOK /\ BaseOK /\ WholeOK
    BY <1>1, <1>3, BusyLemma DEF Counts, SInv, Sane, Writers
  <2>2. t = "upload"
    BY <1>3, <2>1 DEF Writers
  <2>3. Len(script["upload"]) = 1 /\ Counting(script["upload"], c)
    BY <2>1, <2>2, CountingRest
  <2>4. \A at : ~Plans(script["upload"], at)
    <3>1. script["upload"][1] = e
      BY <2>1, <2>2, FormRest
    <3>2. \A i \in 1 .. Len(script["upload"]) : script["upload"][i].do = "reboot"
      BY <1>1, <2>3, <3>1
    <3> QED
      BY <3>2 DEF Plans
  <2>5. Configured(c) /\ flash["reg1"] = c /\ flash["reg2"] = c /\ phase = "up"
    BY <1>3, <2>3, <2>4 DEF WholeOK, SInv, Sane
  <2>6. ~Rewriting("base")
    <3>1. \A u \in Writers : stage[u] = "run"
      BY <1>1, <1>3, <2>1, <2>2 DEF StageOK, Writers
    <3> QED
      BY <2>1, <3>1 DEF StageOK, Rewriting, Writers
  <2>7. flash["base"].head
    BY <1>3, <2>1, <2>5, <2>6 DEF BaseOK, Good, Repairs
  <2> HIDE DEF c
  <2> QED
    BY <1>1, <1>3, <2>5, <2>6, <2>7, RestartSane DEF Configured
<1> QED
  BY <1>2, <1>3 DEF Dicor_Reboot

LEMMA InitScript == ~Configures(EepromInit)
<1> DEFINE S == {[Step("peek") EXCEPT !.at = "base"], Write("base", "first", "none"),
                 Write("base", "soft", "none"), Write("params", "idle", "none")}
<1>1. \A e \in S : ~(e.do \in {"write", "overrun"} /\ e.kind \in {"table", "conf", "none"})
  BY DEF Write, Step
<1>2. EepromInit \in Seq(S)
  BY FourSteps DEF EepromInit
<1> HIDE DEF S
<1> QED
  BY <1>1, <1>2 DEF Configures

LEMMA BootSane ==
  ASSUME SInv, Boot
  PROVE  Sane'
<1>1. /\ phase = "boot" /\ phase' = "init" /\ raced' = FALSE
      /\ script' = [script EXCEPT !["upload"] = EepromInit]
      /\ UNCHANGED <<flash_hdl, stage, place, cache, local, installed>>
  BY DEF Boot, askVars
<1>2. flash' = flash \/ flash' = [flash EXCEPT !["params"].update = FALSE]
  BY DEF Boot
<1>3. /\ FormOK /\ StageOK /\ ValuesOK /\ HandleOK /\ InstalledOK /\ DOMAIN flash = Sectors
      /\ script \in [Writers -> Seq(Steps)] /\ "upload" \in Writers /\ "shell" \in Writers
      /\ "upload" # "shell" /\ \A t \in Writers : t = "upload" \/ t = "shell"
  BY DEF SInv, Sane, IInv, RecordOK, ScriptOK, Writers
<1>4. /\ script'["upload"] = EepromInit /\ script'["shell"] = <<>>
      /\ \A t \in Writers : stage[t] = "run" /\ place[t] = "none"
  <2>1. script["upload"] = <<>> /\ script["shell"] = <<>>
    BY <1>1, <1>3 DEF StageOK
  <2>2. \A t \in Writers : stage[t] = "run"
    BY <1>3, <2>1 DEF StageOK
  <2> QED
    BY <1>1, <1>3, <2>1, <2>2 DEF StageOK
<1>5. \A s \in Sectors \ {"params"} : flash'[s] = flash[s]
  BY <1>2, <1>3
<1>6. "none" # "base" /\ "base" \in Sectors \ {"params"} /\ "reg1" \in Sectors \ {"params"}
      /\ "reg2" \in Sectors \ {"params"} /\ "params" \in Sectors
  BY SectorsLemma
<1>7. FormOK'
  <2>1. /\ Form(EepromInit) /\ \A t \in Writers : Form(script'[t])
        /\ \A i \in 1 .. Len(script'["shell"]) : ~Counts(script'["shell"][i])
        /\ ~Has(script'["shell"], "first")
    BY <1>3, <1>4, SpinScript, InitEarly, EarlyForm
  <2> HIDE DEF Form
  <2> QED
    BY <2>1 DEF FormOK, Has, Counts
<1>8. StageOK'
  BY <1>1, <1>3, <1>4 DEF StageOK
<1>9. ValuesOK'
  <2>1. flash["params"] \in Records
    BY <1>3, <1>6 DEF ValuesOK, Values
  <2>2. [flash["params"] EXCEPT !.update = FALSE] \in Records
    BY <2>1 DEF Records
  <2>3. flash'["params"] \in Records
    BY <1>2, <1>3, <1>6, <2>1, <2>2
  <2>4. \A s \in Sectors : flash'[s] \in Values(s)
    BY <1>3, <1>5, <2>3 DEF ValuesOK, Values
  <2> QED
    BY <1>1, <1>3, <1>4, <2>4 DEF ValuesOK, Values, Records
<1>10. HandleOK'
  BY <1>1, <1>3, <1>4 DEF HandleOK
<1>11. Repairs("first")' /\ Repairs("soft")' /\ Repairs("idle")'
  BY <1>1, <1>4, InitEarly DEF Repairs, Has
<1>12. BaseOK' /\ ParamsOK'
  <2>1. \A t \in Writers : place'[t] # "base"
    BY <1>1, <1>4, <1>6
  <2> QED
    BY <1>11, <2>1 DEF BaseOK, ParamsOK, Good
<1>13. WholeOK'
  <2>1. \A c : ~Counting(script'["upload"], c)
    BY <1>4, InitEarly, NoCounts DEF Counting
  <2> QED
    BY <2>1 DEF WholeOK, Counting, Counts
<1>14. InstalledOK'
  <2> SUFFICES ASSUME installed # "none" PROVE InstalledOK'
    BY <1>1 DEF InstalledOK
  <2>1. \A t \in Writers : ~Configures(script'[t])
    BY <1>3, <1>4, InitScript, SpinScript
  <2>2. /\ Configured(installed) /\ flash["reg1"] = installed /\ flash["reg2"] = installed
        /\ ~Rewriting("base") => flash["base"].head
    BY <1>3 DEF InstalledOK
  <2>3. ~Rewriting("base") /\ ~Rewriting("base")' /\ \A t \in Writers : place'[t] # "base"
    BY <1>1, <1>4, <1>6 DEF Rewriting, Writers
  <2>4. Configured(installed)'
    BY <1>1, <1>5, <1>6, <2>2, <2>3 DEF Configured
  <2>5. flash'["base"].head /\ flash'["reg1"] = installed' /\ flash'["reg2"] = installed'
    BY <1>1, <1>5, <1>6, <2>2, <2>3
  <2>6. \A t \in Writers : stage'[t] = "run"
    BY <1>1, <1>4
  <2> QED
    BY <1>1, <2>1, <2>3, <2>4, <2>5, <2>6 DEF InstalledOK, Configures
<1> QED
  BY <1>7, <1>8, <1>9, <1>10, <1>12, <1>13, <1>14 DEF Sane

LEMMA StartedSane ==
  ASSUME SInv, Started
  PROVE  Sane'
<1>1. /\ phase = "init" /\ script["upload"] = <<>> /\ phase' = "up"
      /\ UNCHANGED <<firmware, flash, flash_hdl, script, stage, place, cache, local, raced, overrun,
                     beside, installed>>
  BY DEF Started, taskVars, askVars, histVars
<1>2. \A k : ~Repairs(k)
  <2>1. Len(<<>>) = 0 /\ \A i \in 1 .. 0 : FALSE
    OBVIOUS
  <2> QED
    BY <1>1, <2>1 DEF Repairs, Has
<1>3. FormOK' /\ ValuesOK' /\ HandleOK' /\ InstalledOK'
  <2>1. FormOK' /\ ValuesOK'
    BY <1>1 DEF SInv, Sane, FormOK, Has, ValuesOK, Values, Records
  <2>2. HandleOK'
    BY <1>1 DEF SInv, Sane, HandleOK
  <2>3. InstalledOK'
    BY <1>1 DEF SInv, Sane, InstalledOK, Configures, Configured, Rewriting, Taken
  <2> QED
    BY <2>1, <2>2, <2>3
<1>4. StageOK'
  BY <1>1 DEF SInv, Sane, StageOK
<1>5. BaseOK'
  BY <1>1, <1>2 DEF SInv, Sane, BaseOK, Good, Rewriting
<1>6. ParamsOK'
  BY <1>1, <1>2 DEF SInv, Sane, ParamsOK, Ordering, Rewriting
<1>7. WholeOK'
  BY <1>1 DEF SInv, Sane, WholeOK, Configures, Plans, Counting, Counts, Configured, Rewriting
<1> QED
  BY <1>3, <1>4, <1>5, <1>6, <1>7 DEF Sane

LEMMA StutterSane ==
  ASSUME SInv, UNCHANGED vars
  PROVE  Sane'
<1>1. UNCHANGED <<phase, firmware, flash, flash_hdl, script, stage, place, cache, local, raced,
                  overrun, beside, installed>>
  BY DEF vars, taskVars, askVars, histVars
<1>2. FormOK' /\ ValuesOK' /\ BaseOK' /\ ParamsOK' /\ WholeOK'
  BY <1>1, SameKept DEF SInv
<1>3. StageOK' /\ HandleOK'
  BY <1>1 DEF SInv, Sane, StageOK, HandleOK
<1>4. InstalledOK'
  BY <1>1 DEF SInv, Sane, InstalledOK, Configures, Configured, Rewriting, Taken
<1> QED
  BY <1>2, <1>3, <1>4 DEF Sane

LEMMA InitSane ==
  ASSUME Init
  PROVE  Sane
<1>1. /\ phase = "boot" /\ flash_hdl = NoHandle /\ local = "none" /\ raced = FALSE
      /\ installed = "none"
      /\ script = [t \in {"upload", "shell"} |-> <<>>]
      /\ stage = [t \in {"upload", "shell"} |-> "run"]
      /\ place = [t \in {"upload", "shell"} |-> "none"]
      /\ cache = [t \in {"upload", "shell"} |-> Blank("didi")]
  BY DEF Init
<1>2. /\ \A t \in Writers : script[t] = <<>> /\ stage[t] = "run" /\ place[t] = "none"
      /\ "upload" \in Writers /\ "shell" \in Writers
  BY <1>1 DEF Writers
<1>3. FormOK
  BY <1>2, SpinScript DEF FormOK
<1>4. StageOK
  BY <1>1, <1>2 DEF StageOK, Writers
<1>5. \A s \in Sectors : flash[s] \in Values(s)
  <2>1. CASE flash = [s \in Sectors |-> Blank(s)]
    BY <2>1, ValuesLemma
  <2>2. CASE flash = OldFlash
    <3>1. Blank("params") \in Values("params")
      BY SectorsLemma, ValuesLemma
    <3> QED
      BY <2>2, <3>1 DEF OldFlash, Values
  <2> QED
    BY <2>1, <2>2 DEF Init
<1>6. ValuesOK
  BY <1>1, <1>2, <1>5 DEF ValuesOK
<1>7. HandleOK
  <2>1. NoHandle \in [by : Writers \cup {"none"}, at : Sectors, open : BOOLEAN]
    BY SectorsLemma DEF NoHandle
  <2> QED
    BY <1>1, <1>2, <2>1 DEF HandleOK
<1>8. BaseOK /\ ParamsOK /\ InstalledOK
  BY <1>1 DEF BaseOK, ParamsOK, InstalledOK
<1>9. WholeOK
  <2>1. Len(<<>>) = 0 /\ \A i \in 1 .. 0 : FALSE
    OBVIOUS
  <2>2. \A c : ~Counting(script["upload"], c)
    BY <1>2, <2>1 DEF Counting
  <2> QED
    BY <2>2 DEF WholeOK
<1> QED
  BY <1>3, <1>4, <1>6, <1>7, <1>8, <1>9 DEF Sane

-----------------------------------------------------------------------------
LEMMA SInvInit == Init => SInv
  BY IInvInit, InitSane DEF SInv

LEMMA SInvNext ==
  ASSUME SInv, [Next]_vars
  PROVE  SInv'
<1>1. IInv'
  BY NextKeeps DEF SInv
<1>2. ASSUME NEW t \in Writers,
             EepromWrite(t) \/ EepromEras(t) \/ Peek(t) \/ RunsOver(t) \/ Dicor_Reboot(t)
      PROVE  Sane'
  BY <1>2, EepromWriteSane, EepromErasSane, PeekSane, RunsOverSane, RebootSane
<1>3. Sane'
  BY <1>2, BootSane, StartedSane, PowerFailSane, CommandSane, ShellSane, TftpSane, AnalyseSane,
     StutterSane DEF Next, Writers
<1> QED
  BY <1>1, <1>3 DEF SInv

(* Once EepromInit is through, the first sector has its head and the version *)
(* of the program that runs, and the boot loader's record its signature,     *)
(* whatever power failures, races and files without an end came before the   *)
(* start, until two tasks meet in EepromWrite or such a file is read         *)
(* (eeprom.c: ChkEepromFirstUse, EepromWrite, EepromEras).                   *)
THEOREM SoundCorrect == Spec => []Sound
<1>1. SInv => Sound
  <2> SUFFICES ASSUME SInv PROVE Sound
    OBVIOUS
  <2>1. /\ RecordOK /\ AskedOK /\ StageOK /\ ValuesOK /\ HandleOK /\ BaseOK /\ ParamsOK
        /\ "base" \in Sectors /\ "params" \in Sectors
    BY SectorsLemma DEF SInv, IInv, Sane
  <2>2. flash["base"] \in Values("base") /\ flash["params"] \in Values("params")
    BY <2>1 DEF ValuesOK
  <2>3. \A s \in Tables : flash[s] \in Contents \cup {"default", "blank", "junk"}
    BY <2>1 DEF ValuesOK, Values, Tables
  <2>4. \A t \in {"upload", "shell"} : /\ stage[t] \in {"run", "opened", "sought", "erased"}
                                       /\ stage[t] = "erased" <=> place[t] # "none"
    BY <2>1 DEF StageOK, Writers
  <2>5. TypeOK
    <3>1. phase \in {"boot", "init", "up"} /\ firmware \in Versions
      BY <2>1 DEF StageOK, RecordOK
    <3>2. flash_hdl \in [by : {"none", "upload", "shell"}, at : Sectors, open : BOOLEAN]
      BY <2>1 DEF HandleOK, Writers
    <3>3. local \in Versions \cup {"none", "partial"} /\ asked \subseteq Versions
      BY <2>1 DEF ValuesOK, AskedOK
    <3> QED
      BY <2>2, <2>3, <2>4, <3>1, <3>2, <3>3 DEF TypeOK, Values, Records, Orderable
  <2>6. phase = "up" => ~Repairs("first") /\ ~Repairs("soft") /\ ~Repairs("idle")
    BY DEF Repairs
  <2> QED
    BY <2>1, <2>5, <2>6 DEF Sound, BaseOK, ParamsOK, Good
<1> QED
  BY <1>1, SInvInit, SInvNext, PTL DEF Spec

(* What 0x07 installed from two good files, with no table written beside it, *)
(* stays the configuration through every restart, repair, update and setting *)
(* of fields (Dicor_upload.c: the handler of 0x07; eeprom.c: EepromWrite,    *)
(* ChkEepromFirstUse).                                                       *)
THEOREM InstalledCorrect == Spec => []Installed
<1>1. SInv => Installed
  BY DEF SInv, Sane, InstalledOK, Configured, Installed
<1> QED
  BY <1>1, SInvInit, SInvNext, PTL DEF Spec

=============================================================================
