------------------------------- MODULE Config -------------------------------
(* The configuration in the internal flash and the update of the gateway.   *)
(* The upload task repairs the flash at the start, installs the tables of   *)
(* the SD card (0x07), stores the coordinator's address (0x10) and orders   *)
(* an update (0x05); the shell, of lower priority, writes the same tables,  *)
(* single fields and orders of its own.  Every write rewrites whole sectors *)
(* through one static handle that no lock protects, and power may fail at   *)
(* any moment.                                                              *)
(*                                                                          *)
(* External: the flash driver (one sector rewritten at a time), the TFTP    *)
(* server, the boot loader, the line reader of the file system.             *)
EXTENDS Naturals, Sequences
CONSTANTS
  Versions,                  \* versions of the program
  Contents,                  \* contents of the tables on the card
  UploadOrders, ShellOrders, \* commands given to either task
  MaxOrders, MaxCuts         \* bounds: commands, power failures
ASSUME ConfigAssumption ==
  /\ {"default", "blank", "junk", "none", "partial"} \cap (Versions \cup Contents) = {}
  /\ Versions # {} /\ Contents # {}
  /\ {MaxOrders, MaxCuts} \subseteq Nat

VARIABLES
  phase,                     \* boot loader, EepromInit, the tasks run
  firmware,                  \* version of the program that runs
  flash,                     \* contents of the sectors
  flash_hdl,                 \* the static handle: [by, at, open]
  script,                    \* per task, what is left of its command
  stage, place, cache,       \* per task, how far its EepromWrite is
  local,                     \* version file on the card
  raced, overrun, beside,    \* since the start, a handle was replaced, a table
                             \* ran over its end or was written beside an 0x07
                             \* (history)
  asked, misled, torn,       \* versions asked for; a download reported a success
                             \* it was not; the order was cut or hit (history)
  installed,                 \* what 0x07 installed last, untouched since (history)
  orders, cuts               \* bounds

taskVars == <<script, stage, place, cache>>
askVars  == <<local, asked, misled>>
histVars == <<raced, overrun, beside, torn, installed>>
vars == <<phase, firmware, flash, flash_hdl, taskVars, askVars, histVars, orders, cuts>>

(***************************************************************************)
(* The sectors, in the order of EEPROMDATA.  The register table takes two.  *)
(***************************************************************************)
Layout == <<"base", "router", "reg1", "reg2", "index", "didi", "cood", "params">>
Sectors == {Layout[i] : i \in 1 .. Len(Layout)}
Tables == Sectors \ {"base", "params"}
Following(s) == LET i == CHOOSE k \in 1 .. Len(Layout) : Layout[k] = s
                IN IF i = Len(Layout) THEN s ELSE Layout[i + 1]

Blank(s) == CASE s = "base"   -> [head |-> FALSE, soft |-> "blank", conf |-> "blank"]
              [] s = "params" -> [sig |-> FALSE, update |-> FALSE, file |-> "blank"]
              [] OTHER        -> "blank"
\* What the bytes of another sector, or half of the bytes meant, leave.
Junk(s) == CASE s = "base"   -> [head : BOOLEAN, soft : {"junk"}, conf : {"junk"}]
             [] s = "params" -> [sig : BOOLEAN, update : BOOLEAN, file : {"junk"}]
             [] OTHER        -> {"junk"}

(***************************************************************************)
(* The steps of the commands, and what a write changes of its sector.       *)
(***************************************************************************)
Write(s, kind, v) == [do |-> "write", at |-> s, kind |-> kind, val |-> v]
Step(name) == [do |-> name, at |-> "none", kind |-> "none", val |-> "none"]
Erase == [do |-> "erase", at |-> "params", kind |-> "none", val |-> "none"]
EraseCood == [do |-> "erase", at |-> "cood", kind |-> "none", val |-> "none"]

NewWithoutCache(e, old) ==    \* A slip: the rest of the sector is not kept
  CASE e.kind = "table"   -> e.val
    [] e.kind = "conf"    -> [old EXCEPT !.conf = e.val]
    [] e.kind = "field"   -> [old EXCEPT !.conf = "blank"]
    [] e.kind = "first"   -> [head |-> TRUE, soft |-> firmware, conf |-> "default"]
    [] e.kind = "soft"    -> [old EXCEPT !.soft = firmware, !.conf = "blank"]
    [] e.kind = "idle"    -> [sig |-> TRUE, update |-> FALSE, file |-> firmware]
    [] e.kind = "order"   -> [sig |-> TRUE, update |-> TRUE, file |-> e.val]
New(e, old) ==
  CASE e.kind = "table"   -> e.val
    [] e.kind = "conf"    -> [old EXCEPT !.conf = e.val]
    [] e.kind = "field"   -> old
    [] e.kind = "first"   -> [head |-> TRUE, soft |-> firmware, conf |-> "default"]
    [] e.kind = "soft"    -> [old EXCEPT !.soft = firmware]
    [] e.kind = "idle"    -> [sig |-> TRUE, update |-> FALSE, file |-> firmware]
    [] e.kind = "order"   -> [sig |-> TRUE, update |-> TRUE, file |-> e.val]

\* ChkEepromFirstUse: each write only when the flash needs it.
NeededAtFirstUse(e) ==        \* A slip: the order is looked at on first use only
  CASE e.kind = "first" -> ~flash["base"].head
    [] e.kind = "soft"  -> flash["base"].soft # firmware
    [] e.kind = "idle"  -> ~flash["params"].sig /\ flash["base"].conf = "default"
    [] OTHER            -> TRUE
Needed(e) ==
  CASE e.kind = "first" -> ~flash["base"].head
    [] e.kind = "soft"  -> flash["base"].soft # firmware
    [] e.kind = "idle"  -> ~flash["params"].sig
    [] OTHER            -> TRUE
EepromInit == <<[Step("peek") EXCEPT !.at = "base"], Write("base", "first", "none"),
                Write("base", "soft", "none"), Write("params", "idle", "none")>>
SetField == <<Write("base", "field", "none")>>

\* A malformed file is refused and writes nothing; one without its end mark is
\* read for ever.
Wbaseconfig(file, c) == IF file = "good" THEN <<Write("base", "conf", c)>> ELSE <<>>
Wregtable(file, c) ==
  CASE file = "good"    -> <<Write("reg1", "table", c), Write("reg2", "table", c)>>
    [] file = "endless" -> <<Write("reg1", "table", c), Write("reg2", "table", c),
                             [do |-> "overrun", at |-> "index", kind |-> "none", val |-> c]>>
    [] OTHER            -> <<>>
\* wroutertable and wdidi_diantable go on with the file they could not open, and
\* are refused by the line reader or by nobody; the former writes its buffer to
\* the flash even when it refused its arguments: one more content.
Wroutertable(file, c) ==
  CASE file \in {"good", "usage"}      -> <<Write("router", "table", c)>>
    [] file \in {"missing", "endless"} -> <<Step("spin")>>
    [] OTHER                           -> <<>>
Wdidi_diantable(file, c) ==
  CASE file = "good"             -> <<Write("index", "table", c), Write("didi", "table", c)>>
    [] file \in {"bad", "usage"} -> <<>>
    [] OTHER                     -> <<Step("spin")>>
EepromWriteCoodaddr(c) == <<Write("cood", "table", c), EraseCood, Write("cood", "table", c),
                            [Step("peek") EXCEPT !.at = "cood"]>>
\* The delays, upload_data_exit and rf_nwk_exit leave the flash alone; the other
\* task may run between any two steps.
UpgradeDiCor(v) == <<Write("params", "order", v), Step("reboot")>>
UpdateTo(v) == <<Erase, Write("params", "order", v), Step("reboot")>>

Files == {"good", "bad", "missing", "endless", "usage"}
Configures(s) ==
  \E i \in DOMAIN s : /\ s[i].do \in {"write", "overrun"}
                     /\ s[i].kind \in {"table", "conf", "none"}
                     /\ s[i].at \in {"base", "reg1", "reg2"}

Other(t) == IF t = "upload" THEN "shell" ELSE "upload"
\* MQX runs the task of higher priority unless it waits: for the driver here,
\* elsewhere for the card, the network or a delay.
Runs(t) == t = "upload" \/ stage["upload"] = "run" \/ stage["shell"] = "erased"
Busy(t) == phase # "boot" /\ script[t] # <<>> /\ Runs(t)
Rest(t) == [script EXCEPT ![t] = Tail(@)]

OldFlash == [s \in Sectors |->
               CASE s = "base" -> [head |-> TRUE, soft |-> "older", conf |-> "default"]
                 [] s = "params" -> Blank(s)
                 [] OTHER -> "default"]
NoHandle == [by |-> "none", at |-> "base", open |-> FALSE]
Init ==
  /\ phase = "boot" /\ firmware \in Versions
  /\ flash \in {OldFlash, [s \in Sectors |-> Blank(s)]}
  /\ flash_hdl = NoHandle
  /\ script = [t \in {"upload", "shell"} |-> <<>>]
  /\ stage = [t \in {"upload", "shell"} |-> "run"]
  /\ place = [t \in {"upload", "shell"} |-> "none"]
  /\ cache = [t \in {"upload", "shell"} |-> Blank("didi")]
  /\ local = "none"
  /\ raced = FALSE /\ overrun = FALSE /\ beside = FALSE /\ torn = FALSE /\ installed = "none"
  /\ asked = {} /\ misled = FALSE /\ orders = 0 /\ cuts = 0

(***************************************************************************)
(* Start.  The boot loader carries out an order it finds, or fails to.      *)
(***************************************************************************)
Boot ==
  /\ phase = "boot" /\ phase' = "init" /\ raced' = FALSE /\ overrun' = FALSE /\ beside' = FALSE
  /\ script' = [script EXCEPT !["upload"] = EepromInit]
  /\ LET p == flash["params"]
     IN IF p.sig /\ p.update
        THEN \/ /\ p.file \in Versions /\ firmware' = p.file
                /\ flash' = [flash EXCEPT !["params"].update = FALSE]
             \/ UNCHANGED <<firmware, flash>>
             \/ flash' = [flash EXCEPT !["params"].update = FALSE] /\ UNCHANGED firmware
        ELSE UNCHANGED <<firmware, flash>>
  /\ UNCHANGED <<flash_hdl, stage, place, cache, askVars, torn, installed, orders, cuts>>
Started ==
  /\ phase = "init" /\ script["upload"] = <<>> /\ phase' = "up"
  /\ UNCHANGED <<firmware, flash, flash_hdl, taskVars, askVars, histVars, orders, cuts>>
Restart ==
  /\ phase' = "boot" /\ flash_hdl' = NoHandle
  /\ script' = [t \in {"upload", "shell"} |-> <<>>]
  /\ stage' = [t \in {"upload", "shell"} |-> "run"]
  /\ place' = [t \in {"upload", "shell"} |-> "none"]
  /\ cache' = [t \in {"upload", "shell"} |-> Blank("didi")]
\* Power fails, or a watchdog ends a task that reads for ever.  A sector that
\* was being rewritten is left erased or half programmed.
CutShort ==
  \/ /\ \A t \in DOMAIN stage : stage[t] # "erased"
     /\ UNCHANGED <<flash, torn, installed>>
  \/ \E t \in DOMAIN stage :
       LET s == place[t]
       IN /\ stage[t] = "erased"
          /\ \/ UNCHANGED flash
             \/ \E v \in Junk(s) : flash' = [flash EXCEPT ![s] = v]
          /\ torn' = (torn \/ s = "params")
          /\ installed' = IF s \in {"base", "reg1", "reg2"} THEN "none" ELSE installed
PowerFail ==
  /\ phase # "boot" /\ cuts < MaxCuts /\ cuts' = cuts + 1 /\ Restart /\ CutShort
  /\ UNCHANGED <<firmware, askVars, raced, overrun, beside, orders>>

(***************************************************************************)
(* EepromWrite: flash_open, fseek, write through the sector cache, and      *)
(* flash_close, each on whatever handle the static pointer holds by then.   *)
(***************************************************************************)
Writing(t, at) == Busy(t) /\ stage[t] = at /\ Head(script[t]).do = "write"
Taken(t) == flash_hdl.by # t
\* The handle t leaves behind; what it was matters to a task that is using it.
Closed(t, at) == IF stage[Other(t)] = "run" THEN NoHandle
                 ELSE [by |-> t, at |-> at, open |-> FALSE]
Race(t) == /\ raced' = (raced \/ Taken(t))
           /\ installed' = IF Taken(t) THEN "none" ELSE installed
Open(t) ==
  /\ Writing(t, "run") /\ Needed(Head(script[t]))
  /\ flash_hdl' = [by |-> t, at |-> "base", open |-> TRUE]
  /\ stage' = [stage EXCEPT ![t] = "opened"]
  /\ UNCHANGED <<phase, firmware, flash, script, place, cache, askVars, histVars, orders, cuts>>
Skip(t) ==
  /\ Writing(t, "run") /\ ~Needed(Head(script[t])) /\ script' = Rest(t)
  /\ UNCHANGED <<phase, firmware, flash, flash_hdl, stage, place, cache, askVars, histVars,
                 orders, cuts>>
Seek(t) ==
  /\ Writing(t, "opened") /\ stage' = [stage EXCEPT ![t] = "sought"] /\ Race(t)
  /\ flash_hdl' = [flash_hdl EXCEPT !.at = Head(script[t]).at]
  /\ UNCHANGED <<phase, firmware, flash, script, place, cache, askVars, overrun, beside, torn,
                 orders, cuts>>
\* write: through a handle that was closed it fails or goes where that stood.
Rewrite(t) ==
  /\ Writing(t, "sought") /\ stage[Other(t)] # "erased" /\ Race(t)
  /\ \/ ~flash_hdl.open /\ script' = Rest(t) /\ stage' = [stage EXCEPT ![t] = "run"]
        /\ UNCHANGED <<flash, place, cache>>
     \/ \E s \in IF Taken(t) THEN {flash_hdl.at, Following(flash_hdl.at)} ELSE {flash_hdl.at} :
          /\ place' = [place EXCEPT ![t] = s] /\ cache' = [cache EXCEPT ![t] = flash[s]]
          /\ flash' = [flash EXCEPT ![s] = Blank(s)]
          /\ stage' = [stage EXCEPT ![t] = "erased"] /\ UNCHANGED script
  /\ UNCHANGED <<phase, firmware, flash_hdl, askVars, overrun, beside, torn, orders, cuts>>
Program(t) ==
  /\ Writing(t, "erased")
  /\ \E v \in IF place[t] = Head(script[t]).at THEN {New(Head(script[t]), cache[t])}
                                               ELSE Junk(place[t]) :
       flash' = [flash EXCEPT ![place[t]] = v]
  /\ torn' = (torn \/ (place[t] = "params" /\ Head(script[t]).at # "params"))
  /\ Race(t)                  \* a task that waits for the driver closes its own handle
  /\ flash_hdl' = IF Taken(t) THEN flash_hdl ELSE Closed(t, flash_hdl.at)
  /\ stage' = [stage EXCEPT ![t] = "run"] /\ script' = Rest(t)
  /\ place' = [place EXCEPT ![t] = "none"] /\ cache' = [cache EXCEPT ![t] = Blank("didi")]
  /\ UNCHANGED <<phase, firmware, askVars, overrun, beside, orders, cuts>>
\* Reading, and asking for the base address, go through the static handle too.
Peek(t) ==
  /\ Busy(t) /\ stage[t] = "run" /\ Head(script[t]).do = "peek" /\ script' = Rest(t)
  /\ flash_hdl' = Closed(t, Head(script[t]).at)
  /\ UNCHANGED <<phase, firmware, flash, stage, place, cache, askVars, histVars, orders, cuts>>
\* EepromEras opens a handle of its own, EepromWriteCoodaddr the static one.
EepromEras(t) ==
  /\ Busy(t) /\ Head(script[t]).do = "erase" /\ stage[Other(t)] # "erased"
  /\ flash' = [flash EXCEPT ![Head(script[t]).at] = Blank(Head(script[t]).at)]
  /\ flash_hdl' = IF Head(script[t]).at = "cood" THEN Closed(t, "cood") ELSE flash_hdl
  /\ script' = Rest(t)
  /\ UNCHANGED <<phase, firmware, stage, place, cache, askVars, histVars, orders, cuts>>
\* A register table without its end: page after page over what follows it,
\* or, when the last line read is empty, nothing more - and never an end.
RunsOver(t) ==
  /\ Busy(t) /\ Head(script[t]).do = "overrun" /\ stage[Other(t)] # "erased"
  /\ LET s == Head(script[t]).at
     IN \/ /\ \E v \in Junk(s) : flash' = [flash EXCEPT ![s] = v]
           /\ overrun' = TRUE /\ torn' = (torn \/ s = "params")
           /\ script' = [script EXCEPT ![t] = IF s = "params" THEN <<Step("spin")>>
                                              ELSE <<[Head(@) EXCEPT !.at = Following(s)]>>]
        \/ script' = [script EXCEPT ![t] = <<Step("spin")>>] /\ UNCHANGED <<flash, overrun, torn>>
  /\ UNCHANGED <<phase, firmware, flash_hdl, stage, place, cache, askVars, raced, beside, installed,
                 orders, cuts>>

(***************************************************************************)
(* Commands of the server and of the shell.                                *)
(***************************************************************************)
Begins(t, s) ==
  /\ phase = "up" /\ script[t] = <<>> /\ stage[t] = "run" /\ Runs(t)
  /\ orders < MaxOrders /\ orders' = orders + 1
  /\ script' = [script EXCEPT ![t] = s]
  /\ installed' = IF Configures(s) THEN "none" ELSE installed
  /\ beside' = (beside \/ (Configures(s) /\ IF t = "shell" THEN script["upload"] # <<>>
                                                          ELSE Configures(script["shell"])))
  /\ UNCHANGED <<phase, firmware, flash, flash_hdl, stage, place, cache, local, misled,
                 raced, overrun, torn, cuts>>
\* 0x07: both tables, whatever becomes of the first, the answer and a restart
Install(b, r, c) ==
  EepromInit \o Wbaseconfig(b, c) \o Wregtable(r, c)
  \o <<[Step("reboot") EXCEPT !.val = IF b = "good" /\ r = "good" THEN c ELSE "none"]>>
Command ==
  \/ "install" \in UploadOrders /\ UNCHANGED asked
     /\ \E b \in {"good", "bad"}, r \in Files, c \in Contents : Begins("upload", Install(b, r, c))
  \/ "coordinator" \in UploadOrders /\ UNCHANGED asked
     /\ \E c \in Contents : Begins("upload", EepromWriteCoodaddr(c))
  \/ "update" \in UploadOrders /\ UNCHANGED asked
     /\ Begins("upload", <<Step("tftp"), Step("analyse")>>)
Shell ==
  \/ \E f \in Files, c \in Contents :
       \/ "wbaseconfig" \in ShellOrders /\ Begins("shell", Wbaseconfig(f, c))
       \/ "wregtable" \in ShellOrders /\ Begins("shell", Wregtable(f, c))
       \/ "wroutertable" \in ShellOrders /\ Begins("shell", Wroutertable(f, c))
       \/ "wdidi_diantable" \in ShellOrders /\ Begins("shell", Wdidi_diantable(f, c))
     /\ UNCHANGED asked
  \/ "field" \in ShellOrders /\ Begins("shell", SetField)
     /\ UNCHANGED asked
  \/ "upgrade" \in ShellOrders
     /\ \E v \in Versions : Begins("shell", UpgradeDiCor(v)) /\ asked' = asked \cup {v}
  \/ "reboot" \in ShellOrders /\ Begins("shell", <<Step("reboot")>>) /\ UNCHANGED asked

\* Dicor_TFTP_client: the file is opened for writing with the first block; of
\* the errors of the server only the first and a second silence are returned.
\* The version is the one the server has by then.
Now(t, name) == Busy(t) /\ stage[t] = "run" /\ Head(script[t]).do = name
TftpIgnoresError ==           \* A slip: the result is not looked at
  /\ Now("upload", "tftp") /\ script' = Rest("upload")
  /\ \E got \in Versions \cup {"partial", "none"}, ok \in BOOLEAN :
       /\ got \in Versions => ok
       /\ local' = IF got = "none" THEN local ELSE got
       /\ misled' = (misled \/ (ok /\ got \notin Versions))
       /\ asked' = asked \cup ({got} \cap Versions)
  /\ UNCHANGED <<phase, firmware, flash, flash_hdl, stage, place, cache, histVars, orders, cuts>>
Tftp ==
  /\ Now("upload", "tftp")
  /\ \E got \in Versions \cup {"partial", "none"}, ok \in BOOLEAN :
       /\ got \in Versions => ok
       /\ local' = IF got = "none" THEN local ELSE got
       /\ script' = IF ok THEN Rest("upload") ELSE [script EXCEPT !["upload"] = <<>>]
       /\ misled' = (misled \/ (ok /\ got \notin Versions))
       /\ asked' = asked \cup ({got} \cap Versions)
  /\ UNCHANGED <<phase, firmware, flash, flash_hdl, stage, place, cache, histVars, orders, cuts>>
\* AnalyseVersionFile: no file, a line that cannot be cut, no mark to be found,
\* or a version - never compared with the one that runs.
Analyse ==
  /\ Now("upload", "analyse")
  /\ \/ local \in {"none", "partial"} /\ script' = [script EXCEPT !["upload"] = <<>>]
     \/ local = "partial" /\ script' = [script EXCEPT !["upload"] = <<Step("spin")>>]
     \/ local = "partial" /\ script' = [script EXCEPT !["upload"] = UpdateTo("junk")]
     \/ local \in Versions /\ script' = [script EXCEPT !["upload"] = UpdateTo(local)]
  /\ UNCHANGED <<phase, firmware, flash, flash_hdl, stage, place, cache, askVars, histVars, orders,
                 cuts>>
Dicor_Reboot(t) ==
  /\ Now(t, "reboot") /\ Restart /\ UNCHANGED <<firmware, askVars, raced, overrun, beside, orders, cuts>>
  /\ LET c == Head(script[t]).val
     IN IF c # "none" /\ ~raced /\ ~overrun /\ ~beside /\ script["shell"] = <<>>
        THEN installed' = c /\ UNCHANGED <<flash, torn>> ELSE CutShort

EepromWrite(t) == Open(t) \/ Skip(t) \/ Seek(t) \/ Rewrite(t) \/ Program(t)
Next == \/ Boot \/ Started \/ PowerFail \/ Command \/ Shell \/ Tftp \/ Analyse
        \/ \E t \in {"upload", "shell"} :
             EepromWrite(t) \/ EepromEras(t) \/ Peek(t) \/ RunsOver(t) \/ Dicor_Reboot(t)
Spec == Init /\ [][Next]_vars

-----------------------------------------------------------------------------
(* Type invariant. *)
TypeOK ==
  /\ phase \in {"boot", "init", "up"} /\ firmware \in Versions
  /\ flash["base"] \in [head : BOOLEAN, soft : Versions \cup {"older", "blank", "junk"},
                        conf : Contents \cup {"default", "blank", "junk"}]
  /\ flash["params"] \in [sig : BOOLEAN, update : BOOLEAN, file : Versions \cup {"blank", "junk"}]
  /\ \A s \in Tables : flash[s] \in Contents \cup {"default", "blank", "junk"}
  /\ flash_hdl \in [by : {"none", "upload", "shell"}, at : Sectors, open : BOOLEAN]
  /\ \A t \in {"upload", "shell"} :
       /\ stage[t] \in {"run", "opened", "sought", "erased"}
       /\ stage[t] = "erased" <=> place[t] # "none"
  /\ local \in Versions \cup {"none", "partial"} /\ asked \subseteq Versions

Rewriting(s) == \E t \in {"upload", "shell"} : place[t] = s
Ordering == \E t \in {"upload", "shell"} :
              \E i \in 1 .. Len(script[t]) : script[t][i].kind = "order"

(* Once EepromInit is through the flash has a valid head, the version of the *)
(* program that runs and a valid record for the boot loader, whatever a power *)
(* failure, a race or a table without an end left before the restart; it     *)
(* keeps them until two tasks meet in EepromWrite or such a table is read.   *)
Sound ==
  /\ TypeOK
  /\ phase = "up" /\ ~raced /\ ~overrun =>
       /\ ~Rewriting("base") => flash["base"].head /\ flash["base"].soft = firmware
       /\ ~Rewriting("params") /\ ~Ordering => flash["params"].sig

(* The boot loader is told to load only a version that the shell or the       *)
(* server's version file, downloaded whole, asked for - unless a download     *)
(* that failed was reported as a success, or the record was hit by a power    *)
(* failure or by a write meant for another sector.                            *)
AskedFor ==
  flash["params"].sig /\ flash["params"].update
    => flash["params"].file \in asked \/ misled \/ torn

(* The tables that 0x07 installed from two good files, while the shell wrote   *)
(* none beside it, stay together through restarts, updates, repairs and the   *)
(* setting of fields, until one of them is written again, hit by a power      *)
(* failure, or a handle is replaced.                                          *)
Installed ==
  installed # "none" =>
    /\ ~Rewriting("base") => flash["base"].conf = installed
    /\ flash["reg1"] = installed /\ flash["reg2"] = installed
=============================================================================
