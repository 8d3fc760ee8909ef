---------------------------- MODULE ModbusProofs ----------------------------
(***************************************************************************)
(* The RS-485 bus for every set of commands, every size of a program and   *)
(* any number of faults, commands and resends, one resend at least.        *)
(***************************************************************************)
EXTENDS Modbus, TLAPS

USE ModbusAssumption, CommandsAssumption

-----------------------------------------------------------------------------
(* A command that waits alone on the bus: what is on its way answers it, and *)
(* no poll is.                                                              *)
AloneOK ==
  quiet /\ up = "wait" =>
    /\ poller \notin Talking
    /\ \A i \in DOMAIN todo : todo[i].own
    /\ \A i \in DOMAIN rx : rx[i].code = "noise" \/ (rx[i].own /\ ~rx[i].cut)

(* Only a step that is repeated is tried again.                              *)
TriesOK == Loads /\ up \in {"write", "wait"} /\ try > 0 => resent

(* The steps left of a load end the loader, and the coordinator holds the    *)
(* chunks of the steps before them.                                         *)
Position == Chunks + 5 - Len(script)
Written == 1 .. Position - 4 \subseteq node.flash
PlaceOK ==
  /\ Position \in 1 .. Chunks + 4
  /\ \A i \in 1 .. Len(script) : script[i] = Loader[Position + i - 1]

(* Between two steps no request of the loader is on its way; in a step one   *)
(* at most, that step's own, and not both the request and its answer; the    *)
(* answer to the writing of a chunk says that the chunk is there.            *)
Step == Head(script)
RequestOK == \A i \in DOMAIN todo : OfLoader(todo[i]) => todo[i].code = Step.code /\ todo[i].n = Step.n
OneRequest == \A i, j \in DOMAIN todo : OfLoader(todo[i]) /\ OfLoader(todo[j]) => i = j
NotBoth == \A i \in DOMAIN todo, j \in DOMAIN rx : ~(OfLoader(todo[i]) /\ OfLoader(rx[j]))
AnswerOK ==
  \A j \in DOMAIN rx : rx[j].code = "write" /\ rx[j].ok /\ Step.code = "write" => Step.n \in node.flash

LoadOK ==
  Loads /\ ~resent /\ up \in {"write", "wait"} =>
    /\ PlaceOK /\ Written
    /\ up = "write" => \A i \in DOMAIN todo : ~OfLoader(todo[i])
    /\ up = "wait" => RequestOK /\ OneRequest /\ NotBoth /\ AnswerOK

(* The failed polls counted are no more than those that failed in a row, but *)
(* for the one the radio adds when it confirms a set command.                *)
FailuresOK ==
  /\ flag <= silent + 1 /\ flag < NoAnswers
  /\ cmd_04_error_flag <= silent /\ cmd_04_error_flag < Errors

IInv ==
  /\ TrueReport
  /\ resent \in BOOLEAN /\ quiet \in BOOLEAN
  /\ up \in {"write", "wait"} => script # <<>>
  /\ AloneOK /\ TriesOK /\ LoadOK /\ FailuresOK

-----------------------------------------------------------------------------
(* Sequences: what is appended, taken off the front, or told to be stale.    *)
LEMMA Appended ==
  ASSUME NEW S, NEW s \in Seq(S), NEW x \in S
  PROVE  /\ Append(s, x) \in Seq(S) /\ DOMAIN Append(s, x) = 1 .. Len(s) + 1
         /\ DOMAIN s = 1 .. Len(s) /\ Len(s) \in Nat
         /\ \A i \in 1 .. Len(s) : Append(s, x)[i] = s[i]
         /\ Append(s, x)[Len(s) + 1] = x
  OBVIOUS

LEMMA Served ==
  ASSUME NEW S, NEW s \in Seq(S), s # <<>>
  PROVE  /\ Head(s) \in S /\ Tail(s) \in Seq(S) /\ Head(s) = s[1] /\ 1 \in DOMAIN s
         /\ Len(s) \in Nat \ {0} /\ Len(Tail(s)) = Len(s) - 1
         /\ DOMAIN s = 1 .. Len(s) /\ DOMAIN Tail(s) = 1 .. Len(s) - 1
         /\ \A i \in 1 .. Len(s) - 1 : Tail(s)[i] = s[i + 1] /\ i + 1 \in DOMAIN s
  OBVIOUS

LEMMA StaleRequests ==
  ASSUME NEW s \in Seq(Requests), NEW by
  PROVE  /\ Stale(s, by) \in Seq(Requests) /\ DOMAIN Stale(s, by) = DOMAIN s
         /\ \A i \in DOMAIN s : Stale(s, by)[i].code = s[i].code /\ Stale(s, by)[i].n = s[i].n
<1>1. \A i \in DOMAIN s : s[i] \in Requests
  OBVIOUS
<1>2. ASSUME NEW q \in Requests
      PROVE  /\ [q EXCEPT !.own = FALSE] \in Requests
             /\ [q EXCEPT !.own = FALSE].code = q.code /\ [q EXCEPT !.own = FALSE].n = q.n
  BY DEF Requests
<1>3. DOMAIN s = 1 .. Len(s) /\ Len(s) \in Nat
  OBVIOUS
<1>4. \A i \in DOMAIN s : Stale(s, by)[i] \in Requests /\ Stale(s, by)[i].code = s[i].code
                        /\ Stale(s, by)[i].n = s[i].n
  BY <1>1, <1>2 DEF Stale
<1>5. DOMAIN Stale(s, by) = DOMAIN s
  BY DEF Stale
<1>6. Stale(s, by) = [i \in 1 .. Len(s) |-> Stale(s, by)[i]]
  BY <1>3 DEF Stale
<1>7. Stale(s, by) \in Seq(Requests)
  BY <1>3, <1>4, <1>6
<1> QED
  BY <1>4, <1>5, <1>7

LEMMA StaleFrames ==
  ASSUME NEW s \in Seq(Frames), NEW by
  PROVE  Stale(s, by) \in Seq(Frames)
<1>1. \A i \in DOMAIN s : s[i] \in Frames
  OBVIOUS
<1>2. ASSUME NEW q \in Frames PROVE [q EXCEPT !.own = FALSE] \in Frames
  BY DEF Frames
<1>3. DOMAIN s = 1 .. Len(s) /\ Len(s) \in Nat
  OBVIOUS
<1>4. \A i \in DOMAIN s : Stale(s, by)[i] \in Frames
  BY <1>1, <1>2 DEF Stale
<1>5. Stale(s, by) = [i \in 1 .. Len(s) |-> Stale(s, by)[i]]
  BY <1>3 DEF Stale
<1> QED
  BY <1>3, <1>4, <1>5

LEMMA Joined ==
  ASSUME NEW S, NEW s \in Seq(S), NEW r \in Seq(S)
  PROVE  /\ s \o r \in Seq(S) /\ Len(s \o r) = Len(s) + Len(r)
         /\ \A i \in 1 .. Len(s) : (s \o r)[i] = s[i]
         /\ \A i \in 1 .. Len(r) : (s \o r)[Len(s) + i] = r[i]
  OBVIOUS

-----------------------------------------------------------------------------
(* The loader: its steps, and that all are followed by the end.              *)
LEMMA LoaderSteps ==
  /\ Loader \in Seq(Parts) /\ Len(Loader) = Chunks + 4
  /\ Loader[1] = EnterIap /\ Loader[2] = LoadPreamble /\ Loader[3] = EraseFlash
  /\ \A k \in 1 .. Chunks : Loader[k + 3] = WriteFlash(k)
  /\ Loader[Chunks + 4] = EndIap
<1> DEFINE a == <<EnterIap, LoadPreamble, EraseFlash>>
           b == [k \in 1 .. Chunks |-> WriteFlash(k)]
           c == <<EndIap>>
<1>1. EnterIap \in Parts /\ LoadPreamble \in Parts /\ EraseFlash \in Parts /\ EndIap \in Parts
  BY DEF EnterIap, LoadPreamble, EraseFlash, EndIap, Parts, Codes
<1>2. \A k \in 1 .. Chunks : WriteFlash(k) \in Parts
  BY DEF WriteFlash, Parts, Codes
<1>3. a \in Seq(Parts) /\ Len(a) = 3 /\ a[1] = EnterIap /\ a[2] = LoadPreamble /\ a[3] = EraseFlash
  BY <1>1
<1>4. b \in Seq(Parts) /\ Len(b) = Chunks /\ \A k \in 1 .. Chunks : b[k] = WriteFlash(k)
  BY <1>2
<1>5. c \in Seq(Parts) /\ Len(c) = 1 /\ c[1] = EndIap
  BY <1>1
<1>6. Loader = (a \o b) \o c
  BY DEF Loader
<1> HIDE DEF a, b, c
<1>7. /\ a \o b \in Seq(Parts) /\ Len(a \o b) = Chunks + 3
      /\ \A i \in 1 .. 3 : (a \o b)[i] = a[i]
      /\ \A k \in 1 .. Chunks : (a \o b)[3 + k] = b[k]
  <2>0. a \in Seq(Parts) /\ b \in Seq(Parts)
    BY <1>3, <1>4
  <2>1. /\ a \o b \in Seq(Parts) /\ Len(a \o b) = Len(a) + Len(b)
        /\ \A i \in 1 .. Len(a) : (a \o b)[i] = a[i]
        /\ \A i \in 1 .. Len(b) : (a \o b)[Len(a) + i] = b[i]
    BY <2>0, Joined
  <2>2. Len(a) = 3 /\ Len(b) = Chunks
    BY <1>3, <1>4
  <2>3. Len(a \o b) = Chunks + 3
    BY <2>1, <2>2
  <2> QED
    BY <2>1, <2>2, <2>3
<1> DEFINE d == a \o b
<1> HIDE DEF d
<1>8. d \in Seq(Parts) /\ Len(d) = Chunks + 3
  BY <1>7 DEF d
<1>9. /\ d \o c \in Seq(Parts) /\ Len(d \o c) = Chunks + 4
      /\ \A i \in 1 .. Chunks + 3 : (d \o c)[i] = d[i]
      /\ (d \o c)[Chunks + 4] = c[1]
  <2>0. d \in Seq(Parts) /\ c \in Seq(Parts)
    BY <1>5, <1>8
  <2>1. /\ d \o c \in Seq(Parts) /\ Len(d \o c) = Len(d) + Len(c)
        /\ \A i \in 1 .. Len(d) : (d \o c)[i] = d[i]
        /\ \A i \in 1 .. Len(c) : (d \o c)[Len(d) + i] = c[i]
    BY <2>0, Joined
  <2>2. Len(d) + 1 = Chunks + 4 /\ 1 \in 1 .. Len(c)
    BY <1>5, <1>8
  <2> QED
    BY <1>5, <1>8, <2>1, <2>2
<1>10. \A k \in 1 .. Chunks : k + 3 \in 1 .. Chunks + 3 /\ k + 3 = 3 + k
  OBVIOUS
<1>11. \A i \in 1 .. 3 : i \in 1 .. Chunks + 3
  OBVIOUS
<1>12. Loader = d \o c
  BY <1>6 DEF d
<1>13. \A k \in 1 .. Chunks : d[k + 3] = WriteFlash(k)
  BY <1>4, <1>7, <1>10 DEF d
<1>14. d[1] = EnterIap /\ d[2] = LoadPreamble /\ d[3] = EraseFlash
  BY <1>3, <1>7 DEF d
<1> QED
  BY <1>5, <1>9, <1>10, <1>11, <1>12, <1>13, <1>14, SMTT(20)

(* The script of a command.                                                 *)
LEMMA StepsType ==
  ASSUME NEW c \in Orders
  PROVE  /\ Steps(c) \in Seq(Parts) /\ Steps(c) # <<>>
         /\ c = LoadNode => Steps(c) = Loader
<1>1. c = LoadNode <=> c.waits = "isp"
  BY DEF Orders, SetRouterTable, SetFFDTable, BindRFD, StartCollect, SetAddress, GetParameter,
         StartPoll, TurnOn, ShutDown, ReadSample, LoadNode
<1>2. CASE c.waits = "isp"
  <2>1. Steps(c) = Loader
    BY <1>2 DEF Steps
  <2>2. Len(Loader) > 0
    BY LoaderSteps
  <2> QED
    BY <2>1, <2>2, LoaderSteps
<1>3. CASE c.waits # "isp"
  <2>1. c.code \in Codes /\ c.code # "write"
    BY <1>3 DEF Orders, SetRouterTable, SetFFDTable, BindRFD, StartCollect, SetAddress,
         GetParameter, StartPoll, TurnOn, ShutDown, ReadSample, LoadNode, Codes
  <2>2. [code |-> c.code, n |-> 0] \in Parts
    BY <2>1 DEF Parts
  <2>3. Steps(c) = <<[code |-> c.code, n |-> 0]>>
    BY <1>3 DEF Steps
  <2> DEFINE p == [code |-> c.code, n |-> 0]
  <2> HIDE DEF p
  <2>4. <<p>> \in Seq(Parts) /\ <<p>> # <<>>
    BY <2>2 DEF p
  <2> QED
    BY <1>1, <1>3, <2>3, <2>4 DEF p
<1> QED
  BY <1>2, <1>3

(* What one writes to the bus and what the coordinator answers.              *)
LEMMA RequestType ==
  ASSUME TypeOK, NEW by \in {"poll", "cmd"}, NEW s \in Parts
  PROVE  Request(by, s) \in Requests
  BY DEF Request, Requests, Parts, TypeOK

LEMMA FrameType ==
  ASSUME TypeOK, NEW q \in Requests, NEW ok \in BOOLEAN, NEW cut \in BOOLEAN
  PROVE  Frame(q, ok, cut) \in Frames
<1>1. node.addr \in {"D", "N"}
  BY DEF TypeOK
<1> QED
  BY <1>1 DEF Frame, Requests, Frames

LEMMA NodeType ==
  ASSUME TypeOK, NEW q \in Requests, CarriesOut(q), Works(q)
  PROVE  /\ node' \in [addr : {"D", "N"}, health : {"ok", "hung", "sick"}, boot : BOOLEAN,
                       flash : SUBSET (1 .. Chunks)]
<1> DEFINE Nodes == [addr : {"D", "N"}, health : {"ok", "hung", "sick"}, boot : BOOLEAN,
                     flash : SUBSET (1 .. Chunks)]
<1>1. node \in Nodes
  BY DEF TypeOK
<1>2. q.code = "write" => q.n \in 1 .. Chunks
  BY DEF Requests
<1> QED
  BY <1>1, <1>2 DEF CarriesOut
USE DEF addrVars, busVars, pollVars, upVars, shVars, vars

-----------------------------------------------------------------------------
(* The counting of failed polls.                                            *)
Counters ==
  flag \in 0 .. NoAnswers /\ cmd_04_error_flag \in 0 .. Errors /\ silent \in 0 .. Errors

LEMMA BadCounts ==
  ASSUME TypeOK, FailuresOK, NEW c, BadSample(c)
  PROVE  /\ Counters' /\ FailuresOK'
         /\ TooMany(c) => silent' >= NoAnswers - 1
<1>1. PICK t, f, e : t = silent' /\ f = flag' /\ e = cmd_04_error_flag'
  OBVIOUS
<1>2. /\ flag \in Nat /\ cmd_04_error_flag \in Nat /\ silent \in Nat /\ silent <= Errors
      /\ NoAnswers \in Nat /\ Errors \in Nat
  BY DEF TypeOK
<1>3. flag <= silent + 1 /\ flag < NoAnswers /\ cmd_04_error_flag <= silent /\ cmd_04_error_flag < Errors
  BY DEF FailuresOK
<1>4. t = Min2(silent + 1, Errors)
  BY <1>1 DEF BadSample
<1>5. /\ t \in 0 .. Errors /\ 0 <= t /\ flag <= t + 1 /\ cmd_04_error_flag <= t
      /\ flag + 1 = NoAnswers => t >= NoAnswers - 1
      /\ cmd_04_error_flag + 1 = Errors => t >= NoAnswers - 1
      /\ flag + 1 # NoAnswers => flag + 1 < NoAnswers /\ flag + 1 <= t + 1
      /\ cmd_04_error_flag + 1 # Errors => cmd_04_error_flag + 1 < Errors /\ cmd_04_error_flag + 1 <= t
  BY <1>2, <1>3, <1>4 DEF Min2
<1>6. TooMany(c) => t >= NoAnswers - 1
  BY <1>5 DEF TooMany
<1>7. /\ f \in 0 .. NoAnswers /\ f <= t + 1 /\ f < NoAnswers
      /\ e \in 0 .. Errors /\ e <= t /\ e < Errors
  <2>1. CASE TooMany(c)
    <3>1. f = 0 /\ e = 0
      BY <1>1, <2>1 DEF BadSample
    <3> QED
      BY <1>2, <1>5, <3>1
  <2>2. CASE ~TooMany(c)
    <3>1. /\ f = IF c = "none" THEN flag + 1 ELSE flag
          /\ e = IF c = "error" THEN cmd_04_error_flag + 1 ELSE cmd_04_error_flag
      BY <1>1, <2>2 DEF BadSample
    <3>2. /\ c = "none" => flag + 1 < NoAnswers /\ flag + 1 <= t + 1
          /\ c = "error" => cmd_04_error_flag + 1 < Errors /\ cmd_04_error_flag + 1 <= t
      BY <1>5, <2>2 DEF TooMany
    <3> QED
      BY <1>2, <1>3, <1>5, <3>1, <3>2
  <2> QED
    BY <2>1, <2>2
<1> QED
  BY <1>1, <1>5, <1>6, <1>7 DEF Counters, FailuresOK

LEMMA GoodCounts == ASSUME GoodSample PROVE Counters' /\ FailuresOK'
  BY DEF GoodSample, Good, Counters, FailuresOK

LEMMA SameCounts ==
  ASSUME TypeOK, FailuresOK, UNCHANGED <<flag, cmd_04_error_flag, silent>>
  PROVE  Counters' /\ FailuresOK'
  BY DEF TypeOK, Counters, FailuresOK

LEMMA RebootCounts == ASSUME TypeOK, Reboot PROVE Counters' /\ FailuresOK'
  BY DEF TypeOK, Reboot, Counters, FailuresOK

LEMMA CountersStep ==
  ASSUME IInv, [Next]_vars
  PROVE  Counters' /\ FailuresOK'
<1> USE DEF IInv, TrueReport
<1>1. CASE Respond
  BY <1>1, SameCounts DEF Respond
<1>2. CASE Hiccup
  BY <1>2, SameCounts DEF Hiccup
<1>3. CASE PowerFails \/ ResetDone
  BY <1>3, RebootCounts DEF PowerFails, ResetDone
<1>4. CASE Ask \/ Synced
  BY <1>4, SameCounts DEF Ask, Synced
<1>5. CASE Gather
  <2>1. CASE Passes
    BY <2>1, SameCounts DEF Passes
  <2> QED
    BY <1>5, <2>1, GoodCounts, BadCounts DEF Gather
<1>6. CASE Begin \/ Write \/ NoProgram
  BY <1>6, SameCounts DEF Begin, Write, NoProgram
<1>7. CASE Wait
  <2>1. CASE Detect \/ ReadParameter \/ Isp
    BY <2>1, SameCounts DEF Detect, ReadParameter, Isp
  <2>2. CASE Collect
    <3>1. CASE Skips(Answer) /\ UNCHANGED <<flag, cmd_04_error_flag, silent>>
      BY <3>1, SameCounts
    <3> QED
      BY <2>2, <3>1, GoodCounts, BadCounts DEF Collect
  <2> QED
    BY <1>7, <2>1, <2>2 DEF Wait
<1>8. CASE Store \/ Done \/ ShellEnds
  BY <1>8, SameCounts DEF Store, Done, ShellEnds
<1>9. CASE ShellSet
  BY <1>9 DEF ShellSet, TypeOK, Counters, FailuresOK
<1>10. CASE RadioConfirms
  BY <1>10 DEF RadioConfirms, TypeOK, Counters, FailuresOK
<1>11. CASE UNCHANGED vars
  BY <1>11, SameCounts
<1> QED
  BY <1>1, <1>2, <1>3, <1>4, <1>5, <1>6, <1>7, <1>8, <1>9, <1>10, <1>11 DEF Next, UploadTask

LEMMA ResetStep ==
  ASSUME IInv, [Next]_vars,
         (poller' = "reset" /\ poller # "reset") \/ (up' = "reset" /\ up # "reset")
  PROVE  silent' >= NoAnswers - 1
<1> USE DEF IInv, TrueReport
<1>1. ASSUME ~Gather, ~Wait PROVE FALSE
  BY <1>1 DEF Next, UploadTask, Respond, Hiccup, PowerFails, ResetDone, Reboot, Ask, Synced, Begin,
              NoProgram, Write, Store, Done, ShellSet, RadioConfirms, ShellEnds
<1>2. CASE Gather
  <2>1. UNCHANGED up
    BY <1>2 DEF Gather
  <2>2. PICK c \in {"none", "error", "crc"} : BadSample(c) /\ TooMany(c)
    BY <1>2, <2>1 DEF Gather, Passes
  <2> QED
    BY <2>2, BadCounts
<1>3. CASE Wait
  <2>1. UNCHANGED poller /\ up = "wait" /\ up' = "reset"
    BY <1>3 DEF Wait
  <2>2. ASSUME ~Collect PROVE FALSE
    BY <1>3, <2>1, <2>2 DEF Wait, Detect, ReadParameter, Isp, Ends, Again, StepDone
  <2>3. PICK c \in {"none", "error", "crc"} : BadSample(c) /\ TooMany(c)
    BY <2>1, <2>2 DEF Collect
  <2> QED
    BY <2>3, BadCounts
<1> QED
  BY <1>1, <1>2, <1>3

-----------------------------------------------------------------------------
(* Types.                                                                   *)
Nodes == [addr : {"D", "N"}, health : {"ok", "hung", "sick"}, boot : BOOLEAN,
          flash : SUBSET (1 .. Chunks)]
BusType == node \in Nodes /\ todo \in Seq(Requests) /\ rx \in Seq(Frames)
TaskType ==
  /\ CoodAddr \in {"D", "N"} /\ stored \in {"none", "N"}
  /\ script \in Seq(Parts) /\ cmd \in Orders \cup {NoCommand}
  /\ poller \in {"off", "idle", "sync", "synced", "start", "ready", "asked", "reset"}
  /\ up \in {"idle", "write", "wait", "end", "erased", "reset"}
  /\ try \in 0 .. Retries /\ shell \in {"idle", "waiting", "confirmed"}
  /\ reported \in {"none", "ok", "false", "fail", "unheard", "nofile", "restart"}
  /\ resent \in BOOLEAN /\ quiet \in BOOLEAN
  /\ up \in {"write", "wait"} => script # <<>>

LEMMA TypeParts == IInv => BusType /\ TaskType
  BY DEF IInv, TrueReport, TypeOK, BusType, TaskType, Nodes

LEMMA PutsType ==
  ASSUME TypeOK, NEW by \in {"poll", "cmd"}, NEW s \in Parts, Puts(Request(by, s))
  PROVE  todo' \in Seq(Requests)
<1>1. Request(by, s) \in Requests
  BY RequestType
<1>2. Append(todo, Request(by, s)) \in Seq(Requests)
  BY <1>1, Appended DEF TypeOK
<1> QED
  BY <1>2 DEF Puts, TypeOK

LEMMA SyncParts ==
  \A s \in {Sync, Steps(StartPoll)[1], Steps(ReadSample)[1]} : s \in Parts /\ ~OfLoader(s)
  BY DEF Sync, Steps, StartPoll, ReadSample, Parts, Codes, OfLoader

LEMMA RespondBus ==
  ASSUME BusType, TypeOK, Respond
  PROVE  BusType'
<1>1. todo # <<>> /\ todo' = Tail(todo)
  BY DEF Respond
<1> DEFINE q == Head(todo)
<1>2. q \in Requests /\ todo' \in Seq(Requests)
  BY <1>1, Served DEF BusType
<1>3. Works(q) \in BOOLEAN
  BY DEF Works
<1>4. ASSUME NEW ok \in BOOLEAN, NEW cut \in BOOLEAN
      PROVE  Append(rx, Frame(q, ok, cut)) \in Seq(Frames)
  <2>1. Frame(q, ok, cut) \in Frames
    BY <1>2, FrameType
  <2> QED
    BY <2>1, Appended DEF BusType
<1>5. \/ UNCHANGED rx
      \/ rx' = Append(rx, Frame(q, Works(q), FALSE))
      \/ \E cut \in BOOLEAN : rx' = Append(rx, Frame(q, FALSE, cut))
      \/ rx' = Append(rx, Frame(q, TRUE, TRUE))
  BY DEF Respond
<1>6. rx' \in Seq(Frames)
  BY <1>3, <1>4, <1>5 DEF BusType
<1>7. UNCHANGED node \/ (Works(q) /\ CarriesOut(q))
  BY DEF Respond
<1>8. node' \in Nodes
  BY <1>2, <1>7, NodeType DEF BusType, Nodes
<1> QED
  BY <1>2, <1>6, <1>8 DEF BusType

LEMMA HiccupBus ==
  ASSUME BusType, Hiccup
  PROVE  BusType'
<1>1. Noise \in Frames
  BY DEF Noise, Frames
<1>2. Append(rx, Noise) \in Seq(Frames)
  BY <1>1, Appended DEF BusType
<1>3. \A h \in {"hung", "sick"} : [node EXCEPT !.health = h] \in Nodes
  BY DEF BusType, Nodes
<1>4. <<>> \in Seq(Requests)
  OBVIOUS
<1>5. todo' \in Seq(Requests)
  BY <1>4 DEF Hiccup, BusType
<1>6. rx' \in Seq(Frames)
  BY <1>2 DEF Hiccup, BusType
<1>7. node' \in Nodes
  BY <1>3 DEF Hiccup, BusType
<1> QED
  BY <1>5, <1>6, <1>7 DEF BusType

(* Every step leaves the bus as typed.                                      *)
LEMMA BusStep ==
  ASSUME IInv, [Next]_vars
  PROVE  BusType'
<1>1. TypeOK /\ BusType /\ TaskType
  BY TypeParts DEF IInv, TrueReport
<1>2. /\ <<>> \in Seq(Requests) /\ <<>> \in Seq(Frames)
      /\ \A by : Stale(todo, by) \in Seq(Requests) /\ Stale(rx, by) \in Seq(Frames)
  BY <1>1, StaleRequests, StaleFrames DEF BusType
<1>3. /\ [node EXCEPT !.health = "hung"] \in Nodes
      /\ [node EXCEPT !.health = "ok", !.boot = node.flash # 1 .. Chunks] \in Nodes
  BY <1>1 DEF BusType, Nodes
<1>4. CASE Respond
  BY <1>1, <1>4, RespondBus
<1>5. CASE Hiccup
  BY <1>1, <1>5, HiccupBus
<1>6. CASE PowerFails \/ ResetDone
  BY <1>1, <1>2, <1>3, <1>6 DEF PowerFails, ResetDone, Reboot, BusType
<1>7. CASE Ask
  <2>1. todo' \in Seq(Requests)
    BY <1>1, <1>7, PutsType, SyncParts DEF Ask
  <2> QED
    BY <1>1, <1>2, <1>7, <2>1 DEF Ask, BusType
<1>8. CASE Synced
  BY <1>1, <1>2, <1>8 DEF Synced, BusType
<1>9. CASE Gather
  BY <1>1, <1>2, <1>3, <1>9 DEF Gather, Passes, HeldInReset, BusType
<1>10. CASE Begin
  BY <1>1, <1>2, <1>10 DEF Begin, BusType
<1>11. CASE Write
  <2>1. Head(script) \in Parts
    BY <1>1, <1>11, Served DEF Write, TaskType
  <2>2. todo' \in Seq(Requests)
    BY <1>1, <1>11, <2>1, PutsType DEF Write
  <2> QED
    BY <1>1, <1>2, <1>11, <2>2 DEF Write, BusType
<1>12. CASE Wait
  BY <1>1, <1>2, <1>3, <1>12 DEF Wait, HeldInReset, BusType
<1>13. CASE NoProgram \/ Store \/ Done \/ ShellSet \/ RadioConfirms \/ ShellEnds
            \/ UNCHANGED vars
  BY <1>1, <1>13 DEF NoProgram, Store, Done, ShellSet, RadioConfirms, ShellEnds, BusType
<1> QED
  BY <1>4, <1>5, <1>6, <1>7, <1>8, <1>9, <1>10, <1>11, <1>12, <1>13 DEF Next, UploadTask

LEMMA ToldType == ASSUME NEW f PROVE Told(f) \in {"ok", "false", "fail"}
  BY DEF Told

LEMMA TaskStep ==
  ASSUME IInv, [Next]_vars
  PROVE  TaskType'
<1>1. TypeOK /\ TaskType
  BY TypeParts DEF IInv, TrueReport
<1>2. CASE Respond
  <2>1. quiet' \in BOOLEAN
    <3>1. quiet' = quiet \/ (\E cut \in BOOLEAN : quiet' = (quiet /\ ~cut)) \/ quiet' = FALSE
      BY <1>2 DEF Respond
    <3> QED
      BY <1>1, <3>1 DEF TaskType
  <2>2. UNCHANGED <<addrVars, pollVars, upVars, shVars>>
    BY <1>2 DEF Respond
  <2> QED
    BY <1>1, <2>1, <2>2 DEF TaskType
<1>3. CASE Hiccup \/ ShellSet \/ RadioConfirms \/ ShellEnds \/ UNCHANGED vars
  BY <1>1, <1>3 DEF Hiccup, ShellSet, RadioConfirms, ShellEnds, TaskType
<1>4. CASE PowerFails \/ ResetDone
  <2>1. /\ CoodAddr' = (IF stored = "none" THEN "D" ELSE stored) /\ UNCHANGED <<stored, quiet>>
        /\ poller' = "idle" /\ up' = "idle" /\ cmd' = NoCommand /\ script' = <<>> /\ try' = 0
        /\ shell' = "idle" /\ reported' = "restart" /\ resent' = FALSE
    BY <1>4 DEF PowerFails, ResetDone, Reboot
  <2>2. <<>> \in Seq(Parts) /\ 0 \in 0 .. Retries
    OBVIOUS
  <2>3. script' \in Seq(Parts) /\ try' \in 0 .. Retries
    BY <2>1, <2>2
  <2> QED
    BY <1>1, <2>1, <2>3 DEF TaskType
<1>5. CASE Ask \/ Synced
  <2>1. poller' \in {"sync", "synced", "start", "ready", "asked"} /\ (quiet' = quiet \/ quiet' = FALSE)
    BY <1>5 DEF Ask, Synced
  <2>3. quiet' \in BOOLEAN
    BY <1>1, <2>1 DEF TaskType
  <2>2. UNCHANGED <<addrVars, upVars, shVars>>
    BY <1>5 DEF Ask, Synced
  <2> QED
    BY <1>1, <2>1, <2>2, <2>3 DEF TaskType
<1>6. CASE Gather
  BY <1>1, <1>6 DEF Gather, Passes, TaskType
<1>7. CASE Begin
  <2>1. PICK c \in Commands : cmd' = c /\ script' = Steps(c) /\ poller' = IF Kills(c) THEN "off" ELSE poller
    BY <1>7 DEF Begin
  <2>2. script' \in Seq(Parts) /\ script' # <<>> /\ cmd' \in Orders
    BY <2>1, StepsType
  <2> QED
    BY <1>1, <1>7, <2>1, <2>2 DEF Begin, TaskType
<1>8. CASE Write
  BY <1>1, <1>8 DEF Write, TaskType
<1>9. CASE Wait
  <2>1. /\ CoodAddr' \in {"D", "N"} /\ stored' \in {"none", "N"} /\ cmd' \in Orders \cup {NoCommand}
        /\ poller' \in {"off", "idle", "sync", "synced", "start", "ready", "asked", "reset"}
        /\ shell' \in {"idle", "waiting", "confirmed"} /\ quiet' \in BOOLEAN
        /\ up' \in {"wait", "write", "end", "reset"} /\ up = "wait" /\ script # <<>>
    BY <1>1, <1>9 DEF Wait, HeldInReset, TaskType
  <2>2. ASSUME Detect \/ ReadParameter \/ Collect
        PROVE  /\ UNCHANGED <<script, try, resent>>
               /\ reported' \in {"none", "ok", "false", "fail", "unheard", "nofile", "restart"}
    BY <1>1, <2>2, ToldType DEF Detect, ReadParameter, Collect, Ends, NoReply, TaskType
  <2>3. CASE Detect \/ ReadParameter \/ Collect
    BY <1>1, <2>1, <2>2, <2>3 DEF TaskType
  <2>4. CASE Isp
    <3>1. /\ resent' \in BOOLEAN /\ try' \in 0 .. Retries
          /\ reported' \in {"none", "ok", "false", "fail", "unheard", "nofile", "restart"}
      <4>1. \/ UNCHANGED <<try, reported, resent>>
            \/ UNCHANGED resent /\ try' = 0
               /\ (reported' \in {"ok", "false", "fail"} \/ UNCHANGED reported)
            \/ try < Retries /\ try' = try + 1 /\ resent' = TRUE /\ UNCHANGED reported
            \/ UNCHANGED <<try, resent>> /\ reported' \in {"ok", "false", "fail"}
        <5>1. Told(Head(rx)) \in {"ok", "false", "fail"} /\ LastWord \subseteq {"ok", "false", "fail"}
          BY ToldType DEF LastWord
        <5> QED
          BY <2>4, <5>1 DEF Isp, Again, Ends, StepDone
      <4>2. try \in 0 .. Retries /\ resent \in BOOLEAN
            /\ reported \in {"none", "ok", "false", "fail", "unheard", "nofile", "restart"}
        BY <1>1 DEF TaskType
      <4>3. (try < Retries => try + 1 \in 0 .. Retries) /\ 0 \in 0 .. Retries
        BY <4>2
      <4> QED
        BY <4>1, <4>2, <4>3, Zenon
    <3>2. script' = script \/ (script' = Tail(script) /\ (Len(script) = 1 => up' = "end"))
      BY <2>4 DEF Isp, Again, Ends, StepDone
    <3>3. Tail(script) \in Seq(Parts) /\ (Len(script) # 1 => Tail(script) # <<>>)
      <4>1. script \in Seq(Parts)
        BY <1>1 DEF TaskType
      <4>2. Tail(script) \in Seq(Parts) /\ Len(Tail(script)) = Len(script) - 1 /\ Len(script) \in Nat
        BY <2>1, <4>1, Served
      <4>3. Len(<<>>) = 0
        OBVIOUS
      <4>4. Len(script) # 1 => Len(Tail(script)) # 0
        BY <4>2
      <4> QED
        BY <4>2, <4>3, <4>4, Zenon
    <3>4. script' \in Seq(Parts) /\ (up' \in {"write", "wait"} => script' # <<>>)
      BY <1>1, <2>1, <3>2, <3>3 DEF TaskType
    <3> QED
      BY <2>1, <3>1, <3>4 DEF TaskType
  <2> QED
    BY <1>9, <2>3, <2>4 DEF Wait
<1>10. CASE NoProgram \/ Store \/ Done
  BY <1>1, <1>10 DEF NoProgram, Store, Done, TaskType
<1> QED
  BY <1>2, <1>3, <1>4, <1>5, <1>6, <1>7, <1>8, <1>9, <1>10 DEF Next, UploadTask

-----------------------------------------------------------------------------
(* The members of a sequence that was changed.                              *)
LEMMA EachAppended ==
  ASSUME NEW S, NEW s \in Seq(S), NEW x \in S, NEW i \in DOMAIN Append(s, x)
  PROVE  (i \in DOMAIN s /\ Append(s, x)[i] = s[i]) \/ (i = Len(s) + 1 /\ Append(s, x)[i] = x)
<1>1. i \in 1 .. Len(s) + 1 /\ Len(s) \in Nat /\ DOMAIN s = 1 .. Len(s)
  BY Appended
<1>2. CASE i \in 1 .. Len(s)
  BY <1>1, <1>2, Appended
<1>3. CASE i = Len(s) + 1
  BY <1>3, Appended
<1> QED
  BY <1>1, <1>2, <1>3

LEMMA EachServed ==
  ASSUME NEW S, NEW s \in Seq(S), s # <<>>, NEW i \in DOMAIN Tail(s)
  PROVE  i + 1 \in DOMAIN s /\ i + 1 # 1 /\ i \in Nat /\ Tail(s)[i] = s[i + 1]
<1>1. i \in 1 .. Len(s) - 1 /\ Len(s) \in Nat \ {0}
  BY Served
<1> QED
  BY <1>1, Served

(* A command alone on the bus is told what answers it.                       *)
Reported == reported = "false" => cmd = GetParameter \/ ~quiet \/ resent

LEMMA AloneRespond ==
  ASSUME IInv, Respond, quiet', up' = "wait"
  PROVE  AloneOK'
<1>1. BusType /\ TypeOK /\ AloneOK
  BY TypeParts DEF IInv, TrueReport
<1> DEFINE q == Head(todo)
<1>2. todo # <<>> /\ todo' = Tail(todo) /\ UNCHANGED <<up, poller>>
  BY DEF Respond
<1>3. quiet /\ (\/ UNCHANGED rx
                \/ rx' = Append(rx, Frame(q, Works(q), FALSE))
                \/ rx' = Append(rx, Frame(q, FALSE, FALSE)))
  BY DEF Respond
<1>4. up = "wait"
  BY <1>2
<1>5. /\ poller \notin Talking
      /\ \A i \in DOMAIN todo : todo[i].own
      /\ \A i \in DOMAIN rx : rx[i].code = "noise" \/ (rx[i].own /\ ~rx[i].cut)
  BY <1>1, <1>3, <1>4 DEF AloneOK
<1>6. q \in Requests /\ q.own /\ todo \in Seq(Requests) /\ rx \in Seq(Frames)
  BY <1>1, <1>2, <1>5, Served DEF BusType
<1>7. \A i \in DOMAIN todo' : todo'[i].own
  <2>1. ASSUME NEW i \in DOMAIN Tail(todo) PROVE Tail(todo)[i].own
    BY <1>2, <1>5, <1>6, EachServed
  <2> QED
    BY <1>2, <2>1
<1>8. ASSUME NEW ok \in BOOLEAN, NEW i \in DOMAIN Append(rx, Frame(q, ok, FALSE))
      PROVE  LET f == Append(rx, Frame(q, ok, FALSE))[i]
             IN  f.code = "noise" \/ (f.own /\ ~f.cut)
  <2>1. Frame(q, ok, FALSE) \in Frames
    BY <1>1, <1>6, FrameType
  <2>2. Frame(q, ok, FALSE).own /\ ~Frame(q, ok, FALSE).cut
    BY <1>6 DEF Frame
  <2> HIDE DEF q
  <2> QED
    BY <1>5, <1>6, <2>1, <2>2, EachAppended, ZenonT(40)
<1>9. \A i \in DOMAIN rx' : rx'[i].code = "noise" \/ (rx'[i].own /\ ~rx'[i].cut)
  <2>1. Works(q) \in BOOLEAN
    BY DEF Works
  <2> HIDE DEF q
  <2> QED
    BY <1>3, <1>5, <1>8, <2>1
<1> QED
  BY <1>2, <1>5, <1>7, <1>9 DEF AloneOK

LEMMA AloneHiccup ==
  ASSUME IInv, Hiccup
  PROVE  AloneOK'
<1>1. BusType /\ AloneOK
  BY TypeParts DEF IInv
<1>2. UNCHANGED <<up, poller, quiet>>
  BY DEF Hiccup
<1>3. SUFFICES ASSUME quiet, up = "wait"
               PROVE  /\ poller \notin Talking
                      /\ \A i \in DOMAIN todo' : todo'[i].own
                      /\ \A i \in DOMAIN rx' : rx'[i].code = "noise" \/ (rx'[i].own /\ ~rx'[i].cut)
  BY <1>2 DEF AloneOK
<1>4. /\ poller \notin Talking
      /\ \A i \in DOMAIN todo : todo[i].own
      /\ \A i \in DOMAIN rx : rx[i].code = "noise" \/ (rx[i].own /\ ~rx[i].cut)
  BY <1>1, <1>3 DEF AloneOK
<1>5. todo' = todo \/ todo' = <<>>
  BY DEF Hiccup
<1>6. \A i \in DOMAIN todo' : todo'[i].own
  BY <1>4, <1>5
<1>7. rx' = rx \/ rx' = Append(rx, Noise)
  BY DEF Hiccup
<1>8. Noise \in Frames /\ Noise.code = "noise"
  BY DEF Noise, Frames
<1>9. ASSUME NEW i \in DOMAIN Append(rx, Noise)
      PROVE  LET f == Append(rx, Noise)[i] IN f.code = "noise" \/ (f.own /\ ~f.cut)
  BY <1>1, <1>4, <1>8, EachAppended DEF BusType
<1> QED
  BY <1>4, <1>6, <1>7, <1>9

LEMMA AloneWrite ==
  ASSUME IInv, Write
  PROVE  AloneOK'
<1>1. SUFFICES ASSUME quiet'
               PROVE  /\ poller' \notin Talking
                      /\ \A i \in DOMAIN todo' : todo'[i].own
                      /\ \A i \in DOMAIN rx' : rx'[i].code = "noise" \/ (rx'[i].own /\ ~rx'[i].cut)
  BY DEF AloneOK
<1>2. /\ todo = <<>> /\ poller \notin Talking /\ UNCHANGED poller
      /\ rx' = <<>>
  BY <1>1 DEF Write
<1> DEFINE q == Request("cmd", Head(script))
<1>3. todo' = <<>> \/ todo' = Append(<<>>, q)
  BY <1>2 DEF Write, Puts
<1>4. q.own
  BY DEF Request
<1> HIDE DEF q
<1>5. \A i \in DOMAIN Append(<<>>, q) : Append(<<>>, q)[i].own
  BY <1>4
<1> QED
  BY <1>2, <1>3, <1>5

LEMMA ReportedWait ==
  ASSUME IInv, Wait
  PROVE  Reported'
<1>1. SUFFICES ASSUME reported' = "false", cmd # GetParameter, quiet, ~resent'
               PROVE  FALSE
  BY DEF Wait, Reported
<1>2. up = "wait" /\ TaskType /\ Reported /\ BusType
  BY TypeParts DEF IInv, TrueReport, Reported, Wait
<1>3. \A i \in DOMAIN rx : rx[i].code = "noise" \/ (rx[i].own /\ ~rx[i].cut)
  BY <1>1, <1>2 DEF IInv, AloneOK
<1>4. rx # <<>> => Head(rx).code = "noise" \/ (Head(rx).own /\ ~Head(rx).cut)
  BY <1>2, <1>3, Served DEF BusType
<1>0. resent => resent'
  BY DEF Wait, Detect, ReadParameter, Collect, Isp, Again, Ends
<1>5. reported # "false"
  BY <1>0, <1>1, <1>2 DEF Reported
<1>6. CASE Detect
  <2>1. rx # <<>> /\ Accepts(Head(rx)) /\ Told(Head(rx)) = "false"
    BY <1>1, <1>5, <1>6 DEF Detect, NoReply
  <2> QED
    BY <1>4, <2>1 DEF Accepts, Told
<1>7. CASE ReadParameter
  BY <1>1, <1>2, <1>7 DEF ReadParameter, TaskType, Orders, SetRouterTable, SetFFDTable, BindRFD,
     StartCollect, SetAddress, GetParameter, StartPoll, TurnOn, ShutDown, ReadSample, LoadNode, NoCommand
<1>8. CASE Collect
  <2>1. GoodSample /\ ~Head(rx).own
    BY <1>1, <1>5, <1>8 DEF Collect
  <2> QED
    BY <1>4, <2>1 DEF GoodSample, Answer, Heard, FromCood
<1>9. CASE Isp
  <2>1. ASSUME rx # <<>>, IspAccepts(Head(rx)) PROVE Told(Head(rx)) = "ok"
    BY <1>4, <2>1 DEF IspAccepts, FromCood, Told
  <2>2. CASE Again
    <3>1. try = Retries /\ ~resent
      BY <1>0, <1>1, <1>2, <1>5, <2>2 DEF Again, TaskType
    <3> QED
      BY <1>2, <1>9, <3>1 DEF Isp, IInv, TriesOK
  <2> QED
    BY <1>1, <1>5, <1>9, <2>1, <2>2 DEF Isp, StepDone
<1> QED
  BY <1>6, <1>7, <1>8, <1>9 DEF Wait

LEMMA AloneStep ==
  ASSUME IInv, [Next]_vars
  PROVE  AloneOK' /\ Reported'
<1>1. AloneOK /\ Reported /\ TaskType
  BY TypeParts DEF IInv, TrueReport, Reported
<1>2. CASE Respond
  <2>1. Reported'
    BY <1>1, <1>2 DEF Respond, Reported
  <2>2. AloneOK'
    BY <1>2, AloneRespond DEF AloneOK
  <2> QED
    BY <2>1, <2>2
<1>3. CASE Hiccup
  BY <1>1, <1>3, AloneHiccup DEF Hiccup, Reported
<1>4. CASE PowerFails \/ ResetDone
  BY <1>4 DEF PowerFails, ResetDone, Reboot, AloneOK, Reported
<1>5. CASE Ask
  BY <1>5 DEF Ask, AloneOK, Reported
<1>6. CASE Synced \/ Gather
  <2>1. UNCHANGED <<up, cmd, quiet, resent, reported>> /\ poller \in Talking
    BY <1>6 DEF Synced, Gather, Talking
  <2> QED
    BY <1>1, <2>1 DEF AloneOK, Reported
<1>7. CASE Begin
  BY <1>7 DEF Begin, AloneOK, Reported
<1>8. CASE Write
  <2>1. Reported'
    BY <1>1, <1>8 DEF Write, Reported
  <2> QED
    BY <1>8, <2>1, AloneWrite
<1>9. CASE Wait
  <2>1. UNCHANGED <<poller, quiet>> /\ rx' = <<>> /\ up = "wait" /\ (up' = "wait" => UNCHANGED todo)
    BY <1>9 DEF Wait, HeldInReset
  <2>2. AloneOK'
    BY <1>1, <2>1 DEF AloneOK
  <2> QED
    BY <1>9, <2>2, ReportedWait
<1>10. CASE NoProgram \/ Store \/ Done
  BY <1>1, <1>10 DEF NoProgram, Store, Done, AloneOK, Reported
<1>11. CASE ShellSet \/ RadioConfirms \/ ShellEnds \/ UNCHANGED vars
  BY <1>1, <1>11 DEF ShellSet, RadioConfirms, ShellEnds, AloneOK, Reported
<1> QED
  BY <1>2, <1>3, <1>4, <1>5, <1>6, <1>7, <1>8, <1>9, <1>10, <1>11 DEF Next, UploadTask

LEMMA TriesStep ==
  ASSUME IInv, [Next]_vars
  PROVE  TriesOK'
<1>1. TriesOK /\ TaskType
  BY TypeParts DEF IInv
<1>2. CASE Wait
  <2>1. UNCHANGED cmd /\ up = "wait"
    BY <1>2 DEF Wait
  <2>2. SUFFICES ASSUME Loads PROVE try' > 0 /\ up' \in {"write", "wait"} => resent'
    BY <2>1 DEF TriesOK, Loads
  <2>3. Isp
    BY <1>2, <2>2 DEF Wait, Detect, ReadParameter, Collect, Loads, LoadNode
  <2>4. try > 0 => resent
    BY <1>1, <2>1, <2>2 DEF TriesOK
  <2> QED
    BY <2>3, <2>4 DEF Isp, Again, Ends, StepDone
<1>3. CASE Begin
  BY <1>3 DEF Begin, TriesOK
<1>4. CASE Respond \/ Hiccup \/ Ask \/ Synced \/ Gather
  BY <1>1, <1>4 DEF Respond, Hiccup, Ask, Synced, Gather, TriesOK, Loads
<1>5. CASE PowerFails \/ ResetDone
  BY <1>5 DEF PowerFails, ResetDone, Reboot, TriesOK
<1>6. CASE NoProgram \/ Write \/ Store \/ Done
  BY <1>1, <1>6 DEF NoProgram, Write, Store, Done, TriesOK, Loads
<1>7. CASE ShellSet \/ RadioConfirms \/ ShellEnds \/ UNCHANGED vars
  BY <1>1, <1>7 DEF ShellSet, RadioConfirms, ShellEnds, TriesOK, Loads
<1> QED
  BY <1>2, <1>3, <1>4, <1>5, <1>6, <1>7 DEF Next, UploadTask

-----------------------------------------------------------------------------
(* The loading of a node.                                                    *)
LEMMA NoLoader == ASSUME NEW s, s = <<>> PROVE \A i \in DOMAIN s : FALSE
  OBVIOUS

(* The step whose turn it is.                                               *)
LEMMA StepAt ==
  ASSUME TypeOK, PlaceOK
  PROVE  /\ Step = Loader[Position] /\ Step \in Parts /\ OfLoader(Step)
         /\ Position \in 1 .. Chunks + 4 /\ Len(script) \in Nat \ {0} /\ script # <<>>
         /\ Position <= 3 => Step.code # "write"
         /\ Step.code = "erase" => Position = 3
         /\ Position >= 4 /\ Position <= Chunks + 3 => Step.code = "write" /\ Step.n = Position - 3
<1> DEFINE p == Position
<1>1. p \in 1 .. Chunks + 4 /\ script \in Seq(Parts) /\ Len(script) \in Nat
  BY DEF PlaceOK, TypeOK
<1>2. Len(script) \in Nat \ {0} /\ p = Chunks + 5 - Len(script)
  BY <1>1 DEF Position
<1>3. script # <<>> /\ Step = script[1] /\ Step \in Parts /\ 1 \in 1 .. Len(script)
  BY <1>1, <1>2, Served DEF Step
<1>4. Step = Loader[p]
  <2>1. script[1] = Loader[p + 1 - 1]
    BY <1>3 DEF PlaceOK
  <2>2. p + 1 - 1 = p
    BY <1>1
  <2> HIDE DEF p
  <2> QED
    BY <1>3, <2>1, <2>2
<1> HIDE DEF p
<1>5. p = 1 \/ p = 2 \/ p = 3 \/ p \in 4 .. Chunks + 3 \/ p = Chunks + 4
  BY <1>1
<1>6. CASE p \in {1, 2, 3}
  <2>1. Step \in {EnterIap, LoadPreamble, EraseFlash} /\ (Step = EraseFlash => p = 3) /\ p <= 3
    BY <1>4, <1>6, LoaderSteps DEF EnterIap, LoadPreamble, EraseFlash
  <2>2. OfLoader(Step) /\ Step.code # "write" /\ (Step.code = "erase" => p = 3) /\ ~(p >= 4)
    BY <2>1, <1>1, <1>6 DEF EnterIap, LoadPreamble, EraseFlash, OfLoader
  <2> QED
    BY <1>1, <1>2, <1>3, <1>4, <2>2 DEF p
<1>7. CASE p \in 4 .. Chunks + 3
  <2>1. p - 3 \in 1 .. Chunks /\ (p - 3) + 3 = p
    BY <1>7
  <2>2. Step = WriteFlash(p - 3)
    BY <1>4, <2>1, LoaderSteps
  <2>3. OfLoader(Step) /\ Step.code = "write" /\ Step.n = p - 3 /\ ~(p <= 3)
    BY <2>2, <1>7 DEF WriteFlash, OfLoader
  <2> QED
    BY <1>1, <1>2, <1>3, <1>4, <2>3 DEF p
<1>8. CASE p = Chunks + 4
  <2>1. Step = EndIap
    BY <1>4, <1>8, LoaderSteps
  <2>2. OfLoader(Step) /\ Step.code = "end" /\ ~(p <= Chunks + 3)
    BY <2>1, <1>8 DEF EndIap, OfLoader
  <2> QED
    BY <1>1, <1>2, <1>3, <1>4, <2>2 DEF p
<1> QED
  BY <1>5, <1>6, <1>7, <1>8

(* Nothing of the loader comes to the bus and the flash of the node stays.   *)
NothingNew ==
  /\ UNCHANGED <<cmd, script, resent, up>> /\ node'.flash = node.flash
  /\ \A i \in DOMAIN todo' : OfLoader(todo'[i]) =>
       i \in DOMAIN todo /\ OfLoader(todo[i]) /\ todo'[i].code = todo[i].code /\ todo'[i].n = todo[i].n
  /\ \A j \in DOMAIN rx' : OfLoader(rx'[j]) => j \in DOMAIN rx /\ rx'[j] = rx[j]

LEMMA LoadKept == ASSUME LoadOK, NothingNew PROVE LoadOK'
<1>1. UNCHANGED <<cmd, script, resent, up>> /\ node'.flash = node.flash
  BY DEF NothingNew
<1>2. SUFFICES ASSUME Loads, ~resent, up \in {"write", "wait"}
               PROVE  /\ PlaceOK' /\ Written'
                      /\ up = "write" => \A i \in DOMAIN todo' : ~OfLoader(todo'[i])
                      /\ up = "wait" => RequestOK' /\ OneRequest' /\ NotBoth' /\ AnswerOK'
  BY <1>1 DEF LoadOK, Loads
<1>3. /\ PlaceOK /\ Written
      /\ up = "write" => \A i \in DOMAIN todo : ~OfLoader(todo[i])
      /\ up = "wait" => RequestOK /\ OneRequest /\ NotBoth /\ AnswerOK
  BY <1>2 DEF LoadOK
<1>4. PlaceOK' /\ Written'
  BY <1>1, <1>3 DEF PlaceOK, Written, Position
<1>5. ASSUME up = "write" PROVE \A i \in DOMAIN todo' : ~OfLoader(todo'[i])
  BY <1>3, <1>5 DEF NothingNew
<1>6. ASSUME up = "wait" PROVE RequestOK' /\ OneRequest' /\ NotBoth' /\ AnswerOK'
  <2>1. Step' = Step
    BY <1>1 DEF Step
  <2>2. RequestOK'
    BY <1>3, <1>6, <2>1 DEF NothingNew, RequestOK
  <2>3. OneRequest'
    BY <1>3, <1>6 DEF NothingNew, OneRequest
  <2>4. NotBoth'
    BY <1>3, <1>6 DEF NothingNew, NotBoth
  <2>5. AnswerOK'
    <3>1. \A j \in DOMAIN rx' : rx'[j].code = "write" => OfLoader(rx'[j])
      BY DEF OfLoader
    <3> QED
      BY <1>1, <1>3, <1>6, <2>1, <3>1 DEF NothingNew, AnswerOK
  <2> QED
    BY <2>2, <2>3, <2>4, <2>5
<1> QED
  BY <1>4, <1>5, <1>6

(* What becomes of the flash of the node.                                    *)
LEMMA FlashAfter ==
  ASSUME BusType, Respond, NEW q, q = Head(todo)
  PROVE  /\ node'.flash = node.flash \/ q.code \in {"erase", "write"}
         /\ q.code # "erase" => node.flash \subseteq node'.flash
         /\ q.code = "write" /\ CarriesOut(q) => q.n \in node'.flash
<1>1. UNCHANGED node \/ CarriesOut(q)
  BY DEF Respond
<1>2. node \in Nodes
  BY DEF BusType
<1> QED
  BY <1>1, <1>2 DEF CarriesOut, Nodes

LEMMA LoadRespond ==
  ASSUME IInv, Respond
  PROVE  LoadOK'
<1>1. BusType /\ TypeOK /\ LoadOK
  BY TypeParts DEF IInv, TrueReport
<1>2. todo # <<>> /\ todo' = Tail(todo) /\ UNCHANGED <<cmd, script, resent, up>>
  BY DEF Respond
<1>3. SUFFICES ASSUME Loads, ~resent, up \in {"write", "wait"}
               PROVE  /\ PlaceOK' /\ Written'
                      /\ up = "write" => \A i \in DOMAIN todo' : ~OfLoader(todo'[i])
                      /\ up = "wait" => RequestOK' /\ OneRequest' /\ NotBoth' /\ AnswerOK'
  BY <1>2 DEF LoadOK, Loads
<1>4. /\ PlaceOK /\ Written
      /\ up = "write" => \A i \in DOMAIN todo : ~OfLoader(todo[i])
      /\ up = "wait" => RequestOK /\ OneRequest /\ NotBoth /\ AnswerOK
  BY <1>1, <1>3 DEF LoadOK
<1>5. PICK q : q = Head(todo)
  OBVIOUS
<1>6. q \in Requests /\ q = todo[1] /\ 1 \in DOMAIN todo
  BY <1>1, <1>2, <1>5, Served DEF BusType
<1>7. OfLoader(q) => up = "wait" /\ q.code = Step.code /\ q.n = Step.n
  BY <1>3, <1>4, <1>6 DEF RequestOK
<1>8. /\ node'.flash = node.flash \/ q.code \in {"erase", "write"}
      /\ q.code # "erase" => node.flash \subseteq node'.flash
      /\ q.code = "write" /\ CarriesOut(q) => q.n \in node'.flash
  BY <1>1, <1>5, FlashAfter
<1>9. PlaceOK' /\ Step' = Step /\ Position' = Position
  BY <1>2, <1>4 DEF PlaceOK, Position, Step
<1>10. Written'
  <2>1. CASE q.code = "erase"
    <3>1. Position = 3
      BY <1>1, <1>4, <1>7, <2>1, StepAt DEF OfLoader
    <3>2. 1 .. 3 - 4 = {}
      OBVIOUS
    <3> QED
      BY <1>9, <3>1, <3>2 DEF Written
  <2>2. CASE q.code # "erase"
    BY <1>4, <1>8, <1>9, <2>2 DEF Written
  <2> QED
    BY <2>1, <2>2
<1>11. \A i \in DOMAIN todo' : i + 1 \in DOMAIN todo /\ i + 1 # 1 /\ i \in Nat /\ todo'[i] = todo[i + 1]
  BY <1>1, <1>2, EachServed DEF BusType
<1>12. ASSUME up = "write" PROVE \A i \in DOMAIN todo' : ~OfLoader(todo'[i])
  BY <1>4, <1>11, <1>12
<1>13. ASSUME up = "wait" PROVE RequestOK' /\ OneRequest' /\ NotBoth' /\ AnswerOK'
  <2>1. RequestOK'
    BY <1>4, <1>9, <1>11, <1>13 DEF RequestOK
  <2>2. OneRequest'
    <3>1. ASSUME NEW i \in DOMAIN todo', NEW j \in DOMAIN todo', OfLoader(todo'[i]), OfLoader(todo'[j])
          PROVE  i = j
      <4>1. i + 1 = j + 1
        BY <1>4, <1>11, <1>13, <3>1 DEF OneRequest
      <4> QED
        BY <1>11, <4>1
    <3> QED
      BY <3>1 DEF OneRequest
  <2>3. ASSUME NEW i \in DOMAIN todo', OfLoader(todo'[i]) PROVE ~OfLoader(q)
    BY <1>4, <1>6, <1>11, <1>13, <2>3 DEF OneRequest
  <2>4. \/ UNCHANGED rx
        \/ rx' = Append(rx, Frame(q, Works(q), FALSE)) /\ (Works(q) => CarriesOut(q))
        \/ \E cut \in BOOLEAN : rx' = Append(rx, Frame(q, FALSE, cut))
        \/ rx' = Append(rx, Frame(q, TRUE, TRUE)) /\ CarriesOut(q)
    BY <1>5 DEF Respond
  <2>5. \/ UNCHANGED rx
        \/ \E ok, cut \in BOOLEAN : rx' = Append(rx, Frame(q, ok, cut)) /\ (ok => CarriesOut(q))
    <3>1. Works(q) \in BOOLEAN
      BY DEF Works
    <3> QED
      BY <2>4, <3>1
  <2>6. ASSUME NEW j \in DOMAIN rx'
        PROVE  \/ j \in DOMAIN rx /\ rx'[j] = rx[j]
               \/ rx'[j].code = q.code /\ (rx'[j].ok => CarriesOut(q))
    <3>1. CASE UNCHANGED rx
      BY <3>1, <2>6
    <3>2. CASE \E ok, cut \in BOOLEAN : rx' = Append(rx, Frame(q, ok, cut)) /\ (ok => CarriesOut(q))
      <4>1. PICK ok \in BOOLEAN, cut \in BOOLEAN :
              rx' = Append(rx, Frame(q, ok, cut)) /\ (ok => CarriesOut(q))
        BY <3>2
      <4>2. Frame(q, ok, cut) \in Frames
        BY <1>1, <1>6, FrameType
      <4>3. Frame(q, ok, cut).code = q.code /\ Frame(q, ok, cut).ok = ok
        BY DEF Frame
      <4>4. j \in DOMAIN Append(rx, Frame(q, ok, cut))
        BY <2>6, <4>1
      <4>5. \/ j \in DOMAIN rx /\ Append(rx, Frame(q, ok, cut))[j] = rx[j]
            \/ Append(rx, Frame(q, ok, cut))[j] = Frame(q, ok, cut)
        BY <1>1, <4>2, <4>4, EachAppended DEF BusType
      <4> QED
        BY <4>1, <4>3, <4>5
    <3> QED
      BY <2>5, <3>1, <3>2
  <2>7. NotBoth'
    <3>1. ASSUME NEW i \in DOMAIN todo', NEW j \in DOMAIN rx', OfLoader(todo'[i]), OfLoader(rx'[j])
          PROVE  FALSE
      <4>1. ~OfLoader(q)
        BY <2>3, <3>1
      <4>2. j \in DOMAIN rx /\ rx'[j] = rx[j]
        BY <2>6, <3>1, <4>1 DEF OfLoader
      <4> QED
        BY <1>4, <1>11, <1>13, <3>1, <4>2 DEF NotBoth
    <3> QED
      BY <3>1 DEF NotBoth
  <2>8. AnswerOK'
    <3>1. ASSUME NEW j \in DOMAIN rx', rx'[j].code = "write", rx'[j].ok, Step.code = "write"
          PROVE  Step.n \in node'.flash
      <4>1. q.code # "erase"
        BY <1>7, <3>1 DEF OfLoader
      <4>2. CASE j \in DOMAIN rx /\ rx'[j] = rx[j]
        BY <1>4, <1>8, <1>13, <3>1, <4>1, <4>2 DEF AnswerOK
      <4>3. CASE rx'[j].code = q.code /\ (rx'[j].ok => CarriesOut(q))
        BY <1>7, <1>8, <3>1, <4>3 DEF OfLoader
      <4> QED
        BY <2>6, <4>2, <4>3
    <3> QED
      BY <1>9, <3>1 DEF AnswerOK
  <2> QED
    BY <2>1, <2>2, <2>7, <2>8
<1> QED
  BY <1>9, <1>10, <1>12, <1>13

LEMMA LoadHiccup ==
  ASSUME IInv, Hiccup
  PROVE  LoadOK'
<1>1. BusType /\ LoadOK
  BY TypeParts DEF IInv
<1>2. UNCHANGED <<cmd, script, resent, up>> /\ (todo' = todo \/ todo' = <<>>)
  BY DEF Hiccup
<1>3. node'.flash = node.flash
  BY <1>1 DEF Hiccup, BusType, Nodes
<1>4. rx' = rx \/ rx' = Append(rx, Noise)
  BY DEF Hiccup
<1>5. Noise \in Frames /\ ~OfLoader(Noise)
  BY DEF Noise, Frames, OfLoader
<1>6. \A j \in DOMAIN Append(rx, Noise) :
        OfLoader(Append(rx, Noise)[j]) => j \in DOMAIN rx /\ Append(rx, Noise)[j] = rx[j]
  BY <1>1, <1>5, EachAppended DEF BusType
<1> QED
  BY <1>1, <1>2, <1>3, <1>4, <1>6, LoadKept, SMTT(20) DEF NothingNew

LEMMA LoadPoll ==
  ASSUME IInv, Ask \/ Synced \/ Gather
  PROVE  LoadOK'
<1>1. BusType /\ TypeOK /\ LoadOK
  BY TypeParts DEF IInv, TrueReport
<1>2. UNCHANGED <<cmd, script, resent, up>> /\ rx' = <<>>
  BY DEF Ask, Synced, Gather
<1>3. node'.flash = node.flash
  BY <1>1 DEF Ask, Synced, Gather, Passes, HeldInReset, BusType, Nodes
<1>4. \A i \in DOMAIN todo' : OfLoader(todo'[i]) =>
        i \in DOMAIN todo /\ OfLoader(todo[i]) /\ todo'[i].code = todo[i].code /\ todo'[i].n = todo[i].n
  <2>1. CASE Ask
    <3>1. PICK s \in Parts : ~OfLoader(s) /\ Puts(Request("poll", s))
      BY <2>1, SyncParts DEF Ask
    <3>2. PICK q : q = Request("poll", s)
      OBVIOUS
    <3>3. q \in Requests /\ ~OfLoader(q)
      BY <1>1, <3>1, <3>2, RequestType DEF Request, OfLoader
    <3>4. todo' = todo \/ todo' = Append(todo, q)
      BY <3>1, <3>2 DEF Puts
    <3>5. \A i \in DOMAIN Append(todo, q) :
            OfLoader(Append(todo, q)[i]) => i \in DOMAIN todo /\ Append(todo, q)[i] = todo[i]
      BY <1>1, <3>3, EachAppended DEF BusType
    <3> QED
      BY <3>4, <3>5
  <2>2. CASE Synced \/ Gather
    <3>1. todo' = <<>> \/ todo' = Stale(todo, "poll") \/ todo' = todo
      BY <2>2 DEF Synced, Gather, Passes, HeldInReset
    <3>2. /\ DOMAIN Stale(todo, "poll") = DOMAIN todo
          /\ \A i \in DOMAIN todo : /\ Stale(todo, "poll")[i].code = todo[i].code
                                    /\ Stale(todo, "poll")[i].n = todo[i].n
      <4>1. todo \in Seq(Requests)
        BY <1>1 DEF BusType
      <4> QED
        BY <4>1, StaleRequests, Zenon
    <3> QED
      BY <3>1, <3>2 DEF OfLoader
  <2> QED
    BY <2>1, <2>2
<1> QED
  BY <1>1, <1>2, <1>3, <1>4, LoadKept DEF NothingNew

LEMMA LoadBegin ==
  ASSUME IInv, Begin
  PROVE  LoadOK'
<1>1. BusType
  BY TypeParts
<1>2. SUFFICES ASSUME cmd' = LoadNode, ~resent'
               PROVE  PlaceOK' /\ Written' /\ \A i \in DOMAIN todo' : ~OfLoader(todo'[i])
  BY DEF Begin, LoadOK, Loads
<1>3. script' = Loader /\ (todo' = todo \/ todo' = Stale(todo, "poll"))
  <2>1. LoadNode \in Orders
    BY DEF Orders
  <2> QED
    BY <1>2, <2>1, StepsType DEF Begin
<1>4. \A i \in DOMAIN todo : ~OfLoader(todo[i])
  BY <1>2 DEF Begin
<1>5. \A i \in DOMAIN todo' : ~OfLoader(todo'[i])
  <2>1. todo \in Seq(Requests)
    BY <1>1 DEF BusType
  <2>2. DOMAIN Stale(todo, "poll") = DOMAIN todo
    BY <2>1, StaleRequests, Zenon
  <2>3. \A i \in DOMAIN todo : Stale(todo, "poll")[i].code = todo[i].code
    BY <2>1, StaleRequests, Zenon
  <2> QED
    BY <1>3, <1>4, <2>2, <2>3 DEF OfLoader
<1>6. Position' = 1
  BY <1>3, LoaderSteps DEF Position
<1>7. Written'
  <2>1. 1 .. 1 - 4 = {}
    OBVIOUS
  <2> QED
    BY <1>6, <2>1 DEF Written
<1>8. PlaceOK'
  <2>1. \A i \in 1 .. Len(Loader) : Loader[i] = Loader[1 + i - 1]
    <3>1. \A i \in 1 .. Len(Loader) : 1 + i - 1 = i
      BY LoaderSteps
    <3> QED
      BY <3>1
  <2>2. 1 \in 1 .. Chunks + 4
    OBVIOUS
  <2> QED
    BY <1>3, <1>6, <2>1, <2>2 DEF PlaceOK
<1> QED
  BY <1>5, <1>7, <1>8

LEMMA LoadWrite ==
  ASSUME IInv, Write
  PROVE  LoadOK'
<1>1. BusType /\ TypeOK /\ LoadOK
  BY TypeParts DEF IInv, TrueReport
<1>2. UNCHANGED <<cmd, script, resent, node>> /\ up = "write" /\ up' = "wait"
  BY DEF Write, Puts
<1>3. SUFFICES ASSUME Loads, ~resent
               PROVE  PlaceOK' /\ Written' /\ RequestOK' /\ OneRequest' /\ NotBoth' /\ AnswerOK'
  BY <1>2 DEF LoadOK, Loads
<1>4. PlaceOK /\ Written /\ \A i \in DOMAIN todo : ~OfLoader(todo[i])
  BY <1>1, <1>2, <1>3 DEF LoadOK
<1>5. PlaceOK' /\ Written' /\ Step' = Step
  BY <1>2, <1>4 DEF PlaceOK, Written, Position, Step
<1>6. rx' = <<>>
  BY <1>3 DEF Write, Loads, LoadNode
<1>7. PICK q : q = Request("cmd", Step)
  OBVIOUS
<1>8. q \in Requests /\ q.code = Step.code /\ q.n = Step.n
  BY <1>1, <1>4, <1>7, RequestType, StepAt DEF Request
<1>9. todo' = todo \/ todo' = Append(todo, q)
  BY <1>7 DEF Write, Puts, Step
<1>10. \A i \in DOMAIN Append(todo, q) :
         OfLoader(Append(todo, q)[i]) => i = Len(todo) + 1 /\ Append(todo, q)[i] = q
  BY <1>1, <1>4, <1>8, EachAppended DEF BusType
<1>11. \A i \in DOMAIN todo' : OfLoader(todo'[i]) => i = Len(todo) + 1 /\ todo'[i] = q
  BY <1>4, <1>9, <1>10
<1>12. RequestOK' /\ OneRequest'
  BY <1>5, <1>8, <1>11 DEF RequestOK, OneRequest
<1>13. NotBoth' /\ AnswerOK'
  BY <1>6 DEF NotBoth, AnswerOK
<1> QED
  BY <1>5, <1>12, <1>13

LEMMA LoadWait ==
  ASSUME IInv, Wait
  PROVE  LoadOK'
<1>1. BusType /\ TypeOK /\ LoadOK
  BY TypeParts DEF IInv, TrueReport
<1>2. UNCHANGED cmd /\ up = "wait" /\ rx' = <<>>
  BY DEF Wait
<1>3. SUFFICES ASSUME Loads, ~resent', up' \in {"write", "wait"}
               PROVE  LoadOK'
  BY <1>2 DEF LoadOK, Loads
<1>4. Isp
  BY <1>3 DEF Wait, Detect, ReadParameter, Collect, Loads, LoadNode
<1>5. CASE up' = "wait"
  <2>1. UNCHANGED <<script, resent, todo, node>>
    BY <1>2, <1>3, <1>4, <1>5 DEF Wait, HeldInReset, Isp, Again, Ends, StepDone
  <2> QED
    BY <1>1, <1>2, <1>5, <2>1, LoadKept DEF NothingNew
<1>6. CASE up' = "write"
  <2>1. /\ rx # <<>> /\ IspAccepts(Head(rx)) /\ UNCHANGED resent
        /\ script' = Tail(script) /\ Len(script) # 1
    BY <1>2, <1>3, <1>4, <1>6 DEF Isp, Again, Ends, StepDone
  <2>2. todo' = Stale(todo, "cmd") /\ UNCHANGED node
    BY <1>6 DEF Wait, HeldInReset
  <2>3. PlaceOK /\ Written /\ NotBoth /\ AnswerOK
    BY <1>1, <1>2, <1>3, <2>1 DEF LoadOK
  <2>4. /\ OfLoader(Step) /\ Position \in 1 .. Chunks + 4 /\ Len(script) \in Nat \ {0}
        /\ script # <<>>
        /\ Position >= 4 /\ Position <= Chunks + 3 => Step.code = "write" /\ Step.n = Position - 3
    BY <1>1, <2>3, StepAt
  <2>5. Head(rx) = rx[1] /\ 1 \in DOMAIN rx
    BY <1>1, <2>1, Served DEF BusType
  <2>6. Head(rx).code = Step.code /\ Head(rx).ok
    BY <2>1 DEF IspAccepts, Step
  <2>7. \A i \in DOMAIN todo : ~OfLoader(todo[i])
    BY <2>3, <2>4, <2>5, <2>6 DEF NotBoth, OfLoader
  <2>8. \A i \in DOMAIN todo' : ~OfLoader(todo'[i])
    <3>1. todo \in Seq(Requests)
      BY <1>1 DEF BusType
    <3>2. DOMAIN Stale(todo, "cmd") = DOMAIN todo
      BY <3>1, StaleRequests, Zenon
    <3>3. \A i \in DOMAIN todo : Stale(todo, "cmd")[i].code = todo[i].code
      BY <3>1, StaleRequests, Zenon
    <3> QED
      BY <2>2, <2>7, <3>2, <3>3 DEF OfLoader
  <2>9. Len(Tail(script)) = Len(script) - 1 /\ \A i \in 1 .. Len(script) - 1 : Tail(script)[i] = script[i + 1]
    BY <1>1, <2>4, Served DEF TypeOK
  <2>10. Position = Chunks + 5 - Len(script)
    BY DEF Position
  <2>11. Position' = Position + 1 /\ Len(script') = Len(script) - 1
    BY <2>1, <2>4, <2>9 DEF Position
  <2>12. Position + 1 \in 1 .. Chunks + 4 /\ Position <= Chunks + 3
    <3>1. PICK n : n = Len(script)
      OBVIOUS
    <3>2. n \in Nat \ {0, 1} /\ Position = Chunks + 5 - n
      BY <2>1, <2>4, <2>10, <3>1
    <3> QED
      BY <2>4, <3>2
  <2>13. PlaceOK'
    <3>1. ASSUME NEW i \in 1 .. Len(script) - 1
          PROVE  Tail(script)[i] = Loader[(Position + 1) + i - 1]
      <4>1. i + 1 \in 1 .. Len(script)
        BY <2>4, <3>1
      <4>2. script[i + 1] = Loader[Position + (i + 1) - 1]
        BY <2>3, <4>1 DEF PlaceOK
      <4>3. Position + (i + 1) - 1 = (Position + 1) + i - 1
        BY <2>4, <3>1
      <4> QED
        BY <2>9, <4>2, <4>3
    <3> QED
      BY <2>1, <2>11, <2>12, <3>1 DEF PlaceOK
  <2>14. 1 .. (Position + 1) - 4 \subseteq node.flash
    <3>1. CASE Position < 4
      BY <2>4, <3>1
    <3>2. CASE Position >= 4
      <4>1. Step.code = "write" /\ Step.n = Position - 3
        BY <2>4, <2>12, <3>2
      <4>2. Position - 3 \in node.flash
        BY <2>3, <2>5, <2>6, <4>1 DEF AnswerOK
      <4>3. \A k \in 1 .. (Position + 1) - 4 : k \in 1 .. Position - 4 \/ k = Position - 3
        BY <2>4, <3>2
      <4> QED
        BY <2>3, <4>2, <4>3 DEF Written
    <3> QED
      BY <2>4, <3>1, <3>2
  <2>15. Written'
    BY <2>2, <2>11, <2>14 DEF Written
  <2> QED
    BY <1>6, <2>8, <2>13, <2>15 DEF LoadOK
<1> QED
  BY <1>3, <1>5, <1>6

LEMMA LoadStep ==
  ASSUME IInv, [Next]_vars
  PROVE  LoadOK'
<1>1. LoadOK
  BY DEF IInv
<1>2. CASE PowerFails \/ ResetDone
  BY <1>2 DEF PowerFails, ResetDone, Reboot, LoadOK
<1>3. CASE NoProgram \/ Store \/ Done
  BY <1>3 DEF NoProgram, Store, Done, LoadOK
<1>4. CASE ShellSet \/ RadioConfirms \/ ShellEnds \/ UNCHANGED vars
  <2>1. UNCHANGED <<cmd, script, resent, up, node, todo, rx>>
    BY <1>4 DEF ShellSet, RadioConfirms, ShellEnds
  <2> QED
    BY <1>1, <2>1, LoadKept DEF NothingNew
<1> QED
  BY <1>2, <1>3, <1>4, LoadRespond, LoadHiccup, LoadPoll, LoadBegin, LoadWrite, LoadWait
     DEF Next, UploadTask

-----------------------------------------------------------------------------
THEOREM IInvInit == Init => IInv
<1> SUFFICES ASSUME Init PROVE IInv
  OBVIOUS
<1>1. node \in Nodes
  BY DEF Init, Nodes
<1>2. <<>> \in Seq(Requests) /\ <<>> \in Seq(Frames) /\ <<>> \in Seq(Parts)
  OBVIOUS
<1>3. TypeOK
  BY <1>1, <1>2 DEF Init, TypeOK, Nodes
<1>4. TrueReport
  BY <1>3 DEF Init, TrueReport
<1> QED
  <2>1. FailuresOK
    BY DEF Init, FailuresOK
  <2>2. up = "idle" /\ resent \in BOOLEAN /\ quiet \in BOOLEAN
    BY DEF Init
  <2> QED
    BY <1>4, <2>1, <2>2 DEF IInv, AloneOK, TriesOK, LoadOK

(* IInv is inductive.                                                       *)
THEOREM IInvNext == IInv /\ [Next]_vars => IInv'
<1> SUFFICES ASSUME IInv, [Next]_vars PROVE IInv'
  OBVIOUS
<1>1. BusType' /\ TaskType'
  BY BusStep, TaskStep
<1>2. Counters' /\ FailuresOK'
  BY CountersStep
<1>3. AloneOK' /\ Reported'
  BY AloneStep
<1>4. LoadOK' /\ TriesOK'
  BY LoadStep, TriesStep
<1>5. TypeOK'
  BY <1>1, <1>2 DEF TypeOK, BusType, TaskType, Counters, Nodes
<1>6. TrueReport'
  BY <1>3, <1>5 DEF TrueReport, Reported
<1> QED
  BY <1>1, <1>2, <1>3, <1>4, <1>6 DEF IInv, TaskType

THEOREM Invariance == Spec => []IInv
  BY IInvInit, IInvNext, PTL DEF Spec

(* The server is told of a success only when the coordinator carried out what *)
(* was asked last, provided the command was alone on the bus and repeated no   *)
(* step (modbus.c:1137-1187, 1216-1330).                                      *)
THEOREM TrueReportCorrect == Spec => []TrueReport
<1>1. IInv => TrueReport
  BY DEF IInv
<1> QED
  BY <1>1, Invariance, PTL

(* A load that repeated no step ends when the node holds every chunk          *)
(* (modbus.c:1117-1187).                                                      *)
THEOREM EndAfterWritesCorrect == Spec => []EndAfterWrites
<1>1. IInv => EndAfterWrites
  <2> SUFFICES ASSUME IInv, Loads, up \in {"write", "wait"}, Len(script) = 1, ~resent
               PROVE  node.flash = 1 .. Chunks
    BY DEF EndAfterWrites, IInv
  <2>1. Written /\ TypeOK
    BY DEF IInv, LoadOK, TrueReport
  <2>2. Position - 4 = Chunks
    BY DEF Position
  <2>3. 1 .. Chunks \subseteq node.flash
    BY <2>1, <2>2 DEF Written
  <2>4. node.flash \subseteq 1 .. Chunks
    BY <2>1 DEF TypeOK
  <2> QED
    BY <2>3, <2>4
<1> QED
  BY <1>1, Invariance, PTL

(* The coordinator is not reset before enough polls in a row failed           *)
(* (modbus.c:1636-1681).                                                      *)
THEOREM ResetAfterSilenceCorrect == Spec => ResetAfterSilence
<1> DEFINE Resets == (poller' = "reset" /\ poller # "reset") \/ (up' = "reset" /\ up # "reset")
<1>1. IInv /\ [Next]_vars => [Resets => silent' >= NoAnswers - 1]_vars
  BY ResetStep
<1> QED
  BY <1>1, Invariance, PTL DEF Spec, ResetAfterSilence

=============================================================================
