-------------------------- MODULE BreakpointProofs --------------------------
(***************************************************************************)
(* The handles of the files on the SD card, the records that wait in them  *)
(* and the order in which they leave, for every number of records, of      *)
(* failures and of power failures.                                         *)
(***************************************************************************)
EXTENDS Breakpoint, TLAPS

USE SizesAssumption, EofAssumption, BoundsAssumption

-----------------------------------------------------------------------------
(* FileCounter never holds a file to read beyond the one that is written.    *)
CounterOK == counter # <<>> => counter[1] <= counter[2]

(* While the card is in use the handles are those of the files the indices   *)
(* name, and both files exist, but for the first file of a card that a start *)
(* found torn: then the next record goes to the wrong one.                   *)
Matching == rd = readindex /\ wr = writeindex /\ {rd, wr} \subseteq DOMAIN files
Mistaken == /\ pc = "buffer" /\ buf # None /\ torn
            /\ rd = 0 /\ wr = 0 /\ files[0] = <<>> /\ 0 \in DOMAIN files
InUse == fileexist /\ (\/ pc \in {"buffer", "append", "drain", "send", "delete"}
                       \/ pc \in {"truncate", "write"} /\ cont = "append")
HandlesOK == InUse => Matching \/ Mistaken

(* While one file gives way to the next the handle for writing is good;      *)
(* after the last one the indices are those of an empty card.               *)
Leaving == \/ pc \in {"truncate", "write"} /\ cont = "open"
           \/ pc = "open"
Left == \/ pc \in {"truncate", "write"} /\ cont = "end"
        \/ pc = "end"
ChangeOK ==
  /\ pc = "index" => /\ wr = writeindex
                     /\ readindex # writeindex => wr \in DOMAIN files
  /\ Leaving => wr = writeindex /\ wr \in DOMAIN files
  /\ Left => readindex = 0 /\ writeindex = 0
  /\ pc \in {"append", "truncate", "write", "delete", "index", "open", "end", "send"} => fileexist

(* Where no record waits on the card the indices are zero, unless a start    *)
(* found the card torn; its first file is empty then.                       *)
EmptyOK ==
  ~fileexist /\ Running =>
    /\ readindex = 0
    /\ writeindex = 0 \/ (torn /\ (0 \in DOMAIN files => files[0] = <<>>))

FaultOK == pc = "fault" => torn

(* The record to be saved waits while the next file is opened for it.        *)
Saves == pc = "append" \/ (pc \in {"truncate", "write"} /\ cont = "append")
BufferOK == Saves => buf # None

Good == CounterOK /\ HandlesOK /\ ChangeOK /\ EmptyOK /\ FaultOK /\ BufferOK
IInv == TypeOK /\ Good

LEMMA IInvInit == Init => IInv
<1> SUFFICES ASSUME Init PROVE IInv
  OBVIOUS
<1>1. TypeOK
  <2>1. CardTypes /\ ReadTypes /\ TaskTypes
    <3>1. DOMAIN files = {}
      BY DEF Init
    <3> QED
      BY <3>1 DEF Init, CardTypes, ReadTypes, TaskTypes, None
  <2>2. InfoTypes
    <3>1. fileexist \in BOOLEAN /\ ~fileexist
      BY DEF Init
    <3>2. readindex = 0 /\ writeindex = 0
      BY DEF Init
    <3> QED
      BY <3>1, <3>2 DEF InfoTypes
  <2>3. LinkTypes /\ strayed \in BOOLEAN /\ torn \in BOOLEAN
    BY DEF Init, LinkTypes
  <2>4. HistoryTypes
    BY <2>3 DEF Init, HistoryTypes
  <2> QED
    BY <2>1, <2>2, <2>3, <2>4 DEF TypeOK
<1>2. Good
  BY DEF Init, Good, CounterOK, HandlesOK, InUse, ChangeOK, Leaving, Left, EmptyOK, FaultOK, BufferOK,
         Saves, Running
<1> QED
  BY <1>1, <1>2 DEF IInv

(* A file that is opened exists, empty if it was not there before.           *)
LEMMA OpenedLemma ==
  ASSUME NEW fs, NEW S, NEW f, \A g \in DOMAIN fs : fs[g] \in Seq(S)
  PROVE  /\ DOMAIN Opened(f, fs) = DOMAIN fs \cup {f}
         /\ \A g \in DOMAIN fs : Opened(f, fs)[g] = fs[g]
         /\ f \notin DOMAIN fs => Opened(f, fs)[f] = <<>>
         /\ \A g \in DOMAIN Opened(f, fs) : Opened(f, fs)[g] \in Seq(S)
<1>1. /\ DOMAIN Opened(f, fs) = DOMAIN fs \cup {f}
      /\ \A g \in DOMAIN fs : Opened(f, fs)[g] = fs[g]
      /\ f \notin DOMAIN fs => Opened(f, fs)[f] = <<>>
  BY DEF Opened
<1>2. <<>> \in Seq(S)
  OBVIOUS
<1> QED
  BY <1>1, <1>2

LEMMA HandLemma == ASSUME TypeOK PROVE Hand \subseteq 1..MaxRec
  BY DEF Hand, TypeOK, ReadTypes, None

-----------------------------------------------------------------------------
(* The producer, the link and the power. *)
LEMMA ProduceKeeps == ASSUME IInv, Produce PROVE IInv'
<1>1. UNCHANGED <<files, counter, eof, readindex, writeindex, rd, wr, fileexist, pos, offset, bak,
                  saveBuf, conn, firstPackage, pc, cont, fails, crashes, saved, sent, lost,
                  strayed, torn>>
  BY DEF Produce, card, info, reading, link, bounds, history
<1>2. buf = None /\ buf' = next /\ next' = next + 1 /\ next \in 1..MaxRec
  BY DEF Produce, IInv, TypeOK, TaskTypes
<1>3. CardTypes' /\ InfoTypes' /\ ReadTypes' /\ LinkTypes' /\ HistoryTypes'
  BY <1>1 DEF IInv, TypeOK, CardTypes, InfoTypes, ReadTypes, LinkTypes, HistoryTypes
<1>4. TaskTypes'
  BY <1>1, <1>2 DEF IInv, TypeOK, TaskTypes
<1>5. HandlesOK' /\ BufferOK'
  BY <1>1, <1>2 DEF IInv, Good, HandlesOK, InUse, Matching, Mistaken, BufferOK, None
<1>6. CounterOK' /\ ChangeOK' /\ EmptyOK' /\ FaultOK'
  BY <1>1 DEF IInv, Good, CounterOK, ChangeOK, Leaving, Left, EmptyOK, Running, FaultOK
<1> QED
  BY <1>3, <1>4, <1>5, <1>6 DEF IInv, TypeOK, Good

LEMMA LinkKeeps == ASSUME IInv, Connect \/ LinkLoss PROVE IInv'
<1>1. /\ UNCHANGED <<files, counter, eof, readindex, writeindex, rd, wr, fileexist, pos, offset, bak,
                     saveBuf, buf, next, pc, cont, crashes, saved, sent, lost, strayed, torn>>
      /\ conn' \in BOOLEAN
  BY DEF Connect, LinkLoss, card, info, reading, producer, bounds, history
<1>2. fails' \in 0..MaxFail
  BY DEF Connect, LinkLoss, bounds, IInv, TypeOK, TaskTypes
<1>3. firstPackage' \in BOOLEAN
  <2>1. firstPackage' = firstPackage \/ firstPackage' = TRUE
    BY DEF Connect, LinkLoss
  <2> QED
    BY <2>1 DEF IInv, TypeOK, LinkTypes
<1>4. CardTypes' /\ InfoTypes' /\ ReadTypes' /\ HistoryTypes'
  BY <1>1 DEF IInv, TypeOK, CardTypes, InfoTypes, ReadTypes, HistoryTypes
<1>5. TaskTypes' /\ LinkTypes'
  BY <1>1, <1>2, <1>3 DEF IInv, TypeOK, TaskTypes, LinkTypes
<1>6. Good'
  BY <1>1 DEF IInv, Good, CounterOK, HandlesOK, InUse, Matching, Mistaken, ChangeOK, Leaving, Left,
              EmptyOK, Running, FaultOK, BufferOK, Saves
<1> QED
  BY <1>4, <1>5, <1>6 DEF IInv, TypeOK

LEMMA CrashKeeps == ASSUME IInv, Crash PROVE IInv'
<1>1. UNCHANGED <<files, counter, eof, readindex, writeindex, rd, wr, fileexist, pos, offset, bak,
                  saveBuf, firstPackage, next, cont, fails, saved, sent, strayed, torn>>
  BY DEF Crash, card, info, reading
<1>2. pc' = "off" /\ buf' = 0 /\ conn' = FALSE /\ crashes' \in 0..MaxCrash
  BY DEF Crash, None, IInv, TypeOK, TaskTypes
<1>3. lost' \subseteq 1..MaxRec
  <2>1. lost' \subseteq lost \cup ({buf} \ {0}) \cup Hand
    BY DEF Crash, None
  <2> QED
    BY <2>1, HandLemma DEF IInv, TypeOK, TaskTypes, HistoryTypes
<1>4. /\ CardTypes' /\ InfoTypes' /\ ReadTypes' /\ LinkTypes'
      /\ TaskTypes'
  <2>1. CardTypes' /\ InfoTypes' /\ ReadTypes' /\ LinkTypes'
    BY <1>1, <1>2 DEF IInv, TypeOK, CardTypes, InfoTypes, ReadTypes, LinkTypes
  <2>2. TaskTypes'
    BY <1>1, <1>2 DEF IInv, TypeOK, TaskTypes
  <2> QED
    BY <2>1, <2>2
<1>5. HistoryTypes'
  BY <1>1, <1>3 DEF IInv, TypeOK, HistoryTypes
<1>6. Good'
  BY <1>1, <1>2 DEF IInv, Good, CounterOK, HandlesOK, InUse, ChangeOK, Leaving, Left, EmptyOK,
                    Running, FaultOK, BufferOK, Saves
<1> QED
  BY <1>4, <1>5, <1>6 DEF IInv, TypeOK

LEMMA BootKeeps == ASSUME IInv, Boot PROVE IInv'
<1> DEFINE r == IF counter = <<>> THEN 0 ELSE counter[1]
           w == IF counter = <<>> THEN 0 ELSE counter[2]
           exist == r # 0 \/ 0 \in DOMAIN files
           open == exist \/ r # w
<1>1. /\ readindex' = r /\ writeindex' = w /\ fileexist' = exist
      /\ rd' = IF open THEN r ELSE NoFile
      /\ wr' = IF open THEN w ELSE NoFile
      /\ files' = IF open THEN Opened(r, Opened(w, files)) ELSE files
      /\ r # w /\ ~exist => torn'
      /\ pos' = 0 /\ offset' = 0 /\ bak' = 0 /\ saveBuf' = 0
      /\ conn' \in BOOLEAN /\ firstPackage' = FALSE
      /\ pc' = "buffer" /\ cont' = "append"
      /\ UNCHANGED <<counter, eof, buf, next, fails, crashes, saved, sent, lost, strayed>>
  BY DEF Boot, producer, bounds, None
<1>2. torn' \in BOOLEAN
  <2>1. torn' = (\/ torn
                 \/ r # w /\ ~exist
                 \/ \E f \in DOMAIN files \ (r..w) : files[f] # <<>>)
    BY DEF Boot
  <2> QED
    BY <2>1
<1>3. r \in Nat /\ w \in Nat /\ r <= w
  BY DEF IInv, TypeOK, CardTypes, Good, CounterOK
<1> HIDE DEF r, w
<1>4. /\ DOMAIN files' \subseteq Nat /\ \A f \in DOMAIN files' : files'[f] \in Seq(1..MaxRec)
      /\ open => {r, w} \subseteq DOMAIN files'
      /\ 0 \notin DOMAIN files /\ 0 \in DOMAIN files' => files'[0] = <<>>
  <2>1. CASE open
    <3>0. \A f \in DOMAIN files : files[f] \in Seq(1..MaxRec)
      BY DEF IInv, TypeOK, CardTypes
    <3> DEFINE fs == Opened(w, files)
    <3>1. /\ DOMAIN fs = DOMAIN files \cup {w}
          /\ w \notin DOMAIN files => fs[w] = <<>>
          /\ \A f \in DOMAIN fs : fs[f] \in Seq(1..MaxRec)
      BY <3>0, OpenedLemma
    <3> HIDE DEF fs
    <3>2. /\ DOMAIN Opened(r, fs) = DOMAIN fs \cup {r}
          /\ \A g \in DOMAIN fs : Opened(r, fs)[g] = fs[g]
          /\ r \notin DOMAIN fs => Opened(r, fs)[r] = <<>>
          /\ \A f \in DOMAIN Opened(r, fs) : Opened(r, fs)[f] \in Seq(1..MaxRec)
      BY <3>1, OpenedLemma
    <3>3. files' = Opened(r, fs)
      BY <1>1, <2>1 DEF fs
    <3>4. 0 \notin DOMAIN files /\ 0 \in DOMAIN files' => files'[0] = <<>>
      BY <3>1, <3>2, <3>3
    <3> QED
      BY <1>3, <3>1, <3>2, <3>3, <3>4 DEF IInv, TypeOK, CardTypes
  <2>2. CASE ~open
    BY <1>1, <2>2 DEF IInv, TypeOK, CardTypes
  <2> QED
    BY <2>1, <2>2
<1>5. CardTypes' /\ ReadTypes'
  BY <1>1, <1>4 DEF IInv, TypeOK, CardTypes, ReadTypes
<1>6. InfoTypes'
  <2>1. fileexist' \in BOOLEAN
    BY <1>1
  <2>2. exist => {rd', wr'} \subseteq DOMAIN files'
    BY <1>1, <1>4
  <2> QED
    BY <1>1, <1>3, <2>1, <2>2 DEF InfoTypes
<1>7. TaskTypes' /\ LinkTypes' /\ HistoryTypes'
  BY <1>1, <1>2 DEF IInv, TypeOK, TaskTypes, LinkTypes, HistoryTypes
<1>8. CounterOK' /\ ChangeOK' /\ FaultOK' /\ BufferOK'
  BY <1>1 DEF IInv, Good, CounterOK, ChangeOK, Leaving, Left, FaultOK, BufferOK, Saves
<1>9. HandlesOK'
  BY <1>1, <1>4 DEF HandlesOK, InUse, Matching
<1>10. EmptyOK'
  BY <1>1, <1>4 DEF EmptyOK
<1> QED
  BY <1>5, <1>6, <1>7, <1>8, <1>9, <1>10 DEF IInv, TypeOK, Good
-----------------------------------------------------------------------------
(* The record in the upload buffer. *)

(* A handle that is not used leaves what is known of the files as it was.    *)
LEMMA KeptTypes ==
  ASSUME IInv, UNCHANGED <<files, counter, eof, readindex, writeindex, pos, offset, bak, saveBuf>>
  PROVE  CardTypes' /\ ReadTypes'
  BY DEF IInv, TypeOK, CardTypes, ReadTypes

LEMMA QuietKeeps == ASSUME IInv, NoRecord \/ LiveSend \/ NoDrain PROVE IInv'
<1>1. /\ UNCHANGED <<files, counter, eof, readindex, writeindex, rd, wr, fileexist, pos, offset, bak,
                     saveBuf, next, cont, crashes, saved, strayed, torn>>
      /\ \/ pc = "buffer" /\ pc' = "drain"
         \/ pc = "drain" /\ pc' = "buffer"
      /\ fileexist /\ pc = "buffer" => buf = None
      /\ buf' \in {buf, 0}
  BY DEF NoRecord, LiveSend, NoDrain, Taken, card, info, reading, link, producer, bounds, history,
         None
<1>2. sent' \cup lost' \subseteq sent \cup lost \cup ({buf} \ {0})
  BY DEF NoRecord, LiveSend, NoDrain, history, None
<1>3. fails' \in 0..MaxFail
  BY DEF NoRecord, LiveSend, NoDrain, bounds, IInv, TypeOK, TaskTypes
<1>4. LinkTypes'
  <2>1. /\ conn' = conn \/ conn' = FALSE
        /\ firstPackage' = firstPackage \/ firstPackage' = FALSE
    BY DEF NoRecord, LiveSend, NoDrain, link
  <2>2. conn' \in BOOLEAN
    BY <2>1 DEF IInv, TypeOK, LinkTypes
  <2>3. firstPackage' \in BOOLEAN
    BY <2>1 DEF IInv, TypeOK, LinkTypes
  <2> QED
    BY <2>2, <2>3 DEF LinkTypes
<1>5. TaskTypes'
  BY <1>1, <1>3 DEF IInv, TypeOK, TaskTypes
<1>6. HistoryTypes'
  <2>1. saved' \cup sent' \cup lost' \subseteq 1..MaxRec
    BY <1>1, <1>2 DEF IInv, TypeOK, TaskTypes, HistoryTypes
  <2> QED
    BY <1>1, <2>1 DEF IInv, TypeOK, HistoryTypes
<1>7. InfoTypes'
  BY <1>1 DEF IInv, TypeOK, InfoTypes
<1>8. HandlesOK'
  BY <1>1 DEF IInv, Good, HandlesOK, InUse, Matching, Mistaken
<1>9. CounterOK' /\ ChangeOK' /\ EmptyOK' /\ FaultOK' /\ BufferOK'
  BY <1>1 DEF IInv, Good, CounterOK, ChangeOK, Leaving, Left, EmptyOK, Running, FaultOK, BufferOK, Saves
<1> QED
  BY <1>1, <1>4, <1>5, <1>6, <1>7, <1>8, <1>9, KeptTypes DEF IInv, TypeOK, Good

LEMMA OpenFirstKeeps == ASSUME IInv, OpenFirst PROVE IInv'
<1>1. /\ UNCHANGED <<counter, eof, readindex, writeindex, offset, bak, saveBuf, conn, firstPackage,
                     buf, next, pc, cont, fails, crashes, saved, sent, lost, strayed, torn>>
      /\ pc = "buffer" /\ buf # None /\ ~fileexist
      /\ fileexist' = TRUE /\ files' = Opened(0, files) /\ rd' = 0 /\ wr' = 0 /\ pos' = 0
  BY DEF OpenFirst, link, producer, bounds, history
<1>2. \A g \in DOMAIN files : files[g] \in Seq(1..MaxRec)
  BY DEF IInv, TypeOK, CardTypes
<1>3. /\ DOMAIN files' = DOMAIN files \cup {0}
      /\ \A g \in DOMAIN files : files'[g] = files[g]
      /\ 0 \notin DOMAIN files => files'[0] = <<>>
      /\ \A g \in DOMAIN files' : files'[g] \in Seq(1..MaxRec)
  BY <1>1, <1>2, OpenedLemma, ZenonT(40)
<1>4. readindex = 0 /\ (writeindex = 0 \/ (torn /\ files'[0] = <<>>))
  BY <1>1, <1>3 DEF IInv, Good, EmptyOK, Running
<1>5. CardTypes'
  BY <1>1, <1>3 DEF IInv, TypeOK, CardTypes
<1>6. InfoTypes'
  BY <1>1, <1>3 DEF IInv, TypeOK, InfoTypes
<1>7. ReadTypes' /\ TaskTypes' /\ LinkTypes' /\ HistoryTypes'
  BY <1>1 DEF IInv, TypeOK, ReadTypes, TaskTypes, LinkTypes, HistoryTypes
<1>8. HandlesOK'
  BY <1>1, <1>3, <1>4 DEF HandlesOK, Matching, Mistaken
<1>9. CounterOK' /\ ChangeOK' /\ EmptyOK' /\ FaultOK' /\ BufferOK'
  BY <1>1 DEF IInv, Good, CounterOK, ChangeOK, Leaving, Left, EmptyOK, FaultOK, BufferOK, Saves
<1> QED
  BY <1>5, <1>6, <1>7, <1>8, <1>9 DEF IInv, TypeOK, Good

LEMMA RolloverKeeps == ASSUME IInv, Rollover PROVE IInv'
<1>1. /\ UNCHANGED <<counter, eof, readindex, rd, fileexist, pos, offset, bak, saveBuf, conn,
                     firstPackage, buf, next, fails, crashes, saved, sent, lost, strayed, torn>>
      /\ pc = "buffer" /\ fileexist /\ buf # None /\ Len(files[wr]) > Full
      /\ writeindex' = writeindex + 1 /\ wr' = writeindex + 1
      /\ files' = Opened(writeindex + 1, files)
      /\ pc' = "truncate" /\ cont' = "append"
  BY DEF Rollover, Saving, reading, link, producer, bounds, history
<1>2. \A g \in DOMAIN files : files[g] \in Seq(1..MaxRec)
  BY DEF IInv, TypeOK, CardTypes
<1>3. /\ DOMAIN files' = DOMAIN files \cup {writeindex + 1}
      /\ \A g \in DOMAIN files' : files'[g] \in Seq(1..MaxRec)
  BY <1>1, <1>2, OpenedLemma
<1>4. ~Mistaken
  <2>1. Len(<<>>) = 0
    OBVIOUS
  <2> QED
    BY <1>1, <2>1 DEF Mistaken
<1>5. Matching
  BY <1>1, <1>4 DEF IInv, Good, HandlesOK, InUse
<1>6. CardTypes' /\ InfoTypes'
  BY <1>1, <1>3 DEF IInv, TypeOK, CardTypes, InfoTypes
<1>7. ReadTypes' /\ TaskTypes' /\ LinkTypes' /\ HistoryTypes'
  BY <1>1 DEF IInv, TypeOK, ReadTypes, TaskTypes, LinkTypes, HistoryTypes
<1>8. HandlesOK'
  BY <1>1, <1>3, <1>5 DEF HandlesOK, Matching
<1>9. CounterOK' /\ ChangeOK' /\ EmptyOK' /\ FaultOK' /\ BufferOK'
  BY <1>1 DEF IInv, Good, CounterOK, ChangeOK, Leaving, Left, EmptyOK, FaultOK, BufferOK, Saves
<1> QED
  BY <1>6, <1>7, <1>8, <1>9 DEF IInv, TypeOK, Good

LEMMA SaveKeeps == ASSUME IInv, SaveData2SdCard PROVE IInv'
<1> DEFINE fs == [files EXCEPT ![wr] = Append(@, buf)]
<1>1. /\ UNCHANGED <<counter, eof, readindex, writeindex, fileexist, pos, offset, bak, saveBuf, conn,
                     firstPackage, next, cont, fails, crashes, sent, lost, strayed, torn>>
      /\ pc \in {"buffer", "append"} /\ fileexist
      /\ files' = Opened(writeindex, fs) /\ wr' = writeindex
      /\ rd' = IF readindex = writeindex THEN writeindex ELSE rd
      /\ saved' = saved \cup {buf} /\ buf' = 0
      /\ pc' = IF rd = wr /\ readindex # writeindex THEN "fault" ELSE "drain"
  BY DEF SaveData2SdCard, Saving, reading, link, bounds, IInv, Good, ChangeOK, None
<1>2. Matching \/ Mistaken
  BY <1>1 DEF IInv, Good, HandlesOK, InUse
<1>3. wr \in DOMAIN files
  BY <1>2 DEF Matching, Mistaken
<1>4. buf \in 1..MaxRec
  <2>1. buf # 0
    BY DEF SaveData2SdCard, Saving, IInv, Good, BufferOK, Saves, None
  <2> QED
    BY <2>1 DEF IInv, TypeOK, TaskTypes
<1>5. \A g \in DOMAIN files : files[g] \in Seq(1..MaxRec)
  BY DEF IInv, TypeOK, CardTypes
<1>6. DOMAIN fs = DOMAIN files /\ \A g \in DOMAIN fs : fs[g] \in Seq(1..MaxRec)
  <2>1. Append(files[wr], buf) \in Seq(1..MaxRec)
    BY <1>3, <1>4, <1>5
  <2> QED
    BY <1>3, <1>5, <2>1
<1>7. /\ DOMAIN files' = DOMAIN files \cup {writeindex}
      /\ \A g \in DOMAIN files' : files'[g] \in Seq(1..MaxRec)
  <2> HIDE DEF fs
  <2>1. files' = Opened(writeindex, fs)
    BY <1>1
  <2>2. /\ DOMAIN Opened(writeindex, fs) = DOMAIN fs \cup {writeindex}
        /\ \A g \in DOMAIN Opened(writeindex, fs) : Opened(writeindex, fs)[g] \in Seq(1..MaxRec)
    BY <1>6, OpenedLemma
  <2> QED
    BY <1>6, <2>1, <2>2
<1> HIDE DEF fs
<1>8. CASE rd = wr /\ readindex # writeindex
  <2>1. torn /\ pc' = "fault"
    BY <1>1, <1>2, <1>8 DEF Matching, Mistaken
  <2>2. CardTypes' /\ InfoTypes'
    BY <1>1, <1>7, <2>1 DEF IInv, TypeOK, CardTypes, InfoTypes
  <2>3. ReadTypes' /\ TaskTypes' /\ LinkTypes'
    BY <1>1, <2>1 DEF IInv, TypeOK, ReadTypes, TaskTypes, LinkTypes
  <2>4. HistoryTypes'
    BY <1>1, <1>4 DEF IInv, TypeOK, HistoryTypes
  <2>5. Good'
    BY <1>1, <2>1 DEF IInv, Good, CounterOK, HandlesOK, InUse, ChangeOK, Leaving, Left, EmptyOK,
                      Running, FaultOK, BufferOK, Saves
  <2> QED
    BY <2>2, <2>3, <2>4, <2>5 DEF IInv, TypeOK
<1>9. CASE ~(rd = wr /\ readindex # writeindex)
  <2>1. /\ pc' = "drain" /\ rd' = readindex /\ wr' = writeindex
        /\ {rd', wr'} \subseteq DOMAIN files'
    BY <1>1, <1>2, <1>7, <1>9 DEF Matching, Mistaken
  <2>2. CardTypes' /\ InfoTypes'
    BY <1>1, <1>7, <2>1 DEF IInv, TypeOK, CardTypes, InfoTypes
  <2>3. ReadTypes' /\ TaskTypes' /\ LinkTypes'
    BY <1>1, <2>1 DEF IInv, TypeOK, ReadTypes, TaskTypes, LinkTypes
  <2>4. HistoryTypes'
    BY <1>1, <1>4 DEF IInv, TypeOK, HistoryTypes
  <2>5. Good'
    BY <1>1, <2>1 DEF IInv, Good, CounterOK, HandlesOK, InUse, Matching, ChangeOK, Leaving, Left,
                      EmptyOK, Running, FaultOK, BufferOK, Saves
  <2> QED
    BY <2>2, <2>3, <2>4, <2>5 DEF IInv, TypeOK
<1> QED
  BY <1>8, <1>9

-----------------------------------------------------------------------------
(* The counter and the records on the card. *)
LEMMA CounterKeeps == ASSUME IInv, SaveFileCounterOpen \/ SaveFileCounterClose PROVE IInv'
<1>1. /\ UNCHANGED <<files, eof, readindex, writeindex, rd, wr, fileexist, pos, offset, bak, saveBuf,
                     conn, firstPackage, buf, next, cont, fails, crashes, saved, sent, lost,
                     strayed, torn>>
      /\ \/ pc = "truncate" /\ pc' = "write" /\ counter' = <<>>
         \/ pc = "write" /\ pc' = cont /\ counter' = <<readindex, writeindex>>
  BY DEF SaveFileCounterOpen, SaveFileCounterClose, info, reading, link, producer, bounds, history
<1>2. readindex \in Nat /\ writeindex \in Nat /\ readindex <= writeindex
      /\ cont \in {"append", "open", "end"}
  BY DEF IInv, TypeOK, InfoTypes, TaskTypes
<1>3. CardTypes' /\ ReadTypes' /\ TaskTypes' /\ LinkTypes' /\ HistoryTypes'
  BY <1>1, <1>2 DEF IInv, TypeOK, CardTypes, ReadTypes, TaskTypes, LinkTypes, HistoryTypes
<1>4. CounterOK'
  BY <1>1, <1>2 DEF CounterOK
<1>5. HandlesOK' /\ ChangeOK' /\ EmptyOK' /\ FaultOK' /\ BufferOK'
  BY <1>1, <1>2 DEF IInv, Good, HandlesOK, InUse, Matching, Mistaken, ChangeOK, Leaving, Left,
                    EmptyOK, Running, FaultOK, BufferOK, Saves
<1>6. InfoTypes'
  BY <1>1, <1>2, <1>5 DEF IInv, TypeOK, InfoTypes, HandlesOK, InUse, Matching, Mistaken
<1> QED
  BY <1>3, <1>4, <1>5, <1>6 DEF IInv, TypeOK, Good

(* The record at a position, or the one found behind it, has a number.       *)
LEMMA RecordLemma ==
  ASSUME NEW p \in Nat, NEW o \in Nat
  PROVE  Record(p, o) \in Nat \ {0}
<1>1. p \div R \in Nat /\ o \div R \in Nat
  BY SMT
<1> QED
  BY <1>1 DEF Record

LEMMA ReadKeeps == ASSUME IInv, ReadRecord PROVE IInv'
<1> DEFINE k == Record(pos, offset)
<1>1. /\ UNCHANGED <<files, counter, eof, readindex, writeindex, rd, wr, fileexist, bak, conn,
                     firstPackage, buf, next, cont, fails, crashes, saved, sent, lost, strayed, torn>>
      /\ pc = "drain" /\ fileexist /\ pc' \in {"delete", "send"}
      /\ IF k <= Len(files[rd])
           THEN saveBuf' = files[rd][k] /\ pos' = k * R /\ offset' \in {offset + R - 1, k * R}
           ELSE UNCHANGED <<saveBuf, pos, offset>>
  BY DEF ReadRecord, card, info, link, producer, bounds, history
<1>2. pos \in Nat /\ offset \in Nat /\ k \in Nat \ {0}
  BY RecordLemma DEF IInv, TypeOK, ReadTypes
<1> HIDE DEF k
<1>3. Matching
  BY <1>1 DEF IInv, Good, HandlesOK, InUse, Mistaken
<1>4. files[rd] \in Seq(1..MaxRec)
  BY <1>3 DEF Matching, IInv, TypeOK, CardTypes
<1>5. ReadTypes'
  <2>1. k * R \in Nat /\ offset + R - 1 \in Nat
    BY <1>2
  <2>2. k <= Len(files[rd]) => files[rd][k] \in 1..MaxRec
    BY <1>2, <1>4
  <2> QED
    BY <1>1, <2>1, <2>2 DEF IInv, TypeOK, ReadTypes
<1>6. CardTypes' /\ InfoTypes' /\ TaskTypes' /\ LinkTypes' /\ HistoryTypes'
  BY <1>1, <1>3 DEF IInv, TypeOK, CardTypes, InfoTypes, TaskTypes, LinkTypes, HistoryTypes, Matching
<1>7. Good'
  BY <1>1, <1>3 DEF IInv, Good, CounterOK, HandlesOK, InUse, Matching, ChangeOK, Leaving, Left,
                    EmptyOK, Running, FaultOK, BufferOK, Saves
<1> QED
  BY <1>5, <1>6, <1>7 DEF IInv, TypeOK

LEMMA DeleteKeeps == ASSUME IInv, DeleteFile PROVE IInv'
<1>1. /\ UNCHANGED <<counter, eof, readindex, writeindex, rd, wr, fileexist, pos, offset, bak, saveBuf,
                     conn, firstPackage, buf, next, cont, fails, crashes, saved, sent, lost,
                     strayed, torn>>
      /\ pc = "delete" /\ pc' = "index" /\ fileexist
      /\ files' = [f \in DOMAIN files \ {readindex} |-> files[f]]
  BY DEF DeleteFile, info, reading, link, producer, bounds, history, IInv, Good, ChangeOK
<1>2. Matching
  BY <1>1 DEF IInv, Good, HandlesOK, InUse, Mistaken
<1>3. CardTypes' /\ InfoTypes'
  BY <1>1 DEF IInv, TypeOK, CardTypes, InfoTypes
<1>4. ReadTypes' /\ TaskTypes' /\ LinkTypes' /\ HistoryTypes'
  BY <1>1 DEF IInv, TypeOK, ReadTypes, TaskTypes, LinkTypes, HistoryTypes
<1>5. Good'
  BY <1>1, <1>2 DEF IInv, Good, CounterOK, HandlesOK, InUse, Matching, ChangeOK, Leaving, Left,
                    EmptyOK, Running, FaultOK, BufferOK, Saves
<1> QED
  BY <1>3, <1>4, <1>5 DEF IInv, TypeOK

LEMMA AdvanceKeeps == ASSUME IInv, AdvanceIndex PROVE IInv'
<1>1. /\ UNCHANGED <<files, counter, eof, fileexist, pos, offset, bak, saveBuf, conn, firstPackage,
                     buf, next, fails, crashes, saved, sent, lost, strayed, torn>>
      /\ pc = "index" /\ pc' = "truncate" /\ fileexist
      /\ \/ /\ readindex' = 0 /\ writeindex' = 0 /\ cont' = "end"
         \/ /\ readindex # writeindex /\ readindex' = readindex + 1 /\ cont' = "open"
            /\ UNCHANGED <<writeindex, wr>>
  BY DEF AdvanceIndex, card, reading, link, producer, bounds, history, IInv, Good, ChangeOK
<1>2. CardTypes' /\ InfoTypes' /\ ReadTypes' /\ TaskTypes' /\ LinkTypes' /\ HistoryTypes'
  BY <1>1 DEF IInv, TypeOK, CardTypes, InfoTypes, ReadTypes, TaskTypes, LinkTypes, HistoryTypes
<1>3. Good'
  BY <1>1 DEF IInv, Good, CounterOK, HandlesOK, InUse, ChangeOK, Leaving, Left, EmptyOK, Running,
              FaultOK, BufferOK, Saves
<1> QED
  BY <1>2, <1>3 DEF IInv, TypeOK

LEMMA OpenNextKeeps == ASSUME IInv, OpenNext PROVE IInv'
<1>1. /\ UNCHANGED <<counter, eof, readindex, writeindex, wr, fileexist, bak, saveBuf, conn,
                     firstPackage, buf, next, cont, fails, crashes, saved, sent, lost, strayed, torn>>
      /\ pc = "open" /\ pc' = "send" /\ fileexist /\ wr = writeindex /\ wr \in DOMAIN files
      /\ rd' = readindex /\ files' = Opened(readindex, files) /\ pos' = 0 /\ offset' = 0
  BY DEF OpenNext, link, producer, bounds, history, IInv, Good, ChangeOK, Leaving
<1>2. \A g \in DOMAIN files : files[g] \in Seq(1..MaxRec)
  BY DEF IInv, TypeOK, CardTypes
<1>3. /\ DOMAIN files' = DOMAIN files \cup {readindex}
      /\ \A g \in DOMAIN files' : files'[g] \in Seq(1..MaxRec)
  BY <1>1, <1>2, OpenedLemma
<1>4. CardTypes' /\ InfoTypes'
  BY <1>1, <1>3 DEF IInv, TypeOK, CardTypes, InfoTypes
<1>5. ReadTypes' /\ TaskTypes' /\ LinkTypes' /\ HistoryTypes'
  BY <1>1 DEF IInv, TypeOK, ReadTypes, TaskTypes, LinkTypes, HistoryTypes
<1>6. Good'
  BY <1>1, <1>3 DEF IInv, Good, CounterOK, HandlesOK, InUse, Matching, ChangeOK, Leaving, Left,
                    EmptyOK, Running, FaultOK, BufferOK, Saves
<1> QED
  BY <1>4, <1>5, <1>6 DEF IInv, TypeOK

LEMMA DrainEndKeeps == ASSUME IInv, DrainEnd PROVE IInv'
<1>1. /\ UNCHANGED <<files, counter, eof, readindex, writeindex, rd, wr, pos, saveBuf, conn,
                     firstPackage, buf, next, cont, fails, crashes, saved, sent, strayed, torn>>
      /\ pc = "end" /\ pc' = "buffer" /\ fileexist' = FALSE /\ offset' = 0 /\ bak' = 0
      /\ lost' \subseteq lost \cup ({saveBuf} \ {0})
  BY DEF DrainEnd, card, link, producer, bounds, None
<1>2. readindex = 0 /\ writeindex = 0
  BY <1>1 DEF IInv, Good, ChangeOK, Left
<1>3. CardTypes' /\ InfoTypes' /\ ReadTypes' /\ TaskTypes' /\ LinkTypes'
  BY <1>1 DEF IInv, TypeOK, CardTypes, InfoTypes, ReadTypes, TaskTypes, LinkTypes
<1>4. HistoryTypes'
  <2>1. lost' \subseteq 1..MaxRec
    BY <1>1 DEF IInv, TypeOK, ReadTypes, HistoryTypes
  <2> QED
    BY <1>1, <2>1 DEF IInv, TypeOK, HistoryTypes
<1>5. Good'
  BY <1>1, <1>2 DEF IInv, Good, CounterOK, HandlesOK, InUse, ChangeOK, Leaving, Left, EmptyOK,
                    Running, FaultOK, BufferOK, Saves
<1> QED
  BY <1>3, <1>4, <1>5 DEF IInv, TypeOK

LEMMA SendKeeps == ASSUME IInv, Send \/ SendFails PROVE IInv'
<1>1. /\ UNCHANGED <<files, counter, eof, readindex, writeindex, rd, wr, fileexist, saveBuf,
                     firstPackage, buf, next, cont, crashes, saved, torn>>
      /\ pc = "send" /\ pc' = "buffer" /\ fileexist
      /\ offset' \in {offset, bak} /\ pos' \in {pos, bak} /\ bak' \in {bak, offset}
  BY DEF Send, SendFails, card, info, link, producer, bounds, IInv, Good, ChangeOK
<1>2. sent' \cup lost' \subseteq sent \cup lost \cup ({saveBuf} \ {0}) \cup Hand
  BY DEF Send, SendFails, None
<1>3. fails' \in 0..MaxFail
  BY DEF Send, SendFails, bounds, IInv, TypeOK, TaskTypes
<1>4. conn' \in BOOLEAN
  <2>1. conn' = conn \/ conn' = FALSE
    BY DEF Send, SendFails, link
  <2> QED
    BY <2>1 DEF IInv, TypeOK, LinkTypes
<1>5. strayed' \in BOOLEAN
  <2>1. strayed' = strayed \/ strayed' = (strayed \/ (bak # 0 /\ bakFile # readindex))
    BY DEF Send, SendFails
  <2> QED
    BY <2>1 DEF IInv, TypeOK, HistoryTypes
<1>6. HistoryTypes'
  <2>1. saved' \cup sent' \cup lost' \subseteq 1..MaxRec
    BY <1>1, <1>2, HandLemma DEF IInv, TypeOK, ReadTypes, HistoryTypes
  <2> QED
    BY <1>1, <1>5, <2>1 DEF IInv, TypeOK, HistoryTypes
<1>7. CardTypes' /\ InfoTypes' /\ ReadTypes'
  BY <1>1 DEF IInv, TypeOK, CardTypes, InfoTypes, ReadTypes
<1>8. TaskTypes'
  BY <1>1, <1>3 DEF IInv, TypeOK, TaskTypes
<1>9. LinkTypes'
  BY <1>1, <1>4 DEF IInv, TypeOK, LinkTypes
<1>10. Good'
  BY <1>1 DEF IInv, Good, CounterOK, HandlesOK, InUse, Matching, Mistaken, ChangeOK, Leaving, Left,
              EmptyOK, Running, FaultOK, BufferOK, Saves
<1> QED
  BY <1>6, <1>7, <1>8, <1>9, <1>10 DEF IInv, TypeOK

-----------------------------------------------------------------------------
LEMMA NextKeeps == ASSUME IInv, [Next]_vars PROVE IInv'
<1>1. CASE UNCHANGED vars
  <2>1. UNCHANGED <<files, counter, eof, readindex, writeindex, rd, wr, fileexist, pos, offset, bak,
                    saveBuf, conn, firstPackage, buf, next, pc, cont, fails, crashes, saved, sent,
                    lost, strayed, torn>>
    BY <1>1 DEF vars, card, info, reading, link, producer, bounds, history
  <2>2. TypeOK'
    BY <2>1 DEF IInv, TypeOK, CardTypes, InfoTypes, ReadTypes, TaskTypes, LinkTypes, HistoryTypes
  <2>3. Good'
    BY <2>1 DEF IInv, Good, CounterOK, HandlesOK, InUse, Matching, Mistaken, ChangeOK, Leaving, Left,
                EmptyOK, Running, FaultOK, BufferOK, Saves
  <2> QED
    BY <2>2, <2>3 DEF IInv
<1>2. CASE Boot
  BY <1>2, BootKeeps
<1>3. CASE Crash
  BY <1>3, CrashKeeps
<1>4. CASE Produce
  BY <1>4, ProduceKeeps
<1>5. CASE Connect \/ LinkLoss
  BY <1>5, LinkKeeps
<1>6. CASE Upload
  <2>1. CASE NoRecord \/ LiveSend \/ NoDrain
    BY <2>1, QuietKeeps
  <2>2. CASE OpenFirst
    BY <2>2, OpenFirstKeeps
  <2>3. CASE Rollover
    BY <2>3, RolloverKeeps
  <2>4. CASE SaveData2SdCard
    BY <2>4, SaveKeeps
  <2>5. CASE SaveFileCounterOpen \/ SaveFileCounterClose
    BY <2>5, CounterKeeps
  <2>6. CASE ReadRecord
    BY <2>6, ReadKeeps
  <2>7. CASE DeleteFile
    BY <2>7, DeleteKeeps
  <2>8. CASE AdvanceIndex
    BY <2>8, AdvanceKeeps
  <2>9. CASE OpenNext
    BY <2>9, OpenNextKeeps
  <2>10. CASE DrainEnd
    BY <2>10, DrainEndKeeps
  <2>11. CASE Send \/ SendFails
    BY <2>11, SendKeeps
  <2> QED
    BY <1>6, <2>1, <2>2, <2>3, <2>4, <2>5, <2>6, <2>7, <2>8, <2>9, <2>10, <2>11 DEF Upload
<1> QED
  BY <1>1, <1>2, <1>3, <1>4, <1>5, <1>6 DEF Next

THEOREM Invariance == Spec => []IInv
<1>1. Init => IInv
  BY IInvInit
<1>2. IInv /\ [Next]_vars => IInv'
  BY NextKeeps
<1> QED
  BY <1>1, <1>2, PTL DEF Spec

(* However long the card is used and wherever power fails, a handle that was *)
(* closed is used only after a start that found the card torn               *)
(* (breakpoint.c:93-112, 337-377).                                          *)
THEOREM OpenHandlesCorrect == Spec => []OpenHandles
<1>1. IInv => OpenHandles
  BY DEF IInv, Good, FaultOK, OpenHandles
<1> QED
  BY <1>1, Invariance, PTL
-----------------------------------------------------------------------------
(***************************************************************************)
(* No record saved on the SD card is passed over.                          *)
(***************************************************************************)

(* A record has a number of its own: the one in the upload buffer is neither *)
(* on the card nor the one read last, and no two files hold the same.        *)
In(f) == {files[f][i] : i \in 1..Len(files[f])}
NumbersOK ==
  /\ buf < next /\ saveBuf < next /\ \A f \in DOMAIN files : \A x \in In(f) : x < next
  /\ buf # None => buf # saveBuf /\ \A f \in DOMAIN files : buf \notin In(f)
  /\ \A f, g \in DOMAIN files : f # g => In(f) \cap In(g) = {}

(* The record read last is in no other file than the one being read, and in  *)
(* none once that was deleted.                                              *)
Deleted == pc \in {"index", "open", "end"} \/ (pc \in {"truncate", "write"} /\ cont # "append")
HandOK ==
  /\ Running => \A f \in DOMAIN files : f # readindex => saveBuf \notin In(f)
  /\ Deleted => \A f \in DOMAIN files : saveBuf \notin In(f)

(* Offset lags behind the position, which is that of a header unless it was  *)
(* put back; bak_offset was taken in the file being read or an earlier one.  *)
OffsetOK ==
  /\ Running => offset <= pos
  /\ Running /\ ~fileexist => offset = 0 /\ bak = 0 /\ bakFile = 0
  /\ pc = "send" => pos % R = 0
  /\ bakFile \in Nat
  /\ InUse \/ pc = "index" => bakFile <= readindex
  /\ Leaving => bakFile < readindex

(* The handle for reading while one file gives way to the next.              *)
ReaderOK ==
  /\ pc = "index" => rd = readindex /\ readindex \notin DOMAIN files
  /\ Left => rd = NoFile

(* Where the next record is read, and where after a failed send.             *)
NextOne == Record(pos, offset)
BackOne == Record(bak, bak)
Backs == bak = 0 \/ bakFile = readindex
PlaceOK ==
  /\ InUse => NextOne <= Len(files[readindex]) + 1
  /\ InUse /\ Backs => BackOne <= NextOne
  /\ pc = "delete" => NextOne > Len(files[readindex])
  /\ pc = "send" => \/ \A f \in DOMAIN files : saveBuf \notin In(f)
                    \/ /\ NextOne > 1 /\ saveBuf = files[readindex][NextOne - 1]
                       /\ Backs => BackOne < NextOne

(* The records the upload task will still read, and before a start all those *)
(* on the card.                                                             *)
Ahead(f) == IF f = readindex /\ rd = f THEN NextOne ELSE 1
Waits(x) ==
  \/ x \in sent \/ x \in lost
  \/ pc # "off" /\ x \in Hand
  \/ \E f \in DOMAIN files : \E k \in 1..Len(files[f]) :
       x = files[f][k] /\ (pc # "off" => f \in readindex..writeindex /\ k >= Ahead(f))
Covered == \A x \in saved : Waits(x)

Clean == ~strayed /\ ~torn
SInv == /\ NumbersOK /\ HandOK /\ OffsetOK /\ ReaderOK
        /\ Clean => PlaceOK /\ Covered
-----------------------------------------------------------------------------
(* Positions: what division by the size of a record says of them. *)
LEMMA DivLemma ==
  ASSUME NEW p \in Nat
  PROVE  /\ p \div R \in Nat /\ p % R \in 0..(R - 1)
         /\ p = R * (p \div R) + (p % R)
  BY SMT

LEMMA TimesLemma ==
  ASSUME NEW a \in Nat, NEW b \in Nat, a < b
  PROVE  R * a + R <= R * b
<1> DEFINE c == b - (a + 1)
<1>1. c \in Nat /\ b = c + (a + 1)
  OBVIOUS
<1> HIDE DEF c
<1>2. R * c \in Nat
  BY <1>1
<1>3. R * b = R * c + (R * a + R)
  BY <1>1
<1>4. R * a \in Nat /\ R * b \in Nat
  OBVIOUS
<1> QED
  BY <1>2, <1>3, <1>4

(* At the header of a record the next one is the one behind it.              *)
LEMMA HeaderLemma ==
  ASSUME NEW k \in Nat, NEW o \in Nat
  PROVE  k * R \in Nat /\ (k * R) % R = 0 /\ Record(k * R, o) = k + 1
<1> DEFINE p == k * R
           q == p \div R
           m == p % R
<1>1. p \in Nat /\ p = R * k
  OBVIOUS
<1>2. q \in Nat /\ m \in 0..(R - 1) /\ p = R * q + m
  BY <1>1, DivLemma
<1> HIDE DEF p, q, m
<1>3. R * k \in Nat /\ R * q \in Nat
  BY <1>2
<1>4. ~(q < k)
  BY <1>1, <1>2, <1>3, TimesLemma
<1>5. ~(k < q)
  BY <1>1, <1>2, <1>3, TimesLemma
<1>6. q = k
  BY <1>2, <1>4, <1>5
<1>7. m = 0
  BY <1>1, <1>2, <1>3, <1>6
<1> QED
  BY <1>1, <1>6, <1>7 DEF p, q, m, Record

(* A position that is not behind the header of a record is searched from     *)
(* there without passing over that record.                                  *)
LEMMA BackLemma ==
  ASSUME NEW b \in Nat, NEW k \in Nat, b <= k * R
  PROVE  Record(b, b) <= k + 1
<1> DEFINE q == b \div R
           m == b % R
<1>1. q \in Nat /\ m \in 0..(R - 1) /\ b = R * q + m
  BY DivLemma
<1>2. Record(b, b) = IF m = 0 THEN q + 1 ELSE q + 2
  BY <1>1 DEF Record
<1> HIDE DEF q, m
<1>3. R * k \in Nat /\ R * q \in Nat /\ b <= R * k
  BY <1>1
<1>4. q <= k
  BY <1>1, <1>3, TimesLemma
<1>5. m # 0 => q # k
  BY <1>1, <1>3
<1> QED
  BY <1>1, <1>2, <1>4, <1>5

(* Reading a record leaves offset behind the position.                       *)
LEMMA LagLemma ==
  ASSUME NEW p \in Nat, NEW o \in Nat, o <= p, p % R = 0
  PROVE  o + R - 1 <= Record(p, o) * R
<1> DEFINE q == p \div R
<1>1. q \in Nat /\ p = R * q
  BY DivLemma
<1>2. Record(p, o) = q + 1
  BY DEF Record
<1> HIDE DEF q
<1>3. (q + 1) * R = R * q + R /\ R * q \in Nat
  BY <1>1
<1> QED
  BY <1>1, <1>2, <1>3

LEMMA FirstLemma == 0 % R = 0 /\ \A o \in Nat : Record(0, o) = 1
<1>1. 0 * R = 0
  OBVIOUS
<1> QED
  BY <1>1, HeaderLemma

-----------------------------------------------------------------------------
LEMMA SInvInit == Init => SInv
<1> SUFFICES ASSUME Init PROVE SInv
  OBVIOUS
<1>1. DOMAIN files = {} /\ saved = {} /\ buf = None /\ saveBuf = None /\ next = 1 /\ pc = "off"
      /\ bakFile = 0
  BY DEF Init
<1>2. NumbersOK /\ HandOK /\ OffsetOK /\ ReaderOK /\ PlaceOK /\ Covered
  BY <1>1 DEF NumbersOK, HandOK, Deleted, Running, OffsetOK, InUse, Leaving, ReaderOK, Left, PlaceOK,
              Covered, None
<1> QED
  BY <1>2 DEF SInv

LEMMA FileTypes ==
  ASSUME TypeOK
  PROVE  /\ DOMAIN files \subseteq Nat
         /\ \A f \in DOMAIN files : files[f] \in Seq(1..MaxRec) /\ In(f) \subseteq 1..MaxRec
         /\ readindex \in Nat /\ writeindex \in Nat /\ readindex <= writeindex
         /\ pos \in Nat /\ offset \in Nat /\ bak \in Nat /\ buf \in Nat /\ next \in Nat
         /\ saveBuf \in Nat
         /\ NextOne \in Nat \ {0} /\ BackOne \in Nat \ {0}
<1>1. /\ DOMAIN files \subseteq Nat
      /\ \A f \in DOMAIN files : files[f] \in Seq(1..MaxRec)
      /\ readindex \in Nat /\ writeindex \in Nat /\ readindex <= writeindex
  BY DEF TypeOK, CardTypes, InfoTypes
<1>2. pos \in Nat /\ offset \in Nat /\ bak \in Nat /\ saveBuf \in Nat
  BY DEF TypeOK, ReadTypes
<1>3. buf \in Nat /\ next \in Nat
  BY DEF TypeOK, TaskTypes
<1>4. \A f \in DOMAIN files : In(f) \subseteq 1..MaxRec
  <2> SUFFICES ASSUME NEW f \in DOMAIN files, NEW i \in 1..Len(files[f])
               PROVE  files[f][i] \in 1..MaxRec
    BY DEF In
  <2>1. files[f] \in Seq(1..MaxRec)
    BY <1>1
  <2> QED
    BY <2>1
<1>5. NextOne \in Nat \ {0} /\ BackOne \in Nat \ {0}
  BY <1>2, RecordLemma DEF NextOne, BackOne
<1> QED
  BY <1>1, <1>2, <1>3, <1>4, <1>5

LEMMA CardLemma ==
  ASSUME TypeOK, NEW x \in OnCard
  PROVE  \E f \in DOMAIN files : \E k \in 1..Len(files[f]) : x = files[f][k]
<1>1. PICK f \in DOMAIN files : x \in ToSet(files[f])
  BY DEF OnCard
<1>2. DOMAIN files[f] = 1..Len(files[f])
  BY FileTypes
<1> QED
  BY <1>1, <1>2 DEF ToSet

LEMMA SameFiles == ASSUME UNCHANGED files PROVE \A f : In(f)' = In(f)
  BY DEF In

(* Files that are opened add nothing to what is on the card.                 *)
LEMMA OpenedFiles ==
  ASSUME TypeOK, NEW w, files' = Opened(w, files)
  PROVE  /\ DOMAIN files' = DOMAIN files \cup {w}
         /\ \A f \in DOMAIN files : files'[f] = files[f] /\ In(f)' = In(f)
         /\ \A f \in DOMAIN files' : f \notin DOMAIN files => files'[f] = <<>> /\ In(f)' = {}
<1>1. \A f \in DOMAIN files : files[f] \in Seq(1..MaxRec)
  BY FileTypes
<1>2. /\ DOMAIN Opened(w, files) = DOMAIN files \cup {w}
      /\ \A f \in DOMAIN files : Opened(w, files)[f] = files[f]
      /\ w \notin DOMAIN files => Opened(w, files)[w] = <<>>
      /\ \A f \in DOMAIN Opened(w, files) : Opened(w, files)[f] \in Seq(1..MaxRec)
  BY <1>1, OpenedLemma
<1>3. Len(<<>>) = 0 /\ 1..0 = {}
  OBVIOUS
<1> QED
  BY <1>2, <1>3 DEF In

(* What waits goes on waiting where neither files nor positions change.      *)
LEMMA WaitsSame ==
  ASSUME NEW x, Waits(x), UNCHANGED <<files, readindex, writeindex, rd, pos, offset>>,
         pc # "off", sent \subseteq sent', lost \subseteq lost',
         Hand \subseteq Hand' \cup sent' \cup lost', pc' # "off"
  PROVE  Waits(x)'
  BY DEF Waits, Ahead, NextOne

-----------------------------------------------------------------------------
(* Steps that leave the card and the position alone. *)
LEMMA QuietStays ==
  ASSUME IInv, SInv, NoRecord \/ LiveSend \/ NoDrain \/ Connect \/ LinkLoss
  PROVE  SInv'
<1>1. /\ UNCHANGED <<files, readindex, writeindex, rd, fileexist, pos, offset, bak, bakFile, saveBuf,
                     next, cont, saved, strayed, torn>>
      /\ pc # "off" /\ pc # "fault"
      /\ pc' = pc \/ (pc \in {"buffer", "drain"} /\ pc' \in {"buffer", "drain"})
      /\ buf' \in {buf, 0} /\ sent \subseteq sent' /\ lost \subseteq lost'
  BY DEF NoRecord, LiveSend, NoDrain, Connect, LinkLoss, Running, Taken, card, info, reading, link,
         producer, bounds, history, None
<1>2. Hand' = Hand
  BY <1>1 DEF Hand
<1>3. NumbersOK'
  BY <1>1, SameFiles, FileTypes DEF IInv, SInv, NumbersOK, None
<1>4. HandOK' /\ OffsetOK' /\ ReaderOK'
  BY <1>1 DEF SInv, HandOK, Running, Deleted, In, OffsetOK, InUse, Leaving, ReaderOK, Left
<1>5. Clean => PlaceOK'
  BY <1>1 DEF SInv, PlaceOK, InUse, NextOne, BackOne, Backs, In
<1>6. Clean => Covered'
  BY <1>1, <1>2, WaitsSame DEF SInv, Covered
<1> QED
  BY <1>1, <1>3, <1>4, <1>5, <1>6 DEF SInv, Clean

LEMMA ProduceStays == ASSUME IInv, SInv, Produce PROVE SInv'
<1>1. /\ UNCHANGED <<files, readindex, writeindex, rd, fileexist, pos, offset, bak, bakFile, saveBuf,
                     pc, cont, saved, sent, lost, strayed, torn>>
      /\ pc # "off" /\ buf' = next /\ next' = next + 1
  BY DEF Produce, Running, card, info, reading, link, bounds, history
<1>2. Hand' = Hand
  BY <1>1 DEF Hand
<1>3. NumbersOK'
  <2>1. next < next + 1 /\ \A n \in Nat : n < next => n < next + 1 /\ n # next
    BY FileTypes DEF IInv
  <2>2. \A f \in DOMAIN files : In(f) \subseteq Nat /\ In(f)' = In(f)
    BY <1>1, FileTypes, SMTT(20) DEF IInv, In
  <2> QED
    BY <1>1, <2>1, <2>2, FileTypes DEF IInv, SInv, NumbersOK
<1>4. HandOK' /\ OffsetOK' /\ ReaderOK'
  BY <1>1 DEF SInv, HandOK, Running, Deleted, In, OffsetOK, InUse, Leaving, ReaderOK, Left
<1>5. Clean => PlaceOK'
  BY <1>1 DEF SInv, PlaceOK, InUse, NextOne, BackOne, Backs, In
<1>6. Clean => Covered'
  BY <1>1, <1>2, WaitsSame DEF SInv, Covered
<1> QED
  BY <1>1, <1>3, <1>4, <1>5, <1>6 DEF SInv, Clean

LEMMA CounterStays ==
  ASSUME IInv, SInv, SaveFileCounterOpen \/ SaveFileCounterClose
  PROVE  SInv'
<1>1. /\ UNCHANGED <<files, readindex, writeindex, rd, fileexist, pos, offset, bak, bakFile, saveBuf,
                     buf, next, cont, saved, sent, lost, strayed, torn>>
      /\ \/ pc = "truncate" /\ pc' = "write"
         \/ pc = "write" /\ pc' = cont
  BY DEF SaveFileCounterOpen, SaveFileCounterClose, info, reading, link, producer, bounds, history
<1>2. cont \in {"append", "open", "end"}
  BY DEF IInv, TypeOK, TaskTypes
<1>3. Hand' = Hand
  BY <1>1, <1>2 DEF Hand
<1>4. NumbersOK'
  BY <1>1, SameFiles DEF SInv, NumbersOK
<1>5. HandOK' /\ OffsetOK' /\ ReaderOK'
  BY <1>1, <1>2 DEF SInv, HandOK, Running, Deleted, In, OffsetOK, InUse, Leaving, ReaderOK, Left
<1>6. Clean => PlaceOK'
  BY <1>1, <1>2 DEF SInv, PlaceOK, InUse, NextOne, BackOne, Backs, In
<1>7. Clean => Covered'
  BY <1>1, <1>2, <1>3, WaitsSame DEF SInv, Covered
<1> QED
  BY <1>1, <1>4, <1>5, <1>6, <1>7 DEF SInv, Clean

-----------------------------------------------------------------------------
(* Power fails, and comes back. *)
LEMMA CrashStays == ASSUME IInv, SInv, Crash PROVE SInv'
<1>1. /\ UNCHANGED <<files, readindex, writeindex, rd, fileexist, pos, offset, bak, bakFile, saveBuf,
                     next, cont, saved, sent, strayed, torn>>
      /\ pc # "off" /\ pc' = "off" /\ buf' = 0
      /\ lost' = lost \cup ({buf} \ {None}) \cup (Hand \ (OnCard \cup sent))
  BY DEF Crash, Running, card, info, reading, None
<1>2. NumbersOK'
  BY <1>1, SameFiles, FileTypes DEF IInv, SInv, NumbersOK, None
<1>3. HandOK' /\ OffsetOK' /\ ReaderOK' /\ PlaceOK'
  BY <1>1 DEF SInv, HandOK, Running, Deleted, OffsetOK, InUse, Leaving, ReaderOK, Left, PlaceOK
<1>4. ASSUME NEW x, Waits(x) PROVE Waits(x)'
  <2>1. CASE x \in sent \/ x \in lost
    BY <1>1, <2>1 DEF Waits
  <2>2. CASE x \in Hand /\ x \in OnCard
    <3>1. PICK f \in DOMAIN files : \E k \in 1..Len(files[f]) : x = files[f][k]
      BY <2>2, CardLemma DEF IInv
    <3> QED
      BY <1>1, <3>1 DEF Waits
  <2>3. CASE x \in Hand /\ x \notin OnCard
    BY <1>1, <2>3 DEF Waits
  <2>4. CASE \E f \in DOMAIN files : \E k \in 1..Len(files[f]) : x = files[f][k]
    BY <1>1, <2>4 DEF Waits
  <2> QED
    BY <1>4, <2>1, <2>2, <2>3, <2>4 DEF Waits
<1>5. Clean => Covered'
  BY <1>1, <1>4 DEF SInv, Covered
<1> QED
  BY <1>1, <1>2, <1>3, <1>5 DEF SInv, Clean

LEMMA BootStays == ASSUME IInv, SInv, Boot PROVE SInv'
<1> DEFINE r == IF counter = <<>> THEN 0 ELSE counter[1]
           w == IF counter = <<>> THEN 0 ELSE counter[2]
           exist == r # 0 \/ 0 \in DOMAIN files
           open == exist \/ r # w
<1>1. /\ readindex' = r /\ writeindex' = w /\ fileexist' = exist
      /\ files' = IF open THEN Opened(r, Opened(w, files)) ELSE files
      /\ bakFile' = r
      /\ torn' = (\/ torn
                  \/ r # w /\ ~exist
                  \/ \E f \in DOMAIN files \ (r..w) : files[f] # <<>>)
      /\ pos' = 0 /\ offset' = 0 /\ bak' = 0 /\ saveBuf' = 0
      /\ pc = "off" /\ pc' = "buffer" /\ cont' = "append"
      /\ UNCHANGED <<buf, next, saved, sent, lost, strayed>>
  BY DEF Boot, producer, bounds, None
<1>2. IInv'
  BY BootKeeps
<1>3. r \in Nat /\ w \in Nat
  BY DEF IInv, TypeOK, CardTypes
<1> HIDE DEF r, w
<1>4. /\ DOMAIN files \subseteq DOMAIN files'
      /\ \A f \in DOMAIN files : files'[f] = files[f]
      /\ \A f \in DOMAIN files' \ DOMAIN files : files'[f] = <<>>
  <2>1. CASE open
    <3>0. \A f \in DOMAIN files : files[f] \in Seq(1..MaxRec)
      BY FileTypes DEF IInv
    <3> DEFINE fs == Opened(w, files)
    <3>1. /\ DOMAIN fs = DOMAIN files \cup {w}
          /\ \A f \in DOMAIN files : fs[f] = files[f]
          /\ w \notin DOMAIN files => fs[w] = <<>>
          /\ \A f \in DOMAIN fs : fs[f] \in Seq(1..MaxRec)
      BY <3>0, OpenedLemma
    <3> HIDE DEF fs
    <3>2. /\ DOMAIN Opened(r, fs) = DOMAIN fs \cup {r}
          /\ \A g \in DOMAIN fs : Opened(r, fs)[g] = fs[g]
          /\ r \notin DOMAIN fs => Opened(r, fs)[r] = <<>>
          /\ \A g \in DOMAIN Opened(r, fs) : Opened(r, fs)[g] \in Seq(1..MaxRec)
      BY <3>1, OpenedLemma
    <3>3. files' = Opened(r, fs)
      BY <1>1, <2>1 DEF fs
    <3> QED
      BY <3>1, <3>2, <3>3
  <2>2. CASE ~open
    BY <1>1, <2>2
  <2> QED
    BY <2>1, <2>2
<1>5. /\ \A f \in DOMAIN files : In(f)' = In(f)
      /\ \A f \in DOMAIN files' \ DOMAIN files : In(f)' = {}
  <2>1. Len(<<>>) = 0 /\ 1..0 = {}
    OBVIOUS
  <2> QED
    BY <1>4, <2>1 DEF In
<1>6. NumbersOK'
  <2>1. \A f \in DOMAIN files' : In(f)' \subseteq 1..MaxRec
    BY <1>4, <1>5, FileTypes DEF IInv
  <2> QED
    BY <1>1, <1>4, <1>5, <2>1, FileTypes DEF IInv, SInv, NumbersOK, None
<1>7. HandOK'
  <2>1. \A f \in DOMAIN files' : 0 \notin In(f)'
    BY <1>4, <1>5, FileTypes DEF IInv
  <2> QED
    BY <1>1, <2>1 DEF HandOK, Deleted
<1>8. OffsetOK' /\ ReaderOK'
  <2>1. ~fileexist' => r = 0
    BY <1>1
  <2> QED
    BY <1>1, <1>3, <2>1 DEF OffsetOK, Leaving, ReaderOK, Left
<1>9. NextOne' = 1 /\ BackOne' = 1
  BY <1>1, FirstLemma DEF NextOne, BackOne
<1>10. Clean' => PlaceOK'
  <2>1. Clean' /\ InUse' => readindex' \in DOMAIN files'
    BY <1>1, <1>2 DEF Clean, IInv, Good, HandlesOK, Matching, Mistaken
  <2>2. Clean' /\ InUse' => Len(files'[readindex']) \in Nat
    BY <1>4, <2>1, FileTypes DEF IInv
  <2> QED
    BY <1>1, <1>9, <2>2 DEF PlaceOK
<1>11. Clean' => Covered'
  <2> SUFFICES ASSUME Clean', NEW x \in saved PROVE Waits(x)'
    BY <1>1 DEF Covered
  <2>1. Waits(x) /\ ~torn'
    BY <1>1 DEF Clean, SInv, Covered
  <2>2. CASE x \in sent \/ x \in lost
    BY <1>1, <2>2 DEF Waits
  <2>3. CASE \E f \in DOMAIN files : \E k \in 1..Len(files[f]) : x = files[f][k]
    <3>1. PICK f \in DOMAIN files : \E k \in 1..Len(files[f]) : x = files[f][k]
      BY <2>3
    <3>2. files[f] # <<>>
      BY <3>1
    <3>3. f \in r..w
      BY <1>1, <2>1, <3>2
    <3>4. Ahead(f)' = 1 /\ f \in DOMAIN files' /\ files'[f] = files[f]
      BY <1>4, <1>9 DEF Ahead
    <3>5. \E k \in 1..Len(files'[f]) : x = files'[f][k] /\ k >= Ahead(f)'
      BY <3>1, <3>4, FileTypes DEF IInv
    <3> QED
      BY <1>1, <3>3, <3>4, <3>5 DEF Waits
  <2> QED
    BY <1>1, <2>1, <2>2, <2>3 DEF Waits
<1> QED
  BY <1>6, <1>7, <1>8, <1>10, <1>11 DEF SInv

-----------------------------------------------------------------------------
(* The record in the upload buffer goes to the card. *)
LEMMA OpenFirstStays == ASSUME IInv, SInv, OpenFirst PROVE SInv'
<1>1. /\ UNCHANGED <<readindex, writeindex, offset, bak, bakFile, saveBuf, buf, next, pc, cont, saved,
                     sent, lost, strayed, torn>>
      /\ pc = "buffer" /\ ~fileexist /\ fileexist' = TRUE
      /\ files' = Opened(0, files) /\ rd' = 0 /\ wr' = 0 /\ pos' = 0
  BY DEF OpenFirst, link, producer, bounds, history
<1>2. /\ DOMAIN files' = DOMAIN files \cup {0}
      /\ \A f \in DOMAIN files : files'[f] = files[f] /\ In(f)' = In(f)
      /\ \A f \in DOMAIN files' : f \notin DOMAIN files => files'[f] = <<>> /\ In(f)' = {}
  BY <1>1, OpenedFiles DEF IInv
<1>3. offset = 0 /\ bak = 0 /\ bakFile = 0 /\ readindex = 0
  BY <1>1 DEF SInv, OffsetOK, IInv, Good, EmptyOK, Running
<1>4. NumbersOK'
  BY <1>1, <1>2 DEF SInv, NumbersOK
<1>5. HandOK'
  BY <1>1, <1>2 DEF SInv, HandOK, Running, Deleted
<1>6. OffsetOK' /\ ReaderOK'
  BY <1>1, <1>3 DEF OffsetOK, Leaving, ReaderOK, Left
<1>7. NextOne' = 1 /\ BackOne' = 1
  BY <1>1, <1>3, FirstLemma DEF NextOne, BackOne
<1>8. PlaceOK'
  <2>1. files'[0] \in Seq(1..MaxRec)
    <3>1. IInv'
      BY OpenFirstKeeps
    <3> QED
      BY <1>2, <3>1 DEF IInv, TypeOK, CardTypes
  <2>2. Len(files'[0]) \in Nat
    BY <2>1
  <2> QED
    BY <1>1, <1>3, <1>7, <2>2 DEF PlaceOK
<1>9. ASSUME NEW x, Waits(x) PROVE Waits(x)'
  <2>1. Hand' = Hand
    BY <1>1 DEF Hand
  <2>2. ASSUME NEW f \in DOMAIN files, NEW k \in 1..Len(files[f]), x = files[f][k],
               f \in readindex..writeindex
        PROVE  Waits(x)'
    <3>1. f \in DOMAIN files' /\ files'[f] = files[f] /\ k >= Ahead(f)'
      BY <1>2, <1>7, FileTypes DEF IInv, Ahead
    <3> QED
      BY <1>1, <2>2, <3>1 DEF Waits
  <2> QED
    BY <1>1, <1>9, <2>1, <2>2 DEF Waits
<1>10. Clean => Covered'
  BY <1>1, <1>9 DEF SInv, Covered
<1> QED
  BY <1>1, <1>4, <1>5, <1>6, <1>8, <1>10 DEF SInv, Clean

LEMMA RolloverStays == ASSUME IInv, SInv, Rollover PROVE SInv'
<1>1. /\ UNCHANGED <<readindex, rd, fileexist, pos, offset, bak, bakFile, saveBuf, buf, next, saved,
                     sent, lost, strayed, torn>>
      /\ pc = "buffer" /\ fileexist
      /\ writeindex' = writeindex + 1 /\ files' = Opened(writeindex + 1, files)
      /\ pc' = "truncate" /\ cont' = "append"
  BY DEF Rollover, Saving, reading, link, producer, bounds, history
<1>2. /\ DOMAIN files' = DOMAIN files \cup {writeindex + 1}
      /\ \A f \in DOMAIN files : files'[f] = files[f] /\ In(f)' = In(f)
      /\ \A f \in DOMAIN files' : f \notin DOMAIN files => files'[f] = <<>> /\ In(f)' = {}
  BY <1>1, OpenedFiles DEF IInv
<1>3. NumbersOK'
  BY <1>1, <1>2 DEF SInv, NumbersOK
<1>4. HandOK'
  BY <1>1, <1>2 DEF SInv, HandOK, Running, Deleted
<1>5. OffsetOK' /\ ReaderOK'
  BY <1>1 DEF SInv, OffsetOK, Running, InUse, Leaving, ReaderOK, Left
<1>6. Clean => PlaceOK'
  <2>1. Clean => readindex \in DOMAIN files
    BY <1>1 DEF Clean, IInv, Good, HandlesOK, InUse, Matching, Mistaken
  <2>2. NextOne' = NextOne /\ BackOne' = BackOne /\ (Backs' <=> Backs)
    BY <1>1 DEF NextOne, BackOne, Backs
  <2> QED
    BY <1>1, <1>2, <2>1, <2>2 DEF SInv, PlaceOK, InUse
<1>7. ASSUME NEW x, Waits(x) PROVE Waits(x)'
  <2>1. Hand' = Hand
    BY <1>1 DEF Hand
  <2>2. ASSUME NEW f \in DOMAIN files, NEW k \in 1..Len(files[f]), x = files[f][k],
               f \in readindex..writeindex, k >= Ahead(f)
        PROVE  Waits(x)'
    <3>1. f \in DOMAIN files' /\ files'[f] = files[f] /\ Ahead(f)' = Ahead(f)
          /\ f \in readindex'..writeindex'
      BY <1>1, <1>2, <2>2, FileTypes DEF IInv, Ahead, NextOne
    <3> QED
      BY <1>1, <2>2, <3>1 DEF Waits
  <2> QED
    BY <1>1, <1>7, <2>1, <2>2 DEF Waits
<1>8. Clean => Covered'
  BY <1>1, <1>7 DEF SInv, Covered
<1> QED
  BY <1>1, <1>3, <1>4, <1>5, <1>6, <1>8 DEF SInv, Clean

LEMMA SavedFiles ==
  ASSUME IInv, SaveData2SdCard
  PROVE  /\ UNCHANGED <<readindex, writeindex, fileexist, pos, offset, bak, bakFile, saveBuf, next,
                        cont, sent, lost, strayed, torn>>
         /\ pc \in {"buffer", "append"} /\ fileexist
         /\ rd' = IF readindex = writeindex THEN writeindex ELSE rd
         /\ saved' = saved \cup {buf} /\ buf' = 0 /\ buf \in 1..MaxRec
         /\ pc' = IF rd = wr /\ readindex # writeindex THEN "fault" ELSE "drain"
         /\ Matching \/ Mistaken
         /\ wr \in DOMAIN files /\ DOMAIN files' = DOMAIN files \cup {writeindex}
         /\ files'[wr] = Append(files[wr], buf)
         /\ \A f \in DOMAIN files : f # wr => files'[f] = files[f] /\ In(f)' = In(f)
         /\ \A f \in DOMAIN files' : f \notin DOMAIN files => files'[f] = <<>> /\ In(f)' = {}
         /\ Len(files[wr]) \in Nat /\ Len(files'[wr]) = Len(files[wr]) + 1
         /\ files'[wr][Len(files[wr]) + 1] = buf
         /\ \A k \in 1..Len(files[wr]) : files'[wr][k] = files[wr][k]
         /\ \A f \in DOMAIN files : In(f)' \subseteq In(f) \cup {buf}
<1> DEFINE fs == [files EXCEPT ![wr] = Append(@, buf)]
<1>1. /\ UNCHANGED <<readindex, writeindex, fileexist, pos, offset, bak, bakFile, saveBuf, next, cont,
                     sent, lost, strayed, torn>>
      /\ pc \in {"buffer", "append"} /\ fileexist
      /\ files' = Opened(writeindex, fs)
      /\ rd' = IF readindex = writeindex THEN writeindex ELSE rd
      /\ saved' = saved \cup {buf} /\ buf' = 0
      /\ pc' = IF rd = wr /\ readindex # writeindex THEN "fault" ELSE "drain"
  BY DEF SaveData2SdCard, Saving, reading, link, bounds, IInv, Good, ChangeOK, None
<1>2. Matching \/ Mistaken
  BY <1>1 DEF IInv, Good, HandlesOK, InUse
<1>3. wr \in DOMAIN files
  BY <1>2 DEF Matching, Mistaken
<1>4. buf \in 1..MaxRec /\ buf # None
  <2>1. buf # 0
    BY DEF SaveData2SdCard, Saving, IInv, Good, BufferOK, Saves, None
  <2> QED
    BY <2>1 DEF IInv, TypeOK, TaskTypes, None
<1>5. \A f \in DOMAIN files : files[f] \in Seq(1..MaxRec)
  BY FileTypes DEF IInv
<1>6. /\ DOMAIN fs = DOMAIN files
      /\ fs[wr] = Append(files[wr], buf)
      /\ \A f \in DOMAIN files : f # wr => fs[f] = files[f]
      /\ \A f \in DOMAIN fs : fs[f] \in Seq(1..MaxRec)
  <2>1. Append(files[wr], buf) \in Seq(1..MaxRec)
    BY <1>3, <1>4, <1>5
  <2> QED
    BY <1>3, <1>5, <2>1
<1>7. /\ DOMAIN files' = DOMAIN files \cup {writeindex}
      /\ files'[wr] = Append(files[wr], buf)
      /\ \A f \in DOMAIN files : f # wr => files'[f] = files[f]
      /\ \A f \in DOMAIN files' : f \notin DOMAIN files => files'[f] = <<>>
  <2> HIDE DEF fs
  <2>1. files' = Opened(writeindex, fs)
    BY <1>1
  <2>2. /\ DOMAIN Opened(writeindex, fs) = DOMAIN fs \cup {writeindex}
        /\ \A f \in DOMAIN fs : Opened(writeindex, fs)[f] = fs[f]
        /\ writeindex \notin DOMAIN fs => Opened(writeindex, fs)[writeindex] = <<>>
        /\ \A f \in DOMAIN Opened(writeindex, fs) : Opened(writeindex, fs)[f] \in Seq(1..MaxRec)
    BY <1>6, OpenedLemma
  <2> QED
    BY <1>3, <1>6, <2>1, <2>2
<1> HIDE DEF fs
<1>8. /\ Len(files[wr]) \in Nat /\ Len(files'[wr]) = Len(files[wr]) + 1
      /\ files'[wr][Len(files[wr]) + 1] = buf
      /\ \A k \in 1..Len(files[wr]) : files'[wr][k] = files[wr][k]
  BY <1>3, <1>4, <1>5, <1>7
<1>9. /\ \A f \in DOMAIN files : In(f)' \subseteq In(f) \cup {buf}
      /\ \A f \in DOMAIN files : f # wr => In(f)' = In(f)
      /\ \A f \in DOMAIN files' : f \notin DOMAIN files => In(f)' = {}
  <2>1. \A f \in DOMAIN files : f # wr => In(f)' = In(f)
    BY <1>7 DEF In
  <2>2. \A f \in DOMAIN files' : f \notin DOMAIN files => In(f)' = {}
    <3>1. Len(<<>>) = 0 /\ 1..0 = {}
      OBVIOUS
    <3> QED
      BY <1>7, <3>1 DEF In
  <2>3. ASSUME NEW f, f = wr
        PROVE  In(f)' \subseteq In(f) \cup {buf}
    <3> SUFFICES ASSUME NEW k \in 1..Len(files'[wr]) PROVE files'[wr][k] \in In(wr) \cup {buf}
      BY <2>3 DEF In
    <3>1. k \in 1..Len(files[wr]) \/ k = Len(files[wr]) + 1
      BY <1>8
    <3> QED
      BY <1>8, <3>1 DEF In
  <2> QED
    BY <2>1, <2>2, <2>3
<1> QED
  BY <1>1, <1>2, <1>3, <1>4, <1>7, <1>8, <1>9

LEMMA SaveStays == ASSUME IInv, SInv, SaveData2SdCard PROVE SInv'
<1>1. /\ UNCHANGED <<readindex, writeindex, fileexist, pos, offset, bak, bakFile, saveBuf, next, cont,
                     sent, lost, strayed, torn>>
      /\ pc \in {"buffer", "append"} /\ fileexist
      /\ rd' = IF readindex = writeindex THEN writeindex ELSE rd
      /\ saved' = saved \cup {buf} /\ buf' = 0
      /\ pc' = IF rd = wr /\ readindex # writeindex THEN "fault" ELSE "drain"
  BY SavedFiles
<1>2. Matching \/ Mistaken
  BY SavedFiles
<1>4. buf \in 1..MaxRec /\ buf # None
  BY SavedFiles DEF None
<1>5. \A f \in DOMAIN files : files[f] \in Seq(1..MaxRec)
  BY FileTypes DEF IInv
<1>3. wr \in DOMAIN files
  BY SavedFiles
<1>7. /\ DOMAIN files' = DOMAIN files \cup {writeindex}
      /\ files'[wr] = Append(files[wr], buf)
      /\ \A f \in DOMAIN files : f # wr => files'[f] = files[f]
      /\ \A f \in DOMAIN files' : f \notin DOMAIN files => files'[f] = <<>>
  BY SavedFiles
<1>8. /\ Len(files[wr]) \in Nat /\ Len(files'[wr]) = Len(files[wr]) + 1
      /\ files'[wr][Len(files[wr]) + 1] = buf
      /\ \A k \in 1..Len(files[wr]) : files'[wr][k] = files[wr][k]
  BY SavedFiles
<1>9. /\ \A f \in DOMAIN files : In(f)' \subseteq In(f) \cup {buf}
      /\ \A f \in DOMAIN files : f # wr => In(f)' = In(f)
      /\ \A f \in DOMAIN files' : f \notin DOMAIN files => In(f)' = {}
  BY SavedFiles
<1>10. NumbersOK'
  <2>1. /\ buf < next /\ saveBuf < next /\ \A f \in DOMAIN files : \A x \in In(f) : x < next
        /\ \A f \in DOMAIN files : buf \notin In(f)
        /\ \A f, g \in DOMAIN files : f # g => In(f) \cap In(g) = {}
        /\ next \in Nat /\ buf \in Nat /\ buf # 0
    BY <1>4, FileTypes DEF IInv, SInv, NumbersOK, None
  <2>2. buf' < next' /\ saveBuf' < next' /\ buf' = None
    BY <1>1, <2>1 DEF None
  <2>3. \A f \in DOMAIN files' : \A x \in In(f)' : x < next'
    BY <1>1, <1>9, <2>1
  <2>4. ASSUME NEW f \in DOMAIN files', NEW g \in DOMAIN files', f # g
        PROVE  In(f)' \cap In(g)' = {}
    <3>1. CASE f \notin DOMAIN files \/ g \notin DOMAIN files
      BY <1>9, <2>4, <3>1
    <3>2. CASE f \in DOMAIN files /\ g \in DOMAIN files
      <4>1. In(f)' = In(f) \/ In(g)' = In(g)
        BY <1>9, <2>4, <3>2
      <4>2. In(f)' \subseteq In(f) \cup {buf} /\ In(g)' \subseteq In(g) \cup {buf}
        BY <1>9, <3>2
      <4> QED
        BY <2>1, <2>4, <3>2, <4>1, <4>2
    <3> QED
      BY <3>1, <3>2
  <2> QED
    BY <2>2, <2>3, <2>4 DEF NumbersOK
<1>11. HandOK'
  BY <1>1, <1>4, <1>7, <1>9 DEF SInv, NumbersOK, HandOK, Running, Deleted
<1>12. OffsetOK' /\ ReaderOK'
  BY <1>1 DEF SInv, OffsetOK, Running, InUse, Leaving, ReaderOK, Left
<1>13. Clean => Matching /\ pc' = "drain" /\ rd' = readindex
  BY <1>1, <1>2 DEF Clean, Matching, Mistaken
<1>14. NextOne' = NextOne /\ BackOne' = BackOne /\ (Backs' <=> Backs)
  BY <1>1 DEF NextOne, BackOne, Backs
<1>15. Clean => PlaceOK'
  <2> SUFFICES ASSUME Clean PROVE PlaceOK'
    OBVIOUS
  <2>1. InUse /\ readindex \in DOMAIN files /\ pc' = "drain"
    BY <1>1, <1>13 DEF InUse, Matching
  <2>2. NextOne <= Len(files[readindex]) + 1 /\ (Backs => BackOne <= NextOne)
    BY <2>1 DEF SInv, PlaceOK
  <2>3. Len(files[readindex]) \in Nat /\ Len(files[readindex]) <= Len(files'[readindex])
        /\ Len(files'[readindex]) \in Nat
    <3>1. CASE readindex = wr
      BY <1>8, <3>1
    <3>2. CASE readindex # wr
      <4>1. files'[readindex] = files[readindex]
        BY <1>7, <2>1, <3>2
      <4>2. Len(files[readindex]) \in Nat
        BY <1>5, <2>1
      <4> QED
        BY <4>1, <4>2
    <3> QED
      BY <3>1, <3>2
  <2> QED
    BY <1>1, <1>14, <2>1, <2>2, <2>3, FileTypes DEF IInv, PlaceOK
<1>16. Clean => Covered'
  <2> SUFFICES ASSUME Clean PROVE Covered'
    OBVIOUS
  <2>1. /\ wr = writeindex /\ rd = readindex /\ rd' = readindex /\ pc' = "drain"
        /\ readindex \in Nat /\ writeindex \in Nat /\ readindex <= writeindex /\ InUse
    BY <1>1, <1>13, FileTypes DEF IInv, Matching, InUse
  <2>2. \A f : Ahead(f)' = Ahead(f)
    BY <1>1, <1>14, <2>1 DEF Ahead
  <2>3. ASSUME NEW f, f = wr, NEW x, x = buf
        PROVE  Waits(x)'
    <3>0. NextOne <= Len(files[readindex]) + 1 /\ NextOne \in Nat
      BY <2>1, FileTypes DEF IInv, SInv, PlaceOK
    <3>1. Ahead(f) <= Len(files[f]) + 1 /\ Ahead(f) \in Nat
      BY <1>8, <2>3, <3>0 DEF Ahead
    <3>2. /\ f \in DOMAIN files' /\ f \in readindex'..writeindex'
          /\ Len(files[f]) + 1 \in 1..Len(files'[f])
          /\ Len(files[f]) + 1 >= Ahead(f)'
          /\ x = files'[f][Len(files[f]) + 1]
      BY <1>1, <1>3, <1>7, <1>8, <2>1, <2>2, <2>3, <3>1
    <3> QED
      BY <3>2 DEF Waits
  <2>4. ASSUME NEW x \in saved PROVE Waits(x)'
    <3>1. Waits(x)
      BY DEF SInv, Covered
    <3>2. CASE x \in sent \/ x \in lost
      BY <1>1, <3>2 DEF Waits
    <3>3. x \notin Hand
      BY <1>1 DEF Hand
    <3>4. ASSUME NEW f \in DOMAIN files, NEW k \in 1..Len(files[f]), x = files[f][k],
                 f \in readindex..writeindex, k >= Ahead(f)
          PROVE  Waits(x)'
      <4>1. f \in DOMAIN files' /\ k \in 1..Len(files'[f]) /\ x = files'[f][k]
        BY <1>7, <1>8, <3>4
      <4> QED
        BY <1>1, <2>2, <3>4, <4>1 DEF Waits
    <3> QED
      BY <1>1, <3>1, <3>2, <3>3, <3>4 DEF Waits
  <2> QED
    BY <1>1, <2>3, <2>4 DEF Covered
<1> QED
  BY <1>1, <1>10, <1>11, <1>12, <1>15, <1>16 DEF SInv, Clean

-----------------------------------------------------------------------------
(* The records on the card are read. *)
LEMMA ReadStays == ASSUME IInv, SInv, ReadRecord PROVE SInv'
<1> DEFINE n == Len(files[rd])
<1>1. /\ UNCHANGED <<files, readindex, writeindex, rd, fileexist, bak, bakFile, buf, next, cont, saved,
                     sent, lost, strayed, torn>>
      /\ pc = "drain" /\ fileexist
      /\ \/ /\ NextOne <= n
            /\ saveBuf' = files[rd][NextOne] /\ pos' = NextOne * R
            /\ offset' = IF pos % R = 0 THEN offset + R - 1 ELSE NextOne * R
            /\ pc' = "send" \/ (pc' = "delete" /\ NextOne = n)
         \/ /\ NextOne > n
            /\ UNCHANGED <<saveBuf, pos, offset>>
            /\ pc' = "delete"
  <2>1. n \in Nat /\ NextOne \in Nat
    <3>1. rd \in DOMAIN files
      BY DEF ReadRecord, IInv, Good, HandlesOK, InUse, Matching, Mistaken
    <3> QED
      BY <3>1, FileTypes DEF IInv
  <2> QED
    BY <2>1 DEF ReadRecord, NextOne, card, info, link, producer, bounds, history
<1>2. Matching /\ InUse
  BY <1>1 DEF IInv, Good, HandlesOK, InUse, Mistaken
<1>3. /\ rd = readindex /\ readindex \in DOMAIN files /\ files[rd] \in Seq(1..MaxRec) /\ n \in Nat
      /\ NextOne \in Nat \ {0} /\ BackOne \in Nat \ {0} /\ pos \in Nat /\ offset \in Nat
  BY <1>2, FileTypes DEF IInv, Matching
<1>4. NextOne <= n => saveBuf' \in In(readindex) /\ saveBuf' \in 1..MaxRec
  BY <1>1, <1>3 DEF In
<1> HIDE DEF n
<1>5. NumbersOK'
  <2>1. saveBuf' = saveBuf \/ saveBuf' \in In(readindex)
    BY <1>1, <1>3, <1>4
  <2> QED
    BY <1>1, <1>3, <2>1, SameFiles DEF SInv, NumbersOK
<1>6. HandOK'
  <2>1. \A f \in DOMAIN files : f # readindex => saveBuf \notin In(f)
    BY <1>1 DEF SInv, HandOK, Running
  <2>2. \A f \in DOMAIN files : f # readindex => In(f) \cap In(readindex) = {}
    BY <1>3 DEF SInv, NumbersOK
  <2>3. \A f \in DOMAIN files : f # readindex => saveBuf' \notin In(f)
    BY <1>1, <1>3, <1>4, <2>1, <2>2
  <2> QED
    BY <1>1, <2>3, SameFiles DEF HandOK, Deleted
<1>7. NextOne <= n => /\ NextOne' = NextOne + 1 /\ pos' % R = 0 /\ pos' \in Nat
                      /\ offset' <= pos' /\ offset' \in Nat
  <2> SUFFICES ASSUME NextOne <= n
               PROVE  /\ NextOne' = NextOne + 1 /\ pos' % R = 0 /\ pos' \in Nat
                      /\ offset' <= pos' /\ offset' \in Nat
    OBVIOUS
  <2>1. pos' = NextOne * R /\ NextOne * R \in Nat /\ (NextOne * R) % R = 0
    BY <1>1, <1>3, HeaderLemma
  <2>2. offset <= pos
    BY <1>1 DEF SInv, OffsetOK, Running
  <2>3. pos % R = 0 => offset + R - 1 <= NextOne * R
    BY <1>3, <2>2, LagLemma DEF NextOne
  <2>4. offset + R - 1 \in Nat
    BY <1>3
  <2>5. offset' <= pos' /\ offset' \in Nat
    <3>1. offset' = IF pos % R = 0 THEN offset + R - 1 ELSE NextOne * R
      BY <1>1, <1>3
    <3>2. CASE pos % R = 0
      BY <2>1, <2>3, <2>4, <3>1, <3>2
    <3>3. CASE pos % R # 0
      <4>1. offset' = NextOne * R
        BY <3>1, <3>3
      <4> DEFINE there == NextOne * R
      <4>2. there \in Nat /\ offset' = there /\ pos' = there
        BY <2>1, <4>1
      <4> HIDE DEF there
      <4> QED
        BY <4>2
    <3> QED
      BY <3>2, <3>3
  <2>6. Record(pos', offset') = NextOne + 1
    BY <1>3, <2>1, <2>5, HeaderLemma
  <2> QED
    BY <2>1, <2>5, <2>6 DEF NextOne
<1>8. OffsetOK' /\ ReaderOK'
  BY <1>1, <1>2, <1>3, <1>7 DEF SInv, OffsetOK, Running, InUse, Leaving, ReaderOK, Left
<1>9. BackOne' = BackOne /\ (Backs' <=> Backs)
  BY <1>1 DEF BackOne, Backs
<1>10. NextOne > n => NextOne' = NextOne
  BY <1>1, <1>3 DEF NextOne
<1>11. Clean => PlaceOK'
  <2> SUFFICES ASSUME Clean PROVE PlaceOK'
    OBVIOUS
  <2>1. NextOne <= n + 1 /\ (Backs => BackOne <= NextOne)
    BY <1>2, <1>3 DEF SInv, PlaceOK, n
  <2>2. CASE NextOne <= n
    <3>1. saveBuf' = files[readindex][NextOne]
      BY <1>1, <1>3, <2>2
    <3> QED
      BY <1>1, <1>3, <1>7, <1>9, <2>1, <2>2, <3>1 DEF PlaceOK, n
  <2>3. CASE NextOne > n
    BY <1>1, <1>3, <1>9, <1>10, <2>1, <2>3 DEF PlaceOK, n
  <2> QED
    BY <1>3, <2>2, <2>3
<1>12. ASSUME NEW x, Waits(x) PROVE Waits(x)'
  <2>1. x \notin Hand
    BY <1>1 DEF Hand
  <2>2. CASE x \in sent \/ x \in lost
    BY <1>1, <2>2 DEF Waits
  <2>3. ASSUME NEW f \in DOMAIN files, NEW k \in 1..Len(files[f]), x = files[f][k],
               f \in readindex..writeindex, k >= Ahead(f)
        PROVE  Waits(x)'
    <3>1. CASE f = readindex /\ k = NextOne
      <4>1. NextOne <= n /\ x = saveBuf' /\ x # None
        BY <1>1, <1>3, <1>4, <2>3, <3>1 DEF n, None
      <4>2. x \in Hand'
        BY <1>1, <4>1 DEF Hand
      <4> QED
        BY <1>1, <4>2 DEF Waits
    <3>2. CASE ~(f = readindex /\ k = NextOne)
      <4>1. k >= Ahead(f)'
        BY <1>1, <1>3, <1>7, <1>10, <2>3, <3>2 DEF Ahead
      <4> QED
        BY <1>1, <2>3, <4>1 DEF Waits
    <3> QED
      BY <3>1, <3>2
  <2> QED
    BY <1>1, <1>12, <2>1, <2>2, <2>3 DEF Waits
<1>13. Clean => Covered'
  BY <1>1, <1>12 DEF SInv, Covered
<1> QED
  BY <1>1, <1>5, <1>6, <1>8, <1>11, <1>13 DEF SInv, Clean

LEMMA DeleteStays == ASSUME IInv, SInv, DeleteFile PROVE SInv'
<1>1. /\ UNCHANGED <<readindex, writeindex, rd, fileexist, pos, offset, bak, bakFile, saveBuf, buf, next,
                     cont, saved, sent, lost, strayed, torn>>
      /\ pc = "delete" /\ pc' = "index" /\ fileexist
      /\ files' = [f \in DOMAIN files \ {readindex} |-> files[f]]
  BY DEF DeleteFile, info, reading, link, producer, bounds, history, IInv, Good, ChangeOK
<1>2. Matching /\ InUse
  BY <1>1 DEF IInv, Good, HandlesOK, InUse, Mistaken
<1>3. /\ DOMAIN files' = DOMAIN files \ {readindex}
      /\ \A f \in DOMAIN files' : files'[f] = files[f]
  BY <1>1
<1>4. \A f \in DOMAIN files' : In(f)' = In(f)
  BY <1>3 DEF In
<1>5. NumbersOK'
  BY <1>1, <1>3, <1>4 DEF SInv, NumbersOK
<1>6. HandOK'
  BY <1>1, <1>3, <1>4 DEF SInv, HandOK, Running
<1>7. OffsetOK' /\ ReaderOK'
  BY <1>1, <1>2, <1>3 DEF SInv, OffsetOK, Running, Leaving, ReaderOK, Left, Matching, InUse
<1>8. PlaceOK'
  BY <1>1 DEF PlaceOK, InUse
<1>9. ASSUME Clean, NEW x, Waits(x) PROVE Waits(x)'
  <2>1. Hand' = Hand
    BY <1>1 DEF Hand
  <2>2. ASSUME NEW f \in DOMAIN files, NEW k \in 1..Len(files[f]), x = files[f][k],
               f \in readindex..writeindex, k >= Ahead(f)
        PROVE  Waits(x)'
    <3>1. f # readindex
      <4>1. NextOne > Len(files[readindex]) /\ rd = readindex /\ NextOne \in Nat
        BY <1>1, <1>2, <1>9, FileTypes DEF IInv, SInv, PlaceOK, Matching
      <4>2. Len(files[f]) \in Nat
        BY FileTypes DEF IInv
      <4> QED
        BY <2>2, <4>1, <4>2 DEF Ahead
    <3>2. f \in DOMAIN files' /\ files'[f] = files[f] /\ Ahead(f)' = Ahead(f)
      BY <1>1, <1>3, <3>1 DEF Ahead
    <3> QED
      BY <1>1, <2>2, <3>2 DEF Waits
  <2> QED
    BY <1>1, <1>9, <2>1, <2>2 DEF Waits
<1>10. Clean => Covered'
  BY <1>1, <1>9 DEF SInv, Covered
<1> QED
  BY <1>1, <1>5, <1>6, <1>7, <1>8, <1>10 DEF SInv, Clean

LEMMA AdvanceStays == ASSUME IInv, SInv, AdvanceIndex PROVE SInv'
<1>1. /\ UNCHANGED <<files, fileexist, pos, offset, bak, bakFile, saveBuf, buf, next, saved, sent, lost,
                     strayed, torn>>
      /\ pc = "index" /\ pc' = "truncate" /\ fileexist
      /\ \/ /\ readindex = writeindex /\ readindex' = 0 /\ writeindex' = 0 /\ rd' = NoFile
            /\ cont' = "end"
         \/ /\ readindex # writeindex /\ readindex' = readindex + 1 /\ cont' = "open"
            /\ UNCHANGED <<writeindex, rd>>
  BY DEF AdvanceIndex, card, reading, link, producer, bounds, history, IInv, Good, ChangeOK
<1>2. rd = readindex /\ readindex \notin DOMAIN files /\ bakFile <= readindex
  BY <1>1 DEF SInv, ReaderOK, OffsetOK
<1>3. NumbersOK'
  BY <1>1, SameFiles DEF SInv, NumbersOK
<1>4. HandOK'
  BY <1>1, SameFiles DEF SInv, HandOK, Deleted
<1>5. OffsetOK' /\ ReaderOK'
  BY <1>1, <1>2, FileTypes DEF IInv, SInv, OffsetOK, Running, InUse, Leaving, ReaderOK, Left
<1>6. PlaceOK'
  BY <1>1 DEF PlaceOK, InUse
<1>7. ASSUME NEW x, Waits(x) PROVE Waits(x)'
  <2>1. Hand' = Hand
    BY <1>1 DEF Hand
  <2>2. ASSUME NEW f \in DOMAIN files, NEW k \in 1..Len(files[f]), x = files[f][k],
               f \in readindex..writeindex, k >= Ahead(f)
        PROVE  Waits(x)'
    <3>1. f # readindex /\ f \in Nat /\ readindex \in Nat /\ writeindex \in Nat
      BY <1>2, FileTypes DEF IInv
    <3>2. f \in readindex'..writeindex'
      BY <1>1, <2>2, <3>1
    <3>3. Ahead(f)' = 1
      BY <1>1, <1>2, <2>2, <3>1 DEF Ahead
    <3> QED
      BY <1>1, <2>2, <3>2, <3>3 DEF Waits
  <2> QED
    BY <1>1, <1>7, <2>1, <2>2 DEF Waits
<1>8. Clean => Covered'
  BY <1>1, <1>7 DEF SInv, Covered
<1> QED
  BY <1>1, <1>3, <1>4, <1>5, <1>6, <1>8 DEF SInv, Clean

LEMMA OpenNextStays == ASSUME IInv, SInv, OpenNext PROVE SInv'
<1>1. /\ UNCHANGED <<readindex, writeindex, fileexist, bak, bakFile, saveBuf, buf, next, cont, saved,
                     sent, lost, strayed, torn>>
      /\ pc = "open" /\ pc' = "send" /\ fileexist
      /\ rd' = readindex /\ files' = Opened(readindex, files) /\ pos' = 0 /\ offset' = 0
  BY DEF OpenNext, link, producer, bounds, history, IInv, Good, ChangeOK
<1>2. /\ DOMAIN files' = DOMAIN files \cup {readindex}
      /\ \A f \in DOMAIN files : files'[f] = files[f] /\ In(f)' = In(f)
      /\ \A f \in DOMAIN files' : f \notin DOMAIN files => files'[f] = <<>> /\ In(f)' = {}
  BY <1>1, OpenedFiles DEF IInv
<1>3. bakFile < readindex /\ bakFile \in Nat /\ readindex \in Nat
  BY <1>1, FileTypes DEF IInv, SInv, OffsetOK, Leaving
<1>4. NumbersOK'
  BY <1>1, <1>2 DEF SInv, NumbersOK
<1>5. HandOK' /\ \A f \in DOMAIN files' : saveBuf' \notin In(f)'
  BY <1>1, <1>2 DEF SInv, HandOK, Deleted
<1>6. OffsetOK' /\ ReaderOK'
  BY <1>1, <1>3, FirstLemma DEF OffsetOK, Leaving, ReaderOK, Left
<1>7. NextOne' = 1
  BY <1>1, FirstLemma DEF NextOne
<1>8. PlaceOK'
  <2>1. Len(files'[readindex']) \in Nat
    <3>1. IInv'
      BY OpenNextKeeps
    <3>2. files'[readindex] \in Seq(1..MaxRec)
      BY <1>2, <3>1 DEF IInv, TypeOK, CardTypes
    <3> QED
      BY <1>1, <3>2
  <2>2. Backs' => BackOne' = 1
    <3>1. Backs' => bak' = 0
      BY <1>1, <1>3 DEF Backs
    <3> QED
      BY <3>1, FirstLemma DEF BackOne
  <2> QED
    BY <1>1, <1>5, <1>7, <2>1, <2>2 DEF PlaceOK
<1>9. ASSUME NEW x, Waits(x) PROVE Waits(x)'
  <2>1. Hand' = Hand
    BY <1>1 DEF Hand
  <2>2. ASSUME NEW f \in DOMAIN files, NEW k \in 1..Len(files[f]), x = files[f][k],
               f \in readindex..writeindex
        PROVE  Waits(x)'
    <3>1. f \in DOMAIN files' /\ files'[f] = files[f] /\ k >= Ahead(f)'
      BY <1>2, <1>7, FileTypes DEF IInv, Ahead
    <3> QED
      BY <1>1, <2>2, <3>1 DEF Waits
  <2> QED
    BY <1>1, <1>9, <2>1, <2>2 DEF Waits
<1>10. Clean => Covered'
  BY <1>1, <1>9 DEF SInv, Covered
<1> QED
  BY <1>1, <1>4, <1>5, <1>6, <1>8, <1>10 DEF SInv, Clean

LEMMA DrainEndStays == ASSUME IInv, SInv, DrainEnd PROVE SInv'
<1>1. /\ UNCHANGED <<files, readindex, writeindex, rd, pos, saveBuf, buf, next, cont, saved, sent,
                     strayed, torn>>
      /\ pc = "end" /\ pc' = "buffer" /\ fileexist' = FALSE
      /\ offset' = 0 /\ bak' = 0 /\ bakFile' = 0
      /\ lost' = lost \cup ({saveBuf} \ ({None} \cup sent))
  BY DEF DrainEnd, card, link, producer, bounds
<1>2. rd = NoFile
  BY <1>1 DEF SInv, ReaderOK, Left
<1>3. NumbersOK'
  BY <1>1, SameFiles DEF SInv, NumbersOK
<1>4. HandOK'
  BY <1>1, SameFiles DEF SInv, HandOK, Deleted
<1>5. OffsetOK' /\ ReaderOK' /\ PlaceOK'
  BY <1>1, FileTypes DEF IInv, OffsetOK, InUse, Leaving, ReaderOK, Left, PlaceOK
<1>6. ASSUME NEW x, Waits(x) PROVE Waits(x)'
  <2>1. Hand \subseteq sent' \cup lost'
    BY <1>1 DEF Hand
  <2>2. ASSUME NEW f \in DOMAIN files, NEW k \in 1..Len(files[f]), x = files[f][k],
               f \in readindex..writeindex
        PROVE  Waits(x)'
    <3>1. k >= Ahead(f)'
      <4>1. f # NoFile
        BY FileTypes DEF IInv, NoFile
      <4> QED
        BY <1>1, <1>2, <4>1, FileTypes DEF IInv, Ahead
    <3> QED
      BY <1>1, <2>2, <3>1 DEF Waits
  <2> QED
    BY <1>1, <1>6, <2>1, <2>2 DEF Waits
<1>7. Clean => Covered'
  BY <1>1, <1>6 DEF SInv, Covered
<1> QED
  BY <1>1, <1>3, <1>4, <1>5, <1>7 DEF SInv, Clean

-----------------------------------------------------------------------------
(* A record that was read is sent, or its send fails. *)
LEMMA SendStays == ASSUME IInv, SInv, Send PROVE SInv'
<1>1. /\ UNCHANGED <<files, readindex, writeindex, rd, fileexist, pos, offset, saveBuf, buf, next, cont,
                     saved, lost, strayed, torn>>
      /\ pc = "send" /\ pc' = "buffer" /\ fileexist
      /\ sent' = sent \cup ({saveBuf} \ {None})
      /\ bak' = offset /\ bakFile' = readindex
  BY DEF Send, card, info, link, producer, bounds, IInv, Good, ChangeOK
<1>2. offset <= pos /\ pos % R = 0 /\ InUse
  BY <1>1 DEF SInv, OffsetOK, Running, InUse
<1>3. NumbersOK'
  BY <1>1, SameFiles DEF SInv, NumbersOK
<1>4. HandOK'
  BY <1>1, SameFiles DEF SInv, HandOK, Running, Deleted
<1>5. OffsetOK' /\ ReaderOK'
  BY <1>1, <1>2, FileTypes DEF IInv, OffsetOK, Leaving, ReaderOK, Left
<1>6. BackOne' <= NextOne /\ NextOne' = NextOne
  <2> DEFINE q == pos \div R
  <2>1. q \in Nat /\ pos = R * q /\ NextOne = q + 1
    <3>1. pos \in Nat
      BY FileTypes DEF IInv
    <3>2. q \in Nat /\ pos = R * q
      BY <1>2, <3>1, DivLemma
    <3>3. NextOne = q + 1
      BY <1>2 DEF NextOne, Record
    <3> QED
      BY <3>2, <3>3
  <2> HIDE DEF q
  <2>2. offset <= q * R
    BY <1>2, <2>1
  <2>3. Record(offset, offset) <= q + 1
    BY <2>1, <2>2, BackLemma, FileTypes DEF IInv
  <2> QED
    BY <1>1, <2>1, <2>3 DEF BackOne, NextOne
<1>7. Clean => PlaceOK'
  BY <1>1, <1>2, <1>6 DEF SInv, PlaceOK
<1>8. ASSUME NEW x, Waits(x) PROVE Waits(x)'
  <2>1. Hand \subseteq sent'
    BY <1>1 DEF Hand
  <2> QED
    BY <1>1, <1>8, <2>1, WaitsSame
<1>9. Clean => Covered'
  BY <1>1, <1>8 DEF SInv, Covered
<1> QED
  BY <1>1, <1>3, <1>4, <1>5, <1>7, <1>9 DEF SInv, Clean

(* After a failed send the reader is put back to where it was before the     *)
(* record, or further: the record is read again, unless it is on the card    *)
(* no longer.                                                               *)
LEMMA SendFailsStays == ASSUME IInv, SInv, SendFails PROVE SInv'
<1>1. /\ UNCHANGED <<files, readindex, writeindex, rd, fileexist, bak, bakFile, saveBuf, buf, next, cont,
                     saved, sent, torn>>
      /\ pc = "send" /\ pc' = "buffer" /\ fileexist
      /\ offset' = bak /\ pos' = bak
      /\ strayed' = (strayed \/ (bak # 0 /\ bakFile # readindex))
      /\ lost' = lost \cup (Hand \ (OnCard \cup sent))
  BY DEF SendFails, card, info, producer, IInv, Good, ChangeOK
<1>2. InUse
  BY <1>1 DEF InUse
<1>3. NumbersOK'
  BY <1>1, SameFiles DEF SInv, NumbersOK
<1>4. HandOK'
  BY <1>1, SameFiles DEF SInv, HandOK, Running, Deleted
<1>5. OffsetOK' /\ ReaderOK'
  BY <1>1, <1>2, FileTypes DEF IInv, SInv, OffsetOK, Leaving, ReaderOK, Left
<1>6. Clean' => Clean /\ Backs
  BY <1>1 DEF Clean, Backs
<1>7. NextOne' = BackOne /\ BackOne' = BackOne /\ BackOne \in Nat \ {0} /\ NextOne \in Nat \ {0}
  BY <1>1, FileTypes DEF IInv, NextOne, BackOne
<1>8. Clean' => /\ readindex \in DOMAIN files /\ readindex \in readindex..writeindex
                /\ rd = readindex /\ Len(files[readindex]) \in Nat
                /\ BackOne <= NextOne /\ NextOne <= Len(files[readindex]) + 1
  <2> SUFFICES ASSUME Clean'
               PROVE  /\ readindex \in DOMAIN files /\ readindex \in readindex..writeindex
                      /\ rd = readindex /\ Len(files[readindex]) \in Nat
                      /\ BackOne <= NextOne /\ NextOne <= Len(files[readindex]) + 1
    OBVIOUS
  <2>1. Matching
    BY <1>1, <1>2, <1>6 DEF IInv, Good, HandlesOK, Mistaken
  <2>2. BackOne <= NextOne /\ NextOne <= Len(files[readindex]) + 1
    BY <1>2, <1>6 DEF SInv, PlaceOK
  <2> QED
    BY <2>1, <2>2, FileTypes DEF IInv, Matching
<1>9. Clean' => PlaceOK'
  BY <1>1, <1>7, <1>8 DEF PlaceOK
<1>10. ASSUME Clean', NEW x, Waits(x) PROVE Waits(x)'
  <2>1. CASE x \in sent \/ x \in lost
    BY <1>1, <2>1 DEF Waits
  <2>2. ASSUME NEW f \in DOMAIN files, NEW k \in 1..Len(files[f]), x = files[f][k],
               f \in readindex..writeindex, f = readindex => k >= BackOne
        PROVE  Waits(x)'
    <3>1. k >= Ahead(f)'
      BY <1>1, <1>7, <2>2 DEF Ahead
    <3> QED
      BY <1>1, <2>2, <3>1 DEF Waits
  <2>3. ASSUME NEW f \in DOMAIN files, NEW k \in 1..Len(files[f]), x = files[f][k],
               f \in readindex..writeindex, k >= Ahead(f)
        PROVE  Waits(x)'
    <3>1. f = readindex => k >= BackOne
      BY <1>7, <1>8, <1>10, <2>3 DEF Ahead
    <3> QED
      BY <2>2, <2>3, <3>1
  <2>4. CASE x \in Hand
    <3>1. x = saveBuf
      BY <2>4 DEF Hand
    <3>2. CASE \A f \in DOMAIN files : saveBuf \notin In(f)
      <4>1. x \notin OnCard
        BY <3>1, <3>2, CardLemma DEF IInv, In
      <4> QED
        BY <1>1, <2>4, <4>1 DEF Waits
    <3>3. CASE NextOne > 1 /\ saveBuf = files[readindex][NextOne - 1] /\ BackOne < NextOne
      <4>1. NextOne - 1 \in 1..Len(files[readindex]) /\ NextOne - 1 >= BackOne
        BY <1>7, <1>8, <1>10, <3>3
      <4> QED
        BY <1>8, <1>10, <2>2, <3>1, <3>3, <4>1
    <3> QED
      BY <1>1, <1>6, <1>10, <3>2, <3>3 DEF SInv, PlaceOK
  <2> QED
    BY <1>1, <1>10, <2>1, <2>3, <2>4 DEF Waits
<1>11. Clean' => Covered'
  BY <1>1, <1>6, <1>10 DEF SInv, Covered
<1> QED
  BY <1>3, <1>4, <1>5, <1>9, <1>11 DEF SInv

-----------------------------------------------------------------------------
LEMMA NextStays == ASSUME IInv, SInv, [Next]_vars PROVE SInv'
<1>1. CASE UNCHANGED vars
  <2>1. UNCHANGED <<files, readindex, writeindex, rd, fileexist, pos, offset, bak, bakFile, saveBuf, buf,
                    next, pc, cont, saved, sent, lost, strayed, torn>>
    BY <1>1 DEF vars, card, info, reading, producer, history
  <2>2. Hand' = Hand
    BY <2>1 DEF Hand
  <2>3. NumbersOK' /\ HandOK' /\ OffsetOK' /\ ReaderOK'
    BY <2>1, SameFiles DEF SInv, NumbersOK, HandOK, Running, Deleted, OffsetOK, InUse, Leaving,
                           ReaderOK, Left
  <2>4. Clean => PlaceOK'
    BY <2>1, SameFiles DEF SInv, PlaceOK, InUse, NextOne, BackOne, Backs
  <2>5. \A x : Waits(x) => Waits(x)'
    BY <2>1, <2>2 DEF Waits, Ahead, NextOne
  <2>6. Clean => Covered'
    BY <2>1, <2>5 DEF SInv, Covered
  <2> QED
    BY <2>1, <2>3, <2>4, <2>6 DEF SInv, Clean
<1>2. CASE Boot
  BY <1>2, BootStays
<1>3. CASE Crash
  BY <1>3, CrashStays
<1>4. CASE Produce
  BY <1>4, ProduceStays
<1>5. CASE Connect \/ LinkLoss
  BY <1>5, QuietStays
<1>6. CASE Upload
  <2>1. CASE NoRecord \/ LiveSend \/ NoDrain
    BY <2>1, QuietStays
  <2>2. CASE OpenFirst
    BY <2>2, OpenFirstStays
  <2>3. CASE Rollover
    BY <2>3, RolloverStays
  <2>4. CASE SaveData2SdCard
    BY <2>4, SaveStays
  <2>5. CASE SaveFileCounterOpen \/ SaveFileCounterClose
    BY <2>5, CounterStays
  <2>6. CASE ReadRecord
    BY <2>6, ReadStays
  <2>7. CASE DeleteFile
    BY <2>7, DeleteStays
  <2>8. CASE AdvanceIndex
    BY <2>8, AdvanceStays
  <2>9. CASE OpenNext
    BY <2>9, OpenNextStays
  <2>10. CASE DrainEnd
    BY <2>10, DrainEndStays
  <2>11. CASE Send
    BY <2>11, SendStays
  <2>12. CASE SendFails
    BY <2>12, SendFailsStays
  <2> QED
    BY <1>6, <2>1, <2>2, <2>3, <2>4, <2>5, <2>6, <2>7, <2>8, <2>9, <2>10, <2>11, <2>12 DEF Upload
<1> QED
  BY <1>1, <1>2, <1>3, <1>4, <1>5, <1>6 DEF Next

THEOREM StoreInvariance == Spec => [](IInv /\ SInv)
<1>1. Init => IInv /\ SInv
  BY IInvInit, SInvInit
<1>2. IInv /\ SInv /\ [Next]_vars => (IInv /\ SInv)'
  BY NextKeeps, NextStays
<1> QED
  BY <1>1, <1>2, PTL DEF Spec

(* A record saved on the card is sent, given up, or still ahead of the read  *)
(* position, although offset leaves out a header for each record read and    *)
(* although the same file is written meanwhile - as long as no failed send   *)
(* put the position of one file into another and no start found the card     *)
(* torn (breakpoint.c:142-168, Dicor_upload.c:1923-1942).                    *)
THEOREM NothingPassedOverCorrect == Spec => []NothingPassedOver
<1>1. IInv /\ SInv => NothingPassedOver
  <2> SUFFICES ASSUME IInv, SInv, pc # "off", ~strayed, ~torn, NEW x \in saved
               PROVE  x \in sent \cup lost \cup Pending
    BY DEF NothingPassedOver
  <2>1. Waits(x)
    BY DEF SInv, Clean, Covered
  <2>2. CASE x \in sent \/ x \in lost \/ x \in Hand
    BY <2>2 DEF Pending
  <2>3. ASSUME NEW f \in DOMAIN files, NEW k \in 1..Len(files[f]), x = files[f][k],
               f \in readindex..writeindex, k >= Ahead(f)
        PROVE  x \in Pending
    <3>1. k \in (IF f = readindex /\ rd = f THEN Record(pos, offset) ELSE 1)..Len(files[f])
      <4>1. NextOne \in Nat /\ Len(files[f]) \in Nat
        BY FileTypes DEF IInv
      <4> QED
        BY <2>3, <4>1 DEF Ahead, NextOne
    <3> QED
      BY <2>3, <3>1 DEF Pending
  <2> QED
    BY <2>1, <2>2, <2>3 DEF Waits
<1> QED
  BY <1>1, StoreInvariance, PTL

-----------------------------------------------------------------------------
(***************************************************************************)
(* Records reach the data centre in the order in which they were produced. *)
(***************************************************************************)

(* The record in the upload buffer is the newest, and each before it has     *)
(* been dealt with.                                                         *)
NewestOK == buf # None => buf = next - 1
Known == \A x \in 1..(next - 1) : x \in saved \cup sent \cup lost \/ x = buf

(* Records stand in the files, and the files on the card, in the order in    *)
(* which they were written; nothing is left outside the files still to be    *)
(* read; and the record read last is older than all that is left.            *)
Sorted ==
  /\ \A f \in DOMAIN files : \A k, m \in 1..Len(files[f]) : k < m => files[f][k] < files[f][m]
  /\ \A f, g \in DOMAIN files : f < g => \A x \in In(f), y \in In(g) : x < y
RangeOK ==
  Running => \A f \in DOMAIN files :
               f \notin readindex..writeindex \/ ~fileexist \/ Left => In(f) = {}
HandFirst == \A f \in DOMAIN files : saveBuf \notin In(f) => \A x \in In(f) : saveBuf < x

OInv == NewestOK /\ Known /\ (Clean => Sorted /\ RangeOK /\ HandFirst)

LEMMA OInvInit == Init => OInv
<1> SUFFICES ASSUME Init PROVE OInv
  OBVIOUS
<1>1. DOMAIN files = {} /\ buf = None /\ next = 1
  BY DEF Init
<1>2. NewestOK /\ Known
  BY <1>1 DEF NewestOK, Known
<1>3. Sorted /\ RangeOK /\ HandFirst
  BY <1>1 DEF Sorted, RangeOK, HandFirst
<1> QED
  BY <1>2, <1>3 DEF OInv

(* Files that come, empty, to those on the card change no order.             *)
LEMMA GrownSorted ==
  ASSUME DOMAIN files \subseteq DOMAIN files',
         \A f \in DOMAIN files : files'[f] = files[f],
         \A f \in DOMAIN files' \ DOMAIN files : files'[f] = <<>>
  PROVE  /\ \A f \in DOMAIN files : In(f)' = In(f)
         /\ \A f \in DOMAIN files' \ DOMAIN files : In(f)' = {}
         /\ Sorted => Sorted'
         /\ HandFirst /\ saveBuf' = saveBuf => HandFirst'
<1>1. Len(<<>>) = 0 /\ 1..0 = {}
  OBVIOUS
<1>2. \A f \in DOMAIN files : In(f)' = In(f)
  BY DEF In
<1>3. \A f \in DOMAIN files' \ DOMAIN files : In(f)' = {}
  BY <1>1 DEF In
<1>4. Sorted => Sorted'
  <2> SUFFICES ASSUME Sorted PROVE Sorted'
    OBVIOUS
  <2>1. ASSUME NEW f \in DOMAIN files', NEW k \in 1..Len(files'[f]), NEW m \in 1..Len(files'[f]),
               k < m
        PROVE  files'[f][k] < files'[f][m]
    <3>1. f \in DOMAIN files
      BY <1>1, <2>1
    <3> QED
      BY <2>1, <3>1 DEF Sorted
  <2>2. ASSUME NEW f \in DOMAIN files', NEW g \in DOMAIN files', f < g,
               NEW x \in In(f)', NEW y \in In(g)'
        PROVE  x < y
    <3>1. f \in DOMAIN files /\ g \in DOMAIN files
      BY <1>3, <2>2
    <3> QED
      BY <1>2, <2>2, <3>1 DEF Sorted
  <2> QED
    BY <2>1, <2>2 DEF Sorted
<1>5. HandFirst /\ saveBuf' = saveBuf => HandFirst'
  BY <1>2, <1>3 DEF HandFirst
<1> QED
  BY <1>2, <1>3, <1>4, <1>5

LEMMA UnchangedSorted ==
  ASSUME UNCHANGED <<files, saveBuf>>
  PROVE  (\A f \in DOMAIN files : In(f)' = In(f)) /\ (Sorted /\ HandFirst => Sorted' /\ HandFirst')
  BY GrownSorted

(* What is dealt with stays so, and the record in the buffer stays the       *)
(* newest, where no record is produced.                                      *)
LEMMA NewestStays ==
  ASSUME OInv, next' = next, buf' \in {buf, None},
         saved \cup sent \cup lost \subseteq saved' \cup sent' \cup lost',
         buf' # buf => buf \in saved' \cup sent' \cup lost'
  PROVE  NewestOK' /\ Known'
  BY DEF OInv, NewestOK, Known

LEMMA StillSorted ==
  ASSUME IInv, OInv,
         \/ NoRecord \/ LiveSend \/ NoDrain \/ Connect \/ LinkLoss
         \/ SaveFileCounterOpen \/ SaveFileCounterClose \/ DrainEnd \/ Send \/ SendFails
  PROVE  OInv'
<1>0. UNCHANGED <<files, readindex, writeindex, saveBuf, next, torn, saved>>
  <2>1. CASE NoRecord \/ LiveSend \/ NoDrain \/ Connect \/ LinkLoss
    BY <2>1 DEF NoRecord, LiveSend, NoDrain, Connect, LinkLoss, Taken, card, info, reading, producer,
       history
  <2>2. CASE SaveFileCounterOpen \/ SaveFileCounterClose
    BY <2>2 DEF SaveFileCounterOpen, SaveFileCounterClose, info, reading, producer, history
  <2>3. CASE DrainEnd \/ Send \/ SendFails
    BY <2>3 DEF DrainEnd, Send, SendFails, card, info, producer
  <2> QED
    BY <2>1, <2>2, <2>3
<1>1. Clean' => Clean
  <2>1. CASE NoRecord \/ LiveSend \/ NoDrain \/ Connect \/ LinkLoss
    BY <2>1 DEF NoRecord, LiveSend, NoDrain, Connect, LinkLoss, Clean, history
  <2>2. CASE SaveFileCounterOpen \/ SaveFileCounterClose
    BY <2>2 DEF SaveFileCounterOpen, SaveFileCounterClose, Clean, history
  <2>3. CASE DrainEnd \/ Send \/ SendFails
    BY <2>3 DEF DrainEnd, Send, SendFails, Clean
  <2> QED
    BY <2>1, <2>2, <2>3
<1>2. sent \subseteq sent' /\ lost \subseteq lost'
      /\ (buf' = buf \/ (buf' = None /\ buf \in sent' \cup lost'))
  BY DEF NoRecord, LiveSend, NoDrain, Connect, LinkLoss, SaveFileCounterOpen, SaveFileCounterClose,
     DrainEnd, Send, SendFails, Taken, card, info, reading, producer, history
<1>3. NewestOK' /\ Known'
  BY <1>0, <1>2, NewestStays
<1>4. Running /\ (Left' => Left) /\ (~fileexist' => ~fileexist \/ Left)
  BY DEF NoRecord, LiveSend, NoDrain, Connect, LinkLoss, SaveFileCounterOpen, SaveFileCounterClose,
     DrainEnd, Send, SendFails, Taken, Running, Left, info, card, link, producer, history
<1>5. Clean => RangeOK'
  BY <1>0, <1>4, UnchangedSorted DEF OInv, RangeOK
<1>6. Clean => Sorted' /\ HandFirst'
  BY <1>0, UnchangedSorted DEF OInv
<1> QED
  BY <1>1, <1>3, <1>5, <1>6 DEF OInv

LEMMA ProduceSorted == ASSUME IInv, SInv, OInv, Produce PROVE OInv'
<1>1. /\ UNCHANGED <<files, readindex, writeindex, fileexist, saveBuf, pc, cont, saved, sent, lost,
                     strayed, torn>>
      /\ pc # "off" /\ buf = None /\ buf' = next /\ next' = next + 1 /\ next \in Nat /\ buf \in Nat
  BY FileTypes DEF IInv, Produce, Running, card, info, reading, link, bounds, history
<1>2. NewestOK' /\ Known'
  <2>1. next + 1 - 1 = next /\ \A x \in 1..next : x \in 1..(next - 1) \/ x = next
    BY <1>1
  <2>2. \A x \in 1..(next - 1) : x \in saved \cup sent \cup lost
    BY <1>1 DEF OInv, Known, None
  <2> QED
    BY <1>1, <2>1, <2>2 DEF NewestOK, Known
<1>3. Clean' => Clean
  BY <1>1 DEF Clean
<1>4. Clean => RangeOK'
  BY <1>1, UnchangedSorted DEF OInv, RangeOK, Running, Left
<1>5. Clean => Sorted' /\ HandFirst'
  BY <1>1, UnchangedSorted DEF OInv
<1> QED
  BY <1>2, <1>3, <1>4, <1>5 DEF OInv

LEMMA CrashSorted == ASSUME IInv, SInv, OInv, Crash PROVE OInv'
<1>1. /\ UNCHANGED <<files, saveBuf, next, saved, sent, strayed, torn>>
      /\ pc' = "off" /\ buf' = None
      /\ lost' = lost \cup ({buf} \ {None}) \cup (Hand \ (OnCard \cup sent))
  BY DEF Crash, card, reading
<1>2. NewestOK' /\ Known'
  BY <1>1, NewestStays
<1>3. RangeOK'
  BY <1>1 DEF RangeOK, Running
<1>4. Clean' => Sorted' /\ HandFirst'
  BY <1>1, UnchangedSorted DEF OInv, Clean
<1> QED
  BY <1>2, <1>3, <1>4 DEF OInv

(* A start that does not find the card torn finds no record outside the      *)
(* files FileCounter names.                                                  *)
LEMMA BootSorted == ASSUME IInv, SInv, OInv, Boot PROVE OInv'
<1> DEFINE r == IF counter = <<>> THEN 0 ELSE counter[1]
           w == IF counter = <<>> THEN 0 ELSE counter[2]
           exist == r # 0 \/ 0 \in DOMAIN files
           open == exist \/ r # w
<1>1. /\ readindex' = r /\ writeindex' = w /\ fileexist' = exist
      /\ files' = IF open THEN Opened(r, Opened(w, files)) ELSE files
      /\ torn' = (\/ torn
                  \/ r # w /\ ~exist
                  \/ \E f \in DOMAIN files \ (r..w) : files[f] # <<>>)
      /\ saveBuf' = 0 /\ pc' = "buffer"
      /\ UNCHANGED <<buf, next, saved, sent, lost, strayed>>
  BY DEF Boot, producer, bounds, None
<1>2. r \in Nat /\ w \in Nat
  BY DEF IInv, TypeOK, CardTypes
<1> HIDE DEF r, w
<1>3. /\ DOMAIN files \subseteq DOMAIN files'
      /\ \A f \in DOMAIN files : files'[f] = files[f]
      /\ \A f \in DOMAIN files' \ DOMAIN files : files'[f] = <<>>
      /\ \A f \in DOMAIN files' : f \in DOMAIN files \/ f = r \/ f = w
  <2>1. CASE open
    <3>0. \A f \in DOMAIN files : files[f] \in Seq(1..MaxRec)
      BY FileTypes DEF IInv
    <3> DEFINE fs == Opened(w, files)
    <3>1. /\ DOMAIN fs = DOMAIN files \cup {w}
          /\ \A f \in DOMAIN files : fs[f] = files[f]
          /\ w \notin DOMAIN files => fs[w] = <<>>
          /\ \A f \in DOMAIN fs : fs[f] \in Seq(1..MaxRec)
      BY <3>0, OpenedLemma
    <3> HIDE DEF fs
    <3>2. /\ DOMAIN Opened(r, fs) = DOMAIN fs \cup {r}
          /\ \A g \in DOMAIN fs : Opened(r, fs)[g] = fs[g]
          /\ r \notin DOMAIN fs => Opened(r, fs)[r] = <<>>
          /\ \A g \in DOMAIN Opened(r, fs) : Opened(r, fs)[g] \in Seq(1..MaxRec)
      BY <3>1, OpenedLemma
    <3>3. files' = Opened(r, fs)
      BY <1>1, <2>1 DEF fs
    <3> QED
      BY <3>1, <3>2, <3>3
  <2>2. CASE ~open
    BY <1>1, <2>2
  <2> QED
    BY <2>1, <2>2
<1>4. /\ \A f \in DOMAIN files : In(f)' = In(f)
      /\ \A f \in DOMAIN files' \ DOMAIN files : In(f)' = {}
      /\ Sorted => Sorted'
  BY <1>3, GrownSorted
<1>5. NewestOK' /\ Known'
  BY <1>1, NewestStays
<1>6. Clean' => Clean
  BY <1>1 DEF Clean
<1>7. HandFirst'
  <2>1. \A f \in DOMAIN files' : In(f)' \subseteq 1..MaxRec
    BY <1>3, <1>4, FileTypes DEF IInv
  <2> QED
    BY <1>1, <2>1 DEF HandFirst
<1>8. Clean' => RangeOK'
  <2> SUFFICES ASSUME Clean', NEW f \in DOMAIN files',
                      f \notin r..w \/ ~exist, In(f)' # {}
               PROVE  FALSE
    BY <1>1 DEF RangeOK, Left
  <2>1. f \in DOMAIN files /\ In(f) # {}
    BY <1>4
  <2>2. files[f] # <<>>
    <3>1. Len(<<>>) = 0 /\ 1..0 = {}
      OBVIOUS
    <3> QED
      BY <2>1, <3>1 DEF In
  <2>3. f \in r..w /\ ~(r # w /\ ~exist)
    BY <1>1, <2>1, <2>2 DEF Clean
  <2>4. ~exist /\ r = 0 /\ w = 0
    BY <2>3
  <2>5. f = 0
    BY <2>3, <2>4
  <2> QED
    BY <2>1, <2>4, <2>5
<1> QED
  BY <1>4, <1>5, <1>6, <1>7, <1>8 DEF OInv

-----------------------------------------------------------------------------
(* Files are opened, filled, read and deleted. *)
LEMMA OpenSorted == ASSUME IInv, SInv, OInv, OpenFirst \/ Rollover \/ OpenNext PROVE OInv'
<1>1. /\ UNCHANGED <<saveBuf, buf, next, saved, sent, lost, strayed, torn>>
      /\ pc # "off" /\ pc # "fault" /\ readindex' = readindex /\ ~Left'
      /\ writeindex' \in {writeindex, writeindex + 1} /\ (fileexist' = fileexist \/ fileexist')
  BY DEF OpenFirst, Rollover, OpenNext, Saving, Left, reading, link, producer, bounds, history
<1>2. PICK n : files' = Opened(n, files)
  BY DEF OpenFirst, Rollover, OpenNext
<1>3. /\ DOMAIN files \subseteq DOMAIN files'
      /\ \A f \in DOMAIN files : files'[f] = files[f] /\ In(f)' = In(f)
      /\ \A f \in DOMAIN files' : f \notin DOMAIN files => files'[f] = <<>> /\ In(f)' = {}
  BY <1>2, OpenedFiles DEF IInv
<1>4. NewestOK' /\ Known'
  BY <1>1, NewestStays
<1>5. Clean' => Clean
  BY <1>1 DEF Clean
<1>6. Clean => Sorted' /\ HandFirst'
  BY <1>1, <1>3, GrownSorted DEF OInv
<1>7. Clean => RangeOK'
  <2> SUFFICES ASSUME Clean, NEW f \in DOMAIN files', f \notin readindex..writeindex' \/ ~fileexist'
               PROVE  In(f)' = {}
    BY <1>1 DEF RangeOK
  <2>1. CASE f \notin DOMAIN files
    BY <1>3, <2>1
  <2>2. CASE f \in DOMAIN files
    <3>1. readindex \in Nat /\ writeindex \in Nat /\ f \in Nat
      BY <2>2, FileTypes DEF IInv
    <3>2. f \notin readindex..writeindex \/ ~fileexist
      BY <1>1, <3>1
    <3>3. In(f) = {}
      BY <1>1, <2>2, <3>2 DEF OInv, RangeOK, Running
    <3> QED
      BY <1>3, <2>2, <3>3
  <2> QED
    BY <2>1, <2>2
<1> QED
  BY <1>4, <1>5, <1>6, <1>7 DEF OInv

LEMMA SaveSorted == ASSUME IInv, SInv, OInv, SaveData2SdCard PROVE OInv'
<1>1. /\ UNCHANGED <<readindex, writeindex, fileexist, saveBuf, next, sent, lost, strayed, torn>>
      /\ saved' = saved \cup {buf} /\ buf' = None /\ buf \in 1..MaxRec
      /\ wr \in DOMAIN files /\ DOMAIN files' = DOMAIN files \cup {writeindex}
      /\ pc \in {"buffer", "append"} /\ fileexist /\ pc' \in {"fault", "drain"}
  BY SavedFiles DEF None
<1>2. NewestOK' /\ Known'
  BY <1>1, NewestStays
<1>3. Clean' => Clean
  BY <1>1 DEF Clean
<1>4. Clean => wr = writeindex /\ DOMAIN files' = DOMAIN files
  BY <1>1, SavedFiles, ZenonT(40) DEF Clean, Matching, Mistaken
<1>5. /\ \A f \in DOMAIN files : In(f) \subseteq Nat /\ Len(files[f]) \in Nat
      /\ \A f \in DOMAIN files : In(f)' \subseteq In(f) \cup {buf}
      /\ \A f \in DOMAIN files : f # wr => files'[f] = files[f] /\ In(f)' = In(f)
      /\ buf \in Nat /\ saveBuf \in Nat /\ next \in Nat /\ DOMAIN files \subseteq Nat
  BY <1>1, SavedFiles, FileTypes DEF IInv
(* The record written is the newest of all. *)
<1>6. saveBuf < buf /\ \A f \in DOMAIN files : \A x \in In(f) : x < buf
  <2>1. buf = next - 1 /\ buf # saveBuf /\ saveBuf < next
    BY <1>1 DEF OInv, NewestOK, SInv, NumbersOK, None
  <2>2. \A f \in DOMAIN files : \A x \in In(f) : x < next /\ x # buf
    BY <1>1 DEF SInv, NumbersOK, None
  <2> QED
    BY <1>5, <2>1, <2>2
<1>7. Clean => Sorted'
  <2> SUFFICES ASSUME Clean PROVE Sorted'
    OBVIOUS
  <2>1. Sorted /\ RangeOK /\ DOMAIN files' = DOMAIN files /\ wr = writeindex
    BY <1>4 DEF OInv
  <2>2. ASSUME NEW f \in DOMAIN files, NEW k \in 1..Len(files'[f]), NEW m \in 1..Len(files'[f]),
               k < m
        PROVE  files'[f][k] < files'[f][m]
    <3>1. CASE f # wr
      BY <1>5, <2>1, <2>2, <3>1 DEF Sorted
    <3>2. CASE f = wr
      <4>1. /\ k \in 1..Len(files[f]) /\ files'[f][k] = files[f][k]
            /\ \/ m \in 1..Len(files[f]) /\ files'[f][m] = files[f][m]
               \/ files'[f][m] = buf
        BY <2>2, <3>2, SavedFiles
      <4>2. files[f][k] \in In(f)
        BY <4>1 DEF In
      <4> QED
        BY <1>6, <2>1, <2>2, <4>1, <4>2 DEF Sorted
    <3> QED
      BY <3>1, <3>2
  <2>3. ASSUME NEW f \in DOMAIN files, NEW g \in DOMAIN files, f < g,
               NEW x \in In(f)', NEW y \in In(g)'
        PROVE  x < y
    <3>1. CASE f = wr
      <4>1. g \notin readindex..writeindex
        BY <1>5, <2>1, <2>3, <3>1, FileTypes DEF IInv
      <4>2. In(g) = {} /\ In(g)' = In(g)
        BY <1>1, <1>5, <2>1, <2>3, <3>1, <4>1 DEF RangeOK, Running
      <4> QED
        BY <2>3, <4>2
    <3>2. CASE f # wr
      <4>1. x \in In(f) /\ (y \in In(g) \/ y = buf)
        BY <1>5, <2>3, <3>2
      <4> QED
        BY <1>6, <2>1, <2>3, <4>1 DEF Sorted
    <3> QED
      BY <3>1, <3>2
  <2> QED
    BY <2>1, <2>2, <2>3 DEF Sorted
<1>8. Clean => RangeOK'
  <2> SUFFICES ASSUME Clean, NEW f \in DOMAIN files, f \notin readindex..writeindex
               PROVE  In(f)' = {}
    BY <1>1, <1>4 DEF RangeOK, Left
  <2>1. In(f) = {}
    BY <1>1 DEF OInv, RangeOK, Running
  <2>2. f # wr
    BY <1>4, <1>5, FileTypes DEF IInv
  <2> QED
    BY <1>5, <2>1, <2>2
<1>9. Clean => HandFirst'
  <2> SUFFICES ASSUME Clean, NEW f \in DOMAIN files, saveBuf \notin In(f)', NEW x \in In(f)'
               PROVE  saveBuf < x
    BY <1>1, <1>4 DEF HandFirst
  <2>1. \/ x = buf
        \/ x \in In(f) /\ saveBuf \notin In(f)
    <3>1. In(f) \subseteq In(f)'
      <4>1. CASE f # wr
        BY <1>5, <4>1
      <4>2. CASE f = wr
        <5> SUFFICES ASSUME NEW k \in 1..Len(files[f]) PROVE files[f][k] \in In(f)'
          BY DEF In
        <5>1. k \in 1..Len(files'[f]) /\ files'[f][k] = files[f][k]
          BY <4>2, SavedFiles
        <5> QED
          BY <5>1 DEF In
      <4> QED
        BY <4>1, <4>2
    <3> QED
      BY <1>5, <3>1
  <2> QED
    BY <1>6, <2>1 DEF OInv, HandFirst
<1> QED
  BY <1>2, <1>3, <1>7, <1>8, <1>9 DEF OInv

LEMMA ReadSorted == ASSUME IInv, SInv, OInv, ReadRecord PROVE OInv'
<1>1. /\ UNCHANGED <<files, readindex, writeindex, fileexist, buf, next, saved, sent, lost, strayed,
                     torn>>
      /\ pc = "drain" /\ fileexist /\ pc' \in {"delete", "send"}
      /\ saveBuf' = saveBuf \/ (NextOne <= Len(files[rd]) /\ saveBuf' = files[rd][NextOne])
  BY DEF ReadRecord, NextOne, card, info, link, producer, bounds, history
<1>2. rd = readindex /\ readindex \in DOMAIN files
  BY <1>1 DEF IInv, Good, HandlesOK, InUse, Matching, Mistaken
<1>3. /\ \A f \in DOMAIN files : Len(files[f]) \in Nat
      /\ NextOne \in Nat \ {0} /\ DOMAIN files \subseteq Nat
      /\ readindex \in Nat /\ writeindex \in Nat
  BY FileTypes DEF IInv
<1>4. NewestOK' /\ Known'
  BY <1>1, NewestStays
<1>5. Clean => RangeOK' /\ Sorted'
  BY <1>1, UnchangedSorted, GrownSorted DEF OInv, RangeOK, Running, Left
<1>6. Clean => HandFirst'
  <2>1. CASE saveBuf' = saveBuf
    BY <1>1, <2>1, UnchangedSorted DEF OInv
  <2>2. CASE NextOne <= Len(files[rd]) /\ saveBuf' = files[rd][NextOne]
    <3> SUFFICES ASSUME Clean, NEW f \in DOMAIN files, saveBuf' \notin In(f), NEW x \in In(f)
                 PROVE  saveBuf' < x
      BY <1>1, SameFiles DEF HandFirst
    <3>1. saveBuf' \in In(readindex)
      BY <1>2, <1>3, <2>2 DEF In
    <3>2. f \in readindex..writeindex /\ f # readindex
      BY <1>1, <3>1 DEF OInv, RangeOK, Running
    <3>3. readindex < f
      BY <1>3, <3>2
    <3> QED
      BY <1>2, <3>1, <3>3 DEF OInv, Sorted
  <2> QED
    BY <1>1, <2>1, <2>2
<1> QED
  BY <1>1, <1>4, <1>5, <1>6 DEF OInv, Clean

LEMMA DeleteSorted == ASSUME IInv, SInv, OInv, DeleteFile PROVE OInv'
<1>1. /\ UNCHANGED <<readindex, writeindex, fileexist, saveBuf, buf, next, saved, sent, lost, strayed,
                     torn>>
      /\ pc = "delete" /\ pc' = "index"
      /\ DOMAIN files' \subseteq DOMAIN files /\ \A f \in DOMAIN files' : files'[f] = files[f]
  BY DEF DeleteFile, info, reading, link, producer, bounds, history
<1>2. \A f \in DOMAIN files' : In(f)' = In(f)
  BY <1>1 DEF In
<1>3. NewestOK' /\ Known'
  BY <1>1, NewestStays
<1>4. Clean => Sorted'
  BY <1>1, <1>2 DEF OInv, Sorted
<1>5. Clean => RangeOK' /\ HandFirst'
  BY <1>1, <1>2 DEF OInv, RangeOK, Running, Left, HandFirst
<1> QED
  BY <1>1, <1>3, <1>4, <1>5 DEF OInv, Clean

(* The file that the index leaves behind is no longer there. *)
LEMMA AdvanceSorted == ASSUME IInv, SInv, OInv, AdvanceIndex PROVE OInv'
<1>1. /\ UNCHANGED <<files, fileexist, saveBuf, buf, next, saved, sent, lost, strayed, torn>>
      /\ pc = "index" /\ pc' = "truncate"
      /\ \/ readindex = writeindex
         \/ readindex' = readindex + 1 /\ writeindex' = writeindex /\ cont' = "open"
  BY DEF AdvanceIndex, card, reading, link, producer, bounds, history
<1>2. readindex \notin DOMAIN files /\ fileexist
  BY <1>1 DEF SInv, ReaderOK, IInv, Good, ChangeOK
<1>3. NewestOK' /\ Known'
  BY <1>1, NewestStays
<1>4. Clean => Sorted' /\ HandFirst'
  BY <1>1, UnchangedSorted DEF OInv
<1>5. \A f \in DOMAIN files : In(f)' = In(f)
  BY <1>1, SameFiles
<1>6. Clean => RangeOK'
  <2> SUFFICES ASSUME Clean, NEW f \in DOMAIN files,
                      f \notin readindex'..writeindex' \/ ~fileexist' \/ Left'
               PROVE  In(f) = {}
    BY <1>1, <1>5 DEF RangeOK
  <2>1. readindex \in Nat /\ writeindex \in Nat /\ f \in Nat /\ f # readindex
    BY <1>2, FileTypes DEF IInv
  <2>2. f \notin readindex..writeindex
    <3>1. CASE readindex = writeindex
      BY <2>1, <3>1
    <3>2. CASE readindex' = readindex + 1 /\ writeindex' = writeindex /\ cont' = "open"
      BY <1>1, <1>2, <2>1, <3>2 DEF Left
    <3> QED
      BY <1>1, <3>1, <3>2
  <2> QED
    BY <1>1, <2>2 DEF OInv, RangeOK, Running
<1> QED
  BY <1>1, <1>3, <1>4, <1>6 DEF OInv, Clean

-----------------------------------------------------------------------------
LEMMA NextSorted == ASSUME IInv, SInv, OInv, [Next]_vars PROVE OInv'
<1>1. CASE \/ NoRecord \/ LiveSend \/ NoDrain \/ Connect \/ LinkLoss
           \/ SaveFileCounterOpen \/ SaveFileCounterClose \/ DrainEnd \/ Send \/ SendFails
  BY <1>1, StillSorted
<1>2. CASE OpenFirst \/ Rollover \/ OpenNext
  BY <1>2, OpenSorted
<1>3. CASE SaveData2SdCard
  BY <1>3, SaveSorted
<1>4. CASE ReadRecord
  BY <1>4, ReadSorted
<1>5. CASE DeleteFile
  BY <1>5, DeleteSorted
<1>6. CASE AdvanceIndex
  BY <1>6, AdvanceSorted
<1>7. CASE Boot
  BY <1>7, BootSorted
<1>8. CASE Crash
  BY <1>8, CrashSorted
<1>9. CASE Produce
  BY <1>9, ProduceSorted
<1>10. CASE UNCHANGED vars
  <2>1. UNCHANGED <<files, readindex, writeindex, fileexist, saveBuf, buf, next, pc, cont, saved, sent,
                    lost, strayed, torn>>
    BY <1>10 DEF vars, card, info, reading, producer, history
  <2>2. NewestOK' /\ Known'
    BY <2>1, NewestStays
  <2> QED
    BY <2>1, <2>2, UnchangedSorted DEF OInv, Clean, RangeOK, Running, Left
<1> QED
  BY <1>1, <1>2, <1>3, <1>4, <1>5, <1>6, <1>7, <1>8, <1>9, <1>10 DEF Next, Upload

(* OrderInvariance: in every state the files and the records in them stand   *)
(* in the order in which they were written, whatever sizes and however many  *)
(* failures (OInv).                                                         *)
THEOREM OrderInvariance == Spec => [](IInv /\ SInv /\ OInv)
<1>1. Init => OInv
  BY OInvInit
<1>2. OInv /\ (IInv /\ SInv) /\ [Next]_vars => OInv'
  BY NextSorted
<1> QED
  BY <1>1, <1>2, StoreInvariance, PTL DEF Spec

(* What has not been dealt with when a record leaves is younger than it. *)
LEMMA LiveOrder ==
  ASSUME IInv, SInv, OInv, LiveSend, Clean, NEW s \in sent' \ sent
  PROVE  1..(s - 1) \subseteq sent \cup lost
<1>1. pc = "buffer" /\ buf # None /\ ~fileexist /\ s = buf
  BY DEF LiveSend
<1>2. s = next - 1 /\ next \in Nat
  BY <1>1, FileTypes DEF IInv, OInv, NewestOK
<1> SUFFICES ASSUME NEW x \in 1..(s - 1) PROVE x \in sent \cup lost
  OBVIOUS
<1>3. x \in 1..(next - 1) /\ x # buf
  BY <1>1, <1>2
<1>4. CASE x \in saved
  <2>1. Waits(x) /\ x \notin Hand
    BY <1>1, <1>4 DEF SInv, Covered, Hand
  <2>2. \A f \in DOMAIN files : In(f) = {}
    BY <1>1 DEF OInv, RangeOK, Running
  <2>3. \A f \in DOMAIN files : \A k \in 1..Len(files[f]) : files[f][k] \in In(f)
    BY DEF In
  <2> QED
    BY <1>1, <2>1, <2>2, <2>3 DEF Waits
<1> QED
  BY <1>3, <1>4 DEF OInv, Known

LEMMA CardOrder ==
  ASSUME IInv, SInv, OInv, Send, Clean, NEW s \in sent' \ sent
  PROVE  1..(s - 1) \subseteq sent \cup lost
<1>1. pc = "send" /\ s = saveBuf /\ fileexist
  BY DEF Send, IInv, Good, ChangeOK
<1>2. Matching /\ InUse
  BY <1>1 DEF IInv, Good, HandlesOK, InUse, Mistaken
<1>3. /\ saveBuf \in Nat /\ next \in Nat /\ buf \in Nat /\ DOMAIN files \subseteq Nat
      /\ \A f \in DOMAIN files : Len(files[f]) \in Nat /\ In(f) \subseteq Nat
      /\ NextOne \in Nat \ {0} /\ readindex \in Nat /\ writeindex \in Nat
  BY FileTypes DEF IInv
<1>4. saveBuf < next /\ (buf # None => buf = next - 1 /\ buf # saveBuf)
  BY DEF SInv, NumbersOK, OInv, NewestOK
<1> SUFFICES ASSUME NEW x \in 1..(s - 1) PROVE x \in sent \cup lost
  OBVIOUS
<1>5. x < saveBuf /\ x \in 1..(next - 1) /\ x # buf
  BY <1>1, <1>3, <1>4 DEF None
<1>6. CASE x \in saved
  <2>1. Waits(x) /\ x \notin Hand
    BY <1>1, <1>5, <1>6 DEF SInv, Covered, Hand
  <2>2. ASSUME NEW f \in DOMAIN files, NEW k \in 1..Len(files[f]), x = files[f][k],
               f \in readindex..writeindex, k >= Ahead(f)
        PROVE  FALSE
    <3>1. x \in In(f)
      BY <2>2 DEF In
    <3>2. CASE saveBuf \notin In(f)
      BY <1>3, <1>5, <2>2, <3>1, <3>2 DEF OInv, HandFirst
    <3>3. CASE saveBuf \in In(f)
      <4>1. f = readindex /\ rd = f
        BY <1>1, <1>2, <2>2, <3>3 DEF SInv, HandOK, Running, Matching
      <4>2. NextOne > 1 /\ saveBuf = files[f][NextOne - 1] /\ k >= NextOne
        BY <1>1, <2>2, <3>3, <4>1 DEF SInv, PlaceOK, Ahead
      <4>3. NextOne - 1 \in 1..Len(files[f]) /\ NextOne - 1 < k
        BY <1>3, <2>2, <4>2
      <4>4. files[f][NextOne - 1] < files[f][k]
        BY <2>2, <4>3 DEF OInv, Sorted
      <4>5. saveBuf < x
        BY <2>2, <4>2, <4>4
      <4> QED
        BY <1>3, <1>5, <4>5
    <3> QED
      BY <3>2, <3>3
  <2> QED
    BY <1>1, <2>1, <2>2 DEF Waits
<1> QED
  BY <1>5, <1>6 DEF OInv, Known

LEMMA OrderStep ==
  ASSUME IInv, SInv, OInv, [Next]_vars, ~strayed', ~torn'
  PROVE  \A r \in sent' \ sent : 1..(r - 1) \subseteq sent \cup lost
<1> SUFFICES ASSUME NEW s \in sent' \ sent PROVE 1..(s - 1) \subseteq sent \cup lost
  OBVIOUS
<1>1. CASE LiveSend
  <2>1. Clean
    BY <1>1 DEF LiveSend, Clean
  <2> QED
    BY <1>1, <2>1, LiveOrder
<1>2. CASE Send
  <2>1. Clean
    BY <1>2 DEF Send, Clean
  <2> QED
    BY <1>2, <2>1, CardOrder
<1>3. CASE NoRecord \/ OpenFirst \/ Rollover \/ SaveData2SdCard \/ NoDrain
  BY <1>3 DEF NoRecord, OpenFirst, Rollover, SaveData2SdCard, NoDrain, history
<1>4. CASE SaveFileCounterOpen \/ SaveFileCounterClose \/ ReadRecord \/ DeleteFile \/ AdvanceIndex
  BY <1>4 DEF SaveFileCounterOpen, SaveFileCounterClose, ReadRecord, DeleteFile, AdvanceIndex, history
<1>5. CASE OpenNext \/ DrainEnd \/ SendFails \/ Boot \/ Crash
  BY <1>5 DEF OpenNext, DrainEnd, SendFails, Boot, Crash, history
<1>6. CASE Produce \/ Connect \/ LinkLoss \/ UNCHANGED vars
  BY <1>6 DEF Produce, Connect, LinkLoss, vars, history
<1> QED
  BY <1>1, <1>2, <1>3, <1>4, <1>5, <1>6 DEF Next, Upload

(* InOrderCorrect: when a record is sent for the first time, live or from    *)
(* the card, every record produced before it has been sent or given up, as   *)
(* long as no position of another file was taken and no start found the      *)
(* card torn (Dicor_upload.c:1842-1867, 1923-1942, with breakpoint.c).       *)
THEOREM InOrderCorrect == Spec => InOrder
<1>1. (IInv /\ SInv /\ OInv) /\ [Next]_vars =>
        [~strayed' /\ ~torn' => \A r \in sent' \ sent : 1..(r - 1) \subseteq sent \cup lost]_vars
  BY OrderStep
<1> QED
  BY <1>1, OrderInvariance, PTL DEF Spec, InOrder

=============================================================================
