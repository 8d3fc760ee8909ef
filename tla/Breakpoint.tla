----------------------------- MODULE Breakpoint -----------------------------
(***************************************************************************)
(* Store and forward on the SD card (breakpoint.c, and the loop of         *)
(* dicor_upload_data_task that uses it).  While the data centre cannot be  *)
(* reached the records are appended to numbered files, a new one when the  *)
(* last is full, and the file FileCounter keeps the numbers of the file    *)
(* read and the file written.  When the connection is back the files are   *)
(* read from the first record on, sent and deleted, and until they are     *)
(* gone new records go behind them.  Power may fail between any two        *)
(* operations on the card.                                                 *)
(*                                                                         *)
(* Positions in a file count in units of the eight bytes of a record's     *)
(* header (0xAA..); every record has R of them.                            *)
(***************************************************************************)
EXTENDS Integers, Sequences, FiniteSets, SequencesExt

CONSTANTS
  R,           \* units of a record
  Full,        \* records after which a file is full (FILEMAXSIZE)
  EofKinds,    \* when feof() of the card's file system says yes: once a read
               \* stopped "atEnd" of the file, or only once one went "past" it
  MaxRec,      \* bound: records produced
  MaxFail,     \* bound: failed sends and lost links
  MaxCrash     \* bound: power failures

ASSUME SizesAssumption == R \in Nat \ {0, 1} /\ Full \in Nat \ {0}
ASSUME EofAssumption == EofKinds \subseteq {"atEnd", "past"} /\ EofKinds # {}
ASSUME BoundsAssumption == MaxRec \in Nat /\ MaxFail \in Nat /\ MaxCrash \in Nat

VARIABLES
  files,       \* the card: the records in each file TempDataNNNN
  counter,     \* the card: FileCounter, <<>> while it is empty
  eof,         \* the kind of feof(), fixed for a behaviour
  readindex, writeindex, rd, wr, fileexist,    \* BreakPointInfo
  pos,         \* the position of fd_read_ptr
  offset, bak, \* offset and bak_offset
  saveBuf,     \* Save_Data_Buff: the last record read from the card
  conn,        \* eth_st = ETH_CABLE_IP_CON
  firstPackage,
  buf,         \* upload_buffer: the record that can be read
  pc, cont,    \* where the upload task is, and where SaveFileCounter returns to
  next,        \* the next record produced
  fails, crashes,
  saved, sent, \* history: records written to the card, records sent
  lost,        \* history: records given up, see the actions that add to it
  bakFile,     \* history: the file bak was taken in
  strayed,     \* history: fd_read_ptr was put to a position of another file
  torn         \* history: a start found FileCounter and the files disagreeing

card == <<files, counter, eof>>
info == <<readindex, writeindex, rd, wr, fileexist>>
reading == <<pos, offset, bak, bakFile, saveBuf>>
link == <<conn, firstPackage>>
producer == <<buf, next>>
bounds == <<fails, crashes>>
history == <<saved, sent, lost, strayed, torn>>
vars == <<card, info, reading, link, producer, pc, cont, bounds, history>>

None == 0        \* no record
NoFile == -1     \* the NULL file pointer

Running == pc \notin {"off", "fault"}
OnCard == UNION {ToSet(files[f]) : f \in DOMAIN files}

(* fopen(name, "a+"): a file that does not exist is created. *)
Opened(f, fs) == [g \in DOMAIN fs \cup {f} |-> IF g \in DOMAIN fs THEN fs[g] ELSE <<>>]

(* The record taken from the card and not yet dealt with. *)
Hand == IF \/ pc \in {"delete", "index", "open", "end", "send"}
           \/ pc \in {"truncate", "write"} /\ cont # "append"
          THEN {saveBuf} \ {None} ELSE {}

(* A card on which no record is waiting. *)
Init ==
  /\ files = <<>> /\ counter = <<0, 0>> /\ eof \in EofKinds
  /\ readindex = 0 /\ writeindex = 0 /\ rd = NoFile /\ wr = NoFile /\ fileexist = FALSE
  /\ pos = 0 /\ offset = 0 /\ bak = 0 /\ bakFile = 0 /\ saveBuf = None
  /\ conn = FALSE /\ firstPackage = FALSE
  /\ buf = None /\ next = 1 /\ pc = "off" /\ cont = "append"
  /\ fails = 0 /\ crashes = 0
  /\ saved = {} /\ sent = {} /\ lost = {} /\ strayed = FALSE /\ torn = FALSE

-----------------------------------------------------------------------------
(* BreakpointInit with ChkFileExist, and the first attempt to connect.  An  *)
(* empty FileCounter leaves both indices zero.                              *)
Boot ==
  /\ pc = "off"
  /\ LET r == IF counter = <<>> THEN 0 ELSE counter[1]
         w == IF counter = <<>> THEN 0 ELSE counter[2]
         exist == r # 0 \/ 0 \in DOMAIN files
         open == exist \/ r # w
     IN /\ readindex' = r /\ writeindex' = w /\ fileexist' = exist
        /\ rd' = IF open THEN r ELSE NoFile
        /\ wr' = IF open THEN w ELSE NoFile
        /\ files' = IF open THEN Opened(r, Opened(w, files)) ELSE files
        /\ bakFile' = r
        /\ torn' = (\/ torn
                    \/ r # w /\ ~exist
                    \/ \E f \in DOMAIN files \ (r..w) : files[f] # <<>>)
  /\ pos' = 0 /\ offset' = 0 /\ bak' = 0 /\ saveBuf' = None
  /\ conn' \in BOOLEAN /\ firstPackage' = FALSE
  /\ pc' = "buffer" /\ cont' = "append"
  /\ UNCHANGED <<counter, eof, producer, bounds, saved, sent, lost, strayed>>

(* Power fails, or the program restarts itself. *)
Crash ==
  /\ Running /\ crashes < MaxCrash
  /\ crashes' = crashes + 1
  /\ pc' = "off" /\ buf' = None /\ conn' = FALSE
  /\ lost' = lost \cup ({buf} \ {None}) \cup (Hand \ (OnCard \cup sent))
  /\ UNCHANGED <<card, info, reading, firstPackage, next, cont, fails, saved, sent, strayed, torn>>

(* GATEWAY_ReadData fills the upload buffer and marks it CAN_READ. *)
Produce ==
  /\ Running /\ buf = None /\ next <= MaxRec
  /\ buf' = next /\ next' = next + 1
  /\ UNCHANGED <<card, info, reading, link, pc, cont, bounds, history>>

(* dicor_check_connect *)
Connect ==
  /\ Running /\ ~conn
  /\ conn' = TRUE /\ firstPackage' = TRUE
  /\ UNCHANGED <<card, info, reading, producer, pc, cont, bounds, history>>

(* One of the two tests of the link finds it down. *)
LinkLoss ==
  /\ pc \in {"buffer", "drain"} /\ conn /\ fails < MaxFail
  /\ conn' = FALSE /\ fails' = fails + 1
  /\ UNCHANGED <<card, info, reading, firstPackage, producer, pc, cont, crashes, history>>

-----------------------------------------------------------------------------
(* The record in the upload buffer. *)

Taken == buf' = None /\ pc' = "drain" /\ UNCHANGED next

NoRecord ==
  /\ pc = "buffer" /\ buf = None
  /\ pc' = "drain"
  /\ UNCHANGED <<card, info, reading, link, producer, cont, bounds, history>>

(* A slip: the card is not asked *)
LiveSendOvertakes ==
  /\ pc = "buffer" /\ buf # None /\ conn
  /\ Taken
  /\ firstPackage' = FALSE
  /\ IF firstPackage
       THEN lost' = lost \cup {buf} /\ UNCHANGED sent
       ELSE sent' = sent \cup {buf} /\ UNCHANGED lost
  /\ UNCHANGED <<card, info, reading, conn, cont, bounds, saved, strayed, torn>>

(* Nothing waits on the card: the record is sent at once, but the first one  *)
(* after a connection is thrown away.  A record that cannot be sent is lost. *)
LiveSend ==
  /\ pc = "buffer" /\ buf # None /\ conn /\ ~fileexist
  /\ Taken
  /\ firstPackage' = FALSE
  /\ \/ /\ firstPackage
        /\ lost' = lost \cup {buf}
        /\ UNCHANGED <<sent, conn, fails>>
     \/ /\ ~firstPackage
        /\ sent' = sent \cup {buf}
        /\ UNCHANGED <<lost, conn, fails>>
     \/ /\ ~firstPackage /\ fails < MaxFail
        /\ lost' = lost \cup {buf} /\ conn' = FALSE /\ fails' = fails + 1
        /\ UNCHANGED sent
  /\ UNCHANGED <<card, info, reading, cont, crashes, saved, strayed, torn>>

OpenFirst ==
  /\ pc = "buffer" /\ buf # None /\ ~conn /\ ~fileexist
  /\ fileexist' = TRUE
  /\ files' = Opened(0, files) /\ rd' = 0 /\ wr' = 0 /\ pos' = 0
  /\ UNCHANGED <<counter, eof, readindex, writeindex, offset, bak, bakFile, saveBuf, link,
                 producer, pc, cont, bounds, history>>

Saving == pc = "buffer" /\ buf # None /\ fileexist

(* SaveData2SdCard, a file too long: the next one is opened. *)
Rollover ==
  /\ Saving /\ Len(files[wr]) > Full
  /\ writeindex' = writeindex + 1 /\ wr' = writeindex + 1
  /\ files' = Opened(writeindex + 1, files)
  /\ pc' = "truncate" /\ cont' = "append"
  /\ UNCHANGED <<counter, eof, readindex, rd, fileexist, reading, link, producer, bounds, history>>

(* A slip: the handle for reading is not opened again with the other *)
SaveKeepsHandle ==
  /\ (Saving /\ Len(files[wr]) <= Full) \/ pc = "append"
  /\ files' = [files EXCEPT ![wr] = Append(@, buf)]
  /\ saved' = saved \cup {buf}
  /\ buf' = None
  /\ pc' = IF rd = wr THEN "fault" ELSE "drain"
  /\ UNCHANGED <<counter, eof, info, reading, link, next, cont, bounds, sent, lost, strayed, torn>>

(* SaveData2SdCard: the record is written, and is on the card when the file *)
(* was closed.  fd_write_ptr is opened again, and fd_read_ptr with it when  *)
(* they were the same and the indices say so; else fd_read_ptr is closed.   *)
SaveData2SdCard ==
  /\ (Saving /\ Len(files[wr]) <= Full) \/ pc = "append"
  /\ files' = Opened(writeindex, [files EXCEPT ![wr] = Append(@, buf)])
  /\ wr' = writeindex
  /\ rd' = IF readindex = writeindex THEN writeindex ELSE rd
  /\ saved' = saved \cup {buf}
  /\ buf' = None
  /\ pc' = IF rd = wr /\ readindex # writeindex THEN "fault" ELSE "drain"
  /\ UNCHANGED <<counter, eof, readindex, writeindex, fileexist, reading, link, next, cont, bounds,
                 sent, lost, strayed, torn>>

-----------------------------------------------------------------------------
(* SaveFileCounter: fopen(name, "w+") empties the file, fclose writes it. *)

SaveFileCounterOpen ==
  /\ pc = "truncate"
  /\ counter' = <<>> /\ pc' = "write"
  /\ UNCHANGED <<files, eof, info, reading, link, producer, cont, bounds, history>>

SaveFileCounterClose ==
  /\ pc = "write"
  /\ counter' = <<readindex, writeindex>> /\ pc' = cont
  /\ UNCHANGED <<files, eof, info, reading, link, producer, cont, bounds, history>>

-----------------------------------------------------------------------------
(* The records on the card. *)

NoDrain ==
  /\ pc = "drain" /\ ~(fileexist /\ conn)
  /\ pc' = "buffer"
  /\ UNCHANGED <<card, info, reading, link, producer, cont, bounds, history>>

(* The record read next: the one at the position of the file; where no      *)
(* header is, the first one with its header behind offset.                  *)
Record(p, o) == IF p % R = 0 THEN (p \div R) + 1 ELSE (o \div R) + 2

(* BreakpointContinuingly reads a record.  Offset is advanced by the length *)
(* of the record without its header, but is right after a search.  At the   *)
(* end of the file Save_Data_Buff keeps what it had.                        *)
ReadRecord ==
  /\ pc = "drain" /\ fileexist /\ conn
  /\ LET k == Record(pos, offset)
         n == Len(files[rd])
     IN /\ IF k <= n
             THEN /\ saveBuf' = files[rd][k]
                  /\ pos' = k * R
                  /\ offset' = IF pos % R = 0 THEN offset + R - 1 ELSE k * R
             ELSE UNCHANGED <<saveBuf, pos, offset>>
        /\ pc' = IF k > n \/ (eof = "atEnd" /\ k = n) THEN "delete" ELSE "send"
  /\ UNCHANGED <<card, info, bak, bakFile, link, producer, cont, bounds, history>>

(* The file has been read: it is deleted, *)
DeleteFile ==
  /\ pc = "delete"
  /\ files' = [f \in DOMAIN files \ {readindex} |-> files[f]]
  /\ pc' = "index"
  /\ UNCHANGED <<counter, eof, info, reading, link, producer, cont, bounds, history>>

(* the indices are advanced, or reset when it was the last one, *)
AdvanceIndex ==
  /\ pc = "index"
  /\ IF readindex = writeindex
       THEN /\ readindex' = 0 /\ writeindex' = 0 /\ rd' = NoFile /\ wr' = NoFile
            /\ cont' = "end"
       ELSE /\ readindex' = readindex + 1 /\ cont' = "open"
            /\ UNCHANGED <<writeindex, rd, wr>>
  /\ pc' = "truncate"
  /\ UNCHANGED <<card, fileexist, reading, link, producer, bounds, history>>

(* and the next one is opened; bak_offset stays as it was. *)
OpenNext ==
  /\ pc = "open"
  /\ rd' = readindex /\ files' = Opened(readindex, files)
  /\ pos' = 0 /\ offset' = 0
  /\ pc' = "send"
  /\ UNCHANGED <<counter, eof, readindex, writeindex, wr, fileexist, bak, bakFile, saveBuf, link,
                 producer, cont, bounds, history>>

(* A slip: the position is put back after a success too *)
SendRestores ==
  /\ pc = "send"
  /\ pc' = "buffer"
  /\ sent' = sent \cup ({saveBuf} \ {None})
  /\ offset' = bak /\ pos' = bak
  /\ UNCHANGED <<card, info, bak, bakFile, saveBuf, link, producer, cont, bounds,
                 saved, lost, strayed, torn>>

(* No file is left: what was read last is not sent. *)
DrainEnd ==
  /\ pc = "end"
  /\ offset' = 0 /\ bak' = 0 /\ bakFile' = 0 /\ fileexist' = FALSE
  /\ lost' = lost \cup ({saveBuf} \ ({None} \cup sent))
  /\ pc' = "buffer"
  /\ UNCHANGED <<card, readindex, writeindex, rd, wr, pos, saveBuf, link, producer, cont, bounds,
                 saved, sent, strayed, torn>>

(* A slip: the position is not put back *)
SendFailsForgets ==
  /\ pc = "send" /\ fails < MaxFail
  /\ pc' = "buffer"
  /\ conn' = FALSE /\ fails' = fails + 1
  /\ strayed' = (strayed \/ (bak # 0 /\ bakFile # readindex))
  /\ lost' = lost \cup (Hand \ (OnCard \cup sent))
  /\ UNCHANGED <<card, info, reading, firstPackage, producer, cont, crashes, saved, sent, torn>>

Send ==
  /\ pc = "send"
  /\ pc' = "buffer"
  /\ sent' = sent \cup ({saveBuf} \ {None})
  /\ bak' = offset /\ bakFile' = readindex
  /\ UNCHANGED <<card, info, pos, offset, saveBuf, link, producer, cont, bounds,
                 saved, lost, strayed, torn>>

SendFails ==
  /\ pc = "send" /\ fails < MaxFail
  /\ pc' = "buffer"
  /\ conn' = FALSE /\ fails' = fails + 1
  /\ offset' = bak /\ pos' = bak
  /\ strayed' = (strayed \/ (bak # 0 /\ bakFile # readindex))
  /\ lost' = lost \cup (Hand \ (OnCard \cup sent))
  /\ UNCHANGED <<card, info, bak, bakFile, saveBuf, firstPackage, producer, cont, crashes,
                 saved, sent, torn>>

-----------------------------------------------------------------------------
Upload ==
  \/ NoRecord \/ LiveSend \/ OpenFirst \/ Rollover \/ SaveData2SdCard
  \/ SaveFileCounterOpen \/ SaveFileCounterClose
  \/ NoDrain \/ ReadRecord \/ DeleteFile \/ AdvanceIndex \/ OpenNext \/ DrainEnd
  \/ Send \/ SendFails

Next == Upload \/ Boot \/ Crash \/ Produce \/ Connect \/ LinkLoss

Spec == Init /\ [][Next]_vars

(* The upload task is always ready to run, the connect task tries again     *)
(* every second, and power comes back.                                      *)
FairSpec == Spec /\ WF_vars(Upload) /\ WF_vars(Connect) /\ WF_vars(Boot)

-----------------------------------------------------------------------------
(* Properties *)

(* TypeOK: the variables hold values of the program's types; the read and   *)
(* write handles name files that are on the card whenever it is in use.     *)
CardTypes ==
  /\ DOMAIN files \subseteq Nat /\ \A f \in DOMAIN files : files[f] \in Seq(1..MaxRec)
  /\ counter = <<>> \/ counter \in Nat \X Nat
  /\ eof \in EofKinds
InfoTypes ==
  /\ readindex \in Nat /\ writeindex \in Nat /\ readindex <= writeindex
  /\ fileexist \in BOOLEAN
  /\ fileexist /\ pc \in {"buffer", "append", "drain", "send"} => {rd, wr} \subseteq DOMAIN files
ReadTypes == pos \in Nat /\ offset \in Nat /\ bak \in Nat /\ saveBuf \in 0..MaxRec
TaskTypes ==
  /\ buf \in 0..MaxRec /\ next \in 1..(MaxRec + 1)
  /\ pc \in {"off", "buffer", "append", "drain", "truncate", "write", "delete", "index", "open",
             "end", "send", "fault"}
  /\ cont \in {"append", "open", "end"}
  /\ fails \in 0..MaxFail /\ crashes \in 0..MaxCrash
LinkTypes == conn \in BOOLEAN /\ firstPackage \in BOOLEAN
HistoryTypes == saved \cup sent \cup lost \subseteq 1..MaxRec /\ strayed \in BOOLEAN /\ torn \in BOOLEAN
TypeOK == CardTypes /\ InfoTypes /\ ReadTypes /\ TaskTypes /\ LinkTypes /\ HistoryTypes

(* The records the upload task will still read: those behind the position   *)
(* in the file being read, all of the files behind it, and the one it has.  *)
Pending ==
  LET Ahead(f) == IF f = readindex /\ rd = f THEN Record(pos, offset) ELSE 1
  IN Hand \cup UNION {{files[f][k] : k \in Ahead(f)..Len(files[f])} :
                       f \in DOMAIN files \cap (readindex..writeindex)}

(* NothingPassedOver: until the read position has been carried over from one *)
(* file to another, and unless the start found the card torn, every record   *)
(* that was written to the card and not sent is still ahead of the position. *)
(* Offset is wrong by the header of every record read, the search of the     *)
(* next header must make up for it (breakpoint.c:142-168) while the same     *)
(* handle also writes (56-61, 109-112) and files come and go.                *)
NothingPassedOver ==
  (pc # "off" /\ ~strayed /\ ~torn) => saved \subseteq sent \cup lost \cup Pending

(* SavedKept: the same without the first exception.  The comment at         *)
(* Dicor_upload.c:1928 says the position is put back for the record to be   *)
(* sent again.                                                              *)
SavedKept ==
  (pc # "off" /\ ~torn) => saved \subseteq sent \cup lost \cup Pending

(* OpenHandles: a handle that SaveData2SdCard closed is used only when a     *)
(* power failure came between the deletion of TempData0000 and the saving of *)
(* the counter (breakpoint.c:93-112, 337-377).                               *)
OpenHandles == TypeOK /\ (pc = "fault" => torn)

(* InOrder: the first time a record is sent, all records produced before it  *)
(* have been sent or given up: a live record does not overtake those on the  *)
(* card, and the files come in the order in which they were written.         *)
InOrder ==
  [][~strayed' /\ ~torn' => \A r \in sent' \ sent : 1..(r - 1) \subseteq sent \cup lost]_vars

(* Drains: once sends stop failing the card is emptied, whatever was lost    *)
(* on the way, so that records are sent live again.                          *)
Drains == <>[](~fileexist \/ pc = "fault")

=============================================================================
