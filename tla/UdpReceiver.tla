----------------------------- MODULE UdpReceiver ------------------------------
(***************************************************************************)
(* The receiver of SLAUDPReceive.cpp: udpReceiveTask turns packets from a  *)
(* socket (or from an MTS file, useSlDemux) into frames; ffmpegTask pops   *)
(* them with SLADemuxNextFrame, asks SLAUDPStatus, re-targets the receiver *)
(* and destroys it; the application's thread starts and stops saving the   *)
(* raw stream.  QSIZE buffers circulate between emptyMbx, the task,        *)
(* fullMbx and the consumer.                                               *)
(*                                                                         *)
(* A mailbox is a sequence of at most QSIZE frames (module Mailbox shows   *)
(* that the implementation behaves so); a message is the frame struct,     *)
(* copied by value, of which the buffer pointer matters here.  What a      *)
(* packet is worth to the demultiplexer (modules TsDemux and RtpFrames) is *)
(* a choice: how much of it a call consumes and whether a frame results.   *)
(***************************************************************************)
EXTENDS Naturals, Sequences, FiniteSets

CONSTANTS
  Buffers,      (* the QSIZE frame buffers                                 *)
  NULL,         (* the null pointer: frame.buffer = 0, FILE* 0             *)
  Savers,       (* application threads that call Start- and StopSaving     *)
  Files,        (* handles fopen can return for the dump file              *)
  Inputs,       (* values of useSlDemux                                    *)
  MaxUnits,     (* bound of the model: pieces of a packet                  *)
  MaxFrames     (* bound of the model: frames demultiplexed                *)

ASSUME UdpAssumption ==
  /\ IsFiniteSet(Buffers)
  /\ Buffers # {}
  /\ NULL \notin Buffers
  /\ NULL \notin Files
  /\ Inputs \subseteq BOOLEAN
  /\ MaxUnits \in Nat \ {0}
  /\ MaxFrames \in Nat

VARIABLES
  useSlDemux,          (* read an MTS file instead of a socket             *)
  emptyMbx, fullMbx,   (* the two mailboxes                                *)
  doneSem, lockSem, dumpSem,   (* the semaphores' counts                   *)
  done,                (* data->done, written and read without a lock      *)
  busy,                (* data->busy                                       *)
  source,              (* the FILE* of readPktCtx: "open", "closed" or     *)
                       (* "null"; for a socket "open" once initSocket ran  *)
  units,               (* pieces of data->pkt not yet demultiplexed        *)
  dumpFile,            (* data->dumpFile                                   *)
  openFiles,           (* dump files fopen returned and fclose did not get *)
  task,                (* where udpReceiveTask is                          *)
  frame,               (* its local frame (the buffer)                     *)
  rv,                  (* its local rv                                     *)
  haveFrame,           (* _demuxNextFrame's local haveFrame                *)
  content,             (* which demultiplexed frame each buffer holds      *)
  nFrames,             (* frames demultiplexed so far                      *)
  consumer,            (* where ffmpegTask is in its calls                 *)
  popped,              (* the frame SLADemuxNextFrame popped               *)
  delivered,           (* the last frame copied out to the caller          *)
  saver,               (* where each saver is in its call                  *)
  freed                (* SLADestroyUDPReceive has released everything     *)

mboxes   == <<emptyMbx, fullMbx>>
semas    == <<doneSem, lockSem, dumpSem>>
dump     == <<dumpFile, openFiles>>
taskVars == <<useSlDemux, task, frame, rv, haveFrame>>
stream   == <<source, units, content, nFrames>>
userVars == <<useSlDemux, consumer, popped, delivered>>
vars == <<mboxes, semas, done, busy, dump, taskVars, stream, userVars, saver, freed>>

QSIZE == Cardinality(Buffers)

(* The receiver's mailboxes hold frames; SL_FOREVER posts wait for room. *)
HasRoom(mbx) == Len(mbx) < QSIZE

BufferOrders ==
  {q \in [1 .. QSIZE -> Buffers] : \A i, j \in 1 .. QSIZE : q[i] = q[j] => i = j}

(* SLAInitUDPReceive, up to the creation of the thread. *)
Init ==
  /\ useSlDemux \in Inputs
  /\ emptyMbx \in BufferOrders
  /\ fullMbx = << >>
  /\ doneSem = 0 /\ lockSem = 1 /\ dumpSem = 0
  /\ done = FALSE /\ busy = FALSE
  /\ source = "null" /\ units = 0
  /\ dumpFile = NULL /\ openFiles = {}
  /\ task = "initSocket" /\ frame = NULL /\ rv = "SUCCESS" /\ haveFrame = FALSE
  /\ content = [b \in Buffers |-> 0]
  /\ nFrames = 0
  /\ consumer = "idle" /\ popped = NULL /\ delivered = 0
  /\ saver = [s \in Savers |-> "idle"]
  /\ freed = FALSE

TaskGoto(from, to) == task = from /\ task' = to
UserGoto(from, to) == consumer = from /\ consumer' = to
SaverGoto(s, from, to) == saver[s] = from /\ saver' = [saver EXCEPT ![s] = to]

-------------------------------------------------------------------------------
(* udpReceiveTask *)

(* initSocket, then the post that lets the other threads at dumpSem.  The   *)
(* file may not exist; binding the socket is not checked.                   *)
InitSocket ==
  /\ TaskGoto("initSocket", "top")
  /\ source' \in IF useSlDemux THEN {"open", "null"} ELSE {"open"}
  /\ dumpSem' = dumpSem + 1
  /\ UNCHANGED <<mboxes, doneSem, lockSem, done, busy, dump, frame, rv, haveFrame,
                 units, content, nFrames, userVars, saver, freed>>

(* while(!data->done) *)
TestDone ==
  /\ task = "top"
  /\ task' = IF done THEN "exit" ELSE "tryEmpty"
  /\ UNCHANGED <<mboxes, semas, done, busy, dump, frame, rv, haveFrame, stream,
                 userVars, saver, freed>>

(* SLAMbxPend(emptyMbx, &frame, 0) *)
TryEmpty ==
  /\ task = "tryEmpty"
  /\ IF emptyMbx # << >>
       THEN /\ frame' = Head(emptyMbx)
            /\ emptyMbx' = Tail(emptyMbx)
            /\ task' = "pendDump"
       ELSE /\ task' = "pendLock"
            /\ UNCHANGED <<frame, emptyMbx>>
  /\ UNCHANGED <<fullMbx, semas, done, busy, dump, rv, haveFrame, stream, userVars,
                 saver, freed>>

PendLock ==
  /\ lockSem > 0
  /\ TaskGoto("pendLock", "setBusy")
  /\ lockSem' = lockSem - 1
  /\ UNCHANGED <<mboxes, doneSem, dumpSem, done, busy, dump, frame, rv, haveFrame,
                 stream, userVars, saver, freed>>

SetBusy ==
  /\ TaskGoto("setBusy", "waitEmpty")
  /\ busy' = TRUE
  /\ lockSem' = lockSem + 1
  /\ UNCHANGED <<mboxes, doneSem, dumpSem, done, dump, frame, rv, haveFrame, stream,
                 userVars, saver, freed>>

(* while(!done && ...: when done ends the wait, frame still names whatever  *)
(* buffer the task held last.                                               *)
WaitEmpty ==
  /\ task = "waitEmpty"
  /\ task' = IF done THEN "pendDump" ELSE "pendEmpty"
  /\ UNCHANGED <<mboxes, semas, done, busy, dump, frame, rv, haveFrame, stream,
                 userVars, saver, freed>>

(* ... !SLAMbxPend(emptyMbx, &frame, 100)): a buffer, or 100 ms without one. *)
PendEmpty ==
  /\ task = "pendEmpty"
  /\ IF emptyMbx # << >>
       THEN /\ frame' = Head(emptyMbx)
            /\ emptyMbx' = Tail(emptyMbx)
            /\ task' = "pendDump"
       ELSE /\ task' = "waitEmpty"
            /\ UNCHANGED <<frame, emptyMbx>>
  /\ UNCHANGED <<fullMbx, semas, done, busy, dump, rv, haveFrame, stream, userVars,
                 saver, freed>>

PendDump ==
  /\ dumpSem > 0
  /\ TaskGoto("pendDump", "demux")
  /\ dumpSem' = dumpSem - 1
  /\ haveFrame' = FALSE
  /\ UNCHANGED <<mboxes, doneSem, lockSem, done, busy, dump, frame, rv, stream,
                 userVars, saver, freed>>

(* Mutant: the packet is demultiplexed to its end, past a complete frame. *)
DemuxLoopToPacketEnd ==
  /\ task = "demux"
  /\ task' = IF done \/ (haveFrame /\ units = 0) THEN "demuxEnd"
             ELSE IF units = 0 THEN "read" ELSE "parse"
  /\ UNCHANGED <<mboxes, semas, done, busy, dump, frame, rv, haveFrame, stream,
                 userVars, saver, freed>>

(* _demuxNextFrame: while(!haveFrame && !data->done) *)
DemuxLoop ==
  /\ task = "demux"
  /\ task' = IF haveFrame \/ done THEN "demuxEnd"
             ELSE IF units = 0 THEN "read" ELSE "parse"
  /\ UNCHANGED <<mboxes, semas, done, busy, dump, frame, rv, haveFrame, stream,
                 userVars, saver, freed>>

(* if(data->done) return SLA_ERROR; return SLA_SUCCESS *)
DemuxEnd ==
  /\ TaskGoto("demuxEnd", "postDump")
  /\ rv' = IF done THEN "ERROR" ELSE "SUCCESS"
  /\ UNCHANGED <<mboxes, semas, done, busy, dump, frame, haveFrame, stream, userVars,
                 saver, freed>>

(* A packet arrives from the socket, or is read from the file. *)
ReadPacket ==
  /\ source = "open"
  /\ TaskGoto("read", "dump")
  /\ units' \in 1 .. MaxUnits
  /\ UNCHANGED <<mboxes, semas, done, busy, dump, frame, rv, haveFrame, source,
                 content, nFrames, userVars, saver, freed>>

(* Mutant: an early return that leaves dumpSem taken. *)
ReadTimeoutKeepsSem ==
  /\ ~useSlDemux
  /\ TaskGoto("read", "hand")
  /\ rv' = "TIMEOUT"
  /\ UNCHANGED <<mboxes, semas, done, busy, dump, frame, haveFrame, stream, userVars,
                 saver, freed>>

(* readDataPacket: nothing in the time allowed. *)
ReadTimeout ==
  /\ ~useSlDemux
  /\ TaskGoto("read", "postDump")
  /\ rv' = "TIMEOUT"
  /\ UNCHANGED <<mboxes, semas, done, busy, dump, frame, haveFrame, stream, userVars,
                 saver, freed>>

(* MtsReadFile: the file could not be opened, or ferror().  The FILE* is    *)
(* closed, but readPktCtx keeps it: reading it once more is undefined, and  *)
(* what fread then reports is an error or an end of file.                   *)
ReadFails ==
  /\ useSlDemux
  /\ TaskGoto("read", "postDump")
  /\ rv' = "FAIL"
  /\ source' = IF source = "null" THEN "null" ELSE "closed"
  /\ UNCHANGED <<mboxes, semas, done, busy, dump, frame, haveFrame, units, content,
                 nFrames, userVars, saver, freed>>

(* MtsReadFile: end of file; _demuxNextFrame sets done. *)
ReadEof ==
  /\ useSlDemux
  /\ source # "null"
  /\ TaskGoto("read", "postDump")
  /\ rv' = "TERMINATE"
  /\ source' = "closed"
  /\ done' = TRUE
  /\ UNCHANGED <<mboxes, semas, busy, dump, frame, haveFrame, units, content, nFrames,
                 userVars, saver, freed>>

(* if(data->dumpFile) { fwrite(..., data->dumpFile); } *)
DumpTest ==
  /\ task = "dump"
  /\ task' = IF dumpFile = NULL THEN "parse" ELSE "dumpWrite"
  /\ UNCHANGED <<mboxes, semas, done, busy, dump, frame, rv, haveFrame, stream,
                 userVars, saver, freed>>

DumpWrite ==
  /\ TaskGoto("dumpWrite", "parse")
  /\ UNCHANGED <<mboxes, semas, done, busy, dump, frame, rv, haveFrame, stream,
                 userVars, saver, freed>>

(* demuxTSPacket / demuxRTPPacket: consumes some of the packet and may      *)
(* complete a frame, written into the buffer of the local frame.  A frame   *)
(* can be completed by a packet that is itself left for the next call; a    *)
(* call that rejects the completed frame is followed by one that consumes.  *)
Parse ==
  /\ TaskGoto("parse", "demux")
  /\ \/ /\ nFrames < MaxFrames
        /\ haveFrame' = TRUE
        /\ nFrames' = nFrames + 1
        /\ content' = [content EXCEPT ![frame] = nFrames + 1]
        /\ units' \in 0 .. units
     \/ /\ units' \in 0 .. units - 1
        /\ UNCHANGED <<haveFrame, nFrames, content>>
  /\ UNCHANGED <<mboxes, semas, done, busy, dump, frame, rv, source, userVars, saver,
                 freed>>

PostDump ==
  /\ TaskGoto("postDump", "hand")
  /\ dumpSem' = dumpSem + 1
  /\ UNCHANGED <<mboxes, doneSem, lockSem, done, busy, dump, frame, rv, haveFrame,
                 stream, userVars, saver, freed>>

(* Mutant: the buffer of a timeout is dropped. *)
HandOverDropsOnTimeout ==
  /\ task = "hand"
  /\ task' = IF ~done /\ rv = "SUCCESS" THEN "deliver" ELSE "top"
  /\ UNCHANGED <<mboxes, semas, done, busy, dump, frame, rv, haveFrame, stream,
                 userVars, saver, freed>>

(* Mutant: a frame is dropped while the consumer is behind. *)
HandOverDropsWhenBehind ==
  /\ task = "hand"
  /\ task' = IF done THEN "top"
             ELSE IF rv = "TIMEOUT" \/ (rv = "SUCCESS" /\ fullMbx # << >>) THEN "giveBack"
             ELSE IF rv = "SUCCESS" THEN "deliver" ELSE "top"
  /\ UNCHANGED <<mboxes, semas, done, busy, dump, frame, rv, haveFrame, stream,
                 userVars, saver, freed>>

(* if(!data->done): a timeout gives the buffer back, a frame goes to the    *)
(* consumer; with any other status the buffer goes nowhere.                 *)
HandOver ==
  /\ task = "hand"
  /\ task' = IF done THEN "top"
             ELSE IF rv = "TIMEOUT" THEN "giveBack"
             ELSE IF rv = "SUCCESS" THEN "deliver" ELSE "top"
  /\ UNCHANGED <<mboxes, semas, done, busy, dump, frame, rv, haveFrame, stream,
                 userVars, saver, freed>>

GiveBack ==
  /\ HasRoom(emptyMbx)
  /\ TaskGoto("giveBack", "top")
  /\ emptyMbx' = Append(emptyMbx, frame)
  /\ UNCHANGED <<fullMbx, semas, done, busy, dump, frame, rv, haveFrame, stream,
                 userVars, saver, freed>>

(* Mutant: the buffer goes to the consumer and back to the pool. *)
DeliverAndGiveBack ==
  /\ HasRoom(fullMbx)
  /\ TaskGoto("deliver", "giveBack")
  /\ fullMbx' = Append(fullMbx, frame)
  /\ UNCHANGED <<emptyMbx, semas, done, busy, dump, frame, rv, haveFrame, stream,
                 userVars, saver, freed>>

Deliver ==
  /\ HasRoom(fullMbx)
  /\ TaskGoto("deliver", "top")
  /\ fullMbx' = Append(fullMbx, frame)
  /\ UNCHANGED <<emptyMbx, semas, done, busy, dump, frame, rv, haveFrame, stream,
                 userVars, saver, freed>>

(* Mutant: no end-of-file mark when the consumer is behind. *)
AnnounceIfEmpty ==
  /\ TaskGoto("exit", "postDone")
  /\ IF rv = "TERMINATE" /\ fullMbx = << >>
       THEN /\ frame' = NULL
            /\ fullMbx' = Append(fullMbx, NULL)
       ELSE UNCHANGED <<frame, fullMbx>>
  /\ UNCHANGED <<emptyMbx, semas, done, busy, dump, rv, haveFrame, stream, userVars,
                 saver, freed>>

(* After the loop: the end of a file is announced by a frame with no buffer. *)
Announce ==
  /\ TaskGoto("exit", "postDone")
  /\ IF rv = "TERMINATE"
       THEN /\ HasRoom(fullMbx)
            /\ frame' = NULL
            /\ fullMbx' = Append(fullMbx, NULL)
       ELSE UNCHANGED <<frame, fullMbx>>
  /\ UNCHANGED <<emptyMbx, semas, done, busy, dump, rv, haveFrame, stream, userVars,
                 saver, freed>>

PostDone ==
  /\ TaskGoto("postDone", "gone")
  /\ doneSem' = doneSem + 1
  /\ UNCHANGED <<mboxes, lockSem, dumpSem, done, busy, dump, frame, rv, haveFrame,
                 stream, userVars, saver, freed>>

Task ==
  \/ InitSocket \/ TestDone \/ TryEmpty \/ PendLock \/ SetBusy
  \/ WaitEmpty \/ PendEmpty \/ PendDump \/ DemuxLoop \/ DemuxEnd
  \/ ReadPacket \/ ReadTimeout \/ ReadFails \/ ReadEof
  \/ DumpTest \/ DumpWrite \/ Parse \/ PostDump
  \/ HandOver \/ GiveBack \/ Deliver \/ Announce \/ PostDone

-------------------------------------------------------------------------------
(* ffmpegTask, the consumer.  Having been told of the end of the file it    *)
(* leaves its loop, and only destroys the receiver.                         *)

taskSide == <<taskVars, stream>>

(* SLADemuxNextFrame: SLAMbxPend(fullMbx, frame, timeout) *)
BeginDemuxNextFrame ==
  /\ UserGoto("idle", "pendFull")
  /\ UNCHANGED <<mboxes, semas, done, busy, dump, taskSide, popped, delivered, saver,
                 freed>>

(* Mutant: the buffer is given back before it is copied out. *)
PendFullGivesBack ==
  /\ consumer = "pendFull"
  /\ fullMbx # << >>
  /\ popped' = Head(fullMbx)
  /\ fullMbx' = Tail(fullMbx)
  /\ emptyMbx' = IF Head(fullMbx) = NULL THEN emptyMbx ELSE Append(emptyMbx, Head(fullMbx))
  /\ consumer' = IF Head(fullMbx) = NULL THEN "eof" ELSE "copyOut"
  /\ UNCHANGED <<semas, done, busy, dump, taskSide, delivered, saver, freed>>

PendFull ==
  /\ consumer = "pendFull"
  /\ fullMbx # << >>
  /\ popped' = Head(fullMbx)
  /\ fullMbx' = Tail(fullMbx)
  /\ consumer' = IF Head(fullMbx) = NULL THEN "eof" ELSE "copyOut"
  /\ UNCHANGED <<emptyMbx, semas, done, busy, dump, taskSide, delivered, saver, freed>>

FullTimeout ==
  /\ fullMbx = << >>
  /\ UserGoto("pendFull", "idle")
  /\ UNCHANGED <<mboxes, semas, done, busy, dump, taskSide, popped, delivered, saver,
                 freed>>

(* The caller's buffer is as large as the receiver's (both are              *)
(* MAX_COMPRESSED_BUFFER_SIZE), so that the copy always fits.               *)
CopyOut ==
  /\ UserGoto("copyOut", "postEmpty")
  /\ delivered' = content[popped]
  /\ UNCHANGED <<mboxes, semas, done, busy, dump, taskSide, popped, saver, freed>>

PostEmpty ==
  /\ HasRoom(emptyMbx)
  /\ UserGoto("postEmpty", "idle")
  /\ emptyMbx' = Append(emptyMbx, popped)
  /\ popped' = NULL
  /\ UNCHANGED <<fullMbx, semas, done, busy, dump, taskSide, delivered, saver, freed>>

(* SLAUDPStatus *)
PendStatus ==
  /\ lockSem > 0
  /\ UserGoto("idle", "status")
  /\ lockSem' = lockSem - 1
  /\ UNCHANGED <<mboxes, doneSem, dumpSem, done, busy, dump, taskSide, popped,
                 delivered, saver, freed>>

ReadStatus ==
  /\ UserGoto("status", "idle")
  /\ busy' = FALSE
  /\ lockSem' = lockSem + 1
  /\ UNCHANGED <<mboxes, doneSem, dumpSem, done, dump, taskSide, popped, delivered,
                 saver, freed>>

(* SLAReinitUDPReceive *)
BeginReinit ==
  /\ UserGoto("idle", "pendReinit")
  /\ UNCHANGED <<mboxes, semas, done, busy, dump, taskSide, popped, delivered, saver,
                 freed>>

PendReinit ==
  /\ dumpSem > 0
  /\ UserGoto("pendReinit", "disconnect")
  /\ dumpSem' = dumpSem - 1
  /\ UNCHANGED <<mboxes, doneSem, lockSem, done, busy, dump, taskSide, popped,
                 delivered, saver, freed>>

(* Reading from a file: ignored.  Otherwise the old socket is disconnected, *)
(* what is left of the packet in hand is not.                               *)
Disconnect ==
  /\ UserGoto("disconnect", "reinit")
  /\ source' = IF useSlDemux THEN source ELSE "null"
  /\ UNCHANGED <<mboxes, semas, done, busy, dump, taskVars, units, content, nFrames,
                 popped, delivered, saver, freed>>

Reinit ==
  /\ UserGoto("reinit", "idle")
  /\ source' = IF useSlDemux THEN source ELSE "open"
  /\ dumpSem' = dumpSem + 1
  /\ UNCHANGED <<mboxes, doneSem, lockSem, done, busy, dump, taskVars, units, content,
                 nFrames, popped, delivered, saver, freed>>

(* SLADestroyUDPReceive.  The application has called Cleanup by then, from  *)
(* the thread that saves: none of its other calls is in progress.           *)
BeginDestroy ==
  /\ consumer \in {"idle", "eof"}
  /\ \A s \in Savers : saver[s] = "idle"
  /\ consumer' = "pendDone"
  /\ done' = TRUE
  /\ UNCHANGED <<mboxes, semas, busy, dump, taskSide, popped, delivered, saver, freed>>

(* Mutant: the wait for the task is not a wait. *)
PendDoneUnchecked ==
  /\ UserGoto("pendDone", "gone")
  /\ doneSem' = 0
  /\ freed' = TRUE
  /\ UNCHANGED <<mboxes, lockSem, dumpSem, done, busy, dump, taskSide, popped,
                 delivered, saver>>

PendDone ==
  /\ doneSem > 0
  /\ UserGoto("pendDone", "gone")
  /\ doneSem' = doneSem - 1
  /\ freed' = TRUE
  /\ UNCHANGED <<mboxes, lockSem, dumpSem, done, busy, dump, taskSide, popped,
                 delivered, saver>>

InCall ==
  \/ PendFull \/ FullTimeout \/ CopyOut \/ PostEmpty
  \/ ReadStatus \/ PendReinit \/ Disconnect \/ Reinit \/ PendDone

Consumer ==
  InCall \/ BeginDemuxNextFrame \/ PendStatus \/ BeginReinit \/ BeginDestroy

-------------------------------------------------------------------------------
(* SLAStartSavingUDP and SLAStopSavingUDP, on an application thread *)

BeginSaving(s) ==
  /\ consumer \notin {"pendDone", "gone"}
  /\ \E call \in {"pendStart", "pendStop"} : SaverGoto(s, "idle", call)
  /\ UNCHANGED <<mboxes, semas, done, busy, dump, taskSide, userVars, freed>>

(* Mutant: dumpSem is posted but not taken. *)
PendSavingUnlocked(s) ==
  /\ \/ SaverGoto(s, "pendStart", "closeOld")
     \/ SaverGoto(s, "pendStop", "closeFile")
  /\ UNCHANGED <<mboxes, semas, done, busy, dump, taskSide, userVars, freed>>

PendSaving(s) ==
  /\ dumpSem > 0
  /\ \/ SaverGoto(s, "pendStart", "closeOld")
     \/ SaverGoto(s, "pendStop", "closeFile")
  /\ dumpSem' = dumpSem - 1
  /\ UNCHANGED <<mboxes, doneSem, lockSem, done, busy, dump, taskSide, userVars, freed>>

(* if(data->dumpFile) fclose(data->dumpFile) *)
CloseDump(s) ==
  /\ \/ SaverGoto(s, "closeOld", "open")
     \/ SaverGoto(s, "closeFile", "clear")
  /\ openFiles' = openFiles \ {dumpFile}
  /\ UNCHANGED <<mboxes, semas, done, busy, dumpFile, taskSide, userVars, freed>>

(* data->dumpFile = fopen(fname, "wb"), which may fail *)
OpenDump(s) ==
  /\ SaverGoto(s, "open", "postStart")
  /\ \/ \E f \in Files \ openFiles :
          dumpFile' = f /\ openFiles' = openFiles \union {f}
     \/ dumpFile' = NULL /\ UNCHANGED openFiles
  /\ UNCHANGED <<mboxes, semas, done, busy, taskSide, userVars, freed>>

(* data->dumpFile = 0 *)
ClearDump(s) ==
  /\ SaverGoto(s, "clear", "postStop")
  /\ dumpFile' = NULL
  /\ UNCHANGED <<mboxes, semas, done, busy, openFiles, taskSide, userVars, freed>>

PostSaving(s) ==
  /\ \/ SaverGoto(s, "postStart", "result")
     \/ SaverGoto(s, "postStop", "idle")
  /\ dumpSem' = dumpSem + 1
  /\ UNCHANGED <<mboxes, doneSem, lockSem, done, busy, dump, taskSide, userVars, freed>>

(* return data->dumpFile ? SLA_SUCCESS : SLA_FAIL, read without dumpSem: by  *)
(* now another saver may have changed it.                                   *)
StartResult(s) ==
  /\ SaverGoto(s, "result", "idle")
  /\ UNCHANGED <<mboxes, semas, done, busy, dump, taskSide, userVars, freed>>

Saving(s) ==
  CloseDump(s) \/ OpenDump(s) \/ ClearDump(s) \/ PostSaving(s) \/ StartResult(s)

Saver(s) == BeginSaving(s) \/ PendSaving(s) \/ Saving(s)

-------------------------------------------------------------------------------
(* Once everything is released nothing happens any more. *)
Released == freed /\ UNCHANGED vars

Next == Task \/ Consumer \/ (\E s \in Savers : Saver(s)) \/ Released

Spec == Init /\ [][Next]_vars

(* The task and the calls in progress are threads the system keeps running; *)
(* a thread waiting at dumpSem gets it if it is posted again and again (the *)
(* only other waiter is the task).                                          *)
FairSpec ==
  /\ Spec
  /\ WF_vars(Task)
  /\ WF_vars(InCall)
  /\ SF_vars(PendReinit)
  /\ \A s \in Savers : WF_vars(Saving(s)) /\ SF_vars(PendSaving(s))

-------------------------------------------------------------------------------
Held(mbx) == {mbx[i] : i \in DOMAIN mbx} \ {NULL}

(* The buffer the task has taken and not handed on.  Once done is set,      *)
(* frame may be left over from an earlier round until the task ends.        *)
TaskHolds ==
  IF \/ task \in {"parse", "giveBack", "deliver"}
     \/ /\ ~done
        /\ task \in {"pendDump", "demux", "demuxEnd", "read", "dump", "dumpWrite",
                      "postDump", "hand"}
  THEN {frame} ELSE {}

UserHolds == IF consumer \in {"copyOut", "postEmpty"} THEN {popped} ELSE {}

NoRepeats(mbx) == \A i, j \in DOMAIN mbx : mbx[i] = mbx[j] => i = j

TypeOK ==
  /\ useSlDemux \in BOOLEAN
  /\ emptyMbx \in Seq(Buffers)
  /\ fullMbx \in Seq(Buffers \union {NULL})
  /\ doneSem \in 0 .. 1 /\ lockSem \in 0 .. 1 /\ dumpSem \in 0 .. 1
  /\ done \in BOOLEAN /\ busy \in BOOLEAN /\ freed \in BOOLEAN
  /\ source \in {"null", "open", "closed"}
  /\ units \in 0 .. MaxUnits
  /\ dumpFile \in Files \union {NULL} /\ openFiles \subseteq Files
  /\ task \in {"initSocket", "top", "tryEmpty", "pendLock", "setBusy", "waitEmpty",
                "pendEmpty", "pendDump", "demux", "demuxEnd", "read", "dump", "dumpWrite",
                "parse", "postDump", "hand", "giveBack", "deliver", "exit", "postDone", "gone"}
  /\ frame \in Buffers \union {NULL}
  /\ rv \in {"SUCCESS", "TIMEOUT", "FAIL", "TERMINATE", "ERROR"}
  /\ haveFrame \in BOOLEAN
  /\ content \in [Buffers -> 0 .. MaxFrames]
  /\ nFrames \in 0 .. MaxFrames
  /\ consumer \in {"idle", "pendFull", "copyOut", "postEmpty", "status", "pendReinit",
                    "disconnect", "reinit", "eof", "pendDone", "gone"}
  /\ popped \in Buffers \union {NULL}
  /\ delivered \in 0 .. MaxFrames
  /\ saver \in [Savers -> {"idle", "pendStart", "closeOld", "open", "pendStop",
                            "closeFile", "clear", "postStart", "postStop", "result"}]

(* A buffer is never in two places: queued twice, queued while the task     *)
(* writes it, or written while the consumer copies it out.                  *)
OneOwner ==
  /\ NoRepeats(emptyMbx)
  /\ NoRepeats(fullMbx)
  /\ Held(emptyMbx) \intersect Held(fullMbx) = {}
  /\ TaskHolds \intersect UserHolds = {}
  /\ (TaskHolds \union UserHolds) \intersect (Held(emptyMbx) \union Held(fullMbx)) = {}

(* While it receives from a socket and nobody asked it to stop, the         *)
(* receiver loses none of its buffers: the pool never shrinks.              *)
NoBufferLost ==
  ~done /\ ~useSlDemux =>
    Buffers = Held(emptyMbx) \union Held(fullMbx) \union TaskHolds \union UserHolds

(* The frame pool.                                                          *)
PoolOK == TypeOK /\ OneOwner /\ NoBufferLost

(* No SL_FOREVER post to a mailbox ever has to wait, not even the post of   *)
(* the end-of-file mark, so that the task always gets to post doneSem.      *)
PostsNeverBlock ==
  /\ task = "giveBack" \/ consumer = "postEmpty" => HasRoom(emptyMbx)
  /\ task = "deliver" \/ (task = "exit" /\ rv = "TERMINATE") => HasRoom(fullMbx)

(* What dumpSem protects: the task never writes to a dump file that was     *)
(* closed nor receives from a socket that is being replaced, and no dump    *)
(* file is left open behind the pointer.                                    *)
DumpSemProtects ==
  /\ task = "dumpWrite" => dumpFile \in openFiles
  /\ task = "read" /\ ~useSlDemux => source = "open"
  /\ openFiles \subseteq {dumpFile}

(* SLADestroyUDPReceive frees the receiver only after the task's last       *)
(* access to it, and while no other thread is inside one of its functions.  *)
FreedLast == freed => task = "gone" /\ \A s \in Savers : saver[s] = "idle"

(* "Is receive buffer getting backed up?" (SLAUDPReceive.h:67): receiving   *)
(* from a socket, the task goes on to set busy only if frames wait for the  *)
(* consumer or are being copied by it.  (From a file it also does so once   *)
(* failing reads have lost every buffer.)                                   *)
BusyMeansBackedUp ==
  [][task = "tryEmpty" /\ task' = "pendLock" /\ ~useSlDemux =>
       fullMbx # << >> \/ UserHolds # {}]_vars

(* The end of the file is reported after every frame of the file.           *)
EofAfterEverything == consumer = "eof" => fullMbx = << >> /\ delivered = nFrames

(* The consumer gets the frames in the order they were demultiplexed, every *)
(* one of them, once, and with nothing written over it since.               *)
InOrderNoLoss == [][delivered' # delivered => delivered' = delivered + 1]_vars

(* Destroying the receiver always completes. *)
DestroyCompletes == consumer = "pendDone" ~> freed

(* A stream that completes a frame, or pauses, again and again while it is  *)
(* read; a consumer that asks for frames again and again.                   *)
StreamFlows == SF_vars(ReadTimeout \/ ReadFails \/ ReadEof \/ (Parse /\ haveFrame'))
ConsumerAsks == SF_vars(BeginDemuxNextFrame)

(* Starting and stopping to save always return, unless packets keep coming  *)
(* in and none of them ever completes a frame.                              *)
SaverReturns ==
  StreamFlows => \A s \in Savers : saver[s] # "idle" ~> saver[s] = "idle"

(* Threads that wait for the task come back.                                *)
CallsComplete == DestroyCompletes /\ SaverReturns

(* A consumer that keeps asking learns of the end of the file. *)
EofReported ==
  ConsumerAsks => (task = "gone" ~> consumer \in {"eof", "pendDone", "gone"})

===============================================================================
