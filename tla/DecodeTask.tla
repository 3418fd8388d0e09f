------------------------------ MODULE DecodeTask ------------------------------
(***************************************************************************)
(* SLADecodeFFMPEG (SLADecodeFFMpeg.cpp): ffmpegTask, a state machine that *)
(* opens an input, reads, decodes and hands out images, and the thread of  *)
(* the application that calls Initialize again (SetAddress), Seek,         *)
(* StartSaving, StopSaving, Get, Release and Cleanup.  The application     *)
(* talks to the task through hmbx, which has room for ten commands and is  *)
(* written with SEM_FOREVER, through done, and through semaphores.         *)
(*                                                                         *)
(* What the ffmpeg library and the network do is a choice of outcome; the *)
(* receiver behind udpRx is module UdpReceiver.  As in every call in the   *)
(* repository, startFrame is 0 and there is a callBack.  Allocations       *)
(* succeed.  frame is compared with 0 and 1 only, and counted to 2.        *)
(***************************************************************************)
EXTENDS Integers, Sequences

CONSTANTS
  Inputs,       (* kinds of input: "NETWORK", "MTS" (a file, useSlDemux),  *)
                (* "FILE" (a file that ffmpeg reads)                       *)
  Addresses,    (* kinds of network address: "udp", "rtsp"                 *)
  hmbxLen,      (* length of hmbx (10 in the program)                      *)
  SL_SEM_MAX_COUNT,   (* where a semaphore stops counting (100)            *)
  nLoops,       (* the nLoop given to Initialize, at least 1               *)
  MaxPosts      (* bound of the model: commands the application sends      *)

ASSUME DecodeAssumption ==
  /\ Inputs \subseteq {"NETWORK", "MTS", "FILE"}
  /\ Addresses \subseteq {"udp", "rtsp"} /\ Addresses # {}
  /\ hmbxLen \in Nat \ {0} /\ SL_SEM_MAX_COUNT \in Nat \ {0}
  /\ nLoops \in Nat \ {0} /\ MaxPosts \in Nat

VARIABLES
  inputType,     (* what it reads, and                                     *)
  noRelease,     (* that the application does not use Get and Release:     *)
                 (* given to Create, never changed                         *)
  hmbx,          (* the command mailbox                                    *)
  done,          (* cam->done                                              *)
  camSemaphore, imageSem, processingSem, taskDoneSem,
  task,          (* where ffmpegTask is                                    *)
  ffState,       (* its state machine                                      *)
  nextState,     (* what the last round of the state machine returned      *)
  pkt,           (* the command it is handling                             *)
  fName,         (* kind of address in cam->fName                          *)
  rtspClient,    (* cam->rtspClient is not NULL                            *)
  udpRx,         (* the receiver: "none", "running" or "destroyed"         *)
  opened,        (* cam->pFormatCtx has streams                            *)
  known,         (* lastStreamType is not NONE                             *)
  held,          (* compressedFrame.len is not 0                           *)
  pFrameOut,     (* cam->pFrameOut is allocated                            *)
  frame,         (* cam->frame                                             *)
  nLoop,         (* cam->nLoop                                             *)
  finished,      (* an image of the current input was finished             *)
  dumpFile,      (* cam->dumpFile is not NULL                              *)
  app,           (* where the application's thread is                      *)
  cmd,           (* the command it posts                                   *)
  posts          (* commands sent so far                                   *)

sems   == <<camSemaphore, imageSem, processingSem, taskDoneSem>>
input  == <<fName, rtspClient, udpRx, opened, known, held>>
output == <<pFrameOut, frame, nLoop, finished, dumpFile>>
config   == <<inputType, noRelease>>
appVars  == <<config, app, cmd, posts>>
taskVars == <<config, task, ffState, nextState, pkt>>
vars == <<hmbx, done, sems, input, output, appVars, taskVars>>

Network == inputType # "FILE"
Urls == IF inputType = "NETWORK" THEN Addresses ELSE {"file"}
Command(type, url) == [type |-> type, url |-> url]
NoCommand == Command("none", "none")

(* The first Initialize: camSemaphore has been taken, the task is created.  *)
Init ==
  /\ inputType \in Inputs /\ noRelease \in BOOLEAN
  /\ hmbx = << >> /\ done = FALSE
  /\ camSemaphore = 0 /\ imageSem = 0 /\ processingSem = 0 /\ taskDoneSem = 0
  /\ task = "start" /\ pkt = NoCommand
  /\ ffState = "FIND_INPUT_FORMAT" /\ nextState = "none"
  /\ fName \in Urls
  /\ rtspClient = FALSE /\ udpRx = "none" /\ opened = FALSE
  /\ known = FALSE /\ held = FALSE
  /\ pFrameOut = FALSE /\ frame = 0 /\ nLoop = nLoops /\ finished = FALSE
  /\ dumpFile = FALSE
  /\ app = "idle" /\ cmd = NoCommand /\ posts = 0

Posted(count) == IF count < SL_SEM_MAX_COUNT THEN count + 1 ELSE count

TaskGoto(from, to) == task = from /\ task' = to
AppGoto(from, to) == app = from /\ app' = to

-------------------------------------------------------------------------------
(* ffmpegTask: opening *)

OpenFile ==
  /\ ~Network
  /\ TaskGoto("start", "loop")
  /\ UNCHANGED <<hmbx, done, sems, input, output, appVars, ffState, nextState, pkt>>

(* SLARtspOpenURL or SLAInitUDPReceive, which creates the receiver. *)
OpenReceiver ==
  /\ Network
  /\ TaskGoto("start", "loop")
  /\ udpRx' = "running"
  /\ rtspClient' = (fName = "rtsp")
  /\ ffState' = "OPEN2"
  /\ UNCHANGED <<hmbx, done, sems, fName, opened, known, held, output, appVars,
                 nextState, pkt>>

(* Mutant: the early return forgets taskDoneSem. *)
OpenFailsSilently ==
  /\ Network
  /\ TaskGoto("start", "gone")
  /\ UNCHANGED <<hmbx, done, sems, input, output, appVars, ffState, nextState, pkt>>

(* No RTSP server, no receiver for the socket or the file, or no port in    *)
(* the address: the task ends at once.                                      *)
OpenFails ==
  /\ Network
  /\ TaskGoto("start", "gone")
  /\ taskDoneSem' = Posted(taskDoneSem)
  /\ UNCHANGED <<hmbx, done, camSemaphore, imageSem, processingSem, input, output,
                 appVars, ffState, nextState, pkt>>

-------------------------------------------------------------------------------
(* One round of the loop: a command, or a step of the state machine. *)

(* Mutant: taskDoneSem is posted when the loop ends. *)
LeaveLoopPosts ==
  /\ done
  /\ TaskGoto("loop", "blank")
  /\ taskDoneSem' = Posted(taskDoneSem)
  /\ UNCHANGED <<hmbx, done, camSemaphore, imageSem, processingSem, input, output,
                 appVars, ffState, nextState, pkt>>

LeaveLoop ==
  /\ done
  /\ TaskGoto("loop", "blank")
  /\ UNCHANGED <<hmbx, done, sems, input, output, appVars, ffState, nextState, pkt>>

PendCommand ==
  /\ ~done
  /\ hmbx # << >>
  /\ TaskGoto("loop", "command")
  /\ pkt' = Head(hmbx)
  /\ hmbx' = Tail(hmbx)
  /\ UNCHANGED <<done, sems, input, output, appVars, ffState, nextState>>

NoCommandPending ==
  /\ ~done
  /\ hmbx = << >>
  /\ TaskGoto("loop", "step")
  /\ UNCHANGED <<hmbx, done, sems, input, output, appVars, ffState, nextState, pkt>>

(* FF_CONTROL_NAME.  The RTSP client is given up, the new address is used   *)
(* as a UDP address whatever it is.                                         *)
NewName ==
  /\ pkt.type = "NAME"
  /\ TaskGoto("command", "loop")
  /\ IF done THEN UNCHANGED <<input, ffState>>
     ELSE /\ rtspClient' = (rtspClient /\ fName # "rtsp")
          /\ fName' = pkt.url
          /\ ffState' = IF Network THEN ffState ELSE "TIMEOUT"
          /\ UNCHANGED <<udpRx, opened, known, held>>
  /\ UNCHANGED <<hmbx, done, sems, output, appVars, nextState, pkt>>

SaveFile ==
  /\ pkt.type \in {"SAVE", "STOPSAVE"}
  /\ TaskGoto("command", "loop")
  /\ dumpFile' = (pkt.type = "SAVE")
  /\ UNCHANGED <<hmbx, done, sems, input, pFrameOut, frame, nLoop, finished, appVars,
                 ffState, nextState, pkt>>

(* FF_CONTROL_SEEK: TASK_seek_frame, which uses the streams of pFormatCtx.  *)
(* Without them it dereferences a null pointer: no step.                    *)
SeekFrame ==
  /\ pkt.type = "SEEK"
  /\ opened
  /\ TaskGoto("command", "loop")
  /\ ffState' \in {"READ_FRAME", "LOOP", "ERROR"}
  /\ UNCHANGED <<hmbx, done, sems, input, output, appVars, nextState, pkt>>

(* What the loop does with the state a TASK_ function returned. *)
NextState(s) ==
  IF s # "ERROR" THEN s ELSE IF Network THEN "REOPEN2" ELSE "FIND_INPUT_FORMAT"

(* A TASK_ function that changes nothing but the state. *)
Becomes(states) ==
  /\ \E s \in states : /\ ffState' = NextState(s)
                       /\ held' = (held /\ s # "ERROR")
  /\ TaskGoto("step", "loop")
  /\ UNCHANGED <<hmbx, done, fName, rtspClient, udpRx, known, appVars, pkt, nLoop,
                 dumpFile, imageSem, processingSem, taskDoneSem>>

(* Mutant: frame goes on counting in the next input. *)
FindInputFormatCounts ==
  /\ ffState = "FIND_INPUT_FORMAT"
  /\ Becomes({"OPEN_INPUT"})
  /\ camSemaphore' = IF frame > 0 /\ camSemaphore > 0 THEN camSemaphore - 1
                     ELSE camSemaphore
  /\ opened' = FALSE
  /\ finished' = FALSE
  /\ UNCHANGED <<frame, pFrameOut>>

(* "Lock semaphore if it was previously unlocked" *)
FindInputFormat ==
  /\ ffState = "FIND_INPUT_FORMAT"
  /\ Becomes({"OPEN_INPUT"})
  /\ camSemaphore' = IF frame > 0 /\ camSemaphore > 0 THEN camSemaphore - 1
                     ELSE camSemaphore
  /\ frame' = 0
  /\ opened' = FALSE
  /\ finished' = FALSE
  /\ UNCHANGED pFrameOut

OpenInput ==
  /\ ffState = "OPEN_INPUT"
  /\ Becomes({"FIND_STREAM_INFO", "ERROR"})
  /\ UNCHANGED <<camSemaphore, frame, opened, pFrameOut, finished>>

FindStreamInfo ==
  /\ ffState = "FIND_STREAM_INFO"
  /\ Becomes({"OPEN2", "ERROR"})
  /\ opened' = (opened \/ ffState' = "OPEN2")
  /\ UNCHANGED <<camSemaphore, frame, pFrameOut, finished>>

(* Without a known stream there is no codec to open yet. *)
Open2 ==
  /\ ffState = "OPEN2"
  /\ IF Network /\ ~known
       THEN Becomes({"READ_FRAME"}) /\ UNCHANGED pFrameOut
       ELSE /\ Becomes({"READ_FRAME", "ERROR"})
            /\ pFrameOut' = (pFrameOut \/ ffState' = "READ_FRAME")
  /\ UNCHANGED <<camSemaphore, frame, opened, finished>>

(* A frame of a stream of another type: kept while the codec is opened. *)
NewStreamType ==
  /\ Network /\ ffState = "READ_FRAME" /\ ~held
  /\ TaskGoto("step", "loop")
  /\ ffState' = "OPEN2"
  /\ known' = TRUE /\ held' = TRUE
  /\ UNCHANGED <<hmbx, done, sems, fName, rtspClient, udpRx, opened, output, appVars, pkt>>

(* TASK_read_frame: video is decoded next, KLV handled here.  The receiver  *)
(* may have nothing in time, or report the end of an MTS file; it never     *)
(* fails, because its frames fit.  av_read_frame never times out: nothing   *)
(* installs an interrupt callback or sets timeExpired.                      *)
ReadFrame ==
  /\ ffState = "READ_FRAME"
  /\ \/ Becomes({"READ_FRAME"}) /\ ~held
     \/ Becomes({"DECODE_VIDEO2"}) /\ (known \/ ~Network)
     \/ Becomes({"TIMEOUT"}) /\ Network /\ ~held
     \/ Becomes({"EOF"}) /\ inputType = "MTS" /\ ~held
     \/ Becomes({"LOOP", "ERROR"}) /\ ~Network
  /\ UNCHANGED <<camSemaphore, frame, opened, pFrameOut, finished>>

DecodeVideo2 ==
  /\ ffState = "DECODE_VIDEO2"
  /\ TaskGoto("step", "loop")
  /\ held' = FALSE
  /\ ffState' \in {"READ_FRAME", "READ_FRAME_FINISHED"}
                     \union (IF Network THEN {} ELSE {NextState("ERROR")})
  /\ UNCHANGED <<hmbx, done, sems, fName, rtspClient, udpRx, opened, known, output,
                 appVars, pkt>>

Reopen2 ==
  /\ ffState = "REOPEN2"
  /\ Becomes({"DECODE_VIDEO2", "ERROR"})
  /\ UNCHANGED <<camSemaphore, frame, opened, pFrameOut, finished>>

Counted(n) == IF n < 2 THEN n + 1 ELSE 2

(* TASK_read_frame_finished: the image goes to the callback.  camSemaphore  *)
(* is posted after the first image of the input; without noRelease imageSem *)
(* is posted and the task waits for the image to be released.               *)
ReadFrameFinished ==
  /\ ffState = "READ_FRAME_FINISHED"
  /\ task = "step"
  /\ \/ /\ ffState' = "READ_FRAME"
        /\ frame' = Counted(frame) /\ finished' = TRUE
     \/ /\ ffState' = NextState("ERROR")   \* no conversion context
        /\ UNCHANGED <<frame, finished>>
  /\ held' = FALSE
  /\ camSemaphore' = IF frame' = 1 THEN Posted(camSemaphore) ELSE camSemaphore
  /\ imageSem' = IF noRelease THEN imageSem ELSE Posted(imageSem)
  /\ task' = IF noRelease THEN "loop" ELSE "waitRelease"
  /\ UNCHANGED <<hmbx, done, processingSem, taskDoneSem, fName, rtspClient, udpRx,
                 opened, known, pFrameOut, nLoop, dumpFile, appVars, pkt>>

(* Mutant: the wait for processingSem gives up after a while. *)
ReleasedOrTired ==
  /\ TaskGoto("waitRelease", "loop")
  /\ processingSem' = IF processingSem > 0 THEN processingSem - 1 ELSE 0
  /\ UNCHANGED <<hmbx, done, camSemaphore, imageSem, taskDoneSem, input, output,
                 appVars, ffState, nextState, pkt>>

(* while(!done && !SLASemPend(processingSem, 200)) *)
Released ==
  /\ TaskGoto("waitRelease", "loop")
  /\ IF done THEN UNCHANGED processingSem
     ELSE processingSem > 0 /\ processingSem' = processingSem - 1
  /\ UNCHANGED <<hmbx, done, camSemaphore, imageSem, taskDoneSem, input, output,
                 appVars, ffState, nextState, pkt>>

(* TASK_timeout: a blank frame, which is counted. *)
Timeout ==
  /\ ffState = "TIMEOUT"
  /\ TaskGoto("step", "loop")
  /\ frame' = IF pFrameOut THEN Counted(frame) ELSE frame
  /\ IF Network
       THEN /\ ffState' = "READ_FRAME"
            /\ held' = FALSE
            /\ UNCHANGED opened
       ELSE /\ ffState' = "FIND_INPUT_FORMAT"
            /\ opened' = FALSE
            /\ UNCHANGED held
  /\ UNCHANGED <<hmbx, done, sems, fName, rtspClient, udpRx, known, pFrameOut, nLoop,
                 finished, dumpFile, appVars, pkt>>

(* TASK_Loop; nLoop goes on below zero. *)
Loop ==
  /\ ffState = "LOOP"
  /\ TaskGoto("step", "loop")
  /\ nLoop' = IF nLoop > 0 THEN nLoop - 1 ELSE nLoop
  /\ IF nLoop > 1 THEN ffState' = "READ_FRAME" /\ frame' = 0
     ELSE ffState' = "EOF" /\ UNCHANGED frame
  /\ UNCHANGED <<hmbx, done, sems, input, pFrameOut, finished, dumpFile, appVars, pkt>>

(* No case of the switch: nextState is what an earlier round left in it.    *)
(* Only the seek command leaves the machine in this state.                  *)
NoCase ==
  /\ ffState = "ERROR"
  /\ TaskGoto("step", "loop")
  /\ ffState' = nextState
  /\ UNCHANGED <<hmbx, done, sems, input, output, appVars, pkt>>

(* "Check for end of file" *)
EndOfFile ==
  /\ ffState = "EOF"
  /\ TaskGoto("step", "blank")
  /\ UNCHANGED <<hmbx, done, sems, input, output, appVars, ffState, pkt>>

Step ==
  /\ \/ FindInputFormat \/ OpenInput \/ FindStreamInfo \/ Open2 \/ NewStreamType
     \/ ReadFrame \/ DecodeVideo2 \/ Reopen2 \/ ReadFrameFinished \/ Timeout \/ Loop
     \/ NoCase \/ EndOfFile
  /\ nextState' = ffState'

-------------------------------------------------------------------------------
(* ffmpegTask: after the loop *)

(* "continue to send blank images" until done; nobody looks at hmbx.        *)
BlankImages ==
  /\ done
  /\ TaskGoto("blank", "drain")
  /\ UNCHANGED <<hmbx, done, sems, input, output, appVars, ffState, nextState, pkt>>

(* while(SLASemPend(imageSem, 100) != SLA_SUCCESS): SLASemPend returns true *)
(* and SLA_SUCCESS is 0, the semaphore is drained.                          *)
DrainImages ==
  /\ task = "drain"
  /\ imageSem' = 0
  /\ task' = "destroy"
  /\ UNCHANGED <<hmbx, done, camSemaphore, processingSem, taskDoneSem, input, output,
                 appVars, ffState, nextState, pkt>>

(* Mutant: only the RTSP client destroys its receiver. *)
DestroyRtspOnly ==
  /\ TaskGoto("destroy", "postDone")
  /\ IF Network /\ rtspClient
       THEN udpRx' = "destroyed" /\ rtspClient' = FALSE
       ELSE UNCHANGED <<udpRx, rtspClient>>
  /\ UNCHANGED <<hmbx, done, sems, fName, opened, known, held, output, appVars,
                 ffState, nextState, pkt>>

(* The receiver is destroyed, by the RTSP client if the address is RTSP.    *)
DestroyReceiver ==
  /\ TaskGoto("destroy", "postDone")
  /\ IF Network /\ (fName # "rtsp" \/ rtspClient)
       THEN udpRx' = "destroyed" /\ rtspClient' = FALSE
       ELSE UNCHANGED <<udpRx, rtspClient>>
  /\ UNCHANGED <<hmbx, done, sems, fName, opened, known, held, output, appVars,
                 ffState, nextState, pkt>>

PostTaskDone ==
  /\ TaskGoto("postDone", "gone")
  /\ done' = TRUE
  /\ taskDoneSem' = Posted(taskDoneSem)
  /\ UNCHANGED <<hmbx, camSemaphore, imageSem, processingSem, input, output, appVars,
                 ffState, nextState, pkt>>

Task ==
  \/ OpenFile \/ OpenReceiver \/ OpenFails
  \/ LeaveLoop \/ PendCommand \/ NoCommandPending
  \/ NewName \/ SaveFile \/ SeekFrame
  \/ Step \/ Released
  \/ BlankImages \/ DrainImages \/ DestroyReceiver \/ PostTaskDone

-------------------------------------------------------------------------------
(* The application's thread *)

Send(c) ==
  /\ AppGoto("idle", "post")
  /\ posts < MaxPosts
  /\ posts' = posts + 1
  /\ cmd' = c
  /\ UNCHANGED <<hmbx, done, sems, input, output, taskVars>>

(* Initialize, "Second call"; Seek; Start- and StopSaving of a file input.  *)
SetAddress == \E url \in Urls : Send(Command("NAME", url))
Seek       == ~Network /\ Send(Command("SEEK", "none"))
StartSaving == ~Network /\ ~dumpFile /\ Send(Command("SAVE", "none"))
StopSaving  == ~Network /\ dumpFile /\ Send(Command("STOPSAVE", "none"))

(* SLAMbxPost(hmbx, &pkt, SEM_FOREVER); Cleanup goes on to wait for the     *)
(* task.                                                                    *)
PostCommand ==
  /\ Len(hmbx) < hmbxLen
  /\ \/ AppGoto("post", "idle")
     \/ AppGoto("cleanup", "pendTaskDone")
  /\ hmbx' = Append(hmbx, cmd)
  /\ UNCHANGED <<done, sems, input, output, cmd, posts, taskVars>>

(* Start- and StopSaving of a network input: a call into the receiver.      *)
BeginSavingUDP ==
  /\ Network
  /\ udpRx # "none"
  /\ AppGoto("idle", "savingUDP")
  /\ UNCHANGED <<hmbx, done, sems, input, output, cmd, posts, taskVars>>

EndSavingUDP ==
  /\ AppGoto("savingUDP", "idle")
  /\ UNCHANGED <<hmbx, done, sems, input, output, cmd, posts, taskVars>>

(* Get: while(!done && !SLASemPend(imageSem, 2)), then the image is copied  *)
(* under camSemaphore.                                                      *)
BeginGet ==
  /\ ~done
  /\ AppGoto("idle", IF noRelease THEN "pendCam" ELSE "pendImage")
  /\ UNCHANGED <<hmbx, done, sems, input, output, cmd, posts, taskVars>>

PendImage ==
  /\ AppGoto("pendImage", "pendCam")
  /\ ~done => imageSem > 0
  /\ imageSem' = IF done THEN imageSem ELSE imageSem - 1
  /\ UNCHANGED <<hmbx, done, camSemaphore, processingSem, taskDoneSem, input, output,
                 cmd, posts, taskVars>>

PendCam ==
  /\ AppGoto("pendCam", "copy")
  /\ camSemaphore > 0
  /\ camSemaphore' = camSemaphore - 1
  /\ UNCHANGED <<hmbx, done, imageSem, processingSem, taskDoneSem, input, output,
                 cmd, posts, taskVars>>

PostCam ==
  /\ AppGoto("copy", IF noRelease THEN "idle" ELSE "holding")
  /\ camSemaphore' = Posted(camSemaphore)
  /\ UNCHANGED <<hmbx, done, imageSem, processingSem, taskDoneSem, input, output,
                 cmd, posts, taskVars>>

Release ==
  /\ AppGoto("holding", "idle")
  /\ processingSem' = Posted(processingSem)
  /\ UNCHANGED <<hmbx, done, camSemaphore, imageSem, taskDoneSem, input, output,
                 cmd, posts, taskVars>>

BeginCleanup ==
  /\ AppGoto("idle", "cleanup")
  /\ done' = TRUE
  /\ cmd' = Command("NAME", "none")
  /\ UNCHANGED <<hmbx, sems, input, output, posts, taskVars>>

PendTaskDone ==
  /\ AppGoto("pendTaskDone", "freed")
  /\ taskDoneSem > 0
  /\ taskDoneSem' = taskDoneSem - 1
  /\ UNCHANGED <<hmbx, done, camSemaphore, imageSem, processingSem, input, output,
                 cmd, posts, taskVars>>

InCall ==
  PostCommand \/ EndSavingUDP \/ PendImage \/ PendCam \/ PostCam \/ PendTaskDone

Application ==
  \/ SetAddress \/ Seek \/ StartSaving \/ StopSaving \/ BeginSavingUDP
  \/ BeginGet \/ Release \/ BeginCleanup \/ InCall

Stopped == app = "freed" /\ UNCHANGED vars

Next == Task \/ Application \/ Stopped

Spec == Init /\ [][Next]_vars

(* The task and the application's calls in progress keep running. *)
FairSpec == Spec /\ WF_vars(Task) /\ WF_vars(InCall)

-------------------------------------------------------------------------------
TypeOK ==
  /\ Len(hmbx) <= hmbxLen
  /\ done \in BOOLEAN /\ rtspClient \in BOOLEAN /\ opened \in BOOLEAN
  /\ known \in BOOLEAN /\ held \in BOOLEAN /\ pFrameOut \in BOOLEAN
  /\ finished \in BOOLEAN /\ dumpFile \in BOOLEAN
  /\ camSemaphore \in 0 .. SL_SEM_MAX_COUNT /\ imageSem \in 0 .. 1
  /\ processingSem \in 0 .. 1 /\ taskDoneSem \in 0 .. 1
  /\ task \in {"start", "loop", "command", "step", "waitRelease", "blank", "drain",
                "destroy", "postDone", "gone"}
  /\ ffState \in {"FIND_INPUT_FORMAT", "OPEN_INPUT", "FIND_STREAM_INFO", "OPEN2",
                   "READ_FRAME", "DECODE_VIDEO2", "REOPEN2", "READ_FRAME_FINISHED",
                   "TIMEOUT", "LOOP", "EOF", "ERROR"}
  /\ udpRx \in {"none", "running", "destroyed"}
  /\ fName \in Urls /\ frame \in 0 .. 2 /\ nLoop \in 0 .. nLoops
  /\ app \in {"idle", "post", "cleanup", "savingUDP", "pendImage", "pendCam", "copy",
               "holding", "pendTaskDone", "freed"}

(* Cleanup frees the camera only after the task's last access to it. *)
FreedLast == app = "freed" => task = "gone"

(* No call of the application reaches a receiver that was destroyed. *)
ReceiverAlive == app = "savingUDP" => udpRx = "running"

(* Nothing is used after it was freed.                                      *)
LifetimesOK == TypeOK /\ FreedLast /\ ReceiverAlive

(* "This will internally call SLADestroyUDPReceive" (1227): when Cleanup    *)
(* has returned, no receiver is left running.  (One is when a UDP stream    *)
(* was re-targeted to an RTSP address: there is no client to destroy it.)   *)
ReceiverGone == app = "freed" /\ udpRx = "running" => fName = "rtsp" /\ ~rtspClient

(* While the application holds an image, between Get and Release, the task  *)
(* waits: it neither decodes into it nor reports another one.               *)
ImageStable == app = "holding" => task = "waitRelease" /\ imageSem = 0

(* "OK for GetImageInfo to access high, wide, type members" (1178): once an *)
(* image of a file is finished, Get is not locked out any more.  (On the    *)
(* network it may be for ever: a blank frame before the first image moves   *)
(* frame past the 1 on which camSemaphore is posted.)                       *)
ImageUnlocksGet ==
  inputType = "FILE" /\ finished => camSemaphore > 0 \/ app = "copy"

(* The seek before the file is open, which ends the program.                *)
Crashed == task = "command" /\ pkt.type = "SEEK" /\ ~opened

(* "Wait for signal that readFramesTask has exited" (1398): Cleanup always  *)
(* returns, unless the program has crashed.                                 *)
CleanupReturns == app = "cleanup" ~> app = "freed" \/ Crashed

===============================================================================
