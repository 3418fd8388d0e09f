--------------------------- MODULE DecodeTaskProofs ---------------------------
(***************************************************************************)
(* Proofs about the decode task and the application's calls, for every     *)
(* kind of input and address, any length of the command mailbox, any       *)
(* number of loops and of commands.                                        *)
(***************************************************************************)
EXTENDS DecodeTask, SequenceTheorems, TLAPS

States == {"FIND_INPUT_FORMAT", "OPEN_INPUT", "FIND_STREAM_INFO", "OPEN2", "READ_FRAME",
           "DECODE_VIDEO2", "REOPEN2", "READ_FRAME_FINISHED", "TIMEOUT", "LOOP", "EOF",
           "ERROR"}

Commands == [type : {"none", "NAME", "SEEK", "SAVE", "STOPSAVE"}, url : Urls \union {"none"}]

(* A new name is one that can be opened, except the one that Cleanup sends. *)
Sound(c) == c \in Commands /\ (c.type = "NAME" => c.url \in Urls \/ done)

(* Every command under way is one the task can handle.                      *)
CommandsSound ==
  /\ hmbx \in Seq(Commands) /\ \A i \in 1 .. Len(hmbx) : Sound(hmbx[i])
  /\ Sound(pkt) /\ Sound(cmd)

(* The state machine has a state to go on from when a seek has left it in   *)
(* none: the streams it seeks in were found in an earlier round.            *)
NextKnown ==
  /\ nextState \in (States \ {"ERROR"}) \union {"none"}
  /\ opened => nextState # "none"
  /\ ffState = "ERROR" => nextState # "none"

(* Only Cleanup says done, and the task leaves only then, or without ever   *)
(* having had a receiver.                                                   *)
Ending == {"cleanup", "pendTaskDone", "freed"}
EndInOrder ==
  /\ inputType \in Inputs /\ noRelease \in BOOLEAN
  /\ done <=> app \in Ending
  /\ task \in {"drain", "destroy", "postDone"} => done
  /\ task = "gone" => done \/ udpRx = "none"
  /\ task = "start" \/ ~Network => udpRx = "none"
  /\ udpRx = "destroyed" => done
  /\ app = "savingUDP" => udpRx # "none"
  /\ task # "gone" => taskDoneSem = 0 /\ app # "freed"

(* A receiver that is left when the task has gone past destroying it.       *)
ReceiverLeft ==
  task \in {"postDone", "gone"} /\ udpRx = "running" => fName = "rtsp" /\ ~rtspClient

(* The image and the permission to go on are one token, which the task      *)
(* gives away when it waits, and has back when it goes on, unless Cleanup   *)
(* has told it not to wait.                                                 *)
Tokens == imageSem + processingSem
          + (IF ~noRelease /\ app \in {"pendCam", "copy", "holding"} THEN 1 ELSE 0)

OneToken ==
  /\ Tokens \in 0 .. 1
  /\ task = "waitRelease" => Tokens = 1 /\ ~noRelease
  /\ task \in {"start", "command", "step"} => Tokens = 0
  /\ ~done /\ task # "waitRelease" => Tokens = 0
  /\ noRelease => Tokens = 0 /\ app \notin {"pendImage", "holding"}

(* In a file only images move frame, or a blank one that is shown before    *)
(* the file is opened anew.                                                 *)
FramesAreImages ==
  inputType = "FILE" /\ frame > 0 =>
    finished \/ (~opened /\ ffState \in {"FIND_INPUT_FORMAT", "TIMEOUT"})

IInv ==
  /\ TypeOK /\ CommandsSound /\ NextKnown /\ EndInOrder /\ ReceiverLeft /\ OneToken
  /\ FramesAreImages /\ ImageUnlocksGet

-------------------------------------------------------------------------------
(* A round of the state machine: what it may change, and that it never ends *)
(* in the state that has no case.                                           *)
Steps == {"start", "loop", "command", "step", "waitRelease", "blank", "drain",
          "destroy", "postDone", "gone"}

LEMMA StepMoves ==
  ASSUME IInv, Step
  PROVE  /\ task = "step" /\ task' \in {"loop", "blank", "waitRelease"}
         /\ ffState' \in States \ {"ERROR"} /\ nextState' = ffState'
         /\ UNCHANGED <<hmbx, done, processingSem, taskDoneSem, fName, rtspClient, udpRx,
                        dumpFile, appVars, pkt>>
<1> USE DEF IInv, TypeOK, NextKnown, States, TaskGoto, NextState, sems, input, output,
            appVars, config
<1>1. nextState' = ffState'
  BY DEF Step
<1>2. CASE FindInputFormat
  BY <1>1, <1>2 DEF FindInputFormat, Becomes
<1>3. CASE OpenInput \/ FindStreamInfo \/ Open2 \/ Reopen2
  BY <1>1, <1>3 DEF OpenInput, FindStreamInfo, Open2, Reopen2, Becomes
<1>4. CASE ReadFrame
  BY <1>1, <1>4 DEF ReadFrame, Becomes
<1>5. CASE NewStreamType \/ DecodeVideo2 \/ NoCase \/ EndOfFile
  BY <1>1, <1>5 DEF NewStreamType, DecodeVideo2, NoCase, EndOfFile
<1>6. CASE ReadFrameFinished
  BY <1>1, <1>6 DEF ReadFrameFinished, Counted
<1>7. CASE Timeout \/ Loop
  BY <1>1, <1>7, DecodeAssumption DEF Timeout, Loop, Counted, DecodeAssumption
<1>8. QED
  BY <1>1, <1>2, <1>3, <1>4, <1>5, <1>6, <1>7 DEF Step

(* What it does to the rest.                                                *)
LEMMA StepTypes ==
  ASSUME IInv, Step
  PROVE  /\ camSemaphore' \in 0 .. SL_SEM_MAX_COUNT
         /\ frame' \in 0 .. 2 /\ nLoop' \in 0 .. nLoops
<1> USE DecodeAssumption DEF IInv, TypeOK, TaskGoto, sems, input, output, Posted, DecodeAssumption
<1>1. CASE FindInputFormat
  BY <1>1 DEF FindInputFormat, Becomes
<1>2. CASE OpenInput \/ FindStreamInfo \/ Open2 \/ Reopen2
  BY <1>2 DEF OpenInput, FindStreamInfo, Open2, Reopen2, Becomes
<1>3. CASE ReadFrame
  BY <1>3 DEF ReadFrame, Becomes
<1>4. CASE NewStreamType \/ DecodeVideo2 \/ NoCase \/ EndOfFile
  BY <1>4 DEF NewStreamType, DecodeVideo2, NoCase, EndOfFile
<1>5. CASE ReadFrameFinished
  <2>1. /\ camSemaphore' = IF frame' = 1 THEN Posted(camSemaphore) ELSE camSemaphore
        /\ frame' \in {Counted(frame), frame} /\ nLoop' = nLoop
    BY <1>5 DEF ReadFrameFinished
  <2>2. frame' \in 0 .. 2
    BY <2>1 DEF Counted
  <2>3. QED
    BY <2>1, <2>2
<1>6. CASE Timeout \/ Loop
  BY <1>6 DEF Timeout, Loop, Counted
<1>7. QED
  BY <1>1, <1>2, <1>3, <1>4, <1>5, <1>6 DEF Step

(* The flags of the decoder are flags again.                                *)
LEMMA StepFlags ==
  ASSUME IInv, Step
  PROVE  /\ opened' \in BOOLEAN /\ known' \in BOOLEAN /\ held' \in BOOLEAN
         /\ pFrameOut' \in BOOLEAN /\ finished' \in BOOLEAN
<1> USE DEF IInv, TypeOK, input, output
<1>1. CASE FindInputFormat
  BY <1>1 DEF FindInputFormat, Becomes
<1>2. CASE OpenInput \/ FindStreamInfo \/ Open2 \/ Reopen2
  BY <1>2 DEF OpenInput, FindStreamInfo, Open2, Reopen2, Becomes
<1>3. CASE ReadFrame
  BY <1>3 DEF ReadFrame, Becomes
<1>4. CASE NewStreamType \/ DecodeVideo2 \/ NoCase \/ EndOfFile
  BY <1>4 DEF NewStreamType, DecodeVideo2, NoCase, EndOfFile
<1>5. CASE ReadFrameFinished
  BY <1>5 DEF ReadFrameFinished, Counted
<1>6. CASE Timeout \/ Loop
  BY <1>6 DEF Timeout, Loop, Counted
<1>7. QED
  BY <1>1, <1>2, <1>3, <1>4, <1>5, <1>6 DEF Step

-------------------------------------------------------------------------------
(* The types, flags and other variables apart.                              *)
Flags ==
  /\ done \in BOOLEAN /\ rtspClient \in BOOLEAN /\ opened \in BOOLEAN
  /\ known \in BOOLEAN /\ held \in BOOLEAN /\ pFrameOut \in BOOLEAN
  /\ finished \in BOOLEAN /\ dumpFile \in BOOLEAN

Ranges ==
  /\ Len(hmbx) <= hmbxLen
  /\ camSemaphore \in 0 .. SL_SEM_MAX_COUNT /\ imageSem \in 0 .. 1
  /\ processingSem \in 0 .. 1 /\ taskDoneSem \in 0 .. 1
  /\ task \in Steps /\ ffState \in States
  /\ udpRx \in {"none", "running", "destroyed"}
  /\ fName \in Urls /\ frame \in 0 .. 2 /\ nLoop \in 0 .. nLoops
  /\ app \in {"idle", "post", "cleanup", "savingUDP", "pendImage", "pendCam", "copy",
               "holding", "pendTaskDone", "freed"}

(* Every action leaves the flags in BOOLEAN ...                             *)
LEMMA FlagsKept ==
  ASSUME IInv, [Next]_vars
  PROVE  Flags'
<1> USE DEF Flags, IInv, TypeOK, sems, input, output, appVars, config, taskVars
<1>1. CASE Step
  BY <1>1, StepMoves, StepFlags
<1>2. CASE OpenFile \/ OpenReceiver \/ OpenFails \/ LeaveLoop \/ PendCommand \/ NoCommandPending
  BY <1>2 DEF OpenFile, OpenReceiver, OpenFails, LeaveLoop, PendCommand, NoCommandPending
<1>3. CASE NewName \/ SaveFile \/ SeekFrame \/ Released
  BY <1>3 DEF NewName, SaveFile, SeekFrame, Released
<1>4. CASE BlankImages \/ DrainImages \/ DestroyReceiver \/ PostTaskDone
  BY <1>4 DEF BlankImages, DrainImages, DestroyReceiver, PostTaskDone
<1>5. CASE SetAddress \/ Seek \/ StartSaving \/ StopSaving \/ BeginCleanup
  BY <1>5 DEF SetAddress, Seek, StartSaving, StopSaving, Send, BeginCleanup
<1>6. CASE BeginSavingUDP \/ BeginGet \/ Release \/ InCall
  BY <1>6 DEF BeginSavingUDP, BeginGet, Release, InCall, PostCommand, EndSavingUDP,
              PendImage, PendCam, PostCam, PendTaskDone
<1>7. CASE UNCHANGED vars
  BY <1>7 DEF vars
<1>8. QED
  BY <1>1, <1>2, <1>3, <1>4, <1>5, <1>6, <1>7 DEF Next, Stopped, Task, Application

(* ... and the semaphores, counters and program counters in their ranges.   *)
LEMMA RangesKept ==
  ASSUME IInv, [Next]_vars
  PROVE  Ranges'
<1> USE DecodeAssumption DEF DecodeAssumption, IInv, TypeOK, Ranges, Steps, States, sems, input, output, appVars,
        config, taskVars, TaskGoto, AppGoto, Posted, Urls
<1>1. CASE Step
  <2>1. /\ Len(hmbx') <= hmbxLen /\ app' = app /\ udpRx' = udpRx /\ fName' \in Urls'
        /\ processingSem' = processingSem /\ taskDoneSem' = taskDoneSem
        /\ task' \in {"loop", "blank", "waitRelease"} /\ ffState' \in States
    BY <1>1, StepMoves
  <2>2. imageSem' \in 0 .. 1
    BY <1>1 DEF Step, FindInputFormat, OpenInput, FindStreamInfo, Open2, NewStreamType, ReadFrame,
          DecodeVideo2, Reopen2, ReadFrameFinished, Timeout, Loop, NoCase, EndOfFile, Becomes,
          OneToken, Tokens
  <2>3. QED
    BY <1>1, <2>1, <2>2, StepTypes DEF States
<1>2. CASE OpenFile \/ OpenReceiver
  BY <1>2 DEF OpenFile, OpenReceiver
<1>3. CASE OpenFails
  BY <1>3 DEF OpenFails, EndInOrder
<1>4. CASE LeaveLoop \/ NoCommandPending
  <2>1. CASE LeaveLoop
    BY <2>1 DEF LeaveLoop
  <2>2. CASE NoCommandPending
    BY <2>2 DEF NoCommandPending
  <2>3. QED
    BY <1>4, <2>1, <2>2
<1>5. CASE PendCommand
  <2>1. Len(hmbx') <= hmbxLen
    BY <1>5, HeadTailProperties, LenProperties, EmptySeq DEF PendCommand
  <2>2. QED
    BY <1>5, <2>1 DEF PendCommand, CommandsSound
<1>6. CASE NewName
  BY <1>6 DEF NewName, CommandsSound, Sound
<1>7. CASE SaveFile \/ SeekFrame \/ Released
  BY <1>7 DEF SaveFile, SeekFrame, Released
<1>8. CASE BlankImages \/ DrainImages \/ DestroyReceiver \/ PostTaskDone
  BY <1>8 DEF BlankImages, DrainImages, DestroyReceiver, PostTaskDone, EndInOrder
<1>9. CASE SetAddress \/ Seek \/ StartSaving \/ StopSaving \/ BeginCleanup
  BY <1>9 DEF SetAddress, Seek, StartSaving, StopSaving, Send, BeginCleanup
<1>10. CASE BeginSavingUDP \/ BeginGet \/ EndSavingUDP
  BY <1>10 DEF BeginSavingUDP, BeginGet, EndSavingUDP
<1>11. CASE Release
  BY <1>11 DEF Release, OneToken, Tokens
<1>12. CASE PendImage \/ PendCam \/ PostCam \/ PendTaskDone
  BY <1>12 DEF PendImage, PendCam, PostCam, PendTaskDone, EndInOrder, Ending
<1>13. CASE PostCommand
  BY <1>13 DEF PostCommand, CommandsSound
<1>14. CASE UNCHANGED vars
  BY <1>14 DEF vars
<1>15. QED
  BY <1>1, <1>2, <1>3, <1>4, <1>5, <1>6, <1>7, <1>8, <1>9, <1>10, <1>11, <1>12, <1>13, <1>14
     DEF Next, Stopped, Task, Application, InCall

(* TypeOK, from the two.                                                    *)
LEMMA TypesKept ==
  ASSUME IInv, [Next]_vars
  PROVE  TypeOK'
BY FlagsKept, RangesKept DEF TypeOK, Flags, Ranges, Steps, States

-------------------------------------------------------------------------------
(* The other parts of the invariant, action by action.  A command sent with *)
(* a name that cannot be opened is the one of Cleanup, which sets done.     *)
LEMMA CommandsKept ==
  ASSUME IInv, [Next]_vars
  PROVE  CommandsSound'
<1> USE DEF IInv
<1>0. UNCHANGED config /\ (done => done')
  <2> USE DEF config, appVars, taskVars
  <2>1. CASE Step
    BY <2>1, StepMoves
  <2>2. CASE OpenFile \/ OpenReceiver \/ OpenFails \/ LeaveLoop \/ PendCommand \/ NoCommandPending
    BY <2>2 DEF OpenFile, OpenReceiver, OpenFails, LeaveLoop, PendCommand, NoCommandPending
  <2>3. CASE NewName \/ SaveFile \/ SeekFrame \/ Released
    BY <2>3 DEF NewName, SaveFile, SeekFrame, Released
  <2>4. CASE BlankImages \/ DrainImages \/ DestroyReceiver \/ PostTaskDone
    BY <2>4 DEF BlankImages, DrainImages, DestroyReceiver, PostTaskDone
  <2>5. CASE SetAddress \/ Seek \/ StartSaving \/ StopSaving \/ BeginCleanup
    BY <2>5 DEF SetAddress, Seek, StartSaving, StopSaving, Send, BeginCleanup
  <2>6. CASE BeginSavingUDP \/ BeginGet \/ Release \/ InCall
    BY <2>6 DEF BeginSavingUDP, BeginGet, Release, InCall, PostCommand, EndSavingUDP,
                PendImage, PendCam, PostCam, PendTaskDone
  <2>7. CASE UNCHANGED vars
    BY <2>7 DEF vars
  <2>8. QED
    BY <2>1, <2>2, <2>3, <2>4, <2>5, <2>6, <2>7 DEF Next, Stopped, Task, Application
<1>1. UNCHANGED <<Urls, Commands>> /\ (done => done')
  BY <1>0 DEF config, Urls, Commands
<1>2. \A c : Sound(c) => Sound(c)'
  BY <1>1 DEF Sound
<1>3. CASE PendCommand
  <2>1. hmbx \in Seq(Commands) /\ hmbx # << >> /\ pkt' = Head(hmbx) /\ hmbx' = Tail(hmbx)
        /\ cmd' = cmd
    BY <1>3 DEF PendCommand, CommandsSound, appVars
  <2>2. /\ Head(hmbx) = hmbx[1] /\ Tail(hmbx) \in Seq(Commands)
        /\ 1 \in 1 .. Len(hmbx)
        /\ \A i \in 1 .. Len(Tail(hmbx)) : /\ i + 1 \in 1 .. Len(hmbx)
                                          /\ Tail(hmbx)[i] = hmbx[i + 1]
    BY <2>1, HeadTailProperties, EmptySeq
  <2>3. QED
    BY <1>1, <1>2, <2>1, <2>2 DEF CommandsSound
<1>4. CASE PostCommand
  <2>1. hmbx \in Seq(Commands) /\ cmd \in Commands /\ hmbx' = Append(hmbx, cmd)
        /\ UNCHANGED <<cmd, pkt>>
    BY <1>4 DEF PostCommand, CommandsSound, Sound, taskVars
  <2>2. /\ hmbx' \in Seq(Commands) /\ Len(hmbx') = Len(hmbx) + 1
        /\ \A i \in 1 .. Len(hmbx) : hmbx'[i] = hmbx[i]
        /\ hmbx'[Len(hmbx) + 1] = cmd /\ Len(hmbx) \in Nat
    BY <2>1, AppendProperties, LenProperties
  <2>3. QED
    BY <1>1, <1>2, <2>1, <2>2 DEF CommandsSound
<1>5. CASE SetAddress \/ Seek \/ StartSaving \/ StopSaving
  <2>1. hmbx' = hmbx /\ pkt' = pkt /\ Sound(cmd')
    BY <1>5 DEF SetAddress, Seek, StartSaving, StopSaving, Send, taskVars, Sound, Commands,
                Command
  <2>2. QED
    BY <1>1, <1>2, <2>1 DEF CommandsSound, Sound
<1>6. CASE BeginCleanup
  <2>1. hmbx' = hmbx /\ pkt' = pkt /\ cmd' = Command("NAME", "none") /\ done'
    BY <1>6 DEF BeginCleanup, taskVars
  <2>2. QED
    BY <1>1, <1>2, <2>1 DEF CommandsSound, Sound, Commands, Command
<1>7. CASE UNCHANGED <<hmbx, pkt, cmd>>
  BY <1>1, <1>2, <1>7 DEF CommandsSound
<1>8. QED
  <2> USE DEF appVars, taskVars
  <2>1. CASE Step
    BY <1>7, <2>1, StepMoves
  <2>2. CASE OpenFile \/ OpenReceiver \/ OpenFails \/ LeaveLoop \/ NoCommandPending
    BY <1>7, <2>2 DEF OpenFile, OpenReceiver, OpenFails, LeaveLoop, NoCommandPending
  <2>3. CASE NewName \/ SaveFile \/ SeekFrame \/ Released
    BY <1>7, <2>3 DEF NewName, SaveFile, SeekFrame, Released
  <2>4. CASE BlankImages \/ DrainImages \/ DestroyReceiver \/ PostTaskDone
    BY <1>7, <2>4 DEF BlankImages, DrainImages, DestroyReceiver, PostTaskDone
  <2>5. CASE BeginSavingUDP \/ EndSavingUDP \/ BeginGet \/ Release
    BY <1>7, <2>5 DEF BeginSavingUDP, EndSavingUDP, BeginGet, Release
  <2>6. CASE PendImage \/ PendCam \/ PostCam \/ PendTaskDone
    BY <1>7, <2>6 DEF PendImage, PendCam, PostCam, PendTaskDone
  <2>7. CASE UNCHANGED vars
    BY <1>7, <2>7 DEF vars
  <2>8. QED
    BY <1>3, <1>4, <1>5, <1>6, <2>1, <2>2, <2>3, <2>4, <2>5, <2>6, <2>7
       DEF Next, Stopped, Task, Application, InCall

(* The state machine always knows where to go on: nextState is set by each  *)
(* round, and ERROR comes only from a seek in streams that were found.      *)
LEMMA NextKept ==
  ASSUME IInv, [Next]_vars
  PROVE  NextKnown'
<1> USE DEF IInv, NextKnown, States, sems, input, output, appVars, config, taskVars
<1>1. CASE Step
  BY <1>1, StepMoves
<1>2. CASE OpenFile \/ OpenReceiver \/ OpenFails
  BY <1>2 DEF OpenFile, OpenReceiver, OpenFails
<1>3. CASE LeaveLoop \/ PendCommand \/ NoCommandPending
  BY <1>3 DEF LeaveLoop, PendCommand, NoCommandPending
<1>4. CASE NewName \/ SaveFile \/ SeekFrame \/ Released
  BY <1>4 DEF NewName, SaveFile, SeekFrame, Released
<1>5. CASE BlankImages \/ DrainImages \/ DestroyReceiver \/ PostTaskDone
  BY <1>5 DEF BlankImages, DrainImages, DestroyReceiver, PostTaskDone
<1>6. CASE SetAddress \/ Seek \/ StartSaving \/ StopSaving
  BY <1>6 DEF SetAddress, Seek, StartSaving, StopSaving, Send
<1>7. CASE BeginSavingUDP \/ EndSavingUDP \/ PostCommand \/ BeginCleanup
  BY <1>7 DEF BeginSavingUDP, EndSavingUDP, PostCommand, BeginCleanup
<1>8. CASE BeginGet \/ PendImage \/ PendCam \/ PostCam \/ Release \/ PendTaskDone
  BY <1>8 DEF BeginGet, PendImage, PendCam, PostCam, Release, PendTaskDone
<1>9. CASE UNCHANGED vars
  BY <1>9 DEF vars
<1>10. QED
  BY <1>1, <1>2, <1>3, <1>4, <1>5, <1>6, <1>7, <1>8, <1>9
     DEF Next, Stopped, Task, Application, InCall

(* done is set by Cleanup alone, and the task leaves its loop only then.    *)
LEMMA EndKept ==
  ASSUME IInv, [Next]_vars
  PROVE  EndInOrder'
<1> USE DEF IInv, EndInOrder, Ending, Network, Posted, TaskGoto, AppGoto, sems, input, output,
        appVars, config, taskVars
<1>1. CASE Step
  BY <1>1, StepMoves
<1>2. CASE OpenFile \/ OpenReceiver \/ OpenFails
  BY <1>2 DEF OpenFile, OpenReceiver, OpenFails
<1>3. CASE LeaveLoop \/ PendCommand \/ NoCommandPending
  BY <1>3 DEF LeaveLoop, PendCommand, NoCommandPending
<1>4. CASE NewName \/ SaveFile \/ SeekFrame \/ Released
  BY <1>4 DEF NewName, SaveFile, SeekFrame, Released
<1>5. CASE BlankImages \/ DrainImages \/ DestroyReceiver \/ PostTaskDone
  BY <1>5 DEF BlankImages, DrainImages, DestroyReceiver, PostTaskDone
<1>6. CASE SetAddress \/ Seek \/ StartSaving \/ StopSaving
  BY <1>6 DEF SetAddress, Seek, StartSaving, StopSaving, Send
<1>7. CASE BeginSavingUDP \/ EndSavingUDP \/ PostCommand \/ BeginCleanup
  BY <1>7 DEF BeginSavingUDP, EndSavingUDP, PostCommand, BeginCleanup
<1>8. CASE BeginGet \/ PendImage \/ PendCam \/ PostCam \/ Release \/ PendTaskDone
  BY <1>8 DEF BeginGet, PendImage, PendCam, PostCam, Release, PendTaskDone
<1>9. CASE UNCHANGED vars
  BY <1>9 DEF vars
<1>10. QED
  BY <1>1, <1>2, <1>3, <1>4, <1>5, <1>6, <1>7, <1>8, <1>9
     DEF Next, Stopped, Task, Application, InCall

(* The task destroys the receiver on its way out, except one that the RTSP  *)
(* address of a later name has hidden.                                      *)
LEMMA ReceiverKept ==
  ASSUME IInv, [Next]_vars
  PROVE  ReceiverLeft'
<1> USE DEF IInv, ReceiverLeft, EndInOrder, Network, TaskGoto, sems, input, output, appVars,
        config, taskVars
<1>1. CASE Step
  BY <1>1, StepMoves
<1>2. CASE OpenFile \/ OpenReceiver \/ OpenFails
  BY <1>2 DEF OpenFile, OpenReceiver, OpenFails
<1>3. CASE LeaveLoop \/ PendCommand \/ NoCommandPending
  BY <1>3 DEF LeaveLoop, PendCommand, NoCommandPending
<1>4. CASE NewName \/ SaveFile \/ SeekFrame \/ Released
  BY <1>4 DEF NewName, SaveFile, SeekFrame, Released
<1>5. CASE BlankImages \/ DrainImages \/ DestroyReceiver \/ PostTaskDone
  BY <1>5 DEF BlankImages, DrainImages, DestroyReceiver, PostTaskDone
<1>6. CASE SetAddress \/ Seek \/ StartSaving \/ StopSaving
  BY <1>6 DEF SetAddress, Seek, StartSaving, StopSaving, Send
<1>7. CASE BeginSavingUDP \/ EndSavingUDP \/ PostCommand \/ BeginCleanup
  BY <1>7 DEF BeginSavingUDP, EndSavingUDP, PostCommand, BeginCleanup
<1>8. CASE BeginGet \/ PendImage \/ PendCam \/ PostCam \/ Release \/ PendTaskDone
  BY <1>8 DEF BeginGet, PendImage, PendCam, PostCam, Release, PendTaskDone
<1>9. CASE UNCHANGED vars
  BY <1>9 DEF vars
<1>10. QED
  BY <1>1, <1>2, <1>3, <1>4, <1>5, <1>6, <1>7, <1>8, <1>9
     DEF Next, Stopped, Task, Application, InCall

(* The image and the permission to go on are never both out.                *)
LEMMA TokensKept ==
  ASSUME IInv, [Next]_vars
  PROVE  OneToken'
<1> USE DEF IInv, OneToken, Tokens, TypeOK, EndInOrder, Ending, Posted, TaskGoto, AppGoto, sems,
        input, output, appVars, config, taskVars
<1>1. CASE Step
  <2>1. CASE ReadFrameFinished
    BY <1>1, <2>1, StepMoves, DecodeAssumption DEF ReadFrameFinished, DecodeAssumption
  <2>2. CASE FindInputFormat \/ OpenInput \/ FindStreamInfo \/ Open2 \/ NewStreamType \/ ReadFrame
             \/ DecodeVideo2 \/ Reopen2 \/ Timeout \/ Loop \/ NoCase \/ EndOfFile
    <3>1. UNCHANGED imageSem /\ task' # "waitRelease" /\ task' \notin {"start", "command", "step"}
      BY <2>2 DEF FindInputFormat, OpenInput, FindStreamInfo, Open2, NewStreamType, ReadFrame,
                  DecodeVideo2, Reopen2, Timeout, Loop, NoCase, EndOfFile, Becomes
    <3>2. QED
      BY <1>1, <3>1, StepMoves
  <2>3. QED
    BY <1>1, <2>1, <2>2 DEF Step
<1>2. CASE OpenFile \/ OpenReceiver \/ OpenFails
  BY <1>2 DEF OpenFile, OpenReceiver, OpenFails
<1>3. CASE LeaveLoop \/ PendCommand \/ NoCommandPending
  BY <1>3 DEF LeaveLoop, PendCommand, NoCommandPending
<1>4. CASE NewName \/ SaveFile \/ SeekFrame \/ Released
  BY <1>4 DEF NewName, SaveFile, SeekFrame, Released
<1>5. CASE BlankImages \/ DrainImages \/ DestroyReceiver \/ PostTaskDone
  BY <1>5 DEF BlankImages, DrainImages, DestroyReceiver, PostTaskDone
<1>6. CASE SetAddress \/ Seek \/ StartSaving \/ StopSaving
  BY <1>6 DEF SetAddress, Seek, StartSaving, StopSaving, Send
<1>7. CASE BeginSavingUDP \/ EndSavingUDP
  BY <1>7 DEF BeginSavingUDP, EndSavingUDP
<1>8. CASE PostCommand
  BY <1>8 DEF PostCommand
<1>9. CASE BeginCleanup
  BY <1>9 DEF BeginCleanup
<1>10. CASE BeginGet \/ PendCam \/ PendTaskDone
  BY <1>10 DEF BeginGet, PendCam, PendTaskDone
<1>11. CASE PendImage
  BY <1>11 DEF PendImage
<1>12. CASE PostCam
  BY <1>12 DEF PostCam
<1>13. CASE Release
  BY <1>13, DecodeAssumption DEF Release, DecodeAssumption
<1>14. CASE UNCHANGED vars
  BY <1>14 DEF vars
<1>15. QED
  BY <1>1, <1>2, <1>3, <1>4, <1>5, <1>6, <1>7, <1>10, <1>14, <1>11, <1>12, <1>13, <1>8, <1>9
     DEF Next, Stopped, Task, Application, InCall

(* Frames of a file are counted with images, or blank before the open.      *)
LEMMA FramesKept ==
  ASSUME IInv, [Next]_vars
  PROVE  FramesAreImages'
<1> USE DEF IInv, TypeOK, FramesAreImages, Network, NextState, TaskGoto, sems, input, output,
        appVars, config, taskVars
<1>1. CASE Step
  <2>1. CASE FindInputFormat
    BY <1>1, <2>1, StepMoves DEF FindInputFormat, Becomes
  <2>2. CASE OpenInput \/ FindStreamInfo \/ Open2 \/ Reopen2 \/ ReadFrame
    BY <1>1, <2>2, StepMoves DEF OpenInput, FindStreamInfo, Open2, Reopen2, ReadFrame, Becomes
  <2>3. CASE NewStreamType \/ DecodeVideo2 \/ NoCase \/ EndOfFile
    BY <1>1, <2>3, StepMoves DEF NewStreamType, DecodeVideo2, NoCase, EndOfFile
  <2>4. CASE ReadFrameFinished
    BY <1>1, <2>4, StepMoves, DecodeAssumption DEF ReadFrameFinished, Counted, DecodeAssumption
  <2>5. CASE Timeout \/ Loop
    BY <1>1, <2>5, StepMoves DEF Timeout, Loop
  <2>6. QED
    BY <1>1, <2>1, <2>2, <2>3, <2>4, <2>5 DEF Step
<1>2. CASE OpenFile \/ OpenReceiver \/ OpenFails
  BY <1>2 DEF OpenFile, OpenReceiver, OpenFails
<1>3. CASE LeaveLoop \/ PendCommand \/ NoCommandPending
  BY <1>3 DEF LeaveLoop, PendCommand, NoCommandPending
<1>4. CASE NewName \/ SaveFile \/ SeekFrame \/ Released
  BY <1>4 DEF NewName, SaveFile, SeekFrame, Released
<1>5. CASE BlankImages \/ DrainImages \/ DestroyReceiver \/ PostTaskDone
  BY <1>5 DEF BlankImages, DrainImages, DestroyReceiver, PostTaskDone
<1>6. CASE SetAddress \/ Seek \/ StartSaving \/ StopSaving
  BY <1>6 DEF SetAddress, Seek, StartSaving, StopSaving, Send
<1>7. CASE BeginSavingUDP \/ EndSavingUDP \/ PostCommand \/ BeginCleanup
  BY <1>7 DEF BeginSavingUDP, EndSavingUDP, PostCommand, BeginCleanup
<1>8. CASE BeginGet \/ PendImage \/ PendCam \/ PostCam \/ Release \/ PendTaskDone
  BY <1>8 DEF BeginGet, PendImage, PendCam, PostCam, Release, PendTaskDone
<1>9. CASE UNCHANGED vars
  BY <1>9 DEF vars
<1>10. QED
  BY <1>1, <1>2, <1>3, <1>4, <1>5, <1>6, <1>7, <1>8, <1>9
     DEF Next, Stopped, Task, Application, InCall

(* The first image of a file posts camSemaphore, and whoever takes it in    *)
(* Get puts it back.                                                        *)
LEMMA UnlockKept ==
  ASSUME IInv, [Next]_vars
  PROVE  ImageUnlocksGet'
<1> USE DecodeAssumption DEF IInv, TypeOK, ImageUnlocksGet, FramesAreImages, Posted, AppGoto, TaskGoto,
        DecodeAssumption, sems, input, output, appVars, config, taskVars
<1>1. CASE Step
  <2>1. CASE FindInputFormat
    BY <1>1, <2>1, StepMoves DEF FindInputFormat, Becomes
  <2>2. CASE OpenInput \/ FindStreamInfo \/ Open2 \/ Reopen2 \/ ReadFrame
    BY <1>1, <2>2, StepMoves DEF OpenInput, FindStreamInfo, Open2, Reopen2, ReadFrame, Becomes
  <2>3. CASE NewStreamType \/ DecodeVideo2 \/ NoCase \/ EndOfFile
    BY <1>1, <2>3, StepMoves DEF NewStreamType, DecodeVideo2, NoCase, EndOfFile
  <2>4. CASE ReadFrameFinished
    <3>1. /\ ffState = "READ_FRAME_FINISHED"
          /\ camSemaphore' = IF frame' = 1 THEN Posted(camSemaphore) ELSE camSemaphore
          /\ \/ frame' = Counted(frame) /\ finished' = TRUE
             \/ UNCHANGED <<frame, finished>>
          /\ UNCHANGED <<inputType, app>>
      BY <1>1, <2>4, StepMoves DEF ReadFrameFinished
    <3>2. camSemaphore > 0 => camSemaphore' > 0
      BY <3>1
    <3>3. frame = 0 /\ frame' = Counted(frame) => camSemaphore' > 0
      BY <3>1 DEF Counted
    <3>4. inputType = "FILE" /\ frame # 0 => finished
      BY <3>1
    <3>5. QED
      BY <3>1, <3>2, <3>3, <3>4
  <2>5. CASE Timeout \/ Loop
    BY <1>1, <2>5, StepMoves DEF Timeout, Loop
  <2>6. QED
    BY <1>1, <2>1, <2>2, <2>3, <2>4, <2>5 DEF Step
<1>2. CASE OpenFile \/ OpenReceiver \/ OpenFails
  BY <1>2 DEF OpenFile, OpenReceiver, OpenFails
<1>3. CASE LeaveLoop \/ PendCommand \/ NoCommandPending
  BY <1>3 DEF LeaveLoop, PendCommand, NoCommandPending
<1>4. CASE NewName \/ SaveFile \/ SeekFrame \/ Released
  BY <1>4 DEF NewName, SaveFile, SeekFrame, Released
<1>5. CASE BlankImages \/ DrainImages \/ DestroyReceiver \/ PostTaskDone
  BY <1>5 DEF BlankImages, DrainImages, DestroyReceiver, PostTaskDone
<1>6. CASE SetAddress \/ Seek \/ StartSaving \/ StopSaving
  BY <1>6 DEF SetAddress, Seek, StartSaving, StopSaving, Send
<1>7. CASE BeginSavingUDP \/ EndSavingUDP \/ PostCommand \/ BeginCleanup
  BY <1>7 DEF BeginSavingUDP, EndSavingUDP, PostCommand, BeginCleanup
<1>8. CASE BeginGet \/ PendCam \/ PendTaskDone
  BY <1>8 DEF BeginGet, PendCam, PendTaskDone
<1>9. CASE PendImage
  BY <1>9 DEF PendImage
<1>10. CASE PostCam
  BY <1>10 DEF PostCam
<1>11. CASE Release
  BY <1>11, DecodeAssumption DEF Release, DecodeAssumption
<1>12. CASE UNCHANGED vars
  BY <1>12 DEF vars
<1>13. QED
  BY <1>1, <1>2, <1>3, <1>4, <1>5, <1>6, <1>7, <1>8, <1>12, <1>9, <1>10, <1>11
     DEF Next, Stopped, Task, Application, InCall

-------------------------------------------------------------------------------
(* The inductive invariant holds in every reachable state.                  *)
LEMMA Invariance == Spec => []IInv
<1>1. Init => IInv
  <2> SUFFICES ASSUME Init PROVE IInv
    OBVIOUS
  <2>1. TypeOK
    <3>1. Flags
      BY DEF Init, Flags
    <3>2. Len(hmbx) = 0 /\ fName \in Urls
      BY EmptySeq DEF Init
    <3>3. QED
      BY <3>1, <3>2, DecodeAssumption DEF Init, TypeOK, Flags, DecodeAssumption
  <2>2. CommandsSound
    BY EmptySeq DEF Init, CommandsSound, Sound, Commands, NoCommand, Command
  <2>3. NextKnown /\ EndInOrder /\ ReceiverLeft
    BY DEF Init, NextKnown, States, EndInOrder, Ending, ReceiverLeft
  <2>4. OneToken /\ FramesAreImages /\ ImageUnlocksGet
    BY DEF Init, OneToken, Tokens, FramesAreImages, ImageUnlocksGet
  <2>5. QED
    BY <2>1, <2>2, <2>3, <2>4 DEF IInv
<1>2. IInv /\ [Next]_vars => IInv'
  <2> SUFFICES ASSUME IInv, [Next]_vars PROVE IInv'
    OBVIOUS
  <2>1. IInv'
    BY TypesKept, CommandsKept, NextKept, EndKept, ReceiverKept, TokensKept, FramesKept,
       UnlockKept DEF IInv
  <2>2. QED
    BY <2>1
<1>3. QED
  BY <1>1, <1>2, PTL DEF Spec

(* Nothing is used after it was freed: Cleanup frees the decoder when its   *)
(* task has gone, and no call reaches a destroyed receiver.                 *)
THEOREM LifetimesSafe == Spec => []LifetimesOK
<1>1. IInv => LifetimesOK
  <2>1. IInv => TypeOK
    BY DEF IInv
  <2>2. IInv => FreedLast /\ ReceiverAlive
    BY DEF IInv, EndInOrder, Ending, TypeOK, FreedLast, ReceiverAlive
  <2>3. QED
    BY <2>1, <2>2 DEF LifetimesOK
<1>2. QED
  BY <1>1, Invariance, PTL

(* When Cleanup has returned a receiver is left only if a UDP stream was    *)
(* re-targeted to an RTSP address.                                          *)
THEOREM ReceiverDestroyed == Spec => []ReceiverGone
<1>1. IInv => ReceiverGone
  BY DEF IInv, EndInOrder, ReceiverLeft, ReceiverGone
<1>2. QED
  BY <1>1, Invariance, PTL

(* Between Get and Release the task waits.                                  *)
THEOREM ImageIsStable == Spec => []ImageStable
<1>1. IInv => ImageStable
  BY DEF IInv, TypeOK, EndInOrder, Ending, OneToken, Tokens, ImageStable
<1>2. QED
  BY <1>1, Invariance, PTL

(* Once an image of a file is finished Get is not locked out any more.      *)
THEOREM GetIsUnlocked == Spec => []ImageUnlocksGet
<1>1. IInv => ImageUnlocksGet
  BY DEF IInv
<1>2. QED
  BY <1>1, Invariance, PTL

===============================================================================
