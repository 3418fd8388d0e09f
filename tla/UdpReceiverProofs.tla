--------------------------- MODULE UdpReceiverProofs ---------------------------
(***************************************************************************)
(* Proofs about the receiver, for any number of buffers, of threads that   *)
(* save, of packets' pieces and of frames, from a socket or from a file.   *)
(***************************************************************************)
EXTENDS UdpReceiver, FiniteSetTheorems, SequenceTheorems, TLAPS

-------------------------------------------------------------------------------
(* Queues of buffers.                                                       *)
Queued(mbx, b) == \E i \in DOMAIN mbx : mbx[i] = b

LEMMA AppendedQueue ==
  ASSUME NEW S, NEW q \in Seq(S), NEW e \in S
  PROVE  /\ Append(q, e) \in Seq(S)
         /\ Len(Append(q, e)) = Len(q) + 1
         /\ \A i \in DOMAIN Append(q, e) :
              Append(q, e)[i] = IF i = Len(q) + 1 THEN e ELSE q[i]
         /\ DOMAIN Append(q, e) = DOMAIN q \cup {Len(q) + 1}
         /\ \A b : Queued(Append(q, e), b) <=> Queued(q, b) \/ b = e
         /\ NoRepeats(q) /\ ~Queued(q, e) => NoRepeats(Append(q, e))
<1>1. /\ Append(q, e) \in Seq(S) /\ Len(Append(q, e)) = Len(q) + 1
      /\ \A i \in 1 .. Len(q) : Append(q, e)[i] = q[i]
      /\ Append(q, e)[Len(q) + 1] = e
  BY AppendProperties
<1>2. /\ Len(q) \in Nat /\ DOMAIN q = 1 .. Len(q)
      /\ DOMAIN Append(q, e) = 1 .. Len(q) + 1
  BY <1>1, LenProperties
<1>3. /\ \A i \in DOMAIN Append(q, e) :
           Append(q, e)[i] = IF i = Len(q) + 1 THEN e ELSE q[i]
      /\ DOMAIN Append(q, e) = DOMAIN q \cup {Len(q) + 1}
  BY <1>1, <1>2
<1>4. \A b : Queued(Append(q, e), b) <=> Queued(q, b) \/ b = e
  BY <1>2, <1>3 DEF Queued
<1>5. NoRepeats(q) /\ ~Queued(q, e) => NoRepeats(Append(q, e))
  BY <1>2, <1>3 DEF Queued, NoRepeats
<1>6. QED
  BY <1>1, <1>3, <1>4, <1>5

LEMMA QueueWithoutHead ==
  ASSUME NEW S, NEW q \in Seq(S), q # << >>
  PROVE  /\ Head(q) \in S /\ Tail(q) \in Seq(S)
         /\ Len(q) \in Nat \ {0} /\ Len(Tail(q)) = Len(q) - 1
         /\ 1 \in DOMAIN q /\ Head(q) = q[1]
         /\ \A i \in DOMAIN Tail(q) : i + 1 \in DOMAIN q /\ Tail(q)[i] = q[i + 1]
         /\ \A b : Queued(q, b) <=> Queued(Tail(q), b) \/ b = Head(q)
         /\ NoRepeats(q) => NoRepeats(Tail(q)) /\ ~Queued(Tail(q), Head(q))
<1>1. /\ Head(q) \in S /\ Tail(q) \in Seq(S) /\ Len(Tail(q)) = Len(q) - 1
      /\ \A i \in 1 .. Len(Tail(q)) : Tail(q)[i] = q[i + 1]
  BY HeadTailProperties
<1>2. /\ Len(q) \in Nat /\ DOMAIN q = 1 .. Len(q)
      /\ DOMAIN Tail(q) = 1 .. Len(q) - 1
  BY <1>1, LenProperties
<1>3. Len(q) # 0 /\ Head(q) = q[1]
  BY EmptySeq, <1>2
<1>4. /\ 1 \in DOMAIN q
      /\ \A i \in DOMAIN Tail(q) : i + 1 \in DOMAIN q /\ Tail(q)[i] = q[i + 1]
      /\ \A i \in DOMAIN q : i = 1 \/ (i - 1 \in DOMAIN Tail(q) /\ Tail(q)[i - 1] = q[i])
  <2>1. 1 \in DOMAIN q
    BY <1>2, <1>3
  <2>2. \A i \in DOMAIN Tail(q) : i + 1 \in DOMAIN q /\ Tail(q)[i] = q[i + 1]
    BY <1>1, <1>2
  <2>3. ASSUME NEW i \in DOMAIN q, i # 1
        PROVE  i - 1 \in DOMAIN Tail(q) /\ Tail(q)[i - 1] = q[i]
    <3>1. i - 1 \in DOMAIN Tail(q) /\ (i - 1) + 1 = i
      BY <1>2, <2>3
    <3>2. QED
      BY <2>2, <3>1
  <2>4. QED
    BY <2>1, <2>2, <2>3
<1>5. ASSUME NEW b PROVE Queued(q, b) <=> Queued(Tail(q), b) \/ b = Head(q)
  <2>1. ASSUME NEW i \in DOMAIN q, q[i] = b
        PROVE  b = Head(q) \/ \E j \in DOMAIN Tail(q) : Tail(q)[j] = b
    BY <1>3, <1>4, <2>1
  <2>2. Queued(Tail(q), b) \/ b = Head(q) => Queued(q, b)
    BY <1>3, <1>4 DEF Queued
  <2>3. QED
    BY <2>1, <2>2 DEF Queued
<1>6. NoRepeats(q) => NoRepeats(Tail(q)) /\ ~Queued(Tail(q), Head(q))
  BY <1>2, <1>3, <1>4 DEF Queued, NoRepeats
<1>7. QED
  BY <1>1, <1>2, <1>3, <1>4, <1>5, <1>6

(* A queue of some of the buffers, each at most once, is no longer than     *)
(* there are buffers, and shorter when one is missing.                      *)
LEMMA RoomForTheMissing ==
  ASSUME NEW q \in Seq(Buffers), NoRepeats(q), NEW b \in Buffers, ~Queued(q, b)
  PROVE  HasRoom(q)
<1>1. /\ IsFiniteSet(Buffers \ {b}) /\ Cardinality(Buffers) \in Nat
      /\ Cardinality(Buffers \ {b}) = Cardinality(Buffers) - 1
  BY FS_RemoveElement, FS_CardinalityType, UdpAssumption DEF UdpAssumption
<1>2. Len(q) \in Nat /\ DOMAIN q = 1 .. Len(q) /\ q \in [1 .. Len(q) -> Buffers]
  BY LenProperties
<1>3. q \in Injection(1 .. Len(q), Buffers \ {b})
  BY <1>2 DEF Injection, IsInjective, Queued, NoRepeats
<1>4. Cardinality(1 .. Len(q)) <= Cardinality(Buffers \ {b})
  BY <1>1, <1>3, FS_Injection
<1>5. Cardinality(1 .. Len(q)) = Len(q)
  BY <1>2, FS_Interval
<1>6. QED
  BY <1>1, <1>2, <1>4, <1>5 DEF HasRoom, QSIZE

-------------------------------------------------------------------------------
(* Who is where: types, the three semaphores, and what the end of a round   *)
(* and the end of the task say.                                             *)
TaskInDump == task \in {"initSocket", "demux", "demuxEnd", "read", "dump", "dumpWrite",
                        "parse", "postDump"}
UserInDump == consumer \in {"disconnect", "reinit"}
InDump(s)  ==
  saver[s] \in {"closeOld", "open", "closeFile", "clear", "postStart", "postStop"}

(* dumpSem starts at 0 and is posted when the socket is there: at most one  *)
(* thread is between its wait and its post, and none while it is posted.    *)
DumpSemTaken ==
  /\ dumpSem = 1 => ~TaskInDump /\ ~UserInDump /\ \A s \in Savers : ~InDump(s)
  /\ TaskInDump => ~UserInDump /\ \A s \in Savers : ~InDump(s)
  /\ UserInDump => \A s \in Savers : ~InDump(s)
  /\ \A s, t \in Savers : InDump(s) /\ InDump(t) => s = t

LockSemTaken ==
  /\ lockSem = 1 => task # "setBusy" /\ consumer # "status"
  /\ ~(task = "setBusy" /\ consumer = "status")

Leaving ==
  /\ doneSem = 1 => task = "gone"
  /\ consumer \in {"pendDone", "gone"} => \A s \in Savers : saver[s] = "idle"
  /\ consumer = "gone" => task = "gone"
  /\ freed => consumer = "gone"

RvMeans ==
  /\ rv = "TERMINATE" =>
       /\ done /\ useSlDemux
       /\ task \in {"postDump", "hand", "top", "exit", "postDone", "gone"}
  /\ rv = "ERROR" => done
  /\ rv = "FAIL" => useSlDemux
  /\ task \in {"exit", "postDone", "gone"} => done

(* The task has a buffer of its own.  While done is not set that is any     *)
(* round in progress; once it is set, frame may be left over from an        *)
(* earlier round, but not where a packet is read or parsed, where the       *)
(* buffer is handed on, or at the end of a file.                            *)
TaskOwns ==
  \/ task \in {"read", "dump", "dumpWrite", "parse", "giveBack", "deliver"}
  \/ ~done /\ task \in {"pendDump", "demux", "demuxEnd", "postDump", "hand"}
  \/ rv = "TERMINATE" /\ task \in {"postDump", "hand", "top", "exit"}

UserOwns == consumer \in {"copyOut", "postEmpty"}

OwnBuffers == (TaskOwns => frame \in Buffers) /\ (UserOwns => popped \in Buffers)

ThreadInv ==
  TypeOK /\ DumpSemTaken /\ LockSemTaken /\ Leaving /\ RvMeans /\ OwnBuffers

LEMMA ThreadInit ==
  ASSUME Init
  PROVE  ThreadInv
<1>1. emptyMbx \in Seq(Buffers)
  <2>1. Cardinality(Buffers) \in Nat /\ emptyMbx \in [1 .. QSIZE -> Buffers]
    BY UdpAssumption, FS_CardinalityType DEF Init, BufferOrders, UdpAssumption
  <2>2. QED
    BY <2>1 DEF QSIZE
<1>2. TypeOK
  <2>1. useSlDemux \in BOOLEAN /\ fullMbx \in Seq(Buffers \cup {NULL})
    BY UdpAssumption, EmptySeq DEF Init, UdpAssumption
  <2>2. content \in [Buffers -> 0 .. MaxFrames] /\ nFrames \in 0 .. MaxFrames
    BY UdpAssumption DEF Init, UdpAssumption
  <2>3. units \in 0 .. MaxUnits /\ delivered \in 0 .. MaxFrames
    BY UdpAssumption DEF Init, UdpAssumption
  <2>4. saver \in [Savers -> {"idle", "pendStart", "closeOld", "open", "pendStop",
                              "closeFile", "clear", "postStart", "postStop", "result"}]
    BY DEF Init
  <2>5. /\ doneSem \in 0 .. 1 /\ lockSem \in 0 .. 1 /\ dumpSem \in 0 .. 1
        /\ dumpFile \in Files \cup {NULL} /\ openFiles \subseteq Files
        /\ frame \in Buffers \cup {NULL} /\ popped \in Buffers \cup {NULL}
    BY DEF Init
  <2>6. /\ done \in BOOLEAN /\ busy \in BOOLEAN /\ freed \in BOOLEAN
        /\ haveFrame \in BOOLEAN
    BY DEF Init
  <2>7. source = "null" /\ task = "initSocket" /\ rv = "SUCCESS" /\ consumer = "idle"
    BY DEF Init
  <2>8. QED
    BY <1>1, <2>1, <2>2, <2>3, <2>4, <2>5, <2>6, <2>7 DEF TypeOK
<1>3. DumpSemTaken /\ LockSemTaken /\ Leaving
  BY DEF Init, DumpSemTaken, TaskInDump, UserInDump, InDump, LockSemTaken, Leaving
<1>4. RvMeans /\ OwnBuffers
  BY DEF Init, RvMeans, TaskOwns, UserOwns, OwnBuffers
<1>5. QED
  BY <1>2, <1>3, <1>4 DEF ThreadInv

(* What the types of a post rest on.                                        *)
LEMMA PostsAreTyped ==
  ASSUME ThreadInv
  PROVE  /\ TaskInDump \/ UserInDump \/ (\E s \in Savers : InDump(s)) => dumpSem = 0
         /\ task = "setBusy" \/ consumer = "status" => lockSem = 0
         /\ task = "postDone" => doneSem = 0
         /\ task \in {"giveBack", "deliver"} => frame \in Buffers
         /\ consumer \in {"copyOut", "postEmpty"} => popped \in Buffers
BY DEF ThreadInv, TypeOK, DumpSemTaken, LockSemTaken, Leaving, OwnBuffers, TaskOwns,
       UserOwns

LEMMA TaskTypes ==
  ASSUME ThreadInv, Task
  PROVE  TypeOK'
<1> USE DEF TypeOK, mboxes, semas, dump, stream, userVars, TaskGoto
<1>1. TypeOK
  BY DEF ThreadInv
<1>2. CASE InitSocket \/ PostDump
  <2>1. dumpSem = 0
    BY <1>2, PostsAreTyped DEF InitSocket, PostDump, TaskInDump
  <2>2. QED
    BY <1>1, <1>2, <2>1 DEF InitSocket, PostDump
<1>3. CASE TestDone \/ WaitEmpty \/ DemuxLoop \/ DemuxEnd \/ DumpTest \/ DumpWrite \/ HandOver
  <2>1. /\ task' \in {"exit", "tryEmpty", "pendDump", "pendEmpty", "demuxEnd", "read",
                       "parse", "postDump", "dumpWrite", "giveBack", "deliver", "top"}
        /\ rv' \in {rv, "ERROR", "SUCCESS"}
    BY <1>3 DEF TestDone, WaitEmpty, DemuxLoop, DemuxEnd, DumpTest, DumpWrite, HandOver
  <2>2. UNCHANGED <<mboxes, semas, done, busy, dump, frame, haveFrame, stream, userVars,
                    saver, freed>>
    BY <1>3 DEF TestDone, WaitEmpty, DemuxLoop, DemuxEnd, DumpTest, DumpWrite, HandOver
  <2>3. QED
    BY <1>1, <2>1, <2>2
<1>4. CASE TryEmpty \/ PendEmpty
  <2>1. emptyMbx # << >> => Head(emptyMbx) \in Buffers /\ Tail(emptyMbx) \in Seq(Buffers)
    BY <1>1, QueueWithoutHead
  <2>2. /\ emptyMbx' \in Seq(Buffers) /\ frame' \in Buffers \cup {NULL}
        /\ task' \in {"pendDump", "pendLock", "waitEmpty"}
    BY <1>1, <1>4, <2>1 DEF TryEmpty, PendEmpty
  <2>3. UNCHANGED <<fullMbx, semas, done, busy, dump, rv, haveFrame, stream, userVars,
                    saver, freed>>
    BY <1>4 DEF TryEmpty, PendEmpty
  <2>4. QED
    BY <1>1, <2>2, <2>3
<1>5. CASE PendLock \/ PendDump
  <2>1. lockSem' \in 0 .. 1 /\ dumpSem' \in 0 .. 1 /\ task' \in {"setBusy", "demux"}
    BY <1>1, <1>5 DEF PendLock, PendDump
  <2>2. haveFrame' \in BOOLEAN
    BY <1>1, <1>5 DEF PendLock, PendDump
  <2>3. UNCHANGED <<mboxes, doneSem, done, busy, dump, frame, rv, stream, userVars,
                    saver, freed>>
    BY <1>5 DEF PendLock, PendDump
  <2>4. QED
    BY <1>1, <2>1, <2>2, <2>3
<1>6. CASE SetBusy
  <2>1. lockSem = 0
    BY <1>6, PostsAreTyped DEF SetBusy
  <2>2. QED
    BY <1>1, <1>6, <2>1 DEF SetBusy
<1>7. CASE ReadPacket \/ ReadTimeout \/ ReadFails \/ ReadEof
  <2>1. units' \in 0 .. MaxUnits /\ source' \in {"null", "open", "closed"}
    BY <1>1, <1>7, UdpAssumption
       DEF ReadPacket, ReadTimeout, ReadFails, ReadEof, UdpAssumption
  <2>2. task' \in {"dump", "postDump"} /\ rv' \in {rv, "TIMEOUT", "FAIL", "TERMINATE"}
    BY <1>7 DEF ReadPacket, ReadTimeout, ReadFails, ReadEof
  <2>3. done' \in BOOLEAN
    BY <1>1, <1>7 DEF ReadPacket, ReadTimeout, ReadFails, ReadEof
  <2>4. UNCHANGED <<mboxes, semas, busy, dump, frame, haveFrame, content, nFrames,
                    userVars, saver, freed>>
    BY <1>7 DEF ReadPacket, ReadTimeout, ReadFails, ReadEof
  <2>5. QED
    BY <1>1, <2>1, <2>2, <2>3, <2>4
<1>8. CASE Parse
  <2>1. units' \in 0 .. MaxUnits /\ nFrames' \in 0 .. MaxFrames
    BY <1>1, <1>8, UdpAssumption DEF Parse, UdpAssumption
  <2>2. content' \in [Buffers -> 0 .. MaxFrames]
    BY <1>1, <1>8, <2>1 DEF Parse
  <2>3. haveFrame' \in BOOLEAN /\ task' = "demux"
    BY <1>1, <1>8 DEF Parse
  <2>4. UNCHANGED <<mboxes, semas, done, busy, dump, frame, rv, source, userVars, saver,
                    freed>>
    BY <1>8 DEF Parse
  <2>5. QED
    BY <1>1, <2>1, <2>2, <2>3, <2>4
<1>9. CASE GiveBack
  <2>1. emptyMbx' \in Seq(Buffers)
    BY <1>1, <1>9, PostsAreTyped, AppendProperties DEF GiveBack
  <2>2. QED
    BY <1>1, <1>9, <2>1 DEF GiveBack
<1>10. CASE Deliver \/ Announce
  <2>1. fullMbx' \in Seq(Buffers \cup {NULL}) /\ frame' \in Buffers \cup {NULL}
    <3>1. CASE Deliver
      BY <1>1, <3>1, AppendProperties DEF Deliver
    <3>2. CASE Announce
      <4>1. NULL \in Buffers \cup {NULL}
        OBVIOUS
      <4>2. Append(fullMbx, NULL) \in Seq(Buffers \cup {NULL})
        BY <1>1, <4>1, AppendProperties
      <4>3. QED
        BY <1>1, <3>2, <4>2 DEF Announce
    <3>3. QED
      BY <1>10, <3>1, <3>2
  <2>2. task' \in {"top", "postDone"}
    BY <1>10 DEF Deliver, Announce
  <2>3. UNCHANGED <<emptyMbx, semas, done, busy, dump, rv, haveFrame, stream, userVars,
                    saver, freed>>
    BY <1>10 DEF Deliver, Announce
  <2>4. QED
    BY <1>1, <2>1, <2>2, <2>3
<1>11. CASE PostDone
  <2>1. doneSem = 0
    BY <1>11, PostsAreTyped DEF PostDone
  <2>2. QED
    BY <1>1, <1>11, <2>1 DEF PostDone
<1>12. QED
  BY <1>2, <1>3, <1>4, <1>5, <1>6, <1>7, <1>8, <1>9, <1>10, <1>11 DEF Task

LEMMA TaskThreads ==
  ASSUME ThreadInv, Task
  PROVE  DumpSemTaken' /\ LockSemTaken' /\ Leaving' /\ RvMeans' /\ OwnBuffers'
<1> USE DEF ThreadInv, mboxes, semas, dump, stream, userVars, TaskGoto
<1>1. DumpSemTaken'
  <2> USE DEF DumpSemTaken, TaskInDump, UserInDump, InDump
  <2>1. CASE InitSocket \/ PostDump
    BY <2>1 DEF InitSocket, PostDump
  <2>2. CASE PendDump
    BY <2>2 DEF PendDump, TypeOK
  <2>3. CASE UNCHANGED dumpSem /\ (TaskInDump' => TaskInDump) /\ UNCHANGED <<consumer, saver>>
    BY <2>3
  <2>4. QED
    BY <2>1, <2>2, <2>3
       DEF Task, TestDone, TryEmpty, PendLock, SetBusy, WaitEmpty, PendEmpty, DemuxLoop,
           DemuxEnd, ReadPacket, ReadTimeout, ReadFails, ReadEof, DumpTest, DumpWrite,
           Parse, HandOver, GiveBack, Deliver, Announce, PostDone
<1>2. LockSemTaken'
  <2> USE DEF LockSemTaken
  <2>1. CASE PendLock
    BY <2>1 DEF PendLock, TypeOK
  <2>2. CASE SetBusy
    BY <2>2 DEF SetBusy
  <2>3. CASE UNCHANGED <<lockSem, consumer>> /\ task' # "setBusy"
    BY <2>3
  <2>4. QED
    BY <2>1, <2>2, <2>3
       DEF Task, InitSocket, TestDone, TryEmpty, WaitEmpty, PendEmpty, PendDump,
           DemuxLoop, DemuxEnd, ReadPacket, ReadTimeout, ReadFails, ReadEof, DumpTest,
           DumpWrite, Parse, PostDump, HandOver, GiveBack, Deliver, Announce, PostDone
<1>3. Leaving'
  <2>1. UNCHANGED <<consumer, saver, freed>> /\ task # "gone"
    BY DEF Task, InitSocket, TestDone, TryEmpty, PendLock, SetBusy, WaitEmpty,
           PendEmpty, PendDump, DemuxLoop, DemuxEnd, ReadPacket, ReadTimeout, ReadFails,
           ReadEof, DumpTest, DumpWrite, Parse, PostDump, HandOver, GiveBack, Deliver,
           Announce, PostDone
  <2>2. UNCHANGED doneSem \/ task' = "gone"
    BY DEF Task, InitSocket, TestDone, TryEmpty, PendLock, SetBusy, WaitEmpty,
           PendEmpty, PendDump, DemuxLoop, DemuxEnd, ReadPacket, ReadTimeout, ReadFails,
           ReadEof, DumpTest, DumpWrite, Parse, PostDump, HandOver, GiveBack, Deliver,
           Announce, PostDone
  <2>3. QED
    BY <2>1, <2>2 DEF Leaving
<1>4. RvMeans' /\ OwnBuffers'
  <2> USE DEF RvMeans, OwnBuffers, TaskOwns, UserOwns
  <2>1. CASE InitSocket \/ TestDone \/ PendLock \/ SetBusy \/ WaitEmpty \/ PendDump
    BY <2>1 DEF InitSocket, TestDone, PendLock, SetBusy, WaitEmpty, PendDump
  <2>2. CASE TryEmpty \/ PendEmpty
    <3>1. emptyMbx # << >> => Head(emptyMbx) \in Buffers
      BY QueueWithoutHead DEF TypeOK
    <3>2. QED
      BY <2>2, <3>1 DEF TryEmpty, PendEmpty
  <2>3. CASE DemuxLoop \/ DemuxEnd
    BY <2>3 DEF DemuxLoop, DemuxEnd, TypeOK
  <2>4. CASE ReadPacket \/ ReadTimeout
    BY <2>4 DEF ReadPacket, ReadTimeout
  <2>5. CASE ReadFails \/ ReadEof
    BY <2>5 DEF ReadFails, ReadEof
  <2>6. CASE DumpTest \/ DumpWrite \/ Parse \/ PostDump
    BY <2>6 DEF DumpTest, DumpWrite, Parse, PostDump
  <2>7. CASE HandOver
    BY <2>7 DEF HandOver
  <2>8. CASE GiveBack \/ Deliver
    BY <2>8 DEF GiveBack, Deliver
  <2>9. CASE Announce \/ PostDone
    BY <2>9 DEF Announce, PostDone
  <2>10. QED
    BY <2>1, <2>2, <2>3, <2>4, <2>5, <2>6, <2>7, <2>8, <2>9 DEF Task
<1>5. QED
  BY <1>1, <1>2, <1>3, <1>4

LEMMA ConsumerTypes ==
  ASSUME ThreadInv, Consumer
  PROVE  TypeOK'
<1> USE DEF TypeOK, mboxes, semas, dump, stream, taskVars, taskSide, UserGoto
<1>1. TypeOK
  BY DEF ThreadInv
<1>2. CASE BeginDemuxNextFrame \/ BeginReinit \/ BeginDestroy
  <2>1. consumer' \in {"pendFull", "pendReinit", "pendDone"} /\ done' \in BOOLEAN
    BY <1>1, <1>2 DEF BeginDemuxNextFrame, BeginReinit, BeginDestroy
  <2>2. UNCHANGED <<mboxes, semas, busy, dump, taskSide, popped, delivered, saver, freed>>
    BY <1>2 DEF BeginDemuxNextFrame, BeginReinit, BeginDestroy
  <2>3. QED
    BY <1>1, <2>1, <2>2
<1>3. CASE PendFull \/ FullTimeout
  <2>1. fullMbx # << >> => /\ Head(fullMbx) \in Buffers \cup {NULL}
                           /\ Tail(fullMbx) \in Seq(Buffers \cup {NULL})
    BY <1>1, QueueWithoutHead
  <2>2. /\ fullMbx' \in Seq(Buffers \cup {NULL}) /\ popped' \in Buffers \cup {NULL}
        /\ consumer' \in {"idle", "eof", "copyOut"}
    BY <1>1, <1>3, <2>1 DEF PendFull, FullTimeout
  <2>3. UNCHANGED <<emptyMbx, semas, done, busy, dump, taskSide, delivered, saver, freed>>
    BY <1>3 DEF PendFull, FullTimeout
  <2>4. QED
    BY <1>1, <2>2, <2>3
<1>4. CASE CopyOut
  <2>1. delivered' \in 0 .. MaxFrames
    BY <1>1, <1>4, PostsAreTyped DEF CopyOut
  <2>2. consumer' \in {"postEmpty"}
    BY <1>4 DEF CopyOut
  <2>3. UNCHANGED <<mboxes, semas, done, busy, dump, taskSide, popped, saver, freed>>
    BY <1>4 DEF CopyOut
  <2>4. QED
    BY <1>1, <2>1, <2>2, <2>3
<1>5. CASE PostEmpty
  <2>1. /\ emptyMbx' \in Seq(Buffers) /\ popped' \in Buffers \cup {NULL}
        /\ consumer' \in {"idle"}
    BY <1>1, <1>5, PostsAreTyped, AppendProperties DEF PostEmpty
  <2>2. UNCHANGED <<fullMbx, semas, done, busy, dump, taskSide, delivered, saver, freed>>
    BY <1>5 DEF PostEmpty
  <2>3. QED
    BY <1>1, <2>1, <2>2
<1>6. CASE PendStatus \/ PendReinit \/ PendDone
  <2>1. doneSem' \in 0 .. 1 /\ lockSem' \in 0 .. 1 /\ dumpSem' \in 0 .. 1
    <3>1. doneSem \in 0 .. 1 /\ lockSem \in 0 .. 1 /\ dumpSem \in 0 .. 1
      BY <1>1
    <3>2. CASE PendStatus
      BY <3>1, <3>2 DEF PendStatus
    <3>3. CASE PendReinit
      BY <3>1, <3>3 DEF PendReinit
    <3>4. CASE PendDone
      BY <3>1, <3>4 DEF PendDone
    <3>5. QED
      BY <1>6, <3>2, <3>3, <3>4
  <2>2. consumer' \in {"status", "disconnect", "gone"}
    BY <1>6 DEF PendStatus, PendReinit, PendDone
  <2>3. freed' \in BOOLEAN
    BY <1>1, <1>6 DEF PendStatus, PendReinit, PendDone
  <2>4. UNCHANGED <<mboxes, done, busy, dump, taskSide, popped, delivered, saver>>
    BY <1>6 DEF PendStatus, PendReinit, PendDone
  <2>5. QED
    BY <1>1, <2>1, <2>2, <2>3, <2>4
<1>7. CASE ReadStatus
  <2>1. lockSem = 0
    BY <1>7, PostsAreTyped DEF ReadStatus
  <2>2. lockSem' \in 0 .. 1 /\ consumer' \in {"idle"}
    BY <1>7, <2>1 DEF ReadStatus
  <2>3. busy' \in BOOLEAN
    <3>1. busy' = FALSE
      BY <1>7 DEF ReadStatus
    <3>2. QED
      BY <3>1, Zenon
  <2>4. UNCHANGED <<mboxes, doneSem, dumpSem, done, dump, taskSide, popped, delivered,
                    saver, freed>>
    BY <1>7 DEF ReadStatus
  <2>5. QED
    BY <1>1, <2>2, <2>3, <2>4
<1>8. CASE Disconnect \/ Reinit
  <2>1. dumpSem = 0
    BY <1>8, PostsAreTyped DEF Disconnect, Reinit, UserInDump
  <2>2. source' \in {"null", "open", "closed"} /\ dumpSem' \in 0 .. 1
    BY <1>1, <1>8, <2>1 DEF Disconnect, Reinit
  <2>3. consumer' \in {"reinit", "idle"}
    BY <1>8 DEF Disconnect, Reinit
  <2>4. UNCHANGED <<mboxes, doneSem, lockSem, done, busy, dump, taskVars, units, content,
                    nFrames, popped, delivered, saver, freed>>
    BY <1>8 DEF Disconnect, Reinit
  <2>5. QED
    BY <1>1, <2>2, <2>3, <2>4
<1>9. QED
  BY <1>2, <1>3, <1>4, <1>5, <1>6, <1>7, <1>8 DEF Consumer, InCall

LEMMA ConsumerThreads ==
  ASSUME ThreadInv, Consumer
  PROVE  DumpSemTaken' /\ LockSemTaken' /\ Leaving' /\ RvMeans' /\ OwnBuffers'
<1> USE DEF ThreadInv, mboxes, semas, dump, stream, taskVars, taskSide, UserGoto
<1>1. UNCHANGED <<useSlDemux, task, frame, rv, saver>> /\ (done => done')
  BY DEF Consumer, InCall, PendFull, FullTimeout, CopyOut, PostEmpty, ReadStatus,
         PendReinit, Disconnect, Reinit, PendDone, BeginDemuxNextFrame, PendStatus,
         BeginReinit, BeginDestroy
<1>2. DumpSemTaken'
  <2> USE DEF DumpSemTaken, TaskInDump, UserInDump, InDump
  <2>1. CASE Reinit
    BY <1>1, <2>1 DEF Reinit
  <2>2. CASE PendReinit
    BY <1>1, <2>2 DEF PendReinit, TypeOK
  <2>3. CASE UNCHANGED dumpSem /\ (UserInDump' => UserInDump)
    BY <1>1, <2>3
  <2>4. QED
    BY <2>1, <2>2, <2>3
       DEF Consumer, InCall, PendFull, FullTimeout, CopyOut, PostEmpty, ReadStatus,
           Disconnect, PendDone, BeginDemuxNextFrame, PendStatus, BeginReinit,
           BeginDestroy
<1>3. LockSemTaken'
  <2> USE DEF LockSemTaken
  <2>1. CASE PendStatus
    BY <1>1, <2>1 DEF PendStatus, TypeOK
  <2>2. CASE ReadStatus
    BY <1>1, <2>2 DEF ReadStatus
  <2>3. CASE UNCHANGED lockSem /\ consumer' # "status"
    BY <1>1, <2>3
  <2>4. QED
    BY <2>1, <2>2, <2>3
       DEF Consumer, InCall, PendFull, FullTimeout, CopyOut, PostEmpty, PendReinit,
           Reinit, Disconnect, PendDone, BeginDemuxNextFrame, BeginReinit, BeginDestroy
<1>4. Leaving'
  <2> USE DEF Leaving
  <2>1. CASE PendDone
    BY <1>1, <2>1 DEF PendDone, TypeOK
  <2>2. CASE BeginDestroy
    BY <1>1, <2>2 DEF BeginDestroy
  <2>3. CASE UNCHANGED <<doneSem, freed>> /\ consumer # "gone"
             /\ consumer' \notin {"pendDone", "gone"}
    BY <1>1, <2>3
  <2>4. QED
    BY <2>1, <2>2, <2>3
       DEF Consumer, InCall, PendFull, FullTimeout, CopyOut, PostEmpty, PendReinit,
           Reinit, Disconnect, BeginDemuxNextFrame, BeginReinit, PendStatus, ReadStatus
<1>5. RvMeans'
  BY <1>1 DEF RvMeans
<1>6. TaskOwns' => TaskOwns
  BY <1>1 DEF TaskOwns
<1>7. OwnBuffers'
  <2> USE DEF OwnBuffers, UserOwns
  <2>1. UserOwns' => popped' \in Buffers
    <3>1. CASE PendFull
      <4>1. Head(fullMbx) \in Buffers \cup {NULL}
        BY <3>1, QueueWithoutHead DEF PendFull, TypeOK
      <4>2. QED
        BY <3>1, <4>1 DEF PendFull
    <3>2. CASE CopyOut
      BY <3>2 DEF CopyOut
    <3>3. CASE ~UserOwns'
      BY <3>3
    <3>4. QED
      BY <3>1, <3>2, <3>3
         DEF Consumer, InCall, FullTimeout, PostEmpty, ReadStatus, PendReinit, Disconnect,
             Reinit, PendDone, BeginDemuxNextFrame, PendStatus, BeginReinit, BeginDestroy
  <2>2. QED
    BY <1>1, <1>6, <2>1
<1>8. QED
  BY <1>2, <1>3, <1>4, <1>5, <1>7

LEMMA SaverTypes ==
  ASSUME ThreadInv, NEW s \in Savers, Saver(s)
  PROVE  TypeOK'
<1> USE DEF mboxes, semas, dump, stream, taskVars, taskSide, userVars, SaverGoto
<1>1. TypeOK
  BY DEF ThreadInv
<1>2. saver' \in [Savers -> {"idle", "pendStart", "closeOld", "open", "pendStop",
                             "closeFile", "clear", "postStart", "postStop", "result"}]
  BY <1>1 DEF TypeOK, Saver, Saving, BeginSaving, PendSaving, CloseDump, OpenDump,
              ClearDump, PostSaving, StartResult
<1>3. dumpSem' \in 0 .. 1
  <2>1. CASE PostSaving(s)
    <3>1. dumpSem = 0
      BY <2>1, PostsAreTyped DEF PostSaving, StartResult, InDump
    <3>2. QED
      BY <2>1, <3>1 DEF PostSaving, StartResult
  <2>2. CASE PendSaving(s)
    BY <1>1, <2>2 DEF PendSaving, TypeOK
  <2>3. CASE UNCHANGED dumpSem
    BY <1>1, <2>3 DEF TypeOK
  <2>4. QED
    BY <2>1, <2>2, <2>3 DEF Saver, Saving, BeginSaving, CloseDump, OpenDump, ClearDump,
                            StartResult
<1>4. dumpFile' \in Files \cup {NULL} /\ openFiles' \subseteq Files
  <2>1. CASE CloseDump(s) \/ OpenDump(s) \/ ClearDump(s)
    BY <1>1, <2>1 DEF TypeOK, CloseDump, OpenDump, ClearDump
  <2>2. CASE UNCHANGED dump
    BY <1>1, <2>2 DEF TypeOK
  <2>3. QED
    BY <2>1, <2>2 DEF Saver, Saving, BeginSaving, PendSaving, PostSaving, StartResult
<1>5. UNCHANGED <<mboxes, doneSem, lockSem, done, busy, taskSide, userVars, freed>>
  BY DEF Saver, Saving, BeginSaving, PendSaving, CloseDump, OpenDump, ClearDump,
         PostSaving, StartResult
<1>6. QED
  BY <1>1, <1>2, <1>3, <1>4, <1>5 DEF TypeOK

LEMMA SaverThreads ==
  ASSUME ThreadInv, NEW s \in Savers, Saver(s)
  PROVE  DumpSemTaken' /\ LockSemTaken' /\ Leaving' /\ RvMeans' /\ OwnBuffers'
<1> USE DEF ThreadInv, mboxes, semas, dump, stream, taskVars, taskSide, userVars, SaverGoto
<1>1. /\ UNCHANGED <<useSlDemux, emptyMbx, fullMbx, doneSem, lockSem, done, task, frame, rv,
                     consumer, popped, freed>>
      /\ \A t \in Savers \ {s} : saver'[t] = saver[t]
  BY DEF Saver, Saving, BeginSaving, PendSaving, CloseDump, OpenDump, ClearDump,
         PostSaving, StartResult, TypeOK
<1>2. DumpSemTaken'
  <2> USE DEF DumpSemTaken, TaskInDump, UserInDump, InDump
  <2>1. CASE PostSaving(s)
    BY <1>1, <2>1 DEF PostSaving, StartResult, TypeOK
  <2>2. CASE PendSaving(s)
    BY <1>1, <2>2 DEF PendSaving, TypeOK
  <2>3. CASE UNCHANGED dumpSem /\ (InDump(s)' => InDump(s))
    BY <1>1, <2>3
  <2>4. CASE BeginSaving(s) \/ StartResult(s)
    BY <1>1, <2>3, <2>4 DEF BeginSaving, StartResult, TypeOK
  <2>5. CASE CloseDump(s) \/ OpenDump(s) \/ ClearDump(s)
    BY <1>1, <2>3, <2>5 DEF CloseDump, OpenDump, ClearDump, TypeOK
  <2>6. QED
    BY <2>1, <2>2, <2>4, <2>5 DEF Saver, Saving
<1>3. LockSemTaken' /\ RvMeans' /\ OwnBuffers'
  BY <1>1 DEF LockSemTaken, RvMeans, OwnBuffers, TaskOwns, UserOwns
<1>4. Leaving'
  <2>1. saver[s] # "idle" \/ consumer \notin {"pendDone", "gone"}
    BY DEF Saver, Saving, BeginSaving, PendSaving, CloseDump, OpenDump, ClearDump,
           PostSaving, StartResult
  <2>2. QED
    BY <1>1, <2>1 DEF Leaving
<1>5. QED
  BY <1>2, <1>3, <1>4

LEMMA ThreadStep ==
  ASSUME ThreadInv, [Next]_vars
  PROVE  ThreadInv'
<1>1. CASE Task
  BY <1>1, TaskTypes, TaskThreads DEF ThreadInv
<1>2. CASE Consumer
  BY <1>2, ConsumerTypes, ConsumerThreads DEF ThreadInv
<1>3. CASE \E s \in Savers : Saver(s)
  BY <1>3, SaverTypes, SaverThreads DEF ThreadInv
<1>4. CASE UNCHANGED vars
  BY <1>4
     DEF ThreadInv, vars, mboxes, semas, dump, taskVars, stream, userVars, TypeOK,
         DumpSemTaken, TaskInDump, UserInDump, InDump, LockSemTaken, Leaving, RvMeans,
         OwnBuffers, TaskOwns, UserOwns
<1>5. QED
  BY <1>1, <1>2, <1>3, <1>4 DEF Next, Released

(* Every variable keeps its type, however the threads interleave: the       *)
(* semaphores stay binary, and what is queued is a buffer or the mark.      *)
THEOREM ThreadsKeepTypes == Spec => []ThreadInv
<1>1. Init => ThreadInv
  BY ThreadInit
<1>2. ThreadInv /\ [Next]_vars => ThreadInv'
  BY ThreadStep
<1>3. QED
  BY <1>1, <1>2, PTL DEF Spec

(* The receiver is freed only after the task's last access to it, and while *)
(* no other thread is inside one of its functions.                          *)
THEOREM FreedAfterLastUse == Spec => []FreedLast
<1>1. ThreadInv => FreedLast
  BY DEF ThreadInv, Leaving, FreedLast
<1>2. QED
  BY <1>1, ThreadsKeepTypes, PTL

-------------------------------------------------------------------------------
(* What dumpSem protects.                                                   *)

(* Between fclose and the next assignment to dumpFile no dump file is open; *)
(* otherwise dumpFile is the one that is.                                   *)
Replacing == \E s \in Savers : saver[s] \in {"open", "clear"}

SavedFile ==
  /\ openFiles = IF Replacing THEN {} ELSE {dumpFile} \ {NULL}
  /\ task = "dumpWrite" => dumpFile # NULL

SocketOpen ==
  ~useSlDemux /\ task # "initSocket" /\ consumer # "reinit" => source = "open"

DumpInv == ThreadInv /\ SavedFile /\ SocketOpen

LEMMA TaskKeepsDump ==
  ASSUME DumpInv, Task
  PROVE  SavedFile' /\ SocketOpen'
<1> USE DEF mboxes, semas, dump, stream, userVars, TaskGoto
<1>1. UNCHANGED <<useSlDemux, dumpFile, openFiles, saver, consumer>>
  BY DEF Task, InitSocket, TestDone, TryEmpty, PendLock, SetBusy, WaitEmpty, PendEmpty,
         PendDump, DemuxLoop, DemuxEnd, ReadPacket, ReadTimeout, ReadFails, ReadEof,
         DumpTest, DumpWrite, Parse, PostDump, HandOver, GiveBack, Deliver, Announce,
         PostDone
<1>2. task' = "dumpWrite" => dumpFile # NULL
  BY DEF Task, InitSocket, TestDone, TryEmpty, PendLock, SetBusy, WaitEmpty, PendEmpty,
         PendDump, DemuxLoop, DemuxEnd, ReadPacket, ReadTimeout, ReadFails, ReadEof,
         DumpTest, DumpWrite, Parse, PostDump, HandOver, GiveBack, Deliver, Announce,
         PostDone
<1>3. SavedFile'
  BY <1>1, <1>2 DEF DumpInv, SavedFile, Replacing
<1>4. ~useSlDemux => source' = "open" \/ (task # "initSocket" /\ UNCHANGED source)
  BY DEF Task, InitSocket, TestDone, TryEmpty, PendLock, SetBusy, WaitEmpty, PendEmpty,
         PendDump, DemuxLoop, DemuxEnd, ReadPacket, ReadTimeout, ReadFails, ReadEof,
         DumpTest, DumpWrite, Parse, PostDump, HandOver, GiveBack, Deliver, Announce,
         PostDone
<1>5. SocketOpen'
  BY <1>1, <1>4 DEF DumpInv, SocketOpen
<1>6. QED
  BY <1>3, <1>5

LEMMA ConsumerKeepsDump ==
  ASSUME DumpInv, Consumer
  PROVE  SavedFile' /\ SocketOpen'
<1> USE DEF mboxes, semas, dump, stream, taskVars, taskSide, UserGoto
<1>1. UNCHANGED <<useSlDemux, dumpFile, openFiles, saver, task>>
  BY DEF Consumer, InCall, PendFull, FullTimeout, CopyOut, PostEmpty, ReadStatus,
         PendReinit, Disconnect, Reinit, PendDone, BeginDemuxNextFrame, PendStatus,
         BeginReinit, BeginDestroy
<1>2. SavedFile'
  BY <1>1 DEF DumpInv, SavedFile, Replacing
<1>3. ~useSlDemux => \/ source' = "open"
                     \/ consumer' = "reinit"
                     \/ consumer # "reinit" /\ UNCHANGED source
  BY DEF Consumer, InCall, PendFull, FullTimeout, CopyOut, PostEmpty, ReadStatus,
         PendReinit, Disconnect, Reinit, PendDone, BeginDemuxNextFrame, PendStatus,
         BeginReinit, BeginDestroy
<1>4. SocketOpen'
  BY <1>1, <1>3 DEF DumpInv, SocketOpen
<1>5. QED
  BY <1>2, <1>4

LEMMA SaverKeepsDump ==
  ASSUME DumpInv, NEW s \in Savers, Saver(s)
  PROVE  SavedFile' /\ SocketOpen'
<1> USE DEF DumpInv, mboxes, semas, dump, stream, taskVars, taskSide, userVars, SaverGoto
<1>1. UNCHANGED <<useSlDemux, task, consumer, source>>
  BY DEF Saver, Saving, BeginSaving, PendSaving, CloseDump, OpenDump, ClearDump,
         PostSaving, StartResult
<1>2. /\ saver \in [Savers -> {"idle", "pendStart", "closeOld", "open", "pendStop",
                             "closeFile", "clear", "postStart", "postStop", "result"}]
      /\ dumpFile \in Files \cup {NULL} /\ NULL \notin Files
  BY UdpAssumption DEF ThreadInv, TypeOK, UdpAssumption
<1>3. InDump(s) => task # "dumpWrite" /\ \A t \in Savers \ {s} : ~InDump(t)
  BY DEF ThreadInv, DumpSemTaken, TaskInDump
<1>4. CASE BeginSaving(s) \/ PendSaving(s) \/ PostSaving(s) \/ StartResult(s)
  <2>1. (Replacing' <=> Replacing) /\ UNCHANGED <<dumpFile, openFiles>>
    BY <1>2, <1>4 DEF BeginSaving, PendSaving, PostSaving, StartResult, Replacing
  <2>2. QED
    BY <1>1, <2>1 DEF SavedFile, SocketOpen
<1>5. CASE CloseDump(s)
  <2>1. ~Replacing /\ Replacing'
    BY <1>2, <1>3, <1>5 DEF CloseDump, InDump, Replacing
  <2>2. QED
    BY <1>1, <1>3, <1>5, <2>1 DEF CloseDump, InDump, SavedFile, SocketOpen
<1>6. CASE OpenDump(s) \/ ClearDump(s)
  <2>1. Replacing /\ ~Replacing'
    BY <1>2, <1>3, <1>6 DEF OpenDump, ClearDump, InDump, Replacing
  <2>2. openFiles' = {dumpFile'} \ {NULL}
    BY <1>2, <1>6, <2>1 DEF OpenDump, ClearDump, SavedFile
  <2>3. QED
    BY <1>1, <1>3, <1>6, <2>1, <2>2 DEF OpenDump, ClearDump, InDump, SavedFile, SocketOpen
<1>7. QED
  BY <1>4, <1>5, <1>6 DEF Saver, Saving

(* The task never writes to a dump file that was closed, never receives     *)
(* from a socket that is being replaced, and no dump file is left open      *)
(* behind the pointer.                                                      *)
THEOREM DumpIsProtected == Spec => []DumpSemProtects
<1>1. Init => DumpInv
  <2>1. Init => SavedFile /\ SocketOpen
    BY DEF Init, SavedFile, SocketOpen, Replacing
  <2>2. QED
    BY <2>1, ThreadInit DEF DumpInv
<1>2. DumpInv /\ [Next]_vars => DumpInv'
  <2>1. SUFFICES ASSUME DumpInv, [Next]_vars
                 PROVE  SavedFile' /\ SocketOpen'
    BY ThreadStep DEF DumpInv
  <2>2. CASE UNCHANGED vars
    BY <2>1, <2>2 DEF DumpInv, vars, dump, taskVars, stream, userVars, SavedFile,
                      Replacing, SocketOpen
  <2>3. QED
    BY <2>1, <2>2, TaskKeepsDump, ConsumerKeepsDump, SaverKeepsDump DEF Next, Released
<1>3. DumpInv => DumpSemProtects
  <2>1. TaskInDump /\ DumpInv => ~Replacing /\ consumer # "reinit"
    BY DEF DumpInv, ThreadInv, DumpSemTaken, UserInDump, InDump, Replacing
  <2>2. QED
    BY <2>1 DEF DumpInv, SavedFile, SocketOpen, TaskInDump, DumpSemProtects
<1>4. QED
  BY <1>1, <1>2, <1>3, PTL DEF Spec

-------------------------------------------------------------------------------
(* The frame pool.                                                          *)

(* The mark is posted once, as the task's last act.                         *)
NullIsLast ==
  \A i \in DOMAIN fullMbx :
    fullMbx[i] = NULL => /\ i = Len(fullMbx) /\ rv = "TERMINATE"
                         /\ task \in {"postDone", "gone"}

Apart ==
  /\ NoRepeats(emptyMbx) /\ NoRepeats(fullMbx)
  /\ \A b \in Buffers : ~(Queued(emptyMbx, b) /\ Queued(fullMbx, b))
  /\ TaskOwns => ~Queued(emptyMbx, frame) /\ ~Queued(fullMbx, frame)
  /\ UserOwns => ~Queued(emptyMbx, popped) /\ ~Queued(fullMbx, popped)
  /\ TaskOwns /\ UserOwns => frame # popped

(* A buffer is accounted for also where the task looks for one and finds    *)
(* none, although done may be set by then: that is what busy reports.       *)
Accounted(b) ==
  \/ Queued(emptyMbx, b) \/ Queued(fullMbx, b)
  \/ (TaskOwns /\ b = frame) \/ (UserOwns /\ b = popped)

Conserved ==
  ~useSlDemux /\ (~done \/ task \in {"tryEmpty", "pendLock", "setBusy"}) =>
    \A b \in Buffers : Accounted(b)

PoolInv == ThreadInv /\ NullIsLast /\ Apart /\ Conserved

LEMMA PoolInit ==
  ASSUME Init
  PROVE  NullIsLast /\ Apart /\ Conserved
<1>1. Len(fullMbx) = 0 /\ DOMAIN fullMbx = {} /\ ~TaskOwns /\ ~UserOwns
  BY DEF Init, TaskOwns, UserOwns
<1>2. NoRepeats(emptyMbx) /\ DOMAIN emptyMbx = 1 .. QSIZE
  BY DEF Init, BufferOrders, NoRepeats
<1>3. \A b \in Buffers : Queued(emptyMbx, b)
  <2>1. Cardinality(1 .. QSIZE) = Cardinality(Buffers) /\ IsFiniteSet(1 .. QSIZE)
    BY FS_CardinalityType, FS_Interval, UdpAssumption DEF QSIZE, UdpAssumption
  <2>2. emptyMbx \in Injection(1 .. QSIZE, Buffers)
    BY <1>2 DEF Init, BufferOrders, Injection, IsInjective
  <2>3. emptyMbx \in Surjection(1 .. QSIZE, Buffers)
    BY <2>1, <2>2, FS_Injection, UdpAssumption DEF UdpAssumption
  <2>4. QED
    BY <1>2, <2>3 DEF Surjection, Queued
<1>4. QED
  BY <1>1, <1>2, <1>3 DEF NullIsLast, Apart, Conserved, Accounted, Queued, NoRepeats

(* Wherever the task neither takes nor passes on a buffer it keeps its own. *)
LEMMA TaskKeepsBuffer ==
  ASSUME PoolInv, Task, UNCHANGED <<mboxes, frame>>, task # "giveBack"
  PROVE  /\ TaskOwns' => TaskOwns
         /\ ~done' \/ task' \in {"tryEmpty", "pendLock", "setBusy"} =>
              /\ ~useSlDemux => (TaskOwns' <=> TaskOwns)
              /\ ~done \/ task \in {"tryEmpty", "pendLock", "setBusy"}
<1> USE DEF PoolInv, ThreadInv, RvMeans, TaskOwns, TaskGoto, mboxes
<1>1. CASE InitSocket \/ TestDone \/ PendLock \/ SetBusy \/ WaitEmpty \/ PendDump
  BY <1>1 DEF InitSocket, TestDone, PendLock, SetBusy, WaitEmpty, PendDump
<1>2. CASE TryEmpty
  <2>1. emptyMbx # << >> => Len(Tail(emptyMbx)) # Len(emptyMbx)
    BY QueueWithoutHead DEF TypeOK
  <2>2. QED
    BY <1>2, <2>1 DEF TryEmpty
<1>3. CASE PendEmpty
  <2>1. emptyMbx # << >> => Len(Tail(emptyMbx)) # Len(emptyMbx)
    BY QueueWithoutHead DEF TypeOK
  <2>2. QED
    BY <1>3, <2>1 DEF PendEmpty
<1>4. CASE DemuxLoop \/ DemuxEnd \/ ReadPacket \/ ReadTimeout \/ ReadFails \/ ReadEof
  BY <1>4 DEF DemuxLoop, DemuxEnd, ReadPacket, ReadTimeout, ReadFails, ReadEof
<1>5. CASE DumpTest \/ DumpWrite \/ Parse \/ PostDump
  BY <1>5 DEF DumpTest, DumpWrite, Parse, PostDump
<1>6. CASE HandOver
  BY <1>6 DEF HandOver, TypeOK
<1>7. CASE GiveBack \/ Deliver
  <2>1. task = "deliver" => Len(Append(fullMbx, frame)) # Len(fullMbx)
    BY AppendedQueue DEF TypeOK
  <2>2. QED
    BY <1>7, <2>1 DEF GiveBack, Deliver
<1>8. CASE Announce \/ PostDone
  BY <1>8 DEF Announce, PostDone
<1>9. QED
  BY <1>1, <1>2, <1>3, <1>4, <1>5, <1>6, <1>7, <1>8 DEF Task

LEMMA TaskKeepsPool ==
  ASSUME PoolInv, Task
  PROVE  NullIsLast' /\ Apart' /\ Conserved'
<1> USE DEF PoolInv, mboxes, TaskGoto
<1>1. UNCHANGED <<useSlDemux, consumer, popped>> /\ (UserOwns' <=> UserOwns) /\ (done => done')
  BY DEF Task, InitSocket, TestDone, TryEmpty, PendLock, SetBusy, WaitEmpty, PendEmpty,
         PendDump, DemuxLoop, DemuxEnd, ReadPacket, ReadTimeout, ReadFails, ReadEof,
         DumpTest, DumpWrite, Parse, PostDump, HandOver, GiveBack, Deliver, Announce,
         PostDone, userVars, UserOwns
<1>2. TypeOK /\ TypeOK' /\ NULL \notin Buffers /\ RvMeans /\ OwnBuffers
  BY TaskTypes, UdpAssumption DEF ThreadInv, UdpAssumption
<1>3. CASE UNCHANGED <<mboxes, frame>> /\ task # "giveBack"
  <2>1. NullIsLast'
    <3>1. rv = "TERMINATE" /\ task \in {"postDone", "gone"} =>
            rv' = "TERMINATE" /\ task' \in {"postDone", "gone"}
      BY DEF Task, InitSocket, TestDone, TryEmpty, PendLock, SetBusy, WaitEmpty,
             PendEmpty, PendDump, DemuxLoop, DemuxEnd, ReadPacket, ReadTimeout,
             ReadFails, ReadEof, DumpTest, DumpWrite, Parse, PostDump, HandOver,
             GiveBack, Deliver, Announce, PostDone
    <3>2. QED
      BY <1>3, <3>1 DEF NullIsLast
  <2>2. Apart'
    BY <1>1, <1>3, TaskKeepsBuffer DEF Apart, Queued, NoRepeats
  <2>3. Conserved'
    BY <1>1, <1>3, TaskKeepsBuffer DEF Conserved, Accounted, Queued
  <2>4. QED
    BY <2>1, <2>2, <2>3
<1>4. CASE /\ emptyMbx # << >> /\ frame' = Head(emptyMbx) /\ emptyMbx' = Tail(emptyMbx)
           /\ (TryEmpty \/ PendEmpty)
  <2>1. /\ \A b : Queued(emptyMbx, b) <=> Queued(emptyMbx', b) \/ b = frame'
        /\ NoRepeats(emptyMbx) => NoRepeats(emptyMbx') /\ ~Queued(emptyMbx', frame')
    BY <1>2, <1>4, QueueWithoutHead DEF TypeOK
  <2>2. /\ UNCHANGED <<fullMbx, done, rv>> /\ task' = "pendDump"
        /\ frame' \in Buffers /\ task \in {"tryEmpty", "pendEmpty"}
    BY <1>2, <1>4, QueueWithoutHead DEF TryEmpty, PendEmpty, TypeOK
  <2>3. ~TaskOwns /\ (~done => TaskOwns')
    BY <1>2, <2>2 DEF TaskOwns, RvMeans
  <2>4. NullIsLast'
    BY <1>2, <2>2 DEF NullIsLast, TypeOK
  <2>5. Apart'
    BY <1>1, <2>1, <2>2 DEF Apart, OwnBuffers
  <2>6. Conserved'
    BY <1>1, <2>1, <2>2, <2>3 DEF Conserved, Accounted
  <2>7. QED
    BY <2>4, <2>5, <2>6
<1>5. CASE GiveBack
  <2>1. frame \in Buffers /\ TaskOwns /\ ~TaskOwns'
    BY <1>2, <1>5 DEF GiveBack, TaskOwns, OwnBuffers, RvMeans
  <2>2. /\ \A b : Queued(emptyMbx', b) <=> Queued(emptyMbx, b) \/ b = frame
        /\ NoRepeats(emptyMbx) /\ ~Queued(emptyMbx, frame) => NoRepeats(emptyMbx')
    <3>1. frame \in Buffers /\ emptyMbx \in Seq(Buffers) /\ emptyMbx' = Append(emptyMbx, frame)
      BY <1>2, <1>5, <2>1 DEF GiveBack, TypeOK
    <3>2. QED
      BY <3>1, AppendedQueue
  <2>3. UNCHANGED <<fullMbx, done, rv, frame>> /\ task = "giveBack" /\ task' = "top"
    BY <1>5 DEF GiveBack
  <2>4. NullIsLast'
    BY <2>3 DEF NullIsLast
  <2>5. Apart'
    BY <1>1, <2>1, <2>2, <2>3 DEF Apart
  <2>6. Conserved'
    BY <1>1, <2>1, <2>2, <2>3 DEF Conserved, Accounted
  <2>7. QED
    BY <2>4, <2>5, <2>6
<1>6. CASE Deliver
  <2>1. frame \in Buffers /\ TaskOwns /\ ~TaskOwns'
    BY <1>2, <1>6 DEF Deliver, TaskOwns, OwnBuffers, RvMeans
  <2>2. /\ \A b : Queued(fullMbx', b) <=> Queued(fullMbx, b) \/ b = frame
        /\ NoRepeats(fullMbx) /\ ~Queued(fullMbx, frame) => NoRepeats(fullMbx')
        /\ \A i \in DOMAIN fullMbx' : fullMbx'[i] = IF i = Len(fullMbx) + 1 THEN frame
                                                    ELSE fullMbx[i]
        /\ DOMAIN fullMbx' = DOMAIN fullMbx \cup {Len(fullMbx) + 1}
    <3>1. fullMbx \in Seq(Buffers \cup {NULL}) /\ frame \in Buffers \cup {NULL}
      BY <1>2, <2>1 DEF TypeOK
    <3>2. fullMbx' = Append(fullMbx, frame)
      BY <1>6 DEF Deliver
    <3>3. QED
      BY <3>1, <3>2, AppendedQueue
  <2>3. UNCHANGED <<emptyMbx, done, rv, frame>> /\ task = "deliver" /\ task' = "top"
    BY <1>6 DEF Deliver
  <2>4. NullIsLast'
    <3>1. \A i \in DOMAIN fullMbx : fullMbx[i] # NULL
      BY <2>3 DEF NullIsLast
    <3>2. \A i \in DOMAIN fullMbx' : fullMbx'[i] # NULL
      BY <1>2, <2>1, <2>2, <3>1
    <3>3. QED
      BY <3>2 DEF NullIsLast
  <2>5. Apart'
    BY <1>1, <2>1, <2>2, <2>3 DEF Apart
  <2>6. Conserved'
    BY <1>1, <2>1, <2>2, <2>3 DEF Conserved, Accounted
  <2>7. QED
    BY <2>4, <2>5, <2>6
<1>7. CASE Announce /\ rv = "TERMINATE"
  <2>1. NULL \in Buffers \cup {NULL}
    OBVIOUS
  <2>2. UNCHANGED <<emptyMbx, done, rv>> /\ task = "exit" /\ task' = "postDone"
    BY <1>7 DEF Announce
  <2>3. ~Queued(fullMbx, NULL) /\ ~TaskOwns' /\ done /\ useSlDemux
    BY <1>2, <1>7, <2>2 DEF Queued, NullIsLast, TaskOwns, RvMeans
  <2>4. /\ \A b : Queued(fullMbx', b) <=> Queued(fullMbx, b) \/ b = NULL
        /\ NoRepeats(fullMbx')
        /\ \A i \in DOMAIN fullMbx' : fullMbx'[i] = IF i = Len(fullMbx) + 1 THEN NULL
                                                    ELSE fullMbx[i]
        /\ DOMAIN fullMbx' = DOMAIN fullMbx \cup {Len(fullMbx) + 1}
        /\ Len(fullMbx') = Len(fullMbx) + 1
    <3>1. fullMbx \in Seq(Buffers \cup {NULL}) /\ NoRepeats(fullMbx)
      BY <1>2 DEF TypeOK, Apart
    <3>2. fullMbx' = Append(fullMbx, NULL)
      BY <1>7 DEF Announce
    <3>3. QED
      BY <2>1, <2>3, <3>1, <3>2, AppendedQueue
  <2>5. NullIsLast'
    <3>1. \A i \in DOMAIN fullMbx' : fullMbx'[i] = NULL => i = Len(fullMbx')
      BY <2>3, <2>4 DEF Queued
    <3>2. rv' = "TERMINATE" /\ task' \in {"postDone", "gone"}
      BY <1>7, <2>2
    <3>3. QED
      BY <3>1, <3>2 DEF NullIsLast
  <2>6. Apart'
    BY <1>1, <1>2, <2>2, <2>3, <2>4 DEF Apart, OwnBuffers
  <2>7. Conserved'
    BY <1>1, <2>2, <2>3 DEF Conserved
  <2>8. QED
    BY <2>5, <2>6, <2>7
<1>8. \/ UNCHANGED <<mboxes, frame>> /\ task # "giveBack"
      \/ /\ emptyMbx # << >> /\ frame' = Head(emptyMbx) /\ emptyMbx' = Tail(emptyMbx)
         /\ (TryEmpty \/ PendEmpty)
      \/ GiveBack \/ Deliver \/ (Announce /\ rv = "TERMINATE")
  BY DEF Task, InitSocket, TestDone, TryEmpty, PendLock, SetBusy, WaitEmpty, PendEmpty,
         PendDump, DemuxLoop, DemuxEnd, ReadPacket, ReadTimeout, ReadFails, ReadEof,
         DumpTest, DumpWrite, Parse, PostDump, HandOver, Announce, PostDone
<1>9. QED
  BY <1>3, <1>4, <1>5, <1>6, <1>7, <1>8

LEMMA ConsumerKeepsPool ==
  ASSUME PoolInv, Consumer
  PROVE  NullIsLast' /\ Apart' /\ Conserved'
<1> USE DEF PoolInv, mboxes, taskSide, taskVars, UserGoto
<1>1. UNCHANGED <<useSlDemux, task, frame, rv>> /\ (done => done')
  BY DEF Consumer, InCall, PendFull, FullTimeout, CopyOut, PostEmpty, ReadStatus,
         PendReinit, Disconnect, Reinit, PendDone, BeginDemuxNextFrame, PendStatus,
         BeginReinit, BeginDestroy
<1>2. TypeOK /\ NULL \notin Buffers /\ RvMeans /\ OwnBuffers
  BY UdpAssumption DEF ThreadInv, UdpAssumption
<1>3. (TaskOwns' => TaskOwns) /\ (~done' => (TaskOwns' <=> TaskOwns))
  BY <1>1 DEF TaskOwns
<1>4. CASE UNCHANGED <<mboxes, popped>> /\ (UserOwns' <=> UserOwns)
  <2>1. task \in {"tryEmpty", "pendLock", "setBusy"} /\ ~useSlDemux =>
          (TaskOwns' <=> TaskOwns)
    BY <1>1, <1>2 DEF TaskOwns
  <2>2. NullIsLast' /\ Apart'
    BY <1>1, <1>3, <1>4 DEF NullIsLast, Apart, NoRepeats, Queued
  <2>3. Conserved'
    BY <1>1, <1>3, <1>4, <2>1 DEF Conserved, Accounted, Queued
  <2>4. QED
    BY <2>2, <2>3
<1>5. CASE PendFull
  <2>1. /\ \A b : Queued(fullMbx, b) <=> Queued(fullMbx', b) \/ b = popped'
        /\ NoRepeats(fullMbx) => NoRepeats(fullMbx') /\ ~Queued(fullMbx', popped')
        /\ popped' \in Buffers \cup {NULL}
        /\ Len(fullMbx') = Len(fullMbx) - 1 /\ Len(fullMbx) \in Nat
        /\ \A i \in DOMAIN fullMbx' : i + 1 \in DOMAIN fullMbx
                                     /\ fullMbx'[i] = fullMbx[i + 1]
    BY <1>2, <1>5, QueueWithoutHead DEF PendFull, TypeOK
  <2>2. /\ UNCHANGED <<emptyMbx, done>> /\ ~UserOwns
        /\ (UserOwns' <=> popped' # NULL)
    BY <1>5 DEF PendFull, UserOwns
  <2>3. (TaskOwns' <=> TaskOwns)
    BY <1>1, <2>2 DEF TaskOwns
  <2>4. NullIsLast'
    <3>1. ASSUME NEW i \in DOMAIN fullMbx', fullMbx'[i] = NULL
          PROVE  i + 1 = Len(fullMbx) /\ rv = "TERMINATE" /\ task \in {"postDone", "gone"}
      BY <2>1, <3>1 DEF NullIsLast
    <3>2. DOMAIN fullMbx' \subseteq Nat
      BY <1>5, <1>2, QueueWithoutHead, LenProperties DEF PendFull, TypeOK
    <3>3. QED
      BY <1>1, <2>1, <3>1, <3>2 DEF NullIsLast
  <2>5. Apart'
    BY <1>1, <1>2, <2>1, <2>2, <2>3 DEF Apart, OwnBuffers
  <2>6. Conserved'
    BY <1>1, <1>2, <2>1, <2>2, <2>3 DEF Conserved, Accounted
  <2>7. QED
    BY <2>4, <2>5, <2>6
<1>6. CASE PostEmpty
  <2>1. popped \in Buffers /\ UserOwns /\ ~UserOwns'
    BY <1>2, <1>6 DEF PostEmpty, UserOwns, OwnBuffers
  <2>2. /\ \A b : Queued(emptyMbx', b) <=> Queued(emptyMbx, b) \/ b = popped
        /\ NoRepeats(emptyMbx) /\ ~Queued(emptyMbx, popped) => NoRepeats(emptyMbx')
    BY <1>2, <1>6, <2>1, AppendedQueue DEF PostEmpty, TypeOK
  <2>3. UNCHANGED <<fullMbx, done>>
    BY <1>6 DEF PostEmpty
  <2>4. (TaskOwns' <=> TaskOwns)
    BY <1>1, <2>3 DEF TaskOwns
  <2>5. NullIsLast'
    BY <1>1, <2>3 DEF NullIsLast
  <2>6. Apart'
    BY <1>1, <2>1, <2>2, <2>3, <2>4 DEF Apart
  <2>7. Conserved'
    BY <1>1, <2>1, <2>2, <2>3, <2>4 DEF Conserved, Accounted
  <2>8. QED
    BY <2>5, <2>6, <2>7
<1>7. \/ UNCHANGED <<mboxes, popped>> /\ (UserOwns' <=> UserOwns)
      \/ PendFull \/ PostEmpty
  BY DEF Consumer, InCall, FullTimeout, CopyOut, ReadStatus, PendReinit, Disconnect,
         Reinit, PendDone, BeginDemuxNextFrame, PendStatus, BeginReinit, BeginDestroy,
         UserOwns
<1>8. QED
  BY <1>4, <1>5, <1>6, <1>7

LEMMA PoolStep ==
  ASSUME PoolInv, [Next]_vars
  PROVE  PoolInv'
<1>1. ThreadInv'
  BY ThreadStep DEF PoolInv
<1>2. CASE Task
  BY <1>1, <1>2, TaskKeepsPool DEF PoolInv
<1>3. CASE Consumer
  BY <1>1, <1>3, ConsumerKeepsPool DEF PoolInv
<1>4. CASE (\E s \in Savers : Saver(s)) \/ UNCHANGED vars
  <2>1. UNCHANGED <<mboxes, done, useSlDemux, task, frame, rv, consumer, popped>>
    BY <1>4 DEF Saver, Saving, BeginSaving, PendSaving, CloseDump, OpenDump, ClearDump,
                PostSaving, StartResult, vars, taskSide, taskVars, userVars
  <2>2. (TaskOwns' <=> TaskOwns) /\ (UserOwns' <=> UserOwns)
    BY <2>1 DEF TaskOwns, UserOwns
  <2>3. NullIsLast' /\ Apart' /\ Conserved'
    BY <2>1, <2>2
       DEF PoolInv, NullIsLast, Apart, Conserved, Accounted, Queued, NoRepeats, mboxes
  <2>4. QED
    BY <1>1, <2>3 DEF PoolInv
<1>5. QED
  BY <1>2, <1>3, <1>4 DEF Next, Released

LEMMA PoolInvariant == Spec => []PoolInv
<1>1. Init => PoolInv
  BY ThreadInit, PoolInit DEF PoolInv
<1>2. PoolInv /\ [Next]_vars => PoolInv'
  BY PoolStep
<1>3. QED
  BY <1>1, <1>2, PTL DEF Spec

(* A buffer is never in two places, and while the receiver reads from a     *)
(* socket and nobody asked it to stop none is lost: the pool never shrinks. *)
THEOREM PoolIsKept == Spec => []PoolOK
<1>1. PoolInv => PoolOK
  <2> SUFFICES ASSUME PoolInv PROVE PoolOK
    OBVIOUS
  <2>1. TypeOK /\ Apart /\ OwnBuffers /\ RvMeans /\ Conserved /\ NULL \notin Buffers
    BY UdpAssumption DEF PoolInv, ThreadInv, UdpAssumption
  <2>2. /\ \A b : b \in Held(emptyMbx) <=> Queued(emptyMbx, b) /\ b # NULL
        /\ \A b : b \in Held(fullMbx) <=> Queued(fullMbx, b) /\ b # NULL
    BY DEF Held, Queued
  <2>3. Held(emptyMbx) \subseteq Buffers /\ Held(fullMbx) \subseteq Buffers
    <3>1. /\ \A i \in DOMAIN emptyMbx : emptyMbx[i] \in Buffers
          /\ \A i \in DOMAIN fullMbx : fullMbx[i] \in Buffers \cup {NULL}
      BY <2>1, ElementOfSeq, LenProperties DEF TypeOK
    <3>2. QED
      BY <3>1 DEF Held
  <2>4. /\ \A b \in TaskHolds : b = frame /\ TaskOwns
        /\ TaskOwns /\ ~done => frame \in TaskHolds
        /\ \A b \in UserHolds : b = popped /\ UserOwns
        /\ UserOwns => popped \in UserHolds
    BY <2>1 DEF TaskHolds, TaskOwns, UserHolds, UserOwns, RvMeans
  <2>5. OneOwner
    BY <2>1, <2>2, <2>3, <2>4 DEF OneOwner, Apart
  <2>6. NoBufferLost
    BY <2>1, <2>2, <2>3, <2>4 DEF NoBufferLost, Conserved, Accounted, OwnBuffers
  <2>7. QED
    BY <2>1, <2>5, <2>6 DEF PoolOK
<1>2. QED
  BY <1>1, PoolInvariant, PTL

(* No post to a mailbox ever waits, so that the task always gets to post    *)
(* doneSem, which SLADestroyUDPReceive waits for without a time limit.      *)
THEOREM PostsHaveRoom == Spec => []PostsNeverBlock
<1>1. PoolInv => PostsNeverBlock
  <2> SUFFICES ASSUME PoolInv PROVE PostsNeverBlock
    OBVIOUS
  <2>1. TypeOK /\ Apart /\ OwnBuffers /\ NullIsLast
    BY DEF PoolInv, ThreadInv
  <2>2. task = "giveBack" => HasRoom(emptyMbx)
    BY <2>1, RoomForTheMissing DEF TypeOK, Apart, OwnBuffers, TaskOwns
  <2>3. consumer = "postEmpty" => HasRoom(emptyMbx)
    BY <2>1, RoomForTheMissing DEF TypeOK, Apart, OwnBuffers, UserOwns
  <2>4. ASSUME task = "deliver" \/ (task = "exit" /\ rv = "TERMINATE")
        PROVE  HasRoom(fullMbx)
    <3>1. TaskOwns
      BY <2>4 DEF TaskOwns
    <3>2. \A i \in DOMAIN fullMbx : fullMbx[i] # NULL
      BY <2>1, <2>4 DEF NullIsLast
    <3>3. fullMbx \in Seq(Buffers)
      <4>1. \A i \in 1 .. Len(fullMbx) : fullMbx[i] \in Buffers \cup {NULL}
        BY <2>1, ElementOfSeq DEF TypeOK
      <4>2. /\ Len(fullMbx) \in Nat /\ DOMAIN fullMbx = 1 .. Len(fullMbx)
            /\ fullMbx \in [1 .. Len(fullMbx) -> Buffers \cup {NULL}]
        BY <2>1, LenProperties DEF TypeOK
      <4>3. fullMbx \in [1 .. Len(fullMbx) -> Buffers]
        BY <3>2, <4>1, <4>2
      <4>4. QED
        BY <4>2, <4>3
    <3>4. QED
      BY <2>1, <3>1, <3>3, RoomForTheMissing DEF Apart, OwnBuffers
  <2>5. QED
    BY <2>2, <2>3, <2>4 DEF PostsNeverBlock
<1>2. QED
  BY <1>1, PoolInvariant, PTL

(* Receiving from a socket, the task sets busy only when frames wait for    *)
(* the consumer or are being copied by it.                                  *)
THEOREM BusyIsHonest == Spec => BusyMeansBackedUp
<1>1. ASSUME PoolInv, [Next]_vars, task = "tryEmpty", task' = "pendLock", ~useSlDemux
      PROVE  fullMbx # << >> \/ UserHolds # {}
  <2>1. emptyMbx = << >>
    <3>1. ~(Consumer \/ (\E s \in Savers : Saver(s)) \/ UNCHANGED vars)
      BY <1>1 DEF Consumer, InCall, PendFull, FullTimeout, CopyOut, PostEmpty,
                  ReadStatus, PendReinit, Disconnect, Reinit, PendDone,
                  BeginDemuxNextFrame, PendStatus, BeginReinit, BeginDestroy, Saver,
                  Saving, BeginSaving, PendSaving, CloseDump, OpenDump, ClearDump,
                  PostSaving, StartResult, taskSide, taskVars, vars
    <3>2. Task
      BY <1>1, <3>1 DEF Next, Released
    <3>3. QED
      BY <1>1, <3>2
         DEF Task, InitSocket, TestDone, TryEmpty, PendLock, SetBusy, WaitEmpty,
             PendEmpty, PendDump, DemuxLoop, DemuxEnd, ReadPacket, ReadTimeout,
             ReadFails, ReadEof, DumpTest, DumpWrite, Parse, PostDump, HandOver,
             GiveBack, Deliver, Announce, PostDone, TaskGoto
  <2>2. PICK b \in Buffers : TRUE
    BY UdpAssumption DEF UdpAssumption
  <2>3. ~Queued(emptyMbx, b) /\ ~TaskOwns /\ Accounted(b)
    BY <1>1, <2>1 DEF Queued, TaskOwns, PoolInv, ThreadInv, RvMeans, Conserved
  <2>4. QED
    BY <2>3 DEF Accounted, Queued, UserOwns, UserHolds
<1>2. PoolInv /\ [Next]_vars =>
        [task = "tryEmpty" /\ task' = "pendLock" /\ ~useSlDemux =>
           fullMbx # << >> \/ UserHolds # {}]_vars
  BY <1>1
<1>3. QED
  BY <1>2, PoolInvariant, PTL DEF Spec, BusyMeansBackedUp

-------------------------------------------------------------------------------
(* Which frame is where.  Frames are numbered as they are demultiplexed;    *)
(* nFrames is the last, delivered the last that was copied out.             *)

(* The frames up to Base have left fullMbx.                                 *)
Base == delivered + (IF consumer = "copyOut" THEN 1 ELSE 0)

(* The task has demultiplexed a frame that fullMbx does not have yet.       *)
Completed == haveFrame /\ task \in {"demux", "demuxEnd", "postDump", "hand", "deliver"}

(* done is only looked at between calls: a round that has come this far     *)
(* goes on as if it were not set.                                           *)
Committed == task \in {"read", "dump", "dumpWrite", "parse", "deliver", "giveBack"}

Queue ==
  /\ consumer = "copyOut" => content[popped] = delivered + 1
  /\ \A i \in DOMAIN fullMbx : fullMbx[i] # NULL => content[fullMbx[i]] = Base + i

Flags ==
  /\ task \in {"read", "dump", "dumpWrite", "parse"} => ~haveFrame
  /\ task = "demuxEnd" /\ ~done => haveFrame
  /\ task \in {"postDump", "hand"} /\ rv = "SUCCESS" => haveFrame
  /\ task \in {"postDump", "hand"} /\ rv \notin {"SUCCESS", "ERROR"} => ~haveFrame
  /\ task = "deliver" => haveFrame

Tally ==
  /\ Completed /\ TaskOwns => content[frame] = nFrames
  /\ ~done \/ Committed => nFrames = Base + Len(fullMbx) + (IF Completed THEN 1 ELSE 0)
  /\ rv = "TERMINATE" =>
       nFrames = Base + (IF Queued(fullMbx, NULL) THEN Len(fullMbx) - 1 ELSE Len(fullMbx))
  /\ consumer = "eof" => /\ rv = "TERMINATE" /\ task \in {"postDone", "gone"}
                         /\ fullMbx = << >>

CountInv == PoolInv /\ Queue /\ Flags /\ Tally

LEMMA TaskKeepsFlags ==
  ASSUME CountInv, Task
  PROVE  Flags'
<1> USE DEF CountInv, Flags, TaskGoto
<1>1. CASE \/ InitSocket \/ TestDone \/ TryEmpty \/ PendLock \/ SetBusy
           \/ WaitEmpty \/ PendEmpty \/ PendDump
  BY <1>1 DEF InitSocket, TestDone, TryEmpty, PendLock, SetBusy, WaitEmpty, PendEmpty,
              PendDump
<1>2. CASE DemuxLoop \/ DemuxEnd
  BY <1>2 DEF DemuxLoop, DemuxEnd
<1>3. CASE ReadPacket \/ ReadTimeout \/ ReadFails \/ ReadEof
  BY <1>3 DEF ReadPacket, ReadTimeout, ReadFails, ReadEof
<1>4. CASE DumpTest \/ DumpWrite \/ Parse \/ PostDump
  BY <1>4 DEF DumpTest, DumpWrite, Parse, PostDump
<1>5. CASE HandOver
  BY <1>5 DEF HandOver
<1>6. CASE GiveBack \/ Deliver \/ Announce \/ PostDone
  BY <1>6 DEF GiveBack, Deliver, Announce, PostDone
<1>7. QED
  BY <1>1, <1>2, <1>3, <1>4, <1>5, <1>6 DEF Task

(* A step of the task that moves no frame.                                  *)
LEMMA TaskMovesNoFrame ==
  ASSUME CountInv, Task, UNCHANGED <<fullMbx, content, nFrames>>, task # "deliver"
  PROVE  /\ Completed' /\ TaskOwns' => Completed /\ TaskOwns /\ UNCHANGED frame
         /\ ~done' \/ Committed' => (~done \/ Committed) /\ (Completed' <=> Completed)
         /\ rv' = "TERMINATE" /\ rv # "TERMINATE" => Committed /\ ~Completed
         /\ rv = "TERMINATE" /\ task \in {"postDone", "gone"} =>
              rv' = "TERMINATE" /\ task' \in {"postDone", "gone"}
<1> USE DEF CountInv, PoolInv, ThreadInv, Flags, RvMeans, Completed, Committed, TaskOwns,
            TaskGoto
<1>1. CASE \/ InitSocket \/ TestDone \/ TryEmpty \/ PendLock \/ SetBusy
           \/ WaitEmpty \/ PendEmpty \/ PendDump
  BY <1>1 DEF InitSocket, TestDone, TryEmpty, PendLock, SetBusy, WaitEmpty, PendEmpty,
              PendDump
<1>2. CASE DemuxLoop \/ DemuxEnd
  BY <1>2 DEF DemuxLoop, DemuxEnd, TypeOK
<1>3. CASE ReadPacket \/ ReadTimeout \/ ReadFails \/ ReadEof
  BY <1>3 DEF ReadPacket, ReadTimeout, ReadFails, ReadEof
<1>4. CASE DumpTest \/ DumpWrite \/ PostDump
  BY <1>4 DEF DumpTest, DumpWrite, PostDump
<1>5. CASE Parse
  <2>1. nFrames + 1 # nFrames
    BY UdpAssumption DEF TypeOK, UdpAssumption
  <2>2. QED
    BY <1>5, <2>1 DEF Parse
<1>6. CASE HandOver
  BY <1>6 DEF HandOver, TypeOK
<1>7. CASE GiveBack \/ Deliver
  BY <1>7 DEF GiveBack, Deliver
<1>8. CASE Announce \/ PostDone
  BY <1>8 DEF Announce, PostDone
<1>9. QED
  BY <1>1, <1>2, <1>3, <1>4, <1>5, <1>6, <1>7, <1>8 DEF Task

LEMMA TaskKeepsCount ==
  ASSUME CountInv, Task
  PROVE  Queue' /\ Tally'
<1> USE DEF CountInv, TaskGoto
<1>1. UNCHANGED <<consumer, popped, delivered>> /\ Base' = Base
  BY DEF Task, InitSocket, TestDone, TryEmpty, PendLock, SetBusy, WaitEmpty, PendEmpty,
         PendDump, DemuxLoop, DemuxEnd, ReadPacket, ReadTimeout, ReadFails, ReadEof,
         DumpTest, DumpWrite, Parse, PostDump, HandOver, GiveBack, Deliver, Announce,
         PostDone, userVars, Base
<1>2. /\ TypeOK /\ RvMeans /\ OwnBuffers /\ Apart /\ NullIsLast
      /\ NULL \notin Buffers /\ Base \in Nat /\ nFrames \in Nat /\ Len(fullMbx) \in Nat
  BY UdpAssumption, LenProperties DEF PoolInv, ThreadInv, TypeOK, UdpAssumption, Base
<1>3. CASE UNCHANGED <<fullMbx, content, nFrames>> /\ task # "deliver"
  <2>1. Queue'
    BY <1>1, <1>3 DEF Queue
  <2>2. (Completed /\ TaskOwns => content[frame] = nFrames)'
    BY <1>3, TaskMovesNoFrame DEF Tally
  <2>3. (~done \/ Committed => nFrames = Base + Len(fullMbx) + (IF Completed THEN 1 ELSE 0))'
    BY <1>1, <1>3, TaskMovesNoFrame DEF Tally
  <2>4. (rv = "TERMINATE" =>
          nFrames = Base + (IF Queued(fullMbx, NULL) THEN Len(fullMbx) - 1
                            ELSE Len(fullMbx)))'
    <3>1. CASE rv = "TERMINATE"
      BY <1>1, <1>3, <3>1 DEF Tally, Queued
    <3>2. CASE rv # "TERMINATE" /\ rv' = "TERMINATE"
      <4>1. nFrames = Base + Len(fullMbx)
        BY <1>2, <1>3, <3>2, TaskMovesNoFrame DEF Tally
      <4>2. ~Queued(fullMbx, NULL)
        BY <1>2, <3>2 DEF Queued, NullIsLast
      <4>3. QED
        BY <1>1, <1>3, <4>1, <4>2 DEF Queued
    <3>3. QED
      BY <3>1, <3>2
  <2>5. (consumer = "eof" => /\ rv = "TERMINATE" /\ task \in {"postDone", "gone"}
                             /\ fullMbx = << >>)'
    BY <1>1, <1>3, TaskMovesNoFrame DEF Tally
  <2>6. QED
    BY <2>1, <2>2, <2>3, <2>4, <2>5 DEF Tally
<1>4. CASE Parse /\ haveFrame'
  <2>1. TaskOwns /\ Committed /\ ~Completed /\ task = "parse" /\ frame \in Buffers
    BY <1>2, <1>4 DEF Parse, TaskOwns, Committed, Completed, OwnBuffers
  <2>2. /\ nFrames' = nFrames + 1 /\ content' = [content EXCEPT ![frame] = nFrames + 1]
        /\ UNCHANGED <<fullMbx, frame, rv, done>> /\ task' = "demux"
    BY <1>4, <2>1 DEF Parse, Flags, mboxes
  <2>3. Queue'
    <3>1. consumer = "copyOut" => popped \in Buffers /\ popped # frame
      BY <1>2, <2>1 DEF OwnBuffers, UserOwns, Apart
    <3>2. \A i \in DOMAIN fullMbx : fullMbx[i] # NULL =>
            fullMbx[i] \in Buffers /\ fullMbx[i] # frame
      BY <1>2, <2>1, ElementOfSeq, LenProperties DEF TypeOK, Apart, Queued
    <3>3. \A b \in Buffers : b # frame => content'[b] = content[b]
      BY <1>2, <2>2 DEF TypeOK
    <3>4. QED
      BY <1>1, <2>2, <3>1, <3>2, <3>3 DEF Queue
  <2>4. Completed' /\ ~Committed'
    BY <1>4, <2>2 DEF Completed, Committed
  <2>5. nFrames = Base + Len(fullMbx)
    BY <1>2, <2>1 DEF Tally
  <2>6. rv # "TERMINATE" /\ consumer # "eof"
    BY <1>2, <2>1 DEF RvMeans, Tally
  <2>7. content'[frame'] = nFrames'
    BY <1>2, <2>1, <2>2 DEF TypeOK
  <2>8. QED
    BY <1>1, <1>2, <2>2, <2>3, <2>4, <2>5, <2>6, <2>7 DEF Tally
<1>5. CASE Deliver
  <2>1. /\ frame \in Buffers /\ TaskOwns /\ Committed /\ Completed
        /\ rv # "TERMINATE" /\ consumer # "eof"
    BY <1>2, <1>5
       DEF Deliver, TaskOwns, Committed, Completed, Flags, OwnBuffers, RvMeans, Tally
  <2>2. /\ fullMbx' = Append(fullMbx, frame) /\ task' = "top"
        /\ UNCHANGED <<content, nFrames, rv, done>>
    BY <1>5 DEF Deliver, stream
  <2>3. /\ \A i \in DOMAIN fullMbx' : fullMbx'[i] = IF i = Len(fullMbx) + 1 THEN frame
                                                    ELSE fullMbx[i]
        /\ DOMAIN fullMbx' = DOMAIN fullMbx \cup {Len(fullMbx) + 1}
        /\ Len(fullMbx') = Len(fullMbx) + 1
    <3>1. fullMbx \in Seq(Buffers \cup {NULL}) /\ frame \in Buffers \cup {NULL}
      BY <1>2, <2>1 DEF TypeOK
    <3>2. QED
      BY <2>2, <3>1, AppendedQueue
  <2>4. content[frame] = nFrames /\ nFrames = Base + Len(fullMbx) + 1
    BY <2>1 DEF Tally
  <2>5. Queue'
    BY <1>1, <1>2, <2>2, <2>3, <2>4 DEF Queue
  <2>6. ~Completed' /\ ~Committed'
    BY <2>2 DEF Completed, Committed
  <2>7. QED
    BY <1>1, <1>2, <2>1, <2>2, <2>3, <2>4, <2>5, <2>6 DEF Tally
<1>6. CASE Announce /\ rv = "TERMINATE"
  <2>1. /\ fullMbx' = Append(fullMbx, NULL) /\ task' = "postDone" /\ task = "exit"
        /\ UNCHANGED <<content, nFrames, rv, done>>
    BY <1>6 DEF Announce, stream
  <2>2. ~Queued(fullMbx, NULL) /\ done /\ consumer # "eof"
    BY <1>2, <1>6, <2>1 DEF Queued, NullIsLast, RvMeans, Tally
  <2>3. /\ \A b : Queued(fullMbx', b) <=> Queued(fullMbx, b) \/ b = NULL
        /\ \A i \in DOMAIN fullMbx' : fullMbx'[i] = IF i = Len(fullMbx) + 1 THEN NULL
                                                    ELSE fullMbx[i]
        /\ DOMAIN fullMbx' = DOMAIN fullMbx \cup {Len(fullMbx) + 1}
        /\ Len(fullMbx') = Len(fullMbx) + 1
    <3>1. fullMbx \in Seq(Buffers \cup {NULL}) /\ NULL \in Buffers \cup {NULL}
      BY <1>2 DEF TypeOK
    <3>2. QED
      BY <2>1, <3>1, AppendedQueue
  <2>4. Queue'
    BY <1>1, <1>2, <2>1, <2>3 DEF Queue
  <2>5. ~Completed' /\ ~Committed'
    BY <2>1 DEF Completed, Committed
  <2>6. QED
    BY <1>1, <1>2, <1>6, <2>1, <2>2, <2>3, <2>4, <2>5 DEF Tally
<1>7. \/ UNCHANGED <<fullMbx, content, nFrames>> /\ task # "deliver"
      \/ (Parse /\ haveFrame') \/ Deliver \/ (Announce /\ rv = "TERMINATE")
  BY DEF Task, InitSocket, TestDone, TryEmpty, PendLock, SetBusy, WaitEmpty, PendEmpty,
         PendDump, DemuxLoop, DemuxEnd, ReadPacket, ReadTimeout, ReadFails, ReadEof,
         DumpTest, DumpWrite, Parse, PostDump, HandOver, GiveBack, Announce, PostDone,
         mboxes, stream
<1>8. QED
  BY <1>3, <1>4, <1>5, <1>6, <1>7

LEMMA ConsumerKeepsCount ==
  ASSUME CountInv, Consumer
  PROVE  Queue' /\ Flags' /\ Tally'
<1> USE DEF CountInv, UserGoto
<1>1. UNCHANGED <<task, frame, rv, haveFrame, content, nFrames>> /\ (done => done')
  BY DEF Consumer, InCall, PendFull, FullTimeout, CopyOut, PostEmpty, ReadStatus,
         PendReinit, Disconnect, Reinit, PendDone, BeginDemuxNextFrame, PendStatus,
         BeginReinit, BeginDestroy, taskSide, taskVars, stream
<1>2. /\ TypeOK /\ RvMeans /\ OwnBuffers /\ Apart /\ NullIsLast /\ NULL \notin Buffers
      /\ delivered \in Nat /\ nFrames \in Nat /\ Len(fullMbx) \in Nat
  BY UdpAssumption, LenProperties DEF PoolInv, ThreadInv, TypeOK, UdpAssumption
<1>3. Flags' /\ (Completed' <=> Completed) /\ (Committed' <=> Committed)
      /\ (TaskOwns' => TaskOwns)
  BY <1>1 DEF Flags, Completed, Committed, TaskOwns
<1>4. CASE /\ UNCHANGED <<fullMbx, delivered>>
           /\ consumer # "copyOut" /\ consumer' \notin {"copyOut", "eof"}
  <2>1. Base' = Base
    BY <1>4 DEF Base
  <2>2. Queue'
    BY <1>1, <1>4, <2>1 DEF Queue
  <2>3. Tally'
    BY <1>1, <1>3, <1>4, <2>1 DEF Tally, Queued
  <2>4. QED
    BY <1>3, <2>2, <2>3
<1>5. CASE CopyOut
  <2>1. /\ UNCHANGED <<fullMbx, popped, done>> /\ delivered' = delivered + 1
        /\ consumer = "copyOut" /\ consumer' = "postEmpty"
    BY <1>5 DEF CopyOut, Queue, mboxes
  <2>2. Base' = Base
    BY <1>2, <2>1 DEF Base
  <2>3. Queue'
    BY <1>1, <2>1, <2>2 DEF Queue
  <2>4. Tally'
    BY <1>1, <1>3, <2>1, <2>2 DEF Tally, Queued
  <2>5. QED
    BY <1>3, <2>3, <2>4
<1>6. CASE PendFull
  <2>1. /\ \A b : Queued(fullMbx, b) <=> Queued(fullMbx', b) \/ b = popped'
        /\ ~Queued(fullMbx', popped')
        /\ popped' \in Buffers \cup {NULL} /\ popped' = fullMbx[1] /\ 1 \in DOMAIN fullMbx
        /\ Len(fullMbx') = Len(fullMbx) - 1
        /\ \A i \in DOMAIN fullMbx' : i + 1 \in DOMAIN fullMbx
                                     /\ fullMbx'[i] = fullMbx[i + 1]
    BY <1>2, <1>6, QueueWithoutHead DEF PendFull, TypeOK, Apart
  <2>2. UNCHANGED <<delivered, done>> /\ consumer = "pendFull" /\ Base = delivered
    BY <1>2, <1>6 DEF PendFull, Base
  <2>3. fullMbx' \in Seq(Buffers \cup {NULL}) /\ DOMAIN fullMbx' \subseteq Nat
    BY <1>2, <1>6, QueueWithoutHead, LenProperties DEF PendFull, TypeOK
  <2>4. CASE popped' = NULL
    <3>1. consumer' = "eof"
      BY <1>6, <2>4 DEF PendFull
    <3>2. Len(fullMbx) = 1 /\ rv = "TERMINATE" /\ task \in {"postDone", "gone"}
      BY <1>2, <2>1, <2>4 DEF NullIsLast
    <3>3. fullMbx' = << >>
      BY <2>1, <2>3, <3>2, EmptySeq
    <3>4. Base' = Base /\ Queued(fullMbx, NULL) /\ done
      BY <1>2, <2>1, <2>2, <2>4, <3>1, <3>2 DEF Base, RvMeans
    <3>5. Queue'
      BY <3>1, <3>3 DEF Queue
    <3>6. ~Committed' /\ ~Completed' /\ ~Queued(fullMbx', NULL) /\ Len(fullMbx') = 0
      BY <1>1, <2>1, <2>4, <3>2 DEF Committed, Completed
    <3>7. nFrames = Base /\ rv' = "TERMINATE" /\ task' \in {"postDone", "gone"} /\ done'
      BY <1>1, <1>2, <2>2, <3>2, <3>4 DEF Tally
    <3>8. Tally'
      BY <1>1, <1>2, <2>2, <3>3, <3>4, <3>6, <3>7 DEF Tally
    <3>9. QED
      BY <1>3, <3>5, <3>8
  <2>5. CASE popped' # NULL
    <3>1. consumer' = "copyOut"
      BY <1>6, <2>5 DEF PendFull
    <3>2. Base' = Base + 1 /\ content[popped'] = delivered + 1
      BY <1>2, <2>1, <2>2, <2>5, <3>1 DEF Base, Queue
    <3>3. \A i \in DOMAIN fullMbx' :
            fullMbx'[i] # NULL => content[fullMbx'[i]] = Base + (i + 1)
      BY <2>1 DEF Queue
    <3>4. Queue'
      BY <1>1, <1>2, <2>2, <2>3, <3>2, <3>3 DEF Queue
    <3>5. Queued(fullMbx', NULL) <=> Queued(fullMbx, NULL)
      BY <2>1, <2>5
    <3>6. Tally'
      <4>1. (Completed /\ TaskOwns => content[frame] = nFrames)'
        BY <1>1, <1>3 DEF Tally
      <4>2. Base' \in Nat /\ Base' = Base + 1 /\ Len(fullMbx') = Len(fullMbx) - 1
        BY <1>2, <2>1, <2>2, <3>2
      <4>3. (~done \/ Committed =>
               nFrames = Base + Len(fullMbx) + (IF Completed THEN 1 ELSE 0))'
        <5>1. ~done' \/ Committed' =>
                nFrames = Base + Len(fullMbx) + (IF Completed THEN 1 ELSE 0)
          BY <1>3, <2>2 DEF Tally
        <5>2. Base + Len(fullMbx) = Base' + Len(fullMbx')
          BY <1>2, <2>2, <4>2
        <5>3. QED
          BY <1>1, <1>3, <5>1, <5>2
      <4>4. (rv = "TERMINATE" =>
               nFrames = Base + (IF Queued(fullMbx, NULL) THEN Len(fullMbx) - 1
                                 ELSE Len(fullMbx)))'
        <5>1. rv = "TERMINATE" =>
                nFrames = Base + (IF Queued(fullMbx', NULL) THEN Len(fullMbx) - 1
                                  ELSE Len(fullMbx))
          BY <3>5 DEF Tally
        <5>2. /\ Base + Len(fullMbx) = Base' + Len(fullMbx')
              /\ Base + (Len(fullMbx) - 1) = Base' + (Len(fullMbx') - 1)
          BY <1>2, <2>2, <4>2
        <5>3. QED
          BY <1>1, <5>1, <5>2
      <4>5. QED
        BY <3>1, <4>1, <4>3, <4>4 DEF Tally
    <3>7. QED
      BY <1>3, <3>4, <3>6
  <2>6. QED
    BY <2>4, <2>5
<1>7. \/ /\ UNCHANGED <<fullMbx, delivered>>
         /\ consumer # "copyOut" /\ consumer' \notin {"copyOut", "eof"}
      \/ CopyOut \/ PendFull
  BY DEF Consumer, InCall, FullTimeout, PostEmpty, ReadStatus, PendReinit, Disconnect,
         Reinit, PendDone, BeginDemuxNextFrame, PendStatus, BeginReinit, BeginDestroy,
         mboxes
<1>8. QED
  BY <1>4, <1>5, <1>6, <1>7

LEMMA CountStep ==
  ASSUME CountInv, [Next]_vars
  PROVE  CountInv'
<1>1. PoolInv'
  BY PoolStep DEF CountInv
<1>2. CASE Task
  BY <1>1, <1>2, TaskKeepsCount, TaskKeepsFlags DEF CountInv
<1>3. CASE Consumer
  BY <1>1, <1>3, ConsumerKeepsCount DEF CountInv
<1>4. CASE (\E s \in Savers : Saver(s)) \/ UNCHANGED vars
  <2>1. UNCHANGED <<fullMbx, done, task, frame, rv, haveFrame, content, nFrames, consumer,
                    popped, delivered>>
    BY <1>4 DEF Saver, Saving, BeginSaving, PendSaving, CloseDump, OpenDump, ClearDump,
                PostSaving, StartResult, vars, taskSide, taskVars, stream, userVars,
                mboxes
  <2>2. Queue' /\ Flags'
    BY <2>1 DEF CountInv, Queue, Flags, Base
  <2>3. Tally'
    BY <2>1 DEF CountInv, Tally, Base, Completed, Committed, TaskOwns, Queued
  <2>4. QED
    BY <1>1, <2>2, <2>3 DEF CountInv
<1>5. QED
  BY <1>2, <1>3, <1>4 DEF Next, Released

LEMMA CountInvariant == Spec => []CountInv
<1>1. Init => CountInv
  <2> SUFFICES ASSUME Init PROVE CountInv
    OBVIOUS
  <2>1. Queue /\ Flags
    BY DEF Init, Queue, Flags
  <2>2. Tally
    BY DEF Init, Tally, Base, Completed, Committed, TaskOwns
  <2>3. QED
    BY <2>1, <2>2, ThreadInit, PoolInit DEF CountInv, PoolInv
<1>2. CountInv /\ [Next]_vars => CountInv'
  BY CountStep
<1>3. QED
  BY <1>1, <1>2, PTL DEF Spec

(* The end of the file is reported after every frame of the file.           *)
THEOREM EofComesLast == Spec => []EofAfterEverything
<1>1. CountInv => EofAfterEverything
  <2> SUFFICES ASSUME CountInv, consumer = "eof"
               PROVE  fullMbx = << >> /\ delivered = nFrames
    BY DEF EofAfterEverything
  <2>1. fullMbx = << >> /\ rv = "TERMINATE" /\ Base = delivered /\ delivered \in Nat
    BY UdpAssumption
       DEF CountInv, Tally, Base, PoolInv, ThreadInv, TypeOK, UdpAssumption
  <2>2. ~Queued(fullMbx, NULL) /\ Len(fullMbx) = 0
    BY <2>1 DEF Queued
  <2>3. QED
    BY <2>1, <2>2 DEF CountInv, Tally
<1>2. QED
  BY <1>1, CountInvariant, PTL

(* The consumer gets the frames in the order they were demultiplexed, every *)
(* one of them, once, and with nothing written over it since.               *)
THEOREM FramesArriveInOrder == Spec => InOrderNoLoss
<1>1. ASSUME CountInv, [Next]_vars, delivered' # delivered
      PROVE  delivered' = delivered + 1
  <2>1. CASE CopyOut
    BY <1>1, <2>1 DEF CopyOut, UserGoto, CountInv, Queue
  <2>2. Task => UNCHANGED delivered
    BY DEF Task, InitSocket, TestDone, TryEmpty, PendLock, SetBusy, WaitEmpty,
           PendEmpty, PendDump, DemuxLoop, DemuxEnd, ReadPacket, ReadTimeout, ReadFails,
           ReadEof, DumpTest, DumpWrite, Parse, PostDump, HandOver, GiveBack, Deliver,
           Announce, PostDone, userVars
  <2>3. Consumer => CopyOut \/ UNCHANGED delivered
    BY DEF Consumer, InCall, PendFull, FullTimeout, PostEmpty, ReadStatus, PendReinit,
           Disconnect, Reinit, PendDone, BeginDemuxNextFrame, PendStatus, BeginReinit,
           BeginDestroy
  <2>4. (\E s \in Savers : Saver(s)) \/ UNCHANGED vars => UNCHANGED delivered
    BY DEF Saver, Saving, BeginSaving, PendSaving, CloseDump, OpenDump, ClearDump,
           PostSaving, StartResult, vars, userVars
  <2>5. QED
    BY <1>1, <2>1, <2>2, <2>3, <2>4 DEF Next, Released
<1>2. CountInv /\ [Next]_vars => [delivered' # delivered => delivered' = delivered + 1]_vars
  BY <1>1
<1>3. QED
  BY <1>2, CountInvariant, PTL DEF Spec, InOrderNoLoss

===============================================================================
