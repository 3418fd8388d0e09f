# A TLA+ model of the SightLine DirectShow filter

The repository holds a DirectShow source filter (`src/SLA3000`) on top of a
decoder of live video (`src/SLADecode`): a thread receives transport stream or
RTP packets, or reads them from a file, and builds compressed frames; a second
thread feeds them to ffmpeg and hands the images to the application; a third
keeps an RTSP session alive.  They talk through mailboxes and semaphores built
on Win32 (`src/SLAHalpc.cpp`).  Metadata (KLV) is decoded on the way, commands
go to the board as packets of their own protocol (FIP), and the filter's
streams run on the threads and allocators of the DirectShow base classes.  This
directory models all of that, checks it with TLC, and proves with TLAPS what
TLC can only sample: the mailbox, the receiver and both demultiplexers, the
decode task, the RTSP client, the streams of the filter, the metadata and the
packets of the protocol keep their invariants for any number of threads,
buffers, packets, faults and calls.

There are no tests and no documentation in the repository; where this project
speaks of what the code promises, it quotes a comment.

## Inventory

| component | state | operations | what makes it hard |
|---|---|---|---|
| mailbox, `SLAHalpc.cpp` 377-503 | ring of `nMax` slots, counters, two semaphores, a critical section | `SLAMbxCreate`, `Pend`, `Post`, `Count` | permits, slots and the critical section are taken and released one by one by several threads |
| UDP receiver, `SLAUDPReceive.cpp` | `QSIZE` frame buffers, `emptyMbx`, `fullMbx`, `doneSem`, `lockSem`, `dumpSem`, `done`, `busy`, the dump file, the input | its task; `SLAInit-`, `SLAReinit-`, `SLADestroyUDPReceive`, `SLADemuxNextFrame`, `SLAUDPStatus`, `SLAStart-`, `SLAStopSavingUDP` | buffers travel between threads; `done` is read without a lock; the input, the dump file and the end of a file change under way |
| TS demultiplexer, same file 300-1091 | a `PESStruct` per stream: counter, length, flags, buffer | `demuxTSPacket`, `setFrame`, tables | packets lost, repeated, swapped; ends of frames that show in three ways |
| RTP demultiplexer, same file 1472-1642 | `prevseq`, `failed`, `dataLen`, the frame under construction | `demuxRTPMJpeg`, `demuxRTPH264` | the frame is built in place, in a buffer that a timeout replaces |
| decode task, `SLADecodeFFMpeg.cpp` | a state machine, `hmbx`, four semaphores, `frame`, `nLoop` | the `TASK_` functions; `Initialize`, `Seek`, `Get`, `Release`, `StartSaving`, `StopSaving`, `Cleanup` | commands arrive in every state; every way the task ends must release whoever waits |
| facade, `SLADecode.cpp` | `haveKLV`, `klvCount`, `yuvIm`, `frameCount` | `Create`, `SetAddress`, `Destroy`, three callbacks | callbacks of images, metadata and statistics share the state; `SetAddress` resets it from another thread |
| KLV decoder, `SLAKlvDecode.cpp`, `SLAKlv.h` | `klv`, `klvRecent` | `ReadKlvFrame`, `ReadKlvElements`, `ReadElement`, `SLCopyChangedKLV` | a packet is read element by element and may be given up in the middle; an unknown value is a value of its type |
| RTSP client, `SLARtspClient.cpp` | socket, last command, session, keep-alive thread, two semaphores | `SLARtspOpenURL`, the requests, `stopStreaming`, the keep-alive loop | two threads read one socket; a session times out; the client is deleted after a bounded wait |
| FIP packets, `slfip.cpp` | none | the packers, `SlFipSetLen`, `SlFipGetPktLen`, the unpackers | every packer states its length by hand |
| FIP readers, `common/simpleslfipport.cpp`, `common/simpleSerialPort.cpp` | the bytes kept between two calls; ReadFIP's buffer | `SLParsePackets`, `WriteFIP`, `ReadFIP` | incomplete, damaged and embedded packets in a byte stream; timeouts |
| filter, `SLA3000`, on `baseclasses` (`source.cpp`, `amfilter.cpp`, `wxutil.cpp`) | the filter's state, a worker for each stream, its request, the allocator | `Stop`, `Pause`, `Run`; the worker's commands; `GetBuffer`, `ReleaseBuffer`, `Commit`, `Decommit` | a worker waits for a sample without limit while it is told to stop; decommits pend; an activation fails half way |
| sockets, serial port set-up, threads, images | wrappers | | their outcomes are choices in the modules that use them |
| the rest of `baseclasses`, ffmpeg | vendored | | |

How they interact: the filter creates the facade, the facade the decode task,
the decode task the receiver (directly or through the RTSP client).  Frames go
up through `fullMbx`, empty buffers down through `emptyMbx`; commands go down
through `hmbx`; images go up through a callback or through `Get`.  Shutting
down goes down through `done` flags and up through `doneSem` and `taskDoneSem`.
The graph manager calls the filter; the filter starts and stops the decoder and
its own workers, whose samples come back from the renderer at any time.

What can go wrong, at which line, and which property looks at it, is the list
`hazards` of `PROJECT.json`.

## Modules

| module | models | instance |
|---|---|---|
| `BoundedChannel` | what the header promises of a mailbox: a FIFO of bounded length | |
| `Mailbox` | the mailbox as it is coded; implements `BoundedChannel` | `MCMailbox` |
| `MailboxProofs` | proofs about `Mailbox`, and that it implements `BoundedChannel` | |
| `UdpReceiver` | the receiver, its consumer, the threads that save | `MCUdpReceiver` |
| `UdpReceiverProofs` | proofs about `UdpReceiver` | |
| `TsDemux` | reassembly of one elementary stream | `MCTsDemux` |
| `TsDemuxProofs` | proofs about `TsDemux` | |
| `RtpFrames` | frames from JPEG and H264 RTP packets | `MCRtpFrames` |
| `RtpFramesProofs` | proofs about `RtpFrames` | |
| `DecodeTask` | ffmpegTask and the application's calls | `MCDecodeTask` |
| `DecodeTaskProofs` | proofs about `DecodeTask` | |
| `KlvElements` | the KLV decoder, key by key | (in `DecodeFacade`) |
| `DecodeFacade` | what the application sees: images, metadata, changes of address | `MCDecodeFacade` |
| `RtspClient` | the RTSP session and its keep-alive thread | `MCRtspClient` |
| `RtspProofs` | proofs about `RtspClient` | |
| `FipPackets` | every packer of `slfip.cpp`: type, declared length, bytes written | (in `FipLink`) |
| `FipLink` | packets on a serial line and the two readers | `MCFipLink` |
| `FormatProofs` | proofs about `FipPackets`, `FipLink` and `DecodeFacade` with `KlvElements` | |
| `StreamPin` | the filter's state changes, its streams and their samples | `MCStreamPin` |
| `StreamPinProofs` | proofs about `StreamPin` | |

Definitions have the names of the code where TLA+ allows it.  A definition
commented "Mutant" is a plausible slip in the definition after it; no
specification uses it, it serves to show that a property can fail.

**Mailbox.**  A thread's call is a sequence of steps (`pc`): wait for a permit,
enter the critical section, claim a slot (`iNextPut++ % nMax`), copy, leave,
release a permit to the other side.  A wait can time out only when there is no
permit.  The refinement maps the ring to a sequence: the messages between the
two counters, less the claims whose copy is still to come.

**UdpReceiver.**  `task` is the program counter of `udpReceiveTask`, with a
step for each access to shared state; `consumer` that of ffmpegTask in its
calls, `saver[s]` that of an application thread in Start- or StopSaving.
Mailboxes are sequences (this is what `Mailbox` justifies).  A buffer's content
is the number of the frame in it.  What a packet holds is a choice: how much of
it a call of the demultiplexer consumes and whether a frame results.
`useSlDemux` chooses between a socket and a file.  The task waits for an empty
buffer 100 ms at a time (`PendEmpty`), looking at `done` before each wait
(`WaitEmpty`).  A thread that saves reads the result it returns from `dumpFile`
after it has posted `dumpSem` (`StartResult`).

**TsDemux.**  A sender sends frames of up to `MaxLen` packets; the network
loses bursts, repeats and swaps packets.  `pes` is the `PESStruct`.  The
counter is compared as in the code, so that a packet that does not follow on
leaves `CC` as it was.  `missedPacket` counts in the code and is 0 or 1 here:
it is only compared with 0.  `id` and `wanted` in `pes` are no state of the
program; they say what the buffer should hold.

**RtpFrames.**  The same network; packets go directly into the buffer the task
holds, which a pause of 100 ms replaces (`Stall`).  The code's `failed` counts
and is a flag here.  A JPEG piece that reaches the end of the buffer
(`maxBufferLen`) is left out and counts as a failure.  Packets that the
demultiplexer does not take (another payload type, an unknown type of NALU, a
header bit that must be 0) may come between frames and, with H264, instead of a
packet of a frame (`SendRejectable`); their sequence number counts
(`DemuxRejected`).

**DecodeTask.**  `task` says where ffmpegTask is in a round of its loop,
`ffState` is its state machine, and each `TASK_` function is an action whose
outcome is chosen among the states it can return.  `app` is the application's
thread.  Commands are posted with `SEM_FOREVER`: `PostCommand` waits for room.

**KlvElements and DecodeFacade.**  A packet is a sequence of elements, each a
tag and its bytes; `Takes` has the lengths each field accepts, `Value` what it
stores.  A series of more targets than fit is refused, but only after those that
fit are stored (`Refused`).  `KlvElements` is the decoder alone; `DecodeFacade` runs it in the
decode task, with the callbacks of `SLADecode` as actions (a callback runs in
the task, so that it is one step except for what `SetAddress` writes meanwhile:
`SetAddress` writes its variables one by one).  `latest` and `recent` are no
state of the program: they are what the accepted packets said, computed from
the whole packet by an independent reading (`Said`), to compare `klv` and
`klvRecent` with.

**RtspClient.**  `main` is the decode task in `SLARtspOpenURL` and
`stopStreaming`, `thread` the keep-alive loop, both with a step for each send,
recv, wait and post.  The server is external: it answers in order, within
`MaxDelay` seconds, well or with an error, or closes.  Time passes only when
neither thread can go on.  `recv` takes everything that has arrived, as the
code's does.

**FipPackets and FipLink.**  A packer is a row: the length it passes to
`SlFipSetLen` and the sum of the widths of what it then writes.  `FipLink`
packs rows into bytes, with the checksum of the code (the table is recomputed
and compared with entries of `crc8Table`), damages or loses a byte on a line,
and reads them back with either reader.  Fields may hold bytes that look like a
header, or like a whole packet.  `dropped` is no state of the program: it
names the packets with bytes in a call of `SLParsePackets` that had fewer than
four to look at, which are forgotten.

**StreamPin.**  `control` is the thread of the graph manager in `Stop`,
`Pause` or `Run`, pin after pin; `worker[p]` the thread of stream p in
`ThreadProc`, `DoBufferProcessingLoop` and the allocator.  A section under the
allocator's lock is one action; `GetBuffer`'s test and its wait are two, and so
are a sample's release and its way back to the list.  The renderer keeps any
sample for as long as it likes.  `CSLA3000Source::Run` and `Stop`
(`FSLA-3000.cpp` 214-234) first call the decoder (StartSaving and SetAddress;
StopSaving), outside the filter's lock and while the workers run on, and then
the base class (`Base`).  A call of the decoder may take any time and may never
return (`DecoderReturns`): it waits for room in `hmbx` (`DecodeTask`) and for
`dumpSem` (`UdpReceiver`) without limit.

## Runs

| run | question | bounds |
|---|---|---|
| `MCMailbox` | Do permits, slots and the count stay consistent, and is it a FIFO channel? | 3 threads (each free to post and pend), 2 slots, 5 posts: the ring wraps twice and both semaphores run out |
| `MCUdpReceiver` | One owner for each buffer, none lost, posts never wait, frames once and in order, end of file last, dump file and socket under `dumpSem`, freed last | socket and file, 3 buffers, 2 savers, 2 dump files, packets of 2 pieces, 4 frames: one frame more than there are buffers, so that every buffer is reused |
| `MCUdpReceiver_live` | Do destruction, saving and the wait for the end of a file come to an end? | socket and file, 2 buffers, 1 saver, 1 frame, no symmetry |
| `MCTsDemux` | Is what is handed on intact and in order, and does the stream recover? | video and metadata, frames of 1 to 3 packets against a buffer of 2, counter of 4 values, 4 frames (the last of one packet), 3 faults (a burst is one packet): 1,260,000 states |
| `MCRtpFrames` | The same for RTP | JPEG frames of 1 to 3 packets and H264 frames of 1 and 2 against buffers that hold 2, 2 buffers, sequence numbers of 4 values, 3 frames, 3 faults (a burst is one packet, a packet that is not taken counts) and any number of pauses: 4,070,000 states |
| `MCDecodeTask` | Images stable while held, receiver alive while used and gone in the end, camera freed last, Get unlocked by an image; does Cleanup return while the mailbox has room? | network, MTS file and ffmpeg file, UDP and RTSP, with and without Release, a mailbox of 3 for 2 commands and Cleanup's, 2 loops: 657,000 states |
| `MCDecodeFacade` | Do `klv` and `klvRecent` hold what the good packets said, and are images reported alone again when metadata ends? | ten packets over six keys (an angle, a byte, a range, a classification, a number of targets, targets): good, wrong checksum, a wrong length before and after good elements, more targets than fit, key at offset 0, 5 or elsewhere; any number of images, packets, statistics and changes of address: 87,000 states |
| `MCRtspClient` | Does the client outlive its thread, does the session stay alive, do the calls return? | the code's 2, 5 and 60 s; timeouts of 30, 60 and 65 s; answers within 3 s, errors, a closed connection: 276,000 states |
| `MCFipLink` | Is only handled what was sent, once, in order when nothing happens on the line, and is what arrives whole handled? | every packer before a short packet, two and three of a few; strings of 0, 1, 65 and 123 bytes and 0 to 9 tracks (each side of 126 and 128 bytes); one byte of a short packet lost or turned into 0, 0x51, 0xAC or 0xFF; the three ways to read, `SLParsePackets` given 3, 6 or all bytes at a time: 413,000 states |
| `MCStreamPin` | No worker misses its sample or its stop, none fills a sample that is shown, replies belong to requests, state changes return as long as the decoder's calls do | two streams of one sample (what `DecideBufferSize` asks for), six calls, one failing activation: 122,000 states |
| `MCTsDemux_empty`, `MCDecodeTask_stuck` | fail: see below | a metadata stream without faults; a mailbox that is full |

Why the bounds are enough.  Continuity and sequence numbers are compared with
their predecessor only, so that a modulus larger than the longest fault behaves
as 16 or 2^16 do.  The longest fault is three: a swap, a burst and a swap hide
two packets more than the burst loses, so that three faults and bursts of one
are the smallest instance with a modulus of 4.  Faults as long as the modulus
are invisible to the code as well, and `MaxBurst` excludes them.  The proofs
have any modulus, any number of faults and frames of any length.  A frame is
owed when it fits and all of its packets and those just before it (one in RTP,
the counter's round less one in the transport stream) came undisturbed, and it
is looked at when the next one starts.  To see a transport stream recover takes
a fault in the first frame, a frame for the counter to come round, the owed
frame and the one after it, hence four frames, of which the last only has to
begin; RTP is in step one packet after the fault, and three do.
Both runs have frames larger than the buffer, which are not owed, before frames
that are.  The receiver treats buffers alike: three of them let one be with the
task, one with the consumer and one queued.  `frame` in DecodeTask is compared
with 0 and 1 only.
`MaxPosts`, `MaxFrames`, `MaxSent`, `MaxFaults`, `MaxUnits` bound what the
environment does, never what the code does.  The pins of StreamPin share
nothing but the order in which the filter visits them, for which two are enough;
with one sample every release matters, and the proofs cover more.  A FIP packet
has one header, one length and one checksum to be damaged, and a second packet
to be mistaken for it or to be lost behind it; a third shows that reading goes
on.  An RTSP session of 30 to 65 s covers timeouts below, at and above the
default.

Deadlock is checked except where the system may stop: in DecodeTask and
StreamPin the application and the graph manager may stop calling, in RtspClient
the session ends, in FipLink all has been sent, and in the failing runs the
code itself stops (see below).

Fairness.  The threads run: `WF` of the task, of the calls in progress.  A
thread waiting for `dumpSem` gets it if it is posted again and again (`SF`):
Win32 semaphores serve waiters in order, more or less, and the only other
waiters are one or two.  Nothing is assumed of the application, and of the
stream only where the property says so: `CallsComplete` assumes that the stream
completes a frame or pauses again and again, because the task holds `dumpSem`
while it collects a frame; `EofReported` assumes a consumer that keeps asking.
In StreamPin the graph manager's thread and the workers run (`WF`), and a
renderer that is not paused returns from Receive; it need never let go of a
sample it has kept, and nothing assumes that `GetBuffer` gets one.  Nothing is
assumed of the decoder either: `CallsReturn` speaks of behaviours in which a
call of the decoder that has begun returns (`DecoderAnswers`), since it need
not, and says so in its premise.  In RtspClient both threads are prompt (time waits for them), the server
answers within `MaxDelay` or is gone; `CallsReturn` excludes runs in which one
recv took both threads' responses, see below.  In DecodeFacade the decode task
runs; `ImagesResume` asks what happens when no metadata comes any more.
FipLink has no liveness: what it must find is stated of the states in which
everything sent has been read.

## What fails

* `MCTsDemux_empty`: "Encoder may sometimes emit an empty frame, swallow those
  here by skipping setFrame below" (`SLAUDPReceive.cpp` 1078).  `haveFrame`
  stays set, and the start of the next frame (1009-1015) hands the empty frame
  on, with length 0.  (Video is not concerned: `DeliveredIsIntact`.)
* `MCDecodeTask_stuck`: "Wait for signal that readFramesTask has exited"
  (`SLADecodeFFMpeg.cpp` 1398).  Once the task has left its loop, because `done`
  is set or at the end of a file, nobody reads `hmbx`; with the mailbox full the
  post before that line (1396) waits for ever.

Other places where the code and a comment part ways, met while modelling; the
modules follow the code, and the properties say where they stop:

* "Grab UDP packets and demux them until a frame has been decoded"
  (`SLAUDPReceive.cpp` 1662): a pause of 100 ms within an RTP frame returns the
  buffer (1787-1788), and the rest of the frame goes into another buffer and
  leaves unmarked; `IntactUnlessSplit` is about frames kept in one buffer.
* A failing read from a file loses its buffer (1786-1791), after which `busy`
  is set with nothing backed up (`SLAUDPReceive.h` 67): `PoolOK` (in its
  `NoBufferLost`) and `BusyMeansBackedUp` speak of sockets.
* `prevseq` is a `u16` that starts as 0 and is compared with -1 (1613): the
  first RTP frame is marked failed, or not, by chance; the frame in which the
  receiver joins is exempt from `IntactUnlessSplit`.
* A JPEG frame larger than the buffer is marked failed (1493-1500), however
  well it came: `CalmFramesArrive` speaks of frames that fit.  H264 is appended
  without such a test (1568).
* `SLAStartSavingUDP` reads `dumpFile` for its result after it has posted
  `dumpSem` (251), so that it may report the file of another call, or none:
  `DumpSemProtects` speaks of the files written and closed.
* `demuxRTPH264` does not look at `failed` (1531-1587): `IntactUnlessSplit`
  speaks of JPEG, `CalmFramesArrive` of both.
* After a change of address to an RTSP address the receiver is never destroyed
  (`SLADecodeFFMpeg.cpp` 1104-1123, 1224-1236): `ReceiverGone` exempts a UDP
  stream that was re-targeted so.
* A blank frame is counted before the first image, which then does not post
  `camSemaphore` (1016, 1179): `ImageUnlocksGet` speaks of files.
* What TASK_timeout sets to make the codec reopen (1012-1014) is overwritten by
  the next frame before it is compared (563-564).
* A seek before the file is open dereferences a null pointer (676-702).

In the RTSP client (`SLARtspClient.cpp`; `CallsReturn`, `ClientOK` and
`SessionKeptAlive` stop at the first three):

* One `recv` can take the responses to both threads' requests; the other thread
  then waits for ever (the flag `merged`).
* An announced timeout of less than 60 s is ignored, so that such a session
  expires.
* A failed OPTIONS response ends the keep-alive thread unnoticed.
* When `SLAInitUDPReceive` fails, the client and its thread are left behind.
* A `Session` header without ";timeout" is indexed past its parts; CSeq is not
  compared; a response in two segments fails the open; the error paths before
  the thread exists wait 5 s for it; `createRtpPorts` leaks a socket when a port
  is given.

In the metadata and the facade (`KlvOK` compares with what the code stores):

* "called back when a decoded frame is available" (`SLADecode.h` 41): while
  `haveKLV` is set, a second image before the next metadata replaces the first.
* After `SetAddress` `klv` keeps the old stream's values, and an image of the
  old stream may be reported with the metadata of the new one.
* `nTargets` follows the reported number of targets beyond those received,
  while `SLAKlv.h` says "number of targets received".
* #39 (outside air temperature) writes one byte of a field of four.
* The unknown values of #58, #60 and #61 are legal readings.  Short signed
  values are not sign-extended.  A length other than 1, 2, 4 or 8 rejects the
  whole packet.
* `ReadBer`'s error leaves the length uninitialised, and lengths are not held
  against the end of the packet (not modelled: packets here are whole).

In the FIP packers and readers (rows marked in `FipPackets`):

* `SLFIPSetADCParameters` with a camera index declares a byte less than it
  writes (928-946); `setMultipleAlignment` always declares five alignments
  (1097); `setVideoMode3000` declares five bytes it omits without a display
  (2083-2141), so that the next packet is swallowed.  `Sound` exempts them, and
  `PackersAddUp` is proved for all the others.
* The longest user warning, chopped to fit the extended format (comment
  3410-3416), is longer than `ReadFIP` takes.
* The header 0x51 0xAE of MTI packets is accepted by neither reader.
* `SLParsePackets` returns 0 for fewer than four bytes, although they may begin
  a packet, and the caller forgets them: `SentIsHandled` exempts the packets
  that had a byte in such a call.  It discards all when more than 130 are buffered, and takes a
  length of 0 or above 128 for a packet that is still to come.
* A packet embedded in a rejected packet is executed.
* `ReadFIP` with a timeout uses the length of the packet before when the length
  byte does not come (`n < 0` is all it tests); on 0x51 0x51 0xAC it loses the
  header.

In the filter:

* "Stop can be used to resync the graph state after something has gone bad"
  (`amfilter.cpp` 528-530): when a second pin fails to activate, `m_State`
  stays Stopped with the first pin's worker running; Stop does nothing and every
  later Pause fails to create its thread.  `StoppedMeansQuiet` speaks of
  filters in which nothing failed.
* The two streams' `FillBuffer` move and plot the ball of `g_SLABoard`
  (`FSLA-3000.cpp` 285-299), each under a lock of its own (`FSLA-3000.h` 93);
  `Notify` writes `m_iRepeatTime` without it.  What is drawn is not modelled.

## Proofs

`MailboxProofs` proves, for any finite set of threads, any `nMax` > 0, any
classes and any number of posts (`MailboxAssumption`):

* `MailboxConsistent`: `Spec => []MailboxOK`: the variables keep their types,
  and the permits in the semaphores and those that calls in progress hold add
  up to `nMax`;
* `ClaimSafety`: `Spec => []ClaimsAreSound`, a thread that claims a slot finds
  one, although the permit was taken outside the critical section;
* `InvariantInductive`: the invariant behind them is inductive.

`ClaimsAreSound` is not inductive: a claim relies on a permit taken earlier,
and that on a release made by another thread after its copy.  The invariant
adds `WindowCounted`: the distance of the two counters is the number of permits
to get, plus the threads that hold one and have not claimed, plus the posts
that claimed a slot and have not released their permit.  `AtMove` is the lemma
the proof turns on: what a step of one thread does to the number of threads at
given places.  Each action changes at most three such numbers; `NextCounting`
adds them up, action by action.  `ClaimSafety` follows by arithmetic:
`AtLeastOne` makes the claiming thread count.

From the same assumption it proves `MailboxIsChannel`:
`Spec => ImplementsChannel`.  A post takes effect where `CopyIn` writes the
slot, a pend where `CopyOut` reads it; the steps around them are stutters.
`RInv` adds to the invariant above that one thread at a time is in the critical
section (`Mutex`), that a claimed slot is the one the counter named before the
claim moved it (`SlotClaimed`), and that a call which has nothing to deliver
carries nothing (`EmptyHanded`).  The copy leaves the rest of the queue alone
because the counters are never `nMax` apart before a claim, so that two of them
name different slots (`SlotsDiffer`).  A call times out only in a state where
the semaphore is 0; by the conservation of permits the messages queued and the
holders of a permit then make up the whole length, and each holder is a call in
progress (`HoldersAreOthers`), which is what the channel demands.

`CountsMessages` (`Spec => []CountIsExact`) rests on the refinement:
`ClassesKept` says that a slot the queue names has the class of its message and
every other slot has none, since `SLAMbxPend` clears the class where it copies.
Positions of the queue and slots with a class then correspond one to one
(`SlotsDiffer` again), and the two counts are of sets of one size.

`UdpReceiverProofs` proves every safety property that `MCUdpReceiver` checks,
for any number of buffers, of threads that save, of dump files, of pieces of a
packet and of frames, from a socket or from a file (`UdpAssumption`), by four
invariants, each of which needs the first:

* `ThreadInv`: types; who is between a wait and a post of the three semaphores,
  without which no type says that they stay binary; what `rv` and the end of
  the loop mean; and where `frame` and `popped` name a buffer.
  `FreedAfterLastUse` follows.
* `DumpInv`: between `fclose` and the next assignment no dump file is open,
  otherwise `dumpFile` is the open one.  `DumpIsProtected` follows, as the task
  is inside `dumpSem` wherever it writes and reads.
* `PoolInv`: a buffer is queued once, or the task's, or the consumer's (`Apart`,
  `Conserved`), and the end-of-file mark is the last thing posted
  (`NullIsLast`).  `TaskOwns` is the delicate definition: once `done` is set,
  `frame` may be left over from an earlier round, but not where a packet is
  parsed or a buffer posted.  `PoolIsKept` and `BusyIsHonest` follow;
  `PostsHaveRoom` needs counting: buffers in a queue without repeats, one of
  them missing, are fewer than `QSIZE` (`RoomForTheMissing`).
* `CountInv`: the frames in `fullMbx` are those after the last one popped, in
  order, and with the one the task may have completed they are all frames
  demultiplexed.  `EofComesLast` and `FramesArriveInOrder` follow.

`TsDemuxProofs` proves, for any modulus of the continuity counter, any size of
the buffer, any number and length of frames and any number of faults
(`TsAssumption`), `TypeCorrect`, `FramesAreIntact`, `StreamRecovers` and the
action property `FramesKeepOrder`.  `DeliveredIsIntact` alone is far from
inductive.  `PesOK` says what a stream that has started holds: a run of one
frame's pieces, from its first, newer than the last one handed on.  `UnderWay`
distinguishes what may be on its way (nothing; a packet; a packet and its copy;
the copy; two swapped packets; the second of them) and says in each case how
many packets are missing between `CC` and the packet (`Gap`), and, when none
is, that the stream holds all of that packet's frame before it (`Waiting`).  A
packet that looks as if it followed on therefore does, provided that the
network never hides as many packets as the counter has values.  An earlier
version of the assumption, `MaxBurst <= CCMod - 2`, was found too weak by the
attempt to prove this: a swap leaves `CC` one behind, a burst adds its length,
and a second swap brings the packet after the next one first.  TLC then showed
the damaged frame with three faults, which the run had not had until then.

`RtpFramesProofs` proves, for any number of buffers, any modulus, any number and
length of frames, any faults, with or without pauses (`RtpAssumption`),
`TypeCorrect`, `FramesAreIntact` (`Spec => []IntactUnlessSplit`) and
`SessionRecovers` (`Spec => []CalmFramesArrive`, of frames that fit the buffer,
with packets that are not taken among them).  The cases of `UnderWay` are those
of the transport stream; but the RTP code always takes over the number of
the packet it has seen, so that one packet after a fault the receiver is in
step again, and it is `failed` that must remember the fault until the frame
ends.  `Building` says that a JPEG frame which has neither failed nor changed
buffers holds its packets so far; `Held` says the same of a frame sent in calm,
without that condition on `failed`, which is what is to be shown of it;
`BufferStep` covers what a new buffer or a pause may do to both.
`TypeOK` contains a bound that has to be counted: H264 fragments whose
first one is lost are appended to what was there, and stay within `Room`
because no more is appended than was sent, copies included (`Counted`).  The
proof showed that copies had been left out of `Room`, and that `MaxBurst` was
too large for the same reason as above.

`DecodeTaskProofs` proves, for every kind of input and address, any length of
the command mailbox, any number of loops and of commands, `LifetimesSafe`,
`ReceiverDestroyed`, `ImageIsStable` and `GetIsUnlocked` from one invariant:

* `CommandsSound`: every command under way can be handled; only Cleanup sends a
  name that cannot be opened, and only after it has set `done`.
* `NextKnown`: a seek leaves the state machine in no state; `nextState`, from
  the round before, then is one, because the streams it seeks in were found.
* `EndInOrder`: `done` says that the application is in Cleanup; the task leaves
  its loop for good only then, or without ever having had a receiver; and
  `taskDoneSem` is posted by its last step.  `LifetimesSafe` follows.
* `ReceiverLeft`: which receivers survive `destroy`.
* `OneToken`: `imageSem`, `processingSem` and the application's holding an image
  are at most one token, which the task lacks exactly while it waits.  This is
  why no image is decoded into between Get and Release.  It is given up when
  Cleanup sets `done`, after which the application holds no image;
  an application that never calls Release says so once, at Create (`noRelease`).
* `FramesAreImages`: in a file only images move `frame`, so that the first one
  posts `camSemaphore`.

`RtspProofs` proves, for any times that the client is compiled with in which it
waits longer for its thread than the thread sleeps, and any timeouts and delays
of the server (`RtspAssumption`), `ClientEndsClean` (`Spec => []ClientOK`).  The
wait for the thread is limited, and the client is deleted whether it succeeds
or not.  It does succeed because the socket is closed first: from then on the
thread has at most one sleep to go (`InTime`) and finds the stop, which is
posted once and taken by nobody else (`StopOnce`).  `NoStrayAnswer` bounds what
is on the socket by who waits for it.  `SessionsKeptAlive`
(`Spec => []SessionKeptAlive`) needs `ServerAssumption` as well: the ten seconds
that the thread subtracts from the timeout cover one sleep, by which it
overshoots, and one answer.  `SessionInv` follows the age of the session along
the thread's round (`Idle`), with the one request the thread does not make
itself: PLAY must be answered before the thread sends its first OPTIONS, or the
answers could be confused (`PlayFirst`).

`StreamPinProofs` proves, for any number of pins, samples, calls and failures
(`PinAssumption`), every invariant that `MCStreamPin` checks:

* `TypeCorrect` and `WakeupsArrive` come from one inductive invariant,
  `TypeInv`: `TypeOK`, `NoLostWakeup`, `CallGoesOn` (a call in
  progress is a state change) and `SampleHeld` (a worker holds
  a sample exactly where it works on one).  That the semaphore of the allocator
  stays between 0 and 1 is no fact of types: it holds because a waiting worker
  is counted or has its permit, never both, which is `NoLostWakeup`.
* `SamplesSafe`: `SampleInv` adds that a worker about to put a sample back does
  not find it with the renderer.
* `RepliesAreOwn`: `RequestInv` says that at most one request is on its way, to
  the pin and with the command that `CallWorker` waits for, and that `served`
  is that command from the reply on.
* `StopIsQuiet`: `QuietInv` follows a call pin by pin: those before the current
  one are quiet, the current one is decommitted before its worker is told to
  stop, and a filter that is stopped was stopped pin by pin, or never started.

Each has a lemma for the worker's actions and one for the manager's, since an
action of one stream leaves the others' functions alone.

`FormatProofs` is about what is put into bytes and taken out again.  The
checksum, the packets that `SLParsePackets` finds and what has been read after
each element of a metadata packet are recursive functions in the model.  That
they exist, and what they yield, is proved by induction, and the prover can
be given induction without a theorem that takes an operator: the set of numbers
for which a claim fails has a smallest member (`SmallestExists`, from the
library's `WFMin`), hence a set of numbers with 0 and all successors is `Nat`
(`Induction`), hence a function computed step by step exists (`Recursion`).

Of the packers, for any lengths of strings and blocks and any number of tracks
(`FipAssumption`):

* `LengthsComeBack`: the length field, 7 bits and the rest, is read back as it
  was written, and as many bytes are skipped as were written;
* `PackersAddUp`: the sum of the fields that a packer writes is the length that
  it declares, for every packer but the three above.

Of the line, for any plans of packers, any handler table, any number of packets
and any damage (`LinkAssumption`):

* `LinkIsTyped` (`LinkSpec => []LinkTypeOK`): whatever arrives, handlers are
  given bytes and what `SLParsePackets` keeps fits the buffer of one packet.
  `ParsesDef` gets the results of a parse from the last byte back to the first,
  as a parse only looks ahead (`SameAhead`);
* `PacketsComeInOrder` (`LinkSpec => []HandledInOrder`): undisturbed, `ReadFIP`
  without a timeout never loses its step.  `KeepsUp` says where it is: the
  packets handled are the first ones sent, and the bytes on the line are those
  of the others, except as many of the next one as have been read (`Remains`:
  there are places at which the packets start).  Without that no step is
  inductive: that two bytes read are a header follows from their standing where
  a packet starts, not from what they are.  `SoundPacketIsParsed` says that the
  packet then handed to `SLParsePackets` is taken whole, since its header is
  found at 0 and its checksum is the packer's.

Of the metadata, for any set of keys, any packets with any nesting of known and
unknown elements, and any number of targets that a byte counts (`KlvAssumption`,
`PacketsAssumption`):

* `KlvIsCorrect` (`Spec => []KlvOK`).  `klv` is compared with a reading of the
  whole packet at once (`Said`: for each key the last of its elements), which
  the decoder, element by element, must agree with.  `ReadSoFar` is what holds
  of the data after the elements at some places, `OneMore` what one more element
  does to it, `NestedSet` and `AllElements` the inductions over a nested set and
  over the packet; `PacketsAreRead` concludes that a packet is accepted just
  when every element of it is good, tried at offset 0 or 5, although the first
  try may have written into `klvRecent`.  `KlvInv` adds that an image waits for
  metadata only if it has not been reported with any.

  To state this the types had to be sharpened: a number has the bytes of its
  type (`KLVData`), which an element of the wrong length must not change, and
  `KLV_MAX_NUMBER_OF_TARGETS` is a byte, or the number of targets stored with a
  series would be none.

What only TLC checks, and why:

* liveness (`CallsReturn` of the two modules, `CallsComplete`, `EofReported`,
  `CleanupReturns`, `ImagesResume`): the prover has neither `ENABLED` nor
  fairness;
* `HandledWasSent` and `SentIsHandled` of FipLink, where bytes are damaged or
  lost, reads time out, or packers declare lengths they do not write.  They are
  no theorems for arbitrary plans: the fields of a rejected packet are searched
  for others, and may hold by chance a header with a length after which the
  checksum fits; and a reader that is out of step loses a packet behind a
  checksum that happens to be 0x51.  TLC shows that with the packers and fields
  of the run none of this happens.

## Plan

Done, with proofs of their safety properties: `Mailbox` and its refinement of
`BoundedChannel`, `UdpReceiver`, `TsDemux`, `RtpFrames`, `DecodeTask`,
`RtspClient`, `FipPackets`, `StreamPin`, `DecodeFacade` with `KlvElements`, and
of `FipLink` without damage.  Left, in this order:

1. Proofs of what a damaged byte may do to `FipLink`'s readers at most: which
   packets after it are handled all the same.
2. Re-targeting in the middle of a frame (`UdpReceiver` with `TsDemux`) and
   stuffing in the middle of a frame.
3. The unpackers of `slfip.cpp` against their packers, and metadata packets
   that are cut short.

## Not modelled

Most lines of the repository are not its own: about 30,000 lines of DirectShow
base classes, of which the filter uses the parts that `StreamPin` models (no
renderers, transform filters, clocks, windows or dialogs), and about 25,000
lines of ffmpeg's headers, which hold declarations.

Of its own code: the tables of the transport stream (`parsePAT`, `parsePM`) and
the bit fields of headers; JPEG headers and quantisation tables; RTP that
carries transport stream packets; H264 frames that do not fit their buffer; image conversion, statistics, the
fields that `GetImageInfo` returns; metadata packets that are cut short and
malformed packs of targets; what the timed reader of packets loses (`HandledWasSent`
is checked of it, `SentIsHandled` only of the other two); what the unpackers
of `slfip.cpp` copy; the ball that `FillBuffer` draws, time stamps, media types
and property pages of the filter; sockets, serial port and thread creation
beyond their outcomes; failing allocations of the decoder.  The counters of the
mailbox are unbounded in the model and 32-bit ints in the code.
