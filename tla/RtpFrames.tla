------------------------------ MODULE RtpFrames -------------------------------
(***************************************************************************)
(* How demuxRTPPacket (SLAUDPReceive.cpp 1472-1642) builds frames from RTP *)
(* packets, directly in the buffer that udpReceiveTask took from emptyMbx. *)
(* JPEG packets name their place in the frame (tspec_off); H264 fragments  *)
(* are appended at dataLen.  A frame of one H264 packet is a single NALU.  *)
(* A frame with failures is handed on with length 0 (JPEG); lengths are    *)
(* counted in packets, and the headers put in front are left out.  H264 is *)
(* not held against the buffer in the code; what it does to a frame that   *)
(* does not fit is undefined and not modelled.                             *)
(*                                                                         *)
(* SLASockRecvFrom waits 100 ms.  When nothing comes in time the task      *)
(* gives its buffer back and takes the next one, in the middle of a frame  *)
(* or not (mayStall: the sender pauses that long).                         *)
(***************************************************************************)
EXTENDS Integers, Sequences, FiniteSets

CONSTANTS
  Buffers,     (* the QSIZE frame buffers                                  *)
  NULL,        (* no buffer                                                *)
  Codecs,      (* payload types: "JPEG", "H264"                            *)
  SeqMod,      (* values of the sequence number (2^16 in RTP)              *)
  mayStall,    (* pauses of 100 ms happen                                  *)
  maxBufferLen,(* packets that reach the end of a buffer                   *)
  MaxLen,      (* bound of the model: packets of a frame                   *)
  MaxSent,     (* bound of the model: frames sent                          *)
  MaxFaults,   (* bound of the model: bursts of loss, duplicates, swaps,   *)
               (* packets that the demultiplexer does not take             *)
  MaxBurst     (* packets lost in a row                                    *)

ASSUME RtpAssumption ==
  /\ IsFiniteSet(Buffers) /\ Buffers # {} /\ NULL \notin Buffers
  /\ Codecs \subseteq {"JPEG", "H264"}
  /\ SeqMod \in Nat
  /\ mayStall \in BOOLEAN
  /\ maxBufferLen \in Nat
  /\ MaxLen \in Nat \ {0}
  /\ MaxSent \in Nat /\ MaxFaults \in Nat
  /\ MaxBurst \in 0 .. SeqMod - 3   \* and a swap on either side: SeqMod hide

VARIABLES
  src,        (* the sender: the next packet it will send                  *)
  inbox,      (* packets that have arrived and are not consumed            *)
  faults,     (* faults so far                                             *)
  lostRun,    (* packets lost in the current burst                         *)
  prevseq, failed, dataLen,   (* fields of UDPReceiveStruct                *)
  mem,        (* the contents of each buffer                               *)
  emptyMbx, buffer, atUser,   (* the buffers: free, the task's, handed on  *)
  frame,      (* the last frame handed on                                  *)
  joined,     (* the frame that the first packet consumed belongs to       *)
  split       (* the buffer was changed within the frame                   *)

net  == <<src, inbox, faults, lostRun>>
rtp  == <<prevseq, failed, dataLen, mem>>
pool == <<emptyMbx, buffer, atUser>>
seen == <<frame, joined, split>>
vars == <<net, rtp, pool, seen>>

(* Fragments whose first one was lost are appended to what came before:     *)
(* room for every packet of the model, and its copies.                      *)
Room == MaxLen * (MaxSent + 1) + MaxFaults

Blank   == [i \in 1 .. Room |-> << >>]
NoFrame == [sent |-> << >>, buf |-> << >>, failed |-> FALSE, split |-> FALSE]

-------------------------------------------------------------------------------
(* The sender and the network (external to the program) *)

(* Can the receiver deliver the frame at all?                               *)
Deliverable(s) == s.len < maxBufferLen

(* H264 frames fit: see above.  A frame that is not sent has one length.    *)
Lengths(id, codec) ==
  {n \in 1 .. MaxLen :
     (codec = "H264" => n < maxBufferLen) /\ (id > MaxSent => n = 1)}

(* The frames that may be sent next.  calm: no fault in the packet before   *)
(* the frame and in the frame so far.  owed: that held for all of the frame *)
(* before, which should be there when this one begins.                      *)
Frames(id, codec, seq, calm, owed) ==
  [id : {id}, codec : {codec}, k : {1}, seq : {seq}, len : Lengths(id, codec),
   calm : {calm}, owed : {owed}]

After(s, calm) ==
  LET seq == (s.seq + 1) % SeqMod
  IN  IF s.k < s.len
      THEN {[s EXCEPT !.k = @ + 1, !.seq = seq, !.calm = @ /\ calm]}
      ELSE Frames(s.id + 1, s.codec, seq, calm, s.calm /\ calm /\ Deliverable(s))

NotOwed(s) == [s EXCEPT !.owed = FALSE]

CanSend == inbox = << >> /\ src.id <= MaxSent

Arrive ==
  /\ CanSend
  /\ inbox' = <<src>>
  /\ src' \in After(src, TRUE)
  /\ lostRun' = 0
  /\ UNCHANGED <<faults, rtp, pool, seen>>

Lose ==
  /\ CanSend
  /\ lostRun < MaxBurst
  /\ lostRun > 0 \/ faults < MaxFaults
  /\ faults' = IF lostRun = 0 THEN faults + 1 ELSE faults
  /\ lostRun' = lostRun + 1
  /\ src' \in After(src, FALSE)
  /\ UNCHANGED inbox
  /\ UNCHANGED <<rtp, pool, seen>>

Duplicate ==
  /\ CanSend
  /\ faults < MaxFaults
  /\ inbox' = <<src, NotOwed(src)>>
  /\ src' \in After(src, FALSE)
  /\ faults' = faults + 1 /\ lostRun' = 0
  /\ UNCHANGED <<rtp, pool, seen>>

Swap ==
  /\ CanSend
  /\ faults < MaxFaults
  /\ \E next \in After(src, FALSE) :
       /\ inbox' = <<NotOwed(next), NotOwed(src)>>
       /\ src' \in After(next, FALSE)
  /\ faults' = faults + 1 /\ lostRun' = 0
  /\ UNCHANGED <<rtp, pool, seen>>

(* A packet that the demultiplexer does not take: of another payload type   *)
(* or of a type of NALU it does not know, between the packets of frames, or *)
(* an H264 packet of a frame, by its type or its header bits.               *)
Rejectable(s) == [s EXCEPT !.codec = "other", !.owed = FALSE]

SendRejectable ==
  /\ CanSend
  /\ faults < MaxFaults
  /\ inbox' = <<Rejectable(src)>>
  /\ \/ src' = [src EXCEPT !.seq = (@ + 1) % SeqMod]
     \/ src.codec = "H264" /\ src' \in After(src, FALSE)
  /\ faults' = faults + 1 /\ lostRun' = 0
  /\ UNCHANGED <<rtp, pool, seen>>

-------------------------------------------------------------------------------
(* udpReceiveTask's buffer, SLADemuxNextFrame's SLAMbxPost(emptyMbx) *)

TakeBuffer ==
  /\ buffer = NULL
  /\ emptyMbx # << >>
  /\ buffer' = Head(emptyMbx)
  /\ emptyMbx' = Tail(emptyMbx)
  /\ UNCHANGED <<net, rtp, atUser, seen>>

Stall ==
  /\ mayStall
  /\ buffer # NULL
  /\ inbox = << >>
  /\ emptyMbx' = Append(emptyMbx, buffer)
  /\ buffer' = NULL
  /\ split' = TRUE
  /\ UNCHANGED <<net, rtp, atUser, frame, joined>>

ReturnBuffer ==
  /\ atUser # << >>
  /\ emptyMbx' = Append(emptyMbx, Head(atUser))
  /\ atUser' = Tail(atUser)
  /\ UNCHANGED <<net, rtp, buffer, seen>>

-------------------------------------------------------------------------------

(* Mutant: only a number that goes back is a mismatch. *)
MismatchBackwards(p) == p.seq < (prevseq + 1) % SeqMod

(* "Detect out-of order or mising sequence numbers".  prevseq is a u16 and  *)
(* starts as 0: the test for -1 next to this one always passes.             *)
Mismatch(p) == (prevseq + 1) % SeqMod # p.seq

(* The frame is complete and leaves with its buffer. *)
HandOn(p, flagged, n) ==
  /\ frame' = [sent |-> p, failed |-> flagged, split |-> split',
               buf |-> SubSeq(mem'[buffer], 1, n)]
  /\ atUser' = Append(atUser, buffer)
  /\ buffer' = NULL
  /\ UNCHANGED emptyMbx

(* The packet is the first of a frame.                                      *)
Starts(p) == p.k = 1 /\ p.codec # "other"

(* Mutant: prevseq is advanced, not set. *)
ConsumeCounting ==
  /\ inbox # << >>
  /\ buffer # NULL
  /\ inbox' = Tail(inbox)
  /\ prevseq' = prevseq + 1
  /\ joined' = IF joined = 0 THEN Head(inbox).id ELSE joined
  /\ split' = (split /\ ~Starts(Head(inbox)))
  /\ UNCHANGED <<src, faults, lostRun>>

Consume ==
  /\ inbox # << >>
  /\ buffer # NULL
  /\ inbox' = Tail(inbox)
  /\ prevseq' = Head(inbox).seq
  /\ joined' = IF joined = 0 THEN Head(inbox).id ELSE joined
  /\ split' = (split /\ ~Starts(Head(inbox)))
  /\ UNCHANGED <<src, faults, lostRun>>

(* The piece does not reach the end of the buffer.                          *)
Fits(p) == p.k < maxBufferLen

(* Mutant: failed is not reset when a frame ends. *)
DemuxJpegStillFailed ==
  LET p == Head(inbox)
      nowFailed == failed \/ Mismatch(p) \/ ~Fits(p)
      old == IF p.k = 1 THEN Blank ELSE mem[buffer]
  IN  /\ Consume
      /\ p.codec = "JPEG"
      /\ mem' = [mem EXCEPT ![buffer] =
                   IF Fits(p) THEN [old EXCEPT ![p.k] = <<p.id, p.k>>] ELSE old]
      /\ UNCHANGED dataLen
      /\ failed' = nowFailed
      /\ IF p.k = p.len
           THEN HandOn(p, nowFailed, IF nowFailed THEN 0 ELSE p.k)
           ELSE UNCHANGED <<pool, frame>>

(* demuxRTPMJpeg: the first packet clears the buffer; a piece that does not *)
(* fit is left out, and is a failure; the marker bit ends the frame, with   *)
(* length 0 if anything failed since the last one ended.                    *)
DemuxJpeg ==
  LET p == Head(inbox)
      nowFailed == failed \/ Mismatch(p) \/ ~Fits(p)
      old == IF p.k = 1 THEN Blank ELSE mem[buffer]
  IN  /\ Consume
      /\ p.codec = "JPEG"
      /\ mem' = [mem EXCEPT ![buffer] =
                   IF Fits(p) THEN [old EXCEPT ![p.k] = <<p.id, p.k>>] ELSE old]
      /\ UNCHANGED dataLen
      /\ IF p.k = p.len
           THEN /\ HandOn(p, nowFailed, IF nowFailed THEN 0 ELSE p.k)
                /\ failed' = FALSE
           ELSE /\ failed' = nowFailed
                /\ UNCHANGED <<pool, frame>>

(* demuxRTPH264, a single NALU: dataLen is not used; failures are counted   *)
(* but nobody looks.                                                        *)
DemuxNalu ==
  LET p == Head(inbox)
  IN  /\ Consume
      /\ p.codec = "H264"
      /\ p.len = 1
      /\ mem' = [mem EXCEPT ![buffer][1] = <<p.id, p.k>>]
      /\ failed' = (failed \/ Mismatch(p))
      /\ HandOn(p, FALSE, 1)
      /\ UNCHANGED dataLen

(* demuxRTPH264, a fragment: the s bit starts over, the e bit ends.         *)
DemuxFragment ==
  LET p == Head(inbox)
      at == IF p.k = 1 THEN 1 ELSE dataLen + 1
  IN  /\ Consume
      /\ p.codec = "H264"
      /\ p.len > 1
      /\ mem' = [mem EXCEPT ![buffer][at] = <<p.id, p.k>>]
      /\ dataLen' = at
      /\ failed' = (failed \/ Mismatch(p))
      /\ IF p.k = p.len THEN HandOn(p, FALSE, at) ELSE UNCHANGED <<pool, frame>>

(* The packet is not taken: the high bit, the r bit, or a type of NALU or   *)
(* payload that is not known.  Its number counts all the same.              *)
DemuxRejected ==
  /\ Consume
  /\ Head(inbox).codec = "other"
  /\ failed' = (failed \/ Mismatch(Head(inbox)))
  /\ UNCHANGED <<dataLen, mem, pool, frame>>

(* SLAInitUDPReceive zeroes everything; the receiver joins at any packet.   *)
Init ==
  /\ \E pt \in Codecs, seq \in 0 .. SeqMod - 1 :
       \E s \in Frames(1, pt, seq, FALSE, FALSE), k \in 1 .. MaxLen :
         k <= s.len /\ src = [s EXCEPT !.k = k]
  /\ inbox = << >>
  /\ faults = 0 /\ lostRun = 0
  /\ prevseq = 0 /\ failed = FALSE /\ dataLen = 0
  /\ mem = [b \in Buffers |-> Blank]
  /\ \E q \in [1 .. Cardinality(Buffers) -> Buffers] :
       /\ \A i, j \in DOMAIN q : q[i] = q[j] => i = j
       /\ emptyMbx = q
  /\ buffer = NULL /\ atUser = << >>
  /\ frame = NoFrame
  /\ joined = 0 /\ split = FALSE

Network == Arrive \/ Lose \/ Duplicate \/ Swap \/ SendRejectable
Task == TakeBuffer \/ Stall \/ DemuxJpeg \/ DemuxNalu \/ DemuxFragment \/ DemuxRejected
Ended == inbox = << >> /\ src.id > MaxSent /\ UNCHANGED vars

Next == Network \/ Task \/ ReturnBuffer \/ Ended
Spec == Init /\ [][Next]_vars

-------------------------------------------------------------------------------
TypeOK ==
  /\ src.codec \in Codecs
  /\ src.id \in 1 .. MaxSent + 2 /\ src.k \in 1 .. MaxLen /\ src.seq \in 0 .. SeqMod - 1
  /\ Len(inbox) <= 2
  /\ faults \in 0 .. MaxFaults /\ lostRun \in 0 .. MaxBurst
  /\ failed \in BOOLEAN /\ split \in BOOLEAN
  /\ prevseq \in 0 .. SeqMod - 1
  /\ dataLen \in 0 .. Room
  /\ DOMAIN mem = Buffers /\ \A b \in Buffers : DOMAIN mem[b] = 1 .. Room
  /\ emptyMbx \in Seq(Buffers) /\ atUser \in Seq(Buffers)
  /\ buffer \in Buffers \union {NULL}

(* A frame as it was sent, every packet in its place.                       *)
Intact ==
  frame.buf = [i \in 1 .. frame.sent.len |-> <<frame.sent.id, i>>]

(* A JPEG frame that is not marked failed and whose packets all went to one *)
(* buffer is one frame as it was sent: what an earlier frame or the half of *)
(* a split one left behind is never handed on again.  The network never     *)
(* hides SeqMod packets in a row (a swap, a burst and a swap).  The frame   *)
(* the receiver joins in is left out: a first packet numbered 1 always      *)
(* looks in order.                                                          *)
IntactUnlessSplit ==
  /\ frame # NoFrame /\ frame.sent.codec = "JPEG"
  /\ ~frame.failed /\ frame.sent.id # joined /\ ~frame.split
  => Intact

(* A frame that fits the buffer, sent undisturbed right after an            *)
(* undisturbed packet (the last one of the frame before), is handed on      *)
(* before the next frame starts, not marked failed, and whole if its        *)
(* packets all went to one buffer: what happened to earlier frames, or that *)
(* they did not fit, does not reach it.                                     *)
CalmFramesArrive ==
  inbox # << >> /\ Head(inbox).k = 1 /\ Head(inbox).owed =>
    /\ frame.sent # << >> /\ frame.sent.id = Head(inbox).id - 1
    /\ ~frame.failed
    /\ frame.split \/ Intact

===============================================================================
