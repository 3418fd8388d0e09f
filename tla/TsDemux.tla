------------------------------- MODULE TsDemux --------------------------------
(***************************************************************************)
(* How demuxTSPacket (SLAUDPReceive.cpp 925-1091) reassembles the frames   *)
(* of one elementary stream, a PESStruct, from transport stream packets    *)
(* that the network loses, duplicates and swaps.                           *)
(*                                                                         *)
(* A packet carries one piece of a frame; the first packet of a frame      *)
(* (payload_unit_start_indicator) carries the PES header too, and nothing  *)
(* else when the header fills it.  A frame's end is recognised by stuffing *)
(* in its last packet, by the length its header declares, or, with         *)
(* neither, by the start of the next frame.  Lengths are counted in        *)
(* pieces.  The continuity counter has CCMod values (16 in a TS packet).   *)
(***************************************************************************)
EXTENDS Integers, Sequences, FiniteSets

CONSTANTS
  CCMod,       (* values of the continuity counter                         *)
  bufLen,      (* pieces that fit into the PES buffer                      *)
  MaxLen,      (* bound of the model: packets of a frame                   *)
  MaxSent,     (* bound of the model: frames sent                          *)
  MaxFaults,   (* bound of the model: bursts of loss, duplicates, swaps    *)
  MaxBurst     (* packets lost in a row                                    *)

ASSUME TsAssumption ==
  /\ CCMod \in Nat
  /\ bufLen \in Nat \ {0}
  /\ MaxLen \in Nat \ {0}
  /\ MaxSent \in Nat
  /\ MaxFaults \in Nat
  /\ MaxBurst \in 0 .. CCMod - 3   \* and a swap on either side: CCMod hide

VARIABLES
  src,       (* the sender: the next packet it will send                   *)
  inbox,     (* packets that have arrived and are not consumed             *)
  faults,    (* faults so far                                              *)
  lostRun,   (* packets lost in the current burst                          *)
  quiet,     (* packets sent since the last fault, counted to CCMod - 1    *)
  pes,       (* the PESStruct; isVideo: it is PES[0]                       *)
  frame      (* the frame the last successful setFrame filled in           *)

net  == <<src, inbox, faults, lostRun, quiet>>
vars == <<net, pes, frame>>

NoFrame == [id |-> 0, buf |-> << >>, len |-> 0, whole |-> FALSE]

-------------------------------------------------------------------------------
(* The sender and the network (external to the program) *)

(* The payload of a frame: its packets, less the first one if the PES       *)
(* header fills it.                                                         *)
Pieces(s) == IF s.headerOnly THEN s.len - 1 ELSE s.len

(* Can the receiver deliver the frame at all?  Not an empty one, not one    *)
(* larger than its buffer, and no video frame whose header fills a packet   *)
(* (the "strange error condition").                                         *)
Deliverable(s) == Pieces(s) \in 1 .. bufLen /\ ~(pes.isVideo /\ s.headerOnly)

(* Ways the end of a frame shows: in its declared length, by stuffing in    *)
(* its last packet, or not before the next frame starts.                    *)
Endings == {"length", "stuffing", "none"}

AnyFrame(id, cc, calm, owed) ==
  [id : {id}, k : {1}, cc : {cc}, len : 1 .. MaxLen, end : Endings,
   headerOnly : BOOLEAN, calm : {calm}, owed : {owed}]

(* The frames that may be sent next.  calm: no fault for the last CCMod - 1 *)
(* packets and in the frame itself so far.  owed: that held for all of the  *)
(* frame before, which should be there when this one begins.  The last      *)
(* frame of the model only has to begin, and is of one kind.                *)
Frames(id, cc, calm, owed) ==
  {f \in AnyFrame(id, cc, calm, owed) :
     id >= MaxSent => f.len = 1 /\ f.end = "length" /\ ~f.headerOnly}

(* The packet after packet s; a fault while a frame is sent ends its calm.  *)
After(s, calm) ==
  IF s.k < s.len
  THEN {[s EXCEPT !.k = @ + 1, !.cc = (@ + 1) % CCMod, !.calm = @ /\ calm]}
  ELSE Frames(s.id + 1, (s.cc + 1) % CCMod, calm /\ quiet + 1 >= CCMod - 1,
              s.calm /\ calm /\ Deliverable(s))

Packet(s) == [s |-> s, pusi |-> s.k = 1, cc |-> s.cc]

NotOwed(s) == [s EXCEPT !.owed = FALSE]

CanSend == inbox = << >> /\ src.id <= MaxSent

Fault ==
  /\ faults' = faults + 1
  /\ quiet' = 0
  /\ lostRun' = 0
  /\ UNCHANGED <<pes, frame>>

Arrive ==
  /\ CanSend
  /\ inbox' = <<Packet(src)>>
  /\ quiet' = IF quiet < CCMod - 1 THEN quiet + 1 ELSE quiet
  /\ src' \in After(src, TRUE)
  /\ lostRun' = 0
  /\ UNCHANGED <<faults, pes, frame>>

Lose ==
  /\ CanSend
  /\ lostRun < MaxBurst
  /\ lostRun > 0 \/ faults < MaxFaults
  /\ faults' = IF lostRun = 0 THEN faults + 1 ELSE faults
  /\ lostRun' = lostRun + 1
  /\ quiet' = 0
  /\ src' \in After(src, FALSE)
  /\ UNCHANGED <<inbox, pes, frame>>

Duplicate ==
  /\ CanSend
  /\ faults < MaxFaults
  /\ inbox' = <<Packet(src), Packet(NotOwed(src))>>
  /\ src' \in After(src, FALSE)
  /\ Fault

Swap ==
  /\ CanSend
  /\ faults < MaxFaults
  /\ \E next \in After(src, FALSE) :
       /\ inbox' = <<Packet(NotOwed(next)), Packet(NotOwed(src))>>
       /\ src' \in After(next, FALSE)
  /\ Fault

-------------------------------------------------------------------------------

(* setFrame: TRUE if the stored PES packet becomes the caller's frame *)
Acceptable(p) == p.haveFrame /\ p.missedPacket = 0 /\ p.bufferPos <= bufLen

Emit(p) ==
  /\ pes' = [p EXCEPT !.haveFrame = FALSE]
  /\ IF Acceptable(p)
       THEN frame' = [id |-> p.id, buf |-> p.buf, len |-> p.bufferPos,
                      whole |-> p.bufferPos = p.wanted]
       ELSE UNCHANGED frame

(* A frame starts while another is stored: that one is sent out first and   *)
(* the packet is not consumed.                                              *)
StartsNext == Head(inbox).pusi /\ pes.started /\ pes.haveFrame

DemuxPrevious ==
  /\ inbox # << >>
  /\ StartsNext
  /\ Emit(pes)
  /\ UNCHANGED net

(* Mutant: a packet that repeats the counter is taken for the next one. *)
InOrderOrRepeated(p) == pes.CC = -1 \/ pes.CC = p.cc \/ (pes.CC + 1) % CCMod = p.cc

(* The continuity counter does not follow on: the frame is given up.  CC    *)
(* stays as it was, and the packet is dropped, whatever it starts.          *)
InOrder(p) == pes.CC = -1 \/ (pes.CC + 1) % CCMod = p.cc

DemuxMissed ==
  /\ inbox # << >>
  /\ ~StartsNext
  /\ ~InOrder(Head(inbox))
  /\ pes' = [pes EXCEPT !.missedPacket = 1, !.bufferPos = 0, !.buf = << >>,
                        !.started = FALSE]
  /\ inbox' = Tail(inbox)
  /\ UNCHANGED <<src, faults, lostRun, quiet, frame>>

(* Mutant: bufferPos is not reset. *)
StartedWhereItWas(p) ==
  [pes EXCEPT !.CC = p.cc, !.buf = << >>, !.started = TRUE,
              !.missedPacket = 0, !.id = p.s.id, !.wanted = Pieces(p.s),
              !.pesDataLen = IF p.s.end = "length" THEN Pieces(p.s) ELSE 0]

(* Mutant: a packet once missed stays missed. *)
StartedStillMissed(p) ==
  [pes EXCEPT !.CC = p.cc, !.bufferPos = 0, !.buf = << >>, !.started = TRUE,
              !.id = p.s.id, !.wanted = Pieces(p.s),
              !.pesDataLen = IF p.s.end = "length" THEN Pieces(p.s) ELSE 0]

(* parsePESHeader and the resets that go with the start of a frame; id and  *)
(* wanted are no state of the program, but say what the buffer should hold. *)
Started(p) ==
  [pes EXCEPT !.CC = p.cc, !.bufferPos = 0, !.buf = << >>, !.started = TRUE,
              !.missedPacket = 0, !.id = p.s.id, !.wanted = Pieces(p.s),
              !.pesDataLen = IF p.s.end = "length" THEN Pieces(p.s) ELSE 0]

(* if(currentPES->bufferPos + ... <= bufLen) memcpy: bufferPos advances     *)
(* whether the piece fits or not.                                           *)
Stored(q, p) ==
  [q EXCEPT !.haveFrame = TRUE,
            !.bufferPos = @ + 1,
            !.buf = IF q.bufferPos < bufLen THEN Append(@, <<p.s.id, p.s.k>>) ELSE @]

HeaderFills(p) == p.pusi /\ p.s.headerOnly

(* The stream state after an in-order packet, before the end-of-frame test. *)
Appended(p) ==
  LET q == IF p.pusi THEN Started(p) ELSE [pes EXCEPT !.CC = p.cc]
  IN  IF ~q.started THEN [q EXCEPT !.haveFrame = TRUE]
      ELSE IF ~HeaderFills(p) THEN Stored(q, p)
      ELSE IF q.isVideo  \* "Strange error condition"
           THEN [q EXCEPT !.haveFrame = TRUE, !.bufferPos = 0, !.started = FALSE]
           ELSE [q EXCEPT !.haveFrame = TRUE]

(* Mutant: the length test forgets that 0 means unknown. *)
CompleteAtAnyLength(q, p) ==
  /\ ~(HeaderFills(p) /\ q.isVideo)
  /\ \/ p.s.end = "stuffing" /\ p.s.k = p.s.len
     \/ q.bufferPos >= q.pesDataLen
  /\ q.bufferPos > 0

(* "If the frame is complete": stuffing, or the declared length is reached. *)
Complete(q, p) ==
  /\ ~(HeaderFills(p) /\ q.isVideo)
  /\ \/ p.s.end = "stuffing" /\ p.s.k = p.s.len
     \/ q.bufferPos = q.pesDataLen /\ q.pesDataLen # 0
  /\ q.bufferPos > 0

DemuxPacket ==
  /\ inbox # << >>
  /\ ~StartsNext
  /\ InOrder(Head(inbox))
  /\ LET p == Head(inbox)
         q == Appended(p)
     IN  IF Complete(q, p) THEN Emit([q EXCEPT !.haveFrame = TRUE])
         ELSE pes' = q /\ UNCHANGED frame
  /\ inbox' = Tail(inbox)
  /\ UNCHANGED <<src, faults, lostRun, quiet>>

(* The receiver joins a stream at any packet. *)
Init ==
  /\ quiet = 0
  /\ \E s \in Frames(1, 0, FALSE, FALSE) : \E k \in 1 .. s.len : src = [s EXCEPT !.k = k]
  /\ inbox = << >>
  /\ faults = 0 /\ lostRun = 0
  /\ \E video \in BOOLEAN :
       pes = [isVideo |-> video, CC |-> -1, bufferPos |-> 0, buf |-> << >>,
              started |-> FALSE, haveFrame |-> FALSE, missedPacket |-> 0,
              pesDataLen |-> 0, id |-> 0, wanted |-> 0]
  /\ frame = NoFrame

Network == Arrive \/ Lose \/ Duplicate \/ Swap
Demux == DemuxPrevious \/ DemuxMissed \/ DemuxPacket
Ended == inbox = << >> /\ src.id > MaxSent /\ UNCHANGED vars

Next == Network \/ Demux \/ Ended
Spec == Init /\ [][Next]_vars

-------------------------------------------------------------------------------
TypeOK ==
  /\ src.id \in 1 .. MaxSent + 2 /\ src.k \in 1 .. MaxLen /\ src.cc \in 0 .. CCMod - 1
  /\ Len(inbox) <= 2
  /\ faults \in 0 .. MaxFaults /\ lostRun \in 0 .. MaxBurst /\ quiet \in 0 .. CCMod - 1
  /\ pes.CC \in -1 .. CCMod - 1
  /\ pes.bufferPos \in 0 .. MaxLen /\ pes.pesDataLen \in 0 .. MaxLen
  /\ pes.missedPacket \in 0 .. 1
  /\ pes.isVideo \in BOOLEAN /\ pes.started \in BOOLEAN /\ pes.haveFrame \in BOOLEAN
  /\ Len(pes.buf) <= bufLen
  /\ frame.len \in 0 .. bufLen

(* Whatever the network does, if it never hides CCMod packets in a row (a   *)
(* swap, a burst and a swap), a frame handed on is a run of successive      *)
(* packets of one frame from its start, none missing, none twice, and its   *)
(* length is what the buffer holds, which is nothing for metadata only.     *)
DeliveredIsIntact ==
  LET n == Len(frame.buf)
  IN  /\ frame.len = n
      /\ pes.isVideo /\ frame # NoFrame => n > 0
      /\ \/ frame.buf = [i \in 1 .. n |-> <<frame.id, i>>]
         \/ frame.buf = [i \in 1 .. n |-> <<frame.id, i + 1>>]

(* "Encoder may sometimes emit an empty frame, swallow those here by        *)
(* skipping setFrame below" (1078).                                         *)
EmptyFramesSwallowed == frame # NoFrame => frame.len > 0

(* The first CCMod - 1 packets after a fault may be dropped, because CC is  *)
(* not updated by a packet that does not follow on and has to come round.   *)
(* No frame sent undisturbed after those is missed: it was handed on whole, *)
(* and before any packet of the next frame is consumed.                     *)
CalmFramesArrive ==
  inbox # << >> /\ ~StartsNext /\ Head(inbox).pusi /\ Head(inbox).s.owed =>
    frame.id = Head(inbox).s.id - 1 /\ frame.whole

(* Frames are handed on in the order they were sent, none of them twice.    *)
FramesInOrder == [][frame' # frame => frame'.id > frame.id]_vars

===============================================================================
