---------------------------- MODULE TsDemuxProofs -----------------------------
(***************************************************************************)
(* Proofs about the transport stream demultiplexer, for every size of the  *)
(* continuity counter and the buffer, any number and length of frames and  *)
(* any number of faults.                                                   *)
(***************************************************************************)
EXTENDS TsDemux, SequenceTheorems, TLAPS

-------------------------------------------------------------------------------
(* The continuity counter *)

(* How many packets are missing between one with counter a and one with c,  *)
(* as far as their counters tell.                                           *)
Gap(a, c) == IF c > a THEN c - a - 1 ELSE c - a - 1 + CCMod

Counters == 0 .. CCMod - 1

(* The counter of the next packet, and of the one after it.                 *)
LEMMA CounterSteps ==
  ASSUME NEW c \in Counters
  PROVE  /\ (c + 1) % CCMod = IF c + 1 < CCMod THEN c + 1 ELSE 0
         /\ (c + 2) % CCMod = IF c + 2 < CCMod THEN c + 2 ELSE c + 2 - CCMod
<1>1. CCMod \in Nat /\ CCMod >= 3
  BY TsAssumption DEF TsAssumption
<1>2. ASSUME NEW a \in Nat, a < CCMod
      PROVE  a % CCMod = a
  BY <1>1, <1>2
<1>3. ASSUME NEW a \in Nat, a >= CCMod, a < 2 * CCMod
      PROVE  a % CCMod = a - CCMod
  <2>1. /\ a = CCMod * (a \div CCMod) + (a % CCMod)
        /\ a \div CCMod \in Int /\ a % CCMod \in 0 .. CCMod - 1
    BY <1>1, <1>3
  <2>2. a \div CCMod >= 1
    BY <1>1, <1>3, <2>1
  <2>3. a \div CCMod <= 1
    BY <1>1, <1>3, <2>1
  <2>4. a \div CCMod = 1
    BY <2>1, <2>2, <2>3
  <2>5. CCMod * (a \div CCMod) = CCMod
    BY <2>4, <1>1
  <2>6. QED
    BY <2>1, <2>5, <1>1
<1>4. (c + 1) % CCMod = IF c + 1 < CCMod THEN c + 1 ELSE 0
  BY <1>1, <1>2, <1>3 DEF Counters
<1>5. (c + 2) % CCMod = IF c + 2 < CCMod THEN c + 2 ELSE c + 2 - CCMod
  BY <1>1, <1>2, <1>3 DEF Counters
<1>6. QED
  BY <1>4, <1>5

(* A packet further on has one more missing before it, until the counter    *)
(* comes round; none is missing when the counter follows on.                *)
LEMMA Gaps ==
  ASSUME NEW a \in Counters, NEW c \in Counters
  PROVE  /\ Gap(a, c) \in Counters
         /\ Gap(a, c) = 0 <=> (a + 1) % CCMod = c
         /\ (c + 1) % CCMod \in Counters
         /\ Gap(a, (c + 1) % CCMod) = IF Gap(a, c) = CCMod - 1 THEN 0 ELSE Gap(a, c) + 1
         /\ Gap(c, (c + 1) % CCMod) = 0 /\ Gap(c, (c + 2) % CCMod) = 1
         /\ Gap(c, c) # 0 /\ Gap((c + 1) % CCMod, c) # 0
         /\ (((c + 1) % CCMod) + 1) % CCMod = (c + 2) % CCMod
<1> DEFINE next == (c + 1) % CCMod
<1>1. CCMod \in Nat /\ CCMod >= 3
  BY TsAssumption DEF TsAssumption
<1>2. next = IF c + 1 < CCMod THEN c + 1 ELSE 0
  BY CounterSteps
<1>3. next \in Counters
  BY <1>1, <1>2 DEF Counters
<1>4. (next + 1) % CCMod = IF next + 1 < CCMod THEN next + 1 ELSE 0
  BY <1>3, CounterSteps
<1>5. /\ (a + 1) % CCMod = IF a + 1 < CCMod THEN a + 1 ELSE 0
      /\ (c + 2) % CCMod = IF c + 2 < CCMod THEN c + 2 ELSE c + 2 - CCMod
  BY CounterSteps
<1> HIDE DEF next
<1>6. /\ Gap(a, c) \in Counters
      /\ Gap(a, c) = 0 <=> (a + 1) % CCMod = c
  BY <1>1, <1>5 DEF Gap, Counters
<1>7. Gap(a, next) = IF Gap(a, c) = CCMod - 1 THEN 0 ELSE Gap(a, c) + 1
  BY <1>1, <1>2 DEF Gap, Counters
<1>8. /\ Gap(c, next) = 0 /\ Gap(c, (c + 2) % CCMod) = 1
      /\ Gap(c, c) # 0 /\ Gap(next, c) # 0
      /\ (next + 1) % CCMod = (c + 2) % CCMod
  BY <1>1, <1>2, <1>4, <1>5 DEF Gap, Counters
<1>9. QED
  BY <1>3, <1>6, <1>7, <1>8 DEF next

-------------------------------------------------------------------------------
(* Types *)

Sendable == [id : Nat, k : 1 .. MaxLen, cc : Counters, len : 1 .. MaxLen, end : Endings,
             headerOnly : BOOLEAN, calm : BOOLEAN, owed : BOOLEAN]
IsPacket(s) == s \in Sendable /\ s.k <= s.len

Buffers == Seq(Nat \X Nat)
Streams == [isVideo : BOOLEAN, CC : Counters \union {-1}, bufferPos : Nat, buf : Buffers,
            started : BOOLEAN, haveFrame : BOOLEAN, missedPacket : 0 .. 1,
            pesDataLen : 0 .. MaxLen, id : Nat, wanted : 0 .. MaxLen]
HandedOn == [id : Nat, buf : Buffers, len : 0 .. bufLen, whole : BOOLEAN]

(* The packets in the inbox, by what the sender was sending.                *)
Received == Seq([s : Sendable, pusi : BOOLEAN, cc : Counters])
First == inbox[1].s
Second == inbox[2].s

Types ==
  /\ IsPacket(src) /\ src.id \in 1 .. MaxSent + 2
  /\ inbox \in Received /\ Len(inbox) \in 0 .. 2
  /\ \A i \in 1 .. Len(inbox) : inbox[i] = Packet(inbox[i].s) /\ IsPacket(inbox[i].s)
  /\ faults \in 0 .. MaxFaults /\ lostRun \in 0 .. MaxBurst /\ quiet \in Counters
  /\ pes \in Streams
  /\ frame \in HandedOn

(* What a frame leaves in the buffer: n pieces of it, in order, which its   *)
(* header may precede in a packet of its own.                               *)
Skipped(x) == IF x.headerOnly THEN 1 ELSE 0
Fit(n) == IF n < bufLen THEN n ELSE bufLen
Run(id, n, skip) == [i \in 1 .. n |-> <<id, i + skip>>]
Declared(x) == IF x.end = "length" THEN Pieces(x) ELSE 0

(* Stream q holds the packets of x's frame up to the k-th.                  *)
HoldsUpTo(q, x, k) ==
  /\ q.id = x.id /\ q.wanted = Pieces(x) /\ q.pesDataLen = Declared(x)
  /\ q.bufferPos = k - Skipped(x)
  /\ q.buf = Run(x.id, Fit(q.bufferPos), Skipped(x))

(* A stream that has started holds the beginning of one frame.              *)
StreamOK(q) ==
  /\ ~q.started => q.bufferPos = 0 /\ q.buf = << >>
  /\ q.started =>
       /\ q.CC # -1 /\ q.missedPacket = 0 /\ q.bufferPos <= q.wanted
       /\ q.isVideo => q.bufferPos > 0
       /\ \E skip \in 0 .. 1 : q.buf = Run(q.id, Fit(q.bufferPos), skip)

(* ... which is newer than the frame handed on last, until it is handed on. *)
PesOK ==
  /\ StreamOK(pes)
  /\ frame.id <= pes.id
  /\ pes.started /\ pes.haveFrame => frame.id < pes.id

-------------------------------------------------------------------------------
(* The sender *)

(* Packet y is the one after x.                                             *)
Follows(y, x) ==
  /\ y.cc = (x.cc + 1) % CCMod
  /\ IF x.k < x.len
       THEN /\ y.id = x.id /\ y.k = x.k + 1
            /\ y.len = x.len /\ y.end = x.end /\ y.headerOnly = x.headerOnly
       ELSE y.id = x.id + 1 /\ y.k = 1

(* What the sender may send after x, in calm or not.                         *)
LEMMA AfterMoves ==
  ASSUME NEW x, IsPacket(x), NEW calm \in BOOLEAN, NEW y \in After(x, calm), Types
  PROVE  /\ IsPacket(y) /\ Follows(y, x)
         /\ y.id \in x.id .. x.id + 1 /\ (y.k = 1 => y.id = x.id + 1)
         /\ y.k > 1 /\ y.calm => x.calm /\ calm
         /\ y.k = 1 => /\ y.calm => calm /\ quiet + 1 >= CCMod - 1
                       /\ y.owed => x.calm /\ calm /\ Deliverable(x)
<1>1. /\ x.id \in Nat /\ x.k \in 1 .. MaxLen /\ x.cc \in Counters /\ x.len \in 1 .. MaxLen
      /\ x.end \in Endings /\ x.headerOnly \in BOOLEAN /\ x.calm \in BOOLEAN
      /\ x.owed \in BOOLEAN /\ x.k <= x.len
  BY DEF IsPacket, Sendable
<1>2. (x.cc + 1) % CCMod \in Counters
  BY <1>1, Gaps
<1>3. MaxLen \in Nat /\ pes.isVideo \in BOOLEAN
  BY TsAssumption DEF TsAssumption, Types, Streams
<1>4. CASE x.k < x.len
  <2>1. y = [x EXCEPT !.k = @ + 1, !.cc = (@ + 1) % CCMod, !.calm = @ /\ calm]
    BY <1>4 DEF After
  <2>2. /\ y.cc = (x.cc + 1) % CCMod /\ y.id = x.id /\ y.k = x.k + 1 /\ y.len = x.len
        /\ y.end = x.end /\ y.headerOnly = x.headerOnly /\ y.calm = (x.calm /\ calm)
    BY <2>1 DEF IsPacket, Sendable
  <2>3. y \in Sendable
    <3> DEFINE both == x.calm /\ calm
    <3>1. both \in BOOLEAN
      BY <1>1
    <3>2. y = [x EXCEPT !.k = x.k + 1, !.cc = (x.cc + 1) % CCMod, !.calm = both]
      BY <2>1 DEF IsPacket, Sendable
    <3>3. x.k + 1 \in 1 .. MaxLen
      BY <1>1, <1>3, <1>4
    <3> HIDE DEF both
    <3>4. QED
      BY <1>2, <3>1, <3>2, <3>3 DEF IsPacket, Sendable
  <2>4. QED
    BY <1>1, <1>4, <2>2, <2>3 DEF IsPacket, Follows
<1>5. CASE x.k = x.len
  <2> DEFINE free == calm /\ quiet + 1 >= CCMod - 1
             owed == x.calm /\ calm /\ Deliverable(x)
  <2>1. y \in AnyFrame(x.id + 1, (x.cc + 1) % CCMod, free, owed)
    BY <1>1, <1>5 DEF After, Frames
  <2>2. free \in BOOLEAN /\ owed \in BOOLEAN
    BY <1>1, <1>3 DEF Deliverable
  <2> HIDE DEF free, owed
  <2>3. /\ y.id = x.id + 1 /\ y.k = 1 /\ y.cc = (x.cc + 1) % CCMod
        /\ y.len \in 1 .. MaxLen /\ y.calm = free /\ y.owed = owed
    BY <2>1 DEF AnyFrame
  <2>4. y \in Sendable
    <3>1. /\ y = [id |-> y.id, k |-> y.k, cc |-> y.cc, len |-> y.len, end |-> y.end,
                  headerOnly |-> y.headerOnly, calm |-> y.calm, owed |-> y.owed]
          /\ y.end \in Endings /\ y.headerOnly \in BOOLEAN
      BY <2>1 DEF AnyFrame
    <3>2. y.id \in Nat /\ y.k \in 1 .. MaxLen
      BY <1>1, <1>3, <2>3
    <3>3. y.cc \in Counters /\ y.calm \in BOOLEAN /\ y.owed \in BOOLEAN
      BY <1>2, <2>2, <2>3
    <3>4. QED
      BY <2>3, <3>1, <3>2, <3>3 DEF Sendable
  <2>5. IsPacket(y) /\ Follows(y, x) /\ y.id \in x.id .. x.id + 1 /\ ~(y.k > 1)
    BY <1>1, <1>5, <2>3, <2>4 DEF IsPacket, Follows
  <2>6. /\ y.calm => calm /\ quiet + 1 >= CCMod - 1
        /\ y.owed => x.calm /\ calm /\ Deliverable(x)
    BY <2>3, Zenon DEF free, owed
  <2>7. QED
    BY <2>3, <2>5, <2>6, Zenon
<1>6. QED
  BY <1>1, <1>4, <1>5

(* A copy of a packet is a packet of the same kind.                         *)
LEMMA CopyMoves ==
  ASSUME NEW x, IsPacket(x)
  PROVE  LET y == NotOwed(x)
         IN  /\ IsPacket(y) /\ ~y.owed /\ y.id = x.id /\ y.k = x.k /\ y.cc = x.cc
             /\ y.len = x.len /\ y.end = x.end /\ y.headerOnly = x.headerOnly
             /\ y.calm = x.calm
  BY DEF NotOwed, IsPacket, Sendable

(* What the network puts into the inbox.                                    *)
LEMMA PacketTypes ==
  ASSUME NEW x, IsPacket(x)
  PROVE  /\ Packet(x) \in [s : Sendable, pusi : BOOLEAN, cc : Counters] /\ Packet(x).s = x
         /\ Packet(x).pusi = (x.k = 1) /\ Packet(x).cc = x.cc
BY DEF Packet, IsPacket, Sendable

(* One packet arrives.                                                      *)
LEMMA InboxOfOne ==
  ASSUME NEW x, IsPacket(x), inbox' = <<Packet(x)>>
  PROVE  /\ inbox' \in Received /\ Len(inbox') = 1 /\ First' = x
         /\ \A i \in 1 .. Len(inbox') : inbox'[i] = Packet(inbox'[i].s) /\ IsPacket(inbox'[i].s)
BY PacketTypes DEF Received, First

(* Two packets arrive.                                                      *)
LEMMA InboxOfTwo ==
  ASSUME NEW x, IsPacket(x), NEW y, IsPacket(y), inbox' = <<Packet(x), Packet(y)>>
  PROVE  /\ inbox' \in Received /\ Len(inbox') = 2 /\ First' = x /\ Second' = y
         /\ \A i \in 1 .. Len(inbox') : inbox'[i] = Packet(inbox'[i].s) /\ IsPacket(inbox'[i].s)
BY PacketTypes DEF Received, First, Second

(* What is left when a packet has been consumed.                            *)
LEMMA TailMoves ==
  ASSUME Types, inbox # << >>, inbox' = Tail(inbox)
  PROVE  /\ inbox' \in Received /\ Len(inbox) \in 1 .. 2 /\ Len(inbox') = Len(inbox) - 1
         /\ Head(inbox) = inbox[1] /\ inbox[1] = Packet(First) /\ IsPacket(First)
         /\ \A i \in 1 .. Len(inbox') : inbox'[i] = Packet(inbox'[i].s) /\ IsPacket(inbox'[i].s)
         /\ Len(inbox) = 2 => /\ inbox[2] = Packet(Second) /\ IsPacket(Second)
                              /\ First' = Second /\ inbox'[1] = inbox[2]
<1>1. /\ inbox \in Received /\ Len(inbox) \in 1 .. 2
      /\ \A i \in 1 .. Len(inbox) : inbox[i] = Packet(inbox[i].s) /\ IsPacket(inbox[i].s)
  BY EmptySeq DEF Types, Received
<1>2. /\ Head(inbox) = inbox[1] /\ Tail(inbox) \in Received
      /\ Len(Tail(inbox)) = Len(inbox) - 1
      /\ \A i \in 1 .. Len(Tail(inbox)) : Tail(inbox)[i] = inbox[i + 1]
  BY <1>1, HeadTailProperties DEF Received
<1>3. QED
  BY <1>1, <1>2 DEF First, Second

-------------------------------------------------------------------------------
(* The stream *)

(* A run of pieces has as many as it says, and one piece more extends it.   *)
LEMMA Runs ==
  ASSUME NEW id \in Nat, NEW n \in Nat, NEW skip \in 0 .. 1
  PROVE  /\ Run(id, n, skip) \in Buffers /\ Len(Run(id, n, skip)) = n
         /\ Run(id, 0, skip) = << >>
         /\ Append(Run(id, n, skip), <<id, n + 1 + skip>>) = Run(id, n + 1, skip)
<1> DEFINE e == <<id, n + 1 + skip>>
           a == Append(Run(id, n, skip), e)
<1>1. ASSUME NEW m \in Nat
      PROVE  /\ Run(id, m, skip) \in Seq(Nat \X Nat) /\ Len(Run(id, m, skip)) = m
             /\ \A i \in 1 .. m : Run(id, m, skip)[i] = <<id, i + skip>>
  BY DEF Run
<1>2. Run(id, 0, skip) = << >>
  BY <1>1, EmptySeq
<1>3. e \in Nat \X Nat
  OBVIOUS
<1>4. /\ a \in Seq(Nat \X Nat) /\ Len(a) = n + 1
      /\ \A i \in 1 .. n : a[i] = <<id, i + skip>>
      /\ a[n + 1] = e
  <2> HIDE DEF e
  <2>1. Run(id, n, skip) \in Seq(Nat \X Nat) /\ Len(Run(id, n, skip)) = n
    BY <1>1
  <2>2. /\ a \in Seq(Nat \X Nat) /\ Len(a) = n + 1
        /\ \A i \in 1 .. n : a[i] = Run(id, n, skip)[i]
        /\ a[n + 1] = e
    BY <1>3, <2>1, AppendProperties
  <2>3. QED
    BY <1>1, <2>2
<1> HIDE DEF a
<1>5. ASSUME NEW i \in 1 .. n + 1
      PROVE  a[i] = Run(id, n + 1, skip)[i]
  <2>1. Run(id, n + 1, skip)[i] = <<id, i + skip>>
    <3>1. n + 1 \in Nat
      OBVIOUS
    <3>2. QED
      BY <1>1, <3>1, Zenon
  <2>2. CASE i = n + 1
    BY <1>4, <2>1, <2>2
  <2>3. CASE i # n + 1
    <3>1. i \in 1 .. n
      BY <2>3
    <3>2. QED
      BY <1>4, <2>1, <3>1
  <2>4. QED
    BY <2>2, <2>3
<1>6. a = Run(id, n + 1, skip)
  <2>1. n + 1 \in Nat
    OBVIOUS
  <2>2. Run(id, n + 1, skip) \in Seq(Nat \X Nat) /\ Len(Run(id, n + 1, skip)) = n + 1
    BY <1>1, <2>1, Zenon
  <2>3. a \in Seq(Nat \X Nat) /\ Len(a) = Len(Run(id, n + 1, skip))
    BY <1>4, <2>2
  <2>4. \A i \in 1 .. Len(a) : a[i] = Run(id, n + 1, skip)[i]
    BY <1>4, <1>5
  <2>5. QED
    BY <2>2, <2>3, <2>4, SeqEqual, Zenon
<1>7. QED
  BY <1>1, <1>2, <1>6 DEF a, Buffers

(* A piece is stored while it fits, and counted in any case.                *)
LEMMA StoredMoves ==
  ASSUME NEW x, IsPacket(x), NEW q \in Streams, q.started, q.missedPacket = 0, q.CC # -1,
         HoldsUpTo(q, x, x.k - 1), x.k > 1 \/ ~x.headerOnly
  PROVE  LET r == Stored(q, Packet(x))
         IN  /\ r \in Streams /\ r.haveFrame /\ r.started /\ r.CC = q.CC
             /\ r.isVideo = q.isVideo /\ r.id = q.id /\ StreamOK(r) /\ HoldsUpTo(r, x, x.k)
<1> DEFINE n == q.bufferPos
           skip == Skipped(x)
           r == Stored(q, Packet(x))
           b == IF n < bufLen THEN Append(q.buf, <<x.id, x.k>>) ELSE q.buf
<1>1. /\ x.id \in Nat /\ x.k \in 1 .. MaxLen /\ x.len \in 1 .. MaxLen
      /\ x.headerOnly \in BOOLEAN /\ x.k <= x.len /\ MaxLen \in Nat /\ bufLen \in Nat \ {0}
  BY TsAssumption DEF IsPacket, Sendable, TsAssumption
<1>2. skip \in 0 .. 1 /\ n = x.k - 1 - skip /\ n \in Nat
      /\ q.wanted = x.len - skip
  BY <1>1 DEF HoldsUpTo, Skipped, Pieces, Streams
<1>3. r = [q EXCEPT !.haveFrame = TRUE, !.bufferPos = n + 1, !.buf = b]
  BY DEF Stored, Packet, Streams
<1>4. q.buf = Run(x.id, Fit(n), skip) /\ q.id = x.id
  BY DEF HoldsUpTo
<1> HIDE DEF skip, r, b
<1>5. b = Run(x.id, Fit(n + 1), skip) /\ b \in Buffers
  <2> HIDE DEF n
  <2>1. CASE n < bufLen
    <3>1. Fit(n) = n /\ Fit(n + 1) = n + 1 /\ x.k = n + 1 + skip
      BY <1>1, <1>2, <2>1 DEF Fit
    <3>2. /\ Append(Run(x.id, n, skip), <<x.id, n + 1 + skip>>) = Run(x.id, n + 1, skip)
          /\ Run(x.id, n + 1, skip) \in Buffers
      <4>1. n + 1 \in Nat
        BY <1>2
      <4>2. x.id \in Nat /\ n \in Nat /\ skip \in 0 .. 1
        BY <1>1, <1>2
      <4>3. Run(x.id, n + 1, skip) \in Buffers
        BY <4>1, <4>2, Runs, Zenon
      <4>4. Append(Run(x.id, n, skip), <<x.id, n + 1 + skip>>) = Run(x.id, n + 1, skip)
        BY <4>2, Runs
      <4>5. QED
        BY <4>3, <4>4
    <3>3. b = Append(Run(x.id, n, skip), <<x.id, x.k>>)
      BY <1>4, <2>1, <3>1 DEF b
    <3>4. QED
      BY <3>1, <3>2, <3>3
  <2>2. CASE ~(n < bufLen)
    <3>1. Fit(n) = bufLen /\ Fit(n + 1) = bufLen
      BY <1>1, <1>2, <2>2 DEF Fit
    <3>2. b = q.buf
      BY <2>2 DEF b
    <3>3. Run(x.id, bufLen, skip) \in Buffers
      <4>1. bufLen \in Nat
        BY <1>1
      <4>2. QED
        BY <1>1, <1>2, <4>1, Runs, Zenon
    <3>4. QED
      BY <1>4, <3>1, <3>2, <3>3
  <2>3. QED
    BY <2>1, <2>2
<1>6. /\ r \in Streams /\ r.haveFrame /\ r.started /\ r.CC = q.CC /\ r.isVideo = q.isVideo
      /\ r.id = q.id /\ r.bufferPos = n + 1 /\ r.buf = b /\ r.missedPacket = 0
      /\ r.wanted = q.wanted /\ r.pesDataLen = q.pesDataLen
  <2>1. n + 1 \in Nat /\ b \in Buffers
    BY <1>2, <1>5
  <2> HIDE DEF n
  <2>2. r = [isVideo |-> q.isVideo, CC |-> q.CC, bufferPos |-> n + 1, buf |-> b,
             started |-> q.started, haveFrame |-> TRUE, missedPacket |-> q.missedPacket,
             pesDataLen |-> q.pesDataLen, id |-> q.id, wanted |-> q.wanted]
    BY <1>3 DEF Streams
  <2>3. QED
    BY <2>1, <2>2 DEF Streams
<1>7. StreamOK(r)
  <2>1. r.bufferPos <= r.wanted /\ r.bufferPos > 0
    BY <1>1, <1>2, <1>6
  <2>2. r.buf = Run(r.id, Fit(r.bufferPos), skip)
    BY <1>4, <1>5, <1>6
  <2>3. QED
    BY <1>2, <1>6, <2>1, <2>2 DEF StreamOK
<1>8. HoldsUpTo(r, x, x.k)
  <2>1. r.bufferPos = x.k - skip
    BY <1>1, <1>2, <1>6
  <2>2. QED
    BY <1>4, <1>5, <1>6, <2>1 DEF HoldsUpTo, skip
<1>9. QED
  BY <1>6, <1>7, <1>8 DEF r

(* What the state of the stream is after a packet that follows on.          *)
LEMMA AppendedMoves ==
  ASSUME NEW x, IsPacket(x), pes \in Streams, StreamOK(pes),
         pes.started /\ x.k > 1 => HoldsUpTo(pes, x, x.k - 1)
  PROVE  LET q == Appended(Packet(x))
         IN  /\ q \in Streams /\ q.haveFrame /\ q.CC = x.cc /\ q.isVideo = pes.isVideo
             /\ StreamOK(q)
             /\ q.started => HoldsUpTo(q, x, x.k) /\ (x.k = 1 \/ pes.started)
             /\ x.k = 1 \/ pes.started => q.id = x.id
             /\ ~(x.k = 1 \/ pes.started) => q.id = pes.id /\ ~q.started
             /\ x.k = 1 /\ ~(pes.isVideo /\ x.headerOnly) => q.started
             /\ x.k > 1 /\ pes.started => q.started
<1> DEFINE p == Packet(x)
           q == Appended(p)
<1>1. /\ x.id \in Nat /\ x.k \in 1 .. MaxLen /\ x.len \in 1 .. MaxLen /\ x.cc \in Counters
      /\ x.headerOnly \in BOOLEAN /\ x.k <= x.len /\ MaxLen \in Nat /\ bufLen \in Nat \ {0}
      /\ x.cc # -1
  BY TsAssumption DEF IsPacket, Sendable, TsAssumption, Counters
<1>2. p.s = x /\ p.pusi = (x.k = 1) /\ p.cc = x.cc
  BY DEF Packet
<1>3. CASE x.k = 1
  <2> DEFINE s == Started(p)
  <2>1. Pieces(x) \in 0 .. MaxLen /\ Declared(x) \in 0 .. MaxLen
    BY <1>1 DEF Pieces, Declared
  <2>2. s = [pes EXCEPT !.CC = x.cc, !.bufferPos = 0, !.buf = << >>, !.started = TRUE,
                        !.missedPacket = 0, !.id = x.id, !.wanted = Pieces(x),
                        !.pesDataLen = Declared(x)]
    BY <1>2 DEF Started, Declared
  <2>3. << >> \in Buffers
    BY DEF Buffers
  <2> HIDE DEF s
  <2>4. /\ s \in Streams /\ s.CC = x.cc /\ s.bufferPos = 0 /\ s.buf = << >> /\ s.started
        /\ s.missedPacket = 0 /\ s.id = x.id /\ s.wanted = Pieces(x)
        /\ s.pesDataLen = Declared(x) /\ s.isVideo = pes.isVideo
    <3>1. s = [isVideo |-> pes.isVideo, CC |-> x.cc, bufferPos |-> 0, buf |-> << >>,
               started |-> TRUE, haveFrame |-> pes.haveFrame, missedPacket |-> 0,
               pesDataLen |-> Declared(x), id |-> x.id, wanted |-> Pieces(x)]
      BY <2>2 DEF Streams
    <3>2. QED
      BY <1>1, <2>1, <2>3, <3>1 DEF Streams
  <2>5. q = IF ~x.headerOnly THEN Stored(s, p)
            ELSE IF s.isVideo
            THEN [s EXCEPT !.haveFrame = TRUE, !.bufferPos = 0, !.started = FALSE]
            ELSE [s EXCEPT !.haveFrame = TRUE]
    BY <1>2, <1>3, <2>4 DEF Appended, HeaderFills, s
  <2> HIDE DEF p, q
  <2>6. Fit(0) = 0
    BY <1>1 DEF Fit
  <2>11. ~(x.k > 1)
    BY <1>3
  <2>7. CASE ~x.headerOnly
    <3>1. HoldsUpTo(s, x, x.k - 1)
      <4>1. Run(x.id, 0, 0) = << >>
        <5>1. 0 \in Nat /\ 0 \in 0 .. 1
          OBVIOUS
        <5>2. QED
          BY <1>1, <5>1, Runs, Zenon
      <4>2. Skipped(x) = 0 /\ x.k - 1 - 0 = 0
        BY <1>3, <2>7 DEF Skipped
      <4>3. QED
        BY <2>4, <2>6, <4>1, <4>2 DEF HoldsUpTo
    <3>2. q = Stored(s, p)
      BY <2>5, <2>7
    <3>3. QED
      BY <1>1, <1>3, <2>4, <2>7, <3>1, <3>2, StoredMoves DEF p, q
  <2>8. CASE x.headerOnly /\ s.isVideo
    <3>1. q = [s EXCEPT !.haveFrame = TRUE, !.bufferPos = 0, !.started = FALSE]
      BY <2>5, <2>8
    <3>2. /\ q \in Streams /\ q.haveFrame /\ q.CC = x.cc /\ q.isVideo = pes.isVideo
          /\ ~q.started /\ q.bufferPos = 0 /\ q.buf = << >> /\ q.id = x.id
      BY <2>4, <3>1 DEF Streams
    <3>3. QED
      BY <1>3, <2>4, <2>8, <2>11, <3>2, Zenon DEF StreamOK, p, q
  <2>9. CASE x.headerOnly /\ ~s.isVideo
    <3>1. q = [s EXCEPT !.haveFrame = TRUE]
      BY <2>5, <2>9
    <3>2. /\ q \in Streams /\ q.haveFrame /\ q.CC = x.cc /\ q.isVideo = pes.isVideo
          /\ q.started /\ q.bufferPos = 0 /\ q.buf = << >> /\ q.id = x.id
          /\ q.wanted = Pieces(x) /\ q.pesDataLen = Declared(x) /\ q.missedPacket = 0
      BY <2>4, <3>1 DEF Streams
    <3>3. q.buf = Run(x.id, Fit(q.bufferPos), 1)
      <4>1. Run(x.id, 0, 1) = << >>
        <5>1. 0 \in Nat /\ 1 \in 0 .. 1
          OBVIOUS
        <5>2. QED
          BY <1>1, <5>1, Runs, Zenon
      <4>2. QED
        BY <2>6, <3>2, <4>1
    <3>4. HoldsUpTo(q, x, x.k)
      BY <1>1, <1>3, <2>9, <3>2, <3>3 DEF HoldsUpTo, Skipped
    <3>5. StreamOK(q)
      BY <1>1, <2>1, <2>4, <2>9, <3>2, <3>3 DEF StreamOK
    <3>6. QED
      BY <1>1, <1>3, <2>4, <3>2, <3>4, <3>5 DEF p, q
  <2>10. QED
    BY <2>7, <2>8, <2>9
<1>4. CASE x.k > 1
  <2> DEFINE s == [pes EXCEPT !.CC = x.cc]
  <2>1. /\ s \in Streams /\ s.CC = x.cc /\ s.bufferPos = pes.bufferPos /\ s.buf = pes.buf
        /\ s.started = pes.started /\ s.missedPacket = pes.missedPacket /\ s.id = pes.id
        /\ s.wanted = pes.wanted /\ s.pesDataLen = pes.pesDataLen
        /\ s.isVideo = pes.isVideo
    BY <1>1 DEF Streams
  <2>2. q = IF ~s.started THEN [s EXCEPT !.haveFrame = TRUE] ELSE Stored(s, p)
    <3>1. x.k # 1
      BY <1>1, <1>4
    <3>2. ~p.pusi
      BY <1>2, <3>1, Zenon
    <3>3. ~HeaderFills(p)
      BY <3>2, Zenon DEF HeaderFills
    <3>4. Appended(p) = LET t == [pes EXCEPT !.CC = p.cc]
                        IN  IF ~t.started THEN [t EXCEPT !.haveFrame = TRUE]
                            ELSE Stored(t, p)
      BY <3>2, <3>3 DEF Appended
    <3>5. QED
      BY <1>2, <3>4
  <2> HIDE DEF p, q, s
  <2>3. CASE pes.started
    <3>1. HoldsUpTo(s, x, x.k - 1)
      BY <1>4, <2>1, <2>3 DEF HoldsUpTo
    <3>2. s.missedPacket = 0
      BY <2>1, <2>3 DEF StreamOK
    <3>3. q = Stored(s, p)
      BY <2>1, <2>2, <2>3
    <3>4. s.id = x.id
      BY <3>1 DEF HoldsUpTo
    <3>5. QED
      <4>1. s.started /\ s.CC # -1 /\ x.k # 1
        BY <1>1, <1>4, <2>1, <2>3
      <4>2. /\ q \in Streams /\ q.haveFrame /\ q.started /\ q.CC = s.CC
            /\ q.isVideo = s.isVideo /\ q.id = s.id /\ StreamOK(q) /\ HoldsUpTo(q, x, x.k)
        BY <1>4, <2>1, <3>1, <3>2, <3>3, <4>1, StoredMoves, Zenon DEF p
      <4>3. QED
        BY <1>4, <2>1, <2>3, <3>4, <4>1, <4>2, Zenon DEF p, q
  <2>4. CASE ~pes.started
    <3>1. q = [s EXCEPT !.haveFrame = TRUE]
      BY <2>1, <2>2, <2>4
    <3>2. /\ q \in Streams /\ q.haveFrame /\ q.CC = x.cc /\ q.isVideo = pes.isVideo
          /\ ~q.started /\ q.bufferPos = pes.bufferPos /\ q.buf = pes.buf /\ q.id = pes.id
      BY <2>1, <2>4, <3>1 DEF Streams
    <3>3. QED
      BY <1>1, <1>4, <2>4, <3>2 DEF StreamOK, p, q
  <2>5. QED
    BY <2>3, <2>4
<1>5. QED
  BY <1>1, <1>3, <1>4

(* What is handed on is what the stream holds, in one piece.                *)
LEMMA EmitMoves ==
  ASSUME NEW q \in Streams, StreamOK(q), q.started, q.haveFrame, q.isVideo = pes.isVideo,
         frame \in HandedOn, frame.id < q.id, DeliveredIsIntact, Emit(q)
  PROVE  /\ pes' \in Streams /\ frame' \in HandedOn /\ PesOK' /\ DeliveredIsIntact'
         /\ pes'.isVideo = q.isVideo /\ pes'.CC = q.CC /\ pes'.started /\ pes'.id = q.id
         /\ pes'.bufferPos = q.bufferPos /\ pes'.wanted = q.wanted
         /\ frame' # frame => frame'.id > frame.id
         /\ q.bufferPos <= bufLen /\ q.bufferPos = q.wanted =>
              frame'.id = pes'.id /\ frame'.whole
<1>1. /\ q.bufferPos \in Nat /\ q.buf \in Buffers /\ q.id \in Nat /\ bufLen \in Nat \ {0}
      /\ q.wanted \in Nat /\ q.missedPacket = 0 /\ frame.id \in Nat
  BY TsAssumption DEF Streams, StreamOK, HandedOn, TsAssumption
<1>2. PICK skip \in 0 .. 1 : q.buf = Run(q.id, Fit(q.bufferPos), skip)
  BY DEF StreamOK
<1>3. /\ pes' \in Streams /\ pes'.isVideo = q.isVideo /\ pes'.CC = q.CC /\ pes'.started
      /\ pes'.id = q.id /\ pes'.bufferPos = q.bufferPos /\ pes'.wanted = q.wanted
      /\ pes'.buf = q.buf /\ pes'.missedPacket = 0 /\ ~pes'.haveFrame
  BY <1>1 DEF Emit, Streams
<1>4. StreamOK(pes')
  BY <1>3 DEF StreamOK
<1>5. CASE q.bufferPos <= bufLen
  <2> DEFINE n == q.bufferPos
             f == [id |-> q.id, buf |-> q.buf, len |-> n, whole |-> n = q.wanted]
  <2>1. frame' = f
    BY <1>1, <1>5 DEF Emit, Acceptable
  <2>2. f \in HandedOn
    <3>1. (n = q.wanted) \in BOOLEAN /\ n \in 0 .. bufLen
      BY <1>1, <1>5
    <3>2. QED
      BY <1>1, <3>1 DEF HandedOn
  <2>3. f.id = q.id /\ f.buf = q.buf /\ f.len = n /\ f.whole = (n = q.wanted)
    OBVIOUS
  <2> HIDE DEF f
  <2>4. q.buf = Run(q.id, n, skip)
    BY <1>1, <1>2, <1>5 DEF Fit
  <2>5. Len(q.buf) = n
    <3>1. Len(Run(q.id, n, skip)) = n
      <4>1. n \in Nat /\ q.id \in Nat /\ skip \in 0 .. 1
        BY <1>1, <1>2
      <4> HIDE DEF n
      <4>2. QED
        BY <4>1, Runs
    <3>2. QED
      BY <2>4, <3>1
  <2>6. \/ q.buf = [i \in 1 .. n |-> <<q.id, i>>]
        \/ q.buf = [i \in 1 .. n |-> <<q.id, i + 1>>]
    <3>1. CASE skip = 0
      <4>1. \A i \in 1 .. n : i + 0 = i
        BY <1>1
      <4>2. QED
        BY <2>4, <3>1, <4>1 DEF Run
    <3>2. CASE skip = 1
      BY <2>4, <3>2 DEF Run
    <3>3. QED
      BY <1>2, <3>1, <3>2
  <2>7. pes'.isVideo => n > 0
    BY <1>3 DEF StreamOK
  <2>8. DeliveredIsIntact'
    BY <2>1, <2>3, <2>5, <2>6, <2>7 DEF DeliveredIsIntact
  <2>9. PesOK'
    BY <1>1, <1>3, <1>4, <2>1, <2>3 DEF PesOK, StreamOK
  <2>10. QED
    BY <1>1, <1>3, <2>1, <2>2, <2>3, <2>8, <2>9
<1>6. CASE ~(q.bufferPos <= bufLen)
  <2>1. frame' = frame
    BY <1>6 DEF Emit, Acceptable
  <2>2. DeliveredIsIntact'
    BY <1>3, <2>1 DEF DeliveredIsIntact
  <2>3. PesOK'
    BY <1>1, <1>3, <1>4, <2>1 DEF PesOK, StreamOK
  <2>4. QED
    BY <1>3, <1>6, <2>1, <2>2, <2>3
<1>7. QED
  BY <1>5, <1>6

(* A packet that follows on is added to what the stream holds of its frame. *)
LEMMA PacketMoves ==
  ASSUME Types, PesOK, DeliveredIsIntact, DemuxPacket, NEW x, x = First,
         pes.id <= x.id, x.k = 1 => pes.id < x.id,
         pes.started /\ x.k > 1 => HoldsUpTo(pes, x, x.k - 1) /\ pes.haveFrame
  PROVE  /\ pes' \in Streams /\ frame' \in HandedOn /\ PesOK' /\ DeliveredIsIntact'
         /\ frame' # frame => frame'.id > frame.id
         /\ pes'.CC = x.cc /\ pes'.isVideo = pes.isVideo /\ pes'.id <= x.id
         /\ pes'.started =>
              /\ x.k = 1 \/ pes.started
              /\ x.k < x.len => HoldsUpTo(pes', x, x.k) /\ pes'.haveFrame
              /\ x.k = x.len =>
                   /\ pes'.id = x.id /\ pes'.wanted = Pieces(x)
                   /\ pes'.bufferPos = pes'.wanted
                   /\ pes'.wanted <= bufLen =>
                        pes'.haveFrame \/ (frame'.id = pes'.id /\ frame'.whole)
         /\ x.k = 1 /\ ~(pes.isVideo /\ x.headerOnly) => pes'.started
         /\ x.k > 1 /\ pes.started => pes'.started
<1> DEFINE p == Packet(x)
           q == Appended(p)
<1>1. /\ IsPacket(x) /\ Head(inbox) = p /\ InOrder(p)
  BY TailMoves DEF DemuxPacket, p
<1>2. /\ x.id \in Nat /\ x.k \in 1 .. MaxLen /\ x.len \in 1 .. MaxLen /\ x.k <= x.len
      /\ x.headerOnly \in BOOLEAN /\ pes \in Streams /\ pes.id \in Nat /\ frame \in HandedOn
      /\ frame.id \in Nat /\ frame.id <= pes.id /\ p.s = x /\ p.pusi = (x.k = 1)
  BY <1>1 DEF IsPacket, Sendable, Types, Streams, HandedOn, PesOK, Packet
<1>3. /\ q \in Streams /\ q.haveFrame /\ q.CC = x.cc /\ q.isVideo = pes.isVideo
      /\ StreamOK(q)
      /\ q.started => HoldsUpTo(q, x, x.k) /\ (x.k = 1 \/ pes.started)
      /\ x.k = 1 \/ pes.started => q.id = x.id
      /\ ~(x.k = 1 \/ pes.started) => q.id = pes.id /\ ~q.started
      /\ x.k = 1 /\ ~(pes.isVideo /\ x.headerOnly) => q.started
      /\ x.k > 1 /\ pes.started => q.started
  BY <1>1, <1>2, AppendedMoves DEF PesOK
<1>4. IF Complete(q, p) THEN Emit([q EXCEPT !.haveFrame = TRUE])
      ELSE pes' = q /\ frame' = frame
  BY <1>1 DEF DemuxPacket
<1> HIDE DEF p, q
<1>5. q.id <= x.id /\ frame.id <= q.id
  BY <1>2, <1>3
<1>6. q.started => frame.id < q.id
  <2>1. CASE x.k = 1
    BY <1>2, <1>3, <2>1
  <2>2. CASE x.k > 1 /\ pes.started
    BY <1>2, <1>3, <2>2 DEF PesOK, HoldsUpTo
  <2>3. QED
    BY <1>2, <1>3, <2>1, <2>2
<1>7. CASE Complete(q, p)
  <2>1. q.bufferPos > 0 /\ q.started
    BY <1>3, <1>7 DEF Complete, StreamOK
  <2>2. HoldsUpTo(q, x, x.k)
    BY <1>3, <2>1
  <2>3. x.k = x.len
    <3>1. CASE x.end = "stuffing" /\ x.k = x.len
      BY <3>1
    <3>2. CASE q.bufferPos = q.pesDataLen /\ q.pesDataLen # 0
      BY <1>2, <2>2, <3>2 DEF HoldsUpTo, Declared, Pieces, Skipped
    <3>3. QED
      BY <1>2, <1>7, <3>1, <3>2 DEF Complete
  <2>4. q.wanted = Pieces(x) /\ q.bufferPos = q.wanted /\ q.id = x.id
    BY <1>2, <2>2, <2>3 DEF HoldsUpTo, Pieces, Skipped
  <2>5. [q EXCEPT !.haveFrame = TRUE] = q
    BY <1>3 DEF Streams
  <2>6. Emit(q)
    BY <1>4, <1>7, <2>5
  <2>7. /\ pes' \in Streams /\ frame' \in HandedOn /\ PesOK' /\ DeliveredIsIntact'
        /\ pes'.isVideo = q.isVideo /\ pes'.CC = q.CC /\ pes'.started /\ pes'.id = q.id
        /\ pes'.bufferPos = q.bufferPos /\ pes'.wanted = q.wanted
        /\ frame' # frame => frame'.id > frame.id
        /\ q.bufferPos <= bufLen /\ q.bufferPos = q.wanted => frame'.id = pes'.id /\ frame'.whole
    BY <1>2, <1>3, <1>6, <2>1, <2>6, EmitMoves, Zenon
  <2>8. ~(x.k < x.len) /\ pes'.id <= x.id
    BY <1>2, <2>3, <2>4, <2>7
  <2>9. pes'.wanted <= bufLen => frame'.id = pes'.id /\ frame'.whole
    BY <2>4, <2>7
  <2>10. QED
    BY <1>3, <2>1, <2>4, <2>7, <2>8, <2>9, Zenon
<1>8. CASE ~Complete(q, p)
  <2>1. pes' = q /\ frame' = frame
    BY <1>4, <1>8
  <2>2. PesOK'
    BY <1>3, <1>5, <1>6, <2>1 DEF PesOK
  <2>3. DeliveredIsIntact'
    BY <1>3, <2>1 DEF DeliveredIsIntact
  <2>4. x.k = x.len /\ q.started => q.id = x.id /\ q.wanted = Pieces(x) /\ q.bufferPos = q.wanted
    BY <1>2, <1>3 DEF HoldsUpTo, Pieces, Skipped
  <2>5. QED
    BY <1>2, <1>3, <1>5, <2>1, <2>2, <2>3, <2>4, Zenon
<1>9. QED
  BY <1>7, <1>8

-------------------------------------------------------------------------------
(* The packets under way *)

(* Stream q has nothing of x's frame, or of an earlier one, that is after x. *)
Ordered(q, x) == q.id <= x.id /\ (x.k = 1 => q.id < x.id)

(* Packet x is the next one for stream q, and the network has not disturbed *)
(* it.  After n quiet packets it follows on, or is still n short of where   *)
(* the counter comes round.  A stream that has started misses at most g     *)
(* packets before it, fewer than the counter can hide, and if none, holds   *)
(* what comes before x.  If the frame before x is owed, it was handed on,   *)
(* as f, or it will be.                                                     *)
Waiting(q, f, x, n, g) ==
  LET gap == Gap(q.CC, x.cc)
  IN  /\ Ordered(q, x)
      /\ q.CC # -1 => gap = 0 \/ gap >= n
      /\ q.started => gap <= g
      /\ q.started /\ gap = 0 /\ x.k > 1 => HoldsUpTo(q, x, x.k - 1) /\ q.haveFrame
      /\ x.calm => q.CC = -1 \/ gap = 0
      /\ x.calm /\ x.k > 1 /\ ~(q.isVideo /\ x.headerOnly) => q.started
      /\ x.owed /\ x.k = 1 =>
           /\ q.started /\ gap = 0 /\ q.id = x.id - 1
           /\ q.bufferPos = q.wanted /\ q.wanted <= bufLen
           /\ q.haveFrame \/ (f.id = q.id /\ f.whole)

(* A fault has just ended the calm.                                         *)
Disturbed == quiet = 0 /\ lostRun = 0 /\ ~src.calm /\ (src.k = 1 => ~src.owed)

Arrived ==
  /\ Waiting(pes, frame, First, quiet, MaxBurst + 1) /\ Follows(src, First) /\ lostRun = 0
  /\ src.calm /\ src.k > 1 => First.calm
  /\ src.owed /\ src.k = 1 => First.calm /\ Deliverable(First)

(* The two copies of a packet, and the second when the first is gone.       *)
Twice ==
  /\ Disturbed /\ Follows(src, First)
  /\ Second = NotOwed(First) /\ Waiting(pes, frame, First, 0, MaxBurst + 1)
Again ==
  /\ Disturbed /\ Follows(src, First) /\ Ordered(pes, src)
  /\ ~InOrder(inbox[1]) /\ ~First.owed

(* Two packets in the wrong order, and the earlier one when the later is    *)
(* gone: only one of them can follow on, and the later one only in a stream *)
(* that has not started.                                                    *)
Swapped ==
  /\ Disturbed /\ Follows(First, Second) /\ Follows(src, First)
  /\ ~First.owed /\ ~Second.owed /\ Ordered(pes, Second)
  /\ pes.started => ~InOrder(inbox[1])
Late ==
  /\ Disturbed /\ ~First.owed
  /\ src.cc = (First.cc + 2) % CCMod /\ Ordered(pes, src)
  /\ First.id <= src.id /\ (src.k = 1 => First.id < src.id)
  /\ ~InOrder(inbox[1]) \/ (~pes.started /\ Ordered(pes, First))

UnderWay ==
  /\ Len(inbox) = 0 => Waiting(pes, frame, src, quiet + 1, lostRun + 1)
  /\ Len(inbox) = 1 => Arrived \/ Again \/ Late
  /\ Len(inbox) = 2 => Twice \/ Swapped

CalmIsQuiet == src.calm => quiet = CCMod - 1

DemuxInv == Types /\ PesOK /\ UnderWay /\ CalmIsQuiet /\ DeliveredIsIntact

-------------------------------------------------------------------------------
(* The network *)

(* A packet is in order when its counter says that none is missing.         *)
LEMMA InOrders ==
  ASSUME Types, NEW x, IsPacket(x)
  PROVE  /\ InOrder(Packet(x)) <=> pes.CC = -1 \/ Gap(pes.CC, x.cc) = 0
         /\ pes.CC # -1 => pes.CC \in Counters /\ Gap(pes.CC, x.cc) \in Counters
<1>1. x.cc \in Counters /\ Packet(x).cc = x.cc /\ pes.CC \in Counters \union {-1}
  BY DEF IsPacket, Sendable, Packet, Types, Streams
<1>2. -1 \notin Counters
  BY TsAssumption DEF TsAssumption, Counters
<1>3. InOrder(Packet(x)) <=> pes.CC = -1 \/ (pes.CC + 1) % CCMod = x.cc
  BY <1>1 DEF InOrder
<1>4. CASE pes.CC \in Counters
  <2>1. /\ Gap(pes.CC, x.cc) \in Counters
        /\ Gap(pes.CC, x.cc) = 0 <=> (pes.CC + 1) % CCMod = x.cc
    BY <1>1, <1>4, Gaps
  <2>2. QED
    BY <1>3, <1>4, <2>1
<1>5. QED
  BY <1>1, <1>3, <1>4

(* A stream that is in order before a packet is so before the next.         *)
LEMMA OrderKept ==
  ASSUME NEW q \in Streams, NEW x, IsPacket(x), NEW y, IsPacket(y), Follows(y, x), Ordered(q, x)
  PROVE  Ordered(q, y) /\ x.id <= y.id /\ (y.k = 1 => x.id < y.id)
<1>1. /\ x.id \in Nat /\ y.id \in Nat /\ x.k \in 1 .. MaxLen /\ y.k \in 1 .. MaxLen
      /\ q.id \in Nat /\ MaxLen \in Nat
  BY TsAssumption DEF TsAssumption, Streams, IsPacket, Sendable
<1>2. QED
  BY <1>1 DEF Ordered, Follows

(* The numbers of a state.                                                  *)
LEMMA Bounds ==
  ASSUME Types
  PROVE  /\ CCMod \in Nat /\ CCMod >= 3 /\ MaxBurst \in 0 .. CCMod - 3 /\ bufLen \in Nat \ {0}
         /\ MaxFaults \in Nat /\ MaxSent \in Nat /\ MaxLen \in Nat \ {0}
         /\ lostRun \in 0 .. MaxBurst /\ quiet \in 0 .. CCMod - 1 /\ faults \in 0 .. MaxFaults
         /\ src.id \in Nat /\ src.id >= 1
BY TsAssumption DEF TsAssumption, Types, IsPacket, Sendable, Counters

(* The packet that is sent next.                                            *)
LEMMA SrcTypes ==
  ASSUME Types
  PROVE  /\ IsPacket(src) /\ src.id \in Nat /\ src.k \in 1 .. MaxLen /\ src.cc \in Counters
         /\ src.len \in 1 .. MaxLen /\ src.calm \in BOOLEAN /\ src.owed \in BOOLEAN
         /\ src.headerOnly \in BOOLEAN /\ src.k <= src.len
BY DEF Types, IsPacket, Sendable

(* A step moves the sender past two frames at most.                         *)
LEMMA IdBounds ==
  ASSUME Types, NEW i, NEW j, src.id <= MaxSent, i \in src.id .. src.id + 1, j \in i .. i + 1
  PROVE  i \in 1 .. MaxSent + 2 /\ j \in 1 .. MaxSent + 2
<1>1. src.id \in Nat /\ src.id >= 1 /\ MaxSent \in Nat
  BY Bounds
<1>2. QED
  BY <1>1

(* The gap before the packet after x.                                       *)
LEMMA GapMoves ==
  ASSUME Types, NEW x, IsPacket(x), NEW c, c = (x.cc + 1) % CCMod, pes.CC # -1
  PROVE  /\ Gap(pes.CC, x.cc) \in Counters
         /\ Gap(pes.CC, c) = IF Gap(pes.CC, x.cc) = CCMod - 1 THEN 0
                             ELSE Gap(pes.CC, x.cc) + 1
<1>1. x.cc \in Counters /\ pes.CC \in Counters
  BY DEF IsPacket, Sendable, Types, Streams
<1>2. QED
  BY <1>1, Gaps

(* A packet that arrives is the one the stream waits for.                   *)
LEMMA ArriveKeeps ==
  ASSUME DemuxInv, Arrive
  PROVE  DemuxInv'
<1> USE DEF DemuxInv
<1>1. /\ inbox = << >> /\ src.id <= MaxSent /\ inbox' = <<Packet(src)>>
      /\ quiet' = IF quiet < CCMod - 1 THEN quiet + 1 ELSE quiet
      /\ src' \in After(src, TRUE) /\ lostRun' = 0 /\ faults' = faults
      /\ pes' = pes /\ frame' = frame
  BY DEF Arrive, CanSend
<1>2. /\ IsPacket(src') /\ Follows(src', src) /\ src'.id \in src.id .. src.id + 1
      /\ src'.k > 1 /\ src'.calm => src.calm
      /\ src'.k = 1 => /\ src'.calm => quiet + 1 >= CCMod - 1
                       /\ src'.owed => src.calm /\ Deliverable(src)
  BY <1>1, SrcTypes, AfterMoves
<1>3. /\ inbox' \in Received /\ Len(inbox') = 1 /\ First' = src
      /\ \A i \in 1 .. Len(inbox') : inbox'[i] = Packet(inbox'[i].s) /\ IsPacket(inbox'[i].s)
  BY <1>1, SrcTypes, InboxOfOne
<1>4. src'.k \in Nat /\ src'.k >= 1 /\ src'.calm \in BOOLEAN /\ src'.id \in Nat
  BY <1>2, SrcTypes DEF IsPacket, Sendable
<1>5. /\ quiet' \in 0 .. CCMod - 1 /\ quiet' <= quiet + 1
      /\ quiet + 1 >= CCMod - 1 => quiet' = CCMod - 1
      /\ quiet = CCMod - 1 => quiet' = CCMod - 1
      /\ lostRun' \in 0 .. MaxBurst
  <2>1. quiet' = (IF quiet < CCMod - 1 THEN quiet + 1 ELSE quiet) /\ lostRun' = 0
    BY <1>1
  <2>2. CCMod \in Nat /\ CCMod >= 3 /\ quiet \in 0 .. CCMod - 1 /\ MaxBurst \in Nat
    BY Bounds
  <2>3. QED
    BY <2>1, <2>2
<1>6. Types'
  <2>1. src'.id \in 1 .. MaxSent + 2
    <3>1. src'.id \in src.id .. src.id + 1
      BY <1>2
    <3>2. src'.id \in src'.id .. src'.id + 1
      BY <1>4
    <3>3. QED
      BY <1>1, <3>1, <3>2, IdBounds
  <2>2. pes' \in Streams /\ frame' \in HandedOn /\ faults' \in 0 .. MaxFaults
    BY <1>1 DEF Types
  <2>3. QED
    BY <1>2, <1>3, <1>5, <2>1, <2>2 DEF Types, Counters
<1>7. CalmIsQuiet'
  <2>1. CASE src'.k > 1
    BY <1>2, <1>5, <2>1 DEF CalmIsQuiet
  <2>2. CASE src'.k = 1
    BY <1>2, <1>5, <2>2 DEF CalmIsQuiet
  <2>3. QED
    BY <1>4, <2>1, <2>2
<1>8. Waiting(pes, frame, src, quiet + 1, lostRun + 1)
  BY <1>1, EmptySeq DEF UnderWay
<1>9. Waiting(pes, frame, src, quiet', MaxBurst + 1)
  <2>1. pes.CC # -1 => Gap(pes.CC, src.cc) \in Counters
    BY InOrders, SrcTypes
  <2>2. pes.started => pes.CC # -1
    BY DEF PesOK, StreamOK
  <2>3. pes.CC # -1 => Gap(pes.CC, src.cc) = 0 \/ Gap(pes.CC, src.cc) >= quiet + 1
    BY <1>8 DEF Waiting
  <2>4. pes.CC # -1 => Gap(pes.CC, src.cc) = 0 \/ Gap(pes.CC, src.cc) >= quiet'
    <3>1. SUFFICES ASSUME pes.CC # -1, Gap(pes.CC, src.cc) # 0
                   PROVE  Gap(pes.CC, src.cc) >= quiet'
      OBVIOUS
    <3>2. Gap(pes.CC, src.cc) \in Int /\ Gap(pes.CC, src.cc) >= quiet + 1
      BY <2>1, <2>3, <3>1 DEF Counters
    <3>3. quiet \in Int /\ quiet' \in Int /\ quiet' <= quiet + 1
      BY <1>5, Bounds
    <3>4. QED
      BY <3>2, <3>3
  <2>5. pes.started => Gap(pes.CC, src.cc) <= lostRun + 1
    BY <1>8 DEF Waiting
  <2>6. pes.started => Gap(pes.CC, src.cc) <= MaxBurst + 1
    BY <2>1, <2>2, <2>5, Bounds DEF Counters
  <2>7. QED
    BY <1>8, <2>4, <2>6, Zenon DEF Waiting
<1>10. Arrived'
  BY <1>1, <1>2, <1>3, <1>9 DEF Arrived, Deliverable
<1>11. PesOK' /\ DeliveredIsIntact'
  BY <1>1 DEF PesOK, DeliveredIsIntact
<1>12. QED
  BY <1>3, <1>6, <1>7, <1>10, <1>11 DEF UnderWay

(* A lost packet leaves a gap no longer than its burst and one swap.        *)
LEMMA LoseKeeps ==
  ASSUME DemuxInv, Lose
  PROVE  DemuxInv'
<1> USE DEF DemuxInv
<1>1. /\ inbox = << >> /\ src.id <= MaxSent /\ inbox' = inbox /\ lostRun < MaxBurst
      /\ lostRun > 0 \/ faults < MaxFaults
      /\ faults' = IF lostRun = 0 THEN faults + 1 ELSE faults
      /\ lostRun' = lostRun + 1 /\ quiet' = 0
      /\ src' \in After(src, FALSE) /\ pes' = pes /\ frame' = frame
  BY DEF Lose, CanSend
<1>2. /\ IsPacket(src') /\ Follows(src', src) /\ ~src'.calm /\ (src'.k = 1 => ~src'.owed)
  <2>1. /\ IsPacket(src') /\ Follows(src', src)
        /\ src'.k > 1 => ~src'.calm
        /\ src'.k = 1 => ~src'.calm /\ ~src'.owed
    BY <1>1, SrcTypes, AfterMoves
  <2>2. src'.k > 1 \/ src'.k = 1
    BY <2>1, Bounds DEF IsPacket, Sendable
  <2>3. QED
    BY <2>1, <2>2
<1>3. src'.id \in src.id .. src.id + 1
  BY <1>1, SrcTypes, AfterMoves
<1>4. Types'
  <2>1. src'.id \in 1 .. MaxSent + 2
    <3>1. src'.id \in src'.id .. src'.id + 1
      BY <1>2 DEF IsPacket, Sendable
    <3>2. QED
      BY <1>1, <1>3, <3>1, IdBounds
  <2>2. lostRun' \in 0 .. MaxBurst /\ quiet' \in Counters /\ faults' \in 0 .. MaxFaults
    <3>1. /\ lostRun > 0 \/ faults < MaxFaults
          /\ faults' = IF lostRun = 0 THEN faults + 1 ELSE faults
          /\ lostRun < MaxBurst /\ lostRun' = lostRun + 1 /\ quiet' = 0
      BY <1>1
    <3>2. QED
      BY <3>1, Bounds DEF Counters
  <2>3. QED
    BY <1>1, <1>2, <2>1, <2>2 DEF Types
<1>5. Waiting(pes, frame, src, quiet + 1, lostRun + 1)
  BY <1>1, EmptySeq DEF UnderWay
<1>6. Waiting(pes, frame, src', 1, lostRun' + 1)
  <2>1. src'.cc = (src.cc + 1) % CCMod
    BY <1>2 DEF Follows
  <2>2. pes.CC # -1 =>
          /\ Gap(pes.CC, src.cc) \in Counters
          /\ Gap(pes.CC, src'.cc) = IF Gap(pes.CC, src.cc) = CCMod - 1 THEN 0
                                    ELSE Gap(pes.CC, src.cc) + 1
    BY <2>1, SrcTypes, GapMoves
  <2>3. pes.CC # -1 => Gap(pes.CC, src'.cc) = 0 \/ Gap(pes.CC, src'.cc) >= 1
    BY <2>2, Bounds DEF Counters
  <2>4. pes.started => pes.CC # -1 /\ Gap(pes.CC, src.cc) <= lostRun + 1
    BY <1>5 DEF Waiting, PesOK, StreamOK
  <2>5. pes.started => Gap(pes.CC, src'.cc) <= lostRun' + 1 /\ Gap(pes.CC, src'.cc) # 0
    <3>1. SUFFICES ASSUME pes.started
                   PROVE  Gap(pes.CC, src'.cc) <= lostRun' + 1 /\ Gap(pes.CC, src'.cc) # 0
      OBVIOUS
    <3>2. /\ Gap(pes.CC, src.cc) \in 0 .. CCMod - 1 /\ Gap(pes.CC, src.cc) <= lostRun + 1
          /\ Gap(pes.CC, src'.cc) = IF Gap(pes.CC, src.cc) = CCMod - 1 THEN 0
                                    ELSE Gap(pes.CC, src.cc) + 1
      BY <2>2, <2>4, <3>1 DEF Counters
    <3>3. /\ lostRun \in Nat /\ lostRun < MaxBurst /\ MaxBurst \in 0 .. CCMod - 3
          /\ lostRun' = lostRun + 1 /\ CCMod \in Nat
      BY <1>1, Bounds
    <3>4. QED
      BY <3>2, <3>3
  <2>6. Ordered(pes, src')
    BY <1>2, <1>5, SrcTypes, OrderKept DEF Types, Waiting
  <2>7. QED
    BY <1>2, <2>3, <2>5, <2>6, Zenon DEF Waiting
<1>7. PesOK' /\ DeliveredIsIntact' /\ CalmIsQuiet'
  BY <1>1, <1>2 DEF PesOK, DeliveredIsIntact, CalmIsQuiet
<1>8. UnderWay'
  BY <1>1, <1>6, EmptySeq DEF UnderWay
<1>9. QED
  BY <1>4, <1>7, <1>8

(* The first copy of a packet is the one the stream waits for.              *)
LEMMA DuplicateKeeps ==
  ASSUME DemuxInv, Duplicate
  PROVE  DemuxInv'
<1> USE DEF DemuxInv
<1>1. /\ inbox = << >> /\ src.id <= MaxSent /\ faults < MaxFaults
      /\ inbox' = <<Packet(src), Packet(NotOwed(src))>>
      /\ faults' = faults + 1 /\ lostRun' = 0 /\ quiet' = 0
      /\ src' \in After(src, FALSE) /\ pes' = pes /\ frame' = frame
  BY DEF Duplicate, CanSend, Fault
<1>2. /\ IsPacket(src') /\ Follows(src', src) /\ ~src'.calm /\ (src'.k = 1 => ~src'.owed)
  <2>1. /\ IsPacket(src') /\ Follows(src', src)
        /\ src'.k > 1 => ~src'.calm
        /\ src'.k = 1 => ~src'.calm /\ ~src'.owed
    BY <1>1, SrcTypes, AfterMoves
  <2>2. src'.k > 1 \/ src'.k = 1
    BY <2>1, Bounds DEF IsPacket, Sendable
  <2>3. QED
    BY <2>1, <2>2
<1>3. src'.id \in src.id .. src.id + 1
  BY <1>1, SrcTypes, AfterMoves
<1>4. /\ inbox' \in Received /\ Len(inbox') = 2 /\ First' = src /\ Second' = NotOwed(src)
      /\ \A i \in 1 .. Len(inbox') : inbox'[i] = Packet(inbox'[i].s) /\ IsPacket(inbox'[i].s)
  BY <1>1, SrcTypes, CopyMoves, InboxOfTwo
<1>5. Types'
  <2>1. src'.id \in 1 .. MaxSent + 2
    <3>1. src'.id \in src'.id .. src'.id + 1
      BY <1>2 DEF IsPacket, Sendable
    <3>2. QED
      BY <1>1, <1>3, <3>1, IdBounds
  <2>2. lostRun' \in 0 .. MaxBurst /\ quiet' \in Counters /\ faults' \in 0 .. MaxFaults
    <3>1. faults < MaxFaults /\ faults' = faults + 1 /\ lostRun' = 0 /\ quiet' = 0
      BY <1>1
    <3>2. QED
      BY <3>1, Bounds DEF Counters
  <2>3. QED
    BY <1>1, <1>2, <1>4, <2>1, <2>2 DEF Types
<1>6. Waiting(pes, frame, src, quiet + 1, lostRun + 1)
  BY <1>1, EmptySeq DEF UnderWay
<1>7. Waiting(pes, frame, src, 0, MaxBurst + 1)
  <2>1. pes.CC # -1 => Gap(pes.CC, src.cc) \in Counters
    BY InOrders, SrcTypes
  <2>2. pes.started => pes.CC # -1 /\ Gap(pes.CC, src.cc) <= lostRun + 1
    BY <1>6 DEF Waiting, PesOK, StreamOK
  <2>3. pes.CC # -1 => Gap(pes.CC, src.cc) = 0 \/ Gap(pes.CC, src.cc) >= 0
    BY <2>1, Bounds DEF Counters
  <2>4. pes.started => Gap(pes.CC, src.cc) <= MaxBurst + 1
    BY <2>1, <2>2, Bounds DEF Counters
  <2>5. QED
    BY <1>6, <2>3, <2>4, Zenon DEF Waiting
<1>8. Twice'
  BY <1>1, <1>2, <1>4, <1>7 DEF Twice, Disturbed
<1>9. PesOK' /\ DeliveredIsIntact' /\ CalmIsQuiet'
  BY <1>1, <1>2 DEF PesOK, DeliveredIsIntact, CalmIsQuiet
<1>10. QED
  BY <1>4, <1>5, <1>8, <1>9 DEF UnderWay

(* The later of two swapped packets never follows on in a started stream.   *)
LEMMA SwapKeeps ==
  ASSUME DemuxInv, Swap
  PROVE  DemuxInv'
<1> USE DEF DemuxInv
<1>1. PICK next \in After(src, FALSE) :
        /\ inbox' = <<Packet(NotOwed(next)), Packet(NotOwed(src))>>
        /\ src' \in After(next, FALSE)
  BY DEF Swap
<1>2. /\ inbox = << >> /\ src.id <= MaxSent /\ faults < MaxFaults
      /\ faults' = faults + 1 /\ lostRun' = 0 /\ quiet' = 0 /\ pes' = pes /\ frame' = frame
  BY DEF Swap, CanSend, Fault
<1>3. IsPacket(next) /\ Follows(next, src) /\ next.id \in src.id .. src.id + 1
  BY SrcTypes, AfterMoves
<1>4. /\ IsPacket(src') /\ Follows(src', next) /\ ~src'.calm /\ (src'.k = 1 => ~src'.owed)
  <2>1. /\ IsPacket(src') /\ Follows(src', next)
        /\ src'.k > 1 => ~src'.calm
        /\ src'.k = 1 => ~src'.calm /\ ~src'.owed
    BY <1>1, <1>3, AfterMoves
  <2>2. src'.k > 1 \/ src'.k = 1
    BY <2>1, Bounds DEF IsPacket, Sendable
  <2>3. QED
    BY <2>1, <2>2
<1>5. src'.id \in next.id .. next.id + 1
  BY <1>1, <1>3, AfterMoves
<1> DEFINE n == NotOwed(next)
           s == NotOwed(src)
<1>6. /\ IsPacket(n) /\ ~n.owed /\ n.id = next.id /\ n.k = next.k /\ n.cc = next.cc
      /\ n.len = next.len /\ n.end = next.end /\ n.headerOnly = next.headerOnly
  BY <1>3, CopyMoves
<1>7. /\ IsPacket(s) /\ ~s.owed /\ s.id = src.id /\ s.k = src.k /\ s.cc = src.cc
      /\ s.len = src.len /\ s.end = src.end /\ s.headerOnly = src.headerOnly
  BY SrcTypes, CopyMoves
<1> HIDE DEF n, s
<1>8. inbox' = <<Packet(n), Packet(s)>>
  BY <1>1 DEF n, s
<1>9. /\ inbox' \in Received /\ Len(inbox') = 2 /\ First' = n /\ Second' = s
      /\ inbox'[1] = Packet(n)
      /\ \A i \in 1 .. Len(inbox') : inbox'[i] = Packet(inbox'[i].s) /\ IsPacket(inbox'[i].s)
  BY <1>6, <1>7, <1>8, InboxOfTwo
<1>10. Types'
  <2>1. src'.id \in 1 .. MaxSent + 2
    BY <1>2, <1>3, <1>5, IdBounds
  <2>2. lostRun' \in 0 .. MaxBurst /\ quiet' \in Counters /\ faults' \in 0 .. MaxFaults
    BY <1>2, Bounds DEF Counters
  <2>3. QED
    BY <1>2, <1>4, <1>9, <2>1, <2>2 DEF Types
<1>11. Follows(n, s) /\ Follows(src', n)
  BY <1>3, <1>4, <1>6, <1>7 DEF Follows
<1>12. Waiting(pes, frame, src, quiet + 1, lostRun + 1)
  BY <1>2, EmptySeq DEF UnderWay
<1>13. Ordered(pes, s)
  BY <1>7, <1>12 DEF Waiting, Ordered
<1>14. pes.started => ~InOrder(Packet(n))
  <2>1. n.cc = (src.cc + 1) % CCMod
    BY <1>7, <1>11 DEF Follows
  <2>2. pes.CC # -1 =>
          /\ Gap(pes.CC, src.cc) \in Counters
          /\ Gap(pes.CC, n.cc) = IF Gap(pes.CC, src.cc) = CCMod - 1 THEN 0
                                 ELSE Gap(pes.CC, src.cc) + 1
    BY <2>1, SrcTypes, GapMoves
  <2>3. pes.started => pes.CC # -1 /\ Gap(pes.CC, src.cc) <= lostRun + 1
    BY <1>12 DEF Waiting, PesOK, StreamOK
  <2>4. pes.started => Gap(pes.CC, n.cc) # 0
    BY <2>2, <2>3, Bounds DEF Counters
  <2>5. QED
    BY <1>6, <2>3, <2>4, InOrders
<1>15. Swapped'
  BY <1>2, <1>4, <1>6, <1>7, <1>9, <1>11, <1>13, <1>14 DEF Swapped, Disturbed, InOrder
<1>16. PesOK' /\ DeliveredIsIntact' /\ CalmIsQuiet'
  BY <1>2, <1>4 DEF PesOK, DeliveredIsIntact, CalmIsQuiet
<1>17. QED
  BY <1>9, <1>10, <1>15, <1>16 DEF UnderWay

-------------------------------------------------------------------------------
(* The receiver *)

(* The stored frame is sent out, and the packet that starts the next waits. *)
LEMMA PreviousKeeps ==
  ASSUME DemuxInv, DemuxPrevious
  PROVE  DemuxInv' /\ (frame' # frame => frame'.id > frame.id)
<1> USE DEF DemuxInv
<1>1. /\ inbox # << >> /\ pes.started /\ pes.haveFrame /\ Head(inbox).pusi /\ Emit(pes)
      /\ src' = src /\ inbox' = inbox /\ faults' = faults /\ lostRun' = lostRun
      /\ quiet' = quiet
  BY DEF DemuxPrevious, StartsNext, net
<1>2. /\ pes' \in Streams /\ frame' \in HandedOn /\ PesOK' /\ DeliveredIsIntact'
      /\ pes'.isVideo = pes.isVideo /\ pes'.CC = pes.CC /\ pes'.started /\ pes'.id = pes.id
      /\ pes'.bufferPos = pes.bufferPos /\ pes'.wanted = pes.wanted
      /\ frame' # frame => frame'.id > frame.id
      /\ pes.bufferPos <= bufLen /\ pes.bufferPos = pes.wanted =>
           frame'.id = pes'.id /\ frame'.whole
  BY <1>1, EmitMoves DEF Types, PesOK
<1>3. Types' /\ CalmIsQuiet'
  BY <1>1, <1>2 DEF Types, CalmIsQuiet
<1>4. Len(inbox) \in 1 .. 2 /\ inbox[1] = Packet(First) /\ IsPacket(First) /\ Head(inbox) = inbox[1]
  BY <1>1, EmptySeq, HeadTailProperties DEF Types, Received, First
<1>5. First.k = 1 /\ First' = First /\ Second' = Second
  <2>1. Packet(First).pusi = (First.k = 1)
    BY <1>4, PacketTypes
  <2>2. Packet(First).pusi
    BY <1>1, <1>4
  <2>3. First' = First /\ Second' = Second
    BY <1>1 DEF First, Second
  <2>4. QED
    BY <2>1, <2>2, <2>3, Zenon
<1>6. ASSUME NEW n, NEW g, Waiting(pes, frame, First, n, g)
      PROVE  Waiting(pes', frame', First, n, g)
  BY <1>1, <1>2, <1>5, <1>6 DEF Waiting, Ordered
<1>7. /\ Disturbed' <=> Disturbed
      /\ InOrder(inbox[1])' <=> InOrder(inbox[1])
      /\ \A x : Ordered(pes', x) <=> Ordered(pes, x)
  BY <1>1, <1>2 DEF Disturbed, InOrder, Ordered
<1>8. Arrived => Arrived'
  BY <1>1, <1>2, <1>5, <1>6 DEF Arrived, Deliverable
<1>9. Twice => Twice'
  BY <1>1, <1>5, <1>6, <1>7 DEF Twice
<1>10. /\ Again => Again'
       /\ Swapped => Swapped'
       /\ Late => Late'
  BY <1>1, <1>2, <1>5, <1>7 DEF Again, Swapped, Late
<1>11. UnderWay'
  BY <1>1, <1>4, <1>8, <1>9, <1>10 DEF UnderWay
<1>12. QED
  BY <1>2, <1>3, <1>11

(* The types when a packet has been consumed.                               *)
LEMMA ConsumedTypes ==
  ASSUME DemuxInv, inbox # << >>, inbox' = Tail(inbox), pes' \in Streams,
         UNCHANGED <<src, faults, lostRun, quiet>>, frame' \in HandedOn
  PROVE  Types' /\ CalmIsQuiet'
<1>1. /\ inbox' \in Received /\ Len(inbox) \in 1 .. 2 /\ Len(inbox') = Len(inbox) - 1
      /\ \A i \in 1 .. Len(inbox') : inbox'[i] = Packet(inbox'[i].s) /\ IsPacket(inbox'[i].s)
  BY TailMoves DEF DemuxInv
<1>2. Len(inbox') \in 0 .. 2
  BY <1>1
<1>3. QED
  BY <1>1, <1>2 DEF DemuxInv, Types, CalmIsQuiet

(* After a fault nothing is promised but the order.                         *)
LEMMA DisturbedWaits ==
  ASSUME Types, pes' \in Streams, ~src.calm, src.k = 1 => ~src.owed, quiet = 0, lostRun = 0,
         Ordered(pes', src),
         pes'.started => /\ Gap(pes'.CC, src.cc) <= 1
                         /\ Gap(pes'.CC, src.cc) # 0
  PROVE  Waiting(pes', frame', src, quiet + 1, lostRun + 1)
<1>1. src.cc \in Counters /\ ~(src.owed /\ src.k = 1) /\ CCMod \in Nat
  BY SrcTypes, Bounds
<1>2. pes'.CC # -1 => Gap(pes'.CC, src.cc) \in Counters
  BY <1>1, Gaps DEF Streams
<1>3. pes'.CC # -1 => Gap(pes'.CC, src.cc) = 0 \/ Gap(pes'.CC, src.cc) >= quiet + 1
  BY <1>1, <1>2 DEF Counters
<1>4. pes'.started => Gap(pes'.CC, src.cc) <= lostRun + 1
  OBVIOUS
<1>5. QED
  BY <1>1, <1>3, <1>4, Zenon DEF Waiting

(* A packet that does not follow on ends the frame.                         *)
LEMMA MissedKeeps ==
  ASSUME DemuxInv, DemuxMissed
  PROVE  DemuxInv'
<1> USE DEF DemuxInv
<1>1. /\ inbox # << >> /\ inbox' = Tail(inbox) /\ ~InOrder(Head(inbox))
      /\ src' = src /\ faults' = faults /\ lostRun' = lostRun /\ quiet' = quiet
      /\ frame' = frame
      /\ pes' = [pes EXCEPT !.missedPacket = 1, !.bufferPos = 0, !.buf = << >>,
                            !.started = FALSE]
  BY DEF DemuxMissed
<1>2. /\ pes' \in Streams /\ ~pes'.started /\ pes'.bufferPos = 0 /\ pes'.buf = << >>
      /\ pes'.CC = pes.CC /\ pes'.id = pes.id /\ pes'.isVideo = pes.isVideo
  <2>1. pes \in Streams /\ << >> \in Buffers
    BY DEF Types, Buffers
  <2>2. pes' = [isVideo |-> pes.isVideo, CC |-> pes.CC, bufferPos |-> 0, buf |-> << >>,
                started |-> FALSE, haveFrame |-> pes.haveFrame, missedPacket |-> 1,
                pesDataLen |-> pes.pesDataLen, id |-> pes.id, wanted |-> pes.wanted]
    BY <1>1, <2>1 DEF Streams
  <2>3. QED
    BY <2>1, <2>2 DEF Streams
<1>3. PesOK' /\ DeliveredIsIntact'
  BY <1>1, <1>2 DEF PesOK, StreamOK, DeliveredIsIntact
<1>4. Types' /\ CalmIsQuiet'
  BY <1>1, <1>2, ConsumedTypes DEF Types
<1>5. /\ Len(inbox) \in 1 .. 2 /\ Len(inbox') = Len(inbox) - 1
      /\ Head(inbox) = inbox[1] /\ inbox[1] = Packet(First) /\ IsPacket(First)
      /\ Len(inbox) = 2 => /\ inbox[2] = Packet(Second) /\ IsPacket(Second)
                           /\ First' = Second /\ inbox'[1] = inbox[2]
  BY <1>1, TailMoves
<1>6. pes.CC # -1 /\ Gap(pes.CC, First.cc) # 0 /\ Gap(pes.CC, First.cc) \in Counters
  BY <1>1, <1>5, InOrders
<1>7. \A x : Ordered(pes', x) <=> Ordered(pes, x)
  BY <1>2 DEF Ordered
<1>8. CASE Len(inbox) = 1 /\ Arrived
  <2>1. /\ Waiting(pes, frame, First, quiet, MaxBurst + 1) /\ Follows(src, First) /\ lostRun = 0
        /\ src.calm /\ src.k > 1 => First.calm
        /\ src.owed /\ src.k = 1 => First.calm /\ Deliverable(First)
    BY <1>8 DEF Arrived
  <2>2. ~First.calm
    BY <1>6, <2>1 DEF Waiting
  <2>3. Ordered(pes', src)
    BY <1>5, <1>7, <2>1, SrcTypes, OrderKept DEF Types, Waiting
  <2>4. Gap(pes.CC, src.cc) = IF Gap(pes.CC, First.cc) = CCMod - 1 THEN 0
                              ELSE Gap(pes.CC, First.cc) + 1
    BY <1>5, <1>6, <2>1, GapMoves DEF Follows
  <2>5. Gap(pes.CC, First.cc) >= quiet
    BY <1>6, <2>1 DEF Waiting
  <2>6. Gap(pes.CC, src.cc) = 0 \/ Gap(pes.CC, src.cc) >= quiet + 1
    BY <1>6, <2>4, <2>5, Bounds DEF Counters
  <2>7. src.calm => Gap(pes.CC, src.cc) = 0
    BY <1>6, <2>4, <2>5, Bounds DEF Counters, CalmIsQuiet
  <2>8. Waiting(pes', frame', src, quiet + 1, lostRun + 1)
    BY <1>2, <2>1, <2>2, <2>3, <2>6, <2>7, Zenon DEF Waiting
  <2>9. Len(inbox') = 0
    BY <1>5, <1>8
  <2>10. UnderWay'
    <3>1. Waiting(pes', frame', src', quiet' + 1, lostRun' + 1)
      BY <1>1, <2>8
    <3>2. Len(inbox') # 1 /\ Len(inbox') # 2
      BY <2>9
    <3>3. QED
      BY <3>1, <3>2, Zenon DEF UnderWay
  <2>11. QED
    BY <1>3, <1>4, <2>10
<1>9. CASE Len(inbox) = 1 /\ (Again \/ Late)
  <2>1. Disturbed /\ Ordered(pes', src)
    BY <1>7, <1>9 DEF Again, Late
  <2>2. Waiting(pes', frame', src, quiet + 1, lostRun + 1)
    BY <1>2, <2>1, DisturbedWaits DEF Disturbed
  <2>3. Len(inbox') = 0
    BY <1>5, <1>9
  <2>4. UnderWay'
    <3>1. Waiting(pes', frame', src', quiet' + 1, lostRun' + 1)
      BY <1>1, <2>2
    <3>2. Len(inbox') # 1 /\ Len(inbox') # 2
      BY <2>3
    <3>3. QED
      BY <3>1, <3>2, Zenon DEF UnderWay
  <2>5. QED
    BY <1>3, <1>4, <2>4
<1>10. CASE Len(inbox) = 2 /\ Twice
  <2>1. /\ Disturbed /\ Follows(src, First) /\ Second = NotOwed(First)
        /\ Waiting(pes, frame, First, 0, MaxBurst + 1)
    BY <1>10 DEF Twice
  <2>2. /\ ~Second.owed /\ Second.id = First.id /\ Second.k = First.k /\ Second.cc = First.cc
        /\ Second.len = First.len /\ Second.end = First.end
        /\ Second.headerOnly = First.headerOnly
    BY <1>5, <2>1, CopyMoves
  <2>3. Ordered(pes', src)
    BY <1>5, <1>7, <2>1, SrcTypes, OrderKept DEF Types, Waiting
  <2>4. ~InOrder(inbox[1])'
    <3>1. Packet(Second).cc = Packet(First).cc
      BY <2>2 DEF Packet
    <3>2. inbox'[1].cc = Head(inbox).cc
      BY <1>5, <1>10, <3>1
    <3>3. QED
      BY <1>1, <1>2, <3>2 DEF InOrder
  <2>5. Again'
    BY <1>1, <1>5, <1>10, <2>1, <2>2, <2>3, <2>4 DEF Again, Disturbed, Follows
  <2>6. Len(inbox') = 1
    BY <1>5, <1>10
  <2>7. QED
    BY <1>3, <1>4, <2>5, <2>6 DEF UnderWay
<1>11. CASE Len(inbox) = 2 /\ Swapped
  <2>1. /\ Disturbed /\ Follows(First, Second) /\ Follows(src, First)
        /\ ~First.owed /\ ~Second.owed /\ Ordered(pes, Second)
    BY <1>11 DEF Swapped
  <2>2. Ordered(pes, First) /\ Second.id <= First.id /\ (First.k = 1 => Second.id < First.id)
    BY <1>5, <1>11, <2>1, OrderKept DEF Types
  <2>3. Ordered(pes, src) /\ First.id <= src.id /\ (src.k = 1 => First.id < src.id)
    BY <1>5, <2>1, <2>2, SrcTypes, OrderKept DEF Types
  <2>4. src.cc = (Second.cc + 2) % CCMod /\ Second.id <= src.id
        /\ (src.k = 1 => Second.id < src.id)
    <3>1. /\ First.id \in Nat /\ Second.id \in Nat /\ src.id \in Nat
          /\ Second.cc \in Counters
      BY <1>5, <1>11, SrcTypes DEF IsPacket, Sendable
    <3>2. src.cc = (First.cc + 1) % CCMod /\ First.cc = (Second.cc + 1) % CCMod
      BY <2>1 DEF Follows
    <3>3. src.cc = (Second.cc + 2) % CCMod
      BY <3>1, <3>2, Gaps
    <3>4. QED
      BY <2>2, <2>3, <3>1, <3>3
  <2>5. Late'
    BY <1>1, <1>2, <1>5, <1>7, <1>11, <2>1, <2>3, <2>4 DEF Late, Disturbed
  <2>6. Len(inbox') = 1
    BY <1>5, <1>11
  <2>7. QED
    BY <1>3, <1>4, <2>5, <2>6 DEF UnderWay
<1>12. QED
  BY <1>5, <1>8, <1>9, <1>10, <1>11 DEF UnderWay

(* A packet that follows on.                                                *)
LEMMA PacketKeeps ==
  ASSUME DemuxInv, DemuxPacket
  PROVE  DemuxInv' /\ (frame' # frame => frame'.id > frame.id)
<1> USE DEF DemuxInv
<1>1. /\ inbox # << >> /\ inbox' = Tail(inbox) /\ InOrder(Head(inbox))
      /\ src' = src /\ faults' = faults /\ lostRun' = lostRun /\ quiet' = quiet
  BY DEF DemuxPacket
<1>2. /\ Len(inbox) \in 1 .. 2 /\ Len(inbox') = Len(inbox) - 1
      /\ Head(inbox) = inbox[1] /\ inbox[1] = Packet(First) /\ IsPacket(First)
      /\ Len(inbox) = 2 => /\ inbox[2] = Packet(Second) /\ IsPacket(Second)
                           /\ First' = Second /\ inbox'[1] = inbox[2]
  BY <1>1, TailMoves
<1>3. pes.CC = -1 \/ Gap(pes.CC, First.cc) = 0
  BY <1>1, <1>2, InOrders
<1>4. pes.started => pes.CC # -1
  BY DEF PesOK, StreamOK
<1>5. First.cc \in Counters /\ First.cc # -1 /\ First.id \in Nat /\ First.k \in 1 .. MaxLen
      /\ First.len \in 1 .. MaxLen /\ First.k <= First.len /\ pes.id \in Nat
  BY <1>2 DEF IsPacket, Sendable, Counters, Types, Streams
<1> DEFINE Consumed ==
      /\ pes' \in Streams /\ frame' \in HandedOn /\ PesOK' /\ DeliveredIsIntact'
      /\ frame' # frame => frame'.id > frame.id
      /\ pes'.CC = First.cc /\ pes'.isVideo = pes.isVideo /\ pes'.id <= First.id
      /\ pes'.started =>
           /\ First.k = 1 \/ pes.started
           /\ First.k < First.len => HoldsUpTo(pes', First, First.k) /\ pes'.haveFrame
           /\ First.k = First.len =>
                /\ pes'.id = First.id /\ pes'.wanted = Pieces(First)
                /\ pes'.bufferPos = pes'.wanted
                /\ pes'.wanted <= bufLen =>
                     pes'.haveFrame \/ (frame'.id = pes'.id /\ frame'.whole)
      /\ First.k = 1 /\ ~(pes.isVideo /\ First.headerOnly) => pes'.started
      /\ First.k > 1 /\ pes.started => pes'.started
<1>6. ASSUME Ordered(pes, First),
             pes.started /\ First.k > 1 => HoldsUpTo(pes, First, First.k - 1) /\ pes.haveFrame
      PROVE  Consumed
  BY <1>6, PacketMoves DEF Ordered
<1> HIDE DEF Consumed
<1>7. ASSUME Consumed
      PROVE  /\ Types' /\ CalmIsQuiet' /\ PesOK' /\ DeliveredIsIntact'
             /\ frame' # frame => frame'.id > frame.id
             /\ pes' \in Streams /\ pes'.CC = First.cc /\ pes'.id <= First.id
             /\ pes'.id \in Nat /\ pes'.CC # -1
  <2>1. pes' \in Streams /\ frame' \in HandedOn /\ pes'.CC = First.cc
    BY <1>7 DEF Consumed
  <2>2. Types' /\ CalmIsQuiet'
    BY <1>1, <2>1, ConsumedTypes
  <2>3. QED
    BY <1>5, <1>7, <2>1, <2>2 DEF Consumed, Streams
<1>8. ASSUME Consumed, NEW y, IsPacket(y), First.id <= y.id, y.k = 1 => First.id < y.id
      PROVE  Ordered(pes', y)
  <2>1. y.id \in Nat
    BY <1>8 DEF IsPacket, Sendable
  <2>2. QED
    BY <1>5, <1>7, <1>8, <2>1 DEF Ordered
<1>9. CASE Len(inbox) = 1 /\ Arrived
  <2>1. /\ Waiting(pes, frame, First, quiet, MaxBurst + 1) /\ Follows(src, First) /\ lostRun = 0
        /\ src.calm /\ src.k > 1 => First.calm
        /\ src.owed /\ src.k = 1 => First.calm /\ Deliverable(First)
    BY <1>9 DEF Arrived
  <2>2. Consumed
    BY <1>3, <1>4, <1>6, <2>1 DEF Waiting
  <2>3. Ordered(pes', src)
    BY <1>2, <1>8, <2>1, <2>2, SrcTypes, OrderKept DEF Types, Waiting
  <2>4. Gap(pes'.CC, src.cc) = 0
    BY <1>5, <1>7, <2>1, <2>2, Gaps DEF Follows
  <2>5. First.calm /\ ~(pes.isVideo /\ First.headerOnly) => pes'.started
    <3>1. CASE First.k = 1
      BY <2>2, <3>1 DEF Consumed
    <3>2. CASE First.k > 1
      BY <2>1, <2>2, <3>2 DEF Consumed, Waiting
    <3>3. QED
      BY <1>5, <3>1, <3>2
  <2>6. src.k > 1 => /\ src.id = First.id /\ src.k = First.k + 1 /\ src.len = First.len
                     /\ src.end = First.end /\ src.headerOnly = First.headerOnly
                     /\ First.k < First.len /\ src.k - 1 = First.k
    BY <1>5, <2>1, SrcTypes DEF Follows
  <2>7. pes'.started /\ src.k > 1 => HoldsUpTo(pes', src, src.k - 1) /\ pes'.haveFrame
    <3>1. SUFFICES ASSUME pes'.started, src.k > 1
                   PROVE  HoldsUpTo(pes', src, src.k - 1) /\ pes'.haveFrame
      OBVIOUS
    <3>2. HoldsUpTo(pes', First, First.k) /\ pes'.haveFrame
      BY <2>2, <2>6, <3>1 DEF Consumed
    <3>3. Pieces(src) = Pieces(First) /\ Declared(src) = Declared(First)
          /\ Skipped(src) = Skipped(First)
      BY <2>6, <3>1 DEF Pieces, Declared, Skipped
    <3>4. QED
      BY <2>6, <3>1, <3>2, <3>3 DEF HoldsUpTo
  <2>8. src.calm /\ src.k > 1 /\ ~(pes'.isVideo /\ src.headerOnly) => pes'.started
    BY <2>1, <2>2, <2>5, <2>6 DEF Consumed
  <2>9. src.owed /\ src.k = 1 =>
           /\ pes'.started /\ pes'.id = src.id - 1
           /\ pes'.bufferPos = pes'.wanted /\ pes'.wanted <= bufLen
           /\ pes'.haveFrame \/ (frame'.id = pes'.id /\ frame'.whole)
    <3>1. SUFFICES ASSUME src.owed, src.k = 1
                   PROVE  /\ pes'.started /\ pes'.id = src.id - 1
                          /\ pes'.bufferPos = pes'.wanted /\ pes'.wanted <= bufLen
                          /\ pes'.haveFrame \/ (frame'.id = pes'.id /\ frame'.whole)
      OBVIOUS
    <3>2. First.calm /\ Deliverable(First)
      BY <2>1, <3>1
    <3>3. pes'.started
      BY <2>5, <3>2 DEF Deliverable
    <3>4. First.k = First.len /\ src.id = First.id + 1
      BY <1>5, <2>1, <3>1 DEF Follows
    <3>5. /\ pes'.id = First.id /\ pes'.wanted = Pieces(First) /\ pes'.bufferPos = pes'.wanted
          /\ pes'.wanted <= bufLen => pes'.haveFrame \/ (frame'.id = pes'.id /\ frame'.whole)
      BY <2>2, <3>3, <3>4 DEF Consumed
    <3>6. Pieces(First) <= bufLen
      BY <3>2, Bounds DEF Deliverable
    <3>7. pes'.id = src.id - 1
      BY <1>5, <3>4, <3>5
    <3>8. QED
      BY <3>3, <3>5, <3>6, <3>7
  <2>10. 0 <= lostRun + 1
    BY <2>1
  <2>11. Waiting(pes', frame', src, quiet + 1, lostRun + 1)
    BY <2>3, <2>4, <2>7, <2>8, <2>9, <2>10, Zenon DEF Waiting
  <2>12. Len(inbox') = 0
    BY <1>2, <1>9
  <2>13. UnderWay'
    <3>1. Waiting(pes', frame', src', quiet' + 1, lostRun' + 1)
      BY <1>1, <2>11
    <3>2. Len(inbox') # 1 /\ Len(inbox') # 2
      BY <2>12
    <3>3. QED
      BY <3>1, <3>2, Zenon DEF UnderWay
  <2>14. QED
    BY <1>7, <2>2, <2>13
<1>10. CASE Len(inbox) = 1 /\ Late
  <2>1. /\ Disturbed /\ src.cc = (First.cc + 2) % CCMod /\ ~pes.started /\ Ordered(pes, First)
        /\ First.id <= src.id /\ (src.k = 1 => First.id < src.id)
    BY <1>1, <1>2, <1>10 DEF Late
  <2>2. Consumed
    BY <1>6, <2>1
  <2>3. Ordered(pes', src)
    BY <1>8, <2>1, <2>2, SrcTypes
  <2>4. Gap(pes'.CC, src.cc) = 1
    BY <1>5, <1>7, <2>1, <2>2, Gaps
  <2>5. Waiting(pes', frame', src, quiet + 1, lostRun + 1)
    BY <1>7, <2>1, <2>2, <2>3, <2>4, DisturbedWaits DEF Disturbed
  <2>6. Len(inbox') = 0
    BY <1>2, <1>10
  <2>7. UnderWay'
    <3>1. Waiting(pes', frame', src', quiet' + 1, lostRun' + 1)
      BY <1>1, <2>5
    <3>2. Len(inbox') # 1 /\ Len(inbox') # 2
      BY <2>6
    <3>3. QED
      BY <3>1, <3>2, Zenon DEF UnderWay
  <2>8. QED
    BY <1>7, <2>2, <2>7
<1>11. CASE Len(inbox) = 1 /\ Again
  BY <1>1, <1>2, <1>11 DEF Again
<1>12. CASE Len(inbox) = 2 /\ Twice
  <2>1. /\ Disturbed /\ Follows(src, First) /\ Second = NotOwed(First)
        /\ Waiting(pes, frame, First, 0, MaxBurst + 1)
    BY <1>12 DEF Twice
  <2>2. /\ ~Second.owed /\ Second.id = First.id /\ Second.k = First.k /\ Second.cc = First.cc
        /\ Second.len = First.len /\ Second.end = First.end
        /\ Second.headerOnly = First.headerOnly
    BY <1>2, <2>1, CopyMoves
  <2>3. Consumed
    BY <1>3, <1>4, <1>6, <2>1 DEF Waiting
  <2>4. Ordered(pes', src)
    BY <1>2, <1>8, <2>1, <2>3, SrcTypes, OrderKept DEF Types, Waiting
  <2>5. ~InOrder(inbox[1])'
    <3>1. Packet(Second).cc = First.cc /\ inbox'[1] = Packet(Second)
      BY <1>2, <1>12, <2>2 DEF Packet
    <3>2. (First.cc + 1) % CCMod # First.cc
      BY <1>5, Gaps
    <3>3. QED
      BY <1>5, <1>7, <2>3, <3>1, <3>2 DEF InOrder
  <2>6. Again'
    BY <1>1, <1>2, <1>12, <2>1, <2>2, <2>4, <2>5 DEF Again, Disturbed, Follows
  <2>7. Len(inbox') = 1
    BY <1>2, <1>12
  <2>8. QED
    BY <1>7, <2>3, <2>6, <2>7 DEF UnderWay
<1>13. CASE Len(inbox) = 2 /\ Swapped
  <2>1. /\ Disturbed /\ Follows(First, Second) /\ Follows(src, First)
        /\ ~First.owed /\ ~Second.owed /\ Ordered(pes, Second) /\ ~pes.started
    BY <1>1, <1>2, <1>13 DEF Swapped
  <2>2. Ordered(pes, First) /\ Second.id <= First.id /\ (First.k = 1 => Second.id < First.id)
    BY <1>2, <1>13, <2>1, OrderKept DEF Types
  <2>3. Consumed
    BY <1>6, <2>1, <2>2
  <2>4. First.id <= src.id /\ (src.k = 1 => First.id < src.id)
    BY <1>2, <2>1, <2>2, SrcTypes, OrderKept DEF Types
  <2>5. Ordered(pes', src)
    BY <1>8, <2>3, <2>4, SrcTypes
  <2>6. Second.id \in Nat /\ Second.cc \in Counters
    BY <1>2, <1>13 DEF IsPacket, Sendable
  <2>7. src.cc = (Second.cc + 2) % CCMod /\ First.cc = (Second.cc + 1) % CCMod
    <3>1. src.cc = (First.cc + 1) % CCMod /\ First.cc = (Second.cc + 1) % CCMod
      BY <2>1 DEF Follows
    <3>2. QED
      BY <2>6, <3>1, Gaps
  <2>8. Second.id <= src.id /\ (src.k = 1 => Second.id < src.id)
    BY <1>5, <2>2, <2>4, <2>6, SrcTypes
  <2>9. ~InOrder(inbox[1])'
    <3>1. Packet(Second).cc = Second.cc /\ inbox'[1] = Packet(Second)
      BY <1>2, <1>13 DEF Packet
    <3>2. (First.cc + 1) % CCMod # Second.cc
      <4>1. Gap((Second.cc + 1) % CCMod, Second.cc) # 0
        BY <2>6, Gaps
      <4>2. Gap(First.cc, Second.cc) # 0
        BY <2>7, <4>1
      <4>3. QED
        BY <1>5, <2>6, <4>2, Gaps
    <3>3. QED
      BY <1>7, <2>3, <3>1, <3>2 DEF InOrder
  <2>10. Late'
    BY <1>1, <1>2, <1>13, <2>1, <2>5, <2>7, <2>8, <2>9 DEF Late, Disturbed
  <2>11. Len(inbox') = 1
    BY <1>2, <1>13
  <2>12. QED
    BY <1>7, <2>3, <2>10, <2>11 DEF UnderWay
<1>14. QED
  BY <1>2, <1>9, <1>10, <1>11, <1>12, <1>13 DEF UnderWay

-------------------------------------------------------------------------------
(* The theorems *)

(* The invariant is inductive, and says what the runs check.                *)
LEMMA InitHolds == Init => DemuxInv
<1> SUFFICES ASSUME Init PROVE DemuxInv
  OBVIOUS
<1>1. /\ CCMod \in Nat /\ CCMod >= 3 /\ MaxLen \in Nat \ {0} /\ MaxSent \in Nat
      /\ MaxFaults \in Nat /\ MaxBurst \in Nat /\ bufLen \in Nat \ {0}
  BY TsAssumption DEF TsAssumption
<1>2. PICK s \in Frames(1, 0, FALSE, FALSE) :
        \E k \in 1 .. s.len : src = [s EXCEPT !.k = k]
  BY DEF Init
<1>3. PICK k \in 1 .. s.len : src = [s EXCEPT !.k = k]
  BY <1>2
<1>4. /\ s.len \in 1 .. MaxLen /\ s.end \in Endings /\ s.headerOnly \in BOOLEAN
      /\ src = [id |-> 1, k |-> k, cc |-> 0, len |-> s.len, end |-> s.end,
                headerOnly |-> s.headerOnly, calm |-> FALSE, owed |-> FALSE]
  BY <1>2, <1>3 DEF Frames, AnyFrame
<1>5. k \in 1 .. MaxLen /\ k <= s.len /\ 0 \in Counters
  BY <1>1, <1>3, <1>4 DEF Counters
<1>6. src \in Sendable /\ src.k <= src.len /\ src.id = 1 /\ ~src.calm /\ ~src.owed
  BY <1>4, <1>5 DEF Sendable
<1>7. quiet = 0 /\ inbox = << >> /\ faults = 0 /\ lostRun = 0 /\ frame = NoFrame
  BY DEF Init
<1>8. PICK video \in BOOLEAN :
        pes = [isVideo |-> video, CC |-> -1, bufferPos |-> 0, buf |-> << >>,
               started |-> FALSE, haveFrame |-> FALSE, missedPacket |-> 0,
               pesDataLen |-> 0, id |-> 0, wanted |-> 0]
  BY DEF Init
<1>9. /\ pes \in Streams /\ ~pes.started /\ pes.bufferPos = 0 /\ pes.buf = << >>
      /\ pes.id = 0 /\ pes.CC = -1
  BY <1>1, <1>8 DEF Streams, Buffers
<1>10. /\ frame \in HandedOn /\ frame.id = 0 /\ frame.buf = << >> /\ frame.len = 0
  BY <1>1, <1>7 DEF NoFrame, HandedOn, Buffers
<1>11. Types
  <2>1. inbox \in Received /\ Len(inbox) = 0
    BY <1>7 DEF Received
  <2>2. src.id \in 1 .. MaxSent + 2
    BY <1>1, <1>6
  <2>3. IsPacket(src)
    BY <1>6 DEF IsPacket
  <2>4. faults \in 0 .. MaxFaults /\ lostRun \in 0 .. MaxBurst /\ quiet \in Counters
    BY <1>1, <1>5, <1>7
  <2>5. QED
    BY <1>9, <1>10, <2>1, <2>2, <2>3, <2>4 DEF Types
<1>12. PesOK
  BY <1>9, <1>10 DEF PesOK, StreamOK
<1>13. DeliveredIsIntact
  <2>1. frame.buf = [i \in 1 .. 0 |-> <<frame.id, i>>] /\ Len(frame.buf) = 0
    BY <1>10
  <2>2. QED
    BY <1>7, <1>10, <2>1 DEF DeliveredIsIntact
<1>14. UnderWay
  <2>1. Waiting(pes, frame, src, quiet + 1, lostRun + 1)
    BY <1>6, <1>9 DEF Waiting, Ordered
  <2>2. QED
    BY <1>7, <2>1 DEF UnderWay
<1>15. QED
  BY <1>6, <1>11, <1>12, <1>13, <1>14 DEF DemuxInv, CalmIsQuiet

LEMMA StepHolds ==
  ASSUME DemuxInv, [Next]_vars
  PROVE  DemuxInv' /\ (frame' # frame => frame'.id > frame.id)
<1>1. CASE Network
  <2>1. frame' = frame
    BY <1>1 DEF Network, Arrive, Lose, Duplicate, Swap, Fault
  <2>2. QED
    BY <1>1, <2>1, ArriveKeeps, LoseKeeps, DuplicateKeeps, SwapKeeps DEF Network
<1>2. CASE Demux
  <2>1. ASSUME DemuxMissed
        PROVE  frame' = frame
    BY <2>1 DEF DemuxMissed
  <2>2. QED
    BY <1>2, <2>1, PreviousKeeps, MissedKeeps, PacketKeeps DEF Demux
<1>3. CASE UNCHANGED vars
  <2>1. /\ src' = src /\ inbox' = inbox /\ faults' = faults /\ lostRun' = lostRun
        /\ quiet' = quiet /\ pes' = pes /\ frame' = frame
    BY <1>3 DEF vars, net
  <2>2. Types' /\ CalmIsQuiet' /\ PesOK' /\ DeliveredIsIntact'
    BY <2>1 DEF DemuxInv, Types, CalmIsQuiet, PesOK, DeliveredIsIntact
  <2>3. /\ First' = First /\ Second' = Second
        /\ Disturbed' <=> Disturbed
        /\ InOrder(inbox[1])' <=> InOrder(inbox[1])
    BY <2>1 DEF First, Second, Disturbed, InOrder
  <2>4. UnderWay'
    <3>1. Arrived => Arrived'
      <4>1. Deliverable(First)' <=> Deliverable(First)
        BY <2>1, <2>3 DEF Deliverable
      <4>2. Waiting(pes', frame', First', quiet', MaxBurst + 1)
              <=> Waiting(pes, frame, First, quiet, MaxBurst + 1)
        BY <2>1, <2>3
      <4>3. QED
        BY <2>1, <2>3, <4>1, <4>2 DEF Arrived
    <3>2. (Twice => Twice') /\ (Again => Again') /\ (Swapped => Swapped') /\ (Late => Late')
      BY <2>1, <2>3 DEF Twice, Again, Swapped, Late
    <3>3. Waiting(pes, frame, src, quiet + 1, lostRun + 1)
            <=> Waiting(pes', frame', src', quiet' + 1, lostRun' + 1)
      BY <2>1
    <3>4. QED
      BY <2>1, <3>1, <3>2, <3>3 DEF DemuxInv, UnderWay
  <2>5. QED
    BY <2>1, <2>2, <2>4 DEF DemuxInv
<1>4. QED
  BY <1>1, <1>2, <1>3 DEF Next, Ended

LEMMA InvMeans == DemuxInv => TypeOK /\ CalmFramesArrive
<1> SUFFICES ASSUME DemuxInv PROVE TypeOK /\ CalmFramesArrive
  OBVIOUS
<1> USE DEF DemuxInv
<1>1. TypeOK
  <2>1. /\ src.k \in 1 .. MaxLen /\ src.cc \in 0 .. CCMod - 1 /\ src.id \in 1 .. MaxSent + 2
        /\ Len(inbox) <= 2 /\ faults \in 0 .. MaxFaults /\ lostRun \in 0 .. MaxBurst
        /\ quiet \in 0 .. CCMod - 1
    <3>1. /\ src.id \in 1 .. MaxSent + 2 /\ Len(inbox) \in 0 .. 2 /\ faults \in 0 .. MaxFaults
          /\ lostRun \in 0 .. MaxBurst /\ quiet \in Counters
      BY DEF Types
    <3>2. src.k \in 1 .. MaxLen /\ src.cc \in Counters
      BY SrcTypes
    <3>3. Len(inbox) <= 2
      <4>1. \A n \in 0 .. 2 : n <= 2
        OBVIOUS
      <4>2. QED
        BY <3>1, <4>1, Zenon
    <3>4. QED
      BY <3>1, <3>2, <3>3, Zenon DEF Counters
  <2>2. /\ pes.CC \in Counters \union {-1} /\ pes.bufferPos \in Nat /\ pes.wanted \in 0 .. MaxLen
        /\ pes.pesDataLen \in 0 .. MaxLen /\ pes.missedPacket \in 0 .. 1
        /\ pes.isVideo \in BOOLEAN /\ pes.started \in BOOLEAN /\ pes.haveFrame \in BOOLEAN
        /\ pes.id \in Nat /\ frame.len \in 0 .. bufLen
    BY DEF Types, Streams, HandedOn
  <2>3. pes.CC \in -1 .. CCMod - 1
    BY <2>2, Bounds DEF Counters
  <2>4. pes.bufferPos \in 0 .. MaxLen
    <3>1. pes.bufferPos = 0 \/ pes.bufferPos <= pes.wanted
      BY <2>2 DEF PesOK, StreamOK
    <3>2. QED
      BY <2>2, <3>1, Bounds
  <2>5. Len(pes.buf) <= bufLen
    <3>1. CASE ~pes.started
      BY <3>1, Bounds DEF PesOK, StreamOK
    <3>2. CASE pes.started
      <4>1. PICK skip \in 0 .. 1 : pes.buf = Run(pes.id, Fit(pes.bufferPos), skip)
        BY <3>2 DEF PesOK, StreamOK
      <4>2. Fit(pes.bufferPos) \in Nat /\ Fit(pes.bufferPos) <= bufLen
        BY <2>2, Bounds DEF Fit
      <4>3. Len(pes.buf) = Fit(pes.bufferPos)
        <5>1. Len(Run(pes.id, Fit(pes.bufferPos), skip)) = Fit(pes.bufferPos)
          BY <2>2, <4>1, <4>2, Runs, Zenon
        <5>2. QED
          BY <4>1, <5>1
      <4>4. QED
        BY <4>2, <4>3
    <3>3. QED
      BY <3>1, <3>2
  <2>6. QED
    BY <2>1, <2>2, <2>3, <2>4, <2>5 DEF TypeOK
<1>2. CalmFramesArrive
  <2>1. SUFFICES ASSUME inbox # << >>, ~StartsNext, Head(inbox).pusi, Head(inbox).s.owed
                 PROVE  frame.id = Head(inbox).s.id - 1 /\ frame.whole
    BY DEF CalmFramesArrive
  <2>2. /\ Len(inbox) \in 1 .. 2 /\ Head(inbox) = inbox[1] /\ inbox[1] = Packet(First)
        /\ IsPacket(First)
    BY <2>1, EmptySeq, HeadTailProperties DEF Types, Received, First
  <2>3. Head(inbox).s = First /\ First.owed /\ (First.k = 1)
    <3>1. Packet(First).s = First /\ Packet(First).pusi = (First.k = 1)
      BY <2>2, PacketTypes
    <3>2. Packet(First).s.owed /\ Packet(First).pusi
      BY <2>1, <2>2
    <3>3. QED
      BY <2>2, <3>1, <3>2, Zenon
  <2>4. ~(pes.started /\ pes.haveFrame)
    BY <2>1 DEF StartsNext
  <2>5. \E n, g : Waiting(pes, frame, First, n, g)
    BY <2>2, <2>3 DEF UnderWay, Arrived, Twice, Again, Swapped, Late
  <2>6. pes.id = First.id - 1 /\ frame.id = pes.id /\ frame.whole
    BY <2>3, <2>4, <2>5 DEF Waiting
  <2>7. QED
    BY <2>3, <2>6
<1>3. QED
  BY <1>1, <1>2

LEMMA InvHolds == Spec => []DemuxInv
<1>1. DemuxInv /\ [Next]_vars => DemuxInv'
  BY StepHolds
<1>2. QED
  BY <1>1, InitHolds, PTL DEF Spec

(* The stream's buffer and counters, and the network's, stay within their   *)
(* bounds: a frame of any length writes at most bufLen pieces.              *)
THEOREM TypeCorrect == Spec => []TypeOK
BY InvHolds, InvMeans, PTL

(* However packets are lost in bursts that the continuity counter can tell, *)
(* sent twice or swapped: what demuxTSPacket hands on is the beginning of   *)
(* one frame, none of it missing and none of it twice.                      *)
THEOREM FramesAreIntact == Spec => []DeliveredIsIntact
<1>1. DemuxInv => DeliveredIsIntact
  BY DEF DemuxInv
<1>2. QED
  BY <1>1, InvHolds, PTL

(* A frame that no fault touches, nor any of the CCMod - 1 packets before   *)
(* it, has been handed on whole when the packet after it is consumed.       *)
THEOREM StreamRecovers == Spec => []CalmFramesArrive
BY InvHolds, InvMeans, PTL

(* Frames are handed on in the order they were sent, none of them twice.    *)
THEOREM FramesKeepOrder == Spec => FramesInOrder
<1>1. DemuxInv /\ [Next]_vars => [frame' # frame => frame'.id > frame.id]_vars
  BY StepHolds
<1>2. QED
  BY <1>1, InvHolds, PTL DEF Spec, FramesInOrder

===============================================================================
