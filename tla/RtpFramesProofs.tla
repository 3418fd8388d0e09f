--------------------------- MODULE RtpFramesProofs ----------------------------
(***************************************************************************)
(* Proofs about the RTP demultiplexer, for any number of buffers, any      *)
(* modulus of the sequence numbers, any number and length of frames, with  *)
(* pauses or without, and any number of faults.                            *)
(***************************************************************************)
EXTENDS RtpFrames, SequenceTheorems, FiniteSetTheorems, TLAPS

-------------------------------------------------------------------------------
(* The sequence number *)

(* How many packets are missing between one with counter a and one with c,  *)
(* as far as their counters tell.                                           *)
Gap(a, c) == IF c > a THEN c - a - 1 ELSE c - a - 1 + SeqMod

Counters == 0 .. SeqMod - 1

(* The counter of the next packet, and of the one after it.                 *)
LEMMA CounterSteps ==
  ASSUME NEW c \in Counters
  PROVE  /\ (c + 1) % SeqMod = IF c + 1 < SeqMod THEN c + 1 ELSE 0
         /\ (c + 2) % SeqMod = IF c + 2 < SeqMod THEN c + 2 ELSE c + 2 - SeqMod
<1>1. SeqMod \in Nat /\ SeqMod >= 3
  BY RtpAssumption DEF RtpAssumption
<1>2. ASSUME NEW a \in Nat, a < SeqMod
      PROVE  a % SeqMod = a
  BY <1>1, <1>2
<1>3. ASSUME NEW a \in Nat, a >= SeqMod, a < 2 * SeqMod
      PROVE  a % SeqMod = a - SeqMod
  <2>1. /\ a = SeqMod * (a \div SeqMod) + (a % SeqMod)
        /\ a \div SeqMod \in Int /\ a % SeqMod \in 0 .. SeqMod - 1
    BY <1>1, <1>3
  <2>2. a \div SeqMod >= 1
    BY <1>1, <1>3, <2>1
  <2>3. a \div SeqMod <= 1
    BY <1>1, <1>3, <2>1
  <2>4. a \div SeqMod = 1
    BY <2>1, <2>2, <2>3
  <2>5. SeqMod * (a \div SeqMod) = SeqMod
    BY <2>4, <1>1
  <2>6. QED
    BY <2>1, <2>5, <1>1
<1>4. (c + 1) % SeqMod = IF c + 1 < SeqMod THEN c + 1 ELSE 0
  BY <1>1, <1>2, <1>3 DEF Counters
<1>5. (c + 2) % SeqMod = IF c + 2 < SeqMod THEN c + 2 ELSE c + 2 - SeqMod
  BY <1>1, <1>2, <1>3 DEF Counters
<1>6. QED
  BY <1>4, <1>5

(* A packet further on has one more missing before it, until the counter    *)
(* comes round; none is missing when the counter follows on.                *)
LEMMA Gaps ==
  ASSUME NEW a \in Counters, NEW c \in Counters
  PROVE  /\ Gap(a, c) \in Counters
         /\ Gap(a, c) = 0 <=> (a + 1) % SeqMod = c
         /\ (c + 1) % SeqMod \in Counters
         /\ Gap(a, (c + 1) % SeqMod) = IF Gap(a, c) = SeqMod - 1 THEN 0 ELSE Gap(a, c) + 1
         /\ Gap(c, (c + 1) % SeqMod) = 0 /\ Gap(c, (c + 2) % SeqMod) = 1
         /\ Gap(c, c) # 0 /\ Gap((c + 1) % SeqMod, c) # 0
         /\ (((c + 1) % SeqMod) + 1) % SeqMod = (c + 2) % SeqMod
<1> DEFINE next == (c + 1) % SeqMod
<1>1. SeqMod \in Nat /\ SeqMod >= 3
  BY RtpAssumption DEF RtpAssumption
<1>2. next = IF c + 1 < SeqMod THEN c + 1 ELSE 0
  BY CounterSteps
<1>3. next \in Counters
  BY <1>1, <1>2 DEF Counters
<1>4. (next + 1) % SeqMod = IF next + 1 < SeqMod THEN next + 1 ELSE 0
  BY <1>3, CounterSteps
<1>5. /\ (a + 1) % SeqMod = IF a + 1 < SeqMod THEN a + 1 ELSE 0
      /\ (c + 2) % SeqMod = IF c + 2 < SeqMod THEN c + 2 ELSE c + 2 - SeqMod
  BY CounterSteps
<1> HIDE DEF next
<1>6. /\ Gap(a, c) \in Counters
      /\ Gap(a, c) = 0 <=> (a + 1) % SeqMod = c
  BY <1>1, <1>5 DEF Gap, Counters
<1>7. Gap(a, next) = IF Gap(a, c) = SeqMod - 1 THEN 0 ELSE Gap(a, c) + 1
  BY <1>1, <1>2 DEF Gap, Counters
<1>8. /\ Gap(c, next) = 0 /\ Gap(c, (c + 2) % SeqMod) = 1
      /\ Gap(c, c) # 0 /\ Gap(next, c) # 0
      /\ (next + 1) % SeqMod = (c + 2) % SeqMod
  BY <1>1, <1>2, <1>4, <1>5 DEF Gap, Counters
<1>9. QED
  BY <1>3, <1>6, <1>7, <1>8 DEF next

-------------------------------------------------------------------------------
(* Types *)

Sendable == [id : Nat \ {0}, codec : Codecs \union {"other"}, k : 1 .. MaxLen, seq : Counters,
             len : 1 .. MaxLen, calm : BOOLEAN, owed : BOOLEAN]
IsPacket(x) == x \in Sendable /\ x.k <= x.len

Content == (Nat \X Nat) \union {<< >>}
Memory  == [1 .. Room -> Content]

NetTypes ==
  /\ IsPacket(src) /\ src.id <= MaxSent + 2 /\ (src.id = MaxSent + 2 => src.k = 1)
  /\ src.codec \in Codecs
  /\ inbox \in Seq(Sendable) /\ Len(inbox) \in 0 .. 2
  /\ \A i \in 1 .. Len(inbox) : IsPacket(inbox[i])
  /\ faults \in 0 .. MaxFaults /\ lostRun \in 0 .. MaxBurst

RtpTypes ==
  /\ prevseq \in Counters /\ failed \in BOOLEAN /\ dataLen \in Nat
  /\ mem \in [Buffers -> Memory]

PoolTypes ==
  /\ emptyMbx \in Seq(Buffers) /\ atUser \in Seq(Buffers)
  /\ buffer \in Buffers \union {NULL}

SeenTypes == joined \in Nat /\ split \in BOOLEAN

(* No more is appended than was sent, copies included.                      *)
Pos(x) == (x.id - 1) * MaxLen + x.k
Counted == dataLen + Len(inbox) <= Pos(src) - 1 + faults

Types == NetTypes /\ RtpTypes /\ PoolTypes /\ SeenTypes /\ Counted

-------------------------------------------------------------------------------
(* What the session holds *)

Filled(b, id, n) == \A i \in 1 .. n : mem[b][i] = <<id, i>>

(* A JPEG frame in the making is whole so far: up to packet x, if it has    *)
(* not failed, was not split, and is not the one the receiver joined in.    *)
Building(x) ==
  x.codec = "JPEG" /\ x.k > 1 /\ ~failed /\ ~split /\ x.id # joined =>
    buffer # NULL /\ Filled(buffer, x.id, x.k - 1)

(* Packet x is at most n packets after the one that follows on; if it looks *)
(* as if it followed on it does.                                            *)
Near(x, n) ==
  joined # 0 => Gap(prevseq, x.seq) <= n /\ (Gap(prevseq, x.seq) = 0 => Building(x))

(* The frame before that of x was handed on.                                *)
Announced(x) ==
  /\ frame.sent # << >> /\ frame.sent.id = x.id - 1 /\ ~frame.failed
  /\ frame.split \/ Intact

(* The frame of x, if it fits the buffer, is there up to packet x.          *)
Kept(x) ==
  Deliverable(x) =>
    /\ x.codec = "JPEG" => ~failed
    /\ x.codec = "H264" /\ x.k > 1 => dataLen = x.k - 1
    /\ x.k > 1 => split \/ (buffer # NULL /\ Filled(buffer, x.id, x.k - 1))

(* What holds when packet x of a frame sent in calm is about to come.       *)
Held(x) ==
  /\ x.calm => Gap(prevseq, x.seq) = 0 /\ Kept(x)
  /\ x.k = 1 /\ x.owed => Announced(x)

(* Packet y is the one after x.                                             *)
Follows(y, x) ==
  /\ y.seq = (x.seq + 1) % SeqMod /\ y.codec = x.codec
  /\ IF x.k < x.len THEN y.id = x.id /\ y.k = x.k + 1 /\ y.len = x.len
                    ELSE y.id = x.id + 1 /\ y.k = 1

(* The sender's next packet is sent in calm, or owes a frame, only if x,    *)
(* which came before it, was sent in calm.                                  *)
CalmAfter(x) ==
  /\ src.k > 1 /\ src.calm => x.calm
  /\ src.k = 1 /\ src.owed => x.calm /\ Deliverable(x)

(* A fault has just happened: nothing is owed.                              *)
Disturbed == ~src.calm /\ (src.k = 1 => ~src.owed)

(* What is on its way: nothing; one packet; a packet and its copy; the      *)
(* copy; two swapped packets; the second of them; a packet that will be     *)
(* rejected, after which the receiver is ready for the sender's next one.   *)
First  == inbox[1]
Second == inbox[2]

Quiet == inbox = << >> /\ Near(src, lostRun + 1) /\ Held(src)
Arrived ==
  /\ Len(inbox) = 1 /\ lostRun = 0 /\ Follows(src, First)
  /\ CalmAfter(First) /\ Near(First, SeqMod - 2) /\ Held(First)
Twice ==
  /\ Len(inbox) = 2 /\ lostRun = 0 /\ Follows(src, First) /\ Disturbed
  /\ Near(First, SeqMod - 2) /\ Held(First)
  /\ Second.seq = First.seq /\ Second.k = First.k /\ Second.len = First.len
  /\ Second.id = First.id /\ Second.codec = First.codec /\ ~Second.owed
Again ==
  /\ Len(inbox) = 1 /\ lostRun = 0 /\ Follows(src, First) /\ Disturbed
  /\ prevseq = First.seq /\ joined # 0 /\ ~First.owed
Swapped ==
  /\ Len(inbox) = 2 /\ lostRun = 0 /\ Follows(First, Second) /\ Follows(src, First)
  /\ Disturbed /\ ~First.owed /\ ~Second.owed /\ Near(Second, SeqMod - 2)
Late ==
  /\ Len(inbox) = 1 /\ lostRun = 0 /\ Disturbed /\ ~First.owed /\ joined # 0
  /\ prevseq = (First.seq + 1) % SeqMod /\ src.seq = (First.seq + 2) % SeqMod
  /\ src.codec = First.codec

Skipped ==
  /\ Len(inbox) = 1 /\ lostRun = 0 /\ First.codec = "other" /\ ~First.owed
  /\ src.seq = (First.seq + 1) % SeqMod
  /\ src.codec = "JPEG" => First.id = src.id
  /\ joined # 0 /\ Gap(prevseq, First.seq) = 0 => Building(src)
  /\ src.calm => Gap(prevseq, First.seq) = 0 /\ Kept(src)
  /\ src.k = 1 /\ src.owed => Announced(src)

UnderWay == Quiet \/ Arrived \/ Twice \/ Again \/ Swapped \/ Late \/ Skipped

JoinsFirst == joined = 0 => frame = NoFrame

RtpInv == Types /\ UnderWay /\ JoinsFirst /\ IntactUnlessSplit

-------------------------------------------------------------------------------
(* The sender *)

(* What the sender may send after x, in calm or not.                        *)
LEMMA AfterMoves ==
  ASSUME NEW x, IsPacket(x), NEW calm \in BOOLEAN, NEW y \in After(x, calm)
  PROVE  /\ IsPacket(y) /\ Follows(y, x) /\ Pos(y) >= Pos(x) + 1
         /\ y.id \in x.id .. x.id + 1 /\ (y.k = 1 => y.id = x.id + 1)
         /\ y.calm => calm
         /\ y.k > 1 /\ y.calm => x.calm
         /\ y.k = 1 /\ y.owed => x.calm /\ calm /\ Deliverable(x)
<1>1. /\ x.id \in Nat \ {0} /\ x.codec \in Codecs \union {"other"} /\ x.k \in 1 .. MaxLen
      /\ x.seq \in Counters /\ x.len \in 1 .. MaxLen
      /\ x.calm \in BOOLEAN /\ x.owed \in BOOLEAN /\ x.k <= x.len
      /\ MaxLen \in Nat
  BY RtpAssumption DEF IsPacket, Sendable, RtpAssumption
<1> DEFINE seq == (x.seq + 1) % SeqMod
<1>2. seq \in Counters
  BY <1>1, Gaps
<1> HIDE DEF seq
<1>3. CASE x.k < x.len
  <2> DEFINE both == x.calm /\ calm
  <2>1. both \in BOOLEAN
    BY <1>1
  <2>2. y = [x EXCEPT !.k = @ + 1, !.seq = seq, !.calm = @ /\ calm]
    BY <1>3 DEF After, seq
  <2>3. y = [x EXCEPT !.k = x.k + 1, !.seq = seq, !.calm = both]
    BY <2>2 DEF IsPacket, Sendable
  <2>4. x.k + 1 \in 1 .. MaxLen
    BY <1>1, <1>3
  <2> HIDE DEF both
  <2>5. y = [id |-> x.id, codec |-> x.codec, k |-> x.k + 1, seq |-> seq, len |-> x.len,
             calm |-> both, owed |-> x.owed]
    BY <2>3 DEF IsPacket, Sendable
  <2>6. y \in Sendable
    BY <1>1, <1>2, <2>1, <2>4, <2>5 DEF Sendable
  <2>7. /\ y.id = x.id /\ y.codec = x.codec /\ y.k = x.k + 1 /\ y.seq = seq
        /\ y.len = x.len /\ y.calm = both
    BY <2>5
  <2>8. Pos(y) >= Pos(x) + 1
    <3>1. (x.id - 1) * MaxLen \in Int
      BY <1>1
    <3>2. QED
      BY <1>1, <2>7, <3>1 DEF Pos
  <2>9. y.calm => x.calm /\ calm
    BY <2>7 DEF both
  <2>10. y.k # 1 /\ y.k <= y.len /\ y.id \in x.id .. x.id + 1
    BY <1>1, <1>3, <2>7
  <2>11. Follows(y, x)
    BY <1>3, <2>7 DEF Follows, seq
  <2>12. QED
    BY <2>6, <2>8, <2>9, <2>10, <2>11 DEF IsPacket
<1>4. CASE x.k = x.len
  <2> DEFINE owed == x.calm /\ calm /\ Deliverable(x)
  <2>1. y \in Frames(x.id + 1, x.codec, seq, calm, owed)
    BY <1>1, <1>4 DEF After, seq
  <2>2. owed \in BOOLEAN
    BY <1>1
  <2> HIDE DEF owed
  <2>3. /\ y.id = x.id + 1 /\ y.codec = x.codec /\ y.k = 1 /\ y.seq = seq
        /\ y.len \in 1 .. MaxLen /\ y.calm = calm /\ y.owed = owed
        /\ y = [id |-> y.id, codec |-> y.codec, k |-> y.k, seq |-> y.seq, len |-> y.len,
                calm |-> y.calm, owed |-> y.owed]
    <3>1. Lengths(x.id + 1, x.codec) \subseteq 1 .. MaxLen
      BY DEF Lengths
    <3>2. QED
      BY <2>1, <3>1 DEF Frames
  <2>4. y \in Sendable
    <3>1. y.id \in Nat \ {0} /\ y.k \in 1 .. MaxLen
      BY <1>1, <2>3
    <3>2. y.codec \in Codecs \union {"other"} /\ y.seq \in Counters /\ y.calm \in BOOLEAN /\ y.owed \in BOOLEAN
      BY <1>1, <1>2, <2>2, <2>3
    <3>3. QED
      BY <2>3, <3>1, <3>2 DEF Sendable
  <2>5. Pos(y) >= Pos(x) + 1
    <3>1. x.id * MaxLen = (x.id - 1) * MaxLen + MaxLen /\ (x.id - 1) * MaxLen \in Int
      BY <1>1
    <3>2. (y.id - 1) * MaxLen = x.id * MaxLen
      BY <1>1, <2>3
    <3>3. QED
      BY <1>1, <2>3, <3>1, <3>2 DEF Pos
  <2>6. y.k <= y.len /\ y.id \in x.id .. x.id + 1 /\ ~(y.k > 1)
    BY <1>1, <2>3
  <2>7. Follows(y, x)
    BY <1>1, <1>4, <2>3 DEF Follows, seq
  <2>8. /\ y.calm => calm
        /\ y.owed => x.calm /\ calm /\ Deliverable(x)
    BY <2>3, Zenon DEF owed
  <2>9. QED
    BY <2>3, <2>4, <2>5, <2>6, <2>7, <2>8, Zenon DEF IsPacket
<1>5. QED
  BY <1>1, <1>3, <1>4

(* A copy of a packet is a packet of the same kind.                         *)
LEMMA CopyMoves ==
  ASSUME NEW x, IsPacket(x)
  PROVE  LET y == NotOwed(x)
         IN  /\ IsPacket(y) /\ ~y.owed /\ y.id = x.id /\ y.codec = x.codec /\ y.k = x.k
             /\ y.seq = x.seq /\ y.len = x.len /\ y.calm = x.calm
  BY DEF NotOwed, IsPacket, Sendable

(* One packet arrives, or two.                                              *)
LEMMA InboxOfOne ==
  ASSUME NEW x, IsPacket(x), inbox' = <<x>>
  PROVE  /\ inbox' \in Seq(Sendable) /\ Len(inbox') = 1 /\ First' = x
         /\ \A i \in 1 .. Len(inbox') : IsPacket(inbox'[i])
BY DEF First, IsPacket

LEMMA InboxOfTwo ==
  ASSUME NEW x, IsPacket(x), NEW y, IsPacket(y), inbox' = <<x, y>>
  PROVE  /\ inbox' \in Seq(Sendable) /\ Len(inbox') = 2 /\ First' = x /\ Second' = y
         /\ \A i \in 1 .. Len(inbox') : IsPacket(inbox'[i])
BY DEF First, Second, IsPacket

(* What is left when a packet has been consumed.                            *)
LEMMA TailMoves ==
  ASSUME NetTypes, inbox # << >>, inbox' = Tail(inbox)
  PROVE  /\ inbox' \in Seq(Sendable) /\ Len(inbox) \in 1 .. 2 /\ Len(inbox') = Len(inbox) - 1
         /\ Head(inbox) = First /\ IsPacket(First)
         /\ \A i \in 1 .. Len(inbox') : IsPacket(inbox'[i])
         /\ Len(inbox) = 1 => inbox' = << >>
         /\ Len(inbox) = 2 => IsPacket(Second) /\ First' = Second
<1>1. /\ inbox \in Seq(Sendable) /\ Len(inbox) \in 1 .. 2
      /\ \A i \in 1 .. Len(inbox) : IsPacket(inbox[i])
  BY EmptySeq DEF NetTypes
<1>2. /\ Head(inbox) = inbox[1] /\ Tail(inbox) \in Seq(Sendable)
      /\ Len(Tail(inbox)) = Len(inbox) - 1
      /\ \A i \in 1 .. Len(Tail(inbox)) : Tail(inbox)[i] = inbox[i + 1]
  BY <1>1, HeadTailProperties
<1>3. Len(inbox) = 1 => inbox' = << >>
  BY <1>1, <1>2, EmptySeq
<1>4. QED
  BY <1>1, <1>2, <1>3 DEF First, Second

(* Nothing the receiver holds changes: what was known of a packet is known  *)
(* of it where it is now.                                                   *)
LEMMA NetworkRests ==
  ASSUME UNCHANGED <<rtp, pool, seen>>
  PROVE  /\ \A n : src = First' /\ Near(src, n) => Near(First, n)'
         /\ \A n : src = Second' /\ Near(src, n) => Near(Second, n)'
         /\ src = First' /\ Held(src) => Held(First)'
BY DEF rtp, pool, seen, Near, Building, Filled, Held, Kept, Announced, Intact

(* How far the packet to come may be from the one that follows on.          *)
LEMMA NearEnough ==
  ASSUME Types, NEW n \in Nat, n <= MaxBurst + 1, Near(src, n)
  PROVE  Near(src, SeqMod - 2)
<1>1. MaxBurst \in 0 .. SeqMod - 3 /\ SeqMod \in Nat
  BY RtpAssumption DEF RtpAssumption
<1>2. Gap(prevseq, src.seq) \in Counters
  BY Gaps DEF Types, NetTypes, RtpTypes, IsPacket, Sendable
<1>3. n <= SeqMod - 2 /\ Gap(prevseq, src.seq) \in Nat
  BY <1>1, <1>2 DEF Counters
<1>4. Gap(prevseq, src.seq) <= n => Gap(prevseq, src.seq) <= SeqMod - 2
  BY <1>1, <1>3
<1>5. QED
  BY <1>4 DEF Near

(* The sender and the network keep to the invariant.                        *)
LEMMA NetworkKeeps ==
  ASSUME Types, UnderWay, Network
  PROVE  Types' /\ UnderWay'
<1>1. /\ IsPacket(src) /\ src.id <= MaxSent /\ src.id \in Nat \ {0} /\ MaxSent \in Nat
      /\ inbox = << >> /\ Len(inbox) = 0 /\ faults \in 0 .. MaxFaults
      /\ lostRun \in 0 .. MaxBurst /\ MaxFaults \in Nat /\ MaxBurst \in Nat
  <2>1. inbox = << >> /\ src.id <= MaxSent
    BY DEF Network, Arrive, Lose, Duplicate, Swap, SendRejectable, CanSend
  <2>2. IsPacket(src) /\ faults \in 0 .. MaxFaults /\ lostRun \in 0 .. MaxBurst
    BY DEF Types, NetTypes
  <2>3. src.id \in Nat \ {0}
    BY <2>2 DEF IsPacket, Sendable
  <2>4. MaxSent \in Nat /\ MaxFaults \in Nat /\ MaxBurst \in Nat
    BY RtpAssumption DEF RtpAssumption
  <2>5. QED
    BY <2>1, <2>2, <2>3, <2>4
<1>2. Near(src, lostRun + 1) /\ Held(src)
  BY <1>1 DEF UnderWay, Quiet, Arrived, Twice, Again, Swapped, Late, Skipped
<1>3. Near(src, SeqMod - 2)
  <2>1. lostRun + 1 \in Nat /\ lostRun + 1 <= MaxBurst + 1
    BY <1>1
  <2>2. QED
    BY <1>2, <2>1, NearEnough
<1>4. UNCHANGED <<rtp, pool, seen>>
  BY DEF Network, Arrive, Lose, Duplicate, Swap, SendRejectable
<1>5. RtpTypes' /\ PoolTypes' /\ SeenTypes'
  BY <1>4 DEF Types, RtpTypes, PoolTypes, SeenTypes, rtp, pool, seen
<1>6. dataLen' = dataLen /\ dataLen \in Nat /\ dataLen <= Pos(src) - 1 + faults
  BY <1>1, <1>4 DEF rtp, Types, RtpTypes, Counted, Pos, IsPacket, Sendable
<1>7. \A x : IsPacket(x) => Pos(x) \in Int /\ x.id \in Nat
  BY RtpAssumption DEF RtpAssumption, Pos, IsPacket, Sendable
<1>0. src.codec \in Codecs
  BY DEF Types, NetTypes
<1>8. CASE Arrive
  <2>1. inbox' = <<src>> /\ src' \in After(src, TRUE) /\ lostRun' = 0 /\ faults' = faults
    BY <1>8 DEF Arrive
  <2>2. /\ IsPacket(src') /\ Follows(src', src) /\ Pos(src') >= Pos(src) + 1
        /\ src'.id \in src.id .. src.id + 1
        /\ src'.k > 1 /\ src'.calm => src.calm
        /\ src'.k = 1 /\ src'.owed => src.calm /\ Deliverable(src)
    BY <1>1, <2>1, AfterMoves
  <2>3. /\ inbox' \in Seq(Sendable) /\ Len(inbox') = 1 /\ First' = src
        /\ \A i \in 1 .. Len(inbox') : IsPacket(inbox'[i])
    BY <1>1, <2>1, InboxOfOne
  <2>4. NetTypes'
    <3>1. src'.codec \in Codecs
      BY <1>0, <2>2 DEF Follows
    <3>2. QED
      BY <1>1, <2>1, <2>2, <2>3, <3>1 DEF NetTypes
  <2>5. Counted'
    <3>1. Pos(src)' = Pos(src') /\ Pos(src') \in Int /\ Pos(src) \in Int
      BY <1>1, <1>7, <2>2 DEF Pos
    <3>2. QED
      BY <1>1, <1>6, <2>1, <2>2, <2>3, <3>1 DEF Counted
  <2>6. Near(First, SeqMod - 2)' /\ Held(First)'
    BY <1>2, <1>3, <1>4, <2>3, NetworkRests
  <2>7. Arrived'
    BY <2>1, <2>2, <2>3, <2>6 DEF Arrived, CalmAfter, Follows
  <2>8. QED
    BY <1>5, <2>4, <2>5, <2>7 DEF Types, UnderWay
<1>9. CASE Lose
  <2>1. /\ inbox' = inbox /\ src' \in After(src, FALSE) /\ lostRun' = lostRun + 1
        /\ lostRun < MaxBurst /\ faults' \in faults .. faults + 1
        /\ faults' \in 0 .. MaxFaults
    <3>1. /\ inbox' = inbox /\ src' \in After(src, FALSE) /\ lostRun' = lostRun + 1
          /\ lostRun < MaxBurst /\ (lostRun > 0 \/ faults < MaxFaults)
          /\ faults' = IF lostRun = 0 THEN faults + 1 ELSE faults
      BY <1>9 DEF Lose
    <3>2. faults' \in faults .. faults + 1 /\ faults' \in 0 .. MaxFaults
      BY <1>1, <3>1
    <3>3. QED
      BY <3>1, <3>2
  <2>2. /\ IsPacket(src') /\ Follows(src', src) /\ Pos(src') >= Pos(src) + 1
        /\ src'.id \in src.id .. src.id + 1 /\ ~src'.calm
        /\ ~(src'.k = 1 /\ src'.owed)
    BY <1>1, <2>1, AfterMoves
  <2>3. NetTypes'
    <3>1. src'.codec \in Codecs
      BY <1>0, <2>2 DEF Follows
    <3>2. QED
      BY <1>1, <2>1, <2>2, <3>1 DEF NetTypes, Types
  <2>4. Counted'
    <3>1. Pos(src)' = Pos(src') /\ Pos(src') \in Int /\ Pos(src) \in Int
      BY <1>1, <1>7, <2>2 DEF Pos
    <3>2. QED
      BY <1>1, <1>6, <2>1, <2>2, <3>1 DEF Counted
  <2>5. Near(src, lostRun + 1)'
    <3>1. /\ prevseq' = prevseq /\ joined' = joined /\ prevseq \in Counters
          /\ src.seq \in Counters /\ src'.seq = (src.seq + 1) % SeqMod
      BY <1>1, <1>4, <2>2 DEF rtp, seen, Follows, IsPacket, Sendable, Types, RtpTypes
    <3>2. /\ Gap(prevseq, src.seq) \in Counters
          /\ Gap(prevseq, src'.seq) =
               IF Gap(prevseq, src.seq) = SeqMod - 1 THEN 0 ELSE Gap(prevseq, src.seq) + 1
      <4> DEFINE next == (src.seq + 1) % SeqMod
      <4>1. /\ Gap(prevseq, src.seq) \in Counters
            /\ Gap(prevseq, next) =
                 IF Gap(prevseq, src.seq) = SeqMod - 1 THEN 0 ELSE Gap(prevseq, src.seq) + 1
        BY <3>1, Gaps
      <4>2. src'.seq = next
        BY <3>1
      <4> HIDE DEF next
      <4>3. QED
        BY <4>1, <4>2, Zenon
    <3>3. MaxBurst \in 0 .. SeqMod - 3 /\ SeqMod \in Nat
      BY RtpAssumption DEF RtpAssumption
    <3>4. joined # 0 => Gap(prevseq, src.seq) <= lostRun + 1
      BY <1>2 DEF Near
    <3>5. joined # 0 => /\ Gap(prevseq, src'.seq) <= lostRun' + 1
                        /\ Gap(prevseq, src'.seq) # 0
      <4> SUFFICES ASSUME joined # 0
                   PROVE  /\ Gap(prevseq, src'.seq) <= lostRun' + 1
                          /\ Gap(prevseq, src'.seq) # 0
        OBVIOUS
      <4> DEFINE g == Gap(prevseq, src.seq)
                 h == Gap(prevseq, src'.seq)
      <4>1. g \in Nat /\ g <= lostRun + 1 /\ h = IF g = SeqMod - 1 THEN 0 ELSE g + 1
        BY <3>2, <3>4 DEF Counters
      <4>2. lostRun \in Nat /\ lostRun <= MaxBurst /\ lostRun < MaxBurst
            /\ lostRun' = lostRun + 1
        BY <1>1, <2>1
      <4> HIDE DEF g, h
      <4>3. h <= lostRun' + 1 /\ h # 0
        BY <3>3, <4>1, <4>2
      <4>4. QED
        BY <4>3 DEF h
    <3>6. QED
      BY <3>1, <3>5 DEF Near, Gap
  <2>6. Held(src)'
    BY <2>2 DEF Held
  <2>7. QED
    BY <1>1, <1>5, <2>1, <2>3, <2>4, <2>5, <2>6 DEF Types, UnderWay, Quiet
<1>10. CASE Duplicate
  <2>1. /\ inbox' = <<src, NotOwed(src)>> /\ src' \in After(src, FALSE) /\ lostRun' = 0
        /\ faults' = faults + 1 /\ faults' \in 0 .. MaxFaults
    <3>1. /\ inbox' = <<src, NotOwed(src)>> /\ src' \in After(src, FALSE) /\ lostRun' = 0
          /\ faults' = faults + 1 /\ faults < MaxFaults
      BY <1>10 DEF Duplicate
    <3>2. faults \in Nat /\ faults < MaxFaults /\ faults' = faults + 1 /\ MaxFaults \in Nat
      BY <1>1, <3>1
    <3>3. faults' \in 0 .. MaxFaults
      BY <3>2
    <3>4. QED
      BY <3>1, <3>3
  <2>2. /\ IsPacket(src') /\ Follows(src', src) /\ Pos(src') >= Pos(src) + 1
        /\ src'.id \in src.id .. src.id + 1 /\ ~src'.calm
        /\ ~(src'.k = 1 /\ src'.owed)
    BY <1>1, <2>1, AfterMoves
  <2>3. /\ IsPacket(NotOwed(src)) /\ NotOwed(src).seq = src.seq /\ NotOwed(src).k = src.k
        /\ NotOwed(src).id = src.id /\ NotOwed(src).len = src.len
        /\ NotOwed(src).codec = src.codec /\ ~NotOwed(src).owed
    BY <1>1, CopyMoves
  <2>4. /\ inbox' \in Seq(Sendable) /\ Len(inbox') = 2 /\ First' = src
        /\ Second' = NotOwed(src)
        /\ \A i \in 1 .. Len(inbox') : IsPacket(inbox'[i])
    BY <1>1, <2>1, <2>3, InboxOfTwo
  <2>5. NetTypes'
    <3>1. src'.codec \in Codecs
      BY <1>0, <2>2 DEF Follows
    <3>2. QED
      BY <1>1, <2>1, <2>2, <2>4, <3>1 DEF NetTypes
  <2>6. Counted'
    <3>1. Pos(src)' = Pos(src') /\ Pos(src') \in Int /\ Pos(src) \in Int
      BY <1>1, <1>7, <2>2 DEF Pos
    <3>2. QED
      BY <1>1, <1>6, <2>1, <2>2, <2>4, <3>1 DEF Counted
  <2>7. Near(First, SeqMod - 2)' /\ Held(First)'
    BY <1>2, <1>3, <1>4, <2>4, NetworkRests
  <2>8. Twice'
    BY <2>1, <2>2, <2>3, <2>4, <2>7 DEF Twice, Disturbed, Follows
  <2>9. QED
    BY <1>5, <2>5, <2>6, <2>8 DEF Types, UnderWay
<1>11. CASE Swap
  <2>1. PICK next \in After(src, FALSE) :
          inbox' = <<NotOwed(next), NotOwed(src)>> /\ src' \in After(next, FALSE)
    BY <1>11 DEF Swap
  <2>2. lostRun' = 0 /\ faults' = faults + 1 /\ faults' \in 0 .. MaxFaults
    BY <1>1, <1>11 DEF Swap
  <2>3. /\ IsPacket(next) /\ Follows(next, src) /\ Pos(next) >= Pos(src) + 1
        /\ next.id \in src.id .. src.id + 1
    BY <1>1, <2>1, AfterMoves
  <2>4. /\ IsPacket(src') /\ Follows(src', next) /\ Pos(src') >= Pos(next) + 1
        /\ src'.id \in next.id .. next.id + 1 /\ ~src'.calm
        /\ (src'.k = 1 => src'.id = next.id + 1)
        /\ ~(src'.k = 1 /\ src'.owed)
    BY <2>1, <2>3, AfterMoves
  <2>5. /\ IsPacket(NotOwed(src)) /\ NotOwed(src).seq = src.seq /\ NotOwed(src).k = src.k
        /\ NotOwed(src).id = src.id /\ NotOwed(src).len = src.len
        /\ NotOwed(src).codec = src.codec /\ ~NotOwed(src).owed
    BY <1>1, CopyMoves
  <2>6. /\ IsPacket(NotOwed(next)) /\ NotOwed(next).seq = next.seq
        /\ NotOwed(next).k = next.k /\ NotOwed(next).id = next.id
        /\ NotOwed(next).len = next.len
        /\ NotOwed(next).codec = next.codec /\ ~NotOwed(next).owed
    BY <2>3, CopyMoves
  <2>7. /\ inbox' \in Seq(Sendable) /\ Len(inbox') = 2 /\ First' = NotOwed(next)
        /\ Second' = NotOwed(src)
        /\ \A i \in 1 .. Len(inbox') : IsPacket(inbox'[i])
    BY <2>1, <2>5, <2>6, InboxOfTwo
  <2>8. NetTypes'
    <3>1. src'.id \in Nat /\ next.id \in Nat /\ src'.id <= MaxSent + 2
      <4>1. src'.id \in Nat /\ next.id \in Nat
        BY <1>7, <2>3, <2>4
      <4>2. next.id <= src.id + 1 /\ src'.id <= next.id + 1
        BY <1>1, <2>3, <2>4, <4>1
      <4>3. QED
        BY <1>1, <4>1, <4>2
    <3>2. src'.id = MaxSent + 2 => src'.k = 1
      <4>1. CASE next.k < next.len
        BY <1>1, <1>7, <2>3, <2>4, <4>1 DEF Follows
      <4>2. CASE ~(next.k < next.len)
        BY <2>4, <4>2 DEF Follows
      <4>3. QED
        BY <4>1, <4>2
    <3>3. src'.codec \in Codecs
      BY <1>0, <2>3, <2>4 DEF Follows
    <3>4. QED
      BY <2>2, <2>4, <2>7, <3>1, <3>2, <3>3, <1>1 DEF NetTypes
  <2>9. Counted'
    <3>1. Pos(src)' = Pos(src') /\ Pos(src') \in Int /\ Pos(src) \in Int /\ Pos(next) \in Int
      BY <1>1, <1>7, <2>3, <2>4 DEF Pos
    <3>2. QED
      BY <1>1, <1>6, <2>2, <2>3, <2>4, <2>7, <3>1 DEF Counted
  <2>10. Near(Second, SeqMod - 2)'
    BY <1>3, <1>4, <2>5, <2>7
    DEF rtp, pool, seen, Near, Building, Filled
  <2>11. Swapped'
    BY <2>2, <2>3, <2>4, <2>5, <2>6, <2>7, <2>10 DEF Swapped, Disturbed, Follows
  <2>12. QED
    BY <1>5, <2>8, <2>9, <2>11 DEF Types, UnderWay
<1>12. CASE SendRejectable
  <2> DEFINE x == Rejectable(src)
  <2>1. /\ inbox' = <<x>> /\ lostRun' = 0 /\ faults' = faults + 1 /\ faults' \in 0 .. MaxFaults
    <3>1. inbox' = <<x>> /\ lostRun' = 0 /\ faults' = faults + 1 /\ faults < MaxFaults
      BY <1>12 DEF SendRejectable
    <3>2. faults' \in 0 .. MaxFaults
      BY <1>1, <3>1
    <3>3. QED
      BY <3>1, <3>2
  <2>2. /\ IsPacket(x) /\ x.codec = "other" /\ ~x.owed /\ x.id = src.id /\ x.seq = src.seq
    BY <1>1 DEF Rejectable, IsPacket, Sendable
  <2> HIDE DEF x
  <2>3. /\ inbox' \in Seq(Sendable) /\ Len(inbox') = 1 /\ First' = x
        /\ \A i \in 1 .. Len(inbox') : IsPacket(inbox'[i])
    BY <2>1, <2>2, InboxOfOne
  <2>4. src.seq \in Counters /\ (src.seq + 1) % SeqMod \in Counters
    BY <1>1, Gaps DEF IsPacket, Sendable
  <2>5. CASE src' = [src EXCEPT !.seq = (@ + 1) % SeqMod]
    <3>1. /\ IsPacket(src') /\ src'.id = src.id /\ src'.codec = src.codec /\ src'.k = src.k
          /\ src'.len = src.len /\ src'.calm = src.calm /\ src'.owed = src.owed
          /\ src'.seq = (src.seq + 1) % SeqMod
      BY <1>1, <2>4, <2>5 DEF IsPacket, Sendable
    <3>2. NetTypes'
      BY <1>1, <2>1, <2>3, <3>1 DEF NetTypes, Types
    <3>3. Counted'
      <4>1. Pos(src)' = Pos(src) /\ Pos(src) \in Int
        BY <1>1, <1>7, <3>1 DEF Pos
      <4>2. QED
        BY <1>1, <1>6, <2>1, <2>3, <4>1 DEF Counted
    <3>4. Building(src) => Building(src)'
      BY <1>4, <3>1 DEF Building, Filled, rtp, pool, seen
    <3>5. /\ src.calm => Gap(prevseq, src.seq) = 0 /\ Kept(src)
          /\ src.k = 1 /\ src.owed => Announced(src)
      BY <1>2 DEF Held
    <3>6. Kept(src) => Kept(src)'
      BY <1>4, <3>1 DEF Kept, Deliverable, Filled, rtp, pool, seen
    <3>7. Announced(src) => Announced(src)'
      BY <1>4, <3>1 DEF Announced, Intact, seen
    <3>8. Gap(prevseq, First.seq)' = Gap(prevseq, src.seq) /\ joined' = joined
      BY <1>4, <2>2, <2>3 DEF Gap, rtp, seen
    <3>9. joined # 0 /\ Gap(prevseq, src.seq) = 0 => Building(src)
      BY <1>2 DEF Near
    <3>10. Skipped'
      BY <2>1, <2>2, <2>3, <3>1, <3>4, <3>5, <3>6, <3>7, <3>8, <3>9 DEF Skipped
    <3>11. QED
      BY <1>5, <3>2, <3>3, <3>10 DEF Types, UnderWay
  <2>6. CASE src.codec = "H264" /\ src' \in After(src, FALSE)
    <3>1. /\ IsPacket(src') /\ Follows(src', src) /\ Pos(src') >= Pos(src) + 1
          /\ src'.id \in src.id .. src.id + 1 /\ ~src'.calm
          /\ ~(src'.k = 1 /\ src'.owed)
      BY <1>1, <2>6, AfterMoves
    <3>2. NetTypes'
      BY <1>1, <2>1, <2>3, <3>1 DEF NetTypes, Types, Follows
    <3>3. Counted'
      <4>1. Pos(src)' = Pos(src') /\ Pos(src') \in Int /\ Pos(src) \in Int
        BY <1>1, <1>7, <3>1 DEF Pos
      <4>2. QED
        BY <1>1, <1>6, <2>1, <2>3, <3>1, <4>1 DEF Counted
    <3>4. src'.codec = "H264" /\ src'.seq = (src.seq + 1) % SeqMod
      BY <2>6, <3>1 DEF Follows
    <3>5. Building(src)'
      BY <3>4 DEF Building
    <3>6. Skipped'
      BY <2>1, <2>2, <2>3, <3>1, <3>4, <3>5 DEF Skipped
    <3>7. QED
      BY <1>5, <3>2, <3>3, <3>6 DEF Types, UnderWay
  <2>7. QED
    BY <1>12, <2>5, <2>6 DEF SendRejectable
<1>13. QED
  BY <1>8, <1>9, <1>10, <1>11, <1>12 DEF Network

-------------------------------------------------------------------------------
(* The demultiplexer *)

Demux == DemuxJpeg \/ DemuxNalu \/ DemuxFragment

(* Where the piece of packet p goes, whether it does, and whether its frame *)
(* is marked failed.                                                        *)
Place(p) == IF p.codec = "JPEG" THEN p.k ELSE IF p.k = 1 THEN 1 ELSE dataLen + 1
Lands(p) == p.codec = "JPEG" => Fits(p)
Flagged(p) == p.codec = "JPEG" /\ (failed \/ Mismatch(p) \/ ~Fits(p))

(* The packets sent, and their copies, fill no more than the room there is. *)
LEMMA RoomCounted ==
  ASSUME Types
  PROVE  Room \in Nat /\ MaxLen <= Room /\ dataLen + Len(inbox) <= Room
<1>1. /\ MaxLen \in Nat \ {0} /\ MaxSent \in Nat /\ MaxFaults \in Nat
  BY RtpAssumption DEF RtpAssumption
<1>2. /\ src.id \in Nat \ {0} /\ src.k \in 1 .. MaxLen /\ src.id <= MaxSent + 2
      /\ (src.id = MaxSent + 2 => src.k = 1)
      /\ faults \in 0 .. MaxFaults /\ dataLen \in Nat /\ Len(inbox) \in Nat
      /\ dataLen + Len(inbox) <= Pos(src) - 1 + faults
  BY DEF Types, NetTypes, RtpTypes, Counted, IsPacket, Sendable
<1> DEFINE all == MaxLen * (MaxSent + 1)
           before == (src.id - 1) * MaxLen
<1>3. all \in Nat /\ all >= MaxLen /\ before \in Nat
  <2>1. MaxLen * MaxSent \in Nat /\ all = MaxLen * MaxSent + MaxLen
    BY <1>1
  <2>2. QED
    BY <1>1, <1>2, <2>1
<1>4. before + src.k - 1 <= all
  <2>1. CASE src.id = MaxSent + 2
    <3>1. before = all
      BY <1>1, <2>1
    <3>2. QED
      BY <1>2, <1>3, <2>1, <3>1
  <2>2. CASE src.id <= MaxSent + 1
    <3>1. src.id - 1 \in 0 .. MaxSent
      BY <1>1, <1>2, <2>2
    <3>2. (src.id - 1) * MaxLen <= MaxSent * MaxLen
      BY <1>1, <3>1
    <3>3. all = MaxSent * MaxLen + MaxLen /\ MaxSent * MaxLen \in Nat
      BY <1>1
    <3> HIDE DEF all, before
    <3>4. before <= MaxSent * MaxLen
      BY <3>2 DEF before
    <3>5. QED
      BY <1>1, <1>2, <1>3, <3>3, <3>4
  <2>3. QED
    BY <1>1, <1>2, <2>1, <2>2
<1> HIDE DEF all, before
<1>5. Room = all + MaxFaults /\ Pos(src) = before + src.k
  BY DEF Room, Pos, all, before
<1> DEFINE n == Len(inbox)
<1>6. n \in Nat /\ dataLen + n <= (before + src.k) - 1 + faults
  <2>1. dataLen + n <= Pos(src) - 1 + faults
    BY DEF Types, Counted
  <2>2. n \in Nat
    BY <1>2
  <2>3. QED
    BY <1>5, <2>1, <2>2, Zenon
<1>7. /\ faults \in Nat /\ faults <= MaxFaults /\ src.k \in Nat
  BY <1>1, <1>2
<1>8. Room \in Nat /\ MaxLen <= Room
  BY <1>1, <1>3, <1>5
<1> HIDE DEF n
<1>9. (before + src.k) - 1 + faults <= Room
  BY <1>1, <1>3, <1>4, <1>5, <1>7
<1>10. dataLen + n <= Room
  BY <1>2, <1>3, <1>6, <1>7, <1>8, <1>9
<1>11. QED
  BY <1>8, <1>10 DEF n

(* There is room for the piece of a packet.                                 *)
LEMMA RoomLeft ==
  ASSUME Types, inbox # << >>
  PROVE  Room \in Nat /\ Place(First) \in 1 .. Room
<1>1. Room \in Nat /\ MaxLen <= Room /\ dataLen + Len(inbox) <= Room
  BY RoomCounted
<1>2. Len(inbox) >= 1 /\ Len(inbox) \in Nat /\ IsPacket(First) /\ dataLen \in Nat
  BY EmptySeq DEF Types, NetTypes, RtpTypes, First
<1>3. First.k \in 1 .. MaxLen /\ MaxLen \in Nat
  BY <1>2, RtpAssumption DEF IsPacket, Sendable, RtpAssumption
<1>4. First.k \in 1 .. Room /\ dataLen + 1 \in 1 .. Room /\ 1 \in 1 .. Room
  BY <1>1, <1>2, <1>3
<1>5. QED
  BY <1>1, <1>4 DEF Place

(* What every packet does that is demultiplexed.                            *)
Consumed(p) ==
  /\ inbox # << >> /\ buffer # NULL /\ p.codec \in Codecs
  /\ inbox' = Tail(inbox) /\ prevseq' = p.seq
  /\ joined' = IF joined = 0 THEN p.id ELSE joined
  /\ split' = (split /\ p.k # 1)
  /\ UNCHANGED <<src, faults, lostRun>>

(* ... and what becomes of its frame.                                       *)
Stored(p) ==
  /\ dataLen' = IF p.codec = "H264" /\ p.len > 1 THEN Place(p) ELSE dataLen
  /\ mem' \in [Buffers -> Memory]
  /\ Lands(p) => mem'[buffer][Place(p)] = <<p.id, p.k>>
  /\ p.k > 1 => \A i \in 1 .. Room : i # Place(p) => mem'[buffer][i] = mem[buffer][i]
  /\ failed' \in BOOLEAN
  /\ p.codec = "JPEG" => failed' = (p.k < p.len /\ (failed \/ Mismatch(p) \/ ~Fits(p)))
  /\ p.k < p.len => UNCHANGED <<pool, frame>>
  /\ p.k = p.len =>
       /\ frame' = [sent |-> p, failed |-> Flagged(p), split |-> split',
                    buf |-> SubSeq(mem'[buffer], 1, IF Flagged(p) THEN 0 ELSE Place(p))]
       /\ atUser' = Append(atUser, buffer) /\ buffer' = NULL /\ emptyMbx' = emptyMbx

LEMMA DemuxMoves ==
  ASSUME Types, Demux
  PROVE  IsPacket(First) /\ Consumed(First) /\ Stored(First)
<1> DEFINE p == First
<1>1. Consume
  BY DEF Demux, DemuxJpeg, DemuxNalu, DemuxFragment
<1>2. inbox # << >> /\ Head(inbox) = p /\ IsPacket(p)
  BY <1>1, TailMoves DEF Consume, Types
<1>3. Consumed(p)
  <2>1. p.codec \in {"JPEG", "H264"}
    BY <1>2 DEF Demux, DemuxJpeg, DemuxNalu, DemuxFragment
  <2>2. p.codec \in Codecs /\ p.codec # "other"
    BY <1>2, <2>1 DEF IsPacket, Sendable
  <2>3. QED
    BY <1>1, <1>2, <2>2 DEF Consume, Consumed, Starts
<1>4. /\ mem \in [Buffers -> Memory] /\ buffer \in Buffers /\ failed \in BOOLEAN
      /\ Room \in Nat /\ Place(p) \in 1 .. Room
  BY <1>2, <1>3, RoomLeft DEF Types, RtpTypes, PoolTypes, Consumed
<1>5. /\ p.id \in Nat /\ p.k \in Nat /\ p.k >= 1 /\ p.len \in Nat /\ p.k <= p.len
      /\ <<p.id, p.k>> \in Content
  <2>1. /\ p.id \in Nat \ {0} /\ p.k \in 1 .. MaxLen /\ p.len \in 1 .. MaxLen /\ p.k <= p.len
        /\ MaxLen \in Nat
    BY <1>2, RtpAssumption DEF IsPacket, Sendable, RtpAssumption
  <2>2. QED
    BY <2>1 DEF Content
<1>6. Blank \in Memory
  BY DEF Blank, Memory, Content
<1>7. CASE DemuxJpeg
  <2> DEFINE nowFailed == failed \/ Mismatch(p) \/ ~Fits(p)
             old == IF p.k = 1 THEN Blank ELSE mem[buffer]
  <2>1. p.codec = "JPEG" /\ Place(p) = p.k /\ Flagged(p) = nowFailed
    BY <1>2, <1>7 DEF DemuxJpeg, Place, Flagged
  <2>2. /\ mem' = [mem EXCEPT ![buffer] =
                     IF Fits(p) THEN [old EXCEPT ![p.k] = <<p.id, p.k>>] ELSE old]
        /\ dataLen' = dataLen
    BY <1>2, <1>7 DEF DemuxJpeg
  <2>3. old \in Memory
    BY <1>4, <1>6
  <2>4. /\ p.k < p.len => failed' = nowFailed /\ UNCHANGED <<pool, frame>>
        /\ p.k = p.len => /\ failed' = FALSE
                          /\ HandOn(p, nowFailed, IF nowFailed THEN 0 ELSE p.k)
    BY <1>2, <1>5, <1>7 DEF DemuxJpeg
  <2>5. nowFailed \in BOOLEAN
    OBVIOUS
  <2> HIDE DEF nowFailed
  <2>6. /\ mem' \in [Buffers -> Memory]
        /\ Lands(p) => mem'[buffer][Place(p)] = <<p.id, p.k>>
        /\ p.k > 1 => \A i \in 1 .. Room : i # Place(p) => mem'[buffer][i] = mem[buffer][i]
    <3> DEFINE new == IF Fits(p) THEN [old EXCEPT ![p.k] = <<p.id, p.k>>] ELSE old
               piece == <<p.id, p.k>>
    <3>1. piece \in Content /\ p.k \in 1 .. Room
      BY <1>4, <1>5, <2>1
    <3> HIDE DEF piece
    <3>2. new = IF Fits(p) THEN [old EXCEPT ![p.k] = piece] ELSE old
      BY DEF piece
    <3> HIDE DEF new
    <3>3. /\ new \in Memory /\ (Fits(p) => new[p.k] = piece)
          /\ \A i \in 1 .. Room : i # p.k => new[i] = old[i]
      <4> HIDE DEF old
      <4>1. QED
        BY <2>3, <3>1, <3>2 DEF Memory
    <3>4. mem' = [mem EXCEPT ![buffer] = new]
      BY <2>2 DEF new
    <3>5. mem' \in [Buffers -> Memory] /\ mem'[buffer] = new
      BY <1>4, <3>3, <3>4
    <3>6. p.k > 1 => old = mem[buffer]
      BY <1>5
    <3>7. QED
      BY <2>1, <3>3, <3>5, <3>6 DEF piece, Lands
  <2>7. p.k = p.len =>
          /\ frame' = [sent |-> p, failed |-> Flagged(p), split |-> split',
                       buf |-> SubSeq(mem'[buffer], 1, IF Flagged(p) THEN 0 ELSE Place(p))]
          /\ atUser' = Append(atUser, buffer) /\ buffer' = NULL /\ emptyMbx' = emptyMbx
    BY <2>1, <2>4 DEF HandOn
  <2>8. failed' = (p.k < p.len /\ (failed \/ Mismatch(p) \/ ~Fits(p))) /\ failed' \in BOOLEAN
    <3>1. p.k < p.len \/ (p.k = p.len /\ ~(p.k < p.len))
      BY <1>5
    <3>2. QED
      BY <2>4, <2>5, <3>1 DEF nowFailed
  <2>9. dataLen' = IF p.codec = "H264" /\ p.len > 1 THEN Place(p) ELSE dataLen
    BY <2>1, <2>2
  <2>10. p.k < p.len => UNCHANGED <<pool, frame>>
    BY <2>4
  <2>11. Stored(p)
    BY <2>6, <2>7, <2>8, <2>9, <2>10 DEF Stored
  <2>12. QED
    BY <1>2, <1>3, <2>11
<1>8. CASE DemuxNalu
  <2>1. /\ p.codec = "H264" /\ p.len = 1 /\ p.k = 1
        /\ mem' = [mem EXCEPT ![buffer][1] = <<p.id, p.k>>]
        /\ failed' = (failed \/ Mismatch(p)) /\ HandOn(p, FALSE, 1) /\ dataLen' = dataLen
    <3>1. p.codec = "H264" /\ p.len = 1
      BY <1>2, <1>8 DEF DemuxNalu
    <3>2. p.k = 1
      BY <1>5, <3>1
    <3>3. /\ mem' = [mem EXCEPT ![buffer][1] = <<p.id, p.k>>]
          /\ HandOn(p, FALSE, 1) /\ dataLen' = dataLen
      BY <1>2, <1>8 DEF DemuxNalu
    <3>4. failed' = (failed \/ Mismatch(p))
      BY <1>2, <1>8, Zenon DEF DemuxNalu
    <3>5. QED
      BY <3>1, <3>2, <3>3, <3>4, Zenon
  <2>2. Place(p) = 1 /\ Flagged(p) = FALSE
    BY <2>1 DEF Place, Flagged
  <2>3. mem' \in [Buffers -> Memory] /\ mem'[buffer][1] = <<p.id, p.k>>
    <3> DEFINE piece == <<p.id, p.k>>
    <3>1. piece \in Content
      BY <1>5
    <3> HIDE DEF piece
    <3>2. mem' = [mem EXCEPT ![buffer][1] = piece]
      BY <2>1 DEF piece
    <3>3. mem' \in [Buffers -> Memory] /\ mem'[buffer][1] = piece
      BY <1>4, <2>2, <3>1, <3>2 DEF Memory
    <3>4. QED
      BY <3>3 DEF piece
  <2>4. failed' \in BOOLEAN
    BY <2>1
  <2>5. /\ frame' = [sent |-> p, failed |-> Flagged(p), split |-> split',
                     buf |-> SubSeq(mem'[buffer], 1, IF Flagged(p) THEN 0 ELSE Place(p))]
        /\ atUser' = Append(atUser, buffer) /\ buffer' = NULL /\ emptyMbx' = emptyMbx
    BY <2>1, <2>2 DEF HandOn
  <2>6. Stored(p)
    BY <2>1, <2>2, <2>3, <2>4, <2>5 DEF Stored
  <2>7. QED
    BY <1>2, <1>3, <2>6
<1>9. CASE DemuxFragment
  <2> DEFINE at == IF p.k = 1 THEN 1 ELSE dataLen + 1
  <2>1. /\ p.codec = "H264" /\ p.len > 1
        /\ mem' = [mem EXCEPT ![buffer][at] = <<p.id, p.k>>]
        /\ failed' = (failed \/ Mismatch(p)) /\ dataLen' = at
        /\ IF p.k = p.len THEN HandOn(p, FALSE, at) ELSE UNCHANGED <<pool, frame>>
    BY <1>2, <1>9 DEF DemuxFragment
  <2>2. Place(p) = at /\ Flagged(p) = FALSE
    BY <2>1 DEF Place, Flagged
  <2> HIDE DEF at
  <2>3. /\ mem' \in [Buffers -> Memory] /\ mem'[buffer][at] = <<p.id, p.k>>
        /\ \A i \in 1 .. Room : i # at => mem'[buffer][i] = mem[buffer][i]
    <3> DEFINE piece == <<p.id, p.k>>
    <3>1. piece \in Content
      BY <1>5
    <3> HIDE DEF piece
    <3>2. mem' = [mem EXCEPT ![buffer][at] = piece]
      BY <2>1 DEF piece
    <3>3. /\ mem' \in [Buffers -> Memory] /\ mem'[buffer][at] = piece
          /\ \A i \in 1 .. Room : i # at => mem'[buffer][i] = mem[buffer][i]
      BY <1>4, <2>2, <3>1, <3>2 DEF Memory
    <3>4. QED
      BY <3>3 DEF piece
  <2>4. failed' \in BOOLEAN
    BY <2>1
  <2>5. p.k = p.len =>
          /\ frame' = [sent |-> p, failed |-> Flagged(p), split |-> split',
                       buf |-> SubSeq(mem'[buffer], 1, IF Flagged(p) THEN 0 ELSE Place(p))]
          /\ atUser' = Append(atUser, buffer) /\ buffer' = NULL /\ emptyMbx' = emptyMbx
    BY <2>1, <2>2 DEF HandOn
  <2>6. p.k < p.len => UNCHANGED <<pool, frame>>
    <3>1. p.k < p.len => p.k # p.len
      BY <1>5
    <3>2. QED
      BY <2>1, <3>1
  <2>7. Stored(p)
    BY <2>1, <2>2, <2>3, <2>4, <2>5, <2>6 DEF Stored
  <2>8. QED
    BY <1>2, <1>3, <2>7
<1>10. QED
  BY <1>7, <1>8, <1>9 DEF Demux

(* Types after a packet has been demultiplexed.                             *)
LEMMA DemuxTypes ==
  ASSUME Types, NEW p, p = First, IsPacket(p), Consumed(p), Stored(p)
  PROVE  Types'
<1>1. /\ p.id \in Nat \ {0} /\ p.k \in Nat /\ p.len \in Nat /\ p.k <= p.len
      /\ p.seq \in Counters
  BY RtpAssumption DEF IsPacket, Sendable, RtpAssumption
<1>2. /\ inbox' \in Seq(Sendable) /\ Len(inbox) \in 1 .. 2 /\ Len(inbox') = Len(inbox) - 1
      /\ \A i \in 1 .. Len(inbox') : IsPacket(inbox'[i])
  BY TailMoves DEF Types, Consumed
<1>3. NetTypes'
  BY <1>2 DEF Types, NetTypes, Consumed
<1>4. Room \in Nat /\ Place(p) \in 1 .. Room /\ dataLen \in Nat /\ Place(p) \in Nat
  BY RoomLeft DEF Consumed, Types, RtpTypes
<1>5. dataLen' \in Nat /\ dataLen' <= dataLen + 1
  <2>1. CASE p.codec = "H264" /\ p.len > 1
    <3>1. dataLen' = Place(p) /\ p.codec # "JPEG"
      BY <2>1 DEF Stored
    <3>2. Place(p) <= dataLen + 1
      BY <1>4, <3>1 DEF Place
    <3>3. QED
      BY <1>4, <3>1, <3>2
  <2>2. CASE ~(p.codec = "H264" /\ p.len > 1)
    <3>1. dataLen' = dataLen
      BY <2>2, Zenon DEF Stored
    <3>2. QED
      BY <1>4, <3>1
  <2>3. QED
    BY <2>1, <2>2
<1>6. RtpTypes'
  BY <1>1, <1>5 DEF RtpTypes, Consumed, Stored
<1>7. PoolTypes'
  <2>1. emptyMbx \in Seq(Buffers) /\ atUser \in Seq(Buffers) /\ buffer \in Buffers
    BY DEF Types, PoolTypes, Consumed
  <2>2. CASE p.k < p.len
    BY <2>1, <2>2 DEF PoolTypes, Stored, pool
  <2>3. CASE p.k = p.len
    <3>1. /\ atUser' = Append(atUser, buffer) /\ buffer' = NULL /\ emptyMbx' = emptyMbx
      BY <2>3, Zenon DEF Stored
    <3>2. QED
      BY <2>1, <3>1 DEF PoolTypes
  <2>4. QED
    BY <1>1, <2>2, <2>3
<1>8. SeenTypes'
  <2>1. joined' \in Nat
    BY <1>1 DEF Types, SeenTypes, Consumed
  <2>2. split' \in BOOLEAN
    BY DEF Consumed
  <2>3. QED
    BY <2>1, <2>2 DEF SeenTypes
<1>9. Counted'
  <2>1. src' = src /\ faults' = faults
    BY DEF Consumed
  <2>2. Pos(src) \in Int /\ faults \in Int
    <3>1. src.id \in Nat /\ src.k \in Nat /\ MaxLen \in Nat /\ faults \in Nat
      BY RtpAssumption DEF Types, NetTypes, IsPacket, Sendable, RtpAssumption
    <3>2. (src.id - 1) * MaxLen \in Int
      BY <3>1
    <3>3. QED
      BY <3>1, <3>2 DEF Pos
  <2>3. dataLen + Len(inbox) <= Pos(src) - 1 + faults
    BY DEF Types, Counted
  <2>4. dataLen' + Len(inbox') <= Pos(src) - 1 + faults
    BY <1>2, <1>4, <1>5, <2>2, <2>3
  <2>5. QED
    BY <2>1, <2>4 DEF Counted, Pos
<1>10. QED
  BY <1>3, <1>6, <1>7, <1>8, <1>9 DEF Types

(* A piece in its place, after those before it, makes a longer run.         *)
LEMMA PieceAdded ==
  ASSUME Types, NEW p, p = First, IsPacket(p), Consumed(p), Stored(p), Place(p) = p.k,
         Lands(p), p.k > 1 => Filled(buffer, p.id, p.k - 1)
  PROVE  \A i \in 1 .. p.k : mem'[buffer][i] = <<p.id, i>>
<1>1. p.k \in 1 .. Room /\ Room \in Nat
  BY RoomLeft DEF Consumed
<1>2. SUFFICES ASSUME NEW i \in 1 .. p.k
               PROVE  mem'[buffer][i] = <<p.id, i>>
  OBVIOUS
<1>3. CASE i = p.k
  BY <1>3 DEF Stored
<1>4. CASE i # p.k
  <2>1. p.k > 1 /\ i \in 1 .. p.k - 1 /\ i \in 1 .. Room
    BY <1>1, <1>4
  <2>2. mem[buffer][i] = <<p.id, i>>
    BY <2>1 DEF Filled
  <2>3. mem'[buffer][i] = mem[buffer][i]
    BY <1>4, <2>1 DEF Stored
  <2>4. QED
    BY <2>2, <2>3
<1>5. QED
  BY <1>3, <1>4

(* A run as long as the frame is the frame as it was sent.                  *)
LEMMA HandedOnWhole ==
  ASSUME Types, NEW p, p = First, IsPacket(p), Consumed(p), Stored(p), Place(p) = p.k,
         p.k = p.len, ~Flagged(p), \A i \in 1 .. p.k : mem'[buffer][i] = <<p.id, i>>
  PROVE  Intact'
<1>1. p.k \in 1 .. Room /\ Room \in Nat /\ p.id \in Nat
  BY RoomLeft DEF Consumed, IsPacket, Sendable
<1> DEFINE n == p.k
           b == mem'[buffer]
           run == [i \in 1 .. n |-> <<p.id, i>>]
<1>2. frame'.sent = p /\ frame'.buf = SubSeq(b, 1, n)
  BY DEF Stored
<1>3. \A i \in 1 .. n : b[i] \in Nat \X Nat
  BY <1>1
<1> HIDE DEF b
<1>4. /\ SubSeq(b, 1, n) \in Seq(Nat \X Nat)
      /\ Len(SubSeq(b, 1, n)) = IF 1 <= n THEN n - 1 + 1 ELSE 0
      /\ \A i \in 1 .. n - 1 + 1 : SubSeq(b, 1, n)[i] = b[1 + i - 1]
  <2>1. 1 \in Int /\ n \in Int
    BY <1>1
  <2>2. QED
    BY <1>3, <2>1, SubSeqProperties
<1>5. run \in Seq(Nat \X Nat) /\ Len(run) = n
  BY <1>1
<1>6. /\ Len(SubSeq(b, 1, n)) = n
      /\ \A i \in 1 .. n : SubSeq(b, 1, n)[i] = run[i]
  <2>1. Len(SubSeq(b, 1, n)) = n
    BY <1>1, <1>4
  <2>2. ASSUME NEW i \in 1 .. n PROVE SubSeq(b, 1, n)[i] = run[i]
    <3>1. i \in 1 .. n - 1 + 1 /\ 1 + i - 1 = i
      BY <1>1
    <3>2. SubSeq(b, 1, n)[i] = b[i]
      BY <1>4, <3>1
    <3>3. b[i] = <<p.id, i>>
      BY DEF b
    <3>4. QED
      BY <3>2, <3>3
  <2>3. QED
    BY <2>1, <2>2
<1>7. SubSeq(b, 1, n) = run
  <2> HIDE DEF run
  <2>1. QED
    BY <1>4, <1>5, <1>6, SeqEqual
<1>8. QED
  BY <1>2, <1>7 DEF Intact

(* A number that follows on belongs to a packet that does.                  *)
LEMMA NoMismatch ==
  ASSUME Types, NEW p, IsPacket(p)
  PROVE  Mismatch(p) <=> Gap(prevseq, p.seq) # 0
BY Gaps DEF Mismatch, Types, RtpTypes, IsPacket, Sendable

LEMMA LooksRight ==
  ASSUME Types, UnderWay, inbox # << >>, First.codec \in Codecs, joined # 0, Gap(prevseq, First.seq) = 0
  PROVE  (Arrived \/ Twice) /\ Building(First)
<1>1. IsPacket(First) /\ First.seq \in Counters /\ prevseq \in Counters
  <2>1. /\ inbox \in Seq(Sendable) /\ Len(inbox) \in 0 .. 2
        /\ \A i \in 1 .. Len(inbox) : IsPacket(inbox[i])
    BY DEF Types, NetTypes
  <2>2. Len(inbox) \in 1 .. 2
    BY <2>1, EmptySeq
  <2>3. IsPacket(First)
    BY <2>1, <2>2 DEF First
  <2>4. First.seq \in Counters /\ prevseq \in Counters
    BY <2>3 DEF Types, RtpTypes, IsPacket, Sendable
  <2>5. QED
    BY <2>3, <2>4
<1>2. CASE Arrived \/ Twice
  BY <1>2 DEF Arrived, Twice, Near
<1>3. CASE Again
  BY <1>1, <1>3, Gaps DEF Again
<1>4. CASE Swapped
  <2>1. Len(inbox) = 2
    BY <1>4 DEF Swapped
  <2>2. Second.seq \in Counters
    BY <2>1 DEF Types, NetTypes, Second, IsPacket, Sendable
  <2> DEFINE next == (Second.seq + 1) % SeqMod
             g == Gap(prevseq, Second.seq)
  <2>3. First.seq = next /\ g <= SeqMod - 2
    BY <1>4 DEF Swapped, Follows, Near
  <2>4. g \in Counters /\ Gap(prevseq, next) = IF g = SeqMod - 1 THEN 0 ELSE g + 1
    <3>1. \A a, c \in Counters :
            /\ Gap(a, c) \in Counters
            /\ Gap(a, (c + 1) % SeqMod) = IF Gap(a, c) = SeqMod - 1 THEN 0 ELSE Gap(a, c) + 1
      BY Gaps
    <3>2. QED
      BY <1>1, <2>2, <3>1, Zenon
  <2> HIDE DEF next, g
  <2>5. Gap(prevseq, next) = 0
    BY <2>3
  <2>6. SeqMod \in Nat
    BY RtpAssumption DEF RtpAssumption
  <2>7. g \in Nat /\ g # SeqMod - 1 /\ g + 1 # 0
    BY <2>3, <2>4, <2>6 DEF Counters
  <2>8. QED
    BY <2>4, <2>5, <2>7, Zenon
<1>5. CASE Late
  BY <1>1, <1>5, Gaps DEF Late
<1>6. ~Skipped
  BY RtpAssumption DEF Skipped, RtpAssumption
<1>7. QED
  BY <1>2, <1>3, <1>4, <1>5, <1>6 DEF UnderWay, Quiet

(* Within a frame a split stays one.                                        *)
LEMMA SplitStays ==
  ASSUME NEW p, p.k \in Nat, p.k > 1, Consumed(p)
  PROVE  split => split'
<1>1. p.k # 1
  OBVIOUS
<1>2. split' = (split /\ p.k # 1)
  BY DEF Consumed
<1>3. QED
  BY <1>1, <1>2, Zenon

(* A frame that is handed on is intact, or marked, or split.                *)
LEMMA DemuxIntact ==
  ASSUME RtpInv, NEW p, p = First, IsPacket(p), Consumed(p), Stored(p)
  PROVE  IntactUnlessSplit' /\ JoinsFirst'
<1>1. /\ p.id \in Nat \ {0} /\ p.k \in Nat \ {0} /\ p.len \in Nat /\ p.k <= p.len /\ Types
  BY RtpAssumption DEF IsPacket, Sendable, RtpAssumption, RtpInv
<1>2. joined' # 0
  BY <1>1 DEF Consumed
<1>3. JoinsFirst'
  BY <1>2 DEF JoinsFirst
<1>4. CASE p.k < p.len
  <2>1. frame' = frame
    BY <1>4 DEF Stored
  <2>2. CASE joined = 0
    <3>1. frame = NoFrame
      BY <2>2 DEF RtpInv, JoinsFirst
    <3>2. QED
      BY <1>3, <2>1, <3>1 DEF IntactUnlessSplit, NoFrame
  <2>3. CASE joined # 0
    <3>1. joined' = joined
      BY <2>3 DEF Consumed
    <3>2. QED
      BY <1>3, <2>1, <3>1 DEF RtpInv, IntactUnlessSplit, Intact
  <2>4. QED
    BY <2>2, <2>3
<1>5. CASE p.k = p.len
  <2>1. frame'.sent = p /\ frame'.failed = Flagged(p) /\ frame'.split = split'
    BY <1>5 DEF Stored
  <2>2. SUFFICES ASSUME p.codec = "JPEG", ~Flagged(p), p.id # joined', ~split'
                 PROVE  Intact'
    BY <1>3, <2>1 DEF IntactUnlessSplit
  <2>3. joined # 0 /\ joined' = joined
    BY <2>2 DEF Consumed
  <2>4. ~failed /\ ~Mismatch(p) /\ Lands(p)
    BY <2>2 DEF Flagged, Lands
  <2>5. Gap(prevseq, p.seq) = 0
    BY <1>1, <2>4, NoMismatch
  <2>6. Building(p)
    BY <2>3, <2>5, <1>1, LooksRight DEF RtpInv, Consumed
  <2>7. Place(p) = p.k
    BY <2>2 DEF Place
  <2>8. p.k > 1 => Filled(buffer, p.id, p.k - 1)
    <3>1. p.k > 1 => ~split
      BY <1>1, <2>2, SplitStays
    <3>2. QED
      BY <2>2, <2>3, <2>4, <2>6, <3>1 DEF Building
  <2>9. \A i \in 1 .. p.k : mem'[buffer][i] = <<p.id, i>>
    BY <1>1, <2>4, <2>7, <2>8, PieceAdded
  <2>10. QED
    BY <1>1, <1>5, <2>2, <2>7, <2>9, HandedOnWhole
<1>6. QED
  BY <1>1, <1>4, <1>5

(* What is known of the sender's next packet when the last one before it    *)
(* has been consumed.                                                       *)
LEMMA DemuxArrived ==
  ASSUME RtpInv, NEW p, p = First, IsPacket(p), Consumed(p), Stored(p),
         Follows(src, p), CalmAfter(p) \/ Disturbed,
         joined # 0 /\ Gap(prevseq, p.seq) = 0 => Building(p), CalmAfter(p) => Held(p)
  PROVE  /\ Gap(prevseq, src.seq)' = 0 /\ Building(src)' /\ Held(src)'
<1>1. /\ p.id \in Nat \ {0} /\ p.k \in Nat \ {0} /\ p.len \in Nat /\ p.k <= p.len
      /\ p.seq \in Counters /\ Types /\ p # << >>
  BY RtpAssumption DEF IsPacket, Sendable, RtpAssumption, RtpInv
<1>2. src' = src /\ prevseq' = p.seq /\ src.seq = (p.seq + 1) % SeqMod
  BY DEF Consumed, Follows
<1>3. Gap(prevseq, src.seq)' = 0
  BY <1>1, <1>2, Gaps DEF Gap
<1>4. src.k \in Nat \ {0} /\ IsPacket(src)
  BY <1>1 DEF Types, NetTypes, IsPacket, Sendable
<1>5. src.k > 1 => /\ p.k < p.len /\ src.k - 1 = p.k /\ src.id = p.id /\ src.codec = p.codec
                   /\ buffer' = buffer /\ buffer # NULL
  <2>1. SUFFICES ASSUME src.k > 1
                 PROVE  /\ p.k < p.len /\ src.k - 1 = p.k /\ src.id = p.id
                        /\ src.codec = p.codec /\ buffer' = buffer /\ buffer # NULL
    OBVIOUS
  <2>2. p.k < p.len /\ src.k - 1 = p.k /\ src.id = p.id /\ src.codec = p.codec
    BY <1>1, <1>4, <2>1 DEF Follows
  <2>3. buffer' = buffer /\ buffer # NULL
    BY <2>2 DEF Stored, Consumed, pool
  <2>4. QED
    BY <2>2, <2>3
<1>6. ASSUME src.k > 1, \A i \in 1 .. p.k : mem'[buffer][i] = <<p.id, i>>
      PROVE  buffer' # NULL /\ Filled(buffer, src.id, src.k - 1)'
  BY <1>2, <1>5, <1>6 DEF Filled
<1>7. Building(src)'
  <2>1. SUFFICES ASSUME src.codec = "JPEG", src.k > 1, ~failed', ~split', src.id # joined'
                 PROVE  buffer' # NULL /\ Filled(buffer, src.id, src.k - 1)'
    BY <1>2 DEF Building
  <2>2. p.codec = "JPEG" /\ p.k < p.len /\ Place(p) = p.k
    BY <1>5, <2>1 DEF Place
  <2>3. ~failed /\ ~Mismatch(p) /\ Lands(p)
    BY <2>1, <2>2 DEF Stored, Lands
  <2>4. joined # 0 /\ joined' = joined
    BY <1>5, <2>1 DEF Consumed
  <2>5. Gap(prevseq, p.seq) = 0
    BY <1>1, <2>3, NoMismatch
  <2>6. p.k > 1 => Filled(buffer, p.id, p.k - 1)
    <3>1. p.k > 1 => ~split
      BY <1>1, <2>1, SplitStays
    <3>2. p.id # joined
      BY <1>5, <2>1, <2>4
    <3>3. Building(p)
      BY <2>4, <2>5
    <3>4. QED
      BY <2>2, <2>3, <3>1, <3>2, <3>3 DEF Building
  <2>7. \A i \in 1 .. p.k : mem'[buffer][i] = <<p.id, i>>
    BY <1>1, <2>2, <2>3, <2>6, PieceAdded
  <2>8. QED
    BY <1>6, <2>1, <2>7
<1>8. Held(src)'
  <2>1. ASSUME p.calm, Held(p), Deliverable(p)
        PROVE  /\ Gap(prevseq, p.seq) = 0 /\ ~Mismatch(p) /\ ~Flagged(p) /\ Place(p) = p.k
               /\ Lands(p)
               /\ p.codec = "JPEG" => ~failed'
               /\ p.k > 1 => split \/ Filled(buffer, p.id, p.k - 1)
    <3>1. Gap(prevseq, p.seq) = 0 /\ (p.codec = "JPEG" => ~failed)
      BY <2>1 DEF Held, Kept
    <3>2. ~Mismatch(p)
      BY <1>1, <3>1, NoMismatch
    <3>3. p.codec \in {"JPEG", "H264"}
      BY RtpAssumption DEF RtpAssumption, Consumed
    <3>4. p.codec = "H264" /\ p.k > 1 => dataLen = p.k - 1
      BY <2>1 DEF Held, Kept
    <3>5. Place(p) = p.k
      BY <1>1, <3>3, <3>4 DEF Place
    <3>6. Fits(p) /\ Lands(p)
      <4>1. p.k <= p.len /\ p.len < maxBufferLen /\ maxBufferLen \in Nat
        BY <1>1, <2>1, RtpAssumption DEF Deliverable, RtpAssumption
      <4>2. QED
        BY <1>1, <4>1 DEF Fits, Lands
    <3>7. ~Flagged(p)
      BY <3>1, <3>2, <3>6 DEF Flagged
    <3>8. p.codec = "JPEG" => ~failed'
      BY <3>1, <3>2, <3>6 DEF Stored
    <3>9. p.k > 1 => split \/ Filled(buffer, p.id, p.k - 1)
      BY <2>1 DEF Held, Kept
    <3>10. QED
      BY <3>1, <3>2, <3>5, <3>6, <3>7, <3>8, <3>9
  <2>2. ASSUME p.calm, Held(p), Deliverable(p)
        PROVE  (\A i \in 1 .. p.k : mem'[buffer][i] = <<p.id, i>>) \/ split'
    <3>1. p.k > 1 /\ split => split'
      BY <1>1, SplitStays
    <3>2. CASE p.k > 1 => Filled(buffer, p.id, p.k - 1)
      BY <1>1, <2>1, <2>2, <3>2, PieceAdded
    <3>3. QED
      BY <2>1, <2>2, <3>1, <3>2
  <2>3. ASSUME src.calm, src.k > 1, Deliverable(src)
        PROVE  /\ src.codec = "JPEG" => ~failed'
               /\ src.codec = "H264" => dataLen' = src.k - 1
               /\ split' \/ (buffer' # NULL /\ Filled(buffer, src.id, src.k - 1)')
    <3>1. p.calm /\ Held(p) /\ Deliverable(p)
      <4>1. p.calm /\ Held(p)
        BY <2>3 DEF Disturbed, CalmAfter
      <4>2. src.len = p.len
        BY <1>5, <2>3 DEF Follows
      <4>3. QED
        BY <2>3, <4>1, <4>2 DEF Deliverable
    <3>2. src.codec = "JPEG" => ~failed'
      BY <1>5, <2>1, <2>3, <3>1
    <3>3. src.codec = "H264" => dataLen' = src.k - 1
      <4>1. src.codec = "H264" => p.codec = "H264" /\ p.len > 1
        BY <1>1, <1>5, <2>3
      <4>2. Place(p) = src.k - 1
        BY <1>5, <2>1, <2>3, <3>1
      <4>3. QED
        BY <4>1, <4>2 DEF Stored
    <3>4. QED
      BY <1>6, <2>2, <2>3, <3>1, <3>2, <3>3
  <2>4. ASSUME src.calm, src.k = 1
        PROVE  src.codec = "JPEG" => ~failed'
    <3>1. ~(p.k < p.len) /\ src.codec = p.codec
      BY <1>1, <2>4 DEF Follows
    <3>2. QED
      BY <3>1 DEF Stored
  <2>5. ASSUME src.k = 1, src.owed
        PROVE  Announced(src)'
    <3>1. p.calm /\ Held(p) /\ Deliverable(p)
      BY <2>5 DEF Disturbed, CalmAfter
    <3>2. p.k = p.len /\ src.id = p.id + 1
      BY <1>1, <2>5 DEF Follows
    <3>3. frame'.sent = p /\ frame'.failed = Flagged(p) /\ frame'.split = split'
      BY <3>2 DEF Stored
    <3>4. ~Flagged(p) /\ Place(p) = p.k
      BY <2>1, <3>1
    <3>5. frame'.split \/ Intact'
      BY <1>1, <2>2, <3>1, <3>2, <3>3, <3>4, HandedOnWhole
    <3>6. frame'.sent # << >> /\ frame'.sent.id = src'.id - 1 /\ ~frame'.failed
      BY <1>1, <1>2, <3>2, <3>3, <3>4
    <3>7. QED
      BY <3>5, <3>6 DEF Announced
  <2>6. src.k = 1 \/ src.k > 1
    BY <1>4
  <2>7. QED
    BY <1>2, <1>3, <2>3, <2>4, <2>5, <2>6 DEF Held, Kept, Deliverable
<1>9. QED
  BY <1>3, <1>7, <1>8

(* After a packet has been demultiplexed, what is on its way is what was    *)
(* behind it.                                                               *)
LEMMA DemuxUnderWay ==
  ASSUME RtpInv, NEW p, p = First, IsPacket(p), Consumed(p), Stored(p)
  PROVE  UnderWay'
<1>1. /\ Types /\ IsPacket(src) /\ p.seq \in Counters /\ prevseq \in Counters
      /\ p.id \in Nat \ {0} /\ UnderWay /\ p.k <= p.len /\ p.k \in Nat /\ p.len \in Nat
  BY RtpAssumption
  DEF RtpInv, Types, NetTypes, RtpTypes, IsPacket, Sendable, RtpAssumption
<1>2. /\ Len(inbox) \in 1 .. 2 /\ Len(inbox') = Len(inbox) - 1
      /\ Len(inbox) = 1 => inbox' = << >>
      /\ Len(inbox) = 2 => IsPacket(Second) /\ First' = Second
  BY <1>1, TailMoves DEF Types, Consumed
<1>3. src' = src /\ lostRun' = lostRun /\ prevseq' = p.seq
  BY DEF Consumed
<1>4. joined' # 0
  BY <1>1 DEF Consumed
<1>5. Disturbed => Disturbed'
  BY <1>3 DEF Disturbed
<1>6. joined # 0 /\ Gap(prevseq, p.seq) = 0 => Building(p)
  BY <1>1, LooksRight DEF Consumed
<1>7. CASE Arrived
  <2>1. /\ lostRun = 0 /\ Follows(src, p) /\ CalmAfter(p) /\ Held(p) /\ inbox' = << >>
    BY <1>2, <1>7 DEF Arrived
  <2>2. /\ Gap(prevseq, src.seq)' = 0 /\ Building(src)' /\ Held(src)'
    BY <1>6, <2>1, DemuxArrived
  <2>3. lostRun' + 1 = 1
    BY <1>3, <2>1
  <2>4. Near(src, lostRun + 1)'
    BY <2>2, <2>3 DEF Near
  <2>5. QED
    BY <2>1, <2>2, <2>4 DEF UnderWay, Quiet
<1>8. CASE Twice
  <2>1. /\ lostRun = 0 /\ Follows(src, p) /\ Disturbed /\ Len(inbox') = 1
        /\ Second.seq = p.seq /\ Second.k = p.k /\ Second.len = p.len /\ Second.id = p.id
        /\ Second.codec = p.codec /\ ~Second.owed /\ First' = Second
    BY <1>2, <1>8 DEF Twice
  <2>2. Follows(src, First)'
    BY <1>3, <2>1 DEF Follows
  <2>3. QED
    BY <1>3, <1>4, <1>5, <2>1, <2>2 DEF UnderWay, Again
<1>9. CASE Again
  <2>1. /\ lostRun = 0 /\ Follows(src, p) /\ Disturbed /\ prevseq = p.seq /\ inbox' = << >>
    BY <1>2, <1>9 DEF Again
  <2>2. Gap(prevseq, p.seq) # 0
    BY <1>1, <2>1, Gaps
  <2>3. Gap(prevseq, src.seq)' = 0 /\ Building(src)'
    <3>1. src' = src /\ src.seq = (p.seq + 1) % SeqMod
      BY <1>3, <2>1 DEF Follows
    <3>2. Gap(prevseq, src.seq)' = 0
      BY <1>1, <1>3, <3>1, Gaps DEF Gap
    <3>3. Building(src)'
      <4>1. SUFFICES ASSUME src.codec = "JPEG", src.k > 1
                     PROVE  failed'
        BY <3>1 DEF Building
      <4>2. p.codec = "JPEG" /\ p.k < p.len
        BY <2>1, <4>1 DEF Follows
      <4>3. Mismatch(p)
        BY <1>1, <2>2, NoMismatch
      <4>4. QED
        BY <4>2, <4>3 DEF Stored
    <3>4. QED
      BY <3>2, <3>3
  <2>4. Held(src)'
    BY <1>3, <2>1 DEF Held, Disturbed
  <2>5. lostRun' + 1 = 1
    BY <1>3, <2>1
  <2>6. Near(src, lostRun + 1)'
    BY <2>3, <2>5 DEF Near
  <2>7. QED
    BY <2>1, <2>4, <2>6 DEF UnderWay, Quiet
<1>10. CASE Swapped
  <2>1. /\ lostRun = 0 /\ Follows(p, Second) /\ Follows(src, p) /\ Disturbed
        /\ ~Second.owed /\ Len(inbox') = 1 /\ First' = Second /\ IsPacket(Second)
    BY <1>2, <1>10 DEF Swapped
  <2>2. /\ p.seq = (Second.seq + 1) % SeqMod /\ Second.seq \in Counters
        /\ src.codec = Second.codec /\ src.seq = (p.seq + 1) % SeqMod
    BY <2>1 DEF Follows, IsPacket, Sendable
  <2>3. src.seq = (Second.seq + 2) % SeqMod
    <3>1. (((Second.seq + 1) % SeqMod) + 1) % SeqMod = (Second.seq + 2) % SeqMod
      BY <2>2, Gaps
    <3>2. QED
      BY <2>2, <3>1
  <2>4. QED
    BY <1>3, <1>4, <1>5, <2>1, <2>2, <2>3 DEF UnderWay, Late
<1>11. CASE Late
  <2>1. /\ lostRun = 0 /\ Disturbed /\ prevseq = (p.seq + 1) % SeqMod /\ joined # 0
        /\ src.seq = (p.seq + 2) % SeqMod /\ inbox' = << >>
    BY <1>2, <1>11 DEF Late
  <2>2. Gap(prevseq, src.seq)' = 1
    <3>1. Gap(p.seq, (p.seq + 2) % SeqMod) = 1
      BY <1>1, Gaps
    <3>2. QED
      BY <1>3, <2>1, <3>1 DEF Gap
  <2>3. Held(src)'
    BY <1>3, <2>1 DEF Held, Disturbed
  <2>4. lostRun' + 1 = 1
    BY <1>3, <2>1
  <2>5. Near(src, lostRun + 1)'
    BY <2>2, <2>4 DEF Near
  <2>6. QED
    BY <2>1, <2>3, <2>5 DEF UnderWay, Quiet
<1>12. ~Quiet /\ ~Skipped
  BY RtpAssumption DEF Quiet, Skipped, Consumed, RtpAssumption
<1>13. QED
  BY <1>1, <1>7, <1>8, <1>9, <1>10, <1>11, <1>12 DEF UnderWay

(* A packet that is rejected leaves its number, and perhaps a failure.      *)
LEMMA RejectedKeeps ==
  ASSUME RtpInv, DemuxRejected
  PROVE  RtpInv'
<1> DEFINE p == First
<1>1. /\ Types /\ inbox # << >> /\ inbox' = Tail(inbox) /\ Head(inbox) = p /\ IsPacket(p)
      /\ buffer # NULL /\ p.codec = "other" /\ UnderWay
  BY TailMoves DEF RtpInv, Types, DemuxRejected, Consume
<1>2. /\ prevseq' = p.seq /\ joined' = IF joined = 0 THEN p.id ELSE joined
      /\ failed' = (failed \/ Mismatch(p)) /\ src' = src /\ lostRun' = lostRun
      /\ faults' = faults /\ dataLen' = dataLen /\ mem' = mem /\ frame' = frame
      /\ emptyMbx' = emptyMbx /\ buffer' = buffer /\ atUser' = atUser
  BY <1>1 DEF DemuxRejected, Consume, pool
<1>3. split' = split /\ split \in BOOLEAN
  BY <1>1 DEF DemuxRejected, Consume, Starts, Types, SeenTypes
<1>4. Skipped /\ inbox' = << >>
  <2>1. /\ inbox \in Seq(Sendable) /\ Len(inbox) \in 1 .. 2
        /\ Len(inbox) = 1 => inbox' = << >>
    BY <1>1, TailMoves DEF Types, NetTypes
  <2>2. src.codec # "other"
    BY <1>1, RtpAssumption DEF Types, NetTypes, RtpAssumption
  <2>3. ~Quiet /\ ~Arrived /\ ~Twice /\ ~Again /\ ~Swapped /\ ~Late
    BY <1>1, <2>2 DEF Quiet, Arrived, Twice, Again, Swapped, Late, Follows
  <2>4. Skipped
    BY <1>1, <2>3 DEF UnderWay
  <2>5. QED
    BY <2>1, <2>4 DEF Skipped
<1>5. /\ p.seq \in Counters /\ p.id \in Nat \ {0} /\ prevseq \in Counters
      /\ src.seq = (p.seq + 1) % SeqMod /\ joined' # 0
  BY <1>1, <1>2, <1>4 DEF Types, RtpTypes, IsPacket, Sendable, Skipped
<1>6. Types'
  <2>1. NetTypes'
    BY <1>1, <1>2, <1>4 DEF Types, NetTypes
  <2>2. RtpTypes'
    BY <1>1, <1>2, <1>5 DEF Types, RtpTypes
  <2>3. PoolTypes' /\ SeenTypes'
    BY <1>1, <1>2, <1>3, <1>5 DEF Types, PoolTypes, SeenTypes
  <2>4. Counted'
    <3>1. Len(inbox) = 1 /\ Len(inbox') = 0
      BY <1>4 DEF Skipped
    <3>2. dataLen + 1 <= Pos(src) - 1 + faults /\ dataLen \in Nat /\ faults \in Nat
      BY <1>1, <3>1 DEF Types, NetTypes, RtpTypes, Counted
    <3>3. Pos(src) \in Int
      BY <1>1, RtpAssumption DEF Types, NetTypes, Pos, IsPacket, Sendable, RtpAssumption
    <3>4. QED
      BY <1>2, <3>1, <3>2, <3>3 DEF Counted, Pos
  <2>5. QED
    BY <2>1, <2>2, <2>3, <2>4 DEF Types
<1>7. Gap(prevseq, src.seq)' = 0
  BY <1>2, <1>5, Gaps DEF Gap
<1>8. Mismatch(p) <=> Gap(prevseq, p.seq) # 0
  BY <1>1, NoMismatch
<1>9. Building(src)'
  <2>1. SUFFICES ASSUME src.codec = "JPEG", src.k > 1, ~failed', ~split', src.id # joined'
                 PROVE  buffer' # NULL /\ Filled(buffer, src.id, src.k - 1)'
    BY <1>2 DEF Building
  <2>2. joined # 0 /\ joined' = joined
    BY <1>2, <1>4, <2>1 DEF Skipped
  <2>3. ~failed /\ Gap(prevseq, p.seq) = 0
    BY <1>2, <1>8, <2>1
  <2>4. Building(src)
    BY <1>4, <2>2, <2>3 DEF Skipped
  <2>5. QED
    BY <1>2, <1>3, <2>1, <2>2, <2>3, <2>4 DEF Building, Filled
<1>10. Held(src)'
  <2>1. src.calm => Kept(src)'
    <3>1. SUFFICES ASSUME src.calm PROVE Kept(src)'
      OBVIOUS
    <3>2. Kept(src) /\ ~Mismatch(p)
      BY <1>4, <1>8, <3>1 DEF Skipped
    <3>3. failed' = failed
      BY <1>1, <1>2, <3>2 DEF Types, RtpTypes
    <3>4. QED
      BY <1>2, <1>3, <3>2, <3>3 DEF Kept, Filled, Deliverable
  <2>2. src.k = 1 /\ src.owed => Announced(src)'
    BY <1>2, <1>4 DEF Skipped, Announced, Intact
  <2>3. QED
    BY <1>2, <1>7, <2>1, <2>2 DEF Held
<1>11. UnderWay'
  <2>1. lostRun' + 1 = 1
    BY <1>2, <1>4 DEF Skipped
  <2>2. Near(src, lostRun + 1)'
    BY <1>7, <1>9, <2>1 DEF Near
  <2>3. QED
    BY <1>4, <1>10, <2>2 DEF UnderWay, Quiet
<1>12. JoinsFirst'
  BY <1>5 DEF JoinsFirst
<1>13. IntactUnlessSplit'
  <2>1. CASE joined = 0
    BY <1>2, <2>1 DEF RtpInv, JoinsFirst, IntactUnlessSplit
  <2>2. CASE joined # 0
    BY <1>2, <2>2 DEF RtpInv, IntactUnlessSplit, Intact
  <2>3. QED
    BY <2>1, <2>2
<1>14. QED
  BY <1>6, <1>11, <1>12, <1>13 DEF RtpInv

(* The demultiplexer keeps to the invariant.                                *)
LEMMA DemuxKeeps ==
  ASSUME RtpInv, Demux
  PROVE  RtpInv'
<1>1. IsPacket(First) /\ Consumed(First) /\ Stored(First) /\ Types
  BY DemuxMoves DEF RtpInv
<1>2. Types' /\ UnderWay' /\ IntactUnlessSplit' /\ JoinsFirst'
  BY <1>1, DemuxTypes, DemuxUnderWay, DemuxIntact
<1>3. QED
  BY <1>2 DEF RtpInv

-------------------------------------------------------------------------------
(* The buffers *)

(* What the session holds outlasts a new buffer where there was none; a     *)
(* buffer given back in the middle of a frame splits it.                    *)
BufferStep ==
  /\ UNCHANGED <<net, rtp, frame, joined>>
  /\ \/ split' = split /\ (buffer' = buffer \/ buffer = NULL)
     \/ split' = TRUE

LEMMA BufferRests ==
  ASSUME BufferStep
  PROVE  /\ \A n : Near(src, n) => Near(src, n)'
         /\ \A n : Near(First, n) => Near(First, n)'
         /\ \A n : Near(Second, n) => Near(Second, n)'
         /\ Held(src) => Held(src)'
         /\ Held(First) => Held(First)'
         /\ Building(src) => Building(src)'
         /\ Kept(src) => Kept(src)'
         /\ Announced(src) => Announced(src)'
<1>1. /\ src' = src /\ inbox' = inbox /\ prevseq' = prevseq /\ failed' = failed
      /\ dataLen' = dataLen /\ mem' = mem /\ frame' = frame /\ joined' = joined
  BY DEF BufferStep, net, rtp
<1>2. \/ split' = split /\ (buffer' = buffer \/ buffer = NULL)
      \/ split' = TRUE
  BY DEF BufferStep
<1>3. Building(src) => Building(src)'
  BY <1>1, <1>2 DEF Building, Filled
<1>4. Building(First) => Building(First)'
  BY <1>1, <1>2 DEF Building, Filled, First
<1>5. Building(Second) => Building(Second)'
  BY <1>1, <1>2 DEF Building, Filled, Second
<1>6. \A n : Near(src, n) => Near(src, n)'
  BY <1>1, <1>3 DEF Near, Gap
<1>7. \A n : Near(First, n) => Near(First, n)'
  BY <1>1, <1>4 DEF Near, Gap, First
<1>8. \A n : Near(Second, n) => Near(Second, n)'
  BY <1>1, <1>5 DEF Near, Gap, Second
<1>9. Held(src) => Held(src)'
  BY <1>1, <1>2 DEF Held, Kept, Announced, Intact, Filled, Gap
<1>10. Held(First) => Held(First)'
  BY <1>1, <1>2 DEF Held, Kept, Announced, Intact, Filled, Gap, First
<1>11. /\ Kept(src) => Kept(src)'
       /\ Announced(src) => Announced(src)'
  BY <1>1, <1>2 DEF Kept, Deliverable, Announced, Intact, Filled
<1>12. QED
  BY <1>3, <1>6, <1>7, <1>8, <1>9, <1>10, <1>11

LEMMA BufferKeeps ==
  ASSUME RtpInv, BufferStep, PoolTypes', split' \in BOOLEAN
  PROVE  RtpInv'
<1>1. /\ src' = src /\ inbox' = inbox /\ faults' = faults /\ lostRun' = lostRun
      /\ prevseq' = prevseq /\ failed' = failed /\ dataLen' = dataLen /\ mem' = mem
      /\ frame' = frame /\ joined' = joined
  BY DEF BufferStep, net, rtp
<1>2. Types'
  BY <1>1 DEF RtpInv, Types, NetTypes, RtpTypes, SeenTypes, Counted, Pos
<1>3. UnderWay'
  <2>1. First' = First /\ Second' = Second
    BY <1>1 DEF First, Second
  <2>2. Quiet => Quiet'
    <3>1. \A n : Near(src, n) => Near(src, n)'
      BY BufferRests
    <3>2. Near(src, lostRun + 1) => Near(src, lostRun + 1)'
      BY <1>1, <3>1 DEF Near
    <3>3. QED
      BY <1>1, <3>2, BufferRests DEF Quiet
  <2>3. Arrived => Arrived'
    <3>1. CalmAfter(First) => CalmAfter(First)'
      BY <1>1, <2>1 DEF CalmAfter
    <3>2. Near(First, SeqMod - 2) => Near(First, SeqMod - 2)'
      BY BufferRests
    <3>3. QED
      BY <1>1, <2>1, <3>1, <3>2, BufferRests DEF Arrived, Follows
  <2>4. Near(First, SeqMod - 2) => Near(First, SeqMod - 2)'
    BY BufferRests
  <2>5. Near(Second, SeqMod - 2) => Near(Second, SeqMod - 2)'
    BY BufferRests
  <2>6. Twice => Twice'
    BY <1>1, <2>1, <2>4, BufferRests DEF Twice, Follows, Disturbed
  <2>7. Again => Again'
    BY <1>1, <2>1 DEF Again, Follows, Disturbed
  <2>8. Swapped => Swapped'
    BY <1>1, <2>1, <2>5 DEF Swapped, Follows, Disturbed
  <2>9. Late => Late'
    BY <1>1, <2>1 DEF Late, Disturbed
  <2>10. Skipped => Skipped'
    <3>1. Gap(prevseq, First.seq)' = Gap(prevseq, First.seq)
      BY <1>1, <2>1 DEF Gap
    <3>2. QED
      BY <1>1, <2>1, <3>1, BufferRests DEF Skipped
  <2>11. QED
    BY <2>2, <2>3, <2>6, <2>7, <2>8, <2>9, <2>10 DEF RtpInv, UnderWay
<1>4. JoinsFirst' /\ IntactUnlessSplit'
  BY <1>1 DEF RtpInv, JoinsFirst, IntactUnlessSplit, Intact
<1>5. QED
  BY <1>2, <1>3, <1>4 DEF RtpInv

(* The task's and the application's dealings with buffers.                  *)
LEMMA PoolKeeps ==
  ASSUME RtpInv, TakeBuffer \/ Stall \/ ReturnBuffer
  PROVE  RtpInv'
<1>1. PoolTypes /\ split \in BOOLEAN
  BY DEF RtpInv, Types, SeenTypes
<1>2. CASE TakeBuffer
  <2>1. BufferStep /\ split' = split
    BY <1>2 DEF TakeBuffer, BufferStep, net, seen
  <2>2. PoolTypes'
    BY <1>1, <1>2 DEF TakeBuffer, PoolTypes
  <2>3. QED
    BY <1>1, <2>1, <2>2, BufferKeeps
<1>3. CASE Stall
  <2>1. BufferStep /\ split' = TRUE
    BY <1>3 DEF Stall, BufferStep
  <2>2. PoolTypes'
    BY <1>1, <1>3 DEF Stall, PoolTypes
  <2>3. QED
    BY <2>1, <2>2, BufferKeeps
<1>4. CASE ReturnBuffer
  <2>1. BufferStep /\ split' = split
    BY <1>4 DEF ReturnBuffer, BufferStep, seen
  <2>2. PoolTypes'
    BY <1>1, <1>4 DEF ReturnBuffer, PoolTypes
  <2>3. QED
    BY <1>1, <2>1, <2>2, BufferKeeps
<1>5. QED
  BY <1>2, <1>3, <1>4

-------------------------------------------------------------------------------
(* The session *)

LEMMA InitRtp == Init => RtpInv
<1> SUFFICES ASSUME Init PROVE RtpInv
  OBVIOUS
<1>1. /\ MaxLen \in Nat \ {0} /\ MaxSent \in Nat /\ MaxFaults \in Nat /\ SeqMod \in Nat
      /\ MaxBurst \in 0 .. SeqMod - 3
  BY RtpAssumption DEF RtpAssumption
<1>2. /\ inbox = << >> /\ faults = 0 /\ lostRun = 0 /\ prevseq = 0 /\ failed = FALSE
      /\ dataLen = 0 /\ mem = [b \in Buffers |-> Blank] /\ buffer = NULL
      /\ atUser = << >> /\ frame = NoFrame /\ joined = 0 /\ split = FALSE
  BY DEF Init
<1>3. /\ IsPacket(src) /\ src.id = 1 /\ ~src.calm /\ ~src.owed /\ src.codec \in Codecs
  <2>1. PICK pt \in Codecs, seq \in 0 .. SeqMod - 1 :
          \E s \in Frames(1, pt, seq, FALSE, FALSE), k \in 1 .. MaxLen :
            k <= s.len /\ src = [s EXCEPT !.k = k]
    BY DEF Init
  <2>2. seq \in Counters
    BY DEF Counters
  <2>3. PICK s \in Frames(1, pt, seq, FALSE, FALSE), k \in 1 .. MaxLen :
          k <= s.len /\ src = [s EXCEPT !.k = k]
    BY <2>1
  <2>4. s \in [id : {1}, codec : {pt}, k : {1}, seq : {seq}, len : 1 .. MaxLen,
               calm : {FALSE}, owed : {FALSE}]
    <3>1. Lengths(1, pt) \subseteq 1 .. MaxLen
      BY DEF Lengths
    <3>2. QED
      BY <2>3, <3>1 DEF Frames
  <2> DEFINE n == s.len
  <2>5. n \in 1 .. MaxLen /\ k <= n
    BY <2>3, <2>4
  <2>6. s = [id |-> 1, codec |-> pt, k |-> 1, seq |-> seq, len |-> n,
             calm |-> FALSE, owed |-> FALSE]
    BY <2>4
  <2> HIDE DEF n
  <2>7. src = [id |-> 1, codec |-> pt, k |-> k, seq |-> seq, len |-> n,
               calm |-> FALSE, owed |-> FALSE]
    <3>1. src = [[id |-> 1, codec |-> pt, k |-> 1, seq |-> seq, len |-> n,
                  calm |-> FALSE, owed |-> FALSE] EXCEPT !.k = k]
      BY <2>3, <2>6, Zenon
    <3>2. QED
      BY <3>1
  <2>8. src \in Sendable
    BY <1>1, <2>2, <2>5, <2>7 DEF Sendable
  <2>9. QED
    BY <2>5, <2>7, <2>8 DEF IsPacket
<1>4. NetTypes
  <2>1. Len(inbox) = 0 /\ inbox \in Seq(Sendable)
    BY <1>2
  <2>2. 1 # MaxSent + 2 /\ 1 <= MaxSent + 2
    BY <1>1
  <2>3. QED
    BY <1>1, <1>2, <1>3, <2>1, <2>2 DEF NetTypes
<1>5. RtpTypes
  <2>1. Blank \in Memory
    BY DEF Blank, Memory, Content
  <2>2. prevseq \in Counters
    BY <1>1, <1>2 DEF Counters
  <2>3. mem \in [Buffers -> Memory]
    BY <1>2, <2>1
  <2>4. QED
    BY <1>2, <2>2, <2>3 DEF RtpTypes
<1>6. PoolTypes
  <2>1. Cardinality(Buffers) \in Nat
    BY RtpAssumption, FS_CardinalityType DEF RtpAssumption
  <2>2. emptyMbx \in [1 .. Cardinality(Buffers) -> Buffers]
    BY DEF Init
  <2>3. emptyMbx \in Seq(Buffers)
    BY <2>1, <2>2
  <2>4. QED
    BY <1>2, <2>3 DEF PoolTypes
<1>7. SeenTypes
  BY <1>2 DEF SeenTypes
<1>8. Counted
  <2>1. Pos(src) = src.k /\ src.k \in Nat /\ src.k >= 1
    BY <1>1, <1>3 DEF Pos, IsPacket, Sendable
  <2>2. Len(inbox) = 0
    BY <1>2
  <2>3. QED
    BY <1>2, <2>1, <2>2 DEF Counted
<1>9. UnderWay
  BY <1>2, <1>3 DEF UnderWay, Quiet, Near, Held
<1>10. JoinsFirst /\ IntactUnlessSplit
  BY <1>2 DEF JoinsFirst, IntactUnlessSplit
<1>11. QED
  BY <1>4, <1>5, <1>6, <1>7, <1>8, <1>9, <1>10 DEF RtpInv, Types

LEMMA NextRtp == RtpInv /\ [Next]_vars => RtpInv'
<1> SUFFICES ASSUME RtpInv, [Next]_vars PROVE RtpInv'
  OBVIOUS
<1>1. CASE Network
  <2>1. Types' /\ UnderWay'
    BY <1>1, NetworkKeeps DEF RtpInv
  <2>2. frame' = frame /\ joined' = joined
    BY <1>1 DEF Network, Arrive, Lose, Duplicate, Swap, SendRejectable, seen
  <2>3. JoinsFirst' /\ IntactUnlessSplit'
    BY <2>2 DEF RtpInv, JoinsFirst, IntactUnlessSplit, Intact
  <2>4. QED
    BY <2>1, <2>3 DEF RtpInv
<1>2. CASE Demux
  BY <1>2, DemuxKeeps
<1>3. CASE TakeBuffer \/ Stall \/ ReturnBuffer
  BY <1>3, PoolKeeps
<1>4. CASE UNCHANGED vars
  <2>1. BufferStep /\ PoolTypes' /\ split' \in BOOLEAN
    BY <1>4 DEF vars, pool, seen, BufferStep, RtpInv, Types, PoolTypes, SeenTypes
  <2>2. QED
    BY <2>1, BufferKeeps
<1>5. CASE DemuxRejected
  BY <1>5, RejectedKeeps
<1>6. QED
  BY <1>1, <1>2, <1>3, <1>4, <1>5 DEF Next, Task, Demux, Ended

THEOREM RtpInvariant == Spec => []RtpInv
BY InitRtp, NextRtp, PTL DEF Spec

(* The types of every variable: the fields of UDPReceiveStruct, the packets *)
(* under way, the buffers and their contents; no packet is appended beyond  *)
(* the end of a buffer that holds all that was sent.                        *)
THEOREM TypeCorrect == Spec => []TypeOK
<1>1. RtpInv => TypeOK
  <2> SUFFICES ASSUME RtpInv PROVE TypeOK
    OBVIOUS
  <2>1. /\ IsPacket(src) /\ src.id <= MaxSent + 2 /\ Len(inbox) \in 0 .. 2
        /\ faults \in 0 .. MaxFaults /\ lostRun \in 0 .. MaxBurst
        /\ failed \in BOOLEAN /\ split \in BOOLEAN /\ prevseq \in Counters
        /\ dataLen \in Nat /\ mem \in [Buffers -> Memory]
    BY DEF RtpInv, Types, NetTypes, RtpTypes, SeenTypes
  <2>2. emptyMbx \in Seq(Buffers) /\ atUser \in Seq(Buffers)
        /\ buffer \in Buffers \union {NULL}
    BY DEF RtpInv, Types, PoolTypes
  <2>3. dataLen \in 0 .. Room
    BY <2>1, RoomCounted DEF RtpInv
  <2>4. /\ src.codec \in Codecs /\ src.id \in Nat \ {0} /\ src.k \in 1 .. MaxLen
        /\ src.seq \in 0 .. SeqMod - 1
    BY <2>1 DEF IsPacket, Sendable, Counters, RtpInv, Types, NetTypes
  <2>5. src.id \in 1 .. MaxSent + 2
    BY <2>1, <2>4, RtpAssumption DEF RtpAssumption
  <2>6. DOMAIN mem = Buffers /\ \A b \in Buffers : DOMAIN mem[b] = 1 .. Room
    BY <2>1 DEF Memory
  <2>7. Len(inbox) <= 2
    BY DEF RtpInv, Types, NetTypes
  <2>9. prevseq \in 0 .. SeqMod - 1
    BY <2>1 DEF Counters
  <2>8. QED
    BY <2>1, <2>2, <2>3, <2>4, <2>5, <2>6, <2>7, <2>9, Zenon DEF TypeOK
<1>2. QED
  BY <1>1, RtpInvariant, PTL

(* A JPEG frame that is handed on without the mark of a failure, in one     *)
(* buffer, is the frame as it was sent: whatever is lost, doubled or        *)
(* swapped, demuxRTPMJpeg never mixes two frames unnoticed.                 *)
THEOREM FramesAreIntact == Spec => []IntactUnlessSplit
BY RtpInvariant, PTL DEF RtpInv

(* A frame sent in calm arrives before the next one begins, unmarked and,   *)
(* in one buffer, whole: the failures of the frames before are forgotten.   *)
THEOREM SessionRecovers == Spec => []CalmFramesArrive
<1>1. RtpInv => CalmFramesArrive
  <2> SUFFICES ASSUME RtpInv, inbox # << >>, Head(inbox).k = 1, Head(inbox).owed
               PROVE  Announced(First)
    BY DEF CalmFramesArrive, Announced, First
  <2>1. Head(inbox) = First
    BY DEF RtpInv, Types, NetTypes, First
  <2>2. First.k = 1 /\ First.owed
    BY <2>1
  <2>3. CASE Held(First)
    BY <2>2, <2>3 DEF Held
  <2>6. UnderWay /\ inbox # << >>
    BY DEF RtpInv
  <2>4. Held(First)
    BY <2>1, <2>2, <2>6 DEF UnderWay, Quiet, Arrived, Twice, Again, Swapped, Late, Skipped
  <2>5. QED
    BY <2>3, <2>4
<1>2. QED
  BY <1>1, RtpInvariant, PTL

===============================================================================
