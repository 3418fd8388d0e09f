---------------------------- MODULE FormatProofs -----------------------------
(***************************************************************************)
(* Proofs about what is put into bytes and taken out again, for packets of *)
(* any length: the length fields and the packers of FIP (FipPackets), the  *)
(* line with its readers (FipLink), and the KLV data of the facade         *)
(* (DecodeFacade, KlvElements).                                            *)
(*                                                                         *)
(* The recursive definitions of these modules (the checksum, the packets   *)
(* SLParsePackets finds, what has been read after each element) are        *)
(* functions, and facts about them are proved by taking the smallest       *)
(* number for which they fail.                                             *)
(***************************************************************************)
EXTENDS FipLink, DecodeFacade, SequenceTheorems, WellFoundedInduction, TLAPS

(*****************************************************************************)
(* 1. Induction, and sequences of bytes                                      *)
(*****************************************************************************)

(* A set of natural numbers that is not empty has a smallest member.      *)
LEMMA SmallestExists ==
  ASSUME NEW T \in SUBSET Nat, T # {}
  PROVE  \E m \in T : \A k \in T : m <= k
<1> DEFINE R == OpToRel(<, Nat)
<1>1. IsWellFoundedOn(R, Nat)
  BY NatLessThanWellFounded
<1> HIDE DEF R
<1>2. PICK m \in T : \A k \in T : ~(<<k, m>> \in R)
  BY <1>1, WFMin
<1>3. \A k \in T : ~(k < m)
  <2> SUFFICES ASSUME NEW k \in T, k < m PROVE FALSE
    OBVIOUS
  <2>1. <<k, m>> \in Nat \X Nat /\ <<k, m>>[1] < <<k, m>>[2]
    OBVIOUS
  <2>2. <<k, m>> \in R
    BY <2>1 DEF R, OpToRel
  <2>3. QED
    BY <1>2, <2>2
<1>4. QED
  BY <1>3

(* What holds of 0, and of n + 1 when it holds of n, holds of every       *)
(* number.                                                                *)
LEMMA Induction ==
  ASSUME NEW T \in SUBSET Nat, 0 \in T, \A n \in T : n + 1 \in T
  PROVE  T = Nat
<1> SUFFICES ASSUME Nat \ T # {} PROVE FALSE
  OBVIOUS
<1>1. PICK m \in Nat \ T : \A k \in Nat \ T : m <= k
  BY SmallestExists
<1>2. m # 0 /\ m - 1 \in Nat /\ m - 1 \notin Nat \ T
  BY <1>1
<1>3. QED
  BY <1>1, <1>2

(* The same of the numbers up to N.                                       *)
LEMMA InductionUpto ==
  ASSUME NEW N \in Nat, NEW T \in SUBSET (0 .. N), 0 \in T,
         \A n \in T : n < N => n + 1 \in T
  PROVE  T = 0 .. N
<1> DEFINE U == {n \in Nat : n <= N => n \in T}
<1>1. 0 \in U /\ \A n \in U : n + 1 \in U
  OBVIOUS
<1>2. U \in SUBSET Nat
  OBVIOUS
<1> HIDE DEF U
<1>3. U = Nat
  BY <1>1, <1>2, Induction
<1>4. ASSUME NEW n \in 0 .. N PROVE n \in T
  <2>1. n \in U
    BY <1>3
  <2>2. QED
    BY <2>1 DEF U
<1>5. QED
  BY <1>4

(* f is computed by step from base.                                         *)
Follows(f, base, step, N) ==
  f[0] = base /\ \A n \in 1 .. N : f[n] = step[<<f[n - 1], n>>]

(* A function that a step computes from the value before it exists.       *)
LEMMA Recursion ==
  ASSUME NEW N \in Nat, NEW R, NEW base \in R, NEW step \in [R \X (1 .. N) -> R]
  PROVE  \E f \in [0 .. N -> R] : Follows(f, base, step, N)
<1> USE DEF Follows
<1> DEFINE Upto(f, k) == Follows(f, base, step, k)
           T == {k \in Nat : k <= N => \E f \in [0 .. N -> R] : Upto(f, k)}
<1>1. 0 \in T
  <2>1. [n \in 0 .. N |-> base] \in [0 .. N -> R]
    OBVIOUS
  <2>2. Upto([n \in 0 .. N |-> base], 0)
    OBVIOUS
  <2>3. QED
    BY <2>1, <2>2
<1>2. ASSUME NEW k \in T PROVE k + 1 \in T
  <2> SUFFICES ASSUME k + 1 <= N PROVE \E f \in [0 .. N -> R] : Upto(f, k + 1)
    OBVIOUS
  <2>1. PICK f \in [0 .. N -> R] : Upto(f, k)
    OBVIOUS
  <2>2. f[k] \in R /\ k + 1 \in 1 .. N
    OBVIOUS
  <2>3. PICK v \in R : v = step[<<f[k], k + 1>>]
    BY <2>2
  <2> DEFINE g == [f EXCEPT ![k + 1] = v]
  <2>4. g \in [0 .. N -> R]
    OBVIOUS
  <2>5. g[k + 1] = v /\ \A n \in 0 .. k : g[n] = f[n]
    BY <2>2
  <2> HIDE DEF g
  <2>6. Upto(g, k + 1)
    <3>1. g[0] = base
      BY <2>1, <2>5
    <3>2. ASSUME NEW n \in 1 .. k + 1 PROVE g[n] = step[<<g[n - 1], n>>]
      <4>1. CASE n = k + 1
        <5>1. n - 1 = k /\ g[k] = f[k]
          BY <4>1, <2>5
        <5>2. QED
          BY <4>1, <5>1, <2>3, <2>5
      <4>2. CASE n # k + 1
        BY <4>2, <2>1, <2>5
      <4>3. QED
        BY <4>1, <4>2
    <3>3. QED
      BY <3>1, <3>2
  <2>7. QED
    BY <2>4, <2>6
<1> HIDE DEF T
<1>3. N \in T
  <2>1. T \in SUBSET Nat
    BY DEF T
  <2>2. QED
    BY <1>1, <1>2, <2>1, Induction
<1>4. QED
  BY <1>3 DEF T

(* A byte.                                                                *)
LEMMA ByteRange == \A n \in Nat : n <= 255 => n \in Bytes
BY DEF Bytes

(* The bytes of two sequences one behind the other.                       *)
LEMMA JoinedBytes ==
  ASSUME NEW s \in Seq(Bytes), NEW t \in Seq(Bytes)
  PROVE  /\ s \o t \in Seq(Bytes) /\ Len(s \o t) = Len(s) + Len(t)
         /\ \A i \in 1 .. Len(s) : (s \o t)[i] = s[i]
         /\ \A i \in 1 .. Len(t) : (s \o t)[Len(s) + i] = t[i]
OBVIOUS

(* A part of a sequence of bytes is one.                                  *)
LEMMA PartOfBytes ==
  ASSUME NEW s \in Seq(Bytes), NEW a \in Nat \ {0}, NEW b \in Int, b <= Len(s)
  PROVE  SubSeq(s, a, b) \in Seq(Bytes)
OBVIOUS

(* Its length and its bytes.                                              *)
LEMMA PieceOfBytes ==
  ASSUME NEW s \in Seq(Bytes), NEW a \in Nat \ {0}, NEW b \in Nat, b <= Len(s), a <= b + 1
  PROVE  /\ SubSeq(s, a, b) \in Seq(Bytes) /\ Len(SubSeq(s, a, b)) = b + 1 - a
         /\ \A i \in 1 .. b + 1 - a : SubSeq(s, a, b)[i] = s[a - 1 + i]
OBVIOUS

(*****************************************************************************)
(* 2. Lengths and packers of FIP                                             *)
(*****************************************************************************)

(* A length that a long packet can have comes back from its field, and the  *)
(* reader skips as many bytes as the packer wrote.                          *)
THEOREM LengthsComeBack ==
  ASSUME NEW n \in 0 .. MAX_SLFIPEX_PAYLOAD
  PROVE  LET field == SlFipSetLen(n, TRUE)
         IN SlFipGetPktLen(field, TRUE) = [len |-> n, extra |-> (IF n >= 128 THEN 1 ELSE 0)]
<1> USE DEF SlFipSetLen, SlFipGetPktLen, MAX_SLFIPEX_PAYLOAD, MAX_SLFIPEX_BYTEMASK
<1>1. CASE n < 128
  BY <1>1
<1>2. CASE n >= 128
  <2>1. /\ n % 128 \in 0 .. 127 /\ n \div 128 \in 0 .. 127
        /\ n = 128 * (n \div 128) + (n % 128)
    BY <1>2
  <2>2. (n \div 128) % 256 = n \div 128
    BY <2>1
  <2>3. SlFipSetLen(n, TRUE) = <<(n % 128) + 128, n \div 128>>
    BY <1>2, <2>2
  <2>4. SlFipGetPktLen(<<(n % 128) + 128, n \div 128>>, TRUE) = [len |-> n, extra |-> 1]
    BY <2>1
  <2>5. QED
    BY <1>2, <2>3, <2>4
<1>3. QED
  BY <1>1, <1>2

-------------------------------------------------------------------------------
(* The packers whose length is that of what they write, type and checksum.  *)
(* The three types are those of the packers that get it wrong.              *)
AddsUp(r) == r.len = r.data + 2 \/ r.type \in {\h18, \h1F, \h74}

AllAddUp(rows) ==
  \A r \in rows : AddsUp(r) /\ r.len \in Nat /\ r.data \in Nat

(* A packer with more bytes of fields and the same more of length adds up *)
(* as before.                                                             *)
LEMMA LongerRows ==
  ASSUME NEW rows, AllAddUp(rows), NEW n \in Nat
  PROVE  AllAddUp(rows \cup Longer(rows, n))
BY DEF AllAddUp, AddsUp, Longer

(* Every packer of slfip.cpp, for arguments of any length, declares the      *)
(* bytes it writes, except SLFIPSetADCParameters (0x18), SLFIPSetVideoMode  *)
(* (0x1F) and setMultipleAlignment (0x74).                                  *)
THEOREM PackersAddUp == \A r \in Packers : AddsUp(r)
<1> USE DEF AllAddUp, AddsUp, P, FipAssumption
<1>1. AllAddUp(RequestPackers)
  BY FipAssumption DEF RequestPackers, MAX_SLFIP_PAYLOAD
<1>2. AllAddUp(StabilizationPackers)
  BY FipAssumption DEF StabilizationPackers
<1>3. AllAddUp(TrackingPackers)
  BY FipAssumption DEF TrackingPackers
<1>4. AllAddUp(TrackingParameterPackers)
  BY FipAssumption DEF TrackingParameterPackers
<1>5. AllAddUp(VideoParameterPackers)
  BY FipAssumption DEF VideoParameterPackers
<1>6. AllAddUp(DisplayPackers)
  BY FipAssumption DEF DisplayPackers, PEx
<1>7. AllAddUp(DetectionPackers)
  BY FipAssumption DEF DetectionPackers, SL_MAX_NUM_ALIGNMENTS
<1>8. AllAddUp(RegionPackers)
  BY FipAssumption DEF RegionPackers
<1>9. AllAddUp(PortPackers)
  BY FipAssumption DEF PortPackers, MAX_SLFIP_PAYLOAD
<1>10. AllAddUp(PositionPackers)
  <2>1. AllAddUp({P(\h43, 26, 6 * 2 + 2 + 2 + 4 + 2 + 2)})
    OBVIOUS
  <2>2. AllAddUp(MaybeAux({P(\h43, 26, 6 * 2 + 2 + 2 + 4 + 2 + 2)}))
    BY <2>1, LongerRows, 8 + 4 \in Nat DEF MaybeAux
  <2>3. QED
    BY <2>2 DEF PositionPackers
<1>11. AllAddUp(TrackPackers)
  <2> DEFINE added(type, width) == {PEx(type, width * n + 4, 2 + width * n) : n \in TrackCounts}
  <2>1. AllAddUp(added(\h51, 15) \cup added(\h78, 7))
    BY FipAssumption DEF PEx
  <2>2. QED
    BY <2>1, LongerRows, 8 + 4 \in Nat DEF TrackPackers, MaybeAux
<1>12. AllAddUp(FocusPackers)
  BY FipAssumption DEF FocusPackers
<1>13. AllAddUp(NetworkPackers)
  BY FipAssumption, LongerRows DEF NetworkPackers, PEx, MaybeDisplay
<1>14. AllAddUp(VideoModePackers)
  BY FipAssumption DEF VideoModePackers
<1>15. AllAddUp(StitchPackers)
  BY FipAssumption DEF StitchPackers
<1>16. AllAddUp(TrackSelectPackers)
  BY FipAssumption DEF TrackSelectPackers
<1>17. AllAddUp(AcquisitionPackers)
  BY FipAssumption DEF AcquisitionPackers
<1>18. AllAddUp(CardPackers)
  BY FipAssumption DEF CardPackers, PEx, MAX_SLFIP_PAYLOAD
<1>19. AllAddUp(MetadataPackers)
  BY FipAssumption, LongerRows DEF MetadataPackers, MaybeDisplay
<1>20. AllAddUp(FrameValuePackers)
  BY FipAssumption, LongerRows DEF FrameValuePackers, MaybeDisplay
<1>21. AllAddUp(DrawPackers)
  BY FipAssumption DEF DrawPackers, MAX_TEXT_LEN
<1>22. AllAddUp(SnapshotPackers)
  BY FipAssumption, LongerRows DEF SnapshotPackers, MaybeDisplay
<1>23. AllAddUp(LensPackers)
  BY FipAssumption DEF LensPackers, PEx, MAX_SLFIPEX_BYTEMASK
<1>24. AllAddUp(StatusPackers)
  BY FipAssumption DEF StatusPackers
<1>25. AllAddUp(LandingPackers)
  BY FipAssumption, LongerRows DEF LandingPackers, MaybeAux
<1>26. AllAddUp(SystemPackers)
  BY FipAssumption DEF SystemPackers
<1>27. QED
  BY <1>1, <1>2, <1>3, <1>4, <1>5, <1>6, <1>7, <1>8, <1>9, <1>10, <1>11, <1>12, <1>13,
     <1>14, <1>15, <1>16, <1>17, <1>18, <1>19, <1>20, <1>21, <1>22, <1>23, <1>24,
     <1>25, <1>26
     DEF Packers

(*****************************************************************************)
(* 3. The line and its readers                                               *)
(*****************************************************************************)

(* The exclusive or of two bytes is a byte.                               *)
LEMMA XorType ==
  ASSUME NEW a \in 0 .. 255, NEW b \in 0 .. 255
  PROVE  Xor(a, b) \in 0 .. 255
<1> DEFINE Bit(w) == ((a \div w) + (b \div w)) % 2
<1>1. /\ Bit(1) \in 0 .. 1 /\ Bit(2) \in 0 .. 1 /\ Bit(4) \in 0 .. 1 /\ Bit(8) \in 0 .. 1
      /\ Bit(16) \in 0 .. 1 /\ Bit(32) \in 0 .. 1 /\ Bit(64) \in 0 .. 1 /\ Bit(128) \in 0 .. 1
  OBVIOUS
<1>2. Xor(a, b) = 1 * Bit(1) + 2 * Bit(2) + 4 * Bit(4) + 8 * Bit(8) + 16 * Bit(16)
                  + 32 * Bit(32) + 64 * Bit(64) + 128 * Bit(128)
  BY DEF Xor
<1> HIDE DEF Bit
<1>3. QED
  BY <1>1, <1>2

(* So is every entry of the checksum table.                               *)
LEMMA TableType == crc8Table \in [0 .. 255 -> 0 .. 255]
<1> DEFINE Shift == [c \in 0 .. 255 |-> IF c % 2 = 1 THEN Xor(c \div 2, \h8C) ELSE c \div 2]
<1>1. Shift \in [0 .. 255 -> 0 .. 255]
  <2>1. \A c \in 0 .. 255 : c \div 2 \in 0 .. 255 /\ Xor(c \div 2, 140) \in 0 .. 255
    <3> TAKE c \in 0 .. 255
    <3>1. c \div 2 \in 0 .. 255 /\ 140 \in 0 .. 255
      OBVIOUS
    <3>2. QED
      BY <3>1, XorType
  <2>2. QED
    BY <2>1
<1>2. crc8Table = [c \in 0 .. 255 |-> Shift[Shift[Shift[Shift[Shift[Shift[Shift[Shift[c]]]]]]]]]
  BY DEF crc8Table
<1> HIDE DEF Shift
<1>3. QED
  BY <1>1, <1>2

(* So is the checksum after one more byte.                                *)
LEMMA StepType == \A c, b \in Bytes : CrcStep[c][b] \in Bytes
BY XorType, TableType DEF CrcStep, Bytes

(* One step of the recursion of Checksums, from f.                          *)
Checked(f, data, c, first, last) ==
  IF first > last THEN c
  ELSE IF first = last THEN CrcStep[c][data[first]]
  ELSE f[<<f[<<c, first, (first + last) \div 2>>], (first + last) \div 2 + 1, last>>]

(* The checksums of all pieces of the data exist: they are computed for   *)
(* longer and longer pieces.                                              *)
LEMMA ChecksumsExist ==
  ASSUME NEW data \in Seq(Bytes)
  PROVE  \E f \in [Bytes \X (1 .. Len(data)) \X (1 .. Len(data)) -> Bytes] :
           \A c \in Bytes, first, last \in 1 .. Len(data) :
             f[<<c, first, last>>] = Checked(f, data, c, first, last)
<1> DEFINE B == Bytes
           N == Len(data)
           D == 1 .. N
           Right(f, k) == \A c \in B, first, last \in D :
                            last - first < k => f[<<c, first, last>>] = Checked(f, data, c, first, last)
           T == {k \in 0 .. N : \E f \in [B \X D \X D -> B] : Right(f, k)}
<1>1. N \in Nat /\ \A i \in D : data[i] \in B
  OBVIOUS
<1>2. \A c \in B, i \in D : CrcStep[c][data[i]] \in B
  BY <1>1, StepType
<1>3. D \subseteq 1 .. N /\ \A i \in D : i \in Int /\ 1 <= i /\ i <= N
  BY <1>1
<1>4. ASSUME NEW first \in D, NEW last \in D, first < last
      PROVE  LET middle == (first + last) \div 2
             IN middle \in D /\ middle + 1 \in D /\ first <= middle /\ middle < last
  <2>1. /\ 2 * ((first + last) \div 2) <= first + last
        /\ first + last <= 2 * ((first + last) \div 2) + 1
        /\ (first + last) \div 2 \in Int
    BY <1>3
  <2>2. QED
    BY <1>1, <1>3, <1>4, <2>1
<1> HIDE DEF B, N
<1>5. 0 \in T
  <2> DEFINE f == [x \in B \X D \X D |-> x[1]]
  <2>1. f \in [B \X D \X D -> B]
    OBVIOUS
  <2>2. \A c \in B, first, last \in D : f[<<c, first, last>>] = c
    OBVIOUS
  <2> HIDE DEF f
  <2>3. Right(f, 0)
    BY <1>3, <2>2 DEF Checked
  <2>4. 0 \in 0 .. N
    BY <1>1
  <2>5. QED
    BY <2>1, <2>3, <2>4
<1>6. ASSUME NEW k \in T, k < N PROVE k + 1 \in T
  <2>1. PICK f \in [B \X D \X D -> B] : Right(f, k)
    OBVIOUS
  <2>2. k \in Nat /\ k + 1 \in 0 .. N
    BY <1>1, <1>6
  <2> DEFINE g == [x \in B \X D \X D |-> Checked(f, data, x[1], x[2], x[3])]
  <2>3. ASSUME NEW c \in B, NEW first \in D, NEW last \in D
        PROVE  Checked(f, data, c, first, last) \in B
    <3> DEFINE middle == (first + last) \div 2
    <3>1. CASE first > last
      BY <3>1 DEF Checked
    <3>2. CASE first = last
      BY <1>3, <1>2, <3>2 DEF Checked
    <3>3. CASE first < last
      <4>1. middle \in D /\ middle + 1 \in D
        BY <1>4, <3>3
      <4>2. Checked(f, data, c, first, last) = f[<<f[<<c, first, middle>>], middle + 1, last>>]
        BY <1>3, <3>3 DEF Checked
      <4> HIDE DEF middle
      <4>3. f[<<c, first, middle>>] \in B
        BY <4>1
      <4>4. QED
        BY <4>1, <4>2, <4>3
    <3>4. QED
      BY <1>3, <3>1, <3>2, <3>3
  <2>4. g \in [B \X D \X D -> B]
    BY <2>3
  <2>5. \A c \in B, first, last \in D : g[<<c, first, last>>] = Checked(f, data, c, first, last)
    OBVIOUS
  <2> HIDE DEF g
  <2>6. \A c \in B, first, last \in D :
           last - first < k => g[<<c, first, last>>] = f[<<c, first, last>>]
    BY <2>1, <2>5
  <2>7. ASSUME NEW c \in B, NEW first \in D, NEW last \in D, last - first < k + 1
        PROVE  g[<<c, first, last>>] = Checked(g, data, c, first, last)
    <3>1. CASE first > last
      BY <1>3, <2>5, <3>1 DEF Checked
    <3>2. CASE first = last
      BY <1>3, <2>5, <3>2 DEF Checked
    <3>3. CASE first < last
      <4> DEFINE middle == (first + last) \div 2
      <4>1. middle \in D /\ middle + 1 \in D /\ first <= middle /\ middle < last
        BY <1>4, <3>3
      <4>2. /\ Checked(f, data, c, first, last) = f[<<f[<<c, first, middle>>], middle + 1, last>>]
            /\ Checked(g, data, c, first, last) = g[<<g[<<c, first, middle>>], middle + 1, last>>]
        BY <1>3, <3>3 DEF Checked
      <4> HIDE DEF middle
      <4>3. middle - first < k /\ last - (middle + 1) < k
        BY <1>3, <2>2, <2>7, <4>1
      <4>4. f[<<c, first, middle>>] \in B
        BY <4>1
      <4>5. g[<<c, first, middle>>] = f[<<c, first, middle>>]
        BY <2>6, <4>1, <4>3
      <4>6. g[<<f[<<c, first, middle>>], middle + 1, last>>]
              = f[<<f[<<c, first, middle>>], middle + 1, last>>]
        BY <2>6, <4>1, <4>3, <4>4
      <4>7. QED
        BY <2>5, <4>2, <4>5, <4>6
    <3>4. QED
      BY <1>3, <3>1, <3>2, <3>3
  <2>8. Right(g, k + 1)
    BY <2>7
  <2>9. QED
    BY <2>2, <2>4, <2>8
<1>7. T \in SUBSET (0 .. N)
  OBVIOUS
<1> HIDE DEF T
<1>8. N \in T
  BY <1>1, <1>5, <1>6, <1>7, InductionUpto
<1>9. PICK f \in [B \X D \X D -> B] : Right(f, N)
  BY <1>8 DEF T
<1>10. \A c \in B, first, last \in D : f[<<c, first, last>>] = Checked(f, data, c, first, last)
  <2>1. \A first, last \in D : last - first < N
    BY <1>1, <1>3
  <2>2. QED
    BY <1>9, <2>1
<1>11. QED
  BY <1>10 DEF B, N

(* SLComputeFIPChecksum returns a byte, whatever bytes it is given.       *)
LEMMA ChecksumType ==
  ASSUME NEW data \in Seq(Bytes)
  PROVE  SLComputeFIPChecksum(data) \in Bytes
<1> DEFINE B == Bytes
           D == 1 .. Len(data)
           Is(f) == f = [x \in B \X D \X D |-> Checked(f, data, x[1], x[2], x[3])]
<1>1. 1 \in Bytes
  BY DEF Bytes
<1>2. CASE data = << >>
  BY <1>2, <1>1 DEF SLComputeFIPChecksum
<1>3. CASE data # << >>
  <2>1. PICK f \in [B \X (1 .. Len(data)) \X (1 .. Len(data)) -> B] :
          \A c \in B, first, last \in 1 .. Len(data) :
            f[<<c, first, last>>] = Checked(f, data, c, first, last)
    BY ChecksumsExist
  <2>2. D = 1 .. Len(data) /\ 1 \in D /\ Len(data) \in D /\ 1 \in B
    BY <1>3, <1>1
  <2>3. Is(f)
    <3>1. \A x \in B \X D \X D : f[x] = Checked(f, data, x[1], x[2], x[3])
      <4> TAKE x \in B \X D \X D
      <4>1. x = <<x[1], x[2], x[3]>> /\ x[1] \in B /\ x[2] \in D /\ x[3] \in D
        OBVIOUS
      <4>2. x[2] \in 1 .. Len(data) /\ x[3] \in 1 .. Len(data)
        BY <2>2, <4>1
      <4>3. f[<<x[1], x[2], x[3]>>] = Checked(f, data, x[1], x[2], x[3])
        BY <2>1, <4>1, <4>2
      <4>4. QED
        BY <4>1, <4>3
    <3>2. f \in [B \X D \X D -> B]
      BY <2>1, <2>2
    <3>3. QED
      BY <3>1, <3>2
  <2>4. Checksums(data) = CHOOSE g : Is(g)
    BY DEF Checksums, Checked, Bytes
  <2> DEFINE g == Checksums(data)
             N == Len(data)
             T == {k \in 0 .. N : \A c \in B, first, last \in D :
                     first <= last /\ last - first < k => g[<<c, first, last>>] \in B}
  <2>5. Is(g)
    BY <2>3, <2>4
  <2> HIDE DEF g
  <2>6. \A c \in B, first, last \in D : g[<<c, first, last>>] = Checked(g, data, c, first, last)
    BY <2>5
  <2>7. \A c \in B, i \in D : CrcStep[c][data[i]] \in B
    BY <2>2, StepType
  <2>8. N \in Nat /\ 0 \in 0 .. N /\ \A i \in D : i \in Int /\ 1 <= i /\ i <= N
    BY <2>2
  <2> HIDE DEF N, B, D
  <2>9. 0 \in T
    BY <2>8
  <2>10. ASSUME NEW k \in T, k < N PROVE k + 1 \in T
    <3>1. k \in Nat /\ k + 1 \in 0 .. N
      BY <2>8, <2>10
    <3>2. ASSUME NEW c \in B, NEW first \in D, NEW last \in D, first <= last, last - first < k + 1
          PROVE  g[<<c, first, last>>] \in B
      <4>1. CASE first = last
        BY <2>6, <2>7, <2>8, <4>1 DEF Checked
      <4>2. CASE first < last
        <5> DEFINE middle == (first + last) \div 2
        <5>1. middle \in D /\ middle + 1 \in D /\ first <= middle /\ middle < last
          <6>1. /\ 2 * middle <= first + last /\ first + last <= 2 * middle + 1 /\ middle \in Int
            BY <2>8
          <6> HIDE DEF middle
          <6>2. QED
            BY <2>2, <2>8, <4>2, <6>1 DEF N
        <5>2. g[<<c, first, last>>] = g[<<g[<<c, first, middle>>], middle + 1, last>>]
          BY <2>6, <2>8, <4>2 DEF Checked
        <5> HIDE DEF middle
        <5>3. middle - first < k /\ last - (middle + 1) < k /\ middle + 1 <= last
          BY <2>8, <3>1, <3>2, <5>1
        <5>4. g[<<c, first, middle>>] \in B
          BY <5>1, <5>3
        <5>5. QED
          BY <5>1, <5>2, <5>3, <5>4
      <4>3. QED
        BY <2>8, <3>2, <4>1, <4>2
    <3>3. QED
      BY <3>1, <3>2
  <2>11. T \in SUBSET (0 .. N)
    OBVIOUS
  <2> HIDE DEF T
  <2>12. N \in T
    BY <2>8, <2>9, <2>10, <2>11, InductionUpto
  <2>13. g[<<1, 1, N>>] \in B
    <3>1. 1 <= N /\ N - 1 < N /\ N \in D
      BY <2>2, <2>8 DEF N
    <3>2. QED
      BY <2>2, <2>12, <3>1 DEF T
  <2>14. QED
    BY <1>3, <2>13 DEF SLComputeFIPChecksum, g, N, B
<1>4. QED
  BY <1>2, <1>3

-------------------------------------------------------------------------------
(* The fields of a packet are bytes, as many as asked for.                *)
LEMMA DataType ==
  ASSUME NEW n \in Nat, NEW fill \in Fills
  PROVE  Data(n, fill) \in Seq(Bytes) /\ Len(Data(n, fill)) = n
<1>1. Inner \in Seq(Bytes) /\ Len(Inner) = 5
  <2>1. <<0>> \in Seq(Bytes) /\ <<HeaderByte1, HeaderByte2, 2, 0>> \in Seq(Bytes)
    BY DEF Bytes, HeaderByte1, HeaderByte2
  <2>2. SLComputeFIPChecksum(<<0>>) \in Bytes
    BY <2>1, ChecksumType
  <2>3. QED
    BY <2>1, <2>2 DEF Inner
<1>2. 0 \in Bytes /\ HeaderByte1 \in Bytes /\ HeaderByte2 \in Bytes
  BY DEF Bytes, HeaderByte1, HeaderByte2
<1>3. \A i \in 1 .. n : Inner[((i - 1) % 5) + 1] \in Bytes
  <2>1. \A j \in 1 .. 5 : Inner[j] \in Bytes
    BY ONLY <1>1, ElementOfSeq
  <2>2. \A i \in 1 .. n : ((i - 1) % 5) + 1 \in 1 .. 5
    OBVIOUS
  <2>3. QED
    BY <2>1, <2>2
<1>4. Data(n, fill) \in [1 .. n -> Bytes]
  <2>1. CASE fill = "zero"
    BY <1>2, <2>1 DEF Data
  <2>2. CASE fill = "header"
    BY <1>2, <2>2 DEF Data
  <2>3. CASE fill = "packet"
    BY <1>3, <2>3 DEF Data
  <2>4. QED
    BY <2>1, <2>2, <2>3, LinkAssumption DEF LinkAssumption
<1>5. QED
  BY <1>4

(* The length field is one byte or two.                                   *)
LEMMA LengthType ==
  ASSUME NEW n \in Nat, NEW ex \in BOOLEAN
  PROVE  SlFipSetLen(n, ex) \in Seq(Bytes)
<1>1. n % 256 \in Bytes /\ (n % 128) + 128 \in Bytes /\ (n \div 128) % 256 \in Bytes
  BY DEF Bytes
<1>2. QED
  BY <1>1 DEF SlFipSetLen, MAX_SLFIPEX_BYTEMASK

(* What the checksum of a packet is taken over.                             *)
Body(row, fill)    == <<row.type>> \o Data(row.data, fill)
Covered(row, fill) ==
  [i \in 1 .. row.len - 1 |-> IF i <= Len(Body(row, fill)) THEN Body(row, fill)[i] ELSE 0]

(* What the checksum of a sound packer covers are bytes.                  *)
LEMMA BodyType ==
  ASSUME NEW row \in Row, NEW fill \in Fills
  PROVE  Body(row, fill) \in Seq(Bytes) /\ Len(Body(row, fill)) = row.data + 1
<1>1. row.type \in Bytes /\ row.data \in Nat
  BY DEF Row, Bytes
<1>2. Data(row.data, fill) \in Seq(Bytes) /\ Len(Data(row.data, fill)) = row.data
  BY <1>1, DataType
<1>3. <<row.type>> \in Seq(Bytes) /\ Len(<<row.type>>) = 1
  BY <1>1
<1>4. QED
  BY <1>1, <1>2, <1>3, JoinedBytes DEF Body

(* What it covers for any packer, which is the body if the packer is      *)
(* sound.                                                                 *)
LEMMA CoveredType ==
  ASSUME NEW row \in Row, NEW fill \in Fills
  PROVE  SLComputeFIPChecksum(Covered(row, fill)) \in Bytes
<1>1. row.len \in Nat /\ 0 \in Bytes
  BY DEF Row, Bytes
<1>2. Body(row, fill) \in Seq(Bytes)
  BY BodyType
<1> DEFINE body == Body(row, fill)
           n    == IF row.len = 0 THEN 0 ELSE row.len - 1
<1>3. n \in Nat /\ 1 .. row.len - 1 = 1 .. n
  BY <1>1
<1>4. Covered(row, fill) = [i \in 1 .. n |-> IF i <= Len(body) THEN body[i] ELSE 0]
  BY <1>3 DEF Covered
<1> HIDE DEF n, body
<1>5. \A i \in 1 .. n : i <= Len(body) => body[i] \in Bytes
  BY <1>2, <1>3 DEF body
<1>6. Covered(row, fill) \in [1 .. n -> Bytes]
  BY <1>1, <1>4, <1>5
<1>7. Covered(row, fill) \in Seq(Bytes)
  BY <1>3, <1>6
<1>8. QED
  BY <1>7, ChecksumType

(* The parts of a packet.                                                 *)
LEMMA PackIs ==
  ASSUME NEW row, NEW fill
  PROVE  Pack(row, fill) = <<HeaderByte1, row.second>> \o SlFipSetLen(row.len, row.ex)
                           \o Body(row, fill) \o <<SLComputeFIPChecksum(Covered(row, fill))>>
BY DEF Pack, Body, Covered

(* A packer leaves bytes in the buffer, whatever it is.                   *)
LEMMA PackType ==
  ASSUME NEW row \in Row, NEW fill \in Fills
  PROVE  Pack(row, fill) \in Seq(Bytes)
<1>1. <<HeaderByte1, row.second>> \in Seq(Bytes)
  BY DEF Row, Bytes, HeaderByte1
<1>2. SlFipSetLen(row.len, row.ex) \in Seq(Bytes)
  BY LengthType DEF Row
<1>3. Body(row, fill) \in Seq(Bytes)
  BY BodyType
<1>4. <<SLComputeFIPChecksum(Covered(row, fill))>> \in Seq(Bytes)
  BY CoveredType
<1>5. QED
  BY <1>1, <1>2, <1>3, <1>4, JoinedBytes, PackIs

-------------------------------------------------------------------------------
(* The parser looks at bytes.                                             *)
LEMMA AtType ==
  ASSUME NEW data \in Seq(Bytes), NEW i \in 0 .. Len(data) - 1
  PROVE  At(data, i) \in Bytes
<1>1. i + 1 \in 1 .. Len(data)
  OBVIOUS
<1>2. QED
  BY <1>1 DEF At

(* The next header is not before i, and is a header if it is in front of the *)
(* last four bytes.                                                          *)
LEMMA HeaderIsAhead ==
  ASSUME NEW data \in Seq(Bytes), NEW i \in 0 .. Len(data)
  PROVE  LET h == NextHeader(data, i)
         IN /\ h \in i .. Len(data)
            /\ i < Len(data) - 4 => h <= Len(data) - 4
            /\ (i < Len(data) - 4 /\ At(data, i) = HeaderByte1 /\ At(data, i + 1) = HeaderByte2)
                 => h = i
<1> DEFINE n    == Len(data)
           Here == {k \in i .. n - 4 - 1 : At(data, k) = HeaderByte1 /\ At(data, k + 1) = HeaderByte2}
           h    == NextHeader(data, i)
           First(k) == \A j \in Here : k <= j
<1>1. n \in Nat
  OBVIOUS
<1>2. h = IF Here = {} THEN (IF i < n - 4 THEN n - 4 ELSE i) ELSE CHOOSE k \in Here : First(k)
  BY DEF NextHeader
<1>3. Here \in SUBSET Nat /\ \A k \in Here : i <= k /\ k <= n - 4 - 1
  BY <1>1
<1>4. (i < n - 4 /\ At(data, i) = HeaderByte1 /\ At(data, i + 1) = HeaderByte2) => i \in Here
  BY <1>1
<1> HIDE DEF n, Here, h
<1>5. CASE Here = {}
  BY <1>1, <1>2, <1>4, <1>5 DEF n, h
<1>6. CASE Here # {}
  <2>1. \E k \in Here : First(k)
    BY <1>3, <1>6, SmallestExists
  <2>2. h \in Here /\ First(h)
    BY <1>2, <1>6, <2>1
  <2>3. h \in Nat /\ i <= h /\ h <= n - 4 - 1
    BY <1>3, <2>2
  <2>4. i \in Here => h = i
    <3>1. i \in Here => h <= i
      BY <2>2
    <3>2. QED
      BY <2>3, <3>1
  <2>5. h \in i .. n /\ h <= n - 4
    BY <1>1, <2>3
  <2>6. QED
    BY <1>4, <2>4, <2>5 DEF n, h
<1>7. QED
  BY <1>5, <1>6

(* One step of the recursion of Parses, from f.                             *)
Parsed(f, data, i) ==
  LET n     == Len(data)
      h     == NextHeader(data, i)
      add   == At(data, h + 2)
      Found == [type |-> At(data, h + 3), data |-> SubSeq(data, h + 5, h + add + 2)]
      After == f[h + 3 + add]
  IN IF i >= n - 4 \/ h >= n - 4   THEN [calls |-> << >>, left |-> n - h]
     ELSE IF ~MayHoldPacket(n)           THEN f[h + 2]
     ELSE IF ~HasCome(h, add, n)         THEN [calls |-> << >>, left |-> n - h]
     ELSE IF ~ChecksumFits(data, h, add) THEN f[h + 2]
     ELSE IF Called(Found.type)          THEN [After EXCEPT !.calls = <<Found>> \o @]
     ELSE After

(* It goes on behind i.                                                     *)
LEMMA GoesOn ==
  ASSUME NEW data \in Seq(Bytes), NEW i \in 0 .. Len(data),
         ~(i >= Len(data) - 4 \/ NextHeader(data, i) >= Len(data) - 4)
  PROVE  LET h   == NextHeader(data, i)
             add == At(data, h + 2)
         IN /\ h + 2 \in i + 1 .. Len(data) /\ h \in Nat /\ add \in Nat
            /\ HasCome(h, add, Len(data)) =>
                 /\ h + 3 + add \in i + 1 .. Len(data)
                 /\ At(data, h + 3) \in Bytes
                 /\ SubSeq(data, h + 5, h + add + 2) \in Seq(Bytes)
<1> DEFINE h   == NextHeader(data, i)
           n   == Len(data)
           add == At(data, h + 2)
<1>1. n \in Nat /\ h \in i .. n /\ h < n - 4
  BY HeaderIsAhead
<1> HIDE DEF h
<1>2. h \in Nat /\ h + 2 \in 0 .. n - 1 /\ h + 3 \in 0 .. n - 1 /\ h + 2 \in i + 1 .. n
  BY <1>1
<1>3. add \in Bytes /\ At(data, h + 3) \in Bytes
  BY <1>2, AtType
<1> HIDE DEF add
<1>4. add \in Nat
  BY <1>3 DEF Bytes
<1>5. HasCome(h, add, n) => /\ h + 3 + add \in i + 1 .. n
                            /\ SubSeq(data, h + 5, h + add + 2) \in Seq(Bytes)
  <2> SUFFICES ASSUME HasCome(h, add, n)
               PROVE  /\ h + 3 + add \in i + 1 .. n
                      /\ SubSeq(data, h + 5, h + add + 2) \in Seq(Bytes)
    OBVIOUS
  <2>1. add > 0 /\ add + h + 2 < n
    BY DEF HasCome
  <2>2. h + 5 \in Nat \ {0} /\ h + add + 2 \in Int /\ h + add + 2 <= n
    BY <1>1, <1>2, <1>4, <2>1
  <2>3. SubSeq(data, h + 5, h + add + 2) \in Seq(Bytes)
    BY <2>2, PartOfBytes
  <2>4. QED
    BY <1>1, <1>2, <1>4, <2>1, <2>3
<1>6. QED
  BY <1>2, <1>3, <1>4, <1>5 DEF h, add

(* One step of the parser uses only what it finds behind i.               *)
LEMMA SameAhead ==
  ASSUME NEW data \in Seq(Bytes), NEW i \in 0 .. Len(data), NEW f, NEW g,
         \A k \in i + 1 .. Len(data) : f[k] = g[k]
  PROVE  Parsed(f, data, i) = Parsed(g, data, i)
<1> DEFINE h   == NextHeader(data, i)
           n   == Len(data)
           add == At(data, h + 2)
<1>1. CASE i >= n - 4 \/ h >= n - 4
  BY <1>1 DEF Parsed
<1>2. CASE ~(i >= n - 4 \/ h >= n - 4)
  <2>1. /\ h + 2 \in i + 1 .. n
        /\ HasCome(h, add, n) => h + 3 + add \in i + 1 .. n
    BY <1>2, GoesOn
  <2>2. f[h + 2] = g[h + 2] /\ (HasCome(h, add, n) => f[h + 3 + add] = g[h + 3 + add])
    BY <2>1
  <2> HIDE DEF h, n, add
  <2>3. QED
    BY <1>2, <2>2 DEF Parsed, h, n, add
<1>3. QED
  BY <1>1, <1>2

(* The results of SLParsePackets from each place on exist, from the last  *)
(* place back.                                                            *)
LEMMA ParsesDef ==
  ASSUME NEW data \in Seq(Bytes)
  PROVE  \A i \in 0 .. Len(data) : Parses(data)[i] = Parsed(Parses(data), data, i)
<1> DEFINE n == Len(data)
           Is(f) == f = [i \in 0 .. n |-> Parsed(f, data, i)]
           Right(f, k) == \A i \in 0 .. n : i > n - k => f[i] = Parsed(f, data, i)
           T == {k \in 0 .. n + 1 : \E f : Right(f, k)}
<1>1. n \in Nat
  OBVIOUS
<1>2. 0 \in T
  BY <1>1
<1>3. ASSUME NEW k \in T, k < n + 1 PROVE k + 1 \in T
  <2>1. PICK f : Right(f, k)
    OBVIOUS
  <2> DEFINE g == [i \in 0 .. n |-> Parsed(f, data, i)]
  <2>2. \A i \in 0 .. n : i > n - k => g[i] = f[i]
    BY <2>1
  <2>3. ASSUME NEW i \in 0 .. n, i > n - (k + 1)
        PROVE  g[i] = Parsed(g, data, i)
    <3>1. \A j \in i + 1 .. n : f[j] = g[j]
      <4>1. \A j \in i + 1 .. n : j \in 0 .. n /\ j > n - k
        BY <1>1, <2>3
      <4>2. QED
        BY <2>2, <4>1
    <3>2. g[i] = Parsed(f, data, i)
      OBVIOUS
    <3> HIDE DEF g
    <3>3. Parsed(f, data, i) = Parsed(g, data, i)
      BY <3>1, SameAhead
    <3>4. QED
      BY <3>2, <3>3
  <2> HIDE DEF g
  <2>4. Right(g, k + 1)
    BY <2>3
  <2>5. k + 1 \in 0 .. n + 1
    BY <1>1, <1>3
  <2>6. QED
    BY <2>4, <2>5
<1>4. T \in SUBSET (0 .. n + 1) /\ n + 1 \in Nat
  BY <1>1
<1> HIDE DEF T, n
<1>5. n + 1 \in T
  BY <1>2, <1>3, <1>4, InductionUpto
<1>6. PICK f : Right(f, n + 1)
  BY <1>5 DEF T
<1> DEFINE g == [i \in 0 .. n |-> f[i]]
<1>7. ASSUME NEW i \in 0 .. n PROVE g[i] = Parsed(g, data, i)
  <2>1. f[i] = Parsed(f, data, i)
    BY <1>1, <1>6
  <2>2. Parsed(f, data, i) = Parsed(g, data, i)
    <3>1. \A k \in i + 1 .. Len(data) : f[k] = g[k]
      BY <1>1 DEF n
    <3>2. i \in 0 .. Len(data)
      BY DEF n
    <3> HIDE DEF g
    <3>3. QED
      BY <3>1, <3>2, SameAhead
  <2>3. QED
    BY <2>1, <2>2
<1>8. Is(g)
  BY <1>7
<1>9. Parses(data) = CHOOSE q : Is(q)
  BY DEF Parses, Parsed, n
<1>10. Is(Parses(data))
  BY <1>8, <1>9
<1>11. QED
  BY <1>10 DEF n

-------------------------------------------------------------------------------
Calls   == [type : Bytes, data : Seq(Bytes)]
Results(n) == [calls : Seq(Calls), left : {k \in 0 .. n : k <= MAX_SLFIP_PACKET}]

(* One step hands over packets and keeps no more than one packet, if what *)
(* is behind it does.                                                     *)
LEMMA ParsedType ==
  ASSUME NEW data \in Seq(Bytes), NEW i \in 0 .. Len(data), NEW f,
         \A k \in i + 1 .. Len(data) : f[k] \in Results(Len(data))
  PROVE  Parsed(f, data, i) \in Results(Len(data))
<1> DEFINE n     == Len(data)
           h     == NextHeader(data, i)
           add   == At(data, h + 2)
           Found == [type |-> At(data, h + 3), data |-> SubSeq(data, h + 5, h + add + 2)]
           After == f[h + 3 + add]
<1>1. n \in Nat /\ h \in Nat /\ i <= h /\ h <= n /\ (i < n - 4 => h <= n - 4)
  BY HeaderIsAhead
<1>2. n - h \in 0 .. n /\ (n - h <= MAX_SLFIP_PACKET =>
                             [calls |-> << >>, left |-> n - h] \in Results(n))
  <2>1. n - h \in 0 .. n
    BY <1>1
  <2>2. << >> \in Seq(Calls)
    OBVIOUS
  <2> HIDE DEF n, h
  <2>3. QED
    BY <2>1, <2>2 DEF Results
<1>3. CASE i >= n - 4 \/ h >= n - 4
  <2>1. n - h <= MAX_SLFIP_PACKET
    BY <1>1, <1>3 DEF MAX_SLFIP_PACKET
  <2>2. Parsed(f, data, i) = [calls |-> << >>, left |-> n - h]
    BY <1>3 DEF Parsed
  <2>3. QED
    BY <1>2, <2>1, <2>2
<1>4. CASE ~(i >= n - 4 \/ h >= n - 4)
  <2>1. h + 2 \in i + 1 .. n
    BY <1>4, GoesOn
  <2>2. HasCome(h, add, n) => /\ h + 3 + add \in i + 1 .. n
                              /\ At(data, h + 3) \in Bytes
                              /\ SubSeq(data, h + 5, h + add + 2) \in Seq(Bytes)
    BY <1>4, GoesOn
  <2>3. f[h + 2] \in Results(n) /\ (HasCome(h, add, n) => After \in Results(n))
    BY <2>1, <2>2
  <2>4. HasCome(h, add, n) => Found \in Calls
    BY <2>2 DEF Calls
  <2>5. Parsed(f, data, i) =
          IF ~MayHoldPacket(n)           THEN f[h + 2]
          ELSE IF ~HasCome(h, add, n)         THEN [calls |-> << >>, left |-> n - h]
          ELSE IF ~ChecksumFits(data, h, add) THEN f[h + 2]
          ELSE IF Called(Found.type)          THEN [After EXCEPT !.calls = <<Found>> \o @]
          ELSE After
    BY <1>4 DEF Parsed
  <2>6. HasCome(h, add, n) => [After EXCEPT !.calls = <<Found>> \o @] \in Results(n)
    <3> HIDE DEF After, Found, n, h, add
    <3> SUFFICES ASSUME HasCome(h, add, n)
                 PROVE  [After EXCEPT !.calls = <<Found>> \o @] \in Results(n)
      OBVIOUS
    <3>1. After.calls \in Seq(Calls) /\ <<Found>> \in Seq(Calls)
      BY <2>3, <2>4 DEF Results
    <3>2. <<Found>> \o After.calls \in Seq(Calls)
      BY <3>1
    <3>3. QED
      BY <2>3, <3>2 DEF Results
  <2>7. MayHoldPacket(n) => n - h <= MAX_SLFIP_PACKET
    BY <1>1 DEF MayHoldPacket, MAX_SLFIP_PACKET
  <2> DEFINE more == [After EXCEPT !.calls = <<Found>> \o @]
             none == [calls |-> << >>, left |-> n - h]
             result == Parsed(f, data, i)
  <2>8. result \in {f[h + 2], none, more, After}
        /\ (result = none \/ HasCome(h, add, n) \/ result = f[h + 2])
        /\ (MayHoldPacket(n) \/ result = f[h + 2])
    <3> HIDE DEF more, none, After, Found, n, h, add
    <3>1. CASE ~MayHoldPacket(n)
      BY <2>5, <3>1
    <3>2. CASE MayHoldPacket(n) /\ ~HasCome(h, add, n)
      BY <2>5, <3>2 DEF none
    <3>3. CASE MayHoldPacket(n) /\ HasCome(h, add, n)
      BY <2>5, <3>3 DEF more
    <3>4. QED
      BY <3>1, <3>2, <3>3
  <2>9. MayHoldPacket(n) => none \in Results(n)
    BY <1>2, <2>7
  <2> HIDE DEF more, none, result
  <2>10. HasCome(h, add, n) => more \in Results(n)
    BY <2>6 DEF more
  <2> HIDE DEF After, Found, n, h, add
  <2>11. result \in Results(n)
    BY <2>3, <2>8, <2>9, <2>10
  <2>12. QED
    BY <2>11 DEF result, n
<1>5. QED
  BY <1>3, <1>4

(* SLParsePackets hands over packets and keeps no more than one packet.   *)
LEMMA ParseType ==
  ASSUME NEW data \in Seq(Bytes)
  PROVE  SLParsePackets(data) \in Results(Len(data))
<1> DEFINE n == Len(data)
           f == Parses(data)
           T == {k \in 0 .. n + 1 : \A i \in 0 .. n : i > n - k => f[i] \in Results(n)}
<1>1. n \in Nat
  OBVIOUS
<1>2. \A i \in 0 .. n : f[i] = Parsed(f, data, i)
  BY ParsesDef
<1>3. 0 \in T
  BY <1>1
<1> HIDE DEF f
<1>4. ASSUME NEW k \in T, k < n + 1 PROVE k + 1 \in T
  <2>1. ASSUME NEW i \in 0 .. n, i > n - (k + 1)
        PROVE  f[i] \in Results(n)
    <3>1. \A j \in i + 1 .. n : j \in 0 .. n /\ j > n - k
      BY <1>1, <2>1
    <3>2. \A j \in i + 1 .. n : f[j] \in Results(n)
      BY <3>1
    <3>3. Parsed(f, data, i) \in Results(n)
      BY <3>2, ParsedType
    <3>4. QED
      BY <1>2, <3>3
  <2>2. k + 1 \in 0 .. n + 1
    BY <1>1, <1>4
  <2>3. QED
    BY <2>1, <2>2
<1>5. T \in SUBSET (0 .. n + 1) /\ n + 1 \in Nat
  BY <1>1
<1> HIDE DEF T
<1>6. n + 1 \in T
  BY <1>3, <1>4, <1>5, InductionUpto
<1>7. f[0] \in Results(n)
  BY <1>1, <1>6 DEF T
<1>8. [calls |-> << >>, left |-> 0] \in Results(n)
  <2>1. << >> \in Seq(Calls)
    OBVIOUS
  <2>2. 0 \in 0 .. n
    BY <1>1
  <2> HIDE DEF n
  <2>3. QED
    BY <2>1, <2>2 DEF Results, MAX_SLFIP_PACKET
<1>9. QED
  BY <1>7, <1>8 DEF SLParsePackets, TooFew, f
-------------------------------------------------------------------------------
(* It holds at first,                                                     *)
LEMMA LinkInitType == LinkInit => LinkTypeOK
<1> SUFFICES ASSUME LinkInit PROVE LinkTypeOK
  OBVIOUS
<1>1. PICK p \in Plans : reader = p.reader /\ script = p.script
  BY DEF LinkInit
<1>2. p \in [reader : {"blocking", "timed", "batch"}, script : Seq(Row)]
  BY LinkAssumption DEF LinkAssumption
<1>3. p.reader \in {"blocking", "timed", "batch"} /\ p.script \in Seq(Row)
  BY <1>2
<1>4. sent = << >> /\ hits = {} /\ torn = FALSE /\ line = << >>
      /\ pc = "header" /\ len = 0 /\ rest = << >> /\ dropped = {} /\ handled = << >>
  BY DEF LinkInit
<1>5. /\ sent \in Seq([row : Row, fill : Fills]) /\ line \in Seq(0 .. 255)
      /\ rest \in Seq(0 .. 255) /\ handled \in Seq([type : 0 .. 255, data : Seq(0 .. 255)])
  BY <1>4
<1>6. Len(rest) <= MAX_SLFIP_PACKET /\ hits \subseteq DOMAIN sent /\ torn \in BOOLEAN
      /\ dropped \subseteq DOMAIN sent
  <2>1. Len(<< >>) <= 130 /\ {} \subseteq DOMAIN sent /\ FALSE \in BOOLEAN
    OBVIOUS
  <2>2. QED
    BY ONLY <1>4, <2>1 DEF MAX_SLFIP_PACKET
<1>7. len \in 0 .. 255 /\ pc \in {"header", "resync", "length", "body"}
  BY <1>4
<1>8. QED
  BY ONLY <1>1, <1>3, <1>5, <1>6, <1>7 DEF LinkTypeOK

(* whatever happens to a packet on the line,                              *)
LEMMA ArrivesType ==
  ASSUME line \in Seq(Bytes), NEW bytes \in Seq(Bytes), Arrives(bytes), torn \in BOOLEAN
  PROVE  /\ line' \in Seq(Bytes) /\ torn' \in BOOLEAN
         /\ hits' \subseteq hits \cup {Len(sent')}
<1>1. CASE line' = line \o bytes /\ UNCHANGED <<hits, torn>>
  BY <1>1
<1>2. ASSUME hits' = hits \cup {Len(sent')}, NEW i \in DOMAIN bytes, NEW v \in HitValues,
             line' = line \o [bytes EXCEPT ![i] = v], torn' = (torn \/ i <= 3)
      PROVE  /\ line' \in Seq(Bytes) /\ torn' \in BOOLEAN
             /\ hits' \subseteq hits \cup {Len(sent')}
  <2>1. v \in Bytes
    BY LinkAssumption DEF LinkAssumption, Bytes
  <2>2. [bytes EXCEPT ![i] = v] \in Seq(Bytes)
    BY <2>1
  <2>3. line' \in Seq(Bytes)
    BY <1>2, <2>2
  <2>4. (torn \/ i <= 3) \in BOOLEAN
    OBVIOUS
  <2>5. QED
    BY ONLY <1>2, <2>3, <2>4
<1>3. ASSUME hits' = hits \cup {Len(sent')}, NEW i \in DOMAIN bytes,
             line' = line \o (SubSeq(bytes, 1, i - 1) \o SubSeq(bytes, i + 1, Len(bytes))),
             torn' = TRUE
      PROVE  /\ line' \in Seq(Bytes) /\ torn' \in BOOLEAN
             /\ hits' \subseteq hits \cup {Len(sent')}
  <2>1. i \in Nat \ {0} /\ i - 1 <= Len(bytes) /\ i + 1 \in Nat \ {0}
    OBVIOUS
  <2>2. SubSeq(bytes, 1, i - 1) \in Seq(Bytes) /\ SubSeq(bytes, i + 1, Len(bytes)) \in Seq(Bytes)
    BY <2>1, PartOfBytes
  <2>3. QED
    BY <1>3, <2>2
<1>4. QED
  BY <1>1, <1>2, <1>3 DEF Arrives

(* when a packet is sent,                                                 *)
LEMMA SendType ==
  ASSUME LinkTypeOK, NEW fill \in Fills, Send(fill)
  PROVE  LinkTypeOK'
<1> DEFINE row == Head(script)
           packet == [row |-> row, fill |-> fill]
           Packs == [row : Row, fill : Fills]
<1>1. row \in Row /\ script' \in Seq(Row)
  BY DEF LinkTypeOK, Send
<1>2. sent \in Seq(Packs) /\ sent' = Append(sent, packet)
  BY DEF LinkTypeOK, Send
<1>3. packet \in Packs
  BY <1>1
<1> HIDE DEF Packs, packet
<1>4. sent' \in Seq(Packs) /\ DOMAIN sent \subseteq DOMAIN sent' /\ Len(sent') \in DOMAIN sent'
  BY <1>2, <1>3
<1>5. Pack(row, fill) \in Seq(Bytes)
  BY <1>1, PackType
<1> HIDE DEF row
<1>6. /\ line' \in Seq(Bytes) /\ torn' \in BOOLEAN
      /\ hits' \subseteq hits \cup {Len(sent')}
  <2>1. line \in Seq(Bytes) /\ torn \in BOOLEAN /\ Arrives(Pack(row, fill))
    BY DEF LinkTypeOK, Send, Bytes, row
  <2>2. QED
    BY <1>5, <2>1, ArrivesType
<1>7. hits' \subseteq DOMAIN sent' /\ dropped \subseteq DOMAIN sent'
  BY <1>4, <1>6 DEF LinkTypeOK
<1>8. UNCHANGED <<reader, pc, len, rest, dropped, handled>>
  BY DEF Send
<1>9. QED
  BY <1>1, <1>4, <1>6, <1>7, <1>8 DEF LinkTypeOK, Packs, Bytes

(* The bytes of one Read.                                                 *)
LEMMA ReadType ==
  ASSUME LinkTypeOK, NEW n \in Nat, NEW got \in Nat, Read(n, got)
  PROVE  /\ line' \in Seq(Bytes) /\ line' = SubSeq(line, got + 1, Len(line))
         /\ got <= n /\ got <= Len(line)
         /\ SubSeq(line, 1, got) \in Seq(Bytes) /\ Len(SubSeq(line, 1, got)) = got
<1>1. line \in Seq(Bytes)
  BY DEF LinkTypeOK, Bytes
<1>2. line' = SubSeq(line, got + 1, Len(line)) /\ got <= n /\ got <= Len(line)
  BY DEF Read
<1>3. QED
  BY <1>1, <1>2

(* when ReadFIP reads a header or a length,                               *)
LEMMA ReadsType ==
  ASSUME LinkTypeOK,
         \/ \E got \in {0, 1, 2} : ReadHeader(got)
         \/ \E got \in {0, 1} : ReadResync(got) \/ ReadLength(got)
  PROVE  LinkTypeOK'
<1>1. ASSUME NEW got \in {0, 1, 2}, ReadHeader(got) PROVE LinkTypeOK'
  <2>1. line' \in Seq(Bytes)
    BY <1>1, ReadType DEF ReadHeader
  <2>2. pc' \in {"header", "resync", "length", "body"}
    BY <1>1 DEF ReadHeader, Goto, AfterHeader
  <2>3. UNCHANGED <<reader, script, sent, hits, torn, rest, dropped, len, handled>>
    BY <1>1 DEF ReadHeader, Goto
  <2>4. QED
    BY <2>1, <2>2, <2>3 DEF LinkTypeOK, Bytes
<1>2. ASSUME NEW got \in {0, 1}, ReadResync(got) PROVE LinkTypeOK'
  <2>1. line' \in Seq(Bytes)
    BY <1>2, ReadType DEF ReadResync
  <2>2. pc' \in {"header", "resync", "length", "body"}
    BY <1>2 DEF ReadResync, Goto
  <2>3. UNCHANGED <<reader, script, sent, hits, torn, rest, dropped, len, handled>>
    BY <1>2 DEF ReadResync, Goto
  <2>4. QED
    BY <2>1, <2>2, <2>3 DEF LinkTypeOK, Bytes
<1>3. ASSUME NEW got \in {0, 1}, ReadLength(got) PROVE LinkTypeOK'
  <2>1. line' \in Seq(Bytes) /\ got <= Len(line) /\ line \in Seq(Bytes)
    BY <1>3, ReadType DEF ReadLength, LinkTypeOK, Bytes
  <2>2. len' \in Bytes
    <3>1. got = 1 => line[1] \in Bytes
      BY <2>1
    <3>2. len \in Bytes
      BY DEF LinkTypeOK, Bytes
    <3>3. QED
      BY <1>3, <3>1, <3>2 DEF ReadLength
  <2>3. pc' = "body" /\ UNCHANGED <<reader, script, sent, hits, torn, rest, dropped, handled>>
    BY <1>3 DEF ReadLength, Goto
  <2>4. QED
    BY <2>1, <2>2, <2>3 DEF LinkTypeOK, Bytes
<1>4. QED
  BY <1>1, <1>2, <1>3

(* The packets handled are handed over one behind the other.              *)
LEMMA CallsType ==
  ASSUME NEW data \in Seq(Bytes), handled \in Seq(Calls)
  PROVE  handled \o SLParsePackets(data).calls \in Seq(Calls)
<1>1. SLParsePackets(data).calls \in Seq(Calls)
  BY ParseType DEF Results
<1>2. QED
  BY <1>1

(* when it reads the rest of a packet,                                    *)
LEMMA BodyReadType ==
  ASSUME LinkTypeOK, NEW got \in {0, 1, len, MAX_SLFIP_PAYLOAD}, ReadBody(got)
  PROVE  LinkTypeOK'
<1>1. len \in Bytes /\ len \in Nat /\ got \in Nat
  BY DEF LinkTypeOK, Bytes, MAX_SLFIP_PAYLOAD
<1>2. (IF len < MAX_SLFIP_PAYLOAD THEN len ELSE MAX_SLFIP_PAYLOAD) \in Nat
  BY <1>1 DEF MAX_SLFIP_PAYLOAD
<1>3. line' \in Seq(Bytes) /\ SubSeq(line, 1, got) \in Seq(Bytes)
  BY <1>1, <1>2, ReadType DEF ReadBody
<1>4. handled \in Seq(Calls)
  BY DEF LinkTypeOK, Calls, Bytes
<1> DEFINE data == <<HeaderByte1, HeaderByte2, len>> \o SubSeq(line, 1, got)
<1>5. data \in Seq(Bytes)
  <2>1. <<HeaderByte1, HeaderByte2, len>> \in Seq(Bytes)
    BY <1>1 DEF HeaderByte1, HeaderByte2, Bytes
  <2>2. QED
    BY <1>3, <2>1, JoinedBytes
<1>6. handled' \in Seq(Calls)
  <2>1. handled' = IF got # len THEN handled ELSE handled \o SLParsePackets(data).calls
    BY DEF ReadBody
  <2> HIDE DEF data
  <2>2. QED
    BY <1>4, <1>5, <2>1, CallsType
<1>7. pc' = "header" /\ UNCHANGED <<reader, script, sent, hits, torn, rest, dropped, len>>
  BY DEF ReadBody, Goto
<1>8. QED
  BY <1>3, <1>6, <1>7 DEF LinkTypeOK, Bytes, Calls

(* and when SLParsePackets is given all that came.                        *)
LEMMA BatchType ==
  ASSUME LinkTypeOK, NEW k, ParseBatch(k)
  PROVE  LinkTypeOK'
<1> DEFINE data   == rest \o SubSeq(line, 1, k)
           result == SLParsePackets(data)
           n      == Len(data)
<1>1. k \in 1 .. Len(line) /\ line \in Seq(Bytes) /\ rest \in Seq(Bytes) /\ handled \in Seq(Calls)
  BY DEF ParseBatch, LinkTypeOK, Bytes, Calls
<1>2. k \in Nat \ {0} /\ k <= Len(line) /\ k + 1 \in Nat \ {0}
  BY <1>1
<1>3. data \in Seq(Bytes)
  BY <1>1, <1>2, PartOfBytes, JoinedBytes
<1>4. rest' = SubSeq(data, n - result.left + 1, n) /\ handled' = handled \o result.calls
  BY DEF ParseBatch
<1>5. line' \in Seq(Bytes)
  BY <1>1, <1>2, PartOfBytes DEF ParseBatch
<1> HIDE DEF data
<1>6. result \in Results(n) /\ handled' \in Seq(Calls)
  BY <1>1, <1>3, <1>4, ParseType, CallsType
<1> HIDE DEF result
<1>7. result.left \in 0 .. n /\ result.left <= MAX_SLFIP_PACKET /\ n \in Nat
  BY <1>3, <1>6 DEF Results
<1>8. rest' \in Seq(Bytes) /\ Len(rest') = result.left
  <2> DEFINE first == n - result.left + 1
  <2>1. first \in Nat \ {0} /\ first <= n + 1 /\ n + 1 - first = result.left
    BY ONLY <1>7
  <2> HIDE DEF first
  <2>2. SubSeq(data, first, n) \in Seq(Bytes) /\ Len(SubSeq(data, first, n)) = n + 1 - first
    BY ONLY <1>3, <1>7, <2>1, PieceOfBytes DEF n
  <2>3. QED
    BY ONLY <1>4, <2>1, <2>2 DEF first
<1>9. UNCHANGED <<reader, script, sent, hits, torn, pc, len>>
  BY DEF ParseBatch
<1>10. dropped' \subseteq DOMAIN sent
  <2>1. \A a, b : WithBytesIn(a, b) \subseteq DOMAIN sent
    BY DEF WithBytesIn
  <2>2. dropped \subseteq DOMAIN sent
    BY DEF LinkTypeOK
  <2>3. \/ dropped' = dropped
        \/ dropped' = dropped \cup WithBytesIn(n, Len(line) - k)
    BY DEF ParseBatch, data, n
  <2>4. QED
    BY <2>1, <2>2, <2>3
<1>11. QED
  BY <1>5, <1>6, <1>7, <1>8, <1>9, <1>10 DEF LinkTypeOK, Bytes, Calls

(* Every step keeps the types.                                            *)
LEMMA LinkTypeStep == LinkTypeOK /\ [LinkNext]_linkVars => LinkTypeOK'
<1> SUFFICES ASSUME LinkTypeOK, [LinkNext]_linkVars PROVE LinkTypeOK'
  OBVIOUS
<1>1. ASSUME NEW fill \in Fills, Send(fill) PROVE LinkTypeOK'
  BY <1>1, SendType
<1>2. CASE \/ \E got \in {0, 1, 2} : ReadHeader(got)
           \/ \E got \in {0, 1} : ReadResync(got) \/ ReadLength(got)
  BY <1>2, ReadsType
<1>3. ASSUME NEW got \in {0, 1, len, MAX_SLFIP_PAYLOAD}, ReadBody(got) PROVE LinkTypeOK'
  BY <1>3, BodyReadType
<1>4. ASSUME NEW k, ParseBatch(k) PROVE LinkTypeOK'
  BY <1>4, BatchType
<1>5. CASE UNCHANGED linkVars
  BY <1>5 DEF LinkTypeOK, linkVars
<1>6. QED
  BY <1>1, <1>2, <1>3, <1>4, <1>5 DEF LinkNext

(* Whatever is packed, damaged, lost and read, the line carries bytes,    *)
(* handlers are called with bytes, and what SLParsePackets keeps for the  *)
(* next call fits the buffer of one packet (simpleslfipport.cpp 9-57,     *)
(* simpleSerialPort.cpp 131-178).                                         *)
THEOREM LinkIsTyped == LinkSpec => []LinkTypeOK
<1>1. QED
  BY LinkInitType, LinkTypeStep, PTL DEF LinkSpec

-------------------------------------------------------------------------------
(* A packet that a sound packer makes, at the parser.                       *)
LEMMA SoundPack ==
  ASSUME NEW row \in Row, NEW fill \in Fills, Sound(row)
  PROVE  LET p == Pack(row, fill)
         IN /\ p \in Seq(Bytes) /\ Len(p) = row.len + 3
            /\ p[1] = HeaderByte1 /\ p[2] = HeaderByte2 /\ p[3] = row.len
            /\ SubSeq(p, 4, row.len + 2) = Body(row, fill)
            /\ p[row.len + 3] = SLComputeFIPChecksum(Body(row, fill))
<1> DEFINE body == Body(row, fill)
           head == <<HeaderByte1, HeaderByte2>>
           size == <<row.len>>
           last == <<SLComputeFIPChecksum(body)>>
           p    == Pack(row, fill)
<1>1. row.len \in Nat /\ 2 <= row.len /\ row.len <= 126 /\ row.data \in Nat /\ row.len = row.data + 2 /\ row.second = HeaderByte2
  BY DEF Row, Sound, MAX_SLFIP_PAYLOAD
<1>2. SlFipSetLen(row.len, row.ex) = size
  BY <1>1 DEF SlFipSetLen, MAX_SLFIPEX_BYTEMASK
<1>3. body \in Seq(Bytes) /\ Len(body) = row.len - 1
  BY <1>1, BodyType
<1>4. Covered(row, fill) = body
  BY <1>1, <1>3 DEF Covered
<1>5. p = head \o size \o body \o last
  BY <1>1, <1>2, <1>4, PackIs
<1>6. /\ head \in Seq(Bytes) /\ size \in Seq(Bytes) /\ last \in Seq(Bytes)
      /\ Len(head) = 2 /\ Len(size) = 1 /\ Len(last) = 1
  <2>1. row.len \in Bytes /\ HeaderByte1 \in Bytes /\ HeaderByte2 \in Bytes
    BY <1>1 DEF Bytes, HeaderByte1, HeaderByte2
  <2>2. SLComputeFIPChecksum(body) \in Bytes
    BY <1>3, ChecksumType
  <2>3. QED
    BY <2>1, <2>2
<1>7. /\ head[1] = HeaderByte1 /\ head[2] = HeaderByte2 /\ size[1] = row.len
      /\ last[1] = SLComputeFIPChecksum(body)
  OBVIOUS
<1> DEFINE front == head \o size
           most  == front \o body
<1>8. front \in Seq(Bytes) /\ Len(front) = 3 /\ front[1] = head[1] /\ front[2] = head[2]
      /\ front[3] = size[1]
  BY <1>6
<1> HIDE DEF body, head, size, last, p, front
<1>9. /\ most \in Seq(Bytes) /\ Len(most) = row.len + 2
      /\ \A i \in 1 .. 3 : most[i] = front[i]
      /\ \A i \in 1 .. row.len - 1 : most[3 + i] = body[i]
  <2>1. /\ most \in Seq(Bytes) /\ Len(most) = Len(front) + Len(body)
        /\ \A i \in 1 .. Len(front) : most[i] = front[i]
        /\ \A i \in 1 .. Len(body) : most[Len(front) + i] = body[i]
    BY <1>3, <1>8, JoinedBytes
  <2>2. Len(front) + Len(body) = row.len + 2
    BY <1>1, <1>3, <1>8
  <2> HIDE DEF most
  <2>3. QED
    BY <1>3, <1>8, <2>1, <2>2
<1> HIDE DEF most
<1>10. /\ p \in Seq(Bytes) /\ Len(p) = row.len + 3
       /\ \A i \in 1 .. row.len + 2 : p[i] = most[i]
       /\ p[row.len + 3] = last[1]
  <2>1. p = most \o last
    BY <1>5 DEF most, front
  <2>2. /\ p \in Seq(Bytes) /\ Len(p) = Len(most) + 1
        /\ \A i \in 1 .. Len(most) : p[i] = most[i]
        /\ p[Len(most) + 1] = last[1]
    <3>1. /\ p \in Seq(Bytes) /\ Len(p) = Len(most) + Len(last)
          /\ \A i \in 1 .. Len(most) : p[i] = most[i]
          /\ \A i \in 1 .. Len(last) : p[Len(most) + i] = last[i]
      <4>1. most \in Seq(Bytes) /\ last \in Seq(Bytes)
        BY <1>6, <1>9
      <4>2. QED
        BY <2>1, <4>1, JoinedBytes
    <3>2. 1 \in 1 .. Len(last)
      BY <1>6
    <3>3. QED
      BY <1>6, <3>1, <3>2
  <2>3. Len(most) + 1 = row.len + 3
    BY <1>1, <1>9
  <2>4. QED
    BY <1>9, <2>2, <2>3
<1>11. SubSeq(p, 4, row.len + 2) = body
  <2>1. ASSUME NEW i \in 1 .. row.len - 1 PROVE p[3 + i] = body[i]
    <3>1. 3 + i \in 1 .. row.len + 2
      BY ONLY <1>1, i \in 1 .. row.len - 1
    <3>2. p[3 + i] = most[3 + i] /\ most[3 + i] = body[i]
      BY ONLY <1>9, <1>10, <3>1, i \in 1 .. row.len - 1
    <3>3. QED
      BY ONLY <3>2
  <2>2. SubSeq(p, 4, row.len + 2) \in Seq(Bytes) /\ Len(SubSeq(p, 4, row.len + 2)) = row.len - 1
        /\ \A i \in 1 .. row.len - 1 : SubSeq(p, 4, row.len + 2)[i] = p[3 + i]
    <3> DEFINE to == row.len + 2
    <3>1. /\ 4 \in Nat \ {0} /\ to \in Nat /\ to <= Len(p) /\ 4 <= to + 1
          /\ to + 1 - 4 = row.len - 1 /\ 4 - 1 = 3
      BY ONLY <1>1, <1>10
    <3> HIDE DEF to
    <3>2. /\ SubSeq(p, 4, to) \in Seq(Bytes) /\ Len(SubSeq(p, 4, to)) = to + 1 - 4
          /\ \A i \in 1 .. to + 1 - 4 : SubSeq(p, 4, to)[i] = p[4 - 1 + i]
      BY ONLY <1>10, <3>1, PieceOfBytes
    <3>3. QED
      BY ONLY <3>1, <3>2 DEF to
  <2>3. QED
    BY <1>3, <2>1, <2>2
<1>12. p[1] = HeaderByte1 /\ p[2] = HeaderByte2 /\ p[3] = row.len
  <2>1. /\ 1 \in 1 .. 3 /\ 2 \in 1 .. 3 /\ 3 \in 1 .. 3
        /\ 1 \in 1 .. row.len + 2 /\ 2 \in 1 .. row.len + 2 /\ 3 \in 1 .. row.len + 2
    BY <1>1
  <2>2. p[1] = most[1] /\ p[2] = most[2] /\ p[3] = most[3]
    BY <1>10, <2>1
  <2>3. most[1] = front[1] /\ most[2] = front[2] /\ most[3] = front[3]
    BY <1>9, <2>1
  <2>4. QED
    BY <1>7, <1>8, <2>2, <2>3
<1>13. QED
  BY <1>7, <1>10, <1>11, <1>12 DEF body, p

(* SLParsePackets calls the handler of a sound packet with its fields,    *)
(* once, whatever they are.                                               *)
LEMMA SoundPacketIsParsed ==
  ASSUME NEW row \in Row, NEW fill \in Fills, Sound(row), Called(row.type)
  PROVE  SLParsePackets(Pack(row, fill)).calls
           = <<[type |-> row.type, data |-> Data(row.data, fill)]>>
<1> DEFINE p == Pack(row, fill)
           n == Len(p)
           f == Parses(p)
           Found == [type |-> At(p, 0 + 3), data |-> SubSeq(p, 0 + 5, 0 + row.len + 2)]
<1>1. row.len \in Nat /\ 2 <= row.len /\ row.len <= 126 /\ row.data \in Nat /\ row.len = row.data + 2 /\ row.type \in Bytes
  BY DEF Row, Sound, MAX_SLFIP_PAYLOAD, Bytes
<1>2. /\ p \in Seq(Bytes) /\ n = row.len + 3
      /\ p[1] = HeaderByte1 /\ p[2] = HeaderByte2 /\ p[3] = row.len
      /\ SubSeq(p, 4, row.len + 2) = Body(row, fill)
      /\ p[row.len + 3] = SLComputeFIPChecksum(Body(row, fill))
  BY SoundPack
<1> HIDE DEF p, n, f
<1>3. /\ n \in Nat /\ 5 <= n /\ n <= 129 /\ 0 < n - 4 /\ 0 \in 0 .. n /\ n \in 0 .. n
      /\ Len(p) = n
  <2>1. n = row.len + 3 /\ Len(p) = n
    BY <1>2 DEF n
  <2>2. row.len \in Nat /\ 2 <= row.len /\ row.len <= 126
    BY <1>1
  <2>3. n \in Nat /\ 5 <= n /\ n <= 129
    BY <2>1, <2>2
  <2>4. QED
    BY <2>1, <2>3
<1>4. At(p, 0) = HeaderByte1 /\ At(p, 0 + 1) = HeaderByte2 /\ At(p, 0 + 2) = row.len
      /\ At(p, 0 + 2 + row.len) = p[row.len + 3] /\ At(p, 0 + 3) = p[4]
  <2>1. 0 + 1 = 1 /\ 0 + 1 + 1 = 2 /\ 0 + 2 + 1 = 3 /\ 0 + 3 + 1 = 4 /\ 0 + 2 + row.len + 1 = row.len + 3
    BY ONLY <1>1
  <2>2. QED
    BY ONLY <1>2, <2>1 DEF At
<1>5. NextHeader(p, 0) = 0
  BY <1>2, <1>3, <1>4, HeaderIsAhead DEF n
<1>6. f[n].calls = << >>
  <2>1. f[n] = Parsed(f, p, n)
    BY <1>2, <1>3, ParsesDef DEF f
  <2>2. n >= Len(p) - 4
    BY <1>3
  <2>3. QED
    BY <2>1, <2>2 DEF Parsed
<1>7. MayHoldPacket(n) /\ HasCome(0, row.len, n) /\ ChecksumFits(p, 0, row.len)
  <2>1. ChecksumFits(p, 0, row.len)
    <3>1. 0 + 4 = 4 /\ 0 + row.len + 2 = row.len + 2
      BY <1>1
    <3>2. QED
      BY <1>2, <1>4, <3>1 DEF ChecksumFits
  <2>2. MayHoldPacket(n)
    BY <1>3 DEF MayHoldPacket, MAX_SLFIP_PACKET
  <2>3. HasCome(0, row.len, n)
    <3>1. n = row.len + 3 /\ row.len \in Nat /\ 2 <= row.len
      BY <1>1, <1>2
    <3>2. QED
      BY <3>1 DEF HasCome
  <2>4. QED
    BY <2>1, <2>2, <2>3
<1>8. Found = [type |-> row.type, data |-> Data(row.data, fill)]
  <2> DEFINE body == Body(row, fill)
             data == Data(row.data, fill)
  <2>1. data \in Seq(Bytes) /\ Len(data) = row.data
    BY <1>1, DataType
  <2>2. body = <<row.type>> \o data /\ body \in Seq(Bytes) /\ Len(body) = row.len - 1
    BY <1>1, BodyType DEF Body
  <2> HIDE DEF body, data
  <2>3. body[1] = row.type /\ \A i \in 1 .. row.data : body[1 + i] = data[i]
    <3>1. <<row.type>> \in Seq(Bytes) /\ Len(<<row.type>>) = 1 /\ <<row.type>>[1] = row.type
      BY ONLY <1>1
    <3>2. /\ \A i \in 1 .. Len(<<row.type>>) : (<<row.type>> \o data)[i] = <<row.type>>[i]
          /\ \A i \in 1 .. Len(data) : (<<row.type>> \o data)[Len(<<row.type>>) + i] = data[i]
      BY ONLY <2>1, <3>1, JoinedBytes
    <3>3. QED
      BY ONLY <2>1, <2>2, <3>1, <3>2
  <2>4. \A i \in 1 .. row.len - 1 : p[3 + i] = body[i]
    <3>1. \A i \in 1 .. row.len - 1 : SubSeq(p, 4, row.len + 2)[i] = p[3 + i]
      <4> DEFINE to == row.len + 2
      <4>1. /\ 4 \in Nat \ {0} /\ to \in Nat /\ to <= Len(p) /\ 4 <= to + 1
            /\ to + 1 - 4 = row.len - 1 /\ 4 - 1 = 3
        <5>1. Len(p) = row.len + 3 /\ row.len \in Nat /\ 2 <= row.len
          BY <1>1, <1>2, <1>3
        <5>2. QED
          BY ONLY <5>1
      <4> HIDE DEF to
      <4>2. \A i \in 1 .. to + 1 - 4 : SubSeq(p, 4, to)[i] = p[4 - 1 + i]
        BY ONLY <1>2, <4>1, PieceOfBytes
      <4>3. QED
        BY ONLY <4>1, <4>2 DEF to
    <3>2. QED
      BY <1>2, <3>1 DEF body
  <2>5. At(p, 0 + 3) = row.type
    BY <1>1, <1>4, <2>3, <2>4
  <2>6. SubSeq(p, 5, row.len + 2) = data
    <3>1. SubSeq(p, 5, row.len + 2) \in Seq(Bytes) /\ Len(SubSeq(p, 5, row.len + 2)) = row.data
          /\ \A i \in 1 .. row.data : SubSeq(p, 5, row.len + 2)[i] = p[4 + i]
      <4>1. 5 \in Nat \ {0} /\ row.len + 2 \in Nat /\ row.len + 2 <= Len(p) /\ 5 <= row.len + 2 + 1
        <5>1. n = row.len + 3 /\ row.len \in Nat /\ 2 <= row.len /\ Len(p) = n
          BY <1>1, <1>2, <1>3
        <5>2. QED
          BY <5>1
      <4>2. /\ SubSeq(p, 5, row.len + 2) \in Seq(Bytes)
            /\ Len(SubSeq(p, 5, row.len + 2)) = row.len + 2 + 1 - 5
            /\ \A i \in 1 .. row.len + 2 + 1 - 5 : SubSeq(p, 5, row.len + 2)[i] = p[5 - 1 + i]
        BY <1>2, <4>1, PieceOfBytes
      <4>3. row.len + 2 + 1 - 5 = row.data /\ 5 - 1 = 4
        BY <1>1
      <4>4. QED
        BY <4>2, <4>3
    <3>2. \A i \in 1 .. row.data : p[4 + i] = data[i]
      <4>1. \A i \in 1 .. row.data : 1 + i \in 1 .. row.len - 1 /\ 3 + (1 + i) = 4 + i
        BY <1>1
      <4>2. QED
        BY <2>3, <2>4, <4>1
    <3>3. QED
      BY <2>1, <3>1, <3>2
  <2>7. 0 + 5 = 5 /\ 0 + row.len + 2 = row.len + 2
    BY <1>1
  <2>8. QED
    BY <2>5, <2>6, <2>7 DEF data
<1> HIDE DEF Found
<1>9. f[0] = [f[n] EXCEPT !.calls = <<Found>> \o @]
  <2>1. f[0] = Parsed(f, p, 0)
    BY <1>2, <1>3, ParsesDef DEF f
  <2>2. ~(0 >= Len(p) - 4) /\ 0 + 3 + row.len = n /\ Len(p) = n
    <3>1. n = row.len + 3 /\ row.len \in Nat
      BY <1>1, <1>2
    <3>2. QED
      BY <1>3, <3>1
  <2>3. Called(Found.type)
    BY <1>8
  <2>4. QED
    BY <1>4, <1>5, <1>7, <2>1, <2>2, <2>3 DEF Parsed, Found
<1>10. f[n] \in Results(n)
  <2>1. f[n] = Parsed(f, p, n) /\ n \in 0 .. Len(p) /\ Len(p) = n
    BY <1>2, <1>3, ParsesDef DEF f, n
  <2>2. \A k \in n + 1 .. Len(p) : f[k] \in Results(n)
    BY <1>3 DEF n
  <2>3. QED
    BY <1>2, <2>1, <2>2, ParsedType
<1>11. f[0].calls = <<Found>> \o << >>
  BY <1>6, <1>9, <1>10 DEF Results
<1>12. SLParsePackets(p) = f[0]
  <2>1. ~(Len(p) < 4)
    BY <1>3 DEF n
  <2>2. QED
    BY <2>1 DEF SLParsePackets, TooFew, f
<1>13. QED
  <2>1. <<Found>> \o << >> = <<Found>>
    OBVIOUS
  <2>2. QED
    BY <1>8, <1>11, <1>12, <2>1 DEF p

-------------------------------------------------------------------------------
(* What is left on the line of the packets after the first m, when done bytes *)
(* of the next have been read: packet k starts behind byte start[k - 1].      *)
Laid(start, wire, m, done, bytes) ==
  /\ start \in [m .. Len(wire) -> Int]
  /\ start[m] = 0 - done /\ start[Len(wire)] = Len(bytes)
  /\ \A k \in m .. Len(wire) : start[k] <= Len(bytes)
  /\ \A k \in m + 1 .. Len(wire) :
       /\ start[k] = start[k - 1] + Len(wire[k])
       /\ \A j \in 1 .. Len(wire[k]) :
            start[k - 1] + j >= 1 => bytes[start[k - 1] + j] = wire[k][j]

Remains(wire, m, done, bytes) == \E start : Laid(start, wire, m, done, bytes)

(* A packet is put on the line.                                           *)
LEMMA OnePacketMore ==
  ASSUME NEW wire \in Seq(Seq(Bytes)), NEW m \in 0 .. Len(wire), NEW done \in Nat,
         NEW bytes \in Seq(Bytes), NEW p \in Seq(Bytes), Remains(wire, m, done, bytes)
  PROVE  Remains(Append(wire, p), m, done, bytes \o p)
<1> DEFINE n == Len(wire)
           all == Append(wire, p)
           line2 == bytes \o p
<1>1. PICK start : Laid(start, wire, m, done, bytes)
  BY DEF Remains
<1> DEFINE new == [k \in m .. n + 1 |-> IF k = n + 1 THEN Len(bytes) + Len(p) ELSE start[k]]
<1>2. /\ n \in Nat /\ m \in Nat /\ m <= n
      /\ Len(all) = n + 1 /\ all[n + 1] = p /\ \A k \in 1 .. n : all[k] = wire[k]
  OBVIOUS
<1>3. /\ Len(line2) = Len(bytes) + Len(p) /\ Len(bytes) \in Nat /\ Len(p) \in Nat
      /\ \A i \in 1 .. Len(bytes) : line2[i] = bytes[i]
      /\ \A j \in 1 .. Len(p) : line2[Len(bytes) + j] = p[j]
  BY JoinedBytes
<1>4. /\ start \in [m .. n -> Int] /\ start[m] = 0 - done /\ start[n] = Len(bytes)
      /\ \A k \in m .. n : start[k] <= Len(bytes)
      /\ \A k \in m + 1 .. n :
           /\ start[k] = start[k - 1] + Len(wire[k])
           /\ \A j \in 1 .. Len(wire[k]) :
                start[k - 1] + j >= 1 => bytes[start[k - 1] + j] = wire[k][j]
  BY <1>1 DEF Laid
<1>5. \A k \in 1 .. n : Len(wire[k]) \in Nat
  <2>1. \A k \in 1 .. n : wire[k] \in Seq(Bytes)
    OBVIOUS
  <2>2. QED
    BY <2>1
<1> HIDE DEF n, all, line2
<1>6. \A k \in m .. n : new[k] = start[k] /\ k # n + 1
  BY <1>2
<1>7. new[n + 1] = Len(bytes) + Len(p) /\ n + 1 \in m .. n + 1
  BY <1>2
<1>8. new \in [m .. n + 1 -> Int]
  BY <1>2, <1>3, <1>4
<1> HIDE DEF new
<1>9. /\ new[m] = 0 - done /\ new[n + 1] = Len(line2)
      /\ \A k \in m .. n + 1 : new[k] <= Len(line2)
  <2>1. m \in m .. n
    BY <1>2
  <2>2. ASSUME NEW k \in m .. n + 1 PROVE new[k] <= Len(line2)
    <3>1. CASE k = n + 1
      BY <1>3, <1>7, <3>1
    <3>2. CASE k # n + 1
      <4>1. k \in m .. n
        BY <1>2, <3>2
      <4>2. start[k] \in Int /\ start[k] <= Len(bytes) /\ new[k] = start[k]
        BY <1>4, <1>6, <4>1
      <4>3. QED
        BY <1>3, <4>2
    <3>3. QED
      BY <3>1, <3>2
  <2>3. QED
    BY <1>3, <1>4, <1>6, <1>7, <2>1, <2>2
<1>10. ASSUME NEW k \in m + 1 .. n + 1
       PROVE  /\ new[k] = new[k - 1] + Len(all[k])
              /\ \A j \in 1 .. Len(all[k]) :
                   new[k - 1] + j >= 1 => line2[new[k - 1] + j] = all[k][j]
  <2>1. CASE k = n + 1
    <3>1. n \in m .. n /\ k - 1 = n
      BY <1>2, <2>1
    <3>2. new[k - 1] = Len(bytes)
      BY <1>4, <1>6, <3>1
    <3>3. QED
      BY <1>2, <1>3, <1>7, <2>1, <3>2
  <2>2. CASE k # n + 1
    <3>1. k \in m + 1 .. n /\ k - 1 \in m .. n /\ k \in m .. n /\ k \in 1 .. n
      BY <1>2, <2>2
    <3>2. new[k] = start[k] /\ new[k - 1] = start[k - 1] /\ all[k] = wire[k]
      BY <1>2, <1>6, <3>1
    <3>3. /\ start[k - 1] \in Int /\ start[k] <= Len(bytes) /\ Len(wire[k]) \in Nat
          /\ start[k] = start[k - 1] + Len(wire[k])
      BY <1>4, <1>5, <3>1
    <3>4. ASSUME NEW j \in 1 .. Len(wire[k]), start[k - 1] + j >= 1
          PROVE  line2[start[k - 1] + j] = wire[k][j]
      <4>1. start[k - 1] + j \in 1 .. Len(bytes)
        <5>1. j \in Int /\ j <= Len(wire[k])
          BY ONLY <3>3, j \in 1 .. Len(wire[k])
        <5>2. start[k - 1] + j \in Int /\ start[k - 1] + j <= start[k]
          BY ONLY <3>3, <5>1
        <5>3. start[k - 1] + j <= Len(bytes) /\ start[k - 1] + j >= 1
          <6>1. Len(bytes) \in Nat /\ start[k] <= Len(bytes) /\ start[k] \in Int
            BY ONLY <1>3, <1>4, <3>1
          <6>2. start[k - 1] + j >= 1
            BY ONLY <3>4
          <6>3. QED
            BY ONLY <5>2, <6>1, <6>2
        <5>4. QED
          BY ONLY <1>3, <5>2, <5>3
      <4>2. bytes[start[k - 1] + j] = wire[k][j]
        BY <1>4, <3>1, <3>4
      <4>3. QED
        BY <1>3, <4>1, <4>2
    <3>5. QED
      BY <3>2, <3>3, <3>4
  <2>3. QED
    BY <2>1, <2>2
<1>11. Laid(new, all, m, done, line2)
  BY <1>2, <1>8, <1>9, <1>10 DEF Laid
<1>12. QED
  BY <1>11 DEF Remains, all, line2

(* Bytes of the next packet are read: they are what was packed.           *)
LEMMA SomeBytesLess ==
  ASSUME NEW wire \in Seq(Seq(Bytes)), NEW m \in Nat, m < Len(wire), NEW done \in Nat,
         NEW bytes \in Seq(Bytes), NEW got \in Nat, got <= Len(bytes),
         done + got <= Len(wire[m + 1]), Remains(wire, m, done, bytes)
  PROVE  /\ Remains(wire, m, done + got, SubSeq(bytes, got + 1, Len(bytes)))
         /\ \A j \in 1 .. got : bytes[j] = wire[m + 1][done + j]
<1> DEFINE n == Len(wire)
           line2 == SubSeq(bytes, got + 1, Len(bytes))
<1>1. PICK start : Laid(start, wire, m, done, bytes)
  BY DEF Remains
<1> DEFINE new == [k \in m .. n |-> start[k] - got]
<1>2. n \in Nat /\ m < n /\ m + 1 \in m + 1 .. n /\ m \in m .. n /\ n \in m .. n
  OBVIOUS
<1>3. /\ Len(line2) = Len(bytes) - got /\ Len(bytes) \in Nat
      /\ \A i \in 1 .. Len(bytes) - got : line2[i] = bytes[got + i]
  OBVIOUS
<1>4. /\ start \in [m .. n -> Int] /\ start[m] = 0 - done /\ start[n] = Len(bytes)
      /\ \A k \in m .. n : start[k] <= Len(bytes)
      /\ \A k \in m + 1 .. n :
           /\ start[k] = start[k - 1] + Len(wire[k])
           /\ \A j \in 1 .. Len(wire[k]) :
                start[k - 1] + j >= 1 => bytes[start[k - 1] + j] = wire[k][j]
  BY <1>1 DEF Laid
<1>5. \A k \in 1 .. n : Len(wire[k]) \in Nat
  <2>1. \A k \in 1 .. n : wire[k] \in Seq(Bytes)
    OBVIOUS
  <2>2. QED
    BY <2>1
<1> HIDE DEF n, line2
<1>6. \A k \in m .. n : new[k] = start[k] - got /\ start[k] \in Int
  BY <1>4
<1>7. new \in [m .. n -> Int]
  BY <1>6
<1> HIDE DEF new
<1>8. /\ new[m] = 0 - (done + got) /\ new[n] = Len(line2)
      /\ \A k \in m .. n : new[k] <= Len(line2)
  <2>1. ASSUME NEW k \in m .. n PROVE new[k] <= Len(line2)
    <3>1. new[k] = start[k] - got /\ start[k] \in Int /\ start[k] <= Len(bytes)
      BY <1>4, <1>6
    <3>2. Len(line2) = Len(bytes) - got /\ Len(bytes) \in Nat
      BY ONLY <1>3
    <3>3. QED
      BY ONLY <3>1, <3>2, got \in Nat
  <2>2. QED
    <3>1. new[m] = 0 - done - got /\ new[n] = Len(bytes) - got
      BY <1>2, <1>4, <1>6
    <3>2. 0 - done - got = 0 - (done + got)
      OBVIOUS
    <3>3. QED
      BY <1>3, <2>1, <3>1, <3>2
<1>9. ASSUME NEW k \in m + 1 .. n
      PROVE  /\ new[k] = new[k - 1] + Len(wire[k])
             /\ \A j \in 1 .. Len(wire[k]) :
                  new[k - 1] + j >= 1 => line2[new[k - 1] + j] = wire[k][j]
  <2>1. k - 1 \in m .. n /\ k \in m .. n /\ k \in 1 .. n
    BY <1>2
  <2>2. /\ new[k] = start[k] - got /\ new[k - 1] = start[k - 1] - got
        /\ start[k - 1] \in Int /\ start[k] <= Len(bytes) /\ Len(wire[k]) \in Nat
        /\ start[k] = start[k - 1] + Len(wire[k])
    BY <1>4, <1>5, <1>6, <2>1
  <2>3. ASSUME NEW j \in 1 .. Len(wire[k]), new[k - 1] + j >= 1
        PROVE  line2[new[k - 1] + j] = wire[k][j]
    <3>1. /\ new[k - 1] + j \in 1 .. Len(bytes) - got /\ start[k - 1] + j >= 1
          /\ got + (new[k - 1] + j) = start[k - 1] + j
      <4>1. j \in Int /\ j <= Len(wire[k])
        BY ONLY <2>2, j \in 1 .. Len(wire[k])
      <4>2. start[k - 1] + j \in Int /\ start[k - 1] + j <= start[k]
        BY ONLY <2>2, <4>1
      <4>3. start[k - 1] + j <= Len(bytes)
        <5>1. Len(bytes) \in Nat /\ start[k] \in Int /\ start[k] <= Len(bytes)
          BY <1>3, <1>4, <2>1
        <5>2. QED
          BY ONLY <4>2, <5>1
      <4>4. new[k - 1] + j = (start[k - 1] + j) - got
        BY ONLY <2>2, <4>1
      <4>5. QED
        <5>1. Len(bytes) \in Nat
          BY ONLY <1>3
        <5>2. QED
          BY ONLY <2>3, <4>2, <4>3, <4>4, <5>1, got \in Nat
    <3>2. bytes[start[k - 1] + j] = wire[k][j]
      BY <1>4, <3>1
    <3>3. line2[new[k - 1] + j] = bytes[got + (new[k - 1] + j)]
      BY ONLY <1>3, <3>1
    <3>4. QED
      BY ONLY <3>1, <3>2, <3>3
  <2>4. new[k] = new[k - 1] + Len(wire[k])
    BY ONLY <2>2, got \in Nat
  <2>5. QED
    BY <2>3, <2>4
<1>10. Laid(new, wire, m, done + got, line2)
  BY <1>7, <1>8, <1>9 DEF Laid, n
<1>11. ASSUME NEW j \in 1 .. got PROVE bytes[j] = wire[m + 1][done + j]
  <2>1. m + 1 - 1 = m /\ start[m] = 0 - done /\ m + 1 \in 1 .. n
    BY <1>2, <1>4
  <2>2. done + j \in 1 .. Len(wire[m + 1])
    BY <1>5, <2>1
  <2>3. start[m] + (done + j) = j /\ j >= 1
    BY <2>1
  <2>4. \A i \in 1 .. Len(wire[m + 1]) :
           start[m] + i >= 1 => bytes[start[m] + i] = wire[m + 1][i]
    <3> SUFFICES ASSUME NEW k, k = m + 1
                 PROVE  \A i \in 1 .. Len(wire[k]) :
                          start[m] + i >= 1 => bytes[start[m] + i] = wire[k][i]
      OBVIOUS
    <3>1. k \in m + 1 .. n /\ k - 1 = m
      BY <1>2
    <3>2. \A i \in 1 .. Len(wire[k]) :
             start[k - 1] + i >= 1 => bytes[start[k - 1] + i] = wire[k][i]
      BY ONLY <1>4, <3>1
    <3>3. QED
      BY ONLY <3>1, <3>2
  <2>5. QED
    BY <2>2, <2>3, <2>4
<1>12. QED
  BY <1>10, <1>11 DEF Remains, line2

(* A packet has been read to its end.                                     *)
LEMMA NextPacket ==
  ASSUME NEW wire \in Seq(Seq(Bytes)), NEW m \in Nat, m < Len(wire),
         NEW bytes \in Seq(Bytes), Remains(wire, m, Len(wire[m + 1]), bytes)
  PROVE  Remains(wire, m + 1, 0, bytes)
<1> DEFINE n == Len(wire)
           done == Len(wire[m + 1])
<1>1. PICK start : Laid(start, wire, m, done, bytes)
  BY DEF Remains
<1> DEFINE new == [k \in m + 1 .. n |-> start[k]]
<1>2. n \in Nat /\ m + 1 \in m + 1 .. n /\ m + 1 - 1 = m /\ n \in m + 1 .. n
  OBVIOUS
<1>3. done \in Nat
  <2>1. wire[m + 1] \in Seq(Bytes)
    BY <1>2
  <2>2. QED
    BY <2>1
<1> HIDE DEF n, done
<1>4. /\ start \in [m .. n -> Int] /\ start[m] = 0 - done /\ start[n] = Len(bytes)
      /\ \A k \in m .. n : start[k] <= Len(bytes)
      /\ \A k \in m + 1 .. n :
           /\ start[k] = start[k - 1] + Len(wire[k])
           /\ \A j \in 1 .. Len(wire[k]) :
                start[k - 1] + j >= 1 => bytes[start[k - 1] + j] = wire[k][j]
  BY <1>1 DEF Laid, n
<1>5. start[m + 1] = 0
  BY <1>2, <1>3, <1>4 DEF done
<1>6. \A k \in m + 1 .. n : k \in m .. n /\ new[k] = start[k]
  BY <1>2
<1>7. new \in [m + 1 .. n -> Int]
  BY <1>4, <1>6
<1>8. \A k \in m + 1 + 1 .. n : k \in m + 1 .. n /\ k - 1 \in m + 1 .. n
  BY <1>2
<1> HIDE DEF new
<1>9. 0 - 0 = 0
  OBVIOUS
<1>10. Laid(new, wire, m + 1, 0, bytes)
  BY <1>2, <1>4, <1>5, <1>6, <1>7, <1>8, <1>9 DEF Laid, n
<1>11. QED
  BY <1>10 DEF Remains

(* Once all have been read the line is empty.                             *)
LEMMA NothingRemains ==
  ASSUME NEW wire \in Seq(Seq(Bytes)), NEW bytes \in Seq(Bytes),
         Remains(wire, Len(wire), 0, bytes)
  PROVE  Len(bytes) = 0
BY DEF Remains, Laid

(* Until then it holds the next packet.                                   *)
LEMMA RestRemains ==
  ASSUME NEW wire \in Seq(Seq(Bytes)), NEW m \in Nat, m < Len(wire),
         NEW bytes \in Seq(Bytes), Remains(wire, m, 0, bytes)
  PROVE  Len(wire[m + 1]) <= Len(bytes)
<1>1. PICK start : Laid(start, wire, m, 0, bytes)
  BY DEF Remains
<1>2. m + 1 \in m + 1 .. Len(wire) /\ m + 1 \in m .. Len(wire) /\ m + 1 - 1 = m
  OBVIOUS
<1>3. wire[m + 1] \in Seq(Bytes)
  OBVIOUS
<1>4. start[m] = 0 - 0 /\ start[m + 1] <= Len(bytes) /\ start[m + 1] = start[m] + Len(wire[m + 1])
  BY <1>1, <1>2 DEF Laid
<1>5. Len(wire[m + 1]) \in Nat
  BY <1>3
<1>6. QED
  BY <1>4, <1>5

Wire == [k \in 1 .. Len(sent) |-> Pack(sent[k].row, sent[k].fill)]
Done == CASE pc = "header" -> 0 [] pc = "length" -> 2 [] pc = "body" -> 3

KeepsUp ==
  Undisturbed =>
    /\ Len(handled) <= Len(sent)
    /\ \A k \in DOMAIN handled : handled[k] = Packed(k)
    /\ pc \in {"header", "length", "body"}
    /\ pc # "header" => Len(handled) < Len(sent)
    /\ pc = "body" => len = sent[Len(handled) + 1].row.len
    /\ Remains(Wire, Len(handled), Done, line)

LinkInv == LinkTypeOK /\ KeepsUp

(* What was sent are packers and fills.                                   *)
LEMMA SentType ==
  ASSUME LinkTypeOK, NEW k \in 1 .. Len(sent)
  PROVE  sent[k].row \in Row /\ sent[k].fill \in Fills
<1>1. sent \in Seq([row : Row, fill : Fills])
  BY DEF LinkTypeOK
<1>2. sent[k] \in [row : Row, fill : Fills]
  BY <1>1, ElementOfSeq
<1>3. QED
  BY <1>2

(* What was put on the line.                                              *)
LEMMA WireType ==
  ASSUME LinkTypeOK
  PROVE  /\ Wire \in Seq(Seq(Bytes)) /\ Len(Wire) = Len(sent) /\ Len(sent) \in Nat
         /\ \A k \in 1 .. Len(sent) : Wire[k] = Pack(sent[k].row, sent[k].fill)
<1>1. Len(sent) \in Nat
  BY DEF LinkTypeOK
<1>2. \A k \in 1 .. Len(sent) : Pack(sent[k].row, sent[k].fill) \in Seq(Bytes)
  BY SentType, PackType
<1>3. Wire \in [1 .. Len(sent) -> Seq(Bytes)]
  BY <1>2 DEF Wire
<1>4. QED
  BY <1>1, <1>3 DEF Wire

(* What was put on an undisturbed line, and what SLParsePackets makes of  *)
(* it.                                                                    *)
LEMMA WireOfSound ==
  ASSUME LinkTypeOK, Undisturbed, NEW k \in 1 .. Len(sent)
  PROVE  /\ Sound(sent[k].row) /\ Called(sent[k].row.type) /\ sent[k].row \in Row
         /\ sent[k].row.len \in Nat /\ sent[k].row.len <= MAX_SLFIP_PAYLOAD
         /\ Len(Wire[k]) = sent[k].row.len + 3 /\ Wire[k] \in Seq(Bytes)
         /\ Wire[k][1] = HeaderByte1 /\ Wire[k][2] = HeaderByte2 /\ Wire[k][3] = sent[k].row.len
         /\ SLParsePackets(Wire[k]).calls = <<Packed(k)>>
<1>1. sent[k].row \in Row /\ sent[k].fill \in Fills
  BY SentType
<1>2. Sound(sent[k].row) /\ Called(sent[k].row.type)
  <2>1. DOMAIN sent = 1 .. Len(sent)
    BY DEF LinkTypeOK
  <2>2. QED
    BY <2>1 DEF Undisturbed
<1>3. Wire[k] = Pack(sent[k].row, sent[k].fill)
  BY WireType
<1>4. sent[k].row.len \in Nat /\ sent[k].row.len <= MAX_SLFIP_PAYLOAD
  BY <1>1, <1>2 DEF Row, Sound
<1>5. SLParsePackets(Wire[k]).calls = <<Packed(k)>>
  BY <1>1, <1>2, <1>3, SoundPacketIsParsed DEF Packed
<1> DEFINE row  == sent[k].row
           fill == sent[k].fill
<1>6. row \in Row /\ fill \in Fills /\ Sound(row)
  BY ONLY <1>1, <1>2
<1> HIDE DEF row, fill
<1>7. /\ Pack(row, fill) \in Seq(Bytes) /\ Len(Pack(row, fill)) = row.len + 3
      /\ Pack(row, fill)[1] = HeaderByte1 /\ Pack(row, fill)[2] = HeaderByte2
      /\ Pack(row, fill)[3] = row.len
  BY ONLY <1>6, SoundPack
<1>8. QED
  BY ONLY <1>1, <1>2, <1>3, <1>4, <1>5, <1>7 DEF row, fill

(* Sending puts one more packet behind those that remain.                 *)
LEMMA SendKeepsUp ==
  ASSUME LinkInv, NEW fill \in Fills, Send(fill)
  PROVE  KeepsUp'
<1> SUFFICES ASSUME Undisturbed'
             PROVE  /\ Len(handled') <= Len(sent')
                    /\ \A k \in DOMAIN handled' : handled'[k] = Packed(k)'
                    /\ pc' \in {"header", "length", "body"}
                    /\ pc' # "header" => Len(handled') < Len(sent')
                    /\ pc' = "body" => len' = sent'[Len(handled') + 1].row.len
                    /\ Remains(Wire', Len(handled'), Done', line')
  BY DEF KeepsUp
<1> DEFINE packet == [row |-> Head(script), fill |-> fill]
           bytes  == Pack(Head(script), fill)
           Packs  == [row : Row, fill : Fills]
<1>1. /\ script # << >> /\ sent' = Append(sent, packet) /\ Arrives(bytes)
      /\ UNCHANGED <<reader, pc, len, rest, dropped, handled>>
  BY DEF Send
<1>2. LinkTypeOK /\ LinkTypeOK'
  BY SendType DEF LinkInv
<1>3. Head(script) \in Row /\ bytes \in Seq(Bytes)
  <2>1. script \in Seq(Row)
    BY <1>2 DEF LinkTypeOK
  <2>2. Head(script) \in Row
    BY <1>1, <2>1
  <2>3. QED
    BY <2>2, PackType
<1>4. packet \in Packs /\ sent \in Seq(Packs)
  BY <1>2, <1>3 DEF LinkTypeOK
<1>5. packet.row = Head(script) /\ packet.fill = fill
  OBVIOUS
<1> HIDE DEF packet, Packs, bytes
<1>6. /\ Len(sent') = Len(sent) + 1 /\ Len(sent) \in Nat /\ sent'[Len(sent) + 1] = packet
      /\ \A k \in 1 .. Len(sent) : sent'[k] = sent[k]
      /\ DOMAIN sent = 1 .. Len(sent) /\ DOMAIN sent' = 1 .. Len(sent) + 1
  BY <1>1, <1>4
<1>7. hits' = {} /\ hits' # hits \cup {Len(sent')}
  BY DEF Undisturbed
<1>8. line' = line \o bytes /\ hits = {}
  BY <1>1, <1>7 DEF Arrives
<1>9. Undisturbed
  <2>1. reader = "blocking"
    BY <1>1 DEF Undisturbed
  <2>2. ASSUME NEW k \in DOMAIN sent PROVE Sound(sent[k].row) /\ Called(sent[k].row.type)
    <3>1. k \in DOMAIN sent' /\ sent'[k] = sent[k]
      BY <1>6
    <3>2. Sound(sent'[k].row) /\ Called(sent'[k].row.type)
      BY <3>1 DEF Undisturbed
    <3>3. QED
      BY <3>1, <3>2
  <2>3. QED
    BY <1>8, <2>1, <2>2 DEF Undisturbed
<1>10. /\ Len(handled) <= Len(sent)
       /\ \A k \in DOMAIN handled : handled[k] = Packed(k)
       /\ pc \in {"header", "length", "body"}
       /\ pc # "header" => Len(handled) < Len(sent)
       /\ pc = "body" => len = sent[Len(handled) + 1].row.len
       /\ Remains(Wire, Len(handled), Done, line)
  BY <1>9 DEF LinkInv, KeepsUp
<1>11. Len(handled) \in Nat /\ DOMAIN handled = 1 .. Len(handled) /\ line \in Seq(Bytes)
  BY <1>2 DEF LinkTypeOK, Bytes
<1>12. \A k \in DOMAIN handled' : handled'[k] = Packed(k)'
  <2>1. ASSUME NEW k \in DOMAIN handled PROVE Packed(k)' = Packed(k)
    <3>1. sent'[k] = sent[k]
      BY <1>6, <1>10, <1>11
    <3>2. QED
      BY <3>1 DEF Packed
  <2>2. QED
    BY <1>1, <1>10, <2>1
<1>13. Wire' = Append(Wire, bytes)
  <2>1. Wire' = [k \in 1 .. Len(sent') |-> Pack(sent'[k].row, sent'[k].fill)]
    BY DEF Wire
  <2>2. Wire \in Seq(Seq(Bytes)) /\ Len(Wire) = Len(sent)
        /\ \A k \in 1 .. Len(sent) : Wire[k] = Pack(sent[k].row, sent[k].fill)
    BY <1>2, WireType
  <2>3. Wire' \in Seq(Seq(Bytes)) /\ Len(Wire') = Len(sent')
        /\ \A k \in 1 .. Len(sent') : Wire'[k] = Pack(sent'[k].row, sent'[k].fill)
    <3>1. \A k \in 1 .. Len(sent') : Pack(sent'[k].row, sent'[k].fill) \in Seq(Bytes)
      <4>1. ASSUME NEW k \in 1 .. Len(sent')
            PROVE Pack(sent'[k].row, sent'[k].fill) \in Seq(Bytes)
        <5>1. CASE k = Len(sent) + 1
          BY <1>3, <1>5, <1>6, <5>1 DEF bytes
        <5>2. CASE k # Len(sent) + 1
          <6>1. k \in 1 .. Len(sent)
            BY <1>6, <5>2
          <6>2. QED
            BY <1>2, <1>6, <6>1, SentType, PackType
        <5>3. QED
          BY <5>1, <5>2
      <4>2. QED
        BY <4>1
    <3>2. Len(sent') \in Nat
      BY <1>6
    <3>3. Wire' \in [1 .. Len(sent') -> Seq(Bytes)]
      BY <2>1, <3>1
    <3>4. QED
      BY <2>1, <3>2, <3>3
  <2>4. Append(Wire, bytes) \in Seq(Seq(Bytes)) /\ Len(Append(Wire, bytes)) = Len(sent) + 1
        /\ \A k \in 1 .. Len(sent) : Append(Wire, bytes)[k] = Wire[k]
        /\ Append(Wire, bytes)[Len(sent) + 1] = bytes
    BY <1>3, <2>2
  <2>5. ASSUME NEW k \in 1 .. Len(sent') PROVE Wire'[k] = Append(Wire, bytes)[k]
    <3>1. CASE k = Len(sent) + 1
      <4>1. Wire'[k] = Pack(sent'[k].row, sent'[k].fill)
        BY <2>3
      <4>2. sent'[k].row = Head(script) /\ sent'[k].fill = fill
        BY <1>5, <1>6, <3>1
      <4>3. Wire'[k] = bytes
        BY <4>1, <4>2 DEF bytes
      <4>4. QED
        BY <2>4, <3>1, <4>3
    <3>2. CASE k # Len(sent) + 1
      <4>1. k \in 1 .. Len(sent)
        BY <1>6, <3>2
      <4>2. QED
        BY <1>6, <2>2, <2>3, <2>4, <4>1
    <3>3. QED
      BY <3>1, <3>2
  <2>6. Len(Wire') = Len(Append(Wire, bytes))
    BY <1>6, <2>3, <2>4
  <2>7. \A k \in 1 .. Len(Wire') : Wire'[k] = Append(Wire, bytes)[k]
    BY <2>3, <2>5
  <2> HIDE DEF Wire
  <2>8. QED
    BY <2>3, <2>4, <2>6, <2>7, SeqEqual
<1>14. Remains(Wire', Len(handled'), Done', line')
  <2>1. Done' = Done /\ Done \in Nat
    BY <1>1, <1>10 DEF Done
  <2>2. Wire \in Seq(Seq(Bytes)) /\ Len(handled) \in 0 .. Len(Wire)
    BY <1>2, <1>10, <1>11, WireType
  <2>3. Remains(Append(Wire, bytes), Len(handled), Done, line \o bytes)
    BY <1>3, <1>10, <1>11, <2>1, <2>2, OnePacketMore
  <2>4. QED
    BY <1>1, <1>8, <1>13, <2>1, <2>3
<1>15. pc' = "body" => len' = sent'[Len(handled') + 1].row.len
  <2>1. pc = "body" => Len(handled) + 1 \in 1 .. Len(sent)
    BY <1>6, <1>10, <1>11
  <2>2. QED
    BY <1>1, <1>6, <1>10, <2>1
<1>16. Len(handled') <= Len(sent') /\ (pc' # "header" => Len(handled') < Len(sent'))
  BY <1>1, <1>6, <1>10, <1>11
<1>17. QED
  BY <1>1, <1>10, <1>12, <1>14, <1>15, <1>16

(* What was put on the line is a matter of what was sent.                 *)
LEMMA SameWire ==
  ASSUME UNCHANGED <<sent, handled>>
  PROVE  Wire' = Wire /\ \A k : Packed(k)' = Packed(k)
BY DEF Wire, Packed

(* A read of n bytes behind the first done bytes of packet m + 1.           *)
ReadsPart(m, done, n, got, next) ==
  /\ m \in Nat /\ done \in Nat /\ n \in Nat /\ got \in Nat /\ next = done + n
  /\ Remains(Wire, m, done, line) /\ Read(n, got) /\ LinkTypeOK
  /\ m < Len(sent) /\ next <= Len(Wire[m + 1]) /\ reader = "blocking"

(* What a read of n bytes leaves, whatever it is a part of.                 *)
LEMMA ReadRemains ==
  ASSUME NEW m, NEW done, NEW n, NEW got, NEW next, ReadsPart(m, done, n, got, next)
  PROVE  /\ got = n /\ line \in Seq(Bytes) /\ n <= Len(line)
         /\ Remains(Wire, m, next, line')
         /\ \A j \in 1 .. n : line[j] = Wire[m + 1][done + j]
<1> USE DEF ReadsPart
<1>1. got = n /\ n <= Len(line) /\ line' = SubSeq(line, n + 1, Len(line)) /\ line \in Seq(Bytes)
  BY DEF Read, LinkTypeOK, Bytes
<1>2. Wire \in Seq(Seq(Bytes)) /\ m < Len(Wire)
  BY WireType
<1> SUFFICES ASSUME m \in Nat, done \in Nat, n \in Nat, next = done + n,
                    next <= Len(Wire[m + 1]), Remains(Wire, m, done, line)
             PROVE  /\ got = n /\ line \in Seq(Bytes) /\ n <= Len(line)
                    /\ Remains(Wire, m, next, line')
                    /\ \A j \in 1 .. n : line[j] = Wire[m + 1][done + j]
  OBVIOUS
<1>3. /\ Remains(Wire, m, done + n, SubSeq(line, n + 1, Len(line)))
      /\ \A j \in 1 .. n : line[j] = Wire[m + 1][done + j]
  BY ONLY <1>1, <1>2, SomeBytesLess, m \in Nat, done \in Nat, n \in Nat,
          next = done + n, next <= Len(Wire[m + 1]), Remains(Wire, m, done, line)
<1>4. QED
  BY ONLY <1>1, <1>3, next = done + n

(* The first two bytes read are the header of the next packet.            *)
LEMMA HeaderKeepsUp ==
  ASSUME LinkInv, NEW got \in {0, 1, 2}, ReadHeader(got)
  PROVE  KeepsUp'
<1> DEFINE m == Len(handled)
<1>1. UNCHANGED <<reader, script, sent, hits, handled, len>> /\ pc = "header"
      /\ pc' = (IF got < 2 THEN "header" ELSE AfterHeader(line[1], line[2])) /\ Read(2, got)
  BY DEF ReadHeader, Goto
<1> SUFFICES ASSUME Undisturbed
             PROVE  /\ pc' = "length" /\ m < Len(sent)
                    /\ m <= Len(sent) /\ (\A k \in DOMAIN handled : handled[k] = Packed(k))
                    /\ Remains(Wire, m, 2, line')
  <2>1. Undisturbed' <=> Undisturbed
    BY <1>1 DEF Undisturbed
  <2>2. pc' = "length" => Done' = 2
    BY DEF Done
  <2>3. QED
    BY <1>1, <2>1, <2>2, SameWire DEF KeepsUp
<1>2. /\ m <= Len(sent) /\ (\A k \in DOMAIN handled : handled[k] = Packed(k))
      /\ Remains(Wire, m, 0, line)
  <2>1. Done = 0
    BY <1>1 DEF Done
  <2>2. QED
    BY <2>1 DEF LinkInv, KeepsUp
<1>3. /\ LinkTypeOK /\ m \in Nat /\ line \in Seq(Bytes) /\ Wire \in Seq(Seq(Bytes))
      /\ Len(Wire) = Len(sent) /\ Len(sent) \in Nat /\ reader = "blocking"
  BY WireType DEF LinkInv, LinkTypeOK, Undisturbed, Bytes
<1>4. got = 2 /\ got <= Len(line)
  BY <1>1, <1>3 DEF Read
<1>5. m < Len(sent)
  <2>1. m = Len(sent) => Len(line) = 0
    BY <1>2, <1>3, NothingRemains
  <2>2. QED
    BY <1>2, <1>3, <1>4, <2>1
<1> HIDE DEF m
<1>6. m + 1 \in 1 .. Len(sent)
  BY <1>3, <1>5
<1>7. Wire[m + 1][1] = HeaderByte1 /\ Wire[m + 1][2] = HeaderByte2 /\ 2 <= Len(Wire[m + 1])
  <2>1. /\ Wire[m + 1][1] = HeaderByte1 /\ Wire[m + 1][2] = HeaderByte2
        /\ sent[m + 1].row.len \in Nat /\ Len(Wire[m + 1]) = sent[m + 1].row.len + 3
    BY ONLY <1>3, <1>6, WireOfSound, Undisturbed
  <2>2. QED
    BY ONLY <2>1
<1>8. /\ Remains(Wire, m, 2, line')
      /\ \A j \in 1 .. 2 : line[j] = Wire[m + 1][0 + j]
  <2>1. ReadsPart(m, 0, 2, got, 2)
    BY <1>1, <1>2, <1>3, <1>5, <1>7 DEF ReadsPart
  <2>2. QED
    BY ONLY <2>1, ReadRemains
<1>9. line[1] = HeaderByte1 /\ line[2] = HeaderByte2
  <2>1. line[1] = Wire[m + 1][0 + 1] /\ line[2] = Wire[m + 1][0 + 2]
    BY <1>8
  <2>2. 0 + 1 = 1 /\ 0 + 2 = 2
    OBVIOUS
  <2>3. QED
    BY <1>7, <2>1, <2>2
<1>10. pc' = "length"
  BY <1>1, <1>4, <1>9 DEF AfterHeader
<1>11. QED
  BY <1>2, <1>5, <1>8, <1>10

(* The byte behind them is its length.                                    *)
LEMMA LengthKeepsUp ==
  ASSUME LinkInv, NEW got \in {0, 1}, ReadLength(got)
  PROVE  KeepsUp'
<1> DEFINE m == Len(handled)
<1>1. UNCHANGED <<reader, script, sent, hits, handled>> /\ pc = "length"
      /\ pc' = "body" /\ Read(1, got) /\ len' = (IF got = 1 THEN line[1] ELSE len)
  BY DEF ReadLength, Goto
<1> SUFFICES ASSUME Undisturbed
             PROVE  /\ len' = sent[m + 1].row.len /\ m < Len(sent)
                    /\ m <= Len(sent) /\ (\A k \in DOMAIN handled : handled[k] = Packed(k))
                    /\ Remains(Wire, m, 3, line')
  <2>1. Undisturbed' <=> Undisturbed
    BY <1>1 DEF Undisturbed
  <2>2. Done' = 3
    BY <1>1 DEF Done
  <2>3. QED
    BY <1>1, <2>1, <2>2, SameWire DEF KeepsUp
<1>2. /\ m <= Len(sent) /\ (\A k \in DOMAIN handled : handled[k] = Packed(k))
      /\ Remains(Wire, m, 2, line) /\ m < Len(sent)
  <2>1. Done = 2
    BY <1>1 DEF Done
  <2>2. QED
    BY <1>1, <2>1 DEF LinkInv, KeepsUp
<1>3. /\ LinkTypeOK /\ m \in Nat /\ line \in Seq(Bytes) /\ Wire \in Seq(Seq(Bytes))
      /\ Len(Wire) = Len(sent) /\ Len(sent) \in Nat /\ reader = "blocking"
  BY WireType DEF LinkInv, LinkTypeOK, Undisturbed, Bytes
<1> HIDE DEF m
<1>4. m + 1 \in 1 .. Len(sent)
  BY <1>2, <1>3
<1>5. Wire[m + 1][3] = sent[m + 1].row.len /\ 3 <= Len(Wire[m + 1])
  <2>1. /\ Wire[m + 1][3] = sent[m + 1].row.len
        /\ sent[m + 1].row.len \in Nat /\ Len(Wire[m + 1]) = sent[m + 1].row.len + 3
    BY ONLY <1>3, <1>4, WireOfSound, Undisturbed
  <2>2. QED
    BY ONLY <2>1
<1>6. /\ got = 1 /\ Remains(Wire, m, 3, line')
      /\ \A j \in 1 .. 1 : line[j] = Wire[m + 1][2 + j]
  <2>1. ReadsPart(m, 2, 1, got, 3)
    BY <1>1, <1>2, <1>3, <1>5 DEF ReadsPart
  <2>2. QED
    BY ONLY <2>1, ReadRemains
<1>7. line[1] = Wire[m + 1][2 + 1]
  BY <1>6
<1>8. QED
  <2>1. 2 + 1 = 3
    OBVIOUS
  <2>2. QED
    BY <1>1, <1>2, <1>5, <1>6, <1>7, <2>1

(* As many bytes as that says complete the packet, which is handled.      *)
LEMMA BodyKeepsUp ==
  ASSUME LinkInv, NEW got \in Nat, ReadBody(got)
  PROVE  KeepsUp'
<1> DEFINE m == Len(handled)
           head == <<HeaderByte1, HeaderByte2, len>>
           tail == SubSeq(line, 1, got)
<1>1. UNCHANGED <<reader, script, sent, hits, len>> /\ pc = "body" /\ pc' = "header"
      /\ Read(IF len < MAX_SLFIP_PAYLOAD THEN len ELSE MAX_SLFIP_PAYLOAD, got)
      /\ handled' = (IF got # len THEN handled
                     ELSE handled \o SLParsePackets(head \o tail).calls)
  BY DEF ReadBody, Goto
<1> SUFFICES ASSUME Undisturbed
             PROVE  /\ Len(handled') = m + 1 /\ m + 1 <= Len(sent)
                    /\ \A k \in DOMAIN handled' : handled'[k] = Packed(k)
                    /\ Remains(Wire, m + 1, 0, line')
  <2>1. Undisturbed' <=> Undisturbed
    BY <1>1 DEF Undisturbed
  <2>2. Done' = 0
    BY <1>1 DEF Done
  <2>3. Wire' = Wire /\ \A k : Packed(k)' = Packed(k)
    BY <1>1 DEF Wire, Packed
  <2>4. QED
    BY <1>1, <2>1, <2>2, <2>3 DEF KeepsUp
<1>2. /\ \A k \in DOMAIN handled : handled[k] = Packed(k)
      /\ Remains(Wire, m, 3, line) /\ m < Len(sent) /\ len = sent[m + 1].row.len
  <2>1. Done = 3
    BY <1>1 DEF Done
  <2>2. QED
    BY <1>1, <2>1 DEF LinkInv, KeepsUp
<1>3. /\ LinkTypeOK /\ m \in Nat /\ line \in Seq(Bytes) /\ Wire \in Seq(Seq(Bytes))
      /\ Len(Wire) = Len(sent) /\ Len(sent) \in Nat /\ reader = "blocking"
  BY WireType DEF LinkInv, LinkTypeOK, Undisturbed, Bytes
<1> HIDE DEF m
<1>4. m + 1 \in 1 .. Len(sent)
  BY <1>2, <1>3
<1> DEFINE p == Wire[m + 1]
<1>5. /\ p \in Seq(Bytes) /\ Len(p) = len + 3 /\ len \in Nat /\ len <= MAX_SLFIP_PAYLOAD
      /\ p[1] = HeaderByte1 /\ p[2] = HeaderByte2 /\ p[3] = len
      /\ SLParsePackets(p).calls = <<Packed(m + 1)>>
  BY <1>2, <1>3, <1>4, WireOfSound
<1>6. (IF len < MAX_SLFIP_PAYLOAD THEN len ELSE MAX_SLFIP_PAYLOAD) = len
  BY <1>5 DEF MAX_SLFIP_PAYLOAD
<1>7. Read(len, got)
  BY <1>1, <1>6
<1>8. 3 + len <= Len(p)
  BY <1>5
<1> HIDE DEF p
<1>9. /\ got = len /\ len <= Len(line) /\ Remains(Wire, m, 3 + len, line')
      /\ \A j \in 1 .. len : line[j] = p[3 + j]
  <2>1. 3 \in Nat /\ got \in Nat
    OBVIOUS
  <2>2. len \in Nat /\ 3 + len <= Len(Wire[m + 1])
    BY <1>5, <1>8 DEF p
  <2>3. /\ got = len /\ len <= Len(line) /\ Remains(Wire, m, 3 + len, line')
        /\ \A j \in 1 .. len : line[j] = Wire[m + 1][3 + j]
    <3>1. ReadsPart(m, 3, len, got, 3 + len)
      BY ONLY <1>2, <1>3, <1>7, <2>1, <2>2 DEF ReadsPart
    <3>2. QED
      BY ONLY <3>1, ReadRemains
  <2>4. QED
    BY ONLY <2>3 DEF p
<1>10. Remains(Wire, m + 1, 0, line')
  <2>1. 3 + len = Len(Wire[m + 1])
    BY <1>5 DEF p
  <2>2. line' \in Seq(Bytes)
    BY <1>3, <1>5, <1>7, ReadType
  <2>3. QED
    BY <1>2, <1>3, <1>9, <2>1, <2>2, NextPacket
<1>11. head \o tail = p
  <2>1. tail \in Seq(Bytes) /\ Len(tail) = len /\ \A j \in 1 .. len : tail[j] = line[j]
    BY <1>3, <1>5, <1>9
  <2>2. head \in Seq(Bytes) /\ Len(head) = 3 /\ head[1] = HeaderByte1 /\ head[2] = HeaderByte2
        /\ head[3] = len
    BY <1>5 DEF HeaderByte1, HeaderByte2, MAX_SLFIP_PAYLOAD, Bytes
  <2> HIDE DEF head, tail
  <2>3. /\ head \o tail \in Seq(Bytes) /\ Len(head \o tail) = 3 + len
        /\ \A i \in 1 .. 3 : (head \o tail)[i] = head[i]
        /\ \A j \in 1 .. len : (head \o tail)[3 + j] = tail[j]
    <3>1. /\ head \o tail \in Seq(Bytes) /\ Len(head \o tail) = Len(head) + Len(tail)
          /\ \A i \in 1 .. Len(head) : (head \o tail)[i] = head[i]
          /\ \A j \in 1 .. Len(tail) : (head \o tail)[Len(head) + j] = tail[j]
      BY ONLY <2>1, <2>2, JoinedBytes
    <3>2. Len(head) = 3 /\ Len(tail) = len
      BY ONLY <2>1, <2>2
    <3>3. QED
      BY ONLY <3>1, <3>2
  <2>4. ASSUME NEW i \in 1 .. Len(p) PROVE (head \o tail)[i] = p[i]
    <3>1. CASE i <= 3
      <4>1. i \in 1 .. 3 /\ (i = 1 \/ i = 2 \/ i = 3)
        BY ONLY <1>5, <3>1, i \in 1 .. Len(p)
      <4>2. (head \o tail)[i] = head[i]
        BY ONLY <2>3, <4>1
      <4>3. QED
        BY <1>5, <2>2, <4>1, <4>2
    <3>2. CASE i > 3
      <4>1. i - 3 \in 1 .. len /\ 3 + (i - 3) = i
        BY <1>5, <3>2
      <4>2. (head \o tail)[3 + (i - 3)] = tail[i - 3] /\ tail[i - 3] = line[i - 3]
            /\ line[i - 3] = p[3 + (i - 3)]
        BY <1>9, <2>1, <2>3, <4>1
      <4>3. QED
        BY <4>1, <4>2
    <3>3. i <= 3 \/ i > 3
      BY <1>5
    <3>4. QED
      BY ONLY <3>1, <3>2, <3>3
  <2>5. Len(head \o tail) = Len(p)
    BY <1>5, <2>3
  <2>6. QED
    BY <1>5, <2>3, <2>4, <2>5, SeqEqual
<1>12. handled' = Append(handled, Packed(m + 1))
  <2>1. handled' = handled \o <<Packed(m + 1)>>
    BY <1>1, <1>5, <1>9, <1>11
  <2>2. handled \in Seq([type : 0 .. 255, data : Seq(0 .. 255)])
    BY <1>3 DEF LinkTypeOK
  <2>3. QED
    BY <2>1, <2>2
<1>13. Len(handled') = m + 1 /\ \A k \in DOMAIN handled' : handled'[k] = Packed(k)
  <2>1. handled \in Seq([type : 0 .. 255, data : Seq(0 .. 255)]) /\ m = Len(handled)
    BY <1>3 DEF LinkTypeOK, m
  <2>2. /\ Len(handled') = m + 1 /\ DOMAIN handled' = 1 .. m + 1 /\ DOMAIN handled = 1 .. m
        /\ handled'[m + 1] = Packed(m + 1)
        /\ \A k \in 1 .. m : handled'[k] = handled[k]
    BY <1>12, <2>1
  <2>3. ASSUME NEW k \in 1 .. m + 1 PROVE handled'[k] = Packed(k)
    <3>1. CASE k = m + 1
      BY ONLY <2>2, <3>1
    <3>2. CASE k # m + 1
      <4>1. k \in 1 .. m
        BY ONLY <1>3, <3>2, k \in 1 .. m + 1
      <4>2. QED
        BY ONLY <1>2, <2>2, <4>1
    <3>3. QED
      BY ONLY <3>1, <3>2
  <2>4. QED
    BY ONLY <2>2, <2>3
<1>14. QED
  BY <1>3, <1>4, <1>10, <1>13

(* Nothing is sent and nothing is handled at first.                       *)
LEMMA LinkInitInv == LinkInit => LinkInv
<1> SUFFICES ASSUME LinkInit PROVE KeepsUp
  BY LinkInitType DEF LinkInv
<1>1. sent = << >> /\ handled = << >> /\ line = << >> /\ pc = "header"
  BY DEF LinkInit
<1>2. Len(Wire) = 0 /\ Len(handled) = 0 /\ Len(sent) = 0
  BY <1>1, WireType, LinkInitType
<1>3. Laid([k \in 0 .. 0 |-> 0], Wire, 0, 0, line)
  <2>1. Len(line) = 0
    BY <1>1
  <2>2. QED
    BY <1>2, <2>1 DEF Laid
<1>4. Done = 0
  BY <1>1 DEF Done
<1>5. Remains(Wire, Len(handled), Done, line)
  BY <1>2, <1>3, <1>4 DEF Remains
<1>6. DOMAIN handled = {}
  BY <1>1
<1>7. QED
  BY <1>1, <1>2, <1>5, <1>6 DEF KeepsUp

(* Every step keeps up: an undisturbed reader has nothing to find again.  *)
LEMMA LinkInvStep == LinkInv /\ [LinkNext]_linkVars => LinkInv'
<1> SUFFICES ASSUME LinkInv, [LinkNext]_linkVars PROVE KeepsUp'
  BY LinkTypeStep DEF LinkInv
<1>1. ASSUME NEW fill \in Fills, Send(fill) PROVE KeepsUp'
  BY <1>1, SendKeepsUp
<1>2. ASSUME NEW got \in {0, 1, 2}, ReadHeader(got) PROVE KeepsUp'
  BY <1>2, HeaderKeepsUp
<1>3. ASSUME NEW got \in {0, 1}, ReadResync(got) PROVE KeepsUp'
  <2>1. pc = "resync" /\ (Undisturbed' <=> Undisturbed)
    BY <1>3 DEF ReadResync, Goto, Undisturbed
  <2>2. ~Undisturbed
    BY <2>1 DEF LinkInv, KeepsUp
  <2>3. QED
    BY <2>1, <2>2 DEF KeepsUp
<1>4. ASSUME NEW got \in {0, 1}, ReadLength(got) PROVE KeepsUp'
  BY <1>4, LengthKeepsUp
<1>5. ASSUME NEW got \in {0, 1, len, MAX_SLFIP_PAYLOAD}, ReadBody(got) PROVE KeepsUp'
  <2>1. len \in 0 .. 255 /\ 126 \in Nat /\ 0 \in Nat /\ 1 \in Nat
    BY DEF LinkInv, LinkTypeOK
  <2>2. got \in Nat
    BY <2>1 DEF MAX_SLFIP_PAYLOAD
  <2>3. QED
    BY <1>5, <2>2, BodyKeepsUp
<1>6. ASSUME NEW k \in Chunks \cup {Len(line)}, ParseBatch(k) PROVE KeepsUp'
  BY <1>6 DEF ParseBatch, KeepsUp, Undisturbed
<1>7. CASE UNCHANGED linkVars
  <2>1. UNCHANGED <<reader, sent, hits, line, pc, len, handled>>
    BY <1>7 DEF linkVars
  <2>2. Wire' = Wire /\ Done' = Done /\ (\A k : Packed(k)' = Packed(k))
    BY <2>1 DEF Wire, Done, Packed
  <2>3. Undisturbed' <=> Undisturbed
    BY <2>1 DEF Undisturbed
  <2>4. QED
    BY <2>1, <2>2, <2>3 DEF LinkInv, KeepsUp
<1>8. QED
  BY <1>1, <1>2, <1>3, <1>4, <1>5, <1>6, <1>7 DEF LinkNext

(* With nothing left on the line everything sent has been handled.        *)
LEMMA KeepsUpInOrder == LinkInv => HandledInOrder
<1> SUFFICES ASSUME LinkInv, Undisturbed
             PROVE  /\ Len(handled) <= Len(sent)
                    /\ \A k \in DOMAIN handled : handled[k] = Packed(k)
                    /\ AtRest => Len(handled) = Len(sent)
  BY DEF HandledInOrder
<1>1. /\ Len(handled) <= Len(sent)
      /\ \A k \in DOMAIN handled : handled[k] = Packed(k)
      /\ Remains(Wire, Len(handled), Done, line)
  BY DEF LinkInv, KeepsUp
<1>2. /\ LinkTypeOK /\ Len(handled) \in Nat /\ line \in Seq(Bytes) /\ Wire \in Seq(Seq(Bytes))
      /\ Len(Wire) = Len(sent) /\ Len(sent) \in Nat /\ reader = "blocking"
  BY WireType DEF LinkInv, LinkTypeOK, Undisturbed, Bytes
<1>3. ASSUME AtRest PROVE Len(handled) = Len(sent)
  <2> SUFFICES ASSUME Len(handled) < Len(sent) PROVE FALSE
    BY <1>1, <1>2
  <2>1. Len(line) < 2 /\ Done = 0
    BY <1>2, <1>3 DEF AtRest, Done
  <2>2. Len(Wire[Len(handled) + 1]) <= Len(line)
    BY <1>1, <1>2, <2>1, RestRemains
  <2>3. Len(handled) + 1 \in 1 .. Len(sent)
    BY <1>2
  <2>4. Len(Wire[Len(handled) + 1]) >= 3
    <3>1. /\ sent[Len(handled) + 1].row.len \in Nat
          /\ Len(Wire[Len(handled) + 1]) = sent[Len(handled) + 1].row.len + 3
      BY ONLY <1>2, <2>3, WireOfSound, Undisturbed
    <3>2. QED
      BY ONLY <3>1
  <2>5. QED
    BY <1>2, <2>1, <2>2, <2>4
<1>4. QED
  BY <1>1, <1>3

(* On an undisturbed line ReadFIP without a timeout hands over every      *)
(* packet of the sound packers, each once and in their order, whatever    *)
(* their fields look like, for any packers, handlers and handler table    *)
(* (simpleSerialPort.cpp 131-178, simpleslfipport.cpp 9-57).              *)
THEOREM PacketsComeInOrder == LinkSpec => []HandledInOrder
<1>1. QED
  BY LinkInitInv, LinkInvStep, KeepsUpInOrder, PTL DEF LinkSpec

(*****************************************************************************)
(* 4. The KLV data of the facade                                             *)
(*****************************************************************************)

(* The members of KLVData.                                                  *)
LEMMA SizeType ==
  /\ \A key \in Numbers : Size(key) \in {1, 2, 4, 8}
  /\ Size(<<39>>) = 4 /\ Size(NumTargets) = 2 /\ Size(<<61>>) = 2
  /\ Size(<<58>>) = 4 /\ Size(<<60>>) = 4
BY DEF Size, Numbers, NumTargets, Words1, Words2, Words4, Words8, Members

(* The keys of different kinds are different.                             *)
LEMMA KeysApart ==
  /\ Numbers \cap Blocks = {} /\ Targets \notin Numbers \cup Blocks
  /\ <<39>> \in Numbers /\ NumTargets \in Numbers /\ <<1>> \notin AllKeys
  /\ (Blocks \cup {Targets}) \cap (UnknownZero \cup UnknownLowest) = {}
  /\ {<<58>>, <<60>>, <<61>>} \subseteq Numbers
BY DEF UnknownZero, UnknownLowest, Numbers, Blocks, Targets, NumTargets, AllKeys, Words1, Words2, Words4, Words8, Members

(* A block of bytes that are all the same.                                *)
LEMMA FilledType ==
  ASSUME NEW size \in Nat, NEW top \in Bytes, NEW ahead \in Bytes
  PROVE  Filled(size, top, ahead) \in Seq(Bytes) /\ Len(Filled(size, top, ahead)) = size
<1>1. Filled(size, top, ahead) \in [1 .. size -> Bytes]
  BY DEF Filled
<1>2. QED
  BY <1>1

(* The values of a KLVData that was never filled in.                      *)
LEMMA UnknownType == KLVUnknown \in KLVData
<1>1. ASSUME NEW key \in Keys
      PROVE  Unknown(key) \in Seq(Bytes) /\ (key \in Numbers => Len(Unknown(key)) = Size(key))
  <2>1. CASE key \in Blocks \cup {Targets}
    <3>1. Unknown(key) = << >>
      BY <2>1, KeysApart DEF Unknown
    <3>2. << >> \in Seq(Bytes)
      OBVIOUS
    <3>3. QED
      BY <2>1, <3>1, <3>2, KeysApart
  <2>2. CASE key \notin Blocks \cup {Targets}
    <3>1. key \in Numbers /\ Size(key) \in Nat
      BY <2>2, KlvAssumption, SizeType DEF KlvAssumption, AllKeys
    <3>2. /\ Filled(Size(key), 0, 0) \in Seq(Bytes) /\ Len(Filled(Size(key), 0, 0)) = Size(key)
          /\ Filled(Size(key), 128, 0) \in Seq(Bytes) /\ Len(Filled(Size(key), 128, 0)) = Size(key)
          /\ Filled(Size(key), 255, 255) \in Seq(Bytes) /\ Len(Filled(Size(key), 255, 255)) = Size(key)
      <4>1. 0 \in Bytes /\ 128 \in Bytes /\ 255 \in Bytes
        BY DEF Bytes
      <4>2. QED
        BY <3>1, <4>1, FilledType
    <3>3. /\ <<0, 0, 255, 255>> \in Seq(Bytes) /\ Len(<<0, 0, 255, 255>>) = 4
          /\ <<0, 255>> \in Seq(Bytes) /\ Len(<<0, 255>>) = 2
      BY DEF Bytes
    <3>4. \/ Unknown(key) = Filled(Size(key), 0, 0) \/ Unknown(key) = Filled(Size(key), 128, 0)
          \/ Unknown(key) = Filled(Size(key), 255, 255)
          \/ key \in {<<58>>, <<60>>} /\ Unknown(key) = <<0, 0, 255, 255>>
          \/ key = <<61>> /\ Unknown(key) = <<0, 255>>
      BY <2>2 DEF Unknown
    <3>5. CASE key \in {<<58>>, <<60>>} /\ Unknown(key) = <<0, 0, 255, 255>>
      <4>1. Size(key) = 4
        BY <3>5, SizeType
      <4>2. QED
        BY <3>3, <3>5, <4>1
    <3>6. CASE key = <<61>> /\ Unknown(key) = <<0, 255>>
      <4>1. Size(key) = 2
        BY <3>6, SizeType
      <4>2. QED
        BY <3>3, <3>6, <4>1
    <3>7. QED
      BY <3>2, <3>4, <3>5, <3>6
  <2>3. QED
    BY <2>1, <2>2
<1>2. QED
  BY <1>1 DEF KLVUnknown, KLVData

(* The values of one that was cleared.                                    *)
LEMMA ZerosType == Zeros \in KLVData
<1>1. ASSUME NEW key \in Keys, key \notin Blocks \cup {Targets}
      PROVE  /\ Filled(Size(key), 0, 0) \in Seq(Bytes)
             /\ Len(Filled(Size(key), 0, 0)) = Size(key)
  <2>1. key \in Numbers /\ Size(key) \in Nat /\ 0 \in Bytes
    BY <1>1, KlvAssumption, SizeType DEF KlvAssumption, AllKeys, Bytes
  <2>2. QED
    BY <2>1, FilledType
<1>2. << >> \in Seq(Bytes)
  OBVIOUS
<1>3. QED
  BY <1>1, <1>2, KeysApart DEF Zeros, KLVData

(* The bytes put in front of a value that came in fewer.                  *)
LEMMA ExtendedType ==
  ASSUME NEW wire \in Seq(Bytes), NEW size \in Nat, Len(wire) <= size
  PROVE  Extended(size, wire) \in Seq(Bytes) /\ Len(Extended(size, wire)) = size
<1>1. ASSUME NEW i \in 1 .. size, ~(i <= size - Len(wire))
      PROVE  wire[i - (size - Len(wire))] \in Bytes
  <2>1. i - (size - Len(wire)) \in 1 .. Len(wire)
    BY <1>1
  <2>2. QED
    BY <2>1
<1>2. Extended(size, wire) \in [1 .. size -> Bytes]
  <2>1. 0 \in Bytes
    BY DEF Bytes
  <2>2. QED
    BY <1>1, <2>1 DEF Extended
<1>3. QED
  BY <1>2

(* What KLVUpdateValue leaves in a member fits it, whatever the packet    *)
(* said.                                                                  *)
LEMMA ValueType ==
  ASSUME NEW key \in AllKeys, NEW old \in Seq(Bytes), NEW wire \in Seq(Bytes),
         Takes(key, wire), key \in Numbers => Len(old) = Size(key)
  PROVE  /\ Value(old, key, wire) \in Seq(Bytes)
         /\ key \in Numbers => Len(Value(old, key, wire)) = Size(key)
<1>1. CASE key = <<39>>
  <2>1. Len(old) = 4 /\ Len(wire) = 1
    <3>1. Len(old) = 4
      BY <1>1, SizeType, KeysApart
    <3>2. Len(wire) = 1
      BY <1>1, KeysApart DEF Takes
    <3>3. QED
      BY <3>1, <3>2
  <2>2. SubSeq(old, 1, 3) \in Seq(Bytes) /\ Len(SubSeq(old, 1, 3)) = 3
    BY <2>1
  <2>3. QED
    <3>1. Value(old, key, wire) = SubSeq(old, 1, 3) \o wire
      BY <1>1, KeysApart DEF Value
    <3>2. /\ SubSeq(old, 1, 3) \o wire \in Seq(Bytes)
          /\ Len(SubSeq(old, 1, 3) \o wire) = 3 + 1
      <4>1. Len(SubSeq(old, 1, 3) \o wire) = Len(SubSeq(old, 1, 3)) + Len(wire)
            /\ SubSeq(old, 1, 3) \o wire \in Seq(Bytes)
        BY ONLY <2>2, wire \in Seq(Bytes), JoinedBytes
      <4>2. QED
        BY ONLY <2>1, <2>2, <4>1
    <3>3. Size(key) = 3 + 1
      BY <1>1, SizeType
    <3>4. QED
      BY <3>1, <3>2, <3>3
<1>2. CASE key # <<39>> /\ key \in Blocks
  BY <1>2, KeysApart DEF Value
<1>3. CASE key = Targets
  <2>1. key # <<39>> /\ key \notin Blocks
    BY <1>3, KeysApart
  <2>2. Value(old, key, wire) = wire \o SubSeq(old, Len(wire) + 1, Len(old))
    BY <1>3, <2>1 DEF Value
  <2>3. SubSeq(old, Len(wire) + 1, Len(old)) \in Seq(Bytes)
    OBVIOUS
  <2>4. QED
    BY <1>3, <2>2, <2>3, JoinedBytes, KeysApart
<1>4. CASE key # <<39>> /\ key \notin Blocks /\ key # Targets
  <2>1. key \in Numbers /\ Size(key) \in Nat
    BY <1>4, SizeType DEF AllKeys
  <2>2. Len(wire) <= Size(key)
    BY <1>4, <2>1 DEF Takes, Lengths
  <2>3. QED
    BY <1>4, <2>1, <2>2, ExtendedType DEF Value
<1>5. QED
  BY <1>1, <1>2, <1>3, <1>4

(* What SLADecodeKLV stores is a KLVData again.                           *)
LEMMA StoredType ==
  ASSUME NEW data \in KLVData, NEW key \in AllKeys, NEW wire \in Seq(Bytes), Takes(key, wire)
  PROVE  Stored(data, key, wire) \in KLVData
<1>1. CASE key \notin Keys
  BY <1>1 DEF Stored
<1>2. CASE key \in Keys
  <2> DEFINE value == Value(data[key], key, wire)
             new   == [data EXCEPT ![key] = value]
  <2>1. value \in Seq(Bytes) /\ (key \in Numbers => Len(value) = Size(key))
    BY <1>2, ValueType DEF KLVData
  <2> HIDE DEF value
  <2>2. new \in KLVData
    BY <1>2, <2>1 DEF KLVData
  <2>3. key = Targets => <<0, Len(wire)>> \in Seq(Bytes) /\ Len(<<0, Len(wire)>>) = 2
    <3>1. key = Targets => Len(wire) <= KLV_MAX_NUMBER_OF_TARGETS
      BY KeysApart DEF Takes
    <3>2. key = Targets => Len(wire) \in Bytes /\ 0 \in Bytes
      <4>1. KLV_MAX_NUMBER_OF_TARGETS \in 0 .. 255 /\ Len(wire) \in Nat
        BY KlvAssumption DEF KlvAssumption
      <4>2. KLV_MAX_NUMBER_OF_TARGETS <= 255 /\ KLV_MAX_NUMBER_OF_TARGETS \in Nat
        BY <4>1
      <4>3. QED
        BY <3>1, <4>1, <4>2, ByteRange
    <3>3. QED
      BY <3>2
  <2> HIDE DEF new
  <2>4. key = Targets => [new EXCEPT ![NumTargets] = <<0, Len(wire)>>] \in KLVData
    BY <1>2, <2>2, <2>3, KlvAssumption, SizeType DEF KLVData, KlvAssumption
  <2>5. Stored(data, key, wire) =
          IF key = Targets THEN [new EXCEPT ![NumTargets] = <<0, Len(wire)>>] ELSE new
    BY <1>2 DEF Stored, new, value
  <2>6. QED
    BY <2>2, <2>4, <2>5
<1>3. QED
  BY <1>1, <1>2

(* So is what is left of an element it refuses.                           *)
LEMMA RefusedType ==
  ASSUME NEW data \in KLVData, NEW key \in AllKeys, NEW wire \in Seq(Bytes), ~Takes(key, wire)
  PROVE  Refused(data, key, wire) \in KLVData
<1>1. CASE key = Targets
  <2> DEFINE kept == SubSeq(wire, 1, KLV_MAX_NUMBER_OF_TARGETS)
  <2>1. KLV_MAX_NUMBER_OF_TARGETS \in Nat /\ Len(wire) \in Nat
    BY KlvAssumption DEF KlvAssumption
  <2>2. Len(wire) > KLV_MAX_NUMBER_OF_TARGETS
    BY <1>1, <2>1, KeysApart DEF Takes
  <2>3. kept \in Seq(Bytes) /\ Len(kept) = KLV_MAX_NUMBER_OF_TARGETS
    BY <2>1, <2>2
  <2> HIDE DEF kept
  <2>4. Takes(key, kept)
    BY <1>1, <2>1, <2>3, KeysApart DEF Takes
  <2>5. Stored(data, key, kept) \in KLVData
    BY <2>3, <2>4, StoredType
  <2>6. QED
    BY <1>1, <2>5 DEF Refused, kept
<1>2. CASE key # Targets
  BY <1>2 DEF Refused
<1>3. QED
  BY <1>1, <1>2

(* Only the member of the key is written.                                 *)
LEMMA StoredValue ==
  ASSUME NEW data \in KLVData, NEW key \in AllKeys, NEW wire \in Seq(Bytes), NEW k \in Compared
  PROVE  Stored(data, key, wire)[k] = IF k = key THEN Value(Unknown(k), k, wire) ELSE data[k]
<1>1. k \in Keys /\ k # <<39>> /\ k # NumTargets /\ k # Targets
  BY DEF Compared
<1>2. Value(data[k], k, wire) = Value(Unknown(k), k, wire)
  BY <1>1 DEF Value
<1>3. QED
  BY <1>1, <1>2 DEF Stored, KLVData

-------------------------------------------------------------------------------
(* One element.                                                             *)
AnyReading == [ok : BOOLEAN, data : KLVData]

Taken(reading, key, wire) ==
  IF ~reading.ok THEN reading
  ELSE IF key = <<1>> THEN Reading(wire = Wanted, reading.data)
  ELSE IF key \notin AllKeys THEN reading
  ELSE IF Takes(key, wire) THEN Reading(TRUE, Stored(reading.data, key, wire))
  ELSE Reading(FALSE, Refused(reading.data, key, wire))

(* A key is taken or refused.                                             *)
LEMMA TakesType ==
  ASSUME NEW key \in AllKeys, NEW wire \in Seq(Bytes)
  PROVE  Takes(key, wire) \in BOOLEAN
<1>1. CASE key = <<39>>
  BY <1>1, KeysApart DEF Takes
<1>2. CASE key \in Blocks
  BY <1>2, KeysApart DEF Takes
<1>3. CASE key = Targets
  BY <1>3, KeysApart DEF Takes
<1>4. CASE key # <<39>> /\ key \notin Blocks /\ key # Targets
  <2>1. Takes(key, wire) = (Len(wire) \in Lengths(key))
    BY <1>4 DEF Takes
  <2>2. QED
    BY <2>1
<1>5. QED
  BY <1>1, <1>2, <1>3, <1>4

(* After it the data is a KLVData.                                        *)
LEMMA TakenType ==
  ASSUME NEW reading \in AnyReading, NEW key, NEW wire \in Seq(Bytes)
  PROVE  Taken(reading, key, wire) \in AnyReading
<1>1. reading.ok \in BOOLEAN /\ reading.data \in KLVData
  BY DEF AnyReading
<1>2. \A ok \in BOOLEAN, data \in KLVData : Reading(ok, data) \in AnyReading
  BY DEF AnyReading, Reading
<1>3. CASE ~reading.ok \/ (key # <<1>> /\ key \notin AllKeys)
  BY <1>3 DEF Taken
<1>4. CASE reading.ok /\ key = <<1>>
  BY <1>1, <1>2, <1>4 DEF Taken
<1>5. CASE reading.ok /\ key # <<1>> /\ key \in AllKeys
  <2>1. CASE Takes(key, wire)
    <3>1. Stored(reading.data, key, wire) \in KLVData
      BY <1>1, <1>5, <2>1, StoredType
    <3>2. QED
      BY <1>2, <1>5, <2>1, <3>1 DEF Taken
  <2>2. CASE ~Takes(key, wire)
    <3>1. Refused(reading.data, key, wire) \in KLVData
      BY <1>1, <1>5, <2>2, RefusedType
    <3>2. QED
      BY <1>2, <1>5, <2>2, <3>1 DEF Taken
  <2>3. QED
    BY <2>1, <2>2
<1>6. QED
  BY <1>3, <1>4, <1>5

(* An element of a nested set is one.                                     *)
LEMMA InnerIsTaken ==
  ASSUME NEW set, NEW reading \in AnyReading, NEW element
  PROVE  ReadInner(set, reading, element) = Taken(reading, <<set, element.tag>>, element.wire)
<1>1. <<set, element.tag>> # <<1>>
  OBVIOUS
<1>2. reading.ok \in BOOLEAN
  BY DEF AnyReading
<1>3. QED
  BY <1>1, <1>2 DEF ReadInner, Taken

(* So is an element of a packet, other than a nested set.                 *)
LEMMA ElementIsTaken ==
  ASSUME NEW reading \in AnyReading, NEW element, element.wire \in Seq(Bytes),
         element.tag \notin {48, 74}
  PROVE  ReadElement(reading, element) = Taken(reading, <<element.tag>>, element.wire)
<1>1. (element.tag = 1) <=> (<<element.tag>> = <<1>>)
  OBVIOUS
<1>2. reading.ok \in BOOLEAN
  BY DEF AnyReading
<1>3. <<element.tag>> \in AllKeys => Takes(<<element.tag>>, element.wire) \in BOOLEAN
  BY TakesType
<1>4. Refused(reading.data, <<element.tag>>, element.wire) = reading.data
  BY DEF Refused, Targets
<1>5. QED
  BY <1>1, <1>2, <1>3, <1>4 DEF ReadElement, Taken, Reading

-------------------------------------------------------------------------------
(* Recursion over the elements.                                             *)
ReadsInner(f, set, reading, elements) ==
  /\ f \in [0 .. Len(elements) -> AnyReading]
  /\ f[0] = reading
  /\ \A n \in 1 .. Len(elements) :
       f[n] = Taken(f[n - 1], <<set, elements[n].tag>>, elements[n].wire)

(* What has been read after each element of a nested set exists,          *)
LEMMA InnerReadingsDef ==
  ASSUME NEW set, NEW reading \in AnyReading, NEW elements \in Seq(Plain)
  PROVE  ReadsInner(InnerReadings(set, reading, elements), set, reading, elements)
<1> DEFINE N == Len(elements)
           Step(r, n) == Taken(r, <<set, elements[n].tag>>, elements[n].wire)
           step == [x \in AnyReading \X (1 .. N) |-> Step(x[1], x[2])]
<1>1. N \in Nat
  OBVIOUS
<1>2. \A r \in AnyReading, n \in 1 .. N : Step(r, n) \in AnyReading
  <2>1. \A n \in 1 .. N : elements[n].wire \in Seq(Bytes)
    <3>1. \A n \in 1 .. N : elements[n] \in Plain
      OBVIOUS
    <3>2. QED
      BY <3>1 DEF Plain
  <2>2. QED
    BY <2>1, TakenType DEF Step
<1> HIDE DEF Step, N
<1>3. step \in [AnyReading \X (1 .. N) -> AnyReading]
  BY <1>2
<1>4. \A r \in AnyReading, n \in 1 .. N : step[<<r, n>>] = Step(r, n)
  OBVIOUS
<1> HIDE DEF step
<1>5. PICK f \in [0 .. N -> AnyReading] : Follows(f, reading, step, N)
  BY <1>1, <1>3, Recursion
<1>6. \A n \in 1 .. N : f[n - 1] \in AnyReading
  BY <1>1
<1>7. \A n \in 1 .. N : f[n] = Step(f[n - 1], n)
  BY <1>4, <1>5, <1>6 DEF Follows
<1>8. \A n \in 1 .. N : f[n] = ReadInner(set, f[n - 1], elements[n])
  BY <1>6, <1>7, InnerIsTaken DEF Step
<1>9. f = [n \in 0 .. N |-> IF n = 0 THEN reading ELSE ReadInner(set, f[n - 1], elements[n])]
  BY <1>1, <1>5, <1>8 DEF Follows
<1> DEFINE g == InnerReadings(set, reading, elements)
<1>10. g = [n \in 0 .. N |-> IF n = 0 THEN reading ELSE ReadInner(set, g[n - 1], elements[n])]
  BY <1>9 DEF InnerReadings, N
<1> DEFINE T == {n \in 0 .. N : g[n] = f[n]}
<1> HIDE DEF g
<1>11. T = 0 .. N
  <2>1. T \in SUBSET (0 .. N) /\ 0 \in T
    BY <1>1, <1>5, <1>10 DEF Follows
  <2>2. ASSUME NEW n \in T, n < N PROVE n + 1 \in T
    <3>1. n + 1 \in 1 .. N /\ n + 1 - 1 = n /\ n + 1 \in 0 .. N /\ n + 1 # 0
      BY <1>1, <2>2
    <3>2. g[n + 1] = ReadInner(set, g[n], elements[n + 1])
      BY <3>1, <1>10
    <3>3. QED
      BY <3>1, <3>2, <1>8
  <2> HIDE DEF T
  <2>3. QED
    BY <1>1, <2>1, <2>2, InductionUpto
<1>12. g = f
  BY <1>1, <1>5, <1>10, <1>11
<1>13. QED
  BY <1>5, <1>7, <1>12 DEF ReadsInner, Follows, Step, N, g

(* a nested set leaves a KLVData,                                         *)
LEMMA ElementType ==
  ASSUME NEW reading \in AnyReading, NEW element \in Elements
  PROVE  ReadElement(reading, element) \in AnyReading
<1>1. element.wire \in Seq(Bytes) /\ element.inner \in Seq(Plain)
  BY DEF Elements
<1>2. CASE element.tag \notin {48, 74}
  BY <1>1, <1>2, ElementIsTaken, TakenType
<1>3. CASE element.tag \in {48, 74}
  <2> DEFINE f == InnerReadings(element.tag, reading, element.inner)
  <2>1. Len(element.inner) \in Nat
    BY <1>1
  <2>2. f \in [0 .. Len(element.inner) -> AnyReading]
    BY <1>1, InnerReadingsDef DEF ReadsInner
  <2> HIDE DEF f
  <2>3. f[Len(element.inner)] \in AnyReading
    BY <2>1, <2>2
  <2>4. ReadElement(reading, element) = IF ~reading.ok THEN reading ELSE f[Len(element.inner)]
    BY <1>3 DEF ReadElement, f
  <2>5. QED
    BY <2>3, <2>4
<1>4. QED
  BY <1>2, <1>3

(* and so does what has been read after each element of a packet.         *)
LEMMA ReadingsDef ==
  ASSUME NEW data \in KLVData, NEW elements \in Seq(Elements)
  PROVE  LET f == Readings(data, elements)
         IN /\ f \in [0 .. Len(elements) -> AnyReading]
            /\ f[0] = Reading(TRUE, data)
            /\ \A n \in 1 .. Len(elements) : f[n] = ReadElement(f[n - 1], elements[n])
<1> DEFINE N == Len(elements)
           base == Reading(TRUE, data)
           step == [x \in AnyReading \X (1 .. N) |-> ReadElement(x[1], elements[x[2]])]
<1>1. N \in Nat /\ base \in AnyReading
  BY DEF AnyReading, Reading
<1>2. \A r \in AnyReading, n \in 1 .. N : ReadElement(r, elements[n]) \in AnyReading
  <2>1. \A n \in 1 .. N : elements[n] \in Elements
    OBVIOUS
  <2>2. QED
    BY <2>1, ElementType
<1> HIDE DEF N, base
<1>3. step \in [AnyReading \X (1 .. N) -> AnyReading]
  BY <1>2
<1>4. \A r \in AnyReading, n \in 1 .. N : step[<<r, n>>] = ReadElement(r, elements[n])
  OBVIOUS
<1> HIDE DEF step
<1>5. PICK f \in [0 .. N -> AnyReading] : Follows(f, base, step, N)
  BY <1>1, <1>3, Recursion
<1>6. \A n \in 1 .. N : f[n - 1] \in AnyReading
  BY <1>1
<1>7. \A n \in 1 .. N : f[n] = ReadElement(f[n - 1], elements[n])
  BY <1>4, <1>5, <1>6 DEF Follows
<1>8. f = [n \in 0 .. N |-> IF n = 0 THEN base ELSE ReadElement(f[n - 1], elements[n])]
  BY <1>1, <1>5, <1>7 DEF Follows
<1> DEFINE g == Readings(data, elements)
<1>9. g = [n \in 0 .. N |-> IF n = 0 THEN base ELSE ReadElement(g[n - 1], elements[n])]
  BY <1>8 DEF Readings, N, base
<1> DEFINE T == {n \in 0 .. N : g[n] = f[n]}
<1> HIDE DEF g
<1>10. T = 0 .. N
  <2>1. T \in SUBSET (0 .. N) /\ 0 \in T
    BY <1>1, <1>5, <1>9 DEF Follows
  <2>2. ASSUME NEW n \in T, n < N PROVE n + 1 \in T
    <3>1. n + 1 \in 1 .. N /\ n + 1 - 1 = n /\ n + 1 \in 0 .. N /\ n + 1 # 0
      BY <1>1, <2>2
    <3>2. g[n + 1] = ReadElement(g[n], elements[n + 1])
      BY <3>1, <1>9
    <3>3. QED
      BY <3>1, <3>2, <1>7
  <2> HIDE DEF T
  <2>3. QED
    BY <1>1, <2>1, <2>2, InductionUpto
<1>11. g = f
  BY <1>1, <1>5, <1>9, <1>10
<1>12. QED
  BY <1>5, <1>7, <1>11 DEF Follows, N, g, base

-------------------------------------------------------------------------------
(* What has been read once the elements at the places Seen have been.          *)
Holds(data, elements, Seen, key) ==
  LET at == {p \in Seen : KeyAt(elements, p) = key}
  IN \/ at = {} /\ data[key] = Unknown(key)
     \/ \E p \in at : /\ \A q \in at : NotAfter(q, p)
                      /\ data[key] = Value(Unknown(key), key, WireAt(elements, p))

ReadSoFar(reading, elements, Seen) ==
  /\ reading \in AnyReading
  /\ reading.ok <=> \A p \in Seen : GoodAt(elements, p)
  /\ reading.ok => \A key \in Compared : Holds(reading.data, elements, Seen, key)

(* Another element is read.                                               *)
LEMMA OneMore ==
  ASSUME NEW reading, NEW elements, NEW Seen, ReadSoFar(reading, elements, Seen),
         NEW p \in Nat \X Nat, \A q \in Seen : NotAfter(q, p) /\ p # q,
         WireAt(elements, p) \in Seq(Bytes)
  PROVE  ReadSoFar(Taken(reading, KeyAt(elements, p), WireAt(elements, p)), elements, Seen \cup {p})
<1> DEFINE key  == KeyAt(elements, p)
           wire == WireAt(elements, p)
           r    == Taken(reading, key, wire)
<1>1. reading \in AnyReading /\ reading.ok \in BOOLEAN /\ reading.data \in KLVData
  BY DEF ReadSoFar, AnyReading
<1>2. r \in AnyReading
  BY <1>1, TakenType
<1>3. key \in AllKeys => Takes(key, wire) \in BOOLEAN
  BY TakesType
<1>4. r.ok <=> reading.ok /\ GoodAt(elements, p)
  BY <1>1, <1>3 DEF Taken, GoodAt, Reading
<1>5. r.ok <=> \A q \in Seen \cup {p} : GoodAt(elements, q)
  BY <1>4 DEF ReadSoFar
<1>6. NotAfter(p, p)
  BY DEF NotAfter
<1>7. ASSUME r.ok, NEW k \in Compared PROVE Holds(r.data, elements, Seen \cup {p}, k)
  <2>1. Holds(reading.data, elements, Seen, k)
    BY <1>4, <1>7 DEF ReadSoFar
  <2>2. CASE key = k
    <3>1. k \in AllKeys /\ k # <<1>>
      BY KlvAssumption, KeysApart DEF Compared, KlvAssumption
    <3>2. r = Reading(TRUE, Stored(reading.data, k, wire))
      BY <1>4, <1>7, <2>2, <3>1 DEF Taken, Reading, GoodAt
    <3>3. r.data[k] = Value(Unknown(k), k, wire)
      BY <1>1, <3>1, <3>2, StoredValue DEF Reading
    <3>4. QED
      BY <2>2, <3>3, <1>6 DEF Holds
  <2>3. CASE key # k
    <3>1. r.data[k] = reading.data[k]
      <4>1. CASE key = <<1>> \/ key \notin AllKeys
        BY <4>1, <1>4, <1>7 DEF Taken, Reading
      <4>2. CASE key # <<1>> /\ key \in AllKeys
        <5>1. r = Reading(TRUE, Stored(reading.data, key, wire))
          BY <1>4, <1>7, <4>2 DEF Taken, Reading, GoodAt
        <5>2. QED
          BY <1>1, <2>3, <4>2, <5>1, StoredValue DEF Reading
      <4>3. QED
        BY <4>1, <4>2
    <3>2. {q \in Seen \cup {p} : KeyAt(elements, q) = k} = {q \in Seen : KeyAt(elements, q) = k}
      BY <2>3
    <3>3. QED
      BY <2>1, <3>1, <3>2 DEF Holds
  <2>4. QED
    BY <2>2, <2>3
<1>8. QED
  BY <1>2, <1>5, <1>7 DEF ReadSoFar
(* A nested set at i, after what comes before it.                           *)
LEMMA NestedSet ==
  ASSUME NEW elements \in Seq(Elements), NEW i \in 1 .. Len(elements),
         elements[i].tag \in {48, 74},
         NEW reading, NEW Seen, ReadSoFar(reading, elements, Seen), \A q \in Seen : q[1] < i
  PROVE  LET inner == elements[i].inner
         IN ReadSoFar(InnerReadings(elements[i].tag, reading, inner)[Len(inner)], elements,
                      Seen \cup {<<i, j>> : j \in 1 .. Len(inner)})
<1> DEFINE tag   == elements[i].tag
           inner == elements[i].inner
           N     == Len(inner)
           f     == InnerReadings(tag, reading, inner)
           Upto(m) == Seen \cup {<<i, j>> : j \in 1 .. m}
<1>1. elements[i] \in Elements
  OBVIOUS
<1>2. inner \in Seq(Plain) /\ N \in Nat
  BY <1>1 DEF Elements
<1>3. reading \in AnyReading
  BY DEF ReadSoFar
<1> HIDE DEF inner
<1>4. ReadsInner(f, tag, reading, inner)
  BY <1>2, <1>3, InnerReadingsDef
<1> HIDE DEF f
<1>5. /\ f[0] = reading
      /\ \A n \in 1 .. N : f[n] = Taken(f[n - 1], <<tag, inner[n].tag>>, inner[n].wire)
  BY <1>4 DEF ReadsInner
<1> USE DEF inner
<1> DEFINE T == {m \in 0 .. N : ReadSoFar(f[m], elements, Upto(m))}
<1>6. 0 \in T
  <2>1. Upto(0) = Seen
    OBVIOUS
  <2>2. ReadSoFar(f[0], elements, Upto(0))
    BY <1>5, <2>1
  <2> HIDE DEF Upto
  <2>3. QED
    BY <1>2, <2>2
<1>7. ASSUME NEW m \in T, m < N PROVE m + 1 \in T
  <2> DEFINE p == <<i, m + 1>>
  <2>1. m \in Nat /\ m + 1 \in 1 .. N /\ m + 1 - 1 = m /\ m + 1 \in 0 .. N
    BY <1>2, <1>7
  <2>2. KeyAt(elements, p) = <<tag, inner[m + 1].tag>> /\ WireAt(elements, p) = inner[m + 1].wire
    BY <2>1 DEF KeyAt, WireAt
  <2>3. inner[m + 1] \in Plain
    BY <1>2, <2>1
  <2>4. WireAt(elements, p) \in Seq(Bytes)
    BY <2>2, <2>3 DEF Plain
  <2>5. p \in Nat \X Nat
    BY <2>1
  <2>6. \A q \in Upto(m) : NotAfter(q, p) /\ p # q
    BY <2>1 DEF NotAfter
  <2>7. Upto(m + 1) = Upto(m) \cup {p}
    BY <2>1
  <2>8. f[m + 1] = Taken(f[m], KeyAt(elements, p), WireAt(elements, p))
    BY <1>5, <2>1, <2>2
  <2>9. ReadSoFar(f[m], elements, Upto(m))
    OBVIOUS
  <2> HIDE DEF p, Upto
  <2>10. ReadSoFar(f[m + 1], elements, Upto(m + 1))
    BY <2>4, <2>5, <2>6, <2>7, <2>8, <2>9, OneMore
  <2>11. QED
    BY <2>1, <2>10
<1>8. T \in SUBSET (0 .. N)
  OBVIOUS
<1> HIDE DEF T, N
<1>9. T = 0 .. N
  BY <1>2, <1>6, <1>7, <1>8, InductionUpto
<1>10. N \in T
  BY <1>2, <1>9
<1>11. QED
  BY <1>10 DEF T, N, f

(* An element of a packet after those before it, nested or not.           *)
LEMMA NextElement ==
  ASSUME NEW elements \in Seq(Elements), NEW i \in 1 .. Len(elements),
         NEW reading, NEW Seen, ReadSoFar(reading, elements, Seen), \A q \in Seen : q[1] < i
  PROVE  ReadSoFar(ReadElement(reading, elements[i]), elements,
                   Seen \cup {q \in Places(elements) : q[1] = i})
<1>1. elements[i] \in Elements
  OBVIOUS
<1>2. reading \in AnyReading /\ reading.ok \in BOOLEAN
  BY DEF ReadSoFar, AnyReading
<1>3. CASE elements[i].tag \notin {48, 74}
  <2> DEFINE p == <<i, 0>>
  <2>1. {q \in Places(elements) : q[1] = i} = {p}
    BY <1>3 DEF Places
  <2>2. KeyAt(elements, p) = <<elements[i].tag>> /\ WireAt(elements, p) = elements[i].wire
    BY DEF KeyAt, WireAt
  <2>3. WireAt(elements, p) \in Seq(Bytes) /\ p \in Nat \X Nat
    BY <1>1, <2>2 DEF Elements
  <2>4. \A q \in Seen : NotAfter(q, p) /\ p # q
    BY DEF NotAfter
  <2>5. ReadElement(reading, elements[i]) = Taken(reading, KeyAt(elements, p), WireAt(elements, p))
    BY <1>2, <1>3, <2>2, <2>3, ElementIsTaken
  <2> HIDE DEF p
  <2>6. QED
    BY <2>1, <2>3, <2>4, <2>5, OneMore
<1>4. CASE elements[i].tag \in {48, 74}
  <2> DEFINE inner == elements[i].inner
             S     == {<<i, j>> : j \in 1 .. Len(inner)}
             r     == InnerReadings(elements[i].tag, reading, inner)[Len(inner)]
  <2>1. inner \in Seq(Plain)
    BY <1>1 DEF Elements
  <2>2. {q \in Places(elements) : q[1] = i} = S
    <3>1. DOMAIN inner = 1 .. Len(inner)
      BY <2>1
    <3>2. QED
      BY <1>4, <3>1 DEF Places
  <2>3. ReadSoFar(r, elements, Seen \cup S)
    BY <1>4, NestedSet
  <2>4. CASE reading.ok
    <3>1. ReadElement(reading, elements[i]) = r
      BY <1>4, <2>4 DEF ReadElement
    <3>2. QED
      BY <2>2, <2>3, <3>1
  <2>5. CASE ~reading.ok
    <3>1. ReadElement(reading, elements[i]) = reading
      BY <2>5 DEF ReadElement
    <3>2. QED
      BY <2>2, <2>5, <3>1 DEF ReadSoFar
  <2>6. QED
    BY <1>2, <2>4, <2>5
<1>5. QED
  BY <1>3, <1>4

(* All of them, from klvRecent without a value.                             *)
LEMMA AllElements ==
  ASSUME NEW elements \in Seq(Elements)
  PROVE  ReadSoFar(ReadKlvElements(KLVUnknown, elements), elements, Places(elements))
<1> DEFINE N == Len(elements)
           f == Readings(KLVUnknown, elements)
           Upto(n) == {q \in Places(elements) : q[1] <= n}
           T == {n \in 0 .. N : ReadSoFar(f[n], elements, Upto(n))}
<1>1. N \in Nat
  OBVIOUS
<1>2. /\ f[0] = Reading(TRUE, KLVUnknown)
      /\ \A n \in 1 .. N : f[n] = ReadElement(f[n - 1], elements[n])
  BY UnknownType, ReadingsDef
<1>3. \A q \in Places(elements) : q[1] \in 1 .. N
  BY DEF Places
<1> HIDE DEF f
<1>4. 0 \in T
  <2>1. Upto(0) = {}
    BY <1>1, <1>3
  <2>2. f[0] \in AnyReading /\ f[0].ok /\ f[0].data = KLVUnknown
    BY <1>2, UnknownType DEF AnyReading, Reading
  <2>3. \A key \in Compared : KLVUnknown[key] = Unknown(key)
    BY DEF KLVUnknown, Compared
  <2>4. ReadSoFar(f[0], elements, {})
    BY <2>2, <2>3 DEF ReadSoFar, Holds
  <2>5. ReadSoFar(f[0], elements, Upto(0))
    BY <2>1, <2>4
  <2> HIDE DEF Upto
  <2>6. QED
    BY <1>1, <2>5
<1>5. ASSUME NEW n \in T, n < N PROVE n + 1 \in T
  <2>1. n + 1 \in 1 .. N /\ n + 1 - 1 = n /\ n + 1 \in 0 .. N
    BY <1>1, <1>5
  <2>2. Upto(n + 1) = Upto(n) \cup {q \in Places(elements) : q[1] = n + 1}
    BY <1>3, <2>1
  <2>3. \A q \in Upto(n) : q[1] < n + 1
    BY <1>3, <2>1
  <2>4. ReadSoFar(f[n], elements, Upto(n))
    OBVIOUS
  <2>5. f[n + 1] = ReadElement(f[n], elements[n + 1])
    BY <1>2, <2>1
  <2> HIDE DEF Upto
  <2>6. ReadSoFar(ReadElement(f[n], elements[n + 1]), elements,
                  Upto(n) \cup {q \in Places(elements) : q[1] = n + 1})
    BY <2>1, <2>3, <2>4, NextElement
  <2>7. ReadSoFar(f[n + 1], elements, Upto(n + 1))
    BY <2>2, <2>5, <2>6
  <2>8. QED
    BY <2>1, <2>7
<1>6. T \in SUBSET (0 .. N)
  OBVIOUS
<1> HIDE DEF T, N, Upto
<1>7. T = 0 .. N
  BY <1>1, <1>4, <1>5, <1>6, InductionUpto
<1>8. ReadSoFar(f[N], elements, Upto(N))
  BY <1>1, <1>7 DEF T
<1>9. Upto(N) = Places(elements)
  BY <1>1, <1>3 DEF Upto
<1>10. QED
  BY <1>8, <1>9 DEF ReadKlvElements, f, N
-------------------------------------------------------------------------------
(* The last place is one place.                                             *)
LEMMA HoldsWhatIsSaid ==
  ASSUME NEW packet, NEW data, NEW key,
         Holds(data, packet.elements, Places(packet.elements), key),
         Places(packet.elements) \subseteq Nat \X Nat
  PROVE  data[key] = Said(packet, key)
<1> DEFINE at == {p \in Places(packet.elements) : KeyAt(packet.elements, p) = key}
           Last(p) == p \in at /\ \A q \in at : NotAfter(q, p)
<1>1. \A p, q : Last(p) /\ Last(q) => p = q
  BY DEF NotAfter
<1>2. CASE at = {}
  BY <1>2 DEF Holds, Said
<1>3. CASE at # {}
  <2>1. PICK p \in at : Last(p) /\ data[key] = Value(Unknown(key), key, WireAt(packet.elements, p))
    BY <1>3 DEF Holds
  <2>2. (CHOOSE q \in at : \A r \in at : NotAfter(r, q)) = p
    BY <1>1, <2>1
  <2>3. QED
    BY <1>3, <2>1, <2>2 DEF Said
<1>4. QED
  BY <1>2, <1>3

(* A packet is accepted just when it is good, at either offset, and then     *)
(* klvRecent holds what the packet says and nothing else.                    *)
LEMMA PacketsAreRead ==
  ASSUME NEW packet \in Packets
  PROVE  /\ ReadKlv[packet] \in AnyReading
         /\ ReadKlv[packet].ok <=> Good(packet)
         /\ ReadKlv[packet].ok =>
              \A key \in Compared : ReadKlv[packet].data[key] = Said(packet, key)
<1> DEFINE elements == packet.elements
           read     == ReadKlvElements(KLVUnknown, elements)
           none     == Reading(FALSE, KLVUnknown)
<1>1. elements \in Seq(Elements) /\ packet.keyAt \in Nat
  BY PacketsAssumption DEF PacketsAssumption
<1>2. ReadSoFar(read, elements, Places(elements))
  BY <1>1, AllElements
<1>3. Places(elements) \subseteq Nat \X Nat
  <2>1. ASSUME NEW i \in DOMAIN elements PROVE DOMAIN elements[i].inner \subseteq Nat
    <3>1. elements[i] \in Elements
      BY <1>1
    <3>2. elements[i].inner \in Seq(Plain)
      BY <3>1 DEF Elements
    <3>3. QED
      BY <3>2
  <2>2. DOMAIN elements \subseteq Nat
    BY <1>1
  <2> HIDE DEF elements
  <2>3. QED
    BY <2>1, <2>2 DEF Places
<1>4. none \in AnyReading /\ ~none.ok /\ none.data = KLVUnknown
  BY UnknownType DEF AnyReading, Reading
<1>5. read \in AnyReading /\ read.ok \in BOOLEAN
  BY <1>2 DEF ReadSoFar, AnyReading
<1>6. read.ok => \A key \in Compared : read.data[key] = Said(packet, key)
  BY <1>2, <1>3, HoldsWhatIsSaid DEF ReadSoFar
<1>7. ReadKlv[packet] = LET first == ReadKlvFrame(KLVUnknown, packet, 0)
                        IN IF first.ok THEN first ELSE ReadKlvFrame(first.data, packet, 5)
  BY DEF ReadKlv
<1> HIDE DEF read, none
<1>8. CASE packet.keyAt = 0
  <2>1. ReadKlvFrame(KLVUnknown, packet, 0) = read
    BY <1>8 DEF ReadKlvFrame, read
  <2>2. ReadKlvFrame(read.data, packet, 5) = Reading(FALSE, read.data)
    BY <1>8 DEF ReadKlvFrame
  <2>3. ReadKlv[packet] = IF read.ok THEN read ELSE Reading(FALSE, read.data)
    BY <1>7, <2>1, <2>2
  <2>4. Reading(FALSE, read.data) \in AnyReading /\ ~Reading(FALSE, read.data).ok
    BY <1>5 DEF Reading, AnyReading
  <2>5. read.ok <=> Good(packet)
    BY <1>2, <1>8 DEF ReadSoFar, Good
  <2>6. QED
    BY <1>5, <1>6, <2>3, <2>4, <2>5
<1>9. CASE packet.keyAt # 0
  <2>1. ReadKlvFrame(KLVUnknown, packet, 0) = none
    BY <1>9 DEF ReadKlvFrame, none
  <2>2. ReadKlv[packet] = ReadKlvFrame(KLVUnknown, packet, 5)
    BY <1>4, <1>7, <2>1
  <2>3. CASE packet.keyAt = 5
    <3>1. ReadKlv[packet] = read
      BY <2>2, <2>3 DEF ReadKlvFrame, read
    <3>2. read.ok <=> Good(packet)
      BY <1>2, <2>3 DEF ReadSoFar, Good
    <3>3. QED
      BY <1>5, <1>6, <3>1, <3>2
  <2>4. CASE packet.keyAt # 5
    <3>1. ReadKlv[packet] = none
      BY <2>2, <2>4 DEF ReadKlvFrame, none
    <3>2. ~Good(packet)
      BY <1>9, <2>4 DEF Good
    <3>3. QED
      BY <1>4, <3>1, <3>2
  <2>5. QED
    BY <2>3, <2>4
<1>10. QED
  BY <1>8, <1>9

(* KLVUpdateValues leaves a KLVData.                                      *)
LEMMA CopyType ==
  ASSUME NEW d \in KLVData, NEW s \in KLVData
  PROVE  /\ SLCopyChangedKLV(d, s) \in KLVData
         /\ \A key \in Compared :
              SLCopyChangedKLV(d, s)[key] = IF s[key] # Unknown(key) THEN s[key] ELSE d[key]
BY DEF SLCopyChangedKLV, KLVData, Compared

-------------------------------------------------------------------------------
KlvInv == KlvOK /\ (yuvIm => shown.paired = 0)

(* A packet read keeps what is compared.                                  *)
LEMMA ReadPacketKeeps ==
  ASSUME KlvInv, ReadPacket
  PROVE  KlvInv'
<1> USE DEF KlvInv, KlvOK
<1>1. PICK packet \in Packets :
        LET read == ReadKlv[packet]
        IN /\ klvRecent' = read.data
           /\ klv' = IF read.ok THEN SLCopyChangedKLV(klv, read.data) ELSE klv
           /\ task' = IF read.ok THEN "haveKlv" ELSE "idle"
           /\ IF packet \in DOMAIN News
                THEN /\ latest' = [key \in Keys |-> IF key \in DOMAIN News[packet]
                                                      THEN News[packet][key] ELSE latest[key]]
                     /\ recent' = DOMAIN News[packet]
              ELSE UNCHANGED <<latest, recent>>
  BY DEF ReadPacket
<1> DEFINE read == ReadKlv[packet]
<1>2. /\ read \in AnyReading /\ (read.ok <=> Good(packet))
      /\ read.ok => \A key \in Compared : read.data[key] = Said(packet, key)
  BY PacketsAreRead
<1>3. packet \in DOMAIN News <=> Good(packet)
  BY DEF News
<1> HIDE DEF read
<1>4. read.data \in KLVData /\ {klv, klvRecent} \subseteq KLVData
  BY <1>2 DEF AnyReading, TypeOK
<1>5. UNCHANGED <<flags, app, shown>>
  BY DEF ReadPacket
<1>6. CASE ~Good(packet)
  <2>1. klvRecent' = read.data /\ task' = "idle" /\ UNCHANGED <<klv, latest, recent>>
    BY <1>1, <1>2, <1>3, <1>6 DEF read
  <2>2. QED
    BY <1>4, <1>5, <2>1 DEF TypeOK, KlvIsLatest, RecentIsThisFrame, flags
<1>7. CASE Good(packet)
  <2>1. klvRecent' = read.data /\ task' = "haveKlv" /\ klv' = SLCopyChangedKLV(klv, read.data)
    BY <1>1, <1>2, <1>7 DEF read
  <2>2. /\ latest' = [key \in Keys |-> IF key \in DOMAIN News[packet]
                                         THEN News[packet][key] ELSE latest[key]]
        /\ recent' = DOMAIN News[packet]
    BY <1>1, <1>3, <1>7
  <2>3. News[packet] = [key \in {k \in Keys : Said(packet, k) # Unknown(k)} |-> Said(packet, key)]
    BY <1>7 DEF News
  <2>4. ASSUME NEW key \in Compared
        PROVE  /\ klv'[key] = latest'[key]
               /\ klvRecent'[key] = IF key \in recent' THEN latest'[key] ELSE Unknown(key)
    <3>1. key \in Keys /\ read.data[key] = Said(packet, key) /\ klv[key] = latest[key]
      BY <1>2, <1>7, <2>4 DEF Compared, KlvIsLatest
    <3>2. klv'[key] = IF read.data[key] # Unknown(key) THEN read.data[key] ELSE klv[key]
      BY <1>4, <2>1, CopyType
    <3>3. QED
      BY <2>1, <2>2, <2>3, <3>1, <3>2
  <2>5. {klv', klvRecent'} \subseteq KLVData
    BY <1>4, <2>1, CopyType
  <2>6. QED
    BY <1>5, <2>1, <2>4, <2>5 DEF TypeOK, KlvIsLatest, RecentIsThisFrame, flags
<1>8. QED
  BY <1>6, <1>7

(* klv holds for each key what the last good packet that mentions it says,  *)
(* and what is reported with a frame is what its packet says, whatever the  *)
(* packets are (SLAKlvDecode.cpp, SLADecodeFFMpeg.cpp 824-862).             *)
THEOREM KlvIsCorrect == Spec => []KlvOK
<1>1. Init => KlvInv
  <2> SUFFICES ASSUME Init PROVE KlvInv
    OBVIOUS
  <2>1. TypeOK /\ shown.paired = 0
    <3>1. FALSE \in BOOLEAN
      OBVIOUS
    <3>2. flags \in BOOLEAN \X BOOLEAN \X BOOLEAN \X BOOLEAN
      BY <3>1 DEF Init, flags
    <3>3. shown \in [alone : 0 .. 1, paired : 0 .. 1] /\ shown.paired = 0
      BY DEF Init
    <3>4. QED
      BY <3>2, <3>3, ZerosType DEF Init, TypeOK
  <2>2. KlvIsLatest /\ RecentIsThisFrame
    BY DEF Init, KlvIsLatest, RecentIsThisFrame
  <2>3. QED
    BY <2>1, <2>2 DEF KlvInv, KlvOK
<1>2. KlvInv /\ [Next]_vars => KlvInv'
  <2> SUFFICES ASSUME KlvInv, [Next]_vars PROVE KlvInv'
    OBVIOUS
  <2>1. CASE ReadPacket
    BY <2>1, ReadPacketKeeps
  <2>2. ASSUME UNCHANGED metadata, task' \in {"haveKlv", "klv"} => task \in {"haveKlv", "klv"}
        PROVE  KlvIsLatest' /\ RecentIsThisFrame' /\ {klv', klvRecent'} \subseteq KLVData
    BY <2>2 DEF KlvInv, KlvOK, KlvIsLatest, RecentIsThisFrame, TypeOK, metadata
  <2>3. TypeOK /\ (yuvIm => shown.paired = 0)
    BY DEF KlvInv, KlvOK
  <2> USE <2>2, <2>3 DEF KlvInv, KlvOK, TypeOK, flags
  <2>4. CASE HaveKlv
    <3>1. flags' \in BOOLEAN \X BOOLEAN \X BOOLEAN \X BOOLEAN
      BY <2>4 DEF HaveKlv
    <3>2. QED
      BY ONLY <2>2, <2>3, <2>4, <3>1 DEF HaveKlv, KlvInv, KlvOK, TypeOK
  <2>5. CASE ReportKlv
    <3>1. flags' \in BOOLEAN \X BOOLEAN \X BOOLEAN \X BOOLEAN
      BY <2>5 DEF ReportKlv
    <3>2. counted /\ yuvIm => [shown EXCEPT !.paired = @ + 1] \in [alone : 0 .. 1, paired : 0 .. 1]
      OBVIOUS
    <3>3. shown' \in [alone : 0 .. 1, paired : 0 .. 1] /\ ~yuvIm'
      BY <2>5, <3>2 DEF ReportKlv
    <3>4. QED
      BY ONLY <2>2, <2>3, <2>5, <3>1, <3>3 DEF ReportKlv, KlvInv, KlvOK, TypeOK
  <2>6. CASE FinishFrame
    BY <2>6 DEF FinishFrame
  <2>7. CASE ReportStats
    <3>1. (haveKLV /\ ~klvCounted) \in BOOLEAN
      OBVIOUS
    <3>2. flags' \in BOOLEAN \X BOOLEAN \X BOOLEAN \X BOOLEAN
      BY <2>7, <3>1 DEF ReportStats
    <3>3. QED
      BY ONLY <2>2, <2>3, <2>7, <3>2 DEF ReportStats, KlvInv, KlvOK, TypeOK
  <2>8. CASE ReportImage
    <3>1. flags' \in BOOLEAN \X BOOLEAN \X BOOLEAN \X BOOLEAN
      BY <2>8 DEF ReportImage
    <3>2. shown' \in [alone : 0 .. 1, paired : 0 .. 1] /\ shown'.paired = 0
      BY <2>8 DEF ReportImage
    <3>3. QED
      BY ONLY <2>2, <2>3, <2>8, <3>1, <3>2 DEF ReportImage, KlvInv, KlvOK, TypeOK
  <2>9. CASE CountImage
    BY <2>9 DEF CountImage
  <2>10. CASE ForgetKlv
    BY <2>10 DEF ForgetKlv
  <2>11. CASE ForgetFrames
    BY <2>11 DEF ForgetFrames
  <2>12. CASE UNCHANGED vars
    BY <2>12 DEF vars, metadata
  <2> HIDE <2>2, <2>3 DEF KlvInv, KlvOK, TypeOK, flags
  <2>13. QED
    BY <2>1, <2>4, <2>5, <2>6, <2>7, <2>8, <2>9, <2>10, <2>11, <2>12 DEF Next, Task
<1>3. KlvInv => KlvOK
  BY DEF KlvInv
<1>4. QED
  BY <1>1, <1>2, <1>3, PTL DEF Spec

==============================================================================
