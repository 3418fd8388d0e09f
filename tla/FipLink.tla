------------------------------- MODULE FipLink --------------------------------
(***************************************************************************)
(* A sender that packs FIP packets (FipPackets), a serial line, and the    *)
(* two readers of the repository: ReadFIP (simpleSerialPort.cpp 131-178),  *)
(* which takes one packet at a time off the line and hands it to           *)
(* SLParsePackets, and SLParsePackets (simpleslfipport.cpp 9-57) on the    *)
(* bytes of several reads, whose return value is the number of bytes to    *)
(* keep in front of the next ones.  The loops around both are not in the   *)
(* repository; they call the reader again after every result.              *)
(*                                                                         *)
(* Bytes are real, and so is the checksum: fields may look like a header.  *)
(***************************************************************************)
EXTENDS FipPackets, Sequences, FiniteSets

CONSTANTS
  Plans,        (* what is tried: the packers called, in their order, and  *)
                (* the reader: "blocking" and "timed" are ReadFIP without  *)
                (* and with a timeout, "batch" is SLParsePackets on what   *)
                (* has arrived                                             *)
  Fills,        (* what the fields hold                                    *)
  FirstType, NTypes,  (* the handler table given to SLParsePackets         *)
  Chunks,       (* bytes that "batch" takes at once, besides all there are *)
  HitValues,    (* what a damaged byte may turn into                       *)
  MaxHits,      (* bound of the model: bytes damaged or lost               *)
  MaxHitLen     (* bound of the model: longest packet that is damaged      *)

(* A packer (FipPackets).                                                   *)
Row == [second : 0 .. 255, type : 0 .. 255, len : Nat, data : Nat, ex : BOOLEAN]

ASSUME LinkAssumption ==
  /\ Plans \subseteq [reader : {"blocking", "timed", "batch"}, script : Seq(Row)]
  /\ Fills \subseteq {"zero", "header", "packet"}
  /\ FirstType \in 0 .. 255 /\ NTypes \in Nat
  /\ Chunks \subseteq Nat \ {0}
  /\ HitValues \subseteq 0 .. 255
  /\ MaxHits \in Nat /\ MaxHitLen \in Nat

VARIABLES
  reader,   (* which of the readers is used                                *)
  script,   (* the packers that will be called                             *)
  sent,     (* the packets packed so far: row and fill                     *)
  hits,     (* the packets damaged on the line                             *)
  torn,     (* the damage was to a header, a length, or a byte was lost    *)
  line,     (* bytes that have been sent and not read                      *)
  pc,       (* the Read of ReadFIP that is next                            *)
  len,      (* data[SLFIP_OFFSET_LENGTH] of ReadFIP's buffer               *)
  rest,     (* the bytes kept for the next SLParsePackets                  *)
  dropped,  (* the packets with bytes in a call of too few bytes           *)
  handled   (* the packets handlers were called with: type and fields      *)

linkVars == <<reader, script, sent, hits, torn, line, pc, len, rest, dropped, handled>>

------------------------------------------------------------------------------
(* The exclusive or of two bytes.                                           *)
Xor(a, b) ==
  LET Bit(weight) == weight * (((a \div weight) + (b \div weight)) % 2)
  IN Bit(1) + Bit(2) + Bit(4) + Bit(8) + Bit(16) + Bit(32) + Bit(64) + Bit(128)

(* crc8Table is the table of the reflected polynomial 0x8C.                 *)
crc8Table ==
  LET Shift == [c \in 0 .. 255 |-> IF c % 2 = 1 THEN Xor(c \div 2, \h8C) ELSE c \div 2]
  IN [c \in 0 .. 255 |-> Shift[Shift[Shift[Shift[Shift[Shift[Shift[Shift[c]]]]]]]]]

ASSUME TableAssumption ==
  /\ crc8Table[1] = 94 /\ crc8Table[2] = 188 /\ crc8Table[128] = 140
  /\ crc8Table[254] = 107 /\ crc8Table[255] = 53

(* The next checksum, tabulated.                                            *)
CrcStep == [c \in 0 .. 255 |-> [b \in 0 .. 255 |-> crc8Table[Xor(c, b)]]]

(* What becomes of the checksum c in bytes first to last, half by half.     *)
Checksums(data) ==
  LET crc[state \in (0 .. 255) \X (1 .. Len(data)) \X (1 .. Len(data))] ==
        LET c == state[1]  first == state[2]  last == state[3]
            middle == (first + last) \div 2
        IN IF first > last THEN c
           ELSE IF first = last THEN CrcStep[c][data[first]]
           ELSE crc[<<crc[<<c, first, middle>>], middle + 1, last>>]
  IN crc

SLComputeFIPChecksum(data) == IF data = << >> THEN 1 ELSE Checksums(data)[<<1, 1, Len(data)>>]

(* The bytes of the fields: zeros, or bytes that look like headers or like  *)
(* a whole packet (which is what SLFIPCommandPassthrough is given).         *)
Inner == LET body == <<HeaderByte1, HeaderByte2, 2, 0>>
         IN Append(body, SLComputeFIPChecksum(<<0>>))

Data(n, fill) ==
  [i \in 1 .. n |->
     CASE fill = "zero"   -> 0
       [] fill = "header" -> IF i % 2 = 1 THEN HeaderByte1 ELSE HeaderByte2
       [] fill = "packet" -> Inner[((i - 1) % 5) + 1]]

(* What a packer leaves in the buffer, which was cleared before.  The       *)
(* checksum is taken over the declared length.                              *)
Pack(row, fill) ==
  LET body    == <<row.type>> \o Data(row.data, fill)
      covered == [i \in 1 .. row.len - 1 |-> IF i <= Len(body) THEN body[i] ELSE 0]
  IN <<HeaderByte1, row.second>> \o SlFipSetLen(row.len, row.ex) \o body
     \o <<SLComputeFIPChecksum(covered)>>

------------------------------------------------------------------------------
(* SLParsePackets.  Positions count from 0, as in the code.                 *)
At(data, i) == data[i + 1]

(* The next header signature from i on, or the last place looked at.        *)
NextHeader(data, i) ==
  LET End  == Len(data) - 4
      Here == {k \in i .. End - 1 : At(data, k) = HeaderByte1 /\ At(data, k + 1) = HeaderByte2}
  IN IF Here = {} THEN (IF i < End THEN End ELSE i)
     ELSE CHOOSE k \in Here : \A j \in Here : k <= j

Called(type) == type >= FirstType /\ type - FirstType < NTypes

(* The bytes given are looked at.                                           *)
(* Mutant: the buffer is taken for what it is.                              *)
MayHoldPacketAlways(n) == TRUE

MayHoldPacket(n) == n <= MAX_SLFIP_PACKET

(* All of the packet at h has come.                                         *)
(* Mutant: and a byte more.                                                 *)
HasComeAndMore(h, add, n) == add > 0 /\ add + h + 3 < n

HasCome(h, add, n) == add > 0 /\ add + h + 2 < n

(* Mutant: it is not compared.                                              *)
ChecksumFitsAny(data, h, add) == TRUE

ChecksumFits(data, h, add) ==
  SLComputeFIPChecksum(SubSeq(data, h + 4, h + add + 2)) = At(data, h + 2 + add)

(* The packets found from each place on, and the number of bytes left over. *)
Parses(data) ==
  LET n == Len(data)
      parse[i \in 0 .. n] ==
        LET h     == NextHeader(data, i)
            add   == At(data, h + 2)
            Found == [type |-> At(data, h + 3), data |-> SubSeq(data, h + 5, h + add + 2)]
            After == parse[h + 3 + add]
        IN IF i >= n - 4 \/ h >= n - 4   THEN [calls |-> << >>, left |-> n - h]
           ELSE IF ~MayHoldPacket(n)           THEN parse[h + 2]
           ELSE IF ~HasCome(h, add, n)         THEN [calls |-> << >>, left |-> n - h]
           ELSE IF ~ChecksumFits(data, h, add) THEN parse[h + 2]
           ELSE IF Called(Found.type)          THEN [After EXCEPT !.calls = <<Found>> \o @]
           ELSE After
  IN parse

TooFew(data) == Len(data) < 4

(* Fewer than four bytes are not kept.                                      *)
SLParsePackets(data) ==
  IF TooFew(data) THEN [calls |-> << >>, left |-> 0] ELSE Parses(data)[0]

------------------------------------------------------------------------------
LinkInit ==
  /\ \E p \in Plans : reader = p.reader /\ script = p.script
  /\ sent = << >> /\ hits = {} /\ torn = FALSE /\ line = << >>
  /\ pc = "header" /\ len = 0 /\ rest = << >> /\ dropped = {} /\ handled = << >>

(* What becomes of a packet on the line: nothing, or one byte of it is      *)
(* changed or lost.                                                         *)
Arrives(bytes) ==
  \/ line' = line \o bytes /\ UNCHANGED <<hits, torn>>
  \/ /\ Cardinality(hits) < MaxHits /\ Len(bytes) <= MaxHitLen
     /\ hits' = hits \cup {Len(sent')}
     /\ \E i \in DOMAIN bytes :
          \/ \E v \in HitValues \ {bytes[i]} :
               line' = line \o [bytes EXCEPT ![i] = v] /\ torn' = (torn \/ i <= 3)
          \/ line' = line \o (SubSeq(bytes, 1, i - 1) \o SubSeq(bytes, i + 1, Len(bytes))) /\ torn' = TRUE

(* A packer and WriteFIP.                                                   *)
Send(fill) ==
  /\ script # << >> /\ script' = Tail(script)
  /\ sent' = Append(sent, [row |-> Head(script), fill |-> fill])
  /\ Arrives(Pack(Head(script), fill))
  /\ UNCHANGED <<reader, pc, len, rest, dropped, handled>>

(* Read: without a timeout it waits for all n bytes; with one it returns    *)
(* what came in 2 ms, which may be nothing or a part.                       *)
Read(n, got) ==
  /\ reader # "batch"
  /\ got <= n /\ got <= Len(line)
  /\ reader = "blocking" => got = n
  /\ line' = SubSeq(line, got + 1, Len(line))

Goto(next) == pc' = next /\ UNCHANGED <<reader, script, sent, hits, torn, rest, dropped>>

(* What to read after two bytes; the second may be the first of a header.   *)
(* Mutant: it may not.                                                      *)
AfterHeaderInPairs(a, b) == IF a = HeaderByte1 /\ b = HeaderByte2 THEN "length" ELSE "header"

AfterHeader(a, b) ==
  IF a = HeaderByte1 /\ b = HeaderByte2 THEN "length"
  ELSE IF b = HeaderByte1 THEN "resync" ELSE "header"

ReadHeader(got) ==
  /\ pc = "header" /\ Read(2, got)
  /\ Goto(IF got < 2 THEN "header" ELSE AfterHeader(line[1], line[2]))
  /\ UNCHANGED <<len, handled>>

ReadResync(got) ==
  /\ pc = "resync" /\ Read(1, got)
  /\ Goto(IF got = 1 /\ line[1] = HeaderByte2 THEN "length" ELSE "header")
  /\ UNCHANGED <<len, handled>>

(* A read of nothing passes the test n < 0 and leaves the old length.       *)
ReadLength(got) ==
  /\ pc = "length" /\ Read(1, got)
  /\ len' = IF got = 1 THEN line[1] ELSE len
  /\ Goto("body")
  /\ UNCHANGED handled

(* At most MAX_SLFIP_PAYLOAD bytes are read; a complete packet goes to      *)
(* SLParsePackets.                                                          *)
ReadBody(got) ==
  /\ pc = "body" /\ Read(IF len < MAX_SLFIP_PAYLOAD THEN len ELSE MAX_SLFIP_PAYLOAD, got)
  /\ handled' = IF got # len THEN handled
                ELSE handled \o SLParsePackets(<<HeaderByte1, HeaderByte2, len>>
                                               \o SubSeq(line, 1, got)).calls
  /\ Goto("header")
  /\ UNCHANGED len

(* The bytes of the packets between j and i.                                *)
Between(j, i) ==
  LET size[k \in j .. i - 1] == IF k = j THEN 0 ELSE size[k - 1] + sent[k].row.data + 5
  IN size[i - 1]

(* The packets that have bytes among the last n before the last m of what   *)
(* was sent, if none was lost on the line.                                  *)
WithBytesIn(n, m) ==
  LET last == Between(0, Len(sent) + 1) - m
  IN {i \in DOMAIN sent : Between(0, i) < last /\ Between(0, i + 1) > last - n}

(* SLParsePackets on the bytes kept and the next k bytes of the line.       *)
ParseBatch(k) ==
  /\ reader = "batch"
  /\ k \in 1 .. Len(line)
  /\ LET data   == rest \o SubSeq(line, 1, k)
         result == SLParsePackets(data)
     IN /\ rest' = SubSeq(data, Len(data) - result.left + 1, Len(data))
        /\ handled' = handled \o result.calls
        /\ dropped' = IF TooFew(data) THEN dropped \cup WithBytesIn(Len(data), Len(line) - k)
                      ELSE dropped
  /\ line' = SubSeq(line, k + 1, Len(line))
  /\ UNCHANGED <<reader, script, sent, hits, torn, pc, len>>

LinkNext ==
  \/ \E fill \in Fills : Send(fill)
  \/ \E got \in {0, 1, 2} : ReadHeader(got)
  \/ \E got \in {0, 1} : ReadResync(got) \/ ReadLength(got)
  \/ \E got \in {0, 1, len, MAX_SLFIP_PAYLOAD} : ReadBody(got)
  \/ \E k \in Chunks \cup {Len(line)} : ParseBatch(k)

LinkSpec == LinkInit /\ [][LinkNext]_linkVars

------------------------------------------------------------------------------
(* What SLParsePackets hands back to keep fits a buffer for one packet.     *)
LinkTypeOK ==
  /\ reader \in {"blocking", "timed", "batch"}
  /\ script \in Seq(Row) /\ sent \in Seq([row : Row, fill : Fills])
  /\ hits \subseteq DOMAIN sent /\ torn \in BOOLEAN
  /\ pc \in {"header", "resync", "length", "body"}
  /\ len \in 0 .. 255 /\ line \in Seq(0 .. 255) /\ rest \in Seq(0 .. 255)
  /\ Len(rest) <= MAX_SLFIP_PACKET /\ dropped \subseteq DOMAIN sent
  /\ handled \in Seq([type : 0 .. 255, data : Seq(0 .. 255)])

(* What a packer was asked to say, and what the handlers were told.         *)
Packed(i)   == [type |-> sent[i].row.type, data |-> Data(sent[i].row.data, sent[i].fill)]
PackedOf(S) == [h \in {Packed(i) : i \in S} |-> Cardinality({i \in S : Packed(i) = h})]
Told(h)     == Cardinality({k \in DOMAIN handled : handled[k] = h})

(* The packets that a reader of lengths of one byte can take, if nothing    *)
(* happens to them.                                                         *)
Sound(row) == /\ row.len = row.data + 2 /\ row.second = HeaderByte2
              /\ row.len <= MAX_SLFIP_PAYLOAD
Intact(i) == Sound(sent[i].row) /\ i \notin hits

(* A packet shorter than it says takes in the bytes of the next.            *)
Underpacked == \E i \in DOMAIN sent : sent[i].row.len > sent[i].row.data + 2

AtRest == IF reader = "batch" THEN line = << >> ELSE pc = "header" /\ Len(line) < 2

(* ReadFIP without a timeout hands over every packet, each once and in the  *)
(* order of packing, whatever their fields look like, as long as the        *)
(* packers are sound and nothing happens on the line.                       *)
Undisturbed ==
  /\ reader = "blocking" /\ hits = {}
  /\ \A i \in DOMAIN sent : Sound(sent[i].row) /\ Called(sent[i].row.type)

HandledInOrder ==
  Undisturbed =>
    /\ Len(handled) <= Len(sent)
    /\ \A k \in DOMAIN handled : handled[k] = Packed(k)
    /\ AtRest => Len(handled) = Len(sent)

(* A handler is called with what was packed and no more often, although     *)
(* fields may look like headers and a byte of the fields may be damaged.    *)
(* The checksum cannot promise it when the framing itself is hurt.  A       *)
(* packet inside the fields of one that is thrown away is taken for real    *)
(* (simpleslfipport.cpp 49).                                                *)
Embedded == [type |-> Inner[4], data |-> << >>]

HandledWasSent ==
  ~torn /\ ~Underpacked =>
    \A k \in DOMAIN handled :
      \/ /\ handled[k] \in {Packed(i) : i \in DOMAIN sent}
         /\ Told(handled[k]) <= PackedOf(DOMAIN sent)[handled[k]]
      \/ /\ handled[k] = Embedded
         /\ \E i \in DOMAIN sent : sent[i].fill = "packet"
                                  /\ \/ reader = "timed"
                                     \/ \E j \in 1 .. i : ~Intact(j) \/ j \in dropped

(* ReadFIP finds the packets again: once a packet's worth of good bytes has *)
(* passed since the last bad one every good packet is handled.  Fields that *)
(* look like headers may keep it out of step for longer.                    *)
InStep(i) ==
  /\ Intact(i)
  /\ \A j \in 1 .. i - 1 : Intact(j) \/ Between(j, i) >= MAX_SLFIP_PAYLOAD
  /\ (\A j \in DOMAIN sent : Intact(j)) \/ (\A j \in DOMAIN sent : sent[j].fill = "zero")

GoodPacketsAreHandled ==
  AtRest /\ reader = "blocking" =>
    LET due == PackedOf({i \in DOMAIN sent : InStep(i)})
    IN \A h \in DOMAIN due : due[h] <= Told(h)

(* SLParsePackets, as long as everything fits one packet, handles every     *)
(* packet that has no bytes in a call of fewer than four: those are not     *)
(* kept (simpleslfipport.cpp 13).  What is left of a packet cut so may keep *)
(* it from the next ones if fields look like headers.                       *)
SmallBatchesAreHandled ==
  AtRest /\ reader = "batch" /\ (\A i \in DOMAIN sent : Intact(i))
    /\ Between(0, Len(sent) + 1) <= MAX_SLFIP_PACKET
    /\ (dropped = {} \/ \A i \in DOMAIN sent : sent[i].fill = "zero") =>
      LET due == PackedOf(DOMAIN sent \ dropped)
      IN \A h \in DOMAIN due : due[h] <= Told(h)

(* What ReadFIP without a timeout, and SLParsePackets given enough at a     *)
(* time, cannot miss is handled.                                            *)
SentIsHandled == GoodPacketsAreHandled /\ SmallBatchesAreHandled

==============================================================================
