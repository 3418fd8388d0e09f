----------------------------- MODULE KlvElements ------------------------------
(***************************************************************************)
(* The KLV decoder (SLAKlvDecode.cpp, SLAKlv.h): a packet is read into     *)
(* klvRecent, element by element, and what it holds is copied into klv.    *)
(*                                                                         *)
(* A KLVData is a function from keys to values.  The key of an element of  *)
(* the set itself is <<tag>>, the key of an element of a nested set        *)
(* <<48, tag>> (security) or <<74, tag>> (moving targets).  A number is    *)
(* the sequence of its bytes, the highest first; a field has as many as    *)
(* its type.  An element of a packet is its tag and its bytes, or the      *)
(* elements of the nested set; its length is that of its bytes.  A target  *)
(* of a series counts as one byte.  Packets are whole, their lengths and   *)
(* the packs of their targets are well formed, and no text is longer than  *)
(* KLV_MAX_BYTE_ARRAY.                                                     *)
(***************************************************************************)
EXTENDS Integers, Sequences

CONSTANTS
  Keys,          (* the keys of this KLVData, any subset of AllKeys         *)
  Wanted,        (* the checksum that a packet should carry                 *)
  KLV_MAX_NUMBER_OF_TARGETS   (* 110                                        *)

(* The members of KLVData, KLVSecurityLocalSet and KLVVmtiLocalSet by type. *)
Members(set, tags) == {<<set, t>> : t \in tags}

Words1 == {<<t>> : t \in {34, 63, 77}} \cup Members(48, {1, 2, 12})
Words2 == {<<t>> : t \in 6 .. 9 \cup 26 .. 33 \cup {43, 44, 47, 55, 56, 61, 62, 65}
                           \cup 50 .. 52 \cup {79, 80}}
          \cup Members(48, {22}) \cup Members(74, {4, 6, 8, 9})
Words4 == {<<t>> : t \in {5} \cup 13 .. 17 \cup {19} \cup 22 .. 25 \cup 35 .. 42
                           \cup {45, 46, 49, 53, 54, 58, 60, 64} \cup 67 .. 69
                           \cup {71, 75, 76, 78} \cup 82 .. 93}
Words8 == {<<t>> : t \in {2, 18, 20, 21, 57, 72}}
Blocks == {<<t>> : t \in {3, 4, 59, 70, 73, 81, 94, 95, 100} \cup 10 .. 12}
          \cup Members(48, {3, 4, 5, 6, 13})
Targets == <<74, 101>>

Numbers == Words1 \cup Words2 \cup Words4 \cup Words8
AllKeys == Numbers \cup Blocks \cup {Targets}

NumTargets == <<74, 6>>

ASSUME KlvAssumption ==
  /\ Keys \subseteq AllKeys /\ (Targets \in Keys => NumTargets \in Keys)
  /\ KLV_MAX_NUMBER_OF_TARGETS \in 0 .. 255

Size(key) == CASE key \in Words1 -> 1 [] key \in Words2 -> 2
               [] key \in Words4 -> 4 [] key \in Words8 -> 8

(* A KLVData: of text and blocks the bytes, of numbers as many as the type.  *)
Bytes == 0 .. 255
KLVData ==
  {data \in [Keys -> Seq(Bytes)] : \A key \in Keys \cap Numbers : Len(data[key]) = Size(key)}

(* KLVUnknown: 0, the lowest or the highest number of the type, though not  *)
(* always that of the member's type.                                        *)
Filled(size, top, rest) == [i \in 1 .. size |-> IF i = 1 THEN top ELSE rest]
UnknownZero == {<<2>>, <<72>>} \cup Members(48, {1, 2, 12}) \cup Members(74, {4, 6, 8, 9})
UnknownLowest == {<<t>> : t \in {6, 7, 13, 14, 19, 23, 24} \cup 26 .. 33 \cup 39 .. 41
                                 \cup 50 .. 52 \cup {67, 68, 79, 80} \cup 82 .. 93}

Unknown(key) ==
  CASE key \in Blocks \cup {Targets} -> << >>
    [] key \in UnknownZero           -> Filled(Size(key), 0, 0)
    [] key \in UnknownLowest         -> Filled(Size(key), 128, 0)
    [] key \in {<<58>>, <<60>>}      -> <<0, 0, 255, 255>>
    [] key = <<61>>                  -> <<0, 255>>
    [] OTHER                         -> Filled(Size(key), 255, 255)

KLVUnknown == [key \in Keys |-> Unknown(key)]

-------------------------------------------------------------------------------
(* A shorter number fills the low bytes.                                     *)
Extended(size, wire) ==
  [i \in 1 .. size |-> IF i <= size - Len(wire) THEN 0 ELSE wire[i - (size - Len(wire))]]

(* ReadEl, and ReadV for the moving targets, take these lengths.             *)
Lengths(key) ==
  IF key[1] = 74 THEN 0 .. Size(key) ELSE {1, 2, 4, 8} \cap 1 .. Size(key)

(* Of OutsideAirTemp only the low byte is written.                           *)
Takes(key, wire) ==
  CASE key = <<39>>     -> Len(wire) = 1
    [] key \in Blocks   -> TRUE
    [] key = Targets    -> Len(wire) <= KLV_MAX_NUMBER_OF_TARGETS
    [] OTHER            -> Len(wire) \in Lengths(key)

Value(old, key, wire) ==
  CASE key = <<39>>               -> SubSeq(old, 1, 3) \o wire
    [] key \in Blocks             -> wire
    [] key = Targets              -> wire \o SubSeq(old, Len(wire) + 1, Len(old))
    [] OTHER                      -> Extended(Size(key), wire)

(* A series of targets sets their number, too.                               *)
Stored(data, key, wire) ==
  IF key \notin Keys THEN data
  ELSE LET new == [data EXCEPT ![key] = Value(@, key, wire)]
       IN IF key = Targets THEN [new EXCEPT ![NumTargets] = <<0, Len(wire)>>] ELSE new

(* A series of more targets than there is room for is refused, but only     *)
(* when the room is filled.                                                 *)
Refused(data, key, wire) ==
  IF key = Targets THEN Stored(data, key, SubSeq(wire, 1, KLV_MAX_NUMBER_OF_TARGETS))
  ELSE data

(* Reading goes on after an element that was taken, or is of an unknown key. *)
Reading(ok, data) == [ok |-> ok, data |-> data]

ReadInner(set, reading, element) ==
  LET key == <<set, element.tag>>
  IN IF ~reading.ok \/ key \notin AllKeys THEN reading
     ELSE IF Takes(key, element.wire) THEN Reading(TRUE, Stored(reading.data, key, element.wire))
     ELSE Reading(FALSE, Refused(reading.data, key, element.wire))

(* What has been read after each element of a nested set.                    *)
InnerReadings(set, reading, elements) ==
  LET after[n \in 0 .. Len(elements)] ==
        IF n = 0 THEN reading ELSE ReadInner(set, after[n - 1], elements[n])
  IN after

(* ReadElement                                                               *)
ReadElement(reading, element) ==
  LET key == <<element.tag>>
  IN IF ~reading.ok THEN reading
     ELSE IF element.tag = 1 THEN Reading(element.wire = Wanted, reading.data)
     ELSE IF element.tag \in {48, 74}
       THEN InnerReadings(element.tag, reading, element.inner)[Len(element.inner)]
     ELSE IF key \notin AllKeys THEN reading
     ELSE Reading(Takes(key, element.wire),
                  IF Takes(key, element.wire) THEN Stored(reading.data, key, element.wire)
                  ELSE reading.data)

Readings(data, elements) ==
  LET after[n \in 0 .. Len(elements)] ==
        IF n = 0 THEN Reading(TRUE, data) ELSE ReadElement(after[n - 1], elements[n])
  IN after

(* ReadKlvElements: it ends at the first element it cannot take.             *)
ReadKlvElements(data, elements) == Readings(data, elements)[Len(elements)]

(* ReadKlvFrame: the universal key stands where the caller says, or it does  *)
(* not touch the data.                                                       *)
ReadKlvFrame(data, packet, bufStartOffset) ==
  IF packet.keyAt = bufStartOffset THEN ReadKlvElements(data, packet.elements)
  ELSE Reading(FALSE, data)

(* Mutant: the unknown values are copied, too.                               *)
SLCopyAllKLV(d, s) == s

(* SLCopyChangedKLV: the values that are not unknown; always the number of   *)
(* targets, and the targets if it is not 0.                                  *)
SLCopyChangedKLV(d, s) ==
  [key \in Keys |->
     IF \/ key # Targets /\ s[key] # Unknown(key)
        \/ key = NumTargets
        \/ key = Targets /\ s[NumTargets] # Unknown(NumTargets)
       THEN s[key] ELSE d[key]]

===============================================================================
