----------------------------- MODULE DecodeFacade -----------------------------
(***************************************************************************)
(* What the application sees: the decode task's metadata, images and       *)
(* statistics (SLADecodeFFMpeg.cpp 628-668, 824-1021) and the callbacks of *)
(* SLADecode (SLADecode.cpp 24-121), which report an image alone or, when  *)
(* the stream has metadata, together with the next metadata.  SetAddress   *)
(* writes two of their variables from the application's thread.            *)
(*                                                                         *)
(* The callbacks run in the decode task: only what SetAddress writes is    *)
(* shared.  The counters are compared with 0, and are flags here.          *)
(***************************************************************************)
EXTENDS KlvElements

CONSTANT Packets   (* the packets that are not video                       *)

Plain    == [tag : Nat, wire : Seq(Bytes)]
Elements == [tag : Nat, wire : Seq(Bytes), inner : Seq(Plain)]

ASSUME PacketsAssumption ==
  Packets \subseteq [keyAt : Nat, elements : Seq(Elements) \ {<< >>}]

VARIABLES
  klv, klvRecent,  (* the KLVData of the decode task                       *)
  task,            (* where the decode task is                             *)
  yuvIm,           (* yuvIm is not NULL                                    *)
  counted,         (* frameCount is not 0                                  *)
  haveKLV,         (* the stream has metadata                              *)
  klvCounted,      (* klvCount is not 0                                    *)
  app,             (* where the application is in SetAddress               *)
  shown,           (* how often the image was reported alone and with KLV  *)
  latest, recent   (* what the accepted packets said, read independently   *)

metadata == <<klv, klvRecent, latest, recent>>
flags    == <<yuvIm, counted, haveKLV, klvCounted>>
vars == <<metadata, flags, task, app, shown>>

Zeros == [key \in Keys |-> IF key \in Blocks \cup {Targets} THEN << >>
                           ELSE Filled(Size(key), 0, 0)]

(* The object is allocated with zeros, which are not the unknown values.    *)
Init ==
  /\ klv = Zeros /\ klvRecent = Zeros /\ latest = Zeros /\ recent = {}
  /\ yuvIm = FALSE /\ counted = FALSE /\ haveKLV = FALSE /\ klvCounted = FALSE
  /\ task = "idle" /\ app = "idle" /\ shown = [alone |-> 0, paired |-> 0]

------------------------------------------------------------------------------
(* What a packet says: its elements with those of the nested sets, and for  *)
(* each key the last of them.  The place of an element is its number in the *)
(* packet and its number in the nested set, or 0.                           *)
Places(elements) ==
  UNION {{<<i, j>> : j \in IF elements[i].tag \in {48, 74}
                            THEN DOMAIN elements[i].inner ELSE {0}} :
           i \in DOMAIN elements}

KeyAt(elements, p) ==
  IF p[2] = 0 THEN <<elements[p[1]].tag>>
  ELSE <<elements[p[1]].tag, elements[p[1]].inner[p[2]].tag>>

WireAt(elements, p) ==
  IF p[2] = 0 THEN elements[p[1]].wire ELSE elements[p[1]].inner[p[2]].wire

NotAfter(p, q) == p[1] < q[1] \/ (p[1] = q[1] /\ p[2] <= q[2])

(* It is good when its checksum and every length are.                       *)
GoodAt(elements, p) ==
  LET key == KeyAt(elements, p)
  IN IF key = <<1>> THEN WireAt(elements, p) = Wanted
     ELSE key \in AllKeys => Takes(key, WireAt(elements, p))

Good(packet) ==
  packet.keyAt \in {0, 5} /\ \A p \in Places(packet.elements) : GoodAt(packet.elements, p)

Said(packet, key) ==
  LET at == {p \in Places(packet.elements) : KeyAt(packet.elements, p) = key}
  IN IF at = {} THEN Unknown(key)
     ELSE Value(Unknown(key), key,
                WireAt(packet.elements, CHOOSE p \in at : \A q \in at : NotAfter(q, p)))

(* A value that is the unknown one of its key is no news.                   *)
News ==
  [packet \in {p \in Packets : Good(p)} |->
     [key \in {k \in Keys : Said(packet, k) # Unknown(k)} |-> Said(packet, key)]]

------------------------------------------------------------------------------
(* TASK_read_frame with a packet that is not video: klvRecent is set to the *)
(* unknown values, and the packet is tried at offset 0, then at 5.          *)
ReadKlv ==
  [packet \in Packets |->
     LET first == ReadKlvFrame(KLVUnknown, packet, 0)
     IN IF first.ok THEN first ELSE ReadKlvFrame(first.data, packet, 5)]

ReadPacket ==
  /\ task = "idle"
  /\ \E packet \in Packets :
       LET read == ReadKlv[packet]
       IN /\ klvRecent' = read.data
          /\ klv' = IF read.ok THEN SLCopyChangedKLV(klv, read.data) ELSE klv
          /\ task' = IF read.ok THEN "haveKlv" ELSE "idle"
          /\ IF packet \in DOMAIN News
               THEN /\ latest' = [key \in Keys |-> IF key \in DOMAIN News[packet]
                                               THEN News[packet][key] ELSE latest[key]]
                    /\ recent' = DOMAIN News[packet]
             ELSE UNCHANGED <<latest, recent>>
  /\ UNCHANGED <<flags, app, shown>>

(* slaKLVCb                                                                 *)
HaveKlv ==
  /\ task = "haveKlv"
  /\ haveKLV' = TRUE /\ task' = "klv"
  /\ UNCHANGED <<metadata, yuvIm, counted, klvCounted, app, shown>>

(* Mutant: only metadata that comes with an image is counted.               *)
ReportKlvWithImage ==
  /\ task = "klv"
  /\ shown' = IF counted /\ yuvIm THEN [shown EXCEPT !.paired = @ + 1] ELSE shown
  /\ klvCounted' = (klvCounted \/ (counted /\ yuvIm)) /\ yuvIm' = FALSE
  /\ task' = "idle"
  /\ UNCHANGED <<metadata, counted, haveKLV, app>>

ReportKlv ==
  /\ task = "klv"
  /\ shown' = IF counted /\ yuvIm THEN [shown EXCEPT !.paired = @ + 1] ELSE shown
  /\ klvCounted' = TRUE /\ yuvIm' = FALSE
  /\ task' = "idle"
  /\ UNCHANGED <<metadata, counted, haveKLV, app>>

(* TASK_read_frame_finished: statistics once a second, then the image.      *)
(* TASK_timeout: statistics, then no image.                                 *)
FinishFrame ==
  /\ task = "idle"
  /\ task' \in {"image", "stats", "timeout"}
  /\ UNCHANGED <<metadata, flags, app, shown>>

(* slaStatsCb                                                               *)
ReportStats ==
  /\ task \in {"stats", "timeout"}
  /\ haveKLV' = (haveKLV /\ ~klvCounted) /\ klvCounted' = FALSE
  /\ task' = IF task = "stats" THEN "image" ELSE "idle"
  /\ UNCHANGED <<metadata, yuvIm, counted, app, shown>>

(* slaCB with an image, which is reported alone if there is no metadata.    *)
ReportImage ==
  /\ task = "image"
  /\ yuvIm' = TRUE
  /\ shown' = [alone |-> IF haveKLV THEN 0 ELSE 1, paired |-> 0]
  /\ task' = "count"
  /\ UNCHANGED <<metadata, counted, haveKLV, klvCounted, app>>

CountImage ==
  /\ task = "count"
  /\ counted' = TRUE /\ task' = "idle"
  /\ UNCHANGED <<metadata, yuvIm, haveKLV, klvCounted, app, shown>>

Task == ReadPacket \/ HaveKlv \/ ReportKlv \/ FinishFrame \/ ReportStats
        \/ ReportImage \/ CountImage

(* SetAddress, before it sends the command: haveKLV, then frameCount.       *)
ForgetKlv ==
  /\ app = "idle"
  /\ haveKLV' = FALSE /\ app' = "frameCount"
  /\ UNCHANGED <<metadata, yuvIm, counted, klvCounted, task, shown>>

ForgetFrames ==
  /\ app = "frameCount"
  /\ counted' = FALSE /\ app' = "idle"
  /\ UNCHANGED <<metadata, yuvIm, haveKLV, klvCounted, task, shown>>

Next == Task \/ ForgetKlv \/ ForgetFrames

Spec == Init /\ [][Next]_vars

(* The decode task goes on.                                                 *)
FairSpec == Spec /\ WF_vars(Task)

------------------------------------------------------------------------------
TypeOK ==
  /\ {klv, klvRecent} \subseteq KLVData
  /\ task \in {"idle", "haveKlv", "klv", "image", "stats", "timeout", "count"}
  /\ flags \in BOOLEAN \X BOOLEAN \X BOOLEAN \X BOOLEAN
  /\ app \in {"idle", "frameCount"}
  /\ shown \in [alone : 0 .. 1, paired : 0 .. 1]

(* Of OutsideAirTemp only the low byte is of the packet; the number of      *)
(* targets is copied also when it is unknown, and the targets go by it.     *)
Compared == Keys \ {<<39>>, NumTargets, Targets}

(* klv holds for each key what the last good packet that mentions it says,  *)
(* whatever came in packets that were rejected, and the zeros of the        *)
(* allocation before: "Most current (including values unchanged on this     *)
(* cycle) data values" (SLADecode.h).                                       *)
KlvIsLatest == \A key \in Compared : klv[key] = latest[key]

(* While metadata is reported klvRecent holds what its packet says and      *)
(* nothing else: "non-received data elements marked invalid".               *)
RecentIsThisFrame ==
  task \in {"haveKlv", "klv"} =>
    \A key \in Compared : klvRecent[key] = IF key \in recent THEN latest[key] ELSE Unknown(key)

KlvOK == TypeOK /\ KlvIsLatest /\ RecentIsThisFrame

(* An image is reported with metadata once at most (in TypeOK), and when    *)
(* the metadata of a stream ends, or after SetAddress from it, every image  *)
(* is reported alone again, from the next statistics on.                    *)
ImagesResume ==
  <>[](task \notin {"haveKlv", "klv"}) /\ []<>(task \in {"stats", "timeout"})
    => <>[](task = "count" => shown.alone = 1)

==============================================================================
