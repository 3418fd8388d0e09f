------------------------------ MODULE FipPackets ------------------------------
(***************************************************************************)
(* The packets of the SightLine protocol (FIP), as slfip.cpp packs them.   *)
(*                                                                         *)
(*     0x51 0xAC  length  type  data ...  checksum                         *)
(*                                                                         *)
(* Every packer writes its length as a constant or an expression and then, *)
(* one statement per byte, its fields.  A row P(type, len, data) is one    *)
(* packer: the length it declares and the bytes it writes between the type *)
(* and the checksum, as the sum of the widths of its fields.  The length   *)
(* counts type, data and checksum, so a row is sound when len = data + 2.  *)
(* Packers that only call another one have the row of the one they call.   *)
(***************************************************************************)
EXTENDS Integers

CONSTANTS
  ArgLens,     (* lengths of the strings and blocks handed to the packers  *)
  TrackCounts  (* tracks in a telemetry packet                             *)

ASSUME FipAssumption ==
  /\ ArgLens \subseteq Nat
  /\ TrackCounts \subseteq 0 .. 127

HeaderByte1    == \h51
HeaderByte2    == \hAC
HeaderByteMTI2 == \hAE

MAX_SLFIP_PACKET     == 130
MAX_SLFIP_PAYLOAD    == 126
MAX_SLFIPEX_PAYLOAD  == 16384 - 5
MAX_SLFIPEX_BYTEMASK == 128
MAX_TEXT_LEN         == 64
SL_MAX_NUM_ALIGNMENTS == 5

------------------------------------------------------------------------------
(* The length field: one byte, or with fipEx seven bits and the mark 0x80   *)
(* followed by the rest.  The bytes are u8.                                 *)
SlFipSetLen(payloadLen, fipEx) ==
  IF fipEx /\ payloadLen >= MAX_SLFIPEX_BYTEMASK
    THEN <<(payloadLen % 128) + MAX_SLFIPEX_BYTEMASK, (payloadLen \div 128) % 256>>
    ELSE <<payloadLen % 256>>

(* The length that the bytes b of a length field stand for, and the bytes   *)
(* of the field beyond the first.                                           *)
SlFipGetPktLen(b, fipEx) ==
  IF fipEx /\ b[1] >= MAX_SLFIPEX_BYTEMASK
    THEN [len |-> b[1] - MAX_SLFIPEX_BYTEMASK + 128 * b[2], extra |-> 1]
    ELSE [len |-> b[1], extra |-> 0]

------------------------------------------------------------------------------
P(type, len, data) ==
  [second |-> HeaderByte2, type |-> type, len |-> len, data |-> data, ex |-> FALSE]

(* The packers of long packets: SlFipSetLen(..., true).                     *)
PEx(type, len, data) ==
  [second |-> HeaderByte2, type |-> type, len |-> len, data |-> data, ex |-> TRUE]

Longer(rows, n) ==
  {[second |-> r.second, type |-> r.type, len |-> r.len + n, data |-> r.data + n,
    ex |-> r.ex] : r \in rows}

(* addAuxTelem: with SL_COORD_REPORT_AUX_DATA a time stamp and a frame      *)
(* index, twelve bytes, follow the fields.                                  *)
MaybeAux(rows) == rows \cup Longer(rows, 8 + 4)

(* Packers with a dispId add it, two bytes, when it is not 0.               *)
MaybeDisplay(rows) == rows \cup Longer(rows, 2)

RequestPackers ==
  {P(t, 2, 0) : t \in {\h03, \h04, \h07, \h0D, \h0F, \h11, \h19, \h1B, \h20, \h22,
                       \h24, \h25, \h31}}
  \cup {P(\h28, 3, 1), P(\h28, 4, 1 + 1), P(\h28, 5, 1 + 2), P(\h28, 6, 1 + 1 + 2)}
  \cup {P(\h28, 3 + n, 1 + n) : n \in {k \in ArgLens : k <= MAX_SLFIP_PAYLOAD}}
  \cup {P(\h01, 3, 1), P(\h01, 11, 1 + 8)}

StabilizationPackers ==
  {P(\h02, 6, 4), P(\h02, 7, 4 + 1), P(\h02, 8, 4 + 1 + 1),
   P(\h63, 4, 2), P(\h64, 12, 1 + 1 + 4 + 2 + 1 + 1), P(\h03, 3, 1)}

TrackingPackers ==
  {P(\h06, 8, 1 + 1 + 2 + 1 + 1), P(\h06, 9, 1 + 1 + 2 + 1 + 1 + 1),
   P(\h05, 9, 2 + 2 + 1 + 1 + 1), P(\h05, 10, 2 + 2 + 1 + 1 + 1 + 1),
   P(\h08, 7, 2 + 2 + 1), P(\h09, 5, 3), P(\h0A, 5, 3), P(\h0B, 5, 1 + 2)}

TrackingParameterPackers ==
  {P(\h0B, 6, 1 + 2 + 1), P(\h0C, 9, 4 + 2 + 1), P(\h0C, 10, 4 + 2 + 1 + 1),
   P(\h0D, 3, 1), P(\h0E, 10, 2 + 6), P(\h0E, 11, 2 + 6 + 1), P(\h0F, 3, 1)}

(* The second row of 0x18, SLFIPSetADCParameters with a cameraIndex, keeps  *)
(* the length of the first.                                                 *)
VideoParameterPackers ==
  {P(\h10, 9, 7), P(\h10, 10, 7 + 1), P(\h11, 3, 1),
   P(\h12, 6, 4), P(\h12, 7, 4 + 1),
   P(\h18, 12, 10), P(\h18, 12, 10 + 1)}

DisplayPackers ==
  {P(\h70, 12, 1 + 1 + 2 + 2 + 4), PEx(\h72, 256 * 3 + 2, 256 * 3),
   P(\h16, 13, 2 + 2 + 1 + 1 + 1 + 2 + 2), P(\h16, 14, 2 + 2 + 1 + 1 + 1 + 2 + 2 + 1),
   P(\h3A, 3, 1), P(\h5C, 8, 1 + 2 + 2 + 1)}

(* setMultipleAlignment declares five alignments, however many it packs.    *)
DetectionPackers ==
  {P(\h74, 28, 1 + 5 * n) : n \in 0 .. SL_MAX_NUM_ALIGNMENTS}
  \cup {P(\h76, 40, 38), P(\h76, 41, 38 + 1)}

RegionPackers == {P(\h7C, 19, 1 + 8 * 2), P(\h7C, 20, 1 + 8 * 2 + 1)}

PortPackers ==
  {P(\h21, 6, 4), P(\h21, 7, 4 + 1), P(\h22, 3, 1), P(\h3E, 20, 8 + 2 + 4 + 2 + 2),
   P(\h3F, 3, 1), P(\h40, 17, 4 + 3 + 4 + 1 + 1 + 2)}
  \cup {P(\h3D, n + 3, 1 + n) : n \in {k \in ArgLens : k <= MAX_SLFIP_PAYLOAD - 3}}

PositionPackers == {P(\h50, 10, 8)} \cup MaybeAux({P(\h43, 26, 6 * 2 + 2 + 2 + 4 + 2 + 2)})

TrackPackers ==
  MaybeAux({PEx(\h51, 15 * n + 4, 2 + 15 * n) : n \in TrackCounts}
           \cup {PEx(\h78, 7 * n + 4, 2 + 7 * n) : n \in TrackCounts})

FocusPackers == {P(\h55, 19, 1 + 4 + 8 + 4)}

NetworkPackers ==
  {P(\h31, 3, 1), P(\h1C, 25, 1 + 3 * 4 + 2 + 2 + 1 + 1 + 2 + 2), P(\h1D, 3, 1)}
  \cup {PEx(\h6A, 1 + n + 1, n) : n \in ArgLens}
  \cup MaybeDisplay({P(\h29, 9, 1 + 4 + 2), P(\h1A, 6, 4)})

(* setVideoMode3000 declares the five bytes of camDisp even when it is null *)
(* (SLFIPSetVideoMode_2_21_0) and they are left out.                        *)
VideoModePackers ==
  {P(\h1F, 16, 14), P(\h1F, 24, 4 + 4 + 2 + 4 + 5 + 3), P(\h1F, 24, 4 + 4 + 2 + 4 + 3),
   P(\h5B, 3, 1)}

StitchPackers ==
  {P(\h2B, 10, 8), P(\h2C, 2, 0), P(\h2D, 14, 8 + 2 + 2), P(\h2D, 15, 8 + 2 + 2 + 1),
   P(\h2E, 2, 0), P(\h2E, 3, 1), P(\h2F, 18, 16)}

TrackSelectPackers ==
  {P(\h30, 2, 0), P(\h33, 2, 0), P(\h33, 3, 1), P(\h34, 2, 0), P(\h32, 2, 0), P(\h32, 3, 1),
   P(\h3C, 2, 0), P(\h3C, 3, 1), P(\h17, 4, 2), P(\h54, 14, 8 + 2 + 2)}

(* getAcqParams, which nothing calls, is left out.                          *)
AcquisitionPackers ==
  {P(\h37, 25 + 8 + n + 1, 2 + 4 + 1 + 4 + 2 + 2 + 8 + 1 + n + 8) : n \in ArgLens}
  \cup {P(\h38, 3, 1), P(\h7B, 8, 3 * 2)}

(* The directory stops before a name that would make the packet too long.   *)
CardPackers ==
  {P(\h1E, 11 + n, 4 + 2 + 3 + n) : n \in ArgLens}
  \cup {P(\h59, 8 + n, 6 + n) : n \in {k \in ArgLens : 8 + k < MAX_SLFIP_PAYLOAD}}
  \cup {PEx(\h59, 1 + 6 + n + 1, 6 + n) : n \in ArgLens}
  \cup {P(\h5A, n + 2, n) : n \in ArgLens}
  \cup {P(\h58, 11, 1 + 4 + 4)}

MetadataPackers ==
  {P(\h79, 10, 4 + 4), P(\h26, 7, 2 + 3)}
  \cup MaybeDisplay({P(\h13, 44, 2 + 8 + 3 * 2 + 4 + 4 + 3 * 2 + 3 * 4)}
                    \cup {P(\h14, 4 + n, 2 + n) : n \in ArgLens})

(* The frame values of setMFV, setMFV2 and setMFV3.                         *)
FrameValuePackers ==
  LET MFV  == 4 + 4 + 2 + 2 + 4
      MFV2 == 4 + 4 + 2 + 1 + 1
      MFV3 == 8 * 2
  IN {P(\h15, 20, 2 + MFV), P(\h15, 21, 2 + MFV + 1), P(\h15, 33, 2 + MFV + 1 + MFV2)}
     \cup MaybeDisplay({P(\h15, 49, 2 + MFV + 1 + MFV2 + MFV3), P(\h62, 11, 8 + 1)})

(* The object's text replaces the declared length when it is short enough,  *)
(* which for a KLV field is one less.                                       *)
DrawPackers ==
  {P(\h2A, 8, 3 * 2), P(\h2A, 9, 3 * 2 + 1)}
  \cup {P(\h3B, 15 + n, 4 + 4 * 2 + 1 + n) : n \in {0} \cup {k \in ArgLens : k <= MAX_TEXT_LEN}}

(* SLFIPMTISetParameters starts with the header of another protocol.        *)
SnapshotPackers ==
  {[P(1, 9, 7) EXCEPT !.second = HeaderByteMTI2], P(\h69, 3, 1), P(\h6A, 4, 2)}
  \cup MaybeDisplay({P(\h23, 11, 4 + 5)})
  \cup {P(\h5E, 15 + u + p, 5 + 4 + 2 + 1 + u + 1 + p) : u, p \in ArgLens}
  \cup {P(\h60, 7 + n, 2 + 1 + n + 1 + 1) : n \in ArgLens}

(* A warning is chopped to MAX_SLFIPEX_BYTEMASK - 5 bytes with its 0.       *)
LensPackers ==
  {PEx(\h61, n + 1 + 2 + 1, 2 + n) : n \in ArgLens}
  \cup {P(\h6C, 3 + n, 1 + n) : n \in ArgLens}
  \cup {P(\h6E, 12, 4 + 2 + 4), P(\h7E, 11, 1 + 8), P(\h7F, 4, 2)}
  \cup {P(\h86, 1 + 2 + n + 1, 2 + n) : n \in {k \in ArgLens \ {0} :
                                                  k <= MAX_SLFIPEX_BYTEMASK - 5}}
  \cup {PEx(\h88, 1 + 2 + n + 1, 2 + n) : n \in ArgLens}

StatusPackers ==
  {P(\h87, 20, 8 + 2 + 4 + 4), P(\h80, 8, 2 + 4),
   P(\h81, 30, 1 + 2 + 4 + 4 + 3 + 2 + 4 + 4 * 2),
   P(\h81, 31, 1 + 2 + 4 + 4 + 3 + 2 + 4 + 4 * 2 + 1)}

LandingPackers ==
  MaybeAux({P(\h83, 36, 1 + 3 * 2 + 4 + 1 + 3 * 2 + 4 * 2 + 1 + 1 + 2 + 4)})

SystemPackers ==
  {P(\h89, n + 5, 1 + n + 2) : n \in ArgLens}
  \cup {P(\h8A, 7, 1 + 4), P(\h91, 7, 5), P(\h90, 4, 2)}
  \cup {P(\h8F, 6 + a + b + c, 1 + 1 + a + 1 + b + 1 + c) : a, b, c \in ArgLens}
  \cup {P(\h92, 8 + 4 * n + 2, 4 + 4 + 4 * n) : n \in 1 .. 4}
  \cup {P(\h85, 6 + n, 4 + n) : n \in ArgLens}

Packers ==
  UNION {RequestPackers, StabilizationPackers, TrackingPackers, TrackingParameterPackers,
         VideoParameterPackers, DisplayPackers, DetectionPackers, RegionPackers, PortPackers,
         PositionPackers, TrackPackers, FocusPackers, NetworkPackers, VideoModePackers,
         StitchPackers, TrackSelectPackers, AcquisitionPackers, CardPackers, MetadataPackers,
         FrameValuePackers, DrawPackers, SnapshotPackers, LensPackers, StatusPackers,
         LandingPackers, SystemPackers}

==============================================================================
