----------------------------- MODULE MCDecodeTask -----------------------------
(* A decoder of a network stream, of an MTS file or of a file, with a        *)
(* command mailbox of two or three places.                                   *)
EXTENDS DecodeTask
===============================================================================
