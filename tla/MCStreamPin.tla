----------------------------- MODULE MCStreamPin ------------------------------
(* Constants for StreamPin.                                                 *)
EXTENDS StreamPin
==============================================================================
