------------------------------ MODULE MCTsDemux -------------------------------
(* One elementary stream, frames of at most two or three packets, a          *)
(* continuity counter of three or four values.                               *)
EXTENDS TsDemux
===============================================================================
