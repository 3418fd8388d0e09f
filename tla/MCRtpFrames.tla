----------------------------- MODULE MCRtpFrames ------------------------------
(* One RTP session, two buffers, frames of at most three packets.            *)
EXTENDS RtpFrames, TLC

Symmetry == Permutations(Buffers)
===============================================================================
