---------------------------- MODULE MCUdpReceiver -----------------------------
(* Small receivers: a socket or a file, two or three buffers, one or two     *)
(* savers.                                                                   *)
EXTENDS UdpReceiver, TLC

Symmetry == Permutations(Buffers) \union Permutations(Files) \union Permutations(Savers)

===============================================================================
