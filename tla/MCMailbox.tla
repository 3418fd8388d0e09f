------------------------------ MODULE MCMailbox -------------------------------
(* Three threads, each free to post and to pend, on a ring of two slots.     *)
EXTENDS Mailbox, TLC

Symmetry == Permutations(Threads)

===============================================================================
