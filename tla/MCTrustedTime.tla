---------------------------- MODULE MCTrustedTime ----------------------------
(* TrustedTime for TLC: the threads of a process are interchangeable. *)
EXTENDS TrustedTime, TLC

ThreadSymmetry == Permutations(Thread)
=============================================================================
