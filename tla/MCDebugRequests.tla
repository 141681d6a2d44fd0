-------------------------- MODULE MCDebugRequests --------------------------
(* Small instances of DebugRequests: threads and requests are alike. *)
EXTENDS DebugRequests, TLC

Symmetry == Permutations(Thread) \cup Permutations(Request)
=============================================================================
