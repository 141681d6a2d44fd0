---------------------------- MODULE MCOnlineKeys ----------------------------
(* Small instances of OnlineKeys. *)
EXTENDS OnlineKeys

(* Ids, public keys and threads are only compared with each other. *)
KeySymmetry ==
    Permutations(KeyId) \cup Permutations(Material) \cup Permutations(Thread)

(* Manifests that are already expired (within the skew), due at once, and  *)
(* fresh.                                                                  *)
MCLifetime == {-1, 1, 3}
=============================================================================
