--------------------------- MODULE MCHostIntegrity ---------------------------
(* Two threads of one process and another process of the application. *)
EXTENDS HostIntegrity, TLC

CONSTANTS t1, t2, t3, p1, p2

MCOwner == t1 :> p1 @@ t2 :> p1 @@ t3 :> p2

(* The scanning process sets no architecture: it accepts byte 0. *)
MCOptions == p1 :> {<<"scan", "">>} @@ p2 :> {<<"provider", "x64">>}

(* A sound manifest that suits it, a sound one for x64, and one that is    *)
(* not signed.                                                             *)
MCPackage ==
    {[defects |-> {}, architecture |-> 0], [defects |-> {}, architecture |-> 2],
     [defects |-> {"manifest_signature"}, architecture |-> 0]}

(* The threads of one process, and the releases, are interchangeable. *)
HostSymmetry == Permutations({t1, t2}) \cup Permutations(Release)
=============================================================================
