---------------------------- MODULE MCDeviceKeys ----------------------------
(* Small instances of DeviceKeys. *)
EXTENDS DeviceKeys, TLC

CONSTANTS t1, t2, t3, p1, p2

(* Two threads of one process, and a second process. *)
TwoProcesses == (t1 :> p1) @@ (t2 :> p1) @@ (t3 :> p2)

KeySymmetry == Permutations(Key)
=============================================================================
