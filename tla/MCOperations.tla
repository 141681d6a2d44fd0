---------------------------- MODULE MCOperations ----------------------------
(* Operations with the policies that the SDK ships. *)
EXTENDS Operations, RequestPolicy, TLC

(* At once, the timeout, and the timeout of each of WinHTTP's four phases  *)
(* (resolve, connect, send, receive).                                      *)
MCRequestTime ==
    [o \in OperationClass |-> {ResolveRequestPolicy[o].timeout * q : q \in {0, 1, 4}}]

(* On time, and a process that was suspended. *)
MCOversleep == {0, 10000}

GrantSymmetry == Permutations(Grant)
=============================================================================
