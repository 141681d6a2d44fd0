--------------------------- MODULE DeviceRegister ---------------------------
(***************************************************************************)
(* What a device and the service may rely on about the device's key,       *)
(* however many threads and processes load and rotate it: the device gets  *)
(* one first key, the service registers that one and no other, replaces it *)
(* by new keys only, and the device follows to the key that the service    *)
(* has and to no other.                                                    *)
(***************************************************************************)
CONSTANTS
    Key,
    NoKey

VARIABLES
    device,    \* the key that the device goes by
    service,   \* the key that the service knows it by
    retired    \* the keys that the service has replaced

register == <<device, service, retired>>

Init == device = NoKey /\ service = NoKey /\ retired = {}

Enroll(k) ==
    /\ device = NoKey /\ service = NoKey
    /\ device' = k
    /\ UNCHANGED <<service, retired>>

Register ==
    /\ device # NoKey /\ service = NoKey
    /\ service' = device
    /\ UNCHANGED <<device, retired>>

(* A key is offered to the service once, and never one of the past. *)
Replace(k) ==
    /\ service # NoKey
    /\ k \notin retired \cup {service, device}
    /\ service' = k
    /\ retired' = retired \cup {service}
    /\ UNCHANGED device

(* The device skips the keys that it has given up. *)
Follow ==
    /\ service # NoKey
    /\ device' = service
    /\ UNCHANGED <<service, retired>>

Next ==
    \/ \E k \in Key : Enroll(k) \/ Replace(k)
    \/ Register \/ Follow

Spec == Init /\ [][Next]_register
=============================================================================
