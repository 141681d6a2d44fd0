---------------------------- MODULE Installation ----------------------------
(***************************************************************************)
(* What download_update promises about the destination, whatever happens   *)
(* to the transfer: it is touched only on behalf of a published release    *)
(* whose artifact has been verified, and success is reported for exactly   *)
(* what it then holds.                                                     *)
(***************************************************************************)
EXTENDS Naturals

CONSTANTS
    Artifact,   \* the contents of every release
    NoFile

VARIABLES
    file,       \* the destination
    published,  \* the newest release
    staged,     \* the release that is verified and about to be installed, or 0
    reported    \* the release of the last call that succeeded, or 0

installation == <<file, published, staged, reported>>

Init == file = NoFile /\ published = 1 /\ staged = 0 /\ reported = 0

Publish ==
    /\ published + 1 \in DOMAIN Artifact
    /\ published' = published + 1
    /\ UNCHANGED <<file, staged, reported>>

Stage(r) ==
    /\ staged = 0
    /\ staged' = r
    /\ UNCHANGED <<file, published, reported>>

(* The old file is removed before the new one takes its place. *)
Clear ==
    /\ staged # 0
    /\ file' = NoFile
    /\ UNCHANGED <<published, staged, reported>>

Install ==
    /\ staged # 0
    /\ file' = Artifact[staged] /\ reported' = staged
    /\ staged' = 0
    /\ UNCHANGED published

Abandon ==
    /\ staged # 0
    /\ staged' = 0
    /\ UNCHANGED <<file, published, reported>>

Next ==
    \/ Publish \/ Clear \/ Install \/ Abandon
    \/ \E r \in 1..published : Stage(r)

Spec == Init /\ [][Next]_installation
=============================================================================
