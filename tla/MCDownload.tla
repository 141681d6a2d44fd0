----------------------------- MODULE MCDownload -----------------------------
(* Small instances of Download. *)
EXTENDS Download

(* The second release is smaller than the first: a .part file of the first *)
(* may be longer than the second's artifact.                               *)
Shrinking == <<3, 2>>
=============================================================================
