--------------------------- MODULE MCUpdateStream ---------------------------
(***************************************************************************)
(* The worker of an update stream, and the reader of its connection.  The  *)
(* worker's read brings whole messages; before it, a reader may take the   *)
(* bytes of a stream as they come, to their end.  To keep the instance     *)
(* small it does so only in the first read of a stream, and the worker     *)
(* goes on when the reader is done.                                        *)
(***************************************************************************)
EXTENDS UpdateStream, SseReader

FirstRead ==
    /\ pc = "blocked" /\ ~stopped /\ ~verified /\ ~reported
    /\ event = "other" /\ error = "std"

(* A reader for the bytes of one of the streams. *)
NewSseReader(streams) == stream' \in streams /\ got' = 0 /\ reader' = NewReader

StreamInit == Init /\ SseInit /\ stream = <<>>

StreamNext ==
    \/ stream = <<>> /\ Next /\ NewSseReader({<<>>})
    \/ FirstRead /\ stream = <<>> /\ NewSseReader(Stream) /\ UNCHANGED vars
    \/ FirstRead /\ SseNext /\ UNCHANGED vars
    \/ ~Reading /\ NewSseReader({<<>>}) /\ UNCHANGED vars

StreamSpec ==
    /\ StreamInit
    /\ [][StreamNext]_<<vars, sse>>
    /\ Fairness
=============================================================================
