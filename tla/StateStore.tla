----------------------------- MODULE StateStore -----------------------------
(***************************************************************************)
(* StateStore::read_protected and write_protected                          *)
(* (Cpp/src/internal/state_store.cpp) on one file: a value is protected,   *)
(* written to <name>.tmp and moved over the file.  Nothing keeps the       *)
(* threads and processes that share the directory from doing so at the     *)
(* same time, under the same temporary name.                               *)
(*                                                                         *)
(* The streams are opened without FILE_SHARE_DELETE, as the C++ runtime    *)
(* does: Windows refuses to move or delete a file that one of them has     *)
(* open.                                                                   *)
(***************************************************************************)
CONSTANTS
    Writer,    \* threads, of any process, that write the file
    Reader,    \* and that read it
    Blob,      \* protected values
    Absent,    \* there is no such file
    Empty,     \* it was truncated and nothing has been written yet
    Torn       \* it holds part of a value, or a mixture of two

ASSUME StoreAssumption ==
    {Absent, Empty, Torn} \cap Blob = {}

VARIABLES
    target,    \* the file
    tmp,       \* <name>.tmp
    stage,     \* where each writer is in write_protected
    blob,      \* what it is writing
    reading,   \* readers that have the file open
    disturbed, \* history: writers that met a writer, a reader or an I/O fault
    expected   \* history: the value whose write returned last, or Torn if
               \* that write was disturbed

store == <<target, tmp, stage, blob, reading, disturbed, expected>>

StoreTypeOK ==
    /\ target \in Blob \cup {Absent, Empty, Torn}
    /\ tmp \in Blob \cup {Absent, Empty, Torn}
    /\ stage \in [Writer -> {"idle", "begun", "open", "closed", "failed"}]
    /\ blob \in [Writer -> Blob \cup {Absent}]
    /\ reading \subseteq Reader
    /\ disturbed \subseteq Writer
    /\ expected \in Blob \cup {Absent, Torn}

StoreInit ==
    /\ target = Absent /\ tmp = Absent
    /\ stage = [w \in Writer |-> "idle"] /\ blob = [w \in Writer |-> Absent]
    /\ reading = {}
    /\ disturbed = {} /\ expected = Absent

Busy == {w \in Writer : stage[w] # "idle"}

(* Mutant of OpenIn: the stream is closed only after the move. *)
StreamOutlivesMove == {w \in Writer : stage[w] \in {"open", "closed"}}
(* The temporary file is open in the streams of these writers. *)
OpenIn == {w \in Writer : stage[w] = "open"}

At(w, s) == stage' = [stage EXCEPT ![w] = s] /\ UNCHANGED blob

(* The call returns or throws. *)
Leave(w) ==
    /\ stage' = [stage EXCEPT ![w] = "idle"]
    /\ blob' = [blob EXCEPT ![w] = Absent]
    /\ disturbed' = disturbed \ {w}

-----------------------------------------------------------------------------
(* write_protected(name, b): CryptProtectData. *)
BeginWrite(w, b) ==
    /\ stage[w] = "idle"
    /\ stage' = [stage EXCEPT ![w] = "begun"]
    /\ blob' = [blob EXCEPT ![w] = b]
    /\ disturbed' = IF Busy = {} /\ reading = {}
                    THEN disturbed ELSE disturbed \cup Busy \cup {w}
    /\ UNCHANGED <<target, tmp, reading, expected>>

(* Mutant of OpenTemporary: the stream is opened without trunc. *)
OpenWithoutTrunc(w) ==
    /\ stage[w] = "begun"
    /\ At(w, "open")
    /\ tmp' = IF tmp = Absent THEN Empty ELSE tmp
    /\ UNCHANGED <<target, reading, disturbed, expected>>
(* The stream is opened with trunc, whoever else has the file open. *)
OpenTemporary(w) ==
    /\ stage[w] = "begun"
    /\ At(w, "open")
    /\ tmp' = Empty
    /\ UNCHANGED <<target, reading, disturbed, expected>>

(* What a writer leaves in a file that holds f, writing b from its start:  *)
(* a longer value of another writer shows behind a shorter one.            *)
Overlay(f, b) == IF f = Empty THEN {b} ELSE {b, Torn}

(* The stream's destructor flushes what write() buffered; that it could    *)
(* not goes unnoticed.                                                     *)
CloseTemporary(w) ==
    /\ stage[w] = "open"
    /\ At(w, "closed")
    /\ \/ tmp' \in Overlay(tmp, blob[w]) /\ UNCHANGED disturbed
       \/ tmp' = Torn /\ disturbed' = disturbed \cup {w}
    /\ UNCHANGED <<target, reading, expected>>

(* CryptProtectData, the opening or write() fails: an Error is thrown and  *)
(* the temporary file stays as it is.                                      *)
WriteFails(w) ==
    /\ stage[w] \in {"begun", "open"}
    /\ Leave(w)
    /\ tmp' \in {tmp} \cup (IF stage[w] = "open" THEN {Torn} ELSE {})
    /\ UNCHANGED <<target, reading, expected>>

(* MoveFileExW can replace the file. *)
Movable == tmp # Absent /\ OpenIn = {} /\ reading = {}

(* MoveFileExW replaces the file, and write_protected returns. *)
MoveTemporary(w) ==
    /\ stage[w] = "closed" /\ Movable
    /\ Leave(w)
    /\ target' = tmp /\ tmp' = Absent
    /\ expected' = IF w \in disturbed THEN Torn ELSE blob[w]
    /\ UNCHANGED reading

(* ... or it fails, because the file is in use or for another reason. *)
MoveFails(w) ==
    /\ stage[w] = "closed"
    /\ At(w, "failed")
    /\ \/ ~Movable /\ UNCHANGED disturbed
       \/ Movable /\ disturbed' = disturbed \cup {w}
    /\ UNCHANGED <<target, tmp, reading, expected>>

(* The temporary file is removed, if Windows lets it; an exception follows *)
(* either way.                                                             *)
RemoveTemporary(w) ==
    /\ stage[w] = "failed"
    /\ Leave(w)
    /\ tmp' = IF OpenIn = {} THEN Absent ELSE tmp
    /\ UNCHANGED <<target, reading, expected>>

-----------------------------------------------------------------------------
(* read_protected(name): the file is opened, *)
OpenTarget(r) ==
    /\ r \notin reading /\ target # Absent
    /\ reading' = reading \cup {r}
    /\ disturbed' = disturbed \cup Busy
    /\ UNCHANGED <<target, tmp, stage, blob, expected>>

(* ... or cannot be, because it is not there or for another reason, *)
OpenTargetFails(r) == r \notin reading /\ UNCHANGED store

(* ... read and closed.  An empty file, and one that CryptUnprotectData    *)
(* does not accept, count as none; so does a whole one whenever reading or *)
(* unprotecting it fails.                                                  *)
Unprotected == ({target} \cap Blob) \cup {Absent}

CloseTarget(r) ==
    /\ r \in reading
    /\ reading' = reading \ {r}
    /\ UNCHANGED <<target, tmp, stage, blob, disturbed, expected>>

(* The process of these writers and readers ends. *)
StoreCrash(ws, rs) ==
    /\ stage' = [w \in Writer |-> IF w \in ws THEN "idle" ELSE stage[w]]
    /\ blob' = [w \in Writer |-> IF w \in ws THEN Absent ELSE blob[w]]
    /\ disturbed' = disturbed \ ws
    /\ reading' = reading \ rs
    /\ UNCHANGED <<target, tmp, expected>>

(* Every other step of write_protected than the one it returns by. *)
WriteGoesOn(w) ==
    \/ OpenTemporary(w) \/ CloseTemporary(w) \/ WriteFails(w)
    \/ MoveFails(w) \/ RemoveTemporary(w)

-----------------------------------------------------------------------------
(* The file holds the value whose write returned last, whatever crashes,   *)
(* failures and left-over temporary files came before and after, unless    *)
(* that write met another writer or its flush was lost: only then may it   *)
(* be torn or hold the other's value.                                      *)
StoreKeepsLast == expected # Torn => target = expected

(* A write that meets nobody and no I/O fault does not fail: in            *)
(* particular it does not trip over its own stream or over what a crash    *)
(* left behind.                                                            *)
CommitsAlone == \A w \in Writer : stage[w] = "failed" => w \in disturbed
=============================================================================
