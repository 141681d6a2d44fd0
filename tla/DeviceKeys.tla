----------------------------- MODULE DeviceKeys -----------------------------
(***************************************************************************)
(* The device key: identity.bin and the CNG key store                      *)
(* (Cpp/src/internal/device_identity.cpp), the identity that each process  *)
(* has loaded, its rotation (RequestPipeline::rotate_device_key) and the   *)
(* session that verify_authz stores for it.                                *)
(*                                                                         *)
(* Threads of several processes share identity.bin.  The first start is    *)
(* serialized by a named mutex; rotations are serialized by nothing but    *)
(* the service, which rotates a device only at the request of its present  *)
(* key.  Requests may be lost, delayed until long after their sender has   *)
(* given up, or repeated by the retries of send().                         *)
(***************************************************************************)
EXTENDS Naturals

CONSTANTS
    Thread, Process,
    ProcessOf,   \* the process of each thread
    MayName,     \* the processes whose ClientOptions::device_id may be set
    NoThread,    \* the identity mutex is free
    Key,         \* device keys, each with its install id and CNG name
    NoKey

ASSUME DeviceKeysAssumption ==
    /\ ProcessOf \in [Thread -> Process]
    /\ MayName \subseteq Process
    /\ NoThread \notin Thread
    /\ NoKey \notin Key

VARIABLES
    file,       \* the key that identity.bin names
    store,      \* the keys in the CNG key storage provider
    made,       \* the keys created so far: random names do not repeat
    mutex,      \* the owner of Local\SwmSdkIdentity-...
    named,      \* the processes whose ClientOptions::device_id is set
    loaded,     \* identity_ of each process
    session,    \* session_ of each process: the device it was issued for
    pc,         \* where each thread is
    key,        \* the key that a load or a rotation is about
    signer,     \* the device key that signed the thread's check_update
    challenged, \* the rotation has been answered with 428 once
    requests,   \* rotation requests on their way to the service
    known,      \* the service: the present key of each registered device
    accepted,   \* the service: every key that was ever registered
    rotated,    \* history: identity.bin was replaced by a rotation
    givenUp,    \* history: the keys of rotations that failed or crashed
    overtaken   \* history: identities that a process replaced while an answer for
                \* them could still have its session stored

disk == <<file, store, made, mutex>>
memory == <<named, loaded, session, overtaken>>
locals == <<key, signer, challenged>>
service == <<requests, known, accepted>>
vars == <<disk, memory, pc, locals, service, rotated, givenUp>>

MaybeKey == Key \cup {NoKey}
RotationPlace == {"send", "sent", "answered"}
Place == {"idle", "loading", "creating", "emplace", "committed", "adopted",
          "check", "response", "verified"} \cup RotationPlace

TypeOK ==
    /\ file \in MaybeKey
    /\ store \subseteq made /\ made \subseteq Key
    /\ mutex \in Thread \cup {NoThread}
    /\ named \subseteq MayName
    /\ loaded \in [Process -> MaybeKey]
    /\ session \in [Process -> MaybeKey]
    /\ overtaken \in [Process -> SUBSET MaybeKey]
    /\ pc \in [Thread -> Place]
    /\ key \in [Thread -> MaybeKey]
    /\ signer \in [Thread -> MaybeKey]
    /\ challenged \in [Thread -> BOOLEAN]
    /\ requests \subseteq [signer : Key, key : Key]
    /\ known \subseteq accepted /\ accepted \subseteq made
    /\ rotated \in BOOLEAN
    /\ givenUp \subseteq made

Init ==
    /\ file = NoKey /\ store = {} /\ made = {} /\ mutex = NoThread
    /\ named \in SUBSET MayName
    /\ loaded = [p \in Process |-> NoKey]
    /\ session = [p \in Process |-> NoKey]
    /\ overtaken = [p \in Process |-> {}]
    /\ pc = [t \in Thread |-> "idle"]
    /\ key = [t \in Thread |-> NoKey]
    /\ signer = [t \in Thread |-> NoKey]
    /\ challenged = [t \in Thread |-> FALSE]
    /\ requests = {} /\ known = {} /\ accepted = {}
    /\ rotated = FALSE /\ givenUp = {}

Goto(t, place) == pc' = [pc EXCEPT ![t] = place]

(* A call has returned or thrown: its locals are gone. *)
Return(t) ==
    /\ Goto(t, "idle")
    /\ key' = [key EXCEPT ![t] = NoKey]
    /\ signer' = [signer EXCEPT ![t] = NoKey]
    /\ challenged' = [challenged EXCEPT ![t] = FALSE]

Rotating(t) == pc[t] \in RotationPlace

-----------------------------------------------------------------------------
(* identity() and DeviceIdentity::load_or_create *)

(* Mutant of BeginLoad: the identity mutex is not taken. *)
BeginLoadUnlocked(t) ==
    /\ pc[t] = "idle" /\ loaded[ProcessOf[t]] = NoKey
    /\ mutex' = t
    /\ Goto(t, "loading")
    /\ UNCHANGED <<file, store, made, memory, locals, service, rotated, givenUp>>
(* The process has no identity yet: the thread waits for the mutex.  An    *)
(* abandoned mutex is as good as a free one; a timeout changes nothing.    *)
BeginLoad(t) ==
    /\ pc[t] = "idle" /\ loaded[ProcessOf[t]] = NoKey
    /\ mutex = NoThread
    /\ mutex' = t
    /\ Goto(t, "loading")
    /\ UNCHANGED <<file, store, made, memory, locals, service, rotated, givenUp>>

(* identity.bin names a key that can be opened.  The mutex is released     *)
(* before identity_ is set.                                                *)
LoadExisting(t) ==
    /\ pc[t] = "loading" /\ file \in store
    /\ mutex' = NoThread
    /\ key' = [key EXCEPT ![t] = file]
    /\ Goto(t, "emplace")
    /\ UNCHANGED <<file, store, made, memory, signer, challenged, service, rotated, givenUp>>

(* create_identity *)
CreateKey(t, k) ==
    /\ pc[t] = "loading" /\ file \notin store
    /\ k \notin made
    /\ made' = made \cup {k} /\ store' = store \cup {k}
    /\ key' = [key EXCEPT ![t] = k]
    /\ Goto(t, "creating")
    /\ UNCHANGED <<file, mutex, memory, signer, challenged, service, rotated, givenUp>>

WriteMetadata(t) ==
    /\ pc[t] = "creating"
    /\ file' = key[t] /\ mutex' = NoThread
    /\ Goto(t, "emplace")
    /\ UNCHANGED <<store, made, memory, locals, service, rotated, givenUp>>

(* Something throws under the mutex; a key that was created stays behind. *)
LoadFails(t) ==
    /\ pc[t] \in {"loading", "creating"}
    /\ mutex' = NoThread
    /\ Return(t)
    /\ UNCHANGED <<file, store, made, memory, service, rotated, givenUp>>

(* identity_.emplace(...), although another thread may have set identity_ *)
(* since the thread found it empty.                                       *)
Emplace(t) ==
    LET p == ProcessOf[t] IN
    /\ pc[t] = "emplace"
    /\ loaded' = [loaded EXCEPT ![p] = key[t]]
    /\ overtaken' = [overtaken EXCEPT ![p] = @ \cup ({loaded[p]} \ {NoKey, key[t]})]
    /\ Return(t)
    /\ UNCHANGED <<disk, named, session, service, rotated, givenUp>>

-----------------------------------------------------------------------------
(* check_update and the other requests that are answered with a session. *)

BeginCheck(t) ==
    /\ pc[t] = "idle" /\ loaded[ProcessOf[t]] # NoKey
    /\ signer' = [signer EXCEPT ![t] = loaded[ProcessOf[t]]]
    /\ Goto(t, "check")
    /\ UNCHANGED <<disk, memory, key, challenged, service, rotated, givenUp>>

(* The service registers the device, unless its key has been replaced. *)
ServiceRegisters(t) ==
    /\ pc[t] = "check"
    /\ signer[t] \in known \/ signer[t] \notin accepted
    /\ known' = known \cup {signer[t]}
    /\ accepted' = accepted \cup {signer[t]}
    /\ Goto(t, "response")
    /\ UNCHANGED <<disk, memory, locals, requests, rotated, givenUp>>

(* Mutant of VerifyAuthz: the device of the answer is not compared. *)
VerifyAnyDevice(t) ==
    /\ pc[t] = "response"
    /\ Goto(t, "verified")
    /\ UNCHANGED <<disk, memory, locals, service, rotated, givenUp>>
(* verify_authz: the answer is for device_id() ... A device_id that the    *)
(* caller has set stays the same whatever the key is.                      *)
VerifyAuthz(t) ==
    /\ pc[t] = "response"
    /\ ProcessOf[t] \in named \/ signer[t] = loaded[ProcessOf[t]]
    /\ Goto(t, "verified")
    /\ UNCHANGED <<disk, memory, locals, service, rotated, givenUp>>

(* ... and its session is stored, if it has one; no lock is held. *)
StoreSession(t) ==
    /\ pc[t] = "verified"
    /\ \/ session' = [session EXCEPT ![ProcessOf[t]] = signer[t]]
       \/ UNCHANGED session
    /\ Return(t)
    /\ UNCHANGED <<disk, named, loaded, overtaken, service, rotated, givenUp>>

CheckFails(t) ==
    /\ pc[t] \in {"check", "response"}
    /\ Return(t)
    /\ UNCHANGED <<disk, memory, service, rotated, givenUp>>

(* ensure_session no longer finds it valid. *)
SessionExpires(p) ==
    /\ session[p] # NoKey
    /\ session' = [session EXCEPT ![p] = NoKey]
    /\ UNCHANGED <<disk, named, loaded, overtaken, pc, locals, service, rotated, givenUp>>

-----------------------------------------------------------------------------
(* rotate_device_key *)

(* ensure_session and create_pending *)
BeginRotation(t, k) ==
    /\ pc[t] = "idle"
    /\ session[ProcessOf[t]] # NoKey
    /\ k \notin made
    /\ made' = made \cup {k} /\ store' = store \cup {k}
    /\ key' = [key EXCEPT ![t] = k]
    /\ Goto(t, "send")
    /\ UNCHANGED <<file, mutex, memory, signer, challenged, service, rotated, givenUp>>

(* Mutant of SendRotation: the pending key is committed first. *)
SendCommitted(t) ==
    LET p == ProcessOf[t] IN
    /\ pc[t] = "send" /\ session[p] # NoKey
    /\ requests' = requests \cup {[signer |-> loaded[p], key |-> key[t]]}
    /\ file' = key[t]
    /\ Goto(t, "sent")
    /\ UNCHANGED <<store, made, mutex, memory, locals, known, accepted, rotated, givenUp>>
(* One attempt of send(), signed by the identity of that moment. *)
SendRotation(t) ==
    LET p == ProcessOf[t] IN
    /\ pc[t] = "send" /\ session[p] # NoKey
    /\ requests' = requests \cup {[signer |-> loaded[p], key |-> key[t]]}
    /\ Goto(t, "sent")
    /\ UNCHANGED <<disk, memory, locals, known, accepted, rotated, givenUp>>

(* The service replaces the signer's key by the new one, now or later. *)
ServiceRotates(m) ==
    /\ m \in requests
    /\ m.signer \in known /\ m.key \notin accepted
    /\ requests' = requests \ {m}
    /\ known' = (known \ {m.signer}) \cup {m.key}
    /\ accepted' = accepted \cup {m.key}
    /\ UNCHANGED <<disk, memory, pc, locals, rotated, givenUp>>

(* 428, once: the loop sends the proof of the new key. *)
Challenge(t) ==
    /\ pc[t] = "sent" /\ ~challenged[t]
    /\ challenged' = [challenged EXCEPT ![t] = TRUE]
    /\ Goto(t, "send")
    /\ UNCHANGED <<disk, memory, key, signer, service, rotated, givenUp>>

(* No answer: send() tries again. *)
Retry(t) ==
    /\ pc[t] = "sent"
    /\ Goto(t, "send")
    /\ UNCHANGED <<disk, memory, locals, service, rotated, givenUp>>

(* The answer that the key was rotated, to this attempt or to a repetition *)
(* that the service recognizes.                                            *)
RotationAnswered(t) ==
    /\ pc[t] = "sent" /\ key[t] \in accepted
    /\ Goto(t, "answered")
    /\ UNCHANGED <<disk, memory, locals, service, rotated, givenUp>>

(* Mutant of RotationFails: committed is never set. *)
FailsAfterCommit(t) ==
    /\ Rotating(t) \/ pc[t] = "committed"
    /\ store' = store \ {key[t]}
    /\ givenUp' = givenUp \cup {key[t]}
    /\ Return(t)
    /\ UNCHANGED <<file, made, mutex, memory, service, rotated>>
(* Any error before the commit has succeeded: delete_pending. *)
RotationFails(t) ==
    /\ Rotating(t)
    /\ store' = store \ {key[t]}
    /\ givenUp' = givenUp \cup {key[t]}
    /\ Return(t)
    /\ UNCHANGED <<file, made, mutex, memory, service, rotated>>

(* Mutant of CommitPending: identity.bin is not written. *)
CommitInMemory(t) ==
    /\ pc[t] = "answered"
    /\ rotated' = TRUE
    /\ Goto(t, "committed")
    /\ UNCHANGED <<disk, memory, locals, service, givenUp>>
CommitPending(t) ==
    /\ pc[t] = "answered"
    /\ file' = key[t] /\ rotated' = TRUE
    /\ Goto(t, "committed")
    /\ UNCHANGED <<store, made, mutex, memory, locals, service, givenUp>>

(* identity_ = std::move(pending) *)
AdoptPending(t) ==
    /\ pc[t] = "committed"
    /\ loaded' = [loaded EXCEPT ![ProcessOf[t]] = key[t]]
    /\ Goto(t, "adopted")
    /\ UNCHANGED <<disk, named, session, overtaken, locals, service, rotated, givenUp>>

(* Answers to requests of earlier identities that verify_authz has let, or *)
(* will let, through.                                                      *)
OldAnswers(p) ==
    {signer[u] : u \in {v \in Thread :
        /\ ProcessOf[v] = p /\ signer[v] # loaded[p]
        /\ pc[v] = "verified" \/ (pc[v] \in {"check", "response"} /\ p \in named)}}

(* clear_session, and the return; a registration_id that is missing in the *)
(* answer makes it throw, with the same effect.                            *)
ClearSession(t) ==
    /\ pc[t] = "adopted"
    /\ session' = [session EXCEPT ![ProcessOf[t]] = NoKey]
    /\ overtaken' = [overtaken EXCEPT ![ProcessOf[t]] = @ \cup OldAnswers(ProcessOf[t])]
    /\ Return(t)
    /\ UNCHANGED <<disk, named, loaded, service, rotated, givenUp>>

-----------------------------------------------------------------------------
(* The process ends, at any moment, and is started again. *)
Crash(p) ==
    LET dead == {t \in Thread : ProcessOf[t] = p} IN
    /\ loaded' = [loaded EXCEPT ![p] = NoKey]
    /\ session' = [session EXCEPT ![p] = NoKey]
    /\ overtaken' = [overtaken EXCEPT ![p] = {}]
    /\ mutex' = IF mutex \in dead THEN NoThread ELSE mutex
    /\ givenUp' = givenUp \cup {key[t] : t \in {u \in dead : Rotating(u)}}
    /\ pc' = [t \in Thread |-> IF t \in dead THEN "idle" ELSE pc[t]]
    /\ key' = [t \in Thread |-> IF t \in dead THEN NoKey ELSE key[t]]
    /\ signer' = [t \in Thread |-> IF t \in dead THEN NoKey ELSE signer[t]]
    /\ challenged' = [t \in Thread |-> IF t \in dead THEN FALSE ELSE challenged[t]]
    /\ UNCHANGED <<file, store, made, named, service, rotated>>

LoadStep(t) ==
    \/ BeginLoad(t) \/ LoadExisting(t) \/ (\E k \in Key : CreateKey(t, k))
    \/ WriteMetadata(t) \/ LoadFails(t) \/ Emplace(t)

CheckStep(t) ==
    \/ BeginCheck(t) \/ ServiceRegisters(t) \/ VerifyAuthz(t)
    \/ StoreSession(t) \/ CheckFails(t)

RotationStep(t) ==
    \/ (\E k \in Key : BeginRotation(t, k))
    \/ SendRotation(t) \/ Challenge(t) \/ Retry(t) \/ RotationAnswered(t)
    \/ RotationFails(t) \/ CommitPending(t) \/ AdoptPending(t) \/ ClearSession(t)

Next ==
    \/ \E t \in Thread : LoadStep(t) \/ CheckStep(t) \/ RotationStep(t)
    \/ \E m \in requests : ServiceRotates(m)
    \/ \E p \in Process : Crash(p) \/ SessionExpires(p)

Spec == Init /\ [][Next]_vars

-----------------------------------------------------------------------------
(* The key that identity.bin names, and the key of every process, exists:  *)
(* delete_pending never deletes a key that is in use, whichever attempt    *)
(* failed, was lost, or ended with the process.                            *)
KeyMaterialKept ==
    /\ file # NoKey => file \in store
    /\ \A p \in Process : loaded[p] # NoKey => loaded[p] \in store

(* As long as no key was rotated, all processes use the key of             *)
(* identity.bin: a first start by several processes makes one identity.    *)
FirstStartAgrees ==
    ~rotated => \A p \in Process : loaded[p] \in {NoKey, file}

(* The key that the service knows the device by. *)
PresentKey == IF known = {} THEN NoKey ELSE CHOOSE k \in Key : k \in known

R == INSTANCE DeviceRegister WITH
        device <- file, service <- PresentKey, retired <- accepted \ known

(* Whatever threads and processes do at the same time, lose or repeat, the *)
(* device and the service go through one sequence of keys: the first key   *)
(* is the one that is registered, the service never returns to a key, and  *)
(* identity.bin is replaced only by the key that the service holds at that *)
(* moment (Go/client_enrollment.go says of the same operation: "only after *)
(* the server accepts the rotation").                                      *)
ImplementsRegister == R!Spec

(* commit_pending writes identity.bin without a lock, and every writer     *)
(* uses the same temporary file.  No two rotations get that far: only one  *)
(* rotation that is under way has been accepted.                           *)
CommitsDoNotOverlap ==
    \A t, u \in Thread :
        /\ Rotating(t) /\ key[t] \in accepted
        /\ Rotating(u) /\ key[u] \in accepted
        => t = u

(* The service knows the key of identity.bin, unless a rotation is under   *)
(* way, or one was accepted that the device had given up (its answer was   *)
(* lost or invalid, the commit failed, or the process ended): retries,     *)
(* late requests and rotations in several threads or processes do no harm. *)
DeviceInStep ==
    file \in accepted \ known =>
        \E k \in known : k \in givenUp \/ \E t \in Thread : Rotating(t) /\ key[t] = k

(* A session belongs to the identity of its process, unless a rotation is  *)
(* about to clear it, or the identity it belongs to was replaced while an  *)
(* answer was on its way to being stored: after verify_authz's check of    *)
(* the device, or, where the caller has set device_id and the check is     *)
(* blind to the key, from the signing of the request on.                   *)
SessionOfThisDevice ==
    \A p \in Process :
        \/ session[p] \in {NoKey, loaded[p]} \cup overtaken[p]
        \/ \E t \in Thread : ProcessOf[t] = p /\ pc[t] = "adopted"
=============================================================================
