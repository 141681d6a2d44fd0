----------------------------- MODULE OnlineKeys -----------------------------
(***************************************************************************)
(* The online key ring of RequestPipeline                                  *)
(* (Cpp/src/internal/request_pipeline.cpp): how threads that send          *)
(* encrypted requests find out that the key must be refreshed, how one of  *)
(* them refreshes it under refresh_mutex_, and which key verifies a        *)
(* response that arrives after the key has changed.                        *)
(*                                                                         *)
(* A manifest is abstracted to the key it carries; its signature and       *)
(* identity checks to the failure "fatal".  Time is the trusted time.      *)
(***************************************************************************)
EXTENDS Integers, Sequences, SequencesExt

CONSTANTS
    Thread,       \* the application's threads
    NoThread,     \* refresh_mutex_ is free
    KeyId,        \* key ids the server may publish
    Material,     \* public keys
    NoKey,        \* current_key_ is empty
    MaxPrevious,  \* maximum_previous_keys
    Lead,         \* online_key_refresh_lead
    Skew,         \* tolerance on a manifest's lifetime (120 s)
    Lifetime,     \* how far ahead of now the server dates refresh_after
    MaxTime       \* bound on trusted time

Key == [id : KeyId, material : Material, refresh_after : Int]

ASSUME OnlineKeysAssumption ==
    /\ NoThread \notin Thread
    /\ NoKey \notin Key
    /\ MaxPrevious \in Nat /\ Lead \in Nat /\ Skew \in Nat /\ MaxTime \in Nat
    /\ Lifetime \subseteq Int

VARIABLES
    current,      \* current_key_
    previous,     \* previous_keys_, oldest first
    synced,       \* the trusted clock is initialized
    now,          \* trusted time
    refresher,    \* the owner of refresh_mutex_
    pc,           \* where each thread is
    force,        \* the argument of refresh_online_keys
    used,         \* the key each thread's request was encrypted under
    changes       \* history: key changes since the thread sent its request,
                  \* counted up to MaxPrevious + 1

vars == <<current, previous, synced, now, refresher, pc, force, used, changes>>
ring == <<current, previous>>

Place == {"idle", "sync", "lock", "time", "manifest", "ready", "inflight"}

TypeOK ==
    /\ current \in Key \cup {NoKey}
    /\ previous \in Seq(Key)
    /\ synced \in BOOLEAN
    /\ now \in Nat
    /\ refresher \in Thread \cup {NoThread}
    /\ pc \in [Thread -> Place]
    /\ force \in [Thread -> BOOLEAN]
    /\ used \in [Thread -> Key \cup {NoKey}]
    /\ changes \in [Thread -> Nat]

Init ==
    /\ current = NoKey
    /\ previous = <<>>
    /\ synced = FALSE
    /\ now = 0
    /\ refresher = NoThread
    /\ pc = [t \in Thread |-> "idle"]
    /\ force = [t \in Thread |-> FALSE]
    /\ used = [t \in Thread |-> NoKey]
    /\ changes = [t \in Thread |-> 0]

-----------------------------------------------------------------------------
(* has_fresh_key, can_use_current_key_after_refresh_failure, current_key   *)
(* and find_key, each evaluated under mutex_.                              *)

KeyIsFresh == current # NoKey /\ now < current.refresh_after - Lead

HasFreshKey == synced /\ KeyIsFresh

CanUseCurrentKey == current # NoKey /\ synced /\ now < current.refresh_after

(* The key current_key() returns, if it does not throw. *)
CurrentKey == {k \in {current} : k # NoKey /\ ~(synced /\ now >= k.refresh_after)}

(* find_key: the current key, else the newest previous key with this id. *)
FindKey(id) ==
    IF current # NoKey /\ current.id = id
    THEN {current}
    ELSE {previous[i] : i \in {j \in DOMAIN previous :
             /\ previous[j].id = id
             /\ \A m \in DOMAIN previous : m > j => previous[m].id # id}}

-----------------------------------------------------------------------------
(* install_key *)

(* previous_keys_ without its entry for the id, if there is one. *)
WithoutId(s, id) ==
    IF \E i \in DOMAIN s : s[i].id = id
    THEN RemoveAt(s, CHOOSE i \in DOMAIN s :
                        /\ s[i].id = id
                        /\ \A m \in DOMAIN s : m < i => s[m].id # id)
    ELSE s

(* Mutant of NewestKeys: drops the newest keys. *)
OldestKeys(s) ==
    IF Len(s) > MaxPrevious THEN SubSeq(s, 1, MaxPrevious) ELSE s
(* The loop that drops the oldest keys. *)
NewestKeys(s) ==
    IF Len(s) > MaxPrevious
    THEN SubSeq(s, Len(s) - MaxPrevious + 1, Len(s))
    ELSE s

(* Mutant of Rebinds: only the current key is compared. *)
RebindsCurrent(key) ==
    current # NoKey /\ current.id = key.id /\ current.material # key.material
(* The id is bound to other key material in a key that is remembered. *)
Rebinds(key) ==
    \/ current # NoKey /\ current.id = key.id /\ current.material # key.material
    \/ /\ ~(current # NoKey /\ current.id = key.id)
       /\ \E i \in DOMAIN previous :
             /\ previous[i].id = key.id
             /\ \A m \in DOMAIN previous : m < i => previous[m].id # key.id
             /\ previous[i].material # key.material

RenewsCurrent(key) == current # NoKey /\ current.id = key.id

(* The previous keys after a key with a new id is installed. *)
PreviousAfter(key) ==
    IF current # NoKey THEN NewestKeys(Append(WithoutId(previous, key.id), current))
                       ELSE WithoutId(previous, key.id)

Aged == [t \in Thread |-> IF changes[t] > MaxPrevious THEN changes[t] ELSE changes[t] + 1]

InstallKey(key) ==
    /\ ~Rebinds(key)
    /\ current' = key
    /\ \/ RenewsCurrent(key) /\ UNCHANGED <<previous, changes>>
       \/ ~RenewsCurrent(key) /\ previous' = PreviousAfter(key) /\ changes' = Aged

-----------------------------------------------------------------------------
(* refresh_online_keys(force), and the part of send() that precedes it. *)

Goto(t, place) == pc' = [pc EXCEPT ![t] = place]

(* refresh_online_keys up to its first use of the mutex. *)
EnterRefresh(t, f, fresh) ==
    \/ ~f /\ fresh /\ Goto(t, "ready")
    \/ ~(~f /\ fresh) /\ Goto(t, "lock")

(* A request that needs the online key.  send() first obtains trusted time *)
(* if there is none, outside refresh_mutex_.                               *)
BeginRequest(t) ==
    /\ pc[t] = "idle"
    /\ force' = [force EXCEPT ![t] = FALSE]
    /\ \/ ~synced /\ Goto(t, "sync")
       \/ synced /\ EnterRefresh(t, FALSE, HasFreshKey)
    /\ UNCHANGED <<ring, synced, now, refresher, used, changes>>

(* refresh_trusted_time succeeds, with send() as its caller... *)
SyncReply(t) ==
    /\ pc[t] = "sync"
    /\ synced' = TRUE
    /\ EnterRefresh(t, FALSE, KeyIsFresh)
    /\ UNCHANGED <<ring, now, refresher, force, used, changes>>

(* ... or throws. *)
SyncFails(t) ==
    /\ pc[t] = "sync"
    /\ Goto(t, "idle")
    /\ UNCHANGED <<ring, synced, now, refresher, force, used, changes>>

(* Client::refresh_online_keys *)
BeginForcedRefresh(t) ==
    /\ pc[t] = "idle"
    /\ force' = [force EXCEPT ![t] = TRUE]
    /\ EnterRefresh(t, TRUE, HasFreshKey)
    /\ UNCHANGED <<ring, synced, now, refresher, used, changes>>

(* What a thread does next once refresh_online_keys has returned: a forced *)
(* refresh is complete, a request goes on to its first attempt.            *)
AfterRefresh(t) == IF force[t] THEN "idle" ELSE "ready"

(* Mutant of AcquireRefreshLock: no second look at the key. *)
LockWithoutSecondLook(t) ==
    /\ pc[t] = "lock" /\ refresher = NoThread
    /\ refresher' = t
    /\ Goto(t, IF synced THEN "manifest" ELSE "time")
    /\ UNCHANGED <<ring, synced, now, force, used, changes>>
(* try_lock_for succeeds.  The second look at the key is what keeps a      *)
(* thread that waited from refreshing again.                               *)
AcquireRefreshLock(t) ==
    /\ pc[t] = "lock" /\ refresher = NoThread
    /\ \/ /\ ~force[t] /\ HasFreshKey
          /\ Goto(t, "ready")
          /\ UNCHANGED refresher
       \/ /\ ~(~force[t] /\ HasFreshKey)
          /\ refresher' = t
          /\ Goto(t, IF synced THEN "manifest" ELSE "time")
    /\ UNCHANGED <<ring, synced, now, force, used, changes>>

(* Mutant of GiveUpLock: the wait has no deadline. *)
WaitForever(t) == FALSE
(* try_lock_for fails until the deadline passes or the caller's stop token *)
(* is set.                                                                 *)
GiveUpLock(t) ==
    /\ pc[t] = "lock" /\ refresher # NoThread
    /\ Goto(t, "idle")
    /\ UNCHANGED <<ring, synced, now, refresher, force, used, changes>>

(* refresh_trusted_time succeeds inside refresh_online_keys. *)
TimeReply(t) ==
    /\ pc[t] = "time"
    /\ synced' = TRUE
    /\ Goto(t, "manifest")
    /\ UNCHANGED <<ring, now, refresher, force, used, changes>>

(* A manifest that passes every check is installed. *)
ManifestReply(t, key) ==
    /\ pc[t] = "manifest"
    /\ key.refresh_after >= now - Skew
    /\ InstallKey(key)
    /\ refresher' = NoThread
    /\ Goto(t, AfterRefresh(t))
    /\ UNCHANGED <<synced, now, force, used>>

(* Mutant of RefreshFails: the error path keeps the mutex. *)
FailsWithoutUnlock(t, transient) ==
    /\ pc[t] \in {"time", "manifest"}
    /\ Goto(t, "idle")
    /\ UNCHANGED <<ring, synced, now, refresher, force, used, changes>>
(* A request under the lock fails, or its answer is refused.  Network      *)
(* errors, timeouts and 5xx answers are forgiven while the current key is  *)
(* still valid; anything else is thrown.                                   *)
RefreshFails(t, transient) ==
    /\ pc[t] \in {"time", "manifest"}
    /\ refresher' = NoThread
    /\ \/ transient /\ CanUseCurrentKey /\ Goto(t, AfterRefresh(t))
       \/ ~(transient /\ CanUseCurrentKey) /\ Goto(t, "idle")
    /\ UNCHANGED <<ring, synced, now, force, used, changes>>

-----------------------------------------------------------------------------
(* send_attempt and verify_authz, as far as they concern the key. *)

(* The request is encrypted under current_key(). *)
SendAttempt(t) ==
    /\ pc[t] = "ready"
    /\ \E key \in CurrentKey : used' = [used EXCEPT ![t] = key]
    /\ changes' = [changes EXCEPT ![t] = 0]
    /\ Goto(t, "inflight")
    /\ UNCHANGED <<ring, synced, now, refresher, force>>

(* current_key() throws authz_key_required or authz_key_expired. *)
KeyUnusable(t) ==
    /\ pc[t] = "ready"
    /\ CurrentKey = {}
    /\ Goto(t, "idle")
    /\ UNCHANGED <<ring, synced, now, refresher, force, used, changes>>

(* A transient failure: send() makes the next attempt with the key that is *)
(* current then, without another refresh.                                  *)
RetryAttempt(t) ==
    /\ pc[t] = "inflight"
    /\ Goto(t, "ready")
    /\ UNCHANGED <<ring, synced, now, refresher, force, used, changes>>

(* The key that verify_authz finds for a response signed by the key the    *)
(* request was encrypted under.                                            *)
KnowsKey(key) == \E k \in FindKey(key.id) : k.material = key.material

AcceptResponse(t) ==
    /\ pc[t] = "inflight"
    /\ KnowsKey(used[t])
    /\ Goto(t, "idle")
    /\ UNCHANGED <<ring, synced, now, refresher, force, used, changes>>

(* "Authz v3 response key is unknown", or its signature does not verify. *)
RejectResponse(t) ==
    /\ pc[t] = "inflight"
    /\ ~KnowsKey(used[t])
    /\ Goto(t, "idle")
    /\ UNCHANGED <<ring, synced, now, refresher, force, used, changes>>

Tick ==
    /\ now < MaxTime
    /\ now' = now + 1
    /\ UNCHANGED <<ring, synced, refresher, pc, force, used, changes>>

-----------------------------------------------------------------------------
(* The keys a manifest may carry now. *)
Published ==
    {[id |-> i, material |-> m, refresh_after |-> now + l] :
        i \in KeyId, m \in Material, l \in Lifetime}

LockStep(t) == AcquireRefreshLock(t) \/ GiveUpLock(t)

Answer(t) ==
    \/ SyncReply(t) \/ SyncFails(t) \/ TimeReply(t)
    \/ \E key \in Published : ManifestReply(t, key)
    \/ \E transient \in BOOLEAN : RefreshFails(t, transient)

Next ==
    \/ Tick
    \/ \E t \in Thread :
        \/ BeginRequest(t) \/ BeginForcedRefresh(t)
        \/ LockStep(t) \/ Answer(t)
        \/ SendAttempt(t) \/ KeyUnusable(t)
        \/ RetryAttempt(t) \/ AcceptResponse(t) \/ RejectResponse(t)

Spec == Init /\ [][Next]_vars

(* Every attempt at the lock ends, at the latest by its deadline, and every*)
(* HTTP request is answered or fails, at the latest by its timeout.        *)
Fairness == \A t \in Thread : WF_vars(LockStep(t)) /\ WF_vars(Answer(t))

LiveSpec == Spec /\ Fairness

-----------------------------------------------------------------------------
(* The ring is bounded, and no id is remembered twice: otherwise find_key  *)
(* and the rebind check of install_key could look at different entries.    *)
KeyRingSound ==
    /\ Len(previous) <= MaxPrevious
    /\ \A i, j \in DOMAIN previous : previous[i].id = previous[j].id => i = j
    /\ current # NoKey => \A i \in DOMAIN previous : previous[i].id # current.id
    /\ current = NoKey => previous = <<>>

(* A response to a request is verified with the key the request was sent   *)
(* under, as long as other threads have not changed the key more than      *)
(* MaxPrevious times since (README: "Up to four previous keys remain       *)
(* available for in-flight responses").                                    *)
InFlightKeyFound ==
    \A t \in Thread : pc[t] = "inflight" /\ changes[t] <= MaxPrevious
        => KnowsKey(used[t])

(* As long as a key id is remembered it keeps its key material.            *)
NoRebind ==
    [][\A i \in KeyId : \A k \in FindKey(i) : \A l \in FindKey(i)' :
            k.material = l.material]_vars

(* A manifest is requested by a thread that was not told to only while the *)
(* key needs refreshing: threads that queued behind a refresh do not       *)
(* repeat it, and nothing installs a key behind the owner's back.          *)
NoRedundantFetch ==
    \A t \in Thread :
        pc[t] \in {"time", "manifest"} /\ ~force[t] => ~HasFreshKey

(* refresh_mutex_ is always given back, on the error paths too: a leaked   *)
(* lock would make every later refresh time out.                           *)
RefreshLockReleased == refresher # NoThread ~> refresher = NoThread

(* Every call of refresh_online_keys returns or throws, although a waiting *)
(* thread may be overtaken at the lock again and again.                    *)
RefreshReturns ==
    \A t \in Thread : pc[t] \in {"lock", "time", "manifest"}
        ~> pc[t] \in {"idle", "ready"}
=============================================================================
