------------------------- MODULE HostIntegrityProofs -------------------------
(***************************************************************************)
(* Proofs about StateStore and HostIntegrity: for any number of threads,   *)
(* processes and releases, however the processes are configured.           *)
(***************************************************************************)
EXTENDS HostIntegrity, TLAPS

(* A write that is not disturbed is the only one, and nobody reads. *)
AloneInv ==
    \A w \in Writer : stage[w] # "idle" /\ w \notin disturbed => Busy = {w} /\ reading = {}

(* Such a write finds in the temporary file what it has put there. *)
TmpInv ==
    \A w \in Writer : w \notin disturbed =>
        /\ stage[w] = "open" => tmp = Empty
        /\ stage[w] = "closed" => tmp = blob[w]

(* What is being written is a value. *)
BlobInv == \A w \in Writer : stage[w] # "idle" => blob[w] \in Blob

StoreInv ==
    /\ StoreTypeOK /\ AloneInv /\ TmpInv /\ BlobInv
    /\ CommitsAlone /\ StoreKeepsLast

(* What an undisturbed write puts in the file is the policy in memory. *)
WriteInv ==
    \A t \in Thread : stage[t] # "idle" /\ t \notin disturbed =>
        /\ blob[t].release = release[Owner[t]]
        /\ blob[t].required = required[Owner[t]]

(* The process that stored its policy finds it in the file, and has it in  *)
(* memory while it lives.                                                  *)
StoredInv ==
    storedBy # Nobody =>
        /\ target \in Policy
        /\ target.release = release[storedBy]
        /\ storedBy \in alive /\ storedBy \notin unread
              => required[storedBy] = target.required

(* Who could not read the policy starts without one. *)
UnreadInv == \A p \in unread : p \in alive /\ ~required[p]

(* A process that does not run has no policy, and one that reads the file  *)
(* does not run yet.                                                       *)
AbsentInv ==
    /\ \A p \in Process \ alive : ~required[p]
    /\ reading \cap alive = {}

(* Only a sound manifest, for the architecture of the options, is kept. *)
ManifestInv ==
    \A p \in Process : manifest_[p] # {} =>
        \E m \in Package : manifest_[p] = {m} /\ Wrong(m, arch[p]) = {}

PolicyInv == WriteInv /\ StoredInv /\ UnreadInv /\ AbsentInv

Inv == TypeOK /\ StoreInv /\ PolicyInv /\ ManifestInv /\ EvidenceEnforced

-----------------------------------------------------------------------------
(* The file *)

(* There is no file, and nobody uses it. *)
LEMMA StoreInitInv == StoreInit => StoreInv
  BY DEF StoreInit, StoreInv, StoreTypeOK, AloneInv, TmpInv, BlobInv, CommitsAlone, StoreKeepsLast

LEMMA BeginWriteInv ==
  ASSUME StoreInv, NEW w \in Writer, NEW b \in Blob, BeginWrite(w, b)
  PROVE  StoreInv'
<1> USE DEF BeginWrite, StoreInv
<1>1. StoreTypeOK'  BY DEF StoreTypeOK, Busy
<1>2. AloneInv'  BY DEF StoreTypeOK, AloneInv, Busy
<1>3. TmpInv'  BY DEF StoreTypeOK, TmpInv, AloneInv, Busy
<1>4. BlobInv'  BY DEF StoreTypeOK, BlobInv
<1>5. CommitsAlone'  BY DEF StoreTypeOK, CommitsAlone, Busy
<1>6. StoreKeepsLast'  BY DEF StoreKeepsLast
<1> QED  BY <1>1, <1>2, <1>3, <1>4, <1>5, <1>6

LEMMA OpenTemporaryInv ==
  ASSUME StoreInv, NEW w \in Writer, OpenTemporary(w)
  PROVE  StoreInv'
<1> USE DEF OpenTemporary, At, StoreInv
<1>1. StoreTypeOK'  BY DEF StoreTypeOK
<1>2. AloneInv'  BY DEF StoreTypeOK, AloneInv, Busy
<1>3. TmpInv'  BY DEF StoreTypeOK, TmpInv, AloneInv, Busy
<1>4. BlobInv'  BY DEF StoreTypeOK, BlobInv
<1>5. CommitsAlone'  BY DEF StoreTypeOK, CommitsAlone
<1>6. StoreKeepsLast'  BY DEF StoreKeepsLast
<1> QED  BY <1>1, <1>2, <1>3, <1>4, <1>5, <1>6

LEMMA CloseTemporaryInv ==
  ASSUME StoreInv, NEW w \in Writer, CloseTemporary(w)
  PROVE  StoreInv'
<1> USE DEF CloseTemporary, At, Overlay, StoreInv
<1>1. StoreTypeOK'  BY DEF StoreTypeOK, BlobInv
<1>2. AloneInv'  BY DEF StoreTypeOK, AloneInv, Busy
<1>3. TmpInv'  BY DEF StoreTypeOK, TmpInv, AloneInv, Busy
<1>4. BlobInv'  BY DEF StoreTypeOK, BlobInv
<1>5. CommitsAlone'  BY DEF StoreTypeOK, CommitsAlone
<1>6. StoreKeepsLast'  BY DEF StoreKeepsLast
<1> QED  BY <1>1, <1>2, <1>3, <1>4, <1>5, <1>6

LEMMA WriteFailsInv ==
  ASSUME StoreInv, NEW w \in Writer, WriteFails(w)
  PROVE  StoreInv'
<1> USE DEF WriteFails, Leave, StoreInv
<1>1. StoreTypeOK'  BY DEF StoreTypeOK
<1>2. AloneInv'  BY DEF StoreTypeOK, AloneInv, Busy
<1>3. TmpInv'  BY DEF StoreTypeOK, TmpInv, AloneInv, Busy
<1>4. BlobInv'  BY DEF StoreTypeOK, BlobInv
<1>5. CommitsAlone'  BY DEF StoreTypeOK, CommitsAlone
<1>6. StoreKeepsLast'  BY DEF StoreKeepsLast
<1> QED  BY <1>1, <1>2, <1>3, <1>4, <1>5, <1>6

(* The value that an undisturbed write moves is its own. *)
LEMMA MoveTemporaryInv ==
  ASSUME StoreInv, NEW w \in Writer, MoveTemporary(w)
  PROVE  /\ StoreInv'
         /\ w \notin disturbed => target' = blob[w] /\ blob[w] \in Blob
<1> USE DEF MoveTemporary, Leave, StoreInv
<1>1. StoreTypeOK'  BY DEF StoreTypeOK, BlobInv
<1>2. AloneInv'  BY DEF StoreTypeOK, AloneInv, Busy
<1>3. TmpInv'  BY DEF StoreTypeOK, TmpInv, AloneInv, Busy
<1>4. BlobInv'  BY DEF StoreTypeOK, BlobInv
<1>5. CommitsAlone'  BY DEF StoreTypeOK, CommitsAlone
<1>6. StoreKeepsLast'  BY DEF StoreKeepsLast, TmpInv
<1>7. w \notin disturbed => target' = blob[w] /\ blob[w] \in Blob  BY DEF TmpInv, BlobInv
<1> QED  BY <1>1, <1>2, <1>3, <1>4, <1>5, <1>6, <1>7

(* A write that nobody disturbs can replace the file. *)
LEMMA MoveFailsInv ==
  ASSUME StoreInv, NEW w \in Writer, MoveFails(w)
  PROVE  StoreInv'
<1> USE DEF MoveFails, At, StoreInv
<1>1. StoreTypeOK'  BY DEF StoreTypeOK
<1>2. AloneInv'  BY DEF StoreTypeOK, AloneInv, Busy
<1>3. TmpInv'  BY DEF StoreTypeOK, TmpInv, AloneInv, Busy
<1>4. BlobInv'  BY DEF StoreTypeOK, BlobInv
<1>5. CommitsAlone'
  <2>1. w \notin disturbed => Movable
    <3> SUFFICES ASSUME w \notin disturbed PROVE Movable
      OBVIOUS
    <3>1. tmp \in Blob  BY DEF TmpInv, BlobInv
    <3>2. tmp # Absent  BY <3>1, StoreAssumption
    <3>3. OpenIn = {} /\ reading = {}  BY DEF AloneInv, Busy, OpenIn
    <3> QED  BY <3>2, <3>3 DEF Movable
  <2>2. w \in disturbed'  BY <2>1
  <2> QED  BY <2>2 DEF StoreTypeOK, CommitsAlone
<1>6. StoreKeepsLast'  BY DEF StoreKeepsLast
<1> QED  BY <1>1, <1>2, <1>3, <1>4, <1>5, <1>6

LEMMA RemoveTemporaryInv ==
  ASSUME StoreInv, NEW w \in Writer, RemoveTemporary(w)
  PROVE  StoreInv'
<1> USE DEF RemoveTemporary, Leave, StoreInv
<1>1. StoreTypeOK'  BY DEF StoreTypeOK
<1>2. AloneInv'  BY DEF StoreTypeOK, AloneInv, Busy
<1>3. TmpInv'  BY DEF StoreTypeOK, TmpInv, AloneInv, Busy
<1>4. BlobInv'  BY DEF StoreTypeOK, BlobInv
<1>5. CommitsAlone'  BY DEF StoreTypeOK, CommitsAlone
<1>6. StoreKeepsLast'  BY DEF StoreKeepsLast
<1> QED  BY <1>1, <1>2, <1>3, <1>4, <1>5, <1>6

LEMMA OpenTargetInv ==
  ASSUME StoreInv, NEW r \in Reader, OpenTarget(r)
  PROVE  StoreInv'
<1> USE DEF OpenTarget, StoreInv
<1>1. StoreTypeOK'  BY DEF StoreTypeOK, Busy
<1>2. AloneInv'  BY DEF StoreTypeOK, AloneInv, Busy
<1>3. TmpInv' /\ BlobInv'  BY DEF TmpInv, BlobInv
<1>4. CommitsAlone' /\ StoreKeepsLast'  BY DEF CommitsAlone, StoreKeepsLast
<1> QED  BY <1>1, <1>2, <1>3, <1>4

LEMMA CloseTargetInv ==
  ASSUME StoreInv, NEW r \in Reader, CloseTarget(r)
  PROVE  StoreInv'
<1> USE DEF CloseTarget, StoreInv
<1>1. StoreTypeOK'  BY DEF StoreTypeOK
<1>2. AloneInv'  BY DEF AloneInv, Busy
<1>3. TmpInv' /\ BlobInv'  BY DEF TmpInv, BlobInv
<1>4. CommitsAlone' /\ StoreKeepsLast'  BY DEF CommitsAlone, StoreKeepsLast
<1> QED  BY <1>1, <1>2, <1>3, <1>4

(* What a crash leaves behind does not matter to the writes that go on. *)
LEMMA StoreCrashInv ==
  ASSUME StoreInv, NEW ws \in SUBSET Writer, NEW rs \in SUBSET Reader, StoreCrash(ws, rs)
  PROVE  StoreInv'
<1> USE DEF StoreCrash, StoreInv
<1>1. StoreTypeOK'  BY DEF StoreTypeOK
<1>2. AloneInv'  BY DEF StoreTypeOK, AloneInv, Busy
<1>3. TmpInv'  BY DEF StoreTypeOK, TmpInv
<1>4. BlobInv'  BY DEF StoreTypeOK, BlobInv
<1>5. CommitsAlone'  BY DEF StoreTypeOK, CommitsAlone
<1>6. StoreKeepsLast'  BY DEF StoreKeepsLast
<1> QED  BY <1>1, <1>2, <1>3, <1>4, <1>5, <1>6

LEMMA StoreUnchanged == StoreInv /\ UNCHANGED store => StoreInv'
  BY DEF store, StoreInv, StoreTypeOK, AloneInv, TmpInv, BlobInv, CommitsAlone, StoreKeepsLast, Busy

LEMMA WriteGoesOnInv ==
  ASSUME StoreInv, NEW w \in Writer, WriteGoesOn(w)
  PROVE  StoreInv'
  BY OpenTemporaryInv, CloseTemporaryInv, WriteFailsInv, MoveFailsInv, RemoveTemporaryInv
     DEF WriteGoesOn

-----------------------------------------------------------------------------
(* The manifest *)

(* parse_rim2 accepts only what passes every check, the comparison of the  *)
(* architecture included.                                                  *)
LEMMA AcceptedIsSound ==
  ASSUME NEW m, m.defects \in SUBSET Check, NEW a, ParseRim2(m, a) = "ok"
  PROVE  Wrong(m, a) = {}
<1>1. Failing(m, a) = {}
  BY DEF ParseRim2, ServiceCode
<1>2. \A c \in Check : \E i \in DOMAIN Checks : Checks[i] = c
  <2>1. DOMAIN Checks = 1 .. 11
    BY DEF Checks
  <2>2. /\ Checks[1] = "size" /\ Checks[2] = "header" /\ Checks[3] = "body_size"
        /\ Checks[4] = "fields" /\ Checks[5] = "files" /\ Checks[6] = "trailing"
        /\ Checks[7] = "trailer" /\ Checks[8] = "identity" /\ Checks[9] = "arch"
        /\ Checks[10] = "root_signature" /\ Checks[11] = "manifest_signature"
    BY DEF Checks
  <2> QED  BY <2>1, <2>2 DEF Check
<1>3. Wrong(m, a) \cap Check = {}
  BY <1>1, <1>2 DEF Failing
<1> QED  BY <1>3 DEF Wrong, Check

(* What load_manifest returns "ok" for is sound. *)
LEMMA LoadedIsSound ==
  ASSUME TypeOK, ManifestInv, NEW p \in Process, LoadManifest(p) = "ok"
  PROVE  manifest_[p] = {} => Wrong(package, arch[p]) = {}
<1> SUFFICES ASSUME manifest_[p] = {} PROVE Wrong(package, arch[p]) = {}
  OBVIOUS
<1>1. "missing" \notin package.defects
  BY DEF LoadManifest
<1>2. ParseRim2(package, arch[p]) = "ok"
  BY <1>1 DEF LoadManifest
<1>3. package.defects \in SUBSET Check
  BY <1>1, HostAssumption DEF TypeOK, Manifest
<1> QED  BY <1>2, <1>3, AcceptedIsSound

LEMMA RememberInv ==
  ASSUME TypeOK, ManifestInv, NEW p \in Process, Remember(p), UNCHANGED arch
  PROVE  /\ manifest_' \in [Process -> SUBSET Package]
         /\ ManifestInv'
<1>1. CASE manifest_[p] = {} /\ mode[p] = "scan" /\ LoadManifest(p) = "ok"
  <2>1. manifest_' = [manifest_ EXCEPT ![p] = {package}]
    BY <1>1 DEF Remember, TypeOK
  <2>2. Wrong(package, arch[p]) = {} /\ package \in Package
    BY <1>1, LoadedIsSound DEF TypeOK
  <2> QED  BY <2>1, <2>2 DEF TypeOK, ManifestInv
<1>2. CASE ~(manifest_[p] = {} /\ mode[p] = "scan" /\ LoadManifest(p) = "ok")
  <2>1. manifest_' = manifest_
    BY <1>2 DEF Remember, TypeOK
  <2> QED  BY <2>1 DEF TypeOK, ManifestInv
<1> QED  BY <1>1, <1>2

-----------------------------------------------------------------------------
(* The policy and the evidence *)

(* The policies are what the file may hold. *)
LEMMA BlobIsPolicy == Blob = Policy
  BY HostAssumption

(* A step that sends nothing leaves nothing to enforce. *)
LEMMA QuietInv == Quiet => EvidenceEnforced' /\ sent' \in Request \cup {NoRequest}
  BY DEF Quiet, EvidenceEnforced

LEMMA InitInv == Init => Inv
<1> SUFFICES ASSUME Init PROVE Inv
  OBVIOUS
<1>1. StoreInv  BY StoreInitInv DEF Init
<1>2. TypeOK  BY <1>1 DEF Init, TypeOK, StoreInv
<1>3. PolicyInv
  BY DEF Init, StoreInit, PolicyInv, WriteInv, StoredInv, UnreadInv, AbsentInv, Thread
<1>4. ManifestInv /\ EvidenceEnforced  BY DEF Init, ManifestInv, EvidenceEnforced
<1> QED  BY <1>1, <1>2, <1>3, <1>4 DEF Inv

LEMMA BeginStartInv ==
  ASSUME Inv, NEW p \in Process, BeginStart(p)
  PROVE  Inv'
<1> USE DEF Inv, BeginStart
<1>1. StoreInv'  BY OpenTargetInv DEF Process
<1>2. TypeOK'  BY <1>1, QuietInv DEF TypeOK, StoreInv, settings
<1>3. WriteInv'  BY DEF PolicyInv, OpenTarget, WriteInv, settings
<1>4. StoredInv'  BY DEF PolicyInv, OpenTarget, StoredInv, settings
<1>5. UnreadInv' /\ AbsentInv'  BY DEF PolicyInv, UnreadInv, AbsentInv, OpenTarget
<1>6. ManifestInv'  BY DEF ManifestInv, settings
<1> QED  BY <1>1, <1>2, <1>3, <1>4, <1>5, <1>6, QuietInv DEF PolicyInv

(* The process has no policy, and is in unread if there was one to read. *)
LEMMA StartWithoutPolicyInv ==
  ASSUME Inv, NEW p \in Process, StartWithoutPolicy(p)
  PROVE  Inv'
<1> USE DEF Inv, StartWithoutPolicy, OpenTargetFails
<1>1. StoreInv'  BY StoreUnchanged
<1>2. TypeOK'  BY <1>1, QuietInv DEF TypeOK, StoreInv, settings
<1>3. WriteInv'  BY DEF PolicyInv, WriteInv, store, settings
<1>4. StoredInv'
  BY DEF PolicyInv, StoredInv, TypeOK, store, settings
<1>5. UnreadInv' /\ AbsentInv'  BY DEF PolicyInv, UnreadInv, AbsentInv, store
<1>6. ManifestInv'  BY DEF ManifestInv, settings
<1> QED  BY <1>1, <1>2, <1>3, <1>4, <1>5, <1>6, QuietInv DEF PolicyInv

(* The process finds the policy that it stored last before it ended. *)
LEMMA StartInv ==
  ASSUME Inv, NEW p \in Process, Start(p)
  PROVE  Inv'
<1> USE DEF Inv
<1>0. PICK read \in Unprotected :
         /\ required' = [required EXCEPT ![p] = CachedPolicy(p, read)]
         /\ unread' = IF target \in Policy /\ read = Absent THEN unread \cup {p} ELSE unread
  BY DEF Start
<1>a. /\ p \in reading /\ CloseTarget(p) /\ alive' = alive \cup {p}
      /\ UNCHANGED <<settings, manifest_, package, storedBy>> /\ Quiet
  BY DEF Start
<1>b. read = Absent \/ (read = target /\ target \in Policy)
  BY <1>0, BlobIsPolicy DEF Unprotected
<1>c. read = Absent => CachedPolicy(p, read) = FALSE
  BY DEF CachedPolicy
<1>d. target \in Policy => target # Absent
  BY BlobIsPolicy, StoreAssumption
<1>1. StoreInv'  BY <1>a, CloseTargetInv DEF Process
<1>2. TypeOK'
  <2>1. CachedPolicy(p, read) \in BOOLEAN
    BY <1>b DEF CachedPolicy, Policy
  <2>2. unread' \subseteq Process
    BY <1>0 DEF TypeOK
  <2> QED  BY <1>0, <1>a, <1>1, <2>1, <2>2, QuietInv DEF TypeOK, StoreInv, settings
<1>3. WriteInv'
  BY <1>a DEF PolicyInv, CloseTarget, WriteInv, StoreInv, AloneInv, settings, Thread
<1>4. StoredInv'
  <2>1. storedBy = p /\ p \notin unread' => CachedPolicy(p, read) = target.required
    <3> SUFFICES ASSUME storedBy = p, p \notin unread'
                 PROVE  CachedPolicy(p, read) = target.required
      OBVIOUS
    <3>1. target \in Policy /\ target.release = release[p]
      BY HostAssumption DEF PolicyInv, StoredInv
    <3>2. read = target
      BY <1>0, <1>b, <3>1
    <3> QED  BY <1>d, <3>1, <3>2 DEF CachedPolicy
  <2>2. UNCHANGED <<target, release>> /\ unread \subseteq unread'
    BY <1>0, <1>a DEF CloseTarget, settings
  <2> QED  BY <1>0, <1>a, <2>1, <2>2 DEF PolicyInv, StoredInv, TypeOK
<1>5. UnreadInv' /\ AbsentInv'
  <2>1. p \notin unread
    BY <1>a DEF PolicyInv, UnreadInv, AbsentInv
  <2>2. p \in unread' => ~required'[p]
    BY <1>0, <1>c, <2>1 DEF TypeOK
  <2> QED  BY <1>0, <1>a, <2>2 DEF PolicyInv, UnreadInv, AbsentInv, TypeOK, CloseTarget
<1>6. ManifestInv'  BY <1>a DEF ManifestInv, settings
<1> QED  BY <1>a, <1>1, <1>2, <1>3, <1>4, <1>5, <1>6, QuietInv DEF PolicyInv

LEMMA CrashInv ==
  ASSUME Inv, NEW p \in Process, Crash(p)
  PROVE  Inv'
<1> USE DEF Inv, Crash
<1>1. StoreInv'
  <2>1. Threads(p) \in SUBSET Writer /\ {p} \in SUBSET Reader
    BY DEF Threads, Thread, Process
  <2> QED  BY <2>1, StoreCrashInv
<1>2. TypeOK'  BY <1>1, QuietInv DEF TypeOK, StoreInv, settings
<1>3. WriteInv'
  <2> SUFFICES ASSUME NEW t \in Thread, stage'[t] # "idle", t \notin disturbed'
               PROVE  /\ blob'[t].release = release'[Owner[t]]
                      /\ blob'[t].required = required'[Owner[t]]
    BY DEF WriteInv
  <2>1. t \notin Threads(p) /\ stage[t] # "idle" /\ t \notin disturbed /\ blob'[t] = blob[t]
    BY DEF StoreCrash, Thread
  <2>2. Owner[t] \in Process /\ Owner[t] # p
    BY <2>1, HostAssumption DEF Threads
  <2> QED  BY <2>1, <2>2 DEF PolicyInv, WriteInv, TypeOK, settings
<1>4. StoredInv'  BY DEF PolicyInv, StoreCrash, StoredInv, TypeOK, settings
<1>5. UnreadInv' /\ AbsentInv'
  BY DEF PolicyInv, UnreadInv, AbsentInv, StoreCrash, TypeOK
<1>6. ManifestInv'  BY DEF ManifestInv, TypeOK, settings
<1> QED  BY <1>1, <1>2, <1>3, <1>4, <1>5, <1>6, QuietInv DEF PolicyInv

LEMMA SetRequiredInv ==
  ASSUME Inv, NEW t \in Thread, NEW needed \in BOOLEAN, SetRequired(t, needed)
  PROVE  Inv'
<1> USE DEF Inv, SetRequired
<1> DEFINE b == [release |-> release[Owner[t]], required |-> needed]
<1>1. Owner[t] \in Process /\ b \in Blob
  BY BlobIsPolicy, HostAssumption DEF Policy, TypeOK
<1>2. StoreInv'  BY <1>1, BeginWriteInv DEF Thread
<1>3. TypeOK'  BY <1>1, <1>2, QuietInv DEF TypeOK, StoreInv, settings
<1>4. WriteInv'
  <2> SUFFICES ASSUME NEW u \in Thread, stage'[u] # "idle", u \notin disturbed'
               PROVE  /\ blob'[u].release = release'[Owner[u]]
                      /\ blob'[u].required = required'[Owner[u]]
    BY DEF WriteInv
  <2>1. u = t
    BY <1>2 DEF StoreInv, AloneInv, Busy, BeginWrite, StoreTypeOK, Thread
  <2> QED  BY <1>1, <2>1 DEF BeginWrite, StoreInv, StoreTypeOK, TypeOK, settings, Thread
<1>5. StoredInv'  BY DEF StoredInv
<1>6. UnreadInv' /\ AbsentInv'
  BY <1>1 DEF PolicyInv, UnreadInv, AbsentInv, BeginWrite, TypeOK
<1>7. ManifestInv'  BY DEF ManifestInv, settings
<1> QED  BY <1>2, <1>3, <1>4, <1>5, <1>6, <1>7, QuietInv DEF PolicyInv

LEMMA StorePolicyInv ==
  ASSUME Inv, NEW t \in Thread, StorePolicy(t)
  PROVE  Inv'
<1> USE DEF Inv, StorePolicy
<1>1. StoreInv'  BY MoveTemporaryInv, WriteGoesOnInv DEF Thread
<1>2. Owner[t] \in Process  BY HostAssumption
<1>3. TypeOK'  BY <1>1, <1>2, QuietInv DEF TypeOK, StoreInv, settings
<1>4. WriteInv'
  BY DEF PolicyInv, MoveTemporary, WriteGoesOn, OpenTemporary, CloseTemporary, WriteFails,
         MoveFails, RemoveTemporary, Leave, At, WriteInv, StoreInv, StoreTypeOK, settings, Thread
<1>5. StoredInv'
  <2>1. CASE MoveTemporary(t) /\ t \notin disturbed
    <3>1. target' = blob[t] /\ blob[t] \in Policy
      BY <2>1, MoveTemporaryInv, BlobIsPolicy DEF Thread
    <3>2. blob[t].release = release[Owner[t]] /\ blob[t].required = required[Owner[t]]
      BY <2>1 DEF PolicyInv, WriteInv, MoveTemporary
    <3>3. storedBy' = Owner[t]
      BY <2>1 DEF WriteGoesOn, OpenTemporary, CloseTemporary, WriteFails, MoveFails,
                  RemoveTemporary, MoveTemporary, At, Leave, StoreInv, StoreTypeOK, Thread
    <3> QED  BY <3>1, <3>2, <3>3 DEF StoredInv, settings
  <2>2. CASE MoveTemporary(t) /\ t \in disturbed /\ storedBy' = Nobody
    BY <2>2 DEF StoredInv
  <2>3. CASE WriteGoesOn(t) /\ UNCHANGED storedBy
    BY <2>3 DEF WriteGoesOn, OpenTemporary, CloseTemporary, WriteFails, MoveFails,
                RemoveTemporary, PolicyInv, StoredInv, settings
  <2> QED  BY <2>1, <2>2, <2>3
<1>6. UnreadInv' /\ AbsentInv'
  <2>1. UNCHANGED reading
    BY DEF MoveTemporary, WriteGoesOn, OpenTemporary, CloseTemporary, WriteFails, MoveFails,
           RemoveTemporary
  <2> QED  BY <2>1 DEF PolicyInv, UnreadInv, AbsentInv
<1>7. ManifestInv'  BY DEF ManifestInv, settings
<1> QED  BY <1>1, <1>3, <1>4, <1>5, <1>6, <1>7, QuietInv DEF PolicyInv

(* What a scan yields where evidence is required has a hash, and a hash    *)
(* means that a manifest was accepted.                                     *)
LEMMA ScanEvidence ==
  ASSUME NEW p \in Process, mode[p] = "scan", NEW e \in Evidence(p)
  PROVE  /\ e.state # "failed" => e.state # "" /\ e.hash
         /\ e.hash => LoadManifest(p) = "ok"
<1>1. (e = Verified /\ LoadManifest(p) = "ok") \/ e = Failed
  BY DEF Evidence
<1>2. /\ Verified.state = "verified" /\ Verified.hash = TRUE
      /\ Failed.state = "failed" /\ Failed.hash = FALSE
  BY DEF Verified, Failed
<1> QED  BY <1>1, <1>2

(* Evidence says whether it has a hash. *)
LEMMA EvidenceType ==
  ASSUME NEW p \in Process, NEW e \in Evidence(p), mode[p] \in Mode
  PROVE  e.hash \in BOOLEAN
<1>1. CASE mode[p] = "provider"
  <2>1. e \in [state : {"", "verified", "failed"}, hash : BOOLEAN]
    BY <1>1 DEF Evidence
  <2> QED  BY <2>1
<1>2. CASE mode[p] = "off"
  <2>1. e = NoEvidence
    BY <1>2 DEF Evidence
  <2> QED  BY <2>1 DEF NoEvidence
<1>3. CASE mode[p] = "scan"
  <2>1. e = Verified \/ e = Failed
    BY <1>3 DEF Evidence
  <2>2. Verified.hash \in BOOLEAN /\ Failed.hash \in BOOLEAN
    BY DEF Verified, Failed
  <2> QED  BY <2>1, <2>2
<1> QED  BY <1>1, <1>2, <1>3 DEF Mode

(* A step that only uses the policy and the manifest keeps the invariant,  *)
(* if what it sends is as it should be.                                    *)
LEMMA EvidenceStep ==
  ASSUME Inv, NEW p \in Process, Remember(p) \/ UNCHANGED manifest_,
         UNCHANGED <<store, settings, alive, required, package, unread, storedBy>>,
         sent' \in Request \cup {NoRequest}, EvidenceEnforced'
  PROVE  Inv'
<1> USE DEF Inv
<1>1. StoreInv'  BY StoreUnchanged
<1>2. manifest_' \in [Process -> SUBSET Package] /\ ManifestInv'
  <2>1. CASE Remember(p)  BY <2>1, RememberInv DEF settings
  <2>2. CASE UNCHANGED manifest_  BY <2>2 DEF TypeOK, ManifestInv, settings
  <2> QED  BY <2>1, <2>2
<1>3. TypeOK'  BY <1>1, <1>2 DEF TypeOK, StoreInv, settings
<1>4. PolicyInv'
  BY DEF PolicyInv, WriteInv, StoredInv, UnreadInv, AbsentInv, store, settings
<1> QED  BY <1>1, <1>2, <1>3, <1>4

(* After a scan with a hash the manifest that is kept is sound. *)
LEMMA HashIsBacked ==
  ASSUME Inv, NEW p \in Process, Remember(p), UNCHANGED settings,
         mode[p] = "scan", LoadManifest(p) = "ok"
  PROVE  \E m \in manifest_'[p] : manifest_'[p] = {m} /\ Wrong(m, arch'[p]) = {}
<1>1. ManifestInv'  BY RememberInv DEF Inv, settings
<1>2. manifest_'[p] # {}  BY DEF Remember, Inv, TypeOK
<1> QED  BY <1>1, <1>2 DEF ManifestInv

(* What the service demands of a process that runs, its policy requires.   *)
LEMMA DemandedIsRequired ==
  ASSUME Inv, NEW p \in Process, p \in alive, Demanded(p)
  PROVE  required[p]
<1>1. storedBy = p => storedBy # Nobody
  BY HostAssumption
<1> QED  BY <1>1 DEF Inv, PolicyInv, StoredInv, Demanded, TypeOK

(* A step that sends a request of p keeps what EvidenceEnforced asks of it *)
(* if the request is as the policy of p and the manifest of p demand.      *)
LEMMA RequestEnforced ==
  ASSUME Inv, NEW p \in Process, p \in alive, sent'.of = p,
         UNCHANGED <<store, settings, alive, required, package, unread, storedBy>>,
         required[p] => /\ sent'.kind = "operation" => sent'.bound
                        /\ mode[p] = "scan" => sent'.hash,
         sent'.hash /\ mode[p] = "scan" =>
            \E m \in manifest_'[p] : manifest_'[p] = {m} /\ Wrong(m, arch'[p]) = {}
  PROVE  EvidenceEnforced'
<1>1. Demanded(p)' = Demanded(p) /\ mode'[p] = mode[p]
  BY DEF Demanded, store, settings
<1>2. Demanded(p)' => required[p]
  BY <1>1, DemandedIsRequired
<1> QED  BY <1>1, <1>2 DEF EvidenceEnforced

LEMMA ReportHeartbeatInv ==
  ASSUME Inv, NEW t \in Thread, ReportHeartbeat(t)
  PROVE  Inv'
<1> DEFINE p == Owner[t]
<1>1. p \in Process /\ p \in alive /\ mode[p] \in Mode
  BY HostAssumption DEF Inv, TypeOK, ReportHeartbeat, Idle
<1>2. PICK e \in (IF required[p] THEN RequiredEvidence(p) ELSE Evidence(p)) :
         sent' = [kind |-> "heartbeat", of |-> p,
                  bound |-> FALSE, hash |-> e.state # "" /\ e.hash]
  BY DEF ReportHeartbeat
<1>3. e \in Evidence(p) /\ (required[p] => e.state # "failed")
  BY <1>2 DEF RequiredEvidence
<1>4. Remember(p) /\ UNCHANGED <<store, settings, alive, required, package, unread, storedBy>>
  BY DEF ReportHeartbeat
<1>5. sent' \in Request
  <2>1. (e.state # "" /\ e.hash) \in BOOLEAN
    BY <1>1, <1>3, EvidenceType
  <2> QED  BY <1>1, <1>2, <2>1 DEF Request
<1>6. EvidenceEnforced'
  <2>1. /\ sent'.kind = "heartbeat" /\ sent'.of = p
        /\ sent'.hash = (e.state # "" /\ e.hash)
    BY <1>2
  <2>2. mode[p] = "scan" /\ required[p] => sent'.hash
    BY <1>1, <1>3, <2>1, ScanEvidence
  <2>3. mode[p] = "scan" /\ sent'.hash => LoadManifest(p) = "ok"
    BY <1>1, <1>3, <2>1, ScanEvidence
  <2>4. mode[p] = "scan" /\ sent'.hash =>
           \E m \in manifest_'[p] : manifest_'[p] = {m} /\ Wrong(m, arch'[p]) = {}
    BY <1>1, <1>4, <2>3, HashIsBacked
  <2> QED  BY <1>1, <1>4, <2>1, <2>2, <2>4, RequestEnforced
<1> QED  BY <1>1, <1>4, <1>5, <1>6, EvidenceStep

LEMMA AuthorizeOperationInv ==
  ASSUME Inv, NEW t \in Thread, NEW hostPath \in BOOLEAN, NEW modulePath \in BOOLEAN,
         AuthorizeOperation(t, hostPath, modulePath)
  PROVE  Inv'
<1> DEFINE p == Owner[t]
<1>1. p \in Process /\ p \in alive /\ mode[p] \in Mode
  BY HostAssumption DEF Inv, TypeOK, AuthorizeOperation, Idle
<1>2. UNCHANGED <<store, settings, alive, required, package, unread, storedBy>>
  BY DEF AuthorizeOperation
<1>3. CASE HostBound(p, hostPath, modulePath) = "host"
  <2>1. Remember(p)
    BY <1>3 DEF AuthorizeOperation
  <2>2. PICK e \in RequiredEvidence(p) :
           sent' = [kind |-> "operation", of |-> p, bound |-> TRUE, hash |-> e.hash]
    BY <1>3 DEF AuthorizeOperation
  <2>3. e \in Evidence(p) /\ e.state # "failed" /\ e.hash \in BOOLEAN
    BY <1>1, EvidenceType DEF RequiredEvidence
  <2>4. sent' \in Request
    BY <1>1, <2>2, <2>3 DEF Request
  <2>5. sent'.of = p /\ sent'.bound /\ sent'.hash = e.hash
    BY <2>2
  <2>6. mode[p] = "scan" => sent'.hash /\ LoadManifest(p) = "ok"
    BY <1>1, <2>3, <2>5, ScanEvidence
  <2>7. mode[p] = "scan" =>
           \E m \in manifest_'[p] : manifest_'[p] = {m} /\ Wrong(m, arch'[p]) = {}
    BY <1>1, <1>2, <2>1, <2>6, HashIsBacked
  <2>8. EvidenceEnforced'
    BY <1>1, <1>2, <2>5, <2>6, <2>7, RequestEnforced
  <2> QED  BY <1>1, <1>2, <2>1, <2>4, <2>8, EvidenceStep
<1>4. CASE HostBound(p, hostPath, modulePath) = "unbound"
  <2>1. ~required[p]
    BY <1>4 DEF HostBound
  <2>2. /\ sent' = [kind |-> "operation", of |-> p, bound |-> FALSE, hash |-> FALSE]
        /\ UNCHANGED manifest_
    BY <1>4 DEF AuthorizeOperation
  <2>3. sent' \in Request
    BY <1>1, <2>2 DEF Request
  <2>4. sent'.of = p /\ ~sent'.hash
    BY <2>2
  <2>5. EvidenceEnforced'
    BY <1>1, <1>2, <2>1, <2>4, RequestEnforced
  <2> QED  BY <1>1, <1>2, <2>2, <2>3, <2>5, EvidenceStep
<1> QED  BY <1>3, <1>4 DEF AuthorizeOperation

LEMMA CollectEvidenceInv ==
  ASSUME Inv, NEW t \in Thread, CollectEvidence(t)
  PROVE  Inv'
<1>1. Owner[t] \in Process
  BY HostAssumption
<1> QED  BY <1>1, EvidenceStep, QuietInv DEF CollectEvidence

LEMMA PackageChangesInv == Inv /\ PackageChanges => Inv'
<1> SUFFICES ASSUME Inv, PackageChanges PROVE Inv'
  OBVIOUS
<1> USE DEF Inv, PackageChanges
<1>1. StoreInv'  BY StoreUnchanged
<1>2. TypeOK'  BY <1>1, QuietInv DEF TypeOK, StoreInv, settings
<1>3. PolicyInv'
  BY DEF PolicyInv, WriteInv, StoredInv, UnreadInv, AbsentInv, store, settings
<1>4. ManifestInv'  BY DEF ManifestInv, settings
<1> QED  BY <1>1, <1>2, <1>3, <1>4, QuietInv

LEMMA StutterInv == Inv /\ UNCHANGED vars => Inv'
<1> SUFFICES ASSUME Inv, UNCHANGED vars PROVE Inv'
  OBVIOUS
<1> USE DEF Inv, vars
<1>1. StoreInv'  BY StoreUnchanged
<1>2. TypeOK'  BY <1>1 DEF TypeOK, StoreInv, settings
<1>3. PolicyInv'
  BY DEF PolicyInv, WriteInv, StoredInv, UnreadInv, AbsentInv, store, settings
<1>4. ManifestInv' /\ EvidenceEnforced'
  BY DEF ManifestInv, EvidenceEnforced, Demanded, store, settings
<1> QED  BY <1>1, <1>2, <1>3, <1>4

-----------------------------------------------------------------------------
(* Every reachable state of the processes and of the file is as Inv says.  *)
THEOREM Invariance == Spec => []Inv
<1>1. Inv /\ [Next]_vars => Inv'
  BY BeginStartInv, StartWithoutPolicyInv, StartInv, CrashInv, SetRequiredInv, StorePolicyInv,
     ReportHeartbeatInv, AuthorizeOperationInv, CollectEvidenceInv, PackageChangesInv, StutterInv
     DEF Next
<1> QED  BY <1>1, InitInv, PTL DEF Spec

(* Processes, files, manifests and requests keep their types; what is kept *)
(* of a manifest in particular is never more than one parse_rim2 accepted. *)
THEOREM TypeCorrect == Spec => []TypeOK
  BY Invariance, PTL DEF Inv

(* write_protected is atomic unless writers meet: the file holds the value *)
(* whose write returned last, whatever crashed or failed before and after. *)
THEOREM LastWriteIsKept == Spec => []StoreKeepsLast
  BY Invariance, PTL DEF Inv, StoreInv

(* A write that meets nobody and no fault does not fail.                   *)
THEOREM LoneWritesSucceed == Spec => []CommitsAlone
  BY Invariance, PTL DEF Inv, StoreInv

(* Memory and file agree on the policy that was received and stored last,  *)
(* across restarts of the process that stored it; one that could not read  *)
(* the file may miss a requirement and never adds one.                     *)
THEOREM PolicyStaysInStep == Spec => []PolicyInStep
<1>1. Inv => PolicyInStep
  BY HostAssumption DEF Inv, TypeOK, PolicyInv, StoredInv, UnreadInv, PolicyInStep
<1> QED  BY <1>1, Invariance, PTL

(* What the service demands is sent, and the hash that is sent belongs to  *)
(* a manifest that passed every check of parse_rim2.                       *)
THEOREM EvidenceIsEnforced == Spec => []EvidenceEnforced
  BY Invariance, PTL DEF Inv
=============================================================================
