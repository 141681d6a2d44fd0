---------------------------- MODULE HostIntegrity ----------------------------
(***************************************************************************)
(* HostIntegrityManager (Cpp/src/internal/host_integrity.cpp) in the       *)
(* processes of one application: the policy that check_update receives and *)
(* keeps in memory and in integrity-policy.bin, and the evidence that a    *)
(* heartbeat or an operation request carries because of it.                *)
(***************************************************************************)
EXTENDS Rim2, StateStore

CONSTANTS
    Owner,        \* the process of each thread
    Release,      \* the releases of the application that share the directory
    Options,      \* how each process may be configured: mode and arch below
    Package       \* what may be on disk in the place of the manifest

Thread == Writer
Process == Reader

(* What store_policy writes: app_id and version_code go with the release. *)
Policy == [release : Release, required : BOOLEAN]

Mode == {"off", "scan", "provider"}

Arch == {"", "x86", "x64"}

(* A manifest as Rim2 sees it; "missing" when there is none. *)
Manifest == [defects : SUBSET (Check \cup {"missing"}), architecture : Nat]

Nobody == "nobody"

ASSUME HostAssumption ==
    /\ Nobody \notin Process
    /\ Blob = Policy
    /\ Owner \in [Thread -> Process]
    /\ Options \in [Process -> SUBSET (Mode \X Arch)]
    /\ Package \subseteq Manifest

VARIABLES
    alive,        \* the processes that have constructed their Client
    release,      \* options_.release_id, app_id and version_code
    mode,         \* evidence_provider, enabled, or neither
    arch,         \* ClientOptions::arch as the caller left it
    required,     \* host_integrity_required_
    manifest_,    \* HostIntegrityManager::manifest_: the one that was accepted
    package,      \* the manifest file on disk
    unread,       \* history: processes that started without the policy in the file,
                  \* because opening, reading or unprotecting it failed
    storedBy,     \* history: the process whose policy was received and written
                  \* last, undisturbed, or Nobody
    sent          \* history: the request of the last step, if it depends on the policy

settings == <<release, mode, arch>>
vars == <<store, settings, alive, required, manifest_, package, unread, storedBy, sent>>

NoRequest == [kind |-> "none"]
Request == [kind : {"heartbeat", "operation"}, of : Process, bound : BOOLEAN, hash : BOOLEAN]

Quiet == sent' = NoRequest

TypeOK ==
    /\ StoreTypeOK
    /\ alive \subseteq Process
    /\ release \in [Process -> Release]
    /\ mode \in [Process -> Mode]
    /\ arch \in [Process -> Arch]
    /\ required \in [Process -> BOOLEAN]
    /\ manifest_ \in [Process -> SUBSET Package]
    /\ package \in Package
    /\ unread \subseteq Process
    /\ storedBy \in Process \cup {Nobody}
    /\ sent \in Request \cup {NoRequest}

Init ==
    /\ StoreInit
    /\ alive = {}
    /\ release \in [Process -> Release]
    /\ mode \in [Process -> Mode] /\ arch \in [Process -> Arch]
    /\ \A p \in Process : <<mode[p], arch[p]>> \in Options[p]
    /\ required = [p \in Process |-> FALSE]
    /\ manifest_ = [p \in Process |-> {}]
    /\ package \in Package
    /\ unread = {}
    /\ storedBy = Nobody /\ sent = NoRequest

-----------------------------------------------------------------------------
(* The life of a process. *)

(* RequestPipeline's constructor opens integrity-policy.bin, *)
BeginStart(p) ==
    /\ p \notin alive
    /\ OpenTarget(p)
    /\ UNCHANGED <<settings, alive, required, manifest_, package, unread, storedBy>>
    /\ Quiet

(* ... or goes on without it. *)
StartWithoutPolicy(p) ==
    /\ p \notin alive
    /\ OpenTargetFails(p)
    /\ alive' = alive \cup {p}
    /\ unread' = IF target \in Policy THEN unread \cup {p} ELSE unread
    /\ UNCHANGED <<settings, required, manifest_, package, storedBy>> /\ Quiet

(* read_cached_policy: the policy of this very release, if that was read. *)
CachedPolicy(p, read) ==
    IF read # Absent /\ read.release = release[p] THEN read.required ELSE FALSE

(* Mutant of Start: the cached policy is not looked at. *)
StartAfresh(p) ==
    /\ p \in reading /\ CloseTarget(p)
    /\ alive' = alive \cup {p}
    /\ UNCHANGED <<settings, required, manifest_, package, unread, storedBy>> /\ Quiet
(* ... and takes the policy over.  The architecture is defaulted later, in *)
(* a copy of the options that HostIntegrityManager does not see.           *)
Start(p) ==
    /\ p \in reading /\ CloseTarget(p)
    /\ alive' = alive \cup {p}
    /\ \E read \in Unprotected :
          /\ required' = [required EXCEPT ![p] = CachedPolicy(p, read)]
          /\ unread' = IF target \in Policy /\ read = Absent THEN unread \cup {p} ELSE unread
    /\ UNCHANGED <<settings, manifest_, package, storedBy>> /\ Quiet

Threads(p) == {t \in Thread : Owner[t] = p}

(* The process ends, wherever its threads are. *)
Crash(p) ==
    /\ p \in alive \cup reading
    /\ alive' = alive \ {p}
    /\ StoreCrash(Threads(p), {p})
    /\ required' = [required EXCEPT ![p] = FALSE]
    /\ manifest_' = [manifest_ EXCEPT ![p] = {}]
    /\ unread' = unread \ {p}
    /\ UNCHANGED <<settings, package, storedBy>> /\ Quiet

-----------------------------------------------------------------------------
(* check_update has verified an answer: set_host_integrity_required sets   *)
(* the member and writes the file, without a lock.                         *)
SetRequired(t, needed) ==
    LET p == Owner[t] IN
    /\ p \in alive
    /\ required' = [required EXCEPT ![p] = needed]
    /\ BeginWrite(t, [release |-> release[p], required |-> needed])
    /\ unread' = unread \ {p}
    /\ storedBy' = Nobody
    /\ UNCHANGED <<settings, alive, manifest_, package>> /\ Quiet

StorePolicy(t) ==
    /\ \/ /\ MoveTemporary(t)
          /\ storedBy' = IF t \in disturbed THEN Nobody ELSE Owner[t]
       \/ /\ WriteGoesOn(t)
          /\ UNCHANGED storedBy
    /\ UNCHANGED <<settings, alive, required, manifest_, package, unread>> /\ Quiet

-----------------------------------------------------------------------------
(* Evidence. *)

NoEvidence == [state |-> "", hash |-> FALSE]
Failed == [state |-> "failed", hash |-> FALSE]
Verified == [state |-> "verified", hash |-> TRUE]

(* load_manifest: the manifest is kept once it has been accepted. *)
LoadManifest(p) ==
    IF manifest_[p] # {} THEN "ok"
    ELSE IF "missing" \in package.defects THEN "host_manifest_missing"
    ELSE ParseRim2(package, arch[p])

(* evidence(): what a provider returns, or a scan of the files that the    *)
(* manifest lists.  A file that is not there is left out; one that cannot  *)
(* be read fails the scan.                                                 *)
Evidence(p) ==
    CASE mode[p] = "provider" ->
            [state : {"", "verified", "failed"}, hash : BOOLEAN]
      [] mode[p] = "off" -> {NoEvidence}
      [] OTHER -> IF LoadManifest(p) = "ok" THEN {Verified, Failed} ELSE {Failed}

(* Mutant of RequiredEvidence: a failed scan is sent along like any other. *)
AnyEvidence(p) == Evidence(p)
(* required_evidence() throws if the state is "failed". *)
RequiredEvidence(p) == {e \in Evidence(p) : e.state # "failed"}

(* Either of them remembers an accepted manifest. *)
Remember(p) ==
    manifest_' = [manifest_ EXCEPT ![p] =
        IF @ = {} /\ mode[p] = "scan" /\ LoadManifest(p) = "ok" THEN {package} ELSE @]

Idle(t) == Owner[t] \in alive /\ stage[t] = "idle"

(* report_heartbeat: failed evidence ends the call only if the policy      *)
(* requires evidence; otherwise the heartbeat goes out without it.         *)
ReportHeartbeat(t) ==
    LET p == Owner[t] IN
    /\ Idle(t)
    /\ \E hash \in {e.state # "" /\ e.hash :
                      e \in IF required[p] THEN RequiredEvidence(p) ELSE Evidence(p)} :
          sent' = [kind |-> "heartbeat", of |-> p, bound |-> FALSE, hash |-> hash]
    /\ Remember(p)
    /\ UNCHANGED <<store, settings, alive, required, package, unread, storedBy>>

(* validate_operation_authorization_request: whether the request is bound  *)
(* to the host, or "invalid".                                              *)
HostBound(p, hostPath, modulePath) ==
    IF hostPath # modulePath THEN "invalid"
    ELSE IF ~hostPath /\ required[p] THEN "invalid"
    ELSE IF hostPath THEN "host" ELSE "unbound"

(* authorize_operation: a host-bound request carries the manifest's hash   *)
(* and those of the two files.                                             *)
AuthorizeOperation(t, hostPath, modulePath) ==
    LET p == Owner[t] IN
    /\ Idle(t)
    /\ \/ /\ HostBound(p, hostPath, modulePath) = "host"
          /\ \E hash \in {e.hash : e \in RequiredEvidence(p)} :
                sent' = [kind |-> "operation", of |-> p, bound |-> TRUE, hash |-> hash]
          /\ Remember(p)
       \/ /\ HostBound(p, hostPath, modulePath) = "unbound"
          /\ sent' = [kind |-> "operation", of |-> p, bound |-> FALSE, hash |-> FALSE]
          /\ UNCHANGED manifest_
    /\ UNCHANGED <<store, settings, alive, required, package, unread, storedBy>>

(* check_update reports whatever evidence there is, and a call that        *)
(* required_evidence ends sends nothing: only the manifest may be kept.    *)
CollectEvidence(t) ==
    /\ Idle(t)
    /\ Remember(Owner[t])
    /\ UNCHANGED <<store, settings, alive, required, package, unread, storedBy>> /\ Quiet

(* The installed files change under the processes. *)
PackageChanges ==
    /\ package' \in Package \ {package}
    /\ UNCHANGED <<store, settings, alive, required, manifest_, unread, storedBy>> /\ Quiet

-----------------------------------------------------------------------------
Next ==
    \/ \E p \in Process : BeginStart(p) \/ StartWithoutPolicy(p) \/ Start(p) \/ Crash(p)
    \/ \E t \in Thread, needed \in BOOLEAN : SetRequired(t, needed)
    \/ \E t \in Thread : StorePolicy(t) \/ ReportHeartbeat(t) \/ CollectEvidence(t)
    \/ \E t \in Thread, hostPath, modulePath \in BOOLEAN :
          AuthorizeOperation(t, hostPath, modulePath)
    \/ PackageChanges

Spec == Init /\ [][Next]_vars

-----------------------------------------------------------------------------
(* The process whose policy is in integrity-policy.bin, received and       *)
(* written last and undisturbed by other writers and readers, has the same *)
(* policy in memory, also after restarts.  The one exception is a process  *)
(* that could not read the file when it started, and it errs to one side:  *)
(* it may miss a requirement until its next check_update, and never adds   *)
(* one.                                                                    *)
PolicyInStep ==
    storedBy \in alive =>
        /\ target \in Policy
        /\ required[storedBy] => target.required
        /\ target.required /\ ~required[storedBy] => storedBy \in unread

(* The service demands evidence of p, as far as p can know: it is what it  *)
(* was told last, or what it stored and, since it started, has read.       *)
Demanded(p) == required[p] \/ (storedBy = p /\ p \notin unread /\ target.required)

(* While the service demands evidence, be it before or after a restart, no *)
(* operation is requested unbound, and a process that scans its files      *)
(* sends nothing without the hash of its manifest; and whenever it sends   *)
(* that hash, the manifest it keeps is one that passed every check, for    *)
(* the architecture byte of its options, however the files have changed    *)
(* since.                                                                  *)
EvidenceEnforced ==
    sent # NoRequest =>
        /\ Demanded(sent.of) =>
              /\ sent.kind = "operation" => sent.bound
              /\ mode[sent.of] = "scan" => sent.hash
        /\ sent.hash /\ mode[sent.of] = "scan" =>
              \E m \in manifest_[sent.of] :
                 manifest_[sent.of] = {m} /\ Wrong(m, arch[sent.of]) = {}
=============================================================================
