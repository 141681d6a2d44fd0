# Verification of the SWM C++ SDK

TLA+ models of the client SDK under `Cpp/` (namespace `swm`): what its threads,
files and requests can do, checked by TLC on small instances and proved by
TLAPS for every instance. The SDKs in C#, Java, Go, Rust and Python implement
the same protocol; only the C++ one is modelled.

## 1. Inventory

`Client` (`src/client.cpp`) is the public face. Almost every operation goes
through `RequestPipeline` (`src/internal/request_pipeline.cpp`), which owns the
trusted time, the online keys, the session and the offline budget, encrypts and
signs requests, retries them and verifies the signed answers. A `Client` may be
used from any number of threads: every operation has an `_async` variant that
runs on a thread of its own.

| Component | State | Operations | What is hard | What makes it correct |
|---|---|---|---|---|
| AsyncTask (`async_task.hpp`) | outcome, two callback slots, a condition variable, a jthread, shared ownership | `make_async`, `wait`, `on_completed`, `on_error`, `cancel`, copy, drop | registration races publication and collection; who destroys the state | callbacks run at most once and are not lost; waiters return the outcome; the process survives |
| Online keys (`request_pipeline.cpp`) | current key, ring of previous keys, `refresh_mutex_` | `refresh_online_keys`, `install_key`, `current_key`, `find_key` | threads queue for one refresh; answers arrive after key changes | no redundant refresh; a key id keeps its key; in-flight answers find their key; the lock is given back |
| Request retry (`request_pipeline.cpp`) | attempt, elapsed time, last error | `send`, `send_web`, `resolve_request_policy` | deadline, timeout and backoff interact | deadlines are kept; retries that fit are made |
| Trusted clock (`trusted_clock.cpp`) | a static anchor: server time and tick | `set_authoritative_time`, `now_unix_ms` | several threads set it; slow answers | within half a round trip of the server |
| Offline budget (`request_pipeline.cpp`) | `offline.bin`, a latch | `note_verified_interaction`, `offline_locked` | restarts; a clock read under different anchors; a failing write | operations stop when the budget has run out, and after an overrun |
| Download (`client.cpp`) | destination, `.part` file | `download_update` | resuming across releases, crashes, range answers, redirects, short reads, full disks | the destination is a whole artifact or absent; downloads succeed once faults cease |
| Session (`request_pipeline.cpp`) | `session_`, `session_expires_at_` | `verify_authz`, header building | unlocked writes on a shared object | a session belongs to the identity of its process |
| Device identity (`device_identity.cpp`) | `identity.bin`, a CNG key, a pending key | `load_or_create`, `rotate_device_key`, `commit_pending`, `delete_pending` | several processes start at once; the answer to a rotation is lost; a crash before the commit | one first identity; keys in use are kept; the server knows the device's key unless a rotation was given up |
| StateStore (`state_store.cpp`) | DPAPI-protected files, `.tmp` files | `read_protected`, `write_protected` | threads and processes share one `.tmp` name; crashes and lost flushes | the file holds the value written last; a write that meets nobody succeeds |
| Update stream (`client.cpp`) | `running`, a worker thread, the reader's `pending_` | `watch_updates`, `stop`, `read_line`, `next_sse` | `stop` against callbacks; which errors reconnect; where reads cut the bytes | only authorized events; next to nothing after a stop; no silent end; reconnects; events do not depend on the cuts |
| Debug requests (`client.cpp`) | a map of credentials | create, cancel, watch | concurrent use of the map; requests that expire | an undecided ticket keeps its credentials; outcomes agree |
| Host integrity (`host_integrity.cpp`, `rim2.cpp`) | the policy in memory and in `integrity-policy.bin`, the accepted manifest | `set_host_integrity_required`, `evidence`, `required_evidence`, `parse_rim2` | a policy that memory, file and restarts see differently; files that change after they were accepted | memory and file agree; what the policy requires is sent |
| Operation authorization (`client.cpp`, `operation.cpp`) | the service's grants | `authorize_operation`, `consume_operation_authorization` | every attempt is a new request, and may be carried out although it failed | the caller knows of every effect whose answer was not lost |
| Events, feedback, enrollment (`client.cpp`) | none | `report_event(s)`, `submit_feedback`, `request_enrollment_ticket` | as for every request | one request of their class, in its deadline |
| Pure I/O and conversion | none | `http_client`, `crypto`, `hardware_evidence`, `multipart`, `common` | | not state machines |

Interactions. `send` first makes sure that the trusted clock is set
(`refresh_trusted_time`) and that the online key is fresh
(`refresh_online_keys`), then runs the loop of attempts; an attempt encrypts
under `current_key()`; `verify_authz` looks the answer's key up with
`find_key`, stores the session and calls `note_verified_interaction`.
`authorize_operation` and `consume_operation_authorization` ask
`offline_locked` first. `download_update` takes only headers from the pipeline.
`AsyncTask` carries any of these, and its stop token reaches the retry loop.

## 2. Modules

Each component has a module; `MC*` modules instantiate it for TLC and
`*Proofs` modules hold the theorems, those of modules that belong together in
one. Mutated forms of some definitions stand
directly before them and are used by no specification; they document which
change of the code each property notices.

### AsyncTask

A step is one critical section of `AsyncState::mutex`, or one call made outside
it. The worker's lambda is the sequence `CallableReturns`/`CallableThrows`,
`NotifyAll`, `CollectCallbacks`, `RunCallback`, `ReleaseState`; holders of a
handle run `BeginWait`/`ResumeWait`, `OnCompleted`, `OnError`, `InvokeNow`,
`Cancel`, `Share` and `Drop` in any order. Spurious wake-ups happen. A callback
is named by its registrant; `calls`, `registered` and `superseded` are history.
The callable is opaque: it returns or throws. Callbacks that throw are left
out (on the worker they end the process by the language's rule).
`ReleaseState` is the destruction of the worker's captured `shared_ptr`: if it
is the last reference, the thread joins itself and `terminated` is set.

`Promise` says what a holder may rely on: the outcome is settled once, waiters
observe it, callbacks run at most once and only for a matching outcome (a
completion callback may run for a failed task, but then it is the only one).
`ImplementsPromise` is the refinement, with the history of the implementation
as its mapping.

### OnlineKeys

Threads begin requests and forced refreshes, pass `has_fresh_key`, queue for
`refresh_mutex_` (`AcquireRefreshLock` with the second look, `GiveUpLock` at
the deadline), make the time and the manifest exchange while they hold the
lock, and install the key; a request then sends under the current key and its
answer arrives any number of key changes later. A manifest is its key: id,
material, `refresh_after`. Signature and identity checks are failing answers
(`RefreshFails` that is not transient). Transient failures fall back to a
current key that has not expired, as `AfterRefresh` says.

### RequestRetry, RequestPolicy and Operations

`RequestRetry` is the loop shared by `send` and `send_web`, over any table of
policies; time is the milliseconds since the call began and passes in requests
and sleeps. `RequestPolicy` is the table of `resolve_request_policy` for the
operation classes that use the loop (streams and downloads do not). A request
may outlast its timeout: `WinHttpSetTimeouts` gives the same timeout to each of
four phases. A stop that is noticed inside an attempt is an error of kind
`Timeout`, like others.

`Operations` composes the loop with the calls that use it and with the service
(external), which issues grants, lets each be used once and lets them expire.
`AuthorizeOperation`, `ConsumeOperationAuthorization`, `ReportEvents`,
`SubmitFeedback`, `RequestEnrollmentTicket` and `OtherCall` begin a call,
`AttemptEnds` delivers or loses the service's answer, and `Return` is
`throw_if_error` and `verify_authz`. Each attempt has its own nonce, so the
service carries out every request that reaches it, those too that arrive after
their attempt was given up (`ServiceHandlesLate`). `lost` is history: the grants
for which some request ended without an answer.

### TrustedTime

The static anchor of the process, the exchange of every thread that finds no
anchor, `offline.bin` and the latch. `tick` is `GetTickCount64`, the server's
time is `tick + Boot`; a tick is one unit of both. `Restart` replaces the
process: the anchor and the latch are lost, `offline.bin` stays. `noted` and
`overrun` are history in the server's time, which the code cannot see.
`RotateKey` and `ResetLatch` are the steps of a successful `rotate_device_key`
that make `offline.bin` unreadable (its entropy is the device) and clear the
latch, with other threads in between. One read is not modelled as failing: an
`offline.bin` that cannot be read at that moment makes `offline_locked` answer
"locked", which is the safe side, but `note_verified_interaction` takes it for
no previous interaction and judges no gap, so `OverrunStaysLocked` holds only
where that read succeeds.

### DeviceKeys

`identity.bin`, the CNG key store, the identity and the session of each
process, and the service's view of the device. Loading is `BeginLoad` (the
named mutex), `LoadExisting` or `CreateKey` and `WriteMetadata`, `LoadFails`,
and `Emplace`, which runs after the mutex was released and overwrites whatever
another thread set meanwhile. Rotating is `BeginRotation`, `SendRotation`,
`Challenge`, `Retry`, `RotationAnswered`, `CommitPending`, `AdoptPending`,
`ClearSession`, or `RotationFails` with `delete_pending`; a check for updates
is `BeginCheck`, `VerifyAuthz`, `StoreSession` or `CheckFails`. The service
(external) registers a device once, and rotates its key at the request of the
key that it knows, at any time after the request was sent. Processes crash
anywhere. A key stands for its install id, CNG name and device id. `givenUp`,
`rotated` and `overtaken` are history. `identity_` and `session_` are written
without a lock; the model takes each write as one step.

`verify_authz` compares the device of an answer with `device_id()`, which is
`ClientOptions::device_id` where the caller set it (`named`) and then says
nothing about the key. `VerifyAuthz` therefore lets every answer of such a
process through, and only answers for the loaded key elsewhere. `overtaken`
holds the identities that a process replaced while an answer for them could
still be stored: one that had passed the check or, in a named process, one
whose request had been signed. The code does store such sessions;
`SessionOfThisDevice` says that no other foreign session is ever there.

`BeginLoad` merges the look at `identity_` with taking the mutex: the look
depends only on the thread's own process, and a second thread that finds it
empty too is a `BeginLoad` of its own. Left out: an `identity.bin` that was
changed, damaged or cannot be read, and a failing `NCryptOpenKey` of a key that
exists (`device_identity.cpp:192`). Each of them falls through to a new
identity in the code, while `CreateKey` happens only where there is no key.

`DeviceRegister` is the promise: one key on the device, one at the service, and
the keys that the service has replaced. The device enrolls once, the service
registers that key, replaces it by new ones only, and the device follows to the
service's key. `ImplementsRegister` is the refinement; `identity.bin` is the
device's key, the single member of `known` the service's.

### StateStore, Rim2 and HostIntegrity

`StateStore` is one file and its `.tmp` file. A write is `BeginWrite`,
`OpenTemporary`, `CloseTemporary`, `MoveTemporary`, or it fails at any of them
(`WriteFails`, `MoveFails` and `RemoveTemporary`); a read is `OpenTarget` and
`CloseTarget`, or `OpenTargetFails`, and what it yields is one of `Unprotected`:
the value, or nothing, also where the file is whole and reading or unprotecting
it fails. Windows refuses to replace or remove a file that a stream has
open. A value is whole, absent, empty or torn, and torn values do not
decrypt. `disturbed` is history: the writes that met another writer, a reader
or an I/O fault.

`Rim2` is `parse_rim2` as the order of its checks and the code that each failing
one gives. A manifest is the set of what is wrong with it and its architecture
byte, which is compared with `arch_byte` of the options, where 0 stands for
every name but the known ones and for none: a manifest with byte 0 is accepted
where no architecture is set. `HostIntegrity` extends both: processes construct
their pipeline (`BeginStart` opens the file, `Start` takes over the policy of
this release, `StartWithoutPolicy` goes on without the file),
`SetRequired` receives a policy and starts writing it, `StorePolicy` is the
write, and `ReportHeartbeat`, `AuthorizeOperation` and `CollectEvidence` use the
policy and the evidence. `arch` is what the caller left in the options, since
that is what `HostIntegrityManager` sees. The
installed files change at any time (`PackageChanges`); processes crash anywhere.
`sent`, `storedBy` and `unread` are history: the request that the last step
sent, the process whose policy was written last and undisturbed, and the
processes that started without the policy in the file although it was there.

`PolicyInStep` and `EvidenceEnforced` hold up to `unread`, and say what an
unread policy can do: the process misses a requirement, which the code does by
design of `read_cached_policy` (no policy is "not required"), until its next
`check_update`; it never adds one. They claim nothing of a policy whose write
failed or met another writer or reader (`storedBy` is then `Nobody`).

### UpdateStream and SseReader

The worker of one `UpdateStream` and its owner. The worker is at the outer loop
(`LoopHead`), connecting, at the inner loop (`ReadHead`), in the SSE reader
(`NeedMore`, `ReadChunk`, `ReadFails`), handling a message (`Skip`, `Authz`,
`AuthzExpired`, `Refused`, `Accepted`), in a callback, or in the handler of an
error (`OnError`, `Decide`, `Backoff`). A message is its kind; one read brings
several. Callbacks return, throw an `Error` or a `std::exception` (both are
reported), or throw something else (swallowed by the `Impl`). `stop()` may come
at any moment, from a callback too; the destructor comes from outside the
callbacks, since in one it would join its own thread. Backoff times are left
out.

`SseReader` is the level below: tokens that stand for the bytes that `read_line`
and `next_sse` tell apart arrive in pieces (`Read`), are put together to lines
and the lines to events (`TakeLine`), until the server closes the connection
(`EndOfStream`). What the server will send is chosen at the start. The reference
does not run along: it looks at the whole text and says by positions which lines
there are, which of them are one event, and what its name and data are, and that
the events handed over are exactly those (`AreEvents`). `MCUpdateStream` composes
the two: a reader lives in a connection and runs to its end while the worker
waits in the first read of a stream.

### DebugRequests

Threads create, cancel and watch debug requests and share tickets. Each use of
`debug_credentials` under `debug_mutex` is one step; the requests in between are
answered, lost, or repeated by `send_web` (a repeated creation leaves an orphan
at the service). The service (external) decides a request once.

### Download

One call of `download_update` at a time, by an application that calls until
the newest release is installed, while releases are published. A call is
refused (`RefuseUpdate`) where `valid_download_url` rejects the URL of the
release or `base_url` has no slash after its host; both are chosen at the start
(`UrlForms`, `BaseSlash`). Files are
sequences of chunks tagged with release and position. An answer is a redirect,
a whole body (200), a range (206) with any start and with or without its
length, 416, or a failure; the body ends early, late or never, a write may fail
unnoticed, and the process may die at every step. Whatever is not the answer
the protocol expects counts as a fault, bounded by `MaxFaults`. Where a redirect
may lead (`RedirectHosts`) and where a range may start (`RangeStarts`) are what
`resolve_redirect_url` and `parse_content_range` let through.

`Installation` is the promise: the destination changes only while a published
release is staged, that is verified, and success is reported for what it then
holds. `ImplementsInstallation` is the refinement.

## 3. Runs

| Run | Bounds | Shows |
|---|---|---|
| `async_task` | two holders, one callback of each kind per holder | `NoCallbackLost`, `ImplementsPromise`, `WaitersReturn`, `CallbackDelivered` |
| `async_readme` | the README's single handle | `ProcessSurvives` is violated |
| `keys_ring` | two threads, four ids, two materials, a ring of two | `InFlightKeyFound`, `NoRebind` |
| `keys_refresh` | two threads, one id, lifetimes expired, due and fresh, time to 3 | `NoRedundantFetch`, `RefreshReturns`, `RefreshLockReleased` |
| `operations` | the shipped policies; requests of 0, 1 and 4 timeouts; sleeps late by 0 and 10 s; two grants (symmetric) | `DeadlineKept`, `GivesUpOnlyWhenLate`, `PolicyAllowsRetries`, `EffectsAccounted` |
| `trusted_time` | two threads, round trips to 2, a budget of 1, six ticks | `ClockAccurate`, `OfflineBudgetKept`, `OverrunStaysLocked` |
| `device_keys` | two threads of one process, which may have set `device_id`, one of another; three keys (symmetric); 1.8 million states | `KeyMaterialKept`, `FirstStartAgrees`, `CommitsDoNotOverlap`, `DeviceInStep`, `SessionOfThisDevice`, `ImplementsRegister` |
| `stream` | reads of up to two messages; byte streams of up to six tokens in reads of one or two, a limit of four | `EventsAuthorized`, `QuietAfterStop`, `NoSilentEnd`, `CutsDoNotMatter`, `StopEnds`, `DestructorReturns`, `Reconnects` |
| `debug_requests` | three threads, three requests (symmetric) | `CredentialsKept`, `ErasedAfterTold`, `OutcomesAgree` |
| `download` | releases of three and two chunks, URLs that are valid or not, a `base_url` with and without its slash, three answers per redirect loop, four faults | `DestinationWhole`, `CredentialsStayAtOrigin`, `ImplementsInstallation`, `InstalledUnlessStuck` |
| `host_integrity` | two threads of one process that scans and sets no architecture, one of another with a provider; two releases (symmetric); a manifest that is sound with architecture byte 0, sound for x64, or wrongly signed; 1.4 million states | `StoreKeepsLast`, `CommitsAlone`, `PolicyInStep`, `EvidenceEnforced` |
| `download_overlong` | one fault, a server that honours ranges | `InvalidPartDeleted` is violated |

Why the bounds suffice. Two holders let one register before and one after
the publication or the collection, and wait, share and drop against each other. Four ids are one more than the
ring and the current key hold, so ids leave the ring and return. Two threads
are a refresher and a thread queued behind it. A shrinking second release makes
a `.part` file a proper prefix, a foreign file, and a file too long. Two
threads and six ticks let an older answer overwrite a newer anchor and the
budget run out before and after a restart. Three keys are a first identity
and two rotations that compete, by threads of one process or of two. Two
messages in one read leave one in the buffer when a stop comes; six tokens hold
two events, a carriage return cut off from its line feed, and a line over the
limit. Three debug requests are one that is used, one whose answer was lost, and
another. Two grants are one that is lost and the one that replaces it. Three
writers of one state file are two that share a process and one that does not,
so that each file can be truncated, overlaid and moved by another. The scanning
process meets a manifest that it accepts, one of another architecture and one
that fails a signature; only whether the bytes are equal matters, so its own
need not vary. Section 5
says which results are proved for all bounds.

## 4. Fairness

* `AsyncTask`: the worker thread and threads inside `wait()` or about to invoke
  their callback keep running (the operating system schedules them); no thread
  has to call anything and no spurious wake-up is relied on.
* `OnlineKeys`: an attempt at the lock ends (the code gives up after 30 s) and an
  HTTP request ends (by its timeout). No fairness among lock waiters is
  assumed: `try_lock_for` promises none.
* `Download`: the application calls again until the newest release is
  installed, and the steps of a call that are not faults are taken; faults are
  bounded.

* `UpdateStream`: the worker thread keeps running: a connection attempt and a
  blocked read end by WinHTTP's timeouts, and the application's callbacks
  return.

Safety modules have no fairness. `CHECK_DEADLOCK FALSE` stands where the
modelled thing ends: a task, a stream, an application that has
installed the newest release.

## 5. Theorems

All are of the form `Spec => []P` (or `[][A]_vars`, or the abstract specification) for every value of the
constants that satisfies the module's `ASSUME`, by an inductive invariant
`Inv`: `Init => Inv`, `Inv /\ [Next]_vars => Inv'`, `Inv => P`.

* `AsyncTaskProofs`. `AtMostOnce` and `NoCallbackLost` are not inductive: that a
  callback has not run yet depends on where it is. `PlaceInv` says that a
  registered callback is in its slot, taken by the worker, with its registrant
  or superseded, according to the worker's stage; `AccountInv` ties the call
  counts to those places; `OutcomeInv` ties the stage to the outcome; `CauseInv`
  says why a callback ran. Proved: `AtMostOnce`, `NoCallbackLost`,
  `CallbackMatchesOutcome`, `WaitObservesOutcome`, `TypeOK`, and the refinement
  `ImplementsPromise` (`TaskIsAPromise`): each action settles, observes,
  delivers or stutters.
* `OnlineKeysProofs`. `SingleRefresher` (a thread in the exchange owns the lock)
  and `SyncedBeforeKey` (no key without a clock) make `NoRedundantFetch`
  inductive: only the owner installs a key. `AllTracked` says where in the ring
  the key of each in-flight request is after so many changes, from which
  `InFlightKeyFound` follows. Lemmas describe `install_key`'s removal, append and
  truncation of the ring. Proved: `KeyRingSound`, `InFlightKeyFound`,
  `NoRebind`, `NoRedundantFetch`, `TypeOK`.
* `OperationsProofs`. `TimeInv` bounds the elapsed time at each place of the
  loop, and a step of `Operations` is a step of the loop, none, or the next
  call. `EffectsAccounted` needs four more parts: an answer waits for the end of
  its attempt, then for the return of the call (`AnswerInv`); a grant is used
  only by who holds it (`SubjectInv`); whatever is held or about to be was
  issued (`IssuedInv`); and a refusal under way has its reason (`RefusalInv`).
  A request that arrives late changes only grants that it puts among the lost.
  Proved for any table whose timeouts fit their deadlines and any number of
  grants: `DeadlineKept`, `GivesUpOnlyWhenLate`, `EffectsAccounted`,
  `OperationsTypeOK`. `PolicyAllowsRetries` depends on the table: a policy
  `LeavesRoom` if its deadline covers the `Schedule` of attempts that all time
  out. `ScheduleInv` (a call in which nothing is late is not behind that
  schedule) gives `RoomAllowsRetries` for every table that leaves room, and
  `ShippedPolicyAllowsRetries` shows that the one of `resolve_request_policy`
  does, class by class.
* `TrustedTimeProofs`. `ExchangeInv` orders the ticks and the stamp of each
  exchange, `AnchorInv` gives the error of any anchor they may produce, and
  `BudgetInv` relates `offline.bin` to the server's time when it was written.
  Proved: `ClockAccurate`, `OfflineBudgetKept`, `OverrunStaysLocked`, `TypeOK`.
* `DownloadProofs`. The invariant says what is known of the part file at each
  place of a call: aligned with the offset, the same length as `written` unless
  a write failed, and equal to the artifact between verification and rename.
  Proved for any number of releases, sizes and faults: `DestinationWhole`,
  `PartAligned`, `CredentialsStayAtOrigin`, `TypeOK`, and the refinement
  `ImplementsInstallation` (`DownloadInstalls`): the release of a call is staged
  from its verification to its rename.
* `DeviceKeysProofs`. Keys in use must be told from keys that may be deleted:
  `Identities` are the keys that `identity.bin` names, that are loaded or about
  to be, or that signed a request; `KeysInv` says that they exist, and that
  pending keys exist and are nobody else's. `FirstInv` and `LineageInv` follow
  the first identity to its registration; `ServiceInv` says that the service
  knows one key and where that key is on the device; `SessionInv` follows the
  threads whose answer may still be stored (`Storable`, which depends on whether
  the caller set `device_id`). Proved for any number of threads,
  processes and keys: all properties of the run, among them the refinement
  `ImplementsRegister` (`KeysFormARegister`): writing the first metadata enrolls,
  a check for updates registers that key or changes nothing, a request carried
  out at the service, however late, brings a key that is new, and a commit
  follows to the service's key.
* `StreamProofs`. Of `UpdateStream`: `AuthorizedInv` ties the flag to the
  connection, `LateInv` says that after a late callback no loop goes round
  again, `EndInv` gives each way to the end its reason. Proved for reads of any
  size: `EventsAuthorized`, `QuietAfterStop`, `NoSilentEnd`, `TypeOK`. Of
  `SseReader`: `ReadingInv` says that `pending_` is what follows the last line
  taken, as far as it was read, and that the event being put together is that of
  the lines since the last blank one. Each lemma says what one more line adds to
  what the reference sees: to the lines of a block, to its name (`NameOfNext`),
  its data (`DataOfNext`) and the events (`EventsOfNext`). No induction over the
  text is needed, since the reference is not recursive; the least line feed after
  a position exists because the order of the numbers is well-founded. Proved for
  streams, reads and limits of any size: `CutsDoNotMatter`. Of
  `DebugRequests`: `RequestInv` says that calls
  and tickets are about requests that the service knows, `KnownInv` that a
  thread about to erase credentials has told the outcome, and that the final
  state a watcher has read is still the request's. Proved for any number of
  threads and requests: `CredentialsKept`, `ErasedAfterTold`, `OutcomesAgree`;
  the three depend on each other, since an erasure is harmless only because
  what was told is the service's decision.
* `HostIntegrityProofs`. For `StateStore`, `AloneInv` says that an undisturbed
  write is the only one and nobody reads, `TmpInv` what it then finds in the
  temporary file at each of its stages, and `BlobInv` that it writes a value.
  For `HostIntegrity`, `WriteInv` ties the value being written to the policy in
  memory, `StoredInv` the file to the process that stored it last, alive or
  restarted, unless it could not read the file; `UnreadInv` says that such a
  process has no requirement, `AbsentInv` that neither has one that does not
  run, and `ManifestInv` which manifests are ever kept. `DemandedIsRequired`
  then says that what the service demands is what the process acts on. Proved for
  any number of threads, processes and releases: `StoreKeepsLast`,
  `CommitsAlone`, `PolicyInStep`, `EvidenceEnforced`, `TypeOK`.

The liveness properties rest on facts that are safety properties, and these are
proved for all constants too; what stays with TLC is that a thread which can go
on does (fairness), and that it can (enabledness).

* `WakeupsAreNotLost` (for `WaitersReturn`): who sleeps in `wait()` is still to
  be notified. `CallbacksAreNotLost` does the same for `CallbackDelivered`.
* `LockIsNotLeaked` (for `RefreshLockReleased`): `refresh_mutex_` is owned exactly
  while its owner makes a request. `RefreshesAdvance` (for `RefreshReturns`): a
  refresh only goes forward, and its owner leaves as it gives the lock back.
* `StopIsSoon` (for `StopEnds` and `DestructorReturns`): a stop request is not
  taken back, and from then on every step of the worker lowers `StepsToEnd`, at
  most seven, wherever it was. `ReaderComesToAnEnd`: every step of the reader
  lowers `Left`, the bytes still to be read (twice) and to be taken.
* `CallsComeToAnEnd` (for `InstalledUnlessStuck`): a call goes from stage to
  stage, and within a stage lowers `ToCome`, to which redirects and range
  attempts contribute together. `SentInv` keeps it from falling below zero.
* `LoopsComeToAnEnd`: the loop of `send` lowers `StepsLeft`, so that it ends even
  under a policy without a deadline.

Some theorems are about properties that no run lists, since a stronger one is
checked in their place, the type invariant would be the only news, or a liveness
property stands for them: `AtMostOnce`,
`CallbackMatchesOutcome`, `WaitObservesOutcome` (parts of `ImplementsPromise`),
`KeyRingSound`, `PartAligned`, those of the list above and the `TypeOK`s.

Only model-checked: the liveness properties (`WaitersReturn`,
`CallbackDelivered`, `RefreshReturns`, `RefreshLockReleased`,
`InstalledUnlessStuck`, `StopEnds`, `DestructorReturns`, `Reconnects`:
fairness is beyond the prover), and the two violations. Every safety property of
a passing run is a theorem.

## 6. Findings

1. `async_readme`: the README's way to use a task can end the process. When
   `wait()` returns, the worker still has callbacks to collect; if the handle is
   destroyed before the worker's lambda is, `~jthread` runs on its own thread,
   and its `join()` throws in a destructor.
2. `download_overlong`: "Invalid `.part` files are deleted" (`Cpp/README.md`)
   does not hold for a `.part` file at least as long as the artifact, left by an
   interrupted download of a longer release: the server answers 416, which is
   thrown before the file is looked at, in this and in every later call.
   `InstalledUnlessStuck` shows that the only other way to get stuck is an update
   that is refused before anything is requested.

Worth knowing, though nothing contradicts it: a failed task with no `on_error`
callback runs its `on_completed` callback on the worker, but a callback
registered after the failure never runs; the offline latch is not persisted, so
a restart within the budget of the interaction that set it unlocks the client,
as the error message says ("restart the client and complete a full bootstrap").
A rotation whose answer is lost, or whose commit fails, after the service
accepted it leaves the device with a key that the service has replaced
(`DeviceInStep` shows that nothing else does); the code has no way back. A
stream reconnects after a 401 or 403 at connection time, which is an `Api`
error there, but ends on an `authz_expired` event; after `stop()` it may still
deliver one event and report the cancellation as an error.

`HostIntegrityManager` copies the options before `Client`'s constructor fills in
the architecture (`client.cpp:298-304`, after the pipeline was built). The
example of `Cpp/README.md:101-112` enables host integrity and sets no
architecture: RIM2 verification then compares with byte 0 and ends in
`host_release_mismatch` for a manifest of x86 or x64, although the constructor
means to default it. `EvidenceEnforced` makes no rule of this: it says that an
accepted manifest has the byte of the options as the code sees them.
A read of `integrity-policy.bin` that fails at a start leaves the requirement off
until the next `check_update`. A policy file of another
release of the same application counts as none, that is as "not required". Two
writers of one state file can leave it torn or with the other's value; a torn
file counts as none. A retry inside one `consume_operation_authorization` may
tell the caller that the grant was used, by an earlier attempt of the same
call; one inside `authorize_operation` may leave a grant with nobody. A stop
that is noticed inside an attempt is handled as a timeout and sleeps the backoff
before the loop looks at the stop again. Every read of a body restarts
WinHTTP's receive timeout, so that a slow answer has no worst-case time: the
deadline bounds the start of attempts. `valid_download_url` refuses every URL if
`base_url` has no slash after its host, as in `https://example.com`, the form
that `Cpp/README.md:51` shows: no update can be downloaded under it
(`RefuseUpdate`). Where the caller sets `device_id`, an answer to a request that
the old key signed is accepted after a rotation, and its session replaces the
cleared one. Two downloads to one destination at the
same time share the part file.

## 7. Not modelled, and the plan

Not modelled: the WinHTTP, CNG and DPAPI calls themselves, hashing, the encoders
(multipart, form, base64, the bytes of RIM2), hardware evidence, the contents of
messages, the characters of URLs, and the other languages' SDKs. Of
`check_update` the second round after a 428 answer and `verify_artifact_manifest`
are left out: one is a repeated request with more fields, the other a list of
comparisons over data. `StateStore::erase` has no caller. Two simultaneous
downloads to one destination, and two logon sessions that do not share the named
mutex, are outside of what the code guards against.

Planned, in this order:

1. The retry loop inside a refresh, with the 30 s wait for the lock against the
   40 s deadline of the exchange it waits for.
2. The 428 round of `check_update`.
