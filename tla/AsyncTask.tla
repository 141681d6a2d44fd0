------------------------------ MODULE AsyncTask ------------------------------
(***************************************************************************)
(* swm::AsyncTask<T> and make_async (Cpp/include/swm/async_task.hpp): one  *)
(* task, the jthread that runs it, and the threads that hold copies of the *)
(* handle.  A step is what happens between two releases of                 *)
(* AsyncState::mutex, or one call that is made without the mutex.          *)
(*                                                                         *)
(* A callback is named by the holder that registers it.                    *)
(***************************************************************************)
EXTENDS Naturals

CONSTANTS
    Holder,      \* threads that may own a copy of the task handle
    NoCallback   \* an empty std::function

ASSUME NoCallbackIsNotAHolder == NoCallback \notin Holder

Kind == {"completed", "failed"}

VARIABLES
    worker,      \* how far the worker lambda has come
    value,       \* AsyncState::value is engaged
    exception,   \* AsyncState::exception is set
    done,        \* AsyncState::done
    stop,        \* request_stop() was called on the jthread
    slot,        \* AsyncState::completed and AsyncState::failed
    taken,       \* the worker's local copies of the two callbacks
    handles,     \* the holders that own a reference to the state
    pc,          \* what a holder is doing: idle, inside wait(), or about to
                 \* invoke its own callback of a kind (invoke_now)
    returned,    \* how the holder's last wait() ended
    terminated,  \* std::terminate was called
    calls,       \* history: how often each callback was invoked
    registered,  \* history: the callbacks passed to on_completed / on_error
    superseded   \* history: callbacks overwritten in their slot

vars == <<worker, value, exception, done, stop, slot, taken, handles, pc,
          returned, terminated, calls, registered, superseded>>
outcome == <<value, exception, done>>
history == <<calls, registered, superseded>>

(* The stages of the worker lambda, in order. *)
WorkerStage == {"running", "settled", "notified", "collected", "returned", "gone"}

TypeOK ==
    /\ worker \in WorkerStage
    /\ value \in BOOLEAN
    /\ exception \in BOOLEAN
    /\ done \in BOOLEAN
    /\ stop \in BOOLEAN
    /\ slot \in [Kind -> Holder \cup {NoCallback}]
    /\ taken \in [Kind -> Holder \cup {NoCallback}]
    /\ handles \subseteq Holder
    /\ pc \in [Holder -> {"idle", "asleep", "awake"} \cup Kind]
    /\ returned \in [Holder -> {"none", "value", "exception"}]
    /\ terminated \in BOOLEAN
    /\ calls \in [Kind -> [Holder -> Nat]]
    /\ registered \in [Kind -> SUBSET Holder]
    /\ superseded \in [Kind -> SUBSET Holder]

Init ==
    /\ worker = "running"
    /\ value = FALSE /\ exception = FALSE /\ done = FALSE
    /\ stop = FALSE
    /\ slot = [k \in Kind |-> NoCallback]
    /\ taken = [k \in Kind |-> NoCallback]
    /\ \E h \in Holder : handles = {h}
    /\ pc = [h \in Holder |-> "idle"]
    /\ returned = [h \in Holder |-> "none"]
    /\ terminated = FALSE
    /\ calls = [k \in Kind |-> [h \in Holder |-> 0]]
    /\ registered = [k \in Kind |-> {}]
    /\ superseded = [k \in Kind |-> {}]

-----------------------------------------------------------------------------
(* The worker lambda of make_async. *)

(* callable(stop) returned: value and done are published in one critical   *)
(* section.                                                                *)
CallableReturns ==
    /\ worker = "running"
    /\ worker' = "settled"
    /\ value' = TRUE /\ done' = TRUE
    /\ UNCHANGED <<exception, stop, slot, taken, handles, pc, returned,
                   terminated, history>>

(* callable(stop) threw; a stopped callable throws a cancelled error. *)
CallableThrows ==
    /\ worker = "running"
    /\ worker' = "settled"
    /\ exception' = TRUE /\ done' = TRUE
    /\ UNCHANGED <<value, stop, slot, taken, handles, pc, returned,
                   terminated, history>>

(* Mutant of NotifyAll: condition.notify_one(). *)
NotifyOne ==
    /\ worker = "settled"
    /\ worker' = "notified"
    /\ \/ /\ \A h \in Holder : pc[h] # "asleep"
          /\ pc' = pc
       \/ \E h \in Holder : pc[h] = "asleep" /\ pc' = [pc EXCEPT ![h] = "awake"]
    /\ UNCHANGED <<outcome, stop, slot, taken, handles, returned, terminated,
                   history>>
(* condition.notify_all() *)
NotifyAll ==
    /\ worker = "settled"
    /\ worker' = "notified"
    /\ pc' = [h \in Holder |-> IF pc[h] = "asleep" THEN "awake" ELSE pc[h]]
    /\ UNCHANGED <<outcome, stop, slot, taken, handles, returned, terminated,
                   history>>

(* Both callbacks are moved out of the state under the mutex. *)
CollectCallbacks ==
    /\ worker = "notified"
    /\ worker' = "collected"
    /\ taken' = slot
    /\ slot' = [k \in Kind |-> NoCallback]
    /\ UNCHANGED <<outcome, stop, handles, pc, returned, terminated, history>>

Invoked(k, h) == [calls EXCEPT ![k][h] = @ + 1]

(* Mutant of RunCallback: "if" in place of "else if". *)
RunBoth ==
    /\ worker = "collected"
    /\ worker' = "returned"
    /\ calls' = [k \in Kind |-> [h \in Holder |->
            calls[k][h] + (IF taken[k] = h /\ (k = "failed" => exception) THEN 1 ELSE 0)]]
    /\ UNCHANGED <<outcome, stop, slot, taken, handles, pc, returned,
                   terminated, registered, superseded>>
(* The collected callback runs on the worker, without the mutex.  The      *)
(* second branch is "else if (completed)": it is also taken by a task that *)
(* failed while no on_error callback was registered.                       *)
RunCallback ==
    /\ worker = "collected"
    /\ worker' = "returned"
    /\ \/ /\ exception /\ taken["failed"] # NoCallback
          /\ calls' = Invoked("failed", taken["failed"])
       \/ /\ ~(exception /\ taken["failed"] # NoCallback)
          /\ taken["completed"] # NoCallback
          /\ calls' = Invoked("completed", taken["completed"])
       \/ /\ ~(exception /\ taken["failed"] # NoCallback)
          /\ taken["completed"] = NoCallback
          /\ calls' = calls
    /\ UNCHANGED <<outcome, stop, slot, taken, handles, pc, returned,
                   terminated, registered, superseded>>

(* The lambda's captured shared_ptr is destroyed on the worker thread.  If *)
(* it is the last reference, ~AsyncState runs here: ~jthread joins the     *)
(* thread it runs on, join() throws in a noexcept destructor.              *)
ReleaseState ==
    /\ worker = "returned"
    /\ worker' = "gone"
    /\ terminated' = (handles = {})
    /\ UNCHANGED <<outcome, stop, slot, taken, handles, pc, returned, history>>

-----------------------------------------------------------------------------
(* The public operations of a handle. *)

Free(h) == h \in handles /\ pc[h] = "idle" /\ ~terminated

(* The end of wait(), once its predicate holds. *)
(* The last branch is "AsyncTask completed without a value".               *)
WaitResult ==
    IF exception THEN "exception" ELSE IF value THEN "value" ELSE "novalue"

(* wait(): one evaluation of the predicate under the mutex. *)
EvaluatePredicate(h) ==
    \/ /\ done
       /\ pc' = [pc EXCEPT ![h] = "idle"]
       /\ returned' = [returned EXCEPT ![h] = WaitResult]
    \/ /\ ~done
       /\ pc' = [pc EXCEPT ![h] = "asleep"]
       /\ UNCHANGED returned

BeginWait(h) ==
    /\ Free(h)
    /\ EvaluatePredicate(h)
    /\ UNCHANGED <<worker, outcome, stop, slot, taken, handles, terminated, history>>

(* A condition variable may wake a waiter without a notification. *)
SpuriousWake(h) ==
    /\ pc[h] = "asleep"
    /\ pc' = [pc EXCEPT ![h] = "awake"]
    /\ UNCHANGED <<worker, outcome, stop, slot, taken, handles, returned,
                   terminated, history>>

ResumeWait(h) ==
    /\ pc[h] = "awake"
    /\ EvaluatePredicate(h)
    /\ UNCHANGED <<worker, outcome, stop, slot, taken, handles, terminated, history>>

(* The callback kind that the task's outcome calls for. *)
Matches(k) == exception = (k = "failed")

Store(k, h) ==
    /\ slot' = [slot EXCEPT ![k] = h]
    /\ superseded' = [superseded EXCEPT ![k] = @ \cup ({slot[k]} \ {NoCallback})]

(* Mutant of Register: the outcome is not looked at. *)
StoreAlways(k, h) ==
    /\ Free(h) /\ h \notin registered[k]
    /\ registered' = [registered EXCEPT ![k] = @ \cup {h}]
    /\ Store(k, h) /\ pc' = pc
    /\ UNCHANGED <<worker, outcome, stop, taken, handles, returned, terminated, calls>>
(* on_completed(callback) and on_error(callback): one test and store under *)
(* the mutex; a callback that is already due is invoked after the unlock.  *)
(* Each holder registers one callback of each kind.                        *)
Register(k, h) ==
    /\ Free(h) /\ h \notin registered[k]
    /\ registered' = [registered EXCEPT ![k] = @ \cup {h}]
    /\ \/ /\ done /\ Matches(k)
          /\ pc' = [pc EXCEPT ![h] = k]
          /\ UNCHANGED <<slot, superseded>>
       \/ /\ ~(done /\ Matches(k))
          /\ Store(k, h)
          /\ UNCHANGED pc
    /\ UNCHANGED <<worker, outcome, stop, taken, handles, returned, terminated, calls>>

OnCompleted(h) == Register("completed", h)
OnError(h) == Register("failed", h)

(* if (invoke_now && callback) callback(...) *)
InvokeNow(k, h) ==
    /\ pc[h] = k
    /\ calls' = Invoked(k, h)
    /\ pc' = [pc EXCEPT ![h] = "idle"]
    /\ UNCHANGED <<worker, outcome, stop, slot, taken, handles, returned,
                   terminated, registered, superseded>>

Cancel(h) ==
    /\ Free(h)
    /\ stop' = TRUE
    /\ UNCHANGED <<worker, outcome, slot, taken, handles, pc, returned,
                   terminated, history>>

(* The handle is copied to another thread. *)
Share(h, g) ==
    /\ Free(h) /\ g \notin handles
    /\ handles' = handles \cup {g}
    /\ UNCHANGED <<worker, outcome, stop, slot, taken, pc, returned, terminated, history>>

(* A handle is destroyed.  If it is the last reference, ~jthread joins a   *)
(* worker that has already left its lambda, which is harmless.             *)
Drop(h) ==
    /\ Free(h)
    /\ handles' = handles \ {h}
    /\ UNCHANGED <<worker, outcome, stop, slot, taken, pc, returned, terminated, history>>

-----------------------------------------------------------------------------
Callable == CallableReturns \/ CallableThrows

WorkerNext ==
    Callable \/ NotifyAll \/ CollectCallbacks \/ RunCallback \/ ReleaseState

HolderNext(h) ==
    \/ BeginWait(h) \/ SpuriousWake(h) \/ ResumeWait(h)
    \/ OnCompleted(h) \/ OnError(h)
    \/ \E k \in Kind : InvokeNow(k, h)
    \/ Cancel(h) \/ Drop(h)
    \/ \E g \in Holder : Share(h, g)

Next == WorkerNext \/ \E h \in Holder : HolderNext(h)

Spec == Init /\ [][Next]_vars

(* The worker thread keeps running, and a thread that owns the next step   *)
(* of wait() or of a due callback takes it.  No thread is obliged to call  *)
(* anything, and no spurious wake-up may be relied on.                     *)
Fairness ==
    /\ WF_vars(WorkerNext)
    /\ \A h \in Holder : WF_vars(ResumeWait(h))
    /\ \A h \in Holder : WF_vars(\E k \in Kind : InvokeNow(k, h))

LiveSpec == Spec /\ Fairness

-----------------------------------------------------------------------------
(* No callback is invoked twice, although a callback registered while the  *)
(* worker is between publishing the outcome and collecting the callbacks   *)
(* could be run by both sides (on_completed / on_error against the worker).*)
AtMostOnce == \A k \in Kind, h \in Holder : calls[k][h] <= 1

(* A callback of the kind the outcome calls for is never lost: once the    *)
(* worker has run what it collected, such a callback has run, is about to  *)
(* be run by the thread that registered it, or was overwritten by another. *)
NoCallbackLost ==
    worker \in {"returned", "gone"} =>
        \A k \in Kind : Matches(k) =>
            \A h \in registered[k] :
                calls[k][h] = 1 \/ pc[h] = k \/ h \in superseded[k]

(* An on_error callback runs only for a task that threw, and an            *)
(* on_completed callback runs for such a task only on the worker, when no  *)
(* on_error callback had been registered by the time it collected them     *)
(* (the "else if (completed)" branch of the worker lambda).                *)
CallbackMatchesOutcome ==
    /\ (\E h \in Holder : calls["failed"][h] > 0) => exception
    /\ exception => \A h \in Holder :
            calls["completed"][h] > 0 => /\ taken["completed"] = h
                                         /\ taken["failed"] = NoCallback

(* wait() never returns before the task is done, returns what the task     *)
(* produced, the same to every thread, and never reaches "AsyncTask        *)
(* completed without a value".                                             *)
WaitObservesOutcome ==
    \A h \in Holder : returned[h] # "none" =>
        /\ done
        /\ returned[h] = IF exception THEN "exception" ELSE "value"

(* The promise that the task's state stands for. *)
PromiseOutcome ==
    IF ~done THEN "pending" ELSE IF exception THEN "exception" ELSE "value"

P == INSTANCE Promise WITH
        outcome <- PromiseOutcome, observed <- returned, delivered <- calls

(* The task, its worker and the threads that share it implement a one-shot *)
(* promise: one outcome, told to everyone who waits; callbacks that run    *)
(* once, after it and for it; and at most one completion callback for a    *)
(* failed task (the "else if (completed)" of the worker lambda).           *)
ImplementsPromise == P!Spec

(* Every thread that enters wait() leaves it, woken by the one notify_all  *)
(* that follows the publication of the outcome.                            *)
WaitersReturn ==
    \A h \in Holder : pc[h] \in {"asleep", "awake"} ~> pc[h] = "idle"

(* A callback of the kind the outcome calls for is eventually invoked or   *)
(* overwritten, whenever it was registered.                                *)
CallbackDelivered ==
    \A k \in Kind, h \in Holder :
        (h \in registered[k] /\ done /\ Matches(k))
            ~> (calls[k][h] = 1 \/ h \in superseded[k])

(* The use the SDK's README shows: the only handle registers on_error,     *)
(* waits, and goes out of scope.                                           *)
ReadmeUse(h) ==
    \/ OnError(h)
    \/ registered["failed"] # {} /\ returned[h] = "none" /\ BeginWait(h)
    \/ SpuriousWake(h)
    \/ ResumeWait(h)
    \/ \E k \in Kind : InvokeNow(k, h)
    \/ returned[h] # "none" /\ Drop(h)

ReadmeSpec ==
    Init /\ [][WorkerNext \/ \E h \in Holder : ReadmeUse(h)]_vars

(* Using a task as the README shows does not end the process. *)
ProcessSurvives == ~terminated
=============================================================================
