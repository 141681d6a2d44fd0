--------------------------- MODULE AsyncTaskProofs ---------------------------
(***************************************************************************)
(* Proofs about AsyncTask for any number of holders.  The inductive        *)
(* invariant follows each callback from its registration to its invocation:*)
(* it is in the slot, in the worker's local copy, in the hands of the      *)
(* thread that registered it, invoked or overwritten, and never in two of  *)
(* the places from which it would be invoked.                              *)
(***************************************************************************)
EXTENDS AsyncTask, TLAPS

(* What the critical sections of the worker publish. *)
OutcomeInv ==
    /\ done <=> worker # "running"
    /\ done => value = ~exception
    /\ ~done => ~value /\ ~exception
    /\ worker \in {"running", "settled", "notified"} =>
            \A k \in Kind : taken[k] = NoCallback

(* A callback waits to be invoked in at most one place, and in none once   *)
(* it has been invoked.                                                    *)
PlaceInv ==
    \A k \in Kind, h \in Holder :
        /\ calls[k][h] <= 1
        /\ slot[k] = h \/ taken[k] = h \/ pc[h] = k \/ calls[k][h] = 1
               => h \in registered[k]
        /\ slot[k] = h => taken[k] # h /\ pc[h] # k /\ calls[k][h] = 0
        /\ taken[k] = h => pc[h] # k /\ (worker = "collected" => calls[k][h] = 0)
        /\ pc[h] = k => calls[k][h] = 0 /\ done /\ Matches(k)

(* Every registered callback is somewhere, and neither the slot nor the    *)
(* worker's copy is where a due callback is forgotten.                     *)
AccountInv ==
    \A k \in Kind, h \in Holder :
        /\ h \in registered[k] =>
              \/ slot[k] = h \/ taken[k] = h \/ pc[h] = k
              \/ calls[k][h] = 1 \/ h \in superseded[k]
        /\ worker \in {"collected", "returned", "gone"} /\ Matches(k)
              => slot[k] # h
        /\ worker \in {"returned", "gone"} /\ Matches(k) /\ taken[k] = h
              => calls[k][h] = 1

(* A callback that has run had a reason to. *)
CauseInv ==
    \A k \in Kind, h \in Holder : calls[k][h] > 0 =>
        /\ done
        /\ k = "failed" => exception
        /\ k = "completed" /\ exception =>
              /\ worker \in {"returned", "gone"}
              /\ taken["completed"] = h
              /\ taken["failed"] = NoCallback

Inv ==
    /\ TypeOK
    /\ OutcomeInv
    /\ PlaceInv
    /\ AccountInv
    /\ CauseInv
    /\ WaitObservesOutcome

-----------------------------------------------------------------------------
(* The initial state satisfies the invariant: nothing is registered yet. *)
LEMMA InitInv == Init => Inv
<1> SUFFICES ASSUME Init PROVE Inv  OBVIOUS
<1> USE NoCallbackIsNotAHolder DEF Init, Kind
<1>1. TypeOK  BY DEF TypeOK, WorkerStage
<1>2. OutcomeInv  BY DEF OutcomeInv
<1>3. PlaceInv
  <2> SUFFICES ASSUME NEW k \in Kind, NEW h \in Holder
               PROVE  /\ calls[k][h] <= 1
                      /\ slot[k] # h /\ taken[k] # h
                      /\ pc[h] # k /\ calls[k][h] # 1
    BY Zenon DEF PlaceInv
  <2> QED  OBVIOUS
<1>4. AccountInv  BY DEF AccountInv
<1>5. CauseInv  BY DEF CauseInv
<1>6. WaitObservesOutcome  BY DEF WaitObservesOutcome
<1> QED  BY <1>1, <1>2, <1>3, <1>4, <1>5, <1>6 DEF Inv

(* Publishing a value: no callback moves. *)
LEMMA CallableReturnsInv ==
  ASSUME Inv, CallableReturns PROVE Inv'
<1> USE NoCallbackIsNotAHolder DEF Inv, Kind, Matches, outcome, history, CallableReturns
<1>1. TypeOK'  BY DEF TypeOK, WorkerStage
<1>2. OutcomeInv'  BY DEF OutcomeInv, TypeOK, WorkerStage
<1>3. PlaceInv'  BY DEF PlaceInv, OutcomeInv, TypeOK
<1>4. AccountInv'  BY DEF AccountInv, PlaceInv, OutcomeInv, TypeOK
<1>5. CauseInv'  BY DEF CauseInv, PlaceInv, OutcomeInv, TypeOK
<1>6. WaitObservesOutcome'  BY DEF WaitObservesOutcome, OutcomeInv, TypeOK
<1> QED  BY <1>1, <1>2, <1>3, <1>4, <1>5, <1>6

(* Publishing an exception: no callback moves. *)
LEMMA CallableThrowsInv ==
  ASSUME Inv, CallableThrows PROVE Inv'
<1> USE NoCallbackIsNotAHolder DEF Inv, Kind, Matches, outcome, history, CallableThrows
<1>1. TypeOK'  BY DEF TypeOK, WorkerStage
<1>2. OutcomeInv'  BY DEF OutcomeInv, TypeOK, WorkerStage
<1>3. PlaceInv'  BY DEF PlaceInv, OutcomeInv, TypeOK
<1>4. AccountInv'  BY DEF AccountInv, PlaceInv, OutcomeInv, TypeOK
<1>5. CauseInv'  BY DEF CauseInv, PlaceInv, OutcomeInv, TypeOK
<1>6. WaitObservesOutcome'  BY DEF WaitObservesOutcome, OutcomeInv, TypeOK
<1> QED  BY <1>1, <1>2, <1>3, <1>4, <1>5, <1>6

(* notify_all moves sleepers only. *)
LEMMA NotifyAllInv ==
  ASSUME Inv, NotifyAll PROVE Inv'
<1> USE NoCallbackIsNotAHolder DEF Inv, Kind, Matches, outcome, history, NotifyAll
<1>1. TypeOK'  BY DEF TypeOK, WorkerStage
<1>2. OutcomeInv'  BY DEF OutcomeInv, TypeOK, WorkerStage
<1>3. PlaceInv'  BY DEF PlaceInv, OutcomeInv, TypeOK
<1>4. AccountInv'  BY DEF AccountInv, PlaceInv, OutcomeInv, TypeOK
<1>5. CauseInv'  BY DEF CauseInv, PlaceInv, OutcomeInv, TypeOK
<1>6. WaitObservesOutcome'  BY DEF WaitObservesOutcome, OutcomeInv, TypeOK
<1> QED  BY <1>1, <1>2, <1>3, <1>4, <1>5, <1>6

(* The worker takes both callbacks out of the state. *)
LEMMA CollectCallbacksInv ==
  ASSUME Inv, CollectCallbacks PROVE Inv'
<1> USE NoCallbackIsNotAHolder DEF Inv, Kind, Matches, outcome, history, CollectCallbacks
<1>1. TypeOK'  BY DEF TypeOK, WorkerStage
<1>2. OutcomeInv'  BY DEF OutcomeInv, TypeOK, WorkerStage
<1>3. PlaceInv'  BY DEF PlaceInv, OutcomeInv, TypeOK
<1>4. AccountInv'  BY DEF AccountInv, PlaceInv, OutcomeInv, TypeOK
<1>5. CauseInv'  BY DEF CauseInv, PlaceInv, OutcomeInv, TypeOK
<1>6. WaitObservesOutcome'  BY DEF WaitObservesOutcome, OutcomeInv, TypeOK
<1> QED  BY <1>1, <1>2, <1>3, <1>4, <1>5, <1>6

(* The worker invokes at most one of them. *)
LEMMA RunCallbackInv ==
  ASSUME Inv, RunCallback PROVE Inv'
<1> USE NoCallbackIsNotAHolder DEF Inv, Kind, Matches, outcome, history, RunCallback, Invoked
<1>1. TypeOK'  BY DEF TypeOK, WorkerStage
<1>2. OutcomeInv'  BY DEF OutcomeInv, TypeOK, WorkerStage
<1>3. PlaceInv'  BY DEF PlaceInv, OutcomeInv, TypeOK
<1>4. AccountInv'  BY DEF AccountInv, PlaceInv, OutcomeInv, TypeOK
<1>5. CauseInv'  BY DEF CauseInv, PlaceInv, OutcomeInv, TypeOK
<1>6. WaitObservesOutcome'  BY DEF WaitObservesOutcome, OutcomeInv, TypeOK
<1> QED  BY <1>1, <1>2, <1>3, <1>4, <1>5, <1>6

(* Releasing the worker's reference. *)
LEMMA ReleaseStateInv ==
  ASSUME Inv, ReleaseState PROVE Inv'
<1> USE NoCallbackIsNotAHolder DEF Inv, Kind, Matches, outcome, history, ReleaseState
<1>1. TypeOK'  BY DEF TypeOK, WorkerStage
<1>2. OutcomeInv'  BY DEF OutcomeInv, TypeOK, WorkerStage
<1>3. PlaceInv'  BY DEF PlaceInv, OutcomeInv, TypeOK
<1>4. AccountInv'  BY DEF AccountInv, PlaceInv, OutcomeInv, TypeOK
<1>5. CauseInv'  BY DEF CauseInv, PlaceInv, OutcomeInv, TypeOK
<1>6. WaitObservesOutcome'  BY DEF WaitObservesOutcome, OutcomeInv, TypeOK
<1> QED  BY <1>1, <1>2, <1>3, <1>4, <1>5, <1>6

(* The steps of wait() by one holder. *)
LEMMA WaitInv ==
  ASSUME Inv, NEW g \in Holder, BeginWait(g) \/ SpuriousWake(g) \/ ResumeWait(g) PROVE Inv'
<1> USE NoCallbackIsNotAHolder DEF Inv, Kind, Matches, outcome, history,
        BeginWait, SpuriousWake, ResumeWait, EvaluatePredicate, WaitResult
<1>1. TypeOK'  BY DEF TypeOK, OutcomeInv, WorkerStage
<1>2. OutcomeInv'  BY DEF OutcomeInv, TypeOK, WorkerStage
<1>3. PlaceInv'  BY DEF PlaceInv, OutcomeInv, TypeOK
<1>4. AccountInv'
  <2>1. UNCHANGED <<worker, exception, slot, taken, calls, registered, superseded>>
    OBVIOUS
  <2>2. ASSUME NEW k \in Kind, NEW h \in Holder, pc[h] = k PROVE pc'[h] = k
    <3>1. pc[g] \in {"idle", "asleep", "awake"}  BY DEF Free
    <3>2. h # g  BY <3>1, <2>2
    <3> QED  BY <3>2, <2>2 DEF TypeOK
  <2> QED  BY <2>1, <2>2 DEF AccountInv, TypeOK
<1>5. CauseInv'  BY DEF CauseInv, PlaceInv, OutcomeInv, TypeOK
<1>6. WaitObservesOutcome'  BY DEF WaitObservesOutcome, OutcomeInv, TypeOK
<1> QED  BY <1>1, <1>2, <1>3, <1>4, <1>5, <1>6

(* on_completed and on_error. *)
LEMMA RegisterInv ==
  ASSUME Inv, NEW kk \in Kind, NEW g \in Holder, Register(kk, g) PROVE Inv'
<1> USE NoCallbackIsNotAHolder DEF Inv, Kind, Matches, outcome, history, Register, Store, Free
<1>1. TypeOK'
  <2>1. superseded' \in [Kind -> SUBSET Holder]
    <3>1. {slot[kk]} \ {NoCallback} \subseteq Holder  BY DEF TypeOK
    <3> QED  BY <3>1 DEF TypeOK
  <2> QED  BY <2>1 DEF TypeOK, WorkerStage
<1>2. OutcomeInv'  BY DEF OutcomeInv, TypeOK, WorkerStage
<1>3. PlaceInv'  BY DEF PlaceInv, OutcomeInv, TypeOK
<1>4. AccountInv'  BY DEF AccountInv, PlaceInv, OutcomeInv, TypeOK
<1>5. CauseInv'  BY DEF CauseInv, PlaceInv, OutcomeInv, TypeOK
<1>6. WaitObservesOutcome'  BY DEF WaitObservesOutcome, OutcomeInv, TypeOK
<1> QED  BY <1>1, <1>2, <1>3, <1>4, <1>5, <1>6

(* A callback run by the thread that registered it. *)
LEMMA InvokeNowInv ==
  ASSUME Inv, NEW kk \in Kind, NEW g \in Holder, InvokeNow(kk, g) PROVE Inv'
<1> USE NoCallbackIsNotAHolder DEF Inv, Kind, Matches, outcome, history, InvokeNow, Invoked
<1>1. TypeOK'  BY DEF TypeOK, WorkerStage
<1>2. OutcomeInv'  BY DEF OutcomeInv, TypeOK, WorkerStage
<1>3. PlaceInv'  BY DEF PlaceInv, OutcomeInv, TypeOK
<1>4. AccountInv'  BY DEF AccountInv, PlaceInv, OutcomeInv, TypeOK
<1>5. CauseInv'  BY DEF CauseInv, PlaceInv, OutcomeInv, TypeOK
<1>6. WaitObservesOutcome'  BY DEF WaitObservesOutcome, OutcomeInv, TypeOK
<1> QED  BY <1>1, <1>2, <1>3, <1>4, <1>5, <1>6

(* cancel(), copies and destruction of handles. *)
LEMMA HandleInv ==
  ASSUME Inv, NEW g \in Holder,
         Cancel(g) \/ Drop(g) \/ \E f \in Holder : Share(g, f) PROVE Inv'
<1> USE NoCallbackIsNotAHolder DEF Inv, Kind, Matches, outcome, history, Cancel, Drop, Share, Free
<1>1. TypeOK'  BY DEF TypeOK, WorkerStage
<1>2. OutcomeInv'  BY DEF OutcomeInv, TypeOK, WorkerStage
<1>3. PlaceInv'  BY DEF PlaceInv, OutcomeInv, TypeOK
<1>4. AccountInv'  BY DEF AccountInv, PlaceInv, OutcomeInv, TypeOK
<1>5. CauseInv'  BY DEF CauseInv, PlaceInv, OutcomeInv, TypeOK
<1>6. WaitObservesOutcome'  BY DEF WaitObservesOutcome, OutcomeInv, TypeOK
<1> QED  BY <1>1, <1>2, <1>3, <1>4, <1>5, <1>6

(* Every step preserves the invariant. *)
LEMMA NextInv == Inv /\ [Next]_vars => Inv'
<1> SUFFICES ASSUME Inv, [Next]_vars PROVE Inv'  OBVIOUS
<1>1. CASE WorkerNext
  BY <1>1, CallableReturnsInv, CallableThrowsInv, NotifyAllInv,
     CollectCallbacksInv, RunCallbackInv, ReleaseStateInv
  DEF WorkerNext, Callable
<1>2. ASSUME NEW g \in Holder, HolderNext(g) PROVE Inv'
  <2>1. CASE BeginWait(g) \/ SpuriousWake(g) \/ ResumeWait(g)  BY <2>1, WaitInv
  <2>2. CASE OnCompleted(g) \/ OnError(g)
    BY <2>2, RegisterInv DEF OnCompleted, OnError, Kind
  <2>3. CASE \E k \in Kind : InvokeNow(k, g)  BY <2>3, InvokeNowInv
  <2>4. CASE Cancel(g) \/ Drop(g) \/ \E f \in Holder : Share(g, f)  BY <2>4, HandleInv
  <2> QED  BY <1>2, <2>1, <2>2, <2>3, <2>4 DEF HolderNext
<1>3. CASE UNCHANGED vars
  BY <1>3
  DEF vars, Inv, TypeOK, OutcomeInv, PlaceInv, AccountInv, CauseInv,
      WaitObservesOutcome, Matches
<1> QED  BY <1>1, <1>2, <1>3 DEF Next

(* The invariant holds in every reachable state. *)
THEOREM Invariance == Spec => []Inv
  BY InitInv, NextInv, PTL DEF Spec

(* Type correctness of the task's state. *)
THEOREM TypeCorrect == Spec => []TypeOK
<1>1. Inv => TypeOK  BY DEF Inv
<1> QED  BY <1>1, Invariance, PTL

(* No callback is invoked twice, whatever the threads holding the task do. *)
THEOREM CallbacksRunAtMostOnce == Spec => []AtMostOnce
<1>1. Inv => AtMostOnce  BY DEF Inv, PlaceInv, AtMostOnce
<1> QED  BY <1>1, Invariance, PTL

(* No callback that the outcome calls for is lost between a registering    *)
(* thread and the worker.                                                  *)
THEOREM CallbacksAreNotLost == Spec => []NoCallbackLost
<1>1. Inv => NoCallbackLost
  BY DEF Inv, PlaceInv, AccountInv, NoCallbackLost, TypeOK
<1> QED  BY <1>1, Invariance, PTL

(* Callbacks run for the outcome they were registered for, up to the       *)
(* worker's "else if (completed)".                                         *)
THEOREM CallbacksMatchOutcome == Spec => []CallbackMatchesOutcome
<1>1. Inv => CallbackMatchesOutcome
  BY DEF Inv, CauseInv, CallbackMatchesOutcome, Kind
<1> QED  BY <1>1, Invariance, PTL

(* wait() returns the outcome of the task and nothing else. *)
THEOREM WaitReturnsOutcome == Spec => []WaitObservesOutcome
<1>1. Inv => WaitObservesOutcome  BY DEF Inv
<1> QED  BY <1>1, Invariance, PTL

(* Whoever sleeps in wait() is still to be notified: the predicate is      *)
(* evaluated, and the waiter goes to sleep, before the outcome is          *)
(* published or not at all, although notify_all comes after the unlock.    *)
NoWakeupLost == \A h \in Holder : pc[h] = "asleep" => worker \in {"running", "settled"}

(* No thread sleeps in wait() after the only notification, for any number  *)
(* of threads, waits and spurious wake-ups.                                *)
THEOREM WakeupsAreNotLost == Spec => []NoWakeupLost
<1>1. Init => NoWakeupLost  BY DEF Init, NoWakeupLost
<1>2. Inv /\ NoWakeupLost /\ [Next]_vars => NoWakeupLost'
  <2> SUFFICES ASSUME Inv, NoWakeupLost, [Next]_vars PROVE NoWakeupLost'  OBVIOUS
  <2> USE DEF Inv, TypeOK, OutcomeInv, NoWakeupLost, outcome, history, Kind
  <2>1. CASE WorkerNext
    BY <2>1 DEF WorkerNext, Callable, CallableReturns, CallableThrows, NotifyAll,
                CollectCallbacks, RunCallback, ReleaseState
  <2>2. ASSUME NEW g \in Holder, BeginWait(g) \/ SpuriousWake(g) \/ ResumeWait(g)
        PROVE  NoWakeupLost'
    BY <2>2 DEF BeginWait, SpuriousWake, ResumeWait, EvaluatePredicate, WorkerStage
  <2>3. ASSUME NEW g \in Holder, NEW k \in Kind, Register(k, g) \/ InvokeNow(k, g)
        PROVE  NoWakeupLost'
    BY <2>3 DEF Register, InvokeNow
  <2>4. ASSUME NEW g \in Holder, Cancel(g) \/ Drop(g) \/ \E f \in Holder : Share(g, f)
        PROVE  NoWakeupLost'
    BY <2>4 DEF Cancel, Drop, Share
  <2>5. CASE UNCHANGED vars  BY <2>5 DEF vars
  <2> QED  BY <2>1, <2>2, <2>3, <2>4, <2>5 DEF Next, HolderNext, OnCompleted, OnError
<1> QED  BY <1>1, <1>2, Invariance, PTL DEF Spec

-----------------------------------------------------------------------------
(* The refinement: which step of the promise each step of the task is. *)

(* Publishing the outcome settles the promise. *)
LEMMA CallableSettles ==
  ASSUME Inv, Callable PROVE P!Settle
<1> USE DEF Inv, OutcomeInv, PromiseOutcome, outcome, history
<1>1. CASE CallableReturns  BY <1>1 DEF CallableReturns, P!Settle, P!Outcome
<1>2. CASE CallableThrows  BY <1>2 DEF CallableThrows, P!Settle, P!Outcome
<1> QED  BY <1>1, <1>2 DEF Callable

(* One more call of a callback is a delivery, if it has not run, the       *)
(* outcome is published and the callback is one that may run for it.       *)
LEMMA InvokedDelivers ==
  ASSUME Inv, NEW k \in Kind, NEW h \in Holder,
         calls' = Invoked(k, h), UNCHANGED <<exception, done, returned>>,
         done, calls[k][h] = 0, k = "failed" => exception,
         k = "completed" /\ exception => \A g \in Holder : calls[k][g] = 0
  PROVE  P!Deliver(k, h)
<1>1. calls' = [calls EXCEPT ![k][h] = 1]  BY DEF Invoked, Inv, TypeOK
<1>2. PromiseOutcome \in P!Outcome /\ UNCHANGED PromiseOutcome
  BY DEF PromiseOutcome, P!Outcome
<1>3. PromiseOutcome = "exception" <=> exception  BY DEF PromiseOutcome
<1> QED  BY <1>1, <1>2, <1>3, Zenon DEF P!Deliver

(* The worker's callback is delivered, or there is none. *)
LEMMA RunCallbackDelivers ==
  ASSUME Inv, RunCallback
  PROVE  (\E k \in Kind, h \in Holder : P!Deliver(k, h)) \/ UNCHANGED P!promise
<1> USE DEF Inv, Kind, outcome
<1>1. done /\ UNCHANGED <<exception, done, returned>>
  BY DEF RunCallback, OutcomeInv
<1>2. \A k \in Kind : taken[k] # NoCallback =>
          taken[k] \in Holder /\ calls[k][taken[k]] = 0
  BY DEF RunCallback, PlaceInv, TypeOK
<1>3. CASE exception /\ taken["failed"] # NoCallback
  <2>1. calls' = Invoked("failed", taken["failed"])  BY <1>3 DEF RunCallback
  <2>2. P!Deliver("failed", taken["failed"])  BY <1>1, <1>2, <1>3, <2>1, InvokedDelivers
  <2> QED  BY <1>2, <1>3, <2>2
<1>4. CASE ~(exception /\ taken["failed"] # NoCallback) /\ taken["completed"] # NoCallback
  <2>1. calls' = Invoked("completed", taken["completed"])  BY <1>4 DEF RunCallback
  <2>2. exception => \A g \in Holder : calls["completed"][g] = 0
    BY DEF RunCallback, CauseInv, TypeOK
  <2>3. P!Deliver("completed", taken["completed"])
    BY <1>1, <1>2, <1>4, <2>1, <2>2, InvokedDelivers
  <2> QED  BY <1>2, <1>4, <2>3
<1>5. CASE ~(exception /\ taken["failed"] # NoCallback) /\ taken["completed"] = NoCallback
  BY <1>1, <1>5 DEF RunCallback, P!promise, PromiseOutcome
<1> QED  BY <1>3, <1>4, <1>5

(* A callback run by its own registrant is delivered. *)
LEMMA InvokeNowDelivers ==
  ASSUME Inv, NEW k \in Kind, NEW h \in Holder, InvokeNow(k, h)
  PROVE  P!Deliver(k, h)
<1> USE DEF Inv, outcome
<1>1. calls' = Invoked(k, h) /\ UNCHANGED <<exception, done, returned>>
  BY DEF InvokeNow
<1>2. calls[k][h] = 0 /\ done /\ Matches(k)  BY DEF InvokeNow, PlaceInv
<1> QED  BY <1>1, <1>2, InvokedDelivers DEF Matches, Kind

(* An evaluation of the predicate of wait() observes the outcome, or goes  *)
(* back to sleep.                                                          *)
LEMMA WaitObserves ==
  ASSUME Inv, NEW h \in Holder, BeginWait(h) \/ ResumeWait(h)
  PROVE  P!Observe(h) \/ UNCHANGED P!promise
<1> USE DEF Inv, outcome, history, PromiseOutcome
<1>1. UNCHANGED <<exception, done, calls>> /\ EvaluatePredicate(h)
  BY DEF BeginWait, ResumeWait
<1>2. CASE done
  <2>1. returned' = [returned EXCEPT ![h] = PromiseOutcome]
    BY <1>1, <1>2 DEF EvaluatePredicate, WaitResult, OutcomeInv, TypeOK
  <2> QED  BY <1>1, <1>2, <2>1 DEF P!Observe, P!Outcome
<1>3. CASE ~done  BY <1>1, <1>3 DEF EvaluatePredicate, P!promise
<1> QED  BY <1>2, <1>3

(* Every step of the task is a step of the promise, or leaves it alone. *)
LEMMA StepSimulation == Inv /\ [Next]_vars => [P!Next]_P!promise
<1> SUFFICES ASSUME Inv, [Next]_vars PROVE P!Next \/ UNCHANGED P!promise
  OBVIOUS
<1> USE DEF outcome, history
<1>1. CASE WorkerNext
  <2>1. CASE Callable  BY <2>1, CallableSettles DEF P!Next
  <2>2. CASE RunCallback
    BY <2>2, RunCallbackDelivers DEF P!Next, Kind, P!Kind
  <2>3. CASE NotifyAll \/ CollectCallbacks \/ ReleaseState
    BY <2>3 DEF NotifyAll, CollectCallbacks, ReleaseState, P!promise, PromiseOutcome
  <2> QED  BY <1>1, <2>1, <2>2, <2>3 DEF WorkerNext
<1>2. ASSUME NEW h \in Holder, HolderNext(h) PROVE P!Next \/ UNCHANGED P!promise
  <2>1. CASE BeginWait(h) \/ ResumeWait(h)  BY <2>1, WaitObserves DEF P!Next
  <2>2. CASE \E k \in Kind : InvokeNow(k, h)
    BY <2>2, InvokeNowDelivers DEF P!Next, Kind, P!Kind
  <2>3. CASE SpuriousWake(h) \/ OnCompleted(h) \/ OnError(h) \/ Cancel(h) \/ Drop(h)
             \/ \E g \in Holder : Share(h, g)
    BY <2>3 DEF SpuriousWake, OnCompleted, OnError, Register, Cancel, Drop, Share,
                P!promise, PromiseOutcome
  <2> QED  BY <1>2, <2>1, <2>2, <2>3 DEF HolderNext
<1>3. CASE UNCHANGED vars  BY <1>3 DEF vars, P!promise, PromiseOutcome
<1> QED  BY <1>1, <1>2, <1>3 DEF Next

(* A task, its worker and any number of threads that share it implement a  *)
(* one-shot promise: one outcome, the same for all, and callbacks that run *)
(* at most once, after it and for it.                                      *)
THEOREM TaskIsAPromise == Spec => ImplementsPromise
<1>1. Init => P!Init  BY DEF Init, P!Init, PromiseOutcome, Kind, P!Kind
<1>2. Inv /\ [Next]_vars => [P!Next]_P!promise  BY StepSimulation
<1> QED  BY <1>1, <1>2, Invariance, PTL DEF Spec, ImplementsPromise, P!Spec
=============================================================================
