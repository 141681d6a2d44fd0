---------------------------- MODULE RequestRetry ----------------------------
(***************************************************************************)
(* RequestPipeline::send (Cpp/src/internal/request_pipeline.cpp) once its  *)
(* preconditions hold: the loop of attempts with backoff under a deadline. *)
(* send_web has the same loop.  The time of the call is in milliseconds    *)
(* since `started`; it passes in the HTTP requests and in the sleeps       *)
(* between them.                                                           *)
(***************************************************************************)
EXTENDS Integers, FiniteSetsExt

CONSTANTS
    Operation,    \* the operation classes that send() and send_web() serve
    Policy,       \* the RequestPolicy of each
    RequestTime,  \* how long an HTTP request of each may take
    Oversleep     \* by how much sleep_for may be late

RequestPolicy ==
    [timeout : Nat, retries : Nat, backoff : Nat, backoff_max : Nat, deadline : Nat]

ASSUME RetryAssumption ==
    /\ Policy \in [Operation -> RequestPolicy]
    /\ \A o \in Operation : Policy[o].deadline > 0 => Policy[o].timeout <= Policy[o].deadline
    /\ RequestTime \in [Operation -> SUBSET Nat]
    /\ Oversleep \subseteq Nat

VARIABLES
    op,         \* request.operation
    pc,         \* where the call is
    attempt,    \* the loop's counter
    elapsed,    \* tick_ms() - started
    failed,     \* last_error is set
    result,     \* how the call ended
    stopped,    \* the caller's stop token
    prompt      \* history: no request took longer than its timeout, and no
                \* sleep longer than asked for

vars == <<op, pc, attempt, elapsed, failed, result, stopped, prompt>>

Result == {"none", "answer", "transient", "error", "timeout", "thrown", "stopped"}

policy == Policy[op]

TypeOK ==
    /\ op \in Operation
    /\ pc \in {"idle", "top", "request", "sleep", "done"}
    /\ attempt \in 0 .. policy.retries
    /\ elapsed \in Nat
    /\ failed \in BOOLEAN
    /\ result \in Result
    /\ stopped \in BOOLEAN
    /\ prompt \in BOOLEAN
    /\ pc = "done" <=> result # "none"

Init ==
    /\ op \in Operation
    /\ pc = "idle"
    /\ attempt = 0
    /\ elapsed = 0
    /\ failed = FALSE
    /\ result = "none"
    /\ stopped = FALSE
    /\ prompt = TRUE

-----------------------------------------------------------------------------
(* retry_delay_ms *)
RetryDelay(p, a) ==
    IF p.backoff <= 0
    THEN 0
    ELSE Min({p.backoff * 2 ^ Min({a, 16}), Max({p.backoff_max, p.backoff})})

(* Mutant of CanWait: one attempt too few. *)
CanWaitOnceLess(a, e) ==
    /\ a + 1 < policy.retries
    /\ policy.deadline > 0 => e + RetryDelay(policy, a) + policy.timeout <= policy.deadline
(* can_wait, at time e of the call. *)
CanWait(a, e) ==
    /\ a < policy.retries
    /\ policy.deadline > 0 => e + RetryDelay(policy, a) + policy.timeout <= policy.deadline

(* Mutant of TimeLeft: the attempt to come is not counted. *)
DeadlineAhead == policy.deadline > 0 => elapsed <= policy.deadline
(* The check at the head of the loop. *)
TimeLeft == policy.deadline > 0 => elapsed + policy.timeout <= policy.deadline

Finish(r) == pc' = "done" /\ result' = r

-----------------------------------------------------------------------------
Send(o) ==
    /\ pc = "idle"
    /\ op' = o
    /\ pc' = "top"
    /\ UNCHANGED <<attempt, elapsed, failed, result, stopped, prompt>>

(* The caller cancels: AsyncTask::cancel, or its own stop source. *)
RequestStop ==
    /\ pc \in {"top", "request", "sleep"} /\ ~stopped
    /\ stopped' = TRUE
    /\ UNCHANGED <<op, pc, attempt, elapsed, failed, result, prompt>>

BeginAttempt ==
    /\ pc = "top" /\ ~stopped /\ TimeLeft
    /\ pc' = "request"
    /\ UNCHANGED <<op, attempt, elapsed, failed, result, stopped, prompt>>

(* throw_if_stopped at the head of the loop. *)
ThrowIfStopped ==
    /\ pc = "top" /\ stopped
    /\ Finish("stopped")
    /\ UNCHANGED <<op, attempt, elapsed, failed, stopped, prompt>>

(* The loop is left: the last error, or "request deadline exceeded". *)
DeadlinePassed ==
    /\ pc = "top" /\ ~stopped /\ ~TimeLeft
    /\ Finish(IF failed THEN "error" ELSE "timeout")
    /\ UNCHANGED <<op, attempt, elapsed, failed, stopped, prompt>>

(* An HTTP request ends after d milliseconds. *)
Took(d) ==
    /\ pc = "request"
    /\ elapsed' = elapsed + d
    /\ prompt' = (prompt /\ d <= policy.timeout)
    /\ UNCHANGED <<op, stopped>>

(* Mutant of Answered: every status counts as transient. *)
RetryEveryAnswer(d) ==
    /\ Took(d)
    /\ \/ CanWait(attempt, elapsed + d) /\ pc' = "sleep" /\ UNCHANGED result
       \/ ~CanWait(attempt, elapsed + d) /\ Finish("answer")
    /\ UNCHANGED <<attempt, failed>>
(* ... with a status that is not worth a retry; *)
Answered(d) ==
    /\ Took(d)
    /\ Finish("answer")
    /\ UNCHANGED <<attempt, failed>>

(* ... with a transient status, which is retried or returned; *)
TransientAnswer(d) ==
    /\ Took(d)
    /\ \/ CanWait(attempt, elapsed + d) /\ pc' = "sleep" /\ UNCHANGED result
       \/ ~CanWait(attempt, elapsed + d) /\ Finish("transient")
    /\ UNCHANGED <<attempt, failed>>

(* ... with a Network or Timeout error, which is retried or thrown.  A stop *)
(* that the attempt notices is a Timeout error too;                         *)
AttemptFails(d) ==
    /\ Took(d)
    /\ failed' = TRUE
    /\ \/ CanWait(attempt, elapsed + d) /\ pc' = "sleep" /\ UNCHANGED result
       \/ ~CanWait(attempt, elapsed + d) /\ Finish("error")
    /\ UNCHANGED attempt

(* ... with any other error, which is thrown. *)
AttemptThrows(d) ==
    /\ Took(d)
    /\ Finish("thrown")
    /\ UNCHANGED <<attempt, failed>>

(* sleep_for, and the loop's increment.  The stop token does not end it. *)
Backoff(extra) ==
    /\ pc = "sleep"
    /\ elapsed' = elapsed + RetryDelay(policy, attempt) + extra
    /\ prompt' = (prompt /\ extra = 0)
    /\ attempt' = attempt + 1
    /\ pc' = "top"
    /\ UNCHANGED <<op, failed, result, stopped>>

RequestEnds ==
    \E d \in RequestTime[op] :
        Answered(d) \/ TransientAnswer(d) \/ AttemptFails(d) \/ AttemptThrows(d)

Next ==
    \/ \E o \in Operation : Send(o)
    \/ RequestStop
    \/ BeginAttempt \/ ThrowIfStopped \/ DeadlinePassed
    \/ RequestEnds
    \/ \E extra \in Oversleep : Backoff(extra)

Spec == Init /\ [][Next]_vars

-----------------------------------------------------------------------------
(* Whatever the server does, a call with a deadline overruns it by at most *)
(* what one late request exceeds its timeout by, or one late sleep: no     *)
(* attempt is begun that could not end in time.                            *)
DeadlineKept ==
    pc = "done" /\ policy.deadline > 0 =>
        \E d \in {0} \cup RequestTime[op] \cup Oversleep :
            elapsed <= policy.deadline - policy.timeout + d

(* A failure that could have been retried reaches the caller only when the *)
(* attempts are used up or the next one would not have ended in time.      *)
GivesUpOnlyWhenLate ==
    result \in {"transient", "error", "timeout"} =>
        \/ attempt = policy.retries
        \/ /\ policy.deadline > 0
           /\ elapsed + RetryDelay(policy, attempt) + policy.timeout > policy.deadline

(* Every policy leaves room for all the retries it names: when requests    *)
(* respect their timeout, the deadline never cuts the attempts short, even *)
(* if each of them times out.                                              *)
PolicyAllowsRetries ==
    prompt /\ result \in {"transient", "error", "timeout"} => attempt = policy.retries
=============================================================================
