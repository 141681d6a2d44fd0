-------------------------- MODULE OperationsProofs --------------------------
(***************************************************************************)
(* Proofs about RequestRetry and Operations: about one call, and about any *)
(* sequence of calls with any number of grants, for any table of policies  *)
(* whose timeouts do not exceed their deadlines, any duration of a request *)
(* and any lateness of a sleep; and about the table that the SDK ships.    *)
(***************************************************************************)
EXTENDS Operations, RequestPolicy, TLAPS

(* What is known of the time that is left, at each place of the loop. *)
TimeInv ==
    /\ pc = "idle" => attempt = 0 /\ elapsed = 0
    /\ pc = "top" /\ policy.deadline > 0 =>
         \E d \in {0} \cup Oversleep : elapsed <= policy.deadline - policy.timeout + d
    /\ pc = "request" => TimeLeft
    /\ pc = "sleep" => CanWait(attempt, elapsed)

RetryInv == TypeOK /\ TimeInv /\ DeadlineKept /\ GivesUpOnlyWhenLate

(* The backoff is a natural number. *)
LEMMA DelayType ==
  ASSUME NEW p \in RequestPolicy, NEW a \in Nat
  PROVE  RetryDelay(p, a) \in Nat
<1>1. \A m, n \in Nat : Min({m, n}) \in Nat /\ Max({m, n}) \in Nat
  BY DEF Min, Max
<1>2. /\ p.backoff \in Nat
      /\ p.backoff_max \in Nat
  BY DEF RequestPolicy
<1>3. 2 ^ Min({a, 16}) \in Nat
  <2>1. Min({a, 16}) \in 0..16
    <3>1. Min({a, 16}) = a \/ Min({a, 16}) = 16  BY DEF Min
    <3>2. Min({a, 16}) <= 16  BY DEF Min
    <3> QED  BY <3>1, <3>2, <1>1
  <2>2. \A n \in 0..16 : 2 ^ n \in Nat
    <3>1. /\ 2 ^ 0 \in Nat /\ 2 ^ 1 \in Nat /\ 2 ^ 2 \in Nat /\ 2 ^ 3 \in Nat /\ 2 ^ 4 \in Nat
          /\ 2 ^ 5 \in Nat /\ 2 ^ 6 \in Nat /\ 2 ^ 7 \in Nat /\ 2 ^ 8 \in Nat /\ 2 ^ 9 \in Nat
          /\ 2 ^ 10 \in Nat /\ 2 ^ 11 \in Nat /\ 2 ^ 12 \in Nat /\ 2 ^ 13 \in Nat
          /\ 2 ^ 14 \in Nat /\ 2 ^ 15 \in Nat /\ 2 ^ 16 \in Nat
      OBVIOUS
    <3>2. \A n \in 0..16 : n \in {0, 1, 2, 3, 4, 5, 6, 7, 8, 9, 10, 11, 12, 13, 14, 15, 16}
      OBVIOUS
    <3> QED  BY <3>1, <3>2, Zenon
  <2> QED  BY <2>1, <2>2
<1>4. p.backoff * 2 ^ Min({a, 16}) \in Nat
  BY <1>2, <1>3
<1> QED  BY <1>1, <1>2, <1>4 DEF RetryDelay

(* The fields of the policy in force. *)
LEMMA PolicyType ==
  ASSUME op \in Operation
  PROVE  /\ policy \in RequestPolicy
         /\ policy.timeout \in Nat /\ policy.retries \in Nat /\ policy.deadline \in Nat
         /\ policy.deadline > 0 => policy.timeout <= policy.deadline
         /\ RequestTime[op] \subseteq Nat
  BY RetryAssumption DEF RequestPolicy, policy

(* No call has been made yet. *)
LEMMA RetryInit == Init => RetryInv
<1> SUFFICES ASSUME Init PROVE RetryInv
  OBVIOUS
<1>1. policy.retries \in Nat
  BY PolicyType DEF Init
<1>2. TypeOK
  <2>1. attempt \in 0 .. policy.retries
    BY <1>1 DEF Init
  <2> QED  BY <2>1 DEF Init, TypeOK, Result
<1> QED
  BY <1>2 DEF Init, RetryInv, TimeInv, DeadlineKept, GivesUpOnlyWhenLate

(* A step of the loop. *)
LEMMA RetryStep == RetryInv /\ [Next]_vars => RetryInv'
<1> SUFFICES ASSUME RetryInv, [Next]_vars PROVE RetryInv'
  OBVIOUS
<1>1. /\ op \in Operation /\ attempt \in Nat /\ attempt \in 0 .. policy.retries
      /\ elapsed \in Nat /\ prompt \in BOOLEAN /\ stopped \in BOOLEAN
  BY PolicyType DEF RetryInv, TypeOK
<1>2. /\ policy.timeout \in Nat /\ policy.retries \in Nat /\ policy.deadline \in Nat
      /\ policy.deadline > 0 => policy.timeout <= policy.deadline
      /\ RequestTime[op] \subseteq Nat
      /\ Oversleep \subseteq Nat
  BY PolicyType, RetryAssumption, <1>1
<1>6. ASSUME NEW o \in Operation, Send(o)
      PROVE  RetryInv'
  <2>1. /\ op' = o /\ attempt' = 0 /\ elapsed' = 0 /\ pc = "idle" /\ pc' = "top"
        /\ result' = result
    BY <1>6 DEF Send, RetryInv, TimeInv
  <2>2. /\ (policy').timeout \in Nat /\ (policy').retries \in Nat /\ (policy').deadline \in Nat
        /\ (policy').deadline > 0 => (policy').timeout <= (policy').deadline
    BY <2>1, RetryAssumption DEF RequestPolicy, policy
  <2>3. TypeOK'
    BY <1>1, <1>6, <2>1, <2>2 DEF Send, RetryInv, TypeOK, Result
  <2>4. TimeInv'
    BY <1>2, <2>1, <2>2 DEF TimeInv
  <2> QED
    BY <2>1, <2>3, <2>4 DEF RetryInv, TypeOK, DeadlineKept, GivesUpOnlyWhenLate
<1> SUFFICES ASSUME ~ \E o \in Operation : Send(o)
             PROVE  RetryInv'
  BY <1>6
<1>3. op' = op /\ policy' = policy
  BY DEF Next, vars, RequestStop, BeginAttempt, ThrowIfStopped, DeadlinePassed,
         RequestEnds, Answered, TransientAnswer, AttemptFails, AttemptThrows, Took,
         Backoff, policy
<1>4. RetryDelay(policy, attempt) \in Nat
  BY DelayType, PolicyType, <1>1
<1>5. attempt' = attempt => RetryDelay(policy, attempt)' = RetryDelay(policy, attempt)
  BY <1>3 DEF RetryDelay
<1>7. CASE RequestStop
  BY <1>1, <1>2, <1>3, <1>5, <1>7
     DEF RequestStop, RetryInv, TypeOK, TimeInv, DeadlineKept, GivesUpOnlyWhenLate, Result,
         TimeLeft, CanWait
<1>8. CASE BeginAttempt
  BY <1>1, <1>2, <1>3, <1>8
     DEF BeginAttempt, RetryInv, TypeOK, TimeInv, DeadlineKept, GivesUpOnlyWhenLate, Result, TimeLeft
<1>9. CASE ThrowIfStopped
  BY <1>1, <1>2, <1>3, <1>9
     DEF ThrowIfStopped, Finish, RetryInv, TypeOK, TimeInv, DeadlineKept, GivesUpOnlyWhenLate, Result
<1>10. CASE DeadlinePassed
  BY <1>1, <1>2, <1>3, <1>4, <1>5, <1>10
     DEF DeadlinePassed, Finish, RetryInv, TypeOK, TimeInv, DeadlineKept, GivesUpOnlyWhenLate,
         Result, TimeLeft
<1>11. ASSUME NEW d \in RequestTime[op],
              Answered(d) \/ TransientAnswer(d) \/ AttemptFails(d) \/ AttemptThrows(d)
       PROVE  RetryInv'
  <2>1. /\ attempt' = attempt /\ elapsed' = elapsed + d /\ d \in Nat
        /\ stopped' = stopped /\ prompt' \in BOOLEAN /\ failed' \in BOOLEAN
        /\ pc = "request" /\ result = "none"
    BY <1>1, <1>2, <1>11 DEF Answered, TransientAnswer, AttemptFails, AttemptThrows, Took, RetryInv, TypeOK
  <2>2. \/ pc' = "sleep" /\ result' = "none" /\ CanWait(attempt, elapsed + d)
        \/ pc' = "done" /\ result' \in {"answer", "thrown", "stopped"}
        \/ pc' = "done" /\ result' \in {"transient", "error"} /\ ~CanWait(attempt, elapsed + d)
    BY <1>11, <2>1 DEF Answered, TransientAnswer, AttemptFails, AttemptThrows, Finish
  <2>3. TypeOK'
    BY <1>1, <1>2, <1>3, <2>1, <2>2 DEF TypeOK, Result
  <2>4. TimeInv'
    BY <1>3, <1>5, <2>1, <2>2 DEF TimeInv, CanWait
  <2>5. DeadlineKept'
    <3>1. policy.deadline > 0 => elapsed <= policy.deadline - policy.timeout
      BY <1>1, <1>2, <2>1 DEF RetryInv, TimeInv, TimeLeft
    <3>2. policy.deadline > 0 => elapsed' <= policy.deadline - policy.timeout + d
      BY <1>1, <1>2, <2>1, <3>1
    <3> QED  BY <1>3, <3>2 DEF DeadlineKept
  <2>6. GivesUpOnlyWhenLate'
    BY <1>1, <1>2, <1>3, <1>4, <1>5, <2>1, <2>2 DEF GivesUpOnlyWhenLate, CanWait
  <2> QED  BY <2>3, <2>4, <2>5, <2>6 DEF RetryInv
<1>12. ASSUME NEW extra \in Oversleep, Backoff(extra)
       PROVE  RetryInv'
  <2>1. /\ attempt < policy.retries
        /\ policy.deadline > 0 =>
              elapsed + RetryDelay(policy, attempt) + policy.timeout <= policy.deadline
    BY <1>12 DEF Backoff, RetryInv, TimeInv, CanWait
  <2>2. policy.deadline > 0 => elapsed' <= policy.deadline - policy.timeout + extra
    <3>1. elapsed' = elapsed + RetryDelay(policy, attempt) + extra
      BY <1>12 DEF Backoff
    <3>2. extra \in Nat
      BY <1>2
    <3> QED  BY <1>1, <1>2, <1>4, <2>1, <3>1, <3>2
  <2>3. TypeOK'
    <3>1. elapsed' \in Nat
      <4>1. elapsed' = elapsed + RetryDelay(policy, attempt) + extra
        BY <1>12 DEF Backoff
      <4>2. extra \in Nat
        BY <1>2
      <4> QED  BY <1>1, <1>4, <4>1, <4>2
    <3>2. attempt' \in 0 .. policy.retries
      BY <1>1, <1>2, <1>12, <2>1 DEF Backoff
    <3> QED
      BY <1>1, <1>3, <1>12, <3>1, <3>2 DEF Backoff, RetryInv, TypeOK, Result
  <2> QED
    BY <1>3, <1>12, <2>2, <2>3
       DEF Backoff, RetryInv, TypeOK, TimeInv, DeadlineKept, GivesUpOnlyWhenLate
<1>13. CASE UNCHANGED vars
  BY <1>3, <1>5, <1>13
     DEF vars, RetryInv, TypeOK, TimeInv, DeadlineKept, GivesUpOnlyWhenLate, TimeLeft, CanWait
<1> QED
  BY <1>7, <1>8, <1>9, <1>10, <1>11, <1>12, <1>13 DEF Next, RequestEnds

(* The next call finds the locals of send() as the first one did. *)
LEMMA RetryNewCall == RetryInv /\ pc = "done" /\ NewCall => RetryInv'
<1> SUFFICES ASSUME RetryInv, NewCall PROVE RetryInv'
  OBVIOUS
<1>1. op' \in Operation /\ (policy').retries \in Nat
  BY PolicyType DEF NewCall, RetryInv, TypeOK, policy
<1>2. TypeOK'
  <2>1. attempt' \in 0 .. (policy').retries
    BY <1>1 DEF NewCall
  <2> QED  BY <1>1, <2>1 DEF NewCall, TypeOK, Result
<1> QED
  BY <1>2 DEF NewCall, RetryInv, TimeInv, DeadlineKept, GivesUpOnlyWhenLate

(* The state of a call is well formed, and the time left is as TimeInv     *)
(* says, in every reachable state.                                         *)
THEOREM RetryInvariance == Spec => []RetryInv
  BY RetryInit, RetryStep, PTL DEF Spec

-----------------------------------------------------------------------------
(* The calls and the service *)

(* The service's answer waits for the attempt to end, the caller's for the *)
(* call to return; each names the grant that it is about.                  *)
AnswerInv ==
    /\ reply # NoReply => pc = "request"
    /\ answer # NoReply => pc = "done"
    /\ \A r \in {reply, answer} :
          r.kind \in {"granted", "receipt", "refused"} => r.grant \in Grant

(* A grant can be used only by who has it. *)
SubjectInv ==
    /\ subject \in Grant => subject \in held
    /\ pc # "idle" /\ op = "OperationGrantConsume" => subject \in Grant

(* What the caller has been told, or is about to be, was issued. *)
IssuedInv ==
    \A g \in Grant :
        g \in held \/ Reply("granted", g) \in {reply, answer} => status[g] # "unissued"

(* A refusal on its way to the caller has its reason. *)
RefusalInv ==
    \A g \in Grant \ lost :
        Reply("refused", g) \in {reply, answer} => g \in receipts \/ status[g] = "expired"

OperationsInv ==
    /\ RetryInv /\ OperationsTypeOK
    /\ AnswerInv /\ SubjectInv /\ IssuedInv /\ RefusalInv /\ EffectsAccounted
(* Two replies are the same only if both their parts are. *)
LEMMA Replying ==
  /\ \A j, k, g, h : Reply(j, g) = Reply(k, h) <=> j = k /\ g = h
  /\ \A k, g : Reply(k, g).kind = k /\ Reply(k, g).grant = g
  BY DEF Reply

(* The answers of the service are well formed. *)
LEMMA RepliesType ==
  ASSUME NEW k \in {"none", "granted", "receipt", "refused", "error"},
         NEW g \in Grant \cup {NoGrant}
  PROVE  Reply(k, g) \in
            [kind : {"none", "granted", "receipt", "refused", "error"}, grant : Grant \cup {NoGrant}]
  BY DEF Reply

LEMMA OperationsStart == OperationsInit => OperationsInv
<1> SUFFICES ASSUME OperationsInit PROVE OperationsInv
  OBVIOUS
<1>1. RetryInv
  BY RetryInit DEF OperationsInit
<1>2. OperationsTypeOK
  BY <1>1, RepliesType DEF OperationsInit, OperationsTypeOK, RetryInv, NoReply
<1>3. \A g : NoReply # Reply("granted", g) /\ NoReply # Reply("refused", g) /\ NoReply.kind = "none"
  BY Replying DEF NoReply
<1>4. AnswerInv /\ SubjectInv /\ IssuedInv /\ RefusalInv
  BY <1>3, OperationsAssumption
     DEF OperationsInit, Init, AnswerInv, SubjectInv, IssuedInv, RefusalInv
<1>5. EffectsAccounted
  BY DEF OperationsInit, EffectsAccounted
<1> QED  BY <1>1, <1>2, <1>4, <1>5 DEF OperationsInv

(* What RequestRetry says of one call holds in every call of a sequence:   *)
(* a step of the whole is a step of the call under way, or none, or begins *)
(* the next call.                                                          *)
LEMMA RetryKept == OperationsInv /\ [OperationsNext]_allVars => RetryInv'
<1> SUFFICES ASSUME OperationsInv, [OperationsNext]_allVars PROVE RetryInv'
  OBVIOUS
<1>1. ASSUME NEW o \in Operation, Send(o) PROVE RetryInv'
  BY <1>1, RetryStep DEF OperationsInv, Next
<1>2. ASSUME UNCHANGED vars PROVE RetryInv'
  BY <1>2, RetryStep DEF OperationsInv
<1>3. CASE AuthorizeOperation \/ ReportEvents \/ SubmitFeedback \/ RequestEnrollmentTicket \/ OtherCall
  BY <1>1, <1>3, OperationsAssumption
     DEF AuthorizeOperation, ReportEvents, SubmitFeedback, RequestEnrollmentTicket, OtherCall, PlainCall
<1>4. CASE \E g \in Grant : ConsumeOperationAuthorization(g)
  BY <1>1, <1>4, OperationsAssumption DEF ConsumeOperationAuthorization
<1>5. CASE (\E g \in Grant : GrantExpires(g)) \/ ServiceHandles
              \/ (\E g \in Grant \cup {NoGrant} : ServiceHandlesLate(g))
  BY <1>2, <1>5 DEF GrantExpires, ServiceHandles, ServiceHandlesLate
<1>6. CASE AttemptEnds
  <2>1. RequestEnds
    BY <1>6 DEF AttemptEnds, RequestEnds
  <2> QED  BY <2>1, RetryStep DEF OperationsInv, Next
<1>7. CASE LoopStep
  <2>1. Next
    BY <1>7 DEF LoopStep, Next
  <2> QED  BY <2>1, RetryStep DEF OperationsInv
<1>8. CASE \E verified \in BOOLEAN : Return(verified)
  BY <1>8, RetryNewCall DEF Return, OperationsInv
<1>9. CASE UNCHANGED allVars
  BY <1>2, <1>9 DEF allVars
<1> QED
  BY <1>3, <1>4, <1>5, <1>6, <1>7, <1>8, <1>9 DEF OperationsNext

(* Nothing but the call under way changes. *)
LEMMA LoopStepKeeps ==
  ASSUME OperationsInv, RetryInv', LoopStep \/ UNCHANGED allVars
  PROVE  OperationsInv'
<1>1. UNCHANGED <<subject, service, reply, answer, caller, lost>>
  BY DEF LoopStep, allVars
<1>2. UNCHANGED <<subject, status, late, reply, answer, held, receipts, refused, lost>>
  BY <1>1 DEF service, caller
<1>3. /\ op' = op
      /\ pc = "idle" => pc' = "idle"
      /\ pc = "request" => pc' = "request"
      /\ pc = "done" => pc' = "done"
  BY DEF LoopStep, allVars, vars, RequestStop, BeginAttempt, ThrowIfStopped, DeadlinePassed,
         Backoff, Finish
<1>4. OperationsTypeOK'
  BY <1>2 DEF OperationsInv, OperationsTypeOK, RetryInv
<1>5. AnswerInv' /\ SubjectInv'
  BY <1>2, <1>3 DEF OperationsInv, AnswerInv, SubjectInv
<1>6. IssuedInv' /\ RefusalInv' /\ EffectsAccounted'
  BY <1>2 DEF OperationsInv, IssuedInv, RefusalInv, EffectsAccounted
<1> QED  BY <1>4, <1>5, <1>6 DEF OperationsInv

(* A call begins; one about a grant has a grant that the caller holds. *)
LEMMA CallKeeps ==
  ASSUME OperationsInv, RetryInv', NEW o \in Operation, NEW g \in Grant \cup {NoGrant},
         Send(o), subject' = g, g \in Grant => g \in held,
         o = "OperationGrantConsume" => g \in Grant,
         UNCHANGED <<service, reply, answer, caller, lost>>
  PROVE  OperationsInv'
<1>1. UNCHANGED <<status, late, reply, answer, held, receipts, refused, lost>>
  BY DEF service, caller
<1>2. pc = "idle" /\ pc' = "top" /\ op' = o
  BY DEF Send
<1>3. OperationsTypeOK'
  BY <1>1 DEF OperationsInv, OperationsTypeOK, RetryInv
<1>4. AnswerInv' /\ SubjectInv'
  BY <1>1, <1>2 DEF OperationsInv, AnswerInv, SubjectInv
<1>5. IssuedInv' /\ RefusalInv' /\ EffectsAccounted'
  BY <1>1 DEF OperationsInv, IssuedInv, RefusalInv, EffectsAccounted
<1> QED  BY <1>3, <1>4, <1>5 DEF OperationsInv

(* A request of the attempt under way is carried out. *)
LEMMA ServiceHandlesKeeps ==
  ASSUME OperationsInv, RetryInv', ServiceHandles
  PROVE  OperationsInv'
<1> USE Replying
<1>1. UNCHANGED <<op, pc, subject, late, answer, held, receipts, refused, lost>>
  BY DEF ServiceHandles, vars, caller
<1>2. PICK r \in Replies : Handles(op, subject, r) /\ reply' = r
  BY DEF ServiceHandles
<1>3. pc = "request" /\ reply = NoReply /\ answer = NoReply
  BY DEF ServiceHandles, OperationsInv, AnswerInv
<1>4. /\ subject \in Grant \cup {NoGrant}
      /\ op = "OperationGrantConsume" => subject \in Grant /\ subject \in held /\ status[subject] # "unissued"
      /\ \A g \in Grant : status[g] \in {"unissued", "issued", "consumed", "expired"}
      /\ status \in [Grant -> {"unissued", "issued", "consumed", "expired"}]
  BY <1>3 DEF OperationsInv, SubjectInv, IssuedInv, OperationsTypeOK
<1>5. \A k, g : k # "none" => NoReply # Reply(k, g)
  BY DEF NoReply
<1>6. /\ NoReply.kind = "none"
      /\ NoReply \in [kind : {"none", "granted", "receipt", "refused", "error"},
                      grant : Grant \cup {NoGrant}]
  BY RepliesType DEF NoReply
<1>7. \A g \in Grant \ lost :
         /\ status[g] # "unissued" => g \in held
         /\ status[g] = "consumed" => g \in receipts
         /\ g \in refused => g \in receipts \/ status[g] = "expired"
  BY <1>3, <1>5 DEF OperationsInv, EffectsAccounted
<1>8. CASE \E n \in Grant : /\ status[n] = "unissued"
                            /\ status' = [status EXCEPT ![n] = "issued"]
                            /\ r = Reply("granted", n)
  <2>1. PICK n \in Grant : /\ status[n] = "unissued"
                           /\ status' = [status EXCEPT ![n] = "issued"]
                           /\ r = Reply("granted", n)
    BY <1>8
  <2>2. OperationsTypeOK'
    BY <1>1, <1>2, <1>3, <1>4, <1>6, <2>1, RepliesType DEF OperationsInv, OperationsTypeOK, RetryInv
  <2>3. AnswerInv' /\ SubjectInv'
    BY <1>1, <1>2, <1>3, <1>6, <2>1 DEF OperationsInv, AnswerInv, SubjectInv
  <2>4. IssuedInv' /\ RefusalInv' /\ EffectsAccounted'
    BY <1>1, <1>2, <1>3, <1>4, <1>5, <1>7, <2>1
       DEF OperationsInv, IssuedInv, RefusalInv, EffectsAccounted
  <2> QED  BY <2>2, <2>3, <2>4 DEF OperationsInv
<1>9. CASE /\ op = "OperationGrantConsume" /\ status[subject] = "issued"
           /\ status' = [status EXCEPT ![subject] = "consumed"]
           /\ r = Reply("receipt", subject)
  <2>2. OperationsTypeOK'
    BY <1>1, <1>2, <1>3, <1>4, <1>6, <1>9, RepliesType DEF OperationsInv, OperationsTypeOK, RetryInv
  <2>3. AnswerInv' /\ SubjectInv'
    BY <1>1, <1>2, <1>3, <1>4, <1>6, <1>9 DEF OperationsInv, AnswerInv, SubjectInv
  <2>4. IssuedInv' /\ RefusalInv' /\ EffectsAccounted'
    BY <1>1, <1>2, <1>3, <1>4, <1>5, <1>7, <1>9
       DEF OperationsInv, IssuedInv, RefusalInv, EffectsAccounted
  <2> QED  BY <2>2, <2>3, <2>4 DEF OperationsInv
<1>10. CASE /\ op = "OperationGrantConsume" /\ status[subject] # "issued"
            /\ r = Reply("refused", subject)
            /\ UNCHANGED status
  <2>2. OperationsTypeOK'
    BY <1>1, <1>2, <1>3, <1>4, <1>6, <1>10, RepliesType DEF OperationsInv, OperationsTypeOK, RetryInv
  <2>3. AnswerInv' /\ SubjectInv'
    BY <1>1, <1>2, <1>3, <1>4, <1>6, <1>10 DEF OperationsInv, AnswerInv, SubjectInv
  <2>4. IssuedInv' /\ RefusalInv' /\ EffectsAccounted'
    BY <1>1, <1>2, <1>3, <1>4, <1>5, <1>7, <1>10
       DEF OperationsInv, IssuedInv, RefusalInv, EffectsAccounted
  <2> QED  BY <2>2, <2>3, <2>4 DEF OperationsInv
<1>11. CASE r = Reply("error", subject) /\ UNCHANGED status
  <2>2. OperationsTypeOK'
    BY <1>1, <1>2, <1>3, <1>4, <1>6, <1>11, RepliesType DEF OperationsInv, OperationsTypeOK, RetryInv
  <2>3. AnswerInv' /\ SubjectInv'
    BY <1>1, <1>2, <1>3, <1>6, <1>11 DEF OperationsInv, AnswerInv, SubjectInv
  <2>4. IssuedInv' /\ RefusalInv' /\ EffectsAccounted'
    BY <1>1, <1>2, <1>3, <1>5, <1>7, <1>11
       DEF OperationsInv, IssuedInv, RefusalInv, EffectsAccounted
  <2> QED  BY <2>2, <2>3, <2>4 DEF OperationsInv
<1> QED  BY <1>2, <1>8, <1>9, <1>10, <1>11 DEF Handles

(* A request whose attempt was given up is carried out: whatever changes   *)
(* is about a grant that is lost from here on.                             *)
LEMMA ServiceHandlesLateKeeps ==
  ASSUME OperationsInv, RetryInv', NEW g \in Grant \cup {NoGrant}, ServiceHandlesLate(g)
  PROVE  OperationsInv'
<1> USE Replying
<1>1. UNCHANGED <<op, pc, subject, reply, answer, held, receipts, refused>> /\ late' \subseteq late
  BY DEF ServiceHandlesLate, vars, caller
<1>2. PICK r \in Replies :
         /\ Handles(IF g = NoGrant THEN "OperationAuthorization" ELSE "OperationGrantConsume", g, r)
         /\ lost' = lost \cup ({r.grant} \cap Grant)
  BY DEF ServiceHandlesLate
<1>3. status \in [Grant -> {"unissued", "issued", "consumed", "expired"}]
  BY DEF OperationsInv, OperationsTypeOK
<1>4. /\ status' \in [Grant -> {"unissued", "issued", "consumed", "expired"}]
      /\ \A h \in Grant : status[h] # "unissued" => status'[h] # "unissued"
      /\ \A h \in Grant : status'[h] # status[h] => h \in lost'
  <2>1. CASE \E n \in Grant : /\ status[n] = "unissued"
                              /\ status' = [status EXCEPT ![n] = "issued"]
                              /\ r = Reply("granted", n)
    BY <1>2, <1>3, <2>1
  <2>2. CASE /\ g \in Grant /\ status[g] = "issued"
             /\ status' = [status EXCEPT ![g] = "consumed"]
             /\ r = Reply("receipt", g)
    BY <1>2, <1>3, <2>2
  <2>3. CASE UNCHANGED status
    BY <1>3, <2>3
  <2> QED  BY <1>2, <2>1, <2>2, <2>3 DEF Handles
<1>5. OperationsTypeOK'
  BY <1>1, <1>2, <1>4 DEF OperationsInv, OperationsTypeOK, RetryInv
<1>6. AnswerInv' /\ SubjectInv'
  BY <1>1 DEF OperationsInv, AnswerInv, SubjectInv
<1>7. IssuedInv' /\ RefusalInv' /\ EffectsAccounted'
  BY <1>1, <1>2, <1>4 DEF OperationsInv, IssuedInv, RefusalInv, EffectsAccounted
<1> QED  BY <1>5, <1>6, <1>7 DEF OperationsInv

(* An issued grant expires: it has not been used. *)
LEMMA GrantExpiresKeeps ==
  ASSUME OperationsInv, RetryInv', NEW g \in Grant, GrantExpires(g)
  PROVE  OperationsInv'
<1>1. /\ UNCHANGED <<op, pc, subject, reply, answer, late, held, receipts, refused, lost>>
      /\ status[g] = "issued" /\ status' = [status EXCEPT ![g] = "expired"]
  BY DEF GrantExpires, vars, caller
<1>2. status \in [Grant -> {"unissued", "issued", "consumed", "expired"}]
  BY DEF OperationsInv, OperationsTypeOK
<1>3. OperationsTypeOK'
  BY <1>1, <1>2 DEF OperationsInv, OperationsTypeOK, RetryInv
<1>4. AnswerInv' /\ SubjectInv'
  BY <1>1 DEF OperationsInv, AnswerInv, SubjectInv
<1>5. IssuedInv' /\ RefusalInv' /\ EffectsAccounted'
  BY <1>1, <1>2 DEF OperationsInv, IssuedInv, RefusalInv, EffectsAccounted
<1> QED  BY <1>3, <1>4, <1>5 DEF OperationsInv

(* An attempt ends: its answer becomes that of the call, or is lost. *)
LEMMA AttemptEndsKeeps ==
  ASSUME OperationsInv, RetryInv', AttemptEnds
  PROVE  OperationsInv'
<1>1. UNCHANGED <<op, subject, status, held, receipts, refused>> /\ pc = "request" /\ pc' # "idle"
  BY DEF AttemptEnds, caller, Answered, TransientAnswer, AttemptFails, AttemptThrows, Took, Finish
<1>2. answer = NoReply
  BY <1>1 DEF OperationsInv, AnswerInv
<1>3. \A k, g : k # "none" => NoReply # Reply(k, g)
  BY Replying DEF NoReply
<1>4. /\ NoReply.kind = "none"
      /\ NoReply \in [kind : {"none", "granted", "receipt", "refused", "error"},
                      grant : Grant \cup {NoGrant}]
  BY Replying, RepliesType DEF NoReply
<1>5. CASE /\ pc' = "done" /\ answer' = reply /\ reply' = NoReply
           /\ UNCHANGED <<late, lost>>
  <2>1. OperationsTypeOK'
    BY <1>1, <1>4, <1>5 DEF OperationsInv, OperationsTypeOK, RetryInv
  <2>2. AnswerInv' /\ SubjectInv'
    BY <1>1, <1>4, <1>5 DEF OperationsInv, AnswerInv, SubjectInv
  <2>3. IssuedInv' /\ RefusalInv' /\ EffectsAccounted'
    BY <1>1, <1>2, <1>3, <1>5 DEF OperationsInv, IssuedInv, RefusalInv, EffectsAccounted
  <2> QED  BY <2>1, <2>2, <2>3 DEF OperationsInv
<1>6. CASE AnswerLost
  <2>1. /\ lost' = lost \cup ({reply.grant, subject} \cap Grant)
        /\ late' \subseteq late \cup {subject}
        /\ reply' = NoReply /\ answer' = answer
    BY <1>6 DEF AnswerLost
  <2>2. \A k, g : Reply(k, g) = reply => g = reply.grant
    BY Replying
  <2>3. OperationsTypeOK'
    BY <1>1, <1>4, <2>1 DEF OperationsInv, OperationsTypeOK, RetryInv
  <2>4. AnswerInv' /\ SubjectInv'
    BY <1>1, <1>2, <1>4, <2>1 DEF OperationsInv, AnswerInv, SubjectInv
  <2>5. IssuedInv' /\ RefusalInv' /\ EffectsAccounted'
    BY <1>1, <1>2, <1>3, <2>1, <2>2 DEF OperationsInv, IssuedInv, RefusalInv, EffectsAccounted
  <2> QED  BY <2>3, <2>4, <2>5 DEF OperationsInv
<1> QED  BY <1>5, <1>6 DEF AttemptEnds, Answered, Finish

(* The call returns: what it learnt is the caller's, or it is lost. *)
LEMMA ReturnKeeps ==
  ASSUME OperationsInv, RetryInv', NEW verified \in BOOLEAN, Return(verified)
  PROVE  OperationsInv'
<1>1. /\ UNCHANGED <<status, late, reply>> /\ pc = "done" /\ pc' = "idle"
      /\ answer' = NoReply /\ subject' = NoGrant
  BY DEF Return, service, NewCall
<1>2. /\ held' = held \cup {g \in Grant : verified /\ answer = Reply("granted", g)}
      /\ receipts' = receipts \cup {g \in Grant : verified /\ answer = Reply("receipt", g)}
      /\ refused' = refused \cup {g \in Grant : answer = Reply("refused", g)}
      /\ lost \subseteq lost'
      /\ \A g \in lost' : g \in lost \/ g = answer.grant
      /\ ~verified /\ answer.kind \in {"granted", "receipt"} => answer.grant \in lost'
      /\ \A g \in lost' \ lost : answer.kind \in {"granted", "receipt"}
  BY DEF Return, VerifyAuthz
<1>3. reply = NoReply
  BY <1>1 DEF OperationsInv, AnswerInv
<1>4. \A k, g : k # "none" => NoReply # Reply(k, g)
  BY Replying DEF NoReply
<1>5. /\ NoReply.kind = "none"
      /\ NoReply \in [kind : {"none", "granted", "receipt", "refused", "error"},
                      grant : Grant \cup {NoGrant}]
  BY Replying, RepliesType DEF NoReply
<1>6. answer.kind \in {"granted", "receipt"} => answer.grant \in Grant
  BY DEF OperationsInv, AnswerInv
<1>7. \A g \in Grant \ lost' :
         /\ Reply("granted", g) = answer => g \in held'
         /\ Reply("receipt", g) = answer => g \in receipts'
  BY <1>2, Replying
<1>8. OperationsTypeOK'
  BY <1>1, <1>2, <1>3, <1>5, <1>6 DEF OperationsInv, OperationsTypeOK, RetryInv
<1>9. AnswerInv' /\ SubjectInv'
  BY <1>1, <1>3, <1>5, OperationsAssumption DEF OperationsInv, AnswerInv, SubjectInv
<1>10. IssuedInv'
  BY <1>1, <1>2, <1>3, <1>4 DEF OperationsInv, IssuedInv
<1>11. RefusalInv'
  BY <1>1, <1>3, <1>4 DEF RefusalInv
<1>12. EffectsAccounted'
  BY <1>1, <1>2, <1>3, <1>4, <1>7 DEF OperationsInv, RefusalInv, EffectsAccounted
<1> QED  BY <1>8, <1>9, <1>10, <1>11, <1>12 DEF OperationsInv

LEMMA OperationsStep == OperationsInv /\ [OperationsNext]_allVars => OperationsInv'
<1> SUFFICES ASSUME OperationsInv, [OperationsNext]_allVars PROVE OperationsInv'
  OBVIOUS
<1>1. RetryInv'
  BY RetryKept
<1>2. ASSUME NEW o \in Operation, o # "OperationGrantConsume", PlainCall(o)
      PROVE  OperationsInv'
  BY <1>1, <1>2, CallKeeps, OperationsAssumption DEF PlainCall
<1>3. CASE AuthorizeOperation \/ ReportEvents \/ SubmitFeedback \/ RequestEnrollmentTicket \/ OtherCall
  BY <1>2, <1>3, OperationsAssumption
     DEF AuthorizeOperation, ReportEvents, SubmitFeedback, RequestEnrollmentTicket, OtherCall
<1>4. CASE \E g \in Grant : ConsumeOperationAuthorization(g)
  BY <1>1, <1>4, CallKeeps, OperationsAssumption DEF ConsumeOperationAuthorization
<1>5. CASE \E g \in Grant : GrantExpires(g)
  BY <1>1, <1>5, GrantExpiresKeeps
<1>6. CASE ServiceHandles
  BY <1>1, <1>6, ServiceHandlesKeeps
<1>7. CASE \E g \in Grant \cup {NoGrant} : ServiceHandlesLate(g)
  BY <1>1, <1>7, ServiceHandlesLateKeeps
<1>8. CASE AttemptEnds
  BY <1>1, <1>8, AttemptEndsKeeps
<1>9. CASE LoopStep \/ UNCHANGED allVars
  BY <1>1, <1>9, LoopStepKeeps
<1>10. CASE \E verified \in BOOLEAN : Return(verified)
  BY <1>1, <1>10, ReturnKeeps
<1> QED
  BY <1>3, <1>4, <1>5, <1>6, <1>7, <1>8, <1>9, <1>10 DEF OperationsNext

(* The invariants above hold of any sequence of calls, with any number of  *)
(* grants, whatever requests and answers are lost, late or repeated.       *)
THEOREM OperationsInvariance == OperationsSpec => []OperationsInv
  BY OperationsStart, OperationsStep, PTL DEF OperationsSpec

(* The state of the calls, of the service and of the caller is well formed *)
(* in every reachable state.                                               *)
THEOREM OperationsTypeCorrect == OperationsSpec => []OperationsTypeOK
  BY OperationsInvariance, PTL DEF OperationsInv

(* Whatever authorize_operation and consume_operation_authorization set    *)
(* off at the service is known to the caller, or an attempt of theirs      *)
(* ended without a verified answer.                                        *)
THEOREM EffectsAreAccounted == OperationsSpec => []EffectsAccounted
  BY OperationsInvariance, PTL DEF OperationsInv

(* In every call of a sequence the overrun of the deadline is bounded by   *)
(* one late request or sleep.                                              *)
THEOREM DeadlineIsKept == OperationsSpec => []DeadlineKept
  BY OperationsInvariance, PTL DEF OperationsInv, RetryInv

(* In every call of a sequence retries are not given up while there is     *)
(* time for them.                                                          *)
THEOREM RetriesAreUsed == OperationsSpec => []GivesUpOnlyWhenLate
  BY OperationsInvariance, PTL DEF OperationsInv, RetryInv

(* How often the loop of a call may still move on: an attempt is begun,    *)
(* ends, and is slept after.                                               *)
StepsLeft ==
    3 * (policy.retries - attempt)
        + (CASE pc = "top" -> 3 [] pc = "request" -> 2 [] pc = "sleep" -> 1 [] OTHER -> 0)

(* Whenever the loop of send() moves on it comes closer to its end; a stop *)
(* request, an answer on its way or a late request does not set it back.   *)
LoopAdvances ==
    [][pc' # pc /\ pc \in {"top", "request", "sleep"}
           => StepsLeft' \in Nat /\ StepsLeft' < StepsLeft]_allVars

(* The loop itself: the three places come in turn, and the third one uses  *)
(* up a retry, which the policy must still have.                           *)
LEMMA LoopStepAdvances ==
  ASSUME RetryInv, [Next]_vars, pc \in {"top", "request", "sleep"}, pc' # pc
  PROVE  StepsLeft' \in Nat /\ StepsLeft' < StepsLeft
<1>1. op \in Operation /\ attempt \in 0 .. policy.retries /\ policy.retries \in Nat
  BY PolicyType DEF RetryInv, TypeOK
<1>2. CASE BeginAttempt \/ ThrowIfStopped \/ DeadlinePassed
  <2>1. /\ pc = "top" /\ pc' \in {"request", "done"}
        /\ policy' = policy /\ attempt' = attempt
    BY <1>2 DEF BeginAttempt, ThrowIfStopped, DeadlinePassed, Finish, policy
  <2>2. StepsLeft = 3 * (policy.retries - attempt) + 3
    BY <2>1 DEF StepsLeft
  <2>3. \/ StepsLeft' = 3 * (policy.retries - attempt) + 2
        \/ StepsLeft' = 3 * (policy.retries - attempt) + 0
    BY <2>1 DEF StepsLeft
  <2> QED  BY <1>1, <2>2, <2>3
<1>3. CASE RequestEnds
  <2>1. /\ pc = "request" /\ pc' \in {"sleep", "done"}
        /\ policy' = policy /\ attempt' = attempt
    BY <1>3 DEF RequestEnds, Answered, TransientAnswer, AttemptFails, AttemptThrows, Took,
                Finish, policy
  <2>2. StepsLeft = 3 * (policy.retries - attempt) + 2
    BY <2>1 DEF StepsLeft
  <2>3. \/ StepsLeft' = 3 * (policy.retries - attempt) + 1
        \/ StepsLeft' = 3 * (policy.retries - attempt) + 0
    BY <2>1 DEF StepsLeft
  <2> QED  BY <1>1, <2>2, <2>3
<1>4. ASSUME NEW extra \in Oversleep, Backoff(extra)
      PROVE  StepsLeft' \in Nat /\ StepsLeft' < StepsLeft
  <2>1. pc = "sleep" /\ pc' = "top" /\ policy' = policy /\ attempt' = attempt + 1
    BY <1>4 DEF Backoff, policy
  <2>2. attempt < policy.retries
    BY <2>1 DEF RetryInv, TimeInv, CanWait
  <2>3. /\ StepsLeft = 3 * (policy.retries - attempt) + 1
        /\ StepsLeft' = 3 * (policy.retries - (attempt + 1)) + 3
    BY <2>1 DEF StepsLeft
  <2> QED  BY <1>1, <2>2, <2>3
<1>5. ~(\E o \in Operation : Send(o)) /\ ~RequestStop /\ ~UNCHANGED vars
  BY DEF Send, RequestStop, vars
<1> QED  BY <1>2, <1>3, <1>4, <1>5 DEF Next

(* Whatever the server answers, and with or without a deadline, the loop   *)
(* of send() and send_web() ends after at most three steps per attempt.    *)
THEOREM LoopsComeToAnEnd == OperationsSpec => LoopAdvances
<1>1. ASSUME OperationsInv, OperationsNext, pc \in {"top", "request", "sleep"}, pc' # pc
      PROVE  [Next]_vars
  <2>1. CASE AttemptEnds
    BY <2>1 DEF AttemptEnds, RequestEnds, Next
  <2>2. CASE LoopStep
    BY <2>2 DEF LoopStep, Next
  <2>3. CASE \/ AuthorizeOperation \/ ReportEvents \/ SubmitFeedback
             \/ RequestEnrollmentTicket \/ OtherCall
             \/ \E g \in Grant : ConsumeOperationAuthorization(g)
    BY <1>1, <2>3 DEF AuthorizeOperation, ReportEvents, SubmitFeedback,
                      RequestEnrollmentTicket, OtherCall, PlainCall,
                      ConsumeOperationAuthorization, Send
  <2>4. CASE (\E g \in Grant : GrantExpires(g)) \/ ServiceHandles
                \/ (\E g \in Grant \cup {NoGrant} : ServiceHandlesLate(g))
    BY <2>4 DEF GrantExpires, ServiceHandles, ServiceHandlesLate
  <2>5. CASE \E verified \in BOOLEAN : Return(verified)
    BY <1>1, <2>5 DEF Return
  <2> QED  BY <1>1, <2>1, <2>2, <2>3, <2>4, <2>5 DEF OperationsNext
<1>2. OperationsInv /\ [OperationsNext]_allVars
        => [pc' # pc /\ pc \in {"top", "request", "sleep"}
                => StepsLeft' \in Nat /\ StepsLeft' < StepsLeft]_allVars
  BY <1>1, LoopStepAdvances DEF OperationsInv
<1> QED  BY <1>2, OperationsInvariance, PTL DEF OperationsSpec, LoopAdvances

-----------------------------------------------------------------------------
(* Policies that leave room for their retries *)

(* When each attempt of a policy begins, if all of them time out. *)
Schedule(p) ==
    {w \in [0 .. p.retries -> Nat] :
        /\ w[0] = 0
        /\ \A a \in 0 .. p.retries :
              a < p.retries => w[a + 1] = w[a] + p.timeout + RetryDelay(p, a)}

(* The deadline is not before the end of any of them. *)
LeavesRoom(p) ==
    p.deadline > 0 =>
        \E w \in Schedule(p) : \A a \in 0 .. p.retries : w[a] + p.timeout <= p.deadline

(* A call in which nothing is late is not behind the schedule. *)
ScheduleInv ==
    prompt =>
        \A w \in Schedule(policy) :
            /\ pc \in {"idle", "top", "request"} => elapsed <= w[attempt]
            /\ pc \in {"sleep", "done"} => elapsed <= w[attempt] + policy.timeout

LEMMA ScheduleInit == OperationsInit => ScheduleInv
  BY DEF OperationsInit, Init, ScheduleInv, Schedule

LEMMA ScheduleStep == OperationsInv /\ ScheduleInv /\ [OperationsNext]_allVars => ScheduleInv'
<1> SUFFICES ASSUME OperationsInv, ScheduleInv, [OperationsNext]_allVars PROVE ScheduleInv'
  OBVIOUS
<1>1. /\ op \in Operation /\ attempt \in 0 .. policy.retries /\ elapsed \in Nat
      /\ policy \in RequestPolicy /\ policy.timeout \in Nat /\ policy.retries \in Nat
      /\ RequestTime[op] \subseteq Nat /\ Oversleep \subseteq Nat
  BY PolicyType, RetryAssumption DEF OperationsInv, RetryInv, TypeOK
<1>2. RetryDelay(policy, attempt) \in Nat
  BY <1>1, DelayType
<1>3. \A w \in Schedule(policy) : \A a \in 0 .. policy.retries : w[a] \in Nat
  BY DEF Schedule
<1>4. CASE pc = "idle" /\ pc' = "top" /\ attempt' = 0 /\ elapsed' = 0
  BY <1>4 DEF ScheduleInv, Schedule
<1>5. CASE pc' = "idle" /\ attempt' = 0 /\ elapsed' = 0
  BY <1>5 DEF ScheduleInv, Schedule
<1>6. CASE UNCHANGED vars
  BY <1>6 DEF vars, ScheduleInv, policy
<1>7. CASE RequestStop \/ BeginAttempt \/ ThrowIfStopped \/ DeadlinePassed
  <2>1. /\ UNCHANGED <<op, attempt, elapsed, prompt>> /\ policy' = policy
        /\ pc' = pc \/ (pc = "top" /\ pc' \in {"request", "done"})
    BY <1>7 DEF RequestStop, BeginAttempt, ThrowIfStopped, DeadlinePassed, Finish, policy
  <2> QED  BY <1>1, <1>3, <2>1 DEF ScheduleInv
<1>8. CASE RequestEnds
  <2>1. PICK d \in RequestTime[op] : Took(d) /\ UNCHANGED attempt /\ pc' \in {"sleep", "done"}
    BY <1>8 DEF RequestEnds, Answered, TransientAnswer, AttemptFails, AttemptThrows, Finish
  <2>2. /\ policy' = policy /\ pc = "request" /\ elapsed' = elapsed + d
        /\ prompt' => prompt /\ d <= policy.timeout
    BY <2>1 DEF Took, policy
  <2> QED  BY <1>1, <1>3, <2>1, <2>2 DEF ScheduleInv
<1>9. CASE \E extra \in Oversleep : Backoff(extra)
  <2>1. PICK extra \in Oversleep : Backoff(extra)
    BY <1>9
  <2>2. /\ policy' = policy /\ pc = "sleep" /\ pc' = "top" /\ attempt' = attempt + 1
        /\ elapsed' = elapsed + RetryDelay(policy, attempt) + extra
        /\ prompt' => prompt /\ extra = 0
    BY <2>1 DEF Backoff, policy
  <2>3. attempt < policy.retries
    BY <2>2 DEF OperationsInv, RetryInv, TimeInv, CanWait
  <2>4. \A w \in Schedule(policy) :
           w[attempt + 1] = w[attempt] + policy.timeout + RetryDelay(policy, attempt)
    BY <1>1, <2>3 DEF Schedule
  <2>5. prompt' => elapsed' = elapsed + RetryDelay(policy, attempt)
    BY <1>1, <1>2, <2>2
  <2> QED  BY <1>1, <1>2, <1>3, <2>2, <2>4, <2>5 DEF ScheduleInv
<1>10. ASSUME NEW o \in Operation, Send(o)
       PROVE  pc = "idle" /\ pc' = "top" /\ attempt' = 0 /\ elapsed' = 0
  BY <1>10 DEF Send, OperationsInv, RetryInv, TimeInv
<1>11. CASE OperationsNext
  <2>1. CASE AuthorizeOperation \/ ReportEvents \/ SubmitFeedback \/ RequestEnrollmentTicket
                \/ OtherCall \/ \E g \in Grant : ConsumeOperationAuthorization(g)
    BY <1>4, <1>10, <2>1, OperationsAssumption
       DEF AuthorizeOperation, ReportEvents, SubmitFeedback, RequestEnrollmentTicket, OtherCall,
           PlainCall, ConsumeOperationAuthorization
  <2>2. CASE (\E g \in Grant : GrantExpires(g)) \/ ServiceHandles
                \/ (\E g \in Grant \cup {NoGrant} : ServiceHandlesLate(g))
    BY <1>6, <2>2 DEF GrantExpires, ServiceHandles, ServiceHandlesLate
  <2>3. CASE AttemptEnds
    BY <1>8, <2>3 DEF AttemptEnds, RequestEnds
  <2>4. CASE LoopStep
    BY <1>7, <1>9, <2>4 DEF LoopStep
  <2>5. CASE \E verified \in BOOLEAN : Return(verified)
    BY <1>5, <2>5 DEF Return, NewCall
  <2> QED  BY <1>11, <2>1, <2>2, <2>3, <2>4, <2>5 DEF OperationsNext
<1> QED  BY <1>6, <1>11 DEF allVars

(* A policy that leaves room is enough. *)
LEMMA RoomIsEnough ==
  ASSUME OperationsInv, ScheduleInv, LeavesRoom(policy)
  PROVE  PolicyAllowsRetries
<1> SUFFICES ASSUME prompt, result \in {"transient", "error", "timeout"}, attempt # policy.retries
             PROVE  FALSE
  BY DEF PolicyAllowsRetries
<1>1. /\ op \in Operation /\ attempt \in 0 .. policy.retries /\ elapsed \in Nat /\ pc = "done"
      /\ policy \in RequestPolicy /\ policy.timeout \in Nat /\ policy.retries \in Nat
      /\ policy.deadline \in Nat
  BY PolicyType DEF OperationsInv, RetryInv, TypeOK
<1>2. RetryDelay(policy, attempt) \in Nat
  BY <1>1, DelayType
<1>3. /\ policy.deadline > 0
      /\ elapsed + RetryDelay(policy, attempt) + policy.timeout > policy.deadline
  BY DEF OperationsInv, RetryInv, GivesUpOnlyWhenLate
<1>4. PICK w \in Schedule(policy) : \A a \in 0 .. policy.retries : w[a] + policy.timeout <= policy.deadline
  BY <1>3 DEF LeavesRoom
<1>5. /\ w[attempt] \in Nat /\ w[attempt + 1] + policy.timeout <= policy.deadline
      /\ w[attempt + 1] = w[attempt] + policy.timeout + RetryDelay(policy, attempt)
  <2>1. attempt < policy.retries /\ attempt + 1 \in 0 .. policy.retries
    BY <1>1
  <2> QED  BY <1>1, <1>4, <2>1 DEF Schedule
<1>6. elapsed <= w[attempt] + policy.timeout
  BY <1>1, <1>4 DEF ScheduleInv
<1> QED  BY <1>1, <1>2, <1>3, <1>5, <1>6

(* In any table whose policies leave room for their retries, the deadline  *)
(* never cuts the attempts of a call short in which nothing was late.      *)
THEOREM RoomAllowsRetries ==
  ASSUME \A o \in Operation : LeavesRoom(Policy[o])
  PROVE  OperationsSpec => []PolicyAllowsRetries
<1>1. OperationsInv /\ ScheduleInv => PolicyAllowsRetries
  <2>1. OperationsInv => LeavesRoom(policy)
    BY DEF OperationsInv, RetryInv, TypeOK, policy
  <2> QED  BY <2>1, RoomIsEnough
<1> QED
  BY <1>1, OperationsInvariance, ScheduleInit, ScheduleStep, PTL DEF OperationsSpec

(* The first two backoffs, where the cap does not bite. *)
LEMMA FirstDelays ==
  ASSUME NEW p \in RequestPolicy, p.backoff > 0, 2 * p.backoff <= p.backoff_max
  PROVE  RetryDelay(p, 0) = p.backoff /\ RetryDelay(p, 1) = 2 * p.backoff
<1>1. p.backoff \in Nat /\ p.backoff_max \in Nat
  BY DEF RequestPolicy
<1>2. \A m, n \in Nat : m <= n => Min({m, n}) = m /\ Max({n, m}) = n
  BY DEF Min, Max
<1>3. /\ p.backoff <= p.backoff_max /\ 2 * p.backoff \in Nat
      /\ p.backoff * 1 = p.backoff /\ p.backoff * 2 = 2 * p.backoff
  BY <1>1
<1>4. Min({0, 16}) = 0 /\ Min({1, 16}) = 1
  BY <1>2
<1>5. Max({p.backoff_max, p.backoff}) = p.backoff_max
  BY <1>1, <1>2, <1>3
<1>6. 2 ^ 0 = 1 /\ 2 ^ 1 = 2
  OBVIOUS
<1>7. RetryDelay(p, 0) = Min({p.backoff * 1, p.backoff_max})
  BY <1>1, <1>4, <1>5, <1>6 DEF RetryDelay
<1>8. RetryDelay(p, 1) = Min({p.backoff * 2, p.backoff_max})
  BY <1>1, <1>4, <1>5, <1>6 DEF RetryDelay
<1>9. /\ Min({p.backoff, p.backoff_max}) = p.backoff
      /\ Min({2 * p.backoff, p.backoff_max}) = 2 * p.backoff
  BY <1>1, <1>2, <1>3, Zenon
<1> QED  BY <1>3, <1>7, <1>8, <1>9

(* The room that one retry needs, and two. *)
LEMMA RoomForOne ==
  ASSUME NEW p \in RequestPolicy, p.backoff > 0, 2 * p.backoff <= p.backoff_max,
         p.retries = 1, 2 * p.timeout + p.backoff <= p.deadline
  PROVE  LeavesRoom(p)
<1> DEFINE w == [a \in 0 .. 1 |-> IF a = 0 THEN 0 ELSE p.timeout + p.backoff]
<1>1. p.timeout \in Nat /\ p.backoff \in Nat /\ p.deadline \in Nat
  BY DEF RequestPolicy
<1>2. w \in Schedule(p)
  BY <1>1, FirstDelays DEF Schedule
<1>3. \A a \in 0 .. p.retries : w[a] + p.timeout <= p.deadline
  BY <1>1
<1> QED  BY <1>2, <1>3 DEF LeavesRoom

LEMMA RoomForTwo ==
  ASSUME NEW p \in RequestPolicy, p.backoff > 0, 2 * p.backoff <= p.backoff_max,
         p.retries = 2, 3 * p.timeout + 3 * p.backoff <= p.deadline
  PROVE  LeavesRoom(p)
<1> DEFINE w == [a \in 0 .. 2 |-> IF a = 0 THEN 0
                                  ELSE IF a = 1 THEN p.timeout + p.backoff
                                  ELSE 2 * p.timeout + 3 * p.backoff]
<1>1. p.timeout \in Nat /\ p.backoff \in Nat /\ p.deadline \in Nat
  BY DEF RequestPolicy
<1>2. w \in Schedule(p)
  <2>1. w \in [0 .. 2 -> Nat] /\ w[0] = 0
    BY <1>1
  <2>2. w[0 + 1] = w[0] + p.timeout + p.backoff
    BY <1>1
  <2>3. w[1 + 1] = w[1] + p.timeout + 2 * p.backoff
    BY <1>1
  <2>4. \A a \in 0 .. 2 : a < 2 => a = 0 \/ a = 1
    OBVIOUS
  <2> HIDE DEF w
  <2> QED  BY <2>1, <2>2, <2>3, <2>4, FirstDelays DEF Schedule
<1>3. \A a \in 0 .. p.retries : w[a] + p.timeout <= p.deadline
  BY <1>1
<1> QED  BY <1>2, <1>3 DEF LeavesRoom

(* resolve_request_policy leaves room for the retries of every class. *)
LEMMA ShippedRoom == \A o \in OperationClass : LeavesRoom(ResolveRequestPolicy[o])
<1> SUFFICES ASSUME NEW o \in OperationClass
             PROVE  LeavesRoom(ResolveRequestPolicy[o])
  OBVIOUS
<1> DEFINE p == ResolveRequestPolicy[o]
<1>1. CASE o \in {"TrustedTimeSync", "OnlineKeyManifest"}
  <2>1. p = Limits(10000, 2, 1000, 4000, 40000)
    BY <1>1 DEF ResolveRequestPolicy
  <2> QED  BY <2>1, RoomForTwo DEF Limits, RequestPolicy
<1>2. CASE o = "UpdateCheck"
  <2>1. p = Limits(15000, 2, 1500, 6000, 60000)
    BY <1>2 DEF ResolveRequestPolicy
  <2> QED  BY <2>1, RoomForTwo DEF Limits, RequestPolicy
<1>3. CASE o = "Heartbeat"
  <2>1. p = Limits(8000, 2, 1000, 4000, 30000)
    BY <1>3 DEF ResolveRequestPolicy
  <2> QED  BY <2>1, RoomForTwo DEF Limits, RequestPolicy
<1>4. CASE o = "OperationAuthorization"
  <2>1. p = Limits(10000, 2, 1000, 4000, 36000)
    BY <1>4 DEF ResolveRequestPolicy
  <2> QED  BY <2>1, RoomForTwo DEF Limits, RequestPolicy
<1>5. CASE o = "Events"
  <2>1. p = Limits(8000, 1, 1000, 2000, 20000)
    BY <1>5 DEF ResolveRequestPolicy
  <2> QED  BY <2>1, RoomForOne DEF Limits, RequestPolicy
<1>6. CASE o \in {"OperationGrantConsume", "Feedback", "EnrollmentTicket", "DeviceKeyRotation"}
  <2>1. p = Limits(10000, 1, 1000, 2000, 24000)
    BY <1>6 DEF ResolveRequestPolicy
  <2> QED  BY <2>1, RoomForOne DEF Limits, RequestPolicy
<1>7. CASE o \in {"FirmwareIdentity", "DebugProtocol"}
  <2>1. p = Limits(8000, 1, 500, 1000, 20000)
    BY <1>7 DEF ResolveRequestPolicy
  <2> QED  BY <2>1, RoomForOne DEF Limits, RequestPolicy
<1> QED  BY <1>1, <1>2, <1>3, <1>4, <1>5, <1>6, <1>7 DEF OperationClass

(* With the table of resolve_request_policy, a retryable failure of a call *)
(* in which nothing was late reaches the caller only after every retry     *)
(* that the policy names, however long requests may take otherwise.        *)
THEOREM ShippedPolicyAllowsRetries ==
  ASSUME Operation = OperationClass, Policy = ResolveRequestPolicy
  PROVE  OperationsSpec => []PolicyAllowsRetries
<1>1. \A o \in Operation : LeavesRoom(Policy[o])
  BY ShippedRoom
<1> QED  BY <1>1, RoomAllowsRetries
=============================================================================
