----------------------------- MODULE Operations -----------------------------
(***************************************************************************)
(* Client::authorize_operation and consume_operation_authorization         *)
(* (Cpp/src/client.cpp) over the loop of attempts of RequestRetry, with    *)
(* the service that issues grants and lets each be used once.  Every       *)
(* attempt is a request of its own, with its own nonce: the service cannot *)
(* tell a repeated one from a new one.                                     *)
(*                                                                         *)
(* A call that offline_locked(), validate_operation_authorization_request  *)
(* or validate_operation_grant refuses throws before anything is sent and  *)
(* changes nothing.                                                        *)
(***************************************************************************)
EXTENDS RequestRetry

CONSTANTS
    Grant,       \* operation grants
    NoGrant      \* a call that is not about a grant

ASSUME OperationsAssumption ==
    /\ {"OperationAuthorization", "OperationGrantConsume", "Events", "Feedback",
        "EnrollmentTicket"} \subseteq Operation
    /\ NoGrant \notin Grant

VARIABLES
    subject,     \* the grant that the call is about
    status,      \* of each grant, at the service
    reply,       \* what the service answered to the attempt under way
    answer,      \* the answer that send() returned, or NoReply
    late,        \* requests that may reach the service after their attempt
    held,        \* grants that authorize_operation returned
    receipts,    \* grants that consume_operation_authorization returned a receipt of
    refused,     \* grants whose use was refused with an "operation_grant_" code
    lost         \* history: grants whose issue or use may have gone unanswered

service == <<status, late>>
caller == <<held, receipts, refused>>
allVars == <<vars, subject, service, reply, answer, caller, lost>>

Reply(kind, g) == [kind |-> kind, grant |-> g]
NoReply == Reply("none", NoGrant)

OperationsTypeOK ==
    /\ TypeOK
    /\ subject \in Grant \cup {NoGrant}
    /\ status \in [Grant -> {"unissued", "issued", "consumed", "expired"}]
    /\ {reply, answer} \subseteq
          [kind : {"none", "granted", "receipt", "refused", "error"}, grant : Grant \cup {NoGrant}]
    /\ late \subseteq Grant \cup {NoGrant}
    /\ held \subseteq Grant /\ receipts \subseteq Grant /\ refused \subseteq Grant
    /\ lost \subseteq Grant

OperationsInit ==
    /\ Init
    /\ subject = NoGrant
    /\ status = [g \in Grant |-> "unissued"]
    /\ reply = NoReply /\ answer = NoReply
    /\ late = {}
    /\ held = {} /\ receipts = {} /\ refused = {} /\ lost = {}

-----------------------------------------------------------------------------
(* The caller's calls. *)

(* A call that is not about a grant at hand: one request, and its answer. *)
PlainCall(o) ==
    /\ Send(o)
    /\ subject' = NoGrant
    /\ UNCHANGED <<service, reply, answer, caller, lost>>

AuthorizeOperation == PlainCall("OperationAuthorization")

(* A grant may be passed again, whatever came of it before. *)
ConsumeOperationAuthorization(g) ==
    /\ g \in held
    /\ Send("OperationGrantConsume")
    /\ subject' = g
    /\ UNCHANGED <<service, reply, answer, caller, lost>>

(* report_event and report_events: an event without a name is refused, an  *)
(* empty list is not sent.                                                 *)
ReportEvents == PlainCall("Events")

(* submit_feedback: an answer without a valid id does not verify. *)
SubmitFeedback == PlainCall("Feedback")

RequestEnrollmentTicket == PlainCall("EnrollmentTicket")

(* The calls that other modules are about. *)
OtherCall ==
    \E o \in Operation \ {"OperationAuthorization", "OperationGrantConsume", "Events",
                          "Feedback", "EnrollmentTicket"} : PlainCall(o)

-----------------------------------------------------------------------------
(* The service. *)

(* A request about grant g, or for a new one, is carried out and answered  *)
(* with r.                                                                 *)
Handles(o, g, r) ==
    \/ /\ o = "OperationAuthorization"
       /\ \E n \in Grant : /\ status[n] = "unissued"
                           /\ status' = [status EXCEPT ![n] = "issued"]
                           /\ r = Reply("granted", n)
    \/ /\ o = "OperationGrantConsume" /\ status[g] = "issued"
       /\ status' = [status EXCEPT ![g] = "consumed"]
       /\ r = Reply("receipt", g)
    \/ /\ o = "OperationGrantConsume" /\ status[g] # "issued"
       /\ r = Reply("refused", g)
       /\ UNCHANGED status
    \/ r = Reply("error", g) /\ UNCHANGED status

Replies == {Reply(k, g) : k \in {"granted", "receipt", "refused", "error"},
                          g \in Grant \cup {NoGrant}}

ServiceHandles ==
    /\ pc = "request" /\ reply = NoReply
    /\ \E r \in Replies : Handles(op, subject, r) /\ reply' = r
    /\ UNCHANGED <<vars, subject, late, answer, caller, lost>>

(* A request whose attempt has been given up arrives all the same; nobody  *)
(* waits for the answer.                                                   *)
ServiceHandlesLate(g) ==
    /\ g \in late
    /\ late' = late \ {g}
    /\ \E r \in Replies :
          /\ Handles(IF g = NoGrant THEN "OperationAuthorization" ELSE "OperationGrantConsume", g, r)
          /\ lost' = lost \cup ({r.grant} \cap Grant)
    /\ UNCHANGED <<vars, subject, reply, answer, caller>>

GrantExpires(g) ==
    /\ status[g] = "issued"
    /\ status' = [status EXCEPT ![g] = "expired"]
    /\ UNCHANGED <<vars, subject, reply, answer, late, caller, lost>>

-----------------------------------------------------------------------------
(* The loop of attempts: what becomes of the service's answer. *)

(* The service's answer does not get here, or the request not there. *)
AnswerLost ==
    /\ lost' = lost \cup ({reply.grant, subject} \cap Grant)
    /\ late' \in IF /\ reply = NoReply
                    /\ op \in {"OperationAuthorization", "OperationGrantConsume"}
                 THEN {late, late \cup {subject}} ELSE {late}
    /\ reply' = NoReply /\ UNCHANGED answer

AttemptEnds ==
    /\ \E d \in RequestTime[op] :
          \/ /\ Answered(d) /\ reply # NoReply
             /\ answer' = reply /\ reply' = NoReply
             /\ UNCHANGED <<late, lost>>
          \/ (TransientAnswer(d) \/ AttemptFails(d) \/ AttemptThrows(d)) /\ AnswerLost
    /\ UNCHANGED <<subject, status, caller>>

LoopStep ==
    /\ \/ RequestStop \/ BeginAttempt \/ ThrowIfStopped \/ DeadlinePassed
       \/ \E extra \in Oversleep : Backoff(extra)
    /\ UNCHANGED <<subject, service, reply, answer, caller, lost>>

-----------------------------------------------------------------------------
(* throw_if_error: the kind of Error that an answer which is not 2xx gives; *)
(* verify_authz: an answer that does not verify is an Error too.            *)
VerifyAuthz(verified) ==
    /\ held' = held \cup {g \in Grant : verified /\ answer = Reply("granted", g)}
    /\ receipts' = receipts \cup {g \in Grant : verified /\ answer = Reply("receipt", g)}
    /\ refused' = refused \cup {g \in Grant : answer = Reply("refused", g)}
    /\ lost' = IF verified \/ answer.kind \notin {"granted", "receipt"}
               THEN lost ELSE lost \cup {answer.grant}

(* The locals of send() and the caller's stop token are new in each call. *)
NewCall ==
    /\ pc' = "idle" /\ attempt' = 0 /\ elapsed' = 0
    /\ failed' = FALSE /\ result' = "none" /\ stopped' = FALSE /\ prompt' = TRUE
    /\ UNCHANGED op

(* The call returns or throws. *)
Return(verified) ==
    /\ pc = "done"
    /\ VerifyAuthz(verified)
    /\ answer' = NoReply
    /\ subject' = NoGrant
    /\ NewCall
    /\ UNCHANGED <<service, reply>>

-----------------------------------------------------------------------------
OperationsNext ==
    \/ AuthorizeOperation \/ ReportEvents \/ SubmitFeedback \/ RequestEnrollmentTicket
    \/ OtherCall
    \/ \E g \in Grant : ConsumeOperationAuthorization(g) \/ GrantExpires(g)
    \/ ServiceHandles
    \/ \E g \in Grant \cup {NoGrant} : ServiceHandlesLate(g)
    \/ AttemptEnds \/ LoopStep
    \/ \E verified \in BOOLEAN : Return(verified)

OperationsSpec == OperationsInit /\ [][OperationsNext]_allVars

-----------------------------------------------------------------------------
(* The caller knows of all it has set off: a grant that was issued is in   *)
(* its hands, one that was used has its receipt, and one whose use was     *)
(* refused had been used with a receipt or had expired; except where an    *)
(* attempt, perhaps an earlier one of the same call, ended without an      *)
(* answer that could be verified.                                          *)
EffectsAccounted ==
    \A g \in Grant \ lost :
        /\ status[g] # "unissued" => g \in held \/ Reply("granted", g) \in {reply, answer}
        /\ status[g] = "consumed" => g \in receipts \/ Reply("receipt", g) \in {reply, answer}
        /\ g \in refused => g \in receipts \/ status[g] = "expired"
=============================================================================
