--------------------------- MODULE DebugRequests ---------------------------
(***************************************************************************)
(* Debug requests: create_debug_request, cancel_debug_request and          *)
(* watch_debug_request of Client (Cpp/src/client.cpp), and the map         *)
(* debug_credentials, which each of them enters and leaves under           *)
(* debug_mutex while its requests to the service are not under it.         *)
(*                                                                         *)
(* Threads of the application, and the workers of its streams, use the     *)
(* tickets of one another.  Answers may be lost; send_web may repeat a     *)
(* request.  The service decides a request once.                           *)
(***************************************************************************)
EXTENDS Naturals

CONSTANTS
    Thread,     \* threads of the application, and workers of streams
    Request,    \* request ids
    NoRequest

ASSUME DebugRequestsAssumption == NoRequest \notin Request

VARIABLES
    credentials,  \* the request ids in debug_credentials
    tickets,      \* the tickets that create_debug_request has returned
    place,        \* where each thread is
    request,      \* the request that its call is about
    message,      \* the state that a watcher has read
    status,       \* the service: the state of each request
    told          \* history: the outcomes that the application has learnt

debugVars == <<credentials, tickets, place, request, message, status, told>>

Final == {"approved", "rejected", "cancelled"}
Status == Final \cup {"none", "pending", "expired"}
CallPlace == {"idle", "creating", "created", "cancelling", "cancelled",
              "watching", "message", "decided"}

DebugTypeOK ==
    /\ credentials \subseteq Request
    /\ tickets \subseteq Request
    /\ place \in [Thread -> CallPlace]
    /\ request \in [Thread -> Request \cup {NoRequest}]
    /\ message \in [Thread -> Status]
    /\ status \in [Request -> Status]
    /\ told \in [Request -> SUBSET Final]

DebugInit ==
    /\ credentials = {} /\ tickets = {}
    /\ place = [t \in Thread |-> "idle"]
    /\ request = [t \in Thread |-> NoRequest]
    /\ message = [t \in Thread |-> "none"]
    /\ status = [r \in Request |-> "none"]
    /\ told = [r \in Request |-> {}]

StepTo(t, next) == place' = [place EXCEPT ![t] = next]

Return(t) ==
    /\ StepTo(t, "idle")
    /\ request' = [request EXCEPT ![t] = NoRequest]
    /\ message' = [message EXCEPT ![t] = "none"]

(* The application learns the outcome of r. *)
Tell(r, outcome) == told' = [told EXCEPT ![r] = @ \cup {outcome}]

-----------------------------------------------------------------------------
(* create_debug_request *)

(* The enrollment has given credentials for the session. *)
BeginCreate(t) ==
    /\ place[t] = "idle"
    /\ StepTo(t, "creating")
    /\ UNCHANGED <<credentials, tickets, request, message, status, told>>

(* The service makes a request; if its answer is lost, the repetition      *)
(* makes another one.                                                      *)
ServiceCreates(t, r) ==
    /\ place[t] = "creating" /\ status[r] = "none"
    /\ status' = [status EXCEPT ![r] = "pending"]
    /\ request' = [request EXCEPT ![t] = r]
    /\ UNCHANGED <<credentials, tickets, place, message, told>>

CreateAnswered(t) ==
    /\ place[t] = "creating" /\ request[t] # NoRequest
    /\ StepTo(t, "created")
    /\ UNCHANGED <<credentials, tickets, request, message, status, told>>

StoreCredentials(t) ==
    /\ place[t] = "created"
    /\ credentials' = credentials \cup {request[t]}
    /\ tickets' = tickets \cup {request[t]}
    /\ Return(t)
    /\ UNCHANGED <<status, told>>

(* No answer, an error, or an answer that is invalid. *)
CreateFails(t) ==
    /\ place[t] = "creating"
    /\ Return(t)
    /\ UNCHANGED <<credentials, tickets, status, told>>

-----------------------------------------------------------------------------
(* cancel_debug_request *)

(* Mutant of BeginCancel: the credentials are moved out of the map. *)
CancelTakesCredentials(t, r) ==
    /\ place[t] = "idle" /\ r \in tickets \cap credentials
    /\ credentials' = credentials \ {r}
    /\ request' = [request EXCEPT ![t] = r]
    /\ StepTo(t, "cancelling")
    /\ UNCHANGED <<tickets, message, status, told>>
(* The credentials are copied; without them the call throws at once. *)
BeginCancel(t, r) ==
    /\ place[t] = "idle" /\ r \in tickets \cap credentials
    /\ request' = [request EXCEPT ![t] = r]
    /\ StepTo(t, "cancelling")
    /\ UNCHANGED <<credentials, tickets, message, status, told>>

(* A repetition, or another thread's call, finds nothing to cancel. *)
ServiceCancels(t) ==
    /\ place[t] = "cancelling" /\ status[request[t]] = "pending"
    /\ status' = [status EXCEPT ![request[t]] = "cancelled"]
    /\ UNCHANGED <<credentials, tickets, place, request, message, told>>

(* Mutant of CancelAnswered: throw_if_error is not called. *)
CancelUnchecked(t) ==
    /\ place[t] = "cancelling"
    /\ Tell(request[t], "cancelled")
    /\ StepTo(t, "cancelled")
    /\ UNCHANGED <<credentials, tickets, request, message, status>>
CancelAnswered(t) ==
    /\ place[t] = "cancelling" /\ status[request[t]] = "cancelled"
    /\ Tell(request[t], "cancelled")
    /\ StepTo(t, "cancelled")
    /\ UNCHANGED <<credentials, tickets, request, message, status>>

EraseCancelled(t) ==
    /\ place[t] = "cancelled"
    /\ credentials' = credentials \ {request[t]}
    /\ Return(t)
    /\ UNCHANGED <<tickets, status, told>>

(* The request is decided already, or the answer is lost. *)
CancelFails(t) ==
    /\ place[t] = "cancelling"
    /\ Return(t)
    /\ UNCHANGED <<credentials, tickets, status, told>>

-----------------------------------------------------------------------------
(* watch_debug_request *)

BeginWatch(t, r) ==
    /\ place[t] = "idle" /\ r \in tickets \cap credentials
    /\ request' = [request EXCEPT ![t] = r]
    /\ StepTo(t, "watching")
    /\ UNCHANGED <<credentials, tickets, message, status, told>>

(* The stream brings the state of the request, perhaps long after. *)
ReadState(t) ==
    /\ place[t] = "watching"
    /\ status[request[t]] \in Final \cup {"pending"}
    /\ message' = [message EXCEPT ![t] = status[request[t]]]
    /\ StepTo(t, "message")
    /\ UNCHANGED <<credentials, tickets, request, status, told>>

(* on_decision returns, and the watch goes on ... *)
OnPending(t) ==
    /\ place[t] = "message" /\ message[t] = "pending"
    /\ StepTo(t, "watching")
    /\ UNCHANGED <<credentials, tickets, request, message, status, told>>

(* ... or comes to its end; if on_decision throws, it ends here. *)
OnDecision(t) ==
    /\ place[t] = "message" /\ message[t] \in Final
    /\ Tell(request[t], message[t])
    /\ \/ StepTo(t, "decided") /\ UNCHANGED <<request, message>>
       \/ Return(t)
    /\ UNCHANGED <<credentials, tickets, status>>

EraseDecided(t) ==
    /\ place[t] = "decided"
    /\ credentials' = credentials \ {request[t]}
    /\ Return(t)
    /\ UNCHANGED <<tickets, status, told>>

(* Mutant of WatchEnds: the credentials go with the stream. *)
WatchEndsErasing(t) ==
    /\ place[t] \in {"watching", "message"}
    /\ credentials' = credentials \ {request[t]}
    /\ Return(t)
    /\ UNCHANGED <<tickets, status, told>>
(* The stream is stopped, closed, expired, refused or broken, or a payload *)
(* is not about this request; nothing reconnects it.                       *)
WatchEnds(t) ==
    /\ place[t] \in {"watching", "message"}
    /\ Return(t)
    /\ UNCHANGED <<credentials, tickets, status, told>>

-----------------------------------------------------------------------------
(* The service decides a request, or lets it expire. *)
ServiceDecides(r) ==
    /\ status[r] = "pending"
    /\ \E outcome \in {"approved", "rejected", "expired"} :
          status' = [status EXCEPT ![r] = outcome]
    /\ UNCHANGED <<credentials, tickets, place, request, message, told>>

Create(t) ==
    \/ BeginCreate(t) \/ (\E r \in Request : ServiceCreates(t, r))
    \/ CreateAnswered(t) \/ StoreCredentials(t) \/ CreateFails(t)

Cancel(t) ==
    \/ (\E r \in Request : BeginCancel(t, r))
    \/ ServiceCancels(t) \/ CancelAnswered(t) \/ EraseCancelled(t) \/ CancelFails(t)

Watch(t) ==
    \/ (\E r \in Request : BeginWatch(t, r))
    \/ ReadState(t) \/ OnPending(t) \/ OnDecision(t) \/ EraseDecided(t) \/ WatchEnds(t)

DebugNext ==
    \/ \E t \in Thread : Create(t) \/ Cancel(t) \/ Watch(t)
    \/ \E r \in Request : ServiceDecides(r)

DebugSpec == DebugInit /\ [][DebugNext]_debugVars

-----------------------------------------------------------------------------
(* As long as the service has not decided a request, every ticket for it   *)
(* can be cancelled and watched: no call of another thread, whether it     *)
(* failed, was lost or is under way, has taken the credentials away.       *)
CredentialsKept ==
    \A r \in tickets : status[r] = "pending" => r \in credentials

(* The credentials of a ticket are erased only when the application knows  *)
(* the outcome.                                                            *)
ErasedAfterTold ==
    \A r \in tickets \ credentials : told[r] # {}

(* What cancel_debug_request and any number of watchers tell of a request  *)
(* is one outcome, the service's: a cancel that returns excludes that a    *)
(* watcher reports an approval, before or after.                           *)
OutcomesAgree ==
    \A r \in Request : told[r] \subseteq {status[r]}
=============================================================================
