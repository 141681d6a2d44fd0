---------------------------- MODULE UpdateStream ----------------------------
(***************************************************************************)
(* A stream of update events: UpdateStream and the runner of               *)
(* Client::watch_updates (Cpp/src/client.cpp), with the SSE reader.        *)
(*                                                                         *)
(* One worker connects, reads messages, calls the application back and     *)
(* reconnects; the owner of the stream, or a callback, stops it, and the   *)
(* owner's destructor joins it.  A message is its kind: whether it would   *)
(* pass verify_authz on this connection is part of the kind.  The length   *)
(* of a backoff, with its doubling and its jitter, is left out.            *)
(***************************************************************************)
EXTENDS Naturals, Sequences

CONSTANTS
    Reconnect,   \* options.reconnect
    MaxChunk     \* bound: the complete messages that one read brings

ASSUME UpdateStreamAssumption ==
    /\ Reconnect \in BOOLEAN
    /\ MaxChunk \in Nat

VARIABLES
    pc,         \* where the worker is
    stopped,    \* stop.stop_requested()
    running,    \* Impl::running
    owner,      \* the owner of the UpdateStream object
    verified,   \* the runner's flag: authz was verified
    pending,    \* SseReader::pending_, as messages
    event,      \* the message that is being delivered
    error,      \* the exception that is being handled
    granted,    \* history: this connection has sent a valid authz
    reported,   \* history: an error was reported since the last connection
    escaped,    \* history: a callback's exception has left the runner
    late        \* history: callbacks that began after the stop request

histories == <<granted, reported, escaped, late>>
vars == <<pc, stopped, running, owner, verified, pending, event, error, histories>>

Genuine == {"event", "control"}
Message == Genuine \cup {"authz", "badAuthz", "authz_expired", "badEvent", "other"}
Fatal == {"Session", "Unauthorized", "DeviceBlocked", "Integrity"}
ErrorKind == Fatal \cup {"Network", "Timeout", "Clock", "Protocol", "Api"}
Exception == ErrorKind \cup {"std"}
Chunk == UNION {[1 .. n -> Message] : n \in 0 .. MaxChunk}
Callback == {"control", "deliver"}
Place == {"head", "connect", "read", "next", "blocked", "report", "decide",
          "backoff", "ending", "ended"} \cup Callback

TypeOK ==
    /\ pc \in Place
    /\ stopped \in BOOLEAN
    /\ running \in BOOLEAN
    /\ owner \in {"holds", "joins", "gone"}
    /\ verified \in BOOLEAN
    /\ pending \in Seq(Message)
    /\ event \in Message
    /\ error \in Exception
    /\ granted \in BOOLEAN
    /\ reported \in BOOLEAN
    /\ escaped \in BOOLEAN
    /\ late \in [event : Nat, error : Nat]

Init ==
    /\ pc = "head" /\ stopped = FALSE /\ running = TRUE /\ owner = "holds"
    /\ verified = FALSE /\ pending = <<>>
    /\ event = "other" /\ error = "std"
    /\ granted = FALSE /\ reported = FALSE /\ escaped = FALSE
    /\ late = [event |-> 0, error |-> 0]

Goto(place) == pc' = place

(* The worker throws: on_error comes next. *)
Throw(kind) == Goto("report") /\ error' = kind

(* A callback begins; afterwards the history knows if it was late. *)
CountLate(callback) ==
    late' = IF stopped THEN [late EXCEPT ![callback] = @ + 1] ELSE late

-----------------------------------------------------------------------------
(* The runner *)

(* while (!stop.stop_requested()), the outer loop *)
LoopHead ==
    /\ pc = "head"
    /\ Goto(IF stopped THEN "ending" ELSE "connect")
    /\ UNCHANGED <<stopped, running, owner, verified, pending, event, error, histories>>

(* Mutant of Connect: verified is declared outside of the loop. *)
ConnectStillVerified ==
    /\ pc = "connect"
    /\ pending' = <<>>
    /\ granted' = FALSE /\ reported' = FALSE
    /\ Goto("read")
    /\ UNCHANGED <<verified, stopped, running, owner, event, error, escaped, late>>
(* open_update_stream returns a stream with a 2xx status. *)
Connect ==
    /\ pc = "connect"
    /\ verified' = FALSE /\ pending' = <<>>
    /\ granted' = FALSE /\ reported' = FALSE
    /\ Goto("read")
    /\ UNCHANGED <<stopped, running, owner, event, error, escaped, late>>

(* There is no session or no trusted time, the network fails, the request  *)
(* is cancelled, or any other status is answered, 401 and 403 included.    *)
ConnectFails(kind) ==
    /\ pc = "connect"
    /\ kind \in {"Session", "Clock", "Network", "Timeout", "Api"}
    /\ Throw(kind)
    /\ UNCHANGED <<stopped, running, owner, verified, pending, event, histories>>

(* Mutant of ReadHead: while (true). *)
ReadOn ==
    /\ pc = "read"
    /\ Goto("next")
    /\ UNCHANGED <<stopped, running, owner, verified, pending, event, error, histories>>
(* while (!stop.stop_requested()), the inner loop *)
ReadHead ==
    /\ pc = "read"
    /\ Goto(IF stopped THEN "ending" ELSE "next")
    /\ UNCHANGED <<stopped, running, owner, verified, pending, event, error, histories>>

(* next_sse needs more of the stream: read() throws if it was stopped, and *)
(* otherwise blocks.                                                       *)
NeedMore ==
    /\ pc = "next" /\ pending = <<>>
    /\ \/ ~stopped /\ Goto("blocked") /\ UNCHANGED error
       \/ stopped /\ Throw("Timeout")
    /\ UNCHANGED <<stopped, running, owner, verified, pending, event, histories>>

(* WinHttpReadData returns; perhaps no message is complete yet. *)
ReadChunk(chunk) ==
    /\ pc = "blocked"
    /\ pending' = chunk
    /\ Goto("next")
    /\ UNCHANGED <<stopped, running, owner, verified, event, error, histories>>

(* Mutant of ReadFails: the end of the stream is taken for a normal end. *)
ReadFailsQuietly(kind) ==
    /\ pc = "blocked" /\ kind = "Network"
    /\ Goto("ending")
    /\ UNCHANGED <<error, stopped, running, owner, verified, pending, event, histories>>
(* The stream is closed, a read fails or takes too long, or an event is    *)
(* too long.                                                               *)
ReadFails(kind) ==
    /\ pc = "blocked" /\ kind \in {"Network", "Protocol"}
    /\ Throw(kind)
    /\ UNCHANGED <<stopped, running, owner, verified, pending, event, histories>>

Take == /\ pc = "next" /\ pending # <<>>
        /\ pending' = Tail(pending)

(* No name, no data, "connected", or an event ahead of the first authz. *)
Skip ==
    /\ Take
    /\ \/ Head(pending) = "other"
       \/ ~verified /\ Head(pending) \in Genuine \cup {"badEvent"}
    /\ Goto("read")
    /\ UNCHANGED <<stopped, running, owner, verified, event, error, histories>>

Authz ==
    /\ Take /\ Head(pending) = "authz"
    /\ verified' = TRUE /\ granted' = TRUE
    /\ Goto("read")
    /\ UNCHANGED <<stopped, running, owner, event, error, reported, escaped, late>>

AuthzExpired ==
    /\ Take /\ Head(pending) = "authz_expired"
    /\ Throw("Session")
    /\ UNCHANGED <<stopped, running, owner, verified, event, histories>>

(* verify_authz refuses a carrier that is for another device, nonce or     *)
(* time, was altered, or cannot be parsed.                                 *)
Refused(kind) ==
    /\ Take
    /\ \/ Head(pending) = "badAuthz"
       \/ verified /\ Head(pending) = "badEvent"
    /\ kind \in {"Unauthorized", "Integrity", "Protocol"}
    /\ Throw(kind)
    /\ UNCHANGED <<stopped, running, owner, verified, event, histories>>

(* verify_authz accepts the event. *)
Accepted ==
    /\ Take /\ verified /\ Head(pending) \in Genuine
    /\ event' = Head(pending)
    /\ Goto(IF Head(pending) = "control" THEN "control" ELSE "deliver")
    /\ UNCHANGED <<stopped, running, owner, verified, error, histories>>

OnControl ==
    /\ pc = "control"
    /\ Goto("deliver")
    /\ UNCHANGED <<stopped, running, owner, verified, pending, event, error, histories>>

OnEvent ==
    /\ pc = "deliver"
    /\ CountLate("event")
    /\ Goto("read")
    /\ UNCHANGED <<stopped, running, owner, verified, pending, event, error,
                   granted, reported, escaped>>

(* The application's callback throws an Error or a std::exception ... *)
CallbackThrows(what) ==
    /\ pc \in Callback
    /\ CountLate("event")
    /\ Throw(what)
    /\ UNCHANGED <<stopped, running, owner, verified, pending, event,
                   granted, reported, escaped>>

(* ... or something else, which only the worker's catch (...) swallows. *)
CallbackEscapes ==
    /\ pc \in Callback
    /\ CountLate("event")
    /\ escaped' = TRUE
    /\ Goto("ending")
    /\ UNCHANGED <<stopped, running, owner, verified, pending, event, error,
                   granted, reported>>

(* on_error returns, or throws, which ends the runner. *)
OnError ==
    /\ pc = "report"
    /\ CountLate("error")
    /\ reported' = TRUE
    /\ \/ Goto("decide") /\ UNCHANGED escaped
       \/ Goto("ending") /\ escaped' = TRUE
    /\ UNCHANGED <<stopped, running, owner, verified, pending, event, error, granted>>

(* Mutant of GivesUp: a broken connection is not worth another one. *)
GivesUpOnNetwork == ~Reconnect \/ stopped \/ error \in Fatal \cup {"std", "Network"}
GivesUp == ~Reconnect \/ stopped \/ error \in Fatal \cup {"std"}

Decide ==
    /\ pc = "decide"
    /\ Goto(IF GivesUp THEN "ending" ELSE "backoff")
    /\ UNCHANGED <<stopped, running, owner, verified, pending, event, error, histories>>

(* sleep_for_stream_backoff looks at the stop request every 100 ms. *)
Backoff ==
    /\ pc = "backoff"
    /\ Goto(IF stopped THEN "ending" ELSE "head")
    /\ UNCHANGED <<stopped, running, owner, verified, pending, event, error, histories>>

(* The runner has returned: ~State. *)
End ==
    /\ pc = "ending"
    /\ running' = FALSE
    /\ Goto("ended")
    /\ UNCHANGED <<stopped, owner, verified, pending, event, error, histories>>

-----------------------------------------------------------------------------
(* The owner *)

(* Mutant of Stop: only the flag that running() shows is cleared. *)
StopFlagOnly ==
    /\ owner = "holds" /\ running
    /\ running' = FALSE
    /\ UNCHANGED <<stopped, pc, owner, verified, pending, event, error, histories>>
(* stop(), by the owner or by a callback *)
Stop ==
    /\ owner = "holds"
    /\ stopped' = TRUE /\ running' = FALSE
    /\ UNCHANGED <<pc, owner, verified, pending, event, error, histories>>

(* Mutant of Destroy: std::thread in place of std::jthread. *)
DestroyAndWait ==
    /\ owner = "holds"
    /\ owner' = "joins"
    /\ UNCHANGED <<stopped, pc, running, verified, pending, event, error, histories>>
(* ~UpdateStream, or the assignment of another stream, outside of the      *)
(* callbacks: the jthread requests a stop and joins.                       *)
Destroy ==
    /\ owner = "holds"
    /\ owner' = "joins" /\ stopped' = TRUE
    /\ UNCHANGED <<pc, running, verified, pending, event, error, histories>>

Joined ==
    /\ owner = "joins" /\ pc = "ended"
    /\ owner' = "gone"
    /\ UNCHANGED <<pc, stopped, running, verified, pending, event, error, histories>>

Worker ==
    \/ LoopHead \/ Connect \/ (\E kind \in ErrorKind : ConnectFails(kind))
    \/ ReadHead \/ NeedMore
    \/ (\E chunk \in Chunk : ReadChunk(chunk))
    \/ (\E kind \in ErrorKind : ReadFails(kind))
    \/ Skip \/ Authz \/ AuthzExpired
    \/ (\E kind \in ErrorKind : Refused(kind))
    \/ Accepted \/ OnControl \/ OnEvent
    \/ (\E what \in Exception : CallbackThrows(what)) \/ CallbackEscapes
    \/ OnError \/ Decide \/ Backoff \/ End

Next == Worker \/ Stop \/ Destroy \/ Joined

Spec == Init /\ [][Next]_vars

(* The worker is a thread: it goes on while it can.  A blocked read ends    *)
(* by WinHTTP's timeout; the callbacks are assumed to return.               *)
Fairness == WF_vars(Worker) /\ WF_vars(Joined)

-----------------------------------------------------------------------------
(* The README's "SSE streams verify Authz v3": an event reaches the         *)
(* application only if it passed verify_authz itself, on a connection that  *)
(* had sent a valid authz before; an authz of an earlier connection does    *)
(* not count.                                                               *)
EventsAuthorized ==
    pc \in Callback => granted /\ event \in Genuine

(* stop() returns while the worker is still at work, with messages in its  *)
(* buffer; it delivers at most one more event and reports at most one more *)
(* error.                                                                  *)
QuietAfterStop == late.event <= 1 /\ late.error <= 1

(* A stream that nobody stopped, and that no longer runs, has told the     *)
(* application why, since it was last connected; unless a callback threw   *)
(* what the runner does not catch.                                         *)
NoSilentEnd == ~running => stopped \/ reported \/ escaped

(* "support cancellation": after stop() the worker ends, wherever it was. *)
StopEnds == ~running ~> pc = "ended"

(* The destructor returns. *)
DestructorReturns == owner = "joins" ~> owner = "gone"

(* "reconnect": after an error that is not final the stream connects       *)
(* again, unless it is stopped or on_error throws. *)
Reconnects ==
    Reconnect /\ pc = "report" /\ error \notin Fatal \cup {"std"}
        ~> pc = "connect" \/ stopped \/ escaped
=============================================================================
