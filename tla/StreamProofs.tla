---------------------------- MODULE StreamProofs ----------------------------
(***************************************************************************)
(* Proofs about the two streams of the SDK: about UpdateStream, for reads  *)
(* of any size and with or without reconnection; about the calls and       *)
(* watches of DebugRequests, for any number of threads and requests; and   *)
(* about SseReader, for streams of any length and reads of any size.       *)
(***************************************************************************)
EXTENDS UpdateStream, DebugRequests, SseReader, WellFoundedInduction, SequenceTheorems,
        TLAPS

(* The flag tells of this connection, and only what it lets through is     *)
(* delivered.                                                              *)
AuthorizedInv == (verified => granted) /\ EventsAuthorized

(* After a late callback no loop of the worker goes round again. *)
LateInv ==
    /\ late.event > 0 \/ late.error > 0 => stopped
    /\ late.event <= 1 /\ late.error <= 1
    /\ late.event = 1 => pc \in {"read", "report", "decide", "ending", "ended"}
    /\ late.error = 1 => pc \in {"decide", "ending", "ended"}

(* Every way to the end of the runner has its reason. *)
EndInv ==
    /\ pc = "decide" => reported
    /\ pc \in {"ending", "ended"} => stopped \/ reported \/ escaped
    /\ ~running => stopped \/ pc = "ended"

Inv == TypeOK /\ AuthorizedInv /\ LateInv /\ EndInv

-----------------------------------------------------------------------------
(* What a read brings is a sequence of messages. *)
LEMMA ChunkIsSeq == ASSUME NEW chunk \in Chunk PROVE chunk \in Seq(Message)
<1>1. PICK n \in 0 .. MaxChunk : chunk \in [1 .. n -> Message]
  BY DEF Chunk
<1> QED  BY <1>1, UpdateStreamAssumption

(* The worker starts at the head of its loop. *)
LEMMA InitInv == Init => Inv
<1> SUFFICES ASSUME Init PROVE Inv
  OBVIOUS
<1>1. TypeOK
  <2>1. pending \in Seq(Message) /\ event \in Message
    BY DEF Init, Message
  <2>2. late \in [event : Nat, error : Nat] /\ error \in Exception /\ pc \in Place
    BY DEF Init, Exception, Place
  <2> QED  BY <2>1, <2>2 DEF Init, TypeOK
<1>2. AuthorizedInv /\ EndInv
  BY DEF Init, AuthorizedInv, EventsAuthorized, EndInv, Callback
<1>3. LateInv
  BY DEF Init, LateInv
<1> QED  BY <1>1, <1>2, <1>3 DEF Inv

(* A step of the worker, one step per place of the runner. *)
LEMMA WorkerInv == Inv /\ Worker => Inv'
<1> SUFFICES ASSUME Inv, Worker PROVE Inv'
  OBVIOUS
<1> USE DEF Inv, TypeOK, AuthorizedInv, EventsAuthorized, LateInv, EndInv, Place, Callback,
     Goto, Throw, CountLate, histories
<1>1. CASE LoopHead
  BY <1>1 DEF LoopHead
<1>2. CASE Connect
  <2>1. TypeOK'
    <3>1. pending' \in Seq(Message)
      BY <1>2 DEF Connect
    <3> QED  BY <1>2, <3>1 DEF Connect
  <2>2. AuthorizedInv' /\ EndInv'
    BY <1>2 DEF Connect
  <2>3. LateInv'
    BY <1>2 DEF Connect
  <2> QED  BY <2>1, <2>2, <2>3
<1>3. ASSUME NEW kind \in ErrorKind, ConnectFails(kind) PROVE Inv'
  BY <1>3 DEF ConnectFails, Exception
<1>4. CASE ReadHead
  BY <1>4 DEF ReadHead
<1>5. CASE NeedMore
  BY <1>5 DEF NeedMore, Exception, ErrorKind
<1>6. ASSUME NEW chunk \in Chunk, ReadChunk(chunk) PROVE Inv'
  BY <1>6, ChunkIsSeq DEF ReadChunk
<1>7. ASSUME NEW kind \in ErrorKind, ReadFails(kind) PROVE Inv'
  BY <1>7 DEF ReadFails, Exception
<1>8. ASSUME Take PROVE pending' \in Seq(Message) /\ Head(pending) \in Message
  BY <1>8 DEF Take
<1>9. CASE Skip
  BY <1>8, <1>9 DEF Skip, Take
<1>10. CASE Authz
  BY <1>8, <1>10 DEF Authz, Take
<1>11. CASE AuthzExpired
  BY <1>8, <1>11 DEF AuthzExpired, Take, Exception, ErrorKind, Fatal
<1>12. ASSUME NEW kind \in ErrorKind, Refused(kind) PROVE Inv'
  BY <1>8, <1>12 DEF Refused, Take, Exception
<1>13. CASE Accepted
  BY <1>8, <1>13 DEF Accepted, Take
<1>14. CASE OnControl
  BY <1>14 DEF OnControl
<1>15. CASE OnEvent
  BY <1>15 DEF OnEvent
<1>16. ASSUME NEW what \in Exception, CallbackThrows(what) PROVE Inv'
  BY <1>16 DEF CallbackThrows
<1>17. CASE CallbackEscapes
  BY <1>17 DEF CallbackEscapes
<1>18. CASE OnError
  <2>1. TypeOK'
    <3>1. late' \in [event : Nat, error : Nat]
      BY <1>18 DEF OnError
    <3>2. pc' \in Place
      BY <1>18 DEF OnError
    <3>3. escaped' \in BOOLEAN
      BY <1>18, Zenon DEF OnError
    <3> QED  BY <1>18, <3>1, <3>2, <3>3 DEF OnError
  <2>2. AuthorizedInv' /\ EndInv'
    BY <1>18 DEF OnError
  <2>3. LateInv'
    BY <1>18 DEF OnError
  <2> QED  BY <2>1, <2>2, <2>3
<1>19. CASE Decide
  BY <1>19 DEF Decide, GivesUp
<1>20. CASE Backoff
  BY <1>20 DEF Backoff
<1>21. CASE End
  BY <1>21 DEF End
<1> QED
  BY <1>1, <1>2, <1>3, <1>4, <1>5, <1>6, <1>7, <1>9, <1>10, <1>11, <1>12, <1>13, <1>14,
     <1>15, <1>16, <1>17, <1>18, <1>19, <1>20, <1>21 DEF Worker

(* Every step of the worker, of the owner, or of neither. *)
LEMMA NextInv == Inv /\ [Next]_vars => Inv'
<1> SUFFICES ASSUME Inv, [Next]_vars PROVE Inv'
  OBVIOUS
<1> USE DEF Inv, TypeOK, AuthorizedInv, EventsAuthorized, LateInv, EndInv, histories
<1>1. CASE Stop
  BY <1>1 DEF Stop
<1>2. CASE Destroy
  BY <1>2 DEF Destroy
<1>3. CASE Joined
  BY <1>3 DEF Joined
<1>4. CASE UNCHANGED vars
  BY <1>4 DEF vars
<1> QED  BY <1>1, <1>2, <1>3, <1>4, WorkerInv DEF Next

(* The invariant holds in every reachable state. *)
THEOREM Invariance == Spec => []Inv
<1> QED  BY InitInv, NextInv, PTL DEF Spec

(* The variables of the runner and of Impl keep their types. *)
THEOREM TypeCorrect == Spec => []TypeOK
<1>1. Inv => TypeOK
  BY DEF Inv
<1> QED  BY <1>1, Invariance, PTL

(* watch_updates calls back only with events that verify_authz accepted,   *)
(* on a connection that was authorized.                                    *)
THEOREM EventsAreAuthorized == Spec => []EventsAuthorized
<1>1. Inv => EventsAuthorized
  BY DEF Inv, AuthorizedInv
<1> QED  BY <1>1, Invariance, PTL

(* After stop() at most one event and one error follow, however many       *)
(* messages the reader had buffered.                                       *)
THEOREM StopIsQuiet == Spec => []QuietAfterStop
<1>1. Inv => QuietAfterStop
  BY DEF Inv, LateInv, QuietAfterStop
<1> QED  BY <1>1, Invariance, PTL

(* A stream that ends on its own has reported why. *)
THEOREM EndsAreReported == Spec => []NoSilentEnd
<1>1. Inv => NoSilentEnd
  BY DEF Inv, EndInv, NoSilentEnd
<1> QED  BY <1>1, Invariance, PTL

(* How far a worker that was asked to stop is from its end. *)
StepsToEnd(spot) ==
    CASE spot = "ended" -> 0
      [] spot = "ending" -> 1
      [] spot \in {"head", "read", "decide", "backoff"} -> 2
      [] spot = "report" -> 3
      [] spot \in {"connect", "deliver"} -> 4
      [] spot = "control" -> 5
      [] spot = "next" -> 6
      [] OTHER -> 7

(* The same, place by place. *)
LEMMA StepCounts ==
  /\ StepsToEnd("ended") = 0 /\ StepsToEnd("ending") = 1
  /\ StepsToEnd("head") = 2 /\ StepsToEnd("read") = 2
  /\ StepsToEnd("decide") = 2 /\ StepsToEnd("backoff") = 2
  /\ StepsToEnd("report") = 3
  /\ StepsToEnd("connect") = 4 /\ StepsToEnd("deliver") = 4
  /\ StepsToEnd("control") = 5 /\ StepsToEnd("next") = 6 /\ StepsToEnd("blocked") = 7
  BY DEF StepsToEnd

(* A stop request is not taken back, and from then on every step of the    *)
(* worker brings it closer to its end: neither loop of the runner, the     *)
(* backoff, nor buffered messages let it go round again.                   *)
WindsDown ==
    [][stopped => stopped' /\ (Worker => StepsToEnd(pc') < StepsToEnd(pc))]_vars

(* After stop() the worker takes at most seven more steps, wherever it was *)
(* and however many messages it had buffered.                              *)
THEOREM StopIsSoon == Spec => WindsDown
<1>1. ASSUME stopped, Worker PROVE StepsToEnd(pc') < StepsToEnd(pc)
  <2> USE <1>1 DEF Goto, Throw
  <2>1. CASE \/ LoopHead \/ Connect \/ \E kind \in ErrorKind : ConnectFails(kind)
    <3>1. (pc = "head" /\ pc' = "ending") \/ (pc = "connect" /\ pc' \in {"read", "report"})
      BY <2>1 DEF LoopHead, Connect, ConnectFails
    <3> QED  BY <3>1, StepCounts
  <2>2. CASE \/ ReadHead \/ NeedMore
             \/ \E chunk \in Chunk : ReadChunk(chunk)
             \/ \E kind \in ErrorKind : ReadFails(kind)
    <3>1. \/ pc = "read" /\ pc' = "ending"
          \/ pc = "next" /\ pc' = "report"
          \/ pc = "blocked" /\ pc' \in {"next", "report"}
      BY <2>2 DEF ReadHead, NeedMore, ReadChunk, ReadFails
    <3> QED  BY <3>1, StepCounts
  <2>3. CASE \/ Skip \/ Authz \/ AuthzExpired \/ Accepted
             \/ \E kind \in ErrorKind : Refused(kind)
    <3>1. pc = "next" /\ pc' \in {"read", "report", "control", "deliver"}
      BY <2>3 DEF Skip, Authz, AuthzExpired, Accepted, Refused, Take
    <3> QED  BY <3>1, StepCounts
  <2>4. CASE \/ OnControl \/ OnEvent \/ CallbackEscapes
             \/ \E what \in Exception : CallbackThrows(what)
    <3>1. \/ pc = "control" /\ pc' = "deliver"
          \/ pc = "deliver" /\ pc' = "read"
          \/ pc \in {"control", "deliver"} /\ pc' \in {"report", "ending"}
      BY <2>4 DEF OnControl, OnEvent, CallbackEscapes, CallbackThrows, Callback
    <3> QED  BY <3>1, StepCounts
  <2>5. CASE OnError \/ Decide \/ Backoff \/ End
    <3>1. \/ pc = "report" /\ pc' \in {"decide", "ending"}
          \/ pc \in {"decide", "backoff"} /\ pc' = "ending"
          \/ pc = "ending" /\ pc' = "ended"
      BY <2>5 DEF OnError, Decide, GivesUp, Backoff, End
    <3> QED  BY <3>1, StepCounts
  <2> QED  BY <2>1, <2>2, <2>3, <2>4, <2>5 DEF Worker
<1>2. ASSUME stopped, Next PROVE stopped'
  BY <1>2 DEF Next, Worker, Stop, Destroy, Joined, LoopHead, Connect, ConnectFails, ReadHead,
     NeedMore, ReadChunk, ReadFails, Skip, Authz, AuthzExpired, Refused, Accepted, OnControl,
     OnEvent, CallbackThrows, CallbackEscapes, OnError, Decide, Backoff, End
<1>3. [Next]_vars
        => [stopped => stopped' /\ (Worker => StepsToEnd(pc') < StepsToEnd(pc))]_vars
  BY <1>1, <1>2
<1> QED  BY <1>3, PTL DEF Spec, WindsDown

-----------------------------------------------------------------------------
(* Debug requests *)

(* A call is about a request that the service knows, and so is a ticket. *)
RequestInv ==
    /\ \A r \in tickets : status[r] # "none"
    /\ \A t \in Thread :
          /\ place[t] = "idle" => request[t] = NoRequest
          /\ place[t] \notin {"idle", "creating"} \/ request[t] # NoRequest =>
                request[t] \in Request /\ status[request[t]] # "none"

(* Before a thread erases credentials, the application has been told; and  *)
(* a final state that a watcher has read stays the state of the request.   *)
KnownInv ==
    \A t \in Thread :
        /\ place[t] \in {"cancelled", "decided"} => told[request[t]] # {}
        /\ place[t] = "message" /\ message[t] \in Final => status[request[t]] = message[t]

DebugInv ==
    /\ DebugTypeOK /\ RequestInv /\ KnownInv
    /\ CredentialsKept /\ ErasedAfterTold /\ OutcomesAgree

LEMMA DebugStart == DebugInit => DebugInv
  BY DEF DebugInit, DebugInv, DebugTypeOK, RequestInv, KnownInv, CredentialsKept,
         ErasedAfterTold, OutcomesAgree, CallPlace, Status, Final

(* A step of a call or of a watch, in any order with those of the others. *)
LEMMA DebugThread ==
  ASSUME DebugInv, NEW t \in Thread, Create(t) \/ Cancel(t) \/ Watch(t)
  PROVE  DebugInv'
<1> USE DEF DebugInv, DebugTypeOK, RequestInv, KnownInv, CredentialsKept,
     ErasedAfterTold, OutcomesAgree, CallPlace, Status, Final,
     StepTo, Return, Tell
<1>1. CASE BeginCreate(t)
  BY <1>1 DEF BeginCreate
<1>2. CASE \E r \in Request : ServiceCreates(t, r)
  BY <1>2 DEF ServiceCreates
<1>3. CASE CreateAnswered(t)
  BY <1>3 DEF CreateAnswered
<1>4. CASE StoreCredentials(t)
  BY <1>4 DEF StoreCredentials
<1>5. CASE CreateFails(t)
  BY <1>5 DEF CreateFails
<1>6. CASE \E r \in Request : BeginCancel(t, r) \/ BeginWatch(t, r)
  BY <1>6 DEF BeginCancel, BeginWatch
<1>7. CASE ServiceCancels(t)
  BY <1>7 DEF ServiceCancels
<1>8. CASE CancelAnswered(t)
  BY <1>8 DEF CancelAnswered
<1>9. CASE EraseCancelled(t) \/ EraseDecided(t)
  BY <1>9 DEF EraseCancelled, EraseDecided
<1>10. CASE CancelFails(t) \/ WatchEnds(t)
  BY <1>10 DEF CancelFails, WatchEnds
<1>11. CASE ReadState(t)
  BY <1>11 DEF ReadState
<1>12. CASE OnPending(t)
  BY <1>12 DEF OnPending
<1>13. CASE OnDecision(t)
  BY <1>13 DEF OnDecision
<1> QED
  BY <1>1, <1>2, <1>3, <1>4, <1>5, <1>6, <1>7, <1>8, <1>9, <1>10, <1>11, <1>12, <1>13
     DEF Create, Cancel, Watch

(* The service decides: nobody has been told anything before. *)
LEMMA DebugService ==
  ASSUME DebugInv, NEW r \in Request, ServiceDecides(r)
  PROVE  DebugInv'
  BY DEF DebugInv, DebugTypeOK, RequestInv, KnownInv, CredentialsKept,
     ErasedAfterTold, OutcomesAgree, CallPlace, Status, Final,
     ServiceDecides

LEMMA DebugStep == DebugInv /\ [DebugNext]_debugVars => DebugInv'
<1> SUFFICES ASSUME DebugInv, [DebugNext]_debugVars PROVE DebugInv'
  OBVIOUS
<1>1. CASE UNCHANGED debugVars
  BY <1>1 DEF debugVars, DebugInv, DebugTypeOK, RequestInv, KnownInv, CredentialsKept,
     ErasedAfterTold, OutcomesAgree
<1> QED
  BY <1>1, DebugThread, DebugService DEF DebugNext

(* The calls and watches of debug requests keep the invariant, for any     *)
(* number of threads that share any number of tickets.                     *)
THEOREM DebugInvariance == DebugSpec => []DebugInv
  BY DebugStart, DebugStep, PTL DEF DebugSpec

(* A ticket whose request is pending can always be cancelled and watched:  *)
(* no cancel or watch of another thread takes its credentials away.        *)
THEOREM CredentialsAreKept == DebugSpec => []CredentialsKept
  BY DebugInvariance, PTL DEF DebugInv

(* Credentials are erased only of requests whose outcome the application   *)
(* has been told.                                                          *)
THEOREM CredentialsGoLast == DebugSpec => []ErasedAfterTold
  BY DebugInvariance, PTL DEF DebugInv

(* cancel_debug_request and all the watchers of a request tell of the same *)
(* outcome, the service's.                                                 *)
THEOREM AllOutcomesAgree == DebugSpec => []OutcomesAgree
  BY DebugInvariance, PTL DEF DebugInv

-----------------------------------------------------------------------------
(* The reader of the bytes.  The reference is about a text and positions   *)
(* in it, so nothing has to be unfolded: every lemma says what one line    *)
(* more adds.                                                              *)

(* The values of fields, and the types of events and of the reader. *)
Val == {Value(line) : line \in Seq(Token)}
Event == [name : Val \cup {<<>>}, data : Seq(Val)]
Reader == [pending : Seq(Token), name : Val \cup {<<>>}, data : Seq(Val),
           events : Seq(Event), failed : BOOLEAN, ended : BOOLEAN]

SseTypeOK ==
    /\ stream \in Seq(Token)
    /\ got \in 0 .. Len(stream)
    /\ reader \in Reader

(* The event that is being put together after the line that ends at t: an  *)
(* empty one after a blank line.                                           *)
Open(text, t, name, data) ==
    IF t \in Blank(text) \cup {0} THEN name = <<>> /\ data = <<>>
    ELSE Named(text, t, name) /\ Contains(text, t, data)

(* A line ends at e, the one before it at t. *)
Adjacent(text, t, e) ==
    /\ t \in LineFeeds(text) \cup {0} /\ e \in LineEnds(text) /\ t < e
    /\ \A q \in LineEnds(text) : q <= t \/ e <= q

(* A reader that is at work has taken the lines up to a line feed, has in  *)
(* pending_ what it has got behind them, and has the event open that they  *)
(* leave open.                                                             *)
ReadingInv ==
    Reading =>
        /\ Taken \in LineFeeds(stream) \cup {0}
        /\ Taken <= got
        /\ reader.pending = SubSeq(stream, Taken + 1, got)
        /\ Open(stream, Taken, reader.name, reader.data)

SseInv == SseTypeOK /\ ReadingInv /\ CutsDoNotMatter

(* Numbers have a smallest one. *)
LEMMA SmallestNat == ASSUME NEW T \in SUBSET Nat, T # {}
                     PROVE  \E x \in T : \A y \in T : x <= y
<1>1. \E x \in T : \A y \in T : ~ (<<y, x>> \in OpToRel(<, Nat))
  BY WFMin, NatLessThanWellFounded, Zenon
<1>2. \A x, y \in T : y < x => <<y, x>> \in OpToRel(<, Nat)
  BY Zenon DEF OpToRel
<1>3. \E x \in T : \A y \in T : ~ (y < x)
  BY <1>1, <1>2, Zenon
<1> QED  BY <1>3

LEMMA EmptySequence == ASSUME NEW S, NEW s \in Seq(S) PROVE s = <<>> <=> DOMAIN s = {}
<1>1. DOMAIN s = 1 .. Len(s) /\ Len(s) \in Nat
  OBVIOUS
<1>2. DOMAIN s = {} => Len(s) = 0
  BY <1>1
<1> QED  BY <1>2

(* Where lines can end. *)
LEMMA LineNumbers ==
  ASSUME NEW text \in Seq(Token)
  PROVE  /\ LineEnds(text) \in SUBSET (1 .. Len(text) + 1)
         /\ LineFeeds(text) \in SUBSET (1 .. Len(text))
         /\ LineFeeds(text) \subseteq LineEnds(text)
         /\ Blank(text) \subseteq LineFeeds(text)
BY DEF LineEnds, LineFeeds, Blank

(* What is before a line is the end of the line before. *)
LEMMA BeforeNext ==
  ASSUME NEW text \in Seq(Token), NEW t, NEW e, Adjacent(text, t, e)
  PROVE  Before(text, e) = t
<1>1. \A q \in LineEnds(text) \cup {0} : q \in Nat
  BY LineNumbers
<1>2. /\ t \in LineEnds(text) \cup {0} /\ e \in LineEnds(text) /\ t < e
      /\ \A q \in LineEnds(text) : q <= t \/ e <= q
  BY DEF Adjacent, LineEnds
<1>3. ASSUME NEW p \in LineEnds(text) \cup {0}, p < e,
             \A q \in LineEnds(text) : q <= p \/ e <= q
      PROVE  p = t
  <2>1. p \in Nat /\ t \in Nat /\ e \in Nat
    BY <1>1, <1>2
  <2>2. CASE p < t
    BY <2>1, <2>2, <1>2, <1>3
  <2>3. CASE t < p
    <3>1. p \in LineEnds(text)
      BY <2>1, <2>3
    <3> QED  BY <3>1, <2>1, <2>3, <1>2, <1>3
  <2> QED  BY <2>1, <2>2, <2>3
<1> QED  BY <1>2, <1>3, Zenon DEF Before

LEMMA RawLineOfNext ==
  ASSUME NEW text \in Seq(Token), NEW t, NEW e, Adjacent(text, t, e)
  PROVE  RawLine(text, e) = SubSeq(text, t + 1, e - 1)
BY BeforeNext, Zenon DEF RawLine

(* A block grows by a line, or begins anew after a blank one. *)
LEMMA BlockOfNext ==
  ASSUME NEW text \in Seq(Token), NEW t, NEW e, Adjacent(text, t, e)
  PROVE  Block(text, e) = {e} \cup (IF t \in Blank(text) \cup {0} THEN {} ELSE Block(text, t))
<1>1. /\ \A q \in LineEnds(text) : q \in Nat \ {0}
      /\ \A q \in Blank(text) : q \in LineEnds(text)
  BY LineNumbers
<1>2. /\ t \in LineEnds(text) \cup {0} /\ e \in LineEnds(text) /\ t < e
      /\ \A q \in LineEnds(text) : q <= t \/ e <= q
  BY DEF Adjacent, LineEnds
<1>3. t \in Nat /\ e \in Nat
  BY <1>1, <1>2
<1>4. e \in Block(text, e)
  <2>1. \A blank \in Blank(text) : blank < e \/ e <= blank
    BY <1>1, <1>3
  <2> QED  BY <2>1, <1>2, <1>3 DEF Block
<1>5. ASSUME NEW l \in Block(text, e), l # e
      PROVE  t \notin Blank(text) \cup {0} /\ l \in Block(text, t)
  <2>1. l \in LineEnds(text) /\ l <= e /\ \A blank \in Blank(text) : blank < l \/ e <= blank
    BY DEF Block
  <2>2. l \in Nat \ {0} /\ l <= t
    BY <2>1, <1>1, <1>2, <1>3, <1>5
  <2>3. t \notin Blank(text) \cup {0}
    BY <2>1, <2>2, <1>2, <1>3
  <2>4. ASSUME NEW blank \in Blank(text) PROVE blank < l \/ t <= blank
    <3>1. blank \in Nat /\ (blank < l \/ e <= blank)
      BY <2>1, <1>1
    <3> QED  BY <3>1, <1>2, <1>3
  <2> QED  BY <2>1, <2>2, <2>3, <2>4 DEF Block
<1>6. ASSUME t \notin Blank(text) \cup {0}, NEW l \in Block(text, t)
      PROVE  l \in Block(text, e)
  <2>1. l \in LineEnds(text) /\ l <= t /\ \A blank \in Blank(text) : blank < l \/ t <= blank
    BY DEF Block
  <2>2. l \in Nat /\ l <= e
    BY <2>1, <1>1, <1>2, <1>3
  <2>3. ASSUME NEW blank \in Blank(text) PROVE blank < l \/ e <= blank
    <3>1. blank \in LineEnds(text) /\ blank \in Nat /\ blank # t
      BY <1>1, <1>6
    <3> QED  BY <3>1, <2>1, <1>2, <1>3
  <2> QED  BY <2>1, <2>2, <2>3 DEF Block
<1> QED  BY <1>4, <1>5, <1>6

(* The lines of the event that is open after the line that ends at t. *)
OpenBlock(text, t) == IF t \in Blank(text) \cup {0} THEN {} ELSE Block(text, t)

LEMMA OpenLines ==
  ASSUME NEW text \in Seq(Token), NEW t, NEW e, Adjacent(text, t, e)
  PROVE  /\ Block(text, e) = OpenBlock(text, t) \cup {e}
         /\ e \in Nat \ {0}
         /\ \A l \in OpenBlock(text, t) : l \in Nat /\ l < e
<1>1. Block(text, e) = OpenBlock(text, t) \cup {e}
  BY BlockOfNext DEF OpenBlock
<1>2. \A q \in LineEnds(text) \cup {0} : q \in Nat
  BY LineNumbers
<1>3. t \in LineEnds(text) \cup {0} /\ e \in LineEnds(text) /\ t < e
  BY DEF Adjacent, LineEnds
<1>4. t \in Nat /\ e \in Nat
  BY <1>2, <1>3
<1>5. \A l \in OpenBlock(text, t) : l \in LineEnds(text) /\ l <= t
  BY DEF OpenBlock, Block
<1>6. ASSUME NEW l \in OpenBlock(text, t) PROVE l \in Nat /\ l < e
  <2>1. l \in Nat /\ l <= t
    BY <1>2, <1>5
  <2> QED  BY <2>1, <1>3, <1>4
<1>7. e \in Nat \ {0}
  BY <1>3, <1>4
<1> QED  BY <1>1, <1>6, <1>7

(* One line more: the name. *)
LEMMA NameOfNext ==
  ASSUME NEW text \in Seq(Token), NEW t, NEW e, Adjacent(text, t, e),
         NEW name, NEW data, Open(text, t, name, data)
  PROVE  Named(text, e, IF IsName(Line(text, e)) THEN Value(Line(text, e)) ELSE name)
<1> DEFINE N == {l \in OpenBlock(text, t) : IsName(Line(text, l))}
<1>1. /\ NameLines(text, e) = N \cup (IF IsName(Line(text, e)) THEN {e} ELSE {})
      /\ \A l \in N : l \in Nat /\ l < e
      /\ e \in Nat
  BY OpenLines DEF NameLines
<1>2. IF N = {} THEN name = <<>>
      ELSE \E l \in N : name = Value(Line(text, l)) /\ \A k \in N : k <= l
  <2>1. CASE t \in Blank(text) \cup {0}
    BY <2>1 DEF Open, OpenBlock
  <2>2. CASE t \notin Blank(text) \cup {0}
    <3>1. N = NameLines(text, t)
      BY <2>2 DEF NameLines, OpenBlock
    <3> QED  BY <2>2, <3>1 DEF Open, Named
  <2> QED  BY <2>1, <2>2
<1> HIDE DEF N
<1>3. CASE IsName(Line(text, e))
  <2>1. e \in NameLines(text, e) /\ \A k \in NameLines(text, e) : k <= e
    BY <1>1, <1>3
  <2> QED  BY <2>1, <1>3 DEF Named
<1>4. CASE ~IsName(Line(text, e))
  <2>1. NameLines(text, e) = N
    BY <1>1, <1>4
  <2> QED  BY <2>1, <1>2, <1>4 DEF Named
<1> QED  BY <1>3, <1>4

(* A list of n positions, and one more. *)
Extend(at, n, x) == [k \in 1 .. n + 1 |-> IF k <= n THEN at[k] ELSE x]

(* A list of positions goes on with a later one. *)
LEMMA ExtendLists ==
  ASSUME NEW S \in SUBSET Nat, NEW n \in Nat, NEW at \in [1 .. n -> S], Lists(at, S),
         NEW x \in Nat, \A s \in S : s < x
  PROVE  /\ Extend(at, n, x) \in [1 .. n + 1 -> S \cup {x}]
         /\ Lists(Extend(at, n, x), S \cup {x})
<1> DEFINE ext == Extend(at, n, x)
<1>1. /\ DOMAIN ext = 1 .. n + 1
      /\ \A k \in 1 .. n : ext[k] = at[k]
      /\ ext[n + 1] = x
      /\ \A k \in 1 .. n + 1 : k \in 1 .. n \/ k = n + 1
      /\ 1 .. n \subseteq 1 .. n + 1 /\ n + 1 \in 1 .. n + 1
  BY DEF Extend
<1>2. ext \in [1 .. n + 1 -> S \cup {x}]
  BY DEF Extend
<1> HIDE DEF ext
<1>3. ASSUME NEW j \in DOMAIN ext, NEW k \in DOMAIN ext, j < k PROVE ext[j] < ext[k]
  <2>1. j \in 1 .. n /\ ext[j] = at[j] /\ at[j] \in S
    BY <1>1, <1>3
  <2>2. CASE k \in 1 .. n
    BY <2>1, <2>2, <1>1, <1>3 DEF Lists
  <2>3. CASE k = n + 1
    BY <2>1, <2>3, <1>1
  <2> QED  BY <2>2, <2>3, <1>1
<1>4. {ext[k] : k \in DOMAIN ext} = S \cup {x}
  <2>1. S = {at[k] : k \in 1 .. n}
    BY DEF Lists
  <2>2. ASSUME NEW s \in S \cup {x} PROVE s \in {ext[k] : k \in DOMAIN ext}
    <3>1. CASE s = x
      BY <3>1, <1>1
    <3>2. CASE s \in S
      <4>1. PICK k \in 1 .. n : s = at[k]
        BY <2>1, <3>2
      <4>2. k \in DOMAIN ext /\ s = ext[k]
        BY <4>1, <1>1
      <4> QED  BY <4>2
    <3> QED  BY <3>1, <3>2
  <2>3. \A k \in DOMAIN ext : ext[k] \in S \cup {x}
    BY <1>1, <1>2
  <2> QED  BY <2>2, <2>3
<1>5. Lists(ext, S \cup {x})
  BY <1>3, <1>4 DEF Lists
<1> QED  BY <1>2, <1>5 DEF ext

(* A line of data adds its value, unless nothing came before it and it has *)
(* none.                                                                   *)
Adds(data, line) == IsData(line) /\ (data # <<>> \/ Value(line) # <<>>)

(* One line more: the data. *)
LEMMA DataOfNext ==
  ASSUME NEW text \in Seq(Token), NEW t, NEW e, Adjacent(text, t, e),
         NEW name, NEW data \in Seq(Val), Open(text, t, name, data), Value(Line(text, e)) \in Val
  PROVE  Contains(text, e, IF Adds(data, Line(text, e)) THEN Append(data, Value(Line(text, e)))
                           ELSE data)
<1> DEFINE B == OpenBlock(text, t)
           line == Line(text, e)
           F == {l \in B : IsData(Line(text, l)) /\ Value(Line(text, l)) # <<>>}
           D == {l \in B : IsData(Line(text, l)) /\ \E d \in F : d <= l}
<1>1. Block(text, e) = B \cup {e} /\ e \in Nat /\ \A l \in B : l \in Nat /\ l < e
  BY OpenLines
<1>2. PICK at \in [DOMAIN data -> D] :
          Lists(at, D) /\ \A k \in DOMAIN data : data[k] = Value(Line(text, at[k]))
  <2>1. CASE t \in Blank(text) \cup {0}
    <3>1. data = <<>> /\ D = {} /\ DOMAIN data = {}
      BY <2>1 DEF Open, OpenBlock
    <3>2. data \in [DOMAIN data -> D] /\ Lists(data, D)
      BY <3>1 DEF Lists
    <3> QED  BY <3>1, <3>2
  <2>2. CASE t \notin Blank(text) \cup {0}
    <3>1. B = Block(text, t)
      BY <2>2 DEF OpenBlock
    <3>2. D = DataLines(text, t)
      BY <3>1 DEF DataLines, Filled
    <3> QED  BY <2>2, <3>2 DEF Open, Contains
  <2> QED  BY <2>1, <2>2
<1>3. data = <<>> <=> F = {}
  <2>1. \A l \in F : l \in D
    BY <1>1
  <2>2. F = {} <=> D = {}
    BY <2>1
  <2>3. D = {at[k] : k \in DOMAIN data}
    BY <1>2 DEF Lists
  <2>5. data = <<>> <=> DOMAIN data = {}
    BY EmptySequence
  <2> QED  BY <2>2, <2>3, <2>5
<1>4. DataLines(text, e) = D \cup (IF Adds(data, line) THEN {e} ELSE {})
  <2>1. Filled(text, e) = F \cup (IF IsData(line) /\ Value(line) # <<>> THEN {e} ELSE {})
    BY <1>1 DEF Filled
  <2>2. ASSUME NEW l \in B PROVE l \in DataLines(text, e) <=> l \in D
    <3>1. \A d \in Filled(text, e) : d <= l => d \in F
      BY <2>1, <1>1
    <3>2. F \subseteq Filled(text, e)
      BY <2>1
    <3> QED  BY <3>1, <3>2, <1>1 DEF DataLines
  <2>3. e \in DataLines(text, e) <=> Adds(data, line)
    <3>1. e \in DataLines(text, e) <=> IsData(line) /\ \E d \in Filled(text, e) : d <= e
      BY <1>1 DEF DataLines
    <3>2. \A d \in Filled(text, e) : d <= e
      BY <2>1, <1>1
    <3> QED  BY <3>1, <3>2, <2>1, <1>3 DEF Adds
  <2>4. e \notin B /\ DataLines(text, e) \subseteq B \cup {e} /\ D \subseteq B
    BY <1>1 DEF DataLines
  <2> QED  BY <2>2, <2>3, <2>4
<1>5. D \in SUBSET Nat /\ \A l \in D : l < e
  BY <1>1
<1> HIDE DEF D, F, B
<1>6. CASE ~Adds(data, line)
  BY <1>2, <1>4, <1>6 DEF Contains
<1>7. CASE Adds(data, line)
  <2> DEFINE n == Len(data)
             more == Append(data, Value(line))
             ext == Extend(at, n, e)
  <2>1. n \in Nat /\ DOMAIN data = 1 .. n /\ DOMAIN more = 1 .. n + 1
    OBVIOUS
  <2>2. ext \in [DOMAIN more -> D \cup {e}] /\ Lists(ext, D \cup {e})
    BY <2>1, <1>1, <1>2, <1>5, ExtendLists
  <2>3. ASSUME NEW k \in DOMAIN more PROVE more[k] = Value(Line(text, ext[k]))
    <3>1. CASE k \in 1 .. n
      <4>1. more[k] = data[k] /\ ext[k] = at[k]
        BY <3>1, <2>1 DEF Extend
      <4> QED  BY <4>1, <3>1, <2>1, <1>2
    <3>2. CASE k = n + 1
      BY <3>2, <2>1 DEF Extend
    <3> QED  BY <3>1, <3>2, <2>1
  <2>4. DataLines(text, e) = D \cup {e}
    BY <1>4, <1>7
  <2> HIDE DEF more, ext
  <2>5. Contains(text, e, more)
    BY <2>2, <2>3, <2>4 DEF Contains
  <2> QED  BY <2>5, <1>7 DEF more
<1> QED  BY <1>6, <1>7

(* Where an event would end. *)
Closes(text, e) == e \in Blank(text) \cup {Len(text) + 1}

(* One line more: the ends of events. *)
LEMMA EndsOfNext ==
  ASSUME NEW text \in Seq(Token), NEW t, NEW e, Adjacent(text, t, e)
  PROVE  /\ EventEnds(text, e) = EventEnds(text, t) \cup
                (IF Closes(text, e) /\ DataLines(text, e) # {} THEN {e} ELSE {})
         /\ EventEnds(text, t) \in SUBSET Nat
         /\ \A l \in EventEnds(text, t) : l < e
<1>1. /\ \A q \in LineEnds(text) \cup {0} : q \in Nat
      /\ \A q \in Blank(text) \cup {Len(text) + 1} : q \in LineEnds(text)
  BY LineNumbers DEF LineEnds
<1>2. /\ t \in LineEnds(text) \cup {0} /\ e \in LineEnds(text) /\ t < e
      /\ \A q \in LineEnds(text) : q <= t \/ e <= q
  BY DEF Adjacent, LineEnds
<1>3. t \in Nat /\ e \in Nat
  BY <1>1, <1>2
<1>4. ASSUME NEW l \in Blank(text) \cup {Len(text) + 1}
      PROVE  l \in Nat /\ (l <= e <=> l <= t \/ l = e)
  <2>1. l \in LineEnds(text) /\ l \in Nat
    BY <1>1
  <2>2. l <= t \/ e <= l
    BY <2>1, <1>2
  <2> QED  BY <2>1, <2>2, <1>2, <1>3
<1>5. \A l \in EventEnds(text, t) : l \in Nat /\ l < e
  <2> SUFFICES ASSUME NEW l \in EventEnds(text, t) PROVE l \in Nat /\ l < e
    OBVIOUS
  <2>1. l \in Nat /\ l <= t
    BY <1>4 DEF EventEnds
  <2> QED  BY <2>1, <1>2, <1>3
<1>6. EventEnds(text, e) = EventEnds(text, t) \cup
          (IF Closes(text, e) /\ DataLines(text, e) # {} THEN {e} ELSE {})
  BY <1>3, <1>4 DEF EventEnds, Closes
<1> QED  BY <1>5, <1>6

(* One line more: the events, with the one that ends there if it has data. *)
LEMMA EventsOfNext ==
  ASSUME NEW text \in Seq(Token), NEW t, NEW e, Adjacent(text, t, e),
         NEW events \in Seq(Event), AreEvents(text, t, events),
         NEW ev \in Event, Named(text, e, ev.name), Contains(text, e, ev.data)
  PROVE  AreEvents(text, e, IF Closes(text, e) /\ ev.data # <<>> THEN Append(events, ev)
                            ELSE events)
<1> DEFINE E == EventEnds(text, t)
<1>1. PICK at \in [DOMAIN events -> E] :
          /\ Lists(at, E)
          /\ \A k \in DOMAIN events : /\ Named(text, at[k], events[k].name)
                                      /\ Contains(text, at[k], events[k].data)
  BY DEF AreEvents
<1>2. ev.data = <<>> <=> DataLines(text, e) = {}
  <2>1. PICK f \in [DOMAIN ev.data -> DataLines(text, e)] : Lists(f, DataLines(text, e))
    BY DEF Contains
  <2>2. DataLines(text, e) = {f[k] : k \in DOMAIN ev.data}
    BY <2>1 DEF Lists
  <2>3. ev.data \in Seq(Val)
    BY DEF Event
  <2>5. ev.data = <<>> <=> DOMAIN ev.data = {}
    BY <2>3, EmptySequence
  <2> QED  BY <2>2, <2>5
<1>3. /\ EventEnds(text, e) = E \cup (IF Closes(text, e) /\ ev.data # <<>> THEN {e} ELSE {})
      /\ E \in SUBSET Nat /\ \A l \in E : l < e
  BY <1>2, EndsOfNext
<1>4. e \in Nat
  BY OpenLines
<1> HIDE DEF E
<1>5. CASE ~(Closes(text, e) /\ ev.data # <<>>)
  BY <1>1, <1>3, <1>5 DEF AreEvents
<1>6. CASE Closes(text, e) /\ ev.data # <<>>
  <2> DEFINE n == Len(events)
             more == Append(events, ev)
             ext == Extend(at, n, e)
  <2>1. n \in Nat /\ DOMAIN events = 1 .. n /\ DOMAIN more = 1 .. n + 1
    OBVIOUS
  <2>2. ext \in [DOMAIN more -> E \cup {e}] /\ Lists(ext, E \cup {e})
    BY <2>1, <1>1, <1>3, <1>4, ExtendLists
  <2>3. ASSUME NEW k \in DOMAIN more
        PROVE  Named(text, ext[k], more[k].name) /\ Contains(text, ext[k], more[k].data)
    <3>1. CASE k \in 1 .. n
      <4>1. more[k] = events[k] /\ ext[k] = at[k]
        BY <3>1, <2>1 DEF Extend
      <4> QED  BY <4>1, <3>1, <2>1, <1>1
    <3>2. CASE k = n + 1
      <4>1. more[k] = ev /\ ext[k] = e
        BY <3>2, <2>1 DEF Extend
      <4> QED  BY <4>1
    <3> QED  BY <3>1, <3>2, <2>1
  <2>4. EventEnds(text, e) = E \cup {e}
    BY <1>3, <1>6
  <2> HIDE DEF more, ext
  <2>5. AreEvents(text, e, more)
    BY <2>2, <2>3, <2>4 DEF AreEvents
  <2> QED  BY <2>5, <1>6 DEF more
<1> QED  BY <1>5, <1>6

(* A part of the text, and a part of it. *)
LEMMA PartOfText ==
  ASSUME NEW text \in Seq(Token), NEW g \in 0 .. Len(text), NEW t \in 0 .. g
  PROVE  /\ SubSeq(text, t + 1, g) \in Seq(Token)
         /\ Len(SubSeq(text, t + 1, g)) = g - t
         /\ \A i \in 1 .. g - t : SubSeq(text, t + 1, g)[i] = text[t + i]
OBVIOUS

LEMMA PartsOfPart ==
  ASSUME NEW text \in Seq(Token), NEW g \in 0 .. Len(text), NEW t \in 0 .. g,
         NEW end \in 1 .. g - t
  PROVE  /\ SubSeq(SubSeq(text, t + 1, g), 1, end - 1) = SubSeq(text, t + 1, t + end - 1)
         /\ SubSeq(SubSeq(text, t + 1, g), end + 1, g - t) = SubSeq(text, t + end + 1, g)
<1> DEFINE p == SubSeq(text, t + 1, g)
<1>1. p \in Seq(Token) /\ Len(p) = g - t /\ \A i \in 1 .. g - t : p[i] = text[t + i]
  BY PartOfText
<1> HIDE DEF p
<1>2. SubSeq(p, 1, end - 1) = SubSeq(text, t + 1, t + end - 1)
  <2> DEFINE a == SubSeq(p, 1, end - 1)
             b == SubSeq(text, t + 1, t + end - 1)
  <2>1. a \in Seq(Token) /\ Len(a) = end - 1 /\ \A i \in 1 .. end - 1 : a[i] = p[i]
    BY <1>1
  <2>2. b \in Seq(Token) /\ Len(b) = end - 1 /\ \A i \in 1 .. end - 1 : b[i] = text[t + i]
    <3> DEFINE h == t + end - 1
    <3>1. h \in 0 .. Len(text) /\ t \in 0 .. h /\ h - t = end - 1
      OBVIOUS
    <3> HIDE DEF h
    <3>2. /\ SubSeq(text, t + 1, h) \in Seq(Token)
          /\ Len(SubSeq(text, t + 1, h)) = h - t
          /\ \A i \in 1 .. h - t : SubSeq(text, t + 1, h)[i] = text[t + i]
      BY <3>1, PartOfText
    <3> QED  BY <3>1, <3>2 DEF h
  <2> HIDE DEF a, b
  <2>3. \A i \in 1 .. end - 1 : a[i] = b[i]
    BY <2>1, <2>2, <1>1
  <2>4. a = b
    BY <2>1, <2>2, <2>3, SeqEqual
  <2> QED  BY <2>4 DEF a, b
<1>3. SubSeq(p, end + 1, g - t) = SubSeq(text, t + end + 1, g)
  <2> DEFINE a == SubSeq(p, end + 1, g - t)
             b == SubSeq(text, t + end + 1, g)
             n == g - t - end
  <2>1. a \in Seq(Token) /\ Len(a) = n /\ \A i \in 1 .. n : a[i] = p[end + i]
    BY <1>1
  <2>2. b \in Seq(Token) /\ Len(b) = n /\ \A i \in 1 .. n : b[i] = text[t + end + i]
    <3>1. t + end \in 0 .. g /\ g - (t + end) = n
      OBVIOUS
    <3> QED  BY <3>1, PartOfText
  <2> HIDE DEF a, b
  <2>3. ASSUME NEW i \in 1 .. n PROVE a[i] = b[i]
    <3>1. end + i \in 1 .. g - t /\ t + (end + i) = t + end + i
      OBVIOUS
    <3>2. p[end + i] = text[t + end + i]
      BY <3>1, <1>1
    <3> QED  BY <3>2, <2>1, <2>2
  <2>4. a = b
    BY <2>1, <2>2, <2>3, SeqEqual
  <2> QED  BY <2>4 DEF a, b
<1> QED  BY <1>2, <1>3 DEF p

LEMMA PartsJoin ==
  ASSUME NEW text \in Seq(Token), NEW g \in 0 .. Len(text), NEW t \in 0 .. g,
         NEW h \in g .. Len(text)
  PROVE  SubSeq(text, t + 1, g) \o SubSeq(text, g + 1, h) = SubSeq(text, t + 1, h)
<1>1. t + 1 \in 1 .. Len(text) + 1 /\ g \in (t + 1) - 1 .. Len(text)
  OBVIOUS
<1> QED  BY <1>1, ConcatAdjacentSubSeq

(* The lines of the text up to t are taken, and pending_, which is what    *)
(* follows up to g, has its first line feed at end: the line that ends at  *)
(* e is at hand.                                                           *)
AtHand(text, g, t, p, end, e) ==
    /\ text \in Seq(Token) /\ g \in 0 .. Len(text) /\ t \in 0 .. g
    /\ t \in LineFeeds(text) \cup {0}
    /\ p = SubSeq(text, t + 1, g)
    /\ end \in LineFeeds(p) /\ \A i \in LineFeeds(p) : end <= i
    /\ e = t + end

LEMMA LineAtHand ==
  ASSUME NEW text, NEW g, NEW t, NEW p, NEW end, NEW e, AtHand(text, g, t, p, end, e)
  PROVE  /\ end \in 1 .. g - t
         /\ e \in LineFeeds(text)
         /\ Adjacent(text, t, e)
         /\ Line(text, e) = WithoutCR(SubSeq(p, 1, end - 1))
<1> USE DEF AtHand
<1>1. p \in Seq(Token) /\ Len(p) = g - t /\ \A i \in 1 .. g - t : p[i] = text[t + i]
  BY PartOfText
<1>2. end \in 1 .. g - t /\ p[end] = LF
  BY <1>1 DEF LineFeeds
<1>3. e \in LineFeeds(text)
  BY <1>1, <1>2 DEF LineFeeds
<1>4. ASSUME NEW q \in LineEnds(text) PROVE q <= t \/ e <= q
  <2>1. CASE q = Len(text) + 1
    BY <2>1, <1>2
  <2>2. CASE q \in LineFeeds(text) /\ t < q /\ q < e
    <3>1. q \in Nat /\ text[q] = LF
      BY <2>2 DEF LineFeeds
    <3>4. q - t \in 1 .. g - t
      BY <3>1, <2>2, <1>2
    <3>2. p[q - t] = LF
      <4>1. t + (q - t) = q
        BY <3>1
      <4> QED  BY <4>1, <3>1, <3>4, <1>1
    <3>3. q - t \in LineFeeds(p)
      BY <3>2, <3>4, <1>1 DEF LineFeeds
    <3> QED  BY <3>1, <3>3, <2>2, <1>2
  <2>3. q \in Nat
    BY LineNumbers
  <2> QED  BY <2>1, <2>2, <2>3, <1>2 DEF LineEnds
<1>5. Adjacent(text, t, e)
  BY <1>2, <1>3, <1>4 DEF Adjacent, LineEnds
<1>7. Line(text, e) = WithoutCR(SubSeq(p, 1, end - 1))
  <2>1. RawLine(text, e) = SubSeq(text, t + 1, e - 1)
    BY <1>5, RawLineOfNext
  <2>2. SubSeq(p, 1, end - 1) = SubSeq(text, t + 1, t + end - 1)
    BY <1>2, PartsOfPart
  <2>3. e <= Len(text) /\ e - 1 = t + end - 1
    BY <1>2
  <2>4. RawLine(text, e) = SubSeq(p, 1, end - 1)
    BY <2>1, <2>2, <2>3
  <2> QED  BY <2>3, <2>4 DEF Line
<1> QED  BY <1>2, <1>3, <1>5, <1>7

(* The end of the line that goes on at t + 1, and how long it is at least. *)
LEMMA LineGoesOn ==
  ASSUME NEW text \in Seq(Token), NEW g \in 0 .. Len(text), NEW t \in 0 .. g,
         t \in LineFeeds(text) \cup {0}, LineFeeds(SubSeq(text, t + 1, g)) = {}
  PROVE  \E end \in LineEnds(text) : /\ Adjacent(text, t, end) /\ g < end
                                     /\ RawLine(text, end) = SubSeq(text, t + 1, end - 1)
<1> DEFINE p == SubSeq(text, t + 1, g)
           T == {q \in LineEnds(text) : t < q}
<1>1. p \in Seq(Token) /\ Len(p) = g - t /\ \A i \in 1 .. g - t : p[i] = text[t + i]
  BY PartOfText
<1>2. Len(text) + 1 \in T
  BY DEF LineEnds
<1>3. T \in SUBSET Nat
  BY LineNumbers
<1>4. PICK end \in T : \A q \in T : end <= q
  BY <1>2, <1>3, SmallestNat
<1>5. end \in Nat /\ end \in LineEnds(text) /\ t < end
  BY <1>3, <1>4
<1>6. \A q \in LineEnds(text) : q <= t \/ end <= q
  BY <1>4, <1>5, LineNumbers
<1>7. Adjacent(text, t, end)
  BY <1>5, <1>6 DEF Adjacent
<1>8. g < end
  <2>1. CASE end \in LineFeeds(text) /\ end <= g
    <3>1. end - t \in 1 .. g - t /\ text[end] = LF
      BY <2>1, <1>5 DEF LineFeeds
    <3>2. p[end - t] = LF
      BY <3>1, <1>1, <1>5
    <3>3. end - t \in LineFeeds(p)
      BY <3>1, <3>2, <1>1 DEF LineFeeds
    <3> QED  BY <3>3
  <2> QED  BY <2>1, <1>5 DEF LineEnds
<1>9. RawLine(text, end) = SubSeq(text, t + 1, end - 1)
  BY <1>7, RawLineOfNext
<1> QED  BY <1>5, <1>7, <1>8, <1>9

LEMMA LineType ==
  ASSUME NEW text \in Seq(Token), NEW t, NEW e, Adjacent(text, t, e)
  PROVE  Line(text, e) \in Seq(Token) /\ Value(Line(text, e)) \in Val
<1>1. t \in 0 .. Len(text) /\ e \in 1 .. Len(text) + 1 /\ t < e
  BY LineNumbers DEF Adjacent
<1>2. RawLine(text, e) = SubSeq(text, t + 1, e - 1)
  BY RawLineOfNext
<1>3. e - 1 \in 0 .. Len(text) /\ t \in 0 .. e - 1
  BY <1>1
<1>4. RawLine(text, e) \in Seq(Token)
  BY <1>2, <1>3, PartOfText
<1>5. Line(text, e) \in Seq(Token)
  <2> DEFINE raw == RawLine(text, e)
  <2>1. SubSeq(raw, 1, Len(raw) - 1) \in Seq(Token)
    BY <1>4
  <2> QED  BY <2>1, <1>4 DEF Line, WithoutCR
<1> QED  BY <1>5 DEF Val

(* What parsing a line does, stated for the fields of the reader. *)
NextName(r, line) == IF IsName(line) THEN Value(line) ELSE r.name
NextData(r, line) == IF Adds(r.data, line) THEN Append(r.data, Value(line)) ELSE r.data

(* Parsing a line does to the fields of the reader what the lemmas above   *)
(* say; at an empty line the event is handed over.                         *)
LEMMA LineParsed ==
  ASSUME NEW r \in Reader, NEW line, Value(line) \in Val
  PROVE  LET ev == [name |-> NextName(r, line), data |-> NextData(r, line)]
             s == ParseLine(r, line)
         IN  /\ ev \in Event
             /\ s \in Reader
             /\ s.pending = r.pending /\ s.failed = r.failed /\ s.ended = r.ended
             /\ line # <<>> => s.name = ev.name /\ s.data = ev.data /\ s.events = r.events
             /\ line = <<>> => /\ s.name = <<>> /\ s.data = <<>>
                               /\ ev.name = r.name /\ ev.data = r.data
                               /\ s.events = IF ev.data = <<>> THEN r.events
                                             ELSE Append(r.events, ev)
<1> DEFINE ev == [name |-> NextName(r, line), data |-> NextData(r, line)]
<1>1. NextName(r, line) \in Val \cup {<<>>} /\ NextData(r, line) \in Seq(Val)
  BY DEF NextName, NextData, Reader
<1>2. ev \in Event
  BY <1>1 DEF Event
<1>3. CASE line # <<>>
  <2>1. ParseLine(r, line) = [r EXCEPT !.name = NextName(r, line), !.data = NextData(r, line)]
    BY <1>3 DEF ParseLine, NextName, NextData, Adds, Reader
  <2> QED  BY <2>1, <1>1, <1>2, <1>3 DEF Reader
<1>4. CASE line = <<>>
  <2>1. NextName(r, line) = r.name /\ NextData(r, line) = r.data
    BY <1>4 DEF NextName, NextData, Adds, IsName, IsData
  <2>2. ev.data = r.data /\ ev.name = r.name /\ ev = [name |-> r.name, data |-> r.data]
    BY <2>1
  <2>3. ParseLine(r, line) = [r EXCEPT !.events = IF r.data = <<>> THEN r.events
                                                  ELSE Append(r.events, ev),
                                       !.name = <<>>, !.data = <<>>]
    BY <1>4, <2>2 DEF ParseLine, HandOver, Reader
  <2>4. Append(r.events, ev) \in Seq(Event)
    BY <1>2 DEF Reader
  <2> HIDE DEF ev
  <2>5. <<>> \in Seq(Val)
    OBVIOUS
  <2> QED  BY <2>2, <2>3, <2>4, <2>5, <1>2, <1>4 DEF Reader, ev
<1> QED  BY <1>3, <1>4

(* Nothing is read, and nothing is handed over. *)
LEMMA SseStart == SseInit => SseInv
<1> SUFFICES ASSUME SseInit PROVE SseInv
  OBVIOUS
<1>1. stream \in Seq(Token)
  BY SseAssumption DEF SseInit, Stream
<1>2. SseTypeOK
  BY <1>1 DEF SseInit, SseTypeOK, NewReader, Reader
<1>3. Taken = 0 /\ reader.pending = SubSeq(stream, 1, 0)
  <2>1. SubSeq(stream, 1, 0) = <<>>
    BY SubSeqEmpty
  <2>2. reader.pending = <<>> /\ Len(<<>>) = 0 /\ got - 0 = 0 /\ ~reader.ended
    BY DEF SseInit, NewReader
  <2> QED  BY <2>1, <2>2 DEF Taken
<1>4. ReadingInv
  BY <1>3 DEF SseInit, NewReader, ReadingInv, Open
<1>5. EventEnds(stream, 0) = {}
  BY <1>1, LineNumbers DEF EventEnds
<1>6. AreEvents(stream, 0, <<>>)
  <2>1. <<>> \in [DOMAIN <<>> -> EventEnds(stream, 0)] /\ DOMAIN <<>> = {}
    OBVIOUS
  <2>2. Lists(<<>>, EventEnds(stream, 0))
    BY <1>5 DEF Lists
  <2> QED  BY <2>1, <2>2 DEF AreEvents
<1>7. CutsDoNotMatter
  BY <1>3, <1>6 DEF SseInit, NewReader, CutsDoNotMatter
<1> QED  BY <1>2, <1>4, <1>7 DEF SseInv

(* A line is taken out of pending_. *)
LEMMA SseTakesLine == SseInv /\ TakeLine => SseInv'
<1> SUFFICES ASSUME SseInv, TakeLine PROVE SseInv'
  OBVIOUS
<1>1. PICK end \in LineFeeds(reader.pending) :
        /\ \A i \in LineFeeds(reader.pending) : end <= i
        /\ reader' = ParseLine([reader EXCEPT !.pending = SubSeq(@, end + 1, Len(@))],
                               WithoutCR(SubSeq(reader.pending, 1, end - 1)))
  BY DEF TakeLine
<1>2. stream' = stream /\ got' = got /\ Reading
  BY DEF TakeLine
<1>3. /\ stream \in Seq(Token) /\ got \in 0 .. Len(stream) /\ reader \in Reader
      /\ Taken \in LineFeeds(stream) \cup {0} /\ Taken <= got
      /\ reader.pending = SubSeq(stream, Taken + 1, got)
      /\ Open(stream, Taken, reader.name, reader.data)
      /\ AreEvents(stream, Taken, reader.events)
  BY <1>2 DEF SseInv, SseTypeOK, ReadingInv, CutsDoNotMatter, Reading
<1> DEFINE t == Taken
           e == t + end
           line == Line(stream, e)
           r == [reader EXCEPT !.pending = SubSeq(stream, e + 1, got)]
           ev == [name |-> NextName(r, line), data |-> NextData(r, line)]
<1>4. t \in 0 .. got
  BY <1>3, LineNumbers
<1>5. /\ end \in 1 .. got - t /\ e \in LineFeeds(stream) /\ Adjacent(stream, t, e)
      /\ line = WithoutCR(SubSeq(reader.pending, 1, end - 1))
      /\ SubSeq(reader.pending, end + 1, Len(reader.pending)) = SubSeq(stream, e + 1, got)
  <2>1. \A i \in LineFeeds(reader.pending) : end <= i
    BY <1>1
  <2>2. t \in LineFeeds(stream) \cup {0} /\ reader.pending = SubSeq(stream, t + 1, got)
    BY <1>3
  <2>3. e = t + end
    OBVIOUS
  <2>5. stream \in Seq(Token) /\ got \in 0 .. Len(stream)
    BY <1>3
  <2> HIDE DEF t, e
  <2>4. /\ end \in 1 .. got - t /\ e \in LineFeeds(stream) /\ Adjacent(stream, t, e)
        /\ Line(stream, e) = WithoutCR(SubSeq(reader.pending, 1, end - 1))
        /\ SubSeq(reader.pending, end + 1, Len(reader.pending)) = SubSeq(stream, e + 1, got)
    <3>1. AtHand(stream, got, t, reader.pending, end, e)
      BY <2>1, <2>2, <2>3, <2>5, <1>4 DEF AtHand
    <3>2. /\ end \in 1 .. got - t /\ e \in LineFeeds(stream) /\ Adjacent(stream, t, e)
          /\ Line(stream, e) = WithoutCR(SubSeq(reader.pending, 1, end - 1))
      BY <3>1, LineAtHand
    <3>3. SubSeq(reader.pending, end + 1, Len(reader.pending)) = SubSeq(stream, e + 1, got)
      <4>1. Len(reader.pending) = got - t
        BY <2>2, <2>5, <1>4, PartOfText
      <4>2. SubSeq(SubSeq(stream, t + 1, got), end + 1, got - t) = SubSeq(stream, t + end + 1, got)
        BY <3>2, <2>5, <1>4, PartsOfPart
      <4>3. t + end + 1 = e + 1
        BY <2>3
      <4> QED  BY <4>1, <4>2, <4>3, <2>2
    <3> QED  BY <3>2, <3>3
  <2> QED  BY <2>4
<1>6. reader' = ParseLine(r, line)
  BY <1>1, <1>3, <1>5 DEF Reader
<1> HIDE DEF t, e, line
<1>7. Value(line) \in Val
  BY <1>3, <1>5, LineType DEF line
<1>8. e \in 1 .. got /\ e = t + end
  BY <1>3, <1>4, <1>5 DEF e
<1>9. /\ SubSeq(stream, e + 1, got) \in Seq(Token)
      /\ Len(SubSeq(stream, e + 1, got)) = got - e
  BY <1>3, <1>8, PartOfText
<1>10. /\ r \in Reader /\ r.pending = SubSeq(stream, e + 1, got)
       /\ r.name = reader.name /\ r.data = reader.data /\ r.events = reader.events
       /\ r.failed = reader.failed /\ r.ended = reader.ended
  BY <1>3, <1>9 DEF Reader
<1> HIDE DEF r
<1>11. /\ ev \in Event
       /\ reader' \in Reader
       /\ reader'.pending = r.pending /\ reader'.failed = r.failed /\ reader'.ended = r.ended
       /\ line # <<>> => /\ reader'.name = ev.name /\ reader'.data = ev.data
                         /\ reader'.events = r.events
       /\ line = <<>> => /\ reader'.name = <<>> /\ reader'.data = <<>>
                         /\ reader'.events = IF ev.data = <<>> THEN r.events
                                             ELSE Append(r.events, ev)
  BY <1>6, <1>7, <1>10, LineParsed
<1>12. ev.name = NextName(r, line) /\ ev.data = NextData(r, line)
  OBVIOUS
<1> HIDE DEF ev
<1>13. Taken' = e
  BY <1>2, <1>8, <1>9, <1>10, <1>11 DEF Taken, Reading
<1>14. line = <<>> <=> e \in Blank(stream)
  BY <1>5 DEF Blank, line
<1>15. Named(stream, e, ev.name)
  BY <1>3, <1>5, <1>10, <1>12, NameOfNext DEF NextName, line, t
<1>16. Contains(stream, e, ev.data)
  BY <1>3, <1>5, <1>7, <1>10, <1>12, DataOfNext DEF NextData, line, t, Reader
<1>17. AreEvents(stream, e, reader'.events)
  <2>1. Closes(stream, e) <=> line = <<>>
    BY <1>3, <1>8, <1>14 DEF Closes
  <2>2. AreEvents(stream, e, IF Closes(stream, e) /\ ev.data # <<>>
                             THEN Append(reader.events, ev) ELSE reader.events)
    BY <1>3, <1>5, <1>11, <1>15, <1>16, EventsOfNext DEF Reader, t
  <2> QED  BY <2>1, <2>2, <1>10, <1>11
<1>18. Open(stream, e, reader'.name, reader'.data)
  BY <1>5, <1>8, <1>11, <1>14, <1>15, <1>16 DEF Open
<1>19. SseTypeOK'
  BY <1>2, <1>3, <1>11 DEF SseTypeOK
<1>20. ReadingInv'
  BY <1>2, <1>3, <1>5, <1>8, <1>10, <1>11, <1>13, <1>18 DEF ReadingInv
<1>21. CutsDoNotMatter'
  BY <1>2, <1>10, <1>11, <1>13, <1>17 DEF CutsDoNotMatter, Reading
<1> QED  BY <1>19, <1>20, <1>21 DEF SseInv

(* A read goes on with the same line; if that is now too long, the part    *)
(* that was pending before already was longer than the limit less the      *)
(* read.                                                                   *)
LEMMA SseReads == ASSUME SseInv, NEW n \in 1 .. MaxRead, Read(n) PROVE SseInv'
<1>1. /\ stream' = stream /\ Reading /\ LineFeeds(reader.pending) = {}
      /\ got + n <= Len(stream) /\ got' = got + n
  BY DEF Read
<1>2. /\ stream \in Seq(Token) /\ got \in 0 .. Len(stream) /\ reader \in Reader
      /\ Taken \in LineFeeds(stream) \cup {0} /\ Taken <= got
      /\ reader.pending = SubSeq(stream, Taken + 1, got)
      /\ Open(stream, Taken, reader.name, reader.data)
      /\ AreEvents(stream, Taken, reader.events)
  BY <1>1 DEF SseInv, SseTypeOK, ReadingInv, CutsDoNotMatter, Reading
<1> DEFINE t == Taken
           more == SubSeq(stream, t + 1, got + n)
<1>3. t \in 0 .. got /\ got + n \in 0 .. Len(stream) /\ n \in Nat
  BY <1>1, <1>2, LineNumbers, SseAssumption
<1>4. more \in Seq(Token) /\ Len(more) = got + n - t /\ Len(reader.pending) = got - t
  BY <1>2, <1>3, PartOfText
<1>5. reader.pending \o SubSeq(stream, got + 1, got + n) = more
  <2>1. stream \in Seq(Token) /\ got \in 0 .. Len(stream) /\ got + n \in got .. Len(stream)
    BY <1>2, <1>3
  <2>2. SubSeq(stream, t + 1, got) \o SubSeq(stream, got + 1, got + n) = more
    BY <2>1, <1>3, PartsJoin
  <2> QED  BY <2>2, <1>2
<1>6. reader' = [reader EXCEPT !.pending = more, !.failed = Len(more) > Limit]
  BY <1>5 DEF Read
<1> HIDE DEF more
<1> DEFINE long == Len(more) > Limit
<1>12. long \in BOOLEAN /\ reader' = [reader EXCEPT !.pending = more, !.failed = long]
  BY <1>6
<1> HIDE DEF long
<1>7. /\ reader' \in Reader /\ reader'.pending = more /\ reader'.ended = reader.ended
      /\ reader'.name = reader.name /\ reader'.data = reader.data
      /\ reader'.events = reader.events /\ reader'.failed = long
  BY <1>2, <1>4, <1>12 DEF Reader
<1>8. Taken' = t
  BY <1>1, <1>2, <1>3, <1>4, <1>7 DEF Taken, Reading
<1>9. SseTypeOK'
  BY <1>1, <1>2, <1>3, <1>7 DEF SseTypeOK
<1>10. ReadingInv'
  BY <1>1, <1>2, <1>3, <1>7, <1>8 DEF ReadingInv, more
<1>11. CutsDoNotMatter'
  <2>1. CASE long
    <3>1. t \in LineFeeds(stream) \cup {0} /\ LineFeeds(SubSeq(stream, t + 1, got)) = {}
      BY <1>1, <1>2
    <3> HIDE DEF t
    <3>2. PICK end \in LineEnds(stream) :
              /\ Adjacent(stream, t, end) /\ got < end
              /\ RawLine(stream, end) = SubSeq(stream, t + 1, end - 1)
      BY <3>1, <1>2, <1>3, LineGoesOn
    <3> DEFINE g == end - 1
    <3>3. g \in 0 .. Len(stream) /\ t \in 0 .. g /\ got <= g
      BY <3>2, <1>2, <1>3, LineNumbers
    <3>5. g - t > Limit - MaxRead
      BY <2>1, <1>2, <1>3, <1>4, <3>3, SseAssumption DEF long
    <3>6. RawLine(stream, end) = SubSeq(stream, t + 1, g)
      BY <3>2
    <3> HIDE DEF g
    <3>4. Len(RawLine(stream, end)) = g - t
      BY <3>3, <3>6, <1>2, PartOfText
    <3> QED  BY <3>4, <3>5, <2>1, <1>1, <1>7 DEF CutsDoNotMatter
  <2>2. CASE ~long
    BY <2>2, <1>1, <1>2, <1>7, <1>8 DEF CutsDoNotMatter
  <2> QED  BY <2>1, <2>2
<1> QED  BY <1>9, <1>10, <1>11 DEF SseInv

(* The rest is the last line. *)
LEMMA SseEnds == SseInv /\ EndOfStream => SseInv'
<1> SUFFICES ASSUME SseInv, EndOfStream PROVE SseInv'
  OBVIOUS
<1> DEFINE t == Taken
           e == Len(stream) + 1
           line == Line(stream, e)
           r == [reader EXCEPT !.pending = <<>>, !.ended = TRUE]
           s == IF reader.pending = <<>> THEN r ELSE ParseLine(r, reader.pending)
           ev == [name |-> NextName(r, line), data |-> NextData(r, line)]
<1>1. /\ stream' = stream /\ got' = got /\ Reading /\ LineFeeds(reader.pending) = {}
      /\ got = Len(stream) /\ reader' = HandOver(s)
  BY DEF EndOfStream
<1>2. /\ stream \in Seq(Token) /\ got \in 0 .. Len(stream) /\ reader \in Reader
      /\ Taken \in LineFeeds(stream) \cup {0} /\ Taken <= got
      /\ reader.pending = SubSeq(stream, Taken + 1, got)
      /\ Open(stream, Taken, reader.name, reader.data)
      /\ AreEvents(stream, Taken, reader.events)
  BY <1>1 DEF SseInv, SseTypeOK, ReadingInv, CutsDoNotMatter, Reading
<1>3. t \in 0 .. got
  BY <1>2, LineNumbers
<1>4. Adjacent(stream, t, e) /\ line = reader.pending
  <2>1. t \in LineFeeds(stream) \cup {0} /\ LineFeeds(SubSeq(stream, t + 1, got)) = {}
    BY <1>1, <1>2
  <2> HIDE DEF t
  <2>2. PICK end \in LineEnds(stream) :
            /\ Adjacent(stream, t, end) /\ got < end
            /\ RawLine(stream, end) = SubSeq(stream, t + 1, end - 1)
    BY <2>1, <1>2, <1>3, LineGoesOn
  <2>3. end = e /\ end - 1 = got /\ ~(end <= Len(stream))
    BY <2>2, <1>1, <1>2, LineNumbers
  <2>4. RawLine(stream, end) = reader.pending
    BY <2>2, <2>3, <1>2 DEF t
  <2> QED  BY <2>2, <2>3, <2>4 DEF Line
<1> HIDE DEF t, e, line
<1>5. Value(line) \in Val
  BY <1>2, <1>4, LineType DEF line
<1>6. /\ r \in Reader /\ r.pending = <<>> /\ r.ended /\ r.failed = reader.failed
      /\ r.name = reader.name /\ r.data = reader.data /\ r.events = reader.events
  <2>1. <<>> \in Seq(Token)
    OBVIOUS
  <2>2. r.pending = <<>> /\ r.ended = TRUE
    BY <1>2 DEF Reader
  <2>3. r \in Reader
    BY <2>1, <1>2 DEF Reader
  <2>4. /\ r.failed = reader.failed /\ r.name = reader.name /\ r.data = reader.data
        /\ r.events = reader.events
    BY <1>2 DEF Reader
  <2> QED  BY <2>2, <2>3, <2>4
<1> HIDE DEF r
<1>7. /\ ev \in Event /\ s \in Reader
      /\ s.pending = <<>> /\ s.ended /\ s.failed = reader.failed
      /\ s.name = ev.name /\ s.data = ev.data /\ s.events = reader.events
  <2>1. CASE line # <<>>
    BY <2>1, <1>4, <1>5, <1>6, LineParsed
  <2>2. CASE line = <<>>
    BY <2>2, <1>4, <1>5, <1>6, LineParsed
  <2> QED  BY <2>1, <2>2
<1>8. ev.name = NextName(r, line) /\ ev.data = NextData(r, line)
  OBVIOUS
<1> HIDE DEF ev, s
<1>9. Named(stream, e, ev.name)
  BY <1>2, <1>4, <1>6, <1>8, NameOfNext DEF NextName, line, t
<1>10. Contains(stream, e, ev.data)
  BY <1>2, <1>4, <1>5, <1>6, <1>8, DataOfNext DEF NextData, line, t, Reader
<1>11. /\ reader' \in Reader /\ reader'.ended /\ reader'.failed = reader.failed
       /\ reader'.events = IF ev.data = <<>> THEN reader.events
                           ELSE Append(reader.events, ev)
  <2>1. ev = [name |-> s.name, data |-> s.data]
    BY <1>7 DEF Event
  <2>2. reader' = [s EXCEPT !.events = IF s.data = <<>> THEN s.events ELSE Append(s.events, ev),
                            !.name = <<>>, !.data = <<>>]
    BY <1>1, <1>7, <2>1 DEF HandOver, Reader
  <2>3. Append(s.events, ev) \in Seq(Event) /\ <<>> \in Seq(Val)
    BY <1>7 DEF Reader
  <2> QED  BY <2>2, <2>3, <1>7 DEF Reader
<1>12. AreEvents(stream, e, reader'.events)
  <2>1. Closes(stream, e)
    BY DEF Closes, e
  <2>2. AreEvents(stream, e, IF Closes(stream, e) /\ ev.data # <<>>
                             THEN Append(reader.events, ev) ELSE reader.events)
    BY <1>2, <1>4, <1>7, <1>9, <1>10, EventsOfNext DEF Reader, t
  <2> QED  BY <2>1, <2>2, <1>11
<1>13. Taken' = e
  BY <1>1, <1>11 DEF Taken, e
<1>14. SseTypeOK' /\ ReadingInv'
  BY <1>1, <1>2, <1>11 DEF SseTypeOK, ReadingInv, Reading
<1>15. CutsDoNotMatter'
  BY <1>1, <1>11, <1>12, <1>13 DEF CutsDoNotMatter, Reading
<1> QED  BY <1>14, <1>15 DEF SseInv

(* Every step keeps the invariant. *)
LEMMA SseStep == SseInv /\ [SseNext]_sse => SseInv'
<1> SUFFICES ASSUME SseInv, [SseNext]_sse PROVE SseInv'
  OBVIOUS
<1>1. CASE SseNext
  BY <1>1, SseTakesLine, SseReads, SseEnds DEF SseNext
<1>2. CASE UNCHANGED sse
  BY <1>2 DEF sse, SseInv, SseTypeOK, ReadingInv, Reading, CutsDoNotMatter, Taken
<1> QED  BY <1>1, <1>2

(* For buffers, limits and streams of any length: however the reads cut    *)
(* the bytes, next_sse hands over the events of the lines so far, in order *)
(* and with their names and data, and at the end of the stream all of      *)
(* them; it refuses a stream only for a line that is too long.             *)
THEOREM CutsMakeNoDifference == SseSpec => []CutsDoNotMatter
<1>1. SseInv => CutsDoNotMatter
  BY DEF SseInv
<1> QED  BY SseStart, SseStep, <1>1, PTL DEF SseSpec

(* What is still to be read counts twice, since a read moves it to         *)
(* pending_, from where it is taken.                                       *)
Left ==
    2 * (Len(stream) - got) + Len(reader.pending) + (IF Reading THEN 1 ELSE 0)

(* Every step of the reader leaves less to do: it neither loops over a     *)
(* line that it cannot finish nor looks at one twice.                      *)
ReaderAdvances == [][Left' < Left /\ Left \in Nat /\ Left' \in Nat]_sse

(* A line leaves the rest of pending_ and the reader's state alone. *)
LEMMA ParseKeeps ==
  ASSUME NEW r \in Reader, NEW line
  PROVE  /\ ParseLine(r, line).pending = r.pending
         /\ ParseLine(r, line).failed = r.failed
         /\ ParseLine(r, line).ended = r.ended
<1>1. CASE line = <<>>
  BY <1>1 DEF ParseLine, HandOver, Reader
<1>2. CASE line # <<>>
  BY <1>2 DEF ParseLine, Reader
<1> QED  BY <1>1, <1>2

(* A line taken, or a read, leaves less. *)
LEMMA LessIsLeft ==
  ASSUME NEW l \in Nat, NEW g \in 0 .. l, NEW p \in Nat, NEW b \in {0, 1}
  PROVE  /\ \A e \in 1 .. p : 2 * (l - g) + (p - e) + b < 2 * (l - g) + p + b
         /\ \A n \in Nat \ {0} : 2 * (l - (g + n)) + (p + n) + b < 2 * (l - g) + p + 1
OBVIOUS

(* However the server's bytes are cut and wherever they end, the reader    *)
(* comes to the end of a stream that ends.                                 *)
THEOREM ReaderComesToAnEnd == SseSpec => ReaderAdvances
<1>1. ASSUME SseInv PROVE Left \in Nat
  BY <1>1 DEF SseInv, SseTypeOK, Reader, Left
<1>2. ASSUME SseInv, SseNext PROVE Left' < Left
  <2>1. /\ stream \in Seq(Token) /\ Len(stream) \in Nat /\ got \in 0 .. Len(stream)
        /\ reader \in Reader /\ reader.pending \in Seq(Token) /\ Len(reader.pending) \in Nat
    BY <1>2 DEF SseInv, SseTypeOK, Reader
  <2>2. CASE TakeLine
    <3>1. PICK end \in LineFeeds(reader.pending) :
            reader' = ParseLine([reader EXCEPT !.pending = SubSeq(@, end + 1, Len(@))],
                                WithoutCR(SubSeq(reader.pending, 1, end - 1)))
      BY <2>2 DEF TakeLine
    <3> DEFINE rest == SubSeq(reader.pending, end + 1, Len(reader.pending))
               r == [reader EXCEPT !.pending = rest]
    <3>2. end \in 1 .. Len(reader.pending)
      BY <2>1 DEF LineFeeds
    <3>3. rest \in Seq(Token) /\ Len(rest) = Len(reader.pending) - end
      BY <2>1, <3>2, PartOfText
    <3>4. r \in Reader /\ r.pending = rest /\ r.failed = reader.failed /\ r.ended = reader.ended
      BY <2>1, <3>3 DEF Reader
    <3>5. reader' = ParseLine(r, WithoutCR(SubSeq(reader.pending, 1, end - 1)))
      BY <3>1
    <3> HIDE DEF r, rest
    <3>6. /\ reader'.pending = rest /\ reader'.failed = reader.failed
          /\ reader'.ended = reader.ended
      BY <3>4, <3>5, ParseKeeps
    <3>7. stream' = stream /\ got' = got
      BY <2>2 DEF TakeLine
    <3>8. Reading' <=> Reading
      BY <3>6 DEF Reading
    <3>9. Len(reader'.pending) = Len(reader.pending) - end
      BY <3>3, <3>6
    <3> DEFINE busy == IF Reading THEN 1 ELSE 0
    <3>10. busy \in {0, 1} /\ busy' = busy
      BY <3>8
    <3>11. /\ Left = 2 * (Len(stream) - got) + Len(reader.pending) + busy
           /\ Left' = 2 * (Len(stream) - got) + (Len(reader.pending) - end) + busy
      BY <3>7, <3>9, <3>10 DEF Left
    <3> HIDE DEF busy
    <3> QED  BY <2>1, <3>2, <3>10, <3>11, LessIsLeft
  <2>3. ASSUME NEW n \in 1 .. MaxRead, Read(n) PROVE Left' < Left
    <3> DEFINE more == reader.pending \o SubSeq(stream, got + 1, got + n)
    <3>1. /\ Reading /\ got + n <= Len(stream) /\ got' = got + n /\ stream' = stream
          /\ n \in Nat \ {0} /\ got + n \in 0 .. Len(stream) /\ got \in 0 .. got + n
      BY <2>1, <2>3, SseAssumption DEF Read
    <3>2. /\ SubSeq(stream, got + 1, got + n) \in Seq(Token)
          /\ Len(SubSeq(stream, got + 1, got + n)) = n
      BY <2>1, <3>1, PartOfText
    <3>3. more \in Seq(Token) /\ Len(more) = Len(reader.pending) + n
      BY <2>1, <3>2
    <3>4. reader'.pending = more
      BY <2>1, <2>3 DEF Read, Reader
    <3>5. Len(reader'.pending) = Len(reader.pending) + n
      BY <3>3, <3>4
    <3> DEFINE busy == IF Reading THEN 1 ELSE 0
    <3>6. busy = 1 /\ busy' \in {0, 1}
      BY <3>1
    <3>7. /\ Left = 2 * (Len(stream) - got) + Len(reader.pending) + busy
          /\ Left' = 2 * (Len(stream) - (got + n)) + (Len(reader.pending) + n) + busy'
      BY <3>1, <3>5 DEF Left
    <3> HIDE DEF busy
    <3> QED  BY <2>1, <3>1, <3>6, <3>7, LessIsLeft
  <2>4. CASE EndOfStream
    <3> DEFINE r == [reader EXCEPT !.pending = <<>>, !.ended = TRUE]
               s == IF reader.pending = <<>> THEN r ELSE ParseLine(r, reader.pending)
    <3>1. /\ Reading /\ stream' = stream /\ got' = got /\ reader' = HandOver(s)
      BY <2>4 DEF EndOfStream
    <3>2. r \in Reader /\ r.pending = <<>> /\ r.ended
      <4>1. <<>> \in Seq(Token)  OBVIOUS
      <4> QED  BY <2>1, <4>1 DEF Reader
    <3> HIDE DEF r
    <3>3. /\ ParseLine(r, <<>>) = HandOver(r)
          /\ ParseLine(r, <<>>).pending = <<>> /\ ParseLine(r, <<>>).ended
      BY <3>2, ParseKeeps DEF ParseLine
    <3>4. reader'.pending = <<>> /\ reader'.ended
      <4>1. CASE reader.pending = <<>>
        BY <3>1, <3>3, <4>1
      <4>2. CASE reader.pending # <<>>
        <5>1. reader' = HandOver(ParseLine(r, reader.pending))
          BY <3>1, <4>2
        <5>2. ParseLine(r, reader.pending).pending = <<>> /\ ParseLine(r, reader.pending).ended
          BY <3>2, ParseKeeps
        <5> QED  BY <5>1, <5>2, <4>2, <3>2 DEF HandOver, ParseLine, Reader
      <4> QED  BY <4>1, <4>2
    <3>5. ~Reading'
      BY <3>4 DEF Reading
    <3>6. Len(reader'.pending) = 0
      BY <3>4
    <3> QED  BY <2>1, <3>1, <3>5, <3>6 DEF Left
  <2> QED  BY <1>2, <2>2, <2>3, <2>4 DEF SseNext
<1>3. SseInv /\ SseInv' /\ [SseNext]_sse => [Left' < Left /\ Left \in Nat /\ Left' \in Nat]_sse
  <2> SUFFICES ASSUME SseInv, SseInv', SseNext
               PROVE  Left' < Left /\ Left \in Nat /\ Left' \in Nat
    OBVIOUS
  <2>1. SseInv' => Left' \in Nat
    BY DEF SseInv, SseTypeOK, Reader, Left
  <2> QED  BY <1>1, <1>2, <2>1
<1> QED  BY SseStart, SseStep, <1>3, PTL DEF SseSpec, ReaderAdvances
=============================================================================
