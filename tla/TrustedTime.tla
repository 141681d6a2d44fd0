----------------------------- MODULE TrustedTime -----------------------------
(***************************************************************************)
(* The trusted clock (Cpp/src/internal/trusted_clock.cpp), the exchange    *)
(* that sets it (RequestPipeline::refresh_trusted_time) and the offline    *)
(* budget that is kept in it (offline.bin: note_verified_interaction and   *)
(* offline_locked).                                                        *)
(*                                                                         *)
(* The clock is one static object of the process: an anchor that pairs a   *)
(* server time with a tick count.  Every thread that finds no anchor       *)
(* starts an exchange of its own, so anchors may be set more than once and *)
(* in another order than their answers were signed in.  offline.bin        *)
(* outlives the process; the anchor and the latch do not.                  *)
(***************************************************************************)
EXTENDS Integers

CONSTANTS
    Thread,
    NoAnchor,
    Boot,           \* the server's time at tick 0
    MaxRoundTrip,   \* maximum_round_trip_ms
    MaxOffline,     \* maximum_offline_ms
    MaxTick         \* bound: the run ends at this tick

ASSUME TimeAssumption ==
    /\ Boot \in Nat \ {0}
    /\ MaxRoundTrip \in Nat
    /\ MaxOffline \in Nat
    /\ MaxTick \in Nat
    /\ NoAnchor \notin [unix : Nat, tick : Nat]

VARIABLES
    tick,       \* GetTickCount64()
    anchor,     \* ClockState: anchor_unix_ms and anchor_tick_ms, once initialized
    pc,         \* where each thread is
    started,    \* refresh_trusted_time: the tick before send() ...
    received,   \* ... the tick after it ...
    stamp,      \* ... and the server_time_ms of the answer
    last,       \* the time in offline.bin, 0 if there is none for this identity
    latched,    \* offline_latched_
    noted,      \* history: the server's time when offline.bin was last written
    overrun     \* history: this process noted an interaction after too long a gap

vars == <<tick, anchor, pc, started, received, stamp, last, latched, noted, overrun>>
exchange == <<started, received, stamp>>
budget == <<last, latched, noted, overrun>>

ServerTime == tick + Boot

TypeOK ==
    /\ tick \in Nat
    /\ anchor \in [unix : Nat, tick : Nat] \cup {NoAnchor}
    /\ pc \in [Thread -> {"idle", "sync", "set", "request", "note", "rotated"}]
    /\ started \in [Thread -> Nat]
    /\ received \in [Thread -> Nat]
    /\ stamp \in [Thread -> Nat]
    /\ last \in Nat
    /\ latched \in BOOLEAN
    /\ noted \in Nat
    /\ overrun \in BOOLEAN

Init ==
    /\ tick = 0
    /\ anchor = NoAnchor
    /\ pc = [t \in Thread |-> "idle"]
    /\ started = [t \in Thread |-> 0]
    /\ received = [t \in Thread |-> 0]
    /\ stamp = [t \in Thread |-> 0]
    /\ last = 0
    /\ latched = FALSE
    /\ noted = 0
    /\ overrun = FALSE

Goto(t, place) == pc' = [pc EXCEPT ![t] = place]

(* refresh_trusted_time has returned or thrown: its locals are gone. *)
Forget(t) ==
    /\ started' = [started EXCEPT ![t] = 0]
    /\ received' = [received EXCEPT ![t] = 0]
    /\ stamp' = [stamp EXCEPT ![t] = 0]

-----------------------------------------------------------------------------
(* TrustedClock *)

Initialized == anchor # NoAnchor

(* now_unix_ms: 0 stands for "unavailable". *)
Now ==
    IF Initialized /\ tick >= anchor.tick
    THEN anchor.unix + (tick - anchor.tick)
    ELSE 0

(* send() and its relatives: no anchor yet, so the thread asks for one. *)
BeginSync(t) ==
    /\ pc[t] = "idle" /\ ~Initialized
    /\ started' = [started EXCEPT ![t] = tick]
    /\ Goto(t, "sync")
    /\ UNCHANGED <<tick, anchor, received, stamp, budget>>

(* An answer that passes every check of refresh_trusted_time.  The server  *)
(* signed it at some moment since the exchange began; send() may have made *)
(* several attempts.                                                       *)
SyncReply(t) ==
    /\ pc[t] = "sync"
    /\ received' = [received EXCEPT ![t] = tick]
    /\ \E s \in started[t] .. tick : stamp' = [stamp EXCEPT ![t] = s + Boot]
    /\ Goto(t, "set")
    /\ UNCHANGED <<tick, anchor, started, budget>>

(* send() or one of the checks throws. *)
SyncFails(t) ==
    /\ pc[t] = "sync"
    /\ Goto(t, "idle") /\ Forget(t)
    /\ UNCHANGED <<tick, anchor, budget>>

RoundTrip(t) == received[t] - started[t]

(* Mutant of AnchorOf: the whole round trip is added. *)
AnchorWithoutHalving(t) == [unix |-> stamp[t] + RoundTrip(t), tick |-> received[t]]
AnchorOf(t) == [unix |-> stamp[t] + (RoundTrip(t) \div 2), tick |-> received[t]]

(* set_authoritative_time, with the clock's mutex held. *)
SetAuthoritativeTime(t) ==
    /\ pc[t] = "set"
    /\ RoundTrip(t) <= MaxRoundTrip
    /\ anchor' = AnchorOf(t)
    /\ Goto(t, "note") /\ Forget(t)
    /\ UNCHANGED <<tick, budget>>

(* "signed server time round trip is too slow" *)
RoundTripTooSlow(t) ==
    /\ pc[t] = "set"
    /\ RoundTrip(t) > MaxRoundTrip
    /\ Goto(t, "idle") /\ Forget(t)
    /\ UNCHANGED <<tick, anchor, budget>>

-----------------------------------------------------------------------------
(* The offline budget *)

(* Mutant of OfflineLocked: a clock that is not set counts as time zero. *)
LockedOnlyWhenLate == latched \/ last <= 0 \/ Now - last > MaxOffline
(* offline_locked: fails closed when anything is missing or inconsistent. *)
OfflineLocked ==
    \/ latched
    \/ last <= 0
    \/ Now <= 0 \/ Now < last \/ Now - last > MaxOffline

(* check_update, report_heartbeat and the other operations that any client *)
(* with a clock may begin.                                                 *)
BeginRequest(t) ==
    /\ pc[t] = "idle" /\ Initialized
    /\ Goto(t, "request")
    /\ UNCHANGED <<tick, anchor, exchange, budget>>

(* authorize_operation and consume_operation_authorization are refused     *)
(* while offline_locked().                                                 *)
BeginOperation(t) ==
    /\ pc[t] = "idle" /\ ~OfflineLocked
    /\ Goto(t, "request")
    /\ UNCHANGED <<tick, anchor, exchange, budget>>

(* verify_authz accepts the response ... *)
ResponseVerified(t) ==
    /\ pc[t] = "request"
    /\ Goto(t, "note")
    /\ UNCHANGED <<tick, anchor, exchange, budget>>

(* ... or the request fails. *)
RequestFails(t) ==
    /\ pc[t] = "request"
    /\ Goto(t, "idle")
    /\ UNCHANGED <<tick, anchor, exchange, budget>>

(* The budget was exceeded between the last noted interaction and now. *)
Exceeded == last > 0 /\ Now >= last /\ Now - last > MaxOffline

(* Mutant of NoteInteraction: the latch is judged on the new time. *)
NoteBeforeJudging(t) ==
    /\ pc[t] = "note" /\ Now > 0
    /\ last' = Now /\ noted' = ServerTime
    /\ overrun' = (overrun \/ (last > 0 /\ ServerTime - noted > MaxOffline + MaxRoundTrip))
    /\ Goto(t, "idle")
    /\ UNCHANGED <<tick, anchor, exchange, latched>>
(* note_verified_interaction, with mutex_ held. *)
NoteInteraction(t) ==
    /\ pc[t] = "note" /\ Now > 0
    /\ latched' = (latched \/ Exceeded)
    /\ last' = Now /\ noted' = ServerTime
    /\ overrun' = (overrun \/ (last > 0 /\ ServerTime - noted > MaxOffline + MaxRoundTrip))
    /\ Goto(t, "idle")
    /\ UNCHANGED <<tick, anchor, exchange>>

(* write_protected throws: the latch is set before the write. *)
NoteFails(t) ==
    /\ pc[t] = "note" /\ Now > 0
    /\ latched' = (latched \/ Exceeded)
    /\ overrun' = (overrun \/ (last > 0 /\ ServerTime - noted > MaxOffline + MaxRoundTrip))
    /\ Goto(t, "idle")
    /\ UNCHANGED <<tick, anchor, exchange, last, noted>>

(* rotate_device_key: offline.bin is bound to the key that is replaced ... *)
RotateKey(t) ==
    /\ pc[t] = "idle" /\ Initialized
    /\ last' = 0
    /\ Goto(t, "rotated")
    /\ UNCHANGED <<tick, anchor, exchange, latched, noted, overrun>>

(* ... and then the latch is reset, which forgives an overrun. *)
ResetLatch(t) ==
    /\ pc[t] = "rotated"
    /\ latched' = FALSE /\ overrun' = FALSE
    /\ Goto(t, "idle")
    /\ UNCHANGED <<tick, anchor, exchange, last, noted>>

(* The process ends and another one starts: only offline.bin survives. *)
Restart ==
    /\ anchor' = NoAnchor
    /\ pc' = [t \in Thread |-> "idle"]
    /\ started' = [t \in Thread |-> 0]
    /\ received' = [t \in Thread |-> 0]
    /\ stamp' = [t \in Thread |-> 0]
    /\ latched' = FALSE /\ overrun' = FALSE
    /\ UNCHANGED <<tick, last, noted>>

Tick ==
    /\ tick < MaxTick
    /\ tick' = tick + 1
    /\ UNCHANGED <<anchor, pc, exchange, budget>>

Next ==
    \/ Tick \/ Restart
    \/ \E t \in Thread :
        \/ BeginSync(t) \/ SyncReply(t) \/ SyncFails(t)
        \/ SetAuthoritativeTime(t) \/ RoundTripTooSlow(t)
        \/ BeginRequest(t) \/ BeginOperation(t) \/ ResponseVerified(t)
        \/ RequestFails(t) \/ NoteInteraction(t) \/ NoteFails(t)
        \/ RotateKey(t) \/ ResetLatch(t)

Spec == Init /\ [][Next]_vars

-----------------------------------------------------------------------------
(* Whichever thread set the anchor last, and however long its answer lay   *)
(* before it was used, the trusted clock is off by at most half a round    *)
(* trip.                                                                   *)
ClockAccurate ==
    Initialized =>
        /\ Now >= ServerTime - (MaxRoundTrip + 1) \div 2
        /\ Now <= ServerTime + MaxRoundTrip \div 2

(* Operations are authorized offline only within MaxOffline of the last    *)
(* verified interaction in the server's own time, up to one round trip of  *)
(* clock error, although the two readings that offline_locked compares may *)
(* come from different anchors and different processes.                    *)
OfflineBudgetKept ==
    ~OfflineLocked => ServerTime - noted <= MaxOffline + MaxRoundTrip

(* A process that was told, by its own next verified interaction, that the *)
(* gap before it was too long stays locked, although that interaction      *)
(* renews offline.bin, until the device key is rotated.                    *)
OverrunStaysLocked == overrun => OfflineLocked
=============================================================================
