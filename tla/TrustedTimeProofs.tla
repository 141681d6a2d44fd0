-------------------------- MODULE TrustedTimeProofs --------------------------
(***************************************************************************)
(* Proofs about TrustedTime for any number of threads and any bounds.  The *)
(* two readings that the offline budget compares are each off by at most   *)
(* half a round trip, whichever anchor or process they come from.          *)
(***************************************************************************)
EXTENDS TrustedTime, TLAPS

(* An exchange that has been answered was answered within its interval. *)
ExchangeInv ==
    \A t \in Thread :
        /\ pc[t] = "sync" => started[t] <= tick
        /\ pc[t] = "set" =>
              /\ started[t] <= received[t] /\ received[t] <= tick
              /\ started[t] + Boot <= stamp[t] /\ stamp[t] <= received[t] + Boot

(* The error of the anchor, and so of every reading taken from it. *)
AnchorInv ==
    Initialized =>
        /\ anchor.tick <= tick
        /\ anchor.unix >= anchor.tick + Boot - (MaxRoundTrip + 1) \div 2
        /\ anchor.unix <= anchor.tick + Boot + MaxRoundTrip \div 2

(* The time in offline.bin is a reading of the clock at time noted. *)
BudgetInv ==
    /\ noted <= ServerTime
    /\ last > 0 =>
         /\ last >= noted - (MaxRoundTrip + 1) \div 2
         /\ last <= noted + MaxRoundTrip \div 2
    /\ overrun => latched

Inv == TypeOK /\ ExchangeInv /\ AnchorInv /\ BudgetInv

(* Half a round trip, rounded down, and the rest of it. *)
LEMMA Halves ==
  ASSUME NEW r \in Nat
  PROVE  /\ r \div 2 \in Nat /\ (r + 1) \div 2 \in Nat
         /\ r \div 2 + (r + 1) \div 2 = r
         /\ \A m \in Nat : r <= m => r \div 2 <= m \div 2 /\ (r + 1) \div 2 <= (m + 1) \div 2
  OBVIOUS

(* What a reading of the clock is worth while it is set. *)
LEMMA Reading ==
  ASSUME TypeOK, AnchorInv, Initialized
  PROVE  /\ Now \in Nat
         /\ Now >= ServerTime - (MaxRoundTrip + 1) \div 2
         /\ Now <= ServerTime + MaxRoundTrip \div 2
<1>1. /\ anchor.unix \in Nat /\ anchor.tick \in Nat /\ tick \in Nat /\ Boot \in Nat
      /\ anchor.tick <= tick
  BY TimeAssumption DEF TypeOK, Initialized, AnchorInv
<1>2. Now = anchor.unix + (tick - anchor.tick)
  BY <1>1 DEF Now
<1>3. MaxRoundTrip \div 2 \in Nat /\ (MaxRoundTrip + 1) \div 2 \in Nat
  BY Halves, TimeAssumption
<1> QED  BY <1>1, <1>2, <1>3 DEF AnchorInv, ServerTime

(* The clock's error and the budget's, in every reachable state.           *)
THEOREM Invariance == Spec => []Inv
<1>1. Init => Inv
  <2> SUFFICES ASSUME Init PROVE Inv
    OBVIOUS
  <2>1. TypeOK
    BY DEF Init, TypeOK
  <2>2. ExchangeInv /\ AnchorInv
    BY DEF Init, ExchangeInv, AnchorInv, Initialized
  <2>3. BudgetInv
    BY TimeAssumption DEF Init, BudgetInv, ServerTime
  <2> QED  BY <2>1, <2>2, <2>3 DEF Inv
<1>2. Inv /\ [Next]_vars => Inv'
  <2> SUFFICES ASSUME Inv, [Next]_vars PROVE Inv'
    OBVIOUS
  <2>1. /\ Boot \in Nat \ {0} /\ MaxRoundTrip \in Nat /\ MaxOffline \in Nat /\ MaxTick \in Nat
        /\ MaxRoundTrip \div 2 \in Nat /\ (MaxRoundTrip + 1) \div 2 \in Nat
        /\ MaxRoundTrip \div 2 + (MaxRoundTrip + 1) \div 2 = MaxRoundTrip
        /\ NoAnchor \notin [unix : Nat, tick : Nat]
    BY TimeAssumption, Halves
  <2>2. CASE Tick
    BY <2>1, <2>2
       DEF Tick, exchange, budget, Inv, TypeOK, ExchangeInv, AnchorInv, BudgetInv,
           Initialized, ServerTime
  <2>3. CASE Restart
    BY <2>1, <2>3
       DEF Restart, Inv, TypeOK, ExchangeInv, AnchorInv, BudgetInv, Initialized, ServerTime
  <2>4. ASSUME NEW t \in Thread, BeginSync(t) PROVE Inv'
    BY <2>1, <2>4
       DEF BeginSync, Goto, budget, Inv, TypeOK, ExchangeInv, AnchorInv, BudgetInv,
           Initialized, ServerTime
  <2>5. ASSUME NEW t \in Thread, SyncReply(t) PROVE Inv'
    <3>1. PICK s \in started[t] .. tick : stamp' = [stamp EXCEPT ![t] = s + Boot]
      BY <2>5 DEF SyncReply
    <3>2. /\ started[t] \in Nat /\ tick \in Nat /\ s \in Nat /\ started[t] <= s /\ s <= tick
      BY <2>5, <3>1 DEF SyncReply, Inv, TypeOK, ExchangeInv
    <3>3. TypeOK'
      BY <2>1, <2>5, <3>1, <3>2 DEF SyncReply, Goto, budget, Inv, TypeOK
    <3>4. ExchangeInv'
      BY <2>1, <2>5, <3>1, <3>2 DEF SyncReply, Goto, Inv, TypeOK, ExchangeInv
    <3>5. AnchorInv' /\ BudgetInv'
      BY <2>5 DEF SyncReply, budget, Inv, AnchorInv, BudgetInv, Initialized, ServerTime
    <3> QED  BY <3>3, <3>4, <3>5 DEF Inv
  <2>6. ASSUME NEW t \in Thread, SyncFails(t) PROVE Inv'
    BY <2>1, <2>6
       DEF SyncFails, Goto, Forget, budget, Inv, TypeOK, ExchangeInv, AnchorInv, BudgetInv,
           Initialized, ServerTime
  <2>7. ASSUME NEW t \in Thread, SetAuthoritativeTime(t) PROVE Inv'
    <3> DEFINE r == received[t] - started[t]
    <3>1. /\ started[t] \in Nat /\ received[t] \in Nat /\ stamp[t] \in Nat /\ tick \in Nat
          /\ started[t] <= received[t] /\ received[t] <= tick
          /\ started[t] + Boot <= stamp[t] /\ stamp[t] <= received[t] + Boot
          /\ r <= MaxRoundTrip
      BY <2>7 DEF SetAuthoritativeTime, RoundTrip, Inv, TypeOK, ExchangeInv
    <3>2. /\ r \in Nat /\ r \div 2 \in Nat /\ (r + 1) \div 2 \in Nat
          /\ r \div 2 + (r + 1) \div 2 = r
          /\ r \div 2 <= MaxRoundTrip \div 2
          /\ (r + 1) \div 2 <= (MaxRoundTrip + 1) \div 2
      <4>1. r \in Nat  BY <3>1
      <4> HIDE DEF r
      <4> QED  BY <4>1, <3>1, <2>1, Halves
    <3>3. anchor' = [unix |-> stamp[t] + (r \div 2), tick |-> received[t]]
      BY <2>7 DEF SetAuthoritativeTime, AnchorOf, RoundTrip
    <3>4. TypeOK'
      <4>1. anchor' \in [unix : Nat, tick : Nat]
        <5> DEFINE h == r \div 2
        <5>1. h \in Nat  BY <3>2
        <5>2. anchor' = [unix |-> stamp[t] + h, tick |-> received[t]]  BY <3>3
        <5> HIDE DEF r, h
        <5>3. stamp[t] + h \in Nat  BY <3>1, <5>1
        <5> QED  BY <3>1, <5>2, <5>3
      <4> QED
        BY <2>7, <4>1 DEF SetAuthoritativeTime, Goto, Forget, budget, Inv, TypeOK
    <3>5. ExchangeInv'
      BY <2>7 DEF SetAuthoritativeTime, Goto, Forget, Inv, TypeOK, ExchangeInv
    <3>6. AnchorInv'
      <4>1. tick' = tick  BY <2>7 DEF SetAuthoritativeTime
      <4> HIDE DEF r
      <4>2. /\ stamp[t] + (r \div 2) >= received[t] + Boot - (MaxRoundTrip + 1) \div 2
            /\ stamp[t] + (r \div 2) <= received[t] + Boot + MaxRoundTrip \div 2
        <5>1. received[t] = started[t] + r  BY <3>1 DEF r
        <5> DEFINE h == r \div 2
                   g == (r + 1) \div 2
                   hm == MaxRoundTrip \div 2
                   gm == (MaxRoundTrip + 1) \div 2
        <5>2. h \in Nat /\ g \in Nat /\ h + g = r /\ h <= hm /\ g <= gm  BY <3>2
        <5>3. hm \in Nat /\ gm \in Nat /\ Boot \in Nat  BY Halves, TimeAssumption
        <5> SUFFICES /\ stamp[t] + h >= received[t] + Boot - gm
                     /\ stamp[t] + h <= received[t] + Boot + hm
          OBVIOUS
        <5> HIDE DEF h, g, hm, gm
        <5> QED  BY <5>1, <5>2, <5>3, <3>1
      <4> QED  BY <3>1, <3>3, <4>1, <4>2 DEF AnchorInv
    <3>7. BudgetInv'
      BY <2>7 DEF SetAuthoritativeTime, budget, Inv, BudgetInv, ServerTime
    <3> QED  BY <3>4, <3>5, <3>6, <3>7 DEF Inv
  <2>8. ASSUME NEW t \in Thread, RoundTripTooSlow(t) PROVE Inv'
    BY <2>1, <2>8
       DEF RoundTripTooSlow, Goto, Forget, budget, Inv, TypeOK, ExchangeInv, AnchorInv,
           BudgetInv, Initialized, ServerTime
  <2>9. ASSUME NEW t \in Thread,
               BeginRequest(t) \/ BeginOperation(t) \/ ResponseVerified(t) \/ RequestFails(t)
        PROVE  Inv'
    BY <2>1, <2>9
       DEF BeginRequest, BeginOperation, ResponseVerified, RequestFails, Goto, exchange,
           budget, Inv, TypeOK, ExchangeInv, AnchorInv, BudgetInv, Initialized, ServerTime
  <2>10. ASSUME NEW t \in Thread, NoteInteraction(t) \/ NoteFails(t) PROVE Inv'
    <3>1. /\ tick' = tick /\ anchor' = anchor /\ UNCHANGED exchange
          /\ pc' = [pc EXCEPT ![t] = "idle"]
          /\ latched' = (latched \/ Exceeded)
          /\ overrun' = (overrun \/ (last > 0 /\ ServerTime - noted > MaxOffline + MaxRoundTrip))
          /\ \/ last' = Now /\ noted' = ServerTime
             \/ last' = last /\ noted' = noted
      BY <2>10 DEF NoteInteraction, NoteFails, Goto
    <3>2. Initialized
      BY <2>10 DEF NoteInteraction, NoteFails, Now
    <3>3. /\ Now \in Nat
          /\ Now >= ServerTime - (MaxRoundTrip + 1) \div 2
          /\ Now <= ServerTime + MaxRoundTrip \div 2
      BY <3>2, Reading DEF Inv
    <3>4. /\ ServerTime \in Nat /\ last \in Nat /\ noted \in Nat
          /\ latched \in BOOLEAN /\ overrun \in BOOLEAN
      BY <2>1 DEF ServerTime, Inv, TypeOK
    <3>5. TypeOK'
      BY <3>1, <3>3, <3>4 DEF exchange, Inv, TypeOK, Exceeded
    <3>6. ExchangeInv' /\ AnchorInv'
      BY <3>1 DEF exchange, Inv, TypeOK, ExchangeInv, AnchorInv, Initialized
    <3>7. last > 0 /\ ServerTime - noted > MaxOffline + MaxRoundTrip => Exceeded
      BY <2>1, <3>3, <3>4 DEF Inv, BudgetInv, Exceeded
    <3>8. overrun' => latched'
      BY <3>1, <3>7 DEF Inv, BudgetInv
    <3>9. ServerTime' = ServerTime
      BY <3>1 DEF ServerTime
    <3>10. BudgetInv'
      BY <2>1, <3>1, <3>3, <3>4, <3>8, <3>9 DEF Inv, BudgetInv
    <3> QED  BY <3>5, <3>6, <3>10 DEF Inv
  <2>12. ASSUME NEW t \in Thread, RotateKey(t) PROVE Inv'
    <3>1. /\ UNCHANGED <<tick, anchor, started, received, stamp, latched, noted, overrun>>
          /\ last' = 0 /\ pc' = [pc EXCEPT ![t] = "rotated"]
      BY <2>12 DEF RotateKey, Goto, exchange
    <3> QED  BY <3>1 DEF Inv, TypeOK, ExchangeInv, AnchorInv, BudgetInv, Initialized, ServerTime
  <2>13. ASSUME NEW t \in Thread, ResetLatch(t) PROVE Inv'
    <3>1. /\ UNCHANGED <<tick, anchor, started, received, stamp, last, noted>>
          /\ latched' = FALSE /\ overrun' = FALSE /\ pc' = [pc EXCEPT ![t] = "idle"]
      BY <2>13 DEF ResetLatch, Goto, exchange
    <3> QED  BY <3>1 DEF Inv, TypeOK, ExchangeInv, AnchorInv, BudgetInv, Initialized, ServerTime
  <2>11. CASE UNCHANGED vars
    BY <2>11
       DEF vars, exchange, budget, Inv, TypeOK, ExchangeInv, AnchorInv, BudgetInv,
           Initialized, ServerTime
  <2> QED
    BY <2>2, <2>3, <2>4, <2>5, <2>6, <2>7, <2>8, <2>9, <2>10, <2>11, <2>12, <2>13
    DEF Next
<1> QED  BY <1>1, <1>2, PTL DEF Spec

(* The clock, the exchanges and the budget keep their types. *)
THEOREM TypeCorrect == Spec => []TypeOK
  BY Invariance, PTL DEF Inv

(* The trusted clock is within half a round trip of the server's. *)
THEOREM ClockIsAccurate == Spec => []ClockAccurate
<1>1. Inv => ClockAccurate
  BY Reading DEF Inv, ClockAccurate
<1> QED  BY <1>1, Invariance, PTL

(* Operations are refused once the budget has run out on the server's      *)
(* clock, up to one round trip.                                            *)
THEOREM OfflineBudgetIsKept == Spec => []OfflineBudgetKept
<1>1. Inv => OfflineBudgetKept
  <2> SUFFICES ASSUME Inv, ~OfflineLocked
               PROVE  ServerTime - noted <= MaxOffline + MaxRoundTrip
    BY DEF OfflineBudgetKept
  <2>1. Initialized /\ last > 0 /\ Now - last <= MaxOffline
    <3>1. ~(Now <= 0) /\ ~(last <= 0) /\ ~(Now - last > MaxOffline)
      BY DEF OfflineLocked
    <3>2. Initialized
      BY <3>1 DEF Now
    <3>3. Now \in Nat /\ last \in Nat /\ MaxOffline \in Nat
      BY <3>2, Reading, TimeAssumption DEF Inv, TypeOK
    <3> QED  BY <3>1, <3>2, <3>3
  <2>2. /\ Now \in Nat
        /\ Now >= ServerTime - (MaxRoundTrip + 1) \div 2
    BY <2>1, Reading DEF Inv
  <2>3. last <= noted + MaxRoundTrip \div 2
    BY <2>1 DEF Inv, BudgetInv
  <2>4. /\ ServerTime \in Nat /\ noted \in Nat /\ last \in Nat /\ MaxOffline \in Nat
        /\ MaxRoundTrip \in Nat
        /\ MaxRoundTrip \div 2 \in Nat /\ (MaxRoundTrip + 1) \div 2 \in Nat
        /\ MaxRoundTrip \div 2 + (MaxRoundTrip + 1) \div 2 = MaxRoundTrip
    BY TimeAssumption, Halves DEF Inv, TypeOK, ServerTime
  <2> QED  BY <2>1, <2>2, <2>3, <2>4
<1> QED  BY <1>1, Invariance, PTL

(* A process that overran its budget stays locked. *)
THEOREM OverrunIsLocked == Spec => []OverrunStaysLocked
<1>1. Inv => OverrunStaysLocked
  BY DEF Inv, BudgetInv, OverrunStaysLocked, OfflineLocked
<1> QED  BY <1>1, Invariance, PTL
=============================================================================
