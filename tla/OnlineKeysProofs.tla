--------------------------- MODULE OnlineKeysProofs ---------------------------
(***************************************************************************)
(* Proofs about OnlineKeys for any number of threads, ids and previous     *)
(* keys.  The key of a request in flight is followed through the ring: the *)
(* number of keys behind it never exceeds the number of key changes since  *)
(* the request was sent, so it cannot be dropped before MaxPrevious + 1 of *)
(* them.                                                                   *)
(***************************************************************************)
EXTENDS OnlineKeys, SequenceTheorems, TLAPS

(* A ring of keys without repeated ids. *)
DistinctIds(s) == \A i, j \in 1..Len(s) : s[i].id = s[j].id => i = j

(* What the parts of RemoveAt(s, c) are. *)
LEMMA RemoveAtFacts ==
  ASSUME NEW s \in Seq(Key), NEW c \in 1..Len(s)
  PROVE  /\ RemoveAt(s, c) \in Seq(Key)
         /\ Len(RemoveAt(s, c)) = Len(s) - 1
         /\ \A j \in 1..(Len(s) - 1) :
               RemoveAt(s, c)[j] = IF j < c THEN s[j] ELSE s[j + 1]
<1> DEFINE front == SubSeq(s, 1, c - 1)
           back == SubSeq(s, c + 1, Len(s))
<1>1. RemoveAt(s, c) = front \o back  BY DEF RemoveAt
<1>2. /\ front \in Seq(Key) /\ Len(front) = c - 1
      /\ \A i \in 1..(c - 1) : front[i] = s[i]
  <2>1. \A i \in 1..(c - 1) : s[i] \in Key  OBVIOUS
  <2>2. /\ front \in Seq(Key)
        /\ Len(front) = IF 1 <= c - 1 THEN c - 1 - 1 + 1 ELSE 0
        /\ \A i \in 1..(c - 1 - 1 + 1) : front[i] = s[1 + i - 1]
    BY <2>1, SubSeqProperties
  <2> HIDE DEF front
  <2> QED  BY <2>2
<1>3. /\ back \in Seq(Key) /\ Len(back) = Len(s) - c
      /\ \A i \in 1..(Len(s) - c) : back[i] = s[c + i]
  <2>1. \A i \in (c + 1)..Len(s) : s[i] \in Key  OBVIOUS
  <2>2. /\ back \in Seq(Key)
        /\ Len(back) = IF c + 1 <= Len(s) THEN Len(s) - (c + 1) + 1 ELSE 0
        /\ \A i \in 1..(Len(s) - (c + 1) + 1) : back[i] = s[(c + 1) + i - 1]
    BY <2>1, SubSeqProperties
  <2> HIDE DEF back
  <2> QED  BY <2>2
<1> HIDE DEF front, back
<1>4. /\ front \o back \in Seq(Key)
      /\ Len(front \o back) = Len(front) + Len(back)
      /\ \A i \in 1..(Len(front) + Len(back)) : (front \o back)[i] =
            IF i <= Len(front) THEN front[i] ELSE back[i - Len(front)]
  BY <1>2, <1>3, ConcatProperties
<1>5. \A j \in 1..(Len(s) - 1) :
         (front \o back)[j] = IF j < c THEN s[j] ELSE s[j + 1]
  BY <1>2, <1>3, <1>4
<1> QED  BY <1>1, <1>2, <1>3, <1>4, <1>5

(* Removing the entry of an id keeps the other keys, in order: no key has  *)
(* more keys behind it than before.                                        *)
LEMMA WithoutIdFacts ==
  ASSUME NEW s \in Seq(Key), DistinctIds(s), NEW id \in KeyId
  PROVE  LET w == WithoutId(s, id) IN
         /\ w \in Seq(Key)
         /\ Len(w) <= Len(s)
         /\ DistinctIds(w)
         /\ \A j \in 1..Len(w) : /\ w[j].id # id
                                 /\ \E i \in 1..Len(s) : w[j] = s[i]
         /\ \A i \in 1..Len(s) : s[i].id # id =>
              \E j \in 1..Len(w) : w[j] = s[i] /\ Len(w) - j <= Len(s) - i
<1> DEFINE w == WithoutId(s, id)
<1>1. CASE ~\E i \in 1..Len(s) : s[i].id = id
  <2>1. w = s  BY <1>1 DEF WithoutId
  <2> QED  BY <1>1, <2>1
<1>2. CASE \E i \in 1..Len(s) : s[i].id = id
  <2> DEFINE P(i) == s[i].id = id /\ \A m \in DOMAIN s : m < i => s[m].id # id
             c == CHOOSE i \in DOMAIN s : P(i)
  <2>1. c \in 1..Len(s) /\ s[c].id = id
    <3>1. \E i \in DOMAIN s : P(i)  BY <1>2 DEF DistinctIds
    <3> QED  BY <3>1
  <2>2. w = RemoveAt(s, c)  BY <1>2 DEF WithoutId
  <2> HIDE DEF c
  <2> HIDE DEF w
  <2>4. w \in Seq(Key) /\ Len(w) = Len(s) - 1  BY <2>1, <2>2, RemoveAtFacts
  <2>5. \A j \in 1..Len(w) : w[j] = IF j < c THEN s[j] ELSE s[j + 1]
    BY <2>1, <2>2, <2>4, RemoveAtFacts
  <2>6. \A i \in 1..Len(s) : i # c => s[i].id # id  BY <2>1 DEF DistinctIds
  <2> DEFINE at(j) == IF j < c THEN j ELSE j + 1
  <2>a. c \in Nat /\ Len(s) \in Nat  BY <2>1
  <2>b. \A j \in 1..Len(w) : at(j) \in 1..Len(s) /\ at(j) # c  BY <2>a, <2>4
  <2>c. \A j \in 1..Len(w) : w[j] = s[at(j)]  BY <2>5
  <2>d. \A i, j \in 1..Len(w) : at(i) = at(j) => i = j  BY <2>a
  <2> HIDE DEF at
  <2>7. DistinctIds(w)  BY <2>b, <2>c, <2>d DEF DistinctIds
  <2>8. \A j \in 1..Len(w) : /\ w[j].id # id
                             /\ \E i \in 1..Len(s) : w[j] = s[i]
    BY <2>b, <2>c, <2>6
  <2>9. ASSUME NEW i \in 1..Len(s), s[i].id # id
        PROVE  \E j \in 1..Len(w) : w[j] = s[i] /\ Len(w) - j <= Len(s) - i
    <3>1. i # c  BY <2>1, <2>9
    <3>2. CASE i < c  BY <3>2, <2>1, <2>4, <2>5
    <3>3. CASE i > c
      <4>1. i - 1 \in 1..Len(w) /\ w[i - 1] = s[i]  BY <3>3, <2>1, <2>4, <2>5
      <4> QED  BY <4>1, <2>4
    <3> QED  BY <3>1, <3>2, <3>3, <2>1
  <2>10. Len(w) <= Len(s)  BY <2>4
  <2> QED  BY <2>4, <2>7, <2>8, <2>9, <2>10 DEF w
<1> QED  BY <1>1, <1>2
(* Keeping the newest MaxPrevious keys of a ring that is one too long      *)
(* drops only its oldest key.                                              *)
LEMMA NewestKeysFacts ==
  ASSUME NEW s \in Seq(Key), Len(s) <= MaxPrevious + 1, DistinctIds(s)
  PROVE  LET n == NewestKeys(s) IN
         /\ n \in Seq(Key)
         /\ Len(n) <= MaxPrevious
         /\ DistinctIds(n)
         /\ \A j \in 1..Len(n) : \E i \in 1..Len(s) : n[j] = s[i]
         /\ \A i \in 1..Len(s) : Len(s) - i < MaxPrevious =>
              \E j \in 1..Len(n) : n[j] = s[i] /\ Len(n) - j = Len(s) - i
<1> USE OnlineKeysAssumption
<1> DEFINE n == NewestKeys(s)
<1>1. CASE ~(Len(s) > MaxPrevious)
  <2>1. n = s  BY <1>1 DEF NewestKeys
  <2> QED  BY <1>1, <2>1
<1>2. CASE Len(s) > MaxPrevious
  <2>1. Len(s) = MaxPrevious + 1  BY <1>2
  <2>2. n = SubSeq(s, 2, Len(s))  BY <2>1, <1>2 DEF NewestKeys
  <2>3. \A i \in 2..Len(s) : s[i] \in Key  OBVIOUS
  <2>4. /\ n \in Seq(Key)
        /\ Len(n) = IF 2 <= Len(s) THEN Len(s) - 2 + 1 ELSE 0
        /\ \A i \in 1..(Len(s) - 2 + 1) : n[i] = s[2 + i - 1]
    BY <2>2, <2>3, SubSeqProperties
  <2> HIDE DEF n
  <2>5. Len(n) = MaxPrevious /\ \A i \in 1..MaxPrevious : n[i] = s[i + 1]
    BY <2>1, <2>4
  <2>6. DistinctIds(n)  BY <2>1, <2>4, <2>5 DEF DistinctIds
  <2>7. \A j \in 1..Len(n) : \E i \in 1..Len(s) : n[j] = s[i]
    BY <2>1, <2>5
  <2>8. ASSUME NEW i \in 1..Len(s), Len(s) - i < MaxPrevious
        PROVE  \E j \in 1..Len(n) : n[j] = s[i] /\ Len(n) - j = Len(s) - i
    <3>1. i - 1 \in 1..Len(n) /\ n[i - 1] = s[i]  BY <2>1, <2>5, <2>8
    <3> QED  BY <3>1, <2>1, <2>5
  <2>9. Len(n) <= MaxPrevious  BY <2>5
  <2> QED  BY <2>4, <2>6, <2>7, <2>8, <2>9 DEF n
<1> QED  BY <1>1, <1>2

(* Installing a key with a new id: the keys that stay have at most one     *)
(* more key behind them, and only a key that had MaxPrevious - 1 others    *)
(* behind it is dropped.                                                   *)
LEMMA PreviousAfterFacts ==
  ASSUME TypeOK, KeyRingSound, NEW key \in Key, ~RenewsCurrent(key)
  PROVE  LET p == PreviousAfter(key) IN
         /\ p \in Seq(Key)
         /\ Len(p) <= MaxPrevious
         /\ DistinctIds(p)
         /\ \A j \in 1..Len(p) : p[j].id # key.id
         /\ current = NoKey => p = <<>>
         /\ \A j \in 1..Len(p) :
              p[j] = current \/ \E i \in 1..Len(previous) : p[j] = previous[i]
         /\ current # NoKey /\ MaxPrevious > 0 =>
              Len(p) \in 1..MaxPrevious /\ p[Len(p)] = current
         /\ \A i \in 1..Len(previous) :
              previous[i].id # key.id /\ Len(previous) - i + 1 < MaxPrevious =>
                \E j \in 1..Len(p) :
                  p[j] = previous[i] /\ Len(p) - j <= Len(previous) - i + 1
<1> USE OnlineKeysAssumption
<1> DEFINE w == WithoutId(previous, key.id)
           a == Append(w, current)
           p == PreviousAfter(key)
<1>0. previous \in Seq(Key) /\ DistinctIds(previous) /\ key.id \in KeyId
  BY DEF TypeOK, KeyRingSound, DistinctIds, Key
<1>1. /\ w \in Seq(Key)
      /\ Len(w) <= Len(previous)
      /\ DistinctIds(w)
      /\ \A j \in 1..Len(w) : /\ w[j].id # key.id
                              /\ \E i \in 1..Len(previous) : w[j] = previous[i]
      /\ \A i \in 1..Len(previous) : previous[i].id # key.id =>
           \E j \in 1..Len(w) : w[j] = previous[i] /\ Len(w) - j <= Len(previous) - i
  BY <1>0, WithoutIdFacts
<1>2. CASE current = NoKey
  <2>1. p = w  BY <1>2 DEF PreviousAfter
  <2>2. previous = <<>>  BY <1>2 DEF KeyRingSound
  <2> HIDE DEF w, p
  <2>3. Len(w) = 0 /\ w = <<>>  BY <2>2, <1>1
  <2> QED  BY <1>1, <1>2, <2>1, <2>2, <2>3 DEF p
<1>3. CASE current # NoKey
  <2>1. p = NewestKeys(a)  BY <1>3 DEF PreviousAfter
  <2>2. current \in Key /\ current.id # key.id
    BY <1>3 DEF TypeOK, RenewsCurrent
  <2>3. \A i \in 1..Len(previous) : previous[i].id # current.id
    BY <1>3, <1>0 DEF KeyRingSound
  <2> HIDE DEF w, p
  <2>4. /\ a \in Seq(Key) /\ Len(a) = Len(w) + 1
        /\ \A i \in 1..Len(w) : a[i] = w[i]
        /\ a[Len(w) + 1] = current
    BY <1>1, <2>2, AppendProperties
  <2> HIDE DEF a
  <2>5. Len(a) <= MaxPrevious + 1  BY <1>0, <1>1, <2>4 DEF KeyRingSound
  <2>a. Len(w) \in Nat  BY <1>1
  <2>b. \A i \in 1..Len(a) : \/ i \in 1..Len(w) /\ a[i] = w[i]
                             \/ i = Len(w) + 1 /\ a[i] = current
    BY <2>a, <2>4
  <2>c. \A j \in 1..Len(w) : w[j].id # key.id  BY <1>1
  <2>d. \A j \in 1..Len(w) : \E i \in 1..Len(previous) : w[j] = previous[i]
    BY <1>1
  <2>6. DistinctIds(a)
    <3>1. \A i \in 1..Len(w) : w[i].id # current.id  BY <2>3, <2>d
    <3>2. \A i, j \in 1..Len(w) : w[i].id = w[j].id => i = j
      BY <1>1 DEF DistinctIds
    <3> QED  BY <3>1, <3>2, <2>b DEF DistinctIds
  <2>7. /\ p \in Seq(Key) /\ Len(p) <= MaxPrevious /\ DistinctIds(p)
        /\ \A j \in 1..Len(p) : \E i \in 1..Len(a) : p[j] = a[i]
        /\ \A i \in 1..Len(a) : Len(a) - i < MaxPrevious =>
             \E j \in 1..Len(p) : p[j] = a[i] /\ Len(p) - j = Len(a) - i
    BY <2>1, <2>4, <2>5, <2>6, NewestKeysFacts
  <2>8. \A i \in 1..Len(a) : a[i].id # key.id  BY <2>2, <2>b, <2>c
  <2>9. \A j \in 1..Len(p) : p[j].id # key.id  BY <2>7, <2>8
  <2>10. \A j \in 1..Len(p) :
           p[j] = current \/ \E i \in 1..Len(previous) : p[j] = previous[i]
    <3>1. \A i \in 1..Len(a) :
            a[i] = current \/ \E m \in 1..Len(previous) : a[i] = previous[m]
      BY <2>b, <2>d
    <3> QED  BY <3>1, <2>7
  <2>11. ASSUME MaxPrevious > 0
         PROVE  Len(p) \in 1..MaxPrevious /\ p[Len(p)] = current
    <3>1. Len(a) \in 1..Len(a) /\ Len(a) - Len(a) < MaxPrevious
      BY <2>4, <1>1, <2>11
    <3>2. PICK j \in 1..Len(p) : p[j] = a[Len(a)] /\ Len(p) - j = Len(a) - Len(a)
      BY <2>7, <3>1
    <3> QED  BY <2>4, <2>7, <3>2
  <2>12. ASSUME NEW i \in 1..Len(previous), previous[i].id # key.id,
                Len(previous) - i + 1 < MaxPrevious
         PROVE  \E j \in 1..Len(p) :
                  p[j] = previous[i] /\ Len(p) - j <= Len(previous) - i + 1
    <3>1. PICK m \in 1..Len(w) : w[m] = previous[i] /\ Len(w) - m <= Len(previous) - i
      BY <1>1, <2>12
    <3>2. m \in 1..Len(a) /\ a[m] = previous[i] /\ Len(a) - m <= Len(previous) - i + 1
      BY <1>1, <2>4, <3>1
    <3>3. Len(a) - m < MaxPrevious  BY <1>0, <2>4, <2>12, <3>2
    <3> QED  BY <2>7, <3>2, <3>3
  <2> QED  BY <1>3, <2>7, <2>9, <2>10, <2>11, <2>12 DEF p
<1> QED  BY <1>2, <1>3
-----------------------------------------------------------------------------
SameBinding(k, l) == k.id = l.id /\ k.material = l.material

(* Whoever owns refresh_mutex_ is making a request, and only the owner is. *)
SingleRefresher ==
    \A t \in Thread : pc[t] \in {"time", "manifest"} <=> refresher = t

(* A key is installed only after the clock was set. *)
SyncedBeforeKey ==
    /\ current # NoKey => synced
    /\ \A t \in Thread : pc[t] = "manifest" => synced

(* The key of a request in flight is the current key, or is followed by    *)
(* fewer keys than there were changes since the request was sent.          *)
Tracked(t) ==
    /\ used[t] \in Key
    /\ \/ changes[t] > MaxPrevious
       \/ current # NoKey /\ SameBinding(current, used[t])
       \/ \E j \in 1..Len(previous) :
             SameBinding(previous[j], used[t]) /\ Len(previous) - j < changes[t]

AllTracked == \A t \in Thread : pc[t] = "inflight" => Tracked(t)

Inv ==
    /\ TypeOK
    /\ KeyRingSound
    /\ SingleRefresher
    /\ SyncedBeforeKey
    /\ NoRedundantFetch
    /\ AllTracked

(* The initial state satisfies the invariant. *)
LEMMA InitInv == Init => Inv
<1> SUFFICES ASSUME Init PROVE Inv  OBVIOUS
<1> USE OnlineKeysAssumption DEF Init
<1>1. TypeOK
  <2>1. previous \in Seq(Key) /\ now \in Nat  OBVIOUS
  <2>2. pc \in [Thread -> Place]  BY DEF Place
  <2>3. used \in [Thread -> Key \cup {NoKey}]  OBVIOUS
  <2>4. changes \in [Thread -> Nat] /\ force \in [Thread -> BOOLEAN]  OBVIOUS
  <2> QED  BY <2>1, <2>2, <2>3, <2>4 DEF TypeOK
<1>2. KeyRingSound  BY DEF KeyRingSound
<1>3. SingleRefresher  BY DEF SingleRefresher
<1>4. SyncedBeforeKey  BY DEF SyncedBeforeKey
<1>5. NoRedundantFetch  BY DEF NoRedundantFetch
<1>6. AllTracked  BY DEF AllTracked
<1> QED  BY <1>1, <1>2, <1>3, <1>4, <1>5, <1>6 DEF Inv

(* Installing a key keeps the ring sound and every request's key tracked. *)
LEMMA ManifestReplyInv ==
  ASSUME Inv, NEW t \in Thread, NEW key \in Key, ManifestReply(t, key)
  PROVE  Inv'
<1> USE OnlineKeysAssumption DEF Inv
<1>0. key # NoKey /\ current' = key  BY DEF ManifestReply, InstallKey
<1>1. CASE RenewsCurrent(key)
  <2>1. /\ UNCHANGED <<previous, changes, synced, now, force, used>>
        /\ current # NoKey /\ SameBinding(current, key)
    BY <1>1 DEF ManifestReply, InstallKey, RenewsCurrent, Rebinds, SameBinding
  <2>2. TypeOK'  BY <1>0, <2>1 DEF TypeOK, ManifestReply, Goto, AfterRefresh, Place
  <2>3. KeyRingSound'  BY <1>0, <2>1 DEF KeyRingSound, SameBinding
  <2>4. \A r \in Thread : pc'[r] = "inflight" => pc[r] = "inflight"
    BY DEF ManifestReply, Goto, AfterRefresh, TypeOK
  <2>5. AllTracked'
    BY <1>0, <2>1, <2>4 DEF AllTracked, Tracked, SameBinding
  <2> QED  BY <1>0, <2>1, <2>2, <2>3, <2>5
      DEF SingleRefresher, SyncedBeforeKey, NoRedundantFetch, ManifestReply,
          Goto, AfterRefresh, TypeOK
<1>2. CASE ~RenewsCurrent(key)
  <2> DEFINE p == PreviousAfter(key)
  <2>1. /\ previous' = p /\ changes' = Aged
        /\ UNCHANGED <<synced, now, force, used>>
    BY <1>2 DEF ManifestReply, InstallKey
  <2>2. /\ p \in Seq(Key)
        /\ Len(p) <= MaxPrevious
        /\ DistinctIds(p)
        /\ \A j \in 1..Len(p) : p[j].id # key.id
        /\ current # NoKey /\ MaxPrevious > 0 =>
              Len(p) \in 1..MaxPrevious /\ p[Len(p)] = current
        /\ \A i \in 1..Len(previous) :
              previous[i].id # key.id /\ Len(previous) - i + 1 < MaxPrevious =>
                \E j \in 1..Len(p) :
                  p[j] = previous[i] /\ Len(p) - j <= Len(previous) - i + 1
    BY <1>2, PreviousAfterFacts
  <2> HIDE DEF p
  <2>3. changes' \in [Thread -> Nat]  BY <2>1 DEF TypeOK, Aged
  <2>4. TypeOK'
    BY <1>0, <2>1, <2>2, <2>3 DEF TypeOK, ManifestReply, Goto, AfterRefresh, Place
  <2>5. KeyRingSound'  BY <1>0, <2>1, <2>2 DEF KeyRingSound, DistinctIds
  <2>6. ASSUME NEW r \in Thread, pc'[r] = "inflight" PROVE Tracked(r)'
    <3>1. pc[r] = "inflight"
      BY <2>6 DEF ManifestReply, Goto, AfterRefresh, TypeOK
    <3>2. used[r] \in Key /\ used'[r] = used[r] /\ Tracked(r)
      BY <3>1, <2>1 DEF AllTracked, Tracked
    <3>3. changes[r] \in Nat
          /\ changes'[r] = IF changes[r] > MaxPrevious THEN changes[r] ELSE changes[r] + 1
      BY <2>1 DEF TypeOK, Aged
    <3>4. CASE changes[r] >= MaxPrevious
      <4>1. changes'[r] > MaxPrevious  BY <3>3, <3>4
      <4> QED  BY <3>2, <4>1 DEF Tracked
    <3>5. CASE changes[r] < MaxPrevious /\ current # NoKey /\ SameBinding(current, used[r])
      <4>1. Len(p) \in 1..Len(p) /\ p[Len(p)] = current /\ Len(p) - Len(p) < changes'[r]
        BY <2>2, <3>3, <3>5
      <4>2. \E j \in 1..Len(p) : SameBinding(p[j], used[r]) /\ Len(p) - j < changes'[r]
        BY <3>5, <4>1
      <4> QED  BY <2>1, <3>2, <4>2 DEF Tracked
    <3>6. ASSUME changes[r] < MaxPrevious, NEW i \in 1..Len(previous),
                 SameBinding(previous[i], used[r]), Len(previous) - i < changes[r]
          PROVE  Tracked(r)'
      <4>1. CASE previous[i].id = key.id
        <5>1. SameBinding(key, previous[i])
          <6>1. previous[i].id = key.id /\ \A m \in DOMAIN previous : m < i => previous[m].id # key.id
            BY <4>1 DEF KeyRingSound, TypeOK
          <6>2. ~Rebinds(key) /\ ~RenewsCurrent(key)
            BY <1>2 DEF ManifestReply, InstallKey
          <6>3. i \in DOMAIN previous  BY DEF TypeOK
          <6>4. previous[i].material = key.material
            BY <6>1, <6>2, <6>3 DEF Rebinds, RenewsCurrent
          <6> QED  BY <4>1, <6>4 DEF SameBinding
        <5>2. SameBinding(key, used[r])  BY <5>1, <3>6 DEF SameBinding
        <5> QED  BY <1>0, <3>2, <5>2 DEF Tracked
      <4>2. CASE previous[i].id # key.id
        <5>1. Len(previous) \in Nat  BY DEF TypeOK
        <5>. Len(previous) - i + 1 < MaxPrevious  BY <3>3, <3>6, <5>1
        <5>2. PICK j \in 1..Len(p) :
                p[j] = previous[i] /\ Len(p) - j <= Len(previous) - i + 1
          BY <2>2, <4>2
        <5>3. Len(p) - j < changes'[r]  BY <2>2, <3>3, <3>6, <5>1, <5>2
        <5>4. \E m \in 1..Len(p) : SameBinding(p[m], used[r]) /\ Len(p) - m < changes'[r]
          BY <3>6, <5>2, <5>3
        <5> QED  BY <2>1, <3>2, <5>4 DEF Tracked
      <4> QED  BY <4>1, <4>2
    <3> QED  BY <3>2, <3>3, <3>4, <3>5, <3>6 DEF Tracked
  <2>7. AllTracked'  BY <2>6 DEF AllTracked
  <2> QED  BY <1>0, <2>1, <2>4, <2>5, <2>7
      DEF SingleRefresher, SyncedBeforeKey, NoRedundantFetch, ManifestReply,
          Goto, AfterRefresh, TypeOK
<1> QED  BY <1>1, <1>2
(* A step that changes neither the ring, the counters nor the keys in use, *)
(* and sends nothing, leaves the ring sound and the keys tracked.          *)
LEMMA RingUnchanged ==
  ASSUME Inv, UNCHANGED <<current, previous, changes, used>>,
         \A r \in Thread : pc'[r] = "inflight" => pc[r] = "inflight"
  PROVE  KeyRingSound' /\ AllTracked'
  BY DEF Inv, KeyRingSound, AllTracked, Tracked, SameBinding

(* The steps of a request before it is sent, and of a refresh. *)
LEMMA RefreshStepInv ==
  ASSUME Inv, NEW t \in Thread,
         \/ BeginRequest(t) \/ BeginForcedRefresh(t) \/ LockStep(t)
         \/ SyncReply(t) \/ SyncFails(t) \/ TimeReply(t)
         \/ \E transient \in BOOLEAN : RefreshFails(t, transient)
  PROVE  Inv'
<1> USE OnlineKeysAssumption
    DEF Inv, TypeOK, ring, Goto, EnterRefresh, AfterRefresh,
        SingleRefresher, SyncedBeforeKey, NoRedundantFetch, HasFreshKey, KeyIsFresh
<1>1. CASE BeginRequest(t)
  <2>1. KeyRingSound' /\ AllTracked'  BY <1>1, RingUnchanged DEF BeginRequest
  <2> QED  BY <1>1, <2>1 DEF BeginRequest, Place
<1>2. CASE BeginForcedRefresh(t)
  <2>1. KeyRingSound' /\ AllTracked'  BY <1>2, RingUnchanged DEF BeginForcedRefresh
  <2> QED  BY <1>2, <2>1 DEF BeginForcedRefresh, Place
<1>3. CASE AcquireRefreshLock(t)
  <2>1. KeyRingSound' /\ AllTracked'  BY <1>3, RingUnchanged DEF AcquireRefreshLock
  <2>2. CASE ~force[t] /\ HasFreshKey
    BY <1>3, <2>1, <2>2 DEF AcquireRefreshLock, Place
  <2>3. CASE ~(~force[t] /\ HasFreshKey)
    <3>1. /\ refresher = NoThread /\ refresher' = t
          /\ pc' = [pc EXCEPT ![t] = IF synced THEN "manifest" ELSE "time"]
          /\ UNCHANGED <<ring, synced, now, force, used, changes>>
      BY <1>3, <2>3 DEF AcquireRefreshLock
    <3>2. TypeOK'  BY <3>1 DEF Place
    <3>3. SingleRefresher'  BY <3>1
    <3>4. SyncedBeforeKey'  BY <3>1
    <3>5. NoRedundantFetch'  BY <2>3, <3>1
    <3> QED  BY <2>1, <3>2, <3>3, <3>4, <3>5
  <2> QED  BY <2>2, <2>3
<1>4. CASE GiveUpLock(t)
  <2>1. KeyRingSound' /\ AllTracked'  BY <1>4, RingUnchanged DEF GiveUpLock
  <2> QED  BY <1>4, <2>1 DEF GiveUpLock, Place
<1>5. CASE SyncReply(t)
  <2>1. KeyRingSound' /\ AllTracked'  BY <1>5, RingUnchanged DEF SyncReply
  <2> QED  BY <1>5, <2>1 DEF SyncReply, Place
<1>6. CASE SyncFails(t)
  <2>1. KeyRingSound' /\ AllTracked'  BY <1>6, RingUnchanged DEF SyncFails
  <2> QED  BY <1>6, <2>1 DEF SyncFails, Place
<1>7. CASE TimeReply(t)
  <2>1. KeyRingSound' /\ AllTracked'  BY <1>7, RingUnchanged DEF TimeReply
  <2> QED  BY <1>7, <2>1 DEF TimeReply, Place
<1>8. ASSUME NEW transient \in BOOLEAN, RefreshFails(t, transient) PROVE Inv'
  <2>1. KeyRingSound' /\ AllTracked'  BY <1>8, RingUnchanged DEF RefreshFails
  <2> QED  BY <1>8, <2>1 DEF RefreshFails, Place
<1> QED  BY <1>1, <1>2, <1>3, <1>4, <1>5, <1>6, <1>7, <1>8 DEF LockStep

(* The steps of a request from its first attempt to its response. *)
LEMMA RequestStepInv ==
  ASSUME Inv, NEW t \in Thread,
         \/ SendAttempt(t) \/ KeyUnusable(t) \/ RetryAttempt(t)
         \/ AcceptResponse(t) \/ RejectResponse(t)
  PROVE  Inv'
<1> USE OnlineKeysAssumption
    DEF Inv, TypeOK, ring, Goto, SingleRefresher, SyncedBeforeKey,
        NoRedundantFetch, HasFreshKey, KeyIsFresh
<1>1. CASE SendAttempt(t)
  <2>1. used' = [used EXCEPT ![t] = current] /\ current \in Key
    BY <1>1 DEF SendAttempt, CurrentKey
  <2>2. KeyRingSound'  BY <1>1 DEF SendAttempt, KeyRingSound
  <2>3. ASSUME NEW r \in Thread, pc'[r] = "inflight" PROVE Tracked(r)'
    <3>1. CASE r = t  BY <1>1, <2>1, <3>1 DEF SendAttempt, Tracked, SameBinding
    <3>2. CASE r # t  BY <1>1, <2>1, <2>3, <3>2 DEF SendAttempt, AllTracked, Tracked, SameBinding
    <3> QED  BY <3>1, <3>2
  <2>4. AllTracked'  BY <2>3 DEF AllTracked
  <2> QED  BY <1>1, <2>1, <2>2, <2>4 DEF SendAttempt, Place
<1>2. CASE KeyUnusable(t) \/ RetryAttempt(t) \/ AcceptResponse(t) \/ RejectResponse(t)
  <2>1. KeyRingSound' /\ AllTracked'
    BY <1>2, RingUnchanged
    DEF KeyUnusable, RetryAttempt, AcceptResponse, RejectResponse
  <2> QED
    BY <1>2, <2>1
    DEF KeyUnusable, RetryAttempt, AcceptResponse, RejectResponse, Place
<1> QED  BY <1>1, <1>2

(* Every step preserves the invariant. *)
LEMMA NextInv == Inv /\ [Next]_vars => Inv'
<1> SUFFICES ASSUME Inv, [Next]_vars PROVE Inv'  OBVIOUS
<1> USE OnlineKeysAssumption
<1>1. CASE Tick
  <2>1. KeyRingSound' /\ AllTracked'  BY <1>1, RingUnchanged DEF Tick, ring, Inv
  <2>2. now \in Nat /\ now' \in Nat /\ now' > now  BY <1>1 DEF Tick, Inv, TypeOK
  <2>3. NoRedundantFetch'
    BY <1>1, <2>2 DEF Tick, ring, Inv, NoRedundantFetch, HasFreshKey, KeyIsFresh, TypeOK, Key
  <2> QED
    BY <1>1, <2>1, <2>2, <2>3 DEF Tick, ring, Inv, TypeOK, SingleRefresher, SyncedBeforeKey
<1>2. ASSUME NEW t \in Thread,
             \/ BeginRequest(t) \/ BeginForcedRefresh(t)
             \/ LockStep(t) \/ Answer(t)
             \/ SendAttempt(t) \/ KeyUnusable(t)
             \/ RetryAttempt(t) \/ AcceptResponse(t) \/ RejectResponse(t)
      PROVE  Inv'
  <2>1. ASSUME NEW key \in Published, ManifestReply(t, key) PROVE Inv'
    <3>1. key \in Key  BY DEF Published, Key, Inv, TypeOK
    <3> QED  BY <2>1, <3>1, ManifestReplyInv
  <2> QED  BY <1>2, <2>1, RefreshStepInv, RequestStepInv DEF Answer
<1>3. CASE UNCHANGED vars
  BY <1>3
  DEF vars, Inv, TypeOK, KeyRingSound, SingleRefresher, SyncedBeforeKey,
      NoRedundantFetch, HasFreshKey, KeyIsFresh, AllTracked, Tracked, SameBinding
<1> QED  BY <1>1, <1>2, <1>3 DEF Next

(* The invariant holds in every reachable state. *)
THEOREM Invariance == Spec => []Inv
  BY InitInv, NextInv, PTL DEF Spec

(* Type correctness of the key ring and of the threads using it. *)
THEOREM TypeCorrect == Spec => []TypeOK
<1>1. Inv => TypeOK  BY DEF Inv
<1> QED  BY <1>1, Invariance, PTL

(* The ring stays bounded and free of repeated ids. *)
THEOREM RingIsSound == Spec => []KeyRingSound
<1>1. Inv => KeyRingSound  BY DEF Inv
<1> QED  BY <1>1, Invariance, PTL

(* A queued thread does not repeat the refresh it waited for. *)
THEOREM NoFetchIsRedundant == Spec => []NoRedundantFetch
<1>1. Inv => NoRedundantFetch  BY DEF Inv
<1> QED  BY <1>1, Invariance, PTL

(* For every ring size, the key of a request in flight survives that many  *)
(* key changes.                                                            *)
THEOREM InFlightKeysAreFound == Spec => []InFlightKeyFound
<1>1. Inv => InFlightKeyFound
  <2> SUFFICES ASSUME Inv, NEW t \in Thread, pc[t] = "inflight", changes[t] <= MaxPrevious
               PROVE  KnowsKey(used[t])
    BY DEF InFlightKeyFound
  <2> USE OnlineKeysAssumption DEF Inv, TypeOK, KeyRingSound
  <2>1. Tracked(t)  BY DEF AllTracked
  <2>2. CASE current # NoKey /\ SameBinding(current, used[t])
    BY <2>2 DEF KnowsKey, FindKey, SameBinding
  <2>3. ASSUME NEW j \in 1..Len(previous), SameBinding(previous[j], used[t])
        PROVE  KnowsKey(used[t])
    <3>1. ~(current # NoKey /\ current.id = used[t].id)  BY <2>3 DEF SameBinding
    <3>2. \A m \in DOMAIN previous : m > j => previous[m].id # used[t].id
      BY <2>3 DEF SameBinding
    <3>3. previous[j] \in FindKey(used[t].id)
      BY <2>3, <3>1, <3>2 DEF FindKey, SameBinding
    <3> QED  BY <2>3, <3>3 DEF KnowsKey, SameBinding
  <2> QED  BY <2>1, <2>2, <2>3 DEF Tracked
<1> QED  BY <1>1, Invariance, PTL

(* refresh_mutex_ is owned exactly while its owner makes a request: no     *)
(* way out of refresh_online_keys, by an answer, a failure or a key that   *)
(* is still good, takes the lock along.                                    *)
THEOREM LockIsNotLeaked == Spec => []SingleRefresher
<1>1. Inv => SingleRefresher  BY DEF Inv
<1> QED  BY <1>1, Invariance, PTL

(* How far refresh_online_keys is from its return. *)
StepsToReturn(place) ==
    CASE place = "lock" -> 3 [] place = "time" -> 2 [] place = "manifest" -> 1 [] OTHER -> 0

(* A thread in refresh_online_keys only goes forward, and one that gives   *)
(* the lock back has left.                                                 *)
RefreshAdvances ==
    [][\A t \in Thread :
        /\ StepsToReturn(pc[t]) > 0 /\ pc'[t] # pc[t]
               => StepsToReturn(pc'[t]) < StepsToReturn(pc[t])
        /\ refresher = t /\ refresher' # t
               => refresher' = NoThread /\ StepsToReturn(pc'[t]) = 0]_vars

(* A refresh takes at most three steps of its own, and the lock goes from  *)
(* its owner to nobody before anyone else has it.                          *)
THEOREM RefreshesAdvance == Spec => RefreshAdvances
<1> DEFINE Forward(t) ==
        /\ StepsToReturn(pc[t]) > 0 /\ pc'[t] # pc[t]
               => StepsToReturn(pc'[t]) < StepsToReturn(pc[t])
        /\ refresher = t /\ refresher' # t
               => refresher' = NoThread /\ StepsToReturn(pc'[t]) = 0
<1>1. ASSUME Inv, Next, NEW t \in Thread PROVE Forward(t)
  <2> USE <1>1, OnlineKeysAssumption
      DEF Inv, TypeOK, SingleRefresher, Goto, StepsToReturn, EnterRefresh, AfterRefresh
  <2>1. CASE Tick  BY <2>1 DEF Tick
  <2>2. ASSUME NEW r \in Thread,
               \/ BeginRequest(r) \/ BeginForcedRefresh(r) \/ SyncReply(r) \/ SyncFails(r)
        PROVE  Forward(t)
    BY <2>2 DEF BeginRequest, BeginForcedRefresh, SyncReply, SyncFails
  <2>3. ASSUME NEW r \in Thread, LockStep(r) PROVE Forward(t)
    BY <2>3 DEF LockStep, AcquireRefreshLock, GiveUpLock
  <2>4. ASSUME NEW r \in Thread, TimeReply(r) \/ \E transient \in BOOLEAN : RefreshFails(r, transient)
        PROVE  Forward(t)
    BY <2>4 DEF TimeReply, RefreshFails
  <2>5. ASSUME NEW r \in Thread, NEW key \in Published, ManifestReply(r, key)
        PROVE  Forward(t)
    BY <2>5 DEF ManifestReply
  <2>6. ASSUME NEW r \in Thread,
               \/ SendAttempt(r) \/ KeyUnusable(r) \/ RetryAttempt(r)
               \/ AcceptResponse(r) \/ RejectResponse(r)
        PROVE  Forward(t)
    BY <2>6 DEF SendAttempt, KeyUnusable, RetryAttempt, AcceptResponse, RejectResponse
  <2> QED  BY <2>1, <2>2, <2>3, <2>4, <2>5, <2>6 DEF Next, Answer
<1>2. Inv /\ [Next]_vars => [\A t \in Thread : Forward(t)]_vars
  BY <1>1
<1> QED  BY <1>2, Invariance, PTL DEF Spec, RefreshAdvances

(* A key found in the ring is one of its entries. *)
LEMMA FoundInRing ==
  ASSUME NEW i, NEW k \in FindKey(i)
  PROVE  /\ k.id = i
         /\ (current # NoKey /\ k = current) \/ \E j \in DOMAIN previous : k = previous[j]
  BY DEF FindKey

(* An id that stays in the ring keeps its key material. *)
THEOREM IdsAreNotRebound == Spec => NoRebind
<1> DEFINE Stable == \A i \in KeyId : \A k \in FindKey(i) : \A l \in FindKey(i)' :
                        k.material = l.material
<1>1. ASSUME Inv, NEW t \in Thread, NEW key \in Key, ManifestReply(t, key) PROVE Stable
  <2> SUFFICES ASSUME NEW i \in KeyId, NEW k \in FindKey(i), NEW l \in FindKey(i)'
               PROVE  k.material = l.material
    OBVIOUS
  <2> USE OnlineKeysAssumption DEF Inv
  <2>1. /\ k.id = i
        /\ (current # NoKey /\ k = current) \/ \E j \in DOMAIN previous : k = previous[j]
    BY FoundInRing
  <2>2. /\ l.id = i
        /\ l = current' \/ \E j \in DOMAIN previous' : l = previous'[j]
    BY DEF FindKey
  <2>3. current' = key /\ ~Rebinds(key)  BY <1>1 DEF ManifestReply, InstallKey
  <2>4. DOMAIN previous = 1..Len(previous)  BY <1>1 DEF TypeOK
  <2>5. CASE l = key
    <3>1. CASE current # NoKey /\ k = current
      BY <2>1, <2>2, <2>3, <2>5, <3>1 DEF Rebinds
    <3>2. ASSUME NEW j \in DOMAIN previous, k = previous[j] PROVE k.material = l.material
      <4>1. ~(current # NoKey /\ current.id = key.id)
        BY <1>1, <2>1, <2>2, <2>5, <3>2 DEF KeyRingSound
      <4>2. \A m \in DOMAIN previous : m < j => previous[m].id # key.id
        BY <1>1, <2>1, <2>2, <2>4, <2>5, <3>2 DEF KeyRingSound
      <4> QED  BY <2>1, <2>2, <2>3, <2>5, <3>2, <4>1, <4>2 DEF Rebinds
    <3> QED  BY <2>1, <3>1, <3>2
  <2>6. ASSUME NEW j \in DOMAIN previous', l = previous'[j] PROVE k.material = l.material
    <3>1. l = current \/ \E m \in DOMAIN previous : l = previous[m]
      <4>1. CASE RenewsCurrent(key)
        BY <1>1, <2>6, <4>1 DEF ManifestReply, InstallKey
      <4>2. CASE ~RenewsCurrent(key)
        <5> DEFINE p == PreviousAfter(key)
        <5>1. previous' = p  BY <1>1, <4>2 DEF ManifestReply, InstallKey
        <5>2. /\ p \in Seq(Key)
              /\ \A m \in 1..Len(p) :
                   p[m] = current \/ \E n \in 1..Len(previous) : p[m] = previous[n]
          BY <1>1, <4>2, PreviousAfterFacts
        <5> HIDE DEF p
        <5> QED  BY <2>4, <2>6, <5>1, <5>2
      <4> QED  BY <4>1, <4>2
    <3>2. current = NoKey => previous = <<>>  BY <1>1 DEF KeyRingSound
    <3>3. CASE current = NoKey
      <4>1. DOMAIN previous = {}  BY <3>2, <3>3, <2>4
      <4> QED  BY <2>1, <3>3, <4>1
    <3>4. CASE current # NoKey
      BY <1>1, <2>1, <2>2, <3>1, <3>4 DEF KeyRingSound
    <3> QED  BY <3>3, <3>4
  <2> QED  BY <2>2, <2>3, <2>5, <2>6
<1>2. ASSUME Inv, UNCHANGED ring PROVE Stable
  <2> SUFFICES ASSUME NEW i \in KeyId, NEW k \in FindKey(i), NEW l \in FindKey(i)'
               PROVE  k.material = l.material
    OBVIOUS
  <2>1. l \in FindKey(i)  BY <1>2 DEF FindKey, ring
  <2>2. /\ k.id = i /\ l.id = i
        /\ (current # NoKey /\ k = current) \/ \E j \in DOMAIN previous : k = previous[j]
        /\ (current # NoKey /\ l = current) \/ \E j \in DOMAIN previous : l = previous[j]
    BY <2>1, FoundInRing
  <2> QED  BY <1>2, <2>2 DEF Inv, KeyRingSound
<1>3. Inv /\ [Next]_vars => [Stable]_vars
  <2> SUFFICES ASSUME Inv, Next PROVE Stable
    OBVIOUS
  <2>1. CASE UNCHANGED ring  BY <1>2, <2>1
  <2>2. ASSUME NEW t \in Thread, NEW key \in Published, ManifestReply(t, key) PROVE Stable
    <3>1. key \in Key  BY OnlineKeysAssumption DEF Published, Key, Inv, TypeOK
    <3> QED  BY <1>1, <2>2, <3>1
  <2>3. UNCHANGED ring \/ \E t \in Thread : \E key \in Published : ManifestReply(t, key)
    BY DEF Next, Tick, BeginRequest, BeginForcedRefresh, LockStep, AcquireRefreshLock,
           GiveUpLock, Answer, SyncReply, SyncFails, TimeReply, RefreshFails,
           SendAttempt, KeyUnusable, RetryAttempt, AcceptResponse, RejectResponse
  <2> QED  BY <2>1, <2>2, <2>3
<1> HIDE DEF Stable
<1>4. Spec => [][Stable]_vars  BY <1>3, Invariance, PTL DEF Spec
<1> QED  BY <1>4 DEF NoRebind, Stable
=============================================================================
