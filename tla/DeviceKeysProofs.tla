-------------------------- MODULE DeviceKeysProofs --------------------------
(***************************************************************************)
(* Proofs about DeviceKeys for any number of threads, processes and keys.  *)
(* The argument: a key is pending, an identity, or given up, and these do  *)
(* not mix; only identities sign requests, so the service holds one key,   *)
(* whose place on the device is known.                                     *)
(***************************************************************************)
EXTENDS DeviceKeys, TLAPS

Settled == {"emplace", "committed", "adopted"}

(* The keys that are or were the device's identity: named by identity.bin, *)
(* loaded or about to be, or the signer of a request.                      *)
Identities ==
    {k \in Key : \/ k = file
                 \/ \E p \in Process : k = loaded[p]
                 \/ \E t \in Thread : k = key[t] /\ pc[t] \in Settled
                 \/ \E t \in Thread : k = signer[t]
                 \/ \E m \in requests : k = m.signer}

(* t has created its key and not yet written it to identity.bin. *)
Pending(t) == pc[t] = "creating" \/ Rotating(t)

(* The keys of rotations under way, and of those that were given up. *)
Offered == givenUp \cup {k \in Key : \E t \in Thread : Rotating(t) /\ key[t] = k}

(* The key of a thread is set while it is needed. *)
LocalInv ==
    \A t \in Thread :
        /\ Pending(t) \/ pc[t] \in Settled => key[t] \in Key
        /\ Rotating(t) \/ pc[t] \in {"committed", "adopted"} => loaded[ProcessOf[t]] # NoKey

(* Identities exist, and pending keys exist and are nobody else's. *)
KeysInv ==
    /\ Identities \subseteq store \ givenUp
    /\ \A t \in Thread : Pending(t) => key[t] \in store \ (givenUp \cup Identities)
    /\ \A t, u \in Thread : Pending(t) /\ Pending(u) /\ key[t] = key[u] => t = u

(* The first identity is made under the mutex, while there is none. *)
FirstInv ==
    /\ \A t \in Thread : pc[t] \in {"loading", "creating"} => mutex = t
    /\ \A t \in Thread : pc[t] = "creating" => file = NoKey
    /\ ~rotated => Identities \subseteq {file}
    /\ file = NoKey => ~rotated /\ accepted = {}

(* An identity that is not registered is the first one. *)
LineageInv == \A k \in Identities \ accepted : k = file /\ accepted = {}

(* The service knows one key, and it is known where that key is. *)
ServiceInv ==
    /\ \A j, k \in known : j = k
    /\ accepted # {} => \E k \in known : k = file \/ k \in Offered
    /\ \A t \in Thread : Pending(t) /\ key[t] \in accepted => Rotating(t) /\ key[t] \in known
    /\ \A t \in Thread : pc[t] = "answered" => key[t] \in accepted
    /\ \A m \in requests : m.key \notin accepted => m.key \in Offered

(* verify_authz has let, or will let, the thread's answer through, whatever *)
(* becomes of the identity.                                                *)
Storable(t) ==
    pc[t] = "verified" \/ (pc[t] \in {"check", "response"} /\ ProcessOf[t] \in named)

(* Sessions, and the threads about to store one. *)
SessionInv ==
    /\ \A p \in Process : session[p] # NoKey => loaded[p] # NoKey
    /\ \A t \in Thread : pc[t] \in {"check", "response", "verified"} =>
          signer[t] # NoKey /\ loaded[ProcessOf[t]] # NoKey
    /\ \A t \in Thread : Storable(t) =>
          \/ signer[t] \in {loaded[ProcessOf[t]]} \cup overtaken[ProcessOf[t]]
          \/ \E u \in Thread : ProcessOf[u] = ProcessOf[t] /\ pc[u] = "adopted"

Inv ==
    /\ TypeOK /\ LocalInv
    /\ KeysInv /\ FirstInv /\ LineageInv /\ ServiceInv
    /\ SessionInv /\ SessionOfThisDevice

-----------------------------------------------------------------------------
(* No identity, no pending key and no session to begin with. *)
LEMMA InitInv == Init => Inv
<1> SUFFICES ASSUME Init PROVE Inv
  OBVIOUS
<1> USE DeviceKeysAssumption
<1>1. TypeOK /\ LocalInv
  BY DEF Init, TypeOK, LocalInv, Pending, Rotating, Settled, RotationPlace, Place,
     MaybeKey
<1>2. Identities = {}
  BY DEF Init, Identities, Settled
<1>3. KeysInv /\ FirstInv /\ LineageInv
  BY <1>2 DEF Init, KeysInv, FirstInv, LineageInv, Pending, Rotating, RotationPlace
<1>4. ServiceInv
  BY DEF Init, ServiceInv, Pending, Rotating, RotationPlace
<1>5. SessionInv /\ SessionOfThisDevice
  BY DEF Init, SessionInv, Storable, SessionOfThisDevice
<1> QED  BY <1>1, <1>3, <1>4, <1>5 DEF Inv

(* Only the owner of the mutex loads or creates. *)
LEMMA BeginLoadInv ==
    ASSUME Inv, NEW t \in Thread, BeginLoad(t) PROVE Inv'
<1> USE DeviceKeysAssumption DEF Inv, TypeOK, MaybeKey, BeginLoad, Goto, Return, disk,
      memory, locals, service
<1>1. TypeOK' /\ LocalInv'
  BY DEF LocalInv, Place, Settled, Pending, Rotating, RotationPlace
<1>2. Identities' \subseteq Identities
  BY DEF LocalInv, Identities, Settled, Pending, Rotating, RotationPlace
<1>3. KeysInv'
  BY <1>2 DEF LocalInv, KeysInv, Pending, Rotating, RotationPlace
<1>4. FirstInv' /\ LineageInv'
  BY <1>2 DEF LocalInv, KeysInv, FirstInv, LineageInv, ServiceInv, Pending, Rotating,
     RotationPlace
<1>5. ServiceInv'
  BY <1>2 DEF LocalInv, KeysInv, FirstInv, LineageInv, ServiceInv, Offered, Pending,
     Rotating, RotationPlace
<1>6. SessionInv' /\ SessionOfThisDevice'
  BY DEF LocalInv, SessionInv, Storable, SessionOfThisDevice
<1> QED  BY <1>1, <1>3, <1>4, <1>5, <1>6

(* The key that is about to be loaded is the key of identity.bin. *)
LEMMA LoadExistingInv ==
    ASSUME Inv, NEW t \in Thread, LoadExisting(t) PROVE Inv'
<1> USE DeviceKeysAssumption DEF Inv, TypeOK, MaybeKey, LoadExisting, Goto, Return,
      disk, memory, locals, service
<1>1. TypeOK' /\ LocalInv'
  BY DEF LocalInv, Place, Settled, Pending, Rotating, RotationPlace
<1>2. Identities' \subseteq Identities
  BY DEF LocalInv, Identities, Settled, Pending, Rotating, RotationPlace
<1>3. KeysInv'
  BY <1>2 DEF LocalInv, KeysInv, Pending, Rotating, RotationPlace
<1>4. FirstInv' /\ LineageInv'
  BY <1>2 DEF LocalInv, KeysInv, FirstInv, LineageInv, ServiceInv, Pending, Rotating,
     RotationPlace
<1>5. ServiceInv'
  BY <1>2 DEF LocalInv, KeysInv, FirstInv, LineageInv, ServiceInv, Offered, Pending,
     Rotating, RotationPlace
<1>6. SessionInv' /\ SessionOfThisDevice'
  BY DEF LocalInv, SessionInv, Storable, SessionOfThisDevice
<1> QED  BY <1>1, <1>3, <1>4, <1>5, <1>6

(* A key is created only if there is no identity.bin, and it is new. *)
LEMMA CreateKeyInv ==
    ASSUME Inv, NEW t \in Thread, NEW k \in Key, CreateKey(t, k) PROVE Inv'
<1> USE DeviceKeysAssumption DEF Inv, TypeOK, MaybeKey, CreateKey, Goto, Return, disk,
      memory, locals, service
<1>0. file = NoKey
  BY DEF KeysInv, Identities
<1>1. TypeOK' /\ LocalInv'
  BY DEF LocalInv, Place, Settled, Pending, Rotating, RotationPlace
<1>2. Identities' \subseteq Identities
  BY DEF LocalInv, Identities, Settled, Pending, Rotating, RotationPlace
<1>3. KeysInv'
  BY <1>2 DEF LocalInv, KeysInv, Pending, Rotating, RotationPlace
<1>4. FirstInv' /\ LineageInv'
  BY <1>2, <1>0 DEF LocalInv, KeysInv, FirstInv, LineageInv, ServiceInv, Pending,
     Rotating, RotationPlace
<1>5. ServiceInv'
  BY <1>2 DEF LocalInv, KeysInv, FirstInv, LineageInv, ServiceInv, Offered, Pending,
     Rotating, RotationPlace
<1>6. SessionInv' /\ SessionOfThisDevice'
  BY DEF LocalInv, SessionInv, Storable, SessionOfThisDevice
<1> QED  BY <1>1, <1>3, <1>4, <1>5, <1>6

(* The first identity: before it, nothing was registered. *)
LEMMA WriteMetadataInv ==
    ASSUME Inv, NEW t \in Thread, WriteMetadata(t) PROVE Inv'
<1> USE DeviceKeysAssumption DEF Inv, TypeOK, MaybeKey, WriteMetadata, Goto, Return,
      disk, memory, locals, service
<1>1. TypeOK' /\ LocalInv'
  BY DEF LocalInv, Place, Settled, Pending, Rotating, RotationPlace
<1>2. Identities' \subseteq Identities \cup {key[t]} /\ key[t] \in Identities'
  BY DEF LocalInv, Identities, Settled, Pending, Rotating, RotationPlace
<1>3. KeysInv'
  BY <1>2 DEF LocalInv, KeysInv, Pending, Rotating, RotationPlace
<1>4. FirstInv' /\ LineageInv'
  BY <1>2 DEF LocalInv, KeysInv, FirstInv, LineageInv, ServiceInv, Pending, Rotating,
     RotationPlace
<1>5. ServiceInv'
  BY <1>2 DEF LocalInv, KeysInv, FirstInv, LineageInv, ServiceInv, Offered, Pending,
     Rotating, RotationPlace
<1>6. SessionInv' /\ SessionOfThisDevice'
  BY DEF LocalInv, SessionInv, Storable, SessionOfThisDevice
<1> QED  BY <1>1, <1>3, <1>4, <1>5, <1>6

(* A key that was created and not written is no identity. *)
LEMMA LoadFailsInv ==
    ASSUME Inv, NEW t \in Thread, LoadFails(t) PROVE Inv'
<1> USE DeviceKeysAssumption DEF Inv, TypeOK, MaybeKey, LoadFails, Goto, Return, disk,
      memory, locals, service
<1>1. TypeOK' /\ LocalInv'
  BY DEF LocalInv, Place, Settled, Pending, Rotating, RotationPlace
<1>2. Identities' \subseteq Identities
  BY DEF LocalInv, Identities, Settled, Pending, Rotating, RotationPlace
<1>3. KeysInv'
  BY <1>2 DEF LocalInv, KeysInv, Pending, Rotating, RotationPlace
<1>4. FirstInv' /\ LineageInv'
  BY <1>2 DEF LocalInv, KeysInv, FirstInv, LineageInv, ServiceInv, Pending, Rotating,
     RotationPlace
<1>5. ServiceInv'
  BY <1>2 DEF LocalInv, KeysInv, FirstInv, LineageInv, ServiceInv, Offered, Pending,
     Rotating, RotationPlace
<1>6. SessionInv' /\ SessionOfThisDevice'
  BY DEF LocalInv, SessionInv, Storable, SessionOfThisDevice
<1> QED  BY <1>1, <1>3, <1>4, <1>5, <1>6

(* An identity that is overwritten by another one is overtaken. *)
LEMMA EmplaceInv ==
    ASSUME Inv, NEW t \in Thread, Emplace(t) PROVE Inv'
<1> USE DeviceKeysAssumption DEF Inv, TypeOK, MaybeKey, Emplace, Goto, Return, disk,
      memory, locals, service
<1>0. \/ loaded[ProcessOf[t]] = NoKey
      \/ loaded'[ProcessOf[t]] = loaded[ProcessOf[t]]
      \/ loaded[ProcessOf[t]] \in overtaken'[ProcessOf[t]]
  OBVIOUS
<1>a. \A q \in Process : overtaken[q] \subseteq overtaken'[q]
                             /\ (q # ProcessOf[t] => loaded'[q] = loaded[q])
  OBVIOUS
<1>b. \A u \in Thread : pc[u] = "adopted" => pc'[u] = "adopted"
  OBVIOUS
<1>1. TypeOK' /\ LocalInv'
  <2>1. ({loaded[ProcessOf[t]]} \ {NoKey, key[t]}) \in SUBSET (Key \cup {NoKey})
    OBVIOUS
  <2>2. overtaken' \in [Process -> SUBSET (Key \cup {NoKey})]
    BY <2>1
  <2> QED  BY <2>2 DEF LocalInv, Place, Settled, Pending, Rotating, RotationPlace
<1>2. Identities' \subseteq Identities
  BY DEF LocalInv, Identities, Settled, Pending, Rotating, RotationPlace
<1>3. KeysInv'
  BY <1>2 DEF LocalInv, KeysInv, Pending, Rotating, RotationPlace
<1>4. FirstInv' /\ LineageInv'
  BY <1>2 DEF LocalInv, KeysInv, FirstInv, LineageInv, ServiceInv, Pending, Rotating,
     RotationPlace
<1>5. ServiceInv'
  BY <1>2 DEF LocalInv, KeysInv, FirstInv, LineageInv, ServiceInv, Offered, Pending,
     Rotating, RotationPlace
<1>6. SessionInv' /\ SessionOfThisDevice'
  <2> DEFINE p == ProcessOf[t]
  <2>1. \A q \in Process : session'[q] # NoKey => loaded'[q] # NoKey
    BY DEF LocalInv, SessionInv, Settled
  <2>2. \A u \in Thread : pc'[u] \in {"check", "response", "verified"} =>
          pc[u] = pc'[u] /\ u # t /\ signer'[u] = signer[u] /\ signer[u] # NoKey
          /\ loaded'[ProcessOf[u]] # NoKey
    BY DEF LocalInv, SessionInv, Settled
  <2>3. ASSUME NEW u \in Thread, Storable(u)'
        PROVE  \/ signer'[u] \in {loaded'[ProcessOf[u]]} \cup overtaken'[ProcessOf[u]]
               \/ \E v \in Thread : ProcessOf[v] = ProcessOf[u] /\ pc'[v] = "adopted"
    <3>1. CASE ProcessOf[u] = p
      BY <1>0, <1>a, <1>b, <2>2, <2>3, <3>1 DEF SessionInv, Storable
    <3>2. CASE ProcessOf[u] # p
      <4>1. UNCHANGED <<loaded[ProcessOf[u]], overtaken[ProcessOf[u]]>>
        BY <3>2
      <4> QED  BY <2>2, <2>3, <3>2, <4>1 DEF SessionInv, Storable
    <3> QED  BY <3>1, <3>2
  <2>4. SessionInv'
    BY <2>1, <2>2, <2>3 DEF SessionInv
  <2>5. SessionOfThisDevice'
    BY <1>0, <1>a, <1>b DEF SessionOfThisDevice, SessionInv
  <2> QED  BY <2>4, <2>5
<1> QED  BY <1>1, <1>3, <1>4, <1>5, <1>6

(* Requests are signed by an identity. *)
LEMMA BeginCheckInv ==
    ASSUME Inv, NEW t \in Thread, BeginCheck(t) PROVE Inv'
<1> USE DeviceKeysAssumption DEF Inv, TypeOK, MaybeKey, BeginCheck, Goto, Return, disk,
      memory, locals, service
<1>1. TypeOK' /\ LocalInv'
  BY DEF LocalInv, Place, Settled, Pending, Rotating, RotationPlace
<1>2. Identities' \subseteq Identities
  BY DEF LocalInv, Identities, Settled, Pending, Rotating, RotationPlace
<1>3. KeysInv'
  BY <1>2 DEF LocalInv, KeysInv, Pending, Rotating, RotationPlace
<1>4. FirstInv' /\ LineageInv'
  BY <1>2 DEF LocalInv, KeysInv, FirstInv, LineageInv, ServiceInv, Pending, Rotating,
     RotationPlace
<1>5. ServiceInv'
  BY <1>2 DEF LocalInv, KeysInv, FirstInv, LineageInv, ServiceInv, Offered, Pending,
     Rotating, RotationPlace
<1>6. SessionInv' /\ SessionOfThisDevice'
  BY DEF LocalInv, SessionInv, Storable, SessionOfThisDevice
<1> QED  BY <1>1, <1>3, <1>4, <1>5, <1>6

(* The service registers the first identity, or one that it knows. *)
LEMMA ServiceRegistersInv ==
    ASSUME Inv, NEW t \in Thread, ServiceRegisters(t) PROVE Inv'
<1> USE DeviceKeysAssumption DEF Inv, TypeOK, MaybeKey, ServiceRegisters, Goto, Return,
      disk, memory, locals, service
<1>0. signer[t] \in Identities /\ signer[t] \in made
  BY DEF SessionInv, Identities, KeysInv
<1>a. \/ known' = known /\ accepted' = accepted /\ signer[t] \in accepted
      \/ signer[t] = file /\ accepted = {} /\ known' = {file} /\ accepted' = {file}
  BY <1>0 DEF LineageInv
<1>1. TypeOK' /\ LocalInv'
  BY <1>0 DEF LocalInv, Place, Settled, Pending, Rotating, RotationPlace
<1>2. Identities' \subseteq Identities
  BY DEF LocalInv, Identities, Settled, Pending, Rotating, RotationPlace
<1>3. KeysInv'
  BY <1>2 DEF LocalInv, KeysInv, Pending, Rotating, RotationPlace
<1>4. FirstInv' /\ LineageInv'
  BY <1>2, <1>0, <1>a DEF LocalInv, KeysInv, FirstInv, LineageInv, ServiceInv, Pending,
     Rotating, RotationPlace
<1>5. ServiceInv'
  <2>1. CASE known' = known /\ accepted' = accepted
    BY <2>1, <1>2 DEF LocalInv, ServiceInv, Offered, Pending, Rotating, RotationPlace
  <2>2. CASE signer[t] = file /\ accepted = {} /\ known' = {file} /\ accepted' = {file}
    <3>1. Offered' = Offered
      BY DEF Offered, Pending, Rotating, RotationPlace
    <3>2. \A u \in Thread : Pending(u) => key[u] # file
      BY <1>0, <2>2 DEF KeysInv
    <3>3. \A u \in Thread : Pending(u)' => Pending(u)
      BY DEF Pending, Rotating, RotationPlace
    <3>4. \A u \in Thread : pc'[u] # "answered"
      BY <2>2 DEF ServiceInv
    <3> QED  BY <2>2, <3>1, <3>2, <3>3, <3>4 DEF ServiceInv
  <2> QED  BY <1>a, <2>1, <2>2
<1>6. SessionInv' /\ SessionOfThisDevice'
  BY DEF LocalInv, SessionInv, Storable, SessionOfThisDevice
<1> QED  BY <1>1, <1>3, <1>4, <1>5, <1>6

(* An answer passes for the identity of the moment, or for the given name. *)
LEMMA VerifyAuthzInv ==
    ASSUME Inv, NEW t \in Thread, VerifyAuthz(t) PROVE Inv'
<1> USE DeviceKeysAssumption DEF Inv, TypeOK, MaybeKey, VerifyAuthz, Goto, Return,
      disk, memory, locals, service
<1>1. TypeOK' /\ LocalInv'
  BY DEF LocalInv, Place, Settled, Pending, Rotating, RotationPlace
<1>2. Identities' \subseteq Identities
  BY DEF LocalInv, Identities, Settled, Pending, Rotating, RotationPlace
<1>3. KeysInv'
  BY <1>2 DEF LocalInv, KeysInv, Pending, Rotating, RotationPlace
<1>4. FirstInv' /\ LineageInv'
  BY <1>2 DEF LocalInv, KeysInv, FirstInv, LineageInv, ServiceInv, Pending, Rotating,
     RotationPlace
<1>5. ServiceInv'
  BY <1>2 DEF LocalInv, KeysInv, FirstInv, LineageInv, ServiceInv, Offered, Pending,
     Rotating, RotationPlace
<1>6. SessionInv' /\ SessionOfThisDevice'
  BY DEF LocalInv, SessionInv, Storable, SessionOfThisDevice
<1> QED  BY <1>1, <1>3, <1>4, <1>5, <1>6

(* The session is for the identity that verify_authz saw. *)
LEMMA StoreSessionInv ==
    ASSUME Inv, NEW t \in Thread, StoreSession(t) PROVE Inv'
<1> USE DeviceKeysAssumption DEF Inv, TypeOK, MaybeKey, StoreSession, Goto, Return,
      disk, memory, locals, service
<1>1. TypeOK' /\ LocalInv'
  BY DEF LocalInv, Place, Settled, Pending, Rotating, RotationPlace
<1>2. Identities' \subseteq Identities
  BY DEF LocalInv, Identities, Settled, Pending, Rotating, RotationPlace
<1>3. KeysInv'
  BY <1>2 DEF LocalInv, KeysInv, Pending, Rotating, RotationPlace
<1>4. FirstInv' /\ LineageInv'
  BY <1>2 DEF LocalInv, KeysInv, FirstInv, LineageInv, ServiceInv, Pending, Rotating,
     RotationPlace
<1>5. ServiceInv'
  BY <1>2 DEF LocalInv, KeysInv, FirstInv, LineageInv, ServiceInv, Offered, Pending,
     Rotating, RotationPlace
<1>6. SessionInv' /\ SessionOfThisDevice'
  BY DEF LocalInv, SessionInv, Storable, SessionOfThisDevice
<1> QED  BY <1>1, <1>3, <1>4, <1>5, <1>6

(* A failed request leaves nothing behind. *)
LEMMA CheckFailsInv ==
    ASSUME Inv, NEW t \in Thread, CheckFails(t) PROVE Inv'
<1> USE DeviceKeysAssumption DEF Inv, TypeOK, MaybeKey, CheckFails, Goto, Return, disk,
      memory, locals, service
<1>1. TypeOK' /\ LocalInv'
  BY DEF LocalInv, Place, Settled, Pending, Rotating, RotationPlace
<1>2. Identities' \subseteq Identities
  BY DEF LocalInv, Identities, Settled, Pending, Rotating, RotationPlace
<1>3. KeysInv'
  BY <1>2 DEF LocalInv, KeysInv, Pending, Rotating, RotationPlace
<1>4. FirstInv' /\ LineageInv'
  BY <1>2 DEF LocalInv, KeysInv, FirstInv, LineageInv, ServiceInv, Pending, Rotating,
     RotationPlace
<1>5. ServiceInv'
  BY <1>2 DEF LocalInv, KeysInv, FirstInv, LineageInv, ServiceInv, Offered, Pending,
     Rotating, RotationPlace
<1>6. SessionInv' /\ SessionOfThisDevice'
  BY DEF LocalInv, SessionInv, Storable, SessionOfThisDevice
<1> QED  BY <1>1, <1>3, <1>4, <1>5, <1>6

(* Without a session there is nothing to show. *)
LEMMA SessionExpiresInv ==
    ASSUME Inv, NEW p \in Process, SessionExpires(p) PROVE Inv'
<1> USE DeviceKeysAssumption DEF Inv, TypeOK, MaybeKey, SessionExpires, Goto, Return,
      disk, memory, locals, service
<1>1. TypeOK' /\ LocalInv'
  BY DEF LocalInv, Place, Settled, Pending, Rotating, RotationPlace
<1>2. Identities' \subseteq Identities
  BY DEF LocalInv, Identities, Settled, Pending, Rotating, RotationPlace
<1>3. KeysInv'
  BY <1>2 DEF LocalInv, KeysInv, Pending, Rotating, RotationPlace
<1>4. FirstInv' /\ LineageInv'
  BY <1>2 DEF LocalInv, KeysInv, FirstInv, LineageInv, ServiceInv, Pending, Rotating,
     RotationPlace
<1>5. ServiceInv'
  BY <1>2 DEF LocalInv, KeysInv, FirstInv, LineageInv, ServiceInv, Offered, Pending,
     Rotating, RotationPlace
<1>6. SessionInv' /\ SessionOfThisDevice'
  BY DEF LocalInv, SessionInv, Storable, SessionOfThisDevice
<1> QED  BY <1>1, <1>3, <1>4, <1>5, <1>6

(* A pending key is new, and a session implies an identity. *)
LEMMA BeginRotationInv ==
    ASSUME Inv, NEW t \in Thread, NEW k \in Key, BeginRotation(t, k) PROVE Inv'
<1> USE DeviceKeysAssumption DEF Inv, TypeOK, MaybeKey, BeginRotation, Goto, Return,
      disk, memory, locals, service
<1>1. TypeOK' /\ LocalInv'
  <2>1. TypeOK'
    BY DEF Place, RotationPlace
  <2>2. loaded[ProcessOf[t]] # NoKey
    BY DEF SessionInv
  <2>3. LocalInv'
    BY <2>2 DEF LocalInv, Settled, Pending, Rotating, RotationPlace
  <2> QED  BY <2>1, <2>3
<1>2. Identities' \subseteq Identities
  BY DEF LocalInv, Identities, Settled, Pending, Rotating, RotationPlace
<1>3. KeysInv'
  BY <1>2 DEF LocalInv, KeysInv, Pending, Rotating, RotationPlace
<1>4. FirstInv' /\ LineageInv'
  BY <1>2 DEF LocalInv, KeysInv, FirstInv, LineageInv, ServiceInv, Pending, Rotating,
     RotationPlace
<1>5. ServiceInv'
  BY <1>2 DEF LocalInv, KeysInv, FirstInv, LineageInv, ServiceInv, Offered, Pending,
     Rotating, RotationPlace
<1>6. SessionInv' /\ SessionOfThisDevice'
  BY DEF LocalInv, SessionInv, Storable, SessionOfThisDevice
<1> QED  BY <1>1, <1>3, <1>4, <1>5, <1>6

(* Rotation requests are signed by an identity. *)
LEMMA SendRotationInv ==
    ASSUME Inv, NEW t \in Thread, SendRotation(t) PROVE Inv'
<1> USE DeviceKeysAssumption DEF Inv, TypeOK, MaybeKey, SendRotation, Goto, Return,
      disk, memory, locals, service
<1>0. [signer |-> loaded[ProcessOf[t]], key |-> key[t]] \in [signer : Key, key : Key]
  BY DEF LocalInv, Pending, Rotating, RotationPlace
<1>1. TypeOK' /\ LocalInv'
  BY <1>0 DEF LocalInv, Place, Settled, Pending, Rotating, RotationPlace
<1>2. Identities' \subseteq Identities
  <2>1. \A k : (\E m \in requests' : k = m.signer)
                => k = loaded[ProcessOf[t]] \/ \E m \in requests : k = m.signer
    BY <1>0
  <2> QED  BY <2>1 DEF Identities, Settled
<1>3. KeysInv'
  BY <1>2 DEF LocalInv, KeysInv, Pending, Rotating, RotationPlace
<1>4. FirstInv' /\ LineageInv'
  BY <1>2 DEF LocalInv, KeysInv, FirstInv, LineageInv, ServiceInv, Pending, Rotating,
     RotationPlace
<1>5. ServiceInv'
  BY <1>2 DEF LocalInv, KeysInv, FirstInv, LineageInv, ServiceInv, Offered, Pending,
     Rotating, RotationPlace
<1>6. SessionInv' /\ SessionOfThisDevice'
  BY DEF LocalInv, SessionInv, Storable, SessionOfThisDevice
<1> QED  BY <1>1, <1>3, <1>4, <1>5, <1>6

(* The one key that the service knows is replaced by an offered key. *)
LEMMA ServiceRotatesInv ==
    ASSUME Inv, NEW m \in requests, ServiceRotates(m) PROVE Inv'
<1> USE DeviceKeysAssumption DEF Inv, TypeOK, MaybeKey, ServiceRotates, Goto, Return,
      disk, memory, locals, service
<1>0. m.key \in Offered /\ m.key \in made
  BY DEF ServiceInv, Offered, KeysInv, Pending
<1>a. m.signer \in Identities /\ known = {m.signer}
  BY DEF Identities, ServiceInv
<1>1. TypeOK' /\ LocalInv'
  BY <1>0 DEF LocalInv, Place, Settled, Pending, Rotating, RotationPlace
<1>2. Identities' \subseteq Identities
  BY DEF LocalInv, Identities, Settled, Pending, Rotating, RotationPlace
<1>3. KeysInv'
  BY <1>2 DEF LocalInv, KeysInv, Pending, Rotating, RotationPlace
<1>4. FirstInv' /\ LineageInv'
  BY <1>2 DEF LocalInv, KeysInv, FirstInv, LineageInv, ServiceInv, Pending, Rotating,
     RotationPlace
<1>5. ServiceInv'
  BY <1>2, <1>0, <1>a DEF LocalInv, KeysInv, FirstInv, LineageInv, ServiceInv, Offered,
     Pending, Rotating, RotationPlace
<1>6. SessionInv' /\ SessionOfThisDevice'
  BY DEF LocalInv, SessionInv, Storable, SessionOfThisDevice
<1> QED  BY <1>1, <1>3, <1>4, <1>5, <1>6

(* The pending key stays pending. *)
LEMMA ChallengeInv ==
    ASSUME Inv, NEW t \in Thread, Challenge(t) PROVE Inv'
<1> USE DeviceKeysAssumption DEF Inv, TypeOK, MaybeKey, Challenge, Goto, Return, disk,
      memory, locals, service
<1>1. TypeOK' /\ LocalInv'
  BY DEF LocalInv, Place, Settled, Pending, Rotating, RotationPlace
<1>2. Identities' \subseteq Identities
  BY DEF LocalInv, Identities, Settled, Pending, Rotating, RotationPlace
<1>3. KeysInv'
  BY <1>2 DEF LocalInv, KeysInv, Pending, Rotating, RotationPlace
<1>4. FirstInv' /\ LineageInv'
  BY <1>2 DEF LocalInv, KeysInv, FirstInv, LineageInv, ServiceInv, Pending, Rotating,
     RotationPlace
<1>5. ServiceInv'
  BY <1>2 DEF LocalInv, KeysInv, FirstInv, LineageInv, ServiceInv, Offered, Pending,
     Rotating, RotationPlace
<1>6. SessionInv' /\ SessionOfThisDevice'
  BY DEF LocalInv, SessionInv, Storable, SessionOfThisDevice
<1> QED  BY <1>1, <1>3, <1>4, <1>5, <1>6

(* The pending key stays pending. *)
LEMMA RetryInv ==
    ASSUME Inv, NEW t \in Thread, Retry(t) PROVE Inv'
<1> USE DeviceKeysAssumption DEF Inv, TypeOK, MaybeKey, Retry, Goto, Return, disk,
      memory, locals, service
<1>1. TypeOK' /\ LocalInv'
  BY DEF LocalInv, Place, Settled, Pending, Rotating, RotationPlace
<1>2. Identities' \subseteq Identities
  BY DEF LocalInv, Identities, Settled, Pending, Rotating, RotationPlace
<1>3. KeysInv'
  BY <1>2 DEF LocalInv, KeysInv, Pending, Rotating, RotationPlace
<1>4. FirstInv' /\ LineageInv'
  BY <1>2 DEF LocalInv, KeysInv, FirstInv, LineageInv, ServiceInv, Pending, Rotating,
     RotationPlace
<1>5. ServiceInv'
  BY <1>2 DEF LocalInv, KeysInv, FirstInv, LineageInv, ServiceInv, Offered, Pending,
     Rotating, RotationPlace
<1>6. SessionInv' /\ SessionOfThisDevice'
  BY DEF LocalInv, SessionInv, Storable, SessionOfThisDevice
<1> QED  BY <1>1, <1>3, <1>4, <1>5, <1>6

(* The answer confirms a key that the service accepted. *)
LEMMA RotationAnsweredInv ==
    ASSUME Inv, NEW t \in Thread, RotationAnswered(t) PROVE Inv'
<1> USE DeviceKeysAssumption DEF Inv, TypeOK, MaybeKey, RotationAnswered, Goto, Return,
      disk, memory, locals, service
<1>1. TypeOK' /\ LocalInv'
  BY DEF LocalInv, Place, Settled, Pending, Rotating, RotationPlace
<1>2. Identities' \subseteq Identities
  BY DEF LocalInv, Identities, Settled, Pending, Rotating, RotationPlace
<1>3. KeysInv'
  BY <1>2 DEF LocalInv, KeysInv, Pending, Rotating, RotationPlace
<1>4. FirstInv' /\ LineageInv'
  BY <1>2 DEF LocalInv, KeysInv, FirstInv, LineageInv, ServiceInv, Pending, Rotating,
     RotationPlace
<1>5. ServiceInv'
  BY <1>2 DEF LocalInv, KeysInv, FirstInv, LineageInv, ServiceInv, Offered, Pending,
     Rotating, RotationPlace
<1>6. SessionInv' /\ SessionOfThisDevice'
  BY DEF LocalInv, SessionInv, Storable, SessionOfThisDevice
<1> QED  BY <1>1, <1>3, <1>4, <1>5, <1>6

(* Only a pending key is deleted, and that is nobody's identity. *)
LEMMA RotationFailsInv ==
    ASSUME Inv, NEW t \in Thread, RotationFails(t) PROVE Inv'
<1> USE DeviceKeysAssumption DEF Inv, TypeOK, MaybeKey, RotationFails, Goto, Return,
      disk, memory, locals, service
<1>0. key[t] \in made
  BY DEF KeysInv, Pending
<1>1. TypeOK' /\ LocalInv'
  BY <1>0 DEF LocalInv, Place, Settled, Pending, Rotating, RotationPlace
<1>2. Identities' \subseteq Identities
  BY DEF LocalInv, Identities, Settled, Pending, Rotating, RotationPlace
<1>3. KeysInv'
  BY <1>2 DEF LocalInv, KeysInv, Pending, Rotating, RotationPlace
<1>4. FirstInv' /\ LineageInv'
  BY <1>2 DEF LocalInv, KeysInv, FirstInv, LineageInv, ServiceInv, Pending, Rotating,
     RotationPlace
<1>5. ServiceInv'
  BY <1>2 DEF LocalInv, KeysInv, FirstInv, LineageInv, ServiceInv, Offered, Pending,
     Rotating, RotationPlace
<1>6. SessionInv' /\ SessionOfThisDevice'
  BY DEF LocalInv, SessionInv, Storable, SessionOfThisDevice, Pending, Rotating, RotationPlace
<1> QED  BY <1>1, <1>3, <1>4, <1>5, <1>6

(* An accepted key that is still pending is the one the service knows. *)
LEMMA CommitPendingInv ==
    ASSUME Inv, NEW t \in Thread, CommitPending(t) PROVE Inv'
<1> USE DeviceKeysAssumption DEF Inv, TypeOK, MaybeKey, CommitPending, Goto, Return,
      disk, memory, locals, service
<1>1. TypeOK' /\ LocalInv'
  BY DEF LocalInv, Place, Settled, Pending, Rotating, RotationPlace
<1>2. Identities' \subseteq Identities \cup {key[t]} /\ key[t] \in Identities'
  BY DEF LocalInv, Identities, Settled, Pending, Rotating, RotationPlace
<1>3. KeysInv'
  BY <1>2 DEF LocalInv, KeysInv, Pending, Rotating, RotationPlace
<1>4. FirstInv' /\ LineageInv'
  BY <1>2 DEF LocalInv, KeysInv, FirstInv, LineageInv, ServiceInv, Pending, Rotating,
     RotationPlace
<1>5. ServiceInv'
  BY <1>2 DEF LocalInv, KeysInv, FirstInv, LineageInv, ServiceInv, Offered, Pending,
     Rotating, RotationPlace
<1>6. SessionInv' /\ SessionOfThisDevice'
  BY DEF LocalInv, SessionInv, Storable, SessionOfThisDevice
<1> QED  BY <1>1, <1>3, <1>4, <1>5, <1>6

(* The key of identity.bin becomes the identity of the process. *)
LEMMA AdoptPendingInv ==
    ASSUME Inv, NEW t \in Thread, AdoptPending(t) PROVE Inv'
<1> USE DeviceKeysAssumption DEF Inv, TypeOK, MaybeKey, AdoptPending, Goto, Return,
      disk, memory, locals, service
<1>1. TypeOK' /\ LocalInv'
  BY DEF LocalInv, Place, Settled, Pending, Rotating, RotationPlace
<1>2. Identities' \subseteq Identities
  BY DEF LocalInv, Identities, Settled, Pending, Rotating, RotationPlace
<1>3. KeysInv'
  BY <1>2 DEF LocalInv, KeysInv, Pending, Rotating, RotationPlace
<1>4. FirstInv' /\ LineageInv'
  BY <1>2 DEF LocalInv, KeysInv, FirstInv, LineageInv, ServiceInv, Pending, Rotating,
     RotationPlace
<1>5. ServiceInv'
  BY <1>2 DEF LocalInv, KeysInv, FirstInv, LineageInv, ServiceInv, Offered, Pending,
     Rotating, RotationPlace
<1>6. SessionInv' /\ SessionOfThisDevice'
  <2> DEFINE p == ProcessOf[t]
  <2>1. \A q \in Process : session'[q] # NoKey => loaded'[q] # NoKey
    BY DEF LocalInv, SessionInv, Settled
  <2>2. \A u \in Thread : pc'[u] \in {"check", "response", "verified"} =>
          pc[u] = pc'[u] /\ u # t /\ signer'[u] = signer[u] /\ signer[u] # NoKey
          /\ loaded'[ProcessOf[u]] # NoKey
    BY DEF LocalInv, SessionInv, Settled
  <2>3. ASSUME NEW u \in Thread, Storable(u)'
        PROVE  \/ signer'[u] \in {loaded'[ProcessOf[u]]} \cup overtaken'[ProcessOf[u]]
               \/ \E v \in Thread : ProcessOf[v] = ProcessOf[u] /\ pc'[v] = "adopted"
    <3>1. CASE ProcessOf[u] = p
      BY <2>2, <2>3, <3>1 DEF SessionInv, Storable
    <3>2. CASE ProcessOf[u] # p
      <4>1. UNCHANGED <<loaded[ProcessOf[u]], overtaken[ProcessOf[u]]>>
        BY <3>2
      <4> QED  BY <2>2, <2>3, <3>2, <4>1 DEF SessionInv, Storable
    <3> QED  BY <3>1, <3>2
  <2>4. SessionInv'
    BY <2>1, <2>2, <2>3 DEF SessionInv
  <2>5. SessionOfThisDevice'
    BY DEF SessionOfThisDevice, SessionInv
  <2> QED  BY <2>4, <2>5
<1> QED  BY <1>1, <1>3, <1>4, <1>5, <1>6

(* Whoever may still store a session of an old identity is overtaken. *)
LEMMA ClearSessionInv ==
    ASSUME Inv, NEW t \in Thread, ClearSession(t) PROVE Inv'
<1> USE DeviceKeysAssumption DEF Inv, TypeOK, MaybeKey, ClearSession, Goto, Return,
      disk, memory, locals, service
<1>1. TypeOK' /\ LocalInv'
  <2>1. OldAnswers(ProcessOf[t]) \in SUBSET (Key \cup {NoKey})
    BY DEF OldAnswers
  <2>2. overtaken' \in [Process -> SUBSET (Key \cup {NoKey})]
    BY <2>1
  <2> QED  BY <2>2 DEF LocalInv, Place, Settled, Pending, Rotating, RotationPlace
<1>2. Identities' \subseteq Identities
  BY DEF LocalInv, Identities, Settled, Pending, Rotating, RotationPlace
<1>3. KeysInv'
  BY <1>2 DEF LocalInv, KeysInv, Pending, Rotating, RotationPlace
<1>4. FirstInv' /\ LineageInv'
  BY <1>2 DEF LocalInv, KeysInv, FirstInv, LineageInv, ServiceInv, Pending, Rotating,
     RotationPlace
<1>5. ServiceInv'
  BY <1>2 DEF LocalInv, KeysInv, FirstInv, LineageInv, ServiceInv, Offered, Pending,
     Rotating, RotationPlace
<1>6. SessionInv' /\ SessionOfThisDevice'
  <2> DEFINE p == ProcessOf[t]
  <2>1. \A q \in Process : session'[q] # NoKey => loaded'[q] # NoKey
    BY DEF LocalInv, SessionInv, Settled
  <2>2. \A u \in Thread : pc'[u] \in {"check", "response", "verified"} =>
          pc[u] = pc'[u] /\ u # t /\ signer'[u] = signer[u] /\ signer[u] # NoKey
          /\ loaded'[ProcessOf[u]] # NoKey
    BY DEF LocalInv, SessionInv, Settled
  <2>3. ASSUME NEW u \in Thread, Storable(u)'
        PROVE  \/ signer'[u] \in {loaded'[ProcessOf[u]]} \cup overtaken'[ProcessOf[u]]
               \/ \E v \in Thread : ProcessOf[v] = ProcessOf[u] /\ pc'[v] = "adopted"
    <3>1. CASE ProcessOf[u] = p
      <4>1. CASE signer[u] = loaded[p]
        BY <2>2, <2>3, <3>1, <4>1 DEF Storable
      <4>2. CASE signer[u] # loaded[p]
        <5>1. signer[u] \in OldAnswers(p)
          BY <2>2, <2>3, <3>1, <4>2 DEF OldAnswers, Storable
        <5> QED  BY <2>2, <2>3, <5>1, <3>1 DEF Storable
      <4> QED  BY <4>1, <4>2
    <3>2. CASE ProcessOf[u] # p
      <4>1. UNCHANGED <<loaded[ProcessOf[u]], overtaken[ProcessOf[u]]>>
        BY <3>2
      <4> QED  BY <2>2, <2>3, <3>2, <4>1 DEF SessionInv, Storable
    <3> QED  BY <3>1, <3>2
  <2>4. SessionInv'
    BY <2>1, <2>2, <2>3 DEF SessionInv
  <2>5. SessionOfThisDevice'
    BY DEF SessionOfThisDevice, SessionInv
  <2> QED  BY <2>4, <2>5
<1> QED  BY <1>1, <1>3, <1>4, <1>5, <1>6

(* What the threads of the process were rotating is given up. *)
LEMMA CrashInv ==
    ASSUME Inv, NEW p \in Process, Crash(p) PROVE Inv'
<1> USE DeviceKeysAssumption DEF Inv, TypeOK, MaybeKey, Crash, Goto, Return, disk,
      memory, locals, service
<1>0. \A u \in Thread : Rotating(u) => key[u] \in made
  BY DEF KeysInv, Pending
<1>1. TypeOK' /\ LocalInv'
  <2>1. givenUp' \subseteq made'
    BY <1>0
  <2>2. mutex' \in Thread \cup {NoThread}
    OBVIOUS
  <2>3. pc' \in [Thread -> Place] /\ key' \in [Thread -> MaybeKey]
    BY DEF Place
  <2>4. signer' \in [Thread -> MaybeKey] /\ challenged' \in [Thread -> BOOLEAN]
    OBVIOUS
  <2>5. loaded' \in [Process -> MaybeKey] /\ session' \in [Process -> MaybeKey]
        /\ overtaken' \in [Process -> SUBSET MaybeKey]
    OBVIOUS
  <2>6. TypeOK'
    BY <2>1, <2>2, <2>3, <2>4, <2>5
  <2>7. LocalInv'
    BY DEF LocalInv, Settled, Pending, Rotating, RotationPlace
  <2> QED  BY <2>6, <2>7
<1>2. Identities' \subseteq Identities
  BY DEF LocalInv, Identities, Settled, Pending, Rotating, RotationPlace
<1>3. KeysInv'
  BY <1>2 DEF LocalInv, KeysInv, Pending, Rotating, RotationPlace
<1>4. FirstInv' /\ LineageInv'
  BY <1>2 DEF LocalInv, KeysInv, FirstInv, LineageInv, ServiceInv, Pending, Rotating,
     RotationPlace
<1>5. ServiceInv'
  BY <1>2 DEF LocalInv, KeysInv, FirstInv, LineageInv, ServiceInv, Offered, Pending,
     Rotating, RotationPlace
<1>6. SessionInv' /\ SessionOfThisDevice'
  BY DEF LocalInv, SessionInv, Storable, SessionOfThisDevice
<1> QED  BY <1>1, <1>3, <1>4, <1>5, <1>6

-----------------------------------------------------------------------------
(* The invariant is inductive. *)
LEMMA NextInv == Inv /\ [Next]_vars => Inv'
<1> SUFFICES ASSUME Inv, [Next]_vars PROVE Inv'
  OBVIOUS
<1>1. ASSUME NEW t \in Thread, LoadStep(t) PROVE Inv'
  BY <1>1, BeginLoadInv, LoadExistingInv, CreateKeyInv, WriteMetadataInv, LoadFailsInv,
     EmplaceInv DEF LoadStep
<1>2. ASSUME NEW t \in Thread, CheckStep(t) PROVE Inv'
  BY <1>2, BeginCheckInv, ServiceRegistersInv, VerifyAuthzInv, StoreSessionInv,
     CheckFailsInv DEF CheckStep
<1>3. ASSUME NEW t \in Thread, RotationStep(t) PROVE Inv'
  BY <1>3, BeginRotationInv, SendRotationInv, ChallengeInv, RetryInv,
     RotationAnsweredInv,
     RotationFailsInv, CommitPendingInv, AdoptPendingInv, ClearSessionInv DEF RotationStep
<1>4. ASSUME NEW m \in requests, ServiceRotates(m) PROVE Inv'
  BY <1>4, ServiceRotatesInv
<1>5. ASSUME NEW p \in Process, Crash(p) \/ SessionExpires(p) PROVE Inv'
  BY <1>5, CrashInv, SessionExpiresInv
<1>6. CASE UNCHANGED vars
  <2>1. TypeOK' /\ LocalInv'
    BY <1>6 DEF Inv, TypeOK, LocalInv, Pending, Rotating, vars, disk, memory, locals,
       service
  <2>2. Identities' = Identities /\ Offered' = Offered
    BY <1>6 DEF Identities, Offered, Rotating, vars, disk, memory, locals, service
  <2>3. KeysInv' /\ FirstInv' /\ LineageInv'
    BY <1>6, <2>2 DEF Inv, KeysInv, FirstInv, LineageInv, Pending, Rotating, vars,
       disk, memory, locals, service
  <2>4. ServiceInv'
    BY <1>6, <2>2 DEF Inv, ServiceInv, Pending, Rotating, vars, disk, memory, locals,
       service
  <2>5. SessionInv' /\ SessionOfThisDevice'
    BY <1>6 DEF Inv, SessionInv, Storable, SessionOfThisDevice, vars, disk, memory, locals,
       service
  <2> QED  BY <2>1, <2>3, <2>4, <2>5 DEF Inv
<1> QED  BY <1>1, <1>2, <1>3, <1>4, <1>5, <1>6 DEF Next

(* The invariant holds in every reachable state. *)
THEOREM Invariance == Spec => []Inv
<1> QED  BY InitInv, NextInv, PTL DEF Spec

(* Types: the files, the processes, the threads and the service keep       *)
(* theirs; in particular the service never accepts a key that no thread    *)
(* of the device has created.                                              *)
THEOREM TypeCorrect == Spec => []TypeOK
<1>1. Inv => TypeOK
  BY DEF Inv
<1> QED  BY <1>1, Invariance, PTL

(* delete_pending never deletes the key that identity.bin names or that a  *)
(* process has loaded.                                                     *)
THEOREM KeyMaterialIsKept == Spec => []KeyMaterialKept
<1>1. Inv => KeyMaterialKept
  BY DEF Inv, TypeOK, MaybeKey, KeysInv, Identities, KeyMaterialKept
<1> QED  BY <1>1, Invariance, PTL

(* load_or_create makes one identity, however many processes start at once *)
(* and wherever they end.                                                  *)
THEOREM FirstStartsAgree == Spec => []FirstStartAgrees
<1>1. Inv => FirstStartAgrees
  BY DEF Inv, TypeOK, MaybeKey, FirstInv, Identities, FirstStartAgrees
<1> QED  BY <1>1, Invariance, PTL

(* rotate_device_key: of all rotations under way, in any thread of any     *)
(* process, at most one has been accepted.                                 *)
THEOREM CommitsAreSerial == Spec => []CommitsDoNotOverlap
<1>1. Inv => CommitsDoNotOverlap
  BY DEF Inv, KeysInv, ServiceInv, CommitsDoNotOverlap, Pending
<1> QED  BY <1>1, Invariance, PTL

(* A device that the service no longer knows is in the middle of a         *)
(* rotation, or gave one up that the service had accepted.                 *)
THEOREM DeviceStaysInStep == Spec => []DeviceInStep
<1>1. Inv => DeviceInStep
  <2> SUFFICES ASSUME Inv, file \in accepted, file \notin known
               PROVE  \E k \in known : k \in givenUp \/ \E t \in Thread : Rotating(t) /\ key[t] = k
    BY DEF DeviceInStep
  <2>1. PICK k \in known : k = file \/ k \in Offered
    BY DEF Inv, ServiceInv
  <2> QED  BY <2>1 DEF Offered
<1> QED  BY <1>1, Invariance, PTL

(* verify_authz stores a session only for the identity of the process,     *)
(* unless that is replaced between its check and its store.                *)
THEOREM SessionsAreOwn == Spec => []SessionOfThisDevice
<1>1. Inv => SessionOfThisDevice
  BY DEF Inv
<1> QED  BY <1>1, Invariance, PTL

-----------------------------------------------------------------------------
(* The register *)

(* The service knows one key or none. *)
LEMMA PresentKeyIs ==
  ASSUME Inv
  PROVE  /\ known = {} => PresentKey = NoKey
         /\ \A k \in known : PresentKey = k /\ k # NoKey /\ known = {k}
<1>1. known = {} => PresentKey = NoKey
  BY DEF PresentKey
<1>2. ASSUME NEW k \in known PROVE PresentKey = k /\ k # NoKey /\ known = {k}
  <2>1. k \in Key /\ k # NoKey
    BY <1>2, DeviceKeysAssumption DEF Inv, TypeOK
  <2>2. \A j \in known : j = k
    BY <1>2 DEF Inv, ServiceInv
  <2>3. (CHOOSE j \in Key : j \in known) \in known
    BY <1>2, <2>1
  <2> QED  BY <1>2, <2>1, <2>2, <2>3 DEF PresentKey
<1> QED  BY <1>1, <1>2

(* The device and the service are left as they are. *)
LEMMA Unregistered ==
  ASSUME UNCHANGED <<file, known, accepted>>
  PROVE  UNCHANGED R!register
  BY DEF R!register, PresentKey

(* The first identity is written while nothing is registered. *)
LEMMA WriteEnrolls ==
  ASSUME Inv, NEW t \in Thread, WriteMetadata(t)
  PROVE  R!Next
<1>1. file = NoKey /\ accepted = {} /\ known = {} /\ key[t] \in Key
  BY DEF WriteMetadata, Inv, TypeOK, FirstInv, LocalInv, Pending
<1>2. file' = key[t] /\ UNCHANGED <<known, accepted>>
  BY DEF WriteMetadata, service
<1>3. PresentKey = NoKey /\ PresentKey' = PresentKey
  BY <1>1, <1>2 DEF PresentKey
<1> QED  BY <1>1, <1>2, <1>3 DEF R!Next, R!Enroll

(* Only the device's first key is registered by a check for updates. *)
LEMMA ServiceRegistersFirst ==
  ASSUME Inv, NEW t \in Thread, ServiceRegisters(t)
  PROVE  [R!Next]_R!register
<1>1. /\ file' = file /\ known' = known \cup {signer[t]} /\ accepted' = accepted \cup {signer[t]}
      /\ signer[t] \in known \/ signer[t] \notin accepted
      /\ signer[t] \in Key
  BY DEF ServiceRegisters, disk, Inv, TypeOK, MaybeKey, SessionInv
<1>2. CASE signer[t] \in known
  <2>1. known' = known /\ accepted' = accepted
    BY <1>1, <1>2 DEF Inv, TypeOK
  <2> QED  BY <1>1, <2>1, Unregistered
<1>3. CASE signer[t] \notin accepted
  <2>1. signer[t] = file /\ accepted = {} /\ known = {}
    BY <1>1, <1>3 DEF Inv, TypeOK, LineageInv, Identities
  <2>2. known' = {file} /\ accepted' = {file} /\ file # NoKey
    BY <1>1, <2>1, DeviceKeysAssumption
  <2>3. PresentKey = NoKey
    BY <2>1 DEF PresentKey
  <2>4. PresentKey' = file
    <3>1. (CHOOSE k \in Key : k \in known') = file
      BY <1>1, <2>1, <2>2
    <3> QED  BY <2>2, <3>1 DEF PresentKey
  <2>5. (accepted \ known)' = accepted \ known
    BY <2>1, <2>2
  <2> QED  BY <1>1, <2>2, <2>3, <2>4, <2>5 DEF R!Next, R!Register
<1> QED  BY <1>1, <1>2, <1>3

(* A request that the service carries out, however late, brings a new key. *)
LEMMA ServiceRotatesReplaces ==
  ASSUME Inv, NEW m \in requests, ServiceRotates(m)
  PROVE  R!Next
<1>1. /\ file' = file /\ m.signer \in known /\ m.key \notin accepted /\ m.key \in Key
      /\ known' = (known \ {m.signer}) \cup {m.key} /\ accepted' = accepted \cup {m.key}
      /\ known \subseteq accepted
  BY DEF ServiceRotates, disk, Inv, TypeOK
<1>2. PresentKey = m.signer /\ m.signer # NoKey /\ known = {m.signer}
  BY <1>1, PresentKeyIs
<1>3. PresentKey' = m.key
  <2>1. known' = {m.key}
    BY <1>1, <1>2
  <2>2. (CHOOSE k \in Key : k \in known') = m.key
    BY <1>1, <2>1
  <2> QED  BY <2>1, <2>2 DEF PresentKey
<1>4. (accepted \ known)' = (accepted \ known) \cup {m.signer}
  BY <1>1, <1>2
<1>5. m.key # file
  <2>1. file # NoKey /\ file \in Key
    BY <1>1 DEF Inv, TypeOK, MaybeKey, FirstInv
  <2>2. file \in accepted
    BY <1>1, <2>1 DEF Inv, LineageInv, Identities
  <2> QED  BY <1>1, <2>2
<1>6. m.key \notin (accepted \ known) \cup {m.signer, file}
  BY <1>1, <1>5
<1>7. R!Replace(m.key)
  BY <1>1, <1>2, <1>3, <1>4, <1>6 DEF R!Replace
<1> QED  BY <1>1, <1>7 DEF R!Next

(* commit_pending writes the key that the service knows. *)
LEMMA CommitFollows ==
  ASSUME Inv, NEW t \in Thread, CommitPending(t)
  PROVE  R!Next
<1>1. key[t] \in known /\ file' = key[t] /\ UNCHANGED <<known, accepted>>
  BY DEF CommitPending, service, Inv, ServiceInv, Pending, Rotating, RotationPlace
<1>2. PresentKey = key[t] /\ PresentKey # NoKey
  BY <1>1, PresentKeyIs
<1>3. PresentKey' = PresentKey
  BY <1>1 DEF PresentKey
<1> QED  BY <1>1, <1>2, <1>3 DEF R!Next, R!Follow

(* Every step is one of the register, or none. *)
LEMMA RegisterStep == Inv /\ [Next]_vars => [R!Next]_R!register
<1> SUFFICES ASSUME Inv, [Next]_vars PROVE [R!Next]_R!register
  OBVIOUS
<1> USE DEF disk, memory, locals, service, Return, Goto
<1>1. ASSUME NEW t \in Thread, LoadStep(t)
      PROVE  WriteMetadata(t) \/ UNCHANGED <<file, known, accepted>>
  BY <1>1 DEF LoadStep, BeginLoad, LoadExisting, CreateKey, LoadFails, Emplace
<1>2. ASSUME NEW t \in Thread, CheckStep(t)
      PROVE  ServiceRegisters(t) \/ UNCHANGED <<file, known, accepted>>
  BY <1>2 DEF CheckStep, BeginCheck, VerifyAuthz, StoreSession, CheckFails
<1>3. ASSUME NEW t \in Thread, RotationStep(t)
      PROVE  CommitPending(t) \/ UNCHANGED <<file, known, accepted>>
  BY <1>3 DEF RotationStep, BeginRotation, SendRotation, Challenge, Retry,
     RotationAnswered,
     RotationFails, AdoptPending, ClearSession
<1>4. ASSUME NEW p \in Process, Crash(p) \/ SessionExpires(p)
      PROVE  UNCHANGED <<file, known, accepted>>
  BY <1>4 DEF Crash, SessionExpires
<1>5. CASE UNCHANGED vars
  BY <1>5, Unregistered DEF vars
<1> QED
  BY <1>1, <1>2, <1>3, <1>4, <1>5, Unregistered, WriteEnrolls, ServiceRegistersFirst,
     ServiceRotatesReplaces, CommitFollows DEF Next

(* For any number of threads, processes and keys, the device and the       *)
(* service go through one sequence of keys, which the device follows and   *)
(* the service never goes back in: identity.bin is replaced only by the    *)
(* key that the service holds.                                             *)
THEOREM KeysFormARegister == Spec => ImplementsRegister
<1>1. Init => R!Init
  BY DEF Init, R!Init, PresentKey
<1> QED
  BY <1>1, RegisterStep, Invariance, PTL DEF Spec, ImplementsRegister, R!Spec
=============================================================================
