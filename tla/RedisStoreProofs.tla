-------------------------- MODULE RedisStoreProofs --------------------------
(***************************************************************************)
(* RedisStore implements CertificateView, for any number of replicas,      *)
(* readers, keys and sets, with or without Redis errors and restarts.  The *)
(* inductive invariant is TypeOK with OnlyWritten: every value that is on  *)
(* its way to a cache has been in Redis.                                   *)
(***************************************************************************)
EXTENDS RedisStore, TLAPS

(* One step keeps every variable in its type. *)
LEMMA TypeStep == TypeOK /\ OnlyWritten /\ [Next]_vars => TypeOK'
<1> SUFFICES ASSUME TypeOK, OnlyWritten, [Next]_vars PROVE TypeOK'
  OBVIOUS
<1> USE CertsNotChallenges, MaxVersionType, MaxRestartsType, HomeType, MissingFresh
        DEF Versions, Keys, FillCache, StoreInRedis, TaskIdle
<1>1. ASSUME NEW r \in Replicas, SetNext(r) PROVE TypeOK'
  <2>1. ASSUME NEW k \in Keys, SetCalled(r, k) PROVE TypeOK'
    BY <2>1 DEF TypeOK, SetCalled, SetCall
  <2>2. CASE SetRedis(r)
    <3>1. set[r] \in SetCall
      BY <2>2 DEF TypeOK, SetRedis
    <3>2. [set[r] EXCEPT !.stored = TRUE] \in SetCall
      BY <3>1 DEF SetCall
    <3>3. set' \in [Replicas -> SetCall \cup {Missing}]
      BY <2>2, <3>2 DEF TypeOK, SetRedis
    <3>4. redis' \in [Keys -> Versions \cup {Missing}] /\ written' \in [Keys -> SUBSET Versions]
      BY <2>2, <3>1 DEF TypeOK, SetRedis, SetCall
    <3> QED
      BY <2>2, <3>3, <3>4 DEF TypeOK, SetRedis
  <2>3. CASE SetFails(r)
    <3>1. set[r] \in SetCall
      BY <2>3 DEF TypeOK, SetFails
    <3>2. redis' \in [Keys -> Versions \cup {Missing}] /\ written' \in [Keys -> SUBSET Versions]
      <4>1. CASE UNCHANGED <<redis, written>>
        BY <4>1 DEF TypeOK
      <4>2. CASE StoreInRedis(set[r].key, set[r].val)
        BY <3>1, <4>2 DEF TypeOK, SetCall
      <4> QED
        BY <2>3, <4>1, <4>2 DEF SetFails
    <3> QED
      BY <2>3, <3>2 DEF TypeOK, SetFails
  <2>4. CASE SetCache(r)
    BY <2>4 DEF TypeOK, SetCache, SetCall
  <2> QED
    BY <1>1, <2>1, <2>2, <2>3, <2>4 DEF SetNext
<1>2. ASSUME NEW r \in Replicas, ScanNext(r) PROVE TypeOK'
  <2>1. CASE ScanCopiesCache(r)
    BY <2>1 DEF TypeOK, ScanCopiesCache, ScanCall
  <2>2. CASE ScanListsKeys(r)
    <3> DEFINE s == [scan[r] EXCEPT !.phase = "load",
                                   !.todo = {k \in @ : redis[k] # Missing}]
    <3>1. scan[r] \in ScanCall
      BY <2>2 DEF TypeOK, ScanListsKeys
    <3>2. {k \in scan[r].todo : redis[k] # Missing} \in SUBSET Certs
      BY <3>1 DEF ScanCall
    <3>3. s \in ScanCall /\ s.key = scan[r].key /\ s.val = scan[r].val
      BY <3>1, <3>2 DEF ScanCall
    <3>4. scan' = [scan EXCEPT ![r] = s]
      BY <2>2 DEF ScanListsKeys
    <3> HIDE DEF s
    <3>5. scan' \in [Replicas -> ScanCall \cup {Missing}]
      BY <3>3, <3>4 DEF TypeOK
    <3>6. \A q \in Replicas : scan'[q] # Missing =>
            (scan'[q].key = Missing <=> scan'[q].val = Missing)
      BY <2>2, <3>3, <3>4 DEF TypeOK, ScanListsKeys
    <3> QED
      BY <2>2, <3>5, <3>6 DEF TypeOK, ScanListsKeys
  <2>3. ASSUME NEW k \in Certs, ScanLoads(r, k) PROVE TypeOK'
    BY <2>3 DEF TypeOK, OnlyWritten, ScanLoads, ScanCall
  <2>4. CASE ScanCommandFails(r)
    <3>1. ASSUME NEW k \in scan[r].todo, scan' = [scan EXCEPT ![r].todo = @ \ {k}]
          PROVE  TypeOK'
      <4> DEFINE s == [scan[r] EXCEPT !.todo = @ \ {k}]
      <4>1. s \in ScanCall /\ s.key = scan[r].key /\ s.val = scan[r].val
        BY <2>4 DEF TypeOK, ScanCommandFails, ScanCall
      <4>2. scan' = [scan EXCEPT ![r] = s]
        BY <3>1
      <4> HIDE DEF s
      <4> QED
        BY <2>4, <4>1, <4>2 DEF TypeOK, ScanCommandFails
    <3>2. CASE scan' = [scan EXCEPT ![r] = Missing]
      BY <2>4, <3>2 DEF TypeOK, ScanCommandFails
    <3> QED
      BY <2>4, <3>1, <3>2 DEF ScanCommandFails
  <2>5. CASE ScanFills(r)
    BY <2>5 DEF TypeOK, ScanFills, ScanCall
  <2>6. CASE ScanReturns(r)
    BY <2>6 DEF TypeOK, ScanReturns, ScanCall
  <2>7. CASE ScanPanics(r)
    BY <2>7 DEF TypeOK, ScanPanics
  <2> QED
    BY <1>2, <2>1, <2>2, <2>3, <2>4, <2>5, <2>6, <2>7 DEF ScanNext
<1>3. ASSUME NEW g \in Readers, GetNext(g) PROVE TypeOK'
  <2>1. ASSUME NEW k \in Keys, GetMisses(g, k) PROVE TypeOK'
    BY <2>1 DEF TypeOK, GetMisses, GetCall
  <2>2. CASE GetLoads(g)
    <3>1. get[g] \in GetCall /\ redis[get[g].key] \in Versions \cup {Missing}
      BY <2>2 DEF TypeOK, GetLoads, GetCall
    <3>2. [get[g] EXCEPT !.val = redis[get[g].key]] \in GetCall
      BY <3>1 DEF GetCall
    <3>3. get' \in [Readers -> GetCall \cup {Missing}]
      BY <2>2, <3>2 DEF TypeOK, GetLoads
    <3> QED
      BY <2>2, <3>3 DEF TypeOK, GetLoads
  <2>3. CASE GetFills(g)
    BY <2>3 DEF TypeOK, GetFills, GetCall
  <2> QED
    BY <1>3, <2>1, <2>2, <2>3 DEF GetNext
<1>4. ASSUME NEW r \in Replicas, Restart(r) PROVE TypeOK'
  BY <1>4 DEF TypeOK, Restart
<1>5. ASSUME NEW k \in Challenges, Expire(k) PROVE TypeOK'
  BY <1>5 DEF TypeOK, Expire
<1>6. CASE UNCHANGED vars
  BY <1>6 DEF TypeOK, vars
<1> QED
  BY <1>1, <1>2, <1>3, <1>4, <1>5, <1>6 DEF Next

(* One step brings nothing on its way to a cache that Redis never held.    *)
LEMMA WrittenStep == TypeOK /\ OnlyWritten /\ [Next]_vars => OnlyWritten'
<1> SUFFICES ASSUME TypeOK, OnlyWritten, [Next]_vars PROVE OnlyWritten'
  OBVIOUS
<1> USE CertsNotChallenges, MaxVersionType, HomeType, MissingFresh
        DEF Keys, FillCache, StoreInRedis, TaskIdle
<1>1. ASSUME NEW r \in Replicas, SetNext(r) PROVE OnlyWritten'
  <2>1. ASSUME NEW k \in Keys, SetCalled(r, k) PROVE OnlyWritten'
    BY <2>1 DEF TypeOK, OnlyWritten, SetCalled
  <2>2. CASE SetRedis(r)
    BY <2>2 DEF TypeOK, OnlyWritten, SetRedis, SetCall, ScanCall, GetCall
  <2>3. CASE SetFails(r)
    <3>1. CASE UNCHANGED <<redis, written>>
      BY <2>3, <3>1 DEF TypeOK, OnlyWritten, SetFails
    <3>2. CASE StoreInRedis(set[r].key, set[r].val)
      BY <2>3, <3>2 DEF TypeOK, OnlyWritten, SetFails, SetCall, ScanCall, GetCall
    <3> QED
      BY <2>3, <3>1, <3>2 DEF SetFails
  <2>4. CASE SetCache(r)
    BY <2>4 DEF TypeOK, OnlyWritten, SetCache
  <2> QED
    BY <1>1, <2>1, <2>2, <2>3, <2>4 DEF SetNext
<1>2. ASSUME NEW r \in Replicas, ScanNext(r) PROVE OnlyWritten'
  <2>1. CASE ScanCopiesCache(r)
    BY <2>1 DEF TypeOK, OnlyWritten, ScanCopiesCache
  <2>2. CASE ScanListsKeys(r)
    BY <2>2 DEF TypeOK, OnlyWritten, ScanListsKeys, ScanCall
  <2>3. ASSUME NEW k \in Certs, ScanLoads(r, k) PROVE OnlyWritten'
    BY <2>3 DEF TypeOK, OnlyWritten, ScanLoads, ScanCall
  <2>4. CASE ScanCommandFails(r)
    BY <2>4 DEF TypeOK, OnlyWritten, ScanCommandFails, ScanCall
  <2>5. CASE ScanFills(r)
    BY <2>5 DEF TypeOK, OnlyWritten, ScanFills, ScanCall
  <2>6. CASE ScanReturns(r)
    BY <2>6 DEF TypeOK, OnlyWritten, ScanReturns
  <2>7. CASE ScanPanics(r)
    BY <2>7 DEF TypeOK, OnlyWritten, ScanPanics
  <2> QED
    BY <1>2, <2>1, <2>2, <2>3, <2>4, <2>5, <2>6, <2>7 DEF ScanNext
<1>3. ASSUME NEW g \in Readers, GetNext(g) PROVE OnlyWritten'
  <2>1. ASSUME NEW k \in Keys, GetMisses(g, k) PROVE OnlyWritten'
    BY <2>1 DEF TypeOK, OnlyWritten, GetMisses
  <2>2. CASE GetLoads(g)
    <3>1. CASE get' = [get EXCEPT ![g].val = redis[get[g].key]]
      <4>1. \A h \in Readers : get'[h] # Missing /\ get'[h].val # Missing =>
              get'[h].val \in written[get'[h].key]
        BY <2>2, <3>1 DEF TypeOK, OnlyWritten, GetLoads, GetCall
      <4> QED
        BY <2>2, <4>1 DEF OnlyWritten, GetLoads
    <3>2. CASE get' = [get EXCEPT ![g] = Missing]
      <4>1. \A h \in Readers : get'[h] \in {get[h], Missing}
        BY <3>2 DEF TypeOK
      <4> QED
        BY <2>2, <4>1 DEF OnlyWritten, GetLoads
    <3> QED
      BY <2>2, <3>1, <3>2 DEF GetLoads
  <2>3. CASE GetFills(g)
    BY <2>3 DEF TypeOK, OnlyWritten, GetFills
  <2> QED
    BY <1>3, <2>1, <2>2, <2>3 DEF GetNext
<1>4. ASSUME NEW r \in Replicas, Restart(r) PROVE OnlyWritten'
  BY <1>4 DEF TypeOK, OnlyWritten, Restart
<1>5. ASSUME NEW k \in Challenges, Expire(k) PROVE OnlyWritten'
  BY <1>5 DEF TypeOK, OnlyWritten, Expire, ScanCall
<1>6. CASE UNCHANGED vars
  BY <1>6 DEF OnlyWritten, vars
<1> QED
  BY <1>1, <1>2, <1>3, <1>4, <1>5, <1>6 DEF Next

(* The invariant of the refinement proof holds in every reachable state. *)
LEMMA WrittenInvariant == Spec => [](TypeOK /\ OnlyWritten)
<1>1. Init => TypeOK /\ OnlyWritten
  BY MaxVersionType, MaxRestartsType, MissingFresh DEF Init, TypeOK, OnlyWritten
<1> QED
  BY <1>1, TypeStep, WrittenStep, PTL DEF Spec

(* Types hold in every reachable state: in particular no get, scan or set  *)
(* of stores/redis_store.rs ever carries a missing value to a cache.       *)
THEOREM StoreTypeCorrect == Spec => []TypeOK
  BY WrittenInvariant, PTL

-----------------------------------------------------------------------------
(* One step of the store is one step of the view or leaves it unchanged.   *)
LEMMA ViewStep == TypeOK /\ OnlyWritten /\ [Next]_vars => [View!Next]_(View!vars)
<1> SUFFICES ASSUME TypeOK, OnlyWritten, Next
             PROVE  View!Next \/ UNCHANGED <<written, cache>>
  BY DEF vars, View!vars
<1> USE HomeType, MissingFresh DEF StoreInRedis, FillCache
<1>1. ASSUME NEW k \in Keys, NEW v \in Versions, StoreInRedis(k, v), UNCHANGED cache
      PROVE  View!Next
  BY <1>1 DEF View!Next, View!Write
<1>2. ASSUME NEW r \in Replicas, NEW k \in Keys, NEW v \in Versions, v \in written[k],
             FillCache(r, k, v), UNCHANGED written
      PROVE  View!Next
  BY <1>2 DEF View!Next, View!Learn
<1>3. ASSUME NEW r \in Replicas, SetNext(r)
      PROVE  View!Next \/ UNCHANGED <<written, cache>>
  <2>1. set[r] # Missing => set[r].key \in Keys /\ set[r].val \in Versions
    BY DEF TypeOK, SetCall
  <2>2. CASE SetRedis(r)
    BY <2>1, <2>2, <1>1 DEF SetRedis
  <2>3. CASE SetFails(r)
    BY <2>1, <2>3, <1>1 DEF SetFails
  <2>4. CASE SetCache(r)
    BY <2>1, <2>4, <1>2 DEF SetCache, OnlyWritten
  <2> QED
    BY <1>3, <2>2, <2>3, <2>4 DEF SetNext, SetCalled
<1>4. ASSUME NEW r \in Replicas, ScanNext(r)
      PROVE  View!Next \/ UNCHANGED <<written, cache>>
  <2>1. CASE ScanFills(r)
    <3>1. scan[r].key \in Keys /\ scan[r].val \in Versions
      BY <2>1 DEF ScanFills, TypeOK, ScanCall, Keys
    <3> QED
      BY <2>1, <3>1, <1>2 DEF ScanFills, OnlyWritten
  <2> QED
    BY <1>4, <2>1 DEF ScanNext, ScanCopiesCache, ScanListsKeys, ScanLoads,
                      ScanCommandFails, ScanPanics, ScanReturns
<1>5. ASSUME NEW g \in Readers, GetNext(g)
      PROVE  View!Next \/ UNCHANGED <<written, cache>>
  <2>1. CASE GetFills(g)
    <3>1. get[g].key \in Keys /\ get[g].val \in Versions /\ Home[g] \in Replicas
      BY <2>1 DEF GetFills, TypeOK, GetCall
    <3> QED
      BY <2>1, <3>1, <1>2 DEF GetFills, OnlyWritten
  <2> QED
    BY <1>5, <2>1 DEF GetNext, GetMisses, GetLoads
<1>6. ASSUME NEW r \in Replicas, Restart(r) PROVE View!Next
  BY <1>6 DEF Restart, View!Next, View!Forget
<1> QED
  BY <1>3, <1>4, <1>5, <1>6 DEF Next, Expire

(* A replica's caches (stores/redis_store.rs) show only values that really *)
(* were in Redis, and lose an entry only with the process, however get,    *)
(* set and get_certificates calls of all replicas interleave and fail.     *)
THEOREM StoreImplementsView == Spec => ImplementsView
<1>1. Init => View!Init
  BY DEF Init, View!Init
<1> QED
  BY <1>1, ViewStep, WrittenInvariant, PTL DEF Spec, ImplementsView, View!Spec
=============================================================================
