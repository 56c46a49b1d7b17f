----------------------------- MODULE RedisStore -----------------------------
(***************************************************************************)
(* The certificate store that several proksi replicas share through Redis  *)
(* (stores/redis_store.rs).  Each replica keeps a cache in front of Redis  *)
(* for certificates and one for challenges; nothing ever leaves a cache.   *)
(*                                                                         *)
(* In one replica the background task makes every set and every            *)
(* get_certificates call, one at a time; the TLS callback and the HTTP     *)
(* proxy call get_certificate and get_challenge on other threads.  A call  *)
(* is split where another thread or another replica can step in: at each   *)
(* Redis command and at each access to the cache.  Where the code unwraps  *)
(* pool.get(), a pool without a connection is a panic: it unwinds the      *)
(* request of a reader, and the whole background task of the replica.      *)
(***************************************************************************)
EXTENDS Naturals

CONSTANTS
  Replicas,      \* proksi processes
  Certs,         \* keys proksi:cert:<domain>
  Challenges,    \* keys proksi:challenge:<domain>, set with a time to live
  Readers,       \* threads that call get_certificate or get_challenge
  Home,          \* [Readers -> Replicas]
  RedisMayFail,  \* whether a command may fail, or the pool have no connection
  MaxVersion,    \* bound: sets in one behaviour
  MaxRestarts,   \* bound: restarts in one behaviour
  Missing        \* no value, no call in progress

ASSUME CertsNotChallenges == Certs \cap Challenges = {}

ASSUME HomeType == Home \in [Readers -> Replicas]

ASSUME RedisMayFailType == RedisMayFail \in BOOLEAN

ASSUME MaxVersionType == MaxVersion \in Nat

ASSUME MaxRestartsType == MaxRestarts \in Nat

Keys == Certs \cup Challenges

Versions == 1 .. MaxVersion

ASSUME MissingFresh ==
  /\ Missing \notin Versions \cup Keys
  /\ Missing \notin [key : Keys, val : Versions, stored : BOOLEAN]
  /\ Missing \notin [key : Keys, val : Versions \cup {Missing}]
  /\ Missing \notin [phase : {"keys", "load"}, todo : SUBSET Certs,
                     key : Certs \cup {Missing}, val : Versions \cup {Missing}]

VARIABLES
  redis,    \* per key, the value Redis holds
  cache,    \* per replica and key, the value its caches hold
  set,      \* per replica, the set call in progress
  scan,     \* per replica, the get_certificates call in progress
  get,      \* per reader, the get call that missed the cache
  panicked, \* the replicas whose background task has unwound
  clock,    \* sets so far; each writes a value of its own
  restarts, \* restarts so far
  written   \* history: every value Redis ever held, per key

vars == <<redis, cache, set, scan, get, panicked, clock, restarts, written>>

SetCall == [key : Keys, val : Versions, stored : BOOLEAN]

GetCall == [key : Keys, val : Versions \cup {Missing}]

(* key # Missing: the certificate just loaded, not yet in the cache. *)
ScanCall == [phase : {"keys", "load"}, todo : SUBSET Certs,
             key : Certs \cup {Missing}, val : Versions \cup {Missing}]

(* What a get call answers at this moment. *)
Answer(r, k) == IF cache[r][k] # Missing THEN cache[r][k] ELSE redis[k]

FillCache(r, k, v) == cache' = [cache EXCEPT ![r][k] = v]

StoreInRedis(k, v) ==
  /\ redis' = [redis EXCEPT ![k] = v]
  /\ written' = [written EXCEPT ![k] = @ \cup {v}]

(* The background task, while it lives, runs one store call at a time. *)
TaskIdle(r) == r \notin panicked /\ set[r] = Missing /\ scan[r] = Missing

-----------------------------------------------------------------------------
(***************************************************************************)
(* set_certificate and set_challenge.                                      *)
(***************************************************************************)
SetCalled(r, k) ==
  /\ TaskIdle(r)
  /\ clock < MaxVersion
  /\ clock' = clock + 1
  /\ set' = [set EXCEPT ![r] = [key |-> k, val |-> clock + 1, stored |-> FALSE]]
  /\ UNCHANGED <<redis, cache, scan, get, panicked, restarts, written>>

(* Plausible bug: the cache is updated where Redis should be. *)
SetCacheBeforeRedis(r) ==
  /\ set[r] # Missing
  /\ ~set[r].stored
  /\ FillCache(r, set[r].key, set[r].val)
  /\ set' = [set EXCEPT ![r].stored = TRUE]
  /\ UNCHANGED <<redis, written, scan, get, panicked, clock, restarts>>

(* conn.set / conn.set_ex *)
SetRedis(r) ==
  /\ set[r] # Missing
  /\ ~set[r].stored
  /\ StoreInRedis(set[r].key, set[r].val)
  /\ set' = [set EXCEPT ![r].stored = TRUE]
  /\ UNCHANGED <<cache, scan, get, panicked, clock, restarts>>

(* No connection, or the command fails, before or after Redis applied it:  *)
(* `?` returns early.                                                      *)
SetFails(r) ==
  /\ RedisMayFail
  /\ set[r] # Missing
  /\ ~set[r].stored
  /\ \/ UNCHANGED <<redis, written>>
     \/ StoreInRedis(set[r].key, set[r].val)
  /\ set' = [set EXCEPT ![r] = Missing]
  /\ UNCHANGED <<cache, scan, get, panicked, clock, restarts>>

(* "Update cache" *)
SetCache(r) ==
  /\ set[r] # Missing
  /\ set[r].stored
  /\ FillCache(r, set[r].key, set[r].val)
  /\ set' = [set EXCEPT ![r] = Missing]
  /\ UNCHANGED <<redis, scan, get, panicked, clock, restarts, written>>

SetNext(r) ==
  \/ \E k \in Keys : SetCalled(r, k)
  \/ SetRedis(r)
  \/ SetFails(r)
  \/ SetCache(r)

-----------------------------------------------------------------------------
(***************************************************************************)
(* get_certificate and get_challenge.  A call that finds its key in the    *)
(* cache changes nothing and is not shown.                                 *)
(***************************************************************************)
GetMisses(g, k) ==
  /\ get[g] = Missing
  /\ cache[Home[g]][k] = Missing
  /\ get' = [get EXCEPT ![g] = [key |-> k, val |-> Missing]]
  /\ UNCHANGED <<redis, cache, set, scan, panicked, clock, restarts, written>>

(* load_from_redis: a missing key, an error and text that does not parse   *)
(* all come back as None, on which the call ends; so it does when the pool *)
(* has no connection, by a panic that unwinds the handshake or request.    *)
GetLoads(g) ==
  /\ get[g] # Missing
  /\ get[g].val = Missing
  /\ \/ /\ redis[get[g].key] # Missing
        /\ get' = [get EXCEPT ![g].val = redis[get[g].key]]
     \/ /\ redis[get[g].key] = Missing \/ RedisMayFail
        /\ get' = [get EXCEPT ![g] = Missing]
  /\ UNCHANGED <<redis, cache, set, scan, panicked, clock, restarts, written>>

(* The cache is filled whatever happened to it since it was looked at. *)
GetFills(g) ==
  /\ get[g] # Missing
  /\ get[g].val # Missing
  /\ FillCache(Home[g], get[g].key, get[g].val)
  /\ get' = [get EXCEPT ![g] = Missing]
  /\ UNCHANGED <<redis, set, scan, panicked, clock, restarts, written>>

GetNext(g) ==
  \/ \E k \in Keys : GetMisses(g, k)
  \/ GetLoads(g)
  \/ GetFills(g)

-----------------------------------------------------------------------------
(***************************************************************************)
(* get_certificates, which the watch loop of the Let's Encrypt service     *)
(* calls for every route: the cached certificates, then the ones listed by *)
(* KEYS that are not among them, one by one.                               *)
(***************************************************************************)
ScanCopiesCache(r) ==
  /\ TaskIdle(r)
  /\ scan' = [scan EXCEPT ![r] = [phase |-> "keys",
                                  todo |-> {k \in Certs : cache[r][k] = Missing},
                                  key |-> Missing, val |-> Missing]]
  /\ UNCHANGED <<redis, cache, set, get, panicked, clock, restarts, written>>

(* Plausible bug: keys that Redis does not hold are loaded as well. *)
ScanTakesEveryKey(r) ==
  /\ scan[r] # Missing
  /\ scan[r].phase = "keys"
  /\ scan' = [scan EXCEPT ![r].phase = "load"]
  /\ UNCHANGED <<redis, cache, set, get, panicked, clock, restarts, written>>

ScanListsKeys(r) ==
  /\ scan[r] # Missing
  /\ scan[r].phase = "keys"
  /\ scan' = [scan EXCEPT ![r].phase = "load",
                          ![r].todo = {k \in @ : redis[k] # Missing}]
  /\ UNCHANGED <<redis, cache, set, get, panicked, clock, restarts, written>>

ScanLoads(r, k) ==
  /\ scan[r] # Missing
  /\ scan[r].phase = "load"
  /\ scan[r].key = Missing
  /\ k \in scan[r].todo
  /\ scan' = [scan EXCEPT ![r].key = k, ![r].val = redis[k], ![r].todo = @ \ {k}]
  /\ UNCHANGED <<redis, cache, set, get, panicked, clock, restarts, written>>

(* KEYS fails and the call returns what is cached, or one GET fails and    *)
(* that certificate is passed over.                                        *)
ScanCommandFails(r) ==
  /\ RedisMayFail
  /\ scan[r] # Missing
  /\ \/ /\ scan[r].phase = "keys"
        /\ scan' = [scan EXCEPT ![r] = Missing]
     \/ /\ scan[r].phase = "load"
        /\ scan[r].key = Missing
        /\ \E k \in scan[r].todo : scan' = [scan EXCEPT ![r].todo = @ \ {k}]
  /\ UNCHANGED <<redis, cache, set, get, panicked, clock, restarts, written>>

(* pool.get().unwrap() finds no connection: the panic unwinds the task that *)
(* joins all background services, and only a restart brings it back.       *)
ScanPanics(r) ==
  /\ RedisMayFail
  /\ scan[r] # Missing
  /\ scan[r].phase = "keys"
  /\ scan' = [scan EXCEPT ![r] = Missing]
  /\ panicked' = panicked \cup {r}
  /\ UNCHANGED <<redis, cache, set, get, clock, restarts, written>>

(* Plausible bug: a certificate that was found is not kept. *)
ScanFillsNothing(r) ==
  /\ scan[r] # Missing
  /\ scan[r].key # Missing
  /\ scan' = [scan EXCEPT ![r].key = Missing, ![r].val = Missing]
  /\ UNCHANGED <<redis, cache, set, get, panicked, clock, restarts, written>>

(* "Update cache with newly found certificate" *)
ScanFills(r) ==
  /\ scan[r] # Missing
  /\ scan[r].key # Missing
  /\ FillCache(r, scan[r].key, scan[r].val)
  /\ scan' = [scan EXCEPT ![r].key = Missing, ![r].val = Missing]
  /\ UNCHANGED <<redis, set, get, panicked, clock, restarts, written>>

ScanReturns(r) ==
  /\ scan[r] # Missing
  /\ scan[r].phase = "load"
  /\ scan[r].key = Missing
  /\ scan[r].todo = {}
  /\ scan' = [scan EXCEPT ![r] = Missing]
  /\ UNCHANGED <<redis, cache, set, get, panicked, clock, restarts, written>>

ScanNext(r) ==
  \/ ScanCopiesCache(r)
  \/ ScanListsKeys(r)
  \/ \E k \in Certs : ScanLoads(r, k)
  \/ ScanCommandFails(r)
  \/ ScanPanics(r)
  \/ ScanFills(r)
  \/ ScanReturns(r)

-----------------------------------------------------------------------------
(* CHALLENGE_TTL_SECONDS pass in Redis; the caches keep the challenge. *)
Expire(k) ==
  /\ redis[k] # Missing
  /\ redis' = [redis EXCEPT ![k] = Missing]
  /\ UNCHANGED <<cache, set, scan, get, panicked, clock, restarts, written>>

(* The process ends at any point and starts with empty caches. *)
Restart(r) ==
  /\ restarts < MaxRestarts
  /\ restarts' = restarts + 1
  /\ cache' = [cache EXCEPT ![r] = [k \in Keys |-> Missing]]
  /\ set' = [set EXCEPT ![r] = Missing]
  /\ scan' = [scan EXCEPT ![r] = Missing]
  /\ get' = [g \in Readers |-> IF Home[g] = r THEN Missing ELSE get[g]]
  /\ panicked' = panicked \ {r}
  /\ UNCHANGED <<redis, clock, written>>

Init ==
  /\ redis = [k \in Keys |-> Missing]
  /\ cache = [r \in Replicas |-> [k \in Keys |-> Missing]]
  /\ set = [r \in Replicas |-> Missing]
  /\ scan = [r \in Replicas |-> Missing]
  /\ get = [g \in Readers |-> Missing]
  /\ panicked = {}
  /\ clock = 0
  /\ restarts = 0
  /\ written = [k \in Keys |-> {}]

Next ==
  \/ \E r \in Replicas : SetNext(r) \/ ScanNext(r) \/ Restart(r)
  \/ \E g \in Readers : GetNext(g)
  \/ \E k \in Challenges : Expire(k)

(***************************************************************************)
(* The watch loop calls get_certificates every 20 seconds, between other   *)
(* calls of its task; a call that has begun goes on; Redis does not refuse *)
(* the same command for ever.                                              *)
(***************************************************************************)
Fairness ==
  \A r \in Replicas :
    /\ WF_vars(SetRedis(r) \/ SetFails(r) \/ SetCache(r))
    /\ SF_vars(ScanCopiesCache(r))
    /\ SF_vars(ScanListsKeys(r))
    /\ \A k \in Certs : SF_vars(ScanLoads(r, k))
    /\ WF_vars(ScanFills(r) \/ ScanReturns(r))

Spec == Init /\ [][Next]_vars /\ Fairness

-----------------------------------------------------------------------------
(***************************************************************************)
(* Properties.                                                             *)
(***************************************************************************)

(* Every variable stays in its type; a certificate a scan has loaded comes *)
(* with its value.                                                         *)
TypeOK ==
  /\ redis \in [Keys -> Versions \cup {Missing}]
  /\ cache \in [Replicas -> [Keys -> Versions \cup {Missing}]]
  /\ set \in [Replicas -> SetCall \cup {Missing}]
  /\ scan \in [Replicas -> ScanCall \cup {Missing}]
  /\ \A r \in Replicas : scan[r] # Missing =>
       (scan[r].key = Missing <=> scan[r].val = Missing)
  /\ get \in [Readers -> GetCall \cup {Missing}]
  /\ panicked \in SUBSET Replicas
  /\ clock \in 0 .. MaxVersion
  /\ restarts \in 0 .. MaxRestarts
  /\ written \in [Keys -> SUBSET Versions]

View == INSTANCE CertificateView WITH view <- cache

(* However calls of several replicas interleave, fail or die in between, a *)
(* cache holds only what Redis really held (so a restart loses nothing     *)
(* that was served), and an entry disappears only with its process.        *)
ImplementsView == View!Spec

(* A certificate in Redis comes to be cached by every replica, although    *)
(* the replica that set it may crash before its own cache is updated:      *)
(* the scans of get_certificates find it.  The exception is a replica      *)
(* whose scan met a pool without connections: its task has panicked.       *)
EveryReplicaLearns ==
  \A r \in Replicas, k \in Certs :
    []<>(redis[k] # Missing => cache[r][k] # Missing \/ r \in panicked)

SetInFlight(k) == \E r \in Replicas : set[r] # Missing /\ set[r].key = k

(* "This allows multiple replicas of Proksi to handle challenges": while   *)
(* Redis holds a challenge that nobody is replacing, every replica answers *)
(* with it.                                                                *)
ReplicasHandleChallenge ==
  \A r \in Replicas, k \in Challenges :
    redis[k] # Missing /\ ~SetInFlight(k) => Answer(r, k) = redis[k]

-----------------------------------------------------------------------------
(* Inductive strengthening, used by RedisStoreProofs: whatever is on its   *)
(* way to a cache has been in Redis.                                       *)
OnlyWritten ==
  /\ \A k \in Keys : redis[k] # Missing => redis[k] \in written[k]
  /\ \A r \in Replicas : set[r] # Missing /\ set[r].stored =>
       set[r].val \in written[set[r].key]
  /\ \A r \in Replicas : scan[r] # Missing =>
       /\ scan[r].key # Missing => scan[r].val \in written[scan[r].key]
       /\ scan[r].phase = "load" => \A k \in scan[r].todo : redis[k] # Missing
  /\ \A g \in Readers :
       get[g] # Missing /\ get[g].val # Missing => get[g].val \in written[get[g].key]
=============================================================================
