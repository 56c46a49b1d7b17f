----------------------- MODULE RequestPipelineProofs -----------------------
(***************************************************************************)
(* Proofs about RequestPipeline, for any routes, plugins, upstreams and     *)
(* addresses, any number of requests and of attempts.                                 *)
(***************************************************************************)
EXTENDS RequestPipeline, TLAPS

(* The inductive invariant. *)
Inv == TypeOK /\ CallbacksConsistent /\ UniqueIds /\ NotStoredYet

SharedOK ==
  /\ store \in [Hosts -> Routes \cup {None}]
  /\ cache \in [Hosts \X Paths -> Stored \cup {None}]
  /\ cacheDir \in [Hosts -> Cached \cup {None}]

(* The ids that the context of r may have after a step. *)
IdsFor(r) == {0} \cup Unused \cup (IF ctx[r] = None THEN {} ELSE {ctx[r].id})

(* What r may take from the cache or put back there: its values, and the   *)
(* expired one that r holds.                                               *)
Known(r) == {cache[k] : k \in Hosts \X Paths} \cup (IF ctx[r] = None THEN {} ELSE {ctx[r].stale})

(* Where the ids in the new context of r come from. *)
IdsFrom(r, c) ==
  /\ c.id \in IdsFor(r)
  /\ c.stale \in Known(r) \cup {None}
  /\ ctx[r] # None /\ ctx[r].status = "ok" => c.status = "ok"
  /\ c.status # "ok" =>
       \/ c.respId = 0
       \/ [id |-> c.respId] \in Known(r)
       \/ ctx[r] # None /\ c.id = ctx[r].id /\ c.respId = ctx[r].respId

(* Where the ids in the cache come from: the request's own is put there    *)
(* with the upstream's answer only.                                        *)
CacheFrom(r, c) ==
  \A k \in Hosts \X Paths :
    \/ cache'[k] \in Known(r) \cup {None, [id |-> 0]}
    \/ c # None /\ c.status = "ok" /\ cache'[k] = [id |-> c.id]

(* An id not yet stored is not among what another request knows. *)
LEMMA NotKnown ==
  ASSUME Inv, NEW r \in Requests, NEW i \in Ids \ {0},
         \/ i \in Unused
         \/ \E q \in Requests : ctx[q] # None /\ ctx[q].id = i /\ ctx[q].status # "ok"
  PROVE  /\ [id |-> i] \notin Known(r) \cup {None, [id |-> 0]}
         /\ \A q \in Requests : ctx[q] # None => ctx[q].stale # [id |-> i]
<1>1. [id |-> i] \in Stored /\ [id |-> i] # None
  BY NoneNotRecord DEF Stored
<1>2. [id |-> i] # [id |-> 0]
  <2>1. [id |-> i].id # [id |-> 0].id
    OBVIOUS
  <2> QED BY <2>1
<1>3. /\ \A k \in Hosts \X Paths : cache[k] # [id |-> i]
      /\ \A q \in Requests : ctx[q] # None => ctx[q].stale # [id |-> i]
  BY DEF Unused, Inv, NotStoredYet
<1> QED BY <1>1, <1>2, <1>3 DEF Known

(* A step of one request keeps the invariant if its new context is fine    *)
(* by itself, and if its ids and the cache's are where they should be.     *)
LEMMA Becoming ==
  ASSUME Inv, NEW r \in Requests, NEW c \in Context \cup {None}, Becomes(r, c),
         SharedOK', CacheFrom(r, c), c # None => Consistent(c) /\ IdsFrom(r, c)
  PROVE  Inv'
<1>1. ctx \in [Requests -> Context \cup {None}]
  BY DEF Inv, TypeOK
<1>2. /\ ctx' \in [Requests -> Context \cup {None}]
      /\ ctx'[r] = c /\ \A q \in Requests \ {r} : ctx'[q] = ctx[q]
  BY <1>1 DEF Becomes
<1>3. TypeOK'
  BY <1>2 DEF TypeOK, SharedOK
<1>4. CallbacksConsistent'
  BY <1>2 DEF Inv, CallbacksConsistent
<1>5. ASSUME NEW q \in Requests \ {r}, c # None, ctx[q] # None, c.id # 0
      PROVE  c.id # ctx[q].id
  BY <1>5 DEF IdsFrom, IdsFor, Unused, Inv, UniqueIds
<1>6. UniqueIds'
  BY <1>2, <1>5 DEF Inv, UniqueIds
<1>7. ASSUME NEW q \in Requests, ctx'[q] # None, ctx'[q].id # 0, ctx'[q].status # "ok"
      PROVE  /\ \A k \in Hosts \X Paths : cache'[k] # [id |-> ctx'[q].id]
             /\ \A o \in Requests : ctx'[o] # None => ctx'[o].stale # [id |-> ctx'[q].id]
             /\ ctx'[q].respId # ctx'[q].id
  <2> PICK i \in Ids \ {0} : i = ctx'[q].id
    BY <1>2, <1>7 DEF Context
  <2>1. \/ i \in Unused
        \/ \E o \in Requests : ctx[o] # None /\ ctx[o].id = i /\ ctx[o].status # "ok"
    BY <1>2, <1>7 DEF IdsFrom, IdsFor
  <2>2. /\ [id |-> i] \notin Known(r) \cup {None, [id |-> 0]}
        /\ \A o \in Requests : ctx[o] # None => ctx[o].stale # [id |-> i]
    BY <2>1, NotKnown
  <2>3. ASSUME NEW k \in Hosts \X Paths PROVE cache'[k] # [id |-> i]
    <3>1. CASE c # None /\ c.status = "ok" /\ cache'[k] = [id |-> c.id]
      <4>1. q # r
        BY <1>2, <1>7, <3>1
      <4>2. c.id # i
        BY <1>2, <1>5, <1>7, <3>1, <4>1
      <4>3. [id |-> c.id].id # [id |-> i].id
        BY <4>2
      <4> QED BY <3>1, <4>3
    <3> QED BY <2>2, <3>1 DEF CacheFrom
  <2>4. ASSUME NEW o \in Requests, ctx'[o] # None PROVE ctx'[o].stale # [id |-> i]
    BY <1>2, <2>2, <2>4 DEF IdsFrom
  <2>5. ctx'[q].respId # i
    <3>1. CASE q # r
      BY <1>2, <1>7, <3>1 DEF Inv, NotStoredYet
    <3>2. CASE q = r
      <4>1. c.respId # i \/ (ctx[r] # None /\ c.id = ctx[r].id /\ c.respId = ctx[r].respId)
        BY <1>2, <1>7, <2>2, <3>2 DEF IdsFrom
      <4>2. CASE ctx[r] # None /\ c.id = ctx[r].id /\ c.respId = ctx[r].respId
        BY <1>2, <1>7, <3>2, <4>2 DEF IdsFrom, Inv, NotStoredYet
      <4> QED BY <1>2, <3>2, <4>1, <4>2
    <3> QED BY <3>1, <3>2
  <2> QED BY <2>3, <2>4, <2>5
<1>8. NotStoredYet'
  BY <1>7 DEF NotStoredYet
<1> QED BY <1>3, <1>4, <1>6, <1>8 DEF Inv

(* The new context has the ids of the old one. *)
Same(r, c) ==
  /\ c.id = ctx[r].id /\ c.respId = ctx[r].respId /\ c.stale \in {ctx[r].stale, None}
  /\ ctx[r].status = "ok" => c.status = "ok"

LEMMA CacheUnchanged ==
  ASSUME NEW r, NEW c, UNCHANGED cache
  PROVE  CacheFrom(r, c)
BY DEF CacheFrom, Known

(* Most steps: no id is new, and nothing is stored. *)
LEMMA Quiet ==
  ASSUME Inv, NEW r \in Requests, ctx[r] \in Context, NEW c \in Context, Becomes(r, c),
         SharedOK' /\ UNCHANGED cache, Consistent(c) /\ Same(r, c)
  PROVE  Inv'
<1>1. ctx[r] # None
  BY NoneNotRecord
<1>2. IdsFrom(r, c)
  BY <1>1 DEF Same, IdsFrom, IdsFor, Known
<1> QED BY <1>2, CacheUnchanged, Becoming

(* What the invariant says of the context of a request in a phase. *)
LEMMA Current ==
  ASSUME Inv, NEW r \in Requests, NEW p, InPhase(r, p)
  PROVE  ctx[r] \in Context /\ Consistent(ctx[r]) /\ ctx[r].phase = p
BY DEF Inv, TypeOK, CallbacksConsistent, InPhase, IdsFor

(* Shared state that no action of a request touches stays well typed. *)
LEMMA SharedKept ==
  ASSUME Inv, UNCHANGED shared
  PROVE  SharedOK' /\ UNCHANGED cache
BY DEF Inv, TypeOK, SharedOK, shared

(* A new id is one of the ids that nothing uses. *)
LEMMA NewIdUnused ==
  ASSUME Unused # {}
  PROVE  NewId \in Unused /\ NewId \in Ids
<1>1. NewId \in Unused
  BY DEF NewId
<1> QED BY <1>1, BoundsType DEF Unused, Ids

(* new_ctx gives a context. *)
LEMMA NewCtxType ==
  ASSUME NEW h \in Hosts, NEW p \in Paths
  PROVE  NewCtx(h, p) \in Context
<1>1. 0 \in Ids /\ 0 \in 0 .. MaxRetries
  BY BoundsType DEF Ids
<1>2. {} \in SUBSET Plugin
  OBVIOUS
<1> QED BY <1>1, <1>2 DEF NewCtx, Context

-----------------------------------------------------------------------------
(***************************************************************************)
(* One lemma per group of callbacks.                                       *)
(***************************************************************************)
(* A request arrives: a 404, or the plugins start. *)
LEMMA ArriveKeeps ==
  ASSUME Inv, NEW r \in Requests, Arrive(r)
  PROVE  Inv'
<1> PICK h \in Hosts, p \in Paths : NotFound(r, h, p) \/ Found(r, h, p)
  BY DEF Arrive
<1>1. CASE NotFound(r, h, p)
  <2> DEFINE c == [NewCtx(h, p) EXCEPT !.phase = "logging", !.status = "404"]
  <2>1. c \in Context
    <3>1. NewCtx(h, p) \in Context
      BY NewCtxType
    <3> QED BY <3>1 DEF Context
  <2>2. Consistent(c) /\ c.id = 0 /\ c.stale = None /\ c.respId = 0
    BY DEF NewCtx, Consistent, BeforeRoute, AfterRoute, AnswerLast, PeerChosen, SentFrom, IdSent, Served
  <2>3. Becomes(r, c) /\ SharedOK' /\ UNCHANGED cache /\ ctx[r] = None
    BY <1>1, SharedKept DEF NotFound
  <2> HIDE DEF c
  <2>4. IdsFrom(r, c)
    BY <2>2, <2>3 DEF IdsFrom, IdsFor
  <2> QED BY <2>1, <2>2, <2>3, <2>4, CacheUnchanged, Becoming
<1>2. CASE Found(r, h, p)
  <2> DEFINE c == [NewCtx(h, p) EXCEPT !.found = store[h], !.todo = PluginsOf[store[h]]]
  <2>0. store[h] \in Routes /\ store[h] # None
    BY <1>2 DEF Found, Inv, TypeOK
  <2>1. c \in Context
    <3>1. PluginsOf[store[h]] \in SUBSET Plugin
      BY <2>0, RoutesType
    <3>2. NewCtx(h, p) \in Context
      BY NewCtxType
    <3> QED BY <2>0, <3>1, <3>2 DEF Context
  <2>2. Consistent(c) /\ c.id = 0 /\ c.stale = None /\ c.respId = 0
    BY <2>0 DEF NewCtx, Consistent, BeforeRoute, AfterRoute, AnswerLast, PeerChosen, SentFrom, IdSent, Served
  <2>3. Becomes(r, c) /\ SharedOK' /\ UNCHANGED cache /\ ctx[r] = None
    BY <1>2, SharedKept DEF Found
  <2> HIDE DEF c
  <2>4. IdsFrom(r, c)
    BY <2>2, <2>3 DEF IdsFrom, IdsFor
  <2> QED BY <2>1, <2>2, <2>3, <2>4, CacheUnchanged, Becoming
<1> QED BY <1>1, <1>2

(* A plugin sets the id, lets the request pass, answers it, or both. *)
LEMMA PluginsKeep ==
  ASSUME Inv, NEW r \in Requests, RunPlugin(r)
  PROVE  Inv'
<1>1. CASE RequestIdFilter(r)
  <2> DEFINE c == [Ran(r, "request_id") EXCEPT !.id = NewId]
  <2>0. ctx[r] \in Context /\ Consistent(ctx[r]) /\ ctx[r].phase = "plugins"
    BY <1>1, Current DEF RequestIdFilter
  <2>1. NewId \in Unused /\ NewId \in Ids /\ "request_id" \in ctx[r].todo
    BY <1>1, NewIdUnused DEF RequestIdFilter
  <2>2. c \in Context
    BY <2>0, <2>1 DEF Ran, Context, Plugin
  <2>3. /\ Consistent(c) /\ c.id = NewId /\ c.stale = ctx[r].stale /\ c.respId = 0
        /\ ctx[r].status = "none" /\ ctx[r] # None
    BY <2>0, <2>1, NoneNotRecord
    DEF Ran, Context, Consistent, BeforeRoute, AfterRoute, AnswerLast, PeerChosen, SentFrom, IdSent, Served
  <2>4. Becomes(r, c) /\ SharedOK' /\ UNCHANGED cache
    BY <1>1, SharedKept DEF RequestIdFilter
  <2> HIDE DEF c
  <2>5. IdsFrom(r, c)
    BY <2>1, <2>3 DEF IdsFrom, IdsFor, Known
  <2> QED BY <2>2, <2>3, <2>4, <2>5, CacheUnchanged, Becoming
<1>2. ASSUME NEW name \in Plugin, Passed(r, name) PROVE Inv'
  <2> DEFINE c == Ran(r, name)
  <2>0. ctx[r] \in Context /\ Consistent(ctx[r]) /\ ctx[r].phase = "plugins"
    BY <1>2, Current DEF Passed
  <2>1. name \in ctx[r].todo
    BY <1>2 DEF Passed
  <2>2. c \in Context
    BY <2>0, <2>1 DEF Ran, Context
  <2>3. Consistent(c) /\ Same(r, c)
    BY <2>0, <2>1 DEF Ran, Context, Consistent, BeforeRoute, AfterRoute, AnswerLast, PeerChosen, SentFrom, IdSent, Served, Same
  <2>4. Becomes(r, c) /\ SharedOK' /\ UNCHANGED cache
    BY <1>2, SharedKept DEF Passed
  <2> QED BY <2>0, <2>2, <2>3, <2>4, Quiet
<1>3. ASSUME NEW name \in Plugin, Handled(r, name) PROVE Inv'
  <2> DEFINE c == [Ran(r, name) EXCEPT !.phase = "logging", !.status = "plugin"]
  <2>0. ctx[r] \in Context /\ Consistent(ctx[r]) /\ ctx[r].phase = "plugins"
    BY <1>3, Current DEF Handled
  <2>2. c \in Context
    BY <2>0 DEF Ran, Context
  <2>3. Consistent(c) /\ Same(r, c)
    BY <2>0 DEF Ran, Context, Consistent, BeforeRoute, AfterRoute, AnswerLast, PeerChosen, SentFrom, IdSent, Served, Same
  <2>4. Becomes(r, c) /\ SharedOK' /\ UNCHANGED cache
    BY <1>3, SharedKept DEF Handled
  <2> QED BY <2>0, <2>2, <2>3, <2>4, Quiet
<1>4. CASE Denied(r)
  <2> DEFINE c == [Ran(r, "oauth2") EXCEPT !.denied = TRUE]
  <2>0. ctx[r] \in Context /\ Consistent(ctx[r]) /\ ctx[r].phase = "plugins"
    BY <1>4, Current DEF Denied
  <2>1. "oauth2" \in ctx[r].todo
    BY <1>4 DEF Denied
  <2>2. c \in Context
    BY <2>0, <2>1 DEF Ran, Context
  <2>3. Consistent(c) /\ Same(r, c)
    BY <2>0, <2>1 DEF Ran, Context, Consistent, BeforeRoute, AfterRoute, AnswerLast, PeerChosen, SentFrom, IdSent, Served, Same
  <2>4. Becomes(r, c) /\ SharedOK' /\ UNCHANGED cache
    BY <1>4, SharedKept DEF Denied
  <2> QED BY <2>0, <2>2, <2>3, <2>4, Quiet
<1> QED BY <1>1, <1>2, <1>3, <1>4 DEF RunPlugin

(* The context gets the route whose plugins ran. *)
LEMMA EndOfRequestFilterKeeps ==
  ASSUME Inv, NEW r \in Requests, EndRequestFilter(r)
  PROVE  Inv'
<1> DEFINE p == IF ctx[r].found \in Cached THEN "lookup" ELSE "peer"
<1> DEFINE c == [ctx[r] EXCEPT !.route = ctx[r].found, !.phase = p]
<1>1. /\ ctx[r] \in Context /\ Consistent(ctx[r]) /\ ctx[r].phase = "plugins"
      /\ ctx[r].todo = {}
  BY Current DEF EndRequestFilter
<1>2. c \in Context
  <2>1. p \in {"lookup", "peer"}
    OBVIOUS
  <2>2. ctx[r].found \in Routes \cup {None}
    BY <1>1 DEF Context
  <2> HIDE DEF p
  <2> QED BY <1>1, <2>1, <2>2 DEF Context
<1>3. ctx[r].found # None /\ ctx[r].ran = PluginsOf[ctx[r].found]
  BY <1>1 DEF Consistent, BeforeRoute, Context
<1>4. Consistent(c) /\ Same(r, c)
  BY <1>1, <1>3 DEF Context, Consistent, BeforeRoute, AfterRoute, AnswerLast, PeerChosen, SentFrom, IdSent, Served, Same
<1>5. Becomes(r, c) /\ SharedOK' /\ UNCHANGED cache
  BY <1>1 DEF EndRequestFilter, InsertCacheRouting, Inv, TypeOK, SharedOK, Context
<1> QED BY <1>1, <1>2, <1>4, <1>5, Quiet

(* A value of the cache is a stored id that any request knows. *)
LEMMA CacheKnown ==
  ASSUME Inv, NEW r \in Requests, ctx[r] \in Context, cache[CacheKey(r)] # None
  PROVE  /\ cache[CacheKey(r)] \in Stored /\ cache[CacheKey(r)] \in Known(r)
         /\ cache[CacheKey(r)].id \in Ids
         /\ [id |-> cache[CacheKey(r)].id] = cache[CacheKey(r)]
<1>1. CacheKey(r) \in Hosts \X Paths
  BY DEF CacheKey, Context
<1>2. cache[CacheKey(r)] \in Stored
  BY <1>1 DEF Inv, TypeOK
<1> QED BY <1>1, <1>2 DEF Known, Stored

(* A lookup in the cache. *)
LEMMA CacheKeeps ==
  ASSUME Inv, NEW r \in Requests, CacheHit(r) \/ CacheExpired(r) \/ CacheMiss(r)
  PROVE  Inv'
<1>0. /\ ctx[r] \in Context /\ Consistent(ctx[r]) /\ ctx[r].phase = "lookup"
      /\ SharedOK' /\ UNCHANGED cache
  BY Current, SharedKept DEF CacheHit, CacheExpired, CacheMiss
<1>3. ctx[r].status = "none" /\ ctx[r].respId = 0 /\ ctx[r] # None
  BY <1>0, NoneNotRecord DEF Consistent, AnswerLast, Served
<1>1. CASE CacheHit(r)
  <2> DEFINE c == [ctx[r] EXCEPT !.phase = "respond", !.status = "hit",
                                 !.respId = cache[CacheKey(r)].id]
  <2>1. cache[CacheKey(r)].id \in Ids /\ [id |-> cache[CacheKey(r)].id] \in Known(r)
    BY <1>0, <1>1, CacheKnown DEF CacheHit
  <2>2. c \in Context
    BY <1>0, <2>1 DEF Context
  <2>3. /\ Consistent(c) /\ c.id = ctx[r].id /\ c.stale = ctx[r].stale
        /\ c.respId = cache[CacheKey(r)].id /\ c.status = "hit"
    BY <1>0 DEF Context, Consistent, BeforeRoute, AfterRoute, AnswerLast, PeerChosen, SentFrom, IdSent, Served
  <2>4. Becomes(r, c)
    BY <1>1 DEF CacheHit
  <2> HIDE DEF c
  <2>5. IdsFrom(r, c)
    BY <1>3, <2>1, <2>3 DEF IdsFrom, IdsFor, Known
  <2> QED BY <1>0, <2>2, <2>3, <2>4, <2>5, CacheUnchanged, Becoming
<1>2. CASE CacheExpired(r)
  <2> DEFINE c == [ctx[r] EXCEPT !.phase = "peer", !.stale = cache[CacheKey(r)]]
  <2>1. cache[CacheKey(r)] \in Stored /\ cache[CacheKey(r)] \in Known(r)
    BY <1>0, <1>2, CacheKnown DEF CacheExpired
  <2>2. c \in Context
    BY <1>0, <2>1 DEF Context
  <2>3. /\ Consistent(c) /\ c.id = ctx[r].id /\ c.stale = cache[CacheKey(r)]
        /\ c.respId = 0 /\ c.status = "none"
    BY <1>0, <1>3 DEF Context, Consistent, BeforeRoute, AfterRoute, AnswerLast, PeerChosen, SentFrom, IdSent, Served
  <2>4. Becomes(r, c)
    BY <1>2 DEF CacheExpired
  <2> HIDE DEF c
  <2>5. IdsFrom(r, c)
    BY <1>3, <2>1, <2>3 DEF IdsFrom, IdsFor
  <2> QED BY <1>0, <2>2, <2>3, <2>4, <2>5, CacheUnchanged, Becoming
<1>4. CASE CacheMiss(r)
  <2> DEFINE c == [ctx[r] EXCEPT !.phase = "peer"]
  <2>1. c \in Context
    BY <1>0 DEF Context
  <2>2. Consistent(c) /\ Same(r, c)
    BY <1>0 DEF Context, Consistent, BeforeRoute, AfterRoute, AnswerLast, PeerChosen, SentFrom, IdSent, Served, Same
  <2> QED BY <1>0, <1>4, <2>1, <2>2, Quiet DEF CacheMiss
<1> QED BY <1>1, <1>2, <1>4

(* The peer and its upstream, of the context's route. *)
LEMMA UpstreamPeerKeeps ==
  ASSUME Inv, NEW r \in Requests, UpstreamPeer(r)
  PROVE  Inv'
<1> PICK u \in UpstreamsOf[ctx[r].route] : \E a \in MayResolve[u] :
      Becomes(r, [ctx[r] EXCEPT !.phase = "connect", !.peer = a, !.upstream = u])
  BY DEF UpstreamPeer
<1> PICK a \in MayResolve[u] :
      Becomes(r, [ctx[r] EXCEPT !.phase = "connect", !.peer = a, !.upstream = u])
  OBVIOUS
<1> DEFINE c == [ctx[r] EXCEPT !.phase = "connect", !.peer = a, !.upstream = u]
<1>0. /\ ctx[r] \in Context /\ Consistent(ctx[r]) /\ ctx[r].phase = "peer"
      /\ SharedOK' /\ UNCHANGED cache
  BY Current, SharedKept DEF UpstreamPeer
<1>1. ctx[r].route \in Routes /\ ctx[r].status = "none"
  BY <1>0 DEF Consistent, AfterRoute, AnswerLast, Context
<1>2. u \in Upstreams /\ a \in Addresses
  BY <1>1, RoutesType
<1>3. c \in Context
  BY <1>0, <1>2 DEF Context
<1>4. Consistent(c) /\ Same(r, c)
  BY <1>0 DEF Context, Consistent, BeforeRoute, AfterRoute, AnswerLast, PeerChosen, SentFrom, IdSent, Served, Same
<1> QED BY <1>0, <1>3, <1>4, Quiet

(* A panic leaves nothing of the request. *)
LEMMA UpstreamPeerPanicsKeeps ==
  ASSUME Inv, NEW r \in Requests, UpstreamPeerPanics(r)
  PROVE  Inv'
BY SharedKept, CacheUnchanged, Becoming DEF UpstreamPeerPanics

(* The headers sent are those of the peer's upstream. *)
LEMMA SendingKeeps ==
  ASSUME Inv, NEW r \in Requests, Connected(r) \/ UpstreamRequestFilter(r)
  PROVE  Inv'
<1>0. /\ ctx[r] \in Context /\ Consistent(ctx[r]) /\ ctx[r].phase \in {"connect", "send"}
      /\ SharedOK' /\ UNCHANGED cache
  BY Current, SharedKept DEF Connected, UpstreamRequestFilter
<1>1. CASE Connected(r)
  <2> DEFINE c == [ctx[r] EXCEPT !.phase = "send"]
  <2>1. c \in Context
    BY <1>0 DEF Context
  <2>2. Consistent(c) /\ Same(r, c)
    BY <1>0 DEF Context, Consistent, BeforeRoute, AfterRoute, AnswerLast, PeerChosen, SentFrom, IdSent, Served, Same
  <2> QED BY <1>0, <1>1, <2>1, <2>2, Quiet DEF Connected
<1>2. CASE UpstreamRequestFilter(r)
  <2> DEFINE f == [peer |-> ctx[r].peer, headers |-> ctx[r].upstream,
                   id |-> IF HasRequestId(r) THEN ctx[r].id ELSE 0]
  <2> DEFINE c == [ctx[r] EXCEPT !.phase = "upstream", !.forwarded = f]
  <2>0. ctx[r].phase = "send"
    BY <1>2 DEF UpstreamRequestFilter, InPhase
  <2>1. /\ ctx[r].route \in Routes /\ ctx[r].status = "none"
        /\ ctx[r].upstream \in UpstreamsOf[ctx[r].route] /\ ctx[r].peer \in MayResolve[ctx[r].upstream]
    BY <1>0, <2>0 DEF Consistent, AfterRoute, AnswerLast, PeerChosen, Context
  <2>2. f \in Forwarded /\ f # None
    <3>1. ctx[r].upstream \in Upstreams
      BY <2>1, RoutesType
    <3>2. ctx[r].peer \in Addresses
      BY <2>1, <3>1, RoutesType
    <3> QED BY <1>0, <2>1, <3>1, <3>2, BoundsType, NoneNotRecord DEF Forwarded, Ids, Context
  <2>3. /\ f.peer = ctx[r].peer /\ f.headers = ctx[r].upstream
        /\ f.id = IdSent(ctx[r])
    BY <2>1 DEF HasRequestId, IdSent
  <2>4. Becomes(r, c)
    BY <1>2 DEF UpstreamRequestFilter
  <2> HIDE DEF f
  <2>5. c \in Context
    BY <1>0, <2>2 DEF Context
  <2>6. Consistent(c) /\ Same(r, c)
    BY <1>0, <2>1, <2>2, <2>3 DEF Context, Consistent, BeforeRoute, AfterRoute, AnswerLast, PeerChosen, SentFrom, IdSent, Served, Same
  <2> QED BY <1>0, <2>4, <2>5, <2>6, Quiet
<1> QED BY <1>1, <1>2

(* Another attempt, or none. *)
LEMMA OutcomesKeep ==
  ASSUME Inv, NEW r \in Requests, Retry(r) \/ UpstreamFails(r)
  PROVE  Inv'
<1>0. /\ ctx[r] \in Context /\ Consistent(ctx[r]) /\ ctx[r].phase \in {"peer", "connect", "upstream"}
      /\ SharedOK' /\ UNCHANGED cache
  BY Current, SharedKept DEF Retry, UpstreamFails
<1>1. CASE Retry(r)
  <2> DEFINE c == [ctx[r] EXCEPT !.phase = "peer", !.retries = @ + 1]
  <2>1. ctx[r].retries + 1 \in 0 .. MaxRetries
    BY <1>0, <1>1, BoundsType DEF Retry, Context
  <2>2. c \in Context
    BY <1>0, <2>1 DEF Context
  <2>3. Consistent(c) /\ Same(r, c)
    BY <1>0 DEF Context, Consistent, BeforeRoute, AfterRoute, AnswerLast, PeerChosen, SentFrom, IdSent, Served, Same
  <2> QED BY <1>0, <1>1, <2>2, <2>3, Quiet DEF Retry
<1>2. CASE UpstreamFails(r)
  <2> DEFINE c == [ctx[r] EXCEPT !.phase = "logging", !.status = "error", !.stale = None]
  <2>1. c \in Context
    BY <1>0 DEF Context
  <2>2. Consistent(c) /\ Same(r, c)
    BY <1>0 DEF Context, Consistent, BeforeRoute, AfterRoute, AnswerLast, PeerChosen, SentFrom, IdSent, Served, Same
  <2> QED BY <1>0, <1>2, <2>1, <2>2, Quiet DEF UpstreamFails
<1> QED BY <1>1, <1>2

(* The answer, and the cache, get the id of the request. *)
LEMMA UpstreamResponseKeeps ==
  ASSUME Inv, NEW r \in Requests, UpstreamResponse(r)
  PROVE  Inv'
<1> DEFINE id == IF HasRequestId(r) THEN ctx[r].id ELSE 0
<1> DEFINE c == [ctx[r] EXCEPT !.phase = "respond", !.status = "ok", !.respId = id, !.stale = None]
<1>1. ctx[r] \in Context /\ Consistent(ctx[r]) /\ ctx[r].phase = "upstream" /\ ctx[r] # None
  BY Current, NoneNotRecord DEF UpstreamResponse
<1>2. id \in Ids /\ id = IdSent(ctx[r]) /\ id \in {0, ctx[r].id}
  BY <1>1, BoundsType DEF Ids, Context, HasRequestId, IdSent
<1>3. CacheKey(r) \in Hosts \X Paths
  BY <1>1 DEF CacheKey, Context
<1>4. Becomes(r, c) /\ SharedOK'
  <2>1. [id |-> id] \in Stored
    BY <1>2 DEF Stored
  <2> QED BY <1>3, <2>1 DEF UpstreamResponse, Inv, TypeOK, SharedOK
<1>5. cache' = cache \/ cache' = [cache EXCEPT ![CacheKey(r)] = [id |-> id]]
  BY DEF UpstreamResponse
<1> HIDE DEF id
<1>6. c \in Context
  <2>1. id \in Ids
    BY <1>2
  <2>2. ctx[r] \in Context
    BY <1>1
  <2> QED BY <2>1, <2>2 DEF Context
<1>7. Consistent(c) /\ c.id = ctx[r].id /\ c.stale = None /\ c.status = "ok"
  BY <1>1, <1>2 DEF Context, Consistent, BeforeRoute, AfterRoute, AnswerLast, PeerChosen, SentFrom, IdSent, Served
<1> HIDE DEF c
<1>8. IdsFrom(r, c)
  BY <1>1, <1>7 DEF IdsFrom, IdsFor
<1>9. CacheFrom(r, c)
  <2>1. c # None
    BY <1>6, NoneNotRecord
  <2>2. ASSUME NEW k \in Hosts \X Paths PROVE cache'[k] \in {cache[k], [id |-> id]}
    BY <1>3, <1>5 DEF Inv, TypeOK
  <2>3. [id |-> id] = [id |-> 0] \/ [id |-> id] = [id |-> c.id]
    BY <1>2, <1>7
  <2> QED BY <1>7, <2>1, <2>2, <2>3 DEF CacheFrom, Known
<1> QED BY <1>4, <1>6, <1>7, <1>8, <1>9, Becoming

(* The expired response is answered with, and put back, with its id. *)
LEMMA RevalidatedKeeps ==
  ASSUME Inv, NEW r \in Requests, Revalidated(r)
  PROVE  Inv'
<1> DEFINE c == [ctx[r] EXCEPT !.phase = "respond", !.status = "revalidated",
                               !.respId = ctx[r].stale.id, !.stale = None]
<1>1. ctx[r] \in Context /\ Consistent(ctx[r]) /\ ctx[r].phase = "upstream" /\ ctx[r] # None
  BY Current, NoneNotRecord DEF Revalidated
<1>2. /\ ctx[r].stale \in Stored /\ ctx[r].stale.id \in Ids
      /\ [id |-> ctx[r].stale.id] = ctx[r].stale
      /\ ctx[r].stale \in Known(r)
  <2>1. ctx[r].stale \in Stored
    BY <1>1 DEF Revalidated, Context
  <2> QED BY <1>1, <2>1 DEF Stored, Known
<1>3. CacheKey(r) \in Hosts \X Paths
  BY <1>1 DEF CacheKey, Context
<1>4. Becomes(r, c) /\ SharedOK'
  BY <1>2, <1>3 DEF Revalidated, Inv, TypeOK, SharedOK
<1>5. c \in Context
  BY <1>1, <1>2 DEF Context
<1>6. ctx[r].status = "none" /\ ctx[r].route \in Cached
  BY <1>1 DEF Revalidated, Consistent, AnswerLast
<1>7. /\ Consistent(c) /\ c.id = ctx[r].id /\ c.stale = None /\ c.status = "revalidated"
      /\ c.respId = ctx[r].stale.id
  BY <1>1, <1>6 DEF Context, Consistent, BeforeRoute, AfterRoute, AnswerLast, PeerChosen, SentFrom, IdSent, Served
<1> HIDE DEF c
<1>8. IdsFrom(r, c)
  BY <1>1, <1>2, <1>6, <1>7 DEF IdsFrom, IdsFor
<1>9. CacheFrom(r, c)
  <2>1. ASSUME NEW k \in Hosts \X Paths PROVE cache'[k] \in {cache[k], ctx[r].stale}
    BY <1>3 DEF Revalidated, Inv, TypeOK
  <2> QED BY <1>2, <2>1 DEF CacheFrom, Known
<1> QED BY <1>4, <1>5, <1>7, <1>8, <1>9, Becoming

(* The answer's headers, and the end of the request. *)
LEMMA EndKeeps ==
  ASSUME Inv, NEW r \in Requests, ResponseFilter(r) \/ Logging(r)
  PROVE  Inv'
<1>0. SharedOK' /\ UNCHANGED cache
  BY SharedKept DEF ResponseFilter, Logging
<1>1. CASE ResponseFilter(r)
  <2> DEFINE c == [ctx[r] EXCEPT !.phase = "logging", !.respHeaders = ctx[r].route]
  <2>0. /\ ctx[r] \in Context /\ Consistent(ctx[r]) /\ ctx[r].phase = "respond"
       
    BY <1>1, Current DEF ResponseFilter
  <2>1. c \in Context
    BY <2>0 DEF Context
  <2>2. Consistent(c) /\ Same(r, c)
    BY <2>0 DEF Context, Consistent, BeforeRoute, AfterRoute, AnswerLast, PeerChosen, SentFrom, IdSent, Served, Same
  <2> QED BY <1>0, <1>1, <2>0, <2>1, <2>2, Quiet DEF ResponseFilter
<1>2. CASE Logging(r)
  BY <1>0, <1>2, CacheUnchanged, Becoming DEF Logging
<1> QED BY <1>1, <1>2

-----------------------------------------------------------------------------
(* No request yet. *)
LEMMA Initially == Init => Inv
<1> SUFFICES ASSUME Init PROVE Inv
  OBVIOUS
<1>1. TypeOK
  BY DEF Init, TypeOK
<1>2. CallbacksConsistent /\ UniqueIds /\ NotStoredYet
  BY DEF Init, CallbacksConsistent, UniqueIds, NotStoredYet
<1> QED BY <1>1, <1>2 DEF Inv

(* Every step keeps the invariant. *)
LEMMA StepKeeps == Inv /\ [Next]_vars => Inv'
<1> SUFFICES ASSUME Inv, [Next]_vars PROVE Inv'
  OBVIOUS
<1>1. CASE UNCHANGED vars
  BY <1>1 DEF vars, Inv, TypeOK, CallbacksConsistent, UniqueIds, NotStoredYet
<1>2. ASSUME NEW r \in Requests, Arrive(r) PROVE Inv'
  BY <1>2, ArriveKeeps
<1>3. ASSUME NEW r \in Requests, Step(r) PROVE Inv'
  BY <1>3, PluginsKeep, EndOfRequestFilterKeeps, CacheKeeps, UpstreamPeerKeeps,
     UpstreamPeerPanicsKeeps, SendingKeeps, OutcomesKeep, UpstreamResponseKeeps, RevalidatedKeeps,
     EndKeeps DEF Step
<1>4. ASSUME NEW h \in Hosts, ReplaceRoute(h) PROVE Inv'
  <2>1. TypeOK'
    BY <1>4 DEF ReplaceRoute, Inv, TypeOK
  <2>2. CallbacksConsistent' /\ UniqueIds' /\ NotStoredYet'
    BY <1>4 DEF ReplaceRoute, Inv, CallbacksConsistent, UniqueIds, NotStoredYet
  <2> QED BY <2>1, <2>2 DEF Inv
<1> QED BY <1>1, <1>2, <1>3, <1>4 DEF Next

(* The invariant holds throughout. *)
LEMMA Invariance == Spec => []Inv
BY Initially, StepKeeps, PTL DEF Spec

(* Every variable stays in its type, attempts stay below pingora's bound.  *)
THEOREM PipelineTypeCorrect == Spec => []TypeOK
<1>1. Inv => TypeOK
  BY DEF Inv
<1> QED BY <1>1, Invariance, PTL

(* One route decides all of a request, however often the routing service   *)
(* replaces the host's route meanwhile.                                    *)
THEOREM RouteDecidedOnce == Spec => []OneRouteDecides
<1>1. Inv => OneRouteDecides
  <2> SUFFICES ASSUME Inv, NEW r \in Requests, ctx[r] # None
               PROVE  /\ ctx[r].forwarded # None =>
                           /\ ctx[r].ran = PluginsOf[ctx[r].route]
                           /\ ctx[r].forwarded.headers \in UpstreamsOf[ctx[r].route]
                      /\ Done(r, Served) =>
                           /\ ctx[r].ran = PluginsOf[ctx[r].route]
                           /\ ctx[r].respHeaders = ctx[r].route
    BY DEF OneRouteDecides, Done, InPhase
  <2>1. ctx[r] \in Context /\ Consistent(ctx[r])
    BY DEF Inv, TypeOK, CallbacksConsistent
  <2> QED BY <2>1 DEF Done, InPhase, Consistent, BeforeRoute, AfterRoute, AnswerLast, SentFrom, Served
<1> QED BY <1>1, Invariance, PTL

(* What a plugin or a 404 has answered is neither sent nor answered again. *)
THEOREM NoSecondAnswer == Spec => []AnsweredOnce
<1>1. Inv => AnsweredOnce
  BY DEF Inv, CallbacksConsistent, AnsweredOnce, InPhase, Consistent, AnswerLast, Served
<1> QED BY <1>1, Invariance, PTL

(* Headers follow the peer through any number of attempts. *)
THEOREM HeadersFollowPeer == Spec => []HeadersMatchPeer
<1>1. Inv => HeadersMatchPeer
  BY DEF Inv, CallbacksConsistent, HeadersMatchPeer, Consistent, SentFrom
<1> QED BY <1>1, Invariance, PTL

(* The upstream, the log, and the client when it gets what the upstream    *)
(* answers, have the same id; an answer from the cache never has it,       *)
(* whichever requests fill and renew the cache.                            *)
THEOREM RequestIdsAgree == Spec => []IdsAgree
<1>1. Inv => IdsAgree
  <2> SUFFICES ASSUME Inv, NEW r \in Requests, InPhase(r, "logging")
               PROVE  /\ ctx[r].forwarded # None /\ HasRequestId(r) => ctx[r].forwarded.id = ctx[r].id
                      /\ Done(r, {"ok"}) /\ HasRequestId(r) => ctx[r].respId = ctx[r].id
                      /\ Done(r, {"hit", "revalidated"}) /\ ctx[r].id # 0 => ctx[r].respId # ctx[r].id
    BY DEF IdsAgree
  <2>1. ctx[r] # None /\ Consistent(ctx[r])
    BY DEF Inv, CallbacksConsistent, InPhase
  <2>2. Done(r, {"hit", "revalidated"}) /\ ctx[r].id # 0 => ctx[r].respId # ctx[r].id
    BY <2>1 DEF Done, Inv, NotStoredYet
  <2> QED BY <2>1, <2>2 DEF Done, HasRequestId, Consistent, SentFrom, IdSent
<1> QED BY <1>1, Invariance, PTL

-----------------------------------------------------------------------------
(***************************************************************************)
(* The refinement.                                                         *)
(***************************************************************************)

(* A step of one request changes what is seen of that request. *)
LEMMA SeenBecomes ==
  ASSUME Inv, NEW r \in Requests, NEW c, Becomes(r, c)
  PROVE  Exchanges' = [Exchanges EXCEPT ![r] = Seen(c)]
<1>1. ctx'[r] = c /\ \A q \in Requests \ {r} : ctx'[q] = ctx[q]
  BY DEF Inv, TypeOK, Becomes
<1>2. Exchanges' = [q \in Requests |-> Seen(ctx'[q])]
  BY DEF Exchanges
<1>3. Exchanges = [q \in Requests |-> Seen(ctx[q])]
  BY DEF Exchanges
<1> QED BY <1>1, <1>2, <1>3

LEMMA SeenGoes ==
  ASSUME Inv, NEW r \in Requests, NEW c, NEW e, Becomes(r, c), UNCHANGED store, Seen(c) = e
  PROVE  Promise!Goes(r, e)
BY SeenBecomes DEF Promise!Goes

(* A callback that only gets the next one ready. *)
LEMMA Unseen ==
  ASSUME Inv, NEW r \in Requests, NEW c, Becomes(r, c), UNCHANGED store, Seen(c) = Seen(ctx[r])
  PROVE  UNCHANGED Promise!vars
<1>1. Exchanges' = [Exchanges EXCEPT ![r] = Seen(ctx[r])]
  BY SeenBecomes
<1>2. Exchanges = [q \in Requests |-> Seen(ctx[q])]
  BY DEF Exchanges
<1>3. Exchanges' = Exchanges
  BY <1>1, <1>2
<1> QED BY <1>3 DEF Promise!vars

(* What is seen of a request in progress. *)
LEMMA SeenInProgress ==
  ASSUME Inv, NEW r \in Requests, ctx[r] # None
  PROVE  /\ ctx[r] \in Context /\ Consistent(ctx[r])
         /\ Exchanges[r] = [route |-> ctx[r].found, ran |-> ctx[r].ran, id |-> ctx[r].id,
                            sent |-> ctx[r].forwarded, answer |-> AnswerOf(ctx[r])]
         /\ Exchanges[r] # None
         /\ AnswerOf(ctx[r]) = None <=> ctx[r].status = "none" \/ ctx[r].phase = "respond"
<1>1. ctx[r] \in Context /\ Consistent(ctx[r])
  BY DEF Inv, TypeOK, CallbacksConsistent
<1>2. Exchanges[r] = [route |-> ctx[r].found, ran |-> ctx[r].ran, id |-> ctx[r].id,
                      sent |-> ctx[r].forwarded, answer |-> AnswerOf(ctx[r])]
  BY DEF Exchanges, Seen
<1>3. /\ AnswerOf(ctx[r]) \in Answered \cup {None}
      /\ AnswerOf(ctx[r]) = None <=> ctx[r].status = "none" \/ ctx[r].phase = "respond"
  BY <1>1, NoneNotRecord DEF AnswerOf, Answered, Context
<1>4. Exchanges[r] \in Outside
  BY <1>1, <1>2, <1>3 DEF Outside, Context
<1> QED BY <1>1, <1>2, <1>3, <1>4, NoneNotRecord

LEMMA BeginStep ==
  ASSUME Inv, NEW r \in Requests, Arrive(r)
  PROVE  Promise!Begin(r)
<1> PICK h \in Hosts, p \in Paths : NotFound(r, h, p) \/ Found(r, h, p)
  BY DEF Arrive
<1>0. Exchanges[r] = None
  BY DEF NotFound, Found, Exchanges, Seen
<1>1. NewCtx(h, p) \in Context
  BY NewCtxType
<1>2. CASE NotFound(r, h, p)
  <2> DEFINE c == [NewCtx(h, p) EXCEPT !.phase = "logging", !.status = "404"]
  <2>1. c \in Context
    BY <1>1 DEF Context
  <2>2. c # None
    BY <2>1, NoneNotRecord
  <2>3. Seen(c) = [Promise!New(None) EXCEPT !.answer = Promise!Answer("404", None, 0)]
    BY <2>2 DEF Seen, AnswerOf, NewCtx, Promise!New, Promise!Answer
  <2>4. Becomes(r, c) /\ UNCHANGED store
    BY <1>2 DEF NotFound, shared
  <2> HIDE DEF c
  <2>5. Promise!Goes(r, [Promise!New(None) EXCEPT !.answer = Promise!Answer("404", None, 0)])
    BY <2>3, <2>4, SeenGoes
  <2> QED BY <1>0, <2>5 DEF Promise!Begin
<1>3. CASE Found(r, h, p)
  <2> DEFINE c == [NewCtx(h, p) EXCEPT !.found = store[h], !.todo = PluginsOf[store[h]]]
  <2>0. store[h] \in Routes /\ store[h] # None
    BY <1>3 DEF Found, Inv, TypeOK
  <2>1. c \in Context
    <3>1. PluginsOf[store[h]] \in SUBSET Plugin
      BY <2>0, RoutesType
    <3> QED BY <1>1, <2>0, <3>1 DEF Context
  <2>2. c # None
    BY <2>1, NoneNotRecord
  <2>3. Seen(c) = Promise!New(store[h])
    BY <2>2 DEF Seen, AnswerOf, NewCtx, Promise!New
  <2>4. Becomes(r, c) /\ UNCHANGED store
    BY <1>3 DEF Found, shared
  <2> HIDE DEF c
  <2>5. Promise!Goes(r, Promise!New(store[h]))
    BY <2>3, <2>4, SeenGoes
  <2> QED BY <1>0, <2>0, <2>5 DEF Promise!Begin
<1> QED BY <1>2, <1>3

(* A plugin whose turn it is has not run, and nothing has been sent. *)
LEMMA PluginMayRun ==
  ASSUME Inv, NEW r \in Requests, InPhase(r, "plugins"), NEW name \in ctx[r].todo
  PROVE  /\ Promise!MayRun(r, name)
         /\ name \in UNION {PluginsOf[route] : route \in Routes}
         /\ ctx[r] \in Context /\ ctx[r].phase = "plugins" /\ ctx[r].status = "none"
         /\ Promise!Ran(r, name) = [route |-> ctx[r].found, ran |-> ctx[r].ran \cup {name},
                                    id |-> ctx[r].id, sent |-> ctx[r].forwarded, answer |-> None]
<1>1. ctx[r] # None /\ ctx[r].phase = "plugins"
  BY DEF InPhase
<1>2. /\ ctx[r] \in Context /\ Consistent(ctx[r]) /\ Exchanges[r] # None
      /\ Exchanges[r] = [route |-> ctx[r].found, ran |-> ctx[r].ran, id |-> ctx[r].id,
                         sent |-> ctx[r].forwarded, answer |-> AnswerOf(ctx[r])]
  BY <1>1, SeenInProgress
<1>3. /\ ctx[r].found # None /\ ctx[r].todo = PluginsOf[ctx[r].found] \ ctx[r].ran
      /\ ctx[r].status = "none" /\ ctx[r].forwarded = None
  BY <1>1, <1>2 DEF Consistent, BeforeRoute
<1>4. AnswerOf(ctx[r]) = None
  BY <1>3 DEF AnswerOf
<1>5. ctx[r].found \in Routes
  BY <1>2, <1>3 DEF Context
<1> QED BY <1>1, <1>2, <1>3, <1>4, <1>5 DEF Promise!MayRun, Promise!Open, Promise!Ran

LEMMA PluginStep ==
  ASSUME Inv, NEW r \in Requests, RunPlugin(r)
  PROVE  Promise!Next
<1>1. CASE RequestIdFilter(r)
  <2> DEFINE c == [Ran(r, "request_id") EXCEPT !.id = NewId]
  <2>1. InPhase(r, "plugins") /\ "request_id" \in ctx[r].todo /\ Unused # {}
    BY <1>1 DEF RequestIdFilter
  <2>2. /\ Promise!MayRun(r, "request_id")
        /\ ctx[r] \in Context /\ ctx[r].phase = "plugins" /\ ctx[r].status = "none"
        /\ Promise!Ran(r, "request_id") = [route |-> ctx[r].found, ran |-> ctx[r].ran \cup {"request_id"},
                                    id |-> ctx[r].id, sent |-> ctx[r].forwarded, answer |-> None]
    BY <2>1, PluginMayRun
  <2>3. NewId \in Unused /\ NewId \in Ids
    BY <2>1, NewIdUnused
  <2>4. NewId \in Ids \ {0} /\ \A q \in Requests : Exchanges[q] # None => Exchanges[q].id # NewId
    <3>1. NewId # 0 /\ \A q \in Requests : ctx[q] # None => ctx[q].id # NewId
      BY <2>3, BoundsType DEF Unused
    <3>2. ASSUME NEW q \in Requests, Exchanges[q] # None PROVE Exchanges[q].id # NewId
      <4>1. ctx[q] # None
        BY <3>2 DEF Exchanges, Seen
      <4>2. Exchanges[q].id = ctx[q].id
        BY <4>1 DEF Exchanges, Seen
      <4> QED BY <3>1, <4>1, <4>2
    <3> QED BY <2>3, <3>1, <3>2
  <2>5. c \in Context
    BY <2>1, <2>2, <2>3 DEF Ran, Context, Plugin
  <2>6. Seen(c) = [Promise!Ran(r, "request_id") EXCEPT !.id = NewId]
    <3>1. c # None
      BY <2>5, NoneNotRecord
    <3>2. /\ c.found = ctx[r].found /\ c.ran = ctx[r].ran \cup {"request_id"} /\ c.id = NewId
          /\ c.forwarded = ctx[r].forwarded /\ c.status = "none"
      BY <2>2 DEF Ran, Context
    <3> HIDE DEF c
    <3> QED BY <2>2, <3>1, <3>2 DEF Seen, AnswerOf
  <2>7. Becomes(r, c) /\ UNCHANGED store
    BY <1>1 DEF RequestIdFilter, shared
  <2> HIDE DEF c
  <2>8. Promise!Goes(r, [Promise!Ran(r, "request_id") EXCEPT !.id = NewId])
    BY <2>6, <2>7, SeenGoes
  <2>9. Promise!Identify(r)
    BY <2>2, <2>4, <2>8 DEF Promise!Identify
  <2> QED BY <2>9 DEF Promise!Next
<1>2. ASSUME NEW name, NEW d \in BOOLEAN, InPhase(r, "plugins"), name \in ctx[r].todo, name # "request_id",
             Becomes(r, [Ran(r, name) EXCEPT !.denied = d]), UNCHANGED store
      PROVE  Promise!Next
  <2> DEFINE c == [Ran(r, name) EXCEPT !.denied = d]
  <2>1. /\ Promise!MayRun(r, name) /\ name \in UNION {PluginsOf[route] : route \in Routes}
        /\ ctx[r] \in Context /\ ctx[r].phase = "plugins" /\ ctx[r].status = "none"
        /\ Promise!Ran(r, name) = [route |-> ctx[r].found, ran |-> ctx[r].ran \cup {name},
                                   id |-> ctx[r].id, sent |-> ctx[r].forwarded, answer |-> None]
    BY <1>2, PluginMayRun
  <2>2. c \in Context
    BY <1>2, <2>1 DEF Ran, Context
  <2>3. c # None
    BY <2>2, NoneNotRecord
  <2>4. /\ c.found = ctx[r].found /\ c.ran = ctx[r].ran \cup {name} /\ c.id = ctx[r].id
        /\ c.forwarded = ctx[r].forwarded /\ c.status = "none"
    BY <2>1 DEF Ran, Context
  <2>5. Becomes(r, c)
    BY <1>2
  <2> HIDE DEF c
  <2>6. Seen(c) = Promise!Ran(r, name)
    BY <2>1, <2>3, <2>4 DEF Seen, AnswerOf
  <2>7. Promise!Goes(r, Promise!Ran(r, name))
    BY <1>2, <2>5, <2>6, SeenGoes
  <2>8. Promise!Pass(r, name)
    BY <1>2, <2>1, <2>7 DEF Promise!Pass
  <2> QED BY <2>1, <2>8 DEF Promise!Next
<1>3. ASSUME NEW name \in Plugin, Passed(r, name) PROVE Promise!Next
  <2>1. InPhase(r, "plugins") /\ name \in ctx[r].todo /\ name # "request_id"
        /\ Becomes(r, Ran(r, name)) /\ UNCHANGED store
    BY <1>3 DEF Passed, shared
  <2>2. ctx[r] \in Context
    BY <2>1, Current
  <2>3. ctx[r].denied \in BOOLEAN /\ Ran(r, name) = [Ran(r, name) EXCEPT !.denied = ctx[r].denied]
    BY <2>2 DEF Ran, Context
  <2> QED BY <1>2, <2>1, <2>3
<1>4. CASE Denied(r)
  BY <1>2, <1>4 DEF Denied, shared
<1>5. ASSUME NEW name \in Plugin, Handled(r, name) PROVE Promise!Next
  <2> DEFINE c == [Ran(r, name) EXCEPT !.phase = "logging", !.status = "plugin"]
  <2>0. InPhase(r, "plugins") /\ name \in ctx[r].todo /\ name # "request_id"
        /\ Becomes(r, c) /\ UNCHANGED store
    BY <1>5 DEF Handled, shared
  <2>1. /\ Promise!MayRun(r, name) /\ name \in UNION {PluginsOf[route] : route \in Routes}
        /\ ctx[r] \in Context /\ ctx[r].phase = "plugins" /\ ctx[r].status = "none"
        /\ Promise!Ran(r, name) = [route |-> ctx[r].found, ran |-> ctx[r].ran \cup {name},
                                   id |-> ctx[r].id, sent |-> ctx[r].forwarded, answer |-> None]
    BY <2>0, PluginMayRun
  <2>2. c \in Context
    BY <2>0, <2>1 DEF Ran, Context
  <2>3. c # None
    BY <2>2, NoneNotRecord
  <2>4. Consistent(ctx[r])
    BY <2>0, Current
  <2>5. /\ c.found = ctx[r].found /\ c.ran = ctx[r].ran \cup {name} /\ c.id = ctx[r].id
        /\ c.forwarded = ctx[r].forwarded /\ c.status = "plugin" /\ c.phase = "logging"
        /\ c.respHeaders = None /\ c.respId = 0
    BY <2>1, <2>4 DEF Ran, Context, Consistent, AnswerLast, Served
  <2> HIDE DEF c
  <2>6. Seen(c) = [Promise!Ran(r, name) EXCEPT !.answer = Promise!Answer("plugin", None, 0)]
    BY <2>1, <2>3, <2>5 DEF Seen, AnswerOf, Promise!Answer
  <2>7. Promise!Goes(r, [Promise!Ran(r, name) EXCEPT !.answer = Promise!Answer("plugin", None, 0)])
    BY <2>0, <2>6, SeenGoes
  <2>8. Promise!Refuse(r, name)
    BY <2>0, <2>1, <2>7 DEF Promise!Refuse
  <2> QED BY <2>1, <2>8 DEF Promise!Next
<1> QED BY <1>1, <1>3, <1>4, <1>5 DEF RunPlugin

(* The context gets a route, a cached answer, a peer, a connection or an   *)
(* upstream's answer, or starts again: nobody sees it yet.                 *)
LEMMA SilentStep ==
  ASSUME Inv, NEW r \in Requests,
         \/ EndRequestFilter(r) \/ CacheHit(r) \/ CacheExpired(r) \/ CacheMiss(r) \/ UpstreamPeer(r)
         \/ Connected(r) \/ Retry(r) \/ UpstreamResponse(r) \/ Revalidated(r)
  PROVE  UNCHANGED Promise!vars
<1>1. ctx[r] # None /\ ctx[r].phase \in {"plugins", "lookup", "peer", "connect", "upstream"}
  BY DEF EndRequestFilter, CacheHit, CacheExpired, CacheMiss, UpstreamPeer, Connected, Retry,
     UpstreamResponse, Revalidated, InPhase
<1>2. ctx[r] \in Context /\ Consistent(ctx[r])
  BY <1>1, SeenInProgress
<1>3. ctx[r].status = "none" /\ UNCHANGED store
  BY <1>1, <1>2 DEF EndRequestFilter, CacheHit, CacheExpired, CacheMiss, UpstreamPeer, Connected, Retry,
     UpstreamResponse, Revalidated, shared, Consistent, AnswerLast
<1>4. ASSUME NEW c \in Context, Becomes(r, c), c.found = ctx[r].found, c.ran = ctx[r].ran,
             c.id = ctx[r].id, c.forwarded = ctx[r].forwarded,
             c.status = "none" \/ c.phase = "respond"
      PROVE  UNCHANGED Promise!vars
  <2>1. c # None
    BY NoneNotRecord
  <2>2. Seen(c) = Seen(ctx[r])
    BY <1>1, <1>3, <1>4, <2>1 DEF Seen, AnswerOf
  <2> QED BY <1>3, <1>4, <2>2, Unseen
<1>5. CASE EndRequestFilter(r)
  <2> DEFINE p == IF ctx[r].found \in Cached THEN "lookup" ELSE "peer"
  <2> DEFINE c == [ctx[r] EXCEPT !.route = ctx[r].found, !.phase = p]
  <2>0. Becomes(r, c)
    BY <1>5 DEF EndRequestFilter
  <2>1. p \in {"lookup", "peer"}
    OBVIOUS
  <2>2. ctx[r].found \in Routes \cup {None}
    BY <1>2 DEF Context
  <2> HIDE DEF p
  <2>3. c \in Context
    BY <1>2, <2>1, <2>2 DEF Context
  <2>4. /\ c.found = ctx[r].found /\ c.ran = ctx[r].ran /\ c.id = ctx[r].id
        /\ c.forwarded = ctx[r].forwarded /\ c.status = "none"
    BY <1>2, <1>3 DEF Context
  <2> QED BY <1>4, <2>0, <2>3, <2>4
<1>6. CASE CacheHit(r)
  <2> DEFINE c == [ctx[r] EXCEPT !.phase = "respond", !.status = "hit",
                                 !.respId = cache[CacheKey(r)].id]
  <2>1. cache[CacheKey(r)].id \in Ids
    BY <1>2, <1>6, CacheKnown DEF CacheHit
  <2>2. c \in Context
    BY <1>2, <2>1 DEF Context
  <2>3. /\ c.found = ctx[r].found /\ c.ran = ctx[r].ran /\ c.id = ctx[r].id
        /\ c.forwarded = ctx[r].forwarded /\ c.phase = "respond"
    BY <1>2 DEF Context
  <2>4. Becomes(r, c)
    BY <1>6 DEF CacheHit
  <2> QED BY <1>4, <2>2, <2>3, <2>4
<1>7. CASE CacheMiss(r)
  <2> DEFINE c == [ctx[r] EXCEPT !.phase = "peer"]
  <2>1. c \in Context
    BY <1>2 DEF Context
  <2>2. /\ c.found = ctx[r].found /\ c.ran = ctx[r].ran /\ c.id = ctx[r].id
        /\ c.forwarded = ctx[r].forwarded /\ c.status = "none"
    BY <1>2, <1>3 DEF Context
  <2>3. Becomes(r, c)
    BY <1>7 DEF CacheMiss
  <2> QED BY <1>4, <2>1, <2>2, <2>3
<1>8. CASE UpstreamPeer(r)
  <2> PICK u \in UpstreamsOf[ctx[r].route] : \E a \in MayResolve[u] :
          Becomes(r, [ctx[r] EXCEPT !.phase = "connect", !.peer = a, !.upstream = u])
    BY <1>8 DEF UpstreamPeer
  <2>0. PICK a \in MayResolve[u] :
          Becomes(r, [ctx[r] EXCEPT !.phase = "connect", !.peer = a, !.upstream = u])
    OBVIOUS
  <2> DEFINE c == [ctx[r] EXCEPT !.phase = "connect", !.peer = a, !.upstream = u]
  <2>1. ctx[r].phase = "peer"
    BY <1>8 DEF UpstreamPeer, InPhase
  <2>2. ctx[r].route \in Routes
    BY <1>2, <1>3, <2>1 DEF Consistent, AfterRoute, Context
  <2>3. u \in Upstreams /\ a \in Addresses
    BY <2>2, RoutesType
  <2>4. c \in Context
    BY <1>2, <2>3 DEF Context
  <2>5. /\ c.found = ctx[r].found /\ c.ran = ctx[r].ran /\ c.id = ctx[r].id
        /\ c.forwarded = ctx[r].forwarded /\ c.status = "none"
    BY <1>2, <1>3 DEF Context
  <2> QED BY <1>4, <2>0, <2>4, <2>5
<1>9. CASE Connected(r)
  <2> DEFINE c == [ctx[r] EXCEPT !.phase = "send"]
  <2>1. c \in Context
    BY <1>2 DEF Context
  <2>2. /\ c.found = ctx[r].found /\ c.ran = ctx[r].ran /\ c.id = ctx[r].id
        /\ c.forwarded = ctx[r].forwarded /\ c.status = "none"
    BY <1>2, <1>3 DEF Context
  <2>3. Becomes(r, c)
    BY <1>9 DEF Connected
  <2> QED BY <1>4, <2>1, <2>2, <2>3
<1>10. CASE Retry(r)
  <2> DEFINE c == [ctx[r] EXCEPT !.phase = "peer", !.retries = @ + 1]
  <2>1. ctx[r].retries + 1 \in 0 .. MaxRetries
    BY <1>2, <1>10, BoundsType DEF Retry, Context
  <2>2. c \in Context
    BY <1>2, <2>1 DEF Context
  <2>3. /\ c.found = ctx[r].found /\ c.ran = ctx[r].ran /\ c.id = ctx[r].id
        /\ c.forwarded = ctx[r].forwarded /\ c.status = "none"
    BY <1>2, <1>3 DEF Context
  <2>4. Becomes(r, c)
    BY <1>10 DEF Retry
  <2> QED BY <1>4, <2>2, <2>3, <2>4
<1>11. CASE UpstreamResponse(r)
  <2> DEFINE id == IF HasRequestId(r) THEN ctx[r].id ELSE 0
  <2> DEFINE c == [ctx[r] EXCEPT !.phase = "respond", !.status = "ok", !.respId = id, !.stale = None]
  <2>1. id \in Ids
    BY <1>2, BoundsType DEF Ids, Context
  <2>2. Becomes(r, c)
    BY <1>11 DEF UpstreamResponse
  <2> HIDE DEF id
  <2>3. c \in Context
    <3>1. ctx[r] \in Context
      BY <1>2
    <3> QED BY <2>1, <3>1 DEF Context
  <2>4. /\ c.found = ctx[r].found /\ c.ran = ctx[r].ran /\ c.id = ctx[r].id
        /\ c.forwarded = ctx[r].forwarded /\ c.phase = "respond"
    BY <1>2 DEF Context
  <2> QED BY <1>4, <2>2, <2>3, <2>4
<1>12. CASE CacheExpired(r)
  <2> DEFINE c == [ctx[r] EXCEPT !.phase = "peer", !.stale = cache[CacheKey(r)]]
  <2>1. cache[CacheKey(r)] \in Stored
    BY <1>2, <1>12, CacheKnown DEF CacheExpired
  <2>2. c \in Context
    BY <1>2, <2>1 DEF Context
  <2>3. /\ c.found = ctx[r].found /\ c.ran = ctx[r].ran /\ c.id = ctx[r].id
        /\ c.forwarded = ctx[r].forwarded /\ c.status = "none"
    BY <1>2, <1>3 DEF Context
  <2>4. Becomes(r, c)
    BY <1>12 DEF CacheExpired
  <2> QED BY <1>4, <2>2, <2>3, <2>4
<1>13. CASE Revalidated(r)
  <2> DEFINE c == [ctx[r] EXCEPT !.phase = "respond", !.status = "revalidated",
                                 !.respId = ctx[r].stale.id, !.stale = None]
  <2>1. ctx[r].stale.id \in Ids
    BY <1>2, <1>13 DEF Revalidated, Context, Stored
  <2>2. c \in Context
    BY <1>2, <2>1 DEF Context
  <2>3. /\ c.found = ctx[r].found /\ c.ran = ctx[r].ran /\ c.id = ctx[r].id
        /\ c.forwarded = ctx[r].forwarded /\ c.phase = "respond"
    BY <1>2 DEF Context
  <2>4. Becomes(r, c)
    BY <1>13 DEF Revalidated
  <2> QED BY <1>4, <2>2, <2>3, <2>4
<1> QED BY <1>5, <1>6, <1>7, <1>8, <1>9, <1>10, <1>11, <1>12, <1>13

(* Past the plugins and without an answer, a request is checked, and its   *)
(* context's route is the one it arrived to.                               *)
LEMMA CheckedOnItsWay ==
  ASSUME Inv, NEW r \in Requests, NEW p \in {"peer", "connect", "send", "upstream", "respond"},
         InPhase(r, p)
  PROVE  /\ ctx[r] \in Context /\ Consistent(ctx[r]) /\ ctx[r].phase = p
         /\ ctx[r].route \in Routes /\ ctx[r].route = ctx[r].found
         /\ Exchanges[r] = [route |-> ctx[r].found, ran |-> ctx[r].ran, id |-> ctx[r].id,
                            sent |-> ctx[r].forwarded, answer |-> None]
         /\ Promise!Checked(r)
         /\ Promise!IdOf(r) = IdSent(ctx[r])
<1>1. ctx[r] # None /\ ctx[r].phase = p
  BY DEF InPhase
<1>2. /\ ctx[r] \in Context /\ Consistent(ctx[r]) /\ Exchanges[r] # None
      /\ Exchanges[r] = [route |-> ctx[r].found, ran |-> ctx[r].ran, id |-> ctx[r].id,
                         sent |-> ctx[r].forwarded, answer |-> AnswerOf(ctx[r])]
      /\ AnswerOf(ctx[r]) = None <=> ctx[r].status = "none" \/ ctx[r].phase = "respond"
  BY <1>1, SeenInProgress
<1>3. ctx[r].status = "none" \/ (ctx[r].phase = "respond" /\ ctx[r].status \in Served)
  BY <1>1, <1>2 DEF Consistent, AnswerLast
<1>4. /\ ctx[r].route # None /\ ctx[r].route = ctx[r].found
      /\ ctx[r].ran = PluginsOf[ctx[r].route]
  BY <1>1, <1>2, <1>3 DEF Consistent, AfterRoute, Served
<1>5. ctx[r].route \in Routes
  BY <1>2, <1>4 DEF Context
<1>6. AnswerOf(ctx[r]) = None
  BY <1>2, <1>3
<1> QED BY <1>1, <1>2, <1>4, <1>5, <1>6 DEF Promise!Checked, Promise!Open, Promise!IdOf, IdSent

(* An attempt: the headers are of an upstream that has the peer's address. *)
LEMMA SendStep ==
  ASSUME Inv, NEW r \in Requests, UpstreamRequestFilter(r)
  PROVE  Promise!Send(r)
<1> DEFINE f == [peer |-> ctx[r].peer, headers |-> ctx[r].upstream,
                 id |-> IF HasRequestId(r) THEN ctx[r].id ELSE 0]
<1> DEFINE c == [ctx[r] EXCEPT !.phase = "upstream", !.forwarded = f]
<1>0. InPhase(r, "send") /\ Becomes(r, c) /\ UNCHANGED store
  BY DEF UpstreamRequestFilter, shared
<1>1. /\ ctx[r] \in Context /\ Consistent(ctx[r]) /\ ctx[r].phase = "send"
      /\ ctx[r].route \in Routes /\ ctx[r].route = ctx[r].found
      /\ Exchanges[r] = [route |-> ctx[r].found, ran |-> ctx[r].ran, id |-> ctx[r].id,
                         sent |-> ctx[r].forwarded, answer |-> None]
      /\ Promise!Checked(r) /\ Promise!IdOf(r) = IdSent(ctx[r])
  BY <1>0, CheckedOnItsWay
<1>2. /\ ctx[r].upstream \in UpstreamsOf[ctx[r].route] /\ ctx[r].peer \in MayResolve[ctx[r].upstream]
      /\ ctx[r].status = "none"
  BY <1>1 DEF Consistent, PeerChosen, AnswerLast
<1>3. f = [peer |-> ctx[r].peer, headers |-> ctx[r].upstream, id |-> Promise!IdOf(r)]
  BY <1>1, <1>2 DEF HasRequestId, IdSent
<1>4. f \in Forwarded
  <2>1. ctx[r].upstream \in Upstreams
    BY <1>1, <1>2, RoutesType
  <2>2. ctx[r].peer \in Addresses
    BY <1>2, <2>1, RoutesType
  <2> QED BY <1>1, <1>2, <2>1, <2>2, BoundsType DEF Forwarded, Ids, Context
<1> HIDE DEF f
<1>5. c \in Context
  BY <1>1, <1>4 DEF Context
<1>6. c # None
  BY <1>5, NoneNotRecord
<1>7. /\ c.found = ctx[r].found /\ c.ran = ctx[r].ran /\ c.id = ctx[r].id
      /\ c.forwarded = f /\ c.status = "none"
  BY <1>1, <1>2 DEF Context
<1> HIDE DEF c
<1>8. Seen(c) = [Exchanges[r] EXCEPT !.sent = f]
  BY <1>1, <1>6, <1>7 DEF Seen, AnswerOf
<1>9. Promise!Goes(r, [Exchanges[r] EXCEPT !.sent = f])
  BY <1>0, <1>8, SeenGoes
<1> QED BY <1>1, <1>2, <1>3, <1>9 DEF Promise!Send

(* The answer: from the upstream sent to, from the cache, or an error. *)
LEMMA ReplyStep ==
  ASSUME Inv, NEW r \in Requests, UpstreamFails(r) \/ ResponseFilter(r)
  PROVE  Promise!Reply(r)
<1>0. PICK p \in {"peer", "connect", "send", "upstream", "respond"} : InPhase(r, p)
  BY DEF UpstreamFails, ResponseFilter
<1>1. /\ ctx[r] \in Context /\ Consistent(ctx[r]) /\ ctx[r].phase = p
      /\ ctx[r].route \in Routes /\ ctx[r].route = ctx[r].found
      /\ Exchanges[r] = [route |-> ctx[r].found, ran |-> ctx[r].ran, id |-> ctx[r].id,
                         sent |-> ctx[r].forwarded, answer |-> None]
      /\ Promise!Checked(r)
  BY <1>0, CheckedOnItsWay
<1>2. ASSUME NEW c \in Context, Becomes(r, c), UNCHANGED store,
             c.found = ctx[r].found, c.ran = ctx[r].ran, c.id = ctx[r].id,
             c.forwarded = ctx[r].forwarded, c.status # "none", c.phase = "logging"
      PROVE  Promise!Goes(r, [Exchanges[r] EXCEPT
                                !.answer = Promise!Answer(c.status, c.respHeaders, c.respId)])
  <2>1. c # None
    BY NoneNotRecord
  <2>2. Seen(c) = [Exchanges[r] EXCEPT !.answer = Promise!Answer(c.status, c.respHeaders, c.respId)]
    BY <1>1, <1>2, <2>1 DEF Seen, AnswerOf, Promise!Answer
  <2> QED BY <1>2, <2>2, SeenGoes
<1>3. CASE UpstreamFails(r)
  <2> DEFINE c == [ctx[r] EXCEPT !.phase = "logging", !.status = "error", !.stale = None]
  <2>1. c \in Context
    BY <1>1 DEF Context
  <2>2. Becomes(r, c) /\ UNCHANGED store /\ ctx[r].phase \in {"peer", "connect", "upstream"}
    BY <1>3 DEF UpstreamFails, shared, InPhase
  <2>3. ctx[r].respHeaders = None /\ ctx[r].respId = 0
    BY <1>1, <2>2 DEF Consistent, AnswerLast, Served
  <2>4. /\ c.found = ctx[r].found /\ c.ran = ctx[r].ran /\ c.id = ctx[r].id
        /\ c.forwarded = ctx[r].forwarded /\ c.status = "error" /\ c.phase = "logging"
        /\ c.respHeaders = None /\ c.respId = 0
    BY <1>1, <2>3 DEF Context
  <2> HIDE DEF c
  <2>5. Promise!Goes(r, [Exchanges[r] EXCEPT !.answer = Promise!Answer("error", None, 0)])
    BY <1>2, <2>1, <2>2, <2>4
  <2> QED BY <1>1, <2>5 DEF Promise!Reply
<1>4. CASE ResponseFilter(r)
  <2> DEFINE c == [ctx[r] EXCEPT !.phase = "logging", !.respHeaders = ctx[r].route]
  <2>1. c \in Context
    BY <1>1 DEF Context
  <2>2. Becomes(r, c) /\ UNCHANGED store /\ ctx[r].phase = "respond"
    BY <1>4 DEF ResponseFilter, shared, InPhase
  <2>3. ctx[r].status \in {"ok", "hit", "revalidated"}
    BY <1>1, <2>2 DEF Consistent, AnswerLast, Served
  <2>4. /\ c.found = ctx[r].found /\ c.ran = ctx[r].ran /\ c.id = ctx[r].id
        /\ c.forwarded = ctx[r].forwarded /\ c.status = ctx[r].status /\ c.phase = "logging"
        /\ c.respHeaders = ctx[r].route /\ c.respId = ctx[r].respId
    BY <1>1 DEF Context
  <2> HIDE DEF c
  <2>5. Promise!Goes(r, [Exchanges[r] EXCEPT
                           !.answer = Promise!Answer(ctx[r].status, ctx[r].route, ctx[r].respId)])
    BY <1>2, <2>1, <2>2, <2>3, <2>4
  <2>6. /\ Exchanges[r].route = ctx[r].route /\ Exchanges[r].sent = ctx[r].forwarded
        /\ Exchanges[r].id = ctx[r].id
    BY <1>1
  <2>7. CASE ctx[r].status = "ok"
    <3>1. ctx[r].forwarded # None /\ ctx[r].respId = ctx[r].forwarded.id
      BY <1>1, <2>7 DEF Consistent, SentFrom
    <3>2. Promise!Goes(r, [Exchanges[r] EXCEPT
            !.answer = Promise!Answer("ok", Exchanges[r].route, Exchanges[r].sent.id)])
      BY <2>5, <2>6, <2>7, <3>1
    <3> QED BY <1>1, <2>6, <3>1, <3>2 DEF Promise!Reply
  <2>8. CASE ctx[r].status # "ok"
    <3>1. ctx[r].route \in Cached /\ ctx[r].respId \in Ids
      BY <1>1, <2>3, <2>8 DEF Consistent, AnswerLast, Context
    <3>2. ctx[r].status = IF ctx[r].forwarded = None THEN "hit" ELSE "revalidated"
      BY <1>1, <2>3, <2>8 DEF Consistent, AnswerLast, SentFrom
    <3>3. ctx[r].id # 0 => ctx[r].respId # ctx[r].id
      BY <1>0, <2>8 DEF InPhase, Inv, NotStoredYet
    <3>4. Promise!Goes(r, [Exchanges[r] EXCEPT !.answer =
            Promise!Answer(IF Exchanges[r].sent = None THEN "hit" ELSE "revalidated",
                           Exchanges[r].route, ctx[r].respId)])
      BY <2>5, <2>6, <3>2
    <3> QED BY <1>1, <2>6, <3>1, <3>3, <3>4 DEF Promise!Reply
  <2> QED BY <2>7, <2>8
<1> QED BY <1>3, <1>4

(* The panic of upstream_peer comes when every plugin has run. *)
LEMMA AbortStep ==
  ASSUME Inv, NEW r \in Requests, UpstreamPeerPanics(r)
  PROVE  Promise!Abort(r)
<1>1. Promise!Checked(r)
  BY CheckedOnItsWay DEF UpstreamPeerPanics
<1>2. Becomes(r, None) /\ UNCHANGED store /\ Seen(None) = None
  BY DEF UpstreamPeerPanics, shared, Seen
<1>3. Promise!Goes(r, None)
  BY <1>2, SeenGoes
<1> QED BY <1>1, <1>3 DEF Promise!Abort

(* The access log line comes after the answer. *)
LEMMA EndStep ==
  ASSUME Inv, NEW r \in Requests, Logging(r)
  PROVE  Promise!End(r)
<1>1. ctx[r] # None /\ ctx[r].phase = "logging"
  BY DEF Logging, InPhase
<1>2. /\ Consistent(ctx[r]) /\ Exchanges[r] # None
      /\ Exchanges[r] = [route |-> ctx[r].found, ran |-> ctx[r].ran, id |-> ctx[r].id,
                         sent |-> ctx[r].forwarded, answer |-> AnswerOf(ctx[r])]
      /\ AnswerOf(ctx[r]) = None <=> ctx[r].status = "none" \/ ctx[r].phase = "respond"
  BY <1>1, SeenInProgress
<1>3. AnswerOf(ctx[r]) # None
  BY <1>1, <1>2 DEF Consistent, AnswerLast
<1>4. Becomes(r, None) /\ UNCHANGED store /\ Seen(None) = None
  BY DEF Logging, shared, Seen
<1>5. Promise!Goes(r, None)
  BY <1>4, SeenGoes
<1> QED BY <1>2, <1>3, <1>5 DEF Promise!End

(* Every step is a step of the exchange, or nobody sees it. *)
LEMMA StepImplements == Inv /\ [Next]_vars => [Promise!Next]_(Promise!vars)
<1> SUFFICES ASSUME Inv, [Next]_vars PROVE [Promise!Next]_(Promise!vars)
  OBVIOUS
<1>1. CASE UNCHANGED vars
  <2>1. Exchanges' = Exchanges
    BY <1>1 DEF vars, Exchanges
  <2> QED BY <1>1, <2>1 DEF vars, Promise!vars
<1>2. ASSUME NEW r \in Requests, Arrive(r) PROVE Promise!Next
  BY <1>2, BeginStep DEF Promise!Next
<1>3. ASSUME NEW r \in Requests, Step(r) PROVE [Promise!Next]_(Promise!vars)
  <2>1. CASE RunPlugin(r)
    BY <2>1, PluginStep
  <2>2. CASE UpstreamRequestFilter(r)
    BY <2>2, SendStep DEF Promise!Next
  <2>3. CASE UpstreamFails(r) \/ ResponseFilter(r)
    BY <2>3, ReplyStep DEF Promise!Next
  <2>4. CASE Logging(r)
    BY <2>4, EndStep DEF Promise!Next
  <2>5. CASE \/ EndRequestFilter(r) \/ CacheHit(r) \/ CacheExpired(r) \/ CacheMiss(r) \/ UpstreamPeer(r)
             \/ Connected(r) \/ Retry(r) \/ UpstreamResponse(r) \/ Revalidated(r)
    BY <2>5, SilentStep
  <2>6. CASE UpstreamPeerPanics(r)
    BY <2>6, AbortStep DEF Promise!Next
  <2> QED BY <1>3, <2>1, <2>2, <2>3, <2>4, <2>5, <2>6 DEF Step
<1>4. ASSUME NEW h \in Hosts, ReplaceRoute(h) PROVE Promise!Next
  <2>1. Exchanges' = Exchanges
    BY <1>4 DEF ReplaceRoute, Exchanges
  <2>2. Promise!Replace(h)
    BY <1>4, <2>1 DEF ReplaceRoute, Promise!Replace
  <2> QED BY <2>2 DEF Promise!Next
<1> QED BY <1>1, <1>2, <1>3, <1>4 DEF Next

(* The callbacks of https_proxy.rs, whatever is replaced, cached, retried  *)
(* or fails between them, make one exchange of every request.              *)
THEOREM PipelineImplementsExchange == Spec => ImplementsExchange
<1>1. Init => Promise!Init
  BY DEF Init, Promise!Init, Exchanges, Seen
<1> QED BY <1>1, StepImplements, Invariance, PTL DEF Spec, ImplementsExchange, Promise!Spec
=============================================================================
