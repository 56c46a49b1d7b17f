-------------------------- MODULE RequestPipeline --------------------------
(***************************************************************************)
(* The callbacks of Router (proxy_server/https_proxy.rs) in the order      *)
(* pingora makes them for a request, with the plugins that middleware.rs   *)
(* runs in them and the context (RouterContext) that carries state from    *)
(* one to the next.  Requests run side by side, and the routing service    *)
(* may replace a host's route between any two callbacks.                   *)
(*                                                                         *)
(* How a route gets its healthy backends is in RouteDiscovery, the bytes   *)
(* of cached bodies are in DiskCache.                                      *)
(***************************************************************************)
EXTENDS Naturals

CONSTANTS
  Hosts, Paths,
  Routes,       \* routes the store may hold
  Upstreams, Addresses,
  PluginsOf,    \* per route, the names of its plugins
  UpstreamsOf,  \* per route, its upstreams
  MayResolve,   \* per upstream, the addresses its name has at one time or another
  PathsOf,      \* per route, the paths that its path_matcher lets through
  Cached,       \* the routes with an enabled cache
  Requests,     \* requests in progress at a time
  MaxIds,       \* bound: request ids in use at a time
  MaxRetries,   \* pingora's bound on attempts with another connection
  None

Plugin == {"request_id", "oauth2", "basic_auth"}

ASSUME RoutesType ==
  /\ PluginsOf \in [Routes -> SUBSET Plugin]
  /\ UpstreamsOf \in [Routes -> SUBSET Upstreams]
  /\ MayResolve \in [Upstreams -> SUBSET Addresses]
  /\ PathsOf \in [Routes -> SUBSET Paths]
  /\ Cached \subseteq Routes

ASSUME BoundsType == MaxIds \in Nat /\ MaxRetries \in Nat

ASSUME NoneFresh == None \notin Routes \cup Upstreams \cup Addresses

Ids == 0 .. MaxIds  \* 0 for none

(* What is stored with a cached response of its x-request-id.              *)
Stored == [id : Ids]

(* What an upstream is sent: where it goes, whose configured headers it    *)
(* carries, its x-request-id.                                              *)
Forwarded == [peer : Addresses, headers : Upstreams, id : Ids]

(***************************************************************************)
(* A request and its RouterContext.  route is ctx.route_container, None    *)
(* until the end of request_filter; found is the copy request_filter works *)
(* on; todo are the plugins it has still to run, ran those that did;       *)
(* denied says that oauth2 has answered 401.  stale is the expired         *)
(* response that the lookup found, if any.  peer is the address pingora    *)
(* connects to, upstream is ctx.upstream.  respId and respHeaders are the  *)
(* answer's x-request-id and the route whose headers it carries.           *)
(***************************************************************************)
Context ==
  [phase : {"plugins", "lookup", "peer", "connect", "send", "upstream", "respond", "logging"},
   host : Hosts, path : Paths,
   found : Routes \cup {None}, todo : SUBSET Plugin, ran : SUBSET Plugin,
   denied : BOOLEAN,
   route : Routes \cup {None},
   id : Ids,
   stale : Stored \cup {None},
   peer : Addresses \cup {None}, upstream : Upstreams \cup {None},
   retries : 0 .. MaxRetries,
   forwarded : Forwarded \cup {None},
   status : {"none", "ok", "hit", "revalidated", "404", "plugin", "error"},
   respId : Ids, respHeaders : Routes \cup {None}]

(* What an outsider sees of a request: its route, the plugins that ran,    *)
(* its id, what was sent last and the answer.                              *)
Answered == [status : {"ok", "hit", "revalidated", "404", "plugin", "error"},
             headers : Routes \cup {None}, id : Ids]

Outside == [route : Routes \cup {None}, ran : SUBSET Plugin, id : Ids,
            sent : Forwarded \cup {None}, answer : Answered \cup {None}]

ASSUME NoneNotRecord == None \notin Stored \cup Context \cup Forwarded \cup Answered \cup Outside

NewCtx(h, p) ==
  [phase |-> "plugins", host |-> h, path |-> p, found |-> None, todo |-> {}, ran |-> {},
   denied |-> FALSE,
   route |-> None, id |-> 0, stale |-> None, peer |-> None, upstream |-> None, retries |-> 0,
   forwarded |-> None, status |-> "none", respId |-> 0, respHeaders |-> None]

VARIABLES
  store,   \* per host, its route
  cache,   \* per host and path, the x-request-id stored with a response
  cacheDir,\* per host, the route whose cache path the storage uses
  ctx      \* the requests in progress

shared == <<store, cache, cacheDir>>

vars == <<store, cache, cacheDir, ctx>>

InPhase(r, p) == ctx[r] # None /\ ctx[r].phase = p

Becomes(r, c) == ctx' = [ctx EXCEPT ![r] = c]

(* Plugins that run for a request: those of its context's route. *)
HasRequestId(r) == "request_id" \in PluginsOf[ctx[r].route]

-----------------------------------------------------------------------------
(***************************************************************************)
(* request_filter.                                                         *)
(***************************************************************************)

(* No route for the host, or no match of its path: 404. *)
NotFound(r, h, p) ==
  /\ ctx[r] = None
  /\ ~(store[h] # None /\ p \in PathsOf[store[h]])
  /\ Becomes(r, [NewCtx(h, p) EXCEPT !.phase = "logging", !.status = "404"])
  /\ UNCHANGED shared

Found(r, h, p) ==
  /\ ctx[r] = None
  /\ store[h] # None /\ p \in PathsOf[store[h]]
  /\ Becomes(r, [NewCtx(h, p) EXCEPT !.found = store[h],
                                     !.todo = PluginsOf[store[h]]])
  /\ UNCHANGED shared

Ran(r, name) ==
  [ctx[r] EXCEPT !.todo = @ \ {name}, !.ran = @ \cup {name}]

(* A version 4 uuid: one that nothing uses.                                *)
Unused ==
  {i \in 1 .. MaxIds : /\ \A q \in Requests : ctx[q] # None =>
                            i \notin {ctx[q].id, ctx[q].respId} /\ ctx[q].stale # [id |-> i]
                       /\ \A k \in Hosts \X Paths : cache[k] # [id |-> i]}

NewId == CHOOSE i \in Unused : TRUE

(* The request_id plugin. *)
RequestIdFilter(r) ==
  /\ InPhase(r, "plugins") /\ "request_id" \in ctx[r].todo
  /\ Unused # {}
  /\ Becomes(r, [Ran(r, "request_id") EXCEPT !.id = NewId])
  /\ UNCHANGED shared

(* The plugins that may answer, and what their request_filter returns.     *)
Oauth2Filter == {"handled", "passed", "failed", "denied"}

BasicAuthFilter == {"handled", "passed", "failed"}

FilterResult(name) == IF name = "oauth2" THEN Oauth2Filter ELSE BasicAuthFilter

(* Ok(false), and an Err too, lets the request pass. *)
Passed(r, name) ==
  /\ InPhase(r, "plugins") /\ name \in ctx[r].todo \ {"request_id"}
  /\ FilterResult(name) \ {"handled", "denied"} # {}
  /\ Becomes(r, Ran(r, name))
  /\ UNCHANGED shared

(* The cookie's user may not use the resource: validate_cookie writes a    *)
(* 401 and returns Ok(true), which request_filter takes for an authorized  *)
(* user and returns Ok(false).  The request goes on; pingora drops what    *)
(* comes after a header that has been sent.                                *)
Denied(r) ==
  /\ InPhase(r, "plugins") /\ "oauth2" \in ctx[r].todo
  /\ "denied" \in FilterResult("oauth2")
  /\ Becomes(r, [Ran(r, "oauth2") EXCEPT !.denied = TRUE])
  /\ UNCHANGED shared

(* Plausible bug: the request goes on although the plugin has answered it. *)
HandledGoesOn(r, name) ==
  /\ InPhase(r, "plugins") /\ name \in ctx[r].todo \ {"request_id"}
  /\ "handled" \in FilterResult(name)
  /\ Becomes(r, [Ran(r, name) EXCEPT !.status = "plugin"])
  /\ UNCHANGED shared

(* Ok(true): the plugin has answered the request. *)
Handled(r, name) ==
  /\ InPhase(r, "plugins") /\ name \in ctx[r].todo \ {"request_id"}
  /\ "handled" \in FilterResult(name)
  /\ Becomes(r, [Ran(r, name) EXCEPT !.phase = "logging", !.status = "plugin"])
  /\ UNCHANGED shared

(* insert_cache_routing never overrides: the first route decides until the *)
(* process ends.                                                           *)
InsertCacheRouting(r) ==
  cacheDir' = [cacheDir EXCEPT ![ctx[r].host] = IF @ = None THEN ctx[r].found ELSE @]

(* All plugins ran, in the order of a HashMap; the context gets the route. *)
EndRequestFilter(r) ==
  /\ InPhase(r, "plugins") /\ ctx[r].todo = {}
  /\ Becomes(r, [ctx[r] EXCEPT !.route = ctx[r].found,
                               !.phase = IF ctx[r].found \in Cached THEN "lookup" ELSE "peer"])
  /\ IF ctx[r].found \in Cached THEN InsertCacheRouting(r) ELSE UNCHANGED cacheDir
  /\ UNCHANGED <<store, cache>>

-----------------------------------------------------------------------------
(***************************************************************************)
(* The cache, by host and path: the host's directory stays the same.  The  *)
(* upstream filters do not run for a hit.  Waiting for CACHE_LOCK is a     *)
(* lookup that takes longer.                                               *)
(***************************************************************************)
CacheKey(r) == <<ctx[r].host, ctx[r].path>>

CacheHit(r) ==
  /\ InPhase(r, "lookup")
  /\ cache[CacheKey(r)] # None
  /\ Becomes(r, [ctx[r] EXCEPT !.phase = "respond", !.status = "hit",
                               !.respId = cache[CacheKey(r)].id])
  /\ UNCHANGED shared

(* It has expired: cache_hit_filter forces it to, which also keeps pingora *)
(* from serving it when the upstream fails.  It may still be revalidated.  *)
CacheExpired(r) ==
  /\ InPhase(r, "lookup")
  /\ cache[CacheKey(r)] # None
  /\ Becomes(r, [ctx[r] EXCEPT !.phase = "peer", !.stale = cache[CacheKey(r)]])
  /\ UNCHANGED shared

(* There is none, or it cannot be read. *)
CacheMiss(r) ==
  /\ InPhase(r, "lookup")
  /\ Becomes(r, [ctx[r] EXCEPT !.phase = "peer"])
  /\ UNCHANGED shared

-----------------------------------------------------------------------------
(***************************************************************************)
(* The upstream.                                                           *)
(***************************************************************************)

(* The address of a healthy backend, and the first upstream whose name     *)
(* resolves to it by now: not always the one it was discovered for.        *)
UpstreamPeer(r) ==
  /\ InPhase(r, "peer")
  /\ \E u \in UpstreamsOf[ctx[r].route] : \E a \in MayResolve[u] :
       Becomes(r, [ctx[r] EXCEPT !.phase = "connect", !.peer = a, !.upstream = u])
  /\ UNCHANGED shared

(* A name on the way to that upstream does not resolve: to_socket_addrs()  *)
(* is unwrapped, and the request is gone without an answer or a log line.  *)
UpstreamPeerPanics(r) ==
  /\ InPhase(r, "peer")
  /\ UpstreamsOf[ctx[r].route] # {}
  /\ Becomes(r, None)
  /\ UNCHANGED shared

Connected(r) ==
  /\ InPhase(r, "connect")
  /\ Becomes(r, [ctx[r] EXCEPT !.phase = "send"])
  /\ UNCHANGED shared

(* The headers configured for the upstream, and the plugins of the route. *)
UpstreamRequestFilter(r) ==
  /\ InPhase(r, "send")
  /\ Becomes(r, [ctx[r] EXCEPT !.phase = "upstream",
                               !.forwarded = [peer |-> ctx[r].peer, headers |-> ctx[r].upstream,
                                              id |-> IF HasRequestId(r) THEN ctx[r].id ELSE 0]])
  /\ UNCHANGED shared

(* Plausible bug: one attempt too many. *)
RetryOnceMore(r) ==
  /\ InPhase(r, "upstream")
  /\ ctx[r].retries <= MaxRetries
  /\ Becomes(r, [ctx[r] EXCEPT !.phase = "peer", !.retries = @ + 1])
  /\ UNCHANGED shared

(* Plausible bug: no end to attempts. *)
RetryForever(r) ==
  /\ InPhase(r, "upstream")
  /\ Becomes(r, [ctx[r] EXCEPT !.phase = "peer"])
  /\ UNCHANGED shared

(* A reused connection turns out to be closed: pingora starts again at     *)
(* upstream_peer, with the same context.                                   *)
Retry(r) ==
  /\ InPhase(r, "upstream")
  /\ ctx[r].retries < MaxRetries
  /\ Becomes(r, [ctx[r] EXCEPT !.phase = "peer", !.retries = @ + 1])
  /\ UNCHANGED shared

(* No healthy backend or none that an upstream resolves to any more (503), *)
(* no connection, or no answer.                                            *)
UpstreamFails(r) ==
  /\ InPhase(r, "peer") \/ InPhase(r, "connect") \/ InPhase(r, "upstream")
  /\ Becomes(r, [ctx[r] EXCEPT !.phase = "logging", !.status = "error", !.stale = None])
  /\ UNCHANGED shared

(* Plausible bug: the response gets an id of its own. *)
UpstreamResponseNewId(r) ==
  /\ InPhase(r, "upstream")
  /\ Unused # {}
  /\ Becomes(r, [ctx[r] EXCEPT !.phase = "respond", !.status = "ok",
                               !.respId = IF HasRequestId(r) THEN NewId ELSE 0])
  /\ UNCHANGED shared

(* upstream_response_filter comes before caching: the cache stores its id. *)
(* response_cache_filter admits GET and HEAD only.                         *)
UpstreamResponse(r) ==
  LET id == IF HasRequestId(r) THEN ctx[r].id ELSE 0 IN
  /\ InPhase(r, "upstream")
  /\ Becomes(r, [ctx[r] EXCEPT !.phase = "respond", !.status = "ok", !.respId = id,
                               !.stale = None])
  /\ \/ UNCHANGED cache
     \/ /\ ctx[r].route \in Cached
        /\ cache' = [cache EXCEPT ![CacheKey(r)] = [id |-> id]]
  /\ UNCHANGED <<store, cacheDir>>

(* 304: pingora merges the caching headers of the upstream's answer into   *)
(* the expired response and serves that, with the x-request-id it was      *)
(* stored with; update_meta writes it back.                                *)
Revalidated(r) ==
  /\ InPhase(r, "upstream")
  /\ ctx[r].stale # None
  /\ Becomes(r, [ctx[r] EXCEPT !.phase = "respond", !.status = "revalidated",
                               !.respId = ctx[r].stale.id, !.stale = None])
  /\ cache' \in {cache, [cache EXCEPT ![CacheKey(r)] = ctx[r].stale]}
  /\ UNCHANGED <<store, cacheDir>>

-----------------------------------------------------------------------------
(* Plausible bug: the headers of the host's route of this moment. *)
ResponseFilterFromStore(r) ==
  /\ InPhase(r, "respond")
  /\ Becomes(r, [ctx[r] EXCEPT !.phase = "logging", !.respHeaders = store[ctx[r].host]])
  /\ UNCHANGED shared

(* response_filter, for hits too; no plugin does anything in it. *)
ResponseFilter(r) ==
  /\ InPhase(r, "respond")
  /\ Becomes(r, [ctx[r] EXCEPT !.phase = "logging", !.respHeaders = ctx[r].route])
  /\ UNCHANGED shared

(* The access log line, the last thing that happens to a request. *)
Logging(r) ==
  /\ InPhase(r, "logging")
  /\ Becomes(r, None)
  /\ UNCHANGED shared

(* The routing service replaces a host's route (RouteDiscovery). *)
ReplaceRoute(h) ==
  /\ \E route \in Routes \ {store[h]} : store' = [store EXCEPT ![h] = route]
  /\ UNCHANGED <<cache, cacheDir, ctx>>

Init ==
  /\ store \in [Hosts -> Routes \cup {None}]
  /\ cache = [k \in Hosts \X Paths |-> None]
  /\ cacheDir = [h \in Hosts |-> None]
  /\ ctx = [r \in Requests |-> None]

Arrive(r) == \E h \in Hosts, p \in Paths : NotFound(r, h, p) \/ Found(r, h, p)

RunPlugin(r) ==
  \/ RequestIdFilter(r) \/ Denied(r)
  \/ \E name \in Plugin : Passed(r, name) \/ Handled(r, name)

Step(r) ==
  \/ RunPlugin(r) \/ EndRequestFilter(r)
  \/ CacheHit(r) \/ CacheExpired(r) \/ CacheMiss(r)
  \/ UpstreamPeer(r) \/ UpstreamPeerPanics(r) \/ Connected(r) \/ UpstreamRequestFilter(r)
  \/ Retry(r) \/ UpstreamFails(r) \/ UpstreamResponse(r) \/ Revalidated(r)
  \/ ResponseFilter(r) \/ Logging(r)

Next ==
  \/ \E r \in Requests : Arrive(r) \/ Step(r)
  \/ \E h \in Hosts : ReplaceRoute(h)

(* The oauth2 plugin asks its provider with a client that has no timeout.  *)
AsksProvider(r) == InPhase(r, "plugins") /\ "oauth2" \in ctx[r].todo

(* Peers have timeouts (default_peer_opts), and so has CACHE_LOCK: every   *)
(* other callback in progress ends and pingora makes the next one.         *)
Fairness == \A r \in Requests : WF_vars(~AsksProvider(r) /\ Step(r))

Spec == Init /\ [][Next]_vars /\ Fairness

-----------------------------------------------------------------------------
(***************************************************************************)
(* Properties.                                                             *)
(***************************************************************************)

(* Every variable stays in its type. *)
TypeOK ==
  /\ store \in [Hosts -> Routes \cup {None}]
  /\ cache \in [Hosts \X Paths -> Stored \cup {None}]
  /\ cacheDir \in [Hosts -> Cached \cup {None}]
  /\ ctx \in [Requests -> Context \cup {None}]

(* The answers that are a response of an upstream, now or earlier. *)
Served == {"ok", "hit", "revalidated"}

Done(r, statuses) == InPhase(r, "logging") /\ ctx[r].status \in statuses

(* Although the host's route is replaced while the request is on its way,  *)
(* one route decides all of it: the plugins that ran, the upstream, and    *)
(* the headers of the answer, from the cache or not.                       *)
OneRouteDecides ==
  \A r \in Requests :
    /\ ctx[r] # None /\ ctx[r].forwarded # None =>
         /\ ctx[r].ran = PluginsOf[ctx[r].route]
         /\ ctx[r].forwarded.headers \in UpstreamsOf[ctx[r].route]
    /\ Done(r, Served) =>
         /\ ctx[r].ran = PluginsOf[ctx[r].route]
         /\ ctx[r].respHeaders = ctx[r].route

(* A request that request_filter has ended, by a 404 or because a plugin   *)
(* says so, is not sent anywhere and not answered again.                   *)
AnsweredOnce ==
  \A r \in Requests : ctx[r] # None /\ ctx[r].status \in {"404", "plugin"} =>
    /\ InPhase(r, "logging")
    /\ ctx[r].forwarded = None /\ ctx[r].respHeaders = None

(* However often the upstream is chosen anew, a request carries the        *)
(* headers configured for an upstream that has the address it is sent to.  *)
HeadersMatchPeer ==
  \A r \in Requests : ctx[r] # None /\ ctx[r].forwarded # None =>
    ctx[r].forwarded.peer \in MayResolve[ctx[r].forwarded.headers]

(* The upstream is given the id of the access log.  So is the client, when *)
(* it gets what this upstream has answered; and only then: an answer from  *)
(* the cache, revalidated or not, never carries the id of the request that *)
(* it is given to, whichever requests fill and renew the cache meanwhile.  *)
IdsAgree ==
  \A r \in Requests : InPhase(r, "logging") =>
    /\ ctx[r].forwarded # None /\ HasRequestId(r) => ctx[r].forwarded.id = ctx[r].id
    /\ Done(r, {"ok"}) /\ HasRequestId(r) => ctx[r].respId = ctx[r].id
    /\ Done(r, {"hit", "revalidated"}) /\ ctx[r].id # 0 => ctx[r].respId # ctx[r].id

(* A status that is set stands for an answer the client has got, except in *)
(* the phase in which the answer is being made.                            *)
AnswerOf(c) ==
  IF c.status = "none" \/ c.phase = "respond" THEN None
  ELSE [status |-> c.status, headers |-> c.respHeaders, id |-> c.respId]

Seen(c) ==
  IF c = None THEN None
  ELSE [route |-> c.found, ran |-> c.ran, id |-> c.id, sent |-> c.forwarded, answer |-> AnswerOf(c)]

Exchanges == [r \in Requests |-> Seen(ctx[r])]

Promise == INSTANCE Exchange WITH exchange <- Exchanges

(* The callbacks make one exchange of a request: the route it arrived to   *)
(* decides all of it, each plugin runs once and before anything is sent,   *)
(* what is sent carries its id, and so does the answer of that upstream    *)
(* but none from the cache, and nothing happens after the answer; whatever *)
(* routes are replaced, cached, retried or fail, and in whichever order    *)
(* the plugins run.  (The 401 that Denied writes on the way is not seen    *)
(* here; DeniedIsInterrupted is about it.)                                 *)
ImplementsExchange == Promise!Spec

(* "If the user is not authorized, return true to interrupt the request":  *)
(* a request that has been answered 401 is not sent to an upstream.        *)
DeniedIsInterrupted ==
  \A r \in Requests : ctx[r] # None /\ ctx[r].denied => ctx[r].forwarded = None

(* Every request that is not waiting for an oauth2 provider comes to its   *)
(* access log line, or to the panic of upstream_peer: attempts, failing    *)
(* peers and replaced routes do not keep it for ever.                      *)
RequestsEnd ==
  \A r \in Requests : (ctx[r] # None /\ ~AsksProvider(r)) ~> (ctx[r] = None)
-----------------------------------------------------------------------------
(***************************************************************************)
(* What the callbacks rely on, phase by phase: these make the properties   *)
(* inductive.                                                              *)
(***************************************************************************)

(* While the plugins run the context has no route yet. *)
BeforeRoute(c) ==
  c.phase = "plugins" =>
    /\ c.found # None /\ c.ran \subseteq PluginsOf[c.found]
    /\ c.todo = PluginsOf[c.found] \ c.ran
    /\ c.status = "none" /\ c.forwarded = None /\ c.stale = None

(* After them it has one, unless the request has been answered. *)
AfterRoute(c) ==
  c.phase # "plugins" /\ c.status \notin {"404", "plugin"} =>
    c.route # None /\ c.route = c.found /\ c.ran = PluginsOf[c.route]

(* The status and the answer's headers are set last. *)
AnswerLast(c) ==
  /\ c.status = "none" <=> c.phase \notin {"respond", "logging"}
  /\ c.phase = "respond" => c.status \in Served
  /\ c.status \in {"404", "plugin"} => c.phase = "logging" /\ c.forwarded = None
  /\ c.respHeaders = IF c.phase = "logging" /\ c.status \in Served THEN c.route ELSE None
  /\ c.respId = 0 \/ c.status \in Served
  /\ c.phase = "lookup" \/ c.status = "hit" => c.forwarded = None /\ c.route \in Cached
  /\ c.stale # None \/ c.status = "revalidated" => c.route \in Cached

(* ctx.upstream is an upstream of the route that has the peer's address. *)
PeerChosen(c) ==
  c.phase \in {"connect", "send"} =>
    c.upstream \in UpstreamsOf[c.route] /\ c.peer \in MayResolve[c.upstream]

IdSent(c) == IF "request_id" \in PluginsOf[c.route] THEN c.id ELSE 0

(* What has been sent, by whichever attempt. *)
SentFrom(c) ==
  /\ c.phase = "upstream" \/ c.status \in {"ok", "revalidated"} => c.forwarded # None
  /\ c.forwarded # None =>
       /\ c.forwarded.headers \in UpstreamsOf[c.route]
       /\ c.forwarded.peer \in MayResolve[c.forwarded.headers]
       /\ c.forwarded.id = IdSent(c)
  /\ c.status = "ok" => c.respId = IdSent(c)

Consistent(c) ==
  BeforeRoute(c) /\ AfterRoute(c) /\ AnswerLast(c) /\ PeerChosen(c) /\ SentFrom(c)

CallbacksConsistent == \A r \in Requests : ctx[r] # None => Consistent(ctx[r])

UniqueIds ==
  \A r, q \in Requests :
    r # q /\ ctx[r] # None /\ ctx[q] # None /\ ctx[r].id # 0 => ctx[r].id # ctx[q].id

(* Until the upstream has answered a request in full, its id is in no      *)
(* cached response, and in none that a request holds.                      *)
NotStoredYet ==
  \A r \in Requests : ctx[r] # None /\ ctx[r].id # 0 /\ ctx[r].status # "ok" =>
    /\ \A k \in Hosts \X Paths : cache[k] # [id |-> ctx[r].id]
    /\ \A q \in Requests : ctx[q] # None => ctx[q].stale # [id |-> ctx[r].id]
    /\ ctx[r].respId # ctx[r].id
=============================================================================
