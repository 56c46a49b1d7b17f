--------------------------- MODULE RouteDiscovery ---------------------------
(***************************************************************************)
(* The route plane of proksi: how a host gets its backends.                *)
(*                                                                         *)
(* Four actors share the ROUTE_STORE (stores/mod.rs).                      *)
(*   - The routing service adds the routes of the configuration file, then *)
(*     applies every route announced on a bounded tokio broadcast channel. *)
(*   - The Docker label service lists the labelled services or containers  *)
(*     and announces one route per host on that channel.                   *)
(*   - The health service clones a container out of the store, probes its  *)
(*     backends (an await) and inserts the clone back.                     *)
(*   - HTTPS requests, on other threads, take a snapshot of the container  *)
(*     in request_filter and select a peer from it in upstream_peer.       *)
(*                                                                         *)
(* The first three are branches of one tokio::join! (services/mod.rs), so  *)
(* they interleave at their awaits only: everything between two awaits is  *)
(* one action here.  The docker daemon, DNS and the backends themselves    *)
(* are the environment.                                                    *)
(***************************************************************************)
EXTENDS Integers, Sequences, FiniteSets

CONSTANTS
  Hosts,        \* host names that routes are keyed by
  Names,        \* "host:port" strings an upstream may be written as
  Addrs,        \* socket addresses
  Attrs,        \* all else a route carries: headers, plugins, patterns, ssl flag
  BadAttrs,     \* the attributes whose header text HeaderName::from_str rejects
  NamesOf,      \* [Hosts -> SUBSET Names]: the upstreams a host may be given
  DnsAnswers,   \* [Names -> SUBSET SUBSET Addrs]: what a lookup may return
  UpAtStart,    \* the sets of addresses that may accept connections at the start
  ConfigRoutes, \* the `routes` of the configuration file, in order
  Capacity,     \* slots of the broadcast ring
  MaxBatches,   \* batches docker may send before join! polls the routing branch
  LBs,          \* identities for the Arc<LoadBalancer> values alive at once
  Requests,     \* concurrent HTTPS requests
  MaxChanges,   \* bound: changes the environment makes in one behaviour
  NoRoute       \* no container for a host, no listing, no snapshot

(* What the environment may put in front of one host. *)
Route == [upstreams : SUBSET Names, attrs : Attrs]

Message == [host : Hosts, upstreams : SUBSET Names, attrs : Attrs]

ASSUME HostsFinite == IsFiniteSet(Hosts)

ASSUME AddrsFinite == IsFiniteSet(Addrs)

ASSUME NamesNotAddrs == Names \cap Addrs = {}

ASSUME BadAttrsType == BadAttrs \subseteq Attrs

ASSUME NamesOfType == NamesOf \in [Hosts -> SUBSET Names]

ASSUME DnsAnswersType == DnsAnswers \in [Names -> SUBSET SUBSET Addrs]

ASSUME UpAtStartType == UpAtStart \subseteq SUBSET Addrs

ASSUME ConfigRoutesType ==
  /\ ConfigRoutes \in Seq(Message)
  /\ \A i \in DOMAIN ConfigRoutes :
       ConfigRoutes[i].upstreams \subseteq NamesOf[ConfigRoutes[i].host]

ASSUME CapacityType == Capacity \in Nat \ {0}

ASSUME MaxBatchesType == MaxBatches \in Nat \ {0}

ASSUME MaxChangesType == MaxChanges \in Nat

ASSUME NoRouteFresh ==
  /\ NoRoute \notin [lb : LBs, upstreams : SUBSET (Names \cup Addrs),
                     backends : SUBSET Addrs, attrs : Attrs]
  /\ NoRoute \notin Route

VARIABLES
  store,      \* ROUTE_STORE: [Hosts -> container or NoRoute]
  unhealthy,  \* per load balancer, the backends its health map marks down
  routing,    \* state of RoutingService::start_service
  configAt,   \* how many configuration routes have been added
  channel,    \* unread messages of the routing service's receiver
  lagged,     \* an unread message was overwritten
  batches,    \* batches sent since the receiver was last drained
  listing,    \* the daemon's answer on its way to the label service
  todo,       \* hosts the current health round has still to visit
  clone,      \* the container the health service holds across its await
  ctx,        \* per request, the RouterContext
  docker,     \* environment: the routes the daemon's labels spell
  dns,        \* environment: what a name resolves to ({}: the lookup fails)
  up,         \* environment: backends that accept connections
  changes     \* environment changes so far

routeVars  == <<store, unhealthy>>
chanVars   == <<channel, lagged, batches>>
healthVars == <<todo, clone>>
envVars    == <<docker, dns, up, changes>>
vars == <<routeVars, routing, configAt, chanVars, listing, healthVars, ctx, envVars>>

-----------------------------------------------------------------------------
(***************************************************************************)
(* RouteStoreContainer (stores/routes.rs).  Clones of a container share    *)
(* its load balancer, so the health marks live in `unhealthy`, keyed by    *)
(* the balancer.  Static discovery never changes a balancer's backends.    *)
(***************************************************************************)
Container == [lb        : LBs,
              upstreams : SUBSET (Names \cup Addrs),
              backends  : SUBSET Addrs,
              attrs     : Attrs]

Routed == {h \in Hosts : store[h] # NoRoute}

(* The health service's stack while it awaits run_health_check. *)
Clone == [host : Hosts, container : Container, pending : SUBSET Addrs]

Ctx == [host : Hosts, container : Container,
        phase : {"filtered", "peer", "unavailable", "panicked"},
        peer : Addrs \cup {NoRoute}]

(* The load balancers some Arc still points to. *)
InUse ==
  {store[h].lb : h \in Routed}
    \cup (IF clone = NoRoute THEN {} ELSE {clone.container.lb})
    \cup {ctx[r].container.lb : r \in {q \in Requests : ctx[q] # NoRoute}}

(* ToSocketAddrs: a name is looked up, an address literal is parsed. *)
Resolve(u) == IF u \in Addrs THEN {u} ELSE dns[u]

Resolved(ups) == UNION {Resolve(u) : u \in ups}

(* try_from_iter gives up as soon as one upstream does not resolve. *)
Buildable(ups) == \A u \in ups : Resolve(u) # {}

-----------------------------------------------------------------------------
(***************************************************************************)
(* The routing service (services/discovery/mod.rs).                        *)
(***************************************************************************)

(* Plausible bug: only the number of backends is compared. *)
HasNewBackendByCount(h, new) ==
  /\ store[h] # NoRoute
  /\ Cardinality(store[h].backends) # Cardinality(new)

(* has_new_backend: the length test, then "is every old backend still there". *)
HasNewBackend(h, new) ==
  /\ store[h] # NoRoute
  /\ \/ Cardinality(store[h].backends) # Cardinality(new)
     \/ ~(\A b \in store[h].backends : b \in new)

InsertRoute(h, c) == store' = [store EXCEPT ![h] = c]

(* A new Arc<LoadBalancer>, every backend healthy until a check says otherwise. *)
NewLoadBalancer(l) == unhealthy' = [unhealthy EXCEPT ![l] = {}]

(* Plausible bug: replacing a route keeps the old list of upstream entries. *)
UpstreamEntriesKept(h, ups) ==
  IF store[h] = NoRoute THEN ups ELSE store[h].upstreams

(* route_store_container.upstreams = upstream_input *)
UpstreamEntries(h, ups) == ups

(***************************************************************************)
(* add_route_to_router.  `after` is the state the service is left in when  *)
(* the call returns.  A header the http crate rejects makes it panic; the  *)
(* panic unwinds the task that runs all background services.               *)
(***************************************************************************)
AddRouteToRouter(h, ups, attrs, after) ==
  LET new == Resolved(ups)
      skip == \/ ~Buildable(ups)
              \/ store[h] # NoRoute /\ ~HasNewBackend(h, new)
  IN  \/ /\ skip
         /\ routing' = after
         /\ UNCHANGED routeVars
      \/ /\ ~skip
         /\ attrs \in BadAttrs
         /\ routing' = "panicked"
         /\ UNCHANGED routeVars
      \/ /\ ~skip
         /\ attrs \notin BadAttrs
         /\ LBs \ InUse # {}
         /\ LET l == CHOOSE l \in LBs \ InUse : TRUE
            IN  /\ NewLoadBalancer(l)
                /\ InsertRoute(h, [lb |-> l, upstreams |-> UpstreamEntries(h, ups),
                                   backends |-> new, attrs |-> attrs])
         /\ routing' = after

(* One turn of the loop of add_routes_from_config. *)
AddRoutesFromConfig ==
  /\ routing = "starting"
  /\ configAt < Len(ConfigRoutes)
  /\ configAt' = configAt + 1
  /\ LET r == ConfigRoutes[configAt + 1]
     IN  AddRouteToRouter(r.host, r.upstreams, r.attrs, "starting")
  /\ UNCHANGED <<chanVars, listing, healthVars, ctx, envVars>>

(* broadcast.subscribe(): the receiver sees what is sent from now on. *)
Subscribe ==
  /\ routing = "starting"
  /\ configAt = Len(ConfigRoutes)
  /\ routing' = "watching"
  /\ UNCHANGED <<routeVars, configAt, chanVars, listing, healthVars, ctx, envVars>>

(***************************************************************************)
(* watch_for_route_changes: names that do not resolve are dropped, and the *)
(* addresses of the others become the upstreams, as literals.              *)
(***************************************************************************)
WatchForRouteChanges(m) ==
  AddRouteToRouter(m.host, Resolved(m.upstreams), m.attrs, "watching")

(* `while let Ok(..) = receiver.recv().await`: a message that is still there. *)
ReceiveRoute ==
  /\ routing = "watching"
  /\ ~lagged
  /\ channel # << >>
  /\ channel' = Tail(channel)
  /\ batches' = IF Tail(channel) = << >> THEN 0 ELSE batches
  /\ WatchForRouteChanges(Head(channel))
  /\ UNCHANGED <<configAt, lagged, listing, healthVars, ctx, envVars>>

(* recv() returns Err(Lagged): the loop, and with it the service, ends. *)
ReceiveLagged ==
  /\ routing = "watching"
  /\ lagged
  /\ routing' = "stopped"
  /\ channel' = << >>
  /\ batches' = 0
  /\ UNCHANGED <<routeVars, configAt, lagged, listing, healthVars, ctx, envVars>>

-----------------------------------------------------------------------------
(***************************************************************************)
(* The Docker label service (services/docker/mod.rs).                      *)
(***************************************************************************)

(* The branches of join! other than routing run once routing has awaited. *)
BackgroundRuns == routing \in {"watching", "stopped"}

(* get_routes_from_docker: the daemon's answer, as of when it was computed. *)
ListRoutes ==
  /\ BackgroundRuns
  /\ listing = NoRoute
  /\ listing' = docker
  /\ UNCHANGED <<routeVars, routing, configAt, chanVars, healthVars, ctx, envVars>>

(* The daemon answers with an error: an empty host map. *)
ListFails ==
  /\ BackgroundRuns
  /\ listing = NoRoute
  /\ listing' = [h \in Hosts |-> NoRoute]
  /\ UNCHANGED <<routeVars, routing, configAt, chanVars, healthVars, ctx, envVars>>

(* The hosts send_route_message does not skip. *)
Announced(l) == {h \in Hosts : l[h] # NoRoute /\ l[h].upstreams # {}}

MessageOf(l, h) == [host |-> h, upstreams |-> l[h].upstreams, attrs |-> l[h].attrs]

(* One message per host, in the order the HashMap happens to iterate. *)
Batch(l) ==
  LET hs == Announced(l)
      n  == Cardinality(hs)
      orders == {o \in [1 .. n -> hs] : \A i, j \in 1 .. n : o[i] = o[j] => i = j}
  IN  {[i \in 1 .. n |-> MessageOf(l, o[i])] : o \in orders}

(* Plausible bug: the ring loses a slot. *)
PublishOneSlotShort(b) ==
  LET all == channel \o b
  IN  /\ lagged' = (lagged \/ Len(all) >= Capacity)
      /\ channel' = IF Len(all) >= Capacity
                    THEN SubSeq(all, Len(all) - Capacity + 2, Len(all)) ELSE all

(* broadcast::Sender::send, once per message: the oldest slot is overwritten. *)
Publish(b) ==
  LET all == channel \o b
  IN  /\ lagged' = (lagged \/ Len(all) > Capacity)
      /\ channel' = IF Len(all) > Capacity
                    THEN SubSeq(all, Len(all) - Capacity + 1, Len(all)) ELSE all

(* send_route_message: every send of one listing, with no await between. *)
SendRouteMessage ==
  /\ BackgroundRuns
  /\ listing # NoRoute
  /\ listing' = NoRoute
  /\ \/ /\ routing = "watching"
        /\ batches < MaxBatches
        /\ \E b \in Batch(listing) :
             /\ Publish(b)
             /\ batches' = IF channel' = << >> THEN 0 ELSE batches + 1
     \/ /\ routing = "stopped"           \* nobody subscribes any more
        /\ UNCHANGED chanVars
  /\ UNCHANGED <<routeVars, routing, configAt, healthVars, ctx, envVars>>

-----------------------------------------------------------------------------
(***************************************************************************)
(* The health service (services/health_check/mod.rs).                      *)
(***************************************************************************)

(* interval.tick(), then the iteration over the hosts of get_routes(). *)
HealthTick ==
  /\ BackgroundRuns
  /\ todo = {} /\ clone = NoRoute
  /\ Routed # {}
  /\ todo' = Routed
  /\ UNCHANGED <<routeVars, routing, configAt, chanVars, listing, clone, ctx, envVars>>

(* Clone the container; with no backend to probe there is no await either.  *)
CloneContainer(h) ==
  /\ BackgroundRuns
  /\ clone = NoRoute
  /\ h \in todo
  /\ todo' = todo \ {h}
  /\ clone' = IF store[h].backends = {} THEN NoRoute
              ELSE [host |-> h, container |-> store[h], pending |-> store[h].backends]
  /\ UNCHANGED <<routeVars, routing, configAt, chanVars, listing, ctx, envVars>>

(* Plausible bug: a failed probe leaves the backend as it was. *)
ProbeNeverMarksDown(a) ==
  /\ BackgroundRuns
  /\ clone # NoRoute
  /\ a \in clone.pending
  /\ clone' = [clone EXCEPT !.pending = @ \ {a}]
  /\ unhealthy' = [unhealthy EXCEPT ![clone.container.lb] =
                     IF a \in up THEN @ \ {a} ELSE @]
  /\ UNCHANGED <<store, routing, configAt, chanVars, listing, todo, ctx, envVars>>

(* Plausible bug: the route is looked up anew after the await. *)
ProbeMarksServedRoute(a) ==
  /\ BackgroundRuns
  /\ clone # NoRoute
  /\ a \in clone.pending
  /\ clone' = [clone EXCEPT !.pending = @ \ {a}]
  /\ unhealthy' = [unhealthy EXCEPT ![store[clone.host].lb] =
                     IF a \in up THEN @ \ {a} ELSE @ \cup {a}]
  /\ UNCHANGED <<store, routing, configAt, chanVars, listing, todo, ctx, envVars>>

(* run_health_check(false): one TCP probe, awaited; the mark is shared. *)
ProbeBackend(a) ==
  /\ BackgroundRuns
  /\ clone # NoRoute
  /\ a \in clone.pending
  /\ clone' = [clone EXCEPT !.pending = @ \ {a}]
  /\ unhealthy' = [unhealthy EXCEPT ![clone.container.lb] =
                     IF a \in up THEN @ \ {a} ELSE @ \cup {a}]
  /\ UNCHANGED <<store, routing, configAt, chanVars, listing, todo, ctx, envVars>>

(* Plausible bug: the clone is inserted under the next host of the loop. *)
WriteBackUnderNextHost ==
  /\ BackgroundRuns
  /\ clone # NoRoute
  /\ clone.pending = {}
  /\ InsertRoute(IF todo = {} THEN clone.host ELSE CHOOSE h \in todo : TRUE,
                 clone.container)
  /\ clone' = NoRoute
  /\ UNCHANGED <<unhealthy, routing, configAt, chanVars, listing, todo, ctx, envVars>>

(* insert_route(host, route_container): the clone goes back into the store. *)
WriteBack ==
  /\ BackgroundRuns
  /\ clone # NoRoute
  /\ clone.pending = {}
  /\ InsertRoute(clone.host, clone.container)
  /\ clone' = NoRoute
  /\ UNCHANGED <<unhealthy, routing, configAt, chanVars, listing, todo, ctx, envVars>>

-----------------------------------------------------------------------------
(***************************************************************************)
(* HTTPS requests (proxy_server/https_proxy.rs).                           *)
(***************************************************************************)

(* Plausible bug: the lookup's None is not turned into a 404. *)
RequestFilterUnchecked(r, h) ==
  /\ ctx[r] = NoRoute
  /\ ctx' = [ctx EXCEPT ![r] = [host |-> h, container |-> store[h],
                                phase |-> "filtered", peer |-> NoRoute]]
  /\ UNCHANGED <<routeVars, routing, configAt, chanVars, listing, healthVars, envVars>>

(* request_filter: the container is cloned into the context.  A request    *)
(* answered here (no route, no path match, a plugin) leaves no trace.      *)
RequestFilter(r, h) ==
  /\ ctx[r] = NoRoute
  /\ h \in Routed
  /\ ctx' = [ctx EXCEPT ![r] = [host |-> h, container |-> store[h],
                                phase |-> "filtered", peer |-> NoRoute]]
  /\ UNCHANGED <<routeVars, routing, configAt, chanVars, listing, healthVars, envVars>>

(***************************************************************************)
(* select(b"", 32) looks at 32 candidates of a round robin and returns the *)
(* first that is not marked down.  Every request on the balancer advances  *)
(* that round robin, so the candidates of one call need not be neighbours: *)
(* it can find some backend that is up, and it can also meet none but      *)
(* those marked down, unless no backend is.                                *)
(***************************************************************************)
Ready(c) == c.backends \ unhealthy[c.lb]

SelectMayGiveUp(c) == Ready(c) # c.backends \/ c.backends = {}

(***************************************************************************)
(* upstream_peer: select a backend, then find the upstream entry that      *)
(* resolves to it now.  The entries are tried in the order of the          *)
(* configuration, any order here; one that fails to resolve before the     *)
(* match is found makes the unwrap() panic.                                *)
(***************************************************************************)
PeerOutcomes(c) ==
  LET fails == \E u \in c.upstreams : Resolve(u) = {}
  IN  (IF SelectMayGiveUp(c) THEN {<<"unavailable", NoRoute>>} ELSE {})
        \cup {<<"peer", a>> : a \in Ready(c) \cap Resolved(c.upstreams)}
        \cup (IF Ready(c) # {} /\ fails THEN {<<"panicked", NoRoute>>} ELSE {})
        \cup (IF Ready(c) \ Resolved(c.upstreams) # {} /\ ~fails
              THEN {<<"unavailable", NoRoute>>} ELSE {})

UpstreamPeer(r) ==
  /\ ctx[r] # NoRoute
  /\ ctx[r].phase = "filtered"
  /\ \E o \in PeerOutcomes(ctx[r].container) :
       ctx' = [ctx EXCEPT ![r].phase = o[1], ![r].peer = o[2]]
  /\ UNCHANGED <<routeVars, routing, configAt, chanVars, listing, healthVars, envVars>>

(* The exchange ends and the context is dropped. *)
RequestDone(r) ==
  /\ ctx[r] # NoRoute
  /\ ctx[r].phase # "filtered"
  /\ ctx' = [ctx EXCEPT ![r] = NoRoute]
  /\ UNCHANGED <<routeVars, routing, configAt, chanVars, listing, healthVars, envVars>>

-----------------------------------------------------------------------------
(***************************************************************************)
(* The environment: labels, lookups and backends change, MaxChanges times. *)
(***************************************************************************)
Change ==
  /\ changes < MaxChanges
  /\ changes' = changes + 1
  /\ UNCHANGED <<routeVars, routing, configAt, chanVars, listing, healthVars, ctx>>

RouteOf(h) == {NoRoute} \cup [upstreams : SUBSET NamesOf[h], attrs : Attrs]

LabelsChange(h) ==
  /\ Change
  /\ \E d \in RouteOf(h) \ {docker[h]} : docker' = [docker EXCEPT ![h] = d]
  /\ UNCHANGED <<dns, up>>

DnsChanges(n) ==
  /\ Change
  /\ \E a \in DnsAnswers[n] \ {dns[n]} : dns' = [dns EXCEPT ![n] = a]
  /\ UNCHANGED <<docker, up>>

BackendFlips(a) ==
  /\ Change
  /\ up' = IF a \in up THEN up \ {a} ELSE up \cup {a}
  /\ UNCHANGED <<docker, dns>>

-----------------------------------------------------------------------------
Init ==
  /\ store = [h \in Hosts |-> NoRoute]
  /\ unhealthy = [l \in LBs |-> {}]
  /\ routing = "starting"
  /\ configAt = 0
  /\ channel = << >>
  /\ lagged = FALSE
  /\ batches = 0
  /\ listing = NoRoute
  /\ todo = {}
  /\ clone = NoRoute
  /\ ctx = [r \in Requests |-> NoRoute]
  /\ docker \in [Hosts -> {NoRoute} \cup Route]
  /\ \A h \in Hosts : docker[h] \in RouteOf(h)
  /\ dns \in [Names -> SUBSET Addrs]
  /\ \A n \in Names : dns[n] \in DnsAnswers[n]
  /\ up \in UpAtStart
  /\ changes = 0

RoutingNext == AddRoutesFromConfig \/ Subscribe \/ ReceiveRoute \/ ReceiveLagged

DockerNext == ListRoutes \/ ListFails \/ SendRouteMessage

HealthNext ==
  \/ HealthTick
  \/ \E h \in Hosts : CloneContainer(h)
  \/ \E a \in Addrs : ProbeBackend(a)
  \/ WriteBack

RequestNext ==
  \E r \in Requests :
    \/ \E h \in Hosts : RequestFilter(r, h)
    \/ UpstreamPeer(r)
    \/ RequestDone(r)

EnvNext ==
  \/ \E h \in Hosts : LabelsChange(h)
  \/ \E n \in Names : DnsChanges(n)
  \/ \E a \in Addrs : BackendFlips(a)

Next == RoutingNext \/ DockerNext \/ HealthNext \/ RequestNext \/ EnvNext

(***************************************************************************)
(* tokio polls every branch of join! that has been woken, so each service  *)
(* takes its next step; the daemon does not fail for ever, so listing is   *)
(* strongly fair.  Requests and the environment owe nothing.               *)
(***************************************************************************)
Fairness ==
  /\ WF_vars(RoutingNext)
  /\ WF_vars(HealthNext)
  /\ WF_vars(SendRouteMessage)
  /\ SF_vars(ListRoutes)

Spec == Init /\ [][Next]_vars /\ Fairness

-----------------------------------------------------------------------------
(***************************************************************************)
(* Properties.                                                             *)
(***************************************************************************)

(* Every variable stays in its type, whatever the services interleave. *)
TypeOK ==
  /\ store \in [Hosts -> Container \cup {NoRoute}]
  /\ unhealthy \in [LBs -> SUBSET Addrs]
  /\ routing \in {"starting", "watching", "stopped", "panicked"}
  /\ configAt \in 0 .. Len(ConfigRoutes)
  /\ channel \in Seq(Message)
  /\ lagged \in BOOLEAN
  /\ batches \in 0 .. MaxBatches
  /\ listing \in [Hosts -> Route \cup {NoRoute}] \cup {NoRoute}
  /\ todo \in SUBSET Hosts
  /\ clone \in Clone \cup {NoRoute}
  /\ ctx \in [Requests -> Ctx \cup {NoRoute}]
  /\ docker \in [Hosts -> Route \cup {NoRoute}]
  /\ dns \in [Names -> SUBSET Addrs]
  /\ up \in SUBSET Addrs
  /\ changes \in 0 .. MaxChanges

(* Every address some name of the host may ever resolve to. *)
AddrsOf(h) == UNION {UNION DnsAnswers[n] : n \in NamesOf[h]}

(* A request is only ever sent to an address that one of its own host's    *)
(* upstreams resolved to: messages, the health service's clones and the    *)
(* request's snapshot never carry one host's backends to another host.     *)
RequestsReachOwnBackends ==
  \A r \in Requests :
    ctx[r] # NoRoute /\ ctx[r].phase = "peer" => ctx[r].peer \in AddrsOf(ctx[r].host)

(* Every copy of a route: the store's, the health service's, a request's. *)
Copies ==
  {[host |-> h, container |-> store[h]] : h \in Routed}
    \cup (IF clone = NoRoute THEN {} ELSE {[host |-> clone.host, container |-> clone.container]})
    \cup {[host |-> ctx[r].host, container |-> ctx[r].container] :
            r \in {q \in Requests : ctx[q] # NoRoute}}

(* Health marks are shared by all copies that share a load balancer, and   *)
(* these are copies of one route of one host: a probe that ends after its  *)
(* route has been replaced, or put back, marks no backend of another one.  *)
MarksStayWithRoute ==
  \A c \in Copies :
    /\ unhealthy[c.container.lb] \subseteq c.container.backends
    /\ \A d \in Copies : c.container.lb = d.container.lb => c = d

(* The receive loop of the routing service never meets Err(Lagged), which  *)
(* would end it: the ring holds every message that can be unread at once.  *)
RoutingKeepsUp == routing # "stopped"

(* A request on a route learnt from Docker is refused (503) only when the  *)
(* health marks say that a backend of its snapshot is down (or it has      *)
(* none), and never makes the lookup of its upstream panic, however DNS,   *)
(* the store and the probes have moved since request_filter took the       *)
(* snapshot.  One backend marked down is enough: the round robin that      *)
(* select walks is shared.                                                 *)
DockerRouteRefusedOnlyIfMarked ==
  [][\A r \in Requests :
       LET c == ctx[r].container
       IN  /\ ctx[r] # NoRoute /\ ctx'[r] # NoRoute
           /\ ctx[r].phase = "filtered"
           /\ ctx'[r].phase \in {"unavailable", "panicked"}
           /\ c.upstreams \subseteq Addrs
           => /\ ctx'[r].phase = "unavailable"
              /\ c.backends = {} \/ c.backends \cap unhealthy[c.lb] # {}]_vars

(* The store serves what Docker announces and DNS answers at this moment. *)
Fresh(h) ==
  \/ docker[h] = NoRoute
  \/ docker[h].upstreams = {}
  \/ store[h] # NoRoute /\ store[h].backends = Resolved(docker[h].upstreams)

(* Once the environment rests, every announced host comes to be routed to  *)
(* exactly its current backends, again and again, for as long as the       *)
(* routing service lives: a route that a health check put back is replaced *)
(* by a later listing.                                                     *)
AnnouncedRoutesArrive == \A h \in Hosts : []<>(Fresh(h) \/ routing = "stopped")

(* The marks of the balancer in the store tell which backends are down. *)
Verified(h) ==
  store[h] # NoRoute =>
    store[h].backends \cap unhealthy[store[h].lb] = store[h].backends \ up

(* Once the environment rests, health checks reach the very balancer that  *)
(* the store serves, although it is checked through a clone.               *)
HealthChecksReachServedRoute == \A h \in Hosts : []<>Verified(h)

-----------------------------------------------------------------------------
(***************************************************************************)
(* Inductive strengthenings, used by RouteDiscoveryProofs.                 *)
(***************************************************************************)

(* The health round only visits hosts that have a route. *)
TodoRouted == todo \subseteq Routed

(* The container belongs to the host, and literal entries are its backends. *)
Belongs(c, h) ==
  /\ c.backends \subseteq AddrsOf(h)
  /\ c.upstreams \subseteq Addrs => c.backends = c.upstreams

(* Probes that are still to come are of the clone's backends. *)
ProbesOfClone == clone # NoRoute => clone.pending \subseteq clone.container.backends

(* Whatever carries a host's route, on every path from labels to a request, *)
(* carries upstreams or backends of that host.                             *)
EveryCarrierBelongs ==
  /\ \A h \in Hosts : store[h] # NoRoute => Belongs(store[h], h)
  /\ clone # NoRoute => Belongs(clone.container, clone.host)
  /\ \A r \in Requests : ctx[r] # NoRoute => Belongs(ctx[r].container, ctx[r].host)
  /\ \A i \in 1 .. Len(channel) : channel[i].upstreams \subseteq NamesOf[channel[i].host]
  /\ listing # NoRoute =>
       \A h \in Hosts : listing[h] # NoRoute => listing[h].upstreams \subseteq NamesOf[h]
  /\ \A h \in Hosts : docker[h] # NoRoute => docker[h].upstreams \subseteq NamesOf[h]
  /\ \A n \in Names : dns[n] \in DnsAnswers[n]

(* Unread messages fit: no more than one batch of all hosts for each batch sent. *)
UnreadFits ==
  /\ ~lagged
  /\ routing # "stopped"
  /\ Len(channel) <= batches * Cardinality(Hosts)
=============================================================================
