------------------------ MODULE RouteDiscoveryProofs ------------------------
(***************************************************************************)
(* Proofs about RouteDiscovery, for any hosts, names, addresses, answers   *)
(* of DNS, configuration and channel capacity.                             *)
(***************************************************************************)
EXTENDS RouteDiscovery, FiniteSetTheorems, SequenceTheorems, TLAPS

-----------------------------------------------------------------------------
(* has_new_backend compares lengths and then one inclusion; for the finite *)
(* sets that backends are, that decides whether the two sets differ.       *)
LEMMA HasNewBackendDecides ==
  ASSUME TypeOK, NEW h \in Hosts, store[h] # NoRoute, NEW new \in SUBSET Addrs
  PROVE  HasNewBackend(h, new) <=> store[h].backends # new
<1> DEFINE old == store[h].backends
<1>1. old \in SUBSET Addrs
  BY DEF TypeOK, Container
<1>2. IsFiniteSet(old) /\ IsFiniteSet(new)
  BY <1>1, AddrsFinite, FS_Subset
<1>3. old \subseteq new /\ Cardinality(old) = Cardinality(new) => old = new
  BY <1>2, FS_Subset
<1> QED
  BY <1>3 DEF HasNewBackend

(* What to_socket_addrs returns for upstream entries is a set of addresses. *)
LEMMA ResolvedType ==
  ASSUME TypeOK, NEW ups \in SUBSET (Names \cup Addrs)
  PROVE  Resolved(ups) \in SUBSET Addrs
<1>1. \A u \in ups : Resolve(u) \in SUBSET Addrs
  BY DEF TypeOK, Resolve
<1> QED
  BY <1>1 DEF Resolved

(* Address literals resolve to themselves, at any time. *)
LEMMA LiteralsResolve ==
  ASSUME NEW ups \in SUBSET Addrs
  PROVE  /\ Resolved(ups) = ups
         /\ \A u \in ups : Resolve(u) = {u}
  BY DEF Resolved, Resolve

(* The only effects add_route_to_router can have on the store and on the   *)
(* health marks: none, or a fresh container for the one host.              *)
LEMMA AddRouteEffect ==
  ASSUME NEW h, NEW ups, NEW attrs, NEW after,
         AddRouteToRouter(h, ups, attrs, after)
  PROVE  /\ routing' \in {after, "panicked"}
         /\ \/ UNCHANGED routeVars
            \/ \E l \in LBs \ InUse :
                 /\ unhealthy' = [unhealthy EXCEPT ![l] = {}]
                 /\ store' = [store EXCEPT ![h] =
                      [lb |-> l, upstreams |-> ups,
                       backends |-> Resolved(ups), attrs |-> attrs]]
<1> DEFINE l == CHOOSE l \in LBs \ InUse : TRUE
<1>1. LBs \ InUse # {} => l \in LBs \ InUse
  OBVIOUS
<1> QED
  BY <1>1 DEF AddRouteToRouter, NewLoadBalancer, InsertRoute, UpstreamEntries

(* What add_route_to_router may leave in the store: the old routes, or a   *)
(* container for the one host, built from the upstreams it was given.      *)
Stores(h, ups) ==
  \/ store' = store
  \/ \E c \in Container :
       /\ c.upstreams = ups
       /\ c.backends = Resolved(ups)
       /\ store' = [store EXCEPT ![h] = c]

(* With well-typed arguments the container stored is well typed. *)
LEMMA AddRouteStores ==
  ASSUME TypeOK, NEW h \in Hosts, NEW ups \in SUBSET (Names \cup Addrs),
         NEW attrs \in Attrs, NEW after,
         AddRouteToRouter(h, ups, attrs, after)
  PROVE  /\ Stores(h, ups)
         /\ unhealthy' \in [LBs -> SUBSET Addrs]
         /\ routing' \in {after, "panicked"}
<1>1. CASE UNCHANGED routeVars
  BY <1>1, AddRouteEffect DEF routeVars, Stores, TypeOK
<1>2. ASSUME NEW l \in LBs \ InUse,
             unhealthy' = [unhealthy EXCEPT ![l] = {}],
             store' = [store EXCEPT ![h] =
                         [lb |-> l, upstreams |-> ups,
                          backends |-> Resolved(ups), attrs |-> attrs]]
      PROVE  Stores(h, ups) /\ unhealthy' \in [LBs -> SUBSET Addrs]
  <2> DEFINE c == [lb |-> l, upstreams |-> ups,
                   backends |-> Resolved(ups), attrs |-> attrs]
  <2>1. c \in Container /\ c.upstreams = ups /\ c.backends = Resolved(ups)
    BY ResolvedType DEF Container
  <2> QED
    BY <1>2, <2>1 DEF Stores, TypeOK
<1> QED
  BY <1>1, <1>2, AddRouteEffect

(* The two writes of the routing service: a route of the configuration, or *)
(* the resolved route of the oldest unread message.                        *)
LEMMA RoutingWrites ==
  ASSUME TypeOK, AddRoutesFromConfig \/ ReceiveRoute
  PROVE  /\ unhealthy' \in [LBs -> SUBSET Addrs]
         /\ routing' \in {"starting", "watching", "panicked"}
         /\ \/ /\ AddRoutesFromConfig
               /\ \E h \in Hosts : \E ups \in SUBSET NamesOf[h] : Stores(h, ups)
            \/ /\ ReceiveRoute
               /\ Head(channel).host \in Hosts
               /\ Stores(Head(channel).host, Resolved(Head(channel).upstreams))
<1>1. CASE AddRoutesFromConfig
  <2> DEFINE r == ConfigRoutes[configAt + 1]
  <2>1. /\ configAt + 1 \in DOMAIN ConfigRoutes
        /\ r \in Message
        /\ r.upstreams \subseteq NamesOf[r.host]
    BY <1>1, ConfigRoutesType DEF AddRoutesFromConfig, TypeOK
  <2>2. r.host \in Hosts /\ r.upstreams \in SUBSET (Names \cup Addrs) /\ r.attrs \in Attrs
    BY <2>1 DEF Message
  <2>3. AddRouteToRouter(r.host, r.upstreams, r.attrs, "starting")
    BY <1>1 DEF AddRoutesFromConfig
  <2> HIDE DEF r
  <2>4. /\ Stores(r.host, r.upstreams)
        /\ unhealthy' \in [LBs -> SUBSET Addrs]
        /\ routing' \in {"starting", "panicked"}
    BY <2>2, <2>3, AddRouteStores
  <2> QED
    BY <1>1, <2>1, <2>2, <2>4
<1>2. CASE ReceiveRoute
  <2> DEFINE m == Head(channel)
  <2>1. m \in Message
    BY <1>2 DEF ReceiveRoute, TypeOK
  <2>2. m.host \in Hosts /\ m.attrs \in Attrs /\ Resolved(m.upstreams) \in SUBSET Addrs
    BY <2>1, ResolvedType DEF Message
  <2>3. AddRouteToRouter(m.host, Resolved(m.upstreams), m.attrs, "watching")
    BY <1>2 DEF ReceiveRoute, WatchForRouteChanges
  <2> HIDE DEF m
  <2>4. /\ Stores(m.host, Resolved(m.upstreams))
        /\ unhealthy' \in [LBs -> SUBSET Addrs]
        /\ routing' \in {"watching", "panicked"}
    BY <2>2, <2>3, AddRouteStores
  <2> QED
    BY <1>2, <2>2, <2>4 DEF m
<1> QED
  BY <1>1, <1>2

-----------------------------------------------------------------------------
(* One batch is a sequence of messages, at most one for each host. *)
LEMMA BatchType ==
  ASSUME NEW l \in [Hosts -> Route \cup {NoRoute}], NEW b \in Batch(l)
  PROVE  /\ b \in Seq(Message)
         /\ Len(b) <= Cardinality(Hosts)
         /\ \A i \in 1 .. Len(b) :
              /\ b[i].host \in Hosts
              /\ l[b[i].host] # NoRoute
              /\ b[i].upstreams = l[b[i].host].upstreams
<1> DEFINE hs == Announced(l)
           n == Cardinality(hs)
<1>1. hs \subseteq Hosts
  BY DEF Announced
<1>2. IsFiniteSet(hs) /\ n <= Cardinality(Hosts)
  BY <1>1, HostsFinite, FS_Subset
<1>3. n \in Nat
  BY <1>2, FS_CardinalityType
<1>4. PICK o \in [1 .. n -> hs] : b = [i \in 1 .. n |-> MessageOf(l, o[i])]
  BY DEF Batch
<1>5. \A i \in 1 .. n : o[i] \in Hosts /\ l[o[i]] \in Route
  BY <1>1, NoRouteFresh DEF Announced
<1>6. \A i \in 1 .. n :
         /\ MessageOf(l, o[i]) \in Message
         /\ MessageOf(l, o[i]).host = o[i]
         /\ MessageOf(l, o[i]).upstreams = l[o[i]].upstreams
  BY <1>5 DEF MessageOf, Message, Route
<1> HIDE DEF n
<1>7. b \in Seq(Message) /\ Len(b) = n
  BY <1>3, <1>4, <1>6
<1>8. \A i \in 1 .. n :
         /\ b[i].host \in Hosts
         /\ l[b[i].host] # NoRoute
         /\ b[i].upstreams = l[b[i].host].upstreams
  BY <1>4, <1>5, <1>6, NoRouteFresh
<1> QED
  BY <1>2, <1>3, <1>7, <1>8

(* What is left of a sequence without its first k elements. *)
LEMMA DropFirst ==
  ASSUME NEW S, NEW s \in Seq(S), NEW k \in 0 .. Len(s)
  PROVE  /\ SubSeq(s, k + 1, Len(s)) \in Seq(S)
         /\ Len(SubSeq(s, k + 1, Len(s))) = Len(s) - k
         /\ \A i \in 1 .. Len(s) - k :
              k + i \in 1 .. Len(s) /\ SubSeq(s, k + 1, Len(s))[i] = s[k + i]
<1>1. Len(s) \in Nat /\ k \in Nat /\ k <= Len(s)
  OBVIOUS
<1>2. SubSeq(s, k + 1, Len(s)) \in Seq(S)
  BY <1>1
<1>3. Len(SubSeq(s, k + 1, Len(s))) = Len(s) - k
  BY <1>1
<1>4. ASSUME NEW i \in 1 .. Len(s) - k
      PROVE  k + i \in 1 .. Len(s) /\ SubSeq(s, k + 1, Len(s))[i] = s[k + i]
  BY <1>1
<1> QED
  BY <1>2, <1>3, <1>4

(* Publishing a batch keeps the newest messages, Capacity of them at most. *)
LEMMA PublishType ==
  ASSUME channel \in Seq(Message), lagged \in BOOLEAN,
         NEW b \in Seq(Message), Publish(b)
  PROVE  /\ channel' \in Seq(Message)
         /\ lagged' \in BOOLEAN
         /\ \A i \in 1 .. Len(channel') :
              \/ \E j \in 1 .. Len(channel) : channel'[i] = channel[j]
              \/ \E j \in 1 .. Len(b) : channel'[i] = b[j]
         /\ Len(channel) + Len(b) <= Capacity =>
              /\ channel' = channel \o b
              /\ lagged' = lagged
<1> DEFINE all == channel \o b
<1>1. all \in Seq(Message) /\ Len(all) = Len(channel) + Len(b)
  OBVIOUS
<1>2. \A i \in 1 .. Len(all) :
         \/ \E j \in 1 .. Len(channel) : all[i] = channel[j]
         \/ \E j \in 1 .. Len(b) : all[i] = b[j]
  <2> SUFFICES ASSUME NEW i \in 1 .. Len(all)
               PROVE  \/ \E j \in 1 .. Len(channel) : all[i] = channel[j]
                      \/ \E j \in 1 .. Len(b) : all[i] = b[j]
    OBVIOUS
  <2>1. CASE i <= Len(channel)
    BY <2>1
  <2>2. CASE i > Len(channel)
    <3>1. i - Len(channel) \in 1 .. Len(b) /\ all[i] = b[i - Len(channel)]
      BY <1>1, <2>2
    <3> QED
      BY <3>1
  <2> QED
    BY <1>1, <2>1, <2>2
<1> HIDE DEF all
<1>3. CASE Len(all) > Capacity
  <2> DEFINE k == Len(all) - Capacity
  <2>1. channel' = SubSeq(all, k + 1, Len(all))
    BY <1>3 DEF Publish, all
  <2>2. k \in 0 .. Len(all)
    BY <1>1, <1>3, CapacityType
  <2> HIDE DEF k
  <2>3. /\ channel' \in Seq(Message)
        /\ \A i \in 1 .. Len(channel') : k + i \in 1 .. Len(all) /\ channel'[i] = all[k + i]
    BY <1>1, <2>1, <2>2, DropFirst
  <2>4. lagged' \in BOOLEAN
    BY DEF Publish
  <2>5. \A i \in 1 .. Len(channel') :
           \/ \E j \in 1 .. Len(channel) : channel'[i] = channel[j]
           \/ \E j \in 1 .. Len(b) : channel'[i] = b[j]
    BY <1>2, <2>3
  <2>6. ~(Len(channel) + Len(b) <= Capacity)
    BY <1>1, <1>3, CapacityType
  <2> QED
    BY <2>3, <2>4, <2>5, <2>6
<1>4. CASE ~(Len(all) > Capacity)
  <2>1. channel' = all
    BY <1>4 DEF Publish, all
  <2>2. lagged' = (lagged \/ FALSE)
    BY <1>4 DEF Publish, all
  <2> QED
    BY <1>1, <1>2, <2>1, <2>2 DEF all
<1> QED
  BY <1>3, <1>4

-----------------------------------------------------------------------------
(* Type correctness of one step, one case for each action. *)
LEMMA TypeStep == TypeOK /\ TodoRouted /\ [Next]_vars => TypeOK'
<1> SUFFICES ASSUME TypeOK, TodoRouted, [Next]_vars PROVE TypeOK'
  OBVIOUS
<1> USE DEF routeVars, chanVars, healthVars, envVars
<1>0. ASSUME NEW h, NEW ups, h \in Hosts, Stores(h, ups)
      PROVE  store' \in [Hosts -> Container \cup {NoRoute}]
  BY <1>0 DEF Stores, TypeOK
<1>1. CASE AddRoutesFromConfig
  <2>1. configAt' \in 0 .. Len(ConfigRoutes)
    BY <1>1, ConfigRoutesType DEF AddRoutesFromConfig, TypeOK
  <2>2. store' \in [Hosts -> Container \cup {NoRoute}]
    BY <1>0, <1>1, RoutingWrites DEF AddRoutesFromConfig, ReceiveRoute
  <2> QED
    BY <1>1, <2>1, <2>2, RoutingWrites DEF AddRoutesFromConfig, TypeOK
<1>2. CASE Subscribe
  BY <1>2 DEF Subscribe, TypeOK
<1>3. CASE ReceiveRoute
  <2>1. Tail(channel) \in Seq(Message) /\ batches' \in 0 .. MaxBatches
    BY <1>3, MaxBatchesType DEF ReceiveRoute, TypeOK
  <2>2. store' \in [Hosts -> Container \cup {NoRoute}]
    BY <1>0, <1>3, RoutingWrites DEF AddRoutesFromConfig, ReceiveRoute
  <2> QED
    BY <1>3, <2>1, <2>2, RoutingWrites DEF ReceiveRoute, TypeOK
<1>4. CASE ReceiveLagged
  BY <1>4, MaxBatchesType DEF ReceiveLagged, TypeOK
<1>5. CASE ListRoutes
  BY <1>5 DEF ListRoutes, TypeOK
<1>6. CASE ListFails
  BY <1>6 DEF ListFails, TypeOK
<1>7. CASE SendRouteMessage
  <2>1. CASE routing = "stopped" /\ UNCHANGED chanVars
    BY <1>7, <2>1 DEF SendRouteMessage, TypeOK
  <2>2. CASE /\ batches < MaxBatches
             /\ \E b \in Batch(listing) :
                  /\ Publish(b)
                  /\ batches' = IF channel' = << >> THEN 0 ELSE batches + 1
    <3>1. listing \in [Hosts -> Route \cup {NoRoute}]
      BY <1>7 DEF SendRouteMessage, TypeOK
    <3>2. PICK b \in Batch(listing) :
             /\ Publish(b)
             /\ batches' = IF channel' = << >> THEN 0 ELSE batches + 1
      BY <2>2
    <3>3. b \in Seq(Message)
      BY <3>1, BatchType
    <3>4. channel' \in Seq(Message) /\ lagged' \in BOOLEAN
      BY <3>2, <3>3, PublishType DEF TypeOK
    <3>5. batches' \in 0 .. MaxBatches
      BY <2>2, <3>2, MaxBatchesType DEF TypeOK
    <3> QED
      BY <1>7, <3>4, <3>5 DEF SendRouteMessage, TypeOK
  <2> QED
    BY <1>7, <2>1, <2>2 DEF SendRouteMessage
<1>8. CASE HealthTick
  BY <1>8 DEF HealthTick, Routed, TypeOK
<1>9. ASSUME NEW h \in Hosts, CloneContainer(h) PROVE TypeOK'
  <2>1. CASE store[h].backends = {}
    BY <1>9, <2>1 DEF CloneContainer, TypeOK
  <2>2. CASE store[h].backends # {}
    <3>1. store[h] \in Container
      BY <1>9 DEF CloneContainer, TodoRouted, Routed, TypeOK
    <3>2. clone' \in Clone
      BY <1>9, <2>2, <3>1 DEF CloneContainer, Clone, Container
    <3> QED
      BY <1>9, <3>2 DEF CloneContainer, TypeOK
  <2> QED
    BY <2>1, <2>2
<1>10. ASSUME NEW a \in Addrs, ProbeBackend(a) PROVE TypeOK'
  <2>1. clone \in Clone
    BY <1>10 DEF ProbeBackend, TypeOK
  <2>2. clone' \in Clone
    BY <1>10, <2>1 DEF ProbeBackend, Clone
  <2>3. clone.container.lb \in LBs
    BY <2>1 DEF Clone, Container
  <2>4. unhealthy' \in [LBs -> SUBSET Addrs]
    BY <1>10, <2>3 DEF ProbeBackend, TypeOK
  <2> QED
    BY <1>10, <2>2, <2>4 DEF ProbeBackend, TypeOK
<1>11. CASE WriteBack
  <2>1. clone.host \in Hosts /\ clone.container \in Container
    BY <1>11 DEF WriteBack, TypeOK, Clone
  <2> QED
    BY <1>11, <2>1 DEF WriteBack, InsertRoute, TypeOK
<1>12. ASSUME NEW r \in Requests, NEW h \in Hosts, RequestFilter(r, h) PROVE TypeOK'
  <2>1. store[h] \in Container
    BY <1>12 DEF RequestFilter, Routed, TypeOK
  <2>2. [host |-> h, container |-> store[h], phase |-> "filtered", peer |-> NoRoute] \in Ctx
    BY <2>1 DEF Ctx
  <2> QED
    BY <1>12, <2>2 DEF RequestFilter, TypeOK
<1>13. ASSUME NEW r \in Requests, UpstreamPeer(r) PROVE TypeOK'
  <2>1. ctx[r] \in Ctx
    BY <1>13 DEF UpstreamPeer, TypeOK
  <2>2. PICK o \in PeerOutcomes(ctx[r].container) :
           ctx' = [ctx EXCEPT ![r].phase = o[1], ![r].peer = o[2]]
    BY <1>13 DEF UpstreamPeer
  <2>3. /\ o[1] \in {"peer", "unavailable", "panicked"}
        /\ o[2] \in Addrs \cup {NoRoute}
    BY <2>1, <2>2 DEF PeerOutcomes, Ready, Ctx, Container
  <2>4. [ctx[r] EXCEPT !.phase = o[1], !.peer = o[2]] \in Ctx
    BY <2>1, <2>3 DEF Ctx
  <2>5. ctx' = [ctx EXCEPT ![r] = [ctx[r] EXCEPT !.phase = o[1], !.peer = o[2]]]
    BY <2>1, <2>2 DEF TypeOK
  <2> QED
    BY <1>13, <2>4, <2>5 DEF UpstreamPeer, TypeOK
<1>14. ASSUME NEW r \in Requests, RequestDone(r) PROVE TypeOK'
  BY <1>14 DEF RequestDone, TypeOK
<1>15. ASSUME NEW h \in Hosts, LabelsChange(h) PROVE TypeOK'
  <2>1. RouteOf(h) \subseteq Route \cup {NoRoute}
    BY NamesOfType DEF RouteOf, Route
  <2> QED
    BY <1>15, <2>1, MaxChangesType DEF LabelsChange, Change, TypeOK
<1>16. ASSUME NEW n \in Names, DnsChanges(n) PROVE TypeOK'
  <2>1. PICK a \in DnsAnswers[n] : dns' = [dns EXCEPT ![n] = a]
    BY <1>16 DEF DnsChanges
  <2>2. dns' \in [Names -> SUBSET Addrs]
    BY <2>1, DnsAnswersType DEF TypeOK
  <2> QED
    BY <1>16, <2>2, MaxChangesType DEF DnsChanges, Change, TypeOK
<1>17. ASSUME NEW a \in Addrs, BackendFlips(a) PROVE TypeOK'
  BY <1>17, MaxChangesType DEF BackendFlips, Change, TypeOK
<1>18. CASE UNCHANGED vars
  BY <1>18 DEF vars, TypeOK
<1> QED
  BY <1>1, <1>2, <1>3, <1>4, <1>5, <1>6, <1>7, <1>8, <1>9, <1>10, <1>11, <1>12,
     <1>13, <1>14, <1>15, <1>16, <1>17, <1>18
  DEF Next, RoutingNext, DockerNext, HealthNext, RequestNext, EnvNext

(* No service removes a host, so the rest of a health round stays valid. *)
LEMMA TodoStep == TypeOK /\ TodoRouted /\ [Next]_vars => TodoRouted'
<1> SUFFICES ASSUME TypeOK, TodoRouted, [Next]_vars PROVE TodoRouted'
  OBVIOUS
<1> USE DEF routeVars, chanVars, healthVars, envVars
<1>1. \A c \in Container : c # NoRoute
  BY NoRouteFresh DEF Container
<1>2. ASSUME NEW h \in Hosts, NEW c \in Container,
             store' = [store EXCEPT ![h] = c], todo' = todo
      PROVE  TodoRouted'
  BY <1>1, <1>2 DEF TodoRouted, Routed, TypeOK
<1>3. ASSUME NEW h \in Hosts, NEW ups, Stores(h, ups), todo' = todo
      PROVE  TodoRouted'
  BY <1>2, <1>3 DEF Stores, TodoRouted, Routed
<1>4. CASE AddRoutesFromConfig
  BY <1>3, <1>4, RoutingWrites DEF AddRoutesFromConfig, ReceiveRoute
<1>5. CASE ReceiveRoute
  BY <1>3, <1>5, RoutingWrites DEF AddRoutesFromConfig, ReceiveRoute
<1>6. CASE WriteBack
  <2>1. clone.host \in Hosts /\ clone.container \in Container
    BY <1>6 DEF WriteBack, TypeOK, Clone
  <2> QED
    BY <1>2, <1>6, <2>1 DEF WriteBack, InsertRoute
<1>7. CASE HealthTick
  BY <1>7 DEF HealthTick, TodoRouted, Routed
<1>8. ASSUME NEW h \in Hosts, CloneContainer(h) PROVE TodoRouted'
  BY <1>8 DEF CloneContainer, TodoRouted, Routed
<1>9. CASE todo' = todo /\ store' = store
  BY <1>9 DEF TodoRouted, Routed
<1> QED
  BY <1>4, <1>5, <1>6, <1>7, <1>8, <1>9
  DEF Next, RoutingNext, DockerNext, HealthNext, RequestNext, EnvNext, vars,
      Subscribe, ReceiveLagged, ListRoutes, ListFails, SendRouteMessage, ProbeBackend,
      RequestFilter, UpstreamPeer, RequestDone, LabelsChange, DnsChanges, BackendFlips,
      Change

(* The initial state satisfies the type invariant. *)
LEMMA TypeInit == Init => TypeOK /\ TodoRouted
<1> SUFFICES ASSUME Init PROVE TypeOK /\ TodoRouted
  OBVIOUS
<1>1. store \in [Hosts -> Container \cup {NoRoute}] /\ ctx \in [Requests -> Ctx \cup {NoRoute}]
  BY DEF Init
<1>2. configAt \in 0 .. Len(ConfigRoutes) /\ batches \in 0 .. MaxBatches
      /\ changes \in 0 .. MaxChanges /\ channel \in Seq(Message)
  BY ConfigRoutesType, MaxBatchesType, MaxChangesType DEF Init
<1>3. docker \in [Hosts -> Route \cup {NoRoute}]
  BY DEF Init
<1> QED
  BY <1>1, <1>2, <1>3, UpAtStartType DEF Init, TypeOK, TodoRouted

(* The route plane is type correct for every value of the constants. *)
THEOREM TypeCorrect == Spec => []TypeOK
<1>1. TypeOK /\ TodoRouted /\ [Next]_vars => (TypeOK /\ TodoRouted)'
  BY TypeStep, TodoStep
<1> QED
  BY <1>1, TypeInit, PTL DEF Spec

-----------------------------------------------------------------------------
(* What a name resolves to now is among the addresses of every host that   *)
(* may be given the name.                                                  *)
LEMMA ResolvedBelongs ==
  ASSUME TypeOK, EveryCarrierBelongs, NEW h \in Hosts, NEW ups \in SUBSET NamesOf[h]
  PROVE  Resolved(ups) \subseteq AddrsOf(h)
<1>1. \A n \in NamesOf[h] : n \in Names /\ n \notin Addrs
  BY NamesOfType, NamesNotAddrs
<1>2. \A n \in NamesOf[h] : Resolve(n) \in DnsAnswers[n]
  BY <1>1 DEF Resolve, EveryCarrierBelongs
<1>3. \A n \in NamesOf[h] : Resolve(n) \subseteq AddrsOf(h)
  BY <1>2 DEF AddrsOf
<1> QED
  BY <1>3 DEF Resolved

(* A container built from a host's names, or from their addresses, belongs *)
(* to that host.                                                           *)
LEMMA StoresBelongs ==
  ASSUME TypeOK, EveryCarrierBelongs, NEW h \in Hosts, NEW ups,
         \/ ups \subseteq NamesOf[h]
         \/ \E names \in SUBSET NamesOf[h] : ups = Resolved(names),
         Stores(h, ups)
  PROVE  \A g \in Hosts : store'[g] # NoRoute => Belongs(store'[g], g)
<1>1. ups \subseteq Addrs => Resolved(ups) = ups
  BY LiteralsResolve
<1>2. Resolved(ups) \subseteq AddrsOf(h)
  <2>1. CASE ups \subseteq NamesOf[h]
    BY <2>1, ResolvedBelongs
  <2>2. ASSUME NEW names \in SUBSET NamesOf[h], ups = Resolved(names)
        PROVE  Resolved(ups) \subseteq AddrsOf(h)
    <3>1. names \in SUBSET (Names \cup Addrs)
      BY NamesOfType
    <3>2. ups \subseteq Addrs
      BY <2>2, <3>1, ResolvedType
    <3> QED
      BY <1>1, <2>2, <3>2, ResolvedBelongs
  <2> QED
    BY <2>1, <2>2
<1>3. ASSUME NEW c \in Container, c.upstreams = ups, c.backends = Resolved(ups)
      PROVE  Belongs(c, h)
  BY <1>1, <1>2, <1>3 DEF Belongs
<1>4. \A g \in Hosts : store[g] # NoRoute => Belongs(store[g], g)
  BY DEF EveryCarrierBelongs
<1>5. CASE store' = store
  BY <1>4, <1>5
<1>6. ASSUME NEW c \in Container, Belongs(c, h), store' = [store EXCEPT ![h] = c]
      PROVE  \A g \in Hosts : store'[g] # NoRoute => Belongs(store'[g], g)
  BY <1>4, <1>6 DEF TypeOK
<1> QED
  BY <1>3, <1>5, <1>6 DEF Stores

(* One step keeps every carrier of a route with its own host. *)
LEMMA BelongsStep ==
  TypeOK /\ TodoRouted /\ EveryCarrierBelongs /\ [Next]_vars => EveryCarrierBelongs'
<1> SUFFICES ASSUME TypeOK, TodoRouted, EveryCarrierBelongs, [Next]_vars
             PROVE  EveryCarrierBelongs'
  OBVIOUS
<1> USE DEF routeVars, chanVars, healthVars, envVars
<1>a. ASSUME store' = store, clone' = clone, ctx' = ctx, channel' = channel,
             listing' = listing, docker' = docker, dns' = dns
      PROVE  EveryCarrierBelongs'
  BY <1>a DEF EveryCarrierBelongs, Belongs
<1>b. ASSUME NEW f, f \in Seq(Message), f # << >>
      PROVE  \A i \in 1 .. Len(Tail(f)) : i + 1 \in 1 .. Len(f) /\ Tail(f)[i] = f[i + 1]
  BY <1>b
<1>1. CASE AddRoutesFromConfig
  <2>1. \A h \in Hosts : store'[h] # NoRoute => Belongs(store'[h], h)
    BY <1>1, RoutingWrites, StoresBelongs DEF AddRoutesFromConfig, ReceiveRoute
  <2> QED
    BY <1>1, <2>1 DEF AddRoutesFromConfig, EveryCarrierBelongs, Belongs
<1>2. CASE ReceiveRoute
  <2> DEFINE m == Head(channel)
  <2>1. channel # << >> /\ channel \in Seq(Message) /\ channel' = Tail(channel)
    BY <1>2 DEF ReceiveRoute, TypeOK
  <2>2. m = channel[1] /\ 1 \in 1 .. Len(channel)
    BY <2>1
  <2>3. m.upstreams \subseteq NamesOf[m.host]
    BY <2>2 DEF EveryCarrierBelongs
  <2>4. \A h \in Hosts : store'[h] # NoRoute => Belongs(store'[h], h)
    BY <1>2, <2>3, RoutingWrites, StoresBelongs DEF AddRoutesFromConfig, ReceiveRoute
  <2>5. \A i \in 1 .. Len(channel') : channel'[i].upstreams \subseteq NamesOf[channel'[i].host]
    BY <1>b, <2>1 DEF EveryCarrierBelongs
  <2> QED
    BY <1>2, <2>4, <2>5 DEF ReceiveRoute, EveryCarrierBelongs, Belongs
<1>3. CASE ReceiveLagged
  BY <1>3 DEF ReceiveLagged, EveryCarrierBelongs, Belongs
<1>4. CASE ListRoutes
  BY <1>4 DEF ListRoutes, EveryCarrierBelongs, Belongs
<1>5. CASE ListFails
  BY <1>5 DEF ListFails, EveryCarrierBelongs, Belongs
<1>6. CASE SendRouteMessage
  <2>1. \A i \in 1 .. Len(channel') : channel'[i].upstreams \subseteq NamesOf[channel'[i].host]
    <3>1. CASE UNCHANGED chanVars
      BY <3>1 DEF EveryCarrierBelongs
    <3>2. ASSUME NEW b \in Batch(listing), Publish(b)
          PROVE  \A i \in 1 .. Len(channel') :
                    channel'[i].upstreams \subseteq NamesOf[channel'[i].host]
      <4>1. listing \in [Hosts -> Route \cup {NoRoute}] /\ listing # NoRoute
        BY <1>6 DEF SendRouteMessage, TypeOK
      <4>2. /\ b \in Seq(Message)
            /\ \A j \in 1 .. Len(b) :
                 /\ b[j].host \in Hosts
                 /\ listing[b[j].host] # NoRoute
                 /\ b[j].upstreams = listing[b[j].host].upstreams
        BY <4>1, BatchType
      <4>3. \A j \in 1 .. Len(b) : b[j].upstreams \subseteq NamesOf[b[j].host]
        BY <4>1, <4>2 DEF EveryCarrierBelongs
      <4>4. \A j \in 1 .. Len(channel) : channel[j].upstreams \subseteq NamesOf[channel[j].host]
        BY DEF EveryCarrierBelongs
      <4>5. channel \in Seq(Message) /\ lagged \in BOOLEAN
        BY DEF TypeOK
      <4>6. \A i \in 1 .. Len(channel') :
              \/ \E j \in 1 .. Len(channel) : channel'[i] = channel[j]
              \/ \E j \in 1 .. Len(b) : channel'[i] = b[j]
        BY <3>2, <4>2, <4>5, PublishType
      <4> QED
        BY <4>3, <4>4, <4>6
    <3> QED
      BY <1>6, <3>1, <3>2 DEF SendRouteMessage
  <2> QED
    BY <1>6, <2>1 DEF SendRouteMessage, EveryCarrierBelongs, Belongs
<1>7. CASE HealthTick
  BY <1>7, <1>a DEF HealthTick
<1>8. ASSUME NEW h \in Hosts, CloneContainer(h) PROVE EveryCarrierBelongs'
  <2>1. clone' # NoRoute => Belongs(clone'.container, clone'.host)
    BY <1>8 DEF CloneContainer, TodoRouted, Routed, EveryCarrierBelongs
  <2> QED
    BY <1>8, <2>1 DEF CloneContainer, EveryCarrierBelongs, Belongs
<1>9. ASSUME NEW a \in Addrs, ProbeBackend(a) PROVE EveryCarrierBelongs'
  <2>1. clone'.container = clone.container /\ clone'.host = clone.host
    BY <1>9 DEF ProbeBackend, TypeOK, Clone
  <2>2. Belongs(clone'.container, clone'.host)
    BY <1>9, <2>1 DEF ProbeBackend, EveryCarrierBelongs
  <2> QED
    BY <1>9, <2>2 DEF ProbeBackend, EveryCarrierBelongs, Belongs
<1>10. CASE WriteBack
  <2>1. /\ clone.host \in Hosts
        /\ Belongs(clone.container, clone.host)
        /\ store' = [store EXCEPT ![clone.host] = clone.container]
    BY <1>10 DEF WriteBack, InsertRoute, TypeOK, Clone, EveryCarrierBelongs
  <2>2. \A h \in Hosts : store'[h] # NoRoute => Belongs(store'[h], h)
    BY <2>1 DEF TypeOK, EveryCarrierBelongs
  <2> QED
    BY <1>10, <2>2 DEF WriteBack, EveryCarrierBelongs, Belongs
<1>11. ASSUME NEW r \in Requests, NEW h \in Hosts, RequestFilter(r, h)
       PROVE  EveryCarrierBelongs'
  <2>1. \A q \in Requests : ctx'[q] # NoRoute => Belongs(ctx'[q].container, ctx'[q].host)
    BY <1>11 DEF RequestFilter, Routed, TypeOK, EveryCarrierBelongs
  <2> QED
    BY <1>11, <2>1 DEF RequestFilter, EveryCarrierBelongs, Belongs
<1>12. ASSUME NEW r \in Requests, UpstreamPeer(r) PROVE EveryCarrierBelongs'
  <2>1. ctx[r] \in Ctx
    BY <1>12 DEF UpstreamPeer, TypeOK
  <2>2. \A q \in Requests :
           /\ ctx'[q].container = ctx[q].container
           /\ ctx'[q].host = ctx[q].host
           /\ q # r => ctx'[q] = ctx[q]
    BY <1>12, <2>1 DEF UpstreamPeer, TypeOK, Ctx
  <2>3. \A q \in Requests : ctx'[q] # NoRoute => Belongs(ctx'[q].container, ctx'[q].host)
    BY <1>12, <2>2 DEF UpstreamPeer, EveryCarrierBelongs
  <2> QED
    BY <1>12, <2>3 DEF UpstreamPeer, EveryCarrierBelongs, Belongs
<1>13. ASSUME NEW r \in Requests, RequestDone(r) PROVE EveryCarrierBelongs'
  <2>1. \A q \in Requests : ctx'[q] # NoRoute => ctx'[q] = ctx[q]
    BY <1>13 DEF RequestDone, TypeOK
  <2>2. \A q \in Requests : ctx'[q] # NoRoute => Belongs(ctx'[q].container, ctx'[q].host)
    BY <2>1 DEF EveryCarrierBelongs
  <2> QED
    BY <1>13, <2>2 DEF RequestDone, EveryCarrierBelongs, Belongs
<1>14. ASSUME NEW h \in Hosts, LabelsChange(h) PROVE EveryCarrierBelongs'
  <2>1. PICK d \in RouteOf(h) : docker' = [docker EXCEPT ![h] = d]
    BY <1>14 DEF LabelsChange
  <2>2. d # NoRoute => d.upstreams \subseteq NamesOf[h]
    BY <2>1 DEF RouteOf
  <2>3. \A g \in Hosts : docker'[g] # NoRoute => docker'[g].upstreams \subseteq NamesOf[g]
    BY <2>1, <2>2 DEF TypeOK, EveryCarrierBelongs
  <2> QED
    BY <1>14, <2>3 DEF LabelsChange, Change, EveryCarrierBelongs, Belongs
<1>15. ASSUME NEW n \in Names, DnsChanges(n) PROVE EveryCarrierBelongs'
  <2>1. \A k \in Names : dns'[k] \in DnsAnswers[k]
    BY <1>15 DEF DnsChanges, TypeOK, EveryCarrierBelongs
  <2> QED
    BY <1>15, <2>1 DEF DnsChanges, Change, EveryCarrierBelongs, Belongs
<1>16. ASSUME NEW a \in Addrs, BackendFlips(a) PROVE EveryCarrierBelongs'
  BY <1>16, <1>a DEF BackendFlips, Change
<1>17. CASE UNCHANGED vars \/ Subscribe
  BY <1>17, <1>a DEF vars, Subscribe
<1> QED
  BY <1>1, <1>2, <1>3, <1>4, <1>5, <1>6, <1>7, <1>8, <1>9, <1>10, <1>11, <1>12,
     <1>13, <1>14, <1>15, <1>16, <1>17
  DEF Next, RoutingNext, DockerNext, HealthNext, RequestNext, EnvNext

(* The invariant that the theorems below rest on. *)
Safe == TypeOK /\ TodoRouted /\ EveryCarrierBelongs

(* Safe holds at the start and after every step. *)
LEMMA SafeInvariant == Spec => []Safe
<1>1. Init => Safe
  <2> SUFFICES ASSUME Init PROVE EveryCarrierBelongs
    BY TypeInit DEF Safe
  <2>1. \A h \in Hosts : docker[h] # NoRoute => docker[h].upstreams \subseteq NamesOf[h]
    BY DEF Init, RouteOf
  <2> QED
    BY <2>1 DEF Init, EveryCarrierBelongs
<1>2. Safe /\ [Next]_vars => Safe'
  BY TypeStep, TodoStep, BelongsStep DEF Safe
<1> QED
  BY <1>1, <1>2, PTL DEF Spec

(* The peer that upstream_peer picks is one of the snapshot's backends. *)
LEMMA PeerIsABackend ==
  ASSUME NEW c, NEW o \in PeerOutcomes(c), o[1] = "peer"
  PROVE  o[2] \in c.backends
  BY DEF PeerOutcomes, Ready

(* One step keeps requests at their own host's backends. *)
LEMMA PeerStep ==
  Safe /\ RequestsReachOwnBackends /\ [Next]_vars => RequestsReachOwnBackends'
<1> SUFFICES ASSUME Safe, RequestsReachOwnBackends, [Next]_vars
             PROVE  RequestsReachOwnBackends'
  OBVIOUS
<1> USE DEF routeVars, chanVars, healthVars, envVars
<1>1. ASSUME NEW r \in Requests, NEW h \in Hosts, RequestFilter(r, h)
      PROVE  RequestsReachOwnBackends'
  BY <1>1 DEF RequestFilter, RequestsReachOwnBackends, AddrsOf, Safe, TypeOK
<1>2. ASSUME NEW r \in Requests, UpstreamPeer(r) PROVE RequestsReachOwnBackends'
  <2>1. ctx[r] \in Ctx /\ ctx[r] # NoRoute
    BY <1>2 DEF UpstreamPeer, Safe, TypeOK
  <2>2. PICK o \in PeerOutcomes(ctx[r].container) :
           ctx' = [ctx EXCEPT ![r].phase = o[1], ![r].peer = o[2]]
    BY <1>2 DEF UpstreamPeer
  <2>3. o[1] = "peer" => o[2] \in AddrsOf(ctx[r].host)
    BY <2>1, PeerIsABackend DEF Safe, EveryCarrierBelongs, Belongs
  <2>4. /\ ctx'[r].phase = o[1] /\ ctx'[r].peer = o[2] /\ ctx'[r].host = ctx[r].host
        /\ \A q \in Requests : q # r => ctx'[q] = ctx[q]
    BY <2>1, <2>2 DEF Safe, TypeOK, Ctx
  <2> QED
    BY <2>3, <2>4 DEF RequestsReachOwnBackends, AddrsOf
<1>3. ASSUME NEW r \in Requests, RequestDone(r) PROVE RequestsReachOwnBackends'
  BY <1>3 DEF RequestDone, RequestsReachOwnBackends, AddrsOf, Safe, TypeOK
<1>4. CASE ctx' = ctx
  BY <1>4 DEF RequestsReachOwnBackends, AddrsOf
<1> QED
  BY <1>1, <1>2, <1>3, <1>4
  DEF Next, RoutingNext, DockerNext, HealthNext, RequestNext, EnvNext, vars,
      AddRoutesFromConfig, Subscribe, ReceiveRoute, ReceiveLagged, ListRoutes, ListFails,
      SendRouteMessage, HealthTick, CloneContainer, ProbeBackend, WriteBack,
      LabelsChange, DnsChanges, BackendFlips, Change

(* No request is ever proxied to an address that no upstream of its own    *)
(* host resolved to, however the four actors interleave.                   *)
THEOREM RequestsStayHome == Spec => []RequestsReachOwnBackends
<1>1. Init => RequestsReachOwnBackends
  BY DEF Init, RequestsReachOwnBackends
<1> QED
  BY <1>1, SafeInvariant, PeerStep, PTL DEF Spec

-----------------------------------------------------------------------------
(* The copies of a route, one place at a time. *)
LEMMA CopyPlaces ==
  ASSUME NEW c
  PROVE  c \in Copies <=>
           \/ \E h \in Hosts : store[h] # NoRoute /\ c = [host |-> h, container |-> store[h]]
           \/ clone # NoRoute /\ c = [host |-> clone.host, container |-> clone.container]
           \/ \E r \in Requests :
                ctx[r] # NoRoute /\ c = [host |-> ctx[r].host, container |-> ctx[r].container]
BY DEF Copies, Routed

(* A copy is well typed, and its load balancer is in use. *)
LEMMA CopyType ==
  ASSUME TypeOK, NEW c \in Copies
  PROVE  c.container \in Container /\ c.container.lb \in LBs /\ c.container.lb \in InUse
<1>1. ASSUME NEW h \in Hosts, store[h] # NoRoute, c = [host |-> h, container |-> store[h]]
      PROVE  c.container \in Container /\ c.container.lb \in InUse
  BY <1>1 DEF TypeOK, InUse, Routed
<1>2. ASSUME clone # NoRoute, c = [host |-> clone.host, container |-> clone.container]
      PROVE  c.container \in Container /\ c.container.lb \in InUse
  BY <1>2 DEF TypeOK, Clone, InUse
<1>3. ASSUME NEW r \in Requests, ctx[r] # NoRoute,
             c = [host |-> ctx[r].host, container |-> ctx[r].container]
      PROVE  c.container \in Container /\ c.container.lb \in InUse
  BY <1>3 DEF TypeOK, Ctx, InUse
<1>4. c.container \in Container /\ c.container.lb \in InUse
  BY <1>1, <1>2, <1>3, CopyPlaces
<1> QED
  BY <1>4 DEF Container

(* Copying a route, dropping one and putting one back disturb no marks. *)
LEMMA OldCopies ==
  ASSUME MarksStayWithRoute, UNCHANGED unhealthy, \A c \in Copies' : c \in Copies
  PROVE  MarksStayWithRoute'
BY DEF MarksStayWithRoute

(* A new load balancer is one that no copy has. *)
LEMMA NewCopy ==
  ASSUME TypeOK, MarksStayWithRoute, NEW h \in Hosts, NEW ups, NEW attrs, NEW after,
         AddRouteToRouter(h, ups, attrs, after), UNCHANGED <<clone, ctx>>
  PROVE  MarksStayWithRoute'
<1>1. CASE UNCHANGED routeVars
  <2>1. Copies' = Copies /\ UNCHANGED unhealthy
    BY <1>1 DEF Copies, Routed, routeVars
  <2> QED
    BY <2>1, OldCopies
<1>2. ASSUME NEW l \in LBs \ InUse,
             unhealthy' = [unhealthy EXCEPT ![l] = {}],
             store' = [store EXCEPT ![h] = [lb |-> l, upstreams |-> ups,
                                            backends |-> Resolved(ups), attrs |-> attrs]]
      PROVE  MarksStayWithRoute'
  <2> DEFINE k == [lb |-> l, upstreams |-> ups, backends |-> Resolved(ups), attrs |-> attrs]
  <2> DEFINE new == [host |-> h, container |-> k]
  <2>1. k.lb = l /\ store' = [store EXCEPT ![h] = k]
    BY <1>2
  <2> HIDE DEF k
  <2>2. ASSUME NEW c \in Copies' PROVE c = new \/ c \in Copies
    <3>1. ASSUME NEW g \in Hosts, store'[g] # NoRoute, c = [host |-> g, container |-> store'[g]]
          PROVE  c = new \/ c \in Copies
      <4>1. g = h \/ store'[g] = store[g]
        BY <2>1 DEF TypeOK
      <4>2. g = h => store'[g] = k
        BY <2>1 DEF TypeOK
      <4> QED
        BY <3>1, <4>1, <4>2, CopyPlaces
    <3> QED
      BY <2>2, <3>1, CopyPlaces DEF Copies, Routed
  <2>3. new.container.lb = l /\ unhealthy'[l] = {}
    BY <1>2, <2>1 DEF TypeOK
  <2>4. ASSUME NEW c \in Copies
        PROVE  c.container.lb # l /\ unhealthy'[c.container.lb] = unhealthy[c.container.lb]
    BY <1>2, CopyType DEF TypeOK
  <2> HIDE DEF new
  <2>5. ASSUME NEW c \in Copies' PROVE unhealthy'[c.container.lb] \subseteq c.container.backends
    BY <2>2, <2>3, <2>4 DEF MarksStayWithRoute
  <2>6. ASSUME NEW c \in Copies', NEW d \in Copies', c.container.lb = d.container.lb
        PROVE  c = d
    BY <2>2, <2>3, <2>4, <2>6 DEF MarksStayWithRoute
  <2> QED
    BY <2>5, <2>6 DEF MarksStayWithRoute
<1> QED
  BY <1>1, <1>2, AddRouteEffect

(* A probe's mark goes to a backend of the one route that shares it. *)
LEMMA ProbeMarks ==
  ASSUME TypeOK, ProbesOfClone, MarksStayWithRoute, NEW a \in Addrs, ProbeBackend(a)
  PROVE  MarksStayWithRoute'
<1> DEFINE l == clone.container.lb
           own == [host |-> clone.host, container |-> clone.container]
<1>1. clone \in Clone /\ clone # NoRoute /\ a \in clone.container.backends
  BY DEF ProbeBackend, TypeOK, ProbesOfClone
<1>2. clone' \in Clone /\ clone'.host = clone.host /\ clone'.container = clone.container
  BY <1>1 DEF ProbeBackend, Clone
<1>3. own \in Copies /\ own.container.lb = l
  BY <1>1, CopyPlaces
<1>4. Copies' \subseteq Copies
  <2>1. UNCHANGED <<store, ctx>>
    BY DEF ProbeBackend
  <2>2. ASSUME NEW c \in Copies' PROVE c \in Copies
    <3>1. \/ \E h \in Hosts : store'[h] # NoRoute /\ c = [host |-> h, container |-> store'[h]]
          \/ c = [host |-> clone'.host, container |-> clone'.container]
          \/ \E r \in Requests :
               ctx'[r] # NoRoute /\ c = [host |-> ctx'[r].host, container |-> ctx'[r].container]
      BY <2>2 DEF Copies, Routed
    <3> QED
      BY <1>1, <1>2, <2>1, <3>1, CopyPlaces
  <2> QED
    BY <2>2
<1>5. /\ l \in LBs
      /\ unhealthy' = [unhealthy EXCEPT ![l] = IF a \in up THEN @ \ {a} ELSE @ \cup {a}]
  BY <1>1 DEF ProbeBackend, Clone, Container
<1>6. ASSUME NEW c \in Copies PROVE unhealthy'[c.container.lb] \subseteq c.container.backends
  <2>0. c.container.lb \in LBs
    BY CopyType
  <2>1. CASE c.container.lb = l
    <3>1. c = own
      BY <1>3, <2>1 DEF MarksStayWithRoute
    <3>2. unhealthy'[l] \subseteq unhealthy[l] \cup {a}
      BY <1>5 DEF TypeOK
    <3>3. unhealthy[l] \subseteq own.container.backends
      BY <1>3 DEF MarksStayWithRoute
    <3> QED
      BY <1>1, <2>1, <3>1, <3>2, <3>3
  <2>2. CASE c.container.lb # l
    BY <1>5, <2>0, <2>2 DEF TypeOK, MarksStayWithRoute
  <2> QED
    BY <2>1, <2>2
<1> QED
  BY <1>4, <1>6 DEF MarksStayWithRoute

(* One step keeps the marks with their routes. *)
LEMMA MarksStep ==
  TypeOK /\ TodoRouted /\ ProbesOfClone /\ MarksStayWithRoute /\ [Next]_vars
    => ProbesOfClone' /\ MarksStayWithRoute'
<1> SUFFICES ASSUME TypeOK, TodoRouted, ProbesOfClone, MarksStayWithRoute, [Next]_vars
             PROVE  ProbesOfClone' /\ MarksStayWithRoute'
  OBVIOUS
<1> USE DEF routeVars, chanVars, healthVars, envVars
<1>1. CASE AddRoutesFromConfig
  <2> DEFINE r == ConfigRoutes[configAt + 1]
  <2>1. configAt + 1 \in DOMAIN ConfigRoutes /\ r \in Message
    BY <1>1, ConfigRoutesType DEF AddRoutesFromConfig, TypeOK
  <2>2. r.host \in Hosts
    BY <2>1 DEF Message
  <2>3. AddRouteToRouter(r.host, r.upstreams, r.attrs, "starting") /\ UNCHANGED <<clone, ctx>>
    BY <1>1 DEF AddRoutesFromConfig
  <2> HIDE DEF r
  <2> QED
    BY <2>2, <2>3, NewCopy DEF ProbesOfClone
<1>2. CASE ReceiveRoute
  <2> DEFINE m == Head(channel)
  <2>1. m \in Message
    BY <1>2 DEF ReceiveRoute, TypeOK
  <2>3. m.host \in Hosts
    BY <2>1 DEF Message
  <2>2. /\ AddRouteToRouter(m.host, Resolved(m.upstreams), m.attrs, "watching")
        /\ UNCHANGED <<clone, ctx>>
    BY <1>2 DEF ReceiveRoute, WatchForRouteChanges
  <2> HIDE DEF m
  <2> QED
    BY <2>2, <2>3, NewCopy DEF ProbesOfClone
<1>3. ASSUME NEW h \in Hosts, CloneContainer(h) PROVE ProbesOfClone' /\ MarksStayWithRoute'
  <2> DEFINE k == [host |-> h, container |-> store[h], pending |-> store[h].backends]
  <2>1. store[h] # NoRoute /\ UNCHANGED <<store, unhealthy, ctx>>
    BY <1>3 DEF CloneContainer, TodoRouted, Routed
  <2>2. clone' = NoRoute \/ clone' = k
    BY <1>3 DEF CloneContainer
  <2>3. ASSUME NEW c \in Copies' PROVE c \in Copies
    <3>1. \/ \E g \in Hosts : store'[g] # NoRoute /\ c = [host |-> g, container |-> store'[g]]
          \/ clone' # NoRoute /\ c = [host |-> clone'.host, container |-> clone'.container]
          \/ \E r \in Requests :
               ctx'[r] # NoRoute /\ c = [host |-> ctx'[r].host, container |-> ctx'[r].container]
      BY <2>3 DEF Copies, Routed
    <3> QED
      BY <2>1, <2>2, <3>1, CopyPlaces
  <2>4. ProbesOfClone'
    BY <2>1, <2>2 DEF ProbesOfClone
  <2> QED
    BY <2>1, <2>3, <2>4, OldCopies
<1>4. ASSUME NEW a \in Addrs, ProbeBackend(a) PROVE ProbesOfClone' /\ MarksStayWithRoute'
  <2>1. clone \in Clone /\ clone # NoRoute /\ clone' = [clone EXCEPT !.pending = @ \ {a}]
    BY <1>4 DEF ProbeBackend, TypeOK
  <2>2. clone'.container = clone.container /\ clone'.pending = clone.pending \ {a}
    BY <2>1 DEF Clone
  <2>3. ProbesOfClone'
    BY <2>1, <2>2 DEF ProbesOfClone
  <2> QED
    BY <1>4, <2>3, ProbeMarks
<1>5. CASE WriteBack
  <2>1. /\ clone # NoRoute /\ clone' = NoRoute /\ UNCHANGED <<unhealthy, ctx>>
        /\ store' = [store EXCEPT ![clone.host] = clone.container]
    BY <1>5 DEF WriteBack, InsertRoute
  <2>2. ASSUME NEW c \in Copies' PROVE c \in Copies
    <3>1. \/ \E g \in Hosts : store'[g] # NoRoute /\ c = [host |-> g, container |-> store'[g]]
          \/ \E r \in Requests :
               ctx'[r] # NoRoute /\ c = [host |-> ctx'[r].host, container |-> ctx'[r].container]
      BY <2>1, <2>2 DEF Copies, Routed
    <3>2. ASSUME NEW g \in Hosts, store'[g] # NoRoute, c = [host |-> g, container |-> store'[g]]
          PROVE  c \in Copies
      <4>1. CASE g = clone.host
        <5>1. store'[g] = clone.container
          BY <2>1, <4>1 DEF TypeOK
        <5> QED
          BY <2>1, <3>2, <4>1, <5>1, CopyPlaces
      <4>2. CASE g # clone.host
        <5>1. store'[g] = store[g]
          BY <2>1, <4>2 DEF TypeOK
        <5> QED
          BY <3>2, <5>1, CopyPlaces
      <4> QED
        BY <4>1, <4>2
    <3> QED
      BY <2>1, <3>1, <3>2, CopyPlaces
  <2>3. ProbesOfClone'
    BY <2>1 DEF ProbesOfClone
  <2> QED
    BY <2>1, <2>2, <2>3, OldCopies
<1>6. ASSUME NEW r \in Requests, NEW h \in Hosts, RequestFilter(r, h)
      PROVE  ProbesOfClone' /\ MarksStayWithRoute'
  <2> DEFINE k == [host |-> h, container |-> store[h], phase |-> "filtered", peer |-> NoRoute]
  <2>1. /\ store[h] # NoRoute /\ UNCHANGED <<store, unhealthy, clone>>
        /\ ctx' = [ctx EXCEPT ![r] = k]
    BY <1>6 DEF RequestFilter, Routed
  <2>2. ASSUME NEW c \in Copies' PROVE c \in Copies
    <3>1. ASSUME NEW q \in Requests, ctx'[q] # NoRoute,
                 c = [host |-> ctx'[q].host, container |-> ctx'[q].container]
          PROVE  c \in Copies
      <4>1. ctx'[q] = k \/ ctx'[q] = ctx[q]
        BY <2>1 DEF TypeOK
      <4> QED
        BY <2>1, <3>1, <4>1, CopyPlaces
    <3> QED
      BY <2>1, <2>2, <3>1, CopyPlaces DEF Copies, Routed
  <2>3. ProbesOfClone'
    BY <2>1 DEF ProbesOfClone
  <2> QED
    BY <2>1, <2>2, <2>3, OldCopies
<1>7. ASSUME NEW r \in Requests, UpstreamPeer(r) \/ RequestDone(r)
      PROVE  ProbesOfClone' /\ MarksStayWithRoute'
  <2>1. UNCHANGED <<store, unhealthy, clone>>
    BY <1>7 DEF UpstreamPeer, RequestDone
  <2>2. ASSUME NEW q \in Requests, ctx'[q] # NoRoute
        PROVE  ctx[q] # NoRoute /\ ctx'[q].host = ctx[q].host /\ ctx'[q].container = ctx[q].container
    <3>1. CASE RequestDone(r)
      BY <2>2, <3>1 DEF RequestDone, TypeOK
    <3>2. CASE UpstreamPeer(r)
      <4>1. PICK o : ctx' = [ctx EXCEPT ![r].phase = o[1], ![r].peer = o[2]]
        BY <3>2 DEF UpstreamPeer
      <4>2. ctx[r] \in Ctx /\ ctx[r] # NoRoute
        BY <3>2 DEF UpstreamPeer, TypeOK
      <4> QED
        BY <2>2, <4>1, <4>2 DEF TypeOK, Ctx
    <3> QED
      BY <1>7, <3>1, <3>2
  <2>3. ASSUME NEW c \in Copies' PROVE c \in Copies
    <3>1. ASSUME NEW q \in Requests, ctx'[q] # NoRoute,
                 c = [host |-> ctx'[q].host, container |-> ctx'[q].container]
          PROVE  c \in Copies
      BY <2>2, <3>1, CopyPlaces
    <3> QED
      BY <2>1, <2>3, <3>1, CopyPlaces DEF Copies, Routed
  <2>4. ProbesOfClone'
    BY <2>1 DEF ProbesOfClone
  <2> QED
    BY <2>1, <2>3, <2>4, OldCopies
<1>8. CASE UNCHANGED <<store, unhealthy, clone, ctx>>
  <2>1. Copies' = Copies
    BY <1>8 DEF Copies, Routed
  <2> QED
    BY <1>8, <2>1, OldCopies DEF ProbesOfClone
<1> QED
  BY <1>1, <1>2, <1>3, <1>4, <1>5, <1>6, <1>7, <1>8
  DEF Next, RoutingNext, DockerNext, HealthNext, RequestNext, EnvNext, vars,
      Subscribe, ReceiveLagged, ListRoutes, ListFails, SendRouteMessage, HealthTick,
      LabelsChange, DnsChanges, BackendFlips, Change

(* However long a probe takes, and whichever routes are replaced or put    *)
(* back meanwhile, its mark is seen by the copies of the probed route and  *)
(* by no other.                                                            *)
THEOREM HealthMarksStay == Spec => []MarksStayWithRoute
<1>1. Init => ProbesOfClone /\ MarksStayWithRoute
  <2> SUFFICES ASSUME Init PROVE ProbesOfClone /\ MarksStayWithRoute
    OBVIOUS
  <2>1. \A c : c \notin Copies
    BY CopyPlaces DEF Init
  <2> QED
    BY <2>1 DEF Init, ProbesOfClone, MarksStayWithRoute
<1>2. Safe => TypeOK /\ TodoRouted
  BY DEF Safe
<1> QED
  BY <1>1, <1>2, SafeInvariant, MarksStep, PTL DEF Spec

-----------------------------------------------------------------------------
(* A literal container always finds the upstream of a backend it selects,  *)
(* so the only refusal left is "nothing is up".                            *)
LEMMA LiteralRefusal ==
  ASSUME NEW c \in Container, c.upstreams \subseteq Addrs, c.backends = c.upstreams,
         NEW o \in PeerOutcomes(c), o[1] # "peer"
  PROVE  o[1] = "unavailable" /\ (c.backends = {} \/ c.backends \cap unhealthy[c.lb] # {})
<1>1. Resolved(c.upstreams) = c.backends /\ \A u \in c.upstreams : Resolve(u) # {}
  BY LiteralsResolve
<1> QED
  BY <1>1 DEF PeerOutcomes, SelectMayGiveUp, Ready

(* A request on a Docker route is refused only if a backend of its         *)
(* snapshot is marked down: a health check's clone, a replaced route or a  *)
(* later DNS failure alone never turns a request under way down.           *)
THEOREM DockerRefusals == Spec => DockerRouteRefusedOnlyIfMarked
<1> DEFINE Refused(r) ==
      /\ ctx[r] # NoRoute /\ ctx'[r] # NoRoute
      /\ ctx[r].phase = "filtered"
      /\ ctx'[r].phase \in {"unavailable", "panicked"}
      /\ ctx[r].container.upstreams \subseteq Addrs
<1> DEFINE Marked(c) == c.backends = {} \/ c.backends \cap unhealthy[c.lb] # {}
<1> DEFINE Honest ==
      \A r \in Requests :
        Refused(r) => /\ ctx'[r].phase = "unavailable"
                      /\ Marked(ctx[r].container)
<1>1. ASSUME Safe, Next, NEW r \in Requests, Refused(r)
      PROVE  ctx'[r].phase = "unavailable" /\ Marked(ctx[r].container)
  <2> USE DEF routeVars, chanVars, healthVars, envVars
  <2>1. ctx[r] \in Ctx /\ Belongs(ctx[r].container, ctx[r].host)
    BY <1>1 DEF Safe, TypeOK, EveryCarrierBelongs
  <2>2. UpstreamPeer(r)
    <3>1. ctx'[r] # ctx[r]
      BY <1>1
    <3>2. ASSUME NEW q \in Requests, q # r,
                 (\E h \in Hosts : RequestFilter(q, h)) \/ UpstreamPeer(q) \/ RequestDone(q)
          PROVE  FALSE
      <4>1. ctx \in [Requests -> Ctx \cup {NoRoute}]
        BY <1>1 DEF Safe, TypeOK
      <4>2. ctx'[r] = ctx[r]
        BY <3>2, <4>1 DEF RequestFilter, UpstreamPeer, RequestDone
      <4> QED
        BY <3>1, <4>2
    <3>3. ASSUME NEW h \in Hosts, RequestFilter(r, h) PROVE FALSE
      BY <1>1, <3>3 DEF RequestFilter
    <3>4. ASSUME RequestDone(r) PROVE FALSE
      BY <1>1, <3>4 DEF RequestDone
    <3> QED
      BY <1>1, <3>1, <3>2, <3>3, <3>4
      DEF Next, RoutingNext, DockerNext, HealthNext, RequestNext, EnvNext,
          AddRoutesFromConfig, Subscribe, ReceiveRoute, ReceiveLagged, ListRoutes,
          ListFails, SendRouteMessage, HealthTick, CloneContainer, ProbeBackend,
          WriteBack, LabelsChange, DnsChanges, BackendFlips, Change
  <2>3. PICK o \in PeerOutcomes(ctx[r].container) :
           ctx' = [ctx EXCEPT ![r].phase = o[1], ![r].peer = o[2]]
    BY <2>2 DEF UpstreamPeer
  <2>4. o[1] = ctx'[r].phase /\ o[1] # "peer"
    BY <1>1, <2>1, <2>3 DEF Safe, TypeOK, Ctx
  <2>5. ctx[r].container \in Container
    BY <2>1 DEF Ctx
  <2> QED
    BY <1>1, <2>1, <2>3, <2>4, <2>5, LiteralRefusal DEF Belongs
<1>2. Safe /\ [Next]_vars => [Honest]_vars
  BY <1>1
<1>3. [][Honest]_vars => DockerRouteRefusedOnlyIfMarked
  BY PTL DEF DockerRouteRefusedOnlyIfMarked
<1> QED
  BY <1>2, <1>3, SafeInvariant, PTL DEF Spec

-----------------------------------------------------------------------------
(* One step keeps the unread messages within the batches sent. *)
LEMMA FitsStep ==
  ASSUME MaxBatches * Cardinality(Hosts) <= Capacity
  PROVE  TypeOK /\ UnreadFits /\ [Next]_vars => UnreadFits'
<1> SUFFICES ASSUME TypeOK, UnreadFits, [Next]_vars PROVE UnreadFits'
  OBVIOUS
<1> USE DEF routeVars, chanVars, healthVars, envVars
<1> DEFINE n == Cardinality(Hosts)
<1>0. n \in Nat /\ batches \in Nat /\ channel \in Seq(Message) /\ lagged = FALSE
  BY HostsFinite, FS_CardinalityType DEF TypeOK, UnreadFits
<1> HIDE DEF n
<1>1. CASE ReceiveRoute
  <2>1. lagged' = lagged /\ routing' # "stopped"
    BY <1>1, RoutingWrites DEF ReceiveRoute
  <2>2. channel' = Tail(channel) /\ Len(channel') = Len(channel) - 1
    BY <1>0, <1>1 DEF ReceiveRoute
  <2>3. CASE channel' = << >>
    <3>1. batches' = 0 /\ Len(channel') = 0
      BY <1>1, <2>2, <2>3 DEF ReceiveRoute
    <3> QED
      BY <1>0, <2>1, <3>1 DEF UnreadFits, n
  <2>4. CASE channel' # << >>
    <3>1. batches' = batches
      BY <1>1, <2>2, <2>4 DEF ReceiveRoute
    <3>2. Len(channel') <= batches * n
      BY <1>0, <2>2 DEF UnreadFits, n
    <3> QED
      BY <2>1, <3>1, <3>2 DEF UnreadFits, n
  <2> QED
    BY <2>3, <2>4
<1>2. CASE SendRouteMessage
  <2>1. PICK b \in Batch(listing) :
           /\ Publish(b)
           /\ batches' = IF channel' = << >> THEN 0 ELSE batches + 1
    BY <1>2 DEF SendRouteMessage, UnreadFits
  <2>2. /\ batches < MaxBatches /\ routing' = routing
        /\ listing \in [Hosts -> Route \cup {NoRoute}]
    BY <1>2 DEF SendRouteMessage, TypeOK, UnreadFits
  <2>3. b \in Seq(Message) /\ Len(b) <= n
    BY <2>2, BatchType DEF n
  <2>4. Len(channel) <= batches * n
    BY DEF UnreadFits, n
  <2>5. Len(channel) + Len(b) <= (batches + 1) * n
    <3>1. (batches + 1) * n = batches * n + n
      BY <1>0
    <3>2. batches * n \in Nat
      BY <1>0
    <3> QED
      BY <1>0, <2>3, <2>4, <3>1, <3>2
  <2>6. (batches + 1) * n <= MaxBatches * n
    <3>1. PICK k \in Nat : MaxBatches = (batches + 1) + k
      <4>1. MaxBatches - (batches + 1) \in Nat
        BY <1>0, <2>2, MaxBatchesType
      <4>2. MaxBatches = (batches + 1) + (MaxBatches - (batches + 1))
        BY <1>0, MaxBatchesType
      <4> QED
        BY <4>1, <4>2
    <3>2. MaxBatches * n = (batches + 1) * n + k * n
      BY <1>0, <3>1
    <3>3. k * n \in Nat /\ (batches + 1) * n \in Nat
      BY <1>0, <3>1
    <3> QED
      BY <3>2, <3>3
  <2>7. Len(channel) + Len(b) <= Capacity
    <3>1. MaxBatches * n <= Capacity
      BY DEF n
    <3>2. MaxBatches * n \in Nat /\ (batches + 1) * n \in Nat
      BY <1>0, MaxBatchesType
    <3> QED
      BY <1>0, <2>3, <2>5, <2>6, <3>1, <3>2, CapacityType
  <2>8. channel' = channel \o b /\ lagged' = FALSE
    BY <1>0, <2>1, <2>3, <2>7, PublishType
  <2>9. Len(channel') = Len(channel) + Len(b)
    BY <1>0, <2>3, <2>8
  <2>10. CASE channel' = << >>
    <3>1. batches' = 0 /\ Len(channel') = 0
      BY <2>1, <2>10
    <3> QED
      BY <1>0, <2>2, <2>8, <3>1 DEF UnreadFits, n
  <2>11. CASE channel' # << >>
    BY <2>1, <2>2, <2>5, <2>8, <2>9, <2>11 DEF UnreadFits, n
  <2> QED
    BY <2>10, <2>11
<1>3. CASE AddRoutesFromConfig
  <2>1. routing' # "stopped"
    BY <1>3, RoutingWrites
  <2> QED
    BY <1>3, <2>1 DEF AddRoutesFromConfig, UnreadFits
<1>4. CASE Subscribe
  BY <1>4 DEF Subscribe, UnreadFits
<1>5. CASE ReceiveLagged
  BY <1>5 DEF ReceiveLagged, UnreadFits
<1>6. CASE UNCHANGED <<chanVars, routing>>
  BY <1>6 DEF UnreadFits
<1> QED
  BY <1>1, <1>2, <1>3, <1>4, <1>5, <1>6
  DEF Next, RoutingNext, DockerNext, HealthNext, RequestNext, EnvNext, vars,
      ListRoutes, ListFails, HealthTick, CloneContainer, ProbeBackend, WriteBack,
      RequestFilter, UpstreamPeer, RequestDone, LabelsChange, DnsChanges, BackendFlips,
      Change

(* When the ring holds MaxBatches announcements of every host, the routing *)
(* service never lags, and so never ends.                                  *)
THEOREM RingLargeEnough ==
  ASSUME MaxBatches * Cardinality(Hosts) <= Capacity
  PROVE  Spec => []RoutingKeepsUp
<1>1. Init => UnreadFits
  <2>1. Cardinality(Hosts) \in Nat
    BY HostsFinite, FS_CardinalityType
  <2> QED
    BY <2>1 DEF Init, UnreadFits
<1>2. TypeOK /\ UnreadFits /\ [Next]_vars => UnreadFits'
  BY FitsStep
<1>3. UnreadFits => RoutingKeepsUp
  BY DEF UnreadFits, RoutingKeepsUp
<1> QED
  BY <1>1, <1>2, <1>3, TypeCorrect, PTL DEF Spec
=============================================================================
