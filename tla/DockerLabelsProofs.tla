------------------------- MODULE DockerLabelsProofs -------------------------
(***************************************************************************)
(* Proofs about DockerLabels: the loop over the daemon's answer computes   *)
(* what the answer spells, so the service implements RouteListing.         *)
(***************************************************************************)
EXTENDS DockerLabels, TLAPS

-----------------------------------------------------------------------------
(***************************************************************************)
(* Routes made from an entry.                                              *)
(***************************************************************************)

(* The loop's plugins are the ones whose labels are complete. *)
LEMMA PluginsAgree ==
  ASSUME NEW e
  PROVE  PluginsFrom(e) = Listing!PluginsOf(e) /\ PluginsFrom(e) \subseteq Listing!Plugins
<1>1. Listing!Plugins = {"oauth2", "request_id", "basic_auth"}
  BY DEF Listing!Plugins, Listing!PluginLabels
<1>2. /\ Listing!PluginLabels["oauth2"] =
           {"provider", "client_id", "client_secret", "jwt_secret", "validations"}
      /\ Listing!PluginLabels["request_id"] = {"request_id"}
      /\ Listing!PluginLabels["basic_auth"] = {"user", "password"}
  BY DEF Listing!PluginLabels
<1>. QED
  BY <1>1, <1>2 DEF PluginsFrom, Listing!PluginsOf

(* The addresses the loop pushes are the ones that can be connected to. *)
LEMMA AddressesAgree ==
  ASSUME NEW e \in Listing!Entry
  PROVE  SocketAddrs(e) = Listing!Addresses(e)
  BY DEF SocketAddrs, Listing!Addresses, Listing!Entry

(* What one entry that the loop does not skip contributes is well typed. *)
LEMMA ContributionType ==
  ASSUME NEW e \in Listing!Entry, Labelled(e)
  PROVE  /\ e.host \in Hosts /\ e.attrs \in Attrs
         /\ SocketAddrs(e) \subseteq (Ips \cup Names) \X Ports
         /\ e.name # None => <<e.name, e.port>> \in (Ips \cup Names) \X Ports
<1>1. e.host \in Hosts /\ e.port \in Ports /\ e.attrs \in Attrs
      /\ e.name \in Names \cup {None} /\ e.nets \subseteq Ips \cup {""}
  BY DEF Listing!Entry, Labelled
<1>2. ASSUME NEW u \in SocketAddrs(e) PROVE u \in (Ips \cup Names) \X Ports
  <2>1. PICK ip \in e.nets : ip # "" /\ u = <<ip, e.port>>
    BY <1>2 DEF SocketAddrs
  <2>2. ip \in Ips
    BY <1>1, <2>1
  <2>. QED
    BY <1>1, <2>1, <2>2
<1>. QED
  BY <1>1, <1>2

LEMMA ServiceRoute ==
  ASSUME NEW e \in Listing!Entry, Labelled(e), e.name # None
  PROVE  [upstreams |-> {<<e.name, e.port>>}, attrs |-> e.attrs,
          plugins |-> PluginsFrom(e)] \in Route
  BY ContributionType, PluginsAgree DEF Route

LEMMA ContainerRoute ==
  ASSUME NEW e \in Listing!Entry, Labelled(e), NEW r \in Route
  PROVE  /\ [upstreams |-> r.upstreams \cup SocketAddrs(e), attrs |-> r.attrs,
             plugins |-> r.plugins] \in Route
         /\ [upstreams |-> {}, attrs |-> e.attrs, plugins |-> {}] \in Route
  BY ContributionType DEF Route

(* The daemon's filter and limit leave an answer. *)
LEMMA FilteredType ==
  ASSUME NEW s \in [1 .. Slots -> Entries \cup {None}]
  PROVE  Filtered(s) \in Listing!Answer
  BY EntriesType DEF Filtered, Listing!Answer

-----------------------------------------------------------------------------
(***************************************************************************)
(* Type correctness.                                                       *)
(***************************************************************************)
LEMMA EmptyMap ==
  NoRoutes \in [Hosts -> Route \cup {None}] /\ 1 \in 1 .. Slots + 1 /\ Slots + 1 \in 1 .. Slots + 1
<1>1. NoRoutes \in [Hosts -> Route \cup {None}]
  BY DEF NoRoutes
<1>. QED
  BY <1>1, SlotsType

LEMMA InitType == Init => TypeOK
<1>1. Init => changes \in 0 .. MaxChanges
  BY SlotsType DEF Init
<1>. QED
  BY <1>1, EmptyMap DEF Init, TypeOK

(* The entry a turn looks at. *)
LEMMA TurnType ==
  ASSUME TypeOK, UnspelledHasNoRoute, Turn
  PROVE  /\ at \in 1 .. Slots /\ at' = at + 1 /\ at' \in 1 .. Slots + 1
         /\ answer \in Listing!Answer
         /\ answer[at] \in Listing!Entry \cup {None}
<1>1. at \in 1 .. Slots /\ at' = at + 1 /\ at' \in 1 .. Slots + 1
  BY SlotsType DEF Turn, TypeOK
<1>2. answer \in Listing!Answer
  BY DEF Turn, TypeOK, UnspelledHasNoRoute
<1>. QED
  BY <1>1, <1>2 DEF Listing!Answer

LEMMA TypeStep == TypeOK /\ UnspelledHasNoRoute /\ [Next]_vars => TypeOK'
<1>. SUFFICES ASSUME TypeOK, UnspelledHasNoRoute, [Next]_vars PROVE TypeOK'
  OBVIOUS
<1>1. CASE StartService
  BY <1>1 DEF StartService, TypeOK
<1>2. CASE ListEntries
  <2>1. answer' \in Listing!Answer
    BY <1>2, FilteredType DEF ListEntries, TypeOK
  <2>. QED
    BY <1>2, <2>1, EmptyMap DEF ListEntries, TypeOK
<1>3. CASE ListFails
  <2>1. answer' \in Listing!Answer
    BY <1>3 DEF ListFails, Listing!Answer
  <2>. QED
    BY <1>3, <2>1, EmptyMap DEF ListFails, TypeOK
<1>4. CASE SkipEntry
  BY <1>4, TurnType DEF SkipEntry, Turn, TypeOK
<1>5. CASE AddService
  <2>. DEFINE e == answer[at]
  <2>1. e \in Listing!Entry /\ Labelled(e) /\ e.name # None /\ Turn
    BY <1>5, TurnType DEF AddService
  <2>2. host_map' \in [Hosts -> Route \cup {None}]
    BY <1>5, <2>1, ServiceRoute, ContributionType DEF AddService, TypeOK
  <2>. QED
    BY <2>1, <2>2, TurnType DEF Turn, TypeOK
<1>6. CASE AddContainer
  <2>. DEFINE e == answer[at]
              entry == IF host_map[e.host] = None
                       THEN [upstreams |-> {}, attrs |-> e.attrs, plugins |-> {}]
                       ELSE host_map[e.host]
  <2>1. e \in Listing!Entry /\ Labelled(e) /\ Turn
    BY <1>6, TurnType DEF AddContainer
  <2>2. e.host \in Hosts /\ entry \in Route
    BY <2>1, ContributionType DEF TypeOK, Route
  <2>. DEFINE r == [upstreams |-> entry.upstreams \cup SocketAddrs(e),
                    attrs |-> entry.attrs, plugins |-> entry.plugins]
  <2>3. r \in Route
    BY <2>1, <2>2, ContainerRoute
  <2>4. host_map' = [host_map EXCEPT ![e.host] = r]
    BY <1>6 DEF AddContainer
  <2>5. host_map' \in [Hosts -> Route \cup {None}]
    BY <2>2, <2>3, <2>4 DEF TypeOK
  <2>. QED
    BY <2>1, <2>5, TurnType DEF Turn, TypeOK
<1>7. CASE SendRouteMessage
  BY <1>7 DEF SendRouteMessage, TypeOK
<1>8. ASSUME NEW i \in 1 .. Slots, NEW e \in Entries \cup {None}, EntriesChange(i, e)
      PROVE  TypeOK'
  <2>1. changes' \in 0 .. MaxChanges
    BY <1>8, SlotsType DEF EntriesChange, TypeOK
  <2>2. entries' \in [1 .. Slots -> Entries \cup {None}]
    BY <1>8 DEF EntriesChange, TypeOK
  <2>. QED
    BY <1>8, <2>1, <2>2 DEF EntriesChange, TypeOK
<1>9. CASE UNCHANGED vars
  BY <1>9 DEF vars, TypeOK
<1>. QED
  BY <1>1, <1>2, <1>3, <1>4, <1>5, <1>6, <1>7, <1>8, <1>9 DEF Next, LoopNext

-----------------------------------------------------------------------------
(***************************************************************************)
(* The host map follows the answer.                                        *)
(***************************************************************************)

(* One turn adds the entry it looks at to the entries for its host. *)
LEMMA ForStep ==
  ASSUME TypeOK, UnspelledHasNoRoute, Turn, NEW h \in Hosts
  PROVE  /\ mode' = mode /\ answer' = answer /\ at' - 1 = at
         /\ Listing!For(mode, answer, h, at) =
              IF Listing!Usable(mode, answer[at]) /\ answer[at].host = h
              THEN Listing!For(mode, answer, h, at - 1) \cup {at}
              ELSE Listing!For(mode, answer, h, at - 1)
         /\ \A i \in Listing!For(mode, answer, h, at - 1) : i \in Nat /\ i < at
<1>1. at \in Nat /\ at >= 1 /\ at' = at + 1
  BY TurnType
<1>2. 1 .. at = (1 .. at - 1) \cup {at}
  BY <1>1
<1>3. mode' = mode /\ answer' = answer /\ at' - 1 = at
  BY <1>1 DEF Turn
<1>4. \A i \in 1 .. at - 1 : i \in Nat /\ i < at
  BY <1>1
<1>. QED
  BY <1>2, <1>3, <1>4 DEF Listing!For

(* An entry the loop does not skip is one the answer counts. *)
LEMMA UsableMeans ==
  ASSUME NEW e
  PROVE  Listing!Usable(mode, e) <=>
           e # None /\ Labelled(e) /\ (mode = "swarm" => e.name # None)
  BY DEF Listing!Usable, Labelled

LEMMA SkipKeeps ==
  ASSUME TypeOK, UnspelledHasNoRoute, HostMapFollowsAnswer, SkipEntry
  PROVE  UnspelledHasNoRoute' /\ HostMapFollowsAnswer'
<1>1. Turn /\ host_map' = host_map /\ ~Listing!Usable(mode, answer[at])
  BY UsableMeans DEF SkipEntry
<1>2. \A h \in Hosts : Listing!For(mode, answer, h, at) = Listing!For(mode, answer, h, at - 1)
  BY <1>1, ForStep
<1>3. mode' = mode /\ answer' = answer /\ at' - 1 = at /\ service = "looping" /\ service' = service
  BY <1>1, TurnType DEF Turn
<1>4. ASSUME NEW h \in Hosts
      PROVE  /\ host_map[h] = None <=> Listing!For(mode, answer, h, at) = {}
             /\ Listing!Spells(mode, answer, h, at, host_map[h])
  <2>1. /\ host_map[h] = None <=> Listing!For(mode, answer, h, at - 1) = {}
        /\ Listing!Spells(mode, answer, h, at - 1, host_map[h])
    BY <1>3 DEF UnspelledHasNoRoute, HostMapFollowsAnswer
  <2>. QED
    BY <1>2, <2>1 DEF Listing!Spells
<1>. QED
  BY <1>1, <1>3, <1>4 DEF UnspelledHasNoRoute, HostMapFollowsAnswer

LEMMA ServiceKeeps ==
  ASSUME TypeOK, UnspelledHasNoRoute, HostMapFollowsAnswer, AddService
  PROVE  UnspelledHasNoRoute' /\ HostMapFollowsAnswer'
<1>. DEFINE e == answer[at]
            r == [upstreams |-> {<<e.name, e.port>>}, attrs |-> e.attrs,
                  plugins |-> PluginsFrom(e)]
<1>1. Turn /\ e # None /\ Labelled(e) /\ e.name # None /\ mode = "swarm"
  BY DEF AddService
<1>2. e \in Listing!Entry /\ e.host \in Hosts /\ Listing!Usable(mode, e)
  BY <1>1, TurnType, UsableMeans, ContributionType
<1>3. host_map' = IF host_map[e.host] # None THEN host_map
                  ELSE [host_map EXCEPT ![e.host] = r]
  BY DEF AddService
<1>4. r # None
  BY <1>1, <1>2, ServiceRoute, NoneNoRoute
<1>5. mode' = mode /\ answer' = answer /\ at' - 1 = at /\ service = "looping" /\ service' = service
  BY <1>1, TurnType DEF Turn
<1>6. ASSUME NEW h \in Hosts
      PROVE  /\ host_map'[h] = None <=> Listing!For(mode, answer, h, at) = {}
             /\ Listing!Spells(mode, answer, h, at, host_map'[h])
  <2>. DEFINE old == Listing!For(mode, answer, h, at - 1)
  <2>0. /\ host_map[h] = None <=> old = {}
        /\ Listing!Spells(mode, answer, h, at - 1, host_map[h])
        /\ \A i \in old : i \in Nat /\ i < at
    BY <1>1, <1>5, ForStep DEF UnspelledHasNoRoute, HostMapFollowsAnswer
  <2>1. CASE h # e.host
    <3>1. Listing!For(mode, answer, h, at) = old /\ host_map'[h] = host_map[h]
      BY <1>1, <1>2, <1>3, <2>1, ForStep DEF TypeOK
    <3>. QED
      BY <2>0, <3>1 DEF Listing!Spells
  <2>2. CASE h = e.host /\ host_map[h] # None
    <3>1. Listing!For(mode, answer, h, at) = old \cup {at} /\ host_map' = host_map
      BY <1>1, <1>2, <1>3, <2>2, ForStep
    <3>2. PICK i \in old :
            /\ \A j \in old : i <= j
            /\ host_map[h] = [upstreams |-> Listing!UpstreamsOf(mode, answer[i]),
                              attrs |-> answer[i].attrs,
                              plugins |-> Listing!PluginsOf(answer[i])]
      BY <1>1, <2>0, <2>2 DEF Listing!Spells
    <3>3. i \in old \cup {at} /\ \A j \in old \cup {at} : i <= j
      BY <1>1, <2>0, <3>2, TurnType
    <3>. QED
      BY <1>1, <2>0, <2>2, <3>1, <3>2, <3>3 DEF Listing!Spells
  <2>3. CASE h = e.host /\ host_map[h] = None
    <3>1. Listing!For(mode, answer, h, at) = {at}
      BY <1>1, <1>2, <2>0, <2>3, ForStep
    <3>2. host_map'[h] = r
      BY <1>3, <2>3 DEF TypeOK
    <3>3. r = [upstreams |-> Listing!UpstreamsOf(mode, answer[at]), attrs |-> answer[at].attrs,
               plugins |-> Listing!PluginsOf(answer[at])]
      BY <1>1, PluginsAgree DEF Listing!UpstreamsOf
    <3>4. at <= at
      BY <1>1, TurnType
    <3>. QED
      BY <1>1, <1>4, <3>1, <3>2, <3>3, <3>4 DEF Listing!Spells
  <2>. QED
    BY <2>1, <2>2, <2>3
<1>. QED
  BY <1>5, <1>6 DEF UnspelledHasNoRoute, HostMapFollowsAnswer

LEMMA ContainerKeeps ==
  ASSUME TypeOK, UnspelledHasNoRoute, HostMapFollowsAnswer, AddContainer
  PROVE  UnspelledHasNoRoute' /\ HostMapFollowsAnswer'
<1>. DEFINE e == answer[at]
            entry == IF host_map[e.host] = None
                     THEN [upstreams |-> {}, attrs |-> e.attrs, plugins |-> {}]
                     ELSE host_map[e.host]
            r == [upstreams |-> entry.upstreams \cup SocketAddrs(e),
                  attrs |-> entry.attrs, plugins |-> entry.plugins]
<1>1. Turn /\ e # None /\ Labelled(e) /\ mode = "container"
  BY DEF AddContainer
<1>2. e \in Listing!Entry /\ e.host \in Hosts /\ Listing!Usable(mode, e)
  BY <1>1, TurnType, UsableMeans, ContributionType
<1>3. host_map' = [host_map EXCEPT ![e.host] = r]
  BY DEF AddContainer
<1>4. r # None
  <2>1. entry \in Route
    BY <1>1, <1>2, ContributionType DEF TypeOK, Route
  <2>. QED
    BY <1>1, <1>2, <2>1, ContainerRoute, NoneNoRoute
<1>5. mode' = mode /\ answer' = answer /\ at' - 1 = at /\ service = "looping" /\ service' = service
  BY <1>1, TurnType DEF Turn
<1>6. ASSUME NEW h \in Hosts
      PROVE  /\ host_map'[h] = None <=> Listing!For(mode, answer, h, at) = {}
             /\ Listing!Spells(mode, answer, h, at, host_map'[h])
  <2>. DEFINE old == Listing!For(mode, answer, h, at - 1)
              ups(i) == Listing!UpstreamsOf(mode, answer[i])
  <2>0. /\ host_map[h] = None <=> old = {}
        /\ Listing!Spells(mode, answer, h, at - 1, host_map[h])
        /\ \A i \in old : i \in Nat /\ i < at
    BY <1>1, <1>5, ForStep DEF UnspelledHasNoRoute, HostMapFollowsAnswer
  <2>1. CASE h # e.host
    <3>1. Listing!For(mode, answer, h, at) = old /\ host_map'[h] = host_map[h]
      BY <1>1, <1>2, <1>3, <2>1, ForStep DEF TypeOK
    <3>. QED
      BY <2>0, <3>1 DEF Listing!Spells
  <2>2. CASE h = e.host
    <3>1. Listing!For(mode, answer, h, at) = old \cup {at} /\ host_map'[h] = r
      BY <1>1, <1>2, <1>3, <2>2, ForStep DEF TypeOK
    <3>2. SocketAddrs(e) = ups(at)
      BY <1>1, <1>2, AddressesAgree DEF Listing!UpstreamsOf
    <3>3. CASE host_map[h] = None
      <4>1. Listing!For(mode, answer, h, at) = {at}
        BY <2>0, <3>1, <3>3
      <4>2. r = [upstreams |-> SocketAddrs(e), attrs |-> e.attrs, plugins |-> {}]
        BY <2>2, <3>3
      <4>3. UNION {ups(j) : j \in {at}} = ups(at) /\ at <= at
        BY <1>1, TurnType
      <4>4. r = [upstreams |-> UNION {ups(j) : j \in {at}}, attrs |-> answer[at].attrs,
                 plugins |-> {}]
        BY <3>2, <4>2, <4>3
      <4>5. at \in {at} /\ \A j \in {at} : at <= j
        BY <4>3
      <4>6. \E i \in {at} :
              /\ \A j \in {at} : i <= j
              /\ r = [upstreams |-> UNION {ups(j) : j \in {at}},
                      attrs |-> answer[i].attrs, plugins |-> {}]
        BY <4>4, <4>5, Zenon
      <4>7. Listing!Spells(mode, answer, h, at, r)
        BY <1>1, <4>1, <4>6 DEF Listing!Spells
      <4>. QED
        BY <1>4, <3>1, <4>1, <4>7
    <3>4. CASE host_map[h] # None
      <4>1. PICK i \in old :
              /\ \A j \in old : i <= j
              /\ host_map[h] = [upstreams |-> UNION {ups(j) : j \in old},
                                attrs |-> answer[i].attrs, plugins |-> {}]
        BY <1>1, <2>0, <3>4 DEF Listing!Spells
      <4>2. i \in old \cup {at} /\ \A j \in old \cup {at} : i <= j
        BY <1>1, <2>0, <4>1, TurnType
      <4>3. UNION {ups(j) : j \in old \cup {at}} = (UNION {ups(j) : j \in old}) \cup ups(at)
        OBVIOUS
      <4>4. r = [upstreams |-> UNION {ups(j) : j \in old \cup {at}},
                 attrs |-> answer[i].attrs, plugins |-> {}]
        <5>1. /\ host_map[h].upstreams = UNION {ups(j) : j \in old}
              /\ host_map[h].attrs = answer[i].attrs /\ host_map[h].plugins = {}
          BY <4>1
        <5>. QED
          BY <2>2, <3>2, <3>4, <4>3, <5>1
      <4>. QED
        BY <1>1, <1>4, <3>1, <4>2, <4>4 DEF Listing!Spells
    <3>. QED
      BY <3>3, <3>4
  <2>. QED
    BY <2>1, <2>2
<1>. QED
  BY <1>5, <1>6 DEF UnspelledHasNoRoute, HostMapFollowsAnswer

(* The state in which a loop starts: nothing was looked at. *)
LEMMA FreshKeeps ==
  ASSUME TypeOK, answer' # None, service' = "looping", host_map' = NoRoutes,
         \A h \in Hosts : Listing!For(mode', answer', h, at' - 1) = {}
  PROVE  UnspelledHasNoRoute' /\ HostMapFollowsAnswer'
<1>1. \A h \in Hosts : host_map'[h] = None
  BY DEF NoRoutes
<1>. QED
  BY <1>1 DEF UnspelledHasNoRoute, HostMapFollowsAnswer, Listing!Spells

LEMMA FollowsStep ==
  TypeOK /\ UnspelledHasNoRoute /\ HostMapFollowsAnswer /\ [Next]_vars
    => UnspelledHasNoRoute' /\ HostMapFollowsAnswer'
<1>. SUFFICES ASSUME TypeOK, UnspelledHasNoRoute, HostMapFollowsAnswer, [Next]_vars
              PROVE  UnspelledHasNoRoute' /\ HostMapFollowsAnswer'
  OBVIOUS
<1>1. CASE StartService
  BY <1>1 DEF StartService, UnspelledHasNoRoute, HostMapFollowsAnswer
<1>2. CASE ListEntries
  <2>1. answer' \in Listing!Answer /\ answer' # None
    BY <1>2, FilteredType, NoneFresh DEF ListEntries, TypeOK
  <2>2. at' - 1 = 0 /\ service' = "looping" /\ host_map' = NoRoutes
    BY <1>2 DEF ListEntries
  <2>3. \A h \in Hosts : Listing!For(mode', answer', h, at' - 1) = {}
    BY <2>2 DEF Listing!For
  <2>. QED
    BY <2>1, <2>2, <2>3, FreshKeeps
<1>3. CASE ListFails
  <2>1. answer' \in Listing!Answer /\ answer' # None
    BY <1>3, NoneFresh DEF ListFails, Listing!Answer
  <2>2. at' - 1 = Slots /\ service' = "looping" /\ host_map' = NoRoutes
    BY <1>3, SlotsType DEF ListFails
  <2>3. \A i \in 1 .. Slots : answer'[i] = None
    BY <1>3 DEF ListFails
  <2>4. \A h \in Hosts : Listing!For(mode', answer', h, at' - 1) = {}
    BY <2>2, <2>3 DEF Listing!For, Listing!Usable
  <2>. QED
    BY <2>1, <2>2, <2>4, FreshKeeps
<1>4. CASE SkipEntry
  BY <1>4, SkipKeeps
<1>5. CASE AddService
  BY <1>5, ServiceKeeps
<1>6. CASE AddContainer
  BY <1>6, ContainerKeeps
<1>7. CASE SendRouteMessage
  BY <1>7 DEF SendRouteMessage, UnspelledHasNoRoute, HostMapFollowsAnswer
<1>8. CASE UNCHANGED <<mode, enabled, service, answer, at, host_map, sent>>
  BY <1>8 DEF UnspelledHasNoRoute, HostMapFollowsAnswer
<1>. QED
  BY <1>1, <1>2, <1>3, <1>4, <1>5, <1>6, <1>7, <1>8 DEF Next, LoopNext, EntriesChange, vars

LEMMA InitFollows == Init => UnspelledHasNoRoute /\ HostMapFollowsAnswer
  BY DEF Init, UnspelledHasNoRoute, HostMapFollowsAnswer

Inv == TypeOK /\ UnspelledHasNoRoute /\ HostMapFollowsAnswer

LEMMA Invariance == Spec => []Inv
<1>1. Init => Inv
  BY InitType, InitFollows DEF Inv
<1>2. Inv /\ [Next]_vars => Inv'
  BY TypeStep, FollowsStep DEF Inv
<1>. QED
  BY <1>1, <1>2, PTL DEF Spec

(* Every variable of the Docker label service stays in its type, whatever  *)
(* the daemon answers and whenever it fails.                               *)
THEOREM TypeCorrect == Spec => []TypeOK
  BY Invariance, PTL DEF Inv

(* At every turn of list_services and list_containers the host map is what *)
(* the entries looked at so far spell, for any number of entries.          *)
THEOREM HostMapCorrect == Spec => []HostMapFollowsAnswer
  BY Invariance, PTL DEF Inv

-----------------------------------------------------------------------------
(***************************************************************************)
(* The service implements RouteListing.                                    *)
(***************************************************************************)

(* send_route_message leaves out exactly the hosts with nothing behind.    *)
LEMMA SendAnnounces ==
  ASSUME TypeOK, UnspelledHasNoRoute, HostMapFollowsAnswer, SendRouteMessage
  PROVE  Listing!Announces(mode, answer, sent')
<1>. SUFFICES ASSUME NEW h \in Hosts
     PROVE IF \E j \in Listing!For(mode, answer, h, Slots) : Listing!UpstreamsOf(mode, answer[j]) # {}
           THEN Listing!Spells(mode, answer, h, Slots, sent'[h])
           ELSE sent'[h] = None
  BY DEF Listing!Announces
<1>. DEFINE of == Listing!For(mode, answer, h, Slots)
            ups(j) == Listing!UpstreamsOf(mode, answer[j])
<1>1. at - 1 = Slots /\ service = "looping"
  BY SlotsType DEF SendRouteMessage, TypeOK
<1>2. Listing!Spells(mode, answer, h, Slots, host_map[h]) /\ (host_map[h] = None <=> of = {})
  BY <1>1 DEF HostMapFollowsAnswer, UnspelledHasNoRoute
<1>3. sent'[h] = IF host_map[h] # None /\ host_map[h].upstreams # {}
                 THEN host_map[h] ELSE None
  BY DEF SendRouteMessage
<1>4. CASE of = {}
  BY <1>2, <1>3, <1>4
<1>5. CASE of # {}
  <2>1. PICK i \in of :
          host_map[h].upstreams = IF mode = "swarm" THEN ups(i) ELSE UNION {ups(j) : j \in of}
    <3>1. PICK i \in of :
            host_map[h] = [upstreams |-> IF mode = "swarm" THEN ups(i)
                                         ELSE UNION {ups(j) : j \in of},
                           attrs |-> answer[i].attrs,
                           plugins |-> IF mode = "swarm" THEN Listing!PluginsOf(answer[i]) ELSE {}]
      BY <1>2, <1>5, Zenon DEF Listing!Spells
    <3>2. host_map[h].upstreams = IF mode = "swarm" THEN ups(i) ELSE UNION {ups(j) : j \in of}
      BY <3>1
    <3>. QED
      BY <3>2
  <2>2. mode = "swarm" => \A j \in of : ups(j) # {}
    BY DEF Listing!UpstreamsOf
  <2>3. host_map[h].upstreams # {} <=> \E j \in of : ups(j) # {}
    BY <2>1, <2>2
  <2>. QED
    BY <1>2, <1>3, <1>5, <2>3
<1>. QED
  BY <1>4, <1>5

LEMMA StepImplements ==
  ASSUME TypeOK, UnspelledHasNoRoute, HostMapFollowsAnswer, [Next]_vars
  PROVE  [Listing!List \/ Listing!Announce]_(Listing!vars)
<1>1. CASE ListEntries
  <2>1. answer' \in Listing!Answer
    BY <1>1, FilteredType DEF ListEntries, TypeOK
  <2>. QED
    BY <1>1, <2>1 DEF ListEntries, UnspelledHasNoRoute, Listing!List
<1>2. CASE ListFails
  <2>1. answer' \in Listing!Answer
    BY <1>2 DEF ListFails, Listing!Answer
  <2>. QED
    BY <1>2, <2>1 DEF ListFails, UnspelledHasNoRoute, Listing!List
<1>3. CASE SendRouteMessage
  <2>1. DOMAIN sent' = Hosts
    BY <1>3 DEF SendRouteMessage
  <2>. QED
    BY <1>3, <2>1, SendAnnounces DEF SendRouteMessage, UnspelledHasNoRoute, Listing!Announce
<1>4. CASE UNCHANGED <<mode, answer, sent>>
  BY <1>4 DEF Listing!vars
<1>. QED
  BY <1>1, <1>2, <1>3, <1>4
  DEF Next, LoopNext, vars, StartService, SkipEntry, AddService, AddContainer, Turn, EntriesChange

(* list_services, list_containers and send_route_message announce, host by *)
(* host, what one answer of the daemon spells, for any number of entries.  *)
THEOREM RefinesListing == Spec => ImplementsListing
<1>1. Init => Listing!Init
  BY DEF Init, Listing!Init, NoRoutes
<1>2. Inv /\ [Next]_vars => [Listing!List \/ Listing!Announce]_(Listing!vars)
  BY StepImplements DEF Inv
<1>. QED
  BY <1>1, <1>2, Invariance, PTL DEF Spec, ImplementsListing, Listing!Spec
=============================================================================
