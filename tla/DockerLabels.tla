---------------------------- MODULE DockerLabels ----------------------------
(***************************************************************************)
(* The Docker label service (services/docker/mod.rs): start_service, the   *)
(* listing of containers or of Swarm services, the loop that builds the    *)
(* host map from their labels, and send_route_message.                     *)
(*                                                                         *)
(* The daemon answers with its entries in an order of its own, newest      *)
(* first.  It has applied the label filter, and a limit to containers.     *)
(* Its answers are assumed complete: an entry has its id, its labels and   *)
(* the addresses of its networks, which the code unwraps (ConfigReload's   *)
(* fault "docker answer" is about the panic otherwise).                    *)
(* What becomes of an announcement is RouteDiscovery's.                    *)
(***************************************************************************)
EXTENDS Naturals, FiniteSets

CONSTANTS
  Slots,      \* bound: entries the daemon may hold
  Hosts,      \* values of the label proksi.host, other than the empty one
  Names,      \* names of services
  Ips,        \* addresses of containers on their networks
  Ports,      \* values of the label proksi.port, other than the empty one
  BadPorts,   \* the ones SocketAddr::from_str rejects
  Attrs,      \* path patterns, header edits and the self-signed flag
  None,       \* no entry, no name, no route
  Entries,    \* the containers or services there may be
  Limit,      \* ListContainersOptions::limit
  MaxChanges  \* bound: changes of the daemon's entries in one behaviour

VARIABLES
  mode,     \* docker.mode
  enabled,  \* docker.enabled
  service,  \* where start_service is
  answer,   \* the daemon's answer, None between two
  at,       \* the slot the loop looks at next
  host_map, \* per host, the ProksiDockerRoute or None
  sent,     \* per host, the route of the batch sent last
  entries,  \* environment: per slot, what the daemon holds
  changes   \* changes of the environment so far

vars == <<mode, enabled, service, answer, at, host_map, sent, entries, changes>>

(* What the service promises. *)
Listing == INSTANCE RouteListing WITH listed <- answer

ASSUME SlotsType == Slots \in Nat /\ Limit \in Nat /\ MaxChanges \in Nat

ASSUME EntriesType == Entries \subseteq Listing!Entry

ASSUME NoneFresh ==
  /\ None \notin Listing!Entry
  /\ None \notin Names \cup Hosts \cup Ports
  /\ None \notin Listing!Answer
  /\ "" \notin Hosts \cup Ports

Route == [upstreams : SUBSET ((Ips \cup Names) \X Ports), attrs : Attrs,
          plugins : SUBSET Listing!Plugins]

ASSUME NoneNoRoute == None \notin Route

NoRoutes == [h \in Hosts |-> None]

-----------------------------------------------------------------------------
(* The first tick() is immediate, the loop waits for the second one. *)
StartService ==
  /\ service = "starting"
  /\ service' = IF enabled = FALSE THEN "returned" ELSE "waiting"
  /\ UNCHANGED <<mode, enabled, answer, at, host_map, sent, entries, changes>>

(* get_routes_from_docker: the filter keeps the entries that have all three *)
(* labels; a label may still be empty.                                     *)
Matches(e) == e # None /\ e.enabled

Filtered(s) ==
  [i \in 1 .. Slots |->
     IF /\ Matches(s[i])
        /\ mode = "container" =>
             Cardinality({j \in 1 .. i - 1 : Matches(s[j])}) < Limit
     THEN s[i] ELSE None]

ListEntries ==
  /\ service = "waiting"
  /\ service' = "looping"
  /\ answer' = Filtered(entries)
  /\ at' = 1
  /\ host_map' = NoRoutes
  /\ UNCHANGED <<mode, enabled, sent, entries, changes>>

(* Plausible bug: an error of the daemon ends the service. *)
ListFailureEnds ==
  /\ service = "waiting"
  /\ service' = "returned"
  /\ UNCHANGED <<mode, enabled, answer, at, host_map, sent, entries, changes>>

(* Plausible bug: an error of the daemon yields no map at all. *)
ListFailureNoMap ==
  /\ service = "waiting"
  /\ service' = "looping"
  /\ answer' = [i \in 1 .. Slots |-> None]
  /\ at' = Slots + 1
  /\ host_map' = None
  /\ UNCHANGED <<mode, enabled, sent, entries, changes>>

(* The daemon answers with an error: an empty host map. *)
ListFails ==
  /\ service = "waiting"
  /\ service' = "looping"
  /\ answer' = [i \in 1 .. Slots |-> None]
  /\ at' = Slots + 1
  /\ host_map' = NoRoutes
  /\ UNCHANGED <<mode, enabled, sent, entries, changes>>

-----------------------------------------------------------------------------
(***************************************************************************)
(* One turn of the loop over the answer.                                   *)
(***************************************************************************)
Turn ==
  /\ service = "looping"
  /\ at <= Slots
  /\ at' = at + 1
  /\ UNCHANGED <<mode, enabled, service, answer, sent, entries, changes>>

(* The conditions of the two `continue`s. *)
Labelled(e) == e.enabled /\ e.host # "" /\ e.port # ""

(* format!("{ip}:{port}") parses, and the address is not empty. *)
SocketAddrs(e) == {<<ip, e.port>> : ip \in {x \in e.nets : x # "" /\ e.port \notin BadPorts}}

(* Plugins of a service: all labels of one, or it is left out. *)
PluginsFrom(e) ==
  {p \in {"oauth2", "request_id", "basic_auth"} :
     CASE p = "oauth2" -> {"provider", "client_id", "client_secret",
                           "jwt_secret", "validations"} \subseteq e.labels
       [] p = "request_id" -> "request_id" \in e.labels
       [] p = "basic_auth" -> "user" \in e.labels /\ "password" \in e.labels}

(* A slot the daemon left empty, or an entry the loop continues past. *)
SkipEntry ==
  /\ Turn
  /\ \/ answer[at] = None
     \/ answer[at] # None /\ ~Labelled(answer[at])
     \/ answer[at] # None /\ mode = "swarm" /\ answer[at].name = None
  /\ UNCHANGED host_map

(* list_services: the first service for a host is the only one. *)
AddService ==
  LET e == answer[at]
  IN  /\ Turn
      /\ mode = "swarm"
      /\ e # None
      /\ Labelled(e) /\ e.name # None
      /\ host_map' = IF host_map[e.host] # None THEN host_map
                     ELSE [host_map EXCEPT ![e.host] =
                             [upstreams |-> {<<e.name, e.port>>},
                              attrs     |-> e.attrs,
                              plugins   |-> PluginsFrom(e)]]

(* Plausible bug: the last container for a host sets its attributes. *)
AddContainerLastWins ==
  LET e == answer[at]
      old == IF host_map[e.host] = None THEN {} ELSE host_map[e.host].upstreams
  IN  /\ Turn
      /\ mode = "container"
      /\ e # None
      /\ Labelled(e)
      /\ host_map' = [host_map EXCEPT ![e.host] =
                        [upstreams |-> old \cup SocketAddrs(e),
                         attrs |-> e.attrs, plugins |-> {}]]

(* list_containers: the first one makes the entry, all of them add to it. *)
AddContainer ==
  LET e == answer[at]
      old == host_map[e.host]
      entry == IF old = None
               THEN [upstreams |-> {}, attrs |-> e.attrs, plugins |-> {}] ELSE old
  IN  /\ Turn
      /\ mode = "container"
      /\ e # None
      /\ Labelled(e)
      /\ host_map' = [host_map EXCEPT ![e.host] =
                        [upstreams |-> entry.upstreams \cup SocketAddrs(e),
                         attrs |-> entry.attrs, plugins |-> entry.plugins]]

(* Plausible bug: a host is announced although nothing is behind it. *)
SendUnchecked ==
  /\ service = "looping"
  /\ at > Slots
  /\ service' = "waiting"
  /\ answer' = None
  /\ sent' = host_map
  /\ UNCHANGED <<mode, enabled, at, host_map, entries, changes>>

(* send_route_message: one message for every host that has upstreams. *)
SendRouteMessage ==
  /\ service = "looping"
  /\ at > Slots
  /\ service' = "waiting"
  /\ answer' = None
  /\ sent' = [h \in Hosts |->
                IF host_map[h] # None /\ host_map[h].upstreams # {}
                THEN host_map[h] ELSE None]
  /\ UNCHANGED <<mode, enabled, at, host_map, entries, changes>>

-----------------------------------------------------------------------------
(* A container or service starts, stops or is labelled anew. *)
EntriesChange(i, e) ==
  /\ changes < MaxChanges
  /\ changes' = changes + 1
  /\ e # entries[i]
  /\ entries' = [entries EXCEPT ![i] = e]
  /\ UNCHANGED <<mode, enabled, service, answer, at, host_map, sent>>

Init ==
  /\ mode \in Listing!Modes
  /\ enabled \in {TRUE, FALSE, None}
  /\ service = "starting"
  /\ answer = None
  /\ at = 1
  /\ host_map = NoRoutes
  /\ sent = NoRoutes
  /\ entries \in [1 .. Slots -> Entries \cup {None}]
  /\ changes = 0

LoopNext == SkipEntry \/ AddService \/ AddContainer \/ SendRouteMessage

Next ==
  \/ StartService \/ ListEntries \/ ListFails
  \/ LoopNext
  \/ \E i \in 1 .. Slots, e \in Entries \cup {None} : EntriesChange(i, e)

(* The interval fires again, and the daemon does not fail for ever. *)
Spec ==
  /\ Init /\ [][Next]_vars
  /\ WF_vars(StartService) /\ WF_vars(LoopNext) /\ SF_vars(ListEntries)

-----------------------------------------------------------------------------
(***************************************************************************)
(* Properties.                                                             *)
(***************************************************************************)

(* Every variable stays in its type. *)
TypeOK ==
  /\ mode \in Listing!Modes
  /\ enabled \in {TRUE, FALSE, None}
  /\ service \in {"starting", "returned", "waiting", "looping"}
  /\ answer \in Listing!Answer \cup {None}
  /\ at \in 1 .. Slots + 1
  /\ host_map \in [Hosts -> Route \cup {None}]
  /\ sent \in [Hosts -> Route \cup {None}]
  /\ entries \in [1 .. Slots -> Entries \cup {None}]
  /\ changes \in 0 .. MaxChanges

(* At every turn of the loop the host map is what the entries looked at so *)
(* far spell: upstreams never land on another host, no container is lost,  *)
(* and the first entry of a host, not the last, decides its attributes.    *)
HostMapFollowsAnswer ==
  service = "looping" =>
    \A h \in Hosts : Listing!Spells(mode, answer, h, at - 1, host_map[h])

(* The service announces, host by host, what one answer of the daemon      *)
(* spells, and never a mixture of two answers.                             *)
ImplementsListing == Listing!Spec

(* Once the labels rest, what they spell is announced again and again,     *)
(* although the daemon fails at times, unless docker is switched off.      *)
LabelsAnnounced ==
  []<>(enabled = FALSE \/ Listing!Announces(mode, Filtered(entries), sent))

-----------------------------------------------------------------------------
(* Inductive strengthening, used by DockerLabelsProofs: an answer is held  *)
(* during the loop only, and a host without a route is one that no entry   *)
(* so far speaks for.                                                      *)
UnspelledHasNoRoute ==
  /\ service = "looping" <=> answer # None
  /\ service = "looping" =>
       \A h \in Hosts : host_map[h] = None <=> Listing!For(mode, answer, h, at - 1) = {}
=============================================================================
