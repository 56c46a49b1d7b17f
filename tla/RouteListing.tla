---------------------------- MODULE RouteListing ----------------------------
(***************************************************************************)
(* What the Docker label service promises: it asks the daemon for the      *)
(* labelled containers or services, and announces at once, for every host, *)
(* the route that this answer spells (services/docker/mod.rs).             *)
(*                                                                         *)
(* DockerLabels implements this by a loop over the answer.                 *)
(***************************************************************************)
EXTENDS Naturals

CONSTANTS
  Slots,    \* number of entries the daemon may hold
  Hosts,    \* values of the label proksi.host, other than the empty one
  Names,    \* names of services
  Ips,      \* addresses of containers on their networks
  Ports,    \* values of the label proksi.port, other than the empty one
  BadPorts, \* the ones SocketAddr::from_str rejects
  Attrs,    \* path patterns, header edits and the self-signed flag
  None      \* no entry, no name, no route

(* The labels each plugin of a service is made from. *)
PluginLabels ==
  [oauth2     |-> {"provider", "client_id", "client_secret", "jwt_secret", "validations"},
   request_id |-> {"request_id"},
   basic_auth |-> {"user", "password"}]

Plugins == DOMAIN PluginLabels

(* A container or a service: its name, labels and networks ("": no address). *)
Entry == [name    : Names \cup {None},
          enabled : BOOLEAN,
          host    : Hosts \cup {""},
          port    : Ports \cup {""},
          attrs   : Attrs,
          labels  : SUBSET UNION {PluginLabels[p] : p \in Plugins},
          nets    : SUBSET (Ips \cup {""})]

Answer == [1 .. Slots -> Entry \cup {None}]

Modes == {"swarm", "container"}

VARIABLES
  mode,    \* docker.mode
  listed,  \* the answer that is being worked on, None between two
  sent     \* per host, the route announced last

vars == <<mode, listed, sent>>

-----------------------------------------------------------------------------
(***************************************************************************)
(* What an answer spells.                                                  *)
(***************************************************************************)

(* The entry names a host and a port, is enabled and, as a service, named. *)
Usable(m, e) ==
  /\ e # None
  /\ e.enabled
  /\ e.host # "" /\ e.port # ""
  /\ m = "swarm" => e.name # None

(* The first n entries of the answer that speak for host h. *)
For(m, a, h, n) == {i \in 1 .. n : Usable(m, a[i]) /\ a[i].host = h}

(* The addresses of a container that can be connected to. *)
Addresses(e) ==
  IF e.port \in BadPorts THEN {} ELSE {<<ip, e.port>> : ip \in e.nets \ {""}}

UpstreamsOf(m, e) == IF m = "swarm" THEN {<<e.name, e.port>>} ELSE Addresses(e)

PluginsOf(e) == {p \in Plugins : PluginLabels[p] \subseteq e.labels}

(***************************************************************************)
(* r is the route that the first n entries spell for h.  The first entry   *)
(* for a host gives the attributes; a service is alone behind its host,    *)
(* containers share it.                                                    *)
(***************************************************************************)
Spells(m, a, h, n, r) ==
  LET of == For(m, a, h, n)
  IN  \/ of = {} /\ r = None
      \/ \E i \in of :
           /\ \A j \in of : i <= j
           /\ r = [upstreams |-> IF m = "swarm" THEN UpstreamsOf(m, a[i])
                                 ELSE UNION {UpstreamsOf(m, a[j]) : j \in of},
                   attrs     |-> a[i].attrs,
                   plugins   |-> IF m = "swarm" THEN PluginsOf(a[i]) ELSE {}]

(* s holds the route of every host that some entry has an upstream for. *)
Announces(m, a, s) ==
  \A h \in Hosts :
    IF \E j \in For(m, a, h, Slots) : UpstreamsOf(m, a[j]) # {}
    THEN Spells(m, a, h, Slots, s[h])
    ELSE s[h] = None

-----------------------------------------------------------------------------
Init ==
  /\ mode \in Modes
  /\ listed = None
  /\ sent = [h \in Hosts |-> None]

List ==
  /\ listed = None
  /\ listed' \in Answer
  /\ UNCHANGED <<mode, sent>>

Announce ==
  /\ listed # None
  /\ listed' = None
  /\ DOMAIN sent' = Hosts
  /\ Announces(mode, listed, sent')
  /\ UNCHANGED mode

Spec == Init /\ [][List \/ Announce]_vars
=============================================================================
