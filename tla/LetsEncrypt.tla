---------------------------- MODULE LetsEncrypt ----------------------------
(***************************************************************************)
(* How a domain gets its certificate (services/letsencrypt/http01.rs) with *)
(* the in-memory store and certificates persisted in files.                *)
(*                                                                         *)
(* The service joins two endless loops, one that looks for routes without  *)
(* a certificate and one that renews persisted certificates.  Both use a   *)
(* blocking ACME client and never yield inside a pass, so a pass runs over *)
(* all routes before anything else of the background task runs; only the   *)
(* HTTP proxy's threads, the CA, time and a crash come in between.         *)
(***************************************************************************)
EXTENDS Naturals

CONSTANTS
  Domains,          \* domains that may be routed
  ConfigDomains,    \* the ones routed by the configuration file
  UserCert,         \* the ones whose route names certificate files
  SelfSigned,       \* [Domains -> {"unset", "on", "off"}]: self_signed_on_failure
  Validity,         \* days a new certificate is valid
  RenewDays,        \* DEFAULT_RENEW_INTERVAL_DAYS
  MaxRestarts,      \* bound: restarts in one behaviour
  None              \* no certificate, no order, no pass

ASSUME ConfigDomainsType == ConfigDomains \subseteq Domains

ASSUME UserCertType == UserCert \subseteq ConfigDomains

ASSUME SelfSignedType == SelfSigned \in [Domains -> {"unset", "on", "off"}]

ASSUME ValidityType == Validity \in Nat /\ RenewDays \in Nat /\ RenewDays < Validity

ASSUME MaxRestartsType == MaxRestarts \in Nat

Phases == {"order", "challenge", "validate", "finalize", "save", "insert"}

Order == [domain : Domains, phase : Phases]

ASSUME NoneFresh ==
  /\ None \notin Order
  /\ None \notin 0 .. Validity
  /\ None \notin {"watch", "renew"}
  /\ None \notin {"user", "self", "acme", "old", "broken"}
  /\ None \notin {"current", "stale"}

VARIABLES
  service,    \* start-up of the service
  routed,     \* domains in the route store
  store,      \* per domain, which certificate the certificate store serves
  challenges, \* per domain, the challenge in the store
  days,       \* per domain, the days left of the persisted certificate
  torn,       \* domains whose persisted key is of a later order than the certificate
  pass,       \* which loop is at work
  todo,       \* routes its pass has still to visit
  order,      \* the ACME order in progress
  ca,         \* environment: the CA and the domains' DNS work
  restarts    \* restarts so far

vars == <<service, routed, store, challenges, days, torn, pass, todo, order, ca, restarts>>

(***************************************************************************)
(* "old": an ACME certificate that a newer persisted one has superseded;   *)
(* "broken": an ACME certificate beside a private key that is not its own. *)
(***************************************************************************)
Served == {None, "user", "self", "acme", "old", "broken"}

(* Plausible bug: the flag is read the wrong way round. *)
SelfSignFlagInverted(d) == SelfSigned[d] # "on"

(* self_signed_on_failure.unwrap_or(false) *)
SelfSignOnFailure(d) == SelfSigned[d] = "on"

(* The HTTP proxy's request_filter, by what the request asks for. *)
HttpResponse(host, path, token) ==
  CASE host = "" -> "bad request"
    [] host # "" /\ path = "ping" -> "pong"
    [] host # "" /\ path = "challenge" ->
         IF host \in Domains /\ challenges[host] = token THEN "proof" ELSE "not found"
    [] OTHER -> "redirect"

(* The CA asks for the token of the order in progress. *)
HttpAnswers(d) == HttpResponse(d, "challenge", "current") = "proof"

(* certificate_callback: the certificate a handshake can use, if any; TLS  *)
(* does not take one whose key is of another.                              *)
CertificateCallback(host_name) ==
  IF host_name \in Domains /\ store[host_name] # "broken" THEN store[host_name] ELSE None

-----------------------------------------------------------------------------
(***************************************************************************)
(* Start-up: the routing service has added the configuration's routes and  *)
(* the certificate files that could be read.                               *)
(***************************************************************************)
Loaded(readable) == [d \in Domains |-> IF d \in readable THEN "user" ELSE None]

Start ==
  /\ service = "starting"
  /\ service' = "running"
  /\ UNCHANGED <<routed, store, challenges, days, torn, pass, todo, order, ca, restarts>>

(* expect(..) panics, and with it every background service ends. *)
StartFails ==
  /\ ~ca
  /\ service = "starting"
  /\ service' = "panicked"
  /\ UNCHANGED <<routed, store, challenges, days, torn, pass, todo, order, ca, restarts>>

-----------------------------------------------------------------------------
(***************************************************************************)
(* The two loops.                                                          *)
(***************************************************************************)
StartPass(p) ==
  /\ service = "running"
  /\ pass = None
  /\ pass' = p
  /\ todo' = routed
  /\ UNCHANGED <<service, routed, store, challenges, days, torn, order, ca, restarts>>

EndPass ==
  /\ pass # None
  /\ todo = {} /\ order = None
  /\ pass' = None
  /\ UNCHANGED <<service, routed, store, challenges, days, torn, todo, order, ca, restarts>>

Visits(p, d) ==
  /\ pass = p
  /\ order = None
  /\ d \in todo
  /\ todo' = todo \ {d}

NewOrder(d) == order' = [domain |-> d, phase |-> "order"]

(* Plausible bug: the persisted certificate is not looked for. *)
WatchAlwaysOrders(d) ==
  /\ Visits("watch", d)
  /\ \/ /\ store[d] # None
        /\ UNCHANGED <<store, order>>
     \/ /\ store[d] = None
        /\ NewOrder(d)
        /\ UNCHANGED store
  /\ UNCHANGED <<service, routed, challenges, days, torn, pass, ca, restarts>>

(***************************************************************************)
(* watch_for_route_changes and handle_certificate_for_domain.  A persisted *)
(* key and certificate are inserted together whether or not they match; a  *)
(* key without a certificate counts as nothing.                            *)
(***************************************************************************)
Watch(d) ==
  /\ Visits("watch", d)
  /\ \/ /\ store[d] # None
        /\ UNCHANGED <<store, order>>
     \/ /\ store[d] = None /\ days[d] # None
        /\ store' = [store EXCEPT ![d] = IF d \in torn THEN "broken" ELSE "acme"]
        /\ UNCHANGED order
     \/ /\ store[d] = None /\ days[d] = None
        /\ NewOrder(d)
        /\ UNCHANGED store
  /\ UNCHANGED <<service, routed, challenges, days, torn, pass, ca, restarts>>

(* Plausible bug: the last day of the renewal interval is left out. *)
DueStrictlyBelow(d) == days[d] # None /\ days[d] < RenewDays

(* There is a persisted certificate, and valid_days_left is not more than  *)
(* the renewal interval.                                                   *)
Due(d) == days[d] \in 0 .. RenewDays

(* check_for_certificates_expiration *)
Renew(d) ==
  /\ Visits("renew", d)
  /\ \/ /\ ~Due(d)
        /\ UNCHANGED order
     \/ /\ Due(d)
        /\ NewOrder(d)
  /\ UNCHANGED <<service, routed, store, challenges, days, torn, pass, ca, restarts>>

(* account.certificate returns an error: the domain is passed over. *)
PersistedUnreadable(d) ==
  /\ \/ Visits("watch", d) /\ store[d] = None
     \/ Visits("renew", d)
  /\ UNCHANGED <<service, routed, store, challenges, days, torn, pass, order, ca, restarts>>

-----------------------------------------------------------------------------
(***************************************************************************)
(* create_order_for_domain.  The CA may refuse at every step.              *)
(***************************************************************************)
InPhase(d, p) ==
  /\ order # None
  /\ order.domain = d
  /\ order.phase = p

GoTo(p) == order' = [order EXCEPT !.phase = p]

(* new_order and the first confirm_validations.  A new order has a token   *)
(* of its own, unless the CA still holds the domain for validated.         *)
OrderOpened(d) ==
  /\ InPhase(d, "order")
  /\ \/ /\ GoTo("challenge")
        /\ challenges' = [challenges EXCEPT ![d] = IF @ = None THEN None ELSE "stale"]
     \/ /\ GoTo("finalize")
        /\ UNCHANGED challenges
  /\ UNCHANGED <<service, routed, store, days, torn, pass, todo, ca, restarts>>

(* Plausible bug: a challenge already stored for the domain is kept. *)
ChallengeKept(d) ==
  /\ InPhase(d, "challenge")
  /\ challenges' = [challenges EXCEPT ![d] = IF @ = None THEN "current" ELSE @]
  /\ GoTo("validate")
  /\ UNCHANGED <<service, routed, store, days, torn, pass, todo, ca, restarts>>

(* set_challenge, before the CA is told to validate. *)
ChallengeSet(d) ==
  /\ InPhase(d, "challenge")
  /\ challenges' = [challenges EXCEPT ![d] = "current"]
  /\ GoTo("validate")
  /\ UNCHANGED <<service, routed, store, days, torn, pass, todo, ca, restarts>>

(* validate(5000) returns Ok once the CA got the right proof; the order is *)
(* refreshed, and if that fails the loop handles the challenge once more.  *)
Validated(d) ==
  /\ InPhase(d, "validate")
  /\ HttpAnswers(d)
  /\ GoTo("finalize")
  /\ UNCHANGED <<service, routed, store, challenges, days, torn, pass, todo, ca, restarts>>

RefreshFails(d) ==
  /\ ~ca
  /\ InPhase(d, "validate")
  /\ HttpAnswers(d)
  /\ GoTo("challenge")
  /\ UNCHANGED <<service, routed, store, challenges, days, torn, pass, todo, ca, restarts>>

(* finalize_pkey and download_and_save_cert, which puts the key first. *)
KeySaved(d) ==
  /\ InPhase(d, "finalize")
  /\ torn' = torn \cup {d}
  /\ GoTo("save")
  /\ UNCHANGED <<service, routed, store, challenges, days, pass, todo, ca, restarts>>

(* Plausible bug: the certificate is downloaded but not saved. *)
CertificateNotSaved(d) ==
  /\ InPhase(d, "save")
  /\ GoTo("insert")
  /\ UNCHANGED <<service, routed, store, challenges, days, torn, pass, todo, ca, restarts>>

(* Plausible bug: the day of issue is counted as one more. *)
ValidityOffByOne(d) ==
  /\ InPhase(d, "save")
  /\ days' = [days EXCEPT ![d] = Validity + 1]
  /\ torn' = torn \ {d}
  /\ store' = [store EXCEPT ![d] = IF @ = "acme" THEN "old" ELSE @]
  /\ GoTo("insert")
  /\ UNCHANGED <<service, routed, challenges, pass, todo, ca, restarts>>

(* Then the body of the CA's answer is read and the certificate put. *)
CertificateSaved(d) ==
  /\ InPhase(d, "save")
  /\ days' = [days EXCEPT ![d] = Validity]
  /\ torn' = torn \ {d}
  /\ store' = [store EXCEPT ![d] = IF @ = "acme" THEN "old" ELSE @]
  /\ GoTo("insert")
  /\ UNCHANGED <<service, routed, challenges, pass, todo, ca, restarts>>

(* insert_certificate *)
InsertCertificate(d) ==
  /\ InPhase(d, "insert")
  /\ store' = [store EXCEPT ![d] = "acme"]
  /\ order' = None
  /\ UNCHANGED <<service, routed, challenges, days, torn, pass, todo, ca, restarts>>

(* Plausible bug: a failed renewal falls back to a self-signed certificate. *)
FailedOrderSelfSigns(d) ==
  /\ ~ca
  /\ \E p \in Phases \ {"challenge", "insert"} : InPhase(d, p)
  /\ order' = None
  /\ store' = [store EXCEPT ![d] = IF SelfSignOnFailure(d) THEN "self" ELSE @]
  /\ UNCHANGED <<service, routed, challenges, days, torn, pass, todo, ca, restarts>>

(* Some call of the order returns an error.  The watch loop then makes a   *)
(* self-signed certificate if the route asks for it, the renewal loop does *)
(* nothing.                                                                *)
OrderFails(d) ==
  /\ ~ca
  /\ \E p \in Phases \ {"challenge", "insert"} : InPhase(d, p)
  /\ order' = None
  /\ store' = [store EXCEPT ![d] = IF pass = "watch" /\ SelfSignOnFailure(d)
                                   THEN "self" ELSE @]
  /\ UNCHANGED <<service, routed, challenges, days, torn, pass, todo, ca, restarts>>

-----------------------------------------------------------------------------
(***************************************************************************)
(* The rest of the world.  A route can only be added between two passes:   *)
(* the routing service shares the task that a pass blocks.                 *)
(***************************************************************************)
RouteAdded(d) ==
  /\ service # "panicked"
  /\ pass = None
  /\ d \notin routed
  /\ routed' = routed \cup {d}
  /\ UNCHANGED <<service, store, challenges, days, torn, pass, todo, order, ca, restarts>>

(* No day passes between saving a certificate and inserting it, which are  *)
(* consecutive statements.                                                 *)
DayPasses(d) ==
  /\ days[d] # None /\ days[d] > 0
  /\ ~InPhase(d, "insert")
  /\ days' = [days EXCEPT ![d] = @ - 1]
  /\ UNCHANGED <<service, routed, store, challenges, torn, pass, todo, order, ca, restarts>>

(* The CA, the network to it or the domains' DNS fail, or work again. *)
CAChanges ==
  /\ ca' = ~ca
  /\ UNCHANGED <<service, routed, store, challenges, days, torn, pass, todo, order, restarts>>

(* The process ends at any point: what was only in memory is gone, and the *)
(* two files of a domain stay as the last puts left them.                  *)
Restart(readable) ==
  /\ restarts < MaxRestarts
  /\ restarts' = restarts + 1
  /\ service' = "starting"
  /\ routed' = ConfigDomains
  /\ store' = Loaded(readable)
  /\ challenges' = [d \in Domains |-> None]
  /\ pass' = None
  /\ todo' = {}
  /\ order' = None
  /\ UNCHANGED <<days, torn, ca>>

Init ==
  /\ service = "starting"
  /\ routed = ConfigDomains
  /\ \E readable \in SUBSET UserCert : store = Loaded(readable)
  /\ challenges = [d \in Domains |-> None]
  /\ days \in [Domains -> {None} \cup 0 .. Validity]
  /\ torn = {}
  /\ pass = None
  /\ todo = {}
  /\ order = None
  /\ ca \in BOOLEAN
  /\ restarts = 0

OrderNext(d) ==
  \/ OrderOpened(d)
  \/ ChallengeSet(d)
  \/ Validated(d)
  \/ RefreshFails(d)
  \/ KeySaved(d)
  \/ CertificateSaved(d)
  \/ InsertCertificate(d)
  \/ OrderFails(d)

Next ==
  \/ Start \/ StartFails
  \/ StartPass("watch") \/ StartPass("renew") \/ EndPass
  \/ \E d \in Domains :
       \/ Watch(d) \/ Renew(d) \/ PersistedUnreadable(d)
       \/ OrderNext(d)
       \/ RouteAdded(d) \/ DayPasses(d)
  \/ CAChanges
  \/ \E readable \in SUBSET UserCert : Restart(readable)

(***************************************************************************)
(* Each loop's timer fires again and again, a pass goes on, and reading a  *)
(* persisted certificate does not fail for ever.  Every call to the CA     *)
(* returns, but it may refuse.  RefreshFails keeps an order going round,   *)
(* so an order's end, good or bad, is strongly fair.                       *)
(***************************************************************************)
Fairness ==
  /\ WF_vars(Start)
  /\ SF_vars(StartPass("watch")) /\ SF_vars(StartPass("renew"))
  /\ WF_vars(EndPass \/ \E d \in Domains : OrderNext(d))
  /\ SF_vars(\E d \in Domains : Validated(d) \/ OrderFails(d))
  /\ \A d \in Domains : SF_vars(Watch(d)) /\ SF_vars(Renew(d))

Spec == Init /\ [][Next]_vars /\ Fairness

-----------------------------------------------------------------------------
(***************************************************************************)
(* Properties.                                                             *)
(***************************************************************************)

(* Every variable stays in its type. *)
TypeOK ==
  /\ service \in {"starting", "running", "panicked"}
  /\ routed \in SUBSET Domains
  /\ store \in [Domains -> Served]
  /\ challenges \in [Domains -> {None, "current", "stale"}]
  /\ days \in [Domains -> {None} \cup 0 .. Validity]
  /\ torn \in SUBSET Domains
  /\ pass \in {None, "watch", "renew"}
  /\ todo \in SUBSET Domains
  /\ order \in Order \cup {None}
  /\ ca \in BOOLEAN
  /\ restarts \in 0 .. MaxRestarts

(* A crash, or a failure, at any point of an order costs at most the key   *)
(* of a certificate that was due for renewal: what is served of the CA has *)
(* been persisted, and a certificate beside a key that is not its own, on  *)
(* disk or served, is one that the renewal loop is about to replace.       *)
CrashCostsOnlyDue ==
  \A d \in Domains :
    /\ store[d] \in {"acme", "old", "broken"} => days[d] # None
    /\ d \in torn => days[d] = None \/ Due(d)
    /\ store[d] = "broken" => d \in torn \/ InPhase(d, "insert")

(* A certificate from the user or the CA is never displaced by a           *)
(* self-signed one or by a half-saved pair: not by a failing renewal, nor  *)
(* by the watch loop.  While a process runs, one from the user's files     *)
(* only gives way to a renewal (of a certificate persisted under an        *)
(* earlier configuration).                                                 *)
NoDowngrade ==
  [][\A d \in Domains :
       /\ store[d] \in {"user", "acme", "old"} => store'[d] \notin {"self", "broken"}
       /\ store[d] = "user" /\ store'[d] # "user" /\ restarts' = restarts =>
            pass = "renew" /\ store'[d] = "acme"]_vars

(* The CA is never asked for a certificate while a persisted one is good   *)
(* for longer than the renewal interval, even after a crash between saving *)
(* it and serving it.                                                      *)
NoNeedlessOrder ==
  [][order # None /\ order.phase \in {"finalize", "save"} /\ order' # order =>
       days[order.domain] = None \/ Due(order.domain)]_vars

(* A route that asks for the self-signed fallback comes to be served with  *)
(* some certificate even if the CA refuses every order, persisted ones are *)
(* unreadable at times and other domains' orders fail.  Two things give it *)
(* up: the panic of start_service, and a half-saved pair, in whose place   *)
(* no self-signed certificate is made.                                     *)
FallbackServes ==
  \A d \in Domains : SelfSigned[d] = "on" =>
    []<>(\/ service = "panicked"
         \/ store[d] = "broken"
         \/ d \in routed => CertificateCallback(d) # None)

(* Once the CA works, every route comes to be served, although orders have *)
(* failed, left challenges behind or were cut off by a crash, between the  *)
(* puts of key and certificate too.                                        *)
RoutesGetCertificates ==
  <>[]ca => \A d \in Domains :
    []<>(service = "panicked" \/ (d \in routed => CertificateCallback(d) # None))

(* Once the CA works, a persisted certificate that runs out, or lost its   *)
(* key, is renewed, and what is served is what is persisted.               *)
CertificatesRenewed ==
  <>[]ca => \A d \in Domains :
    []<>(service = "panicked" \/
           (d \in routed /\ store[d] \in {"acme", "old", "broken"} =>
              store[d] = "acme" /\ days[d] > RenewDays /\ d \notin torn))

-----------------------------------------------------------------------------
(* Inductive strengthenings, used by LetsEncryptProofs. *)

(* An order about to be inserted has been saved; the watch loop only has   *)
(* orders for domains that are served nothing and have nothing persisted,  *)
(* the renewal loop only for certificates that are due.                    *)
OrderJustified ==
  order # None =>
    LET d == order.domain
    IN  /\ pass \in {"watch", "renew"}
        /\ order.phase = "insert" => days[d] # None
        /\ order.phase # "insert" => days[d] = None \/ Due(d)
        /\ pass = "watch" => store[d] = None
        /\ pass = "watch" /\ order.phase # "insert" => days[d] = None
=============================================================================
