------------------------- MODULE LetsEncryptProofs -------------------------
(***************************************************************************)
(* Safety of the certificate life cycle, for any domains, certificate      *)
(* files, fallback settings, validity and number of restarts.  The         *)
(* inductive invariant adds OrderJustified, which ties the order in        *)
(* progress to the loop that opened it and to what is persisted.           *)
(***************************************************************************)
EXTENDS LetsEncrypt, TLAPS

Inv == TypeOK /\ OrderJustified /\ CrashCostsOnlyDue

(* After start-up only user certificates are served. *)
LEMMA LoadedFacts ==
  ASSUME NEW readable
  PROVE  /\ Loaded(readable) \in [Domains -> Served]
         /\ \A d \in Domains : Loaded(readable)[d] \in {None, "user"}
  BY DEF Loaded, Served

LEMMA InvInit == Init => Inv
<1> SUFFICES ASSUME Init PROVE Inv
  OBVIOUS
<1>1. store \in [Domains -> Served] /\ \A d \in Domains : store[d] \in {None, "user"}
  BY LoadedFacts DEF Init
<1> QED
  BY <1>1, ConfigDomainsType, MaxRestartsType, NoneFresh
     DEF Init, Inv, TypeOK, OrderJustified, CrashCostsOnlyDue, Due, InPhase

(* The order's domain and phase, whichever action looks at them. *)
LEMMA PhaseFacts ==
  ASSUME TypeOK, NEW d, NEW p, InPhase(d, p)
  PROVE  /\ order # None /\ order \in Order
         /\ order.domain = d /\ order.phase = p /\ d \in Domains
  BY DEF TypeOK, InPhase, Order

(* Moving on to another phase keeps the order's domain. *)
LEMMA GoToFacts ==
  ASSUME TypeOK, order # None, NEW p \in Phases, GoTo(p)
  PROVE  /\ order' \in Order /\ order' # None
         /\ order'.domain = order.domain /\ order'.phase = p
<1>1. order \in Order
  BY DEF TypeOK
<1> QED
  BY <1>1, NoneFresh DEF GoTo, Order

(* Opening an order is a well-typed step of a pass. *)
LEMMA NewOrderFacts ==
  ASSUME NEW d \in Domains, NewOrder(d)
  PROVE  /\ order' \in Order /\ order' # None
         /\ order'.domain = d /\ order'.phase = "order"
  BY NoneFresh DEF NewOrder, Order, Phases

LEMMA WatchStep ==
  ASSUME Inv, NEW d \in Domains, Watch(d)
  PROVE  Inv'
<1> USE NoneFresh DEF Inv, Visits
<1>1. CASE store[d] # None /\ UNCHANGED <<store, order>>
  BY <1>1 DEF Watch, TypeOK, OrderJustified, CrashCostsOnlyDue, Due, InPhase
<1>2. CASE /\ days[d] # None
           /\ store' = [store EXCEPT ![d] = IF d \in torn THEN "broken" ELSE "acme"]
           /\ UNCHANGED order
  BY <1>2 DEF Watch, TypeOK, OrderJustified, CrashCostsOnlyDue, Served, Due, InPhase
<1>3. CASE store[d] = None /\ days[d] = None /\ NewOrder(d) /\ UNCHANGED store
  BY <1>3, NewOrderFacts DEF Watch, TypeOK, OrderJustified, CrashCostsOnlyDue, Due, InPhase
<1> QED
  BY <1>1, <1>2, <1>3 DEF Watch

LEMMA RenewStep ==
  ASSUME Inv, NEW d \in Domains, Renew(d)
  PROVE  Inv'
<1> USE NoneFresh DEF Inv, Visits
<1>1. CASE UNCHANGED order
  BY <1>1 DEF Renew, TypeOK, OrderJustified, CrashCostsOnlyDue, Due, InPhase
<1>2. CASE Due(d) /\ NewOrder(d)
  BY <1>2, NewOrderFacts DEF Renew, TypeOK, OrderJustified, CrashCostsOnlyDue, Due, InPhase
<1> QED
  BY <1>1, <1>2 DEF Renew

LEMMA OrderStep ==
  ASSUME Inv, NEW d \in Domains, OrderNext(d)
  PROVE  Inv'
<1> USE NoneFresh DEF Inv
<1>1. CASE OrderOpened(d)
  <2>1. order # None /\ order.domain = d /\ order.phase = "order"
    BY <1>1, PhaseFacts DEF OrderOpened
  <2>2. challenges' \in [Domains -> {None, "current", "stale"}]
    BY <1>1 DEF OrderOpened, TypeOK
  <2>3. /\ order' \in Order /\ order'.domain = d
        /\ order'.phase \in {"challenge", "finalize"}
    BY <1>1, <2>1, GoToFacts DEF OrderOpened, Phases
  <2> QED
    BY <1>1, <2>1, <2>2, <2>3 DEF OrderOpened, TypeOK, OrderJustified, CrashCostsOnlyDue, Due, InPhase
<1>2. CASE ChallengeSet(d)
  <2>1. order # None /\ order.domain = d /\ order.phase = "challenge"
    BY <1>2, PhaseFacts DEF ChallengeSet
  <2>2. order' \in Order /\ order'.domain = d /\ order'.phase = "validate"
    BY <1>2, <2>1, GoToFacts DEF ChallengeSet, Phases
  <2> QED
    BY <1>2, <2>1, <2>2 DEF ChallengeSet, TypeOK, OrderJustified, CrashCostsOnlyDue, Due, InPhase
<1>3. CASE Validated(d) \/ RefreshFails(d)
  <2>1. order # None /\ order.domain = d /\ order.phase = "validate"
    BY <1>3, PhaseFacts DEF Validated, RefreshFails
  <2>2. /\ order' \in Order /\ order'.domain = d
        /\ order'.phase \in {"challenge", "finalize"}
    BY <1>3, <2>1, GoToFacts DEF Validated, RefreshFails, Phases
  <2> QED
    BY <1>3, <2>1, <2>2 DEF Validated, RefreshFails, TypeOK, OrderJustified, CrashCostsOnlyDue, Due, InPhase
<1>4. CASE CertificateSaved(d)
  <2>1. order # None /\ order.domain = d /\ order.phase = "save"
    BY <1>4, PhaseFacts DEF CertificateSaved
  <2>2. order' \in Order /\ order' # None /\ order'.domain = d /\ order'.phase = "insert"
    BY <1>4, <2>1, GoToFacts DEF CertificateSaved, Phases
  <2>3. /\ days' \in [Domains -> {None} \cup 0 .. Validity] /\ days'[d] # None
        /\ \A e \in Domains \ {d} : days'[e] = days[e] /\ store'[e] = store[e]
    BY <1>4, ValidityType DEF CertificateSaved, TypeOK
  <2>4. store' \in [Domains -> Served] /\ (store[d] = None => store'[d] = None)
    <3>1. (IF store[d] = "acme" THEN "old" ELSE store[d]) \in Served
      BY DEF TypeOK, Served
    <3> QED
      BY <1>4, <3>1 DEF CertificateSaved, TypeOK
  <2>5. CrashCostsOnlyDue'
    <3>1. ASSUME NEW e \in Domains \ {d}
          PROVE  /\ store'[e] \in {"acme", "old", "broken"} => days'[e] # None
                 /\ e \in torn' => days'[e] = None \/ days'[e] \in 0 .. RenewDays
                 /\ store'[e] = "broken" => e \in torn'
      BY <1>4, <2>1, <2>3 DEF CertificateSaved, CrashCostsOnlyDue, Due, InPhase
    <3>2. d \notin torn'
      BY <1>4 DEF CertificateSaved
    <3>3. InPhase(d, "insert")'
      BY <2>2 DEF InPhase
    <3> QED
      BY <2>3, <3>1, <3>2, <3>3 DEF CrashCostsOnlyDue, Due, InPhase
  <2>6. torn' \in SUBSET Domains
    BY <1>4 DEF CertificateSaved, TypeOK
  <2> QED
    BY <1>4, <2>1, <2>2, <2>3, <2>4, <2>5, <2>6 DEF CertificateSaved, TypeOK, OrderJustified, Due
<1>5. CASE InsertCertificate(d)
  <2>1. order # None /\ order.domain = d /\ order.phase = "insert"
    BY <1>5, PhaseFacts DEF InsertCertificate
  <2>2. days[d] # None
    BY <2>1 DEF OrderJustified
  <2> QED
    BY <1>5, <2>2 DEF InsertCertificate, TypeOK, OrderJustified, CrashCostsOnlyDue, Served, Due, InPhase
<1>6. CASE OrderFails(d)
  <2>1. store' \in [Domains -> Served]
    BY <1>6 DEF OrderFails, TypeOK, Served
  <2>2. CrashCostsOnlyDue'
    BY <1>6 DEF OrderFails, TypeOK, CrashCostsOnlyDue, Due, InPhase
  <2> QED
    BY <1>6, <2>1, <2>2 DEF OrderFails, TypeOK, OrderJustified
<1>7. CASE KeySaved(d)
  <2>1. order # None /\ order.domain = d /\ order.phase = "finalize"
    BY <1>7, PhaseFacts DEF KeySaved
  <2>2. order' \in Order /\ order'.domain = d /\ order'.phase = "save"
    BY <1>7, <2>1, GoToFacts DEF KeySaved, Phases
  <2>3. days[d] = None \/ Due(d)
    BY <2>1 DEF OrderJustified
  <2>4. torn' \in SUBSET Domains /\ CrashCostsOnlyDue'
    BY <1>7, <2>1, <2>3 DEF KeySaved, TypeOK, CrashCostsOnlyDue, Due, InPhase
  <2> QED
    BY <1>7, <2>1, <2>2, <2>4 DEF KeySaved, TypeOK, OrderJustified, Due
<1> QED
  BY <1>1, <1>2, <1>3, <1>4, <1>5, <1>6, <1>7 DEF OrderNext

LEMMA InvStep == Inv /\ [Next]_vars => Inv'
<1> SUFFICES ASSUME Inv, [Next]_vars PROVE Inv'
  OBVIOUS
<1> USE NoneFresh DEF Inv
<1>1. CASE Start \/ StartFails
  BY <1>1 DEF Start, StartFails, TypeOK, OrderJustified, CrashCostsOnlyDue, Due, InPhase
<1>2. ASSUME NEW p \in {"watch", "renew"}, StartPass(p) PROVE Inv'
  BY <1>2 DEF StartPass, TypeOK, OrderJustified, CrashCostsOnlyDue, Due, InPhase
<1>3. CASE EndPass
  BY <1>3 DEF EndPass, TypeOK, OrderJustified, CrashCostsOnlyDue, Due, InPhase
<1>4. ASSUME NEW d \in Domains, PersistedUnreadable(d) PROVE Inv'
  BY <1>4 DEF PersistedUnreadable, Visits, TypeOK, OrderJustified, CrashCostsOnlyDue, Due, InPhase
<1>5. ASSUME NEW d \in Domains, RouteAdded(d) PROVE Inv'
  BY <1>5 DEF RouteAdded, TypeOK, OrderJustified, CrashCostsOnlyDue, Due, InPhase
<1>6. ASSUME NEW d \in Domains, DayPasses(d) PROVE Inv'
  <2>1. days[d] \in 1 .. Validity /\ days[d] - 1 \in 0 .. Validity
    BY <1>6, ValidityType DEF DayPasses, TypeOK
  <2>2. days' = [days EXCEPT ![d] = days[d] - 1] /\ days' \in [Domains -> {None} \cup 0 .. Validity]
    BY <1>6, <2>1 DEF DayPasses, TypeOK
  <2>3. \A e \in Domains : /\ days'[e] = None <=> days[e] = None
                           /\ Due(e) => days'[e] \in 0 .. RenewDays
    BY <2>1, <2>2, ValidityType DEF TypeOK, Due
  <2>4. TypeOK' /\ CrashCostsOnlyDue'
    BY <1>6, <2>2, <2>3 DEF DayPasses, TypeOK, CrashCostsOnlyDue, Due, InPhase
  <2>5. OrderJustified'
    BY <1>6, <2>3 DEF DayPasses, TypeOK, OrderJustified, Order, Due
  <2> QED
    BY <2>4, <2>5
<1>7. ASSUME NEW readable \in SUBSET UserCert, Restart(readable) PROVE Inv'
  <2>1. store' \in [Domains -> Served] /\ \A d \in Domains : store'[d] \in {None, "user"}
    BY <1>7, LoadedFacts DEF Restart
  <2> QED
    BY <1>7, <2>1, ConfigDomainsType, MaxRestartsType
       DEF Restart, TypeOK, OrderJustified, CrashCostsOnlyDue, Due, InPhase
<1>8. CASE CAChanges
  BY <1>8 DEF CAChanges, TypeOK, OrderJustified, CrashCostsOnlyDue, Due, InPhase
<1>9. CASE UNCHANGED vars
  BY <1>9 DEF vars, TypeOK, OrderJustified, CrashCostsOnlyDue, Due, InPhase
<1> QED
  BY <1>1, <1>2, <1>3, <1>4, <1>5, <1>6, <1>7, <1>8, <1>9, WatchStep, RenewStep, OrderStep DEF Next

LEMMA InvHolds == Spec => []Inv
  BY InvInit, InvStep, PTL DEF Spec

(* Types hold in every reachable state of the certificate life cycle. *)
THEOREM LifeCycleTypeCorrect == Spec => []TypeOK
<1>1. Inv => TypeOK
  BY DEF Inv
<1> QED
  BY <1>1, InvHolds, PTL

(* create_order_for_domain saves a certificate before it is served, and    *)
(* overwrites the key only of one that is due, so a crash or a failure     *)
(* between the two puts costs nothing that the renewal loop does not       *)
(* replace.                                                                *)
THEOREM CrashSafe == Spec => []CrashCostsOnlyDue
<1>1. Inv => CrashCostsOnlyDue
  BY DEF Inv
<1> QED
  BY <1>1, InvHolds, PTL

-----------------------------------------------------------------------------
(* handle_certificate_for_domain orders, and falls back to a self-signed   *)
(* certificate, only for a domain that is served nothing.                  *)
THEOREM NeverDowngraded == Spec => NoDowngrade
<1> DEFINE Keeps == \A d \in Domains :
               /\ store[d] \in {"user", "acme", "old"} => store'[d] \notin {"self", "broken"}
               /\ store[d] = "user" /\ store'[d] # "user" /\ restarts' = restarts =>
                    pass = "renew" /\ store'[d] = "acme"
<1>1. Inv /\ [Next]_vars => [Keeps]_vars
  <2> SUFFICES ASSUME Inv, Next PROVE Keeps
    OBVIOUS
  <2> USE NoneFresh DEF Inv
  <2>1. ASSUME NEW d \in Domains, Watch(d) PROVE Keeps
    BY <2>1 DEF Watch, TypeOK
  <2>2. ASSUME NEW d \in Domains, OrderNext(d) PROVE Keeps
    <3>1. CASE OrderFails(d)
      <4>1. order # None /\ order.domain = d
        BY <3>1 DEF OrderFails, InPhase
      <4>2. pass = "watch" => store[d] = None
        BY <4>1 DEF OrderJustified
      <4> QED
        <5>1. \A e \in Domains : store'[e] # store[e] => e = d /\ pass = "watch"
          BY <3>1 DEF OrderFails, TypeOK
        <5> QED
          BY <4>2, <5>1
    <3>2. CASE CertificateSaved(d)
      BY <3>2 DEF CertificateSaved, TypeOK
    <3>3. CASE InsertCertificate(d)
      <4>1. pass \in {"watch", "renew"} /\ (pass = "watch" => store[d] = None)
        BY <3>3 DEF InsertCertificate, InPhase, OrderJustified
      <4>2. \A e \in Domains : store'[e] = IF e = d THEN "acme" ELSE store[e]
        BY <3>3 DEF InsertCertificate, TypeOK
      <4> QED
        BY <4>1, <4>2
    <3> QED
      BY <2>2, <3>1, <3>2, <3>3 DEF OrderNext, OrderOpened, ChallengeSet, Validated, RefreshFails, KeySaved
  <2>3. ASSUME NEW readable \in SUBSET UserCert, Restart(readable) PROVE Keeps
    BY <2>3, LoadedFacts DEF Restart
  <2> QED
    BY <2>1, <2>2, <2>3 DEF Next, Start, StartFails, StartPass, EndPass, Renew,
       PersistedUnreadable, RouteAdded, DayPasses, CAChanges
<1> QED
  BY <1>1, InvHolds, PTL DEF Spec, NoDowngrade

(* Neither loop completes an order for a certificate that is good for      *)
(* longer than the renewal interval, crashes included.                     *)
THEOREM OrdersNeeded == Spec => NoNeedlessOrder
<1>1. Inv => [order # None /\ order.phase \in {"finalize", "save"} /\ order' # order =>
                days[order.domain] = None \/ Due(order.domain)]_vars
  BY DEF Inv, OrderJustified
<1> QED
  BY <1>1, InvHolds, PTL DEF Spec, NoNeedlessOrder
=============================================================================
