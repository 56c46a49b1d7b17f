------------------------------ MODULE Exchange ------------------------------
(***************************************************************************)
(* What the proxy promises for a request, whichever callbacks it is made   *)
(* of: the route is the host's at the moment the request arrives and is    *)
(* never looked up again; each of its plugins runs once, before anything   *)
(* is sent; what is sent goes to one of its upstreams with that one's      *)
(* headers; and there is one answer at most, after which nothing more      *)
(* happens.                                                                *)
(* RequestPipeline implements it.                                          *)
(***************************************************************************)
CONSTANTS Hosts, Routes, PluginsOf, UpstreamsOf, MayResolve, Cached, Requests, Ids, None

VARIABLES
  store,    \* per host, its route
  exchange  \* per request in progress, what has happened

vars == <<store, exchange>>

New(route) == [route |-> route, ran |-> {}, id |-> 0, sent |-> None, answer |-> None]

Answer(status, headers, id) == [status |-> status, headers |-> headers, id |-> id]

Goes(r, e) == exchange' = [exchange EXCEPT ![r] = e] /\ UNCHANGED store

Open(r) == exchange[r] # None /\ exchange[r].answer = None

(* Every plugin of the route has run. *)
Checked(r) == Open(r) /\ exchange[r].ran = PluginsOf[exchange[r].route]

Init ==
  /\ store \in [Hosts -> Routes \cup {None}]
  /\ exchange = [r \in Requests |-> None]

Begin(r) ==
  /\ exchange[r] = None
  /\ \/ \E h \in Hosts : store[h] # None /\ Goes(r, New(store[h]))
     \/ Goes(r, [New(None) EXCEPT !.answer = Answer("404", None, 0)])

(* Plugins run in any order, while nothing has been sent. *)
MayRun(r, name) ==
  /\ Open(r) /\ exchange[r].sent = None
  /\ name \in PluginsOf[exchange[r].route] \ exchange[r].ran

Ran(r, name) == [exchange[r] EXCEPT !.ran = @ \cup {name}]

(* The request gets an id that no other has. *)
Identify(r) ==
  /\ MayRun(r, "request_id")
  /\ \E i \in Ids \ {0} :
       /\ \A q \in Requests : exchange[q] # None => exchange[q].id # i
       /\ Goes(r, [Ran(r, "request_id") EXCEPT !.id = i])

Pass(r, name) ==
  /\ MayRun(r, name) /\ name # "request_id"
  /\ Goes(r, Ran(r, name))

Refuse(r, name) ==
  /\ MayRun(r, name) /\ name # "request_id"
  /\ Goes(r, [Ran(r, name) EXCEPT !.answer = Answer("plugin", None, 0)])

IdOf(r) == IF "request_id" \in PluginsOf[exchange[r].route] THEN exchange[r].id ELSE 0

(* One attempt; a later one replaces it. *)
Send(r) ==
  /\ Checked(r)
  /\ \E u \in UpstreamsOf[exchange[r].route] : \E a \in MayResolve[u] :
       Goes(r, [exchange[r] EXCEPT !.sent = [peer |-> a, headers |-> u, id |-> IdOf(r)]])

(* From the cache, before or after the upstream was asked about it, from   *)
(* the upstream that was sent to, or an error.  What is cached has the id  *)
(* of another request.                                                     *)
Reply(r) ==
  /\ Checked(r)
  /\ \/ /\ exchange[r].route \in Cached
        /\ \E i \in Ids :
             /\ exchange[r].id # 0 => i # exchange[r].id
             /\ Goes(r, [exchange[r] EXCEPT !.answer =
                  Answer(IF exchange[r].sent = None THEN "hit" ELSE "revalidated",
                         exchange[r].route, i)])
     \/ /\ exchange[r].sent # None
        /\ Goes(r, [exchange[r] EXCEPT !.answer = Answer("ok", exchange[r].route, exchange[r].sent.id)])
     \/ Goes(r, [exchange[r] EXCEPT !.answer = Answer("error", None, 0)])

(* The request is gone without an answer. *)
Abort(r) ==
  /\ Checked(r)
  /\ Goes(r, None)

End(r) ==
  /\ exchange[r] # None /\ exchange[r].answer # None
  /\ Goes(r, None)

(* The host gets another route; no request in progress notices. *)
Replace(h) ==
  /\ \E route \in Routes : store' = [store EXCEPT ![h] = route]
  /\ UNCHANGED exchange

Next ==
  \/ \E r \in Requests :
       \/ Begin(r) \/ Identify(r) \/ Send(r) \/ Reply(r) \/ Abort(r) \/ End(r)
       \/ \E name \in UNION {PluginsOf[route] : route \in Routes} : Pass(r, name) \/ Refuse(r, name)
  \/ \E h \in Hosts : Replace(h)

Spec == Init /\ [][Next]_vars
=============================================================================
