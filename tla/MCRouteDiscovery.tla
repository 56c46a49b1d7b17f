-------------------------- MODULE MCRouteDiscovery --------------------------
(***************************************************************************)
(* Small instances of RouteDiscovery.  h1 has a configuration route whose  *)
(* name may move from one address to another; h1 and h2 can both be        *)
(* announced by Docker.                                                    *)
(***************************************************************************)
EXTENDS RouteDiscovery, TLC

CONSTANTS h1, h2, n1, n2, a1, a2, a3, plain, bad

TwoHosts == {h1, h2}

TwoNames == {n1, n2}

ThreeAddrs == {a1, a2, a3}

OneNameEach == (h1 :> {n1}) @@ (h2 :> {n2})

(* n1 moves between two addresses, n2 sometimes fails to resolve. *)
MovingDns == (n1 :> {{a1}, {a2}}) @@ (n2 :> {{a3}, {}})

(* n1 loses an address or fails, n2 is steady. *)
FailingDns == (n1 :> {{a1, a2}, {a2}, {}}) @@ (n2 :> {{a3}})

(* The backends all run, or the first of them does not. *)
OneMayBeDown == {ThreeAddrs, ThreeAddrs \ {a1}}

ConfigForH1 == << [host |-> h1, upstreams |-> {n1}, attrs |-> plain] >>
=============================================================================
