------------------------- MODULE MCRequestPipeline -------------------------
(***************************************************************************)
(* A small instance of RequestPipeline: one host whose route is replaced.  *)
(* The one route is cached, and its requests get ids; the other asks a     *)
(* provider and has two upstreams, which share an address.  Each lets      *)
(* another path through.                                                   *)
(***************************************************************************)
EXTENDS RequestPipeline

CONSTANTS old, new, u1, u2, u3, a1, a2, p1, p2, h1, r1, r2

MCPluginsOf == [route \in {old, new} |->
  IF route = old THEN {"request_id", "basic_auth"} ELSE {"oauth2", "basic_auth"}]

MCUpstreamsOf == [route \in {old, new} |-> IF route = old THEN {u1} ELSE {u2, u3}]

MCMayResolve == [u \in {u1, u2, u3} |-> IF u = u1 THEN {a1} ELSE {a2}]

MCPathsOf == [route \in {old, new} |-> IF route = old THEN {p1} ELSE {p2}]
=============================================================================
