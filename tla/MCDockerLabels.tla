--------------------------- MODULE MCDockerLabels ---------------------------
(***************************************************************************)
(* A small instance of DockerLabels: containers or services that share a   *)
(* host, lack a label, a name or an address, or are half labelled.         *)
(***************************************************************************)
EXTENDS DockerLabels, TLC

CONSTANTS h1, h2, n1, n2, ip1, ip2, p, badp, x, y

E(name, host, port, attrs, labels, nets) ==
  [name |-> name, enabled |-> TRUE, host |-> host, port |-> port,
   attrs |-> attrs, labels |-> labels, nets |-> nets]

SomeEntries ==
  {E(n1, h1, p, x, {"user", "password", "request_id"}, {ip1}),
   E(n2, h1, p, y, {"user"}, {"", ip2}),
   E(None, h1, badp, y, {}, {ip2}),
   E(n2, h2, p, x, {"provider", "client_id", "client_secret", "jwt_secret",
                    "validations"}, {""}),
   E(n1, "", p, x, {}, {ip1}),
   [E(n1, h2, p, x, {}, {ip1}) EXCEPT !.enabled = FALSE]}
=============================================================================
