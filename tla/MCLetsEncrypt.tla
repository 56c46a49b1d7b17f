--------------------------- MODULE MCLetsEncrypt ---------------------------
(***************************************************************************)
(* Small instances of LetsEncrypt: d1 is routed by the configuration file  *)
(* and may name certificate files, d2 is announced later.                  *)
(***************************************************************************)
EXTENDS LetsEncrypt, TLC

CONSTANTS d1, d2

TwoDomains == {d1, d2}

D1Only == {d1}

FallbackD1 == (d1 :> "on") @@ (d2 :> "off")

=============================================================================
