---------------------------- MODULE MCRedisStore ----------------------------
(***************************************************************************)
(* Small instances of RedisStore: two replicas, one domain, and a reader   *)
(* thread in each replica or in one of them.                               *)
(***************************************************************************)
EXTENDS RedisStore, TLC

CONSTANTS p1, p2, g1, g2

OneReaderEach == (g1 :> p1) @@ (g2 :> p2)

OneReader == g1 :> p1
=============================================================================
