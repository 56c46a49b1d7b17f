---------------------------- MODULE MCDiskCache ----------------------------
(***************************************************************************)
(* Small instances of DiskCache: two assets, two requests at a time.       *)
(***************************************************************************)
EXTENDS DiskCache, TLC

CONSTANTS k1, k2, r1, r2

Interchangeable == Permutations({r1, r2}) \cup Permutations({k1, k2})
=============================================================================
