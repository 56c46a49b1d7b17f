--------------------------- MODULE ServedAssets ---------------------------
(***************************************************************************)
(* What the disk cache promises to the clients it answers: no memory, no   *)
(* metadata, no expiry and no requests to the upstream, only what is       *)
(* stored of each asset, growing at its end, and streams that are sent it  *)
(* from the beginning.  DiskCache implements it.                           *)
(***************************************************************************)
EXTENDS Naturals, Sequences

CONSTANTS Keys, Requests, Chunk, None

VARIABLES
  exists, \* assets with a file, which may hold nothing yet
  file,   \* per asset, the chunks stored
  stream  \* per request that is answered from the cache, what it was sent

vars == <<exists, file, stream>>

Init ==
  /\ exists = {}
  /\ file = [k \in Keys |-> <<>>]
  /\ stream = [r \in Requests |-> None]

Create(k) ==
  /\ exists' = exists \cup {k}
  /\ UNCHANGED <<file, stream>>

(* A chunk is stored with its own asset and once, after whatever else is   *)
(* stored there.  Parts of an answer may be missing, or come out of order. *)
Store(c) ==
  /\ c.key \in exists
  /\ \A i \in 1 .. Len(file[c.key]) : file[c.key][i] # c
  /\ file' = [file EXCEPT ![c.key] = Append(@, c)]
  /\ UNCHANGED <<exists, stream>>

(* Only an asset that has a file is served. *)
Open(r, k) ==
  /\ stream[r] = None
  /\ k \in exists
  /\ stream' = [stream EXCEPT ![r] = [key |-> k, sent |-> <<>>]]
  /\ UNCHANGED <<exists, file>>

(* The next chunk of the asset, whichever that is by now. *)
Deliver(r) ==
  /\ stream[r] # None
  /\ LET k == stream[r].key
         s == stream[r].sent
     IN  /\ Len(s) < Len(file[k])
         /\ stream' = [stream EXCEPT ![r] =
              [key |-> k, sent |-> Append(s, file[k][Len(s) + 1])]]
  /\ UNCHANGED <<exists, file>>

(* Streams end: one of them, or all when the process does. *)
Close(S) ==
  /\ stream' = [r \in Requests |-> IF r \in S THEN None ELSE stream[r]]
  /\ UNCHANGED <<exists, file>>

Next ==
  \/ \E k \in Keys : Create(k)
  \/ \E c \in Chunk : Store(c)
  \/ \E r \in Requests : Deliver(r) \/ \E k \in Keys : Open(r, k)
  \/ \E S \in SUBSET Requests : Close(S)

Spec == Init /\ [][Next]_vars
=============================================================================
