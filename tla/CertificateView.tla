-------------------------- MODULE CertificateView --------------------------
(***************************************************************************)
(* What the Store trait (stores/store_trait.rs) promises its users when    *)
(* several replicas share one backing store: a replica sees, for each key, *)
(* nothing or some value that really was written to the shared store, and  *)
(* once it sees a value it goes on seeing one until the process restarts.  *)
(* It does not promise that the value is the latest.                       *)
(***************************************************************************)

CONSTANTS
  Replicas,  \* proksi processes
  Keys,      \* certificate and challenge keys
  Versions,  \* values a key may be given
  Missing    \* no value

VARIABLES
  written,   \* per key, every value the shared store has ever held
  view       \* per replica and key, what a get answers without asking Redis

vars == <<written, view>>

Init ==
  /\ written = [k \in Keys |-> {}]
  /\ view = [r \in Replicas |-> [k \in Keys |-> Missing]]

(* Some replica's set reaches the shared store. *)
Write(k, v) ==
  /\ written' = [written EXCEPT ![k] = @ \cup {v}]
  /\ UNCHANGED view

(* A replica comes to see a value of the shared store. *)
Learn(r, k, v) ==
  /\ v \in written[k]
  /\ view' = [view EXCEPT ![r][k] = v]
  /\ UNCHANGED written

(* The process restarts. *)
Forget(r) ==
  /\ view' = [view EXCEPT ![r] = [k \in Keys |-> Missing]]
  /\ UNCHANGED written

Next ==
  \/ \E k \in Keys, v \in Versions : Write(k, v)
  \/ \E r \in Replicas, k \in Keys, v \in Versions : Learn(r, k, v)
  \/ \E r \in Replicas : Forget(r)

Spec == Init /\ [][Next]_vars
=============================================================================
