------------------------------ MODULE LineLog ------------------------------
(***************************************************************************)
(* What the log promises to whoever logs a line: no buffer, no channel, no *)
(* file and no rotation, only lines that are numbered as they are sent and *)
(* that are, each once, either written or, when there was trouble, lost.   *)
(* LogWriter implements it.                                                *)
(***************************************************************************)
EXTENDS Naturals, Sequences

VARIABLES
  sent,     \* how many lines were sent
  written,  \* the numbers of the lines written, in the order they were
  lost,     \* the numbers of the lines that will never be
  trouble   \* some output failed, or the process died

vars == <<sent, written, lost, trouble>>

Settled == {written[i] : i \in 1 .. Len(written)} \cup lost

Pending == (1 .. sent) \ Settled

Init ==
  /\ sent = 0
  /\ written = <<>>
  /\ lost = {}
  /\ trouble = FALSE

(* A line is sent.  The log's own complaint about a failure is one too.    *)
Submit ==
  /\ sent' = sent + 1
  /\ trouble => trouble'
  /\ UNCHANGED <<written, lost>>

(* What was written stays as it is, and what comes after it is the pending *)
(* lines in their order: none is written before an earlier one is settled. *)
WrittenOn ==
  /\ Len(written') >= Len(written)
  /\ \A i \in 1 .. Len(written) : written'[i] = written[i]
  /\ \A i \in Len(written) + 1 .. Len(written') :
       /\ written'[i] \in Pending
       /\ \A j \in 1 .. i - 1 : written'[j] < written'[i]
       /\ 1 .. written'[i] \subseteq Settled'

(* Pending lines are written, or lost when there was trouble. *)
Settle ==
  /\ WrittenOn
  /\ lost \subseteq lost'
  /\ lost' \ lost \subseteq Pending \ {written'[i] : i \in 1 .. Len(written')}
  /\ lost' # lost => trouble'
  /\ trouble => trouble'
  /\ UNCHANGED sent

Next == Submit \/ Settle

Spec == Init /\ [][Next]_vars
=============================================================================
