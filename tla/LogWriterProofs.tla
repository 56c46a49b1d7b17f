-------------------------- MODULE LogWriterProofs --------------------------
(***************************************************************************)
(* Proofs about LogWriter, for every period, buffer capacity and number of *)
(* lines.                                                                  *)
(***************************************************************************)
EXTENDS LogWriter, SequenceTheorems, TLAPS

Record == [n : Nat \ {0}, to : Destination]

-----------------------------------------------------------------------------
(***************************************************************************)
(* Arithmetic of periods.                                                  *)
(***************************************************************************)

(* Euclidean division. *)
LEMMA DivMod ==
  ASSUME NEW a \in Int, NEW p \in Nat \ {0}
  PROVE  /\ a \div p \in Int
         /\ a % p \in 0 .. p - 1
         /\ a = p * (a \div p) + (a % p)
  BY Z3

(* A remainder below the divisor is the remainder. *)
LEMMA ModUnique ==
  ASSUME NEW p \in Nat \ {0}, NEW q \in Int, NEW r \in 0 .. p - 1
  PROVE  (p * q + r) % p = r
  BY Z3T(30)

(* Multiples of p lie p apart. *)
LEMMA MultiplesApart ==
  ASSUME NEW p \in Nat \ {0}, NEW a \in Int, NEW b \in Int, a < b
  PROVE  p * a + p <= p * b
  BY Z3T(30)

(* RoundDate gives the last start of a period: what round_date is for. *)
LEMMA RoundDateIsLastStart ==
  ASSUME NEW t \in Nat
  PROVE  /\ RoundDate(t) \in 0 .. t
         /\ RoundDate(t) % Period = 0
         /\ \A d \in 0 .. t : d % Period = 0 => d <= RoundDate(t)
<1> DEFINE q == t \div Period
<1> DEFINE r == t % Period
<1>1. q \in Int /\ r \in 0 .. Period - 1 /\ t = Period * q + r /\ RoundDate(t) = t - r
  BY DivMod, ClockType DEF RoundDate
<1> HIDE DEF q, r
<1>2. Period * q \in Int /\ RoundDate(t) = Period * q
  BY <1>1, ClockType, Z3
<1>3. (Period * q + 0) % Period = 0
  BY <1>1, ModUnique, ClockType
<1>4. RoundDate(t) >= 0
  <2> SUFFICES ASSUME q < 0 PROVE FALSE
    BY <1>1, <1>2, ClockType, Z3
  <2>1. Period * q + Period <= Period * 0
    BY <1>1, MultiplesApart, ClockType
  <2> QED BY <2>1, <1>1, <1>2, ClockType, Z3
<1>5. ASSUME NEW d \in 0 .. t, d % Period = 0 PROVE d <= RoundDate(t)
  <2> DEFINE k == d \div Period
  <2>1. k \in Int /\ d = Period * k + 0
    BY <1>5, DivMod, ClockType
  <2> HIDE DEF k
  <2>2. CASE k <= q
    <3>1. k = q \/ Period * k + Period <= Period * q
      BY <2>1, <2>2, <1>1, MultiplesApart, ClockType
    <3> QED BY <3>1, <2>1, <1>1, <1>2, ClockType, Z3
  <2>3. CASE q < k
    <3>1. Period * q + Period <= Period * k
      BY <2>1, <2>3, <1>1, MultiplesApart, ClockType
    <3> QED BY <3>1, <2>1, <1>1, <1>2, ClockType, Z3
  <2> QED BY <2>2, <2>3, <2>1, <1>1
<1> QED BY <1>1, <1>2, <1>3, <1>4, <1>5, Z3

(* The next date is the start of the period after. *)
LEMMA NextDateIsNextStart ==
  ASSUME NEW d \in Nat
  PROVE  NextDate(d) = RoundDate(d) + Period
<1> DEFINE q == d \div Period
<1> DEFINE r == d % Period
<1>1. q \in Int /\ r \in 0 .. Period - 1 /\ d = Period * q + r /\ RoundDate(d) = d - r
  BY DivMod, ClockType DEF RoundDate
<1>2. NextDate(d) = d + Period - ((d + Period) % Period)
  BY ClockType DEF NextDate, RoundDate
<1> HIDE DEF q, r
<1>3. q + 1 \in Int /\ Period * (q + 1) + r = d + Period
  BY <1>1, ClockType, Z3T(30)
<1>4. (Period * (q + 1) + r) % Period = r
  BY <1>1, <1>3, ModUnique, ClockType
<1> QED BY <1>1, <1>2, <1>3, <1>4, ClockType

-----------------------------------------------------------------------------
(***************************************************************************)
(* What a hand-over does to the history of lines written.                  *)
(***************************************************************************)

(* The first k of b's lines are appended to out. *)
OutGrowsTo(b, k) ==
  /\ out' \in Seq(Record)
  /\ Len(out') = Len(out) + k
  /\ \A i \in 1 .. Len(out) : out'[i] = out[i]
  /\ \A i \in Len(out) + 1 .. Len(out') :
       out'[i] = [n |-> b[i - Len(out)].n, to |-> writer]

OutGrowsBy(b) == \E k \in 0 .. Len(b) : OutGrowsTo(b, k)

LEMMA WrittenAppends ==
  ASSUME TypeOK, NEW b \in Seq(Line), NEW k \in 0 .. Len(b), out' = Written(SubSeq(b, 1, k))
  PROVE  OutGrowsTo(b, k)
<1> DEFINE c == SubSeq(b, 1, k)
<1> DEFINE w == [i \in 1 .. Len(c) |-> [n |-> c[i].n, to |-> writer]]
<1>1. c \in Seq(Line) /\ Len(c) = k /\ \A i \in 1 .. k : c[i] = b[i]
  OBVIOUS
<1> HIDE DEF c
<1>2. w \in Seq(Record) /\ Len(w) = k /\ \A i \in 1 .. k : w[i] = [n |-> b[i].n, to |-> writer]
  <2>1. \A i \in 1 .. k : w[i] = [n |-> b[i].n, to |-> writer] /\ w[i] \in Record
    <3> SUFFICES ASSUME NEW i \in 1 .. k
                 PROVE  w[i] = [n |-> b[i].n, to |-> writer] /\ w[i] \in Record
      OBVIOUS
    <3>1. b[i] \in Line /\ writer \in Destination
      BY DEF TypeOK
    <3>2. [n |-> b[i].n, to |-> writer] \in Record
      BY <3>1 DEF Line, Record
    <3> QED BY <1>1, <3>2
  <2>2. w = [i \in 1 .. k |-> w[i]]
    BY <1>1
  <2> QED BY <2>1, <2>2, <1>1
<1> HIDE DEF w
<1>3. out \in Seq(Record) /\ out' = out \o w
  BY DEF TypeOK, Record, Written, w, c
<1>4. /\ out' \in Seq(Record)
      /\ Len(out') = Len(out) + k
      /\ \A i \in 1 .. Len(out) : out'[i] = out[i]
      /\ \A i \in Len(out) + 1 .. Len(out') : out'[i] = w[i - Len(out)]
  <2>1. w \in Seq(Record) /\ Len(w) = k
    BY <1>2
  <2>2. /\ out \o w \in Seq(Record)
        /\ Len(out \o w) = Len(out) + Len(w)
        /\ \A i \in 1 .. Len(out) + Len(w) :
             (out \o w)[i] = IF i <= Len(out) THEN out[i] ELSE w[i - Len(out)]
    BY <2>1, <1>3, ConcatProperties
  <2>3. Len(out) \in Nat
    BY <1>3
  <2>4. out' \in Seq(Record) /\ Len(out') = Len(out) + k
    BY <2>1, <2>2, <1>3, Zenon
  <2>5. \A i \in 1 .. Len(out) + k :
          out'[i] = IF i <= Len(out) THEN out[i] ELSE w[i - Len(out)]
    BY <2>1, <2>2, <1>3, Zenon
  <2>6. k \in Nat
    OBVIOUS
  <2>7. ASSUME NEW i \in 1 .. Len(out) PROVE out'[i] = out[i]
    <3>1. i \in 1 .. Len(out) + k /\ i <= Len(out)
      BY <2>3, <2>6
    <3> QED BY <3>1, <2>5, Zenon
  <2>8. ASSUME NEW i \in Len(out) + 1 .. Len(out') PROVE out'[i] = w[i - Len(out)]
    <3>1. i \in 1 .. Len(out) + k /\ ~(i <= Len(out))
      BY <2>3, <2>4, <2>6
    <3> QED BY <3>1, <2>5, Zenon
  <2> QED BY <2>4, <2>7, <2>8
<1>5. \A i \in Len(out) + 1 .. Len(out') : i - Len(out) \in 1 .. k
  BY <1>3, <1>4
<1> QED BY <1>2, <1>4, <1>5 DEF OutGrowsTo

LEMMA HandOverGrows ==
  ASSUME TypeOK, NEW b \in Seq(Line), HandOver(b)
  PROVE  OutGrowsBy(b)
<1>1. CASE out' = Written(b)
  <2>1. SubSeq(b, 1, Len(b)) = b /\ Len(b) \in 0 .. Len(b)
    OBVIOUS
  <2> QED BY <1>1, <2>1, WrittenAppends DEF OutGrowsBy
<1>2. CASE \E k \in 0 .. Len(b) - 1 : out' = Written(SubSeq(b, 1, k))
  <2>1. PICK k \in 0 .. Len(b) - 1 : out' = Written(SubSeq(b, 1, k))
    BY <1>2
  <2>2. k \in 0 .. Len(b)
    OBVIOUS
  <2> QED BY <2>1, <2>2, WrittenAppends DEF OutGrowsBy
<1> QED BY <1>1, <1>2 DEF HandOver

(* Nothing is handed over. *)
LEMMA NothingGrows ==
  ASSUME TypeOK, UNCHANGED out, NEW b \in Seq(Line)
  PROVE  OutGrowsBy(b)
<1>1. 0 \in 0 .. Len(b) /\ out \in Seq(Record)
  BY DEF TypeOK, Record
<1> QED BY <1>1 DEF OutGrowsBy, OutGrowsTo

(* The numbers of lines that a buffer holds. *)
LEMMA NumbersType ==
  ASSUME NEW b \in Seq(Line)
  PROVE  Numbers(b) \subseteq Nat \ {0}
<1>1. \A i \in 1 .. Len(b) : b[i] \in Line
  OBVIOUS
<1> QED BY <1>1 DEF Numbers, Line

(* The first line of the channel and what is left without it. *)
LEMMA HeadAndTail ==
  ASSUME NEW s \in Seq(Line), s # <<>>
  PROVE  /\ Head(s) \in Line /\ Head(s) = s[1] /\ 1 \in 1 .. Len(s)
         /\ Tail(s) \in Seq(Line)
         /\ Len(Tail(s)) = Len(s) - 1
         /\ \A i \in 1 .. Len(s) - 1 : Tail(s)[i] = s[i + 1] /\ i + 1 \in 1 .. Len(s)
<1>1. Len(s) \in Nat /\ Len(s) > 0
  OBVIOUS
<1>2. Head(s) = s[1] /\ 1 \in 1 .. Len(s) /\ s[1] \in Line
  BY <1>1
<1>3. Tail(s) \in Seq(Line) /\ Len(Tail(s)) = Len(s) - 1
  BY <1>1
<1>4. \A i \in 1 .. Len(s) - 1 : Tail(s)[i] = s[i + 1] /\ i + 1 \in 1 .. Len(s)
  BY <1>1
<1> QED BY <1>2, <1>3, <1>4

-----------------------------------------------------------------------------
(***************************************************************************)
(* Type correctness.                                                       *)
(***************************************************************************)

LEMMA SendType ==
  ASSUME TypeOK, NEW e, NEW size \in Sizes, Send(e, size)
  PROVE  chan' \in Seq(Line) /\ sent' \in Nat
<1>1. CASE SkipLog(e)
  BY <1>1 DEF TypeOK, Send
<1>2. CASE ~SkipLog(e)
  <2>1. sent' = sent + 1 /\ chan' = Append(chan, [n |-> sent', size |-> size])
    BY <1>2 DEF Send
  <2>2. sent' \in Nat \ {0}
    BY <2>1 DEF TypeOK
  <2>3. [n |-> sent', size |-> size] \in Line
    BY <2>2 DEF Line
  <2> QED BY <2>1, <2>2, <2>3 DEF TypeOK
<1> QED BY <1>1, <1>2

LEMMA HandOverType ==
  ASSUME TypeOK, NEW b \in Seq(Line), HandOver(b)
  PROVE  out' \in Seq(Record) /\ lost' \in SUBSET (Nat \ {0}) /\ trouble' \in BOOLEAN
<1>1. out' \in Seq(Record)
  BY HandOverGrows DEF OutGrowsBy, OutGrowsTo
<1>2. \A k \in 0 .. Len(b) - 1 : Numbers(SubSeq(b, k + 1, Len(b))) \subseteq Nat \ {0}
  <2> TAKE k \in 0 .. Len(b) - 1
  <2>1. SubSeq(b, k + 1, Len(b)) \in Seq(Line)
    OBVIOUS
  <2> QED BY <2>1, NumbersType
<1>3. lost' \in SUBSET (Nat \ {0})
  BY <1>2 DEF HandOver, TypeOK
<1>4. trouble' \in BOOLEAN
  BY DEF HandOver, TypeOK
<1> QED BY <1>1, <1>3, <1>4

LEMMA WriteType ==
  ASSUME TypeOK, NEW line \in Line, BufWrite(line)
  PROVE  /\ buf' \in Seq(Line) /\ buffered' \in Nat /\ out' \in Seq(Record)
         /\ lost' \in SUBSET (Nat \ {0}) /\ trouble' \in BOOLEAN
<1>1. line.n \in Nat \ {0} /\ line.size \in Nat
  BY BufferType DEF Line
<1>2. /\ <<line>> \in Seq(Line) /\ Append(buf, line) \in Seq(Line) /\ buf \in Seq(Line)
      /\ <<>> \in Seq(Line) /\ buffered \in Nat /\ out \in Seq(Record)
      /\ lost \in SUBSET (Nat \ {0}) /\ trouble \in BOOLEAN
  BY DEF TypeOK, Record
<1>3. CASE WriteBuffered(line)
  BY <1>1, <1>2, <1>3 DEF WriteBuffered
<1>4. CASE WriteDirect(line)
  BY <1>2, <1>4, HandOverType DEF WriteDirect
<1>5. CASE WriteAfterFlush(line)
  <2>1. HandOver(buf) \/ HandOver(Append(buf, line))
    BY <1>5 DEF WriteAfterFlush
  <2>2. \/ buf' = <<line>> /\ buffered' = line.size
        \/ buf' = <<>> /\ buffered' = 0
    BY <1>5 DEF WriteAfterFlush
  <2>3. buf' \in Seq(Line)
    BY <1>2, <2>2
  <2>4. buffered' \in Nat
    BY <1>1, <2>2
  <2> QED BY <1>2, <2>1, <2>3, <2>4, HandOverType
<1>6. CASE WriteFails(line)
  BY <1>1, <1>2, <1>6 DEF WriteFails
<1> QED BY <1>3, <1>4, <1>5, <1>6 DEF BufWrite

LEMMA FileBufWriterType ==
  ASSUME TypeOK, NEW d \in Nat, FileBufWriter(d)
  PROVE  /\ writer' \in Destination /\ buf' \in Seq(Line) /\ buffered' \in Nat
         /\ next_date' \in Nat /\ chan' \in Seq(Line) /\ sent' \in Nat
         /\ lost' \in SUBSET (Nat \ {0}) /\ trouble' \in BOOLEAN
<1>1. RoundDate(d) \in Nat
  BY RoundDateIsLastStart
<1>2. NextDate(d) \in Nat
  BY <1>1, NextDateIsNextStart, ClockType
<1>3. FileFor(d) \in Destination
  BY <1>1 DEF FileFor, Destination
<1>4. CASE writer' = FileFor(d)
           /\ buf' = <<>> /\ buffered' = 0 /\ lost' = lost \cup Numbers(buf)
           /\ next_date' = (IF Rotating THEN NextDate(d) ELSE next_date)
           /\ UNCHANGED <<chan, sent, trouble>>
  <2>1. Numbers(buf) \subseteq Nat \ {0}
    BY NumbersType DEF TypeOK
  <2>2. lost' \in SUBSET (Nat \ {0}) /\ trouble' \in BOOLEAN
    BY <1>4, <2>1, Zenon DEF TypeOK
  <2>3. buf' \in Seq(Line) /\ chan' \in Seq(Line)
    BY <1>4 DEF TypeOK
  <2> QED BY <1>2, <1>3, <1>4, <2>2, <2>3 DEF TypeOK
<1>5. CASE Complain /\ trouble' = TRUE /\ UNCHANGED <<writer, buf, buffered, next_date, lost>>
  <2>1. chan' \in Seq(Line) /\ sent' \in Nat
    BY <1>5, SendType DEF Complain
  <2> QED BY <1>5, <2>1 DEF TypeOK
<1> QED BY <1>4, <1>5 DEF FileBufWriter

LEMMA InitType == Init => TypeOK
<1> SUFFICES ASSUME Init PROVE TypeOK
  OBVIOUS
<1>1. <<>> \in Seq(Line) /\ <<>> \in Seq(Record)
  OBVIOUS
<1>2. Stdout \in Destination
  BY DEF Stdout, Destination
<1>3. {} \in SUBSET (Nat \ {0}) /\ FALSE \in BOOLEAN
  OBVIOUS
<1> QED BY <1>1, <1>2, <1>3, ClockType DEF Init, TypeOK, Record

LEMMA StepType == TypeOK /\ [Next]_vars => TypeOK'
<1> SUFFICES ASSUME TypeOK, [Next]_vars PROVE TypeOK'
  OBVIOUS
<1>1. ASSUME NEW e \in Event, Log(e), UNCHANGED logging PROVE TypeOK'
  <2>1. chan' \in Seq(Line) /\ sent' \in Nat
    BY <1>1, SendType DEF Log
  <2> QED BY <1>1, <2>1 DEF Log, TypeOK
<1>2. CASE PrepareBufWriter /\ UNCHANGED logging
  <2>1. CASE logging.path /\ FileBufWriter(clock)
    BY <1>2, <2>1, FileBufWriterType DEF PrepareBufWriter, TypeOK
  <2>2. CASE ~logging.path
    BY <1>2, <2>2 DEF PrepareBufWriter, TypeOK
  <2> QED BY <1>2, <2>1, <2>2 DEF PrepareBufWriter
<1>3. CASE Recv /\ UNCHANGED logging
  <2>1. Head(chan) \in Line /\ Tail(chan) \in Seq(Line)
    BY <1>3, HeadAndTail DEF Recv, TypeOK
  <2>2. /\ buf' \in Seq(Line) /\ buffered' \in Nat /\ out' \in Seq(Record)
        /\ lost' \in SUBSET (Nat \ {0}) /\ trouble' \in BOOLEAN
    BY <1>3, <2>1, WriteType DEF Recv
  <2> QED BY <1>3, <2>1, <2>2 DEF Recv, TypeOK, Record
<1>4. CASE NoRollover /\ UNCHANGED logging
  BY <1>4 DEF NoRollover, TypeOK
<1>5. CASE Flush /\ UNCHANGED logging
  <2>1. CASE HandOver(buf) /\ buf' = <<>> /\ buffered' = 0
    <3>1. out' \in Seq(Record) /\ lost' \in SUBSET (Nat \ {0}) /\ trouble' \in BOOLEAN
      BY <2>1, HandOverType DEF TypeOK
    <3> QED BY <1>5, <2>1, <3>1 DEF Flush, TypeOK, Record
  <2>2. CASE trouble' = TRUE /\ UNCHANGED <<buf, buffered, out, lost>>
    BY <1>5, <2>2 DEF Flush, TypeOK
  <2> QED BY <1>5, <2>1, <2>2 DEF Flush
<1>6. CASE Rollover /\ UNCHANGED logging
  <2>1. next_date \in Nat /\ FileBufWriter(next_date)
    BY <1>6 DEF Rollover, TypeOK
  <2> QED BY <1>6, <2>1, FileBufWriterType DEF Rollover, TypeOK
<1>7. CASE Tick /\ UNCHANGED logging
  BY <1>7 DEF Tick, TypeOK
<1>8. CASE Restart /\ UNCHANGED logging
  <2>1. Numbers(chan) \subseteq Nat \ {0} /\ Numbers(buf) \subseteq Nat \ {0}
    BY NumbersType DEF TypeOK
  <2>2. lost' \in SUBSET (Nat \ {0}) /\ trouble' \in BOOLEAN
    BY <1>8, <2>1, Zenon DEF TypeOK, Restart
  <2>3. <<>> \in Seq(Line) /\ Stdout \in Destination
    BY DEF Stdout, Destination
  <2> QED BY <1>8, <2>2, <2>3 DEF Restart, TypeOK
<1>9. CASE UNCHANGED vars
  BY <1>9 DEF vars, TypeOK
<1> QED BY <1>1, <1>2, <1>3, <1>4, <1>5, <1>6, <1>7, <1>8, <1>9 DEF Next, Service

(* Every reachable state of the log writer is well typed: dates never go   *)
(* below zero, and only numbered lines are queued, buffered and written.   *)
THEOREM LogTypeCorrect == Spec => []TypeOK
<1>1. Init => TypeOK
  BY InitType
<1>2. TypeOK /\ [Next]_vars => TypeOK'
  BY StepType
<1> QED BY <1>1, <1>2, PTL DEF Spec

-----------------------------------------------------------------------------
(***************************************************************************)
(* Order.                                                                  *)
(***************************************************************************)
Order == LinesInOrder /\ QueuesInOrder

(* Appending lines that follow keeps out in order, and adds only them. *)
LEMMA GrowsInOrder ==
  ASSUME TypeOK, LinesInOrder, NEW b \in Seq(Line), Increasing(b), Before(out, b), OutGrowsBy(b)
  PROVE  /\ Increasing(out')
         /\ \A i \in 1 .. Len(out') : \/ \E j \in 1 .. Len(out) : out'[i].n = out[j].n
                                      \/ \E j \in 1 .. Len(b) : out'[i].n = b[j].n
<1>1. PICK k \in 0 .. Len(b) :
        /\ Len(out') = Len(out) + k
        /\ \A i \in 1 .. Len(out) : out'[i] = out[i]
        /\ \A i \in Len(out) + 1 .. Len(out') :
             out'[i] = [n |-> b[i - Len(out)].n, to |-> writer]
  BY DEF OutGrowsBy, OutGrowsTo
<1>2. Len(out) \in Nat /\ Len(b) \in Nat /\ k \in Nat /\ k <= Len(b)
  BY DEF TypeOK
<1>3. \A i \in 1 .. Len(out) + k :
        \/ i \in 1 .. Len(out) /\ out'[i].n = out[i].n
        \/ i > Len(out) /\ i - Len(out) \in 1 .. Len(b) /\ out'[i].n = b[i - Len(out)].n
  <2> TAKE i \in 1 .. Len(out) + k
  <2>1. CASE i <= Len(out)
    <3>1. i \in 1 .. Len(out)
      BY <2>1, <1>2
    <3> QED BY <3>1, <1>1
  <2>2. CASE ~(i <= Len(out))
    <3>1. i > Len(out) /\ i - Len(out) \in 1 .. Len(b) /\ i \in Len(out) + 1 .. Len(out')
      BY <2>2, <1>1, <1>2
    <3>2. out'[i] = [n |-> b[i - Len(out)].n, to |-> writer]
      BY <3>1, <1>1, Zenon
    <3>3. out'[i].n = b[i - Len(out)].n
      BY <3>2
    <3> QED BY <3>1, <3>3
  <2> QED BY <2>1, <2>2
<1>4. /\ \A i, j \in 1 .. Len(out) : i < j => out[i].n < out[j].n
      /\ \A i, j \in 1 .. Len(b) : i < j => b[i].n < b[j].n
      /\ \A i \in 1 .. Len(out), j \in 1 .. Len(b) : out[i].n < b[j].n
  BY DEF LinesInOrder, Increasing, Before
<1>5. \A i, j \in 1 .. Len(out') : i < j => out'[i].n < out'[j].n
  <2> SUFFICES ASSUME NEW i \in 1 .. Len(out) + k, NEW j \in 1 .. Len(out) + k, i < j
               PROVE  out'[i].n < out'[j].n
    BY <1>1
  <2> HIDE <1>1
  <2>1. CASE j \in 1 .. Len(out)
    <3>1. i \in 1 .. Len(out)
      BY <2>1, <1>2
    <3> QED BY <3>1, <2>1, <1>2, <1>3, <1>4
  <2>2. CASE j > Len(out) /\ i > Len(out)
    <3>1. i - Len(out) \in 1 .. Len(b) /\ j - Len(out) \in 1 .. Len(b)
          /\ out'[i].n = b[i - Len(out)].n /\ out'[j].n = b[j - Len(out)].n
      BY <2>2, <1>2, <1>3
    <3>2. i - Len(out) < j - Len(out)
      BY <1>2
    <3> QED BY <3>1, <3>2, <1>4
  <2>3. CASE j > Len(out) /\ i \in 1 .. Len(out)
    <3>1. j - Len(out) \in 1 .. Len(b) /\ out'[j].n = b[j - Len(out)].n /\ out'[i].n = out[i].n
      BY <2>3, <1>2, <1>3
    <3> QED BY <3>1, <2>3, <1>4
  <2> QED BY <2>1, <2>2, <2>3, <1>2
<1> QED BY <1>1, <1>3, <1>5 DEF Increasing

(* The numbers of lines are naturals. *)
LEMMA LineNumbers ==
  ASSUME TypeOK
  PROVE  /\ \A i \in 1 .. Len(out) : out[i].n \in Nat
         /\ \A i \in 1 .. Len(buf) : buf[i].n \in Nat
         /\ \A i \in 1 .. Len(chan) : chan[i].n \in Nat
         /\ sent \in Nat
<1>1. out \in Seq(Record) /\ buf \in Seq(Line) /\ chan \in Seq(Line) /\ sent \in Nat
  BY DEF TypeOK, Record
<1>2. \A i \in 1 .. Len(out) : out[i] \in Record
  BY <1>1
<1>3. \A i \in 1 .. Len(buf) : buf[i] \in Line
  BY <1>1
<1>4. \A i \in 1 .. Len(chan) : chan[i] \in Line
  BY <1>1
<1>5. \A i \in 1 .. Len(out) : out[i].n \in Nat
  BY <1>2 DEF Record
<1> QED BY <1>1, <1>3, <1>4, <1>5 DEF Line

LEMMA SendKeepsOrder ==
  ASSUME TypeOK, Order, NEW e, NEW size \in Sizes, Send(e, size)
  PROVE  /\ sent' >= sent
         /\ Increasing(chan') /\ Before(out, chan') /\ Before(buf, chan') /\ AtMost(chan', sent')
<1>1. CASE SkipLog(e)
  BY <1>1 DEF Send, Order, QueuesInOrder, TypeOK
<1>2. CASE ~SkipLog(e)
  <2> DEFINE line == [n |-> sent', size |-> size]
  <2>1. sent' = sent + 1 /\ chan' = Append(chan, line) /\ line.n = sent + 1
    BY <1>2 DEF Send
  <2>2. sent \in Nat /\ chan \in Seq(Line) /\ Len(chan) \in Nat
    BY DEF TypeOK
  <2>3. line \in Line
    BY <2>1, <2>2 DEF Line
  <2> HIDE DEF line
  <2>4. /\ Len(chan') = Len(chan) + 1
        /\ \A i \in 1 .. Len(chan) : chan'[i] = chan[i]
        /\ chan'[Len(chan) + 1] = line
    BY <2>1, <2>2, <2>3
  <2>5. /\ \A i \in 1 .. Len(out) : out[i].n <= sent /\ out[i].n \in Nat
        /\ \A i \in 1 .. Len(buf) : buf[i].n <= sent /\ buf[i].n \in Nat
        /\ \A i \in 1 .. Len(chan) : chan[i].n <= sent /\ chan[i].n \in Nat
    BY LineNumbers DEF Order, QueuesInOrder, AtMost
  <2>6. Increasing(chan')
    BY <2>1, <2>2, <2>4, <2>5 DEF Order, QueuesInOrder, Increasing
  <2>7. Before(out, chan') /\ Before(buf, chan')
    BY <2>1, <2>2, <2>4, <2>5 DEF Order, QueuesInOrder, Before
  <2>8. AtMost(chan', sent')
    BY <2>1, <2>2, <2>4, <2>5 DEF AtMost
  <2> QED BY <2>1, <2>2, <2>6, <2>7, <2>8
<1> QED BY <1>1, <1>2

(* A line put behind a buffer it follows. *)
LEMMA AppendInOrder ==
  ASSUME NEW b \in Seq(Line), NEW line \in Line, Increasing(b),
         \A i \in 1 .. Len(b) : b[i].n < line.n
  PROVE  /\ Append(b, line) \in Seq(Line)
         /\ Increasing(Append(b, line))
         /\ \A i \in 1 .. Len(Append(b, line)) :
              Append(b, line)[i].n = line.n \/ \E j \in 1 .. Len(b) : Append(b, line)[i].n = b[j].n
<1> DEFINE c == Append(b, line)
<1>1. /\ c \in Seq(Line) /\ Len(b) \in Nat /\ Len(c) = Len(b) + 1
      /\ \A i \in 1 .. Len(b) : c[i] = b[i]
      /\ c[Len(b) + 1] = line
  OBVIOUS
<1> HIDE DEF c
<1>2. Increasing(c)
  BY <1>1 DEF Increasing
<1>3. \A i \in 1 .. Len(c) : c[i].n = line.n \/ \E j \in 1 .. Len(b) : c[i].n = b[j].n
  BY <1>1
<1> QED BY <1>1, <1>2, <1>3 DEF c

LEMMA RecvKeepsOrder ==
  ASSUME TypeOK, Order, Recv
  PROVE  Order'
<1> DEFINE line == Head(chan)
<1>1. line \in Line /\ line = chan[1] /\ 1 \in 1 .. Len(chan) /\ Len(chan) \in Nat
  BY HeadAndTail DEF TypeOK, Recv
<1>2. /\ chan' \in Seq(Line) /\ Len(chan') = Len(chan) - 1
      /\ \A i \in 1 .. Len(chan') : chan'[i] = chan[i + 1] /\ i + 1 \in 1 .. Len(chan)
  BY HeadAndTail DEF TypeOK, Recv
<1>3. BufWrite(line) /\ sent' = sent
  BY DEF Recv
<1> HIDE DEF line
<1>4. /\ \A i \in 1 .. Len(out) : out[i].n < line.n
      /\ \A i \in 1 .. Len(buf) : buf[i].n < line.n
      /\ line.n <= sent /\ line.n \in Nat
  BY <1>1, LineNumbers DEF Order, QueuesInOrder, Before, AtMost
<1>5. /\ Increasing(chan') /\ AtMost(chan', sent')
      /\ \A j \in 1 .. Len(chan') : line.n < chan'[j].n /\ chan'[j].n \in Nat
  <2>1. \A i, j \in 1 .. Len(chan) : i < j => chan[i].n < chan[j].n
    BY DEF Order, QueuesInOrder, Increasing
  <2>2. \A i \in 1 .. Len(chan) : chan[i].n <= sent /\ chan[i].n \in Nat
    BY LineNumbers DEF Order, QueuesInOrder, AtMost
  <2>3. ASSUME NEW i \in 1 .. Len(chan'), NEW j \in 1 .. Len(chan'), i < j
        PROVE  chan'[i].n < chan'[j].n
    <3>1. /\ i + 1 \in 1 .. Len(chan) /\ j + 1 \in 1 .. Len(chan)
          /\ chan'[i] = chan[i + 1] /\ chan'[j] = chan[j + 1]
      BY <1>2
    <3>2. i + 1 < j + 1
      BY <2>3, <1>1, <1>2
    <3> QED BY <3>1, <3>2, <2>1
  <2>4. ASSUME NEW j \in 1 .. Len(chan')
        PROVE  line.n < chan'[j].n /\ chan'[j].n \in Nat /\ chan'[j].n <= sent
    <3>1. 1 < j + 1 /\ j + 1 \in 1 .. Len(chan) /\ chan'[j] = chan[j + 1]
      BY <1>1, <1>2
    <3> QED BY <3>1, <2>1, <2>2, <1>1
  <2> QED BY <2>3, <2>4, <1>3 DEF Increasing, AtMost
<1>6. /\ Increasing(out) /\ Increasing(buf) /\ Before(out, buf)
      /\ buf \in Seq(Line) /\ Len(buf) \in Nat /\ buffered \in Nat
      /\ buf # <<>> => buffered > 0
      /\ AtMost(out, sent) /\ AtMost(buf, sent)
  BY DEF Order, LinesInOrder, QueuesInOrder, TypeOK
(* It is enough that what is written and buffered afterwards is in order   *)
(* and ends with the line received.                                        *)
<1>7. SUFFICES /\ Increasing(out') /\ Increasing(buf') /\ Before(out', buf')
               /\ buf' # <<>> => buffered' > 0
               /\ \A i \in 1 .. Len(out') : out'[i].n <= line.n /\ out'[i].n \in Nat
               /\ \A i \in 1 .. Len(buf') : buf'[i].n <= line.n /\ buf'[i].n \in Nat
  <2>1. sent \in Nat
    BY DEF TypeOK
  <2>2. Before(out', chan') /\ Before(buf', chan')
    BY <1>4, <1>5, <1>7 DEF Before
  <2>3. AtMost(out', sent') /\ AtMost(buf', sent')
    BY <1>3, <1>4, <1>7, <2>1 DEF AtMost
  <2> QED BY <1>5, <1>7, <2>2, <2>3 DEF Order, LinesInOrder, QueuesInOrder
<1>8. /\ \A i \in 1 .. Len(out) : out[i].n <= line.n /\ out[i].n \in Nat
      /\ \A i \in 1 .. Len(buf) : buf[i].n <= line.n /\ buf[i].n \in Nat
  BY <1>4, LineNumbers
<1>9. CASE WriteBuffered(line)
  <2>1. buf' = Append(buf, line) /\ buffered' = buffered + line.size /\ out' = out
    BY <1>9 DEF WriteBuffered
  <2>2. line.size \in Nat \ {0}
    BY <1>1, BufferType DEF Line
  <2>3. /\ Increasing(buf')
        /\ \A i \in 1 .. Len(buf') : buf'[i].n = line.n \/ \E j \in 1 .. Len(buf) : buf'[i].n = buf[j].n
    BY <2>1, <1>1, <1>4, <1>6, AppendInOrder
  <2>4. \A i \in 1 .. Len(buf') : buf'[i].n <= line.n /\ buf'[i].n \in Nat
    BY <2>3, <1>4, <1>8
  <2>5. Before(out', buf')
    BY <2>1, <2>3, <1>4, <1>6 DEF Before
  <2>6. buffered' > 0
    BY <2>1, <2>2, <1>6
  <2> QED BY <2>1, <2>3, <2>4, <2>5, <2>6, <1>6, <1>8
<1>10. CASE WriteDirect(line)
  <2>1. buf' = buf /\ buffered' = buffered /\ HandOver(<<line>>)
    BY <1>10 DEF WriteDirect
  <2>2. buf = <<>>
    <3>1. buffered + line.size <= Capacity /\ line.size >= Capacity
      BY <1>10 DEF WriteDirect, Fits
    <3>2. line.size \in Nat /\ Capacity \in Nat
      BY <1>1, BufferType DEF Line, Capacity
    <3> QED BY <3>1, <3>2, <1>6
  <2>3. <<line>> \in Seq(Line) /\ Len(<<line>>) = 1 /\ <<line>>[1] = line
    BY <1>1
  <2>4. Increasing(<<line>>) /\ Before(out, <<line>>)
    BY <2>3, <1>4 DEF Increasing, Before
  <2>5. /\ Increasing(out')
        /\ \A i \in 1 .. Len(out') : \/ \E j \in 1 .. Len(out) : out'[i].n = out[j].n
                                     \/ \E j \in 1 .. Len(<<line>>) : out'[i].n = <<line>>[j].n
    BY <2>1, <2>3, <2>4, HandOverGrows, GrowsInOrder DEF Order
  <2>6. \A i \in 1 .. Len(out') : out'[i].n <= line.n /\ out'[i].n \in Nat
    BY <2>3, <2>5, <1>4, <1>8
  <2>7. Before(out', buf')
    BY <2>1, <2>2 DEF Before
  <2> QED BY <2>1, <2>5, <2>6, <2>7, <1>6, <1>8
<1>11. CASE WriteAfterFlush(line)
  <2>1. CASE HandOver(buf) /\ buf' = <<line>> /\ buffered' = line.size
    <3>1. /\ Increasing(out')
          /\ \A i \in 1 .. Len(out') : \/ \E j \in 1 .. Len(out) : out'[i].n = out[j].n
                                       \/ \E j \in 1 .. Len(buf) : out'[i].n = buf[j].n
      BY <2>1, <1>6, HandOverGrows, GrowsInOrder DEF Order
    <3>2. \A i \in 1 .. Len(out') : out'[i].n < line.n /\ out'[i].n \in Nat
      BY <3>1, <1>4, <1>8
    <3>3. buf' = <<line>> /\ Len(buf') = 1 /\ buf'[1] = line
      BY <2>1, <1>1
    <3>4. Increasing(buf') /\ Before(out', buf')
      BY <3>2, <3>3 DEF Increasing, Before
    <3>5. buffered' > 0
      <4>1. line.size \in Nat \ {0}
        BY <1>1, BufferType DEF Line
      <4> QED BY <2>1, <4>1
    <3>6. \A i \in 1 .. Len(buf') : buf'[i].n <= line.n /\ buf'[i].n \in Nat
      BY <3>3, <1>4
    <3> QED BY <3>1, <3>2, <3>4, <3>5, <3>6, <1>4
  <2>2. CASE HandOver(Append(buf, line)) /\ buf' = <<>>
    <3> DEFINE b == Append(buf, line)
    <3>1. /\ b \in Seq(Line) /\ Increasing(b)
          /\ \A i \in 1 .. Len(b) : b[i].n = line.n \/ \E j \in 1 .. Len(buf) : b[i].n = buf[j].n
      BY <1>1, <1>4, <1>6, AppendInOrder
    <3> HIDE DEF b
    <3>2. Before(out, b)
      BY <3>1, <1>4, <1>6 DEF Before
    <3>3. HandOver(b)
      BY <2>2 DEF b
    <3>4. /\ Increasing(out')
          /\ \A i \in 1 .. Len(out') : \/ \E j \in 1 .. Len(out) : out'[i].n = out[j].n
                                       \/ \E j \in 1 .. Len(b) : out'[i].n = b[j].n
      BY <3>1, <3>2, <3>3, HandOverGrows, GrowsInOrder DEF Order
    <3>5. \A j \in 1 .. Len(b) : b[j].n <= line.n /\ b[j].n \in Nat
      <4> TAKE j \in 1 .. Len(b)
      <4>1. CASE b[j].n = line.n
        BY <4>1, <1>4
      <4>2. CASE \E i \in 1 .. Len(buf) : b[j].n = buf[i].n
        BY <4>2, <1>8
      <4> QED BY <4>1, <4>2, <3>1
    <3>6. \A i \in 1 .. Len(out') : out'[i].n <= line.n /\ out'[i].n \in Nat
      BY <3>4, <3>5, <1>8
    <3>7. Increasing(buf') /\ Before(out', buf') /\ Len(buf') = 0
      BY <2>2 DEF Increasing, Before
    <3> QED BY <2>2, <3>4, <3>6, <3>7
  <2> QED BY <1>11, <2>1, <2>2 DEF WriteAfterFlush
<1>12. CASE WriteFails(line)
  <2>1. buf' = buf /\ buffered' = buffered /\ out' = out
    BY <1>12 DEF WriteFails
  <2> QED BY <2>1, <1>6, <1>8
<1> QED BY <1>3, <1>9, <1>10, <1>11, <1>12 DEF BufWrite

LEMMA FileBufWriterKeepsOrder ==
  ASSUME TypeOK, Order, NEW d, FileBufWriter(d), UNCHANGED out
  PROVE  Order'
<1>1. CASE buf' = <<>> /\ UNCHANGED <<chan, sent>>
  <2>1. Len(buf') = 0 /\ chan' = chan /\ sent' = sent /\ out' = out
    BY <1>1
  <2>2. Increasing(buf') /\ Before(out', buf') /\ Before(buf', chan') /\ AtMost(buf', sent')
    BY <2>1 DEF Increasing, Before, AtMost
  <2>3. Increasing(out') /\ Increasing(chan') /\ Before(out', chan') /\ AtMost(out', sent') /\ AtMost(chan', sent')
    BY <2>1 DEF Order, LinesInOrder, QueuesInOrder
  <2> QED BY <1>1, <2>2, <2>3 DEF Order, LinesInOrder, QueuesInOrder
<1>2. CASE Complain /\ UNCHANGED <<buf, buffered>>
  <2>1. PICK size \in Sizes : Send([error |-> TRUE, access |-> FALSE], size)
    BY <1>2 DEF Complain
  <2>2. /\ sent' >= sent /\ sent' \in Nat
        /\ Increasing(chan') /\ Before(out, chan') /\ Before(buf, chan') /\ AtMost(chan', sent')
    BY <2>1, SendKeepsOrder, SendType
  <2>3. AtMost(out, sent') /\ AtMost(buf, sent')
    BY <2>2, LineNumbers DEF Order, QueuesInOrder, AtMost
  <2>4. out' = out /\ buf' = buf /\ buffered' = buffered
    BY <1>2
  <2> QED BY <2>2, <2>3, <2>4 DEF Order, LinesInOrder, QueuesInOrder
<1> QED BY <1>1, <1>2 DEF FileBufWriter

LEMMA StepOrder == TypeOK /\ Order /\ [Next]_vars => Order'
<1> SUFFICES ASSUME TypeOK, Order, [Next]_vars PROVE Order'
  OBVIOUS
<1>1. ASSUME NEW e \in Event, Log(e) PROVE Order'
  <2>1. PICK size \in Sizes : Send(e, size)
    BY <1>1 DEF Log
  <2>2. /\ sent' >= sent /\ sent' \in Nat
        /\ Increasing(chan') /\ Before(out, chan') /\ Before(buf, chan') /\ AtMost(chan', sent')
    BY <2>1, SendKeepsOrder, SendType
  <2>3. AtMost(out, sent') /\ AtMost(buf, sent')
    BY <2>2, LineNumbers DEF Order, QueuesInOrder, AtMost
  <2>4. out' = out /\ buf' = buf /\ buffered' = buffered
    BY <1>1 DEF Log
  <2> QED BY <2>2, <2>3, <2>4 DEF Order, LinesInOrder, QueuesInOrder
<1>2. CASE PrepareBufWriter
  <2>1. CASE FileBufWriter(clock)
    BY <1>2, <2>1, FileBufWriterKeepsOrder DEF PrepareBufWriter
  <2>2. CASE UNCHANGED <<writer, buf, buffered, next_date, lost, chan, sent, trouble>>
    BY <1>2, <2>2 DEF PrepareBufWriter, Order, LinesInOrder, QueuesInOrder
  <2> QED BY <1>2, <2>1, <2>2 DEF PrepareBufWriter
<1>3. CASE Recv
  BY <1>3, RecvKeepsOrder
<1>4. CASE NoRollover
  BY <1>4 DEF NoRollover, Order, LinesInOrder, QueuesInOrder
<1>5. CASE Flush
  <2>1. CASE HandOver(buf) /\ buf' = <<>>
    <3>1. buf \in Seq(Line) /\ Increasing(buf) /\ Before(out, buf)
      BY DEF TypeOK, Order, QueuesInOrder
    <3>2. /\ Increasing(out')
          /\ \A i \in 1 .. Len(out') : \/ \E j \in 1 .. Len(out) : out'[i].n = out[j].n
                                       \/ \E j \in 1 .. Len(buf) : out'[i].n = buf[j].n
      BY <2>1, <3>1, HandOverGrows, GrowsInOrder DEF Order
    <3>3. chan' = chan /\ sent' = sent /\ Len(buf') = 0
      BY <1>5, <2>1 DEF Flush
    <3>4. Before(out, chan) /\ Before(buf, chan) /\ AtMost(out, sent) /\ AtMost(buf, sent)
          /\ Increasing(chan) /\ AtMost(chan, sent)
      BY DEF Order, QueuesInOrder
    <3>5. Before(out', chan') /\ AtMost(out', sent')
      BY <3>2, <3>3, <3>4 DEF Before, AtMost
    <3>6. Increasing(buf') /\ Before(out', buf') /\ Before(buf', chan') /\ AtMost(buf', sent')
      BY <3>3 DEF Increasing, Before, AtMost
    <3> QED BY <2>1, <3>2, <3>3, <3>4, <3>5, <3>6 DEF Order, LinesInOrder, QueuesInOrder
  <2>2. CASE UNCHANGED <<buf, buffered, out, lost>>
    BY <1>5, <2>2 DEF Flush, Order, LinesInOrder, QueuesInOrder
  <2> QED BY <1>5, <2>1, <2>2 DEF Flush
<1>6. CASE Rollover
  BY <1>6, FileBufWriterKeepsOrder DEF Rollover
<1>7. CASE Tick
  BY <1>7 DEF Tick, Order, LinesInOrder, QueuesInOrder
<1>8. CASE Restart
  <2>1. Len(buf') = 0 /\ Len(chan') = 0 /\ buf' = <<>> /\ out' = out /\ sent' = sent
    BY <1>8 DEF Restart
  <2>2. /\ Increasing(buf') /\ Increasing(chan') /\ Before(out', buf') /\ Before(out', chan')
        /\ Before(buf', chan') /\ AtMost(buf', sent') /\ AtMost(chan', sent')
    BY <2>1 DEF Increasing, Before, AtMost
  <2> QED BY <2>1, <2>2 DEF Order, LinesInOrder, QueuesInOrder
<1>9. CASE UNCHANGED vars
  BY <1>9 DEF vars, Order, LinesInOrder, QueuesInOrder
<1> QED BY <1>1, <1>2, <1>3, <1>4, <1>5, <1>6, <1>7, <1>8, <1>9 DEF Next, Service

LEMMA OrderAlways == Spec => []Order
<1>1. Init => Order
  BY DEF Init, Order, LinesInOrder, QueuesInOrder, Increasing, Before, AtMost
<1>2. TypeOK /\ Order /\ [Next]_vars => Order'
  BY StepOrder
<1> QED BY <1>1, <1>2, LogTypeCorrect, PTL DEF Spec

(* Lines come out in the order they entered the channel, each at most      *)
(* once, for every number of lines, buffer capacity and period, whatever   *)
(* outputs fail and however often the process restarts.                    *)
THEOREM LinesComeOutInOrder == Spec => []LinesInOrder
<1>1. Order => LinesInOrder
  BY DEF Order
<1> QED BY <1>1, OrderAlways, PTL

-----------------------------------------------------------------------------
(***************************************************************************)
(* Nothing dropped.                                                        *)
(***************************************************************************)
Kept == NothingDropped /\ LostIsGone /\ EmptyWhenReplaced

LEMMA NoNumbers == ASSUME NEW b, b = <<>> PROVE Numbers(b) = {}
  BY DEF Numbers

LEMMA NumbersOfOne == ASSUME NEW line PROVE Numbers(<<line>>) = {line.n}
<1>1. Len(<<line>>) = 1 /\ <<line>>[1] = line
  OBVIOUS
<1> QED BY <1>1 DEF Numbers

LEMMA NumbersAppend ==
  ASSUME NEW b \in Seq(Line), NEW line \in Line
  PROVE  Numbers(Append(b, line)) = Numbers(b) \cup {line.n}
<1> DEFINE c == Append(b, line)
<1>1. /\ Len(b) \in Nat /\ Len(c) = Len(b) + 1
      /\ \A i \in 1 .. Len(b) : c[i] = b[i]
      /\ c[Len(b) + 1] = line
  OBVIOUS
<1> HIDE DEF c
<1>2. Numbers(c) = Numbers(b) \cup {line.n}
  BY <1>1 DEF Numbers
<1> QED BY <1>2 DEF c

LEMMA NumbersHeadTail ==
  ASSUME NEW s \in Seq(Line), s # <<>>
  PROVE  Numbers(s) = {Head(s).n} \cup Numbers(Tail(s))
<1> DEFINE t == Tail(s)
<1>1. /\ Head(s) = s[1] /\ 1 \in 1 .. Len(s) /\ Len(t) = Len(s) - 1 /\ Len(s) \in Nat
      /\ \A i \in 1 .. Len(s) - 1 : t[i] = s[i + 1] /\ i + 1 \in 1 .. Len(s)
  BY HeadAndTail
<1> HIDE DEF t
<1>2. ASSUME NEW i \in 1 .. Len(s) PROVE s[i].n \in {Head(s).n} \cup Numbers(t)
  <2>1. CASE i = 1
    BY <2>1, <1>1
  <2>2. CASE i # 1
    <3>1. i - 1 \in 1 .. Len(t) /\ i - 1 \in 1 .. Len(s) - 1 /\ (i - 1) + 1 = i
      BY <2>2, <1>1
    <3>2. t[i - 1] = s[i]
      BY <3>1, <1>1
    <3> QED BY <3>1, <3>2 DEF Numbers
  <2> QED BY <2>1, <2>2
<1>3. Numbers(t) \subseteq Numbers(s)
  BY <1>1 DEF Numbers
<1>4. Head(s).n \in Numbers(s)
  BY <1>1 DEF Numbers
<1>5. Numbers(s) \subseteq {Head(s).n} \cup Numbers(t)
  BY <1>2 DEF Numbers
<1> QED BY <1>3, <1>4, <1>5 DEF t

(* What is written, buffered and queued is three sets of lines. *)
LEMMA NumbersApart ==
  ASSUME TypeOK, Order
  PROVE  /\ Numbers(out) \cap Numbers(buf) = {}
         /\ Numbers(out) \cap Numbers(chan) = {}
         /\ Numbers(buf) \cap Numbers(chan) = {}
<1>1. Before(out, buf) /\ Before(out, chan) /\ Before(buf, chan)
  BY DEF Order, QueuesInOrder
<1> QED BY <1>1, LineNumbers DEF Before, Numbers

(* Of the lines handed over, the first ones are written and the others,    *)
(* if there are any, are lost.                                             *)
LEMMA HandOverSplits ==
  ASSUME TypeOK, NEW b \in Seq(Line), Increasing(b), HandOver(b)
  PROVE  \E w, g : /\ w \cup g = Numbers(b) /\ w \cap g = {}
                   /\ Numbers(out') = Numbers(out) \cup w
                   /\ lost' = lost \cup g
                   /\ (g = {} /\ trouble' = trouble) \/ trouble' = TRUE
<1>1. \A i \in 1 .. Len(b) : b[i].n \in Nat
  <2>1. \A i \in 1 .. Len(b) : b[i] \in Line
    OBVIOUS
  <2> QED BY <2>1 DEF Line
<1>2. ASSUME NEW k \in 0 .. Len(b), out' = Written(SubSeq(b, 1, k))
      PROVE  Numbers(out') = Numbers(out) \cup {b[i].n : i \in 1 .. k}
  <2>1. /\ Len(out) \in Nat /\ Len(out') = Len(out) + k
        /\ \A i \in 1 .. Len(out) : out'[i] = out[i]
        /\ \A i \in Len(out) + 1 .. Len(out') : out'[i] = [n |-> b[i - Len(out)].n, to |-> writer]
    <3>1. OutGrowsTo(b, k)
      BY <1>2, WrittenAppends
    <3>2. Len(out) \in Nat
      BY DEF TypeOK
    <3> QED BY <3>1, <3>2 DEF OutGrowsTo
  <2>2. \A i \in Len(out) + 1 .. Len(out') : out'[i].n = b[i - Len(out)].n /\ i - Len(out) \in 1 .. k
    <3> TAKE i \in Len(out) + 1 .. Len(out')
    <3>1. out'[i] = [n |-> b[i - Len(out)].n, to |-> writer]
      BY <2>1, Zenon
    <3>2. i - Len(out) \in 1 .. k
      BY <2>1
    <3> QED BY <3>1, <3>2
  <2>3. \A j \in 1 .. k : j + Len(out) \in Len(out) + 1 .. Len(out') /\ (j + Len(out)) - Len(out) = j
    BY <2>1
  <2>4. Numbers(out') \subseteq Numbers(out) \cup {b[i].n : i \in 1 .. k}
    <3> SUFFICES ASSUME NEW i \in 1 .. Len(out')
                 PROVE  out'[i].n \in Numbers(out) \cup {b[j].n : j \in 1 .. k}
      BY DEF Numbers
    <3>1. CASE i \in 1 .. Len(out)
      BY <3>1, <2>1 DEF Numbers
    <3>2. CASE i \in Len(out) + 1 .. Len(out')
      BY <3>2, <2>2
    <3> QED BY <3>1, <3>2, <2>1
  <2>5. Numbers(out) \subseteq Numbers(out')
    BY <2>1 DEF Numbers
  <2>6. ASSUME NEW j \in 1 .. k PROVE b[j].n \in Numbers(out')
    <3>1. out'[j + Len(out)].n = b[j].n /\ j + Len(out) \in 1 .. Len(out')
      BY <2>1, <2>2, <2>3
    <3> QED BY <3>1 DEF Numbers
  <2> QED BY <2>4, <2>5, <2>6
<1>3. CASE out' = Written(b) /\ UNCHANGED <<lost, trouble>>
  <2>1. SubSeq(b, 1, Len(b)) = b /\ Len(b) \in 0 .. Len(b)
    OBVIOUS
  <2>2. Numbers(out') = Numbers(out) \cup Numbers(b)
    BY <1>2, <1>3, <2>1 DEF Numbers
  <2> WITNESS Numbers(b), {}
  <2> QED BY <1>3, <2>2
<1>4. CASE /\ \E k \in 0 .. Len(b) - 1 : /\ out' = Written(SubSeq(b, 1, k))
                                          /\ lost' = lost \cup Numbers(SubSeq(b, k + 1, Len(b)))
           /\ trouble' = TRUE
  <2>1. PICK k \in 0 .. Len(b) - 1 : /\ out' = Written(SubSeq(b, 1, k))
                                     /\ lost' = lost \cup Numbers(SubSeq(b, k + 1, Len(b)))
    BY <1>4
  <2> DEFINE w == {b[i].n : i \in 1 .. k}
             g == {b[i].n : i \in k + 1 .. Len(b)}
  <2>2. Len(b) \in Nat /\ k \in Nat /\ k <= Len(b)
    OBVIOUS
  <2>3. Numbers(SubSeq(b, k + 1, Len(b))) = g
    <3> DEFINE c == SubSeq(b, k + 1, Len(b))
    <3>1. Len(c) = Len(b) - k /\ \A i \in 1 .. Len(b) - k : c[i] = b[i + k]
      BY <2>2
    <3> HIDE DEF c
    <3>2. \A i \in 1 .. Len(b) - k : i + k \in k + 1 .. Len(b)
      BY <2>2
    <3>3. \A j \in k + 1 .. Len(b) : j - k \in 1 .. Len(b) - k /\ (j - k) + k = j
      BY <2>2
    <3>4. Numbers(c) \subseteq g
      BY <3>1, <3>2 DEF Numbers
    <3>5. ASSUME NEW j \in k + 1 .. Len(b) PROVE b[j].n \in Numbers(c)
      <4>1. j - k \in 1 .. Len(c) /\ c[j - k] = b[j]
        BY <3>1, <3>3
      <4> QED BY <4>1 DEF Numbers
    <3> QED BY <3>4, <3>5 DEF c
  <2>4. w \cup g = Numbers(b)
    BY <2>2 DEF Numbers
  <2>5. w \cap g = {}
    BY <2>2, <1>1 DEF Increasing
  <2>6. Numbers(out') = Numbers(out) \cup w
    BY <2>1, <2>2, <1>2
  <2> HIDE DEF w, g
  <2> WITNESS w, g
  <2> QED BY <1>4, <2>1, <2>3, <2>4, <2>5, <2>6
<1> QED BY <1>3, <1>4 DEF HandOver

LEMMA SendKept ==
  ASSUME TypeOK, Kept, NEW e, NEW size \in Sizes, Send(e, size), UNCHANGED <<out, buf, lost>>
  PROVE  /\ Numbers(out) \cup Numbers(buf) \cup Numbers(chan') \cup lost = 1 .. sent'
         /\ lost \cap Numbers(chan') = {}
<1>1. CASE SkipLog(e)
  BY <1>1 DEF Send, Kept, NothingDropped, LostIsGone
<1>2. CASE ~SkipLog(e)
  <2>1. sent' = sent + 1 /\ chan' = Append(chan, [n |-> sent', size |-> size]) /\ sent \in Nat
    BY <1>2 DEF Send, TypeOK
  <2>2. [n |-> sent', size |-> size] \in Line /\ chan \in Seq(Line)
    BY <2>1 DEF Line, TypeOK
  <2>3. Numbers(chan') = Numbers(chan) \cup {sent + 1}
    BY <2>1, <2>2, NumbersAppend
  <2>4. 1 .. sent' = 1 .. sent \cup {sent + 1} /\ sent + 1 \notin 1 .. sent
    BY <2>1
  <2> QED BY <2>3, <2>4 DEF Kept, NothingDropped, LostIsGone
<1> QED BY <1>1, <1>2

LEMMA RecvKept ==
  ASSUME TypeOK, Order, Kept, Recv
  PROVE  NothingDropped' /\ LostIsGone'
<1> DEFINE line == Head(chan)
<1>1. line \in Line /\ Numbers(chan) = {line.n} \cup Numbers(chan')
  BY HeadAndTail, NumbersHeadTail DEF Recv, TypeOK
<1>2. BufWrite(line) /\ sent' = sent
  BY DEF Recv
<1>3. line.n \notin Numbers(chan')
  <2>1. /\ line = chan[1] /\ Len(chan) \in Nat /\ 1 \in 1 .. Len(chan)
        /\ Len(chan') = Len(chan) - 1
        /\ \A i \in 1 .. Len(chan) - 1 : chan'[i] = chan[i + 1] /\ i + 1 \in 1 .. Len(chan)
    BY HeadAndTail DEF Recv, TypeOK
  <2>2. \A i \in 1 .. Len(chan') : 1 < i + 1 /\ chan'[i] = chan[i + 1] /\ i + 1 \in 1 .. Len(chan)
    BY <2>1
  <2>3. \A i \in 1 .. Len(chan') : chan[1].n < chan'[i].n /\ chan[1].n \in Nat
    BY <2>1, <2>2, LineNumbers DEF Order, QueuesInOrder, Increasing
  <2>4. \A i \in 1 .. Len(chan') : chan'[i].n \in Nat
    BY <2>2, LineNumbers
  <2>5. \A i \in 1 .. Len(chan') : line.n # chan'[i].n
    BY <2>1, <2>3, <2>4
  <2> HIDE DEF line
  <2> QED BY <2>5 DEF Numbers
<1> HIDE DEF line
<1>4. /\ Numbers(out) \cap Numbers(buf) = {}
      /\ Numbers(out) \cap Numbers(chan) = {}
      /\ Numbers(buf) \cap Numbers(chan) = {}
  BY NumbersApart
<1>5. /\ Numbers(out) \cup Numbers(buf) \cup Numbers(chan) \cup lost = 1 .. sent
      /\ ~trouble => lost = {}
      /\ lost \cap Numbers(out) = {} /\ lost \cap Numbers(buf) = {} /\ lost \cap Numbers(chan) = {}
  BY DEF Kept, NothingDropped, LostIsGone
<1>6. buf \in Seq(Line) /\ Increasing(buf)
  BY DEF TypeOK, Order, QueuesInOrder
(* It is enough that the line received and the lines held back are         *)
(* written, held back or lost afterwards, each in one way.                 *)
<1>7. SUFFICES /\ Numbers(out') \cup Numbers(buf') \cup lost'
                    = Numbers(out) \cup Numbers(buf) \cup lost \cup {line.n}
               /\ lost' \cap Numbers(out') = {} /\ lost' \cap Numbers(buf') = {}
               /\ ~trouble' => lost' = {}
  BY <1>1, <1>2, <1>3, <1>4, <1>5, <1>7 DEF NothingDropped, LostIsGone
<1>8. CASE WriteBuffered(line)
  <2>1. buf' = Append(buf, line) /\ out' = out /\ lost' = lost /\ trouble' = trouble
    BY <1>8 DEF WriteBuffered
  <2>2. Numbers(buf') = Numbers(buf) \cup {line.n}
    BY <2>1, <1>1, <1>6, NumbersAppend
  <2> QED BY <2>1, <2>2, <1>1, <1>5
<1>9. CASE WriteDirect(line)
  <2>1. <<line>> \in Seq(Line) /\ Increasing(<<line>>)
    BY <1>1 DEF Increasing
  <2>2. HandOver(<<line>>) /\ buf' = buf
    BY <1>9 DEF WriteDirect
  <2>3. PICK w, g : /\ w \cup g = {line.n} /\ w \cap g = {}
                    /\ Numbers(out') = Numbers(out) \cup w
                    /\ lost' = lost \cup g
                    /\ (g = {} /\ trouble' = trouble) \/ trouble' = TRUE
    BY <2>1, <2>2, HandOverSplits, NumbersOfOne
  <2> QED BY <2>2, <2>3, <1>1, <1>4, <1>5
<1>10. CASE WriteAfterFlush(line)
  <2>1. CASE HandOver(buf) /\ buf' = <<line>>
    <3>1. PICK w, g : /\ w \cup g = Numbers(buf) /\ w \cap g = {}
                      /\ Numbers(out') = Numbers(out) \cup w
                      /\ lost' = lost \cup g
                      /\ (g = {} /\ trouble' = trouble) \/ trouble' = TRUE
      BY <2>1, <1>6, HandOverSplits
    <3>2. Numbers(buf') = {line.n}
      BY <2>1, NumbersOfOne
    <3> QED BY <3>1, <3>2, <1>1, <1>4, <1>5
  <2>2. CASE HandOver(Append(buf, line)) /\ buf' = <<>>
    <3>1. \A i \in 1 .. Len(buf) : buf[i].n < line.n
      <4>1. line = chan[1] /\ 1 \in 1 .. Len(chan)
        BY HeadAndTail DEF line, TypeOK, Recv
      <4> QED BY <4>1 DEF Order, QueuesInOrder, Before
    <3>2. /\ Append(buf, line) \in Seq(Line) /\ Increasing(Append(buf, line))
          /\ Numbers(Append(buf, line)) = Numbers(buf) \cup {line.n}
      BY <3>1, <1>1, <1>6, AppendInOrder, NumbersAppend
    <3>3. PICK w, g : /\ w \cup g = Numbers(buf) \cup {line.n} /\ w \cap g = {}
                      /\ Numbers(out') = Numbers(out) \cup w
                      /\ lost' = lost \cup g
                      /\ (g = {} /\ trouble' = trouble) \/ trouble' = TRUE
      BY <2>2, <3>2, HandOverSplits
    <3>4. Numbers(buf') = {}
      BY <2>2, NoNumbers
    <3> QED BY <3>3, <3>4, <1>1, <1>4, <1>5
  <2> QED BY <1>10, <2>1, <2>2 DEF WriteAfterFlush
<1>11. CASE WriteFails(line)
  BY <1>11, <1>1, <1>4, <1>5 DEF WriteFails
<1> QED BY <1>2, <1>8, <1>9, <1>10, <1>11 DEF BufWrite

LEMMA FileBufWriterKept ==
  ASSUME TypeOK, Order, Kept, NEW d, FileBufWriter(d), UNCHANGED out, ~trouble => buf = <<>>
  PROVE  NothingDropped' /\ LostIsGone'
<1>1. CASE buf' = <<>> /\ lost' = lost \cup Numbers(buf) /\ UNCHANGED <<chan, sent, trouble>>
  <2>1. Numbers(buf') = {} /\ (~trouble => Numbers(buf) = {})
    BY <1>1, NoNumbers
  <2>2. Numbers(buf) \cap Numbers(out) = {} /\ Numbers(buf) \cap Numbers(chan) = {}
    BY NumbersApart
  <2> QED BY <1>1, <2>1, <2>2 DEF Kept, NothingDropped, LostIsGone
<1>2. CASE Complain /\ trouble' = TRUE /\ UNCHANGED <<buf, lost>>
  BY <1>2, SendKept DEF Complain, Kept, NothingDropped, LostIsGone
<1> QED BY <1>1, <1>2 DEF FileBufWriter

LEMMA StepKept == TypeOK /\ Order /\ Kept /\ [Next]_vars => Kept'
<1> SUFFICES ASSUME TypeOK, Order, Kept, [Next]_vars PROVE Kept'
  OBVIOUS
<1>0. NothingDropped /\ LostIsGone /\ EmptyWhenReplaced
  BY DEF Kept
<1>1. ASSUME NEW e \in Event, Log(e) PROVE Kept'
  <2>1. UNCHANGED <<pc, out, buf, lost, trouble>> /\ \E size \in Sizes : Send(e, size)
    BY <1>1 DEF Log
  <2>2. /\ Numbers(out) \cup Numbers(buf) \cup Numbers(chan') \cup lost = 1 .. sent'
        /\ lost \cap Numbers(chan') = {}
    BY <2>1, SendKept
  <2> QED BY <1>0, <2>1, <2>2 DEF Kept, NothingDropped, LostIsGone, EmptyWhenReplaced
<1>2. CASE PrepareBufWriter
  <2>1. buf = <<>> /\ pc' = "recv" /\ UNCHANGED out
    BY <1>0, <1>2 DEF PrepareBufWriter, EmptyWhenReplaced
  <2>2. CASE FileBufWriter(clock)
    BY <2>1, <2>2, FileBufWriterKept DEF Kept, EmptyWhenReplaced
  <2>3. CASE UNCHANGED <<writer, buf, buffered, next_date, lost, chan, sent, trouble>>
    BY <1>0, <2>1, <2>3 DEF Kept, NothingDropped, LostIsGone, EmptyWhenReplaced
  <2> QED BY <1>2, <2>2, <2>3 DEF PrepareBufWriter
<1>3. CASE Recv
  <2>1. pc' = "rotate"
    BY <1>3 DEF Recv
  <2> QED BY <1>3, <2>1, RecvKept DEF Kept, EmptyWhenReplaced
<1>4. CASE NoRollover
  BY <1>0, <1>4 DEF NoRollover, Kept, NothingDropped, LostIsGone, EmptyWhenReplaced
<1>5. CASE Flush
  <2>1. pc' = "open" /\ UNCHANGED <<chan, sent>>
    BY <1>5 DEF Flush
  <2>2. CASE HandOver(buf) /\ buf' = <<>>
    <3>1. buf \in Seq(Line) /\ Increasing(buf) /\ Numbers(buf') = {}
      BY <2>2, NoNumbers DEF TypeOK, Order, QueuesInOrder
    <3>2. PICK w, g : /\ w \cup g = Numbers(buf) /\ w \cap g = {}
                      /\ Numbers(out') = Numbers(out) \cup w
                      /\ lost' = lost \cup g
                      /\ (g = {} /\ trouble' = trouble) \/ trouble' = TRUE
      BY <2>2, <3>1, HandOverSplits
    <3>3. /\ Numbers(out) \cap Numbers(buf) = {} /\ Numbers(out) \cap Numbers(chan) = {}
          /\ Numbers(buf) \cap Numbers(chan) = {}
      BY NumbersApart
    <3>4. NothingDropped'
      BY <1>0, <2>1, <3>1, <3>2 DEF NothingDropped
    <3>5. LostIsGone'
      BY <1>0, <2>1, <3>1, <3>2, <3>3 DEF LostIsGone
    <3> QED BY <2>1, <2>2, <3>4, <3>5 DEF Kept, EmptyWhenReplaced
  <2>3. CASE trouble' = TRUE /\ UNCHANGED <<buf, buffered, out, lost>>
    BY <1>0, <2>1, <2>3 DEF Kept, NothingDropped, LostIsGone, EmptyWhenReplaced
  <2> QED BY <1>5, <2>2, <2>3 DEF Flush
<1>6. CASE Rollover
  <2>1. pc = "open" /\ pc' = "recv" /\ FileBufWriter(next_date) /\ UNCHANGED out
    BY <1>6 DEF Rollover
  <2>2. ~trouble => buf = <<>>
    BY <1>0, <2>1 DEF EmptyWhenReplaced
  <2> QED BY <2>1, <2>2, FileBufWriterKept DEF Kept, EmptyWhenReplaced
<1>7. CASE Tick
  BY <1>0, <1>7 DEF Tick, Kept, NothingDropped, LostIsGone, EmptyWhenReplaced
<1>8. CASE Restart
  <2>1. /\ UNCHANGED <<out, sent>> /\ buf' = <<>> /\ pc' = "prepare" /\ trouble' = TRUE
        /\ lost' = lost \cup Numbers(chan) \cup Numbers(buf)
    BY <1>8 DEF Restart
  <2>2. Numbers(chan') = {} /\ Numbers(buf') = {}
    BY <1>8, NoNumbers DEF Restart
  <2>3. Numbers(out) \cap Numbers(buf) = {} /\ Numbers(out) \cap Numbers(chan) = {}
    BY NumbersApart
  <2> QED BY <1>0, <2>1, <2>2, <2>3 DEF Kept, NothingDropped, LostIsGone, EmptyWhenReplaced
<1>9. CASE UNCHANGED vars
  BY <1>0, <1>9 DEF vars, Kept, NothingDropped, LostIsGone, EmptyWhenReplaced
<1> QED BY <1>1, <1>2, <1>3, <1>4, <1>5, <1>6, <1>7, <1>8, <1>9 DEF Next, Service

LEMMA KeptAlways == Spec => []Kept
<1>1. Init => Kept
  <2> SUFFICES ASSUME Init PROVE Kept
    OBVIOUS
  <2>1. Numbers(out) = {} /\ Numbers(buf) = {} /\ Numbers(chan) = {} /\ 1 .. sent = {} /\ lost = {}
    BY NoNumbers DEF Init
  <2> QED BY <2>1 DEF Init, Kept, NothingDropped, LostIsGone, EmptyWhenReplaced
<1>2. TypeOK /\ Order /\ Kept /\ [Next]_vars => Kept'
  BY StepKept
<1> QED BY <1>1, <1>2, LogTypeCorrect, OrderAlways, PTL DEF Spec

(* Every line that was ever sent is written, buffered, queued or known to  *)
(* be lost, and no rotation loses one: only an output that fails, or the   *)
(* end of the process, does.                                               *)
THEOREM RotationKeepsLines == Spec => []NothingDropped
<1>1. Kept => NothingDropped
  BY DEF Kept
<1> QED BY <1>1, KeptAlways, PTL

-----------------------------------------------------------------------------
(***************************************************************************)
(* The refinement.                                                         *)
(***************************************************************************)

(* A step that only writes and loses lines is one of the abstract log: the *)
(* invariants say which lines these can be.                                *)
LEMMA SettleStep ==
  ASSUME TypeOK, TypeOK', Order', Kept', NEW b \in Seq(Line), OutGrowsBy(b),
         lost \subseteq lost', sent' = sent, lost' # lost => trouble', trouble => trouble'
  PROVE  Promise!Settle
<1>1. /\ Len(out) \in Nat /\ Len(out') \in Nat /\ Len(out) <= Len(out')
      /\ \A i \in 1 .. Len(out) : out'[i] = out[i]
  BY DEF OutGrowsBy, OutGrowsTo, TypeOK
<1>2. /\ Len(Lines) = Len(out) /\ \A i \in 1 .. Len(out) : Lines[i] = out[i].n
      /\ Len(Lines') = Len(out') /\ \A i \in 1 .. Len(out') : Lines'[i] = out'[i].n
  BY <1>1 DEF Lines
<1>3. {Lines[i] : i \in 1 .. Len(Lines)} = Numbers(out)
  BY <1>2 DEF Numbers
<1>4. {Lines'[i] : i \in 1 .. Len(Lines')} = Numbers(out')
  BY <1>2 DEF Numbers
<1>5. Promise!Pending = (1 .. sent) \ (Numbers(out) \cup lost)
  BY <1>3 DEF Promise!Pending, Promise!Settled
<1>6. Promise!Settled' = Numbers(out') \cup lost'
  BY <1>4 DEF Promise!Settled
<1>7. /\ Numbers(out') \cup Numbers(buf') \cup Numbers(chan') \cup lost' = 1 .. sent
      /\ lost' \cap Numbers(out') = {}
  BY DEF Kept, NothingDropped, LostIsGone
<1>8. Numbers(out) \subseteq Numbers(out')
  BY <1>1 DEF Numbers
<1>9. /\ \A i \in 1 .. Len(out') : out'[i].n \in Nat
      /\ \A i \in 1 .. Len(buf') : buf'[i].n \in Nat
      /\ \A i \in 1 .. Len(chan') : chan'[i].n \in Nat
  <2>1. out' \in Seq(Record) /\ buf' \in Seq(Line) /\ chan' \in Seq(Line)
    BY DEF TypeOK, Record
  <2>2. \A i \in 1 .. Len(out') : out'[i] \in Record
    BY <2>1
  <2>3. \A i \in 1 .. Len(buf') : buf'[i] \in Line
    BY <2>1
  <2>4. \A i \in 1 .. Len(chan') : chan'[i] \in Line
    BY <2>1
  <2>5. \A i \in 1 .. Len(out') : out'[i].n \in Nat
    BY <2>2 DEF Record
  <2> QED BY <2>3, <2>4, <2>5 DEF Line
<1>10. /\ \A i, j \in 1 .. Len(out') : i < j => out'[i].n < out'[j].n
       /\ \A i \in 1 .. Len(out'), j \in 1 .. Len(buf') : out'[i].n < buf'[j].n
       /\ \A i \in 1 .. Len(out'), j \in 1 .. Len(chan') : out'[i].n < chan'[j].n
  BY DEF Order, LinesInOrder, QueuesInOrder, Increasing, Before
<1>11. Promise!WrittenOn
  <2>1. Len(Lines') >= Len(Lines) /\ \A i \in 1 .. Len(Lines) : Lines'[i] = Lines[i]
    BY <1>1, <1>2
  <2>2. ASSUME NEW i \in Len(Lines) + 1 .. Len(Lines')
        PROVE  /\ Lines'[i] \in Promise!Pending
               /\ \A j \in 1 .. i - 1 : Lines'[j] < Lines'[i]
               /\ 1 .. Lines'[i] \subseteq Promise!Settled'
    <3>1. i \in 1 .. Len(out') /\ i > Len(out) /\ Lines'[i] = out'[i].n
      BY <1>1, <1>2
    <3>2. \A j \in 1 .. i - 1 : j \in 1 .. Len(out') /\ j < i /\ out'[j].n < out'[i].n
      BY <3>1, <1>1, <1>10
    <3>3. out'[i].n \in 1 .. sent /\ out'[i].n \notin lost
      <4>1. out'[i].n \in Numbers(out')
        BY <3>1 DEF Numbers
      <4> QED BY <4>1, <1>7
    <3>4. out'[i].n \notin Numbers(out)
      <4> SUFFICES ASSUME NEW j \in 1 .. Len(out) PROVE out[j].n # out'[i].n
        BY DEF Numbers
      <4>1. j \in 1 .. i - 1 /\ out'[j] = out[j] /\ j \in 1 .. Len(out')
        BY <3>1, <1>1
      <4> QED BY <4>1, <3>1, <3>2, <1>9
    <3>5. ASSUME NEW m \in 1 .. out'[i].n PROVE m \in Numbers(out') \cup lost'
      <4>0. sent \in Nat /\ out'[i].n \in Nat
        BY <3>1, <1>9 DEF TypeOK
      <4>1. m \in 1 .. sent
        BY <4>0, <3>3
      <4>2. m \notin Numbers(buf')
        <5>1. ASSUME NEW j \in 1 .. Len(buf') PROVE buf'[j].n # m
          <6>1. out'[i].n < buf'[j].n /\ buf'[j].n \in Nat
            BY <3>1, <1>9, <1>10
          <6> QED BY <6>1, <4>0
        <5> QED BY <5>1 DEF Numbers
      <4>3. m \notin Numbers(chan')
        <5>1. ASSUME NEW j \in 1 .. Len(chan') PROVE chan'[j].n # m
          <6>1. out'[i].n < chan'[j].n /\ chan'[j].n \in Nat
            BY <3>1, <1>9, <1>10
          <6> QED BY <6>1, <4>0
        <5> QED BY <5>1 DEF Numbers
      <4> QED BY <4>1, <4>2, <4>3, <1>7
    <3>6. \A j \in 1 .. i - 1 : Lines'[j] < Lines'[i]
      BY <3>1, <3>2, <1>2
    <3> QED BY <3>1, <3>3, <3>4, <3>5, <3>6, <1>5, <1>6
  <2> QED BY <2>1, <2>2 DEF Promise!WrittenOn
<1>12. lost' \ lost \subseteq Promise!Pending \ {Lines'[i] : i \in 1 .. Len(Lines')}
  BY <1>4, <1>5, <1>7, <1>8
<1> QED BY <1>11, <1>12 DEF Promise!Settle

(* The complaint about a file that cannot be opened is one more line, when *)
(* errors are logged; the other way, only trouble is noted.                *)
LEMMA ComplainStep ==
  ASSUME TypeOK, TypeOK', Order', Kept', Complain, trouble' = TRUE, UNCHANGED <<out, lost>>
  PROVE  Promise!Next
<1>1. CASE UNCHANGED sent
  <2>0. <<>> \in Seq(Line)
    OBVIOUS
  <2>1. OutGrowsBy(<<>>)
    BY <2>0, NothingGrows
  <2>2. Promise!Settle
    BY <1>1, <2>0, <2>1, SettleStep
  <2> QED BY <2>2 DEF Promise!Next
<1>2. CASE sent' = sent + 1
  <2>1. Lines' = Lines
    BY DEF Lines
  <2> QED BY <1>2, <2>1 DEF Promise!Next, Promise!Submit
<1> QED BY <1>1, <1>2 DEF Complain, Send

LEMMA StepImplements ==
  ASSUME TypeOK, TypeOK', Order, Order', Kept, Kept', [Next]_vars
  PROVE  [Promise!Next]_Promise!vars
<1>1. ASSUME NEW e \in Event, Log(e) PROVE Promise!Submit
  <2>1. sent' = sent + 1 /\ UNCHANGED <<out, lost, trouble>>
    BY <1>1 DEF Log, Send
  <2> QED BY <2>1 DEF Promise!Submit, Lines
<1>2. ASSUME UNCHANGED <<out, lost, trouble, sent>> PROVE UNCHANGED Promise!vars
  BY <1>2 DEF Promise!vars, Lines
<1>3. <<>> \in Seq(Line)
  OBVIOUS
(* A file is opened, or cannot be. *)
<1>4. ASSUME NEW d, FileBufWriter(d), UNCHANGED out PROVE Promise!Next
  <2>1. CASE lost' = lost \cup Numbers(buf) /\ UNCHANGED <<chan, sent, trouble>>
    <3>1. lost' # lost => trouble'
      <4>1. ~trouble => lost = {} /\ lost' = {}
        BY <2>1 DEF Kept, NothingDropped
      <4> QED BY <4>1, <2>1
    <3>2. Promise!Settle
      BY <1>3, <1>4, <2>1, <3>1, NothingGrows, SettleStep
    <3> QED BY <3>2 DEF Promise!Next
  <2>2. CASE Complain /\ trouble' = TRUE /\ UNCHANGED lost
    BY <1>4, <2>2, ComplainStep
  <2> QED BY <1>4, <2>1, <2>2 DEF FileBufWriter
<1>5. CASE PrepareBufWriter
  <2>1. UNCHANGED out /\ (FileBufWriter(clock) \/ UNCHANGED <<lost, sent, trouble>>)
    BY <1>5 DEF PrepareBufWriter
  <2> QED BY <2>1, <1>2, <1>4
<1>6. CASE Recv
  <2> DEFINE line == Head(chan)
  <2>1. line \in Line
    BY <1>6, HeadAndTail DEF Recv, TypeOK
  <2>2. BufWrite(line) /\ sent' = sent
    BY <1>6 DEF Recv
  <2> HIDE DEF line
  <2>3. <<line>> \in Seq(Line) /\ buf \in Seq(Line) /\ Append(buf, line) \in Seq(Line)
    BY <2>1 DEF TypeOK
  <2>4. \/ HandOver(<<line>>) \/ HandOver(buf) \/ HandOver(Append(buf, line))
        \/ UNCHANGED out /\ lost' = lost /\ trouble' = trouble
        \/ UNCHANGED out /\ lost \subseteq lost' /\ trouble' = TRUE
    BY <2>2 DEF BufWrite, WriteBuffered, WriteDirect, WriteAfterFlush, WriteFails
  <2>5. PICK b \in Seq(Line) : OutGrowsBy(b)
    BY <2>3, <2>4, HandOverGrows, NothingGrows
  <2>6. lost \subseteq lost' /\ (lost' # lost => trouble') /\ (trouble => trouble')
    BY <2>4 DEF HandOver
  <2>7. Promise!Settle
    BY <2>2, <2>5, <2>6, SettleStep
  <2> QED BY <2>7 DEF Promise!Next
<1>7. CASE NoRollover
  BY <1>2, <1>7 DEF NoRollover
<1>8. CASE Flush
  <2>1. HandOver(buf) \/ (trouble' = TRUE /\ UNCHANGED <<out, lost>>)
    <3>1. CASE HandOver(buf)
      BY <3>1
    <3>2. CASE trouble' = TRUE /\ UNCHANGED <<buf, buffered, out, lost>>
      BY <3>2
    <3> QED BY <1>8, <3>1, <3>2 DEF Flush
  <2>2. buf \in Seq(Line) /\ sent' = sent
    BY <1>8 DEF TypeOK, Flush
  <2>3. OutGrowsBy(buf)
    BY <2>1, <2>2, HandOverGrows, NothingGrows
  <2>4. lost \subseteq lost' /\ (lost' # lost => trouble') /\ (trouble => trouble')
    BY <2>1 DEF HandOver
  <2>5. Promise!Settle
    BY <2>2, <2>3, <2>4, SettleStep
  <2> QED BY <2>5 DEF Promise!Next
<1>9. CASE Rollover
  BY <1>4, <1>9 DEF Rollover
<1>10. CASE Tick
  BY <1>2, <1>10 DEF Tick
<1>11. CASE Restart
  <2>1. lost \subseteq lost' /\ trouble' = TRUE /\ sent' = sent /\ UNCHANGED out
    BY <1>11 DEF Restart
  <2>2. Promise!Settle
    BY <1>3, <2>1, NothingGrows, SettleStep
  <2> QED BY <2>2 DEF Promise!Next
<1>12. CASE UNCHANGED vars
  BY <1>2, <1>12 DEF vars
<1> QED BY <1>1, <1>5, <1>6, <1>7, <1>8, <1>9, <1>10, <1>11, <1>12 DEF Next, Service, Promise!Next

(* The log writer, with its channel, its buffers, its rotations, outputs   *)
(* that fail and restarts, implements the log that whoever logs relies on: *)
(* every line is settled once, in order, and lost only after trouble.      *)
THEOREM WriterImplementsLog == Spec => ImplementsLog
<1>1. Init => Promise!Init
  BY DEF Init, Promise!Init, Lines
<1>2. TypeOK /\ TypeOK' /\ Order /\ Order' /\ Kept /\ Kept' /\ [Next]_vars
        => [Promise!Next]_Promise!vars
  BY StepImplements
<1> QED BY <1>1, <1>2, LogTypeCorrect, OrderAlways, KeptAlways, PTL
        DEF Spec, ImplementsLog, Promise!Spec

-----------------------------------------------------------------------------
(***************************************************************************)
(* Dates.                                                                  *)
(***************************************************************************)
Dates == FilesInDateOrder /\ DueAtPeriodEnd /\ DatesKnown /\ DueForFile

(* What the history of lines has to satisfy for a writer dated d. *)
OutDated(o, w) ==
  /\ \A i, j \in 1 .. Len(o) :
       i < j /\ o[i].to.kind = "file" /\ o[j].to.kind = "file" => o[i].to.date <= o[j].to.date
  /\ \A i \in 1 .. Len(o) :
       /\ Starts(o[i].to.date)
       /\ w.kind = "file" /\ o[i].to.kind = "file" => o[i].to.date <= w.date

LEMMA DatesParts ==
  Dates <=> /\ OutDated(out, writer)
            /\ writer.date <= clock /\ Starts(writer.date)
            /\ DueAtPeriodEnd /\ DueForFile
  BY DEF Dates, FilesInDateOrder, DatesKnown, OutDated

(* Lines written to the current file keep the dates in order. *)
LEMMA GrowsDated ==
  ASSUME TypeOK, Dates, NEW b \in Seq(Line), OutGrowsBy(b)
  PROVE  OutDated(out', writer)
<1>1. PICK k \in 0 .. Len(b) :
        /\ Len(out') = Len(out) + k
        /\ \A i \in 1 .. Len(out) : out'[i] = out[i]
        /\ \A i \in Len(out) + 1 .. Len(out') :
             out'[i] = [n |-> b[i - Len(out)].n, to |-> writer]
  BY DEF OutGrowsBy, OutGrowsTo
<1>2. Len(out) \in Nat /\ k \in Nat
  BY DEF TypeOK
<1>3. \A i \in 1 .. Len(out') :
        \/ i \in 1 .. Len(out) /\ out'[i] = out[i]
        \/ i > Len(out) /\ out'[i].to = writer
  <2> TAKE i \in 1 .. Len(out')
  <2>1. CASE i <= Len(out)
    <3>1. i \in 1 .. Len(out)
      BY <2>1, <1>2
    <3> QED BY <3>1, <1>1
  <2>2. CASE ~(i <= Len(out))
    <3>1. i > Len(out) /\ i \in Len(out) + 1 .. Len(out')
      BY <2>2, <1>1, <1>2
    <3>2. out'[i] = [n |-> b[i - Len(out)].n, to |-> writer]
      BY <3>1, <1>1, Zenon
    <3>3. out'[i].to = writer
      BY <3>2
    <3> QED BY <3>1, <3>3
  <2> QED BY <2>1, <2>2
<1>4. OutDated(out, writer) /\ Starts(writer.date)
  BY DatesParts
<1>5. writer.date \in Nat
  BY DEF TypeOK, Destination
<1>6. ASSUME NEW i \in 1 .. Len(out'), NEW j \in 1 .. Len(out'), i < j,
             out'[i].to.kind = "file", out'[j].to.kind = "file"
      PROVE  out'[i].to.date <= out'[j].to.date
  <2>1. CASE j \in 1 .. Len(out) /\ out'[j] = out[j]
    <3>1. i \in 1 .. Len(out) /\ out'[i] = out[i]
      BY <1>2, <1>3, <1>6, <2>1
    <3> QED BY <3>1, <2>1, <1>4, <1>6 DEF OutDated
  <2>2. CASE j > Len(out) /\ out'[j].to = writer
    <3>1. CASE i \in 1 .. Len(out) /\ out'[i] = out[i]
      BY <3>1, <2>2, <1>4, <1>6 DEF OutDated
    <3>2. CASE i > Len(out) /\ out'[i].to = writer
      BY <3>2, <2>2, <1>5
    <3> QED BY <3>1, <3>2, <1>3
  <2> QED BY <2>1, <2>2, <1>3
<1>7. ASSUME NEW i \in 1 .. Len(out')
      PROVE  /\ Starts(out'[i].to.date)
             /\ writer.kind = "file" /\ out'[i].to.kind = "file" => out'[i].to.date <= writer.date
  <2>1. CASE i \in 1 .. Len(out) /\ out'[i] = out[i]
    BY <2>1, <1>4 DEF OutDated
  <2>2. CASE out'[i].to = writer
    BY <2>2, <1>4, <1>5
  <2> QED BY <2>1, <2>2, <1>3
<1> QED BY <1>6, <1>7 DEF OutDated

(* A file opened for a date that has come, and not before any file so far. *)
LEMMA FileBufWriterDates ==
  ASSUME TypeOK, Dates, NEW d \in Nat, d <= clock, FileBufWriter(d),
         UNCHANGED <<out, clock, logging>>, pc' = "recv",
         \A i \in 1 .. Len(out) : out[i].to.kind = "file" => out[i].to.date <= RoundDate(d)
  PROVE  Dates'
<1>1. /\ OutDated(out, writer) /\ writer.date <= clock /\ Starts(writer.date)
      /\ DueAtPeriodEnd /\ DueForFile
  BY DatesParts
<1>2. clock \in Nat /\ out' = out /\ clock' = clock /\ logging' = logging /\ (Rotating' <=> Rotating)
  BY DEF TypeOK, Rotating
<1>3. CASE writer' = FileFor(d) /\ next_date' = IF Rotating THEN NextDate(d) ELSE next_date
  <2>1. /\ RoundDate(d) \in 0 .. d /\ RoundDate(d) % Period = 0
        /\ NextDate(d) = RoundDate(d) + Period
    BY RoundDateIsLastStart, NextDateIsNextStart
  <2>2. writer'.kind = "file" /\ writer'.date = IF Rotating THEN RoundDate(d) ELSE 0
    BY <1>3 DEF FileFor
  <2>3. 0 % Period = 0
    BY RoundDateIsLastStart, ClockType
  <2>4. writer'.date \in 0 .. clock /\ writer'.date % Period = 0 /\ (Rotating \/ writer'.date = 0)
    BY <1>2, <2>1, <2>2, <2>3
  <2>5. Starts(writer.date)' /\ writer'.date <= clock'
    BY <1>2, <2>4 DEF Starts
  <2>6. \A i \in 1 .. Len(out) : out[i].to.kind = "file" => out[i].to.date <= writer'.date
    <3>1. \A i \in 1 .. Len(out) : Rotating \/ out[i].to.date = 0
      BY <1>1 DEF OutDated, Starts
    <3> QED BY <3>1, <2>2
  <2>7. OutDated(out, writer)'
    BY <1>1, <1>2, <2>6 DEF OutDated, Starts
  <2>8. DueAtPeriodEnd'
    BY <1>2, <1>3, <2>1, <2>2 DEF DueAtPeriodEnd
  <2>9. DueForFile'
    BY <1>1, <1>2, <1>3, <2>2 DEF DueForFile
  <2> QED BY <2>5, <2>7, <2>8, <2>9 DEF Dates, FilesInDateOrder, DatesKnown, OutDated
<1>4. CASE UNCHANGED <<writer, next_date>>
  BY <1>1, <1>2, <1>4
     DEF Dates, FilesInDateOrder, DatesKnown, OutDated, Starts, DueAtPeriodEnd, DueForFile
<1> QED BY <1>3, <1>4 DEF FileBufWriter

LEMMA StepDates == TypeOK /\ Dates /\ [Next]_vars => Dates'
<1> SUFFICES ASSUME TypeOK, Dates, [Next]_vars PROVE Dates'
  OBVIOUS
<1>0. /\ OutDated(out, writer) /\ writer.date <= clock /\ Starts(writer.date)
      /\ DueAtPeriodEnd /\ DueForFile /\ clock \in Nat /\ next_date \in Nat
      /\ writer.date \in Nat
  BY DatesParts DEF TypeOK, Destination
(* Only lines that are written, the clock and the place in the loop        *)
(* changed.                                                                *)
<1>1. ASSUME UNCHANGED <<writer, next_date, clock, logging>>, OutDated(out', writer),
             pc' = "open" => ShouldRollover
      PROVE  Dates'
  <2>1. (Rotating' <=> Rotating) /\ (ShouldRollover' <=> ShouldRollover)
    BY <1>1 DEF Rotating, ShouldRollover
  <2>2. OutDated(out, writer)'
    BY <1>1, <2>1 DEF OutDated, Starts
  <2>3. Starts(writer.date)' /\ (writer.date <= clock)'
    BY <1>0, <1>1, <2>1 DEF Starts
  <2>4. DueAtPeriodEnd' /\ DueForFile'
    BY <1>0, <1>1, <2>1 DEF DueAtPeriodEnd, DueForFile
  <2> QED BY <2>2, <2>3, <2>4 DEF Dates, FilesInDateOrder, DatesKnown, OutDated
<1>2. ASSUME NEW e \in Event, Log(e), UNCHANGED logging PROVE Dates'
  BY <1>0, <1>1, <1>2 DEF Log, DueForFile
<1>3. CASE PrepareBufWriter /\ UNCHANGED logging
  <2>1. CASE FileBufWriter(clock)
    <3>1. \A i \in 1 .. Len(out) : out[i].to.date <= RoundDate(clock)
      BY <1>0, RoundDateIsLastStart DEF OutDated, Starts
    <3>2. UNCHANGED <<out, clock, logging>> /\ pc' = "recv"
      BY <1>3 DEF PrepareBufWriter
    <3> QED BY <1>0, <2>1, <3>1, <3>2, FileBufWriterDates
  <2>2. CASE UNCHANGED <<writer, buf, buffered, next_date, lost, chan, sent, trouble>>
    BY <1>0, <1>1, <1>3, <2>2 DEF PrepareBufWriter
  <2> QED BY <1>3, <2>1, <2>2 DEF PrepareBufWriter
<1>4. CASE Recv /\ UNCHANGED logging
  <2> DEFINE line == Head(chan)
  <2>1. line \in Line
    BY <1>4, HeadAndTail DEF Recv, TypeOK
  <2>2. BufWrite(line) /\ UNCHANGED <<writer, next_date, clock>> /\ pc' = "rotate"
    BY <1>4 DEF Recv
  <2> HIDE DEF line
  <2>3. <<line>> \in Seq(Line) /\ buf \in Seq(Line) /\ Append(buf, line) \in Seq(Line)
    BY <2>1 DEF TypeOK
  <2>4. HandOver(<<line>>) \/ HandOver(buf) \/ HandOver(Append(buf, line)) \/ UNCHANGED out
    BY <2>2 DEF BufWrite, WriteBuffered, WriteDirect, WriteAfterFlush, WriteFails
  <2>5. \E b \in Seq(Line) : OutGrowsBy(b)
    BY <2>3, <2>4, HandOverGrows, NothingGrows
  <2>6. OutDated(out', writer)
    BY <2>5, GrowsDated
  <2> QED BY <1>1, <1>4, <2>2, <2>6
<1>5. CASE NoRollover /\ UNCHANGED logging
  BY <1>0, <1>1, <1>5 DEF NoRollover
<1>6. CASE Flush /\ UNCHANGED logging
  <2>1. UNCHANGED <<writer, next_date, clock>> /\ ShouldRollover
    BY <1>6 DEF Flush
  <2>2. buf \in Seq(Line)
    BY DEF TypeOK
  <2>3. OutGrowsBy(buf)
    BY <1>6, <2>2, HandOverGrows, NothingGrows DEF Flush
  <2>4. OutDated(out', writer)
    BY <2>2, <2>3, GrowsDated
  <2> QED BY <1>1, <1>6, <2>1, <2>4
<1>7. CASE Rollover /\ UNCHANGED logging
  <2>1. pc = "open" /\ FileBufWriter(next_date) /\ UNCHANGED <<out, clock, logging>> /\ pc' = "recv"
    BY <1>7 DEF Rollover
  <2>2. next_date # 0 /\ next_date <= clock
    BY <1>0, <2>1 DEF DueForFile, ShouldRollover
  <2>3. Rotating /\ writer.kind = "file" /\ next_date = writer.date + Period
    BY <1>0, <2>2 DEF DueForFile, DueAtPeriodEnd
  <2>4. writer.date \in 0 .. next_date /\ writer.date % Period = 0
    BY <1>0, <2>3, ClockType DEF Starts
  <2>5. writer.date <= RoundDate(next_date) /\ RoundDate(next_date) \in Nat
    BY <1>0, <2>4, RoundDateIsLastStart
  <2>6. \A i \in 1 .. Len(out) : out[i].to.kind = "file" => out[i].to.date <= writer.date /\ out[i].to.date \in Nat
    BY <1>0, <2>3 DEF OutDated, Starts
  <2>7. \A i \in 1 .. Len(out) : out[i].to.kind = "file" => out[i].to.date <= RoundDate(next_date)
    BY <1>0, <2>5, <2>6
  <2> QED BY <1>0, <2>1, <2>2, <2>7, FileBufWriterDates
<1>8. CASE Tick /\ UNCHANGED logging
  <2>1. /\ clock' = clock + 1 /\ writer' = writer /\ next_date' = next_date /\ out' = out /\ pc' = pc
        /\ (Rotating' <=> Rotating)
    BY <1>8 DEF Tick, Rotating
  <2>2. \A x : Starts(x) => x \in 0 .. clock' /\ x % Period = 0 /\ (Rotating' \/ x = 0)
    BY <1>0, <2>1 DEF Starts
  <2>3. \A i \in 1 .. Len(out) : Starts(out[i].to.date)'
    BY <1>0, <2>1, <2>2 DEF OutDated, Starts
  <2>4. OutDated(out, writer)'
    BY <1>0, <2>1, <2>3 DEF OutDated
  <2>5. Starts(writer.date)' /\ (writer.date <= clock)'
    BY <1>0, <2>1, <2>2 DEF Starts
  <2>6. DueAtPeriodEnd' /\ DueForFile'
    BY <1>0, <2>1 DEF DueAtPeriodEnd, DueForFile, ShouldRollover
  <2> QED BY <2>4, <2>5, <2>6 DEF Dates, FilesInDateOrder, DatesKnown, OutDated
<1>9. CASE Restart /\ UNCHANGED logging
  <2>1. /\ clock' = clock /\ writer'.kind = "stdout" /\ writer'.date = 0 /\ next_date' = 0
        /\ out' = out /\ pc' = "prepare" /\ (Rotating' <=> Rotating)
    BY <1>9 DEF Restart, Stdout, Rotating
  <2>2. 0 % Period = 0
    BY RoundDateIsLastStart, ClockType
  <2>3. OutDated(out, writer)'
    BY <1>0, <2>1 DEF OutDated, Starts
  <2>4. Starts(writer.date)' /\ (writer.date <= clock)'
    BY <1>0, <2>1, <2>2 DEF Starts
  <2>5. DueAtPeriodEnd' /\ DueForFile'
    BY <2>1 DEF DueAtPeriodEnd, DueForFile
  <2> QED BY <2>3, <2>4, <2>5 DEF Dates, FilesInDateOrder, DatesKnown, OutDated
<1>10. CASE UNCHANGED vars
  BY <1>0, <1>1, <1>10 DEF vars, DueForFile
<1> QED BY <1>2, <1>3, <1>4, <1>5, <1>6, <1>7, <1>8, <1>9, <1>10 DEF Next, Service

LEMMA DatesAlways == Spec => []Dates
<1>1. Init => Dates
  <2> SUFFICES ASSUME Init PROVE Dates
    OBVIOUS
  <2>1. 0 % Period = 0
    BY RoundDateIsLastStart, ClockType
  <2>2. Starts(writer.date) /\ writer.date <= clock
    BY <2>1, ClockType DEF Init, Stdout, Starts
  <2> QED BY <2>2 DEF Init, Stdout, Dates, FilesInDateOrder, DatesKnown, DueAtPeriodEnd, DueForFile
<1>2. TypeOK /\ Dates /\ [Next]_vars => Dates'
  BY StepDates
<1> QED BY <1>1, <1>2, LogTypeCorrect, PTL DEF Spec

(* For every period, clock and configuration, log files are filled in the  *)
(* order of their dates and none is dated in the future, across late       *)
(* rotations, failed opens and restarts.                                   *)
THEOREM FilesFollowTheClock == Spec => []FilesInDateOrder
<1>1. Dates => FilesInDateOrder
  BY DEF Dates
<1> QED BY <1>1, DatesAlways, PTL

(* The file being written is always due at the end of its own period, so   *)
(* that no period is skipped, whichever opens fail.                        *)
THEOREM RotationDue == Spec => []DueAtPeriodEnd
<1>1. Dates => DueAtPeriodEnd
  BY DEF Dates
<1> QED BY <1>1, DatesAlways, PTL
=============================================================================
