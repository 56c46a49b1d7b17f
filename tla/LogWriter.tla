----------------------------- MODULE LogWriter -----------------------------
(***************************************************************************)
(* The log writer (services/logger).  Every thread of the proxy sends its  *)
(* log lines into one unbounded channel; the logging service takes them    *)
(* out one by one, writes each through a BufWriter to stdout or to a file, *)
(* and after every line looks whether the file is due for rotation.        *)
(*                                                                         *)
(* A line is its number, in the order lines entered the channel, and its   *)
(* length.  A write that fails part-way is rounded to whole lines.         *)
(***************************************************************************)
EXTENDS Integers, Sequences

CONSTANTS
  Period,      \* a minute, an hour or a day, in units of the clock
  Sizes,       \* lengths of lines
  StdoutBuf,   \* capacity of the BufWriter on stdout
  FileBuf,     \* capacity of the BufWriter on a file
  StartTime,   \* the clock when the program first starts
  MaxTime,     \* bound: the clock
  MaxLines     \* bound: lines that enter the channel

ASSUME BufferType == Sizes \subseteq Nat \ {0} /\ StdoutBuf \in Nat /\ FileBuf \in Nat

ASSUME ClockType == Period \in Nat \ {0} /\ StartTime \in Nat

(* The logging section of the configuration: whether a path is set and     *)
(* whether logging.rotation is something else than `never`.                *)
Logging == [enabled : BOOLEAN, access_logs : BOOLEAN, error_logs : BOOLEAN,
            path : BOOLEAN, rotates : BOOLEAN]

Line == [n : Nat \ {0}, size : Sizes]

(* What a tracing event has that the writer asks about. *)
Event == [error : BOOLEAN, access : BOOLEAN]

(* Where the BufWriter ends; a file that is not dated has date 0. *)
Destination == [kind : {"stdout", "file"}, date : Nat]

Stdout == [kind |-> "stdout", date |-> 0]

VARIABLES
  logging,   \* the configuration; no action changes it
  pc,        \* the service: "prepare", "recv", "rotate" or "open"
  chan,      \* the channel
  writer,    \* what the BufWriter writes to
  buf,       \* what it holds back
  buffered,  \* ... and how many bytes that is
  next_date, \* when to rotate; 0 for never
  clock,
  sent,      \* how many lines entered the channel
  out,       \* history: the lines written, in order, each with where it went
  lost,      \* history: lines that entered the channel and are gone
  trouble    \* history: some output failed, or the process died

vars == <<logging, pc, chan, writer, buf, buffered, next_date, clock, sent, out, lost, trouble>>

-----------------------------------------------------------------------------
(***************************************************************************)
(* Into the channel.                                                       *)
(***************************************************************************)

(* make_writer_for: the second test replaces the result of the first. *)
SkipLog(e) ==
  \/ ~logging.enabled
  \/ ~logging.access_logs /\ e.access
  \/ logging.access_logs /\ ~logging.error_logs /\ e.error

Send(e, size) ==
  IF SkipLog(e) THEN UNCHANGED <<chan, sent>>
  ELSE /\ sent < MaxLines
       /\ sent' = sent + 1
       /\ chan' = Append(chan, [n |-> sent', size |-> size])

(* Any thread logs. *)
Log(e) ==
  /\ ~SkipLog(e)
  /\ \E size \in Sizes : Send(e, size)
  /\ UNCHANGED <<pc, writer, buf, buffered, next_date, clock, out, lost, trouble>>

(* The service's own complaint goes the same way. *)
Complain == \E size \in Sizes : Send([error |-> TRUE, access |-> FALSE], size)

-----------------------------------------------------------------------------
(***************************************************************************)
(* The BufWriter.  Bytes handed to the destination are written or, when    *)
(* that fails, gone: tokio's File and Stdout write in the background and   *)
(* report a failure at a later operation.                                  *)
(***************************************************************************)
Capacity == IF writer.kind = "stdout" THEN StdoutBuf ELSE FileBuf

Numbers(b) == {b[i].n : i \in 1 .. Len(b)}

Written(b) == out \o [i \in 1 .. Len(b) |-> [n |-> b[i].n, to |-> writer]]

(* All of b reaches the destination, or some operation fails and some      *)
(* of b's lines are lost.                                                  *)
HandOver(b) ==
  \/ /\ out' = Written(b)
     /\ UNCHANGED <<lost, trouble>>
  \/ /\ \E k \in 0 .. Len(b) - 1 :
          /\ out' = Written(SubSeq(b, 1, k))
          /\ lost' = lost \cup Numbers(SubSeq(b, k + 1, Len(b)))
     /\ trouble' = TRUE

Fits(line) == buffered + line.size <= Capacity

(* The line goes into the buffer. *)
WriteBuffered(line) ==
  /\ Fits(line) /\ line.size < Capacity
  /\ buf' = Append(buf, line)
  /\ buffered' = buffered + line.size
  /\ UNCHANGED <<out, lost, trouble>>

(* A line as long as the buffer is not held back. *)
WriteDirect(line) ==
  /\ Fits(line) /\ line.size >= Capacity
  /\ HandOver(<<line>>)
  /\ UNCHANGED <<buf, buffered>>

(* There is no room: first the buffer is handed over. *)
WriteAfterFlush(line) ==
  /\ ~Fits(line)
  /\ \/ /\ line.size < Capacity
        /\ HandOver(buf)
        /\ buf' = <<line>>
        /\ buffered' = line.size
     \/ /\ line.size >= Capacity
        /\ HandOver(Append(buf, line))
        /\ buf' = <<>>
        /\ buffered' = 0

(* An earlier failure is reported instead: the buffer stays, the line is   *)
(* gone, `let _ =` ignores the error.                                      *)
WriteFails(line) ==
  /\ ~Fits(line) \/ line.size >= Capacity
  /\ lost' = lost \cup {line.n}
  /\ trouble' = TRUE
  /\ UNCHANGED <<buf, buffered, out>>

BufWrite(line) ==
  WriteBuffered(line) \/ WriteDirect(line) \/ WriteAfterFlush(line) \/ WriteFails(line)

(* Plausible bug: after an error the line is taken again, written or not. *)
RecvAgain ==
  /\ pc = "recv"
  /\ chan # <<>>
  /\ BufWrite(Head(chan))
  /\ chan' = IF trouble' THEN chan ELSE Tail(chan)
  /\ pc' = "rotate"
  /\ UNCHANGED <<writer, next_date, clock, sent>>

(* start_service: receive a line and write it. *)
Recv ==
  /\ pc = "recv"
  /\ chan # <<>>
  /\ BufWrite(Head(chan))
  /\ chan' = Tail(chan)
  /\ pc' = "rotate"
  /\ UNCHANGED <<writer, next_date, clock, sent>>

-----------------------------------------------------------------------------
(***************************************************************************)
(* Rotation.                                                               *)
(***************************************************************************)
RoundDate(t) == t - (t % Period)

(* Plausible bug: a period back. *)
NextDateBack(d) == RoundDate(d - Period)

NextDate(d) == RoundDate(d + Period)

(* Rotation is read from the configuration only when there is a path. *)
Rotating == logging.path /\ logging.rotates

(* Plausible bug: one unit of the clock too early. *)
ShouldRolloverEarly == next_date # 0 /\ clock + 1 >= next_date

ShouldRollover == next_date # 0 /\ clock >= next_date

(* The suffix of the file name says which period the date lies in. *)
FileFor(d) == [kind |-> "file", date |-> IF Rotating THEN RoundDate(d) ELSE 0]

(* Plausible bug: the date moves on before the file is open. *)
FileBufWriterDateFirst(d) ==
  /\ next_date' = IF Rotating THEN NextDate(d) ELSE next_date
  /\ \/ /\ writer' = FileFor(d)
        /\ buf' = <<>> /\ buffered' = 0
        /\ lost' = lost \cup Numbers(buf)
        /\ UNCHANGED <<chan, sent, trouble>>
     \/ /\ Complain
        /\ trouble' = TRUE
        /\ UNCHANGED <<writer, buf, buffered, lost>>

(* file_buf_writer: what the old BufWriter still holds goes with it; if    *)
(* the file cannot be opened everything stays as it was.                   *)
FileBufWriter(d) ==
  \/ /\ writer' = FileFor(d)
     /\ buf' = <<>> /\ buffered' = 0
     /\ lost' = lost \cup Numbers(buf)
     /\ next_date' = IF Rotating THEN NextDate(d) ELSE next_date
     /\ UNCHANGED <<chan, sent, trouble>>
  \/ /\ Complain
     /\ trouble' = TRUE
     /\ UNCHANGED <<writer, buf, buffered, next_date, lost>>

(* prepare_buf_writer, once, when the service starts. *)
PrepareBufWriter ==
  /\ pc = "prepare"
  /\ pc' = "recv"
  /\ \/ logging.path /\ FileBufWriter(clock)
     \/ ~logging.path /\ UNCHANGED <<writer, buf, buffered, next_date, lost, chan, sent, trouble>>
  /\ UNCHANGED <<clock, out>>

(* handle_log_rotation has nothing to do. *)
NoRollover ==
  /\ pc = "rotate"
  /\ ~Rotating \/ ~ShouldRollover
  /\ pc' = "recv"
  /\ UNCHANGED <<chan, writer, buf, buffered, next_date, clock, sent, out, lost, trouble>>

(* Plausible bug: the old BufWriter is dropped without a flush. *)
FlushForgotten ==
  /\ pc = "rotate"
  /\ Rotating /\ ShouldRollover
  /\ pc' = "open"
  /\ UNCHANGED <<chan, writer, buf, buffered, next_date, clock, sent, out, lost, trouble>>

(* It is time: the buffer is flushed; the result is ignored, and the       *)
(* buffer stays full when an earlier failure is reported.                  *)
Flush ==
  /\ pc = "rotate"
  /\ Rotating /\ ShouldRollover
  /\ pc' = "open"
  /\ \/ HandOver(buf) /\ buf' = <<>> /\ buffered' = 0
     \/ trouble' = TRUE /\ UNCHANGED <<buf, buffered, out, lost>>
  /\ UNCHANGED <<chan, writer, next_date, clock, sent>>

(* ... and the file of the next period is opened. *)
Rollover ==
  /\ pc = "open"
  /\ pc' = "recv"
  /\ FileBufWriter(next_date)
  /\ UNCHANGED <<clock, out>>

-----------------------------------------------------------------------------
Tick ==
  /\ clock < MaxTime
  /\ clock' = clock + 1
  /\ UNCHANGED <<pc, chan, writer, buf, buffered, next_date, sent, out, lost, trouble>>

(* The process ends, at any point, and is started again: new() makes the   *)
(* service anew, and what was in the channel and the buffer is gone.       *)
Restart ==
  /\ pc' = "prepare"
  /\ chan' = <<>>
  /\ buf' = <<>> /\ buffered' = 0
  /\ lost' = lost \cup Numbers(chan) \cup Numbers(buf)
  /\ writer' = Stdout
  /\ next_date' = 0
  /\ trouble' = TRUE
  /\ UNCHANGED <<clock, sent, out>>

Init ==
  /\ logging \in Logging
  /\ pc = "prepare"
  /\ chan = <<>>
  /\ writer = Stdout
  /\ buf = <<>> /\ buffered = 0
  /\ next_date = 0
  /\ clock = StartTime
  /\ sent = 0
  /\ out = <<>>
  /\ lost = {}
  /\ trouble = FALSE

Service == PrepareBufWriter \/ Recv \/ NoRollover \/ Flush \/ Rollover

Next ==
  /\ \/ \E e \in Event : Log(e)
     \/ Service
     \/ Tick
     \/ Restart
  /\ UNCHANGED logging

Spec == Init /\ [][Next]_vars

-----------------------------------------------------------------------------
(***************************************************************************)
(* Properties.                                                             *)
(***************************************************************************)

(* Every variable stays in its type. *)
TypeOK ==
  /\ logging \in Logging
  /\ pc \in {"prepare", "recv", "rotate", "open"}
  /\ chan \in Seq(Line)
  /\ writer \in Destination
  /\ buf \in Seq(Line)
  /\ buffered \in Nat
  /\ next_date \in Nat
  /\ clock \in Nat
  /\ sent \in Nat
  /\ out \in Seq([n : Nat \ {0}, to : Destination])
  /\ lost \in SUBSET (Nat \ {0})
  /\ trouble \in BOOLEAN

Increasing(s) == \A i, j \in 1 .. Len(s) : i < j => s[i].n < s[j].n

(* Whatever is buffered, rotated, failed or restarted, lines come out in   *)
(* the order they entered the channel and none comes out twice.            *)
LinesInOrder == Increasing(out)

(* Every line that entered the channel is written, held back, queued or    *)
(* known to be lost: none vanishes unnoticed.  And as long as no output    *)
(* failed and the process lives, none is lost: a rotation takes the whole  *)
(* buffer to the old file before it is dropped.                            *)
NothingDropped ==
  /\ Numbers(out) \cup Numbers(buf) \cup Numbers(chan) \cup lost = 1 .. sent
  /\ ~trouble => lost = {}

(* The numbers of the lines written. *)
Lines == [i \in 1 .. Len(out) |-> out[i].n]

Promise == INSTANCE LineLog WITH written <- Lines

(* Seen from whoever logs, the writer is a log without buffer, rotation    *)
(* and files: each line is settled once, written only after every earlier  *)
(* one is settled, and lost only when there was trouble.                   *)
ImplementsLog == Promise!Spec

(* Files are filled in the order of their dates, through late rotations,   *)
(* catching up after an idle time, failed opens and restarts, and no file  *)
(* is dated in the future.                                                 *)
FilesInDateOrder ==
  /\ \A i, j \in 1 .. Len(out) :
       i < j /\ out[i].to.kind = "file" /\ out[j].to.kind = "file"
         => out[i].to.date <= out[j].to.date
  /\ writer.date <= clock

(* A file that is being written is due exactly when its period ends, so a  *)
(* failed rotation is tried again and no period is left out.               *)
DueAtPeriodEnd == Rotating /\ writer.kind = "file" => next_date = writer.date + Period

-----------------------------------------------------------------------------
(* Inductive strengthening, used by LogWriterProofs.  What is written,     *)
(* buffered and queued follow each other in the order of their numbers.    *)
Before(s, t) == \A i \in 1 .. Len(s), j \in 1 .. Len(t) : s[i].n < t[j].n

AtMost(s, m) == \A i \in 1 .. Len(s) : s[i].n <= m

QueuesInOrder ==
  /\ buf # <<>> => buffered > 0
  /\ Increasing(buf) /\ Increasing(chan)
  /\ Before(out, buf) /\ Before(out, chan) /\ Before(buf, chan)
  /\ AtMost(out, sent) /\ AtMost(buf, sent) /\ AtMost(chan, sent)

(* The BufWriter is replaced only when there is nothing in it, or after    *)
(* an output that failed.                                                  *)
EmptyWhenReplaced ==
  /\ pc = "prepare" => buf = <<>>
  /\ pc = "open" /\ ~trouble => buf = <<>>

(* No line that is written, or may still be, is lost. *)
LostIsGone ==
  /\ lost \cap Numbers(out) = {}
  /\ lost \cap Numbers(buf) = {}
  /\ lost \cap Numbers(chan) = {}

(* Every date is one a period starts at, or 0 without rotation.            *)
Starts(d) == d \in 0 .. clock /\ d % Period = 0 /\ (Rotating \/ d = 0)

DatesKnown ==
  /\ Starts(writer.date)
  /\ \A i \in 1 .. Len(out) :
       /\ Starts(out[i].to.date)
       /\ writer.kind = "file" /\ out[i].to.kind = "file" => out[i].to.date <= writer.date

(* A rotation is due only for a dated file. *)
DueForFile ==
  /\ next_date # 0 => Rotating /\ writer.kind = "file"
  /\ pc = "open" => ShouldRollover
=============================================================================
