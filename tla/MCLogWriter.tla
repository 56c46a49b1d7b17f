---------------------------- MODULE MCLogWriter ----------------------------
(***************************************************************************)
(* A small instance of LogWriter: short lines and one as long as the       *)
(* buffer of a file, two units of the clock to a period.                   *)
(***************************************************************************)
EXTENDS LogWriter
=============================================================================
