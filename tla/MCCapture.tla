----------------------------- MODULE MCCapture -----------------------------
(***************************************************************************)
(* Instances of Capture for TLC.                                           *)
(***************************************************************************)
EXTENDS Capture

MCFile(maxBytes, backups) ==
  [logfile |-> TRUE, strip |-> FALSE, maxBytes |-> maxBytes, backups |-> backups, prints |-> {"letter"}]

\* A stream with a log file that is rotated, truncated or left to grow, also with
\* strip_ansi, and two streams without one, whose program prints everything.
MCConfigs ==
  {MCFile(2, 3), MCFile(2, 1), MCFile(2, 0), MCFile(0, 1)} \cup
  {[MCFile(2, 1) EXCEPT !.strip = TRUE, !.prints = {"esc", "letter"}]} \cup
  [logfile : {FALSE}, strip : BOOLEAN, maxBytes : {0}, backups : {0}, prints : {Kinds}]
=============================================================================
