------------------------------ MODULE LogFile ------------------------------
(***************************************************************************)
(* log.c: the log file with its count of bytes and its rotation.  The      *)
(* operators map a log to the log a call leaves behind.  A line is one     *)
(* unit; what it says is left out.                                         *)
(***************************************************************************)
EXTENDS Integers

CONSTANTS
  Threshold,  \* logSizeThreshold, in lines
  DumpSize    \* what log_hexdump writes of a frame, never nothing

ASSUME LogAssumption == Threshold \in Nat \ {0} /\ DumpSize \in Nat \ {0}

(***************************************************************************)
(* open   logfile is not NULL                                              *)
(* size   logSize, the bytes counted                                       *)
(* file   the bytes in $logfileName                                        *)
(* old    the bytes in $logfileName.1                                      *)
(***************************************************************************)
Log == [open : BOOLEAN, size : Nat, file : Nat, old : Nat]

\* What comes of the calls of a rotation: remove() of $logfileName.1, rename()
\* and fopen().  Only the last result is looked at; a file moved replaces the
\* other in any case.
Io == {io \in [removed : BOOLEAN, moved : BOOLEAN, opened : BOOLEAN] : io.moved => io.removed}

\* log_init: append to what an earlier daemon left, of any length.  If it does
\* not open, the daemon goes on without a log file.
LogInit(there, old, ok) ==
  [open |-> ok, size |-> IF ok THEN there ELSE 0, file |-> there, old |-> old]

\* log_rotate: the file replaces $logfileName.1, unless it cannot be moved, and
\* is opened anew, without what is left in it.  When that fails logfile stays
\* NULL, and logSize what it was.
Rotate(l, io) ==
  IF ~l.open THEN l
  ELSE [open |-> io.opened,
        size |-> IF io.opened THEN 0 ELSE l.size,
        file |-> IF io.moved \/ io.opened THEN 0 ELSE l.file,
        old  |-> IF io.moved THEN l.file ELSE IF io.removed THEN 0 ELSE l.old]

\* Faulty variant: the log is rotated one line late.
LogLineLate(l, io) ==
  LET n == [l EXCEPT !.size = IF l.open \/ @ < Threshold THEN @ + 1 ELSE @,
                     !.file = IF l.open THEN @ + 1 ELSE @]
  IN  IF n.size > Threshold THEN Rotate(n, io) ELSE n

\* log_log.  Without a file the count grows on; from Threshold on it says
\* nothing more, and stays there.
LogLine(l, io) ==
  LET n == [l EXCEPT !.size = IF l.open \/ @ < Threshold THEN @ + 1 ELSE @,
                     !.file = IF l.open THEN @ + 1 ELSE @]
  IN  IF n.size >= Threshold THEN Rotate(n, io) ELSE n

\* n lines in a row, of one step.  Such a row is far shorter than the log and
\* rotates it once at most.
LogLines(l, n, io) ==
  LET after[k \in 0 .. n] == IF k = 0 THEN l ELSE LogLine(after[k - 1], io)
  IN  after[n]

\* log_hexdump: into the file, but not into the count.
LogDump(l) == IF l.open THEN [l EXCEPT !.file = @ + DumpSize] ELSE l
=============================================================================
