---------------------------- MODULE PipePipeline -----------------------------
(***************************************************************************)
(* Assignment6/PART2_3OS.cpp: the child process blurs the image and writes *)
(* its rows to a pipe; the parent process waits for the child to exit,     *)
(* then reads the rows from the pipe, turns them to grayscale and writes   *)
(* the image.                                                              *)
(*                                                                         *)
(* A row is RowUnits units of data and the pipe holds ppCapacity units: a  *)
(* write copies unit after unit and blocks while the pipe is full.  A read *)
(* returns what is there, up to a row; the program ignores how much it got.*)
(***************************************************************************)
EXTENDS ImageRows

CONSTANTS
  RowUnits,        \* units of pipe data in a row
  MaxPipeCapacity  \* bound on the capacities considered

ASSUME PipeAssumption ==
  RowUnits \in Nat \ {0} /\ MaxPipeCapacity \in Nat \ {0}

VARIABLES
  ppCapacity,  \* units the pipe holds; fixed
  ppParent,    \* "fork", "wait", "read", "gray", "save", "exit", "failed"
  ppChild,     \* "none", "blur", "write", "close", "exit"
  ppSend,      \* the child's loop variable (blurring, then writing)
  ppUnit,      \* units of row ppSend written so far
  ppPipe,      \* the units in the pipe, each by the row it belongs to
  ppRecv,      \* the parent's loop variable (reading, then grayscale)
  ppBlurred,   \* rows the child has blurred (intermediate_pixels)
  ppRow,       \* ppRow[r]: the units read into row r (updated_pixels)
  ppGray,      \* rows the parent has turned to grayscale (original_pixels)
  ppSaved      \* write_ppm has run

ppVars == <<ppCapacity, ppParent, ppChild, ppSend, ppUnit, ppPipe, ppRecv,
            ppBlurred, ppRow, ppGray, ppSaved>>

PpTypeOK ==
  /\ ppCapacity \in 1 .. MaxPipeCapacity
  /\ ppParent \in {"fork", "wait", "read", "gray", "save", "exit", "failed"}
  /\ ppChild \in {"none", "blur", "write", "close", "exit"}
  /\ ppSend \in 0 .. Height /\ ppRecv \in 0 .. Height
  /\ ppUnit \in 0 .. RowUnits - 1
  /\ ppPipe \in Seq(Rows) /\ Len(ppPipe) <= ppCapacity
  /\ ppBlurred \subseteq Rows /\ ppGray \subseteq Rows
  /\ ppRow \in [Rows -> Seq(Rows)]
  /\ ppSaved \in BOOLEAN

WholeRow(r) == [u \in 1 .. RowUnits |-> r]

-----------------------------------------------------------------------------
PpInit ==
  /\ ppCapacity \in 1 .. MaxPipeCapacity
  /\ ppParent = "fork" /\ ppChild = "none"
  /\ ppSend = 0 /\ ppUnit = 0 /\ ppPipe = <<>> /\ ppRecv = 0
  /\ ppBlurred = {} /\ ppGray = {}
  /\ ppRow = [r \in Rows |-> <<>>]
  /\ ppSaved = FALSE

\* fork, or its failure.
PpFork ==
  /\ ppParent = "fork"
  /\ \/ ppParent' = "wait" /\ ppChild' = "blur"
     \/ ppParent' = "failed" /\ UNCHANGED ppChild
  /\ UNCHANGED <<ppCapacity, ppSend, ppUnit, ppPipe, ppRecv, ppBlurred, ppRow,
                 ppGray, ppSaved>>

(***************************************************************************)
(* The child                                                               *)
(***************************************************************************)
PpBlurRow ==
  /\ ppChild = "blur"
  /\ ppBlurred' = ppBlurred \cup {ppSend}
  /\ IF ppSend + 1 = Height
       THEN ppChild' = "write" /\ ppSend' = 0
       ELSE ppSend' = ppSend + 1 /\ UNCHANGED ppChild
  /\ UNCHANGED <<ppCapacity, ppParent, ppUnit, ppPipe, ppRecv, ppRow, ppGray, ppSaved>>

\* One unit of write(pipefd[1], row).
PpWriteUnit ==
  /\ ppChild = "write" /\ Len(ppPipe) < ppCapacity
  /\ ppPipe' = Append(ppPipe, ppSend)
  /\ IF ppUnit + 1 < RowUnits
       THEN ppUnit' = ppUnit + 1 /\ UNCHANGED <<ppSend, ppChild>>
       ELSE /\ ppUnit' = 0 /\ ppSend' = ppSend + 1
            /\ ppChild' = IF ppSend + 1 = Height THEN "close" ELSE "write"
  /\ UNCHANGED <<ppCapacity, ppParent, ppRecv, ppBlurred, ppRow, ppGray, ppSaved>>

\* close(pipefd[1]) and exit.
PpChildExit ==
  /\ ppChild = "close"
  /\ ppChild' = "exit"
  /\ UNCHANGED <<ppCapacity, ppParent, ppSend, ppUnit, ppPipe, ppRecv, ppBlurred,
                 ppRow, ppGray, ppSaved>>

(***************************************************************************)
(* The parent                                                              *)
(***************************************************************************)
\* wait(NULL) left out, as line 152 has it.
MutPpWaitChild ==
  /\ ppParent = "wait"
  /\ ppParent' = "read"
  /\ UNCHANGED <<ppCapacity, ppChild, ppSend, ppUnit, ppPipe, ppRecv, ppBlurred,
                 ppRow, ppGray, ppSaved>>

\* wait(NULL).
PpWaitChild ==
  /\ ppParent = "wait" /\ ppChild = "exit"
  /\ ppParent' = "read"
  /\ UNCHANGED <<ppCapacity, ppChild, ppSend, ppUnit, ppPipe, ppRecv, ppBlurred,
                 ppRow, ppGray, ppSaved>>

\* read(pipefd[0], row): blocks while the pipe is empty and the child has its
\* write end open; returns at most a row, and nothing at end of file.
PpReadRow ==
  LET n == IF Len(ppPipe) < RowUnits THEN Len(ppPipe) ELSE RowUnits
  IN  /\ ppParent = "read"
      /\ ppPipe # <<>> \/ ppChild = "exit"
      /\ ppRow' = [ppRow EXCEPT ![ppRecv] = SubSeq(ppPipe, 1, n)]
      /\ ppPipe' = SubSeq(ppPipe, n + 1, Len(ppPipe))
      /\ IF ppRecv + 1 = Height
           THEN ppParent' = "gray" /\ ppRecv' = 0
           ELSE ppRecv' = ppRecv + 1 /\ UNCHANGED ppParent
      /\ UNCHANGED <<ppCapacity, ppChild, ppSend, ppUnit, ppBlurred, ppGray, ppSaved>>

PpGrayRow ==
  /\ ppParent = "gray"
  /\ ppGray' = ppGray \cup {ppRecv}
  /\ ppRecv' = ppRecv + 1
  /\ ppParent' = IF ppRecv + 1 = Height THEN "save" ELSE "gray"
  /\ UNCHANGED <<ppCapacity, ppChild, ppSend, ppUnit, ppPipe, ppBlurred, ppRow, ppSaved>>

PpSave ==
  /\ ppParent = "save"
  /\ ppParent' = "exit" /\ ppSaved' = TRUE
  /\ UNCHANGED <<ppCapacity, ppChild, ppSend, ppUnit, ppPipe, ppRecv, ppBlurred,
                 ppRow, ppGray>>

PpChildNext  == PpBlurRow \/ PpWriteUnit \/ PpChildExit
PpParentNext == PpFork \/ PpWaitChild \/ PpReadRow \/ PpGrayRow \/ PpSave

PpNext == PpChildNext \/ PpParentNext

PpSpec == PpInit /\ [][PpNext]_ppVars

-----------------------------------------------------------------------------
\* The image fits in the pipe.
PpFits == Height * RowUnits <= ppCapacity

\* The rows arrive whole or not at all: a row taken for read holds the data of
\* that row, and nothing is read of an image larger than the pipe, as the child
\* blocks in write and the parent in wait, each for the other.
PpRowsWhole ==
  /\ PpTypeOK
  /\ \A r \in Rows : ppRow[r] # <<>> \/ ppParent \in {"gray", "save", "exit"}
       => ppRow[r] = WholeRow(r)
  /\ ~PpFits => ppParent \in {"fork", "wait", "failed"} /\ ppChild # "exit"

=============================================================================
