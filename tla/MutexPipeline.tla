---------------------------- MODULE MutexPipeline ----------------------------
(***************************************************************************)
(* Assignment6/PART2_1aOS.cpp: the blur thread transforms a row and pushes *)
(* its number on a shared buffer, both under lock_mutex; the grayscale     *)
(* thread pops a number under the lock and transforms that row outside it. *)
(*                                                                         *)
(* The grayscale thread leaves its loop when it finds the buffer empty and *)
(* h * w = 0.  h is the image's height less one for every pixel done; w is *)
(* a global that nothing ever assigns.  The buffer is read for that test   *)
(* without the lock: while the other thread is inside push_back the read   *)
(* is a data race, and either answer is possible.                          *)
(***************************************************************************)
EXTENDS ImageRows

VARIABLES
  mxMain,     \* main: "create1", "create2", "join1", "join2", "save", "exit"
  mxBlur,     \* blur thread: "none", "lock", "blur", "push", "exit"
  mxGray,     \* grayscale thread: "none", "lock", "check", "gray", "recheck", "exit"
  mxLock,     \* who holds lock_mutex: "nobody", "blur", "gray"
  mxRow,      \* the blur thread's loop variable
  mxTaken,    \* the row the grayscale thread popped last
  mxBuffer,   \* the global vector of row numbers
  mxH,        \* the global h
  mxStage,    \* original_pixels
  mxSaved     \* write_ppm has run

mxVars == <<mxMain, mxBlur, mxGray, mxLock, mxRow, mxTaken, mxBuffer, mxH,
            mxStage, mxSaved>>

MxTypeOK ==
  /\ mxMain \in {"create1", "create2", "join1", "join2", "save", "exit"}
  /\ mxBlur \in {"none", "lock", "blur", "push", "exit"}
  /\ mxGray \in {"none", "lock", "check", "gray", "recheck", "exit"}
  /\ mxLock \in {"nobody", "blur", "gray"}
  /\ mxRow \in 0 .. Height
  /\ mxTaken \in Rows
  /\ mxBuffer \in Seq(Rows)
  /\ mxH \in Int
  /\ mxStage \in [Rows -> Stages]
  /\ mxSaved \in BOOLEAN

\* w assigned the width of the image.
MutMxW == Width

\* The global w: zero-initialised, and main reads the width into a local.
MxW == 0

-----------------------------------------------------------------------------
MxInit ==
  /\ mxMain = "create1" /\ mxBlur = "none" /\ mxGray = "none"
  /\ mxLock = "nobody"
  /\ mxRow = 0 /\ mxTaken = 0
  /\ mxBuffer = <<>>
  /\ mxH = Height
  /\ mxStage = read_ppm /\ mxSaved = FALSE

(***************************************************************************)
(* main                                                                    *)
(***************************************************************************)
MxMainStep ==
  /\ \/ /\ mxMain = "create1"
        /\ mxMain' = "create2" /\ mxBlur' = "lock" /\ UNCHANGED <<mxGray, mxSaved>>
     \/ /\ mxMain = "create2"
        /\ mxMain' = "join1" /\ mxGray' = "lock" /\ UNCHANGED <<mxBlur, mxSaved>>
     \/ /\ mxMain = "join1" /\ mxBlur = "exit"
        /\ mxMain' = "join2" /\ UNCHANGED <<mxBlur, mxGray, mxSaved>>
     \/ /\ mxMain = "join2" /\ mxGray = "exit"
        /\ mxMain' = "save" /\ UNCHANGED <<mxBlur, mxGray, mxSaved>>
     \/ /\ mxMain = "save"
        /\ mxMain' = "exit" /\ mxSaved' = TRUE /\ UNCHANGED <<mxBlur, mxGray>>
  /\ UNCHANGED <<mxLock, mxRow, mxTaken, mxBuffer, mxH, mxStage>>

(***************************************************************************)
(* The blur thread: horizontalBlurImage                                    *)
(***************************************************************************)
MxBlurLock ==
  /\ mxBlur = "lock" /\ mxLock = "nobody"
  /\ mxLock' = "blur" /\ mxBlur' = "blur"
  /\ UNCHANGED <<mxMain, mxGray, mxRow, mxTaken, mxBuffer, mxH, mxStage, mxSaved>>

MxBlurRow ==
  /\ mxBlur = "blur"
  /\ mxStage' = [mxStage EXCEPT ![mxRow] = @ + 1]
  /\ mxBlur' = "push"
  /\ UNCHANGED <<mxMain, mxGray, mxLock, mxRow, mxTaken, mxBuffer, mxH, mxSaved>>

\* push_back, unlock and the loop's test.
MxBlurPush ==
  /\ mxBlur = "push"
  /\ mxBuffer' = Append(mxBuffer, mxRow)
  /\ mxLock' = "nobody"
  /\ mxRow' = mxRow + 1
  /\ mxBlur' = IF mxRow + 1 = Height THEN "exit" ELSE "lock"
  /\ UNCHANGED <<mxMain, mxGray, mxTaken, mxH, mxStage, mxSaved>>

(***************************************************************************)
(* The grayscale thread: convert_to_grayscale                              *)
(***************************************************************************)
MxGrayLock ==
  /\ mxGray = "lock" /\ mxLock = "nobody"
  /\ mxLock' = "gray" /\ mxGray' = "check"
  /\ UNCHANGED <<mxMain, mxBlur, mxRow, mxTaken, mxBuffer, mxH, mxStage, mxSaved>>

\* back() without pop_back().
MutMxGrayTake ==
  /\ mxGray = "check" /\ mxBuffer # <<>>
  /\ mxTaken' = mxBuffer[Len(mxBuffer)]
  /\ mxLock' = "nobody" /\ mxGray' = "gray"
  /\ UNCHANGED <<mxMain, mxBlur, mxRow, mxBuffer, mxH, mxStage, mxSaved>>

\* The buffer is a stack: back() and pop_back().
MxGrayTake ==
  /\ mxGray = "check" /\ mxBuffer # <<>>
  /\ mxTaken' = mxBuffer[Len(mxBuffer)]
  /\ mxBuffer' = SubSeq(mxBuffer, 1, Len(mxBuffer) - 1)
  /\ mxLock' = "nobody" /\ mxGray' = "gray"
  /\ UNCHANGED <<mxMain, mxBlur, mxRow, mxH, mxStage, mxSaved>>

MxGrayRow ==
  /\ mxGray = "gray"
  /\ mxStage' = [mxStage EXCEPT ![mxTaken] = @ + 1]
  /\ mxH' = mxH - Width
  /\ mxGray' = "lock"
  /\ UNCHANGED <<mxMain, mxBlur, mxLock, mxRow, mxTaken, mxBuffer, mxSaved>>

MxGrayMiss ==
  /\ mxGray = "check" /\ mxBuffer = <<>>
  /\ mxLock' = "nobody" /\ mxGray' = "recheck"
  /\ UNCHANGED <<mxMain, mxBlur, mxRow, mxTaken, mxBuffer, mxH, mxStage, mxSaved>>

\* buffer.empty() outside the lock.
MxSeenEmpty == IF mxBlur = "push" THEN BOOLEAN ELSE {mxBuffer = <<>>}

\* The second look at the buffer left out.
MutMxGrayRecheck ==
  /\ mxGray = "recheck"
  /\ mxGray' = IF mxH * MxW = 0 THEN "exit" ELSE "lock"
  /\ UNCHANGED <<mxMain, mxBlur, mxLock, mxRow, mxTaken, mxBuffer, mxH, mxStage, mxSaved>>

MxGrayRecheck ==
  /\ mxGray = "recheck"
  /\ \E empty \in MxSeenEmpty :
       mxGray' = IF empty /\ mxH * MxW = 0 THEN "exit" ELSE "lock"
  /\ UNCHANGED <<mxMain, mxBlur, mxLock, mxRow, mxTaken, mxBuffer, mxH, mxStage, mxSaved>>

MxBlurNext == MxBlurLock \/ MxBlurRow \/ MxBlurPush
MxGrayNext == MxGrayLock \/ MxGrayTake \/ MxGrayRow \/ MxGrayMiss \/ MxGrayRecheck

MxNext == MxMainStep \/ MxBlurNext \/ MxGrayNext

MxSpec == MxInit /\ [][MxNext]_mxVars

-----------------------------------------------------------------------------
\* A row is handed over at most once and only blurred: the numbers in the
\* buffer and the row the grayscale thread works on are distinct rows at
\* stage one, and none of them is the row the blur thread works on.
MxHandOver ==
  LET pending == {mxBuffer[i] : i \in DOMAIN mxBuffer}
      taken   == IF mxGray = "gray" THEN {mxTaken} ELSE {}
  IN  /\ MxTypeOK
      /\ Cardinality(pending) = Len(mxBuffer)
      /\ pending \cap taken = {}
      /\ \A r \in pending \cup taken :
           mxStage[r] = Once /\ (mxBlur \in {"blur", "push"} => r # mxRow)

\* When the grayscale thread leaves after the blur thread has, no row is left
\* unfinished: a row pushed between its two looks at the buffer is not lost.
MxLateExitIsComplete ==
  [][mxGray # "exit" /\ mxGray' = "exit" /\ mxBlur = "exit"
       => \A r \in Rows : mxStage[r] = Finished]_mxVars

\* "Break the loop when all rows have been processed" (PART2_1aOS.cpp:94).
MxExitWhenAllProcessed ==
  mxGray = "exit" => \A r \in Rows : mxStage[r] = Finished

=============================================================================
