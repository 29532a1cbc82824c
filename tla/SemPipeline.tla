----------------------------- MODULE SemPipeline -----------------------------
(***************************************************************************)
(* Assignment6/PART2_1bOS.cpp: thread T1 turns rows to grayscale in place, *)
(* thread T2 blurs them in place, and the semaphore t1_semaphore counts    *)
(* the rows T1 has finished and T2 has not yet taken.                      *)
(*                                                                         *)
(* A thread works on its row in the states "gray" and "blur"; both threads *)
(* write the same vector without a lock, so a row both of them work on is  *)
(* a data race.  t2_semaphore is created and destroyed and never used.     *)
(***************************************************************************)
EXTENDS ImageRows

VARIABLES
  semMain,    \* main: "create1", "create2", "join1", "join2", "save", "exit"
  semT1,      \* T1: "none" (not created), "gray", "post", "exit"
  semT2,      \* T2: "none" (not created), "wait", "blur", "exit"
  semY,       \* T1's loop variable y
  semRow,     \* T2's loop variable row
  semCount,   \* the value of t1_semaphore
  semStage,   \* original_pixels
  semSaved    \* write_ppm has run

semVars == <<semMain, semT1, semT2, semY, semRow, semCount, semStage, semSaved>>

SemTypeOK ==
  /\ semMain \in {"create1", "create2", "join1", "join2", "save", "exit"}
  /\ semT1 \in {"none", "gray", "post", "exit"}
  /\ semT2 \in {"none", "wait", "blur", "exit"}
  /\ semY \in 0 .. Height
  /\ semRow \in 0 .. Height
  /\ semCount \in Nat
  /\ semStage \in [Rows -> Stages]
  /\ semSaved \in BOOLEAN

-----------------------------------------------------------------------------
\* A semaphore initialised for mutual exclusion instead of for signalling.
MutSemInit ==
  /\ semMain = "create1" /\ semT1 = "none" /\ semT2 = "none"
  /\ semY = 0 /\ semRow = 0 /\ semCount = 1
  /\ semStage = read_ppm /\ semSaved = FALSE

\* main up to the creation of the threads.
SemInit ==
  /\ semMain = "create1" /\ semT1 = "none" /\ semT2 = "none"
  /\ semY = 0 /\ semRow = 0 /\ semCount = 0
  /\ semStage = read_ppm /\ semSaved = FALSE

(***************************************************************************)
(* main                                                                    *)
(***************************************************************************)
SemCreateT1 ==
  /\ semMain = "create1"
  /\ semMain' = "create2"
  /\ semT1' = "gray"
  /\ UNCHANGED <<semT2, semY, semRow, semCount, semStage, semSaved>>

SemCreateT2 ==
  /\ semMain = "create2"
  /\ semMain' = "join1"
  /\ semT2' = "wait"
  /\ UNCHANGED <<semT1, semY, semRow, semCount, semStage, semSaved>>

SemJoinT1 ==
  /\ semMain = "join1" /\ semT1 = "exit"
  /\ semMain' = "join2"
  /\ UNCHANGED <<semT1, semT2, semY, semRow, semCount, semStage, semSaved>>

\* The second join forgotten.
MutSemJoinT2 ==
  /\ semMain = "join2"
  /\ semMain' = "save"
  /\ UNCHANGED <<semT1, semT2, semY, semRow, semCount, semStage, semSaved>>

SemJoinT2 ==
  /\ semMain = "join2" /\ semT2 = "exit"
  /\ semMain' = "save"
  /\ UNCHANGED <<semT1, semT2, semY, semRow, semCount, semStage, semSaved>>

\* The semaphores are destroyed and the image is written.
SemSave ==
  /\ semMain = "save"
  /\ semMain' = "exit"
  /\ semSaved' = TRUE
  /\ UNCHANGED <<semT1, semT2, semY, semRow, semCount, semStage>>

(***************************************************************************)
(* T1: rgbToGrayscaleThread                                                *)
(***************************************************************************)
SemGrayRow ==
  /\ semT1 = "gray"
  /\ semStage' = [semStage EXCEPT ![semY] = @ + 1]
  /\ semT1' = "post"
  /\ UNCHANGED <<semMain, semT2, semY, semRow, semCount, semSaved>>

SemPost ==
  /\ semT1 = "post"
  /\ semCount' = semCount + 1
  /\ semY' = semY + 1
  /\ semT1' = IF semY + 1 = Height THEN "exit" ELSE "gray"
  /\ UNCHANGED <<semMain, semT2, semRow, semStage, semSaved>>

(***************************************************************************)
(* T2: applyBlur                                                           *)
(***************************************************************************)
\* Blocked while the semaphore is 0.
SemWait ==
  /\ semT2 = "wait" /\ semCount > 0
  /\ semCount' = semCount - 1
  /\ semT2' = "blur"
  /\ UNCHANGED <<semMain, semT1, semY, semRow, semStage, semSaved>>

SemBlurRow ==
  /\ semT2 = "blur"
  /\ semStage' = [semStage EXCEPT ![semRow] = @ + 1]
  /\ semRow' = semRow + 1
  /\ semT2' = IF semRow + 1 = Height THEN "exit" ELSE "wait"
  /\ UNCHANGED <<semMain, semT1, semY, semCount, semSaved>>

SemMainNext == SemCreateT1 \/ SemCreateT2 \/ SemJoinT1 \/ SemJoinT2 \/ SemSave
SemT1Next   == SemGrayRow \/ SemPost
SemT2Next   == SemWait \/ SemBlurRow

SemNext == SemMainNext \/ SemT1Next \/ SemT2Next

SemSpec == SemInit /\ [][SemNext]_semVars

-----------------------------------------------------------------------------
\* The threads never work on the same row, and T2 only on a row T1 has turned
\* to grayscale and left: in-place access without a lock is ordered by the
\* semaphore alone.
SemNoSharedRow ==
  semT2 = "blur" => /\ semStage[semRow] = Once
                    /\ semRow < semY

\* Each row is transformed twice in order, and the image is written once, after
\* every row is finished: the program implements the abstract pipeline.
SemRP == INSTANCE RowPipeline WITH stage <- semStage, saved <- semSaved
SemImplementsRows == SemRP!Spec

=============================================================================
