----------------------------- MODULE ShmPipeline -----------------------------
(***************************************************************************)
(* Assignment6/Part2_2OS.cpp, run several times in a row: a run's child    *)
(* turns rows to grayscale into the shared memory object /updated_pixels   *)
(* and signals the semaphore in the object /my_shared_semaphore; the       *)
(* parent waits for the semaphore once a row, copies the rows, blurs the   *)
(* copies and writes the image.  Both processes then unlink the name       *)
(* /updated_pixels; the semaphore's name is never unlinked, so its object  *)
(* and its value outlive the run.                                          *)
(*                                                                         *)
(* The parent does not wait for the child: the shell starts the next run   *)
(* when the parent is gone, and the last step of the previous child, its   *)
(* unlink, may come at any time in that run.  A run may be interrupted     *)
(* (both its processes die) and leave its objects behind.                  *)
(***************************************************************************)
EXTENDS ImageRows

CONSTANT NRuns   \* bound on the runs considered

ASSUME ShmAssumption == NRuns \in Nat \ {0}

Runs == 1 .. NRuns

VARIABLES
  shmRun,     \* the run in the foreground
  shmParent,  \* shmParent[k]: "idle", "mapped", "fork", "take", "blur", "save",
              \* "unlink", "exit", "killed"
  shmChild,   \* shmChild[k]: "none", "gray", "signal", "unlink", "exit", "killed"
  shmSendRow, \* shmSendRow[k]: the child's loop variable
  shmRecvRow, \* shmRecvRow[k]: the parent's loop variable
  shmName,    \* the object the name /updated_pixels is linked to; 0 for none
  shmMapped,  \* shmMapped[k]: the object run k has mapped; 0 before shm_open
  shmObject,  \* shmObject[o][r]: the run whose gray row r object o holds; 0 for none
  shmSem,     \* the value of the shared semaphore
  shmCopied,  \* shmCopied[k][r]: the run whose gray row r the parent of k copied
  shmBlurred, \* shmBlurred[k]: the rows the parent of k has blurred
  shmSaved    \* shmSaved[k]: run k has written its image

shmVars == <<shmRun, shmParent, shmChild, shmSendRow, shmRecvRow, shmName, shmMapped,
             shmObject, shmSem, shmCopied, shmBlurred, shmSaved>>

ShmParentStates == {"idle", "mapped", "fork", "take", "blur", "save", "unlink",
                    "exit", "killed"}
ShmChildStates  == {"none", "gray", "signal", "unlink", "exit", "killed"}

ShmTypeOK ==
  /\ shmRun \in Runs
  /\ shmParent \in [Runs -> ShmParentStates]
  /\ shmChild \in [Runs -> ShmChildStates]
  /\ shmSendRow \in [Runs -> 0 .. Height]
  /\ shmRecvRow \in [Runs -> 0 .. Height]
  /\ shmName \in {0} \cup Runs
  /\ shmMapped \in [Runs -> {0} \cup Runs]
  /\ shmObject \in [Runs -> [Rows -> {0} \cup Runs]]
  /\ shmSem \in Nat
  /\ shmCopied \in [Runs -> [Rows -> {0} \cup Runs]]
  /\ shmBlurred \in [Runs -> SUBSET Rows]
  /\ shmSaved \in [Runs -> BOOLEAN]

-----------------------------------------------------------------------------
ShmInit ==
  /\ shmRun = 1
  /\ shmParent = [k \in Runs |-> "idle"]
  /\ shmChild = [k \in Runs |-> "none"]
  /\ shmSendRow = [k \in Runs |-> 0]
  /\ shmRecvRow = [k \in Runs |-> 0]
  /\ shmName = 0
  /\ shmMapped = [k \in Runs |-> 0]
  /\ shmObject = [o \in Runs |-> [r \in Rows |-> 0]]
  /\ shmSem = 0
  /\ shmCopied = [k \in Runs |-> [r \in Rows |-> 0]]
  /\ shmBlurred = [k \in Runs |-> {}]
  /\ shmSaved = [k \in Runs |-> FALSE]

(***************************************************************************)
(* main before the fork.  An object is named after the run that creates it.*)
(***************************************************************************)
ShmOpen(k) ==
  /\ k = shmRun /\ shmParent[k] = "idle"
  /\ LET object == IF shmName = 0 THEN k ELSE shmName
     IN  shmName' = object /\ shmMapped' = [shmMapped EXCEPT ![k] = object]
  /\ shmParent' = [shmParent EXCEPT ![k] = "mapped"]
  /\ UNCHANGED <<shmRun, shmChild, shmSendRow, shmRecvRow, shmObject, shmSem,
                 shmCopied, shmBlurred, shmSaved>>

\* The semaphore is initialised only in the run that creates its object.
MutShmSemInit(k) ==
  /\ k = shmRun /\ shmParent[k] = "mapped"
  /\ shmSem' = IF k = 1 THEN 0 ELSE shmSem
  /\ shmParent' = [shmParent EXCEPT ![k] = "fork"]
  /\ UNCHANGED <<shmRun, shmChild, shmSendRow, shmRecvRow, shmName, shmMapped,
                 shmObject, shmCopied, shmBlurred, shmSaved>>

\* sem_init on the semaphore, whatever a former run left in it.
ShmSemInit(k) ==
  /\ k = shmRun /\ shmParent[k] = "mapped"
  /\ shmSem' = 0
  /\ shmParent' = [shmParent EXCEPT ![k] = "fork"]
  /\ UNCHANGED <<shmRun, shmChild, shmSendRow, shmRecvRow, shmName, shmMapped,
                 shmObject, shmCopied, shmBlurred, shmSaved>>

\* fork, or its failure: the process exits and leaves the objects behind.
ShmFork(k) ==
  /\ k = shmRun /\ shmParent[k] = "fork"
  /\ \/ /\ shmParent' = [shmParent EXCEPT ![k] = "take"]
        /\ shmChild' = [shmChild EXCEPT ![k] = "gray"]
     \/ /\ shmParent' = [shmParent EXCEPT ![k] = "killed"]
        /\ UNCHANGED shmChild
  /\ UNCHANGED <<shmRun, shmSendRow, shmRecvRow, shmName, shmMapped, shmObject, shmSem,
                 shmCopied, shmBlurred, shmSaved>>

(***************************************************************************)
(* The child                                                               *)
(***************************************************************************)
ShmGrayRow(k) ==
  /\ shmChild[k] = "gray"
  /\ shmObject' = [shmObject EXCEPT ![shmMapped[k]][shmSendRow[k]] = k]
  /\ shmChild' = [shmChild EXCEPT ![k] = "signal"]
  /\ UNCHANGED <<shmRun, shmParent, shmSendRow, shmRecvRow, shmName, shmMapped, shmSem,
                 shmCopied, shmBlurred, shmSaved>>

ShmSignal(k) ==
  /\ shmChild[k] = "signal"
  /\ shmSem' = shmSem + 1
  /\ shmSendRow' = [shmSendRow EXCEPT ![k] = @ + 1]
  /\ shmChild' = [shmChild EXCEPT
       ![k] = IF shmSendRow[k] + 1 = Height THEN "unlink" ELSE "gray"]
  /\ UNCHANGED <<shmRun, shmParent, shmRecvRow, shmName, shmMapped, shmObject,
                 shmCopied, shmBlurred, shmSaved>>

ShmChildUnlink(k) ==
  /\ shmChild[k] = "unlink"
  /\ shmName' = 0
  /\ shmChild' = [shmChild EXCEPT ![k] = "exit"]
  /\ UNCHANGED <<shmRun, shmParent, shmSendRow, shmRecvRow, shmMapped, shmObject, shmSem,
                 shmCopied, shmBlurred, shmSaved>>

(***************************************************************************)
(* The parent                                                              *)
(***************************************************************************)
\* One wait for the whole image.
MutShmTakeRow(k) ==
  /\ shmParent[k] = "take" /\ (shmSem > 0 \/ shmRecvRow[k] > 0)
  /\ shmSem' = IF shmRecvRow[k] = 0 THEN shmSem - 1 ELSE shmSem
  /\ shmCopied' = [shmCopied EXCEPT
       ![k][shmRecvRow[k]] = shmObject[shmMapped[k]][shmRecvRow[k]]]
  /\ IF shmRecvRow[k] + 1 = Height
       THEN /\ shmParent' = [shmParent EXCEPT ![k] = "blur"]
            /\ shmRecvRow' = [shmRecvRow EXCEPT ![k] = 0]
       ELSE /\ shmRecvRow' = [shmRecvRow EXCEPT ![k] = @ + 1]
            /\ UNCHANGED shmParent
  /\ UNCHANGED <<shmRun, shmChild, shmSendRow, shmName, shmMapped, shmObject,
                 shmBlurred, shmSaved>>

\* sharedSemaphore->wait() and the copy of the row.
ShmTakeRow(k) ==
  /\ shmParent[k] = "take" /\ shmSem > 0
  /\ shmSem' = shmSem - 1
  /\ shmCopied' = [shmCopied EXCEPT
       ![k][shmRecvRow[k]] = shmObject[shmMapped[k]][shmRecvRow[k]]]
  /\ IF shmRecvRow[k] + 1 = Height
       THEN /\ shmParent' = [shmParent EXCEPT ![k] = "blur"]
            /\ shmRecvRow' = [shmRecvRow EXCEPT ![k] = 0]
       ELSE /\ shmRecvRow' = [shmRecvRow EXCEPT ![k] = @ + 1]
            /\ UNCHANGED shmParent
  /\ UNCHANGED <<shmRun, shmChild, shmSendRow, shmName, shmMapped, shmObject,
                 shmBlurred, shmSaved>>

ShmBlurRow(k) ==
  /\ shmParent[k] = "blur"
  /\ shmBlurred' = [shmBlurred EXCEPT ![k] = @ \cup {shmRecvRow[k]}]
  /\ shmRecvRow' = [shmRecvRow EXCEPT ![k] = @ + 1]
  /\ shmParent' = [shmParent EXCEPT
       ![k] = IF shmRecvRow[k] + 1 = Height THEN "save" ELSE "blur"]
  /\ UNCHANGED <<shmRun, shmChild, shmSendRow, shmName, shmMapped, shmObject, shmSem,
                 shmCopied, shmSaved>>

ShmSave(k) ==
  /\ shmParent[k] = "save"
  /\ shmSaved' = [shmSaved EXCEPT ![k] = TRUE]
  /\ shmParent' = [shmParent EXCEPT ![k] = "unlink"]
  /\ UNCHANGED <<shmRun, shmChild, shmSendRow, shmRecvRow, shmName, shmMapped, shmObject,
                 shmSem, shmCopied, shmBlurred>>

ShmParentUnlink(k) ==
  /\ shmParent[k] = "unlink"
  /\ shmName' = 0
  /\ shmParent' = [shmParent EXCEPT ![k] = "exit"]
  /\ UNCHANGED <<shmRun, shmChild, shmSendRow, shmRecvRow, shmMapped, shmObject, shmSem,
                 shmCopied, shmBlurred, shmSaved>>

(***************************************************************************)
(* The shell                                                               *)
(***************************************************************************)
ShmGone(k) == shmParent[k] \in {"exit", "killed"}

\* The foreground run is interrupted.
ShmInterrupt(k) ==
  /\ k = shmRun /\ shmParent[k] # "idle" /\ ~ShmGone(k)
  /\ shmParent' = [shmParent EXCEPT ![k] = "killed"]
  /\ shmChild' = [shmChild EXCEPT ![k] = IF @ \in {"none", "exit"} THEN @ ELSE "killed"]
  /\ UNCHANGED <<shmRun, shmSendRow, shmRecvRow, shmName, shmMapped, shmObject, shmSem,
                 shmCopied, shmBlurred, shmSaved>>

\* The next run starts when the parent of the last one is gone.
ShmNextRun ==
  /\ ShmGone(shmRun) /\ shmRun < NRuns
  /\ shmRun' = shmRun + 1
  /\ UNCHANGED <<shmParent, shmChild, shmSendRow, shmRecvRow, shmName, shmMapped,
                 shmObject, shmSem, shmCopied, shmBlurred, shmSaved>>

ShmParentNext(k) ==
  \/ ShmOpen(k) \/ ShmSemInit(k) \/ ShmFork(k) \/ ShmTakeRow(k)
  \/ ShmBlurRow(k) \/ ShmSave(k) \/ ShmParentUnlink(k)
ShmChildNext(k) == ShmGrayRow(k) \/ ShmSignal(k) \/ ShmChildUnlink(k)

ShmNext ==
  \/ \E k \in Runs : ShmParentNext(k) \/ ShmChildNext(k) \/ ShmInterrupt(k)
  \/ ShmNextRun

ShmSpec == ShmInit /\ [][ShmNext]_shmVars

-----------------------------------------------------------------------------
\* A row the parent of a run has copied is the gray row of that run: neither a
\* row it was not yet given nor one of an earlier run, whatever state an
\* interrupted run or a late child has left the shared objects in.
ShmCopiesOwnRows ==
  /\ ShmTypeOK
  /\ \A k \in Runs, r \in Rows :
       (shmParent[k] = "take" /\ r < shmRecvRow[k]) \/ shmParent[k] \in {"blur", "save", "unlink"}
         => shmCopied[k][r] = k

\* How far run k has got with each row; a gray row counts once it is signalled.
ShmStage(k) ==
  [r \in Rows |->
     IF r \in shmBlurred[k] /\ shmCopied[k][r] = k THEN Finished
     ELSE IF r < shmSendRow[k] THEN Once ELSE Raw]

\* Every run implements the abstract pipeline: it writes its image once, after all
\* rows are gray and blurred, whatever the runs before it did.
ShmRP(k) == INSTANCE RowPipeline WITH stage <- ShmStage(k), saved <- shmSaved[k]
ShmImplementsRows ==
  /\ \A k \in Runs : ShmRP(k)!Init
  /\ [][\A k \in Runs : ShmRP(k)!Next \/ UNCHANGED ShmRP(k)!vars]_shmVars

=============================================================================
