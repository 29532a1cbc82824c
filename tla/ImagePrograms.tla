---------------------------- MODULE ImagePrograms ----------------------------
(***************************************************************************)
(* The concurrent image programs of Assignment6, of which a user starts    *)
(* one: "sem" (PART2_1bOS), "mutex" (PART2_1aOS), "pipe" (PART2_3OS) or    *)
(* "shm" (Part2_2OS).  The programs share no state; the state of those     *)
(* that do not run stays as it is.                                         *)
(***************************************************************************)
EXTENDS SemPipeline, MutexPipeline, PipePipeline, ShmPipeline

VARIABLE program

imgVars == <<program, semVars, mxVars, ppVars, shmVars>>

Programs == {"sem", "mutex", "pipe", "shm"}

ImgInit ==
  /\ program \in Programs
  /\ SemInit /\ MxInit /\ PpInit /\ ShmInit
  /\ program # "pipe" => ppCapacity = MaxPipeCapacity

\* A step of the program called name.
RunsSem(step) == program = "sem" /\ step /\ UNCHANGED <<program, mxVars, ppVars, shmVars>>
RunsMutex(step) == program = "mutex" /\ step /\ UNCHANGED <<program, semVars, ppVars, shmVars>>
RunsPipe(step) == program = "pipe" /\ step /\ UNCHANGED <<program, semVars, mxVars, shmVars>>
RunsShm(step) == program = "shm" /\ step /\ UNCHANGED <<program, semVars, mxVars, ppVars>>

ImgNext == RunsSem(SemNext) \/ RunsMutex(MxNext) \/ RunsPipe(PpNext) \/ RunsShm(ShmNext)

\* Every thread and process that can take a step eventually does: they are
\* scheduled by the operating system, none has a lower priority than another.
\* Whether a run is interrupted or another one is started is up to the user.
ImgFairness ==
  /\ WF_imgVars(RunsSem(SemMainNext))
  /\ WF_imgVars(RunsSem(SemT1Next))
  /\ WF_imgVars(RunsSem(SemT2Next))
  /\ WF_imgVars(RunsMutex(MxMainStep))
  /\ WF_imgVars(RunsMutex(MxBlurNext))
  /\ WF_imgVars(RunsMutex(MxGrayNext))
  /\ WF_imgVars(RunsPipe(PpParentNext))
  /\ WF_imgVars(RunsPipe(PpChildNext))
  /\ \A k \in Runs : /\ WF_imgVars(RunsShm(ShmParentNext(k)))
                     /\ WF_imgVars(RunsShm(ShmChildNext(k)))

ImgSpec == ImgInit /\ [][ImgNext]_imgVars /\ ImgFairness

-----------------------------------------------------------------------------
\* The image gets written: by the semaphore program and the mutex program
\* always (no lost wake-up, no endless wait for the lock or for a row), by the
\* pipe program when the image fits in the pipe and fork succeeds, and every started run of the
\* shared-memory program ends.
ImgDelivery ==
  /\ program = "sem" => <>semSaved
  /\ program = "mutex" => <>mxSaved
  /\ program = "pipe" /\ PpFits => <>(ppSaved \/ ppParent = "failed")
  /\ \A k \in Runs : shmParent[k] = "mapped" ~> shmParent[k] \in {"exit", "killed"}

=============================================================================
