----------------------------- MODULE ImageProofs -----------------------------
(***************************************************************************)
(* The image programs of Assignment6, for images of any size, pipes of any *)
(* capacity and any number of runs: the rows are handed from one thread or *)
(* process to the other once, whole and in order; and what is proved of    *)
(* each program holds in the composition that TLC checks.                  *)
(***************************************************************************)
EXTENDS ImagePrograms, FiniteSetTheorems, SequenceTheorems, TLAPS

-----------------------------------------------------------------------------
(***************************************************************************)
(* PART2_1bOS.cpp: threads and a semaphore                                 *)
(***************************************************************************)
\* Where the threads are in their loops.
SemLoops ==
  /\ semT1 = "none" => semY = 0
  /\ semT1 \in {"gray", "post"} => semY < Height
  /\ semT1 = "exit" => semY = Height
  /\ semT2 = "none" => semRow = 0
  /\ semT2 \in {"wait", "blur"} => semRow < Height
  /\ semT2 = "exit" => semRow = Height

\* Where main is with respect to the threads.
SemJoins ==
  /\ semMain = "create1" => semT1 = "none"
  /\ semMain \in {"create1", "create2"} => semT2 = "none"
  /\ semMain \in {"join2", "save", "exit"} => semT1 = "exit"
  /\ semMain \in {"save", "exit"} => semT2 = "exit"
  /\ semSaved <=> semMain = "exit"

\* The semaphore counts the rows T1 has posted and T2 has not taken.
SemBalance == semCount + semRow + (IF semT2 = "blur" THEN 1 ELSE 0) = semY

\* What has been done to each row follows from the loop variables.
SemProgress ==
  \A r \in Rows :
    semStage[r] = (IF r < semY \/ (semT1 = "post" /\ r = semY) THEN 1 ELSE 0)
                  + (IF r < semRow THEN 1 ELSE 0)

SemIInv == SemTypeOK /\ SemLoops /\ SemJoins /\ SemBalance /\ SemProgress

USE DEF Rows, Stages, Raw, Once, Finished, read_ppm,
        SemRP!Rows, SemRP!Raw, SemRP!Finished, SemRP!read_ppm

\* The invariant holds when the program starts.
LEMMA SemInvInit == SemInit => SemIInv
<1> SUFFICES ASSUME SemInit PROVE SemIInv
  OBVIOUS
<1> USE ImageAssumption DEF SemInit
<1>1. SemTypeOK
  <2>1. semStage \in [Rows -> Stages]
    BY DEF SemTypeOK
  <2>2. semSaved \in BOOLEAN
    OBVIOUS
  <2>3. 0 \in 0 .. Height
    OBVIOUS
  <2> QED
    BY <2>1, <2>2, <2>3 DEF SemTypeOK
<1>2. SemLoops
  BY DEF SemLoops
<1>3. SemJoins
  BY DEF SemJoins
<1>4. SemBalance
  BY DEF SemBalance
<1>5. SemProgress
  BY DEF SemProgress
<1> QED
  BY <1>1, <1>2, <1>3, <1>4, <1>5 DEF SemIInv

\* Every step of main, of T1 and of T2 preserves the invariant.
LEMMA SemInvStep == SemIInv /\ [SemNext]_semVars => SemIInv'
<1> SUFFICES ASSUME SemIInv, [SemNext]_semVars PROVE SemIInv'
  OBVIOUS
<1> USE ImageAssumption DEF SemIInv, SemTypeOK, SemLoops, SemJoins, SemBalance, SemProgress
<1>1. CASE SemCreateT1
  BY <1>1 DEF SemCreateT1
<1>2. CASE SemCreateT2
  BY <1>2 DEF SemCreateT2
<1>3. CASE SemJoinT1
  BY <1>3 DEF SemJoinT1
<1>4. CASE SemJoinT2
  BY <1>4 DEF SemJoinT2
<1>5. CASE SemSave
  BY <1>5 DEF SemSave
<1>6. CASE SemGrayRow
  BY <1>6 DEF SemGrayRow
<1>7. CASE SemPost
  BY <1>7 DEF SemPost
<1>8. CASE SemWait
  BY <1>8 DEF SemWait
<1>9. CASE SemBlurRow
  <2> USE <1>9 DEF SemBlurRow
  <2>1. semRow \in Rows /\ semRow < semY
    OBVIOUS
  <2>2. semStage[semRow] = Once
    BY <2>1
  <2>3. SemTypeOK'
    BY <2>1, <2>2
  <2>4. SemLoops' /\ SemJoins' /\ SemBalance'
    BY <2>1
  <2>5. SemProgress'
    BY <2>1, <2>2
  <2> QED
    BY <2>3, <2>4, <2>5
<1>10. CASE UNCHANGED semVars
  BY <1>10 DEF semVars
<1> QED
  BY <1>1, <1>2, <1>3, <1>4, <1>5, <1>6, <1>7, <1>8, <1>9, <1>10
     DEF SemNext, SemMainNext, SemT1Next, SemT2Next

\* The invariant of the semaphore program.
LEMMA SemInvariant == SemSpec => []SemIInv
  BY SemInvInit, SemInvStep, PTL DEF SemSpec

\* The values of the variables stay in their domains; in particular the
\* semaphore is never decremented below zero.
THEOREM SemTypeCorrect == SemSpec => []SemTypeOK
<1>1. SemIInv => SemTypeOK
  BY DEF SemIInv
<1> QED
  BY <1>1, SemInvariant, PTL

\* The two threads never work on the same row: T2 only works on rows T1 has
\* transformed and left.
THEOREM SemRaceFree == SemSpec => []SemNoSharedRow
<1>1. SemIInv => SemNoSharedRow
  BY ImageAssumption DEF SemIInv, SemTypeOK, SemLoops, SemBalance, SemProgress,
     SemNoSharedRow
<1> QED
  BY <1>1, SemInvariant, PTL

\* Every step of the program is a step of the abstract pipeline or leaves the
\* abstract state alone.
LEMMA SemStepRefines ==
  SemIInv /\ [SemNext]_semVars => [SemRP!Next]_(SemRP!vars)
<1> SUFFICES ASSUME SemIInv, [SemNext]_semVars
             PROVE  SemRP!Next \/ UNCHANGED SemRP!vars
  OBVIOUS
<1> USE ImageAssumption DEF SemIInv, SemTypeOK, SemLoops, SemJoins, SemBalance, SemProgress
<1>1. CASE SemGrayRow
  <2>1. SemRP!Transform(semY)
    BY <1>1 DEF SemGrayRow, SemRP!Transform
  <2>2. semY \in Rows
    BY <1>1 DEF SemGrayRow
  <2> QED
    BY <2>1, <2>2 DEF SemRP!Next
<1>2. CASE SemBlurRow
  <2>1. SemRP!Transform(semRow)
    BY <1>2 DEF SemBlurRow, SemRP!Transform
  <2>2. semRow \in Rows
    BY <1>2 DEF SemBlurRow
  <2> QED
    BY <2>1, <2>2 DEF SemRP!Next
<1>3. CASE SemSave
  <2>1. \A r \in Rows : semStage[r] = Finished
    BY <1>3 DEF SemSave
  <2> QED
    BY <2>1, <1>3 DEF SemSave, SemRP!Save, SemRP!Next
<1>4. CASE SemCreateT1 \/ SemCreateT2 \/ SemJoinT1 \/ SemJoinT2 \/ SemPost \/ SemWait
           \/ UNCHANGED semVars
  BY <1>4 DEF SemCreateT1, SemCreateT2, SemJoinT1, SemJoinT2, SemPost, SemWait, semVars,
     SemRP!vars
<1> QED
  BY <1>1, <1>2, <1>3, <1>4 DEF SemNext, SemMainNext, SemT1Next, SemT2Next

\* The semaphore program implements the abstract pipeline: two transformations
\* of every row, in order, each once, and one image, written after the last.
THEOREM SemRefinement == SemSpec => SemImplementsRows
<1>1. SemInit => SemRP!Init
  BY DEF SemInit, SemRP!Init
<1> QED
  BY <1>1, SemInvariant, SemStepRefines, PTL DEF SemSpec, SemImplementsRows, SemRP!Spec

HIDE DEF Rows, Stages, Raw, Once, Finished, read_ppm,
         SemRP!Rows, SemRP!Raw, SemRP!Finished, SemRP!read_ppm

-----------------------------------------------------------------------------
(***************************************************************************)
(* PART2_1aOS.cpp: threads and a mutex                                     *)
(***************************************************************************)
MxPending == {mxBuffer[i] : i \in DOMAIN mxBuffer}
MxTakenRows == IF mxGray = "gray" THEN {mxTaken} ELSE {}

\* Where main is with respect to the threads.
MxJoins ==
  /\ mxMain = "create1" <=> mxBlur = "none"
  /\ mxMain \in {"create1", "create2"} <=> mxGray = "none"
  /\ mxMain \in {"join2", "save", "exit"} => mxBlur = "exit"
  /\ mxMain \in {"save", "exit"} => mxGray = "exit"

\* lock_mutex is held by a thread exactly while it is where it may hold it.
MxLocking ==
  /\ mxLock = "blur" <=> mxBlur \in {"blur", "push"}
  /\ mxLock = "gray" <=> mxGray = "check"

\* Where the blur thread is in its loop.
MxLoop ==
  /\ mxBlur = "none" => mxRow = 0
  /\ mxRow = Height <=> mxBlur = "exit"

\* What has been done to each row: nothing yet from the blur thread's row on,
\* and below it both transformations, but for the rows handed over.
MxProgress ==
  /\ \A r \in Rows : r > mxRow => mxStage[r] = Raw
  /\ mxRow < Height => mxStage[mxRow] = IF mxBlur = "push" THEN Once ELSE Raw
  /\ \A r \in Rows : r < mxRow =>
       mxStage[r] = IF r \in MxPending \cup MxTakenRows THEN Once ELSE Finished
  /\ \A r \in MxPending \cup MxTakenRows : r < mxRow

\* No row is on the buffer twice, nor while the grayscale thread works on it.
MxHanded ==
  /\ \A i, j \in DOMAIN mxBuffer : mxBuffer[i] = mxBuffer[j] => i = j
  /\ MxPending \cap MxTakenRows = {}

MxIInv == MxTypeOK /\ MxJoins /\ MxLocking /\ MxLoop /\ MxProgress /\ MxHanded

\* The rows of a buffer one row longer, and of one without its last row.
LEMMA MxPush ==
  ASSUME NEW s \in Seq(Rows), NEW e \in Rows
  PROVE  {Append(s, e)[i] : i \in DOMAIN Append(s, e)} = {s[i] : i \in DOMAIN s} \cup {e}
<1>1. DOMAIN s = 1 .. Len(s) /\ DOMAIN Append(s, e) = 1 .. Len(s) + 1
  OBVIOUS
<1>2. \A i \in 1 .. Len(s) : Append(s, e)[i] = s[i]
  OBVIOUS
<1>3. Append(s, e)[Len(s) + 1] = e /\ Len(s) \in Nat
  OBVIOUS
<1> QED
  BY <1>1, <1>2, <1>3

\* A buffer without repetition loses the row that is popped, and only that.
LEMMA MxPop ==
  ASSUME NEW s \in Seq(Rows), s # <<>>, \A i, j \in DOMAIN s : s[i] = s[j] => i = j,
         NEW t \in Seq(Rows), t = SubSeq(s, 1, Len(s) - 1)
  PROVE  /\ DOMAIN t = 1 .. Len(s) - 1
         /\ \A i \in DOMAIN t : t[i] = s[i]
         /\ {t[i] : i \in DOMAIN t} = {s[i] : i \in DOMAIN s} \ {s[Len(s)]}
         /\ s[Len(s)] \in {s[i] : i \in DOMAIN s}
<1>1. Len(s) \in Nat \ {0} /\ DOMAIN s = 1 .. Len(s)
  OBVIOUS
<1>2. DOMAIN t = 1 .. Len(s) - 1 /\ \A i \in DOMAIN t : t[i] = s[i]
  BY <1>1
<1>3. {t[i] : i \in DOMAIN t} = {s[i] : i \in DOMAIN s} \ {s[Len(s)]}
  <2>1. \A i \in 1 .. Len(s) - 1 : i \in DOMAIN s /\ s[i] # s[Len(s)]
    BY <1>1
  <2>2. \A i \in DOMAIN s : i # Len(s) => i \in 1 .. Len(s) - 1
    BY <1>1
  <2> QED
    BY <1>1, <1>2, <2>1, <2>2
<1>4. Len(s) \in DOMAIN s
  BY <1>1
<1> QED
  BY <1>2, <1>3, <1>4, Zenon

\* A buffer without repetition has as many rows as it is long.
LEMMA MxCount ==
  ASSUME NEW s \in Seq(Rows), \A i, j \in DOMAIN s : s[i] = s[j] => i = j
  PROVE  Cardinality({s[i] : i \in DOMAIN s}) = Len(s)
<1> DEFINE S == {s[i] : i \in DOMAIN s}
<1>1. Len(s) \in Nat /\ DOMAIN s = 1 .. Len(s) /\ s \in [1 .. Len(s) -> S]
  OBVIOUS
<1>2. s \in Bijection(1 .. Len(s), S)
  <2>1. \A e \in S : \E i \in 1 .. Len(s) : s[i] = e
    BY <1>1
  <2>2. \A i, j \in 1 .. Len(s) : s[i] = s[j] => i = j
    BY <1>1
  <2> HIDE DEF S
  <2>3. s \in Injection(1 .. Len(s), S) /\ s \in Surjection(1 .. Len(s), S)
    BY <1>1, <2>1, <2>2, SMT DEF Injection, Surjection, IsInjective
  <2> QED
    BY <2>3, Zenon DEF Bijection
<1> HIDE DEF S
<1>3. ExistsBijection(1 .. Len(s), S)
  BY <1>2 DEF ExistsBijection
<1>4. Cardinality(S) = Len(s)
  BY <1>1, <1>3, FS_CountingElements
<1> QED
  BY <1>4 DEF S

\* The invariant holds when the program starts.
LEMMA MxInvInit == MxInit => MxIInv
<1> SUFFICES ASSUME MxInit PROVE MxIInv
  OBVIOUS
<1> USE ImageAssumption DEF MxInit, Rows, Stages, Raw, read_ppm
<1>1. MxTypeOK
  <2>1. mxStage \in [Rows -> Stages] /\ mxBuffer \in Seq(Rows) /\ mxTaken \in Rows /\ mxRow \in 0 .. Height
    OBVIOUS
  <2>2. mxH \in Int /\ mxSaved \in BOOLEAN
    OBVIOUS
  <2> QED
    BY <2>1, <2>2 DEF MxTypeOK
<1>2. MxJoins /\ MxLocking /\ MxLoop
  BY DEF MxJoins, MxLocking, MxLoop
<1>3. MxPending = {} /\ MxTakenRows = {}
  BY DEF MxPending, MxTakenRows
<1>4. MxProgress /\ MxHanded
  BY <1>3 DEF MxProgress, MxHanded
<1> QED
  BY <1>1, <1>2, <1>4 DEF MxIInv

\* Every step of main and of the two threads preserves it.
LEMMA MxInvStep == MxIInv /\ [MxNext]_mxVars => MxIInv'
<1> SUFFICES ASSUME MxIInv, [MxNext]_mxVars PROVE MxIInv'
  OBVIOUS
<1> USE ImageAssumption DEF MxIInv, Rows, Stages, Raw, Once, Finished
<1>1. MxTypeOK /\ MxJoins /\ MxLocking /\ MxLoop /\ MxProgress /\ MxHanded
  OBVIOUS
<1>2. CASE MxMainStep
  <2> USE <1>2 DEF MxMainStep
  <2>1. MxTypeOK' /\ MxLocking' /\ MxJoins' /\ MxLoop'
    BY DEF MxTypeOK, MxLocking, MxJoins, MxLoop
  <2>2. MxPending' = MxPending /\ MxTakenRows' = MxTakenRows
    BY DEF MxPending, MxTakenRows, MxJoins
  <2>3. MxProgress'
    BY <2>2 DEF MxProgress, MxTypeOK, MxJoins
  <2>4. MxHanded'
    BY <2>2 DEF MxHanded
  <2> QED
    BY <2>1, <2>3, <2>4
<1>3. CASE MxBlurLock
  <2> USE <1>3 DEF MxBlurLock
  <2>1. MxTypeOK' /\ MxLocking' /\ MxJoins' /\ MxLoop'
    BY DEF MxTypeOK, MxLocking, MxJoins, MxLoop
  <2>2. MxPending' = MxPending /\ MxTakenRows' = MxTakenRows
    BY DEF MxPending, MxTakenRows
  <2>3. MxProgress' /\ MxHanded'
    BY <2>2 DEF MxProgress, MxHanded, MxTypeOK
  <2> QED
    BY <2>1, <2>3
<1>4. CASE MxBlurRow
  <2> USE <1>4 DEF MxBlurRow
  <2>1. mxRow \in Rows /\ mxStage[mxRow] = Raw
    BY DEF MxTypeOK, MxLoop, MxProgress
  <2>2. MxTypeOK' /\ MxLocking' /\ MxJoins' /\ MxLoop'
    BY <2>1 DEF MxTypeOK, MxLocking, MxJoins, MxLoop
  <2>3. MxPending' = MxPending /\ MxTakenRows' = MxTakenRows
    BY DEF MxPending, MxTakenRows
  <2>4. mxStage'[mxRow] = Once /\ \A r \in Rows : r # mxRow => mxStage'[r] = mxStage[r]
    BY <2>1 DEF MxTypeOK
  <2>5. MxProgress' /\ MxHanded'
    BY <2>1, <2>3, <2>4 DEF MxProgress, MxHanded, MxTypeOK
  <2> QED
    BY <2>2, <2>5
<1>5. CASE MxBlurPush
  <2> USE <1>5 DEF MxBlurPush
  <2>1. mxRow \in Rows /\ mxStage[mxRow] = Once
    BY DEF MxTypeOK, MxLoop, MxProgress
  <2>2. MxTypeOK' /\ MxLocking' /\ MxJoins' /\ MxLoop'
    BY <2>1 DEF MxTypeOK, MxLocking, MxJoins, MxLoop
  <2>3. MxPending' = MxPending \cup {mxRow} /\ MxTakenRows' = MxTakenRows
    <3>1. mxBuffer \in Seq(Rows) /\ mxBuffer' = Append(mxBuffer, mxRow)
      BY DEF MxTypeOK
    <3>2. MxPending' = {Append(mxBuffer, mxRow)[i] : i \in DOMAIN Append(mxBuffer, mxRow)}
      BY <3>1, Zenon DEF MxPending
    <3>3. MxPending' = MxPending \cup {mxRow}
      BY <3>1, <3>2, <2>1, MxPush, Zenon DEF MxPending
    <3> QED
      BY <3>3 DEF MxTakenRows
  <2>4. mxRow \notin MxPending \cup MxTakenRows
    BY <2>1 DEF MxProgress
  <2>5. MxProgress'
    <3>1. mxRow' = mxRow + 1 /\ mxStage' = mxStage /\ mxBlur' # "push"
      OBVIOUS
    <3> QED
      <4>1. \A r \in Rows : r > mxRow' => mxStage'[r] = Raw
        BY <2>1, <3>1 DEF MxProgress
      <4>2. mxRow' < Height => mxStage'[mxRow'] = Raw
        BY <2>1, <3>1 DEF MxProgress
      <4>3. \A r \in Rows : r < mxRow' => r < mxRow \/ r = mxRow
        BY <2>1, <3>1
      <4>4. \A r \in Rows : r < mxRow' =>
              mxStage'[r] = IF r \in MxPending' \cup MxTakenRows' THEN Once ELSE Finished
        BY <2>1, <2>3, <3>1, <4>3 DEF MxProgress
      <4>5. \A r \in MxPending' \cup MxTakenRows' : r < mxRow'
        <5>1. \A r \in MxPending \cup MxTakenRows : r < mxRow /\ r \in Rows
          BY DEF MxProgress, MxTypeOK, MxPending, MxTakenRows
        <5> QED
          BY <2>1, <2>3, <3>1, <5>1
      <4> QED
        BY <3>1, <4>1, <4>2, <4>4, <4>5, Zenon DEF MxProgress
  <2>6. \A i, j \in DOMAIN mxBuffer' : mxBuffer'[i] = mxBuffer'[j] => i = j
    <3>1. mxBuffer \in Seq(Rows) /\ mxBuffer' = Append(mxBuffer, mxRow)
      BY DEF MxTypeOK
    <3>2. DOMAIN mxBuffer = 1 .. Len(mxBuffer) /\ DOMAIN mxBuffer' = 1 .. Len(mxBuffer) + 1
      BY <3>1, <2>1
    <3>3. /\ \A i \in 1 .. Len(mxBuffer) : mxBuffer'[i] = mxBuffer[i] /\ mxBuffer[i] # mxRow
          /\ mxBuffer'[Len(mxBuffer) + 1] = mxRow
      BY <3>1, <3>2, <2>1, <2>4 DEF MxPending
    <3>4. \A i \in DOMAIN mxBuffer' : i \in 1 .. Len(mxBuffer) \/ i = Len(mxBuffer) + 1
      BY <3>1, <3>2
    <3> QED
      BY <3>2, <3>3, <3>4 DEF MxHanded
  <2>7. MxHanded'
    BY <2>3, <2>4, <2>6 DEF MxHanded
  <2> QED
    BY <2>2, <2>5, <2>7
<1>6. CASE MxGrayLock
  <2> USE <1>6 DEF MxGrayLock
  <2>1. MxTypeOK' /\ MxLocking' /\ MxJoins' /\ MxLoop'
    BY DEF MxTypeOK, MxLocking, MxJoins, MxLoop
  <2>2. MxPending' = MxPending /\ MxTakenRows' = MxTakenRows
    BY DEF MxPending, MxTakenRows
  <2>3. MxProgress' /\ MxHanded'
    BY <2>2 DEF MxProgress, MxHanded, MxTypeOK
  <2> QED
    BY <2>1, <2>3
<1>7. CASE MxGrayTake
  <2> USE <1>7 DEF MxGrayTake
  <2> DEFINE last == mxBuffer[Len(mxBuffer)]
  <2>1. /\ mxBuffer' \in Seq(Rows) /\ DOMAIN mxBuffer' = 1 .. Len(mxBuffer) - 1
        /\ \A i \in DOMAIN mxBuffer' : mxBuffer'[i] = mxBuffer[i]
        /\ MxPending' = MxPending \ {last} /\ last \in MxPending
    <3>1. mxBuffer \in Seq(Rows) /\ mxBuffer # <<>>
             /\ \A i, j \in DOMAIN mxBuffer : mxBuffer[i] = mxBuffer[j] => i = j
      BY DEF MxTypeOK, MxHanded
    <3>2. mxBuffer' = SubSeq(mxBuffer, 1, Len(mxBuffer) - 1)
      OBVIOUS
    <3>3. MxPending' = {mxBuffer'[i] : i \in DOMAIN mxBuffer'}
      BY Zenon DEF MxPending
    <3> HIDE <1>7 DEF MxGrayTake
    <3>5. mxBuffer' \in Seq(Rows)
      BY <3>1, <3>2
    <3>4. /\ DOMAIN mxBuffer' = 1 .. Len(mxBuffer) - 1
          /\ \A i \in DOMAIN mxBuffer' : mxBuffer'[i] = mxBuffer[i]
          /\ {mxBuffer'[i] : i \in DOMAIN mxBuffer'}
               = {mxBuffer[i] : i \in DOMAIN mxBuffer} \ {mxBuffer[Len(mxBuffer)]}
          /\ mxBuffer[Len(mxBuffer)] \in {mxBuffer[i] : i \in DOMAIN mxBuffer}
      BY <3>1, <3>2, <3>5, MxPop
    <3> QED
      BY <3>3, <3>4, <3>5 DEF MxPending
  <2>2. MxTakenRows = {} /\ MxTakenRows' = {last}
    BY DEF MxTakenRows
  <2>3. last \in Rows
    BY <2>1 DEF MxTypeOK, MxPending
  <2>4. MxTypeOK' /\ MxLocking' /\ MxJoins' /\ MxLoop'
    BY <2>1, <2>3 DEF MxTypeOK, MxLocking, MxJoins, MxLoop
  <2>5. MxPending' \cup MxTakenRows' = MxPending \cup MxTakenRows
    BY <2>1, <2>2
  <2>6. MxProgress'
    <3> HIDE DEF last
    <3> QED
      BY <2>5 DEF MxProgress
  <2>7. MxHanded'
    <3>1. \A i \in DOMAIN mxBuffer' : i \in DOMAIN mxBuffer
      BY <2>1 DEF MxTypeOK
    <3> QED
      BY <2>1, <2>2, <3>1 DEF MxHanded
  <2> QED
    BY <2>4, <2>6, <2>7
<1>8. CASE MxGrayRow
  <2> USE <1>8 DEF MxGrayRow
  <2>1. MxPending' = MxPending /\ MxTakenRows = {mxTaken} /\ MxTakenRows' = {}
    BY DEF MxPending, MxTakenRows
  <2>2. mxTaken \in Rows /\ mxTaken < mxRow /\ mxStage[mxTaken] = Once /\ mxTaken \notin MxPending
    BY <2>1 DEF MxTypeOK, MxProgress, MxHanded
  <2>3. mxStage'[mxTaken] = Finished /\ \A r \in Rows : r # mxTaken => mxStage'[r] = mxStage[r]
    BY <2>2 DEF MxTypeOK
  <2>4. MxTypeOK' /\ MxLocking' /\ MxJoins' /\ MxLoop'
    BY <2>2 DEF MxTypeOK, MxLocking, MxJoins, MxLoop
  <2>5. MxProgress'
    BY <2>1, <2>2, <2>3 DEF MxProgress, MxTypeOK
  <2>6. MxHanded'
    BY <2>1 DEF MxHanded
  <2> QED
    BY <2>4, <2>5, <2>6
<1>9. CASE MxGrayMiss \/ MxGrayRecheck
  <2> USE <1>9 DEF MxGrayMiss, MxGrayRecheck
  <2>1. mxGray' \in {"recheck", "exit", "lock"} /\ mxGray \in {"check", "recheck"}
    OBVIOUS
  <2>2. MxTypeOK' /\ MxLocking' /\ MxJoins' /\ MxLoop'
    BY <2>1 DEF MxTypeOK, MxLocking, MxJoins, MxLoop
  <2>3. MxPending' = MxPending /\ MxTakenRows' = MxTakenRows
    BY <2>1 DEF MxPending, MxTakenRows
  <2>4. MxProgress' /\ MxHanded'
    BY <2>3 DEF MxProgress, MxHanded, MxTypeOK
  <2> QED
    BY <2>2, <2>4
<1>10. CASE UNCHANGED mxVars
  <2> USE <1>10 DEF mxVars
  <2>1. MxTypeOK' /\ MxLocking' /\ MxJoins' /\ MxLoop'
    BY DEF MxTypeOK, MxLocking, MxJoins, MxLoop
  <2>2. MxPending' = MxPending /\ MxTakenRows' = MxTakenRows
    BY DEF MxPending, MxTakenRows
  <2>3. MxProgress' /\ MxHanded'
    BY <2>2 DEF MxProgress, MxHanded
  <2> QED
    BY <2>1, <2>3
<1> QED
  BY <1>2, <1>3, <1>4, <1>5, <1>6, <1>7, <1>8, <1>9, <1>10 DEF MxNext, MxBlurNext, MxGrayNext

\* The invariant of the mutex program.
LEMMA MxInvariant == MxSpec => []MxIInv
  BY MxInvInit, MxInvStep, PTL DEF MxSpec

\* The rows on the buffer and the one the grayscale thread works on are distinct
\* rows that are blurred and not gray, none of them the blur thread's row: a
\* row is handed over once, and no row is worked on by both threads.
THEOREM MxHandOverSafe == MxSpec => []MxHandOver
<1>1. MxIInv => MxHandOver
  <2> SUFFICES ASSUME MxIInv PROVE MxHandOver
    OBVIOUS
  <2>1. Cardinality(MxPending) = Len(mxBuffer)
    BY MxCount DEF MxIInv, MxTypeOK, MxHanded, MxPending
  <2>2. \A r \in MxPending \cup MxTakenRows : r \in Rows /\ r < mxRow /\ mxStage[r] = Once
    BY DEF MxIInv, MxTypeOK, MxProgress, MxPending, MxTakenRows
  <2>3. MxPending \cap MxTakenRows = {}
    BY DEF MxIInv, MxHanded
  <2>4. \A r \in MxPending \cup MxTakenRows : r # mxRow
    BY <2>2 DEF MxIInv, MxTypeOK, Rows
  <2> QED
    BY <2>1, <2>2, <2>3, <2>4 DEF MxIInv, MxHandOver, MxPending, MxTakenRows
<1> QED
  BY <1>1, MxInvariant, PTL

\* A grayscale thread that leaves after the blur thread leaves a finished image,
\* although it looks at the buffer without the lock.
THEOREM MxNoRowLost == MxSpec => MxLateExitIsComplete
<1> DEFINE Complete ==
      mxGray # "exit" /\ mxGray' = "exit" /\ mxBlur = "exit"
        => \A r \in Rows : mxStage[r] = Finished
<1>1. MxIInv /\ [MxNext]_mxVars => [Complete]_mxVars
  <2> SUFFICES ASSUME MxIInv, MxNext,
                      mxGray # "exit", mxGray' = "exit", mxBlur = "exit",
                      NEW r \in Rows
               PROVE  mxStage[r] = Finished
    OBVIOUS
  <2>1. MxGrayRecheck
    BY DEF MxNext, MxMainStep, MxBlurNext, MxBlurLock, MxBlurRow, MxBlurPush,
       MxGrayNext, MxGrayLock, MxGrayTake, MxGrayRow, MxGrayMiss
  <2>2. mxBuffer = <<>> /\ mxGray = "recheck"
    BY <2>1 DEF MxGrayRecheck, MxSeenEmpty
  <2>3. MxPending = {} /\ MxTakenRows = {}
    BY <2>2 DEF MxPending, MxTakenRows
  <2>4. mxRow = Height
    BY DEF MxIInv, MxLoop
  <2> QED
    BY <2>3, <2>4, ImageAssumption DEF MxIInv, MxProgress, Rows
<1> QED
  BY <1>1, MxInvariant, PTL DEF MxSpec, MxLateExitIsComplete

-----------------------------------------------------------------------------
(***************************************************************************)
(* PART2_3OS.cpp: processes and a pipe                                     *)
(***************************************************************************)
\* Where the two processes are in their loops, and with respect to each other.
PpOrder ==
  /\ ppChild = "none" <=> ppParent \in {"fork", "failed"}
  /\ ppParent \in {"read", "gray", "save", "exit"} => ppChild = "exit"
  /\ ppChild = "none" => ppSend = 0
  /\ ppChild \in {"blur", "write"} => ppSend < Height
  /\ ppChild \in {"none", "blur"} => ppUnit = 0 /\ ppPipe = <<>>
  /\ ppChild \in {"close", "exit"} => ppSend = Height /\ ppUnit = 0
  /\ ppParent \in {"read", "gray"} => ppRecv < Height

\* The pipe holds the units of the rows from base on, row after row.
PpInOrder(base) ==
  \A r \in Rows, u \in 1 .. RowUnits :
    r >= base /\ (r - base) * RowUnits + u <= Len(ppPipe)
      => ppPipe[(r - base) * RowUnits + u] = r

\* Nothing is read before the child has gone: till then the pipe holds all that
\* was written, and from then on all that is still to be read.
PpInPipe ==
  /\ ppParent \in {"fork", "wait", "failed"} =>
       /\ ppChild \in {"write", "close", "exit"} =>
            Len(ppPipe) = ppSend * RowUnits + ppUnit /\ PpInOrder(0)
       /\ \A r \in Rows : ppRow[r] = <<>>
       /\ ppRecv = 0
  /\ ppParent = "read" =>
       /\ Len(ppPipe) = (Height - ppRecv) * RowUnits /\ PpInOrder(ppRecv)
       /\ \A r \in Rows : ppRow[r] = IF r < ppRecv THEN WholeRow(r) ELSE <<>>
  /\ ppParent \in {"gray", "save", "exit"} => \A r \in Rows : ppRow[r] = WholeRow(r)
  /\ ppChild \in {"close", "exit"} => PpFits

PpIInv == PpTypeOK /\ PpOrder /\ PpInPipe


\* The place of a unit determines its row.
LEMMA PpPlace ==
  ASSUME NEW n \in Nat \ {0}, NEW a \in Int, NEW b \in Int, NEW u \in 1 .. n, NEW v \in 1 .. n,
         a * n + u = b * n + v
  PROVE  a = b
<1>1. \A x, y \in Int : x < y => (x + 1) * n <= y * n
  <2> SUFFICES ASSUME NEW x \in Int, NEW y \in Int, x < y PROVE (x + 1) * n <= y * n
    OBVIOUS
  <2>1. y * n - (x + 1) * n = (y - x - 1) * n
    OBVIOUS
  <2>2. y - x - 1 \in Nat /\ (y - x - 1) * n \in Nat
    OBVIOUS
  <2> QED
    BY <2>1, <2>2
<1>2. \A x \in Int : (x + 1) * n = x * n + n /\ x * n \in Int
  OBVIOUS
<1>3. ~(a < b)
  <2> SUFFICES ASSUME a < b PROVE FALSE
    OBVIOUS
  <2>1. a * n + n <= b * n
    BY <1>1, <1>2
  <2> QED
    BY <2>1, <1>2
<1>4. ~(b < a)
  <2> SUFFICES ASSUME b < a PROVE FALSE
    OBVIOUS
  <2>1. b * n + n <= a * n
    BY <1>1, <1>2
  <2> QED
    BY <2>1, <1>2
<1> QED
  BY <1>3, <1>4

\* One more row and one less.
LEMMA PpProducts ==
  /\ \A x \in Int : x * RowUnits \in Int /\ (x + 1) * RowUnits = x * RowUnits + RowUnits
                    /\ (x - 1) * RowUnits = x * RowUnits - RowUnits
  /\ \A x \in Nat : x * RowUnits \in Nat
  /\ 0 * RowUnits = 0
  BY PipeAssumption

\* The invariant holds when the program starts.
LEMMA PpInvInit == PpInit => PpIInv
<1> SUFFICES ASSUME PpInit PROVE PpIInv
  OBVIOUS
<1> USE ImageAssumption, PipeAssumption DEF PpInit
<1>1. PpTypeOK
  <2>1. ppRow \in [Rows -> Seq(Rows)] /\ ppPipe \in Seq(Rows) /\ Len(ppPipe) = 0
    OBVIOUS
  <2>2. 0 \in 0 .. Height /\ 0 \in 0 .. RowUnits - 1
    OBVIOUS
  <2>3. ppCapacity \in Nat /\ 0 <= ppCapacity
    OBVIOUS
  <2>4. ppSaved \in BOOLEAN
    OBVIOUS
  <2> QED
    BY <2>1, <2>2, <2>3, <2>4 DEF PpTypeOK
<1>2. PpOrder
  BY DEF PpOrder
<1>3. PpInPipe
  BY DEF PpInPipe
<1> QED
  BY <1>1, <1>2, <1>3 DEF PpIInv

\* Every step of the parent and of the child preserves it.
LEMMA PpInvStep == PpIInv /\ [PpNext]_ppVars => PpIInv'
<1> SUFFICES ASSUME PpIInv, [PpNext]_ppVars PROVE PpIInv'
  OBVIOUS
<1> USE ImageAssumption, PipeAssumption
<1>1. PpTypeOK /\ PpOrder /\ PpInPipe
  BY DEF PpIInv
<1>2. CASE PpFork
  <2>1. PpTypeOK' /\ PpOrder'
    BY <1>1, <1>2 DEF PpFork, PpTypeOK, PpOrder
  <2>2. PpInPipe'
    BY <1>1, <1>2 DEF PpFork, PpOrder, PpInPipe
  <2> QED
    BY <2>1, <2>2 DEF PpIInv
<1>3. CASE PpBlurRow
  <2> USE <1>3 DEF PpBlurRow
  <2>1. ppSend \in Rows /\ ppParent = "wait" /\ ppPipe = <<>> /\ ppUnit = 0
    BY <1>1 DEF PpTypeOK, PpOrder, Rows
  <2>2. PpTypeOK'
    BY <1>1, <2>1 DEF PpTypeOK, Rows
  <2>3. PpOrder'
    BY <1>1, <2>1 DEF PpTypeOK, PpOrder, Rows
  <2>4. PpInOrder(0)' /\ (ppChild' = "write" => Len(ppPipe') = ppSend' * RowUnits + ppUnit')
    <3>1. ppPipe' = <<>> /\ Len(ppPipe') = 0 /\ (ppChild' = "write" => ppSend' = 0 /\ ppUnit' = 0)
      BY <2>1
    <3>2. \A r \in Rows, u \in 1 .. RowUnits : (r - 0) * RowUnits + u > 0
      BY PpProducts DEF Rows
    <3>3. PpInOrder(0)'
      <4> SUFFICES ASSUME NEW r \in Rows, NEW u \in 1 .. RowUnits,
                          (r - 0) * RowUnits + u <= Len(ppPipe')
                   PROVE  FALSE
        BY DEF PpInOrder
      <4>1. (r - 0) * RowUnits + u \in Int /\ (r - 0) * RowUnits + u > 0
        BY <3>2, PpProducts DEF Rows
      <4> QED
        BY <3>1, <4>1
    <3> QED
      BY <3>1, <3>3, PpProducts
  <2>5. PpInPipe'
    BY <1>1, <2>1, <2>4 DEF PpInPipe
  <2> QED
    BY <2>2, <2>3, <2>5 DEF PpIInv
<1>4. CASE PpWriteUnit
  <2> USE <1>4 DEF PpWriteUnit
  <2>1. /\ ppSend \in Rows /\ ppParent = "wait" /\ ppUnit \in 0 .. RowUnits - 1
        /\ ppPipe \in Seq(Rows) /\ ppCapacity \in Nat
        /\ Len(ppPipe) = ppSend * RowUnits + ppUnit /\ PpInOrder(0)
    BY <1>1 DEF PpTypeOK, PpOrder, PpInPipe, Rows
  <2>2. ppPipe' \in Seq(Rows) /\ Len(ppPipe') = Len(ppPipe) + 1
    BY <2>1
  <2>3. PpTypeOK'
    <3>1. ppUnit' \in 0 .. RowUnits - 1 /\ ppSend' \in 0 .. Height
      BY <2>1 DEF Rows
    <3>2. Len(ppPipe') <= ppCapacity' /\ ppChild' \in {"write", "close"}
      BY <2>1, <2>2
    <3> QED
      BY <1>1, <2>2, <3>1, <3>2 DEF PpTypeOK
  <2>4. PpOrder'
    BY <1>1, <2>1 DEF PpTypeOK, PpOrder, Rows
  <2>5. Len(ppPipe') = ppSend' * RowUnits + ppUnit'
    <3>1. (ppSend + 1) * RowUnits = ppSend * RowUnits + RowUnits /\ ppSend * RowUnits \in Int
      BY <2>1, PpProducts DEF Rows
    <3>2. CASE ppUnit + 1 < RowUnits
      BY <2>1, <2>2, <3>1, <3>2
    <3>3. CASE ~(ppUnit + 1 < RowUnits)
      BY <2>1, <2>2, <3>1, <3>3
    <3> QED
      BY <3>2, <3>3
  <2>6. PpInOrder(0)'
    <3> SUFFICES ASSUME NEW r \in Rows, NEW u \in 1 .. RowUnits,
                        (r - 0) * RowUnits + u <= Len(ppPipe')
                 PROVE  ppPipe'[(r - 0) * RowUnits + u] = r
      BY DEF PpInOrder
    <3> DEFINE i == (r - 0) * RowUnits + u
    <3>1. i \in 1 .. Len(ppPipe) + 1 /\ Len(ppPipe) \in Nat
      BY <2>1, <2>2, PpProducts DEF Rows
    <3>2. CASE i <= Len(ppPipe)
      <4>1. ppPipe[i] = r
        <5>1. r >= 0
          BY DEF Rows
        <5> QED
          BY <5>1, <2>1, <3>2, Zenon DEF PpInOrder
      <4> HIDE DEF i
      <4>2. i \in 1 .. Len(ppPipe)
        BY <3>1, <3>2
      <4> QED
        BY <4>1, <4>2, <2>1 DEF i
    <3>3. CASE i = Len(ppPipe) + 1
      <4>1. r * RowUnits + u = ppSend * RowUnits + (ppUnit + 1)
        BY <2>1, <3>3, PpProducts DEF Rows
      <4>2. r = ppSend
        <5>1. r \in Int /\ ppSend \in Int /\ ppUnit + 1 \in 1 .. RowUnits
          BY <2>1 DEF Rows
        <5> QED
          BY <4>1, <5>1, PpPlace
      <4>3. ppPipe'[Len(ppPipe) + 1] = ppSend
        BY <2>1
      <4> QED
        BY <3>3, <4>2, <4>3
    <3> QED
      BY <3>1, <3>2, <3>3
  <2>7. ppChild' = "close" => PpFits'
    <3> SUFFICES ASSUME ppChild' = "close" PROVE Height * RowUnits <= ppCapacity
      BY DEF PpFits
    <3>1. ppSend' = Height /\ ppUnit' = 0
      BY <2>1
    <3>2. Len(ppPipe') <= ppCapacity
      BY <2>1, <2>2
    <3> QED
      BY <2>5, <3>1, <3>2, PpProducts
  <2>8. PpInPipe'
    <3>1. ppChild' \in {"write", "close"} /\ ppParent' = "wait" /\ ppRow' = ppRow /\ ppRecv' = ppRecv
      BY <2>1
    <3> QED
      BY <1>1, <2>1, <2>5, <2>6, <2>7, <3>1 DEF PpInPipe
  <2> QED
    BY <2>3, <2>4, <2>8 DEF PpIInv
<1>5. CASE PpChildExit
  <2>1. PpTypeOK' /\ PpOrder'
    BY <1>1, <1>5 DEF PpChildExit, PpTypeOK, PpOrder
  <2>2. PpInPipe'
    BY <1>1, <1>5 DEF PpChildExit, PpOrder, PpInPipe, PpInOrder, PpFits
  <2> QED
    BY <2>1, <2>2 DEF PpIInv
<1>6. CASE PpWaitChild
  <2>1. PpTypeOK' /\ PpOrder'
    BY <1>1, <1>6 DEF PpWaitChild, PpTypeOK, PpOrder, PpInPipe
  <2>2. Len(ppPipe) = (Height - ppRecv) * RowUnits /\ PpInOrder(0) /\ ppRecv = 0
    BY <1>1, <1>6, PpProducts DEF PpWaitChild, PpOrder, PpInPipe
  <2>3. PpInPipe'
    <3>1. \A r \in Rows : ~(r < 0)
      BY DEF Rows
    <3> QED
    BY <1>1, <1>6, <2>2, <3>1 DEF PpWaitChild, PpOrder, PpInPipe, PpInOrder, PpFits
  <2> QED
    BY <2>1, <2>3 DEF PpIInv
<1>7. CASE PpReadRow
  <2> DEFINE n == IF Len(ppPipe) < RowUnits THEN Len(ppPipe) ELSE RowUnits
  <2>1. /\ ppRecv \in Rows /\ ppChild = "exit" /\ PpInOrder(ppRecv)
        /\ Len(ppPipe) = (Height - ppRecv) * RowUnits
        /\ ppPipe \in Seq(Rows) /\ Len(ppPipe) \in Nat
        /\ \A r \in Rows : ppRow[r] = IF r < ppRecv THEN WholeRow(r) ELSE <<>>
    BY <1>1, <1>7 DEF PpReadRow, PpTypeOK, PpOrder, PpInPipe, Rows
  <2>2. RowUnits <= Len(ppPipe) /\ n = RowUnits
    <3>1. Height - ppRecv - 1 \in Nat
      BY <2>1 DEF Rows
    <3>2. (Height - ppRecv - 1) * RowUnits \in Nat
      BY <3>1, PpProducts
    <3>3. (Height - ppRecv - 1) * RowUnits = (Height - ppRecv) * RowUnits - RowUnits
      <4> DEFINE h == Height - ppRecv
      <4>1. h \in Int
        BY <2>1 DEF Rows
      <4> HIDE DEF h
      <4>2. (h - 1) * RowUnits = h * RowUnits - RowUnits
        BY <4>1, PpProducts
      <4> QED
        BY <4>2 DEF h
    <3>4. (Height - ppRecv) * RowUnits \in Int
      BY <2>1
    <3> HIDE DEF n
    <3>5. RowUnits <= Len(ppPipe)
      BY <2>1, <3>2, <3>3, <3>4
    <3> QED
      BY <2>1, <3>5 DEF n
  <2>3. /\ ppRow' = [ppRow EXCEPT ![ppRecv] = SubSeq(ppPipe, 1, RowUnits)]
        /\ ppPipe' = SubSeq(ppPipe, RowUnits + 1, Len(ppPipe))
        /\ IF ppRecv + 1 = Height
             THEN ppParent' = "gray" /\ ppRecv' = 0
             ELSE ppRecv' = ppRecv + 1 /\ UNCHANGED ppParent
        /\ UNCHANGED <<ppCapacity, ppChild, ppSend, ppUnit, ppBlurred, ppGray, ppSaved>>
    BY <1>7, <2>2 DEF PpReadRow
  <2> HIDE DEF n
  <2>4. /\ ppPipe' \in Seq(Rows) /\ Len(ppPipe') = Len(ppPipe) - RowUnits
        /\ \A i \in 1 .. Len(ppPipe') : ppPipe'[i] = ppPipe[i + RowUnits]
    BY <2>1, <2>2, <2>3
  <2>5. SubSeq(ppPipe, 1, RowUnits) = WholeRow(ppRecv)
    <3>1. /\ SubSeq(ppPipe, 1, RowUnits) \in Seq(Rows) /\ Len(SubSeq(ppPipe, 1, RowUnits)) = RowUnits
          /\ \A u \in 1 .. RowUnits : SubSeq(ppPipe, 1, RowUnits)[u] = ppPipe[u]
      BY <2>1, <2>2
    <3>2. \A u \in 1 .. RowUnits : ppPipe[u] = ppRecv
      <4> SUFFICES ASSUME NEW u \in 1 .. RowUnits PROVE ppPipe[u] = ppRecv
        OBVIOUS
      <4>1. ppRecv - ppRecv = 0 /\ (ppRecv - ppRecv) * RowUnits + u = u /\ ppRecv >= ppRecv
        BY <2>1, PpProducts DEF Rows
      <4>2. u <= Len(ppPipe)
        BY <2>1, <2>2
      <4> QED
        BY <2>1, <4>1, <4>2 DEF PpInOrder
    <3> QED
      BY <3>1, <3>2 DEF WholeRow
  <2>6. ppRow' \in [Rows -> Seq(Rows)] /\ \A r \in Rows :
          ppRow'[r] = IF r < ppRecv + 1 THEN WholeRow(r) ELSE <<>>
    <3>1. ppRow \in [Rows -> Seq(Rows)] /\ SubSeq(ppPipe, 1, RowUnits) \in Seq(Rows)
      BY <1>1, <2>1, <2>2 DEF PpTypeOK
    <3>2. \A r \in Rows : r # ppRecv => (r < ppRecv + 1 <=> r < ppRecv)
      BY <2>1 DEF Rows
    <3>3. ppRow' = [ppRow EXCEPT ![ppRecv] = WholeRow(ppRecv)] /\ WholeRow(ppRecv) \in Seq(Rows)
      BY <2>3, <2>5, <3>1, Zenon
    <3>4. ppRow'[ppRecv] = WholeRow(ppRecv) /\ ppRecv < ppRecv + 1
      BY <2>1, <3>1, <3>3 DEF Rows
    <3>5. \A r \in Rows : r # ppRecv => ppRow'[r] = ppRow[r]
      BY <3>1, <3>3
    <3> QED
      BY <2>1, <3>1, <3>2, <3>3, <3>4, <3>5
  <2>7. PpTypeOK'
    <3>1. ppParent' \in {"read", "gray"} /\ ppRecv' \in 0 .. Height
      BY <1>7, <2>1, <2>3 DEF PpReadRow, Rows
    <3>2. Len(ppPipe') <= ppCapacity'
      <4>1. Len(ppPipe) <= ppCapacity /\ ppCapacity \in Nat /\ ppCapacity' = ppCapacity
        BY <1>1, <2>3 DEF PpTypeOK
      <4> QED
        BY <2>1, <2>4, <4>1
    <3> QED
      BY <1>1, <2>3, <2>4, <2>6, <3>1, <3>2 DEF PpTypeOK
  <2>8. PpOrder'
    <3>1. ppParent' \in {"read", "gray"} /\ ppRecv' \in 0 .. Height - 1
      BY <1>7, <2>1, <2>3 DEF PpReadRow, Rows
    <3>2. ppRecv' < Height
      BY <3>1
    <3>3. ppChild' = "exit" /\ ppSend' = ppSend /\ ppUnit' = ppUnit
      BY <2>1, <2>3
    <3> QED
      BY <1>1, <2>1, <3>1, <3>2, <3>3, Zenon DEF PpOrder
  <2>9. PpInPipe'
    <3>1. PpFits'
      BY <1>1, <2>1, <2>3 DEF PpInPipe, PpFits
    <3>2. CASE ppRecv + 1 = Height
      <4>1. \A r \in Rows : r < ppRecv + 1
        BY <3>2 DEF Rows
      <4>2. \A r \in Rows : ppRow'[r] = WholeRow(r)
        BY <2>6, <4>1
      <4> QED
        BY <3>1, <3>2, <2>3, <4>2, <2>1 DEF PpInPipe
    <3>3. CASE ppRecv + 1 # Height
      <4>1. ppRecv' = ppRecv + 1 /\ ppParent' = "read"
        BY <1>7, <2>3, <3>3 DEF PpReadRow
      <4>2. Len(ppPipe') = (Height - ppRecv') * RowUnits
        <5>1. Height - ppRecv' = (Height - ppRecv) - 1 /\ Height - ppRecv \in Int
          BY <4>1, <2>1 DEF Rows
        <5> QED
          BY <5>1, <2>1, <2>4, PpProducts
      <4>3. PpInOrder(ppRecv)'
        <5> SUFFICES ASSUME NEW r \in Rows, NEW u \in 1 .. RowUnits, r >= ppRecv',
                            (r - ppRecv') * RowUnits + u <= Len(ppPipe')
                     PROVE  ppPipe'[(r - ppRecv') * RowUnits + u] = r
          BY DEF PpInOrder
        <5> DEFINE i == (r - ppRecv') * RowUnits + u
                   j == (r - ppRecv) * RowUnits + u
        <5>1. r - ppRecv' = (r - ppRecv) - 1 /\ r - ppRecv' \in Nat /\ r - ppRecv \in Int /\ r >= ppRecv
          BY <4>1, <2>1 DEF Rows
        <5>2. j = i + RowUnits /\ i \in 1 .. Len(ppPipe')
          BY <5>1, PpProducts, <2>4, <2>1
        <5>3. j <= Len(ppPipe)
          BY <5>2, <2>4, <2>1
        <5>4. ppPipe[j] = r
          BY <5>1, <5>3, <2>1 DEF PpInOrder
        <5> HIDE DEF i, j
        <5>5. ppPipe'[i] = ppPipe[j]
          BY <5>2, <2>4
        <5> QED
          BY <5>4, <5>5 DEF i
      <4> QED
        BY <3>1, <4>1, <4>2, <4>3, <2>6 DEF PpInPipe
    <3> QED
      BY <3>2, <3>3
  <2> QED
    BY <2>7, <2>8, <2>9 DEF PpIInv
<1>8. CASE PpGrayRow
  <2>1. ppRecv \in Rows
    BY <1>1, <1>8 DEF PpGrayRow, PpTypeOK, PpOrder, Rows
  <2>2. PpTypeOK'
    BY <1>1, <1>8, <2>1 DEF PpGrayRow, PpTypeOK, Rows
  <2>3. PpOrder'
    BY <1>1, <1>8, <2>1 DEF PpGrayRow, PpTypeOK, PpOrder, Rows
  <2>4. PpInPipe'
    BY <1>1, <1>8 DEF PpGrayRow, PpInPipe, PpFits
  <2> QED
    BY <2>2, <2>3, <2>4 DEF PpIInv
<1>9. CASE PpSave
  <2>1. PpTypeOK' /\ PpOrder'
    BY <1>1, <1>9 DEF PpSave, PpTypeOK, PpOrder
  <2>2. PpInPipe'
    BY <1>1, <1>9 DEF PpSave, PpInPipe, PpFits
  <2> QED
    BY <2>1, <2>2 DEF PpIInv
<1>10. CASE UNCHANGED ppVars
  <2>1. PpTypeOK' /\ PpOrder'
    BY <1>1, <1>10 DEF ppVars, PpTypeOK, PpOrder
  <2>2. PpInPipe'
    BY <1>1, <1>10 DEF ppVars, PpInPipe, PpFits, PpInOrder
  <2> QED
    BY <2>1, <2>2 DEF PpIInv
<1> QED
  BY <1>2, <1>3, <1>4, <1>5, <1>6, <1>7, <1>8, <1>9, <1>10 DEF PpNext, PpChildNext, PpParentNext

\* The invariant of the pipe program.
LEMMA PpInvariant == PpSpec => []PpIInv
  BY PpInvInit, PpInvStep, PTL DEF PpSpec

\* The rows arrive whole or not at all, whatever the pipe holds: an image that
\* does not fit in the pipe never gets past the parent's wait.
THEOREM PpRowsArriveWhole == PpSpec => []PpRowsWhole
<1>1. PpIInv => PpRowsWhole
  <2> SUFFICES ASSUME PpIInv PROVE PpRowsWhole
    OBVIOUS
  <2>1. PpTypeOK /\ PpOrder /\ PpInPipe
    BY DEF PpIInv
  <2>2. ASSUME NEW r \in Rows, ppRow[r] # <<>> \/ ppParent \in {"gray", "save", "exit"}
        PROVE  ppRow[r] = WholeRow(r)
    BY <2>1, <2>2 DEF PpTypeOK, PpInPipe
  <2>3. ~PpFits => ppParent \in {"fork", "wait", "failed"} /\ ppChild # "exit"
    BY <2>1 DEF PpTypeOK, PpInPipe, PpOrder
  <2> QED
    BY <2>1, <2>2, <2>3 DEF PpRowsWhole
<1> QED
  BY <1>1, PpInvariant, PTL

-----------------------------------------------------------------------------
(***************************************************************************)
(* Part2_2OS.cpp: processes and shared memory                              *)
(***************************************************************************)
\* Runs come one after the other: those before the one in the foreground have
\* lost their parent, those after it have not started.
ShmOrder ==
  \A k \in Runs : /\ k < shmRun => ShmGone(k)
                  /\ k > shmRun => shmParent[k] = "idle"

\* Where the two processes of run k are, with respect to each other.
ShmPhase(k) ==
  /\ shmParent[k] \in {"idle", "mapped", "fork"} =>
       shmChild[k] = "none" /\ shmSendRow[k] = 0 /\ shmRecvRow[k] = 0
  /\ shmParent[k] = "take" => shmChild[k] \in {"gray", "signal", "unlink", "exit"}
  /\ shmParent[k] \in {"blur", "save", "unlink", "exit"} => shmChild[k] \in {"unlink", "exit"}
  /\ shmParent[k] = "killed" => shmChild[k] \in {"none", "exit", "killed"}
  /\ shmParent[k] \in {"take", "blur"} => shmRecvRow[k] < Height
  /\ shmChild[k] \in {"gray", "signal"} => shmSendRow[k] < Height
  /\ shmChild[k] \in {"unlink", "exit"} => shmSendRow[k] = Height
  /\ shmParent[k] # "idle" => shmMapped[k] \in Runs

\* What the shared objects hold while run k uses them: the semaphore counts the
\* rows the child has signalled and the parent has not taken, and these rows
\* are in the object the run has mapped.
ShmShared(k) ==
  /\ shmParent[k] = "fork" => shmSem = 0
  /\ shmParent[k] = "take" => shmSem = shmSendRow[k] - shmRecvRow[k]
  /\ shmParent[k] = "take" =>
       \A r \in Rows : r < shmSendRow[k] \/ (shmChild[k] = "signal" /\ r = shmSendRow[k])
         => shmObject[shmMapped[k]][r] = k

\* What the parent of run k has done.
ShmDone(k) ==
  /\ shmParent[k] \in {"idle", "mapped", "fork", "take"} =>
       shmBlurred[k] = {} /\ shmSaved[k] = FALSE
  /\ shmParent[k] = "take" => \A r \in Rows : r < shmRecvRow[k] => shmCopied[k][r] = k
  /\ shmParent[k] \in {"blur", "save", "unlink"} => \A r \in Rows : shmCopied[k][r] = k
  /\ shmParent[k] = "blur" =>
       shmBlurred[k] = {r \in Rows : r < shmRecvRow[k]} /\ shmSaved[k] = FALSE
  /\ shmParent[k] = "save" => shmBlurred[k] = Rows /\ shmSaved[k] = FALSE

ShmRunOK(k) == ShmPhase(k) /\ ShmShared(k) /\ ShmDone(k)

ShmIInv == ShmTypeOK /\ ShmOrder /\ \A k \in Runs : ShmRunOK(k)

\* Only the run in the foreground has a parent at work, and so a child that
\* writes rows.
LEMMA ShmForeground ==
  ASSUME ShmIInv, NEW k \in Runs
  PROVE  /\ shmParent[k] \in {"mapped", "fork", "take", "blur", "save", "unlink"} => k = shmRun
         /\ shmChild[k] \in {"gray", "signal"} => shmParent[k] = "take"
<1>1. shmRun \in Int /\ k \in Int /\ shmParent[k] \in ShmParentStates
  BY DEF ShmIInv, ShmTypeOK, Runs
<1>2. shmParent[k] \in {"mapped", "fork", "take", "blur", "save", "unlink"} => k = shmRun
  BY <1>1 DEF ShmIInv, ShmOrder, ShmGone
<1>3. shmChild[k] \in {"gray", "signal"} => shmParent[k] = "take"
  BY <1>1 DEF ShmIInv, ShmRunOK, ShmPhase, ShmParentStates
<1> QED
  BY <1>2, <1>3

\* A run none of whose variables changes, nor the shared objects while it uses
\* them, stays as it should be.
LEMMA ShmFrame ==
  ASSUME NEW j \in Runs, ShmRunOK(j),
         shmParent'[j] = shmParent[j], shmChild'[j] = shmChild[j],
         shmSendRow'[j] = shmSendRow[j], shmRecvRow'[j] = shmRecvRow[j],
         shmMapped'[j] = shmMapped[j], shmCopied'[j] = shmCopied[j],
         shmBlurred'[j] = shmBlurred[j], shmSaved'[j] = shmSaved[j],
         shmParent[j] \in {"fork", "take"} => shmSem' = shmSem /\ shmObject' = shmObject
  PROVE  ShmRunOK(j)'
<1>1. ShmPhase(j)'
  BY DEF ShmRunOK, ShmPhase
<1>2. ShmShared(j)'
  BY DEF ShmRunOK, ShmShared
<1>3. ShmDone(j)'
  BY DEF ShmRunOK, ShmDone
<1> QED
  BY <1>1, <1>2, <1>3 DEF ShmRunOK

\* The invariant holds before the first run.
LEMMA ShmInvInit == ShmInit => ShmIInv
<1> SUFFICES ASSUME ShmInit PROVE ShmIInv
  OBVIOUS
<1> USE ImageAssumption, ShmAssumption DEF ShmInit, Runs
<1>1. ShmTypeOK
  BY DEF ShmTypeOK, ShmParentStates, ShmChildStates, Rows
<1>2. ShmOrder
  BY DEF ShmOrder
<1>3. ASSUME NEW k \in Runs PROVE ShmRunOK(k)
  <2>1. ShmPhase(k)
    BY <1>3 DEF ShmPhase
  <2>2. ShmShared(k)
    BY <1>3 DEF ShmShared
  <2>3. ShmDone(k)
    BY <1>3 DEF ShmDone
  <2> QED
    BY <2>1, <2>2, <2>3 DEF ShmRunOK
<1> QED
  BY <1>1, <1>2, <1>3 DEF ShmIInv

\* Every step keeps the variables in their domains.
LEMMA ShmTypeStep == ShmIInv /\ [ShmNext]_shmVars => ShmTypeOK'
<1> SUFFICES ASSUME ShmIInv, [ShmNext]_shmVars PROVE ShmTypeOK'
  OBVIOUS
<1> USE ImageAssumption DEF ShmTypeOK, ShmParentStates, ShmChildStates
<1>1. ShmTypeOK
  BY DEF ShmIInv
<1>2. ASSUME NEW k \in Runs, ShmOpen(k) PROVE ShmTypeOK'
  BY <1>1, <1>2 DEF ShmOpen
<1>3. ASSUME NEW k \in Runs, ShmSemInit(k) PROVE ShmTypeOK'
  BY <1>1, <1>3 DEF ShmSemInit
<1>4. ASSUME NEW k \in Runs, ShmFork(k) PROVE ShmTypeOK'
  BY <1>1, <1>4 DEF ShmFork
<1>5. ASSUME NEW k \in Runs, ShmTakeRow(k) PROVE ShmTypeOK'
  <2> USE <1>5 DEF ShmTakeRow
  <2>1. shmRecvRow[k] \in Rows /\ shmMapped[k] \in Runs
    BY <1>1, <1>5 DEF ShmIInv, ShmRunOK, ShmPhase, Rows
  <2>2. shmSem' \in Nat
    BY <1>1
  <2>3. shmCopied' \in [Runs -> [Rows -> {0} \cup Runs]]
    BY <1>1, <2>1
  <2>4. shmRecvRow' \in [Runs -> 0 .. Height]
    <3>1. shmRecvRow[k] + 1 \in 0 .. Height /\ 0 \in 0 .. Height
      BY <2>1 DEF Rows
    <3>2. /\ [shmRecvRow EXCEPT ![k] = 0] \in [Runs -> 0 .. Height]
          /\ [shmRecvRow EXCEPT ![k] = @ + 1] \in [Runs -> 0 .. Height]
      BY <1>1, <3>1
    <3> QED
      BY <3>2
  <2> QED
    BY <1>1, <2>2, <2>3, <2>4
<1>6. ASSUME NEW k \in Runs, ShmBlurRow(k) PROVE ShmTypeOK'
  <2> USE <1>6 DEF ShmBlurRow
  <2>1. shmRecvRow[k] \in Rows
    BY <1>1, <1>6 DEF ShmIInv, ShmRunOK, ShmPhase, Rows
  <2>2. shmBlurred' \in [Runs -> SUBSET Rows]
    BY <1>1, <2>1
  <2>3. shmRecvRow' \in [Runs -> 0 .. Height]
    BY <1>1, <2>1 DEF Rows
  <2> QED
    BY <1>1, <2>2, <2>3
<1>7. ASSUME NEW k \in Runs, ShmSave(k) \/ ShmParentUnlink(k) PROVE ShmTypeOK'
  BY <1>1, <1>7 DEF ShmSave, ShmParentUnlink
<1>8. ASSUME NEW k \in Runs, ShmGrayRow(k) PROVE ShmTypeOK'
  <2> USE <1>8 DEF ShmGrayRow
  <2>1. shmSendRow[k] \in Rows /\ shmMapped[k] \in Runs
    BY <1>1, <1>8, ShmForeground DEF ShmIInv, ShmRunOK, ShmPhase, Rows
  <2>2. shmObject' \in [Runs -> [Rows -> {0} \cup Runs]]
    BY <1>1, <2>1
  <2> QED
    BY <1>1, <2>2
<1>9. ASSUME NEW k \in Runs, ShmSignal(k) PROVE ShmTypeOK'
  <2> USE <1>9 DEF ShmSignal
  <2>1. shmSendRow[k] \in 0 .. Height - 1
    BY <1>1, <1>9 DEF ShmIInv, ShmRunOK, ShmPhase
  <2>2. shmSem' \in Nat /\ shmSendRow' \in [Runs -> 0 .. Height]
    BY <1>1, <2>1
  <2> QED
    BY <1>1, <2>2
<1>10. ASSUME NEW k \in Runs, ShmChildUnlink(k) PROVE ShmTypeOK'
  BY <1>1, <1>10 DEF ShmChildUnlink
<1>11. ASSUME NEW k \in Runs, ShmInterrupt(k) PROVE ShmTypeOK'
  BY <1>1, <1>11 DEF ShmInterrupt
<1>12. CASE ShmNextRun
  <2>1. shmRun' \in Runs
    BY <1>1, <1>12, ShmAssumption DEF ShmNextRun, Runs
  <2> QED
    BY <1>1, <1>12, <2>1 DEF ShmNextRun
<1>13. CASE UNCHANGED shmVars
  BY <1>1, <1>13 DEF shmVars
<1> QED
  BY <1>2, <1>3, <1>4, <1>5, <1>6, <1>7, <1>8, <1>9, <1>10, <1>11, <1>12, <1>13
     DEF ShmNext, ShmParentNext, ShmChildNext

\* Every step keeps the order of the runs.
LEMMA ShmOrderStep == ShmIInv /\ [ShmNext]_shmVars => ShmOrder'
<1> SUFFICES ASSUME ShmIInv, [ShmNext]_shmVars PROVE ShmOrder'
  OBVIOUS
<1>1. ShmTypeOK /\ ShmOrder /\ shmRun \in Int /\ \A k \in Runs : k \in Int
  BY DEF ShmIInv, ShmTypeOK, Runs
<1>2. CASE ShmNextRun
  <2>1. \A k \in Runs : /\ k < shmRun' => k < shmRun \/ k = shmRun
                        /\ k > shmRun' => k > shmRun
    BY <1>1, <1>2 DEF ShmNextRun
  <2>2. \A k \in Runs : ShmGone(k) => ShmGone(k)'
    BY <1>2 DEF ShmNextRun, ShmGone
  <2> QED
    BY <1>1, <1>2, <2>1, <2>2 DEF ShmNextRun, ShmOrder, ShmTypeOK
<1>3. ASSUME shmRun' = shmRun, NEW k \in Runs,
             k = shmRun \/ shmParent' = shmParent, \A j \in Runs : j # k => shmParent'[j] = shmParent[j]
      PROVE  ShmOrder'
  BY <1>1, <1>3 DEF ShmOrder, ShmGone
<1>4. ASSUME NEW k \in Runs, ShmParentNext(k) \/ ShmChildNext(k) \/ ShmInterrupt(k)
      PROVE  /\ shmRun' = shmRun
             /\ k = shmRun \/ shmParent' = shmParent
             /\ \A j \in Runs : j # k => shmParent'[j] = shmParent[j]
  <2>1. CASE ShmOpen(k) \/ ShmSemInit(k) \/ ShmFork(k) \/ ShmInterrupt(k)
    BY <1>1, <2>1 DEF ShmOpen, ShmSemInit, ShmFork, ShmInterrupt, ShmTypeOK
  <2>2. CASE ShmTakeRow(k) \/ ShmBlurRow(k) \/ ShmSave(k) \/ ShmParentUnlink(k)
    <3>1. k = shmRun
      BY <2>2, ShmForeground DEF ShmTakeRow, ShmBlurRow, ShmSave, ShmParentUnlink
    <3> QED
      BY <1>1, <2>2, <3>1 DEF ShmTakeRow, ShmBlurRow, ShmSave, ShmParentUnlink, ShmTypeOK
  <2>3. CASE ShmGrayRow(k) \/ ShmSignal(k) \/ ShmChildUnlink(k)
    BY <2>3 DEF ShmGrayRow, ShmSignal, ShmChildUnlink
  <2> QED
    BY <1>4, <2>1, <2>2, <2>3 DEF ShmParentNext, ShmChildNext
<1>5. CASE UNCHANGED shmVars
  BY <1>1, <1>5 DEF shmVars, ShmOrder, ShmGone
<1> QED
  BY <1>2, <1>3, <1>4, <1>5 DEF ShmNext

\* The run that takes a step is as it should be after it.
LEMMA ShmRunStep ==
  ASSUME ShmIInv, NEW k \in Runs, ShmParentNext(k) \/ ShmChildNext(k) \/ ShmInterrupt(k)
  PROVE  ShmRunOK(k)'
<1> USE ImageAssumption DEF ShmRunOK
<1>1. ShmTypeOK /\ ShmPhase(k) /\ ShmShared(k) /\ ShmDone(k)
  BY DEF ShmIInv
<1>2. /\ shmSendRow[k] \in 0 .. Height /\ shmRecvRow[k] \in 0 .. Height /\ shmSem \in Nat
      /\ shmParent[k] \in ShmParentStates /\ shmChild[k] \in ShmChildStates
  BY <1>1 DEF ShmTypeOK
<1> USE DEF ShmParentStates, ShmChildStates
<1>3. CASE ShmOpen(k)
  <2>1. shmParent'[k] = "mapped" /\ shmParent[k] = "idle" /\ shmMapped'[k] \in Runs
    BY <1>1, <1>3 DEF ShmOpen, ShmTypeOK
  <2>2. ShmPhase(k)'
    BY <1>1, <1>3, <2>1 DEF ShmOpen, ShmPhase
  <2>3. ShmShared(k)' /\ ShmDone(k)'
    BY <1>1, <1>3, <2>1 DEF ShmOpen, ShmShared, ShmDone
  <2> QED
    BY <2>2, <2>3
<1>4. CASE ShmSemInit(k)
  <2>1. shmParent'[k] = "fork" /\ shmParent[k] = "mapped"
    BY <1>1, <1>4 DEF ShmSemInit, ShmTypeOK
  <2>2. ShmPhase(k)'
    BY <1>1, <1>4, <2>1 DEF ShmSemInit, ShmPhase
  <2>3. ShmShared(k)' /\ ShmDone(k)'
    BY <1>1, <1>4, <2>1 DEF ShmSemInit, ShmShared, ShmDone
  <2> QED
    BY <2>2, <2>3
<1>5. CASE ShmFork(k)
  <2>1. /\ shmParent[k] = "fork"
        /\ \/ shmParent'[k] = "take" /\ shmChild'[k] = "gray"
           \/ shmParent'[k] = "killed" /\ shmChild'[k] = shmChild[k]
        /\ UNCHANGED <<shmSendRow, shmRecvRow, shmMapped, shmObject, shmSem, shmCopied,
                       shmBlurred, shmSaved>>
    BY <1>1, <1>5 DEF ShmFork, ShmTypeOK
  <2>2. ShmPhase(k)'
    BY <1>1, <2>1 DEF ShmPhase
  <2>3. ShmShared(k)'
    BY <1>1, <1>2, <2>1 DEF ShmShared, ShmPhase, Rows
  <2>4. ShmDone(k)'
    BY <1>1, <1>2, <2>1 DEF ShmDone, ShmPhase, Rows
  <2> QED
    BY <2>2, <2>3, <2>4
<1>6. CASE ShmTakeRow(k)
  <2>1. /\ shmParent[k] = "take" /\ shmSem > 0
        /\ UNCHANGED <<shmChild, shmSendRow, shmMapped, shmObject, shmBlurred, shmSaved>>
        /\ shmSem' = shmSem - 1
    BY <1>6 DEF ShmTakeRow
  <2>2. /\ shmRecvRow[k] \in Rows /\ shmRecvRow[k] < shmSendRow[k]
        /\ shmObject[shmMapped[k]][shmRecvRow[k]] = k
    BY <1>1, <1>2, <2>1 DEF ShmShared, Rows
  <2>3. /\ shmCopied'[k][shmRecvRow[k]] = k
        /\ \A r \in Rows : r # shmRecvRow[k] => shmCopied'[k][r] = shmCopied[k][r]
    BY <1>1, <1>6, <2>2 DEF ShmTakeRow, ShmTypeOK
  <2>4. \A r \in Rows : r < shmRecvRow[k] + 1 => shmCopied'[k][r] = k
    <3>1. \A r \in Rows : r < shmRecvRow[k] + 1 => r < shmRecvRow[k] \/ r = shmRecvRow[k]
      BY <1>2 DEF Rows
    <3> QED
      BY <1>1, <2>1, <2>3, <3>1 DEF ShmDone
  <2>5. CASE shmRecvRow[k] + 1 = Height
    <3>1. shmParent'[k] = "blur" /\ shmRecvRow'[k] = 0
      BY <1>1, <1>6, <2>5 DEF ShmTakeRow, ShmTypeOK
    <3>2. shmSendRow[k] = Height /\ shmChild[k] \in {"unlink", "exit"}
      BY <1>1, <1>2, <2>1, <2>2, <2>5 DEF ShmPhase
    <3>3. ShmPhase(k)'
      BY <1>1, <2>1, <3>1, <3>2 DEF ShmPhase
    <3>4. ShmShared(k)'
      BY <3>1 DEF ShmShared
    <3>5. \A r \in Rows : shmCopied'[k][r] = k /\ ~(r < 0)
      BY <2>4, <2>5 DEF Rows
    <3>6. ShmDone(k)'
      BY <1>1, <2>1, <3>1, <3>5 DEF ShmDone
    <3> QED
      BY <3>3, <3>4, <3>6
  <2>6. CASE shmRecvRow[k] + 1 # Height
    <3>1. shmParent' = shmParent /\ shmRecvRow'[k] = shmRecvRow[k] + 1
      BY <1>1, <1>6, <2>6 DEF ShmTakeRow, ShmTypeOK
    <3>2. ShmPhase(k)'
      BY <1>1, <1>2, <2>1, <2>2, <2>6, <3>1 DEF ShmPhase, Rows
    <3>3. ShmShared(k)'
      BY <1>1, <1>2, <2>1, <3>1 DEF ShmShared
    <3>4. ShmDone(k)'
      BY <1>1, <2>1, <2>4, <3>1 DEF ShmDone
    <3> QED
      BY <3>2, <3>3, <3>4
  <2> QED
    BY <2>5, <2>6
<1>7. CASE ShmBlurRow(k)
  <2>1. /\ shmParent[k] = "blur" /\ shmRecvRow[k] \in Rows
        /\ UNCHANGED <<shmChild, shmSendRow, shmMapped, shmObject, shmSem, shmCopied, shmSaved>>
        /\ shmRecvRow'[k] = shmRecvRow[k] + 1
        /\ shmBlurred'[k] = shmBlurred[k] \cup {shmRecvRow[k]}
        /\ shmParent'[k] = IF shmRecvRow[k] + 1 = Height THEN "save" ELSE "blur"
    BY <1>1, <1>2, <1>7 DEF ShmBlurRow, ShmTypeOK, ShmPhase, Rows
  <2>2. shmBlurred'[k] = {r \in Rows : r < shmRecvRow[k] + 1}
    <3>1. \A r \in Rows : r < shmRecvRow[k] + 1 <=> r < shmRecvRow[k] \/ r = shmRecvRow[k]
      BY <1>2 DEF Rows
    <3> QED
      BY <1>1, <2>1, <3>1 DEF ShmDone
  <2>3. shmRecvRow[k] + 1 = Height => shmBlurred'[k] = Rows
    BY <2>2 DEF Rows
  <2>4. ShmPhase(k)'
    BY <1>1, <1>2, <2>1 DEF ShmPhase, Rows
  <2>5. ShmShared(k)'
    BY <2>1 DEF ShmShared
  <2>6. ShmDone(k)'
    BY <1>1, <2>1, <2>2, <2>3 DEF ShmDone
  <2> QED
    BY <2>4, <2>5, <2>6
<1>8. CASE ShmSave(k) \/ ShmParentUnlink(k)
  <2>1. /\ shmParent[k] \in {"save", "unlink"} /\ shmParent'[k] \in {"unlink", "exit"}
        /\ UNCHANGED <<shmChild, shmSendRow, shmRecvRow, shmMapped, shmCopied>>
    BY <1>1, <1>8 DEF ShmSave, ShmParentUnlink, ShmTypeOK
  <2>2. ShmPhase(k)' /\ ShmShared(k)' /\ ShmDone(k)'
    BY <1>1, <2>1 DEF ShmPhase, ShmShared, ShmDone
  <2> QED
    BY <2>2
<1>9. CASE ShmGrayRow(k)
  <2>1. /\ shmChild[k] = "gray" /\ shmChild'[k] = "signal" /\ shmParent[k] = "take"
        /\ UNCHANGED <<shmParent, shmSendRow, shmRecvRow, shmMapped, shmSem,
                       shmCopied, shmBlurred, shmSaved>>
    BY <1>1, <1>9, ShmForeground DEF ShmGrayRow, ShmTypeOK
  <2>2. shmMapped[k] \in Runs /\ shmSendRow[k] \in Rows
    BY <1>1, <1>2, <2>1 DEF ShmPhase, Rows
  <2>3. /\ shmObject'[shmMapped[k]][shmSendRow[k]] = k
        /\ \A r \in Rows : r # shmSendRow[k] =>
             shmObject'[shmMapped[k]][r] = shmObject[shmMapped[k]][r]
    BY <1>1, <1>9, <2>2 DEF ShmGrayRow, ShmTypeOK
  <2>4. ShmPhase(k)'
    BY <1>1, <2>1 DEF ShmPhase
  <2>5. ShmShared(k)'
    <3>1. \A r \in Rows : r < shmSendRow[k] => r # shmSendRow[k]
      BY <1>2 DEF Rows
    <3> QED
      BY <1>1, <2>1, <2>3, <3>1 DEF ShmShared
  <2>6. ShmDone(k)'
    BY <1>1, <2>1 DEF ShmDone
  <2> QED
    BY <2>4, <2>5, <2>6
<1>10. CASE ShmSignal(k)
  <2>1. /\ shmChild[k] = "signal" /\ shmParent[k] = "take" /\ shmSem' = shmSem + 1
        /\ shmSendRow'[k] = shmSendRow[k] + 1
        /\ shmChild'[k] = IF shmSendRow[k] + 1 = Height THEN "unlink" ELSE "gray"
        /\ UNCHANGED <<shmParent, shmRecvRow, shmMapped, shmObject,
                       shmCopied, shmBlurred, shmSaved>>
    BY <1>1, <1>10, ShmForeground DEF ShmSignal, ShmTypeOK
  <2>2. ShmPhase(k)'
    BY <1>1, <1>2, <2>1 DEF ShmPhase
  <2>3. ShmShared(k)'
    <3>1. \A r \in Rows : r < shmSendRow[k] + 1 => r < shmSendRow[k] \/ r = shmSendRow[k]
      BY <1>2 DEF Rows
    <3> QED
      BY <1>1, <1>2, <2>1, <3>1 DEF ShmShared
  <2>4. ShmDone(k)'
    BY <1>1, <2>1 DEF ShmDone
  <2> QED
    BY <2>2, <2>3, <2>4
<1>11. CASE ShmChildUnlink(k)
  <2>1. /\ shmChild[k] = "unlink" /\ shmChild'[k] = "exit"
        /\ UNCHANGED <<shmParent, shmSendRow, shmRecvRow, shmMapped, shmObject, shmSem,
                       shmCopied, shmBlurred, shmSaved>>
    BY <1>1, <1>11 DEF ShmChildUnlink, ShmTypeOK
  <2>2. ShmPhase(k)' /\ ShmShared(k)' /\ ShmDone(k)'
    BY <1>1, <1>2, <2>1 DEF ShmPhase, ShmShared, ShmDone
  <2> QED
    BY <2>2
<1>12. CASE ShmInterrupt(k)
  <2>1. /\ shmParent'[k] = "killed" /\ shmChild'[k] \in {"none", "exit", "killed"}
        /\ shmChild'[k] = "exit" => shmChild[k] = "exit"
        /\ shmParent[k] # "idle"
        /\ UNCHANGED <<shmSendRow, shmRecvRow, shmMapped>>
    BY <1>1, <1>12 DEF ShmInterrupt, ShmTypeOK
  <2>2. ShmPhase(k)' /\ ShmShared(k)' /\ ShmDone(k)'
    BY <1>1, <2>1 DEF ShmPhase, ShmShared, ShmDone
  <2> QED
    BY <2>2
<1> QED
  BY <1>3, <1>4, <1>5, <1>6, <1>7, <1>8, <1>9, <1>10, <1>11, <1>12
     DEF ShmParentNext, ShmChildNext

\* The other runs are as they should be after it: what it changes of the shared
\* objects, only the run in the foreground relies on.
LEMMA ShmOthersStep ==
  ASSUME ShmIInv, NEW k \in Runs, ShmParentNext(k) \/ ShmChildNext(k) \/ ShmInterrupt(k),
         NEW j \in Runs, j # k
  PROVE  ShmRunOK(j)'
<1>1. ShmTypeOK /\ ShmRunOK(j)
  BY DEF ShmIInv
<1>2. /\ shmParent'[j] = shmParent[j] /\ shmChild'[j] = shmChild[j]
      /\ shmSendRow'[j] = shmSendRow[j] /\ shmRecvRow'[j] = shmRecvRow[j]
      /\ shmMapped'[j] = shmMapped[j] /\ shmCopied'[j] = shmCopied[j]
      /\ shmBlurred'[j] = shmBlurred[j] /\ shmSaved'[j] = shmSaved[j]
  BY <1>1 DEF ShmTypeOK, ShmParentNext, ShmChildNext, ShmOpen, ShmSemInit, ShmFork, ShmTakeRow,
     ShmBlurRow, ShmSave, ShmParentUnlink, ShmGrayRow, ShmSignal, ShmChildUnlink, ShmInterrupt
<1>3. shmParent[j] \in {"fork", "take"} => shmSem' = shmSem /\ shmObject' = shmObject
  <2> SUFFICES ASSUME shmParent[j] \in {"fork", "take"} PROVE shmSem' = shmSem /\ shmObject' = shmObject
    OBVIOUS
  <2>1. j = shmRun
    BY ShmForeground
  <2>2. shmParent[k] \notin {"mapped", "take"} /\ shmChild[k] \notin {"gray", "signal"}
    BY <2>1, ShmForeground
  <2> QED
    BY <2>2 DEF ShmParentNext, ShmChildNext, ShmOpen, ShmSemInit, ShmFork, ShmTakeRow,
     ShmBlurRow, ShmSave, ShmParentUnlink, ShmGrayRow, ShmSignal, ShmChildUnlink, ShmInterrupt
<1> QED
  BY <1>1, <1>2, <1>3, ShmFrame

\* Every step of every run preserves the invariant.
LEMMA ShmInvStep == ShmIInv /\ [ShmNext]_shmVars => ShmIInv'
<1> SUFFICES ASSUME ShmIInv, [ShmNext]_shmVars PROVE ShmIInv'
  OBVIOUS
<1>1. ShmTypeOK' /\ ShmOrder'
  BY ShmTypeStep, ShmOrderStep
<1>2. ASSUME NEW j \in Runs PROVE ShmRunOK(j)'
  <2>1. CASE \E k \in Runs : ShmParentNext(k) \/ ShmChildNext(k) \/ ShmInterrupt(k)
    BY <1>2, <2>1, ShmRunStep, ShmOthersStep
  <2>2. CASE ShmNextRun \/ UNCHANGED shmVars
    <3>1. UNCHANGED <<shmParent, shmChild, shmSendRow, shmRecvRow, shmMapped, shmCopied,
                      shmBlurred, shmSaved, shmSem, shmObject>>
      BY <2>2 DEF ShmNextRun, shmVars
    <3> QED
      BY <1>2, <3>1, ShmFrame DEF ShmIInv
  <2> QED
    BY <2>1, <2>2 DEF ShmNext
<1> QED
  BY <1>1, <1>2 DEF ShmIInv

\* The invariant of the shared-memory program.
LEMMA ShmInvariant == ShmSpec => []ShmIInv
  BY ShmInvInit, ShmInvStep, PTL DEF ShmSpec

\* A row the parent of a run has copied is the gray row of that run, however many
\* runs came before and however they ended.
THEOREM ShmCopiesOwnRowsSafe == ShmSpec => []ShmCopiesOwnRows
<1>1. ShmIInv => ShmCopiesOwnRows
  BY DEF ShmIInv, ShmRunOK, ShmDone, ShmCopiesOwnRows
<1> QED
  BY <1>1, ShmInvariant, PTL

\* A step that changes nothing of what a run has done with its rows is no step of
\* its abstract pipeline.
LEMMA ShmStageFrame ==
  ASSUME NEW j \in Runs, shmBlurred'[j] = shmBlurred[j], shmSendRow'[j] = shmSendRow[j],
         shmSaved'[j] = shmSaved[j],
         shmCopied'[j] = shmCopied[j] \/ shmBlurred[j] = {}
  PROVE  UNCHANGED ShmRP(j)!vars
<1>1. ShmStage(j)' = ShmStage(j)
  BY DEF ShmStage
<1> QED
  BY <1>1 DEF ShmRP!vars

\* Each step is a step of the abstract pipeline of the run that takes it, or
\* leaves its abstract state alone; and the latter for the other runs.
LEMMA ShmStepRefines ==
  ShmIInv /\ [ShmNext]_shmVars
    => [\A k \in Runs : ShmRP(k)!Next \/ UNCHANGED ShmRP(k)!vars]_shmVars
<1> SUFFICES ASSUME ShmIInv, ShmNext, NEW j \in Runs
             PROVE  ShmRP(j)!Next \/ UNCHANGED ShmRP(j)!vars
  OBVIOUS
<1>1. ShmTypeOK /\ ShmPhase(j) /\ ShmShared(j) /\ ShmDone(j)
  BY DEF ShmIInv, ShmRunOK
<1>2. /\ shmSendRow[j] \in 0 .. Height /\ shmRecvRow[j] \in 0 .. Height
      /\ shmParent[j] \in ShmParentStates /\ shmChild[j] \in ShmChildStates
      /\ shmBlurred[j] \subseteq Rows
  BY <1>1 DEF ShmTypeOK
<1> USE ImageAssumption
<1>3. CASE ShmSignal(j)
  <2>1. /\ shmSendRow[j] \in Rows /\ shmBlurred[j] = {} /\ shmSaved[j] = FALSE
        /\ shmSendRow'[j] = shmSendRow[j] + 1
        /\ UNCHANGED <<shmCopied, shmBlurred, shmSaved>>
    <3>1. shmChild[j] = "signal" /\ shmParent[j] = "take"
      BY <1>3, ShmForeground DEF ShmSignal
    <3> QED
      BY <1>1, <1>2, <1>3, <3>1 DEF ShmSignal, ShmTypeOK, ShmPhase, ShmDone, Rows
  <2>2. \A r \in Rows : r < shmSendRow[j] + 1 <=> r < shmSendRow[j] \/ r = shmSendRow[j]
    BY <1>2 DEF Rows
  <2>3. ~(shmSendRow[j] < shmSendRow[j])
    BY <1>2
  <2>4. ShmStage(j)' = [ShmStage(j) EXCEPT ![shmSendRow[j]] = Once]
    BY <2>1, <2>2 DEF ShmStage
  <2>5. ShmStage(j)[shmSendRow[j]] = Raw
    BY <2>1, <2>3 DEF ShmStage
  <2>6. ShmRP(j)!Transform(shmSendRow[j])
    BY <2>1, <2>4, <2>5 DEF ShmRP!Transform, ShmRP!Finished, Once, Raw
  <2> QED
    BY <2>1, <2>6 DEF ShmRP!Next, ShmRP!Rows, Rows
<1>4. CASE ShmBlurRow(j)
  <2> DEFINE row == shmRecvRow[j]
  <2>1. /\ row \in Rows /\ shmSaved[j] = FALSE /\ row \notin shmBlurred[j]
        /\ shmCopied[j][row] = j /\ row < shmSendRow[j]
        /\ shmBlurred'[j] = shmBlurred[j] \cup {row}
        /\ UNCHANGED <<shmCopied, shmSendRow, shmSaved>>
    <3>1. shmParent[j] = "blur" /\ shmSendRow[j] = Height
      BY <1>1, <1>4 DEF ShmBlurRow, ShmPhase
    <3>2. row \in Rows /\ ~(row < row)
      BY <1>1, <1>2, <3>1 DEF ShmPhase, Rows
    <3> QED
      BY <1>1, <1>2, <1>4, <3>1, <3>2 DEF ShmBlurRow, ShmTypeOK, ShmDone, Rows
  <2> HIDE DEF row
  <2>2. ShmStage(j)' = [ShmStage(j) EXCEPT ![row] = Finished]
    BY <2>1 DEF ShmStage
  <2>3. ShmStage(j)[row] = Once
    BY <2>1 DEF ShmStage
  <2>4. ShmRP(j)!Transform(row)
    BY <2>1, <2>2, <2>3 DEF ShmRP!Transform, ShmRP!Finished, Once, Finished
  <2> QED
    BY <2>1, <2>4 DEF ShmRP!Next, ShmRP!Rows, Rows
<1>5. CASE ShmSave(j)
  <2>1. /\ shmParent[j] = "save" /\ shmSaved'[j] = TRUE
        /\ UNCHANGED <<shmCopied, shmSendRow, shmBlurred>>
    BY <1>1, <1>5 DEF ShmSave, ShmTypeOK
  <2>2. \A r \in Rows : ShmStage(j)[r] = Finished
    BY <1>1, <2>1 DEF ShmDone, ShmStage
  <2>3. shmSaved[j] = FALSE
    BY <1>1, <2>1 DEF ShmDone
  <2>4. ShmRP(j)!Save
    BY <2>1, <2>2, <2>3 DEF ShmRP!Save, ShmRP!Rows, ShmRP!Finished, Rows, Finished, ShmStage
  <2> QED
    BY <2>4 DEF ShmRP!Next
<1>6. CASE ShmTakeRow(j)
  <2>1. shmBlurred[j] = {} /\ UNCHANGED <<shmSendRow, shmBlurred, shmSaved>>
    BY <1>1, <1>6 DEF ShmTakeRow, ShmDone
  <2> QED
    BY <2>1, ShmStageFrame
<1>7. CASE ShmOpen(j) \/ ShmSemInit(j) \/ ShmFork(j) \/ ShmParentUnlink(j) \/ ShmGrayRow(j)
           \/ ShmChildUnlink(j) \/ ShmInterrupt(j) \/ ShmNextRun
  <2>1. UNCHANGED <<shmSendRow, shmBlurred, shmSaved, shmCopied>>
    BY <1>7 DEF ShmOpen, ShmSemInit, ShmFork, ShmParentUnlink, ShmGrayRow, ShmChildUnlink,
       ShmInterrupt, ShmNextRun
  <2> QED
    BY <2>1, ShmStageFrame
<1>8. ASSUME NEW k \in Runs, k # j, ShmParentNext(k) \/ ShmChildNext(k) \/ ShmInterrupt(k)
      PROVE  UNCHANGED ShmRP(j)!vars
  <2>1. /\ shmSendRow'[j] = shmSendRow[j] /\ shmCopied'[j] = shmCopied[j]
        /\ shmBlurred'[j] = shmBlurred[j] /\ shmSaved'[j] = shmSaved[j]
    BY <1>1, <1>8 DEF ShmTypeOK, ShmParentNext, ShmChildNext, ShmOpen, ShmSemInit, ShmFork,
       ShmTakeRow, ShmBlurRow, ShmSave, ShmParentUnlink, ShmGrayRow, ShmSignal,
       ShmChildUnlink, ShmInterrupt
  <2> QED
    BY <2>1, ShmStageFrame
<1>9. PICK k \in Runs : ShmNextRun \/ ShmParentNext(k) \/ ShmChildNext(k) \/ ShmInterrupt(k)
  BY ShmAssumption DEF ShmNext, Runs
<1> QED
  BY <1>3, <1>4, <1>5, <1>6, <1>7, <1>8, <1>9 DEF ShmParentNext, ShmChildNext

\* Every run implements the abstract pipeline: each row gray, then blurred, each
\* once, and one image, written after the last row.
THEOREM ShmRefinement == ShmSpec => ShmImplementsRows
<1>1. ShmInit => \A k \in Runs : ShmRP(k)!Init
  BY DEF ShmInit, ShmRP!Init, ShmStage, ShmRP!read_ppm, ShmRP!Rows, ShmRP!Raw, Rows, Raw
<1> QED
  BY <1>1, ShmInvariant, ShmStepRefines, PTL DEF ShmSpec, ShmImplementsRows

-----------------------------------------------------------------------------
(***************************************************************************)
(* The composition                                                         *)
(***************************************************************************)
\* Seen from any of the programs, a behaviour of the composition is one of that
\* program: the steps of the others leave its state alone.
LEMMA ImgComposes == ImgSpec => SemSpec /\ MxSpec /\ PpSpec /\ ShmSpec
<1>1. ImgInit => SemInit /\ MxInit /\ PpInit /\ ShmInit
  BY DEF ImgInit
<1>2. [ImgNext]_imgVars => [SemNext]_semVars
  BY DEF ImgNext, imgVars, RunsSem, RunsMutex, RunsPipe, RunsShm
<1>3. [ImgNext]_imgVars => [MxNext]_mxVars
  BY DEF ImgNext, imgVars, RunsSem, RunsMutex, RunsPipe, RunsShm
<1>4. [ImgNext]_imgVars => [PpNext]_ppVars
  BY DEF ImgNext, imgVars, RunsSem, RunsMutex, RunsPipe, RunsShm
<1>5. [ImgNext]_imgVars => [ShmNext]_shmVars
  BY DEF ImgNext, imgVars, RunsSem, RunsMutex, RunsPipe, RunsShm
<1> QED
  BY <1>1, <1>2, <1>3, <1>4, <1>5, PTL DEF ImgSpec, SemSpec, MxSpec, PpSpec, ShmSpec

\* Whichever program is started, its hand-over of rows is right.
THEOREM ImgSafe ==
  ImgSpec => [](SemNoSharedRow /\ MxHandOver /\ PpRowsWhole /\ ShmCopiesOwnRows)
  BY ImgComposes, SemRaceFree, MxHandOverSafe, PpRowsArriveWhole, ShmCopiesOwnRowsSafe, PTL

=============================================================================
