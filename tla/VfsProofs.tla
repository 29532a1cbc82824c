------------------------------ MODULE VfsProofs ------------------------------
(***************************************************************************)
(* The two sides of VFS.  Names: references, descriptors and lookups of    *)
(* the calls on names, for any number of workers, names and inodes.        *)
(* Pipes: for any finite number of processes, any slots, any size of the   *)
(* pipe and any requests, references are accounted for, answers say what   *)
(* was moved, and nobody sleeps with nobody left to wake him.  None of the *)
(* three is inductive alone: that a waker exists needs the filps to be     *)
(* right, and that VFS knows the bytes in the pipe needs that who reads    *)
(* has a reference.                                                        *)
(***************************************************************************)
EXTENDS Vfs, FiniteSetTheorems, TLAPS

-----------------------------------------------------------------------------
(***************************************************************************)
(* Names                                                                   *)
(***************************************************************************)
\* What the lock of the vmnt excludes.
VmntExclusion ==
  \A w, x \in Workers : w # x =>
    /\ work[w].vmnt = "EXCL" => work[x].vmnt = "none"
    /\ work[w].vmnt = "SERIAL" => work[x].vmnt # "SERIAL"

\* The lock w has while a name is looked up; under the exclusive one it is
\* looked up by removals only.
LookupLock(k) == k.vmnt = VmntMode(k.call) \/ (k.vmnt = "EXCL" /\ k.call \in Removals)

\* Before the descriptor is claimed, its slot is empty.
Unclaimed == {"vmnt", "lock dir", "look", "lock vnode", "upgrade", "create"}

\* Where a worker is in its call, fd being its descriptor and names the entries:
\* what it has locked, whether it counts a reference, and what it knows of the
\* entry of its name.
RecordOK(k, fd, names) ==
  LET knows(i) == k.name \in Names /\ names[k.name] = i
  IN /\ k.pc = "idle" => k = Idle
     /\ k.pc = "vmnt" =>
          /\ k.vmnt = "none" /\ ~k.ref /\ k.name = None /\ k.logged = None
          /\ k.call \notin OnDescriptor
     /\ k.pc = "lock dir" =>
          /\ k.logged = None /\ k.vmnt = "SERIAL"
          /\ \/ k.call = "link" /\ k.ref /\ k.vp \in Inodes
             \/ k.call \in Removals \cup {"mknod", "creat", "creat_trunc"} /\ ~k.ref
     /\ k.pc = "look" =>
          /\ ~k.ref /\ k.logged = None /\ LookupLock(k)
          /\ k.call \notin OnDescriptor \cup {"mknod"}
     /\ k.pc = "lock vnode" =>
          /\ k.vp \in Inodes /\ k.logged = None
          /\ k.call \in OnDescriptor => ~k.ref /\ fd = k.vp /\ k.vmnt = "none"
          /\ k.call \notin OnDescriptor =>
               k.ref /\ LookupLock(k) /\ (k.vmnt = "EXCL" => knows(k.vp))
     /\ k.pc = "upgrade vnode" => k.vp \in Inodes /\ ~k.ref /\ k.vmnt = "none"
     /\ k.pc = "ftrunc" => k.vp \in Inodes /\ k.vmnt \in {"none", "READ"}
     /\ k.pc = "upgrade" =>
          /\ ~k.ref /\ k.vmnt = "SERIAL" /\ k.logged = None
          /\ k.call \in Removals \/ (Creates(k.call) /\ knows(None))
     /\ k.pc = "create" => ~k.ref /\ k.vmnt = "EXCL" /\ Creates(k.call) /\ knows(None)
     /\ k.pc = "request" =>
          /\ k.ref => k.vp \in Inodes
          /\ \/ k.call = "mknod" /\ k.vmnt = "SERIAL"
             \/ k.call = "link" /\ k.vmnt = "SERIAL" /\ k.ref
             \/ k.call = "rename" /\ k.vmnt = "EXCL"
             \/ k.call = "unlink" /\ k.vmnt = "EXCL" /\ knows(k.logged)
     /\ k.pc = "put" =>
          /\ k.ref /\ k.vp \in Inodes
          /\ \/ k.vmnt = "none"
             \/ k.vmnt = "SERIAL" /\ k.call \in Removals /\ k.logged = None
             \/ k.vmnt = "EXCL" /\ k.call \in Removals /\ knows(k.logged)
     /\ k.call \in Opens /\ k.pc \in Unclaimed => fd = None

WorkerOK(w) == RecordOK(work[w], filp[w], entry)

\* An inode that is not allocated has no name and no reference, and is not the
\* directory.
FreeUnused == \A i \in Inodes : kind[i] = "free" =>
                i # Dir /\ v_ref[i] = 0 /\ \A n \in Names : entry[n] # i

NamesIInv ==
  /\ NamesTypeOK /\ VmntExclusion /\ FreeUnused /\ RefsAccounted
  /\ \A w \in Workers : WorkerOK(w)

-----------------------------------------------------------------------------
\* The cardinality of a set of workers when only w joins or leaves it.
LEMMA CardStep ==
  ASSUME NEW S \in SUBSET Workers, NEW T \in SUBSET Workers, NEW w \in Workers,
         \A x \in Workers \ {w} : x \in S <=> x \in T
  PROVE  /\ Cardinality(S) \in Nat /\ Cardinality(T) \in Nat
         /\ Cardinality(T) = Cardinality(S) + (IF w \in T THEN 1 ELSE 0)
                                            - (IF w \in S THEN 1 ELSE 0)
<1> DEFINE R == S \ {w}
<1>1. IsFiniteSet(S) /\ IsFiniteSet(T) /\ IsFiniteSet(R)
  BY NamesAssumption, FS_Subset
<1>2. Cardinality(S) \in Nat /\ Cardinality(T) \in Nat /\ Cardinality(R) \in Nat
  BY <1>1, FS_CardinalityType
<1>3. Cardinality(R \cup {w}) = Cardinality(R) + 1
  BY <1>1, FS_AddElement
<1>4. S = IF w \in S THEN R \cup {w} ELSE R
  OBVIOUS
<1>5. T = IF w \in T THEN R \cup {w} ELSE R
  OBVIOUS
<1> HIDE DEF R
<1> QED
  BY <1>2, <1>3, <1>4, <1>5

\* How much a worker counts for inode i: its descriptor and its call.
Counts(f, k, i) == (IF f = i THEN 1 ELSE 0) + (IF k.ref /\ k.vp = i THEN 1 ELSE 0)

\* The references stay accounted for when v_ref changes by as much as w counts.
LEMMA RefsStep ==
  ASSUME NamesIInv, NEW w \in Workers, NamesTypeOK',
         \A x \in Workers \ {w} : work'[x] = work[x] /\ filp'[x] = filp[x],
         work'[w].pc = "idle" => work'[w] = Idle,
         \A i \in Inodes : v_ref'[i] = v_ref[i] + Counts(filp'[w], work'[w], i)
                                                - Counts(filp[w], work[w], i)
  PROVE  RefsAccounted'
<1>1. ASSUME NEW i \in Inodes
      PROVE  v_ref'[i] = Cardinality({x \in Workers : filp'[x] = i})
                         + Cardinality({x \in Workers : work'[x].ref /\ work'[x].vp = i})
  <2> DEFINE F == {x \in Workers : filp[x] = i}
             F1 == {x \in Workers : filp'[x] = i}
             R == {x \in Workers : work[x].ref /\ work[x].vp = i}
             R1 == {x \in Workers : work'[x].ref /\ work'[x].vp = i}
  <2>1. v_ref[i] = Cardinality(F) + Cardinality(R)
    BY DEF NamesIInv, RefsAccounted
  <2>2. /\ Cardinality(F) \in Nat /\ Cardinality(F1) \in Nat
        /\ Cardinality(F1) = Cardinality(F) + (IF w \in F1 THEN 1 ELSE 0)
                                            - (IF w \in F THEN 1 ELSE 0)
    <3>1. \A x \in Workers \ {w} : x \in F <=> x \in F1
      OBVIOUS
    <3> QED
      BY <3>1, CardStep
  <2>3. /\ Cardinality(R) \in Nat /\ Cardinality(R1) \in Nat
        /\ Cardinality(R1) = Cardinality(R) + (IF w \in R1 THEN 1 ELSE 0)
                                            - (IF w \in R THEN 1 ELSE 0)
    <3>1. \A x \in Workers \ {w} : x \in R <=> x \in R1
      OBVIOUS
    <3> QED
      BY <3>1, CardStep
  <2>4. /\ w \in F <=> filp[w] = i
        /\ w \in F1 <=> filp'[w] = i
        /\ w \in R <=> work[w].ref /\ work[w].vp = i
        /\ w \in R1 <=> work'[w].ref /\ work'[w].vp = i
    OBVIOUS
  <2>5. v_ref'[i] = v_ref[i] + Counts(filp'[w], work'[w], i) - Counts(filp[w], work[w], i)
    OBVIOUS
  <2>6. Counts(filp[w], work[w], i) = (IF w \in F THEN 1 ELSE 0) + (IF w \in R THEN 1 ELSE 0)
    BY <2>4 DEF Counts
  <2>7. Counts(filp'[w], work'[w], i)
          = (IF w \in F1 THEN 1 ELSE 0) + (IF w \in R1 THEN 1 ELSE 0)
    BY <2>4 DEF Counts
  <2> HIDE DEF F, F1, R, R1
  <2>8. v_ref'[i] = Cardinality(F1) + Cardinality(R1)
    BY <2>1, <2>2, <2>3, <2>5, <2>6, <2>7
  <2> QED
    BY <2>8 DEF F1, R1
<1>2. \A x \in Workers : work'[x].pc = "idle" => work'[x] = Idle
  BY DEF NamesIInv, RefsAccounted
<1> QED
  BY <1>1, <1>2 DEF RefsAccounted

\* What the other workers know still holds: the entries change only under a
\* lock that excludes them.
LEMMA OthersStep ==
  ASSUME NamesIInv, NEW w \in Workers,
         \A x \in Workers \ {w} : work'[x] = work[x] /\ filp'[x] = filp[x],
         entry' = entry \/ work[w].vmnt \in {"SERIAL", "EXCL"}
  PROVE  \A x \in Workers \ {w} : WorkerOK(x)'
<1> SUFFICES ASSUME NEW x \in Workers \ {w} PROVE WorkerOK(x)'
  OBVIOUS
<1>1. WorkerOK(x) /\ work'[x] = work[x] /\ filp'[x] = filp[x]
  BY DEF NamesIInv
<1>2. CASE entry' = entry
  BY <1>1, <1>2 DEF WorkerOK
<1>3. CASE work[w].vmnt \in {"SERIAL", "EXCL"}
  <2>1. work[x].vmnt \notin {"SERIAL", "EXCL"}
    BY <1>3 DEF NamesIInv, VmntExclusion
  <2> QED
    BY <1>1, <2>1 DEF WorkerOK, RecordOK
<1> QED
  BY <1>2, <1>3

\* A worker that keeps its lock of the vmnt or releases it excludes nobody more.
LEMMA ExclusionStep ==
  ASSUME NamesIInv, NEW w \in Workers,
         \A x \in Workers \ {w} : work'[x] = work[x],
         work'[w].vmnt \in {"none", work[w].vmnt}
  PROVE  VmntExclusion'
BY DEF NamesIInv, VmntExclusion

\* What is to be shown of a step of w.
LEMMA WorkerStep ==
  ASSUME NamesIInv, NEW w \in Workers, NamesTypeOK', VmntExclusion', FreeUnused',
         \A x \in Workers \ {w} : work'[x] = work[x] /\ filp'[x] = filp[x],
         entry' = entry \/ work[w].vmnt \in {"SERIAL", "EXCL"},
         WorkerOK(w)',
         \A i \in Inodes : v_ref'[i] = v_ref[i] + Counts(filp'[w], work'[w], i)
                                                - Counts(filp[w], work[w], i)
  PROVE  NamesIInv'
<1>1. RefsAccounted'
  BY RefsStep DEF WorkerOK, RecordOK
<1>2. \A x \in Workers : WorkerOK(x)'
  BY OthersStep
<1> QED
  BY <1>1, <1>2 DEF NamesIInv

\* A step that leaves the files alone, and neither takes nor gives up a reference.
LEMMA QuietStep ==
  ASSUME NamesIInv, NEW w \in Workers, UNCHANGED <<entry, kind, v_ref, filp>>,
         down' \in BOOLEAN, work' \in [Workers -> WorkRecord],
         \A x \in Workers \ {w} : work'[x] = work[x],
         VmntExclusion', WorkerOK(w)',
         \A i \in Inodes : work'[w].ref /\ work'[w].vp = i <=> work[w].ref /\ work[w].vp = i
  PROVE  NamesIInv'
<1>1. NamesTypeOK'
  BY DEF NamesIInv, NamesTypeOK
<1>2. FreeUnused'
  BY DEF NamesIInv, FreeUnused
<1>3. \A i \in Inodes : v_ref'[i] = v_ref[i] + Counts(filp'[w], work'[w], i)
                                             - Counts(filp[w], work[w], i)
  BY DEF NamesIInv, NamesTypeOK, Counts
<1> QED
  BY <1>1, <1>2, <1>3, WorkerStep

LEMMA IdleRecord == Idle \in WorkRecord
BY DEF Idle, WorkRecord, Pcs, CallNames, OnDescriptor

\* The end of a call: the locks are released, and the reference, when there is
\* one, is what put_vnode still has to do.
LEMMA EndsFacts ==
  ASSUME NamesIInv, NEW w \in Workers, NEW holds \in BOOLEAN, Ends(w, holds),
         holds => work[w].vp \in Inodes
  PROVE  /\ work' \in [Workers -> WorkRecord]
         /\ \A x \in Workers \ {w} : work'[x] = work[x]
         /\ work'[w].vmnt = "none"
         /\ work'[w].pc = "idle" => work'[w] = Idle
         /\ work'[w].ref = holds
         /\ holds => work'[w].vp = work[w].vp
         /\ WorkerOK(w)'
<1> DEFINE k == IF holds THEN [Idle EXCEPT !.pc = "put", !.vp = work[w].vp, !.ref = TRUE] ELSE Idle
<1>1. work' = [work EXCEPT ![w] = k] /\ work \in [Workers -> WorkRecord]
  BY DEF Ends, NamesIInv, NamesTypeOK
<1>2. k \in WorkRecord
  <2>1. ASSUME holds
        PROVE  [Idle EXCEPT !.pc = "put", !.vp = work[w].vp, !.ref = TRUE] \in WorkRecord
    BY <2>1, IdleRecord DEF WorkRecord, Pcs
  <2> QED
    BY <2>1, IdleRecord
<1>3. /\ k.vmnt = "none" /\ (k.pc = "idle" => k = Idle) /\ k.ref = holds
      /\ holds => k.vp = work[w].vp
      /\ k.call = "close" /\ k.pc \in {"idle", "put"} /\ (k.pc = "put" => holds)
  BY DEF Idle
<1> HIDE DEF k
<1>4. work'[w] = k
  BY <1>1
<1>5. WorkerOK(w)'
  BY <1>3, <1>4 DEF WorkerOK, RecordOK, Opens
<1> QED
  BY <1>1, <1>2, <1>3, <1>4, <1>5

\* A call that has its vnode, or none, ends without touching the files.
LEMMA EndsQuietly ==
  ASSUME NamesIInv, NEW w \in Workers, NEW holds \in BOOLEAN, Ends(w, holds), Answered,
         holds = work[w].ref, holds => work[w].vp \in Inodes
  PROVE  NamesIInv'
<1>1. VmntExclusion'
  BY EndsFacts, ExclusionStep
<1>2. down' \in BOOLEAN
  BY DEF NamesIInv, NamesTypeOK, Answered
<1> QED
  BY <1>1, <1>2, EndsFacts, QuietStep DEF Answered

-----------------------------------------------------------------------------
\* The invariant holds initially, and each action preserves it: one lemma for
\* each, named after the action.
LEMMA NamesInitInv == NamesInit => NamesIInv
<1> SUFFICES ASSUME NamesInit PROVE NamesIInv
  OBVIOUS
<1>1. NamesTypeOK
  BY IdleRecord DEF NamesInit, NamesTypeOK
<1>2. VmntExclusion /\ FreeUnused
  BY NamesAssumption DEF NamesInit, VmntExclusion, FreeUnused, Idle
<1>3. \A w \in Workers : WorkerOK(w)
  BY DEF NamesInit, WorkerOK, RecordOK, Idle, Opens
<1>4. RefsAccounted
  <2>1. ASSUME NEW i \in Inodes
        PROVE  {w \in Workers : filp[w] = i} = {} /\ {w \in Workers : work[w].ref /\ work[w].vp = i} = {}
    BY NamesAssumption DEF NamesInit, Idle
  <2> QED
    BY <2>1, FS_EmptySet DEF RefsAccounted, NamesInit
<1> QED
  BY <1>1, <1>2, <1>3, <1>4 DEF NamesIInv

LEMMA CallInv ==
  ASSUME NamesIInv, NEW w \in Workers, NEW call \in CallNames, Call(w, call)
  PROVE  NamesIInv'
<1> DEFINE k == work'[w]
<1>1. /\ WorkerOK(w) /\ work[w].pc = "idle" /\ work[w] = Idle /\ work[w] \in WorkRecord
      /\ work \in [Workers -> WorkRecord] /\ filp[w] \in Inodes \cup {None}
  BY DEF Call, NamesIInv, WorkerOK, RecordOK, NamesTypeOK
<1>2. CASE call \in OnDescriptor
  <2>1. work' = [work EXCEPT ![w] = [Idle EXCEPT !.pc = "lock vnode", !.call = call, !.vp = filp[w]]]
    BY <1>1, <1>2 DEF Call
  <2>2. [Idle EXCEPT !.pc = "lock vnode", !.call = call, !.vp = filp[w]] \in WorkRecord
    BY <1>1, IdleRecord DEF WorkRecord, Pcs
  <2>3. work' \in [Workers -> WorkRecord] /\ \A x \in Workers \ {w} : work'[x] = work[x]
    BY <1>1, <2>1, <2>2
  <2>4. k = [Idle EXCEPT !.pc = "lock vnode", !.call = call, !.vp = filp[w]]
    BY <1>1, <2>1
  <2>5. WorkerOK(w)'
    <3>1. /\ k.pc = "lock vnode" /\ k.call = call /\ k.vp = filp[w] /\ k.ref = FALSE
          /\ k.vmnt = "none" /\ k.logged = None
      BY <2>4 DEF Idle
    <3>2. filp'[w] = filp[w] /\ filp[w] \in Inodes /\ call \notin Opens
      BY <1>1, <1>2 DEF Call, Answered, OnDescriptor, Opens
    <3> HIDE DEF k
    <3>3. RecordOK(k, filp'[w], entry')
      BY <1>2, <3>1, <3>2 DEF RecordOK
    <3> QED
      BY <3>3 DEF WorkerOK, k
  <2>6. VmntExclusion'
    BY <2>3, <2>4, <1>1, ExclusionStep DEF Idle
  <2> QED
    BY <1>1, <2>3, <2>4, <2>5, <2>6, QuietStep DEF Idle, Call, Answered, NamesIInv, NamesTypeOK
<1>3. CASE call \notin OnDescriptor
  <2>1. work' = [work EXCEPT ![w] = [Idle EXCEPT !.pc = "vmnt", !.call = call]]
    BY <1>1, <1>3 DEF Call
  <2>2. [Idle EXCEPT !.pc = "vmnt", !.call = call] \in WorkRecord
    BY <1>1, IdleRecord DEF WorkRecord, Pcs
  <2>3. work' \in [Workers -> WorkRecord] /\ \A x \in Workers \ {w} : work'[x] = work[x]
    BY <1>1, <2>1, <2>2
  <2>4. k = [Idle EXCEPT !.pc = "vmnt", !.call = call]
    BY <1>1, <2>1
  <2>5. WorkerOK(w)'
    BY <1>1, <1>3, <2>4 DEF WorkerOK, RecordOK, Idle, Call, Answered, Unclaimed
  <2>6. VmntExclusion'
    BY <2>3, <2>4, <1>1, ExclusionStep DEF Idle
  <2> QED
    BY <1>1, <2>3, <2>4, <2>5, <2>6, QuietStep DEF Idle, Call, Answered, NamesIInv, NamesTypeOK
<1> QED
  BY <1>2, <1>3

\* The facts of w and of its record that the steps start from.
LEMMA Now ==
  ASSUME NamesIInv, NEW w \in Workers
  PROVE  /\ WorkerOK(w) /\ work[w] \in WorkRecord /\ work \in [Workers -> WorkRecord]
         /\ filp[w] \in Inodes \cup {None} /\ down \in BOOLEAN
BY DEF NamesIInv, NamesTypeOK

\* A step that sets the record of w.
LEMMA Sets ==
  ASSUME NamesIInv, NEW w \in Workers, NEW k \in WorkRecord, work' = [work EXCEPT ![w] = k]
  PROVE  /\ work' \in [Workers -> WorkRecord] /\ work'[w] = k
         /\ \A x \in Workers \ {w} : work'[x] = work[x]
BY Now

\* A step of w that goes on at another pc, with another lock perhaps, and with
\* the vnode it has now.
LEMMA GoesOn ==
  ASSUME NamesIInv, NEW w \in Workers, NEW k \in WorkRecord, work' = [work EXCEPT ![w] = k],
         Answered, VmntExclusion', k.vp = work[w].vp, k.ref = work[w].ref, WorkerOK(w)'
  PROVE  NamesIInv'
<1>1. /\ work' \in [Workers -> WorkRecord] /\ work'[w] = k
      /\ \A x \in Workers \ {w} : work'[x] = work[x]
  BY Sets
<1> QED
  BY <1>1, Now, QuietStep DEF Answered

LEMMA LockVmntInv ==
  ASSUME NamesIInv, NEW w \in Workers, LockVmnt(w)
  PROVE  NamesIInv'
<1> DEFINE pc == IF work[w].call \in {"open", "truncate", "link"} THEN "look" ELSE "lock dir"
           k == [work[w] EXCEPT !.vmnt = VmntMode(work[w].call), !.pc = pc]
<1>1. /\ work[w].pc = "vmnt" /\ VmntFree(w, VmntMode(work[w].call)) /\ Answered
      /\ WorkerOK(w) /\ work[w] \in WorkRecord
  BY Now DEF LockVmnt
<1>2. pc \in {"look", "lock dir"} /\ VmntMode(work[w].call) \in {"READ", "SERIAL"}
  BY DEF VmntMode
<1>3. work' = [work EXCEPT ![w] = k]
  BY Now DEF LockVmnt
<1>4. /\ k.vmnt = VmntMode(k.call) /\ k.pc = pc /\ k.call = work[w].call /\ k.vp = work[w].vp
      /\ ~k.ref /\ k.ref = work[w].ref /\ k.logged = None /\ k.name = None
      /\ k.call \in CallNames \ OnDescriptor /\ k.vmnt \in {"READ", "SERIAL"}
  BY <1>1, <1>2 DEF WorkerOK, RecordOK, WorkRecord
<1>5. k \in WorkRecord
  BY <1>1, <1>2 DEF WorkRecord, Pcs
<1>6. /\ work'[w] = k /\ \A x \in Workers \ {w} : work'[x] = work[x]
  BY <1>3, <1>5, Sets
<1>7. VmntExclusion'
  <2>1. \A x \in Workers \ {w} : work[x].vmnt # "EXCL" /\ (k.vmnt = "SERIAL" => work[x].vmnt # "SERIAL")
    BY <1>1, <1>4 DEF VmntFree, Others
  <2>2. k.vmnt # "EXCL" /\ work[w].vmnt = "none"
    BY <1>1, <1>4 DEF WorkerOK, RecordOK
  <2> HIDE DEF k
  <2> QED
    BY <1>6, <2>1, <2>2 DEF VmntExclusion, NamesIInv
<1>8. filp'[w] = filp[w] /\ (k.call \in Opens => filp[w] = None)
  BY <1>1, <1>4 DEF Answered, WorkerOK, RecordOK, Unclaimed
<1> HIDE DEF k
<1>9. WorkerOK(w)'
  <2>1. CASE pc = "look"
    BY <1>4, <1>6, <1>8, <2>1 DEF WorkerOK, RecordOK, LookupLock, VmntMode, Removals, OnDescriptor
  <2>2. CASE pc = "lock dir"
    BY <1>4, <1>6, <1>8, <2>2 DEF WorkerOK, RecordOK, VmntMode, Removals, Opens, CallNames, OnDescriptor
  <2> QED
    BY <1>2, <2>1, <2>2
<1> QED
  BY <1>1, <1>3, <1>4, <1>5, <1>7, <1>9, GoesOn

LEMMA LockDirectoryInv ==
  ASSUME NamesIInv, NEW w \in Workers, LockDirectory(w)
  PROVE  NamesIInv'
<1>1. work[w].pc = "lock dir" /\ Answered /\ WorkerOK(w) /\ work[w] \in WorkRecord
  BY Now DEF LockDirectory
<1>2. /\ work[w].logged = None /\ work[w].vmnt = "SERIAL" /\ work[w].ref \in BOOLEAN
      /\ \/ work[w].call = "link" /\ work[w].ref /\ work[w].vp \in Inodes
         \/ work[w].call \in Removals \cup {"mknod", "creat", "creat_trunc"} /\ ~work[w].ref
      /\ work[w].call \in Opens => filp[w] = None
  BY <1>1 DEF WorkerOK, RecordOK, WorkRecord, Unclaimed
<1>3. CASE Ends(w, work[w].ref)
  BY <1>1, <1>2, <1>3, EndsQuietly
<1>4. ASSUME NEW pc \in AfterDirectory(work[w].call),
             work' = [work EXCEPT ![w].dir = TRUE, ![w].pc = pc]
      PROVE  NamesIInv'
  <2> DEFINE k == [work[w] EXCEPT !.dir = TRUE, !.pc = pc]
  <2>1. /\ pc \in {"request", "look", "upgrade"}
        /\ pc = "request" => work[w].call \in {"mknod", "link"}
        /\ pc = "upgrade" => work[w].call \in Removals
        /\ pc = "look" => work[w].call \notin {"mknod", "link"}
    BY DEF AfterDirectory, Removals
  <2>2. k \in WorkRecord /\ work' = [work EXCEPT ![w] = k]
    BY <1>1, <1>4, <2>1, Now DEF WorkRecord, Pcs
  <2>3. /\ k.pc = pc /\ k.vmnt = "SERIAL" /\ k.vmnt = work[w].vmnt /\ k.vp = work[w].vp
        /\ k.ref = work[w].ref /\ k.call = work[w].call /\ k.logged = None
    BY <1>1, <1>2 DEF WorkRecord
  <2>4. /\ work'[w] = k /\ \A x \in Workers \ {w} : work'[x] = work[x]
    BY <2>2, Sets
  <2> HIDE DEF k
  <2>5. VmntExclusion'
    BY <2>3, <2>4, ExclusionStep
  <2>6. filp'[w] = filp[w]
    BY <1>1 DEF Answered
  <2>7. WorkerOK(w)'
    BY <1>2, <2>1, <2>3, <2>4, <2>6
       DEF WorkerOK, RecordOK, LookupLock, VmntMode, Removals, Opens, OnDescriptor
  <2> QED
    BY <1>1, <2>2, <2>3, <2>5, <2>7, GoesOn
<1> QED
  BY <1>3, <1>4 DEF LockDirectory

LEMMA FoundDirectoryInv ==
  ASSUME NamesIInv, NEW w \in Workers, FoundDirectory(w)
  PROVE  NamesIInv'
<1> DEFINE k == [work[w] EXCEPT !.pc = "lock vnode", !.vp = Dir, !.ref = TRUE]
<1>1. /\ work[w].pc = "look" /\ v_ref' = [v_ref EXCEPT ![Dir] = @ + 1]
      /\ work[w].call \in {"open", "truncate"}
      /\ UNCHANGED <<entry, kind, filp, down>> /\ work' = [work EXCEPT ![w] = k]
  BY Now DEF FoundDirectory
<1>2. /\ WorkerOK(w) /\ work[w] \in WorkRecord /\ Dir \in Inodes
      /\ v_ref \in [Inodes -> Nat] /\ kind \in [Inodes -> {"free", "file", "dir"}]
  BY Now, NamesAssumption DEF NamesIInv, NamesTypeOK
<1>3. k \in WorkRecord
  BY <1>2 DEF WorkRecord, Pcs
<1>4. /\ work' \in [Workers -> WorkRecord] /\ work'[w] = k
      /\ \A x \in Workers \ {w} : work'[x] = work[x]
  BY <1>1, <1>3, Sets
<1>5. NamesTypeOK'
  BY <1>1, <1>2, <1>4 DEF NamesIInv, NamesTypeOK
<1>6. /\ k.pc = "lock vnode" /\ k.vp = Dir /\ k.ref /\ k.vmnt = work[w].vmnt
      /\ k.call = work[w].call /\ k.logged = None /\ k.vmnt = "READ" /\ LookupLock(k)
      /\ k.call \notin OnDescriptor /\ (k.call \in Opens => filp[w] = None)
  BY <1>1, <1>2 DEF WorkerOK, RecordOK, WorkRecord, LookupLock, VmntMode, Removals, Unclaimed, OnDescriptor
<1>7. VmntExclusion'
  BY <1>4, <1>6, ExclusionStep
<1>8. kind[Dir] # "free"
  BY <1>2 DEF NamesIInv, FreeUnused
<1>9. FreeUnused'
  BY <1>1, <1>2, <1>8 DEF NamesIInv, FreeUnused
<1>10. WorkerOK(w)'
  <2> HIDE DEF k
  <2> QED
    BY <1>1, <1>2, <1>4, <1>6 DEF WorkerOK, RecordOK
<1>11. \A j \in Inodes : v_ref'[j] = v_ref[j] + Counts(filp'[w], work'[w], j)
                                              - Counts(filp[w], work[w], j)
  <2>1. ~work[w].ref /\ k.ref /\ k.vp = Dir
    BY <1>1, <1>2 DEF WorkerOK, RecordOK, WorkRecord
  <2>2. \A j \in Inodes : v_ref[j] \in Nat /\ v_ref'[j] = IF j = Dir THEN v_ref[j] + 1 ELSE v_ref[j]
    BY <1>1, <1>2
  <2> HIDE DEF k
  <2> QED
    BY <1>1, <1>4, <2>1, <2>2 DEF Counts
<1> QED
  BY <1>1, <1>4, <1>5, <1>7, <1>9, <1>10, <1>11, WorkerStep

LEMMA FoundInv ==
  ASSUME NamesIInv, NEW w \in Workers, NEW n \in Component(w), Found(w, n)
  PROVE  NamesIInv'
<1> DEFINE i == entry[n]
           k == [work[w] EXCEPT !.pc = "lock vnode", !.vp = i, !.ref = TRUE,
                   !.name = IF work[w].call \in Removals THEN n ELSE None]
<1>1. /\ work[w].pc = "look" /\ i # None /\ v_ref' = [v_ref EXCEPT ![i] = @ + 1]
      /\ UNCHANGED <<entry, kind, filp, down>> /\ work' = [work EXCEPT ![w] = k]
  BY Now DEF Found
<1>2. WorkerOK(w) /\ work[w] \in WorkRecord
  BY Now
<1>3. n \in Names
  BY <1>2 DEF Component, WorkRecord
<1>4. i \in Inodes /\ v_ref \in [Inodes -> Nat]
  BY <1>1, <1>3 DEF NamesIInv, NamesTypeOK
<1>5. k \in WorkRecord
  BY <1>2, <1>3, <1>4 DEF WorkRecord, Pcs
<1>6. /\ work' \in [Workers -> WorkRecord] /\ work'[w] = k
      /\ \A x \in Workers \ {w} : work'[x] = work[x]
  BY <1>1, <1>5, Sets
<1>7. NamesTypeOK'
  BY <1>1, <1>4, <1>6 DEF NamesIInv, NamesTypeOK
<1>8. /\ k.pc = "lock vnode" /\ k.vp = i /\ k.ref /\ k.vmnt = work[w].vmnt
      /\ k.call = work[w].call /\ k.logged = None /\ LookupLock(k)
      /\ k.call \notin OnDescriptor /\ (k.call \in Removals => k.name = n)
      /\ k.call \in Opens => filp[w] = None
  BY <1>1, <1>2 DEF WorkerOK, RecordOK, WorkRecord, LookupLock, Unclaimed
<1>9. VmntExclusion' /\ FreeUnused'
  <2>1. VmntExclusion'
    BY <1>6, <1>8, ExclusionStep
  <2> QED
    BY <1>1, <1>3, <1>4, <2>1 DEF NamesIInv, FreeUnused
<1>10. WorkerOK(w)'
  <2>1. k.vmnt = "EXCL" => k.call \in Removals
    BY <1>8 DEF LookupLock, VmntMode
  <2> HIDE DEF k
  <2> QED
    BY <1>1, <1>3, <1>4, <1>6, <1>8, <2>1 DEF WorkerOK, RecordOK
<1>11. \A j \in Inodes : v_ref'[j] = v_ref[j] + Counts(filp'[w], work'[w], j)
                                              - Counts(filp[w], work[w], j)
  <2>1. ~work[w].ref /\ k.ref /\ k.vp = i
    BY <1>1, <1>2 DEF WorkerOK, RecordOK, WorkRecord
  <2>2. \A j \in Inodes : v_ref[j] \in Nat /\ v_ref'[j] = IF j = i THEN v_ref[j] + 1 ELSE v_ref[j]
    BY <1>1, <1>4
  <2> HIDE DEF i, k
  <2> QED
    BY <1>1, <1>6, <2>1, <2>2 DEF Counts
<1> QED
  BY <1>1, <1>6, <1>7, <1>9, <1>10, <1>11, WorkerStep

LEMMA NotFoundInv ==
  ASSUME NamesIInv, NEW w \in Workers, NEW n \in Component(w), NotFound(w, n)
  PROVE  NamesIInv'
<1>1. /\ work[w].pc = "look" /\ entry[n] = None /\ UNCHANGED <<entry, kind, v_ref, filp>>
      /\ WorkerOK(w) /\ work[w] \in WorkRecord
  BY Now DEF NotFound
<1>2. n \in Names
  BY <1>1 DEF Component, WorkRecord
<1>3. CASE Ends(w, FALSE) /\ UNCHANGED down
  <2>1. work[w].ref = FALSE
    BY <1>1 DEF WorkerOK, RecordOK, WorkRecord
  <2> QED
    BY <1>1, <1>3, <2>1, EndsQuietly DEF Answered
<1>4. CASE work' = work /\ down' = TRUE
  <2>1. VmntExclusion' /\ WorkerOK(w)'
    BY <1>1, <1>4 DEF NamesIInv, VmntExclusion, WorkerOK, RecordOK
  <2> QED
    BY <1>1, <1>4, <2>1, Now, QuietStep
<1>5. ASSUME NEW pc \in {"upgrade", "request"},
             work' = [work EXCEPT ![w].pc = pc, ![w].name = n], UNCHANGED down,
             pc = "upgrade" => Creates(work[w].call),
             pc = "request" => work[w].vmnt = "EXCL"
      PROVE  NamesIInv'
  <2> DEFINE k == [work[w] EXCEPT !.pc = pc, !.name = n]
  <2>1. k \in WorkRecord /\ work' = [work EXCEPT ![w] = k]
    <3>1. pc \in Pcs /\ n \in Names \cup {None}
      BY <1>2 DEF Pcs
    <3>2. k \in WorkRecord
      BY <1>1, <3>1 DEF WorkRecord
    <3>3. work' = [work EXCEPT ![w] = k]
      BY <1>5, Now
    <3> QED
      BY <3>2, <3>3
  <2>2. /\ work' \in [Workers -> WorkRecord] /\ work'[w] = k
        /\ \A x \in Workers \ {w} : work'[x] = work[x]
    BY <2>1, Sets
  <2>3. /\ k.vmnt = work[w].vmnt /\ k.pc = pc /\ k.call = work[w].call /\ k.vp = work[w].vp
        /\ ~k.ref /\ k.logged = None /\ k.name = n /\ k.ref = work[w].ref
    BY <1>1 DEF WorkerOK, RecordOK, WorkRecord
  <2> HIDE DEF k
  <2>4. VmntExclusion'
    BY <2>2, <2>3, ExclusionStep
  <2>5. WorkerOK(w)'
    <3>1. LookupLock(work[w]) /\ entry'[n] = None /\ filp'[w] = filp[w]
      BY <1>1 DEF WorkerOK, RecordOK
    <3>2. work[w].call \in Opens => filp[w] = None
      BY <1>1 DEF WorkerOK, RecordOK, Unclaimed
    <3> QED
      BY <1>1, <1>2, <1>5, <2>2, <2>3, <3>1, <3>2
         DEF WorkerOK, RecordOK, LookupLock, VmntMode, Removals, Opens, Creates
  <2> QED
    BY <1>1, <1>5, <2>2, <2>3, <2>4, <2>5, Now, QuietStep
<1> QED
  BY <1>3, <1>4, <1>5 DEF NotFound, Creating

\* What w holds with its vnode locked.
LEMMA VnodeFacts ==
  ASSUME NamesIInv, NEW w \in Workers, NEW calls, HasVnode(w, calls)
  PROVE  /\ work[w].pc = "lock vnode" /\ work[w].vp \in Inodes /\ work[w].call \in calls
         /\ work[w].logged = None /\ work[w].ref \in BOOLEAN
         /\ work[w].call \in OnDescriptor =>
              ~work[w].ref /\ filp[w] = work[w].vp /\ work[w].vmnt = "none"
         /\ work[w].call \notin OnDescriptor =>
              /\ work[w].ref /\ LookupLock(work[w])
              /\ work[w].vmnt = "EXCL" => work[w].name \in Names /\ entry[work[w].name] = work[w].vp
         /\ work[w].call \in Opens =>
              filp[w] = None /\ work[w].ref = TRUE
BY Now DEF HasVnode, WorkerOK, RecordOK, WorkRecord, Unclaimed, Opens, OnDescriptor

LEMMA OpenFailsInv ==
  ASSUME NamesIInv, NEW w \in Workers, OpenFails(w)
  PROVE  NamesIInv'
<1>1. HasVnode(w, Opens) /\ Ends(w, TRUE) /\ Answered
  BY DEF OpenFails
<1>2. work[w].ref = TRUE /\ work[w].vp \in Inodes
  BY <1>1, VnodeFacts
<1> QED
  BY <1>1, <1>2, EndsQuietly

LEMMA OpenExistingInv ==
  ASSUME NamesIInv, NEW w \in Workers, OpenExisting(w)
  PROVE  NamesIInv'
<1> DEFINE i == work[w].vp
<1>1. /\ filp' = [filp EXCEPT ![w] = i] /\ UNCHANGED <<entry, kind, v_ref, down>>
      /\ i \in Inodes /\ work[w].ref = TRUE /\ filp[w] = None /\ work[w].call \in Opens
  <2>1. HasVnode(w, Opens)
    BY DEF OpenExisting
  <2>2. i \in Inodes /\ work[w].ref = TRUE /\ filp[w] = None /\ work[w].call \in Opens
    BY <2>1, VnodeFacts
  <2> QED
    BY <2>2 DEF OpenExisting
<1>2. PICK k \in WorkRecord :
        /\ work' = [work EXCEPT ![w] = k] /\ k.vmnt = "none" /\ ~k.ref
        /\ \/ k = Idle
           \/ k.pc = "upgrade vnode" /\ k.vp = i /\ k.call = "close"
  <2>1. CASE work' = [work EXCEPT ![w] = Idle]
    <3>1. Idle.vmnt = "none" /\ ~Idle.ref
      BY DEF Idle
    <3> QED
      BY <2>1, <3>1, IdleRecord
  <2>2. CASE work' = [work EXCEPT ![w] =
                 [Idle EXCEPT !.pc = "upgrade vnode", !.vp = i, !.lock = VnodeMode(work[w].call)]]
    <3> DEFINE k == [Idle EXCEPT !.pc = "upgrade vnode", !.vp = i, !.lock = VnodeMode(work[w].call)]
    <3>1. VnodeMode(work[w].call) \in {"READ", "OPCL", "WRITE"}
      BY DEF VnodeMode
    <3>2. k \in WorkRecord
      BY <1>1, <3>1, IdleRecord DEF WorkRecord, Pcs
    <3>3. k.vmnt = "none" /\ ~k.ref /\ k.pc = "upgrade vnode" /\ k.vp = i /\ k.call = "close"
      BY DEF Idle
    <3> QED
      BY <2>2, <3>2, <3>3
  <2> QED
    BY <2>1, <2>2 DEF OpenExisting
<1>3. /\ work' \in [Workers -> WorkRecord] /\ work'[w] = k
      /\ \A x \in Workers \ {w} : work'[x] = work[x] /\ filp'[x] = filp[x]
  <2>1. filp \in [Workers -> Inodes \cup {None}]
    BY DEF NamesIInv, NamesTypeOK
  <2> QED
    BY <1>1, <1>2, <2>1, Sets
<1>4. filp' \in [Workers -> Inodes \cup {None}] /\ filp'[w] = i
  BY <1>1 DEF NamesIInv, NamesTypeOK
<1>5. NamesTypeOK'
  BY <1>1, <1>3, <1>4 DEF NamesIInv, NamesTypeOK
<1>6. VmntExclusion'
  BY <1>2, <1>3, ExclusionStep
<1>7. FreeUnused'
  BY <1>1 DEF NamesIInv, FreeUnused
<1>8. WorkerOK(w)'
  <2>1. Idle.pc = "idle" /\ Idle.call = "close"
    BY DEF Idle
  <2> HIDE DEF i
  <2>2. CASE k = Idle
    BY <1>3, <2>1, <2>2 DEF WorkerOK, RecordOK, Opens
  <2>3. CASE k.pc = "upgrade vnode" /\ k.vp = i /\ k.call = "close"
    BY <1>1, <1>2, <1>3, <2>3 DEF WorkerOK, RecordOK, Opens
  <2> QED
    BY <1>2, <2>2, <2>3
<1>9. \A j \in Inodes : v_ref'[j] = v_ref[j] + Counts(filp'[w], work'[w], j)
                                             - Counts(filp[w], work[w], j)
  <2>1. \A j \in Inodes : v_ref[j] \in Nat /\ v_ref'[j] = v_ref[j] /\ j # None
    BY <1>1, NamesAssumption DEF NamesIInv, NamesTypeOK
  <2>2. work'[w].ref = FALSE
    BY <1>2, <1>3 DEF WorkRecord
  <2>3. ASSUME NEW j \in Inodes
        PROVE  Counts(filp'[w], work'[w], j) = Counts(filp[w], work[w], j)
    <3>1. CASE j = i
      BY <1>1, <1>4, <2>1, <2>2, <3>1 DEF Counts
    <3>2. CASE j # i
      BY <1>1, <1>4, <2>1, <2>2, <3>2 DEF Counts
    <3> QED
      BY <3>1, <3>2
  <2>4. \A j \in Inodes : Counts(filp[w], work[w], j) \in Nat
    BY DEF Counts
  <2> QED
    BY <2>1, <2>3, <2>4
<1> QED
  BY <1>1, <1>3, <1>5, <1>6, <1>7, <1>8, <1>9, WorkerStep

\* A step of w that waits on at pc, with the lock of the vnode it has now.
LEMMA WaitsOn ==
  ASSUME NamesIInv, NEW w \in Workers, NEW k \in WorkRecord, work' = [work EXCEPT ![w] = k],
         Answered, k.vmnt = work[w].vmnt, k.vp = work[w].vp, k.ref = work[w].ref, WorkerOK(w)'
  PROVE  NamesIInv'
<1>1. /\ work' \in [Workers -> WorkRecord] /\ work'[w] = k
      /\ \A x \in Workers \ {w} : work'[x] = work[x]
  BY Sets
<1>2. VmntExclusion'
  BY <1>1, ExclusionStep
<1> QED
  BY <1>1, <1>2, Now, QuietStep DEF Answered

LEMMA UpgradeVnodeInv ==
  ASSUME NamesIInv, NEW w \in Workers, UpgradeVnode(w)
  PROVE  NamesIInv'
<1> DEFINE k == [work[w] EXCEPT !.lock = "WRITE", !.pc = "ftrunc"]
<1>1. /\ work[w].pc = "upgrade vnode" /\ Answered /\ WorkerOK(w) /\ work[w] \in WorkRecord
  BY Now DEF UpgradeVnode
<1>2. k \in WorkRecord /\ work' = [work EXCEPT ![w] = k]
  BY <1>1, Now DEF UpgradeVnode, WorkRecord, Pcs
<1>3. /\ k.pc = "ftrunc" /\ k.vmnt = work[w].vmnt /\ k.vp = work[w].vp /\ k.ref = work[w].ref
      /\ k.vp \in Inodes /\ k.vmnt = "none"
  BY <1>1 DEF WorkRecord, WorkerOK, RecordOK
<1>4. work'[w] = k
  BY <1>2, Sets
<1> HIDE DEF k
<1>5. WorkerOK(w)'
  BY <1>3, <1>4 DEF WorkerOK, RecordOK, Unclaimed
<1> QED
  BY <1>1, <1>2, <1>3, <1>5, WaitsOn

LEMMA TruncatingInv ==
  ASSUME NamesIInv, NEW w \in Workers, Truncating(w)
  PROVE  NamesIInv'
<1>1. HasVnode(w, {"truncate", "ftruncate"}) /\ Answered /\ work[w] \in WorkRecord
  BY Now DEF Truncating
<1>2. work[w].vp \in Inodes /\ work[w].ref \in BOOLEAN /\ work[w].vmnt \in {"none", "READ"}
  <2>1. work[w].call \in {"truncate", "ftruncate"}
    BY <1>1, VnodeFacts
  <2>2. work[w].call = "ftruncate" => work[w].vmnt = "none"
    BY <1>1, VnodeFacts DEF OnDescriptor
  <2>3. work[w].call = "truncate" => work[w].vmnt = "READ"
    <3>1. ASSUME work[w].call = "truncate"
          PROVE  LookupLock(work[w])
      BY <1>1, <3>1, VnodeFacts DEF OnDescriptor
    <3> QED
      BY <3>1 DEF LookupLock, VmntMode, Removals
  <2> QED
    BY <1>1, <2>1, <2>2, <2>3, VnodeFacts
<1>3. CASE Ends(w, work[w].ref)
  BY <1>1, <1>2, <1>3, EndsQuietly
<1>4. CASE work' = [work EXCEPT ![w].pc = "ftrunc", ![w].lock = "WRITE"]
  <2> DEFINE k == [work[w] EXCEPT !.pc = "ftrunc", !.lock = "WRITE"]
  <2>1. k \in WorkRecord /\ work' = [work EXCEPT ![w] = k]
    BY <1>1, <1>4, Now DEF WorkRecord, Pcs
  <2>2. k.pc = "ftrunc" /\ k.vmnt = work[w].vmnt /\ k.vp = work[w].vp /\ k.ref = work[w].ref
    BY <1>1 DEF WorkRecord
  <2>3. work'[w] = k
    BY <2>1, Sets
  <2> HIDE DEF k
  <2>4. WorkerOK(w)'
    BY <1>2, <2>2, <2>3 DEF WorkerOK, RecordOK, Unclaimed
  <2> QED
    BY <1>1, <2>1, <2>2, <2>4, WaitsOn
<1> QED
  BY <1>3, <1>4 DEF Truncating

LEMMA TruncateVnodeInv ==
  ASSUME NamesIInv, NEW w \in Workers, truncate_vnode(w)
  PROVE  NamesIInv'
<1>1. work[w].vp \in Inodes /\ work[w].ref \in BOOLEAN /\ Ends(w, work[w].ref) /\ Answered
  BY Now DEF truncate_vnode, WorkerOK, RecordOK, WorkRecord
<1> QED
  BY <1>1, EndsQuietly

LEMMA CloseInv ==
  ASSUME NamesIInv, NEW w \in Workers, close_fd(w)
  PROVE  NamesIInv'
<1> DEFINE i == work[w].vp
<1>1. /\ filp' = [filp EXCEPT ![w] = None] /\ UNCHANGED <<entry, kind, v_ref, down>>
      /\ i \in Inodes /\ ~work[w].ref /\ filp[w] = i /\ Ends(w, TRUE)
  BY VnodeFacts DEF close_fd, OnDescriptor
<1>2. /\ work' \in [Workers -> WorkRecord] /\ work'[w].vmnt = "none" /\ WorkerOK(w)'
      /\ work'[w].ref /\ work'[w].vp = i
      /\ \A x \in Workers \ {w} : work'[x] = work[x] /\ filp'[x] = filp[x]
  BY <1>1, EndsFacts DEF NamesIInv, NamesTypeOK
<1>3. filp' \in [Workers -> Inodes \cup {None}] /\ filp'[w] = None
  BY <1>1 DEF NamesIInv, NamesTypeOK
<1>4. NamesTypeOK'
  BY <1>1, <1>2, <1>3 DEF NamesIInv, NamesTypeOK
<1>5. VmntExclusion' /\ FreeUnused'
  <2>1. VmntExclusion'
    BY <1>2, ExclusionStep
  <2> QED
    BY <1>1, <2>1 DEF NamesIInv, FreeUnused
<1>6. \A j \in Inodes : v_ref'[j] = v_ref[j] + Counts(filp'[w], work'[w], j)
                                             - Counts(filp[w], work[w], j)
  <2>1. \A j \in Inodes : v_ref[j] \in Nat /\ v_ref'[j] = v_ref[j] /\ j # None
    BY <1>1, NamesAssumption DEF NamesIInv, NamesTypeOK
  <2> QED
    BY <1>1, <1>2, <1>3, <2>1 DEF Counts
<1> QED
  BY <1>1, <1>2, <1>4, <1>5, <1>6, WorkerStep

LEMMA LookedInv ==
  ASSUME NamesIInv, NEW w \in Workers, Looked(w)
  PROVE  NamesIInv'
<1> DEFINE logged == IF work[w].vmnt = "EXCL" THEN work[w].vp ELSE None
           k == [work[w] EXCEPT !.pc = "put", !.logged = logged]
<1>1. HasVnode(w, Removals) /\ Answered /\ work[w] \in WorkRecord
  BY Now DEF Looked
<1>2. /\ work[w].call \in Removals /\ work[w].vp \in Inodes
      /\ work[w].ref /\ LookupLock(work[w])
      /\ work[w].vmnt = "EXCL" => work[w].name \in Names /\ entry[work[w].name] = work[w].vp
  BY <1>1, VnodeFacts DEF Removals, OnDescriptor
<1>3. work[w].vmnt \in {"SERIAL", "EXCL"}
  BY <1>2 DEF LookupLock, VmntMode, Removals
<1>4. k \in WorkRecord /\ work' = [work EXCEPT ![w] = k]
  <2>1. work' = [work EXCEPT ![w] = k]
    BY Now DEF Looked
  <2>2. logged \in Inodes \cup {None} /\ "put" \in Pcs
    BY <1>2 DEF Pcs
  <2> HIDE DEF logged
  <2>3. k \in WorkRecord
    BY <1>1, <2>2 DEF WorkRecord
  <2> QED
    BY <2>1, <2>3
<1>5. /\ k.pc = "put" /\ k.vmnt = work[w].vmnt /\ k.vp = work[w].vp /\ k.ref = work[w].ref
      /\ k.call = work[w].call /\ k.name = work[w].name /\ k.logged = logged
  BY <1>1 DEF WorkRecord
<1>6. work'[w] = k
  BY <1>4, Sets
<1> HIDE DEF k
<1>7. WorkerOK(w)'
  <2>1. entry' = entry
    BY <1>1 DEF Answered
  <2> QED
    BY <1>2, <1>3, <1>5, <1>6, <2>1 DEF WorkerOK, RecordOK, Unclaimed
<1> QED
  BY <1>1, <1>4, <1>5, <1>7, WaitsOn

LEMMA HaveTargetInv ==
  ASSUME NamesIInv, NEW w \in Workers, HaveTarget(w)
  PROVE  NamesIInv'
<1>1. HasVnode(w, {"link"}) /\ Answered /\ work[w] \in WorkRecord
  BY Now DEF HaveTarget
<1>2. work[w].call = "link" /\ work[w].vp \in Inodes /\ work[w].ref = TRUE /\ LookupLock(work[w])
  BY <1>1, VnodeFacts DEF OnDescriptor
<1>3. CASE Ends(w, TRUE)
  BY <1>1, <1>2, <1>3, EndsQuietly
<1>4. CASE work' = [work EXCEPT ![w].pc = "lock dir", ![w].lock = "READ"]
  <2> DEFINE k == [work[w] EXCEPT !.pc = "lock dir", !.lock = "READ"]
  <2>1. k \in WorkRecord /\ work' = [work EXCEPT ![w] = k]
    BY <1>1, <1>4, Now DEF WorkRecord, Pcs
  <2>2. /\ k.pc = "lock dir" /\ k.vmnt = work[w].vmnt /\ k.vp = work[w].vp /\ k.ref = work[w].ref
        /\ k.call = "link" /\ k.logged = None
    BY <1>1, <1>2, VnodeFacts DEF WorkRecord
  <2>3. work'[w] = k
    BY <2>1, Sets
  <2>4. work[w].vmnt = "SERIAL"
    BY <1>2 DEF LookupLock, VmntMode, Removals
  <2> HIDE DEF k
  <2>5. WorkerOK(w)'
    BY <1>2, <2>2, <2>3, <2>4 DEF WorkerOK, RecordOK, Opens
  <2> QED
    BY <1>1, <2>1, <2>2, <2>5, WaitsOn
<1> QED
  BY <1>3, <1>4 DEF HaveTarget

\* A worker that counts as a reference is counted in v_ref.
LEMMA RefPositive ==
  ASSUME NamesIInv, NEW w \in Workers, work[w].ref, work[w].vp \in Inodes
  PROVE  v_ref[work[w].vp] \in Nat /\ v_ref[work[w].vp] > 0
<1> DEFINE i == work[w].vp
           F == {x \in Workers : filp[x] = i}
           R == {x \in Workers : work[x].ref /\ work[x].vp = i}
<1>1. v_ref[i] = Cardinality(F) + Cardinality(R)
  BY DEF NamesIInv, RefsAccounted
<1>2. IsFiniteSet(F) /\ IsFiniteSet(R) /\ R # {}
  <2>1. F \subseteq Workers /\ R \subseteq Workers /\ w \in R
    OBVIOUS
  <2> QED
    BY <2>1, NamesAssumption, FS_Subset
<1>3. Cardinality(F) \in Nat /\ Cardinality(R) \in Nat /\ Cardinality(R) # 0
  BY <1>2, FS_CardinalityType, FS_EmptySet
<1> HIDE DEF F, R
<1> QED
  BY <1>1, <1>3

LEMMA PutInv ==
  ASSUME NamesIInv, NEW w \in Workers, put_vnode(w)
  PROVE  NamesIInv'
<1> DEFINE i == work[w].vp
           refs == [v_ref EXCEPT ![i] = @ - 1]
<1>1. /\ work[w].pc = "put" /\ v_ref' = refs /\ kind' = Kept(kind, entry, refs)
      /\ UNCHANGED <<entry, filp, down>>
      /\ WorkerOK(w) /\ work[w] \in WorkRecord
  BY Now DEF put_vnode
<1>2. /\ i \in Inodes /\ work[w].ref = TRUE
      /\ \/ work[w].vmnt = "none"
         \/ work[w].vmnt = "SERIAL" /\ work[w].call \in Removals /\ work[w].logged = None
         \/ /\ work[w].vmnt = "EXCL" /\ work[w].call \in Removals
            /\ work[w].name \in Names /\ entry[work[w].name] = work[w].logged
  BY <1>1 DEF WorkerOK, RecordOK, WorkRecord
<1>3. v_ref \in [Inodes -> Nat] /\ v_ref[i] > 0 /\ kind \in [Inodes -> {"free", "file", "dir"}]
  BY <1>2, RefPositive DEF NamesIInv, NamesTypeOK
<1>4. \A j \in Inodes : v_ref[j] \in Nat /\ v_ref'[j] = IF j = i THEN v_ref[j] - 1 ELSE v_ref[j]
  BY <1>1, <1>3
<1>5. v_ref' \in [Inodes -> Nat]
  BY <1>1, <1>2, <1>3, <1>4
<1>6. /\ kind' \in [Inodes -> {"free", "file", "dir"}]
      /\ \A j \in Inodes : kind'[j] = IF j = Dir \/ v_ref'[j] > 0 \/ \E n \in Names : entry[n] = j
                                      THEN kind[j] ELSE "free"
  BY <1>1, <1>3 DEF Kept
<1>7. FreeUnused'
  <2> SUFFICES ASSUME NEW j \in Inodes, kind'[j] = "free"
               PROVE  j # Dir /\ v_ref'[j] = 0 /\ \A n \in Names : entry[n] # j
    BY <1>1 DEF FreeUnused
  <2>1. CASE kind[j] = "free"
    <3>1. j # Dir /\ v_ref[j] = 0 /\ \A n \in Names : entry[n] # j
      BY <2>1 DEF NamesIInv, FreeUnused
    <3>2. j # i
      BY <1>3, <3>1
    <3> QED
      BY <1>4, <3>1, <3>2
  <2>2. CASE kind[j] # "free"
    <3>1. j # Dir /\ ~(v_ref'[j] > 0) /\ ~\E n \in Names : entry[n] = j
      BY <1>6, <2>2
    <3>2. v_ref'[j] \in Nat
      BY <1>5
    <3> QED
      BY <3>1, <3>2
  <2> QED
    BY <2>1, <2>2
<1>8. PICK k \in WorkRecord :
        /\ work' = [work EXCEPT ![w] = k] /\ k.ref = FALSE
        /\ \/ k = Idle /\ k.vmnt = "none"
           \/ /\ k.call = work[w].call /\ k.name = work[w].name /\ k.vmnt = work[w].vmnt
              /\ k.logged = work[w].logged
              /\ \/ k.vmnt = "SERIAL" /\ k.pc = "upgrade"
                 \/ k.vmnt = "EXCL" /\ k.pc = "request"
  <2> DEFINE k(pc) == [[work[w] EXCEPT !.vp = None, !.ref = FALSE] EXCEPT !.pc = pc]
  <2>1. ASSUME NEW pc \in {"upgrade", "request"}
        PROVE  /\ k(pc) \in WorkRecord /\ k(pc).ref = FALSE /\ k(pc).pc = pc
               /\ k(pc).call = work[w].call /\ k(pc).name = work[w].name
               /\ k(pc).vmnt = work[w].vmnt /\ k(pc).logged = work[w].logged
    BY <1>1 DEF WorkRecord, Pcs
  <2>2. Idle.ref = FALSE /\ Idle.vmnt = "none"
    BY DEF Idle
  <2>3. \/ work' = [work EXCEPT ![w] = k("upgrade")] /\ work[w].vmnt = "SERIAL"
        \/ work' = [work EXCEPT ![w] = k("request")] /\ work[w].vmnt = "EXCL"
        \/ work' = [work EXCEPT ![w] = Idle]
    BY DEF put_vnode
  <2> HIDE DEF k
  <2> QED
    BY <2>1, <2>2, <2>3, IdleRecord
<1>9. /\ work' \in [Workers -> WorkRecord] /\ work'[w] = k
      /\ \A x \in Workers \ {w} : work'[x] = work[x] /\ filp'[x] = filp[x]
  BY <1>1, <1>8, Sets
<1>10. NamesTypeOK'
  BY <1>1, <1>5, <1>6, <1>9 DEF NamesIInv, NamesTypeOK
<1>11. VmntExclusion'
  BY <1>8, <1>9, ExclusionStep
<1>12. WorkerOK(w)'
  <2>1. Idle.pc = "idle" /\ Idle.call = "close"
    BY DEF Idle
  <2>2. entry' = entry
    BY <1>1
  <2>3. CASE k = Idle
    BY <1>9, <2>1, <2>3 DEF WorkerOK, RecordOK, Opens
  <2>4. CASE k # Idle
    BY <1>2, <1>8, <1>9, <2>2, <2>4 DEF WorkerOK, RecordOK, Removals, Opens
  <2> QED
    BY <2>3, <2>4
<1>13. \A j \in Inodes : v_ref'[j] = v_ref[j] + Counts(filp'[w], work'[w], j)
                                              - Counts(filp[w], work[w], j)
  <2> SUFFICES ASSUME NEW j \in Inodes
               PROVE  v_ref'[j] = v_ref[j] + Counts(filp'[w], work'[w], j)
                                           - Counts(filp[w], work[w], j)
    OBVIOUS
  <2>1. Counts(filp'[w], work'[w], j) = IF filp[w] = j THEN 1 ELSE 0
    BY <1>1, <1>8, <1>9 DEF Counts
  <2>2. Counts(filp[w], work[w], j)
          = (IF filp[w] = j THEN 1 ELSE 0) + (IF i = j THEN 1 ELSE 0)
    BY <1>2 DEF Counts
  <2> HIDE DEF i
  <2> QED
    BY <1>4, <2>1, <2>2
<1> QED
  BY <1>1, <1>7, <1>9, <1>10, <1>11, <1>12, <1>13, WorkerStep

LEMMA UpgradeInv ==
  ASSUME NamesIInv, NEW w \in Workers, Upgrade(w)
  PROVE  NamesIInv'
<1> DEFINE pc == IF Creates(work[w].call) THEN "create"
                 ELSE IF work[w].call = "rename" THEN "request" ELSE "look"
           k == [work[w] EXCEPT !.vmnt = "EXCL", !.pc = pc]
<1>1. /\ work[w].pc = "upgrade" /\ VmntFree(w, "EXCL") /\ Answered
      /\ WorkerOK(w) /\ work[w] \in WorkRecord
  BY Now DEF Upgrade
<1>2. /\ work[w].ref = FALSE /\ work[w].logged = None
      /\ \/ work[w].call \in Removals
         \/ Creates(work[w].call) /\ work[w].name \in Names /\ entry[work[w].name] = None
      /\ work[w].call \in Opens => filp[w] = None
  BY <1>1 DEF WorkerOK, RecordOK, WorkRecord, Unclaimed
<1>3. k \in WorkRecord /\ work' = [work EXCEPT ![w] = k]
  <2>1. pc \in Pcs
    BY DEF Pcs
  <2>2. work' = [work EXCEPT ![w] = k]
    BY Now DEF Upgrade
  <2> HIDE DEF pc
  <2> QED
    BY <1>1, <2>1, <2>2 DEF WorkRecord
<1>4. /\ work' \in [Workers -> WorkRecord] /\ work'[w] = k
      /\ \A x \in Workers \ {w} : work'[x] = work[x]
  BY <1>3, Sets
<1>5. /\ k.pc = pc /\ k.vmnt = "EXCL" /\ k.vp = work[w].vp /\ k.ref = FALSE
      /\ k.call = work[w].call /\ k.name = work[w].name /\ k.logged = None
  BY <1>1, <1>2 DEF WorkRecord
<1> HIDE DEF k
<1>6. VmntExclusion'
  BY <1>1, <1>4, <1>5 DEF VmntExclusion, VmntFree, Others, NamesIInv
<1>7. WorkerOK(w)'
  <2>1. entry' = entry /\ filp' = filp
    BY <1>1 DEF Answered
  <2>2. k.call \in Removals => ~Creates(k.call) /\ k.call \notin OnDescriptor \cup {"mknod"}
    BY DEF Removals, Creates, OnDescriptor
  <2>3. CASE Creates(k.call)
    BY <1>2, <1>4, <1>5, <2>1, <2>2, <2>3 DEF WorkerOK, RecordOK
  <2>4. CASE k.call \in Removals /\ k.call = "rename"
    BY <1>2, <1>4, <1>5, <2>1, <2>2, <2>4 DEF WorkerOK, RecordOK, Opens
  <2>5. CASE k.call \in Removals /\ k.call # "rename"
    BY <1>2, <1>4, <1>5, <2>1, <2>2, <2>5 DEF WorkerOK, RecordOK, LookupLock
  <2> QED
    BY <1>2, <1>5, <2>3, <2>4, <2>5
<1> QED
  BY <1>1, <1>2, <1>4, <1>5, <1>6, <1>7, Now, QuietStep DEF Answered

LEMMA FreeInodeIsFree ==
  FreeInode # None => FreeInode \in Inodes /\ kind[FreeInode] = "free"
BY DEF FreeInode

LEMMA CreateInv ==
  ASSUME NamesIInv, NEW w \in Workers, req_create(w)
  PROVE  NamesIInv'
<1> DEFINE i == FreeInode
           n == work[w].name
<1>1. /\ work[w].pc = "create" /\ WorkerOK(w) /\ work[w] \in WorkRecord
      /\ NamesTypeOK
  BY Now DEF req_create, NamesIInv
<1>2. /\ work[w].ref = FALSE /\ work[w].vmnt = "EXCL" /\ n \in Names /\ filp[w] = None
  BY <1>1 DEF WorkerOK, RecordOK, WorkRecord, Unclaimed, Creates, Opens
<1>3. CASE Ends(w, FALSE) /\ Answered
  BY <1>2, <1>3, EndsQuietly
<1>4. CASE /\ i # None /\ entry[n] = None
           /\ entry' = [entry EXCEPT ![n] = i] /\ kind' = [kind EXCEPT ![i] = "file"]
           /\ v_ref' = [v_ref EXCEPT ![i] = 1] /\ filp' = [filp EXCEPT ![w] = i]
           /\ work' = [work EXCEPT ![w] = Idle] /\ UNCHANGED down
  <2>1. i \in Inodes /\ kind[i] = "free" /\ v_ref[i] = 0
    BY <1>4, FreeInodeIsFree DEF NamesIInv, FreeUnused
  <2> HIDE DEF i
  <2>2. /\ work' \in [Workers -> WorkRecord] /\ work'[w] = Idle
        /\ \A x \in Workers \ {w} : work'[x] = work[x]
    BY <1>4, IdleRecord, Sets
  <2>3. /\ filp' \in [Workers -> Inodes \cup {None}] /\ filp'[w] = i
        /\ \A x \in Workers \ {w} : filp'[x] = filp[x]
    BY <1>1, <1>4, <2>1 DEF NamesTypeOK
  <2>4. NamesTypeOK'
    BY <1>1, <1>4, <2>1, <2>2, <2>3 DEF NamesTypeOK
  <2>5. VmntExclusion'
    BY <2>2, ExclusionStep DEF Idle
  <2>6. FreeUnused'
    <3> SUFFICES ASSUME NEW j \in Inodes, kind'[j] = "free"
                 PROVE  j # Dir /\ v_ref'[j] = 0 /\ \A m \in Names : entry'[m] # j
      BY DEF FreeUnused
    <3>1. j # i /\ kind[j] = "free"
      BY <1>1, <1>4, <2>1 DEF NamesTypeOK
    <3>2. j # Dir /\ v_ref[j] = 0 /\ \A m \in Names : entry[m] # j
      BY <3>1 DEF NamesIInv, FreeUnused
    <3> QED
      BY <1>1, <1>4, <3>1, <3>2 DEF NamesTypeOK
  <2>7. WorkerOK(w)'
    BY <2>2 DEF WorkerOK, RecordOK, Idle, Opens
  <2>8. \A j \in Inodes : v_ref'[j] = v_ref[j] + Counts(filp'[w], work'[w], j)
                                               - Counts(filp[w], work[w], j)
    <3> SUFFICES ASSUME NEW j \in Inodes
                 PROVE  v_ref'[j] = v_ref[j] + Counts(filp'[w], work'[w], j)
                                             - Counts(filp[w], work[w], j)
      OBVIOUS
    <3>1. Counts(filp'[w], work'[w], j) = IF i = j THEN 1 ELSE 0
      BY <2>2, <2>3 DEF Counts, Idle
    <3>2. Counts(filp[w], work[w], j) = 0
      BY <1>2, NamesAssumption DEF Counts
    <3>3. v_ref[j] \in Nat /\ v_ref'[j] = IF i = j THEN 1 ELSE v_ref[j]
      BY <1>1, <1>4, <2>1 DEF NamesTypeOK
    <3> QED
      BY <2>1, <3>1, <3>2, <3>3
  <2> QED
    BY <1>2, <2>2, <2>3, <2>4, <2>5, <2>6, <2>7, <2>8, WorkerStep
<1> QED
  BY <1>3, <1>4 DEF req_create

\* The file system frees an inode only when it has no name and no reference left.
LEMMA KeptIsUsed ==
  ASSUME NamesIInv, NEW names, entry' = names, kind' = Kept(kind, names, v_ref), v_ref' = v_ref,
         \A j \in Inodes : kind[j] = "free" => \A m \in Names : names[m] # j
  PROVE  kind' \in [Inodes -> {"free", "file", "dir"}] /\ FreeUnused'
<1>1. kind \in [Inodes -> {"free", "file", "dir"}] /\ v_ref \in [Inodes -> Nat]
  BY DEF NamesIInv, NamesTypeOK
<1>2. \A j \in Inodes : kind'[j] = IF j = Dir \/ v_ref[j] > 0 \/ \E m \in Names : names[m] = j
                                   THEN kind[j] ELSE "free"
  BY DEF Kept
<1>3. kind' \in [Inodes -> {"free", "file", "dir"}]
  BY <1>1 DEF Kept
<1>4. FreeUnused'
  <2> SUFFICES ASSUME NEW j \in Inodes, kind'[j] = "free"
               PROVE  j # Dir /\ v_ref[j] = 0 /\ \A m \in Names : names[m] # j
    BY DEF FreeUnused
  <2>1. CASE kind[j] = "free"
    BY <2>1 DEF NamesIInv, FreeUnused
  <2>2. CASE kind[j] # "free"
    <3>1. j # Dir /\ ~(v_ref[j] > 0) /\ ~\E m \in Names : names[m] = j
      BY <1>2, <2>2
    <3>2. v_ref[j] \in Nat
      BY <1>1
    <3> QED
      BY <3>1, <3>2
  <2> QED
    BY <2>1, <2>2
<1> QED
  BY <1>3, <1>4

\* What a request does to the directory and to the inodes.
LEMMA DirectoryStep ==
  ASSUME NamesIInv, NEW call, NEW vp, NEW n \in Names, v_ref' = v_ref,
         \/ NewEntry(call, n)
         \/ NewLink(call, vp, n) /\ vp \in Inodes
         \/ Remove(call, n)
         \/ \E n2 \in Names : Rename(call, n, n2)
  PROVE  /\ entry' \in [Names -> Inodes \cup {None}]
         /\ kind' \in [Inodes -> {"free", "file", "dir"}]
         /\ FreeUnused'
<1>1. /\ entry \in [Names -> Inodes \cup {None}] /\ kind \in [Inodes -> {"free", "file", "dir"}]
      /\ \A j \in Inodes : kind[j] = "free" =>
           j # Dir /\ v_ref[j] = 0 /\ \A m \in Names : entry[m] # j
      /\ None \notin Inodes
  BY NamesAssumption DEF NamesIInv, NamesTypeOK, FreeUnused
<1>2. CASE NewEntry(call, n)
  <2> DEFINE i == FreeInode
  <2>1. i \in Inodes /\ kind[i] = "free"
    BY <1>2, FreeInodeIsFree DEF NewEntry
  <2> HIDE DEF i
  <2>2. PICK k \in {"file", "dir"} : entry' = [entry EXCEPT ![n] = i] /\ kind' = [kind EXCEPT ![i] = k]
    BY <1>2 DEF NewEntry, i
  <2>3. \A j \in Inodes : kind'[j] = "free" => j # i /\ kind[j] = "free"
    BY <1>1, <2>1, <2>2
  <2> QED
    BY <1>1, <2>1, <2>2, <2>3 DEF FreeUnused
<1>3. CASE NewLink(call, vp, n) /\ vp \in Inodes
  <2>1. kind[vp] = "file" /\ entry' = [entry EXCEPT ![n] = vp] /\ kind' = kind /\ vp \in Inodes
    BY <1>3 DEF NewLink
  <2> QED
    BY <1>1, <2>1 DEF FreeUnused
<1>4. CASE Remove(call, n)
  <2>1. entry' = [entry EXCEPT ![n] = None] /\ kind' = Kept(kind, entry', v_ref)
    BY <1>4 DEF Remove
  <2>2. entry' \in [Names -> Inodes \cup {None}]
    BY <1>1, <2>1
  <2>3. \A j \in Inodes : kind[j] = "free" => \A m \in Names : entry'[m] # j
    BY <1>1, <2>1
  <2> QED
    BY <2>1, <2>2, <2>3, KeptIsUsed
<1>5. ASSUME NEW n2 \in Names, Rename(call, n, n2)
      PROVE  /\ entry' \in [Names -> Inodes \cup {None}]
             /\ kind' \in [Inodes -> {"free", "file", "dir"}]
             /\ FreeUnused'
  <2>1. /\ entry' = [entry EXCEPT ![n] = None, ![n2] = entry[n]]
        /\ kind' = Kept(kind, entry', v_ref)
    BY <1>5 DEF Rename
  <2>2. entry' \in [Names -> Inodes \cup {None}]
    BY <1>1, <2>1
  <2>3. \A j \in Inodes : kind[j] = "free" => \A m \in Names : entry'[m] # j
    BY <1>1, <2>1
  <2> QED
    BY <2>1, <2>2, <2>3, KeptIsUsed
<1> QED
  BY <1>2, <1>3, <1>4, <1>5

LEMMA RequestInv ==
  ASSUME NamesIInv, NEW w \in Workers, Request(w)
  PROVE  NamesIInv'
<1>1. /\ work[w].pc = "request" /\ Ends(w, work[w].ref) /\ UNCHANGED <<v_ref, filp, down>>
      /\ WorkerOK(w) /\ work[w] \in WorkRecord /\ NamesTypeOK
  BY Now DEF Request, NamesIInv
<1>2. /\ work[w].ref \in BOOLEAN /\ (work[w].ref => work[w].vp \in Inodes)
      /\ work[w].vmnt \in {"SERIAL", "EXCL"} /\ (work[w].call = "link" => work[w].ref)
  BY <1>1 DEF WorkerOK, RecordOK, WorkRecord
<1>3. /\ entry' \in [Names -> Inodes \cup {None}]
      /\ kind' \in [Inodes -> {"free", "file", "dir"}]
      /\ FreeUnused'
  <2>1. CASE UNCHANGED <<entry, kind>>
    BY <1>1, <2>1 DEF NamesTypeOK, NamesIInv, FreeUnused
  <2>2. ASSUME NEW n \in Component(w),
               \/ NewEntry(work[w].call, n)
               \/ NewLink(work[w].call, work[w].vp, n)
               \/ Remove(work[w].call, n)
               \/ \E n2 \in Names : Rename(work[w].call, n, n2)
        PROVE  /\ entry' \in [Names -> Inodes \cup {None}]
               /\ kind' \in [Inodes -> {"free", "file", "dir"}]
               /\ FreeUnused'
    <3>1. n \in Names
      BY <1>1 DEF Component, WorkRecord
    <3>2. NewLink(work[w].call, work[w].vp, n) => work[w].vp \in Inodes
      BY <1>2 DEF NewLink
    <3> QED
      BY <1>1, <2>2, <3>1, <3>2, DirectoryStep
  <2> QED
    BY <2>1, <2>2 DEF Request
<1>4. /\ work' \in [Workers -> WorkRecord] /\ work'[w].vmnt = "none" /\ WorkerOK(w)'
      /\ work'[w].ref = work[w].ref /\ (work[w].ref => work'[w].vp = work[w].vp)
      /\ \A x \in Workers \ {w} : work'[x] = work[x] /\ filp'[x] = filp[x]
  BY <1>1, <1>2, EndsFacts
<1>5. NamesTypeOK'
  BY <1>1, <1>3, <1>4 DEF NamesTypeOK
<1>6. VmntExclusion'
  BY <1>4, ExclusionStep
<1>7. \A j \in Inodes : v_ref'[j] = v_ref[j] + Counts(filp'[w], work'[w], j)
                                             - Counts(filp[w], work[w], j)
  BY <1>1, <1>4 DEF Counts, NamesTypeOK
<1> QED
  BY <1>2, <1>3, <1>4, <1>5, <1>6, <1>7, WorkerStep

-----------------------------------------------------------------------------
LEMMA NamesStepInv ==
  ASSUME NamesIInv, [NamesNext]_namesVars
  PROVE  NamesIInv'
<1>1. CASE UNCHANGED namesVars
  <2>1. NamesTypeOK' /\ VmntExclusion' /\ FreeUnused'
    BY <1>1 DEF namesVars, NamesIInv, NamesTypeOK, VmntExclusion, FreeUnused
  <2>2. RefsAccounted'
    BY <1>1 DEF namesVars, NamesIInv, RefsAccounted
  <2>3. \A w \in Workers : WorkerOK(w)'
    <3> SUFFICES ASSUME NEW w \in Workers PROVE WorkerOK(w)'
      OBVIOUS
    <3>1. WorkerOK(w) /\ entry' = entry /\ work' = work /\ filp' = filp
      BY <1>1 DEF namesVars, NamesIInv
    <3> QED
      BY <3>1 DEF WorkerOK
  <2> QED
    BY <2>1, <2>2, <2>3 DEF NamesIInv
<1>2. ASSUME NEW w \in Workers, NEW call \in CallNames, Call(w, call)
      PROVE  NamesIInv'
  BY <1>2, CallInv
<1>3. ASSUME NEW w \in Workers, Step(w)
      PROVE  NamesIInv'
  <2>1. CASE \E n \in Component(w) : Found(w, n) \/ NotFound(w, n)
    BY <2>1, FoundInv, NotFoundInv
  <2>2. CASE LockVmnt(w) \/ LockDirectory(w) \/ FoundDirectory(w) \/ Upgrade(w)
    BY <2>2, LockVmntInv, LockDirectoryInv, FoundDirectoryInv, UpgradeInv
  <2>3. CASE OpenFails(w) \/ OpenExisting(w) \/ req_create(w) \/ close_fd(w)
    BY <2>3, OpenFailsInv, OpenExistingInv, CreateInv, CloseInv
  <2>4. CASE UpgradeVnode(w) \/ Truncating(w) \/ truncate_vnode(w)
    BY <2>4, UpgradeVnodeInv, TruncatingInv, TruncateVnodeInv
  <2>5. CASE Looked(w) \/ HaveTarget(w) \/ put_vnode(w) \/ Request(w)
    BY <2>5, LookedInv, HaveTargetInv, PutInv, RequestInv
  <2> QED
    BY <1>3, <2>1, <2>2, <2>3, <2>4, <2>5 DEF Step
<1> QED
  BY <1>1, <1>2, <1>3 DEF NamesNext

LEMMA NamesAlways == NamesInit /\ [][NamesNext]_namesVars => []NamesIInv
<1>1. NamesIInv /\ [NamesNext]_namesVars => NamesIInv'
  BY NamesStepInv
<1> QED
  BY NamesInitInv, <1>1, PTL

LEMMA NamesInvariant == NamesSpec => []NamesIInv
BY NamesAlways, PTL DEF NamesSpec

\* The descriptors, references and records of the calls keep their types; in
\* particular v_ref_count never falls below 0 (put_vnode).
THEOREM NamesTypeCorrect == NamesSpec => []NamesTypeOK
<1>1. NamesIInv => NamesTypeOK
  BY DEF NamesIInv
<1> QED
  BY NamesInvariant, <1>1, PTL

\* v_ref_count is the number of descriptors and calls that have the vnode, with
\* any number of workers: no path through open.c and link.c, those with errors
\* included, loses a reference or gives it back twice.
THEOREM NamesRefsAccounted == NamesSpec => []RefsAccounted
<1>1. NamesIInv => RefsAccounted
  BY DEF NamesIInv
<1> QED
  BY NamesInvariant, <1>1, PTL

LEMMA LookupsFollow == NamesIInv => LookupsStillHold
<1> SUFFICES ASSUME NamesIInv, NEW w \in Workers
             PROVE  /\ work[w].pc = "create" => entry[work[w].name] = None
                    /\ work[w].pc = "request" /\ work[w].call = "unlink" =>
                         entry[work[w].name] = work[w].logged
  BY DEF LookupsStillHold
<1> QED
  BY Now DEF WorkerOK, RecordOK

\* With any number of workers, what new_node and do_unlink looked up still holds
\* when their request reaches the file system, and the file removed is the one
\* whose number was printed.
THEOREM NamesLookupsHold == NamesSpec => []LookupsStillHold
BY NamesInvariant, LookupsFollow, PTL

\* A step of a worker changes no record but its own.
LEMMA OthersUntouched ==
  ASSUME NamesIInv, NEW y \in Workers, Step(y)
  PROVE  \A z \in Workers \ {y} : work'[z] = work[z]
<1> SUFFICES ASSUME NEW z \in Workers \ {y} PROVE work'[z] = work[z]
  OBVIOUS
<1> DEFINE Mine == \E k : work' = [work EXCEPT ![y] = k]
<1>1. Mine \/ work' = work
  <2>1. CASE LockVmnt(y) \/ LockDirectory(y) \/ FoundDirectory(y) \/ Upgrade(y)
    BY <2>1 DEF LockVmnt, LockDirectory, FoundDirectory, Upgrade, Ends
  <2>2. CASE \E n \in Component(y) : Found(y, n) \/ NotFound(y, n)
    BY <2>2 DEF Found, NotFound, Creating, Ends
  <2>3. CASE OpenFails(y) \/ OpenExisting(y) \/ req_create(y) \/ close_fd(y)
    BY <2>3 DEF OpenFails, OpenExisting, req_create, close_fd, Ends
  <2>4. CASE UpgradeVnode(y) \/ Truncating(y) \/ truncate_vnode(y)
    BY <2>4 DEF UpgradeVnode, Truncating, truncate_vnode, Ends
  <2>5. CASE Looked(y) \/ HaveTarget(y) \/ put_vnode(y) \/ Request(y)
    BY <2>5 DEF Looked, HaveTarget, put_vnode, Request, Ends
  <2> QED
    BY <2>1, <2>2, <2>3, <2>4, <2>5 DEF Step
<1> QED
  BY <1>1, Now

\* The deadlock between an upgrade with the directory locked (open.c:361,
\* link.c:155 and 275) and an open or a truncate of the directory is for ever,
\* whatever other workers do: the upgrade waits for the reader of the vmnt, and
\* the reader for the directory's vnode.
THEOREM DeadlockIsForEver ==
  ASSUME NEW w \in Workers, NEW x \in Workers
  PROVE  NamesSpec => [][WaitForEachOther(w, x) => WaitForEachOther(w, x)']_namesVars
<1>1. ASSUME NamesIInv, [NamesNext]_namesVars, WaitForEachOther(w, x)
      PROVE  WaitForEachOther(w, x)'
  <2>1. /\ work[w].pc = "upgrade" /\ work[w].dir /\ w # x
        /\ work[x].pc = "lock vnode" /\ work[x].vp = Dir /\ work[x].vmnt = "READ"
    BY <1>1 DEF WaitForEachOther
  <2>2. work'[w] = work[w] /\ work'[x] = work[x]
    <3>1. CASE UNCHANGED namesVars
      BY <3>1 DEF namesVars
    <3>2. ASSUME NEW y \in Workers, NEW call \in CallNames, Call(y, call)
          PROVE  work'[w] = work[w] /\ work'[x] = work[x]
      <4>1. y # w /\ y # x
        BY <2>1, <3>2 DEF Call
      <4> QED
        BY <1>1, <3>2, <4>1, Now DEF Call
    <3>3. ASSUME NEW y \in Workers, Step(y)
          PROVE  work'[w] = work[w] /\ work'[x] = work[x]
      <4>1. ~Upgrade(w)
        BY <2>1 DEF Upgrade, VmntFree, Others
      <4>2. \A calls : ~HasVnode(x, calls)
        BY <2>1 DEF HasVnode, VnodeFree, Others
      <4>3. y # w
        BY <2>1, <3>3, <4>1
           DEF Step, LockVmnt, LockDirectory, FoundDirectory, Found, NotFound, OpenFails,
               OpenExisting, UpgradeVnode, Truncating, truncate_vnode, close_fd, Looked,
               HaveTarget, put_vnode, req_create, Request, HasVnode
      <4>4. y # x
        BY <2>1, <3>3, <4>2
           DEF Step, LockVmnt, LockDirectory, FoundDirectory, Found, NotFound, OpenFails,
               OpenExisting, UpgradeVnode, Truncating, truncate_vnode, close_fd, Looked,
               HaveTarget, put_vnode, Upgrade, req_create, Request
      <4>5. \A z \in Workers \ {y} : work'[z] = work[z]
        BY <1>1, <3>3, OthersUntouched
      <4> QED
        BY <4>3, <4>4, <4>5
    <3> QED
      BY <1>1, <3>1, <3>2, <3>3 DEF NamesNext
  <2> QED
    BY <2>1, <2>2 DEF WaitForEachOther
<1> QED
  BY NamesInvariant, <1>1, PTL DEF NamesSpec

-----------------------------------------------------------------------------
(***************************************************************************)
(* Pipes                                                                   *)
(***************************************************************************)
\* A process asleep has a descriptor, for the side it reads or writes; only a
\* sleeping read or write has moved something.
CallsOK ==
  \A p \in Procs :
    /\ fproc[p].blocked \in {"open", "read", "write"} => fproc[p].fd # NoFilp
    /\ fproc[p].blocked \in {"read", "write"} =>
         filps[fproc[p].fd].mode = ModeFor(fproc[p].blocked)
    /\ fproc[p].blocked \notin {"read", "write"} => fproc[p].moved = 0

\* A filp in use is for reading or for writing.
FilpsOK == \A f \in FilpSlots : filps[f].count > 0 <=> filps[f].mode \in Modes

PipesIInv == FifoRefs /\ BytesAccounted /\ NobodySleepsInVain /\ CallsOK /\ FilpsOK

-----------------------------------------------------------------------------
\* The cardinality of a set when only w joins or leaves it.
LEMMA CardMember ==
  ASSUME NEW U, IsFiniteSet(U), NEW S \in SUBSET U, NEW T \in SUBSET U, NEW w \in U,
         \A x \in U \ {w} : x \in S <=> x \in T
  PROVE  /\ Cardinality(S) \in Nat /\ Cardinality(T) \in Nat
         /\ Cardinality(T) = Cardinality(S) + (IF w \in T THEN 1 ELSE 0)
                                            - (IF w \in S THEN 1 ELSE 0)
<1> DEFINE R == S \ {w}
<1>1. IsFiniteSet(S) /\ IsFiniteSet(T) /\ IsFiniteSet(R)
  BY FS_Subset
<1>2. Cardinality(S) \in Nat /\ Cardinality(T) \in Nat /\ Cardinality(R) \in Nat
  BY <1>1, FS_CardinalityType
<1>3. Cardinality(R \cup {w}) = Cardinality(R) + 1
  BY <1>1, FS_AddElement
<1>4. S = IF w \in S THEN R \cup {w} ELSE R
  OBVIOUS
<1>5. T = IF w \in T THEN R \cup {w} ELSE R
  OBVIOUS
<1>6. Cardinality(S) = Cardinality(R) + (IF w \in S THEN 1 ELSE 0)
  <2> HIDE DEF R
  <2>1. CASE w \in S  BY <1>2, <1>3, <1>4, <2>1
  <2>2. CASE w \notin S  BY <1>2, <1>4, <2>2
  <2> QED  BY <2>1, <2>2
<1>7. Cardinality(T) = Cardinality(R) + (IF w \in T THEN 1 ELSE 0)
  <2> HIDE DEF R
  <2>1. CASE w \in T  BY <1>2, <1>3, <1>5, <2>1
  <2>2. CASE w \notin T  BY <1>2, <1>5, <2>2
  <2> QED  BY <2>1, <2>2
<1> HIDE DEF R
<1> QED
  BY <1>2, <1>6, <1>7

\* A set with a member has a positive cardinality.
LEMMA CardPositive ==
  ASSUME NEW U, IsFiniteSet(U), NEW S \in SUBSET U, NEW x \in S
  PROVE  Cardinality(S) > 0
<1>1. IsFiniteSet(S) /\ Cardinality(S) \in Nat
  BY FS_Subset, FS_CardinalityType
<1>2. Cardinality(S) # 0
  BY <1>1, FS_EmptySet
<1> QED
  BY <1>1, <1>2

\* Who has a descriptor has a filp in use, which is of its side, and the vnode
\* a reference.
LEMMA DescriptorIsUsed ==
  ASSUME PipesIInv, NEW p \in Procs, fproc[p].fd # NoFilp
  PROVE  /\ fproc[p].fd \in FilpSlots
         /\ filps[fproc[p].fd].count > 0 /\ filps[fproc[p].fd].mode \in Modes
         /\ fproc[p].fd \in find_filp(filps[fproc[p].fd].mode)
         /\ v_ref_count > 0
<1> DEFINE f == fproc[p].fd
           users == {q \in Procs : fproc[q].fd = f}
           used == {g \in FilpSlots : filps[g].count > 0}
<1>1. f \in FilpSlots
  BY DEF PipesIInv, FifoRefs, PipesTypeOK, FprocRecord
<1>2. p \in users /\ users \in SUBSET Procs
  OBVIOUS
<1>3. Cardinality(users) > 0
  <2> HIDE DEF users
  <2> QED  BY <1>2, CardPositive, PipesAssumption
<1>4. filps[f].count = Cardinality(users)
  BY <1>1 DEF PipesIInv, FifoRefs
<1>5. filps[f].count > 0
  BY <1>3, <1>4
<1>6. f \in used /\ used \in SUBSET FilpSlots
  BY <1>1, <1>5
<1>7. Cardinality(used) > 0
  <2> HIDE DEF used, f
  <2> QED  BY <1>6, CardPositive, PipesAssumption
<1>8. v_ref_count > 0
  BY <1>7 DEF PipesIInv, FifoRefs
<1>9. filps[f].mode \in Modes
  BY <1>1, <1>5 DEF PipesIInv, FilpsOK
<1> QED
  BY <1>1, <1>5, <1>8, <1>9 DEF find_filp

\* What release does to a process.
Woken(old, new, op) ==
  /\ new.fd = old.fd /\ new.left = old.left /\ new.cum = old.cum /\ new.moved = old.moved
  /\ new.blocked = IF op = "open" /\ old.blocked = "open" THEN "no" ELSE old.blocked
  /\ ~new.revived => ~old.revived
  /\ old.blocked = op => new.revived \/ new.blocked = "no"

LEMMA ReleaseWakes ==
  ASSUME PipesTypeOK, NEW op
  PROVE  /\ release(fproc, op) \in [Procs -> FprocRecord]
         /\ \A p \in Procs : Woken(fproc[p], release(fproc, op)[p], op)
<1> SUFFICES ASSUME NEW p \in Procs
             PROVE  /\ release(fproc, op)[p] \in FprocRecord
                    /\ Woken(fproc[p], release(fproc, op)[p], op)
  BY DEF release
<1>1. fproc[p] \in FprocRecord
  BY DEF PipesTypeOK
<1>2. CASE fproc[p].blocked # op
  <2>1. release(fproc, op)[p] = fproc[p]
    BY <1>2 DEF release
  <2> QED
    BY <1>1, <1>2, <2>1 DEF Woken
<1>3. CASE fproc[p].blocked = op /\ op = "open"
  <2>1. release(fproc, op)[p] = [fproc[p] EXCEPT !.blocked = "no"]
    BY <1>3 DEF release
  <2> QED
    BY <1>1, <1>3, <2>1 DEF Woken, FprocRecord
<1>4. CASE fproc[p].blocked = op /\ op # "open"
  <2>1. release(fproc, op)[p] = [fproc[p] EXCEPT !.revived = TRUE]
    BY <1>4 DEF release
  <2> QED
    BY <1>1, <1>4, <2>1 DEF Woken, FprocRecord
<1> QED
  BY <1>2, <1>3, <1>4

-----------------------------------------------------------------------------
(***************************************************************************)
(* Reading and writing                                                     *)
(***************************************************************************)
\* What pipe_check answers: only room there is, and sleep only where somebody
\* is left to wake the caller; a write into an empty pipe wakes the readers.
LEMMA PipeCheck ==
  ASSUME PipesTypeOK, NEW f \in FilpSlots, NEW op \in {"read", "write"}, NEW n \in Nat,
         NEW check, check = pipe_check(f, op, n)
  PROVE  /\ check.r \in Int /\ check.wakes \in {"nobody", "read", "write"}
         /\ op = "read" /\ check.r > 0 => v_size > 0 /\ check.r = n
         /\ op = "write" /\ check.r > 0 =>
              /\ v_size + check.r <= PIPE_BUF /\ HasSide("R")
              /\ v_size > 0 \/ check.wakes = "read"
         /\ op = "read" /\ check.r = SUSPEND =>
              v_size = 0 /\ HasSide("W") /\ check.wakes = "write"
         /\ op = "write" /\ check.r = SUSPEND => v_size > 0 /\ HasSide("R")
<1> USE DEF SUSPEND, EAGAIN, EPIPE
<1>1. v_size \in 0 .. PIPE_BUF /\ PIPE_BUF \in Nat \ {0}
  BY PipesAssumption DEF PipesTypeOK
<1> DEFINE no == IF filps[f].nonblock THEN EAGAIN ELSE SUSPEND
<1>2. CASE op = "read"
  <2>1. CASE v_size > 0
    <3>1. check = [r |-> n, wakes |-> "nobody"]
      BY <1>1, <1>2, <2>1 DEF pipe_check
    <3> QED  BY <1>1, <1>2, <2>1, <3>1
  <2>2. CASE v_size = 0 /\ ~HasSide("W")
    <3>1. check = [r |-> 0, wakes |-> "nobody"]
      BY <1>1, <1>2, <2>2 DEF pipe_check
    <3> QED  BY <1>1, <1>2, <2>2, <3>1
  <2>3. CASE v_size = 0 /\ HasSide("W")
    <3>1. check = [r |-> no, wakes |-> "write"]
      BY <1>1, <1>2, <2>3 DEF pipe_check
    <3> QED  BY <1>1, <1>2, <2>3, <3>1
  <2> QED  BY <1>1, <2>1, <2>2, <2>3
<1>3. CASE op = "write"
  <2>1. CASE ~HasSide("R")
    <3>1. check = [r |-> EPIPE, wakes |-> "nobody"]
      BY <1>3, <2>1 DEF pipe_check
    <3> QED  BY <1>1, <1>3, <2>1, <3>1
  <2>2. CASE HasSide("R") /\ n <= PIPE_BUF - v_size
    <3>1. ~(n > PIPE_BUF - v_size)
      BY <1>1, <2>2
    <3>2. check = [r |-> n, wakes |-> IF v_size = 0 THEN "read" ELSE "nobody"]
      BY <1>3, <2>2, <3>1 DEF pipe_check
    <3> QED  BY <1>1, <1>3, <2>2, <3>2
  <2>3. CASE HasSide("R") /\ n > PIPE_BUF - v_size /\ n > PIPE_BUF /\ PIPE_BUF - v_size > 0
    <3>1. ~(n <= PIPE_BUF - v_size)
      BY <1>1, <2>3
    <3>2. check = [r |-> PIPE_BUF - v_size, wakes |-> "read"]
      BY <1>3, <2>3, <3>1 DEF pipe_check
    <3> QED  BY <1>1, <1>3, <2>3, <3>2
  <2>4. CASE HasSide("R") /\ n > PIPE_BUF - v_size /\ ~(n > PIPE_BUF /\ PIPE_BUF - v_size > 0)
    <3>1. ~(n <= PIPE_BUF - v_size)
      BY <1>1, <2>4
    <3>2. check = [r |-> no, wakes |-> "nobody"]
      BY <1>3, <2>4, <3>1 DEF pipe_check
    <3> QED  BY <1>1, <1>3, <2>4, <3>2
  <2> QED  BY <1>1, <2>1, <2>2, <2>3, <2>4
<1> QED  BY <1>2, <1>3

\* What a read or write does to those it wakes, to its caller and to the pipe.
RwStep(p, op, wakes) ==
  /\ UNCHANGED <<filps, v_ref_count, panicked>>
  /\ fproc' \in [Procs -> FprocRecord]
  /\ wakes \in {"nobody", "read", "write"}
  /\ \A q \in Procs \ {p} : Woken(fproc[q], fproc'[q], wakes)
  /\ fproc'[p].fd = fproc[p].fd
  /\ \/ fproc'[p].blocked = "no" /\ fproc'[p].moved = 0
     \/ fproc'[p].blocked = op /\ fproc'[p].cum = fproc'[p].moved
  /\ UNCHANGED unreported
  /\ v_size' \in 0 .. PIPE_BUF /\ unread' \in Nat
  /\ v_size = unread => v_size' = unread'
  /\ op = "read" /\ v_size' # v_size => v_size > 0
  /\ op = "write" /\ v_size' # v_size => v_size > 0 \/ wakes = "read"
  /\ op = "read" /\ fproc'[p].blocked = op =>
       v_size' = 0 /\ HasSide("W") /\ wakes = "write"
  /\ op = "write" /\ fproc'[p].blocked = op =>
       HasSide("R") /\ (v_size > 0 \/ wakes = "read")

\* A read or write that is made or tried again.
Trying(p, op, n) ==
  /\ p \in Procs /\ op \in {"read", "write"} /\ n \in Nat
  /\ fproc[p].fd # NoFilp /\ filps[fproc[p].fd].mode = ModeFor(op)
  /\ fproc[p].cum = fproc[p].moved

LEMMA SleepsOrAnswers ==
  ASSUME PipesTypeOK, NEW p \in Procs, NEW op \in {"read", "write"},
         NEW wakes \in {"nobody", "read", "write"},
         NEW ps \in [Procs -> FprocRecord],
         \A q \in Procs \ {p} : Woken(fproc[q], ps[q], wakes),
         ps[p].fd = fproc[p].fd
  PROVE  /\ \A left \in Nat : Sleeps(ps, p, op, left) =>
              /\ fproc' \in [Procs -> FprocRecord]
              /\ \A q \in Procs \ {p} : Woken(fproc[q], fproc'[q], wakes)
              /\ fproc'[p].fd = fproc[p].fd /\ fproc'[p].blocked = op
              /\ fproc'[p].cum = ps[p].cum /\ fproc'[p].moved = ps[p].moved
              /\ UNCHANGED unreported
         /\ \A r \in Int : Answers(ps, p, r) =>
              /\ fproc' \in [Procs -> FprocRecord]
              /\ \A q \in Procs \ {p} : Woken(fproc[q], fproc'[q], wakes)
              /\ fproc'[p].fd = fproc[p].fd /\ fproc'[p].blocked = "no"
              /\ fproc'[p].moved = 0
              /\ r <= 0 \/ r = ps[p].moved => UNCHANGED unreported
<1>1. ps[p] \in FprocRecord
  OBVIOUS
<1>2. ASSUME NEW left \in Nat, Sleeps(ps, p, op, left)
      PROVE  /\ fproc' \in [Procs -> FprocRecord]
             /\ \A q \in Procs \ {p} : Woken(fproc[q], fproc'[q], wakes)
             /\ fproc'[p].fd = fproc[p].fd /\ fproc'[p].blocked = op
             /\ fproc'[p].cum = ps[p].cum /\ fproc'[p].moved = ps[p].moved
             /\ UNCHANGED unreported
  <2> DEFINE rec == [ps[p] EXCEPT !.blocked = op, !.revived = FALSE, !.left = left]
  <2>1. fproc' = [ps EXCEPT ![p] = rec]
    BY <1>2 DEF Sleeps
  <2>2. rec \in FprocRecord /\ rec.fd = ps[p].fd /\ rec.blocked = op
        /\ rec.cum = ps[p].cum /\ rec.moved = ps[p].moved
    BY <1>1, <1>2 DEF FprocRecord
  <2> HIDE DEF rec
  <2>3. fproc'[p] = rec /\ \A q \in Procs \ {p} : fproc'[q] = ps[q]
    BY <2>1
  <2>4. fproc' \in [Procs -> FprocRecord]
    BY <2>1, <2>2
  <2>5. UNCHANGED unreported
    BY <1>2 DEF Sleeps
  <2> QED  BY <2>2, <2>3, <2>4, <2>5
<1>3. ASSUME NEW r \in Int, Answers(ps, p, r)
      PROVE  /\ fproc' \in [Procs -> FprocRecord]
             /\ \A q \in Procs \ {p} : Woken(fproc[q], fproc'[q], wakes)
             /\ fproc'[p].fd = fproc[p].fd /\ fproc'[p].blocked = "no"
             /\ fproc'[p].moved = 0
             /\ r <= 0 \/ r = ps[p].moved => UNCHANGED unreported
  <2> DEFINE rec == [ps[p] EXCEPT !.blocked = "no", !.revived = FALSE, !.left = 0, !.moved = 0]
  <2>1. fproc' = [ps EXCEPT ![p] = rec]
    BY <1>3 DEF Answers
  <2>2. rec \in FprocRecord /\ rec.fd = ps[p].fd /\ rec.blocked = "no" /\ rec.moved = 0
    BY <1>1 DEF FprocRecord
  <2> HIDE DEF rec
  <2>3. fproc'[p] = rec /\ \A q \in Procs \ {p} : fproc'[q] = ps[q]
    BY <2>1
  <2>4. fproc' \in [Procs -> FprocRecord]
    BY <2>1, <2>2
  <2>5. r <= 0 \/ r = ps[p].moved => UNCHANGED unreported
    <3>1. ps[p].moved \in Nat /\ unreported \in Int
      BY <1>1 DEF FprocRecord, PipesTypeOK
    <3>2. unreported' = IF r > 0 THEN unreported + ps[p].moved - r ELSE unreported
      BY <1>3 DEF Answers
    <3> QED  BY <3>1, <3>2
  <2> QED  BY <2>2, <2>3, <2>4, <2>5
<1> QED
  BY <1>2, <1>3

LEMMA RwIsStep ==
  ASSUME PipesIInv, NEW p \in Procs, NEW op \in {"read", "write"}, NEW n \in Nat,
         Trying(p, op, n), rw_pipe(p, op, n)
  PROVE  \E wakes \in {"nobody", "read", "write"} : RwStep(p, op, wakes)
<1> DEFINE f == fproc[p].fd
           check == pipe_check(f, op, n)
           awake == release(fproc, check.wakes)
<1>1. PipesTypeOK /\ f \in FilpSlots /\ v_ref_count > 0
  BY DescriptorIsUsed DEF Trying, PipesIInv, FifoRefs
<1>2. v_size = unread /\ v_size \in 0 .. PIPE_BUF /\ unread \in Nat /\ PIPE_BUF \in Nat
  BY <1>1, PipesAssumption DEF PipesIInv, BytesAccounted, PipesTypeOK
<1>3. /\ check.r \in Int /\ check.wakes \in {"nobody", "read", "write"}
      /\ op = "read" /\ check.r > 0 => v_size > 0 /\ check.r = n
      /\ op = "write" /\ check.r > 0 =>
           /\ v_size + check.r <= PIPE_BUF /\ HasSide("R")
           /\ v_size > 0 \/ check.wakes = "read"
      /\ op = "read" /\ check.r = SUSPEND =>
           v_size = 0 /\ HasSide("W") /\ check.wakes = "write"
      /\ op = "write" /\ check.r = SUSPEND => v_size > 0 /\ HasSide("R")
  BY <1>1, PipeCheck
<1>4. /\ awake \in [Procs -> FprocRecord]
      /\ \A q \in Procs : Woken(fproc[q], awake[q], check.wakes)
  BY <1>1, ReleaseWakes
<1>5. /\ awake[p] \in FprocRecord /\ awake[p].fd = f
      /\ awake[p].cum = awake[p].moved
  BY <1>4 DEF Trying, Woken
<1>6. /\ awake[p].cum \in Nat /\ awake[p].moved \in Nat
  BY <1>5 DEF FprocRecord
<1>7. UNCHANGED <<filps, v_ref_count, panicked>>
  BY DEF rw_pipe
<1>8. PipeRefused(p, op, n, check) \/ PipeFails(p, check) \/ PipeMoves(p, op, n, check)
  BY DEF rw_pipe
<1>12. op # "no"
  OBVIOUS
<1>9. CASE PipeRefused(p, op, n, check)
  <2> HIDE DEF check
  <2>1. check.r <= 0 /\ UNCHANGED <<v_size, unread>>
    BY <1>9 DEF PipeRefused
  <2>2. CASE check.r = SUSPEND
    <3>1. Sleeps(awake, p, op, n)
      BY <1>9, <2>2 DEF PipeRefused
    <3> HIDE DEF awake
    <3>2. /\ fproc' \in [Procs -> FprocRecord]
          /\ \A q \in Procs \ {p} : Woken(fproc[q], fproc'[q], check.wakes)
          /\ fproc'[p].fd = fproc[p].fd /\ fproc'[p].blocked = op
          /\ fproc'[p].cum = awake[p].cum /\ fproc'[p].moved = awake[p].moved
          /\ UNCHANGED unreported
      BY <1>1, <1>3, <1>4, <1>5, <3>1, SleepsOrAnswers DEF Trying
    <3> QED
      BY <1>2, <1>3, <1>5, <1>7, <2>1, <2>2, <3>2 DEF RwStep
  <2>3. CASE check.r # SUSPEND
    <3>1. Answers(awake, p, check.r)
      BY <1>9, <2>3 DEF PipeRefused
    <3> HIDE DEF awake
    <3>2. /\ fproc' \in [Procs -> FprocRecord]
          /\ \A q \in Procs \ {p} : Woken(fproc[q], fproc'[q], check.wakes)
          /\ fproc'[p].fd = fproc[p].fd /\ fproc'[p].blocked = "no"
          /\ fproc'[p].moved = 0
          /\ UNCHANGED unreported
      BY <1>1, <1>3, <1>4, <1>5, <2>1, <3>1, SleepsOrAnswers DEF Trying
    <3> QED
      BY <1>2, <1>3, <1>7, <1>12, <2>1, <3>2 DEF RwStep
  <2> QED  BY <2>2, <2>3
<1>10. CASE PipeFails(p, check)
  <2> HIDE DEF check
  <2>1. Answers(awake, p, EFAULT) /\ UNCHANGED <<v_size, unread>>
    BY <1>10 DEF PipeFails
  <2> HIDE DEF awake
  <2>2. /\ fproc' \in [Procs -> FprocRecord]
        /\ \A q \in Procs \ {p} : Woken(fproc[q], fproc'[q], check.wakes)
        /\ fproc'[p].fd = fproc[p].fd /\ fproc'[p].blocked = "no"
        /\ fproc'[p].moved = 0
        /\ UNCHANGED unreported
    BY <1>1, <1>3, <1>4, <1>5, <2>1, SleepsOrAnswers DEF Trying, EFAULT
  <2> QED
    BY <1>2, <1>3, <1>7, <1>12, <2>1, <2>2 DEF RwStep, EFAULT
<1>11. CASE PipeMoves(p, op, n, check)
  <2> DEFINE size == IF op = "read" /\ check.r > v_size THEN v_size ELSE check.r
             cum_io == awake[p].cum + size
             moved == [awake EXCEPT ![p].moved = @ + size]
             kept == [moved EXCEPT ![p].cum = cum_io]
             cleared == [moved EXCEPT ![p].cum = 0]
  <2>1. /\ check.r > 0
        /\ v_size' = IF op = "read" THEN v_size - size ELSE v_size + size
        /\ unread' = IF op = "read" THEN unread - size ELSE unread + size
        /\ IF check.r < n /\ ~filps[f].nonblock
             THEN Sleeps(kept, p, op, n - size)
             ELSE Answers(cleared, p, cum_io)
    BY <1>11 DEF PipeMoves
  <2> HIDE DEF check
  <2>2. /\ size \in Nat /\ size > 0
        /\ op = "read" => size <= v_size
        /\ op = "write" => size = check.r /\ v_size + size <= PIPE_BUF
    BY <1>2, <1>3, <2>1
  <2> HIDE DEF size, awake
  <2>3. /\ v_size' \in 0 .. PIPE_BUF /\ unread' \in Nat /\ v_size' = unread'
    BY <1>2, <2>1, <2>2
  <2>4. /\ kept \in [Procs -> FprocRecord] /\ cleared \in [Procs -> FprocRecord]
        /\ \A q \in Procs \ {p} : kept[q] = awake[q] /\ cleared[q] = awake[q]
        /\ kept[p].fd = awake[p].fd /\ cleared[p].fd = awake[p].fd
        /\ kept[p].cum = cum_io /\ kept[p].moved = awake[p].moved + size
        /\ cleared[p].moved = awake[p].moved + size
    <3> DEFINE one == [awake[p] EXCEPT !.moved = @ + size]
               two == [one EXCEPT !.cum = cum_io]
               three == [one EXCEPT !.cum = 0]
    <3>1. moved = [awake EXCEPT ![p] = one] /\ moved[p] = one
      BY <1>4
    <3>2. one \in FprocRecord /\ one.fd = awake[p].fd /\ one.moved = awake[p].moved + size
      BY <1>5, <1>6, <2>2 DEF FprocRecord
    <3>3. kept = [awake EXCEPT ![p] = two] /\ cleared = [awake EXCEPT ![p] = three]
      BY <1>4, <3>1
    <3> HIDE DEF one, moved
    <3>4. cum_io \in Nat
      BY <1>6, <2>2
    <3>5. /\ two \in FprocRecord /\ two.fd = one.fd /\ two.cum = cum_io /\ two.moved = one.moved
          /\ three \in FprocRecord /\ three.fd = one.fd /\ three.moved = one.moved
      BY <3>2, <3>4 DEF FprocRecord
    <3> HIDE DEF two, three, kept, cleared
    <3> QED  BY <1>4, <3>2, <3>3, <3>5
  <2> HIDE DEF moved, kept, cleared
  <2>5. CASE check.r < n /\ ~filps[f].nonblock
    <3>1. op = "write" /\ n - size \in Nat
      BY <1>3, <2>1, <2>2, <2>5
    <3>2. Sleeps(kept, p, op, n - size)
      BY <2>1, <2>5
    <3>3. /\ fproc' \in [Procs -> FprocRecord]
          /\ \A q \in Procs \ {p} : Woken(fproc[q], fproc'[q], check.wakes)
          /\ fproc'[p].fd = fproc[p].fd /\ fproc'[p].blocked = op
          /\ fproc'[p].cum = kept[p].cum /\ fproc'[p].moved = kept[p].moved
          /\ UNCHANGED unreported
      BY <1>1, <1>3, <1>4, <1>5, <2>4, <3>1, <3>2, SleepsOrAnswers DEF Trying
    <3>4. fproc'[p].cum = fproc'[p].moved
      BY <1>5, <2>4, <3>3
    <3> QED
      BY <1>2, <1>3, <1>7, <2>1, <2>3, <3>1, <3>3, <3>4 DEF RwStep
  <2>6. CASE ~(check.r < n /\ ~filps[f].nonblock)
    <3>1. Answers(cleared, p, cum_io) /\ cum_io \in Int
      BY <1>6, <2>1, <2>2, <2>6
    <3>2. /\ fproc' \in [Procs -> FprocRecord]
          /\ \A q \in Procs \ {p} : Woken(fproc[q], fproc'[q], check.wakes)
          /\ fproc'[p].fd = fproc[p].fd /\ fproc'[p].blocked = "no"
          /\ fproc'[p].moved = 0
          /\ cum_io = cleared[p].moved => UNCHANGED unreported
      BY <1>1, <1>3, <1>4, <1>5, <2>4, <3>1, SleepsOrAnswers DEF Trying
    <3>3. UNCHANGED unreported
      BY <1>5, <2>4, <3>2
    <3> QED
      BY <1>2, <1>3, <1>7, <1>12, <2>1, <2>3, <3>2, <3>3 DEF RwStep
  <2> QED  BY <2>5, <2>6
<1> QED
  BY <1>8, <1>9, <1>10, <1>11

LEMMA RwPreserves ==
  ASSUME PipesIInv, NEW p \in Procs, NEW op \in {"read", "write"}, NEW n \in Nat,
         Trying(p, op, n), NEW wakes \in {"nobody", "read", "write"}, RwStep(p, op, wakes)
  PROVE  PipesIInv'
<1>1. /\ UNCHANGED <<filps, v_ref_count, panicked>>
      /\ fproc' \in [Procs -> FprocRecord]
      /\ \A q \in Procs \ {p} : Woken(fproc[q], fproc'[q], wakes)
      /\ fproc'[p].fd = fproc[p].fd
      /\ \/ fproc'[p].blocked = "no" /\ fproc'[p].moved = 0
         \/ fproc'[p].blocked = op /\ fproc'[p].cum = fproc'[p].moved
  BY DEF RwStep
<1>2. \A q \in Procs : fproc'[q].fd = fproc[q].fd
  BY <1>1 DEF Woken
<1>3. \A mode : find_filp(mode)' = find_filp(mode) /\ HasSide(mode)' = HasSide(mode)
  BY <1>1 DEF find_filp, HasSide
<1>4. FifoRefs'
  <2>1. PipesTypeOK'
    BY <1>1 DEF RwStep, PipesTypeOK, PipesIInv, FifoRefs
  <2>2. (v_ref_count = Cardinality({f \in FilpSlots : filps[f].count > 0}))'
    BY <1>1 DEF PipesIInv, FifoRefs
  <2>3. \A f \in FilpSlots : {q \in Procs : fproc'[q].fd = f} = {q \in Procs : fproc[q].fd = f}
    BY <1>2
  <2>4. (\A f \in FilpSlots : filps[f].count = Cardinality({q \in Procs : fproc[q].fd = f}))'
    BY <1>1, <2>3 DEF PipesIInv, FifoRefs
  <2>5. (\A mode \in Modes : \A f, g \in find_filp(mode) : f = g)'
    BY <1>3 DEF PipesIInv, FifoRefs
  <2> QED  BY <2>1, <2>2, <2>4, <2>5 DEF FifoRefs
<1>5. BytesAccounted'
  <2>1. unreported' = 0 /\ (v_ref_count > 0 => v_size = unread)'
    BY <1>1 DEF RwStep, PipesIInv, BytesAccounted
  <2>2. ASSUME NEW q \in Procs, fproc'[q].blocked \in {"read", "write"}
        PROVE  fproc'[q].cum = fproc'[q].moved
    BY <1>1, <2>2 DEF Woken, PipesIInv, BytesAccounted
  <2> QED  BY <2>1, <2>2 DEF BytesAccounted
<1>6. CallsOK'
  <2> SUFFICES ASSUME NEW q \in Procs
               PROVE  /\ fproc'[q].blocked \in {"open", "read", "write"} => fproc'[q].fd # NoFilp
                      /\ fproc'[q].blocked \in {"read", "write"} =>
                           filps'[fproc'[q].fd].mode = ModeFor(fproc'[q].blocked)
                      /\ fproc'[q].blocked \notin {"read", "write"} => fproc'[q].moved = 0
    BY DEF CallsOK
  <2>1. CASE q = p
    BY <1>1, <2>1 DEF Trying
  <2>2. CASE q # p
    BY <1>1, <2>2 DEF Woken, PipesIInv, CallsOK
  <2> QED  BY <2>1, <2>2
<1>7. FilpsOK'
  BY <1>1 DEF PipesIInv, FilpsOK
<1>8. NobodySleepsInVain'
  <2>1. \A q \in Procs \ {p} : \A o \in {"open", "read", "write"} :
          Asleep(q, o)' => Asleep(q, o) /\ o # wakes
    BY <1>1 DEF Asleep, Woken
  <2>2. op = "read" => ~Asleep(p, "write")' /\ ~Asleep(p, "open")'
    BY <1>1 DEF Asleep
  <2>3. op = "write" => ~Asleep(p, "read")' /\ ~Asleep(p, "open")'
    BY <1>1 DEF Asleep
  <2>4. /\ op = "read" /\ v_size' # v_size => v_size > 0
        /\ op = "write" /\ v_size' # v_size => v_size > 0 \/ wakes = "read"
        /\ op = "read" /\ Asleep(p, "read")' => v_size' = 0 /\ HasSide("W") /\ wakes = "write"
        /\ op = "write" /\ Asleep(p, "write")' => HasSide("R") /\ (v_size > 0 \/ wakes = "read")
    BY DEF RwStep, Asleep
  <2>5. v_size \in Nat
    BY PipesAssumption DEF PipesIInv, FifoRefs, PipesTypeOK
  <2>6. /\ \A q \in Procs :
             /\ Asleep(q, "open") => ~HasSide(OtherSide(filps[fproc[q].fd].mode))
             /\ Asleep(q, "read") => v_size = 0 /\ HasSide("W")
             /\ Asleep(q, "write") => HasSide("R")
        /\ ~ \E q, r \in Procs : Asleep(q, "read") /\ Asleep(r, "write")
    BY DEF PipesIInv, NobodySleepsInVain
  <2>7. ASSUME NEW q \in Procs, Asleep(q, "open")'
        PROVE  ~HasSide(OtherSide(filps[fproc[q].fd].mode))'
    <3>1. q # p
      BY <2>2, <2>3, <2>7
    <3>2. Asleep(q, "open")
      BY <2>1, <2>7, <3>1
    <3> QED  BY <1>1, <1>2, <1>3, <2>6, <3>2
  <2>8. ASSUME NEW q \in Procs, Asleep(q, "read")'
        PROVE  v_size' = 0 /\ HasSide("W")'
    <3>1. CASE q = p
      BY <1>3, <2>3, <2>4, <2>8, <3>1
    <3>2. CASE q # p
      <4>1. Asleep(q, "read") /\ wakes # "read"
        BY <2>1, <2>8, <3>2
      <4> QED  BY <1>3, <2>4, <2>5, <2>6, <4>1
    <3> QED  BY <3>1, <3>2
  <2>9. ASSUME NEW q \in Procs, Asleep(q, "write")'
        PROVE  HasSide("R")'
    <3>1. CASE q = p
      BY <1>3, <2>2, <2>4, <2>9, <3>1
    <3>2. CASE q # p
      BY <1>3, <2>1, <2>6, <2>9, <3>2
    <3> QED  BY <3>1, <3>2
  <2>10. ASSUME NEW q \in Procs, NEW r \in Procs, Asleep(q, "read")', Asleep(r, "write")'
         PROVE  FALSE
    <3>1. CASE q = p
      <4>1. op = "read" /\ wakes = "write"
        BY <2>3, <2>4, <2>10, <3>1
      <4>2. r # p
        BY <2>2, <2>10, <4>1
      <4> QED  BY <2>1, <2>10, <4>1, <4>2
    <3>2. CASE r = p
      <4>1. op = "write" /\ q # p /\ (v_size > 0 \/ wakes = "read")
        BY <2>2, <2>3, <2>4, <2>10, <3>2
      <4>2. Asleep(q, "read") /\ wakes # "read"
        BY <2>1, <2>10, <4>1
      <4> QED  BY <2>6, <4>1, <4>2
    <3>3. CASE q # p /\ r # p
      BY <2>1, <2>6, <2>10, <3>3
    <3> QED  BY <3>1, <3>2, <3>3
  <2>11. (\A q \in Procs :
           /\ Asleep(q, "open") => ~HasSide(OtherSide(filps[fproc[q].fd].mode))
           /\ Asleep(q, "read") => v_size = 0 /\ HasSide("W")
           /\ Asleep(q, "write") => HasSide("R"))'
    BY <2>7, <2>8, <2>9
  <2> QED  BY <2>10, <2>11 DEF NobodySleepsInVain
<1> QED
  BY <1>4, <1>5, <1>6, <1>7, <1>8 DEF PipesIInv

-----------------------------------------------------------------------------
(***************************************************************************)
(* Opening and closing                                                     *)
(***************************************************************************)
\* p gives its descriptor of f up, and those of the other side are woken.
Leaves(p, f) ==
  /\ close_filp(f)
  /\ fproc' \in [Procs -> FprocRecord]
  /\ \A q \in Procs \ {p} :
       Woken(fproc[q], fproc'[q], IF filps[f].mode = "R" THEN "write" ELSE "read")
  /\ fproc'[p].fd = NoFilp /\ fproc'[p].blocked = "no" /\ fproc'[p].moved = 0
  /\ UNCHANGED <<v_size, unread, unreported, panicked>>

LEMMA LeavesPreserves ==
  ASSUME PipesIInv, NEW p \in Procs, NEW f, f = fproc[p].fd, f # NoFilp, Leaves(p, f)
  PROVE  PipesIInv'
<1> DEFINE op == IF filps[f].mode = "R" THEN "write" ELSE "read"
           last == filps[f].count = 1
           users(g) == {q \in Procs : fproc[q].fd = g}
           users1(g) == {q \in Procs : fproc'[q].fd = g}
           used == {g \in FilpSlots : filps[g].count > 0}
           used1 == {g \in FilpSlots : filps'[g].count > 0}
<1>1. /\ f \in FilpSlots /\ filps[f].count > 0 /\ filps[f].mode \in Modes /\ v_ref_count > 0
      /\ filps \in [FilpSlots -> FilpRecord] /\ filps[f].count \in Nat /\ v_ref_count \in Nat
  BY DescriptorIsUsed DEF PipesIInv, FifoRefs, PipesTypeOK, FilpRecord
<1>2. /\ fproc' \in [Procs -> FprocRecord]
      /\ \A q \in Procs \ {p} : Woken(fproc[q], fproc'[q], op)
      /\ fproc'[p].fd = NoFilp /\ fproc'[p].blocked = "no" /\ fproc'[p].moved = 0
      /\ UNCHANGED <<v_size, unread, unreported, panicked>>
  BY DEF Leaves
<1>3. /\ \A g \in FilpSlots \ {f} : filps'[g] = filps[g]
      /\ last => filps'[f] = FreeFilp /\ v_ref_count' = v_ref_count - 1
      /\ ~last => filps'[f] = [filps[f] EXCEPT !.count = @ - 1] /\ v_ref_count' = v_ref_count
      /\ filps' = [filps EXCEPT ![f] = filps'[f]]
  <2> DEFINE new == IF last THEN FreeFilp ELSE [filps[f] EXCEPT !.count = @ - 1]
  <2>1. filps' = [filps EXCEPT ![f] = new]
    BY <1>1 DEF Leaves, close_filp
  <2>2. v_ref_count' = IF last THEN v_ref_count - 1 ELSE v_ref_count
    BY DEF Leaves, close_filp
  <2> HIDE DEF new
  <2>3. filps'[f] = new /\ \A g \in FilpSlots \ {f} : filps'[g] = filps[g]
    BY <1>1, <2>1
  <2>4. filps' = [filps EXCEPT ![f] = filps'[f]]
    BY <2>1, <2>3
  <2> QED  BY <2>2, <2>3, <2>4 DEF new
<1>4. /\ filps'[f] \in FilpRecord /\ filps'[f].count = filps[f].count - 1
      /\ ~last => filps'[f].mode = filps[f].mode /\ filps'[f].count > 0
      /\ last => filps'[f].mode = "closed" /\ filps'[f].count = 0
  <2>1. CASE last
    <3>1. filps'[f] = FreeFilp
      BY <1>3, <2>1
    <3>2. FreeFilp \in FilpRecord /\ FreeFilp.count = 0 /\ FreeFilp.mode = "closed"
      BY DEF FreeFilp, FilpRecord
    <3> QED  BY <2>1, <3>1, <3>2
  <2>2. CASE ~last
    <3>1. filps[f] \in FilpRecord /\ filps[f].count - 1 \in Nat /\ filps[f].count - 1 > 0
      BY <1>1, <2>2
    <3> QED  BY <1>3, <2>2, <3>1 DEF FilpRecord
  <2> QED  BY <2>1, <2>2
<1>5. filps' \in [FilpSlots -> FilpRecord]
  BY <1>1, <1>3, <1>4
<1>6. \A q \in Procs \ {p} : fproc'[q].fd = fproc[q].fd
  BY <1>2 DEF Woken
<1>7. \A g \in FilpSlots : filps'[g].count = Cardinality(users1(g))
  <2> SUFFICES ASSUME NEW g \in FilpSlots PROVE filps'[g].count = Cardinality(users1(g))
    OBVIOUS
  <2>1. filps[g].count = Cardinality(users(g))
    BY DEF PipesIInv, FifoRefs
  <2>2. CASE g = f
    <3>1. /\ users(g) \in SUBSET Procs /\ users1(g) \in SUBSET Procs
          /\ p \in users(g) /\ p \notin users1(g)
          /\ \A x \in Procs \ {p} : x \in users(g) <=> x \in users1(g)
      BY <1>1, <1>2, <1>6, <2>2
    <3> HIDE DEF users, users1
    <3>2. /\ Cardinality(users(g)) \in Nat /\ Cardinality(users1(g)) \in Nat
          /\ Cardinality(users1(g)) = Cardinality(users(g)) + 0 - 1
      BY <3>1, CardMember, PipesAssumption
    <3> QED  BY <1>4, <2>1, <2>2, <3>2
  <2>3. CASE g # f
    <3>1. users1(g) = users(g)
      BY <1>2, <1>6, <2>3, PipesAssumption
    <3> QED  BY <1>3, <2>1, <2>3, <3>1
  <2> QED  BY <2>2, <2>3
<1>8. v_ref_count' = Cardinality(used1) /\ v_ref_count' \in Nat
  <2>1. v_ref_count = Cardinality(used)
    BY DEF PipesIInv, FifoRefs
  <2>2. /\ used \in SUBSET FilpSlots /\ used1 \in SUBSET FilpSlots /\ f \in used
        /\ (f \in used1 <=> ~last) /\ \A x \in FilpSlots \ {f} : x \in used <=> x \in used1
    <3>1. f \in used /\ \A x \in FilpSlots \ {f} : x \in used <=> x \in used1
      BY <1>1, <1>3
    <3>2. f \in used1 <=> ~last
      <4>1. CASE last  BY <1>4, <4>1
      <4>2. CASE ~last  BY <1>1, <1>4, <4>2
      <4> QED  BY <4>1, <4>2
    <3> QED  BY <3>1, <3>2
  <2> HIDE DEF used, used1
  <2>3. /\ Cardinality(used) \in Nat /\ Cardinality(used1) \in Nat
        /\ Cardinality(used1) = Cardinality(used) + (IF f \in used1 THEN 1 ELSE 0)
                                                  - (IF f \in used THEN 1 ELSE 0)
    BY <1>1, <2>2, CardMember, PipesAssumption
  <2>4. CASE last
    BY <1>3, <2>1, <2>2, <2>3, <2>4
  <2>5. CASE ~last
    BY <1>3, <2>1, <2>2, <2>3, <2>5
  <2> QED  BY <2>4, <2>5
<1>9. \A q \in Procs : fproc'[q].fd # NoFilp =>
        q # p /\ fproc'[q].fd = fproc[q].fd /\ fproc[q].fd \in FilpSlots
        /\ filps'[fproc[q].fd].mode = filps[fproc[q].fd].mode
  <2> SUFFICES ASSUME NEW q \in Procs, fproc'[q].fd # NoFilp
               PROVE  q # p /\ fproc'[q].fd = fproc[q].fd /\ fproc[q].fd \in FilpSlots
                      /\ filps'[fproc[q].fd].mode = filps[fproc[q].fd].mode
    OBVIOUS
  <2>1. q # p /\ fproc'[q].fd = fproc[q].fd
    BY <1>2, <1>6
  <2>2. fproc[q].fd \in FilpSlots
    BY <2>1, DescriptorIsUsed
  <2>3. CASE fproc[q].fd = f
    <3>1. q \in users1(f) /\ users1(f) \in SUBSET Procs
      BY <2>1, <2>3
    <3> HIDE DEF users1
    <3>2. Cardinality(users1(f)) > 0
      BY <3>1, CardPositive, PipesAssumption
    <3>3. filps'[f].count > 0
      BY <1>1, <1>7, <3>2
    <3> QED  BY <1>4, <2>1, <2>2, <2>3, <3>3
  <2>4. CASE fproc[q].fd # f
    BY <1>3, <2>1, <2>2, <2>4
  <2> QED  BY <2>3, <2>4
<1>10. \A mode \in Modes :
         /\ \A g : g \in find_filp(mode)' => g \in find_filp(mode)
         /\ filps[f].mode # mode => find_filp(mode)' = find_filp(mode)
  BY <1>1, <1>3, <1>4 DEF find_filp, Modes
<1>11. FifoRefs'
  <2>1. PipesTypeOK'
    BY <1>2, <1>5, <1>8 DEF PipesTypeOK, PipesIInv, FifoRefs
  <2>2. (\A mode \in Modes : \A g, h \in find_filp(mode) : g = h)'
    BY <1>10 DEF PipesIInv, FifoRefs
  <2> QED  BY <1>7, <1>8, <2>1, <2>2 DEF FifoRefs
<1>12. BytesAccounted'
  <2>1. \A q \in Procs : fproc'[q].blocked \in {"read", "write"} => fproc'[q].cum = fproc'[q].moved
    BY <1>2 DEF Woken, PipesIInv, BytesAccounted
  <2>2. v_ref_count' > 0 => v_size' = unread'
    BY <1>1, <1>2 DEF PipesIInv, BytesAccounted
  <2> QED  BY <1>2, <2>1, <2>2 DEF BytesAccounted, PipesIInv
<1>13. CallsOK'
  <2> SUFFICES ASSUME NEW q \in Procs
               PROVE  /\ fproc'[q].blocked \in {"open", "read", "write"} => fproc'[q].fd # NoFilp
                      /\ fproc'[q].blocked \in {"read", "write"} =>
                           filps'[fproc'[q].fd].mode = ModeFor(fproc'[q].blocked)
                      /\ fproc'[q].blocked \notin {"read", "write"} => fproc'[q].moved = 0
    BY DEF CallsOK
  <2>1. CASE q = p
    BY <1>2, <2>1
  <2>2. CASE q # p
    <3>1. fproc'[q].blocked = fproc[q].blocked /\ fproc'[q].moved = fproc[q].moved
          /\ fproc'[q].fd = fproc[q].fd
      BY <1>2, <2>2 DEF Woken
    <3> QED  BY <1>9, <3>1 DEF PipesIInv, CallsOK
  <2> QED  BY <2>1, <2>2
<1>14. FilpsOK'
  BY <1>3, <1>4, <1>1 DEF PipesIInv, FilpsOK, Modes
<1>15. NobodySleepsInVain'
  <2>1. \A q \in Procs : \A o \in {"open", "read", "write"} :
          Asleep(q, o)' => q # p /\ Asleep(q, o) /\ o # op
    BY <1>2 DEF Asleep, Woken
  <2>2. /\ \A q \in Procs :
             /\ Asleep(q, "open") => ~HasSide(OtherSide(filps[fproc[q].fd].mode))
             /\ Asleep(q, "read") => v_size = 0 /\ HasSide("W")
             /\ Asleep(q, "write") => HasSide("R")
        /\ ~ \E q, r \in Procs : Asleep(q, "read") /\ Asleep(r, "write")
    BY DEF PipesIInv, NobodySleepsInVain
  <2>3. ASSUME NEW q \in Procs, Asleep(q, "open")'
        PROVE  ~HasSide(OtherSide(filps[fproc[q].fd].mode))'
    <3>1. Asleep(q, "open") /\ fproc'[q].blocked = "open"
      BY <2>1, <2>3 DEF Asleep
    <3>2. fproc'[q].fd # NoFilp
      BY <1>13, <3>1 DEF CallsOK
    <3>3. filps'[fproc'[q].fd].mode = filps[fproc[q].fd].mode
      BY <1>9, <3>2
    <3>4. OtherSide(filps[fproc[q].fd].mode) \in Modes
      BY DEF OtherSide, Modes
    <3> QED  BY <1>10, <2>2, <3>1, <3>3, <3>4 DEF HasSide
  <2>4. ASSUME NEW q \in Procs, Asleep(q, "read")'
        PROVE  v_size' = 0 /\ HasSide("W")'
    <3>1. Asleep(q, "read") /\ filps[f].mode # "W"
      BY <1>1, <2>1, <2>4 DEF Modes
    <3> QED  BY <1>2, <1>10, <2>2, <3>1 DEF HasSide, Modes
  <2>5. ASSUME NEW q \in Procs, Asleep(q, "write")'
        PROVE  HasSide("R")'
    <3>1. Asleep(q, "write") /\ filps[f].mode # "R"
      BY <2>1, <2>5
    <3> QED  BY <1>10, <2>2, <3>1 DEF HasSide, Modes
  <2>6. (~ \E q, r \in Procs : Asleep(q, "read") /\ Asleep(r, "write"))'
    BY <2>1, <2>2
  <2>7. (\A q \in Procs :
           /\ Asleep(q, "open") => ~HasSide(OtherSide(filps[fproc[q].fd].mode))
           /\ Asleep(q, "read") => v_size = 0 /\ HasSide("W")
           /\ Asleep(q, "write") => HasSide("R"))'
    BY <2>3, <2>4, <2>5
  <2> QED  BY <2>6, <2>7 DEF NobodySleepsInVain
<1> QED
  BY <1>11, <1>12, <1>13, <1>14, <1>15 DEF PipesIInv

\* p gets a descriptor of f, its own or the one others of its side use, and
\* the openers of the other side are woken if there are any.
Joins(p, f, mode) ==
  /\ fproc[p].fd = NoFilp
  /\ fproc' \in [Procs -> FprocRecord]
  /\ \A q \in Procs \ {p} :
       Woken(fproc[q], fproc'[q], IF HasSide(OtherSide(mode)) THEN "open" ELSE "nobody")
  /\ fproc'[p].fd = f /\ fproc'[p].moved = 0 /\ fproc'[p].blocked \in {"no", "open"}
  /\ fproc'[p].blocked = "open" => ~HasSide(OtherSide(mode))
  /\ filps' = [filps EXCEPT ![f] = filps'[f]]
  /\ filps'[f] \in FilpRecord /\ filps'[f].count = filps[f].count + 1 /\ filps'[f].mode = mode
  /\ \/ filps[f].count > 0 /\ filps[f].mode = mode /\ v_ref_count' = v_ref_count
     \/ filps[f].count = 0 /\ find_filp(mode) = {} /\ v_ref_count' = v_ref_count + 1
  /\ v_size' = IF v_ref_count = 0 THEN 0 ELSE v_size
  /\ unread' = IF v_ref_count = 0 THEN 0 ELSE unread
  /\ UNCHANGED <<unreported, panicked>>

LEMMA JoinsPreserves ==
  ASSUME PipesIInv, NEW p \in Procs, NEW f \in FilpSlots, NEW mode \in Modes, Joins(p, f, mode)
  PROVE  PipesIInv'
<1> DEFINE op == IF HasSide(OtherSide(mode)) THEN "open" ELSE "nobody"
           fresh == filps[f].count = 0
           users(g) == {q \in Procs : fproc[q].fd = g}
           users1(g) == {q \in Procs : fproc'[q].fd = g}
           used == {g \in FilpSlots : filps[g].count > 0}
           used1 == {g \in FilpSlots : filps'[g].count > 0}
<1>1. /\ filps \in [FilpSlots -> FilpRecord] /\ filps[f].count \in Nat /\ v_ref_count \in Nat
      /\ v_size \in 0 .. PIPE_BUF /\ PIPE_BUF \in Nat \ {0} /\ unread \in Nat
      /\ panicked \in BOOLEAN
  BY PipesAssumption DEF PipesIInv, FifoRefs, PipesTypeOK, FilpRecord
<1>2. /\ fproc[p].fd = NoFilp
      /\ fproc' \in [Procs -> FprocRecord]
      /\ \A q \in Procs \ {p} : Woken(fproc[q], fproc'[q], op)
      /\ fproc'[p].fd = f /\ fproc'[p].moved = 0 /\ fproc'[p].blocked \in {"no", "open"}
      /\ fproc'[p].blocked = "open" => ~HasSide(OtherSide(mode))
  BY DEF Joins
<1>3. /\ filps' = [filps EXCEPT ![f] = filps'[f]]
      /\ filps'[f] \in FilpRecord /\ filps'[f].count = filps[f].count + 1 /\ filps'[f].mode = mode
      /\ ~fresh => filps[f].mode = mode /\ v_ref_count' = v_ref_count
      /\ fresh => find_filp(mode) = {} /\ v_ref_count' = v_ref_count + 1
  BY <1>1 DEF Joins
<1>4. /\ v_size' \in 0 .. PIPE_BUF /\ unread' \in Nat /\ v_ref_count' \in Nat
      /\ v_size = 0 => v_size' = 0
      /\ v_ref_count = 0 \/ v_size = unread => v_size' = unread'
      /\ unreported' = unreported /\ panicked' \in BOOLEAN
  BY <1>1, <1>3 DEF Joins
<1>5. filps' \in [FilpSlots -> FilpRecord] /\ \A g \in FilpSlots \ {f} : filps'[g] = filps[g]
  BY <1>1, <1>3
<1>6. \A q \in Procs \ {p} : fproc'[q].fd = fproc[q].fd
  BY <1>2 DEF Woken
<1>7. \A g \in FilpSlots : filps'[g].count = Cardinality(users1(g))
  <2> SUFFICES ASSUME NEW g \in FilpSlots PROVE filps'[g].count = Cardinality(users1(g))
    OBVIOUS
  <2>1. filps[g].count = Cardinality(users(g))
    BY DEF PipesIInv, FifoRefs
  <2>2. CASE g = f
    <3>1. /\ users(g) \in SUBSET Procs /\ users1(g) \in SUBSET Procs
          /\ p \notin users(g) /\ p \in users1(g)
          /\ \A x \in Procs \ {p} : x \in users(g) <=> x \in users1(g)
      BY <1>2, <1>6, <2>2, PipesAssumption
    <3> HIDE DEF users, users1
    <3>2. /\ Cardinality(users(g)) \in Nat /\ Cardinality(users1(g)) \in Nat
          /\ Cardinality(users1(g)) = Cardinality(users(g)) + 1 - 0
      BY <3>1, CardMember, PipesAssumption
    <3> QED  BY <1>3, <2>1, <2>2, <3>2
  <2>3. CASE g # f
    <3>1. users1(g) = users(g)
      BY <1>2, <1>6, <2>3, PipesAssumption
    <3> QED  BY <1>5, <2>1, <2>3, <3>1
  <2> QED  BY <2>2, <2>3
<1>8. v_ref_count' = Cardinality(used1)
  <2>1. v_ref_count = Cardinality(used)
    BY DEF PipesIInv, FifoRefs
  <2>2. /\ used \in SUBSET FilpSlots /\ used1 \in SUBSET FilpSlots /\ f \in used1
        /\ (f \in used <=> ~fresh) /\ \A x \in FilpSlots \ {f} : x \in used <=> x \in used1
    BY <1>1, <1>3, <1>5
  <2> HIDE DEF used, used1
  <2>3. /\ Cardinality(used) \in Nat /\ Cardinality(used1) \in Nat
        /\ Cardinality(used1) = Cardinality(used) + (IF f \in used1 THEN 1 ELSE 0)
                                                  - (IF f \in used THEN 1 ELSE 0)
    BY <2>2, CardMember, PipesAssumption
  <2>4. CASE fresh
    BY <1>3, <2>1, <2>2, <2>3, <2>4
  <2>5. CASE ~fresh
    BY <1>3, <2>1, <2>2, <2>3, <2>5
  <2> QED  BY <2>4, <2>5
<1>9. \A q \in Procs \ {p} : fproc[q].fd # NoFilp =>
        fproc[q].fd \in FilpSlots /\ filps'[fproc[q].fd].mode = filps[fproc[q].fd].mode
  <2> SUFFICES ASSUME NEW q \in Procs \ {p}, fproc[q].fd # NoFilp
               PROVE  fproc[q].fd \in FilpSlots
                      /\ filps'[fproc[q].fd].mode = filps[fproc[q].fd].mode
    OBVIOUS
  <2>1. fproc[q].fd \in FilpSlots /\ filps[fproc[q].fd].count > 0
    BY DescriptorIsUsed
  <2>2. CASE fproc[q].fd = f
    BY <1>1, <1>3, <2>1, <2>2
  <2>3. CASE fproc[q].fd # f
    BY <1>5, <2>1, <2>3
  <2> QED  BY <2>2, <2>3
<1>10. \A role \in Modes : role # mode => find_filp(role)' = find_filp(role)
  <2> SUFFICES ASSUME NEW role \in Modes, role # mode, NEW g \in FilpSlots
               PROVE  (filps'[g].count > 0 /\ filps'[g].mode = role)
                        <=> (filps[g].count > 0 /\ filps[g].mode = role)
    BY DEF find_filp
  <2>1. CASE g = f
    BY <1>1, <1>3, <2>1
  <2>2. CASE g # f
    BY <1>5, <2>2
  <2> QED  BY <2>1, <2>2
<1>11. \A g : g \in find_filp(mode)' <=> g = f \/ g \in find_filp(mode)
  BY <1>1, <1>3, <1>5 DEF find_filp
<1>12. f \in find_filp(mode) \/ find_filp(mode) = {}
  BY <1>1, <1>3 DEF find_filp
<1>13. FifoRefs'
  <2>1. PipesTypeOK'
    BY <1>2, <1>4, <1>5 DEF PipesTypeOK, PipesIInv, FifoRefs
  <2>2. ASSUME NEW role \in Modes, NEW g \in find_filp(role)', NEW h \in find_filp(role)'
        PROVE  g = h
    <3>1. \A a, b \in find_filp(role) : a = b
      BY DEF PipesIInv, FifoRefs
    <3>2. CASE role = mode
      BY <1>11, <1>12, <2>2, <3>1, <3>2
    <3>3. CASE role # mode
      BY <1>10, <2>2, <3>1, <3>3
    <3> QED  BY <3>2, <3>3
  <2> QED  BY <1>7, <1>8, <2>1, <2>2 DEF FifoRefs
<1>14. BytesAccounted'
  <2>1. \A q \in Procs : fproc'[q].blocked \in {"read", "write"} => fproc'[q].cum = fproc'[q].moved
    BY <1>2 DEF Woken, PipesIInv, BytesAccounted
  <2>2. v_size' = unread'
    BY <1>1, <1>4 DEF PipesIInv, BytesAccounted
  <2> QED  BY <1>4, <2>1, <2>2 DEF BytesAccounted, PipesIInv
<1>15. CallsOK'
  <2> SUFFICES ASSUME NEW q \in Procs
               PROVE  /\ fproc'[q].blocked \in {"open", "read", "write"} => fproc'[q].fd # NoFilp
                      /\ fproc'[q].blocked \in {"read", "write"} =>
                           filps'[fproc'[q].fd].mode = ModeFor(fproc'[q].blocked)
                      /\ fproc'[q].blocked \notin {"read", "write"} => fproc'[q].moved = 0
    BY DEF CallsOK
  <2>1. CASE q = p
    BY <1>2, <2>1, PipesAssumption
  <2>2. CASE q # p
    <3>1. /\ fproc'[q].fd = fproc[q].fd /\ fproc'[q].moved = fproc[q].moved
          /\ \/ fproc'[q].blocked = fproc[q].blocked
             \/ fproc[q].blocked = "open" /\ fproc'[q].blocked = "no"
      BY <1>2, <2>2 DEF Woken
    <3>2. /\ fproc[q].blocked \in {"open", "read", "write"} => fproc[q].fd # NoFilp
          /\ fproc[q].blocked \in {"read", "write"} =>
               filps[fproc[q].fd].mode = ModeFor(fproc[q].blocked)
          /\ fproc[q].blocked \notin {"read", "write"} => fproc[q].moved = 0
      BY DEF PipesIInv, CallsOK
    <3> QED  BY <1>9, <2>2, <3>1, <3>2
  <2> QED  BY <2>1, <2>2
<1>16. FilpsOK'
  <2> SUFFICES ASSUME NEW g \in FilpSlots PROVE filps'[g].count > 0 <=> filps'[g].mode \in Modes
    BY DEF FilpsOK
  <2>1. CASE g = f
    BY <1>1, <1>3, <2>1
  <2>2. CASE g # f
    BY <1>5, <2>2 DEF PipesIInv, FilpsOK
  <2> QED  BY <2>1, <2>2
<1>17. NobodySleepsInVain'
  <2>1. \A q \in Procs \ {p} : \A o \in {"open", "read", "write"} :
          Asleep(q, o)' => Asleep(q, o) /\ o # op
    BY <1>2 DEF Asleep, Woken
  <2>2. ~Asleep(p, "read")' /\ ~Asleep(p, "write")'
    BY <1>2 DEF Asleep
  <2>3. /\ \A q \in Procs :
             /\ Asleep(q, "open") => ~HasSide(OtherSide(filps[fproc[q].fd].mode))
             /\ Asleep(q, "read") => v_size = 0 /\ HasSide("W")
             /\ Asleep(q, "write") => HasSide("R")
        /\ ~ \E q, r \in Procs : Asleep(q, "read") /\ Asleep(r, "write")
    BY DEF PipesIInv, NobodySleepsInVain
  <2>4. \A role \in Modes : HasSide(role) => HasSide(role)'
    BY <1>10, <1>11 DEF HasSide
  <2>5. OtherSide(mode) \in Modes /\ OtherSide(mode) # mode /\ OtherSide(OtherSide(mode)) = mode
    BY DEF OtherSide, Modes
  <2>6. ASSUME NEW q \in Procs, Asleep(q, "open")'
        PROVE  ~HasSide(OtherSide(filps[fproc[q].fd].mode))'
    <3>1. CASE q = p
      <4>1. ~HasSide(OtherSide(mode))
        BY <1>2, <2>6, <3>1 DEF Asleep
      <4> QED  BY <1>2, <1>3, <1>10, <2>5, <3>1, <4>1 DEF HasSide
    <3>2. CASE q # p
      <4> DEFINE m == filps[fproc[q].fd].mode
      <4>1. Asleep(q, "open") /\ ~HasSide(OtherSide(mode)) /\ fproc[q].fd # NoFilp
        BY <2>1, <2>6, <3>2 DEF Asleep, PipesIInv, CallsOK
      <4>2. m \in Modes /\ HasSide(m) /\ filps'[fproc'[q].fd].mode = m
        BY <1>6, <1>9, <3>2, <4>1, DescriptorIsUsed DEF HasSide
      <4>3. m = mode
        BY <2>5, <4>1, <4>2 DEF OtherSide, Modes
      <4> QED  BY <1>10, <2>5, <4>1, <4>2, <4>3 DEF HasSide
    <3> QED  BY <3>1, <3>2
  <2>7. ASSUME NEW q \in Procs, Asleep(q, "read")'
        PROVE  v_size' = 0 /\ HasSide("W")'
    BY <1>4, <2>1, <2>2, <2>3, <2>4, <2>7 DEF Modes
  <2>8. ASSUME NEW q \in Procs, Asleep(q, "write")'
        PROVE  HasSide("R")'
    BY <2>1, <2>2, <2>3, <2>4, <2>8 DEF Modes
  <2>9. (~ \E q, r \in Procs : Asleep(q, "read") /\ Asleep(r, "write"))'
    BY <2>1, <2>2, <2>3
  <2>10. (\A q \in Procs :
           /\ Asleep(q, "open") => ~HasSide(OtherSide(filps[fproc[q].fd].mode))
           /\ Asleep(q, "read") => v_size = 0 /\ HasSide("W")
           /\ Asleep(q, "write") => HasSide("R"))'
    BY <2>6, <2>7, <2>8
  <2> QED  BY <2>9, <2>10 DEF NobodySleepsInVain
<1> QED
  BY <1>13, <1>14, <1>15, <1>16, <1>17 DEF PipesIInv

LEMMA OpenPreserves ==
  ASSUME PipesIInv, NEW p \in Procs, NEW bits \in {{"R"}, {"W"}, Modes}, NEW nonblock \in BOOLEAN,
         OpenFifo(p, bits, nonblock)
  PROVE  PipesIInv'
<1> DEFINE r == pipe_open(bits, nonblock)
           mode == SideOf(bits)
           mine == find_filp(mode)
<1>1. /\ PipesTypeOK /\ fproc[p] \in FprocRecord
      /\ fproc[p].blocked = "no" /\ fproc[p].fd = NoFilp /\ fproc[p].moved = 0
  BY DEF OpenFifo, PipesIInv, CallsOK, FifoRefs, PipesTypeOK
<1>2. /\ v_size' = IF v_ref_count = 0 THEN 0 ELSE v_size
      /\ unread' = IF v_ref_count = 0 THEN 0 ELSE unread
      /\ UNCHANGED <<unreported, panicked>>
  BY DEF OpenFifo
<1>3. mode \in Modes
  <2>1. \E role \in Modes : role \in bits
    BY DEF Modes
  <2> QED  BY <2>1 DEF SideOf
<1>4. CASE r = ENXIO
  <2>1. UNCHANGED <<fproc, filps, v_ref_count>>
    BY <1>4 DEF OpenFifo
  <2>2. /\ v_size' \in 0 .. PIPE_BUF /\ unread' \in Nat /\ (v_size = 0 => v_size' = 0)
        /\ v_ref_count > 0 => v_size' = v_size /\ unread' = unread
    BY <1>1, <1>2, PipesAssumption DEF PipesTypeOK
  <2>3. FifoRefs'
    BY <1>1, <1>2, <2>1, <2>2 DEF PipesIInv, FifoRefs, PipesTypeOK, find_filp
  <2>4. BytesAccounted'
    BY <1>2, <2>1, <2>2 DEF PipesIInv, BytesAccounted
  <2>5. NobodySleepsInVain'
    BY <2>1, <2>2 DEF PipesIInv, NobodySleepsInVain, Asleep, HasSide, find_filp
  <2> QED  BY <2>1, <2>3, <2>4, <2>5 DEF PipesIInv, CallsOK, FilpsOK
<1>5. CASE r # ENXIO
  <2>1. PICK f \in IF mine # {} THEN mine ELSE get_fd :
          /\ IF mine # {} THEN Shares(f, nonblock) ELSE Claims(f, mode, nonblock)
          /\ fproc' = [WakesOpeners(bits) EXCEPT
               ![p].fd = f, ![p].blocked = IF r = SUSPEND THEN "open" ELSE "no"]
    BY <1>5 DEF OpenFifo
  <2>2. f \in FilpSlots /\ (mine # {} => f \in mine) /\ (mine = {} => filps[f].count = 0)
    <3>1. CASE mine # {}
      BY <2>1, <3>1 DEF find_filp
    <3>2. CASE mine = {}
      <4> DEFINE free == {g \in FilpSlots : filps[g].count = 0}
      <4>1. f \in get_fd
        BY <2>1, <3>2
      <4>2. f \in free
        BY <4>1 DEF get_fd
      <4> QED  BY <3>2, <4>2
    <3> QED  BY <3>1, <3>2
  <2>3. filps[f] \in FilpRecord /\ filps[f].count \in Nat /\ filps \in [FilpSlots -> FilpRecord]
    BY <1>1, <2>2 DEF PipesTypeOK, FilpRecord
  <2>4. /\ filps' = [filps EXCEPT ![f] = filps'[f]]
        /\ filps'[f] \in FilpRecord /\ filps'[f].count = filps[f].count + 1 /\ filps'[f].mode = mode
        /\ \/ filps[f].count > 0 /\ filps[f].mode = mode /\ v_ref_count' = v_ref_count
           \/ filps[f].count = 0 /\ find_filp(mode) = {} /\ v_ref_count' = v_ref_count + 1
    <3>1. CASE mine # {}
      <4> DEFINE new == [filps[f] EXCEPT !.count = @ + 1, !.nonblock = nonblock]
      <4>1. Shares(f, nonblock) /\ f \in mine
        BY <2>1, <2>2, <3>1
      <4>2. filps' = [filps EXCEPT ![f] = new] /\ v_ref_count' = v_ref_count
        BY <2>2, <2>3, <4>1 DEF Shares
      <4>3. new \in FilpRecord /\ new.count = filps[f].count + 1 /\ new.mode = filps[f].mode
        <5> DEFINE more == [filps[f] EXCEPT !.count = @ + 1]
        <5>1. more \in FilpRecord /\ more.count = filps[f].count + 1 /\ more.mode = filps[f].mode
          BY <2>3 DEF FilpRecord
        <5>2. new = [more EXCEPT !.nonblock = nonblock]
          OBVIOUS
        <5> HIDE DEF more, new
        <5>3. new \in FilpRecord /\ new.count = more.count /\ new.mode = more.mode
          BY <5>1, <5>2 DEF FilpRecord
        <5> QED  BY <5>1, <5>3
      <4>4. filps[f].count > 0 /\ filps[f].mode = mode
        BY <4>1 DEF find_filp
      <4> HIDE DEF new, mode
      <4> QED  BY <2>2, <2>3, <4>2, <4>3, <4>4
    <3>2. CASE mine = {}
      <4> DEFINE new == [count |-> 1, mode |-> mode, nonblock |-> nonblock]
      <4>1. filps' = [filps EXCEPT ![f] = new] /\ v_ref_count' = v_ref_count + 1
        BY <2>1, <3>2 DEF Claims
      <4>2. new \in FilpRecord /\ new.count = 1 /\ new.mode = mode
        BY <1>3 DEF FilpRecord
      <4> HIDE DEF new, mode
      <4> QED  BY <2>2, <2>3, <3>2, <4>1, <4>2
    <3> QED  BY <3>1, <3>2
  <2> DEFINE op == IF HasSide(OtherSide(mode)) THEN "open" ELSE "nobody"
             awake == WakesOpeners(bits)
             rec == [awake[p] EXCEPT !.fd = f, !.blocked = IF r = SUSPEND THEN "open" ELSE "no"]
  <2>5. awake \in [Procs -> FprocRecord] /\ \A q \in Procs : Woken(fproc[q], awake[q], op)
    <3>1. CASE HasSide(OtherSide(mode))
      <4>1. awake = release(fproc, "open")
        BY <3>1 DEF WakesOpeners
      <4> QED  BY <1>1, <3>1, <4>1, ReleaseWakes
    <3>2. CASE ~HasSide(OtherSide(mode))
      <4>1. awake = fproc
        BY <3>2 DEF WakesOpeners
      <4>2. \A q \in Procs : fproc[q].blocked # "nobody"
        BY <1>1 DEF PipesTypeOK, FprocRecord
      <4> QED  BY <1>1, <3>2, <4>1, <4>2 DEF Woken, PipesTypeOK
    <3> QED  BY <3>1, <3>2
  <2>6. fproc' = [awake EXCEPT ![p] = rec]
    BY <2>1, <2>5
  <2>7. /\ rec \in FprocRecord /\ rec.fd = f /\ rec.moved = 0
        /\ rec.blocked = IF r = SUSPEND THEN "open" ELSE "no"
    <3>1. awake[p] \in FprocRecord /\ awake[p].moved = 0
      BY <1>1, <2>5 DEF Woken
    <3> HIDE DEF awake
    <3> QED  BY <2>2, <3>1 DEF FprocRecord
  <2>8. r = SUSPEND => ~HasSide(OtherSide(mode))
    <3>1. CASE bits = Modes
      BY <3>1 DEF pipe_open, ENXIO, SUSPEND
    <3>2. CASE bits # Modes /\ HasSide(OtherSide(mode))
      <4>1. r = OK
        BY <3>2 DEF pipe_open
      <4> QED  BY <4>1 DEF OK, SUSPEND
    <3> QED  BY <3>1, <3>2
  <2>9. Joins(p, f, mode)
    <3> HIDE DEF rec, awake, r, mode
    <3>1. /\ fproc' \in [Procs -> FprocRecord] /\ fproc'[p] = rec
          /\ \A q \in Procs \ {p} : fproc'[q] = awake[q]
      BY <2>5, <2>6, <2>7
    <3>2. \A q \in Procs \ {p} : Woken(fproc[q], fproc'[q], op)
      BY <2>5, <3>1
    <3> QED  BY <1>1, <1>2, <2>4, <2>7, <2>8, <3>1, <3>2 DEF Joins
  <2> QED  BY <1>3, <2>2, <2>9, JoinsPreserves
<1> QED  BY <1>4, <1>5

LEMMA ClosePreserves ==
  ASSUME PipesIInv, NEW p \in Procs, CloseFifo(p)
  PROVE  PipesIInv'
<1> DEFINE f == fproc[p].fd
           op == IF filps[f].mode = "R" THEN "write" ELSE "read"
           awake == WakesOther(f)
           rec == [awake[p] EXCEPT !.fd = NoFilp]
<1>1. /\ f # NoFilp /\ close_filp(f) /\ fproc[p].blocked = "no"
      /\ fproc' = [awake EXCEPT ![p].fd = NoFilp]
      /\ UNCHANGED <<v_size, unread, unreported, panicked>>
  BY DEF CloseFifo
<1>2. awake \in [Procs -> FprocRecord] /\ \A q \in Procs : Woken(fproc[q], awake[q], op)
  BY ReleaseWakes DEF WakesOther, PipesIInv, FifoRefs
<1>3. fproc' = [awake EXCEPT ![p] = rec]
  BY <1>1, <1>2
<1>4. rec \in FprocRecord /\ rec.fd = NoFilp /\ rec.blocked = "no" /\ rec.moved = 0
  <2>1. fproc[p].moved = 0
    BY <1>1 DEF PipesIInv, CallsOK
  <2>2. awake[p] \in FprocRecord /\ awake[p].blocked = "no" /\ awake[p].moved = 0
    BY <1>1, <1>2, <2>1 DEF Woken
  <2> HIDE DEF awake
  <2> QED  BY <2>2 DEF FprocRecord
<1>5. Leaves(p, f)
  <2> HIDE DEF rec, awake
  <2>1. /\ fproc' \in [Procs -> FprocRecord] /\ fproc'[p] = rec
        /\ \A q \in Procs \ {p} : fproc'[q] = awake[q]
    BY <1>2, <1>3, <1>4
  <2> QED  BY <1>1, <1>2, <1>4, <2>1 DEF Leaves
<1> QED
  BY <1>1, <1>5, LeavesPreserves

LEMMA ExitPreserves ==
  ASSUME PipesIInv, NEW p \in Procs, Exit(p)
  PROVE  PipesIInv'
<1> DEFINE f == fproc[p].fd
           op == IF filps[f].mode = "R" THEN "write" ELSE "read"
           awake == WakesOther(f)
<1>1. AtRest \in FprocRecord /\ AtRest.fd = NoFilp /\ AtRest.blocked = "no" /\ AtRest.moved = 0
  BY DEF AtRest, FprocRecord
<1>2. UNCHANGED <<v_size, unread, unreported, panicked>>
  BY DEF Exit
<1>3. PipesTypeOK
  BY DEF PipesIInv, FifoRefs
<1>4. CASE f # NoFilp
  <2>1. close_filp(f) /\ fproc' = [awake EXCEPT ![p] = AtRest]
    BY <1>4 DEF Exit
  <2>2. awake \in [Procs -> FprocRecord] /\ \A q \in Procs : Woken(fproc[q], awake[q], op)
    BY <1>3, ReleaseWakes DEF WakesOther
  <2> HIDE DEF awake
  <2>3. /\ fproc' \in [Procs -> FprocRecord] /\ fproc'[p] = AtRest
        /\ \A q \in Procs \ {p} : fproc'[q] = awake[q]
    BY <1>1, <2>1, <2>2
  <2>4. Leaves(p, f)
    BY <1>1, <1>2, <2>1, <2>2, <2>3 DEF Leaves
  <2> QED  BY <1>4, <2>4, LeavesPreserves
<1>5. CASE f = NoFilp
  <2>1. fproc' = [fproc EXCEPT ![p] = AtRest] /\ UNCHANGED <<filps, v_ref_count>>
    BY <1>5 DEF Exit
  <2>2. /\ fproc' \in [Procs -> FprocRecord] /\ fproc'[p] = AtRest
        /\ \A q \in Procs \ {p} : fproc'[q] = fproc[q]
    BY <1>1, <1>3, <2>1 DEF PipesTypeOK
  <2>3. \A g \in FilpSlots : {q \in Procs : fproc'[q].fd = g} = {q \in Procs : fproc[q].fd = g}
    BY <1>1, <1>5, <2>2
  <2>4. \A mode : find_filp(mode)' = find_filp(mode) /\ HasSide(mode)' = HasSide(mode)
    BY <2>1 DEF find_filp, HasSide
  <2>5. \A q \in Procs : \A o \in {"open", "read", "write"} : Asleep(q, o)' => q # p /\ Asleep(q, o)
    BY <1>1, <2>2 DEF Asleep
  <2>6. FifoRefs'
    <3>1. PipesTypeOK'
      BY <1>2, <1>3, <2>1, <2>2 DEF PipesTypeOK
    <3>2. (\A g \in FilpSlots : filps[g].count = Cardinality({q \in Procs : fproc[q].fd = g}))'
      BY <2>1, <2>3 DEF PipesIInv, FifoRefs
    <3> QED  BY <2>1, <2>4, <3>1, <3>2 DEF PipesIInv, FifoRefs
  <2>7. BytesAccounted'
    BY <1>1, <1>2, <2>1, <2>2 DEF PipesIInv, BytesAccounted
  <2>8. CallsOK' /\ FilpsOK'
    BY <1>1, <2>1, <2>2 DEF PipesIInv, CallsOK, FilpsOK
  <2>9. NobodySleepsInVain'
    BY <1>2, <2>1, <2>2, <2>4, <2>5 DEF PipesIInv, NobodySleepsInVain
  <2> QED  BY <2>6, <2>7, <2>8, <2>9 DEF PipesIInv
<1> QED
  BY <1>4, <1>5

LEMMA PipesInitInv == PipesInit => PipesIInv
<1> SUFFICES ASSUME PipesInit PROVE PipesIInv
  OBVIOUS
<1> USE DEF PipesInit, AtRest, FreeFilp
<1>1. PipesTypeOK
  <2>1. fproc \in [Procs -> FprocRecord]
    BY DEF FprocRecord
  <2>2. filps \in [FilpSlots -> FilpRecord]
    BY DEF FilpRecord
  <2>3. /\ v_ref_count \in Nat /\ v_size \in 0 .. PIPE_BUF /\ unread \in Nat
        /\ unreported \in Int
    BY PipesAssumption
  <2>4. panicked \in BOOLEAN
    OBVIOUS
  <2> QED  BY <2>1, <2>2, <2>3, <2>4 DEF PipesTypeOK
<1>2. /\ {f \in FilpSlots : filps[f].count > 0} = {}
      /\ \A f \in FilpSlots : {p \in Procs : fproc[p].fd = f} = {}
      /\ \A mode \in Modes : find_filp(mode) = {}
  BY PipesAssumption DEF find_filp
<1>3. FifoRefs
  BY <1>1, <1>2, FS_EmptySet DEF FifoRefs
<1>4. BytesAccounted
  BY DEF BytesAccounted
<1>5. NobodySleepsInVain
  BY DEF NobodySleepsInVain, Asleep
<1>6. CallsOK /\ FilpsOK
  BY DEF CallsOK, FilpsOK, Modes
<1> QED
  BY <1>3, <1>4, <1>5, <1>6 DEF PipesIInv

LEMMA PipesStepInv == PipesIInv /\ [PipesNext]_pipesVars => PipesIInv'
<1> SUFFICES ASSUME PipesIInv, [PipesNext]_pipesVars PROVE PipesIInv'
  OBVIOUS
<1>1. CASE UNCHANGED pipesVars
  BY <1>1 DEF pipesVars, PipesIInv, FifoRefs, PipesTypeOK, BytesAccounted, NobodySleepsInVain,
              Asleep, HasSide, find_filp, CallsOK, FilpsOK
<1>2. ASSUME NEW p \in Procs, NEW bits \in {{"R"}, {"W"}, Modes}, NEW nonblock \in BOOLEAN,
             OpenFifo(p, bits, nonblock)
      PROVE  PipesIInv'
  BY <1>2, OpenPreserves
<1>3. ASSUME NEW p \in Procs, CloseFifo(p) PROVE PipesIInv'
  BY <1>3, ClosePreserves
<1>4. ASSUME NEW p \in Procs, Exit(p) PROVE PipesIInv'
  BY <1>4, ExitPreserves
<1>5. ASSUME NEW p \in Procs, Resume(p) PROVE PipesIInv'
  <2> DEFINE op == fproc[p].blocked
             n == fproc[p].left
  <2>1. op \in {"read", "write"} /\ rw_pipe(p, op, n)
    BY <1>5 DEF Resume
  <2>2. n \in Nat
    BY DEF PipesIInv, FifoRefs, PipesTypeOK, FprocRecord
  <2>3. Trying(p, op, n)
    BY <2>1, <2>2 DEF Trying, PipesIInv, CallsOK, BytesAccounted
  <2> QED  BY <2>1, <2>2, <2>3, RwIsStep, RwPreserves
<1>6. ASSUME NEW p \in Procs, NEW op \in {"read", "write"}, NEW n \in Requests,
             ReadWrite(p, op, n)
      PROVE  PipesIInv'
  <2>1. CASE fproc[p].cum # 0
    <3>1. /\ panicked' = TRUE
          /\ UNCHANGED <<fproc, filps, v_ref_count, v_size, unread, unreported>>
      BY <1>6, <2>1 DEF ReadWrite
    <3> QED
      BY <3>1 DEF PipesIInv, FifoRefs, PipesTypeOK, BytesAccounted, NobodySleepsInVain,
                  Asleep, HasSide, find_filp, CallsOK, FilpsOK
  <2>2. CASE fproc[p].cum = 0
    <3>1. /\ fproc[p].blocked = "no" /\ fproc[p].fd # NoFilp
          /\ filps[fproc[p].fd].mode = ModeFor(op) /\ rw_pipe(p, op, n)
      BY <1>6, <2>2 DEF ReadWrite
    <3>2. Trying(p, op, n) /\ n \in Nat
      BY <2>2, <3>1, PipesAssumption DEF Trying, PipesIInv, CallsOK
    <3> QED  BY <3>1, <3>2, RwIsStep, RwPreserves
  <2> QED  BY <2>1, <2>2
<1> QED
  BY <1>1, <1>2, <1>3, <1>4, <1>5, <1>6 DEF PipesNext

LEMMA PipesInvariant == PipesSpec => []PipesIInv
<1> QED
  BY PipesInitInv, PipesStepInv, PTL DEF PipesSpec

\* With any number of processes, the FIFO's vnode has a reference per filp, a
\* filp counts its descriptors, and each side shares one (common_open, pipe_open).
THEOREM PipesRefsAccounted == PipesSpec => []FifoRefs
<1>1. PipesIInv => FifoRefs
  BY DEF PipesIInv
<1> QED
  BY <1>1, PipesInvariant, PTL

\* For a pipe of any size and requests of any length, a read or write answers
\* with the bytes it has moved in all its parts (rw_pipe).
THEOREM PipesBytesAccounted == PipesSpec => []BytesAccounted
<1>1. PipesIInv => BytesAccounted
  BY DEF PipesIInv
<1> QED
  BY <1>1, PipesInvariant, PTL

\* With any number of processes, nobody sleeps on the FIFO with nobody left to
\* wake him (pipe_open, rw_pipe).
THEOREM PipesWakeups == PipesSpec => []NobodySleepsInVain
<1>1. PipesIInv => NobodySleepsInVain
  BY DEF PipesIInv
<1> QED
  BY <1>1, PipesInvariant, PTL

-----------------------------------------------------------------------------
(***************************************************************************)
(* Vfs                                                                     *)
(***************************************************************************)
\* What Vfs does on the side it looks at is what that side does by itself, the
\* fairness of its workers left aside.
LEMMA VfsComposes ==
  VfsSpec => /\ NamesInit /\ [][NamesNext]_namesVars
             /\ PipesInit /\ [][PipesNext]_pipesVars
<1>1. VfsInit => NamesInit /\ PipesInit
  BY DEF VfsInit
<1>2. [VfsNext]_vfsVars => [NamesNext]_namesVars /\ [PipesNext]_pipesVars
  BY DEF VfsNext, vfsVars, InNames, InPipes
<1> QED
  BY <1>1, <1>2, PTL DEF VfsSpec

\* The same under the specification of the two sides.
THEOREM VfsSafe ==
  VfsSpec => [](RefsAccounted /\ LookupsStillHold /\ FifoRefs /\ BytesAccounted /\ NobodySleepsInVain)
<1>1. NamesIInv => RefsAccounted /\ LookupsStillHold
  BY LookupsFollow DEF NamesIInv
<1>2. PipesInit /\ [][PipesNext]_pipesVars => [](FifoRefs /\ BytesAccounted /\ NobodySleepsInVain)
  BY PipesRefsAccounted, PipesBytesAccounted, PipesWakeups, PTL DEF PipesSpec
<1> QED
  BY <1>1, <1>2, VfsComposes, NamesAlways, PTL

=============================================================================
