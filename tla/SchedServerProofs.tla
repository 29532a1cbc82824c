-------------------------- MODULE SchedServerProofs --------------------------
(***************************************************************************)
(* Proofs about SchedServer: its type invariant, that the kernel never     *)
(* holds a process in a run queue that does not exist, that part1 keeps    *)
(* the priorities it records within bounds, that a process runs in the     *)
(* queue and with the quantum SCHED has recorded, and that a processor the *)
(* kernel has called bad is not asked for again, whatever the number of    *)
(* processes, queues and processors and whatever the kernel refuses.       *)
(***************************************************************************)
EXTENDS SchedServer, FiniteSetTheorems, TLAPS

\* A nonempty set of naturals has a least element.
LEMMA LeastNatural ==
  ASSUME NEW T \in SUBSET Nat, T # {}
  PROVE  \E x \in T : \A y \in T : x <= y
<1> DEFINE Less == {ss \in Nat \X Nat : ss[1] < ss[2]}
<1>0. IsWellFoundedOn(Less, Nat)
  BY NatLessThanWellFounded, Zenon DEF OpToRel
<1> HIDE DEF Less
<1>1. PICK x \in T : \A y \in T : ~ (<<y, x>> \in Less)
  BY <1>0, WFMin, Zenon
<1>2. \A y \in T : ~ (y < x)
  BY <1>1 DEF Less
<1> QED
  BY <1>2

\* What pick_cpu picks: the boot processor, or a candidate with no more load
\* than any other.
LEMMA PickCpuLeast ==
  ASSUME NEW load \in [Cpus -> UInt], NEW p
  PROVE  \/ pick_cpu(load, p) = BSP
            /\ (PicksBsp(p) \/ \A c \in Cpus \ {BSP} : load[c] = UINT_MAX)
         \/ ~PicksBsp(p) /\ pick_cpu(load, p) \in Cpus \ {BSP}
            /\ load[pick_cpu(load, p)] < UINT_MAX
            /\ \A d \in Cpus \ {BSP} : load[pick_cpu(load, p)] <= load[d]
<1> DEFINE candidates == {c \in Cpus \ {BSP} : load[c] < UINT_MAX}
           better(c, d) == load[c] < load[d] \/ (load[c] = load[d] /\ c <= d)
<1>0. Cpus \in SUBSET Nat /\ \A c \in Cpus : load[c] \in Nat /\ load[c] <= UINT_MAX
  BY SchedAssumption DEF Cpus, UInt
<1>1. CASE PicksBsp(p)
  BY <1>1 DEF pick_cpu
<1>2. CASE ~PicksBsp(p) /\ candidates = {}
  <2>1. pick_cpu(load, p) = BSP
    BY <1>2 DEF pick_cpu
  <2>2. \A c \in Cpus \ {BSP} : load[c] = UINT_MAX
    BY <1>0, <1>2, SchedAssumption
  <2> QED
    BY <2>1, <2>2
<1>3. CASE ~PicksBsp(p) /\ candidates # {}
  <2>1. candidates \subseteq Cpus
    OBVIOUS
  <2>2. PICK l \in {load[c] : c \in candidates} : \A m \in {load[c] : c \in candidates} : l <= m
    <3> DEFINE T == {load[c] : c \in candidates}
    <3>1. T \in SUBSET Nat /\ T # {}
      BY <1>0, <1>3, <2>1
    <3> HIDE DEF T
    <3>2. \E x \in T : \A y \in T : x <= y
      BY <3>1, LeastNatural
    <3> QED
      BY <3>2 DEF T
  <2>3. PICK c \in {d \in candidates : load[d] = l} : \A d \in {e \in candidates : load[e] = l} : c <= d
    <3> DEFINE T == {d \in candidates : load[d] = l}
    <3>1. T \in SUBSET Nat /\ T # {}
      BY <1>0, <2>1, <2>2
    <3> HIDE DEF T
    <3>2. \E x \in T : \A y \in T : x <= y
      BY <3>1, LeastNatural
    <3> QED
      BY <3>2 DEF T
  <2>4. pick_cpu(load, p) = CHOOSE b \in candidates : \A d \in candidates : better(b, d)
    BY <1>3 DEF pick_cpu
  <2>5. \A d \in candidates : better(c, d)
    <3> HIDE DEF candidates
    <3> QED
      BY <1>0, <2>1, <2>2, <2>3
  <2>6. /\ pick_cpu(load, p) \in candidates
        /\ \A d \in candidates : better(pick_cpu(load, p), d)
    <3> HIDE DEF candidates, better
    <3> QED
      BY <2>3, <2>4, <2>5
  <2>7. pick_cpu(load, p) \in Cpus \ {BSP} /\ load[pick_cpu(load, p)] < UINT_MAX
    BY <2>6
  <2>8. ASSUME NEW d \in Cpus \ {BSP}
        PROVE  load[pick_cpu(load, p)] <= load[d]
    <3> DEFINE c0 == pick_cpu(load, p)
    <3>0. load[c0] \in Nat /\ load[d] \in Nat /\ load[d] <= UINT_MAX /\ load[c0] < UINT_MAX
      BY <1>0, <2>7
    <3>1. CASE d \in candidates
      BY <2>6, <3>0, <3>1
    <3>2. CASE load[d] = UINT_MAX
      BY <3>0, <3>2, SchedAssumption
    <3>3. load[d] < UINT_MAX => d \in candidates
      OBVIOUS
    <3> QED
      BY <3>0, <3>1, <3>2, <3>3, SchedAssumption
  <2> QED
    BY <1>3, <2>7, <2>8
<1> QED
  BY <1>1, <1>2, <1>3

\* pick_cpu picks one of the machine's processors.
LEMMA PickCpuType ==
  ASSUME NEW load \in [Cpus -> UInt], NEW p \in SchedProc
  PROVE  pick_cpu(load, p) \in Cpus
<1>1. BSP \in Cpus
  BY SchedAssumption DEF BSP, Cpus
<1> QED
  BY <1>1, PickCpuLeast

\* Unsigned arithmetic stays in range.
LEMMA UIntArithmetic ==
  ASSUME NEW i \in UInt
  PROVE  (i + 1) % (UINT_MAX + 1) \in UInt /\ (i - 1) % (UINT_MAX + 1) \in UInt
<1> DEFINE n == UINT_MAX + 1
<1>1. n \in Nat /\ n > 0 /\ i + 1 \in Int /\ i - 1 \in Int
  BY SchedAssumption DEF UInt
<1> HIDE DEF n
<1>2. (i + 1) % n \in 0 .. n - 1 /\ (i - 1) % n \in 0 .. n - 1
  BY <1>1
<1> QED
  BY <1>2, SchedAssumption DEF n, UInt

\* The table entry and the load counters that pick_cpu leaves.
LEMMA PickedType ==
  ASSUME NEW load \in [Cpus -> UInt], NEW p \in SchedProc
  PROVE  /\ Picked(load, p) \in SchedProc
         /\ Picked(load, p).priority = p.priority
         /\ Picked(load, p).inuse = p.inuse
         /\ Counted(load, p) \in [Cpus -> UInt]
<1>1. pick_cpu(load, p) \in Cpus
  BY PickCpuType
<1>2. Picked(load, p) \in SchedProc /\ Picked(load, p).priority = p.priority
      /\ Picked(load, p).inuse = p.inuse
  BY <1>1 DEF Picked, SchedProc
<1>3. (load[pick_cpu(load, p)] + 1) % (UINT_MAX + 1) \in UInt
  BY <1>1, UIntArithmetic
<1>4. Counted(load, p) \in [Cpus -> UInt]
  BY <1>1, <1>3 DEF Counted
<1> QED
  BY <1>2, <1>4

\* The priorities SCHED may hold: queues, and in part2 the wrapped one.
HeldPriority(q) == q \in 0 .. NR_SCHED_QUEUES - 1 \/ (part = 2 /\ q = UINT_MAX)

\* A kernel call made with such a priority leaves the kernel's table as it should be.
LEMMA KernelCall ==
  ASSUME NEW h, NEW err, NEW s \in Slots, NEW p \in SchedProc, NEW cpu \in Cpus \cup {-1},
         NEW k \in [Slots -> KProc], \A t \in Slots : k[t].priority \in 0 .. NR_SCHED_QUEUES - 1,
         HeldPriority(p.priority), refusals \in 0 .. MaxRefusals,
         sys_schedule(h, k, s, p, cpu, err)
  PROVE  /\ kproc' \in [Slots -> KProc]
         /\ \A t \in Slots : kproc'[t].priority \in 0 .. NR_SCHED_QUEUES - 1
         /\ refusals' \in 0 .. MaxRefusals
<1> DEFINE q == IF p.priority = UINT_MAX THEN -1 ELSE p.priority
           kp == sched_proc(k[s], q, p.time_slice, cpu)
<1>1. q \in 0 .. NR_SCHED_QUEUES - 1 \/ q = -1
  BY SchedAssumption DEF HeldPriority
<1>2. p.time_slice \in Quanta
  BY DEF SchedProc
<1>3. kp \in KProc /\ kp.priority \in 0 .. NR_SCHED_QUEUES - 1
  <2> HIDE DEF q
  <2>1. k[s] \in KProc /\ k[s].priority \in 0 .. NR_SCHED_QUEUES - 1
    OBVIOUS
  <2>2. 0 .. NR_SCHED_QUEUES - 1 \subseteq 0 .. NR_SCHED_QUEUES
    BY SchedAssumption
  <2> QED
    BY <1>1, <1>2, <2>1, <2>2 DEF sched_proc, KProc
<1>4. kproc' = k \/ kproc' = [k EXCEPT ![s] = kp]
  BY DEF sys_schedule
<1>5. refusals' \in 0 .. MaxRefusals
  BY SchedAssumption DEF sys_schedule
<1> HIDE DEF kp
<1> QED
  BY <1>3, <1>4, <1>5

LEMMA LocalCall ==
  ASSUME NEW h, NEW err, NEW s \in Slots, NEW p \in SchedProc,
         NEW k \in [Slots -> KProc], \A t \in Slots : k[t].priority \in 0 .. NR_SCHED_QUEUES - 1,
         HeldPriority(p.priority), refusals \in 0 .. MaxRefusals, cpu_proc \in [Cpus -> UInt],
         schedule_process_local(h, k, s, p, err)
  PROVE  /\ kproc' \in [Slots -> KProc]
         /\ \A t \in Slots : kproc'[t].priority \in 0 .. NR_SCHED_QUEUES - 1
         /\ refusals' \in 0 .. MaxRefusals
         /\ cpu_proc' \in [Cpus -> UInt]
<1>1. sys_schedule(h, k, s, p, -1, err) /\ cpu_proc' = Counted(cpu_proc, p)
  BY DEF schedule_process_local
<1> QED
  BY <1>1, KernelCall, PickedType

-----------------------------------------------------------------------------
\* KernelPriorityValid is not inductive: what the kernel is told comes from
\* SCHED's table, a forked process inherits from its parent's entry, and the
\* loops use the slot they are at.
EntriesValid == \A s \in Slots : schedproc[s].inuse => HeldPriority(schedproc[s].priority)

LoopAtSlot ==
  /\ handler = "start" => cursor \in Slots /\ schedproc[cursor].inuse
  /\ handler = "balance" => cursor \in Slots

ParentsAreUsers == \A s \in Slots : request[s].type = "INHERIT" => request[s].parent \in Slots

SchedInv ==
  SchedTypeOK /\ KernelPriorityValid /\ EntriesValid /\ LoopAtSlot /\ ParentsAreUsers

LEMMA SchedInvInit == SchedInit => SchedInv
<1> SUFFICES ASSUME SchedInit PROVE SchedInv
  OBVIOUS
<1>1. /\ INIT \in Slots /\ BSP \in Cpus /\ {0, USER_Q} \subseteq UInt
      /\ USER_Q \in 0 .. NR_SCHED_QUEUES - 1 /\ USER_Q \in 0 .. NR_SCHED_QUEUES
      /\ 0 \in 0 .. NR_PROCS /\ 0 \in 0 .. MaxRefusals
  BY SchedAssumption DEF INIT, Slots, BSP, Cpus, UInt
<1>2. DEFAULT_USER_TIME_SLICE \in Quanta
  BY DEF Quanta
<1>3. schedproc \in [Slots -> SchedProc]
  BY <1>1, <1>2 DEF SchedInit, SchedProc
<1>4. kproc \in [Slots -> KProc]
  <2>1. \A s \in Slots : (s = INIT) \in BOOLEAN
    OBVIOUS
  <2> QED
    BY <1>1, <1>2, <2>1 DEF SchedInit, KProc
<1>5. request \in [Slots -> Request]
  BY <1>1 DEF SchedInit, Request
<1>6. SchedTypeOK
  BY <1>1, <1>3, <1>4, <1>5 DEF SchedInit, SchedTypeOK, PMStates
<1>7. KernelPriorityValid
  BY <1>1 DEF SchedInit, KernelPriorityValid
<1>8. EntriesValid /\ LoopAtSlot /\ ParentsAreUsers
  BY <1>1 DEF SchedInit, EntriesValid, LoopAtSlot, ParentsAreUsers
<1> QED
  BY <1>6, <1>7, <1>8 DEF SchedInv

\* The steps of PM, RS and the kernel do not touch SCHED's table.
LEMMA EnvironmentStep ==
  ASSUME SchedInv, NEW s \in Slots,
         QuantumExpires(s) \/ Clear(s) \/ SpawnService(s) \/ \E c \in Slots : Fork(s, c)
  PROVE  SchedInv'
<1> USE DEF SchedInv
<1>1. UNCHANGED <<part, schedproc, cpu_proc, handler, cursor, refusals, badcpu>>
  BY DEF QuantumExpires, Clear, SpawnService, Fork
<1>2. EntriesValid' /\ LoopAtSlot'
  BY <1>1 DEF EntriesValid, LoopAtSlot, HeldPriority
<1>3. /\ kproc' \in [Slots -> KProc] /\ pm' \in [Slots -> PMStates]
      /\ request' \in [Slots -> Request]
      /\ KernelPriorityValid' /\ ParentsAreUsers'
  <2>0. USER_Q \in 0 .. NR_SCHED_QUEUES - 1 /\ USER_Q \in 0 .. NR_SCHED_QUEUES
        /\ ServiceQueues \subseteq UInt
    BY SchedAssumption DEF UInt
  <2>1. kproc[s] \in KProc
    BY DEF SchedTypeOK
  <2>2. CASE QuantumExpires(s)
    <3> DEFINE k == [kproc[s] EXCEPT !.noquantum = TRUE, !.sending = TRUE]
    <3>1. k \in KProc /\ k.priority = kproc[s].priority
      BY <2>1 DEF KProc
    <3>2. kproc' = [kproc EXCEPT ![s] = k] /\ UNCHANGED <<pm, request>>
      BY <2>2 DEF QuantumExpires
    <3> HIDE DEF k
    <3> QED
      BY <3>1, <3>2 DEF SchedTypeOK, KernelPriorityValid, ParentsAreUsers
  <2>3. CASE Clear(s)
    <3> DEFINE k == [kproc[s] EXCEPT !.alive = FALSE, !.gen = @ + 1, !.sending = FALSE]
    <3>0. kproc[s] \in KProc /\ kproc[s].gen + 1 \in Nat
      BY DEF SchedTypeOK, KProc
    <3>1. k \in KProc /\ k.priority = kproc[s].priority
      BY <3>0 DEF KProc
    <3>2. kproc' = [kproc EXCEPT ![s] = k] /\ pm' = [pm EXCEPT ![s] = "free"] /\ UNCHANGED request
      BY <2>3 DEF Clear
    <3> HIDE DEF k
    <3> QED
      BY <3>1, <3>2 DEF SchedTypeOK, KernelPriorityValid, ParentsAreUsers, PMStates
  <2>4. CASE SpawnService(s)
    <3> DEFINE k == [kproc[s] EXCEPT !.alive = TRUE, !.scheduled = FALSE, !.noquantum = TRUE,
                                     !.sending = FALSE, !.priority = USER_Q]
               r(q) == [type |-> "START", parent |-> RS, pgen |-> 0, maxprio |-> q]
    <3>1. k \in KProc /\ k.priority = USER_Q
      BY <2>0, <2>1 DEF KProc
    <3>2. \A q \in ServiceQueues : r(q) \in Request /\ r(q).type # "INHERIT"
      BY <2>0 DEF Request
    <3>3. /\ kproc' = [kproc EXCEPT ![s] = k] /\ pm' = [pm EXCEPT ![s] = "new"]
          /\ \E q \in ServiceQueues : request' = [request EXCEPT ![s] = r(q)]
      BY <2>4 DEF SpawnService
    <3> HIDE DEF k, r
    <3> QED
      BY <2>0, <3>1, <3>2, <3>3 DEF SchedTypeOK, KernelPriorityValid, ParentsAreUsers, PMStates
  <2>5. ASSUME NEW c \in Slots, Fork(s, c)
        PROVE  /\ kproc' \in [Slots -> KProc] /\ pm' \in [Slots -> PMStates]
               /\ request' \in [Slots -> Request]
               /\ KernelPriorityValid' /\ ParentsAreUsers'
    <3> DEFINE k == [kproc[s] EXCEPT !.gen = kproc[c].gen, !.noquantum = TRUE, !.sending = FALSE]
               r == [type |-> "INHERIT", parent |-> s, pgen |-> kproc[s].gen,
                     maxprio |-> request[s].maxprio]
    <3>1. k \in KProc /\ k.priority = kproc[s].priority
      <4>1. kproc[c] \in KProc /\ kproc[c].gen \in Nat
        BY DEF SchedTypeOK, KProc
      <4> QED
        BY <2>1, <4>1 DEF KProc
    <3>2. r \in Request /\ r.parent = s
      BY DEF SchedTypeOK, Request, KProc
    <3>3. /\ kproc' = [kproc EXCEPT ![c] = k] /\ pm' = [pm EXCEPT ![c] = "new"]
          /\ request' = [request EXCEPT ![c] = r]
      BY <2>5 DEF Fork
    <3> HIDE DEF k, r
    <3> QED
      BY <3>1, <3>2, <3>3 DEF SchedTypeOK, KernelPriorityValid, ParentsAreUsers, PMStates
  <2> QED
    BY <2>2, <2>3, <2>4, <2>5
<1>4. SchedTypeOK'
  BY <1>1, <1>3 DEF SchedTypeOK
<1> QED
  BY <1>2, <1>3, <1>4

\* The new priority of a process out of quantum is one SCHED may hold.
LEMMA NoquantumHeld ==
  ASSUME NEW q \in UInt, HeldPriority(q), part \in {1, 2}
  PROVE  NoquantumPriority(q) \in UInt /\ HeldPriority(NoquantumPriority(q))
<1>1. CASE part = 1
  BY <1>1, SchedAssumption DEF NoquantumPriority, NoquantumPriority1, HeldPriority, MIN_USER_Q, UInt
<1>2. CASE part = 2 /\ q = 0
  <2>1. (q - 1) % (UINT_MAX + 1) = UINT_MAX
    BY <1>2, SchedAssumption
  <2> QED
    BY <1>2, <2>1, SchedAssumption
       DEF NoquantumPriority, NoquantumPriority2, HeldPriority, MIN_USER_Q, UInt
<1>3. CASE part = 2 /\ q > 0
  <2>1. (q - 1) % (UINT_MAX + 1) = q - 1
    BY <1>3, SchedAssumption DEF UInt
  <2> QED
    BY <1>3, <2>1, SchedAssumption
       DEF NoquantumPriority, NoquantumPriority2, HeldPriority, MIN_USER_Q, UInt
<1> QED
  BY <1>1, <1>2, <1>3, SchedAssumption DEF UInt

\* do_noquantum keeps the entry's priority among those SCHED may hold.
LEMMA NoquantumStep ==
  ASSUME SchedInv, NEW s \in Slots, do_noquantum(s)
  PROVE  SchedInv'
<1> DEFINE received == [kproc EXCEPT ![s].sending = FALSE]
           lowered  == [schedproc[s] EXCEPT !.priority = NoquantumPriority(@)]
<1> USE DEF SchedInv
<1>1. UNCHANGED <<part, handler, cursor, pm, request, badcpu>> /\ handler = "none"
  BY DEF do_noquantum
<1>2. received \in [Slots -> KProc]
      /\ \A t \in Slots : received[t].priority \in 0 .. NR_SCHED_QUEUES - 1
  <2> DEFINE k == [kproc[s] EXCEPT !.sending = FALSE]
  <2>1. k \in KProc /\ k.priority = kproc[s].priority
    BY DEF SchedTypeOK, KProc
  <2>2. received = [kproc EXCEPT ![s] = k]
    BY DEF SchedTypeOK
  <2> HIDE DEF k, received
  <2> QED
    BY <2>1, <2>2 DEF SchedTypeOK, KernelPriorityValid
<1> HIDE DEF received
<1>3. CASE IsOkEndpoint(s)
  <2>0. schedproc[s] \in SchedProc /\ schedproc[s].inuse /\ HeldPriority(schedproc[s].priority)
    BY <1>3 DEF SchedTypeOK, IsOkEndpoint, EntriesValid
  <2>1. NoquantumPriority(schedproc[s].priority) \in UInt
        /\ HeldPriority(NoquantumPriority(schedproc[s].priority))
    BY <2>0, NoquantumHeld DEF SchedProc, SchedTypeOK
  <2>2. lowered \in SchedProc /\ HeldPriority(lowered.priority) /\ lowered.inuse
    BY <2>0, <2>1 DEF SchedProc
  <2>3. PICK err \in Answers : schedule_process_local("noquantum", received, s, lowered, err)
    BY <1>3 DEF do_noquantum, received
  <2>4. schedproc' = [schedproc EXCEPT ![s] = Picked(cpu_proc, lowered)]
    BY <1>3 DEF do_noquantum
  <2> HIDE DEF lowered
  <2>5. /\ kproc' \in [Slots -> KProc] /\ refusals' \in 0 .. MaxRefusals
        /\ \A t \in Slots : kproc'[t].priority \in 0 .. NR_SCHED_QUEUES - 1
        /\ cpu_proc' \in [Cpus -> UInt]
    BY <1>2, <2>2, <2>3, LocalCall DEF SchedTypeOK
  <2>6. Picked(cpu_proc, lowered) \in SchedProc
        /\ Picked(cpu_proc, lowered).priority = lowered.priority
    BY <2>2, PickedType DEF SchedTypeOK
  <2>7. SchedTypeOK' /\ KernelPriorityValid'
    BY <1>1, <2>4, <2>5, <2>6 DEF SchedTypeOK, KernelPriorityValid
  <2>8. EntriesValid'
    BY <1>1, <2>2, <2>4, <2>6 DEF EntriesValid, HeldPriority, SchedTypeOK
  <2> QED
    BY <1>1, <2>7, <2>8 DEF LoopAtSlot, ParentsAreUsers
<1>4. CASE ~IsOkEndpoint(s)
  <2>1. kproc' = received /\ UNCHANGED <<schedproc, cpu_proc, refusals>>
    BY <1>4 DEF do_noquantum, received
  <2> QED
    BY <1>1, <1>2, <2>1
       DEF SchedTypeOK, KernelPriorityValid, EntriesValid, LoopAtSlot, ParentsAreUsers, HeldPriority
<1> QED
  BY <1>3, <1>4

\* do_nice stores a queue the kernel knows, or what was there before.
LEMMA NiceStep ==
  ASSUME SchedInv, NEW s \in Slots, NEW new_q \in NiceQueues, do_nice(s, new_q)
  PROVE  SchedInv'
<1> DEFINE p == [schedproc[s] EXCEPT !.max_priority = new_q, !.priority = new_q]
           r == [request[s] EXCEPT !.maxprio = new_q]
           back == [Picked(cpu_proc, p) EXCEPT !.priority = schedproc[s].priority,
                                               !.max_priority = schedproc[s].max_priority]
<1> USE DEF SchedInv
<1>1. UNCHANGED <<part, handler, cursor, pm, badcpu>> /\ handler = "none"
  BY DEF do_nice
<1>2. /\ schedproc[s] \in SchedProc /\ schedproc[s].inuse /\ HeldPriority(schedproc[s].priority)
      /\ new_q \in UInt /\ new_q \in 0 .. NR_SCHED_QUEUES - 1
  BY SchedAssumption DEF do_nice, SchedTypeOK, IsOkEndpoint, EntriesValid, UInt
<1>3. p \in SchedProc /\ p.priority = new_q /\ p.inuse /\ HeldPriority(p.priority)
  BY <1>2 DEF SchedProc, HeldPriority
<1>4. r \in Request /\ r.type = request[s].type /\ r.parent = request[s].parent
  BY <1>2 DEF SchedTypeOK, Request
<1>5. PICK err \in Answers :
        /\ schedule_process_local("nice", kproc, s, p, err)
        /\ schedproc' = [schedproc EXCEPT ![s] = IF err = "OK" THEN Picked(cpu_proc, p) ELSE back]
        /\ request' = IF err = "OK" THEN [request EXCEPT ![s] = r] ELSE request
  BY DEF do_nice
<1> HIDE DEF p, r
<1>6. Picked(cpu_proc, p) \in SchedProc /\ Picked(cpu_proc, p).priority = p.priority
      /\ Picked(cpu_proc, p).inuse
  BY <1>3, PickedType DEF SchedTypeOK
<1>7. back \in SchedProc /\ back.priority = schedproc[s].priority
  BY <1>2, <1>6 DEF SchedProc
<1> HIDE DEF back
<1>8. /\ kproc' \in [Slots -> KProc] /\ refusals' \in 0 .. MaxRefusals
      /\ \A t \in Slots : kproc'[t].priority \in 0 .. NR_SCHED_QUEUES - 1
      /\ cpu_proc' \in [Cpus -> UInt]
  BY <1>3, <1>5, LocalCall DEF SchedTypeOK, KernelPriorityValid
<1>9. schedproc' \in [Slots -> SchedProc] /\ request' \in [Slots -> Request]
  BY <1>4, <1>5, <1>6, <1>7 DEF SchedTypeOK
<1>10. SchedTypeOK' /\ KernelPriorityValid'
  BY <1>1, <1>8, <1>9 DEF SchedTypeOK, KernelPriorityValid
<1>11. EntriesValid'
  BY <1>1, <1>2, <1>3, <1>5, <1>6, <1>7 DEF EntriesValid, HeldPriority, SchedTypeOK
<1>12. LoopAtSlot' /\ ParentsAreUsers'
  BY <1>1, <1>4, <1>5 DEF LoopAtSlot, ParentsAreUsers, SchedTypeOK
<1> QED
  BY <1>10, <1>11, <1>12

\* do_stop_scheduling only takes an entry out of use.
LEMMA StopStep ==
  ASSUME SchedInv, NEW s \in Slots, do_stop_scheduling(s)
  PROVE  SchedInv'
<1> DEFINE p == [schedproc[s] EXCEPT !.inuse = FALSE]
<1> USE DEF SchedInv
<1>1. /\ UNCHANGED <<part, handler, cursor, kproc, request, refusals, badcpu>>
      /\ handler = "none" /\ pm' = [pm EXCEPT ![s] = "stopped"]
  BY DEF do_stop_scheduling
<1>2. p \in SchedProc /\ ~p.inuse
  BY DEF SchedTypeOK, SchedProc
<1>3. schedproc' = schedproc \/ schedproc' = [schedproc EXCEPT ![s] = p]
  BY DEF do_stop_scheduling
<1>4. cpu_proc' \in [Cpus -> UInt]
  <2>1. schedproc[s].cpu \in Cpus /\ cpu_proc \in [Cpus -> UInt]
    BY DEF SchedTypeOK, SchedProc
  <2>2. (cpu_proc[schedproc[s].cpu] - 1) % (UINT_MAX + 1) \in UInt
    BY <2>1, UIntArithmetic
  <2> QED
    BY <2>1, <2>2 DEF do_stop_scheduling
<1> HIDE DEF p
<1>5. SchedTypeOK' /\ KernelPriorityValid'
  BY <1>1, <1>2, <1>3, <1>4 DEF SchedTypeOK, KernelPriorityValid, PMStates
<1>6. EntriesValid' /\ LoopAtSlot' /\ ParentsAreUsers'
  BY <1>1, <1>2, <1>3 DEF EntriesValid, HeldPriority, LoopAtSlot, ParentsAreUsers, SchedTypeOK
<1> QED
  BY <1>5, <1>6

\* The entry a process starts with: its priority is the maxprio that has been
\* checked, or what its parent's entry holds.
LEMMA StartEntryType ==
  ASSUME SchedInv, NEW s \in Slots
  PROVE  /\ Populated(s) \in SchedProc /\ Populated(s).inuse = schedproc[s].inuse
         /\ request[s].maxprio < NR_SCHED_QUEUES /\ (request[s].type = "INHERIT" => IsOkParent(s))
            => /\ StartEntry(s) \in SchedProc /\ StartEntry(s).inuse = schedproc[s].inuse
               /\ HeldPriority(StartEntry(s).priority)
<1> USE DEF SchedInv
<1>1. /\ schedproc[s] \in SchedProc /\ kproc[s] \in KProc /\ request[s] \in Request
  BY DEF SchedTypeOK
<1>2. /\ Populated(s) \in SchedProc /\ Populated(s).inuse = schedproc[s].inuse
      /\ Populated(s).max_priority = request[s].maxprio /\ Populated(s).parent = request[s].parent
  BY <1>1 DEF Populated, SchedProc, KProc, Request
<1>3. ASSUME request[s].maxprio < NR_SCHED_QUEUES, request[s].type = "INHERIT" => IsOkParent(s)
      PROVE  /\ StartEntry(s) \in SchedProc /\ StartEntry(s).inuse = schedproc[s].inuse
             /\ HeldPriority(StartEntry(s).priority)
  <2>1. CASE request[s].type = "START"
    <3>1. request[s].maxprio \in 0 .. NR_SCHED_QUEUES - 1 /\ BSP \in Cpus
      BY <1>1, <1>3, SchedAssumption DEF Request, UInt, BSP, Cpus
    <3>2. {SERVICE_TIME_SLICE, DEFAULT_USER_TIME_SLICE} \subseteq Quanta
      BY DEF Quanta
    <3>3. StartEntry(s) = [Populated(s) EXCEPT
            !.priority = Populated(s).max_priority,
            !.time_slice = IF Populated(s).parent = RS THEN SERVICE_TIME_SLICE
                           ELSE DEFAULT_USER_TIME_SLICE,
            !.cpu = IF Populated(s).parent = s THEN BSP ELSE Populated(s).cpu]
      BY <2>1, <1>2 DEF StartEntry, SchedProc
    <3> QED
      BY <1>2, <3>1, <3>2, <3>3 DEF SchedProc, HeldPriority
  <2>2. CASE request[s].type = "INHERIT"
    <3>1. request[s].parent \in Slots /\ schedproc[request[s].parent].inuse
      BY <1>3, <2>2 DEF ParentsAreUsers, IsOkParent
    <3>2. schedproc[request[s].parent] \in SchedProc
          /\ HeldPriority(schedproc[request[s].parent].priority)
      BY <3>1 DEF SchedTypeOK, EntriesValid
    <3>3. StartEntry(s) = [Populated(s) EXCEPT
            !.priority = schedproc[request[s].parent].priority,
            !.time_slice = schedproc[request[s].parent].time_slice]
      BY <1>2, <2>2 DEF StartEntry
    <3> QED
      BY <1>2, <3>2, <3>3 DEF SchedProc
  <2> QED
    BY <1>1, <2>1, <2>2 DEF Request
<1> QED
  BY <1>2, <1>3

\* do_start_scheduling populates the slot, and enters its loop with the slot in use.
LEMMA StartStep ==
  ASSUME SchedInv, NEW s \in Slots, do_start_scheduling(s)
  PROVE  SchedInv'
<1> USE DEF SchedInv
<1>1. UNCHANGED <<part, request, badcpu>> /\ handler = "none" /\ UNCHANGED ParentsAreUsers
  BY DEF do_start_scheduling, ParentsAreUsers
<1>2. CASE schedproc[s].inuse
  <2>1. pm' = [pm EXCEPT ![s] = "failed"]
        /\ UNCHANGED <<schedproc, cpu_proc, handler, cursor, kproc, refusals>>
    BY <1>2 DEF do_start_scheduling
  <2> QED
    BY <1>1, <2>1 DEF SchedTypeOK, KernelPriorityValid, EntriesValid, HeldPriority, LoopAtSlot, PMStates
<1>3. ASSUME NEW p \in SchedProc, ~p.inuse, refusals' \in 0 .. MaxRefusals,
             schedproc' = [schedproc EXCEPT ![s] = p], pm' = [pm EXCEPT ![s] = "failed"],
             UNCHANGED <<cpu_proc, handler, cursor, kproc>>
      PROVE  SchedInv'
  <2>1. SchedTypeOK' /\ KernelPriorityValid' /\ LoopAtSlot'
    BY <1>1, <1>3 DEF SchedTypeOK, KernelPriorityValid, LoopAtSlot, PMStates
  <2>2. EntriesValid'
    BY <1>1, <1>3 DEF EntriesValid, HeldPriority, SchedTypeOK
  <2> QED
    BY <1>1, <2>1, <2>2
<1>4. CASE /\ ~schedproc[s].inuse
           /\ schedproc' = [schedproc EXCEPT ![s] = Populated(s)]
           /\ pm' = [pm EXCEPT ![s] = "failed"]
           /\ UNCHANGED <<cpu_proc, handler, cursor, kproc, refusals>>
  BY <1>3, <1>4, StartEntryType DEF SchedTypeOK
<1>5. ASSUME ~schedproc[s].inuse, request[s].maxprio < NR_SCHED_QUEUES,
             request[s].type = "INHERIT" => IsOkParent(s)
      PROVE  /\ StartEntry(s) \in SchedProc /\ ~StartEntry(s).inuse
             /\ HeldPriority(StartEntry(s).priority)
  BY <1>5, StartEntryType
<1>6. CASE /\ ~schedproc[s].inuse /\ request[s].maxprio < NR_SCHED_QUEUES
           /\ request[s].type = "INHERIT" => IsOkParent(s)
           /\ refusals < MaxRefusals /\ refusals' = refusals + 1
           /\ schedproc' = [schedproc EXCEPT ![s] = StartEntry(s)]
           /\ pm' = [pm EXCEPT ![s] = "failed"]
           /\ UNCHANGED <<cpu_proc, handler, cursor, kproc>>
  <2>1. refusals' \in 0 .. MaxRefusals
    BY <1>6, SchedAssumption DEF SchedTypeOK
  <2> QED
    BY <1>3, <1>5, <1>6, <2>1
<1>7. CASE /\ ~schedproc[s].inuse /\ request[s].maxprio < NR_SCHED_QUEUES
           /\ request[s].type = "INHERIT" => IsOkParent(s)
           /\ kproc' = [kproc EXCEPT ![s].scheduled = TRUE]
           /\ schedproc' = [schedproc EXCEPT
                ![s] = Picked(cpu_proc, [StartEntry(s) EXCEPT !.inuse = TRUE])]
           /\ cpu_proc' = Counted(cpu_proc, [StartEntry(s) EXCEPT !.inuse = TRUE])
           /\ handler' = "start" /\ cursor' = s
           /\ UNCHANGED <<pm, refusals>>
  <2> DEFINE p == [StartEntry(s) EXCEPT !.inuse = TRUE]
             k == [kproc[s] EXCEPT !.scheduled = TRUE]
  <2>1. p \in SchedProc /\ p.inuse /\ HeldPriority(p.priority)
    BY <1>5, <1>7 DEF SchedProc
  <2>2. k \in KProc /\ k.priority = kproc[s].priority /\ kproc' = [kproc EXCEPT ![s] = k]
    BY <1>7 DEF SchedTypeOK, KProc
  <2>3. schedproc' = [schedproc EXCEPT ![s] = Picked(cpu_proc, p)] /\ cpu_proc' = Counted(cpu_proc, p)
    BY <1>7
  <2> HIDE DEF p, k
  <2>4. /\ Picked(cpu_proc, p) \in SchedProc /\ Picked(cpu_proc, p).inuse
        /\ Picked(cpu_proc, p).priority = p.priority /\ Counted(cpu_proc, p) \in [Cpus -> UInt]
    BY <2>1, PickedType DEF SchedTypeOK
  <2>5. s \in 0 .. NR_PROCS
    BY SchedAssumption DEF Slots
  <2>6. SchedTypeOK'
    <3>1. schedproc' \in [Slots -> SchedProc] /\ cpu_proc' \in [Cpus -> UInt]
      BY <2>3, <2>4 DEF SchedTypeOK
    <3>2. kproc' \in [Slots -> KProc]
      BY <2>2 DEF SchedTypeOK
    <3>3. handler' = "start" /\ cursor' \in 0 .. NR_PROCS /\ UNCHANGED <<pm, refusals>>
      BY <1>7, <2>5
    <3> QED
      BY <1>1, <3>1, <3>2, <3>3 DEF SchedTypeOK
  <2>7. KernelPriorityValid' /\ LoopAtSlot'
    BY <1>7, <2>2, <2>3, <2>4 DEF SchedTypeOK, KernelPriorityValid, LoopAtSlot
  <2>8. EntriesValid'
    BY <1>1, <2>1, <2>3, <2>4 DEF EntriesValid, HeldPriority, SchedTypeOK
  <2> QED
    BY <1>1, <2>6, <2>7, <2>8
<1> QED
  <2>1. ~schedproc[s].inuse =>
          \/ /\ schedproc' = [schedproc EXCEPT ![s] = Populated(s)]
             /\ pm' = [pm EXCEPT ![s] = "failed"]
             /\ UNCHANGED <<cpu_proc, handler, cursor, kproc, refusals>>
          \/ /\ request[s].maxprio < NR_SCHED_QUEUES
             /\ request[s].type = "INHERIT" => IsOkParent(s)
             /\ \/ /\ refusals < MaxRefusals /\ refusals' = refusals + 1
                   /\ schedproc' = [schedproc EXCEPT ![s] = StartEntry(s)]
                   /\ pm' = [pm EXCEPT ![s] = "failed"]
                   /\ UNCHANGED <<cpu_proc, handler, cursor, kproc>>
                \/ /\ kproc' = [kproc EXCEPT ![s].scheduled = TRUE]
                   /\ schedproc' = [schedproc EXCEPT
                        ![s] = Picked(cpu_proc, [StartEntry(s) EXCEPT !.inuse = TRUE])]
                   /\ cpu_proc' = Counted(cpu_proc, [StartEntry(s) EXCEPT !.inuse = TRUE])
                   /\ handler' = "start" /\ cursor' = s
                   /\ UNCHANGED <<pm, refusals>>
    BY DEF do_start_scheduling
  <2> QED
    BY <1>2, <1>4, <1>6, <1>7, <2>1

\* A turn of its loop: the processor may change, the priority does not.
LEMMA StartTurnStep == SchedInv /\ StartTurn => SchedInv'
<1> SUFFICES ASSUME SchedInv, StartTurn PROVE SchedInv'
  OBVIOUS
<1> USE DEF SchedInv
<1> DEFINE s    == cursor
           p    == Picked(cpu_proc, schedproc[s])
           load == Counted(cpu_proc, schedproc[s])
           left == [load EXCEPT ![p.cpu] = CPU_DEAD]
<1>1. UNCHANGED <<part, cursor, request>> /\ handler = "start"
  BY DEF StartTurn
<1>2. s \in Slots /\ schedproc[s] \in SchedProc /\ schedproc[s].inuse
      /\ HeldPriority(schedproc[s].priority)
  BY <1>1 DEF LoopAtSlot, SchedTypeOK, EntriesValid
<1>3. p \in SchedProc /\ p.inuse /\ p.priority = schedproc[s].priority /\ load \in [Cpus -> UInt]
  BY <1>2, PickedType DEF SchedTypeOK
<1>4. p.cpu \in Cpus /\ left \in [Cpus -> UInt]
  <2> HIDE DEF p, load
  <2> QED
    BY <1>3, SchedAssumption DEF SchedProc, CPU_DEAD, UInt
<1>5. PICK err \in Answers :
        /\ sys_schedule("start", kproc, s, p, p.cpu, err)
        /\ \/ /\ badcpu' = [badcpu EXCEPT ![p.cpu] = IF @ < 2 THEN @ + 1 ELSE @]
              /\ cpu_proc' = Counted(left, p)
              /\ schedproc' = [schedproc EXCEPT ![s] = Picked(left, p)]
              /\ UNCHANGED <<handler, pm>>
           \/ /\ cpu_proc' = load
              /\ schedproc' = [schedproc EXCEPT ![s] = p]
              /\ handler' = "none"
              /\ pm' = [pm EXCEPT ![s] = IF err = "OK" THEN "running" ELSE "failed"]
              /\ UNCHANGED badcpu
  BY DEF StartTurn
<1> HIDE DEF p, load, left
<1>6. /\ kproc' \in [Slots -> KProc] /\ refusals' \in 0 .. MaxRefusals
      /\ \A t \in Slots : kproc'[t].priority \in 0 .. NR_SCHED_QUEUES - 1
  BY <1>2, <1>3, <1>4, <1>5, KernelCall DEF SchedTypeOK, KernelPriorityValid
<1>7. /\ Picked(left, p) \in SchedProc /\ Picked(left, p).inuse
      /\ Picked(left, p).priority = p.priority /\ Counted(left, p) \in [Cpus -> UInt]
  BY <1>3, <1>4, PickedType
<1>8. badcpu' \in [Cpus -> Nat]
  BY <1>4, <1>5 DEF SchedTypeOK
<1>9. /\ cpu_proc' \in [Cpus -> UInt] /\ pm' \in [Slots -> PMStates]
      /\ handler' \in {"none", "start", "balance"} /\ handler' # "balance"
  BY <1>1, <1>3, <1>5, <1>7 DEF SchedTypeOK, PMStates
<1>10. \E e \in SchedProc : /\ e.inuse /\ e.priority = schedproc[s].priority
                            /\ schedproc' = [schedproc EXCEPT ![s] = e]
  BY <1>3, <1>5, <1>7
<1>11. SchedTypeOK' /\ KernelPriorityValid'
  BY <1>1, <1>6, <1>8, <1>9, <1>10 DEF SchedTypeOK, KernelPriorityValid
<1>12. EntriesValid' /\ LoopAtSlot' /\ ParentsAreUsers'
  BY <1>1, <1>2, <1>9, <1>10 DEF EntriesValid, HeldPriority, LoopAtSlot, ParentsAreUsers, SchedTypeOK
<1> QED
  BY <1>11, <1>12

\* A process that has been bumped down is pulled up to a queue that exists.
LEMMA BalanceStep == SchedInv /\ (BalanceBegin \/ BalanceTurn) => SchedInv'
<1> SUFFICES ASSUME SchedInv, BalanceBegin \/ BalanceTurn PROVE SchedInv'
  OBVIOUS
<1> USE DEF SchedInv
<1>1. CASE BalanceBegin
  <2>1. 0 \in Slots /\ 0 \in 0 .. NR_PROCS
    BY SchedAssumption DEF Slots
  <2> QED
    BY <1>1, <2>1 DEF BalanceBegin, SchedTypeOK, KernelPriorityValid, EntriesValid, HeldPriority,
                      LoopAtSlot, ParentsAreUsers
<1>2. CASE BalanceTurn
  <2> DEFINE p == [schedproc[cursor] EXCEPT !.priority = BalancePriority(@)]
  <2>1. /\ UNCHANGED <<part, pm, request, badcpu>> /\ cursor' = cursor + 1
        /\ handler' = IF cursor + 1 = NR_PROCS THEN "none" ELSE "balance"
        /\ handler = "balance"
    BY <1>2 DEF BalanceTurn
  <2>2. cursor \in Slots /\ cursor' \in 0 .. NR_PROCS /\ LoopAtSlot' /\ ParentsAreUsers'
    BY <2>1, SchedAssumption DEF LoopAtSlot, Slots, ParentsAreUsers
  <2>3. CASE BumpedDown(cursor)
    <3>1. /\ schedproc[cursor] \in SchedProc /\ schedproc[cursor].inuse
          /\ HeldPriority(schedproc[cursor].priority)
          /\ schedproc[cursor].priority > schedproc[cursor].max_priority
      BY <2>2, <2>3 DEF BumpedDown, SchedTypeOK, EntriesValid
    <3>2. BalancePriority(schedproc[cursor].priority) \in UInt
          /\ HeldPriority(BalancePriority(schedproc[cursor].priority))
      BY <3>1, SchedAssumption DEF BalancePriority, HeldPriority, SchedProc, UInt
    <3>3. p \in SchedProc /\ p.inuse /\ HeldPriority(p.priority)
      BY <3>1, <3>2 DEF SchedProc
    <3>4. (\E err \in Answers : schedule_process_local("balance", kproc, cursor, p, err))
          /\ schedproc' = [schedproc EXCEPT ![cursor] = Picked(cpu_proc, p)]
      BY <1>2, <2>3 DEF BalanceTurn
    <3> HIDE DEF p
    <3>5. /\ kproc' \in [Slots -> KProc] /\ refusals' \in 0 .. MaxRefusals
          /\ \A t \in Slots : kproc'[t].priority \in 0 .. NR_SCHED_QUEUES - 1
          /\ cpu_proc' \in [Cpus -> UInt]
      BY <2>2, <3>3, <3>4, LocalCall DEF SchedTypeOK, KernelPriorityValid
    <3>6. Picked(cpu_proc, p) \in SchedProc /\ Picked(cpu_proc, p).priority = p.priority
      BY <3>3, PickedType DEF SchedTypeOK
    <3>7. SchedTypeOK' /\ KernelPriorityValid'
      BY <2>1, <2>2, <3>4, <3>5, <3>6 DEF SchedTypeOK, KernelPriorityValid
    <3>8. EntriesValid'
      BY <2>1, <2>2, <3>3, <3>4, <3>6 DEF EntriesValid, HeldPriority, SchedTypeOK
    <3> QED
      BY <2>2, <3>7, <3>8
  <2>4. CASE ~BumpedDown(cursor)
    <3>1. UNCHANGED <<schedproc, cpu_proc, kproc, refusals>>
      BY <1>2, <2>4 DEF BalanceTurn
    <3> QED
      BY <2>1, <2>2, <3>1 DEF SchedTypeOK, KernelPriorityValid, EntriesValid, HeldPriority
  <2> QED
    BY <2>3, <2>4
<1> QED
  BY <1>1, <1>2

LEMMA SchedInvStep == SchedInv /\ [SchedNext]_schedVars => SchedInv'
<1> SUFFICES ASSUME SchedInv, [SchedNext]_schedVars PROVE SchedInv'
  OBVIOUS
<1>1. CASE UNCHANGED schedVars
  BY <1>1 DEF schedVars, SchedInv, SchedTypeOK, KernelPriorityValid, EntriesValid, HeldPriority,
              LoopAtSlot, ParentsAreUsers
<1>2. ASSUME NEW s \in Slots,
             \/ QuantumExpires(s) \/ Clear(s) \/ SpawnService(s)
             \/ \E c \in Slots : Fork(s, c)
             \/ do_noquantum(s) \/ do_start_scheduling(s) \/ do_stop_scheduling(s)
             \/ \E q \in NiceQueues : do_nice(s, q)
      PROVE  SchedInv'
  BY <1>2, EnvironmentStep, NoquantumStep, StartStep, StopStep, NiceStep
<1>3. CASE StartTurn \/ BalanceBegin \/ BalanceTurn
  BY <1>3, StartTurnStep, BalanceStep
<1> QED
  BY <1>1, <1>2, <1>3 DEF SchedNext

LEMMA SchedInvariant == SchedSpec => []SchedInv
BY SchedInvInit, SchedInvStep, PTL DEF SchedSpec

\* SCHED's table, its load counters and the kernel's table keep their types; in
\* particular no processor outside the machine is ever recorded.
THEOREM SchedTypeCorrect == SchedSpec => []SchedTypeOK
<1>1. SchedInv => SchedTypeOK
  BY DEF SchedInv
<1> QED
  BY <1>1, SchedInvariant, PTL

\* The kernel never holds a process in a run queue that does not exist, although
\* its own check in sched_proc admits one.
THEOREM SchedQueuesExist == SchedSpec => []KernelPriorityValid
<1>1. SchedInv => KernelPriorityValid
  BY DEF SchedInv
<1> QED
  BY <1>1, SchedInvariant, PTL

-----------------------------------------------------------------------------
\* pick_cpu changes the processor of an entry only.
LEMMA PickedKeeps ==
  ASSUME NEW load, NEW p \in SchedProc
  PROVE  /\ Picked(load, p).gen = p.gen /\ Picked(load, p).parent = p.parent
         /\ Picked(load, p).max_priority = p.max_priority
         /\ Picked(load, p).time_slice = p.time_slice
         /\ Picked(load, p).priority = p.priority /\ Picked(load, p).inuse = p.inuse
BY DEF Picked, SchedProc

-----------------------------------------------------------------------------
\* PriorityWithinBounds of the entry e of slot s.
Bounded(e, s) ==
  e.inuse => /\ e.priority <= MIN_USER_Q
             /\ e.parent \in {s, RS} => e.max_priority <= e.priority

\* A step that leaves every entry alone but one.
LEMMA BoundedEntry ==
  ASSUME SchedTypeOK, PriorityWithinBounds, UNCHANGED part, NEW s \in Slots, NEW e \in SchedProc,
         schedproc' = [schedproc EXCEPT ![s] = e], part = 1 => Bounded(e, s)
  PROVE  PriorityWithinBounds'
BY DEF SchedTypeOK, PriorityWithinBounds, Bounded

\* do_noquantum and balance_queues change the priority only, within its bounds.
LEMMA BoundedChange ==
  ASSUME SchedInv, PriorityWithinBounds, UNCHANGED part, NEW s \in Slots, NEW q \in UInt,
         schedproc[s].inuse, HeldPriority(q),
         part = 1 => \/ q >= schedproc[s].priority
                     \/ /\ schedproc[s].priority > schedproc[s].max_priority
                        /\ q = schedproc[s].priority - 1,
         schedproc' = [schedproc EXCEPT ![s] =
                         Picked(cpu_proc, [schedproc[s] EXCEPT !.priority = q])]
  PROVE  PriorityWithinBounds'
<1> DEFINE p == [schedproc[s] EXCEPT !.priority = q]
<1>1. schedproc[s] \in SchedProc /\ cpu_proc \in [Cpus -> UInt] /\ SchedTypeOK
  BY DEF SchedInv, SchedTypeOK
<1>2. /\ p \in SchedProc /\ p.priority = q /\ p.inuse /\ p.parent = schedproc[s].parent
      /\ p.max_priority = schedproc[s].max_priority
  BY <1>1 DEF SchedProc
<1> HIDE DEF p
<1>3. Picked(cpu_proc, p) \in SchedProc
  BY <1>1, <1>2, PickedType
<1>4. part = 1 => Bounded(p, s)
  <2>1. schedproc[s].priority \in Nat /\ schedproc[s].max_priority \in Nat /\ q \in Nat
    BY <1>1 DEF SchedProc, UInt
  <2> QED
    BY <1>2, <2>1 DEF Bounded, PriorityWithinBounds, HeldPriority, MIN_USER_Q
<1>5. part = 1 => Bounded(Picked(cpu_proc, p), s)
  BY <1>2, <1>4, PickedKeeps DEF Bounded
<1>6. schedproc' = [schedproc EXCEPT ![s] = Picked(cpu_proc, p)]
  BY DEF p
<1> QED
  BY <1>1, <1>3, <1>5, <1>6, BoundedEntry

LEMMA BoundedInit == SchedInit => PriorityWithinBounds
BY DEF SchedInit, PriorityWithinBounds

LEMMA BoundedStep ==
  SchedInv /\ PriorityWithinBounds /\ [SchedNext]_schedVars => PriorityWithinBounds'
<1> SUFFICES ASSUME SchedInv, PriorityWithinBounds, [SchedNext]_schedVars
             PROVE  PriorityWithinBounds'
  OBVIOUS
<1>0. SchedTypeOK /\ LoopAtSlot /\ EntriesValid
  BY DEF SchedInv
<1>1. CASE UNCHANGED <<part, schedproc>>
  BY <1>1 DEF PriorityWithinBounds
<1>2. ASSUME NEW s \in Slots, do_noquantum(s) PROVE PriorityWithinBounds'
  <2>1. CASE IsOkEndpoint(s)
    <3> DEFINE q == NoquantumPriority(schedproc[s].priority)
    <3>1. /\ schedproc[s] \in SchedProc /\ schedproc[s].inuse
          /\ HeldPriority(schedproc[s].priority) /\ schedproc[s].priority \in UInt
          /\ part \in {1, 2}
      BY <1>0, <2>1 DEF SchedTypeOK, IsOkEndpoint, EntriesValid, SchedProc
    <3>2. q \in UInt /\ HeldPriority(q)
      BY <3>1, NoquantumHeld
    <3>3. part = 1 => q >= schedproc[s].priority
      BY <3>1 DEF NoquantumPriority, NoquantumPriority1, UInt
    <3>4. UNCHANGED part /\ schedproc' = [schedproc EXCEPT ![s] =
                         Picked(cpu_proc, [schedproc[s] EXCEPT !.priority = q])]
      BY <1>2, <2>1 DEF do_noquantum
    <3> HIDE DEF q
    <3>5. part = 1 => \/ q >= schedproc[s].priority
                      \/ /\ schedproc[s].priority > schedproc[s].max_priority
                         /\ q = schedproc[s].priority - 1
      BY <3>3
    <3> QED
      BY <3>1, <3>2, <3>4, <3>5, BoundedChange
  <2>2. CASE ~IsOkEndpoint(s)
    BY <1>1, <1>2, <2>2 DEF do_noquantum
  <2> QED
    BY <2>1, <2>2
<1>3. ASSUME NEW s \in Slots, NEW new_q \in NiceQueues, do_nice(s, new_q)
      PROVE PriorityWithinBounds'
  <2> DEFINE p == [schedproc[s] EXCEPT !.max_priority = new_q, !.priority = new_q]
             back == [Picked(cpu_proc, p) EXCEPT !.priority = schedproc[s].priority,
                                                 !.max_priority = schedproc[s].max_priority]
  <2>1. /\ schedproc[s] \in SchedProc /\ cpu_proc \in [Cpus -> UInt] /\ UNCHANGED part
        /\ new_q \in UInt /\ new_q < NR_SCHED_QUEUES /\ new_q \in Nat
    BY <1>0, <1>3, SchedAssumption DEF SchedTypeOK, do_nice, UInt
  <2>2. /\ p \in SchedProc /\ p.priority = new_q /\ p.max_priority = new_q
        /\ p.parent = schedproc[s].parent /\ p.inuse = schedproc[s].inuse
    BY <2>1 DEF SchedProc
  <2>3. \/ schedproc' = [schedproc EXCEPT ![s] = Picked(cpu_proc, p)]
        \/ schedproc' = [schedproc EXCEPT ![s] = back]
    BY <1>3 DEF do_nice
  <2> HIDE DEF p
  <2>4. Picked(cpu_proc, p) \in SchedProc
    BY <2>1, <2>2, PickedType
  <2>5. Bounded(Picked(cpu_proc, p), s)
    BY <2>1, <2>2, PickedKeeps, SchedAssumption DEF Bounded, MIN_USER_Q
  <2>6. /\ back \in SchedProc /\ back.priority = schedproc[s].priority
        /\ back.max_priority = schedproc[s].max_priority
        /\ back.parent = schedproc[s].parent /\ back.inuse = schedproc[s].inuse
    <3>1. /\ Picked(cpu_proc, p).parent = schedproc[s].parent
          /\ Picked(cpu_proc, p).inuse = schedproc[s].inuse
      BY <2>2, PickedKeeps
    <3> QED
      BY <2>1, <2>4, <3>1 DEF SchedProc
  <2> HIDE DEF back
  <2>7. part = 1 => Bounded(back, s)
    BY <2>6 DEF Bounded, PriorityWithinBounds
  <2> QED
    BY <1>0, <2>1, <2>3, <2>4, <2>5, <2>6, <2>7, BoundedEntry
<1>4. ASSUME NEW s \in Slots, do_stop_scheduling(s) PROVE PriorityWithinBounds'
  <2> DEFINE p == [schedproc[s] EXCEPT !.inuse = FALSE]
  <2>1. p \in SchedProc /\ ~p.inuse
    BY <1>0 DEF SchedTypeOK, SchedProc
  <2>2. UNCHANGED part /\ (schedproc' = [schedproc EXCEPT ![s] = p] \/ UNCHANGED schedproc)
    BY <1>4 DEF do_stop_scheduling
  <2> HIDE DEF p
  <2> QED
    BY <1>0, <1>1, <2>1, <2>2, BoundedEntry DEF Bounded
<1>5. ASSUME NEW s \in Slots, do_start_scheduling(s) PROVE PriorityWithinBounds'
  <2>1. UNCHANGED part /\ schedproc[s] \in SchedProc /\ request[s] \in Request
        /\ kproc[s] \in KProc /\ cpu_proc \in [Cpus -> UInt]
    BY <1>0, <1>5 DEF do_start_scheduling, SchedTypeOK
  <2>2. CASE ~schedproc[s].inuse /\ schedproc' = [schedproc EXCEPT ![s] = Populated(s)]
    BY <1>0, <2>1, <2>2, BoundedEntry, StartEntryType DEF Bounded
  <2>3. CASE /\ ~schedproc[s].inuse /\ request[s].maxprio < NR_SCHED_QUEUES
             /\ request[s].type = "INHERIT" => IsOkParent(s)
    <3> DEFINE p == [StartEntry(s) EXCEPT !.inuse = TRUE]
    <3>1. StartEntry(s) \in SchedProc /\ ~StartEntry(s).inuse /\ HeldPriority(StartEntry(s).priority)
      BY <2>3, StartEntryType
    <3>2. /\ p \in SchedProc /\ p.priority = StartEntry(s).priority /\ p.parent = StartEntry(s).parent
          /\ p.max_priority = StartEntry(s).max_priority
      BY <3>1 DEF SchedProc
    <3>3. part = 1 => p.priority <= MIN_USER_Q
      BY <3>1, <3>2, SchedAssumption DEF HeldPriority, MIN_USER_Q
    <3>4. p.parent \in {s, RS} => p.max_priority <= p.priority
      <4>0. /\ Populated(s).max_priority = request[s].maxprio /\ Populated(s) \in SchedProc
            /\ Populated(s).parent = request[s].parent /\ request[s].maxprio \in Nat
        <5>1. Populated(s) \in SchedProc /\ request[s].maxprio \in Nat
          BY <2>1, StartEntryType DEF Request, UInt
        <5> QED
          BY <2>1, <5>1 DEF Populated, SchedProc
      <4>1. CASE request[s].type = "START"
        <5>1. /\ StartEntry(s).priority = request[s].maxprio
              /\ StartEntry(s).max_priority = request[s].maxprio
          BY <4>0, <4>1 DEF StartEntry, SchedProc
        <5> QED
          BY <3>2, <4>0, <5>1
      <4>2. CASE request[s].type = "INHERIT"
        <5>1. StartEntry(s).parent = request[s].parent
          BY <4>0, <4>2 DEF StartEntry, SchedProc
        <5>2. request[s].parent \in Slots /\ schedproc[request[s].parent].inuse
          BY <2>3, <4>2 DEF SchedInv, ParentsAreUsers, IsOkParent
        <5>3. request[s].parent \notin {s, RS}
          BY <2>3, <5>2, SchedAssumption DEF Slots, RS
        <5> QED
          BY <3>2, <5>1, <5>3
      <4> QED
        BY <2>1, <4>1, <4>2 DEF Request
    <3>5. \/ schedproc' = [schedproc EXCEPT ![s] = Populated(s)]
          \/ schedproc' = [schedproc EXCEPT ![s] = StartEntry(s)]
          \/ schedproc' = [schedproc EXCEPT ![s] = Picked(cpu_proc, p)]
      BY <1>5, <2>3 DEF do_start_scheduling
    <3> HIDE DEF p
    <3>6. Picked(cpu_proc, p) \in SchedProc /\ (part = 1 => Bounded(Picked(cpu_proc, p), s))
      BY <2>1, <3>2, <3>3, <3>4, PickedType, PickedKeeps DEF Bounded
    <3> QED
      BY <1>0, <2>1, <2>2, <2>3, <3>1, <3>5, <3>6, BoundedEntry DEF Bounded
  <2>4. \/ UNCHANGED schedproc
        \/ /\ ~schedproc[s].inuse /\ schedproc' = [schedproc EXCEPT ![s] = Populated(s)]
        \/ /\ ~schedproc[s].inuse /\ request[s].maxprio < NR_SCHED_QUEUES
           /\ request[s].type = "INHERIT" => IsOkParent(s)
    BY <1>5 DEF do_start_scheduling
  <2> QED
    BY <1>1, <2>1, <2>2, <2>3, <2>4
<1>6. CASE StartTurn
  <2> DEFINE s    == cursor
             p    == Picked(cpu_proc, schedproc[s])
             load == Counted(cpu_proc, schedproc[s])
             left == [load EXCEPT ![p.cpu] = CPU_DEAD]
  <2>1. s \in Slots /\ schedproc[s] \in SchedProc /\ UNCHANGED part /\ cpu_proc \in [Cpus -> UInt]
    BY <1>0, <1>6 DEF LoopAtSlot, SchedTypeOK, StartTurn
  <2>2. p \in SchedProc /\ load \in [Cpus -> UInt] /\ (part = 1 => Bounded(p, s))
    BY <2>1, PickedType, PickedKeeps DEF Bounded, PriorityWithinBounds
  <2>3. p.cpu \in Cpus /\ left \in [Cpus -> UInt]
    <3> HIDE DEF p, load
    <3> QED
      BY <2>2, SchedAssumption DEF SchedProc, CPU_DEAD, UInt
  <2>4. \/ schedproc' = [schedproc EXCEPT ![s] = p]
        \/ schedproc' = [schedproc EXCEPT ![s] = Picked(left, p)]
    BY <1>6 DEF StartTurn
  <2> HIDE DEF s, p, load, left
  <2>5. Picked(left, p) \in SchedProc /\ (part = 1 => Bounded(Picked(left, p), s))
    BY <2>2, <2>3, PickedType, PickedKeeps DEF Bounded
  <2> QED
    BY <1>0, <2>1, <2>2, <2>4, <2>5, BoundedEntry
<1>7. CASE BalanceTurn
  <2>1. CASE BumpedDown(cursor)
    <3> DEFINE q == BalancePriority(schedproc[cursor].priority)
    <3>0. cursor \in Slots
      BY <1>0, <1>7 DEF LoopAtSlot, BalanceTurn
    <3>1. /\ schedproc[cursor] \in SchedProc /\ schedproc[cursor].inuse
          /\ HeldPriority(schedproc[cursor].priority)
          /\ schedproc[cursor].priority > schedproc[cursor].max_priority
          /\ schedproc[cursor].priority \in Nat /\ schedproc[cursor].max_priority \in Nat
      BY <1>0, <2>1, <3>0 DEF SchedTypeOK, BumpedDown, EntriesValid, SchedProc, UInt
    <3>2. q \in UInt /\ HeldPriority(q)
      BY <3>1, SchedAssumption DEF BalancePriority, HeldPriority, SchedProc, UInt
    <3>3. part = 1 => q = schedproc[cursor].priority - 1
      BY <3>1 DEF BalancePriority
    <3>4. UNCHANGED part /\ schedproc' = [schedproc EXCEPT ![cursor] =
                         Picked(cpu_proc, [schedproc[cursor] EXCEPT !.priority = q])]
      BY <1>7, <2>1 DEF BalanceTurn
    <3> HIDE DEF q
    <3> QED
      BY <3>0, <3>1, <3>2, <3>3, <3>4, BoundedChange
  <2>2. CASE ~BumpedDown(cursor)
    BY <1>1, <1>7, <2>2 DEF BalanceTurn
  <2> QED
    BY <2>1, <2>2
<1>8. ASSUME NEW s \in Slots, \/ QuantumExpires(s) \/ Clear(s) \/ SpawnService(s)
                              \/ \E c \in Slots : Fork(s, c)
      PROVE PriorityWithinBounds'
  BY <1>1, <1>8 DEF QuantumExpires, Clear, SpawnService, Fork
<1>9. CASE BalanceBegin \/ UNCHANGED schedVars
  BY <1>1, <1>9 DEF BalanceBegin, schedVars
<1> QED
  BY <1>2, <1>3, <1>4, <1>5, <1>6, <1>7, <1>8, <1>9 DEF SchedNext

\* part1: a scheduled process is never in a queue below the last one, nor one
\* that was started explicitly in a better queue than it is entitled to, with
\* any number of processes and queues and whatever calls the kernel refuses.
THEOREM SchedWithinBounds == SchedSpec => []PriorityWithinBounds
BY SchedInvariant, BoundedInit, BoundedStep, PTL DEF SchedSpec

-----------------------------------------------------------------------------
\* RunsAsRecorded of one slot: the entry e, the kernel's record k.
Recorded(e, k) ==
  e.inuse /\ e.gen = k.gen /\ k.alive /\ ~k.noquantum =>
    /\ e.priority = k.priority \/ (part = 2 /\ e.priority = UINT_MAX)
    /\ e.time_slice = k.quantum

\* What makes it inductive.  A process runs only when SCHED is its scheduler; the
\* endpoints SCHED holds are never ahead of the kernel's, and behind it as soon
\* as a process is gone; one that waits for its start has no quantum, and no
\* entry of its own unless the loop of do_start_scheduling is at it.
SlotRuns(e, k, m, started) ==
  /\ Recorded(e, k)
  /\ ~k.noquantum => k.scheduled
  /\ e.gen <= k.gen
  /\ m = "free" /\ e.inuse => e.gen < k.gen
  /\ m = "new" => k.noquantum /\ (e.inuse /\ ~started => e.gen < k.gen)
  /\ started => m = "new"

Started(s) == handler = "start" /\ cursor = s

SlotsRun == \A s \in Slots : SlotRuns(schedproc[s], kproc[s], pm[s], Started(s))

\* A step that changes one slot.
LEMMA SlotStep ==
  ASSUME SlotsRun, UNCHANGED part, NEW s \in Slots,
         \A t \in Slots \ {s} : /\ schedproc'[t] = schedproc[t] /\ kproc'[t] = kproc[t]
                                /\ pm'[t] = pm[t] /\ Started(t)' = Started(t),
         SlotRuns(schedproc[s], kproc[s], pm[s], Started(s))'
  PROVE  SlotsRun'
<1> SUFFICES ASSUME NEW t \in Slots
             PROVE  SlotRuns(schedproc[t], kproc[t], pm[t], Started(t))'
  BY DEF SlotsRun
<1>1. CASE t = s
  BY <1>1
<1>2. CASE t # s
  BY <1>2, Zenon DEF SlotsRun, SlotRuns, Recorded
<1> QED
  BY <1>1, <1>2

\* A kernel call either changes nothing or gives the process its queue and quantum.
LEMMA CallFrame ==
  ASSUME SchedTypeOK, NEW h, NEW err, NEW s \in Slots, NEW p \in SchedProc, NEW cpu,
         NEW k \in [Slots -> KProc], sys_schedule(h, k, s, p, cpu, err)
  PROVE  /\ \A t \in Slots \ {s} : kproc'[t] = k[t]
         /\ \/ err # "OK" /\ kproc' = k
            \/ /\ err = "OK" /\ kproc[s].gen = p.gen /\ kproc[s].scheduled
               /\ kproc'[s].gen = k[s].gen /\ kproc'[s].scheduled = k[s].scheduled
               /\ kproc'[s].priority = p.priority \/ p.priority = UINT_MAX
               /\ kproc'[s].quantum = p.time_slice
<1>1. CASE err = "EPERM" /\ kproc' = k
  BY <1>1
<1>2. CASE /\ err = KernelAnswer(s, p.gen, IF p.priority = UINT_MAX THEN -1 ELSE p.priority,
                                 p.time_slice, cpu)
           /\ kproc' = IF err = "OK"
                       THEN [k EXCEPT ![s] = sched_proc(@,
                               IF p.priority = UINT_MAX THEN -1 ELSE p.priority,
                               p.time_slice, cpu)]
                       ELSE k
  <2>1. CASE err # "OK"
    BY <1>2, <2>1
  <2>2. CASE err = "OK"
    <3> DEFINE q  == IF p.priority = UINT_MAX THEN -1 ELSE p.priority
               kp == sched_proc(k[s], q, p.time_slice, cpu)
    <3>1. kproc' = [k EXCEPT ![s] = kp]
      BY <1>2, <2>2
    <3>2. kproc[s].gen = p.gen /\ kproc[s].scheduled
      BY <1>2, <2>2 DEF KernelAnswer
    <3>3. p.time_slice # -1 /\ (p.priority # UINT_MAX => q = p.priority /\ q # -1)
      BY SchedAssumption DEF SchedProc, Quanta, DEFAULT_USER_TIME_SLICE, SERVICE_TIME_SLICE, UInt
    <3>4. /\ kp.gen = k[s].gen /\ kp.scheduled = k[s].scheduled /\ kp.quantum = p.time_slice
          /\ p.priority # UINT_MAX => kp.priority = p.priority
      <4> HIDE DEF q
      <4>1. k[s] \in KProc
        OBVIOUS
      <4> QED
        BY <3>3, <4>1 DEF sched_proc, KProc
    <3> HIDE DEF kp
    <3> QED
      BY <2>2, <3>1, <3>2, <3>4
  <2> QED
    BY <2>1, <2>2
<1> QED
  BY <1>1, <1>2 DEF sys_schedule

\* A call of do_noquantum or balance_queues, whose answer they ignore, is
\* refused only to a process SCHED does not run.
LEMMA IgnoredAnswer ==
  ASSUME SchedInv, SlotsRun, Refusable \subseteq {"start", "nice"},
         NEW h \in {"noquantum", "balance"}, NEW err, NEW s \in Slots, NEW p \in SchedProc,
         HeldPriority(p.priority), p.gen = kproc[s].gen, kproc[s].alive, ~kproc[s].noquantum,
         NEW k, sys_schedule(h, k, s, p, -1, err)
  PROVE  err = "OK"
<1> DEFINE q == IF p.priority = UINT_MAX THEN -1 ELSE p.priority
<1>1. err = KernelAnswer(s, p.gen, q, p.time_slice, -1)
  BY DEF sys_schedule
<1>2. kproc[s].scheduled
  BY DEF SlotsRun, SlotRuns
<1>3. q \in Int /\ (q < TASK_Q => q = -1) /\ q <= NR_SCHED_QUEUES
  BY SchedAssumption DEF HeldPriority, TASK_Q
<1>4. p.time_slice >= 1
  BY DEF SchedProc, Quanta, DEFAULT_USER_TIME_SLICE, SERVICE_TIME_SLICE
<1>5. p.time_slice \in Int
  BY DEF SchedProc, Quanta, DEFAULT_USER_TIME_SLICE, SERVICE_TIME_SLICE
<1> HIDE DEF q
<1>6. sched_proc_check(q, p.time_slice, -1) = "OK"
  BY <1>3, <1>4, <1>5, SchedAssumption DEF sched_proc_check
<1> QED
  BY <1>1, <1>2, <1>6 DEF KernelAnswer

LEMMA RunsInit == SchedInit => SlotsRun
<1> SUFFICES ASSUME SchedInit, NEW s \in Slots
             PROVE  SlotRuns(schedproc[s], kproc[s], pm[s], Started(s))
  BY DEF SlotsRun
<1>1. /\ schedproc[s].gen = 0 /\ ~schedproc[s].inuse /\ kproc[s].gen = 0 /\ kproc[s].noquantum
      /\ ~Started(s)
  BY DEF SchedInit, Started
<1> QED
  BY <1>1 DEF SlotRuns, Recorded

\* The steps of the environment.
LEMMA RunsEnvironment ==
  ASSUME SchedInv, SlotsRun, NEW s \in Slots,
         QuantumExpires(s) \/ Clear(s) \/ SpawnService(s) \/ \E c \in Slots : Fork(s, c)
  PROVE  SlotsRun'
<1>1. /\ UNCHANGED <<part, schedproc, handler, cursor>> /\ SchedTypeOK
      /\ kproc \in [Slots -> KProc] /\ pm \in [Slots -> PMStates]
      /\ \A t \in Slots : Started(t)' = Started(t)
  BY DEF QuantumExpires, Clear, SpawnService, Fork, SchedInv, SchedTypeOK, Started
<1>2. \A t \in Slots : /\ kproc[t] \in KProc /\ kproc[t].gen \in Nat /\ schedproc[t].gen \in Nat
                       /\ SlotRuns(schedproc[t], kproc[t], pm[t], Started(t))
  BY <1>1 DEF SchedTypeOK, KProc, SchedProc, SlotsRun
\* A process that is made, from a structure x.
<1>3. ASSUME NEW c \in Slots, NEW x \in KProc, pm[c] = "free", x.gen = kproc[c].gen, x.noquantum,
             kproc' = [kproc EXCEPT ![c] = x], pm' = [pm EXCEPT ![c] = "new"]
      PROVE  SlotsRun'
  <2>1. SlotRuns(schedproc[c], x, "new", Started(c))
    BY <1>2, <1>3 DEF SlotRuns, Recorded
  <2>2. SlotRuns(schedproc[c], kproc[c], pm[c], Started(c))'
    BY <1>1, <1>3, <2>1 DEF SlotRuns, Recorded
  <2>3. \A t \in Slots \ {c} : /\ schedproc'[t] = schedproc[t] /\ kproc'[t] = kproc[t]
                               /\ pm'[t] = pm[t] /\ Started(t)' = Started(t)
    BY <1>1, <1>3
  <2> QED
    BY <1>1, <2>2, <2>3, SlotStep
<1>4. CASE QuantumExpires(s)
  <2> DEFINE x == [kproc[s] EXCEPT !.noquantum = TRUE, !.sending = TRUE]
  <2>1. x.gen = kproc[s].gen /\ x.noquantum
    BY <1>2 DEF KProc
  <2>2. kproc' = [kproc EXCEPT ![s] = x] /\ UNCHANGED pm
    BY <1>4 DEF QuantumExpires
  <2> HIDE DEF x
  <2>3. SlotRuns(schedproc[s], kproc[s], pm[s], Started(s))'
    BY <1>1, <1>2, <2>1, <2>2 DEF SlotRuns, Recorded
  <2>4. \A t \in Slots \ {s} : /\ schedproc'[t] = schedproc[t] /\ kproc'[t] = kproc[t]
                               /\ pm'[t] = pm[t] /\ Started(t)' = Started(t)
    BY <1>1, <2>2
  <2> QED
    BY <1>1, <2>3, <2>4, SlotStep
<1>5. CASE Clear(s)
  <2> DEFINE x == [kproc[s] EXCEPT !.alive = FALSE, !.gen = @ + 1, !.sending = FALSE]
  <2>1. /\ x.gen = kproc[s].gen + 1 /\ ~x.alive /\ x.noquantum = kproc[s].noquantum
        /\ x.scheduled = kproc[s].scheduled
    BY <1>2 DEF KProc
  <2>2. /\ kproc' = [kproc EXCEPT ![s] = x] /\ pm' = [pm EXCEPT ![s] = "free"]
        /\ pm[s] # "new"
    BY <1>5 DEF Clear
  <2> HIDE DEF x
  <2>3. SlotRuns(schedproc[s], x, "free", Started(s))
    BY <1>2, <2>1, <2>2 DEF SlotRuns, Recorded
  <2>4. SlotRuns(schedproc[s], kproc[s], pm[s], Started(s))'
    BY <1>1, <2>2, <2>3 DEF SlotRuns, Recorded
  <2>5. \A t \in Slots \ {s} : /\ schedproc'[t] = schedproc[t] /\ kproc'[t] = kproc[t]
                               /\ pm'[t] = pm[t] /\ Started(t)' = Started(t)
    BY <1>1, <2>2
  <2> QED
    BY <1>1, <2>4, <2>5, SlotStep
<1>6. CASE SpawnService(s)
  <2> DEFINE x == [kproc[s] EXCEPT !.alive = TRUE, !.scheduled = FALSE, !.noquantum = TRUE,
                                   !.sending = FALSE, !.priority = USER_Q]
  <2>0. USER_Q \in 0 .. NR_SCHED_QUEUES
    BY SchedAssumption
  <2>1. x \in KProc /\ x.gen = kproc[s].gen /\ x.noquantum
    BY <1>2, <2>0 DEF KProc
  <2>2. /\ pm[s] = "free" /\ kproc' = [kproc EXCEPT ![s] = x] /\ pm' = [pm EXCEPT ![s] = "new"]
    BY <1>6 DEF SpawnService
  <2> HIDE DEF x
  <2> QED
    BY <1>3, <2>1, <2>2
<1>7. ASSUME NEW c \in Slots, Fork(s, c) PROVE SlotsRun'
  <2> DEFINE x == [kproc[s] EXCEPT !.gen = kproc[c].gen, !.noquantum = TRUE, !.sending = FALSE]
  <2>1. x \in KProc /\ x.gen = kproc[c].gen /\ x.noquantum
    BY <1>2 DEF KProc
  <2>2. /\ pm[c] = "free" /\ kproc' = [kproc EXCEPT ![c] = x] /\ pm' = [pm EXCEPT ![c] = "new"]
    BY <1>7 DEF Fork
  <2> HIDE DEF x
  <2> QED
    BY <1>3, <2>1, <2>2
<1> QED
  BY <1>4, <1>5, <1>6, <1>7

\* A change of priority by do_noquantum or balance_queues.
LEMMA RunsChange ==
  ASSUME SchedInv, SlotsRun, Refusable \subseteq {"start", "nice"}, UNCHANGED <<part, pm>>,
         NEW h \in {"noquantum", "balance"}, NEW err, NEW s \in Slots, NEW p \in SchedProc,
         handler # "start", handler' # "start",
         schedproc[s].inuse, HeldPriority(p.priority), p.gen = schedproc[s].gen, p.inuse,
         NEW k \in [Slots -> KProc], \A t \in Slots \ {s} : k[t] = kproc[t],
         /\ k[s].gen = kproc[s].gen /\ k[s].scheduled = kproc[s].scheduled
         /\ k[s].alive = kproc[s].alive /\ k[s].noquantum = kproc[s].noquantum,
         sys_schedule(h, k, s, p, -1, err),
         schedproc' = [schedproc EXCEPT ![s] = Picked(cpu_proc, p)]
  PROVE  SlotsRun'
<1> DEFINE e == Picked(cpu_proc, p)
<1>1. SchedTypeOK /\ kproc[s] \in KProc /\ schedproc[s] \in SchedProc
      /\ kproc[s].gen \in Nat /\ schedproc[s].gen \in Nat
  BY DEF SchedInv, SchedTypeOK, KProc, SchedProc
<1>2. /\ e.gen = p.gen /\ e.inuse /\ e.priority = p.priority /\ e.time_slice = p.time_slice
  BY PickedKeeps
<1>3. schedproc' = [schedproc EXCEPT ![s] = e]
  OBVIOUS
<1> HIDE DEF e
<1>4. schedproc'[s] = e /\ \A t \in Slots \ {s} : schedproc'[t] = schedproc[t]
  BY <1>1, <1>3 DEF SchedTypeOK
<1>5. \A t \in Slots \ {s} : kproc'[t] = kproc[t]
  BY <1>1, CallFrame
<1>6. \A t \in Slots : Started(t)' = FALSE /\ Started(t) = FALSE
  BY DEF Started
<1>7. SlotRuns(schedproc[s], kproc[s], pm[s], FALSE)
  BY <1>6 DEF SlotsRun
<1>8. SlotRuns(e, kproc'[s], pm[s], FALSE)
  <2>1. CASE err = "OK"
    <3>1. /\ kproc[s].gen = p.gen /\ kproc[s].scheduled
          /\ kproc'[s].gen = kproc[s].gen /\ kproc'[s].scheduled
          /\ kproc'[s].priority = p.priority \/ p.priority = UINT_MAX
          /\ kproc'[s].quantum = p.time_slice
      BY <1>1, <2>1, CallFrame
    <3>2. p.priority = UINT_MAX => part = 2
      BY SchedAssumption DEF HeldPriority
    <3> QED
      BY <1>1, <1>2, <1>7, <3>1, <3>2 DEF SlotRuns, Recorded
  <2>2. CASE err # "OK"
    <3>1. kproc' = k
      BY <1>1, <2>2, CallFrame
    <3>2. ~(p.gen = kproc[s].gen /\ kproc[s].alive /\ ~kproc[s].noquantum)
      BY <2>2, IgnoredAnswer
    <3> QED
      BY <1>1, <1>2, <1>7, <3>1, <3>2 DEF SlotRuns, Recorded
  <2> QED
    BY <2>1, <2>2
<1>9. SlotRuns(schedproc[s], kproc[s], pm[s], Started(s))'
  BY <1>4, <1>6, <1>8 DEF SlotRuns, Recorded
<1>10. \A t \in Slots \ {s} : /\ schedproc'[t] = schedproc[t] /\ kproc'[t] = kproc[t]
                              /\ pm'[t] = pm[t] /\ Started(t)' = Started(t)
  BY <1>4, <1>5, <1>6
<1> QED
  BY <1>9, <1>10, SlotStep

LEMMA RunsNoquantum ==
  ASSUME SchedInv, SlotsRun, Refusable \subseteq {"start", "nice"},
         NEW s \in Slots, do_noquantum(s)
  PROVE  SlotsRun'
<1> DEFINE k == [kproc EXCEPT ![s].sending = FALSE]
           p == [schedproc[s] EXCEPT !.priority = NoquantumPriority(@)]
<1>1. /\ UNCHANGED <<part, pm, handler, cursor>> /\ handler = "none"
      /\ SchedTypeOK /\ kproc[s] \in KProc /\ schedproc[s] \in SchedProc
  BY DEF do_noquantum, SchedInv, SchedTypeOK
<1>2. /\ k \in [Slots -> KProc] /\ \A t \in Slots \ {s} : k[t] = kproc[t]
      /\ k[s].gen = kproc[s].gen /\ k[s].scheduled = kproc[s].scheduled
      /\ k[s].alive = kproc[s].alive /\ k[s].noquantum = kproc[s].noquantum
      /\ k[s].priority = kproc[s].priority /\ k[s].quantum = kproc[s].quantum
  <2> DEFINE x == [kproc[s] EXCEPT !.sending = FALSE]
  <2>1. /\ x \in KProc /\ x.gen = kproc[s].gen /\ x.scheduled = kproc[s].scheduled
        /\ x.alive = kproc[s].alive /\ x.noquantum = kproc[s].noquantum
        /\ x.priority = kproc[s].priority /\ x.quantum = kproc[s].quantum
    BY <1>1 DEF KProc
  <2>2. k = [kproc EXCEPT ![s] = x] /\ kproc \in [Slots -> KProc]
    BY <1>1 DEF SchedTypeOK
  <2> HIDE DEF x, k
  <2> QED
    BY <2>1, <2>2
<1>3. CASE IsOkEndpoint(s)
  <2>1. /\ schedproc[s].inuse /\ HeldPriority(schedproc[s].priority)
        /\ schedproc[s].priority \in UInt /\ part \in {1, 2}
    BY <1>1, <1>3 DEF SchedInv, SchedTypeOK, IsOkEndpoint, EntriesValid, SchedProc
  <2>2. /\ NoquantumPriority(schedproc[s].priority) \in UInt
        /\ HeldPriority(NoquantumPriority(schedproc[s].priority))
    BY <2>1, NoquantumHeld
  <2>3. p \in SchedProc /\ HeldPriority(p.priority) /\ p.inuse /\ p.gen = schedproc[s].gen
    BY <1>1, <2>1, <2>2 DEF SchedProc
  <2>4. PICK err \in Answers : schedule_process_local("noquantum", k, s, p, err)
    BY <1>3 DEF do_noquantum
  <2>5. schedproc' = [schedproc EXCEPT ![s] = Picked(cpu_proc, p)]
    BY <1>3 DEF do_noquantum
  <2> HIDE DEF k, p
  <2>6. sys_schedule("noquantum", k, s, p, -1, err) /\ "noquantum" \in {"noquantum", "balance"}
    BY <2>4 DEF schedule_process_local
  <2>7. handler # "start" /\ handler' # "start"
    BY <1>1
  <2> QED
    BY <1>1, <1>2, <2>1, <2>3, <2>5, <2>6, <2>7, RunsChange
<1>4. CASE ~IsOkEndpoint(s)
  <2>1. kproc' = k /\ UNCHANGED schedproc
    BY <1>4 DEF do_noquantum
  <2> HIDE DEF k
  <2>2. SlotRuns(schedproc[s], kproc[s], pm[s], Started(s))'
    BY <1>1, <1>2, <2>1 DEF SlotsRun, SlotRuns, Recorded, Started
  <2>3. \A t \in Slots \ {s} : /\ schedproc'[t] = schedproc[t] /\ kproc'[t] = kproc[t]
                               /\ pm'[t] = pm[t] /\ Started(t)' = Started(t)
    BY <1>1, <1>2, <2>1 DEF Started
  <2> QED
    BY <1>1, <2>2, <2>3, SlotStep
<1> QED
  BY <1>3, <1>4

LEMMA RunsBalance ==
  ASSUME SchedInv, SlotsRun, Refusable \subseteq {"start", "nice"}, BalanceTurn
  PROVE  SlotsRun'
<1> DEFINE s == cursor
           p == [schedproc[s] EXCEPT !.priority = BalancePriority(@)]
<1>1. /\ UNCHANGED <<part, pm>> /\ handler = "balance" /\ handler' # "start" /\ s \in Slots
      /\ SchedTypeOK /\ kproc \in [Slots -> KProc] /\ schedproc[s] \in SchedProc
  BY DEF BalanceTurn, SchedInv, SchedTypeOK, LoopAtSlot
<1>2. CASE BumpedDown(s)
  <2>1. /\ schedproc[s].inuse /\ HeldPriority(schedproc[s].priority)
        /\ schedproc[s].priority > schedproc[s].max_priority
        /\ schedproc[s].priority \in Nat /\ schedproc[s].max_priority \in Nat
    BY <1>1, <1>2 DEF SchedInv, BumpedDown, EntriesValid, SchedProc, UInt
  <2>2. /\ BalancePriority(schedproc[s].priority) \in UInt
        /\ HeldPriority(BalancePriority(schedproc[s].priority))
    BY <1>1, <2>1, SchedAssumption DEF BalancePriority, HeldPriority, SchedProc, UInt
  <2>3. p \in SchedProc /\ HeldPriority(p.priority) /\ p.inuse /\ p.gen = schedproc[s].gen
    BY <1>1, <2>1, <2>2 DEF SchedProc
  <2>4. PICK err \in Answers : schedule_process_local("balance", kproc, s, p, err)
    BY <1>2 DEF BalanceTurn
  <2>5. schedproc' = [schedproc EXCEPT ![s] = Picked(cpu_proc, p)]
    BY <1>2 DEF BalanceTurn
  <2> HIDE DEF p
  <2>6. sys_schedule("balance", kproc, s, p, -1, err) /\ "balance" \in {"noquantum", "balance"}
    BY <2>4 DEF schedule_process_local
  <2>7. handler # "start" /\ handler' # "start"
    BY <1>1
  <2> HIDE DEF s
  <2> QED
    BY <1>1, <2>1, <2>3, <2>5, <2>6, <2>7, RunsChange
<1>3. CASE ~BumpedDown(s)
  <2>1. UNCHANGED <<schedproc, kproc>>
    BY <1>3 DEF BalanceTurn
  <2>2. \A t \in Slots : Started(t)' = FALSE /\ Started(t) = FALSE
    BY <1>1 DEF Started
  <2> QED
    BY <1>1, <2>1, <2>2, Zenon DEF SlotsRun, SlotRuns, Recorded
<1> QED
  BY <1>2, <1>3

\* do_nice rolls back what it has changed when it is refused.
LEMMA RunsNice ==
  ASSUME SchedInv, SlotsRun, NEW s \in Slots, NEW new_q \in NiceQueues, do_nice(s, new_q)
  PROVE  SlotsRun'
<1> DEFINE p == [schedproc[s] EXCEPT !.max_priority = new_q, !.priority = new_q]
           back == [Picked(cpu_proc, p) EXCEPT !.priority = schedproc[s].priority,
                                               !.max_priority = schedproc[s].max_priority]
<1>1. /\ UNCHANGED <<part, pm, handler, cursor>> /\ handler = "none" /\ pm[s] = "running"
      /\ SchedTypeOK /\ kproc \in [Slots -> KProc] /\ schedproc[s] \in SchedProc
      /\ cpu_proc \in [Cpus -> UInt] /\ new_q \in UInt /\ new_q < NR_SCHED_QUEUES
      /\ new_q \in Nat /\ schedproc \in [Slots -> SchedProc]
  BY SchedAssumption DEF do_nice, SchedInv, SchedTypeOK, UInt
<1>2. /\ p \in SchedProc /\ p.priority = new_q /\ p.gen = schedproc[s].gen
      /\ p.time_slice = schedproc[s].time_slice
  BY <1>1 DEF SchedProc
<1>3. PICK err \in Answers :
        /\ schedule_process_local("nice", kproc, s, p, err)
        /\ schedproc' = [schedproc EXCEPT ![s] = IF err = "OK" THEN Picked(cpu_proc, p) ELSE back]
  BY DEF do_nice
<1> HIDE DEF p
<1>4. /\ back.gen = schedproc[s].gen /\ back.priority = schedproc[s].priority
      /\ back.time_slice = schedproc[s].time_slice /\ back.inuse = p.inuse
      /\ Picked(cpu_proc, p).gen = p.gen /\ Picked(cpu_proc, p).inuse = p.inuse
      /\ Picked(cpu_proc, p).priority = p.priority
      /\ Picked(cpu_proc, p).time_slice = p.time_slice
  <2>1. Picked(cpu_proc, p) \in SchedProc
    BY <1>1, <1>2, PickedType
  <2>2. /\ Picked(cpu_proc, p).gen = p.gen /\ Picked(cpu_proc, p).inuse = p.inuse
        /\ Picked(cpu_proc, p).priority = p.priority
        /\ Picked(cpu_proc, p).time_slice = p.time_slice
    BY <1>2, PickedKeeps
  <2> QED
    BY <1>2, <2>1, <2>2 DEF SchedProc
<1>5. p.inuse = schedproc[s].inuse
  BY <1>1 DEF p, SchedProc
<1> HIDE DEF back
<1>6. sys_schedule("nice", kproc, s, p, -1, err)
  BY <1>3 DEF schedule_process_local
<1>7. SlotRuns(schedproc[s], kproc[s], "running", FALSE)
  BY <1>1 DEF SlotsRun, Started
<1>8. schedproc[s].gen \in Nat /\ kproc[s].gen \in Nat
  BY <1>1 DEF SchedProc, KProc
<1>9. SlotRuns(schedproc'[s], kproc'[s], "running", FALSE)
  <2>1. CASE err = "OK"
    <3>1. /\ kproc[s].gen = p.gen /\ kproc[s].scheduled
          /\ kproc'[s].gen = kproc[s].gen /\ kproc'[s].scheduled
          /\ kproc'[s].priority = p.priority \/ p.priority = UINT_MAX
          /\ kproc'[s].quantum = p.time_slice
      BY <1>1, <1>2, <1>6, <2>1, CallFrame
    <3>2. p.priority # UINT_MAX
      BY <1>1, <1>2, SchedAssumption
    <3>3. schedproc'[s] = Picked(cpu_proc, p)
      BY <1>1, <1>3, <2>1
    <3> QED
      BY <1>2, <1>4, <1>5, <1>7, <1>8, <3>1, <3>2, <3>3 DEF SlotRuns, Recorded
  <2>2. CASE err # "OK"
    <3>1. kproc' = kproc
      BY <1>1, <1>2, <1>6, <2>2, CallFrame
    <3>2. schedproc'[s] = back
      BY <1>1, <1>3, <2>2
    <3> QED
      BY <1>2, <1>4, <1>5, <1>7, <3>1, <3>2 DEF SlotRuns, Recorded
  <2> QED
    BY <2>1, <2>2
<1>10. \A t \in Slots : Started(t)' = FALSE /\ Started(t) = FALSE
  BY <1>1 DEF Started
<1>11. SlotRuns(schedproc[s], kproc[s], pm[s], Started(s))'
  BY <1>1, <1>9, <1>10 DEF SlotRuns, Recorded
<1>12. \A t \in Slots \ {s} : /\ schedproc'[t] = schedproc[t] /\ kproc'[t] = kproc[t]
                              /\ pm'[t] = pm[t] /\ Started(t)' = Started(t)
  <2>1. \A t \in Slots \ {s} : kproc'[t] = kproc[t]
    BY <1>1, <1>2, <1>6, CallFrame
  <2>2. \A t \in Slots \ {s} : schedproc'[t] = schedproc[t]
    BY <1>1, <1>3
  <2> QED
    BY <1>1, <1>10, <2>1, <2>2
<1> QED
  BY <1>1, <1>11, <1>12, SlotStep

LEMMA RunsStop ==
  ASSUME SchedInv, SlotsRun, NEW s \in Slots, do_stop_scheduling(s)
  PROVE  SlotsRun'
<1> DEFINE p == [schedproc[s] EXCEPT !.inuse = FALSE]
<1>1. /\ UNCHANGED <<part, handler, cursor, kproc>> /\ handler = "none"
      /\ pm' = [pm EXCEPT ![s] = "stopped"] /\ pm \in [Slots -> PMStates]
      /\ schedproc \in [Slots -> SchedProc]
  BY DEF do_stop_scheduling, SchedInv, SchedTypeOK
<1>2. p.gen = schedproc[s].gen /\ ~p.inuse
  BY <1>1 DEF SchedProc
<1>3. schedproc' = schedproc \/ schedproc' = [schedproc EXCEPT ![s] = p]
  BY DEF do_stop_scheduling
<1> HIDE DEF p
<1>4. \A t \in Slots : Started(t)' = FALSE /\ Started(t) = FALSE
  BY <1>1 DEF Started
<1>5. SlotRuns(schedproc[s], kproc[s], pm[s], FALSE)
  BY <1>4 DEF SlotsRun
<1>6. SlotRuns(schedproc'[s], kproc[s], "stopped", FALSE)
  BY <1>1, <1>2, <1>3, <1>5 DEF SlotRuns, Recorded
<1>7. SlotRuns(schedproc[s], kproc[s], pm[s], Started(s))'
  BY <1>1, <1>4, <1>6 DEF SlotRuns, Recorded
<1>8. \A t \in Slots \ {s} : /\ schedproc'[t] = schedproc[t] /\ kproc'[t] = kproc[t]
                             /\ pm'[t] = pm[t] /\ Started(t)' = Started(t)
  BY <1>1, <1>3, <1>4
<1> QED
  BY <1>1, <1>7, <1>8, SlotStep

LEMMA RunsStart ==
  ASSUME SchedInv, SlotsRun, NEW s \in Slots, do_start_scheduling(s)
  PROVE  SlotsRun'
<1> DEFINE p == [StartEntry(s) EXCEPT !.inuse = TRUE]
           k == [kproc[s] EXCEPT !.scheduled = TRUE]
<1>1. /\ UNCHANGED part /\ handler = "none" /\ pm[s] = "new" /\ SchedTypeOK
      /\ kproc \in [Slots -> KProc] /\ schedproc \in [Slots -> SchedProc]
      /\ kproc[s] \in KProc /\ pm \in [Slots -> PMStates] /\ request[s] \in Request
      /\ kproc[s].gen \in Nat /\ schedproc[s].gen \in Nat /\ cpu_proc \in [Cpus -> UInt]
  BY DEF do_start_scheduling, SchedInv, SchedTypeOK, KProc, SchedProc
<1>2. /\ kproc[s].noquantum /\ schedproc[s].gen <= kproc[s].gen
      /\ schedproc[s].inuse => schedproc[s].gen < kproc[s].gen
      /\ \A t \in Slots : ~Started(t)
  BY <1>1 DEF SlotsRun, SlotRuns, Started
<1>3. Populated(s) \in SchedProc /\ Populated(s).gen = kproc[s].gen /\ Populated(s).inuse = schedproc[s].inuse
  <2>1. Populated(s) \in SchedProc
    BY StartEntryType
  <2> QED
    BY <1>1, <2>1 DEF Populated, SchedProc
\* The request is refused: the entry e is the old one or one that is not in use.
<1>4. ASSUME NEW e, e.gen <= kproc[s].gen, e.gen \in Nat, e.inuse => e.gen < kproc[s].gen,
             schedproc'[s] = e, \A t \in Slots \ {s} : schedproc'[t] = schedproc[t],
             pm' = [pm EXCEPT ![s] = "failed"], UNCHANGED <<handler, cursor, kproc>>
      PROVE  SlotsRun'
  <2>1. \A t \in Slots : Started(t)' = FALSE /\ Started(t) = FALSE
    BY <1>1, <1>4 DEF Started
  <2>2. SlotRuns(e, kproc[s], "failed", FALSE)
    BY <1>1, <1>2, <1>4 DEF SlotRuns, Recorded
  <2>3. SlotRuns(schedproc[s], kproc[s], pm[s], Started(s))'
    BY <1>1, <1>4, <2>1, <2>2 DEF SlotRuns, Recorded
  <2>4. \A t \in Slots \ {s} : /\ schedproc'[t] = schedproc[t] /\ kproc'[t] = kproc[t]
                               /\ pm'[t] = pm[t] /\ Started(t)' = Started(t)
    BY <1>1, <1>4, <2>1
  <2> QED
    BY <1>1, <2>3, <2>4, SlotStep
<1>5. CASE schedproc[s].inuse
  <2>1. pm' = [pm EXCEPT ![s] = "failed"] /\ UNCHANGED <<schedproc, handler, cursor, kproc>>
    BY <1>5 DEF do_start_scheduling
  <2> QED
    BY <1>1, <1>2, <1>4, <2>1
<1>6. CASE /\ ~schedproc[s].inuse
           /\ schedproc' = [schedproc EXCEPT ![s] = Populated(s)]
           /\ pm' = [pm EXCEPT ![s] = "failed"]
           /\ UNCHANGED <<handler, cursor, kproc>>
  <2>1. schedproc'[s] = Populated(s) /\ \A t \in Slots \ {s} : schedproc'[t] = schedproc[t]
    BY <1>1, <1>6
  <2>2. Populated(s).gen <= kproc[s].gen /\ Populated(s).gen \in Nat /\ ~Populated(s).inuse
    BY <1>1, <1>3, <1>6
  <2> QED
    BY <1>4, <1>6, <2>1, <2>2
<1>7. ASSUME ~schedproc[s].inuse, request[s].maxprio < NR_SCHED_QUEUES,
             request[s].type = "INHERIT" => IsOkParent(s)
      PROVE  /\ StartEntry(s) \in SchedProc /\ ~StartEntry(s).inuse
             /\ StartEntry(s).gen = kproc[s].gen
  <2>1. StartEntry(s) \in SchedProc /\ ~StartEntry(s).inuse
    BY <1>7, StartEntryType
  <2>2. StartEntry(s).gen = Populated(s).gen
    BY <1>1, <1>3 DEF StartEntry, SchedProc
  <2> QED
    BY <1>3, <2>1, <2>2
<1>8. CASE /\ ~schedproc[s].inuse /\ request[s].maxprio < NR_SCHED_QUEUES
           /\ request[s].type = "INHERIT" => IsOkParent(s)
           /\ schedproc' = [schedproc EXCEPT ![s] = StartEntry(s)]
           /\ pm' = [pm EXCEPT ![s] = "failed"]
           /\ UNCHANGED <<handler, cursor, kproc>>
  <2>1. schedproc'[s] = StartEntry(s) /\ \A t \in Slots \ {s} : schedproc'[t] = schedproc[t]
    BY <1>1, <1>8
  <2>2. StartEntry(s).gen <= kproc[s].gen /\ StartEntry(s).gen \in Nat /\ ~StartEntry(s).inuse
    BY <1>1, <1>7, <1>8
  <2> QED
    BY <1>4, <1>8, <2>1, <2>2
<1>9. CASE /\ ~schedproc[s].inuse /\ request[s].maxprio < NR_SCHED_QUEUES
           /\ request[s].type = "INHERIT" => IsOkParent(s)
           /\ kproc' = [kproc EXCEPT ![s].scheduled = TRUE]
           /\ schedproc' = [schedproc EXCEPT ![s] = Picked(cpu_proc, p)]
           /\ handler' = "start" /\ cursor' = s
           /\ UNCHANGED pm
  <2>1. p \in SchedProc /\ p.gen = kproc[s].gen /\ p.inuse
    BY <1>7, <1>9 DEF SchedProc
  <2>2. /\ k \in KProc /\ k.gen = kproc[s].gen /\ k.scheduled /\ k.noquantum
        /\ kproc' = [kproc EXCEPT ![s] = k]
    BY <1>1, <1>2, <1>9 DEF KProc
  <2> HIDE DEF p, k
  <2>3. Picked(cpu_proc, p).gen = kproc[s].gen
    BY <2>1, PickedKeeps
  <2>4. SlotRuns(Picked(cpu_proc, p), k, "new", TRUE)
    BY <1>1, <2>2, <2>3 DEF SlotRuns, Recorded
  <2>5. /\ kproc'[s] = k /\ schedproc'[s] = Picked(cpu_proc, p) /\ pm'[s] = "new"
        /\ Started(s)' = TRUE
    BY <1>1, <1>9, <2>2 DEF Started
  <2>6. SlotRuns(schedproc[s], kproc[s], pm[s], Started(s))'
    BY <1>1, <2>4, <2>5 DEF SlotRuns, Recorded
  <2>7. \A t \in Slots \ {s} : /\ schedproc'[t] = schedproc[t] /\ kproc'[t] = kproc[t]
                               /\ pm'[t] = pm[t]
    BY <1>1, <1>9, <2>2
  <2>8. \A t \in Slots \ {s} : Started(t)' = Started(t)
    BY <1>1, <1>9 DEF Started
  <2> QED
    BY <1>1, <2>6, <2>7, <2>8, SlotStep
<1>10. \/ schedproc[s].inuse
       \/ /\ ~schedproc[s].inuse
          /\ \/ /\ schedproc' = [schedproc EXCEPT ![s] = Populated(s)]
                /\ pm' = [pm EXCEPT ![s] = "failed"]
                /\ UNCHANGED <<handler, cursor, kproc>>
             \/ /\ request[s].maxprio < NR_SCHED_QUEUES
                /\ request[s].type = "INHERIT" => IsOkParent(s)
                /\ \/ /\ schedproc' = [schedproc EXCEPT ![s] = StartEntry(s)]
                      /\ pm' = [pm EXCEPT ![s] = "failed"]
                      /\ UNCHANGED <<handler, cursor, kproc>>
                   \/ /\ kproc' = [kproc EXCEPT ![s].scheduled = TRUE]
                      /\ schedproc' = [schedproc EXCEPT ![s] = Picked(cpu_proc, p)]
                      /\ handler' = "start" /\ cursor' = s
                      /\ UNCHANGED pm
  BY DEF do_start_scheduling
<1> QED
  BY <1>5, <1>6, <1>8, <1>9, <1>10

LEMMA RunsStartTurn ==
  ASSUME SchedInv, SlotsRun, StartTurn
  PROVE  SlotsRun'
<1> DEFINE s    == cursor
           p    == Picked(cpu_proc, schedproc[s])
           load == Counted(cpu_proc, schedproc[s])
           left == [load EXCEPT ![p.cpu] = CPU_DEAD]
<1>1. /\ UNCHANGED <<part, cursor>> /\ handler = "start" /\ s \in Slots /\ SchedTypeOK
      /\ kproc \in [Slots -> KProc] /\ schedproc \in [Slots -> SchedProc]
      /\ schedproc[s] \in SchedProc /\ pm \in [Slots -> PMStates]
      /\ kproc[s].gen \in Nat /\ schedproc[s].gen \in Nat /\ cpu_proc \in [Cpus -> UInt]
      /\ HeldPriority(schedproc[s].priority)
  BY DEF StartTurn, SchedInv, SchedTypeOK, LoopAtSlot, EntriesValid, KProc, SchedProc
<1>2. /\ SlotRuns(schedproc[s], kproc[s], "new", TRUE) /\ pm[s] = "new" /\ kproc[s].noquantum
      /\ Started(s) /\ schedproc[s].gen <= kproc[s].gen
  BY <1>1 DEF SlotsRun, SlotRuns, Started
<1>3. /\ p \in SchedProc /\ p.gen = schedproc[s].gen /\ p.priority = schedproc[s].priority
      /\ p.inuse = schedproc[s].inuse
  BY <1>1, PickedType, PickedKeeps
<1>4. PICK err \in Answers :
        /\ sys_schedule("start", kproc, s, p, p.cpu, err)
        /\ \/ /\ err # "OK"
              /\ schedproc' = [schedproc EXCEPT ![s] = Picked(left, p)]
              /\ UNCHANGED <<handler, pm>>
           \/ /\ schedproc' = [schedproc EXCEPT ![s] = p]
              /\ handler' = "none"
              /\ pm' = [pm EXCEPT ![s] = IF err = "OK" THEN "running" ELSE "failed"]
  BY DEF StartTurn
<1> HIDE DEF p, load, left
<1>5. /\ Picked(left, p).gen = p.gen
  BY <1>3, PickedKeeps
<1>6. \A t \in Slots \ {s} : kproc'[t] = kproc[t]
  BY <1>1, <1>3, <1>4, CallFrame
<1>7. \A t \in Slots \ {s} : schedproc'[t] = schedproc[t] /\ pm'[t] = pm[t]
  BY <1>1, <1>4
<1>8. \A t \in Slots \ {s} : Started(t)' = Started(t)
  BY <1>1, <1>4 DEF Started
<1>9. SlotRuns(schedproc[s], kproc[s], pm[s], Started(s))'
  <2>1. CASE err = "OK"
    <3>1. /\ kproc[s].gen = p.gen /\ kproc[s].scheduled
          /\ kproc'[s].gen = kproc[s].gen /\ kproc'[s].scheduled
          /\ kproc'[s].priority = p.priority \/ p.priority = UINT_MAX
          /\ kproc'[s].quantum = p.time_slice
      BY <1>1, <1>3, <1>4, <2>1, CallFrame
    <3>2. p.priority = UINT_MAX => part = 2
      BY <1>1, <1>3, SchedAssumption DEF HeldPriority
    <3>3. schedproc'[s] = p /\ pm'[s] = "running" /\ Started(s)' = FALSE
      BY <1>1, <1>4, <2>1 DEF Started
    <3>4. SlotRuns(p, kproc'[s], "running", FALSE)
      BY <1>1, <1>3, <3>1, <3>2 DEF SlotRuns, Recorded
    <3> QED
      BY <1>1, <3>3, <3>4 DEF SlotRuns, Recorded
  <2>2. CASE err # "OK" /\ schedproc' = [schedproc EXCEPT ![s] = p]
             /\ handler' = "none" /\ pm' = [pm EXCEPT ![s] = "failed"]
    <3>1. kproc' = kproc
      BY <1>1, <1>3, <1>4, <2>2, CallFrame
    <3>2. SlotRuns(p, kproc[s], "failed", FALSE)
      BY <1>1, <1>2, <1>3 DEF SlotRuns, Recorded
    <3>3. schedproc'[s] = p /\ pm'[s] = "failed" /\ Started(s)' = FALSE
      BY <1>1, <2>2 DEF Started
    <3> QED
      BY <1>1, <3>1, <3>2, <3>3 DEF SlotRuns, Recorded
  <2>3. CASE err # "OK" /\ schedproc' = [schedproc EXCEPT ![s] = Picked(left, p)]
             /\ UNCHANGED <<handler, pm>>
    <3>1. kproc' = kproc
      BY <1>1, <1>3, <1>4, <2>3, CallFrame
    <3>2. SlotRuns(Picked(left, p), kproc[s], "new", TRUE)
      BY <1>1, <1>2, <1>3, <1>5 DEF SlotRuns, Recorded
    <3>3. schedproc'[s] = Picked(left, p) /\ pm'[s] = "new" /\ Started(s)' = TRUE
      BY <1>1, <1>2, <2>3 DEF Started
    <3> QED
      BY <1>1, <3>1, <3>2, <3>3 DEF SlotRuns, Recorded
  <2> QED
    BY <1>4, <2>1, <2>2, <2>3
<1>10. \A t \in Slots \ {s} : /\ schedproc'[t] = schedproc[t] /\ kproc'[t] = kproc[t]
                              /\ pm'[t] = pm[t] /\ Started(t)' = Started(t)
  BY <1>6, <1>7, <1>8
<1> QED
  BY <1>1, <1>9, <1>10, SlotStep

LEMMA RunsStep ==
  Refusable \subseteq {"start", "nice"} /\ SchedInv /\ SlotsRun /\ [SchedNext]_schedVars => SlotsRun'
<1> SUFFICES ASSUME Refusable \subseteq {"start", "nice"}, SchedInv, SlotsRun,
                    [SchedNext]_schedVars
             PROVE  SlotsRun'
  OBVIOUS
<1>1. CASE UNCHANGED schedVars
  BY <1>1, Zenon DEF schedVars, SlotsRun, SlotRuns, Recorded, Started
<1>2. ASSUME NEW s \in Slots,
             \/ QuantumExpires(s) \/ Clear(s) \/ SpawnService(s)
             \/ \E c \in Slots : Fork(s, c)
             \/ do_noquantum(s) \/ do_start_scheduling(s) \/ do_stop_scheduling(s)
             \/ \E q \in NiceQueues : do_nice(s, q)
      PROVE  SlotsRun'
  BY <1>2, RunsEnvironment, RunsNoquantum, RunsStart, RunsStop, RunsNice
<1>3. CASE BalanceBegin
  <2>1. /\ UNCHANGED <<part, schedproc, kproc, pm>>
        /\ \A t \in Slots : Started(t)' = FALSE /\ Started(t) = FALSE
    BY <1>3 DEF BalanceBegin, Started
  <2> QED
    BY <2>1, Zenon DEF SlotsRun, SlotRuns, Recorded
<1>4. CASE StartTurn \/ BalanceTurn
  BY <1>4, RunsStartTurn, RunsBalance
<1> QED
  BY <1>1, <1>2, <1>3, <1>4 DEF SchedNext

\* A process that may run does so in the queue and with the quantum SCHED has
\* recorded, with any number of processes, when the calls the kernel refuses are
\* those whose answer SCHED looks at: a refused start leaves the process without
\* a quantum, a refused change of priority is rolled back.
THEOREM SchedRunsAsRecorded ==
  ASSUME Refusable \subseteq {"start", "nice"}
  PROVE  SchedSpec => []RunsAsRecorded
<1>1. SchedInv /\ SlotsRun => RunsAsRecorded
  BY DEF SchedInv, SlotsRun, SlotRuns, Recorded, RunsAsRecorded, IsOkEndpoint
<1>2. SchedInv /\ SlotsRun /\ [SchedNext]_schedVars => SlotsRun'
  BY RunsStep
<1> QED
  BY <1>1, <1>2, SchedInvariant, RunsInit, PTL DEF SchedSpec

-----------------------------------------------------------------------------
\* The entries in use that the table holds for cpu c.
Held(table, c) == {s \in Slots : table[s].inuse /\ table[s].cpu = c}

\* How SCHED's load counters relate to its table, for a processor d the kernel
\* accepts: d counts every entry it holds, and a processor the kernel has called
\* bad has been given the largest load, from which only the removal of an entry
\* that was there before takes something away.
DeadStayOut(load, table, bad, d) ==
  /\ Cardinality(Held(table, d)) <= load[d]
  /\ \A c \in Cpus : bad[c] # 0 =>
       /\ bad[c] = 1 /\ c \notin ReadyCpus
       /\ UINT_MAX + Cardinality(Held(table, c)) <= load[c] + NR_PROCS

\* The calls of pick_cpu that SCHED has still to make for what it has accepted:
\* one for each out-of-quantum message, two for each start request (the second
\* in the loop), one for each slot the balancing loop has before it and one for
\* each processor that may yet turn out bad.
AllPicks ==
  ({"noquantum", "start", "turn", "balance"} \X Slots) \cup ({"bad"} \X Cpus)

IsOwed(kind, t) ==
  \/ kind = "noquantum" /\ kproc[t].sending
  \/ kind = "start" /\ pm[t] = "new" /\ ~(handler = "start" /\ cursor = t)
  \/ kind = "turn" /\ (pm[t] = "new" \/ (handler = "start" /\ cursor = t))
  \/ kind = "balance" /\ handler = "balance" /\ cursor <= t
  \/ kind = "bad" /\ badcpu[t] = 0

PicksOwed == {x \in AllPicks : IsOwed(x[1], x[2])}

MaxOwed == 4 * NR_PROCS + NCPUS

\* DeadCpuNotRetried is not inductive: it takes the loads to keep a dead processor
\* behind a ready one.  New work is accepted below MaxLoad only, and the picks
\* still owed bound how far the load of d can get above that.
LoadsInv(d) ==
  /\ DeadStayOut(cpu_proc, schedproc, badcpu, d)
  /\ cpu_proc[d] + Cardinality(PicksOwed) <= MaxLoad + 1 + MaxOwed

\* The processor d is ready and not the boot processor, and unsigned is wide
\* enough for the loads SCHED reaches.
LoadsFit(d) ==
  /\ d \in ReadyCpus \ {BSP}
  /\ UINT_MAX > MaxLoad + MaxOwed + NR_PROCS

\* The sizes of the sets involved.
LEMMA HeldSize ==
  ASSUME NEW table, NEW c
  PROVE  IsFiniteSet(Held(table, c)) /\ Cardinality(Held(table, c)) \in 0 .. NR_PROCS
<1>1. IsFiniteSet(Slots) /\ Cardinality(Slots) = NR_PROCS
  BY SchedAssumption, FS_Interval DEF Slots
<1>2. Held(table, c) \in SUBSET Slots
  BY DEF Held
<1>3. IsFiniteSet(Held(table, c)) /\ Cardinality(Held(table, c)) <= NR_PROCS
  BY <1>1, <1>2, FS_Subset
<1>4. Cardinality(Held(table, c)) \in Nat
  BY <1>3, FS_CardinalityType
<1> QED
  BY <1>3, <1>4, SchedAssumption

LEMMA AllPicksSize ==
  IsFiniteSet(AllPicks) /\ Cardinality(AllPicks) \in 0 .. MaxOwed
<1> DEFINE A == {"noquantum", "start", "turn", "balance"}
<1>1. IsFiniteSet(A) /\ Cardinality(A) = 4
  <2>1. IsFiniteSet({"noquantum"}) /\ Cardinality({"noquantum"}) = 1
    BY FS_Singleton
  <2>2. /\ IsFiniteSet({"noquantum"} \cup {"start"})
        /\ Cardinality({"noquantum"} \cup {"start"}) = 2
    BY <2>1, FS_AddElement
  <2>3. /\ IsFiniteSet(({"noquantum"} \cup {"start"}) \cup {"turn"})
        /\ Cardinality(({"noquantum"} \cup {"start"}) \cup {"turn"}) = 3
    BY <2>2, FS_AddElement
  <2>4. /\ IsFiniteSet((({"noquantum"} \cup {"start"}) \cup {"turn"}) \cup {"balance"})
        /\ Cardinality((({"noquantum"} \cup {"start"}) \cup {"turn"}) \cup {"balance"}) = 4
    BY <2>3, FS_AddElement
  <2>5. A = (({"noquantum"} \cup {"start"}) \cup {"turn"}) \cup {"balance"}
    OBVIOUS
  <2> QED
    BY <2>4, <2>5
<1>2. IsFiniteSet(Slots) /\ Cardinality(Slots) = NR_PROCS
  BY SchedAssumption, FS_Interval DEF Slots
<1>3. IsFiniteSet(Cpus) /\ Cardinality(Cpus) = NCPUS
  BY SchedAssumption, FS_Interval DEF Cpus
<1>4. IsFiniteSet({"bad"}) /\ Cardinality({"bad"}) = 1
  BY FS_Singleton
<1> HIDE DEF A
<1>5. IsFiniteSet(A \X Slots) /\ Cardinality(A \X Slots) = 4 * NR_PROCS
  BY <1>1, <1>2, FS_Product
<1>6. IsFiniteSet({"bad"} \X Cpus) /\ Cardinality({"bad"} \X Cpus) = NCPUS
  BY <1>3, <1>4, FS_Product, SchedAssumption
<1>7. /\ IsFiniteSet((A \X Slots) \cup ({"bad"} \X Cpus))
      /\ Cardinality((A \X Slots) \cup ({"bad"} \X Cpus))
           = 4 * NR_PROCS + NCPUS - Cardinality((A \X Slots) \cap ({"bad"} \X Cpus))
  BY <1>5, <1>6, FS_Union
<1>8. Cardinality((A \X Slots) \cap ({"bad"} \X Cpus)) \in Nat
  <2>1. (A \X Slots) \cap ({"bad"} \X Cpus) \in SUBSET (A \X Slots)
    OBVIOUS
  <2> QED
    BY <1>5, <2>1, FS_Subset, FS_CardinalityType
<1>9. AllPicks = (A \X Slots) \cup ({"bad"} \X Cpus)
  BY DEF AllPicks, A
<1>10. Cardinality(AllPicks) \in Nat
  BY <1>7, <1>9, FS_CardinalityType
<1> QED
  BY <1>7, <1>8, <1>9, <1>10, SchedAssumption DEF MaxOwed

\* Fewer picks owed are a smaller number, and there are at most MaxOwed.
LEMMA PicksCount ==
  ASSUME NEW P \in SUBSET AllPicks
  PROVE  /\ Cardinality(P) \in 0 .. MaxOwed
         /\ \A Q \in SUBSET P : Cardinality(Q) \in 0 .. Cardinality(P)
         /\ \A t \in P : \A Q \in SUBSET (P \ {t}) : Cardinality(Q) \in 0 .. Cardinality(P) - 1
<1>1. IsFiniteSet(AllPicks) /\ Cardinality(AllPicks) \in 0 .. MaxOwed /\ MaxOwed \in Nat
  BY AllPicksSize, SchedAssumption DEF MaxOwed
<1>2. IsFiniteSet(P) /\ Cardinality(P) <= Cardinality(AllPicks)
  BY <1>1, FS_Subset
<1>3. \A Q \in SUBSET P : IsFiniteSet(Q) /\ Cardinality(Q) <= Cardinality(P)
  BY <1>2, FS_Subset
<1>4. \A Q \in SUBSET P : Cardinality(Q) \in Nat
  BY <1>3, FS_CardinalityType
<1>5. ASSUME NEW t \in P, NEW Q \in SUBSET (P \ {t})
      PROVE  Cardinality(Q) \in 0 .. Cardinality(P) - 1
  <2>1. IsFiniteSet(P \ {t}) /\ Cardinality(P \ {t}) = Cardinality(P) - 1
    BY <1>2, FS_RemoveElement
  <2>2. Cardinality(Q) <= Cardinality(P \ {t})
    BY <2>1, FS_Subset
  <2>3. Cardinality(Q) \in Nat /\ Cardinality(P) \in Nat
    BY <1>4
  <2> QED
    BY <2>1, <2>2, <2>3
<1>6. Cardinality(P) \in 0 .. MaxOwed
  BY <1>1, <1>2, <1>4
<1>7. \A Q \in SUBSET P : Cardinality(Q) \in 0 .. Cardinality(P)
  BY <1>3, <1>4
<1> QED
  BY <1>5, <1>6, <1>7

\* What one entry of the table does to the number of entries a cpu holds.
LEMMA HeldChanges ==
  ASSUME NEW table, NEW table2, NEW s \in Slots, NEW c,
         \A t \in Slots \ {s} : table2[t] = table[t]
  PROVE  /\ Cardinality(Held(table2, c)) <= Cardinality(Held(table, c)) + 1
         /\ ~table2[s].inuse \/ table2[s].cpu # c
              => Cardinality(Held(table2, c)) <= Cardinality(Held(table, c))
         /\ ~table2[s].inuse /\ s \in Held(table, c)
              => Cardinality(Held(table2, c)) + 1 <= Cardinality(Held(table, c))
<1> DEFINE H == Held(table, c)
           H2 == Held(table2, c)
<1>1. IsFiniteSet(H) /\ Cardinality(H) \in Nat /\ IsFiniteSet(H2) /\ Cardinality(H2) \in Nat
  BY HeldSize
<1>2. H2 \in SUBSET (H \cup {s})
  BY DEF Held
<1>3. ~table2[s].inuse \/ table2[s].cpu # c => H2 \in SUBSET H
  BY DEF Held
<1>4. ~table2[s].inuse => H2 \in SUBSET (H \ {s})
  BY DEF Held
<1> HIDE DEF H, H2
<1>5. IsFiniteSet(H \cup {s}) /\ Cardinality(H \cup {s}) <= Cardinality(H) + 1
  <2>1. /\ IsFiniteSet(H \cup {s})
        /\ Cardinality(H \cup {s}) = IF s \in H THEN Cardinality(H) ELSE Cardinality(H) + 1
    BY <1>1, FS_AddElement
  <2> QED
    BY <1>1, <2>1
<1>6. /\ IsFiniteSet(H \ {s})
      /\ s \in H => Cardinality(H \ {s}) = Cardinality(H) - 1
  BY <1>1, FS_RemoveElement
<1>7. Cardinality(H2) <= Cardinality(H \cup {s})
  BY <1>2, <1>5, FS_Subset
<1>8. Cardinality(H \cup {s}) \in Nat /\ Cardinality(H \ {s}) \in Nat
  BY <1>5, <1>6, FS_CardinalityType
<1>9. ~table2[s].inuse \/ table2[s].cpu # c => Cardinality(H2) <= Cardinality(H)
  BY <1>1, <1>3, FS_Subset
<1>10. ~table2[s].inuse => Cardinality(H2) <= Cardinality(H \ {s})
  BY <1>4, <1>6, FS_Subset
<1> QED
  BY <1>1, <1>5, <1>6, <1>7, <1>8, <1>9, <1>10 DEF H, H2

\* The quantities the loads are compared with are numbers.
LEMMA LoadNumbers ==
  ASSUME NEW d, LoadsFit(d)
  PROVE  /\ d \in Cpus /\ d # BSP /\ d \in ReadyCpus /\ Cpus \subseteq Nat /\ BSP \in ReadyCpus
         /\ NR_PROCS \in Nat /\ NR_PROCS > 0 /\ MaxOwed \in Nat /\ MaxLoad \in Nat
         /\ UINT_MAX \in Nat /\ UINT_MAX > MaxLoad + MaxOwed + NR_PROCS
BY SchedAssumption DEF LoadsFit, Cpus, BSP, MaxOwed

\* As long as d has less load than a dead processor can have, pick_cpu keeps the
\* dead ones out, whatever entry s it picks for; d's own load grows by one at most.
LEMMA PickKeepsOut ==
  ASSUME NEW d, LoadsFit(d), NEW load \in [Cpus -> UInt], NEW bad \in [Cpus -> Nat],
         NEW table, NEW table2, NEW s \in Slots, NEW p,
         DeadStayOut(load, table, bad, d), load[d] <= MaxLoad + MaxOwed,
         \A t \in Slots \ {s} : table2[t] = table[t],
         table2[s].cpu = pick_cpu(load, p)
  PROVE  /\ DeadStayOut(Counted(load, p), table2, bad, d)
         /\ Counted(load, p)[d] <= load[d] + 1
         /\ pick_cpu(load, p) \notin ReadyCpus =>
              bad[pick_cpu(load, p)] = 0 /\ Counted(load, p)[d] = load[d]
<1> DEFINE q == pick_cpu(load, p)
           load2 == Counted(load, p)
<1>0. /\ d \in Cpus /\ d # BSP /\ d \in ReadyCpus /\ Cpus \subseteq Nat /\ BSP \in ReadyCpus
      /\ NR_PROCS \in Nat /\ MaxOwed \in Nat /\ MaxLoad \in Nat
      /\ UINT_MAX \in Nat /\ UINT_MAX > MaxLoad + MaxOwed + NR_PROCS
      /\ \A c \in Cpus : load[c] \in Nat /\ load[c] <= UINT_MAX
  BY LoadNumbers DEF UInt
<1>1. \A c : Cardinality(Held(table, c)) \in Nat /\ Cardinality(Held(table2, c)) \in Nat
  BY HeldSize
<1>2. load[d] < UINT_MAX
  BY <1>0
<1>3. \A c \in Cpus : bad[c] # 0 => load[d] < load[c]
  <2> SUFFICES ASSUME NEW c \in Cpus, bad[c] # 0
               PROVE  load[d] < load[c]
    OBVIOUS
  <2>1. UINT_MAX + Cardinality(Held(table, c)) <= load[c] + NR_PROCS
    BY DEF DeadStayOut
  <2> QED
    BY <1>0, <1>1, <2>1
<1>4. CASE PicksBsp(p)
  <2>1. q = BSP /\ load2 = load
    BY <1>4 DEF pick_cpu, Counted
  <2>2. \A c \in Cpus \ {BSP} :
          Cardinality(Held(table2, c)) <= Cardinality(Held(table, c))
    BY <2>1, HeldChanges
  <2>3. \A c \in Cpus : bad[c] # 0 => c # BSP
    BY <1>0 DEF DeadStayOut
  <2>4. Cardinality(Held(table2, d)) <= load[d]
    BY <1>0, <1>1, <2>2 DEF DeadStayOut
  <2>5. ASSUME NEW c \in Cpus, bad[c] # 0
        PROVE  UINT_MAX + Cardinality(Held(table2, c)) <= load[c] + NR_PROCS
    <3>1. UINT_MAX + Cardinality(Held(table, c)) <= load[c] + NR_PROCS
      BY <2>5 DEF DeadStayOut
    <3>2. Cardinality(Held(table2, c)) <= Cardinality(Held(table, c))
      BY <2>2, <2>3, <2>5
    <3> QED
      BY <1>0, <1>1, <3>1, <3>2
  <2>6. DeadStayOut(load, table2, bad, d)
    BY <2>4, <2>5 DEF DeadStayOut
  <2> QED
    BY <1>0, <2>1, <2>6
<1>5. CASE ~PicksBsp(p)
  <2>1. /\ q \in Cpus \ {BSP} /\ load[q] < UINT_MAX /\ load[q] <= load[d]
    BY <1>0, <1>2, <1>5, PickCpuLeast
  <2>2. bad[q] = 0
    BY <1>0, <1>3, <2>1
  <2>3. load2 = [load EXCEPT ![q] = load[q] + 1]
    <3>1. (load[q] + 1) % (UINT_MAX + 1) = load[q] + 1
      <4> DEFINE x == load[q] + 1
                 n == UINT_MAX + 1
      <4>0. load[q] \in Nat /\ load[q] < UINT_MAX /\ UINT_MAX \in Nat
        <5> HIDE DEF q
        <5> QED
          BY <1>0, <2>1
      <4>1. x \in Nat /\ n \in Nat /\ x < n
        <5> HIDE DEF q
        <5> QED
          BY <4>0
      <4> HIDE DEF x, n
      <4>2. x % n = x
        BY <4>1
      <4> QED
        BY <4>2 DEF x, n
    <3> QED
      BY <1>5, <3>1 DEF Counted
  <2> HIDE DEF q, load2
  <2>4. \A c : c # q => Cardinality(Held(table2, c)) <= Cardinality(Held(table, c))
    BY HeldChanges DEF q
  <2>5. Cardinality(Held(table2, q)) <= Cardinality(Held(table, q)) + 1
    BY HeldChanges
  <2>6. load2[d] <= load[d] + 1 /\ (q # d => load2[d] = load[d])
    BY <1>0, <2>1, <2>3
  <2>7. Cardinality(Held(table2, d)) <= load2[d]
    <3>1. Cardinality(Held(table, d)) <= load[d]
      BY DEF DeadStayOut
    <3>2. CASE q = d
      BY <1>0, <1>1, <2>1, <2>3, <2>5, <3>1, <3>2
    <3>3. CASE q # d
      BY <1>0, <1>1, <2>4, <2>6, <3>1, <3>3
    <3> QED
      BY <3>2, <3>3
  <2>8. ASSUME NEW c \in Cpus, bad[c] # 0
        PROVE  UINT_MAX + Cardinality(Held(table2, c)) <= load2[c] + NR_PROCS
    <3>1. UINT_MAX + Cardinality(Held(table, c)) <= load[c] + NR_PROCS
      BY <2>8 DEF DeadStayOut
    <3>2. c # q /\ load2[c] = load[c]
      BY <2>1, <2>2, <2>3, <2>8
    <3>3. Cardinality(Held(table2, c)) <= Cardinality(Held(table, c))
      BY <2>4, <3>2
    <3> QED
      BY <1>0, <1>1, <3>1, <3>2, <3>3
  <2>9. DeadStayOut(load2, table2, bad, d)
    BY <2>7, <2>8 DEF DeadStayOut
  <2> QED
    BY <1>0, <2>2, <2>6, <2>9 DEF q, load2
<1> QED
  BY <1>4, <1>5

\* The mark the loop leaves on a processor the kernel has called bad.
LEMMA MarkKeepsOut ==
  ASSUME NEW d, LoadsFit(d), NEW load \in [Cpus -> UInt], NEW bad \in [Cpus -> Nat],
         NEW table, NEW q \in Cpus \ ReadyCpus, bad[q] = 0, DeadStayOut(load, table, bad, d)
  PROVE  DeadStayOut([load EXCEPT ![q] = CPU_DEAD], table, [bad EXCEPT ![q] = 1], d)
<1> DEFINE load2 == [load EXCEPT ![q] = CPU_DEAD]
           bad2  == [bad EXCEPT ![q] = 1]
<1>0. d # q /\ UINT_MAX \in Nat /\ NR_PROCS \in Nat
  BY LoadNumbers
<1>1. load2[d] = load[d]
  BY <1>0, LoadNumbers
<1>2. Cardinality(Held(table, q)) \in 0 .. NR_PROCS
  BY HeldSize
<1>3. load2[q] = UINT_MAX /\ bad2[q] = 1
  BY DEF CPU_DEAD
<1>4. \A c \in Cpus \ {q} : load2[c] = load[c] /\ bad2[c] = bad[c]
  OBVIOUS
<1>5. UINT_MAX + Cardinality(Held(table, q)) <= load2[q] + NR_PROCS
  BY <1>0, <1>2, <1>3
<1> HIDE DEF load2, bad2
<1>6. DeadStayOut(load2, table, bad2, d)
  BY <1>1, <1>3, <1>4, <1>5 DEF DeadStayOut
<1> QED
  BY <1>6 DEF load2, bad2

\* An entry leaves the table, and the load of its cpu falls.
LEMMA LeaveKeepsOut ==
  ASSUME NEW d, LoadsFit(d), NEW load \in [Cpus -> UInt], NEW bad \in [Cpus -> Nat],
         NEW table, NEW table2, NEW s \in Slots, NEW load2,
         DeadStayOut(load, table, bad, d),
         \A t \in Slots \ {s} : table2[t] = table[t], ~table2[s].inuse,
         \/ load2 = load
         \/ /\ s \in Held(table, table[s].cpu) /\ table[s].cpu \in Cpus
            /\ load2 = [load EXCEPT ![table[s].cpu] = (@ - 1) % (UINT_MAX + 1)]
  PROVE  DeadStayOut(load2, table2, bad, d) /\ load2[d] <= load[d]
<1> DEFINE q == table[s].cpu
<1>0. /\ d \in Cpus /\ d # BSP /\ d \in ReadyCpus
      /\ NR_PROCS \in Nat /\ UINT_MAX \in Nat /\ UINT_MAX > NR_PROCS
      /\ \A c \in Cpus : load[c] \in Nat /\ load[c] <= UINT_MAX
  BY LoadNumbers DEF UInt
<1>1. \A c : Cardinality(Held(table, c)) \in Nat /\ Cardinality(Held(table2, c)) \in Nat
  BY HeldSize
<1>2. /\ Cardinality(Held(table, d)) <= load[d]
      /\ \A c \in Cpus : bad[c] # 0 =>
           UINT_MAX + Cardinality(Held(table, c)) <= load[c] + NR_PROCS
  BY DEF DeadStayOut
<1>3. \A c : Cardinality(Held(table2, c)) <= Cardinality(Held(table, c))
  BY HeldChanges
\* The load of a cpu that is tracked falls with the entries it holds.
<1>4. ASSUME NEW c \in Cpus, c = d \/ bad[c] # 0
      PROVE  /\ load2[c] <= load[c]
             /\ load2[c] - Cardinality(Held(table2, c)) >= load[c] - Cardinality(Held(table, c))
             /\ load2[c] \in Nat
  <2>1. CASE load2 = load
    BY <1>0, <1>1, <1>3, <2>1
  <2>2. CASE /\ s \in Held(table, q) /\ q \in Cpus
             /\ load2 = [load EXCEPT ![q] = (@ - 1) % (UINT_MAX + 1)]
    <3>1. CASE c # q
      <4>1. load2[c] = load[c]
        BY <2>2, <3>1
      <4> QED
        BY <1>0, <1>1, <1>3, <4>1
    <3>2. CASE c = q
      <4>1. Cardinality(Held(table2, c)) + 1 <= Cardinality(Held(table, c))
        BY <2>2, <3>2, HeldChanges
      <4>2. load[c] >= 1
        BY <1>0, <1>1, <1>2, <1>4, <4>1
      <4>3. (load[c] - 1) % (UINT_MAX + 1) = load[c] - 1
        BY <1>0, <4>2
      <4>4. load2[c] = load[c] - 1
        BY <2>2, <3>2, <4>3
      <4> QED
        BY <1>0, <1>1, <4>1, <4>2, <4>4
    <3> QED
      BY <3>1, <3>2
  <2> QED
    BY <2>1, <2>2
<1>5. load2[d] <= load[d] /\ Cardinality(Held(table2, d)) <= load2[d]
  BY <1>0, <1>1, <1>2, <1>4
<1>6. ASSUME NEW c \in Cpus, bad[c] # 0
      PROVE  UINT_MAX + Cardinality(Held(table2, c)) <= load2[c] + NR_PROCS
  BY <1>0, <1>1, <1>2, <1>4, <1>6
<1>7. \A c \in Cpus : bad[c] # 0 => bad[c] = 1 /\ c \notin ReadyCpus
  BY DEF DeadStayOut
<1> QED
  BY <1>5, <1>6, <1>7 DEF DeadStayOut

\* A step after which a pick x is owed no more and no other is owed anew.
LEMMA OwedLess ==
  ASSUME NEW x \in AllPicks, IsOwed(x[1], x[2]),
         \A t \in Slots : \A kind \in {"noquantum", "start", "turn", "balance"} :
           IsOwed(kind, t)' => IsOwed(kind, t) /\ x # <<kind, t>>,
         \A c \in Cpus : IsOwed("bad", c)' => IsOwed("bad", c) /\ x # <<"bad", c>>
  PROVE  /\ Cardinality(PicksOwed') \in 0 .. Cardinality(PicksOwed) - 1
         /\ Cardinality(PicksOwed) \in 0 .. MaxOwed
<1>1. PicksOwed \in SUBSET AllPicks /\ x \in PicksOwed
  BY DEF PicksOwed
<1>2. PicksOwed' \in SUBSET (PicksOwed \ {x})
  <2> SUFFICES ASSUME NEW y \in AllPicks, IsOwed(y[1], y[2])'
               PROVE  IsOwed(y[1], y[2]) /\ y # x
    BY DEF PicksOwed
  <2>1. CASE y \in {"noquantum", "start", "turn", "balance"} \X Slots
    <3>1. y = <<y[1], y[2]>> /\ y[2] \in Slots
          /\ y[1] \in {"noquantum", "start", "turn", "balance"}
      BY <2>1
    <3> QED
      BY <3>1
  <2>2. CASE y \in {"bad"} \X Cpus
    <3>1. y = <<"bad", y[2]>> /\ y[2] \in Cpus /\ y[1] = "bad"
      BY <2>2
    <3> QED
      BY <3>1
  <2> QED
    BY <2>1, <2>2 DEF AllPicks
<1> QED
  BY <1>1, <1>2, PicksCount

\* A step after which no pick is owed anew.
LEMMA OwedNoMore ==
  ASSUME \A t \in Slots : \A kind \in {"noquantum", "start", "turn", "balance"} :
           IsOwed(kind, t)' => IsOwed(kind, t),
         \A c \in Cpus : IsOwed("bad", c)' => IsOwed("bad", c)
  PROVE  /\ Cardinality(PicksOwed') \in 0 .. Cardinality(PicksOwed)
         /\ Cardinality(PicksOwed) \in 0 .. MaxOwed
<1>1. PicksOwed \in SUBSET AllPicks
  BY DEF PicksOwed
<1>2. PicksOwed' \in SUBSET PicksOwed
  <2> SUFFICES ASSUME NEW y \in AllPicks, IsOwed(y[1], y[2])'
               PROVE  IsOwed(y[1], y[2])
    BY DEF PicksOwed
  <2> QED
    BY DEF AllPicks
<1> QED
  BY <1>1, <1>2, PicksCount

\* A step that accepts new work, which it does below MaxLoad only; it may pick once.
LEMMA WorkAccepted ==
  ASSUME NEW d, LoadsFit(d), SchedInv, cpu_proc[d] <= MaxLoad,
         cpu_proc'[d] \in Nat, cpu_proc'[d] <= cpu_proc[d] + 1
  PROVE  cpu_proc'[d] + Cardinality(PicksOwed') <= MaxLoad + 1 + MaxOwed
<1>1. PicksOwed' \in SUBSET AllPicks
  BY DEF PicksOwed
<1>2. Cardinality(PicksOwed') \in 0 .. MaxOwed
  BY <1>1, PicksCount
<1>3. cpu_proc[d] \in Nat /\ MaxOwed \in Nat /\ MaxLoad \in Nat
  BY LoadNumbers DEF SchedInv, SchedTypeOK, UInt
<1> QED
  BY <1>2, <1>3

\* A kernel call sends no message and withdraws none.
LEMMA CallSending ==
  ASSUME NEW h, NEW err, NEW s \in Slots, NEW p, NEW cpu,
         NEW k \in [Slots -> KProc], sys_schedule(h, k, s, p, cpu, err)
  PROVE  /\ \A t \in Slots : kproc'[t].sending = k[t].sending
         /\ err = "EBADCPU" => cpu \notin ReadyCpus
<1> DEFINE q == IF p.priority = UINT_MAX THEN -1 ELSE p.priority
           kp == sched_proc(k[s], q, p.time_slice, cpu)
<1>1. kproc' = k \/ kproc' = [k EXCEPT ![s] = kp]
  BY DEF sys_schedule
<1>2. kp.sending = k[s].sending
  <2>1. k[s] \in KProc
    OBVIOUS
  <2> HIDE DEF q
  <2> QED
    BY <2>1 DEF sched_proc, KProc
<1> HIDE DEF kp
<1>3. \A t \in Slots : kproc'[t].sending = k[t].sending
  BY <1>1, <1>2
<1>4. ASSUME err = "EBADCPU" PROVE cpu \notin ReadyCpus
  <2>1. KernelAnswer(s, p.gen, q, p.time_slice, cpu) = "EBADCPU"
    BY <1>4 DEF sys_schedule
  <2> HIDE DEF q
  <2> QED
    BY <2>1 DEF KernelAnswer, sched_proc_check
<1> QED
  BY <1>3, <1>4

\* One pick in a step that uses up a pick owed.
LEMMA PickOwed ==
  ASSUME NEW d, LoadsFit(d), SchedInv, LoadsInv(d), NEW s \in Slots, NEW p,
         cpu_proc' = Counted(cpu_proc, p), badcpu' = badcpu,
         \A t \in Slots \ {s} : schedproc'[t] = schedproc[t],
         schedproc'[s].cpu = pick_cpu(cpu_proc, p),
         Cardinality(PicksOwed) \in 0 .. MaxOwed,
         Cardinality(PicksOwed') \in 0 .. Cardinality(PicksOwed) - 1
  PROVE  LoadsInv(d)'
<1>1. /\ cpu_proc \in [Cpus -> UInt] /\ badcpu \in [Cpus -> Nat]
      /\ d \in Cpus /\ cpu_proc[d] \in Nat /\ MaxOwed \in Nat /\ MaxLoad \in Nat
  BY LoadNumbers DEF SchedInv, SchedTypeOK, UInt
<1>2. cpu_proc[d] <= MaxLoad + MaxOwed
  BY <1>1 DEF LoadsInv
<1>3. /\ DeadStayOut(Counted(cpu_proc, p), schedproc', badcpu, d)
      /\ Counted(cpu_proc, p)[d] <= cpu_proc[d] + 1
  BY <1>1, <1>2, PickKeepsOut DEF LoadsInv
<1>4. DeadStayOut(cpu_proc, schedproc, badcpu, d)'
  BY <1>3 DEF DeadStayOut, Held
<1>5. Counted(cpu_proc, p)[d] \in Int
  <2>1. \A c \in Cpus : (cpu_proc[c] + 1) % (UINT_MAX + 1) \in Nat
    BY <1>1, UIntArithmetic DEF UInt
  <2> QED
    BY <1>1, <2>1 DEF Counted
<1>6. cpu_proc'[d] + Cardinality(PicksOwed') <= MaxLoad + 1 + MaxOwed
  BY <1>1, <1>3, <1>5 DEF LoadsInv
<1> QED
  BY <1>4, <1>6 DEF LoadsInv

-----------------------------------------------------------------------------
LEMMA LoadsInit ==
  ASSUME NEW d, LoadsFit(d), SchedInit
  PROVE  LoadsInv(d)
<1>1. d \in Cpus /\ MaxOwed \in Nat /\ MaxLoad \in Nat
  BY LoadNumbers
<1>2. \A c : Held(schedproc, c) = {}
  BY DEF SchedInit, Held
<1>3. Cardinality(Held(schedproc, d)) = 0
  BY <1>2, FS_EmptySet
<1>4. DeadStayOut(cpu_proc, schedproc, badcpu, d)
  BY <1>1, <1>3 DEF SchedInit, DeadStayOut
<1>5. PicksOwed \in SUBSET AllPicks
  BY DEF PicksOwed
<1>6. Cardinality(PicksOwed) \in 0 .. MaxOwed
  BY <1>5, PicksCount
<1>7. cpu_proc[d] = 0
  BY <1>1 DEF SchedInit
<1> QED
  BY <1>1, <1>4, <1>6, <1>7 DEF LoadsInv

\* PM, RS and the kernel ask for more below MaxLoad only.
LEMMA LoadsEnvironment ==
  ASSUME NEW d, LoadsFit(d), SchedInv, LoadsInv(d), NEW s \in Slots,
         QuantumExpires(s) \/ Clear(s) \/ SpawnService(s) \/ \E c \in Slots : Fork(s, c)
  PROVE  LoadsInv(d)'
<1>1. UNCHANGED <<schedproc, cpu_proc, handler, cursor, badcpu>>
  BY DEF QuantumExpires, Clear, SpawnService, Fork
<1>2. DeadStayOut(cpu_proc, schedproc, badcpu, d)'
  BY <1>1 DEF LoadsInv, DeadStayOut, Held
<1>3. /\ cpu_proc \in [Cpus -> UInt] /\ kproc \in [Slots -> KProc] /\ kproc[s] \in KProc
      /\ pm \in [Slots -> PMStates]
      /\ d \in Cpus /\ d \in ReadyCpus \ {BSP} /\ cpu_proc[d] \in Nat
      /\ MaxOwed \in Nat /\ MaxLoad \in Nat
  BY LoadNumbers DEF SchedInv, SchedTypeOK, UInt
<1>4. CASE QuantumExpires(s) \/ SpawnService(s) \/ \E c \in Slots : Fork(s, c)
  <2>1. cpu_proc[d] <= MaxLoad
    BY <1>3, <1>4 DEF QuantumExpires, SpawnService, Fork, BelowMaxLoad
  <2>2. cpu_proc'[d] + Cardinality(PicksOwed') <= MaxLoad + 1 + MaxOwed
    BY <1>1, <1>3, <2>1, WorkAccepted
  <2> QED
    BY <1>2, <2>2 DEF LoadsInv
<1>5. CASE Clear(s)
  <2> DEFINE k == [kproc[s] EXCEPT !.alive = FALSE, !.gen = @ + 1, !.sending = FALSE]
  <2>1. ~k.sending
    BY <1>3 DEF KProc
  <2>2. kproc' = [kproc EXCEPT ![s] = k] /\ pm' = [pm EXCEPT ![s] = "free"]
    BY <1>5 DEF Clear
  <2> HIDE DEF k
  <2>3. \A t \in Slots : (kproc'[t].sending => kproc[t].sending) /\ (pm'[t] = "new" => pm[t] = "new")
    BY <1>3, <2>1, <2>2
  <2>4. Cardinality(PicksOwed') \in 0 .. Cardinality(PicksOwed)
        /\ Cardinality(PicksOwed) \in 0 .. MaxOwed
    BY <1>1, <2>3, OwedNoMore DEF IsOwed
  <2>5. cpu_proc[d] + Cardinality(PicksOwed) <= MaxLoad + 1 + MaxOwed
    BY DEF LoadsInv
  <2>6. cpu_proc'[d] + Cardinality(PicksOwed') <= MaxLoad + 1 + MaxOwed
    BY <1>1, <1>3, <2>4, <2>5
  <2> QED
    BY <1>2, <2>6 DEF LoadsInv
<1> QED
  BY <1>4, <1>5

\* The cpu of an entry after pick_cpu.
LEMMA PickedCpu ==
  ASSUME NEW load, NEW p \in SchedProc
  PROVE  /\ Picked(load, p).cpu = pick_cpu(load, p)
         /\ \A q : Picked(load, [p EXCEPT !.priority = q]).cpu
                     = pick_cpu(load, [p EXCEPT !.priority = q])
BY DEF Picked, SchedProc

\* Handling an out-of-quantum message, which has been waiting, picks once.
LEMMA LoadsNoquantum ==
  ASSUME NEW d, LoadsFit(d), SchedInv, LoadsInv(d), NEW s \in Slots, do_noquantum(s)
  PROVE  LoadsInv(d)'
<1> DEFINE received == [kproc EXCEPT ![s].sending = FALSE]
           lowered  == [schedproc[s] EXCEPT !.priority = NoquantumPriority(@)]
           x == <<"noquantum", s>>
<1>1. /\ UNCHANGED <<part, handler, cursor, pm, request, badcpu>> /\ handler = "none"
      /\ kproc[s].sending
  BY DEF do_noquantum
<1>2. /\ cpu_proc \in [Cpus -> UInt] /\ kproc \in [Slots -> KProc] /\ kproc[s] \in KProc
      /\ schedproc \in [Slots -> SchedProc] /\ schedproc[s] \in SchedProc
      /\ d \in Cpus /\ cpu_proc[d] \in Nat /\ MaxOwed \in Nat /\ MaxLoad \in Nat
  BY LoadNumbers DEF SchedInv, SchedTypeOK, UInt
<1>3. /\ received \in [Slots -> KProc] /\ ~received[s].sending
      /\ \A t \in Slots \ {s} : received[t] = kproc[t]
  <2> DEFINE k == [kproc[s] EXCEPT !.sending = FALSE]
  <2>1. k \in KProc /\ ~k.sending
    BY <1>2 DEF KProc
  <2>2. received = [kproc EXCEPT ![s] = k]
    BY <1>2
  <2> HIDE DEF k, received
  <2> QED
    BY <1>2, <2>1, <2>2
<1> HIDE DEF received
<1>4. \/ /\ \E err \in Answers : schedule_process_local("noquantum", received, s, lowered, err)
         /\ schedproc' = [schedproc EXCEPT ![s] = Picked(cpu_proc, lowered)]
      \/ kproc' = received /\ UNCHANGED <<schedproc, cpu_proc>>
  BY DEF do_noquantum, received
<1>5. Picked(cpu_proc, lowered).cpu = pick_cpu(cpu_proc, lowered)
  <2> DEFINE q == NoquantumPriority(schedproc[s].priority)
  <2>1. lowered = [schedproc[s] EXCEPT !.priority = q]
    OBVIOUS
  <2>2. schedproc[s] \in SchedProc
    BY <1>2
  <2> HIDE DEF q, lowered
  <2> QED
    BY <2>1, <2>2, PickedCpu
<1> HIDE DEF lowered
<1>6. \A t \in Slots : kproc'[t].sending = received[t].sending
  BY <1>3, <1>4, CallSending DEF schedule_process_local
<1>7. /\ Cardinality(PicksOwed') \in 0 .. Cardinality(PicksOwed) - 1
      /\ Cardinality(PicksOwed) \in 0 .. MaxOwed
  <2>1. x \in AllPicks /\ IsOwed(x[1], x[2])
    BY <1>1 DEF AllPicks, IsOwed
  <2>2. \A t \in Slots : \A kind \in {"noquantum", "start", "turn", "balance"} :
          IsOwed(kind, t)' => IsOwed(kind, t) /\ x # <<kind, t>>
    BY <1>1, <1>3, <1>6 DEF IsOwed
  <2>3. \A c \in Cpus : IsOwed("bad", c)' => IsOwed("bad", c) /\ x # <<"bad", c>>
    BY <1>1 DEF IsOwed
  <2> HIDE DEF x
  <2> QED
    BY <2>1, <2>2, <2>3, OwedLess
<1>8. CASE /\ \E err \in Answers : schedule_process_local("noquantum", received, s, lowered, err)
           /\ schedproc' = [schedproc EXCEPT ![s] = Picked(cpu_proc, lowered)]
  <2>1. cpu_proc' = Counted(cpu_proc, lowered)
    BY <1>8 DEF schedule_process_local
  <2>2. /\ schedproc'[s].cpu = pick_cpu(cpu_proc, lowered)
        /\ \A t \in Slots \ {s} : schedproc'[t] = schedproc[t]
    BY <1>2, <1>5, <1>8
  <2> QED
    BY <1>1, <1>7, <2>1, <2>2, PickOwed
<1>9. CASE UNCHANGED <<schedproc, cpu_proc>>
  <2>1. DeadStayOut(cpu_proc, schedproc, badcpu, d)'
    BY <1>1, <1>9 DEF LoadsInv, DeadStayOut, Held
  <2>2. cpu_proc'[d] + Cardinality(PicksOwed') <= MaxLoad + 1 + MaxOwed
    BY <1>2, <1>7, <1>9 DEF LoadsInv
  <2> QED
    BY <2>1, <2>2 DEF LoadsInv
<1> QED
  BY <1>4, <1>8, <1>9

\* do_nice picks once more than is owed, below MaxLoad.
LEMMA LoadsNice ==
  ASSUME NEW d, LoadsFit(d), SchedInv, LoadsInv(d), NEW s \in Slots, NEW new_q, do_nice(s, new_q)
  PROVE  LoadsInv(d)'
<1> DEFINE p == [schedproc[s] EXCEPT !.max_priority = new_q, !.priority = new_q]
<1>1. /\ UNCHANGED badcpu /\ BelowMaxLoad
  BY DEF do_nice
<1>2. /\ cpu_proc \in [Cpus -> UInt] /\ badcpu \in [Cpus -> Nat]
      /\ schedproc \in [Slots -> SchedProc] /\ schedproc[s] \in SchedProc
      /\ d \in Cpus /\ d \in ReadyCpus \ {BSP} /\ cpu_proc[d] \in Nat
      /\ MaxOwed \in Nat /\ MaxLoad \in Nat
  BY LoadNumbers DEF SchedInv, SchedTypeOK, UInt
<1>3. cpu_proc[d] <= MaxLoad /\ cpu_proc[d] <= MaxLoad + MaxOwed
  BY <1>1, <1>2 DEF BelowMaxLoad
<1>4. /\ cpu_proc' = Counted(cpu_proc, p)
      /\ \/ schedproc' = [schedproc EXCEPT ![s] = Picked(cpu_proc, p)]
         \/ schedproc' = [schedproc EXCEPT ![s] =
              [Picked(cpu_proc, p) EXCEPT !.priority = schedproc[s].priority,
                                          !.max_priority = schedproc[s].max_priority]]
  BY DEF do_nice, schedule_process_local
<1>5. /\ Picked(cpu_proc, p).cpu = pick_cpu(cpu_proc, p)
      /\ [Picked(cpu_proc, p) EXCEPT !.priority = schedproc[s].priority,
                                     !.max_priority = schedproc[s].max_priority].cpu
           = pick_cpu(cpu_proc, p)
  BY <1>2 DEF Picked, SchedProc
<1> HIDE DEF p
<1>6. /\ schedproc'[s].cpu = pick_cpu(cpu_proc, p)
      /\ \A t \in Slots \ {s} : schedproc'[t] = schedproc[t]
  BY <1>2, <1>4, <1>5
<1>7. /\ DeadStayOut(Counted(cpu_proc, p), schedproc', badcpu, d)
      /\ Counted(cpu_proc, p)[d] <= cpu_proc[d] + 1
  <2>1. DeadStayOut(cpu_proc, schedproc, badcpu, d)
    BY DEF LoadsInv
  <2> QED
    BY <1>2, <1>3, <1>6, <2>1, PickKeepsOut
<1>8. DeadStayOut(cpu_proc, schedproc, badcpu, d)'
  BY <1>1, <1>4, <1>7 DEF DeadStayOut, Held
<1>9. cpu_proc'[d] \in Nat
  <2>1. \A c \in Cpus : (cpu_proc[c] + 1) % (UINT_MAX + 1) \in Nat
    BY <1>2, UIntArithmetic DEF UInt
  <2> QED
    BY <1>2, <1>4, <2>1 DEF Counted
<1>10. cpu_proc'[d] + Cardinality(PicksOwed') <= MaxLoad + 1 + MaxOwed
  BY <1>3, <1>4, <1>7, <1>9, WorkAccepted
<1> QED
  BY <1>8, <1>10 DEF LoadsInv

LEMMA LoadsStop ==
  ASSUME NEW d, LoadsFit(d), SchedInv, LoadsInv(d), NEW s \in Slots, do_stop_scheduling(s)
  PROVE  LoadsInv(d)'
<1> DEFINE p == [schedproc[s] EXCEPT !.inuse = FALSE]
<1>1. /\ UNCHANGED <<handler, cursor, kproc, badcpu>>
      /\ pm' = [pm EXCEPT ![s] = "stopped"]
  BY DEF do_stop_scheduling
<1>2. /\ cpu_proc \in [Cpus -> UInt] /\ badcpu \in [Cpus -> Nat] /\ pm \in [Slots -> PMStates]
      /\ schedproc \in [Slots -> SchedProc] /\ schedproc[s] \in SchedProc
      /\ schedproc[s].cpu \in Cpus /\ ~p.inuse
      /\ d \in Cpus /\ cpu_proc[d] \in Nat /\ MaxOwed \in Nat /\ MaxLoad \in Nat
  BY LoadNumbers DEF SchedInv, SchedTypeOK, UInt, SchedProc
<1>3. DeadStayOut(cpu_proc, schedproc, badcpu, d)
  BY DEF LoadsInv
<1>4. DeadStayOut(cpu_proc', schedproc', badcpu, d) /\ cpu_proc'[d] <= cpu_proc[d]
  <2>1. CASE UNCHANGED <<schedproc, cpu_proc>>
    BY <1>2, <1>3, <2>1
  <2>2. CASE /\ IsOkEndpoint(s)
             /\ schedproc' = [schedproc EXCEPT ![s].inuse = FALSE]
             /\ cpu_proc' = IF CONFIG_SMP
                              THEN [cpu_proc EXCEPT
                                      ![schedproc[s].cpu] = (@ - 1) % (UINT_MAX + 1)]
                              ELSE cpu_proc
    <3>1. /\ schedproc'[s] = p /\ ~schedproc'[s].inuse
          /\ \A t \in Slots \ {s} : schedproc'[t] = schedproc[t]
      BY <1>2, <2>2
    <3>2. s \in Held(schedproc, schedproc[s].cpu)
      BY <2>2 DEF Held, IsOkEndpoint
    <3>3. \/ cpu_proc' = cpu_proc
          \/ cpu_proc' = [cpu_proc EXCEPT ![schedproc[s].cpu] = (@ - 1) % (UINT_MAX + 1)]
      BY <2>2
    <3> HIDE DEF p
    <3> QED
      BY <1>2, <1>3, <3>1, <3>2, <3>3, LeaveKeepsOut
  <2> QED
    BY <2>1, <2>2 DEF do_stop_scheduling
<1>5. DeadStayOut(cpu_proc, schedproc, badcpu, d)'
  BY <1>1, <1>4 DEF DeadStayOut, Held
<1>6. \A t \in Slots : pm'[t] = "new" => pm[t] = "new"
  BY <1>1, <1>2
<1>7. Cardinality(PicksOwed') \in 0 .. Cardinality(PicksOwed)
      /\ Cardinality(PicksOwed) \in 0 .. MaxOwed
  BY <1>1, <1>6, OwedNoMore DEF IsOwed
<1>8. cpu_proc'[d] \in Int
  BY <1>2, StopStep DEF SchedInv, SchedTypeOK, UInt
<1>9. cpu_proc'[d] + Cardinality(PicksOwed') <= MaxLoad + 1 + MaxOwed
  BY <1>2, <1>4, <1>7, <1>8 DEF LoadsInv
<1> QED
  BY <1>5, <1>9 DEF LoadsInv

\* A start request that is taken up picks once and leaves one pick to the loop;
\* one that is refused picks nothing.
LEMMA LoadsStart ==
  ASSUME NEW d, LoadsFit(d), SchedInv, LoadsInv(d), NEW s \in Slots, do_start_scheduling(s)
  PROVE  LoadsInv(d)'
<1> DEFINE p == [StartEntry(s) EXCEPT !.inuse = TRUE]
           x == <<"start", s>>
<1>1. UNCHANGED badcpu /\ handler = "none" /\ pm[s] = "new"
  BY DEF do_start_scheduling
<1>2. /\ cpu_proc \in [Cpus -> UInt] /\ badcpu \in [Cpus -> Nat]
      /\ kproc \in [Slots -> KProc] /\ kproc[s] \in KProc /\ pm \in [Slots -> PMStates]
      /\ schedproc \in [Slots -> SchedProc] /\ schedproc[s] \in SchedProc
      /\ d \in Cpus /\ cpu_proc[d] \in Nat /\ MaxOwed \in Nat /\ MaxLoad \in Nat
  BY LoadNumbers DEF SchedInv, SchedTypeOK, UInt
<1>3. DeadStayOut(cpu_proc, schedproc, badcpu, d)
  BY DEF LoadsInv
<1>4. x \in AllPicks /\ IsOwed(x[1], x[2])
  BY <1>1 DEF AllPicks, IsOwed
\* The request is refused: an entry in use stays, another one is not in use after it.
<1>5. ASSUME UNCHANGED <<cpu_proc, handler, cursor, kproc>>,
             pm' = [pm EXCEPT ![s] = "failed"],
             \A t \in Slots \ {s} : schedproc'[t] = schedproc[t],
             schedproc'[s] = schedproc[s] \/ ~schedproc'[s].inuse
      PROVE  LoadsInv(d)'
  <2>1. DeadStayOut(cpu_proc, schedproc', badcpu, d)
    <3>1. CASE ~schedproc'[s].inuse
      BY <1>2, <1>3, <1>5, <3>1, LeaveKeepsOut
    <3>2. CASE schedproc'[s] = schedproc[s]
      <4>1. \A t \in Slots : schedproc'[t] = schedproc[t]
        BY <1>5, <3>2
      <4>2. \A c : Held(schedproc', c) = Held(schedproc, c)
        BY <4>1 DEF Held
      <4> QED
        BY <1>3, <4>2 DEF DeadStayOut
    <3> QED
      BY <1>5, <3>1, <3>2
  <2>2. DeadStayOut(cpu_proc, schedproc, badcpu, d)'
    BY <1>1, <1>5, <2>1 DEF DeadStayOut, Held
  <2>3. \A t \in Slots : pm'[t] = "new" => pm[t] = "new"
    BY <1>2, <1>5
  <2>4. Cardinality(PicksOwed') \in 0 .. Cardinality(PicksOwed)
        /\ Cardinality(PicksOwed) \in 0 .. MaxOwed
    BY <1>1, <1>5, <2>3, OwedNoMore DEF IsOwed
  <2>5. cpu_proc'[d] + Cardinality(PicksOwed') <= MaxLoad + 1 + MaxOwed
    BY <1>2, <1>5, <2>4 DEF LoadsInv
  <2> QED
    BY <2>2, <2>5 DEF LoadsInv
\* The request is taken up.
<1>6. ASSUME request[s].maxprio < NR_SCHED_QUEUES, request[s].type = "INHERIT" => IsOkParent(s),
             kproc' = [kproc EXCEPT ![s].scheduled = TRUE],
             schedproc' = [schedproc EXCEPT ![s] = Picked(cpu_proc, p)],
             cpu_proc' = Counted(cpu_proc, p),
             handler' = "start", cursor' = s, UNCHANGED pm
      PROVE  LoadsInv(d)'
  <2>1. p \in SchedProc
    BY <1>6, StartEntryType DEF SchedProc
  <2> HIDE DEF p
  <2>2. /\ schedproc'[s].cpu = pick_cpu(cpu_proc, p)
        /\ \A t \in Slots \ {s} : schedproc'[t] = schedproc[t]
    BY <1>2, <1>6, <2>1, PickedCpu
  <2>3. \A t \in Slots : kproc'[t].sending = kproc[t].sending
    <3> DEFINE k == [kproc[s] EXCEPT !.scheduled = TRUE]
    <3>1. k.sending = kproc[s].sending
      BY <1>2 DEF KProc
    <3>2. kproc' = [kproc EXCEPT ![s] = k]
      BY <1>2, <1>6
    <3> HIDE DEF k
    <3> QED
      BY <1>2, <3>1, <3>2
  <2>4. \A t \in Slots : \A kind \in {"noquantum", "start", "turn", "balance"} :
          IsOwed(kind, t)' => IsOwed(kind, t) /\ x # <<kind, t>>
    BY <1>1, <1>6, <2>3 DEF IsOwed
  <2>5. \A c \in Cpus : IsOwed("bad", c)' => IsOwed("bad", c) /\ x # <<"bad", c>>
    BY <1>1 DEF IsOwed
  <2> HIDE DEF x
  <2>6. /\ Cardinality(PicksOwed') \in 0 .. Cardinality(PicksOwed) - 1
        /\ Cardinality(PicksOwed) \in 0 .. MaxOwed
    BY <1>4, <2>4, <2>5, OwedLess
  <2> QED
    BY <1>1, <1>6, <2>2, <2>6, PickOwed
<1>7. CASE schedproc[s].inuse
  BY <1>5, <1>7 DEF do_start_scheduling
<1>8. CASE ~schedproc[s].inuse
  <2>1. Populated(s) \in SchedProc /\ ~Populated(s).inuse
    BY <1>8, StartEntryType
  <2>2. \/ /\ schedproc' = [schedproc EXCEPT ![s] = Populated(s)]
           /\ pm' = [pm EXCEPT ![s] = "failed"]
           /\ UNCHANGED <<cpu_proc, handler, cursor, kproc>>
        \/ /\ request[s].maxprio < NR_SCHED_QUEUES
           /\ request[s].type = "INHERIT" => IsOkParent(s)
           /\ \/ /\ schedproc' = [schedproc EXCEPT ![s] = StartEntry(s)]
                 /\ pm' = [pm EXCEPT ![s] = "failed"]
                 /\ UNCHANGED <<cpu_proc, handler, cursor, kproc>>
              \/ /\ kproc' = [kproc EXCEPT ![s].scheduled = TRUE]
                 /\ schedproc' = [schedproc EXCEPT ![s] = Picked(cpu_proc, p)]
                 /\ cpu_proc' = Counted(cpu_proc, p)
                 /\ handler' = "start" /\ cursor' = s
                 /\ UNCHANGED pm
    BY <1>8 DEF do_start_scheduling
  <2>3. request[s].maxprio < NR_SCHED_QUEUES /\ (request[s].type = "INHERIT" => IsOkParent(s))
          => ~StartEntry(s).inuse
    BY <1>8, StartEntryType
  <2>4. ASSUME NEW e, ~e.inuse, schedproc' = [schedproc EXCEPT ![s] = e],
               pm' = [pm EXCEPT ![s] = "failed"],
               UNCHANGED <<cpu_proc, handler, cursor, kproc>>
        PROVE  LoadsInv(d)'
    <3>1. ~schedproc'[s].inuse /\ \A t \in Slots \ {s} : schedproc'[t] = schedproc[t]
      BY <1>2, <2>4
    <3> QED
      BY <1>5, <2>4, <3>1
  <2> HIDE DEF p
  <2>5. CASE /\ schedproc' = [schedproc EXCEPT ![s] = Populated(s)]
             /\ pm' = [pm EXCEPT ![s] = "failed"]
             /\ UNCHANGED <<cpu_proc, handler, cursor, kproc>>
    BY <2>1, <2>4, <2>5
  <2>6. CASE /\ request[s].maxprio < NR_SCHED_QUEUES
             /\ request[s].type = "INHERIT" => IsOkParent(s)
             /\ schedproc' = [schedproc EXCEPT ![s] = StartEntry(s)]
             /\ pm' = [pm EXCEPT ![s] = "failed"]
             /\ UNCHANGED <<cpu_proc, handler, cursor, kproc>>
    BY <2>3, <2>4, <2>6
  <2>7. CASE /\ request[s].maxprio < NR_SCHED_QUEUES
             /\ request[s].type = "INHERIT" => IsOkParent(s)
             /\ kproc' = [kproc EXCEPT ![s].scheduled = TRUE]
             /\ schedproc' = [schedproc EXCEPT ![s] = Picked(cpu_proc, p)]
             /\ cpu_proc' = Counted(cpu_proc, p)
             /\ handler' = "start" /\ cursor' = s
             /\ UNCHANGED pm
    BY <1>6, <2>7
  <2> QED
    BY <2>2, <2>5, <2>6, <2>7
<1> QED
  BY <1>7, <1>8

\* A slot the balancing loop passes is one pick fewer it has before it.
LEMMA LoadsBalance ==
  ASSUME NEW d, LoadsFit(d), SchedInv, LoadsInv(d), BalanceTurn
  PROVE  LoadsInv(d)'
<1> DEFINE s == cursor
           p == [schedproc[s] EXCEPT !.priority = BalancePriority(@)]
           x == <<"balance", s>>
<1>1. /\ UNCHANGED <<pm, badcpu>> /\ handler = "balance" /\ cursor' = cursor + 1
      /\ handler' \in {"none", "balance"}
  BY DEF BalanceTurn
<1>2. /\ cpu_proc \in [Cpus -> UInt] /\ kproc \in [Slots -> KProc]
      /\ s \in Slots /\ s \in Int /\ Slots \subseteq Int
      /\ schedproc \in [Slots -> SchedProc] /\ schedproc[s] \in SchedProc
      /\ d \in Cpus /\ cpu_proc[d] \in Nat /\ MaxOwed \in Nat /\ MaxLoad \in Nat
  BY <1>1, LoadNumbers, SchedAssumption DEF SchedInv, SchedTypeOK, LoopAtSlot, UInt, Slots
<1>3. \/ /\ \E err \in Answers : schedule_process_local("balance", kproc, s, p, err)
         /\ schedproc' = [schedproc EXCEPT ![s] = Picked(cpu_proc, p)]
      \/ UNCHANGED <<schedproc, cpu_proc, kproc>>
  BY DEF BalanceTurn
<1>4. Picked(cpu_proc, p).cpu = pick_cpu(cpu_proc, p)
  <2> DEFINE q == BalancePriority(schedproc[s].priority)
  <2>1. p = [schedproc[s] EXCEPT !.priority = q]
    OBVIOUS
  <2>2. schedproc[s] \in SchedProc
    BY <1>2
  <2> HIDE DEF q, p
  <2> QED
    BY <2>1, <2>2, PickedCpu
<1> HIDE DEF p
<1>5. \A t \in Slots : kproc'[t].sending = kproc[t].sending
  BY <1>2, <1>3, CallSending DEF schedule_process_local
<1>6. /\ Cardinality(PicksOwed') \in 0 .. Cardinality(PicksOwed) - 1
      /\ Cardinality(PicksOwed) \in 0 .. MaxOwed
  <2>1. x \in AllPicks /\ IsOwed(x[1], x[2])
    BY <1>1, <1>2 DEF AllPicks, IsOwed
  <2>2. \A t \in Slots : \A kind \in {"noquantum", "start", "turn", "balance"} :
          IsOwed(kind, t)' => IsOwed(kind, t) /\ x # <<kind, t>>
    <3>1. \A t \in Slots : cursor + 1 <= t => cursor <= t /\ cursor # t
      BY <1>2
    <3> QED
      BY <1>1, <1>5, <3>1 DEF IsOwed
  <2>3. \A c \in Cpus : IsOwed("bad", c)' => IsOwed("bad", c) /\ x # <<"bad", c>>
    BY <1>1 DEF IsOwed
  <2> HIDE DEF x
  <2> QED
    BY <2>1, <2>2, <2>3, OwedLess
<1>7. CASE /\ \E err \in Answers : schedule_process_local("balance", kproc, s, p, err)
           /\ schedproc' = [schedproc EXCEPT ![s] = Picked(cpu_proc, p)]
  <2>1. cpu_proc' = Counted(cpu_proc, p)
    BY <1>7 DEF schedule_process_local
  <2>2. /\ schedproc'[s].cpu = pick_cpu(cpu_proc, p)
        /\ \A t \in Slots \ {s} : schedproc'[t] = schedproc[t]
    BY <1>2, <1>4, <1>7
  <2> QED
    BY <1>1, <1>2, <1>6, <2>1, <2>2, PickOwed
<1>8. CASE UNCHANGED <<schedproc, cpu_proc>>
  <2>1. DeadStayOut(cpu_proc, schedproc, badcpu, d)'
    BY <1>1, <1>8 DEF LoadsInv, DeadStayOut, Held
  <2>2. cpu_proc'[d] + Cardinality(PicksOwed') <= MaxLoad + 1 + MaxOwed
    BY <1>2, <1>6, <1>8 DEF LoadsInv
  <2> QED
    BY <2>1, <2>2 DEF LoadsInv
<1> QED
  BY <1>3, <1>7, <1>8

\* One turn of the loop over EBADCPU: the pick of the turn was owed; a processor
\* that turns out bad pays for the pick after it.
LEMMA LoadsStartTurn ==
  ASSUME NEW d, LoadsFit(d), SchedInv, LoadsInv(d), StartTurn
  PROVE  LoadsInv(d)'
<1> DEFINE s    == cursor
           e    == schedproc[s]
           p    == Picked(cpu_proc, e)
           load == Counted(cpu_proc, e)
           left == [load EXCEPT ![p.cpu] = CPU_DEAD]
<1>1. handler = "start" /\ UNCHANGED cursor
  BY DEF StartTurn
<1>2. /\ cpu_proc \in [Cpus -> UInt] /\ badcpu \in [Cpus -> Nat] /\ pm \in [Slots -> PMStates]
      /\ kproc \in [Slots -> KProc] /\ s \in Slots
      /\ schedproc \in [Slots -> SchedProc] /\ e \in SchedProc
      /\ d \in Cpus /\ d \in ReadyCpus /\ cpu_proc[d] \in Nat
      /\ MaxOwed \in Nat /\ MaxLoad \in Nat
  BY <1>1, LoadNumbers DEF SchedInv, SchedTypeOK, LoopAtSlot, UInt
<1>3. /\ p \in SchedProc /\ load \in [Cpus -> UInt] /\ p.cpu = pick_cpu(cpu_proc, e)
      /\ p.cpu \in Cpus
  BY <1>2, PickedType, PickedCpu, PickCpuType
<1>4. left \in [Cpus -> UInt]
  <2>1. CPU_DEAD \in UInt
    BY SchedAssumption DEF CPU_DEAD, UInt
  <2> HIDE DEF load, p
  <2> QED
    BY <1>3, <2>1
<1>5. PICK err \in Answers :
        /\ sys_schedule("start", kproc, s, p, p.cpu, err)
        /\ \/ /\ err = "EBADCPU"
              /\ badcpu' = [badcpu EXCEPT ![p.cpu] = IF @ < 2 THEN @ + 1 ELSE @]
              /\ cpu_proc' = Counted(left, p)
              /\ schedproc' = [schedproc EXCEPT ![s] = Picked(left, p)]
              /\ UNCHANGED <<handler, pm>>
           \/ /\ cpu_proc' = load
              /\ schedproc' = [schedproc EXCEPT ![s] = p]
              /\ handler' = "none"
              /\ pm' = [pm EXCEPT ![s] = IF err = "OK" THEN "running" ELSE "failed"]
              /\ UNCHANGED badcpu
  BY DEF StartTurn
<1> HIDE DEF e, p, load, left
<1>6. \A t \in Slots : kproc'[t].sending = kproc[t].sending
  BY <1>2, <1>5, CallSending
<1>7. CASE /\ cpu_proc' = load
           /\ schedproc' = [schedproc EXCEPT ![s] = p]
           /\ handler' = "none"
           /\ pm' = [pm EXCEPT ![s] = IF err = "OK" THEN "running" ELSE "failed"]
           /\ UNCHANGED badcpu
  <2> DEFINE x == <<"turn", s>>
  <2>1. x \in AllPicks /\ IsOwed(x[1], x[2])
    BY <1>1, <1>2 DEF AllPicks, IsOwed
  <2>2. \A t \in Slots : \A kind \in {"noquantum", "start", "turn", "balance"} :
          IsOwed(kind, t)' => IsOwed(kind, t) /\ x # <<kind, t>>
    <3>1. pm'[s] # "new" /\ \A t \in Slots \ {s} : pm'[t] = pm[t]
      BY <1>2, <1>7
    <3> QED
      BY <1>1, <1>2, <1>6, <1>7, <3>1 DEF IsOwed
  <2>3. \A c \in Cpus : IsOwed("bad", c)' => IsOwed("bad", c) /\ x # <<"bad", c>>
    BY <1>7 DEF IsOwed
  <2> HIDE DEF x
  <2>4. /\ Cardinality(PicksOwed') \in 0 .. Cardinality(PicksOwed) - 1
        /\ Cardinality(PicksOwed) \in 0 .. MaxOwed
    BY <2>1, <2>2, <2>3, OwedLess
  <2>5. /\ schedproc'[s].cpu = pick_cpu(cpu_proc, e)
        /\ \A t \in Slots \ {s} : schedproc'[t] = schedproc[t]
    BY <1>2, <1>3, <1>7
  <2>6. cpu_proc' = Counted(cpu_proc, e) /\ badcpu' = badcpu
    BY <1>7 DEF load
  <2> HIDE DEF s
  <2> QED
    BY <1>2, <2>4, <2>5, <2>6, PickOwed
<1>8. CASE /\ err = "EBADCPU"
           /\ badcpu' = [badcpu EXCEPT ![p.cpu] = IF @ < 2 THEN @ + 1 ELSE @]
           /\ cpu_proc' = Counted(left, p)
           /\ schedproc' = [schedproc EXCEPT ![s] = Picked(left, p)]
           /\ UNCHANGED <<handler, pm>>
  <2> DEFINE q      == p.cpu
             x      == <<"bad", q>>
             y      == <<"turn", s>>
             table1 == [schedproc EXCEPT ![s] = p]
             bad1   == [badcpu EXCEPT ![q] = 1]
  \* The turn is still owed and q may yet turn out bad: the load of d is within bounds.
  <2>1. y \in PicksOwed
    BY <1>1, <1>2 DEF PicksOwed, AllPicks, IsOwed
  <2>2. Cardinality(PicksOwed) \in 1 .. MaxOwed
    <3>1. PicksOwed \in SUBSET AllPicks /\ {} \in SUBSET (PicksOwed \ {y})
      BY DEF PicksOwed
    <3>2. Cardinality({}) \in 0 .. Cardinality(PicksOwed) - 1 /\ Cardinality(PicksOwed) \in 0 .. MaxOwed
      BY <2>1, <3>1, PicksCount
    <3>3. Cardinality({}) = 0
      BY FS_EmptySet
    <3> QED
      BY <3>2, <3>3
  <2>3. DeadStayOut(cpu_proc, schedproc, badcpu, d) /\ cpu_proc[d] <= MaxLoad + MaxOwed
    BY <1>2, <2>2 DEF LoadsInv
  <2>4. q \in Cpus \ ReadyCpus
    BY <1>2, <1>3, <1>5, <1>8, CallSending
  <2>5. /\ table1[s].cpu = pick_cpu(cpu_proc, e)
        /\ \A t \in Slots \ {s} : table1[t] = schedproc[t]
    BY <1>2, <1>3
  <2> HIDE DEF table1
  <2>6. DeadStayOut(load, table1, badcpu, d) /\ badcpu[q] = 0 /\ load[d] = cpu_proc[d]
    <3>1. load = Counted(cpu_proc, e) /\ q = pick_cpu(cpu_proc, e) /\ pick_cpu(cpu_proc, e) \notin ReadyCpus
      BY <1>3, <2>4 DEF load
    <3>2. s \in Slots /\ cpu_proc \in [Cpus -> UInt] /\ badcpu \in [Cpus -> Nat]
      BY <1>2
    <3> HIDE DEF s, q
    <3>3. /\ DeadStayOut(Counted(cpu_proc, e), table1, badcpu, d)
          /\ badcpu[pick_cpu(cpu_proc, e)] = 0 /\ Counted(cpu_proc, e)[d] = cpu_proc[d]
      BY <2>3, <2>5, <3>1, <3>2, PickKeepsOut
    <3> QED
      BY <3>1, <3>3
  <2>7. DeadStayOut(left, table1, bad1, d)
    BY <1>2, <1>3, <2>4, <2>6, MarkKeepsOut DEF left
  <2>8. left[d] = cpu_proc[d] /\ bad1 \in [Cpus -> Nat] /\ badcpu' = bad1
    BY <1>2, <1>3, <1>8, <2>4, <2>6 DEF left
  <2>9. /\ schedproc'[s].cpu = pick_cpu(left, p)
        /\ \A t \in Slots \ {s} : schedproc'[t] = table1[t]
    <3>1. Picked(left, p).cpu = pick_cpu(left, p)
      BY <1>3, PickedCpu
    <3> QED
      BY <1>2, <1>8, <2>5, <3>1
  <2> HIDE DEF bad1
  <2>10. /\ DeadStayOut(Counted(left, p), schedproc', bad1, d)
         /\ Counted(left, p)[d] <= left[d] + 1
    <3>1. left[d] <= MaxLoad + MaxOwed
      BY <2>3, <2>8
    <3> HIDE DEF s
    <3> QED
      BY <1>2, <1>4, <2>7, <2>8, <2>9, <3>1, PickKeepsOut
  <2>11. DeadStayOut(cpu_proc, schedproc, badcpu, d)'
    BY <1>8, <2>8, <2>10 DEF DeadStayOut, Held
  <2>12. /\ Cardinality(PicksOwed') \in 0 .. Cardinality(PicksOwed) - 1
         /\ Cardinality(PicksOwed) \in 0 .. MaxOwed
    <3>1. x \in AllPicks /\ IsOwed(x[1], x[2])
      BY <1>3, <2>6 DEF AllPicks, IsOwed
    <3>2. \A t \in Slots : \A kind \in {"noquantum", "start", "turn", "balance"} :
            IsOwed(kind, t)' => IsOwed(kind, t) /\ x # <<kind, t>>
      BY <1>1, <1>6, <1>8 DEF IsOwed
    <3>3. \A c \in Cpus : IsOwed("bad", c)' => IsOwed("bad", c) /\ x # <<"bad", c>>
      <4>1. \A c \in Cpus : bad1[c] = 0 => badcpu[c] = 0 /\ c # q
        BY <1>2, <1>3 DEF bad1
      <4> HIDE DEF q
      <4> QED
        BY <2>8, <4>1 DEF IsOwed
    <3> HIDE DEF x
    <3> QED
      BY <3>1, <3>2, <3>3, OwedLess
  <2>13. cpu_proc'[d] \in Int
    <3>1. \A c \in Cpus : (left[c] + 1) % (UINT_MAX + 1) \in Nat
      BY <1>4, UIntArithmetic DEF UInt
    <3> QED
      BY <1>2, <1>4, <1>8, <2>8, <3>1 DEF Counted
  <2>14. cpu_proc'[d] + Cardinality(PicksOwed') <= MaxLoad + 1 + MaxOwed
    BY <1>2, <1>8, <2>8, <2>10, <2>12, <2>13 DEF LoadsInv
  <2> QED
    BY <2>11, <2>14 DEF LoadsInv
<1> QED
  BY <1>5, <1>7, <1>8

LEMMA LoadsStep ==
  ASSUME NEW d, LoadsFit(d)
  PROVE  SchedInv /\ LoadsInv(d) /\ [SchedNext]_schedVars => LoadsInv(d)'
<1> SUFFICES ASSUME SchedInv, LoadsInv(d), [SchedNext]_schedVars
             PROVE  LoadsInv(d)'
  OBVIOUS
<1>1. CASE UNCHANGED schedVars
  BY <1>1 DEF schedVars, LoadsInv, DeadStayOut, Held, PicksOwed, IsOwed
<1>2. ASSUME NEW s \in Slots,
             \/ QuantumExpires(s) \/ Clear(s) \/ SpawnService(s)
             \/ \E c \in Slots : Fork(s, c)
             \/ do_noquantum(s) \/ do_start_scheduling(s) \/ do_stop_scheduling(s)
             \/ \E q \in NiceQueues : do_nice(s, q)
      PROVE  LoadsInv(d)'
  BY <1>2, LoadsEnvironment, LoadsNoquantum, LoadsStart, LoadsStop, LoadsNice
<1>3. CASE BalanceBegin
  <2>1. UNCHANGED <<schedproc, cpu_proc, badcpu>> /\ BelowMaxLoad
    BY <1>3 DEF BalanceBegin
  <2>2. DeadStayOut(cpu_proc, schedproc, badcpu, d)'
    BY <2>1 DEF LoadsInv, DeadStayOut, Held
  <2>3. d \in ReadyCpus \ {BSP} /\ cpu_proc[d] \in Nat
    BY LoadNumbers DEF SchedInv, SchedTypeOK, UInt
  <2>4. cpu_proc[d] <= MaxLoad
    BY <2>1, <2>3 DEF BelowMaxLoad
  <2>5. cpu_proc'[d] + Cardinality(PicksOwed') <= MaxLoad + 1 + MaxOwed
    BY <2>1, <2>3, <2>4, WorkAccepted
  <2> QED
    BY <2>2, <2>5 DEF LoadsInv
<1>4. CASE StartTurn \/ BalanceTurn
  BY <1>4, LoadsStartTurn, LoadsBalance
<1> QED
  BY <1>1, <1>2, <1>3, <1>4 DEF SchedNext

-----------------------------------------------------------------------------
(***************************************************************************)
(* The machine with no ready processor but the boot processor.  There the  *)
(* load of a dead processor stays the largest unsigned for another reason: *)
(* init is the first process that asks for another processor, its start is *)
(* answered once all of them are dead, and init never leaves.              *)
(***************************************************************************)
AllOut(load) == CONFIG_SMP => \A c \in Cpus \ {BSP} : load[c] = UINT_MAX

DeadFull(load, bad) ==
  \A c \in Cpus : bad[c] # 0 => bad[c] = 1 /\ c \notin ReadyCpus /\ load[c] = UINT_MAX

\* init has been started, as the process it is, not a service in its slot.
InitRuns == pm[INIT] = "running" /\ request[INIT].parent # RS

OthersOnBoot ==
  \A s \in Slots \ {INIT} :
    schedproc[s].inuse => schedproc[s].cpu = BSP /\ (schedproc[s].parent = RS \/ InitRuns)

StartedIsNew ==
  handler = "start" => pm[cursor] = "new" /\ schedproc[cursor].parent = request[cursor].parent

UsersFollowInit ==
  \A s \in Slots \ {INIT} : pm[s] # "free" /\ request[s].parent # RS => InitRuns

BootInv ==
  /\ DeadFull(cpu_proc, badcpu) /\ OthersOnBoot /\ StartedIsNew /\ UsersFollowInit
  /\ InitRuns => AllOut(cpu_proc)

\* No pick takes a processor with the largest load; a service, and any process
\* when there is no other processor left, gets the boot processor.
LEMMA PickLeavesFull ==
  ASSUME NEW load \in [Cpus -> UInt], NEW p
  PROVE  /\ \A c \in Cpus \ {BSP} :
              load[c] = UINT_MAX => pick_cpu(load, p) # c /\ Counted(load, p)[c] = UINT_MAX
         /\ p.parent = RS \/ AllOut(load) => pick_cpu(load, p) = BSP
         /\ pick_cpu(load, p) \in Cpus /\ Counted(load, p) \in [Cpus -> UInt]
         /\ ~PicksBsp(p) /\ pick_cpu(load, p) = BSP => AllOut(load)
<1> DEFINE q == pick_cpu(load, p)
<1>0. BSP \in Cpus
  BY SchedAssumption DEF BSP, Cpus
<1>1. \/ q = BSP /\ (PicksBsp(p) \/ \A c \in Cpus \ {BSP} : load[c] = UINT_MAX)
      \/ ~PicksBsp(p) /\ q \in Cpus \ {BSP} /\ load[q] < UINT_MAX
  BY PickCpuLeast
<1>2. Counted(load, p) = IF PicksBsp(p) THEN load
                         ELSE [load EXCEPT ![q] = (@ + 1) % (UINT_MAX + 1)]
  BY DEF Counted
<1>3. PicksBsp(p) => q = BSP
  BY DEF pick_cpu
<1>4. p.parent = RS \/ ~CONFIG_SMP => PicksBsp(p)
  BY DEF PicksBsp
<1> HIDE DEF q
<1>5. UINT_MAX \in Nat
  BY SchedAssumption
<1>6. ASSUME NEW c \in Cpus \ {BSP}, load[c] = UINT_MAX
      PROVE  q # c /\ Counted(load, p)[c] = UINT_MAX
  <2>1. q # c
    BY <1>1, <1>5, <1>6
  <2> QED
    BY <1>2, <1>6, <2>1
<1>7. q \in Cpus
  BY <1>0, <1>1
<1>8. Counted(load, p) \in [Cpus -> UInt]
  <2>1. \A c \in Cpus : (load[c] + 1) % (UINT_MAX + 1) \in UInt
    BY UIntArithmetic
  <2> QED
    BY <1>2, <1>7, <2>1
<1>9. p.parent = RS \/ AllOut(load) => q = BSP
  BY <1>1, <1>3, <1>4, <1>5 DEF AllOut
<1>10. ~PicksBsp(p) /\ q = BSP => AllOut(load)
  BY <1>1 DEF AllOut
<1> QED
  BY <1>6, <1>7, <1>8, <1>9, <1>10 DEF q

LEMMA PickKeepsFull ==
  ASSUME NEW load \in [Cpus -> UInt], NEW bad, NEW p, BSP \in ReadyCpus, DeadFull(load, bad)
  PROVE  /\ DeadFull(Counted(load, p), bad)
         /\ AllOut(load) => AllOut(Counted(load, p))
         /\ pick_cpu(load, p) \notin ReadyCpus => bad[pick_cpu(load, p)] = 0
<1>1. \A c \in Cpus : bad[c] # 0 => c \in Cpus \ {BSP} /\ load[c] = UINT_MAX
  BY DEF DeadFull
<1>2. pick_cpu(load, p) \in Cpus
  BY PickLeavesFull
<1>3. \A c \in Cpus \ {BSP} :
        load[c] = UINT_MAX => pick_cpu(load, p) # c /\ Counted(load, p)[c] = UINT_MAX
  BY PickLeavesFull
<1>4. DeadFull(Counted(load, p), bad)
  BY <1>1, <1>3 DEF DeadFull
<1>5. AllOut(load) => AllOut(Counted(load, p))
  BY <1>3 DEF AllOut
<1> QED
  BY <1>1, <1>2, <1>3, <1>4, <1>5

LEMMA BootInit == SchedInit => BootInv
<1> SUFFICES ASSUME SchedInit PROVE BootInv
  OBVIOUS
<1>1. DeadFull(cpu_proc, badcpu) /\ OthersOnBoot /\ StartedIsNew /\ UsersFollowInit
  BY DEF SchedInit, DeadFull, OthersOnBoot, StartedIsNew, UsersFollowInit
<1>2. INIT \in Slots
  BY SchedAssumption DEF INIT, Slots
<1>3. ~InitRuns
  BY <1>2 DEF SchedInit, InitRuns
<1> QED
  BY <1>1, <1>3 DEF BootInv

\* What a process asks for before init runs, it asks for as a service.
LEMMA BootEnvironment ==
  ASSUME SchedInv, BootInv, NEW s \in Slots,
         QuantumExpires(s) \/ Clear(s) \/ SpawnService(s) \/ \E c \in Slots : Fork(s, c)
  PROVE  BootInv'
<1>0. /\ pm \in [Slots -> PMStates] /\ request \in [Slots -> Request] /\ INIT \in Slots
      /\ handler = "start" => cursor \in Slots
  BY SchedAssumption DEF SchedInv, SchedTypeOK, LoopAtSlot, INIT, Slots
<1>1. UNCHANGED <<schedproc, cpu_proc, handler, cursor, badcpu>>
  BY DEF QuantumExpires, Clear, SpawnService, Fork
<1>2. DeadFull(cpu_proc, badcpu)' /\ AllOut(cpu_proc)' = AllOut(cpu_proc)
  BY <1>1 DEF BootInv, DeadFull, AllOut
<1>3. CASE QuantumExpires(s)
  <2>1. UNCHANGED <<pm, request>>
    BY <1>3 DEF QuantumExpires
  <2> QED
    BY <1>1, <1>2, <2>1
       DEF BootInv, OthersOnBoot, StartedIsNew, UsersFollowInit, InitRuns
<1>4. CASE Clear(s)
  <2>1. pm[s] \in {"stopped", "failed"} /\ pm' = [pm EXCEPT ![s] = "free"] /\ UNCHANGED request
    BY <1>4 DEF Clear
  <2>2. InitRuns' = InitRuns
    BY <1>0, <2>1 DEF InitRuns
  <2>3. OthersOnBoot' /\ StartedIsNew' /\ UsersFollowInit'
    BY <1>0, <1>1, <2>1, <2>2 DEF BootInv, OthersOnBoot, StartedIsNew, UsersFollowInit
  <2> QED
    BY <1>2, <2>2, <2>3 DEF BootInv
<1>5. CASE SpawnService(s)
  <2>1. /\ pm[s] = "free" /\ pm' = [pm EXCEPT ![s] = "new"]
        /\ request'[s].parent = RS /\ \A t \in Slots \ {s} : request'[t] = request[t]
    BY <1>0, <1>5 DEF SpawnService
  <2>2. InitRuns' = InitRuns
    BY <1>0, <2>1 DEF InitRuns
  <2>3. OthersOnBoot' /\ StartedIsNew' /\ UsersFollowInit'
    BY <1>0, <1>1, <2>1, <2>2 DEF BootInv, OthersOnBoot, StartedIsNew, UsersFollowInit
  <2> QED
    BY <1>2, <2>2, <2>3 DEF BootInv
<1>6. ASSUME NEW c \in Slots, Fork(s, c) PROVE BootInv'
  <2>1. /\ pm[s] = "running" /\ request[s].parent # RS
        /\ pm[c] = "free" /\ pm' = [pm EXCEPT ![c] = "new"]
        /\ \A t \in Slots \ {c} : request'[t] = request[t]
    BY <1>0, <1>6 DEF Fork
  <2>2. InitRuns
    BY <2>1 DEF BootInv, UsersFollowInit, InitRuns
  <2>3. InitRuns'
    BY <1>0, <2>1, <2>2 DEF InitRuns
  <2>4. OthersOnBoot' /\ StartedIsNew' /\ UsersFollowInit'
    BY <1>0, <1>1, <2>1, <2>3 DEF BootInv, OthersOnBoot, StartedIsNew, UsersFollowInit
  <2> QED
    BY <1>2, <2>2, <2>4 DEF BootInv
<1> QED
  BY <1>3, <1>4, <1>5, <1>6

\* A pick for the entry of a slot in use.
LEMMA BootPick ==
  ASSUME SchedInv, BootInv, BSP \in ReadyCpus, NEW s \in Slots, NEW p,
         p.parent = schedproc[s].parent, schedproc[s].inuse,
         cpu_proc' = Counted(cpu_proc, p), badcpu' = badcpu, pm' = pm,
         \A t \in Slots \ {s} : schedproc'[t] = schedproc[t],
         schedproc'[s].cpu = pick_cpu(cpu_proc, p), schedproc'[s].parent = p.parent,
         \A t \in Slots : request'[t].parent = request[t].parent,
         handler # "start", handler' # "start"
  PROVE  BootInv'
<1>0. cpu_proc \in [Cpus -> UInt] /\ INIT \in Slots
  BY SchedAssumption DEF SchedInv, SchedTypeOK, INIT, Slots
<1>1. InitRuns' = InitRuns
  BY <1>0 DEF InitRuns
<1>2. /\ DeadFull(Counted(cpu_proc, p), badcpu)
      /\ AllOut(cpu_proc) => AllOut(Counted(cpu_proc, p))
  BY <1>0, PickKeepsFull DEF BootInv
<1>3. DeadFull(cpu_proc, badcpu)' /\ (InitRuns' => AllOut(cpu_proc)')
  BY <1>1, <1>2 DEF BootInv, DeadFull, AllOut
<1>4. s # INIT => pick_cpu(cpu_proc, p) = BSP
  <2>1. s # INIT => p.parent = RS \/ AllOut(cpu_proc)
    BY DEF BootInv, OthersOnBoot
  <2> QED
    BY <1>0, <2>1, PickLeavesFull
<1>5. OthersOnBoot'
  BY <1>1, <1>4 DEF BootInv, OthersOnBoot
<1>6. UsersFollowInit'
  BY <1>1 DEF BootInv, UsersFollowInit
<1> QED
  BY <1>3, <1>5, <1>6 DEF BootInv, StartedIsNew

LEMMA BootNoquantum ==
  ASSUME SchedInv, BootInv, BSP \in ReadyCpus, NEW s \in Slots, do_noquantum(s)
  PROVE  BootInv'
<1> DEFINE lowered == [schedproc[s] EXCEPT !.priority = NoquantumPriority(@)]
<1>1. UNCHANGED <<handler, cursor, pm, request, badcpu>> /\ handler = "none"
  BY DEF do_noquantum
<1>2. schedproc \in [Slots -> SchedProc] /\ schedproc[s] \in SchedProc
  BY DEF SchedInv, SchedTypeOK
<1>3. CASE IsOkEndpoint(s)
  <2>1. /\ cpu_proc' = Counted(cpu_proc, lowered)
        /\ schedproc' = [schedproc EXCEPT ![s] = Picked(cpu_proc, lowered)]
    BY <1>3 DEF do_noquantum, schedule_process_local
  <2>2. /\ lowered.parent = schedproc[s].parent /\ schedproc[s].inuse
        /\ Picked(cpu_proc, lowered).cpu = pick_cpu(cpu_proc, lowered)
        /\ Picked(cpu_proc, lowered).parent = lowered.parent
    <3> DEFINE q == NoquantumPriority(schedproc[s].priority)
    <3>1. lowered = [schedproc[s] EXCEPT !.priority = q]
      OBVIOUS
    <3> HIDE DEF q
    <3> QED
      BY <1>2, <1>3, <3>1 DEF Picked, SchedProc, IsOkEndpoint
  <2> HIDE DEF lowered
  <2>3. /\ \A t \in Slots \ {s} : schedproc'[t] = schedproc[t]
        /\ schedproc'[s] = Picked(cpu_proc, lowered)
    BY <1>2, <2>1
  <2> QED
    BY <1>1, <2>1, <2>2, <2>3, BootPick
<1>4. CASE ~IsOkEndpoint(s)
  <2>1. UNCHANGED <<schedproc, cpu_proc>>
    BY <1>4 DEF do_noquantum
  <2> QED
    BY <1>1, <2>1 DEF BootInv, DeadFull, AllOut, OthersOnBoot, StartedIsNew, UsersFollowInit, InitRuns
<1> QED
  BY <1>3, <1>4

LEMMA BootNice ==
  ASSUME SchedInv, BootInv, BSP \in ReadyCpus, NEW s \in Slots, NEW new_q, do_nice(s, new_q)
  PROVE  BootInv'
<1> DEFINE p == [schedproc[s] EXCEPT !.max_priority = new_q, !.priority = new_q]
           e == [Picked(cpu_proc, p) EXCEPT !.priority = schedproc[s].priority,
                                            !.max_priority = schedproc[s].max_priority]
<1>1. UNCHANGED <<handler, cursor, pm, badcpu>> /\ handler = "none" /\ IsOkEndpoint(s)
  BY DEF do_nice
<1>2. /\ schedproc \in [Slots -> SchedProc] /\ schedproc[s] \in SchedProc
      /\ request \in [Slots -> Request] /\ request[s] \in Request
  BY DEF SchedInv, SchedTypeOK
<1>3. /\ cpu_proc' = Counted(cpu_proc, p)
      /\ \/ schedproc' = [schedproc EXCEPT ![s] = Picked(cpu_proc, p)]
         \/ schedproc' = [schedproc EXCEPT ![s] = e]
      /\ \/ request' = [request EXCEPT ![s].maxprio = new_q]
         \/ request' = request
  BY DEF do_nice, schedule_process_local
<1>4. /\ p.parent = schedproc[s].parent /\ schedproc[s].inuse
      /\ Picked(cpu_proc, p).cpu = pick_cpu(cpu_proc, p) /\ e.cpu = pick_cpu(cpu_proc, p)
      /\ Picked(cpu_proc, p).parent = p.parent /\ e.parent = p.parent
  BY <1>1, <1>2 DEF Picked, SchedProc, IsOkEndpoint
<1> HIDE DEF p, e
<1>5. /\ \A t \in Slots \ {s} : schedproc'[t] = schedproc[t]
      /\ schedproc'[s].cpu = pick_cpu(cpu_proc, p) /\ schedproc'[s].parent = p.parent
  BY <1>2, <1>3, <1>4
<1>6. \A t \in Slots : request'[t].parent = request[t].parent
  <2> DEFINE r == [request[s] EXCEPT !.maxprio = new_q]
  <2>1. r.parent = request[s].parent
    BY <1>2 DEF Request
  <2>2. request' = [request EXCEPT ![s] = r] \/ request' = request
    BY <1>2, <1>3
  <2> HIDE DEF r
  <2> QED
    BY <1>2, <2>1, <2>2
<1> QED
  BY <1>1, <1>3, <1>4, <1>5, <1>6, BootPick

LEMMA BootBalance ==
  ASSUME SchedInv, BootInv, BSP \in ReadyCpus, BalanceTurn
  PROVE  BootInv'
<1> DEFINE s == cursor
           p == [schedproc[s] EXCEPT !.priority = BalancePriority(@)]
<1>1. /\ UNCHANGED <<pm, request, badcpu>> /\ handler = "balance" /\ handler' # "start"
  BY DEF BalanceTurn
<1>2. s \in Slots /\ schedproc \in [Slots -> SchedProc] /\ schedproc[s] \in SchedProc
  BY <1>1 DEF SchedInv, SchedTypeOK, LoopAtSlot
<1>3. CASE BumpedDown(s)
  <2>1. /\ cpu_proc' = Counted(cpu_proc, p)
        /\ schedproc' = [schedproc EXCEPT ![s] = Picked(cpu_proc, p)]
    BY <1>3 DEF BalanceTurn, schedule_process_local
  <2>2. /\ p.parent = schedproc[s].parent /\ schedproc[s].inuse
        /\ Picked(cpu_proc, p).cpu = pick_cpu(cpu_proc, p)
        /\ Picked(cpu_proc, p).parent = p.parent
    <3> DEFINE q == BalancePriority(schedproc[s].priority)
    <3>1. p = [schedproc[s] EXCEPT !.priority = q]
      OBVIOUS
    <3> HIDE DEF q
    <3> QED
      BY <1>2, <1>3, <3>1 DEF Picked, SchedProc, BumpedDown
  <2> HIDE DEF p
  <2>3. /\ \A t \in Slots \ {s} : schedproc'[t] = schedproc[t]
        /\ schedproc'[s] = Picked(cpu_proc, p)
    BY <1>2, <2>1
  <2> HIDE DEF s
  <2> QED
    BY <1>1, <1>2, <2>1, <2>2, <2>3, BootPick
<1>4. CASE ~BumpedDown(s)
  <2>1. UNCHANGED <<schedproc, cpu_proc>>
    BY <1>4 DEF BalanceTurn
  <2> QED
    BY <1>1, <2>1 DEF BootInv, DeadFull, AllOut, OthersOnBoot, StartedIsNew, UsersFollowInit, InitRuns
<1> QED
  BY <1>3, <1>4

\* Only the boot processor's load falls: init, the one process elsewhere, stays.
LEMMA BootStop ==
  ASSUME SchedInv, BootInv, BSP \in ReadyCpus, NEW s \in Slots, do_stop_scheduling(s)
  PROVE  BootInv'
<1>1. /\ UNCHANGED <<handler, cursor, kproc, badcpu, request>> /\ handler = "none" /\ s # INIT
      /\ pm[s] # "free" /\ pm' = [pm EXCEPT ![s] = "stopped"]
  BY DEF do_stop_scheduling
<1>2. /\ pm \in [Slots -> PMStates] /\ schedproc \in [Slots -> SchedProc]
      /\ schedproc[s] \in SchedProc /\ INIT \in Slots /\ cpu_proc \in [Cpus -> UInt]
  BY SchedAssumption DEF SchedInv, SchedTypeOK, INIT, Slots
<1>3. InitRuns' = InitRuns
  BY <1>1, <1>2 DEF InitRuns
<1>4. \A c \in Cpus \ {BSP} : cpu_proc'[c] = cpu_proc[c]
  <2>1. IsOkEndpoint(s) => schedproc[s].cpu = BSP
    BY <1>1 DEF IsOkEndpoint, BootInv, OthersOnBoot
  <2>2. \/ cpu_proc' = cpu_proc
        \/ schedproc[s].cpu = BSP
           /\ cpu_proc' = [cpu_proc EXCEPT ![schedproc[s].cpu] = (@ - 1) % (UINT_MAX + 1)]
    BY <2>1 DEF do_stop_scheduling
  <2> QED
    BY <1>2, <2>2
<1>5. DeadFull(cpu_proc, badcpu)'
  BY <1>1, <1>4 DEF BootInv, DeadFull
<1>6. InitRuns' => AllOut(cpu_proc)'
  BY <1>3, <1>4 DEF BootInv, AllOut
<1>7. OthersOnBoot'
  <2>1. \/ schedproc' = schedproc
        \/ schedproc' = [schedproc EXCEPT ![s].inuse = FALSE]
    BY DEF do_stop_scheduling
  <2>2. /\ \A t \in Slots \ {s} : schedproc'[t] = schedproc[t]
        /\ schedproc'[s] = schedproc[s] \/ ~schedproc'[s].inuse
    BY <1>2, <2>1 DEF SchedProc
  <2> QED
    BY <1>3, <2>2 DEF BootInv, OthersOnBoot
<1>8. UsersFollowInit'
  BY <1>1, <1>2, <1>3 DEF BootInv, UsersFollowInit
<1> QED
  BY <1>1, <1>5, <1>6, <1>7, <1>8 DEF BootInv, StartedIsNew

LEMMA BootStart ==
  ASSUME SchedInv, BootInv, BSP \in ReadyCpus, NEW s \in Slots, do_start_scheduling(s)
  PROVE  BootInv'
<1> DEFINE p == [StartEntry(s) EXCEPT !.inuse = TRUE]
<1>1. UNCHANGED <<badcpu, request>> /\ handler = "none" /\ pm[s] = "new"
  BY DEF do_start_scheduling
<1>2. /\ pm \in [Slots -> PMStates] /\ schedproc \in [Slots -> SchedProc]
      /\ schedproc[s] \in SchedProc /\ INIT \in Slots /\ cpu_proc \in [Cpus -> UInt]
  BY SchedAssumption DEF SchedInv, SchedTypeOK, INIT, Slots
\* The request is refused.
<1>3. ASSUME UNCHANGED <<cpu_proc, handler>>, pm' = [pm EXCEPT ![s] = "failed"],
             \A t \in Slots \ {s} : schedproc'[t] = schedproc[t],
             schedproc'[s] = schedproc[s] \/ ~schedproc'[s].inuse
      PROVE  BootInv'
  <2>1. InitRuns' = InitRuns
    BY <1>1, <1>2, <1>3 DEF InitRuns
  <2>2. DeadFull(cpu_proc, badcpu)' /\ (InitRuns' => AllOut(cpu_proc)')
    BY <1>1, <1>3, <2>1 DEF BootInv, DeadFull, AllOut
  <2>3. OthersOnBoot'
    BY <1>3, <2>1 DEF BootInv, OthersOnBoot
  <2>4. UsersFollowInit'
    BY <1>1, <1>2, <1>3, <2>1 DEF BootInv, UsersFollowInit
  <2> QED
    BY <1>1, <1>3, <2>2, <2>3, <2>4 DEF BootInv, StartedIsNew
\* The request is taken up.
<1>4. ASSUME NEW e \in SchedProc, e.parent = request[s].parent,
             schedproc' = [schedproc EXCEPT ![s] = Picked(cpu_proc, e)],
             cpu_proc' = Counted(cpu_proc, e),
             handler' = "start", cursor' = s, UNCHANGED pm
      PROVE  BootInv'
  <2>1. InitRuns' = InitRuns
    BY <1>1, <1>4 DEF InitRuns
  <2>2. /\ DeadFull(Counted(cpu_proc, e), badcpu)
        /\ AllOut(cpu_proc) => AllOut(Counted(cpu_proc, e))
    BY <1>2, PickKeepsFull DEF BootInv
  <2>3. DeadFull(cpu_proc, badcpu)' /\ (InitRuns' => AllOut(cpu_proc)')
    BY <1>1, <1>4, <2>1, <2>2 DEF BootInv, DeadFull, AllOut
  <2>4. Picked(cpu_proc, e).cpu = pick_cpu(cpu_proc, e) /\ Picked(cpu_proc, e).parent = e.parent
    BY PickedCpu, PickedKeeps
  <2>5. /\ schedproc'[s] = Picked(cpu_proc, e)
        /\ \A t \in Slots \ {s} : schedproc'[t] = schedproc[t]
    BY <1>2, <1>4
  <2>6. s # INIT => e.parent = RS \/ InitRuns
    BY <1>1, <1>4 DEF BootInv, UsersFollowInit
  <2>7. s # INIT => pick_cpu(cpu_proc, e) = BSP
    BY <1>2, <2>6, PickLeavesFull DEF BootInv
  <2>8. OthersOnBoot'
    BY <2>1, <2>4, <2>5, <2>6, <2>7 DEF BootInv, OthersOnBoot
  <2>9. StartedIsNew'
    BY <1>1, <1>4, <2>4, <2>5 DEF StartedIsNew
  <2>10. UsersFollowInit'
    BY <1>1, <1>4, <2>1 DEF BootInv, UsersFollowInit
  <2> QED
    BY <2>3, <2>8, <2>9, <2>10 DEF BootInv
<1>5. CASE schedproc[s].inuse
  BY <1>3, <1>5 DEF do_start_scheduling
<1>6. CASE ~schedproc[s].inuse
  <2>1. Populated(s) \in SchedProc /\ ~Populated(s).inuse /\ Populated(s).parent = request[s].parent
    <3>1. Populated(s) \in SchedProc /\ ~Populated(s).inuse
      BY <1>6, StartEntryType
    <3> QED
      BY <1>2, <3>1 DEF Populated, SchedProc
  <2>2. request[s].maxprio < NR_SCHED_QUEUES /\ (request[s].type = "INHERIT" => IsOkParent(s))
          => StartEntry(s) \in SchedProc /\ ~StartEntry(s).inuse
             /\ StartEntry(s).parent = request[s].parent
    <3>1. StartEntry(s).parent = Populated(s).parent
      BY <2>1 DEF StartEntry, SchedProc
    <3> QED
      BY <1>6, <2>1, <3>1, StartEntryType
  <2>3. \/ /\ schedproc' = [schedproc EXCEPT ![s] = Populated(s)]
           /\ pm' = [pm EXCEPT ![s] = "failed"]
           /\ UNCHANGED <<cpu_proc, handler>>
        \/ /\ request[s].maxprio < NR_SCHED_QUEUES
           /\ request[s].type = "INHERIT" => IsOkParent(s)
           /\ \/ /\ schedproc' = [schedproc EXCEPT ![s] = StartEntry(s)]
                 /\ pm' = [pm EXCEPT ![s] = "failed"]
                 /\ UNCHANGED <<cpu_proc, handler>>
              \/ /\ schedproc' = [schedproc EXCEPT ![s] = Picked(cpu_proc, p)]
                 /\ cpu_proc' = Counted(cpu_proc, p)
                 /\ handler' = "start" /\ cursor' = s
                 /\ UNCHANGED pm
    BY <1>6 DEF do_start_scheduling
  <2>4. ASSUME NEW e, ~e.inuse, schedproc' = [schedproc EXCEPT ![s] = e],
               pm' = [pm EXCEPT ![s] = "failed"], UNCHANGED <<cpu_proc, handler>>
        PROVE  BootInv'
    <3>1. ~schedproc'[s].inuse /\ \A t \in Slots \ {s} : schedproc'[t] = schedproc[t]
      BY <1>2, <2>4
    <3> QED
      BY <1>3, <2>4, <3>1
  <2>5. CASE /\ schedproc' = [schedproc EXCEPT ![s] = Populated(s)]
             /\ pm' = [pm EXCEPT ![s] = "failed"]
             /\ UNCHANGED <<cpu_proc, handler>>
    BY <2>1, <2>4, <2>5
  <2>6. CASE /\ request[s].maxprio < NR_SCHED_QUEUES
             /\ request[s].type = "INHERIT" => IsOkParent(s)
             /\ schedproc' = [schedproc EXCEPT ![s] = StartEntry(s)]
             /\ pm' = [pm EXCEPT ![s] = "failed"]
             /\ UNCHANGED <<cpu_proc, handler>>
    BY <2>2, <2>4, <2>6
  <2>7. CASE /\ request[s].maxprio < NR_SCHED_QUEUES
             /\ request[s].type = "INHERIT" => IsOkParent(s)
             /\ schedproc' = [schedproc EXCEPT ![s] = Picked(cpu_proc, p)]
             /\ cpu_proc' = Counted(cpu_proc, p)
             /\ handler' = "start" /\ cursor' = s
             /\ UNCHANGED pm
    <3>1. p \in SchedProc /\ p.parent = request[s].parent
      BY <2>2, <2>7 DEF SchedProc
    <3> HIDE DEF p
    <3> QED
      BY <1>4, <2>7, <3>1
  <2> HIDE DEF p
  <2> QED
    BY <2>3, <2>5, <2>6, <2>7
<1> QED
  BY <1>5, <1>6

\* The kernel accepts ready processors only.
LEMMA CallReady ==
  ASSUME NEW h, NEW s, NEW p, NEW cpu, NEW k, CONFIG_SMP, cpu # -1,
         sys_schedule(h, k, s, p, cpu, "OK")
  PROVE  cpu \in ReadyCpus
<1> DEFINE q == IF p.priority = UINT_MAX THEN -1 ELSE p.priority
<1>1. KernelAnswer(s, p.gen, q, p.time_slice, cpu) = "OK"
  BY DEF sys_schedule
<1> HIDE DEF q
<1> QED
  BY <1>1 DEF KernelAnswer, sched_proc_check

\* init is accepted on the boot processor, which pick_cpu names last.
LEMMA BootStartTurn ==
  ASSUME SchedInv, BootInv, ReadyCpus = {BSP}, StartTurn
  PROVE  BootInv'
<1> DEFINE s    == cursor
           e    == schedproc[s]
           p    == Picked(cpu_proc, e)
           load == Counted(cpu_proc, e)
           left == [load EXCEPT ![p.cpu] = CPU_DEAD]
<1>1. handler = "start" /\ UNCHANGED <<cursor, request>>
  BY DEF StartTurn
<1>2. /\ cpu_proc \in [Cpus -> UInt] /\ badcpu \in [Cpus -> Nat] /\ pm \in [Slots -> PMStates]
      /\ kproc \in [Slots -> KProc] /\ s \in Slots /\ INIT \in Slots
      /\ schedproc \in [Slots -> SchedProc] /\ e \in SchedProc
  BY <1>1, SchedAssumption DEF SchedInv, SchedTypeOK, LoopAtSlot, INIT, Slots
<1>3. /\ p \in SchedProc /\ load \in [Cpus -> UInt] /\ p.cpu = pick_cpu(cpu_proc, e)
      /\ p.parent = e.parent /\ p.cpu \in Cpus
  BY <1>2, PickedType, PickedCpu, PickCpuType, PickedKeeps
<1>4. left \in [Cpus -> UInt]
  <2>1. CPU_DEAD \in UInt
    BY SchedAssumption DEF CPU_DEAD, UInt
  <2> HIDE DEF load, p
  <2> QED
    BY <1>3, <2>1
<1>5. PICK err \in Answers :
        /\ sys_schedule("start", kproc, s, p, p.cpu, err)
        /\ \/ /\ err = "EBADCPU"
              /\ badcpu' = [badcpu EXCEPT ![p.cpu] = IF @ < 2 THEN @ + 1 ELSE @]
              /\ cpu_proc' = Counted(left, p)
              /\ schedproc' = [schedproc EXCEPT ![s] = Picked(left, p)]
              /\ UNCHANGED <<handler, pm>>
           \/ /\ cpu_proc' = load
              /\ schedproc' = [schedproc EXCEPT ![s] = p]
              /\ handler' = "none"
              /\ pm' = [pm EXCEPT ![s] = IF err = "OK" THEN "running" ELSE "failed"]
              /\ UNCHANGED badcpu
  BY DEF StartTurn
<1>6. pm[s] = "new" /\ e.parent = request[s].parent
  BY <1>1 DEF BootInv, StartedIsNew
<1>7. s # INIT => e.parent = RS \/ InitRuns
  BY <1>2, <1>6 DEF BootInv, UsersFollowInit
<1>8. /\ DeadFull(load, badcpu) /\ (AllOut(cpu_proc) => AllOut(load))
      /\ p.cpu \notin ReadyCpus => badcpu[p.cpu] = 0
      /\ p.parent = RS \/ AllOut(cpu_proc) => p.cpu = BSP
      /\ ~PicksBsp(e) /\ p.cpu = BSP => AllOut(cpu_proc)
  <2>1. BSP \in ReadyCpus /\ DeadFull(cpu_proc, badcpu)
    BY DEF BootInv
  <2>2. p.cpu = pick_cpu(cpu_proc, e) /\ p.parent = e.parent /\ cpu_proc \in [Cpus -> UInt]
    BY <1>2, <1>3
  <2> HIDE DEF e, p
  <2> QED
    BY <2>1, <2>2, PickKeepsFull, PickLeavesFull DEF load
<1> HIDE DEF p, load, left
<1>9. CASE /\ cpu_proc' = load
           /\ schedproc' = [schedproc EXCEPT ![s] = p]
           /\ handler' = "none"
           /\ pm' = [pm EXCEPT ![s] = IF err = "OK" THEN "running" ELSE "failed"]
           /\ UNCHANGED badcpu
  <2>1. InitRuns => InitRuns'
    BY <1>1, <1>2, <1>6, <1>9 DEF InitRuns
  <2>2. InitRuns' => AllOut(cpu_proc)'
    <3>1. CASE InitRuns
      BY <1>8, <1>9, <3>1 DEF BootInv, AllOut
    <3>2. CASE InitRuns' /\ ~InitRuns
      <4>1. s = INIT /\ err = "OK" /\ e.parent # RS
        BY <1>1, <1>2, <1>6, <1>9, <3>2 DEF InitRuns
      <4>2. CASE ~CONFIG_SMP \/ NCPUS = 1
        <5>1. NCPUS = 1 => Cpus = {BSP}
          BY DEF Cpus, BSP
        <5> QED
          BY <4>2, <5>1 DEF AllOut
      <4>3. CASE CONFIG_SMP /\ NCPUS # 1
        <5>1. p.cpu # -1
          BY <1>3, SchedAssumption DEF Cpus
        <5>2. p.cpu = BSP
          BY <1>5, <4>1, <4>3, <5>1, CallReady
        <5>3. ~PicksBsp(e)
          BY <4>1, <4>3 DEF PicksBsp
        <5> QED
          BY <1>8, <1>9, <5>2, <5>3 DEF AllOut
      <4> QED
        BY <4>2, <4>3
    <3> QED
      BY <3>1, <3>2
  <2>3. /\ schedproc'[s] = p /\ \A t \in Slots \ {s} : schedproc'[t] = schedproc[t]
        /\ \A t \in Slots \ {s} : pm'[t] = pm[t]
    BY <1>2, <1>9
  <2>4. OthersOnBoot'
    <3>1. s # INIT => p.cpu = BSP /\ (p.parent = RS \/ InitRuns')
      BY <1>3, <1>7, <1>8, <2>1 DEF BootInv
    <3> QED
      BY <2>1, <2>3, <3>1 DEF BootInv, OthersOnBoot
  <2>5. UsersFollowInit'
    <3>1. s # INIT /\ request[s].parent # RS => InitRuns'
      BY <1>6, <1>7, <2>1
    <3> QED
      BY <1>1, <2>1, <2>3, <3>1 DEF BootInv, UsersFollowInit
  <2>6. DeadFull(cpu_proc, badcpu)'
    BY <1>8, <1>9 DEF DeadFull
  <2> QED
    BY <1>9, <2>2, <2>4, <2>5, <2>6 DEF BootInv, StartedIsNew
<1>10. CASE /\ err = "EBADCPU"
            /\ badcpu' = [badcpu EXCEPT ![p.cpu] = IF @ < 2 THEN @ + 1 ELSE @]
            /\ cpu_proc' = Counted(left, p)
            /\ schedproc' = [schedproc EXCEPT ![s] = Picked(left, p)]
            /\ UNCHANGED <<handler, pm>>
  <2> DEFINE q == p.cpu
  <2>1. q \in Cpus \ ReadyCpus /\ badcpu[q] = 0
    BY <1>2, <1>3, <1>5, <1>8, <1>10, CallSending
  <2>2. /\ \A c \in Cpus \ {q} : left[c] = load[c] /\ badcpu'[c] = badcpu[c]
        /\ left[q] = UINT_MAX /\ badcpu'[q] = 1
    <3> HIDE DEF q
    <3> QED
      BY <1>2, <1>3, <1>10, <2>1 DEF left, CPU_DEAD, q
  <2> HIDE DEF q
  <2>3. DeadFull(left, badcpu')
    BY <1>8, <2>1, <2>2 DEF DeadFull
  <2>4. AllOut(load) => AllOut(left)
    BY <2>1, <2>2 DEF AllOut
  <2>5. /\ DeadFull(Counted(left, p), badcpu') /\ (AllOut(left) => AllOut(Counted(left, p)))
        /\ p.parent = RS \/ AllOut(left) => pick_cpu(left, p) = BSP
    BY <1>4, <2>3, PickKeepsFull, PickLeavesFull
  <2>6. InitRuns' = InitRuns
    BY <1>1, <1>10 DEF InitRuns
  <2>7. DeadFull(cpu_proc, badcpu)' /\ (InitRuns' => AllOut(cpu_proc)')
    BY <1>8, <1>10, <2>4, <2>5, <2>6 DEF BootInv, DeadFull, AllOut
  <2>8. Picked(left, p).cpu = pick_cpu(left, p) /\ Picked(left, p).parent = p.parent
    BY <1>3, PickedCpu, PickedKeeps
  <2>9. /\ schedproc'[s] = Picked(left, p)
        /\ \A t \in Slots \ {s} : schedproc'[t] = schedproc[t]
    BY <1>2, <1>10
  <2>10. s # INIT => pick_cpu(left, p) = BSP
    BY <1>3, <1>7, <1>8, <2>4, <2>5 DEF BootInv
  <2>11. OthersOnBoot'
    BY <1>3, <1>7, <2>6, <2>8, <2>9, <2>10 DEF BootInv, OthersOnBoot
  <2>12. StartedIsNew'
    BY <1>1, <1>3, <1>6, <1>10, <2>8, <2>9 DEF StartedIsNew
  <2>13. UsersFollowInit'
    BY <1>1, <1>10, <2>6 DEF BootInv, UsersFollowInit
  <2> QED
    BY <2>7, <2>11, <2>12, <2>13 DEF BootInv
<1> QED
  BY <1>5, <1>9, <1>10

LEMMA BootStep ==
  ReadyCpus = {BSP} /\ SchedInv /\ BootInv /\ [SchedNext]_schedVars => BootInv'
<1> SUFFICES ASSUME ReadyCpus = {BSP}, SchedInv, BootInv, [SchedNext]_schedVars
             PROVE  BootInv'
  OBVIOUS
<1>0. BSP \in ReadyCpus
  OBVIOUS
<1>1. CASE UNCHANGED schedVars \/ BalanceBegin
  <2>1. /\ UNCHANGED <<schedproc, cpu_proc, pm, request, badcpu>>
        /\ UNCHANGED <<handler, cursor>> \/ handler' = "balance"
    BY <1>1 DEF schedVars, BalanceBegin
  <2> QED
    BY <2>1 DEF BootInv, DeadFull, AllOut, OthersOnBoot, StartedIsNew, UsersFollowInit, InitRuns
<1>2. ASSUME NEW s \in Slots,
             \/ QuantumExpires(s) \/ Clear(s) \/ SpawnService(s)
             \/ \E c \in Slots : Fork(s, c)
             \/ do_noquantum(s) \/ do_start_scheduling(s) \/ do_stop_scheduling(s)
             \/ \E q \in NiceQueues : do_nice(s, q)
      PROVE  BootInv'
  BY <1>0, <1>2, BootEnvironment, BootNoquantum, BootStart, BootStop, BootNice
<1>3. CASE StartTurn \/ BalanceTurn
  BY <1>0, <1>3, BootStartTurn, BootBalance
<1> QED
  BY <1>1, <1>2, <1>3 DEF SchedNext

-----------------------------------------------------------------------------
\* A processor the kernel has called bad is not asked for again, with any number
\* of processes and processors, ready or not, and whatever the kernel refuses,
\* as long as the loads stay so far below the largest unsigned that a dead
\* processor never looks like the least loaded one.
THEOREM SchedDeadCpuNotRetried ==
  ASSUME UINT_MAX > MaxLoad + 5 * NR_PROCS + NCPUS
  PROVE  SchedSpec => []DeadCpuNotRetried
<1>1. CASE ReadyCpus \ {BSP} # {}
  <2>1. PICK d \in ReadyCpus \ {BSP} : TRUE
    BY <1>1
  <2>2. LoadsFit(d)
    BY <2>1, SchedAssumption DEF LoadsFit, MaxOwed
  <2>3. SchedInit => LoadsInv(d)
    BY <2>2, LoadsInit
  <2>4. SchedInv /\ LoadsInv(d) /\ [SchedNext]_schedVars => LoadsInv(d)'
    BY <2>2, LoadsStep
  <2>5. SchedInv /\ LoadsInv(d) => DeadCpuNotRetried
    <3> SUFFICES ASSUME LoadsInv(d), NEW c \in Cpus
                 PROVE  badcpu[c] <= 1
      BY DEF DeadCpuNotRetried
    <3>1. badcpu[c] # 0 => badcpu[c] = 1
      BY DEF LoadsInv, DeadStayOut
    <3> QED
      BY <3>1
  <2> QED
    BY <2>3, <2>4, <2>5, SchedInvariant, PTL DEF SchedSpec
<1>2. CASE ReadyCpus = {BSP}
  <2>1. SchedInv /\ BootInv /\ [SchedNext]_schedVars => BootInv'
    BY <1>2, BootStep
  <2>2. BootInv => DeadCpuNotRetried
    <3> SUFFICES ASSUME BootInv, NEW c \in Cpus
                 PROVE  badcpu[c] <= 1
      BY DEF DeadCpuNotRetried
    <3>1. badcpu[c] # 0 => badcpu[c] = 1
      BY DEF BootInv, DeadFull
    <3> QED
      BY <3>1
  <2> QED
    BY <2>1, <2>2, BootInit, SchedInvariant, PTL DEF SchedSpec
<1>3. BSP \in ReadyCpus
  BY SchedAssumption DEF BSP
<1> QED
  BY <1>1, <1>2, <1>3

=============================================================================
