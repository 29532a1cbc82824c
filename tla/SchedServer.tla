----------------------------- MODULE SchedServer -----------------------------
(***************************************************************************)
(* The MINIX user-space scheduler SCHED of Assignment5 (schedule.c, in the *)
(* two variants part1 and part2) together with the kernel operation        *)
(* sched_proc of system.c that it drives.                                  *)
(*                                                                         *)
(* SCHED is a single-threaded server: it receives a request or a timer     *)
(* expiry, handles it, and replies.  Two of its handlers loop over kernel  *)
(* calls (do_start_scheduling and balance_queues); while such a loop runs  *)
(* the kernel goes on taking quanta from processes, so the loops take a    *)
(* step per iteration here and every other handler is one step.            *)
(*                                                                         *)
(* PM, RS and the kernel outside system.c are the environment.  A queue is *)
(* better the smaller its number; max_priority is the best one a process   *)
(* is entitled to.                                                         *)
(***************************************************************************)
EXTENDS Integers, FiniteSets

CONSTANTS
  NR_PROCS,         \* slots of the process table; slot 0 is init
  NR_SCHED_QUEUES,  \* number of run queues
  USER_Q,           \* queue a user process starts in
  UINT_MAX,         \* largest unsigned int
  CONFIG_SMP,       \* whether the build is for several processors
  NCPUS,            \* machine.processors_count
  ReadyCpus,        \* the processors cpu_is_ready answers for
  NiceQueues,       \* queues PM asks for in SCHEDULING_SET_NICE
  ServiceQueues,    \* queues RS asks for in SCHEDULING_START
  Refusable,        \* handlers whose sys_schedule the kernel may refuse
  MaxRefusals,      \* bound on such refusals
  MaxGenerations,   \* bound on the processes that live in a slot one after another
  MaxLoad           \* bound on the load of a cpu at which SCHED is given more to do

Slots == 0 .. NR_PROCS - 1
INIT  == 0
RS    == NR_PROCS          \* the parent of system processes; not one of them
Cpus  == 0 .. NCPUS - 1
BSP   == 0                 \* machine.bsp_id
UInt  == 0 .. UINT_MAX
MIN_USER_Q == NR_SCHED_QUEUES - 1
TASK_Q     == 0
DEFAULT_USER_TIME_SLICE == 200
SERVICE_TIME_SLICE      == 500
Quanta == {DEFAULT_USER_TIME_SLICE, SERVICE_TIME_SLICE}
CPU_DEAD == UINT_MAX       \* (unsigned) -1

ASSUME SchedAssumption ==
  /\ NR_PROCS \in Nat \ {0}
  /\ NR_SCHED_QUEUES \in Nat \ {0}
  /\ UINT_MAX \in Nat /\ UINT_MAX > NR_SCHED_QUEUES
  /\ USER_Q \in 0 .. NR_SCHED_QUEUES - 1
  /\ CONFIG_SMP \in BOOLEAN
  /\ NCPUS \in Nat \ {0} /\ ReadyCpus \subseteq 0 .. NCPUS - 1 /\ 0 \in ReadyCpus
  /\ NiceQueues \subseteq 0 .. UINT_MAX
  /\ ServiceQueues \subseteq 0 .. UINT_MAX
  /\ Refusable \subseteq {"start", "nice", "noquantum", "balance"}
  /\ MaxRefusals \in Nat /\ MaxGenerations \in Nat /\ MaxLoad \in Nat

VARIABLES
  part,      \* the variant of schedule.c: 1 or 2; fixed
  schedproc, \* SCHED's table: a record per slot
  cpu_proc,  \* SCHED's load counter of every cpu, an unsigned int
  handler,   \* the loop SCHED is in: "none", "start" or "balance"
  cursor,    \* the slot that loop is at
  kproc,     \* the kernel's process table, as far as scheduling goes
  pm,        \* where PM or RS is with the process of a slot
  request,   \* the start request of a slot: type, parent (slot and generation), maxprio
  refusals,  \* how many calls the kernel has refused
  badcpu     \* how often the kernel has answered EBADCPU for a cpu

schedVars == <<part, schedproc, cpu_proc, handler, cursor, kproc, pm, request,
               refusals, badcpu>>

\* struct schedproc.
SchedProc == [inuse : BOOLEAN, gen : Nat, parent : Slots \cup {RS},
              max_priority : UInt, priority : UInt, time_slice : Quanta, cpu : Cpus]

\* What struct proc holds of a process: gen is the generation of its endpoint,
\* scheduled is p_scheduler = SCHED, noquantum is RTS_NO_QUANTUM, sending a
\* queued out-of-quantum message to SCHED.
KProc == [alive : BOOLEAN, gen : Nat, scheduled : BOOLEAN, noquantum : BOOLEAN,
          sending : BOOLEAN, priority : 0 .. NR_SCHED_QUEUES, quantum : Quanta, cpu : Cpus]

Request == [type : {"START", "INHERIT"}, parent : Slots \cup {RS}, pgen : Nat, maxprio : UInt]

PMStates == {"free", "new", "running", "failed", "stopped"}

SchedTypeOK ==
  /\ part \in {1, 2}
  /\ schedproc \in [Slots -> SchedProc]
  /\ cpu_proc \in [Cpus -> UInt]
  /\ handler \in {"none", "start", "balance"}
  /\ cursor \in 0 .. NR_PROCS
  /\ kproc \in [Slots -> KProc]
  /\ pm \in [Slots -> PMStates]
  /\ request \in [Slots -> Request]
  /\ refusals \in 0 .. MaxRefusals
  /\ badcpu \in [Cpus -> Nat]

-----------------------------------------------------------------------------
(***************************************************************************)
(* The kernel: sched_proc, and sys_schedule around it                      *)
(***************************************************************************)
\* The checks of sched_proc.  A queue equal to NR_SCHED_QUEUES passes.
sched_proc_check(priority, quantum, cpu) ==
  IF \/ priority < TASK_Q /\ priority # -1
     \/ priority > NR_SCHED_QUEUES
     \/ quantum < 1 /\ quantum # -1
     \/ CONFIG_SMP /\ cpu # -1 /\ cpu \notin Cpus
    THEN "EINVAL"
  ELSE IF CONFIG_SMP /\ cpu # -1 /\ cpu \notin ReadyCpus
    THEN "EBADCPU"
  ELSE "OK"

\* Its effect: -1 leaves a value alone; the process gets its quantum back.
sched_proc(k, priority, quantum, cpu) ==
  [k EXCEPT !.priority  = IF priority # -1 THEN priority ELSE @,
            !.quantum   = IF quantum # -1 THEN quantum ELSE @,
            !.cpu       = IF CONFIG_SMP /\ cpu # -1 THEN cpu ELSE @,
            !.noquantum = FALSE]

\* sys_schedule accepts a live endpoint whose scheduler is the caller.
KernelAnswer(s, gen, priority, quantum, cpu) ==
  IF ~kproc[s].alive \/ kproc[s].gen # gen THEN "EINVAL"
  ELSE IF ~kproc[s].scheduled THEN "EPERM"
  ELSE sched_proc_check(priority, quantum, cpu)

Answers == {"OK", "EINVAL", "EPERM", "EBADCPU"}

(***************************************************************************)
(* pick_cpu.  cpu_is_available(c) compares an unsigned with 0 and is always*)
(* true: a dead cpu is passed over because no load is greater than its own.*)
(***************************************************************************)
PicksBsp(p) == ~CONFIG_SMP \/ NCPUS = 1 \/ p.parent = RS

\* A dead cpu is considered like any other.
Mutpick_cpu(load, p) ==
  LET candidates == Cpus \ {BSP}
  IN  IF PicksBsp(p) \/ candidates = {} THEN BSP
      ELSE CHOOSE c \in candidates : \A d \in candidates : c <= d

pick_cpu(load, p) ==
  LET candidates == {c \in Cpus \ {BSP} : load[c] < UINT_MAX}
      better(c, d) == load[c] < load[d] \/ (load[c] = load[d] /\ c <= d)
  IN  IF PicksBsp(p) \/ candidates = {} THEN BSP
      ELSE CHOOSE c \in candidates : \A d \in candidates : better(c, d)

\* The load counters after pick_cpu, and the table entry.
Counted(load, p) ==
  IF PicksBsp(p) THEN load
  ELSE [load EXCEPT ![pick_cpu(load, p)] = (@ + 1) % (UINT_MAX + 1)]

Picked(load, p) == [p EXCEPT !.cpu = pick_cpu(load, p)]

(***************************************************************************)
(* The kernel call of schedule_process, made by handler h for the entry p  *)
(* of slot s when the kernel's table is k; the kernel answers err.  The    *)
(* unsigned priority is passed as an int, so that UINT_MAX means "do not   *)
(* change" to the kernel.                                                  *)
(***************************************************************************)
sys_schedule(h, k, s, p, cpu, err) ==
  LET new_prio == IF p.priority = UINT_MAX THEN -1 ELSE p.priority
  IN  \/ /\ err = KernelAnswer(s, p.gen, new_prio, p.time_slice, cpu)
         /\ kproc' = IF err = "OK"
                       THEN [k EXCEPT ![s] = sched_proc(@, new_prio, p.time_slice, cpu)]
                       ELSE k
         /\ UNCHANGED refusals
      \/ /\ h \in Refusable /\ refusals < MaxRefusals
         /\ err = "EPERM"
         /\ kproc' = k /\ refusals' = refusals + 1

\* schedule_process_local: priority and quantum, not the cpu; pick_cpu counts
\* the process on the cpu it picks all the same.
schedule_process_local(h, k, s, p, err) ==
  /\ sys_schedule(h, k, s, p, -1, err)
  /\ cpu_proc' = Counted(cpu_proc, p)

\* The endpoint of the process of slot s is valid (sched_isokendpt).
IsOkEndpoint(s) == schedproc[s].inuse /\ schedproc[s].gen = kproc[s].gen

\* So is that of the parent a start request names.
IsOkParent(s) == /\ schedproc[request[s].parent].inuse
                 /\ schedproc[request[s].parent].gen = request[s].pgen

-----------------------------------------------------------------------------
SchedInit ==
  /\ part \in {1, 2}
  /\ schedproc = [s \in Slots |->
       [inuse |-> FALSE, gen |-> 0, parent |-> INIT, max_priority |-> 0, priority |-> 0,
        time_slice |-> DEFAULT_USER_TIME_SLICE, cpu |-> BSP]]
  /\ cpu_proc = [c \in Cpus |-> 0]
  /\ handler = "none" /\ cursor = 0
  /\ kproc = [s \in Slots |->
       [alive |-> s = INIT, gen |-> 0, scheduled |-> FALSE, noquantum |-> TRUE,
        sending |-> FALSE, priority |-> USER_Q, quantum |-> DEFAULT_USER_TIME_SLICE,
        cpu |-> BSP]]
  /\ pm = [s \in Slots |-> IF s = INIT THEN "new" ELSE "free"]
  /\ request = [s \in Slots |-> [type |-> "START", parent |-> INIT, pgen |-> 0,
                                   maxprio |-> USER_Q]]
  /\ refusals = 0 /\ badcpu = [c \in Cpus |-> 0]

(***************************************************************************)
(* The environment                                                         *)
(***************************************************************************)
\* The load counters are not near their wrap-around, which takes 2^32 calls.
BelowMaxLoad == \A c \in ReadyCpus \ {BSP} : cpu_proc[c] <= MaxLoad

\* The kernel takes a process off the run queues when its quantum is used up,
\* and sends an out-of-quantum message to SCHED in its name.
QuantumExpires(s) ==
  /\ pm[s] = "running" /\ kproc[s].scheduled /\ BelowMaxLoad
  /\ ~kproc[s].noquantum /\ ~kproc[s].sending
  /\ kproc' = [kproc EXCEPT ![s].noquantum = TRUE, ![s].sending = TRUE]
  /\ UNCHANGED <<part, schedproc, cpu_proc, handler, cursor, pm, request, refusals, badcpu>>

\* A user process forks: the kernel copies its process structure, and PM asks
\* SCHED to schedule the child with the parent's queue.
Fork(s, c) ==
  /\ pm[s] = "running" /\ request[s].parent # RS
  /\ pm[c] = "free" /\ kproc[c].gen <= MaxGenerations /\ BelowMaxLoad
  /\ kproc' = [kproc EXCEPT ![c] = [kproc[s] EXCEPT
       !.gen = kproc[c].gen, !.noquantum = TRUE, !.sending = FALSE]]
  /\ pm' = [pm EXCEPT ![c] = "new"]
  /\ request' = [request EXCEPT
       ![c] = [type |-> "INHERIT", parent |-> s, pgen |-> kproc[s].gen,
               maxprio |-> request[s].maxprio]]
  /\ UNCHANGED <<part, schedproc, cpu_proc, handler, cursor, refusals, badcpu>>

\* RS creates a system process, which it places in a queue of its own.
SpawnService(c) ==
  /\ pm[c] = "free" /\ kproc[c].gen <= MaxGenerations /\ BelowMaxLoad
  /\ kproc' = [kproc EXCEPT ![c] =
       [@ EXCEPT !.alive = TRUE, !.scheduled = FALSE, !.noquantum = TRUE,
                 !.sending = FALSE, !.priority = USER_Q]]
  /\ pm' = [pm EXCEPT ![c] = "new"]
  /\ \E q \in ServiceQueues :
       request' = [request EXCEPT
         ![c] = [type |-> "START", parent |-> RS, pgen |-> 0, maxprio |-> q]]
  /\ UNCHANGED <<part, schedproc, cpu_proc, handler, cursor, refusals, badcpu>>

\* PM removes a process SCHED no longer schedules, or never did; a message the
\* kernel has queued in its name goes with it.
Clear(s) ==
  /\ pm[s] \in {"stopped", "failed"}
  /\ kproc' = [kproc EXCEPT ![s].alive = FALSE, ![s].gen = @ + 1, ![s].sending = FALSE]
  /\ pm' = [pm EXCEPT ![s] = "free"]
  /\ UNCHANGED <<part, schedproc, cpu_proc, handler, cursor, request, refusals, badcpu>>

(***************************************************************************)
(* do_noquantum                                                            *)
(***************************************************************************)
\* part1: one queue down.
NoquantumPriority1(q) == IF q < MIN_USER_Q THEN q + 1 ELSE q

\* part2: one queue up, and from queue 0 to UINT_MAX.
NoquantumPriority2(q) == IF q < MIN_USER_Q THEN (q - 1) % (UINT_MAX + 1) ELSE q

\* The bound one too high.
MutNoquantumPriority(q) == IF q <= MIN_USER_Q THEN q + 1 ELSE q

NoquantumPriority(q) == IF part = 1 THEN NoquantumPriority1(q) ELSE NoquantumPriority2(q)

\* The message counts for nothing once the process is out of the last queue.
Mutdo_noquantum(s) ==
  /\ handler = "none" /\ kproc[s].sending
  /\ LET received == [kproc EXCEPT ![s].sending = FALSE]
         lowered  == [schedproc[s] EXCEPT !.priority = NoquantumPriority(@)]
     IN  IF IsOkEndpoint(s) /\ lowered.priority # schedproc[s].priority
           THEN /\ \E err \in Answers :
                     schedule_process_local("noquantum", received, s, lowered, err)
                /\ schedproc' = [schedproc EXCEPT ![s] = Picked(cpu_proc, lowered)]
           ELSE /\ kproc' = received
                /\ UNCHANGED <<schedproc, cpu_proc, refusals>>
  /\ UNCHANGED <<part, handler, cursor, pm, request, badcpu>>

do_noquantum(s) ==
  /\ handler = "none" /\ kproc[s].sending
  /\ LET received == [kproc EXCEPT ![s].sending = FALSE]
         lowered  == [schedproc[s] EXCEPT !.priority = NoquantumPriority(@)]
     IN  IF IsOkEndpoint(s)
           THEN /\ \E err \in Answers :
                     schedule_process_local("noquantum", received, s, lowered, err)
                /\ schedproc' = [schedproc EXCEPT ![s] = Picked(cpu_proc, lowered)]
           ELSE /\ kproc' = received
                /\ UNCHANGED <<schedproc, cpu_proc, refusals>>
  /\ UNCHANGED <<part, handler, cursor, pm, request, badcpu>>

(***************************************************************************)
(* do_start_scheduling                                                     *)
(***************************************************************************)
\* The entry after the slot is populated, before priority and quantum are set.
Populated(s) == [schedproc[s] EXCEPT !.gen = kproc[s].gen, !.parent = request[s].parent,
                                     !.max_priority = request[s].maxprio]

\* The entry with the priority and quantum it starts with.  Init, its own
\* parent, gets USER_Q first and then, as any process started explicitly, its
\* max_priority.
StartEntry(s) ==
  LET p == Populated(s)
  IN  IF request[s].type = "START"
        THEN [p EXCEPT !.priority = p.max_priority,
                       !.time_slice = IF p.parent = RS THEN SERVICE_TIME_SLICE
                                      ELSE DEFAULT_USER_TIME_SLICE,
                       !.cpu = IF p.parent = s THEN BSP ELSE @]
        ELSE [p EXCEPT !.priority = schedproc[p.parent].priority,
                       !.time_slice = schedproc[p.parent].time_slice]

\* Everything up to the first schedule_process: the request is refused when the
\* slot is in use, the queue is none, the parent is not scheduled here or the
\* kernel does not hand the process over; otherwise SCHED becomes its scheduler.
do_start_scheduling(s) ==
  /\ handler = "none" /\ pm[s] = "new"
  /\ \/ /\ schedproc[s].inuse
        /\ pm' = [pm EXCEPT ![s] = "failed"]
        /\ UNCHANGED <<schedproc, cpu_proc, handler, cursor, kproc, refusals>>
     \/ /\ ~schedproc[s].inuse
        /\ \/ request[s].maxprio >= NR_SCHED_QUEUES
           \/ request[s].type = "INHERIT" /\ ~IsOkParent(s)
        /\ schedproc' = [schedproc EXCEPT ![s] = Populated(s)]
        /\ pm' = [pm EXCEPT ![s] = "failed"]
        /\ UNCHANGED <<cpu_proc, handler, cursor, kproc, refusals>>
     \/ /\ ~schedproc[s].inuse /\ request[s].maxprio < NR_SCHED_QUEUES
        /\ request[s].type = "INHERIT" => IsOkParent(s)
        /\ \/ /\ "start" \in Refusable /\ refusals < MaxRefusals
              /\ schedproc' = [schedproc EXCEPT ![s] = StartEntry(s)]
              /\ refusals' = refusals + 1
              /\ pm' = [pm EXCEPT ![s] = "failed"]
              /\ UNCHANGED <<cpu_proc, handler, cursor, kproc>>
           \/ /\ kproc' = [kproc EXCEPT ![s].scheduled = TRUE]
              /\ LET p == [StartEntry(s) EXCEPT !.inuse = TRUE]
                 IN  /\ schedproc' = [schedproc EXCEPT ![s] = Picked(cpu_proc, p)]
                     /\ cpu_proc' = Counted(cpu_proc, p)
              /\ handler' = "start" /\ cursor' = s
              /\ UNCHANGED <<pm, refusals>>
  /\ UNCHANGED <<part, request, badcpu>>

\* One turn of the loop: schedule_process picks a cpu again and asks for it; a
\* cpu the kernel calls bad is marked dead and another one is picked.
StartTurn ==
  /\ handler = "start"
  /\ LET s    == cursor
         p    == Picked(cpu_proc, schedproc[s])
         load == Counted(cpu_proc, schedproc[s])
         left == [load EXCEPT ![p.cpu] = CPU_DEAD]
     IN  \E err \in Answers :
           /\ sys_schedule("start", kproc, s, p, p.cpu, err)
           /\ IF err = "EBADCPU"
                THEN /\ badcpu' = [badcpu EXCEPT ![p.cpu] = IF @ < 2 THEN @ + 1 ELSE @]
                     /\ cpu_proc' = Counted(left, p)
                     /\ schedproc' = [schedproc EXCEPT ![s] = Picked(left, p)]
                     /\ UNCHANGED <<handler, pm>>
                ELSE /\ cpu_proc' = load
                     /\ schedproc' = [schedproc EXCEPT ![s] = p]
                     /\ handler' = "none"
                     /\ pm' = [pm EXCEPT ![s] = IF err = "OK" THEN "running" ELSE "failed"]
                     /\ UNCHANGED badcpu
  /\ UNCHANGED <<part, cursor, request>>

(***************************************************************************)
(* do_nice                                                                 *)
(***************************************************************************)
\* Only the priority rolled back when the kernel refuses.
Mutdo_nice(s, new_q) ==
  /\ handler = "none" /\ pm[s] = "running" /\ BelowMaxLoad
  /\ IsOkEndpoint(s) /\ new_q < NR_SCHED_QUEUES
  /\ LET p == [schedproc[s] EXCEPT !.max_priority = new_q, !.priority = new_q]
     IN  \E err \in Answers :
           /\ schedule_process_local("nice", kproc, s, p, err)
           /\ schedproc' = [schedproc EXCEPT ![s] = Picked(cpu_proc, p)]
           /\ request' = IF err = "OK" THEN [request EXCEPT ![s].maxprio = new_q] ELSE request
  /\ UNCHANGED <<part, handler, cursor, pm, badcpu>>

do_nice(s, new_q) ==
  /\ handler = "none" /\ pm[s] = "running" /\ BelowMaxLoad
  /\ IsOkEndpoint(s) /\ new_q < NR_SCHED_QUEUES
  /\ LET p == [schedproc[s] EXCEPT !.max_priority = new_q, !.priority = new_q]
     IN  \E err \in Answers :
           /\ schedule_process_local("nice", kproc, s, p, err)
           /\ schedproc' = [schedproc EXCEPT ![s] =
                IF err = "OK" THEN Picked(cpu_proc, p)
                ELSE [Picked(cpu_proc, p) EXCEPT !.priority = schedproc[s].priority,
                                                 !.max_priority = schedproc[s].max_priority]]
           /\ request' = IF err = "OK" THEN [request EXCEPT ![s].maxprio = new_q] ELSE request
  /\ UNCHANGED <<part, handler, cursor, pm, badcpu>>

(***************************************************************************)
(* do_stop_scheduling                                                      *)
(***************************************************************************)
do_stop_scheduling(s) ==
  /\ handler = "none" /\ s # INIT /\ pm[s] \in {"running", "failed"}
  /\ IF IsOkEndpoint(s)
       THEN /\ schedproc' = [schedproc EXCEPT ![s].inuse = FALSE]
            /\ cpu_proc' = IF CONFIG_SMP
                             THEN [cpu_proc EXCEPT ![schedproc[s].cpu] = (@ - 1) % (UINT_MAX + 1)]
                             ELSE cpu_proc
       ELSE UNCHANGED <<schedproc, cpu_proc>>
  /\ pm' = [pm EXCEPT ![s] = "stopped"]
  /\ UNCHANGED <<part, handler, cursor, kproc, request, refusals, badcpu>>

(***************************************************************************)
(* balance_queues                                                          *)
(***************************************************************************)
\* The pulling up left out in both variants.
MutBalancePriority(q) == q

\* part1 pulls the process up a queue, part2 has that line commented out.
BalancePriority(q) == IF part = 1 THEN q - 1 ELSE q

BalanceBegin ==
  /\ handler = "none" /\ BelowMaxLoad
  /\ handler' = "balance" /\ cursor' = 0
  /\ UNCHANGED <<part, schedproc, cpu_proc, kproc, pm, request, refusals, badcpu>>

\* A comparison that lets the best queue pass.
MutBumpedDown(s) == schedproc[s].inuse /\ schedproc[s].priority >= schedproc[s].max_priority

BumpedDown(s) == schedproc[s].inuse /\ schedproc[s].priority > schedproc[s].max_priority

\* One iteration of the loop over the table; the kernel's answer is ignored.
BalanceTurn ==
  /\ handler = "balance"
  /\ LET p == [schedproc[cursor] EXCEPT !.priority = BalancePriority(@)]
     IN  IF BumpedDown(cursor)
           THEN /\ \E err \in Answers :
                     schedule_process_local("balance", kproc, cursor, p, err)
                /\ schedproc' = [schedproc EXCEPT ![cursor] = Picked(cpu_proc, p)]
           ELSE UNCHANGED <<schedproc, cpu_proc, kproc, refusals>>
  /\ cursor' = cursor + 1
  /\ handler' = IF cursor + 1 = NR_PROCS THEN "none" ELSE "balance"
  /\ UNCHANGED <<part, pm, request, badcpu>>

-----------------------------------------------------------------------------
SchedNext ==
  \/ \E s \in Slots :
       \/ QuantumExpires(s) \/ Clear(s) \/ SpawnService(s)
       \/ \E c \in Slots : Fork(s, c)
       \/ do_noquantum(s) \/ do_start_scheduling(s) \/ do_stop_scheduling(s)
       \/ \E q \in NiceQueues : do_nice(s, q)
  \/ StartTurn \/ BalanceBegin \/ BalanceTurn

\* SCHED receives every message in the end: its senders queue in order, and the
\* timer interrupts the queue once in five seconds only.  The kernel's own
\* events, PM and RS are under no obligation.
SchedFairness ==
  /\ \A s \in Slots : SF_schedVars(do_noquantum(s)) /\ SF_schedVars(do_start_scheduling(s))
  /\ WF_schedVars(StartTurn) /\ WF_schedVars(BalanceTurn)
  /\ SF_schedVars(BalanceBegin)

SchedSpec == SchedInit /\ [][SchedNext]_schedVars

SchedFairSpec == SchedSpec /\ SchedFairness

-----------------------------------------------------------------------------
\* The kernel never holds a process in a run queue that does not exist.  Its own
\* check admits queue NR_SCHED_QUEUES, so this rests on the checks in SCHED, on
\* inheritance handing on valid queues only, and on the wrapped priority of
\* part2 reading as "do not change".
KernelPriorityValid == \A s \in Slots : kproc[s].priority \in 0 .. NR_SCHED_QUEUES - 1

\* part1: a scheduled process is never in a queue below the last user queue, and
\* one that was started explicitly never in a better queue than it is entitled
\* to.  A forked process can be: when its parent is given a better queue between
\* the fork and the child's start request, the child inherits that queue with
\* the maxprio of before.
PriorityWithinBounds ==
  part = 1 => \A s \in Slots :
    schedproc[s].inuse =>
      /\ schedproc[s].priority <= MIN_USER_Q
      /\ schedproc[s].parent \in {s, RS} => schedproc[s].max_priority <= schedproc[s].priority

\* A process that may run does so in the queue and with the quantum SCHED has
\* recorded, also after the kernel has refused a call; in part2 a wrapped
\* priority stands for the queue the process was in.
RunsAsRecorded ==
  SchedTypeOK /\ \A s \in Slots :
    IsOkEndpoint(s) /\ kproc[s].alive /\ ~kproc[s].noquantum =>
      /\ \/ schedproc[s].priority = kproc[s].priority
         \/ part = 2 /\ schedproc[s].priority = UINT_MAX
      /\ schedproc[s].time_slice = kproc[s].quantum

\* A cpu the kernel has called bad is never asked for again (so that the loop of
\* do_start_scheduling ends).
DeadCpuNotRetried == \A c \in Cpus : badcpu[c] <= 1

\* A process out of quantum gets a new one, and a start request is answered,
\* as long as the kernel refuses nothing.
RequestsAnswered ==
  [](refusals = 0) =>
    \A s \in Slots :
      /\ kproc[s].sending ~> (~kproc[s].noquantum \/ pm[s] # "running")
      /\ pm[s] = "new" ~> pm[s] # "new"

\* part1: balancing undoes the bumping down.  A process that stops using up its
\* quanta is back in the best queue it is entitled to in the end.
BalanceRestores ==
  part = 1 =>
    \A s \in Slots : <>[](~kproc[s].noquantum) => []<>(~BumpedDown(s))

=============================================================================
