-------------------------------- MODULE CpuSim --------------------------------
(***************************************************************************)
(* The scheduling simulator of Assignment4 (Scheduler.cpp), run as sjf or  *)
(* as srtf on a file of processes.  A line of the file is an arrival time  *)
(* and the numbers that follow it: CPU and I/O bursts in turn.  A number   *)
(* that is missing because two blanks follow each other reads as 0.        *)
(*                                                                         *)
(* The loop of startEvent_sjf and startEvent_srtf is cut at its if's: an   *)
(* iteration is a pass through the phases arrive, dispatch, startIo, count,*)
(* ioDone and cpuDone.                                                     *)
(***************************************************************************)
EXTENDS Integers, Sequences, FiniteSets, Functions

CONSTANTS
  NProcs,     \* lines of the file
  Arrivals,   \* arrival times
  TokenLines  \* the numbers after the arrival time, without the closing -1

Procs == 0 .. NProcs - 1

\* The bursts of a line: zeros are skipped.
Bursts(tokens) ==
  LET upTo[n \in 0 .. Len(tokens)] ==
        IF n = 0 THEN <<>>
        ELSE IF tokens[n] = 0 THEN upTo[n - 1] ELSE Append(upTo[n - 1], tokens[n])
  IN  upTo[Len(tokens)]

ASSUME CpuSimAssumption ==
  /\ NProcs \in Nat \ {0}
  /\ Arrivals \subseteq Nat
  /\ TokenLines \subseteq Seq(Nat) /\ \A l \in TokenLines : Bursts(l) # <<>>

VARIABLES
  algorithm,     \* "sjf" or "srtf": which of the two loops is run
  file,          \* the line of every process
  phase,         \* the part of the loop that comes next; "ended" after a break
  time,
  readyQueue,    \* pairs <<burst, pid>>: a priority queue on both
  ioQueue,       \* pairs <<burst, pid>> in order
  cpu, io,       \* processgoingon, currentCPUpid, wait_processIsGoingOn; and for I/O
  prc,           \* the bursts of every process that are still to come
  response_time, turnaround_time, waiting_time,
  ran            \* the ticks every process has had the CPU for (not in the program)

simVars == <<algorithm, file, phase, time, readyQueue, ioQueue, cpu, io, prc,
             response_time, turnaround_time, waiting_time, ran>>

\* The sum of the numbers in the given places of a sequence.
SumAt(s, places) ==
  LET upTo[n \in 0 .. Len(s)] ==
        IF n = 0 THEN 0 ELSE upTo[n - 1] + (IF n \in places THEN s[n] ELSE 0)
  IN  upTo[Len(s)]

Odd(s) == {i \in DOMAIN s : i % 2 = 1}

\* What readdata adds up as the burst time of a line: the numbers in odd places.
totalburst_time(p) == SumAt(file[p].tokens, Odd(file[p].tokens))

\* The CPU time the simulation gives to a line that runs to its end.
CpuTime(tokens) == SumAt(Bursts(tokens), Odd(Bursts(tokens)))

Device == [on : BOOLEAN, pid : Procs \cup {-1}, left : Nat]
Idle   == [on |-> FALSE, pid |-> -1, left |-> 0]
Phases == {"arrive", "dispatch", "startIo", "count", "ioDone", "cpuDone", "ended"}

SimTypeOK ==
  /\ algorithm \in {"sjf", "srtf"}
  /\ phase \in Phases /\ time \in Nat
  /\ readyQueue \subseteq Nat \X Procs
  /\ ioQueue \in Seq(Nat \X Procs)
  /\ cpu \in Device /\ io \in Device
  /\ cpu.on /\ phase \in {"dispatch", "startIo", "count", "arrive"} => cpu.left > 0
  /\ prc \in [Procs -> Seq(Nat \ {0})]
  /\ response_time \in [Procs -> Nat \cup {-1}]
  /\ turnaround_time \in [Procs -> Nat] /\ waiting_time \in [Procs -> Int]
  /\ ran \in [Procs -> Nat]

SimInit ==
  /\ algorithm \in {"sjf", "srtf"}
  /\ file \in [Procs -> [arrival : Arrivals, tokens : TokenLines]]
  /\ phase = "arrive" /\ time = 0
  /\ readyQueue = {} /\ ioQueue = <<>> /\ cpu = Idle /\ io = Idle
  /\ prc = [p \in Procs |-> Bursts(file[p].tokens)]
  /\ response_time = [p \in Procs |-> -1]
  /\ turnaround_time = [p \in Procs |-> 0] /\ waiting_time = [p \in Procs |-> 0]
  /\ ran = [p \in Procs |-> 0]

Arriving == {p \in Procs : file[p].arrival = time}

\* The preempted process is not put back.
MutPreempted == {}

\* It is put back with the tick it has just had.
MutPreemptedLeft ==
  IF algorithm = "srtf" /\ Arriving # {} /\ cpu.on THEN {<<cpu.left + 1, cpu.pid>>} ELSE {}

\* srtf puts the running process back with the time it has left, at an arrival only.
Preempted ==
  IF algorithm = "srtf" /\ Arriving # {} /\ cpu.on THEN {<<cpu.left, cpu.pid>>} ELSE {}

Arrive ==
  /\ phase = "arrive" /\ phase' = "dispatch"
  /\ readyQueue' = readyQueue \cup Preempted \cup {<<Head(prc[p]), p>> : p \in Arriving}
  /\ prc' = [p \in Procs |-> IF p \in Arriving THEN Tail(prc[p]) ELSE prc[p]]
  /\ cpu' = IF algorithm = "srtf" /\ Arriving # {} THEN [cpu EXCEPT !.on = FALSE] ELSE cpu
  /\ UNCHANGED <<algorithm, file, time, ioQueue, io, response_time, turnaround_time,
                 waiting_time, ran>>

\* readyQueue.top(): the shortest, of equal ones the one with the smaller pid.
Top == CHOOSE e \in readyQueue :
         \A f \in readyQueue : e[1] < f[1] \/ (e[1] = f[1] /\ e[2] <= f[2])

\* The response time is taken at every dispatch.
MutDispatch ==
  /\ phase = "dispatch" /\ phase' = "startIo"
  /\ IF ~cpu.on /\ readyQueue # {}
       THEN /\ cpu' = [on |-> TRUE, pid |-> Top[2], left |-> Top[1]]
            /\ readyQueue' = readyQueue \ {Top}
            /\ response_time' = [response_time EXCEPT ![Top[2]] = time]
       ELSE UNCHANGED <<cpu, readyQueue, response_time>>
  /\ UNCHANGED <<algorithm, file, time, ioQueue, io, prc, turnaround_time, waiting_time, ran>>

Dispatch ==
  /\ phase = "dispatch" /\ phase' = "startIo"
  /\ IF ~cpu.on /\ readyQueue # {}
       THEN /\ cpu' = [on |-> TRUE, pid |-> Top[2], left |-> Top[1]]
            /\ readyQueue' = readyQueue \ {Top}
            /\ response_time' = [response_time EXCEPT
                 ![Top[2]] = IF @ = -1 THEN time - file[Top[2]].arrival ELSE @]
       ELSE UNCHANGED <<cpu, readyQueue, response_time>>
  /\ UNCHANGED <<algorithm, file, time, ioQueue, io, prc, turnaround_time, waiting_time, ran>>

StartIo ==
  /\ phase = "startIo" /\ phase' = "count"
  /\ IF ~io.on /\ ioQueue # <<>>
       THEN /\ io' = [on |-> TRUE, pid |-> Head(ioQueue)[2], left |-> Head(ioQueue)[1]]
            /\ ioQueue' = Tail(ioQueue)
       ELSE UNCHANGED <<io, ioQueue>>
  /\ UNCHANGED <<algorithm, file, time, readyQueue, cpu, prc, response_time, turnaround_time,
                 waiting_time, ran>>

CountedDown(d) == [d EXCEPT !.left = IF @ >= 1 THEN @ - 1 ELSE @]

Count ==
  /\ phase = "count" /\ phase' = "ioDone"
  /\ cpu' = CountedDown(cpu) /\ io' = CountedDown(io)
  /\ ran' = IF cpu.on THEN [ran EXCEPT ![cpu.pid] = @ + 1] ELSE ran
  /\ UNCHANGED <<algorithm, file, time, readyQueue, ioQueue, prc, response_time,
                 turnaround_time, waiting_time>>

\* The tick that ends a process is not counted.
MutmidPrint(pid) ==
  /\ turnaround_time' = [turnaround_time EXCEPT ![pid] = time - file[pid].arrival]
  /\ waiting_time' = [waiting_time EXCEPT
       ![pid] = time - file[pid].arrival - totalburst_time(pid)]

midPrint(pid) ==
  /\ turnaround_time' = [turnaround_time EXCEPT ![pid] = time - file[pid].arrival + 1]
  /\ waiting_time' = [waiting_time EXCEPT
       ![pid] = time - file[pid].arrival + 1 - totalburst_time(pid)]

\* The device that has finished is released, unless nothing is queued: then the
\* loop is left, whatever the other device is doing and whoever is still to come.
Finish(ready, ioq, next) ==
  phase' = IF ready = {} /\ ioq = <<>> THEN "ended" ELSE next

IoDone ==
  /\ phase = "ioDone"
  /\ IF io.on /\ io.left = 0
       THEN /\ IF prc[io.pid] = <<>>
                 THEN midPrint(io.pid) /\ UNCHANGED <<readyQueue, prc>>
                 ELSE /\ readyQueue' = readyQueue \cup {<<Head(prc[io.pid]), io.pid>>}
                      /\ prc' = [prc EXCEPT ![io.pid] = Tail(@)]
                      /\ UNCHANGED <<turnaround_time, waiting_time>>
            /\ Finish(readyQueue', ioQueue, "cpuDone")
            /\ io' = IF phase' = "ended" THEN io ELSE [io EXCEPT !.on = FALSE]
       ELSE /\ phase' = "cpuDone"
            /\ UNCHANGED <<io, readyQueue, prc, turnaround_time, waiting_time>>
  /\ UNCHANGED <<algorithm, file, time, ioQueue, cpu, response_time, ran>>

\* The loop left only when the process that has finished has no more bursts.
MutCpuDone ==
  /\ phase = "cpuDone"
  /\ IF cpu.on /\ cpu.left = 0
       THEN /\ IF prc[cpu.pid] = <<>>
                 THEN midPrint(cpu.pid) /\ UNCHANGED <<ioQueue, prc>>
                 ELSE /\ ioQueue' = Append(ioQueue, <<Head(prc[cpu.pid]), cpu.pid>>)
                      /\ prc' = [prc EXCEPT ![cpu.pid] = Tail(@)]
                      /\ UNCHANGED <<turnaround_time, waiting_time>>
            /\ phase' = "arrive" /\ cpu' = [cpu EXCEPT !.on = FALSE]
       ELSE /\ phase' = "arrive"
            /\ UNCHANGED <<cpu, ioQueue, prc, turnaround_time, waiting_time>>
  /\ time' = IF cpu.on \/ io.on \/ time < 20 THEN time + 1 ELSE time
  /\ UNCHANGED <<algorithm, file, readyQueue, io, response_time, ran>>

CpuDone ==
  /\ phase = "cpuDone"
  /\ IF cpu.on /\ cpu.left = 0
       THEN /\ IF prc[cpu.pid] = <<>>
                 THEN midPrint(cpu.pid) /\ UNCHANGED <<ioQueue, prc>>
                 ELSE /\ ioQueue' = Append(ioQueue, <<Head(prc[cpu.pid]), cpu.pid>>)
                      /\ prc' = [prc EXCEPT ![cpu.pid] = Tail(@)]
                      /\ UNCHANGED <<turnaround_time, waiting_time>>
            /\ Finish(readyQueue, ioQueue', "arrive")
            /\ cpu' = IF phase' = "ended" THEN cpu ELSE [cpu EXCEPT !.on = FALSE]
       ELSE /\ phase' = "arrive"
            /\ UNCHANGED <<cpu, ioQueue, prc, turnaround_time, waiting_time>>
  /\ time' = IF phase' = "ended" THEN time ELSE time + 1
  /\ UNCHANGED <<algorithm, file, readyQueue, io, response_time, ran>>

SimNext == Arrive \/ Dispatch \/ StartIo \/ Count \/ IoDone \/ CpuDone

SimSpec == SimInit /\ [][SimNext]_simVars /\ WF_simVars(SimNext)

-----------------------------------------------------------------------------
Finished(p) == turnaround_time[p] > 0
Arrived(p)  == file[p].arrival < time \/ (file[p].arrival = time /\ phase # "arrive")

\* How often a process is held somewhere: in a queue, on a device, or finished.
\* A device that ends the loop is not released: a finished process may be on it.
Places(p) ==
  Cardinality({e \in readyQueue : e[2] = p})
  + Cardinality({i \in DOMAIN ioQueue : ioQueue[i][2] = p})
  + (IF cpu.on /\ cpu.pid = p /\ ~Finished(p) THEN 1 ELSE 0)
  + (IF io.on /\ io.pid = p /\ ~Finished(p) THEN 1 ELSE 0)
  + (IF Finished(p) THEN 1 ELSE 0)

\* A process that has arrived is in exactly one place, through preemption, I/O
\* and completion: none is lost or scheduled twice.
OnePlace == SimTypeOK /\ \A p \in Procs : Places(p) = IF Arrived(p) THEN 1 ELSE 0

\* The CPU time still due to a process: what is left of the burst it is queued
\* or running with, and the CPU bursts to come.
CpuTimeDue(p) ==
  LET s == prc[p]
      doingIo == (io.on /\ io.pid = p /\ ~Finished(p)) \/ \E i \in DOMAIN ioQueue : ioQueue[i][2] = p
      ready == IF \E e \in readyQueue : e[2] = p
                 THEN (CHOOSE e \in readyQueue : e[2] = p)[1] ELSE 0
      running == IF cpu.on /\ cpu.pid = p THEN cpu.left ELSE 0
      next == IF doingIo \/ ~Arrived(p) THEN Odd(s) ELSE DOMAIN s \ Odd(s)
  IN  ready + running + SumAt(s, next)

\* The CPU time a process has had and the CPU time due to it make up the CPU
\* bursts of its line: preemption gives back exactly what was not used.
CpuTimeConserved ==
  \A p \in Procs : ran[p] + CpuTimeDue(p) = CpuTime(file[p].tokens)

\* What midPrint reports adds up: the waiting time is the time since the arrival
\* that the process did not have the CPU, and it waited at least for its first
\* response.  (Not so for a line with two blanks in a row, whose burst time
\* readdata adds up from the wrong numbers.)
ReportAddsUp ==
  \A p \in Procs : Finished(p) /\ 0 \notin Range(file[p].tokens) =>
    /\ waiting_time[p] = turnaround_time[p] - ran[p]
    /\ response_time[p] >= 0 /\ response_time[p] <= waiting_time[p]

\* "Shortest Remaining Time First (SRTF)" (readme.txt:1): in srtf the process
\* that has the CPU for a tick has the least time left of all that are ready.
SrtfRunsShortest ==
  algorithm = "srtf" /\ phase = "count" /\ cpu.on =>
    \A e \in readyQueue : cpu.left <= e[1]

=============================================================================
