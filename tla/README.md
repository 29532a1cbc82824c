# Models of the OS-Lab programs

TLA+ models of the programs in this repository: the lab solutions of an
operating-systems course, among them modified sources of the MINIX 3 scheduler,
kernel, virtual file system (VFS) and MINIX file system (MFS). TLC checks the
models on small instances; TLAPS proves part of the properties for all values of
the constants. `PROJECT.json` lists the runs, the source lines each definition
translates, the hazards and the theorems.

## 1. Inventory

The labs are independent programs. Within a lab, what interacts are threads,
processes, or MINIX servers and the kernel.

### Lab 6, four concurrent image programs (`src/Assignment6`)

Each applies two transformations (grayscale, horizontal blur) to every row of an
image and writes the image at the end.

| Program | State | Interaction | What is hard | What makes it correct |
|---|---|---|---|---|
| `PART2_1bOS.cpp` | the image, `t1_semaphore`, a loop variable per thread | T1 posts the semaphore after a row, T2 waits before a row | two threads work in place without a lock | no row shared; each row transformed twice before the image is saved |
| `PART2_1aOS.cpp` | the image, a stack of row numbers, `lock_mutex`, globals `h` and `w` | the blur thread pushes under the lock, the grayscale thread pops under the lock and looks a second time outside it | data race on the second look; polling; the test that ends the loop | a row handed over once, only when blurred, and none forgotten |
| `PART2_3OS.cpp` | the pipe, two images | the child writes rows, the parent waits for the child and then reads | pipe capacity, short reads | rows arrive whole; the image is written |
| `Part2_2OS.cpp` | two shared-memory objects with names, an image per process | the child signals a shared semaphore per row; both unlink one name; the other object stays | state left by an earlier run, a child that outlives its parent | a run uses its own rows only |

`Part1.cpp` does the same sequentially.

### Lab 5, the MINIX scheduler (`src/Assignment5`)

*SCHED* (`part1/schedule.c`, `part2/schedule.c`) is a user-space server with a
table of processes (priority, max_priority, time slice, cpu) and a load counter
per cpu. Its operations are start, stop, nice, no-quantum and, every five
seconds, balance. It drives the kernel through `sys_schedule`, that is
`sched_proc` in `part2/system.c`, which keeps its own table; PM and RS send it
requests. Hard: two tables that must agree when calls are refused, unsigned
priorities that wrap, loops over kernel calls while the kernel takes quanta away,
slots used again.

*The kernel* (`part2/system.c`). Three groups of functions, each on fields of the
process table that the others leave alone:

| Functions | State | Interaction | What is hard | What makes it correct |
|---|---|---|---|---|
| `get_priv`, `set_sendto_bit`, `unset_sendto_bit`, `fill_sendto_mask` | privilege structures, static and dynamic, with a send mask each | RS sets and changes privileges; an exit frees the structure, mask and all | a structure used again; two masks changed by one request, except when a process cannot send | who may send to whom is what was asked for last |
| `kernel_call`, `_dispatch`, `_finish`, `_resume`; `cause_sig`, `send_sig`, `sig_delay_done`, `send_diag_sig` | run-time flags, saved request, pending signals, the manager and its backup | VM answers a suspended call; signal managers ask for signals and say when they are done | a signal before, between or after a manager's calls; a call suspended twice; an end with a call suspended or a signal in hand | a call ends once; a signalled process waits and its manager learns of it |
| `clear_endpoint`, `clear_ipc_refs`, `clear_ipc` | who sends to, receives from, has notified whom; caller queues; asynchronous tables | processes send and receive; one ends, its slot is used again | traces left in other processes | nobody waits for a process that has ended |

`part1/system.c` is the same code without the log line.

### Lab 4, a CPU-scheduling simulator (`src/Assignment4`)

`Scheduler.cpp` reads a file of processes and runs an event loop with a ready
queue, an I/O queue and one process on each device, as sjf or srtf. Hard: the
order of events in a tick, preemption, accounting, termination.

### Lab 8, page replacement (`src/Assignment8`)

`fifo.cpp`, `LRU.cpp`, `random.cpp`: a memory of frames as a vector, and a loop
over the requests. Hard: only long request strings tell a wrong policy from a
right one.

### Labs 9 and 10, VFS and MFS (`src/Assignment9`, `src/Assignment10`)

Lab 9 adds log lines to VFS's `open.c`, `read.c`, `link.c`. The calls in these
files (open and creat, close, mknod, mkdir, link, unlink, rmdir, rename, truncate)
are executed by worker threads of VFS. They share the vnodes with their reference
counts, lock a file system (vmnt) for reading, read-serialized or exclusively, and
a vnode for reading, for opening and closing, or for writing, and wait for the
file system. Hard: an upgrade of a lock between a lookup and the request that
relies on it; a reference and several locks to undo on each of many error paths;
two calls that wait for each other's locks. Correct: references are exactly those
of descriptors and calls, what was looked up holds when it is acted on, and calls
end.

A FIFO is opened in `common_open` and `pipe_open`, and read and written in `rw_pipe`. The
state is the vnode's reference count and size, a filp per side that all its users
share, and for each process what it sleeps in and what is left of its request. Readers
and writers wake each other by closing, ending, opening, reading and writing. Hard: a
wake-up for every sleeper; slots and references to undo when a filp is shared; a write
larger than the pipe, done in parts between which the other side comes and goes.
Correct: nobody sleeps with nobody left to wake him, references are those of the filps,
and answers say what was moved.

Lab 10 adds
*immediate files*: a new file keeps up to 32 bytes in the zone numbers of its
inode and becomes regular when it outgrows them (`mfs/read.c`, `mfs/write.c`).
VFS has a vnode per open file (reference count, mode, size) and a filp per
descriptor; MFS has the inode and the zones of the device. Hard: the conversion
in the middle of a write, copies from and to the user that fail, a full device,
two copies of a file's size and mode, several descriptors on a file.

A regular file's zones are named in the inode, through an indirect block, or through
a double indirect block (`write_map`, `new_block`, `read_map`). Hard: three levels of
index arithmetic, written twice; blocks made on the way to an entry while the device
fills up; blocks freed with their last entry. Correct: what is read at a place is what
was entered there, and every zone is free or has one entry.

### The others

Lab 2 (three programs that exec one another), lab 3 (scripts) and lab 7
(textbook simulators in Python) have no model; `PROJECT.json` says why.

## 2. Modules

    ImageRows ──┬── RowPipeline             what an image program promises
                ├── SemPipeline
                ├── MutexPipeline
                ├── PipePipeline
                └── ShmPipeline
                     all four ── ImagePrograms ── ImageProofs
    SchedServer ── SchedServerProofs
    KernelPriv ───┐
    KernelSignals ┼── Kernel ── KernelProofs
    KernelIpc ────┘
    VfsNames ─┬── Vfs ── VfsProofs
    VfsPipes ─┘
    CpuSim ── MCCpuSim ─┬── Simulators ── SimulatorsProofs
    Paging ─────────────┴── PagingProofs ────┘
    FileMap ── ZoneMap                      what a file's zone map promises
    ImmediateFile ── MCImmediateFile
    ImmediateFile, ZoneMap ── Mfs ─┬── MCMfs
                                   └── MfsProofs
    InductionLemmas                         for KernelProofs and PagingProofs

Names of operators are the names in the code where there is one. Every property
has a deliberate error in the code it is about (the definitions called `Mut...`,
listed under `mutants`), on which TLC must find the property violated.

### ImageRows, RowPipeline

An image is a function from rows to how far each has got: raw, transformed once,
finished. No transformation looks at another row, so pixel values cannot tell
interleavings apart. *RowPipeline* is the abstract specification: transform
unfinished rows in any order, save once, after all rows are finished.

### SemPipeline (`PART2_1bOS.cpp`)

`main`, T1 and T2 have a program counter each. A row in work is a state of its
own (`gray`, `blur`), so two threads on one row would be visible. The semaphore
is a number; `sem_wait` is blocked at 0.

### MutexPipeline (`PART2_1aOS.cpp`)

As above, with the lock's holder as a variable. `MxSeenEmpty` is the unlocked
`buffer.empty()`: either answer while the other thread is in `push_back` (a data
race), the true one otherwise. `h` loses the width per row; `w` is 0, since
`main` reads the width into a local variable.

### PipePipeline (`PART2_3OS.cpp`)

A row is `RowUnits` units, the pipe holds `ppCapacity` (every capacity up to
`MaxPipeCapacity`). A write copies unit after unit; a read takes what there is, up
to a row, and the program ignores how much that was. fork may fail.

### ShmPipeline (`Part2_2OS.cpp`)

Several runs in a row. An object of shared memory is named after the run that
creates it and remembers whose row each row is. The semaphore's object is never
unlinked. The parent does not wait for the child, so the next run may begin with
the last child's unlink still to come. A run may be interrupted, or end early
because a call failed, leaving its objects behind. Runs that overlap more than
that are left out: the program is not written for them.

### ImagePrograms

A user starts one of the four; the others stay as they are. This composes the
specifications for one run of TLC.

### SchedServer (`schedule.c` of both parts, `sched_proc`)

`schedproc` and `cpu_proc` are SCHED's own; `kproc` is the kernel's table; `pm`
and `request` are where PM or RS is with a process. SCHED handles a message at a
time. The loops of `do_start_scheduling` (over processors the kernel refuses) and
`balance_queues` (over the table) take a step per turn, between which the kernel
may take a process off its queue; every other handler is one step. Priorities
are unsigned: part2's `priority -= 1` wraps to `UINT_MAX`, which the call passes
as -1, "do not change". `sched_proc_check` has the code's checks, including the
one that lets queue `NR_SCHED_QUEUES` pass. `part` chooses the variant. The
actions of the environment are external: fork (PM), `SpawnService` (RS), exit,
and the end of a quantum. Endpoints have generations, so that a stale entry can
be told from the process that uses its slot now.

### KernelPriv (`system.c`: privileges)

`s_proc_nr`, `s_ipc_to` and `sends` (a trap mask with more than RECEIVE) are fields
of the structures; `granted` remembers, for two structures, what the later of their
two requests asked for. The environment is the kernel call by which Root sets
privileges, in its two forms: a new structure is a copy of the caller's, then gets
the default targets, then those asked for; and the clearing of a slot, which frees
the structure and leaves the mask as it is.

### KernelSignals (`system.c`: kernel calls and signals)

The functions of `system.c` are operators from a process table to a process table,
so that one of them can call another as in the code; `Panic` is the table of a
kernel that has stopped. The callers are services, their signal manager (RS) and
the replica that takes over from it; `hand` is where a manager is in its loop of
getksig and endksig. A call to copy memory may be suspended up to `MaxSuspends`
times, may find its buffer unreadable when it ends, and its caller may meanwhile
be signalled, stopped or gone. `waiting` is the history of a call not yet
answered. `kernel_call_resume` passes the saved message to the end of the call,
which for an answered call overwrites the m_source of that same message
(`system.c:72-75` and `591-616`); `saved` becomes `SYSTEM` there and is never looked
at before it is set again.

### KernelIpc (`system.c`: clear_endpoint and clear_ipc)

Sending, receiving, notifying and asynchronous sending are outside the repository
and modelled by what they do to the fields that are cleared. `caller_q` is the queue
of the processes blocked on one; `WaitsFor` is the kernel's refusal of a cycle.
A slot whose process has ended may be used again.

### Kernel

One of the three, by `part`; they share no state.

### VfsNames (`Assignment9/open.c`, `Assignment9/link.c`)

Names in one directory, inodes with a kind, vnodes (`v_ref`) and a descriptor per
process. `Dir` is the inode of the directory. `work` has for each worker where it waits
(`pc`), which call it is in, how it has locked the vmnt and the vnode it works on, whether
it has locked the vnode of the directory (`dir`), and whether it counts as a reference. An
action goes from one wait to the next, so that every place at which VFS can turn to
another worker is a place where the model can. Locks are three-level as in `tll.c`:
a read-serialized holder goes with readers, an exclusive one with nobody, and who
upgrades keeps new readers out. Calls that differ in nothing but the request share
a name: unlink stands for rmdir, mknod for mkdir. Which component the path ends in is
settled when it is first looked up, so the nondeterminism is that of the arguments
of the call. `last_dir` leaves the directory locked for writing (`LockDirectory`) to the
end of a call that changes it, over the upgrade of the vmnt and the request; the reference
it gives goes with that lock and is put right after it, so it is not counted. The path of an
open or a truncate may also end at the directory itself (`FoundDirectory`), which is how a
call that has the vmnt for reading only comes to wait for the vnode of the directory. The
sticky bit, permissions and whether a directory is /home are choices of the environment.
`down` is the dereference of NULL described under *Observations*.

### VfsPipes, Vfs (`Assignment9/open.c`, `Assignment9/read.c`)

One FIFO; `fproc` has a process's descriptor of it, what it sleeps in (`blocked`,
`revived`, `left`) and the two counts of a write in parts: `cum` is
`fp_cum_io_partial`, `moved` what the call has really moved. `unread` and `unreported` are
history too: the bytes really in the pipe, and the difference between what calls moved and
what they answered. A call has the vnode locked exclusively until it answers or sleeps, so
it is one step: `OpenFifo`, `CloseFifo`, `ReadWrite` for a new call, `Resume` for one that is
tried again. `pipe_check`, `release`, `close_filp` and `do_pending_pipe` are not in the
repository; they are modelled by what the code needs of them. `PipeFails` is a bad buffer,
`Exit` the end of a process, asleep or not.

*Vfs* composes *VfsNames* and *VfsPipes* for one run of TLC: a FIFO that is open is used
without its name.

### CpuSim (`Scheduler.cpp`)

An iteration of the event loop is a pass through six phases, one per `if` of the
code. The two algorithms differ in *Preempted* and are run on every file of three
lines from `MCTokenLines`. `ran` counts the ticks a process has had the CPU; it
is the only variable the program does not have. Two blanks in a row read as a 0,
which shifts the parity `readdata` uses for its totals and not the order of
bursts; `totalburst_time` and `CpuTime` keep the two apart.

### Paging (`fifo.cpp`, `LRU.cpp`, `random.cpp`)

The three programs run side by side on the same requests, and LRU a second time
with one more frame. The properties compare them with reference definitions over
the request string (`LastUses`, `Asked`).

*Simulators* composes *CpuSim* and *Paging*, of which a user runs one, for one run of TLC.

### ImmediateFile (`mfs/read.c`, `mfs/write.c`, `vfs/open.c`, `vfs/read.c`, `vfs/link.c`)

One file and several descriptors. VFS locks the vnode for a call, so a call is a
step. `FsWrite` and `FsRead` are `fs_readwrite` as functions from an inode to the
set of its outcomes:

- `WriteImmediate`: into the inode. When the copy from the user fails the code
  goes on into the loop over chunks, which takes the bytes for zone numbers and
  may lose a zone.
- `WriteConverting`: `removeInodeEntry`, a new block, the old bytes, then the
  loop. Without a free zone the contents are gone.
- `WriteChunks`: the loop for a regular file, which may stop at any block for want
  of space or because a copy fails.
- `FsRead`: of an immediate file, the whole of it whatever the position; with a
  buffer that is too small the loop over chunks answers zeros, something that is
  not the file's, or an error.

VFS's side is `Write` (which updates the size of an `S_ISREG` vnode only),
`OpenNew`, `OpenExisting` (with O_APPEND and O_TRUNC), `Close`, `Lseek`,
`LseekEnd` and `Truncate`. Truncation to 0 inside MFS and `alloc_zone` are not in the
repository; they are modelled from their use.

### FileMap, ZoneMap, Mfs (`mfs/write.c`, `read_map`)

*FileMap* is the abstract specification: a file is a function from places to distinct
zones or holes, and a step fills one hole or makes one. *ZoneMap* is how MFS keeps it.
`zone` has the inode's table and the contents of every zone read as a table, so an
indirect block is a zone like any other: one that is not in use, or holds data, has
`Garbage` in it, and making an indirect block without zeroing it would show.
`Entered` and `Removed` are the two halves of `write_map`, without and with WMAP_FREE,
as functions from a device to a device, made of `Created` (an indirect block is made
if there is none), `Freed` and `Pruned` (an indirect block is freed if it is empty).
`new_block` enters a zone at a hole and frees it again when `write_map` is refused a
zone for an indirect block. `free_zone`, truncation, may free any zone of the file; the
code that calls `write_map` for it is not in the repository. `refused` is history.

*Mfs* composes *ImmediateFile* and *ZoneMap* for one run of TLC. The first has the bytes
of a small file, the second the places of a large one.

## 3. Runs

| Run | Bounds | What it shows |
|---|---|---|
| `images` | 3 rows of 2 pixels, 2 units per row, pipes of 1 to 7 units, 3 runs | see below |
| `mutex_early_exit` | the same | a disagreement with a comment |
| `sched` | 2 slots, 3 queues, one cpu, one refused call | both variants, safety and liveness |
| `sched_smp` | 2 slots used three times, 4 cpus of which 1 and 2 do not answer | the loop over refused cpus |
| `simulators` | 3 lines out of 5, arrivals 0, 1, 3; 4 pages, 2 frames (LRU also 3), 7 requests | both algorithms on all 3375 files; all request strings |
| `srtf` | the first of these | a disagreement with the readme |
| `mfs` | 2 descriptors, inode 2 bytes, block 3, file 4, 2 zones, 2 values; 1 direct zone, indirect blocks of 2 entries, 5 zones | bytes of a small file, and zones of a large one |
| `stale_vnode_size` | the first of these | a disagreement with a comment |
| `kernel` | 2 processes, 2 static and 1 dynamic structures; 2 services, manager and backup, 2 signals, 2 suspensions; 3 processes, 1 pending notification | the three parts of `system.c`, safety and liveness |
| `vfs` | 2 workers, 2 names, 2 inodes and the directory's; 3 processes, 3 filps, a pipe of 2 bytes, requests of 1 and 3 | the calls on names, safety and liveness; a FIFO, safety |
| `rename_deadlock` | the first of these | a deadlock that a comment means to prevent |
| `fifo_partial` | the second of `vfs` | a disagreement with a comment, and a panic |

**images.** `SemNoSharedRow`: T2 only works on rows T1 has left.
`SemImplementsRows`, `ShmImplementsRows`: the programs implement *RowPipeline*; for
shared memory in every run, whatever the runs before it left behind.
`ShmCopiesOwnRows` is the invariant behind that. `MxHandOver`: rows are handed over
once and blurred. `MxLateExitIsComplete`: when the grayscale thread leaves after
the blur thread, no row was lost between its two looks at the buffer.
`PpRowsWhole`: rows stay whole although `read` may be short, because the pipe has
been filled before; nothing is read of an image larger than the pipe, which is never
written. `ImgDelivery`: otherwise every program gets to its end. The mutex program
does not implement *RowPipeline*: see the findings. Three rows have a first, a
middle and a last; seven units are one more than the image needs, so capacities
on both sides of it occur; with three runs an object, a name or a semaphore value
can survive one run and meet a later one.

**sched, sched_smp.** `KernelPriorityValid`: no process in a queue that does not
exist. `RunsAsRecorded`: SCHED and the kernel agree on every process that may run,
after refused calls too. `PriorityWithinBounds` (part1): priorities between
`max_priority` and the last user queue, except that a forked process may be better
off than its `max_priority` says when its parent is reniced before the start request
is handled. `DeadCpuNotRetried`: the loop over EBADCPU ends. `RequestsAnswered`:
messages are answered as long as no call is refused. `BalanceRestores` (part1): a
process that stops using up its quanta returns to its best queue. The numbers:
with two slots a process has a parent and, in `sched_smp`, another process in its slot
after it (in `sched` slots are not used again; that a stale entry does no harm rests on
the theorem there); three queues give a bumped process a best, a middle and a last queue; one refusal is
enough, as nothing remembers it but the table; four cpus leave two that answer
nothing, so that a refused cpu is followed by a second refused one. `MaxLoad` bounds
the load at which the environment makes more requests, far from where the counter
wraps; `UINT_MAX` is small so that a wrap happens, and in `sched_smp` just above what
the theorem on `DeadCpuNotRetried` asks for. The runs let the kernel refuse
`start` and `nice` only: after a refused no-quantum or balance call the two tables
differ by design, and SCHED never repairs it.

**simulators** (scheduling). `OnePlace`: an arrived process is in exactly one queue, on one device or
finished. `CpuTimeConserved`: what it has had and what is due to it make up its
line, through every preemption. `ReportAddsUp`: the waiting time reported is the time
it did not have the CPU. `SimEnds`: the loop ends; when both queues are
empty it does so with the other device still busy (`Scheduler.cpp:108` and 119), and the
properties do not say that every process is finished. The five lines are one short and
one long burst, a process that ends with I/O, one that returns from I/O, and one
with two blanks in a row; the arrivals include a tie, neighbours and a gap in which
the CPU is idle.

**simulators** (paging). `LruKeepsLatest`: LRU holds the pages used last in the order of use.
`LruInclusion`: a frame more never costs a fault. `Conservative`: FIFO and LRU have at
most as many faults as frames on a stretch of requests for no more pages than that; no
program holds a page twice, and the memories are as full as they can be. Four pages for
two frames and seven requests let a page be evicted, return and be evicted again.

**mfs.** `WritesAreRight`: a write that succeeds, also one that converts the
file, changes the bytes as a write should; it exempts a hole in an immediate file,
which may show bytes from before a truncation. `FailedWritesKeepTheRest`: a write
that fails on a regular file, at whichever block, changes nothing outside its range.
`ReadsAreRight`: of a regular file always, of an immediate one from position 0 with a
large enough buffer. `ZonesAccounted`: no zone is lost without a failed write, and
none is ever made. `SizesAgree`: once VFS knows the file to be regular its size is
MFS's. The sizes are the smallest with a file in the inode, in one block and in two,
a write from the inode into the second block, and a device that is full at each
point. Data values and descriptors are symmetric, as the code never compares them;
the run checks no liveness.

`ZoneMapImplementsFileMap`: whatever indirect blocks come and go, a step changes one place
of the file. `EachZoneOnce`: every zone is free or has exactly one entry, in a table that
is itself in use. `NoneKeptEmpty`: indirect blocks go with their last entry; the double one
may stay without one after a write that was refused a zone for the block below it, as
`write_map` returns before it looks. With one direct zone and two entries in a block the file has
one place in the inode, two under the indirect block and two under each of two blocks
of the double indirect one; five zones let one place need three (data and two
indirect blocks) and the device be full after each of them.

**kernel.** `SendMasksAsGranted`: a process that can send may send to another exactly
when the later request of the two allowed it; bits do not survive their process.
`SignaledIsBlocked`: a process with a signal not yet handled does not run, and its
manager has been, or is being, told; the comment before `cause_sig` says so, and it
has to survive a second signal at any moment and a change of manager.
`ResumeAssertions`: the assertions in `kernel_call_resume` hold, a call is resumed
only while it has not been answered. `NobodyWaitsForTheDead`: no trace of an ended
process in any other. `HandledAndAnswered`: signals are handled and calls answered,
or the process ends. Three structures are a pair and a third that must not be
disturbed, and the only dynamic one is used again; two signals are the one in hand
and one that comes on top of it; two suspensions are a call suspended again; three
processes are one that ends, one blocked on it, and one blocked on that one.

**vfs** (names). `RefsAccounted`: reference counts are those of descriptors and calls under
way, on the error paths too; a worker without a call has nothing locked.
`LookupsStillHold`: a file about to be created does not exist, as the comment in
`new_node` claims, and the file removed is the one whose number the log line shows.
`CallsEnd`: every call ends and no lock is kept, but for one deadlock (`WaitForEachOther`):
a call that creates, removes or renames has the directory locked and waits for the readers
of the vmnt, and one of those, an open or a truncate of the directory, waits for its vnode.
That is finding 5; `CallsEnd` says that there is no other, and `DeadlockIsForEver` is the
proof that it is one. With two workers one holds what the other waits for; two names are what a rename needs; with two inodes the
file system is full when both are used, and one can have two names, or a
descriptor and no name. The invariants are proved for any number of workers, names and
inodes; only `CallsEnd` rests on the bounds.

**vfs** (FIFO). `FifoRefs`: the vnode has a reference for each filp, a filp counts its
descriptors, and each side shares one. `BytesAccounted`: what a read or write answers is
what it has moved in all its parts, and VFS knows how much is in the pipe.
`NobodySleepsInVain`: an open sleeps only while the other side is not there, a read only
while the pipe is empty and has a writer, a write only while it has a reader, and never
both sides. With three processes two share a side; a request of 3 is larger than the
pipe and is moved in two parts or three, a request of 1 leaves it half full. All three
are proved for any number of processes, any pipe and any requests.

### Findings

Each is a run with `expect: violation`.

1. *mutex_early_exit*: "Break the loop when all rows have been processed"
   (`PART2_1aOS.cpp:94`). `h * w` is always 0, so the grayscale thread leaves the
   first time it finds the buffer empty.
2. *srtf*: "Shortest Remaining Time First" (`Assignment4/readme.txt:1`). A process
   that returns from I/O does not preempt a longer one.
3. *stale_vnode_size*: "On write, update file size and access time"
   (`vfs/read.c:243`). Not for an immediate file, whose vnode keeps the old size.
4. *fifo_partial*: "fp->fp_cum_io_partial is only nonzero when doing partial writes"
   (`Assignment9/read.c:341`). When a partial write to a FIFO ends in an error, `rw_pipe`
   returns without clearing it, and the next read or write of that process makes VFS panic
   ("fp_cum_io_partial not clear").
5. *rename_deadlock*: "Do not yet request exclusive lock on vmnt to prevent deadlocks later
   on" (`Assignment9/link.c:205`). `do_rename` keeps the directory locked when it asks for
   the exclusive lock (line 275), which waits for the readers; an open of the directory
   (`open.c:134`) or a truncate (`link.c:314`) is a reader that waits for the directory.
   `RenamesEnd`: a rename ends. `do_unlink` (line 155) and `new_node` (`open.c:361`) wait
   in the same way.

### Observations

Seen while modelling, and in the models, without a run of their own:

- Lab 9's `do_unlink` reads the vnode it has just looked up for the log line
  (`link.c:165`) before it knows that there is one. A path in /home whose last
  component does not exist makes it dereference NULL; this is `down`, after which
  the model stops. `CallsEnd` is stated for a VFS that is not down.
- The log line is printed before the request, and stays when the file system then
  refuses the removal.
- The comment on `balance_queues` says that the scheduler "bumps processes down one priority
  when ever they run out of quantum" (`part2/schedule.c:351`). In part2 `do_noquantum` lowers
  the number of the queue (`NoquantumPriority2`), which moves them up.
- `kernel_call_resume` lets the call end with the saved message as the caller's
  message, see *KernelSignals*.

- A write to a FIFO that is answered with an error may have moved bytes before;
  `BytesAccounted` says nothing of errors.
- Who opens a FIFO for a side that is open gets the filp of the others and overwrites its
  flags, so O_NONBLOCK of the newest opener holds for all (`open.c:259`).

### Fairness

- Image programs: weak fairness for each thread and process. The operating system
  schedules all of them at one priority, and a step that blocks on a semaphore
  or pipe stays enabled once it is, as nobody else takes what it waits for. The
  lock of the mutex program is contended; weak fairness of the blur thread suffices
  because the grayscale thread ends (finding 1). Whether a run is interrupted or
  another one started is the user's choice and not fair.
- SCHED: strong fairness for receiving each message, as IPC queues senders in order,
  and for the timer; weak fairness for the turns of a loop. Nothing is assumed of
  PM, RS, or processes using up quanta.
- Kernel: weak fairness for the resumption of each call (`switch_to_user` finishes a
  call before the process runs), for VM's answer, and for the steps of each manager,
  which are processes the kernel runs when they can run. Whoever calls, sends, faults
  or ends does so when it likes. A step once possible stays so, or the process it is
  about ends, which is why weak fairness is enough.
- Names: strong fairness of each worker's step. Workers run in turn and the queue of a
  lock is served in order, so who waits for a lock that becomes free again and again
  gets it; weak fairness would not say so. Nobody has to make a call.
- Simulator: weak fairness of its single loop.
- Paging, immediate files and FIFOs: no liveness is claimed, no fairness assumed.

Runs have `CHECK_DEADLOCK FALSE` because the programs end, because the bounds end
them, or, for the pipe program, because it does get stuck, which is stated as a
property.

## 4. Proofs

The proofs hold for every value of the constants that satisfies the `ASSUME`s of
the module: images with a pixel, tables with a slot, `UINT_MAX` larger than the
number of queues, blocks of a byte or more, a frame or more, any services and
privilege structures, any finite number of workers, processes, descriptors and filps.
All safety properties of the runs that are expected to pass, and all refinements, are
stated by a theorem. Where a run checks components beside each other, a theorem says
so of the composition (`ImgSafe`, `KernSafe`, `VfsSafe`, `MfsSafe`, `SimulatorsSafe`).

**ImageProofs.**
*Semaphore program:* `SemTypeCorrect`, `SemRaceFree`, `SemRefinement`. The property
is not inductive: that T2's row is done follows from the value of the semaphore.
`SemIInv` adds where the threads are in their loops (`SemLoops`), where
main is with its joins (`SemJoins`), that the semaphore counts the rows posted and
not taken (`SemBalance`), and that what was done to each row follows from the loop
variables (`SemProgress`). For the refinement, a row step of either thread is
*Transform* of that row, the save is *Save*, all else stutters.
*Mutex program:* `MxHandOverSafe`, `MxNoRowLost`. `MxIInv` adds who holds the lock
(`MxLocking`), that no row is on the buffer twice or there while it is worked on
(`MxHanded`), and that below the blur thread's row everything is done but what has
been handed over (`MxProgress`). The last gives `MxNoRowLost`: the grayscale thread
sees an empty buffer after the blur thread has stopped pushing.
*Pipe program:* `PpRowsArriveWhole`. `PpIInv` says that the pipe holds the units of
consecutive rows from some row on (`PpInOrder`): from the first while the child
writes, from the parent's row while it reads (`PpInPipe`). The parent waits for the child
before it reads, which is why an image larger than the pipe is never read at all.
*Shared memory:* `ShmCopiesOwnRowsSafe`, `ShmRefinement`. `ShmOrder` puts the runs in
order, `ShmPhase` the two processes of a run. While a run uses the shared objects
`ShmShared` says what the semaphore counts and that the rows it counts are in the object
this run has mapped, whatever earlier runs left there, and `ShmDone` what the
parent has made of them.

**SchedServerProofs.** `SchedTypeCorrect`, `SchedQueuesExist`, `SchedWithinBounds`,
`SchedRunsAsRecorded`, `SchedDeadCpuNotRetried`. For the first two `SchedInv` adds that the entries in use hold a queue or
`UINT_MAX` (`EntriesValid`), that a loop is at a slot in use (`LoopAtSlot`) and that a
forked process has a user process for a parent (`ParentsAreUsers`). Entries in use
are what a child inherits from, what the next call passes to the kernel, and what
the rollback of `do_nice` restores. `PickCpuType` shows that `pick_cpu` returns a
cpu whatever the counters hold. There is a lemma per handler. In both variants the
wrapped priority is harmless only because -1 means "do not change".
`PriorityWithinBounds` is one entry's affair (`Bounded`), given `SchedInv`.
For `RunsAsRecorded`, `SlotRuns` follows an endpoint through its life: a process runs only when
SCHED is its scheduler, SCHED's endpoint is never ahead of the kernel's, and an entry
whose process waits for its start has no quantum. The theorem assumes
`Refusable \subseteq {"start", "nice"}`: `do_noquantum` and `balance_queues` ignore
the kernel's answer, so a refusal there would leave SCHED with a priority the kernel
does not have.
`DeadCpuNotRetried` depends on how far the load counters are from their end: a process
may already be on a cpu when that is found to be dead, and each one that stops takes
the load away from `UINT_MAX` again, so that the cpu is a candidate. `DeadStayOut` says by how much
at most: a dead cpu's load and the entries it still holds make up `UINT_MAX - NR_PROCS` or more,
and a ready cpu counts every entry it holds, so that its load never wraps below zero.
New work is accepted below `MaxLoad` only; what SCHED has accepted it pays with picks,
and `PicksOwed` is the set of those it has still to make (one per waiting message, two
per start request, one per slot the balancing loop has before it, one per cpu that may
yet turn out bad). Every pick uses one up (`OwedLess`, `PickOwed`), so the load of a ready cpu plus
the number owed stays below `MaxLoad + 1 + MaxOwed` (`LoadsInv`), and below that of a dead cpu
when `UINT_MAX > MaxLoad + 5 * NR_PROCS + NCPUS`, which the theorem assumes; in the code
`UINT_MAX` is 2^32 - 1. When no cpu but the boot processor is ready there is no such load to
compare with, and the argument is another one (`BootInv`): init is the first process
that asks for another cpu, its start is answered when all of them are dead, and it never
stops, so no dead cpu's load ever falls.

**KernelProofs.**
*Privileges:* `PrivTypeCorrect`, `PrivMasksAsGranted`. With the type invariant the
property is inductive: a structure that is freed keeps its mask and stays a target in
others', but a pair it is in counts again only after the request that fills its mask
anew, and that request sets both directions. `SetBit` and `UnsetBit` say what two of the
operators do to the two masks of a pair, `FillMask` what the loop over all ids does, and
`FillKeepsGranted` that a request decides exactly the pairs it is in.
*Signals:* `SignalsTypeCorrect`, `ResumedOnce`, `SignalledWaits`, for any
number of services, signals and suspensions. `ResumeInv`, the first two together, is
inductive: `SameCalls` says that one table says the same of calls as another, a signal
leaves them the same (`CauseSig`), a dispatched call suspends its caller exactly when
its result is `VMSUSPEND` (`Dispatch`), and the end of a call answers or saves it
(`Finish`). `SignaledIsBlocked` is not: it adds who can be whose manager, and that it
is alive (`ManagersOK`), that what a manager has in hand is a living process it
manages (`HandOK`), and that nobody who manages itself waits for a signal. The last is what
makes the change to the backup safe: it happens only to such a process. `SameSignal` is
the frame for this part, and each function has a lemma for it. A kernel that has
panicked is exempt, as it runs nobody.
*ipc:* `IpcTypeCorrect`, `IpcNobodyWaits`. `IpcInv` replaces a queue by its members,
none of them twice (`IpcQueues`), and adds whom a process may wait for (`IpcBlocked`): one
that sends and receives does both with the same one, so that when that one ends both
waits end. `WithoutMembers` says what the walk along a queue does, `ClearIpcStep` what
`clear_ipc` does to a waiting process, `WaitersAll` that none is forgotten.

**VfsProofs.**
*Names:* `NamesTypeCorrect`, `NamesRefsAccounted`, `NamesLookupsHold`. That
`v_ref` stays a natural number needs that whoever gives a reference back had one;
that what was looked up still holds needs to know who can change an entry meanwhile.
The invariant `NamesIInv` adds what the lock of the vmnt excludes (`VmntExclusion`), that an
inode not allocated has no name and no reference (`FreeUnused`) and, in `WorkerOK`, what each
worker has locked, counts and knows at each of its waits. `CardStep` is how a
count of workers changes when one of them does; `RefsStep` and `OthersStep` use it
and the exclusion to reduce a step to the worker that takes it (`WorkerStep`,
`QuietStep`), and each action has a lemma. `DeadlockIsForEver` rests on the same invariant: of
two calls that wait for each other over the directory neither has a step, and no step of
another worker changes what they have.
*FIFOs:* `PipesRefsAccounted`, `PipesBytesAccounted`, `PipesWakeups`. The
invariant `PipesIInv` is the three properties together with what a sleeping process has
(`CallsOK`) and which filps are in use (`FilpsOK`). None of the three is inductive alone: that
somebody is left to wake a sleeper needs that a filp with descriptors is in use, which is
counting; that VFS knows what is in the pipe needs that whoever reads has a reference.
`DescriptorIsUsed` turns the counts into that. `PipeCheck` says when a read or write sleeps
and whom it wakes, `RwStep` what is common to all its outcomes, and `Joins` and `Leaves` what
is common to the ways a descriptor comes and goes; each has a lemma that it preserves
the invariant.

**MfsProofs.**
*Bytes:* `ImZonesAccounted`, `ImSizesAgree`, `ImWritesAreRight`,
`ImFailedWritesKeepTheRest`, `ImReadsAreRight`, for blocks, files and devices of any
size. A write is followed chunk by chunk: `FilledUpTo` says what the chunks before a
block have done, `Written` what a write that got to a position has, and `WriteSafe`,
`WriteExtends`, `WriteRight` and `FailureKeeps` say it of all writes, immediate, regular and
converting. `Keeps` needs that the bytes behind the end of a regular file are zero
(`ZerosBeyond`), because a write that leaves a gap does not clear it; only a write that fails, and leaves bytes behind an end it has not moved, breaks that. This is
why what is said of holes is said up to the first failure. `ImZones` allows for zones
that a failed write loses; `ImVnode` adds that the vnode counts the open descriptors and is
right when it says that a file is regular, on which VFS's copy of the size depends.
*Zones:* `ZmTypeCorrect`, `ZmZonesOnce`, `ZmNoneKept`, `ZmRefinement`, for tables and
devices of any size. The invariant `ZmInv` is `Sound`: no zone has two entries (`Apart`),
and those without one are exactly the unused ones; with that, indirect blocks are not
empty. There are four ways an entry changes, each with a lemma on `Sound` and one on what
`read_map` finds: data entered (`EnterData`) and freed (`FreeData`), an indirect block made
(`NewTable`) and freed (`FreeTable`). `Slots` keeps entries for data and for indirect blocks
apart, `LeavesDiffer` says that two places of a file have two entries, which is where
the index arithmetic is (`IndicesDiffer`, `DivMod`). `ZoneIsEntered` and `ZoneIsRemoved` put the
four together in the order of `write_map`; in between, a zone in hand is neither
free nor entered, which is the second argument of `IsDevice`. A write either enters its zone and
nothing else of the file changes, or is refused and nothing does.

**SimulatorsProofs.** `SimOnePlace`, `SimCpuTimeConserved`, `SimReportAddsUp`, for any
number of processes, arrival times and lines. `SimInv` says of each process in which one
place it is (`InOnePlace`); what it still computes from there, namely the burst in hand
and every second number to come, beginning with the second if I/O is next and with the first
if a CPU burst is (`BurstsLeft`); and that its response and CPU times fit into the ticks since its
arrival (`TimesOK`). Counting places becomes membership because nobody is queued twice
(`QueuedOnce`). `SameOK` is the frame: a step concerns the process it moves, and for each
phase of the loop there is one lemma. `SumsTail` relates the sums of the odd and even places of a
sequence to those of its tail, and `BurstsAre` that a line without zeros is its own list of
bursts, which the report depends on. A device that ends the loop is not released, so
`DevicesOK` exempts the phase *ended*.

**PagingProofs.** `PagingTypeCorrect`, `PagingLruLatest`, `PagingLruInclusion`,
`PagingConservative`, for any number of frames and pages and requests of any length. `PagingInv`
gives every page in a memory a request it is there for (`KeepsLast`): in LRU's memory
the last one for that page, in FIFO's the fault that brought it, in both cases in
the order of the memory and with none left out after the first. Inclusion and the order of
last uses follow from that. For conservativeness, `FaultsOnce` adds that a stretch for no
more pages than frames has no two faults for one page (`KeepsStretch`: a page that
came in the stretch is still there), so that its faults are counted by the pages asked for.

**InductionLemmas.** The library states induction and recursion with an operator as
a parameter, which none of the provers instantiates. `Induct` states induction with a
set of numbers and `RecursiveFunction` recursion with a function for the step; they follow from
the well-founded order on finite sets. Definitions the proofs are about are therefore recursive
functions (`Without` in *KernelIpc*, `Bursts` and `SumAt` in *CpuSim*).

**Only model-checked.** Liveness under fairness and *ENABLED* are beyond the prover:
`ImgDelivery`, `RequestsAnswered`, `BalanceRestores`, `SimEnds`, `HandledAndAnswered` and
`CallsEnd` stay with TLC, `CallsEnd` for two workers, as do the runs that show a violation.

## 5. Not modelled

- In `ImmediateFile` and `ZoneMap`: peeking, block devices, read-ahead,
  `fs_breadwrite`, directories (`fs_getdents`), truncation to other lengths,
  descriptors not open for both reading and writing, and overlapping calls
  (excluded by the vnode's lock).
- In `VfsNames`: symbolic links, among them the creation of a file through a dangling
  one (`new_node` resolves it in a loop of its own), paths through several directories
  and file systems, devices (special files in `common_open`), file locks released by
  `close_fd`; a path that ends in "." in any call but open without O_CREAT and truncate; the
  reference `last_dir` gives, see *VfsNames*. Reads, writes and seeks of regular files in lab 9 are those of lab 10.
- In `VfsPipes`: unnamed pipes (which are not opened), signals that interrupt a call without
  ending the process, descriptors passed to a child, select, and more than one descriptor
  of the FIFO per process. That a sleeper is woken in the end depends on what the other
  processes do, so no liveness is claimed.
- In the kernel: timers, interrupt hooks and the table of `system_init`, and what the
  handlers of the single kernel calls do beyond the fields modelled.
- The load counters of SCHED drift, because a local schedule counts a cpu the
  kernel is not told of; the model has this, and no property is about it.
- Pixel arithmetic, the PPM format, the report's layout, log lines.

## 6. Plan

Done, in the order of importance: the image programs with the abstract pipeline;
SCHED and `sched_proc`; the simulator; page replacement; immediate files and the zone map;
the kernel's `system.c`; the calls on names of VFS; FIFOs; the proofs above. Next:

1. Refinements of more components: what an immediate file and a FIFO promise their
   callers, as abstract specifications the modules implement.
2. `VfsNames` with symbolic links, and several files against the zones of a device.
3. The exec chain of lab 2, if it proves worth it.
