------------------------------ MODULE VfsPipes ------------------------------
(***************************************************************************)
(* Named pipes in VFS, Assignment9/open.c and Assignment9/read.c: opening  *)
(* and closing a FIFO, and rw_pipe, which reads from it and writes to it.  *)
(* Processes sleep until the other side has opened the FIFO, until there   *)
(* is something to read and until there is room to write; VFS wakes them,  *)
(* and a sleeping read or write is then tried again with what is left.     *)
(*                                                                         *)
(* There is one FIFO and each process has at most one descriptor of it.    *)
(* A call holds the lock of the vnode, exclusively for a pipe, until it    *)
(* answers or sleeps, so it is one step.  Signals that interrupt a call    *)
(* without ending the process are left out.                                *)
(***************************************************************************)
EXTENDS Integers, FiniteSets

CONSTANTS
  Procs,       \* processes
  FilpSlots,   \* slots of the filp table
  NoFilp,      \* no filp (NULL)
  PIPE_BUF,    \* bytes a pipe holds
  Requests     \* the bytes a read or write may ask for

ASSUME PipesAssumption ==
  /\ NoFilp \notin FilpSlots /\ IsFiniteSet(FilpSlots) /\ IsFiniteSet(Procs)
  /\ PIPE_BUF \in Nat \ {0} /\ Requests \subseteq Nat \ {0}

VARIABLES
  fproc,        \* the processes
  filps,        \* the filp table
  v_ref_count,  \* of the FIFO's vnode, as its next field
  v_size,       \* bytes in the pipe, as VFS knows
  unread,       \* bytes in the pipe: written and not read since it was opened anew
  unreported,   \* bytes moved by reads and writes beyond those they answered with
  panicked      \* VFS has panicked

pipesVars == <<fproc, filps, v_ref_count, v_size, unread, unreported, panicked>>

\* Results below 0 are told apart and have no other meaning.
OK == 0
SUSPEND == -1
EAGAIN == -2
EPIPE == -3
ENXIO == -4
EFAULT == -5

Modes == {"R", "W"}
OtherSide(mode) == IF mode = "R" THEN "W" ELSE "R"
ModeFor(op) == IF op = "read" THEN "R" ELSE "W"

FprocRecord ==
  [fd : FilpSlots \cup {NoFilp},
   blocked : {"no", "open", "read", "write"},  \* fp_blocked_on
   revived : BOOLEAN,       \* FP_REVIVED: to be tried again
   left : Nat,              \* io_nbytes of a sleeping read or write
   cum : Nat,               \* fp_cum_io_partial
   moved : Nat]             \* bytes the call has moved so far

FilpRecord == [count : Nat, mode : Modes \cup {"closed"}, nonblock : BOOLEAN]

AtRest == [fd |-> NoFilp, blocked |-> "no", revived |-> FALSE, left |-> 0, cum |-> 0, moved |-> 0]
FreeFilp == [count |-> 0, mode |-> "closed", nonblock |-> FALSE]

PipesInit ==
  /\ fproc = [p \in Procs |-> AtRest]
  /\ filps = [f \in FilpSlots |-> FreeFilp]
  /\ v_ref_count = 0 /\ v_size = 0 /\ unread = 0
  /\ unreported = 0 /\ panicked = FALSE

-----------------------------------------------------------------------------
(***************************************************************************)
(* From pipe.c and filedes.c, outside the repository                       *)
(***************************************************************************)
find_filp(mode) == {f \in FilpSlots : filps[f].count > 0 /\ filps[f].mode = mode}
HasSide(mode) == find_filp(mode) # {}

\* The slot get_fd takes; which one makes no difference.
get_fd ==
  LET free == {f \in FilpSlots : filps[f].count = 0}
  IN IF free = {} THEN {} ELSE {CHOOSE f \in free : TRUE}

\* Wakes those asleep in op: an open answers at once, a read or write is tried again.
release(ps, op) ==
  [p \in Procs |->
     CASE ps[p].blocked # op -> ps[p]
       [] ps[p].blocked = op /\ op = "open" -> [ps[p] EXCEPT !.blocked = "no"]
       [] OTHER -> [ps[p] EXCEPT !.revived = TRUE]]

\* How many bytes of n can be moved now, or why none; and who is to be woken.
pipe_check(f, op, n) ==
  LET space == PIPE_BUF - v_size
      no == IF filps[f].nonblock THEN EAGAIN ELSE SUSPEND
      result(r, wakes) == [r |-> r, wakes |-> wakes]
  IN CASE op = "read" /\ v_size > 0 -> result(n, "nobody")
       [] op = "read" /\ v_size = 0 /\ ~HasSide("W") -> result(0, "nobody")
       [] op = "read" /\ v_size = 0 /\ HasSide("W") -> result(no, "write")
       [] op = "write" /\ ~HasSide("R") -> result(EPIPE, "nobody")
       [] op = "write" /\ HasSide("R") /\ n <= space ->
            result(n, IF v_size = 0 THEN "read" ELSE "nobody")
       [] op = "write" /\ HasSide("R") /\ n > space /\ n > PIPE_BUF /\ space > 0 ->
            result(space, "read")
       [] OTHER -> result(no, "nobody")

\* A descriptor of f goes; the vnode is put with the last.
close_filp(f) ==
  LET last == filps[f].count = 1
      left == [filps[f] EXCEPT !.count = @ - 1]
  IN /\ filps' = [filps EXCEPT ![f] = IF last THEN FreeFilp ELSE left]
     /\ v_ref_count' = IF last THEN v_ref_count - 1 ELSE v_ref_count

\* The other side is woken first, to see whether it is alone now.
WakesOther(f) == release(fproc, IF filps[f].mode = "R" THEN "write" ELSE "read")

-----------------------------------------------------------------------------
(***************************************************************************)
(* Opening and closing                                                     *)
(***************************************************************************)
\* The side an open is for; one for both is refused.
SideOf(bits) == CHOOSE mode \in Modes : mode \in bits

\* The other side is not needed, or waited for, or woken.
pipe_open(bits, nonblock) ==
  LET other == OtherSide(SideOf(bits))
  IN CASE bits = Modes -> ENXIO
       [] bits # Modes /\ HasSide(other) -> OK
       [] bits # Modes /\ ~HasSide(other) /\ ~nonblock -> SUSPEND
       [] OTHER -> IF "W" \in bits THEN ENXIO ELSE OK

\* A co-reader or co-writer sleeps on.
MutWakesOpeners(bits) == fproc

WakesOpeners(bits) ==
  IF HasSide(OtherSide(SideOf(bits))) THEN release(fproc, "open") ELSE fproc

\* The filp of a co-reader or co-writer is used; the reference the lookup gave
\* stays.
MutShares(f, nonblock) ==
  /\ filps' = [filps EXCEPT ![f].count = @ + 1, ![f].nonblock = nonblock]
  /\ v_ref_count' = v_ref_count + 1

\* It is used, with the flags of the newcomer, and the reference given back.
Shares(f, nonblock) ==
  /\ filps' = [filps EXCEPT ![f].count = @ + 1, ![f].nonblock = nonblock]
  /\ v_ref_count' = v_ref_count

Claims(f, mode, nonblock) ==
  /\ filps' = [filps EXCEPT ![f] = [count |-> 1, mode |-> mode, nonblock |-> nonblock]]
  /\ v_ref_count' = v_ref_count + 1

\* common_open for a FIFO; the first to open it finds it empty.  A free slot is
\* needed in any case.  Mapping the vnode to PFS and emptying it can fail only
\* for the first, which leaves everything as it was.
OpenFifo(p, bits, nonblock) ==
  LET r == pipe_open(bits, nonblock)
      mode == SideOf(bits)
      mine == find_filp(mode)
  IN /\ ~panicked /\ fproc[p].blocked = "no" /\ fproc[p].fd = NoFilp /\ get_fd # {}
     /\ v_size' = IF v_ref_count = 0 THEN 0 ELSE v_size
     /\ unread' = IF v_ref_count = 0 THEN 0 ELSE unread
     /\ IF r = ENXIO
          THEN UNCHANGED <<fproc, filps, v_ref_count>>
          ELSE \E f \in IF mine # {} THEN mine ELSE get_fd :
                 /\ IF mine # {} THEN Shares(f, nonblock) ELSE Claims(f, mode, nonblock)
                 /\ fproc' = [WakesOpeners(bits) EXCEPT
                      ![p].fd = f, ![p].blocked = IF r = SUSPEND THEN "open" ELSE "no"]
     /\ UNCHANGED <<unreported, panicked>>

CloseFifo(p) ==
  LET f == fproc[p].fd
  IN /\ ~panicked /\ fproc[p].blocked = "no" /\ f # NoFilp
     /\ close_filp(f)
     /\ fproc' = [WakesOther(f) EXCEPT ![p].fd = NoFilp]
     /\ UNCHANGED <<v_size, unread, unreported, panicked>>

\* A process ends, asleep or not, and its descriptor is closed; another may
\* take its place.
Exit(p) ==
  LET f == fproc[p].fd
  IN /\ ~panicked
     /\ \/ /\ f = NoFilp /\ fproc' = [fproc EXCEPT ![p] = AtRest]
           /\ UNCHANGED <<filps, v_ref_count>>
        \/ /\ f # NoFilp /\ fproc' = [WakesOther(f) EXCEPT ![p] = AtRest]
           /\ close_filp(f)
     /\ UNCHANGED <<v_size, unread, unreported, panicked>>

-----------------------------------------------------------------------------
(***************************************************************************)
(* Reading and writing                                                     *)
(***************************************************************************)
\* pipe_suspend: p sleeps with the rest of its request.
Sleeps(ps, p, op, left) ==
  /\ fproc' = [ps EXCEPT ![p].blocked = op, ![p].revived = FALSE, ![p].left = left]
  /\ UNCHANGED unreported

\* The call of p is answered; an error says nothing of bytes.
Answers(ps, p, r) ==
  /\ fproc' = [ps EXCEPT ![p].blocked = "no", ![p].revived = FALSE, ![p].left = 0, ![p].moved = 0]
  /\ unreported' = IF r > 0 THEN unreported + ps[p].moved - r ELSE unreported

\* Nothing can be moved now.
PipeRefused(p, op, n, check) ==
  LET awake == release(fproc, check.wakes)
  IN /\ check.r <= 0
     /\ IF check.r = SUSPEND THEN Sleeps(awake, p, op, n) ELSE Answers(awake, p, check.r)
     /\ UNCHANGED <<v_size, unread>>

\* req_readwrite fails: a bad buffer.
PipeFails(p, check) ==
  /\ check.r > 0
  /\ Answers(release(fproc, check.wakes), p, EFAULT)
  /\ UNCHANGED <<v_size, unread>>

\* What a partial write has moved is not kept.
MutPipeMoves(p, op, n, check) ==
  LET awake == release(fproc, check.wakes)
      size == IF op = "read" /\ check.r > v_size THEN v_size ELSE check.r
      cum_io == awake[p].cum + size
      moved == [awake EXCEPT ![p].moved = @ + size]
  IN /\ check.r > 0
     /\ v_size' = IF op = "read" THEN v_size - size ELSE v_size + size
     /\ unread' = IF op = "read" THEN unread - size ELSE unread + size
     /\ IF check.r < n /\ ~filps[fproc[p].fd].nonblock
          THEN Sleeps(moved, p, op, n - size)
          ELSE Answers([moved EXCEPT ![p].cum = 0], p, cum_io)

\* A write that found room for a part sleeps with the rest, what it has moved
\* so far kept for its answer.
PipeMoves(p, op, n, check) ==
  LET awake == release(fproc, check.wakes)
      size == IF op = "read" /\ check.r > v_size THEN v_size ELSE check.r
      cum_io == awake[p].cum + size
      moved == [awake EXCEPT ![p].moved = @ + size]
  IN /\ check.r > 0
     /\ v_size' = IF op = "read" THEN v_size - size ELSE v_size + size
     /\ unread' = IF op = "read" THEN unread - size ELSE unread + size
     /\ IF check.r < n /\ ~filps[fproc[p].fd].nonblock
          THEN Sleeps([moved EXCEPT ![p].cum = cum_io], p, op, n - size)
          ELSE Answers([moved EXCEPT ![p].cum = 0], p, cum_io)

rw_pipe(p, op, n) ==
  LET check == pipe_check(fproc[p].fd, op, n)
  IN /\ PipeRefused(p, op, n, check) \/ PipeFails(p, check) \/ PipeMoves(p, op, n, check)
     /\ UNCHANGED <<filps, v_ref_count, panicked>>

\* actual_read_write_peek and read_write: a new call.
ReadWrite(p, op, n) ==
  LET f == fproc[p].fd
  IN /\ ~panicked /\ fproc[p].blocked = "no" /\ f # NoFilp /\ filps[f].mode = ModeFor(op)
     /\ \/ /\ fproc[p].cum # 0                \* "fp_cum_io_partial not clear"
           /\ panicked' = TRUE
           /\ UNCHANGED <<fproc, filps, v_ref_count, v_size, unread, unreported>>
        \/ fproc[p].cum = 0 /\ rw_pipe(p, op, n)

\* do_pending_pipe: a read or write that was woken is tried again.
Resume(p) ==
  /\ ~panicked /\ fproc[p].blocked \in {"read", "write"} /\ fproc[p].revived
  /\ rw_pipe(p, fproc[p].blocked, fproc[p].left)

PipesNext ==
  \E p \in Procs :
    \/ \E bits \in {{"R"}, {"W"}, Modes}, nonblock \in BOOLEAN : OpenFifo(p, bits, nonblock)
    \/ CloseFifo(p) \/ Exit(p) \/ Resume(p)
    \/ \E op \in {"read", "write"}, n \in Requests : ReadWrite(p, op, n)

PipesSpec == PipesInit /\ [][PipesNext]_pipesVars

-----------------------------------------------------------------------------
Asleep(p, op) == fproc[p].blocked = op /\ ~fproc[p].revived

PipesTypeOK ==
  /\ fproc \in [Procs -> FprocRecord]
  /\ filps \in [FilpSlots -> FilpRecord]
  /\ v_ref_count \in Nat /\ v_size \in 0 .. PIPE_BUF /\ unread \in Nat
  /\ unreported \in Int
  /\ panicked \in BOOLEAN

\* The vnode has a reference for each filp, a filp counts its descriptors, and
\* those who read share one, as do those who write: the reference and the slot
\* an open has claimed are given back when it uses another's, asleep or not.
FifoRefs ==
  /\ PipesTypeOK
  /\ v_ref_count = Cardinality({f \in FilpSlots : filps[f].count > 0})
  /\ \A f \in FilpSlots : filps[f].count = Cardinality({p \in Procs : fproc[p].fd = f})
  /\ \A mode \in Modes : \A f, g \in find_filp(mode) : f = g

\* A read or write that answers with a number of bytes has moved so many, in
\* however many parts, and a sleeping one remembers what it has moved; VFS
\* knows how many bytes are in the pipe, and a FIFO opened anew is empty.
BytesAccounted ==
  /\ unreported = 0
  /\ \A p \in Procs : fproc[p].blocked \in {"read", "write"} => fproc[p].cum = fproc[p].moved
  /\ v_ref_count > 0 => v_size = unread

\* Nobody sleeps with nobody left to wake him: an open sleeps only while the
\* other side is not there, a read only while the pipe is empty and has a
\* writer, a write only while it has a reader, and not both sides sleep.
NobodySleepsInVain ==
  /\ \A p \in Procs :
       /\ Asleep(p, "open") => ~HasSide(OtherSide(filps[fproc[p].fd].mode))
       /\ Asleep(p, "read") => v_size = 0 /\ HasSide("W")
       /\ Asleep(p, "write") => HasSide("R")
  /\ ~ \E p, q \in Procs : Asleep(p, "read") /\ Asleep(q, "write")

\* "fp->fp_cum_io_partial is only nonzero when doing partial writes"
\* (rw_pipe).  It stays so after a partial write whose rest ends in an error,
\* and the next read or write of that process is a panic.
PartialOnlyWhileWriting ==
  \A p \in Procs : fproc[p].cum # 0 => fproc[p].blocked = "write"

=============================================================================
