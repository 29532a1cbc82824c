----------------------------- MODULE ImmediateFile -----------------------------
(***************************************************************************)
(* Immediate files of Assignment10: a file that open(O_CREAT) makes has    *)
(* mode I_IMMEDIATE and keeps up to 32 bytes in the zone numbers of its    *)
(* inode; the write that would make it longer turns it into a regular file *)
(* (mfs/read.c, fs_readwrite).  VFS (vfs/open.c, read.c, link.c) keeps a   *)
(* copy of the file's mode and size in its vnode, which it loads when      *)
(* nobody has the file open and updates on its own from then on.           *)
(*                                                                         *)
(* There is one file.  VFS holds the vnode's lock during a call, so a call *)
(* is a step.  Descriptors are open for reading and writing; a call whose  *)
(* arguments VFS rejects changes nothing and is no step.  The file lies in *)
(* the direct zones of its inode, a zone being a block.  A word of the     *)
(* inode is a byte here, so that byte 0 is the zone number of block 0.     *)
(*                                                                         *)
(* The rest of MFS is not part of the repository: alloc_zone hands out a   *)
(* zone as long as one is free, and truncation to 0 frees the zones of the *)
(* file through write_map, which does nothing to an immediate one.         *)
(***************************************************************************)
EXTENDS Integers, FiniteSets

CONSTANTS
  Fds,            \* file descriptors
  Data,           \* bytes written, other than 0
  ImmediateSize,  \* bytes an immediate file may have: 32
  block_size,
  s_max_size,     \* largest size of a file
  Zones           \* zones of the device

ASSUME ImmediateAssumption ==
  /\ IsFiniteSet(Fds) /\ 0 \notin Data
  /\ ImmediateSize \in Nat \ {0} /\ block_size \in Nat /\ ImmediateSize < block_size
  /\ s_max_size \in Nat /\ s_max_size > ImmediateSize
  /\ Zones \in Nat

VARIABLES
  created,  \* the file exists
  inode,    \* type, i_size, i_zone as bytes (immediate) and as blocks (regular)
  others,   \* zones of the device that other files hold; fixed
  free,     \* free zones of the device
  vnode,    \* v_ref_count, v_mode, v_size
  filp,     \* of every descriptor: whether it is open, filp_pos and O_APPEND
  failed    \* a write has failed

imVars == <<created, inode, others, free, vnode, filp, failed>>

Byte   == {0} \cup Data
Blocks == 0 .. (s_max_size - 1) \div block_size
Zero   == [j \in 0 .. block_size - 1 |-> 0]
NoZone == <<>>
Types  == {"immediate", "regular"}

Inode(type, size, bytes, blocks) ==
  [type |-> type, i_size |-> size, bytes |-> bytes, blocks |-> blocks]
NoBytes  == [i \in 0 .. ImmediateSize - 1 |-> 0]
NoBlocks == [b \in Blocks |-> NoZone]
NoVnode  == [v_ref_count |-> 0, v_mode |-> "immediate", v_size |-> 0]

Mapped(ino) == {b \in Blocks : ino.blocks[b] # NoZone}

ImTypeOK ==
  /\ created \in BOOLEAN
  /\ inode.type \in Types /\ inode.i_size \in 0 .. s_max_size
  /\ inode.type = "immediate" => inode.i_size <= ImmediateSize /\ Mapped(inode) = {}
  /\ inode.bytes \in [0 .. ImmediateSize - 1 -> Byte]
  /\ \A b \in Mapped(inode) : inode.blocks[b] \in [0 .. block_size - 1 -> Byte]
  /\ others \in 0 .. Zones /\ free \in 0 .. Zones
  /\ vnode.v_ref_count = Cardinality({d \in Fds : filp[d].open})
  /\ vnode.v_mode \in Types /\ vnode.v_size \in Nat
  /\ vnode.v_mode = "regular" => inode.type = "regular"
  /\ filp \in [Fds -> [open : BOOLEAN, pos : Nat, append : BOOLEAN]]
  /\ failed \in BOOLEAN

\* The byte at a position below the end of the file.
ByteAt(ino, i) ==
  IF ino.type = "immediate" THEN ino.bytes[i]
  ELSE IF ino.blocks[i \div block_size] = NoZone THEN 0
  ELSE ino.blocks[i \div block_size][i % block_size]

Contents(ino) == [i \in 0 .. ino.i_size - 1 |-> ByteAt(ino, i)]

-----------------------------------------------------------------------------
(***************************************************************************)
(* MFS: writing                                                            *)
(***************************************************************************)
\* What fs_readwrite leaves behind: the inode, the free zones, its result and
\* the position it has got to.
Outcome(ino, zones, r, pos) == [inode |-> ino, free |-> zones, r |-> r, pos |-> pos]

\* new_block gets a zone.
CanAllocate(zones) == zones > 0

\* The part of block b in a transfer of n bytes from pos.
Start(b, pos)  == IF pos > b * block_size THEN pos ELSE b * block_size
End(b, pos, n) == IF pos + n < (b + 1) * block_size THEN pos + n ELSE (b + 1) * block_size

\* The last block of the file, partly written, not read in.
MutPrepared(ino, b, pos, n) == {Zero}

\* rw_chunk: the buffer the data are copied to.  It is zeroed for a new block and
\* for one that starts at or beyond the end of the file, and not read in when
\* it is to be overwritten as a whole.
Prepared(ino, b, pos, n) ==
  LET whole == End(b, pos, n) - Start(b, pos) = block_size
      beyond == Start(b, pos) % block_size = 0 /\ Start(b, pos) >= ino.i_size
  IN  IF ino.blocks[b] = NoZone \/ (beyond /\ ~whole) THEN {Zero}
      ELSE IF whole THEN {Zero, ino.blocks[b]}
      ELSE {ino.blocks[b]}

Filled(block, b, pos, n, v) ==
  [j \in 0 .. block_size - 1 |->
     IF b * block_size + j \in pos .. pos + n - 1 THEN v ELSE block[j]]

\* The loop over the chunks of a write to a regular inode.  It ends before block
\* s: after the last one, or because block s cannot be allocated, or because the
\* copy from the user fails, which leaves the block allocated.  f_size is the
\* size the file had on entry, which a conversion does not change.
WriteChunks(ino, zones, f_size, pos, n, v) ==
  LET first == pos \div block_size
      last  == (pos + n - 1) \div block_size
      new(s) == {b \in first .. s - 1 : ino.blocks[b] = NoZone}
      left(s) == zones - Cardinality(new(s))
      sized(blocks, p) == Inode("regular", IF p > f_size THEN p ELSE ino.i_size, NoBytes, blocks)
      filled(s) == [b \in Blocks |->
        IF b \in first .. s - 1
          THEN Filled(CHOOSE buf \in Prepared(ino, b, pos, n) : TRUE, b, pos, n, v)
          ELSE ino.blocks[b]]
      reached == {s \in first .. last : left(s) >= 0}
      noSpace == {s \in reached : ino.blocks[s] = NoZone /\ ~CanAllocate(left(s))}
      fault   == reached \ noSpace
  IN  {Outcome(sized(filled(last + 1), pos + n), left(last + 1), "OK", pos + n) :
         x \in {y \in {0} : left(last + 1) >= 0}}
      \cup {Outcome(sized(filled(s), Start(s, pos)), 0, "ENOSPC", Start(s, pos)) : s \in noSpace}
      \cup UNION {{Outcome(sized([filled(s) EXCEPT ![s] = buf], Start(s, pos)),
                           left(s + 1), "EFAULT", Start(s, pos)) :
                     buf \in Prepared(ino, s, pos, n)} : s \in fault}

\* The old bytes not copied to the new block.
MutConverted(ino) ==
  Inode("regular", 0, NoBytes, [NoBlocks EXCEPT ![0] = Zero])

\* The inode emptied by removeInodeEntry, and made regular with its bytes in a
\* new block 0.
Converted(ino) ==
  Inode("regular", 0, NoBytes,
        [NoBlocks EXCEPT ![0] = [j \in 0 .. block_size - 1 |->
           IF j < ino.i_size THEN ino.bytes[j] ELSE 0]])

\* The new block not taken from the free zones.
MutWriteConverting(ino, zones, pos, n, v) ==
  WriteChunks(Converted(ino), zones, ino.i_size, pos, n, v)

\* A conversion without a free zone comes after removeInodeEntry.
WriteConverting(ino, zones, pos, n, v) ==
  IF CanAllocate(zones)
    THEN WriteChunks(Converted(ino), zones - 1, ino.i_size, pos, n, v)
    ELSE {Outcome(Inode("regular", 0, NoBytes, NoBlocks), zones, "ENOSPC", pos)}

\* A failed copy is tried again by the loop over the chunks, which reads the
\* bytes of the inode as zone numbers.  If block 0 looks unmapped a zone is
\* allocated for it and lost, as write_map does not enter it; otherwise the
\* block so named, which is not the file's, is brought in.
WriteImmediate(ino, zones, pos, n, v) ==
  LET size(p) == IF p > ino.i_size THEN p ELSE ino.i_size
      noBlock == ino.bytes[0] = 0
      lost    == IF noBlock /\ CanAllocate(zones) THEN 1 ELSE 0
      r       == IF noBlock /\ ~CanAllocate(zones) THEN "ENOSPC" ELSE "EFAULT"
  IN  { Outcome([ino EXCEPT !.i_size = size(pos + n),
                            !.bytes = [i \in DOMAIN ino.bytes |->
                                         IF i \in pos .. pos + n - 1 THEN v ELSE ino.bytes[i]]],
                zones, "OK", pos + n),
        Outcome([ino EXCEPT !.i_size = size(pos)], zones - lost, r, pos) }

FitsInode(pos, n) == pos + n <= ImmediateSize

\* fs_readwrite for a write.
FsWrite(ino, zones, pos, n, v) ==
  IF pos + n > s_max_size THEN {Outcome(ino, zones, "EFBIG", pos)}
  ELSE IF ino.type = "regular" THEN WriteChunks(ino, zones, ino.i_size, pos, n, v)
  ELSE IF FitsInode(pos, n) THEN WriteImmediate(ino, zones, pos, n, v)
  ELSE WriteConverting(ino, zones, pos, n, v)

(***************************************************************************)
(* MFS: reading                                                            *)
(***************************************************************************)
Reply(r, data, pos) == [r |-> r, data |-> data, pos |-> pos]
Bytes(ino, from, to) == [i \in 0 .. to - from - 1 |-> ByteAt(ino, from + i)]
Nothing == [i \in {} |-> 0]

\* The end of file not looked at.
MutReadEnd(ino, pos, n) == pos + n

ReadEnd(ino, pos, n) == IF pos + n < ino.i_size THEN pos + n ELSE ino.i_size

\* fs_readwrite for a read.  An immediate file is copied as a whole, whatever the
\* position.  When that is more than was asked for the copy fails and the loop over
\* the chunks reads block 0 where the inode holds data: zeros if byte 0 is 0,
\* otherwise what a block holds that is not the file's, or an error.
FsRead(ino, pos, n) ==
  LET end == ReadEnd(ino, pos, n)
      zeros == [i \in 0 .. end - pos - 1 |-> 0]
  IN  IF pos >= ino.i_size THEN {Reply("OK", Nothing, pos)}
      ELSE IF ino.type = "regular" THEN {Reply("OK", Bytes(ino, pos, end), end)}
      ELSE IF ino.i_size <= n
        THEN {Reply("OK", Bytes(ino, 0, ino.i_size), pos + ino.i_size)}
      ELSE IF ino.bytes[0] = 0 THEN {Reply("OK", zeros, end)}
      ELSE {Reply("OK", "garbage", end), Reply("EIO", Nothing, pos)}

-----------------------------------------------------------------------------
ImInit ==
  /\ created = FALSE /\ inode = Inode("immediate", 0, NoBytes, NoBlocks)
  /\ others \in 0 .. Zones /\ free = Zones - others
  /\ vnode = NoVnode
  /\ filp = [d \in Fds |-> [open |-> FALSE, pos |-> 0, append |-> FALSE]]
  /\ failed = FALSE

\* The vnode as a lookup finds or loads it, with one reference more.
Looked == IF vnode.v_ref_count = 0
            THEN [v_ref_count |-> 1, v_mode |-> inode.type, v_size |-> inode.i_size]
            ELSE [vnode EXCEPT !.v_ref_count = @ + 1]

\* The vnode keeps its size.
Muttruncate_vnode(v) ==
  /\ inode' = [inode EXCEPT !.i_size = 0, !.blocks = NoBlocks]
  /\ free' = free + Cardinality(Mapped(inode))
  /\ vnode' = v

\* truncate_vnode to size 0, the vnode being v.
truncate_vnode(v) ==
  /\ inode' = [inode EXCEPT !.i_size = 0, !.blocks = NoBlocks]
  /\ free' = free + Cardinality(Mapped(inode))
  /\ vnode' = [v EXCEPT !.v_size = 0]

Opened(d, append) == filp' = [filp EXCEPT ![d] = [open |-> TRUE, pos |-> 0, append |-> append]]

\* common_open with O_CREAT and no file: new_node makes it.
OpenNew(d, append) ==
  /\ ~created /\ ~filp[d].open
  /\ created' = TRUE
  /\ vnode' = [NoVnode EXCEPT !.v_ref_count = 1]
  /\ Opened(d, append)
  /\ UNCHANGED <<inode, others, free, failed>>

\* common_open with the file there, with O_CREAT or without.
OpenExisting(d, append, trunc) ==
  /\ created /\ ~filp[d].open
  /\ Opened(d, append)
  /\ IF trunc THEN truncate_vnode(Looked)
              ELSE vnode' = Looked /\ UNCHANGED <<inode, free>>
  /\ UNCHANGED <<created, others, failed>>

\* close_fd; the last one lets the vnode go.
Close(d) ==
  /\ filp[d].open
  /\ filp' = [filp EXCEPT ![d] = [open |-> FALSE, pos |-> 0, append |-> FALSE]]
  /\ vnode' = IF vnode.v_ref_count = 1 THEN NoVnode ELSE [vnode EXCEPT !.v_ref_count = @ - 1]
  /\ UNCHANGED <<created, inode, others, free, failed>>

\* actual_lseek with SEEK_SET, or with SEEK_END and offset 0.
Lseek(d, pos) ==
  /\ filp[d].open
  /\ filp' = [filp EXCEPT ![d].pos = pos]
  /\ UNCHANGED <<created, inode, others, free, vnode, failed>>

LseekEnd(d) == Lseek(d, vnode.v_size)

\* do_truncate and do_ftruncate with length 0.
Truncate ==
  /\ created
  /\ LET v == IF vnode.v_ref_count = 0 THEN Looked ELSE vnode
     IN  /\ ~(v.v_mode = "regular" /\ v.v_size = 0)
         /\ truncate_vnode(IF vnode.v_ref_count = 0 THEN NoVnode ELSE vnode)
  /\ UNCHANGED <<created, others, filp, failed>>

Position(d) == IF filp[d].append THEN vnode.v_size ELSE filp[d].pos

\* read_write for a write, MFS having done out.  The vnode's size and the position
\* are set on success and on failure; the size for an S_ISREG vnode only.
Write(d, out) ==
  LET position == IF out.r = "OK" THEN out.pos ELSE Position(d)
  IN  /\ filp[d].open
      /\ inode' = out.inode /\ free' = out.free
      /\ vnode' = IF vnode.v_mode = "regular" /\ position > vnode.v_size
                    THEN [vnode EXCEPT !.v_size = position] ELSE vnode
      /\ filp' = [filp EXCEPT ![d].pos = position]
      /\ failed' = (failed \/ out.r # "OK")
      /\ UNCHANGED <<created, others>>

\* read_write for a read that MFS has answered with reply.
Read(d, reply) ==
  /\ filp[d].open
  /\ filp' = [filp EXCEPT ![d].pos = reply.pos]
  /\ UNCHANGED <<created, inode, others, free, vnode, failed>>

Lengths == 1 .. s_max_size

ImNext ==
  \/ \E d \in Fds :
       \/ \E append, trunc \in BOOLEAN : OpenNew(d, append) \/ OpenExisting(d, append, trunc)
       \/ Close(d) \/ LseekEnd(d)
       \/ \E pos \in 0 .. s_max_size : Lseek(d, pos)
       \/ \E n \in Lengths, v \in Data :
            \E out \in FsWrite(inode, free, Position(d), n, v) : Write(d, out)
       \/ \E n \in Lengths : \E reply \in FsRead(inode, filp[d].pos, n) : Read(d, reply)
  \/ Truncate

ImSpec == ImInit /\ [][ImNext]_imVars

-----------------------------------------------------------------------------
\* What a write does to a file: the bytes written, zeros between the old end of
\* the file and them, and all other bytes as they were.
Overwritten(contents, size, pos, n, v) ==
  [i \in 0 .. (IF pos + n > size THEN pos + n ELSE size) - 1 |->
     IF i \in pos .. pos + n - 1 THEN v ELSE IF i < size THEN contents[i] ELSE 0]

\* The outcomes of every write of n bytes v that some descriptor could make next,
\* pos being where it starts.
NextWrites(P(_, _, _, _)) ==
  \A pos \in {Position(d) : d \in Fds}, n \in Lengths, v \in Data :
    \A out \in FsWrite(inode, free, pos, n, v) : P(pos, n, v, out)

\* A write that succeeds does what a write to a file does, whether the file is
\* immediate, regular or converted by it.  A hole it leaves is the exception: in
\* an immediate file the hole may show bytes from before a truncation, and in a
\* regular one those of a write that has failed.
WritesAreRight ==
  LET leavesOldBytes(pos, n) ==
        pos > inode.i_size /\ (failed \/ (inode.type = "immediate" /\ FitsInode(pos, n)))
      isRight(pos, n, v, out) ==
        out.r = "OK" /\ ~leavesOldBytes(pos, n) =>
          Contents(out.inode) = Overwritten(Contents(inode), inode.i_size, pos, n, v)
  IN  NextWrites(isRight)

\* A write that fails on a regular file, in its first block or a later one,
\* changes no byte the file has outside the range written and does not shorten
\* the file.  (One that fails on an immediate file may lose the file's contents.)
FailedWritesKeepTheRest ==
  LET keeps(pos, n, v, out) ==
        out.r # "OK" /\ inode.type = "regular" =>
          /\ out.inode.i_size >= inode.i_size
          /\ \A i \in 0 .. inode.i_size - 1 :
               i \notin pos .. pos + n - 1 => ByteAt(out.inode, i) = ByteAt(inode, i)
  IN  NextWrites(keeps)

\* A read of a regular file returns the bytes at the position up to the end of
\* the file, one of an immediate file does so from position 0 with a buffer the
\* file fits in; at the end of the file either returns nothing.
ReadsAreRight ==
  \A d \in Fds, n \in Lengths :
    LET pos == filp[d].pos
        c   == Contents(inode)
    IN  inode.type = "regular" \/ (pos = 0 /\ n >= inode.i_size) \/ pos >= inode.i_size =>
          \A reply \in FsRead(inode, pos, n) :
            reply.data = [i \in {j \in 0 .. n - 1 : pos + j \in DOMAIN c} |-> c[pos + i]]

\* No zone is lost or used twice, by conversions, writes that run out of space
\* and truncations, as long as no write has failed on the file; a failed one may
\* lose zones but never makes any.
ZonesAccounted ==
  LET held == free + Cardinality(Mapped(inode)) + others
  IN  ImTypeOK /\ held <= Zones /\ (~failed => held = Zones)

\* The two copies of a file's size agree once VFS has found the file to be
\* regular, so that O_APPEND and SEEK_END mean the end of the file; as long as no
\* write has failed, which may leave either one ahead.
SizesAgree == vnode.v_mode = "regular" /\ ~failed => vnode.v_size = inode.i_size

\* "On write, update file size and access time" (vfs/read.c:243): the vnode of an
\* open file knows its size.
WriteUpdatesSize == vnode.v_ref_count > 0 /\ ~failed => vnode.v_size = inode.i_size

=============================================================================
