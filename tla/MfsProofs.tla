------------------------------ MODULE MfsProofs ------------------------------
(***************************************************************************)
(* The file in bytes: what reads return and writes leave, for an immediate *)
(* file, a regular one and the write that makes one of the other, with     *)
(* blocks and files of any size and any number of descriptors.  The file   *)
(* in zones: types, that each zone is free or has one place, that indirect *)
(* blocks go with their last entry, and that the map implements FileMap,   *)
(* with any numbers of direct zones and of entries in an indirect block.   *)
(***************************************************************************)
EXTENDS Mfs, FiniteSetTheorems, TLAPS

-----------------------------------------------------------------------------
(***************************************************************************)
(* Bytes and blocks                                                        *)
(***************************************************************************)
\* A byte of the file is one byte of one block, the same the other way round.
LEMMA ByteInBlock ==
  ASSUME NEW i \in Nat
  PROVE  /\ i \div block_size \in Nat /\ i % block_size \in 0 .. block_size - 1
         /\ i = (i \div block_size) * block_size + (i % block_size)
<1>1. block_size \in Nat /\ block_size > 0
  BY ImmediateAssumption
<1> QED
  BY <1>1

LEMMA BlocksInOrder ==
  ASSUME NEW a \in Nat, NEW b \in Nat, a < b
  PROVE  /\ a * block_size \in Nat /\ b * block_size \in Nat
         /\ a * block_size + block_size <= b * block_size
         /\ (a + 1) * block_size = a * block_size + block_size
<1>1. block_size \in Nat
  BY ImmediateAssumption
<1>2. (a + 1) * block_size = a * block_size + block_size
  BY <1>1
<1>3. b - a - 1 \in Nat /\ b = (a + 1) + (b - a - 1)
  OBVIOUS
<1>4. b * block_size = (a + 1) * block_size + (b - a - 1) * block_size
  BY <1>1, <1>3
<1>5. (b - a - 1) * block_size \in Nat /\ a * block_size \in Nat /\ b * block_size \in Nat
  BY <1>1, <1>3
<1> QED
  BY <1>1, <1>2, <1>4, <1>5

\* The block of a byte is the one whose bytes it lies between.
LEMMA BlockOfByte ==
  ASSUME NEW b \in Nat, NEW j \in 0 .. block_size - 1
  PROVE  /\ b * block_size + j \in Nat
         /\ (b * block_size + j) \div block_size = b /\ (b * block_size + j) % block_size = j
<1> DEFINE i == b * block_size + j
           c == i \div block_size
<1>1. block_size \in Nat /\ b * block_size \in Nat /\ i \in Nat
  BY ImmediateAssumption
<1>2. c \in Nat /\ i % block_size \in 0 .. block_size - 1 /\ i = c * block_size + (i % block_size)
  BY <1>1, ByteInBlock
<1> HIDE DEF c
<1>3. c = b
  <2>1. CASE c < b
    <3>1. c * block_size \in Nat /\ c * block_size + block_size <= b * block_size
      BY <1>2, <2>1, BlocksInOrder
    <3> QED
      BY <1>1, <1>2, <3>1
  <2>2. CASE b < c
    <3>1. c * block_size \in Nat /\ b * block_size + block_size <= c * block_size
      BY <1>2, <2>2, BlocksInOrder
    <3> QED
      BY <1>1, <1>2, <3>1
  <2> QED
    BY <1>2, <2>1, <2>2
<1> QED
  BY <1>1, <1>2, <1>3 DEF c

\* Later bytes are in later blocks or the same one.
LEMMA BytesInOrder ==
  ASSUME NEW i \in Nat, NEW k \in Nat, i <= k
  PROVE  i \div block_size <= k \div block_size
<1> DEFINE a == i \div block_size
           b == k \div block_size
<1>1. /\ a \in Nat /\ i % block_size \in 0 .. block_size - 1
      /\ i = a * block_size + (i % block_size)
      /\ b \in Nat /\ k % block_size \in 0 .. block_size - 1
      /\ k = b * block_size + (k % block_size)
  BY ByteInBlock
<1> HIDE DEF a, b
<1>2. CASE b < a
  <2>1. /\ b * block_size \in Nat /\ a * block_size \in Nat
        /\ b * block_size + block_size <= a * block_size
    BY <1>1, <1>2, BlocksInOrder
  <2>2. FALSE
    BY <1>1, <2>1, ImmediateAssumption
  <2> QED
    BY <2>2
<1>3. CASE ~(b < a)
  BY <1>1, <1>3 DEF a, b
<1> QED
  BY <1>2, <1>3

-----------------------------------------------------------------------------
(***************************************************************************)
(* Writing the blocks of a regular file                                    *)
(***************************************************************************)
Block     == [0 .. block_size - 1 -> Byte]
BlockMaps == [Blocks -> {NoZone} \cup Block]

LEMMA Bytewise ==
  /\ block_size \in Nat /\ block_size > 0 /\ Zero \in Block /\ NoZone \notin Block
  /\ \A j \in 0 .. block_size - 1 : Zero[j] = 0
<1>1. block_size \in Nat /\ block_size > 0 /\ 0 \in Byte
  BY ImmediateAssumption DEF Byte
<1>2. 0 \in 0 .. block_size - 1
  BY <1>1
<1>3. 0 \notin DOMAIN NoZone
  BY DEF NoZone
<1>4. NoZone \notin Block
  BY <1>2, <1>3 DEF Block
<1> QED
  BY <1>1, <1>4 DEF Zero, Block

LEMMA BlockNumbers ==
  /\ s_max_size \in Nat /\ Blocks \subseteq Nat /\ IsFiniteSet(Blocks)
  /\ \A i \in 0 .. s_max_size - 1 : i \div block_size \in Blocks
<1>1. s_max_size \in Nat /\ s_max_size - 1 \in Nat
  BY ImmediateAssumption
<1>2. (s_max_size - 1) \div block_size \in Nat
  BY <1>1, ByteInBlock
<1>3. IsFiniteSet(Blocks)
  BY <1>2, FS_Interval DEF Blocks
<1>4. ASSUME NEW i \in 0 .. s_max_size - 1 PROVE i \div block_size \in Blocks
  <2>1. i \in Nat /\ i <= s_max_size - 1
    BY <1>1
  <2>2. i \div block_size \in Nat /\ i \div block_size <= (s_max_size - 1) \div block_size
    BY <1>1, <2>1, ByteInBlock, BytesInOrder
  <2> QED
    BY <1>2, <2>2 DEF Blocks
<1> QED
  BY <1>1, <1>2, <1>3, <1>4 DEF Blocks

\* Byte j of block b: 0 in a hole.
ByteOf(blocks, b, j) == IF blocks[b] = NoZone THEN 0 ELSE blocks[b][j]

LEMMA PreparedBlock ==
  ASSUME NEW ino, ino.blocks \in BlockMaps, NEW b \in Blocks, NEW pos, NEW n
  PROVE  Prepared(ino, b, pos, n) \subseteq Block /\ Prepared(ino, b, pos, n) # {}
<1>1. ino.blocks[b] # NoZone => ino.blocks[b] \in Block
  BY DEF BlockMaps
<1> QED
  BY <1>1, Bytewise DEF Prepared

\* What rw_chunk finds in the buffer where the write puts nothing: the byte the
\* file has there, or 0 beyond the end of the file and of the write.
LEMMA PreparedKeeps ==
  ASSUME NEW ino, ino.blocks \in BlockMaps, ino.i_size \in Nat, NEW b \in Blocks,
         NEW pos \in Nat, NEW n \in Nat \ {0},
         pos \div block_size <= b,
         NEW buf \in Prepared(ino, b, pos, n), NEW j \in 0 .. block_size - 1,
         b * block_size + j \notin pos .. pos + n - 1
  PROVE  \/ buf[j] = ByteOf(ino.blocks, b, j)
         \/ /\ buf[j] = 0 /\ b * block_size + j >= ino.i_size
            /\ b * block_size + j >= pos + n
<1> DEFINE at == b * block_size
           whole == End(b, pos, n) - Start(b, pos) = block_size
           beyond == Start(b, pos) % block_size = 0 /\ Start(b, pos) >= ino.i_size
<1>1. /\ b \in Nat /\ at \in Nat /\ (b + 1) * block_size = at + block_size
      /\ block_size \in Nat /\ block_size > 0
  BY BlockNumbers, Bytewise, BlocksInOrder, b < b + 1
<1>2. pos < at + block_size
  <2>1. /\ pos \div block_size \in Nat /\ pos % block_size \in 0 .. block_size - 1
        /\ pos = (pos \div block_size) * block_size + (pos % block_size)
    BY ByteInBlock
  <2> DEFINE c == pos \div block_size
  <2> HIDE DEF c
  <2>2. c * block_size \in Nat /\ c * block_size <= at
    <3>1. CASE c < b
      BY <1>1, <2>1, <3>1, BlocksInOrder DEF c
    <3>2. CASE c = b
      BY <1>1, <3>2
    <3> QED
      BY <1>1, <2>1, <3>1, <3>2 DEF c
  <2> QED
    BY <1>1, <2>1, <2>2 DEF c
<1> HIDE DEF at
<1>3. /\ Start(b, pos) = IF pos > at THEN pos ELSE at
      /\ End(b, pos, n) = IF pos + n < at + block_size THEN pos + n ELSE at + block_size
  BY <1>1 DEF Start, End, at
<1>4. CASE buf = Zero /\ ino.blocks[b] = NoZone
  BY <1>4, Bytewise DEF ByteOf
<1>5. CASE buf = ino.blocks[b] /\ ino.blocks[b] # NoZone
  BY <1>5 DEF ByteOf
<1>6. CASE whole
  <2>1. Start(b, pos) = at /\ pos <= at /\ pos + n >= at + block_size
    BY <1>1, <1>2, <1>3, <1>6
  <2> QED
    BY <1>1, <2>1 DEF at
<1>7. CASE beyond /\ ~whole /\ buf = Zero
  <2>1. pos <= at
    <3>1. CASE pos > at
      <4>1. PICK k \in 1 .. block_size - 1 : pos = at + k
        <5>1. pos - at \in 1 .. block_size - 1 /\ pos = at + (pos - at)
          BY <1>1, <1>2, <3>1
        <5> QED
          BY <5>1
      <4>2. pos % block_size # 0
        <5>1. k \in 0 .. block_size - 1
          BY <1>1
        <5>2. (b * block_size + k) % block_size = k
          BY <1>1, <5>1, BlockOfByte
        <5>3. pos = b * block_size + k
          BY <4>1 DEF at
        <5>4. pos % block_size = k
          BY <5>2, <5>3
        <5> QED
          BY <5>4
      <4> QED
        BY <1>3, <1>7, <3>1, <4>1, <4>2
    <3> QED
      BY <1>1, <3>1
  <2>2. at >= ino.i_size /\ at + j >= pos
    BY <1>1, <1>3, <1>7, <2>1
  <2>3. at + j >= pos + n
    BY <1>1, <2>2 DEF at
  <2> QED
    BY <1>1, <1>7, <2>2, <2>3, Bytewise DEF at
<1>8. \/ buf = Zero /\ ino.blocks[b] = NoZone
      \/ buf = ino.blocks[b] /\ ino.blocks[b] # NoZone
      \/ whole
      \/ beyond /\ ~whole /\ buf = Zero
  BY DEF Prepared
<1> QED
  BY <1>4, <1>5, <1>6, <1>7, <1>8

\* Where the write puts nothing the bytes are as they were, or 0 beyond the end
\* of the file and of the write.
Keeps(ino, blocks, pos, n) ==
  \A b \in Blocks, j \in 0 .. block_size - 1 :
    b * block_size + j \notin pos .. pos + n - 1 =>
      \/ ByteOf(blocks, b, j) = ByteOf(ino.blocks, b, j)
      \/ /\ ByteOf(blocks, b, j) = 0 /\ b * block_size + j >= ino.i_size
         /\ b * block_size + j >= pos + n

\* The blocks after the chunks before block s.
FilledUpTo(ino, s, pos, n, v) ==
  [b \in Blocks |->
     IF b \in pos \div block_size .. s - 1
       THEN Filled(CHOOSE buf \in Prepared(ino, b, pos, n) : TRUE, b, pos, n, v)
       ELSE ino.blocks[b]]

LEMMA ChunksFilled ==
  ASSUME NEW ino, ino.blocks \in BlockMaps, ino.i_size \in Nat, NEW pos \in Nat,
         NEW n \in Nat \ {0}, NEW v \in Byte, NEW s \in Nat
  PROVE  LET F == FilledUpTo(ino, s, pos, n, v)
             done == pos \div block_size .. s - 1
         IN  /\ F \in BlockMaps /\ Keeps(ino, F, pos, n)
             /\ \A b \in Blocks : F[b] # NoZone <=> ino.blocks[b] # NoZone \/ b \in done
             /\ \A b \in Blocks \cap done, j \in 0 .. block_size - 1 :
                  b * block_size + j \in pos .. pos + n - 1 => ByteOf(F, b, j) = v
<1> DEFINE F == FilledUpTo(ino, s, pos, n, v)
           done == pos \div block_size .. s - 1
           chosen(b) == CHOOSE buf \in Prepared(ino, b, pos, n) : TRUE
<1>1. ASSUME NEW b \in Blocks PROVE chosen(b) \in Prepared(ino, b, pos, n) /\ chosen(b) \in Block
  BY PreparedBlock
<1>2. \A b \in Blocks : F[b] = IF b \in done THEN Filled(chosen(b), b, pos, n, v) ELSE ino.blocks[b]
  BY DEF FilledUpTo
<1>3. F = [b \in Blocks |-> F[b]]
  BY DEF FilledUpTo
<1> HIDE DEF F, chosen
<1>4. ASSUME NEW b \in Blocks, b \in done
      PROVE  /\ F[b] \in Block /\ F[b] # NoZone
             /\ \A j \in 0 .. block_size - 1 :
                  F[b][j] = IF b * block_size + j \in pos .. pos + n - 1 THEN v ELSE chosen(b)[j]
  <2>1. F[b] = [j \in 0 .. block_size - 1 |->
                 IF b * block_size + j \in pos .. pos + n - 1 THEN v ELSE chosen(b)[j]]
    BY <1>2, <1>4 DEF Filled
  <2>2. \A j \in 0 .. block_size - 1 : chosen(b)[j] \in Byte
    BY <1>1 DEF Block
  <2>3. F[b] \in Block
    BY <2>1, <2>2 DEF Block
  <2> QED
    BY <2>1, <2>3, Bytewise
<1>5. F \in BlockMaps
  <2>1. \A b \in Blocks : F[b] \in {NoZone} \cup Block
    BY <1>2, <1>4 DEF BlockMaps
  <2> QED
    BY <1>3, <2>1 DEF BlockMaps
<1>6. Keeps(ino, F, pos, n)
  <2> SUFFICES ASSUME NEW b \in Blocks, NEW j \in 0 .. block_size - 1,
                      b * block_size + j \notin pos .. pos + n - 1
               PROVE  \/ ByteOf(F, b, j) = ByteOf(ino.blocks, b, j)
                      \/ /\ ByteOf(F, b, j) = 0 /\ b * block_size + j >= ino.i_size
                         /\ b * block_size + j >= pos + n
    BY DEF Keeps
  <2>1. CASE b \in done
    <3>1. ByteOf(F, b, j) = chosen(b)[j]
      BY <1>4, <2>1 DEF ByteOf
    <3>2. pos \div block_size <= b
      BY <2>1, BlockNumbers, ByteInBlock
    <3>3. \/ chosen(b)[j] = ByteOf(ino.blocks, b, j)
          \/ /\ chosen(b)[j] = 0 /\ b * block_size + j >= ino.i_size
             /\ b * block_size + j >= pos + n
      BY <1>1, <3>2, PreparedKeeps
    <3> QED
      BY <3>1, <3>3
  <2>2. CASE b \notin done
    BY <1>2, <2>2 DEF ByteOf
  <2> QED
    BY <2>1, <2>2
<1>7. \A b \in Blocks : F[b] # NoZone <=> ino.blocks[b] # NoZone \/ b \in done
  BY <1>2, <1>4
<1>8. ASSUME NEW b \in Blocks \cap done, NEW j \in 0 .. block_size - 1,
             b * block_size + j \in pos .. pos + n - 1
      PROVE  ByteOf(F, b, j) = v
  BY <1>4, <1>8 DEF ByteOf
<1> QED
  BY <1>5, <1>6, <1>7, <1>8 DEF F

\* The outcomes of the loop over the chunks: all of them written, or no zone for
\* block s, or the copy to block s failed.
Left(ino, zones, s, pos) ==
  zones - Cardinality({b \in pos \div block_size .. s - 1 : ino.blocks[b] = NoZone})
Sized(ino, blocks, f_size, p) ==
  Inode("regular", IF p > f_size THEN p ELSE ino.i_size, NoBytes, blocks)
LastBlock(pos, n) == (pos + n - 1) \div block_size

LEMMA ChunkOutcomes ==
  ASSUME NEW ino, NEW zones, NEW f_size, NEW pos, NEW n, NEW v,
         NEW out \in WriteChunks(ino, zones, f_size, pos, n, v)
  PROVE  \/ /\ Left(ino, zones, LastBlock(pos, n) + 1, pos) >= 0
            /\ out = Outcome(Sized(ino, FilledUpTo(ino, LastBlock(pos, n) + 1, pos, n, v),
                                   f_size, pos + n),
                             Left(ino, zones, LastBlock(pos, n) + 1, pos), "OK", pos + n)
         \/ \E s \in pos \div block_size .. LastBlock(pos, n) :
              /\ Left(ino, zones, s, pos) >= 0
              /\ \/ /\ ino.blocks[s] = NoZone /\ ~(Left(ino, zones, s, pos) > 0)
                    /\ out = Outcome(Sized(ino, FilledUpTo(ino, s, pos, n, v), f_size,
                                           Start(s, pos)), 0, "ENOSPC", Start(s, pos))
                 \/ /\ ino.blocks[s] # NoZone \/ Left(ino, zones, s, pos) > 0
                    /\ \E buf \in Prepared(ino, s, pos, n) :
                         out = Outcome(Sized(ino, [FilledUpTo(ino, s, pos, n, v) EXCEPT ![s] = buf],
                                             f_size, Start(s, pos)),
                                       Left(ino, zones, s + 1, pos), "EFAULT", Start(s, pos))
BY Zenon DEF WriteChunks, Left, Sized, LastBlock, FilledUpTo, CanAllocate

MappedIn(blocks) == {b \in Blocks : blocks[b] # NoZone}

\* The blocks of a write that starts at pos have been made up to s.
MadeUpTo(ino, blocks, pos, s) ==
  /\ pos \div block_size .. s - 1 \subseteq Blocks
  /\ \A b \in Blocks : blocks[b] # NoZone <=>
       ino.blocks[b] # NoZone \/ b \in pos \div block_size .. s - 1

\* A zone for every block before s that had none.
LEMMA ZonesTaken ==
  ASSUME NEW ino, ino.blocks \in BlockMaps, NEW zones \in Nat, NEW pos \in Nat, NEW s \in Nat,
         NEW blocks, MadeUpTo(ino, blocks, pos, s)
  PROVE  /\ Left(ino, zones, s, pos) \in Int
         /\ Left(ino, zones, s, pos) + Cardinality(MappedIn(blocks))
              = zones + Cardinality(Mapped(ino))
         /\ Cardinality(MappedIn(blocks)) \in Nat /\ Cardinality(Mapped(ino)) \in Nat
<1> DEFINE new == {b \in pos \div block_size .. s - 1 : ino.blocks[b] = NoZone}
<1>1. IsFiniteSet(Blocks)
  BY BlockNumbers
<1>2. new \subseteq Blocks /\ Mapped(ino) \subseteq Blocks
  BY DEF Mapped, MadeUpTo
<1>3. IsFiniteSet(new) /\ IsFiniteSet(Mapped(ino))
  BY <1>1, <1>2, FS_Subset
<1>4. MappedIn(blocks) = Mapped(ino) \cup new
  BY <1>2 DEF MappedIn, Mapped, MadeUpTo
<1>5. Mapped(ino) \cap new = {}
  BY DEF Mapped
<1>6. Left(ino, zones, s, pos) = zones - Cardinality(new)
  BY DEF Left
<1> HIDE DEF new
<1>7. Cardinality(new) \in Nat /\ Cardinality(Mapped(ino)) \in Nat
  BY <1>3, FS_CardinalityType
<1>8. Cardinality(MappedIn(blocks)) = Cardinality(Mapped(ino)) + Cardinality(new)
  <2>1. Cardinality(Mapped(ino) \cup new)
          = Cardinality(Mapped(ino)) + Cardinality(new) - Cardinality(Mapped(ino) \cap new)
    BY <1>3, FS_Union
  <2>2. Cardinality(Mapped(ino) \cap new) = 0
    BY <1>5, FS_EmptySet
  <2> QED
    BY <1>4, <1>7, <2>1, <2>2
<1> QED
  BY <1>6, <1>7, <1>8

\* What a write to a regular inode has done: p is the position it has got to.
Written(ino, zones, f_size, pos, n, v, out) ==
  \E blocks \in BlockMaps, p \in pos .. pos + n, left \in Nat, r \in {"OK", "ENOSPC", "EFAULT"} :
    /\ out = Outcome(Sized(ino, blocks, f_size, p), left, r, p)
    /\ Keeps(ino, blocks, pos, n)
    /\ left + Cardinality(MappedIn(blocks)) = zones + Cardinality(Mapped(ino))
    /\ r = "OK" =>
         /\ p = pos + n
         /\ \A b \in Blocks, j \in 0 .. block_size - 1 :
              b * block_size + j \in pos .. pos + n - 1 => ByteOf(blocks, b, j) = v

LEMMA ChunksWritten ==
  ASSUME NEW ino, ino.blocks \in BlockMaps, ino.i_size \in Nat, NEW zones \in Nat,
         NEW f_size \in Nat, NEW pos \in Nat, NEW n \in Nat \ {0}, pos + n <= s_max_size,
         NEW v \in Byte, NEW out \in WriteChunks(ino, zones, f_size, pos, n, v)
  PROVE  Written(ino, zones, f_size, pos, n, v, out)
<1> DEFINE first == pos \div block_size
           last  == LastBlock(pos, n)
           F(s)  == FilledUpTo(ino, s, pos, n, v)
           L(s)  == Left(ino, zones, s, pos)
<1>1. first \in Nat /\ last \in Blocks /\ last \in Nat /\ first <= last
  <2>1. /\ pos + n - 1 \in Nat /\ pos <= pos + n - 1 /\ pos + n - 1 \in 0 .. s_max_size - 1
    BY BlockNumbers
  <2> QED
    BY <2>1, ByteInBlock, BytesInOrder, BlockNumbers DEF LastBlock
<1>2. 0 .. last \subseteq Blocks
  BY <1>1, BlockNumbers DEF Blocks
<1>3. ASSUME NEW s \in Nat, s <= last + 1
      PROVE  /\ F(s) \in BlockMaps /\ Keeps(ino, F(s), pos, n)
             /\ L(s) \in Int
             /\ L(s) + Cardinality(MappedIn(F(s))) = zones + Cardinality(Mapped(ino))
             /\ \A b \in Blocks : F(s)[b] # NoZone <=> ino.blocks[b] # NoZone \/ b \in first .. s - 1
             /\ \A b \in Blocks \cap first .. s - 1, j \in 0 .. block_size - 1 :
                  b * block_size + j \in pos .. pos + n - 1 => ByteOf(F(s), b, j) = v
  <2>1. /\ F(s) \in BlockMaps /\ Keeps(ino, F(s), pos, n)
        /\ \A b \in Blocks : F(s)[b] # NoZone <=> ino.blocks[b] # NoZone \/ b \in first .. s - 1
        /\ \A b \in Blocks \cap first .. s - 1, j \in 0 .. block_size - 1 :
             b * block_size + j \in pos .. pos + n - 1 => ByteOf(F(s), b, j) = v
    BY ChunksFilled
  <2>2. first .. s - 1 \subseteq Blocks
    BY <1>1, <1>2, <1>3
  <2> HIDE DEF F
  <2>3. MadeUpTo(ino, F(s), pos, s)
    BY <2>1, <2>2 DEF MadeUpTo
  <2>4. L(s) \in Int /\ L(s) + Cardinality(MappedIn(F(s))) = zones + Cardinality(Mapped(ino))
    BY <2>3, ZonesTaken
  <2> QED
    BY <2>1, <2>4
<1>4. ASSUME NEW s \in first .. last
      PROVE  /\ s \in Nat /\ s <= last + 1 /\ s + 1 \in Nat /\ s + 1 <= last + 1
             /\ Start(s, pos) \in pos .. pos + n
  <2>1. s \in Nat /\ s * block_size \in Nat /\ last * block_size \in Nat
        /\ s * block_size <= last * block_size
    <3>1. s \in Nat /\ last \in Nat /\ s <= last
      BY <1>1
    <3> HIDE DEF last
    <3>2. CASE s < last
      BY <3>1, <3>2, BlocksInOrder, Bytewise
    <3>3. CASE s = last
      BY <3>1, <3>3, BlocksInOrder, last < last + 1
    <3> QED
      BY <3>1, <3>2, <3>3
  <2>2. pos + n - 1 = last * block_size + ((pos + n - 1) % block_size)
        /\ (pos + n - 1) % block_size \in 0 .. block_size - 1
    BY ByteInBlock, pos + n - 1 \in Nat DEF LastBlock
  <2> HIDE DEF last
  <2>3. Start(s, pos) \in pos .. pos + n
    BY <2>1, <2>2, Bytewise DEF Start
  <2> QED
    BY <1>1, <2>1, <2>3
<1>5. CASE /\ L(last + 1) >= 0
           /\ out = Outcome(Sized(ino, F(last + 1), f_size, pos + n), L(last + 1), "OK", pos + n)
  <2>1. last + 1 \in Nat /\ last + 1 <= last + 1 /\ L(last + 1) \in Nat
        /\ first .. (last + 1) - 1 = first .. last
    BY <1>1, <1>3, <1>5
  <2>2. ASSUME NEW b \in Blocks, NEW j \in 0 .. block_size - 1,
               b * block_size + j \in pos .. pos + n - 1
        PROVE  ByteOf(F(last + 1), b, j) = v
    <3>1. b \in Nat
      BY BlockNumbers
    <3>2. /\ b * block_size + j \in Nat /\ (b * block_size + j) \div block_size = b
      BY <3>1, BlockOfByte
    <3> DEFINE i == b * block_size + j
    <3>3. i \in Nat /\ pos <= i /\ i <= pos + n - 1 /\ pos + n - 1 \in Nat /\ i \div block_size = b
      BY <2>2, <3>2
    <3> HIDE DEF i
    <3>4. first <= b /\ b <= last
      BY <3>3, BytesInOrder DEF LastBlock
    <3> HIDE DEF first, last, F, L
    <3>5. b \in Blocks \cap first .. (last + 1) - 1
      BY <1>1, <2>1, <3>1, <3>4
    <3>6. \A c \in Blocks \cap first .. (last + 1) - 1, k \in 0 .. block_size - 1 :
            c * block_size + k \in pos .. pos + n - 1 => ByteOf(F(last + 1), c, k) = v
      BY <1>3, <2>1
    <3> QED
      BY <2>2, <3>5, <3>6
  <2> HIDE DEF F, L, last
  <2> QED
    BY <1>3, <1>5, <2>1, <2>2 DEF Written
<1>6. ASSUME NEW s \in first .. last, L(s) >= 0, ~(L(s) > 0),
             out = Outcome(Sized(ino, F(s), f_size, Start(s, pos)), 0, "ENOSPC", Start(s, pos))
      PROVE  Written(ino, zones, f_size, pos, n, v, out)
  <2>1. L(s) = 0 /\ F(s) \in BlockMaps /\ Keeps(ino, F(s), pos, n)
        /\ 0 + Cardinality(MappedIn(F(s))) = zones + Cardinality(Mapped(ino))
    BY <1>3, <1>4, <1>6
  <2> HIDE DEF F, L, first, last
  <2> QED
    BY <1>4, <1>6, <2>1 DEF Written
<1>7. ASSUME NEW s \in first .. last, L(s) >= 0, ino.blocks[s] # NoZone \/ L(s) > 0,
             NEW buf \in Prepared(ino, s, pos, n),
             out = Outcome(Sized(ino, [F(s) EXCEPT ![s] = buf], f_size, Start(s, pos)),
                           L(s + 1), "EFAULT", Start(s, pos))
      PROVE  Written(ino, zones, f_size, pos, n, v, out)
  <2> DEFINE G == [F(s) EXCEPT ![s] = buf]
  <2>1. s \in Blocks /\ buf \in Block /\ buf # NoZone
    BY <1>1, <1>2, <1>4, PreparedBlock, Bytewise
  <2>2. /\ F(s) \in BlockMaps /\ Keeps(ino, F(s), pos, n) /\ L(s) \in Int
        /\ L(s) + Cardinality(MappedIn(F(s))) = zones + Cardinality(Mapped(ino))
        /\ \A b \in Blocks : F(s)[b] # NoZone <=> ino.blocks[b] # NoZone \/ b \in first .. s - 1
    BY <1>3, <1>4
  <2> HIDE DEF F
  <2>3. G \in BlockMaps /\ \A b \in Blocks : G[b] = IF b = s THEN buf ELSE F(s)[b]
    BY <2>1, <2>2 DEF BlockMaps
  <2> HIDE DEF G
  <2>4. Keeps(ino, G, pos, n)
    <3> SUFFICES ASSUME NEW b \in Blocks, NEW j \in 0 .. block_size - 1,
                        b * block_size + j \notin pos .. pos + n - 1
                 PROVE  \/ ByteOf(G, b, j) = ByteOf(ino.blocks, b, j)
                        \/ /\ ByteOf(G, b, j) = 0 /\ b * block_size + j >= ino.i_size
                           /\ b * block_size + j >= pos + n
      BY DEF Keeps
    <3>1. CASE b = s
      <4>1. ByteOf(G, b, j) = buf[j]
        BY <2>1, <2>3, <3>1 DEF ByteOf
      <4>2. pos \div block_size <= b
        BY <1>1, <1>4, <3>1
      <4>3. \/ buf[j] = ByteOf(ino.blocks, b, j)
            \/ /\ buf[j] = 0 /\ b * block_size + j >= ino.i_size
               /\ b * block_size + j >= pos + n
        BY <3>1, <4>2, PreparedKeeps
      <4> QED
        BY <4>1, <4>3
    <3>2. CASE b # s
      <4>1. ByteOf(G, b, j) = ByteOf(F(s), b, j)
        BY <2>3, <3>2 DEF ByteOf
      <4> QED
        BY <2>2, <4>1 DEF Keeps
    <3> QED
      BY <3>1, <3>2
  <2>5. /\ L(s + 1) \in Int
        /\ L(s + 1) + Cardinality(MappedIn(G)) = zones + Cardinality(Mapped(ino))
    <3>1. s + 1 \in Nat /\ pos \div block_size .. (s + 1) - 1 \subseteq Blocks
      BY <1>1, <1>2, <1>4
    <3>2. ASSUME NEW b \in Blocks
          PROVE  G[b] # NoZone <=> ino.blocks[b] # NoZone \/ b \in pos \div block_size .. (s + 1) - 1
      <4>1. b \in pos \div block_size .. (s + 1) - 1 <=> b = s \/ b \in first .. s - 1
        BY <1>1, <1>4, BlockNumbers
      <4> QED
        BY <2>1, <2>2, <2>3, <4>1
    <3>3. PICK k \in Nat : k = s + 1
      BY <3>1
    <3>4. MadeUpTo(ino, G, pos, k)
      BY <3>1, <3>2, <3>3 DEF MadeUpTo
    <3>5. /\ Left(ino, zones, k, pos) \in Int
          /\ Left(ino, zones, k, pos) + Cardinality(MappedIn(G)) = zones + Cardinality(Mapped(ino))
      BY <3>4, ZonesTaken
    <3> QED
      BY <3>3, <3>5
  <2>6. L(s + 1) \in Nat
    <3>1. MappedIn(G) = MappedIn(F(s)) \cup {s}
      BY <2>1, <2>3 DEF MappedIn
    <3>2. IsFiniteSet(MappedIn(F(s)))
      BY BlockNumbers, FS_Subset DEF MappedIn
    <3>3. Cardinality(MappedIn(F(s))) \in Nat
      BY <3>2, FS_CardinalityType
    <3>4. Cardinality(MappedIn(G)) = IF s \in MappedIn(F(s)) THEN Cardinality(MappedIn(F(s)))
                                    ELSE Cardinality(MappedIn(F(s))) + 1
      BY <3>1, <3>2, FS_AddElement
    <3>5. ino.blocks[s] # NoZone => s \in MappedIn(F(s))
      BY <2>1, <2>2 DEF MappedIn
    <3>6. zones + Cardinality(Mapped(ino)) \in Int
      BY <2>2, <3>3
    <3> HIDE DEF L
    <3> QED
      BY <1>7, <2>2, <2>5, <3>3, <3>4, <3>5
  <2>7. out = Outcome(Sized(ino, G, f_size, Start(s, pos)), L(s + 1), "EFAULT", Start(s, pos))
    BY <1>7 DEF G
  <2> HIDE DEF L, first, last
  <2> QED
    BY <1>4, <2>3, <2>4, <2>5, <2>6, <2>7 DEF Written
<1> HIDE DEF first, last, F, L
<1>8. \/ /\ L(last + 1) >= 0
         /\ out = Outcome(Sized(ino, F(last + 1), f_size, pos + n), L(last + 1), "OK", pos + n)
      \/ \E s \in first .. last :
           /\ L(s) >= 0
           /\ \/ /\ ino.blocks[s] = NoZone /\ ~(L(s) > 0)
                 /\ out = Outcome(Sized(ino, F(s), f_size, Start(s, pos)), 0, "ENOSPC", Start(s, pos))
              \/ /\ ino.blocks[s] # NoZone \/ L(s) > 0
                 /\ \E buf \in Prepared(ino, s, pos, n) :
                      out = Outcome(Sized(ino, [F(s) EXCEPT ![s] = buf], f_size, Start(s, pos)),
                                    L(s + 1), "EFAULT", Start(s, pos))
  BY ChunkOutcomes DEF first, last, F, L
<1> QED
  BY <1>5, <1>6, <1>7, <1>8

-----------------------------------------------------------------------------
(***************************************************************************)
(* Every write                                                             *)
(***************************************************************************)
Inodes == [type : Types, i_size : 0 .. s_max_size, bytes : [0 .. ImmediateSize - 1 -> Byte],
           blocks : BlockMaps]

InodeOK(ino) ==
  /\ ino \in Inodes
  /\ ino.type = "immediate" => ino.i_size <= ImmediateSize /\ Mapped(ino) = {}

\* A regular file has nothing behind its end.
ZerosBeyond(ino) ==
  ino.type = "regular" =>
    \A b \in Blocks, j \in 0 .. block_size - 1 :
      b * block_size + j >= ino.i_size => ByteOf(ino.blocks, b, j) = 0

LEMMA SameMapped == ASSUME NEW ino PROVE Mapped(ino) = MappedIn(ino.blocks)
BY DEF Mapped, MappedIn

LEMMA MappedFinite ==
  ASSUME NEW blocks
  PROVE  IsFiniteSet(MappedIn(blocks)) /\ Cardinality(MappedIn(blocks)) \in Nat
<1>1. IsFiniteSet(MappedIn(blocks))
  BY BlockNumbers, FS_Subset DEF MappedIn
<1> QED
  BY <1>1, FS_CardinalityType

LEMMA Emptied ==
  /\ NoBytes \in [0 .. ImmediateSize - 1 -> Byte] /\ NoBlocks \in BlockMaps
  /\ MappedIn(NoBlocks) = {} /\ Cardinality(MappedIn(NoBlocks)) = 0
  /\ \A b \in Blocks, j \in 0 .. block_size - 1 : ByteOf(NoBlocks, b, j) = 0
<1>1. MappedIn(NoBlocks) = {}
  BY DEF MappedIn, NoBlocks
<1> QED
  BY <1>1, FS_EmptySet DEF NoBytes, NoBlocks, BlockMaps, Byte, ByteOf

LEMMA ConvertedInode ==
  ASSUME NEW ino, InodeOK(ino), ino.type = "immediate"
  PROVE  /\ Converted(ino) \in Inodes /\ Converted(ino).i_size = 0
         /\ Converted(ino).type = "regular"
         /\ Cardinality(Mapped(Converted(ino))) = 1
         /\ \A b \in Blocks, j \in 0 .. block_size - 1 :
              ByteOf(Converted(ino).blocks, b, j)
                = IF b * block_size + j < ino.i_size THEN ino.bytes[b * block_size + j] ELSE 0
<1> DEFINE block == [j \in 0 .. block_size - 1 |-> IF j < ino.i_size THEN ino.bytes[j] ELSE 0]
           blocks == [NoBlocks EXCEPT ![0] = block]
<1>1. /\ ino.i_size \in Nat /\ ino.i_size <= ImmediateSize /\ ImmediateSize < block_size
      /\ ino.bytes \in [0 .. ImmediateSize - 1 -> Byte] /\ ImmediateSize \in Nat
      /\ block_size \in Nat /\ s_max_size \in Nat
  BY ImmediateAssumption DEF InodeOK, Inodes
<1>2. 0 \in Blocks
  <2>1. (s_max_size - 1) \div block_size \in Nat
    <3>1. s_max_size - 1 \in Nat
      BY ImmediateAssumption
    <3> QED
      BY <3>1, ByteInBlock
  <2> QED
    BY <2>1 DEF Blocks
<1>3. block \in Block
  BY <1>1 DEF Block, Byte
<1>4. Converted(ino) = Inode("regular", 0, NoBytes, blocks)
  BY DEF Converted
<1> HIDE DEF block
<1>5. /\ blocks \in BlockMaps
      /\ \A b \in Blocks : blocks[b] = IF b = 0 THEN block ELSE NoZone
  BY <1>2, <1>3, Emptied DEF BlockMaps, NoBlocks
<1> HIDE DEF blocks
<1>6. Mapped(Converted(ino)) = {0}
  BY <1>2, <1>3, <1>4, <1>5, Bytewise DEF Mapped, Inode
<1>7. Cardinality(Mapped(Converted(ino))) = 1
  BY <1>6, FS_Singleton
<1>8. ASSUME NEW b \in Blocks, NEW j \in 0 .. block_size - 1
      PROVE  ByteOf(blocks, b, j)
               = IF b * block_size + j < ino.i_size THEN ino.bytes[b * block_size + j] ELSE 0
  <2>1. CASE b = 0
    <3>1. b * block_size + j = j
      BY <1>1, <2>1
    <3>2. ByteOf(blocks, b, j) = block[j]
      BY <1>3, <1>5, <2>1, Bytewise DEF ByteOf
    <3> QED
      BY <3>1, <3>2 DEF block
  <2>2. CASE b # 0
    <3>1. b \in Nat /\ b > 0
      BY <2>2, BlockNumbers
    <3>2. 0 * block_size + block_size <= b * block_size /\ b * block_size \in Nat
      BY <3>1, BlocksInOrder
    <3>3. ~(b * block_size + j < ino.i_size)
      BY <1>1, <3>2
    <3> QED
      BY <1>5, <2>2, <3>3 DEF ByteOf
  <2> QED
    BY <2>1, <2>2
<1>9. Converted(ino) \in Inodes
  BY <1>1, <1>4, <1>5, Emptied DEF Inodes, Inode, Types
<1> QED
  BY <1>4, <1>7, <1>8, <1>9 DEF Inode

\* The byte at position i of a regular file is one of its blocks.
LEMMA RegularByte ==
  ASSUME NEW ino, ino.type = "regular", NEW i \in 0 .. s_max_size - 1
  PROVE  \E b \in Blocks, j \in 0 .. block_size - 1 :
           /\ i = b * block_size + j /\ ByteAt(ino, i) = ByteOf(ino.blocks, b, j)
<1>1. i \in Nat /\ i \div block_size \in Blocks
  BY BlockNumbers
<1>2. i % block_size \in 0 .. block_size - 1
      /\ i = (i \div block_size) * block_size + (i % block_size)
  BY <1>1, ByteInBlock
<1>3. ByteAt(ino, i) = ByteOf(ino.blocks, i \div block_size, i % block_size)
  BY DEF ByteAt, ByteOf
<1> QED
  BY <1>1, <1>2, <1>3

\* What every write does to the inode and to the zones, failed or not.
WriteSafe(ino, zones, out) ==
  /\ InodeOK(out.inode) /\ out.free \in Nat /\ out.pos \in Nat
  /\ out.free + Cardinality(Mapped(out.inode)) <= zones + Cardinality(Mapped(ino))
  /\ out.r = "OK" =>
       out.free + Cardinality(Mapped(out.inode)) = zones + Cardinality(Mapped(ino))
  /\ ino.type = "regular" => out.inode.type = "regular"

\* What one that succeeds does to the end of the file.
WriteExtends(ino, pos, n, out) ==
  out.r = "OK" =>
    /\ out.pos = pos + n
    /\ out.inode.i_size = IF pos + n > ino.i_size THEN pos + n ELSE ino.i_size
    /\ ZerosBeyond(ino) => ZerosBeyond(out.inode)

\* What one that succeeds does to the bytes; a hole it leaves is all zeros in a
\* regular file that has nothing behind its end.
WriteRight(ino, pos, n, v, out) ==
  out.r = "OK" /\ (pos > ino.i_size => ZerosBeyond(ino) /\ (ino.type = "regular" \/ ~FitsInode(pos, n))) =>
    Contents(out.inode) = Overwritten(Contents(ino), ino.i_size, pos, n, v)

\* What one that fails leaves of a regular file.
FailureKeeps(ino, pos, n, out) ==
  out.r # "OK" /\ ino.type = "regular" =>
    /\ out.inode.i_size >= ino.i_size
    /\ \A i \in 0 .. ino.i_size - 1 :
         i \notin pos .. pos + n - 1 => ByteAt(out.inode, i) = ByteAt(ino, i)

\* Contents are what they should be when every byte is.
RightBytes(old, new, pos, n, v) ==
  /\ new.i_size = IF pos + n > old.i_size THEN pos + n ELSE old.i_size
  /\ new.i_size \in Nat /\ old.i_size \in Nat
  /\ \A i \in 0 .. new.i_size - 1 :
       ByteAt(new, i) = IF i \in pos .. pos + n - 1 THEN v
                        ELSE IF i < old.i_size THEN ByteAt(old, i) ELSE 0

LEMMA ContentsAre ==
  ASSUME NEW old, NEW new, NEW pos, NEW n, NEW v, RightBytes(old, new, pos, n, v)
  PROVE  Contents(new) = Overwritten(Contents(old), old.i_size, pos, n, v)
<1> USE DEF RightBytes
<1>1. \A i \in 0 .. new.i_size - 1 : i < old.i_size => Contents(old)[i] = ByteAt(old, i)
  BY DEF Contents
<1> QED
  BY <1>1 DEF Contents, Overwritten

LEMMA RegularWrite ==
  ASSUME NEW ino, InodeOK(ino), ino.type = "regular", NEW zones \in Nat, NEW pos \in Nat,
         NEW n \in Nat \ {0}, pos + n <= s_max_size, NEW v \in Byte,
         NEW out \in WriteChunks(ino, zones, ino.i_size, pos, n, v)
  PROVE  /\ WriteSafe(ino, zones, out) /\ WriteExtends(ino, pos, n, out)
         /\ WriteRight(ino, pos, n, v, out) /\ FailureKeeps(ino, pos, n, out)
<1>1. /\ ino \in Inodes /\ ino.blocks \in BlockMaps /\ ino.i_size \in 0 .. s_max_size
      /\ ino.i_size \in Nat /\ s_max_size \in Nat
  BY BlockNumbers DEF InodeOK, Inodes
<1>2. Written(ino, zones, ino.i_size, pos, n, v, out)
  BY <1>1, ChunksWritten
<1>3. PICK blocks \in BlockMaps, p \in pos .. pos + n, left \in Nat, r \in {"OK", "ENOSPC", "EFAULT"} :
        /\ out = Outcome(Sized(ino, blocks, ino.i_size, p), left, r, p)
        /\ Keeps(ino, blocks, pos, n)
        /\ left + Cardinality(MappedIn(blocks)) = zones + Cardinality(Mapped(ino))
        /\ r = "OK" =>
             /\ p = pos + n
             /\ \A b \in Blocks, j \in 0 .. block_size - 1 :
                  b * block_size + j \in pos .. pos + n - 1 => ByteOf(blocks, b, j) = v
  BY <1>2 DEF Written
<1> DEFINE size == IF p > ino.i_size THEN p ELSE ino.i_size
           new == Inode("regular", size, NoBytes, blocks)
<1>4. /\ out.inode = new /\ out.free = left /\ out.r = r /\ out.pos = p
      /\ new.type = "regular" /\ new.i_size = size /\ new.blocks = blocks
  BY <1>3 DEF Outcome, Sized, Inode
<1>5. size \in 0 .. s_max_size /\ size \in Nat /\ p \in Nat /\ size >= ino.i_size
  BY <1>1
<1>6. new \in Inodes
  <2> HIDE DEF size
  <2> QED
    BY <1>5, Emptied DEF Inodes, Inode, Types
<1> HIDE DEF new
<1>7. WriteSafe(ino, zones, out)
  <2>1. Cardinality(Mapped(new)) = Cardinality(MappedIn(blocks))
    BY <1>4, SameMapped
  <2>2. Cardinality(MappedIn(blocks)) \in Nat
    BY MappedFinite
  <2> QED
    BY <1>3, <1>4, <1>5, <1>6, <2>1, <2>2 DEF WriteSafe, InodeOK
<1> HIDE DEF size
<1>8. \A b \in Blocks, j \in 0 .. block_size - 1 :
        b * block_size + j \notin pos .. pos + n - 1 =>
          \/ ByteOf(blocks, b, j) = ByteOf(ino.blocks, b, j)
          \/ /\ ByteOf(blocks, b, j) = 0 /\ b * block_size + j >= ino.i_size
             /\ b * block_size + j >= pos + n
  BY <1>3 DEF Keeps
<1>9. WriteExtends(ino, pos, n, out)
  <2> SUFFICES ASSUME r = "OK", ZerosBeyond(ino), NEW b \in Blocks, NEW j \in 0 .. block_size - 1,
                      b * block_size + j >= size
               PROVE  ByteOf(blocks, b, j) = 0
    BY <1>1, <1>3, <1>4 DEF WriteExtends, ZerosBeyond, size
  <2>1. /\ b * block_size + j \in Nat /\ b * block_size + j \notin pos .. pos + n - 1
        /\ b * block_size + j >= ino.i_size
    BY <1>1, <1>3, <1>5, BlockNumbers, BlockOfByte DEF size
  <2>2. ByteOf(ino.blocks, b, j) = 0
    BY <2>1 DEF ZerosBeyond
  <2> QED
    BY <1>8, <2>1, <2>2
<1>10. WriteRight(ino, pos, n, v, out)
  <2> SUFFICES ASSUME r = "OK", pos > ino.i_size => ZerosBeyond(ino)
               PROVE  Contents(new) = Overwritten(Contents(ino), ino.i_size, pos, n, v)
    BY <1>4 DEF WriteRight
  <2>1. /\ new.i_size = IF pos + n > ino.i_size THEN pos + n ELSE ino.i_size
        /\ new.i_size \in Nat
    BY <1>3, <1>4, <1>5 DEF size
  <2>2. ASSUME NEW i \in 0 .. new.i_size - 1
        PROVE  ByteAt(new, i) = IF i \in pos .. pos + n - 1 THEN v
                                ELSE IF i < ino.i_size THEN ByteAt(ino, i) ELSE 0
    <3>1. i \in 0 .. s_max_size - 1
      BY <1>1, <1>4, <1>5
    <3>2. PICK b \in Blocks, j \in 0 .. block_size - 1 :
            i = b * block_size + j /\ ByteAt(new, i) = ByteOf(blocks, b, j)
      BY <1>4, <3>1, RegularByte
    <3>3. ByteAt(ino, i) = ByteOf(ino.blocks, b, j)
      <4>1. b \in Nat /\ i \div block_size = b /\ i % block_size = j
        BY <3>2, BlockNumbers, BlockOfByte
      <4> QED
        BY <4>1 DEF ByteAt, ByteOf
    <3>4. CASE i \in pos .. pos + n - 1
      BY <1>3, <3>2, <3>4
    <3>5. CASE i \notin pos .. pos + n - 1 /\ i < ino.i_size
      BY <1>1, <1>8, <3>2, <3>3, <3>5
    <3>6. CASE i \notin pos .. pos + n - 1 /\ ~(i < ino.i_size)
      <4>1. i < pos /\ i >= ino.i_size /\ pos > ino.i_size
        BY <1>1, <2>1, <3>6
      <4>2. ByteOf(ino.blocks, b, j) = 0
        BY <3>2, <4>1 DEF ZerosBeyond
      <4> QED
        BY <1>8, <3>2, <3>6, <4>2
    <3> QED
      BY <3>4, <3>5, <3>6
  <2>3. RightBytes(ino, new, pos, n, v)
    BY <1>1, <2>1, <2>2 DEF RightBytes
  <2> QED
    BY <2>3, ContentsAre
<1>11. FailureKeeps(ino, pos, n, out)
  <2> SUFFICES ASSUME NEW i \in 0 .. ino.i_size - 1, i \notin pos .. pos + n - 1
               PROVE  ByteAt(new, i) = ByteAt(ino, i)
    BY <1>1, <1>4, <1>5 DEF FailureKeeps
  <2>1. i \in 0 .. s_max_size - 1
    BY <1>1
  <2>2. PICK b \in Blocks, j \in 0 .. block_size - 1 :
          i = b * block_size + j /\ ByteAt(new, i) = ByteOf(blocks, b, j)
    BY <1>4, <2>1, RegularByte
  <2>3. ByteAt(ino, i) = ByteOf(ino.blocks, b, j)
    <3>1. b \in Nat /\ i \div block_size = b /\ i % block_size = j
      BY <2>2, BlockNumbers, BlockOfByte
    <3> QED
      BY <3>1 DEF ByteAt, ByteOf
  <2> QED
    BY <1>1, <1>8, <2>2, <2>3
<1> QED
  BY <1>7, <1>9, <1>10, <1>11

LEMMA ImmediateInode ==
  ASSUME NEW ino, InodeOK(ino), ino.type = "immediate"
  PROVE  /\ ino \in Inodes /\ ino.i_size \in Nat /\ ino.i_size <= ImmediateSize
         /\ ImmediateSize \in Nat /\ s_max_size \in Nat /\ ImmediateSize <= s_max_size
         /\ Mapped(ino) = {} /\ Cardinality(Mapped(ino)) = 0
         /\ ino.bytes \in [0 .. ImmediateSize - 1 -> Byte]
<1>1. ImmediateSize \in Nat /\ s_max_size \in Nat /\ ImmediateSize <= s_max_size
  BY ImmediateAssumption
<1>2. ino \in Inodes /\ ino.i_size <= ImmediateSize /\ Mapped(ino) = {}
  BY DEF InodeOK
<1>3. ino.i_size \in Nat /\ ino.bytes \in [0 .. ImmediateSize - 1 -> Byte]
  BY <1>1, <1>2 DEF Inodes
<1> QED
  BY <1>1, <1>2, <1>3, FS_EmptySet

Lasting(ino, zones, pos, n, v, out) ==
  /\ WriteSafe(ino, zones, out) /\ WriteExtends(ino, pos, n, out)
  /\ WriteRight(ino, pos, n, v, out) /\ FailureKeeps(ino, pos, n, out)

\* The write that makes an immediate file a regular one.
LEMMA ConvertingWrite ==
  ASSUME NEW ino, InodeOK(ino), ino.type = "immediate", NEW zones \in Nat, NEW pos \in Nat,
         NEW n \in Nat \ {0}, pos + n <= s_max_size, ~FitsInode(pos, n), NEW v \in Byte,
         NEW out \in WriteConverting(ino, zones, pos, n, v)
  PROVE  Lasting(ino, zones, pos, n, v, out)
<1>1. /\ ino \in Inodes /\ ino.i_size \in Nat /\ ino.i_size <= ImmediateSize
      /\ ImmediateSize \in Nat /\ s_max_size \in Nat /\ pos + n > ImmediateSize
      /\ Cardinality(Mapped(ino)) = 0
  BY ImmediateInode DEF FitsInode
<1>2. CASE ~CanAllocate(zones)
  <2>1. /\ out.inode = Inode("regular", 0, NoBytes, NoBlocks) /\ out.free = zones
        /\ out.r = "ENOSPC" /\ out.pos = pos
    BY <1>2 DEF WriteConverting, Outcome
  <2>2. out.inode \in Inodes /\ out.inode.type = "regular" /\ out.inode.blocks = NoBlocks
    BY <1>1, <2>1, Emptied DEF Inodes, Inode, Types
  <2>3. Cardinality(Mapped(out.inode)) = 0
    BY <2>2, SameMapped, Emptied
  <2> QED
    BY <1>1, <2>1, <2>2, <2>3
       DEF Lasting, WriteSafe, InodeOK, WriteExtends, WriteRight, FailureKeeps
<1>3. CASE CanAllocate(zones)
  <2> DEFINE conv == Converted(ino)
  <2>1. /\ conv \in Inodes /\ conv.i_size = 0 /\ conv.type = "regular"
        /\ Cardinality(Mapped(conv)) = 1
        /\ \A b \in Blocks, j \in 0 .. block_size - 1 :
             ByteOf(conv.blocks, b, j)
               = IF b * block_size + j < ino.i_size THEN ino.bytes[b * block_size + j] ELSE 0
    BY ConvertedInode
  <2>2. zones - 1 \in Nat
    BY <1>3 DEF CanAllocate
  <2>3. out \in WriteChunks(conv, zones - 1, ino.i_size, pos, n, v)
    BY <1>3 DEF WriteConverting
  <2> HIDE DEF conv
  <2>4. conv.blocks \in BlockMaps /\ conv.i_size \in Nat
    BY <2>1 DEF Inodes
  <2>5. Written(conv, zones - 1, ino.i_size, pos, n, v, out)
    BY <1>1, <2>2, <2>3, <2>4, ChunksWritten
  <2>6. PICK blocks \in BlockMaps, p \in pos .. pos + n, left \in Nat, r \in {"OK", "ENOSPC", "EFAULT"} :
          /\ out = Outcome(Sized(conv, blocks, ino.i_size, p), left, r, p)
          /\ Keeps(conv, blocks, pos, n)
          /\ left + Cardinality(MappedIn(blocks)) = (zones - 1) + Cardinality(Mapped(conv))
          /\ r = "OK" =>
               /\ p = pos + n
               /\ \A b \in Blocks, j \in 0 .. block_size - 1 :
                    b * block_size + j \in pos .. pos + n - 1 => ByteOf(blocks, b, j) = v
    BY <2>5 DEF Written
  <2> DEFINE size == IF p > ino.i_size THEN p ELSE 0
             new == Inode("regular", size, NoBytes, blocks)
  <2>7. /\ out.inode = new /\ out.free = left /\ out.r = r /\ out.pos = p
        /\ new.type = "regular" /\ new.i_size = size /\ new.blocks = blocks
    BY <2>1, <2>6 DEF Outcome, Sized, Inode
  <2>8. /\ size \in 0 .. s_max_size /\ size \in Nat /\ p \in Nat
        /\ r = "OK" => size = pos + n /\ size > ino.i_size
    BY <1>1, <2>6
  <2> HIDE DEF size
  <2>9. new \in Inodes
    BY <2>8, Emptied DEF Inodes, Inode, Types
  <2> HIDE DEF new
  <2>10. WriteSafe(ino, zones, out)
    <3>1. Cardinality(Mapped(new)) = Cardinality(MappedIn(blocks))
      BY <2>7, SameMapped
    <3>2. Cardinality(MappedIn(blocks)) \in Nat
      BY MappedFinite
    <3>3. left + Cardinality(Mapped(new)) = zones
      BY <2>1, <2>6, <3>1, <3>2
    <3> QED
      BY <1>1, <2>7, <2>8, <2>9, <3>3 DEF WriteSafe, InodeOK
  <2>11. ASSUME r = "OK", NEW b \in Blocks, NEW j \in 0 .. block_size - 1,
                b * block_size + j \notin pos .. pos + n - 1
         PROVE  ByteOf(blocks, b, j)
                  = IF b * block_size + j < ino.i_size THEN ino.bytes[b * block_size + j] ELSE 0
    <3>1. b * block_size + j \in Nat
      BY BlockNumbers, BlockOfByte
    <3>2. CASE ByteOf(blocks, b, j) = ByteOf(conv.blocks, b, j)
      BY <2>1, <3>2
    <3>3. CASE ByteOf(blocks, b, j) = 0 /\ b * block_size + j >= pos + n
      <4>1. ~(b * block_size + j < ino.i_size)
        BY <1>1, <3>1, <3>3
      <4> QED
        BY <3>3, <4>1
    <3> QED
      BY <2>6, <2>11, <3>2, <3>3 DEF Keeps
  <2>12. WriteExtends(ino, pos, n, out)
    <3> SUFFICES ASSUME r = "OK", NEW b \in Blocks, NEW j \in 0 .. block_size - 1,
                        b * block_size + j >= size
                 PROVE  ByteOf(blocks, b, j) = 0
      BY <1>1, <2>6, <2>7, <2>8 DEF WriteExtends, ZerosBeyond
    <3>1. /\ b * block_size + j \in Nat /\ b * block_size + j \notin pos .. pos + n - 1
          /\ ~(b * block_size + j < ino.i_size)
      BY <1>1, <2>8, BlockNumbers, BlockOfByte
    <3> QED
      BY <2>11, <3>1
  <2>13. WriteRight(ino, pos, n, v, out)
    <3> SUFFICES ASSUME r = "OK"
                 PROVE  Contents(new) = Overwritten(Contents(ino), ino.i_size, pos, n, v)
      BY <2>7 DEF WriteRight
    <3>1. /\ new.i_size = IF pos + n > ino.i_size THEN pos + n ELSE ino.i_size
          /\ new.i_size \in Nat
      BY <1>1, <2>7, <2>8
    <3>2. ASSUME NEW i \in 0 .. new.i_size - 1
          PROVE  ByteAt(new, i) = IF i \in pos .. pos + n - 1 THEN v
                                  ELSE IF i < ino.i_size THEN ByteAt(ino, i) ELSE 0
      <4>1. i \in 0 .. s_max_size - 1
        BY <1>1, <2>7, <2>8
      <4>2. PICK b \in Blocks, j \in 0 .. block_size - 1 :
              i = b * block_size + j /\ ByteAt(new, i) = ByteOf(blocks, b, j)
        BY <2>7, <4>1, RegularByte
      <4>3. CASE i \in pos .. pos + n - 1
        BY <2>6, <4>2, <4>3
      <4>4. CASE i \notin pos .. pos + n - 1
        <5>1. ByteAt(ino, i) = ino.bytes[i]
          BY DEF ByteAt
        <5>2. ByteOf(blocks, b, j) = IF i < ino.i_size THEN ino.bytes[i] ELSE 0
          BY <2>11, <4>2, <4>4
        <5> QED
          BY <4>2, <4>4, <5>1, <5>2
      <4> QED
        BY <4>3, <4>4
    <3>3. RightBytes(ino, new, pos, n, v)
      BY <1>1, <3>1, <3>2 DEF RightBytes
    <3> QED
      BY <3>3, ContentsAre
  <2>14. FailureKeeps(ino, pos, n, out)
    BY DEF FailureKeeps
  <2> QED
    BY <2>10, <2>12, <2>13, <2>14 DEF Lasting
<1> QED
  BY <1>2, <1>3

\* A write that stays in the inode.
LEMMA ImmediateWrite ==
  ASSUME NEW ino, InodeOK(ino), ino.type = "immediate", NEW zones \in Nat, NEW pos \in Nat,
         NEW n \in Nat \ {0}, FitsInode(pos, n), NEW v \in Byte,
         NEW out \in WriteImmediate(ino, zones, pos, n, v)
  PROVE  Lasting(ino, zones, pos, n, v, out)
<1>1. /\ ino \in Inodes /\ ino.i_size \in Nat /\ ino.i_size <= ImmediateSize
      /\ ImmediateSize \in Nat /\ s_max_size \in Nat /\ pos + n <= ImmediateSize
      /\ ImmediateSize <= s_max_size
      /\ Mapped(ino) = {} /\ Cardinality(Mapped(ino)) = 0
      /\ ino.bytes \in [0 .. ImmediateSize - 1 -> Byte]
  BY ImmediateInode DEF FitsInode
<1> DEFINE size(p) == IF p > ino.i_size THEN p ELSE ino.i_size
           bytes == [i \in DOMAIN ino.bytes |-> IF i \in pos .. pos + n - 1 THEN v ELSE ino.bytes[i]]
           sizeDone == size(pos + n)
           sizeFailed == size(pos)
           new == [ino EXCEPT !.i_size = sizeDone, !.bytes = bytes]
           same == [ino EXCEPT !.i_size = sizeFailed]
<1>2. /\ bytes \in [0 .. ImmediateSize - 1 -> Byte]
      /\ sizeDone \in 0 .. ImmediateSize /\ sizeFailed \in 0 .. ImmediateSize
      /\ \A i \in 0 .. ImmediateSize - 1 :
           bytes[i] = IF i \in pos .. pos + n - 1 THEN v ELSE ino.bytes[i]
  BY <1>1
<1>3. sizeDone = IF pos + n > ino.i_size THEN pos + n ELSE ino.i_size
  OBVIOUS
<1>4. \/ out = Outcome(new, zones, "OK", pos + n)
      \/ \E left \in Nat, r \in {"ENOSPC", "EFAULT"} :
           left <= zones /\ out = Outcome(same, left, r, pos)
  <2>1. zones - 0 \in Nat /\ zones - 0 <= zones
    OBVIOUS
  <2>2. CanAllocate(zones) => zones - 1 \in Nat /\ zones - 1 <= zones
    BY DEF CanAllocate
  <2> HIDE DEF new, same
  <2> QED
    BY <2>1, <2>2 DEF WriteImmediate, new, same
<1> HIDE DEF bytes, sizeDone, sizeFailed
<1>5. /\ new \in Inodes /\ new.type = "immediate" /\ new.i_size = sizeDone /\ new.bytes = bytes
      /\ new.blocks = ino.blocks
      /\ same \in Inodes /\ same.type = "immediate" /\ same.i_size = sizeFailed
      /\ same.blocks = ino.blocks
  <2>1. sizeDone \in 0 .. s_max_size /\ sizeFailed \in 0 .. s_max_size
    BY <1>1, <1>2
  <2>2. ino \in Inodes
    BY <1>1
  <2>3. /\ new \in Inodes /\ new.type = "immediate" /\ new.i_size = sizeDone
        /\ new.bytes = bytes /\ new.blocks = ino.blocks
    BY <1>2, <2>1, <2>2 DEF Inodes
  <2>4. /\ same \in Inodes /\ same.type = "immediate" /\ same.i_size = sizeFailed
        /\ same.blocks = ino.blocks
    BY <2>1, <2>2 DEF Inodes
  <2> QED
    BY <2>3, <2>4
<1> HIDE DEF new, same
<1>6. Mapped(new) = {} /\ Mapped(same) = {}
  BY <1>1, <1>5 DEF Mapped
<1>7. Cardinality(Mapped(new)) = 0 /\ Cardinality(Mapped(same)) = 0
  BY <1>6, FS_EmptySet
<1>8. CASE out = Outcome(new, zones, "OK", pos + n)
  <2>1. out.inode = new /\ out.free = zones /\ out.r = "OK" /\ out.pos = pos + n
    BY <1>8 DEF Outcome
  <2>2. WriteSafe(ino, zones, out)
    <3>1. new.i_size <= ImmediateSize /\ pos + n \in Nat /\ ino.type # "regular"
      BY <1>1, <1>2, <1>5
    <3>2. InodeOK(new)
      BY <1>5, <1>6, <3>1 DEF InodeOK
    <3> QED
      BY <1>1, <1>7, <2>1, <3>1, <3>2 DEF WriteSafe
  <2>3. WriteExtends(ino, pos, n, out)
    BY <1>3, <1>5, <2>1 DEF WriteExtends, ZerosBeyond
  <2>4. WriteRight(ino, pos, n, v, out)
    <3> SUFFICES ASSUME ~(pos > ino.i_size)
                 PROVE  Contents(new) = Overwritten(Contents(ino), ino.i_size, pos, n, v)
      BY <2>1 DEF WriteRight
    <3>1. ASSUME NEW i \in 0 .. new.i_size - 1
          PROVE  ByteAt(new, i) = IF i \in pos .. pos + n - 1 THEN v
                                  ELSE IF i < ino.i_size THEN ByteAt(ino, i) ELSE 0
      <4>1. i \in 0 .. ImmediateSize - 1
        BY <1>1, <1>2, <1>5
      <4>2. ByteAt(new, i) = bytes[i] /\ ByteAt(ino, i) = ino.bytes[i]
        BY <1>5 DEF ByteAt
      <4>3. i \notin pos .. pos + n - 1 => i < ino.i_size
        BY <1>1, <1>3, <1>5
      <4> QED
        BY <1>2, <4>1, <4>2, <4>3
    <3>2. RightBytes(ino, new, pos, n, v)
      BY <1>1, <1>2, <1>3, <1>5, <3>1 DEF RightBytes
    <3> QED
      BY <3>2, ContentsAre
  <2> QED
    BY <2>1, <2>2, <2>3, <2>4 DEF Lasting, FailureKeeps
<1>9. CASE \E left \in Nat, r \in {"ENOSPC", "EFAULT"} :
             left <= zones /\ out = Outcome(same, left, r, pos)
  <2>1. PICK left \in Nat, r \in {"ENOSPC", "EFAULT"} :
          left <= zones /\ out = Outcome(same, left, r, pos)
    BY <1>9
  <2>2. out.inode = same /\ out.free = left /\ out.r # "OK" /\ out.pos = pos
    BY <2>1 DEF Outcome
  <2>3. same.i_size <= ImmediateSize /\ ino.type # "regular"
    BY <1>1, <1>2, <1>5
  <2>4. InodeOK(same)
    BY <1>5, <1>6, <2>3 DEF InodeOK
  <2>5. WriteSafe(ino, zones, out)
    BY <1>1, <1>7, <2>1, <2>2, <2>3, <2>4 DEF WriteSafe
  <2> QED
    BY <2>2, <2>3, <2>5 DEF Lasting, WriteExtends, WriteRight, FailureKeeps
<1> QED
  BY <1>4, <1>8, <1>9

LEMMA EveryWrite ==
  ASSUME NEW ino, InodeOK(ino), NEW zones \in Nat, NEW pos \in Nat, NEW n \in Nat \ {0},
         NEW v \in Byte, NEW out \in FsWrite(ino, zones, pos, n, v)
  PROVE  Lasting(ino, zones, pos, n, v, out)
<1>1. CASE pos + n > s_max_size
  <2>1. out.inode = ino /\ out.free = zones /\ out.r = "EFBIG" /\ out.pos = pos
    BY <1>1 DEF FsWrite, Outcome
  <2>2. Cardinality(Mapped(ino)) \in Nat /\ ino.i_size \in Nat
    BY SameMapped, MappedFinite, BlockNumbers DEF InodeOK, Inodes
  <2> QED
    BY <2>1, <2>2 DEF Lasting, WriteSafe, WriteExtends, WriteRight, FailureKeeps
<1>2. CASE ~(pos + n > s_max_size) /\ ino.type = "regular"
  <2>1. pos + n <= s_max_size /\ out \in WriteChunks(ino, zones, ino.i_size, pos, n, v)
    BY <1>2, BlockNumbers DEF FsWrite
  <2> QED
    BY <1>2, <2>1, RegularWrite DEF Lasting
<1>3. CASE ~(pos + n > s_max_size) /\ ino.type # "regular"
  <2>1. ino.type = "immediate" /\ pos + n <= s_max_size
    BY <1>3, BlockNumbers DEF InodeOK, Inodes, Types
  <2>2. CASE FitsInode(pos, n)
    BY <1>3, <2>1, <2>2, ImmediateWrite DEF FsWrite
  <2>3. CASE ~FitsInode(pos, n)
    BY <1>3, <2>1, <2>3, ConvertingWrite DEF FsWrite
  <2> QED
    BY <2>2, <2>3
<1> QED
  BY <1>1, <1>2, <1>3

-----------------------------------------------------------------------------
(***************************************************************************)
(* The descriptors, the vnode and the inode                                *)
(***************************************************************************)
Filps  == [Fds -> [open : BOOLEAN, pos : Nat, append : BOOLEAN]]
Vnodes == [v_ref_count : Nat, v_mode : Types, v_size : Nat]
OpenFds(f) == {d \in Fds : f[d].open}

\* The device: no zone more than there are, and none lost before a write fails.
ImZones ==
  /\ others \in 0 .. Zones /\ free \in 0 .. Zones
  /\ free + Cardinality(Mapped(inode)) + others <= Zones
  /\ ~failed => free + Cardinality(Mapped(inode)) + others = Zones

\* VFS: a reference for every open descriptor, and what the vnode says of the
\* inode once it says that it is regular.
ImVnode ==
  /\ vnode \in Vnodes /\ filp \in Filps
  /\ vnode.v_ref_count = Cardinality(OpenFds(filp))
  /\ vnode.v_mode = "regular" => inode.type = "regular"
  /\ SizesAgree

ImInv ==
  /\ created \in BOOLEAN /\ failed \in BOOLEAN
  /\ InodeOK(inode) /\ ImZones /\ ImVnode
  /\ ~failed => ZerosBeyond(inode)
  /\ created \/ OpenFds(filp) = {}

LEMMA OpenFdsFinite ==
  ASSUME NEW f
  PROVE  IsFiniteSet(OpenFds(f)) /\ Cardinality(OpenFds(f)) \in Nat
<1>1. IsFiniteSet(OpenFds(f))
  BY ImmediateAssumption, FS_Subset DEF OpenFds
<1> QED
  BY <1>1, FS_CardinalityType

LEMMA FdOpened ==
  ASSUME filp \in Filps, NEW d \in Fds, ~filp[d].open, NEW append \in BOOLEAN, Opened(d, append)
  PROVE  filp' \in Filps /\ Cardinality(OpenFds(filp')) = Cardinality(OpenFds(filp)) + 1
<1> DEFINE r == [open |-> TRUE, pos |-> 0, append |-> append]
<1>1. r \in [open : BOOLEAN, pos : Nat, append : BOOLEAN] /\ r.open
  OBVIOUS
<1>2. filp' = [filp EXCEPT ![d] = r]
  BY DEF Opened
<1> HIDE DEF r
<1>3. filp' \in Filps /\ \A e \in Fds : filp'[e] = IF e = d THEN r ELSE filp[e]
  BY <1>1, <1>2 DEF Filps
<1>4. OpenFds(filp') = OpenFds(filp) \cup {d} /\ d \notin OpenFds(filp)
  BY <1>1, <1>3 DEF OpenFds
<1> QED
  BY <1>3, <1>4, OpenFdsFinite, FS_AddElement

LEMMA FdMoved ==
  ASSUME filp \in Filps, NEW d \in Fds, NEW pos \in Nat, filp' = [filp EXCEPT ![d].pos = pos]
  PROVE  filp' \in Filps /\ OpenFds(filp') = OpenFds(filp)
<1> DEFINE r == [filp[d] EXCEPT !.pos = pos]
<1>1. r \in [open : BOOLEAN, pos : Nat, append : BOOLEAN] /\ r.open = filp[d].open
  BY DEF Filps
<1>2. filp' = [filp EXCEPT ![d] = r]
  BY DEF Filps
<1> HIDE DEF r
<1>3. filp' \in Filps /\ \A e \in Fds : filp'[e] = IF e = d THEN r ELSE filp[e]
  BY <1>1, <1>2 DEF Filps
<1> QED
  BY <1>1, <1>3 DEF OpenFds

LEMMA FdClosed ==
  ASSUME filp \in Filps, NEW d \in Fds, filp[d].open,
         filp' = [filp EXCEPT ![d] = [open |-> FALSE, pos |-> 0, append |-> FALSE]]
  PROVE  filp' \in Filps /\ Cardinality(OpenFds(filp')) = Cardinality(OpenFds(filp)) - 1
<1> DEFINE r == [open |-> FALSE, pos |-> 0, append |-> FALSE]
<1>1. r \in [open : BOOLEAN, pos : Nat, append : BOOLEAN] /\ ~r.open
  OBVIOUS
<1>2. filp' = [filp EXCEPT ![d] = r]
  OBVIOUS
<1> HIDE DEF r
<1>3. filp' \in Filps /\ \A e \in Fds : filp'[e] = IF e = d THEN r ELSE filp[e]
  BY <1>1, <1>2 DEF Filps
<1>4. OpenFds(filp') = OpenFds(filp) \ {d} /\ d \in OpenFds(filp)
  BY <1>1, <1>3 DEF OpenFds
<1>5. Cardinality(OpenFds(filp) \ {d}) = Cardinality(OpenFds(filp)) - 1
  BY <1>4, OpenFdsFinite, FS_RemoveElement
<1> QED
  BY <1>3, <1>4, <1>5

LEMMA ImInitOK == ImInit => ImInv
<1> SUFFICES ASSUME ImInit PROVE ImInv
  OBVIOUS
<1>1. Zones \in Nat /\ 0 \in 0 .. s_max_size
  BY ImmediateAssumption
<1>2. InodeOK(inode) /\ Mapped(inode) = {} /\ inode.i_size = 0 /\ inode.type = "immediate"
  <2>1. inode = Inode("immediate", 0, NoBytes, NoBlocks)
    BY DEF ImInit
  <2>2. Inode("immediate", 0, NoBytes, NoBlocks) \in Inodes
    BY <1>1, Emptied DEF Inodes, Inode, Types
  <2>3. /\ inode.type = "immediate" /\ inode.i_size = 0 /\ inode.blocks = NoBlocks
    BY <2>1 DEF Inode
  <2> QED
    BY <2>1, <2>2, <2>3, SameMapped, Emptied, ImmediateAssumption DEF InodeOK
<1>3. ImZones
  <2>1. Cardinality(Mapped(inode)) = 0
    BY <1>2, FS_EmptySet
  <2> QED
    BY <1>1, <2>1 DEF ImZones, ImInit
<1>4. ImVnode
  <2>1. filp \in Filps /\ OpenFds(filp) = {}
    BY DEF ImInit, Filps, OpenFds
  <2>2. Cardinality(OpenFds(filp)) = 0
    BY <2>1, FS_EmptySet
  <2>3. vnode = [v_ref_count |-> 0, v_mode |-> "immediate", v_size |-> 0]
    BY DEF ImInit, NoVnode
  <2> QED
    BY <2>1, <2>2, <2>3 DEF ImVnode, Vnodes, Types, SizesAgree
<1>5. OpenFds(filp) = {}
  BY DEF ImInit, OpenFds
<1> QED
  BY <1>2, <1>3, <1>4, <1>5 DEF ImInv, ImInit, ZerosBeyond

\* Looked loads the vnode, or takes one reference more.
LEMMA LookedOK ==
  ASSUME ImInv
  PROVE  /\ Looked \in Vnodes /\ Looked.v_ref_count = vnode.v_ref_count + 1
         /\ Looked.v_mode = "regular" => inode.type = "regular"
         /\ Looked.v_mode = "regular" /\ ~failed => Looked.v_size = inode.i_size
<1> USE DEF ImInv, ImVnode
<1>1. CASE vnode.v_ref_count = 0
  <2>1. inode.type \in Types /\ inode.i_size \in Nat
    BY BlockNumbers DEF InodeOK, Inodes
  <2> QED
    BY <1>1, <2>1 DEF Looked, Vnodes
<1>2. CASE vnode.v_ref_count # 0
  <2>1. Looked = [vnode EXCEPT !.v_ref_count = @ + 1] /\ vnode \in Vnodes
    BY <1>2 DEF Looked
  <2> QED
    BY <2>1 DEF Vnodes, SizesAgree
<1> QED
  BY <1>1, <1>2

\* A truncation frees the zones and empties the inode.
LEMMA TruncateOK ==
  ASSUME ImInv, NEW v \in Vnodes, truncate_vnode(v), UNCHANGED <<others, failed>>
  PROVE  /\ InodeOK(inode') /\ ImZones' /\ ZerosBeyond(inode')
         /\ inode'.type = inode.type /\ inode'.i_size = 0
         /\ vnode' \in Vnodes /\ vnode'.v_ref_count = v.v_ref_count
         /\ vnode'.v_mode = v.v_mode /\ vnode'.v_size = 0
<1> USE DEF truncate_vnode
<1>1. inode \in Inodes /\ InodeOK(inode) /\ 0 \in 0 .. s_max_size
  BY ImmediateAssumption DEF ImInv, InodeOK
<1>2. /\ inode' \in Inodes /\ inode'.type = inode.type /\ inode'.i_size = 0
      /\ inode'.blocks = NoBlocks
  BY <1>1, Emptied DEF Inodes
<1>3. Mapped(inode') = {} /\ Cardinality(Mapped(inode')) = 0
  <2>1. Mapped(inode') = MappedIn(NoBlocks)
    BY <1>2 DEF Mapped, MappedIn
  <2> QED
    BY <2>1, Emptied
<1>4. Mapped(inode)' = Mapped(inode')
  BY DEF Mapped
<1>5. ImZones'
  <2>1. Cardinality(Mapped(inode)) \in Nat
    BY SameMapped, MappedFinite
  <2>2. Cardinality(Mapped(inode)') = 0
    BY <1>3, <1>4
  <2> QED
    BY <2>1, <2>2, ImmediateAssumption DEF ImInv, ImZones
<1>6. InodeOK(inode') /\ ZerosBeyond(inode')
  BY <1>2, <1>3, Emptied, ImmediateAssumption DEF InodeOK, ZerosBeyond
<1>7. /\ vnode' \in Vnodes /\ vnode'.v_ref_count = v.v_ref_count
      /\ vnode'.v_mode = v.v_mode /\ vnode'.v_size = 0
  BY DEF Vnodes
<1> QED
  BY <1>2, <1>5, <1>6, <1>7

-----------------------------------------------------------------------------
(***************************************************************************)
(* The steps                                                               *)
(***************************************************************************)
\* When the inode and the zones stay as they are, the vnode is what matters.
LEMMA InodeStays ==
  ASSUME ImInv, UNCHANGED <<inode, others, free, failed>>, created' \in BOOLEAN,
         created' \/ OpenFds(filp') = {}, ImVnode'
  PROVE  ImInv'
BY DEF ImInv, ImZones, InodeOK, ZerosBeyond, Mapped, OpenFds

LEMMA OpenNewOK ==
  ASSUME ImInv, NEW d \in Fds, NEW append \in BOOLEAN, OpenNew(d, append)
  PROVE  ImInv'
<1> USE DEF OpenNew
<1>1. /\ filp' \in Filps /\ Cardinality(OpenFds(filp')) = Cardinality(OpenFds(filp)) + 1
  BY FdOpened DEF ImInv, ImVnode
<1>2. /\ created' = TRUE /\ vnode' = [NoVnode EXCEPT !.v_ref_count = 1]
      /\ UNCHANGED <<inode, others, free, failed>>
  OBVIOUS
<1>3. Cardinality(OpenFds(filp)) = 0
  BY FS_EmptySet DEF ImInv
<1>4. vnode' \in Vnodes /\ vnode'.v_ref_count = 1 /\ vnode'.v_mode = "immediate"
  BY <1>2 DEF NoVnode, Vnodes, Types
<1>5. ImVnode'
  BY <1>1, <1>3, <1>4 DEF ImVnode, SizesAgree
<1> QED
  BY <1>2, <1>5, InodeStays

LEMMA OpenExistingOK ==
  ASSUME ImInv, NEW d \in Fds, NEW append \in BOOLEAN, NEW trunc \in BOOLEAN,
         OpenExisting(d, append, trunc)
  PROVE  ImInv'
<1>1. /\ filp' \in Filps /\ Cardinality(OpenFds(filp')) = Cardinality(OpenFds(filp)) + 1
  BY FdOpened DEF ImInv, ImVnode, OpenExisting
<1>2. created' = TRUE /\ UNCHANGED <<others, failed>>
  BY DEF OpenExisting, ImInv
<1>3. CASE trunc
  <2>1. Looked \in Vnodes /\ truncate_vnode(Looked)
    BY <1>3, LookedOK DEF OpenExisting
  <2>2. /\ InodeOK(inode') /\ ImZones' /\ ZerosBeyond(inode')
        /\ inode'.type = inode.type /\ inode'.i_size = 0
        /\ vnode' \in Vnodes /\ vnode'.v_ref_count = Looked.v_ref_count
        /\ vnode'.v_mode = Looked.v_mode /\ vnode'.v_size = 0
    BY <1>2, <2>1, TruncateOK
  <2>3. ImVnode'
    BY <1>1, <2>2, LookedOK DEF ImInv, ImVnode, SizesAgree
  <2> QED
    BY <1>2, <2>2, <2>3 DEF ImInv
<1>4. CASE ~trunc
  <2>1. vnode' = Looked /\ UNCHANGED <<inode, free>>
    BY <1>4 DEF OpenExisting
  <2>2. ImVnode'
    BY <1>1, <1>2, <2>1, LookedOK DEF ImInv, ImVnode, SizesAgree
  <2> QED
    BY <1>2, <2>1, <2>2, InodeStays
<1> QED
  BY <1>3, <1>4

LEMMA CloseOK ==
  ASSUME ImInv, NEW d \in Fds, Close(d)
  PROVE  ImInv'
<1>1. /\ filp' \in Filps /\ Cardinality(OpenFds(filp')) = Cardinality(OpenFds(filp)) - 1
  BY FdClosed DEF ImInv, ImVnode, Close
<1>2. /\ UNCHANGED <<created, inode, others, free, failed>>
      /\ vnode' = IF vnode.v_ref_count = 1 THEN NoVnode ELSE [vnode EXCEPT !.v_ref_count = @ - 1]
  BY DEF Close
<1>3. vnode \in Vnodes /\ vnode.v_ref_count = Cardinality(OpenFds(filp))
  BY DEF ImInv, ImVnode
<1>4. Cardinality(OpenFds(filp')) \in Nat
  BY OpenFdsFinite
<1>5. /\ vnode' \in Vnodes /\ vnode'.v_ref_count = Cardinality(OpenFds(filp'))
      /\ vnode'.v_mode = "immediate" \/ (vnode'.v_mode = vnode.v_mode /\ vnode'.v_size = vnode.v_size)
  <2>1. CASE vnode.v_ref_count = 1
    BY <1>1, <1>2, <1>3, <2>1 DEF NoVnode, Vnodes, Types
  <2>2. CASE vnode.v_ref_count # 1
    <3>1. vnode.v_ref_count - 1 \in Nat
      BY <1>1, <1>3, <1>4 DEF Vnodes
    <3> QED
      BY <1>1, <1>2, <1>3, <2>2, <3>1 DEF Vnodes
  <2> QED
    BY <2>1, <2>2
<1>6. ImVnode'
  BY <1>1, <1>2, <1>5 DEF ImInv, ImVnode, SizesAgree
<1>7. created' = TRUE
  BY <1>2 DEF ImInv, OpenFds, Close
<1> QED
  BY <1>2, <1>6, <1>7, InodeStays

\* A step that only moves the position of a descriptor.
LEMMA MovedOK ==
  ASSUME ImInv, NEW d \in Fds, NEW pos \in Nat, filp' = [filp EXCEPT ![d].pos = pos],
         UNCHANGED <<created, inode, others, free, vnode, failed>>
  PROVE  ImInv'
<1>1. filp' \in Filps /\ OpenFds(filp') = OpenFds(filp)
  BY FdMoved DEF ImInv, ImVnode
<1>2. ImVnode'
  BY <1>1 DEF ImInv, ImVnode, SizesAgree
<1>3. created' \in BOOLEAN /\ (created' \/ OpenFds(filp') = {})
  BY <1>1 DEF ImInv
<1> QED
  BY <1>2, <1>3, InodeStays

LEMMA TruncateStep ==
  ASSUME ImInv, Truncate
  PROVE  ImInv'
<1> DEFINE v == IF vnode.v_ref_count = 0 THEN NoVnode ELSE vnode
<1>1. truncate_vnode(v) /\ UNCHANGED <<created, others, filp, failed>>
  BY DEF Truncate
<1>2. /\ v \in Vnodes /\ v.v_ref_count = vnode.v_ref_count
      /\ v.v_mode = "regular" => inode.type = "regular"
  BY DEF ImInv, ImVnode, Vnodes, NoVnode, Types
<1> HIDE DEF v
<1>3. /\ InodeOK(inode') /\ ImZones' /\ ZerosBeyond(inode')
      /\ inode'.type = inode.type /\ inode'.i_size = 0
      /\ vnode' \in Vnodes /\ vnode'.v_ref_count = v.v_ref_count
      /\ vnode'.v_mode = v.v_mode /\ vnode'.v_size = 0
  BY <1>1, <1>2, TruncateOK
<1>4. ImVnode'
  BY <1>1, <1>2, <1>3 DEF ImInv, ImVnode, SizesAgree
<1> QED
  BY <1>1, <1>3, <1>4 DEF ImInv

LEMMA PositionNat == ASSUME ImInv, NEW d \in Fds PROVE Position(d) \in Nat
BY DEF ImInv, ImVnode, Vnodes, Filps, Position

LEMMA WriteOK ==
  ASSUME ImInv, NEW d \in Fds, NEW n \in Lengths, NEW v \in Data,
         NEW out \in FsWrite(inode, free, Position(d), n, v), Write(d, out)
  PROVE  ImInv'
<1> DEFINE pos == Position(d)
           position == IF out.r = "OK" THEN out.pos ELSE pos
<1>1. /\ pos \in Nat /\ n \in Nat \ {0} /\ v \in Byte /\ free \in Nat /\ InodeOK(inode)
  BY PositionNat, ImmediateAssumption DEF Lengths, Byte, ImInv, ImZones
<1>2. Lasting(inode, free, pos, n, v, out)
  BY <1>1, EveryWrite
<1>3. /\ inode' = out.inode /\ free' = out.free /\ UNCHANGED <<created, others>>
      /\ filp' = [filp EXCEPT ![d].pos = position]
      /\ failed' = (failed \/ out.r # "OK")
      /\ vnode' = IF vnode.v_mode = "regular" /\ position > vnode.v_size
                    THEN [vnode EXCEPT !.v_size = position] ELSE vnode
  BY DEF Write
<1>4. InodeOK(inode') /\ out.pos \in Nat /\ position \in Nat
  BY <1>1, <1>2, <1>3 DEF Lasting, WriteSafe
<1> HIDE DEF position
<1>5. filp' \in Filps /\ OpenFds(filp') = OpenFds(filp)
  BY <1>3, <1>4, FdMoved DEF ImInv, ImVnode
<1>6. failed' \in BOOLEAN /\ (~failed' => ~failed /\ out.r = "OK")
  BY <1>3 DEF ImInv
<1>7. ImZones'
  <2>1. Mapped(inode)' = Mapped(out.inode)
    BY <1>3 DEF Mapped
  <2>2. /\ Cardinality(Mapped(inode)) \in Nat /\ Cardinality(Mapped(out.inode)) \in Nat
    BY SameMapped, MappedFinite
  <2>3. /\ out.free \in Nat
        /\ out.free + Cardinality(Mapped(out.inode)) <= free + Cardinality(Mapped(inode))
        /\ ~failed' => out.free + Cardinality(Mapped(out.inode)) = free + Cardinality(Mapped(inode))
    BY <1>2, <1>6 DEF Lasting, WriteSafe
  <2> QED
    BY <1>3, <1>6, <2>1, <2>2, <2>3, ImmediateAssumption DEF ImInv, ImZones
<1>8. /\ vnode' \in Vnodes /\ vnode'.v_ref_count = vnode.v_ref_count
      /\ vnode'.v_mode = vnode.v_mode
      /\ vnode'.v_mode = "regular" =>
           vnode'.v_size = IF position > vnode.v_size THEN position ELSE vnode.v_size
  BY <1>3, <1>4 DEF ImInv, ImVnode, Vnodes
<1>9. inode.type = "regular" => inode'.type = "regular"
  BY <1>2, <1>3 DEF Lasting, WriteSafe
<1>10. ASSUME ~failed', vnode'.v_mode = "regular" PROVE vnode'.v_size = inode'.i_size
  <2>1. position = pos + n
    BY <1>2, <1>6, <1>10 DEF position, Lasting, WriteExtends
  <2>2. inode'.i_size = IF pos + n > inode.i_size THEN pos + n ELSE inode.i_size
    BY <1>2, <1>3, <1>6, <1>10 DEF Lasting, WriteExtends
  <2>3. vnode.v_size = inode.i_size
    BY <1>6, <1>8, <1>10 DEF ImInv, ImVnode, SizesAgree
  <2> QED
    BY <1>8, <1>10, <2>1, <2>2, <2>3
<1>11. ImVnode'
  BY <1>5, <1>8, <1>9, <1>10 DEF ImInv, ImVnode, SizesAgree
<1>12. ~failed' => ZerosBeyond(inode')
  BY <1>2, <1>3, <1>6 DEF ImInv, Lasting, WriteExtends
<1>13. created' \in BOOLEAN /\ (created' \/ OpenFds(filp') = {})
  BY <1>3, <1>5 DEF ImInv
<1> QED
  BY <1>4, <1>6, <1>7, <1>11, <1>12, <1>13 DEF ImInv

LEMMA ReadOK ==
  ASSUME ImInv, NEW d \in Fds, NEW n \in Lengths,
         NEW reply \in FsRead(inode, filp[d].pos, n), Read(d, reply)
  PROVE  ImInv'
<1>1. filp[d].pos \in Nat /\ n \in Nat /\ inode.i_size \in Nat
  BY ImmediateAssumption, BlockNumbers DEF ImInv, ImVnode, Filps, Lengths, InodeOK, Inodes
<1>2. reply.pos \in Nat
  BY <1>1 DEF FsRead, ReadEnd, Reply
<1> QED
  BY <1>2, MovedOK DEF Read

LEMMA ImInvariant == ImSpec => []ImInv
<1>1. ImInv /\ [ImNext]_imVars => ImInv'
  <2> SUFFICES ASSUME ImInv, [ImNext]_imVars PROVE ImInv'
    OBVIOUS
  <2>1. ASSUME NEW d \in Fds, NEW append \in BOOLEAN, NEW trunc \in BOOLEAN,
               OpenNew(d, append) \/ OpenExisting(d, append, trunc)
        PROVE  ImInv'
    BY <2>1, OpenNewOK, OpenExistingOK
  <2>2. ASSUME NEW d \in Fds, Close(d) PROVE ImInv'
    BY <2>2, CloseOK
  <2>3. ASSUME NEW d \in Fds, NEW pos \in Nat, Lseek(d, pos) PROVE ImInv'
    BY <2>3, MovedOK DEF Lseek
  <2>4. ASSUME NEW d \in Fds, LseekEnd(d) PROVE ImInv'
    BY <2>3, <2>4 DEF LseekEnd, ImInv, ImVnode, Vnodes
  <2>5. ASSUME NEW d \in Fds, NEW n \in Lengths, NEW v \in Data,
               NEW out \in FsWrite(inode, free, Position(d), n, v), Write(d, out)
        PROVE  ImInv'
    BY <2>5, WriteOK
  <2>6. ASSUME NEW d \in Fds, NEW n \in Lengths,
               NEW reply \in FsRead(inode, filp[d].pos, n), Read(d, reply)
        PROVE  ImInv'
    BY <2>6, ReadOK
  <2>7. ASSUME Truncate PROVE ImInv'
    BY <2>7, TruncateStep
  <2>8. CASE UNCHANGED imVars
    BY <2>8 DEF imVars, ImInv, ImZones, ImVnode, SizesAgree, InodeOK, ZerosBeyond, Mapped, OpenFds
  <2>9. 0 .. s_max_size \subseteq Nat
    BY ImmediateAssumption
  <2> QED
    BY <2>1, <2>2, <2>3, <2>4, <2>5, <2>6, <2>7, <2>8, <2>9 DEF ImNext
<1> QED
  BY <1>1, ImInitOK, PTL DEF ImSpec

\* No zone of the device is lost or used twice before a write fails, with any
\* file, any writes and a device of any size; ImTypeOK is part of it.
THEOREM ImZonesAccounted == ImSpec => []ZonesAccounted
<1>1. ImInv => ZonesAccounted
  <2> SUFFICES ASSUME ImInv PROVE ZonesAccounted
    OBVIOUS
  <2>1. ImTypeOK
    <3>1. /\ inode.type \in Types /\ inode.i_size \in 0 .. s_max_size
          /\ inode.bytes \in [0 .. ImmediateSize - 1 -> Byte]
          /\ \A b \in Mapped(inode) : inode.blocks[b] \in [0 .. block_size - 1 -> Byte]
      BY DEF ImInv, InodeOK, Inodes, BlockMaps, Block, Mapped
    <3>2. /\ vnode.v_ref_count = Cardinality({d \in Fds : filp[d].open})
          /\ vnode.v_mode \in Types /\ vnode.v_size \in Nat
      BY DEF ImInv, ImVnode, Vnodes, OpenFds
    <3> QED
      BY <3>1, <3>2 DEF ImTypeOK, ImInv, ImVnode, ImZones, InodeOK, Filps
  <2> QED
    BY <2>1 DEF ZonesAccounted, ImInv, ImZones
<1> QED
  BY <1>1, ImInvariant, PTL

\* The vnode of a file known to be regular has the size of the inode, through any
\* opens, closes, truncations and writes that succeed.
THEOREM ImSizesAgree == ImSpec => []SizesAgree
<1>1. ImInv => SizesAgree
  BY DEF ImInv, ImVnode
<1> QED
  BY <1>1, ImInvariant, PTL

\* Every write that succeeds does what a write to a file does, in the inode, in the
\* blocks and from one to the other, with blocks of any size.
THEOREM ImWritesAreRight == ImSpec => []WritesAreRight
<1>1. ImInv => WritesAreRight
  <2> SUFFICES ASSUME ImInv, NEW d \in Fds, NEW n \in Lengths, NEW v \in Data,
                      NEW out \in FsWrite(inode, free, Position(d), n, v), out.r = "OK",
                      ~(/\ Position(d) > inode.i_size
                        /\ failed \/ (inode.type = "immediate" /\ FitsInode(Position(d), n)))
               PROVE  Contents(out.inode)
                        = Overwritten(Contents(inode), inode.i_size, Position(d), n, v)
    BY DEF WritesAreRight, NextWrites
  <2>1. /\ Position(d) \in Nat /\ n \in Nat \ {0} /\ v \in Byte /\ free \in Nat /\ InodeOK(inode)
    BY PositionNat, ImmediateAssumption DEF Lengths, Byte, ImInv, ImZones
  <2>2. WriteRight(inode, Position(d), n, v, out)
    BY <2>1, EveryWrite DEF Lasting
  <2>3. Position(d) > inode.i_size =>
          ZerosBeyond(inode) /\ (inode.type = "regular" \/ ~FitsInode(Position(d), n))
    BY DEF ImInv, InodeOK, Inodes, Types
  <2> QED
    BY <2>2, <2>3 DEF WriteRight
<1> QED
  BY <1>1, ImInvariant, PTL

\* A write that fails on a regular file, wherever, leaves the other bytes alone.
THEOREM ImFailedWritesKeepTheRest == ImSpec => []FailedWritesKeepTheRest
<1>1. ImInv => FailedWritesKeepTheRest
  <2> SUFFICES ASSUME ImInv, NEW d \in Fds, NEW n \in Lengths, NEW v \in Data,
                      NEW out \in FsWrite(inode, free, Position(d), n, v), out.r # "OK",
                      inode.type = "regular"
               PROVE  /\ out.inode.i_size >= inode.i_size
                      /\ \A i \in 0 .. inode.i_size - 1 :
                           i \notin Position(d) .. Position(d) + n - 1 =>
                             ByteAt(out.inode, i) = ByteAt(inode, i)
    BY DEF FailedWritesKeepTheRest, NextWrites
  <2>1. /\ Position(d) \in Nat /\ n \in Nat \ {0} /\ v \in Byte /\ free \in Nat /\ InodeOK(inode)
    BY PositionNat, ImmediateAssumption DEF Lengths, Byte, ImInv, ImZones
  <2>2. FailureKeeps(inode, Position(d), n, out)
    BY <2>1, EveryWrite DEF Lasting
  <2> QED
    BY <2>2 DEF FailureKeeps
<1> QED
  BY <1>1, ImInvariant, PTL

\* A read returns the bytes of the file, as far as a read of an immediate file
\* can: from its beginning, with a buffer it fits in.
THEOREM ImReadsAreRight == ImSpec => []ReadsAreRight
<1>1. ImInv => ReadsAreRight
  <2> SUFFICES ASSUME ImInv, NEW d \in Fds, NEW n \in Lengths,
                      \/ inode.type = "regular"
                      \/ filp[d].pos = 0 /\ n >= inode.i_size
                      \/ filp[d].pos >= inode.i_size,
                      NEW reply \in FsRead(inode, filp[d].pos, n)
               PROVE  reply.data =
                        [i \in {j \in 0 .. n - 1 : filp[d].pos + j \in DOMAIN Contents(inode)} |->
                           Contents(inode)[filp[d].pos + i]]
    BY DEF ReadsAreRight
  <2> DEFINE pos == filp[d].pos
             size == inode.i_size
             end == ReadEnd(inode, pos, n)
             asked == {j \in 0 .. n - 1 : pos + j \in DOMAIN Contents(inode)}
  <2>1. /\ pos \in Nat /\ n \in Nat \ {0} /\ size \in Nat
        /\ DOMAIN Contents(inode) = 0 .. size - 1
        /\ \A i \in 0 .. size - 1 : Contents(inode)[i] = ByteAt(inode, i)
    BY ImmediateAssumption, BlockNumbers
       DEF ImInv, ImVnode, Filps, Lengths, InodeOK, Inodes, Contents
  <2>2. end = IF pos + n < size THEN pos + n ELSE size
    BY DEF ReadEnd
  <2> HIDE DEF pos, size, end
  <2>3. CASE pos >= size
    <3>1. reply.data = Nothing
      BY <2>3 DEF FsRead, Reply, pos, size
    <3>2. asked = {}
      BY <2>1, <2>3
    <3> QED
      BY <3>1, <3>2 DEF Nothing, pos
  <2>4. CASE ~(pos >= size) /\ inode.type = "regular"
    <3>1. reply.data = Bytes(inode, pos, end)
      BY <2>4 DEF FsRead, Reply, pos, size, end
    <3>2. asked = 0 .. end - pos - 1
      BY <2>1, <2>2, <2>4
    <3>3. \A i \in asked : Contents(inode)[pos + i] = ByteAt(inode, pos + i)
      BY <2>1
    <3> QED
      BY <3>1, <3>2, <3>3 DEF Bytes, pos
  <2>5. CASE ~(pos >= size) /\ inode.type # "regular"
    <3>1. pos = 0 /\ n >= size
      BY <2>5 DEF pos, size
    <3>2. reply.data = Bytes(inode, 0, size)
      BY <2>1, <2>5, <3>1 DEF FsRead, Reply, pos, size
    <3>3. asked = 0 .. size - 0 - 1
      BY <2>1, <3>1
    <3>4. \A i \in asked : Contents(inode)[pos + i] = ByteAt(inode, 0 + i)
      BY <2>1, <3>1
    <3> QED
      BY <3>2, <3>3, <3>4 DEF Bytes, pos
  <2> QED
    BY <2>3, <2>4, <2>5
<1> QED
  BY <1>1, ImInvariant, PTL

-----------------------------------------------------------------------------
(***************************************************************************)
(* The zones of a large file                                               *)
(***************************************************************************)

(***************************************************************************)
(* Places in the tables                                                    *)
(***************************************************************************)
\* Division as the index computations use it.
LEMMA DivMod ==
  ASSUME NEW n \in Nat \ {0}, NEW x \in Nat
  PROVE  x \div n \in Nat /\ x % n \in 0 .. n - 1 /\ x = n * (x \div n) + (x % n)
OBVIOUS

LEMMA DivSmall ==
  ASSUME NEW n \in Nat \ {0}, NEW x \in 0 .. n * n - 1
  PROVE  x \div n \in 0 .. n - 1
<1>1. x = n * (x \div n) + (x % n) /\ x \div n \in Nat /\ x % n \in Nat
  BY DivMod
<1>2. n * n \in Nat
  OBVIOUS
<1>3. n * (x \div n) < n * n
  BY <1>1, <1>2
<1> QED
  BY <1>1, <1>3

\* The table that has the entry of zone p of the file, or NO_ZONE, and which
\* entry of it that is.
LeafTable(t, p) ==
  IF Direct(p) THEN INODE
  ELSE IF Indirect(p) THEN t[INODE][SINGLE]
  ELSE IF Double(t) = NO_ZONE THEN NO_ZONE ELSE t[Double(t)][ind_ex(p)]

LeafIndex(p) == IF Direct(p) THEN p ELSE ex(p)

\* The indices stay within the tables.
LEMMA Indices ==
  ASSUME NEW p \in FileZones
  PROVE  /\ Direct(p) => p \in 0 .. i_ndzones - 1
         /\ ~Direct(p) => ex(p) \in Index
         /\ ~Direct(p) /\ ~Indirect(p) => ind_ex(p) \in Index
<1> USE ZoneMapAssumption
<1>1. p \in Nat /\ i_nindirs * i_nindirs \in Nat
  BY DEF FileZones
<1>2. CASE Direct(p)
  BY <1>1, <1>2 DEF Direct
<1>3. CASE ~Direct(p) /\ Indirect(p)
  BY <1>1, <1>3 DEF Direct, Indirect, ex, Index
<1>4. CASE ~Direct(p) /\ ~Indirect(p)
  <2>1. p - i_ndzones - i_nindirs \in 0 .. i_nindirs * i_nindirs - 1
    BY <1>1, <1>4 DEF Direct, Indirect, FileZones
  <2>2. /\ ex(p) = (p - i_ndzones - i_nindirs) % i_nindirs
        /\ ind_ex(p) = (p - i_ndzones - i_nindirs) \div i_nindirs
    BY <1>4 DEF ex, ind_ex
  <2>3. ex(p) \in Index
    <3>1. p - i_ndzones - i_nindirs \in Nat
      BY <1>1, <2>1
    <3> QED
      BY <2>2, <3>1, DivMod DEF Index
  <2>4. ind_ex(p) \in Index
    BY <2>1, <2>2, DivSmall DEF Index
  <2> QED
    BY <1>4, <2>3, <2>4
<1> QED
  BY <1>2, <1>3, <1>4

\* Two zones of the file in the same part of the map differ in an index.
LEMMA IndicesDiffer ==
  ASSUME NEW p \in FileZones, NEW q \in FileZones, p # q, ~Direct(p), ~Direct(q),
         Indirect(p) <=> Indirect(q), ~Indirect(p) => ind_ex(p) = ind_ex(q)
  PROVE  ex(p) # ex(q)
<1> USE ZoneMapAssumption
<1>1. p \in Nat /\ q \in Nat
  BY DEF FileZones
<1>2. CASE Indirect(p)
  BY <1>1, <1>2 DEF ex, Direct, Indirect
<1>3. CASE ~Indirect(p)
  <2> DEFINE x == p - i_ndzones - i_nindirs
             y == q - i_ndzones - i_nindirs
  <2>1. x \in Nat /\ y \in Nat /\ x # y
    BY <1>1, <1>3 DEF Direct, Indirect
  <2>2. /\ x = i_nindirs * (x \div i_nindirs) + (x % i_nindirs)
        /\ y = i_nindirs * (y \div i_nindirs) + (y % i_nindirs)
    BY <2>1, DivMod
  <2>3. x \div i_nindirs = y \div i_nindirs
    BY <1>3 DEF ind_ex
  <2>4. x % i_nindirs # y % i_nindirs
    BY <2>1, <2>2, <2>3
  <2> QED
    BY <1>3, <2>4 DEF ex
<1> QED
  BY <1>2, <1>3

-----------------------------------------------------------------------------
(***************************************************************************)
(* Tables of which every entry is right                                    *)
(***************************************************************************)
TableType(t) ==
  /\ t \in [{INODE} \cup MapZones -> [0 .. DOUBLE -> Entries] \cup [Index -> Entries]]
  /\ \A b \in {INODE} \cup MapZones : t[b] \in [Domain(b) -> Entries]

\* No zone has two entries.
Apart(t) ==
  \A b \in Tables(t), c \in Tables(t) : \A i \in Domain(b), j \in Domain(c) :
    t[b][i] # NO_ZONE /\ t[b][i] = t[c][j] => b = c /\ i = j

Named(t, z) == \E b \in Tables(t) : \E i \in Domain(b) : t[b][i] = z

\* The zones without an entry are those in out.
Sound(t, out) ==
  /\ TableType(t) /\ Apart(t)
  /\ out \subseteq MapZones
  /\ \A z \in MapZones : Named(t, z) <=> z \notin out

\* Entry i of b is for data, or for an indirect block.
DataSlot(t, b, i) ==
  \/ b = INODE /\ i \in 0 .. i_ndzones - 1
  \/ b \in Singles(t) /\ i \in Index

TableSlot(t, b, i) ==
  \/ b = INODE /\ i \in {SINGLE, DOUBLE}
  \/ b = Double(t) /\ b # NO_ZONE /\ i \in Index

\* The blocks that name data.
LEMMA SinglesAre ==
  ASSUME NEW t, NEW x
  PROVE  x \in Singles(t) <=>
           /\ x # NO_ZONE
           /\ \/ x = t[INODE][SINGLE]
              \/ Double(t) # NO_ZONE /\ \E i \in Index : x = t[Double(t)][i]
BY DEF Singles

LEMMA TableTypes ==
  ASSUME NEW t, TableType(t)
  PROVE  /\ Double(t) \in Entries /\ t[INODE][SINGLE] \in Entries
         /\ Singles(t) \subseteq MapZones
         /\ Tables(t) \subseteq {INODE} \cup MapZones
         /\ INODE \in Tables(t) /\ INODE \notin Singles(t) /\ Double(t) # INODE
         /\ Double(t) # NO_ZONE => Double(t) \in Tables(t)
         /\ Singles(t) \subseteq Tables(t)
         /\ Domain(INODE) = 0 .. DOUBLE /\ SINGLE \in Domain(INODE) /\ DOUBLE \in Domain(INODE)
         /\ \A b \in MapZones : Domain(b) = Index
<1> USE ZoneMapAssumption
<1>1. /\ Domain(INODE) = 0 .. DOUBLE /\ SINGLE \in Domain(INODE) /\ DOUBLE \in Domain(INODE)
      /\ \A b \in MapZones : Domain(b) = Index
  BY DEF Domain, SINGLE, DOUBLE
<1>2. t[INODE] \in [Domain(INODE) -> Entries]
  BY DEF TableType
<1>3. Double(t) \in Entries /\ t[INODE][SINGLE] \in Entries
  BY <1>1, <1>2 DEF Double
<1>4. ASSUME Double(t) # NO_ZONE PROVE \A i \in Index : t[Double(t)][i] \in Entries
  <2>1. Double(t) \in MapZones
    BY <1>3, <1>4 DEF Entries
  <2>2. t[Double(t)] \in [Index -> Entries]
    BY <1>1, <2>1 DEF TableType
  <2> QED
    BY <2>2
<1>5. Singles(t) \subseteq MapZones
  BY <1>3, <1>4 DEF Singles, Entries
<1> QED
  BY <1>1, <1>3, <1>5 DEF Tables, Entries

\* A table other than the inode's has its own entry, in a place for a table.
LEMMA TableEntry ==
  ASSUME NEW t, TableType(t), NEW b \in Tables(t), b # INODE
  PROVE  \E c \in Tables(t) : \E j \in Domain(c) : TableSlot(t, c, j) /\ t[c][j] = b
<1> USE ZoneMapAssumption
<1> USE TableTypes
<1>1. CASE b = Double(t)
  BY <1>1 DEF TableSlot, Double
<1>2. CASE b = t[INODE][SINGLE]
  BY <1>2 DEF TableSlot
<1>3. CASE b # Double(t) /\ b # t[INODE][SINGLE]
  <2>1. Double(t) # NO_ZONE /\ \E i \in Index : b = t[Double(t)][i]
    BY <1>3 DEF Tables, Singles
  <2>2. Domain(Double(t)) = Index
    BY <2>1 DEF Entries
  <2> QED
    BY <2>1, <2>2 DEF TableSlot
<1> QED
  BY <1>1, <1>2, <1>3

\* Slots of the two kinds are apart, and both are entries of tables in use.
LEMMA Slots ==
  ASSUME NEW t, TableType(t), Apart(t)
  PROVE  /\ Double(t) \notin Singles(t)
         /\ \A b, i : DataSlot(t, b, i) \/ TableSlot(t, b, i) => b \in Tables(t) /\ i \in Domain(b)
         /\ \A b, i : ~(DataSlot(t, b, i) /\ TableSlot(t, b, i))
<1> USE ZoneMapAssumption
<1> USE TableTypes
<1>1. Double(t) \notin Singles(t)
  <2> SUFFICES ASSUME Double(t) \in Singles(t) PROVE FALSE
    OBVIOUS
  <2>1. Double(t) # NO_ZONE /\ Double(t) \in MapZones
    BY DEF Singles
  <2>2. t[INODE][DOUBLE] # t[INODE][SINGLE]
    <3>1. SINGLE # DOUBLE
      BY DEF SINGLE, DOUBLE
    <3> QED
      BY <2>1, <3>1 DEF Apart, Double
  <2>3. PICK i \in Index : Double(t) = t[Double(t)][i]
    BY <2>1, <2>2 DEF Singles, Double
  <2> QED
    BY <2>1, <2>3 DEF Apart, Double
<1>2. \A b, i : DataSlot(t, b, i) \/ TableSlot(t, b, i) => b \in Tables(t) /\ i \in Domain(b)
  <2>1. 0 .. i_ndzones - 1 \subseteq 0 .. DOUBLE
    BY DEF DOUBLE
  <2> QED
    BY <2>1 DEF DataSlot, TableSlot, Entries
<1>3. \A b, i : ~(DataSlot(t, b, i) /\ TableSlot(t, b, i))
  <2>1. SINGLE \notin 0 .. i_ndzones - 1 /\ DOUBLE \notin 0 .. i_ndzones - 1
    BY DEF SINGLE, DOUBLE
  <2> QED
    BY <1>1, <2>1 DEF DataSlot, TableSlot
<1> QED
  BY <1>1, <1>2, <1>3

-----------------------------------------------------------------------------
(***************************************************************************)
(* The four ways an entry changes                                          *)
(***************************************************************************)
\* A zone without an entry is no table.
LEMMA OutIsNoTable ==
  ASSUME NEW t, NEW out, Sound(t, out), NEW z \in out
  PROVE  z \in MapZones /\ z # INODE /\ z # NO_ZONE /\ z \notin Tables(t)
<1> USE ZoneMapAssumption
<1>1. z \in MapZones /\ ~Named(t, z)
  BY DEF Sound
<1>2. ASSUME z \in Tables(t) PROVE FALSE
  <2>1. \E c \in Tables(t) : \E j \in Domain(c) : t[c][j] = z
    BY <1>1, <1>2, TableEntry DEF Sound
  <2> QED
    BY <1>1, <2>1 DEF Named
<1> QED
  BY <1>1, <1>2

\* A zone entered for data is no table.
LEMMA DataIsNoTable ==
  ASSUME NEW t, TableType(t), Apart(t), NEW b, NEW i, DataSlot(t, b, i), t[b][i] # NO_ZONE
  PROVE  t[b][i] \in MapZones /\ t[b][i] \notin Tables(t)
<1> USE ZoneMapAssumption
<1>1. b \in Tables(t) /\ i \in Domain(b)
  BY Slots
<1>2. b \in {INODE} \cup MapZones
  BY <1>1, TableTypes
<1>3. t[b][i] \in MapZones
  BY <1>1, <1>2 DEF TableType, Entries
<1>4. ASSUME t[b][i] \in Tables(t) PROVE FALSE
  <2>1. PICK c \in Tables(t) : \E j \in Domain(c) : TableSlot(t, c, j) /\ t[c][j] = t[b][i]
    BY <1>3, <1>4, TableEntry
  <2>2. PICK j \in Domain(c) : TableSlot(t, c, j) /\ t[c][j] = t[b][i]
    BY <2>1
  <2>3. c = b /\ j = i
    BY <1>1, <2>1, <2>2 DEF Apart
  <2> QED
    BY <2>2, <2>3, Slots
<1> QED
  BY <1>3, <1>4

\* What leaves the entries for tables alone leaves the tables in use the same.
SameTables(t, u) ==
  /\ Double(u) = Double(t) /\ u[INODE][SINGLE] = t[INODE][SINGLE]
  /\ Double(t) # NO_ZONE => u[Double(t)] = t[Double(t)]
  /\ Singles(u) = Singles(t) /\ Tables(u) = Tables(t)

\* A zone is entered for data.
LEMMA EnterData ==
  ASSUME NEW t, NEW out, Sound(t, out), NEW b, NEW i, DataSlot(t, b, i), t[b][i] = NO_ZONE,
         NEW z \in out, NEW u, u = [t EXCEPT ![b][i] = z]
  PROVE  Sound(u, out \ {z}) /\ SameTables(t, u)
<1> USE ZoneMapAssumption
<1>1. TableType(t) /\ Apart(t) /\ out \subseteq MapZones
  BY DEF Sound
<1>2. /\ b \in Tables(t) /\ i \in Domain(b) /\ b \in {INODE} \cup MapZones
      /\ ~TableSlot(t, b, i)
  BY <1>1, Slots, TableTypes
<1>3. z \in MapZones /\ z # NO_ZONE /\ z \notin Tables(t) /\ ~Named(t, z)
  BY OutIsNoTable DEF Sound
<1>4. TableType(u)
  <2>1. \A c \in {INODE} \cup MapZones :
          t[c] \in [Domain(c) -> Entries] /\ (c = INODE => Domain(c) = 0 .. DOUBLE)
          /\ (c # INODE => Domain(c) = Index)
    BY <1>1 DEF TableType, Domain
  <2>2. u[b] = [t[b] EXCEPT ![i] = z] /\ \A c \in {INODE} \cup MapZones : c # b => u[c] = t[c]
    BY <1>1, <1>2 DEF TableType
  <2>3. [t[b] EXCEPT ![i] = z] \in [Domain(b) -> Entries]
    BY <1>2, <1>3, <2>1 DEF Entries
  <2>4. \A c \in {INODE} \cup MapZones : u[c] \in [Domain(c) -> Entries]
    BY <2>1, <2>2, <2>3
  <2>5. u \in [{INODE} \cup MapZones -> [0 .. DOUBLE -> Entries] \cup [Index -> Entries]]
    <3>1. [t[b] EXCEPT ![i] = z] \in [0 .. DOUBLE -> Entries] \cup [Index -> Entries]
      BY <1>2, <2>1, <2>3
    <3>2. u = [t EXCEPT ![b] = [t[b] EXCEPT ![i] = z]]
      OBVIOUS
    <3> QED
      BY <1>1, <3>1, <3>2 DEF TableType
  <2> QED
    BY <2>4, <2>5 DEF TableType
<1>5. /\ \A c \in {INODE} \cup MapZones : c # b => u[c] = t[c]
      /\ u[b][i] = z /\ \A j \in Domain(b) : j # i => u[b][j] = t[b][j]
  BY <1>1, <1>2 DEF TableType
<1>6. SameTables(t, u)
  <2>1. Double(u) = Double(t) /\ u[INODE][SINGLE] = t[INODE][SINGLE]
    BY <1>1, <1>2, <1>5, TableTypes DEF Double, TableSlot
  <2>2. ASSUME Double(t) # NO_ZONE PROVE u[Double(t)] = t[Double(t)]
    <3>1. b # Double(t)
      BY <1>1, <1>2, <2>2, TableTypes DEF TableSlot, Entries
    <3> QED
      BY <1>1, <1>5, <2>2, <3>1, TableTypes DEF Entries
  <2>3. Singles(u) = Singles(t)
    BY <2>1, <2>2 DEF Singles
  <2> QED
    BY <2>1, <2>2, <2>3 DEF SameTables, Tables
<1>7. Tables(u) = Tables(t) /\ Tables(t) \subseteq {INODE} \cup MapZones
  BY <1>1, <1>6, TableTypes DEF SameTables
<1>8. \A c \in Tables(t) : \A j \in Domain(c) :
        /\ t[c][j] # z
        /\ u[c][j] = IF c = b /\ j = i THEN z ELSE t[c][j]
  BY <1>3, <1>5, <1>7 DEF Named
<1>9. Apart(u)
  BY <1>1, <1>7, <1>8 DEF Apart
<1>10. \A x \in MapZones : Named(u, x) <=> Named(t, x) \/ x = z
  BY <1>2, <1>7, <1>8 DEF Named
<1> QED
  BY <1>3, <1>4, <1>6, <1>9, <1>10 DEF Sound

\* What an entry for a new indirect block does to the tables in use.
Creates(t, u, b, i, z) ==
  /\ TableType(u)
  /\ \A j \in Index : u[z][j] = NO_ZONE
  /\ \A c \in Tables(t) : \A j \in Domain(c) :
       u[c][j] = IF c = b /\ j = i THEN z ELSE t[c][j]

Grown(t, u, b, i, z) ==
  /\ Tables(u) = Tables(t) \cup {z}
  /\ Singles(u) = IF b = INODE /\ i = DOUBLE THEN Singles(t) ELSE Singles(t) \cup {z}
  /\ Double(u) = IF b = INODE /\ i = DOUBLE THEN z ELSE Double(t)
  /\ u[INODE][SINGLE] = IF b = INODE /\ i = SINGLE THEN z ELSE t[INODE][SINGLE]

LEMMA NewTable ==
  ASSUME NEW t, NEW out, Sound(t, out), NEW b, NEW i, TableSlot(t, b, i), t[b][i] = NO_ZONE,
         NEW z \in out, NEW u, Creates(t, u, b, i, z)
  PROVE  Sound(u, out \ {z}) /\ Grown(t, u, b, i, z)
<1> USE ZoneMapAssumption
<1>1. TableType(t) /\ Apart(t) /\ out \subseteq MapZones
  BY DEF Sound
<1>2. b \in Tables(t) /\ i \in Domain(b) /\ b \in {INODE} \cup MapZones
  BY <1>1, Slots, TableTypes
<1>3. z \in MapZones /\ z # NO_ZONE /\ z # INODE /\ z \notin Tables(t) /\ ~Named(t, z)
  BY OutIsNoTable DEF Sound
<1>4. Domain(z) = Index /\ b # z
  BY <1>2, <1>3 DEF Domain
<1>8. \A c \in Tables(t) : \A j \in Domain(c) : u[c][j] = IF c = b /\ j = i THEN z ELSE t[c][j]
  BY DEF Creates
<1>9. /\ Double(u) = IF b = INODE /\ i = DOUBLE THEN z ELSE Double(t)
      /\ u[INODE][SINGLE] = IF b = INODE /\ i = SINGLE THEN z ELSE t[INODE][SINGLE]
  <2>1. INODE \in Tables(t) /\ SINGLE \in Domain(INODE) /\ DOUBLE \in Domain(INODE)
    BY <1>1, TableTypes
  <2>2. /\ u[INODE][DOUBLE] = IF INODE = b /\ DOUBLE = i THEN z ELSE t[INODE][DOUBLE]
        /\ u[INODE][SINGLE] = IF INODE = b /\ SINGLE = i THEN z ELSE t[INODE][SINGLE]
    BY <1>8, <2>1
  <2> QED
    BY <2>2 DEF Double
<1>10. Singles(u) = IF b = INODE /\ i = DOUBLE THEN Singles(t) ELSE Singles(t) \cup {z}
  <2>1. SINGLE # DOUBLE
    BY DEF SINGLE, DOUBLE
  <2>2. CASE b = INODE /\ i = DOUBLE
    <3>1. Double(t) = NO_ZONE /\ Double(u) = z /\ u[INODE][SINGLE] = t[INODE][SINGLE]
      BY <1>9, <2>1, <2>2 DEF Double
    <3>2. \A j \in Index : u[z][j] = NO_ZONE
      BY DEF Creates
    <3> QED
      BY <1>3, <2>2, <3>1, <3>2 DEF Singles
  <2>3. CASE b = INODE /\ i = SINGLE
    <3>1. Double(u) = Double(t) /\ t[INODE][SINGLE] = NO_ZONE /\ u[INODE][SINGLE] = z
      BY <1>9, <2>1, <2>3
    <3>2. Double(t) # NO_ZONE => \A j \in Index : u[Double(t)][j] = t[Double(t)][j]
      <4>1. ASSUME Double(t) # NO_ZONE
            PROVE  Double(t) \in Tables(t) /\ Double(t) # INODE /\ Domain(Double(t)) = Index
        BY <1>1, <4>1, TableTypes DEF Entries
      <4>2. ASSUME Double(t) # NO_ZONE, NEW j \in Index
            PROVE  u[Double(t)][j] = t[Double(t)][j]
        BY <1>8, <2>3, <4>1, <4>2
      <4> QED
        BY <4>2
    <3>3. ASSUME NEW x PROVE x \in Singles(u) <=> x \in Singles(t) \/ x = z
      <4>1. x \in Singles(u) <=>
              /\ x # NO_ZONE
              /\ x = z \/ (Double(t) # NO_ZONE /\ \E j \in Index : x = u[Double(t)][j])
        BY <3>1, SinglesAre
      <4>2. x \in Singles(t) <=>
              x # NO_ZONE /\ Double(t) # NO_ZONE /\ \E j \in Index : x = t[Double(t)][j]
        BY <3>1, SinglesAre
      <4> QED
        BY <1>3, <3>2, <4>1, <4>2
    <3> QED
      BY <2>1, <2>3, <3>3
  <2>4. CASE b = Double(t) /\ b # NO_ZONE /\ i \in Index /\ b # INODE
    <3>1. Double(u) = Double(t) /\ u[INODE][SINGLE] = t[INODE][SINGLE]
      BY <1>9, <2>4
    <3>2. \A j \in Index : u[Double(t)][j] = IF j = i THEN z ELSE t[Double(t)][j]
      <4>1. Double(t) \in Tables(t) /\ Domain(Double(t)) = Index
        BY <1>1, <2>4, TableTypes DEF Entries
      <4> QED
        BY <1>8, <2>4, <4>1
    <3>3. t[Double(t)][i] = NO_ZONE
      BY <2>4
    <3>4. ASSUME NEW x PROVE x \in Singles(u) <=> x \in Singles(t) \/ x = z
      <4>1. x \in Singles(u) <=>
              /\ x # NO_ZONE
              /\ x = t[INODE][SINGLE] \/ \E j \in Index : x = u[Double(t)][j]
        BY <2>4, <3>1, SinglesAre
      <4>2. x \in Singles(t) <=>
              /\ x # NO_ZONE
              /\ x = t[INODE][SINGLE] \/ \E j \in Index : x = t[Double(t)][j]
        BY <2>4, SinglesAre
      <4>3. (\E j \in Index : x = u[Double(t)][j]) <=>
              x = z \/ \E j \in Index : j # i /\ x = t[Double(t)][j]
        BY <2>4, <3>2
      <4> QED
        BY <1>3, <3>3, <4>1, <4>2, <4>3
    <3> QED
      BY <2>4, <3>4
  <2> QED
    BY <1>1, <2>2, <2>3, <2>4, TableTypes DEF TableSlot
<1>11. Tables(u) = Tables(t) \cup {z}
  <2>1. b = INODE /\ i = DOUBLE => Double(t) = NO_ZONE
    BY DEF Double
  <2> QED
    BY <1>3, <1>9, <1>10, <2>1 DEF Tables
<1>12. \A c \in Tables(u) : \A j \in Domain(c) :
         u[c][j] = IF c = z THEN NO_ZONE ELSE IF c = b /\ j = i THEN z ELSE t[c][j]
  <2> TAKE c \in Tables(u)
  <2> TAKE j \in Domain(c)
  <2>1. CASE c = z
    BY <1>4, <2>1 DEF Creates
  <2>2. CASE c # z
    BY <1>8, <1>11, <2>2
  <2> QED
    BY <2>1, <2>2
<1>13. \A c \in Tables(t) : \A j \in Domain(c) : t[c][j] # z
  BY <1>3 DEF Named
<1>14. Apart(u)
  <2> SUFFICES ASSUME NEW c \in Tables(u), NEW d \in Tables(u),
                      NEW j \in Domain(c), NEW k \in Domain(d),
                      u[c][j] # NO_ZONE, u[c][j] = u[d][k]
               PROVE  c = d /\ j = k
    BY DEF Apart
  <2>1. c \in Tables(t) /\ d \in Tables(t)
    BY <1>11, <1>12
  <2>2. /\ u[c][j] = IF c = b /\ j = i THEN z ELSE t[c][j]
        /\ u[d][k] = IF d = b /\ k = i THEN z ELSE t[d][k]
    BY <1>8, <2>1
  <2>3. t[c][j] # z /\ t[d][k] # z
    BY <1>13, <2>1
  <2>4. CASE c = b /\ j = i
    BY <2>2, <2>3, <2>4
  <2>5. CASE d = b /\ k = i
    BY <2>2, <2>3, <2>5
  <2>6. CASE ~(c = b /\ j = i) /\ ~(d = b /\ k = i)
    <3>1. t[c][j] # NO_ZONE /\ t[c][j] = t[d][k]
      BY <2>2, <2>6
    <3> QED
      BY <1>1, <2>1, <3>1 DEF Apart
  <2> QED
    BY <2>4, <2>5, <2>6
<1>15. \A x \in MapZones : Named(u, x) <=> Named(t, x) \/ x = z
  <2> TAKE x \in MapZones
  <2>1. ASSUME Named(u, x) PROVE Named(t, x) \/ x = z
    <3>1. PICK c \in Tables(u) : \E j \in Domain(c) : u[c][j] = x
      BY <2>1 DEF Named
    <3>2. PICK j \in Domain(c) : u[c][j] = x
      BY <3>1
    <3>3. c \in Tables(t)
      BY <1>11, <1>12, <3>2
    <3> QED
      BY <1>8, <3>2, <3>3 DEF Named
  <2>2. ASSUME Named(t, x) PROVE Named(u, x)
    <3>1. PICK c \in Tables(t) : \E j \in Domain(c) : t[c][j] = x
      BY <2>2 DEF Named
    <3>2. PICK j \in Domain(c) : t[c][j] = x
      BY <3>1
    <3>3. u[c][j] = x
      BY <1>8, <3>2
    <3> QED
      BY <1>11, <3>3 DEF Named
  <2>3. Named(u, z)
    BY <1>2, <1>8, <1>11 DEF Named
  <2> QED
    BY <2>1, <2>2, <2>3
<1> QED
  BY <1>3, <1>9, <1>10, <1>11, <1>14, <1>15 DEF Sound, Creates, Grown

\* An indirect block is made.
LEMMA EnterTable ==
  ASSUME NEW t, NEW out, Sound(t, out), NEW b, NEW i, TableSlot(t, b, i), t[b][i] = NO_ZONE,
         NEW z \in out, NEW u, u = [t EXCEPT ![b][i] = z, ![z] = Empty]
  PROVE  Creates(t, u, b, i, z)
<1> USE ZoneMapAssumption
<1>1. TableType(t) /\ Apart(t) /\ out \subseteq MapZones
  BY DEF Sound
<1>2. b \in Tables(t) /\ i \in Domain(b) /\ b \in {INODE} \cup MapZones
  BY <1>1, Slots, TableTypes
<1>3. z \in MapZones /\ z # NO_ZONE /\ z # INODE /\ z \notin Tables(t) /\ ~Named(t, z)
  BY OutIsNoTable DEF Sound
<1>4. Empty \in [Index -> Entries] /\ Domain(z) = Index /\ b # z
  BY <1>2, <1>3 DEF Empty, Entries, Domain
<1>5. /\ \A c \in {INODE} \cup MapZones : c # b /\ c # z => u[c] = t[c]
      /\ u[z] = Empty
      /\ u[b] = [t[b] EXCEPT ![i] = z]
      /\ DOMAIN u = {INODE} \cup MapZones
  BY <1>1, <1>2, <1>3, <1>4 DEF TableType
<1>6. u[b][i] = z /\ \A j \in Domain(b) : j # i => u[b][j] = t[b][j]
  BY <1>1, <1>2, <1>5 DEF TableType
<1>7. TableType(u)
  <2>1. \A c \in {INODE} \cup MapZones :
          t[c] \in [Domain(c) -> Entries] /\ (c = INODE => Domain(c) = 0 .. DOUBLE)
          /\ (c # INODE => Domain(c) = Index)
    BY <1>1 DEF TableType, Domain
  <2>2. u[b] \in [Domain(b) -> Entries]
    BY <1>2, <1>3, <1>5, <2>1 DEF Entries
  <2>3. \A c \in {INODE} \cup MapZones : u[c] \in [Domain(c) -> Entries]
    BY <1>4, <1>5, <2>1, <2>2
  <2>4. u \in [{INODE} \cup MapZones -> [0 .. DOUBLE -> Entries] \cup [Index -> Entries]]
    <3>1. u = [c \in {INODE} \cup MapZones |-> u[c]]
      BY <1>1, <1>5 DEF TableType
    <3>2. \A c \in {INODE} \cup MapZones : u[c] \in [0 .. DOUBLE -> Entries] \cup [Index -> Entries]
      BY <2>1, <2>3
    <3> QED
      BY <3>1, <3>2
  <2> QED
    BY <2>3, <2>4 DEF TableType
<1>8. \A c \in Tables(t) : \A j \in Domain(c) : u[c][j] = IF c = b /\ j = i THEN z ELSE t[c][j]
  BY <1>1, <1>3, <1>5, <1>6, TableTypes
<1>9. \A j \in Index : u[z][j] = NO_ZONE
  BY <1>5 DEF Empty
<1> QED
  BY <1>7, <1>8, <1>9, Zenon DEF Creates

\* A zone entered at b, i is freed.
Frees(t, u, b, i) ==
  /\ TableType(u)
  /\ \A c \in Tables(t) \ {t[b][i]} : \A j \in Domain(c) :
       u[c][j] = IF c = b /\ j = i THEN NO_ZONE ELSE t[c][j]

LEMMA FreeZone ==
  ASSUME NEW t, TableType(t), Apart(t), NEW b \in Tables(t), NEW i \in Domain(b),
         t[b][i] # NO_ZONE, NEW u, u = [t EXCEPT ![b][i] = NO_ZONE, ![t[b][i]] = Garbage]
  PROVE  Frees(t, u, b, i)
<1> DEFINE z == t[b][i]
<1> USE ZoneMapAssumption
<1>1. b \in {INODE} \cup MapZones
  BY TableTypes
<1>2. z \in MapZones /\ z # INODE /\ Domain(z) = Index
  <2>1. z \in Entries
    BY <1>1 DEF TableType
  <2>2. z \in MapZones
    BY <2>1 DEF Entries
  <2> QED
    BY <2>2 DEF Domain
<1>3. b # z
  <2> SUFFICES ASSUME b = z PROVE FALSE
    OBVIOUS
  <2>1. PICK c \in Tables(t) : \E j \in Domain(c) : TableSlot(t, c, j) /\ t[c][j] = b
    BY <1>2, TableEntry
  <2>2. PICK j \in Domain(c) : TableSlot(t, c, j) /\ t[c][j] = b
    BY <2>1
  <2>3. c = b /\ j = i
    BY <2>2 DEF Apart
  <2>4. b = Double(t)
    BY <1>2, <2>2, <2>3 DEF TableSlot
  <2>5. INODE \in Tables(t) /\ DOUBLE \in Domain(INODE) /\ t[INODE][DOUBLE] = t[b][i]
    BY <2>4, TableTypes DEF Double
  <2> QED
    BY <1>2, <2>5 DEF Apart
<1>4. Garbage \in [Index -> Entries]
  BY DEF Entries
<1>5. /\ \A c \in {INODE} \cup MapZones : c # b /\ c # z => u[c] = t[c]
      /\ u[z] = Garbage
      /\ u[b] = [t[b] EXCEPT ![i] = NO_ZONE]
      /\ DOMAIN u = {INODE} \cup MapZones
  BY <1>1, <1>2, <1>3, <1>4 DEF TableType
<1>6. u[b][i] = NO_ZONE /\ \A j \in Domain(b) : j # i => u[b][j] = t[b][j]
  BY <1>1, <1>5 DEF TableType
<1>7. TableType(u)
  <2>1. \A c \in {INODE} \cup MapZones :
          t[c] \in [Domain(c) -> Entries] /\ (c = INODE => Domain(c) = 0 .. DOUBLE)
          /\ (c # INODE => Domain(c) = Index)
    BY DEF TableType, Domain
  <2>2. u[b] \in [Domain(b) -> Entries]
    BY <1>1, <1>5, <2>1 DEF Entries
  <2>3. \A c \in {INODE} \cup MapZones : u[c] \in [Domain(c) -> Entries]
    BY <1>2, <1>4, <1>5, <2>1, <2>2
  <2>4. u \in [{INODE} \cup MapZones -> [0 .. DOUBLE -> Entries] \cup [Index -> Entries]]
    <3>1. u = [c \in {INODE} \cup MapZones |-> u[c]]
      BY <1>5 DEF TableType
    <3>2. \A c \in {INODE} \cup MapZones : u[c] \in [0 .. DOUBLE -> Entries] \cup [Index -> Entries]
      BY <2>1, <2>3
    <3> QED
      BY <3>1, <3>2
  <2> QED
    BY <2>3, <2>4 DEF TableType
<1>8. \A c \in Tables(t) \ {z} : \A j \in Domain(c) :
        u[c][j] = IF c = b /\ j = i THEN NO_ZONE ELSE t[c][j]
  BY <1>5, <1>6, TableTypes
<1> QED
  BY <1>7, <1>8, Zenon DEF Frees

\* A zone with data is freed.
LEMMA FreeData ==
  ASSUME NEW t, NEW out, Sound(t, out), NEW b, NEW i, DataSlot(t, b, i), t[b][i] # NO_ZONE,
         NEW u, Frees(t, u, b, i)
  PROVE  /\ Sound(u, out \cup {t[b][i]}) /\ SameTables(t, u)
         /\ t[b][i] \notin Tables(t)
<1> DEFINE z == t[b][i]
<1> USE ZoneMapAssumption
<1>1. TableType(t) /\ Apart(t) /\ out \subseteq MapZones
  BY DEF Sound
<1>2. /\ b \in Tables(t) /\ i \in Domain(b) /\ b \in {INODE} \cup MapZones
      /\ ~TableSlot(t, b, i)
  BY <1>1, Slots, TableTypes
<1>3. z \in MapZones /\ z \notin Tables(t)
  BY <1>1, DataIsNoTable
<1>4. \A c \in Tables(t) : \A j \in Domain(c) :
        u[c][j] = IF c = b /\ j = i THEN NO_ZONE ELSE t[c][j]
  BY <1>3 DEF Frees
<1>5. SameTables(t, u)
  <2>1. Double(u) = Double(t) /\ u[INODE][SINGLE] = t[INODE][SINGLE]
    <3>1. INODE \in Tables(t) /\ SINGLE \in Domain(INODE) /\ DOUBLE \in Domain(INODE)
      BY <1>1, TableTypes
    <3>2. ~(b = INODE /\ i \in {SINGLE, DOUBLE})
      BY <1>2 DEF TableSlot
    <3> QED
      BY <1>4, <3>1, <3>2 DEF Double
  <2>2. ASSUME Double(t) # NO_ZONE PROVE u[Double(t)] = t[Double(t)]
    <3>1. Double(t) \in MapZones /\ Double(t) \in Tables(t) /\ Domain(Double(t)) = Index
      BY <1>1, <2>2, TableTypes DEF Entries
    <3>2. b # Double(t)
      BY <1>2, <2>2, <3>1 DEF TableSlot
    <3>3. \A j \in Index : u[Double(t)][j] = t[Double(t)][j]
      BY <1>4, <3>1, <3>2
    <3>4. t[Double(t)] \in [Index -> Entries] /\ u[Double(t)] \in [Index -> Entries]
      BY <1>1, <3>1 DEF TableType, Frees
    <3> QED
      BY <3>3, <3>4
  <2>3. Singles(u) = Singles(t)
    BY <2>1, <2>2 DEF Singles
  <2> QED
    BY <2>1, <2>2, <2>3 DEF SameTables, Tables
<1>6. Tables(u) = Tables(t)
  BY <1>5 DEF SameTables
<1>7. Apart(u)
  <2> SUFFICES ASSUME NEW c \in Tables(u), NEW d \in Tables(u),
                      NEW j \in Domain(c), NEW k \in Domain(d),
                      u[c][j] # NO_ZONE, u[c][j] = u[d][k]
               PROVE  c = d /\ j = k
    BY DEF Apart
  <2>1. t[c][j] # NO_ZONE /\ t[c][j] = t[d][k]
    BY <1>4, <1>6
  <2> QED
    BY <1>1, <1>6, <2>1 DEF Apart
<1>8. \A x \in MapZones : Named(u, x) <=> Named(t, x) /\ x # z
  <2> TAKE x \in MapZones
  <2>1. ASSUME Named(u, x) PROVE Named(t, x) /\ x # z
    <3>1. PICK c \in Tables(t) : \E j \in Domain(c) : u[c][j] = x
      BY <1>6, <2>1 DEF Named
    <3>2. PICK j \in Domain(c) : u[c][j] = x
      BY <3>1
    <3>3. t[c][j] = x /\ ~(c = b /\ j = i)
      BY <1>4, <3>2
    <3>4. x # z
      BY <1>1, <1>2, <3>3 DEF Apart
    <3> QED
      BY <3>3, <3>4 DEF Named
  <2>2. ASSUME Named(t, x), x # z PROVE Named(u, x)
    <3>1. PICK c \in Tables(t) : \E j \in Domain(c) : t[c][j] = x
      BY <2>2 DEF Named
    <3>2. PICK j \in Domain(c) : t[c][j] = x
      BY <3>1
    <3>3. u[c][j] = x
      BY <1>4, <2>2, <3>2
    <3> QED
      BY <1>6, <3>3 DEF Named
  <2> QED
    BY <2>1, <2>2
<1> QED
  BY <1>1, <1>3, <1>5, <1>7, <1>8 DEF Sound, Frees

\* An indirect block without an entry is freed.
Shrunk(t, u, b, i) ==
  /\ Tables(u) = Tables(t) \ {t[b][i]}
  /\ Singles(u) = Singles(t) \ {t[b][i]}
  /\ Double(u) = IF b = INODE /\ i = DOUBLE THEN NO_ZONE ELSE Double(t)
  /\ u[INODE][SINGLE] = IF b = INODE /\ i = SINGLE THEN NO_ZONE ELSE t[INODE][SINGLE]

LEMMA FreeTable ==
  ASSUME NEW t, NEW out, Sound(t, out), NEW b, NEW i, TableSlot(t, b, i), t[b][i] # NO_ZONE,
         t[t[b][i]] = Empty, NEW u, Frees(t, u, b, i)
  PROVE  Sound(u, out \cup {t[b][i]}) /\ Shrunk(t, u, b, i)
<1> DEFINE z == t[b][i]
<1> USE ZoneMapAssumption
<1>1. TableType(t) /\ Apart(t) /\ out \subseteq MapZones
  BY DEF Sound
<1>2. b \in Tables(t) /\ i \in Domain(b) /\ b \in {INODE} \cup MapZones
  BY <1>1, Slots, TableTypes
<1>3. z \in MapZones /\ z # INODE /\ Domain(z) = Index
  <2>1. z \in Entries
    BY <1>1, <1>2 DEF TableType
  <2>2. z \in MapZones
    BY <2>1 DEF Entries
  <2> QED
    BY <2>2 DEF Domain
<1>4. \A c \in Tables(t) \ {z} : \A j \in Domain(c) :
        u[c][j] = IF c = b /\ j = i THEN NO_ZONE ELSE t[c][j]
  BY DEF Frees
<1>5. \A j \in Index : t[z][j] = NO_ZONE
  BY DEF Empty
<1>6. /\ Double(u) = IF b = INODE /\ i = DOUBLE THEN NO_ZONE ELSE Double(t)
      /\ u[INODE][SINGLE] = IF b = INODE /\ i = SINGLE THEN NO_ZONE ELSE t[INODE][SINGLE]
  <2>1. INODE \in Tables(t) \ {z} /\ SINGLE \in Domain(INODE) /\ DOUBLE \in Domain(INODE)
    BY <1>1, <1>3, TableTypes
  <2>2. /\ u[INODE][DOUBLE] = IF INODE = b /\ DOUBLE = i THEN NO_ZONE ELSE t[INODE][DOUBLE]
        /\ u[INODE][SINGLE] = IF INODE = b /\ SINGLE = i THEN NO_ZONE ELSE t[INODE][SINGLE]
    BY <1>4, <2>1
  <2> QED
    BY <2>2 DEF Double
<1>7. ASSUME NEW x PROVE x \in Singles(u) <=> x \in Singles(t) \ {z}
  <2>1. SINGLE # DOUBLE
    BY DEF SINGLE, DOUBLE
  <2>2. CASE b = INODE /\ i = DOUBLE
    <3>1. Double(t) = z /\ Double(u) = NO_ZONE /\ u[INODE][SINGLE] = t[INODE][SINGLE]
      BY <1>6, <2>1, <2>2 DEF Double
    <3>2. x \in Singles(u) <=> x # NO_ZONE /\ x = t[INODE][SINGLE]
      BY <3>1, SinglesAre
    <3>3. x \in Singles(t) <=> x # NO_ZONE /\ x = t[INODE][SINGLE]
      <4>1. x \in Singles(t) <=>
              /\ x # NO_ZONE
              /\ x = t[INODE][SINGLE] \/ (Double(t) # NO_ZONE /\ \E j \in Index : x = t[Double(t)][j])
        BY SinglesAre
      <4> QED
        BY <1>5, <3>1, <4>1
    <3>4. z \notin Singles(t)
      BY <1>1, <3>1, Slots
    <3> QED
      BY <3>2, <3>3, <3>4
  <2>3. CASE b = INODE /\ i = SINGLE
    <3>1. Double(u) = Double(t) /\ t[INODE][SINGLE] = z /\ u[INODE][SINGLE] = NO_ZONE
      BY <1>6, <2>1, <2>3
    <3>2. Double(t) # NO_ZONE => \A j \in Index : u[Double(t)][j] = t[Double(t)][j] /\ t[Double(t)][j] # z
      <4>1. ASSUME Double(t) # NO_ZONE
            PROVE  /\ Double(t) \in Tables(t) /\ Double(t) # INODE /\ Domain(Double(t)) = Index
                   /\ Double(t) # z
        <5>1. z \in Singles(t)
          BY <1>3, <3>1, SinglesAre
        <5> QED
          BY <1>1, <4>1, <5>1, Slots, TableTypes DEF Entries
      <4>2. ASSUME Double(t) # NO_ZONE, NEW j \in Index
            PROVE  u[Double(t)][j] = t[Double(t)][j] /\ t[Double(t)][j] # z
        <5>1. u[Double(t)][j] = t[Double(t)][j]
          BY <1>4, <2>3, <4>1, <4>2
        <5>2. t[Double(t)][j] # z
          BY <1>1, <1>2, <2>3, <4>1, <4>2 DEF Apart
        <5> QED
          BY <5>1, <5>2
      <4> QED
        BY <4>2
    <3>3. x \in Singles(u) <=>
            x # NO_ZONE /\ Double(t) # NO_ZONE /\ \E j \in Index : x = u[Double(t)][j]
      BY <3>1, SinglesAre
    <3>4. x \in Singles(t) <=>
            /\ x # NO_ZONE
            /\ x = z \/ (Double(t) # NO_ZONE /\ \E j \in Index : x = t[Double(t)][j])
      BY <3>1, SinglesAre
    <3> QED
      BY <3>2, <3>3, <3>4
  <2>4. CASE b = Double(t) /\ b # NO_ZONE /\ i \in Index /\ b # INODE
    <3>1. Double(u) = Double(t) /\ u[INODE][SINGLE] = t[INODE][SINGLE]
      BY <1>6, <2>4
    <3>2. z \in Singles(t) /\ Double(t) # z
      <4>1. z \in Singles(t)
        BY <1>3, <2>4, SinglesAre
      <4> QED
        BY <1>1, <4>1, Slots
    <3>3. \A j \in Index : u[Double(t)][j] = IF j = i THEN NO_ZONE ELSE t[Double(t)][j]
      <4>1. Double(t) \in Tables(t) \ {z} /\ Domain(Double(t)) = Index
        BY <1>1, <2>4, <3>2, TableTypes DEF Entries
      <4> QED
        BY <1>4, <2>4, <4>1
    <3>4. t[INODE][SINGLE] # z /\ \A j \in Index : j # i => t[Double(t)][j] # z
      <4>1. /\ INODE \in Tables(t) /\ SINGLE \in Domain(INODE)
            /\ b \in Tables(t) /\ Domain(b) = Index
        BY <1>1, <2>4, TableTypes DEF Entries
      <4> QED
        BY <1>1, <1>2, <2>4, <4>1 DEF Apart
    <3>5. x \in Singles(u) <=>
            x # NO_ZONE /\ (x = t[INODE][SINGLE] \/ \E j \in Index : x = u[Double(t)][j])
      BY <2>4, <3>1, SinglesAre
    <3>6. x \in Singles(t) <=>
            x # NO_ZONE /\ (x = t[INODE][SINGLE] \/ \E j \in Index : x = t[Double(t)][j])
      BY <2>4, SinglesAre
    <3>7. x # NO_ZONE =>
            ((\E j \in Index : x = u[Double(t)][j]) <=> \E j \in Index : j # i /\ x = t[Double(t)][j])
      BY <3>3
    <3>8. t[Double(t)][i] = z
      BY <2>4
    <3> QED
      BY <3>4, <3>5, <3>6, <3>7, <3>8
  <2> QED
    BY <1>1, <2>2, <2>3, <2>4, TableTypes DEF TableSlot
<1>8. Singles(u) = Singles(t) \ {z}
  BY <1>7
<1>9. Tables(u) = Tables(t) \ {z}
  <2>1. CASE b = INODE /\ i = DOUBLE
    <3>1. Double(t) = z
      BY <2>1 DEF Double
    <3> QED
      BY <1>3, <1>6, <1>8, <2>1, <3>1 DEF Tables
  <2>2. CASE ~(b = INODE /\ i = DOUBLE)
    <3>1. Double(t) # z
      <4>1. INODE \in Tables(t) /\ DOUBLE \in Domain(INODE)
        BY <1>1, TableTypes
      <4> QED
        BY <1>1, <1>2, <2>2, <4>1 DEF Apart, Double
    <3> QED
      BY <1>3, <1>6, <1>8, <2>2, <3>1 DEF Tables
  <2> QED
    BY <2>1, <2>2
<1>10. Apart(u)
  <2> SUFFICES ASSUME NEW c \in Tables(u), NEW d \in Tables(u),
                      NEW j \in Domain(c), NEW k \in Domain(d),
                      u[c][j] # NO_ZONE, u[c][j] = u[d][k]
               PROVE  c = d /\ j = k
    BY DEF Apart
  <2>1. t[c][j] # NO_ZONE /\ t[c][j] = t[d][k]
    BY <1>4, <1>9
  <2> QED
    BY <1>1, <1>9, <2>1 DEF Apart
<1>11. \A x \in MapZones : Named(u, x) <=> Named(t, x) /\ x # z
  <2> TAKE x \in MapZones
  <2>1. ASSUME Named(u, x) PROVE Named(t, x) /\ x # z
    <3>1. PICK c \in Tables(u) : \E j \in Domain(c) : u[c][j] = x
      BY <2>1 DEF Named
    <3>2. PICK j \in Domain(c) : u[c][j] = x
      BY <3>1
    <3>3. c \in Tables(t) /\ t[c][j] = x /\ ~(c = b /\ j = i)
      BY <1>4, <1>9, <3>2
    <3>4. x # z
      BY <1>1, <1>2, <3>3 DEF Apart
    <3> QED
      BY <3>3, <3>4 DEF Named
  <2>2. ASSUME Named(t, x), x # z PROVE Named(u, x)
    <3>1. PICK c \in Tables(t) : \E j \in Domain(c) : t[c][j] = x
      BY <2>2 DEF Named
    <3>2. PICK j \in Domain(c) : t[c][j] = x
      BY <3>1
    <3>3. c # z
      BY <1>3, <1>5, <3>2
    <3>4. u[c][j] = x
      BY <1>4, <2>2, <3>2, <3>3
    <3> QED
      BY <1>9, <3>3, <3>4 DEF Named
  <2> QED
    BY <2>1, <2>2
<1> QED
  BY <1>1, <1>3, <1>6, <1>8, <1>9, <1>10, <1>11 DEF Sound, Frees, Shrunk

-----------------------------------------------------------------------------
(***************************************************************************)
(* What read_map finds                                                     *)
(***************************************************************************)
LEMMA ReadLeaf ==
  ASSUME NEW t, NEW p
  PROVE  read_map(t, p) = IF LeafTable(t, p) = NO_ZONE THEN NO_ZONE
                          ELSE t[LeafTable(t, p)][LeafIndex(p)]
<1> USE ZoneMapAssumption
<1>1. CASE Direct(p)
  BY <1>1 DEF read_map, LeafTable, LeafIndex
<1>2. CASE ~Direct(p) /\ Indirect(p)
  BY <1>2 DEF read_map, LeafTable, LeafIndex
<1>3. CASE ~Direct(p) /\ ~Indirect(p)
  BY <1>3 DEF read_map, LeafTable, LeafIndex, Double
<1> QED
  BY <1>1, <1>2, <1>3

\* The entry of a zone of the file is one for data.
LEMMA LeafIsData ==
  ASSUME NEW t, TableType(t), NEW p \in FileZones, LeafTable(t, p) # NO_ZONE
  PROVE  DataSlot(t, LeafTable(t, p), LeafIndex(p))
<1>1. CASE Direct(p)
  BY <1>1, Indices DEF LeafTable, LeafIndex, DataSlot
<1>2. CASE ~Direct(p) /\ Indirect(p)
  <2>1. LeafTable(t, p) \in Singles(t)
    BY <1>2, SinglesAre DEF LeafTable
  <2> QED
    BY <1>2, <2>1, Indices DEF LeafIndex, DataSlot
<1>3. CASE ~Direct(p) /\ ~Indirect(p)
  <2>1. Double(t) # NO_ZONE /\ LeafTable(t, p) = t[Double(t)][ind_ex(p)] /\ ind_ex(p) \in Index
    BY <1>3, Indices DEF LeafTable
  <2>2. LeafTable(t, p) \in Singles(t)
    BY <2>1, SinglesAre
  <2> QED
    BY <1>3, <2>2, Indices DEF LeafIndex, DataSlot
<1> QED
  BY <1>1, <1>2, <1>3

\* Two zones of the file have two entries.
LEMMA LeavesDiffer ==
  ASSUME NEW t, TableType(t), Apart(t), NEW p \in FileZones, NEW q \in FileZones, p # q,
         LeafTable(t, p) # NO_ZONE, LeafTable(t, p) = LeafTable(t, q)
  PROVE  LeafIndex(p) # LeafIndex(q)
<1> USE ZoneMapAssumption
<1>1. SINGLE # DOUBLE
  BY DEF SINGLE, DOUBLE
<1>2. ASSUME NEW r \in FileZones, LeafTable(t, r) # NO_ZONE PROVE Direct(r) <=> LeafTable(t, r) = INODE
  <2>1. ASSUME ~Direct(r), Indirect(r) PROVE LeafTable(t, r) \in Singles(t)
    BY <1>2, <2>1, SinglesAre DEF LeafTable
  <2>2. ASSUME ~Direct(r), ~Indirect(r) PROVE LeafTable(t, r) \in Singles(t)
    <3>1. Double(t) # NO_ZONE /\ LeafTable(t, r) = t[Double(t)][ind_ex(r)] /\ ind_ex(r) \in Index
      BY <1>2, <2>2, Indices DEF LeafTable
    <3> QED
      BY <1>2, <3>1, SinglesAre
  <2> QED
    BY <2>1, <2>2, TableTypes DEF LeafTable
<1>3. ASSUME NEW r \in FileZones, NEW s \in FileZones, ~Direct(r), ~Direct(s), Indirect(r), ~Indirect(s),
             LeafTable(t, r) # NO_ZONE
      PROVE  LeafTable(t, r) # LeafTable(t, s)
  <2>1. LeafTable(t, r) = t[INODE][SINGLE] /\ INODE \in Tables(t) /\ SINGLE \in Domain(INODE)
    BY <1>3, TableTypes DEF LeafTable
  <2>2. CASE Double(t) = NO_ZONE
    BY <1>3, <2>2 DEF LeafTable
  <2>3. CASE Double(t) # NO_ZONE
    <3>1. /\ LeafTable(t, s) = t[Double(t)][ind_ex(s)] /\ ind_ex(s) \in Index
          /\ Double(t) \in Tables(t) /\ Domain(Double(t)) = Index /\ Double(t) # INODE
      BY <1>3, <2>3, Indices, TableTypes DEF LeafTable, Entries
    <3> QED
      BY <1>3, <2>1, <3>1 DEF Apart
  <2> QED
    BY <2>2, <2>3
<1>4. CASE Direct(p) \/ Direct(q)
  BY <1>2, <1>4 DEF LeafIndex
<1>5. CASE ~Direct(p) /\ ~Direct(q)
  <2>1. Indirect(p) <=> Indirect(q)
    BY <1>3, <1>5
  <2>2. ~Indirect(p) => ind_ex(p) = ind_ex(q)
    <3> SUFFICES ASSUME ~Indirect(p) PROVE ind_ex(p) = ind_ex(q)
      OBVIOUS
    <3>1. /\ Double(t) # NO_ZONE
          /\ LeafTable(t, p) = t[Double(t)][ind_ex(p)] /\ ind_ex(p) \in Index
          /\ LeafTable(t, q) = t[Double(t)][ind_ex(q)] /\ ind_ex(q) \in Index
      BY <1>5, <2>1, Indices DEF LeafTable
    <3>2. Double(t) \in Tables(t) /\ Domain(Double(t)) = Index
      BY <3>1, TableTypes DEF Entries
    <3>3. t[Double(t)][ind_ex(p)] # NO_ZONE /\ t[Double(t)][ind_ex(p)] = t[Double(t)][ind_ex(q)]
      BY <3>1
    <3> QED
      BY <3>1, <3>2, <3>3 DEF Apart
  <2>3. ex(p) # ex(q)
    BY <1>5, <2>1, <2>2, IndicesDiffer
  <2> QED
    BY <1>5, <2>3 DEF LeafIndex
<1> QED
  BY <1>4, <1>5

SameReads(t, u) == \A q \in FileZones : read_map(u, q) = read_map(t, q)

\* A change of the entry of zone p of the file changes what is read there.
EntryBecomes(t, u, b, i, z) ==
  \A c \in Tables(t) : \A j \in Domain(c) : u[c][j] = IF c = b /\ j = i THEN z ELSE t[c][j]

ReadBecomes(t, u, p, z) ==
  \A q \in FileZones : read_map(u, q) = IF q = p THEN z ELSE read_map(t, q)

LEMMA DataReads ==
  ASSUME NEW t, TableType(t), Apart(t), NEW p \in FileZones, NEW z, NEW u, SameTables(t, u),
         LeafTable(t, p) # NO_ZONE, EntryBecomes(t, u, LeafTable(t, p), LeafIndex(p), z)
  PROVE  ReadBecomes(t, u, p, z)
<1> SUFFICES ASSUME NEW q \in FileZones
             PROVE  read_map(u, q) = IF q = p THEN z ELSE read_map(t, q)
  BY DEF ReadBecomes
<1>1. LeafTable(u, q) = LeafTable(t, q)
  BY DEF LeafTable, SameTables
<1>2. CASE LeafTable(t, q) = NO_ZONE
  BY <1>1, <1>2, ReadLeaf
<1>3. CASE LeafTable(t, q) # NO_ZONE
  <2>1. LeafTable(t, q) \in Tables(t) /\ LeafIndex(q) \in Domain(LeafTable(t, q))
    BY <1>3, LeafIsData, Slots
  <2>2. u[LeafTable(t, q)][LeafIndex(q)] =
          IF LeafTable(t, q) = LeafTable(t, p) /\ LeafIndex(q) = LeafIndex(p) THEN z
          ELSE t[LeafTable(t, q)][LeafIndex(q)]
    BY <2>1 DEF EntryBecomes
  <2>3. p # q => ~(LeafTable(t, q) = LeafTable(t, p) /\ LeafIndex(q) = LeafIndex(p))
    BY LeavesDiffer
  <2>4. /\ read_map(u, q) = u[LeafTable(t, q)][LeafIndex(q)]
        /\ read_map(t, q) = t[LeafTable(t, q)][LeafIndex(q)]
    BY <1>1, <1>3, ReadLeaf
  <2> QED
    BY <2>2, <2>3, <2>4
<1> QED
  BY <1>2, <1>3

\* A new indirect block changes nothing that is read.
LEMMA NewTableReads ==
  ASSUME NEW t, NEW out, Sound(t, out), NEW b, NEW i, TableSlot(t, b, i), t[b][i] = NO_ZONE,
         NEW z \in out, NEW u, Creates(t, u, b, i, z)
  PROVE  SameReads(t, u)
<1> USE ZoneMapAssumption
<1>1. TableType(t) /\ Apart(t) /\ z # NO_ZONE
  BY OutIsNoTable DEF Sound
<1>2. /\ Double(u) = IF b = INODE /\ i = DOUBLE THEN z ELSE Double(t)
      /\ u[INODE][SINGLE] = IF b = INODE /\ i = SINGLE THEN z ELSE t[INODE][SINGLE]
  <2>1. Grown(t, u, b, i, z)
    BY NewTable
  <2> QED
    BY <2>1 DEF Grown
<1>3. /\ \A j \in Index : u[z][j] = NO_ZONE
      /\ \A c \in Tables(t) : \A j \in Domain(c) :
            u[c][j] = IF c = b /\ j = i THEN z ELSE t[c][j]
  BY DEF Creates
<1>4. SUFFICES ASSUME NEW q \in FileZones PROVE read_map(u, q) = read_map(t, q)
  BY DEF SameReads
<1>5. ASSUME LeafTable(t, q) # NO_ZONE, LeafTable(u, q) = LeafTable(t, q)
      PROVE  read_map(u, q) = read_map(t, q)
  <2>1. DataSlot(t, LeafTable(t, q), LeafIndex(q))
    BY <1>1, <1>5, LeafIsData
  <2>2. /\ LeafTable(t, q) \in Tables(t) /\ LeafIndex(q) \in Domain(LeafTable(t, q))
        /\ ~(LeafTable(t, q) = b /\ LeafIndex(q) = i)
    BY <1>1, <2>1, Slots
  <2>3. u[LeafTable(t, q)][LeafIndex(q)] = t[LeafTable(t, q)][LeafIndex(q)]
    BY <1>3, <2>2
  <2> QED
    BY <1>5, <2>3, ReadLeaf
<1>6. ASSUME LeafTable(t, q) = NO_ZONE, LeafTable(u, q) = NO_ZONE \/ (LeafTable(u, q) = z /\ LeafIndex(q) \in Index)
      PROVE  read_map(u, q) = read_map(t, q)
  BY <1>3, <1>6, ReadLeaf
<1>7. CASE Direct(q)
  BY <1>5, <1>7 DEF LeafTable
<1>8. CASE ~Direct(q) /\ Indirect(q)
  <2>1. LeafIndex(q) \in Index
    BY <1>8, Indices DEF LeafIndex
  <2>2. LeafTable(t, q) = t[INODE][SINGLE] /\ LeafTable(u, q) = u[INODE][SINGLE]
    BY <1>8 DEF LeafTable
  <2> QED
    BY <1>2, <1>5, <1>6, <2>1, <2>2
<1>9. CASE ~Direct(q) /\ ~Indirect(q)
  <2>1. LeafIndex(q) \in Index /\ ind_ex(q) \in Index
    BY <1>9, Indices DEF LeafIndex
  <2>2. /\ LeafTable(t, q) = IF Double(t) = NO_ZONE THEN NO_ZONE ELSE t[Double(t)][ind_ex(q)]
        /\ LeafTable(u, q) = IF Double(u) = NO_ZONE THEN NO_ZONE ELSE u[Double(u)][ind_ex(q)]
    BY <1>9 DEF LeafTable
  <2>3. CASE b = INODE /\ i = DOUBLE
    <3>1. Double(t) = NO_ZONE /\ Double(u) = z
      BY <1>2, <2>3 DEF Double
    <3> QED
      BY <1>1, <1>3, <1>6, <2>1, <2>2, <3>1
  <2>4. CASE ~(b = INODE /\ i = DOUBLE) /\ Double(t) = NO_ZONE
    BY <1>2, <1>6, <2>2, <2>4
  <2>5. CASE ~(b = INODE /\ i = DOUBLE) /\ Double(t) # NO_ZONE
    <3>1. Double(u) = Double(t) /\ Double(t) \in Tables(t) /\ Domain(Double(t)) = Index
      BY <1>1, <1>2, <2>5, TableTypes DEF Entries
    <3>2. LeafTable(u, q) = IF Double(t) = b /\ ind_ex(q) = i THEN z ELSE LeafTable(t, q)
      BY <1>3, <2>1, <2>2, <2>5, <3>1
    <3>3. Double(t) = b /\ ind_ex(q) = i => LeafTable(t, q) = NO_ZONE
      BY <2>2, <2>5
    <3> QED
      BY <1>5, <1>6, <2>1, <3>2, <3>3
  <2> QED
    BY <2>3, <2>4, <2>5
<1> QED
  BY <1>7, <1>8, <1>9

\* Nor does it to free one without an entry.
LEMMA FreeTableReads ==
  ASSUME NEW t, NEW out, Sound(t, out), NEW b, NEW i, TableSlot(t, b, i), t[b][i] # NO_ZONE,
         t[t[b][i]] = Empty, NEW u, Frees(t, u, b, i)
  PROVE  SameReads(t, u)
<1> DEFINE z == t[b][i]
<1> USE ZoneMapAssumption
<1>1. TableType(t) /\ Apart(t) /\ b \in Tables(t) /\ i \in Domain(b)
  BY Slots DEF Sound
<1>2. /\ Double(u) = IF b = INODE /\ i = DOUBLE THEN NO_ZONE ELSE Double(t)
      /\ u[INODE][SINGLE] = IF b = INODE /\ i = SINGLE THEN NO_ZONE ELSE t[INODE][SINGLE]
  <2>1. Shrunk(t, u, b, i)
    BY FreeTable
  <2> QED
    BY <2>1 DEF Shrunk
<1>3. /\ \A j \in Index : t[z][j] = NO_ZONE
      /\ \A c \in Tables(t) \ {z} : \A j \in Domain(c) :
            u[c][j] = IF c = b /\ j = i THEN NO_ZONE ELSE t[c][j]
  BY DEF Frees, Empty
<1>4. SUFFICES ASSUME NEW q \in FileZones PROVE read_map(u, q) = read_map(t, q)
  BY DEF SameReads
<1>5. ASSUME LeafTable(t, q) # NO_ZONE, LeafTable(t, q) # z, LeafTable(u, q) = LeafTable(t, q)
      PROVE  read_map(u, q) = read_map(t, q)
  <2>1. DataSlot(t, LeafTable(t, q), LeafIndex(q))
    BY <1>1, <1>5, LeafIsData
  <2>2. /\ LeafTable(t, q) \in Tables(t) /\ LeafIndex(q) \in Domain(LeafTable(t, q))
        /\ ~(LeafTable(t, q) = b /\ LeafIndex(q) = i)
    BY <1>1, <2>1, Slots
  <2>3. u[LeafTable(t, q)][LeafIndex(q)] = t[LeafTable(t, q)][LeafIndex(q)]
    BY <1>3, <1>5, <2>2
  <2> QED
    BY <1>5, <2>3, ReadLeaf
<1>6. ASSUME LeafTable(u, q) = NO_ZONE, LeafTable(t, q) = NO_ZONE \/ (LeafTable(t, q) = z /\ LeafIndex(q) \in Index)
      PROVE  read_map(u, q) = read_map(t, q)
  BY <1>3, <1>6, ReadLeaf
<1>7. INODE \in Tables(t) /\ SINGLE \in Domain(INODE) /\ DOUBLE \in Domain(INODE) /\ z # INODE
  <2>1. z \in Entries
    BY <1>1, TableTypes DEF TableType
  <2> QED
    BY <1>1, <2>1, TableTypes DEF Entries
<1>8. CASE Direct(q)
  BY <1>5, <1>7, <1>8 DEF LeafTable
<1>9. CASE ~Direct(q) /\ Indirect(q)
  <2>1. LeafIndex(q) \in Index
    BY <1>9, Indices DEF LeafIndex
  <2>2. LeafTable(t, q) = t[INODE][SINGLE] /\ LeafTable(u, q) = u[INODE][SINGLE]
    BY <1>9 DEF LeafTable
  <2>3. CASE b = INODE /\ i = SINGLE
    BY <1>2, <1>6, <2>1, <2>2, <2>3
  <2>4. CASE ~(b = INODE /\ i = SINGLE)
    <3>1. LeafTable(t, q) # z
      BY <1>1, <1>7, <2>2, <2>4 DEF Apart
    <3>2. LeafTable(u, q) = LeafTable(t, q)
      BY <1>2, <2>2, <2>4
    <3> QED
      BY <1>5, <1>6, <3>1, <3>2
  <2> QED
    BY <2>3, <2>4
<1>10. CASE ~Direct(q) /\ ~Indirect(q)
  <2>1. LeafIndex(q) \in Index /\ ind_ex(q) \in Index
    BY <1>10, Indices DEF LeafIndex
  <2>2. /\ LeafTable(t, q) = IF Double(t) = NO_ZONE THEN NO_ZONE ELSE t[Double(t)][ind_ex(q)]
        /\ LeafTable(u, q) = IF Double(u) = NO_ZONE THEN NO_ZONE ELSE u[Double(u)][ind_ex(q)]
    BY <1>10 DEF LeafTable
  <2>3. CASE b = INODE /\ i = DOUBLE
    <3>1. Double(t) = z /\ Double(u) = NO_ZONE
      BY <1>2, <2>3 DEF Double
    <3> QED
      BY <1>3, <1>6, <2>1, <2>2, <3>1
  <2>4. CASE ~(b = INODE /\ i = DOUBLE) /\ Double(t) = NO_ZONE
    BY <1>2, <1>6, <2>2, <2>4
  <2>5. CASE ~(b = INODE /\ i = DOUBLE) /\ Double(t) # NO_ZONE
    <3>1. Double(u) = Double(t) /\ Double(t) \in Tables(t) /\ Domain(Double(t)) = Index
      BY <1>1, <1>2, <2>5, TableTypes DEF Entries
    <3>2. Double(t) # z
      BY <1>1, <1>7, <2>5 DEF Apart, Double
    <3>3. LeafTable(u, q) = IF Double(t) = b /\ ind_ex(q) = i THEN NO_ZONE ELSE LeafTable(t, q)
      BY <1>3, <2>1, <2>2, <2>5, <3>1, <3>2
    <3>4. CASE Double(t) = b /\ ind_ex(q) = i
      BY <1>6, <2>1, <2>2, <2>5, <3>3, <3>4
    <3>5. CASE ~(Double(t) = b /\ ind_ex(q) = i)
      <4>1. t[b][i] # NO_ZONE /\ LeafTable(t, q) = t[Double(t)][ind_ex(q)]
        BY <2>2, <2>5
      <4>2. LeafTable(t, q) # z
        BY <1>1, <2>1, <3>1, <3>5, <4>1 DEF Apart
      <4> QED
        BY <1>5, <1>6, <3>3, <3>5, <4>2
    <3> QED
      BY <3>4, <3>5
  <2> QED
    BY <2>3, <2>4, <2>5
<1> QED
  BY <1>8, <1>9, <1>10

-----------------------------------------------------------------------------
(***************************************************************************)
(* The operations on a device                                              *)
(***************************************************************************)
\* A device where the zones in held are neither free nor entered.
IsDevice(d, held) ==
  /\ d = [zone |-> d.zone, unused |-> d.unused]
  /\ held \cap d.unused = {}
  /\ Sound(d.zone, d.unused \cup held)

\* The blocks that name data do so, but perhaps those in X.
SinglesFull(t, X) == \A c \in Singles(t) \ X : t[c] # Empty

\* Tables with the same entries are the same.
LEMMA SameEntries ==
  ASSUME NEW t, TableType(t), NEW u, TableType(u), NEW c \in {INODE} \cup MapZones,
         \A j \in Domain(c) : u[c][j] = t[c][j]
  PROVE  u[c] = t[c]
<1>1. t[c] \in [Domain(c) -> Entries] /\ u[c] \in [Domain(c) -> Entries]
  BY DEF TableType
<1> QED
  BY <1>1

CreatedPost(d, e, b, i, held) ==
  LET y == e.zone[b][i]
  IN  /\ IsDevice(e, held) /\ SameReads(d.zone, e.zone)
      /\ Double(e.zone) = IF b = INODE /\ i = DOUBLE THEN y ELSE Double(d.zone)
      /\ e.zone[INODE][SINGLE] = IF b = INODE /\ i = SINGLE THEN y ELSE d.zone[INODE][SINGLE]
      /\ \A X : SinglesFull(d.zone, X) => SinglesFull(e.zone, X \cup {y})
      /\ y = NO_ZONE \/ d.zone[b][i] # NO_ZONE => e = d
      /\ i = SINGLE /\ b = INODE /\ Double(d.zone) # NO_ZONE => e.zone[Double(d.zone)] = d.zone[Double(d.zone)]

LEMMA CreatedIsMade ==
  ASSUME NEW d, NEW held, IsDevice(d, held), NEW b, NEW i, TableSlot(d.zone, b, i)
  PROVE  CreatedPost(d, Created(d, b, i), b, i, held)
<1> DEFINE e == Created(d, b, i)
           t == d.zone
           u == e.zone
<1> USE ZoneMapAssumption
<1>1. TableType(t) /\ Apart(t) /\ Sound(t, d.unused \cup held) /\ SINGLE # DOUBLE
  BY DEF IsDevice, Sound, SINGLE, DOUBLE
<1>2. CASE t[b][i] # NO_ZONE \/ d.unused = {}
  <2>1. e = d
    BY <1>2 DEF Created
  <2>2. SameReads(d.zone, d.zone) /\ \A X, y : SinglesFull(d.zone, X) => SinglesFull(d.zone, X \cup {y})
    BY DEF SameReads, SinglesFull
  <2>3. /\ b = INODE /\ i = DOUBLE => Double(t) = t[b][i]
        /\ b = INODE /\ i = SINGLE => t[INODE][SINGLE] = t[b][i]
    BY DEF Double
  <2> QED
    BY <2>1, <2>2, <2>3 DEF CreatedPost
<1>3. CASE t[b][i] = NO_ZONE /\ d.unused # {}
  <2> DEFINE z == alloc_zone(d.unused)
             out == d.unused \cup held
  <2>1. z \in d.unused
    BY <1>3 DEF alloc_zone
  <2>2. /\ e = [zone |-> [t EXCEPT ![b][i] = z, ![z] = Empty], unused |-> d.unused \ {z}]
        /\ u = [t EXCEPT ![b][i] = z, ![z] = Empty] /\ e.unused = d.unused \ {z}
    BY <1>3 DEF Created
  <2>3. z \in out
    BY <2>1
  <2> HIDE DEF z, e
  <2>4. Creates(t, u, b, i, z)
    BY <1>1, <1>3, <2>2, <2>3, EnterTable
  <2> HIDE DEF u
  <2>5. Sound(u, out \ {z}) /\ Grown(t, u, b, i, z)
    BY <1>1, <1>3, <2>3, <2>4, NewTable
  <2>6. SameReads(t, u)
    BY <1>1, <1>3, <2>3, <2>4, NewTableReads
  <2>7. z \in MapZones /\ z # NO_ZONE /\ z # INODE /\ z \notin Tables(t)
    BY <1>1, <2>3, OutIsNoTable
  <2>8. b \in Tables(t) /\ i \in Domain(b) /\ u[b][i] = z
    BY <1>1, <2>4, Slots DEF Creates
  <2>9. e.unused \cup held = out \ {z} /\ held \cap e.unused = {} /\ u = e.zone
    BY <2>1, <2>2 DEF IsDevice, u
  <2>10. IsDevice(e, held)
    <3>1. e = [zone |-> e.zone, unused |-> e.unused]
      BY <2>2
    <3> QED
      BY <2>5, <2>9, <3>1 DEF IsDevice
  <2>11. /\ Double(u) = IF b = INODE /\ i = DOUBLE THEN z ELSE Double(t)
         /\ u[INODE][SINGLE] = IF b = INODE /\ i = SINGLE THEN z ELSE t[INODE][SINGLE]
         /\ Singles(u) \subseteq Singles(t) \cup {z}
    BY <2>5 DEF Grown
  <2>12. ASSUME NEW c \in Tables(t), c # b PROVE u[c] = t[c]
    <3>1. c \in {INODE} \cup MapZones
      BY <1>1, TableTypes
    <3>2. \A j \in Domain(c) : u[c][j] = t[c][j]
      BY <2>4, <2>12 DEF Creates
    <3> QED
      BY <1>1, <2>4, <3>1, <3>2, SameEntries DEF Creates
  <2>13. ASSUME NEW X, SinglesFull(t, X) PROVE SinglesFull(u, X \cup {z})
    <3>1. b \notin Singles(t)
      BY <1>1, Slots, TableTypes DEF TableSlot
    <3>2. Singles(t) \subseteq Tables(t)
      BY <1>1, TableTypes
    <3> QED
      BY <2>11, <2>12, <2>13, <3>1, <3>2 DEF SinglesFull
  <2>14. i = SINGLE /\ b = INODE /\ Double(t) # NO_ZONE => u[Double(t)] = t[Double(t)]
    BY <1>1, <2>12, TableTypes
  <2>15. u = e.zone
    BY DEF u
  <2>16. /\ SameReads(d.zone, e.zone) /\ e.zone[b][i] = z
         /\ Double(e.zone) = IF b = INODE /\ i = DOUBLE THEN z ELSE Double(d.zone)
         /\ e.zone[INODE][SINGLE] = IF b = INODE /\ i = SINGLE THEN z ELSE d.zone[INODE][SINGLE]
    BY <2>6, <2>8, <2>11, <2>15
  <2>17. \A X : SinglesFull(d.zone, X) => SinglesFull(e.zone, X \cup {z})
    BY <2>13, <2>15
  <2>18. i = SINGLE /\ b = INODE /\ Double(d.zone) # NO_ZONE => e.zone[Double(d.zone)] = d.zone[Double(d.zone)]
    BY <2>14, <2>15
  <2>19. z # NO_ZONE /\ d.zone[b][i] = NO_ZONE
    BY <1>3, <2>7
  <2>20. CreatedPost(d, e, b, i, held)
    BY <2>10, <2>16, <2>17, <2>18, <2>19 DEF CreatedPost
  <2> QED
    BY <2>20 DEF e
<1> QED
  BY <1>2, <1>3

FreedPost(d, e, b, i, held) ==
  /\ IsDevice(e, held) /\ SameTables(d.zone, e.zone)
  /\ EntryBecomes(d.zone, e.zone, b, i, NO_ZONE)
  /\ SinglesFull(d.zone, {}) => SinglesFull(e.zone, {b})

LEMMA DataIsFreed ==
  ASSUME NEW d, NEW held, IsDevice(d, held), NEW b, NEW i, DataSlot(d.zone, b, i)
  PROVE  FreedPost(d, Freed(d, b, i), b, i, held)
<1> DEFINE e == Freed(d, b, i)
           t == d.zone
           u == e.zone
           z == t[b][i]
           out == d.unused \cup held
<1> USE ZoneMapAssumption
<1>1. TableType(t) /\ Apart(t) /\ Sound(t, out)
  BY DEF IsDevice, Sound
<1>2. b \in Tables(t) /\ i \in Domain(b)
  BY <1>1, Slots
<1>3. CASE z = NO_ZONE
  <2>1. e = d
    BY <1>3 DEF Freed
  <2> QED
    BY <1>3, <2>1 DEF FreedPost, SameTables, SinglesFull, EntryBecomes
<1>4. CASE z # NO_ZONE
  <2>1. /\ e = [zone |-> [t EXCEPT ![b][i] = NO_ZONE, ![t[b][i]] = Garbage], unused |-> d.unused \cup {z}]
        /\ u = [t EXCEPT ![b][i] = NO_ZONE, ![t[b][i]] = Garbage] /\ e.unused = d.unused \cup {z}
    BY <1>4 DEF Freed
  <2> HIDE DEF e
  <2>2. Frees(t, u, b, i)
    BY <1>1, <1>2, <1>4, <2>1, FreeZone
  <2> HIDE DEF u
  <2>3. Sound(u, out \cup {z}) /\ SameTables(t, u) /\ z \notin Tables(t)
    BY <1>1, <1>4, <2>2, FreeData
  <2>4. z \notin out
    <3>1. Named(t, z)
      BY <1>2 DEF Named
    <3> QED
      BY <1>1, <3>1 DEF Sound
  <2>5. IsDevice(e, held)
    <3>1. e = [zone |-> e.zone, unused |-> e.unused] /\ e.zone = u
      BY <2>1 DEF u
    <3>2. e.unused \cup held = out \cup {z} /\ held \cap e.unused = {}
      BY <2>1, <2>4 DEF IsDevice
    <3> QED
      BY <2>3, <3>1, <3>2 DEF IsDevice
  <2>6. \A c \in Tables(t) : \A j \in Domain(c) : u[c][j] = IF c = b /\ j = i THEN NO_ZONE ELSE t[c][j]
    BY <2>2, <2>3 DEF Frees
  <2>7. ASSUME SinglesFull(t, {}) PROVE SinglesFull(u, {b})
    <3> SUFFICES ASSUME NEW c \in Singles(u), c # b PROVE u[c] # Empty
      BY DEF SinglesFull
    <3>1. c \in Singles(t) /\ c \in Tables(t) /\ c \in MapZones /\ t[c] # Empty
      BY <1>1, <2>3, <2>7, TableTypes DEF SameTables, SinglesFull
    <3>2. \A j \in Domain(c) : u[c][j] = t[c][j]
      BY <2>6, <3>1
    <3>3. u[c] = t[c]
      BY <1>1, <2>2, <3>1, <3>2, SameEntries DEF Frees
    <3> QED
      BY <3>1, <3>3
  <2>8. u = e.zone
    BY DEF u
  <2>9. SameTables(d.zone, e.zone) /\ (SinglesFull(d.zone, {}) => SinglesFull(e.zone, {b}))
    BY <2>3, <2>7, <2>8
  <2>10. EntryBecomes(d.zone, e.zone, b, i, NO_ZONE)
    BY <2>6, <2>8 DEF EntryBecomes
  <2>11. FreedPost(d, e, b, i, held)
    BY <2>5, <2>9, <2>10 DEF FreedPost
  <2> QED
    BY <2>11 DEF e
<1> QED
  BY <1>3, <1>4

PrunedPost(d, e, b, i, held) ==
  /\ IsDevice(e, held) /\ SameReads(d.zone, e.zone)
  /\ SinglesFull(d.zone, {d.zone[b][i]}) => SinglesFull(e.zone, {})
  /\ ~(b = INODE /\ i = DOUBLE) => Double(e.zone) = Double(d.zone)
  /\ b = INODE /\ i = DOUBLE /\ Double(e.zone) # NO_ZONE => e.zone[Double(e.zone)] # Empty
  /\ b = INODE /\ i = SINGLE /\ Double(d.zone) # NO_ZONE => e.zone[Double(d.zone)] = d.zone[Double(d.zone)]

LEMMA EmptyIsPruned ==
  ASSUME NEW d, NEW held, IsDevice(d, held), NEW b, NEW i, TableSlot(d.zone, b, i)
  PROVE  PrunedPost(d, Pruned(d, b, i), b, i, held)
<1> DEFINE e == Pruned(d, b, i)
           t == d.zone
           u == e.zone
           z == t[b][i]
           out == d.unused \cup held
<1> USE ZoneMapAssumption
<1>1. TableType(t) /\ Apart(t) /\ Sound(t, out) /\ SINGLE # DOUBLE
  BY DEF IsDevice, Sound, SINGLE, DOUBLE
<1>2. b \in Tables(t) /\ i \in Domain(b)
  BY <1>1, Slots
<1>3. CASE z = NO_ZONE \/ t[z] # Empty
  <2>1. e = d
    BY <1>3 DEF Pruned, empty_indir
  <2>2. SinglesFull(t, {z}) => SinglesFull(t, {})
    BY <1>3 DEF SinglesFull, Singles
  <2>3. b = INODE /\ i = DOUBLE /\ Double(t) # NO_ZONE => t[Double(t)] # Empty
    BY <1>3 DEF Double
  <2> QED
    BY <2>1, <2>2, <2>3 DEF PrunedPost, SameReads
<1>4. CASE z # NO_ZONE /\ t[z] = Empty
  <2>1. /\ e = [zone |-> [t EXCEPT ![b][i] = NO_ZONE, ![t[b][i]] = Garbage], unused |-> d.unused \cup {z}]
        /\ u = [t EXCEPT ![b][i] = NO_ZONE, ![t[b][i]] = Garbage] /\ e.unused = d.unused \cup {z}
    BY <1>4 DEF Pruned, Freed, empty_indir
  <2> HIDE DEF e
  <2>2. Frees(t, u, b, i)
    BY <1>1, <1>2, <1>4, <2>1, FreeZone
  <2> HIDE DEF u
  <2>3. Sound(u, out \cup {z}) /\ Shrunk(t, u, b, i)
    BY <1>1, <1>4, <2>2, FreeTable
  <2>4. SameReads(t, u)
    BY <1>1, <1>4, <2>2, FreeTableReads
  <2>5. z \notin out
    <3>1. Named(t, z)
      BY <1>2 DEF Named
    <3> QED
      BY <1>1, <3>1 DEF Sound
  <2>6. IsDevice(e, held)
    <3>1. e = [zone |-> e.zone, unused |-> e.unused] /\ e.zone = u
      BY <2>1 DEF u
    <3>2. e.unused \cup held = out \cup {z} /\ held \cap e.unused = {}
      BY <2>1, <2>5 DEF IsDevice
    <3> QED
      BY <2>3, <3>1, <3>2 DEF IsDevice
  <2>7. ASSUME NEW c \in Tables(t), c # b, c # z PROVE u[c] = t[c]
    <3>1. c \in {INODE} \cup MapZones
      BY <1>1, TableTypes
    <3>2. \A j \in Domain(c) : u[c][j] = t[c][j]
      BY <2>2, <2>7 DEF Frees
    <3> QED
      BY <1>1, <2>2, <3>1, <3>2, SameEntries DEF Frees
  <2>8. ASSUME SinglesFull(t, {z}) PROVE SinglesFull(u, {})
    <3> SUFFICES ASSUME NEW c \in Singles(u) PROVE u[c] # Empty
      BY DEF SinglesFull
    <3>1. c \in Singles(t) /\ c # z /\ t[c] # Empty
      BY <2>3, <2>8 DEF Shrunk, SinglesFull
    <3>2. c # b /\ c \in Tables(t)
      BY <1>1, <3>1, Slots, TableTypes DEF TableSlot
    <3> QED
      BY <2>7, <3>1, <3>2
  <2>9. Double(u) = IF b = INODE /\ i = DOUBLE THEN NO_ZONE ELSE Double(t)
    BY <2>3 DEF Shrunk
  <2>10. ASSUME b = INODE, i = SINGLE, Double(t) # NO_ZONE PROVE u[Double(t)] = t[Double(t)]
    <3>1. Double(t) \in Tables(t) /\ Double(t) # INODE
      BY <1>1, <2>10, TableTypes
    <3>2. INODE \in Tables(t) /\ DOUBLE \in Domain(INODE)
      BY <1>1, TableTypes
    <3>3. Double(t) # z
      BY <1>1, <1>2, <2>10, <3>2 DEF Apart, Double
    <3> QED
      BY <2>7, <2>10, <3>1, <3>3
  <2>11. u = e.zone
    BY DEF u
  <2>12. /\ SameReads(d.zone, e.zone)
         /\ SinglesFull(d.zone, {d.zone[b][i]}) => SinglesFull(e.zone, {})
         /\ Double(e.zone) = IF b = INODE /\ i = DOUBLE THEN NO_ZONE ELSE Double(d.zone)
    BY <2>4, <2>8, <2>9, <2>11
  <2>13. b = INODE /\ i = SINGLE /\ Double(d.zone) # NO_ZONE => e.zone[Double(d.zone)] = d.zone[Double(d.zone)]
    BY <2>10, <2>11
  <2>14. PrunedPost(d, e, b, i, held)
    BY <2>6, <2>12, <2>13 DEF PrunedPost
  <2> QED
    BY <2>14 DEF e
<1> QED
  BY <1>3, <1>4

\* Data are entered at p, in the table for it.
FilledPost(d, e, p, z) ==
  /\ IsDevice(e, {}) /\ SameTables(d.zone, e.zone) /\ SinglesFull(e.zone, {})
  /\ ReadBecomes(d.zone, e.zone, p, z)

LEMMA LeafIsFilled ==
  ASSUME NEW d, NEW z, IsDevice(d, {z}), NEW p \in FileZones, LeafTable(d.zone, p) # NO_ZONE,
         read_map(d.zone, p) = NO_ZONE, SinglesFull(d.zone, {LeafTable(d.zone, p)})
  PROVE  FilledPost(d, wr_indir(d, LeafTable(d.zone, p), LeafIndex(p), z), p, z)
<1> DEFINE b == LeafTable(d.zone, p)
           i == LeafIndex(p)
           e == wr_indir(d, b, i, z)
           t == d.zone
           u == e.zone
           out == d.unused \cup {z}
<1> USE ZoneMapAssumption
<1>1. TableType(t) /\ Apart(t) /\ Sound(t, out) /\ z \in out
  BY DEF IsDevice, Sound
<1>2. DataSlot(t, b, i) /\ b \in Tables(t) /\ i \in Domain(b) /\ b \in {INODE} \cup MapZones
  BY <1>1, LeafIsData, Slots, TableTypes
<1>3. t[b][i] = NO_ZONE
  BY ReadLeaf
<1>4. e = [zone |-> [t EXCEPT ![b][i] = z], unused |-> d.unused]
  BY DEF wr_indir, IsDevice
<1>5. u = [t EXCEPT ![b][i] = z] /\ e.unused = d.unused
  BY <1>4
<1> HIDE DEF b, i, e
<1>6. Sound(u, out \ {z}) /\ SameTables(t, u)
  BY <1>1, <1>2, <1>3, <1>5, EnterData
<1>7. \A c \in Tables(t) : \A j \in Domain(c) : u[c][j] = IF c = b /\ j = i THEN z ELSE t[c][j]
  <2>1. \A c \in Tables(t) : c \in DOMAIN t /\ Domain(c) = DOMAIN t[c]
    BY <1>1, TableTypes DEF TableType
  <2> QED
    BY <1>5, <2>1
<1> HIDE DEF u
<1>8. u = e.zone /\ z # NO_ZONE
  BY <1>1, OutIsNoTable DEF u
<1>9. IsDevice(e, {})
  <2>1. e = [zone |-> e.zone, unused |-> e.unused]
    BY <1>4
  <2>2. out \ {z} = e.unused \cup {}
    BY <1>5 DEF IsDevice
  <2> QED
    BY <1>6, <1>8, <2>1, <2>2 DEF IsDevice
<1>10. ReadBecomes(t, u, p, z)
  <2>1. EntryBecomes(t, u, LeafTable(t, p), LeafIndex(p), z)
    BY <1>7 DEF EntryBecomes, b, i
  <2> QED
    BY <1>1, <1>6, <2>1, DataReads
<1>11. SinglesFull(u, {})
  <2> SUFFICES ASSUME NEW c \in Singles(u) PROVE u[c] # Empty
    BY DEF SinglesFull
  <2>1. c \in Singles(t) /\ c \in Tables(t) /\ c \in MapZones /\ Domain(c) = Index
    BY <1>1, <1>6, TableTypes DEF SameTables
  <2>2. CASE c = b
    <3>1. u[c][i] = z /\ i \in Index
      BY <1>2, <1>7, <2>1, <2>2
    <3> QED
      BY <1>8, <3>1 DEF Empty
  <2>3. CASE c # b
    <3>1. \A j \in Domain(c) : u[c][j] = t[c][j]
      BY <1>7, <2>1, <2>3
    <3>2. u[c] = t[c]
      BY <1>1, <1>6, <2>1, <3>1, SameEntries DEF Sound
    <3>3. t[c] # Empty
      BY <2>1, <2>3 DEF SinglesFull, b
    <3> QED
      BY <3>2, <3>3
  <2> QED
    BY <2>2, <2>3
<1>12. FilledPost(d, e, p, z)
  BY <1>6, <1>8, <1>9, <1>10, <1>11 DEF FilledPost
<1> QED
  BY <1>12 DEF e, b, i

\* write_map enters z at p, and the double indirect block has an entry then if it
\* had one or is new; or it is refused a zone, and nothing of the file changes.
DoubleFull(t) == Double(t) # NO_ZONE => t[Double(t)] # Empty

Done(d, e, p, z) ==
  /\ IsDevice(e, {}) /\ SinglesFull(e.zone, {})
  /\ DoubleFull(d.zone) => DoubleFull(e.zone)
  /\ ReadBecomes(d.zone, e.zone, p, z)

Refused(d, e, z) ==
  IsDevice(e, {z}) /\ SinglesFull(e.zone, {}) /\ SameReads(d.zone, e.zone)

LEMMA ZoneIsEntered ==
  ASSUME NEW d, NEW z, IsDevice(d, {z}), NEW p \in FileZones, read_map(d.zone, p) = NO_ZONE,
         SinglesFull(d.zone, {})
  PROVE  Done(d, Entered(d, p, z), p, z) \/ Refused(d, Entered(d, p, z), z)
<1> DEFINE t == d.zone
           e == Entered(d, p, z)
<1> USE ZoneMapAssumption
<1>1. TableType(t) /\ Apart(t) /\ SINGLE # DOUBLE
  BY DEF IsDevice, Sound, SINGLE, DOUBLE
<1>2. CASE Direct(p)
  <2>1. LeafTable(t, p) = INODE /\ LeafIndex(p) = p /\ e = wr_indir(d, INODE, p, z)
    BY <1>2 DEF LeafTable, LeafIndex, Entered
  <2>2. SinglesFull(t, {LeafTable(t, p)}) /\ LeafTable(t, p) # NO_ZONE
    BY <2>1 DEF SinglesFull
  <2>3. FilledPost(d, e, p, z)
    <3>1. FilledPost(d, wr_indir(d, LeafTable(t, p), LeafIndex(p), z), p, z)
      BY <2>2, LeafIsFilled
    <3> QED
      BY <2>1, <3>1
  <2> HIDE DEF e
  <2>4. Done(d, e, p, z)
    BY <2>3 DEF FilledPost, Done, DoubleFull, SameTables
  <2> QED
    BY <2>4 DEF e
<1>3. CASE ~Direct(p) /\ Indirect(p)
  <2> DEFINE m == Created(d, INODE, SINGLE)
             w == m.zone
  <2>1. TableSlot(t, INODE, SINGLE)
    BY DEF TableSlot
  <2>2. e = IF m.zone[INODE][SINGLE] = NO_ZONE THEN m
            ELSE wr_indir(m, m.zone[INODE][SINGLE], ex(p), z)
    BY <1>3 DEF Entered
  <2>3. CreatedPost(d, m, INODE, SINGLE, {z})
    BY <2>1, CreatedIsMade
  <2> HIDE DEF m, e
  <2>4. /\ IsDevice(m, {z}) /\ SameReads(t, m.zone) /\ Double(m.zone) = Double(t)
        /\ SinglesFull(m.zone, {m.zone[INODE][SINGLE]})
        /\ m.zone[INODE][SINGLE] = NO_ZONE => m = d
        /\ Double(t) # NO_ZONE => m.zone[Double(t)] = t[Double(t)]
    <3>1. SinglesFull(m.zone, {} \cup {m.zone[INODE][SINGLE]})
      BY <2>3 DEF CreatedPost
    <3> QED
      BY <1>1, <2>3, <3>1 DEF CreatedPost
  <2>5. LeafTable(m.zone, p) = m.zone[INODE][SINGLE] /\ LeafIndex(p) = ex(p)
    BY <1>3 DEF LeafTable, LeafIndex
  <2>6. CASE m.zone[INODE][SINGLE] = NO_ZONE
    BY <2>2, <2>4, <2>6 DEF Refused, SameReads, e
  <2>7. CASE m.zone[INODE][SINGLE] # NO_ZONE
    <3>1. FilledPost(m, e, p, z)
      <4>1. FilledPost(m, wr_indir(m, LeafTable(m.zone, p), LeafIndex(p), z), p, z)
        BY <2>4, <2>5, <2>7, LeafIsFilled DEF SameReads
      <4> QED
        BY <2>2, <2>5, <2>7, <4>1
    <3>2. Done(d, e, p, z)
      BY <2>4, <3>1 DEF FilledPost, Done, DoubleFull, SameTables, SameReads, ReadBecomes
    <3> QED
      BY <3>2 DEF e
  <2> QED
    BY <2>6, <2>7
<1>4. CASE ~Direct(p) /\ ~Indirect(p)
  <2> DEFINE m == Created(d, INODE, DOUBLE)
             z2 == m.zone[INODE][DOUBLE]
             n == Created(m, z2, ind_ex(p))
             z1 == n.zone[z2][ind_ex(p)]
  <2>1. TableSlot(t, INODE, DOUBLE) /\ ind_ex(p) \in Index
    BY <1>4, Indices DEF TableSlot
  <2>2. e = IF z2 = NO_ZONE THEN m ELSE IF z1 = NO_ZONE THEN n ELSE wr_indir(n, z1, ex(p), z)
    BY <1>4 DEF Entered
  <2>3. CreatedPost(d, m, INODE, DOUBLE, {z})
    BY <2>1, CreatedIsMade
  <2> HIDE DEF m, e
  <2>4. /\ IsDevice(m, {z}) /\ SameReads(t, m.zone) /\ Double(m.zone) = z2
        /\ SinglesFull(m.zone, {z2})
        /\ z2 = NO_ZONE => m = d
    <3>1. SinglesFull(m.zone, {} \cup {m.zone[INODE][DOUBLE]})
      BY <2>3 DEF CreatedPost
    <3> QED
      BY <2>3, <3>1 DEF CreatedPost
  <2>5. SinglesFull(m.zone, {})
    BY <2>4, Slots DEF SinglesFull, IsDevice, Sound
  <2>6. CASE z2 = NO_ZONE
    BY <2>2, <2>4, <2>5, <2>6 DEF Refused, e
  <2>7. CASE z2 # NO_ZONE
    <3>1. TableSlot(m.zone, z2, ind_ex(p))
      BY <2>1, <2>4, <2>7 DEF TableSlot
    <3>2. CreatedPost(m, n, z2, ind_ex(p), {z})
      BY <2>4, <3>1, CreatedIsMade
    <3>3. z2 # INODE
      BY <2>4, TableTypes DEF IsDevice, Sound
    <3> HIDE DEF n, z2
    <3>4. /\ IsDevice(n, {z}) /\ SameReads(t, n.zone) /\ Double(n.zone) = z2
          /\ SinglesFull(n.zone, {z1})
          /\ z1 = NO_ZONE => n = m
      <4>1. SinglesFull(n.zone, {} \cup {n.zone[z2][ind_ex(p)]})
        BY <2>5, <3>2 DEF CreatedPost
      <4>2. SameReads(m.zone, n.zone)
        BY <3>2 DEF CreatedPost
      <4>3. SameReads(t, n.zone)
        BY <2>4, <4>2 DEF SameReads
      <4> QED
        BY <2>4, <3>2, <3>3, <4>1, <4>3 DEF CreatedPost
    <3>5. LeafTable(n.zone, p) = z1 /\ LeafIndex(p) = ex(p)
      BY <1>4, <2>7, <3>4 DEF LeafTable, LeafIndex
    <3>6. CASE z1 = NO_ZONE
      <4>1. e = n /\ n = m
        BY <2>2, <2>7, <3>4, <3>6
      <4>2. Refused(d, e, z)
        BY <2>5, <3>4, <4>1 DEF Refused
      <4> QED
        BY <4>2 DEF e
    <3>7. CASE z1 # NO_ZONE
      <4>1. FilledPost(n, e, p, z)
        <5>1. FilledPost(n, wr_indir(n, LeafTable(n.zone, p), LeafIndex(p), z), p, z)
          BY <3>4, <3>5, <3>7, LeafIsFilled DEF SameReads
        <5> QED
          BY <2>2, <2>7, <3>5, <3>7, <5>1
      <4>2. Double(e.zone) = z2 /\ e.zone[z2] = n.zone[z2]
        BY <2>7, <3>4, <4>1 DEF FilledPost, SameTables
      <4>3. DoubleFull(e.zone)
        BY <2>1, <3>7, <4>2 DEF DoubleFull, Empty
      <4>4. Done(d, e, p, z)
        BY <3>4, <4>1, <4>3 DEF FilledPost, Done, SameReads, ReadBecomes
      <4> QED
        BY <4>4 DEF e
    <3> QED
      BY <3>6, <3>7
  <2> QED
    BY <2>6, <2>7
<1> QED
  BY <1>2, <1>3, <1>4

\* The entry of p is cleared.
ClearedPost(d, e, p) ==
  /\ IsDevice(e, {}) /\ SameTables(d.zone, e.zone) /\ ReadBecomes(d.zone, e.zone, p, NO_ZONE)
  /\ SinglesFull(e.zone, {LeafTable(d.zone, p)})

LEMMA LeafIsFreed ==
  ASSUME NEW d, IsDevice(d, {}), SinglesFull(d.zone, {}), NEW p \in FileZones
  PROVE  ClearedPost(d, IF LeafTable(d.zone, p) = NO_ZONE THEN d
                        ELSE Freed(d, LeafTable(d.zone, p), LeafIndex(p)), p)
<1> DEFINE b == LeafTable(d.zone, p)
<1>1. TableType(d.zone) /\ Apart(d.zone)
  BY DEF IsDevice, Sound
<1>2. CASE b = NO_ZONE
  <2>1. read_map(d.zone, p) = NO_ZONE
    BY <1>2, ReadLeaf
  <2>2. ClearedPost(d, d, p)
    BY <2>1 DEF ClearedPost, SameTables, ReadBecomes, SinglesFull
  <2> QED
    BY <1>2, <2>2
<1>3. CASE b # NO_ZONE
  <2> DEFINE e == Freed(d, b, LeafIndex(p))
  <2>1. DataSlot(d.zone, b, LeafIndex(p))
    BY <1>1, <1>3, LeafIsData
  <2>2. FreedPost(d, e, b, LeafIndex(p), {})
    BY <2>1, DataIsFreed
  <2> HIDE DEF e
  <2>3. ReadBecomes(d.zone, e.zone, p, NO_ZONE)
    BY <1>1, <1>3, <2>2, DataReads DEF FreedPost
  <2>4. ClearedPost(d, e, p)
    BY <2>2, <2>3 DEF FreedPost, ClearedPost
  <2> QED
    BY <1>3, <2>4 DEF e
<1> QED
  BY <1>2, <1>3

\* write_map with WMAP_FREE leaves a hole at p and the rest of the file as it was.
LEMMA ZoneIsRemoved ==
  ASSUME NEW d, IsDevice(d, {}), SinglesFull(d.zone, {}), NEW p \in FileZones
  PROVE  Done(d, Removed(d, p), p, NO_ZONE)
<1> DEFINE t == d.zone
           e == Removed(d, p)
           m == IF LeafTable(t, p) = NO_ZONE THEN d ELSE Freed(d, LeafTable(t, p), LeafIndex(p))
<1> USE ZoneMapAssumption
<1>1. TableType(t) /\ SINGLE # DOUBLE
  BY DEF IsDevice, Sound, SINGLE, DOUBLE
<1>2. ClearedPost(d, m, p)
  BY LeafIsFreed
<1>3. CASE Direct(p)
  <2>1. LeafTable(t, p) = INODE /\ e = m
    BY <1>3 DEF LeafTable, LeafIndex, Removed
  <2> HIDE DEF m, e
  <2>2. SinglesFull(m.zone, {})
    <3>1. INODE \notin Singles(m.zone)
      BY <1>2, TableTypes DEF ClearedPost, IsDevice, Sound
    <3> QED
      BY <1>2, <2>1, <3>1 DEF ClearedPost, SinglesFull
  <2>3. Done(d, e, p, NO_ZONE)
    BY <1>2, <2>1, <2>2 DEF ClearedPost, Done, DoubleFull, SameTables
  <2> QED
    BY <2>3 DEF e
<1>4. CASE ~Direct(p) /\ Indirect(p)
  <2>1. LeafTable(t, p) = t[INODE][SINGLE] /\ LeafIndex(p) = ex(p)
    BY <1>4 DEF LeafTable, LeafIndex
  <2>2. e = Pruned(m, INODE, SINGLE)
    BY <1>4, <2>1 DEF Removed
  <2> HIDE DEF m, e
  <2>3. IsDevice(m, {}) /\ TableSlot(m.zone, INODE, SINGLE)
    BY <1>2 DEF ClearedPost, TableSlot
  <2>4. PrunedPost(m, e, INODE, SINGLE, {})
    BY <2>2, <2>3, EmptyIsPruned
  <2>5. SinglesFull(m.zone, {m.zone[INODE][SINGLE]})
    BY <1>2, <2>1 DEF ClearedPost, SameTables
  <2>6. DoubleFull(d.zone) => DoubleFull(e.zone)
    BY <1>1, <1>2, <2>4 DEF ClearedPost, SameTables, PrunedPost, DoubleFull
  <2>7. Done(d, e, p, NO_ZONE)
    BY <1>2, <2>4, <2>5, <2>6 DEF ClearedPost, PrunedPost, Done, SameReads, ReadBecomes
  <2> QED
    BY <2>7 DEF e
<1>5. CASE ~Direct(p) /\ ~Indirect(p)
  <2> DEFINE z2 == Double(t)
  <2>1. LeafTable(t, p) = (IF z2 = NO_ZONE THEN NO_ZONE ELSE t[z2][ind_ex(p)]) /\ LeafIndex(p) = ex(p)
    BY <1>5 DEF LeafTable, LeafIndex
  <2>2. ind_ex(p) \in Index
    BY <1>5, Indices
  <2>3. CASE z2 = NO_ZONE
    <3>1. e = d /\ m = d
      BY <1>5, <2>1, <2>3 DEF Removed, Double
    <3> HIDE DEF m, e
    <3>2. Done(d, d, p, NO_ZONE)
      BY <1>2, <3>1 DEF ClearedPost, Done
    <3> QED
      BY <3>1, <3>2 DEF e
  <2>4. CASE z2 # NO_ZONE
    <3> DEFINE n == Pruned(m, z2, ind_ex(p))
    <3>1. e = Pruned(n, INODE, DOUBLE)
      BY <1>5, <2>1, <2>4 DEF Removed, Double
    <3> HIDE DEF m, e
    <3>2. /\ IsDevice(m, {}) /\ Double(m.zone) = z2 /\ z2 # INODE
          /\ TableSlot(m.zone, z2, ind_ex(p)) /\ m.zone[z2] = t[z2]
      BY <1>1, <1>2, <2>2, <2>4, TableTypes DEF ClearedPost, TableSlot, SameTables
    <3>3. PrunedPost(m, n, z2, ind_ex(p), {})
      BY <3>2, EmptyIsPruned
    <3> HIDE DEF n
    <3>4. SinglesFull(n.zone, {})
      <4>1. SinglesFull(m.zone, {m.zone[z2][ind_ex(p)]})
        BY <1>2, <2>1, <2>4, <3>2 DEF ClearedPost
      <4> QED
        BY <3>3, <4>1 DEF PrunedPost
    <3>5. IsDevice(n, {}) /\ TableSlot(n.zone, INODE, DOUBLE)
      BY <3>3 DEF PrunedPost, TableSlot
    <3>6. PrunedPost(n, e, INODE, DOUBLE, {})
      BY <3>1, <3>5, EmptyIsPruned
    <3>7. SinglesFull(e.zone, {}) /\ DoubleFull(e.zone)
      <4>1. SinglesFull(n.zone, {n.zone[INODE][DOUBLE]})
        BY <3>4 DEF SinglesFull
      <4> QED
        BY <3>6, <4>1 DEF PrunedPost, DoubleFull
    <3>8. Done(d, e, p, NO_ZONE)
      BY <1>2, <3>3, <3>6, <3>7 DEF ClearedPost, PrunedPost, Done, SameReads, ReadBecomes
    <3> QED
      BY <3>8 DEF e
  <2> QED
    BY <2>3, <2>4
<1> QED
  BY <1>3, <1>4, <1>5

-----------------------------------------------------------------------------
(***************************************************************************)
(* The steps                                                               *)
(***************************************************************************)
ZmInv ==
  /\ refused \in BOOLEAN
  /\ IsDevice(Device, {}) /\ SinglesFull(zone, {})
  /\ refused \/ DoubleFull(zone)

LEMMA InitInv ==
  ASSUME ZmInit
  PROVE  ZmInv /\ \A p \in FileZones : read_map(zone, p) = NO_ZONE
<1> USE ZoneMapAssumption
<1>1. \A i \in Domain(INODE) : zone[INODE][i] = NO_ZONE
  BY DEF ZmInit, Domain
<1>2. SINGLE \in Domain(INODE) /\ DOUBLE \in Domain(INODE) /\ 0 .. i_ndzones - 1 \subseteq Domain(INODE)
  BY DEF SINGLE, DOUBLE, Domain
<1>3. Double(zone) = NO_ZONE /\ zone[INODE][SINGLE] = NO_ZONE
  BY <1>1, <1>2 DEF Double
<1>4. Singles(zone) = {} /\ Tables(zone) = {INODE}
  BY <1>3 DEF Singles, Tables
<1>5. TableType(zone)
  <2>1. /\ [i \in 0 .. DOUBLE |-> NO_ZONE] \in [0 .. DOUBLE -> Entries]
        /\ Garbage \in [Index -> Entries]
    BY DEF Entries
  <2>2. \A b \in {INODE} \cup MapZones :
          zone[b] = IF b = INODE THEN [i \in 0 .. DOUBLE |-> NO_ZONE] ELSE Garbage
    BY DEF ZmInit
  <2>3. \A b \in {INODE} \cup MapZones : zone[b] \in [Domain(b) -> Entries]
    BY <2>1, <2>2 DEF Domain
  <2>4. zone \in [{INODE} \cup MapZones -> [0 .. DOUBLE -> Entries] \cup [Index -> Entries]]
    BY <2>1 DEF ZmInit
  <2> QED
    BY <2>3, <2>4 DEF TableType
<1>6. Apart(zone) /\ \A z \in MapZones : ~Named(zone, z)
  BY <1>1, <1>4 DEF Apart, Named
<1>7. unused = MapZones /\ refused = FALSE
  BY DEF ZmInit
<1>8. IsDevice(Device, {})
  BY <1>5, <1>6, <1>7 DEF IsDevice, Device, Sound
<1>9. ASSUME NEW p \in FileZones PROVE read_map(zone, p) = NO_ZONE
  BY <1>1, <1>2, <1>3, Indices DEF read_map, Double
<1> QED
  BY <1>3, <1>4, <1>7, <1>8, <1>9 DEF ZmInv, SinglesFull, DoubleFull

\* A step of the zone map, in terms of what read_map finds.
MapStep ==
  \/ SameReads(zone, zone')
  \/ \E p \in FileZones : \E z \in unused :
       read_map(zone, p) = NO_ZONE /\ ReadBecomes(zone, zone', p, z)
  \/ \E p \in FileZones : ReadBecomes(zone, zone', p, NO_ZONE)

LEMMA NewBlockInv ==
  ASSUME ZmInv, NEW p \in FileZones, new_block(p)
  PROVE  ZmInv' /\ MapStep
<1> USE ZoneMapAssumption
<1> DEFINE z == alloc_zone(unused)
           c == [Device EXCEPT !.unused = @ \ {z}]
           e == Entered(c, p, z)
<1>1. z \in unused
  BY DEF new_block, alloc_zone
<1>2. /\ read_map(zone, p) = NO_ZONE
      /\ \/ read_map(e.zone, p) = z /\ Becomes(e) /\ refused' = refused
         \/ /\ read_map(e.zone, p) # z
            /\ Becomes([e EXCEPT !.unused = @ \cup {z}]) /\ refused' = TRUE
  BY DEF new_block
<1>3. c = [zone |-> zone, unused |-> unused \ {z}]
  BY DEF Device
<1> HIDE DEF z
<1>4. IsDevice(c, {z}) /\ z # NO_ZONE
  <2>1. Sound(zone, unused)
    BY DEF ZmInv, IsDevice, Device
  <2>2. (unused \ {z}) \cup {z} = unused
    BY <1>1
  <2>3. z # NO_ZONE
    BY <1>1, <2>1, OutIsNoTable
  <2>4. c.zone = zone /\ c.unused = unused \ {z} /\ c = [zone |-> c.zone, unused |-> c.unused]
    BY <1>3
  <2> HIDE DEF c
  <2> QED
    BY <2>1, <2>2, <2>3, <2>4 DEF IsDevice
<1>5. c.zone = zone /\ SinglesFull(zone, {}) /\ (refused \/ DoubleFull(zone)) /\ refused \in BOOLEAN
  BY <1>3 DEF ZmInv
<1> HIDE DEF c
<1>6. Done(c, e, p, z) \/ Refused(c, e, z)
  BY <1>2, <1>4, <1>5, ZoneIsEntered
<1> HIDE DEF e
<1>7. CASE Done(c, e, p, z)
  <2>1. read_map(e.zone, p) = z
    BY <1>7 DEF Done, ReadBecomes
  <2>2. zone' = e.zone /\ unused' = e.unused /\ refused' = refused
    BY <1>2, <2>1 DEF Becomes
  <2>3. IsDevice(Device', {})
    BY <1>7, <2>2 DEF Done, IsDevice, Device
  <2> QED
    BY <1>1, <1>2, <1>5, <1>7, <2>2, <2>3 DEF Done, ZmInv, MapStep, SinglesFull, DoubleFull
<1>8. CASE Refused(c, e, z)
  <2>1. read_map(e.zone, p) # z
    BY <1>2, <1>4, <1>5, <1>8 DEF Refused, SameReads
  <2>2. zone' = e.zone /\ unused' = e.unused \cup {z} /\ refused' = TRUE
    <3>1. e = [zone |-> e.zone, unused |-> e.unused]
      BY <1>8 DEF Refused, IsDevice
    <3> QED
      BY <1>2, <2>1, <3>1 DEF Becomes
  <2>3. IsDevice(Device', {})
    BY <1>8, <2>2 DEF Refused, IsDevice, Device
  <2>4. SinglesFull(zone', {}) /\ SameReads(zone, zone')
    BY <1>5, <1>8, <2>2 DEF Refused
  <2> QED
    BY <2>2, <2>3, <2>4 DEF ZmInv, MapStep, SinglesFull, DoubleFull
<1> QED
  BY <1>6, <1>7, <1>8

LEMMA FreeZoneInv ==
  ASSUME ZmInv, NEW p \in FileZones, free_zone(p)
  PROVE  ZmInv' /\ MapStep
<1> DEFINE e == Removed(Device, p)
<1>1. IsDevice(Device, {}) /\ Device.zone = zone /\ SinglesFull(zone, {})
  BY DEF ZmInv, Device
<1>2. Done(Device, e, p, NO_ZONE)
  BY <1>1, ZoneIsRemoved
<1>3. zone' = e.zone /\ unused' = e.unused /\ refused' = refused
  BY DEF free_zone, Becomes
<1> HIDE DEF e
<1>4. IsDevice(Device', {})
  BY <1>2, <1>3 DEF Done, IsDevice, Device
<1>5. SinglesFull(zone', {}) /\ (DoubleFull(zone) => DoubleFull(zone')) /\ ReadBecomes(zone, zone', p, NO_ZONE)
  BY <1>1, <1>2, <1>3 DEF Done
<1> QED
  BY <1>3, <1>4, <1>5 DEF ZmInv, MapStep, SinglesFull, DoubleFull

LEMMA StepInv ==
  ASSUME ZmInv, [ZmNext]_zmVars
  PROVE  ZmInv' /\ MapStep
<1>1. CASE ZmNext
  BY <1>1, NewBlockInv, FreeZoneInv DEF ZmNext
<1>2. CASE UNCHANGED zmVars
  BY <1>2 DEF zmVars, ZmInv, Device, MapStep, SameReads, SinglesFull, DoubleFull
<1> QED
  BY <1>1, <1>2

LEMMA InvAlways == ZmSpec => []ZmInv
<1>1. ZmInit => ZmInv
  BY InitInv
<1>2. ZmInv /\ [ZmNext]_zmVars => ZmInv'
  BY StepInv
<1> QED
  BY <1>1, <1>2, PTL DEF ZmSpec

-----------------------------------------------------------------------------
(***************************************************************************)
(* What follows for the zones                                              *)
(***************************************************************************)
\* The types, whatever the sizes of the tables.
THEOREM ZmTypeCorrect == ZmSpec => []ZmTypeOK
<1>1. ZmInv => ZmTypeOK
  BY DEF ZmInv, IsDevice, Device, Sound, TableType, ZmTypeOK
<1> QED
  BY <1>1, InvAlways, PTL

\* No zone is lost, and none has two places: write_map and new_block, when they
\* are refused a zone too, and WMAP_FREE with the indirect blocks it frees.
THEOREM ZmZonesOnce == ZmSpec => []EachZoneOnce
<1>1. ZmInv => EachZoneOnce
  <2> SUFFICES ASSUME ZmInv, NEW z \in MapZones
               PROVE  LET named == {e \in UNION {{b} \X Domain(b) : b \in Tables(zone)} : zone[e[1]][e[2]] = z}
                      IN  IF z \in unused THEN named = {} ELSE \E e \in named : named = {e}
    BY DEF EachZoneOnce
  <2> USE ZoneMapAssumption
  <2> DEFINE named == {e \in UNION {{b} \X Domain(b) : b \in Tables(zone)} : zone[e[1]][e[2]] = z}
  <2>1. Apart(zone) /\ (Named(zone, z) <=> z \notin unused) /\ z # NO_ZONE
    BY DEF ZmInv, IsDevice, Device, Sound
  <2>2. ASSUME NEW e \in named
        PROVE  /\ e[1] \in Tables(zone) /\ e[2] \in Domain(e[1]) /\ zone[e[1]][e[2]] = z
               /\ e = <<e[1], e[2]>>
    OBVIOUS
  <2>3. CASE z \in unused
    BY <2>1, <2>2, <2>3 DEF Named
  <2>4. CASE z \notin unused
    <3>1. PICK b \in Tables(zone) : \E i \in Domain(b) : zone[b][i] = z
      BY <2>1, <2>4 DEF Named
    <3>2. PICK i \in Domain(b) : zone[b][i] = z
      BY <3>1
    <3>3. <<b, i>> \in named
      BY <3>2
    <3>4. ASSUME NEW e \in named PROVE e = <<b, i>>
      BY <2>1, <2>2, <3>2 DEF Apart
    <3>5. named = {<<b, i>>}
      BY <3>3, <3>4
    <3> QED
      BY <2>4, <3>3, <3>5
  <2> QED
    BY <2>3, <2>4
<1> QED
  BY <1>1, InvAlways, PTL

\* Indirect blocks go with their last entry, as write_map frees them.
THEOREM ZmNoneKept == ZmSpec => []NoneKeptEmpty
<1>1. ZmInv => NoneKeptEmpty
  BY DEF ZmInv, NoneKeptEmpty, SinglesFull, DoubleFull
<1> QED
  BY <1>1, InvAlways, PTL

\* The zone map does what FileMap promises: read_map and write_map, through
\* however many indirect blocks.
THEOREM ZmRefinement == ZmSpec => ZoneMapImplementsFileMap
<1> DEFINE map == [p \in FileZones |-> read_map(zone, p)]
<1>1. ZmInit => ZM!FmInit
  BY InitInv DEF ZM!FmInit
<1>2. ZmInv /\ [ZmNext]_zmVars => [map' # map /\ ZM!FmNext]_map
  <2> SUFFICES ASSUME ZmInv, [ZmNext]_zmVars, map' # map PROVE ZM!FmNext
    OBVIOUS
  <2> USE ZoneMapAssumption
  <2>1. MapStep
    BY StepInv
  <2>2. map' = [p \in FileZones |-> read_map(zone', p)]
    OBVIOUS
  <2>3. ~SameReads(zone, zone')
    BY <2>2 DEF SameReads
  <2>4. CASE \E p \in FileZones : \E z \in unused :
               read_map(zone, p) = NO_ZONE /\ ReadBecomes(zone, zone', p, z)
    <3>1. PICK p \in FileZones : \E z \in unused :
                 read_map(zone, p) = NO_ZONE /\ ReadBecomes(zone, zone', p, z)
      BY <2>4
    <3>2. PICK z \in unused : read_map(zone, p) = NO_ZONE /\ ReadBecomes(zone, zone', p, z)
      BY <3>1
    <3>3. Sound(zone, unused)
      BY DEF ZmInv, IsDevice, Device
    <3>4. ASSUME NEW q \in FileZones PROVE map[q] # z
      <4>1. z # NO_ZONE /\ z \in MapZones /\ ~Named(zone, z)
        BY <3>3, OutIsNoTable DEF Sound
      <4>2. LeafTable(zone, q) # NO_ZONE =>
              LeafTable(zone, q) \in Tables(zone) /\ LeafIndex(q) \in Domain(LeafTable(zone, q))
        BY <3>3, LeafIsData, Slots DEF Sound
      <4> QED
        BY <4>1, <4>2, ReadLeaf DEF Named
    <3>5. z \in MapZones \ {map[q] : q \in FileZones}
      BY <3>3, <3>4 DEF Sound
    <3>6. map[p] = NO_ZONE
      BY <3>2
    <3>7. map' = [map EXCEPT ![p] = z]
      BY <2>2, <3>2 DEF ReadBecomes
    <3> QED
      BY <3>5, <3>6, <3>7 DEF ZM!FmNext
  <2>5. CASE \E p \in FileZones : ReadBecomes(zone, zone', p, NO_ZONE)
    <3>1. PICK p \in FileZones : ReadBecomes(zone, zone', p, NO_ZONE)
      BY <2>5
    <3>2. map' = [map EXCEPT ![p] = NO_ZONE]
      BY <2>2, <3>1 DEF ReadBecomes
    <3>3. map[p] # NO_ZONE
      BY <2>2, <3>1, <3>2 DEF ReadBecomes
    <3> QED
      BY <3>2, <3>3 DEF ZM!FmNext
  <2> QED
    BY <2>1, <2>3, <2>4, <2>5 DEF MapStep
<1> QED
  BY <1>1, <1>2, InvAlways, PTL DEF ZmSpec, ZoneMapImplementsFileMap, ZM!FmSpec

-----------------------------------------------------------------------------
(***************************************************************************)
(* Mfs                                                                     *)
(***************************************************************************)
\* What Mfs does with the side it looks at is what that side does by itself.
LEMMA MfsComposes == MfsSpec => ImSpec /\ ZmSpec
<1>1. MfsInit => ImInit /\ ZmInit
  BY DEF MfsInit
<1>2. [MfsNext]_mfsVars => [ImNext]_imVars /\ [ZmNext]_zmVars
  BY DEF MfsNext, mfsVars, InBytes, InZones
<1> QED
  BY <1>1, <1>2, PTL DEF MfsSpec, ImSpec, ZmSpec

\* The same under the specification of the two sides: the bytes of the file are
\* right and no zone is lost, whichever side is looked at.
THEOREM MfsSafe ==
  MfsSpec => /\ [](/\ ReadsAreRight /\ WritesAreRight /\ FailedWritesKeepTheRest
                  /\ SizesAgree /\ ZonesAccounted /\ EachZoneOnce /\ NoneKeptEmpty)
             /\ ZoneMapImplementsFileMap
BY MfsComposes, ImReadsAreRight, ImWritesAreRight, ImFailedWritesKeepTheRest, ImSizesAgree,
   ImZonesAccounted, ZmZonesOnce, ZmNoneKept, ZmRefinement, PTL

=============================================================================
