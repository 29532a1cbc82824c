------------------------------- MODULE ZoneMap -------------------------------
(***************************************************************************)
(* Where the zones of a regular file are, in the MFS of Assignment10       *)
(* (mfs/write.c, and read_map of mfs/read.c): the inode names the first    *)
(* i_ndzones zones itself, the next i_nindirs through an indirect block    *)
(* and the rest through a double indirect block of indirect blocks.        *)
(* Indirect blocks are zones of the device too; they are made when a zone  *)
(* has to be entered in them and freed with their last entry.              *)
(*                                                                         *)
(* There is one file, a zone is a block (s_log_zone_size is 0), and MFS    *)
(* handles a request at a time.  A write asks new_block for a block;       *)
(* truncation, which is not part of the repository, calls write_map with   *)
(* WMAP_FREE for one zone of the file after another.  fs_readwrite refuses *)
(* positions the double indirect block has no room for (s_max_size).       *)
(***************************************************************************)
EXTENDS Integers

CONSTANTS
  i_ndzones,  \* zone numbers the inode has for data
  i_nindirs,  \* zone numbers in an indirect block
  MapZones,   \* zones of the device this file may have
  NO_ZONE,
  INODE,      \* the table of zone numbers in the inode
  Garbage     \* what a zone that is not an indirect block holds, read as zone numbers

Index     == 0 .. i_nindirs - 1
SINGLE    == i_ndzones       \* where the inode has the indirect block
DOUBLE    == i_ndzones + 1   \* and the double indirect block
FileZones == 0 .. i_ndzones + i_nindirs + i_nindirs * i_nindirs - 1

ASSUME ZoneMapAssumption ==
  /\ i_ndzones \in Nat \ {0} /\ i_nindirs \in Nat \ {0}
  /\ NO_ZONE \notin MapZones /\ INODE \notin MapZones /\ INODE # NO_ZONE
  /\ Garbage \in [Index -> MapZones \cup {NO_ZONE}]

VARIABLES
  zone,    \* zone[b][i]: entry i of the inode's table, or of zone b read as a table
  unused,  \* zones that are free
  refused  \* write_map has been refused a zone for an indirect block

zmVars == <<zone, unused, refused>>

Entries == MapZones \cup {NO_ZONE}
Empty   == [i \in Index |-> NO_ZONE]
Domain(b) == IF b = INODE THEN 0 .. DOUBLE ELSE Index

\* The tables in use, in t: the inode's and those of the indirect blocks.
Double(t)  == t[INODE][DOUBLE]
Singles(t) == ({t[INODE][SINGLE]} \cup {t[Double(t)][i] : i \in IF Double(t) = NO_ZONE THEN {} ELSE Index})
                \ {NO_ZONE}
Tables(t)  == {INODE} \cup ({Double(t)} \ {NO_ZONE}) \cup Singles(t)

ZmTypeOK ==
  /\ zone \in [{INODE} \cup MapZones -> [0 .. DOUBLE -> Entries] \cup [Index -> Entries]]
  /\ \A b \in {INODE} \cup MapZones : zone[b] \in [Domain(b) -> Entries]
  /\ unused \subseteq MapZones
  /\ refused \in BOOLEAN

-----------------------------------------------------------------------------
(***************************************************************************)
(* Where zone p of the file is entered                                     *)
(***************************************************************************)
Direct(p)   == p < i_ndzones
Indirect(p) == ~Direct(p) /\ p < i_ndzones + i_nindirs

\* The entry of the double indirect block, and that of the indirect block.
ind_ex(p) == (p - i_ndzones - i_nindirs) \div i_nindirs
ex(p) == IF Indirect(p) THEN p - i_ndzones ELSE (p - i_ndzones - i_nindirs) % i_nindirs

\* The index of the other entry.
Mutread_map(t, p) ==
  LET rd_indir(b, i) == IF b = NO_ZONE THEN NO_ZONE ELSE t[b][i]
  IN  IF Direct(p) THEN t[INODE][p]
      ELSE IF Indirect(p) THEN rd_indir(t[INODE][SINGLE], ex(p))
      ELSE rd_indir(rd_indir(t[INODE][DOUBLE], ex(p)), ind_ex(p))

\* read_map: the zone at p, or NO_ZONE (NO_BLOCK).
read_map(t, p) ==
  LET rd_indir(b, i) == IF b = NO_ZONE THEN NO_ZONE ELSE t[b][i]
  IN  IF Direct(p) THEN t[INODE][p]
      ELSE IF Indirect(p) THEN rd_indir(t[INODE][SINGLE], ex(p))
      ELSE rd_indir(rd_indir(t[INODE][DOUBLE], ind_ex(p)), ex(p))

-----------------------------------------------------------------------------
(***************************************************************************)
(* write_map.  d is what there is on the device: the tables (zone) and the *)
(* zones in no use (unused).                                               *)
(***************************************************************************)
\* Which zone it is makes no difference.
alloc_zone(zones) == CHOOSE z \in zones : TRUE

wr_indir(d, b, i, z) == [d EXCEPT !.zone[b][i] = z]

\* The block is not zeroed.
MutCreated(d, b, i) ==
  IF d.zone[b][i] # NO_ZONE \/ d.unused = {} THEN d
  ELSE LET z == alloc_zone(d.unused)
       IN  [zone |-> [d.zone EXCEPT ![b][i] = z], unused |-> d.unused \ {z}]

\* The indirect block entered at b, i, made and zeroed if there is none and a
\* zone can be had for it.
Created(d, b, i) ==
  IF d.zone[b][i] # NO_ZONE \/ d.unused = {} THEN d
  ELSE LET z == alloc_zone(d.unused)
       IN  [zone |-> [d.zone EXCEPT ![b][i] = z, ![z] = Empty], unused |-> d.unused \ {z}]

\* The zone entered at b, i is freed, if there is one.
Freed(d, b, i) ==
  LET z == d.zone[b][i]
  IN  IF z = NO_ZONE THEN d
      ELSE [zone |-> [d.zone EXCEPT ![b][i] = NO_ZONE, ![z] = Garbage],
            unused |-> d.unused \cup {z}]

empty_indir(d, b) == d.zone[b] = Empty

\* So is the indirect block there, if it has no entry left.
Pruned(d, b, i) ==
  IF d.zone[b][i] # NO_ZONE /\ empty_indir(d, d.zone[b][i]) THEN Freed(d, b, i) ELSE d

\* z is entered at p; or, where an indirect block is missing and cannot be made,
\* nothing is, though the double indirect block may have been.
Entered(d, p, z) ==
  LET level1 == Created(d, INODE, IF Indirect(p) THEN SINGLE ELSE DOUBLE)
      z2     == level1.zone[INODE][DOUBLE]
      level2 == IF Indirect(p) \/ z2 = NO_ZONE THEN level1 ELSE Created(level1, z2, ind_ex(p))
      z1     == IF Indirect(p) THEN level1.zone[INODE][SINGLE]
                ELSE IF z2 = NO_ZONE THEN NO_ZONE ELSE level2.zone[z2][ind_ex(p)]
  IN  IF Direct(p) THEN wr_indir(d, INODE, p, z)
      ELSE IF z1 = NO_ZONE THEN level2
      ELSE wr_indir(level2, z1, ex(p), z)

\* The double indirect block is kept, even without an entry.
MutRemoved(d, p) ==
  LET z1 == IF Indirect(p) THEN d.zone[INODE][SINGLE]
            ELSE IF d.zone[INODE][DOUBLE] = NO_ZONE THEN NO_ZONE
            ELSE d.zone[d.zone[INODE][DOUBLE]][ind_ex(p)]
  IN  IF Direct(p) THEN Freed(d, INODE, p)
      ELSE IF z1 = NO_ZONE THEN d
      ELSE IF Indirect(p) THEN Pruned(Freed(d, z1, ex(p)), INODE, SINGLE)
      ELSE Pruned(Freed(d, z1, ex(p)), d.zone[INODE][DOUBLE], ind_ex(p))

\* WMAP_FREE: the zone at p is freed, and then each indirect block above it that
\* has no entry left.
Removed(d, p) ==
  LET z2 == d.zone[INODE][DOUBLE]
      z1 == IF Indirect(p) THEN d.zone[INODE][SINGLE]
            ELSE IF z2 = NO_ZONE THEN NO_ZONE ELSE d.zone[z2][ind_ex(p)]
      level1 == IF z1 = NO_ZONE THEN d ELSE Freed(d, z1, ex(p))
  IN  IF Direct(p) THEN Freed(d, INODE, p)
      ELSE IF Indirect(p) THEN Pruned(level1, INODE, SINGLE)
      ELSE IF z2 = NO_ZONE THEN d
      ELSE Pruned(Pruned(level1, z2, ind_ex(p)), INODE, DOUBLE)

-----------------------------------------------------------------------------
ZmInit ==
  /\ zone = [b \in {INODE} \cup MapZones |->
               IF b = INODE THEN [i \in 0 .. DOUBLE |-> NO_ZONE] ELSE Garbage]
  /\ unused = MapZones
  /\ refused = FALSE

Device == [zone |-> zone, unused |-> unused]
Becomes(d) == zone' = d.zone /\ unused' = d.unused

\* The zone found for the block is not freed again when write_map fails.
Mutnew_block(p) ==
  LET z == alloc_zone(unused)
      d == Entered([Device EXCEPT !.unused = @ \ {z}], p, z)
  IN  /\ read_map(zone, p) = NO_ZONE /\ unused # {}
      /\ Becomes(d) /\ refused' = (refused \/ read_map(d.zone, p) # z)

\* new_block for a hole: without a zone nothing is done, and if write_map
\* fails the zone is freed again.  Data are written to the block.
new_block(p) ==
  LET z == alloc_zone(unused)
      d == Entered([Device EXCEPT !.unused = @ \ {z}], p, z)
  IN  /\ read_map(zone, p) = NO_ZONE /\ unused # {}
      /\ \/ /\ read_map(d.zone, p) = z
            /\ Becomes(d) /\ UNCHANGED refused
         \/ /\ read_map(d.zone, p) # z
            /\ Becomes([d EXCEPT !.unused = @ \cup {z}]) /\ refused' = TRUE

\* A zone of the file is truncated away.
free_zone(p) == Becomes(Removed(Device, p)) /\ UNCHANGED refused

ZmNext == \E p \in FileZones : new_block(p) \/ free_zone(p)

ZmSpec == ZmInit /\ [][ZmNext]_zmVars

-----------------------------------------------------------------------------
\* The file's map does what it promises: whatever indirect blocks come and go, a
\* step changes the zone at one place of the file, and none is in it twice.
ZM == INSTANCE FileMap WITH Zones <- MapZones, map <- [p \in FileZones |-> read_map(zone, p)]
ZoneMapImplementsFileMap == ZM!FmSpec

\* Every zone is free or is named by exactly one entry of the tables in use: no
\* zone is lost, not even by a write that runs out of space half-way, none is
\* data of two places, and none is both data and an indirect block.
EachZoneOnce ==
  \A z \in MapZones :
    LET named == {e \in UNION {{b} \X Domain(b) : b \in Tables(zone)} : zone[e[1]][e[2]] = z}
    IN  IF z \in unused THEN named = {} ELSE \E e \in named : named = {e}

\* Indirect blocks are freed with their last entry.  Only the double indirect
\* block may be left without one, by a write that got no zone for the block below.
NoneKeptEmpty ==
  /\ \A b \in Singles(zone) : zone[b] # Empty
  /\ Double(zone) # NO_ZONE /\ zone[Double(zone)] = Empty => refused

=============================================================================
