------------------------------- MODULE FileMap -------------------------------
(***************************************************************************)
(* What the zone map of a file promises: every zone of the file is a hole  *)
(* or a zone of the device, no two of them the same one.  A step gives one *)
(* hole a zone that is not in the file, or makes one zone a hole again, and*)
(* leaves all others alone.                                                *)
(***************************************************************************)
EXTENDS Naturals

CONSTANTS
  FileZones,  \* zones of the file, by their place in it
  Zones,      \* zones of the device
  NO_ZONE     \* no zone: a hole

VARIABLE map

FmInit == map = [p \in FileZones |-> NO_ZONE]

FmNext ==
  \E p \in FileZones :
    \/ /\ map[p] = NO_ZONE
       /\ \E z \in Zones \ {map[q] : q \in FileZones} : map' = [map EXCEPT ![p] = z]
    \/ /\ map[p] # NO_ZONE
       /\ map' = [map EXCEPT ![p] = NO_ZONE]

\* FmNext implies map' # map; said first, it spares TLC the steps that leave map alone.
FmSpec == FmInit /\ [][map' # map /\ FmNext]_map

=============================================================================
