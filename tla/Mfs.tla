--------------------------------- MODULE Mfs ---------------------------------
(***************************************************************************)
(* Files of the MFS of Assignment10, seen from two sides: one file with    *)
(* its bytes, immediate or in the direct zones of its inode, with its      *)
(* descriptors ("bytes"), or the zones of one large file ("zones").  A     *)
(* behaviour is one of one of them, the other stays as it is.              *)
(***************************************************************************)
EXTENDS ImmediateFile, ZoneMap

VARIABLE side

mfsVars == <<side, imVars, zmVars>>

MfsInit == side \in {"bytes", "zones"} /\ ImInit /\ ZmInit

InBytes(step) == side = "bytes" /\ step /\ UNCHANGED <<side, zmVars>>
InZones(step) == side = "zones" /\ step /\ UNCHANGED <<side, imVars>>

MfsNext == InBytes(ImNext) \/ InZones(ZmNext)

MfsSpec == MfsInit /\ [][MfsNext]_mfsVars

=============================================================================
