--------------------------------- MODULE Vfs ----------------------------------
(***************************************************************************)
(* Two sides of the VFS of Lab 9 (Assignment9/open.c, link.c, read.c): the *)
(* names in a directory, and a FIFO.  They have no state in common, as a   *)
(* FIFO that is open is used without its name; a behaviour is one of one   *)
(* of them, the other stays as it is.                                      *)
(***************************************************************************)
EXTENDS VfsNames, VfsPipes

VARIABLE side

vfsVars == <<side, namesVars, pipesVars>>

VfsInit == side \in {"names", "pipes"} /\ NamesInit /\ PipesInit

InNames(step) == side = "names" /\ step /\ UNCHANGED <<side, pipesVars>>
InPipes(step) == side = "pipes" /\ step /\ UNCHANGED <<side, namesVars>>

VfsNext == InNames(NamesNext) \/ InPipes(PipesNext)

\* Workers are run in turn and the queues of a lock are served in order.
\* Nobody has to make a call, read or write.
VfsFairness == \A w \in Workers : SF_vfsVars(InNames(Step(w)))

VfsSpec == VfsInit /\ [][VfsNext]_vfsVars /\ VfsFairness

=============================================================================
