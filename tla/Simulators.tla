------------------------------ MODULE Simulators ------------------------------
(***************************************************************************)
(* The simulators of Assignment4 (scheduling) and Assignment8 (paging).    *)
(* Somebody runs one of them; the other stays as it is.                    *)
(***************************************************************************)
EXTENDS MCCpuSim, Paging

VARIABLE simulator

simulatorsVars == <<simulator, simVars, pagingVars>>

\* Without the scheduling simulator it makes no difference which file there is.
SimulatorsInit ==
  /\ SimInit /\ PagingInit
  /\ \/ simulator = "cpu"
     \/ /\ simulator = "paging" /\ algorithm = "sjf"
        /\ file = CHOOSE f \in [Procs -> [arrival : Arrivals, tokens : TokenLines]] : TRUE

InCpu(step) == simulator = "cpu" /\ step /\ UNCHANGED <<simulator, pagingVars>>
InPaging(step) == simulator = "paging" /\ step /\ UNCHANGED <<simulator, simVars>>

SimulatorsNext == InCpu(SimNext) \/ InPaging(PagingNext)

SimulatorsSpec ==
  SimulatorsInit /\ [][SimulatorsNext]_simulatorsVars /\ WF_simulatorsVars(InCpu(SimNext))

\* The loop of the scheduling simulator ends on every file, also when the CPU is
\* idle between arrivals (startEvent_sjf, startEvent_srtf).
SimEnds == simulator = "cpu" ~> phase = "ended"

=============================================================================
