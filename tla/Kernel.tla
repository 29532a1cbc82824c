------------------------------- MODULE Kernel --------------------------------
(***************************************************************************)
(* The parts of the kernel's system.c: privilege structures ("priv"),      *)
(* kernel calls and signals ("signals"), and the clean-up of messages      *)
(* ("ipc").  They work on different fields of the process table; a         *)
(* behaviour is one of one of them, the others stay as they are.           *)
(***************************************************************************)
EXTENDS KernelPriv, KernelSignals, KernelIpc

VARIABLE part

kernVars == <<part, privVars, sigVars, ipcVars>>

KernInit ==
  /\ part \in {"priv", "signals", "ipc"}
  /\ PrivInit /\ SignalsInit /\ IpcInit

InPriv(step) == part = "priv" /\ step /\ UNCHANGED <<part, sigVars, ipcVars>>
InSignals(step) == part = "signals" /\ step /\ UNCHANGED <<part, privVars, ipcVars>>
InIpc(step) == part = "ipc" /\ step /\ UNCHANGED <<part, privVars, sigVars>>

KernNext == InPriv(PrivNext) \/ InSignals(SignalsNext) \/ InIpc(IpcNext)

\* A process the kernel can run is run, also a manager; VM answers each
\* request.  Nothing is assumed of who calls, sends, faults or ends.
KernFairness ==
  /\ \A p \in Services : /\ WF_kernVars(InSignals(kernel_call_resume(p)))
                         /\ WF_kernVars(InSignals(VmReply(p)))
  /\ \A m \in {SigMgr, BakMgr} : WF_kernVars(InSignals(MgrNext(m)))

KernSpec == KernInit /\ [][KernNext]_kernVars /\ KernFairness

=============================================================================
