---------------------------- MODULE KernelSignals ----------------------------
(***************************************************************************)
(* Kernel calls and signals, Assignment5/part2/system.c: kernel_call, its  *)
(* dispatch, its end or its suspension until VM has the memory, its        *)
(* resumption (kernel_call_resume); cause_sig, send_sig, sig_delay_done    *)
(* and send_diag_sig.                                                      *)
(*                                                                         *)
(* The processes are system services, a manager of their signals, and a    *)
(* backup for the manager; these two manage themselves.  What the managers *)
(* VM and PM do, and the handlers of the calls, are not in the repository. *)
(***************************************************************************)
EXTENDS Naturals, FiniteSets

CONSTANTS
  Services,      \* system services
  SigMgr,        \* their signal manager (RS)
  BakMgr,        \* its replica, the backup manager
  NoOne,         \* NONE, as an endpoint
  SYSTEM,        \* the kernel's own endpoint
  MaxSignals,    \* bound on the signals caused
  MaxSuspends    \* bound on how often VM is asked in a call

SigProcs == Services \cup {SigMgr, BakMgr}

ASSUME SignalsAssumption ==
  /\ SigMgr \notin Services /\ BakMgr \notin Services \cup {SigMgr}
  /\ NoOne \notin Services \cup {SigMgr, BakMgr, SYSTEM}
  /\ SYSTEM \notin Services \cup {SigMgr, BakMgr}
  /\ SigProcs \cap {"idle", "ask", "gone"} = {}    \* what hand may hold besides
  /\ MaxSignals \in Nat /\ MaxSuspends \in Nat

\* Signals a manager gets in p_pending, and those it gets itself.
Signals == {"SIGSEGV", "SIGTERM", "SIGSNDELAY"}
Lethal == {"SIGSEGV"}
KernelSignalNrs == {"SIGKSIG", "SIGKSIGSM", "SIGKMESS"}

Calls == {"SYS_KILL", "SYS_GETKSIG", "SYS_ENDKSIG", "SYS_VIRCOPY", "SYS_SIGRETURN",
          "SYS_PADCONF", "bad number"}

\* The calls with a handler; others, here one of the arm, have none.
call_vec == {"SYS_KILL", "SYS_GETKSIG", "SYS_ENDKSIG", "SYS_VIRCOPY", "SYS_SIGRETURN"}

\* Which calls a process may make (s_k_call_mask).
CallMask(p) == IF p \in Services
                 THEN {"SYS_KILL", "SYS_VIRCOPY", "SYS_SIGRETURN", "SYS_PADCONF"}
                 ELSE Calls

VARIABLES
  proc,     \* the process table, with the privilege structure of each
  hand,     \* what a manager is doing: "idle", "ask" (for a process with
            \* signals), a process (handling its signals), or "gone"
  panicked, \* the kernel has stopped
  signals   \* signals caused so far, up to MaxSignals

sigVars == <<proc, hand, panicked, signals>>

Slot == [alive : BOOLEAN,
         rts : SUBSET {"SENDING", "SIGNALED", "SIG_PENDING", "VMREQUEST", "NO_PRIV"},
         p_pending : SUBSET Signals,
         s_sig_mgr : SigProcs, s_bak_sig_mgr : SigProcs \cup {NoOne},
         s_sig_pending : SUBSET (Signals \cup KernelSignalNrs),
         notified : BOOLEAN,            \* the notification of SYSTEM is due
         kcall_resume : BOOLEAN,        \* MF_KCALL_RESUME
         sig_delay : BOOLEAN,           \* MF_SIG_DELAY
         saved : SigProcs \cup {SYSTEM, NoOne},  \* m_source of saved.reqmsg
         suspends : 0 .. MaxSuspends,   \* requests to VM in this call
         waiting : BOOLEAN]             \* history: a call has not ended

SignalsTypeOK ==
  /\ proc \in [SigProcs -> Slot]
  /\ hand \in [{SigMgr, BakMgr} -> SigProcs \cup {"idle", "ask", "gone"}]
  /\ panicked \in BOOLEAN
  /\ signals \in 0 .. MaxSignals

\* A process of which nothing is pending.
Fresh(p) ==
  [alive |-> TRUE, rts |-> IF p = BakMgr THEN {"NO_PRIV"} ELSE {},
   p_pending |-> {}, s_sig_mgr |-> IF p = BakMgr THEN BakMgr ELSE SigMgr,
   s_bak_sig_mgr |-> IF p = SigMgr THEN BakMgr ELSE NoOne,
   s_sig_pending |-> {}, notified |-> FALSE,
   kcall_resume |-> FALSE, sig_delay |-> FALSE,
   saved |-> NoOne, suspends |-> 0, waiting |-> FALSE]

Runnable(p) == proc[p].alive /\ proc[p].rts = {}

-----------------------------------------------------------------------------
(***************************************************************************)
(* The functions of system.c take the table t and return a table, or the   *)
(* empty one, Panic, where the code panics.                                *)
(***************************************************************************)
Panic == <<>>

send_sig(t, p, sig) ==
  [t EXCEPT ![p].s_sig_pending = @ \cup {sig}, ![p].notified = TRUE]

\* The backup is not made ready to run.
MutBackupTakesOver(t, p, sig) ==
  LET bak == t[p].s_bak_sig_mgr
  IN IF t[p].s_sig_mgr = p /\ sig \in Lethal /\ bak # NoOne /\ t[bak].alive
       THEN [t EXCEPT ![p].s_sig_mgr = bak, ![p].s_bak_sig_mgr = NoOne]
       ELSE t

\* A lethal signal for a manager of itself goes to the backup from now on.
BackupTakesOver(t, p, sig) ==
  LET bak == t[p].s_bak_sig_mgr
  IN IF t[p].s_sig_mgr = p /\ sig \in Lethal /\ bak # NoOne /\ t[bak].alive
       THEN [t EXCEPT ![p].s_sig_mgr = bak, ![p].s_bak_sig_mgr = NoOne,
                      ![bak].rts = @ \ {"NO_PRIV"}]
       ELSE t

\* The manager is told unless it has a signal of p in hand.
Mutcause_sig(table, p, sig) ==
  LET t == BackupTakesOver(table, p, sig)
      sig_mgr == t[p].s_sig_mgr
      added == [t EXCEPT ![p].p_pending = @ \cup {sig}]
  IN CASE sig_mgr = p /\ sig \in Lethal -> Panic
       [] sig_mgr = p /\ sig \notin Lethal ->
            send_sig([t EXCEPT ![p].s_sig_pending = @ \cup {sig}], p, "SIGKSIGSM")
       [] sig_mgr # p /\ "SIG_PENDING" \in t[p].rts -> added
       [] OTHER ->
            send_sig([added EXCEPT ![p].rts = @ \cup {"SIGNALED", "SIG_PENDING"}],
                     sig_mgr, "SIGKSIG")

cause_sig(table, p, sig) ==
  LET t == BackupTakesOver(table, p, sig)
      sig_mgr == t[p].s_sig_mgr
      added == [t EXCEPT ![p].p_pending = @ \cup {sig}]
  IN CASE sig_mgr = p /\ sig \in Lethal -> Panic
       [] sig_mgr = p /\ sig \notin Lethal ->
            send_sig([t EXCEPT ![p].s_sig_pending = @ \cup {sig}], p, "SIGKSIGSM")
       [] sig_mgr # p /\ sig \in t[p].p_pending -> t
       [] sig_mgr # p /\ sig \notin t[p].p_pending /\ "SIGNALED" \in t[p].rts -> added
       [] OTHER ->
            IF ~t[sig_mgr].alive THEN Panic
            ELSE send_sig([added EXCEPT ![p].rts = @ \cup {"SIGNALED", "SIG_PENDING"}],
                          sig_mgr, "SIGKSIG")

sig_delay_done(t, p) == cause_sig([t EXCEPT ![p].sig_delay = FALSE], p, "SIGSNDELAY")

send_diag_sig(t, receivers) ==
  [p \in SigProcs |-> IF p \in receivers /\ t[p].alive
                        THEN send_sig(t, p, "SIGKMESS")[p] ELSE t[p]]

\* How the call ends, by its result; copied says whether the answer could be
\* written to the caller's buffer, and source is the m_source of the message.
\* On the way through kernel_call_resume the message is the saved one itself.
kernel_call_finish(t, p, source, result, copied, resumed) ==
  LET removed == [t EXCEPT ![p].saved = NoOne, ![p].waiting = FALSE, ![p].suspends = 0]
      answered == [removed EXCEPT ![p].saved = IF resumed THEN SYSTEM ELSE @]
  IN CASE result = "VMSUSPEND" ->
            [t EXCEPT ![p].saved = source, ![p].kcall_resume = TRUE]
       [] result = "EDONTREPLY" -> removed
       [] OTHER -> IF copied THEN answered ELSE cause_sig(answered, p, "SIGSEGV")

\* What dispatching a call may come to: a table and a result.
Outcome(t, result) == [table |-> t, result |-> result]

\* The handlers, outside the repository, by what they do to the table.
Handled(t, p, call, target) ==
  CASE call = "SYS_KILL" ->
         IF t[target].alive THEN {Outcome(cause_sig(t, target, "SIGTERM"), "OK")}
                            ELSE {Outcome(t, "EINVAL")}
    [] call = "SYS_VIRCOPY" ->
         {Outcome(t, "OK")} \cup
         (IF t[p].suspends < MaxSuspends
            THEN {Outcome([t EXCEPT ![p].rts = @ \cup {"VMREQUEST"},
                                    ![p].suspends = @ + 1], "VMSUSPEND")}
            ELSE {})
    [] call = "SYS_SIGRETURN" -> {Outcome(t, "EDONTREPLY")}
    [] call = "SYS_GETKSIG" ->
         {Outcome([t EXCEPT ![target].p_pending = {},
                            ![target].rts = @ \ {"SIGNALED"}], "OK")}
    [] call = "SYS_ENDKSIG" ->
         IF t[target].alive /\ "SIG_PENDING" \in t[target].rts
           THEN {Outcome([t EXCEPT ![target].rts =
                           IF "SIGNALED" \in @ THEN @ ELSE @ \ {"SIG_PENDING"}], "OK")}
           ELSE {Outcome(t, "EINVAL")}

kernel_call_dispatch(t, p, call, target) ==
  IF call = "bad number" THEN {Outcome(t, "EBADREQUEST")}
  ELSE IF call \notin CallMask(p) THEN {Outcome(t, "ECALLDENIED")}
  ELSE IF call \notin call_vec THEN {Outcome(t, "EBADREQUEST")}
  ELSE Handled(t, p, call, target)

\* The table after the step; a panic leaves it as it was.
Becomes(t) ==
  IF t = Panic THEN panicked' = TRUE /\ UNCHANGED proc
               ELSE proc' = t /\ UNCHANGED panicked

\* The kernel runs, and a fault or a signal is within the bound.
Signalling(faulty) ==
  /\ ~panicked
  /\ faulty => signals < MaxSignals
  /\ signals' = IF faulty THEN signals + 1 ELSE signals

-----------------------------------------------------------------------------
SignalsInit ==
  /\ proc = [p \in SigProcs |-> [Fresh(p) EXCEPT !.alive = (p # BakMgr)]]
  /\ hand = [m \in {SigMgr, BakMgr} |-> "idle"]
  /\ panicked = FALSE /\ signals = 0

\* A kernel call of p whose message could be copied in.
Calling(p, call, target, copied) ==
  /\ Runnable(p) /\ ~proc[p].kcall_resume
  /\ \E o \in kernel_call_dispatch([proc EXCEPT ![p].waiting = TRUE], p, call, target) :
       Becomes(IF o.table = Panic THEN Panic
               ELSE kernel_call_finish(o.table, p, p, o.result, copied, FALSE))

\* A service calls the kernel, with a message that can be read or not.
kernel_call(p) ==
  /\ p \in Services
  /\ \/ \E call \in Calls \ {"SYS_GETKSIG", "SYS_ENDKSIG"}, target \in SigProcs,
           copied \in BOOLEAN :
          /\ target # p => call = "SYS_KILL"    \* the others are about p
          /\ Signalling(call = "SYS_KILL" \/ ~copied)
          /\ Calling(p, call, target, copied)
     \/ /\ Runnable(p) /\ ~proc[p].kcall_resume
        /\ Signalling(TRUE)
        /\ Becomes(cause_sig(proc, p, "SIGSEGV"))
  /\ UNCHANGED hand

\* The flag is cleared after the call has ended or been suspended again.
Mutkernel_call_resume(p) ==
  /\ Runnable(p) /\ proc[p].kcall_resume
  /\ \E copied \in BOOLEAN, o \in kernel_call_dispatch(proc, p, "SYS_VIRCOPY", p) :
       /\ Signalling(~copied)
       /\ LET t == kernel_call_finish(o.table, p, proc[p].saved, o.result, copied, TRUE)
          IN Becomes([t EXCEPT ![p].kcall_resume = FALSE])
  /\ UNCHANGED hand

\* switch_to_user picks p, whose call is to be resumed.
kernel_call_resume(p) ==
  /\ Runnable(p) /\ proc[p].kcall_resume
  /\ \E copied \in BOOLEAN, o \in kernel_call_dispatch(proc, p, "SYS_VIRCOPY", p) :
       /\ Signalling(~copied)
       /\ LET cleared == [o.table EXCEPT ![p].kcall_resume = FALSE]
          IN Becomes(kernel_call_finish(cleared, p, proc[p].saved, o.result, copied, TRUE))
  /\ UNCHANGED hand

\* VM has the memory ready.
VmReply(p) ==
  /\ ~panicked /\ proc[p].alive /\ "VMREQUEST" \in proc[p].rts
  /\ proc' = [proc EXCEPT ![p].rts = @ \ {"VMREQUEST"}]
  /\ UNCHANGED <<hand, panicked, signals>>

\* A fault of p while it runs.
CpuException(p) ==
  /\ Runnable(p) /\ ~proc[p].kcall_resume
  /\ Signalling(TRUE)
  /\ Becomes(cause_sig(proc, p, "SIGSEGV"))
  /\ UNCHANGED hand

\* p is blocked sending when PM asks to be told of the end of it; later the
\* message is sent.
DelayStop(p) ==
  /\ ~panicked /\ p \in Services /\ Runnable(p) /\ ~proc[p].kcall_resume
  /\ signals < MaxSignals
  /\ proc' = [proc EXCEPT ![p].sig_delay = TRUE, ![p].rts = {"SENDING"}]
  /\ UNCHANGED <<hand, panicked, signals>>

MessageSent(p) ==
  /\ proc[p].alive /\ proc[p].sig_delay
  /\ Signalling(TRUE)
  /\ Becomes(sig_delay_done([proc EXCEPT ![p].rts = @ \ {"SENDING"}], p))
  /\ UNCHANGED hand

\* The kernel has printed something the manager wants to know of.
DiagMessage ==
  /\ Signalling(TRUE)
  /\ Becomes(send_diag_sig(proc, {SigMgr}))
  /\ UNCHANGED hand

(***************************************************************************)
(* The managers                                                            *)
(***************************************************************************)
\* The notification of SYSTEM brings the signals and clears them.
MgrNotified(m) ==
  /\ ~panicked /\ Runnable(m) /\ hand[m] = "idle" /\ proc[m].notified
  /\ hand' = [hand EXCEPT ![m] = IF "SIGKSIG" \in proc[m].s_sig_pending THEN "ask" ELSE @]
  /\ proc' = [proc EXCEPT ![m].notified = FALSE, ![m].s_sig_pending = {}]
  /\ UNCHANGED <<panicked, signals>>

Signaled(m) == {p \in SigProcs : /\ proc[p].alive /\ "SIGNALED" \in proc[p].rts
                                 /\ proc[p].s_sig_mgr = m}

\* It asks for processes with signals until there are none.
MgrGetksig(m) ==
  /\ ~panicked /\ hand[m] = "ask"
  /\ IF Signaled(m) = {}
       THEN /\ Runnable(m)
            /\ hand' = [hand EXCEPT ![m] = "idle"]
            /\ UNCHANGED <<proc, panicked>>
       ELSE \E p \in Signaled(m) :
              /\ Calling(m, "SYS_GETKSIG", p, TRUE)
              /\ hand' = [hand EXCEPT ![m] = p]
  /\ UNCHANGED signals

MgrEndksig(m) ==
  /\ ~panicked /\ hand[m] \in SigProcs \cup {"gone"}
  /\ IF hand[m] = "gone" THEN Runnable(m) /\ UNCHANGED <<proc, panicked>>
     ELSE Calling(m, "SYS_ENDKSIG", hand[m], TRUE)
  /\ hand' = [hand EXCEPT ![m] = "ask"]
  /\ UNCHANGED signals

\* A service, or a backup that has not taken over, ends (SYS_CLEAR), maybe
\* with a call suspended or signals pending.
Clears(p) ==
  /\ ~panicked /\ proc[p].alive /\ p # SigMgr
  /\ \A q \in SigProcs \ {p} : proc[q].s_sig_mgr # p
  /\ proc' = [proc EXCEPT ![p] = [Fresh(p) EXCEPT !.alive = FALSE]]
  /\ hand' = [m \in {SigMgr, BakMgr} |-> IF hand[m] = p THEN "gone" ELSE hand[m]]
  /\ UNCHANGED <<panicked, signals>>

\* A service, or a replica of the manager, is started in the slot.
Starts(p) ==
  /\ ~panicked /\ ~proc[p].alive
  /\ proc' = [proc EXCEPT ![p] = Fresh(p)]
  /\ UNCHANGED <<hand, panicked, signals>>

MgrNext(m) == MgrNotified(m) \/ MgrGetksig(m) \/ MgrEndksig(m)

SignalsNext ==
  \/ \E p \in SigProcs : \/ kernel_call(p) \/ kernel_call_resume(p) \/ VmReply(p)
                         \/ CpuException(p) \/ DelayStop(p) \/ MessageSent(p)
                         \/ Clears(p) \/ Starts(p)
  \/ \E m \in {SigMgr, BakMgr} : MgrNext(m)
  \/ DiagMessage

SignalsSpec == SignalsInit /\ [][SignalsNext]_sigVars

-----------------------------------------------------------------------------
\* "The process being signaled is blocked while the signal manager has not
\* finished all signals for it": a process with a signal its manager has not
\* fetched, or has in hand, cannot run; and its manager is about to learn of
\* the signal, whatever signals came before or between its calls.
SignaledIsBlocked ==
  \A p \in SigProcs : proc[p].alive /\ ~panicked =>
    LET m == proc[p].s_sig_mgr
    IN /\ proc[p].p_pending # {} <=> "SIGNALED" \in proc[p].rts
       /\ "SIG_PENDING" \in proc[p].rts <=> ("SIGNALED" \in proc[p].rts \/ hand[m] = p)
       /\ "SIGNALED" \in proc[p].rts =>
            \/ hand[m] # "idle"
            \/ proc[m].notified /\ "SIGKSIG" \in proc[m].s_sig_pending

\* The assertions of kernel_call_resume hold whenever it is called, also for
\* a call that was suspended again; and a call is resumed only while it has
\* not ended, so that it is answered once.
ResumeAssertions ==
  \A p \in SigProcs : proc[p].alive =>
    /\ proc[p].kcall_resume <=> proc[p].waiting
    /\ "VMREQUEST" \in proc[p].rts => proc[p].kcall_resume
    /\ proc[p].kcall_resume => proc[p].saved = p

\* Signals are handled and calls end: a process stopped for a signal is let
\* go on, a suspended call ends, or the process itself does; unless the kernel
\* has panicked.
Gone(p) == ~proc[p].alive \/ panicked
HandledAndAnswered ==
  /\ \A p \in Services \cup {SigMgr} :
       "SIG_PENDING" \in proc[p].rts ~> "SIG_PENDING" \notin proc[p].rts \/ Gone(p)
  /\ \A p \in Services : proc[p].waiting ~> ~proc[p].waiting \/ Gone(p)

=============================================================================
