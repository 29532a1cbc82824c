------------------------------ MODULE KernelIpc ------------------------------
(***************************************************************************)
(* What the kernel does about messages when a process ends, or clears the  *)
(* references to it: clear_ipc, clear_endpoint and clear_ipc_refs of       *)
(* Assignment5/part2/system.c.  Sending, receiving, notifying and sending  *)
(* asynchronously (kernel/proc.c, outside the repository) are modelled by  *)
(* what they do to the fields system.c works on.                           *)
(***************************************************************************)
EXTENDS Naturals, Sequences, FiniteSets

CONSTANTS
  IpcProcs,   \* process slots, each with a privilege structure of its own
  ANY,        \* receive from anybody
  NoProcess,  \* blocked on nobody (NONE)
  MaxPending  \* bound on the notifications and asynchronous messages pending

ASSUME IpcAssumption ==
  /\ ANY \notin IpcProcs /\ NoProcess \notin IpcProcs \cup {ANY}
  /\ IsFiniteSet(IpcProcs) /\ MaxPending \in Nat

VARIABLES
  running,    \* slots in use
  rts,        \* rts[p]: of the flags SENDING, RECEIVING those that are set
  sendto,     \* sendto[p]: p_sendto_e while SENDING
  getfrom,    \* getfrom[p]: p_getfrom_e while RECEIVING
  caller_q,   \* caller_q[p]: the processes blocked sending to p, in order
  notify,     \* notify[p]: who notified p, s_notify_pending
  asyn,       \* asyn[p]: whose asynchronous messages p waits for, s_asyn_pending
  table       \* table[p]: to whom p's table of asynchronous messages has some

ipcVars == <<running, rts, sendto, getfrom, caller_q, notify, asyn, table>>

IpcTypeOK ==
  /\ running \subseteq IpcProcs
  /\ rts \in [IpcProcs -> SUBSET {"SENDING", "RECEIVING"}]
  /\ sendto \in [IpcProcs -> IpcProcs \cup {NoProcess}]
  /\ getfrom \in [IpcProcs -> IpcProcs \cup {ANY, NoProcess}]
  /\ caller_q \in [IpcProcs -> Seq(IpcProcs)]
  /\ notify \in [IpcProcs -> SUBSET IpcProcs]
  /\ asyn \in [IpcProcs -> SUBSET IpcProcs]
  /\ table \in [IpcProcs -> SUBSET IpcProcs]

Sending(p) == "SENDING" \in rts[p]
Receiving(p) == "RECEIVING" \in rts[p]
CanRun(p) == p \in running /\ rts[p] = {}

\* P_BLOCKEDON
BlockedOn(p) == IF Sending(p) THEN sendto[p]
                ELSE IF Receiving(p) THEN getfrom[p] ELSE NoProcess

\* The queue q without those of S.
Without(q, S) ==
  LET Kept[i \in 0 .. Len(q)] == IF i = 0 THEN <<>>
                                 ELSE IF q[i] \in S THEN Kept[i - 1]
                                 ELSE Append(Kept[i - 1], q[i])
  IN Kept[Len(q)]

-----------------------------------------------------------------------------
(***************************************************************************)
(* system.c                                                                *)
(***************************************************************************)
\* The process stays in the queue.
Mutclear_ipc(S) ==
  /\ rts' = [p \in IpcProcs |-> IF p \in S THEN {} ELSE rts[p]]
  /\ sendto' = [p \in IpcProcs |-> IF p \in S THEN NoProcess ELSE sendto[p]]
  /\ getfrom' = [p \in IpcProcs |-> IF p \in S THEN NoProcess ELSE getfrom[p]]
  /\ UNCHANGED caller_q

\* For each process of S: it leaves the queue of the one it is sending to,
\* and sends and receives no more.
clear_ipc(S) ==
  LET senders == {p \in S : Sending(p)}
  IN /\ caller_q' = [q \in IpcProcs |->
                      Without(caller_q[q], {p \in senders : sendto[p] = q})]
     /\ rts' = [p \in IpcProcs |-> IF p \in S THEN {} ELSE rts[p]]
     /\ sendto' = [p \in IpcProcs |-> IF p \in senders THEN NoProcess ELSE sendto[p]]
     /\ getfrom' = [p \in IpcProcs |-> IF p \in S THEN NoProcess ELSE getfrom[p]]

\* Those blocked on rc, which clear_ipc_refs lets go.
Waiters(rc) == {p \in running : BlockedOn(p) = rc}

\* Messages to rc are cancelled, nothing of rc stays pending elsewhere, and who
\* is blocked on rc goes on, with an error.  tables are those after rc's own
\* was discarded, and cleared is who loses what it waits for.
clear_ipc_refs(rc, tables, cleared) ==
  /\ table' = [p \in IpcProcs |-> IF p \in asyn[rc] THEN tables[p] \ {rc} ELSE tables[p]]
  /\ notify' = [p \in IpcProcs |-> IF p \in running THEN notify[p] \ {rc} ELSE notify[p]]
  /\ asyn' = [p \in IpcProcs |->
                IF p = rc THEN {}
                ELSE IF p \in running THEN asyn[p] \ {rc} ELSE asyn[p]]
  /\ clear_ipc(cleared)

\* clear_endpoint, called by SYS_CLEAR, which then frees the slot.
clear_endpoint(rc) ==
  /\ rc \in running
  /\ clear_ipc_refs(rc, [table EXCEPT ![rc] = {}], {rc} \cup Waiters(rc))
  /\ running' = running \ {rc}

\* SYS_STATECTL: rc asks that nobody waits for it any more.
StateClear(rc) ==
  /\ CanRun(rc)
  /\ clear_ipc_refs(rc, table, Waiters(rc))
  /\ UNCHANGED running

-----------------------------------------------------------------------------
(***************************************************************************)
(* kernel/proc.c and fork, outside the repository                          *)
(***************************************************************************)
IpcInit ==
  /\ running = IpcProcs
  /\ rts = [p \in IpcProcs |-> {}]
  /\ sendto = [p \in IpcProcs |-> NoProcess]
  /\ getfrom = [p \in IpcProcs |-> NoProcess]
  /\ caller_q = [p \in IpcProcs |-> <<>>]
  /\ notify = [p \in IpcProcs |-> {}]
  /\ asyn = [p \in IpcProcs |-> {}]
  /\ table = [p \in IpcProcs |-> {}]

Forks(p) ==
  /\ p \notin running
  /\ running' = running \cup {p}
  /\ notify' = [notify EXCEPT ![p] = {}]
  /\ asyn' = [asyn EXCEPT ![p] = {}]
  /\ UNCHANGED <<rts, sendto, getfrom, caller_q, table>>

\* d is blocked in a receive that takes messages of p.
WillReceive(d, p) == rts[d] = {"RECEIVING"} /\ getfrom[d] \in {ANY, p}

\* d waits, directly or through others, for p.
WaitsFor(d, p) ==
  LET Chain[n \in 0 .. Cardinality(IpcProcs)] ==
        IF n = 0 THEN d
        ELSE IF Chain[n - 1] \in IpcProcs THEN BlockedOn(Chain[n - 1]) ELSE NoProcess
  IN \E n \in 1 .. Cardinality(IpcProcs) : Chain[n] = p

\* d has its message and goes on.
Wakes(d) ==
  /\ rts' = [rts EXCEPT ![d] = @ \ {"RECEIVING"}]
  /\ getfrom' = [getfrom EXCEPT ![d] = NoProcess]

\* SEND, or SENDREC, which goes on to receive from d.
Send(p, d, rec) ==
  LET after == IF rec THEN {"RECEIVING"} ELSE {}
      from == IF rec THEN d ELSE NoProcess
  IN /\ CanRun(p) /\ d \in running \ {p}
     /\ \/ /\ WillReceive(d, p)
           /\ rts' = [rts EXCEPT ![d] = {}, ![p] = after]
           /\ getfrom' = [getfrom EXCEPT ![d] = NoProcess, ![p] = from]
           /\ UNCHANGED <<sendto, caller_q>>
        \/ /\ ~WillReceive(d, p) /\ ~WaitsFor(d, p)
           /\ rts' = [rts EXCEPT ![p] = after \cup {"SENDING"}]
           /\ sendto' = [sendto EXCEPT ![p] = d]
           /\ getfrom' = [getfrom EXCEPT ![p] = from]
           /\ caller_q' = [caller_q EXCEPT ![d] = Append(@, p)]
     /\ UNCHANGED <<running, notify, asyn, table>>

\* RECEIVE: a notification, an asynchronous message, the first sender in the
\* queue, or the process blocks.
Receive(p, from) ==
  LET takes(S) == {q \in S : from \in {ANY, q}}
      queued == Without(caller_q[p], IpcProcs \ takes(IpcProcs))
  IN /\ CanRun(p) /\ from \in {ANY} \cup (running \ {p})
     /\ CASE takes(notify[p]) # {} ->
               /\ \E q \in takes(notify[p]) : notify' = [notify EXCEPT ![p] = @ \ {q}]
               /\ UNCHANGED <<rts, sendto, getfrom, caller_q, asyn, table>>
          [] takes(notify[p]) = {} /\ takes(asyn[p]) # {} ->
               /\ \E q \in takes(asyn[p]) :
                    /\ asyn' = [asyn EXCEPT ![p] = @ \ {q}]
                    /\ table' = [table EXCEPT ![q] = @ \ {p}]
               /\ UNCHANGED <<rts, sendto, getfrom, caller_q, notify>>
          [] takes(notify[p]) = {} /\ takes(asyn[p]) = {} /\ queued # <<>> ->
               LET q == Head(queued)
               IN /\ rts' = [rts EXCEPT ![q] = @ \ {"SENDING"}]
                  /\ sendto' = [sendto EXCEPT ![q] = NoProcess]
                  /\ caller_q' = [caller_q EXCEPT ![p] = Without(@, {q})]
                  /\ UNCHANGED <<getfrom, notify, asyn, table>>
          [] OTHER ->
               /\ from # ANY => ~WaitsFor(from, p)
               /\ rts' = [rts EXCEPT ![p] = {"RECEIVING"}]
               /\ getfrom' = [getfrom EXCEPT ![p] = from]
               /\ UNCHANGED <<sendto, caller_q, notify, asyn, table>>
     /\ UNCHANGED running

\* Notifications and asynchronous messages that wait to be received.
Pending == UNION {{p} \X {"n"} \X notify[p] : p \in IpcProcs}
             \cup UNION {{p} \X {"a"} \X asyn[p] : p \in IpcProcs}
Room == Cardinality(Pending) < MaxPending

Notify(p, d) ==
  /\ CanRun(p) /\ d \in running \ {p}
  /\ IF WillReceive(d, p)
       THEN Wakes(d) /\ UNCHANGED notify
       ELSE Room /\ notify' = [notify EXCEPT ![d] = @ \cup {p}] /\ UNCHANGED <<rts, getfrom>>
  /\ UNCHANGED <<running, sendto, caller_q, asyn, table>>

\* SENDA: p's table, now with a message for d, is gone through from the start;
\* messages for processes that have ended are answered with an error.
SendAsync(p, d) ==
  LET due == (table[p] \cup {d}) \cap running
      taken == {t \in due : WillReceive(t, p)}
  IN /\ CanRun(p) /\ d \in running \ {p}
     /\ \A t \in due \ taken : p \in asyn[t] \/ Room
     /\ table' = [table EXCEPT ![p] = due \ taken]
     /\ asyn' = [t \in IpcProcs |-> IF t \in due \ taken THEN asyn[t] \cup {p}
                                   ELSE asyn[t] \ {p}]
     /\ rts' = [t \in IpcProcs |-> IF t \in taken THEN {} ELSE rts[t]]
     /\ getfrom' = [t \in IpcProcs |-> IF t \in taken THEN NoProcess ELSE getfrom[t]]
     /\ UNCHANGED <<running, sendto, caller_q, notify>>

IpcNext ==
  \/ \E p \in IpcProcs : clear_endpoint(p) \/ StateClear(p) \/ Forks(p)
  \/ \E p, d \in IpcProcs : Send(p, d, TRUE) \/ Send(p, d, FALSE) \/ Notify(p, d)
                            \/ SendAsync(p, d)
  \/ \E p \in IpcProcs, from \in IpcProcs \cup {ANY} : Receive(p, from)

IpcSpec == IpcInit /\ [][IpcNext]_ipcVars

-----------------------------------------------------------------------------
\* Nobody waits for a process that has ended: not for its message, not for
\* it to receive one; nothing of it is pending for others, and no table has
\* messages for it.  The queue of a process has exactly those that send to
\* it, each once, so that a process cleared while queued is never found in a
\* queue again, not even by a process that has its slot now.
NobodyWaitsForTheDead ==
  \A p \in IpcProcs :
    /\ p \notin running => rts[p] = {} /\ caller_q[p] = <<>> /\ table[p] = {}
    /\ p \in running =>
         /\ BlockedOn(p) \in running \cup {ANY, NoProcess}
         /\ Receiving(p) => getfrom[p] \in running \cup {ANY}
         /\ notify[p] \subseteq running
         /\ asyn[p] \subseteq {q \in running : p \in table[q]}
    /\ \A q \in IpcProcs :
         Cardinality({i \in DOMAIN caller_q[p] : caller_q[p][i] = q})
           = IF Sending(q) /\ sendto[q] = p THEN 1 ELSE 0

=============================================================================
