---------------------------- MODULE KernelProofs -----------------------------
(***************************************************************************)
(* Proofs about the parts of the kernel's system.c, for any number of      *)
(* processes: the send masks follow the requests that set them, suspended  *)
(* calls are resumed once and signals are handled and answered, and        *)
(* nobody waits for a process that has ended.  Kernel, which runs one of   *)
(* the three, has what each of them has.                                   *)
(***************************************************************************)
EXTENDS Kernel, InductionLemmas, SequenceTheorems

-----------------------------------------------------------------------------
(***************************************************************************)
(* KernelPriv: the send masks                                              *)
(***************************************************************************)
LEMMA IdsAreNumbers == Ids \subseteq Nat /\ RootId \in Ids
  BY PrivAssumption, SMT DEF Ids, RootId

\* What set_sendto_bit does to the masks: rp may send to id if id has a
\* process and is another one; id may then send back, if it can send at all.
LEMMA SetBit ==
  ASSUME NEW masks \in [Ids -> SUBSET Ids], NEW owned, NEW can,
         NEW rp \in Ids, NEW id \in Ids
  PROVE  LET t == set_sendto_bit(masks, owned, can, rp, id)
         IN /\ id \in t[rp] <=> id \in owned /\ id # rp
            /\ id # rp => \A j \in Ids :
                 j \in t[id] <=> \/ j \in masks[id]
                                 \/ j = rp /\ id \in owned /\ id \in can
  BY DEF set_sendto_bit

\* unset_sendto_bit takes the bits of both directions away, and no other.
LEMMA UnsetBit ==
  ASSUME NEW masks \in [Ids -> SUBSET Ids], NEW rp \in Ids, NEW id \in Ids
  PROVE  LET t == unset_sendto_bit(masks, rp, id)
         IN /\ id \notin t[rp]
            /\ id # rp => \A j \in Ids : j \in t[id] <=> j \in masks[id] /\ j # rp
  BY DEF unset_sendto_bit

\* rp has exactly the targets asked for that have a process, and no other mask
\* is changed but at the bit for rp.
Filled(t, masks, owned, can, rp, map) ==
  /\ t \in [Ids -> SUBSET Ids]
  /\ \A i \in Ids : i \in t[rp] <=> i \in map /\ i \in owned /\ i # rp
  /\ \A x \in Ids \ {rp} :
       /\ \A j \in Ids \ {rp} : j \in t[x] <=> j \in masks[x]
       /\ x \in map /\ x \in owned /\ x \in can => rp \in t[x]
       /\ x \notin map => rp \notin t[x]

\* That is what fill_sendto_mask does with its calls for all ids.
LEMMA FillMask ==
  ASSUME NEW masks \in [Ids -> SUBSET Ids], NEW owned, NEW can,
         NEW rp \in Ids, NEW map \in SUBSET Ids
  PROVE  Filled(fill_sendto_mask(masks, owned, can, rp, map), masks, owned, can, rp, map)
<1> DEFINE call(id) == IF id \in map THEN set_sendto_bit(masks, owned, can, rp, id)
                                     ELSE unset_sendto_bit(masks, rp, id)
           t == fill_sendto_mask(masks, owned, can, rp, map)
<1>1. t = [x \in Ids |-> IF x = rp THEN {id \in Ids : id \in call(id)[rp]} ELSE call(x)[x]]
  BY DEF fill_sendto_mask
<1>2. \A x \in Ids : /\ x \in call(x)[rp] <=> x \in map /\ x \in owned /\ x # rp
                     /\ x # rp => \A j \in Ids :
                          j \in call(x)[x] <=>
                            IF x \in map THEN j \in masks[x] \/ (j = rp /\ x \in owned /\ x \in can)
                                         ELSE j \in masks[x] /\ j # rp
  BY SetBit, UnsetBit
<1>3. \A x \in Ids : call(x)[x] \subseteq Ids
  BY DEF set_sendto_bit, unset_sendto_bit
<1> HIDE DEF call
<1>4. t \in [Ids -> SUBSET Ids]
  BY <1>1, <1>3
<1>5. \A i \in Ids : i \in t[rp] <=> i \in map /\ i \in owned /\ i # rp
  BY <1>1, <1>2
<1>6. \A x \in Ids \ {rp} : t[x] = call(x)[x]
  BY <1>1
<1> QED
  BY <1>2, <1>4, <1>5, <1>6 DEF Filled

-----------------------------------------------------------------------------
\* The two invariants together are inductive: what a mask is changed to does
\* not depend on how it came about.
PrivInv == PrivTypeOK /\ SendMasksAsGranted

\* Filling the mask of id, which has a process then, keeps the masks as granted.
LEMMA FillKeepsGranted ==
  ASSUME PrivInv, NEW id \in Ids, NEW map \in SUBSET Ids,
         NEW masks \in [Ids -> SUBSET Ids],
         \A x, j \in Ids \ {id} : j \in masks[x] <=> j \in s_ipc_to[x],
         NEW owned, owned = {i \in Ids : s_proc_nr'[i] # NoProc}, id \in owned,
         NEW can, \A x \in Ids \ {id} : x \in can <=> sends[x],
         \A x \in Ids \ {id} : sends'[x] = sends[x] /\ s_proc_nr'[x] = s_proc_nr[x],
         s_ipc_to' = fill_sendto_mask(masks, owned, can, id, map),
         granted' = Granted(id, map)
  PROVE  s_ipc_to' \in [Ids -> SUBSET Ids] /\ granted' \subseteq SUBSET Ids
         /\ SendMasksAsGranted'
<1>1. Filled(s_ipc_to', masks, owned, can, id, map)
  BY FillMask
<1>2. granted' \subseteq SUBSET Ids
  BY DEF Granted, PrivInv, PrivTypeOK
<1>3. \A a, b \in Ids : a # b =>
        /\ a = id => ({a, b} \in granted' <=> b \in map)
        /\ b = id => ({a, b} \in granted' <=> a \in map)
        /\ a # id /\ b # id => ({a, b} \in granted' <=> {a, b} \in granted)
  <2> SUFFICES ASSUME NEW a \in Ids, NEW b \in Ids, a # b
               PROVE  /\ a = id => ({a, b} \in granted' <=> b \in map)
                      /\ b = id => ({a, b} \in granted' <=> a \in map)
                      /\ a # id /\ b # id => ({a, b} \in granted' <=> {a, b} \in granted)
    OBVIOUS
  <2>1. \A i : {id, i} = {a, b} => \/ id = a /\ i = b
                                   \/ id = b /\ i = a
    OBVIOUS
  <2>2. \A i \in map : {id, i} \in granted'
    BY DEF Granted
  <2>3. {a, b} \in granted' <=> \/ {a, b} \in granted /\ id # a /\ id # b
                                \/ \E i \in map : {a, b} = {id, i}
    BY DEF Granted
  <2>4. {a, b} = {b, a}
    OBVIOUS
  <2> QED
    BY <2>1, <2>2, <2>3, <2>4
<1>4. ASSUME NEW a \in Ids, NEW b \in Ids, s_proc_nr'[a] # NoProc, s_proc_nr'[b] # NoProc,
             sends'[a]
      PROVE  b \in s_ipc_to'[a] <=> a # b /\ {a, b} \in granted'
  <2>1. CASE a = id
    BY <1>1, <1>3, <1>4, <2>1 DEF Filled
  <2>2. CASE a # id /\ b = id
    BY <1>1, <1>3, <1>4, <2>2 DEF Filled
  <2>3. CASE a # id /\ b # id
    <3>1. s_proc_nr[a] # NoProc /\ s_proc_nr[b] # NoProc /\ sends[a]
      BY <1>4, <2>3
    <3>2. b \in s_ipc_to[a] <=> a # b /\ {a, b} \in granted
      BY <3>1 DEF PrivInv, SendMasksAsGranted, Owned
    <3> QED
      BY <1>1, <1>3, <2>3, <3>2 DEF Filled
  <2> QED
    BY <2>1, <2>2, <2>3
<1>5. SendMasksAsGranted'
  BY <1>4 DEF SendMasksAsGranted, Owned
<1> QED
  BY <1>1, <1>2, <1>5 DEF Filled

LEMMA PrivInitInv == PrivInit => PrivInv
<1> SUFFICES ASSUME PrivInit PROVE PrivInv
  OBVIOUS
<1>1. PrivTypeOK
  BY PrivAssumption, IdsAreNumbers DEF PrivInit, PrivTypeOK
<1>2. SendMasksAsGranted
  BY IdsAreNumbers DEF PrivInit, SendMasksAsGranted
<1> QED
  BY <1>1, <1>2 DEF PrivInv

LEMMA PrivStep == PrivInv /\ [PrivNext]_privVars => PrivInv'
<1> SUFFICES ASSUME PrivInv, [PrivNext]_privVars PROVE PrivInv'
  OBVIOUS
<1>t. PrivTypeOK
  BY DEF PrivInv
<1>1. ASSUME NEW p \in PrivProcs, NEW priv_id \in Ids \cup {NullPrivId}, NEW traps \in BOOLEAN,
             NEW map \in SUBSET Ids, SetSys(p, priv_id, traps, map)
      PROVE  PrivInv'
  <2> PICK id \in get_priv(priv_id) :
        LET copied == [s_ipc_to EXCEPT ![id] = s_ipc_to[RootId]]
            owned == {i \in Ids : Owned(i)} \cup {id}
            can == {i \in Ids : sends[i]}
            default == fill_sendto_mask(copied, owned, can \cup {id}, id, Ids)
        IN /\ s_proc_nr' = [s_proc_nr EXCEPT ![id] = p]
           /\ sends' = [sends EXCEPT ![id] = traps]
           /\ s_ipc_to' = fill_sendto_mask(default, owned, can \cup {id}, id, map)
           /\ granted' = Granted(id, map)
    BY <1>1 DEF SetSys
  <2> DEFINE copied == [s_ipc_to EXCEPT ![id] = s_ipc_to[RootId]]
             owned == {i \in Ids : Owned(i)} \cup {id}
             can == {i \in Ids : sends[i]} \cup {id}
             default == fill_sendto_mask(copied, owned, can, id, Ids)
  <2>1. id \in Ids
    BY DEF get_priv, StaticIds, Ids
  <2>2. copied \in [Ids -> SUBSET Ids] /\ \A x \in Ids \ {id} : copied[x] = s_ipc_to[x]
    BY <1>t, <2>1, IdsAreNumbers DEF PrivTypeOK
  <2>3. owned = {i \in Ids : s_proc_nr'[i] # NoProc}
    BY <1>t, <2>1, PrivAssumption DEF PrivTypeOK, Owned
  <2>4. id \in owned /\ \A x \in Ids \ {id} : x \in can <=> sends[x]
    OBVIOUS
  <2>5. \A x \in Ids \ {id} : sends'[x] = sends[x] /\ s_proc_nr'[x] = s_proc_nr[x]
    BY <1>t DEF PrivTypeOK
  <2>6. s_ipc_to' = fill_sendto_mask(default, owned, can, id, map)
    OBVIOUS
  <2>7. s_proc_nr' \in [Ids -> PrivProcs \cup {NoProc}] /\ sends' \in [Ids -> BOOLEAN]
    BY <1>t, <2>1 DEF PrivTypeOK
  <2> HIDE DEF owned, copied, can
  <2>8. /\ default \in [Ids -> SUBSET Ids]
        /\ \A x, j \in Ids \ {id} : j \in default[x] <=> j \in s_ipc_to[x]
    <3>1. Filled(default, copied, owned, can, id, Ids)
      BY <2>1, <2>2, FillMask
    <3> QED
      BY <2>2, <3>1 DEF Filled
  <2> HIDE DEF default
  <2>9. /\ s_ipc_to' \in [Ids -> SUBSET Ids] /\ granted' \subseteq SUBSET Ids
        /\ SendMasksAsGranted'
    BY <2>1, <2>3, <2>4, <2>5, <2>6, <2>8, FillKeepsGranted
  <2> QED
    BY <2>7, <2>9 DEF PrivInv, PrivTypeOK
<1>2. ASSUME NEW id \in Ids, NEW traps \in BOOLEAN, NEW map \in SUBSET Ids,
             UpdateSys(id, traps, map)
      PROVE  PrivInv'
  <2> DEFINE owned == {i \in Ids : Owned(i)}
             can == {i \in Ids : sends'[i]}
  <2>1. /\ sends' = [sends EXCEPT ![id] = traps]
        /\ s_ipc_to' = fill_sendto_mask(s_ipc_to, owned, can, id, map)
        /\ granted' = Granted(id, map) /\ s_proc_nr' = s_proc_nr
    BY <1>2 DEF UpdateSys
  <2>2. owned = {i \in Ids : s_proc_nr'[i] # NoProc} /\ id \in owned
    BY <1>2, <2>1 DEF UpdateSys, Owned
  <2>3. \A x \in Ids \ {id} : /\ x \in can <=> sends[x]
                              /\ sends'[x] = sends[x] /\ s_proc_nr'[x] = s_proc_nr[x]
    BY <1>t, <2>1 DEF PrivTypeOK
  <2>4. s_ipc_to \in [Ids -> SUBSET Ids] /\ s_proc_nr' \in [Ids -> PrivProcs \cup {NoProc}]
        /\ sends' \in [Ids -> BOOLEAN]
    BY <1>t, <2>1 DEF PrivTypeOK
  <2> HIDE DEF owned, can
  <2>5. /\ s_ipc_to' \in [Ids -> SUBSET Ids] /\ granted' \subseteq SUBSET Ids
        /\ SendMasksAsGranted'
    BY <2>1, <2>2, <2>3, <2>4, FillKeepsGranted
  <2> QED
    BY <2>4, <2>5 DEF PrivInv, PrivTypeOK
<1>3. ASSUME NEW id \in Ids, ReleasePriv(id) PROVE PrivInv'
  <2>1. PrivTypeOK'
    BY <1>t, <1>3 DEF ReleasePriv, PrivTypeOK
  <2>2. \A a \in Ids : s_proc_nr'[a] # NoProc => s_proc_nr[a] # NoProc
    BY <1>t, <1>3 DEF ReleasePriv, PrivTypeOK
  <2>3. SendMasksAsGranted'
    BY <1>3, <2>2 DEF PrivInv, ReleasePriv, SendMasksAsGranted, Owned
  <2> QED
    BY <2>1, <2>3 DEF PrivInv
<1>4. CASE UNCHANGED privVars
  BY <1>4 DEF PrivInv, PrivTypeOK, SendMasksAsGranted, Owned, privVars
<1> QED
  BY <1>1, <1>2, <1>3, <1>4 DEF PrivNext

-----------------------------------------------------------------------------
\* Privilege structures and their masks stay well-formed.
THEOREM PrivTypeCorrect == PrivSpec => []PrivTypeOK
<1>1. PrivInv => PrivTypeOK
  BY DEF PrivInv
<1> QED
  BY PrivInitInv, PrivStep, <1>1, PTL DEF PrivSpec

\* For any number of processes and privilege structures, a process may send to
\* exactly those the last request of either of the two granted: what
\* set_sendto_bit and unset_sendto_bit do to two masks at once keeps them
\* symmetric through every order of allocations, updates and exits.
THEOREM PrivMasksAsGranted == PrivSpec => []SendMasksAsGranted
<1>1. PrivInv => SendMasksAsGranted
  BY DEF PrivInv
<1> QED
  BY PrivInitInv, PrivStep, <1>1, PTL DEF PrivSpec

-----------------------------------------------------------------------------
(***************************************************************************)
(* KernelSignals: suspended calls, and processes that wait for their signals*)
(***************************************************************************)
Tables == [SigProcs -> Slot]

\* What ResumeAssertions says of a process.
CallOK(t, p) ==
  t[p].alive =>
    /\ t[p].kcall_resume <=> t[p].waiting
    /\ "VMREQUEST" \in t[p].rts => t[p].kcall_resume
    /\ t[p].kcall_resume => t[p].saved = p

ResumeInv == SignalsTypeOK /\ ResumeAssertions

\* u says the same as t of the calls of p; but whether p waits for VM.
SameCall(t, u, p) ==
  /\ u[p].alive = t[p].alive /\ u[p].kcall_resume = t[p].kcall_resume
  /\ u[p].waiting = t[p].waiting /\ u[p].saved = t[p].saved

SameCalls(t, u) ==
  \A p \in SigProcs :
    SameCall(t, u, p) /\ ("VMREQUEST" \in u[p].rts <=> "VMREQUEST" \in t[p].rts)

-----------------------------------------------------------------------------
\* What holds of the calls in t holds in a table that says the same of them.
LEMMA SameCallsOK ==
  ASSUME NEW t, NEW u, SameCalls(t, u), NEW p \in SigProcs, CallOK(t, p)
  PROVE  CallOK(u, p)
BY DEF SameCalls, SameCall, CallOK

LEMMA SendSig ==
  ASSUME NEW t \in Tables, NEW p \in SigProcs, NEW sig \in Signals \cup KernelSignalNrs
  PROVE  send_sig(t, p, sig) \in Tables /\ SameCalls(t, send_sig(t, p, sig))
<1> DEFINE u == send_sig(t, p, sig)
           s == [t[p] EXCEPT !.s_sig_pending = @ \cup {sig}, !.notified = TRUE]
<1>1. u = [t EXCEPT ![p] = s]
  BY DEF send_sig, Tables
<1>2. s \in Slot /\ s.alive = t[p].alive /\ s.kcall_resume = t[p].kcall_resume
      /\ s.waiting = t[p].waiting /\ s.saved = t[p].saved /\ s.rts = t[p].rts
  <2>1. t[p] \in Slot
    BY DEF Tables
  <2> QED
    BY <2>1 DEF Slot
<1> HIDE DEF s
<1> QED
  BY <1>1, <1>2 DEF Tables, SameCalls, SameCall

LEMMA TakesOver ==
  ASSUME NEW t \in Tables, NEW p \in SigProcs, NEW sig
  PROVE  BackupTakesOver(t, p, sig) \in Tables /\ SameCalls(t, BackupTakesOver(t, p, sig))
<1> DEFINE bak == t[p].s_bak_sig_mgr
           a == [t[p] EXCEPT !.s_sig_mgr = bak, !.s_bak_sig_mgr = NoOne]
           t1 == [t EXCEPT ![p] = a]
           b == [t1[bak] EXCEPT !.rts = @ \ {"NO_PRIV"}]
<1>1. CASE t[p].s_sig_mgr = p /\ sig \in Lethal /\ bak # NoOne /\ t[bak].alive
  <2>1. bak \in SigProcs /\ t[p] \in Slot
    BY <1>1 DEF Tables, Slot
  <2>2. a \in Slot /\ a.alive = t[p].alive /\ a.kcall_resume = t[p].kcall_resume
        /\ a.waiting = t[p].waiting /\ a.saved = t[p].saved /\ a.rts = t[p].rts
    BY <2>1 DEF Slot
  <2>3. BackupTakesOver(t, p, sig) = [t1 EXCEPT ![bak] = b]
    BY <1>1, <2>1 DEF BackupTakesOver, Tables
  <2> HIDE DEF a, bak
  <2>4. t1 \in Tables /\ SameCalls(t, t1) /\ t1[bak] \in Slot
    BY <2>1, <2>2 DEF Tables, SameCalls, SameCall
  <2> HIDE DEF t1
  <2>5. b \in Slot /\ b.alive = t1[bak].alive /\ b.kcall_resume = t1[bak].kcall_resume
        /\ b.waiting = t1[bak].waiting /\ b.saved = t1[bak].saved
        /\ ("VMREQUEST" \in b.rts <=> "VMREQUEST" \in t1[bak].rts)
    BY <2>4 DEF Slot
  <2> HIDE DEF b
  <2> QED
    BY <2>1, <2>3, <2>4, <2>5 DEF Tables, SameCalls, SameCall
<1>2. CASE ~(t[p].s_sig_mgr = p /\ sig \in Lethal /\ bak # NoOne /\ t[bak].alive)
  BY <1>2 DEF BackupTakesOver, SameCalls, SameCall
<1> QED
  BY <1>1, <1>2

\* A signal does nothing to the kernel calls of any process, if the kernel
\* does not panic.
LEMMA CauseSig ==
  ASSUME NEW tab \in Tables, NEW p \in SigProcs, NEW sig \in Signals,
         cause_sig(tab, p, sig) # Panic
  PROVE  /\ cause_sig(tab, p, sig) \in Tables
         /\ SameCalls(tab, cause_sig(tab, p, sig))
<1> DEFINE t == BackupTakesOver(tab, p, sig)
           m == t[p].s_sig_mgr
           self == [t EXCEPT ![p].s_sig_pending = @ \cup {sig}]
           added == [t EXCEPT ![p].p_pending = @ \cup {sig}]
           stopped == [added EXCEPT ![p].rts = @ \cup {"SIGNALED", "SIG_PENDING"}]
           u == cause_sig(tab, p, sig)
<1>1. t \in Tables /\ SameCalls(tab, t)
  BY TakesOver
<1>2. m \in SigProcs
  BY <1>1 DEF Tables, Slot
<1>3. \/ u = send_sig(self, p, "SIGKSIGSM")
      \/ u = t
      \/ u = added
      \/ u = send_sig(stopped, m, "SIGKSIG")
  BY DEF cause_sig
<1> HIDE DEF t, m, u
<1>4. /\ self \in Tables /\ SameCalls(tab, self)
      /\ added \in Tables /\ SameCalls(tab, added)
      /\ stopped \in Tables /\ SameCalls(tab, stopped)
  <2> DEFINE x == [t[p] EXCEPT !.s_sig_pending = @ \cup {sig}]
             y == [t[p] EXCEPT !.p_pending = @ \cup {sig}]
             z == [y EXCEPT !.rts = @ \cup {"SIGNALED", "SIG_PENDING"}]
  <2>1. t[p] \in Slot
    BY <1>1 DEF Tables
  <2>2. self = [t EXCEPT ![p] = x] /\ added = [t EXCEPT ![p] = y] /\ stopped = [t EXCEPT ![p] = z]
    BY <1>1 DEF Tables
  <2>3. x \in Slot /\ x.alive = t[p].alive /\ x.kcall_resume = t[p].kcall_resume
        /\ x.waiting = t[p].waiting /\ x.saved = t[p].saved /\ x.rts = t[p].rts
    BY <2>1 DEF Slot
  <2>4. y \in Slot /\ y.alive = t[p].alive /\ y.kcall_resume = t[p].kcall_resume
        /\ y.waiting = t[p].waiting /\ y.saved = t[p].saved /\ y.rts = t[p].rts
    BY <2>1 DEF Slot
  <2> HIDE DEF x, y
  <2>5. z \in Slot /\ z.alive = t[p].alive /\ z.kcall_resume = t[p].kcall_resume
        /\ z.waiting = t[p].waiting /\ z.saved = t[p].saved
        /\ ("VMREQUEST" \in z.rts <=> "VMREQUEST" \in t[p].rts)
    BY <2>4 DEF Slot
  <2> HIDE DEF z, self, added, stopped
  <2> QED
    BY <1>1, <2>2, <2>3, <2>4, <2>5 DEF Tables, SameCalls, SameCall
<1> HIDE DEF self, added, stopped
<1>5. CASE u = send_sig(self, p, "SIGKSIGSM")
  <2>1. u \in Tables /\ SameCalls(self, u)
    BY <1>4, <1>5, SendSig DEF KernelSignalNrs
  <2> QED
    BY <1>4, <2>1 DEF SameCalls, SameCall, u
<1>6. CASE u = send_sig(stopped, m, "SIGKSIG")
  <2>1. u \in Tables /\ SameCalls(stopped, u)
    BY <1>2, <1>4, <1>6, SendSig DEF KernelSignalNrs
  <2> QED
    BY <1>4, <2>1 DEF SameCalls, SameCall, u
<1> QED
  BY <1>1, <1>3, <1>4, <1>5, <1>6 DEF u

\* What a dispatched call has done to the table: the call of p is suspended
\* exactly if its result is VMSUSPEND.
Dispatched(t, u, p, result) ==
  /\ u \in Tables
  /\ \A q \in SigProcs :
       SameCall(t, u, q) /\ (q # p => ("VMREQUEST" \in u[q].rts <=> "VMREQUEST" \in t[q].rts))
  /\ "VMREQUEST" \in u[p].rts <=> result = "VMSUSPEND"

LEMMA Dispatch ==
  ASSUME NEW t \in Tables, NEW p \in SigProcs, "VMREQUEST" \notin t[p].rts,
         NEW call \in Calls, NEW target \in SigProcs,
         NEW o \in kernel_call_dispatch(t, p, call, target),
         call = "SYS_KILL" => o.table # Panic
  PROVE  Dispatched(t, o.table, p, o.result)
<1>1. \A q \in SigProcs : t[q] \in Slot
  BY DEF Tables
<1>2. ASSUME NEW result, result # "VMSUSPEND", o = Outcome(t, result)
      PROVE  Dispatched(t, o.table, p, o.result)
  <2>1. o.table = t /\ o.result = result
    BY <1>2 DEF Outcome
  <2> QED
    BY <1>2, <2>1 DEF Dispatched, SameCall
<1>3. CASE call = "SYS_KILL" /\ o = Outcome(cause_sig(t, target, "SIGTERM"), "OK")
  <2>1. o.table = cause_sig(t, target, "SIGTERM") /\ o.result = "OK"
    BY <1>3 DEF Outcome
  <2>2. o.table \in Tables /\ SameCalls(t, o.table)
    BY <1>3, <2>1, CauseSig DEF Signals
  <2> QED
    BY <2>1, <2>2 DEF Dispatched, SameCalls
<1>4. CASE /\ t[p].suspends < MaxSuspends
           /\ o = Outcome([t EXCEPT ![p].rts = @ \cup {"VMREQUEST"},
                                    ![p].suspends = @ + 1], "VMSUSPEND")
  <2> DEFINE flags == t[p].rts \cup {"VMREQUEST"}
             suspends == t[p].suspends + 1
             s == [t[p] EXCEPT !.rts = flags, !.suspends = suspends]
  <2>1. o.table = [t EXCEPT ![p] = s] /\ o.result = "VMSUSPEND"
    <3>1. [t EXCEPT ![p].rts = @ \cup {"VMREQUEST"}, ![p].suspends = @ + 1] = [t EXCEPT ![p] = s]
      BY <1>1 DEF Tables, Slot
    <3> HIDE DEF s
    <3> QED
      BY <1>4, <3>1 DEF Outcome
  <2>2. s \in Slot
    <3>1. suspends \in 0 .. MaxSuspends
      BY <1>1, <1>4, SignalsAssumption DEF Slot
    <3>2. flags \in SUBSET {"SENDING", "SIGNALED", "SIG_PENDING", "VMREQUEST", "NO_PRIV"}
      BY <1>1 DEF Slot
    <3>3. t[p] \in Slot
      BY <1>1
    <3> HIDE DEF flags, suspends
    <3> QED
      BY <3>1, <3>2, <3>3 DEF Slot
  <2>3. /\ s.alive = t[p].alive /\ s.kcall_resume = t[p].kcall_resume
        /\ s.waiting = t[p].waiting /\ s.saved = t[p].saved /\ "VMREQUEST" \in s.rts
    BY <1>1 DEF Slot
  <2> HIDE DEF s
  <2> QED
    BY <2>1, <2>2, <2>3 DEF Dispatched, SameCall, Tables
<1>5. ASSUME NEW s \in Slot, s.alive = t[target].alive,
             s.kcall_resume = t[target].kcall_resume, s.waiting = t[target].waiting,
             s.saved = t[target].saved,
             "VMREQUEST" \in s.rts <=> "VMREQUEST" \in t[target].rts,
             o = Outcome([t EXCEPT ![target] = s], "OK")
      PROVE  Dispatched(t, o.table, p, o.result)
  <2>1. o.table = [t EXCEPT ![target] = s] /\ o.result = "OK"
    BY <1>5 DEF Outcome
  <2> QED
    BY <1>5, <2>1 DEF Dispatched, SameCall, Tables
<1>6. CASE o = Outcome([t EXCEPT ![target].p_pending = {},
                                 ![target].rts = @ \ {"SIGNALED"}], "OK")
  <2> DEFINE s == [t[target] EXCEPT !.p_pending = {}, !.rts = @ \ {"SIGNALED"}]
  <2>1. o = Outcome([t EXCEPT ![target] = s], "OK")
    BY <1>6 DEF Tables
  <2>2. /\ s \in Slot /\ s.alive = t[target].alive
        /\ s.kcall_resume = t[target].kcall_resume /\ s.waiting = t[target].waiting
        /\ s.saved = t[target].saved
        /\ "VMREQUEST" \in s.rts <=> "VMREQUEST" \in t[target].rts
    <3>1. {} \in SUBSET Signals
      OBVIOUS
    <3>2. t[target].rts \ {"SIGNALED"}
            \in SUBSET {"SENDING", "SIGNALED", "SIG_PENDING", "VMREQUEST", "NO_PRIV"}
      BY <1>1 DEF Slot
    <3>3. t[target] \in Slot
      BY <1>1
    <3> QED
      BY <3>1, <3>2, <3>3 DEF Slot
  <2> HIDE DEF s
  <2> QED
    BY <1>5, <2>1, <2>2
<1>7. CASE o = Outcome([t EXCEPT ![target].rts =
                          IF "SIGNALED" \in @ THEN @ ELSE @ \ {"SIG_PENDING"}], "OK")
  <2> DEFINE s == [t[target] EXCEPT !.rts =
                     IF "SIGNALED" \in @ THEN @ ELSE @ \ {"SIG_PENDING"}]
  <2>1. o = Outcome([t EXCEPT ![target] = s], "OK")
    BY <1>7 DEF Tables
  <2>2. /\ s \in Slot /\ s.alive = t[target].alive
        /\ s.kcall_resume = t[target].kcall_resume /\ s.waiting = t[target].waiting
        /\ s.saved = t[target].saved
        /\ "VMREQUEST" \in s.rts <=> "VMREQUEST" \in t[target].rts
    BY <1>1 DEF Slot
  <2> HIDE DEF s
  <2> QED
    BY <1>5, <2>1, <2>2
<1>8. \/ \E result \in {"EBADREQUEST", "ECALLDENIED", "EINVAL", "OK", "EDONTREPLY"} :
           o = Outcome(t, result)
      \/ call = "SYS_KILL" /\ o = Outcome(cause_sig(t, target, "SIGTERM"), "OK")
      \/ /\ t[p].suspends < MaxSuspends
         /\ o = Outcome([t EXCEPT ![p].rts = @ \cup {"VMREQUEST"},
                                  ![p].suspends = @ + 1], "VMSUSPEND")
      \/ o = Outcome([t EXCEPT ![target].p_pending = {},
                               ![target].rts = @ \ {"SIGNALED"}], "OK")
      \/ o = Outcome([t EXCEPT ![target].rts =
                        IF "SIGNALED" \in @ THEN @ ELSE @ \ {"SIG_PENDING"}], "OK")
  BY DEF kernel_call_dispatch, Handled, call_vec, Calls
<1> QED
  BY <1>2, <1>3, <1>4, <1>6, <1>7, <1>8

\* The end of a call of p that was dispatched from t: it waits with its message
\* saved, or has ended.
LEMMA Finish ==
  ASSUME NEW t \in Tables, NEW p \in SigProcs, NEW result, NEW copied \in BOOLEAN,
         NEW resumed \in BOOLEAN, ~t[p].kcall_resume, t[p].waiting,
         "VMREQUEST" \in t[p].rts <=> result = "VMSUSPEND",
         \A q \in SigProcs \ {p} : CallOK(t, q),
         kernel_call_finish(t, p, p, result, copied, resumed) # Panic
  PROVE  LET u == kernel_call_finish(t, p, p, result, copied, resumed)
         IN u \in Tables /\ \A q \in SigProcs : CallOK(u, q)
<1> DEFINE u == kernel_call_finish(t, p, p, result, copied, resumed)
<1>1. t[p] \in Slot
  BY DEF Tables
<1>2. ASSUME NEW s \in Slot, NEW v, v = [t EXCEPT ![p] = s], CallOK(v, p)
      PROVE  v \in Tables /\ \A q \in SigProcs : CallOK(v, q)
  BY <1>2 DEF Tables, CallOK
<1>3. CASE result = "VMSUSPEND"
  <2> DEFINE s == [t[p] EXCEPT !.saved = p, !.kcall_resume = TRUE]
  <2>1. u = [t EXCEPT ![p] = s]
    BY <1>3 DEF kernel_call_finish, Tables
  <2>2. s \in Slot /\ s.kcall_resume = TRUE /\ s.waiting = t[p].waiting /\ s.saved = p
    BY <1>1 DEF Slot
  <2> HIDE DEF s, u
  <2>3. CallOK(u, p)
    BY <2>1, <2>2 DEF CallOK, Tables
  <2> QED
    BY <1>2, <2>1, <2>2, <2>3 DEF u
<1>4. CASE result # "VMSUSPEND"
  <2> DEFINE s(e) == [t[p] EXCEPT !.saved = e, !.waiting = FALSE, !.suspends = 0]
             w(e) == [t EXCEPT ![p] = s(e)]
             e1 == IF resumed THEN SYSTEM ELSE NoOne
  <2>1. \/ u = w(NoOne)
        \/ u = w(e1)
        \/ u = cause_sig(w(e1), p, "SIGSEGV")
    <3> DEFINE removed == [t EXCEPT ![p].saved = NoOne, ![p].waiting = FALSE, ![p].suspends = 0]
               answered == [removed EXCEPT ![p].saved = IF resumed THEN SYSTEM ELSE @]
    <3>1. u = removed \/ u = answered \/ u = cause_sig(answered, p, "SIGSEGV")
      BY <1>4 DEF kernel_call_finish
    <3>2. removed = w(NoOne)
      BY DEF Tables
    <3>3. answered = w(e1)
      <4>1. s(NoOne).saved = NoOne
        BY <1>1 DEF Slot
      <4>2. answered = [t EXCEPT ![p] = [s(NoOne) EXCEPT !.saved = IF resumed THEN SYSTEM ELSE @]]
        <5> HIDE DEF s
        <5> QED
          BY <3>2 DEF Tables
      <4>3. [s(NoOne) EXCEPT !.saved = IF resumed THEN SYSTEM ELSE @] = s(e1)
        BY <1>1, <4>1 DEF Slot
      <4> QED
        BY <4>2, <4>3
    <3> HIDE DEF removed, answered, w
    <3> QED
      BY <3>1, <3>2, <3>3
  <2>2. ASSUME NEW e \in {SYSTEM, NoOne}
        PROVE  w(e) \in Tables /\ \A q \in SigProcs : CallOK(w(e), q)
    <3>1. s(e) \in Slot /\ s(e).waiting = FALSE /\ s(e).rts = t[p].rts
          /\ s(e).kcall_resume = t[p].kcall_resume
      <4>1. 0 \in 0 .. MaxSuspends
        BY SignalsAssumption
      <4> QED
        BY <1>1, <2>2, <4>1 DEF Slot
    <3> HIDE DEF s
    <3>2. CallOK(w(e), p)
      BY <1>4, <3>1 DEF CallOK, Tables
    <3> QED
      BY <1>2, <3>1, <3>2
  <2>3. CASE u = cause_sig(w(e1), p, "SIGSEGV")
    <3>1. w(e1) \in Tables /\ \A q \in SigProcs : CallOK(w(e1), q)
      BY <2>2
    <3> HIDE DEF w, e1
    <3>2. u \in Tables /\ SameCalls(w(e1), u)
      BY <2>3, <3>1, CauseSig DEF Signals
    <3> QED
      BY <3>1, <3>2, SameCallsOK
  <2> HIDE DEF w, u
  <2> QED
    BY <2>1, <2>2, <2>3 DEF u
<1> QED
  BY <1>3, <1>4

-----------------------------------------------------------------------------
\* ResumeInv as a fact about the table.
LEMMA InvFacts ==
  ResumeInv <=> /\ proc \in Tables /\ \A p \in SigProcs : CallOK(proc, p)
                /\ hand \in [{SigMgr, BakMgr} -> SigProcs \cup {"idle", "ask", "gone"}]
                /\ panicked \in BOOLEAN /\ signals \in 0 .. MaxSignals
BY DEF ResumeInv, SignalsTypeOK, ResumeAssertions, CallOK, Tables

\* Either the kernel panics, or the table becomes t.
LEMMA BecomesOK ==
  ASSUME ResumeInv, NEW t, Becomes(t),
         t # Panic => t \in Tables /\ \A p \in SigProcs : CallOK(t, p)
  PROVE  /\ proc' \in Tables /\ \A p \in SigProcs : CallOK(proc', p)
         /\ panicked' \in BOOLEAN
<1>1. CASE t = Panic
  BY <1>1, InvFacts DEF Becomes
<1>2. CASE t # Panic
  BY <1>2, InvFacts DEF Becomes
<1> QED
  BY <1>1, <1>2

LEMMA SignallingOK ==
  ASSUME ResumeInv, NEW faulty \in BOOLEAN, Signalling(faulty)
  PROVE  signals' \in 0 .. MaxSignals
BY SignalsAssumption, InvFacts DEF Signalling

\* A step with a table as it should be, which leaves the managers where they are.
LEMMA TableStep ==
  ASSUME ResumeInv, proc' \in Tables, \A p \in SigProcs : CallOK(proc', p),
         panicked' \in BOOLEAN, signals' \in 0 .. MaxSignals, UNCHANGED hand
  PROVE  ResumeInv'
BY InvFacts DEF ResumeInv, SignalsTypeOK, ResumeAssertions, CallOK, Tables

LEMMA CallingOK ==
  ASSUME ResumeInv, NEW p \in SigProcs, NEW call \in Calls, NEW target \in SigProcs,
         NEW copied \in BOOLEAN, Calling(p, call, target, copied)
  PROVE  /\ proc' \in Tables /\ \A q \in SigProcs : CallOK(proc', q)
         /\ panicked' \in BOOLEAN
<1> DEFINE t == [proc EXCEPT ![p].waiting = TRUE]
<1>1. proc \in Tables /\ \A q \in SigProcs : CallOK(proc, q)
  BY InvFacts
<1>2. proc[p].rts = {} /\ ~proc[p].kcall_resume
  BY DEF Calling, Runnable
<1>3. /\ t \in Tables /\ t[p].rts = {} /\ ~t[p].kcall_resume /\ t[p].waiting
      /\ \A q \in SigProcs \ {p} : CallOK(t, q)
  <2> DEFINE s == [proc[p] EXCEPT !.waiting = TRUE]
  <2>1. proc[p] \in Slot
    BY <1>1 DEF Tables
  <2>2. s \in Slot /\ s.rts = {} /\ s.kcall_resume = proc[p].kcall_resume /\ s.waiting = TRUE
    BY <1>2, <2>1 DEF Slot
  <2>3. t = [proc EXCEPT ![p] = s]
    BY <1>1 DEF Tables
  <2> HIDE DEF s, t
  <2> QED
    BY <1>1, <1>2, <2>2, <2>3 DEF Tables, CallOK
<1> HIDE DEF t
<1>4. PICK o \in kernel_call_dispatch(t, p, call, target) :
        Becomes(IF o.table = Panic THEN Panic
                ELSE kernel_call_finish(o.table, p, p, o.result, copied, FALSE))
  BY DEF Calling, t
<1> DEFINE u == IF o.table = Panic THEN Panic
                ELSE kernel_call_finish(o.table, p, p, o.result, copied, FALSE)
<1>5. ASSUME u # Panic
      PROVE  u \in Tables /\ \A q \in SigProcs : CallOK(u, q)
  <2>1. o.table # Panic /\ u = kernel_call_finish(o.table, p, p, o.result, copied, FALSE)
    BY <1>5
  <2>2. Dispatched(t, o.table, p, o.result)
    BY <1>3, <2>1, Dispatch
  <2>3. /\ o.table \in Tables /\ ~o.table[p].kcall_resume /\ o.table[p].waiting
        /\ "VMREQUEST" \in o.table[p].rts <=> o.result = "VMSUSPEND"
    BY <1>3, <2>2 DEF Dispatched, SameCall
  <2>4. \A q \in SigProcs \ {p} : CallOK(o.table, q)
    BY <1>3, <2>2 DEF Dispatched, SameCall, CallOK
  <2> HIDE DEF u
  <2> QED
    BY <1>5, <2>1, <2>3, <2>4, Finish
<1> HIDE DEF u
<1> QED
  BY <1>4, <1>5, BecomesOK DEF u

\* A signal in a table whose calls are in order.
LEMMA CauseOK ==
  ASSUME ResumeInv, NEW t \in Tables, \A q \in SigProcs : CallOK(t, q),
         NEW p \in SigProcs, NEW sig \in Signals, Becomes(cause_sig(t, p, sig))
  PROVE  /\ proc' \in Tables /\ \A q \in SigProcs : CallOK(proc', q)
         /\ panicked' \in BOOLEAN
<1>1. ASSUME cause_sig(t, p, sig) # Panic
      PROVE  /\ cause_sig(t, p, sig) \in Tables
             /\ \A q \in SigProcs : CallOK(cause_sig(t, p, sig), q)
  BY <1>1, CauseSig, SameCallsOK
<1> QED
  BY <1>1, BecomesOK

LEMMA KernelCallInv ==
  ASSUME ResumeInv, NEW p \in SigProcs, kernel_call(p)
  PROVE  ResumeInv'
<1>1. CASE \E call \in Calls \ {"SYS_GETKSIG", "SYS_ENDKSIG"}, target \in SigProcs,
              copied \in BOOLEAN :
             /\ Signalling(call = "SYS_KILL" \/ ~copied)
             /\ Calling(p, call, target, copied)
  BY <1>1, CallingOK, SignallingOK, TableStep DEF kernel_call
<1>2. CASE Signalling(TRUE) /\ Becomes(cause_sig(proc, p, "SIGSEGV"))
  BY <1>2, InvFacts, CauseOK, SignallingOK, TableStep DEF kernel_call, Signals
<1> QED
  BY <1>1, <1>2 DEF kernel_call

LEMMA ResumeInvStep ==
  ASSUME ResumeInv, NEW p \in SigProcs, kernel_call_resume(p)
  PROVE  ResumeInv'
<1>1. /\ proc \in Tables /\ \A q \in SigProcs : CallOK(proc, q)
      /\ proc[p].alive /\ proc[p].rts = {} /\ proc[p].kcall_resume /\ UNCHANGED hand
  BY InvFacts DEF kernel_call_resume, Runnable
<1>2. proc[p].waiting /\ proc[p].saved = p
  BY <1>1 DEF CallOK
<1>3. PICK copied \in BOOLEAN, o \in kernel_call_dispatch(proc, p, "SYS_VIRCOPY", p) :
        /\ Signalling(~copied)
        /\ Becomes(kernel_call_finish([o.table EXCEPT ![p].kcall_resume = FALSE], p,
                                      proc[p].saved, o.result, copied, TRUE))
  BY DEF kernel_call_resume
<1>4. Dispatched(proc, o.table, p, o.result)
  BY <1>1, Dispatch DEF Calls
<1> DEFINE s == [o.table[p] EXCEPT !.kcall_resume = FALSE]
           t == [o.table EXCEPT ![p] = s]
           u == kernel_call_finish(t, p, p, o.result, copied, TRUE)
<1>5. o.table \in Tables /\ o.table[p] \in Slot /\ o.table[p].waiting
  BY <1>2, <1>4 DEF Dispatched, SameCall, Tables
<1>6. s \in Slot /\ ~s.kcall_resume /\ s.waiting /\ s.rts = o.table[p].rts
  BY <1>5 DEF Slot
<1>7. Becomes(u)
  <2>1. t = [o.table EXCEPT ![p].kcall_resume = FALSE]
    BY <1>5 DEF Tables
  <2> QED
    BY <1>2, <1>3, <2>1
<1> HIDE DEF s
<1>8. /\ t \in Tables /\ ~t[p].kcall_resume /\ t[p].waiting
      /\ "VMREQUEST" \in t[p].rts <=> o.result = "VMSUSPEND"
      /\ \A q \in SigProcs \ {p} : CallOK(t, q)
  BY <1>1, <1>4, <1>5, <1>6 DEF Dispatched, SameCall, CallOK, Tables
<1> HIDE DEF t
<1>9. u # Panic => u \in Tables /\ \A q \in SigProcs : CallOK(u, q)
  BY <1>8, Finish
<1> HIDE DEF u
<1>10. signals' \in 0 .. MaxSignals
  BY <1>3, SignallingOK
<1> QED
  BY <1>1, <1>7, <1>9, <1>10, BecomesOK, TableStep

\* Only the slot of p is set, to one as it should be.
LEMMA SlotStep ==
  ASSUME ResumeInv, NEW p \in SigProcs, NEW s \in Slot, proc' = [proc EXCEPT ![p] = s],
         s.alive => /\ s.kcall_resume <=> s.waiting
                    /\ "VMREQUEST" \in s.rts => s.kcall_resume
                    /\ s.kcall_resume => s.saved = p
  PROVE  proc' \in Tables /\ \A q \in SigProcs : CallOK(proc', q)
BY InvFacts DEF Tables, CallOK

LEMMA VmReplyInv ==
  ASSUME ResumeInv, NEW p \in SigProcs, VmReply(p)
  PROVE  ResumeInv'
<1> DEFINE s == [proc[p] EXCEPT !.rts = @ \ {"VMREQUEST"}]
<1>1. proc \in Tables /\ proc[p] \in Slot /\ CallOK(proc, p)
  BY InvFacts DEF Tables
<1>2. /\ s \in Slot /\ s.alive = proc[p].alive /\ s.kcall_resume = proc[p].kcall_resume
      /\ s.waiting = proc[p].waiting /\ s.saved = proc[p].saved /\ "VMREQUEST" \notin s.rts
  BY <1>1 DEF Slot
<1>3. proc' = [proc EXCEPT ![p] = s]
  BY <1>1 DEF VmReply, Tables
<1> HIDE DEF s
<1>4. proc' \in Tables /\ \A q \in SigProcs : CallOK(proc', q)
  BY <1>1, <1>2, <1>3, SlotStep DEF CallOK
<1> QED
  BY <1>4, InvFacts, TableStep DEF VmReply

LEMMA CpuExceptionInv ==
  ASSUME ResumeInv, NEW p \in SigProcs, CpuException(p)
  PROVE  ResumeInv'
BY InvFacts, CauseOK, SignallingOK, TableStep DEF CpuException, Signals

LEMMA DelayStopInv ==
  ASSUME ResumeInv, NEW p \in SigProcs, DelayStop(p)
  PROVE  ResumeInv'
<1> DEFINE s == [proc[p] EXCEPT !.sig_delay = TRUE, !.rts = {"SENDING"}]
<1>1. proc \in Tables /\ proc[p] \in Slot /\ CallOK(proc, p)
  BY InvFacts DEF Tables
<1>2. /\ s \in Slot /\ s.alive = proc[p].alive /\ s.kcall_resume = proc[p].kcall_resume
      /\ s.waiting = proc[p].waiting /\ s.saved = proc[p].saved /\ "VMREQUEST" \notin s.rts
  BY <1>1 DEF Slot
<1>3. proc' = [proc EXCEPT ![p] = s]
  BY <1>1 DEF DelayStop, Tables
<1> HIDE DEF s
<1>4. proc' \in Tables /\ \A q \in SigProcs : CallOK(proc', q)
  BY <1>1, <1>2, <1>3, SlotStep DEF CallOK
<1> QED
  BY <1>4, InvFacts, TableStep DEF DelayStop

LEMMA MessageSentInv ==
  ASSUME ResumeInv, NEW p \in SigProcs, MessageSent(p)
  PROVE  ResumeInv'
<1> DEFINE t1 == [proc EXCEPT ![p].rts = @ \ {"SENDING"}]
           s == [proc[p] EXCEPT !.rts = @ \ {"SENDING"}, !.sig_delay = FALSE]
           t == [proc EXCEPT ![p] = s]
<1>1. proc \in Tables /\ proc[p] \in Slot /\ \A q \in SigProcs : CallOK(proc, q)
  BY InvFacts DEF Tables
<1>2. /\ s \in Slot /\ s.alive = proc[p].alive /\ s.kcall_resume = proc[p].kcall_resume
      /\ s.waiting = proc[p].waiting /\ s.saved = proc[p].saved
      /\ "VMREQUEST" \in s.rts <=> "VMREQUEST" \in proc[p].rts
  BY <1>1 DEF Slot
<1>3. [t1 EXCEPT ![p].sig_delay = FALSE] = t
  BY <1>1 DEF Tables
<1>4. Becomes(cause_sig(t, p, "SIGSNDELAY"))
  BY <1>3 DEF MessageSent, sig_delay_done
<1> HIDE DEF s
<1>5. t \in Tables /\ \A q \in SigProcs : CallOK(t, q)
  BY <1>1, <1>2 DEF Tables, CallOK
<1> HIDE DEF t
<1> QED
  BY <1>4, <1>5, CauseOK, SignallingOK, TableStep DEF MessageSent, Signals

LEMMA DiagMessageInv ==
  ASSUME ResumeInv, DiagMessage
  PROVE  ResumeInv'
<1> DEFINE t == send_diag_sig(proc, {SigMgr})
<1>1. proc \in Tables /\ \A q \in SigProcs : CallOK(proc, q)
  BY InvFacts
<1>2. \A q \in SigProcs : /\ send_sig(proc, q, "SIGKMESS") \in Tables
                          /\ SameCalls(proc, send_sig(proc, q, "SIGKMESS"))
  BY <1>1, SendSig DEF KernelSignalNrs
<1>3. t \in Tables /\ SameCalls(proc, t)
  BY <1>1, <1>2 DEF send_diag_sig, Tables, SameCalls, SameCall
<1>4. \A q \in SigProcs : CallOK(t, q)
  BY <1>1, <1>3, SameCallsOK
<1> HIDE DEF t
<1>5. Becomes(t)
  BY DEF DiagMessage, t
<1> QED
  BY <1>3, <1>4, <1>5, BecomesOK, SignallingOK, TableStep DEF DiagMessage

LEMMA ManagersInv ==
  ASSUME ResumeInv, NEW m \in {SigMgr, BakMgr}, MgrNext(m)
  PROVE  ResumeInv'
<1>1. m \in SigProcs /\ proc \in Tables /\ proc[m] \in Slot /\ CallOK(proc, m)
  BY InvFacts DEF Tables, SigProcs
<1>2. ASSUME proc' \in Tables, \A q \in SigProcs : CallOK(proc', q), panicked' \in BOOLEAN,
             UNCHANGED signals, NEW h \in SigProcs \cup {"idle", "ask", "gone"},
             hand' = [hand EXCEPT ![m] = h]
      PROVE  ResumeInv'
  BY <1>2, InvFacts DEF ResumeInv, SignalsTypeOK, ResumeAssertions, CallOK, Tables
<1>3. CASE MgrNotified(m)
  <2> DEFINE s == [proc[m] EXCEPT !.notified = FALSE, !.s_sig_pending = {}]
             h == IF "SIGKSIG" \in proc[m].s_sig_pending THEN "ask" ELSE hand[m]
  <2>1. /\ s \in Slot /\ s.alive = proc[m].alive /\ s.kcall_resume = proc[m].kcall_resume
        /\ s.waiting = proc[m].waiting /\ s.saved = proc[m].saved /\ s.rts = proc[m].rts
    BY <1>1 DEF Slot
  <2>2. proc' = [proc EXCEPT ![m] = s] /\ hand' = [hand EXCEPT ![m] = h]
    BY <1>1, <1>3, InvFacts DEF MgrNotified, Tables
  <2> HIDE DEF s
  <2>3. proc' \in Tables /\ \A q \in SigProcs : CallOK(proc', q)
    BY <1>1, <2>1, <2>2, SlotStep DEF CallOK
  <2>4. h \in SigProcs \cup {"idle", "ask", "gone"}
    BY InvFacts
  <2> QED
    BY <1>2, <1>3, <2>2, <2>3, <2>4, InvFacts DEF MgrNotified
<1>4. CASE MgrGetksig(m)
  <2>1. CASE Signaled(m) = {}
    BY <1>2, <1>4, <2>1, InvFacts DEF MgrGetksig
  <2>2. CASE Signaled(m) # {}
    BY <1>1, <1>2, <1>4, <2>2, CallingOK DEF MgrGetksig, Signaled, Calls
  <2> QED
    BY <2>1, <2>2
<1>5. CASE MgrEndksig(m)
  <2>1. CASE hand[m] = "gone"
    BY <1>2, <1>5, <2>1, InvFacts DEF MgrEndksig
  <2>2. CASE hand[m] # "gone"
    BY <1>1, <1>2, <1>5, <2>2, CallingOK DEF MgrEndksig, Calls
  <2> QED
    BY <2>1, <2>2
<1> QED
  BY <1>3, <1>4, <1>5 DEF MgrNext

\* The slot of a process that has ended, or of a new one.
LEMMA FreshSlot ==
  ASSUME NEW p \in SigProcs, NEW alive \in BOOLEAN
  PROVE  /\ [Fresh(p) EXCEPT !.alive = alive] \in Slot
         /\ Fresh(p) = [Fresh(p) EXCEPT !.alive = TRUE]
         /\ LET s == [Fresh(p) EXCEPT !.alive = alive]
            IN ~s.kcall_resume /\ ~s.waiting /\ "VMREQUEST" \notin s.rts
<1> DEFINE flags == IF p = BakMgr THEN {"NO_PRIV"} ELSE {}
           mgr == IF p = BakMgr THEN BakMgr ELSE SigMgr
           bak == IF p = SigMgr THEN BakMgr ELSE NoOne
<1>1. /\ 0 \in 0 .. MaxSuspends /\ mgr \in SigProcs /\ bak \in SigProcs \cup {NoOne}
      /\ flags \in SUBSET {"SENDING", "SIGNALED", "SIG_PENDING", "VMREQUEST", "NO_PRIV"}
      /\ "VMREQUEST" \notin flags /\ {} \in SUBSET Signals
      /\ {} \in SUBSET (Signals \cup KernelSignalNrs)
  BY SignalsAssumption DEF SigProcs
<1> DEFINE f ==
             [alive |-> TRUE, rts |-> flags, p_pending |-> {}, s_sig_mgr |-> mgr,
              s_bak_sig_mgr |-> bak, s_sig_pending |-> {}, notified |-> FALSE,
              kcall_resume |-> FALSE, sig_delay |-> FALSE,
              saved |-> NoOne, suspends |-> 0, waiting |-> FALSE]
<1>2. Fresh(p) = f
  BY DEF Fresh
<1>3. f \in Slot
  <2> HIDE DEF flags, mgr, bak
  <2> QED
    BY <1>1 DEF Slot
<1>4. f.alive = TRUE /\ f.kcall_resume = FALSE /\ f.waiting = FALSE
      /\ "VMREQUEST" \notin f.rts
  BY <1>1
<1> HIDE DEF f
<1>5. [f EXCEPT !.alive = TRUE] = f
  BY <1>3, <1>4 DEF Slot
<1>6. LET s == [f EXCEPT !.alive = alive]
      IN s \in Slot /\ ~s.kcall_resume /\ ~s.waiting /\ "VMREQUEST" \notin s.rts
  BY <1>3, <1>4 DEF Slot
<1> QED
  BY <1>2, <1>5, <1>6

LEMMA ClearsInv ==
  ASSUME ResumeInv, NEW p \in SigProcs, Clears(p) \/ Starts(p)
  PROVE  ResumeInv'
<1>1. PICK alive \in BOOLEAN : proc' = [proc EXCEPT ![p] = [Fresh(p) EXCEPT !.alive = alive]]
  BY FreshSlot DEF Clears, Starts
<1>2. proc' \in Tables /\ \A q \in SigProcs : CallOK(proc', q)
  BY <1>1, FreshSlot, SlotStep
<1>3. /\ hand' \in [{SigMgr, BakMgr} -> SigProcs \cup {"idle", "ask", "gone"}]
      /\ UNCHANGED <<panicked, signals>>
  BY InvFacts DEF Clears, Starts
<1> QED
  BY <1>2, <1>3, InvFacts DEF ResumeInv, SignalsTypeOK, ResumeAssertions, CallOK, Tables

-----------------------------------------------------------------------------
LEMMA ResumeInit == SignalsInit => ResumeInv
<1> SUFFICES ASSUME SignalsInit PROVE ResumeInv
  OBVIOUS
<1>1. proc \in Tables /\ \A p \in SigProcs : CallOK(proc, p)
  BY FreshSlot DEF SignalsInit, Tables, CallOK
<1>2. /\ hand \in [{SigMgr, BakMgr} -> SigProcs \cup {"idle", "ask", "gone"}]
      /\ panicked \in BOOLEAN /\ signals \in 0 .. MaxSignals
  <2>1. 0 \in 0 .. MaxSignals
    BY SignalsAssumption
  <2>2. hand = [m \in {SigMgr, BakMgr} |-> "idle"] /\ panicked = FALSE /\ signals = 0
    BY DEF SignalsInit
  <2> QED
    BY <2>1, <2>2
<1> QED
  BY <1>1, <1>2, InvFacts

LEMMA ResumeNext == ResumeInv /\ [SignalsNext]_sigVars => ResumeInv'
<1> SUFFICES ASSUME ResumeInv, [SignalsNext]_sigVars PROVE ResumeInv'
  OBVIOUS
<1>1. CASE UNCHANGED sigVars
  BY <1>1 DEF sigVars, ResumeInv, SignalsTypeOK, ResumeAssertions
<1>2. CASE SignalsNext
  BY <1>2, KernelCallInv, ResumeInvStep, VmReplyInv, CpuExceptionInv, DelayStopInv,
     MessageSentInv, ClearsInv, ManagersInv, DiagMessageInv DEF SignalsNext
<1> QED
  BY <1>1, <1>2

\* The slots of the process table, the managers and the signals keep their
\* types, with any number of services and any bounds.
THEOREM SignalsTypeCorrect == SignalsSpec => []SignalsTypeOK
<1>1. ResumeInv => SignalsTypeOK
  BY DEF ResumeInv
<1> QED
  BY ResumeInit, ResumeNext, <1>1, PTL DEF SignalsSpec

\* However often a call is suspended, and whoever is signalled, stopped or gone
\* meanwhile, the assertions of kernel_call_resume hold, and a call is resumed
\* exactly while it has not ended.
THEOREM ResumedOnce == SignalsSpec => []ResumeAssertions
<1>1. ResumeInv => ResumeAssertions
  BY DEF ResumeInv
<1> QED
  BY ResumeInit, ResumeNext, <1>1, PTL DEF SignalsSpec

-----------------------------------------------------------------------------
(***************************************************************************)
(* SignaledIsBlocked                                                       *)
(***************************************************************************)
\* Services have RS as their manager; RS itself has, or had, a backup. Whoever
\* manages another process is alive.
ManagersOK(t) ==
  /\ t[SigMgr].alive /\ (t[SigMgr].s_sig_mgr = BakMgr => t[BakMgr].alive)
  /\ \A p \in Services : t[p].s_sig_mgr = SigMgr /\ t[p].s_bak_sig_mgr = NoOne
  /\ t[SigMgr].s_sig_mgr \in {SigMgr, BakMgr} /\ t[SigMgr].s_bak_sig_mgr \in {BakMgr, NoOne}
  /\ t[BakMgr].s_sig_mgr = BakMgr /\ t[BakMgr].s_bak_sig_mgr = NoOne

\* A manager has the signals of a process in hand that it manages.
HandOK(t, h) ==
  \A m \in {SigMgr, BakMgr} :
    h[m] \in SigProcs => t[h[m]].alive /\ t[h[m]].s_sig_mgr = m

\* What SignaledIsBlocked says of a process; and a manager does not wait for itself.
SignalOK(t, h, p) ==
  t[p].alive =>
    LET m == t[p].s_sig_mgr
    IN /\ t[p].p_pending # {} <=> "SIGNALED" \in t[p].rts
       /\ "SIG_PENDING" \in t[p].rts <=> ("SIGNALED" \in t[p].rts \/ h[m] = p)
       /\ "SIGNALED" \in t[p].rts =>
            h[m] # "idle" \/ (t[m].notified /\ "SIGKSIG" \in t[m].s_sig_pending)
       /\ m = p => "SIG_PENDING" \notin t[p].rts

Good(t, h) == ManagersOK(t) /\ HandOK(t, h) /\ \A p \in SigProcs : SignalOK(t, h, p)

\* A stopped kernel need not be in order.
SignalInv == ResumeInv /\ (~panicked => Good(proc, hand))

\* What s says of signals is what r says, or more of notifications.
SameSignal(r, s) ==
  /\ s.alive = r.alive /\ s.p_pending = r.p_pending
  /\ s.s_sig_mgr = r.s_sig_mgr /\ s.s_bak_sig_mgr = r.s_bak_sig_mgr
  /\ "SIGNALED" \in s.rts <=> "SIGNALED" \in r.rts
  /\ "SIG_PENDING" \in s.rts <=> "SIG_PENDING" \in r.rts
  /\ r.notified => s.notified
  /\ "SIGKSIG" \in r.s_sig_pending => "SIGKSIG" \in s.s_sig_pending

LEMMA TheManagers == {SigMgr, BakMgr} \subseteq SigProcs /\ SigMgr # BakMgr /\ NoOne \notin SigProcs
                     /\ Services \subseteq SigProcs /\ SigMgr \notin Services /\ BakMgr \notin Services
BY SignalsAssumption DEF SigProcs

\* Tables are in order when they say the same of signals.
LEMMA FrameGood ==
  ASSUME NEW t, NEW u, NEW h, Good(t, h), \A p \in SigProcs : SameSignal(t[p], u[p])
  PROVE  Good(u, h)
<1>1. ManagersOK(u)
  BY TheManagers DEF Good, ManagersOK, SameSignal
<1>2. HandOK(u, h)
  BY TheManagers DEF Good, HandOK, SameSignal
<1>3. ASSUME NEW p \in SigProcs
      PROVE  SignalOK(u, h, p)
  <2>1. SignalOK(t, h, p) /\ SameSignal(t[p], u[p])
    BY DEF Good
  <2>2. t[p].s_sig_mgr \in SigProcs
    BY TheManagers DEF Good, ManagersOK, SigProcs
  <2>3. SameSignal(t[t[p].s_sig_mgr], u[t[p].s_sig_mgr])
    BY <2>2
  <2> QED
    BY <2>1, <2>3 DEF SignalOK, SameSignal
<1> QED
  BY <1>1, <1>2, <1>3 DEF Good

\* One slot changes.
LEMMA SlotGood ==
  ASSUME NEW t \in Tables, NEW h, Good(t, h), NEW p \in SigProcs, NEW s,
         SameSignal(t[p], s)
  PROVE  Good([t EXCEPT ![p] = s], h)
<1>1. \A q \in SigProcs : SameSignal(t[q], [t EXCEPT ![p] = s][q])
  BY DEF SameSignal, Tables
<1> QED
  BY <1>1, FrameGood

LEMMA SendSigGood ==
  ASSUME NEW t \in Tables, NEW p \in SigProcs, NEW sig \in Signals \cup KernelSignalNrs
  PROVE  /\ \A q \in SigProcs : SameSignal(t[q], send_sig(t, p, sig)[q])
         /\ send_sig(t, p, sig)[p].notified /\ sig \in send_sig(t, p, sig)[p].s_sig_pending
<1> DEFINE s == [t[p] EXCEPT !.s_sig_pending = @ \cup {sig}, !.notified = TRUE]
<1>1. send_sig(t, p, sig) = [t EXCEPT ![p] = s]
  BY DEF send_sig, Tables
<1>2. SameSignal(t[p], s) /\ s.notified /\ sig \in s.s_sig_pending
  <2>1. t[p] \in Slot
    BY DEF Tables
  <2> QED
    BY <2>1 DEF Slot, SameSignal
<1> HIDE DEF s
<1> QED
  BY <1>1, <1>2 DEF Tables, SameSignal

\* The change of managers finds nothing pending of the one that changes its own.
LEMMA TakesOverGood ==
  ASSUME NEW t \in Tables, NEW h, Good(t, h), NEW p \in SigProcs, NEW sig
  PROVE  Good(BackupTakesOver(t, p, sig), h)
<1> DEFINE bak == t[p].s_bak_sig_mgr
           a == [t[p] EXCEPT !.s_sig_mgr = bak, !.s_bak_sig_mgr = NoOne]
           t1 == [t EXCEPT ![p] = a]
           b == [t1[bak] EXCEPT !.rts = @ \ {"NO_PRIV"}]
<1>1. CASE t[p].s_sig_mgr = p /\ sig \in Lethal /\ bak # NoOne /\ t[bak].alive
  <2>1. p = SigMgr /\ bak = BakMgr /\ t[p] \in Slot
    BY <1>1, TheManagers DEF Tables, Good, ManagersOK, SigProcs
  <2>2. /\ a \in Slot /\ a.alive = t[p].alive /\ a.rts = t[p].rts /\ a.p_pending = t[p].p_pending
        /\ a.s_sig_mgr = bak /\ a.s_bak_sig_mgr = NoOne
        /\ a.notified = t[p].notified /\ a.s_sig_pending = t[p].s_sig_pending
    BY <2>1, TheManagers DEF Slot
  <2>3. BackupTakesOver(t, p, sig) = [t1 EXCEPT ![bak] = b]
    BY <1>1, <2>1, TheManagers DEF BackupTakesOver, Tables
  <2> HIDE DEF a, bak
  <2>4. t1 \in Tables /\ t1[SigMgr] = a /\ \A q \in SigProcs \ {SigMgr} : t1[q] = t[q]
    BY <2>1, <2>2 DEF Tables
  <2> HIDE DEF t1
  <2>5. h[SigMgr] # SigMgr /\ h[BakMgr] # SigMgr
    BY <1>1, <2>1, TheManagers DEF Good, HandOK, SignalOK
  <2>6. ManagersOK(t1)
    BY <1>1, <2>1, <2>2, <2>4, TheManagers DEF Good, ManagersOK
  <2>7. HandOK(t1, h)
    BY <2>4, <2>5 DEF Good, HandOK
  <2>8. ASSUME NEW q \in SigProcs
        PROVE  SignalOK(t1, h, q)
    <3>1. SignalOK(t, h, q)
      BY DEF Good
    <3>2. CASE q = SigMgr
      BY <1>1, <2>1, <2>2, <2>4, <2>5, <3>1, <3>2, TheManagers DEF SignalOK
    <3>3. CASE q # SigMgr
      <4>1. t1[q] = t[q] /\ t[q].s_sig_mgr \in SigProcs
        BY <2>4, <3>3, TheManagers DEF Good, ManagersOK, SigProcs
      <4>2. /\ t1[t[q].s_sig_mgr].notified = t[t[q].s_sig_mgr].notified
            /\ t1[t[q].s_sig_mgr].s_sig_pending = t[t[q].s_sig_mgr].s_sig_pending
        BY <2>1, <2>2, <2>4, <4>1
      <4> QED
        BY <3>1, <4>1, <4>2 DEF SignalOK
    <3> QED
      BY <3>2, <3>3
  <2>9. Good(t1, h)
    BY <2>6, <2>7, <2>8 DEF Good
  <2>10. SameSignal(t1[bak], b)
    <3>1. t1[bak] \in Slot
      BY <2>1, <2>4, TheManagers DEF Tables
    <3> QED
      BY <3>1 DEF SameSignal, Slot
  <2> HIDE DEF b
  <2> QED
    <3>1. bak \in SigProcs
      BY <2>1, TheManagers
    <3>2. Good([t1 EXCEPT ![bak] = b], h)
      BY <2>4, <2>9, <2>10, <3>1, SlotGood
    <3> QED
      BY <2>3, <3>2
<1>2. CASE ~(t[p].s_sig_mgr = p /\ sig \in Lethal /\ bak # NoOne /\ t[bak].alive)
  BY <1>2 DEF BackupTakesOver
<1> QED
  BY <1>1, <1>2

LEMMA CauseGood ==
  ASSUME NEW tab \in Tables, NEW h, Good(tab, h), NEW p \in SigProcs, NEW sig \in Signals,
         cause_sig(tab, p, sig) # Panic
  PROVE  Good(cause_sig(tab, p, sig), h)
<1> DEFINE t == BackupTakesOver(tab, p, sig)
           m == t[p].s_sig_mgr
           self == [t EXCEPT ![p].s_sig_pending = @ \cup {sig}]
           added == [t EXCEPT ![p].p_pending = @ \cup {sig}]
           stopped == [added EXCEPT ![p].rts = @ \cup {"SIGNALED", "SIG_PENDING"}]
           u == cause_sig(tab, p, sig)
           x == [t[p] EXCEPT !.s_sig_pending = @ \cup {sig}]
           y == [t[p] EXCEPT !.p_pending = @ \cup {sig}]
           z == [y EXCEPT !.rts = @ \cup {"SIGNALED", "SIG_PENDING"}]
<1>1. t \in Tables /\ Good(t, h) /\ t[p] \in Slot
  BY TakesOver, TakesOverGood DEF Tables
<1>2. m \in SigProcs
  BY <1>1 DEF Slot
<1>3. \/ u = send_sig(self, p, "SIGKSIGSM")
      \/ u = t
      \/ m # p /\ "SIGNALED" \in t[p].rts /\ u = added
      \/ m # p /\ u = send_sig(stopped, m, "SIGKSIG")
  BY DEF cause_sig
<1> HIDE DEF t, m, u
<1>4. self = [t EXCEPT ![p] = x] /\ added = [t EXCEPT ![p] = y] /\ stopped = [t EXCEPT ![p] = z]
  BY <1>1 DEF Tables
<1>5. SameSignal(t[p], x) /\ x \in Slot
  BY <1>1 DEF SameSignal, Slot
<1>6. /\ y \in Slot /\ y.alive = t[p].alive /\ y.rts = t[p].rts /\ sig \in y.p_pending
      /\ y.s_sig_mgr = t[p].s_sig_mgr /\ y.s_bak_sig_mgr = t[p].s_bak_sig_mgr
      /\ y.notified = t[p].notified /\ y.s_sig_pending = t[p].s_sig_pending
  BY <1>1 DEF Slot
<1> HIDE DEF x, y
<1>7. /\ z \in Slot /\ z.alive = t[p].alive /\ sig \in z.p_pending
      /\ "SIGNALED" \in z.rts /\ "SIG_PENDING" \in z.rts
      /\ z.s_sig_mgr = t[p].s_sig_mgr /\ z.s_bak_sig_mgr = t[p].s_bak_sig_mgr
      /\ z.notified = t[p].notified /\ z.s_sig_pending = t[p].s_sig_pending
  BY <1>6 DEF Slot
<1> HIDE DEF z, self, added, stopped
<1>8. CASE u = send_sig(self, p, "SIGKSIGSM")
  <2>1. self \in Tables /\ Good(self, h)
    BY <1>1, <1>4, <1>5, SlotGood DEF Tables
  <2>2. \A q \in SigProcs : SameSignal(self[q], u[q])
    BY <1>8, <2>1, SendSigGood DEF KernelSignalNrs
  <2> QED
    BY <2>1, <2>2, FrameGood DEF u
<1>9. CASE m # p /\ "SIGNALED" \in t[p].rts /\ u = added
  <2>1. u[p] = y /\ \A q \in SigProcs \ {p} : u[q] = t[q]
    BY <1>1, <1>4, <1>9 DEF Tables
  <2>2. ManagersOK(u) /\ HandOK(u, h)
    BY <1>1, <1>6, <2>1, TheManagers DEF Good, ManagersOK, HandOK
  <2>3. ASSUME NEW q \in SigProcs
        PROVE  SignalOK(u, h, q)
    <3>1. SignalOK(t, h, q) /\ t[q].s_sig_mgr \in SigProcs
      BY <1>1 DEF Good, Tables, Slot
    <3>2. /\ u[t[q].s_sig_mgr].notified = t[t[q].s_sig_mgr].notified
          /\ u[t[q].s_sig_mgr].s_sig_pending = t[t[q].s_sig_mgr].s_sig_pending
      BY <1>6, <2>1, <3>1
    <3>3. CASE q = p
      BY <1>6, <1>9, <2>1, <3>1, <3>2, <3>3 DEF SignalOK
    <3>4. CASE q # p
      BY <2>1, <3>1, <3>2, <3>4 DEF SignalOK
    <3> QED
      BY <3>3, <3>4
  <2> QED
    BY <2>2, <2>3 DEF Good, u
<1>10. CASE m # p /\ u = send_sig(stopped, m, "SIGKSIG")
  <2>1. /\ stopped \in Tables /\ stopped[p] = z
        /\ \A q \in SigProcs \ {p} : stopped[q] = t[q]
    BY <1>1, <1>4, <1>7 DEF Tables
  <2>2. /\ \A q \in SigProcs : SameSignal(stopped[q], u[q])
        /\ u[m].notified /\ "SIGKSIG" \in u[m].s_sig_pending
    BY <1>2, <1>10, <2>1, SendSigGood DEF KernelSignalNrs
  <2>3. ManagersOK(u) /\ HandOK(u, h)
    <3>1. \A q \in SigProcs : /\ u[q].alive = t[q].alive /\ u[q].s_sig_mgr = t[q].s_sig_mgr
                              /\ u[q].s_bak_sig_mgr = t[q].s_bak_sig_mgr
      BY <1>7, <2>1, <2>2 DEF SameSignal
    <3> QED
      BY <1>1, <3>1, TheManagers DEF Good, ManagersOK, HandOK
  <2>4. ASSUME NEW q \in SigProcs
        PROVE  SignalOK(u, h, q)
    <3>1. SignalOK(t, h, q) /\ t[q].s_sig_mgr \in SigProcs
      BY <1>1 DEF Good, Tables, Slot
    <3>2. CASE q = p
      <4>1. /\ u[p].s_sig_mgr = m /\ u[p].p_pending # {}
            /\ "SIGNALED" \in u[p].rts /\ "SIG_PENDING" \in u[p].rts
        BY <1>7, <2>1, <2>2 DEF SameSignal, m
      <4> QED
        BY <1>10, <2>2, <3>2, <4>1 DEF SignalOK
    <3>3. CASE q # p
      <4>1. /\ t[t[q].s_sig_mgr].notified => u[t[q].s_sig_mgr].notified
            /\ "SIGKSIG" \in t[t[q].s_sig_mgr].s_sig_pending =>
                 "SIGKSIG" \in u[t[q].s_sig_mgr].s_sig_pending
        BY <1>7, <2>1, <2>2, <3>1 DEF SameSignal
      <4>2. SameSignal(t[q], u[q])
        BY <2>1, <2>2, <3>3
      <4> QED
        BY <3>1, <4>1, <4>2 DEF SignalOK, SameSignal
    <3> QED
      BY <3>2, <3>3
  <2> QED
    BY <2>3, <2>4 DEF Good, u
<1> QED
  BY <1>1, <1>3, <1>8, <1>9, <1>10 DEF u

\* A dispatched call, but those of the managers about a process in their hands.
LEMMA DispatchGood ==
  ASSUME NEW t \in Tables, NEW h, Good(t, h), NEW p \in SigProcs, NEW call \in Calls,
         call \notin {"SYS_GETKSIG", "SYS_ENDKSIG"}, NEW target \in SigProcs,
         NEW o \in kernel_call_dispatch(t, p, call, target),
         call = "SYS_KILL" => o.table # Panic
  PROVE  Good(o.table, h)
<1>1. CASE \E result \in {"EBADREQUEST", "ECALLDENIED", "EINVAL", "OK", "EDONTREPLY"} :
             o = Outcome(t, result)
  BY <1>1 DEF Outcome
<1>2. CASE call = "SYS_KILL" /\ o = Outcome(cause_sig(t, target, "SIGTERM"), "OK")
  <2>1. o.table = cause_sig(t, target, "SIGTERM")
    BY <1>2 DEF Outcome
  <2> QED
    BY <1>2, <2>1, CauseGood DEF Signals
<1>3. CASE o = Outcome([t EXCEPT ![p].rts = @ \cup {"VMREQUEST"},
                                 ![p].suspends = @ + 1], "VMSUSPEND")
  <2> DEFINE s == [t[p] EXCEPT !.rts = @ \cup {"VMREQUEST"}, !.suspends = @ + 1]
  <2>1. o.table = [t EXCEPT ![p] = s]
    <3>1. [t EXCEPT ![p].rts = @ \cup {"VMREQUEST"}, ![p].suspends = @ + 1] = [t EXCEPT ![p] = s]
      BY DEF Tables, Slot
    <3> HIDE DEF s
    <3> QED
      BY <1>3, <3>1 DEF Outcome
  <2>2. SameSignal(t[p], s)
    <3>1. t[p] \in Slot
      BY DEF Tables
    <3> QED
      BY <3>1 DEF SameSignal, Slot
  <2> HIDE DEF s
  <2> QED
    BY <2>1, <2>2, SlotGood
<1>4. \/ \E result \in {"EBADREQUEST", "ECALLDENIED", "EINVAL", "OK", "EDONTREPLY"} :
           o = Outcome(t, result)
      \/ call = "SYS_KILL" /\ o = Outcome(cause_sig(t, target, "SIGTERM"), "OK")
      \/ o = Outcome([t EXCEPT ![p].rts = @ \cup {"VMREQUEST"},
                               ![p].suspends = @ + 1], "VMSUSPEND")
  BY DEF kernel_call_dispatch, Handled, call_vec, Calls
<1> QED
  BY <1>1, <1>2, <1>3, <1>4

LEMMA FinishGood ==
  ASSUME NEW t \in Tables, NEW h, Good(t, h), NEW p \in SigProcs, NEW result,
         NEW copied \in BOOLEAN, NEW resumed \in BOOLEAN,
         kernel_call_finish(t, p, p, result, copied, resumed) # Panic
  PROVE  Good(kernel_call_finish(t, p, p, result, copied, resumed), h)
<1> DEFINE u == kernel_call_finish(t, p, p, result, copied, resumed)
           v == [t[p] EXCEPT !.saved = p, !.kcall_resume = TRUE]
           s == [t[p] EXCEPT !.saved = NoOne, !.waiting = FALSE, !.suspends = 0]
           removed == [t EXCEPT ![p].saved = NoOne, ![p].waiting = FALSE, ![p].suspends = 0]
           answered == [removed EXCEPT ![p].saved = IF resumed THEN SYSTEM ELSE @]
           w == [s EXCEPT !.saved = IF resumed THEN SYSTEM ELSE @]
<1>1. t[p] \in Slot
  BY DEF Tables
<1>2. \/ u = [t EXCEPT ![p].saved = p, ![p].kcall_resume = TRUE]
      \/ u = removed \/ u = answered \/ u = cause_sig(answered, p, "SIGSEGV")
  BY DEF kernel_call_finish
<1> HIDE DEF u
<1>3. [t EXCEPT ![p].saved = p, ![p].kcall_resume = TRUE] = [t EXCEPT ![p] = v]
  BY <1>1 DEF Tables
<1>4. removed = [t EXCEPT ![p] = s]
  BY <1>1 DEF Tables
<1>5. SameSignal(t[p], v) /\ SameSignal(t[p], s)
  BY <1>1 DEF SameSignal, Slot
<1>6. s \in Slot
  <2>1. 0 \in 0 .. MaxSuspends
    BY SignalsAssumption
  <2> QED
    BY <1>1, <2>1 DEF Slot
<1> HIDE DEF s, v
<1>7. Good([t EXCEPT ![p] = v], h)
  BY <1>5, SlotGood
<1>8. removed \in Tables /\ Good(removed, h) /\ removed[p] = s
  <2>1. Good([t EXCEPT ![p] = s], h)
    BY <1>5, SlotGood
  <2> HIDE DEF removed
  <2> QED
    BY <1>4, <1>6, <2>1 DEF Tables
<1> HIDE DEF removed
<1>9. answered = [removed EXCEPT ![p] = w]
  BY <1>8 DEF Tables
<1>10. SameSignal(s, w) /\ w \in Slot
  BY <1>6 DEF SameSignal, Slot
<1> HIDE DEF w
<1>11. answered \in Tables /\ Good(answered, h)
  <2>1. Good([removed EXCEPT ![p] = w], h)
    BY <1>8, <1>10, SlotGood
  <2> HIDE DEF answered
  <2> QED
    BY <1>8, <1>9, <1>10, <2>1 DEF Tables
<1> HIDE DEF answered
<1>12. u # Panic => Good(u, h)
  BY <1>2, <1>3, <1>7, <1>8, <1>11, CauseGood DEF Signals
<1> QED
  BY <1>12 DEF u

-----------------------------------------------------------------------------
LEMMA BecomesGood ==
  ASSUME NEW t, NEW h, Becomes(t), ~panicked', t # Panic => Good(t, h)
  PROVE  Good(proc', h)
BY DEF Becomes

\* p sets off on a call.
LEMMA CallsGood ==
  ASSUME NEW t \in Tables, NEW h, Good(t, h), NEW p \in SigProcs
  PROVE  LET u == [t EXCEPT ![p].waiting = TRUE]
         IN /\ u \in Tables /\ Good(u, h) /\ u[p].rts = t[p].rts
            /\ \A q \in SigProcs : /\ u[q].alive = t[q].alive /\ u[q].rts = t[q].rts
                                   /\ u[q].s_sig_mgr = t[q].s_sig_mgr
<1> DEFINE s == [t[p] EXCEPT !.waiting = TRUE]
<1>1. [t EXCEPT ![p].waiting = TRUE] = [t EXCEPT ![p] = s] /\ t[p] \in Slot
  BY DEF Tables
<1>2. /\ s \in Slot /\ SameSignal(t[p], s) /\ s.rts = t[p].rts /\ s.alive = t[p].alive
      /\ s.s_sig_mgr = t[p].s_sig_mgr
  BY <1>1 DEF Slot, SameSignal
<1> HIDE DEF s
<1>3. [t EXCEPT ![p] = s] \in Tables /\ Good([t EXCEPT ![p] = s], h)
  BY <1>2, SlotGood DEF Tables
<1> QED
  BY <1>1, <1>2, <1>3 DEF Tables

LEMMA CallingGood ==
  ASSUME ResumeInv, Good(proc, hand), NEW p \in SigProcs, NEW call \in Calls,
         call \notin {"SYS_GETKSIG", "SYS_ENDKSIG"}, NEW target \in SigProcs,
         NEW copied \in BOOLEAN, Calling(p, call, target, copied), ~panicked'
  PROVE  Good(proc', hand)
<1> DEFINE t == [proc EXCEPT ![p].waiting = TRUE]
<1>1. t \in Tables /\ Good(t, hand) /\ "VMREQUEST" \notin t[p].rts
  BY InvFacts, CallsGood DEF Calling, Runnable
<1>2. PICK o \in kernel_call_dispatch(t, p, call, target) :
        Becomes(IF o.table = Panic THEN Panic
                ELSE kernel_call_finish(o.table, p, p, o.result, copied, FALSE))
  BY DEF Calling
<1> HIDE DEF t
<1>3. o.table # Panic
  BY <1>2 DEF Becomes
<1>4. o.table \in Tables /\ Good(o.table, hand)
  BY <1>1, <1>3, Dispatch, DispatchGood DEF Dispatched
<1> QED
  BY <1>2, <1>3, <1>4, FinishGood, BecomesGood

LEMMA KernelCallGood ==
  ASSUME ResumeInv, Good(proc, hand), NEW p \in SigProcs, kernel_call(p), ~panicked'
  PROVE  Good(proc', hand')
<1>1. CASE \E call \in Calls \ {"SYS_GETKSIG", "SYS_ENDKSIG"}, target \in SigProcs,
              copied \in BOOLEAN : Calling(p, call, target, copied)
  BY <1>1, CallingGood DEF kernel_call
<1>2. CASE Becomes(cause_sig(proc, p, "SIGSEGV"))
  BY <1>2, InvFacts, CauseGood, BecomesGood DEF kernel_call, Signals
<1> QED
  BY <1>1, <1>2 DEF kernel_call

LEMMA ResumeGood ==
  ASSUME ResumeInv, Good(proc, hand), NEW p \in SigProcs, kernel_call_resume(p), ~panicked'
  PROVE  Good(proc', hand')
<1>1. /\ proc \in Tables /\ "VMREQUEST" \notin proc[p].rts /\ proc[p].saved = p
      /\ UNCHANGED hand
  BY InvFacts DEF kernel_call_resume, Runnable, CallOK
<1>2. PICK copied \in BOOLEAN, o \in kernel_call_dispatch(proc, p, "SYS_VIRCOPY", p) :
        Becomes(kernel_call_finish([o.table EXCEPT ![p].kcall_resume = FALSE], p,
                                   proc[p].saved, o.result, copied, TRUE))
  BY DEF kernel_call_resume
<1>3. o.table \in Tables /\ Good(o.table, hand) /\ o.table[p] \in Slot
  <2>1. Dispatched(proc, o.table, p, o.result)
    BY <1>1, Dispatch DEF Calls
  <2>2. Good(o.table, hand)
    BY <1>1, DispatchGood DEF Calls
  <2> QED
    BY <2>1, <2>2 DEF Dispatched, Tables
<1> DEFINE s == [o.table[p] EXCEPT !.kcall_resume = FALSE]
           t == [o.table EXCEPT ![p] = s]
<1>4. s \in Slot /\ SameSignal(o.table[p], s)
  BY <1>3 DEF Slot, SameSignal
<1>5. [o.table EXCEPT ![p].kcall_resume = FALSE] = t
  BY <1>3 DEF Tables
<1> HIDE DEF s
<1>6. t \in Tables /\ Good(t, hand)
  BY <1>3, <1>4, SlotGood DEF Tables
<1> HIDE DEF t
<1> QED
  BY <1>1, <1>2, <1>5, <1>6, FinishGood, BecomesGood

\* VM answers, or p is to be told of the end of its sending.
LEMMA BlockedGood ==
  ASSUME ResumeInv, Good(proc, hand), NEW p \in SigProcs, VmReply(p) \/ DelayStop(p)
  PROVE  Good(proc', hand')
<1>1. proc \in Tables /\ proc[p] \in Slot /\ UNCHANGED hand
  BY InvFacts DEF Tables, VmReply, DelayStop
<1>2. CASE VmReply(p)
  <2> DEFINE s == [proc[p] EXCEPT !.rts = @ \ {"VMREQUEST"}]
  <2>1. proc' = [proc EXCEPT ![p] = s] /\ SameSignal(proc[p], s)
    BY <1>1, <1>2 DEF VmReply, Tables, SameSignal, Slot
  <2> HIDE DEF s
  <2> QED
    BY <1>1, <2>1, SlotGood
<1>3. CASE DelayStop(p)
  <2> DEFINE s == [proc[p] EXCEPT !.sig_delay = TRUE, !.rts = {"SENDING"}]
  <2>1. proc' = [proc EXCEPT ![p] = s]
    BY <1>1, <1>3 DEF DelayStop, Tables
  <2>2. SameSignal(proc[p], s)
    BY <1>1, <1>3 DEF DelayStop, Runnable, SameSignal, Slot
  <2> HIDE DEF s
  <2> QED
    BY <1>1, <2>1, <2>2, SlotGood
<1> QED
  BY <1>2, <1>3

LEMMA MessageSentGood ==
  ASSUME ResumeInv, Good(proc, hand), NEW p \in SigProcs, MessageSent(p), ~panicked'
  PROVE  Good(proc', hand')
<1> DEFINE t1 == [proc EXCEPT ![p].rts = @ \ {"SENDING"}]
           s == [proc[p] EXCEPT !.rts = @ \ {"SENDING"}, !.sig_delay = FALSE]
           t == [proc EXCEPT ![p] = s]
<1>1. proc \in Tables /\ proc[p] \in Slot
  BY InvFacts DEF Tables
<1>2. s \in Slot /\ SameSignal(proc[p], s)
  BY <1>1 DEF Slot, SameSignal
<1>3. [t1 EXCEPT ![p].sig_delay = FALSE] = t
  BY <1>1 DEF Tables
<1>4. Becomes(cause_sig(t, p, "SIGSNDELAY"))
  BY <1>3 DEF MessageSent, sig_delay_done
<1> HIDE DEF s
<1>5. t \in Tables /\ Good(t, hand)
  BY <1>1, <1>2, SlotGood DEF Tables
<1> HIDE DEF t
<1> QED
  BY <1>4, <1>5, CauseGood, BecomesGood DEF MessageSent, Signals

LEMMA DiagMessageGood ==
  ASSUME ResumeInv, Good(proc, hand), DiagMessage, ~panicked'
  PROVE  Good(proc', hand')
<1> DEFINE t == send_diag_sig(proc, {SigMgr})
<1>1. \A q \in SigProcs : SameSignal(proc[q], send_sig(proc, q, "SIGKMESS")[q])
  BY InvFacts, SendSigGood DEF KernelSignalNrs
<1>2. \A q \in SigProcs : SameSignal(proc[q], t[q])
  BY <1>1 DEF send_diag_sig, SameSignal
<1>3. Becomes(t) /\ UNCHANGED hand
  BY DEF DiagMessage
<1> HIDE DEF t
<1> QED
  BY <1>2, <1>3, FrameGood, BecomesGood

-----------------------------------------------------------------------------
\* A manager with nothing in hand looks for signals, or stops looking when no
\* process it manages has one.
LEMMA HandGood ==
  ASSUME NEW t \in Tables, NEW h \in [{SigMgr, BakMgr} -> SigProcs \cup {"idle", "ask", "gone"}],
         Good(t, h), NEW m \in {SigMgr, BakMgr}, h[m] \notin SigProcs,
         NEW v \in {"idle", "ask"},
         v = "idle" => \A p \in SigProcs :
                         t[p].alive /\ t[p].s_sig_mgr = m => "SIGNALED" \notin t[p].rts
  PROVE  Good(t, [h EXCEPT ![m] = v])
<1>1. v \notin SigProcs
  BY SignalsAssumption
<1>2. HandOK(t, [h EXCEPT ![m] = v])
  BY <1>1 DEF Good, HandOK
<1>3. ASSUME NEW p \in SigProcs
      PROVE  SignalOK(t, [h EXCEPT ![m] = v], p)
  <2>1. SignalOK(t, h, p) /\ t[p].s_sig_mgr \in SigProcs
    BY DEF Good, Tables, Slot
  <2>2. t[p].alive => t[p].s_sig_mgr \in {SigMgr, BakMgr}
    BY TheManagers DEF Good, ManagersOK, SigProcs
  <2>3. v # p /\ h[m] # p
    BY <1>1
  <2> QED
    BY <2>1, <2>2, <2>3 DEF SignalOK
<1> QED
  BY <1>2, <1>3 DEF Good

\* The manager fetches the signals of p and has them in hand.
LEMMA GetksigGood ==
  ASSUME NEW t \in Tables, NEW h \in [{SigMgr, BakMgr} -> SigProcs \cup {"idle", "ask", "gone"}],
         Good(t, h), NEW m \in {SigMgr, BakMgr}, h[m] = "ask", NEW p \in SigProcs,
         t[p].alive, t[p].s_sig_mgr = m, "SIGNALED" \in t[p].rts
  PROVE  Good([t EXCEPT ![p].p_pending = {}, ![p].rts = @ \ {"SIGNALED"}], [h EXCEPT ![m] = p])
<1> DEFINE s == [t[p] EXCEPT !.p_pending = {}, !.rts = @ \ {"SIGNALED"}]
           u == [t EXCEPT ![p] = s]
           g == [h EXCEPT ![m] = p]
<1>1. t[p] \in Slot /\ [t EXCEPT ![p].p_pending = {}, ![p].rts = @ \ {"SIGNALED"}] = u
  BY DEF Tables
<1>2. /\ s.alive /\ s.p_pending = {} /\ "SIGNALED" \notin s.rts
      /\ "SIG_PENDING" \in s.rts <=> "SIG_PENDING" \in t[p].rts
      /\ s.s_sig_mgr = m /\ s.s_bak_sig_mgr = t[p].s_bak_sig_mgr
      /\ s.notified = t[p].notified /\ s.s_sig_pending = t[p].s_sig_pending
  BY <1>1 DEF Slot
<1> HIDE DEF s
<1>3. u[p] = s /\ \A q \in SigProcs \ {p} : u[q] = t[q]
  BY DEF Tables
<1>4. g[m] = p /\ \A n \in {SigMgr, BakMgr} \ {m} : g[n] = h[n]
  OBVIOUS
<1> HIDE DEF u, g
<1>5. "ask" \notin SigProcs /\ "idle" \notin SigProcs
  BY SignalsAssumption
<1>6. ManagersOK(u)
  BY <1>2, <1>3, TheManagers DEF Good, ManagersOK
<1>7. HandOK(u, g)
  BY <1>2, <1>3, <1>4 DEF Good, HandOK
<1>8. ASSUME NEW q \in SigProcs
      PROVE  SignalOK(u, g, q)
  <2>1. SignalOK(t, h, q) /\ SignalOK(t, h, p)
    BY DEF Good
  <2>2. t[q].s_sig_mgr \in {SigMgr, BakMgr}
    BY TheManagers DEF Good, ManagersOK, SigProcs
  <2>3. CASE q = p
    BY <1>2, <1>3, <1>4, <2>1, <2>3 DEF SignalOK
  <2>4. CASE q # p
    <3>1. /\ u[t[q].s_sig_mgr].notified = t[t[q].s_sig_mgr].notified
          /\ u[t[q].s_sig_mgr].s_sig_pending = t[t[q].s_sig_mgr].s_sig_pending
      BY <1>2, <1>3, <2>2, TheManagers
    <3>2. u[q] = t[q]
      BY <1>3, <2>4
    <3>3. CASE t[q].s_sig_mgr = m
      BY <1>4, <1>5, <2>1, <2>4, <3>1, <3>2, <3>3 DEF SignalOK
    <3>4. CASE t[q].s_sig_mgr # m
      BY <1>4, <2>1, <2>2, <3>1, <3>2, <3>4 DEF SignalOK
    <3> QED
      BY <3>3, <3>4
  <2> QED
    BY <2>3, <2>4
<1> QED
  BY <1>1, <1>6, <1>7, <1>8 DEF Good, u, g

\* The manager is done with the signals of p: p goes on unless it has new ones.
LEMMA EndksigGood ==
  ASSUME NEW t \in Tables, NEW h \in [{SigMgr, BakMgr} -> SigProcs \cup {"idle", "ask", "gone"}],
         Good(t, h), NEW m \in {SigMgr, BakMgr}, NEW p \in SigProcs, h[m] = p
  PROVE  Good([t EXCEPT ![p].rts = IF "SIGNALED" \in @ THEN @ ELSE @ \ {"SIG_PENDING"}],
              [h EXCEPT ![m] = "ask"])
<1> DEFINE s == [t[p] EXCEPT !.rts = IF "SIGNALED" \in @ THEN @ ELSE @ \ {"SIG_PENDING"}]
           u == [t EXCEPT ![p] = s]
           g == [h EXCEPT ![m] = "ask"]
<1>1. /\ t[p] \in Slot
      /\ [t EXCEPT ![p].rts = IF "SIGNALED" \in @ THEN @ ELSE @ \ {"SIG_PENDING"}] = u
  BY DEF Tables
<1>2. /\ s.alive = t[p].alive /\ s.p_pending = t[p].p_pending
      /\ "SIGNALED" \in s.rts <=> "SIGNALED" \in t[p].rts
      /\ "SIG_PENDING" \in s.rts <=> "SIGNALED" \in t[p].rts /\ "SIG_PENDING" \in t[p].rts
      /\ s.s_sig_mgr = t[p].s_sig_mgr /\ s.s_bak_sig_mgr = t[p].s_bak_sig_mgr
      /\ s.notified = t[p].notified /\ s.s_sig_pending = t[p].s_sig_pending
  BY <1>1 DEF Slot
<1> HIDE DEF s
<1>3. u[p] = s /\ \A q \in SigProcs \ {p} : u[q] = t[q]
  BY DEF Tables
<1>4. g[m] = "ask" /\ \A n \in {SigMgr, BakMgr} \ {m} : g[n] = h[n]
  OBVIOUS
<1> HIDE DEF u, g
<1>5. "ask" \notin SigProcs /\ t[p].alive /\ t[p].s_sig_mgr = m
  BY SignalsAssumption DEF Good, HandOK
<1>6. ManagersOK(u)
  BY <1>2, <1>3, TheManagers DEF Good, ManagersOK
<1>7. HandOK(u, g)
  BY <1>2, <1>3, <1>4, <1>5 DEF Good, HandOK
<1>8. ASSUME NEW q \in SigProcs
      PROVE  SignalOK(u, g, q)
  <2>1. SignalOK(t, h, q) /\ SignalOK(t, h, p)
    BY DEF Good
  <2>2. t[q].s_sig_mgr \in {SigMgr, BakMgr}
    BY TheManagers DEF Good, ManagersOK, SigProcs
  <2>3. /\ u[t[q].s_sig_mgr].notified = t[t[q].s_sig_mgr].notified
        /\ u[t[q].s_sig_mgr].s_sig_pending = t[t[q].s_sig_mgr].s_sig_pending
    BY <1>2, <1>3, <2>2, TheManagers
  <2>4. CASE q = p
    BY <1>2, <1>3, <1>4, <1>5, <2>1, <2>3, <2>4 DEF SignalOK
  <2>5. CASE q # p
    <3>1. u[q] = t[q]
      BY <1>3, <2>5
    <3>2. CASE t[q].s_sig_mgr = m
      BY <1>4, <1>5, <2>1, <2>3, <2>5, <3>1, <3>2 DEF SignalOK
    <3>3. CASE t[q].s_sig_mgr # m
      BY <1>4, <2>1, <2>2, <2>3, <3>1, <3>3 DEF SignalOK
    <3> QED
      BY <3>2, <3>3
  <2> QED
    BY <2>4, <2>5
<1> QED
  BY <1>1, <1>6, <1>7, <1>8 DEF Good, u, g

\* A call of a manager about p is dispatched and answered.
LEMMA MgrCalling ==
  ASSUME ResumeInv, Good(proc, hand), NEW m \in {SigMgr, BakMgr}, NEW p \in SigProcs,
         NEW call \in {"SYS_GETKSIG", "SYS_ENDKSIG"}, NEW g, ~panicked',
         Calling(m, call, p, TRUE),
         LET t == [proc EXCEPT ![m].waiting = TRUE]
         IN \A o \in Handled(t, m, call, p) : o.table \in Tables /\ Good(o.table, g)
  PROVE  Good(proc', g)
<1> DEFINE t == [proc EXCEPT ![m].waiting = TRUE]
<1>1. m \in SigProcs /\ call \in CallMask(m) /\ call \in call_vec /\ call # "bad number"
  BY TheManagers DEF CallMask, call_vec, Calls
<1>2. kernel_call_dispatch(t, m, call, p) = Handled(t, m, call, p)
  BY <1>1 DEF kernel_call_dispatch
<1>3. PICK o \in Handled(t, m, call, p) :
        Becomes(IF o.table = Panic THEN Panic
                ELSE kernel_call_finish(o.table, m, m, o.result, TRUE, FALSE))
  BY <1>2 DEF Calling
<1>4. o.table \in Tables /\ Good(o.table, g) /\ o.table # Panic
  BY <1>3 DEF Becomes
<1> HIDE DEF t
<1> QED
  BY <1>1, <1>3, <1>4, FinishGood, BecomesGood

LEMMA MgrNotifiedGood ==
  ASSUME ResumeInv, Good(proc, hand), NEW m \in {SigMgr, BakMgr}, MgrNotified(m)
  PROVE  Good(proc', hand')
<1> DEFINE s == [proc[m] EXCEPT !.notified = FALSE, !.s_sig_pending = {}]
<1>1. m \in SigProcs /\ proc \in Tables /\ proc[m] \in Slot
  BY InvFacts, TheManagers DEF Tables
<1>2. proc' = [proc EXCEPT ![m] = s]
  BY <1>1 DEF MgrNotified, Tables
<1>3. /\ s.alive = proc[m].alive /\ s.p_pending = proc[m].p_pending /\ s.rts = proc[m].rts
      /\ s.s_sig_mgr = proc[m].s_sig_mgr /\ s.s_bak_sig_mgr = proc[m].s_bak_sig_mgr
  BY <1>1 DEF Slot
<1> HIDE DEF s
<1>4. /\ \A q \in SigProcs \ {m} : proc'[q] = proc[q]
      /\ \A q \in SigProcs : /\ proc'[q].alive = proc[q].alive
                             /\ proc'[q].p_pending = proc[q].p_pending
                             /\ proc'[q].rts = proc[q].rts
                             /\ proc'[q].s_sig_mgr = proc[q].s_sig_mgr
                             /\ proc'[q].s_bak_sig_mgr = proc[q].s_bak_sig_mgr
  BY <1>1, <1>2, <1>3 DEF Tables
<1>5. /\ hand[m] = "idle" /\ \A n \in {SigMgr, BakMgr} \ {m} : hand'[n] = hand[n]
      /\ hand'[m] = IF "SIGKSIG" \in proc[m].s_sig_pending THEN "ask" ELSE "idle"
  BY InvFacts DEF MgrNotified
<1>6. "ask" \notin SigProcs /\ "idle" \notin SigProcs
  BY SignalsAssumption
<1>7. ManagersOK(proc')
  BY <1>4, TheManagers DEF Good, ManagersOK
<1>8. HandOK(proc', hand')
  BY <1>4, <1>5, <1>6 DEF Good, HandOK
<1>9. ASSUME NEW q \in SigProcs
      PROVE  SignalOK(proc', hand', q)
  <2>1. SignalOK(proc, hand, q)
    BY DEF Good
  <2>2. proc[q].s_sig_mgr \in {SigMgr, BakMgr}
    BY TheManagers DEF Good, ManagersOK, SigProcs
  <2>3. CASE proc[q].s_sig_mgr = m
    BY <1>4, <1>5, <1>6, <2>1, <2>3 DEF SignalOK
  <2>4. CASE proc[q].s_sig_mgr # m
    <3>1. proc'[proc[q].s_sig_mgr] = proc[proc[q].s_sig_mgr]
      BY <1>4, <2>2, <2>4, TheManagers
    <3> QED
      BY <1>4, <1>5, <2>1, <2>2, <2>4, <3>1 DEF SignalOK
  <2> QED
    BY <2>3, <2>4
<1> QED
  BY <1>7, <1>8, <1>9 DEF Good

LEMMA MgrGetksigGood ==
  ASSUME ResumeInv, Good(proc, hand), NEW m \in {SigMgr, BakMgr}, MgrGetksig(m), ~panicked'
  PROVE  Good(proc', hand')
<1>1. m \in SigProcs /\ hand[m] = "ask" /\ "ask" \notin SigProcs
  BY TheManagers, SignalsAssumption DEF MgrGetksig
<1>2. CASE Signaled(m) = {}
  <2>1. \A p \in SigProcs :
          proc[p].alive /\ proc[p].s_sig_mgr = m => "SIGNALED" \notin proc[p].rts
    BY <1>2 DEF Signaled
  <2>2. hand' = [hand EXCEPT ![m] = "idle"] /\ UNCHANGED proc
    BY <1>2 DEF MgrGetksig
  <2> QED
    BY <1>1, <2>1, <2>2, InvFacts, HandGood
<1>3. CASE Signaled(m) # {}
  <2>1. PICK p \in Signaled(m) : Calling(m, "SYS_GETKSIG", p, TRUE)
                                 /\ hand' = [hand EXCEPT ![m] = p]
    BY <1>3 DEF MgrGetksig
  <2> DEFINE t == [proc EXCEPT ![m].waiting = TRUE]
             u == [t EXCEPT ![p].p_pending = {}, ![p].rts = @ \ {"SIGNALED"}]
  <2>2. /\ t \in Tables /\ Good(t, hand) /\ "VMREQUEST" \notin t[m].rts /\ p \in SigProcs
        /\ t[p].alive /\ t[p].s_sig_mgr = m /\ "SIGNALED" \in t[p].rts
    BY <1>1, <2>1, InvFacts, CallsGood DEF Calling, Runnable, Signaled
  <2> HIDE DEF t
  <2>3. Good(u, hand')
    <3>1. Good(u, [hand EXCEPT ![m] = p])
      BY <1>1, <2>2, InvFacts, GetksigGood
    <3> QED
      BY <2>1, <3>1
  <2>4. Handled(t, m, "SYS_GETKSIG", p) = {Outcome(u, "OK")}
    BY DEF Handled
  <2>5. u \in Tables
    <3> DEFINE s == [t[p] EXCEPT !.p_pending = {}, !.rts = @ \ {"SIGNALED"}]
    <3>1. t[p] \in Slot /\ u = [t EXCEPT ![p] = s]
      BY <2>2 DEF Tables
    <3>2. t[p].rts \ {"SIGNALED"}
            \in SUBSET {"SENDING", "SIGNALED", "SIG_PENDING", "VMREQUEST", "NO_PRIV"}
      BY <3>1 DEF Slot
    <3>3. s \in Slot
      <4>1. {} \in SUBSET Signals
        OBVIOUS
      <4> QED
        BY <3>1, <3>2, <4>1 DEF Slot
    <3> HIDE DEF s, u
    <3> QED
      BY <2>2, <3>1, <3>3 DEF Tables
  <2> HIDE DEF u
  <2>6. \A o \in Handled(t, m, "SYS_GETKSIG", p) : o.table \in Tables /\ Good(o.table, hand')
    BY <2>3, <2>4, <2>5 DEF Outcome
  <2> QED
    BY <2>1, <2>2, <2>6, MgrCalling DEF t
<1> QED
  BY <1>2, <1>3

LEMMA MgrEndksigGood ==
  ASSUME ResumeInv, Good(proc, hand), NEW m \in {SigMgr, BakMgr}, MgrEndksig(m), ~panicked'
  PROVE  Good(proc', hand')
<1>1. /\ m \in SigProcs /\ "gone" \notin SigProcs
      /\ hand[m] \in SigProcs \cup {"gone"} /\ hand' = [hand EXCEPT ![m] = "ask"]
  BY TheManagers, SignalsAssumption DEF MgrEndksig
<1>2. CASE hand[m] = "gone"
  <2>1. UNCHANGED proc
    BY <1>2 DEF MgrEndksig
  <2>2. /\ proc \in Tables /\ hand \in [{SigMgr, BakMgr} -> SigProcs \cup {"idle", "ask", "gone"}]
        /\ hand[m] \notin SigProcs
    BY <1>1, <1>2, InvFacts
  <2>3. Good(proc, [hand EXCEPT ![m] = "ask"])
    BY <2>2, HandGood
  <2> QED
    BY <1>1, <2>1, <2>3
<1>3. CASE hand[m] # "gone"
  <2> DEFINE p == hand[m]
             t == [proc EXCEPT ![m].waiting = TRUE]
             u == [t EXCEPT ![p].rts = IF "SIGNALED" \in @ THEN @ ELSE @ \ {"SIG_PENDING"}]
  <2>1. p \in SigProcs /\ Calling(m, "SYS_ENDKSIG", p, TRUE)
    BY <1>1, <1>3 DEF MgrEndksig
  <2>2. t \in Tables /\ Good(t, hand)
    BY <1>1, InvFacts, CallsGood
  <2> HIDE DEF t
  <2>3. Good(u, hand')
    BY <1>1, <2>1, <2>2, InvFacts, EndksigGood
  <2>4. t[p].alive /\ "SIG_PENDING" \in t[p].rts
    BY <2>1, <2>2 DEF Good, HandOK, SignalOK
  <2>5. Handled(t, m, "SYS_ENDKSIG", p) = {Outcome(u, "OK")}
    BY <2>4 DEF Handled
  <2>6. u \in Tables
    <3> DEFINE s == [t[p] EXCEPT !.rts = IF "SIGNALED" \in @ THEN @ ELSE @ \ {"SIG_PENDING"}]
    <3>1. t[p] \in Slot /\ u = [t EXCEPT ![p] = s]
      BY <2>1, <2>2 DEF Tables
    <3>2. s \in Slot
      BY <3>1 DEF Slot
    <3> HIDE DEF s, u
    <3> QED
      BY <2>1, <2>2, <3>1, <3>2 DEF Tables
  <2> HIDE DEF u
  <2>7. \A o \in Handled(t, m, "SYS_ENDKSIG", p) : o.table \in Tables /\ Good(o.table, hand')
    BY <2>3, <2>5, <2>6 DEF Outcome
  <2> HIDE DEF p
  <2> QED
    BY <2>1, <2>7, MgrCalling DEF t
<1> QED
  BY <1>2, <1>3

-----------------------------------------------------------------------------
LEMMA FreshSignal ==
  ASSUME NEW p \in SigProcs, NEW alive \in BOOLEAN
  PROVE  LET s == [Fresh(p) EXCEPT !.alive = alive]
         IN /\ s.alive = alive /\ s.p_pending = {} /\ "SIGNALED" \notin s.rts
            /\ "SIG_PENDING" \notin s.rts
            /\ s.s_sig_mgr = IF p = BakMgr THEN BakMgr ELSE SigMgr
            /\ s.s_bak_sig_mgr = IF p = SigMgr THEN BakMgr ELSE NoOne
BY DEF Fresh

LEMMA ClearsGood ==
  ASSUME ResumeInv, Good(proc, hand), NEW p \in SigProcs, Clears(p)
  PROVE  Good(proc', hand')
<1> DEFINE s == [Fresh(p) EXCEPT !.alive = FALSE]
<1>1. /\ proc'[p] = s /\ \A q \in SigProcs \ {p} : proc'[q] = proc[q]
      /\ \A q \in SigProcs \ {p} : proc[q].s_sig_mgr # p
      /\ \A m \in {SigMgr, BakMgr} : hand'[m] = IF hand[m] = p THEN "gone" ELSE hand[m]
      /\ p # SigMgr
  BY InvFacts DEF Clears, Tables
<1>2. /\ s.alive = FALSE
      /\ s.s_sig_mgr = IF p = BakMgr THEN BakMgr ELSE SigMgr
      /\ s.s_bak_sig_mgr = NoOne
  BY <1>1, FreshSignal
<1> HIDE DEF s
<1>3. "gone" \notin SigProcs
  BY SignalsAssumption
<1>4. ManagersOK(proc')
  BY <1>1, <1>2, TheManagers DEF Good, ManagersOK
<1>5. HandOK(proc', hand')
  BY <1>1, <1>3 DEF Good, HandOK
<1>6. ASSUME NEW q \in SigProcs
      PROVE  SignalOK(proc', hand', q)
  <2>1. CASE q = p
    BY <1>1, <1>2, <2>1 DEF SignalOK
  <2>2. CASE q # p
    <3>1. SignalOK(proc, hand, q) /\ proc'[q] = proc[q]
      BY <1>1, <2>2 DEF Good
    <3>2. proc[q].s_sig_mgr \in {SigMgr, BakMgr} /\ proc[q].s_sig_mgr # p
      BY <1>1, <2>2, TheManagers DEF Good, ManagersOK, SigProcs
    <3>3. proc'[proc[q].s_sig_mgr] = proc[proc[q].s_sig_mgr]
      BY <1>1, <3>2, TheManagers
    <3> QED
      BY <1>1, <1>3, <2>2, <3>1, <3>2, <3>3 DEF SignalOK
  <2> QED
    BY <2>1, <2>2
<1> QED
  BY <1>4, <1>5, <1>6 DEF Good

LEMMA StartsGood ==
  ASSUME ResumeInv, Good(proc, hand), NEW p \in SigProcs, Starts(p)
  PROVE  Good(proc', hand')
<1> DEFINE s == Fresh(p)
<1>1. /\ proc'[p] = s /\ \A q \in SigProcs \ {p} : proc'[q] = proc[q]
      /\ ~proc[p].alive /\ UNCHANGED hand
  BY InvFacts DEF Starts, Tables
<1>2. /\ s.p_pending = {} /\ "SIGNALED" \notin s.rts /\ "SIG_PENDING" \notin s.rts
      /\ s.s_sig_mgr = IF p = BakMgr THEN BakMgr ELSE SigMgr
      /\ s.s_bak_sig_mgr = IF p = SigMgr THEN BakMgr ELSE NoOne
  BY FreshSlot, FreshSignal
<1> HIDE DEF s
<1>3. p # SigMgr /\ \A q \in SigProcs \ {p} : proc[q].s_sig_mgr # p
  BY <1>1, TheManagers DEF Good, ManagersOK, SigProcs
<1>4. ManagersOK(proc')
  BY <1>1, <1>2, <1>3, TheManagers DEF Good, ManagersOK
<1>5. HandOK(proc', hand')
  BY <1>1 DEF Good, HandOK
<1>6. ASSUME NEW q \in SigProcs
      PROVE  SignalOK(proc', hand', q)
  <2>1. CASE q = p
    <3>1. hand[SigMgr] # p /\ hand[BakMgr] # p
      BY <1>1 DEF Good, HandOK
    <3> QED
      BY <1>1, <1>2, <2>1, <3>1 DEF SignalOK
  <2>2. CASE q # p
    <3>1. SignalOK(proc, hand, q) /\ proc'[q] = proc[q]
      BY <1>1, <2>2 DEF Good
    <3>2. proc[q].s_sig_mgr \in {SigMgr, BakMgr} /\ proc[q].s_sig_mgr # p
      BY <1>3, <2>2, TheManagers DEF Good, ManagersOK, SigProcs
    <3>3. proc'[proc[q].s_sig_mgr] = proc[proc[q].s_sig_mgr]
      BY <1>1, <3>2, TheManagers
    <3> QED
      BY <1>1, <3>1, <3>3 DEF SignalOK
  <2> QED
    BY <2>1, <2>2
<1> QED
  BY <1>4, <1>5, <1>6 DEF Good

-----------------------------------------------------------------------------
LEMMA SignalInit == SignalsInit => SignalInv
<1> SUFFICES ASSUME SignalsInit PROVE ResumeInv /\ Good(proc, hand)
  BY DEF SignalInv
<1>1. /\ proc = [p \in SigProcs |-> [Fresh(p) EXCEPT !.alive = (p # BakMgr)]]
      /\ hand = [m \in {SigMgr, BakMgr} |-> "idle"]
  BY DEF SignalsInit
<1>2. "idle" \notin SigProcs
  BY SignalsAssumption
<1>3. \A p \in SigProcs :
        /\ proc[p].alive = (p # BakMgr) /\ proc[p].p_pending = {}
        /\ "SIGNALED" \notin proc[p].rts /\ "SIG_PENDING" \notin proc[p].rts
        /\ proc[p].s_sig_mgr = IF p = BakMgr THEN BakMgr ELSE SigMgr
        /\ proc[p].s_bak_sig_mgr = IF p = SigMgr THEN BakMgr ELSE NoOne
  BY <1>1, FreshSignal
<1>4. ManagersOK(proc)
  BY <1>3, TheManagers DEF ManagersOK
<1>5. HandOK(proc, hand)
  BY <1>1, <1>2 DEF HandOK
<1>6. \A p \in SigProcs : SignalOK(proc, hand, p)
  BY <1>1, <1>2, <1>3 DEF SignalOK
<1> QED
  BY <1>4, <1>5, <1>6, ResumeInit DEF Good

LEMMA SignalNext == SignalInv /\ [SignalsNext]_sigVars => SignalInv'
<1> SUFFICES ASSUME SignalInv, [SignalsNext]_sigVars PROVE SignalInv'
  OBVIOUS
<1>1. ResumeInv /\ ResumeInv'
  BY ResumeNext DEF SignalInv
<1>2. ASSUME ~panicked, ~panicked', SignalsNext
      PROVE  Good(proc', hand')
  <2>1. Good(proc, hand)
    BY <1>2 DEF SignalInv
  <2>2. ASSUME NEW p \in SigProcs,
               \/ kernel_call(p) \/ kernel_call_resume(p) \/ VmReply(p) \/ CpuException(p)
               \/ DelayStop(p) \/ MessageSent(p) \/ Clears(p) \/ Starts(p)
        PROVE  Good(proc', hand')
    <3>1. CASE CpuException(p)
      BY <1>1, <1>2, <2>1, <3>1, InvFacts, CauseGood, BecomesGood DEF CpuException, Signals
    <3> QED
      BY <1>1, <1>2, <2>1, <2>2, <3>1, KernelCallGood, ResumeGood, BlockedGood,
         MessageSentGood, ClearsGood, StartsGood
  <2>3. ASSUME NEW m \in {SigMgr, BakMgr}, MgrNext(m)
        PROVE  Good(proc', hand')
    BY <1>1, <1>2, <2>1, <2>3, MgrNotifiedGood, MgrGetksigGood, MgrEndksigGood DEF MgrNext
  <2> QED
    BY <1>1, <1>2, <2>1, <2>2, <2>3, DiagMessageGood DEF SignalsNext
<1>3. CASE UNCHANGED sigVars
  BY <1>1, <1>3 DEF sigVars, SignalInv, Good, ManagersOK, HandOK, SignalOK
<1>4. CASE SignalsNext
  <2>1. panicked => panicked'
    BY <1>4 DEF SignalsNext, kernel_call, kernel_call_resume, VmReply, CpuException,
       DelayStop, MessageSent, DiagMessage, MgrNext, MgrNotified, MgrGetksig, MgrEndksig,
       Clears, Starts, Signalling
  <2> QED
    BY <1>1, <1>2, <1>4, <2>1 DEF SignalInv
<1> QED
  BY <1>3, <1>4

\* A process with a signal its manager has not fetched, or has in hand, cannot
\* run, and its manager is about to learn of the signal; whichever of RS and its
\* backup is the manager, and whoever ends or is started meanwhile.
THEOREM SignalledWaits == SignalsSpec => []SignaledIsBlocked
<1>1. SignalInv => SignaledIsBlocked
  <2> SUFFICES ASSUME SignalInv, NEW p \in SigProcs, proc[p].alive, ~panicked
               PROVE  LET m == proc[p].s_sig_mgr
                      IN /\ proc[p].p_pending # {} <=> "SIGNALED" \in proc[p].rts
                         /\ "SIG_PENDING" \in proc[p].rts
                              <=> ("SIGNALED" \in proc[p].rts \/ hand[m] = p)
                         /\ "SIGNALED" \in proc[p].rts =>
                              \/ hand[m] # "idle"
                              \/ proc[m].notified /\ "SIGKSIG" \in proc[m].s_sig_pending
    BY DEF SignaledIsBlocked
  <2>1. SignalOK(proc, hand, p)
    BY DEF SignalInv, Good
  <2> QED
    BY <2>1 DEF SignalOK
<1> QED
  BY SignalInit, SignalNext, <1>1, PTL DEF SignalsSpec

-----------------------------------------------------------------------------
(***************************************************************************)
(* KernelIpc: the queues, and what is pending                              *)
(***************************************************************************)
\* Those in the queue q, and that none is in it twice.
Members(q) == {q[i] : i \in DOMAIN q}
NoneTwice(q) == \A i, j \in DOMAIN q : q[i] = q[j] => i = j

\* What Without leaves: the others, each as often as before.
LEMMA WithoutMembers ==
  ASSUME NEW T, NEW q \in Seq(T), NEW S
  PROVE  /\ Without(q, S) \in Seq(T)
         /\ Members(Without(q, S)) = Members(q) \ S
         /\ NoneTwice(q) => NoneTwice(Without(q, S))
<1> DEFINE Def(G) == [i \in 0 .. Len(q) |-> IF i = 0 THEN <<>>
                        ELSE IF q[i] \in S THEN G[i - 1] ELSE Append(G[i - 1], q[i])]
           Kept == CHOOSE G : G = Def(G)
           step == [x \in (1 .. Len(q)) \X Seq(T) |->
                      IF q[x[1]] \in S THEN x[2] ELSE Append(x[2], q[x[1]])]
<1>1. Kept = Def(Kept)
  <2>1. step \in [(1 .. Len(q)) \X Seq(T) -> Seq(T)]
    OBVIOUS
  <2>2. \A i \in 1 .. Len(q), v \in Seq(T) :
          step[<<i, v>>] = IF q[i] \in S THEN v ELSE Append(v, q[i])
    OBVIOUS
  <2> HIDE DEF step
  <2>3. Len(q) \in Nat /\ <<>> \in Seq(T)
    OBVIOUS
  <2>4. PICK G \in [0 .. Len(q) -> Seq(T)] :
          G[0] = <<>> /\ \A i \in 1 .. Len(q) : G[i] = step[<<i, G[i - 1]>>]
    <3>1. Recursion(Len(q), Seq(T), <<>>, step)
      BY <2>1, <2>3 DEF Recursion
    <3>2. \E G : Generated(G, Len(q), Seq(T), <<>>, step)
      BY <3>1, RecursiveFunction, Zenon
    <3> QED
      BY <3>2 DEF Generated
  <2>5. \A i \in 1 .. Len(q) : G[i] = IF q[i] \in S THEN G[i - 1] ELSE Append(G[i - 1], q[i])
    <3> TAKE i \in 1 .. Len(q)
    <3>1. G[i - 1] \in Seq(T)
      BY <2>3
    <3> QED
      BY <2>2, <2>4, <3>1
  <2>6. G = Def(G)
    <3>1. \A i \in 0 .. Len(q) : i = 0 \/ i \in 1 .. Len(q)
      OBVIOUS
    <3> QED
      BY <2>4, <2>5, <3>1
  <2> HIDE DEF Def
  <2> QED
    BY <2>6
<1>2. Kept[0] = <<>> /\ \A i \in 1 .. Len(q) :
        Kept[i] = IF q[i] \in S THEN Kept[i - 1] ELSE Append(Kept[i - 1], q[i])
  <2> HIDE DEF Kept
  <2>1. /\ Def(Kept)[0] = <<>>
        /\ \A i \in 1 .. Len(q) :
             Def(Kept)[i] = IF q[i] \in S THEN Kept[i - 1] ELSE Append(Kept[i - 1], q[i])
    OBVIOUS
  <2> HIDE DEF Def
  <2> QED
    BY <1>1, <2>1, Zenon
<1>3. Without(q, S) = Kept[Len(q)]
  BY DEF Without
<1> HIDE DEF Kept
<1> DEFINE Upto(i) == {q[j] : j \in 1 .. i} \ S
           P(i) == /\ Kept[i] \in Seq(T) /\ Members(Kept[i]) = Upto(i)
                   /\ NoneTwice(q) => NoneTwice(Kept[i])
           X == {i \in Nat : i <= Len(q) => P(i)}
<1>4. 0 \in X
  <2>1. Kept[0] \in Seq(T) /\ DOMAIN Kept[0] = {}
    BY <1>2
  <2>2. Members(Kept[0]) = {} /\ NoneTwice(Kept[0])
    BY <2>1 DEF Members, NoneTwice
  <2>3. Upto(0) = {}
    OBVIOUS
  <2> QED
    BY <2>1, <2>2, <2>3
<1>5. ASSUME NEW n \in X, n \in Nat /\ n < Len(q) PROVE n + 1 \in X
  <2>1. P(n)
    BY <1>5
  <2>2. n + 1 \in 1 .. Len(q) /\ (n + 1) - 1 = n /\ q[n + 1] \in T
    BY <1>5
  <2>3. Upto(n + 1) = Upto(n) \cup ({q[n + 1]} \ S)
    BY <1>5
  <2>4. Upto(n) \subseteq {q[j] : j \in 1 .. n}
    OBVIOUS
  <2> HIDE DEF Upto
  <2>5. ASSUME q[n + 1] \in S PROVE P(n + 1)
    <3>1. Kept[n + 1] = Kept[n]
      BY <1>2, <2>2, <2>5
    <3> QED
      BY <2>1, <2>3, <2>5, <3>1
  <2>6. ASSUME q[n + 1] \notin S PROVE P(n + 1)
    <3> DEFINE k == Kept[n]
    <3>1. Kept[n + 1] = Append(k, q[n + 1])
      BY <1>2, <2>2, <2>6
    <3>2. k \in Seq(T) /\ Members(k) = Upto(n) /\ (NoneTwice(q) => NoneTwice(k))
      BY <2>1
    <3> HIDE DEF k
    <3>3. /\ Append(k, q[n + 1]) \in Seq(T) /\ Len(k) \in Nat
          /\ DOMAIN Append(k, q[n + 1]) = 1 .. Len(k) + 1 /\ DOMAIN k = 1 .. Len(k)
          /\ Append(k, q[n + 1])[Len(k) + 1] = q[n + 1]
          /\ \A i \in 1 .. Len(k) : Append(k, q[n + 1])[i] = k[i]
      BY <2>2, <3>2
    <3>4. Members(Append(k, q[n + 1])) = Members(k) \cup {q[n + 1]}
      BY <3>3 DEF Members
    <3>5. NoneTwice(q) => q[n + 1] \notin Members(k)
      BY <1>5, <2>2, <2>4, <3>2 DEF NoneTwice
    <3>6. NoneTwice(q) => NoneTwice(Append(k, q[n + 1]))
      BY <3>2, <3>3, <3>5 DEF NoneTwice, Members
    <3> QED
      BY <2>3, <2>6, <3>1, <3>2, <3>3, <3>4, <3>6
  <2>7. P(n + 1)
    BY <2>5, <2>6
  <2> HIDE DEF P
  <2> QED
    BY <1>5, <2>7
<1> HIDE DEF X
<1>6. 0 .. Len(q) \subseteq X
  BY <1>4, <1>5, InductTo
<1>7. P(Len(q))
  <2>1. Len(q) \in X /\ Len(q) \in Nat
    BY <1>6
  <2> QED
    BY <2>1 DEF X
<1>8. {q[j] : j \in 1 .. Len(q)} = Members(q)
  BY DEF Members
<1> QED
  BY <1>3, <1>7, <1>8

-----------------------------------------------------------------------------
\* NobodyWaitsForTheDead is nearly inductive.  The queue of a process is told by
\* its members, none of them twice, and a process that sends and receives
\* (SENDREC) does both with the same one: when that one ends, both end.
IpcQueues ==
  \A p \in IpcProcs :
    /\ Members(caller_q[p]) = {q \in IpcProcs : Sending(q) /\ sendto[q] = p}
    /\ NoneTwice(caller_q[p])

IpcBlocked ==
  \A p \in IpcProcs :
    /\ Sending(p) => sendto[p] \in running
    /\ Receiving(p) => getfrom[p] \in running \cup {ANY}
    /\ Sending(p) /\ Receiving(p) => getfrom[p] = sendto[p]

IpcDead == \A p \in IpcProcs \ running : rts[p] = {} /\ table[p] = {}

IpcPending ==
  \A p \in running : /\ notify[p] \subseteq running
                     /\ \A q \in asyn[p] : q \in running /\ p \in table[q]

IpcInv == IpcTypeOK /\ IpcQueues /\ IpcBlocked /\ IpcDead /\ IpcPending

LEMMA IpcInvInit == IpcInit => IpcInv
<1> SUFFICES ASSUME IpcInit PROVE IpcInv
  OBVIOUS
<1>1. IpcTypeOK
  BY DEF IpcInit, IpcTypeOK
<1>2. IpcQueues
  <2>1. ASSUME NEW p \in IpcProcs
        PROVE  Members(caller_q[p]) = {} /\ NoneTwice(caller_q[p])
    <3>1. caller_q[p] = <<>>
      BY DEF IpcInit
    <3>2. DOMAIN caller_q[p] = {}
      BY <3>1
    <3> QED
      BY <3>2 DEF Members, NoneTwice
  <2>2. \A q \in IpcProcs : ~Sending(q)
    BY DEF IpcInit, Sending
  <2> QED
    BY <2>1, <2>2 DEF IpcQueues
<1>3. IpcBlocked /\ IpcDead /\ IpcPending
  BY DEF IpcInit, IpcBlocked, IpcDead, IpcPending, Sending, Receiving
<1> QED
  BY <1>1, <1>2, <1>3 DEF IpcInv

\* clear_ipc takes those of S out of the queues they are in.
LEMMA ClearIpcStep ==
  ASSUME IpcTypeOK, IpcQueues, NEW S \in SUBSET IpcProcs, clear_ipc(S)
  PROVE  /\ IpcQueues'
         /\ rts' \in [IpcProcs -> SUBSET {"SENDING", "RECEIVING"}]
         /\ sendto' \in [IpcProcs -> IpcProcs \cup {NoProcess}]
         /\ getfrom' \in [IpcProcs -> IpcProcs \cup {ANY, NoProcess}]
         /\ caller_q' \in [IpcProcs -> Seq(IpcProcs)]
         /\ \A p \in S : rts'[p] = {}
         /\ \A p \in IpcProcs \ S : /\ rts'[p] = rts[p] /\ sendto'[p] = sendto[p]
                                    /\ getfrom'[p] = getfrom[p]
<1> DEFINE senders == {p \in S : Sending(p)}
           gone(q) == {p \in senders : sendto[p] = q}
<1>1. /\ caller_q' = [q \in IpcProcs |-> Without(caller_q[q], gone(q))]
      /\ rts' = [p \in IpcProcs |-> IF p \in S THEN {} ELSE rts[p]]
      /\ sendto' = [p \in IpcProcs |-> IF p \in senders THEN NoProcess ELSE sendto[p]]
      /\ getfrom' = [p \in IpcProcs |-> IF p \in S THEN NoProcess ELSE getfrom[p]]
  BY DEF clear_ipc
<1>2. \A p \in IpcProcs : Sending(p)' <=> Sending(p) /\ p \notin S
  BY <1>1 DEF Sending
<1>3. ASSUME NEW q \in IpcProcs
      PROVE  /\ caller_q'[q] \in Seq(IpcProcs) /\ NoneTwice(caller_q'[q])
             /\ Members(caller_q'[q]) = {p \in IpcProcs : Sending(p)' /\ sendto'[p] = q}
  <2>1. /\ caller_q[q] \in Seq(IpcProcs) /\ NoneTwice(caller_q[q])
        /\ Members(caller_q[q]) = {p \in IpcProcs : Sending(p) /\ sendto[p] = q}
    BY DEF IpcTypeOK, IpcQueues
  <2>2. caller_q'[q] = Without(caller_q[q], gone(q))
    BY <1>1
  <2> DEFINE G == gone(q)
             c == caller_q[q]
  <2> HIDE DEF G, c
  <2>3. /\ Without(c, G) \in Seq(IpcProcs) /\ NoneTwice(Without(c, G))
        /\ Members(Without(c, G)) = Members(c) \ G
    BY <2>1, WithoutMembers DEF c
  <2>4. Members(c) \ G = {p \in IpcProcs : Sending(p)' /\ sendto'[p] = q}
    BY <1>1, <1>2, <2>1 DEF c, G
  <2> QED
    BY <2>2, <2>3, <2>4 DEF c, G
<1>4. IpcQueues'
  BY <1>3 DEF IpcQueues
<1>5. caller_q' \in [IpcProcs -> Seq(IpcProcs)]
  <2>1. caller_q' = [q \in IpcProcs |-> caller_q'[q]]
    BY <1>1
  <2> HIDE DEF gone
  <2> QED
    BY <1>3, <2>1
<1>6. /\ rts' \in [IpcProcs -> SUBSET {"SENDING", "RECEIVING"}]
      /\ sendto' \in [IpcProcs -> IpcProcs \cup {NoProcess}]
      /\ getfrom' \in [IpcProcs -> IpcProcs \cup {ANY, NoProcess}]
  BY <1>1 DEF IpcTypeOK
<1>7. /\ \A p \in S : rts'[p] = {}
      /\ \A p \in IpcProcs \ S : /\ rts'[p] = rts[p] /\ sendto'[p] = sendto[p]
                                 /\ getfrom'[p] = getfrom[p]
  BY <1>1
<1> QED
  BY <1>4, <1>5, <1>6, <1>7

\* Those blocked on rc are all there are: a process in the middle of a SENDREC to
\* another one does not receive from rc.
LEMMA WaitersAll ==
  ASSUME IpcInv, NEW rc \in running, NEW p \in IpcProcs,
         (Sending(p) /\ sendto[p] = rc) \/ (Receiving(p) /\ getfrom[p] = rc)
  PROVE  p \in Waiters(rc)
<1>1. p \in running
  BY DEF IpcInv, IpcDead, Sending, Receiving
<1>2. BlockedOn(p) = rc
  BY DEF IpcInv, IpcBlocked, BlockedOn
<1> QED
  BY <1>1, <1>2 DEF Waiters

\* SYS_CLEAR and SYS_STATECTL.
LEMMA ClearEndpointStep ==
  ASSUME IpcInv, NEW rc \in IpcProcs, clear_endpoint(rc) \/ StateClear(rc)
  PROVE  IpcInv'
<1>1. rc \in running /\ running \subseteq IpcProcs
  BY DEF clear_endpoint, StateClear, CanRun, IpcInv, IpcTypeOK
<1>2. ASSUME NEW tables \in [IpcProcs -> SUBSET IpcProcs], NEW S \in SUBSET IpcProcs,
             clear_ipc_refs(rc, tables, S), Waiters(rc) \subseteq S,
             \A p \in IpcProcs \ {rc} : tables[p] = table[p],
             \/ running' = running /\ tables[rc] = table[rc]
             \/ running' = running \ {rc} /\ tables[rc] = {} /\ rc \in S
      PROVE  IpcInv'
  <2>1. /\ table' = [p \in IpcProcs |-> IF p \in asyn[rc] THEN tables[p] \ {rc} ELSE tables[p]]
        /\ notify' = [p \in IpcProcs |-> IF p \in running THEN notify[p] \ {rc} ELSE notify[p]]
        /\ asyn' = [p \in IpcProcs |->
                IF p = rc THEN {}
                ELSE IF p \in running THEN asyn[p] \ {rc} ELSE asyn[p]]
        /\ clear_ipc(S)
    BY <1>2 DEF clear_ipc_refs
  <2>2. /\ IpcQueues'
        /\ rts' \in [IpcProcs -> SUBSET {"SENDING", "RECEIVING"}]
        /\ sendto' \in [IpcProcs -> IpcProcs \cup {NoProcess}]
        /\ getfrom' \in [IpcProcs -> IpcProcs \cup {ANY, NoProcess}]
        /\ caller_q' \in [IpcProcs -> Seq(IpcProcs)]
        /\ \A p \in S : rts'[p] = {}
        /\ \A p \in IpcProcs \ S : /\ rts'[p] = rts[p] /\ sendto'[p] = sendto[p]
                                    /\ getfrom'[p] = getfrom[p]
    BY <2>1, ClearIpcStep DEF IpcInv
  <2>3. IpcTypeOK'
    <3>1. /\ table' \in [IpcProcs -> SUBSET IpcProcs] /\ notify' \in [IpcProcs -> SUBSET IpcProcs]
          /\ asyn' \in [IpcProcs -> SUBSET IpcProcs]
      BY <2>1 DEF IpcInv, IpcTypeOK
    <3>2. running' \subseteq IpcProcs
      BY <1>1, <1>2
    <3> QED
      BY <2>2, <3>1, <3>2 DEF IpcTypeOK
  <2>4. ASSUME NEW p \in IpcProcs
        PROVE  /\ Sending(p)' => sendto'[p] \in running'
               /\ Receiving(p)' => getfrom'[p] \in running' \cup {ANY}
               /\ Sending(p)' /\ Receiving(p)' => getfrom'[p] = sendto'[p]
    <3>1. CASE p \in S
      BY <2>2, <3>1 DEF Sending, Receiving
    <3>2. CASE p \notin S
      <4>1. /\ rts'[p] = rts[p] /\ sendto'[p] = sendto[p] /\ getfrom'[p] = getfrom[p]
        BY <2>2, <3>2
      <4>2. ~((Sending(p) /\ sendto[p] = rc) \/ (Receiving(p) /\ getfrom[p] = rc))
        BY <1>1, <1>2, <3>2, WaitersAll
      <4>4. running \ {rc} \subseteq running'
        BY <1>2
      <4>5. /\ Sending(p) => sendto[p] \in running
            /\ Receiving(p) => getfrom[p] \in running \cup {ANY}
            /\ Sending(p) /\ Receiving(p) => getfrom[p] = sendto[p]
        BY DEF IpcInv, IpcBlocked
      <4> QED
        BY <4>1, <4>2, <4>4, <4>5 DEF Sending, Receiving
    <3> QED
      BY <3>1, <3>2
  <2>5. IpcDead'
    <3> SUFFICES ASSUME NEW p \in IpcProcs, p \notin running' PROVE rts'[p] = {} /\ table'[p] = {}
      BY DEF IpcDead
    <3>1. CASE p = rc
      BY <1>1, <1>2, <2>1, <2>2, <3>1
    <3>2. CASE p # rc
      <4>1. p \notin running /\ rts[p] = {} /\ tables[p] = {}
        BY <1>2, <3>2 DEF IpcInv, IpcDead
      <4> QED
        BY <2>1, <2>2, <4>1
    <3> QED
      BY <3>1, <3>2
  <2>6. IpcPending'
    <3> SUFFICES ASSUME NEW p \in running'
                 PROVE  /\ notify'[p] \subseteq running'
                        /\ \A q \in asyn'[p] : q \in running' /\ p \in table'[q]
      BY DEF IpcPending
    <3>1. /\ p \in running /\ p \in IpcProcs /\ notify[p] \subseteq running
          /\ \A q \in asyn[p] : q \in running /\ p \in table[q]
      BY <1>1, <1>2 DEF IpcInv, IpcPending
    <3>2. notify'[p] \subseteq running'
      BY <1>2, <2>1, <3>1
    <3>3. ASSUME NEW q \in asyn'[p] PROVE q \in running' /\ p \in table'[q]
      <4>1. p # rc /\ q \in asyn[p] /\ q # rc
        BY <2>1, <3>1, <3>3
      <4>2. q \in running /\ q \in IpcProcs /\ tables[q] = table[q]
        BY <1>1, <1>2, <3>1, <4>1
      <4> QED
        BY <1>2, <2>1, <3>1, <4>1, <4>2
    <3> QED
      BY <3>2, <3>3
  <2> QED
    BY <2>2, <2>3, <2>4, <2>5, <2>6 DEF IpcInv, IpcBlocked
<1>3. Waiters(rc) \subseteq IpcProcs /\ table \in [IpcProcs -> SUBSET IpcProcs]
  BY <1>1 DEF Waiters, IpcInv, IpcTypeOK
<1>4. CASE clear_endpoint(rc)
  <2> DEFINE tables == [table EXCEPT ![rc] = {}]
             S == {rc} \cup Waiters(rc)
  <2>1. clear_ipc_refs(rc, tables, S) /\ running' = running \ {rc}
    BY <1>4 DEF clear_endpoint
  <2>2. /\ tables \in [IpcProcs -> SUBSET IpcProcs] /\ tables[rc] = {}
        /\ \A p \in IpcProcs \ {rc} : tables[p] = table[p]
    BY <1>3
  <2>3. S \in SUBSET IpcProcs /\ Waiters(rc) \subseteq S /\ rc \in S
    BY <1>3
  <2> HIDE DEF tables, S
  <2> QED
    BY <1>2, <2>1, <2>2, <2>3
<1>5. CASE StateClear(rc)
  <2>1. clear_ipc_refs(rc, table, Waiters(rc)) /\ running' = running
    BY <1>5 DEF StateClear
  <2> QED
    BY <1>2, <1>3, <2>1
<1> QED
  BY <1>4, <1>5

\* The queues depend on who sends to whom only.
LEMMA QueuesFrame ==
  ASSUME IpcQueues, UNCHANGED caller_q,
         \A p \in IpcProcs : /\ Sending(p)' <=> Sending(p)
                             /\ Sending(p) => sendto'[p] = sendto[p]
  PROVE  IpcQueues'
<1> SUFFICES ASSUME NEW p \in IpcProcs
             PROVE  /\ Members(caller_q'[p]) = {q \in IpcProcs : Sending(q)' /\ sendto'[q] = p}
                    /\ NoneTwice(caller_q'[p])
  BY DEF IpcQueues
<1>1. /\ Members(caller_q[p]) = {q \in IpcProcs : Sending(q) /\ sendto[q] = p}
      /\ NoneTwice(caller_q[p])
  BY DEF IpcQueues
<1>2. {q \in IpcProcs : Sending(q)' /\ sendto'[q] = p} = {q \in IpcProcs : Sending(q) /\ sendto[q] = p}
  OBVIOUS
<1> QED
  BY <1>1, <1>2

LEMMA ForksStep ==
  ASSUME IpcInv, NEW p \in IpcProcs, Forks(p)
  PROVE  IpcInv'
<1> USE DEF IpcInv
<1>1. /\ p \notin running /\ running' = running \cup {p}
      /\ notify' = [notify EXCEPT ![p] = {}] /\ asyn' = [asyn EXCEPT ![p] = {}]
      /\ UNCHANGED <<rts, sendto, getfrom, caller_q, table>>
  BY DEF Forks
<1>2. IpcTypeOK'
  BY <1>1 DEF IpcTypeOK
<1>3. IpcQueues'
  BY <1>1, QueuesFrame DEF Sending
<1>4. IpcBlocked'
  BY <1>1 DEF IpcBlocked, Sending, Receiving
<1>5. IpcDead'
  BY <1>1 DEF IpcDead
<1>6. IpcPending'
  BY <1>1 DEF IpcPending, IpcTypeOK
<1> QED
  BY <1>2, <1>3, <1>4, <1>5, <1>6

LEMMA SendStep ==
  ASSUME IpcInv, NEW p \in IpcProcs, NEW d \in IpcProcs, NEW rec \in BOOLEAN, Send(p, d, rec)
  PROVE  IpcInv'
<1> DEFINE after == IF rec THEN {"RECEIVING"} ELSE {}
           from == IF rec THEN d ELSE NoProcess
<1> USE DEF IpcInv
<1>1. /\ p \in running /\ rts[p] = {} /\ d \in running /\ d # p
      /\ UNCHANGED <<running, notify, asyn, table>>
  BY DEF Send, CanRun
<1>2. /\ after \in SUBSET {"SENDING", "RECEIVING"} /\ "SENDING" \notin after
      /\ from \in IpcProcs \cup {ANY, NoProcess} /\ ("RECEIVING" \in after => from = d)
  OBVIOUS
<1>3. \/ /\ WillReceive(d, p)
         /\ rts' = [rts EXCEPT ![d] = {}, ![p] = after]
         /\ getfrom' = [getfrom EXCEPT ![d] = NoProcess, ![p] = from]
         /\ UNCHANGED <<sendto, caller_q>>
      \/ /\ rts' = [rts EXCEPT ![p] = after \cup {"SENDING"}]
         /\ sendto' = [sendto EXCEPT ![p] = d]
         /\ getfrom' = [getfrom EXCEPT ![p] = from]
         /\ caller_q' = [caller_q EXCEPT ![d] = Append(@, p)]
  BY DEF Send
<1> HIDE DEF after, from
<1>4. IpcPending'
  BY <1>1 DEF IpcPending
\* d was waiting for the message.
<1>5. CASE /\ WillReceive(d, p)
           /\ rts' = [rts EXCEPT ![d] = {}, ![p] = after]
           /\ getfrom' = [getfrom EXCEPT ![d] = NoProcess, ![p] = from]
           /\ UNCHANGED <<sendto, caller_q>>
  <2>1. IpcTypeOK'
    BY <1>1, <1>2, <1>5 DEF IpcTypeOK
  <2>2. /\ rts'[d] = {} /\ rts'[p] = after /\ getfrom'[p] = from /\ rts[d] = {"RECEIVING"}
        /\ \A t \in IpcProcs \ {d, p} : rts'[t] = rts[t] /\ getfrom'[t] = getfrom[t]
    BY <1>1, <1>5 DEF IpcTypeOK, WillReceive
  <2>3. IpcQueues'
    BY <1>1, <1>2, <1>5, <2>2, QueuesFrame DEF Sending
  <2>4. IpcBlocked'
    <3> SUFFICES ASSUME NEW t \in IpcProcs
                 PROVE  /\ "SENDING" \in rts'[t] => sendto'[t] \in running'
                        /\ "RECEIVING" \in rts'[t] => getfrom'[t] \in running' \cup {ANY}
                        /\ "SENDING" \in rts'[t] /\ "RECEIVING" \in rts'[t] => getfrom'[t] = sendto'[t]
      BY DEF IpcBlocked, Sending, Receiving
    <3>1. CASE t = d
      BY <2>2, <3>1
    <3>2. CASE t = p
      BY <1>1, <1>2, <2>2, <3>2
    <3>3. CASE t \notin {d, p}
      BY <1>1, <1>5, <2>2, <3>3 DEF IpcBlocked, Sending, Receiving
    <3> QED
      BY <3>1, <3>2, <3>3
  <2>5. IpcDead'
    BY <1>1, <2>2 DEF IpcDead
  <2> QED
    BY <1>4, <2>1, <2>3, <2>4, <2>5
\* p goes to the end of d's queue.
<1>6. CASE /\ rts' = [rts EXCEPT ![p] = after \cup {"SENDING"}]
           /\ sendto' = [sendto EXCEPT ![p] = d]
           /\ getfrom' = [getfrom EXCEPT ![p] = from]
           /\ caller_q' = [caller_q EXCEPT ![d] = Append(@, p)]
  <2>0. Append(caller_q[d], p) \in Seq(IpcProcs)
    BY DEF IpcTypeOK
  <2>1. IpcTypeOK'
    BY <1>1, <1>2, <1>6, <2>0 DEF IpcTypeOK
  <2>2. /\ rts'[p] = after \cup {"SENDING"} /\ getfrom'[p] = from /\ sendto'[p] = d
        /\ \A t \in IpcProcs \ {p} : rts'[t] = rts[t] /\ getfrom'[t] = getfrom[t] /\ sendto'[t] = sendto[t]
        /\ caller_q'[d] = Append(caller_q[d], p)
        /\ \A t \in IpcProcs \ {d} : caller_q'[t] = caller_q[t]
    BY <1>1, <1>6 DEF IpcTypeOK
  <2>3. ~Sending(p) /\ Sending(p)' /\ \A t \in IpcProcs \ {p} : Sending(t)' <=> Sending(t)
    BY <1>1, <2>2 DEF Sending
  <2>4. ASSUME NEW q \in IpcProcs
        PROVE  /\ Members(caller_q'[q]) = {t \in IpcProcs : Sending(t)' /\ sendto'[t] = q}
               /\ NoneTwice(caller_q'[q])
    <3>1. /\ Members(caller_q[q]) = {t \in IpcProcs : Sending(t) /\ sendto[t] = q}
          /\ NoneTwice(caller_q[q]) /\ caller_q[q] \in Seq(IpcProcs)
      BY DEF IpcQueues, IpcTypeOK
    <3>2. CASE q = d
      <4> DEFINE c == caller_q[d]
      <4>1. c \in Seq(IpcProcs) /\ NoneTwice(c) /\ p \notin Members(c)
        BY <2>3, <3>1, <3>2
      <4> HIDE DEF c
      <4>2. Members(Append(c, p)) = Members(c) \cup {p} /\ NoneTwice(Append(c, p))
        <5>1. /\ Len(c) \in Nat /\ DOMAIN c = 1 .. Len(c)
              /\ DOMAIN Append(c, p) = 1 .. Len(c) + 1 /\ Append(c, p)[Len(c) + 1] = p
              /\ \A i \in 1 .. Len(c) : Append(c, p)[i] = c[i]
          BY <4>1
        <5> QED
          BY <4>1, <5>1 DEF Members, NoneTwice
      <4>3. Members(c) \cup {p} = {t \in IpcProcs : Sending(t)' /\ sendto'[t] = d}
        BY <2>2, <2>3, <3>1, <3>2 DEF c
      <4> QED
        BY <2>2, <3>2, <4>2, <4>3 DEF c
    <3>3. CASE q # d
      <4>1. {t \in IpcProcs : Sending(t)' /\ sendto'[t] = q} = {t \in IpcProcs : Sending(t) /\ sendto[t] = q}
        BY <2>2, <2>3, <3>3
      <4> QED
        BY <2>2, <3>1, <3>3, <4>1
    <3> QED
      BY <3>2, <3>3
  <2>5. IpcQueues'
    BY <2>4 DEF IpcQueues
  <2>6. IpcBlocked'
    BY <1>1, <1>2, <2>2 DEF IpcBlocked, Sending, Receiving
  <2>7. IpcDead'
    BY <1>1, <2>2 DEF IpcDead
  <2> QED
    BY <1>4, <2>1, <2>5, <2>6, <2>7
<1> QED
  BY <1>3, <1>5, <1>6

LEMMA ReceiveStep ==
  ASSUME IpcInv, NEW p \in IpcProcs, NEW from \in IpcProcs \cup {ANY}, Receive(p, from)
  PROVE  IpcInv'
<1> DEFINE takes(S) == {q \in S : from \in {ANY, q}}
           queued == Without(caller_q[p], IpcProcs \ takes(IpcProcs))
<1> USE DEF IpcInv
<1>1. /\ p \in running /\ rts[p] = {} /\ from \in {ANY} \cup running /\ running' = running
  BY DEF Receive, CanRun
<1>2. \/ /\ \E q \in takes(notify[p]) : notify' = [notify EXCEPT ![p] = @ \ {q}]
         /\ UNCHANGED <<rts, sendto, getfrom, caller_q, asyn, table>>
      \/ /\ \E q \in takes(asyn[p]) :
              /\ asyn' = [asyn EXCEPT ![p] = @ \ {q}]
              /\ table' = [table EXCEPT ![q] = @ \ {p}]
         /\ UNCHANGED <<rts, sendto, getfrom, caller_q, notify>>
      \/ /\ queued # <<>>
         /\ rts' = [rts EXCEPT ![Head(queued)] = @ \ {"SENDING"}]
         /\ sendto' = [sendto EXCEPT ![Head(queued)] = NoProcess]
         /\ caller_q' = [caller_q EXCEPT ![p] = Without(@, {Head(queued)})]
         /\ UNCHANGED <<getfrom, notify, asyn, table>>
      \/ /\ rts' = [rts EXCEPT ![p] = {"RECEIVING"}]
         /\ getfrom' = [getfrom EXCEPT ![p] = from]
         /\ UNCHANGED <<sendto, caller_q, notify, asyn, table>>
  BY Zenon DEF Receive
<1>3. ASSUME NEW q \in takes(notify[p]), notify' = [notify EXCEPT ![p] = @ \ {q}],
             UNCHANGED <<rts, sendto, getfrom, caller_q, asyn, table>>
      PROVE  IpcInv'
  <2>1. IpcTypeOK'
    BY <1>1, <1>3 DEF IpcTypeOK
  <2>2. IpcQueues'
    BY <1>3, QueuesFrame DEF Sending
  <2>3. IpcBlocked' /\ IpcDead'
    BY <1>1, <1>3 DEF IpcBlocked, IpcDead, Sending, Receiving
  <2>4. IpcPending'
    BY <1>1, <1>3 DEF IpcPending, IpcTypeOK
  <2> QED
    BY <2>1, <2>2, <2>3, <2>4
<1>4. ASSUME NEW q \in takes(asyn[p]), asyn' = [asyn EXCEPT ![p] = @ \ {q}],
             table' = [table EXCEPT ![q] = @ \ {p}],
             UNCHANGED <<rts, sendto, getfrom, caller_q, notify>>
      PROVE  IpcInv'
  <2>1. IpcTypeOK'
    BY <1>1, <1>4 DEF IpcTypeOK
  <2>2. IpcQueues'
    BY <1>4, QueuesFrame DEF Sending
  <2>3. IpcBlocked' /\ IpcDead'
    BY <1>1, <1>4 DEF IpcBlocked, IpcDead, IpcTypeOK, Sending, Receiving
  <2>4. IpcPending'
    BY <1>1, <1>4 DEF IpcPending, IpcTypeOK
  <2> QED
    BY <2>1, <2>2, <2>3, <2>4
<1>5. CASE /\ queued # <<>>
           /\ rts' = [rts EXCEPT ![Head(queued)] = @ \ {"SENDING"}]
           /\ sendto' = [sendto EXCEPT ![Head(queued)] = NoProcess]
           /\ caller_q' = [caller_q EXCEPT ![p] = Without(@, {Head(queued)})]
           /\ UNCHANGED <<getfrom, notify, asyn, table>>
  <2> DEFINE c == caller_q[p]
             G == IpcProcs \ takes(IpcProcs)
  <2>1. c \in Seq(IpcProcs)
    BY DEF IpcTypeOK
  <2>2. PICK h : h = Head(queued) /\ h \in Members(c)
    <3> HIDE DEF c, G
    <3>1. Without(c, G) \in Seq(IpcProcs) /\ Members(Without(c, G)) = Members(c) \ G
      BY <2>1, WithoutMembers
    <3>2. Without(c, G) # <<>>
      BY <1>5 DEF c, G
    <3>3. Head(Without(c, G)) \in Members(Without(c, G))
      <4> DEFINE w == Without(c, G)
      <4> HIDE DEF w
      <4>1. w \in Seq(IpcProcs) /\ w # <<>>
        BY <3>1, <3>2 DEF w
      <4>2. 1 \in DOMAIN w /\ Head(w) = w[1]
        BY <4>1
      <4>3. Head(w) \in Members(w)
        BY <4>2 DEF Members
      <4> QED
        BY <4>3 DEF w
    <3> QED
      BY <3>1, <3>3 DEF c, G
  <2>3. h \in IpcProcs /\ Sending(h) /\ sendto[h] = p
    BY <2>2 DEF IpcQueues
  <2>4. /\ rts' = [rts EXCEPT ![h] = @ \ {"SENDING"}]
        /\ sendto' = [sendto EXCEPT ![h] = NoProcess]
        /\ caller_q' = [caller_q EXCEPT ![p] = Without(c, {h})]
    BY <1>5, <2>2
  <2> HIDE DEF queued, G
  <2>5. /\ Without(c, {h}) \in Seq(IpcProcs) /\ NoneTwice(Without(c, {h}))
        /\ Members(Without(c, {h})) = Members(c) \ {h}
    <3>1. NoneTwice(c)
      BY DEF IpcQueues
    <3> HIDE DEF c
    <3> QED
      BY <2>1, <3>1, WithoutMembers
  <2>6. /\ rts'[h] = rts[h] \ {"SENDING"} /\ caller_q'[p] = Without(c, {h})
        /\ \A t \in IpcProcs \ {h} : rts'[t] = rts[t] /\ sendto'[t] = sendto[t]
        /\ \A t \in IpcProcs \ {p} : caller_q'[t] = caller_q[t]
    BY <2>3, <2>4 DEF IpcTypeOK
  <2>7. IpcTypeOK'
    <3> HIDE DEF c
    <3>1. caller_q' \in [IpcProcs -> Seq(IpcProcs)]
      BY <2>4, <2>5 DEF IpcTypeOK
    <3>2. rts' \in [IpcProcs -> SUBSET {"SENDING", "RECEIVING"}]
      BY <2>3, <2>4 DEF IpcTypeOK
    <3>3. sendto' \in [IpcProcs -> IpcProcs \cup {NoProcess}]
      BY <2>3, <2>4 DEF IpcTypeOK
    <3> QED
      BY <1>1, <1>5, <3>1, <3>2, <3>3 DEF IpcTypeOK
  <2>8. ~Sending(h)' /\ (\A t \in IpcProcs \ {h} : Sending(t)' <=> Sending(t))
        /\ (\A t \in IpcProcs : Receiving(t)' <=> Receiving(t))
    BY <2>3, <2>6 DEF Sending, Receiving
  <2>9. IpcQueues'
    <3> SUFFICES ASSUME NEW q \in IpcProcs
                 PROVE  /\ Members(caller_q'[q]) = {t \in IpcProcs : Sending(t)' /\ sendto'[t] = q}
                        /\ NoneTwice(caller_q'[q])
      BY DEF IpcQueues
    <3>1. /\ Members(caller_q[q]) = {t \in IpcProcs : Sending(t) /\ sendto[t] = q}
          /\ NoneTwice(caller_q[q])
      BY DEF IpcQueues
    <3>2. CASE q = p
      <4>1. Members(c) \ {h} = {t \in IpcProcs : Sending(t)' /\ sendto'[t] = q}
        BY <2>3, <2>6, <2>8, <3>1, <3>2
      <4> QED
        BY <2>5, <2>6, <3>2, <4>1
    <3>3. CASE q # p
      <4>1. {t \in IpcProcs : Sending(t)' /\ sendto'[t] = q} = {t \in IpcProcs : Sending(t) /\ sendto[t] = q}
        BY <2>3, <2>6, <2>8, <3>3
      <4> QED
        BY <2>6, <3>1, <3>3, <4>1
    <3> QED
      BY <3>2, <3>3
  <2>10. IpcBlocked'
    BY <1>1, <1>5, <2>6, <2>8 DEF IpcBlocked
  <2>11. IpcDead'
    BY <1>1, <1>5, <2>3, <2>6 DEF IpcDead, Sending
  <2>12. IpcPending'
    BY <1>1, <1>5 DEF IpcPending
  <2> QED
    BY <2>7, <2>9, <2>10, <2>11, <2>12
<1>6. CASE /\ rts' = [rts EXCEPT ![p] = {"RECEIVING"}]
           /\ getfrom' = [getfrom EXCEPT ![p] = from]
           /\ UNCHANGED <<sendto, caller_q, notify, asyn, table>>
  <2>1. IpcTypeOK'
    BY <1>1, <1>6 DEF IpcTypeOK
  <2>2. IpcQueues'
    BY <1>1, <1>6, QueuesFrame DEF Sending, IpcTypeOK
  <2>3. IpcBlocked'
    BY <1>1, <1>6 DEF IpcBlocked, Sending, Receiving, IpcTypeOK
  <2>4. IpcDead' /\ IpcPending'
    BY <1>1, <1>6 DEF IpcDead, IpcPending
  <2> QED
    BY <2>1, <2>2, <2>3, <2>4
<1> HIDE DEF takes, queued
<1> QED
  BY <1>2, <1>3, <1>4, <1>5, <1>6

LEMMA NotifyStep ==
  ASSUME IpcInv, NEW p \in IpcProcs, NEW d \in IpcProcs, Notify(p, d)
  PROVE  IpcInv'
<1> USE DEF IpcInv
<1>1. /\ p \in running /\ rts[p] = {} /\ d \in running
      /\ UNCHANGED <<running, sendto, caller_q, asyn, table>>
  BY DEF Notify, CanRun
<1>2. CASE WillReceive(d, p)
  <2>1. /\ rts' = [rts EXCEPT ![d] = @ \ {"RECEIVING"}]
        /\ getfrom' = [getfrom EXCEPT ![d] = NoProcess] /\ UNCHANGED notify
    BY <1>2 DEF Notify, Wakes
  <2>2. /\ rts'[d] = rts[d] \ {"RECEIVING"} /\ rts[d] = {"RECEIVING"}
        /\ \A t \in IpcProcs \ {d} : rts'[t] = rts[t] /\ getfrom'[t] = getfrom[t]
    BY <1>2, <2>1 DEF IpcTypeOK, WillReceive
  <2>3. IpcTypeOK'
    BY <1>1, <2>1 DEF IpcTypeOK
  <2>4. IpcQueues'
    BY <1>1, <2>2, QueuesFrame DEF Sending
  <2>5. IpcBlocked'
    BY <1>1, <2>2 DEF IpcBlocked, Sending, Receiving
  <2>6. IpcDead' /\ IpcPending'
    BY <1>1, <2>1, <2>2 DEF IpcDead, IpcPending
  <2> QED
    BY <2>3, <2>4, <2>5, <2>6
<1>3. CASE ~WillReceive(d, p)
  <2>1. notify' = [notify EXCEPT ![d] = @ \cup {p}] /\ UNCHANGED <<rts, getfrom>>
    BY <1>3 DEF Notify
  <2>2. IpcTypeOK'
    BY <1>1, <2>1 DEF IpcTypeOK
  <2>3. IpcQueues'
    BY <1>1, <2>1, QueuesFrame DEF Sending
  <2>4. IpcBlocked' /\ IpcDead'
    BY <1>1, <2>1 DEF IpcBlocked, IpcDead, Sending, Receiving
  <2>5. IpcPending'
    BY <1>1, <2>1 DEF IpcPending, IpcTypeOK
  <2> QED
    BY <2>2, <2>3, <2>4, <2>5
<1> QED
  BY <1>2, <1>3

LEMMA SendAsyncStep ==
  ASSUME IpcInv, NEW p \in IpcProcs, NEW d \in IpcProcs, SendAsync(p, d)
  PROVE  IpcInv'
<1> DEFINE due == (table[p] \cup {d}) \cap running
           taken == {t \in due : WillReceive(t, p)}
<1> USE DEF IpcInv
<1>1. /\ p \in running /\ rts[p] = {} /\ d \in running
      /\ UNCHANGED <<running, sendto, caller_q, notify>>
      /\ table' = [table EXCEPT ![p] = due \ taken]
      /\ asyn' = [t \in IpcProcs |-> IF t \in due \ taken THEN asyn[t] \cup {p} ELSE asyn[t] \ {p}]
      /\ rts' = [t \in IpcProcs |-> IF t \in taken THEN {} ELSE rts[t]]
      /\ getfrom' = [t \in IpcProcs |-> IF t \in taken THEN NoProcess ELSE getfrom[t]]
  BY DEF SendAsync, CanRun
<1>2. due \subseteq IpcProcs /\ due \subseteq running /\ \A t \in taken : rts[t] = {"RECEIVING"}
  BY DEF IpcTypeOK, WillReceive
<1> HIDE DEF due, taken
<1>3. IpcTypeOK'
  BY <1>1, <1>2 DEF IpcTypeOK
<1>4. \A t \in IpcProcs : /\ Sending(t)' <=> Sending(t)
                          /\ t \notin taken => rts'[t] = rts[t] /\ getfrom'[t] = getfrom[t]
                          /\ t \in taken => rts'[t] = {}
  BY <1>1, <1>2 DEF Sending
<1>5. IpcQueues'
  BY <1>1, <1>4, QueuesFrame
<1>6. IpcBlocked'
  BY <1>1, <1>2, <1>4 DEF IpcBlocked, Sending, Receiving
<1>7. IpcDead'
  BY <1>1, <1>4 DEF IpcDead, IpcTypeOK
<1>8. IpcPending'
  BY <1>1, <1>2 DEF IpcPending, IpcTypeOK
<1> QED
  BY <1>3, <1>5, <1>6, <1>7, <1>8

LEMMA IpcInvStep == IpcInv /\ [IpcNext]_ipcVars => IpcInv'
<1> SUFFICES ASSUME IpcInv, [IpcNext]_ipcVars PROVE IpcInv'
  OBVIOUS
<1>1. CASE UNCHANGED ipcVars
  <2>1. UNCHANGED <<running, rts, sendto, getfrom, caller_q, notify, asyn, table>>
    BY <1>1 DEF ipcVars
  <2>2. IpcQueues'
    BY <2>1, QueuesFrame DEF IpcInv, Sending
  <2> QED
    BY <2>1, <2>2 DEF IpcInv, IpcTypeOK, IpcBlocked, IpcDead, IpcPending, Sending, Receiving
<1>2. ASSUME NEW p \in IpcProcs, clear_endpoint(p) \/ StateClear(p) \/ Forks(p) PROVE IpcInv'
  BY <1>2, ClearEndpointStep, ForksStep
<1>3. ASSUME NEW p \in IpcProcs, NEW d \in IpcProcs,
             Send(p, d, TRUE) \/ Send(p, d, FALSE) \/ Notify(p, d) \/ SendAsync(p, d)
      PROVE  IpcInv'
  BY <1>3, SendStep, NotifyStep, SendAsyncStep
<1>4. ASSUME NEW p \in IpcProcs, NEW from \in IpcProcs \cup {ANY}, Receive(p, from) PROVE IpcInv'
  BY <1>4, ReceiveStep
<1> QED
  BY <1>1, <1>2, <1>3, <1>4 DEF IpcNext

LEMMA IpcInvariant == IpcSpec => []IpcInv
BY IpcInvInit, IpcInvStep, PTL DEF IpcSpec

\* How often a process is in a queue.
LEMMA TimesInQueue ==
  ASSUME NEW q \in Seq(IpcProcs), NoneTwice(q), NEW x
  PROVE  Cardinality({i \in DOMAIN q : q[i] = x}) = IF x \in Members(q) THEN 1 ELSE 0
<1>1. CASE x \in Members(q)
  <2>1. PICK i \in DOMAIN q : q[i] = x
    BY <1>1 DEF Members
  <2>2. {j \in DOMAIN q : q[j] = x} = {i}
    BY <2>1 DEF NoneTwice
  <2> QED
    BY <1>1, <2>2, FS_Singleton
<1>2. CASE x \notin Members(q)
  <2>1. {j \in DOMAIN q : q[j] = x} = {}
    BY <1>2 DEF Members
  <2> QED
    BY <1>2, <2>1, FS_EmptySet
<1> QED
  BY <1>1, <1>2

\* Type correctness of the processes, their queues and their pending messages.
THEOREM IpcTypeCorrect == IpcSpec => []IpcTypeOK
<1>1. IpcInv => IpcTypeOK
  BY DEF IpcInv
<1> QED
  BY <1>1, IpcInvariant, PTL

\* With any number of processes nobody waits for one that has ended, nothing of
\* it is pending, and a process is in exactly the queue it waits in, once,
\* through ends, cleared references and slots used again.
THEOREM IpcNobodyWaits == IpcSpec => []NobodyWaitsForTheDead
<1>1. IpcInv => NobodyWaitsForTheDead
  <2> SUFFICES ASSUME IpcInv, NEW p \in IpcProcs
               PROVE  /\ p \notin running => rts[p] = {} /\ caller_q[p] = <<>> /\ table[p] = {}
                      /\ p \in running =>
                           /\ BlockedOn(p) \in running \cup {ANY, NoProcess}
                           /\ Receiving(p) => getfrom[p] \in running \cup {ANY}
                           /\ notify[p] \subseteq running
                           /\ asyn[p] \subseteq {q \in running : p \in table[q]}
                      /\ \A q \in IpcProcs :
                           Cardinality({i \in DOMAIN caller_q[p] : caller_q[p][i] = q})
                             = IF Sending(q) /\ sendto[q] = p THEN 1 ELSE 0
    BY DEF NobodyWaitsForTheDead
  <2> USE DEF IpcInv
  <2>1. /\ caller_q[p] \in Seq(IpcProcs) /\ NoneTwice(caller_q[p])
        /\ Members(caller_q[p]) = {q \in IpcProcs : Sending(q) /\ sendto[q] = p}
    BY DEF IpcTypeOK, IpcQueues
  <2>2. p \notin running => rts[p] = {} /\ caller_q[p] = <<>> /\ table[p] = {}
    <3>1. ASSUME p \notin running PROVE caller_q[p] = <<>>
      <4>1. Members(caller_q[p]) = {}
        BY <2>1, <3>1 DEF IpcBlocked
      <4>2. DOMAIN caller_q[p] = {}
        BY <4>1 DEF Members
      <4>3. Len(caller_q[p]) = 0
        <5>1. Len(caller_q[p]) \in Nat /\ DOMAIN caller_q[p] = 1 .. Len(caller_q[p])
          BY <2>1
        <5>2. ~(1 <= Len(caller_q[p]))
          BY <4>2, <5>1
        <5> QED
          BY <5>1, <5>2
      <4> QED
        BY <2>1, <4>3
    <3> QED
      BY <3>1 DEF IpcDead
  <2>3. p \in running =>
          /\ BlockedOn(p) \in running \cup {ANY, NoProcess}
          /\ Receiving(p) => getfrom[p] \in running \cup {ANY}
          /\ notify[p] \subseteq running
          /\ asyn[p] \subseteq {q \in running : p \in table[q]}
    BY DEF IpcBlocked, IpcPending, BlockedOn
  <2>4. ASSUME NEW q \in IpcProcs
        PROVE  Cardinality({i \in DOMAIN caller_q[p] : caller_q[p][i] = q})
                 = IF Sending(q) /\ sendto[q] = p THEN 1 ELSE 0
    BY <2>1, TimesInQueue
  <2> QED
    BY <2>2, <2>3, <2>4
<1> QED
  BY <1>1, IpcInvariant, PTL

-----------------------------------------------------------------------------
(***************************************************************************)
(* Kernel                                                                  *)
(***************************************************************************)

\* What Kernel does with the part it runs is what the part does by itself.
LEMMA KernComposes == KernSpec => PrivSpec /\ SignalsSpec /\ IpcSpec
<1>1. KernInit => PrivInit /\ SignalsInit /\ IpcInit
  BY DEF KernInit
<1>2. [KernNext]_kernVars => [PrivNext]_privVars /\ [SignalsNext]_sigVars /\ [IpcNext]_ipcVars
  BY DEF KernNext, kernVars, InPriv, InSignals, InIpc
<1> QED
  BY <1>1, <1>2, PTL DEF KernSpec, PrivSpec, SignalsSpec, IpcSpec

\* The same invariants under the specification of the three.
THEOREM KernSafe ==
  KernSpec => [](SendMasksAsGranted /\ ResumeAssertions /\ SignaledIsBlocked /\ NobodyWaitsForTheDead)
BY KernComposes, PrivMasksAsGranted, ResumedOnce, SignalledWaits, IpcNobodyWaits, PTL

=============================================================================
