----------------------------- MODULE KernelPriv ------------------------------
(***************************************************************************)
(* The privilege structures of the kernel, Assignment5/part2/system.c:     *)
(* their allocation (get_priv) and the send masks, which say to whom the   *)
(* owner of a structure may send (set_sendto_bit, unset_sendto_bit,        *)
(* fill_sendto_mask).  The callers are kernel calls outside the            *)
(* repository: SYS_PRIVCTL, by which Root gives a process its privileges   *)
(* or changes them, and SYS_CLEAR at its exit.                             *)
(***************************************************************************)
EXTENDS Naturals, FiniteSets

CONSTANTS
  PrivProcs,   \* processes, Root among them
  Root,        \* the process that sets privileges (RS)
  NoProc,      \* the s_proc_nr of a structure nobody has (NONE)
  NrStatic,    \* structures with a static id: 0 .. NrStatic - 1
  NrDyn        \* structures allocated dynamically, after the static ones

ASSUME PrivAssumption ==
  /\ Root \in PrivProcs /\ NoProc \notin PrivProcs
  /\ NrStatic \in Nat \ {0} /\ NrDyn \in Nat

Ids == 0 .. NrStatic + NrDyn - 1
StaticIds == 0 .. NrStatic - 1
NullPrivId == NrStatic + NrDyn    \* the argument that asks for any dynamic id
RootId == 0

VARIABLES
  s_proc_nr,  \* s_proc_nr[id]: the process that has the structure, or NoProc
  s_ipc_to,   \* s_ipc_to[id]: the send mask, a set of ids
  sends,      \* sends[id]: s_trap_mask has a trap other than RECEIVE
  granted     \* history: the pairs {id, i} for which the mask filled last, of
              \* the two, had the other's bit in the requested map

privVars == <<s_proc_nr, s_ipc_to, sends, granted>>

PrivTypeOK ==
  /\ s_proc_nr \in [Ids -> PrivProcs \cup {NoProc}]
  /\ s_ipc_to \in [Ids -> SUBSET Ids]
  /\ sends \in [Ids -> BOOLEAN]
  /\ granted \subseteq SUBSET Ids

Owned(id) == s_proc_nr[id] # NoProc
Has(p, id) == s_proc_nr[id] = p

-----------------------------------------------------------------------------
\* The ids get_priv may give: the first free dynamic one, or the static one
\* asked for.  No id stands for the errors ENOSPC, EINVAL and EBUSY.
get_priv(priv_id) ==
  IF priv_id = NullPrivId
    THEN {id \in Ids \ StaticIds :
            /\ ~Owned(id)
            /\ \A j \in Ids \ StaticIds : j < id => Owned(j)}
    ELSE {id \in StaticIds : id = priv_id /\ ~Owned(id)}

\* Masks are functions from ids to sets of ids; owned is the set of
\* structures with a process and can the set of those whose traps allow more
\* than RECEIVE.
set_sendto_bit(masks, owned, can, rp, id) ==
  IF id \notin owned \/ rp = id
    THEN [masks EXCEPT ![rp] = @ \ {id}]
    ELSE [x \in Ids |->
            IF x = rp THEN masks[x] \cup {id}
            ELSE IF x = id /\ id \in can THEN masks[x] \cup {rp}
            ELSE masks[x]]

\* The bit for the other direction is left alone.
Mutunset_sendto_bit(masks, rp, id) == [masks EXCEPT ![rp] = @ \ {id}]

unset_sendto_bit(masks, rp, id) ==
  [x \in Ids |-> IF x = rp THEN masks[x] \ {id}
                 ELSE IF x = id THEN masks[x] \ {rp}
                 ELSE masks[x]]

\* One call of the two per id.  The call for an id changes the bit of rp for
\* that id and the bit of that id for rp only, so the order does not matter.
fill_sendto_mask(masks, owned, can, rp, map) ==
  LET call(id) == IF id \in map THEN set_sendto_bit(masks, owned, can, rp, id)
                                ELSE unset_sendto_bit(masks, rp, id)
  IN [x \in Ids |-> IF x = rp THEN {id \in Ids : id \in call(id)[rp]} ELSE call(x)[x]]

\* The requests that decide on a pair after rp's mask was filled from map.
Granted(rp, map) ==
  {pair \in granted : rp \notin pair} \cup {{rp, i} : i \in map}

-----------------------------------------------------------------------------
\* Root has its structure from the start.
PrivInit ==
  /\ s_proc_nr = [id \in Ids |-> IF id = RootId THEN Root ELSE NoProc]
  /\ s_ipc_to = [id \in Ids |-> {}]
  /\ sends = [id \in Ids |-> id = RootId]
  /\ granted = {}

\* SYS_PRIVCTL with SYS_PRIV_SET_SYS: a structure for p, first a copy of the
\* caller's, then with the default traps and targets (all), then with those
\* asked for.
SetSys(p, priv_id, traps, map) ==
  /\ \A id \in Ids : ~Has(p, id)
  /\ \E id \in get_priv(priv_id) :
       LET copied == [s_ipc_to EXCEPT ![id] = s_ipc_to[RootId]]
           owned == {i \in Ids : Owned(i)} \cup {id}
           can == {i \in Ids : sends[i]}
           default == fill_sendto_mask(copied, owned, can \cup {id}, id, Ids)
       IN /\ s_proc_nr' = [s_proc_nr EXCEPT ![id] = p]
          /\ sends' = [sends EXCEPT ![id] = traps]
          /\ s_ipc_to' = fill_sendto_mask(default, owned, can \cup {id}, id, map)
          /\ granted' = Granted(id, map)

\* SYS_PRIVCTL with SYS_PRIV_UPDATE_SYS: other traps and targets.
UpdateSys(id, traps, map) ==
  /\ Owned(id)
  /\ sends' = [sends EXCEPT ![id] = traps]
  /\ s_ipc_to' = fill_sendto_mask(s_ipc_to, {i \in Ids : Owned(i)},
                                  {i \in Ids : sends'[i]}, id, map)
  /\ granted' = Granted(id, map)
  /\ UNCHANGED s_proc_nr

\* SYS_CLEAR: the structure is free again, and keeps its mask.
ReleasePriv(id) ==
  /\ Owned(id) /\ id # RootId
  /\ s_proc_nr' = [s_proc_nr EXCEPT ![id] = NoProc]
  /\ UNCHANGED <<s_ipc_to, sends, granted>>

PrivNext ==
  \/ \E p \in PrivProcs, priv_id \in Ids \cup {NullPrivId}, traps \in BOOLEAN,
        map \in SUBSET Ids : SetSys(p, priv_id, traps, map)
  \/ \E id \in Ids, traps \in BOOLEAN, map \in SUBSET Ids : UpdateSys(id, traps, map)
  \/ \E id \in Ids : ReleasePriv(id)

PrivSpec == PrivInit /\ [][PrivNext]_privVars

-----------------------------------------------------------------------------
\* A process that can send may send to another one exactly when the one of
\* the two whose mask was set last had the other among its targets: masks are
\* symmetric, and no bit survives the process it was set for.  Nobody may
\* send to itself.
SendMasksAsGranted ==
  \A a, b \in Ids :
    Owned(a) /\ Owned(b) /\ sends[a] =>
      (b \in s_ipc_to[a] <=> a # b /\ {a, b} \in granted)

=============================================================================
