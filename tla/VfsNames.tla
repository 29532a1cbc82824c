------------------------------ MODULE VfsNames -------------------------------
(***************************************************************************)
(* The calls of VFS that look up, add and remove the names in one          *)
(* directory, Assignment9/open.c and Assignment9/link.c, run by several    *)
(* worker threads: open, creat, close, mknod, mkdir, link, unlink, rmdir,  *)
(* rename, truncate and ftruncate.                                         *)
(*                                                                         *)
(* A worker runs until it waits for a lock or for the answer of the file   *)
(* system; the actions are the stretches in between.  A vnode stands for   *)
(* the inode it was loaded from.  A path ends in a name of the directory,  *)
(* or, for open and truncate, at the directory itself.  Left out are       *)
(* symbolic links, devices and pipes, and the reference last_dir gives:    *)
(* it goes with the lock of the directory's vnode and is put after it.     *)
(***************************************************************************)
EXTENDS Naturals, FiniteSets

CONSTANTS
  Workers,   \* worker threads, each for a process of its own
  Names,     \* names in the directory
  Inodes,    \* inodes of the file system
  Dir,       \* the inode of the directory
  None       \* no inode, no vnode (NULL)

ASSUME NamesAssumption ==
  None \notin Inodes \cup Names /\ Dir \in Inodes /\ IsFiniteSet(Workers)

VARIABLES
  entry,   \* entry[n]: the inode of name n, or None
  kind,    \* kind[i]: "file" or "dir"; "free" when i is not allocated
  v_ref,   \* v_ref[i]: v_ref_count
  filp,    \* filp[w]: the vnode of w's descriptor, or None when it has none
  work,    \* work[w]: the call w is executing
  down     \* VFS has dereferenced NULL

namesVars == <<entry, kind, v_ref, filp, work, down>>

\* An open without O_CREAT, with it, and with O_CREAT|O_TRUNC (also do_creat),
\* which differ in their locks; unlink also stands for rmdir, mknod for mkdir.
Opens == {"open", "creat", "creat_trunc"}
Creates(call) == call \in {"creat", "creat_trunc"}
OnDescriptor == {"close", "ftruncate"}
Removals == {"unlink", "rename"}
CallNames == Opens \cup OnDescriptor \cup Removals \cup {"mknod", "link", "truncate"}

\* Where a worker waits: for a call; for the lock of the vmnt; for that of the
\* directory's vnode, in last_dir; for a lookup; for the lock of the vnode; to
\* upgrade that lock; for req_ftrunc; to upgrade the lock of the vmnt; for
\* req_create; for another request; in put_vnode.
Pcs == {"idle", "vmnt", "lock dir", "look", "lock vnode", "upgrade vnode", "ftrunc",
        "upgrade", "create", "request", "put"}

Idle == [pc |-> "idle", call |-> "close", name |-> None, vmnt |-> "none",
         dir |-> FALSE, vp |-> None, ref |-> FALSE, lock |-> "none", logged |-> None]

WorkRecord ==
  [pc : Pcs, call : CallNames,
   name : Names \cup {None},                   \* the last component, once looked up
   vmnt : {"none", "READ", "SERIAL", "EXCL"},  \* how w has locked the vmnt
   dir : BOOLEAN,                              \* w has locked the directory's vnode, WRITE
   vp : Inodes \cup {None},                    \* the vnode w is working on
   ref : BOOLEAN,                              \* w counts in v_ref[vp]
   lock : {"none", "READ", "OPCL", "WRITE"},   \* how w has locked vp
   logged : Inodes \cup {None}]                \* the inode unlink printed

NamesTypeOK ==
  /\ entry \in [Names -> Inodes \cup {None}]
  /\ kind \in [Inodes -> {"free", "file", "dir"}]
  /\ v_ref \in [Inodes -> Nat]
  /\ filp \in [Workers -> Inodes \cup {None}]
  /\ work \in [Workers -> WorkRecord]
  /\ down \in BOOLEAN

-----------------------------------------------------------------------------
(***************************************************************************)
(* Locks (tll.c, outside the repository): readers share, one read-         *)
(* serialized holder goes with readers, a writer with nobody.  New readers *)
(* wait for one that is upgrading.                                         *)
(***************************************************************************)
Others(w) == Workers \ {w}

VmntFree(w, mode) ==
  \A x \in Others(w) :
    /\ work[x].vmnt # "EXCL"
    /\ mode = "READ" => work[x].pc # "upgrade"
    /\ mode = "SERIAL" => work[x].vmnt # "SERIAL"
    /\ mode = "EXCL" => work[x].vmnt = "none"

VnodeFree(w, i, mode) ==
  \A x \in Others(w) :
    /\ i = Dir => ~work[x].dir
    /\ work[x].vp = i =>
      /\ work[x].lock # "WRITE"
      /\ mode = "READ" => work[x].pc # "upgrade vnode"
      /\ mode = "OPCL" => work[x].lock # "OPCL"
      /\ mode = "WRITE" => work[x].lock = "none"

\* The file system keeps an inode as long as it has a name or a reference; the
\* directory has both elsewhere.
Kept(kinds, names, refs) ==
  [i \in Inodes |-> IF i = Dir \/ refs[i] > 0 \/ \E n \in Names : names[n] = i
                      THEN kinds[i] ELSE "free"]

\* w goes on at pc with what it has.
Goes(w, pc) == work' = [work EXCEPT ![w].pc = pc]
\* w is done, its locks released; a vnode it holds is still to be put.
Ends(w, holds) ==
  work' = [work EXCEPT ![w] =
    IF holds THEN [Idle EXCEPT !.pc = "put", !.vp = work[w].vp, !.ref = TRUE] ELSE Idle]

Answered == UNCHANGED <<entry, kind, v_ref, filp, down>>

-----------------------------------------------------------------------------
NamesInit ==
  /\ entry = [n \in Names |-> None]
  /\ kind = [i \in Inodes |-> IF i = Dir THEN "dir" ELSE "free"]
  /\ v_ref = [i \in Inodes |-> 0]
  /\ filp = [w \in Workers |-> None]
  /\ work = [w \in Workers |-> Idle]
  /\ down = FALSE

\* A process makes a call; get_fd finds a slot for an open, and get_filp the
\* descriptor for a close or an ftruncate.
Call(w, call) ==
  /\ ~down /\ work[w].pc = "idle"
  /\ call \in Opens => filp[w] = None
  /\ call \in OnDescriptor => filp[w] # None
  /\ work' = [work EXCEPT ![w] =
       IF call \in OnDescriptor
         THEN [@ EXCEPT !.pc = "lock vnode", !.call = call, !.vp = filp[w]]
         ELSE [@ EXCEPT !.pc = "vmnt", !.call = call]]
  /\ Answered

\* l_vmnt_lock: VMNT_READ where the path is only looked up, else VMNT_WRITE.
VmntMode(call) == IF call \in {"open", "truncate"} THEN "READ" ELSE "SERIAL"

\* l_vnode_lock of the file itself.
VnodeMode(call) ==
  CASE call \in {"creat_trunc", "truncate", "ftruncate"} -> "WRITE"
    [] call \in {"open", "creat", "close"} -> "OPCL"
    [] OTHER -> "READ"

\* The lock of the vmnt, in eat_path or in last_dir.
LockVmnt(w) ==
  LET call == work[w].call
  IN /\ work[w].pc = "vmnt" /\ VmntFree(w, VmntMode(call))
     /\ work' = [work EXCEPT ![w].vmnt = VmntMode(call),
          ![w].pc = IF call \in {"open", "truncate", "link"} THEN "look" ELSE "lock dir"]
     /\ Answered

\* What comes after last_dir, for a removal by the sticky bit of the directory.
AfterDirectory(call) ==
  CASE call \in {"mknod", "link"} -> {"request"}
    [] call \in Removals -> {"look", "upgrade"}
    [] OTHER -> {"look"}

\* last_dir, from its lookup to the lock of the directory's vnode, VNODE_WRITE,
\* which is held to the end of the call.
LockDirectory(w) ==
  LET call == work[w].call
  IN /\ work[w].pc = "lock dir" /\ VnodeFree(w, Dir, "WRITE")
     /\ \/ \E pc \in AfterDirectory(call) :
             work' = [work EXCEPT ![w].dir = TRUE, ![w].pc = pc]
        \/ ~Creates(call) /\ Ends(w, work[w].ref)           \* forbidden
     /\ Answered

\* The last component of the path; which it is shows at the first lookup.
Component(w) == IF work[w].name = None THEN Names ELSE {work[w].name}

\* advance, up to the lock of the vnode found.
Found(w, n) ==
  LET i == entry[n]
      call == work[w].call
  IN /\ work[w].pc = "look" /\ i # None
     /\ v_ref' = [v_ref EXCEPT ![i] = @ + 1]
     /\ work' = [work EXCEPT ![w].pc = "lock vnode", ![w].vp = i, ![w].ref = TRUE,
                   ![w].name = IF call \in Removals THEN n ELSE None]
     /\ UNCHANGED <<entry, kind, filp, down>>

\* The path of an open or a truncate that ends at the directory itself.
FoundDirectory(w) ==
  /\ work[w].pc = "look" /\ work[w].call \in {"open", "truncate"}
  /\ v_ref' = [v_ref EXCEPT ![Dir] = @ + 1]
  /\ work' = [work EXCEPT ![w].pc = "lock vnode", ![w].vp = Dir, ![w].ref = TRUE]
  /\ UNCHANGED <<entry, kind, filp, down>>

\* new_node goes on to the upgrade, with the locks it has.
MutCreating(w, n) ==
  work' = [work EXCEPT ![w].pc = "upgrade", ![w].name = n,
             ![w].vmnt = "none", ![w].dir = FALSE]

Creating(w, n) == work' = [work EXCEPT ![w].pc = "upgrade", ![w].name = n]

\* Nothing there.  A call that creates goes on, unless there is no free vnode;
\* unlink, after its upgrade, goes on too, but in /home, where it prints
\* the inode number of no vnode.
NotFound(w, n) ==
  /\ work[w].pc = "look" /\ entry[n] = None
  /\ \/ Creates(work[w].call) /\ Creating(w, n) /\ UNCHANGED down
     \/ work[w].vmnt # "EXCL" /\ Ends(w, FALSE) /\ UNCHANGED down
     \/ /\ work[w].vmnt = "EXCL"
        /\ work' = [work EXCEPT ![w].pc = "request", ![w].name = n] /\ UNCHANGED down
     \/ work[w].vmnt = "EXCL" /\ down' = TRUE /\ UNCHANGED work
  /\ UNCHANGED <<entry, kind, v_ref, filp>>

(***************************************************************************)
(* With the vnode locked, which lasts only where another wait follows      *)
(***************************************************************************)
HasVnode(w, calls) ==
  /\ work[w].pc = "lock vnode" /\ work[w].call \in calls
  /\ VnodeFree(w, work[w].vp, VnodeMode(work[w].call))

\* O_EXCL, forbidden, or a directory opened for writing: the vnode is released.
MutOpenFails(w) == HasVnode(w, Opens) /\ Ends(w, FALSE) /\ Answered

OpenFails(w) == HasVnode(w, Opens) /\ Ends(w, TRUE) /\ Answered

\* Nothing was created; the descriptor is claimed, and a regular file emptied
\* with O_TRUNC, which is not there in "creat" and always in "creat_trunc".
OpenExisting(w) ==
  LET call == work[w].call
      i == work[w].vp
  IN /\ HasVnode(w, Opens)
     /\ filp' = [filp EXCEPT ![w] = i]
     /\ \/ /\ call = "creat_trunc" => kind[i] = "dir"
           /\ work' = [work EXCEPT ![w] = Idle]
        \/ /\ call # "creat" /\ kind[i] = "file"
           /\ work' = [work EXCEPT ![w] =
                [Idle EXCEPT !.pc = "upgrade vnode", !.vp = i, !.lock = VnodeMode(call)]]
     /\ UNCHANGED <<entry, kind, v_ref, down>>

UpgradeVnode(w) ==
  /\ work[w].pc = "upgrade vnode" /\ VnodeFree(w, work[w].vp, "WRITE")
  /\ work' = [work EXCEPT ![w].lock = "WRITE", ![w].pc = "ftrunc"]
  /\ Answered

\* do_truncate and do_ftruncate: forbidden, the size unchanged, not a regular
\* file, or a request.
Truncating(w) ==
  /\ HasVnode(w, {"truncate", "ftruncate"})
  /\ \/ Ends(w, work[w].ref)
     \/ /\ kind[work[w].vp] = "file"
        /\ work' = [work EXCEPT ![w].pc = "ftrunc", ![w].lock = "WRITE"]
  /\ Answered

\* truncate_vnode, with the answer of the file system, and the end of the call.
truncate_vnode(w) == work[w].pc = "ftrunc" /\ Ends(w, work[w].ref) /\ Answered

\* close_fd: the descriptor is gone before the vnode is put.
close_fd(w) ==
  /\ HasVnode(w, {"close"})
  /\ filp' = [filp EXCEPT ![w] = None]
  /\ Ends(w, TRUE)
  /\ UNCHANGED <<entry, kind, v_ref, down>>

\* The vnode of a file to be removed is let go of at once: it was looked at
\* for its owner, or for its number.
MutLooked(w) ==
  /\ HasVnode(w, Removals)
  /\ work' = [work EXCEPT
       ![w].pc = IF work[w].vmnt = "EXCL" THEN "put" ELSE "upgrade",
       ![w].lock = IF work[w].vmnt = "EXCL" THEN "none" ELSE "READ",
       ![w].logged = IF work[w].vmnt = "EXCL" THEN work[w].vp ELSE None]
  /\ Answered

Looked(w) ==
  /\ HasVnode(w, Removals)
  /\ work' = [work EXCEPT ![w].pc = "put",
                ![w].logged = IF work[w].vmnt = "EXCL" THEN work[w].vp ELSE None]
  /\ Answered

\* do_link keeps it until the link is made, and goes on to the directory.
HaveTarget(w) ==
  /\ HasVnode(w, {"link"})
  /\ \/ work' = [work EXCEPT ![w].pc = "lock dir", ![w].lock = "READ"]
     \/ Ends(w, TRUE)                              \* no such directory
  /\ Answered

\* put_vnode waits for the lock; the last one lets the file system free an
\* inode without a name.  A removal goes on: with the upgrade, unless the
\* owner is another, or with the request.
put_vnode(w) ==
  LET i == work[w].vp
      refs == [v_ref EXCEPT ![i] = @ - 1]
      rest == [work[w] EXCEPT !.vp = None, !.ref = FALSE]
  IN /\ work[w].pc = "put" /\ VnodeFree(w, i, "OPCL")
     /\ v_ref' = refs /\ kind' = Kept(kind, entry, refs)
     /\ \/ /\ work[w].vmnt = "SERIAL"
           /\ work' = [work EXCEPT ![w] = [rest EXCEPT !.pc = "upgrade"]]
        \/ /\ work[w].vmnt = "EXCL"
           /\ work' = [work EXCEPT ![w] = [rest EXCEPT !.pc = "request"]]
        \/ /\ work[w].vmnt # "EXCL"
           /\ work' = [work EXCEPT ![w] = Idle]
     /\ UNCHANGED <<entry, filp, down>>

(***************************************************************************)
(* With the vmnt locked exclusively, or read-serialized                    *)
(***************************************************************************)
\* upgrade_vmnt_lock; unlink and rmdir look the name up once more.
Upgrade(w) ==
  /\ work[w].pc = "upgrade" /\ VmntFree(w, "EXCL")
  /\ work' = [work EXCEPT ![w].vmnt = "EXCL",
       ![w].pc = IF Creates(work[w].call) THEN "create"
                 ELSE IF work[w].call = "rename" THEN "request" ELSE "look"]
  /\ Answered

\* The inode the file system takes for a new file; which one makes no difference.
FreeInode ==
  IF \E i \in Inodes : kind[i] = "free" THEN CHOOSE i \in Inodes : kind[i] = "free" ELSE None

\* req_create in new_node, and the rest of common_open; or an error.
req_create(w) ==
  /\ work[w].pc = "create"
  /\ \/ Ends(w, FALSE) /\ Answered
     \/ LET i == FreeInode IN
          /\ i # None /\ entry[work[w].name] = None
          /\ entry' = [entry EXCEPT ![work[w].name] = i]
          /\ kind' = [kind EXCEPT ![i] = "file"]
          /\ v_ref' = [v_ref EXCEPT ![i] = 1]
          /\ filp' = [filp EXCEPT ![w] = i]
          /\ work' = [work EXCEPT ![w] = Idle]
          /\ UNCHANGED <<down>>

\* mknod and mkdir: a new entry without a vnode.
NewEntry(call, n) ==
  /\ call = "mknod" /\ entry[n] = None
  /\ LET i == FreeInode IN
       /\ i # None
       /\ entry' = [entry EXCEPT ![n] = i]
       /\ \E k \in {"file", "dir"} : kind' = [kind EXCEPT ![i] = k]

NewLink(call, vp, n) ==
  /\ call = "link" /\ kind[vp] = "file" /\ entry[n] = None
  /\ entry' = [entry EXCEPT ![n] = vp]
  /\ kind' = kind

Remove(call, n) ==
  /\ call = "unlink" /\ entry[n] # None
  /\ entry' = [entry EXCEPT ![n] = None]
  /\ kind' = Kept(kind, entry', v_ref)

Rename(call, n, n2) ==
  LET i == entry[n]
      j == entry[n2]
  IN /\ call = "rename" /\ i # None /\ i # j
     /\ j # None => kind[i] = kind[j]
     /\ entry' = [entry EXCEPT ![n] = None, ![n2] = i]
     /\ kind' = Kept(kind, entry', v_ref)

\* The request changes the directory, or is refused; the call ends.
Request(w) ==
  LET call == work[w].call
  IN /\ work[w].pc = "request"
     /\ \/ \E n \in Component(w) :
             \/ NewEntry(call, n) \/ NewLink(call, work[w].vp, n) \/ Remove(call, n)
             \/ \E n2 \in Names : Rename(call, n, n2)
        \/ UNCHANGED <<entry, kind>>
     /\ Ends(w, work[w].ref)
     /\ UNCHANGED <<v_ref, filp, down>>

Step(w) ==
  /\ ~down
  /\ \/ LockVmnt(w) \/ LockDirectory(w) \/ FoundDirectory(w)
     \/ \E n \in Component(w) : Found(w, n) \/ NotFound(w, n)
     \/ OpenFails(w) \/ OpenExisting(w) \/ UpgradeVnode(w) \/ Truncating(w)
     \/ truncate_vnode(w) \/ close_fd(w) \/ Looked(w) \/ HaveTarget(w) \/ put_vnode(w)
     \/ Upgrade(w) \/ req_create(w) \/ Request(w)

NamesNext == \E w \in Workers : Step(w) \/ \E call \in CallNames : Call(w, call)

\* Workers are run in turn and the queues of a lock are served in order.
\* Nobody has to make a call.
NamesSpec ==
  NamesInit /\ [][NamesNext]_namesVars /\ \A w \in Workers : SF_namesVars(Step(w))

-----------------------------------------------------------------------------
\* Every reference is somebody's: v_ref_count is the descriptors of the file
\* and the calls that have its vnode, on all the paths, also those with errors.
\* A worker without a call holds no lock.
RefsAccounted ==
  /\ \A i \in Inodes :
       v_ref[i] = Cardinality({w \in Workers : filp[w] = i})
                  + Cardinality({w \in Workers : work[w].ref /\ work[w].vp = i})
  /\ \A w \in Workers : work[w].pc = "idle" => work[w] = Idle

\* What a call found before it waited for the file system still holds when its
\* request is carried out: a file about to be created has no entry ("we have
\* verified that the last component doesn't exist"), and the file about to be
\* removed is the one whose number was printed.
LookupsStillHold ==
  \A w \in Workers :
    /\ work[w].pc = "create" => entry[work[w].name] = None
    /\ work[w].pc = "request" /\ work[w].call = "unlink" =>
         entry[work[w].name] = work[w].logged

\* w waits for the readers of the vmnt with the directory locked, and x is one
\* of them and waits for the directory's vnode.
WaitForEachOther(w, x) ==
  /\ work[w].pc = "upgrade" /\ work[w].dir
  /\ work[x].pc = "lock vnode" /\ work[x].vp = Dir /\ work[x].vmnt = "READ"

\* Calls end, and no lock is kept, but for one deadlock: a call that upgrades
\* the lock of the file system with the directory locked, and an open or a
\* truncate of that directory.  No others wait for each other, whatever locks
\* of files, of the directory and of the file system they collect.
CallsEnd ==
  \A w \in Workers :
    []<>(work[w].pc = "idle" \/ down \/ \E x, y \in Workers : WaitForEachOther(x, y))

\* do_rename says "Do not yet request exclusive lock on vmnt to prevent
\* deadlocks later on": with what it does instead, a rename ends.
RenamesEnd ==
  \A w \in Workers : work[w].call = "rename" ~> work[w].call # "rename" \/ down

=============================================================================
