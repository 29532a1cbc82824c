-------------------------------- MODULE Paging --------------------------------
(***************************************************************************)
(* The page replacement programs of Assignment8: fifo.cpp, LRU.cpp and     *)
(* random.cpp.  Each reads its requests and simulates a memory of          *)
(* physicalFrames frames, kept as a vector of pages.  Here the programs    *)
(* run side by side on the same requests, LRU a second time with a frame   *)
(* more; a state is the memories after the requests so far.                *)
(*                                                                         *)
(* At least one frame is assumed: with none, erase(begin()) of the empty   *)
(* vector is undefined.                                                    *)
(***************************************************************************)
EXTENDS Naturals, FiniteSets, SequencesExt

CONSTANTS
  Pages,          \* virtual pages
  physicalFrames, \* frames of the memory
  MaxRequests     \* bound on the length of the request string

ASSUME PagingAssumption ==
  physicalFrames \in Nat \ {0} /\ MaxRequests \in Nat

VARIABLES
  requests, \* the requests handled so far
  fifo, lru, lruMore, random,  \* the memories
  faults    \* of each program, the requests that were page faults (pageFault counts them)

pagingVars == <<requests, fifo, lru, lruMore, random, faults>>

Programs == {"fifo", "lru", "lruMore", "random"}
memory(p) == CASE p = "fifo" -> fifo [] p = "lru" -> lru
               [] p = "lruMore" -> lruMore [] p = "random" -> random
Frames(p) == IF p = "lruMore" THEN physicalFrames + 1 ELSE physicalFrames

Resident(mem, req) == Contains(mem, req)
Full(mem, frames)  == Len(mem) >= frames

\* The page that came last goes.
MutFifoStep(mem, req) ==
  IF Resident(mem, req) THEN mem
  ELSE Append(IF Full(mem, physicalFrames) THEN Front(mem) ELSE mem, req)

\* fifo.cpp: the page that came first goes.
FifoStep(mem, req) ==
  IF Resident(mem, req) THEN mem
  ELSE Append(IF Full(mem, physicalFrames) THEN Tail(mem) ELSE mem, req)

\* A page found again keeps its place.
MutLruStep(mem, frames, req) ==
  IF Resident(mem, req) THEN mem
  ELSE Append(IF Full(mem, frames) THEN Tail(mem) ELSE mem, req)

\* LRU.cpp: the same, but a page that is found moves to the end.
LruStep(mem, frames, req) ==
  Append(IF Resident(mem, req) THEN RemoveAt(mem, CHOOSE it \in DOMAIN mem : mem[it] = req)
         ELSE IF Full(mem, frames) THEN Tail(mem)
         ELSE mem, req)

\* random.cpp: any page goes, rand() % physicalFrames being any index.
RandomStep(mem, req) ==
  IF Resident(mem, req) THEN {mem}
  ELSE IF Full(mem, physicalFrames)
    THEN {Append(RemoveAt(mem, i), req) : i \in 1 .. physicalFrames}
  ELSE {Append(mem, req)}

PagingInit ==
  /\ requests = <<>>
  /\ fifo = <<>> /\ lru = <<>> /\ lruMore = <<>> /\ random = <<>>
  /\ faults = [p \in Programs |-> {}]

\* One turn of the loop over the requests, in each program.
Request(req) ==
  /\ Len(requests) < MaxRequests
  /\ requests' = Append(requests, req)
  /\ fifo' = FifoStep(fifo, req)
  /\ lru' = LruStep(lru, physicalFrames, req)
  /\ lruMore' = LruStep(lruMore, physicalFrames + 1, req)
  /\ random' \in RandomStep(random, req)
  /\ faults' = [p \in Programs |->
       IF Resident(memory(p), req) THEN faults[p] ELSE faults[p] \cup {Len(requests) + 1}]

PagingNext == \E req \in Pages : Request(req)

PagingSpec == PagingInit /\ [][PagingNext]_pagingVars

-----------------------------------------------------------------------------
\* The pages asked for in a stretch of the requests.
Asked(i, j) == {requests[k] : k \in i .. j}
N == Len(requests)

\* The memory of every program is what a memory of that size can be: no page
\* twice, and as many pages as were ever asked for or as there are frames.
PagingTypeOK ==
  /\ requests \in Seq(Pages) /\ N <= MaxRequests
  /\ \A p \in Programs :
       /\ memory(p) \in Seq(Pages) /\ IsInjective(memory(p))
       /\ Len(memory(p)) = IF Cardinality(Asked(1, N)) < Frames(p)
                             THEN Cardinality(Asked(1, N)) ELSE Frames(p)

\* The requests after which a page was not asked for again.
LastUses == {k \in 1 .. N : \A j \in k + 1 .. N : requests[j] # requests[k]}

\* LRU holds the pages used last, in the order of their last use.
LruKeepsLatest ==
  \A i, j \in LastUses :
    /\ requests[i] \in Range(lru) <=> Cardinality({k \in LastUses : k >= i}) <= physicalFrames
    /\ requests[i] \in Range(lru) /\ requests[j] \in Range(lru) /\ i < j =>
         \E m, n \in DOMAIN lru : m < n /\ lru[m] = requests[i] /\ lru[n] = requests[j]

\* More frames never hurt LRU: what the smaller memory holds the larger one
\* holds too, and so it has no fault the smaller one does not have.
LruInclusion == Range(lru) \subseteq Range(lruMore) /\ faults["lruMore"] \subseteq faults["lru"]

\* FIFO and LRU are conservative: a stretch of requests for no more pages than
\* there are frames has no more faults than frames.
Conservative ==
  PagingTypeOK /\ \A p \in {"fifo", "lru"} : \A i \in 1 .. N :
    Cardinality(Asked(i, N)) <= physicalFrames =>
      Cardinality(faults[p] \cap i .. N) <= physicalFrames

=============================================================================
