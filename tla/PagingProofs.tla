---------------------------- MODULE PagingProofs ----------------------------
(***************************************************************************)
(* Proofs about Paging, whatever the number of frames and pages and however*)
(* long the requests.  The invariant PagingInv gives every page in a memory*)
(* the request it is there for: in LRU's the last one for that page, in    *)
(* FIFO's the fault that brought it.                                       *)
(***************************************************************************)
EXTENDS Paging, InductionLemmas, FunctionTheorems, SequenceTheorems, TLAPS

-----------------------------------------------------------------------------
(* What the steps of the programs do to a memory: a page goes, or none, the
   pages behind it move up, and the page asked for comes to the end.         *)
Moved(mem, mem2, i, q) ==
  /\ mem2 \in Seq(Pages)
  /\ Len(mem2) = IF i <= Len(mem) THEN Len(mem) ELSE Len(mem) + 1
  /\ mem2[Len(mem2)] = q
  /\ \A j \in 1 .. Len(mem2) - 1 : mem2[j] = mem[IF j < i THEN j ELSE j + 1]

IsIn(mem, q) == \E j \in 1 .. Len(mem) : mem[j] = q

\* It was added, came for another, or moved to the end itself.
Comes(mem, mem2, q, F, i) ==
  /\ i \in 1 .. Len(mem) + 1 /\ Moved(mem, mem2, i, q)
  /\ \/ i = Len(mem) + 1 /\ Len(mem) < F /\ ~IsIn(mem, q)
     \/ i <= Len(mem) /\ Len(mem) = F /\ ~IsIn(mem, q)
     \/ i <= Len(mem) /\ mem[i] = q

LEMMA RemovePage ==
  ASSUME NEW S, NEW mem \in Seq(S), NEW i \in 1 .. Len(mem)
  PROVE  /\ RemoveAt(mem, i) \in Seq(S)
         /\ Len(RemoveAt(mem, i)) = Len(mem) - 1
         /\ \A j \in 1 .. Len(mem) - 1 : RemoveAt(mem, i)[j] = mem[IF j < i THEN j ELSE j + 1]
<1> DEFINE a == SubSeq(mem, 1, i - 1)
           b == SubSeq(mem, i + 1, Len(mem))
<1>0. Len(mem) \in Nat /\ \A j \in 1 .. Len(mem) : mem[j] \in S
  BY ElementOfSeq, LenProperties
<1>1. /\ a \in Seq(S) /\ Len(a) = i - 1
      /\ \A j \in 1 .. i - 1 : a[j] = mem[j]
  <2>1. PICK n \in Int : n = i - 1
    BY <1>0
  <2>2. \A j \in 1 .. n : mem[j] \in S
    BY <1>0, <2>1
  <2>3. /\ SubSeq(mem, 1, n) \in Seq(S) /\ Len(SubSeq(mem, 1, n)) = IF 1 <= n THEN n - 1 + 1 ELSE 0
        /\ \A j \in 1 .. n - 1 + 1 : SubSeq(mem, 1, n)[j] = mem[1 + j - 1]
    BY <2>2, SubSeqProperties
  <2> QED
    BY <1>0, <2>1, <2>3
<1>2. /\ b \in Seq(S) /\ Len(b) = Len(mem) - i
      /\ \A j \in 1 .. Len(mem) - i : b[j] = mem[i + j]
  <2>1. PICK n \in Int : n = i + 1
    BY <1>0
  <2>2. \A j \in n .. Len(mem) : mem[j] \in S
    BY <1>0, <2>1
  <2>3. /\ SubSeq(mem, n, Len(mem)) \in Seq(S)
        /\ Len(SubSeq(mem, n, Len(mem))) = IF n <= Len(mem) THEN Len(mem) - n + 1 ELSE 0
        /\ \A j \in 1 .. Len(mem) - n + 1 : SubSeq(mem, n, Len(mem))[j] = mem[n + j - 1]
    BY <1>0, <2>2, SubSeqProperties
  <2> QED
    BY <1>0, <2>1, <2>3
<1>3. RemoveAt(mem, i) = a \o b
  BY DEF RemoveAt
<1> HIDE DEF a, b
<1>4. /\ a \o b \in Seq(S)
      /\ Len(a \o b) = Len(a) + Len(b)
      /\ \A j \in 1 .. Len(a) + Len(b) : (a \o b)[j] = IF j <= Len(a) THEN a[j] ELSE b[j - Len(a)]
  BY <1>1, <1>2, ConcatProperties
<1>5. Len(a) + Len(b) = Len(mem) - 1
  BY <1>0, <1>1, <1>2
<1>6. ASSUME NEW j \in 1 .. Len(mem) - 1
      PROVE  (a \o b)[j] = mem[IF j < i THEN j ELSE j + 1]
  <2>1. CASE j < i
    BY <1>0, <1>1, <1>4, <1>5, <2>1
  <2>2. CASE ~(j < i)
    <3>1. PICK k \in 1 .. Len(mem) - i : k = j - Len(a)
      BY <1>0, <1>1, <2>2
    <3>2. (a \o b)[j] = b[k] /\ b[k] = mem[i + k] /\ i + k = j + 1
      BY <1>0, <1>1, <1>2, <1>4, <1>5, <2>2, <3>1
    <3> QED
      BY <2>2, <3>2
  <2> QED
    BY <2>1, <2>2
<1> QED
  BY <1>3, <1>4, <1>5, <1>6

LEMMA TailRemoves ==
  ASSUME NEW mem \in Seq(Pages), Len(mem) # 0
  PROVE  Tail(mem) = RemoveAt(mem, 1)
<1>1. mem # <<>> /\ Len(mem) \in Nat /\ 1 \in 1 .. Len(mem)
  <2>1. Len(mem) \in Nat
    BY LenProperties
  <2> QED
    BY <2>1
<1>2. /\ Tail(mem) \in Seq(Pages) /\ Len(Tail(mem)) = Len(mem) - 1
      /\ \A i \in 1 .. Len(mem) - 1 : Tail(mem)[i] = mem[i + 1]
  BY <1>1, HeadTailProperties
<1>3. /\ RemoveAt(mem, 1) \in Seq(Pages) /\ Len(RemoveAt(mem, 1)) = Len(mem) - 1
      /\ \A j \in 1 .. Len(mem) - 1 : RemoveAt(mem, 1)[j] = mem[IF j < 1 THEN j ELSE j + 1]
  BY <1>1, RemovePage
<1>4. \A j \in 1 .. Len(mem) - 1 : RemoveAt(mem, 1)[j] = mem[j + 1]
  BY <1>1, <1>3
<1> QED
  BY <1>2, <1>3, <1>4, SeqEqual

LEMMA AppendMoves ==
  ASSUME NEW mem \in Seq(Pages), NEW q \in Pages
  PROVE  /\ Moved(mem, Append(mem, q), Len(mem) + 1, q)
         /\ \A i \in 1 .. Len(mem) : Moved(mem, Append(RemoveAt(mem, i), q), i, q)
<1>0. Len(mem) \in Nat
  BY LenProperties
<1>1. Moved(mem, Append(mem, q), Len(mem) + 1, q)
  BY <1>0, AppendProperties DEF Moved
<1>2. ASSUME NEW i \in 1 .. Len(mem)
      PROVE  Moved(mem, Append(RemoveAt(mem, i), q), i, q)
  <2>1. PICK s : s = RemoveAt(mem, i)
    OBVIOUS
  <2>2. /\ s \in Seq(Pages) /\ Len(s) = Len(mem) - 1
        /\ \A j \in 1 .. Len(mem) - 1 : s[j] = mem[IF j < i THEN j ELSE j + 1]
    BY <2>1, RemovePage
  <2>3. /\ Append(s, q) \in Seq(Pages) /\ Len(Append(s, q)) = Len(s) + 1
        /\ \A j \in 1 .. Len(s) : Append(s, q)[j] = s[j]
        /\ Append(s, q)[Len(s) + 1] = q
    BY <2>2, AppendProperties
  <2> QED
    BY <1>0, <2>1, <2>2, <2>3 DEF Moved
<1> QED
  BY <1>1, <1>2

\* The steps of the programs.
LEMMA FifoComes ==
  ASSUME NEW mem \in Seq(Pages), NEW q \in Pages, Len(mem) <= physicalFrames
  PROVE  /\ IsIn(mem, q) => FifoStep(mem, q) = mem
         /\ ~IsIn(mem, q) => \E i \in {1, Len(mem) + 1} : Comes(mem, FifoStep(mem, q), q, physicalFrames, i)
<1> USE PagingAssumption
<1>0. Len(mem) \in Nat
  BY LenProperties
<1>1. Resident(mem, q) <=> IsIn(mem, q)
  BY DEF Resident, Contains, IsIn
<1>2. ASSUME ~IsIn(mem, q)
      PROVE  \E i \in {1, Len(mem) + 1} : Comes(mem, FifoStep(mem, q), q, physicalFrames, i)
  <2>1. CASE Full(mem, physicalFrames)
    <3>1. Len(mem) > 0 /\ Len(mem) = physicalFrames /\ 1 \in 1 .. Len(mem)
      BY <1>0, <2>1 DEF Full
    <3>0. Tail(mem) = RemoveAt(mem, 1)
      BY <1>0, <3>1, TailRemoves
    <3>2. FifoStep(mem, q) = Append(RemoveAt(mem, 1), q)
      BY <1>1, <1>2, <2>1, <3>0 DEF FifoStep
    <3>3. Comes(mem, FifoStep(mem, q), q, physicalFrames, 1)
      BY <1>0, <1>2, <3>1, <3>2, AppendMoves DEF Comes
    <3> QED
      BY <1>0, <3>1, <3>3
  <2>2. CASE ~Full(mem, physicalFrames)
    <3>1. FifoStep(mem, q) = Append(mem, q) /\ Len(mem) < physicalFrames
      BY <1>0, <1>1, <1>2, <2>2 DEF FifoStep, Full
    <3>2. Comes(mem, FifoStep(mem, q), q, physicalFrames, Len(mem) + 1)
      BY <1>0, <1>2, <3>1, AppendMoves DEF Comes
    <3> QED
      BY <1>0, <3>2
  <2> QED
    BY <2>1, <2>2
<1> QED
  BY <1>1, <1>2 DEF FifoStep

LEMMA LruComes ==
  ASSUME NEW mem \in Seq(Pages), NEW q \in Pages, NEW F \in Nat \ {0}, Len(mem) <= F
  PROVE  \E i \in 1 .. Len(mem) + 1 :
           /\ Comes(mem, LruStep(mem, F, q), q, F, i)
           /\ IsIn(mem, q) => i <= Len(mem) /\ mem[i] = q
           /\ ~IsIn(mem, q) => i = 1 \/ i = Len(mem) + 1
<1>0. Len(mem) \in Nat /\ F \in Nat /\ F > 0 /\ Len(mem) <= F
  BY LenProperties
<1>1. Resident(mem, q) <=> IsIn(mem, q)
  BY DEF Resident, Contains, IsIn
<1>2. CASE IsIn(mem, q)
  <2>1. PICK i : i = CHOOSE it \in DOMAIN mem : mem[it] = q
    OBVIOUS
  <2>2. i \in 1 .. Len(mem) /\ mem[i] = q
    BY <1>2, <2>1, LenProperties DEF IsIn
  <2>3. LruStep(mem, F, q) = Append(RemoveAt(mem, i), q)
    BY <1>1, <1>2, <2>1 DEF LruStep
  <2>4. Comes(mem, LruStep(mem, F, q), q, F, i)
    BY <1>0, <2>2, <2>3, AppendMoves DEF Comes
  <2> QED
    BY <1>0, <1>2, <2>2, <2>4
<1>3. CASE ~IsIn(mem, q) /\ Full(mem, F)
  <2>1. Len(mem) > 0 /\ Len(mem) = F /\ 1 \in 1 .. Len(mem)
    BY <1>0, <1>3 DEF Full
  <2>0. Tail(mem) = RemoveAt(mem, 1)
    BY <1>0, <2>1, TailRemoves
  <2>2. LruStep(mem, F, q) = Append(RemoveAt(mem, 1), q)
    BY <1>1, <1>3, <2>0 DEF LruStep
  <2>3. Comes(mem, LruStep(mem, F, q), q, F, 1)
    BY <1>0, <1>3, <2>1, <2>2, AppendMoves DEF Comes
  <2> QED
    BY <1>0, <1>3, <2>1, <2>3
<1>4. CASE ~IsIn(mem, q) /\ ~Full(mem, F)
  <2>1. LruStep(mem, F, q) = Append(mem, q) /\ Len(mem) < F
    BY <1>0, <1>1, <1>4 DEF LruStep, Full
  <2>2. Comes(mem, LruStep(mem, F, q), q, F, Len(mem) + 1)
    BY <1>0, <1>4, <2>1, AppendMoves DEF Comes
  <2> QED
    BY <1>0, <1>4, <2>2
<1> QED
  BY <1>2, <1>3, <1>4

LEMMA RandomComes ==
  ASSUME NEW mem \in Seq(Pages), NEW q \in Pages, Len(mem) <= physicalFrames,
         NEW mem2 \in RandomStep(mem, q)
  PROVE  /\ IsIn(mem, q) => mem2 = mem
         /\ ~IsIn(mem, q) => \E i \in 1 .. Len(mem) + 1 : Comes(mem, mem2, q, physicalFrames, i)
<1> USE PagingAssumption
<1>0. Len(mem) \in Nat
  BY LenProperties
<1>1. Resident(mem, q) <=> IsIn(mem, q)
  BY DEF Resident, Contains, IsIn
<1>2. ASSUME ~IsIn(mem, q)
      PROVE  \E i \in 1 .. Len(mem) + 1 : Comes(mem, mem2, q, physicalFrames, i)
  <2>1. CASE Full(mem, physicalFrames)
    <3>1. Len(mem) = physicalFrames
      BY <1>0, <2>1 DEF Full
    <3>2. PICK i \in 1 .. physicalFrames : mem2 = Append(RemoveAt(mem, i), q)
      BY <1>1, <1>2, <2>1 DEF RandomStep
    <3>3. Comes(mem, mem2, q, physicalFrames, i)
      BY <1>0, <1>2, <3>1, <3>2, AppendMoves DEF Comes
    <3> QED
      BY <1>0, <3>1, <3>3
  <2>2. CASE ~Full(mem, physicalFrames)
    <3>1. mem2 = Append(mem, q) /\ Len(mem) < physicalFrames
      BY <1>0, <1>1, <1>2, <2>2 DEF RandomStep, Full
    <3>2. Comes(mem, mem2, q, physicalFrames, Len(mem) + 1)
      BY <1>0, <1>2, <3>1, AppendMoves DEF Comes
    <3> QED
      BY <1>0, <3>2
  <2> QED
    BY <2>1, <2>2
<1> QED
  BY <1>1, <1>2 DEF RandomStep

-----------------------------------------------------------------------------
(* What is true of a memory mem of F frames after the requests r.           *)

\* No page twice, only pages asked for, and all of them unless mem is full.
Holds(r, mem, F) ==
  /\ mem \in Seq(Pages) /\ Len(mem) <= F
  /\ \A i, j \in 1 .. Len(mem) : mem[i] = mem[j] => i = j
  /\ \A i \in 1 .. Len(mem) : IsIn(r, mem[i])
  /\ Len(mem) = F \/ \A k \in 1 .. Len(r) : IsIn(mem, r[k])

\* The pages are those of the last requests among P, in their order: u[i] is the
\* request that mem[i] is there for.
InOrder(r, mem, P, F, u) ==
  /\ u \in [1 .. Len(mem) -> P]
  /\ \A i \in 1 .. Len(mem) : r[u[i]] = mem[i]
  /\ \A i, j \in 1 .. Len(mem) : i < j => u[i] < u[j]
  /\ \A k \in P : \/ \E i \in 1 .. Len(mem) : u[i] = k
                  \/ Len(mem) = F /\ \A i \in 1 .. Len(mem) : k < u[i]

KeepsLast(r, mem, P, F) == \E u \in [1 .. Len(mem) -> P] : InOrder(r, mem, P, F, u)

LEMMA AppendRequest ==
  ASSUME NEW r \in Seq(Pages), NEW q \in Pages
  PROVE  /\ Append(r, q) \in Seq(Pages)
         /\ Len(r) \in Nat /\ Len(Append(r, q)) = Len(r) + 1
         /\ \A k \in 1 .. Len(r) : Append(r, q)[k] = r[k]
         /\ Append(r, q)[Len(r) + 1] = q
BY AppendProperties, LenProperties

LEMMA HoldsStays ==
  ASSUME NEW r \in Seq(Pages), NEW q \in Pages, NEW mem, NEW F \in Nat,
         Holds(r, mem, F), IsIn(mem, q)
  PROVE  Holds(Append(r, q), mem, F)
<1>1. PICK s \in Seq(Pages) : s = Append(r, q)
  BY AppendRequest
<1>2. /\ Len(r) \in Nat /\ Len(s) = Len(r) + 1
      /\ \A k \in 1 .. Len(r) : s[k] = r[k]
      /\ s[Len(r) + 1] = q
  BY <1>1, AppendRequest
<1>3. \A p : IsIn(r, p) => IsIn(s, p)
  <2> SUFFICES ASSUME NEW p, NEW k \in 1 .. Len(r), r[k] = p PROVE \E j \in 1 .. Len(s) : s[j] = p
    BY DEF IsIn
  <2>1. k \in 1 .. Len(s) /\ s[k] = p
    BY <1>2
  <2> QED
    BY <2>1
<1>4. ASSUME Len(mem) # F, NEW k \in 1 .. Len(s) PROVE IsIn(mem, s[k])
  <2>1. CASE k \in 1 .. Len(r)
    BY <1>2, <1>4, <2>1 DEF Holds
  <2>2. CASE k = Len(r) + 1
    BY <1>2, <2>2
  <2> QED
    BY <1>2, <2>1, <2>2
<1> QED
  BY <1>1, <1>3, <1>4 DEF Holds

LEMMA HoldsComes ==
  ASSUME NEW r \in Seq(Pages), NEW q \in Pages, NEW mem, NEW F \in Nat, NEW mem2, NEW i,
         Holds(r, mem, F), Comes(mem, mem2, q, F, i)
  PROVE  Holds(Append(r, q), mem2, F)
<1> DEFINE n == Len(mem2)
           from(j) == IF j < i THEN j ELSE j + 1
<1>1. PICK s \in Seq(Pages) : s = Append(r, q)
  BY AppendRequest
<1>2. /\ Len(r) \in Nat /\ Len(s) = Len(r) + 1
      /\ \A k \in 1 .. Len(r) : s[k] = r[k]
      /\ s[Len(r) + 1] = q
  BY <1>1, AppendRequest
<1>3. Len(mem) \in Nat /\ i \in 1 .. Len(mem) + 1 /\ Len(mem) <= F
  BY LenProperties DEF Holds, Comes
<1>4. /\ mem2 \in Seq(Pages) /\ n \in Nat /\ n > 0 /\ n <= F
      /\ n = IF i <= Len(mem) THEN Len(mem) ELSE Len(mem) + 1
      /\ mem2[n] = q
  BY <1>3, LenProperties DEF Comes, Moved
<1>5. \A j \in 1 .. n - 1 : from(j) \in 1 .. Len(mem) /\ mem2[j] = mem[from(j)] /\ from(j) # i
  BY <1>3, <1>4 DEF Comes, Moved
<1>6. \A j \in 1 .. n - 1 : mem2[j] # q
  <2> SUFFICES ASSUME NEW j \in 1 .. n - 1, mem2[j] = q PROVE FALSE
    OBVIOUS
  <2>1. IsIn(mem, q)
    BY <1>5 DEF IsIn
  <2>2. i \in 1 .. Len(mem) /\ mem[i] = q
    BY <1>3, <2>1 DEF Comes
  <2> QED
    BY <1>5, <2>2 DEF Holds
<1>7. ASSUME NEW j \in 1 .. n, NEW k \in 1 .. n, mem2[j] = mem2[k] PROVE j = k
  <2>1. CASE j = n \/ k = n
    BY <1>4, <1>6, <1>7, <2>1
  <2>2. CASE j \in 1 .. n - 1 /\ k \in 1 .. n - 1
    <3>1. mem[from(j)] = mem[from(k)]
      BY <1>5, <1>7, <2>2
    <3>2. from(j) = from(k)
      BY <1>5, <2>2, <3>1 DEF Holds
    <3> QED
      BY <1>3, <1>4, <2>2, <3>2
  <2> QED
    BY <1>4, <2>1, <2>2
<1>8. \A p : IsIn(r, p) => IsIn(s, p)
  <2> SUFFICES ASSUME NEW p, NEW k \in 1 .. Len(r), r[k] = p PROVE \E j \in 1 .. Len(s) : s[j] = p
    BY DEF IsIn
  <2>1. k \in 1 .. Len(s) /\ s[k] = p
    BY <1>2
  <2> QED
    BY <2>1
<1>9. ASSUME NEW j \in 1 .. n PROVE IsIn(s, mem2[j])
  <2>1. CASE j = n
    <3>1. Len(s) \in 1 .. Len(s) /\ s[Len(s)] = mem2[j]
      BY <1>2, <1>4, <2>1
    <3> QED
      BY <3>1 DEF IsIn
  <2>2. CASE j \in 1 .. n - 1
    BY <1>5, <1>8, <2>2 DEF Holds
  <2> QED
    BY <1>4, <2>1, <2>2
<1>10. ASSUME n # F, NEW k \in 1 .. Len(s) PROVE IsIn(mem2, s[k])
  <2>0. n \in 1 .. n /\ mem2[n] = q
    BY <1>4
  <2>1. CASE s[k] = q
    BY <2>0, <2>1 DEF IsIn
  <2>2. CASE s[k] # q
    <3>1. k \in 1 .. Len(r) /\ s[k] = r[k]
      BY <1>2, <2>2
    <3>2. Len(mem) # F /\ (i = Len(mem) + 1 \/ mem[i] = q)
      BY <1>3, <1>4, <1>10 DEF Comes
    <3>3. PICK m \in 1 .. Len(mem) : mem[m] = s[k]
      BY <3>1, <3>2 DEF Holds, IsIn
    <3>4. m # i
      BY <1>3, <2>2, <3>2, <3>3
    <3>5. PICK j \in 1 .. n - 1 : from(j) = m
      <4>1. CASE m < i
        <5>1. m \in 1 .. n - 1 /\ from(m) = m
          BY <1>3, <1>4, <4>1
        <5> QED
          BY <5>1
      <4>2. CASE m > i
        <5>1. m - 1 \in 1 .. n - 1 /\ from(m - 1) = m
          BY <1>3, <1>4, <4>2
        <5> QED
          BY <5>1
      <4> QED
        BY <1>3, <3>4, <4>1, <4>2
    <3>6. mem2[j] = s[k] /\ j \in 1 .. n
      BY <1>4, <1>5, <3>3, <3>5
    <3> QED
      BY <3>6 DEF IsIn
  <2> QED
    BY <2>1, <2>2
<1> QED
  BY <1>1, <1>4, <1>7, <1>9, <1>10 DEF Holds

\* The page that goes is the first, unless it is the one asked for; P2 is P with
\* the request, and without that of a page that was moved.
LEMMA KeepsComes ==
  ASSUME NEW r \in Seq(Pages), NEW q \in Pages, NEW mem, NEW F \in Nat, NEW mem2, NEW i,
         Holds(r, mem, F), Comes(mem, mem2, q, F, i),
         NEW P, P \subseteq 1 .. Len(r), KeepsLast(r, mem, P, F),
         NEW P2, Len(r) + 1 \in P2, P2 \subseteq P \cup {Len(r) + 1},
         \A k \in P : r[k] # q => k \in P2,
         \/ i = 1 /\ ~IsIn(mem, q)
         \/ i = Len(mem) + 1
         \/ mem[i] = q /\ \A k \in P2 \ {Len(r) + 1} : r[k] # q
  PROVE  KeepsLast(Append(r, q), mem2, P2, F)
<1> DEFINE n == Len(mem2)
           from(j) == IF j < i THEN j ELSE j + 1
<1>1. PICK s \in Seq(Pages) : s = Append(r, q)
  BY AppendRequest
<1>2. /\ Len(r) \in Nat /\ Len(s) = Len(r) + 1
      /\ \A k \in 1 .. Len(r) : s[k] = r[k]
      /\ s[Len(r) + 1] = q
  BY <1>1, AppendRequest
<1>3. Len(mem) \in Nat /\ i \in 1 .. Len(mem) + 1 /\ Len(mem) <= F
  BY LenProperties DEF Holds, Comes
<1>4. /\ mem2 \in Seq(Pages) /\ n \in Nat /\ n > 0 /\ n <= F
      /\ n = IF i <= Len(mem) THEN Len(mem) ELSE Len(mem) + 1
      /\ mem2[n] = q
  BY <1>3, LenProperties DEF Comes, Moved
<1>5. \A j \in 1 .. n - 1 : from(j) \in 1 .. Len(mem) /\ mem2[j] = mem[from(j)] /\ from(j) # i
  BY <1>3, <1>4 DEF Comes, Moved
<1>6. PICK u \in [1 .. Len(mem) -> P] : InOrder(r, mem, P, F, u)
  BY DEF KeepsLast
<1> DEFINE v == [j \in 1 .. n |-> IF j = n THEN Len(r) + 1 ELSE u[from(j)]]
<1>7. \A j \in 1 .. n - 1 : mem2[j] # q
  <2> SUFFICES ASSUME NEW j \in 1 .. n - 1, mem2[j] = q PROVE FALSE
    OBVIOUS
  <2>1. IsIn(mem, q)
    BY <1>5 DEF IsIn
  <2>2. i \in 1 .. Len(mem) /\ mem[i] = q
    BY <1>3, <2>1 DEF Comes
  <2> QED
    BY <1>5, <2>2 DEF Holds
<1>8. /\ v[n] = Len(r) + 1
      /\ \A j \in 1 .. n - 1 : /\ v[j] = u[from(j)] /\ v[j] \in P /\ v[j] \in P2
                               /\ v[j] \in 1 .. Len(r) /\ r[v[j]] = mem2[j]
  <2>1. v[n] = Len(r) + 1
    BY <1>4
  <2>2. ASSUME NEW j \in 1 .. n - 1
        PROVE  /\ v[j] = u[from(j)] /\ v[j] \in P /\ v[j] \in P2
               /\ v[j] \in 1 .. Len(r) /\ r[v[j]] = mem2[j]
    <3>1. v[j] = u[from(j)]
      BY <1>4
    <3>2. u[from(j)] \in P /\ r[u[from(j)]] = mem[from(j)]
      BY <1>5, <1>6 DEF InOrder
    <3> HIDE DEF v
    <3>3. r[v[j]] # q
      BY <1>5, <1>7, <3>1, <3>2
    <3> QED
      BY <1>5, <3>1, <3>2, <3>3
  <2> QED
    BY <2>1, <2>2
<1>0. \A j \in 1 .. n : j = n \/ j \in 1 .. n - 1
  BY <1>4
<1>9. v \in [1 .. n -> P2]
  <2>1. ASSUME NEW j \in 1 .. n PROVE v[j] \in P2
    <3> HIDE DEF v
    <3> QED
      BY <1>0, <1>8
  <2> QED
    BY <2>1
<1> HIDE DEF v
<1>10. ASSUME NEW j \in 1 .. n PROVE s[v[j]] = mem2[j]
  <2>1. CASE j = n
    BY <1>2, <1>4, <1>8, <2>1
  <2>2. CASE j \in 1 .. n - 1
    BY <1>2, <1>8, <2>2
  <2> QED
    BY <1>0, <2>1, <2>2
<1>11. ASSUME NEW j \in 1 .. n, NEW k \in 1 .. n, j < k PROVE v[j] < v[k]
  <2>1. CASE k = n
    BY <1>2, <1>4, <1>8, <1>11, <2>1
  <2>2. CASE k # n
    <3>1. j \in 1 .. n - 1 /\ k \in 1 .. n - 1 /\ from(j) < from(k)
      BY <1>3, <1>4, <1>11, <2>2
    <3>2. u[from(j)] < u[from(k)]
      BY <1>5, <1>6, <3>1 DEF InOrder
    <3> QED
      BY <1>8, <3>1, <3>2
  <2> QED
    BY <2>1, <2>2
<1>12. ASSUME NEW k \in P2
       PROVE  \/ \E j \in 1 .. n : v[j] = k
              \/ n = F /\ \A j \in 1 .. n : k < v[j]
  <2>1. CASE k = Len(r) + 1
    <3>1. n \in 1 .. n
      BY <1>4
    <3> QED
      BY <1>8, <2>1, <3>1
  <2>2. CASE \E m \in 1 .. Len(mem) : u[m] = k /\ m # i
    <3>1. PICK m \in 1 .. Len(mem) : u[m] = k /\ m # i
      BY <2>2
    <3>2. PICK j \in 1 .. n - 1 : from(j) = m
      <4>1. CASE m < i
        <5>1. m \in 1 .. n - 1 /\ from(m) = m
          BY <1>3, <1>4, <4>1
        <5> QED
          BY <5>1
      <4>2. CASE m > i
        <5>1. m - 1 \in 1 .. n - 1 /\ from(m - 1) = m
          BY <1>3, <1>4, <4>2
        <5> QED
          BY <5>1
      <4> QED
        BY <1>3, <3>1, <4>1, <4>2
    <3>3. v[j] = k /\ j \in 1 .. n
      BY <1>4, <1>8, <3>1, <3>2
    <3> QED
      BY <3>3
  <2>3. CASE k \in P /\ i \in 1 .. Len(mem) /\ u[i] = k
    <3>1. k # Len(r) + 1 /\ r[k] = mem[i]
      BY <1>2, <1>6, <2>3 DEF InOrder
    <3>2. i = 1 /\ ~IsIn(mem, q)
      <4>1. ~(\A l \in P2 \ {Len(r) + 1} : r[l] # q) \/ mem[i] # q
        BY <3>1
      <4> QED
        BY <1>3, <2>3, <4>1
    <3>3. n = F
      BY <1>3, <1>4, <2>3, <3>2 DEF Comes, IsIn
    <3>4. ASSUME NEW j \in 1 .. n - 1 PROVE k < v[j]
      <4>1. i < from(j) /\ from(j) \in 1 .. Len(mem)
        BY <1>5, <3>2
      <4>2. u[i] < u[from(j)]
        BY <1>6, <2>3, <4>1 DEF InOrder
      <4> QED
        BY <1>8, <2>3, <4>2
    <3>5. k < v[n]
      BY <1>2, <1>8, <2>3
    <3> QED
      BY <1>4, <3>3, <3>4, <3>5
  <2>4. CASE k \in P /\ Len(mem) = F /\ \A m \in 1 .. Len(mem) : k < u[m]
    <3>1. n = F
      BY <1>3, <1>4, <2>4
    <3>2. \A j \in 1 .. n - 1 : k < v[j]
      BY <1>5, <1>8, <2>4
    <3>3. k < v[n]
      BY <1>2, <1>8, <2>4
    <3> QED
      BY <1>4, <3>1, <3>2, <3>3
  <2> QED
    BY <1>6, <2>1, <2>2, <2>3, <2>4 DEF InOrder
<1>13. InOrder(s, mem2, P2, F, v)
  BY <1>9, <1>10, <1>11, <1>12 DEF InOrder
<1> QED
  BY <1>1, <1>9, <1>13 DEF KeepsLast

-----------------------------------------------------------------------------
(* Last uses, and counting pages.                                           *)

LastOf(r) == {k \in 1 .. Len(r) : \A j \in k + 1 .. Len(r) : r[j] # r[k]}
AskedIn(r, i) == {r[k] : k \in i .. Len(r)}

LEMMA LastOfAppend ==
  ASSUME NEW r \in Seq(Pages), NEW q \in Pages, NEW L, L = LastOf(Append(r, q))
  PROVE  /\ Len(r) + 1 \in L /\ L \subseteq LastOf(r) \cup {Len(r) + 1}
         /\ \A k \in LastOf(r) : r[k] # q => k \in L
         /\ \A k \in L \ {Len(r) + 1} : r[k] # q
<1>1. PICK s \in Seq(Pages) : s = Append(r, q)
  BY AppendRequest
<1>2. /\ Len(r) \in Nat /\ Len(s) = Len(r) + 1
      /\ \A k \in 1 .. Len(r) : s[k] = r[k]
      /\ s[Len(r) + 1] = q
  BY <1>1, AppendRequest
<1>3. L = {k \in 1 .. Len(s) : \A j \in k + 1 .. Len(s) : s[j] # s[k]}
  BY <1>1 DEF LastOf
<1>4. Len(r) + 1 \in L
  BY <1>2, <1>3
<1>5. ASSUME NEW k \in L, k # Len(r) + 1 PROVE k \in LastOf(r) /\ r[k] # q
  <2>1. k \in 1 .. Len(r) /\ \A j \in k + 1 .. Len(s) : s[j] # s[k]
    BY <1>2, <1>3, <1>5
  <2>2. Len(r) + 1 \in k + 1 .. Len(s)
    BY <1>2, <2>1
  <2>3. r[k] # q
    BY <1>2, <2>1, <2>2
  <2>4. \A j \in k + 1 .. Len(r) : j \in k + 1 .. Len(s) /\ j \in 1 .. Len(r)
    BY <1>2, <2>1
  <2>5. \A j \in k + 1 .. Len(r) : r[j] # r[k]
    BY <1>2, <2>1, <2>4
  <2> QED
    BY <2>1, <2>3, <2>5 DEF LastOf
<1>6. ASSUME NEW k \in LastOf(r), r[k] # q PROVE k \in L
  <2>1. k \in 1 .. Len(r) /\ \A j \in k + 1 .. Len(r) : r[j] # r[k]
    BY DEF LastOf
  <2>2. ASSUME NEW j \in k + 1 .. Len(s) PROVE s[j] # s[k]
    <3>1. CASE j = Len(r) + 1
      BY <1>2, <1>6, <2>1, <3>1
    <3>2. CASE j # Len(r) + 1
      <4>1. j \in k + 1 .. Len(r) /\ j \in 1 .. Len(r)
        BY <1>2, <2>1, <3>2
      <4> QED
        BY <1>2, <2>1, <4>1
    <3> QED
      BY <3>1, <3>2
  <2> QED
    BY <1>2, <1>3, <2>1, <2>2
<1> QED
  BY <1>4, <1>5, <1>6

LEMMA LastOnce ==
  ASSUME NEW r \in Seq(Pages), NEW i \in LastOf(r), NEW j \in LastOf(r), r[i] = r[j]
  PROVE  i = j
<1>0. Len(r) \in Nat
  BY LenProperties
<1>1. i < j => j \in i + 1 .. Len(r)
  BY <1>0 DEF LastOf
<1>2. j < i => i \in j + 1 .. Len(r)
  BY <1>0 DEF LastOf
<1> QED
  BY <1>0, <1>1, <1>2 DEF LastOf

LEMMA LastUse ==
  ASSUME NEW r \in Seq(Pages), NEW k \in 1 .. Len(r)
  PROVE  \E m \in LastOf(r) : m >= k /\ r[m] = r[k]
<1>0. Len(r) \in Nat
  BY LenProperties
<1> DEFINE X == {n \in 0 .. Len(r) - k : r[Len(r) - n] = r[k]}
<1>1. Len(r) - k \in X
  BY <1>0
<1>2. X \subseteq Nat /\ X # {}
  <2>1. 0 .. Len(r) - k \subseteq Nat
    BY <1>0
  <2> HIDE <1>0
  <2> QED
    BY <1>1, <2>1, Zenon
<1> HIDE DEF X
<1>3. PICK n \in X : \A l \in X : n <= l
  BY <1>2, LeastNumber
<1>4. PICK m \in k .. Len(r) : m = Len(r) - n /\ n \in 0 .. Len(r) - k /\ r[m] = r[k]
  BY <1>0, <1>3 DEF X
<1>5. ASSUME NEW j \in m + 1 .. Len(r) PROVE r[j] # r[m]
  <2> SUFFICES ASSUME r[j] = r[k] PROVE FALSE
    BY <1>4
  <2>1. PICK l \in 0 .. Len(r) - k : l = Len(r) - j
    BY <1>0, <1>4
  <2>2. Len(r) - l = j /\ l < n
    BY <1>0, <1>4, <2>1
  <2>3. l \in X
    BY <2>1, <2>2 DEF X
  <2> QED
    BY <1>0, <1>3, <1>4, <2>1, <2>2, <2>3
<1>6. m \in LastOf(r)
  BY <1>0, <1>4, <1>5 DEF LastOf
<1> QED
  BY <1>0, <1>4, <1>6

OneToOne(f, n) == \A i, j \in 1 .. n : f[i] = f[j] => i = j

LEMMA Counted ==
  ASSUME NEW n \in Nat, NEW T, NEW f \in [1 .. n -> T], NEW S, S = {f[i] : i \in 1 .. n}
  PROVE  /\ IsFiniteSet(S) /\ Cardinality(S) <= n
         /\ OneToOne(f, n) => Cardinality(S) = n
<1>1. f \in Surjection(1 .. n, S)
  BY DEF Surjection
<1>2. IsFiniteSet(1 .. n) /\ Cardinality(1 .. n) = n
  BY FS_Interval
<1>3. /\ IsFiniteSet(S) /\ Cardinality(S) <= Cardinality(1 .. n)
      /\ Cardinality(S) = Cardinality(1 .. n) <=> f \in Injection(1 .. n, S)
  BY <1>1, <1>2, FS_Surjection
<1>4. OneToOne(f, n) => f \in Injection(1 .. n, S)
  BY <1>1 DEF Injection, Surjection, IsInjective, OneToOne
<1> QED
  BY <1>2, <1>3, <1>4

LEMMA AskedFinite ==
  ASSUME NEW r \in Seq(Pages), NEW i \in 1 .. Len(r) + 1
  PROVE  IsFiniteSet(AskedIn(r, i)) /\ Cardinality(AskedIn(r, i)) \in Nat
<1>1. Len(r) \in Nat /\ r \in [1 .. Len(r) -> Pages]
  BY LenProperties
<1>2. PICK S : S = {r[k] : k \in 1 .. Len(r)}
  OBVIOUS
<1>3. IsFiniteSet(S)
  BY <1>1, <1>2, Counted
<1>4. AskedIn(r, i) \subseteq S
  BY <1>1, <1>2 DEF AskedIn
<1> QED
  BY <1>3, <1>4, FS_Subset, FS_CardinalityType

LEMMA MemorySize ==
  ASSUME NEW r, NEW mem, NEW F, Holds(r, mem, F), NEW S, S = {mem[i] : i \in 1 .. Len(mem)}
  PROVE  IsFiniteSet(S) /\ Cardinality(S) = Len(mem) /\ Len(mem) \in Nat
<1>1. Len(mem) \in Nat /\ mem \in [1 .. Len(mem) -> Pages]
  BY LenProperties DEF Holds
<1>2. OneToOne(mem, Len(mem))
  BY DEF Holds, OneToOne
<1> QED
  BY <1>1, <1>2, Counted

\* A memory that keeps the last of P has the pages of P asked for in a stretch of
\* requests for no more pages than there are frames.
LEMMA KeepsStretch ==
  ASSUME NEW r \in Seq(Pages), NEW mem, NEW F \in Nat, NEW P, P \subseteq 1 .. Len(r),
         Holds(r, mem, F), KeepsLast(r, mem, P, F),
         NEW i \in 1 .. Len(r), Cardinality(AskedIn(r, i)) <= F, NEW k \in P, k >= i
  PROVE  IsIn(mem, r[k])
<1> SUFFICES ASSUME ~IsIn(mem, r[k]) PROVE FALSE
  OBVIOUS
<1>0. Len(r) \in Nat /\ Len(mem) \in Nat
  BY LenProperties DEF Holds
<1>1. PICK u \in [1 .. Len(mem) -> P] : InOrder(r, mem, P, F, u)
  BY DEF KeepsLast
<1>2. \A j \in 1 .. Len(mem) : u[j] # k
  BY <1>1 DEF InOrder, IsIn
<1>3. Len(mem) = F /\ \A j \in 1 .. Len(mem) : k < u[j]
  BY <1>1, <1>2 DEF InOrder
<1>4. PICK S : S = {mem[j] : j \in 1 .. Len(mem)}
  OBVIOUS
<1>5. IsFiniteSet(S) /\ Cardinality(S) = F
  BY <1>3, <1>4, MemorySize
<1>6. ASSUME NEW j \in 1 .. Len(mem) PROVE mem[j] = r[u[j]] /\ u[j] \in i .. Len(r)
  <2>1. u[j] \in 1 .. Len(r) /\ k < u[j] /\ k \in 1 .. Len(r)
    BY <1>3
  <2>2. mem[j] = r[u[j]]
    BY <1>1 DEF InOrder
  <2> QED
    BY <1>0, <2>1, <2>2
<1>7. S \cup {r[k]} \subseteq AskedIn(r, i)
  BY <1>0, <1>4, <1>6 DEF AskedIn
<1>8. r[k] \notin S
  BY <1>4 DEF IsIn
<1>9. IsFiniteSet(AskedIn(r, i)) /\ Cardinality(AskedIn(r, i)) \in Nat
  BY <1>0, AskedFinite
<1>10. Cardinality(S \cup {r[k]}) = F + 1
  BY <1>5, <1>8, FS_AddElement
<1>11. Cardinality(S \cup {r[k]}) <= Cardinality(AskedIn(r, i))
  BY <1>7, <1>9, FS_Subset
<1> QED
  BY <1>9, <1>10, <1>11

\* One that keeps the last uses has a page exactly if fewer others were used
\* later than there are other frames.
LEMMA KeepsLatest ==
  ASSUME NEW r \in Seq(Pages), NEW mem, NEW F \in Nat, NEW L, L = LastOf(r),
         Holds(r, mem, F), KeepsLast(r, mem, L, F), NEW i \in L
  PROVE  IsIn(mem, r[i]) <=> Cardinality({k \in L : k >= i}) <= F
<1> DEFINE Later == {k \in L : k >= i}
<1>0. Len(r) \in Nat /\ Len(mem) \in Nat /\ Len(mem) <= F /\ L \subseteq 1 .. Len(r)
  BY LenProperties DEF Holds, LastOf
<1>1. PICK u \in [1 .. Len(mem) -> L] : InOrder(r, mem, L, F, u)
  BY DEF KeepsLast
<1>2. PICK U : U = {u[j] : j \in 1 .. Len(mem)}
  OBVIOUS
<1>3. OneToOne(u, Len(mem))
  BY <1>0, <1>1 DEF InOrder, OneToOne
<1>4. IsFiniteSet(U) /\ Cardinality(U) = Len(mem)
  BY <1>0, <1>2, <1>3, Counted
<1>5. IsIn(mem, r[i]) <=> i \in U
  <2>1. ASSUME NEW j \in 1 .. Len(mem), mem[j] = r[i] PROVE i \in U
    <3>1. u[j] \in L /\ r[u[j]] = r[i]
      BY <1>1, <2>1 DEF InOrder
    <3>2. u[j] = i
      BY <3>1, LastOnce
    <3> QED
      BY <1>2, <3>2
  <2>2. ASSUME NEW j \in 1 .. Len(mem), u[j] = i PROVE mem[j] = r[i]
    BY <1>1, <2>2 DEF InOrder
  <2> QED
    BY <1>2, <2>1, <2>2 DEF IsIn
<1>6. CASE i \in U
  <2>1. PICK m \in 1 .. Len(mem) : u[m] = i
    BY <1>2, <1>6
  <2>2. Later \subseteq U
    BY <1>0, <1>1, <1>2, <2>1 DEF InOrder
  <2>3. Cardinality(Later) <= Cardinality(U)
    BY <1>4, <2>2, FS_Subset
  <2>4. Cardinality(Later) \in Nat
    BY <1>4, <2>2, FS_Subset, FS_CardinalityType
  <2> QED
    BY <1>0, <1>4, <1>5, <1>6, <2>3, <2>4
<1>7. CASE i \notin U
  <2>1. Len(mem) = F /\ \A j \in 1 .. Len(mem) : i < u[j]
    BY <1>1, <1>2, <1>7 DEF InOrder
  <2>2. U \cup {i} \subseteq Later
    BY <1>0, <1>1, <1>2, <2>1
  <2>3. Later \subseteq 1 .. Len(r) /\ IsFiniteSet(1 .. Len(r))
    BY <1>0, FS_Interval
  <2>4. IsFiniteSet(Later) /\ Cardinality(Later) \in Nat
    BY <2>3, FS_Subset, FS_CardinalityType
  <2>5. Cardinality(U \cup {i}) = F + 1
    BY <1>4, <1>7, <2>1, FS_AddElement
  <2>6. Cardinality(U \cup {i}) <= Cardinality(Later)
    BY <2>2, <2>4, FS_Subset
  <2> QED
    BY <1>5, <1>7, <2>4, <2>5, <2>6
<1> QED
  BY <1>6, <1>7

LEMMA KeepsOrder ==
  ASSUME NEW r \in Seq(Pages), NEW mem, NEW F \in Nat, NEW L, L = LastOf(r),
         Holds(r, mem, F), KeepsLast(r, mem, L, F), NEW i \in L, NEW j \in L,
         IsIn(mem, r[i]), IsIn(mem, r[j]), i < j
  PROVE  \E m, n \in 1 .. Len(mem) : m < n /\ mem[m] = r[i] /\ mem[n] = r[j]
<1>0. Len(r) \in Nat /\ Len(mem) \in Nat /\ L \subseteq 1 .. Len(r)
  BY LenProperties DEF Holds, LastOf
<1>1. PICK u \in [1 .. Len(mem) -> L] : InOrder(r, mem, L, F, u)
  BY DEF KeepsLast
<1>2. PICK m \in 1 .. Len(mem), n \in 1 .. Len(mem) : mem[m] = r[i] /\ mem[n] = r[j]
  BY DEF IsIn
<1>3. u[m] \in L /\ u[n] \in L /\ r[u[m]] = r[i] /\ r[u[n]] = r[j]
  BY <1>1, <1>2 DEF InOrder
<1>4. u[m] = i /\ u[n] = j
  BY <1>3, LastOnce
<1>5. m < n
  <2>1. ~(n < m) /\ n # m
    BY <1>0, <1>1, <1>4 DEF InOrder
  <2> QED
    BY <1>0, <2>1
<1> QED
  BY <1>2, <1>5

-----------------------------------------------------------------------------
(* The invariant.                                                           *)

\* In a stretch of requests for at most F pages, no page is faulted on twice.
FaultsOnce(r, flt, F) ==
  \A i \in 1 .. Len(r) : Cardinality(AskedIn(r, i)) <= F =>
    \A j, k \in flt : j >= i /\ k >= i /\ r[j] = r[k] => j = k

PagingInv ==
  /\ requests \in Seq(Pages) /\ N <= MaxRequests
  /\ \A p \in Programs : Holds(requests, memory(p), Frames(p))
  /\ KeepsLast(requests, lru, LastOf(requests), physicalFrames)
  /\ KeepsLast(requests, lruMore, LastOf(requests), physicalFrames + 1)
  /\ KeepsLast(requests, fifo, faults["fifo"], physicalFrames)
  /\ faults \in [Programs -> SUBSET (1 .. N)]
  /\ faults["lruMore"] \subseteq faults["lru"]
  /\ FaultsOnce(requests, faults["lru"], physicalFrames)
  /\ FaultsOnce(requests, faults["fifo"], physicalFrames)

LEMMA FaultsOnceStep ==
  ASSUME NEW r \in Seq(Pages), NEW q \in Pages, NEW mem, NEW F \in Nat,
         NEW flt, flt \subseteq 1 .. Len(r), FaultsOnce(r, flt, F),
         \A i \in 1 .. Len(r) : Cardinality(AskedIn(r, i)) <= F =>
           \A k \in flt : k >= i => IsIn(mem, r[k]),
         NEW flt2, flt2 = IF IsIn(mem, q) THEN flt ELSE flt \cup {Len(r) + 1}
  PROVE  FaultsOnce(Append(r, q), flt2, F)
<1>1. PICK s \in Seq(Pages) : s = Append(r, q)
  BY AppendRequest
<1>2. /\ Len(r) \in Nat /\ Len(s) = Len(r) + 1
      /\ \A k \in 1 .. Len(r) : s[k] = r[k]
      /\ s[Len(r) + 1] = q
  BY <1>1, AppendRequest
<1>3. SUFFICES ASSUME NEW i \in 1 .. Len(s), Cardinality(AskedIn(s, i)) <= F,
                      NEW j \in flt2, NEW k \in flt2, j >= i, k >= i, s[j] = s[k], j < k
               PROVE  FALSE
  <2>1. \A j \in flt2 : j \in Nat
    BY <1>2
  <2> SUFFICES ASSUME NEW i \in 1 .. Len(s), Cardinality(AskedIn(s, i)) <= F,
                      NEW j \in flt2, NEW k \in flt2, j >= i, k >= i, s[j] = s[k], j # k
               PROVE  FALSE
    BY <1>1 DEF FaultsOnce
  <2>2. j < k \/ k < j
    BY <2>1
  <2> QED
    BY <2>2
<1>4. j \in flt /\ j \in 1 .. Len(r) /\ i \in 1 .. Len(r) /\ i <= j
  BY <1>2, <1>3
<1>5. AskedIn(r, i) \subseteq AskedIn(s, i)
  <2> SUFFICES ASSUME NEW l \in i .. Len(r) PROVE r[l] \in AskedIn(s, i)
    BY DEF AskedIn
  <2>1. l \in i .. Len(s) /\ s[l] = r[l]
    BY <1>2, <1>4
  <2> QED
    BY <2>1 DEF AskedIn
<1>6. Cardinality(AskedIn(r, i)) <= F
  <2>1. IsFiniteSet(AskedIn(s, i)) /\ Cardinality(AskedIn(s, i)) \in Nat
    BY <1>2, AskedFinite
  <2>2. Cardinality(AskedIn(r, i)) <= Cardinality(AskedIn(s, i))
    BY <1>5, <2>1, FS_Subset
  <2>3. Cardinality(AskedIn(r, i)) \in Nat
    BY <1>2, <1>4, AskedFinite
  <2> QED
    BY <1>3, <2>1, <2>2, <2>3
<1>7. CASE k \in flt
  <2>1. r[j] = r[k] /\ k \in 1 .. Len(r)
    BY <1>2, <1>3, <1>4, <1>7
  <2>2. j = k
    BY <1>3, <1>4, <1>6, <1>7, <2>1 DEF FaultsOnce
  <2> QED
    BY <1>3, <1>4, <2>2
<1>8. CASE k \notin flt
  <2>1. k = Len(r) + 1 /\ ~IsIn(mem, q)
    BY <1>8
  <2>2. r[j] = q
    BY <1>2, <1>3, <1>4, <2>1
  <2>3. IsIn(mem, r[j])
    BY <1>3, <1>4, <1>6
  <2> QED
    BY <2>1, <2>2, <2>3
<1> QED
  BY <1>7, <1>8

LEMMA LruStretch ==
  ASSUME NEW r \in Seq(Pages), NEW mem, NEW F \in Nat,
         Holds(r, mem, F), KeepsLast(r, mem, LastOf(r), F),
         NEW i \in 1 .. Len(r), Cardinality(AskedIn(r, i)) <= F, NEW k \in 1 .. Len(r), k >= i
  PROVE  IsIn(mem, r[k])
<1>0. LastOf(r) \subseteq 1 .. Len(r) /\ Len(r) \in Nat
  BY LenProperties DEF LastOf
<1>1. PICK m \in LastOf(r) : m >= k /\ r[m] = r[k]
  BY LastUse
<1>2. m >= i
  BY <1>0, <1>1
<1>3. IsIn(mem, r[m])
  BY <1>0, <1>2, KeepsStretch
<1> QED
  BY <1>1, <1>3

\* What a program with one more frame has is all that LRU has.
LEMMA MoreFrames ==
  ASSUME NEW r \in Seq(Pages), NEW mem, NEW mem2, NEW F \in Nat,
         Holds(r, mem, F), KeepsLast(r, mem, LastOf(r), F),
         Holds(r, mem2, F + 1), KeepsLast(r, mem2, LastOf(r), F + 1),
         NEW q, IsIn(mem, q)
  PROVE  IsIn(mem2, q)
<1>0. LastOf(r) \subseteq 1 .. Len(r) /\ Len(r) \in Nat /\ F + 1 \in Nat
  BY LenProperties DEF LastOf
<1>1. PICK m \in 1 .. Len(r) : r[m] = q
  <2>1. PICK j \in 1 .. Len(mem) : mem[j] = q
    BY DEF IsIn
  <2>2. IsIn(r, mem[j])
    BY <2>1 DEF Holds
  <2> QED
    BY <2>1, <2>2 DEF IsIn
<1>2. PICK i \in LastOf(r) : r[i] = q
  BY <1>1, LastUse
<1>3. Cardinality({k \in LastOf(r) : k >= i}) <= F
  BY <1>2, KeepsLatest
<1>4. Cardinality({k \in LastOf(r) : k >= i}) \in Nat
  <2>1. {k \in LastOf(r) : k >= i} \subseteq 1 .. Len(r) /\ IsFiniteSet(1 .. Len(r))
    BY <1>0, FS_Interval
  <2> QED
    BY <2>1, FS_Subset, FS_CardinalityType
<1>5. Cardinality({k \in LastOf(r) : k >= i}) <= F + 1
  BY <1>3, <1>4
<1>6. IsIn(mem2, r[i])
  BY <1>0, <1>5, KeepsLatest
<1> QED
  BY <1>2, <1>6

\* One request of LRU and of FIFO.
LEMMA LruKeeps ==
  ASSUME NEW r \in Seq(Pages), NEW q \in Pages, NEW mem, NEW F \in Nat \ {0},
         Holds(r, mem, F), KeepsLast(r, mem, LastOf(r), F)
  PROVE  /\ Holds(Append(r, q), LruStep(mem, F, q), F)
         /\ KeepsLast(Append(r, q), LruStep(mem, F, q), LastOf(Append(r, q)), F)
<1>0. mem \in Seq(Pages) /\ Len(mem) <= F /\ F \in Nat /\ LastOf(r) \subseteq 1 .. Len(r)
  BY DEF Holds, LastOf
<1>1. PICK i \in 1 .. Len(mem) + 1 :
        /\ Comes(mem, LruStep(mem, F, q), q, F, i)
        /\ IsIn(mem, q) => i <= Len(mem) /\ mem[i] = q
        /\ ~IsIn(mem, q) => i = 1 \/ i = Len(mem) + 1
  BY <1>0, LruComes
<1>2. PICK mem2 : mem2 = LruStep(mem, F, q)
  OBVIOUS
<1>3. PICK L : L = LastOf(Append(r, q))
  OBVIOUS
<1>4. /\ Len(r) + 1 \in L /\ L \subseteq LastOf(r) \cup {Len(r) + 1}
      /\ \A k \in LastOf(r) : r[k] # q => k \in L
      /\ \A k \in L \ {Len(r) + 1} : r[k] # q
  BY <1>3, LastOfAppend
<1>5. Comes(mem, mem2, q, F, i)
  BY <1>1, <1>2
<1>6. \/ i = 1 /\ ~IsIn(mem, q)
      \/ i = Len(mem) + 1
      \/ mem[i] = q /\ \A k \in L \ {Len(r) + 1} : r[k] # q
  BY <1>1, <1>4
<1>7. KeepsLast(Append(r, q), mem2, L, F)
  BY <1>0, <1>4, <1>5, <1>6, KeepsComes
<1>8. Holds(Append(r, q), mem2, F)
  BY <1>0, <1>5, HoldsComes
<1> QED
  BY <1>2, <1>3, <1>7, <1>8

LEMMA KeepsStays ==
  ASSUME NEW r \in Seq(Pages), NEW q \in Pages, NEW mem, NEW F \in Nat,
         NEW P, P \subseteq 1 .. Len(r), KeepsLast(r, mem, P, F)
  PROVE  KeepsLast(Append(r, q), mem, P, F)
<1>1. PICK s \in Seq(Pages) : s = Append(r, q)
  BY AppendRequest
<1>2. \A k \in 1 .. Len(r) : s[k] = r[k]
  BY <1>1, AppendRequest
<1>3. PICK u \in [1 .. Len(mem) -> P] : InOrder(r, mem, P, F, u)
  BY DEF KeepsLast
<1>4. \A i \in 1 .. Len(mem) : s[u[i]] = mem[i]
  BY <1>2, <1>3 DEF InOrder
<1>5. InOrder(s, mem, P, F, u)
  BY <1>3, <1>4 DEF InOrder
<1> QED
  BY <1>1, <1>5 DEF KeepsLast

LEMMA FifoKeeps ==
  ASSUME NEW r \in Seq(Pages), NEW q \in Pages, NEW mem,
         NEW flt, flt \subseteq 1 .. Len(r),
         Holds(r, mem, physicalFrames), KeepsLast(r, mem, flt, physicalFrames),
         NEW flt2, flt2 = IF IsIn(mem, q) THEN flt ELSE flt \cup {Len(r) + 1}
  PROVE  /\ Holds(Append(r, q), FifoStep(mem, q), physicalFrames)
         /\ KeepsLast(Append(r, q), FifoStep(mem, q), flt2, physicalFrames)
<1> DEFINE F == physicalFrames
<1>0. mem \in Seq(Pages) /\ Len(mem) <= F /\ F \in Nat
  BY PagingAssumption DEF Holds
<1>1. CASE IsIn(mem, q)
  <2>1. FifoStep(mem, q) = mem /\ flt2 = flt
    BY <1>0, <1>1, FifoComes
  <2> QED
    BY <1>0, <1>1, <2>1, HoldsStays, KeepsStays
<1>2. CASE ~IsIn(mem, q)
  <2>1. PICK mem2 : mem2 = FifoStep(mem, q)
    OBVIOUS
  <2>2. PICK i \in {1, Len(mem) + 1} : Comes(mem, mem2, q, F, i)
    BY <1>0, <1>2, <2>1, FifoComes
  <2>3. Holds(Append(r, q), mem2, F)
    BY <1>0, <2>2, HoldsComes
  <2>4. /\ Len(r) + 1 \in flt2 /\ flt2 \subseteq flt \cup {Len(r) + 1}
        /\ \A k \in flt : r[k] # q => k \in flt2
    BY <1>2
  <2>5. \/ i = 1 /\ ~IsIn(mem, q)
        \/ i = Len(mem) + 1
        \/ mem[i] = q /\ \A k \in flt2 \ {Len(r) + 1} : r[k] # q
    BY <1>2, <2>2
  <2>6. KeepsLast(Append(r, q), mem2, flt2, F)
    BY <1>0, <2>2, <2>4, <2>5, KeepsComes
  <2> QED
    BY <2>1, <2>3, <2>6
<1> QED
  BY <1>1, <1>2

LEMMA PagingInitOK == PagingInit => PagingInv
<1> SUFFICES ASSUME PagingInit PROVE PagingInv
  OBVIOUS
<1>1. /\ requests = <<>> /\ \A p \in Programs : memory(p) = <<>> /\ Frames(p) \in Nat
      /\ fifo = <<>> /\ lru = <<>> /\ lruMore = <<>>
      /\ faults = [p \in Programs |-> {}]
  BY PagingAssumption DEF PagingInit, Programs, memory, Frames
<1>2. <<>> \in Seq(Pages) /\ Len(<<>>) = 0
  BY EmptySeq
<1>3. LastOf(requests) = {}
  BY <1>1, <1>2 DEF LastOf
<1>4. \A F \in Nat : Holds(requests, <<>>, F)
  BY <1>1, <1>2 DEF Holds
<1>5. ASSUME NEW F \in Nat PROVE KeepsLast(requests, <<>>, {}, F)
  <2>1. PICK u : u = [i \in 1 .. 0 |-> {}]
    OBVIOUS
  <2>2. u \in [1 .. Len(<<>>) -> {}] /\ 1 .. Len(<<>>) = {}
    BY <1>2, <2>1
  <2>3. InOrder(requests, <<>>, {}, F, u)
    BY <2>2 DEF InOrder
  <2> QED
    BY <2>2, <2>3 DEF KeepsLast
<1>6. /\ faults["lru"] = {} /\ faults["lruMore"] = {} /\ faults["fifo"] = {}
      /\ faults \in [Programs -> SUBSET (1 .. N)]
  BY <1>1 DEF Programs
<1>7. N = 0 /\ requests \in Seq(Pages) /\ N <= MaxRequests
  BY <1>1, <1>2, PagingAssumption DEF N
<1>8. FaultsOnce(requests, {}, physicalFrames)
  BY DEF FaultsOnce
<1>9. physicalFrames \in Nat /\ physicalFrames + 1 \in Nat
  BY PagingAssumption
<1>10. \A p \in Programs : Holds(requests, memory(p), Frames(p))
  BY <1>1, <1>4
<1>11. /\ KeepsLast(requests, lru, LastOf(requests), physicalFrames)
       /\ KeepsLast(requests, lruMore, LastOf(requests), physicalFrames + 1)
       /\ KeepsLast(requests, fifo, faults["fifo"], physicalFrames)
  BY <1>1, <1>3, <1>5, <1>6, <1>9
<1> QED
  BY <1>6, <1>7, <1>8, <1>10, <1>11 DEF PagingInv

\* What a step does to faults, program by program.
LEMMA FaultsStep ==
  ASSUME NEW q, PagingInv, Request(q)
  PROVE  /\ faults' \in [Programs -> SUBSET (1 .. N + 1)]
         /\ \A p \in Programs :
              faults'[p] = IF IsIn(memory(p), q) THEN faults[p] ELSE faults[p] \cup {N + 1}
<1>1. \A p \in Programs : Resident(memory(p), q) <=> IsIn(memory(p), q)
  BY DEF Resident, Contains, IsIn
<1>2. faults' = [p \in Programs |->
        IF Resident(memory(p), q) THEN faults[p] ELSE faults[p] \cup {N + 1}]
  BY DEF Request, N
<1>3. \A p \in Programs : faults[p] \in SUBSET (1 .. N) /\ N \in Nat
  BY LenProperties DEF PagingInv, N
<1>4. \A p \in Programs :
        faults'[p] = IF IsIn(memory(p), q) THEN faults[p] ELSE faults[p] \cup {N + 1}
  BY <1>1, <1>2
<1>5. ASSUME NEW p \in Programs PROVE faults'[p] \in SUBSET (1 .. N + 1)
  <2>1. 1 .. N \subseteq 1 .. N + 1 /\ N + 1 \in 1 .. N + 1
    BY <1>3
  <2>2. faults'[p] = faults[p] \/ faults'[p] = faults[p] \cup {N + 1}
    BY <1>4
  <2> QED
    BY <1>3, <2>1, <2>2
<1> QED
  BY <1>2, <1>4, <1>5

LEMMA PagingStep == PagingInv /\ [PagingNext]_pagingVars => PagingInv'
<1> SUFFICES ASSUME PagingInv, [PagingNext]_pagingVars PROVE PagingInv'
  OBVIOUS
<1>1. CASE UNCHANGED pagingVars
  BY <1>1 DEF pagingVars, PagingInv, memory, N
<1>2. CASE PagingNext
  <2>1. PICK q \in Pages : Request(q)
    BY <1>2 DEF PagingNext
  <2> DEFINE F == physicalFrames
             r == requests
  <2>2. /\ r \in Seq(Pages) /\ N = Len(r) /\ N \in Nat
        /\ F \in Nat \ {0} /\ F \in Nat /\ F + 1 \in Nat \ {0} /\ F + 1 \in Nat
        /\ requests' = Append(r, q)
    BY <2>1, LenProperties, PagingAssumption DEF PagingInv, N, Request
  <2>3. /\ "fifo" \in Programs /\ "lru" \in Programs
        /\ "lruMore" \in Programs /\ "random" \in Programs
        /\ memory("fifo") = fifo /\ memory("lru") = lru
        /\ memory("lruMore") = lruMore /\ memory("random") = random
        /\ Frames("fifo") = F /\ Frames("lru") = F /\ Frames("lruMore") = F + 1 /\ Frames("random") = F
    BY DEF Programs, memory, Frames
  <2>4. /\ Holds(r, fifo, F) /\ Holds(r, lru, F) /\ Holds(r, lruMore, F + 1) /\ Holds(r, random, F)
    BY <2>3 DEF PagingInv
  <2>5. /\ KeepsLast(r, lru, LastOf(r), F) /\ KeepsLast(r, lruMore, LastOf(r), F + 1)
        /\ KeepsLast(r, fifo, faults["fifo"], F)
        /\ FaultsOnce(r, faults["lru"], F) /\ FaultsOnce(r, faults["fifo"], F)
        /\ faults["lruMore"] \subseteq faults["lru"]
        /\ \A p \in Programs : faults[p] \subseteq 1 .. Len(r)
    BY <2>2 DEF PagingInv
  <2>6. /\ faults' \in [Programs -> SUBSET (1 .. N + 1)]
        /\ \A p \in Programs :
             faults'[p] = IF IsIn(memory(p), q) THEN faults[p] ELSE faults[p] \cup {N + 1}
    BY <2>1, FaultsStep
  <2>7. /\ fifo' = FifoStep(fifo, q) /\ lru' = LruStep(lru, F, q)
        /\ lruMore' = LruStep(lruMore, F + 1, q) /\ random' \in RandomStep(random, q)
    BY <2>1 DEF Request
  <2>8. Holds(requests', lru', F) /\ KeepsLast(requests', lru', LastOf(requests)', F)
    BY <2>2, <2>4, <2>5, <2>7, LruKeeps
  <2>9. Holds(requests', lruMore', F + 1) /\ KeepsLast(requests', lruMore', LastOf(requests)', F + 1)
    BY <2>2, <2>4, <2>5, <2>7, LruKeeps
  <2>10. Holds(requests', fifo', F) /\ KeepsLast(requests', fifo', faults'["fifo"], F)
    <3>1. faults'["fifo"] = IF IsIn(fifo, q) THEN faults["fifo"] ELSE faults["fifo"] \cup {Len(r) + 1}
      BY <2>2, <2>3, <2>6
    <3>2. faults["fifo"] \subseteq 1 .. Len(r)
      BY <2>3, <2>5
    <3> QED
      BY <2>2, <2>4, <2>5, <2>7, <3>1, <3>2, FifoKeeps
  <2>11. Holds(requests', random', F)
    <3>0. random \in Seq(Pages) /\ Len(random) <= F
      BY <2>4 DEF Holds
    <3>1. CASE IsIn(random, q)
      <4>1. random' = random
        BY <2>7, <3>0, <3>1, RandomComes
      <4> QED
        BY <2>2, <2>4, <3>1, <4>1, HoldsStays
    <3>2. CASE ~IsIn(random, q)
      <4>1. PICK i \in 1 .. Len(random) + 1 : Comes(random, random', q, F, i)
        BY <2>7, <3>0, <3>2, RandomComes
      <4> QED
        BY <2>2, <2>4, <4>1, HoldsComes
    <3> QED
      BY <3>1, <3>2
  <2>12. FaultsOnce(requests', faults'["lru"], F)
    <3>1. faults'["lru"] = IF IsIn(lru, q) THEN faults["lru"] ELSE faults["lru"] \cup {Len(r) + 1}
      BY <2>2, <2>3, <2>6
    <3>2. faults["lru"] \subseteq 1 .. Len(r)
      BY <2>3, <2>5
    <3>3. \A i \in 1 .. Len(r) : Cardinality(AskedIn(r, i)) <= F =>
            \A k \in faults["lru"] : k >= i => IsIn(lru, r[k])
      BY <2>2, <2>4, <2>5, <3>2, LruStretch
    <3> QED
      BY <2>2, <2>5, <3>1, <3>2, <3>3, FaultsOnceStep
  <2>13. FaultsOnce(requests', faults'["fifo"], F)
    <3>1. faults'["fifo"] = IF IsIn(fifo, q) THEN faults["fifo"] ELSE faults["fifo"] \cup {Len(r) + 1}
      BY <2>2, <2>3, <2>6
    <3>2. faults["fifo"] \subseteq 1 .. Len(r)
      BY <2>3, <2>5
    <3>3. \A i \in 1 .. Len(r) : Cardinality(AskedIn(r, i)) <= F =>
            \A k \in faults["fifo"] : k >= i => IsIn(fifo, r[k])
      BY <2>2, <2>4, <2>5, <3>2, KeepsStretch
    <3> QED
      BY <2>2, <2>5, <3>1, <3>2, <3>3, FaultsOnceStep
  <2>14. faults'["lruMore"] \subseteq faults'["lru"]
    <3>1. IsIn(lru, q) => IsIn(lruMore, q)
      BY <2>2, <2>4, <2>5, MoreFrames
    <3> QED
      BY <2>3, <2>5, <2>6, <3>1
  <2>15. N' = N + 1 /\ N' <= MaxRequests /\ requests' \in Seq(Pages)
    <3>1. Len(requests') = Len(r) + 1 /\ requests' \in Seq(Pages)
      BY <2>2, AppendRequest
    <3>2. Len(r) < MaxRequests
      BY <2>1 DEF Request
    <3> QED
      BY <2>2, <3>1, <3>2, PagingAssumption DEF N
  <2>16. \A p \in Programs : Holds(requests', memory(p)', Frames(p))
    <3>1. /\ memory("fifo")' = fifo' /\ memory("lru")' = lru'
          /\ memory("lruMore")' = lruMore' /\ memory("random")' = random'
      BY DEF memory
    <3> QED
      BY <2>3, <2>8, <2>9, <2>10, <2>11, <3>1 DEF Programs
  <2> QED
    BY <2>6, <2>8, <2>9, <2>10, <2>12, <2>13, <2>14, <2>15, <2>16 DEF PagingInv
<1> QED
  BY <1>1, <1>2

LEMMA PagingInvariant == PagingSpec => []PagingInv
BY PagingInitOK, PagingStep, PTL DEF PagingSpec

-----------------------------------------------------------------------------
LEMMA InvTypes == PagingInv => PagingTypeOK
<1>0. PagingInv => requests \in Seq(Pages) /\ N <= MaxRequests
  BY DEF PagingInv
<1> SUFFICES ASSUME PagingInv, NEW p \in Programs
             PROVE  /\ memory(p) \in Seq(Pages) /\ IsInjective(memory(p))
                    /\ Len(memory(p)) = IF Cardinality(Asked(1, N)) < Frames(p)
                                          THEN Cardinality(Asked(1, N)) ELSE Frames(p)
  BY <1>0 DEF PagingTypeOK
<1>1. PICK mem : mem = memory(p)
  OBVIOUS
<1>2. PICK F : F = Frames(p)
  OBVIOUS
<1>3. F \in Nat
  BY <1>2, PagingAssumption DEF Frames
<1>4. Holds(requests, mem, F)
  BY <1>1, <1>2 DEF PagingInv
<1>5. mem \in Seq(Pages) /\ Len(mem) \in Nat /\ Len(mem) <= F
  BY <1>4, LenProperties DEF Holds
<1>6. IsInjective(mem)
  BY <1>4, <1>5, LenProperties DEF Holds, IsInjective
<1>7. PICK S : S = {mem[i] : i \in 1 .. Len(mem)}
  OBVIOUS
<1>8. IsFiniteSet(S) /\ Cardinality(S) = Len(mem)
  BY <1>4, <1>7, MemorySize
<1>9. PICK A : A = Asked(1, N)
  OBVIOUS
<1>10. IsFiniteSet(A) /\ Cardinality(A) \in Nat
  <2>1. A = AskedIn(requests, 1) /\ Len(requests) \in Nat
    BY <1>0, <1>9, LenProperties DEF Asked, AskedIn, N
  <2> QED
    BY <1>0, <2>1, AskedFinite
<1>11. S \subseteq A
  BY <1>4, <1>7, <1>9 DEF Holds, IsIn, Asked, N
<1>12. Cardinality(S) <= Cardinality(A)
  BY <1>10, <1>11, FS_Subset
<1>13. Len(mem) = F \/ A \subseteq S
  BY <1>4, <1>7, <1>9 DEF Holds, IsIn, Asked, N
<1>14. Len(mem) = IF Cardinality(A) < F THEN Cardinality(A) ELSE F
  <2>1. CASE Len(mem) = F
    BY <1>3, <1>8, <1>10, <1>12, <2>1
  <2>2. CASE A \subseteq S
    <3>1. A = S
      BY <1>11, <2>2
    <3> QED
      BY <1>3, <1>5, <1>8, <1>10, <3>1
  <2> QED
    BY <1>13, <2>1, <2>2
<1> QED
  BY <1>0, <1>1, <1>2, <1>5, <1>6, <1>9, <1>14

\* Type correctness of the four memories: no page twice, and as many as were ever
\* asked for or as there are frames.
THEOREM PagingTypeCorrect == PagingSpec => []PagingTypeOK
BY InvTypes, PagingInvariant, PTL

LEMMA InvLatest == PagingInv => LruKeepsLatest
<1> SUFFICES ASSUME PagingInv, NEW i \in LastUses, NEW j \in LastUses
             PROVE  /\ requests[i] \in Range(lru)
                         <=> Cardinality({k \in LastUses : k >= i}) <= physicalFrames
                    /\ requests[i] \in Range(lru) /\ requests[j] \in Range(lru) /\ i < j =>
                         \E m, n \in DOMAIN lru :
                           m < n /\ lru[m] = requests[i] /\ lru[n] = requests[j]
  BY DEF LruKeepsLatest
<1>1. LastUses = LastOf(requests)
  BY DEF LastUses, LastOf, N
<1>2. /\ Holds(requests, lru, physicalFrames) /\ requests \in Seq(Pages)
      /\ KeepsLast(requests, lru, LastUses, physicalFrames) /\ physicalFrames \in Nat
  BY <1>1, PagingAssumption DEF PagingInv, Programs, memory, Frames
<1>3. DOMAIN lru = 1 .. Len(lru)
  BY <1>2, LenProperties DEF Holds
<1>4. \A q : q \in Range(lru) <=> IsIn(lru, q)
  BY <1>3 DEF Range, IsIn
<1>5. IsIn(lru, requests[i]) <=> Cardinality({k \in LastUses : k >= i}) <= physicalFrames
  BY <1>1, <1>2, KeepsLatest
<1>6. IsIn(lru, requests[i]) /\ IsIn(lru, requests[j]) /\ i < j =>
        \E m, n \in 1 .. Len(lru) : m < n /\ lru[m] = requests[i] /\ lru[n] = requests[j]
  BY <1>1, <1>2, KeepsOrder
<1> QED
  BY <1>3, <1>4, <1>5, <1>6

\* LRU holds the pages used last, in the order of their last use, for memories of
\* any size and requests of any length.
THEOREM PagingLruLatest == PagingSpec => []LruKeepsLatest
BY InvLatest, PagingInvariant, PTL

LEMMA InvInclusion == PagingInv => LruInclusion
<1> SUFFICES ASSUME PagingInv PROVE LruInclusion
  OBVIOUS
<1>1. /\ Holds(requests, lru, physicalFrames) /\ Holds(requests, lruMore, physicalFrames + 1)
      /\ KeepsLast(requests, lru, LastOf(requests), physicalFrames)
      /\ KeepsLast(requests, lruMore, LastOf(requests), physicalFrames + 1)
      /\ requests \in Seq(Pages) /\ physicalFrames \in Nat
  BY PagingAssumption DEF PagingInv, Programs, memory, Frames
<1>2. DOMAIN lru = 1 .. Len(lru) /\ DOMAIN lruMore = 1 .. Len(lruMore)
  BY <1>1, LenProperties DEF Holds
<1>3. \A q : IsIn(lru, q) => IsIn(lruMore, q)
  BY <1>1, MoreFrames
<1>4. Range(lru) \subseteq Range(lruMore)
  BY <1>2, <1>3 DEF Range, IsIn
<1> QED
  BY <1>4 DEF LruInclusion, PagingInv

\* More frames never hurt LRU, for any number of frames.
THEOREM PagingLruInclusion == PagingSpec => []LruInclusion
BY InvInclusion, PagingInvariant, PTL

LEMMA StretchFaults ==
  ASSUME PagingInv, NEW p \in {"fifo", "lru"}, NEW i \in 1 .. N,
         Cardinality(Asked(i, N)) <= physicalFrames
  PROVE  Cardinality(faults[p] \cap i .. N) <= physicalFrames
<1>1. requests \in Seq(Pages) /\ N = Len(requests) /\ N \in Nat /\ physicalFrames \in Nat
  BY LenProperties, PagingAssumption DEF PagingInv, N
<1>2. PICK A : A = AskedIn(requests, i)
  OBVIOUS
<1>3. IsFiniteSet(A) /\ Cardinality(A) \in Nat /\ Cardinality(A) <= physicalFrames
  <2>1. A = Asked(i, N)
    BY <1>1, <1>2 DEF AskedIn, Asked
  <2>2. i \in 1 .. Len(requests) + 1
    BY <1>1
  <2> QED
    BY <1>1, <1>2, <2>1, <2>2, AskedFinite
<1>4. PICK S : S = faults[p] \cap i .. N
  OBVIOUS
<1>5. \A j, k \in S : requests[j] = requests[k] => j = k
  <2>1. FaultsOnce(requests, faults[p], physicalFrames)
    BY DEF PagingInv
  <2> QED
    BY <1>1, <1>2, <1>3, <1>4, <2>1 DEF FaultsOnce
<1>6. [k \in S |-> requests[k]] \in Injection(S, A)
  BY <1>1, <1>2, <1>4, <1>5 DEF Injection, IsInjective, AskedIn
<1>7. IsFiniteSet(S) /\ Cardinality(S) <= Cardinality(A)
  BY <1>3, <1>6, FS_Injection
<1> QED
  BY <1>1, <1>3, <1>4, <1>7, FS_CardinalityType

LEMMA InvConservative == PagingInv => Conservative
<1>1. PagingInv => \A p \in {"fifo", "lru"} : \A i \in 1 .. N :
                     Cardinality(Asked(i, N)) <= physicalFrames =>
                       Cardinality(faults[p] \cap i .. N) <= physicalFrames
  BY StretchFaults
<1> QED
  BY <1>1, InvTypes DEF Conservative

\* FIFO and LRU are conservative, for any number of frames and any requests.
THEOREM PagingConservative == PagingSpec => []Conservative
BY InvConservative, PagingInvariant, PTL

=============================================================================
