--------------------------- MODULE SimulatorsProofs ---------------------------
(***************************************************************************)
(* Proofs about CpuSim, whatever the number of processes, their arrivals   *)
(* and their lines, and about Simulators, which runs it or the programs of *)
(* Paging.  The invariant SimInv says where a process is and what it still *)
(* has to compute there; there is one lemma for each phase of the loop.    *)
(***************************************************************************)
EXTENDS Simulators, PagingProofs

-----------------------------------------------------------------------------
(* Sums over a sequence and the bursts of a line, as recursive functions.   *)

\* upTo[n] is the sum of the first n.
LEMMA SumIs ==
  ASSUME NEW s \in Seq(Nat), NEW places
  PROVE  \E U \in [0 .. Len(s) -> Nat] :
           /\ U[0] = 0 /\ SumAt(s, places) = U[Len(s)]
           /\ \A i \in 1 .. Len(s) : U[i] = U[i - 1] + (IF i \in places THEN s[i] ELSE 0)
<1> DEFINE Def(G) == [n \in 0 .. Len(s) |-> IF n = 0 THEN 0
                        ELSE G[n - 1] + (IF n \in places THEN s[n] ELSE 0)]
           upTo == CHOOSE G : G = Def(G)
           step == [x \in (1 .. Len(s)) \X Nat |-> x[2] + (IF x[1] \in places THEN s[x[1]] ELSE 0)]
<1>0. Len(s) \in Nat /\ \A i \in 1 .. Len(s) : s[i] \in Nat
  OBVIOUS
<1>1. upTo = Def(upTo) /\ upTo \in [0 .. Len(s) -> Nat]
  <2>1. step \in [(1 .. Len(s)) \X Nat -> Nat]
    BY <1>0
  <2>2. \A i \in 1 .. Len(s), v \in Nat :
          step[<<i, v>>] = v + (IF i \in places THEN s[i] ELSE 0)
    OBVIOUS
  <2> HIDE DEF step
  <2>3. PICK G \in [0 .. Len(s) -> Nat] :
          G[0] = 0 /\ \A i \in 1 .. Len(s) : G[i] = step[<<i, G[i - 1]>>]
    <3>1. Recursion(Len(s), Nat, 0, step)
      BY <1>0, <2>1 DEF Recursion
    <3>2. \E G : Generated(G, Len(s), Nat, 0, step)
      BY <3>1, RecursiveFunction, Zenon
    <3> QED
      BY <3>2 DEF Generated
  <2>4. \A i \in 1 .. Len(s) : G[i] = G[i - 1] + (IF i \in places THEN s[i] ELSE 0)
    <3> TAKE i \in 1 .. Len(s)
    <3>1. G[i - 1] \in Nat
      BY <1>0
    <3> QED
      BY <2>2, <2>3, <3>1
  <2>5. G = Def(G)
    <3>1. \A i \in 0 .. Len(s) : i = 0 \/ i \in 1 .. Len(s)
      BY <1>0
    <3> QED
      BY <2>3, <2>4, <3>1
  <2>6. ASSUME NEW H, H = Def(H) PROVE H \in [0 .. Len(s) -> Nat]
    <3> DEFINE X == {n \in Nat : n <= Len(s) => H[n] \in Nat}
    <3>1. H[0] = 0 /\ \A i \in 1 .. Len(s) : H[i] = H[i - 1] + (IF i \in places THEN s[i] ELSE 0)
      <4>1. /\ Def(H)[0] = 0
            /\ \A i \in 1 .. Len(s) : Def(H)[i] = H[i - 1] + (IF i \in places THEN s[i] ELSE 0)
        BY <1>0
      <4> HIDE DEF Def
      <4> QED
        BY <2>6, <4>1, Zenon
    <3>2. 0 \in X
      BY <3>1
    <3>3. ASSUME NEW n \in X, n \in Nat PROVE n + 1 \in X
      <4> SUFFICES ASSUME n + 1 <= Len(s) PROVE H[n + 1] \in Nat
        OBVIOUS
      <4>1. n + 1 \in 1 .. Len(s) /\ (n + 1) - 1 = n /\ H[n] \in Nat
        BY <1>0, <3>3
      <4>2. H[n + 1] = H[n] + (IF n + 1 \in places THEN s[n + 1] ELSE 0) /\ s[n + 1] \in Nat
        BY <1>0, <3>1, <4>1
      <4>3. PICK k \in Nat : k = H[n]
        BY <4>1
      <4>4. CASE n + 1 \in places
        BY <4>2, <4>3, <4>4
      <4>5. CASE n + 1 \notin places
        BY <4>2, <4>3, <4>5
      <4> QED
        BY <4>4, <4>5
    <3> HIDE DEF X
    <3>4. Nat \subseteq X
      BY <3>2, <3>3, Induct
    <3>5. \A n \in 0 .. Len(s) : H[n] \in Nat
      BY <1>0, <3>4 DEF X
    <3> QED
      BY <2>6, <3>5
  <2> HIDE DEF Def
  <2> QED
    BY <2>5, <2>6
<1>2. upTo[0] = 0 /\ \A i \in 1 .. Len(s) :
        upTo[i] = upTo[i - 1] + (IF i \in places THEN s[i] ELSE 0)
  <2> HIDE DEF upTo
  <2>1. /\ Def(upTo)[0] = 0
        /\ \A i \in 1 .. Len(s) :
             Def(upTo)[i] = upTo[i - 1] + (IF i \in places THEN s[i] ELSE 0)
    BY <1>0
  <2> HIDE DEF Def
  <2> QED
    BY <1>1, <2>1, Zenon
<1>3. SumAt(s, places) = upTo[Len(s)]
  BY DEF SumAt
<1> HIDE DEF upTo
<1> QED
  BY <1>1, <1>2, <1>3

LEMMA SumNat ==
  ASSUME NEW s \in Seq(Nat), NEW P
  PROVE  SumAt(s, P) \in Nat /\ (s = <<>> => SumAt(s, P) = 0)
<1>1. PICK U \in [0 .. Len(s) -> Nat] : U[0] = 0 /\ SumAt(s, P) = U[Len(s)]
  BY SumIs
<1>2. Len(s) \in Nat /\ (s = <<>> => Len(s) = 0)
  OBVIOUS
<1> QED
  BY <1>1, <1>2

\* The first element and the rest, which is one place further on.
LEMMA SumTail ==
  ASSUME NEW s \in Seq(Nat), s # <<>>, NEW P, NEW Q,
         \A i \in 1 .. Len(s) - 1 : i \in Q <=> i + 1 \in P
  PROVE  SumAt(s, P) = (IF 1 \in P THEN s[1] ELSE 0) + SumAt(Tail(s), Q)
<1>0. Len(s) \in Nat \ {0} /\ \A i \in 1 .. Len(s) : s[i] \in Nat
  OBVIOUS
<1>1. PICK t \in Seq(Nat) : t = Tail(s)
  BY HeadTailProperties
<1>2. Len(t) = Len(s) - 1 /\ \A i \in 1 .. Len(t) : t[i] = s[i + 1]
  BY <1>1, HeadTailProperties
<1>3. PICK U \in [0 .. Len(s) -> Nat] :
        /\ U[0] = 0 /\ SumAt(s, P) = U[Len(s)]
        /\ \A i \in 1 .. Len(s) : U[i] = U[i - 1] + (IF i \in P THEN s[i] ELSE 0)
  BY SumIs
<1>4. PICK V \in [0 .. Len(t) -> Nat] :
        /\ V[0] = 0 /\ SumAt(t, Q) = V[Len(t)]
        /\ \A i \in 1 .. Len(t) : V[i] = V[i - 1] + (IF i \in Q THEN t[i] ELSE 0)
  BY SumIs
<1> DEFINE c == IF 1 \in P THEN s[1] ELSE 0
           X == {n \in Nat : n <= Len(t) => U[n + 1] = c + V[n]}
<1>5. 0 \in X
  <2>1. 1 \in 1 .. Len(s) /\ 1 - 1 = 0
    BY <1>0
  <2>2. U[1] = c
    BY <1>0, <1>3, <2>1
  <2>3. c \in Nat
    BY <1>0
  <2> QED
    BY <1>4, <2>2, <2>3
<1>6. ASSUME NEW n \in X, n \in Nat PROVE n + 1 \in X
  <2> SUFFICES ASSUME n + 1 <= Len(t) PROVE U[(n + 1) + 1] = c + V[n + 1]
    OBVIOUS
  <2>1. PICK k \in 1 .. Len(t) : k = n + 1
    BY <1>2, <1>6
  <2>2. U[k] = c + V[k - 1] /\ k - 1 \in 0 .. Len(t) /\ k + 1 \in 1 .. Len(s) /\ (k + 1) - 1 = k
    BY <1>0, <1>2, <1>6, <2>1
  <2>3. U[k + 1] = U[k] + (IF k + 1 \in P THEN s[k + 1] ELSE 0)
    BY <1>3, <2>2
  <2>4. V[k] = V[k - 1] + (IF k \in Q THEN t[k] ELSE 0)
    BY <1>4, <2>1
  <2>5. k \in Q <=> k + 1 \in P
    BY <1>2, <2>1
  <2>6. t[k] = s[k + 1] /\ t[k] \in Nat
    BY <1>0, <1>2, <2>1, <2>2
  <2>7. c \in Nat
    <3>1. s[1] \in Nat
      BY <1>0
    <3> QED
      BY <3>1
  <2> HIDE DEF c
  <2>8. PICK w \in Nat : w = V[k - 1]
    BY <2>2
  <2>9. PICK x : x = s[k + 1]
    OBVIOUS
  <2>10. ASSUME k \in Q PROVE U[k + 1] = c + V[k]
    <3>1. U[k + 1] = (c + w) + x /\ V[k] = w + x /\ x \in Nat
      BY <2>2, <2>3, <2>4, <2>5, <2>6, <2>8, <2>9, <2>10
    <3> QED
      BY <2>7, <2>8, <3>1
  <2>11. ASSUME k \notin Q PROVE U[k + 1] = c + V[k]
    <3>1. U[k + 1] = (c + w) + 0 /\ V[k] = w + 0
      BY <2>2, <2>3, <2>4, <2>5, <2>8, <2>11
    <3> QED
      BY <2>7, <2>8, <3>1
  <2>12. U[k + 1] = c + V[k]
    BY <2>10, <2>11
  <2> QED
    BY <2>1, <2>12
<1> HIDE DEF X, c
<1>7. Nat \subseteq X
  BY <1>5, <1>6, Induct
<1>8. Len(t) \in X /\ Len(t) + 1 = Len(s)
  BY <1>0, <1>2, <1>7
<1>9. U[Len(s)] = c + V[Len(t)]
  <2>1. Len(t) \in Nat /\ Len(t) <= Len(t)
    BY <1>0, <1>2
  <2> QED
    BY <1>8, <2>1 DEF X
<1> QED
  BY <1>1, <1>3, <1>4, <1>9 DEF c

\* What a process computes with s to come, next a CPU burst or next I/O.
OddSum(s)  == SumAt(s, Odd(s))
EvenSum(s) == SumAt(s, DOMAIN s \ Odd(s))

LEMMA SumsTail ==
  ASSUME NEW s \in Seq(Nat)
  PROVE  /\ OddSum(s) \in Nat /\ EvenSum(s) \in Nat
         /\ s = <<>> => OddSum(s) = 0 /\ EvenSum(s) = 0
         /\ s # <<>> => /\ OddSum(s) = Head(s) + EvenSum(Tail(s))
                        /\ EvenSum(s) = OddSum(Tail(s))
<1>1. \A P : SumAt(s, P) \in Nat /\ (s = <<>> => SumAt(s, P) = 0)
  BY SumNat
<1>2. ASSUME s # <<>>
      PROVE  /\ OddSum(s) = Head(s) + EvenSum(Tail(s))
             /\ EvenSum(s) = OddSum(Tail(s))
  <2>1. Len(s) \in Nat \ {0} /\ DOMAIN s = 1 .. Len(s) /\ s[1] \in Nat /\ Head(s) = s[1]
    BY <1>2
  <2>2. PICK t \in Seq(Nat) : t = Tail(s)
    BY <1>2, HeadTailProperties
  <2>3. Len(t) = Len(s) - 1 /\ DOMAIN t = 1 .. Len(s) - 1
    BY <1>2, <2>2, HeadTailProperties, LenProperties
  <2>p. \A i \in 1 .. Len(s) - 1 :
          /\ i \in DOMAIN t /\ i + 1 \in DOMAIN s
          /\ (i + 1) % 2 = 1 <=> i % 2 # 1
    <3> TAKE i \in 1 .. Len(s) - 1
    <3>1. i \in Nat
      BY <2>1
    <3>2. (i + 1) % 2 = 1 <=> i % 2 # 1
      BY <3>1
    <3> QED
      BY <2>1, <2>3, <3>2
  <2>4. \A i \in 1 .. Len(s) - 1 : i \in DOMAIN t \ Odd(t) <=> i + 1 \in Odd(s)
    BY <2>p DEF Odd
  <2>5. \A i \in 1 .. Len(s) - 1 : i \in Odd(t) <=> i + 1 \in DOMAIN s \ Odd(s)
    BY <2>p DEF Odd
  <2>6. 1 \in Odd(s) /\ 1 \notin DOMAIN s \ Odd(s)
    BY <2>1 DEF Odd
  <2>7. SumAt(s, Odd(s)) = s[1] + SumAt(t, DOMAIN t \ Odd(t))
    BY <1>2, <2>2, <2>4, <2>6, SumTail
  <2>8. SumAt(s, DOMAIN s \ Odd(s)) = 0 + SumAt(t, Odd(t))
    BY <1>2, <2>2, <2>5, <2>6, SumTail
  <2>9. SumAt(t, Odd(t)) \in Nat
    BY <2>2, SumNat
  <2> QED
    BY <2>1, <2>2, <2>7, <2>8, <2>9 DEF OddSum, EvenSum
<1> QED
  BY <1>1, <1>2 DEF OddSum, EvenSum

\* The bursts of a line are its numbers, without the zeros.
LEMMA BurstsAre ==
  ASSUME NEW s \in Seq(Nat)
  PROVE  /\ Bursts(s) \in Seq(Nat \ {0})
         /\ (\A i \in 1 .. Len(s) : s[i] # 0) => Bursts(s) = s
<1> DEFINE T == Nat \ {0}
           Def(G) == [n \in 0 .. Len(s) |-> IF n = 0 THEN <<>>
                        ELSE IF s[n] = 0 THEN G[n - 1] ELSE Append(G[n - 1], s[n])]
           upTo == CHOOSE G : G = Def(G)
           step == [x \in (1 .. Len(s)) \X Seq(T) |->
                      IF s[x[1]] = 0 THEN x[2] ELSE Append(x[2], s[x[1]])]
<1>0. Len(s) \in Nat /\ \A i \in 1 .. Len(s) : s[i] \in Nat
  OBVIOUS
<1>1. upTo = Def(upTo)
  <2>1. step \in [(1 .. Len(s)) \X Seq(T) -> Seq(T)]
    BY <1>0
  <2>2. \A i \in 1 .. Len(s), v \in Seq(T) :
          step[<<i, v>>] = IF s[i] = 0 THEN v ELSE Append(v, s[i])
    OBVIOUS
  <2> HIDE DEF step
  <2>3. <<>> \in Seq(T)
    OBVIOUS
  <2>4. PICK G \in [0 .. Len(s) -> Seq(T)] :
          G[0] = <<>> /\ \A i \in 1 .. Len(s) : G[i] = step[<<i, G[i - 1]>>]
    <3>1. Recursion(Len(s), Seq(T), <<>>, step)
      BY <1>0, <2>1, <2>3 DEF Recursion
    <3>2. \E G : Generated(G, Len(s), Seq(T), <<>>, step)
      BY <3>1, RecursiveFunction, Zenon
    <3> QED
      BY <3>2 DEF Generated
  <2>5. \A i \in 1 .. Len(s) : G[i] = IF s[i] = 0 THEN G[i - 1] ELSE Append(G[i - 1], s[i])
    <3> HIDE DEF T
    <3> TAKE i \in 1 .. Len(s)
    <3>1. i - 1 \in 0 .. Len(s)
      BY <1>0
    <3>2. G[i - 1] \in Seq(T)
      BY <2>4, <3>1
    <3>3. G[i] = step[<<i, G[i - 1]>>]
      BY <2>4
    <3> QED
      BY <2>2, <3>2, <3>3
  <2>6. G = Def(G)
    <3>1. \A i \in 0 .. Len(s) : i = 0 \/ i \in 1 .. Len(s)
      BY <1>0
    <3> QED
      BY <2>4, <2>5, <3>1
  <2> HIDE DEF Def
  <2> QED
    BY <2>6
<1>2. upTo[0] = <<>> /\ \A i \in 1 .. Len(s) :
        upTo[i] = IF s[i] = 0 THEN upTo[i - 1] ELSE Append(upTo[i - 1], s[i])
  <2> HIDE DEF upTo
  <2>1. /\ Def(upTo)[0] = <<>>
        /\ \A i \in 1 .. Len(s) :
             Def(upTo)[i] = IF s[i] = 0 THEN upTo[i - 1] ELSE Append(upTo[i - 1], s[i])
    BY <1>0
  <2> HIDE DEF Def
  <2> QED
    BY <1>1, <2>1, Zenon
<1>3. Bursts(s) = upTo[Len(s)]
  BY DEF Bursts
<1> HIDE DEF upTo
<1> DEFINE NoZero == \A i \in 1 .. Len(s) : s[i] # 0
           P(n) == /\ upTo[n] \in Seq(T)
                   /\ NoZero => Len(upTo[n]) = n /\ \A j \in 1 .. n : upTo[n][j] = s[j]
           X == {n \in Nat : n <= Len(s) => P(n)}
<1>4. 0 \in X
  <2>1. upTo[0] \in Seq(T) /\ Len(upTo[0]) = 0
    BY <1>2
  <2> QED
    BY <2>1
<1>5. ASSUME NEW n \in X, n \in Nat PROVE n + 1 \in X
  <2> SUFFICES ASSUME n + 1 <= Len(s) PROVE P(n + 1)
    OBVIOUS
  <2>1. PICK k \in 1 .. Len(s) : k = n + 1 /\ k - 1 = n
    BY <1>0, <1>5
  <2>2. PICK u \in Seq(T) : u = upTo[n]
    BY <1>0, <1>5
  <2>3. NoZero => Len(u) = n /\ \A j \in 1 .. n : u[j] = s[j]
    BY <1>0, <1>5, <2>2
  <2>4. upTo[k] = IF s[k] = 0 THEN u ELSE Append(u, s[k])
    BY <1>2, <2>1, <2>2
  <2>5. s[k] \in Nat
    BY <1>0, <2>1
  <2> HIDE DEF NoZero
  <2>6. CASE s[k] = 0
    <3>1. upTo[k] = u /\ ~NoZero
      BY <2>1, <2>4, <2>6 DEF NoZero
    <3> QED
      BY <2>1, <2>2, <3>1
  <2>7. CASE s[k] # 0
    <3>1. upTo[k] = Append(u, s[k]) /\ s[k] \in T
      BY <2>4, <2>5, <2>7
    <3> HIDE DEF T
    <3>2. /\ Append(u, s[k]) \in Seq(T) /\ Len(Append(u, s[k])) = Len(u) + 1
          /\ \A j \in 1 .. Len(u) : Append(u, s[k])[j] = u[j]
          /\ Append(u, s[k])[Len(u) + 1] = s[k]
      BY <2>2, <3>1, AppendProperties
    <3>3. NoZero => Len(upTo[k]) = k /\ \A j \in 1 .. k : upTo[k][j] = s[j]
      <4> SUFFICES ASSUME NoZero PROVE Len(upTo[k]) = k /\ \A j \in 1 .. k : upTo[k][j] = s[j]
        OBVIOUS
      <4>1. Len(u) = n /\ \A j \in 1 .. n : u[j] = s[j]
        BY <2>3
      <4>2. \A j \in 1 .. k : j = n + 1 \/ j \in 1 .. n
        BY <1>5, <2>1
      <4> QED
        BY <1>5, <2>1, <3>1, <3>2, <4>1, <4>2
    <3> QED
      BY <2>1, <3>1, <3>2, <3>3
  <2> QED
    BY <2>6, <2>7
<1> HIDE DEF X
<1>6. Nat \subseteq X
  BY <1>4, <1>5, Induct
<1>7. P(Len(s))
  <2> HIDE DEF P
  <2>1. Len(s) \in X
    BY <1>0, <1>6
  <2> QED
    BY <1>0, <2>1 DEF X
<1>8. NoZero => upTo[Len(s)] = s
  <2> SUFFICES ASSUME NoZero PROVE upTo[Len(s)] = s
    OBVIOUS
  <2>1. PICK u \in Seq(T) : u = upTo[Len(s)]
    BY <1>7
  <2>2. u \in Seq(Nat) /\ Len(u) = Len(s) /\ \A j \in 1 .. Len(s) : u[j] = s[j]
    <3>1. Len(u) = Len(s) /\ \A j \in 1 .. Len(s) : u[j] = s[j]
      BY <1>7, <2>1
    <3>2. u \in Seq(Nat)
      <4>1. T \subseteq Nat
        OBVIOUS
      <4> QED
        BY <2>1, <4>1, SeqMonotonic
    <3> QED
      BY <3>1, <3>2
  <2> QED
    BY <2>1, <2>2, SeqEqual
<1> QED
  BY <1>3, <1>7, <1>8

-----------------------------------------------------------------------------
(* The invariant: where a process is, and what it still has to compute there.*)

InReady(p)    == \E e \in readyQueue : e[2] = p
Queued(s, p)  == \E i \in DOMAIN s : s[i][2] = p
OnCpu(p)      == cpu.on /\ cpu.pid = p /\ ~Finished(p)
OnIo(p)       == io.on /\ io.pid = p /\ ~Finished(p)

InOnePlace(p) ==
  /\ Arrived(p) <=> InReady(p) \/ Queued(ioQueue, p) \/ OnCpu(p) \/ OnIo(p) \/ Finished(p)
  /\ InReady(p) => ~Queued(ioQueue, p) /\ ~OnCpu(p) /\ ~OnIo(p) /\ ~Finished(p)
  /\ Queued(ioQueue, p) => ~OnCpu(p) /\ ~OnIo(p) /\ ~Finished(p)
  /\ ~(OnCpu(p) /\ OnIo(p))

\* CPU bursts and I/O alternate: after the burst a process is queued or running
\* with comes I/O, after I/O a CPU burst.
BurstsLeft(p) ==
  /\ \A e \in readyQueue : e[2] = p => ran[p] + e[1] + EvenSum(prc[p]) = CpuTime(file[p].tokens)
  /\ OnCpu(p) => ran[p] + cpu.left + EvenSum(prc[p]) = CpuTime(file[p].tokens)
  /\ Queued(ioQueue, p) \/ OnIo(p) => ran[p] + OddSum(prc[p]) = CpuTime(file[p].tokens)
  /\ Finished(p) => /\ prc[p] = <<>> /\ ran[p] = CpuTime(file[p].tokens)
                    /\ cpu.on /\ cpu.pid = p => cpu.left = 0
  /\ ~Arrived(p) => ran[p] = 0 /\ prc[p] = Bursts(file[p].tokens)

\* The ticks that have been counted.
Now == IF phase \in {"ioDone", "cpuDone", "ended"} THEN time + 1 ELSE time

TimesOK(p) ==
  /\ response_time[p] = -1 => ran[p] = 0 /\ (Arrived(p) => InReady(p))
  /\ response_time[p] # -1 => Arrived(p)
  /\ response_time[p] # -1 /\ ~Finished(p) => response_time[p] + ran[p] <= Now - file[p].arrival
  /\ Finished(p) => /\ response_time[p] + ran[p] <= turnaround_time[p]
                    /\ waiting_time[p] = turnaround_time[p] - totalburst_time(p)

ProcOK(p) == InOnePlace(p) /\ BurstsLeft(p) /\ TimesOK(p)

SimTypes ==
  /\ SimTypeOK
  /\ file \in [Procs -> [arrival : Arrivals, tokens : TokenLines]]
  /\ \A e \in readyQueue : e[1] > 0

\* No process is in a queue twice.
Once(s) == \A i, j \in DOMAIN s : s[i][2] = s[j][2] => i = j
QueuedOnce ==
  /\ \A e, f \in readyQueue : e[2] = f[2] => e = f
  /\ Once(ioQueue)

DevicesOK ==
  /\ cpu.on => cpu.pid \in Procs /\ (phase # "ended" => ~Finished(cpu.pid))
  /\ io.on => io.pid \in Procs /\ (phase # "ended" => ~Finished(io.pid))

SimInv == SimTypes /\ QueuedOnce /\ DevicesOK /\ \A p \in Procs : ProcOK(p)

LEMMA QueuedAppend ==
  ASSUME NEW s \in Seq(Nat \X Procs), NEW e \in Nat \X Procs
  PROVE  /\ \A p : Queued(Append(s, e), p) <=> Queued(s, p) \/ p = e[2]
         /\ Once(s) /\ ~Queued(s, e[2]) => Once(Append(s, e))
<1> DEFINE T == Nat \X Procs
<1>0. s \in Seq(T) /\ e \in T
  OBVIOUS
<1> HIDE DEF T
<1>1. PICK t \in Seq(T) : t = Append(s, e)
  BY <1>0, AppendProperties
<1>2. /\ Len(s) \in Nat /\ DOMAIN s = 1 .. Len(s) /\ DOMAIN t = 1 .. Len(s) + 1
      /\ \A i \in 1 .. Len(s) : t[i] = s[i]
      /\ t[Len(s) + 1] = e
  BY <1>0, <1>1, AppendProperties, LenProperties
<1>3. \A i \in DOMAIN t : \/ i \in DOMAIN s /\ t[i] = s[i]
                          \/ i = Len(s) + 1 /\ t[i] = e
  BY <1>2
<1>4. DOMAIN s \subseteq DOMAIN t /\ Len(s) + 1 \in DOMAIN t
  BY <1>2
<1>5. \A p : Queued(t, p) <=> Queued(s, p) \/ p = e[2]
  BY <1>2, <1>3, <1>4 DEF Queued
<1>6. Once(s) /\ ~Queued(s, e[2]) => Once(t)
  BY <1>2, <1>3, <1>4 DEF Queued, Once
<1> QED
  BY <1>1, <1>5, <1>6

LEMMA QueuedTail ==
  ASSUME NEW s \in Seq(Nat \X Procs), s # <<>>, Once(s)
  PROVE  /\ Head(s) \in Nat \X Procs /\ Tail(s) \in Seq(Nat \X Procs)
         /\ Queued(s, Head(s)[2]) /\ Once(Tail(s))
         /\ \A p : Queued(Tail(s), p) <=> Queued(s, p) /\ p # Head(s)[2]
<1> DEFINE T == Nat \X Procs
<1>0. s \in Seq(T)
  OBVIOUS
<1> HIDE DEF T
<1>1. PICK t \in Seq(T) : t = Tail(s)
  BY <1>0, HeadTailProperties
<1>2. /\ Len(s) \in Nat \ {0} /\ DOMAIN s = 1 .. Len(s) /\ DOMAIN t = 1 .. Len(s) - 1
      /\ \A i \in 1 .. Len(s) - 1 : t[i] = s[i + 1]
      /\ s[1] = Head(s) /\ Head(s) \in T
  BY <1>0, <1>1, HeadTailProperties, LenProperties, EmptySeq
<1>3. \A i \in DOMAIN t : i + 1 \in DOMAIN s /\ t[i] = s[i + 1] /\ i + 1 # 1 /\ i \in Int
  BY <1>2
<1>4. \A i \in DOMAIN s : i = 1 \/ (i - 1 \in DOMAIN t /\ (i - 1) + 1 = i)
  BY <1>2
<1>5. Queued(s, Head(s)[2]) /\ 1 \in DOMAIN s
  <2>1. 1 \in DOMAIN s /\ s[1][2] = Head(s)[2]
    BY <1>2
  <2> QED
    BY <2>1 DEF Queued
<1>6. ASSUME NEW p PROVE Queued(t, p) <=> Queued(s, p) /\ p # Head(s)[2]
  <2>1. Queued(t, p) => Queued(s, p) /\ p # Head(s)[2]
    BY <1>2, <1>3, <1>5 DEF Queued, Once
  <2>2. ASSUME Queued(s, p), p # Head(s)[2] PROVE Queued(t, p)
    <3>1. PICK i \in DOMAIN s : s[i][2] = p
      BY <2>2 DEF Queued
    <3>2. i - 1 \in DOMAIN t /\ (i - 1) + 1 = i
      BY <1>2, <1>4, <2>2, <3>1
    <3>3. t[i - 1] = s[i]
      BY <1>3, <3>2
    <3> QED
      BY <3>1, <3>2, <3>3 DEF Queued
  <2> QED
    BY <2>1, <2>2
<1>7. Once(t)
  <2> SUFFICES ASSUME NEW i \in DOMAIN t, NEW j \in DOMAIN t, t[i][2] = t[j][2] PROVE i = j
    BY DEF Once
  <2>1. i + 1 = j + 1
    BY <1>3 DEF Once
  <2> QED
    BY <1>3, <2>1
<1> QED
  BY <1>1, <1>2, <1>5, <1>6, <1>7 DEF T

\* The top of the ready queue is one of its elements.
LEMMA TopIn ==
  ASSUME readyQueue \subseteq Nat \X Procs, readyQueue # {}
  PROVE  Top \in readyQueue
<1> DEFINE B == {e[1] : e \in readyQueue}
<1>1. B \subseteq Nat /\ B # {}
  OBVIOUS
<1>2. PICK b \in B : \A n \in B : b <= n
  <2> HIDE DEF B
  <2> QED
    BY <1>1, LeastNumber
<1> DEFINE Q == {e[2] : e \in {f \in readyQueue : f[1] = b}}
<1>3. Q \subseteq Nat /\ Q # {}
  BY CpuSimAssumption DEF Procs
<1>4. PICK q \in Q : \A n \in Q : q <= n
  <2> HIDE DEF Q
  <2> QED
    BY <1>3, LeastNumber
<1>5. PICK e \in readyQueue : e[1] = b /\ e[2] = q
  OBVIOUS
<1>6. ASSUME NEW f \in readyQueue PROVE e[1] < f[1] \/ (e[1] = f[1] /\ e[2] <= f[2])
  <2>1. f[1] \in B /\ b <= f[1] /\ f[1] \in Nat /\ b \in Nat
    BY <1>1, <1>2
  <2>2. ASSUME f[1] = b PROVE q <= f[2]
    <3>1. f[2] \in Q
      BY <2>2
    <3> QED
      BY <1>4, <3>1
  <2> QED
    BY <1>5, <2>1, <2>2
<1> QED
  BY <1>5, <1>6 DEF Top

-----------------------------------------------------------------------------
(* A step that does not concern a process leaves it where it is.            *)

Same(p) ==
  /\ \A e \in readyQueue : e[2] = p => e \in readyQueue'
  /\ \A e \in readyQueue' : e[2] = p => e \in readyQueue
  /\ Queued(ioQueue, p)' <=> Queued(ioQueue, p)
  /\ (cpu.on /\ cpu.pid = p)' => cpu.on /\ cpu.pid = p /\ cpu'.left = cpu.left
  /\ OnCpu(p)' <=> OnCpu(p)
  /\ OnIo(p)' <=> OnIo(p)
  /\ prc'[p] = prc[p] /\ ran'[p] = ran[p] /\ response_time'[p] = response_time[p]
  /\ turnaround_time'[p] = turnaround_time[p] /\ waiting_time'[p] = waiting_time[p]

\* No step moves the clock back or changes when a process has arrived, except
\* that the processes of the moment arrive.
Onward ==
  /\ file' = file /\ Now' \in Nat /\ Now <= Now'
  /\ \A p \in Procs : Arrived(p)' <=> Arrived(p) \/ (phase = "arrive" /\ p \in Arriving)

\* What the lines of the file are.
LEMMA Lines ==
  ASSUME SimTypes, NEW p \in Procs
  PROVE  /\ file[p].arrival \in Nat /\ file[p].tokens \in Seq(Nat)
         /\ Bursts(file[p].tokens) \in Seq(Nat \ {0}) /\ Bursts(file[p].tokens) # <<>>
         /\ CpuTime(file[p].tokens) = OddSum(Bursts(file[p].tokens))
         /\ totalburst_time(p) \in Nat
         /\ prc[p] \in Seq(Nat \ {0}) /\ prc[p] \in Seq(Nat)
<1>1. file[p].arrival \in Nat /\ file[p].tokens \in TokenLines
  BY CpuSimAssumption DEF SimTypes
<1>2. PICK t \in Seq(Nat) : t = file[p].tokens
  BY <1>1, CpuSimAssumption
<1>3. Bursts(t) \in Seq(Nat \ {0}) /\ Bursts(t) # <<>>
  BY <1>1, <1>2, BurstsAre, CpuSimAssumption
<1>4. prc[p] \in Seq(Nat \ {0})
  BY DEF SimTypes, SimTypeOK
<1>5. prc[p] \in Seq(Nat)
  BY <1>4, SeqMonotonic, Nat \ {0} \subseteq Nat
<1> QED
  BY <1>1, <1>2, <1>3, <1>4, <1>5, SumNat DEF CpuTime, OddSum, totalburst_time

LEMMA SameOK ==
  ASSUME SimTypes, Onward, NEW p \in Procs, Same(p), ProcOK(p),
         phase = "arrive" => p \notin Arriving
  PROVE  ProcOK(p)'
<1>1. /\ InReady(p)' <=> InReady(p)
      /\ Finished(p)' <=> Finished(p)
      /\ Arrived(p)' <=> Arrived(p)
  BY DEF Same, Onward, InReady, Finished
<1>2. file' = file
  BY DEF Onward
<1>3. InOnePlace(p)'
  BY <1>1 DEF ProcOK, InOnePlace, Same
<1>4. BurstsLeft(p)'
  BY <1>1, <1>2 DEF ProcOK, BurstsLeft, Same, OnCpu
<1>5. TimesOK(p)'
  <2>1. totalburst_time(p)' = totalburst_time(p)
    BY <1>2 DEF totalburst_time
  <2>2. /\ response_time[p] \in Int /\ ran[p] \in Int /\ file[p].arrival \in Int
        /\ Now \in Nat
    <3>1. response_time[p] \in Nat \cup {-1} /\ ran[p] \in Nat /\ time \in Nat
      BY DEF SimTypes, SimTypeOK
    <3>2. Now \in Nat
      BY <3>1 DEF Now
    <3> QED
      BY <3>1, <3>2, Lines
  <2>3. response_time[p] + ran[p] <= Now - file[p].arrival =>
          response_time[p] + ran[p] <= Now' - file[p].arrival
    BY <2>2 DEF Onward
  <2> QED
    BY <1>1, <1>2, <2>1, <2>3 DEF ProcOK, TimesOK, Same
<1> QED
  BY <1>3, <1>4, <1>5 DEF ProcOK

\* The bursts to come, when there are any: the next one and the rest.
LEMMA NextBurst ==
  ASSUME NEW s \in Seq(Nat \ {0}), s # <<>>
  PROVE  /\ Head(s) \in Nat \ {0} /\ Tail(s) \in Seq(Nat \ {0})
         /\ OddSum(s) = Head(s) + EvenSum(Tail(s)) /\ EvenSum(s) = OddSum(Tail(s))
         /\ OddSum(Tail(s)) \in Nat /\ EvenSum(Tail(s)) \in Nat
<1> DEFINE T == Nat \ {0}
<1>1. Head(s) \in T /\ Tail(s) \in Seq(T)
  <2>1. s \in Seq(T)
    OBVIOUS
  <2> HIDE DEF T
  <2> QED
    BY <2>1, HeadTailProperties
<1>2. s \in Seq(Nat) /\ Tail(s) \in Seq(Nat)
  BY <1>1, SeqMonotonic, T \subseteq Nat
<1> QED
  BY <1>1, <1>2, SumsTail

LEMMA InitInv == SimInit => SimInv
<1> SUFFICES ASSUME SimInit PROVE SimInv
  OBVIOUS
<1> USE DEF SimInit
<1>1. \A p \in Procs : file[p].tokens \in TokenLines /\ Bursts(file[p].tokens) \in Seq(Nat \ {0})
  <2> TAKE p \in Procs
  <2>1. file[p].tokens \in TokenLines
    OBVIOUS
  <2>2. PICK t \in Seq(Nat) : t = file[p].tokens
    BY <2>1, CpuSimAssumption
  <2> QED
    BY <2>1, <2>2, BurstsAre
<1>2. SimTypes
  <2>1. prc \in [Procs -> Seq(Nat \ {0})]
    BY <1>1
  <2> QED
    BY <2>1 DEF SimTypes, SimTypeOK, Idle, Device, Phases
<1>3. QueuedOnce /\ DevicesOK
  BY DEF QueuedOnce, Once, DevicesOK, Idle
<1>4. ASSUME NEW p \in Procs PROVE ProcOK(p)
  <2>1. /\ ~InReady(p) /\ ~Queued(ioQueue, p) /\ ~OnCpu(p) /\ ~OnIo(p) /\ ~Finished(p)
        /\ ~Arrived(p)
    <3>1. file[p].arrival \in Nat
      BY <1>2, Lines
    <3> QED
      BY <3>1 DEF InReady, Queued, OnCpu, OnIo, Finished, Arrived, Idle
  <2>2. InOnePlace(p)
    BY <2>1 DEF InOnePlace
  <2>3. BurstsLeft(p)
    BY <2>1 DEF BurstsLeft
  <2>4. TimesOK(p)
    BY <2>1 DEF TimesOK
  <2> QED
    BY <2>2, <2>3, <2>4 DEF ProcOK
<1> QED
  BY <1>2, <1>3, <1>4 DEF SimInv

LEMMA ClockMovesOn ==
  ASSUME SimTypes, SimNext
  PROVE  Onward /\ time' \in Nat /\ phase' \in Phases
<1>0. time \in Nat /\ phase \in Phases
  BY DEF SimTypes, SimTypeOK
<1>1. /\ file' = file
      /\ \/ phase = "arrive" /\ phase' = "dispatch" /\ time' = time
         \/ phase = "dispatch" /\ phase' = "startIo" /\ time' = time
         \/ phase = "startIo" /\ phase' = "count" /\ time' = time
         \/ phase = "count" /\ phase' = "ioDone" /\ time' = time
         \/ phase = "ioDone" /\ phase' \in {"cpuDone", "ended"} /\ time' = time
         \/ phase = "cpuDone" /\ phase' = "ended" /\ time' = time
         \/ phase = "cpuDone" /\ phase' = "arrive" /\ time' = time + 1
  BY DEF SimNext, Arrive, Dispatch, StartIo, Count, IoDone, CpuDone, Finish
<1>2. time' \in Nat /\ phase' \in Phases
  BY <1>0, <1>1 DEF Phases
<1>3. Now' \in Nat /\ Now <= Now'
  <2>1. CASE phase \in {"arrive", "dispatch", "startIo"}
    BY <1>0, <1>1, <2>1 DEF Now
  <2>2. CASE phase = "count"
    BY <1>0, <1>1, <2>2 DEF Now
  <2>3. CASE phase \in {"ioDone", "cpuDone"}
    <3>1. Now = time + 1
      BY <2>3 DEF Now
    <3>2. \/ time' = time /\ phase' = "cpuDone"
          \/ time' = time /\ phase' = "ended"
          \/ time' = time + 1 /\ phase' = "arrive"
      <4>1. CASE phase = "ioDone"
        BY <1>1, <4>1
      <4>2. CASE phase = "cpuDone"
        BY <1>1, <4>2
      <4> QED
        BY <2>3, <4>1, <4>2
    <3>3. Now' = time + 1
      BY <3>2 DEF Now
    <3> QED
      BY <1>0, <3>1, <3>3
  <2> QED
    BY <1>1, <2>1, <2>2, <2>3
<1>4. ASSUME NEW p \in Procs
      PROVE  Arrived(p)' <=> Arrived(p) \/ (phase = "arrive" /\ p \in Arriving)
  <2>1. file[p].arrival \in Nat
    BY Lines
  <2> QED
    BY <1>0, <1>1, <2>1 DEF Arrived, Arriving
<1> QED
  BY <1>1, <1>2, <1>3, <1>4 DEF Onward

\* Preempted is the process on the cpu, or nothing.
LEMMA ArriveOK == SimInv /\ Arrive => SimInv'
<1> SUFFICES ASSUME SimInv, Arrive PROVE SimInv'
  OBVIOUS
<1> USE DEF Arrive
<1>0. SimTypes /\ QueuedOnce /\ DevicesOK /\ \A p \in Procs : ProcOK(p)
  BY DEF SimInv
<1>1. Onward /\ time' \in Nat
  BY <1>0, ClockMovesOn DEF SimNext
<1>2. \A p \in Arriving : /\ p \in Procs /\ ~Arrived(p) /\ Arrived(p)'
                          /\ ~InReady(p) /\ ~Queued(ioQueue, p) /\ ~OnCpu(p) /\ ~OnIo(p)
                          /\ ~Finished(p) /\ ran[p] = 0 /\ prc[p] = Bursts(file[p].tokens)
                          /\ response_time[p] = -1
  <2> TAKE p \in Arriving
  <2>1. p \in Procs /\ file[p].arrival = time /\ time \in Nat
    BY <1>0 DEF Arriving, SimTypes, SimTypeOK
  <2>2. ~Arrived(p) /\ ProcOK(p) /\ Arrived(p)'
    BY <1>0, <1>1, <2>1 DEF Arrived, Onward
  <2> QED
    BY <2>1, <2>2 DEF ProcOK, InOnePlace, BurstsLeft, TimesOK
<1>3. \A p \in Arriving : /\ Head(prc[p]) \in Nat \ {0} /\ Tail(prc[p]) \in Seq(Nat \ {0})
                          /\ EvenSum(Tail(prc[p])) \in Nat
                          /\ Head(prc[p]) + EvenSum(Tail(prc[p])) = CpuTime(file[p].tokens)
  BY <1>0, <1>2, Lines, NextBurst
<1> DEFINE back == algorithm = "srtf" /\ Arriving # {} /\ cpu.on
<1>4. /\ back => /\ cpu.pid \in Procs /\ cpu.left \in Nat \ {0} /\ OnCpu(cpu.pid)
                 /\ Preempted = {<<cpu.left, cpu.pid>>} /\ ~cpu'.on
      /\ ~back => Preempted = {} /\ cpu' = cpu
  BY <1>0 DEF Preempted, DevicesOK, OnCpu, SimTypes, SimTypeOK, Device
<1>5. /\ \A e \in readyQueue' : \/ e \in readyQueue
                                \/ back /\ e = <<cpu.left, cpu.pid>>
                                \/ \E p \in Arriving : e = <<Head(prc[p]), p>>
      /\ \A e \in readyQueue : e \in readyQueue'
      /\ back => <<cpu.left, cpu.pid>> \in readyQueue'
      /\ \A p \in Arriving : <<Head(prc[p]), p>> \in readyQueue'
      /\ \A p \in Procs : prc'[p] = IF p \in Arriving THEN Tail(prc[p]) ELSE prc[p]
  BY <1>4
<1> HIDE DEF back
<1>6. SimTypes'
  <2>1. \A e \in readyQueue' : e \in Nat \X Procs /\ e[1] > 0
    <3> TAKE e \in readyQueue'
    <3>1. CASE e \in readyQueue
      BY <1>0, <3>1 DEF SimTypes, SimTypeOK
    <3>2. CASE back /\ e = <<cpu.left, cpu.pid>>
      BY <1>4, <3>2
    <3>3. ASSUME NEW p \in Arriving, e = <<Head(prc[p]), p>> PROVE e \in Nat \X Procs /\ e[1] > 0
      BY <1>2, <1>3, <3>3
    <3> QED
      BY <1>5, <3>1, <3>2, <3>3
  <2>2. prc' \in [Procs -> Seq(Nat \ {0})]
    <3>1. \A p \in Procs : prc'[p] \in Seq(Nat \ {0})
      BY <1>0, <1>3, <1>5 DEF SimTypes, SimTypeOK
    <3> QED
      BY <3>1
  <2>3. cpu' \in Device /\ (cpu'.on => cpu' = cpu)
    <3>1. cpu \in Device
      BY <1>0 DEF SimTypes, SimTypeOK
    <3> QED
      BY <3>1 DEF Device
  <2>4. cpu'.on /\ phase' \in {"dispatch", "startIo", "count", "arrive"} => cpu'.left > 0
    BY <1>0, <2>3 DEF SimTypes, SimTypeOK
  <2> QED
    BY <1>0, <1>1, <2>1, <2>2, <2>3, <2>4 DEF SimTypes, SimTypeOK, Phases
<1>7. \A p \in Procs : /\ Finished(p)' <=> Finished(p)
                       /\ Queued(ioQueue, p)' <=> Queued(ioQueue, p)
                       /\ OnIo(p)' <=> OnIo(p)
  BY DEF Finished, Queued, OnIo
<1>8. ASSUME NEW p \in Procs, p \notin Arriving, ~(back /\ cpu.pid = p) PROVE Same(p) /\ ProcOK(p)'
  <2>1. \A e \in readyQueue' : e[2] = p => e \in readyQueue
    BY <1>5, <1>8
  <2>2. (cpu.on /\ cpu.pid = p)' => cpu.on /\ cpu.pid = p /\ cpu'.left = cpu.left
    OBVIOUS
  <2>3. OnCpu(p)' <=> OnCpu(p)
    BY <1>7, <1>8 DEF OnCpu, back
  <2>4. Same(p)
    BY <1>5, <1>7, <1>8, <2>1, <2>2, <2>3 DEF Same
  <2> QED
    BY <1>0, <1>1, <1>8, <2>4, SameOK
<1>9. ASSUME NEW p \in Arriving PROVE ProcOK(p)'
  <2>1. p \in Procs /\ file' = file /\ EvenSum(prc'[p]) = EvenSum(Tail(prc[p]))
    BY <1>1, <1>2, <1>5 DEF Onward
  <2>2. InReady(p)' /\ \A e \in readyQueue' : e[2] = p => e = <<Head(prc[p]), p>>
    <3>1. InReady(p)'
      BY <1>5 DEF InReady
    <3>2. back => cpu.pid # p
      BY <1>2, <1>4
    <3> QED
      BY <1>2, <1>5, <3>1, <3>2 DEF InReady
  <2>3. ~Queued(ioQueue, p)' /\ ~OnCpu(p)' /\ ~OnIo(p)' /\ ~Finished(p)' /\ Arrived(p)'
    BY <1>2, <1>4, <1>7, <2>1 DEF OnCpu
  <2>4. InOnePlace(p)'
    BY <2>2, <2>3 DEF InOnePlace
  <2>5. ran'[p] = 0 /\ response_time'[p] = -1
    BY <1>2
  <2>6. BurstsLeft(p)'
    <3>1. \A e \in readyQueue' : e[2] = p =>
            ran'[p] + e[1] + EvenSum(prc'[p]) = CpuTime(file'[p].tokens)
      BY <1>3, <2>1, <2>2, <2>5
    <3> QED
      BY <2>3, <3>1 DEF BurstsLeft
  <2>7. TimesOK(p)'
    BY <2>2, <2>3, <2>5 DEF TimesOK
  <2> QED
    BY <2>4, <2>6, <2>7 DEF ProcOK
<1>10. ASSUME back, NEW p \in Procs, p = cpu.pid PROVE ProcOK(p)'
  <2>1. /\ OnCpu(p) /\ ~InReady(p) /\ ~Queued(ioQueue, p) /\ ~OnIo(p) /\ ~Finished(p)
        /\ Arrived(p) /\ p \notin Arriving /\ response_time[p] # -1
        /\ ran[p] + cpu.left + EvenSum(prc[p]) = CpuTime(file[p].tokens)
    <3>1. OnCpu(p) /\ ProcOK(p)
      BY <1>0, <1>4, <1>10
    <3>2. InOnePlace(p) /\ TimesOK(p) /\ BurstsLeft(p)
      BY <3>1 DEF ProcOK
    <3>3. /\ ~InReady(p) /\ ~Queued(ioQueue, p) /\ ~OnIo(p) /\ ~Finished(p) /\ Arrived(p)
      BY <3>1, <3>2 DEF InOnePlace, OnCpu
    <3>4. response_time[p] # -1
      BY <3>2, <3>3 DEF TimesOK
    <3>5. ran[p] + cpu.left + EvenSum(prc[p]) = CpuTime(file[p].tokens)
      BY <3>1, <3>2 DEF BurstsLeft
    <3>6. p \notin Arriving
      BY <1>2, <3>1
    <3> QED
      BY <3>1, <3>3, <3>4, <3>5, <3>6
  <2>2. file' = file /\ prc'[p] = prc[p] /\ Arrived(p)'
    BY <1>1, <1>5, <2>1 DEF Onward
  <2>3. InReady(p)' /\ \A e \in readyQueue' : e[2] = p => e = <<cpu.left, p>>
    BY <1>5, <1>10, <2>1 DEF InReady
  <2>4. ~Queued(ioQueue, p)' /\ ~OnCpu(p)' /\ ~OnIo(p)' /\ ~Finished(p)'
    BY <1>4, <1>7, <1>10, <2>1 DEF OnCpu
  <2>5. InOnePlace(p)'
    BY <2>2, <2>3, <2>4 DEF InOnePlace
  <2>6. BurstsLeft(p)'
    <3>1. \A e \in readyQueue' : e[2] = p =>
            ran'[p] + e[1] + EvenSum(prc'[p]) = CpuTime(file'[p].tokens)
      BY <2>1, <2>2, <2>3
    <3> QED
      BY <2>2, <2>4, <3>1 DEF BurstsLeft
  <2>7. TimesOK(p)'
    <3>1. response_time[p] + ran[p] <= Now - file[p].arrival /\ Now' = Now
      BY <1>0, <2>1 DEF ProcOK, TimesOK, Now
    <3> QED
      BY <2>1, <2>2, <2>4, <3>1 DEF TimesOK
  <2> QED
    BY <2>5, <2>6, <2>7 DEF ProcOK
<1>11. \A p \in Procs : ProcOK(p)'
  BY <1>8, <1>9, <1>10
<1>12. QueuedOnce'
  <2>1. ASSUME NEW e \in readyQueue', NEW f \in readyQueue', e[2] = f[2] PROVE e = f
    <3>1. /\ e \in readyQueue => InReady(e[2])
          /\ f \in readyQueue => InReady(f[2])
      BY DEF InReady
    <3>2. back => ~InReady(cpu.pid) /\ cpu.pid \notin Arriving
      BY <1>0, <1>2, <1>4 DEF ProcOK, InOnePlace
    <3>3. ASSUME e \in readyQueue PROVE f \in readyQueue
      BY <1>2, <1>5, <2>1, <3>1, <3>2, <3>3
    <3>4. ASSUME f \in readyQueue PROVE e \in readyQueue
      BY <1>2, <1>5, <2>1, <3>1, <3>2, <3>4
    <3>5. CASE e \in readyQueue
      BY <1>0, <2>1, <3>3, <3>5 DEF QueuedOnce
    <3>6. CASE e \notin readyQueue
      <4>1. f \notin readyQueue
        BY <3>4, <3>6
      <4> QED
        BY <1>5, <2>1, <3>2, <3>6, <4>1
    <3> QED
      BY <3>5, <3>6
  <2> QED
    BY <1>0, <2>1 DEF QueuedOnce, Once
<1>13. DevicesOK'
  <2>1. cpu'.on => cpu' = cpu
    BY <1>0 DEF SimTypes, SimTypeOK, Device
  <2> QED
    BY <1>0, <2>1 DEF DevicesOK, Finished
<1> QED
  BY <1>6, <1>11, <1>12, <1>13 DEF SimInv

\* What is known of the process on the cpu and of the process doing I/O.
LEMMA OnDevice ==
  ASSUME SimInv, phase # "ended"
  PROVE  /\ cpu \in Device /\ io \in Device
         /\ cpu.on => /\ cpu.pid \in Procs /\ OnCpu(cpu.pid) /\ ~Finished(cpu.pid)
                      /\ Arrived(cpu.pid) /\ response_time[cpu.pid] \in Nat
                      /\ ~InReady(cpu.pid) /\ ~Queued(ioQueue, cpu.pid) /\ ~OnIo(cpu.pid)
         /\ io.on => /\ io.pid \in Procs /\ OnIo(io.pid) /\ ~Finished(io.pid)
                     /\ Arrived(io.pid) /\ response_time[io.pid] \in Nat
                     /\ ~InReady(io.pid) /\ ~Queued(ioQueue, io.pid) /\ ~OnCpu(io.pid)
<1>1. /\ SimTypes /\ DevicesOK
      /\ \A p \in Procs : InOnePlace(p) /\ TimesOK(p) /\ response_time[p] \in Nat \cup {-1}
  BY DEF SimInv, ProcOK, SimTypes, SimTypeOK
<1>2. cpu \in Device /\ io \in Device
  BY <1>1 DEF SimTypes, SimTypeOK
<1>3. ASSUME cpu.on
      PROVE  /\ cpu.pid \in Procs /\ OnCpu(cpu.pid) /\ ~Finished(cpu.pid)
             /\ Arrived(cpu.pid) /\ response_time[cpu.pid] \in Nat
             /\ ~InReady(cpu.pid) /\ ~Queued(ioQueue, cpu.pid) /\ ~OnIo(cpu.pid)
  <2>1. cpu.pid \in Procs /\ ~Finished(cpu.pid) /\ OnCpu(cpu.pid)
    BY <1>1, <1>3 DEF DevicesOK, OnCpu
  <2>2. /\ Arrived(cpu.pid) /\ ~InReady(cpu.pid) /\ ~Queued(ioQueue, cpu.pid)
        /\ ~OnIo(cpu.pid)
    BY <1>1, <2>1 DEF InOnePlace
  <2>3. response_time[cpu.pid] \in Nat
    BY <1>1, <2>1, <2>2 DEF TimesOK
  <2> QED
    BY <2>1, <2>2, <2>3
<1>4. ASSUME io.on
      PROVE  /\ io.pid \in Procs /\ OnIo(io.pid) /\ ~Finished(io.pid)
             /\ Arrived(io.pid) /\ response_time[io.pid] \in Nat
             /\ ~InReady(io.pid) /\ ~Queued(ioQueue, io.pid) /\ ~OnCpu(io.pid)
  <2>1. io.pid \in Procs /\ ~Finished(io.pid) /\ OnIo(io.pid)
    BY <1>1, <1>4 DEF DevicesOK, OnIo
  <2>2. /\ Arrived(io.pid) /\ ~InReady(io.pid) /\ ~Queued(ioQueue, io.pid)
        /\ ~OnCpu(io.pid)
    BY <1>1, <2>1 DEF InOnePlace
  <2>3. response_time[io.pid] \in Nat
    BY <1>1, <2>1, <2>2 DEF TimesOK
  <2> QED
    BY <2>1, <2>2, <2>3
<1> QED
  BY <1>2, <1>3, <1>4

LEMMA DispatchOK == SimInv /\ Dispatch => SimInv'
<1> SUFFICES ASSUME SimInv, Dispatch PROVE SimInv'
  OBVIOUS
<1> USE DEF Dispatch
<1>0. SimTypes /\ QueuedOnce /\ DevicesOK /\ \A p \in Procs : ProcOK(p)
  BY DEF SimInv
<1>1. Onward /\ time' \in Nat /\ phase = "dispatch" /\ phase' = "startIo"
  BY <1>0, ClockMovesOn DEF SimNext
<1>2. \A p \in Procs : /\ Finished(p)' <=> Finished(p)
                       /\ Queued(ioQueue, p)' <=> Queued(ioQueue, p)
                       /\ OnIo(p)' <=> OnIo(p)
                       /\ Arrived(p)' <=> Arrived(p)
  BY <1>1 DEF Finished, Queued, OnIo, Onward
<1>3. CASE cpu.on \/ readyQueue = {}
  <2>1. UNCHANGED <<cpu, readyQueue, response_time>>
    BY <1>3
  <2>2. SimTypes'
    BY <1>0, <1>1, <2>1 DEF SimTypes, SimTypeOK, Phases
  <2>3. QueuedOnce' /\ DevicesOK'
    BY <1>0, <1>1, <2>1 DEF QueuedOnce, Once, DevicesOK, Finished
  <2>4. ASSUME NEW p \in Procs PROVE ProcOK(p)'
    <3>1. OnCpu(p)' <=> OnCpu(p)
      BY <1>2, <2>1 DEF OnCpu
    <3>2. Same(p)
      BY <1>2, <2>1, <3>1 DEF Same
    <3> QED
      BY <1>0, <1>1, <3>2, SameOK
  <2> QED
    BY <2>2, <2>3, <2>4 DEF SimInv
<1>4. CASE ~cpu.on /\ readyQueue # {}
  <2>1. PICK e \in readyQueue : e = Top
    BY <1>0, <1>4, TopIn DEF SimTypes, SimTypeOK
  <2>2. PICK b \in Nat \ {0}, q \in Procs : e = <<b, q>> /\ e[1] = b /\ e[2] = q
    BY <1>0, <2>1 DEF SimTypes, SimTypeOK
  <2>3. /\ cpu' = [on |-> TRUE, pid |-> q, left |-> b]
        /\ readyQueue' = readyQueue \ {e}
        /\ response_time' = [response_time EXCEPT
             ![q] = IF @ = -1 THEN time - file[q].arrival ELSE @]
    BY <1>4, <2>1, <2>2
  <2>4. \A f \in readyQueue : f[2] = q => f = e
    BY <1>0, <2>2 DEF QueuedOnce
  <2>5. /\ InReady(q) /\ Arrived(q) /\ ~Queued(ioQueue, q) /\ ~OnIo(q) /\ ~Finished(q)
        /\ ran[q] + b + EvenSum(prc[q]) = CpuTime(file[q].tokens)
    <3>1. InReady(q) /\ ProcOK(q)
      BY <1>0, <2>2 DEF InReady
    <3>2. InOnePlace(q) /\ BurstsLeft(q)
      BY <3>1 DEF ProcOK
    <3>3. Arrived(q) /\ ~Queued(ioQueue, q) /\ ~OnIo(q) /\ ~Finished(q)
      BY <3>1, <3>2 DEF InOnePlace
    <3>4. ran[q] + b + EvenSum(prc[q]) = CpuTime(file[q].tokens)
      BY <2>2, <3>2 DEF BurstsLeft
    <3> QED
      BY <3>1, <3>3, <3>4
  <2>6. file[q].arrival \in Nat /\ time \in Nat /\ file[q].arrival <= time
    <3>1. file[q].arrival \in Nat
      BY <1>0, Lines
    <3>2. time \in Nat
      BY <1>0 DEF SimTypes, SimTypeOK
    <3> QED
      BY <2>5, <3>1, <3>2 DEF Arrived
  <2>7. /\ response_time' \in [Procs -> Nat \cup {-1}]
        /\ \A p \in Procs : p # q => response_time'[p] = response_time[p]
        /\ response_time'[q] = IF response_time[q] = -1 THEN time - file[q].arrival
                                                        ELSE response_time[q]
    <3>1. response_time \in [Procs -> Nat \cup {-1}]
      BY <1>0 DEF SimTypes, SimTypeOK
    <3> QED
      BY <2>3, <2>6, <3>1
  <2>8. SimTypes'
    <3>1. cpu' \in Device /\ cpu'.left > 0
      BY <2>3 DEF Device
    <3>2. readyQueue' \subseteq Nat \X Procs /\ \A f \in readyQueue' : f[1] > 0
      BY <1>0, <2>3 DEF SimTypes, SimTypeOK
    <3> QED
      BY <1>0, <1>1, <2>7, <3>1, <3>2 DEF SimTypes, SimTypeOK, Phases
  <2>9. QueuedOnce' /\ DevicesOK'
    BY <1>0, <1>1, <2>2, <2>3, <2>5 DEF QueuedOnce, Once, DevicesOK, Finished
  <2>10. ASSUME NEW p \in Procs, p # q PROVE ProcOK(p)'
    <3>1. ~OnCpu(p) /\ ~OnCpu(p)'
      BY <1>4, <2>3, <2>10 DEF OnCpu
    <3>2. ~(cpu.on /\ cpu.pid = p)'
      BY <2>3, <2>10
    <3>3. \A f \in readyQueue : f[2] = p => f \in readyQueue'
      BY <2>2, <2>3, <2>10
    <3>4. Same(p)
      BY <1>2, <2>3, <2>7, <2>10, <3>1, <3>2, <3>3 DEF Same
    <3> QED
      BY <1>0, <1>1, <3>4, SameOK
  <2>11. ProcOK(q)'
    <3>1. ~InReady(q)' /\ OnCpu(q)' /\ ~Queued(ioQueue, q)' /\ ~OnIo(q)' /\ ~Finished(q)'
          /\ Arrived(q)'
      BY <1>2, <2>3, <2>4, <2>5 DEF InReady, OnCpu
    <3>2. file' = file /\ ran' = ran /\ prc' = prc /\ cpu'.left = b
      BY <1>1, <2>3 DEF Onward
    <3>3. InOnePlace(q)'
      BY <3>1 DEF InOnePlace
    <3>4. BurstsLeft(q)'
      <4>1. \A f \in readyQueue' : f[2] # q
        BY <3>1 DEF InReady
      <4> QED
        BY <2>5, <3>1, <3>2, <4>1 DEF BurstsLeft
    <3>5. TimesOK(q)'
      <4>1. Now' = time /\ Now = time
        BY <1>1 DEF Now
      <4>2. TimesOK(q) /\ ran[q] \in Nat /\ response_time[q] \in Nat \cup {-1}
        BY <1>0 DEF ProcOK, SimTypes, SimTypeOK
      <4>3. response_time'[q] # -1 /\ response_time'[q] + ran[q] <= time - file[q].arrival
        <5>1. CASE response_time[q] = -1
          <6>1. ran[q] = 0 /\ response_time'[q] = time - file[q].arrival
            BY <2>7, <4>2, <5>1 DEF TimesOK
          <6> QED
            BY <2>6, <6>1
        <5>2. CASE response_time[q] # -1
          BY <2>5, <2>7, <4>1, <4>2, <5>2 DEF TimesOK
        <5> QED
          BY <5>1, <5>2
      <4> QED
        BY <3>1, <3>2, <4>1, <4>3 DEF TimesOK
    <3> QED
      BY <3>3, <3>4, <3>5 DEF ProcOK
  <2> QED
    BY <2>8, <2>9, <2>10, <2>11 DEF SimInv
<1> QED
  BY <1>3, <1>4

LEMMA StartIoOK == SimInv /\ StartIo => SimInv'
<1> SUFFICES ASSUME SimInv, StartIo PROVE SimInv'
  OBVIOUS
<1> USE DEF StartIo
<1>0. SimTypes /\ QueuedOnce /\ DevicesOK /\ \A p \in Procs : ProcOK(p)
  BY DEF SimInv
<1>1. Onward /\ time' \in Nat /\ phase = "startIo" /\ phase' = "count"
  BY <1>0, ClockMovesOn DEF SimNext
<1>2. \A p \in Procs : /\ Finished(p)' <=> Finished(p)
                       /\ InReady(p)' <=> InReady(p)
                       /\ OnCpu(p)' <=> OnCpu(p)
                       /\ Arrived(p)' <=> Arrived(p)
  BY <1>1 DEF Finished, InReady, OnCpu, Onward
<1>3. CASE io.on \/ ioQueue = <<>>
  <2>1. UNCHANGED <<io, ioQueue>>
    BY <1>3
  <2>2. SimTypes'
    BY <1>0, <1>1, <2>1 DEF SimTypes, SimTypeOK, Phases
  <2>3. QueuedOnce' /\ DevicesOK'
    BY <1>0, <1>1, <2>1 DEF QueuedOnce, Once, DevicesOK, Finished
  <2>4. ASSUME NEW p \in Procs PROVE ProcOK(p)'
    <3>1. (OnIo(p)' <=> OnIo(p)) /\ (Queued(ioQueue, p)' <=> Queued(ioQueue, p))
      BY <1>2, <2>1 DEF OnIo, Queued
    <3>2. Same(p)
      BY <1>2, <2>1, <3>1 DEF Same
    <3> QED
      BY <1>0, <1>1, <3>2, SameOK
  <2> QED
    BY <2>2, <2>3, <2>4 DEF SimInv
<1>4. CASE ~io.on /\ ioQueue # <<>>
  <2>1. ioQueue \in Seq(Nat \X Procs) /\ Once(ioQueue)
    BY <1>0 DEF SimTypes, SimTypeOK, QueuedOnce
  <2>2. /\ Head(ioQueue) \in Nat \X Procs /\ Tail(ioQueue) \in Seq(Nat \X Procs)
        /\ Queued(ioQueue, Head(ioQueue)[2]) /\ Once(Tail(ioQueue))
        /\ \A p : Queued(Tail(ioQueue), p) <=> Queued(ioQueue, p) /\ p # Head(ioQueue)[2]
    BY <1>4, <2>1, QueuedTail
  <2>3. PICK b \in Nat, q \in Procs : Head(ioQueue) = <<b, q>>
    BY <2>2
  <2>4. io' = [on |-> TRUE, pid |-> q, left |-> b] /\ ioQueue' = Tail(ioQueue)
    BY <1>4, <2>3
  <2>5. \A p : Queued(ioQueue, p)' <=> Queued(ioQueue, p) /\ p # q
    <3> TAKE p
    <3>1. Queued(ioQueue, p)' <=> Queued(ioQueue', p)
      BY DEF Queued
    <3>2. Queued(ioQueue', p) <=> Queued(ioQueue, p) /\ p # Head(ioQueue)[2]
      BY <2>2, <2>4
    <3> QED
      BY <2>3, <3>1, <3>2
  <2>6. /\ Queued(ioQueue, q) /\ Arrived(q) /\ ~InReady(q) /\ ~OnCpu(q) /\ ~Finished(q)
        /\ ran[q] + OddSum(prc[q]) = CpuTime(file[q].tokens)
    <3>1. Queued(ioQueue, q) /\ InOnePlace(q) /\ BurstsLeft(q)
      BY <1>0, <2>2, <2>3 DEF ProcOK
    <3>2. Arrived(q) /\ ~InReady(q) /\ ~OnCpu(q) /\ ~Finished(q)
      BY <3>1 DEF InOnePlace
    <3>3. ran[q] + OddSum(prc[q]) = CpuTime(file[q].tokens)
      BY <3>1 DEF BurstsLeft
    <3> QED
      BY <3>1, <3>2, <3>3
  <2>7. SimTypes'
    <3>1. io' \in Device
      BY <2>4 DEF Device
    <3> QED
      BY <1>0, <1>1, <2>2, <2>4, <3>1 DEF SimTypes, SimTypeOK, Phases
  <2>8. QueuedOnce' /\ DevicesOK'
    <3>1. Once(ioQueue)'
      BY <2>2, <2>4 DEF Once
    <3> QED
      BY <1>0, <1>1, <2>4, <2>6, <3>1 DEF QueuedOnce, DevicesOK, Finished
  <2>9. ASSUME NEW p \in Procs, p # q PROVE ProcOK(p)'
    <3>1. ~OnIo(p) /\ ~OnIo(p)'
      BY <1>4, <2>4, <2>9 DEF OnIo
    <3>2. Same(p)
      BY <1>2, <2>5, <2>9, <3>1 DEF Same
    <3> QED
      BY <1>0, <1>1, <3>2, SameOK
  <2>10. ProcOK(q)'
    <3>1. ~InReady(q)' /\ OnIo(q)' /\ ~Queued(ioQueue, q)' /\ ~OnCpu(q)' /\ ~Finished(q)'
          /\ Arrived(q)'
      BY <1>2, <2>4, <2>5, <2>6 DEF OnIo
    <3>2. file' = file /\ ran' = ran /\ prc' = prc /\ response_time' = response_time
      BY <1>1 DEF Onward
    <3>3. InOnePlace(q)'
      BY <3>1 DEF InOnePlace
    <3>4. BurstsLeft(q)'
      <4>1. \A f \in readyQueue' : f[2] # q
        BY <3>1 DEF InReady
      <4> QED
        BY <2>6, <3>1, <3>2, <4>1 DEF BurstsLeft
    <3>5. TimesOK(q)'
      <4>1. Now' = time /\ Now = time
        BY <1>1 DEF Now
      <4>2. TimesOK(q)
        BY <1>0 DEF ProcOK
      <4> QED
        BY <2>6, <3>1, <3>2, <4>1, <4>2 DEF TimesOK
    <3> QED
      BY <3>3, <3>4, <3>5 DEF ProcOK
  <2> QED
    BY <2>7, <2>8, <2>9, <2>10 DEF SimInv
<1> QED
  BY <1>3, <1>4

LEMMA CountOK == SimInv /\ Count => SimInv'
<1> SUFFICES ASSUME SimInv, Count PROVE SimInv'
  OBVIOUS
<1> USE DEF Count
<1>0. SimTypes /\ QueuedOnce /\ DevicesOK /\ \A p \in Procs : ProcOK(p)
  BY DEF SimInv
<1>1. /\ Onward /\ phase = "count" /\ phase' = "ioDone" /\ time \in Nat /\ time' = time
      /\ Now = time /\ Now' = time + 1
  BY <1>0, ClockMovesOn DEF SimNext, SimTypes, SimTypeOK, Now
<1>2. /\ cpu \in Device /\ io \in Device
      /\ cpu.on => /\ cpu.pid \in Procs /\ OnCpu(cpu.pid) /\ ~Finished(cpu.pid)
                   /\ Arrived(cpu.pid) /\ response_time[cpu.pid] \in Nat
                   /\ ~InReady(cpu.pid) /\ ~Queued(ioQueue, cpu.pid) /\ ~OnIo(cpu.pid)
                   /\ cpu.left \in Nat \ {0}
  <2>1. cpu.left \in Nat /\ (cpu.on => cpu.left > 0)
    BY <1>0, <1>1 DEF SimTypes, SimTypeOK, Device
  <2> QED
    BY <1>1, <2>1, OnDevice
<1>3. /\ cpu' \in Device /\ io' \in Device
      /\ cpu'.on = cpu.on /\ cpu'.pid = cpu.pid /\ io'.on = io.on /\ io'.pid = io.pid
      /\ cpu.on => cpu'.left = cpu.left - 1
  <2>1. ASSUME NEW d \in Device
        PROVE  /\ CountedDown(d) \in Device /\ CountedDown(d).on = d.on
               /\ CountedDown(d).pid = d.pid /\ (d.left > 0 => CountedDown(d).left = d.left - 1)
    BY DEF CountedDown, Device
  <2> QED
    BY <1>2, <2>1
<1>4. \A p \in Procs : /\ Finished(p)' <=> Finished(p)
                       /\ InReady(p)' <=> InReady(p)
                       /\ OnCpu(p)' <=> OnCpu(p)
                       /\ OnIo(p)' <=> OnIo(p)
                       /\ Queued(ioQueue, p)' <=> Queued(ioQueue, p)
                       /\ Arrived(p)' <=> Arrived(p)
  BY <1>1, <1>3 DEF Finished, InReady, OnCpu, OnIo, Queued, Onward
<1>5. /\ ran' \in [Procs -> Nat]
      /\ \A p \in Procs : ran'[p] = IF cpu.on /\ p = cpu.pid THEN ran[p] + 1 ELSE ran[p]
  <2>1. ran \in [Procs -> Nat]
    BY <1>0 DEF SimTypes, SimTypeOK
  <2> QED
    BY <1>2, <2>1
<1>6. SimTypes'
  BY <1>0, <1>1, <1>3, <1>5 DEF SimTypes, SimTypeOK, Phases
<1>7. QueuedOnce' /\ DevicesOK'
  BY <1>0, <1>1, <1>3 DEF QueuedOnce, Once, DevicesOK, Finished
<1>8. ASSUME NEW p \in Procs, ~(cpu.on /\ p = cpu.pid) PROVE ProcOK(p)'
  <2>1. Same(p)
    BY <1>3, <1>4, <1>5, <1>8 DEF Same
  <2> QED
    BY <1>0, <1>1, <2>1, SameOK
<1>9. ASSUME NEW p \in Procs, cpu.on, p = cpu.pid PROVE ProcOK(p)'
  <2>1. InOnePlace(p) /\ BurstsLeft(p) /\ TimesOK(p)
    BY <1>0 DEF ProcOK
  <2>2. /\ OnCpu(p) /\ ~Finished(p) /\ Arrived(p) /\ response_time[p] \in Nat
        /\ ~InReady(p) /\ ~Queued(ioQueue, p) /\ ~OnIo(p)
        /\ ran'[p] = ran[p] + 1 /\ ran[p] \in Nat
    BY <1>0, <1>2, <1>5, <1>9 DEF SimTypes, SimTypeOK
  <2>3. file' = file /\ prc' = prc /\ EvenSum(prc[p]) \in Nat /\ file[p].arrival \in Nat
    BY <1>0, <1>1, Lines, SumsTail DEF Onward
  <2>4. InOnePlace(p)'
    BY <1>4, <2>1 DEF InOnePlace
  <2>5. BurstsLeft(p)'
    <3>1. \A f \in readyQueue' : f[2] # p
      BY <2>2 DEF InReady
    <3>2. ran[p] + cpu.left + EvenSum(prc[p]) = CpuTime(file[p].tokens)
      BY <2>1, <2>2 DEF BurstsLeft
    <3>3. ran'[p] + cpu'.left + EvenSum(prc[p]) = CpuTime(file[p].tokens)
      BY <1>2, <1>3, <1>9, <2>2, <2>3, <3>2
    <3> QED
      BY <1>4, <2>2, <2>3, <3>1, <3>3 DEF BurstsLeft
  <2>6. TimesOK(p)'
    <3>1. response_time[p] + ran[p] <= Now - file[p].arrival
      BY <2>1, <2>2 DEF TimesOK
    <3>2. response_time[p] + ran'[p] <= Now' - file[p].arrival
      BY <1>1, <2>2, <2>3, <3>1
    <3> QED
      BY <1>4, <2>2, <2>3, <3>2 DEF TimesOK
  <2> QED
    BY <2>4, <2>5, <2>6 DEF ProcOK
<1> QED
  BY <1>6, <1>7, <1>8, <1>9 DEF SimInv

LEMMA Reported ==
  ASSUME SimTypes, NEW q \in Procs, Arrived(q), midPrint(q)
  PROVE  /\ turnaround_time' \in [Procs -> Nat] /\ waiting_time' \in [Procs -> Int]
         /\ turnaround_time'[q] = time - file[q].arrival + 1 /\ turnaround_time'[q] > 0
         /\ waiting_time'[q] = turnaround_time'[q] - totalburst_time(q)
         /\ \A p \in Procs : p # q => /\ turnaround_time'[p] = turnaround_time[p]
                                      /\ waiting_time'[p] = waiting_time[p]
<1>1. file[q].arrival \in Nat /\ totalburst_time(q) \in Nat
  BY Lines
<1>2. time \in Nat /\ turnaround_time \in [Procs -> Nat] /\ waiting_time \in [Procs -> Int]
  BY DEF SimTypes, SimTypeOK
<1>3. PICK t \in Nat : t = time - file[q].arrival + 1 /\ t > 0
  BY <1>1, <1>2 DEF Arrived
<1>4. PICK w \in Int : w = time - file[q].arrival + 1 - totalburst_time(q) /\ w = t - totalburst_time(q)
  BY <1>1, <1>2, <1>3
<1>5. /\ turnaround_time' = [turnaround_time EXCEPT ![q] = t]
      /\ waiting_time' = [waiting_time EXCEPT ![q] = w]
  BY <1>3, <1>4 DEF midPrint
<1> QED
  BY <1>2, <1>3, <1>4, <1>5

LEMMA IoDoneOK == SimInv /\ IoDone => SimInv'
<1> SUFFICES ASSUME SimInv, IoDone PROVE SimInv'
  OBVIOUS
<1> USE DEF IoDone
<1>0. SimTypes /\ QueuedOnce /\ DevicesOK /\ \A p \in Procs : ProcOK(p)
  BY DEF SimInv
<1>1. /\ Onward /\ phase = "ioDone" /\ time \in Nat /\ time' = time /\ phase' \in Phases
      /\ Now = time + 1 /\ \A p \in Procs : Arrived(p)' <=> Arrived(p)
  BY <1>0, ClockMovesOn DEF SimNext, SimTypes, SimTypeOK, Now, Onward
<1>2. \A p \in Procs : Queued(ioQueue, p)' <=> Queued(ioQueue, p)
  BY DEF Queued
<1>3. CASE ~(io.on /\ io.left = 0)
  <2>1. /\ phase' = "cpuDone"
        /\ UNCHANGED <<io, readyQueue, prc, turnaround_time, waiting_time>>
    BY <1>3
  <2>2. SimTypes'
    BY <1>0, <1>1, <2>1 DEF SimTypes, SimTypeOK, Phases
  <2>3. QueuedOnce' /\ DevicesOK'
    BY <1>0, <1>1, <2>1 DEF QueuedOnce, Once, DevicesOK, Finished
  <2>4. ASSUME NEW p \in Procs PROVE ProcOK(p)'
    <3>1. (OnIo(p)' <=> OnIo(p)) /\ (OnCpu(p)' <=> OnCpu(p))
      BY <2>1 DEF OnIo, OnCpu, Finished
    <3>2. Same(p)
      BY <1>2, <2>1, <3>1 DEF Same
    <3> QED
      BY <1>0, <1>1, <3>2, SameOK
  <2> QED
    BY <2>2, <2>3, <2>4 DEF SimInv
<1>4. CASE io.on /\ io.left = 0
  <2>1. PICK q \in Procs :
          /\ q = io.pid /\ OnIo(q) /\ ~Finished(q) /\ Arrived(q) /\ response_time[q] \in Nat
          /\ ~InReady(q) /\ ~Queued(ioQueue, q) /\ ~OnCpu(q) /\ io \in Device
    BY <1>1, <1>4, OnDevice
  <2>2. /\ ran[q] + OddSum(prc[q]) = CpuTime(file[q].tokens) /\ ran[q] \in Nat
        /\ prc[q] \in Seq(Nat \ {0}) /\ file[q].arrival \in Nat
        /\ response_time[q] + ran[q] <= time + 1 - file[q].arrival
    <3>1. BurstsLeft(q) /\ TimesOK(q) /\ ran[q] \in Nat
      BY <1>0 DEF ProcOK, SimTypes, SimTypeOK
    <3>2. ran[q] + OddSum(prc[q]) = CpuTime(file[q].tokens)
      BY <2>1, <3>1 DEF BurstsLeft
    <3>3. response_time[q] + ran[q] <= time + 1 - file[q].arrival
      <4>1. response_time[q] # -1
        BY <2>1
      <4>2. response_time[q] + ran[q] <= Now - file[q].arrival
        BY <2>1, <3>1, <4>1 DEF TimesOK
      <4>3. file[q].arrival \in Nat
        BY <1>0, Lines
      <4> QED
        BY <1>1, <2>1, <3>1, <4>2, <4>3
    <3> QED
      BY <1>0, <3>1, <3>2, <3>3, Lines
  <2>3. /\ io' = IF phase' = "ended" THEN io ELSE [io EXCEPT !.on = FALSE]
        /\ Finish(readyQueue', ioQueue, "cpuDone")
    BY <1>4
  <2>4. io' \in Device /\ io'.pid = q /\ (io'.on => phase' = "ended")
    BY <2>1, <2>3 DEF Device
  <2>5. ~(cpu.on /\ cpu.pid = q)
    BY <2>1 DEF OnCpu
  <2>6. CASE prc[q] = <<>>
    <3>1. midPrint(q) /\ readyQueue' = readyQueue /\ prc' = prc
      BY <1>4, <2>1, <2>6
    <3>2. /\ turnaround_time' \in [Procs -> Nat] /\ waiting_time' \in [Procs -> Int]
          /\ turnaround_time'[q] = time - file[q].arrival + 1 /\ turnaround_time'[q] > 0
          /\ waiting_time'[q] = turnaround_time'[q] - totalburst_time(q)
          /\ \A p \in Procs : p # q => /\ turnaround_time'[p] = turnaround_time[p]
                                       /\ waiting_time'[p] = waiting_time[p]
      BY <1>0, <2>1, <3>1, Reported
    <3>3. Finished(q)' /\ \A p \in Procs : p # q => (Finished(p)' <=> Finished(p))
      BY <3>2 DEF Finished
    <3>4. SimTypes'
      <4>1. phase' \in {"cpuDone", "ended"}
        BY <2>3 DEF Finish
      <4> QED
        BY <1>0, <1>1, <2>4, <3>1, <3>2, <4>1 DEF SimTypes, SimTypeOK
    <3>5. QueuedOnce' /\ DevicesOK'
      <4>1. QueuedOnce'
        BY <1>0, <3>1 DEF QueuedOnce, Once
      <4>2. cpu.on => cpu.pid \in Procs /\ cpu.pid # q /\ ~Finished(cpu.pid)
        BY <1>0, <1>1, <2>5 DEF DevicesOK
      <4> QED
        BY <2>4, <3>3, <4>1, <4>2 DEF DevicesOK
    <3>6. ASSUME NEW p \in Procs, p # q PROVE ProcOK(p)'
      <4>1. ~OnIo(p)' /\ ~OnIo(p) /\ (OnCpu(p)' <=> OnCpu(p))
        BY <2>1, <2>4, <3>3, <3>6 DEF OnIo, OnCpu
      <4>2. Same(p)
        BY <1>2, <3>1, <3>2, <3>6, <4>1 DEF Same
      <4> QED
        BY <1>0, <1>1, <4>2, SameOK
    <3>7. ProcOK(q)'
      <4>1. ~InReady(q)' /\ ~OnCpu(q)' /\ ~OnIo(q)' /\ ~Queued(ioQueue, q)' /\ Arrived(q)'
        BY <1>1, <1>2, <2>1, <3>1, <3>3 DEF InReady, OnCpu, OnIo
      <4>2. file' = file /\ ran' = ran /\ cpu' = cpu /\ response_time' = response_time
        BY <1>1 DEF Onward
      <4>3. InOnePlace(q)'
        BY <3>3, <4>1 DEF InOnePlace
      <4>4. BurstsLeft(q)'
        <5>1. \A f \in readyQueue' : f[2] # q
          BY <4>1 DEF InReady
        <5>2. OddSum(prc[q]) = 0
          <6>1. prc[q] \in Seq(Nat)
            BY <1>0, Lines
          <6> QED
            BY <2>6, <6>1, SumsTail
        <5>3. ran[q] = CpuTime(file[q].tokens)
          BY <2>2, <5>2
        <5> QED
          BY <2>5, <2>6, <3>1, <4>1, <4>2, <5>1, <5>3 DEF BurstsLeft
      <4>5. TimesOK(q)'
        <5>1. totalburst_time(q)' = totalburst_time(q)
          BY <4>2 DEF totalburst_time
        <5>2. response_time[q] + ran[q] <= turnaround_time'[q]
          BY <1>1, <2>1, <2>2, <3>2
        <5> QED
          BY <2>1, <3>2, <3>3, <4>1, <4>2, <5>1, <5>2 DEF TimesOK
      <4> QED
        BY <4>3, <4>4, <4>5 DEF ProcOK
    <3> QED
      BY <3>4, <3>5, <3>6, <3>7 DEF SimInv
  <2>7. CASE prc[q] # <<>>
    <3>1. PICK b : b = Head(prc[q])
      OBVIOUS
    <3>2. /\ b \in Nat \ {0} /\ Tail(prc[q]) \in Seq(Nat \ {0})
          /\ OddSum(prc[q]) = b + EvenSum(Tail(prc[q])) /\ EvenSum(Tail(prc[q])) \in Nat
      BY <2>2, <2>7, <3>1, NextBurst
    <3>3. /\ readyQueue' = readyQueue \cup {<<b, q>>}
          /\ prc' = [prc EXCEPT ![q] = Tail(@)]
          /\ UNCHANGED <<turnaround_time, waiting_time>>
      BY <1>4, <2>1, <2>7, <3>1
    <3>4. phase' = "cpuDone"
      BY <2>3, <3>3 DEF Finish
    <3>5. /\ prc' \in [Procs -> Seq(Nat \ {0})] /\ prc'[q] = Tail(prc[q])
          /\ \A p \in Procs : p # q => prc'[p] = prc[p]
      <4>1. prc \in [Procs -> Seq(Nat \ {0})]
        BY <1>0 DEF SimTypes, SimTypeOK
      <4> QED
        BY <3>2, <3>3, <4>1
    <3>6. SimTypes'
      <4>1. \A e \in readyQueue' : e \in Nat \X Procs /\ e[1] > 0
        BY <1>0, <3>2, <3>3 DEF SimTypes, SimTypeOK
      <4> QED
        BY <1>0, <1>1, <2>4, <3>3, <3>4, <3>5, <4>1 DEF SimTypes, SimTypeOK
    <3>7. \A p \in Procs : Finished(p)' <=> Finished(p)
      BY <3>3 DEF Finished
    <3>8. QueuedOnce' /\ DevicesOK'
      <4>1. \A e \in readyQueue : e[2] # q
        BY <2>1 DEF InReady
      <4>2. QueuedOnce'
        BY <1>0, <3>3, <4>1 DEF QueuedOnce, Once
      <4>3. DevicesOK'
        BY <1>0, <1>1, <2>4, <3>4, <3>7 DEF DevicesOK
      <4> QED
        BY <4>2, <4>3
    <3>9. ASSUME NEW p \in Procs, p # q PROVE ProcOK(p)'
      <4>1. ~OnIo(p)' /\ ~OnIo(p) /\ (OnCpu(p)' <=> OnCpu(p))
        BY <2>1, <2>4, <3>7, <3>9 DEF OnIo, OnCpu
      <4>2. \A e \in readyQueue' : e[2] = p => e \in readyQueue
        BY <3>3, <3>9
      <4>3. Same(p)
        BY <1>2, <3>3, <3>5, <3>9, <4>1, <4>2 DEF Same
      <4> QED
        BY <1>0, <1>1, <4>3, SameOK
    <3>10. ProcOK(q)'
      <4>1. InReady(q)' /\ \A e \in readyQueue' : e[2] = q => e = <<b, q>>
        <5>1. <<b, q>> \in readyQueue' /\ <<b, q>>[2] = q
          BY <3>3
        <5>2. \A e \in readyQueue : e[2] # q
          BY <2>1 DEF InReady
        <5> QED
          BY <3>3, <5>1, <5>2 DEF InReady
      <4>2. ~OnCpu(q)' /\ ~OnIo(q)' /\ ~Queued(ioQueue, q)' /\ Arrived(q)' /\ ~Finished(q)'
        BY <1>1, <1>2, <2>1, <2>4, <2>5, <3>4, <3>7 DEF OnCpu, OnIo
      <4>3. file' = file /\ ran' = ran /\ response_time' = response_time
        BY <1>1 DEF Onward
      <4>4. InOnePlace(q)'
        BY <4>1, <4>2 DEF InOnePlace
      <4>5. BurstsLeft(q)'
        <5>1. ran[q] + b + EvenSum(prc'[q]) = CpuTime(file[q].tokens)
          BY <2>2, <3>2, <3>5
        <5>2. \A e \in readyQueue' : e[2] = q =>
                ran'[q] + e[1] + EvenSum(prc'[q]) = CpuTime(file'[q].tokens)
          BY <4>1, <4>3, <5>1
        <5> QED
          BY <4>2, <5>2 DEF BurstsLeft
      <4>6. TimesOK(q)'
        <5>1. Now' = time + 1
          BY <1>1, <3>4 DEF Now
        <5>2. response_time[q] # -1
          BY <2>1
        <5>3. response_time[q] + ran[q] <= Now' - file[q].arrival
          BY <1>1, <2>1, <2>2, <5>1
        <5> QED
          BY <4>2, <4>3, <5>2, <5>3 DEF TimesOK
      <4> QED
        BY <4>4, <4>5, <4>6 DEF ProcOK
    <3> QED
      BY <3>6, <3>8, <3>9, <3>10 DEF SimInv
  <2> QED
    BY <2>6, <2>7
<1> QED
  BY <1>3, <1>4

LEMMA CpuDoneOK == SimInv /\ CpuDone => SimInv'
<1> SUFFICES ASSUME SimInv, CpuDone PROVE SimInv'
  OBVIOUS
<1> USE DEF CpuDone
<1>0. SimTypes /\ QueuedOnce /\ DevicesOK /\ \A p \in Procs : ProcOK(p)
  BY DEF SimInv
<1>1. /\ Onward /\ phase = "cpuDone" /\ time \in Nat /\ time' \in Nat /\ phase' \in Phases
      /\ Now = time + 1 /\ Now' \in Nat /\ Now <= Now' /\ \A p \in Procs : Arrived(p)' <=> Arrived(p)
  BY <1>0, ClockMovesOn DEF SimNext, SimTypes, SimTypeOK, Now, Onward
<1>2. \A p \in Procs : InReady(p)' <=> InReady(p)
  BY DEF InReady
<1>3. CASE ~(cpu.on /\ cpu.left = 0)
  <2>1. /\ phase' = "arrive"
        /\ UNCHANGED <<cpu, ioQueue, prc, turnaround_time, waiting_time>>
    BY <1>3
  <2>2. cpu.on => cpu.left > 0
    BY <1>0, <1>3 DEF SimTypes, SimTypeOK, Device
  <2>3. SimTypes'
    BY <1>0, <1>1, <2>1, <2>2 DEF SimTypes, SimTypeOK
  <2>4. QueuedOnce' /\ DevicesOK'
    BY <1>0, <1>1, <2>1 DEF QueuedOnce, Once, DevicesOK, Finished
  <2>5. ASSUME NEW p \in Procs PROVE ProcOK(p)'
    <3>1. /\ (OnIo(p)' <=> OnIo(p)) /\ (OnCpu(p)' <=> OnCpu(p))
          /\ (Queued(ioQueue, p)' <=> Queued(ioQueue, p))
      BY <2>1 DEF OnIo, OnCpu, Finished, Queued
    <3>2. Same(p)
      BY <1>2, <2>1, <3>1 DEF Same
    <3> QED
      BY <1>0, <1>1, <3>2, SameOK
  <2> QED
    BY <2>3, <2>4, <2>5 DEF SimInv
<1>4. CASE cpu.on /\ cpu.left = 0
  <2>1. PICK q \in Procs :
          /\ q = cpu.pid /\ OnCpu(q) /\ ~Finished(q) /\ Arrived(q) /\ response_time[q] \in Nat
          /\ ~InReady(q) /\ ~Queued(ioQueue, q) /\ ~OnIo(q) /\ cpu \in Device
    BY <1>1, <1>4, OnDevice
  <2>2. /\ ran[q] + EvenSum(prc[q]) = CpuTime(file[q].tokens) /\ ran[q] \in Nat
        /\ prc[q] \in Seq(Nat \ {0}) /\ prc[q] \in Seq(Nat) /\ file[q].arrival \in Nat
        /\ response_time[q] + ran[q] <= Now - file[q].arrival
    <3>1. BurstsLeft(q) /\ TimesOK(q) /\ ran[q] \in Nat
      BY <1>0 DEF ProcOK, SimTypes, SimTypeOK
    <3>2. prc[q] \in Seq(Nat \ {0}) /\ prc[q] \in Seq(Nat) /\ file[q].arrival \in Nat
      BY <1>0, Lines
    <3>3. ran[q] + EvenSum(prc[q]) = CpuTime(file[q].tokens)
      <4>1. ran[q] + 0 + EvenSum(prc[q]) = CpuTime(file[q].tokens)
        BY <1>4, <2>1, <3>1 DEF BurstsLeft
      <4> QED
        BY <3>1, <4>1
    <3>4. response_time[q] + ran[q] <= Now - file[q].arrival
      <4>1. response_time[q] # -1
        BY <2>1
      <4> QED
        BY <2>1, <3>1, <4>1 DEF TimesOK
    <3> QED
      BY <3>1, <3>2, <3>3, <3>4
  <2>3. /\ cpu' = IF phase' = "ended" THEN cpu ELSE [cpu EXCEPT !.on = FALSE]
        /\ Finish(readyQueue, ioQueue', "arrive")
    BY <1>4
  <2>4. cpu' \in Device /\ cpu'.pid = q /\ cpu'.left = 0 /\ (cpu'.on => phase' = "ended")
    BY <1>4, <2>1, <2>3 DEF Device
  <2>5. ~(io.on /\ io.pid = q)
    BY <2>1 DEF OnIo
  <2>6. CASE prc[q] = <<>>
    <3>1. midPrint(q) /\ ioQueue' = ioQueue /\ prc' = prc
      BY <1>4, <2>1, <2>6
    <3>2. /\ turnaround_time' \in [Procs -> Nat] /\ waiting_time' \in [Procs -> Int]
          /\ turnaround_time'[q] = time - file[q].arrival + 1 /\ turnaround_time'[q] > 0
          /\ waiting_time'[q] = turnaround_time'[q] - totalburst_time(q)
          /\ \A p \in Procs : p # q => /\ turnaround_time'[p] = turnaround_time[p]
                                       /\ waiting_time'[p] = waiting_time[p]
      BY <1>0, <2>1, <3>1, Reported
    <3>3. Finished(q)' /\ \A p \in Procs : p # q => (Finished(p)' <=> Finished(p))
      BY <3>2 DEF Finished
    <3>4. SimTypes'
      <4>1. cpu'.on /\ phase' \in {"dispatch", "startIo", "count", "arrive"} => cpu'.left > 0
        BY <2>4
      <4> QED
        BY <1>0, <1>1, <2>4, <3>1, <3>2, <4>1 DEF SimTypes, SimTypeOK
    <3>5. QueuedOnce' /\ DevicesOK'
      <4>1. QueuedOnce'
        BY <1>0, <3>1 DEF QueuedOnce, Once
      <4>2. io.on => io.pid \in Procs /\ io.pid # q /\ ~Finished(io.pid)
        BY <1>0, <1>1, <2>5 DEF DevicesOK
      <4> QED
        BY <2>4, <3>3, <4>1, <4>2 DEF DevicesOK
    <3>6. \A p : Queued(ioQueue, p)' <=> Queued(ioQueue, p)
      BY <3>1 DEF Queued
    <3>7. ASSUME NEW p \in Procs, p # q PROVE ProcOK(p)'
      <4>1. ~OnCpu(p)' /\ ~OnCpu(p) /\ (OnIo(p)' <=> OnIo(p))
        BY <2>1, <2>4, <3>3, <3>7 DEF OnIo, OnCpu
      <4>2. Same(p)
        BY <1>2, <2>1, <2>4, <3>1, <3>2, <3>6, <3>7, <4>1 DEF Same
      <4> QED
        BY <1>0, <1>1, <4>2, SameOK
    <3>8. ProcOK(q)'
      <4>1. ~InReady(q)' /\ ~OnCpu(q)' /\ ~OnIo(q)' /\ ~Queued(ioQueue, q)' /\ Arrived(q)'
        BY <1>1, <1>2, <2>1, <3>3, <3>6 DEF OnCpu, OnIo
      <4>2. file' = file /\ ran' = ran /\ response_time' = response_time
        BY <1>1 DEF Onward
      <4>3. InOnePlace(q)'
        BY <3>3, <4>1 DEF InOnePlace
      <4>4. BurstsLeft(q)'
        <5>1. \A f \in readyQueue' : f[2] # q
          BY <4>1 DEF InReady
        <5>2. EvenSum(prc[q]) = 0
          BY <2>2, <2>6, SumsTail
        <5>3. ran[q] = CpuTime(file[q].tokens)
          BY <2>2, <5>2
        <5> QED
          BY <2>4, <2>6, <3>1, <4>1, <4>2, <5>1, <5>3 DEF BurstsLeft
      <4>5. TimesOK(q)'
        <5>1. totalburst_time(q)' = totalburst_time(q)
          BY <4>2 DEF totalburst_time
        <5>2. response_time[q] + ran[q] <= turnaround_time'[q]
          <6>1. turnaround_time'[q] = Now - file[q].arrival
            BY <1>1, <2>2, <3>2
          <6> QED
            BY <2>2, <6>1
        <5> QED
          BY <2>1, <3>2, <3>3, <4>1, <4>2, <5>1, <5>2 DEF TimesOK
      <4> QED
        BY <4>3, <4>4, <4>5 DEF ProcOK
    <3> QED
      BY <3>4, <3>5, <3>7, <3>8 DEF SimInv
  <2>7. CASE prc[q] # <<>>
    <3>1. PICK b : b = Head(prc[q])
      OBVIOUS
    <3>2. /\ b \in Nat \ {0} /\ Tail(prc[q]) \in Seq(Nat \ {0})
          /\ EvenSum(prc[q]) = OddSum(Tail(prc[q]))
      BY <2>2, <2>7, <3>1, NextBurst
    <3>3. /\ ioQueue' = Append(ioQueue, <<b, q>>)
          /\ prc' = [prc EXCEPT ![q] = Tail(@)]
          /\ UNCHANGED <<turnaround_time, waiting_time>>
      BY <1>4, <2>1, <2>7, <3>1
    <3>4. /\ ioQueue' \in Seq(Nat \X Procs) /\ Once(ioQueue)'
          /\ \A p : Queued(ioQueue, p)' <=> Queued(ioQueue, p) \/ p = q
      <4>1. ioQueue \in Seq(Nat \X Procs) /\ Once(ioQueue) /\ ~Queued(ioQueue, q)
        BY <1>0, <2>1 DEF SimTypes, SimTypeOK, QueuedOnce
      <4>2. PICK e \in Nat \X Procs : e = <<b, q>> /\ e[2] = q
        <5>1. <<b, q>> \in Nat \X Procs /\ <<b, q>>[2] = q
          BY <3>2
        <5> QED
          BY <5>1
      <4>3. /\ \A p : Queued(Append(ioQueue, e), p) <=> Queued(ioQueue, p) \/ p = e[2]
            /\ Once(Append(ioQueue, e))
        BY <4>1, <4>2, QueuedAppend
      <4>4. Append(ioQueue, e) \in Seq(Nat \X Procs)
        BY <4>1, AppendProperties
      <4>5. /\ \A p : Queued(ioQueue, p)' <=> Queued(ioQueue', p)
            /\ Once(ioQueue)' <=> Once(ioQueue')
        BY DEF Queued, Once
      <4> QED
        BY <3>3, <4>2, <4>3, <4>4, <4>5
    <3>5. phase' # "ended" => phase' = "arrive"
      BY <2>3 DEF Finish
    <3>6. phase' = "arrive"
      <4>1. ioQueue' # <<>>
        <5>1. Queued(ioQueue, q)'
          BY <3>4
        <5> QED
          BY <5>1 DEF Queued
      <4> QED
        BY <2>3, <4>1 DEF Finish
    <3>7. /\ prc' \in [Procs -> Seq(Nat \ {0})] /\ prc'[q] = Tail(prc[q])
          /\ \A p \in Procs : p # q => prc'[p] = prc[p]
      <4>1. prc \in [Procs -> Seq(Nat \ {0})]
        BY <1>0 DEF SimTypes, SimTypeOK
      <4> QED
        BY <3>2, <3>3, <4>1
    <3>8. SimTypes'
      <4>1. ~cpu'.on
        BY <2>4, <3>6
      <4> QED
        BY <1>0, <1>1, <2>4, <3>3, <3>4, <3>7, <4>1 DEF SimTypes, SimTypeOK
    <3>9. \A p \in Procs : Finished(p)' <=> Finished(p)
      BY <3>3 DEF Finished
    <3>10. QueuedOnce' /\ DevicesOK'
      <4>1. QueuedOnce'
        BY <1>0, <3>4 DEF QueuedOnce
      <4>2. DevicesOK'
        BY <1>0, <1>1, <2>4, <3>6, <3>9 DEF DevicesOK
      <4> QED
        BY <4>1, <4>2
    <3>11. ASSUME NEW p \in Procs, p # q PROVE ProcOK(p)'
      <4>1. ~OnCpu(p)' /\ ~OnCpu(p) /\ (OnIo(p)' <=> OnIo(p))
        BY <2>1, <2>4, <3>9, <3>11 DEF OnIo, OnCpu
      <4>2. Same(p)
        BY <1>2, <2>4, <3>3, <3>4, <3>7, <3>11, <4>1 DEF Same
      <4> QED
        BY <1>0, <1>1, <4>2, SameOK
    <3>12. ProcOK(q)'
      <4>1. /\ Queued(ioQueue, q)' /\ ~InReady(q)' /\ ~OnCpu(q)' /\ ~OnIo(q)' /\ Arrived(q)'
            /\ ~Finished(q)'
        BY <1>1, <1>2, <2>1, <2>4, <2>5, <3>4, <3>6, <3>9 DEF OnCpu, OnIo
      <4>2. file' = file /\ ran' = ran /\ response_time' = response_time
        BY <1>1 DEF Onward
      <4>3. InOnePlace(q)'
        BY <4>1 DEF InOnePlace
      <4>4. BurstsLeft(q)'
        <5>1. \A f \in readyQueue' : f[2] # q
          BY <4>1 DEF InReady
        <5>2. ran[q] + OddSum(prc'[q]) = CpuTime(file[q].tokens)
          BY <2>2, <3>2, <3>7
        <5> QED
          BY <4>1, <4>2, <5>1, <5>2 DEF BurstsLeft
      <4>5. TimesOK(q)'
        <5>1. response_time[q] # -1
          BY <2>1
        <5>2. response_time[q] + ran[q] <= Now' - file[q].arrival
          BY <1>1, <2>1, <2>2
        <5> QED
          BY <4>1, <4>2, <5>1, <5>2 DEF TimesOK
      <4> QED
        BY <4>3, <4>4, <4>5 DEF ProcOK
    <3> QED
      BY <3>8, <3>10, <3>11, <3>12 DEF SimInv
  <2> QED
    BY <2>6, <2>7
<1> QED
  BY <1>3, <1>4

-----------------------------------------------------------------------------
(* The simulation keeps the invariant, and what the invariant says.         *)

LEMMA SimUnchanged == SimInv /\ UNCHANGED simVars => SimInv'
BY DEF simVars, SimInv, SimTypes, SimTypeOK, QueuedOnce, Once, DevicesOK, ProcOK, InOnePlace,
       BurstsLeft, TimesOK, InReady, Queued, OnCpu, OnIo, Finished, Arrived, Now, totalburst_time

LEMMA SimStep == SimInv /\ [SimNext]_simVars => SimInv'
BY SimUnchanged, ArriveOK, DispatchOK, StartIoOK, CountOK, IoDoneOK, CpuDoneOK DEF SimNext

LEMMA SimPlaces == SimInv => OnePlace
<1> SUFFICES ASSUME SimInv, NEW p \in Procs PROVE Places(p) = IF Arrived(p) THEN 1 ELSE 0
  BY DEF OnePlace, SimInv, SimTypes
<1>1. QueuedOnce /\ InOnePlace(p)
  BY DEF SimInv, ProcOK
<1>2. Cardinality({e \in readyQueue : e[2] = p}) = IF InReady(p) THEN 1 ELSE 0
  <2>1. CASE InReady(p)
    <3>1. PICK e \in readyQueue : e[2] = p
      BY <2>1 DEF InReady
    <3>2. {f \in readyQueue : f[2] = p} = {e}
      BY <1>1, <3>1 DEF QueuedOnce
    <3> QED
      BY <2>1, <3>2, FS_Singleton
  <2>2. CASE ~InReady(p)
    <3>1. {f \in readyQueue : f[2] = p} = {}
      BY <2>2 DEF InReady
    <3> QED
      BY <2>2, <3>1, FS_EmptySet
  <2> QED
    BY <2>1, <2>2
<1>3. Cardinality({i \in DOMAIN ioQueue : ioQueue[i][2] = p}) = IF Queued(ioQueue, p) THEN 1 ELSE 0
  <2>1. CASE Queued(ioQueue, p)
    <3>1. PICK i \in DOMAIN ioQueue : ioQueue[i][2] = p
      BY <2>1 DEF Queued
    <3>2. {j \in DOMAIN ioQueue : ioQueue[j][2] = p} = {i}
      BY <1>1, <3>1 DEF QueuedOnce, Once
    <3> QED
      BY <2>1, <3>2, FS_Singleton
  <2>2. CASE ~Queued(ioQueue, p)
    <3>1. {j \in DOMAIN ioQueue : ioQueue[j][2] = p} = {}
      BY <2>2 DEF Queued
    <3> QED
      BY <2>2, <3>1, FS_EmptySet
  <2> QED
    BY <2>1, <2>2
<1>4. Places(p) = (IF InReady(p) THEN 1 ELSE 0) + (IF Queued(ioQueue, p) THEN 1 ELSE 0)
                  + (IF OnCpu(p) THEN 1 ELSE 0) + (IF OnIo(p) THEN 1 ELSE 0)
                  + (IF Finished(p) THEN 1 ELSE 0)
  BY <1>2, <1>3 DEF Places, OnCpu, OnIo
<1>5. /\ Arrived(p) <=> InReady(p) \/ Queued(ioQueue, p) \/ OnCpu(p) \/ OnIo(p) \/ Finished(p)
      /\ InReady(p) => ~Queued(ioQueue, p) /\ ~OnCpu(p) /\ ~OnIo(p) /\ ~Finished(p)
      /\ Queued(ioQueue, p) => ~OnCpu(p) /\ ~OnIo(p) /\ ~Finished(p)
      /\ ~(OnCpu(p) /\ OnIo(p)) /\ ~(OnCpu(p) /\ Finished(p)) /\ ~(OnIo(p) /\ Finished(p))
  BY <1>1 DEF InOnePlace, OnCpu, OnIo
<1> QED
  BY <1>4, <1>5

LEMMA SimConserves == SimInv => CpuTimeConserved
<1> SUFFICES ASSUME SimInv, NEW p \in Procs PROVE ran[p] + CpuTimeDue(p) = CpuTime(file[p].tokens)
  BY DEF CpuTimeConserved
<1>0. SimTypes /\ QueuedOnce /\ InOnePlace(p) /\ BurstsLeft(p)
  BY DEF SimInv, ProcOK
<1> DEFINE ready == IF \E e \in readyQueue : e[2] = p
                      THEN (CHOOSE e \in readyQueue : e[2] = p)[1] ELSE 0
           running == IF cpu.on /\ cpu.pid = p THEN cpu.left ELSE 0
           due == IF OnIo(p) \/ Queued(ioQueue, p) \/ ~Arrived(p) THEN OddSum(prc[p])
                                                                  ELSE EvenSum(prc[p])
<1>1. CpuTimeDue(p) = ready + running + due
  BY DEF CpuTimeDue, OnIo, Queued, OddSum, EvenSum
<1>2. /\ ran[p] \in Nat /\ prc[p] \in Seq(Nat) /\ OddSum(prc[p]) \in Nat /\ EvenSum(prc[p]) \in Nat
      /\ CpuTime(file[p].tokens) = OddSum(Bursts(file[p].tokens))
  BY <1>0, Lines, SumsTail DEF SimTypes, SimTypeOK
<1>3. ASSUME InReady(p)
      PROVE  ready \in Nat /\ ran[p] + ready + EvenSum(prc[p]) = CpuTime(file[p].tokens)
  <2>1. PICK e \in readyQueue : e[2] = p /\ e = CHOOSE f \in readyQueue : f[2] = p
    BY <1>3 DEF InReady
  <2>2. ready = e[1]
    BY <2>1
  <2>3. e[1] \in Nat
    BY <1>0, <2>1 DEF SimTypes, SimTypeOK
  <2> QED
    BY <1>0, <2>1, <2>2, <2>3 DEF BurstsLeft
<1>4. ~InReady(p) => ready = 0
  BY DEF InReady
<1>5. /\ running \in Nat /\ (OnCpu(p) => running = cpu.left)
      /\ ~OnCpu(p) => running = 0
  <2>1. cpu.left \in Nat
    BY <1>0 DEF SimTypes, SimTypeOK, Device
  <2>2. Finished(p) => (cpu.on /\ cpu.pid = p => cpu.left = 0)
    BY <1>0 DEF BurstsLeft
  <2> QED
    BY <2>1, <2>2 DEF OnCpu
<1>6. due = IF OnIo(p) \/ Queued(ioQueue, p) \/ ~Arrived(p) THEN OddSum(prc[p]) ELSE EvenSum(prc[p])
  OBVIOUS
<1> HIDE DEF ready, running, due
<1>7. CASE ~Arrived(p)
  <2>1. ~InReady(p) /\ ~OnCpu(p) /\ ran[p] = 0 /\ prc[p] = Bursts(file[p].tokens)
    BY <1>0, <1>7 DEF InOnePlace, BurstsLeft
  <2> QED
    BY <1>1, <1>2, <1>4, <1>5, <1>6, <1>7, <2>1
<1>8. CASE InReady(p)
  <2>1. ~OnCpu(p) /\ ~OnIo(p) /\ ~Queued(ioQueue, p) /\ Arrived(p)
    BY <1>0, <1>8 DEF InOnePlace
  <2> QED
    BY <1>1, <1>2, <1>3, <1>5, <1>6, <1>8, <2>1
<1>9. CASE OnCpu(p)
  <2>1. ~InReady(p) /\ ~OnIo(p) /\ ~Queued(ioQueue, p) /\ Arrived(p)
    BY <1>0, <1>9 DEF InOnePlace
  <2>2. ran[p] + cpu.left + EvenSum(prc[p]) = CpuTime(file[p].tokens)
    BY <1>0, <1>9 DEF BurstsLeft
  <2> QED
    BY <1>1, <1>2, <1>4, <1>5, <1>6, <1>9, <2>1, <2>2
<1>10. CASE OnIo(p) \/ Queued(ioQueue, p)
  <2>1. ~InReady(p) /\ ~OnCpu(p)
    BY <1>0, <1>10 DEF InOnePlace
  <2>2. ran[p] + OddSum(prc[p]) = CpuTime(file[p].tokens)
    BY <1>0, <1>10 DEF BurstsLeft
  <2> QED
    BY <1>1, <1>2, <1>4, <1>5, <1>6, <1>10, <2>1, <2>2
<1>11. CASE Finished(p)
  <2>1. ~InReady(p) /\ ~OnCpu(p)
    BY <1>0, <1>11 DEF InOnePlace, OnCpu
  <2>2. ran[p] = CpuTime(file[p].tokens) /\ prc[p] = <<>>
    BY <1>0, <1>11 DEF BurstsLeft
  <2>3. OddSum(prc[p]) = 0 /\ EvenSum(prc[p]) = 0
    BY <1>2, <2>2, SumsTail
  <2> QED
    BY <1>1, <1>2, <1>4, <1>5, <1>6, <2>1, <2>2, <2>3
<1> QED
  BY <1>0, <1>7, <1>8, <1>9, <1>10, <1>11 DEF InOnePlace

LEMMA SimReports == SimInv => ReportAddsUp
<1> SUFFICES ASSUME SimInv, NEW p \in Procs, Finished(p), 0 \notin Range(file[p].tokens)
             PROVE  /\ waiting_time[p] = turnaround_time[p] - ran[p]
                    /\ response_time[p] >= 0 /\ response_time[p] <= waiting_time[p]
  BY DEF ReportAddsUp
<1>0. SimTypes /\ InOnePlace(p) /\ BurstsLeft(p) /\ TimesOK(p)
  BY DEF SimInv, ProcOK
<1>1. PICK t \in Seq(Nat) : t = file[p].tokens
  BY <1>0, Lines
<1>2. Bursts(t) = t
  <2>1. \A i \in 1 .. Len(t) : t[i] # 0
    BY <1>1 DEF Range
  <2> QED
    BY <2>1, BurstsAre
<1>3. totalburst_time(p) = ran[p]
  <2>1. totalburst_time(p) = CpuTime(file[p].tokens)
    BY <1>1, <1>2 DEF totalburst_time, CpuTime
  <2> QED
    BY <1>0, <2>1 DEF BurstsLeft
<1>4. response_time[p] \in Nat
  <2>1. response_time[p] \in Nat \cup {-1}
    BY <1>0 DEF SimTypes, SimTypeOK
  <2>2. response_time[p] # -1
    BY <1>0 DEF InOnePlace, TimesOK
  <2> QED
    BY <2>1, <2>2
<1>5. ran[p] \in Nat /\ turnaround_time[p] \in Nat
  BY <1>0 DEF SimTypes, SimTypeOK
<1>6. /\ response_time[p] + ran[p] <= turnaround_time[p]
      /\ waiting_time[p] = turnaround_time[p] - ran[p]
  BY <1>0, <1>3 DEF TimesOK
<1> QED
  BY <1>4, <1>5, <1>6

LEMMA SimHolds == SimSpec => []SimInv
<1>1. SimInv /\ [SimNext]_simVars => SimInv'
  BY SimStep
<1> QED
  BY InitInv, <1>1, PTL DEF SimSpec

\* A process of Scheduler.cpp that has arrived is in exactly one place: in one of
\* the queues, on a device or finished.
THEOREM SimOnePlace == SimSpec => []OnePlace
BY SimHolds, SimPlaces, PTL

\* Whatever the lines of the file, a process is given exactly the CPU time of its
\* bursts: srtf puts a preempted process back with what it has not used.
THEOREM SimCpuTimeConserved == SimSpec => []CpuTimeConserved
BY SimHolds, SimConserves, PTL

\* The turnaround, waiting and response times that midPrint and the loops report
\* of a finished process fit together.
THEOREM SimReportAddsUp == SimSpec => []ReportAddsUp
BY SimHolds, SimReports, PTL

-----------------------------------------------------------------------------
(* The two simulators side by side.                                         *)

LEMMA SimulatorsHold == SimulatorsSpec => [](SimInv /\ PagingInv)
<1>1. SimulatorsInit => SimInv /\ PagingInv
  BY InitInv, PagingInitOK DEF SimulatorsInit
<1>2. SimInv /\ PagingInv /\ [SimulatorsNext]_simulatorsVars => (SimInv /\ PagingInv)'
  <2> SUFFICES ASSUME SimInv, PagingInv, [SimulatorsNext]_simulatorsVars
               PROVE  SimInv' /\ PagingInv'
    OBVIOUS
  <2>1. [SimNext]_simVars /\ [PagingNext]_pagingVars
    BY DEF SimulatorsNext, InCpu, InPaging, simulatorsVars
  <2> QED
    BY <2>1, SimStep, PagingStep
<1> QED
  BY <1>1, <1>2, PTL DEF SimulatorsSpec

\* What the runs check of both simulators holds whichever of them is run.
THEOREM SimulatorsSafe ==
  SimulatorsSpec => [](/\ OnePlace /\ CpuTimeConserved /\ ReportAddsUp
                       /\ LruKeepsLatest /\ LruInclusion /\ Conservative)
BY SimulatorsHold, SimPlaces, SimConserves, SimReports, InvLatest, InvInclusion,
   InvConservative, PTL

=============================================================================
