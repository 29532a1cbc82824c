--------------------------- MODULE InductionLemmas ---------------------------
(***************************************************************************)
(* Induction and recursion over the naturals, stated with sets and         *)
(* functions in the place of predicates and operators, so that they can be *)
(* cited in the proofs about definitions that are recursive functions: the *)
(* queues of KernelIpc, the lists and sums of the simulators.              *)
(***************************************************************************)
EXTENDS Integers, FiniteSets, FiniteSetTheorems, WellFoundedInduction, TLAPS

\* A set of naturals has a least element, unless it is empty.
LEMMA LeastNumber ==
  ASSUME NEW X, X \subseteq Nat, X # {}
  PROVE  \E m \in X : \A n \in X : m <= n
<1> DEFINE T == {0 .. (n - 1) : n \in X}
<1>1. T \subseteq FiniteSubsetsOf(Nat) /\ T # {}
  <2>1. \A n \in X : IsFiniteSet(0 .. (n - 1)) /\ 0 .. (n - 1) \subseteq Nat
    BY FS_Interval
  <2> QED
    BY <2>1 DEF FiniteSubsetsOf
<1>2. PICK t \in T : \A u \in T : ~(<<u, t>> \in StrictSubsetOrdering(Nat))
  <2> HIDE DEF T
  <2> QED
    BY <1>1, FS_StrictSubsetOrderingWellFounded, WFMin
<1>3. PICK m \in X : t = 0 .. (m - 1)
  OBVIOUS
<1>4. ASSUME NEW n \in X PROVE m <= n
  <2>1. 0 .. (n - 1) \in T
    OBVIOUS
  <2>2. ~(<<0 .. (n - 1), t>> \in StrictSubsetOrdering(Nat))
    BY <2>1, <1>2
  <2>3. SUFFICES ASSUME n < m PROVE FALSE
    OBVIOUS
  <2>4. 0 .. (n - 1) \subseteq t /\ t \subseteq Nat
    BY <1>3, <2>3
  <2>5. n \in t /\ n \notin 0 .. (n - 1)
    BY <1>3, <2>3
  <2> QED
    BY <2>2, <2>4, <2>5 DEF StrictSubsetOrdering
<1> QED
  BY <1>4

\* What holds of 0, and of n + 1 when it holds of n, holds of every natural.
LEMMA Induct ==
  ASSUME NEW X, 0 \in X, \A n \in X : n \in Nat => n + 1 \in X
  PROVE  Nat \subseteq X
<1> SUFFICES ASSUME Nat \ X # {} PROVE FALSE
  OBVIOUS
<1>1. PICK m \in Nat \ X : \A n \in Nat \ X : m <= n
  BY LeastNumber
<1>2. m # 0 /\ m - 1 \in Nat /\ m - 1 \in X
  BY <1>1
<1> QED
  BY <1>2, <1>1

\* The same up to a bound.
LEMMA InductTo ==
  ASSUME NEW k \in Nat, NEW X, 0 \in X, \A n \in X : n \in Nat /\ n < k => n + 1 \in X
  PROVE  0 .. k \subseteq X
<1> DEFINE Y == {n \in Nat : n <= k => n \in X}
<1>1. 0 \in Y /\ \A n \in Y : n \in Nat => n + 1 \in Y
  OBVIOUS
<1> HIDE DEF Y
<1>2. Nat \subseteq Y
  BY <1>1, Induct
<1> QED
  BY <1>2 DEF Y

\* What holds of the empty set, and of S with one element more when it holds of
\* S, holds of every finite set.
LEMMA InductSet ==
  ASSUME NEW T, IsFiniteSet(T), NEW X, {} \in X,
         \A S \in X : \A t \in T : S \subseteq T /\ t \notin S => S \cup {t} \in X
  PROVE  T \in X
<1> DEFINE Y == {n \in Nat : \A S \in SUBSET T : Cardinality(S) = n => S \in X}
<1>0. \A S \in SUBSET T : IsFiniteSet(S) /\ Cardinality(S) \in Nat
  BY FS_Subset, FS_CardinalityType
<1>1. 0 \in Y
  BY <1>0, FS_EmptySet
<1>2. ASSUME NEW n \in Y, n \in Nat PROVE n + 1 \in Y
  <2>1. SUFFICES ASSUME NEW S \in SUBSET T, Cardinality(S) = n + 1 PROVE S \in X
    BY <1>2
  <2>2. PICK t \in S : TRUE
    BY <2>1, <1>0, FS_EmptySet
  <2>3. Cardinality(S \ {t}) = n
    <3>1. IsFiniteSet(S) /\ t \in S
      BY <1>0, <2>2
    <3>2. Cardinality(S \ {t}) = Cardinality(S) - 1
      BY <3>1, FS_RemoveElement, Zenon
    <3> QED
      BY <1>2, <2>1, <3>2
  <2>4. S \ {t} \in X
    BY <1>2, <2>3
  <2>5. (S \ {t}) \cup {t} = S /\ t \notin S \ {t} /\ t \in T /\ S \ {t} \subseteq T
    BY <2>2
  <2> QED
    BY <2>4, <2>5
<1> HIDE DEF Y
<1>3. Nat \subseteq Y
  BY <1>1, <1>2, Induct
<1> QED
  BY <1>0, <1>3 DEF Y

\* A function on 0 .. k defined by its value at 0 and a step from each value to
\* the next one exists, and its values are in the set the step works on.
Recursion(k, V, base, step) == k \in Nat /\ base \in V /\ step \in [(1 .. k) \X V -> V]

Generated(G, k, V, base, step) ==
  /\ G \in [0 .. k -> V]
  /\ G[0] = base /\ \A i \in 1 .. k : G[i] = step[<<i, G[i - 1]>>]

LEMMA RecursiveFunction ==
  ASSUME NEW k, NEW V, NEW base, NEW step, Recursion(k, V, base, step)
  PROVE  \E G : Generated(G, k, V, base, step)
<1> USE DEF Recursion
<1> DEFINE OK(G, n) == G[0] = base /\ \A i \in 1 .. n : G[i] = step[<<i, G[i - 1]>>]
           X == {n \in Nat : \E G \in [0 .. n -> V] : OK(G, n)}
<1>1. 0 \in X
  <2> DEFINE G == [i \in 0 .. 0 |-> base]
  <2>1. G \in [0 .. 0 -> V] /\ OK(G, 0)
    OBVIOUS
  <2> QED
    BY <2>1
<1>2. ASSUME NEW n \in X, n \in Nat /\ n < k PROVE n + 1 \in X
  <2>1. PICK G \in [0 .. n -> V] : OK(G, n)
    BY <1>2
  <2> DEFINE H == [i \in 0 .. n + 1 |-> IF i <= n THEN G[i] ELSE step[<<n + 1, G[n]>>]]
  <2>2. G[n] \in V /\ n + 1 \in 1 .. k
    BY <1>2
  <2>3. step[<<n + 1, G[n]>>] \in V
    BY <2>2
  <2>4. H \in [0 .. n + 1 -> V]
    BY <1>2, <2>1, <2>3
  <2>5. H[n + 1] = step[<<n + 1, G[n]>>] /\ \A i \in 0 .. n : H[i] = G[i]
    BY <1>2
  <2> HIDE DEF H
  <2>6. \A i \in 1 .. n + 1 : H[i] = step[<<i, H[i - 1]>>]
    <3> TAKE i \in 1 .. n + 1
    <3>1. CASE i = n + 1
      BY <1>2, <2>5, <3>1
    <3>2. CASE i \in 1 .. n
      BY <1>2, <2>1, <2>5, <3>2
    <3> QED
      BY <1>2, <3>1, <3>2
  <2>7. OK(H, n + 1)
    BY <1>2, <2>1, <2>5, <2>6
  <2> QED
    BY <1>2, <2>4, <2>7
<1> HIDE DEF X
<1>3. 0 .. k \subseteq X
  BY <1>1, <1>2, InductTo
<1>4. k \in X
  BY <1>3
<1>5. PICK G \in [0 .. k -> V] : OK(G, k)
  BY <1>4 DEF X
<1>6. Generated(G, k, V, base, step)
  BY <1>5 DEF Generated
<1> QED
  BY <1>6

=============================================================================
