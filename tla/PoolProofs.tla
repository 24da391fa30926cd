------------------------------ MODULE PoolProofs ------------------------------
(***************************************************************************)
(* Proofs about ExecutionPool and OwnedProcess, for every set of callers,  *)
(* every capacity and every number of waiting slots.                       *)
(*                                                                         *)
(* The first part is about sums: SumFunctionOnSet is a fold, defined by    *)
(* recursion over subsets, and what the proofs need of it (any element may *)
(* be taken out first, one changed summand changes the sum by as much) is  *)
(* proved here by induction over sets.  The second part shows what         *)
(* add_permits hands out, the third that every action keeps the            *)
(* invariants.                                                             *)
(***************************************************************************)
EXTENDS OwnedProcess, FiniteSetTheorems, SequenceTheorems, TLAPS

-----------------------------------------------------------------------------
(* Sums over finite sets. *)

\* Natural induction over a set.
LEMMA NatSet ==
    ASSUME NEW P, 0 \in P, \A n \in Nat : n \in P => n + 1 \in P
    PROVE  Nat \subseteq P
<1> SUFFICES ASSUME Nat \ P # {} PROVE FALSE
  OBVIOUS
<1>1. PICK m \in Nat \ P : \A k \in Nat \ P : ~(<<k, m>> \in OpToRel(<, Nat))
  BY WFMin, NatLessThanWellFounded
<1>2. m # 0 /\ m - 1 \in Nat
  OBVIOUS
<1>3. <<m - 1, m>> \in OpToRel(<, Nat)
  BY <1>2 DEF OpToRel
<1>4. m - 1 \notin P
  <2>1. m = (m - 1) + 1
    BY <1>2
  <2> QED BY <1>2, <2>1
<1> QED BY <1>1, <1>2, <1>3, <1>4

\* The function a sum is read off.
Pick(s) == CHOOSE x \in s : TRUE
IsIter(g, f, D) == g = [s \in D |-> IF s = {} THEN 0 ELSE f[Pick(s)] + g[s \ {Pick(s)}]]
Iter(f, S) == CHOOSE g : IsIter(g, f, SUBSET S)

LEMMA SumIsIter == ASSUME NEW f, NEW S PROVE SumFunctionOnSet(f, S) = Iter(f, S)[S]
BY DEF SumFunctionOnSet, FoldFunctionOnSet, MapThenFoldSet, Iter, IsIter, Pick

LEMMA PickFacts ==
    ASSUME NEW s, s # {}, IsFiniteSet(s)
    PROVE  Pick(s) \in s /\ IsFiniteSet(s \ {Pick(s)}) /\ Cardinality(s \ {Pick(s)}) = Cardinality(s) - 1
           /\ Cardinality(s) \in Nat
<1>1. Pick(s) \in s
  BY DEF Pick
<1> QED BY <1>1, FS_RemoveElement, FS_CardinalityType

\* A larger domain is reached step by step.
LEMMA IterExists ==
    ASSUME NEW S, IsFiniteSet(S), NEW f
    PROVE  IsIter(Iter(f, S), f, SUBSET S)
<1> DEFINE D(n) == {s \in SUBSET S : Cardinality(s) <= n}
           P == {n \in Nat : \E g : IsIter(g, f, D(n))}
<1>0. \A s \in SUBSET S : IsFiniteSet(s) /\ Cardinality(s) \in Nat /\ Cardinality(s) <= Cardinality(S)
  BY FS_Subset, FS_CardinalityType
<1>1. 0 \in P
  <2>1. \A s \in D(0) : s = {}
    BY <1>0, FS_EmptySet
  <2>2. IsIter([s \in D(0) |-> 0], f, D(0))
    BY <2>1 DEF IsIter
  <2> QED BY <2>2
<1>2. ASSUME NEW n \in Nat, n \in P PROVE n + 1 \in P
  <2>1. PICK g : IsIter(g, f, D(n))
    BY <1>2
  <2> DEFINE h == [s \in D(n + 1) |-> IF s = {} THEN 0 ELSE f[Pick(s)] + g[s \ {Pick(s)}]]
  <2>2. ASSUME NEW s \in D(n + 1), s # {}
        PROVE  s \ {Pick(s)} \in D(n) /\ s \ {Pick(s)} \in D(n + 1)
    BY <1>0, <2>2, PickFacts
  <2>3. \A s \in D(n) : s \in D(n + 1) /\ h[s] = g[s]
    <3>1. \A s \in D(n) : s \in D(n + 1)
      BY <1>0
    <3>2. \A s \in D(n) : g[s] = IF s = {} THEN 0 ELSE f[Pick(s)] + g[s \ {Pick(s)}]
      BY <2>1 DEF IsIter
    <3> QED BY <3>1, <3>2
  <2>4. IsIter(h, f, D(n + 1))
    <3>1. \A s \in D(n + 1) : s # {} => h[s \ {Pick(s)}] = g[s \ {Pick(s)}]
      BY <2>2, <2>3
    <3>2. h = [s \in D(n + 1) |-> IF s = {} THEN 0 ELSE f[Pick(s)] + h[s \ {Pick(s)}]]
      BY <3>1
    <3> QED BY <3>2 DEF IsIter
  <2> HIDE DEF h, D
  <2>5. n + 1 \in Nat /\ \E k : IsIter(k, f, D(n + 1))
    BY <2>4
  <2> QED BY <2>5
<1> HIDE DEF P
<1>3. Nat \subseteq P
  BY <1>1, <1>2, NatSet
<1> USE DEF P
<1>4. Cardinality(S) \in P
  BY <1>0, <1>3
<1>5. D(Cardinality(S)) = SUBSET S
  BY <1>0
<1>6. \E g : IsIter(g, f, SUBSET S)
  BY <1>4, <1>5
<1> QED BY <1>6 DEF Iter

LEMMA IterValue ==
    ASSUME NEW U, IsFiniteSet(U), NEW f, NEW T \in SUBSET U
    PROVE  Iter(f, U)[T] = IF T = {} THEN 0
                           ELSE f[Pick(T)] + Iter(f, U)[T \ {Pick(T)}]
<1> DEFINE g == Iter(f, U)
<1>1. g = [s \in SUBSET U |-> IF s = {} THEN 0 ELSE f[Pick(s)] + g[s \ {Pick(s)}]]
  BY IterExists DEF IsIter
<1> HIDE DEF g
<1>2. g[T] = IF T = {} THEN 0 ELSE f[Pick(T)] + g[T \ {Pick(T)}]
  BY <1>1
<1> QED BY <1>2 DEF g

\* What holds of the empty set and of a set whenever it holds of all sets with
\* one element less, holds of every finite set.
LEMMA SubsetInduction ==
    ASSUME NEW U, IsFiniteSet(U), NEW P,
           {} \in P,
           \A T \in SUBSET U : T # {} /\ (\A x \in T : T \ {x} \in P) => T \in P
    PROVE  \A T \in SUBSET U : T \in P
<1> DEFINE Small(n) == \A T \in SUBSET U : Cardinality(T) <= n => T \in P
           Q == {n \in Nat : Small(n)}
<1>0. \A T \in SUBSET U : IsFiniteSet(T) /\ Cardinality(T) \in Nat
  BY FS_Subset, FS_CardinalityType
<1>1. Small(0)
  BY <1>0, FS_EmptySet
<1>2. ASSUME NEW n \in Nat, Small(n) PROVE Small(n + 1)
  <2> SUFFICES ASSUME NEW T \in SUBSET U, Cardinality(T) <= n + 1, T # {} PROVE T \in P
    OBVIOUS
  <2>1. \A x \in T : T \ {x} \in SUBSET U /\ Cardinality(T \ {x}) = Cardinality(T) - 1
    BY <1>0, FS_RemoveElement
  <2>2. \A x \in T : Cardinality(T \ {x}) <= n
    BY <1>0, <2>1
  <2>3. \A x \in T : T \ {x} \in P
    BY <1>2, <2>1, <2>2
  <2> QED BY <2>3
<1> HIDE DEF Small
<1>3. 0 \in Q /\ \A n \in Nat : n \in Q => n + 1 \in Q
  BY <1>1, <1>2
<1>4. Nat \subseteq Q
  <2> HIDE DEF Q
  <2> QED BY <1>3, NatSet
<1>5. ASSUME NEW T \in SUBSET U PROVE T \in P
  <2>1. Cardinality(T) \in Nat /\ Small(Cardinality(T))
    BY <1>0, <1>4
  <2> QED BY <2>1 DEF Small
<1> QED BY <1>5

\* Sums of integers are integers.
LEMMA IterInt ==
    ASSUME NEW U, IsFiniteSet(U), NEW f, \A u \in U : f[u] \in Int
    PROVE  \A T \in SUBSET U : Iter(f, U)[T] \in Int
<1> DEFINE P == {T \in SUBSET U : Iter(f, U)[T] \in Int}
<1>1. {} \in P
  <2>1. {} \in SUBSET U /\ Iter(f, U)[{}] = 0
    BY IterValue, Zenon
  <2> QED BY <2>1
<1>2. ASSUME NEW T \in SUBSET U, T # {}, \A x \in T : T \ {x} \in P
      PROVE  T \in P
  <2>1. Pick(T) \in T
    BY <1>2 DEF Pick
  <2>2. Iter(f, U)[T] = f[Pick(T)] + Iter(f, U)[T \ {Pick(T)}]
    BY <1>2, IterValue
  <2>3. Iter(f, U)[T \ {Pick(T)}] \in Int /\ f[Pick(T)] \in Int
    BY <1>2, <2>1
  <2> QED BY <2>2, <2>3
<1>3. \A T \in SUBSET U : T \in P
  <2> HIDE DEF P
  <2> QED BY <1>1, <1>2, SubsetInduction
<1> QED BY <1>3

\* The order in which a sum is taken does not matter.
LEMMA IterRemove ==
    ASSUME NEW U, IsFiniteSet(U), NEW f, \A u \in U : f[u] \in Int
    PROVE  \A T \in SUBSET U : \A x \in T :
              Iter(f, U)[T] = f[x] + Iter(f, U)[T \ {x}]
<1> DEFINE I(T) == Iter(f, U)[T]
           AnyOf(T) == \A x \in T : I(T) = f[x] + I(T \ {x})
           P == {T \in SUBSET U : AnyOf(T)}
<1>0. \A T \in SUBSET U : I(T) \in Int
  BY IterInt
<1>1. {} \in P
  OBVIOUS
<1>2. ASSUME NEW T \in SUBSET U, T # {}, \A x \in T : T \ {x} \in P
      PROVE  T \in P
  <2> DEFINE c == Pick(T)
  <2>1. c \in T
    BY <1>2 DEF Pick
  <2>2. I(T) = f[c] + I(T \ {c})
    BY <1>2, IterValue
  <2>3. \A x \in T : AnyOf(T \ {x})
    BY <1>2
  <2> HIDE DEF I, c
  <2>4. ASSUME NEW x \in T, x # c
        PROVE  I(T) = f[x] + I(T \ {x})
    <3>1. (T \ {c}) \ {x} = (T \ {x}) \ {c} /\ x \in T \ {c} /\ c \in T \ {x}
      BY <2>1, <2>4
    <3>2. I(T \ {c}) = f[x] + I((T \ {c}) \ {x})
      BY <2>1, <2>3, <3>1
    <3>3. I(T \ {x}) = f[c] + I((T \ {c}) \ {x})
      BY <2>3, <3>1
    <3>4. f[c] \in Int /\ f[x] \in Int /\ I((T \ {c}) \ {x}) \in Int
      BY <1>0, <2>1
    <3> QED BY <2>2, <3>2, <3>3, <3>4
  <2> QED BY <2>1, <2>2, <2>4
<1>3. \A T \in SUBSET U : T \in P
  <2> HIDE DEF P
  <2> QED BY <1>1, <1>2, SubsetInduction
<1> QED BY <1>3

\* A sum depends only on the values summed, not on the set they come from.
LEMMA IterSame ==
    ASSUME NEW U, IsFiniteSet(U), NEW V, IsFiniteSet(V), NEW f, NEW g,
           NEW S, S \subseteq U, S \subseteq V,
           \A x \in S : f[x] = g[x]
    PROVE  Iter(f, U)[S] = Iter(g, V)[S]
<1> DEFINE P == {T \in SUBSET S : Iter(f, U)[T] = Iter(g, V)[T]}
<1>0. IsFiniteSet(S)
  BY FS_Subset
<1>1. {} \in P
  <2>1. Iter(f, U)[{}] = 0 /\ Iter(g, V)[{}] = 0
    BY IterValue, Zenon
  <2> QED BY <2>1
<1>2. ASSUME NEW T \in SUBSET S, T # {}, \A x \in T : T \ {x} \in P
      PROVE  T \in P
  <2>1. Pick(T) \in T /\ T \in SUBSET U /\ T \in SUBSET V
    BY <1>2 DEF Pick
  <2>2. Iter(f, U)[T] = f[Pick(T)] + Iter(f, U)[T \ {Pick(T)}]
    BY <1>2, <2>1, IterValue, ZenonT(60)
  <2>3. Iter(g, V)[T] = g[Pick(T)] + Iter(g, V)[T \ {Pick(T)}]
    BY <1>2, <2>1, IterValue
  <2>4. Iter(f, U)[T \ {Pick(T)}] = Iter(g, V)[T \ {Pick(T)}] /\ f[Pick(T)] = g[Pick(T)]
    BY <1>2, <2>1
  <2> QED BY <2>2, <2>3, <2>4
<1>3. \A T \in SUBSET S : T \in P
  <2> HIDE DEF P
  <2> QED BY <1>0, <1>1, <1>2, SubsetInduction
<1> QED BY <1>3

\* The sum of integers over a finite set is an integer, and any element may
\* be taken out of it first.
LEMMA SumFacts ==
    ASSUME NEW S, IsFiniteSet(S), NEW f, \A x \in S : f[x] \in Int
    PROVE  /\ SumFunctionOnSet(f, S) \in Int
           /\ S = {} => SumFunctionOnSet(f, S) = 0
           /\ \A x \in S : SumFunctionOnSet(f, S) = f[x] + SumFunctionOnSet(f, S \ {x})
<1>1. SumFunctionOnSet(f, S) \in Int
  BY SumIsIter, IterInt
<1>2. S = {} => SumFunctionOnSet(f, S) = 0
  BY SumIsIter, IterValue
<1>3. ASSUME NEW x \in S
      PROVE  SumFunctionOnSet(f, S) = f[x] + SumFunctionOnSet(f, S \ {x})
  <2>1. SumFunctionOnSet(f, S) = f[x] + Iter(f, S)[S \ {x}]
    BY SumIsIter, IterRemove
  <2>2. IsFiniteSet(S \ {x})
    BY FS_RemoveElement
  <2>3. Iter(f, S)[S \ {x}] = Iter(f, S \ {x})[S \ {x}]
    BY <2>2, IterSame
  <2>4. SumFunctionOnSet(f, S \ {x}) = Iter(f, S \ {x})[S \ {x}]
    BY SumIsIter
  <2> QED BY <2>1, <2>3, <2>4
<1> QED BY <1>1, <1>2, <1>3

\* Equal summands have equal sums.
LEMMA SumSame ==
    ASSUME NEW S, IsFiniteSet(S), NEW f, NEW g, \A x \in S : f[x] = g[x]
    PROVE  SumFunctionOnSet(f, S) = SumFunctionOnSet(g, S)
<1>1. Iter(f, S)[S] = Iter(g, S)[S]
  BY IterSame
<1> QED BY <1>1, SumIsIter

\* Changing one summand changes the sum by as much.
LEMMA SumUpdate ==
    ASSUME NEW S, IsFiniteSet(S), NEW c \in S, NEW f, NEW g,
           \A x \in S : f[x] \in Int /\ g[x] \in Int,
           \A x \in S \ {c} : f[x] = g[x]
    PROVE  SumFunctionOnSet(g, S) = SumFunctionOnSet(f, S) + g[c] - f[c]
<1>1. IsFiniteSet(S \ {c})
  BY FS_RemoveElement
<1>2. SumFunctionOnSet(f, S) = f[c] + SumFunctionOnSet(f, S \ {c})
  BY SumFacts
<1>3. SumFunctionOnSet(g, S) = g[c] + SumFunctionOnSet(g, S \ {c})
  BY SumFacts
<1>4. SumFunctionOnSet(f, S \ {c}) = SumFunctionOnSet(g, S \ {c})
  BY <1>1, SumSame
<1>5. SumFunctionOnSet(f, S \ {c}) \in Int /\ f[c] \in Int /\ g[c] \in Int
  BY <1>1, SumFacts
<1> QED BY <1>2, <1>3, <1>4, <1>5

\* A sum of naturals is at least the sum over any part of the set.
LEMMA SumPart ==
    ASSUME NEW S, IsFiniteSet(S), NEW f, \A x \in S : f[x] \in Nat, NEW R \in SUBSET S
    PROVE  0 <= SumFunctionOnSet(f, R) /\ SumFunctionOnSet(f, R) <= SumFunctionOnSet(f, S)
<1> DEFINE Sum(T) == SumFunctionOnSet(f, T)
           P == {T \in SUBSET S : \A Q \in SUBSET T : 0 <= Sum(Q) /\ Sum(Q) <= Sum(T)}
<1>0. \A T \in SUBSET S : IsFiniteSet(T) /\ Sum(T) \in Int
  BY FS_Subset, SumFacts
<1>1. {} \in P
  <2>1. Sum({}) = 0
    BY SumFacts, FS_EmptySet
  <2> QED BY <2>1
<1>2. ASSUME NEW T \in SUBSET S, T # {}, \A x \in T : T \ {x} \in P
      PROVE  T \in P
  <2> SUFFICES ASSUME NEW Q \in SUBSET T PROVE 0 <= Sum(Q) /\ Sum(Q) <= Sum(T)
    OBVIOUS
  <2>1. \A x \in T : Sum(T) = f[x] + Sum(T \ {x}) /\ f[x] \in Nat /\ Sum(T \ {x}) \in Int
    BY <1>0, SumFacts
  <2> HIDE DEF Sum
  <2>2. \A x \in T : 0 <= Sum(T \ {x})
    BY <1>2
  <2>3. CASE Q = T
    <3>1. PICK x \in T : TRUE
      BY <1>2
    <3>2. Sum(T) = f[x] + Sum(T \ {x}) /\ f[x] \in Nat /\ Sum(T \ {x}) \in Int /\ 0 <= Sum(T \ {x})
      BY <2>1, <2>2
    <3> QED BY <2>3, <3>2
  <2>4. CASE Q # T
    <3>1. PICK x \in T : x \notin Q
      BY <2>4
    <3>2. Q \in SUBSET (T \ {x}) /\ Sum(Q) \in Int
      BY <1>0, <3>1
    <3>3. 0 <= Sum(Q) /\ Sum(Q) <= Sum(T \ {x})
      BY <1>2, <3>2
    <3> QED BY <2>1, <3>2, <3>3
  <2> QED BY <2>3, <2>4
<1>3. \A T \in SUBSET S : T \in P
  <2> HIDE DEF P
  <2> QED BY <1>1, <1>2, SubsetInduction
<1> QED BY <1>3

\* A sum over an initial segment grows by its next summand.
LEMMA SumPrefix ==
    ASSUME NEW m \in Nat, NEW f, \A i \in 1..m : f[i] \in Int
    PROVE  /\ SumFunctionOnSet(f, 1..0) = 0
           /\ \A i \in 0..m : SumFunctionOnSet(f, 1..i) \in Int
           /\ \A i \in 1..m :
                 SumFunctionOnSet(f, 1..i) = SumFunctionOnSet(f, 1..(i - 1)) + f[i]
<1>1. \A i \in 0..m : IsFiniteSet(1..i) /\ \A j \in 1..i : f[j] \in Int
  BY FS_Interval
<1>2. \A i \in 0..m : SumFunctionOnSet(f, 1..i) \in Int
  BY <1>1, SumFacts
<1>3. SumFunctionOnSet(f, 1..0) = 0
  <2>1. 1..0 = {} /\ 0 \in 0..m
    OBVIOUS
  <2> QED BY <1>1, <2>1, SumFacts
<1>4. ASSUME NEW i \in 1..m
      PROVE  SumFunctionOnSet(f, 1..i) = SumFunctionOnSet(f, 1..(i - 1)) + f[i]
  <2>1. (1..i) \ {i} = 1..(i - 1) /\ i \in 1..i /\ i \in 0..m /\ i - 1 \in 0..m
    OBVIOUS
  <2>2. SumFunctionOnSet(f, 1..i) = f[i] + SumFunctionOnSet(f, (1..i) \ {i})
    BY <1>1, <2>1, SumFacts
  <2>3. f[i] \in Int /\ SumFunctionOnSet(f, 1..(i - 1)) \in Int
    BY <1>2, <2>1
  <2>4. SumFunctionOnSet(f, 1..i) = f[i] + SumFunctionOnSet(f, 1..(i - 1))
    BY <2>1, <2>2, Zenon
  <2> QED BY <2>3, <2>4
<1> QED BY <1>2, <1>3, <1>4

-----------------------------------------------------------------------------
(* What add_permits hands out. *)

\* The smaller and the larger of two integers.
LEMMA MinMax ==
    ASSUME NEW a \in Int, NEW b \in Int
    PROVE  Min({a, b}) = (IF a <= b THEN a ELSE b) /\ Max({a, b}) = (IF a <= b THEN b ELSE a)
<1>1. Min({a, b}) \in {a, b} /\ \A x \in {a, b} : Min({a, b}) <= x
  <2>1. \E m \in {a, b} : \A x \in {a, b} : m <= x
    OBVIOUS
  <2> QED BY <2>1 DEF Min
<1>2. Max({a, b}) \in {a, b} /\ \A x \in {a, b} : Max({a, b}) >= x
  <2>1. \E m \in {a, b} : \A x \in {a, b} : m >= x
    OBVIOUS
  <2> QED BY <2>1 DEF Max
<1> QED BY <1>1, <1>2

\* The shares of a queue with the lacks l when n permits are handed out.
Share(n, l, m) ==
    [i \in 1..m |-> Min({l[i], Max({0, n - SumFunctionOnSet(l, 1..(i - 1))})})]

\* Together the first waiters get what they lack, as far as the permits go, and
\* the ones that get all they lack come before the ones that do not.
LEMMA ShareFacts ==
    ASSUME NEW n \in Nat, NEW m \in Nat, NEW l, \A i \in 1..m : l[i] \in Nat \ {0}
    PROVE  LET s == Share(n, l, m)
               B(i) == SumFunctionOnSet(l, 1..i)
           IN /\ \A i \in 1..m : s[i] \in Nat /\ s[i] <= l[i]
              /\ \A i \in 0..m : B(i) \in Nat
              /\ \A i \in 1..m : B(i) = B(i - 1) + l[i] /\ (s[i] = l[i] <=> B(i) <= n)
              /\ \A i \in 0..m : SumFunctionOnSet(s, 1..i) = IF B(i) <= n THEN B(i) ELSE n
<1> DEFINE s == Share(n, l, m)
           B(i) == SumFunctionOnSet(l, 1..i)
<1>1. B(0) = 0 /\ \A i \in 0..m : B(i) \in Int
  BY SumPrefix
<1>2. \A i \in 1..m : B(i) = B(i - 1) + l[i]
  BY SumPrefix
<1> HIDE DEF B
<1>3. \A i \in 0..m : B(i) \in Nat
  <2> DEFINE P == {i \in Nat : i \in 0..m => B(i) \in Nat}
  <2>1. 0 \in P
    BY <1>1
  <2>2. ASSUME NEW i \in Nat, i \in P PROVE i + 1 \in P
    <3>1. CASE i + 1 \in 0..m
      <4>1. i + 1 \in 1..m /\ i \in 0..m /\ (i + 1) - 1 = i
        BY <3>1
      <4>2. B(i) \in Nat /\ B(i + 1) = B(i) + l[i + 1] /\ l[i + 1] \in Nat
        BY <1>2, <2>2, <4>1
      <4> QED BY <4>2
    <3> QED BY <3>1
  <2>3. Nat \subseteq P
    <3> HIDE DEF P
    <3> QED BY <2>1, <2>2, NatSet
  <2> QED BY <2>3
<1>4. ASSUME NEW i \in 1..m
      PROVE  /\ s[i] \in Nat /\ s[i] <= l[i]
             /\ s[i] = l[i] <=> B(i) <= n
             /\ s[i] = IF B(i) <= n THEN l[i] ELSE IF B(i - 1) <= n THEN n - B(i - 1) ELSE 0
  <2>1. i - 1 \in 0..m /\ B(i - 1) \in Nat /\ l[i] \in Nat \ {0} /\ B(i) = B(i - 1) + l[i]
    BY <1>2, <1>3
  <2>2. s[i] = Min({l[i], Max({0, n - B(i - 1)})})
    BY DEF Share, B
  <2>3. Max({0, n - B(i - 1)}) = IF 0 <= n - B(i - 1) THEN n - B(i - 1) ELSE 0
    BY <2>1, MinMax
  <2> DEFINE x == Max({0, n - B(i - 1)})
  <2>4. x \in Int /\ l[i] \in Int
    BY <2>1, <2>3
  <2>5. Min({l[i], x}) = IF l[i] <= x THEN l[i] ELSE x
    <3> HIDE DEF x
    <3> QED BY <2>4, MinMax
  <2> QED BY <2>1, <2>2, <2>3, <2>5
<1>5. /\ SumFunctionOnSet(s, 1..0) = 0
      /\ \A i \in 0..m : SumFunctionOnSet(s, 1..i) \in Int
      /\ \A i \in 1..m : SumFunctionOnSet(s, 1..i) = SumFunctionOnSet(s, 1..(i - 1)) + s[i]
  <2>1. \A i \in 1..m : s[i] \in Int
    BY <1>4
  <2> HIDE DEF s
  <2> QED BY <2>1, SumPrefix
<1> DEFINE C(i) == SumFunctionOnSet(s, 1..i)
<1> HIDE DEF s
<1>6. \A i \in 0..m : C(i) = IF B(i) <= n THEN B(i) ELSE n
  <2> DEFINE P == {i \in Nat : i \in 0..m => C(i) = IF B(i) <= n THEN B(i) ELSE n}
  <2>0. C(0) = 0 /\ \A i \in 1..m : C(i) = C(i - 1) + s[i]
    BY <1>5
  <2> HIDE DEF C
  <2>1. 0 \in P
    BY <1>1, <2>0
  <2>2. ASSUME NEW i \in Nat, i \in P PROVE i + 1 \in P
    <3>1. CASE i + 1 \in 0..m
      <4>1. i + 1 \in 1..m /\ i \in 0..m /\ (i + 1) - 1 = i
        BY <3>1
      <4>2. C(i + 1) = C(i) + s[i + 1] /\ B(i + 1) = B(i) + l[i + 1]
        BY <1>2, <2>0, <4>1
      <4>3. C(i) = IF B(i) <= n THEN B(i) ELSE n
        BY <2>2, <4>1
      <4>4. s[i + 1] = IF B(i + 1) <= n THEN l[i + 1] ELSE IF B(i) <= n THEN n - B(i) ELSE 0
        BY <1>4, <4>1
      <4>5. B(i) \in Nat /\ l[i + 1] \in Nat
        BY <1>3, <4>1
      <4> QED BY <4>2, <4>3, <4>4, <4>5
    <3> QED BY <3>1
  <2>3. Nat \subseteq P
    <3> HIDE DEF P
    <3> QED BY <2>1, <2>2, NatSet
  <2> QED BY <2>3
<1> QED BY <1>2, <1>3, <1>4, <1>6 DEF s, B

\* Positions of a queue that name each waiter once.
Distinct(q) == \A i, j \in 1..Len(q) : q[i] = q[j] => i = j

\* What the i-th waiter of q lacks.
Lack(q, have) == [i \in DOMAIN q |-> want[q[i]] - have[q[i]]]

\* Handing the shares s to the first k waiters of q takes as many permits as the
\* shares are worth, whoever the waiters are.
LEMMA GivenSum ==
    ASSUME NEW q \in Seq(Callers), NEW have \in [Callers -> Nat],
           NEW s, \A i \in 1..Len(q) : s[i] \in Nat
    PROVE  SumFunctionOnSet([c \in Callers |-> have[c] + SumFunctionOnSet(s, {i \in 1..Len(q) : q[i] = c})], Callers)
              = SumFunctionOnSet(have, Callers) + SumFunctionOnSet(s, 1..Len(q))
<1> DEFINE At(k, c) == {i \in 1..k : q[i] = c}
           G(k) == [c \in Callers |-> have[c] + SumFunctionOnSet(s, At(k, c))]
           Even(k) == SumFunctionOnSet(G(k), Callers)
                        = SumFunctionOnSet(have, Callers) + SumFunctionOnSet(s, 1..k)
           P == {k \in Nat : k \in 0..Len(q) => Even(k)}
<1>1. Len(q) \in Nat /\ \A i \in 1..Len(q) : q[i] \in Callers
  BY LenProperties, ElementOfSeq
<1>2. IsFiniteSet(Callers)
  BY PoolAssumption
<1>3. ASSUME NEW k \in 0..Len(q), NEW c \in Callers
      PROVE  /\ IsFiniteSet(At(k, c)) /\ SumFunctionOnSet(s, At(k, c)) \in Int
             /\ \A i \in At(k, c) : s[i] \in Int
  <2>1. IsFiniteSet(1..k) /\ At(k, c) \in SUBSET (1..k)
    BY <1>1, FS_Interval
  <2>2. IsFiniteSet(At(k, c))
    BY <2>1, FS_Subset
  <2>3. \A i \in At(k, c) : s[i] \in Int
    BY <1>1
  <2> HIDE DEF At
  <2> QED BY <2>2, <2>3, SumFacts
<1> HIDE DEF At
<1>4. ASSUME NEW k \in 0..Len(q), NEW c \in Callers PROVE G(k)[c] \in Int
  <2>1. SumFunctionOnSet(s, At(k, c)) \in Int /\ have[c] \in Int
    BY <1>3
  <2> QED BY <2>1
<1>5. /\ SumFunctionOnSet(s, 1..0) = 0
      /\ \A i \in 0..Len(q) : SumFunctionOnSet(s, 1..i) \in Int
      /\ \A i \in 1..Len(q) : SumFunctionOnSet(s, 1..i) = SumFunctionOnSet(s, 1..(i - 1)) + s[i]
  <2>1. \A i \in 1..Len(q) : s[i] \in Int
    OBVIOUS
  <2> QED BY <1>1, <2>1, SumPrefix
<1>6. SumFunctionOnSet(have, Callers) \in Int
  BY <1>2, SumFacts
<1>7. Even(0)
  <2>1. \A c \in Callers : At(0, c) = {}
    BY DEF At
  <2>2. SumFunctionOnSet(s, {}) = 0
    BY FS_EmptySet, SumFacts
  <2>3. \A c \in Callers : G(0)[c] = have[c]
    <3>1. \A c \in Callers : SumFunctionOnSet(s, At(0, c)) = 0
      BY <2>1, <2>2, Zenon
    <3> QED BY <3>1
  <2>4. SumFunctionOnSet(G(0), Callers) = SumFunctionOnSet(have, Callers)
    <3> HIDE DEF G
    <3> QED BY <1>2, <2>3, SumSame
  <2> QED BY <1>5, <1>6, <2>4
<1>8. ASSUME NEW k \in Nat, k + 1 \in 0..Len(q), Even(k)
      PROVE  Even(k + 1)
  <2>1. k \in 0..Len(q) /\ k + 1 \in 1..Len(q) /\ (k + 1) - 1 = k
    BY <1>1, <1>8
  <2>e. PICK e \in Callers : e = q[k + 1]
    BY <1>1, <2>1
  <2>2. \A c \in Callers \ {e} : At(k + 1, c) = At(k, c)
    BY <2>e DEF At
  <2>3. k + 1 \in At(k + 1, e) /\ At(k + 1, e) \ {k + 1} = At(k, e)
    BY <2>1, <2>e DEF At
  <2>4. SumFunctionOnSet(s, At(k + 1, e)) = s[k + 1] + SumFunctionOnSet(s, At(k, e))
    <3>1. IsFiniteSet(At(k + 1, e)) /\ \A i \in At(k + 1, e) : s[i] \in Int
      BY <1>3, <1>8
    <3>2. SumFunctionOnSet(s, At(k + 1, e)) = s[k + 1] + SumFunctionOnSet(s, At(k + 1, e) \ {k + 1})
      BY <2>3, <3>1, SumFacts
    <3> QED BY <2>3, <3>2, Zenon
  <2>5. SumFunctionOnSet(s, At(k, e)) \in Int /\ s[k + 1] \in Nat /\ have[e] \in Nat
    BY <1>3, <2>1
  <2>6. G(k + 1)[e] = G(k)[e] + s[k + 1] /\ G(k)[e] \in Int
    <3>1. /\ G(k + 1)[e] = have[e] + SumFunctionOnSet(s, At(k + 1, e))
          /\ G(k)[e] = have[e] + SumFunctionOnSet(s, At(k, e))
      BY Zenon
    <3> HIDE DEF G
    <3> QED BY <2>4, <2>5, <3>1
  <2>7. \A c \in Callers \ {e} : G(k)[c] = G(k + 1)[c]
    BY <2>2, Zenon
  <2>8. SumFunctionOnSet(G(k + 1), Callers) = SumFunctionOnSet(G(k), Callers) + G(k + 1)[e] - G(k)[e]
    <3>1. \A c \in Callers : G(k)[c] \in Int /\ G(k + 1)[c] \in Int
      BY <1>4, <1>8, <2>1
    <3> HIDE DEF G
    <3> QED BY <1>2, <2>1, <2>7, <3>1, SumUpdate, ZenonT(60)
  <2>9. SumFunctionOnSet(G(k), Callers) \in Int
    <3> HIDE DEF G
    <3> QED BY <1>2, <1>4, <2>1, SumFacts
  <2>10. SumFunctionOnSet(s, 1..(k + 1)) = SumFunctionOnSet(s, 1..k) + s[k + 1]
         /\ SumFunctionOnSet(s, 1..k) \in Int
    BY <1>5, <2>1
  <2> HIDE DEF G
  <2> QED BY <1>6, <1>8, <2>5, <2>6, <2>8, <2>9, <2>10
<1>9. Nat \subseteq P
  <2> HIDE DEF Even
  <2>1. 0 \in P /\ \A k \in Nat : k \in P => k + 1 \in P
    <3>1. \A k \in Nat : k + 1 \in 0..Len(q) => k \in 0..Len(q)
      BY <1>1
    <3> QED BY <1>7, <1>8, <3>1
  <2> HIDE DEF P
  <2> QED BY <2>1, NatSet
<1>10. Even(Len(q))
  <2> HIDE DEF Even
  <2> QED BY <1>1, <1>9
<1> QED BY <1>10 DEF At


\* The waiters that get all they lack are the first k of the queue.
LEMMA ServedPrefix ==
    ASSUME NEW n \in Nat, NEW m \in Nat, NEW l, \A i \in 1..m : l[i] \in Nat \ {0}
    PROVE  \E k \in 0..m :
              /\ {i \in 1..m : Share(n, l, m)[i] = l[i]} = 1..k
              /\ k < m => SumFunctionOnSet(Share(n, l, m), 1..m) = n
<1> DEFINE B(i) == SumFunctionOnSet(l, 1..i)
           s == Share(n, l, m)
           P == {i \in Nat : i <= m /\ B(i) <= n}
<1>1. /\ \A i \in 0..m : B(i) \in Nat
      /\ \A i \in 1..m : s[i] = l[i] <=> B(i) <= n
      /\ \A i \in 0..m : SumFunctionOnSet(s, 1..i) = IF B(i) <= n THEN B(i) ELSE n
  BY ShareFacts
<1>2. \A i, j \in 0..m : i <= j => B(i) <= B(j)
  <2> SUFFICES ASSUME NEW i \in 0..m, NEW j \in 0..m, i <= j PROVE B(i) <= B(j)
    OBVIOUS
  <2>1. IsFiniteSet(1..j) /\ (1..i) \in SUBSET (1..j) /\ \A x \in 1..j : l[x] \in Nat
    BY FS_Interval
  <2> QED BY <2>1, SumPart
<1>3. B(0) = 0
  BY SumPrefix
<1> HIDE DEF B, s
<1>4. PICK k \in Nat : k \in P /\ k + 1 \notin P
  <2>1. 0 \in P
    BY <1>3
  <2>2. m + 1 \in Nat /\ m + 1 \notin P
    OBVIOUS
  <2> HIDE DEF P
  <2> QED BY <2>1, <2>2, NatSet
<1>5. k \in 0..m /\ B(k) <= n /\ (k < m => k + 1 \in 0..m /\ ~(B(k + 1) <= n))
  BY <1>4
<1>6. ASSUME NEW i \in 1..m PROVE s[i] = l[i] <=> i \in 1..k
  <2>1. i \in 0..m /\ B(i) \in Nat /\ B(k) \in Nat
    BY <1>1, <1>5
  <2>2. CASE i <= k
    <3>1. B(i) <= B(k)
      BY <1>2, <1>5, <2>1, <2>2
    <3> QED BY <1>1, <1>5, <2>1, <2>2, <3>1
  <2>3. CASE ~(i <= k)
    <3>1. k < m /\ k + 1 <= i /\ k + 1 \in 0..m
      BY <1>5, <2>3
    <3>2. B(k + 1) <= B(i) /\ B(k + 1) \in Nat
      BY <1>1, <1>2, <2>1, <3>1
    <3> QED BY <1>1, <1>5, <2>1, <2>3, <3>1, <3>2
  <2> QED BY <2>2, <2>3
<1>7. {i \in 1..m : s[i] = l[i]} = 1..k
  BY <1>5, <1>6
<1>8. k < m => SumFunctionOnSet(s, 1..m) = n
  <2> SUFFICES ASSUME k < m PROVE SumFunctionOnSet(s, 1..m) = n
    OBVIOUS
  <2>1. k + 1 \in 0..m /\ m \in 0..m /\ k + 1 <= m
    BY <1>5
  <2>2. B(k + 1) <= B(m) /\ B(k + 1) \in Nat /\ B(m) \in Nat
    BY <1>1, <1>2, <2>1
  <2>3. ~(B(m) <= n)
    BY <1>5, <2>2
  <2> QED BY <1>1, <2>1, <2>3
<1> QED BY <1>5, <1>7, <1>8 DEF s

\* What add_permits makes of n permits and the queue q: nothing is lost, the
\* first k waiters have all they want, the others lack something, and permits
\* are only left over when nobody waits.
Handed(n, q, have, a) ==
    /\ a.rest \in Nat
    /\ a.given \in [Callers -> Nat]
    /\ SumFunctionOnSet(a.given, Callers) + a.rest = SumFunctionOnSet(have, Callers) + n
    /\ \A c \in Callers : (\A i \in 1..Len(q) : q[i] # c) => a.given[c] = have[c]
    /\ \E k \in 0..Len(q) :
          /\ a.queue = SubSeq(q, k + 1, Len(q))
          /\ a.ready = {q[i] : i \in 1..k}
          /\ \A i \in 1..k : a.given[q[i]] = want[q[i]]
          /\ \A i \in (k + 1)..Len(q) : a.given[q[i]] < want[q[i]]
          /\ k < Len(q) => a.rest = 0

LEMMA AddPermits ==
    ASSUME NEW n \in Nat, NEW q \in Seq(Callers), Distinct(q),
           NEW have \in [Callers -> Nat], want \in [Callers -> Nat],
           \A i \in 1..Len(q) : have[q[i]] < want[q[i]]
    PROVE  Handed(n, q, have, add_permits(n, q, have))
<1> DEFINE l == Lack(q, have)
           m == Len(q)
           s == Share(n, l, m)
           At(c) == {i \in 1..m : q[i] = c}
           given == [c \in Callers |-> have[c] + SumFunctionOnSet(s, At(c))]
           served == {i \in 1..m : s[i] = l[i]}
           a == add_permits(n, q, have)
<1>1. m \in Nat /\ DOMAIN q = 1..m /\ \A i \in 1..m : q[i] \in Callers
  BY LenProperties, ElementOfSeq
<1>2. \A i \in 1..m : l[i] = want[q[i]] - have[q[i]] /\ l[i] \in Nat \ {0}
  BY <1>1 DEF Lack
<1>3. a = [given |-> given, queue |-> SubSeq(q, Cardinality(served) + 1, m),
           ready |-> {q[i] : i \in served}, rest |-> n - SumFunctionOnSet(s, 1..m)]
  <2>1. l = [i \in 1..m |-> want[q[i]] - have[q[i]]]
    BY <1>1 DEF Lack
  <2> QED BY <1>1, <2>1, Zenon DEF add_permits, Share
<1>4. /\ a.given = given /\ a.queue = SubSeq(q, Cardinality(served) + 1, m)
      /\ a.ready = {q[i] : i \in served} /\ a.rest = n - SumFunctionOnSet(s, 1..m)
  <2> HIDE DEF given, served, s, a
  <2> QED BY <1>3
<1> HIDE DEF a
<1>5. /\ \A i \in 1..m : s[i] \in Nat /\ s[i] <= l[i]
      /\ \A i \in 0..m : SumFunctionOnSet(l, 1..i) \in Nat
      /\ \A i \in 0..m : SumFunctionOnSet(s, 1..i)
                            = IF SumFunctionOnSet(l, 1..i) <= n THEN SumFunctionOnSet(l, 1..i) ELSE n
  <2> HIDE DEF l
  <2> QED BY <1>1, <1>2, ShareFacts, ZenonT(60)
<1>6. PICK k \in 0..m : served = 1..k /\ (k < m => SumFunctionOnSet(s, 1..m) = n)
  <2> HIDE DEF l
  <2> QED BY <1>1, <1>2, ServedPrefix
<1>7. SumFunctionOnSet(given, Callers) = SumFunctionOnSet(have, Callers) + SumFunctionOnSet(s, 1..m)
  <2> HIDE DEF s
  <2> QED BY <1>5, GivenSum
<1>8. m \in 0..m /\ SumFunctionOnSet(s, 1..m) \in Nat /\ SumFunctionOnSet(s, 1..m) <= n
  <2> HIDE DEF s, l
  <2>1. m \in 0..m
    BY <1>1
  <2>2. SumFunctionOnSet(l, 1..m) \in Nat
        /\ SumFunctionOnSet(s, 1..m)
              = IF SumFunctionOnSet(l, 1..m) <= n THEN SumFunctionOnSet(l, 1..m) ELSE n
    BY <1>5, <2>1
  <2> QED BY <2>1, <2>2
<1>9. SumFunctionOnSet(have, Callers) \in Int
  <2>1. IsFiniteSet(Callers) /\ \A c \in Callers : have[c] \in Int
    BY PoolAssumption
  <2> QED BY <2>1, SumFacts
<1> HIDE DEF s
<1>10. ASSUME NEW c \in Callers, NEW i \in 1..m, q[i] = c
       PROVE  given[c] = have[c] + s[i]
  <2>1. At(c) = {i}
    BY <1>1, <1>10 DEF Distinct
  <2>2. IsFiniteSet({i}) /\ {i} \ {i} = {} /\ IsFiniteSet({}) /\ s[i] \in Int /\ i \in {i}
    <3>1. s[i] \in Int
      BY <1>5
    <3> QED BY <3>1, FS_Singleton, FS_EmptySet
  <2>3. SumFunctionOnSet(s, {i}) = s[i] + SumFunctionOnSet(s, {i} \ {i})
    BY <2>2, SumFacts
  <2>4. SumFunctionOnSet(s, {}) = 0
    BY FS_EmptySet, SumFacts
  <2>5. SumFunctionOnSet(s, {i} \ {i}) = 0
    BY <2>2, <2>4, Zenon
  <2>6. SumFunctionOnSet(s, At(c)) = SumFunctionOnSet(s, {i})
    BY <2>1, Zenon
  <2>7. given[c] = have[c] + SumFunctionOnSet(s, At(c))
    BY Zenon
  <2> HIDE DEF At, given
  <2> QED BY <2>2, <2>3, <2>5, <2>6, <2>7
<1>11. ASSUME NEW c \in Callers, \A i \in 1..m : q[i] # c
       PROVE  given[c] = have[c]
  <2>1. At(c) = {}
    BY <1>11
  <2>2. SumFunctionOnSet(s, {}) = 0
    BY FS_EmptySet, SumFacts
  <2>3. SumFunctionOnSet(s, At(c)) = 0
    BY <2>1, <2>2, Zenon
  <2>4. given[c] = have[c] + SumFunctionOnSet(s, At(c))
    BY Zenon
  <2> HIDE DEF At, given
  <2> QED BY <2>3, <2>4
<1> HIDE DEF At
<1>12. given \in [Callers -> Nat]
  <2>1. \A c \in Callers : given[c] \in Nat
    <3> HIDE DEF given
    <3>1. \A c \in Callers : have[c] \in Nat
      OBVIOUS
    <3>2. \A i \in 1..m : s[i] \in Nat
      BY <1>5
    <3> SUFFICES ASSUME NEW c \in Callers PROVE given[c] \in Nat
      OBVIOUS
    <3>3. CASE \E i \in 1..m : q[i] = c
      <4>1. PICK i \in 1..m : q[i] = c
        BY <3>3
      <4>2. given[c] = have[c] + s[i]
        BY <1>10, <4>1
      <4> QED BY <3>1, <3>2, <4>2
    <3>4. CASE \A i \in 1..m : q[i] # c
      BY <1>11, <3>1, <3>4
    <3> QED BY <3>3, <3>4
  <2> QED BY <2>1
<1> HIDE DEF given
<1>13. a.queue = SubSeq(q, k + 1, m) /\ a.ready = {q[i] : i \in 1..k}
  <2>1. Cardinality(1..k) = k
    BY <1>1, FS_Interval
  <2>2. Cardinality(served) = k
    BY <1>6, <2>1, Zenon
  <2>3. {q[i] : i \in served} = {q[i] : i \in 1..k}
    BY <1>6, Zenon
  <2> HIDE DEF served
  <2> QED BY <1>4, <2>2, <2>3, Zenon
<1>14. \A i \in 1..k : a.given[q[i]] = want[q[i]]
  <2> SUFFICES ASSUME NEW i \in 1..k PROVE a.given[q[i]] = want[q[i]]
    OBVIOUS
  <2>1. i \in 1..m /\ s[i] = l[i] /\ q[i] \in Callers
    BY <1>1, <1>6
  <2>2. given[q[i]] = have[q[i]] + s[i] /\ l[i] = want[q[i]] - have[q[i]]
    BY <1>2, <1>10, <2>1
  <2>3. have[q[i]] \in Nat /\ want[q[i]] \in Nat
    BY <2>1
  <2> HIDE DEF l
  <2> QED BY <1>4, <2>1, <2>2, <2>3
<1>15. \A i \in (k + 1)..m : a.given[q[i]] < want[q[i]]
  <2> SUFFICES ASSUME NEW i \in (k + 1)..m PROVE a.given[q[i]] < want[q[i]]
    OBVIOUS
  <2>1. i \in 1..m /\ s[i] # l[i] /\ q[i] \in Callers
    BY <1>1, <1>6
  <2>2. given[q[i]] = have[q[i]] + s[i] /\ l[i] = want[q[i]] - have[q[i]]
    BY <1>2, <1>10, <2>1
  <2>3. have[q[i]] \in Nat /\ want[q[i]] \in Nat /\ s[i] \in Nat /\ s[i] <= l[i]
    BY <1>5, <2>1
  <2> HIDE DEF l
  <2> QED BY <1>4, <2>1, <2>2, <2>3
<1>16. /\ a.rest \in Nat /\ (k < m => a.rest = 0)
       /\ SumFunctionOnSet(a.given, Callers) + a.rest = SumFunctionOnSet(have, Callers) + n
  BY <1>4, <1>6, <1>7, <1>8, <1>9
<1>17. a.given \in [Callers -> Nat] /\ \A c \in Callers : (\A i \in 1..m : q[i] # c) => a.given[c] = have[c]
  BY <1>4, <1>11, <1>12
<1> QED BY <1>13, <1>14, <1>15, <1>16, <1>17 DEF Handed, a

\* Taking a waiter out of a queue it is in, or of one it is not in.
LEMMA RemoveFirstFacts ==
    ASSUME NEW S, NEW q \in Seq(S), \A i, j \in 1..Len(q) : q[i] = q[j] => i = j, NEW c
    PROVE  /\ RemoveFirst(q, c) \in Seq(S)
           /\ \A i, j \in 1..Len(RemoveFirst(q, c)) :
                 RemoveFirst(q, c)[i] = RemoveFirst(q, c)[j] => i = j
           /\ {RemoveFirst(q, c)[i] : i \in 1..Len(RemoveFirst(q, c))}
                 = {q[i] : i \in 1..Len(q)} \ {c}
           /\ Len(RemoveFirst(q, c))
                 = IF \E i \in 1..Len(q) : q[i] = c THEN Len(q) - 1 ELSE Len(q)
<1> DEFINE r == RemoveFirst(q, c)
<1>1. Len(q) \in Nat /\ \A i \in 1..Len(q) : q[i] \in S
  BY LenProperties, ElementOfSeq
<1>2. CASE ~\E i \in 1..Len(q) : q[i] = c
  <2>1. r = q
    BY <1>2 DEF RemoveFirst
  <2> HIDE DEF r
  <2> QED BY <1>1, <1>2, <2>1 DEF r
<1>3. ASSUME NEW k \in 1..Len(q), q[k] = c
      PROVE  /\ r \in Seq(S) /\ Len(r) = Len(q) - 1
             /\ \A i \in 1..Len(r) : r[i] = IF i < k THEN q[i] ELSE q[i + 1]
  <2> DEFINE I == {i \in 1..Len(q) : q[i] = c}
  <2>1. I = {k}
    BY <1>3
  <2>2. Min({k}) = k
    <3>1. Min({k}) = CHOOSE x \in {k} : \A y \in {k} : x <= y
      BY DEF Min
    <3> QED BY <3>1
  <2>3. SelectInSeq(q, LAMBDA v : v = c) = Min(I)
    BY <2>1 DEF SelectInSeq
  <2>4. r = RemoveAt(q, k)
    BY <1>3, <2>1, <2>2, <2>3, Zenon DEF RemoveFirst
  <2> DEFINE x == SubSeq(q, 1, k - 1)
             y == SubSeq(q, k + 1, Len(q))
  <2>5. x \in Seq(S) /\ Len(x) = k - 1 /\ \A i \in 1..(k - 1) : x[i] = q[i]
    <3>1. 1 \in Int /\ k - 1 \in Int /\ \A i \in 1..(k - 1) : q[i] \in S
      BY <1>1
    <3> QED BY <3>1, SubSeqProperties
  <2>6. y \in Seq(S) /\ Len(y) = Len(q) - k /\ \A i \in 1..(Len(q) - k) : y[i] = q[k + i]
    <3>1. k + 1 \in Int /\ Len(q) \in Int /\ \A i \in (k + 1)..Len(q) : q[i] \in S
      BY <1>1
    <3> QED BY <1>1, <3>1, SubSeqProperties
  <2>7. r = x \o y
    BY <2>4 DEF RemoveAt
  <2> HIDE DEF x, y, r
  <2>8. /\ r \in Seq(S) /\ Len(r) = Len(x) + Len(y)
        /\ \A i \in 1..(Len(x) + Len(y)) : r[i] = IF i <= Len(x) THEN x[i] ELSE y[i - Len(x)]
    <3>1. x \in Seq(S) /\ y \in Seq(S)
      BY <2>5, <2>6
    <3>2. /\ x \o y \in Seq(S) /\ Len(x \o y) = Len(x) + Len(y)
          /\ \A i \in 1..(Len(x) + Len(y)) : (x \o y)[i] = IF i <= Len(x) THEN x[i] ELSE y[i - Len(x)]
      BY <3>1, ConcatProperties
    <3> QED BY <2>7, <3>2, Zenon
  <2>9. ASSUME NEW i \in 1..Len(r) PROVE r[i] = IF i < k THEN q[i] ELSE q[i + 1]
    <3>1. CASE i < k
      BY <1>1, <2>5, <2>6, <2>8, <3>1
    <3>2. CASE ~(i < k)
      <4>1. i - (k - 1) \in 1..(Len(q) - k) /\ k + (i - (k - 1)) = i + 1
        BY <1>1, <2>5, <2>6, <2>8, <3>2
      <4> QED BY <1>1, <2>5, <2>6, <2>8, <3>2, <4>1
    <3> QED BY <3>1, <3>2
  <2> QED BY <1>1, <2>5, <2>6, <2>8, <2>9
<1>4. CASE \E i \in 1..Len(q) : q[i] = c
  <2>1. PICK k \in 1..Len(q) : q[k] = c
    BY <1>4
  <2>2. /\ r \in Seq(S) /\ Len(r) = Len(q) - 1
        /\ \A i \in 1..Len(r) : r[i] = IF i < k THEN q[i] ELSE q[i + 1]
    BY <1>3, <2>1
  <2> HIDE DEF r
  <2>3. \A i, j \in 1..Len(r) : r[i] = r[j] => i = j
    BY <1>1, <2>2
  <2>4. \A i \in 1..Len(r) : \E j \in 1..Len(q) : q[j] = r[i] /\ r[i] # c
    BY <1>1, <2>1, <2>2
  <2>5. ASSUME NEW i \in 1..Len(q), q[i] # c PROVE \E j \in 1..Len(r) : r[j] = q[i]
    <3>1. CASE i < k
      BY <1>1, <2>2, <3>1
    <3>2. CASE ~(i < k)
      <4>1. i - 1 \in 1..Len(r) /\ ~(i - 1 < k) /\ (i - 1) + 1 = i
        BY <1>1, <2>1, <2>2, <2>5, <3>2
      <4> QED BY <2>2, <4>1
    <3> QED BY <3>1, <3>2
  <2>6. {r[i] : i \in 1..Len(r)} = {q[i] : i \in 1..Len(q)} \ {c}
    BY <2>4, <2>5
  <2> QED BY <1>4, <2>2, <2>3, <2>6 DEF r
<1> QED BY <1>2, <1>4

-----------------------------------------------------------------------------
(* The inductive invariant of the pool. *)

CallStages == {"idle", "admitted", "queued", "assigned", "held", "working", "settled"}

PoolTypeOK ==
    /\ free \in Nat
    /\ queue \in Seq(Callers)
    /\ want \in [Callers -> Nat]
    /\ got \in [Callers -> Nat]
    /\ stage \in [Callers -> CallStages]
    /\ gone \subseteq Callers
    /\ withdrawn \in Nat

\* The callers in the semaphore's queue.
Queued == {queue[i] : i \in 1..Len(queue)}

\* Everyone who waits for permits is in the queue, once.
QueueInv ==
    /\ Distinct(queue)
    /\ Queued = {c \in Callers : stage[c] = "queued"}

\* What a call in each stage has of what it wants.
CallOK(c) ==
    /\ stage[c] \in {"idle", "settled", "admitted"} => got[c] = 0
    /\ stage[c] = "admitted" => want[c] > 0
    /\ stage[c] = "queued" => got[c] < want[c]
    /\ stage[c] \in {"assigned", "held", "working"} => got[c] = want[c]
    /\ c \in Launchers => stage[c] \in {"idle", "held"}

CallInv == \A c \in Callers : CallOK(c)

\* Every permit is somewhere, and none lies idle while someone waits.
PermitInv ==
    /\ free + SumFunctionOnSet(got, Callers) + withdrawn = Capacity
    /\ queue # <<>> => free = 0

PoolInv == PoolTypeOK /\ QueueInv /\ CallInv /\ PermitInv

-----------------------------------------------------------------------------
(* The inductive invariant of the processes. *)

Owners == {"none", "spawning", "own", "settle", "drop", "settle_probe", "drop_probe", "leaked"}

ProcessTypeOK ==
    /\ owner \in [Launchers -> Owners]
    /\ child \in [Launchers -> {"none", "alive", "zombie", "reaped"}]
    /\ descendants \subseteq Launchers /\ killed \subseteq Launchers
    /\ group \subseteq Launchers /\ signalled \subseteq Launchers /\ reused \subseteq Launchers

\* Nothing is left of the child: it was reaped or never was, and nobody is in
\* its group.
Dead(p) == child[p] \in {"none", "reaped"} /\ p \notin descendants

\* A lease is kept exactly while there is an owner; an owner that has not begun
\* to settle has not reaped its child; a group number is given up, and may be
\* somebody else's, only when nothing is left.
OwnerOK(p) ==
    /\ stage[p] = IF owner[p] = "none" THEN "idle" ELSE "held"
    /\ owner[p] \in {"none", "spawning"} => Dead(p)
    /\ owner[p] = "own" => p \in group /\ child[p] \in {"alive", "zombie"}
    /\ owner[p] \notin {"none", "spawning"} /\ p \notin group => Dead(p)
    /\ p \in reused => Dead(p)

OwnerInv == (\A p \in Launchers : OwnerOK(p)) /\ ~struck

ProcessInv == PoolInv /\ ProcessTypeOK /\ OwnerInv

-----------------------------------------------------------------------------
(* Every step of the pool keeps its invariant. *)

LEMMA CallersFinite == IsFiniteSet(Callers) /\ Capacity \in Nat
BY PoolAssumption

\* A call that gives back what it has leaves the pool in order: its permits go
\* to the queue's head and on, and what is left over is free.
LEMMA Surrender ==
    ASSUME PoolInv, NEW c \in Callers, NEW s \in {"idle", "settled"},
           c \in Launchers => s = "idle",
           surrender(c, s),
           want' = [want EXCEPT ![c] = 0], withdrawn' = withdrawn,
           gone' \subseteq Callers
    PROVE  PoolInv' /\ stage'[c] = s /\ \A d \in Callers \ {c} : stage[d] # "queued" => stage'[d] = stage[d]
<1> DEFINE q == RemoveFirst(queue, c)
           have == [got EXCEPT ![c] = 0]
           a == add_permits(got[c], q, have)
<1>1. PoolTypeOK /\ QueueInv /\ CallInv /\ PermitInv
  BY DEF PoolInv
<1>2. got[c] \in Nat /\ have \in [Callers -> Nat] /\ want \in [Callers -> Nat]
      /\ have[c] = 0 /\ \A d \in Callers \ {c} : have[d] = got[d]
  BY <1>1 DEF PoolTypeOK
<1>3. /\ q \in Seq(Callers) /\ Distinct(q)
      /\ {q[i] : i \in 1..Len(q)} = Queued \ {c}
      /\ Len(q) = IF \E i \in 1..Len(queue) : queue[i] = c THEN Len(queue) - 1 ELSE Len(queue)
  <2>1. queue \in Seq(Callers) /\ \A i, j \in 1..Len(queue) : queue[i] = queue[j] => i = j
    BY <1>1 DEF PoolTypeOK, QueueInv, Distinct
  <2>2. /\ q \in Seq(Callers)
        /\ \A i, j \in 1..Len(q) : q[i] = q[j] => i = j
        /\ {q[i] : i \in 1..Len(q)} = {queue[i] : i \in 1..Len(queue)} \ {c}
        /\ Len(q) = IF \E i \in 1..Len(queue) : queue[i] = c THEN Len(queue) - 1 ELSE Len(queue)
    BY <2>1, RemoveFirstFacts, Zenon
  <2> HIDE DEF q
  <2> QED BY <2>2, Zenon DEF Distinct, Queued
<1> HIDE DEF q
<1>4. Len(q) \in Nat /\ \A i \in 1..Len(q) : q[i] \in Callers /\ q[i] # c /\ stage[q[i]] = "queued"
  <2>1. Len(q) \in Nat
    BY <1>3, LenProperties
  <2> QED BY <1>1, <1>3, <2>1 DEF QueueInv
<1>5. \A i \in 1..Len(q) : have[q[i]] < want[q[i]]
  BY <1>1, <1>2, <1>4 DEF CallInv, CallOK
<1>6. Handed(got[c], q, have, a)
  <2> HIDE DEF have
  <2> QED BY <1>2, <1>3, <1>5, AddPermits
<1>7. got' = a.given /\ queue' = a.queue /\ free' = free + a.rest
      /\ stage' = [d \in Callers |-> IF d = c THEN s ELSE IF d \in a.ready THEN "assigned" ELSE stage[d]]
  BY DEF surrender, q
<1> HIDE DEF a
<1>8. /\ a.rest \in Nat /\ a.given \in [Callers -> Nat]
      /\ SumFunctionOnSet(a.given, Callers) + a.rest = SumFunctionOnSet(have, Callers) + got[c]
      /\ \A d \in Callers : (\A i \in 1..Len(q) : q[i] # d) => a.given[d] = have[d]
  BY <1>6 DEF Handed
<1>9. PICK k \in 0..Len(q) :
          /\ a.queue = SubSeq(q, k + 1, Len(q))
          /\ a.ready = {q[i] : i \in 1..k}
          /\ \A i \in 1..k : a.given[q[i]] = want[q[i]]
          /\ \A i \in (k + 1)..Len(q) : a.given[q[i]] < want[q[i]]
          /\ k < Len(q) => a.rest = 0
  BY <1>6 DEF Handed
<1> HIDE DEF have
<1>10. /\ queue' \in Seq(Callers) /\ Len(queue') = Len(q) - k
       /\ \A i \in 1..(Len(q) - k) : queue'[i] = q[k + i]
  <2>1. k + 1 \in Int /\ Len(q) \in Int /\ \A i \in (k + 1)..Len(q) : q[i] \in Callers
    BY <1>4
  <2> QED BY <1>4, <1>7, <1>9, <2>1, SubSeqProperties
<1>11. PoolTypeOK'
  <2>1. free' \in Nat /\ want' \in [Callers -> Nat] /\ got' \in [Callers -> Nat] /\ withdrawn' \in Nat
    BY <1>1, <1>2, <1>7, <1>8 DEF PoolTypeOK
  <2>2. stage' \in [Callers -> CallStages]
    BY <1>1, <1>7 DEF PoolTypeOK, CallStages
  <2> QED BY <1>10, <2>1, <2>2 DEF PoolTypeOK
<1>12. \A i \in 1..Len(q) : stage'[q[i]] = IF i <= k THEN "assigned" ELSE "queued"
  <2> SUFFICES ASSUME NEW i \in 1..Len(q) PROVE stage'[q[i]] = IF i <= k THEN "assigned" ELSE "queued"
    OBVIOUS
  <2>1. q[i] \in a.ready <=> i <= k
    BY <1>3, <1>4, <1>9 DEF Distinct
  <2> QED BY <1>4, <1>7, <2>1
<1>13. stage'[c] = s /\ \A d \in Callers \ {c} : (\A i \in 1..Len(q) : q[i] # d) => stage'[d] = stage[d]
  BY <1>4, <1>7, <1>9
<1>14. \A d \in Callers \ {c} : (\A i \in 1..Len(q) : q[i] # d) => stage[d] # "queued"
  BY <1>1, <1>3 DEF QueueInv
<1>15. QueueInv'
  <2>1. Distinct(queue')
    <3> SUFFICES ASSUME NEW i \in 1..Len(queue'), NEW j \in 1..Len(queue'), queue'[i] = queue'[j]
                 PROVE  i = j
      BY DEF Distinct
    <3>1. k + i \in 1..Len(q) /\ k + j \in 1..Len(q) /\ q[k + i] = q[k + j]
      BY <1>4, <1>10
    <3>2. k + i = k + j
      BY <1>3, <3>1 DEF Distinct
    <3> QED BY <1>4, <1>10, <3>2
  <2>2. ASSUME NEW i \in 1..Len(queue') PROVE queue'[i] \in Callers /\ stage'[queue'[i]] = "queued"
    <3>1. k + i \in 1..Len(q) /\ ~(k + i <= k) /\ queue'[i] = q[k + i]
      BY <1>4, <1>10
    <3> QED BY <1>4, <1>12, <3>1
  <2>3. ASSUME NEW d \in Callers, stage'[d] = "queued" PROVE \E i \in 1..Len(queue') : queue'[i] = d
    <3>1. d # c
      BY <1>13, <2>3
    <3>2. PICK i \in 1..Len(q) : q[i] = d
      BY <1>13, <1>14, <2>3, <3>1
    <3>3. i - k \in 1..Len(queue') /\ k + (i - k) = i
      BY <1>4, <1>10, <1>12, <2>3, <3>2
    <3> QED BY <1>10, <3>2, <3>3
  <2>4. {queue'[i] : i \in 1..Len(queue')} = {d \in Callers : stage'[d] = "queued"}
    BY <2>2, <2>3
  <2> QED BY <2>1, <2>4 DEF QueueInv, Queued, Distinct
<1>16. CallInv'
  <2> SUFFICES ASSUME NEW d \in Callers PROVE CallOK(d)'
    BY DEF CallInv
  <2>1. CASE d = c
    <3>1. got'[c] = 0
      BY <1>2, <1>4, <1>7, <1>8
    <3> QED BY <1>13, <2>1, <3>1 DEF CallOK
  <2>2. CASE d # c /\ \A i \in 1..Len(q) : q[i] # d
    <3>1. got'[d] = got[d] /\ want'[d] = want[d] /\ stage'[d] = stage[d]
      BY <1>1, <1>2, <1>7, <1>8, <1>13, <2>2 DEF PoolTypeOK
    <3> QED BY <1>1, <3>1 DEF CallInv, CallOK
  <2>3. ASSUME NEW i \in 1..Len(q), q[i] = d PROVE CallOK(d)'
    <3>1. want'[d] = want[d] /\ d \notin Launchers
      BY <1>1, <1>2, <1>4, <2>3 DEF PoolTypeOK, CallInv, CallOK
    <3>2. CASE i <= k
      <4>1. stage'[d] = "assigned" /\ got'[d] = want[d]
        BY <1>7, <1>9, <1>12, <2>3, <3>2
      <4> QED BY <3>1, <4>1 DEF CallOK
    <3>3. CASE ~(i <= k)
      <4>1. i \in (k + 1)..Len(q)
        BY <1>4, <3>3
      <4>2. stage'[d] = "queued" /\ got'[d] < want[d]
        BY <1>7, <1>9, <1>12, <2>3, <3>3, <4>1
      <4> QED BY <3>1, <4>2 DEF CallOK
    <3> QED BY <3>2, <3>3
  <2> QED BY <2>1, <2>2, <2>3
<1>17. PermitInv'
  <2>1. SumFunctionOnSet(have, Callers) = SumFunctionOnSet(got, Callers) + have[c] - got[c]
    <3>1. \A d \in Callers : got[d] \in Int /\ have[d] \in Int
      BY <1>1, <1>2 DEF PoolTypeOK
    <3> QED BY <1>2, <3>1, CallersFinite, SumUpdate
  <2>2. SumFunctionOnSet(got, Callers) \in Int /\ SumFunctionOnSet(a.given, Callers) \in Int
    <3>1. \A d \in Callers : got[d] \in Int /\ a.given[d] \in Int
      BY <1>1, <1>8 DEF PoolTypeOK
    <3> QED BY <3>1, CallersFinite, SumFacts
  <2>3. SumFunctionOnSet(got', Callers) = SumFunctionOnSet(a.given, Callers)
    BY <1>7, Zenon
  <2>4. free' + SumFunctionOnSet(got', Callers) + withdrawn' = Capacity
    <3>1. free + SumFunctionOnSet(got, Callers) + withdrawn = Capacity /\ free \in Nat /\ withdrawn \in Nat
      BY <1>1 DEF PermitInv, PoolTypeOK
    <3>2. got[c] \in Nat /\ have[c] = 0 /\ free' = free + a.rest /\ a.rest \in Nat
      BY <1>2, <1>7, <1>8
    <3>3. SumFunctionOnSet(a.given, Callers) + a.rest = SumFunctionOnSet(got, Callers)
      BY <1>8, <2>1, <2>2, <3>2
    <3> QED BY <2>2, <2>3, <3>1, <3>2, <3>3
  <2>5. ASSUME queue' # <<>> PROVE free' = 0
    <3>1. Len(queue') # 0
      BY <1>10, <2>5, EmptySeq
    <3>2. k < Len(q) /\ Len(q) # 0
      BY <1>4, <1>10, <3>1
    <3>3. Len(queue) # 0
      <4>1. Len(queue) \in Nat
        BY <1>1, LenProperties DEF PoolTypeOK
      <4> QED BY <1>3, <1>4, <3>2, <4>1
    <3>4. queue # <<>>
      BY <3>3, EmptySeq
    <3> QED BY <1>1, <1>7, <1>9, <3>2, <3>4 DEF PermitInv
  <2> QED BY <2>4, <2>5 DEF PermitInv
<1>18. \A d \in Callers \ {c} : stage[d] # "queued" => stage'[d] = stage[d]
  BY <1>4, <1>13
<1> QED BY <1>11, <1>13, <1>15, <1>16, <1>17, <1>18 DEF PoolInv

\* The initial pool is in order.
LEMMA InitPoolInv == Init => PoolInv
<1> SUFFICES ASSUME Init PROVE PoolInv
  OBVIOUS
<1>1. PoolTypeOK
  BY CallersFinite, EmptySeq DEF Init, PoolTypeOK, CallStages
<1>2. Len(queue) = 0 /\ queue = <<>>
  BY EmptySeq DEF Init
<1>3. QueueInv
  <2>1. Queued = {}
    BY <1>2 DEF Queued
  <2> QED BY <1>2, <2>1 DEF Init, QueueInv, Distinct
<1>4. CallInv
  BY DEF Init, CallInv, CallOK
<1>5. PermitInv
  <2>1. \A c \in Callers : got[c] = 0
    BY DEF Init
  <2>2. SumFunctionOnSet(got, Callers) = 0
    <3> DEFINE P == {T \in SUBSET Callers : SumFunctionOnSet(got, T) = 0}
    <3>1. {} \in P
      BY FS_EmptySet, SumFacts
    <3>2. ASSUME NEW T \in SUBSET Callers, T # {}, \A x \in T : T \ {x} \in P
          PROVE  T \in P
      <4>1. PICK x \in T : TRUE
        BY <3>2
      <4>2. IsFiniteSet(T) /\ \A d \in T : got[d] \in Int
        BY <2>1, CallersFinite, FS_Subset
      <4>3. SumFunctionOnSet(got, T) = got[x] + SumFunctionOnSet(got, T \ {x})
        BY <4>1, <4>2, SumFacts
      <4>4. SumFunctionOnSet(got, T \ {x}) = 0
        BY <3>2, <4>1
      <4>5. SumFunctionOnSet(got, T) = 0
        BY <2>1, <4>1, <4>3, <4>4
      <4> QED BY <4>5
    <3>3. \A T \in SUBSET Callers : T \in P
      <4> HIDE DEF P
      <4> QED BY <3>1, <3>2, CallersFinite, SubsetInduction
    <3> QED BY <3>3
  <2> QED BY <1>2, <2>2, CallersFinite DEF Init, PermitInv
<1> QED BY <1>1, <1>3, <1>4, <1>5 DEF PoolInv

\* A step that leaves the permits and the queue alone, and moves nobody into or
\* out of the queue, keeps the queue and the permits in order.
LEMMA PoolFrame ==
    ASSUME PoolInv, queue' = queue, got' = got, free' = free, withdrawn' = withdrawn,
           stage' \in [Callers -> CallStages], gone' \subseteq Callers,
           want' \in [Callers -> Nat], CallInv',
           \A c \in Callers : stage'[c] = "queued" <=> stage[c] = "queued"
    PROVE  PoolInv'
<1>1. PoolTypeOK'
  BY DEF PoolInv, PoolTypeOK
<1>2. QueueInv'
  <2>1. {c \in Callers : stage'[c] = "queued"} = {c \in Callers : stage[c] = "queued"}
    OBVIOUS
  <2>2. Queued' = Queued /\ Distinct(queue)'
    BY DEF Queued, PoolInv, QueueInv, Distinct
  <2> QED BY <2>1, <2>2 DEF PoolInv, QueueInv
<1>3. PermitInv'
  BY DEF PoolInv, PermitInv
<1> QED BY <1>1, <1>2, <1>3 DEF PoolInv

LEMMA AcquireUnitsInv ==
    ASSUME PoolInv, NEW c \in Callers \ Launchers, NEW u, acquire_units(c, u) PROVE PoolInv'
<1>1. PoolTypeOK /\ CallInv
  BY DEF PoolInv
<1>2. u \in Nat /\ u > 0
  BY PoolAssumption DEF acquire_units
<1>3. stage' \in [Callers -> CallStages] /\ want' \in [Callers -> Nat]
  BY <1>1, <1>2 DEF acquire_units, PoolTypeOK, CallStages
<1>4. CallInv'
  BY <1>1, <1>2 DEF acquire_units, PoolTypeOK, CallInv, CallOK
<1>5. \A d \in Callers : stage'[d] = "queued" <=> stage[d] = "queued"
  BY <1>1 DEF acquire_units, PoolTypeOK
<1>6. queue' = queue /\ got' = got /\ free' = free /\ withdrawn' = withdrawn /\ gone' \subseteq Callers
  BY <1>1 DEF acquire_units, PoolTypeOK
<1> QED BY <1>3, <1>4, <1>5, <1>6, PoolFrame

LEMMA ClaimInv == ASSUME PoolInv, NEW c \in Callers, claim(c) PROVE PoolInv'
<1>1. PoolTypeOK /\ CallInv
  BY DEF PoolInv
<1>2. stage' \in [Callers -> CallStages] /\ want' \in [Callers -> Nat]
  BY <1>1 DEF claim, pool, PoolTypeOK, CallStages
<1>3. CallInv'
  BY <1>1 DEF claim, pool, PoolTypeOK, CallInv, CallOK
<1>4. \A d \in Callers : stage'[d] = "queued" <=> stage[d] = "queued"
  BY <1>1 DEF claim, PoolTypeOK
<1>5. queue' = queue /\ got' = got /\ free' = free /\ withdrawn' = withdrawn /\ gone' \subseteq Callers
  BY <1>1 DEF claim, pool, PoolTypeOK
<1> QED BY <1>2, <1>3, <1>4, <1>5, PoolFrame

LEMMA DropCallerInv == ASSUME PoolInv, NEW c \in Callers, drop_caller(c) PROVE PoolInv'
<1>1. PoolTypeOK /\ CallInv
  BY DEF PoolInv
<1>2. stage' \in [Callers -> CallStages] /\ want' \in [Callers -> Nat]
  BY <1>1 DEF drop_caller, pool, PoolTypeOK, CallStages
<1>3. CallInv'
  BY <1>1 DEF drop_caller, pool, PoolTypeOK, CallInv, CallOK
<1>4. \A d \in Callers : stage'[d] = "queued" <=> stage[d] = "queued"
  BY <1>1 DEF drop_caller, PoolTypeOK
<1>5. queue' = queue /\ got' = got /\ free' = free /\ withdrawn' = withdrawn /\ gone' \subseteq Callers
  BY <1>1 DEF drop_caller, pool, PoolTypeOK
<1> QED BY <1>2, <1>3, <1>4, <1>5, PoolFrame

LEMMA JoinInv == ASSUME PoolInv, NEW c \in Callers, join(c) PROVE PoolInv'
<1>1. PoolTypeOK /\ CallInv
  BY DEF PoolInv
<1>2. stage' \in [Callers -> CallStages] /\ want' \in [Callers -> Nat]
  BY <1>1 DEF join, pool, PoolTypeOK, CallStages
<1>3. CallInv'
  BY <1>1 DEF join, pool, PoolTypeOK, CallInv, CallOK
<1>4. \A d \in Callers : stage'[d] = "queued" <=> stage[d] = "queued"
  BY <1>1 DEF join, PoolTypeOK
<1>5. queue' = queue /\ got' = got /\ free' = free /\ withdrawn' = withdrawn /\ gone' \subseteq Callers
  BY <1>1 DEF join, pool, PoolTypeOK
<1> QED BY <1>2, <1>3, <1>4, <1>5, PoolFrame

\* A step that moves permits of one caller: what the others have is unchanged,
\* and the free, the assigned and the withdrawn permits add up as before.
LEMMA PermitsMove ==
    ASSUME PoolInv, NEW c \in Callers, NEW g \in Nat,
           got' = [got EXCEPT ![c] = g],
           free' + g + withdrawn' = free + got[c] + withdrawn,
           free' \in Int, withdrawn' \in Int
    PROVE  free' + SumFunctionOnSet(got', Callers) + withdrawn' = Capacity
<1> DEFINE h == [got EXCEPT ![c] = g]
<1>1. \A d \in Callers : got[d] \in Int /\ h[d] \in Int
  BY DEF PoolInv, PoolTypeOK
<1>2. h[c] = g /\ \A d \in Callers \ {c} : got[d] = h[d]
  BY DEF PoolInv, PoolTypeOK
<1>3. SumFunctionOnSet(got', Callers) = SumFunctionOnSet(h, Callers)
  BY Zenon
<1> HIDE DEF h
<1>4. SumFunctionOnSet(h, Callers) = SumFunctionOnSet(got, Callers) + h[c] - got[c]
  BY <1>1, <1>2, CallersFinite, SumUpdate
<1>5. SumFunctionOnSet(got, Callers) \in Int
  BY <1>1, CallersFinite, SumFacts
<1>6. free + SumFunctionOnSet(got, Callers) + withdrawn = Capacity /\ free \in Nat
      /\ withdrawn \in Nat /\ got[c] \in Nat
  BY DEF PoolInv, PermitInv, PoolTypeOK
<1> QED BY <1>2, <1>3, <1>4, <1>5, <1>6

LEMMA PollFirstInv ==
    ASSUME PoolInv, NEW c \in Callers, poll_first(c) PROVE PoolInv'
<1> DEFINE n == Min({free, want[c]})
<1>1. PoolTypeOK /\ QueueInv /\ CallInv /\ PermitInv
  BY DEF PoolInv
<1>2. /\ free \in Nat /\ want[c] \in Nat /\ want[c] > 0 /\ got[c] = 0 /\ withdrawn \in Nat
      /\ c \notin Launchers /\ queue \in Seq(Callers) /\ Len(queue) \in Nat
  BY <1>1, LenProperties DEF PoolTypeOK, CallInv, CallOK, poll_first
<1>3. n = IF free <= want[c] THEN free ELSE want[c]
  BY <1>2, MinMax
<1>4. /\ stage[c] = "admitted" /\ free' = free - n /\ got' = [got EXCEPT ![c] = n]
      /\ want' = want /\ gone' = gone /\ withdrawn' = withdrawn
      /\ n = want[c] => stage' = [stage EXCEPT ![c] = "assigned"] /\ queue' = queue
      /\ n # want[c] => stage' = [stage EXCEPT ![c] = "queued"] /\ queue' = Append(queue, c)
  BY DEF poll_first
<1> HIDE DEF n
<1>5. n \in Nat /\ n <= want[c] /\ free - n \in Nat /\ (n # want[c] => free - n = 0)
  BY <1>2, <1>3
<1>6. n # want[c] => /\ queue' \in Seq(Callers) /\ Len(queue') = Len(queue) + 1
                     /\ \A i \in 1..Len(queue) : queue'[i] = queue[i]
                     /\ queue'[Len(queue) + 1] = c
  BY <1>2, <1>4, AppendProperties, SMTT(60)
<1>7. PoolTypeOK'
  <2>1. queue' \in Seq(Callers)
    BY <1>2, <1>4, <1>6
  <2> QED BY <1>1, <1>4, <1>5, <2>1 DEF PoolTypeOK, CallStages
<1>8. QueueInv'
  <2>1. CASE n = want[c]
    <3>1. {d \in Callers : stage'[d] = "queued"} = {d \in Callers : stage[d] = "queued"}
      BY <1>1, <1>4, <2>1 DEF PoolTypeOK
    <3>2. Queued' = Queued /\ Distinct(queue)'
      BY <1>1, <1>4, <2>1 DEF Queued, QueueInv, Distinct
    <3> QED BY <1>1, <3>1, <3>2 DEF QueueInv
  <2>2. CASE n # want[c]
    <3>1. \A i \in 1..Len(queue) : queue[i] # c /\ queue[i] \in Callers /\ stage[queue[i]] = "queued"
      BY <1>1, <1>4 DEF QueueInv, Queued
    <3>2. Distinct(queue')
      <4> SUFFICES ASSUME NEW i \in 1..Len(queue'), NEW j \in 1..Len(queue'), queue'[i] = queue'[j]
                   PROVE  i = j
        BY DEF Distinct
      <4>1. i \in 1..Len(queue) \/ i = Len(queue) + 1
        BY <1>2, <1>6, <2>2
      <4>2. j \in 1..Len(queue) \/ j = Len(queue) + 1
        BY <1>2, <1>6, <2>2
      <4> QED BY <1>1, <1>6, <2>2, <3>1, <4>1, <4>2 DEF QueueInv, Distinct
    <3>3. \A i \in 1..Len(queue') : queue'[i] \in Callers /\ stage'[queue'[i]] = "queued"
      <4> SUFFICES ASSUME NEW i \in 1..Len(queue') PROVE queue'[i] \in Callers /\ stage'[queue'[i]] = "queued"
        OBVIOUS
      <4>1. i \in 1..Len(queue) \/ i = Len(queue) + 1
        BY <1>2, <1>6, <2>2
      <4>2. stage'[c] = "queued" /\ \A d \in Callers \ {c} : stage'[d] = stage[d]
        BY <1>1, <1>4, <2>2 DEF PoolTypeOK
      <4>3. CASE i \in 1..Len(queue)
        BY <1>6, <2>2, <3>1, <4>2, <4>3
      <4>4. CASE i = Len(queue) + 1
        BY <1>6, <2>2, <4>2, <4>4
      <4> QED BY <4>1, <4>3, <4>4
    <3>4. ASSUME NEW d \in Callers, stage'[d] = "queued" PROVE \E i \in 1..Len(queue') : queue'[i] = d
      <4>1. CASE d = c
        <5>1. Len(queue) + 1 \in 1..Len(queue')
          BY <1>2, <1>6, <2>2
        <5> QED BY <1>6, <2>2, <4>1, <5>1
      <4>2. CASE d # c
        <5>1. stage[d] = "queued"
          BY <1>1, <1>4, <2>2, <3>4, <4>2 DEF PoolTypeOK
        <5>2. PICK i \in 1..Len(queue) : queue[i] = d
          BY <1>1, <5>1 DEF QueueInv, Queued
        <5>3. i \in 1..Len(queue')
          BY <1>2, <1>6, <2>2
        <5> QED BY <1>6, <2>2, <5>2, <5>3
      <4> QED BY <4>1, <4>2
    <3>5. {queue'[i] : i \in 1..Len(queue')} = {d \in Callers : stage'[d] = "queued"}
      BY <3>3, <3>4
    <3> QED BY <3>2, <3>5 DEF QueueInv, Queued, Distinct
  <2> QED BY <2>1, <2>2
<1>9. CallInv'
  <2> SUFFICES ASSUME NEW d \in Callers PROVE CallOK(d)'
    BY DEF CallInv
  <2>1. CASE d = c
    <3>1. got'[c] = n /\ want'[c] = want[c] /\ stage'[c] = IF n = want[c] THEN "assigned" ELSE "queued"
      BY <1>1, <1>4 DEF PoolTypeOK
    <3> QED BY <1>2, <1>5, <2>1, <3>1 DEF CallOK
  <2>2. CASE d # c
    <3>1. got'[d] = got[d] /\ want'[d] = want[d] /\ stage'[d] = stage[d]
      BY <1>1, <1>4, <2>2 DEF PoolTypeOK
    <3> QED BY <1>1, <3>1 DEF CallInv, CallOK
  <2> QED BY <2>1, <2>2
<1>10. PermitInv'
  <2>1. free' + SumFunctionOnSet(got', Callers) + withdrawn' = Capacity
    <3>1. free' + n + withdrawn' = free + got[c] + withdrawn /\ free' \in Int /\ withdrawn' \in Int
      BY <1>2, <1>4, <1>5
    <3> QED BY <1>4, <1>5, <3>1, PermitsMove
  <2>2. queue' # <<>> => free' = 0
    <3>1. CASE n = want[c]
      BY <1>1, <1>2, <1>3, <1>4, <1>5, <3>1 DEF PermitInv
    <3>2. CASE n # want[c]
      BY <1>4, <1>5, <3>2
    <3> QED BY <3>1, <3>2
  <2> QED BY <2>1, <2>2 DEF PermitInv
<1> QED BY <1>7, <1>8, <1>9, <1>10 DEF PoolInv

\* Taking permits that are free, or forgetting permits that are held.
LEMMA PermitsTakenInv ==
    ASSUME PoolInv, NEW c \in Callers, try_acquire(c) \/ quarantine(c),
           try_acquire(c) => c \in Launchers
    PROVE  PoolInv'
<1>1. PoolTypeOK /\ QueueInv /\ CallInv /\ PermitInv
  BY DEF PoolInv
<1>2. /\ got[c] \in Nat /\ free \in Nat /\ withdrawn \in Nat
      /\ queue' = queue /\ gone' = gone
      /\ stage[c] # "queued" /\ stage'[c] # "queued" /\ \A d \in Callers \ {c} : stage'[d] = stage[d]
  BY <1>1 DEF PoolTypeOK, try_acquire, quarantine
<1>3. PoolTypeOK'
  <2>1. CASE try_acquire(c)
    BY <1>1, <1>2, <2>1 DEF PoolTypeOK, try_acquire, CallStages
  <2>2. CASE quarantine(c)
    BY <1>1, <1>2, <2>2 DEF PoolTypeOK, quarantine, CallStages
  <2> QED BY <2>1, <2>2
<1>4. QueueInv'
  <2>1. {d \in Callers : stage'[d] = "queued"} = {d \in Callers : stage[d] = "queued"}
    BY <1>2
  <2>2. Queued' = Queued /\ Distinct(queue)'
    BY <1>1, <1>2 DEF Queued, QueueInv, Distinct
  <2> QED BY <1>1, <2>1, <2>2 DEF QueueInv
<1>5. CallInv'
  BY <1>1 DEF PoolTypeOK, CallInv, CallOK, try_acquire, quarantine
<1>6. CASE try_acquire(c)
  <2>1. got[c] = 0 /\ free' = free - 1 /\ got' = [got EXCEPT ![c] = 1] /\ withdrawn' = withdrawn
    BY <1>1, <1>6 DEF CallInv, CallOK, try_acquire
  <2>2. free' + 1 + withdrawn' = free + got[c] + withdrawn /\ free' \in Int /\ withdrawn' \in Int
    BY <1>2, <2>1
  <2>3. free' + SumFunctionOnSet(got', Callers) + withdrawn' = Capacity
    BY <2>1, <2>2, PermitsMove
  <2>4. queue' = <<>>
    BY <1>1, <1>2, <1>6 DEF PermitInv, try_acquire
  <2> QED BY <1>3, <1>4, <1>5, <2>3, <2>4 DEF PoolInv, PermitInv
<1>7. CASE quarantine(c)
  <2>1. free' = free /\ got' = [got EXCEPT ![c] = 0] /\ withdrawn' = withdrawn + got[c]
    BY <1>7 DEF quarantine
  <2>2. free' + 0 + withdrawn' = free + got[c] + withdrawn /\ free' \in Int /\ withdrawn' \in Int
    BY <1>2, <2>1
  <2>3. free' + SumFunctionOnSet(got', Callers) + withdrawn' = Capacity
    BY <2>1, <2>2, PermitsMove
  <2>4. queue' # <<>> => free' = 0
    BY <1>1, <1>2, <2>1 DEF PermitInv
  <2> QED BY <1>3, <1>4, <1>5, <2>3, <2>4 DEF PoolInv, PermitInv
<1> QED BY <1>6, <1>7

\* A call that gives up, a lease that is dropped and a worker that ends all
\* surrender what they have.
LEMMA GiveBackInv ==
    ASSUME PoolInv, NEW c \in Callers,
           give_up(c) \/ release(c) \/ (c \notin Launchers /\ worker_ends(c))
    PROVE  /\ PoolInv'
           /\ stage'[c] \in {"idle", "settled"} /\ (release(c) => stage'[c] = "idle")
           /\ \A d \in Callers \ {c} : stage[d] # "queued" => stage'[d] = stage[d]
<1>1. gone \subseteq Callers
  BY DEF PoolInv, PoolTypeOK
<1>2. CASE give_up(c) \/ release(c)
  <2>1. surrender(c, "idle") /\ want' = [want EXCEPT ![c] = 0] /\ withdrawn' = withdrawn /\ gone' = gone
    BY <1>2 DEF give_up, release
  <2> QED BY <1>1, <2>1, Surrender
<1>3. CASE c \notin Launchers /\ worker_ends(c)
  <2>1. PICK s \in {"idle", "settled"} : surrender(c, s)
    BY <1>3 DEF worker_ends
  <2>2. want' = [want EXCEPT ![c] = 0] /\ withdrawn' = withdrawn /\ gone' \subseteq Callers
    BY <1>1, <1>3 DEF worker_ends
  <2>3. ~release(c)
    BY <1>3 DEF worker_ends, release
  <2> QED BY <1>3, <2>1, <2>2, <2>3, Surrender
<1> QED BY <1>2, <1>3

\* Every step of the pool keeps the invariant.
LEMMA NextPoolInv == PoolInv /\ [Next]_vars => PoolInv'
<1> SUFFICES ASSUME PoolInv, [Next]_vars PROVE PoolInv'
  OBVIOUS
<1>1. ASSUME NEW c \in Callers, Admission(c) PROVE PoolInv'
  <2>1. CASE poll_first(c)
    BY <2>1, PollFirstInv
  <2>2. CASE claim(c)
    BY <2>2, ClaimInv
  <2>3. CASE cancelled(c) \/ deadline(c)
    BY <2>3, GiveBackInv DEF cancelled, deadline
  <2> QED BY <1>1, <2>1, <2>2, <2>3 DEF Admission
<1>2. ASSUME NEW c \in Runners, Runner(c) PROVE PoolInv'
  <2>1. c \in Callers \ Launchers
    BY PoolAssumption DEF Callers
  <2>2. CASE acquire_units(c, 1)
    BY <2>1, <2>2, AcquireUnitsInv
  <2>3. CASE drop_caller(c)
    BY <2>1, <2>3, DropCallerInv
  <2>4. CASE join(c)
    BY <2>1, <2>4, JoinInv
  <2>5. CASE worker_ends(c)
    BY <2>1, <2>5, GiveBackInv
  <2> QED BY <1>2, <2>2, <2>3, <2>4, <2>5 DEF Runner
<1>3. ASSUME NEW c \in Requesters, Requester(c) PROVE PoolInv'
  <2>1. c \in Callers \ Launchers
    BY PoolAssumption DEF Callers
  <2>2. ASSUME NEW u \in Demands, acquire_units(c, u) PROVE PoolInv'
    BY <2>1, <2>2, AcquireUnitsInv
  <2>3. CASE release(c)
    BY <2>1, <2>3, GiveBackInv
  <2>4. CASE quarantine(c)
    <3>1. ~try_acquire(c)
      BY <2>4 DEF quarantine, try_acquire
    <3> QED BY <2>1, <2>4, <3>1, PermitsTakenInv
  <2> QED BY <1>3, <2>2, <2>3, <2>4 DEF Requester, Request
<1>4. ASSUME NEW c \in Launchers, Launcher(c) PROVE PoolInv'
  <2>1. c \in Callers
    BY DEF Callers
  <2> QED BY <1>4, <2>1, PermitsTakenInv, GiveBackInv DEF Launcher
<1>5. CASE UNCHANGED vars
  BY <1>5 DEF vars, PoolInv, PoolTypeOK, QueueInv, Queued, Distinct, CallInv, CallOK, PermitInv
<1> QED BY <1>1, <1>2, <1>3, <1>4, <1>5 DEF Next, Waiter, Run, Own, Launch

\* What is leased out is part of what there is.
LEMMA PoolInvAccounts == PoolInv => PermitsAccounted
<1> SUFFICES ASSUME PoolInv PROVE PermitsAccounted
  OBVIOUS
<1>1. /\ free + SumFunctionOnSet(got, Callers) + withdrawn = Capacity
      /\ queue # <<>> => free = 0
  BY DEF PoolInv, PermitInv
<1>2. Leased \in SUBSET Callers /\ IsFiniteSet(Leased) /\ \A c \in Leased : want[c] = got[c]
  <2>1. Leased \in SUBSET Callers
    BY DEF Leased
  <2> QED BY <2>1, CallersFinite, FS_Subset DEF PoolInv, CallInv, CallOK, Leased
<1>3. SumFunctionOnSet(want, Leased) = SumFunctionOnSet(got, Leased)
  BY <1>2, SumSame
<1>4. /\ \A c \in Callers : got[c] \in Nat
      /\ free \in Nat /\ withdrawn \in Nat
  BY DEF PoolInv, PoolTypeOK
<1>5. SumFunctionOnSet(got, Leased) <= SumFunctionOnSet(got, Callers)
  BY <1>2, <1>4, CallersFinite, SumPart
<1>6. SumFunctionOnSet(got, Leased) \in Int /\ SumFunctionOnSet(got, Callers) \in Int
  <2>1. \A c \in Callers : got[c] \in Int
    BY <1>4
  <2> QED BY <1>2, <2>1, CallersFinite, SumFacts
<1> QED BY <1>1, <1>3, <1>4, <1>5, <1>6, CallersFinite DEF PermitsAccounted

\* In every pool, whoever calls, gives up, returns, forgets or outlives a
\* lease, every permit is free, assigned, leased or withdrawn, none is free
\* while somebody queues, and the leases never exceed what is not withdrawn.
THEOREM PermitsAlwaysAccounted == Spec => []PermitsAccounted
<1>1. Init => PoolInv
  BY InitPoolInv
<1>2. PoolInv /\ [Next]_vars => PoolInv'
  BY NextPoolInv
<1>3. PoolInv => PermitsAccounted
  BY PoolInvAccounts
<1> QED BY <1>1, <1>2, <1>3, PTL DEF Spec

-----------------------------------------------------------------------------
(* Processes. *)

LEMMA LaunchersCall == Launchers \subseteq Callers
BY DEF Callers

\* Every step of an owner is a step of the pool, by its lease, or leaves the
\* pool alone.
LEMMA ProcessStepsPool == [ProcessNext]_allVars => [Next]_vars
<1> SUFFICES ASSUME [ProcessNext]_allVars PROVE [Next]_vars
  OBVIOUS
<1>1. CASE (Waiter \/ Run \/ Own) /\ UNCHANGED procs
  BY <1>1 DEF Next
<1>2. ASSUME NEW p \in Launchers, Owner(p) PROVE [Next]_vars
  <2>1. CASE spawn(p)
    BY <2>1 DEF spawn, Next, Launch, Launcher
  <2>2. CASE spawn_fails(p)
    BY <2>2 DEF spawn_fails, Next, Launch, Launcher
  <2>3. CASE probe(p)
    BY <2>3 DEF probe, Next, Launch, Launcher
  <2>4. CASE spawned(p) \/ settle(p) \/ drop(p) \/ try_wait(p) \/ leak(p)
    BY <2>4 DEF spawned, settle, drop, try_wait, leak
  <2> QED BY <1>2, <2>1, <2>2, <2>3, <2>4 DEF Owner
<1>3. ASSUME NEW p \in Launchers, System(p) PROVE [Next]_vars
  BY <1>3 DEF System, child_exits, forks, descendants_exit, reuse
<1>4. CASE UNCHANGED allVars
  BY <1>4 DEF allVars
<1> QED BY <1>1, <1>2, <1>3, <1>4 DEF ProcessNext

\* A pool whose launchers own processes is a pool.
THEOREM ProcessesImplementPool == ProcessSpec => Spec
<1>1. ProcessInit => Init
  BY DEF ProcessInit
<1>2. [ProcessNext]_allVars => [Next]_vars
  BY ProcessStepsPool
<1> QED BY <1>1, <1>2, PTL DEF ProcessSpec, Spec

\* Nothing the other callers of the pool do touches the lease of a launcher.
LEMMA OthersKeepLeases ==
    ASSUME PoolInv, Waiter \/ Run \/ Own, NEW p \in Launchers
    PROVE  stage'[p] = stage[p]
<1>1. p \in Callers /\ stage[p] \in {"idle", "held"} /\ stage \in [Callers -> CallStages]
  BY LaunchersCall DEF PoolInv, CallInv, CallOK, PoolTypeOK
<1>2. ASSUME NEW c \in Callers, Admission(c) PROVE stage'[p] = stage[p]
  <2>1. c # p
    BY <1>1, <1>2 DEF Admission, poll_first, claim, cancelled, deadline, give_up, Waiting
  <2>2. CASE poll_first(c)
    BY <1>1, <2>1, <2>2 DEF poll_first
  <2>3. CASE claim(c)
    BY <1>1, <2>1, <2>3 DEF claim
  <2>4. CASE give_up(c)
    BY <1>1, <2>1, <2>4, GiveBackInv
  <2> QED BY <1>2, <2>2, <2>3, <2>4 DEF Admission, cancelled, deadline
<1>3. ASSUME NEW c \in Runners, Runner(c) PROVE stage'[p] = stage[p]
  <2>1. c # p /\ c \in Callers /\ c \notin Launchers
    BY PoolAssumption DEF Callers
  <2>2. CASE worker_ends(c)
    BY <1>1, <2>1, <2>2, GiveBackInv
  <2>3. CASE acquire_units(c, 1) \/ drop_caller(c) \/ join(c)
    BY <1>1, <2>1, <2>3 DEF acquire_units, drop_caller, join
  <2> QED BY <1>3, <2>2, <2>3 DEF Runner
<1>4. ASSUME NEW c \in Requesters, Requester(c) PROVE stage'[p] = stage[p]
  <2>1. c # p /\ c \in Callers /\ c \notin Launchers
    BY PoolAssumption DEF Callers
  <2>2. CASE release(c)
    BY <1>1, <2>1, <2>2, GiveBackInv
  <2>3. CASE Request(c) \/ quarantine(c)
    BY <1>1, <2>1, <2>3 DEF Request, acquire_units, quarantine
  <2> QED BY <1>4, <2>2, <2>3 DEF Requester
<1> QED BY <1>2, <1>3, <1>4 DEF Waiter, Run, Own

\* A launcher's release ends its own lease and nobody else's.
LEMMA ReleaseKeepsOthers ==
    ASSUME PoolInv, NEW p \in Launchers, release(p)
    PROVE  stage'[p] = "idle" /\ \A o \in Launchers \ {p} : stage'[o] = stage[o]
<1>1. p \in Callers /\ \A o \in Launchers : o \in Callers /\ stage[o] # "queued"
  BY LaunchersCall DEF PoolInv, CallInv, CallOK
<1> QED BY <1>1, GiveBackInv

\* What one launcher's step does to another launcher's process: nothing.
LEMMA OwnerFrame ==
    ASSUME OwnerInv, NEW p \in Launchers, NEW o \in Launchers, o # p,
           stage'[o] = stage[o], owner'[o] = owner[o], child'[o] = child[o],
           o \in group' <=> o \in group,
           o \in descendants' <=> o \in descendants,
           o \in reused' <=> o \in reused
    PROVE  OwnerOK(o)'
BY DEF OwnerInv, OwnerOK, Dead

LEMMA InitProcessInv == ProcessInit => ProcessInv
<1> SUFFICES ASSUME ProcessInit PROVE ProcessInv
  OBVIOUS
<1>1. PoolInv
  BY InitPoolInv DEF ProcessInit
<1>2. ProcessTypeOK /\ OwnerInv
  BY LaunchersCall DEF ProcessInit, Init, ProcessTypeOK, Owners, OwnerInv, OwnerOK, Dead
<1> QED BY <1>1, <1>2 DEF ProcessInv

\* The lease of p is taken before its child is started, and dropped when it
\* cannot be.
LEMMA SpawnInv ==
    ASSUME ProcessInv, NEW p \in Launchers, spawn(p) \/ spawned(p) \/ spawn_fails(p)
    PROVE  ProcessTypeOK' /\ OwnerInv'
<1>1. PoolInv /\ ProcessTypeOK /\ OwnerInv /\ OwnerOK(p) /\ p \in Callers
      /\ stage \in [Callers -> CallStages]
  BY LaunchersCall DEF ProcessInv, OwnerInv, PoolInv, PoolTypeOK
<1>2. ProcessTypeOK'
  BY <1>1 DEF ProcessTypeOK, Owners, spawn, spawned, spawn_fails, Goto, os
<1>3. struck' = struck
  BY DEF spawn, spawned, spawn_fails, os
<1>4. ASSUME NEW o \in Launchers, o # p PROVE OwnerOK(o)'
  <2>1. stage'[o] = stage[o]
    <3>1. CASE spawn(p)
      BY <1>1, <1>4, <3>1, LaunchersCall DEF spawn, try_acquire
    <3>2. CASE spawned(p)
      BY <3>2 DEF spawned, vars
    <3>3. CASE spawn_fails(p)
      BY <1>1, <1>4, <3>3, ReleaseKeepsOthers DEF spawn_fails
    <3> QED BY <3>1, <3>2, <3>3
  <2>2. /\ owner'[o] = owner[o] /\ child'[o] = child[o]
        /\ o \in group' <=> o \in group
        /\ o \in descendants' <=> o \in descendants
        /\ o \in reused' <=> o \in reused
    BY <1>1, <1>4 DEF ProcessTypeOK, spawn, spawned, spawn_fails, Goto, os
  <2> QED BY <1>1, <1>4, <2>1, <2>2, OwnerFrame
<1>5. OwnerOK(p)'
  <2>1. CASE spawn(p)
    BY <1>1, <2>1 DEF ProcessTypeOK, OwnerOK, Dead, spawn, try_acquire, Goto, os
  <2>2. CASE spawned(p)
    BY <1>1, <2>2 DEF ProcessTypeOK, OwnerOK, Dead, spawned, Goto, vars
  <2>3. CASE spawn_fails(p)
    BY <1>1, <2>3, ReleaseKeepsOthers DEF ProcessTypeOK, OwnerOK, Dead, spawn_fails, Goto, os
  <2> QED BY <2>1, <2>2, <2>3
<1> QED BY <1>1, <1>2, <1>3, <1>4, <1>5 DEF OwnerInv

\* The group is signalled only while the child has not been reaped, so its
\* number is still the child's; the lease ends only when nothing is left.
LEMMA SettleInv ==
    ASSUME ProcessInv, NEW p \in Launchers,
           settle(p) \/ drop(p) \/ try_wait(p) \/ probe(p) \/ leak(p)
    PROVE  ProcessTypeOK' /\ OwnerInv'
<1>1. PoolInv /\ ProcessTypeOK /\ OwnerInv /\ OwnerOK(p) /\ p \in Callers
  BY LaunchersCall DEF ProcessInv, OwnerInv
<1>2. CASE settle(p) \/ drop(p)
  <2>1. p \notin reused
    BY <1>1, <1>2 DEF OwnerOK, Dead, settle, drop
  <2>2. ~struck' /\ child' = child /\ descendants' = descendants /\ reused' = reused
        /\ group' = group /\ stage' = stage /\ signalled' \subseteq Launchers /\ killed' \subseteq Launchers
    BY <1>1, <1>2, <2>1 DEF OwnerInv, ProcessTypeOK, settle, drop, signal, os, vars
  <2>3. PICK x \in {"settle", "drop"} : owner[p] = "own" /\ owner' = [owner EXCEPT ![p] = x]
    BY <1>2 DEF settle, drop, Goto
  <2>4. ProcessTypeOK'
    BY <1>1, <2>2, <2>3 DEF ProcessTypeOK, Owners
  <2>5. \A o \in Launchers : OwnerOK(o)'
    BY <1>1, <2>2, <2>3 DEF ProcessTypeOK, OwnerInv, OwnerOK, Dead
  <2> QED BY <1>1, <2>2, <2>4, <2>5 DEF OwnerInv
<1>3. CASE try_wait(p)
  <2>1. ProcessTypeOK'
    BY <1>1, <1>3 DEF ProcessTypeOK, Owners, try_wait, Goto, Probing
  <2>2. \A o \in Launchers : OwnerOK(o)'
    BY <1>1, <1>3 DEF ProcessTypeOK, OwnerInv, OwnerOK, Dead, try_wait, Goto, Probing, vars
  <2> QED BY <1>1, <1>3, <2>1, <2>2 DEF OwnerInv, try_wait
<1>4. CASE leak(p)
  <2>1. ProcessTypeOK'
    BY <1>1, <1>4 DEF ProcessTypeOK, Owners, leak, Goto, os
  <2>2. \A o \in Launchers : OwnerOK(o)'
    BY <1>1, <1>4 DEF ProcessTypeOK, OwnerInv, OwnerOK, Dead, leak, Goto, os, vars
  <2> QED BY <1>1, <1>4, <2>1, <2>2 DEF OwnerInv, leak, os
<1>5. CASE probe(p)
  <2>1. /\ owner[p] \in {"settle_probe", "drop_probe"}
        /\ group' = IF p \in group /\ GroupExists(p) THEN group ELSE group \ {p}
        /\ child' = child /\ descendants' = descendants /\ reused' = reused /\ struck' = struck
        /\ killed' = killed /\ signalled' = signalled
    BY <1>5 DEF probe, os
  <2>2. p \notin group' => Dead(p)
    BY <1>1, <2>1 DEF OwnerOK, Dead, GroupExists, ProcessTypeOK
  <2>3. CASE Retired(p)
    <3>1. owner' = [owner EXCEPT ![p] = "none"] /\ release(p)
      BY <1>5, <2>3 DEF probe, Goto
    <3>2. stage'[p] = "idle" /\ \A o \in Launchers \ {p} : stage'[o] = stage[o]
      BY <1>1, <3>1, ReleaseKeepsOthers
    <3>3. p \notin group'
      BY <2>1, <2>3 DEF Retired
    <3>4. ProcessTypeOK'
      BY <1>1, <2>1, <3>1 DEF ProcessTypeOK, Owners
    <3>5. OwnerOK(p)'
      BY <1>1, <2>1, <2>2, <3>1, <3>2, <3>3 DEF ProcessTypeOK, OwnerOK, Dead
    <3>6. \A o \in Launchers \ {p} : OwnerOK(o)'
      BY <1>1, <2>1, <3>1, <3>2 DEF ProcessTypeOK, OwnerInv, OwnerOK, Dead
    <3> QED BY <1>1, <2>1, <3>4, <3>5, <3>6 DEF OwnerInv
  <2>4. CASE ~Retired(p)
    <3>1. owner' = [owner EXCEPT ![p] = Polling(owner[p])] /\ stage' = stage
      BY <1>5, <2>4 DEF probe, Goto, vars
    <3>2. ProcessTypeOK'
      BY <1>1, <2>1, <3>1 DEF ProcessTypeOK, Owners, Polling
    <3>3. OwnerOK(p)'
      BY <1>1, <2>1, <2>2, <3>1 DEF ProcessTypeOK, OwnerOK, Dead, Polling
    <3>4. \A o \in Launchers \ {p} : OwnerOK(o)'
      BY <1>1, <2>1, <3>1 DEF ProcessTypeOK, OwnerInv, OwnerOK, Dead
    <3> QED BY <1>1, <2>1, <3>2, <3>3, <3>4 DEF OwnerInv
  <2> QED BY <2>3, <2>4
<1> QED BY <1>2, <1>3, <1>4, <1>5

\* The system only ever takes a process apart.
LEMMA SystemInv ==
    ASSUME ProcessInv, NEW p \in Launchers, System(p)
    PROVE  ProcessTypeOK' /\ OwnerInv'
<1>1. ProcessTypeOK /\ OwnerInv
  BY DEF ProcessInv
<1>2. stage' = stage /\ owner' = owner /\ group' = group /\ struck' = struck
  BY DEF System, child_exits, forks, descendants_exit, reuse, vars
<1>3. ProcessTypeOK'
  BY <1>1, <1>2 DEF ProcessTypeOK, System, child_exits, forks, descendants_exit, reuse
<1>4. \A o \in Launchers : OwnerOK(o)'
  BY <1>1, <1>2 DEF ProcessTypeOK, OwnerInv, OwnerOK, Dead,
                    System, child_exits, forks, descendants_exit, reuse
<1> QED BY <1>1, <1>2, <1>3, <1>4 DEF OwnerInv

LEMMA NextProcessInv == ProcessInv /\ [ProcessNext]_allVars => ProcessInv'
<1> SUFFICES ASSUME ProcessInv, [ProcessNext]_allVars PROVE ProcessInv'
  OBVIOUS
<1>1. PoolInv'
  BY ProcessStepsPool, NextPoolInv DEF ProcessInv
<1>2. ASSUME (Waiter \/ Run \/ Own) /\ UNCHANGED procs PROVE ProcessTypeOK' /\ OwnerInv'
  <2>1. \A p \in Launchers : stage'[p] = stage[p]
    BY <1>2, OthersKeepLeases DEF ProcessInv
  <2>2. UNCHANGED procs
    BY <1>2
  <2> QED BY <2>1, <2>2 DEF ProcessInv, procs, ProcessTypeOK, OwnerInv, OwnerOK, Dead
<1>3. ASSUME NEW p \in Launchers, Owner(p) PROVE ProcessTypeOK' /\ OwnerInv'
  BY <1>3, SpawnInv, SettleInv DEF Owner
<1>4. ASSUME NEW p \in Launchers, System(p) PROVE ProcessTypeOK' /\ OwnerInv'
  BY <1>4, SystemInv
<1>5. ASSUME UNCHANGED allVars PROVE ProcessTypeOK' /\ OwnerInv'
  <2>1. stage' = stage /\ UNCHANGED procs
    BY <1>5 DEF allVars, vars
  <2> QED BY <2>1 DEF procs, ProcessInv, ProcessTypeOK, OwnerInv, OwnerOK, Dead
<1> QED BY <1>1, <1>2, <1>3, <1>4, <1>5 DEF ProcessNext, ProcessInv

\* The invariant holds in every reachable state.
LEMMA ProcessInvariant == ProcessSpec => []ProcessInv
<1>1. ProcessInit => ProcessInv
  BY InitProcessInv
<1>2. ProcessInv /\ [ProcessNext]_allVars => ProcessInv'
  BY NextProcessInv
<1> QED BY <1>1, <1>2, PTL DEF ProcessSpec

\* Whatever is left of a child, or of anyone in its group, is covered by a
\* lease, for every number of processes and however they settle, unwind, leak
\* or die.
THEOREM ProcessAlwaysLeased == ProcessSpec => []ProcessIsLeased
<1>1. ProcessInv => ProcessIsLeased
  BY DEF ProcessInv, OwnerInv, OwnerOK, Dead, ProcessIsLeased
<1> QED BY <1>1, ProcessInvariant, PTL

\* No signal ever reaches a group that has come to be a stranger's.
THEOREM StrangersNeverSignalled == ProcessSpec => []NeverSignalStranger
<1>1. ProcessInv => NeverSignalStranger
  BY DEF ProcessInv, OwnerInv, NeverSignalStranger
<1> QED BY <1>1, ProcessInvariant, PTL
=============================================================================
