----------------------------- MODULE FiniteSums -----------------------------
(***************************************************************************)
(* Sums over finite sets, as the fold of the community modules computes    *)
(* them, and the induction over finite sets that their laws rest on.       *)
(***************************************************************************)
EXTENDS FiniteSetsExt, FiniteSetTheorems, TLAPS

USE ZenonT(30)

(* A set of numbers has a least element.                                   *)
LEMMA LeastNumber ==
    ASSUME NEW N \in SUBSET Nat, N # {}
    PROVE  \E n \in N : \A m \in N : n <= m
<1>1. PICK n \in N : \A m \in N : ~(<<m, n>> \in OpToRel(<, Nat))
  BY NatLessThanWellFounded, WFMin
<1>2. \A m \in N : ~(m < n)
  BY <1>1 DEF OpToRel
<1> QED
  BY <1>2, SMTT(30)

(* Induction over the subsets of a finite set: where a statement fails, it *)
(* fails first for a set whose proper subsets satisfy it.                  *)
LEMMA SmallestSet ==
    ASSUME NEW S, IsFiniteSet(S), NEW Bad \in SUBSET (SUBSET S), Bad # {}
    PROVE  \E T \in Bad : \A U \in Bad : U \subseteq T => U = T
<1> DEFINE N == {Cardinality(T) : T \in Bad}
<1>1. \A T \in Bad : IsFiniteSet(T) /\ Cardinality(T) \in Nat
  BY FS_Subset, FS_CardinalityType
<1>2. N \in SUBSET Nat /\ N # {}
  BY <1>1
<1>3. PICK n \in N : \A m \in N : n <= m
  <2> HIDE DEF N
  <2> QED
    BY <1>2, LeastNumber
<1>4. PICK T \in Bad : Cardinality(T) = n
  OBVIOUS
<1>5. ASSUME NEW U \in Bad, U \subseteq T PROVE U = T
  <2>1. Cardinality(U) <= Cardinality(T) /\ Cardinality(T) <= Cardinality(U)
    BY <1>1, <1>3, <1>4, <1>5, FS_Subset, SMTT(30)
  <2> QED
    BY <1>1, <1>5, <2>1, FS_Subset, SMTT(30)
<1> QED
  BY <1>5

(* What MapThenSumSet computes over S from the summands g: the function    *)
(* from the subsets of S to their sums.                                    *)
First(s) == CHOOSE x \in s : TRUE
IsSum(sum, g, S) ==
    sum = [s \in SUBSET S |-> IF s = {} THEN 0 ELSE g[First(s)] + sum[s \ {First(s)}]]

(* The element a sum takes first is one of the set.                        *)
LEMMA FirstIn == ASSUME NEW s, s # {} PROVE First(s) \in s
  BY DEF First

(* The recursion equations.                                                *)
LEMMA SumEquations ==
    ASSUME NEW S, NEW g, NEW sum, IsSum(sum, g, S)
    PROVE  \A T \in SUBSET S : /\ T = {} => sum[T] = 0
                               /\ T # {} => sum[T] = g[First(T)] + sum[T \ {First(T)}]
<1> SUFFICES ASSUME NEW T \in SUBSET S
             PROVE  /\ T = {} => sum[T] = 0
                    /\ T # {} => sum[T] = g[First(T)] + sum[T \ {First(T)}]
  OBVIOUS
<1>1. sum[T] = IF T = {} THEN 0 ELSE g[First(T)] + sum[T \ {First(T)}]
  BY DEF IsSum
<1> QED
  BY <1>1

(* The sum over a set does not depend on the set it is computed within.    *)
LEMMA SumIsUnique ==
    ASSUME NEW S, IsFiniteSet(S), NEW g, NEW R, NEW h, NEW k, IsSum(h, g, S), IsSum(k, g, R)
    PROVE  \A T \in SUBSET S : T \subseteq R => h[T] = k[T]
<1> DEFINE Bad == {U \in SUBSET S : U \subseteq R /\ h[U] # k[U]}
<1> SUFFICES ASSUME Bad # {} PROVE FALSE
  OBVIOUS
<1>1. PICK U \in Bad : \A V \in Bad : V \subseteq U => V = U
  <2>1. Bad \in SUBSET (SUBSET S)
    OBVIOUS
  <2> HIDE DEF Bad
  <2> QED
    BY <2>1, SmallestSet, SMTT(30)
<1>2. U \in SUBSET S /\ U \in SUBSET R /\ h[U] # k[U]
  BY <1>1
<1>3. U # {} => U \ {First(U)} \notin Bad
  BY <1>1, FirstIn
<1>4. U # {} => h[U \ {First(U)}] = k[U \ {First(U)}]
  BY <1>2, <1>3
<1> HIDE DEF Bad
<1>5. /\ U = {} => h[U] = 0
      /\ U # {} => h[U] = g[First(U)] + h[U \ {First(U)}]
  BY <1>2, SumEquations, SMTT(30)
<1>6. /\ U = {} => k[U] = 0
      /\ U # {} => k[U] = g[First(U)] + k[U \ {First(U)}]
  BY <1>2, SumEquations, SMTT(30)
<1> QED
  BY <1>2, <1>4, <1>5, <1>6

(* The function exists: its definition by recursion is sound.              *)
LEMMA SumExists ==
    ASSUME NEW S, IsFiniteSet(S), NEW g
    PROVE  \E sum : IsSum(sum, g, S)
<1> DEFINE Bad == {U \in SUBSET S : ~\E sum : IsSum(sum, g, U)}
<1> SUFFICES ASSUME Bad # {} PROVE FALSE
  OBVIOUS
<1>1. PICK U \in Bad : \A V \in Bad : V \subseteq U => V = U
  <2>1. Bad \in SUBSET (SUBSET S)
    OBVIOUS
  <2> HIDE DEF Bad
  <2> QED
    BY <2>1, SmallestSet, SMTT(30)
<1>2. U \in SUBSET S /\ ~\E sum : IsSum(sum, g, U)
  BY <1>1
<1>3. \A V \in SUBSET U : V # U => \E sum : IsSum(sum, g, V)
  BY <1>1, <1>2
<1> DEFINE sumOf(V) == CHOOSE sum : IsSum(sum, g, V)
           new == [s \in SUBSET U |-> IF s = {} THEN 0
                                      ELSE g[First(s)] + sumOf(s \ {First(s)})[s \ {First(s)}]]
<1>4. \A V \in SUBSET U : V # U => IsSum(sumOf(V), g, V)
  BY <1>3
<1> HIDE DEF sumOf, Bad
<1>5. ASSUME NEW V \in SUBSET U, V # U PROVE new[V] = sumOf(V)[V]
  <2>1. IsSum(sumOf(V), g, V) /\ V \in SUBSET V
    BY <1>4, <1>5
  <2> HIDE DEF new
  <2>2. /\ V = {} => sumOf(V)[V] = 0
        /\ V # {} => sumOf(V)[V] = g[First(V)] + sumOf(V)[V \ {First(V)}]
    BY <2>1, SumEquations, SMTT(30)
  <2>3. ASSUME V # {}
        PROVE  sumOf(V)[V \ {First(V)}] = sumOf(V \ {First(V)})[V \ {First(V)}]
    <3> DEFINE W == V \ {First(V)}
    <3>1. W \in SUBSET U /\ W # U /\ W \in SUBSET V /\ W \subseteq W
      BY <1>5
    <3>2. IsSum(sumOf(W), g, W)
      BY <1>4, <3>1
    <3>3. IsFiniteSet(V)
      BY <1>2, FS_Subset
    <3> HIDE DEF W
    <3>4. sumOf(V)[W] = sumOf(W)[W]
      BY <2>1, <3>1, <3>2, <3>3, SumIsUnique, SMTT(30)
    <3> QED
      BY <3>4 DEF W
  <2> QED
    BY <2>2, <2>3 DEF new
<1>6. \A s \in SUBSET U : s # {} => new[s \ {First(s)}] = sumOf(s \ {First(s)})[s \ {First(s)}]
  <2>1. ASSUME NEW s \in SUBSET U, s # {}
        PROVE  s \ {First(s)} \in SUBSET U /\ s \ {First(s)} # U
    BY <2>1, FirstIn
  <2> HIDE DEF new
  <2> QED
    BY <1>5, <2>1
<1>7. new = [s \in SUBSET U |-> IF s = {} THEN 0 ELSE g[First(s)] + new[s \ {First(s)}]]
  <2> DEFINE other == [s \in SUBSET U |-> IF s = {} THEN 0 ELSE g[First(s)] + new[s \ {First(s)}]]
  <2>1. \A s \in SUBSET U : new[s] = other[s]
    BY <1>6
  <2>2. DOMAIN new = SUBSET U /\ DOMAIN other = SUBSET U
    OBVIOUS
  <2>3. new = [s \in SUBSET U |-> new[s]] /\ other = [s \in SUBSET U |-> other[s]]
    OBVIOUS
  <2> HIDE DEF new, other
  <2>4. new = other
    BY <2>1, <2>3
  <2> QED
    BY <2>4 DEF other
<1> HIDE DEF new
<1> QED
  BY <1>2, <1>7 DEF IsSum

(* A sum of natural numbers is one.                                        *)
LEMMA SumType ==
    ASSUME NEW S, IsFiniteSet(S), NEW g, \A x \in S : g[x] \in Nat, NEW sum, IsSum(sum, g, S)
    PROVE  \A T \in SUBSET S : sum[T] \in Nat
<1> DEFINE Bad == {T \in SUBSET S : sum[T] \notin Nat}
<1> SUFFICES ASSUME Bad # {} PROVE FALSE
  OBVIOUS
<1>1. PICK T \in Bad : \A U \in Bad : U \subseteq T => U = T
  <2>1. Bad \in SUBSET (SUBSET S)
    OBVIOUS
  <2> HIDE DEF Bad
  <2> QED
    BY <2>1, SmallestSet, SMTT(30)
<1>2. T \in SUBSET S /\ sum[T] \notin Nat
  BY <1>1
<1>3. T # {} => g[First(T)] \in Nat /\ T \ {First(T)} \notin Bad
  BY <1>1, FirstIn
<1>4. T # {} => sum[T \ {First(T)}] \in Nat
  BY <1>2, <1>3
<1> HIDE DEF Bad
<1>5. /\ T = {} => sum[T] = 0
      /\ T # {} => sum[T] = g[First(T)] + sum[T \ {First(T)}]
  BY <1>2, SumEquations, SMTT(30)
<1> QED
  BY <1>2, <1>3, <1>4, <1>5, SMTT(30)

(* Any element may be the first one to be added: the order in which the    *)
(* library takes the elements does not matter.                             *)
LEMMA SumRemove ==
    ASSUME NEW S, IsFiniteSet(S), NEW g, \A x \in S : g[x] \in Nat, NEW sum, IsSum(sum, g, S)
    PROVE  \A T \in SUBSET S : \A x \in T : sum[T] = g[x] + sum[T \ {x}]
<1> DEFINE Law(T) == \A x \in T : sum[T] = g[x] + sum[T \ {x}]
           Bad == {T \in SUBSET S : ~Law(T)}
<1> SUFFICES ASSUME Bad # {} PROVE FALSE
  OBVIOUS
<1>1. PICK T \in Bad : \A U \in Bad : U \subseteq T => U = T
  <2>1. Bad \in SUBSET (SUBSET S)
    OBVIOUS
  <2> HIDE DEF Bad
  <2> QED
    BY <2>1, SmallestSet, SMTT(30)
<1>2. T \in SUBSET S /\ ~Law(T) /\ \A U \in SUBSET T : U # T => Law(U)
  BY <1>1
<1>3. PICK x \in T : sum[T] # g[x] + sum[T \ {x}]
  BY <1>2
<1> DEFINE y == First(T)
<1>4. y \in T
  BY <1>3, FirstIn
<1> HIDE DEF Bad, y
<1>5. sum[T] = g[y] + sum[T \ {y}]
  BY <1>2, <1>3, SumEquations, SMTT(30) DEF y
<1>6. x # y
  BY <1>3, <1>5
<1>7. sum[T \ {y}] = g[x] + sum[(T \ {y}) \ {x}]
  <2>1. T \ {y} \in SUBSET T /\ T \ {y} # T /\ x \in T \ {y}
    BY <1>4, <1>6
  <2> QED
    BY <1>2, <2>1
<1>8. sum[T \ {x}] = g[y] + sum[(T \ {x}) \ {y}]
  <2>1. T \ {x} \in SUBSET T /\ T \ {x} # T /\ y \in T \ {x}
    BY <1>4, <1>6
  <2> QED
    BY <1>2, <2>1
<1>9. sum[(T \ {y}) \ {x}] = sum[(T \ {x}) \ {y}]
  <2>1. (T \ {y}) \ {x} = (T \ {x}) \ {y}
    OBVIOUS
  <2> QED
    BY <2>1
<1>10. g[x] \in Nat /\ g[y] \in Nat /\ sum[(T \ {x}) \ {y}] \in Nat
  <2>1. x \in S /\ y \in S /\ (T \ {x}) \ {y} \in SUBSET S
    BY <1>2, <1>4
  <2> QED
    BY <2>1, SumType
<1>11. g[y] + (g[x] + sum[(T \ {x}) \ {y}]) = g[x] + (g[y] + sum[(T \ {x}) \ {y}])
  BY <1>10, SMTT(30)
<1> QED
  BY <1>3, <1>5, <1>7, <1>8, <1>9, <1>11

(* More elements have no smaller sum.                                      *)
LEMMA SumMonotone ==
    ASSUME NEW S, IsFiniteSet(S), NEW g, \A x \in S : g[x] \in Nat, NEW sum, IsSum(sum, g, S)
    PROVE  \A T \in SUBSET S : \A U \in SUBSET T : sum[U] <= sum[T]
<1> DEFINE Law(T) == \A U \in SUBSET T : sum[U] <= sum[T]
           Bad == {T \in SUBSET S : ~Law(T)}
<1> SUFFICES ASSUME Bad # {} PROVE FALSE
  OBVIOUS
<1>1. PICK T \in Bad : \A U \in Bad : U \subseteq T => U = T
  <2>1. Bad \in SUBSET (SUBSET S)
    OBVIOUS
  <2> HIDE DEF Bad
  <2> QED
    BY <2>1, SmallestSet, SMTT(30)
<1>2. T \in SUBSET S /\ ~Law(T) /\ \A U \in SUBSET T : U # T => Law(U)
  BY <1>1
<1>3. PICK U \in SUBSET T : ~(sum[U] <= sum[T])
  BY <1>2
<1> HIDE DEF Bad
<1>4. sum[T] \in Nat /\ sum[U] \in Nat
  BY <1>2, SumType
<1>5. PICK x \in T : x \notin U
  <2>1. U # T
    BY <1>3, <1>4, SMTT(30)
  <2> QED
    BY <2>1
<1>6. sum[T] = g[x] + sum[T \ {x}] /\ g[x] \in Nat
  BY <1>2, SumRemove, SMTT(30)
<1>7. sum[U] <= sum[T \ {x}] /\ sum[T \ {x}] \in Nat
  <2>1. T \ {x} \in SUBSET T /\ T \ {x} # T /\ U \in SUBSET (T \ {x}) /\ T \ {x} \in SUBSET S
    BY <1>2, <1>5
  <2> QED
    BY <1>2, <2>1, SumType
<1> QED
  BY <1>3, <1>4, <1>6, <1>7, SMTT(30)

(* All of it, in the form the other modules use.                           *)
SumsOver(sum, g, S) ==
    /\ sum[{}] = 0
    /\ \A T \in SUBSET S : sum[T] \in Nat
    /\ \A T \in SUBSET S : \A x \in T : sum[T] = g[x] + sum[T \ {x}]
    /\ \A T \in SUBSET S : \A U \in SUBSET T : sum[U] <= sum[T]
    /\ \A T \in SUBSET S : (\E k : IsSum(k, g, T)) /\ \A k : IsSum(k, g, T) => k[T] = sum[T]

(* There is one function sum that obeys the laws and that every            *)
(* computation of a sum agrees with.                                       *)
LEMMA SumLaws ==
    ASSUME NEW S, IsFiniteSet(S), NEW g, \A x \in S : g[x] \in Nat
    PROVE  \E sum : SumsOver(sum, g, S)
<1>1. PICK sum : IsSum(sum, g, S)
  BY SumExists
<1>2. sum[{}] = 0
  BY <1>1, SumEquations
<1>3. \A T \in SUBSET S : sum[T] \in Nat
  BY <1>1, SumType
<1>4. \A T \in SUBSET S : \A x \in T : sum[T] = g[x] + sum[T \ {x}]
  <2> SUFFICES ASSUME NEW T \in SUBSET S, NEW x \in T PROVE sum[T] = g[x] + sum[T \ {x}]
    OBVIOUS
  <2> QED
    BY <1>1, SumRemove, SMTT(30)
<1>5. \A T \in SUBSET S : \A U \in SUBSET T : sum[U] <= sum[T]
  BY <1>1, SumMonotone
<1>6. ASSUME NEW T \in SUBSET S
      PROVE  (\E k : IsSum(k, g, T)) /\ \A k : IsSum(k, g, T) => k[T] = sum[T]
  <2>1. IsFiniteSet(T)
    BY FS_Subset
  <2>2. \A k : IsSum(k, g, T) => k[T] = sum[T]
    BY <1>1, <2>1, SumIsUnique, SMTT(30)
  <2> QED
    BY <2>1, <2>2, SumExists
<1> QED
  BY <1>2, <1>3, <1>4, <1>5, <1>6 DEF SumsOver

(* sum adds up g over S; total adds up g at the values of f, over their   *)
(* indices.                                                                *)
IsSumOfValues(total, sum, f, g, I, S) ==
    /\ IsFiniteSet(I) /\ f \in [I -> S]
    /\ SumsOver(sum, g, S) /\ \A x \in S : g[x] \in Nat
    /\ \E h : SumsOver(total, h, I) /\ \A i \in I : h[i] = g[f[i]]

(* A sum over indices, of the values that f has there, is at least the sum *)
(* over these values, and equal to it if f has none of them twice.         *)
LEMMA SumOfImage ==
    ASSUME NEW total, NEW sum, NEW f, NEW g, NEW I, NEW S, IsSumOfValues(total, sum, f, g, I, S)
    PROVE  \A J \in SUBSET I : /\ sum[{f[i] : i \in J}] <= total[J]
                               /\ IsInjective(f) => sum[{f[i] : i \in J}] = total[J]
<1> PICK h : SumsOver(total, h, I) /\ \A i \in I : h[i] = g[f[i]]
  BY DEF IsSumOfValues
<1> IsFiniteSet(I) /\ f \in [I -> S] /\ SumsOver(sum, g, S) /\ \A x \in S : g[x] \in Nat
  BY DEF IsSumOfValues
<1> DEFINE Image(J) == {f[i] : i \in J}
           Law(J) == sum[Image(J)] <= total[J] /\ (IsInjective(f) => sum[Image(J)] = total[J])
           Bad == {J \in SUBSET I : ~Law(J)}
<1> SUFFICES ASSUME Bad # {} PROVE FALSE
  OBVIOUS
<1>1. PICK J \in Bad : \A K \in Bad : K \subseteq J => K = J
  <2>1. Bad \in SUBSET (SUBSET I)
    OBVIOUS
  <2> HIDE DEF Bad
  <2> QED
    BY <2>1, SmallestSet, SMTT(30)
<1>2. J \in SUBSET I /\ ~Law(J) /\ \A K \in SUBSET J : K # J => Law(K)
  BY <1>1
<1> HIDE DEF Bad
<1>3. J # {}
  <2>1. Image({}) = {} /\ sum[{}] = 0 /\ total[{}] = 0
    BY DEF SumsOver
  <2>2. Law({})
    <3> HIDE DEF Image
    <3> QED
      BY <2>1, SMTT(30)
  <2> HIDE DEF Law
  <2> QED
    BY <1>2, <2>2
<1>4. PICK x \in J : TRUE
  BY <1>3
<1> DEFINE K == J \ {x}
<1>5. K \in SUBSET J /\ K # J /\ K \in SUBSET I /\ x \in I
  BY <1>2, <1>4
<1>6. Law(K)
  BY <1>2, <1>5
<1>7. Image(J) = Image(K) \cup {f[x]} /\ Image(J) \in SUBSET S /\ Image(K) \in SUBSET S
  BY <1>2, <1>4, SMTT(30)
<1>8. total[J] = h[x] + total[K] /\ h[x] = g[f[x]] /\ g[f[x]] \in Nat
      /\ total[K] \in Nat
  BY <1>2, <1>4, <1>5 DEF SumsOver
<1>9. sum[Image(K)] \in Nat
  BY <1>7 DEF SumsOver
<1>10. CASE f[x] \in Image(K)
  <2>1. Image(J) = Image(K)
    BY <1>7, <1>10
  <2>2. ~IsInjective(f)
    BY <1>5, <1>10 DEF IsInjective
  <2> HIDE DEF Image, K
  <2>3. sum[Image(J)] <= total[K] /\ total[K] <= total[J]
    BY <1>6, <1>8, <2>1, SMTT(30)
  <2>4. total[J] \in Nat
    BY <1>8, SMTT(30)
  <2>5. sum[Image(J)] <= total[J]
    BY <1>8, <1>9, <2>1, <2>3, <2>4, SMTT(30)
  <2> QED
    BY <1>2, <2>2, <2>5
<1>11. CASE f[x] \notin Image(K)
  <2>1. f[x] \in Image(J) /\ Image(J) \ {f[x]} = Image(K)
    BY <1>7, <1>11
  <2> HIDE DEF Image, K
  <2>2. \A T \in SUBSET S : \A y \in T : sum[T] = g[y] + sum[T \ {y}]
    BY DEF SumsOver
  <2> HIDE DEF Law
  <2>3. sum[Image(J)] = g[f[x]] + sum[Image(J) \ {f[x]}]
    BY <1>7, <2>1, <2>2
  <2>4. sum[Image(J)] = g[f[x]] + sum[Image(K)]
    BY <2>1, <2>3
  <2> USE DEF Law
  <2> QED
    BY <1>2, <1>6, <1>8, <1>9, <2>4, SMTT(30)
<1> QED
  BY <1>10, <1>11

(* A finite set of numbers has a greatest element.                         *)
LEMMA GreatestNumber ==
    ASSUME NEW S, IsFiniteSet(S), S # {}, \A n \in S : n \in Nat
    PROVE  \E n \in S : \A m \in S : m <= n
<1> DEFINE HasMax(T) == \E n \in T : \A m \in T : m <= n
           Bad == {T \in SUBSET S : T # {} /\ ~HasMax(T)}
<1> SUFFICES ASSUME Bad # {} PROVE FALSE
  OBVIOUS
<1>1. PICK T \in Bad : \A U \in Bad : U \subseteq T => U = T
  <2>1. Bad \in SUBSET (SUBSET S)
    OBVIOUS
  <2>2. \A B \in SUBSET (SUBSET S) : B # {} => \E M \in B : \A U \in B : U \subseteq M => U = M
    BY SmallestSet, SMTT(30)
  <2> HIDE DEF Bad, HasMax
  <2> QED
    BY <2>1, <2>2
<1>2. T \in SUBSET S /\ T # {} /\ ~HasMax(T) /\ \A U \in SUBSET T : U # T /\ U # {} => HasMax(U)
  BY <1>1
<1> HIDE DEF Bad
<1>3. PICK x \in T : TRUE
  BY <1>2
<1>4. CASE T \ {x} = {}
  BY <1>2, <1>3, <1>4, SMTT(30)
<1>5. CASE T \ {x} # {}
  <2>1. PICK y \in T \ {x} : \A m \in T \ {x} : m <= y
    BY <1>2, <1>3, <1>5
  <2>2. \A m \in T : m \in Nat /\ (m = x \/ m <= y)
    BY <1>2, <2>1
  <2>3. CASE x <= y
    BY <1>2, <2>1, <2>2, <2>3
  <2>4. CASE ~(x <= y)
    <3>1. \A m \in T : m <= x
      BY <1>3, <2>1, <2>2, <2>4, SMTT(30)
    <3> QED
      BY <1>2, <1>3, <3>1
  <2> QED
    BY <2>3, <2>4
<1> QED
  BY <1>4, <1>5
=============================================================================
