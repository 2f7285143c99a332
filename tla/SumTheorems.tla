------------------------------ MODULE SumTheorems ------------------------------
(* What SumFunctionOnSet computes, for every function and finite set: the sums of  *)
(* the bank's books are such folds.  The folds are defined by recursion over the  *)
(* set; induction is over a set of numbers or of sets, through the least element  *)
(* WFMin gives, as no prover instantiates an induction rule over a predicate.     *)
EXTENDS Integers, Sequences, FiniteSets, Functions, FiniteSetTheorems, SequenceTheorems,
        WellFoundedInduction, TLAPS

-----------------------------------------------------------------------------
(* Induction.                                                                    *)

NatBefore == {p \in Nat \X Nat : p[1] < p[2]}

LEMMA BeforeIsWellFounded == IsWellFoundedOn(NatBefore, Nat)
  BY NatLessThanWellFounded, Zenon DEF OpToRel, NatBefore

\* A set of numbers that is not empty has a least one.
LEMMA LeastNumber == ASSUME NEW T \in SUBSET Nat, T # {} PROVE \E n \in T : \A m \in T : n <= m
<1>1. PICK n \in T : \A m \in T : ~(<<m, n>> \in NatBefore)
  BY WFMin, BeforeIsWellFounded
<1>2. ASSUME NEW m \in T PROVE n <= m
  <2>1. ~(<<m, n>> \in NatBefore) /\ m \in Nat /\ n \in Nat
    BY <1>1, <1>2
  <2>2. ~(m < n)
    BY <2>1 DEF NatBefore
  <2> QED
    BY <2>1, <2>2
<1> QED
  BY <1>2

\* Induction over the natural numbers.
LEMMA NumberInduction ==
    ASSUME NEW G, 0 \in G, \A n \in Nat : n \in G => n + 1 \in G
    PROVE  \A n \in Nat : n \in G
<1> SUFFICES ASSUME Nat \ G # {} PROVE FALSE
  OBVIOUS
<1>1. PICK n \in Nat \ G : \A m \in Nat \ G : n <= m
  BY LeastNumber
<1>2. n # 0 /\ n - 1 \in Nat
  BY <1>1
<1>3. n - 1 \in G
  BY <1>1, <1>2
<1> QED
  BY <1>1, <1>2, <1>3

\* Induction over the subsets of a finite set: each has a property all smaller ones have.
LEMMA SubsetInduction ==
    ASSUME NEW S, IsFiniteSet(S), NEW G,
           \A T \in SUBSET S : (\A U \in SUBSET T : U # T => U \in G) => T \in G
    PROVE  \A T \in SUBSET S : T \in G
<1> DEFINE N == {n \in Nat : \A T \in SUBSET S : Cardinality(T) <= n => T \in G}
<1>1. \A T \in SUBSET S : IsFiniteSet(T) /\ Cardinality(T) \in Nat
  BY FS_Subset, FS_CardinalityType
<1>2. ASSUME NEW T \in SUBSET S, NEW U \in SUBSET T, U # T
      PROVE  Cardinality(U) < Cardinality(T)
  BY <1>1, <1>2, FS_Subset
<1>3. 0 \in N
  <2> SUFFICES ASSUME NEW T \in SUBSET S, Cardinality(T) <= 0 PROVE T \in G
    OBVIOUS
  <2>1. T = {}
    BY <1>1, FS_EmptySet
  <2> QED
    BY <2>1
<1>4. ASSUME NEW n \in Nat, n \in N PROVE n + 1 \in N
  <2> SUFFICES ASSUME NEW T \in SUBSET S, Cardinality(T) <= n + 1 PROVE T \in G
    OBVIOUS
  <2>1. ASSUME NEW U \in SUBSET T, U # T PROVE U \in G
    <3>1. Cardinality(U) <= n
      BY <1>1, <1>2, <2>1
    <3> QED
      BY <1>4, <3>1
  <2> QED
    BY <2>1
<1> HIDE DEF N
<1>5. \A n \in Nat : n \in N
  BY <1>3, <1>4, NumberInduction
<1> QED
  BY <1>1, <1>5 DEF N

\* The same, adding one element at a time.
LEMMA AddInduction ==
    ASSUME NEW S, IsFiniteSet(S), NEW G, {} \in G,
           \A T \in SUBSET S : \A x \in S \ T : T \in G => T \cup {x} \in G
    PROVE  S \in G
<1>1. ASSUME NEW T \in SUBSET S, \A U \in SUBSET T : U # T => U \in G PROVE T \in G
  <2>1. CASE T # {}
    <3>1. PICK x \in T : TRUE
      BY <2>1
    <3>2. PICK U : U = T \ {x}
      OBVIOUS
    <3>3. U \in SUBSET S /\ U \in SUBSET T /\ U # T /\ x \in S \ U /\ U \cup {x} = T
      BY <3>2
    <3> QED
      BY <1>1, <3>3
  <2> QED
    BY <2>1
<1>2. S \in SUBSET S
  OBVIOUS
<1> QED
  BY <1>1, <1>2, SubsetInduction

-----------------------------------------------------------------------------
(* The recursion of the sum has a solution, and one only.                        *)
PickOne(s) == CHOOSE x \in s : TRUE

\* h[s] is the sum of g over s, for each subset s of S.
IsSum(g, S, h) ==
    h = [s \in SUBSET S |-> IF s = {} THEN 0 ELSE g[PickOne(s)] + h[s \ {PickOne(s)}]]

LEMMA SumIsChosen ==
    ASSUME NEW g, NEW S
    PROVE  SumFunctionOnSet(g, S) = (CHOOSE h : IsSum(g, S, h))[S]
  BY DEF SumFunctionOnSet, FoldFunctionOnSet, MapThenFoldSet, IsSum, PickOne

\* g is summed over integers.
IntegerOn(g, S) == \A x \in S : g[x] \in Int

\* What h knows of the sum of g over S and its subsets.
Sums(g, S, h) ==
    /\ h \in [SUBSET S -> Int] /\ IsSum(g, S, h) /\ SumFunctionOnSet(g, S) = h[S]
    /\ \A x \in S : h[S] = g[x] + h[S \ {x}]

LEMMA PickOneIsOfSet == ASSUME NEW s, s # {} PROVE PickOne(s) \in s
  BY DEF PickOne

\* g is summed over the sets of up to n elements.
SumUpTo(g, S, n, h) ==
    /\ h \in [SUBSET S -> Int]
    /\ \A s \in SUBSET S : Cardinality(s) <= n =>
          h[s] = IF s = {} THEN 0 ELSE g[PickOne(s)] + h[s \ {PickOne(s)}]

LEMMA SumExists ==
    ASSUME NEW g, NEW S, IsFiniteSet(S), \A x \in S : g[x] \in Int
    PROVE  \E h \in [SUBSET S -> Int] : IsSum(g, S, h)
<1> DEFINE N == {n \in Nat : \E h : SumUpTo(g, S, n, h)}
<1>1. \A s \in SUBSET S : IsFiniteSet(s) /\ Cardinality(s) \in Nat
  BY FS_Subset, FS_CardinalityType
<1>2. 0 \in N
  <2> DEFINE h == [s \in SUBSET S |-> 0]
  <2>1. \A s \in SUBSET S : Cardinality(s) <= 0 => s = {}
    BY <1>1, FS_EmptySet
  <2>2. SumUpTo(g, S, 0, h)
    BY <2>1 DEF SumUpTo
  <2> QED
    BY <2>2
<1>3. ASSUME NEW n \in Nat, n \in N PROVE n + 1 \in N
  <2>1. PICK h : SumUpTo(g, S, n, h)
    BY <1>3
  <2> DEFINE k == [s \in SUBSET S |-> IF s = {} THEN 0 ELSE g[PickOne(s)] + h[s \ {PickOne(s)}]]
  <2>2. ASSUME NEW s \in SUBSET S, s # {}
        PROVE  /\ PickOne(s) \in s /\ g[PickOne(s)] \in Int /\ s \ {PickOne(s)} \in SUBSET S
               /\ Cardinality(s \ {PickOne(s)}) = Cardinality(s) - 1
    <3>1. PickOne(s) \in s
      BY <2>2, PickOneIsOfSet
    <3> QED
      BY <3>1, <1>1, FS_RemoveElement
  <2>3. k \in [SUBSET S -> Int]
    <3>1. ASSUME NEW s \in SUBSET S, s # {} PROVE g[PickOne(s)] + h[s \ {PickOne(s)}] \in Int
      <4>1. g[PickOne(s)] \in Int /\ s \ {PickOne(s)} \in SUBSET S
        BY <2>2, <3>1
      <4>2. h[s \ {PickOne(s)}] \in Int
        BY <2>1, <4>1 DEF SumUpTo
      <4> QED
        BY <4>1, <4>2
    <3> QED
      BY <3>1
  <2>4. ASSUME NEW s \in SUBSET S, Cardinality(s) <= n PROVE k[s] = h[s]
    BY <2>1, <2>4 DEF SumUpTo
  <2>5. ASSUME NEW s \in SUBSET S, Cardinality(s) <= n + 1
        PROVE  k[s] = IF s = {} THEN 0 ELSE g[PickOne(s)] + k[s \ {PickOne(s)}]
    <3>1. CASE s = {}
      BY <3>1
    <3>2. CASE s # {}
      <4>1. s \ {PickOne(s)} \in SUBSET S /\ Cardinality(s \ {PickOne(s)}) <= n
        BY <1>1, <2>2, <2>5, <3>2
      <4>2. k[s \ {PickOne(s)}] = h[s \ {PickOne(s)}]
        BY <2>4, <4>1
      <4> QED
        BY <3>2, <4>2
    <3> QED
      BY <3>1, <3>2
  <2> HIDE DEF k
  <2>6. SumUpTo(g, S, n + 1, k)
    BY <2>3, <2>5 DEF SumUpTo
  <2> QED
    BY <2>6
<1> HIDE DEF N
<1>4. Cardinality(S) \in N
  BY <1>1, <1>2, <1>3, NumberInduction
<1>5. PICK h : SumUpTo(g, S, Cardinality(S), h)
  BY <1>4 DEF N
<1>6. \A s \in SUBSET S : Cardinality(s) <= Cardinality(S)
  BY FS_Subset
<1>7. IsSum(g, S, h) /\ h \in [SUBSET S -> Int]
  BY <1>5, <1>6 DEF SumUpTo, IsSum
<1> QED
  BY <1>7

\* Functions that agree on T have the same sum over it, whatever else they are summed over.
LEMMA SumsCoincide ==
    ASSUME NEW g, NEW k, NEW S, NEW T \in SUBSET S, IsFiniteSet(T), \A x \in T : g[x] = k[x],
           NEW h, IsSum(g, S, h), NEW j, IsSum(k, T, j)
    PROVE  h[T] = j[T]
<1> DEFINE G == {U \in SUBSET T : h[U] = j[U]}
<1>1. ASSUME NEW U \in SUBSET T, \A V \in SUBSET U : V # U => V \in G PROVE U \in G
  <2>1. h[U] = IF U = {} THEN 0 ELSE g[PickOne(U)] + h[U \ {PickOne(U)}]
    BY DEF IsSum
  <2>2. j[U] = IF U = {} THEN 0 ELSE k[PickOne(U)] + j[U \ {PickOne(U)}]
    BY DEF IsSum
  <2>3. CASE U = {}
    BY <2>1, <2>2, <2>3
  <2>4. CASE U # {}
    <3>1. PickOne(U) \in U /\ g[PickOne(U)] = k[PickOne(U)]
      BY <2>4, PickOneIsOfSet
    <3>2. U \ {PickOne(U)} \in G
      BY <1>1, <3>1
    <3> QED
      BY <2>1, <2>2, <2>4, <3>1, <3>2
  <2> QED
    BY <2>3, <2>4
<1> HIDE DEF G
<1>2. T \in G
  BY <1>1, SubsetInduction
<1> QED
  BY <1>2 DEF G

\* The sum is such a solution, and the order the elements are picked in makes no difference.
LEMMA SumIsSolution ==
    ASSUME NEW g, NEW S, IsFiniteSet(S), IntegerOn(g, S)
    PROVE  \E h : Sums(g, S, h)
<1>0. \A x \in S : g[x] \in Int
  BY DEF IntegerOn
<1>a. PICK h \in [SUBSET S -> Int] : IsSum(g, S, h)
  BY <1>0, SumExists
<1>b. PICK j : j = (CHOOSE i : IsSum(g, S, i)) /\ IsSum(g, S, j)
  BY <1>a
<1>c. h[S] = j[S]
  BY <1>a, <1>b, SumsCoincide
<1> DEFINE G == {T \in SUBSET S : \A y \in T : h[T] = g[y] + h[T \ {y}]}
<1>1. ASSUME NEW T \in SUBSET S, \A U \in SUBSET T : U # T => U \in G PROVE T \in G
  <2> SUFFICES ASSUME NEW y \in T PROVE h[T] = g[y] + h[T \ {y}]
    OBVIOUS
  <2>1. PICK c : c = PickOne(T) /\ c \in T
    BY PickOneIsOfSet
  <2>2. h[T] = g[c] + h[T \ {c}]
    BY <1>a, <2>1 DEF IsSum
  <2>3. CASE y = c
    BY <2>2, <2>3
  <2>4. CASE y # c
    <3>1. T \ {c} \in G /\ T \ {y} \in G
      BY <1>1, <2>1
    <3>2. h[T \ {c}] = g[y] + h[(T \ {c}) \ {y}]
      BY <2>4, <3>1
    <3>3. h[T \ {y}] = g[c] + h[(T \ {y}) \ {c}]
      BY <2>1, <2>4, <3>1
    <3>4. (T \ {c}) \ {y} = (T \ {y}) \ {c}
      OBVIOUS
    <3>5. PICK rest \in Int : rest = h[(T \ {c}) \ {y}]
      OBVIOUS
    <3>6. PICK a \in Int, b \in Int : a = g[c] /\ b = g[y]
      BY <1>0, <2>1
    <3>7. h[T] = a + (b + rest) /\ h[T \ {y}] = a + rest
      BY <2>2, <3>2, <3>3, <3>4, <3>5, <3>6
    <3>8. a + (b + rest) = b + (a + rest)
      OBVIOUS
    <3> QED
      BY <3>6, <3>7, <3>8
  <2> QED
    BY <2>3, <2>4
<1> HIDE DEF G
<1>2. S \in G
  BY <1>1, SubsetInduction
<1>3. \A y \in S : h[S] = g[y] + h[S \ {y}]
  BY <1>2 DEF G
<1> QED
  BY <1>a, <1>b, <1>c, <1>3, SumIsChosen DEF Sums

-----------------------------------------------------------------------------
(* What follows of sums.                                                         *)
LEMMA SumOfNone == ASSUME NEW g PROVE SumFunctionOnSet(g, {}) = 0
<1>1. IsFiniteSet({}) /\ IntegerOn(g, {})
  BY FS_EmptySet DEF IntegerOn
<1>2. PICK h : Sums(g, {}, h)
  BY <1>1, SumIsSolution
<1> QED
  BY <1>2 DEF Sums, IsSum

LEMMA SumIsInteger ==
    ASSUME NEW g, NEW S, IsFiniteSet(S), IntegerOn(g, S)
    PROVE  SumFunctionOnSet(g, S) \in Int
<1>1. PICK h : Sums(g, S, h)
  BY SumIsSolution
<1>2. S \in SUBSET S
  OBVIOUS
<1> QED
  BY <1>1, <1>2 DEF Sums

LEMMA SumAgrees ==
    ASSUME NEW g, NEW k, NEW S, IsFiniteSet(S), IntegerOn(g, S), \A x \in S : g[x] = k[x]
    PROVE  IntegerOn(k, S) /\ SumFunctionOnSet(g, S) = SumFunctionOnSet(k, S)
<1>1. IntegerOn(k, S)
  BY DEF IntegerOn
<1>2. PICK h : Sums(g, S, h)
  BY SumIsSolution
<1>3. PICK j : Sums(k, S, j)
  BY <1>1, SumIsSolution
<1>4. h[S] = j[S]
  BY <1>2, <1>3, SumsCoincide DEF Sums
<1> QED
  BY <1>1, <1>2, <1>3, <1>4 DEF Sums

LEMMA SumAdds ==
    ASSUME NEW g, NEW S, IsFiniteSet(S), NEW x, x \notin S, g[x] \in Int, IntegerOn(g, S)
    PROVE  SumFunctionOnSet(g, S \cup {x}) = g[x] + SumFunctionOnSet(g, S)
<1>1. PICK T : T = S \cup {x}
  OBVIOUS
<1>2. IsFiniteSet(T) /\ T \ {x} = S /\ S \in SUBSET T /\ x \in T /\ IntegerOn(g, T)
  BY <1>1, FS_AddElement DEF IntegerOn
<1>3. PICK h : Sums(g, T, h)
  BY <1>2, SumIsSolution
<1>4. PICK j : Sums(g, S, j)
  BY SumIsSolution
<1>5. h[T] = g[x] + h[S]
  BY <1>2, <1>3 DEF Sums
<1>6. h[S] = j[S]
  BY <1>2, <1>3, <1>4, SumsCoincide DEF Sums
<1> QED
  BY <1>1, <1>3, <1>4, <1>5, <1>6 DEF Sums

\* A sum whose function changes at x only changes by as much.
LEMMA SumChanges ==
    ASSUME NEW g, NEW k, NEW S, IsFiniteSet(S), NEW x \in S,
           IntegerOn(g, S), IntegerOn(k, S), \A y \in S : y # x => k[y] = g[y]
    PROVE  SumFunctionOnSet(k, S) = SumFunctionOnSet(g, S) + (k[x] - g[x])
<1> DEFINE T == S \ {x}
<1>1. IsFiniteSet(T) /\ T \cup {x} = S /\ x \notin T
  BY FS_RemoveElement
<1> HIDE DEF T
<1>2. IntegerOn(g, T) /\ IntegerOn(k, T) /\ \A y \in T : g[y] = k[y]
  BY <1>1 DEF IntegerOn
<1>3. PICK rest \in Int : rest = SumFunctionOnSet(g, T) /\ rest = SumFunctionOnSet(k, T)
  BY <1>1, <1>2, SumAgrees, SumIsInteger
<1>a. g[x] \in Int /\ k[x] \in Int
  BY DEF IntegerOn
<1>4. SumFunctionOnSet(g, T \cup {x}) = g[x] + SumFunctionOnSet(g, T)
  BY <1>1, <1>2, <1>a, SumAdds
<1>5. SumFunctionOnSet(k, T \cup {x}) = k[x] + SumFunctionOnSet(k, T)
  BY <1>1, <1>2, <1>a, SumAdds
<1>6. PICK a \in Int, b \in Int : a = g[x] /\ b = k[x]
  BY <1>a
<1>7. SumFunctionOnSet(g, S) = a + rest /\ SumFunctionOnSet(k, S) = b + rest
  BY <1>1, <1>3, <1>4, <1>5, <1>6
<1>8. b + rest = (a + rest) + (b - a)
  OBVIOUS
<1> QED
  BY <1>6, <1>7, <1>8

LEMMA SumOfZeros ==
    ASSUME NEW g, NEW S, IsFiniteSet(S), \A x \in S : g[x] = 0
    PROVE  SumFunctionOnSet(g, S) = 0
<1> DEFINE G == {T \in SUBSET S : SumFunctionOnSet(g, T) = 0}
<1>1. {} \in G
  BY SumOfNone
<1>2. ASSUME NEW T \in SUBSET S, NEW x \in S \ T, T \in G PROVE T \cup {x} \in G
  <2>1. IsFiniteSet(T) /\ g[x] = 0 /\ IntegerOn(g, T)
    BY FS_Subset DEF IntegerOn
  <2>2. SumFunctionOnSet(g, T \cup {x}) = g[x] + SumFunctionOnSet(g, T)
    BY <2>1, SumAdds
  <2> QED
    BY <1>2, <2>1, <2>2
<1> HIDE DEF G
<1>3. S \in G
  BY <1>1, <1>2, AddInduction
<1> QED
  BY <1>3 DEF G

LEMMA SumIsNatural ==
    ASSUME NEW g, NEW S, IsFiniteSet(S), \A x \in S : g[x] \in Nat
    PROVE  SumFunctionOnSet(g, S) \in Nat
<1> DEFINE G == {T \in SUBSET S : SumFunctionOnSet(g, T) \in Nat}
<1>1. {} \in G
  BY SumOfNone
<1>2. ASSUME NEW T \in SUBSET S, NEW x \in S \ T, T \in G PROVE T \cup {x} \in G
  <2>1. IsFiniteSet(T) /\ g[x] \in Nat /\ IntegerOn(g, T)
    BY FS_Subset DEF IntegerOn
  <2>2. SumFunctionOnSet(g, T \cup {x}) = g[x] + SumFunctionOnSet(g, T)
    BY <2>1, SumAdds
  <2> QED
    BY <1>2, <2>1, <2>2
<1> HIDE DEF G
<1>3. S \in G
  BY <1>1, <1>2, AddInduction
<1> QED
  BY <1>3 DEF G

LEMMA SumIsNotPositive ==
    ASSUME NEW g, NEW S, IsFiniteSet(S), \A x \in S : g[x] \in Int /\ g[x] <= 0
    PROVE  SumFunctionOnSet(g, S) \in Int /\ SumFunctionOnSet(g, S) <= 0
<1> DEFINE G == {T \in SUBSET S : /\ SumFunctionOnSet(g, T) \in Int
                                  /\ SumFunctionOnSet(g, T) <= 0}
<1>1. {} \in G
  BY SumOfNone
<1>2. ASSUME NEW T \in SUBSET S, NEW x \in S \ T, T \in G PROVE T \cup {x} \in G
  <2>1. IsFiniteSet(T) /\ IntegerOn(g, T)
    BY FS_Subset DEF IntegerOn
  <2>2. PICK a \in Int, b \in Int : a = g[x] /\ b = SumFunctionOnSet(g, T) /\ a <= 0 /\ b <= 0
    BY <1>2
  <2>3. SumFunctionOnSet(g, T \cup {x}) = a + b
    BY <2>1, <2>2, SumAdds
  <2>4. a + b \in Int /\ a + b <= 0
    BY <2>2
  <2> QED
    BY <2>3, <2>4
<1> HIDE DEF G
<1>3. S \in G
  BY <1>1, <1>2, AddInduction
<1> QED
  BY <1>3 DEF G

\* The sum over two sets that have nothing in common is that of their sums.
LEMMA SumOfUnion ==
    ASSUME NEW g, NEW R, NEW S, IsFiniteSet(R), IsFiniteSet(S), R \cap S = {}, IntegerOn(g, R), IntegerOn(g, S)
    PROVE  SumFunctionOnSet(g, R \cup S) = SumFunctionOnSet(g, R) + SumFunctionOnSet(g, S)
<1> DEFINE G == {T \in SUBSET S : SumFunctionOnSet(g, R \cup T)
                                     = SumFunctionOnSet(g, R) + SumFunctionOnSet(g, T)}
<1>1. PICK b \in Int : b = SumFunctionOnSet(g, R)
  BY SumIsInteger
<1>2. {} \in G
  <2>1. R \cup {} = R /\ SumFunctionOnSet(g, {}) = 0
    BY SumOfNone
  <2> QED
    BY <1>1, <2>1
<1>3. ASSUME NEW T \in SUBSET S, NEW x \in S \ T, T \in G PROVE T \cup {x} \in G
  <2>1. IsFiniteSet(T) /\ g[x] \in Int /\ IntegerOn(g, T)
    BY FS_Subset DEF IntegerOn
  <2>2. SumFunctionOnSet(g, T \cup {x}) = g[x] + SumFunctionOnSet(g, T)
    BY <2>1, SumAdds
  <2>3. PICK V : V = R \cup T
    OBVIOUS
  <2>4. IsFiniteSet(V) /\ x \notin V /\ IntegerOn(g, V) /\ R \cup (T \cup {x}) = V \cup {x}
    BY <2>1, <2>3, FS_Union DEF IntegerOn
  <2>5. SumFunctionOnSet(g, V \cup {x}) = g[x] + SumFunctionOnSet(g, V)
    BY <2>1, <2>4, SumAdds
  <2>6. PICK a \in Int, c \in Int : a = g[x] /\ c = SumFunctionOnSet(g, T)
    BY <2>1, SumIsInteger
  <2>7. SumFunctionOnSet(g, V) = b + c
    BY <1>1, <1>3, <2>3, <2>6
  <2>8. a + (b + c) = b + (a + c)
    OBVIOUS
  <2> QED
    BY <1>1, <2>2, <2>4, <2>5, <2>6, <2>7, <2>8
<1> HIDE DEF G
<1>4. S \in G
  BY <1>2, <1>3, AddInduction
<1> QED
  BY <1>4 DEF G

\* k has at the positions of S, moved by n, what g has at those of S.
MovedBy(S, n) == {i + n : i \in S}
Shows(k, g, S, n) == \A i \in S : k[i + n] = g[i]

\* Elements that all move up by n have the sum they had.
LEMMA SumMoves ==
    ASSUME NEW g, NEW k, NEW n \in Nat, NEW S \in SUBSET Nat, IsFiniteSet(S), IntegerOn(g, S),
           Shows(k, g, S, n)
    PROVE  /\ IsFiniteSet(MovedBy(S, n))
           /\ SumFunctionOnSet(k, MovedBy(S, n)) = SumFunctionOnSet(g, S)
<1> DEFINE G == {T \in SUBSET S : /\ IsFiniteSet({i + n : i \in T})
                                  /\ SumFunctionOnSet(k, {i + n : i \in T}) = SumFunctionOnSet(g, T)}
<1>1. {} \in G
  <2>1. {i + n : i \in {}} = {}
    OBVIOUS
  <2> QED
    BY <2>1, SumOfNone, FS_EmptySet
<1>2. ASSUME NEW T \in SUBSET S, NEW x \in S \ T, T \in G PROVE T \cup {x} \in G
  <2>1. IsFiniteSet(T) /\ g[x] \in Int /\ IntegerOn(g, T)
    BY FS_Subset DEF IntegerOn
  <2>2. SumFunctionOnSet(g, T \cup {x}) = g[x] + SumFunctionOnSet(g, T)
    BY <2>1, SumAdds
  <2>3. PICK V : V = {i + n : i \in T}
    OBVIOUS
  <2>4. PICK y : y = x + n
    OBVIOUS
  <2>5. y \notin V /\ k[y] = g[x] /\ IntegerOn(k, V) /\ {i + n : i \in T \cup {x}} = V \cup {y}
    BY <2>1, <2>3, <2>4 DEF IntegerOn, Shows
  <2>6. IsFiniteSet(V) /\ SumFunctionOnSet(k, V) = SumFunctionOnSet(g, T)
    BY <1>2, <2>3
  <2>7. IsFiniteSet(V \cup {y}) /\ SumFunctionOnSet(k, V \cup {y}) = k[y] + SumFunctionOnSet(k, V)
    BY <2>1, <2>5, <2>6, SumAdds, FS_AddElement
  <2> QED
    BY <2>2, <2>5, <2>6, <2>7
<1> HIDE DEF G
<1>3. S \in G
  BY <1>1, <1>2, AddInduction
<1> QED
  BY <1>3 DEF G, MovedBy

-----------------------------------------------------------------------------
(* The books are lists with the newest record first.                             *)

\* The positions of T past the first n are those of S, moved by n: the sum over T
\* is the sum over the first n and the sum over S.
LEMMA SumOfPrefixed ==
    ASSUME NEW g, NEW k, NEW n \in Nat, NEW S \in SUBSET Nat, IsFiniteSet(S), IntegerOn(g, S),
           Shows(k, g, S, n), NEW T, T \ (1..n) = MovedBy(S, n), IntegerOn(k, T \cap (1..n))
    PROVE  SumFunctionOnSet(k, T) = SumFunctionOnSet(k, T \cap (1..n)) + SumFunctionOnSet(g, S)
<1>1. PICK A : A = T \cap (1..n)
  OBVIOUS
<1>2. PICK B : B = MovedBy(S, n)
  OBVIOUS
<1>3. IsFiniteSet(B) /\ SumFunctionOnSet(k, B) = SumFunctionOnSet(g, S)
  BY <1>2, SumMoves
<1>4. IsFiniteSet(A)
  <2>1. IsFiniteSet(1..n)
    BY FS_Interval
  <2> QED
    BY <1>1, <2>1, FS_Subset
<1>5. IntegerOn(k, B)
  <2>1. ASSUME NEW b \in B PROVE k[b] \in Int
    <3>1. PICK i \in S : b = i + n
      BY <1>2 DEF MovedBy
    <3>2. g[i] \in Int /\ k[b] = g[i]
      BY <3>1 DEF IntegerOn, Shows
    <3> QED
      BY <3>2
  <2> QED
    BY <2>1 DEF IntegerOn
<1>6. A \cup B = T /\ A \cap B = {}
  BY <1>1, <1>2 DEF MovedBy
<1>7. IntegerOn(k, A)
  BY <1>1
<1>8. SumFunctionOnSet(k, A \cup B) = SumFunctionOnSet(k, A) + SumFunctionOnSet(k, B)
  BY <1>3, <1>4, <1>5, <1>6, <1>7, SumOfUnion
<1> QED
  BY <1>1, <1>3, <1>6, <1>8

\* One record in front of the others.
LEMMA SumOfPrepended ==
    ASSUME NEW g, NEW k, NEW S \in SUBSET Nat, IsFiniteSet(S), IntegerOn(g, S),
           Shows(k, g, S, 1), NEW T, T \ {1} = MovedBy(S, 1), k[1] \in Int
    PROVE  SumFunctionOnSet(k, T) = (IF 1 \in T THEN k[1] ELSE 0) + SumFunctionOnSet(g, S)
<1>1. PICK s \in Int : s = SumFunctionOnSet(g, S)
  BY SumIsInteger
<1>2. 1..1 = {1}
  OBVIOUS
<1>3. PICK A : A = T \cap (1..1)
  OBVIOUS
<1>4. IntegerOn(k, A)
  BY <1>2, <1>3 DEF IntegerOn
<1>5. T \ (1..1) = MovedBy(S, 1)
  BY <1>2
<1>6. SumFunctionOnSet(k, T) = SumFunctionOnSet(k, A) + s
  BY <1>1, <1>3, <1>4, <1>5, SumOfPrefixed
<1>7. CASE 1 \in T
  <2>1. A = {} \cup {1} /\ IsFiniteSet({}) /\ 1 \notin {} /\ IntegerOn(k, {})
    BY <1>2, <1>3, <1>7, FS_EmptySet DEF IntegerOn
  <2>2. SumFunctionOnSet(k, {} \cup {1}) = k[1] + SumFunctionOnSet(k, {})
    BY <2>1, SumAdds
  <2>3. SumFunctionOnSet(k, A) = k[1]
    BY <2>1, <2>2, SumOfNone
  <2> QED
    BY <1>1, <1>6, <1>7, <2>3
<1>8. CASE 1 \notin T
  <2>1. A = {}
    BY <1>2, <1>3, <1>8
  <2>2. SumFunctionOnSet(k, A) = 0
    BY <2>1, SumOfNone
  <2> QED
    BY <1>1, <1>6, <1>8, <2>2
<1> QED
  BY <1>7, <1>8

\* A record put in front of the others.
LEMMA Prepended ==
    ASSUME NEW S, NEW s \in Seq(S), NEW e \in S
    PROVE  /\ <<e>> \o s \in Seq(S) /\ Len(<<e>> \o s) = Len(s) + 1 /\ (<<e>> \o s)[1] = e
           /\ \A i \in 1..Len(s) : (<<e>> \o s)[i + 1] = s[i]
<1>1. <<e>> \in Seq(S) /\ Len(<<e>>) = 1 /\ <<e>>[1] = e
  OBVIOUS
<1>2. PICK t : t = <<e>> \o s
  OBVIOUS
<1>3. PICK u \in Seq(S) : u = <<e>>
  BY <1>1
<1>4. PICK l \in Nat : l = Len(s)
  OBVIOUS
<1>5. /\ t \in Seq(S) /\ Len(t) = 1 + l
      /\ \A i \in 1..(1 + l) : t[i] = IF i <= 1 THEN u[i] ELSE s[i - 1]
  BY <1>1, <1>2, <1>3, <1>4, ConcatProperties
<1>6. t[1] = e
  BY <1>1, <1>3, <1>4, <1>5
<1>7. ASSUME NEW i \in 1..l PROVE t[i + 1] = s[i]
  <2>1. PICK j : j = i + 1 /\ j \in 1..(1 + l) /\ ~(j <= 1) /\ j - 1 = i
    BY <1>4, <1>7
  <2> QED
    BY <1>5, <2>1
<1> QED
  BY <1>2, <1>4, <1>5, <1>6, <1>7
=============================================================================
