------------------------------ MODULE SetSums ------------------------------
(***************************************************************************)
(* Sums over finite sets, as the models take them from the community       *)
(* modules: SumOver(f, S) adds up f[x] for the x in S.  The library's      *)
(* operator is a recursive function that picks the elements in an unknown  *)
(* order, so that nothing can be read off its definition; the lemmas below *)
(* say what an invariant needs: the empty sum, one element more or less,   *)
(* one value changed, monotonicity.  They are proved from the definition,  *)
(* by induction in the form `a non-empty set of numbers has a least one',  *)
(* which is stated for sets and not for operators.                         *)
(***************************************************************************)
EXTENDS Integers, FiniteSets, FiniteSetsExt, FiniteSetTheorems,
        WellFoundedInduction, TLAPS

SumOver(f, S) == MapThenSumSet(LAMBDA x : f[x], S)

Pick(s) == CHOOSE x \in s : TRUE

\* One entry of the table behind a sum, computed from the smaller ones.
Entry(f, g, s) == IF s = {} THEN 0 ELSE f[Pick(s)] + g[s \ {Pick(s)}]

SumTable(f, S) == CHOOSE g : g = [s \in SUBSET S |-> Entry(f, g, s)]

-----------------------------------------------------------------------------

\* Every non-empty set of natural numbers has a least element.
LEMMA LeastNatural ==
  ASSUME NEW T \in SUBSET Nat, T # {}
  PROVE  \E m \in T : \A k \in T : m <= k
<1> DEFINE R == {ss \in Nat \X Nat : ss[1] < ss[2]}
<1>1. IsWellFoundedOn(R, Nat)
  BY NatLessThanWellFounded, Zenon DEF OpToRel
<1>2. PICK m \in T : \A k \in T : ~(<<k, m>> \in R)
  <2> HIDE DEF R
  <2> QED BY <1>1, WFMin
<1>3. ASSUME NEW k \in T PROVE m <= k
  <2>1. k \in Nat /\ m \in Nat
    OBVIOUS
  <2>2. <<k, m>> \in Nat \X Nat /\ ~(<<k, m>> \in R)
    BY <1>2, <2>1
  <2>3. ~(<<k, m>>[1] < <<k, m>>[2])
    BY <2>2
  <2> QED BY <2>1, <2>3
<1> QED BY <1>3

\* Picking from a set that is not empty gives one of its elements.
LEMMA PickIn ==
  ASSUME NEW s, s # {}
  PROVE  Pick(s) \in s
BY DEF Pick

\* Induction over the subsets of a finite set: a set Q that contains a subset
\* as soon as it contains what is left without any one of its elements
\* contains all of them.
LEMMA SetInduction ==
  ASSUME NEW S, IsFiniteSet(S), NEW Q,
         \A s \in SUBSET S : (\A x \in s : s \ {x} \in Q) => s \in Q
  PROVE  \A s \in SUBSET S : s \in Q
<1> DEFINE T == {n \in Nat : \E s \in SUBSET S : s \notin Q /\ Cardinality(s) = n}
<1>0. \A s \in SUBSET S : IsFiniteSet(s) /\ Cardinality(s) \in Nat
  BY FS_Subset, FS_CardinalityType
<1>1. SUFFICES ASSUME T # {} PROVE FALSE
  BY <1>0
<1>2. PICK m \in T : \A k \in T : m <= k
  <2>1. T \in SUBSET Nat
    OBVIOUS
  <2> HIDE DEF T
  <2> QED BY <1>1, <2>1, LeastNatural
<1>3. PICK s \in SUBSET S : s \notin Q /\ Cardinality(s) = m
  BY <1>2
<1>4. PICK x \in s : s \ {x} \notin Q
  BY <1>3
<1>5. /\ s \ {x} \in SUBSET S
      /\ Cardinality(s \ {x}) = m - 1
  BY <1>0, <1>3, <1>4, FS_RemoveElement
<1>6. m - 1 \in T
  BY <1>0, <1>4, <1>5
<1> QED BY <1>2, <1>6

-----------------------------------------------------------------------------

\* The library's sum is the last entry of its table.
LEMMA SumIsTable ==
  ASSUME NEW f, NEW S
  PROVE  SumOver(f, S) = SumTable(f, S)[S]
BY DEF SumOver, SumTable, Entry, MapThenSumSet, MapThenFoldSet, Pick

\* The recursion of the library's sum has a solution on a finite set.
LEMMA TableExists ==
  ASSUME NEW f, NEW S, IsFiniteSet(S)
  PROVE  \E g : g = [s \in SUBSET S |-> Entry(f, g, s)]
<1> DEFINE Upto(n) == {s \in SUBSET S : Cardinality(s) <= n}
           Good(g, n) == /\ g = [s \in SUBSET S |-> g[s]]
                         /\ \A s \in Upto(n) : g[s] = Entry(f, g, s)
           T == {n \in Nat : ~ \E g : Good(g, n)}
<1>0. /\ \A s \in SUBSET S : IsFiniteSet(s) /\ Cardinality(s) \in Nat
      /\ \A s \in SUBSET S : s # {} => /\ s \ {Pick(s)} \in SUBSET S
                                       /\ Cardinality(s) # 0
                                       /\ Cardinality(s \ {Pick(s)}) = Cardinality(s) - 1
  <2>1. \A s \in SUBSET S : IsFiniteSet(s) /\ Cardinality(s) \in Nat
    BY FS_Subset, FS_CardinalityType
  <2>2. ASSUME NEW s \in SUBSET S, s # {}
        PROVE  /\ s \ {Pick(s)} \in SUBSET S
               /\ Cardinality(s) # 0
               /\ Cardinality(s \ {Pick(s)}) = Cardinality(s) - 1
    <3>1. IsFiniteSet(s) /\ Pick(s) \in s
      BY <2>1, <2>2, PickIn
    <3> QED BY <2>2, <3>1, FS_RemoveElement, FS_EmptySet
  <2> QED BY <2>1, <2>2
<1>1. \E g : Good(g, 0)
  <2> DEFINE g == [s \in SUBSET S |-> 0]
  <2>1. ASSUME NEW s \in SUBSET S, Cardinality(s) <= 0 PROVE s = {}
    <3>1. Cardinality(s) = 0
      BY <1>0, <2>1
    <3> QED BY <1>0, <3>1
  <2>2. Good(g, 0)
    BY <2>1 DEF Entry
  <2> QED BY <2>2
<1>2. ASSUME NEW m \in Nat, m # 0, \E g : Good(g, m - 1)
      PROVE  \E g : Good(g, m)
  <2>1. PICK g : Good(g, m - 1)
    BY <1>2
  <2> DEFINE h == [s \in SUBSET S |-> IF Cardinality(s) <= m - 1 THEN g[s]
                                      ELSE Entry(f, g, s)]
  <2>2. ASSUME NEW s \in SUBSET S, s # {}, Cardinality(s) <= m
        PROVE  h[s \ {Pick(s)}] = g[s \ {Pick(s)}]
    BY <1>0, <2>2
  <2>3. ASSUME NEW s \in SUBSET S, Cardinality(s) <= m
        PROVE  h[s] = Entry(f, g, s)
    BY <1>0, <2>1, <2>3
  <2>4. ASSUME NEW s \in SUBSET S, Cardinality(s) <= m
        PROVE  h[s] = Entry(f, h, s)
    <3> HIDE DEF h
    <3> QED BY <2>2, <2>3, <2>4 DEF Entry
  <2>5. h = [s \in SUBSET S |-> h[s]]
    OBVIOUS
  <2> HIDE DEF h
  <2> QED BY <2>4, <2>5
<1>3. T = {}
  <2>1. SUFFICES ASSUME T # {} PROVE FALSE
    OBVIOUS
  <2>2. PICK m \in T : \A k \in T : m <= k
    <3>1. T \in SUBSET Nat
      OBVIOUS
    <3> HIDE DEF T
    <3> QED BY <2>1, <3>1, LeastNatural
  <2> HIDE DEF Good
  <2>3. m # 0 /\ m \in Nat
    BY <1>1
  <2>4. m - 1 \in Nat /\ m - 1 \notin T
    BY <2>2, <2>3
  <2> QED BY <1>2, <2>3, <2>4
<1>4. PICK g : Good(g, Cardinality(S))
  <2> HIDE DEF Good
  <2> QED BY <1>0, <1>3
<1>5. \A s \in SUBSET S : Cardinality(s) <= Cardinality(S)
  BY FS_Subset
<1>6. g = [s \in SUBSET S |-> Entry(f, g, s)]
  BY <1>4, <1>5
<1> QED BY <1>6

\* So the table satisfies its recursion.
LEMMA TableEntry ==
  ASSUME NEW f, NEW S, IsFiniteSet(S), NEW s \in SUBSET S
  PROVE  SumTable(f, S)[s] = Entry(f, SumTable(f, S), s)
<1>1. SumTable(f, S) = [u \in SUBSET S |-> Entry(f, SumTable(f, S), u)]
  BY TableExists DEF SumTable
<1> QED BY <1>1, Zenon

\* Sums of functions that agree agree, over tables of different sizes too.
LEMMA TablesAgree ==
  ASSUME NEW f, NEW g, NEW S, IsFiniteSet(S), NEW U \in SUBSET S,
         \A x \in U : f[x] = g[x]
  PROVE  \A s \in SUBSET U : SumTable(f, U)[s] = SumTable(g, S)[s]
<1> DEFINE Q == {s \in SUBSET U : SumTable(f, U)[s] = SumTable(g, S)[s]}
<1>0. IsFiniteSet(U)
  BY FS_Subset
<1>1. ASSUME NEW s \in SUBSET U, \A x \in s : s \ {x} \in Q
      PROVE  s \in Q
  <2>1. /\ SumTable(f, U)[s] = Entry(f, SumTable(f, U), s)
        /\ SumTable(g, S)[s] = Entry(g, SumTable(g, S), s)
    BY <1>0, TableEntry
  <2>2. CASE s = {}
    BY <2>1, <2>2 DEF Entry
  <2>3. CASE s # {}
    <3>1. Pick(s) \in s
      BY <2>3, PickIn
    <3>2. f[Pick(s)] = g[Pick(s)] /\ s \ {Pick(s)} \in Q
      BY <1>1, <3>1
    <3> QED BY <2>1, <2>3, <3>2 DEF Entry
  <2> QED BY <2>2, <2>3
<1>2. \A s \in SUBSET U : s \in Q
  <2> HIDE DEF Q
  <2> QED BY <1>0, <1>1, SetInduction
<1> QED BY <1>2

-----------------------------------------------------------------------------

\* The sum over no element is zero.
LEMMA SumEmpty == \A f : SumOver(f, {}) = 0
BY SumIsTable, TableEntry, FS_EmptySet DEF Entry

\* A sum depends only on the values it adds up.
LEMMA SumCongruence ==
  ASSUME NEW f, NEW g, NEW S, IsFiniteSet(S), \A x \in S : f[x] = g[x]
  PROVE  SumOver(f, S) = SumOver(g, S)
BY SumIsTable, TablesAgree

\* The element the library picks first comes off the sum.
LEMMA SumPick ==
  ASSUME NEW f, NEW S, IsFiniteSet(S), S # {}
  PROVE  SumOver(f, S) = f[Pick(S)] + SumOver(f, S \ {Pick(S)})
<1> DEFINE U == S \ {Pick(S)}
<1>1. SumOver(f, S) = f[Pick(S)] + SumTable(f, S)[U]
  BY SumIsTable, TableEntry DEF Entry
<1>2. SumTable(f, U)[U] = SumTable(f, S)[U]
  BY TablesAgree
<1> QED BY <1>1, <1>2, SumIsTable

\* A sum of integers is an integer.
LEMMA SumType ==
  ASSUME NEW S, IsFiniteSet(S), NEW f, \A x \in S : f[x] \in Int
  PROVE  SumOver(f, S) \in Int
<1> DEFINE Q == {s \in SUBSET S : SumOver(f, s) \in Int}
<1>1. ASSUME NEW s \in SUBSET S, \A x \in s : s \ {x} \in Q
      PROVE  s \in Q
  <2>1. CASE s = {}
    BY <2>1, SumEmpty
  <2>2. CASE s # {}
    <3>1. Pick(s) \in s /\ IsFiniteSet(s)
      BY <2>2, PickIn, FS_Subset
    <3>2. SumOver(f, s) = f[Pick(s)] + SumOver(f, s \ {Pick(s)})
      BY <2>2, <3>1, SumPick
    <3> QED BY <1>1, <3>1, <3>2
  <2> QED BY <2>1, <2>2
<1>2. \A s \in SUBSET S : s \in Q
  <2> HIDE DEF Q
  <2> QED BY <1>1, SetInduction
<1> QED BY <1>2

\* Any element comes off the sum: the order of adding up does not matter.
LEMMA SumRemove ==
  ASSUME NEW S, IsFiniteSet(S), NEW f, \A x \in S : f[x] \in Int, NEW y \in S
  PROVE  SumOver(f, S) = f[y] + SumOver(f, S \ {y})
<1> DEFINE Q == {s \in SUBSET S :
                   \A x \in s : SumOver(f, s) = f[x] + SumOver(f, s \ {x})}
<1>1. ASSUME NEW s \in SUBSET S, \A x \in s : s \ {x} \in Q, NEW x \in s
      PROVE  SumOver(f, s) = f[x] + SumOver(f, s \ {x})
  <2> DEFINE p == Pick(s)
  <2>1. p \in s /\ IsFiniteSet(s)
    BY PickIn, FS_Subset
  <2>2. SumOver(f, s) = f[p] + SumOver(f, s \ {p})
    BY <2>1, SumPick
  <2> HIDE DEF p
  <2>3. CASE x = p
    BY <2>2, <2>3
  <2>4. CASE x # p
    <3>1. SumOver(f, s \ {p}) = f[x] + SumOver(f, (s \ {p}) \ {x})
      BY <1>1, <2>1, <2>4
    <3>2. SumOver(f, s \ {x}) = f[p] + SumOver(f, (s \ {x}) \ {p})
      BY <1>1, <2>1, <2>4
    <3>3. SumOver(f, s \ {p}) = f[x] + SumOver(f, (s \ {x}) \ {p})
      <4>1. (s \ {p}) \ {x} = (s \ {x}) \ {p}
        OBVIOUS
      <4> QED BY <3>1, <4>1, Zenon
    <3>4. f[x] \in Int /\ f[p] \in Int /\ SumOver(f, (s \ {x}) \ {p}) \in Int
      <4>1. IsFiniteSet((s \ {x}) \ {p})
        BY <2>1, FS_Subset
      <4> QED BY <2>1, <4>1, SumType
    <3>5. \A a, b, c \in Int : a + (b + c) = b + (a + c)
      OBVIOUS
    <3> HIDE DEF Q
    <3> QED BY <2>2, <3>2, <3>3, <3>4, <3>5
  <2> QED BY <2>3, <2>4
<1>2. \A s \in SUBSET S : (\A x \in s : s \ {x} \in Q) => s \in Q
  BY <1>1
<1>3. \A s \in SUBSET S : s \in Q
  <2> HIDE DEF Q
  <2> QED BY <1>2, SetInduction
<1> QED BY <1>3

\* One element more.
LEMMA SumAdd ==
  ASSUME NEW S, IsFiniteSet(S), NEW f, NEW y, y \notin S,
         \A x \in S \cup {y} : f[x] \in Int
  PROVE  SumOver(f, S \cup {y}) = SumOver(f, S) + f[y]
<1>1. IsFiniteSet(S \cup {y}) /\ (S \cup {y}) \ {y} = S
  BY FS_AddElement
<1>2. SumOver(f, S \cup {y}) = f[y] + SumOver(f, S)
  BY <1>1, SumRemove
<1>3. SumOver(f, S) \in Int
  BY SumType
<1> QED BY <1>2, <1>3

\* One value changed: the sum changes by the difference.
LEMMA SumUpdate ==
  ASSUME NEW S, IsFiniteSet(S), NEW f, NEW g, NEW y \in S,
         \A x \in S : f[x] \in Int /\ g[x] \in Int,
         \A x \in S \ {y} : g[x] = f[x]
  PROVE  SumOver(g, S) = SumOver(f, S) + (g[y] - f[y])
<1>1. IsFiniteSet(S \ {y})
  BY FS_Subset
<1>2. SumOver(f, S \ {y}) = SumOver(g, S \ {y}) /\ SumOver(f, S \ {y}) \in Int
  BY <1>1, SumCongruence, SumType
<1>3. /\ SumOver(f, S) = f[y] + SumOver(f, S \ {y})
      /\ SumOver(g, S) = g[y] + SumOver(g, S \ {y})
  BY SumRemove
<1> QED BY <1>2, <1>3

\* One value of a function overwritten: the sum changes by the difference.
LEMMA SumExcept ==
  ASSUME NEW S, IsFiniteSet(S), NEW f \in [S -> Int], NEW x \in S, NEW b \in Int
  PROVE  SumOver([f EXCEPT ![x] = b], S) = SumOver(f, S) + (b - f[x])
<1> DEFINE g == [f EXCEPT ![x] = b]
<1>1. /\ \A y \in S : f[y] \in Int /\ g[y] \in Int
      /\ \A y \in S \ {x} : g[y] = f[y]
      /\ g[x] = b
  OBVIOUS
<1> HIDE DEF g
<1>2. SumOver(g, S) = SumOver(f, S) + (g[x] - f[x])
  BY <1>1, SumUpdate
<1> QED BY <1>1, <1>2 DEF g

\* Larger values have a larger sum.
LEMMA SumMonotone ==
  ASSUME NEW S, IsFiniteSet(S), NEW f, NEW g,
         \A x \in S : f[x] \in Int /\ g[x] \in Int /\ f[x] <= g[x]
  PROVE  SumOver(f, S) <= SumOver(g, S)
<1> DEFINE Q == {s \in SUBSET S : SumOver(f, s) <= SumOver(g, s)}
<1>1. ASSUME NEW s \in SUBSET S, \A x \in s : s \ {x} \in Q
      PROVE  s \in Q
  <2>1. CASE s = {}
    BY <2>1, SumEmpty
  <2>2. CASE s # {}
    <3>1. PICK p \in s : TRUE
      BY <2>2
    <3>2. IsFiniteSet(s) /\ IsFiniteSet(s \ {p})
      BY FS_Subset
    <3>3. /\ SumOver(f, s) = f[p] + SumOver(f, s \ {p})
          /\ SumOver(g, s) = g[p] + SumOver(g, s \ {p})
          /\ SumOver(f, s \ {p}) \in Int /\ SumOver(g, s \ {p}) \in Int
      BY <3>2, SumRemove, SumType
    <3>4. SumOver(f, s \ {p}) <= SumOver(g, s \ {p})
      BY <1>1
    <3> QED BY <3>3, <3>4
  <2> QED BY <2>1, <2>2
<1>2. \A s \in SUBSET S : s \in Q
  <2> HIDE DEF Q
  <2> QED BY <1>1, SetInduction
<1> QED BY <1>2

\* A sum of one and the same value.
LEMMA SumConstant ==
  ASSUME NEW S, IsFiniteSet(S), NEW f, NEW c \in Int, \A x \in S : f[x] = c
  PROVE  SumOver(f, S) = c * Cardinality(S)
<1> DEFINE Q == {s \in SUBSET S : SumOver(f, s) = c * Cardinality(s)}
<1>1. ASSUME NEW s \in SUBSET S, \A x \in s : s \ {x} \in Q
      PROVE  s \in Q
  <2>1. CASE s = {}
    BY <2>1, SumEmpty, FS_EmptySet
  <2>2. CASE s # {}
    <3>1. PICK p \in s : TRUE
      BY <2>2
    <3>2. IsFiniteSet(s)
      BY FS_Subset
    <3>3. SumOver(f, s) = c + SumOver(f, s \ {p})
      BY <3>2, SumRemove
    <3>4. Cardinality(s \ {p}) = Cardinality(s) - 1 /\ Cardinality(s) \in Nat
      BY <3>2, FS_RemoveElement, FS_CardinalityType
    <3>5. SumOver(f, s \ {p}) = c * (Cardinality(s) - 1)
      BY <1>1, <3>4
    <3>6. \A n \in Nat : c + c * (n - 1) = c * n
      OBVIOUS
    <3> QED BY <3>3, <3>4, <3>5, <3>6
  <2> QED BY <2>1, <2>2
<1>2. \A s \in SUBSET S : s \in Q
  <2> HIDE DEF Q
  <2> QED BY <1>1, SetInduction
<1> QED BY <1>2

\* Without negative values no part of a sum exceeds it, and no part is negative.
LEMMA SumSubset ==
  ASSUME NEW S, IsFiniteSet(S), NEW f, \A x \in S : f[x] \in Nat,
         NEW U \in SUBSET S
  PROVE  0 <= SumOver(f, U) /\ SumOver(f, U) <= SumOver(f, S)
<1> DEFINE g == [x \in S |-> 0]
           h == [x \in S |-> IF x \in U THEN f[x] ELSE 0]
           Q == {s \in SUBSET S : SumOver(h, s) = SumOver(f, s \cap U)}
<1>1. ASSUME NEW s \in SUBSET S, \A x \in s : s \ {x} \in Q
      PROVE  s \in Q
  <2>1. CASE s = {}
    BY <2>1, SumEmpty
  <2>2. CASE s # {}
    <3>1. PICK p \in s : TRUE
      BY <2>2
    <3>2. IsFiniteSet(s) /\ IsFiniteSet(s \cap U) /\ IsFiniteSet(s \ {p})
      BY FS_Subset
    <3>3. SumOver(h, s) = h[p] + SumOver(h, s \ {p})
      BY <3>2, SumRemove
    <3>4. SumOver(h, s \ {p}) = SumOver(f, (s \ {p}) \cap U)
      BY <1>1
    <3>5. SumOver(h, s \ {p}) \in Int
      BY <3>2, SumType
    <3>6. CASE p \in U
      <4>1. (s \ {p}) \cap U = (s \cap U) \ {p} /\ p \in s \cap U
        BY <3>6
      <4>2. SumOver(f, s \cap U) = f[p] + SumOver(f, (s \cap U) \ {p})
        BY <3>2, <4>1, SumRemove
      <4> QED BY <3>3, <3>4, <3>6, <4>1, <4>2
    <3>7. CASE p \notin U
      <4>1. (s \ {p}) \cap U = s \cap U
        BY <3>7
      <4>2. h[p] = 0
        BY <3>7
      <4>3. SumOver(h, s) = SumOver(h, s \ {p})
        <5> HIDE DEF h
        <5> QED BY <3>3, <3>5, <4>2
      <4>4. SumOver(h, s) = SumOver(f, s \cap U)
        <5> HIDE DEF h
        <5> QED BY <3>4, <4>1, <4>3, Zenon
      <4> QED BY <4>4
    <3> QED BY <3>6, <3>7
  <2> QED BY <2>1, <2>2
<1>2. \A s \in SUBSET S : s \in Q
  <2> HIDE DEF Q
  <2> QED BY <1>1, SetInduction
<1>3. SumOver(h, S) = SumOver(f, U)
  <2>1. S \cap U = U
    OBVIOUS
  <2> QED BY <1>2, <2>1
<1>4. SumOver(h, S) <= SumOver(f, S) /\ SumOver(g, S) <= SumOver(h, S)
  BY SumMonotone
<1>5. SumOver(g, S) = 0
  <2>1. SumOver(g, S) = 0 * Cardinality(S)
    BY SumConstant
  <2> QED BY <2>1, FS_CardinalityType
<1> QED BY <1>3, <1>4, <1>5

\* Without negative values no element exceeds the sum.
LEMMA SumElement ==
  ASSUME NEW S, IsFiniteSet(S), NEW f, \A x \in S : f[x] \in Nat, NEW y \in S
  PROVE  f[y] <= SumOver(f, S)
<1>1. SumOver(f, S) = f[y] + SumOver(f, S \ {y})
  BY SumRemove
<1>2. IsFiniteSet(S \ {y})
  BY FS_Subset
<1>3. 0 <= SumOver(f, S \ {y}) /\ SumOver(f, S \ {y}) \in Int
  BY <1>2, SumSubset, SumType
<1> QED BY <1>1, <1>3
=============================================================================
