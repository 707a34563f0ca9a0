---------------------------- MODULE MatricesProofs ----------------------------
(***************************************************************************)
(* The numbers of the library, as parts of Tensorlib.  The table of        *)
(* binomials, for every size: its rows count the subsets of a set by their *)
(* size.  The matrices, for all sizes and values: an operation with        *)
(* run-time sizes is off by no more than what it flushes.                  *)
(***************************************************************************)
EXTENDS Tensorlib, FiniteSetTheorems, WellFoundedInduction, TLAPS

-----------------------------------------------------------------------------
(* Binomial coefficients *)

Less == {p \in Nat \X Nat : p[1] < p[2]}

\* A set of numbers has a smallest one: the induction over the rows of the table, of a property
\* written as the set of the numbers that do not have it.
LEMMA SmallestNumber ==
  ASSUME NEW S \in SUBSET Nat, S # {}
  PROVE  \E x \in S : \A y \in S : x <= y
<1>1. IsWellFoundedOn(Less, Nat)
  BY NatLessThanWellFounded DEF OpToRel, Less
<1>2. ASSUME NEW y \in Nat, NEW z \in Nat, y < z PROVE <<y, z>> \in Less
  BY <1>2 DEF Less
<1>3. PICK x \in S : \A y \in S : ~(<<y, x>> \in Less)
  BY <1>1, WFMin
<1>4. ASSUME NEW y \in S PROVE x <= y
  <2>1. ~(y < x)
    BY <1>2, <1>3
  <2> QED BY <2>1
<1> QED BY <1>4

\* The subsets of k elements
Sets(n, k) == {s \in SUBSET (1..n) : Cardinality(s) = k}

LEMMA SubsetsAreFinite ==
  ASSUME NEW n \in Nat, NEW s \in SUBSET (1..n)
  PROVE  IsFiniteSet(s) /\ Cardinality(s) \in Nat /\ Cardinality(s) <= n
<1>1. IsFiniteSet(1..n) /\ Cardinality(1..n) = n
  BY FS_Interval
<1> QED BY <1>1, FS_Subset, FS_CardinalityType

LEMMA SetsAreFinite ==
  ASSUME NEW n \in Nat, NEW k \in Int
  PROVE  IsFiniteSet(Sets(n, k)) /\ Cardinality(Sets(n, k)) \in Nat /\ Choose(n, k) = Cardinality(Sets(n, k))
<1>1. IsFiniteSet(1..n)
  BY FS_Interval
<1>2. IsFiniteSet(SUBSET (1..n)) /\ Sets(n, k) \in SUBSET (SUBSET (1..n))
  BY <1>1, FS_SUBSET DEF Sets
<1>3. IsFiniteSet(Sets(n, k))
  BY <1>2, FS_Subset
<1>4. Choose(n, k) = Cardinality(Sets(n, k))
  BY DEF Choose, Sets
<1> QED BY <1>3, <1>4, FS_CardinalityType

\* No subset has more elements, and one has none, and one has all.
LEMMA ChooseEnds ==
  ASSUME NEW n \in Nat
  PROVE  Choose(n, 0) = 1 /\ Choose(n, n) = 1 /\ \A k \in Nat : k > n => Choose(n, k) = 0
<1>1. IsFiniteSet(1..n) /\ Cardinality(1..n) = n
  BY FS_Interval
<1>2. Sets(n, 0) = {{}}
  <2>1. ASSUME NEW s \in SUBSET (1..n), Cardinality(s) = 0 PROVE s = {}
    BY <2>1, <1>1, FS_Subset, FS_EmptySet
  <2> QED BY <2>1, FS_EmptySet DEF Sets
<1>3. Sets(n, n) = {1..n}
  <2>1. ASSUME NEW s \in SUBSET (1..n), Cardinality(s) = n PROVE s = 1..n
    BY <2>1, <1>1, FS_Subset
  <2> QED BY <2>1, <1>1 DEF Sets
<1>4. ASSUME NEW k \in Nat, k > n PROVE Sets(n, k) = {}
  <2>1. ASSUME NEW s \in SUBSET (1..n) PROVE Cardinality(s) # k
    <3>1. Cardinality(s) \in Nat /\ Cardinality(s) <= n
      BY SubsetsAreFinite
    <3> QED BY <1>4, <3>1
  <2> QED BY <2>1 DEF Sets
<1>5. Choose(n, 0) = Cardinality({{}}) /\ Choose(n, n) = Cardinality({1..n})
  BY <1>2, <1>3 DEF Choose, Sets
<1>6. \A k \in Nat : k > n => Choose(n, k) = 0
  BY <1>4, FS_EmptySet DEF Choose, Sets
<1> QED BY <1>5, <1>6, FS_Singleton

\* There are as many subsets as complements.
LEMMA ChooseSymmetric ==
  ASSUME NEW n \in Nat, NEW k \in 0..n
  PROVE  Choose(n, k) = Choose(n, n - k)
<1> DEFINE A == Sets(n, k)
           B == Sets(n, n - k)
           f == [s \in A |-> (1..n) \ s]
<1>1. IsFiniteSet(1..n) /\ Cardinality(1..n) = n
  BY FS_Interval
<1>2. ASSUME NEW s \in SUBSET (1..n)
      PROVE  /\ Cardinality((1..n) \ s) = n - Cardinality(s)
             /\ (1..n) \ ((1..n) \ s) = s /\ (1..n) \ s \in SUBSET (1..n)
  <2>1. (1..n) \cap s = s
    OBVIOUS
  <2>2. Cardinality((1..n) \ s) = Cardinality(1..n) - Cardinality((1..n) \cap s)
    BY <1>1, FS_Difference
  <2>3. Cardinality((1..n) \ s) = n - Cardinality(s)
    BY <1>1, <2>1, <2>2
  <2>4. (1..n) \ ((1..n) \ s) = s
    OBVIOUS
  <2> QED BY <2>3, <2>4
<1>3. A \subseteq SUBSET (1..n) /\ B \subseteq SUBSET (1..n)
      /\ (\A s \in A : Cardinality(s) = k) /\ (\A s \in B : Cardinality(s) = n - k)
      /\ (\A s \in SUBSET (1..n) : (Cardinality(s) = k => s \in A) /\ (Cardinality(s) = n - k => s \in B))
  BY DEF Sets
<1>4. n - (n - k) = k
  OBVIOUS
<1>5. IsFiniteSet(A) /\ Cardinality(A) = Choose(n, k) /\ Cardinality(B) = Choose(n, n - k)
  <2>1. k \in Int /\ n - k \in Int
    OBVIOUS
  <2> QED BY <2>1, SetsAreFinite
<1> HIDE DEF A, B
<1>6. f \in [A -> B]
  BY <1>2, <1>3
<1>7. f \in Injection(A, B)
  <2>1. ASSUME NEW s \in A, NEW t \in A, f[s] = f[t] PROVE s = t
    <3>1. (1..n) \ s = (1..n) \ t
      BY <2>1
    <3> QED BY <3>1, <1>2, <1>3
  <2> QED BY <1>6, <2>1 DEF Injection, IsInjective
<1>8. f \in Surjection(A, B)
  <2>1. ASSUME NEW t \in B PROVE \E s \in A : f[s] = t
    <3>1. (1..n) \ t \in A
      BY <1>2, <1>3, <1>4
    <3>2. f[(1..n) \ t] = t
      BY <3>1, <1>2, <1>3
    <3> QED BY <3>1, <3>2
  <2> QED BY <1>6, <2>1 DEF Surjection
<1>9. ExistsBijection(A, B)
  BY <1>7, <1>8 DEF ExistsBijection, Bijection
<1> QED BY <1>5, <1>9, FS_Bijection

\* A subset of one element more has the new element or not.
LEMMA Pascal ==
  ASSUME NEW n \in Nat, NEW k \in Nat \ {0}
  PROVE  Choose(n + 1, k) = Choose(n, k - 1) + Choose(n, k)
<1> DEFINE A == Sets(n, k - 1)
           B == Sets(n, k)
           C3 == {s \cup {n + 1} : s \in A}
           f == [s \in A |-> s \cup {n + 1}]
<1>1. /\ IsFiniteSet(A) /\ Cardinality(A) = Choose(n, k - 1) /\ Cardinality(A) \in Nat
      /\ IsFiniteSet(B) /\ Cardinality(B) = Choose(n, k) /\ Cardinality(B) \in Nat
      /\ Cardinality(Sets(n + 1, k)) = Choose(n + 1, k)
  <2>1. k \in Int /\ k - 1 \in Int /\ n + 1 \in Nat
    OBVIOUS
  <2>2. IsFiniteSet(A) /\ Cardinality(A) = Choose(n, k - 1) /\ Cardinality(A) \in Nat
    BY <2>1, SetsAreFinite
  <2>3. IsFiniteSet(B) /\ Cardinality(B) = Choose(n, k) /\ Cardinality(B) \in Nat
    BY <2>1, SetsAreFinite
  <2>4. Cardinality(Sets(n + 1, k)) = Choose(n + 1, k)
    BY <2>1, SetsAreFinite
  <2> QED BY <2>2, <2>3, <2>4
<1>2. ASSUME NEW s \in SUBSET (1..n)
      PROVE  /\ n + 1 \notin s /\ (s \cup {n + 1}) \ {n + 1} = s
             /\ IsFiniteSet(s) /\ Cardinality(s) \in Nat /\ Cardinality(s \cup {n + 1}) = Cardinality(s) + 1
             /\ s \cup {n + 1} \in SUBSET (1..(n + 1))
  <2>1. n + 1 \notin s
    OBVIOUS
  <2>2. IsFiniteSet(s) /\ Cardinality(s) \in Nat
    BY SubsetsAreFinite
  <2>3. Cardinality(s \cup {n + 1}) = Cardinality(s) + 1
    BY <2>1, <2>2, FS_AddElement
  <2>4. s \cup {n + 1} \in SUBSET (1..(n + 1))
    OBVIOUS
  <2> QED BY <2>1, <2>2, <2>3, <2>4
<1>3. /\ A \subseteq SUBSET (1..n) /\ B \subseteq SUBSET (1..n)
      /\ (\A s \in A : Cardinality(s) = k - 1) /\ (\A s \in B : Cardinality(s) = k)
      /\ (\A s \in SUBSET (1..n) : (Cardinality(s) = k - 1 => s \in A) /\ (Cardinality(s) = k => s \in B))
  BY DEF Sets
<1>4. Sets(n + 1, k) = B \cup C3
  <2>1. ASSUME NEW s \in Sets(n + 1, k) PROVE s \in B \cup C3
    <3>1. s \in SUBSET (1..(n + 1)) /\ Cardinality(s) = k
      BY DEF Sets
    <3>2. CASE n + 1 \notin s
      <4>1. s \in SUBSET (1..n)
        BY <3>1, <3>2
      <4> QED BY <4>1, <3>1, <1>3
    <3>3. CASE n + 1 \in s
      <4>1. s \ {n + 1} \in SUBSET (1..n) /\ s = (s \ {n + 1}) \cup {n + 1}
        BY <3>1, <3>3
      <4>2. Cardinality(s \ {n + 1}) \in Nat /\ Cardinality(s) = Cardinality(s \ {n + 1}) + 1
        BY <4>1, <1>2
      <4>3. Cardinality(s \ {n + 1}) = k - 1
        BY <4>2, <3>1
      <4>4. s \ {n + 1} \in A
        BY <4>1, <4>3, <1>3
      <4> QED BY <4>1, <4>4
    <3> QED BY <3>2, <3>3
  <2>2. ASSUME NEW s \in B PROVE s \in Sets(n + 1, k)
    <3>1. s \in SUBSET (1..n) /\ Cardinality(s) = k
      BY <1>3
    <3>2. s \in SUBSET (1..(n + 1))
      BY <3>1
    <3> QED BY <3>1, <3>2 DEF Sets
  <2>3. ASSUME NEW s \in A PROVE s \cup {n + 1} \in Sets(n + 1, k)
    <3>1. s \in SUBSET (1..n) /\ Cardinality(s) = k - 1
      BY <1>3
    <3>2. Cardinality(s \cup {n + 1}) = k /\ s \cup {n + 1} \in SUBSET (1..(n + 1))
      BY <3>1, <1>2
    <3> QED BY <3>2 DEF Sets
  <2> HIDE DEF A, B
  <2> QED BY <2>1, <2>2, <2>3
<1> HIDE DEF A, B
<1>5. B \cap C3 = {}
  BY <1>2, <1>3
<1>6. f \in Bijection(A, C3)
  <2>1. f \in [A -> C3] /\ \A t \in C3 : \E s \in A : f[s] = t
    OBVIOUS
  <2>2. ASSUME NEW s \in A, NEW t \in A, f[s] = f[t] PROVE s = t
    <3>1. s \cup {n + 1} = t \cup {n + 1}
      BY <2>2
    <3>2. (s \cup {n + 1}) \ {n + 1} = s /\ (t \cup {n + 1}) \ {n + 1} = t
      BY <1>2, <1>3
    <3> QED BY <3>1, <3>2
  <2> HIDE DEF f, C3
  <2> QED BY <2>1, <2>2 DEF Bijection, Injection, Surjection, IsInjective
<1>7. IsFiniteSet(C3) /\ Cardinality(C3) = Cardinality(A)
  BY <1>1, <1>6, FS_Bijection DEF ExistsBijection
<1> HIDE DEF C3
<1>8. Cardinality(B \cup C3) = Cardinality(B) + Cardinality(C3) - Cardinality({})
  BY <1>1, <1>5, <1>7, FS_Union
<1>9. Cardinality({}) = 0
  BY FS_EmptySet
<1>10. PICK a, b \in Nat : a = Cardinality(A) /\ b = Cardinality(B)
  BY <1>1
<1>11. Cardinality(B \cup C3) = b + a
  BY <1>7, <1>8, <1>9, <1>10
<1>12. Choose(n + 1, k) = b + a
  BY <1>1, <1>4, <1>11, Zenon
<1>13. Choose(n, k - 1) = a /\ Choose(n, k) = b
  BY <1>1, <1>10, Zenon
<1>14. b + a = a + b
  OBVIOUS
<1> QED BY <1>12, <1>13, <1>14, Zenon

\* A number below the modulus is its own remainder.
LEMMA SmallIsWhole ==
  ASSUME NEW x \in Nat, x < Wrap
  PROVE  Wrapped(x) = x
<1>1. Wrap \in Nat \ {0, 1}
  BY BinomialsAssumption
<1> QED BY <1>1 DEF Wrapped

LEMMA RemainderIs ==
  ASSUME NEW q \in Nat, NEW r \in Nat, r < Wrap
  PROVE  Wrapped(q * Wrap + r) = r
<1>1. Wrap \in Nat \ {0, 1}
  BY BinomialsAssumption
<1> QED BY <1>1 DEF Wrapped

\* Quotient and remainder: the smallest number that is left when multiples are taken away
LEMMA Divided ==
  ASSUME NEW x \in Nat
  PROVE  Wrapped(x) \in Nat /\ Wrapped(x) < Wrap /\ \E q \in Nat : x = q * Wrap + Wrapped(x)
<1>1. Wrap \in Nat \ {0, 1}
  BY BinomialsAssumption
<1> DEFINE Left == {r \in Nat : \E q \in Nat : x = q * Wrap + r}
<1>2. x \in Left
  <2>1. 0 \in Nat /\ x = 0 * Wrap + x
    BY <1>1
  <2> QED BY <2>1
<1>3. PICK r \in Left : \A y \in Left : r <= y
  <2>1. Left \subseteq Nat /\ Left # {}
    BY <1>2
  <2> HIDE DEF Left
  <2> QED BY <2>1, SmallestNumber
<1>4. PICK q \in Nat : x = q * Wrap + r
  OBVIOUS
<1>5. r \in Nat /\ r < Wrap
  <2> SUFFICES ASSUME r >= Wrap PROVE FALSE
    BY <1>1
  <2>1. (q + 1) * Wrap = q * Wrap + Wrap /\ q * Wrap \in Nat
    BY <1>1
  <2>2. x = (q + 1) * Wrap + (r - Wrap) /\ r - Wrap \in Nat /\ r - Wrap < r /\ q + 1 \in Nat
    BY <1>1, <1>4, <2>1
  <2>3. r - Wrap \in Left
    BY <2>2
  <2>4. r <= r - Wrap
    <3> HIDE DEF Left
    <3> QED BY <1>3, <2>3
  <2>5. r \in Nat
    OBVIOUS
  <2> HIDE DEF Left
  <2> QED BY <2>2, <2>4, <2>5
<1>6. Wrapped(x) = r
  BY <1>4, <1>5, RemainderIs
<1> QED BY <1>4, <1>5, <1>6

\* What is lost of two numbers does not matter to what is kept of their sum.
LEMMA WrappedSum ==
  ASSUME NEW a \in Nat, NEW b \in Nat
  PROVE  Wrapped(Wrapped(a) + Wrapped(b)) = Wrapped(a + b)
<1>0. Wrap \in Nat \ {0, 1}
  BY BinomialsAssumption
<1>1. PICK q \in Nat : a = q * Wrap + Wrapped(a)
  BY Divided
<1>2. PICK r \in Nat : b = r * Wrap + Wrapped(b)
  BY Divided
<1> DEFINE s == Wrapped(a) + Wrapped(b)
<1>3. s \in Nat
  BY Divided
<1>4. PICK t \in Nat : s = t * Wrap + Wrapped(s)
  BY <1>3, Divided
<1>5. Wrapped(s) \in Nat /\ Wrapped(s) < Wrap /\ Wrapped(a) \in Nat /\ Wrapped(b) \in Nat
  BY <1>3, Divided
<1>6. a + b = (q + r + t) * Wrap + Wrapped(s)
  <2>1. (q + r + t) * Wrap = q * Wrap + r * Wrap + t * Wrap
    BY <1>0
  <2>2. q * Wrap \in Nat /\ r * Wrap \in Nat /\ t * Wrap \in Nat
    BY <1>0
  <2>3. a + b = q * Wrap + r * Wrap + s
    BY <1>1, <1>2, <1>5, <2>2
  <2> HIDE DEF s
  <2> QED BY <1>4, <1>5, <2>1, <2>2, <2>3
<1>7. q + r + t \in Nat
  OBVIOUS
<1> HIDE DEF s
<1>8. Wrapped((q + r + t) * Wrap + Wrapped(s)) = Wrapped(s)
  BY <1>5, <1>7, RemainderIs
<1> QED BY <1>6, <1>8 DEF s

LEMMA RowHas ==
  ASSUME NEW n \in Nat
  PROVE  /\ Row(n) \in Seq(Nat) /\ Len(Row(n)) = n + 1
         /\ \A i \in 1..(n + 1) : Row(n)[i] = Wrapped(Choose(n, i - 1))
<1>1. ASSUME NEW i \in 1..(n + 1) PROVE Wrapped(Choose(n, i - 1)) \in Nat
  <2>1. i - 1 \in Int
    OBVIOUS
  <2> QED BY <2>1, SetsAreFinite, Divided
<1>2. Row(n) = [i \in 1..(n + 1) |-> Wrapped(Choose(n, i - 1))] /\ n + 1 \in Nat
  BY DEF Row
<1> QED BY <1>1, <1>2

\* A row that is added has what Pascal's rule asks for.
LEMMA RowAfterIsNext ==
  ASSUME NEW n \in Nat
  PROVE  RowAfter(Row(n)) = Row(n + 1)
<1>0. Wrapped(1) = 1
  BY SmallIsWhole, BinomialsAssumption
<1>1. Len(Row(n)) = n + 1 /\ \A i \in 1..(n + 1) : Row(n)[i] = Wrapped(Choose(n, i - 1))
  BY RowHas
<1>2. ASSUME NEW i \in 1..(n + 2)
      PROVE  (IF i \in {1, n + 2} THEN 1 ELSE Wrapped(Row(n)[i - 1] + Row(n)[i])) = Wrapped(Choose(n + 1, i - 1))
  <2>1. CASE i = 1
    <3>1. n + 1 \in Nat /\ i - 1 = 0
      BY <2>1
    <3> QED BY <1>0, <2>1, <3>1, ChooseEnds
  <2>2. CASE i = n + 2
    <3>1. n + 1 \in Nat /\ i - 1 = n + 1
      BY <2>2
    <3> QED BY <1>0, <2>2, <3>1, ChooseEnds
  <2>3. CASE i \notin {1, n + 2}
    <3>1. i - 1 \in Nat \ {0} /\ i - 1 \in 1..(n + 1) /\ i \in 1..(n + 1)
      BY <2>3
    <3>2. Row(n)[i - 1] = Wrapped(Choose(n, (i - 1) - 1)) /\ Row(n)[i] = Wrapped(Choose(n, i - 1))
      BY <1>1, <3>1
    <3>3. Choose(n + 1, i - 1) = Choose(n, (i - 1) - 1) + Choose(n, i - 1)
      BY <3>1, Pascal
    <3>4. Choose(n, (i - 1) - 1) \in Nat /\ Choose(n, i - 1) \in Nat
      <4>1. i - 1 \in Int /\ (i - 1) - 1 \in Int
        BY <3>1
      <4> QED BY <4>1, SetsAreFinite
    <3>5. Wrapped(Row(n)[i - 1] + Row(n)[i]) = Wrapped(Choose(n, (i - 1) - 1) + Choose(n, i - 1))
      BY <3>2, <3>4, WrappedSum
    <3> QED BY <2>3, <3>3, <3>5
  <2> QED BY <2>1, <2>2, <2>3
<1>3. (n + 1) + 1 = n + 2
  OBVIOUS
<1>4. RowAfter(Row(n)) = [i \in 1..(n + 2) |-> IF i \in {1, n + 2} THEN 1 ELSE Wrapped(Row(n)[i - 1] + Row(n)[i])]
  BY <1>1, <1>3 DEF RowAfter
<1>5. Row(n + 1) = [i \in 1..(n + 2) |-> Wrapped(Choose(n + 1, i - 1))]
  BY <1>3 DEF Row
<1> QED BY <1>2, <1>4, <1>5

\* A table of the first rows
TableOf(m) == [i \in 1..m |-> Row(i - 1)]

LEMMA RowsGrow ==
  ASSUME NEW m \in Nat \ {0}
  PROVE  Append(TableOf(m), RowAfter(TableOf(m)[m])) = TableOf(m + 1)
<1>1. TableOf(m)[m] = Row(m - 1) /\ m - 1 \in Nat
  BY DEF TableOf
<1>2. RowAfter(TableOf(m)[m]) = Row(m)
  <2>1. (m - 1) + 1 = m
    OBVIOUS
  <2> QED BY <1>1, <2>1, RowAfterIsNext
<1>3. \A i \in 1..m : i - 1 \in Nat
  OBVIOUS
<1>4. TableOf(m) \in Seq(Seq(Nat)) /\ Len(TableOf(m)) = m
  BY <1>3, RowHas DEF TableOf
<1>5. Row(m) \in Seq(Nat)
  BY RowHas
<1> DEFINE X == Append(TableOf(m), Row(m))
<1>6. X \in Seq(Seq(Nat)) /\ Len(X) = m + 1 /\ X[m + 1] = Row(m) /\ \A i \in 1..m : X[i] = TableOf(m)[i]
  BY <1>4, <1>5
<1> HIDE DEF X
<1>7. X = [i \in 1..(m + 1) |-> X[i]]
  BY <1>6
<1>8. ASSUME NEW i \in 1..(m + 1) PROVE X[i] = Row(i - 1)
  <2>1. CASE i = m + 1
    <3>1. i - 1 = m
      BY <2>1
    <3> QED BY <1>6, <2>1, <3>1
  <2>2. CASE i \in 1..m
    BY <1>6, <2>2 DEF TableOf
  <2> QED BY <2>1, <2>2
<1>9. X = TableOf(m + 1)
  BY <1>7, <1>8 DEF TableOf
<1> QED BY <1>2, <1>9 DEF X

\* The loop of n_choose_k() ends with the rows up to that of n, and no fewer than it began with.
LEMMA GrownIs ==
  ASSUME NEW m \in Nat \ {0}, NEW n \in 0..MaxN
  PROVE  Grown(TableOf(m), n) = IF n + 1 <= m THEN TableOf(m) ELSE TableOf(n + 1)
<1> DEFINE Steps == 0..(MaxN + 1)
           F(f, s) == IF s <= Len(TableOf(m)) THEN TableOf(m)
                      ELSE Append(f[s - 1], RowAfter(f[s - 1][s - 1]))
           W == [s \in Steps |-> IF s <= m THEN TableOf(m) ELSE TableOf(s)]
           g == CHOOSE f : f = [s \in Steps |-> F(f, s)]
<1>0. MaxN \in Nat
  BY BinomialsAssumption
<1>1. Grown(TableOf(m), n) = g[n + 1]
  BY DEF Grown
<1>2. Len(TableOf(m)) = m
  BY DEF TableOf
\* The rows up to s solve the equation of the loop, and by induction nothing else does.
<1>3. ASSUME NEW s \in Steps PROVE W[s] = F(W, s)
  <2>1. CASE s <= m
    BY <1>2, <2>1
  <2>2. CASE ~(s <= m)
    <3>1. s - 1 \in Steps /\ s - 1 \in Nat \ {0} /\ (s - 1) + 1 = s /\ (s - 1 <= m => s - 1 = m)
      BY <1>0, <2>2
    <3>2. W[s - 1] = TableOf(s - 1) /\ W[s] = TableOf(s)
      BY <2>2, <3>1
    <3>3. Append(TableOf(s - 1), RowAfter(TableOf(s - 1)[s - 1])) = TableOf((s - 1) + 1)
      BY <3>1, RowsGrow
    <3> HIDE DEF W
    <3> QED BY <1>2, <2>2, <3>1, <3>2, <3>3
  <2> QED BY <2>1, <2>2
<1>4. W = [s \in Steps |-> F(W, s)]
  BY <1>3
<1> HIDE DEF W
<1>5. g = [s \in Steps |-> F(g, s)]
  BY <1>4
<1> HIDE DEF g
<1> DEFINE Bad == {s \in Steps : g[s] # W[s]}
<1>6. Bad = {}
  <2>1. SUFFICES ASSUME Bad # {} PROVE FALSE
    OBVIOUS
  <2>2. PICK s \in Bad : \A y \in Bad : s <= y
    <3>1. Bad \in SUBSET Nat
      OBVIOUS
    <3> QED BY <2>1, <3>1, SmallestNumber
  <2>3. s \in Steps /\ g[s] # W[s] /\ g[s] = F(g, s) /\ W[s] = F(W, s)
    BY <1>3, <1>5
  <2>4. CASE s <= m
    BY <1>2, <2>3, <2>4
  <2>5. CASE ~(s <= m)
    <3>1. s - 1 \in Steps /\ ~(s <= s - 1)
      BY <1>0, <2>5
    <3>2. g[s - 1] = W[s - 1]
      BY <2>2, <3>1
    <3> QED BY <2>3, <3>2
  <2> QED BY <2>4, <2>5
<1>7. n + 1 \in Steps
  BY <1>0
<1>8. g[n + 1] = W[n + 1]
  BY <1>6, <1>7
<1> QED BY <1>1, <1>7, <1>8 DEF W

-----------------------------------------------------------------------------
(* The table of n_choose_k() *)

\* It holds rows of coefficients, and the last answer was one of them.
BinInv ==
  /\ \E m \in Nat \ {0} : binomials = TableOf(m)
  /\ CountsSubsets

LEMMA BinStep == BinInv /\ BinomialsNext => BinInv'
<1> SUFFICES ASSUME BinInv, NEW n \in 0..MaxN, NEW k \in 0..MaxN, n_choose_k(n, k) PROVE BinInv'
  BY DEF BinomialsNext
<1>0. n \in Nat /\ k \in Nat
  BY BinomialsAssumption
<1>1. PICK m \in Nat \ {0} : binomials = TableOf(m)
  BY DEF BinInv
<1> DEFINE smaller == IF k > n \div 2 THEN n - k ELSE k
           table == Grown(binomials, n)
<1>2. CASE k > n \/ k \in {0, n}
  <2>1. binomials' = binomials /\ answer' = [n |-> n, k |-> k, is |-> IF k > n THEN 0 ELSE 1]
    BY <1>2 DEF n_choose_k
  <2>2. (IF k > n THEN 0 ELSE 1) = Wrapped(Choose(n, k))
    <3>1. (IF k > n THEN 0 ELSE 1) = Choose(n, k)
      BY <1>0, <1>2, ChooseEnds
    <3>2. Wrapped(0) = 0 /\ Wrapped(1) = 1
      BY SmallIsWhole, BinomialsAssumption
    <3> QED BY <3>1, <3>2
  <2> QED BY <1>1, <2>1, <2>2 DEF BinInv, CountsSubsets
<1>3. CASE ~(k > n \/ k \in {0, n})
  <2>1. binomials' = table /\ answer' = [n |-> n, k |-> k, is |-> table[n + 1][smaller + 1]]
    BY <1>3 DEF n_choose_k
  <2>2. PICK l \in Nat \ {0} : table = TableOf(l) /\ n + 1 <= l
    <3>1. table = IF n + 1 <= m THEN TableOf(m) ELSE TableOf(n + 1)
      BY <1>1, GrownIs
    <3> QED BY <1>0, <3>1
  <2>3. table[n + 1] = Row(n)
    <3>1. n + 1 \in 1..l /\ (n + 1) - 1 = n
      BY <1>0, <2>2
    <3> HIDE DEF table
    <3> QED BY <2>2, <3>1 DEF TableOf
  <2>4. smaller \in 0..n /\ (smaller = k \/ smaller = n - k) /\ smaller + 1 \in 1..(n + 1) /\ (smaller + 1) - 1 = smaller
    BY <1>0, <1>3
  <2> HIDE DEF smaller, table
  <2>5. Row(n)[smaller + 1] = Wrapped(Choose(n, smaller))
    <3>1. Row(n)[smaller + 1] = Wrapped(Choose(n, (smaller + 1) - 1))
      BY <1>0, <2>4, RowHas
    <3> QED BY <2>4, <3>1
  <2>6. Choose(n, smaller) = Choose(n, k)
    <3>1. k \in 0..n
      BY <1>0, <1>3
    <3> QED BY <1>0, <2>4, <3>1, ChooseSymmetric
  <2> QED BY <2>1, <2>2, <2>3, <2>5, <2>6 DEF BinInv, CountsSubsets
<1> QED BY <1>2, <1>3

\* In whatever order the coefficients are asked for, and however many rows the table begins
\* with, each answer is the number of subsets: the rows that are added are those of the definition,
\* as far as a natural_t holds them.
THEOREM CoefficientsCountSubsets == Spec => []CountsSubsets
<1>1. Init => BinInv
  <2> SUFFICES ASSUME BinomialsInit PROVE BinInv
    BY DEF Init
  <2>1. binomials = TableOf(FirstRows)
    BY DEF BinomialsInit, TableOf
  <2>2. answer.n = 0 /\ answer.k = 0 /\ answer.is = 1
    BY DEF BinomialsInit
  <2>3. Wrapped(Choose(0, 0)) = 1
    BY ChooseEnds, SmallIsWhole, BinomialsAssumption
  <2> QED BY <2>1, <2>2, <2>3, BinomialsAssumption DEF BinInv, CountsSubsets
<1>2. BinInv /\ [Next]_vars => BinInv'
  <2> SUFFICES ASSUME BinInv, [Next]_vars PROVE BinInv'
    OBVIOUS
  <2>1. BinomialsNext \/ UNCHANGED binomialVars
    BY DEF Next, vars
  <2>2. CASE UNCHANGED binomialVars
    BY <2>2 DEF BinInv, CountsSubsets, binomialVars
  <2> QED BY <2>1, <2>2, BinStep
<1>3. BinInv => CountsSubsets
  BY DEF BinInv
<1> QED BY <1>1, <1>2, <1>3, PTL DEF Spec

-----------------------------------------------------------------------------
(* Elements of a matrix *)

Matrix == {m \in [rows : Nat, cols : Nat, data : Seq(Int)] :
             Len(m.data) = m.rows * m.cols /\ (m.rows = 0 <=> m.cols = 0)}

\* How many elements there are, the place of an element in the data, and the row and the column of a place
Size(R, C) == R * C
Place(C, a, b) == a * C + b + 1
RowAt(C, k) == (k - 1) \div C
ColAt(C, k) == (k - 1) % C

\* Row a begins after a times the columns: the element of a row and a column is inside.
LEMMA InsideMatrix ==
  ASSUME NEW R \in Nat, NEW C \in Nat, NEW a \in 0..(R - 1), NEW b \in 0..(C - 1)
  PROVE  Place(C, a, b) \in 1..Size(R, C)
<1>1. a * C \in Nat
  OBVIOUS
<1>2. a * C + C <= R * C
  <2>1. a + 1 <= R
    OBVIOUS
  <2>2. (a + 1) * C <= R * C
    BY <2>1
  <2>3. (a + 1) * C = a * C + C
    OBVIOUS
  <2> QED BY <2>2, <2>3
<1>3. R * C \in Nat
  OBVIOUS
<1> QED BY <1>1, <1>2, <1>3 DEF Place, Size

\* The place of an element tells its row and its column.
LEMMA PlaceTells ==
  ASSUME NEW C \in Nat \ {0}, NEW a \in Nat, NEW b \in 0..(C - 1)
  PROVE  RowAt(C, Place(C, a, b)) = a /\ ColAt(C, Place(C, a, b)) = b
<1> DEFINE x == a * C + b
           q == x \div C
           r == x % C
<1>1. x \in Nat
  OBVIOUS
<1>2. q \in Int /\ r \in 0..(C - 1) /\ x = C * q + r
  BY <1>1
<1> HIDE DEF q, r
<1>3. C * (q - a) = b - r
  BY <1>2
<1>4. q = a
  <2>1. ~(q - a >= 1)
    <3>1. ASSUME q - a >= 1 PROVE C * (q - a) >= C
      BY <3>1, <1>2
    <3> QED BY <3>1, <1>2, <1>3
  <2>2. ~(a - q >= 1)
    <3>1. ASSUME a - q >= 1 PROVE C * (q - a) <= -C
      <4>1. C * (a - q) >= C
        BY <3>1, <1>2
      <4>2. C * (q - a) = -(C * (a - q))
        BY <1>2
      <4> QED BY <4>1, <4>2, <1>2
    <3> QED BY <3>1, <1>2, <1>3
  <2> QED BY <2>1, <2>2, <1>2
<1>5. r = b
  BY <1>2, <1>3, <1>4
<1>6. Place(C, a, b) - 1 = x
  <2>1. a * C \in Nat
    OBVIOUS
  <2> QED BY <2>1 DEF Place
<1> QED BY <1>4, <1>5, <1>6 DEF q, r, RowAt, ColAt

\* A place of the data has a row and a column.
LEMMA PlaceHasRow ==
  ASSUME NEW R \in Nat, NEW C \in Nat \ {0}, NEW k \in 1..Size(R, C)
  PROVE  RowAt(C, k) \in 0..(R - 1) /\ ColAt(C, k) \in 0..(C - 1)
<1> DEFINE q == (k - 1) \div C
           r == (k - 1) % C
<1>0. R * C \in Nat
  OBVIOUS
<1>1. q \in Int /\ r \in 0..(C - 1) /\ k - 1 = C * q + r /\ k - 1 < R * C /\ k - 1 >= 0
  BY <1>0 DEF Size
<1> HIDE DEF q, r
<1>2. q >= 0
  <2>1. ASSUME q <= -1 PROVE C * q <= -C
    BY <2>1, <1>1
  <2> QED BY <2>1, <1>1
<1>3. q < R
  <2>1. ASSUME q >= R PROVE C * q >= R * C
    BY <2>1, <1>1
  <2> QED BY <2>1, <1>0, <1>1
<1> QED BY <1>1, <1>2, <1>3 DEF q, r, RowAt, ColAt

\* Induction up to n, by the smallest number left out
LEMMA UpTo ==
  ASSUME NEW n \in Nat, NEW S, 0 \in S, \A i \in 1..n : i - 1 \in S => i \in S
  PROVE  0..n \subseteq S
<1> SUFFICES ASSUME (0..n) \ S # {} PROVE FALSE
  OBVIOUS
<1> DEFINE Left == (0..n) \ S
<1>1. Left \in SUBSET Nat /\ Left # {}
  OBVIOUS
<1>2. PICK x \in Left : \A y \in Left : x <= y
  BY <1>1, SmallestNumber
<1>3. x \in 1..n
  OBVIOUS
<1>4. x - 1 \notin Left /\ x - 1 \in 0..n
  BY <1>2, <1>3
<1> QED BY <1>3, <1>4

\* Lists of integers, as the provers find them
LEMMA IsList ==
  ASSUME NEW n \in Nat, NEW e \in [1..n -> Int]
  PROVE  e \in Seq(Int) /\ Len(e) = n
<1> QED OBVIOUS

\* Two lists one after the other
LEMMA Concatenated ==
  ASSUME NEW a \in Seq(Int), NEW b \in Seq(Int)
  PROVE  /\ a \o b \in Seq(Int) /\ Len(a \o b) = Len(a) + Len(b)
         /\ \A k \in 1..(Len(a) + Len(b)) :
              (a \o b)[k] = IF k <= Len(a) THEN a[k] ELSE b[k - Len(a)]
<1> QED OBVIOUS

\* A matrix that is made of rows has the elements of the rows in their places.
LEMMA FlattenIs ==
  ASSUME NEW R \in Nat \ {0}, NEW C \in Nat \ {0}, NEW rows \in [1..R -> [1..C -> Int]]
  PROVE  flatten(rows)
           = [rows |-> R, cols |-> C,
              data |-> [k \in 1..Size(R, C) |-> rows[RowAt(C, k) + 1][ColAt(C, k) + 1]]]
<1> DEFINE First(i) == [k \in 1..Size(i, C) |-> rows[RowAt(C, k) + 1][ColAt(C, k) + 1]]
           F(f) == [i \in 1..R |-> IF i = 1 THEN rows[i] ELSE f[i - 1] \o rows[i]]
           W == [i \in 1..R |-> First(i)]
           g == CHOOSE f : f = F(f)
<1>1. Len(rows) = R /\ 1 \in 1..R /\ Len(rows[1]) = C
  OBVIOUS
<1>2. FlattenSeq(rows) = g[R]
  BY <1>1 DEF FlattenSeq
<1>3. ASSUME NEW i \in 1..R, NEW k \in 1..Size(i, C)
      PROVE  RowAt(C, k) + 1 \in 1..i /\ ColAt(C, k) + 1 \in 1..C
  <2>1. RowAt(C, k) \in 0..(i - 1) /\ ColAt(C, k) \in 0..(C - 1)
    BY PlaceHasRow
  <2> DEFINE a == RowAt(C, k)
             b == ColAt(C, k)
  <2> HIDE DEF a, b
  <2>2. a \in 0..(i - 1) /\ b \in 0..(C - 1)
    BY <2>1 DEF a, b
  <2>3. a + 1 \in 1..i /\ b + 1 \in 1..C
    BY <2>2
  <2> QED BY <2>3 DEF a, b
<1>4. ASSUME NEW i \in 1..R
      PROVE  First(i) \in Seq(Int) /\ Len(First(i)) = Size(i, C)
  <2>1. Size(i, C) \in Nat
    BY DEF Size
  <2>2. ASSUME NEW k \in 1..Size(i, C)
        PROVE  rows[RowAt(C, k) + 1][ColAt(C, k) + 1] \in Int
    <3>1. RowAt(C, k) + 1 \in 1..R /\ ColAt(C, k) + 1 \in 1..C
      BY <1>3
    <3> QED BY <3>1
  <2>3. First(i) \in [1..Size(i, C) -> Int]
    BY <2>2
  <2> HIDE DEF First
  <2> QED BY <2>1, <2>3, IsList
<1>5. First(1) = rows[1]
  <2>1. ASSUME NEW k \in 1..C PROVE RowAt(C, k) = 0 /\ ColAt(C, k) = k - 1
    <3>1. Place(C, 0, k - 1) = k /\ k - 1 \in 0..(C - 1) /\ 0 \in Nat
      BY DEF Place
    <3> QED BY <3>1, PlaceTells
  <2>2. Size(1, C) = C
    BY DEF Size
  <2>3. First(1) = [k \in 1..C |-> rows[1][k]]
    BY <2>1, <2>2
  <2> QED BY <1>1, <2>3
<1>6. ASSUME NEW i \in 2..R PROVE First(i) = First(i - 1) \o rows[i]
  <2> DEFINE n == Size(i - 1, C)
             cat == First(i - 1) \o rows[i]
  <2>1. n \in Nat /\ Size(i, C) = n + C /\ i - 1 \in 1..R /\ i \in 1..R
    BY DEF Size
  <2>2. First(i - 1) \in Seq(Int) /\ Len(First(i - 1)) = n
    BY <1>4, <2>1
  <2>3. rows[i] \in Seq(Int) /\ Len(rows[i]) = C
    BY <2>1
  <2>4. /\ cat \in Seq(Int) /\ Len(cat) = Size(i, C)
        /\ \A k \in 1..Size(i, C) : cat[k] = IF k <= n THEN First(i - 1)[k] ELSE rows[i][k - n]
    <3> HIDE DEF First, n
    <3> QED BY <2>1, <2>2, <2>3, Concatenated
  <2>5. ASSUME NEW k \in 1..Size(i, C)
        PROVE  First(i)[k] = IF k <= n THEN First(i - 1)[k] ELSE rows[i][k - n]
    <3>1. CASE k <= n
      <4>1. k \in 1..n
        BY <2>1, <3>1
      <4> QED BY <3>1, <4>1
    <3>2. CASE ~(k <= n)
      <4>1. k - n - 1 \in 0..(C - 1) /\ i - 1 \in Nat /\ Place(C, i - 1, k - n - 1) = k
        BY <2>1, <3>2 DEF Place, Size
      <4>2. RowAt(C, k) = i - 1 /\ ColAt(C, k) = k - n - 1
        BY <4>1, PlaceTells
      <4>3. RowAt(C, k) + 1 = i /\ ColAt(C, k) + 1 = k - n
        BY <2>1, <4>1, <4>2
      <4> QED BY <3>2, <4>3
    <3> QED BY <3>1, <3>2
  <2>6. cat = [k \in 1..Size(i, C) |-> cat[k]]
    <3> HIDE DEF cat
    <3> QED BY <2>1, <2>4
  <2>7. First(i) = [k \in 1..Size(i, C) |-> First(i)[k]]
    OBVIOUS
  <2>8. \A k \in 1..Size(i, C) : First(i)[k] = cat[k]
    BY <2>4, <2>5
  <2> HIDE DEF First, cat
  <2>9. First(i) = cat
    BY <2>6, <2>7, <2>8
  <2> QED BY <2>9 DEF cat
<1> HIDE DEF First
<1>7. W = F(W)
  <2>1. ASSUME NEW i \in 1..R PROVE W[i] = F(W)[i]
    <3>1. CASE i = 1
      BY <1>5, <3>1
    <3>2. CASE i # 1
      <4>1. i \in 2..R /\ i - 1 \in 1..R
        BY <3>2
      <4> QED BY <1>6, <3>2, <4>1
    <3> QED BY <3>1, <3>2
  <2> QED BY <2>1
<1>8. g = F(g)
  BY <1>7
<1> HIDE DEF g
<1> DEFINE S == {i \in 0..R : i = 0 \/ g[i] = First(i)}
<1>9. 0 \in S
  OBVIOUS
<1>10. ASSUME NEW i \in 1..R, i - 1 \in S PROVE i \in S
  <2>1. g[i] = IF i = 1 THEN rows[i] ELSE g[i - 1] \o rows[i]
    BY <1>8
  <2>2. CASE i = 1
    BY <1>5, <2>1, <2>2
  <2>3. CASE i # 1
    <3>1. i \in 2..R /\ i - 1 # 0
      BY <2>3
    <3>2. g[i - 1] = First(i - 1)
      BY <1>10, <3>1
    <3>3. g[i] = First(i)
      BY <1>6, <2>1, <2>3, <3>1, <3>2
    <3> QED BY <3>1, <3>3
  <2> QED BY <2>2, <2>3
<1> HIDE DEF S
<1>11. 0..R \subseteq S
  <2>1. \A i \in 1..R : i - 1 \in S => i \in S
    BY <1>10
  <2> QED BY <1>9, <2>1, UpTo
<1>12. g[R] = First(R)
  <2>1. R \in S
    BY <1>11
  <2> QED BY <2>1 DEF S
<1> QED BY <1>1, <1>2, <1>12 DEF flatten, First

\* The rows a matrix is made of
RowsOf(R, C) == [1..R -> [1..C -> Int]]

\* ... which are found by their row and column.
LEMMA FlattenPlaces ==
  ASSUME NEW R \in Nat \ {0}, NEW C \in Nat \ {0}, NEW rows \in RowsOf(R, C)
  PROVE  /\ flatten(rows) \in Matrix /\ flatten(rows).rows = R /\ flatten(rows).cols = C
         /\ \A i \in 0..(R - 1), j \in 0..(C - 1) : At(flatten(rows), i, j) = rows[i + 1][j + 1]
<1>0. rows \in [1..R -> [1..C -> Int]]
  BY DEF RowsOf
<1> DEFINE d == [k \in 1..Size(R, C) |-> rows[RowAt(C, k) + 1][ColAt(C, k) + 1]]
           f == flatten(rows)
<1>1. f = [rows |-> R, cols |-> C, data |-> d]
  BY <1>0, FlattenIs
<1>2. Size(R, C) \in Nat
  BY DEF Size
<1>3. ASSUME NEW k \in 1..Size(R, C) PROVE d[k] \in Int
  <2>1. RowAt(C, k) \in 0..(R - 1) /\ ColAt(C, k) \in 0..(C - 1)
    BY PlaceHasRow
  <2>2. RowAt(C, k) + 1 \in 1..R /\ ColAt(C, k) + 1 \in 1..C
    BY <2>1
  <2> QED BY <1>0, <2>2
<1>4. d \in Seq(Int) /\ Len(d) = Size(R, C)
  <2>1. d \in [1..Size(R, C) -> Int]
    BY <1>3
  <2> HIDE DEF d
  <2> QED BY <1>2, <2>1, IsList
<1>5. ASSUME NEW i \in 0..(R - 1), NEW j \in 0..(C - 1) PROVE At(f, i, j) = rows[i + 1][j + 1]
  <2>1. Place(C, i, j) \in 1..Size(R, C)
    BY InsideMatrix
  <2>2. RowAt(C, Place(C, i, j)) = i /\ ColAt(C, Place(C, i, j)) = j
    BY PlaceTells
  <2>3. At(f, i, j) = d[Place(C, i, j)]
    <3> HIDE DEF d, f
    <3> QED BY <1>1 DEF At, Place
  <2> QED BY <2>1, <2>2, <2>3
<1> HIDE DEF d, f
<1>6. f \in Matrix
  BY <1>1, <1>4 DEF Matrix, Size
<1> QED BY <1>1, <1>5, <1>6 DEF f

-----------------------------------------------------------------------------
(* What flushing changes *)

\* A value that is flushed is off by less than epsilon.
LEMMA FlushedIsNear ==
  ASSUME NEW x \in Int
  PROVE  /\ Flushed(x) \in Int
         /\ Flushed(x) - x <= Epsilon - 1 /\ x - Flushed(x) <= Epsilon - 1
<1> QED BY MatricesAssumption DEF Flushed, epsilon_zero, abs

\* A loop that takes a number from step to step has its values.
LEMMA LoopRuns ==
  ASSUME NEW n \in Nat, NEW step \in [Int -> [1..n -> Int]]
  PROVE  \E s \in [0..n -> Int] : s[0] = 0 /\ \A i \in 1..n : s[i] = step[s[i - 1]][i]
<1> DEFINE Runs(m) == \E s \in [0..n -> Int] :
                        s[0] = 0 /\ \A i \in 1..m : s[i] = step[s[i - 1]][i]
           S == {m \in 0..n : Runs(m)}
<1>1. 0 \in S
  <2> DEFINE z == [i \in 0..n |-> 0]
  <2>1. z \in [0..n -> Int] /\ z[0] = 0
    OBVIOUS
  <2> HIDE DEF z
  <2>2. \A i \in 1..0 : z[i] = step[z[i - 1]][i]
    OBVIOUS
  <2>3. Runs(0)
    BY <2>1, <2>2
  <2> HIDE DEF Runs
  <2> QED BY <2>3
<1>2. ASSUME NEW m \in 1..n, m - 1 \in S PROVE m \in S
  <2>1. PICK s \in [0..n -> Int] : s[0] = 0 /\ \A i \in 1..(m - 1) : s[i] = step[s[i - 1]][i]
    BY <1>2
  <2> DEFINE x == step[s[m - 1]][m]
             t == [s EXCEPT ![m] = x]
  <2>2. x \in Int
    <3>1. s[m - 1] \in Int
      OBVIOUS
    <3> QED BY <3>1
  <2> HIDE DEF x
  <2>3. t \in [0..n -> Int] /\ t[0] = 0
    BY <2>1, <2>2
  <2>4. ASSUME NEW i \in 1..m PROVE t[i] = step[t[i - 1]][i]
    <3>1. i \in 0..n /\ i - 1 \in 0..n /\ i - 1 # m
      OBVIOUS
    <3>2. t[i - 1] = s[i - 1] /\ t[i] = IF i = m THEN x ELSE s[i]
      BY <3>1
    <3>3. i = m \/ i \in 1..(m - 1)
      OBVIOUS
    <3> QED BY <2>1, <3>2, <3>3 DEF x
  <2> HIDE DEF t
  <2>5. Runs(m)
    BY <2>3, <2>4
  <2>6. m \in 0..n
    OBVIOUS
  <2> QED BY <2>5, <2>6
<1> HIDE DEF S
<1>3. \A m \in 1..n : m - 1 \in S => m \in S
  BY <1>2
<1>4. 0..n \subseteq S
  BY <1>1, <1>3, UpTo
<1>5. n \in S
  BY <1>4
<1> QED BY <1>5 DEF S

\* One step of both loops: what the flushes of the step add to the error
LEMMA ErrorsAdd ==
  ASSUME NEW e0 \in Int, NEW d0 \in Int, NEW e1 \in Int, NEW d1 \in Int, NEW x \in Int,
         NEW before \in Int, NEW more \in Int, x - d1 = e0 - d0,
         e0 - d0 <= before, d0 - e0 <= before, e1 - x <= more, x - e1 <= more
  PROVE  e1 - d1 <= before + more /\ d1 - e1 <= before + more
<1> QED OBVIOUS

\* A dot product that flushes every product and every partial sum is off by less than epsilon
\* for each of them.
LEMMA DotsAreNear ==
  ASSUME NEW n \in Nat, NEW v \in [1..n -> Int], NEW w \in [1..n -> Int]
  PROVE  /\ dyn_vector_dot_product(v, w) \in Int /\ dot_product(v, w) \in Int
         /\ dyn_vector_dot_product(v, w) - dot_product(v, w) <= (2 * n) * (Epsilon - 1)
         /\ dot_product(v, w) - dyn_vector_dot_product(v, w) <= (2 * n) * (Epsilon - 1)
<1> DEFINE rounded(x, i) == epsilon_sum(x, epsilon_product(v[i], w[i]))
           exact(x, i) == x + v[i] * w[i]
           F(f) == [m \in 0..n |-> IF m = 0 THEN 0
                                   ELSE epsilon_sum(f[m - 1], epsilon_product(v[m], w[m]))]
           G(f) == [m \in 0..n |-> IF m = 0 THEN 0 ELSE f[m - 1] + v[m] * w[m]]
           e == CHOOSE f : f = F(f)
           d == CHOOSE f : f = G(f)
<1>1. Len(v) = n
  OBVIOUS
<1>2. dyn_vector_dot_product(v, w) = e[n] /\ dot_product(v, w) = d[n]
  BY <1>1 DEF dyn_vector_dot_product, dot_product
<1>3. ASSUME NEW i \in 1..n, NEW x \in Int
      PROVE  /\ rounded(x, i) \in Int /\ exact(x, i) \in Int
             /\ rounded(x, i) - exact(x, i) <= 2 * (Epsilon - 1) /\ exact(x, i) - rounded(x, i) <= 2 * (Epsilon - 1)
  <2> DEFINE p == v[i] * w[i]
             q == Flushed(p)
  <2>1. p \in Int
    OBVIOUS
  <2>2. q \in Int /\ q - p <= Epsilon - 1 /\ p - q <= Epsilon - 1
    <3> HIDE DEF p
    <3> QED BY <2>1, FlushedIsNear
  <2>3. rounded(x, i) = Flushed(x + q) /\ exact(x, i) = x + p
    BY DEF epsilon_sum, epsilon_product
  <2> HIDE DEF p, q, rounded, exact
  <2>4. x + q \in Int
    BY <2>2
  <2>5. /\ Flushed(x + q) \in Int
        /\ Flushed(x + q) - (x + q) <= Epsilon - 1 /\ (x + q) - Flushed(x + q) <= Epsilon - 1
    BY <2>4, FlushedIsNear
  <2> QED BY <2>1, <2>2, <2>3, <2>5, MatricesAssumption
<1>4. e = F(e)
  <2>1. [x \in Int |-> [i \in 1..n |-> rounded(x, i)]] \in [Int -> [1..n -> Int]]
    <3> HIDE DEF rounded
    <3> QED BY <1>3
  <2>2. PICK s \in [0..n -> Int] :
          s[0] = 0 /\ \A i \in 1..n : s[i] = [x \in Int |-> [j \in 1..n |-> rounded(x, j)]][s[i - 1]][i]
    <3> HIDE DEF rounded
    <3> QED BY <2>1, LoopRuns
  <2>3. ASSUME NEW i \in 1..n PROVE s[i] = rounded(s[i - 1], i)
    <3> HIDE DEF rounded
    <3>1. s[i - 1] \in Int
      OBVIOUS
    <3> QED BY <2>2, <3>1
  <2>4. s = F(s)
    <3>1. \A m \in 0..n : s[m] = F(s)[m]
      BY <2>2, <2>3
    <3> QED BY <3>1
  <2> QED BY <2>4
<1>5. d = G(d)
  <2>1. [x \in Int |-> [i \in 1..n |-> exact(x, i)]] \in [Int -> [1..n -> Int]]
    <3> HIDE DEF exact
    <3> QED BY <1>3
  <2>2. PICK s \in [0..n -> Int] :
          s[0] = 0 /\ \A i \in 1..n : s[i] = [x \in Int |-> [j \in 1..n |-> exact(x, j)]][s[i - 1]][i]
    <3> HIDE DEF exact
    <3> QED BY <2>1, LoopRuns
  <2>3. ASSUME NEW i \in 1..n PROVE s[i] = exact(s[i - 1], i)
    <3> HIDE DEF exact
    <3>1. s[i - 1] \in Int
      OBVIOUS
    <3> QED BY <2>2, <3>1
  <2>4. s = G(s)
    <3>1. \A m \in 0..n : s[m] = G(s)[m]
      BY <2>2, <2>3
    <3> QED BY <3>1
  <2> QED BY <2>4
<1>6. e[0] = 0 /\ d[0] = 0
  <2> HIDE DEF e, d
  <2> QED BY <1>4, <1>5
<1>7. ASSUME NEW m \in 1..n PROVE e[m] = rounded(e[m - 1], m) /\ d[m] = exact(d[m - 1], m)
  <2> HIDE DEF e, d
  <2> QED BY <1>4, <1>5
<1> HIDE DEF e, d
<1> DEFINE S == {m \in 0..n : /\ e[m] \in Int /\ d[m] \in Int
                              /\ e[m] - d[m] <= (2 * m) * (Epsilon - 1)
                              /\ d[m] - e[m] <= (2 * m) * (Epsilon - 1)}
<1>8. 0 \in S
  BY <1>6, MatricesAssumption
<1>9. ASSUME NEW m \in 1..n, m - 1 \in S PROVE m \in S
  <2>1. /\ e[m - 1] \in Int /\ d[m - 1] \in Int
        /\ e[m - 1] - d[m - 1] <= (2 * (m - 1)) * (Epsilon - 1)
        /\ d[m - 1] - e[m - 1] <= (2 * (m - 1)) * (Epsilon - 1)
    BY <1>9
  <2>2. /\ rounded(e[m - 1], m) \in Int
        /\ rounded(e[m - 1], m) - exact(e[m - 1], m) <= 2 * (Epsilon - 1)
        /\ exact(e[m - 1], m) - rounded(e[m - 1], m) <= 2 * (Epsilon - 1)
    <3> HIDE DEF rounded, exact
    <3> QED BY <1>3, <2>1
  <2>3. v[m] * w[m] \in Int
    OBVIOUS
  <2>4. exact(e[m - 1], m) - exact(d[m - 1], m) = e[m - 1] - d[m - 1] /\ exact(d[m - 1], m) \in Int
        /\ exact(e[m - 1], m) \in Int
    BY <2>1, <2>3
  <2>5. (2 * m) * (Epsilon - 1) = (2 * (m - 1)) * (Epsilon - 1) + 2 * (Epsilon - 1)
    BY MatricesAssumption
  <2> DEFINE before == (2 * (m - 1)) * (Epsilon - 1)
             more == 2 * (Epsilon - 1)
             after == (2 * m) * (Epsilon - 1)
  <2>6. before \in Int /\ more \in Int /\ after = before + more
    BY <2>5, MatricesAssumption
  <2> HIDE DEF rounded, exact, before, more, after
  <2>7. /\ e[m] \in Int /\ d[m] \in Int
        /\ e[m] - d[m] <= after /\ d[m] - e[m] <= after
    <3>1. e[m - 1] - d[m - 1] <= before /\ d[m - 1] - e[m - 1] <= before
      BY <2>1 DEF before
    <3>2. rounded(e[m - 1], m) - exact(e[m - 1], m) <= more /\ exact(e[m - 1], m) - rounded(e[m - 1], m) <= more
      BY <2>2 DEF more
    <3>3. e[m] = rounded(e[m - 1], m) /\ d[m] = exact(d[m - 1], m)
      BY <1>7
    <3>4. /\ e[m] - d[m] <= before + more /\ d[m] - e[m] <= before + more
          /\ e[m] \in Int /\ d[m] \in Int
      BY <2>1, <2>2, <2>4, <2>6, <3>1, <3>2, <3>3, ErrorsAdd
    <3> QED BY <2>6, <3>4
  <2> QED BY <2>7 DEF after
<1> HIDE DEF S
<1>10. \A m \in 1..n : m - 1 \in S => m \in S
  BY <1>9
<1>11. 0..n \subseteq S
  BY <1>8, <1>10, UpTo
<1>12. n \in S
  BY <1>11
<1> QED BY <1>2, <1>12 DEF S

-----------------------------------------------------------------------------
(* The operations: what they make, and how far it is from the exact result *)

Near(x, y, n) == abs(x - y) <= n * (Epsilon - 1)

\* Near() without the absolute value
LEMMA NearBoth ==
  ASSUME NEW x \in Int, NEW y \in Int, NEW n \in Nat,
         x - y <= n * (Epsilon - 1), y - x <= n * (Epsilon - 1)
  PROVE  Near(x, y, n)
<1>1. n * (Epsilon - 1) \in Int
  BY MatricesAssumption
<1> QED BY <1>1 DEF Near, abs

\* Sums, differences and products of two elements
LEMMA OneIsNear ==
  ASSUME NEW a \in Int, NEW b \in Int
  PROVE  /\ epsilon_sum(a, b) \in Int /\ Near(epsilon_sum(a, b), a + b, 1)
         /\ epsilon_difference(a, b) \in Int /\ Near(epsilon_difference(a, b), a - b, 1)
         /\ epsilon_product(a, b) \in Int /\ Near(epsilon_product(a, b), a * b, 1)
         /\ Near(epsilon_product(a, b), b * a, 1)
<1>1. ASSUME NEW x \in Int PROVE Flushed(x) \in Int /\ Near(Flushed(x), x, 1)
  <2>1. 1 * (Epsilon - 1) = Epsilon - 1
    BY MatricesAssumption
  <2> QED BY <2>1, FlushedIsNear, NearBoth
<1>2. a * b \in Int /\ b * a = a * b /\ a + b \in Int /\ a - b \in Int
  OBVIOUS
<1> QED BY <1>1, <1>2 DEF epsilon_sum, epsilon_difference, epsilon_product

\* An element of a matrix is in its data.
LEMMA ElementIs ==
  ASSUME NEW m \in Matrix, NEW i \in 0..(m.rows - 1), NEW j \in 0..(m.cols - 1)
  PROVE  /\ Place(m.cols, i, j) \in DOMAIN m.data /\ At(m, i, j) = m.data[Place(m.cols, i, j)]
         /\ At(m, i, j) \in Int
<1>1. /\ m.rows \in Nat /\ m.cols \in Nat /\ m.data \in Seq(Int) /\ Len(m.data) = Size(m.rows, m.cols)
  BY DEF Matrix, Size
<1>2. Place(m.cols, i, j) \in 1..Size(m.rows, m.cols)
  BY <1>1, InsideMatrix
<1>3. At(m, i, j) = m.data[Place(m.cols, i, j)]
  BY DEF At, Place
<1> QED BY <1>1, <1>2, <1>3

\* A row and a column of a matrix
LEMMA LinesAre ==
  ASSUME NEW m \in Matrix
  PROVE  /\ \A i \in 0..(m.rows - 1) :
              get_row(m, i) \in [1..m.cols -> Int] /\ get_matrix_row(m, i) = get_row(m, i)
         /\ \A j \in 0..(m.cols - 1) :
              get_col(m, j) \in [1..m.rows -> Int] /\ get_matrix_col(m, j) = get_col(m, j)
<1>1. m.rows \in Nat /\ m.cols \in Nat
  BY DEF Matrix
<1>2. ASSUME NEW i \in 0..(m.rows - 1), NEW j \in 1..m.cols PROVE At(m, i, j - 1) \in Int
  <2>1. j - 1 \in 0..(m.cols - 1)
    BY <1>1
  <2> QED BY <2>1, ElementIs
<1>3. ASSUME NEW j \in 0..(m.cols - 1), NEW i \in 1..m.rows PROVE At(m, i - 1, j) \in Int
  <2>1. i - 1 \in 0..(m.rows - 1)
    BY <1>1
  <2> QED BY <2>1, ElementIs
<1> QED BY <1>2, <1>3 DEF get_row, get_matrix_row, get_col, get_matrix_col

\* A vector as a matrix of one column
LEMMA ColumnIs ==
  ASSUME NEW n \in Nat, NEW v \in [1..n -> Int]
  PROVE  /\ Column(v).rows = n /\ Column(v).cols = 1
         /\ \A i \in 0..(n - 1) : At(Column(v), i, 0) = v[i + 1]
         /\ get_col(Column(v), 0) = v
<1>1. Len(v) = n /\ DOMAIN v = 1..n
  OBVIOUS
<1>2. Column(v).rows = n /\ Column(v).cols = 1 /\ Column(v).data = v
  BY <1>1 DEF Column
<1>3. ASSUME NEW i \in 0..(n - 1) PROVE At(Column(v), i, 0) = v[i + 1]
  <2>1. i * 1 + 0 + 1 = i + 1
    OBVIOUS
  <2> QED BY <1>2, <2>1 DEF At
<1>4. ASSUME NEW i \in 1..n PROVE At(Column(v), i - 1, 0) = v[i]
  <2>1. i - 1 \in 0..(n - 1) /\ (i - 1) + 1 = i
    OBVIOUS
  <2> QED BY <1>3, <2>1
<1>5. get_col(Column(v), 0) = [i \in 1..n |-> v[i]]
  BY <1>2, <1>4 DEF get_col
<1> QED BY <1>2, <1>3, <1>5

StaticCombined(op, m, n) == CASE op = "sum" -> matrix_sum(m, n)
                              [] op = "difference" -> matrix_difference(m, n)
                              [] op = "hadamard" -> matrix_hadamard_product(m, n)

\* The elementwise operations, in the columns the static form fills
LEMMA CombinedIsNear ==
  ASSUME NEW op \in Elementwises, NEW m \in Matrix, NEW n \in Matrix,
         m.rows = n.rows, m.cols = n.cols
  PROVE  /\ Combined(op, m, n) \in Matrix
         /\ Combined(op, m, n).rows = m.rows /\ Combined(op, m, n).cols = m.cols
         /\ \A i \in 0..(m.rows - 1), j \in 0..(m.cols - 1) : j < m.rows =>
              Near(At(Combined(op, m, n), i, j), At(StaticCombined(op, m, n), i, j), 1)
<1> DEFINE dyn(k) == CASE op = "sum" -> epsilon_sum(m.data[k], n.data[k])
                       [] op = "difference" -> epsilon_difference(m.data[k], n.data[k])
                       [] op = "hadamard" -> epsilon_product(m.data[k], n.data[k])
           sta(k) == CASE op = "sum" -> m.data[k] + n.data[k]
                       [] op = "difference" -> m.data[k] - n.data[k]
                       [] op = "hadamard" -> m.data[k] * n.data[k]
           K == DOMAIN m.data
           cut(k) == IF (k - 1) % m.cols < m.rows THEN sta(k) ELSE 0
<1>1. /\ m \in [rows : Nat, cols : Nat, data : Seq(Int)] /\ K = 1..Len(m.data)
      /\ m.data \in Seq(Int) /\ n.data \in Seq(Int) /\ Len(n.data) = Len(m.data)
      /\ Len(m.data) = m.rows * m.cols /\ m.rows \in Nat /\ m.cols \in Nat
      /\ (m.rows = 0 <=> m.cols = 0) /\ Len(m.data) \in Nat
  BY DEF Matrix
<1>2. op \in {"sum", "difference", "hadamard"}
  BY DEF Elementwises
<1>3. ASSUME NEW k \in K PROVE dyn(k) \in Int /\ Near(dyn(k), sta(k), 1)
  <2>1. m.data[k] \in Int /\ n.data[k] \in Int
    BY <1>1
  <2> QED BY <1>2, <2>1, OneIsNear
<1>4. Combined(op, m, n) = [m EXCEPT !.data = [k \in K |-> dyn(k)]]
  BY <1>2 DEF Combined, dyn_matrix_sum, dyn_matrix_difference, dyn_matrix_hadamard_product,
              dyn_vector_sum, dyn_vector_difference, dyn_vector_hadamard_product
<1>5. StaticCombined(op, m, n) = [m EXCEPT !.data = [k \in K |-> cut(k)]]
  BY <1>2 DEF StaticCombined, matrix_sum, matrix_difference, matrix_hadamard_product,
              apply_to_matrix_elements, vector_sum, vector_difference, hadamard_product
<1> HIDE DEF dyn, sta
<1>6. Combined(op, m, n) = [rows |-> m.rows, cols |-> m.cols, data |-> [k \in K |-> dyn(k)]]
  BY <1>1, <1>4
<1>7. StaticCombined(op, m, n) = [rows |-> m.rows, cols |-> m.cols, data |-> [k \in K |-> cut(k)]]
  BY <1>1, <1>5
<1>8. [k \in K |-> dyn(k)] \in Seq(Int) /\ Len([k \in K |-> dyn(k)]) = Len(m.data)
  <2>1. [k \in K |-> dyn(k)] \in [1..Len(m.data) -> Int]
    BY <1>1, <1>3
  <2> QED BY <1>1, <2>1, IsList
<1>9. Combined(op, m, n) \in Matrix
  BY <1>1, <1>6, <1>8 DEF Matrix
<1>10. ASSUME NEW i \in 0..(m.rows - 1), NEW j \in 0..(m.cols - 1), j < m.rows
       PROVE  Near(At(Combined(op, m, n), i, j), At(StaticCombined(op, m, n), i, j), 1)
  <2> DEFINE k == Place(m.cols, i, j)
  <2>1. k \in K
    BY ElementIs
  <2>2. (k - 1) % m.cols = j
    <3>1. m.cols \in Nat \ {0} /\ i \in Nat
      BY <1>1
    <3> QED BY <3>1, PlaceTells DEF ColAt
  <2>3. At(Combined(op, m, n), i, j) = dyn(k)
    BY <1>6, <2>1 DEF At, Place
  <2>4. At(StaticCombined(op, m, n), i, j) = cut(k)
    <3> HIDE DEF cut
    <3> QED BY <1>7, <2>1 DEF At, Place
  <2>5. cut(k) = sta(k)
    BY <1>10, <2>2
  <2> HIDE DEF k, cut
  <2> QED BY <1>3, <2>1, <2>3, <2>4, <2>5
<1> QED BY <1>6, <1>9, <1>10

\* The dot product of two lists of n numbers, as a fact about Near
LEMMA DotsNear ==
  ASSUME NEW n \in Nat, NEW v \in [1..n -> Int], NEW w \in [1..n -> Int]
  PROVE  /\ dyn_vector_dot_product(v, w) \in Int /\ dot_product(v, w) \in Int
         /\ Near(dyn_vector_dot_product(v, w), dot_product(v, w), 2 * n)
<1>1. 2 * n \in Nat
  OBVIOUS
<1>2. dyn_vector_dot_product(v, w) \in Int /\ dot_product(v, w) \in Int
  BY DotsAreNear
<1>3. /\ dyn_vector_dot_product(v, w) - dot_product(v, w) <= (2 * n) * (Epsilon - 1)
      /\ dot_product(v, w) - dyn_vector_dot_product(v, w) <= (2 * n) * (Epsilon - 1)
  BY DotsAreNear
<1> DEFINE x == dyn_vector_dot_product(v, w)
           y == dot_product(v, w)
           k == 2 * n
<1> HIDE DEF x, y, k
<1>4. Near(x, y, k)
  BY <1>1, <1>2, <1>3, NearBoth DEF x, y, k
<1> QED BY <1>2, <1>4 DEF x, y, k

\* The product, in the columns the second matrix has
LEMMA ProductIsNear ==
  ASSUME NEW m \in Matrix, NEW n \in Matrix,
         m.rows # 0, m.cols = n.rows, n.cols <= m.cols
  PROVE  /\ dyn_matrix_product(m, n) \in Matrix
         /\ dyn_matrix_product(m, n).rows = m.rows /\ dyn_matrix_product(m, n).cols = m.cols
         /\ \A i \in 0..(m.rows - 1), j \in 0..(m.cols - 1) : j < n.cols =>
              Near(At(dyn_matrix_product(m, n), i, j), At(matrix_product(m, n), i, j), 2 * m.cols)
<1> DEFINE dyn(i, j) == dyn_vector_dot_product(get_row(m, i - 1), get_col(n, j - 1))
           sta(i, j) == dot_product(get_matrix_row(m, i - 1), get_matrix_col(n, j - 1))
           A == [i \in 1..m.rows |-> [j \in 1..m.cols |-> IF j <= n.cols THEN dyn(i, j) ELSE 0]]
           B == [i \in 1..m.rows |-> [j \in 1..n.cols |-> sta(i, j)]]
<1>1. m.rows \in Nat \ {0} /\ m.cols \in Nat \ {0} /\ n.rows = m.cols /\ n.cols \in Nat \ {0}
  BY DEF Matrix
<1>2. ASSUME NEW i \in 1..m.rows, NEW j \in 1..n.cols
      PROVE  dyn(i, j) \in Int /\ sta(i, j) \in Int /\ Near(dyn(i, j), sta(i, j), 2 * m.cols)
  <2>1. i - 1 \in 0..(m.rows - 1) /\ j - 1 \in 0..(n.cols - 1)
    BY <1>1
  <2>2. get_row(m, i - 1) \in [1..m.cols -> Int] /\ get_matrix_row(m, i - 1) = get_row(m, i - 1)
    BY <2>1, LinesAre
  <2>3. get_col(n, j - 1) \in [1..m.cols -> Int] /\ get_matrix_col(n, j - 1) = get_col(n, j - 1)
    BY <1>1, <2>1, LinesAre
  <2> QED BY <1>1, <2>2, <2>3, DotsNear
<1>3. dyn_matrix_product(m, n) = flatten(A) /\ matrix_product(m, n) = flatten(B)
  BY DEF dyn_matrix_product, matrix_product
<1> HIDE DEF dyn, sta
<1>4. A \in [1..m.rows -> [1..m.cols -> Int]]
  <2>1. ASSUME NEW i \in 1..m.rows, NEW j \in 1..m.cols
        PROVE  (IF j <= n.cols THEN dyn(i, j) ELSE 0) \in Int
    BY <1>1, <1>2
  <2> QED BY <2>1
<1>5. B \in [1..m.rows -> [1..n.cols -> Int]]
  BY <1>2
<1> HIDE DEF A, B
<1>6. /\ flatten(A) \in Matrix /\ flatten(A).rows = m.rows /\ flatten(A).cols = m.cols
      /\ \A i \in 0..(m.rows - 1), j \in 0..(m.cols - 1) : At(flatten(A), i, j) = A[i + 1][j + 1]
  <2>1. A \in RowsOf(m.rows, m.cols)
    BY <1>4 DEF RowsOf
  <2> QED BY <1>1, <2>1, FlattenPlaces
<1>7. \A i \in 0..(m.rows - 1), j \in 0..(n.cols - 1) : At(flatten(B), i, j) = B[i + 1][j + 1]
  <2>1. B \in RowsOf(m.rows, n.cols)
    BY <1>5 DEF RowsOf
  <2> QED BY <1>1, <2>1, FlattenPlaces
<1>8. ASSUME NEW i \in 0..(m.rows - 1), NEW j \in 0..(m.cols - 1), j < n.cols
      PROVE  Near(At(flatten(A), i, j), At(flatten(B), i, j), 2 * m.cols)
  <2>1. i + 1 \in 1..m.rows /\ j + 1 \in 1..n.cols /\ j + 1 \in 1..m.cols /\ j \in 0..(n.cols - 1)
    BY <1>1, <1>8
  <2>2. At(flatten(A), i, j) = dyn(i + 1, j + 1)
    <3>1. j + 1 <= n.cols
      BY <2>1
    <3>2. A[i + 1][j + 1] = dyn(i + 1, j + 1)
      BY <2>1, <3>1 DEF A
    <3> QED BY <1>6, <3>2
  <2>3. At(flatten(B), i, j) = sta(i + 1, j + 1)
    <3>1. B[i + 1][j + 1] = sta(i + 1, j + 1)
      BY <2>1 DEF B
    <3> QED BY <1>7, <2>1, <3>1
  <2> QED BY <1>2, <2>1, <2>2, <2>3
<1> QED BY <1>3, <1>6, <1>8

\* The products of a matrix and a vector, on either side
LEMMA MatrixVectorIsNear ==
  ASSUME NEW m \in Matrix, NEW v \in [1..m.cols -> Int]
  PROVE  /\ dyn_matrix_vector_product(m, v) \in [1..m.rows -> Int]
         /\ matrix_vector_product(m, v) \in [1..m.rows -> Int]
         /\ \A i \in 1..m.rows :
              Near(dyn_matrix_vector_product(m, v)[i], matrix_vector_product(m, v)[i], 2 * m.cols)
<1>1. m.rows \in Nat /\ m.cols \in Nat
  BY DEF Matrix
<1>2. ASSUME NEW i \in 1..m.rows
      PROVE  /\ dyn_vector_dot_product(get_row(m, i - 1), v) \in Int
             /\ dot_product(get_matrix_row(m, i - 1), v) \in Int
             /\ Near(dyn_vector_dot_product(get_row(m, i - 1), v),
                     dot_product(get_matrix_row(m, i - 1), v), 2 * m.cols)
  <2>1. i - 1 \in 0..(m.rows - 1)
    BY <1>1
  <2>2. get_row(m, i - 1) \in [1..m.cols -> Int] /\ get_matrix_row(m, i - 1) = get_row(m, i - 1)
    BY <2>1, LinesAre
  <2> QED BY <1>1, <2>2, DotsNear
<1> QED BY <1>2 DEF dyn_matrix_vector_product, matrix_vector_product

StaticVectorMatrix(v, m) == [j \in 1..m.cols |-> dot_product(v, get_col(m, j - 1))]

\* (matrix.hpp has no product from the left; it is made of its dot products.)
LEMMA VectorMatrixIsNear ==
  ASSUME NEW m \in Matrix, NEW v \in [1..m.rows -> Int]
  PROVE  /\ dyn_vector_matrix_product(v, m) \in [1..m.cols -> Int]
         /\ StaticVectorMatrix(v, m) \in [1..m.cols -> Int]
         /\ \A j \in 1..m.cols :
              Near(dyn_vector_matrix_product(v, m)[j], StaticVectorMatrix(v, m)[j], 2 * m.rows)
<1>1. m.rows \in Nat /\ m.cols \in Nat
  BY DEF Matrix
<1>2. ASSUME NEW j \in 1..m.cols
      PROVE  /\ dyn_vector_dot_product(v, get_col(m, j - 1)) \in Int
             /\ dot_product(v, get_col(m, j - 1)) \in Int
             /\ Near(dyn_vector_dot_product(v, get_col(m, j - 1)),
                     dot_product(v, get_col(m, j - 1)), 2 * m.rows)
  <2>1. j - 1 \in 0..(m.cols - 1)
    BY <1>1
  <2>2. get_col(m, j - 1) \in [1..m.rows -> Int]
    BY <2>1, LinesAre
  <2> QED BY <1>1, <2>2, DotsNear
<1> QED BY <1>2 DEF dyn_vector_matrix_product, StaticVectorMatrix

StaticVectors(op, v, w) == CASE op = "vector_sum" -> vector_sum(v, w)
                             [] op = "vector_difference" -> vector_difference(v, w)
                             [] op = "vector_hadamard" -> hadamard_product(v, w)

\* The operations of two vectors, and of a vector and a number
LEMMA VectorsAreNear ==
  ASSUME NEW op \in Vectors, NEW n \in Nat, NEW v \in [1..n -> Int], NEW w \in [1..n -> Int]
  PROVE  /\ CombinedVectors(op, v, w) \in [1..n -> Int] /\ StaticVectors(op, v, w) \in [1..n -> Int]
         /\ \A i \in 1..n : Near(CombinedVectors(op, v, w)[i], StaticVectors(op, v, w)[i], 1)
<1>1. op \in {"vector_sum", "vector_difference", "vector_hadamard"} /\ DOMAIN v = 1..n
  BY DEF Vectors
<1>2. ASSUME NEW i \in 1..n
      PROVE  /\ epsilon_sum(v[i], w[i]) \in Int /\ Near(epsilon_sum(v[i], w[i]), v[i] + w[i], 1)
             /\ epsilon_difference(v[i], w[i]) \in Int
             /\ Near(epsilon_difference(v[i], w[i]), v[i] - w[i], 1)
             /\ epsilon_product(v[i], w[i]) \in Int /\ Near(epsilon_product(v[i], w[i]), v[i] * w[i], 1)
             /\ v[i] + w[i] \in Int /\ v[i] - w[i] \in Int /\ v[i] * w[i] \in Int
  <2>1. v[i] \in Int /\ w[i] \in Int
    OBVIOUS
  <2>2. v[i] + w[i] \in Int /\ v[i] - w[i] \in Int /\ v[i] * w[i] \in Int
    BY <2>1
  <2> QED BY <2>1, <2>2, OneIsNear
<1>3. CASE op = "vector_sum"
  BY <1>1, <1>2, <1>3 DEF CombinedVectors, StaticVectors, dyn_vector_sum, vector_sum
<1>4. CASE op = "vector_difference"
  BY <1>1, <1>2, <1>4 DEF CombinedVectors, StaticVectors, dyn_vector_difference, vector_difference
<1>5. CASE op = "vector_hadamard"
  BY <1>1, <1>2, <1>5 DEF CombinedVectors, StaticVectors, dyn_vector_hadamard_product, hadamard_product
<1> QED BY <1>1, <1>3, <1>4, <1>5

LEMMA ScaledIsNear ==
  ASSUME NEW n \in Nat, NEW v \in [1..n -> Int], NEW s \in Int
  PROVE  /\ dyn_vector_scalar_product(v, s) \in [1..n -> Int] /\ scalar_product(s, v) \in [1..n -> Int]
         /\ \A i \in 1..n : Near(dyn_vector_scalar_product(v, s)[i], scalar_product(s, v)[i], 1)
<1>1. ASSUME NEW i \in 1..n
      PROVE  /\ epsilon_product(v[i], s) \in Int /\ Near(epsilon_product(v[i], s), s * v[i], 1)
             /\ s * v[i] \in Int
  <2>1. v[i] \in Int /\ s * v[i] \in Int
    OBVIOUS
  <2> QED BY <2>1, OneIsNear
<1> QED BY <1>1 DEF dyn_vector_scalar_product, scalar_product

-----------------------------------------------------------------------------
(* Every call *)

Exact(c) ==
  \A p \in Both(c) : Near(At(c.result, p[1], p[2]), At(StaticResult(c), p[1], p[2]), Flushes(c))

\* A history of an operation that makes a vector
LEMMA ColumnsAreExact ==
  ASSUME NEW c, NEW k \in Nat, NEW v \in [1..k -> Int], NEW w \in [1..k -> Int], NEW f \in Nat,
         c.result = Column(v), StaticResult(c) = Column(w), Flushes(c) = f,
         \A i \in 1..k : Near(v[i], w[i], f)
  PROVE  Exact(c)
<1> SUFFICES ASSUME NEW p \in Both(c)
             PROVE  Near(At(Column(v), p[1], p[2]), At(Column(w), p[1], p[2]), f)
  BY DEF Exact
<1>1. Column(v).rows = k /\ Column(v).cols = 1
  BY ColumnIs
<1>2. p \in (0..(k - 1)) \X (0..0)
  BY <1>1 DEF Both
<1>3. p[1] \in 0..(k - 1) /\ p[2] = 0 /\ p[1] + 1 \in 1..k
  BY <1>2
<1>4. At(Column(v), p[1], 0) = v[p[1] + 1] /\ At(Column(w), p[1], 0) = w[p[1] + 1]
  BY <1>3, ColumnIs
<1> QED BY <1>3, <1>4

\* The history of an elementwise operation, and of a product
LEMMA CombinedIsExact ==
  ASSUME NEW op \in Elementwises, NEW m \in Matrix, NEW n \in Matrix, NEW how,
         m.rows = n.rows, m.cols = n.cols
  PROVE  Exact([op |-> op, ended |-> how, m |-> m, n |-> n, result |-> Combined(op, m, n)])
<1> DEFINE c == [op |-> op, ended |-> how, m |-> m, n |-> n, result |-> Combined(op, m, n)]
<1>1. c.op = op /\ c.m = m /\ c.n = n /\ c.result = Combined(op, m, n)
  OBVIOUS
<1> HIDE DEF c
<1>2. StaticResult(c) = StaticCombined(op, m, n)
  BY <1>1 DEF StaticResult, StaticCombined, Elementwises
<1>3. Flushes(c) = 1
  BY <1>1 DEF Flushes, Elementwises
<1>4. c.result.rows = m.rows /\ c.result.cols = m.cols
  BY <1>1, CombinedIsNear
<1>5. ASSUME NEW p \in Both(c)
      PROVE  p[1] \in 0..(m.rows - 1) /\ p[2] \in 0..(m.cols - 1) /\ p[2] < m.rows
  BY <1>1, <1>4 DEF Both, Elementwises
<1> QED BY <1>1, <1>2, <1>3, <1>5, CombinedIsNear DEF Exact, c

LEMMA ProductIsExact ==
  ASSUME NEW m \in Matrix, NEW n \in Matrix, NEW how,
         m.rows # 0, m.cols = n.rows, n.cols <= m.cols
  PROVE  Exact([op |-> "product", ended |-> how, m |-> m, n |-> n,
                result |-> dyn_matrix_product(m, n)])
<1> DEFINE c == [op |-> "product", ended |-> how, m |-> m, n |-> n,
                 result |-> dyn_matrix_product(m, n)]
<1>1. c.op = "product" /\ c.m = m /\ c.n = n /\ c.result = dyn_matrix_product(m, n)
  OBVIOUS
<1> HIDE DEF c
<1>2. StaticResult(c) = matrix_product(m, n) /\ Flushes(c) = 2 * m.cols
  BY <1>1 DEF StaticResult, Flushes
<1>3. c.result.rows = m.rows /\ c.result.cols = m.cols
  BY <1>1, ProductIsNear
<1>4. ASSUME NEW p \in Both(c)
      PROVE  p[1] \in 0..(m.rows - 1) /\ p[2] \in 0..(m.cols - 1) /\ p[2] < n.cols
  BY <1>1, <1>3 DEF Both
<1> QED BY <1>1, <1>2, <1>4, ProductIsNear DEF Exact, c

-----------------------------------------------------------------------------
(* The invariant of the matrices of a program *)

MatInv == mats \in [Registers -> Matrix] /\ vec \in Seq(Int)
CallExact == call.ended = "ok" /\ "result" \in DOMAIN call => Exact(call)

\* What MatInv says of the vector, and of the matrix that was moved from
LEMMA VecIs ==
  ASSUME MatInv
  PROVE  Len(vec) \in Nat /\ vec \in [1..Len(vec) -> Int] /\ (vec = <<>> <=> Len(vec) = 0)
<1> QED BY DEF MatInv

LEMMA EmptyIs == Empty \in Matrix
<1> QED BY DEF Empty, Matrix

\* A call that stores a result in a register
LEMMA StoreStep ==
  ASSUME MatInv, NEW op, NEW r \in Registers, NEW s \in Registers, NEW ends, NEW result,
         Store(op, r, s, ends, result), ends = "ok" => result \in Matrix,
         ends = "ok" => Exact([op |-> op, ended |-> ends, m |-> mats[r], n |-> mats[s],
                               result |-> result])
  PROVE  MatInv' /\ CallExact'
<1>1. mats' \in [Registers -> Matrix] /\ vec' = vec
  BY DEF Store, MatInv
<1>2. call' = [op |-> op, ended |-> ends, m |-> mats[r], n |-> mats[s], result |-> result]
  BY DEF Store
<1>3. call'.ended = ends
  BY <1>2
<1>4. CallExact'
  <2> SUFFICES ASSUME ends = "ok" PROVE Exact(call')
    BY <1>3 DEF CallExact, Exact, Both, At, StaticResult, Flushes, Near, abs
  <2> QED BY <1>2
<1> QED BY <1>1, <1>4 DEF MatInv

\* A call that makes a vector
LEMMA ReplaceStep ==
  ASSUME MatInv, NEW op, NEW r \in Registers, NEW ends, NEW result,
         Replace(op, r, ends, result), ends = "ok" => result \in Seq(Int),
         ends = "ok" => Exact([op |-> op, ended |-> ends, m |-> mats[r], n |-> Column(vec),
                               result |-> Column(result)])
  PROVE  MatInv' /\ CallExact'
<1>1. mats' = mats /\ vec' \in Seq(Int)
  BY DEF Replace, MatInv
<1>2. call' = [op |-> op, ended |-> ends, m |-> mats[r], n |-> Column(vec), result |-> Column(result)]
  BY DEF Replace
<1>3. call'.ended = ends
  BY <1>2
<1>4. CallExact'
  <2> SUFFICES ASSUME ends = "ok" PROVE Exact(call')
    BY <1>3 DEF CallExact, Exact, Both, At, StaticResult, Flushes, Near, abs
  <2> QED BY <1>2
<1> QED BY <1>1, <1>4 DEF MatInv

\* Each operation keeps the sizes, and what it returns is near the exact result.
LEMMA MatricesStep ==
  ASSUME MatInv, MatricesNext
  PROVE  MatInv' /\ CallExact'
<1>0. /\ \A r \in Registers : mats[r] \in Matrix
      /\ Len(vec) \in Nat /\ vec \in [1..Len(vec) -> Int] /\ vec \in Seq(Int)
      /\ (vec = <<>> <=> Len(vec) = 0)
  BY VecIs DEF MatInv
<1>m. ASSUME NEW m \in Matrix
      PROVE  m.rows \in Nat /\ m.cols \in Nat /\ (m.rows = 0 <=> m.cols = 0)
  BY DEF Matrix
\* Calls without a result
<1>1. ASSUME NEW r \in Registers, Construct(r) PROVE MatInv' /\ CallExact'
  <2>1. PICK m \in Samples : m.rows > 0 /\ m.cols > 0 /\ mats' = [mats EXCEPT ![r] = m]
    BY <1>1 DEF Construct
  <2>2. m \in Matrix
    BY <2>1, MatricesAssumption DEF Matrix
  <2>3. MatInv'
    BY <1>1, <2>1, <2>2 DEF Construct, MatInv
  <2>4. call' = [op |-> "construct", ended |-> "ok"]
    BY <1>1 DEF Construct, Quiet
  <2> QED BY <2>3, <2>4 DEF CallExact
<1>2. ASSUME NEW r \in Registers, NEW s \in Registers, Copy(r, s) PROVE MatInv' /\ CallExact'
  <2>1. MatInv'
    BY <1>2 DEF Copy, MatInv
  <2>2. call' = [op |-> "copy", ended |-> "ok"]
    BY <1>2 DEF Copy, Quiet
  <2> QED BY <2>1, <2>2 DEF CallExact
<1>3. ASSUME NEW r \in Registers, NEW s \in Registers, Move(r, s) PROVE MatInv' /\ CallExact'
  <2>1. MatInv'
    BY <1>3, EmptyIs DEF Move, MatInv
  <2>2. call' = [op |-> "move", ended |-> "ok"]
    BY <1>3 DEF Move, Quiet
  <2> QED BY <2>1, <2>2 DEF CallExact
<1>4. ASSUME NEW r \in Registers, NEW i \in 0..1, NEW j \in 0..1, Set(r, i, j, 1)
      PROVE  MatInv' /\ CallExact'
  <2> DEFINE m == mats[r]
             k == Place(m.cols, i, j)
             inside == i < m.rows /\ j < m.cols
  <2>1. m \in Matrix /\ m.rows \in Nat /\ m.cols \in Nat
    BY <1>0, <1>m
  <2>2. call' = [op |-> "set", ended |-> IF inside THEN "ok" ELSE "asserts"]
    BY <1>4 DEF Set
  <2>3. MatInv'
    <3>1. CASE ~inside
      BY <1>4, <3>1 DEF Set, MatInv
    <3>2. CASE inside
      <4>1. i \in 0..(m.rows - 1) /\ j \in 0..(m.cols - 1)
        BY <2>1, <3>2
      <4>2. k \in DOMAIN m.data
        BY <2>1, <4>1, ElementIs
      <4>3. mats' = [mats EXCEPT ![r].data[i * mats[r].cols + j + 1] = 1]
        BY <1>4, <3>2 DEF Set
      <4>4. mats' = [mats EXCEPT ![r] = [m EXCEPT !.data = [m.data EXCEPT ![k] = 1]]]
        BY <4>3 DEF Place
      <4>5. [m EXCEPT !.data = [m.data EXCEPT ![k] = 1]] \in Matrix
        <5>1. [m.data EXCEPT ![k] = 1] \in Seq(Int) /\ Len([m.data EXCEPT ![k] = 1]) = Len(m.data)
          <6> HIDE DEF k
          <6> QED BY <2>1, <4>2 DEF Matrix
        <5> HIDE DEF k, m
        <5> QED BY <2>1, <5>1 DEF Matrix
      <4> QED BY <1>4, <4>4, <4>5 DEF Set, MatInv
    <3> QED BY <3>1, <3>2
  <2> QED BY <2>2, <2>3 DEF CallExact
<1>5. ASSUME NEW i \in 0..1, NEW op \in {"row", "column"}, NEW r \in Registers, Take(op, i, r)
      PROVE  MatInv' /\ CallExact'
  <2> DEFINE m == mats[r]
             inside == i < (IF op = "row" THEN m.rows ELSE m.cols)
             taken == IF op = "row" THEN get_row(m, i) ELSE get_col(m, i)
  <2>1. m \in Matrix /\ m.rows \in Nat /\ m.cols \in Nat
    BY <1>0, <1>m
  <2>2. call' = [op |-> op, ended |-> IF inside THEN "ok" ELSE "asserts"]
    BY <1>5 DEF Take
  <2>3. inside => taken \in Seq(Int)
    <3>1. ASSUME op = "row", i < m.rows PROVE get_row(m, i) \in Seq(Int)
      <4>1. i \in 0..(m.rows - 1)
        BY <2>1, <3>1
      <4>2. get_row(m, i) \in [1..m.cols -> Int]
        BY <2>1, <4>1, LinesAre
      <4> QED BY <2>1, <4>2, IsList
    <3>2. ASSUME op # "row", i < m.cols PROVE get_col(m, i) \in Seq(Int)
      <4>1. i \in 0..(m.cols - 1)
        BY <2>1, <3>2
      <4>2. get_col(m, i) \in [1..m.rows -> Int]
        BY <2>1, <4>1, LinesAre
      <4> QED BY <2>1, <4>2, IsList
    <3> QED BY <3>1, <3>2
  <2>4. vec' = (IF inside THEN taken ELSE vec) /\ mats' = mats
    BY <1>5 DEF Take
  <2>5. MatInv'
    <3> HIDE DEF inside, taken
    <3> QED BY <2>3, <2>4 DEF MatInv
  <2> QED BY <2>2, <2>5 DEF CallExact
<1>6. ASSUME NEW r \in Registers, Diagonalize(r) PROVE MatInv' /\ CallExact'
  <2>1. call' = [op |-> "diagonalize", ended |-> IF vec = <<>> THEN "asserts" ELSE "ok"]
    BY <1>6 DEF Diagonalize
  <2>2. ASSUME vec # <<>> PROVE dyn_matrix_diagonalize(vec) \in Matrix
    <3> DEFINE n == Len(vec)
               X == [i \in 1..n |-> [j \in 1..n |-> IF i = j THEN vec[i] ELSE 0]]
    <3>1. n \in Nat \ {0}
      BY <1>0, <2>2
    <3>2. X \in RowsOf(n, n)
      BY <1>0 DEF RowsOf
    <3>3. dyn_matrix_diagonalize(vec) = flatten(X)
      <4>1. DOMAIN vec = 1..n
        BY <1>0
      <4> QED BY <4>1 DEF dyn_matrix_diagonalize
    <3> HIDE DEF n, X
    <3> QED BY <3>1, <3>2, <3>3, FlattenPlaces
  <2>3. MatInv'
    BY <1>6, <2>2 DEF Diagonalize, MatInv
  <2> QED BY <2>1, <2>3 DEF CallExact
\* Calls with one
<1>7. ASSUME NEW op \in Elementwises, NEW r \in Registers, NEW s \in Registers, Combine(op, r, s)
      PROVE  MatInv' /\ CallExact'
  <2> DEFINE m == mats[r]
             n == mats[s]
             ends == CombineEnds(m, n)
             result == IF ends = "ok" THEN Combined(op, m, n) ELSE Empty
  <2>1. m \in Matrix /\ n \in Matrix
    BY <1>0
  <2>2. Store(op, r, s, ends, result)
    BY <1>7 DEF Combine
  <2>3. ends = "ok" => m.rows = n.rows /\ m.cols = n.cols
    BY DEF CombineEnds
  <2>4. ends = "ok" => result \in Matrix
    BY <2>1, <2>3, CombinedIsNear
  <2>5. ends = "ok" => Exact([op |-> op, ended |-> ends, m |-> m, n |-> n, result |-> result])
    BY <2>1, <2>3, CombinedIsExact
  <2> HIDE DEF ends, result
  <2> QED BY <2>2, <2>4, <2>5, StoreStep
<1>8. ASSUME NEW r \in Registers, NEW s \in Registers, Multiply(r, s) PROVE MatInv' /\ CallExact'
  <2> DEFINE m == mats[r]
             n == mats[s]
             ends == ProductEnds(m, n)
             result == IF ends = "ok" THEN dyn_matrix_product(m, n) ELSE Empty
  <2>1. m \in Matrix /\ n \in Matrix /\ n.cols \in Nat /\ m.cols \in Nat
    BY <1>0, <1>m
  <2>2. Store("product", r, s, ends, result)
    BY <1>8 DEF Multiply
  <2>3. ends = "ok" => m.rows # 0 /\ m.cols = n.rows /\ n.cols <= m.cols
    BY <2>1 DEF ProductEnds
  <2>4. ends = "ok" => result \in Matrix
    BY <2>1, <2>3, ProductIsNear
  <2>5. ends = "ok" => Exact([op |-> "product", ended |-> ends, m |-> m, n |-> n, result |-> result])
    BY <2>1, <2>3, ProductIsExact
  <2> HIDE DEF ends, result
  <2> QED BY <2>2, <2>4, <2>5, StoreStep
<1>9. ASSUME NEW r \in Registers, MatrixTimesVector(r) PROVE MatInv' /\ CallExact'
  <2> DEFINE m == mats[r]
             ends == IF m.cols # Len(vec) THEN "throws" ELSE IF m.rows = 0 THEN "asserts" ELSE "ok"
             result == IF ends = "ok" THEN dyn_matrix_vector_product(m, vec) ELSE <<>>
             w == matrix_vector_product(m, vec)
             c == [op |-> "matrix_vector", ended |-> ends, m |-> m, n |-> Column(vec),
                   result |-> Column(result)]
  <2>1. m \in Matrix /\ m.rows \in Nat /\ m.cols \in Nat
    BY <1>0, <1>m
  <2>2. Replace("matrix_vector", r, ends, result)
    BY <1>9 DEF MatrixTimesVector
  <2>3. ASSUME ends = "ok" PROVE result \in Seq(Int) /\ Exact(c)
    <3>1. m.cols = Len(vec) /\ vec \in [1..m.cols -> Int] /\ result = dyn_matrix_vector_product(m, vec)
      BY <1>0, <2>3
    <3>2. /\ result \in [1..m.rows -> Int] /\ w \in [1..m.rows -> Int]
          /\ \A i \in 1..m.rows : Near(result[i], w[i], 2 * m.cols)
      BY <2>1, <3>1, MatrixVectorIsNear
    <3>3. Column(vec).rows = m.cols /\ get_col(Column(vec), 0) = vec
      BY <2>1, <3>1, ColumnIs
    <3>4. c.op = "matrix_vector" /\ c.m = m /\ c.n = Column(vec) /\ c.result = Column(result)
      OBVIOUS
    <3> HIDE DEF c, result, ends
    <3>5. StaticResult(c) = Column(w) /\ Flushes(c) = 2 * m.cols
      BY <3>3, <3>4 DEF StaticResult, Flushes
    <3>6. 2 * m.cols \in Nat
      BY <2>1
    <3> HIDE DEF w, m
    <3>7. Exact(c)
      BY <2>1, <3>2, <3>4, <3>5, <3>6, ColumnsAreExact
    <3> QED BY <2>1, <3>2, <3>7, IsList
  <2> HIDE DEF ends, result
  <2> QED BY <2>2, <2>3, ReplaceStep
<1>10. ASSUME NEW r \in Registers, VectorTimesMatrix(r) PROVE MatInv' /\ CallExact'
  <2> DEFINE m == mats[r]
             ends == IF Len(vec) # m.rows THEN "throws" ELSE IF m.cols = 0 THEN "asserts" ELSE "ok"
             result == IF ends = "ok" THEN dyn_vector_matrix_product(vec, m) ELSE <<>>
             w == StaticVectorMatrix(vec, m)
             c == [op |-> "vector_matrix", ended |-> ends, m |-> m, n |-> Column(vec),
                   result |-> Column(result)]
  <2>1. m \in Matrix /\ m.rows \in Nat /\ m.cols \in Nat
    BY <1>0, <1>m
  <2>2. Replace("vector_matrix", r, ends, result)
    BY <1>10 DEF VectorTimesMatrix
  <2>3. ASSUME ends = "ok" PROVE result \in Seq(Int) /\ Exact(c)
    <3>1. m.rows = Len(vec) /\ vec \in [1..m.rows -> Int] /\ result = dyn_vector_matrix_product(vec, m)
      BY <1>0, <2>3
    <3>2. /\ result \in [1..m.cols -> Int] /\ w \in [1..m.cols -> Int]
          /\ \A i \in 1..m.cols : Near(result[i], w[i], 2 * m.rows)
      BY <2>1, <3>1, VectorMatrixIsNear
    <3>3. Column(vec).rows = m.rows /\ get_col(Column(vec), 0) = vec
      BY <2>1, <3>1, ColumnIs
    <3>4. c.op = "vector_matrix" /\ c.m = m /\ c.n = Column(vec) /\ c.result = Column(result)
      OBVIOUS
    <3> HIDE DEF c, result, ends
    <3>5. StaticResult(c) = Column(w) /\ Flushes(c) = 2 * m.rows
      BY <3>3, <3>4 DEF StaticResult, Flushes, StaticVectorMatrix
    <3>6. 2 * m.rows \in Nat
      BY <2>1
    <3> HIDE DEF w, m
    <3>7. Exact(c)
      BY <2>1, <3>2, <3>4, <3>5, <3>6, ColumnsAreExact
    <3> QED BY <2>1, <3>2, <3>7, IsList
  <2> HIDE DEF ends, result
  <2> QED BY <2>2, <2>3, ReplaceStep
<1>11. ASSUME NEW op \in Vectors, NEW r \in Registers, CombineVector(op, r) PROVE MatInv' /\ CallExact'
  <2> DEFINE m == mats[r]
             u == get_row(m, 0)
             ends == IF Len(vec) = Len(u) THEN "ok" ELSE "throws"
             result == IF ends = "ok" THEN CombinedVectors(op, vec, u) ELSE <<>>
             w == StaticVectors(op, vec, u)
             c == [op |-> op, ended |-> ends, m |-> m, n |-> Column(vec), result |-> Column(result)]
  <2>1. m \in Matrix /\ m.rows \in Nat /\ m.cols \in Nat /\ 0 \in 0..(m.rows - 1)
    BY <1>0, <1>m, <1>11 DEF CombineVector
  <2>2. Replace(op, r, ends, result)
    BY <1>11 DEF CombineVector
  <2>3. ASSUME ends = "ok" PROVE result \in Seq(Int) /\ Exact(c)
    <3>0. u \in [1..m.cols -> Int] /\ Len(u) = m.cols
      <4>1. u \in [1..m.cols -> Int]
        BY <2>1, LinesAre
      <4> HIDE DEF u
      <4> QED BY <2>1, <4>1, IsList
    <3>1. m.cols = Len(vec) /\ vec \in [1..m.cols -> Int] /\ result = CombinedVectors(op, vec, u)
      <4> HIDE DEF u
      <4> QED BY <1>0, <2>3, <3>0
    <3> HIDE DEF u
    <3>2. /\ result \in [1..m.cols -> Int] /\ w \in [1..m.cols -> Int]
          /\ \A i \in 1..m.cols : Near(result[i], w[i], 1)
      BY <2>1, <3>0, <3>1, VectorsAreNear
    <3>3. get_col(Column(vec), 0) = vec
      BY <2>1, <3>1, ColumnIs
    <3>4. c.op = op /\ c.m = m /\ c.n = Column(vec) /\ c.result = Column(result)
      OBVIOUS
    <3> HIDE DEF c, result, ends
    <3>5. StaticResult(c) = Column(w) /\ Flushes(c) = 1
      BY <3>3, <3>4 DEF StaticResult, Flushes, StaticVectors, Vectors, u
    <3> HIDE DEF w, m
    <3>6. Exact(c)
      BY <2>1, <3>2, <3>4, <3>5, ColumnsAreExact
    <3> QED BY <2>1, <3>2, <3>6, IsList
  <2> HIDE DEF ends, result
  <2> QED BY <2>2, <2>3, ReplaceStep
<1>12. ASSUME NEW s \in {-1, 2}, Scale(s) PROVE MatInv' /\ CallExact'
  <2> DEFINE n == Len(vec)
             v == dyn_vector_scalar_product(vec, s)
             w == scalar_product(s, vec)
             c == [op |-> "scale", ended |-> "ok", m |-> Column(vec), by |-> s, result |-> Column(v)]
  <2>1. s \in Int
    OBVIOUS
  <2>2. v \in [1..n -> Int] /\ w \in [1..n -> Int] /\ \A i \in 1..n : Near(v[i], w[i], 1)
    BY <1>0, <2>1, ScaledIsNear
  <2>3. v \in Seq(Int)
    <3> HIDE DEF v
    <3> QED BY <1>0, <2>2, IsList
  <2>4. Exact(c)
    <3>1. get_col(Column(vec), 0) = vec
      BY <1>0, ColumnIs
    <3>2. c.op = "scale" /\ c.m = Column(vec) /\ c.by = s /\ c.result = Column(v)
      OBVIOUS
    <3> HIDE DEF c, v
    <3>3. StaticResult(c) = Column(w) /\ Flushes(c) = 1
      BY <3>1, <3>2 DEF StaticResult, Flushes
    <3> HIDE DEF w, n
    <3>4. n \in Nat
      BY <1>0 DEF n
    <3> QED BY <2>2, <3>2, <3>3, <3>4, ColumnsAreExact
  <2>5. MatInv'
    <3> HIDE DEF v
    <3> QED BY <1>12, <2>3 DEF Scale, MatInv, v
  <2>6. CallExact'
    <3>1. CASE vec = <<>>
      <4>1. call' = [op |-> "scale", ended |-> "throws"]
        BY <1>12, <3>1 DEF Scale
      <4> QED BY <4>1 DEF CallExact
    <3>2. CASE vec # <<>>
      <4>1. call' = c
        BY <1>12, <3>2 DEF Scale
      <4>2. Exact(call')
        BY <2>4, <4>1
      <4> QED BY <4>2 DEF CallExact, Exact, Both, At, StaticResult, Flushes, Near, abs
    <3> QED BY <3>1, <3>2
  <2> QED BY <2>5, <2>6
<1> QED BY <1>1, <1>2, <1>3, <1>4, <1>5, <1>6, <1>7, <1>8, <1>9, <1>10, <1>11, <1>12 DEF MatricesNext

\* After any calls each matrix has as many elements as its size says, moved from or not, and what
\* the operations with run-time sizes return differs from the exact result by no more than what
\* they flush (dyn_matrix.cpp, dyn_vector.cpp against matrix.hpp, vector.hpp).
THEOREM DynamicIsNearStatic == Spec => []DynamicMatchesStatic
<1>1. Init => MatInv /\ CallExact
  <2> SUFFICES ASSUME MatricesInit PROVE MatInv /\ CallExact
    BY DEF Init
  <2>1. MatInv
    BY EmptyIs DEF MatricesInit, MatInv
  <2>2. call = [op |-> "none", ended |-> "ok"]
    BY DEF MatricesInit
  <2> QED BY <2>1, <2>2 DEF CallExact
<1>2. MatInv /\ CallExact /\ [Next]_vars => MatInv' /\ CallExact'
  <2> SUFFICES ASSUME MatInv, CallExact, [Next]_vars PROVE MatInv' /\ CallExact'
    OBVIOUS
  <2>1. MatricesNext \/ UNCHANGED matrixVars
    BY DEF Next, vars
  <2>2. ASSUME UNCHANGED matrixVars PROVE MatInv' /\ CallExact'
    <3>1. mats' = mats /\ vec' = vec /\ call' = call
      BY <2>2 DEF matrixVars
    <3>2. Exact(call)' <=> Exact(call)
      BY <3>1 DEF Exact, Both, At, StaticResult, Flushes, Near, abs
    <3> QED BY <3>1, <3>2 DEF MatInv, CallExact
  <2> QED BY <2>1, <2>2, MatricesStep
<1>3. MatInv /\ CallExact => DynamicMatchesStatic
  <2> SUFFICES ASSUME MatInv, CallExact PROVE DynamicMatchesStatic
    OBVIOUS
  <2>1. \A r \in Registers : Len(mats[r].data) = mats[r].rows * mats[r].cols
    BY DEF MatInv, Matrix
  <2> QED BY <2>1 DEF CallExact, Exact, Near, DynamicMatchesStatic
<1> QED BY <1>1, <1>2, <1>3, PTL DEF Spec
=============================================================================
