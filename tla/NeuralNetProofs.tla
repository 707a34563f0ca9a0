--------------------------- MODULE NeuralNetProofs ---------------------------
(***************************************************************************)
(* Training, for every network, all weights and data: with one row of data, *)
(* or no layer in between, what backpropogate() returns is the gradient of  *)
(* the cost, and training writes nothing out of bounds.  Backpropagation    *)
(* goes down the layers and the derivative up; a product of the two is the  *)
(* same at every layer they meet.                                           *)
(***************************************************************************)
EXTENDS MatricesProofs

\* Vectors of a size
Ints(n) == [1..n -> Int]

-----------------------------------------------------------------------------
(* Up and down the layers *)

\* Induction from lo up to hi, and from hi down to lo
LEMMA Between ==
  ASSUME NEW lo \in Nat, NEW hi \in Nat, lo <= hi, NEW S
  PROVE  /\ lo \in S /\ (\A k \in (lo + 1)..hi : k - 1 \in S => k \in S) => lo..hi \subseteq S
         /\ hi \in S /\ (\A k \in lo..(hi - 1) : k + 1 \in S => k \in S) => lo..hi \subseteq S
<1> DEFINE n == hi - lo
           Up == {i \in 0..n : lo + i \in S}
           Down == {i \in 0..n : hi - i \in S}
<1>1. n \in Nat
  OBVIOUS
<1>2. ASSUME lo \in S, \A k \in (lo + 1)..hi : k - 1 \in S => k \in S PROVE lo..hi \subseteq S
  <2>1. 0 \in Up
    BY <1>1, <1>2
  <2>2. ASSUME NEW i \in 1..n, i - 1 \in Up PROVE i \in Up
    <3>1. lo + i \in (lo + 1)..hi /\ (lo + i) - 1 = lo + (i - 1)
      BY <1>1
    <3>2. lo + (i - 1) \in S
      BY <2>2
    <3> QED BY <1>2, <3>1, <3>2
  <2> HIDE DEF Up
  <2>3. 0..n \subseteq Up
    BY <1>1, <2>1, <2>2, UpTo
  <2>4. ASSUME NEW k \in lo..hi PROVE k \in S
    <3>1. k - lo \in 0..n /\ lo + (k - lo) = k
      BY <1>1
    <3>2. k - lo \in Up
      BY <2>3, <3>1
    <3> QED BY <3>1, <3>2 DEF Up
  <2> QED BY <2>4
<1>3. ASSUME hi \in S, \A k \in lo..(hi - 1) : k + 1 \in S => k \in S PROVE lo..hi \subseteq S
  <2>1. 0 \in Down
    BY <1>1, <1>3
  <2>2. ASSUME NEW i \in 1..n, i - 1 \in Down PROVE i \in Down
    <3>1. hi - i \in lo..(hi - 1) /\ (hi - i) + 1 = hi - (i - 1)
      BY <1>1
    <3>2. hi - (i - 1) \in S
      BY <2>2
    <3> QED BY <1>3, <3>1, <3>2
  <2> HIDE DEF Down
  <2>3. 0..n \subseteq Down
    BY <1>1, <2>1, <2>2, UpTo
  <2>4. ASSUME NEW k \in lo..hi PROVE k \in S
    <3>1. hi - k \in 0..n /\ hi - (hi - k) = k
      BY <1>1
    <3>2. hi - k \in Down
      BY <2>3, <3>1
    <3> QED BY <3>1, <3>2 DEF Down
  <2> QED BY <2>4
<1> QED BY <1>2, <1>3

\* What each layer makes of the layer below
Climbs(s, lo, hi, start, step) ==
  /\ s = [k \in lo..hi |-> s[k]] /\ s[lo] = start
  /\ \A k \in (lo + 1)..hi : s[k] = step[k][s[k - 1]]

\* ... exists if each layer can take what the one below makes.
LEMMA Upward ==
  ASSUME NEW lo \in Nat, NEW hi \in Nat, lo <= hi, NEW V, NEW start \in V[lo], NEW step,
         \A k \in (lo + 1)..hi : \A v \in V[k - 1] : step[k][v] \in V[k]
  PROVE  \E s : Climbs(s, lo, hi, start, step) /\ \A k \in lo..hi : s[k] \in V[k]
<1> DEFINE Has(m) == \E s : /\ s = [k \in lo..hi |-> s[k]] /\ s[lo] = start
                            /\ \A k \in (lo + 1)..m : s[k] = step[k][s[k - 1]]
                            /\ \A k \in lo..m : s[k] \in V[k]
           S == {m \in lo..hi : Has(m)}
<1>1. lo \in S
  <2> DEFINE z == [k \in lo..hi |-> start]
  <2>1. z = [k \in lo..hi |-> z[k]] /\ z[lo] = start
    OBVIOUS
  <2> HIDE DEF z
  <2>2. (\A k \in (lo + 1)..lo : z[k] = step[k][z[k - 1]]) /\ \A k \in lo..lo : z[k] \in V[k]
    BY <2>1
  <2>3. Has(lo)
    BY <2>1, <2>2
  <2> HIDE DEF Has
  <2> QED BY <2>3
<1>2. ASSUME NEW m \in (lo + 1)..hi, m - 1 \in S PROVE m \in S
  <2>1. PICK s : /\ s = [k \in lo..hi |-> s[k]] /\ s[lo] = start
                 /\ \A k \in (lo + 1)..(m - 1) : s[k] = step[k][s[k - 1]]
                 /\ \A k \in lo..(m - 1) : s[k] \in V[k]
    BY <1>2
  <2> DEFINE x == step[m][s[m - 1]]
             t == [k \in lo..hi |-> IF k = m THEN x ELSE s[k]]
  <2>2. x \in V[m]
    <3>1. m - 1 \in lo..(m - 1)
      OBVIOUS
    <3> QED BY <2>1, <3>1
  <2> HIDE DEF x
  <2>3. t = [k \in lo..hi |-> t[k]] /\ t[lo] = start
    <3>1. lo # m /\ lo \in lo..hi
      OBVIOUS
    <3> QED BY <2>1, <3>1
  <2>4. ASSUME NEW k \in (lo + 1)..m PROVE t[k] = step[k][t[k - 1]]
    <3>1. k \in lo..hi /\ k - 1 \in lo..hi /\ k - 1 # m
      OBVIOUS
    <3>2. t[k - 1] = s[k - 1] /\ t[k] = IF k = m THEN x ELSE s[k]
      BY <3>1
    <3>3. k = m \/ k \in (lo + 1)..(m - 1)
      OBVIOUS
    <3> QED BY <2>1, <3>2, <3>3 DEF x
  <2>5. ASSUME NEW k \in lo..m PROVE t[k] \in V[k]
    <3>1. k \in lo..hi /\ (k = m \/ k \in lo..(m - 1))
      OBVIOUS
    <3> QED BY <2>1, <2>2, <3>1
  <2> HIDE DEF t
  <2>6. Has(m)
    BY <2>3, <2>4, <2>5
  <2>7. m \in lo..hi
    OBVIOUS
  <2> HIDE DEF Has
  <2> QED BY <2>6, <2>7
<1> HIDE DEF S
<1>3. lo..hi \subseteq S
  BY <1>1, <1>2, Between
<1>4. hi \in S
  BY <1>3
<1> QED BY <1>4 DEF S, Climbs

\* The same from the last layer down
Descends(s, lo, hi, start, step) ==
  /\ s = [k \in lo..hi |-> s[k]] /\ s[hi] = start
  /\ \A k \in lo..(hi - 1) : s[k] = step[k][s[k + 1]]

LEMMA Downward ==
  ASSUME NEW lo \in Nat, NEW hi \in Nat, lo <= hi, NEW V, NEW start \in V[hi], NEW step,
         \A k \in lo..(hi - 1) : \A v \in V[k + 1] : step[k][v] \in V[k]
  PROVE  \E s : Descends(s, lo, hi, start, step) /\ \A k \in lo..hi : s[k] \in V[k]
<1> DEFINE n == lo + hi
           W == [k \in lo..hi |-> V[n - k]]
           turned == [k \in (lo + 1)..hi |-> step[n - k]]
<1>1. start \in W[lo]
  <2>1. lo \in lo..hi /\ n - lo = hi
    OBVIOUS
  <2> QED BY <2>1
<1>2. ASSUME NEW k \in (lo + 1)..hi, NEW v \in W[k - 1] PROVE turned[k][v] \in W[k]
  <2>1. /\ n - k \in lo..(hi - 1) /\ (n - k) + 1 = n - (k - 1)
        /\ k \in lo..hi /\ k - 1 \in lo..hi
    OBVIOUS
  <2>2. v \in V[(n - k) + 1]
    BY <1>2, <2>1
  <2>3. step[n - k][v] \in V[n - k]
    BY <2>1, <2>2
  <2> QED BY <2>1, <2>3
<1>3. PICK t : Climbs(t, lo, hi, start, turned) /\ \A k \in lo..hi : t[k] \in W[k]
  <2> HIDE DEF W, turned
  <2> QED BY <1>1, <1>2, Upward
<1> DEFINE s == [k \in lo..hi |-> t[n - k]]
<1>4. s = [k \in lo..hi |-> s[k]] /\ s[hi] = start
  <2>1. hi \in lo..hi /\ n - hi = lo
    OBVIOUS
  <2> QED BY <1>3, <2>1 DEF Climbs
<1>5. ASSUME NEW k \in lo..(hi - 1) PROVE s[k] = step[k][s[k + 1]]
  <2>1. /\ n - k \in (lo + 1)..hi /\ (n - k) - 1 = n - (k + 1) /\ n - (n - k) = k
        /\ k \in lo..hi /\ k + 1 \in lo..hi
    OBVIOUS
  <2>2. t[n - k] = turned[n - k][t[(n - k) - 1]]
    BY <1>3, <2>1 DEF Climbs
  <2> QED BY <2>1, <2>2
<1>6. ASSUME NEW k \in lo..hi PROVE s[k] \in V[k]
  <2>1. n - k \in lo..hi /\ n - (n - k) = k
    OBVIOUS
  <2>2. t[n - k] \in W[n - k]
    BY <1>3, <2>1
  <2> QED BY <2>1, <2>2
<1> HIDE DEF s
<1> QED BY <1>4, <1>5, <1>6 DEF Descends

-----------------------------------------------------------------------------
(* Products of vectors *)

\* Nothing is flushed: an integer that is not 0 is at least 1, the epsilon of the network.
LEMMA NothingFlushed ==
  ASSUME NEW a \in Int, NEW b \in Int
  PROVE  /\ D!epsilon_sum(a, b) = a + b /\ D!epsilon_difference(a, b) = a - b
         /\ D!epsilon_product(a, b) = a * b
<1>1. ASSUME NEW x \in Int PROVE D!Flushed(x) = x
  BY DEF D!Flushed, D!epsilon_zero, D!abs
<1>2. a + b \in Int /\ a - b \in Int /\ a * b \in Int
  OBVIOUS
<1> QED BY <1>1, <1>2 DEF D!epsilon_sum, D!epsilon_difference, D!epsilon_product

\* The partial sums of a dot product
DotSum(s, n, v, w) == s[0] = 0 /\ \A i \in 1..n : s[i] = s[i - 1] + v[i] * w[i]

\* A dot product is the last of its partial sums, flushed or not.
LEMMA DotIs ==
  ASSUME NEW n \in Nat, NEW v \in Ints(n), NEW w \in Ints(n)
  PROVE  /\ dot_product(v, w) \in Int
         /\ \E s \in [0..n -> Int] : DotSum(s, n, v, w) /\ s[n] = dot_product(v, w)
         /\ \A s \in [0..n -> Int] : DotSum(s, n, v, w) => s[n] = dot_product(v, w)
         /\ D!dot_product(v, w) = dot_product(v, w)
         /\ D!dyn_vector_dot_product(v, w) = dot_product(v, w)
<1> DEFINE exact(x, i) == x + v[i] * w[i]
           G(f) == [m \in 0..n |-> IF m = 0 THEN 0 ELSE f[m - 1] + v[m] * w[m]]
           F(f) == [m \in 0..n |-> IF m = 0 THEN 0
                                   ELSE D!epsilon_sum(f[m - 1], D!epsilon_product(v[m], w[m]))]
           d == CHOOSE f : f = G(f)
           e == CHOOSE f : f = F(f)
<1>1. /\ v \in [1..n -> Int] /\ w \in [1..n -> Int] /\ Len(v) = n
      /\ \A i \in 1..n : v[i] \in Int /\ w[i] \in Int /\ v[i] * w[i] \in Int
  BY DEF Ints
<1>2. /\ dot_product(v, w) = d[n] /\ D!dot_product(v, w) = d[n]
      /\ D!dyn_vector_dot_product(v, w) = e[n]
  BY <1>1 DEF dot_product, D!dot_product, D!dyn_vector_dot_product
<1>3. ASSUME NEW i \in 1..n, NEW x \in Int
      PROVE  /\ exact(x, i) \in Int
             /\ D!epsilon_sum(x, D!epsilon_product(v[i], w[i])) = exact(x, i)
  <2> DEFINE p == v[i] * w[i]
  <2>1. p \in Int /\ D!epsilon_product(v[i], w[i]) = p
    BY <1>1, NothingFlushed
  <2> HIDE DEF p
  <2>2. D!epsilon_sum(x, p) = x + p /\ x + p \in Int
    BY <2>1, NothingFlushed
  <2>3. exact(x, i) = x + p
    BY DEF p
  <2> QED BY <2>1, <2>2, <2>3
<1>4. PICK s \in [0..n -> Int] :
        s[0] = 0 /\ \A i \in 1..n : s[i] = [x \in Int |-> [j \in 1..n |-> exact(x, j)]][s[i - 1]][i]
  <2> HIDE DEF exact
  <2>1. [x \in Int |-> [i \in 1..n |-> exact(x, i)]] \in [Int -> [1..n -> Int]]
    BY <1>3
  <2> QED BY <2>1, LoopRuns
<1>5. ASSUME NEW i \in 1..n PROVE s[i] = exact(s[i - 1], i) /\ s[i - 1] \in Int
  <2> HIDE DEF exact
  <2>1. s[i - 1] \in Int
    OBVIOUS
  <2> QED BY <1>4, <2>1
<1>6. DotSum(s, n, v, w)
  BY <1>4, <1>5 DEF DotSum
<1>7. d = G(d)
  <2>1. s = G(s)
    <3>1. \A m \in 0..n : s[m] = G(s)[m]
      BY <1>4, <1>5
    <3> QED BY <3>1
  <2> QED BY <2>1
<1>8. e = F(e)
  <2>1. s = F(s)
    <3>1. ASSUME NEW m \in 0..n PROVE s[m] = F(s)[m]
      <4>1. CASE m = 0
        BY <1>4, <4>1
      <4>2. CASE m # 0
        <5>1. m \in 1..n
          BY <4>2
        <5>2. F(s)[m] = D!epsilon_sum(s[m - 1], D!epsilon_product(v[m], w[m]))
          BY <4>2
        <5> HIDE DEF F, exact
        <5> QED BY <1>3, <1>5, <5>1, <5>2
      <4> QED BY <4>1, <4>2
    <3>2. F(s) = [m \in 0..n |-> F(s)[m]]
      OBVIOUS
    <3> HIDE DEF F
    <3> QED BY <3>1, <3>2
  <2> QED BY <2>1
<1>9. d[0] = 0 /\ e[0] = 0
  <2> HIDE DEF d, e
  <2> QED BY <1>7, <1>8
<1>10. ASSUME NEW m \in 1..n
       PROVE  /\ d[m] = d[m - 1] + v[m] * w[m]
              /\ e[m] = D!epsilon_sum(e[m - 1], D!epsilon_product(v[m], w[m]))
  <2> HIDE DEF d, e
  <2> QED BY <1>7, <1>8
<1> HIDE DEF d, e
<1>11. ASSUME NEW t \in [0..n -> Int], DotSum(t, n, v, w) PROVE d[n] = t[n] /\ e[n] = t[n]
  <2> DEFINE S == {m \in 0..n : d[m] = t[m] /\ e[m] = t[m]}
  <2>1. 0 \in S
    BY <1>9, <1>11 DEF DotSum
  <2>2. ASSUME NEW m \in 1..n, m - 1 \in S PROVE m \in S
    <3>1. t[m] = exact(t[m - 1], m) /\ t[m - 1] \in Int
      BY <1>11 DEF DotSum
    <3>2. d[m - 1] = t[m - 1] /\ e[m - 1] = t[m - 1]
      BY <2>2
    <3> QED BY <1>3, <1>10, <3>1, <3>2
  <2> HIDE DEF S
  <2>3. 0..n \subseteq S
    BY <2>1, <2>2, UpTo
  <2>4. n \in S
    BY <2>3
  <2> QED BY <2>4 DEF S
<1>12. d[n] = s[n] /\ e[n] = s[n] /\ s[n] \in Int
  BY <1>6, <1>11
<1> QED BY <1>2, <1>6, <1>11, <1>12

\* The product of sums that run in step
LEMMA DotLinear ==
  ASSUME NEW n \in Nat, NEW u \in Ints(n), NEW v \in Ints(n), NEW w \in Ints(n), NEW x \in Int
  PROVE  dot_product([i \in 1..n |-> u[i] + x * v[i]], w)
           = dot_product(u, w) + x * dot_product(v, w)
<1> DEFINE y == [i \in 1..n |-> u[i] + x * v[i]]
<1>1. PICK s \in [0..n -> Int] : DotSum(s, n, u, w) /\ s[n] = dot_product(u, w)
  BY DotIs
<1>2. PICK t \in [0..n -> Int] : DotSum(t, n, v, w) /\ t[n] = dot_product(v, w)
  BY DotIs
<1> DEFINE p == [i \in 0..n |-> s[i] + x * t[i]]
<1>3. y \in Ints(n) /\ p \in [0..n -> Int]
  <2>1. \A i \in 1..n : u[i] + x * v[i] \in Int
    BY DEF Ints
  <2>2. \A i \in 0..n : s[i] + x * t[i] \in Int
    OBVIOUS
  <2> QED BY <2>1, <2>2 DEF Ints
<1>4. DotSum(p, n, y, w)
  <2>1. p[0] = 0
    BY <1>1, <1>2 DEF DotSum
  <2>2. ASSUME NEW i \in 1..n PROVE p[i] = p[i - 1] + y[i] * w[i]
    <3>1. /\ u[i] \in Int /\ v[i] \in Int /\ w[i] \in Int
          /\ s[i - 1] \in Int /\ t[i - 1] \in Int /\ i \in 0..n /\ i - 1 \in 0..n
      BY DEF Ints
    <3>2. s[i] = s[i - 1] + u[i] * w[i] /\ t[i] = t[i - 1] + v[i] * w[i]
      BY <1>1, <1>2 DEF DotSum
    <3>3. p[i] = s[i] + x * t[i] /\ p[i - 1] = s[i - 1] + x * t[i - 1] /\ y[i] = u[i] + x * v[i]
      BY <3>1
    <3> DEFINE a == u[i]
               b == v[i]
               c == w[i]
               s1 == s[i - 1]
               t1 == t[i - 1]
    <3>4. a \in Int /\ b \in Int /\ c \in Int /\ s1 \in Int /\ t1 \in Int
      BY <3>1
    <3>5. /\ p[i] = (s1 + a * c) + x * (t1 + b * c)
          /\ p[i - 1] + y[i] * w[i] = (s1 + x * t1) + (a + x * b) * c
      BY <3>2, <3>3
    <3> HIDE DEF p, y, a, b, c, s1, t1
    <3>6. (s1 + a * c) + x * (t1 + b * c) = (s1 + x * t1) + (a + x * b) * c
      BY <3>4
    <3> QED BY <3>5, <3>6
  <2> QED BY <2>1, <2>2 DEF DotSum
<1>5. p[n] = dot_product(y, w)
  <2> HIDE DEF p, y
  <2> QED BY <1>3, <1>4, DotIs
<1>6. p[n] = s[n] + x * t[n]
  OBVIOUS
<1> QED BY <1>1, <1>2, <1>5, <1>6

\* Products that agree term by term
LEMMA DotsAlike ==
  ASSUME NEW n \in Nat, NEW u \in Ints(n), NEW v \in Ints(n), NEW w \in Ints(n), NEW z \in Ints(n),
         \A i \in 1..n : u[i] * v[i] = w[i] * z[i]
  PROVE  dot_product(u, v) = dot_product(w, z)
<1>1. PICK s \in [0..n -> Int] : DotSum(s, n, u, v) /\ s[n] = dot_product(u, v)
  BY DotIs
<1>2. DotSum(s, n, w, z)
  BY <1>1 DEF DotSum
<1> QED BY <1>1, <1>2, DotIs

\* A vector of zeros, and one with a single element
LEMMA DotSingle ==
  ASSUME NEW n \in Nat, NEW v \in Ints(n), NEW w \in Ints(n)
  PROVE  /\ (\A i \in 1..n : v[i] * w[i] = 0) => dot_product(v, w) = 0
         /\ \A r \in 1..n : (\A i \in 1..n : i # r => v[i] * w[i] = 0) =>
              dot_product(v, w) = v[r] * w[r]
<1>0. \A i \in 1..n : v[i] \in Int /\ w[i] \in Int /\ v[i] * w[i] \in Int
  BY DEF Ints
<1>1. ASSUME \A i \in 1..n : v[i] * w[i] = 0 PROVE dot_product(v, w) = 0
  <2> DEFINE s == [i \in 0..n |-> 0]
  <2>1. s \in [0..n -> Int] /\ s[n] = 0
    OBVIOUS
  <2>2. DotSum(s, n, v, w)
    BY <1>1 DEF DotSum
  <2> HIDE DEF s
  <2> QED BY <2>1, <2>2, DotIs
<1>2. ASSUME NEW r \in 1..n, \A i \in 1..n : i # r => v[i] * w[i] = 0
      PROVE  dot_product(v, w) = v[r] * w[r]
  <2> DEFINE x == v[r] * w[r]
             s == [i \in 0..n |-> IF i >= r THEN x ELSE 0]
  <2>1. x \in Int
    BY <1>0
  <2>2. s \in [0..n -> Int] /\ s[n] = x
    <3> HIDE DEF x
    <3> QED BY <2>1
  <2>3. ASSUME NEW i \in 1..n PROVE s[i] = s[i - 1] + v[i] * w[i]
    <3>1. i \in 0..n /\ i - 1 \in 0..n
      OBVIOUS
    <3>2. s[i] = (IF i >= r THEN x ELSE 0) /\ s[i - 1] = (IF i - 1 >= r THEN x ELSE 0)
      BY <3>1
    <3>3. v[i] * w[i] = IF i = r THEN x ELSE 0
      BY <1>2
    <3> HIDE DEF s, x
    <3>4. i > r \/ i = r \/ i < r
      OBVIOUS
    <3> QED BY <2>1, <3>2, <3>3, <3>4
  <2>4. s[0] = 0
    OBVIOUS
  <2> HIDE DEF s
  <2>5. DotSum(s, n, v, w)
    BY <2>3, <2>4 DEF DotSum
  <2> QED BY <2>2, <2>5, DotIs
<1> QED BY <1>1, <1>2

\* The rows of a matrix go up as its columns go down: a product with either is the same sum.
LEMMA Transposed ==
  ASSUME NEW m \in Matrix, NEW v \in Ints(m.rows), NEW w \in Ints(m.cols)
  PROVE  dot_product(v, [i \in 1..m.rows |-> dot_product(get_row(m, i - 1), w)])
           = dot_product([j \in 1..m.cols |-> dot_product(get_col(m, j - 1), v)], w)
<1> DEFINE nR == m.rows
           nC == m.cols
           line(i) == get_row(m, i - 1)
           column(j) == get_col(m, j - 1)
           h == [i \in 1..nR |-> dot_product(line(i), w)]
           c == [j \in 1..nC |-> CHOOSE t \in [0..nR -> Int] :
                   DotSum(t, nR, column(j), v) /\ t[nR] = dot_product(column(j), v)]
           upto(i) == [j \in 1..nC |-> c[j][i]]
<1>1. nR \in Nat /\ nC \in Nat
  BY DEF Matrix
<1>2. ASSUME NEW i \in 1..nR
      PROVE  line(i) \in Ints(nC) /\ \A j \in 1..nC : line(i)[j] = At(m, i - 1, j - 1)
  <2>1. i - 1 \in 0..(nR - 1)
    BY <1>1
  <2>2. line(i) \in Ints(nC)
    BY <2>1, LinesAre DEF Ints
  <2> QED BY <2>2 DEF get_row
<1>3. ASSUME NEW j \in 1..nC
      PROVE  column(j) \in Ints(nR) /\ \A i \in 1..nR : column(j)[i] = At(m, i - 1, j - 1)
  <2>1. j - 1 \in 0..(nC - 1)
    BY <1>1
  <2>2. column(j) \in Ints(nR)
    BY <2>1, LinesAre DEF Ints
  <2> QED BY <2>2 DEF get_col
<1>4. h \in Ints(nR)
  <2>1. \A i \in 1..nR : dot_product(line(i), w) \in Int
    BY <1>1, <1>2, DotIs
  <2> HIDE DEF line
  <2> QED BY <2>1 DEF Ints
<1>5. ASSUME NEW j \in 1..nC
      PROVE  /\ c[j] \in [0..nR -> Int] /\ DotSum(c[j], nR, column(j), v)
             /\ c[j][nR] = dot_product(column(j), v)
  <2>1. \E t \in [0..nR -> Int] : DotSum(t, nR, column(j), v) /\ t[nR] = dot_product(column(j), v)
    BY <1>1, <1>3, DotIs
  <2> HIDE DEF column
  <2> QED BY <2>1
<1>6. PICK p \in [0..nR -> Int] : DotSum(p, nR, v, h) /\ p[nR] = dot_product(v, h)
  <2> HIDE DEF h
  <2> QED BY <1>1, <1>4, DotIs
<1> HIDE DEF c
<1>7. \A i \in 0..nR : upto(i) \in Ints(nC)
  BY <1>5 DEF Ints
<1> DEFINE S == {i \in 0..nR : p[i] = dot_product(upto(i), w)}
<1>8. 0 \in S
  <2>1. \A j \in 1..nC : upto(0)[j] = 0
    BY <1>5 DEF DotSum
  <2>2. \A j \in 1..nC : upto(0)[j] * w[j] = 0
    <3>1. \A j \in 1..nC : w[j] \in Int
      BY DEF Ints
    <3> QED BY <2>1, <3>1
  <2>3. 0 \in 0..nR
    BY <1>1
  <2> HIDE DEF upto
  <2>4. dot_product(upto(0), w) = 0
    BY <1>1, <1>7, <2>2, <2>3, DotSingle
  <2> QED BY <1>6, <2>3, <2>4 DEF DotSum
<1>9. ASSUME NEW i \in 1..nR, i - 1 \in S PROVE i \in S
  <2>1. i \in 0..nR /\ i - 1 \in 0..nR /\ v[i] \in Int
    BY <1>1 DEF Ints
  <2>2. upto(i) = [j \in 1..nC |-> upto(i - 1)[j] + v[i] * line(i)[j]]
    <3>1. ASSUME NEW j \in 1..nC PROVE c[j][i] = c[j][i - 1] + v[i] * line(i)[j]
      <4>1. c[j][i] = c[j][i - 1] + column(j)[i] * v[i]
        BY <1>5 DEF DotSum
      <4>2. column(j)[i] = line(i)[j] /\ line(i)[j] \in Int
        BY <1>2, <1>3 DEF Ints
      <4>3. column(j)[i] * v[i] = v[i] * line(i)[j]
        BY <2>1, <4>2
      <4> QED BY <4>1, <4>3
    <3> HIDE DEF line
    <3> QED BY <3>1
  <2> HIDE DEF upto, line
  <2>3. dot_product(upto(i), w) = dot_product(upto(i - 1), w) + v[i] * dot_product(line(i), w)
    <3>1. upto(i - 1) \in Ints(nC) /\ line(i) \in Ints(nC)
      BY <1>2, <1>7, <2>1
    <3> DEFINE a == upto(i - 1)
               b == line(i)
    <3>2. dot_product([j \in 1..nC |-> a[j] + v[i] * b[j]], w) = dot_product(a, w) + v[i] * dot_product(b, w)
      <4>1. a \in Ints(nC) /\ b \in Ints(nC)
        BY <3>1
      <4> HIDE DEF a, b
      <4> QED BY <1>1, <2>1, <4>1, DotLinear
    <3> QED BY <2>2, <3>2
  <2>4. p[i] = p[i - 1] + v[i] * h[i] /\ h[i] = dot_product(line(i), w)
    BY <1>6 DEF DotSum
  <2>5. p[i - 1] = dot_product(upto(i - 1), w)
    BY <1>9
  <2>6. p[i] = dot_product(upto(i), w)
    BY <2>3, <2>4, <2>5
  <2> QED BY <2>1, <2>6
<1> HIDE DEF S
<1>10. 0..nR \subseteq S
  BY <1>1, <1>8, <1>9, UpTo
<1>11. p[nR] = dot_product(upto(nR), w)
  BY <1>1, <1>10 DEF S
<1>12. upto(nR) = [j \in 1..nC |-> dot_product(column(j), v)]
  <2> HIDE DEF column
  <2> QED BY <1>5
<1> QED BY <1>6, <1>11, <1>12

-----------------------------------------------------------------------------
(* The operations of a network *)

\* Its elementwise operations are exact, and so the same for both kinds of vector.
LEMMA VectorsAre ==
  ASSUME NEW n \in Nat, NEW v \in Ints(n), NEW w \in Ints(n)
  PROVE  /\ D!dyn_vector_sum(v, w) = [i \in 1..n |-> v[i] + w[i]]
         /\ D!vector_sum(v, w) = [i \in 1..n |-> v[i] + w[i]]
         /\ D!dyn_vector_difference(v, w) = [i \in 1..n |-> v[i] - w[i]]
         /\ D!vector_difference(v, w) = [i \in 1..n |-> v[i] - w[i]]
         /\ D!dyn_vector_hadamard_product(v, w) = [i \in 1..n |-> v[i] * w[i]]
         /\ D!hadamard_product(v, w) = [i \in 1..n |-> v[i] * w[i]]
<1>1. DOMAIN v = 1..n /\ \A i \in 1..n : v[i] \in Int /\ w[i] \in Int
  BY DEF Ints
<1>2. \A i \in 1..n : /\ D!epsilon_sum(v[i], w[i]) = v[i] + w[i]
                      /\ D!epsilon_difference(v[i], w[i]) = v[i] - w[i]
                      /\ D!epsilon_product(v[i], w[i]) = v[i] * w[i]
  BY <1>1, NothingFlushed
<1>3. D!dyn_vector_sum(v, w) = [i \in 1..n |-> v[i] + w[i]]
  BY <1>1, <1>2 DEF D!dyn_vector_sum
<1>4. D!dyn_vector_difference(v, w) = [i \in 1..n |-> v[i] - w[i]]
  BY <1>1, <1>2 DEF D!dyn_vector_difference
<1>5. D!dyn_vector_hadamard_product(v, w) = [i \in 1..n |-> v[i] * w[i]]
  BY <1>1, <1>2 DEF D!dyn_vector_hadamard_product
<1>6. /\ D!vector_sum(v, w) = [i \in 1..n |-> v[i] + w[i]]
      /\ D!vector_difference(v, w) = [i \in 1..n |-> v[i] - w[i]]
      /\ D!hadamard_product(v, w) = [i \in 1..n |-> v[i] * w[i]]
  BY <1>1 DEF D!vector_sum, D!vector_difference, D!hadamard_product
<1> QED BY <1>3, <1>4, <1>5, <1>6

\* ... and so is a vector times a number.
LEMMA ScaledIs ==
  ASSUME NEW n \in Nat, NEW v \in Ints(n), NEW x \in Int
  PROVE  /\ D!dyn_vector_scalar_product(v, x) = [i \in 1..n |-> v[i] * x]
         /\ D!scalar_product(x, v) = [i \in 1..n |-> x * v[i]]
<1>1. DOMAIN v = 1..n /\ \A i \in 1..n : D!epsilon_product(v[i], x) = v[i] * x
  <2>1. DOMAIN v = 1..n /\ \A i \in 1..n : v[i] \in Int
    BY DEF Ints
  <2> QED BY <2>1, NothingFlushed
<1> QED BY <1>1 DEF D!dyn_vector_scalar_product, D!scalar_product

\* What is made element by element has the size.
LEMMA VectorsFit ==
  ASSUME NEW n \in Nat, NEW v \in Ints(n), NEW w \in Ints(n)
  PROVE  /\ D!dyn_vector_sum(v, w) \in Ints(n) /\ D!vector_sum(v, w) \in Ints(n)
         /\ D!dyn_vector_difference(v, w) \in Ints(n) /\ D!vector_difference(v, w) \in Ints(n)
         /\ D!dyn_vector_hadamard_product(v, w) \in Ints(n) /\ D!hadamard_product(v, w) \in Ints(n)
<1>1. \A i \in 1..n : v[i] + w[i] \in Int /\ v[i] - w[i] \in Int /\ v[i] * w[i] \in Int
  <2>1. \A i \in 1..n : v[i] \in Int /\ w[i] \in Int
    BY DEF Ints
  <2> QED BY <2>1
<1>2. /\ [i \in 1..n |-> v[i] + w[i]] \in Ints(n) /\ [i \in 1..n |-> v[i] - w[i]] \in Ints(n)
      /\ [i \in 1..n |-> v[i] * w[i]] \in Ints(n)
  BY <1>1 DEF Ints
<1> QED BY <1>2, VectorsAre

LEMMA VectorFits ==
  ASSUME NEW n \in Nat, NEW v \in Ints(n)
  PROVE  /\ relu(v) \in Ints(n) /\ relu_derivative(v) \in Ints(n)
         /\ Zeros(v) = [i \in 1..n |-> 0] /\ [i \in 1..n |-> 0] \in Ints(n) /\ Len(v) = n
         /\ \A x \in Int : D!dyn_vector_scalar_product(v, x) \in Ints(n)
                           /\ D!scalar_product(x, v) \in Ints(n)
         /\ \A r \in 1..n : Unit(n, r) \in Ints(n)
<1>1. DOMAIN v = 1..n /\ Len(v) = n /\ \A i \in 1..n : v[i] \in Int
  BY DEF Ints
<1>2. ASSUME NEW x \in Int
      PROVE  D!dyn_vector_scalar_product(v, x) \in Ints(n) /\ D!scalar_product(x, v) \in Ints(n)
  <2>1. [i \in 1..n |-> v[i] * x] \in Ints(n) /\ [i \in 1..n |-> x * v[i]] \in Ints(n)
    BY <1>1 DEF Ints
  <2> QED BY <2>1, ScaledIs
<1> QED BY <1>1, <1>2 DEF relu, relu_derivative, Zeros, Unit, Ints

\* The matrices of a network: their elements, and their products with a vector
LEMMA MatricesAre ==
  ASSUME NEW m \in Matrix, NEW v \in Ints(m.cols)
  PROVE  /\ D!dyn_matrix_vector_product(m, v) = [i \in 1..m.rows |-> dot_product(get_row(m, i - 1), v)]
         /\ D!matrix_vector_product(m, v) = [i \in 1..m.rows |-> dot_product(get_row(m, i - 1), v)]
         /\ D!dyn_matrix_vector_product(m, v) \in Ints(m.rows)
         /\ D!matrix_vector_product(m, v) \in Ints(m.rows)
<1>1. m.rows \in Nat /\ m.cols \in Nat
  BY DEF Matrix
<1>2. ASSUME NEW i \in 1..m.rows
      PROVE  /\ D!dyn_vector_dot_product(D!get_row(m, i - 1), v) = dot_product(get_row(m, i - 1), v)
             /\ D!dot_product(D!get_matrix_row(m, i - 1), v) = dot_product(get_row(m, i - 1), v)
             /\ dot_product(get_row(m, i - 1), v) \in Int
  <2>1. i - 1 \in 0..(m.rows - 1)
    BY <1>1
  <2>2. get_row(m, i - 1) \in Ints(m.cols)
    BY <2>1, LinesAre DEF Ints
  <2>3. D!get_row(m, i - 1) = get_row(m, i - 1) /\ D!get_matrix_row(m, i - 1) = get_row(m, i - 1)
    BY DEF D!get_row, D!get_matrix_row, get_row, D!At, At
  <2> QED BY <1>1, <2>2, <2>3, DotIs
<1>3. [i \in 1..m.rows |-> dot_product(get_row(m, i - 1), v)] \in Ints(m.rows)
  BY <1>2 DEF Ints
<1>4. D!dyn_matrix_vector_product(m, v) = [i \in 1..m.rows |-> dot_product(get_row(m, i - 1), v)]
  BY <1>2 DEF D!dyn_matrix_vector_product
<1>5. D!matrix_vector_product(m, v) = [i \in 1..m.rows |-> dot_product(get_row(m, i - 1), v)]
  BY <1>2 DEF D!matrix_vector_product
<1> QED BY <1>3, <1>4, <1>5

-----------------------------------------------------------------------------
(* Networks *)

\* A network whose parameters fit its layers
IsNet(net) ==
  /\ net = [l |-> net.l, W |-> net.W, b |-> net.b,
            outputs |-> net.outputs, activated |-> net.activated]
  /\ net.l \in Seq(Nat \ {0}) /\ L(net) \in Nat /\ L(net) >= 2
  /\ net.W = [k \in 1..(L(net) - 1) |-> net.W[k]] /\ net.b = [k \in 1..(L(net) - 1) |-> net.b[k]]
  /\ net.outputs = [k \in 1..L(net) |-> net.outputs[k]]
  /\ net.activated = [k \in 1..L(net) |-> net.activated[k]]
  /\ \A k \in 1..(L(net) - 1) : /\ net.W[k] \in Matrix /\ net.b[k] \in Ints(net.l[k + 1])
                                /\ net.W[k].rows = net.l[k + 1] /\ net.W[k].cols = net.l[k]

\* ... and that something was put through
Warm(net) == \A k \in 1..L(net) : net.outputs[k] \in Ints(net.l[k]) /\ net.activated[k] \in Ints(net.l[k])

SameNet(net, other) == net.l = other.l /\ net.W = other.W /\ net.b = other.b

\* Layers have sizes.
LEMMA LayersAre ==
  ASSUME NEW net, IsNet(net)
  PROVE  /\ L(net) \in Nat /\ L(net) >= 2 /\ 1 \in 1..L(net) /\ L(net) \in 1..L(net)
         /\ \A k \in 1..L(net) : net.l[k] \in Nat \ {0}
<1> QED BY DEF IsNet, L

\* The outputs forward() puts into a network, and their recursive function
OutStep(net, x, f) ==
  [k \in 1..L(net) |->
     IF k = 1 THEN x
     ELSE D!dyn_vector_sum(
            D!dyn_matrix_vector_product(net.W[k - 1], IF k = 2 THEN x ELSE relu(f[k - 1])),
            net.b[k - 1])]
Out(net, x) == CHOOSE f : f = OutStep(net, x, f)

LEMMA OutputsSet ==
  ASSUME NEW net, IsNet(net), NEW A, NEW B
  PROVE  [net EXCEPT !.outputs = A, !.activated = B]
           = [l |-> net.l, W |-> net.W, b |-> net.b, outputs |-> A, activated |-> B]
<1>1. PICK l1, W1, b1, o1, a1 : net = [l |-> l1, W |-> W1, b |-> b1, outputs |-> o1, activated |-> a1]
  BY Zenon DEF IsNet
<1>2. net.l = l1 /\ net.W = W1 /\ net.b = b1
  BY ONLY <1>1
<1> DEFINE first == [net EXCEPT !.outputs = A]
<1>3. first = [l |-> l1, W |-> W1, b |-> b1, outputs |-> A, activated |-> a1]
  BY ONLY <1>1
<1>4. [net EXCEPT !.outputs = A, !.activated = B] = [first EXCEPT !.activated = B]
  BY ONLY TRUE
<1> HIDE DEF first
<1>5. [first EXCEPT !.activated = B] = [l |-> l1, W |-> W1, b |-> b1, outputs |-> A, activated |-> B]
  BY ONLY <1>3
<1> QED BY <1>2, <1>4, <1>5, Zenon

LEMMA ForwardSets ==
  ASSUME NEW net, NEW x
  PROVE  forward(net, x)
           = [net EXCEPT !.outputs = [k \in 1..L(net) |-> Out(net, x)[k]],
                         !.activated = [k \in 1..L(net) |-> IF k = 1 THEN x ELSE relu(Out(net, x)[k])]]
<1> QED BY DEF forward, Out, OutStep

\* What a layer makes of a vector of the layer before is a vector of the layer.
LEMMA OutFits ==
  ASSUME NEW net, IsNet(net), NEW x \in Ints(net.l[1])
  PROVE  \A k \in 1..L(net) : Out(net, x)[k] \in Ints(net.l[k])
<1> DEFINE n == L(net)
           V == [k \in 1..n |-> Ints(net.l[k])]
           of(k, v) == D!dyn_vector_sum(
                         D!dyn_matrix_vector_product(net.W[k - 1], IF k = 2 THEN x ELSE relu(v)),
                         net.b[k - 1])
           step == [k \in 2..n |-> [v \in V[k - 1] |-> of(k, v)]]
           e == Out(net, x)
<1>1. n \in Nat /\ n >= 2 /\ 1 \in 1..n /\ n \in 1..n /\ \A k \in 1..n : net.l[k] \in Nat \ {0}
  BY LayersAre
<1>2. ASSUME NEW k \in 2..n, NEW v \in Ints(net.l[k - 1]) PROVE of(k, v) \in Ints(net.l[k])
  <2>1. k - 1 \in 1..(n - 1) /\ (k - 1) + 1 = k /\ k \in 1..n /\ k - 1 \in 1..n
    BY <1>1
  <2>2. /\ net.W[k - 1] \in Matrix /\ net.b[k - 1] \in Ints(net.l[k])
        /\ net.W[k - 1].rows = net.l[k] /\ net.W[k - 1].cols = net.l[k - 1]
    BY <2>1 DEF IsNet
  <2> DEFINE u == IF k = 2 THEN x ELSE relu(v)
  <2>3. u \in Ints(net.l[k - 1])
    <3>1. relu(v) \in Ints(net.l[k - 1])
      BY <1>1, <2>1, VectorFits
    <3> QED BY <3>1
  <2> HIDE DEF u
  <2>4. D!dyn_matrix_vector_product(net.W[k - 1], u) \in Ints(net.l[k])
    BY <2>2, <2>3, MatricesAre
  <2> DEFINE p == D!dyn_matrix_vector_product(net.W[k - 1], u)
  <2>5. D!dyn_vector_sum(p, net.b[k - 1]) \in Ints(net.l[k])
    <3>1. p \in Ints(net.l[k]) /\ net.l[k] \in Nat
      BY <1>1, <2>1, <2>4
    <3> HIDE DEF p
    <3> QED BY <2>2, <3>1, VectorsFit
  <2> QED BY <2>5 DEF u
<1> HIDE DEF of
<1>3. \A k \in 2..n : \A v \in V[k - 1] : step[k][v] \in V[k]
  <2>1. \A k \in 2..n : k - 1 \in 1..n /\ k \in 1..n
    BY <1>1
  <2> QED BY <1>2, <2>1
<1>4. x \in V[1]
  BY <1>1
<1>5. \E s : Climbs(s, 1, n, x, step) /\ \A k \in 1..n : s[k] \in V[k]
  <2>1. 1 + 1 = 2 /\ 1 \in Nat /\ 1 <= n
    BY <1>1
  <2> HIDE DEF V, step
  <2>2. \A k \in (1 + 1)..n : \A v \in V[k - 1] : step[k][v] \in V[k]
    BY <1>3, <2>1
  <2> QED BY <1>1, <1>4, <2>1, <2>2, Upward
<1>6. PICK s : Climbs(s, 1, n, x, step) /\ \A k \in 1..n : s[k] \in V[k]
  BY <1>5
<1>7. s = OutStep(net, x, s)
  <2>1. ASSUME NEW k \in 2..n PROVE s[k] = of(k, s[k - 1])
    <3>1. k \in (1 + 1)..n /\ k - 1 \in 1..n
      BY <1>1
    <3>2. s[k] = step[k][s[k - 1]] /\ s[k - 1] \in V[k - 1]
      BY <1>6, <3>1 DEF Climbs
    <3> QED BY <3>2
  <2>2. ASSUME NEW k \in 1..n PROVE s[k] = OutStep(net, x, s)[k]
    <3>1. CASE k = 1
      <4>1. s[1] = x
        BY <1>6 DEF Climbs
      <4> QED BY <3>1, <4>1 DEF OutStep
    <3>2. CASE k # 1
      <4>1. k \in 2..n
        BY <3>2
      <4> QED BY <2>1, <3>2, <4>1 DEF OutStep, of
    <3> QED BY <3>1, <3>2
  <2>3. s = [k \in 1..n |-> s[k]]
    BY <1>6 DEF Climbs
  <2> QED BY <2>2, <2>3 DEF OutStep
<1>8. e = OutStep(net, x, e)
  BY <1>7 DEF Out
<1> HIDE DEF e
<1> DEFINE S == {k \in 1..n : e[k] \in Ints(net.l[k])}
<1>9. 1 \in S
  <2>1. e[1] = x
    BY <1>1, <1>8 DEF OutStep
  <2> QED BY <1>1, <2>1
<1>10. ASSUME NEW k \in (1 + 1)..n, k - 1 \in S PROVE k \in S
  <2>1. k \in 2..n /\ k \in 1..n /\ k # 1
    BY <1>1
  <2>2. e[k] = of(k, e[k - 1])
    BY <1>8, <2>1 DEF OutStep, of
  <2>3. e[k - 1] \in Ints(net.l[k - 1])
    BY <1>10
  <2> QED BY <1>2, <2>1, <2>2, <2>3
<1> HIDE DEF S
<1>11. 1..n \subseteq S
  BY <1>1, <1>9, <1>10, Between
<1> QED BY <1>11 DEF S, e

\* What forward() leaves is a network with the same parameters, and warm.
LEMMA ForwardIs ==
  ASSUME NEW net, IsNet(net), NEW x \in Ints(net.l[1])
  PROVE  IsNet(forward(net, x)) /\ Warm(forward(net, x)) /\ SameNet(forward(net, x), net)
<1> DEFINE f == forward(net, x)
           o == Out(net, x)
<1>1. L(net) \in Nat /\ \A k \in 1..L(net) : net.l[k] \in Nat \ {0}
  BY LayersAre
<1>2. ASSUME NEW k \in 1..L(net)
      PROVE  o[k] \in Ints(net.l[k]) /\ (IF k = 1 THEN x ELSE relu(o[k])) \in Ints(net.l[k])
  <2>1. o[k] \in Ints(net.l[k])
    BY OutFits
  <2> HIDE DEF o
  <2>2. relu(o[k]) \in Ints(net.l[k])
    BY <1>1, <2>1, VectorFits
  <2> QED BY <2>1, <2>2
<1>3. f = [l |-> net.l, W |-> net.W, b |-> net.b,
           outputs |-> [k \in 1..L(net) |-> o[k]],
           activated |-> [k \in 1..L(net) |-> IF k = 1 THEN x ELSE relu(o[k])]]
  BY ForwardSets DEF IsNet
<1> HIDE DEF f, o
<1>4. /\ f.l = net.l /\ f.W = net.W /\ f.b = net.b /\ L(f) = L(net)
      /\ f.outputs = [k \in 1..L(net) |-> o[k]]
      /\ f.activated = [k \in 1..L(net) |-> IF k = 1 THEN x ELSE relu(o[k])]
      /\ f = [l |-> f.l, W |-> f.W, b |-> f.b, outputs |-> f.outputs, activated |-> f.activated]
  BY <1>3 DEF L
<1>5. Warm(f)
  BY <1>2, <1>4 DEF Warm
<1>6. IsNet(f)
  BY <1>4, Zenon DEF IsNet
<1> QED BY <1>4, <1>5, <1>6 DEF f, SameNet

\* It depends on the parameters and what is put through only.
LEMMA ForwardSame ==
  ASSUME NEW net, IsNet(net), NEW other, IsNet(other), SameNet(net, other), NEW x
  PROVE  forward(net, x) = forward(other, x)
<1>1. Out(net, x) = Out(other, x)
  BY DEF Out, OutStep, SameNet, L
<1>2. L(net) = L(other)
  BY DEF SameNet, L
<1> DEFINE A == [k \in 1..L(net) |-> Out(net, x)[k]]
           B == [k \in 1..L(net) |-> IF k = 1 THEN x ELSE relu(Out(net, x)[k])]
<1>3. /\ forward(net, x) = [net EXCEPT !.outputs = A, !.activated = B]
      /\ forward(other, x) = [other EXCEPT !.outputs = A, !.activated = B]
  BY <1>1, <1>2, ForwardSets
<1> HIDE DEF A, B
<1>4. /\ forward(net, x) = [l |-> net.l, W |-> net.W, b |-> net.b, outputs |-> A, activated |-> B]
      /\ forward(other, x) = [l |-> other.l, W |-> other.W, b |-> other.b, outputs |-> A, activated |-> B]
  BY <1>3, OutputsSet, Zenon
<1> QED BY <1>4, Zenon DEF SameNet

-----------------------------------------------------------------------------
(* Down the layers *)

\* The derivatives by the outputs of the last layer, and what a layer hands to the one before
OfCost(net, y) == D!dyn_vector_scalar_product(D!dyn_vector_difference(Result(net), y), 2)
Back(net, k, v) == [c \in 1..net.l[k] |-> D!dot_product(D!get_col(net.W[k], c - 1), v)]
DeltaOf(net, grad, y, k, v) ==
  D!dyn_vector_hadamard_product(
    IF k = L(net) THEN OfCost(net, y) ELSE D!vector_sum(grad.outputs[k], Back(net, k, v)),
    relu_derivative(net.outputs[k]))
DeltaStep(net, grad, y, f) == [k \in 2..L(net) |-> DeltaOf(net, grad, y, k, f[k + 1])]

LEMMA CostFits ==
  ASSUME NEW net, IsNet(net), Warm(net), NEW y \in Ints(net.l[L(net)])
  PROVE  /\ OfCost(net, y) \in Ints(net.l[L(net)])
         /\ OfCost(net, y) = D!scalar_product(2, D!vector_difference(Result(net), y))
<1> DEFINE n == net.l[L(net)]
           a == Result(net)
           d == D!vector_difference(a, y)
<1>1. n \in Nat /\ a \in Ints(n)
  BY LayersAre DEF Warm, Result
<1> HIDE DEF n, a
<1>2. d \in Ints(n) /\ D!dyn_vector_difference(a, y) = d /\ 2 \in Int
  <2>1. y \in Ints(n) /\ 2 \in Int
    BY DEF n
  <2>2. d \in Ints(n)
    BY <1>1, <2>1, VectorsFit
  <2>3. D!dyn_vector_difference(a, y) = d
    BY <1>1, <2>1, VectorsAre
  <2> QED BY <2>1, <2>2, <2>3
<1> HIDE DEF d
<1>3. D!dyn_vector_scalar_product(d, 2) = [i \in 1..n |-> d[i] * 2]
  BY <1>1, <1>2, ScaledIs
<1>4. D!scalar_product(2, d) = [i \in 1..n |-> 2 * d[i]]
  BY <1>1, <1>2, ScaledIs
<1>5. \A i \in 1..n : d[i] * 2 = 2 * d[i]
  <2>1. \A i \in 1..n : d[i] \in Int
    BY <1>2 DEF Ints
  <2> QED BY <2>1
<1>6. D!dyn_vector_scalar_product(d, 2) \in Ints(n)
  BY <1>1, <1>2, VectorFits
<1>7. D!dyn_vector_scalar_product(d, 2) = D!scalar_product(2, d)
  BY <1>3, <1>4, <1>5
<1>8. OfCost(net, y) = D!dyn_vector_scalar_product(d, 2)
  BY <1>2 DEF OfCost, a
<1> QED BY <1>6, <1>7, <1>8 DEF d, n, a

LEMMA BackFits ==
  ASSUME NEW net, IsNet(net), NEW k \in 1..(L(net) - 1), NEW v \in Ints(net.l[k + 1])
  PROVE  /\ Back(net, k, v) \in Ints(net.l[k])
         /\ Back(net, k, v) = [c \in 1..net.l[k] |-> dot_product(get_col(net.W[k], c - 1), v)]
<1>1. /\ net.W[k] \in Matrix /\ net.W[k].rows = net.l[k + 1] /\ net.W[k].cols = net.l[k]
      /\ net.l[k + 1] \in Nat /\ net.l[k] \in Nat
  <2>1. L(net) \in Nat /\ k \in 1..L(net) /\ k + 1 \in 1..L(net)
    BY LayersAre
  <2> QED BY <2>1, LayersAre DEF IsNet
<1>2. ASSUME NEW c \in 1..net.l[k]
      PROVE  /\ D!dot_product(D!get_col(net.W[k], c - 1), v) = dot_product(get_col(net.W[k], c - 1), v)
             /\ dot_product(get_col(net.W[k], c - 1), v) \in Int
  <2>1. c - 1 \in 0..(net.W[k].cols - 1)
    BY <1>1
  <2>2. get_col(net.W[k], c - 1) \in Ints(net.l[k + 1])
    BY <1>1, <2>1, LinesAre DEF Ints
  <2>3. D!get_col(net.W[k], c - 1) = get_col(net.W[k], c - 1)
    BY DEF D!get_col, get_col, D!At, At
  <2> QED BY <1>1, <2>2, <2>3, DotIs
<1>3. [c \in 1..net.l[k] |-> dot_product(get_col(net.W[k], c - 1), v)] \in Ints(net.l[k])
  BY <1>2 DEF Ints
<1>4. Back(net, k, v) = [c \in 1..net.l[k] |-> dot_product(get_col(net.W[k], c - 1), v)]
  BY <1>2 DEF Back
<1> QED BY <1>3, <1>4

\* What the gradient holds for the layers in between
Gathers(net, grad) == \A k \in 2..(L(net) - 1) : grad.outputs[k] \in Ints(net.l[k])

LEMMA DeltaFits ==
  ASSUME NEW net, IsNet(net), Warm(net), NEW grad, Gathers(net, grad),
         NEW y \in Ints(net.l[L(net)]), NEW k \in 2..L(net), NEW v,
         k # L(net) => v \in Ints(net.l[k + 1])
  PROVE  DeltaOf(net, grad, y, k, v) \in Ints(net.l[k])
<1> DEFINE e == IF k = L(net) THEN OfCost(net, y) ELSE D!vector_sum(grad.outputs[k], Back(net, k, v))
<1>1. k \in 1..L(net) /\ L(net) \in Nat /\ net.l[k] \in Nat
  BY LayersAre
<1>2. relu_derivative(net.outputs[k]) \in Ints(net.l[k])
  BY <1>1, VectorFits DEF Warm
<1>3. e \in Ints(net.l[k])
  <2>1. CASE k = L(net)
    BY <2>1, CostFits
  <2>2. CASE k # L(net)
    <3>1. k \in 1..(L(net) - 1) /\ k \in 2..(L(net) - 1)
      BY <1>1, <2>2
    <3>2. Back(net, k, v) \in Ints(net.l[k]) /\ grad.outputs[k] \in Ints(net.l[k])
      BY <2>2, <3>1, BackFits DEF Gathers
    <3>3. D!vector_sum(grad.outputs[k], Back(net, k, v)) \in Ints(net.l[k])
      BY <1>1, <3>2, VectorsFit
    <3> QED BY <2>2, <3>3
  <2> QED BY <2>1, <2>2
<1> HIDE DEF e
<1>4. D!dyn_vector_hadamard_product(e, relu_derivative(net.outputs[k])) \in Ints(net.l[k])
  BY <1>1, <1>2, <1>3, VectorsFit
<1> QED BY <1>4 DEF DeltaOf, e

\* From the last layer down each layer has its derivatives.
LEMMA DeltasAre ==
  ASSUME NEW net, IsNet(net), Warm(net), NEW grad, Gathers(net, grad), NEW y \in Ints(net.l[L(net)])
  PROVE  /\ Deltas(net, grad, y) = DeltaStep(net, grad, y, Deltas(net, grad, y))
         /\ \A k \in 2..L(net) : Deltas(net, grad, y)[k] \in Ints(net.l[k])
<1> DEFINE n == L(net)
           V == [k \in 2..n |-> Ints(net.l[k])]
           step == [k \in 2..(n - 1) |-> [v \in V[k + 1] |-> DeltaOf(net, grad, y, k, v)]]
           last == DeltaOf(net, grad, y, n, 0)
           d == Deltas(net, grad, y)
<1>1. n \in Nat /\ n >= 2 /\ 2 \in Nat /\ n \in 2..n
  BY LayersAre
<1>2. last \in V[n]
  BY <1>1, DeltaFits
<1>3. \A k \in 2..(n - 1) : \A v \in V[k + 1] : step[k][v] \in V[k]
  <2>1. ASSUME NEW k \in 2..(n - 1), NEW v \in V[k + 1] PROVE step[k][v] \in V[k]
    <3>1. k \in 2..n /\ k + 1 \in 2..n
      BY <1>1
    <3>2. DeltaOf(net, grad, y, k, v) \in Ints(net.l[k])
      BY <3>1, DeltaFits
    <3> QED BY <3>1, <3>2
  <2> QED BY <2>1
<1>4. \E s : Descends(s, 2, n, last, step) /\ \A k \in 2..n : s[k] \in V[k]
  <2> HIDE DEF V, step, last
  <2> QED BY <1>1, <1>2, <1>3, Downward
<1>5. PICK s : Descends(s, 2, n, last, step) /\ \A k \in 2..n : s[k] \in V[k]
  BY <1>4
<1>6. DeltaOf(net, grad, y, n, s[n + 1]) = last
  BY DEF DeltaOf
<1>7. s = DeltaStep(net, grad, y, s)
  <2>1. ASSUME NEW k \in 2..n PROVE s[k] = DeltaOf(net, grad, y, k, s[k + 1])
    <3>1. CASE k = n
      BY <1>5, <1>6, <3>1 DEF Descends
    <3>2. CASE k # n
      <4>1. k \in 2..(n - 1) /\ k + 1 \in 2..n
        BY <1>1, <3>2
      <4>2. s[k] = step[k][s[k + 1]] /\ s[k + 1] \in V[k + 1]
        BY <1>5, <4>1 DEF Descends
      <4> QED BY <4>1, <4>2
    <3> QED BY <3>1, <3>2
  <2>2. s = [k \in 2..n |-> s[k]]
    BY <1>5 DEF Descends
  <2> QED BY <2>1, <2>2 DEF DeltaStep
<1>8. d = DeltaStep(net, grad, y, d)
  <2>1. d = CHOOSE f : f = DeltaStep(net, grad, y, f)
    BY DEF Deltas, DeltaStep, DeltaOf, OfCost, Back
  <2> HIDE DEF d
  <2> QED BY <1>7, <2>1
<1> HIDE DEF d
<1> DEFINE S == {k \in 2..n : d[k] \in Ints(net.l[k])}
<1>9. ASSUME NEW k \in 2..n, k # n => d[k + 1] \in Ints(net.l[k + 1]) PROVE k \in S
  <2>1. d[k] = DeltaOf(net, grad, y, k, d[k + 1])
    BY <1>8 DEF DeltaStep
  <2> QED BY <1>9, <2>1, DeltaFits
<1>10. n \in S
  BY <1>1, <1>9
<1>11. ASSUME NEW k \in 2..(n - 1), k + 1 \in S PROVE k \in S
  <2>1. k \in 2..n
    BY <1>1
  <2> QED BY <1>9, <1>11, <2>1
<1> HIDE DEF S
<1>12. 2..n \subseteq S
  BY <1>1, <1>10, <1>11, Between
<1> QED BY <1>8, <1>12 DEF S, d

-----------------------------------------------------------------------------
(* Up the layers *)

\* What a parameter is multiplied with, what changes at the layer it leads to, and how fast
Factor(net, k, c) == IF c = 0 THEN 1 ELSE net.activated[k][c]
Direct(net, k, r, c, m) ==
  IF m = k + 1 THEN D!scalar_product(Factor(net, k, c), Unit(net.l[m], r)) ELSE [i \in 1..net.l[m] |-> 0]
Arrives(net, k, r, c, m, v) ==
  D!vector_sum(D!matrix_vector_product(net.W[m - 1], v), Direct(net, k, r, c, m))
SpeedOf(net, k, r, c, m, v) ==
  IF m <= k THEN [i \in 1..net.l[m] |-> 0]
  ELSE D!hadamard_product(relu_derivative(net.outputs[m]), Arrives(net, k, r, c, m, v))
SpeedStep(net, k, r, c, f) == [m \in 1..L(net) |-> SpeedOf(net, k, r, c, m, f[m - 1])]
Speed(net, k, r, c) == CHOOSE f : f = SpeedStep(net, k, r, c, f)

LEMMA SpeedsEnd ==
  ASSUME NEW net, NEW k, NEW r, NEW c
  PROVE  Speeds(net, k, r, c) = Speed(net, k, r, c)[L(net)]
<1> QED BY DEF Speeds, Speed, SpeedStep, SpeedOf, Arrives, Direct, Factor

\* A parameter: the layer it leads from, the row, and the column or 0
Parameter(net, k, r, c) == k \in 1..(L(net) - 1) /\ r \in 1..net.l[k + 1] /\ c \in 0..net.l[k]

LEMMA ParametersAre ==
  ASSUME NEW net, IsNet(net), Warm(net), NEW k, NEW r, NEW c, Parameter(net, k, r, c)
  PROVE  /\ L(net) \in Nat /\ k \in Nat /\ k \in 1..(L(net) - 1) /\ k \in 1..L(net) /\ k + 1 \in 1..L(net)
         /\ net.l[k] \in Nat \ {0} /\ net.l[k + 1] \in Nat \ {0}
         /\ Factor(net, k, c) \in Int
<1>1. L(net) \in Nat /\ k \in 1..(L(net) - 1) /\ r \in 1..net.l[k + 1] /\ c \in 0..net.l[k]
  BY LayersAre DEF Parameter
<1>2. k \in 1..L(net) /\ k + 1 \in 1..L(net)
  BY <1>1
<1>3. net.l[k] \in Nat \ {0} /\ net.l[k + 1] \in Nat \ {0}
  BY <1>2, LayersAre
<1>4. Factor(net, k, c) \in Int
  <2>1. CASE c = 0
    BY <2>1 DEF Factor
  <2>2. CASE c # 0
    <3>1. c \in 1..net.l[k]
      BY <1>1, <1>3, <2>2
    <3>2. net.activated[k] \in [1..net.l[k] -> Int]
      BY <1>2 DEF Warm, Ints
    <3>3. net.activated[k][c] \in Int
      BY <3>1, <3>2
    <3> QED BY <2>2, <3>3 DEF Factor
  <2> QED BY <2>1, <2>2
<1> QED BY <1>1, <1>2, <1>3, <1>4

\* What a matrix makes of a vector of the layer before
LEMMA PassesOn ==
  ASSUME NEW net, IsNet(net), NEW m \in 2..L(net), NEW v \in Ints(net.l[m - 1])
  PROVE  /\ D!matrix_vector_product(net.W[m - 1], v) \in Ints(net.l[m])
         /\ \A i \in 1..net.l[m] : D!matrix_vector_product(net.W[m - 1], v)[i]
                                   = dot_product(get_row(net.W[m - 1], i - 1), v)
         /\ net.W[m - 1] \in Matrix /\ net.W[m - 1].rows = net.l[m] /\ net.W[m - 1].cols = net.l[m - 1]
         /\ net.l[m] \in Nat /\ net.l[m - 1] \in Nat
<1>1. /\ m - 1 \in 1..(L(net) - 1) /\ (m - 1) + 1 = m /\ m \in 1..L(net) /\ m - 1 \in 1..L(net)
  BY LayersAre
<1>2. /\ net.W[m - 1] \in Matrix /\ net.W[m - 1].rows = net.l[m] /\ net.W[m - 1].cols = net.l[m - 1]
      /\ net.l[m] \in Nat /\ net.l[m - 1] \in Nat
  BY <1>1, LayersAre DEF IsNet
<1> QED BY <1>2, MatricesAre

\* What arrives at a layer above a parameter has the size of the layer.
LEMMA ArrivesFits ==
  ASSUME NEW net, IsNet(net), Warm(net), NEW k, NEW r, NEW c, Parameter(net, k, r, c),
         NEW m \in (k + 1)..L(net), NEW v \in Ints(net.l[m - 1])
  PROVE  /\ Direct(net, k, r, c, m) \in Ints(net.l[m])
         /\ Arrives(net, k, r, c, m, v) \in Ints(net.l[m])
<1>1. m \in 2..L(net)
  BY ParametersAre
<1> DEFINE w == D!matrix_vector_product(net.W[m - 1], v)
           d == Direct(net, k, r, c, m)
<1>2. net.l[m] \in Nat
  BY <1>1, PassesOn
<1>3. w \in Ints(net.l[m])
  BY <1>1, PassesOn
<1>4. d \in Ints(net.l[m])
  <2>1. CASE m = k + 1
    <3>1. r \in 1..net.l[m]
      BY <2>1 DEF Parameter
    <3>2. Unit(net.l[m], r) \in Ints(net.l[m])
      BY <1>2, <1>3, <3>1, VectorFits
    <3>3. D!scalar_product(Factor(net, k, c), Unit(net.l[m], r)) \in Ints(net.l[m])
      BY <1>2, <3>2, VectorFits, ParametersAre
    <3> QED BY <2>1, <3>3 DEF Direct
  <2>2. CASE m # k + 1
    BY <1>2, <1>3, <2>2, VectorFits DEF Direct
  <2> QED BY <2>1, <2>2
<1> HIDE DEF w, d
<1>5. D!vector_sum(w, d) \in Ints(net.l[m])
  BY <1>2, <1>3, <1>4, VectorsFit
<1> QED BY <1>4, <1>5 DEF w, d, Arrives

LEMMA SpeedFits ==
  ASSUME NEW net, IsNet(net), Warm(net), NEW k, NEW r, NEW c, Parameter(net, k, r, c),
         NEW m \in 1..L(net), NEW v, m # 1 => v \in Ints(net.l[m - 1])
  PROVE  SpeedOf(net, k, r, c, m, v) \in Ints(net.l[m])
<1>1. L(net) \in Nat /\ k \in 1..(L(net) - 1) /\ net.l[m] \in Nat
  BY ParametersAre, LayersAre
<1>2. net.outputs[m] \in Ints(net.l[m])
  BY DEF Warm
<1>3. CASE m <= k
  BY <1>1, <1>2, <1>3, VectorFits DEF SpeedOf
<1>4. CASE ~(m <= k)
  <2>1. m \in (k + 1)..L(net) /\ m # 1
    BY <1>1, <1>4
  <2> DEFINE a == Arrives(net, k, r, c, m, v)
             g == relu_derivative(net.outputs[m])
  <2>2. a \in Ints(net.l[m]) /\ g \in Ints(net.l[m])
    BY <1>1, <1>2, <2>1, ArrivesFits, VectorFits
  <2> HIDE DEF a, g
  <2>3. D!hadamard_product(g, a) \in Ints(net.l[m])
    BY <1>1, <2>2, VectorsFit
  <2> QED BY <1>4, <2>3 DEF SpeedOf, a, g
<1> QED BY <1>3, <1>4

\* From the first layer up each layer has its speed.
LEMMA SpeedsAre ==
  ASSUME NEW net, IsNet(net), Warm(net), NEW k, NEW r, NEW c, Parameter(net, k, r, c)
  PROVE  /\ Speed(net, k, r, c) = SpeedStep(net, k, r, c, Speed(net, k, r, c))
         /\ \A m \in 1..L(net) : Speed(net, k, r, c)[m] \in Ints(net.l[m])
<1> DEFINE n == L(net)
           V == [m \in 1..n |-> Ints(net.l[m])]
           step == [m \in 2..n |-> [v \in V[m - 1] |-> SpeedOf(net, k, r, c, m, v)]]
           first == SpeedOf(net, k, r, c, 1, 0)
           e == Speed(net, k, r, c)
<1>1. n \in Nat /\ n >= 2 /\ 1 \in 1..n /\ 1 + 1 = 2 /\ k >= 1
  BY LayersAre, ParametersAre
<1>2. first \in V[1]
  BY <1>1, SpeedFits
<1>3. \A m \in 2..n : \A v \in V[m - 1] : step[m][v] \in V[m]
  <2>1. ASSUME NEW m \in 2..n, NEW v \in V[m - 1] PROVE step[m][v] \in V[m]
    <3>1. m \in 1..n /\ m - 1 \in 1..n /\ m # 1
      BY <1>1
    <3>2. SpeedOf(net, k, r, c, m, v) \in Ints(net.l[m])
      BY <3>1, SpeedFits
    <3> QED BY <3>1, <3>2
  <2> QED BY <2>1
<1>4. \E s : Climbs(s, 1, n, first, step) /\ \A m \in 1..n : s[m] \in V[m]
  <2> HIDE DEF V, step, first
  <2>1. \A m \in (1 + 1)..n : \A v \in V[m - 1] : step[m][v] \in V[m]
    BY <1>1, <1>3
  <2>2. 1 \in Nat /\ 1 <= n
    BY <1>1
  <2> QED BY <1>1, <1>2, <2>1, <2>2, Upward
<1>5. PICK s : Climbs(s, 1, n, first, step) /\ \A m \in 1..n : s[m] \in V[m]
  BY <1>4
<1>6. SpeedOf(net, k, r, c, 1, s[1 - 1]) = first
  BY <1>1 DEF SpeedOf
<1>7. s = SpeedStep(net, k, r, c, s)
  <2>1. ASSUME NEW m \in 1..n PROVE s[m] = SpeedOf(net, k, r, c, m, s[m - 1])
    <3>1. CASE m = 1
      <4>1. s[1] = first
        BY <1>5 DEF Climbs
      <4> HIDE DEF first
      <4> QED BY <1>6, <3>1, <4>1
    <3>2. CASE m # 1
      <4>1. m \in (1 + 1)..n /\ m \in 2..n /\ m - 1 \in 1..n
        BY <1>1, <3>2
      <4>2. s[m] = step[m][s[m - 1]] /\ s[m - 1] \in V[m - 1]
        BY <1>5, <4>1 DEF Climbs
      <4> QED BY <4>1, <4>2
    <3> QED BY <3>1, <3>2
  <2>2. s = [m \in 1..n |-> s[m]]
    BY <1>5 DEF Climbs
  <2> QED BY <2>1, <2>2 DEF SpeedStep
<1>8. e = SpeedStep(net, k, r, c, e)
  BY <1>7 DEF Speed
<1> HIDE DEF e
<1> DEFINE S == {m \in 1..n : e[m] \in Ints(net.l[m])}
<1>9. ASSUME NEW m \in 1..n, m # 1 => e[m - 1] \in Ints(net.l[m - 1]) PROVE m \in S
  <2>1. e[m] = SpeedOf(net, k, r, c, m, e[m - 1])
    BY <1>8 DEF SpeedStep
  <2> QED BY <1>9, <2>1, SpeedFits
<1>10. 1 \in S
  BY <1>1, <1>9
<1>11. ASSUME NEW m \in (1 + 1)..n, m - 1 \in S PROVE m \in S
  <2>1. m \in 1..n
    BY <1>1
  <2> QED BY <1>9, <1>11, <2>1
<1> HIDE DEF S
<1>12. 1..n \subseteq S
  BY <1>1, <1>10, <1>11, Between
<1> QED BY <1>8, <1>12 DEF S, e

-----------------------------------------------------------------------------
(* Where down and up meet *)

\* The gradient begins with nothing for the layers in between.
Fresh(net, grad) == \A m \in 2..(L(net) - 1) : grad.outputs[m] = [i \in 1..net.l[m] |-> 0]

LEMMA FreshGathers ==
  ASSUME NEW net, IsNet(net), NEW grad, Fresh(net, grad)
  PROVE  Gathers(net, grad)
<1>1. ASSUME NEW m \in 2..(L(net) - 1) PROVE grad.outputs[m] \in Ints(net.l[m])
  <2>1. [i \in 1..net.l[m] |-> 0] \in Ints(net.l[m])
    BY DEF Ints
  <2> QED BY <2>1 DEF Fresh
<1> QED BY <1>1 DEF Gathers

\* What a layer is told from above, before its own derivative
Told(net, grad, y, m) ==
  IF m = L(net) THEN OfCost(net, y) ELSE D!vector_sum(grad.outputs[m], Back(net, m, Deltas(net, grad, y)[m + 1]))

\* At each layer above a parameter: the vectors of down and up, and what they are made of
LEMMA LayerHas ==
  ASSUME NEW net, IsNet(net), Warm(net), NEW grad, Fresh(net, grad), NEW y \in Ints(net.l[L(net)]),
         NEW k, NEW r, NEW c, Parameter(net, k, r, c), NEW m \in (k + 1)..L(net)
  PROVE  /\ Told(net, grad, y, m) \in Ints(net.l[m])
         /\ m # L(net) => Told(net, grad, y, m) = Back(net, m, Deltas(net, grad, y)[m + 1])
         /\ dot_product(Told(net, grad, y, m), Speed(net, k, r, c)[m])
              = dot_product(Deltas(net, grad, y)[m], Arrives(net, k, r, c, m, Speed(net, k, r, c)[m - 1]))
<1> DEFINE d == Deltas(net, grad, y)
           s == Speed(net, k, r, c)
           e == Told(net, grad, y, m)
           h == Arrives(net, k, r, c, m, s[m - 1])
           g == relu_derivative(net.outputs[m])
           n == net.l[m]
<1>1. /\ L(net) \in Nat /\ k \in Nat /\ k >= 1 /\ m \in 1..L(net) /\ m \in 2..L(net) /\ m - 1 \in 1..L(net)
      /\ n \in Nat /\ ~(m <= k)
  <2>1. L(net) \in Nat /\ k \in 1..(L(net) - 1)
    BY ParametersAre
  <2>2. m \in 1..L(net)
    BY <2>1
  <2> QED BY <2>1, <2>2, LayersAre
<1>2. d[m] \in Ints(n) /\ s[m] \in Ints(n) /\ h \in Ints(n) /\ g \in Ints(n)
  <2>1. s[m - 1] \in Ints(net.l[m - 1]) /\ s[m] \in Ints(n)
    BY <1>1, SpeedsAre
  <2> HIDE DEF s
  <2>2. h \in Ints(n)
    BY <2>1, ArrivesFits
  <2>3. g \in Ints(n)
    BY <1>1, VectorFits DEF Warm
  <2>4. d[m] \in Ints(n)
    BY <1>1, FreshGathers, DeltasAre
  <2> QED BY <2>1, <2>2, <2>3, <2>4
<1>3. e \in Ints(n) /\ (m # L(net) => e = Back(net, m, d[m + 1]))
  <2>1. CASE m = L(net)
    BY <2>1, CostFits DEF Told
  <2>2. CASE m # L(net)
    <3>1. m \in 1..(L(net) - 1) /\ m + 1 \in 2..L(net) /\ m \in 2..(L(net) - 1)
      BY <1>1, <2>2
    <3>2. d[m + 1] \in Ints(net.l[m + 1])
      BY <3>1, FreshGathers, DeltasAre
    <3> DEFINE u == Back(net, m, d[m + 1])
               z == [i \in 1..n |-> 0]
    <3>3. u \in Ints(n)
      <4> HIDE DEF d
      <4> QED BY <3>1, <3>2, BackFits
    <3>4. z \in Ints(n) /\ \A i \in 1..n : z[i] = 0
      BY DEF Ints
    <3>5. e = D!vector_sum(z, u)
      BY <2>2, <3>1 DEF Told, Fresh
    <3> HIDE DEF u, z
    <3>6. D!vector_sum(z, u) = [i \in 1..n |-> z[i] + u[i]]
      BY <1>1, <3>3, <3>4, VectorsAre
    <3>7. u = [i \in 1..n |-> z[i] + u[i]]
      BY <3>3, <3>4 DEF Ints
    <3>8. e = u
      BY <3>5, <3>6, <3>7
    <3> QED BY <3>3, <3>8 DEF u
  <2> QED BY <2>1, <2>2
<1>4. d[m] = [i \in 1..n |-> e[i] * g[i]]
  <2>1. d[m] = D!dyn_vector_hadamard_product(e, g)
    <3>1. d = DeltaStep(net, grad, y, d)
      BY FreshGathers, DeltasAre
    <3>2. d[m] = DeltaOf(net, grad, y, m, d[m + 1])
      <4> HIDE DEF d
      <4> QED BY <1>1, <3>1 DEF DeltaStep
    <3> QED BY <3>2 DEF DeltaOf, Told
  <2> HIDE DEF d, e, g
  <2> QED BY <1>1, <1>2, <1>3, <2>1, VectorsAre
<1>5. s[m] = [i \in 1..n |-> g[i] * h[i]]
  <2>1. s = SpeedStep(net, k, r, c, s)
    BY SpeedsAre
  <2>2. s[m] = D!hadamard_product(g, h)
    <3>1. s[m] = SpeedOf(net, k, r, c, m, s[m - 1])
      <4> HIDE DEF s
      <4> QED BY <1>1, <2>1 DEF SpeedStep
    <3> QED BY <1>1, <3>1 DEF SpeedOf
  <2> HIDE DEF s, h, g
  <2> QED BY <1>1, <1>2, <2>2, VectorsAre
<1> HIDE DEF d, s, e, h, g
<1>6. \A i \in 1..n : e[i] * s[m][i] = d[m][i] * h[i]
  <2>1. ASSUME NEW i \in 1..n PROVE e[i] * s[m][i] = d[m][i] * h[i]
    <3>1. s[m][i] = g[i] * h[i] /\ d[m][i] = e[i] * g[i]
      BY <1>4, <1>5
    <3>2. e[i] \in Int /\ g[i] \in Int /\ h[i] \in Int
      BY <1>2, <1>3 DEF Ints
    <3>3. e[i] * (g[i] * h[i]) = (e[i] * g[i]) * h[i]
      BY <3>2
    <3> QED BY <3>1, <3>3
  <2> QED BY <2>1
<1>7. dot_product(e, s[m]) = dot_product(d[m], h)
  <2> DEFINE above == s[m]
             below == d[m]
  <2>1. above \in Ints(n) /\ below \in Ints(n) /\ \A i \in 1..n : e[i] * above[i] = below[i] * h[i]
    BY <1>2, <1>6
  <2> HIDE DEF above, below
  <2>2. dot_product(e, above) = dot_product(below, h)
    BY <1>1, <1>2, <1>3, <2>1, DotsAlike
  <2> QED BY <2>2 DEF above, below
<1> QED BY <1>3, <1>7 DEF d, s, e, h

\* From layer to layer the product stays the same: a matrix goes from one factor to the other.
LEMMA LayersAgree ==
  ASSUME NEW net, IsNet(net), Warm(net), NEW grad, Fresh(net, grad), NEW y \in Ints(net.l[L(net)]),
         NEW k, NEW r, NEW c, Parameter(net, k, r, c), NEW m \in (k + 2)..L(net)
  PROVE  dot_product(Told(net, grad, y, m), Speed(net, k, r, c)[m])
           = dot_product(Told(net, grad, y, m - 1), Speed(net, k, r, c)[m - 1])
<1> DEFINE d == Deltas(net, grad, y)[m]
           s == Speed(net, k, r, c)[m - 1]
           w == net.W[m - 1]
           p == D!matrix_vector_product(w, s)
           z == [i \in 1..net.l[m] |-> 0]
<1>1. /\ L(net) \in Nat /\ k \in Nat /\ k >= 1 /\ m \in (k + 1)..L(net) /\ m - 1 \in (k + 1)..L(net)
      /\ m \in 2..L(net) /\ m - 1 \in 1..L(net) /\ m \in 1..L(net) /\ m - 1 \in 1..(L(net) - 1)
      /\ m - 1 # L(net) /\ m # k + 1 /\ (m - 1) + 1 = m
  BY ParametersAre
<1>2. /\ w \in Matrix /\ w.rows = net.l[m] /\ w.cols = net.l[m - 1]
      /\ net.l[m] \in Nat
  BY <1>1, LayersAre DEF IsNet
<1>3. d \in Ints(net.l[m]) /\ s \in Ints(net.l[m - 1])
  BY <1>1, FreshGathers, DeltasAre, SpeedsAre
<1>4. Arrives(net, k, r, c, m, s) = p /\ p = [i \in 1..net.l[m] |-> dot_product(get_row(w, i - 1), s)]
  <2> HIDE DEF s
  <2>1. p \in Ints(net.l[m]) /\ p = [i \in 1..net.l[m] |-> dot_product(get_row(w, i - 1), s)]
    <3>1. p \in Ints(net.l[m]) /\ \A i \in 1..net.l[m] : p[i] = dot_product(get_row(w, i - 1), s)
      BY <1>1, <1>3, PassesOn
    <3> HIDE DEF p
    <3> QED BY <3>1 DEF Ints
  <2>2. z \in Ints(net.l[m]) /\ \A i \in 1..net.l[m] : z[i] = 0
    BY DEF Ints
  <2>3. Arrives(net, k, r, c, m, s) = D!vector_sum(p, z)
    BY <1>1 DEF Arrives, Direct
  <2> HIDE DEF p, z
  <2>4. D!vector_sum(p, z) = [i \in 1..net.l[m] |-> p[i] + z[i]]
    BY <1>2, <2>1, <2>2, VectorsAre
  <2>5. p = [i \in 1..net.l[m] |-> p[i] + z[i]]
    BY <2>1, <2>2 DEF Ints
  <2> QED BY <2>1, <2>3, <2>4, <2>5
<1>5. Told(net, grad, y, m - 1) = [j \in 1..net.l[m - 1] |-> dot_product(get_col(w, j - 1), d)]
  <2>1. Told(net, grad, y, m - 1) = Back(net, m - 1, d)
    BY <1>1, LayerHas
  <2>2. d \in Ints(net.l[(m - 1) + 1])
    BY <1>1, <1>3
  <2> HIDE DEF d, w
  <2>3. Back(net, m - 1, d) = [j \in 1..net.l[m - 1] |-> dot_product(get_col(net.W[m - 1], j - 1), d)]
    <3> DEFINE before == m - 1
    <3>1. before \in 1..(L(net) - 1) /\ d \in Ints(net.l[before + 1])
      BY <1>1, <2>2
    <3> HIDE DEF before
    <3>2. Back(net, before, d) = [j \in 1..net.l[before] |-> dot_product(get_col(net.W[before], j - 1), d)]
      BY <3>1, BackFits
    <3> QED BY <3>2 DEF before
  <2> QED BY <2>1, <2>3 DEF w
<1>6. dot_product(Told(net, grad, y, m), Speed(net, k, r, c)[m]) = dot_product(d, p)
  BY <1>1, <1>4, LayerHas
<1> HIDE DEF d, s, w, p
<1>7. dot_product(d, [i \in 1..w.rows |-> dot_product(get_row(w, i - 1), s)])
        = dot_product([j \in 1..w.cols |-> dot_product(get_col(w, j - 1), d)], s)
  BY <1>2, <1>3, Transposed
<1>8. dot_product(d, p) = dot_product(Told(net, grad, y, m - 1), s)
  BY <1>2, <1>4, <1>5, <1>7
<1> QED BY <1>6, <1>8 DEF s

\* At the layer the parameter leads to, the product is what backpropagation adds.
LEMMA LayerStarts ==
  ASSUME NEW net, IsNet(net), Warm(net), NEW grad, Fresh(net, grad), NEW y \in Ints(net.l[L(net)]),
         NEW k, NEW r, NEW c, Parameter(net, k, r, c)
  PROVE  /\ dot_product(Told(net, grad, y, k + 1), Speed(net, k, r, c)[k + 1])
              = Deltas(net, grad, y)[k + 1][r] * Factor(net, k, c)
         /\ Deltas(net, grad, y)[k + 1][r] \in Int
<1> DEFINE m == k + 1
           d == Deltas(net, grad, y)[m]
           s == Speed(net, k, r, c)[m - 1]
           x == Factor(net, k, c)
           w == net.W[m - 1]
           p == D!matrix_vector_product(w, s)
           n == net.l[m]
           q == Direct(net, k, r, c, m)
           h == Arrives(net, k, r, c, m, s)
<1>1. /\ L(net) \in Nat /\ k \in 1..L(net) /\ m \in (k + 1)..L(net) /\ m \in 2..L(net)
      /\ m - 1 = k /\ k \in 1..(L(net) - 1) /\ n \in Nat /\ r \in 1..n /\ x \in Int
  BY ParametersAre DEF Parameter
<1>2. d \in Ints(n) /\ s \in Ints(net.l[m - 1]) /\ d[r] \in Int
  <2>1. d \in Ints(n) /\ s \in Ints(net.l[m - 1])
    BY <1>1, FreshGathers, DeltasAre, SpeedsAre
  <2> QED BY <1>1, <2>1 DEF Ints
<1>3. \A j \in 1..net.l[k] : s[j] = 0
  <2>1. Speed(net, k, r, c) = SpeedStep(net, k, r, c, Speed(net, k, r, c))
    BY SpeedsAre
  <2>2. Speed(net, k, r, c)[k] = SpeedOf(net, k, r, c, k, Speed(net, k, r, c)[k - 1])
    BY <1>1, <2>1 DEF SpeedStep
  <2>3. Speed(net, k, r, c)[k] = [i \in 1..net.l[k] |-> 0]
    BY <1>1, <2>2 DEF SpeedOf
  <2>4. s = Speed(net, k, r, c)[k]
    BY <1>1
  <2> HIDE DEF s
  <2> QED BY <2>3, <2>4
<1>4. /\ w \in Matrix /\ w.rows = n /\ w.cols = net.l[m - 1]
  BY <1>1 DEF IsNet
<1>5. p \in Ints(n) /\ p = [i \in 1..n |-> dot_product(get_row(w, i - 1), s)] /\ q \in Ints(n)
  <2>0. m \in 2..L(net) /\ s \in Ints(net.l[m - 1])
    BY <1>1, <1>2
  <2> HIDE DEF s, m
  <2>1. p \in Ints(n) /\ p = [i \in 1..n |-> dot_product(get_row(w, i - 1), s)]
    <3>1. p \in Ints(n) /\ \A i \in 1..n : p[i] = dot_product(get_row(w, i - 1), s)
      BY <2>0, PassesOn
    <3> HIDE DEF p
    <3> QED BY <3>1 DEF Ints
  <2>2. q \in Ints(n)
    BY <1>1, <1>2, ArrivesFits
  <2> QED BY <2>1, <2>2
<1>6. ASSUME NEW i \in 1..n PROVE dot_product(get_row(w, i - 1), s) = 0
  <2> DEFINE line == get_row(w, i - 1)
             size == w.cols
  <2>1. i - 1 \in 0..(w.rows - 1)
    BY <1>1, <1>4
  <2>2. line \in Ints(size) /\ size \in Nat /\ s \in Ints(size)
    BY <1>2, <1>4, <2>1, LinesAre DEF Ints, Matrix
  <2>3. \A j \in 1..size : line[j] * s[j] = 0
    <3>1. ASSUME NEW j \in 1..size PROVE line[j] * s[j] = 0
      <4>1. line[j] \in Int /\ s[j] = 0
        BY <1>1, <1>3, <1>4, <2>2 DEF Ints
      <4> QED BY <4>1
    <3> QED BY <3>1
  <2> HIDE DEF line, size, s
  <2> QED BY <2>2, <2>3, DotSingle DEF line
<1>7. q = D!scalar_product(x, Unit(n, r))
  BY DEF Direct
<1>8. \A i \in 1..n : q[i] = x * (IF i = r THEN 1 ELSE 0)
  <2>1. Unit(n, r) \in Ints(n)
    BY <1>1, <1>2, VectorFits
  <2>2. D!scalar_product(x, Unit(n, r)) = [i \in 1..n |-> x * Unit(n, r)[i]]
    BY <1>1, <2>1, ScaledIs
  <2> QED BY <1>7, <2>2 DEF Unit
<1> HIDE DEF x
<1>9. \A i \in 1..n : h[i] = (IF i = r THEN x ELSE 0)
  <2> HIDE DEF p, q
  <2>1. D!vector_sum(p, q) = [i \in 1..n |-> p[i] + q[i]]
    BY <1>1, <1>5, VectorsAre
  <2>2. h = D!vector_sum(p, q)
    BY DEF Arrives, p, q
  <2>3. \A i \in 1..n : p[i] = 0
    BY <1>5, <1>6
  <2> HIDE DEF h
  <2>4. ASSUME NEW i \in 1..n PROVE h[i] = (IF i = r THEN x ELSE 0)
    <3>1. h[i] = p[i] + q[i] /\ p[i] = 0
      BY <2>1, <2>2, <2>3
    <3>2. q[i] = (IF i = r THEN x ELSE 0)
      BY <1>1, <1>8
    <3> QED BY <1>1, <3>1, <3>2
  <2> QED BY <2>4
<1>10. dot_product(d, h) = d[r] * x
  <2>1. h \in Ints(n)
    <3> HIDE DEF s
    <3> QED BY <1>1, <1>2, ArrivesFits
  <2> HIDE DEF h, d
  <2>2. \A i \in 1..n : i # r => d[i] * h[i] = 0
    <3>1. \A i \in 1..n : d[i] \in Int
      BY <1>2 DEF Ints
    <3> QED BY <1>9, <3>1
  <2>3. dot_product(d, h) = d[r] * h[r]
    BY <1>1, <1>2, <2>1, <2>2, DotSingle
  <2> QED BY <1>1, <1>9, <2>3
<1>11. dot_product(Told(net, grad, y, m), Speed(net, k, r, c)[m]) = dot_product(d, h)
  BY <1>1, LayerHas
<1> QED BY <1>2, <1>10, <1>11 DEF x

\* So what backpropagation adds is the derivative.
LEMMA Adjoint ==
  ASSUME NEW net, IsNet(net), Warm(net), NEW grad, Fresh(net, grad), NEW y \in Ints(net.l[L(net)]),
         NEW k, NEW r, NEW c, Parameter(net, k, r, c)
  PROVE  /\ D!dot_product(D!scalar_product(2, D!vector_difference(Result(net), y)), Speeds(net, k, r, c))
              = Deltas(net, grad, y)[k + 1][r] * Factor(net, k, c)
         /\ Deltas(net, grad, y)[k + 1][r] \in Int /\ Factor(net, k, c) \in Int
<1> DEFINE n == L(net)
           Q(m) == dot_product(Told(net, grad, y, m), Speed(net, k, r, c)[m])
           S == {m \in (k + 1)..n : Q(m) = Q(k + 1)}
<1>1. n \in Nat /\ k \in Nat /\ k \in 1..(n - 1) /\ k + 1 \in Nat /\ k + 1 <= n /\ n \in 1..n
  BY ParametersAre, LayersAre
<1>2. k + 1 \in S
  BY <1>1
<1>3. ASSUME NEW m \in ((k + 1) + 1)..n, m - 1 \in S PROVE m \in S
  <2>1. m \in (k + 2)..n /\ m \in (k + 1)..n
    BY <1>1
  <2>2. Q(m) = Q(m - 1)
    BY <2>1, LayersAgree
  <2> QED BY <1>3, <2>1, <2>2
<1> HIDE DEF S
<1>4. (k + 1)..n \subseteq S
  BY <1>1, <1>2, <1>3, Between
<1>5. Q(n) = Q(k + 1)
  <2>1. n \in (k + 1)..n
    BY <1>1
  <2> QED BY <1>4, <2>1 DEF S
<1>6. Q(n) = D!dot_product(OfCost(net, y), Speeds(net, k, r, c))
  <2>1. Q(n) = dot_product(OfCost(net, y), Speeds(net, k, r, c))
    BY SpeedsEnd DEF Told
  <2>2. /\ OfCost(net, y) \in Ints(net.l[n]) /\ Speeds(net, k, r, c) \in Ints(net.l[n])
        /\ net.l[n] \in Nat
    BY <1>1, CostFits, SpeedsEnd, SpeedsAre, LayersAre
  <2> HIDE DEF Q
  <2> QED BY <2>1, <2>2, DotIs
<1>7. OfCost(net, y) = D!scalar_product(2, D!vector_difference(Result(net), y))
  BY CostFits
<1> QED BY <1>5, <1>6, <1>7, LayerStarts, ParametersAre

-----------------------------------------------------------------------------
(* What a row adds to the gradient *)

\* A network with other parameters and outputs
LEMMA FieldsSet ==
  ASSUME NEW net, IsNet(net), NEW A, NEW B, NEW C
  PROVE  /\ [net EXCEPT !.W = A, !.b = B, !.outputs = C]
              = [l |-> net.l, W |-> A, b |-> B, outputs |-> C, activated |-> net.activated]
         /\ [net EXCEPT !.W = A, !.b = B]
              = [l |-> net.l, W |-> A, b |-> B, outputs |-> net.outputs, activated |-> net.activated]
<1>1. PICK l1, W1, b1, o1, a1 : net = [l |-> l1, W |-> W1, b |-> b1, outputs |-> o1, activated |-> a1]
  BY Zenon DEF IsNet
<1>2. net.l = l1 /\ net.outputs = o1 /\ net.activated = a1
  BY ONLY <1>1
<1> DEFINE first == [net EXCEPT !.W = A]
           second == [first EXCEPT !.b = B]
<1>3. first = [l |-> l1, W |-> A, b |-> b1, outputs |-> o1, activated |-> a1]
  BY ONLY <1>1
<1>4. /\ [net EXCEPT !.W = A, !.b = B, !.outputs = C] = [second EXCEPT !.outputs = C]
      /\ [net EXCEPT !.W = A, !.b = B] = second
  BY ONLY TRUE
<1> HIDE DEF first
<1>5. second = [l |-> l1, W |-> A, b |-> B, outputs |-> o1, activated |-> a1]
  BY ONLY <1>3
<1> HIDE DEF second
<1>6. [second EXCEPT !.outputs = C] = [l |-> l1, W |-> A, b |-> B, outputs |-> C, activated |-> a1]
  BY ONLY <1>5
<1> QED BY <1>2, <1>4, <1>5, <1>6, Zenon

\* The weights of a network are made of rows as any matrix is.
LEMMA FlattensAlike ==
  ASSUME NEW rows
  PROVE  D!flatten(rows) = flatten(rows)
<1> QED BY Zenon DEF D!flatten, flatten, D!FlattenSeq, FlattenSeq

\* What a network holds for a parameter
Entry(net, k, r, c) == IF c = 0 THEN net.b[k][r] ELSE D!At(net.W[k], r - 1, c - 1)

\* A row adds the product of what comes down and what went up to each parameter.
LEMMA RowAdds ==
  ASSUME NEW net, IsNet(net), Warm(net), NEW grad, IsNet(grad), grad.l = net.l, Gathers(net, grad),
         NEW y \in Ints(net.l[L(net)])
  PROVE  /\ IsNet(Backpropagated(net, grad, y)) /\ Backpropagated(net, grad, y).l = net.l
         /\ Backpropagated(net, grad, y).outputs[1] = grad.outputs[1]
         /\ \A k \in 2..L(net) : Backpropagated(net, grad, y).outputs[k] \in Ints(net.l[k])
         /\ \A k, r, c : Parameter(net, k, r, c) =>
              Entry(Backpropagated(net, grad, y), k, r, c)
                = Entry(grad, k, r, c) + Deltas(net, grad, y)[k + 1][r] * Factor(net, k, c)
<1> DEFINE n == L(net)
           d == Deltas(net, grad, y)
           g == Backpropagated(net, grad, y)
           lines(k) == [r \in 1..grad.W[k].rows |-> [c \in 1..grad.W[k].cols |->
                          D!At(grad.W[k], r - 1, c - 1) + d[k + 1][r] * LayerInput(net, k)[c]]]
           A == [k \in DOMAIN grad.W |-> D!flatten(lines(k))]
           B == [k \in DOMAIN grad.b |-> D!dyn_vector_sum(grad.b[k], d[k + 1])]
           C == [k \in DOMAIN grad.outputs |-> IF k = 1 THEN grad.outputs[k] ELSE d[k]]
<1>1. /\ n \in Nat /\ n >= 2 /\ L(grad) = n /\ grad.l = net.l /\ \A k \in 1..n : net.l[k] \in Nat \ {0}
      /\ DOMAIN grad.W = 1..(n - 1) /\ DOMAIN grad.b = 1..(n - 1) /\ DOMAIN grad.outputs = 1..n
  <2>1. L(grad) = n
    BY DEF L
  <2> QED BY <2>1, LayersAre DEF IsNet
<1>2. g = [grad EXCEPT !.W = A, !.b = B, !.outputs = C]
  <2> HIDE DEF d
  <2> QED BY DEF Backpropagated, d
<1>3. g = [l |-> grad.l, W |-> A, b |-> B, outputs |-> C, activated |-> grad.activated]
  <2> HIDE DEF A, B, C, g
  <2> QED BY <1>2, FieldsSet, ZenonT(30)
<1>4. \A k \in 2..n : d[k] \in Ints(net.l[k])
  BY DeltasAre
<1> HIDE DEF d
<1>5. ASSUME NEW k \in 1..(n - 1)
      PROVE  /\ A[k] \in Matrix /\ A[k].rows = net.l[k + 1] /\ A[k].cols = net.l[k]
             /\ \A r \in 1..net.l[k + 1], c \in 1..net.l[k] :
                  D!At(A[k], r - 1, c - 1)
                    = D!At(grad.W[k], r - 1, c - 1) + d[k + 1][r] * net.activated[k][c]
  <2> DEFINE m == grad.W[k]
             R == net.l[k + 1]
             T == net.l[k]
             rows == lines(k)
  <2>1. /\ k \in 1..n /\ k + 1 \in 2..n /\ k + 1 \in 1..n /\ R \in Nat \ {0} /\ T \in Nat \ {0}
        /\ m \in Matrix /\ m.rows = R /\ m.cols = T
    <3>1. k \in 1..n /\ k + 1 \in 2..n /\ k + 1 \in 1..n
      BY <1>1
    <3>2. grad.W[k] \in Matrix /\ grad.W[k].rows = grad.l[k + 1] /\ grad.W[k].cols = grad.l[k]
      BY <1>1, Zenon DEF IsNet
    <3>3. net.l[k] \in Nat \ {0} /\ net.l[k + 1] \in Nat \ {0}
      BY <1>1, <3>1
    <3> QED BY <1>1, <3>1, <3>2, <3>3
  <2>2. d[k + 1] \in [1..R -> Int] /\ net.activated[k] \in [1..T -> Int]
    BY <1>4, <2>1 DEF Warm, Ints
  <2>3. ASSUME NEW r \in 1..R, NEW c \in 1..T
        PROVE  /\ D!At(m, r - 1, c - 1) \in Int /\ d[k + 1][r] * net.activated[k][c] \in Int
    <3>1. r - 1 \in 0..(m.rows - 1) /\ c - 1 \in 0..(m.cols - 1)
      BY <2>1
    <3>2. At(m, r - 1, c - 1) \in Int /\ D!At(m, r - 1, c - 1) = At(m, r - 1, c - 1)
      BY <2>1, <3>1, ElementIs DEF At, D!At
    <3>3. d[k + 1][r] \in Int /\ net.activated[k][c] \in Int
      BY <2>2
    <3> QED BY <3>2, <3>3
  <2> HIDE DEF m, R, T
  <2>4. rows = [r \in 1..R |-> [c \in 1..T |->
                  D!At(m, r - 1, c - 1) + d[k + 1][r] * net.activated[k][c]]]
    BY <2>1, Zenon DEF LayerInput, m
  <2> HIDE DEF rows
  <2>5. rows \in RowsOf(R, T)
    <3>1. \A r \in 1..R, c \in 1..T :
            D!At(m, r - 1, c - 1) + d[k + 1][r] * net.activated[k][c] \in Int
      BY <2>3
    <3> QED BY <2>4, <3>1 DEF RowsOf
  <2>6. A[k] = flatten(rows)
    BY <1>1, FlattensAlike DEF rows
  <2>7. /\ flatten(rows) \in Matrix /\ flatten(rows).rows = R /\ flatten(rows).cols = T
        /\ \A i \in 0..(R - 1), j \in 0..(T - 1) : At(flatten(rows), i, j) = rows[i + 1][j + 1]
    BY <2>1, <2>5, FlattenPlaces
  <2>8. ASSUME NEW r \in 1..R, NEW c \in 1..T
        PROVE  D!At(A[k], r - 1, c - 1) = D!At(m, r - 1, c - 1) + d[k + 1][r] * net.activated[k][c]
    <3>1. r - 1 \in 0..(R - 1) /\ c - 1 \in 0..(T - 1) /\ (r - 1) + 1 = r /\ (c - 1) + 1 = c
      BY <2>1
    <3>2. At(A[k], r - 1, c - 1) = rows[r][c]
      <4> HIDE DEF A
      <4> QED BY <2>6, <2>7, <3>1
    <3>3. rows[r][c] = D!At(m, r - 1, c - 1) + d[k + 1][r] * net.activated[k][c]
      BY <2>4
    <3>4. D!At(A[k], r - 1, c - 1) = At(A[k], r - 1, c - 1)
      BY DEF At, D!At
    <3> QED BY <3>2, <3>3, <3>4
  <2> HIDE DEF A
  <2> QED BY <2>6, <2>7, <2>8 DEF m, R, T
<1>6. ASSUME NEW k \in 1..(n - 1)
      PROVE  B[k] \in Ints(net.l[k + 1]) /\ \A r \in 1..net.l[k + 1] : B[k][r] = grad.b[k][r] + d[k + 1][r]
  <2> DEFINE u == grad.b[k]
             v == d[k + 1]
             R == net.l[k + 1]
  <2>1. k + 1 \in 2..n /\ k + 1 \in 1..n
    BY <1>1
  <2>2. R \in Nat /\ u \in Ints(R) /\ v \in Ints(R)
    BY <1>1, <1>4, <2>1 DEF IsNet
  <2>3. B[k] = D!dyn_vector_sum(u, v)
    BY <1>1
  <2> HIDE DEF u, v, R
  <2>4. D!dyn_vector_sum(u, v) = [r \in 1..R |-> u[r] + v[r]]
    BY <2>2, VectorsAre
  <2>5. D!dyn_vector_sum(u, v) \in Ints(R)
    BY <2>2, VectorsFit
  <2> HIDE DEF B
  <2> QED BY <2>3, <2>4, <2>5 DEF u, v, R
<1>7. \A k \in 1..n : C[k] = IF k = 1 THEN grad.outputs[1] ELSE d[k]
  BY <1>1
<1>8. /\ A = [k \in 1..(n - 1) |-> A[k]] /\ B = [k \in 1..(n - 1) |-> B[k]] /\ C = [k \in 1..n |-> C[k]]
  <2>1. A = [k \in DOMAIN grad.W |-> A[k]] /\ B = [k \in DOMAIN grad.b |-> B[k]]
        /\ C = [k \in DOMAIN grad.outputs |-> C[k]]
    BY Zenon
  <2> HIDE DEF A, B, C
  <2> QED BY <1>1, <2>1, Zenon
<1> HIDE DEF A, B, C, g
<1>9. /\ g.l = grad.l /\ g.W = A /\ g.b = B /\ g.outputs = C /\ g.activated = grad.activated /\ L(g) = n
      /\ g = [l |-> g.l, W |-> g.W, b |-> g.b, outputs |-> g.outputs, activated |-> g.activated]
  BY <1>1, <1>3 DEF L
<1>10. IsNet(g)
  <2>1. grad.activated = [k \in 1..n |-> grad.activated[k]] /\ grad.l \in Seq(Nat \ {0})
    BY <1>1, Zenon DEF IsNet
  <2>2. ASSUME NEW k \in 1..(n - 1)
        PROVE  /\ g.W[k] \in Matrix /\ g.b[k] \in Ints(g.l[k + 1])
               /\ g.W[k].rows = g.l[k + 1] /\ g.W[k].cols = g.l[k]
    BY <1>1, <1>5, <1>6, <1>9
  <2> QED BY <1>1, <1>8, <1>9, <2>1, <2>2, Zenon DEF IsNet
<1>11. ASSUME NEW k, NEW r, NEW c, Parameter(net, k, r, c)
       PROVE  Entry(g, k, r, c) = Entry(grad, k, r, c) + d[k + 1][r] * Factor(net, k, c)
  <2>1. k \in 1..(n - 1) /\ r \in 1..net.l[k + 1] /\ c \in 0..net.l[k]
    BY <1>11 DEF Parameter
  <2>2. CASE c = 0
    <3>1. g.b[k][r] = grad.b[k][r] + d[k + 1][r]
      BY <1>6, <1>9, <2>1
    <3>2. d[k + 1][r] \in Int
      <4>1. k + 1 \in 2..n
        BY <1>1, <2>1
      <4> QED BY <1>4, <2>1, <4>1 DEF Ints
    <3>3. d[k + 1][r] * 1 = d[k + 1][r]
      BY <3>2
    <3> QED BY <2>2, <3>1, <3>3 DEF Entry, Factor
  <2>3. CASE c # 0
    <3>1. c \in 1..net.l[k]
      BY <1>1, <2>1, <2>3
    <3> QED BY <1>5, <1>9, <2>1, <2>3, <3>1 DEF Entry, Factor
  <2> QED BY <2>2, <2>3
<1>12. \A k \in 2..n : g.outputs[k] \in Ints(net.l[k])
  <2>1. \A k \in 2..n : k \in 1..n /\ k # 1
    BY <1>1
  <2> QED BY <1>4, <1>7, <1>9, <2>1
<1>13. g.outputs[1] = grad.outputs[1] /\ g.l = net.l
  <2>1. 1 \in 1..n
    BY <1>1
  <2> QED BY <1>1, <1>7, <1>9, <2>1
<1> QED BY <1>10, <1>11, <1>12, <1>13 DEF g, d

-----------------------------------------------------------------------------
(* Networks that are constructed, bound, cleared and taught *)

\* A matrix with other data of the same length
LEMMA DataSet ==
  ASSUME NEW m \in Matrix, NEW e \in Seq(Int), Len(e) = Len(m.data)
  PROVE  /\ WithData(m, e) \in Matrix /\ WithData(m, e).rows = m.rows
         /\ WithData(m, e).cols = m.cols /\ WithData(m, e).data = e
<1> QED BY DEF Matrix, WithData

\* Lists of integers of one length
LEMMA ListsAre ==
  ASSUME NEW v \in Seq(Int)
  PROVE  Len(v) \in Nat /\ v \in Ints(Len(v))
<1> QED BY DEF Ints

LEMMA IntsAreLists ==
  ASSUME NEW n \in Nat, NEW v \in Ints(n)
  PROVE  v \in Seq(Int) /\ Len(v) = n
<1> QED BY IsList DEF Ints

\* Weights that fit
LEMMA WeightsAre ==
  ASSUME NEW m, IsMatrix(m), m.rows > 0
  PROVE  m \in Matrix
<1>1. /\ m \in [rows : Nat, cols : Nat \ {0}, data : Seq(Int)] /\ Len(m.data) = m.rows * m.cols
      /\ m.rows \in Nat /\ m.cols \in Nat \ {0} /\ m.data \in Seq(Int)
  BY DEF IsMatrix
<1>2. m \in [rows : Nat, cols : Nat, data : Seq(Int)]
  BY <1>1
<1> QED BY <1>1, <1>2 DEF Matrix

\* The parameters of a network that is constructed
LEMMA GivenAre ==
  ASSUME NEW net \in Networks
  PROVE  /\ net.l \in Seq(Nat \ {0}) /\ L(net) \in Nat /\ L(net) >= 2
         /\ net.W = [k \in 1..(L(net) - 1) |-> net.W[k]] /\ net.b = [k \in 1..(L(net) - 1) |-> net.b[k]]
         /\ \A k \in 1..(L(net) - 1) : /\ net.W[k] \in Matrix /\ net.b[k] \in Ints(net.l[k + 1])
                                       /\ net.W[k].rows = net.l[k + 1] /\ net.W[k].cols = net.l[k]
<1>1. /\ net.l \in Seq(Nat \ {0}) /\ L(net) \in Nat /\ L(net) >= 2
      /\ net.W = [k \in 1..(L(net) - 1) |-> net.W[k]] /\ net.b = [k \in 1..(L(net) - 1) |-> net.b[k]]
  BY NetworksAssumption DEF L
<1>2. ASSUME NEW k \in 1..(L(net) - 1)
      PROVE  /\ net.W[k] \in Matrix /\ net.b[k] \in Ints(net.l[k + 1])
             /\ net.W[k].rows = net.l[k + 1] /\ net.W[k].cols = net.l[k]
  <2>1. /\ IsMatrix(net.W[k]) /\ net.W[k].rows = net.l[k + 1] /\ net.W[k].cols = net.l[k]
        /\ net.b[k] \in Seq(Int) /\ Len(net.b[k]) = net.l[k + 1]
    BY NetworksAssumption DEF L
  <2>2. net.l[k + 1] \in Nat \ {0}
    <3>1. k + 1 \in 1..L(net)
      BY <1>1
    <3> QED BY <1>1, <3>1 DEF L
  <2>3. net.W[k].rows > 0
    BY <2>1, <2>2
  <2> QED BY <2>1, <2>3, WeightsAre, ListsAre
<1> QED BY <1>1, <1>2

LEMMA AnnIs ==
  ASSUME NEW net \in Networks
  PROVE  IsNet(ann(net)) /\ ann(net).l = net.l
<1> DEFINE f == ann(net)
<1>1. f = [l |-> net.l, W |-> net.W, b |-> net.b,
           outputs |-> [k \in 1..L(net) |-> <<>>], activated |-> [k \in 1..L(net) |-> <<>>]]
  BY DEF ann
<1> HIDE DEF f
<1>2. /\ f.l = net.l /\ f.W = net.W /\ f.b = net.b /\ L(f) = L(net)
      /\ f.outputs = [k \in 1..L(net) |-> <<>>] /\ f.activated = [k \in 1..L(net) |-> <<>>]
      /\ f = [l |-> f.l, W |-> f.W, b |-> f.b, outputs |-> f.outputs, activated |-> f.activated]
  BY <1>1 DEF L
<1>3. f.outputs = [k \in 1..L(f) |-> f.outputs[k]] /\ f.activated = [k \in 1..L(f) |-> f.activated[k]]
  BY <1>2
<1>4. IsNet(f)
  <2>1. /\ f.l \in Seq(Nat \ {0}) /\ L(f) \in Nat /\ L(f) >= 2
        /\ f.W = [k \in 1..(L(f) - 1) |-> f.W[k]] /\ f.b = [k \in 1..(L(f) - 1) |-> f.b[k]]
        /\ \A k \in 1..(L(f) - 1) : /\ f.W[k] \in Matrix /\ f.b[k] \in Ints(f.l[k + 1])
                                    /\ f.W[k].rows = f.l[k + 1] /\ f.W[k].cols = f.l[k]
    <3>1. f.l = net.l /\ f.W = net.W /\ f.b = net.b /\ L(f) = L(net)
      BY <1>2
    <3>2. /\ net.l \in Seq(Nat \ {0}) /\ L(net) \in Nat /\ L(net) >= 2
          /\ net.W = [k \in 1..(L(net) - 1) |-> net.W[k]] /\ net.b = [k \in 1..(L(net) - 1) |-> net.b[k]]
          /\ \A k \in 1..(L(net) - 1) : /\ net.W[k] \in Matrix /\ net.b[k] \in Ints(net.l[k + 1])
                                        /\ net.W[k].rows = net.l[k + 1] /\ net.W[k].cols = net.l[k]
      BY GivenAre
    <3> QED BY <3>1, <3>2, Zenon
  <2> QED BY <1>2, <1>3, <2>1, Zenon DEF IsNet
<1> QED BY <1>2, <1>4 DEF f

\* A network that keeps its layers and has parameters that fit is one.
Fitting(net, A, B, C) ==
  /\ A = [k \in 1..(L(net) - 1) |-> A[k]] /\ B = [k \in 1..(L(net) - 1) |-> B[k]]
  /\ C = [k \in 1..L(net) |-> C[k]]
  /\ \A k \in 1..(L(net) - 1) : /\ A[k] \in Matrix /\ B[k] \in Ints(net.l[k + 1])
                                /\ A[k].rows = net.l[k + 1] /\ A[k].cols = net.l[k]

LEMMA StaysNet ==
  ASSUME NEW net, IsNet(net), NEW A, NEW B, NEW C, Fitting(net, A, B, C),
         NEW f, f = [l |-> net.l, W |-> A, b |-> B, outputs |-> C, activated |-> net.activated]
  PROVE  /\ IsNet(f) /\ f.l = net.l /\ L(f) = L(net) /\ f.W = A /\ f.b = B /\ f.outputs = C
         /\ f.activated = net.activated
<1>1. /\ f.l = net.l /\ f.W = A /\ f.b = B /\ L(f) = L(net) /\ f.outputs = C
      /\ f.activated = net.activated
      /\ f = [l |-> f.l, W |-> f.W, b |-> f.b, outputs |-> f.outputs, activated |-> f.activated]
  BY DEF L
<1>2. IsNet(f)
  <2>1. /\ net.l \in Seq(Nat \ {0}) /\ L(net) \in Nat /\ L(net) >= 2
        /\ net.activated = [k \in 1..L(net) |-> net.activated[k]]
    BY Zenon DEF IsNet
  <2> QED BY <1>1, <2>1, Zenon DEF IsNet, Fitting
<1> QED BY <1>1, <1>2

LEMMA BindIs ==
  ASSUME NEW net, IsNet(net), NEW other \in Networks, other.l = net.l, NEW k \in 1..(L(net) - 1)
  PROVE  /\ IsNet([net EXCEPT !.W[k] = other.W[k], !.b[k] = other.b[k]])
         /\ [net EXCEPT !.W[k] = other.W[k], !.b[k] = other.b[k]].l = net.l
<1> DEFINE A == [net.W EXCEPT ![k] = other.W[k]]
           B == [net.b EXCEPT ![k] = other.b[k]]
           f == [net EXCEPT !.W[k] = other.W[k], !.b[k] = other.b[k]]
<1>1. f = [net EXCEPT !.W = A, !.b = B]
  OBVIOUS
<1>2. f = [l |-> net.l, W |-> A, b |-> B, outputs |-> net.outputs, activated |-> net.activated]
  <2> HIDE DEF A, B, f
  <2> QED BY <1>1, FieldsSet, Zenon
<1>3. L(other) = L(net)
  BY DEF L
<1>4. /\ \A j \in 1..(L(net) - 1) : A[j] = IF j = k THEN other.W[k] ELSE net.W[j]
      /\ \A j \in 1..(L(net) - 1) : B[j] = IF j = k THEN other.b[k] ELSE net.b[j]
      /\ A = [j \in 1..(L(net) - 1) |-> A[j]] /\ B = [j \in 1..(L(net) - 1) |-> B[j]]
  <2>1. net.W = [j \in 1..(L(net) - 1) |-> net.W[j]] /\ net.b = [j \in 1..(L(net) - 1) |-> net.b[j]]
    BY Zenon DEF IsNet
  <2>2. DOMAIN net.W = 1..(L(net) - 1) /\ DOMAIN net.b = 1..(L(net) - 1)
    BY <2>1, Zenon
  <2> QED BY <2>2, Zenon
<1> HIDE DEF A, B, f
<1>5. \A j \in 1..(L(net) - 1) : /\ A[j] \in Matrix /\ B[j] \in Ints(net.l[j + 1])
                                 /\ A[j].rows = net.l[j + 1] /\ A[j].cols = net.l[j]
  <2>1. \A j \in 1..(L(net) - 1) : /\ net.W[j] \in Matrix /\ net.b[j] \in Ints(net.l[j + 1])
                                   /\ net.W[j].rows = net.l[j + 1] /\ net.W[j].cols = net.l[j]
    BY Zenon DEF IsNet
  <2>2. \A j \in 1..(L(net) - 1) : /\ other.W[j] \in Matrix /\ other.b[j] \in Ints(net.l[j + 1])
                                   /\ other.W[j].rows = net.l[j + 1] /\ other.W[j].cols = net.l[j]
    <3>1. \A j \in 1..(L(other) - 1) : /\ other.W[j] \in Matrix /\ other.b[j] \in Ints(other.l[j + 1])
                                       /\ other.W[j].rows = other.l[j + 1] /\ other.W[j].cols = other.l[j]
      BY GivenAre
    <3>2. ASSUME NEW j \in 1..(L(net) - 1)
          PROVE  /\ other.W[j] \in Matrix /\ other.b[j] \in Ints(net.l[j + 1])
                 /\ other.W[j].rows = net.l[j + 1] /\ other.W[j].cols = net.l[j]
      BY <1>3, <3>1
    <3> QED BY <3>2, Zenon
  <2>3. ASSUME NEW j \in 1..(L(net) - 1)
        PROVE  /\ A[j] \in Matrix /\ B[j] \in Ints(net.l[j + 1])
               /\ A[j].rows = net.l[j + 1] /\ A[j].cols = net.l[j]
    <3>1. CASE j = k
      BY <1>4, <2>2, <3>1
    <3>2. CASE j # k
      BY <1>4, <2>1, <3>2
    <3> QED BY <3>1, <3>2
  <2> QED BY <2>3, Zenon
<1>6. net.outputs = [j \in 1..L(net) |-> net.outputs[j]]
  BY Zenon DEF IsNet
<1>7. IsNet(f) /\ f.l = net.l
  <2>1. A = [j \in 1..(L(net) - 1) |-> A[j]] /\ B = [j \in 1..(L(net) - 1) |-> B[j]]
    BY <1>4
  <2>2. Fitting(net, A, B, net.outputs)
    BY <1>5, <1>6, <2>1, Zenon DEF Fitting
  <2> QED BY <1>2, <2>2, StaysNet
<1> QED BY <1>7 DEF f

\* zero() of a model that something was put through: a gradient that holds nothing
LEMMA ZeroIs ==
  ASSUME NEW net, IsNet(net), Warm(net)
  PROVE  /\ IsNet(zero(net)) /\ zero(net).l = net.l /\ Fresh(net, zero(net))
         /\ \A k \in 1..L(net) : zero(net).outputs[k] \in Ints(net.l[k])
         /\ \A k, r, c : Parameter(net, k, r, c) => Entry(zero(net), k, r, c) = 0
<1> DEFINE n == L(net)
           A == [k \in DOMAIN net.W |-> WithData(net.W[k], Zeros(net.W[k].data))]
           B == [k \in DOMAIN net.b |-> Zeros(net.b[k])]
           C == [k \in DOMAIN net.outputs |-> Zeros(net.outputs[k])]
           f == zero(net)
<1>1. /\ n \in Nat /\ n >= 2 /\ \A k \in 1..n : net.l[k] \in Nat \ {0}
      /\ DOMAIN net.W = 1..(n - 1) /\ DOMAIN net.b = 1..(n - 1) /\ DOMAIN net.outputs = 1..n
  BY LayersAre DEF IsNet
<1>2. f = [l |-> net.l, W |-> A, b |-> B, outputs |-> C, activated |-> net.activated]
  <2>1. f = [net EXCEPT !.W = A, !.b = B, !.outputs = C]
    BY DEF zero
  <2> HIDE DEF A, B, C, f
  <2>2. IsNet(net)
    OBVIOUS
  <2> QED BY ONLY <2>1, <2>2, FieldsSet
<1>3. ASSUME NEW k \in 1..(n - 1)
      PROVE  /\ A[k] \in Matrix /\ A[k].rows = net.l[k + 1] /\ A[k].cols = net.l[k]
             /\ \A r \in 1..net.l[k + 1], c \in 1..net.l[k] : D!At(A[k], r - 1, c - 1) = 0
  <2> DEFINE m == net.W[k]
             z == Zeros(m.data)
  <2>1. m \in Matrix /\ m.rows = net.l[k + 1] /\ m.cols = net.l[k]
    BY Zenon DEF IsNet
  <2>2. m.data \in Seq(Int)
    BY <2>1 DEF Matrix
  <2>3. Len(m.data) \in Nat /\ m.data \in Ints(Len(m.data))
    BY <2>2, ListsAre
  <2>4. z = [i \in 1..Len(m.data) |-> 0] /\ z \in Ints(Len(m.data))
    <3> HIDE DEF m
    <3> QED BY <2>3, VectorFits
  <2>5. z \in Seq(Int) /\ Len(z) = Len(m.data)
    <3> HIDE DEF m, z
    <3> QED BY <2>3, <2>4, IntsAreLists
  <2>6. A[k] = WithData(m, z)
    BY <1>1
  <2> HIDE DEF A, m, z
  <2>7. /\ A[k] \in Matrix /\ A[k].rows = m.rows /\ A[k].cols = m.cols /\ A[k].data = z
    BY <2>1, <2>5, <2>6, DataSet
  <2>8. ASSUME NEW r \in 1..net.l[k + 1], NEW c \in 1..net.l[k] PROVE D!At(A[k], r - 1, c - 1) = 0
    <3>1. k \in 1..n /\ k + 1 \in 1..n
      BY <1>1
    <3>2. net.l[k] \in Nat /\ net.l[k + 1] \in Nat
      BY <1>1, <3>1
    <3>3. r - 1 \in 0..(A[k].rows - 1) /\ c - 1 \in 0..(A[k].cols - 1)
      BY <2>1, <2>7, <3>2
    <3> DEFINE p == Place(A[k].cols, r - 1, c - 1)
    <3>4. p \in DOMAIN A[k].data /\ At(A[k], r - 1, c - 1) = A[k].data[p]
      BY <2>7, <3>3, ElementIs
    <3> HIDE DEF p
    <3>5. At(A[k], r - 1, c - 1) = 0
      BY <2>4, <2>7, <3>4
    <3> QED BY <3>5 DEF At, D!At
  <2> QED BY <2>1, <2>7, <2>8
<1>4. ASSUME NEW k \in 1..(n - 1)
      PROVE  B[k] \in Ints(net.l[k + 1]) /\ \A r \in 1..net.l[k + 1] : B[k][r] = 0
  <2>1. net.b[k] \in Ints(net.l[k + 1])
    BY Zenon DEF IsNet
  <2>2. net.l[k + 1] \in Nat
    <3>1. k + 1 \in 1..n
      BY <1>1
    <3> QED BY <1>1, <3>1
  <2>3. Zeros(net.b[k]) = [i \in 1..net.l[k + 1] |-> 0] /\ Zeros(net.b[k]) \in Ints(net.l[k + 1])
    BY <2>1, <2>2, VectorFits
  <2> QED BY <1>1, <2>3
<1>5. ASSUME NEW k \in 1..n
      PROVE  C[k] = [i \in 1..net.l[k] |-> 0] /\ C[k] \in Ints(net.l[k])
  <2>1. net.outputs[k] \in Ints(net.l[k]) /\ net.l[k] \in Nat
    BY <1>1 DEF Warm
  <2>2. Zeros(net.outputs[k]) = [i \in 1..net.l[k] |-> 0] /\ Zeros(net.outputs[k]) \in Ints(net.l[k])
    BY <2>1, VectorFits
  <2> QED BY <1>1, <2>2
<1>6. A = [k \in 1..(n - 1) |-> A[k]] /\ B = [k \in 1..(n - 1) |-> B[k]] /\ C = [k \in 1..n |-> C[k]]
  BY <1>1
<1> HIDE DEF A, B, C, f
<1>7. Fitting(net, A, B, C)
  BY <1>3, <1>4, <1>6, Zenon DEF Fitting
<1>8. /\ IsNet(f) /\ f.l = net.l /\ L(f) = L(net) /\ f.W = A /\ f.b = B /\ f.outputs = C
  BY <1>2, <1>7, StaysNet
<1>9. Fresh(net, f) /\ \A k \in 1..n : f.outputs[k] \in Ints(net.l[k])
  <2>1. \A k \in 2..(n - 1) : k \in 1..n
    BY <1>1
  <2> QED BY <1>5, <1>8, <2>1 DEF Fresh
<1>10. ASSUME NEW k, NEW r, NEW c, Parameter(net, k, r, c) PROVE Entry(f, k, r, c) = 0
  <2>1. k \in 1..(n - 1) /\ r \in 1..net.l[k + 1] /\ c \in 0..net.l[k]
    BY <1>10 DEF Parameter
  <2>2. c = 0 \/ c \in 1..net.l[k]
    <3>1. k \in 1..n
      BY <1>1, <2>1
    <3>2. net.l[k] \in Nat
      BY <1>1, <3>1
    <3> QED BY <2>1, <3>2
  <2> QED BY <1>3, <1>4, <1>8, <2>1, <2>2 DEF Entry
<1> QED BY <1>8, <1>9, <1>10 DEF f

\* A step against the gradient leaves a network that is as warm as it was.
Taught(net, grad) ==
  [net EXCEPT
     !.W = [k \in DOMAIN @ |-> WithData(@[k], D!vector_difference(@[k].data, grad.W[k].data))],
     !.b = [k \in DOMAIN @ |-> D!vector_difference(@[k], grad.b[k])]]

LEMMA TaughtIs ==
  ASSUME NEW net, IsNet(net), Warm(net), NEW grad, IsNet(grad), grad.l = net.l
  PROVE  IsNet(Taught(net, grad)) /\ Warm(Taught(net, grad)) /\ Taught(net, grad).l = net.l
<1> DEFINE n == L(net)
           A == [k \in DOMAIN net.W |->
                   WithData(net.W[k], D!vector_difference(net.W[k].data, grad.W[k].data))]
           B == [k \in DOMAIN net.b |-> D!vector_difference(net.b[k], grad.b[k])]
           f == Taught(net, grad)
<1>1. /\ n \in Nat /\ n >= 2 /\ L(grad) = n /\ \A k \in 1..n : net.l[k] \in Nat \ {0}
      /\ DOMAIN net.W = 1..(n - 1) /\ DOMAIN net.b = 1..(n - 1)
  <2>1. L(grad) = n
    BY DEF L
  <2> QED BY <2>1, LayersAre DEF IsNet
<1>2. f = [l |-> net.l, W |-> A, b |-> B, outputs |-> net.outputs, activated |-> net.activated]
  <2>1. f = [net EXCEPT !.W = A, !.b = B]
    BY DEF Taught
  <2> HIDE DEF A, B, f
  <2>2. IsNet(net)
    OBVIOUS
  <2> QED BY ONLY <2>1, <2>2, FieldsSet
<1>3. ASSUME NEW k \in 1..(n - 1)
      PROVE  A[k] \in Matrix /\ A[k].rows = net.l[k + 1] /\ A[k].cols = net.l[k]
  <2> DEFINE m == net.W[k]
             w == grad.W[k]
             z == D!vector_difference(m.data, w.data)
             size == Len(m.data)
  <2>1. m \in Matrix /\ m.rows = net.l[k + 1] /\ m.cols = net.l[k]
    BY Zenon DEF IsNet
  <2>2. w \in Matrix /\ w.rows = net.l[k + 1] /\ w.cols = net.l[k]
    <3>1. w \in Matrix /\ w.rows = grad.l[k + 1] /\ w.cols = grad.l[k]
      BY <1>1, Zenon DEF IsNet
    <3> QED BY <3>1
  <2>3. m.data \in Seq(Int) /\ w.data \in Seq(Int) /\ Len(w.data) = size
    BY <2>1, <2>2 DEF Matrix
  <2>4. size \in Nat /\ m.data \in Ints(size) /\ w.data \in Ints(size)
    BY <2>3, ListsAre
  <2> HIDE DEF m, w, size
  <2>5. z \in Ints(size)
    BY <2>4, VectorsFit
  <2>6. z \in Seq(Int) /\ Len(z) = size
    <3> HIDE DEF z
    <3> QED BY <2>4, <2>5, IntsAreLists
  <2>7. A[k] = WithData(m, z)
    BY <1>1 DEF m, w
  <2> HIDE DEF A, z
  <2>8. /\ A[k] \in Matrix /\ A[k].rows = m.rows /\ A[k].cols = m.cols
    BY <2>1, <2>6, <2>7, DataSet DEF size
  <2> QED BY <2>1, <2>8
<1>4. ASSUME NEW k \in 1..(n - 1) PROVE B[k] \in Ints(net.l[k + 1])
  <2>1. net.b[k] \in Ints(net.l[k + 1])
    BY Zenon DEF IsNet
  <2>2. grad.b[k] \in Ints(net.l[k + 1])
    <3>1. grad.b[k] \in Ints(grad.l[k + 1])
      BY <1>1, Zenon DEF IsNet
    <3> QED BY <3>1
  <2>3. net.l[k + 1] \in Nat
    <3>1. k + 1 \in 1..n
      BY <1>1
    <3> QED BY <1>1, <3>1
  <2>4. D!vector_difference(net.b[k], grad.b[k]) \in Ints(net.l[k + 1])
    BY <2>1, <2>2, <2>3, VectorsFit
  <2> QED BY <1>1, <2>4
<1>5. A = [k \in 1..(n - 1) |-> A[k]] /\ B = [k \in 1..(n - 1) |-> B[k]]
  BY <1>1
<1>6. net.outputs = [k \in 1..n |-> net.outputs[k]]
  BY Zenon DEF IsNet
<1> HIDE DEF A, B, f
<1>7. Fitting(net, A, B, net.outputs)
  BY <1>3, <1>4, <1>5, <1>6, Zenon DEF Fitting
<1>8. /\ IsNet(f) /\ f.l = net.l /\ L(f) = L(net) /\ f.outputs = net.outputs
      /\ f.activated = net.activated
  BY <1>2, <1>7, StaysNet
<1>9. Warm(f)
  BY <1>8 DEF Warm
<1> QED BY <1>8, <1>9 DEF f

-----------------------------------------------------------------------------
(* Row by row *)

\* Totals of the first of some numbers
LEMMA TotalsGrow ==
  ASSUME NEW n \in Nat, NEW v \in Ints(n)
  PROVE  /\ Total([j \in 1..0 |-> v[j]]) = 0
         /\ \A i \in 1..n : Total([j \in 1..i |-> v[j]]) = Total([j \in 1..(i - 1) |-> v[j]]) + v[i]
<1> DEFINE begin(i) == [j \in 1..i |-> v[j]]
           step == [x \in Int |-> [j \in 1..n |-> x + v[j]]]
<1>1. \A i \in 1..n : v[i] \in Int
  BY DEF Ints
<1>2. step \in [Int -> [1..n -> Int]]
  <2>1. \A x \in Int, j \in 1..n : x + v[j] \in Int
    BY <1>1
  <2> QED BY <2>1
<1>3. PICK s \in [0..n -> Int] : s[0] = 0 /\ \A i \in 1..n : s[i] = step[s[i - 1]][i]
  <2> HIDE DEF step
  <2> QED BY <1>2, LoopRuns
<1>4. \A i \in 1..n : s[i] = s[i - 1] + v[i]
  <2>1. \A i \in 1..n : s[i - 1] \in Int
    OBVIOUS
  <2> QED BY <1>3, <2>1
<1> HIDE DEF step
<1>5. ASSUME NEW m \in 0..n PROVE Total(begin(m)) = s[m]
  <2> DEFINE u == begin(m)
             F(f) == [i \in 0..m |-> IF i = 0 THEN 0 ELSE f[i - 1] + u[i]]
             e == CHOOSE f : f = F(f)
             t == [i \in 0..m |-> s[i]]
  <2>1. Len(u) = m /\ \A i \in 1..m : u[i] = v[i]
    OBVIOUS
  <2> HIDE DEF u
  <2>2. Total(u) = e[m]
    BY <2>1 DEF Total
  <2>3. t = F(t)
    <3>1. ASSUME NEW i \in 0..m PROVE t[i] = F(t)[i]
      <4>1. CASE i = 0
        BY <1>3, <4>1
      <4>2. CASE i # 0
        <5>1. i \in 1..m /\ i \in 1..n /\ i - 1 \in 0..m
          BY <4>2
        <5> QED BY <1>4, <2>1, <4>2, <5>1
      <4> QED BY <4>1, <4>2
    <3> QED BY <3>1
  <2>4. e = F(e)
    BY <2>3
  <2> HIDE DEF e, t
  <2> DEFINE S == {i \in 0..m : e[i] = s[i]}
  <2>5. 0 \in S
    BY <1>3, <2>4
  <2>6. ASSUME NEW i \in 1..m, i - 1 \in S PROVE i \in S
    <3>1. e[i] = e[i - 1] + u[i]
      BY <2>4
    <3>2. u[i] = v[i] /\ s[i] = s[i - 1] + v[i]
      BY <1>4, <2>1
    <3>3. e[i - 1] = s[i - 1]
      BY <2>6
    <3> QED BY <3>1, <3>2, <3>3
  <2> HIDE DEF S
  <2>7. 0..m \subseteq S
    <3>1. m \in Nat
      OBVIOUS
    <3> QED BY <2>5, <2>6, <3>1, UpTo
  <2>8. m \in S
    BY <2>7
  <2> QED BY <2>2, <2>8 DEF S, u
<1> HIDE DEF begin
<1>6. Total(begin(0)) = 0
  BY <1>3, <1>5
<1>7. ASSUME NEW i \in 1..n PROVE Total(begin(i)) = Total(begin(i - 1)) + v[i]
  <2>1. i \in 0..n /\ i - 1 \in 0..n
    OBVIOUS
  <2> QED BY <1>4, <1>5, <2>1
<1> QED BY <1>6, <1>7 DEF begin

\* Training data for a network
DataFits(net, d) ==
  /\ d.input \in Matrix /\ d.output \in Matrix /\ d.input.rows >= 1 /\ d.output.rows = d.input.rows
  /\ d.input.cols = net.l[1] /\ d.output.cols = net.l[L(net)]

X(d, i) == D!get_row(d.input, i - 1)
Y(d, i) == D!get_row(d.output, i - 1)

LEMMA RowsFit ==
  ASSUME NEW net, NEW d, DataFits(net, d), NEW i \in 1..d.input.rows
  PROVE  X(d, i) \in Ints(net.l[1]) /\ Y(d, i) \in Ints(net.l[L(net)])
<1>1. i - 1 \in 0..(d.input.rows - 1) /\ i - 1 \in 0..(d.output.rows - 1)
  BY DEF DataFits, Matrix
<1>2. get_row(d.input, i - 1) \in Ints(net.l[1]) /\ get_row(d.output, i - 1) \in Ints(net.l[L(net)])
  BY <1>1, LinesAre DEF DataFits, Ints
<1>3. X(d, i) = get_row(d.input, i - 1) /\ Y(d, i) = get_row(d.output, i - 1)
  BY DEF X, Y, D!get_row, get_row, D!At, At
<1> QED BY <1>2, <1>3

\* The derivative of the cost of a row
Slope(net, d, i, k, r, c) ==
  D!dot_product(D!scalar_product(2, D!vector_difference(Result(forward(net, X(d, i))), Y(d, i))),
                Speeds(forward(net, X(d, i)), k, r, c))

LEMMA SlopeIs ==
  ASSUME NEW net, IsNet(net), NEW d, DataFits(net, d), NEW i \in 1..d.input.rows,
         NEW k, NEW r, NEW c, Parameter(net, k, r, c)
  PROVE  Slope(net, d, i, k, r, c) \in Int
<1> DEFINE f == forward(net, X(d, i))
           n == L(f)
           u == D!scalar_product(2, D!vector_difference(Result(f), Y(d, i)))
           w == Speeds(f, k, r, c)
<1>1. IsNet(f) /\ Warm(f) /\ f.l = net.l
  BY RowsFit, ForwardIs DEF SameNet
<1>2. n = L(net) /\ Parameter(f, k, r, c)
  <2> HIDE DEF f
  <2> QED BY <1>1 DEF L, Parameter
<1> HIDE DEF f
<1>3. Y(d, i) \in Ints(f.l[n])
  BY <1>1, <1>2, RowsFit
<1>4. u \in Ints(f.l[n])
  <2>1. OfCost(f, Y(d, i)) \in Ints(f.l[n]) /\ OfCost(f, Y(d, i)) = u
    BY <1>1, <1>3, CostFits
  <2> QED BY <2>1
<1>5. w \in Ints(f.l[n]) /\ f.l[n] \in Nat
  BY <1>1, <1>2, SpeedsEnd, SpeedsAre, LayersAre
<1> HIDE DEF u, w
<1>6. D!dot_product(u, w) \in Int
  BY <1>4, <1>5, DotIs
<1> QED BY <1>6 DEF u, w, f, Slope

\* A gradient holds the derivatives of the cost of the first rows.
Sums(net, d, grad, n) ==
  \A k, r, c : Parameter(net, k, r, c) =>
    Entry(grad, k, r, c) = Total([i \in 1..n |-> Slope(net, d, i, k, r, c)])

\* It begins with none of them,
LEMMA SumsBegin ==
  ASSUME NEW net, NEW d, NEW grad,
         \A k, r, c : Parameter(net, k, r, c) => Entry(grad, k, r, c) = 0
  PROVE  Sums(net, d, grad, 0)
<1>1. ASSUME NEW k, NEW r, NEW c, Parameter(net, k, r, c)
      PROVE  Entry(grad, k, r, c) = Total([i \in 1..0 |-> Slope(net, d, i, k, r, c)])
  <2>1. 0 \in Nat /\ [j \in 1..0 |-> 0] \in Ints(0)
    BY DEF Ints
  <2>2. Total([j \in 1..0 |-> [m \in 1..0 |-> 0][j]]) = 0
    BY <2>1, TotalsGrow
  <2>3. [j \in 1..0 |-> [m \in 1..0 |-> 0][j]] = [i \in 1..0 |-> Slope(net, d, i, k, r, c)]
    OBVIOUS
  <2> QED BY <1>1, <2>2, <2>3
<1> QED BY <1>1 DEF Sums

\* ... and with a row that finds it as it began, or that needs nothing of it, comes one more.
LEMMA SumsGrow ==
  ASSUME NEW net, IsNet(net), NEW d, DataFits(net, d), NEW grad, IsNet(grad), grad.l = net.l,
         Fresh(net, grad), NEW n \in 1..d.input.rows, Sums(net, d, grad, n - 1)
  PROVE  Sums(net, d, Backpropagated(forward(net, X(d, n)), grad, Y(d, n)), n)
<1> DEFINE f == forward(net, X(d, n))
           y == Y(d, n)
           g == Backpropagated(f, grad, y)
<1>1. IsNet(f) /\ Warm(f) /\ f.l = net.l
  BY RowsFit, ForwardIs DEF SameNet
<1>2. y \in Ints(net.l[L(net)])
  BY RowsFit
<1>3. ASSUME NEW k, NEW r, NEW c
      PROVE  Slope(net, d, n, k, r, c)
               = D!dot_product(D!scalar_product(2, D!vector_difference(Result(f), y)), Speeds(f, k, r, c))
  BY DEF Slope
<1> HIDE DEF f, y
<1>4. L(f) = L(net) /\ Fresh(f, grad) /\ grad.l = f.l /\ y \in Ints(f.l[L(f)])
  BY <1>1, <1>2 DEF L, Fresh
<1>5. Gathers(f, grad)
  BY <1>1, <1>4, FreshGathers
<1>6. ASSUME NEW k, NEW r, NEW c, Parameter(net, k, r, c)
      PROVE  Entry(g, k, r, c) = Total([i \in 1..n |-> Slope(net, d, i, k, r, c)])
  <2> DEFINE N == d.input.rows
             v == [i \in 1..N |-> Slope(net, d, i, k, r, c)]
  <2>1. N \in Nat /\ n \in 1..N
    BY DEF DataFits, Matrix
  <2>2. v \in Ints(N)
    BY <1>6, SlopeIs DEF Ints
  <2>3. Parameter(f, k, r, c)
    BY <1>1, <1>4, <1>6 DEF Parameter
  <2>4. Entry(g, k, r, c) = Entry(grad, k, r, c) + Deltas(f, grad, y)[k + 1][r] * Factor(f, k, c)
    BY <1>1, <1>4, <1>5, <2>3, RowAdds
  <2>5. Deltas(f, grad, y)[k + 1][r] * Factor(f, k, c) = Slope(net, d, n, k, r, c)
    BY <1>1, <1>3, <1>4, <2>3, Adjoint
  <2>6. Entry(grad, k, r, c) = Total([i \in 1..(n - 1) |-> Slope(net, d, i, k, r, c)])
    BY <1>6 DEF Sums
  <2>7. /\ [i \in 1..(n - 1) |-> Slope(net, d, i, k, r, c)] = [j \in 1..(n - 1) |-> v[j]]
        /\ [i \in 1..n |-> Slope(net, d, i, k, r, c)] = [j \in 1..n |-> v[j]]
        /\ v[n] = Slope(net, d, n, k, r, c)
    BY <2>1
  <2> HIDE DEF v, N, g
  <2>8. Total([j \in 1..n |-> v[j]]) = Total([j \in 1..(n - 1) |-> v[j]]) + v[n]
    BY <2>1, <2>2, TotalsGrow
  <2> QED BY <2>4, <2>5, <2>6, <2>7, <2>8, Zenon
<1>7. Sums(net, d, g, n)
  BY <1>6 DEF Sums
<1> QED BY <1>7 DEF g, f, y

\* They are the same for a network with the same parameters.
LEMMA SumsSame ==
  ASSUME NEW net, IsNet(net), NEW other, IsNet(other), SameNet(net, other), NEW d, NEW grad, NEW n,
         Sums(net, d, grad, n)
  PROVE  Sums(other, d, grad, n)
<1>1. \A i, k, r, c : Slope(net, d, i, k, r, c) = Slope(other, d, i, k, r, c)
  BY ForwardSame DEF Slope
<1>2. \A k, r, c : Parameter(net, k, r, c) = Parameter(other, k, r, c)
  BY DEF Parameter, SameNet, L
<1>3. ASSUME NEW k, NEW r, NEW c, Parameter(other, k, r, c)
      PROVE  Entry(grad, k, r, c) = Total([i \in 1..n |-> Slope(other, d, i, k, r, c)])
  <2>1. Entry(grad, k, r, c) = Total([i \in 1..n |-> Slope(net, d, i, k, r, c)])
    BY <1>2, <1>3 DEF Sums
  <2>2. [i \in 1..n |-> Slope(net, d, i, k, r, c)] = [i \in 1..n |-> Slope(other, d, i, k, r, c)]
    BY <1>1
  <2> QED BY <2>1, <2>2
<1> QED BY <1>3 DEF Sums

-----------------------------------------------------------------------------
(* Training *)

\* One row of data, or no layer in between: no row finds what another left for a layer.
Alone == data.input.rows = 1 \/ L(model) = 2

Learning ==
  stage \in {"rows", "done"} =>
    /\ IsNet(gradient) /\ gradient.l = model.l /\ Gathers(model, gradient)
    /\ row \in 1..(data.input.rows + 1)
    /\ stage = "rows" /\ row = 1 => Fresh(model, gradient)
    /\ stage = "done" => row = data.input.rows + 1
    /\ Alone => Sums(model, data, gradient, row - 1)

NetInv ==
  /\ stage \in {"idle", "ready", "rows", "done"} /\ fault # "unwarmed"
  /\ IsNet(model) /\ DataFits(model, data)
  /\ stage # "idle" => Warm(model)
  /\ Learning

\* The data still fits a network with the same layers.
LEMMA SameLayers ==
  ASSUME NEW net, NEW other, net.l = other.l
  PROVE  /\ L(net) = L(other) /\ \A d : DataFits(net, d) = DataFits(other, d)
         /\ \A grad : Gathers(net, grad) = Gathers(other, grad) /\ Fresh(net, grad) = Fresh(other, grad)
<1>1. L(net) = L(other)
  BY DEF L
<1> QED BY <1>1, Zenon DEF DataFits, Gathers, Fresh

LEMMA NetBegins == NetInit => NetInv
<1> SUFFICES ASSUME NetInit PROVE NetInv
  OBVIOUS
<1>1. PICK net \in Networks : model = ann(net)
  BY DEF NetInit
<1>2. IsNet(model)
  BY <1>1, AnnIs
<1>3. DataFits(model, data)
  <2>1. /\ data \in TrainingSets /\ data.input.rows = data.output.rows
        /\ data.input.cols = model.l[1] /\ data.output.cols = model.l[L(model)]
    BY DEF NetInit
  <2>2. IsMatrix(data.input) /\ IsMatrix(data.output) /\ data.input.rows > 0
    BY <2>1, NetworksAssumption
  <2>3. data.input \in Matrix /\ data.output \in Matrix
    BY <2>1, <2>2, WeightsAre
  <2>4. data.input.rows >= 1
    BY <2>2, <2>3 DEF Matrix
  <2> QED BY <2>1, <2>3, <2>4 DEF DataFits
<1>4. stage = "idle" /\ fault = "none"
  BY DEF NetInit
<1> QED BY <1>2, <1>3, <1>4 DEF NetInv, Learning

LEMMA BindStep == ASSUME NetInv, bind_affine_layer PROVE NetInv'
<1>1. /\ stage = "idle" /\ stage' = "idle" /\ data' = data /\ fault = "none"
  BY DEF bind_affine_layer, Running
<1>2. PICK k \in 1..(L(model) + 1), other \in Networks :
        /\ other.l = model.l
        /\ IF k < L(model)
           THEN /\ model' = [model EXCEPT !.W[k] = other.W[k], !.b[k] = other.b[k]]
                /\ UNCHANGED fault
           ELSE fault' = (IF k > L(model) THEN "assertion" ELSE "bound_last") /\ UNCHANGED model
  BY DEF bind_affine_layer
<1>3. IsNet(model) /\ DataFits(model, data) /\ L(model) \in Nat
  BY LayersAre DEF NetInv
<1>4. IsNet(model') /\ model'.l = model.l
  <2>1. CASE k < L(model)
    <3>1. k \in 1..(L(model) - 1)
      BY <1>3, <2>1
    <3> DEFINE f == [model EXCEPT !.W[k] = other.W[k], !.b[k] = other.b[k]]
    <3>2. model' = f
      BY <1>2, <2>1
    <3>3. IsNet(f) /\ f.l = model.l
      BY <1>2, <1>3, <3>1, BindIs, Zenon
    <3> HIDE DEF f
    <3> QED BY <3>2, <3>3
  <2>2. CASE ~(k < L(model))
    BY <1>2, <1>3, <2>2
  <2> QED BY <2>1, <2>2
<1>5. DataFits(model', data')
  BY <1>1, <1>3, <1>4, SameLayers
<1>6. fault' # "unwarmed"
  BY <1>1, <1>2
<1> QED BY <1>1, <1>4, <1>5, <1>6 DEF NetInv, Learning

LEMMA CostStep == ASSUME NetInv, compute_cost PROVE NetInv'
<1>1. /\ model' = forward(model, X(data, data.input.rows)) /\ stage' = "ready"
      /\ data' = data /\ fault' = fault
  BY DEF compute_cost, Input, Rows, X
<1>2. IsNet(model) /\ DataFits(model, data) /\ fault # "unwarmed"
  BY DEF NetInv
<1>3. data.input.rows \in 1..data.input.rows
  BY <1>2 DEF DataFits, Matrix
<1>4. X(data, data.input.rows) \in Ints(model.l[1])
  BY <1>2, <1>3, RowsFit
<1>5. IsNet(model') /\ Warm(model') /\ model'.l = model.l
  BY <1>1, <1>2, <1>4, ForwardIs DEF SameNet
<1>6. DataFits(model', data')
  BY <1>1, <1>2, <1>5, SameLayers
<1> QED BY <1>1, <1>2, <1>5, <1>6 DEF NetInv, Learning

LEMMA ZeroStep == ASSUME NetInv, backpropogate PROVE NetInv'
<1>1. /\ stage = "ready" /\ gradient' = zero(model) /\ row' = 1 /\ stage' = "rows"
      /\ model' = model /\ data' = data /\ fault' = fault
  BY DEF backpropogate
<1>2. IsNet(model) /\ DataFits(model, data) /\ fault # "unwarmed" /\ Warm(model)
  BY <1>1 DEF NetInv
<1>3. /\ IsNet(gradient') /\ gradient'.l = model.l /\ Fresh(model, gradient')
      /\ \A k, r, c : Parameter(model, k, r, c) => Entry(gradient', k, r, c) = 0
  BY <1>1, <1>2, ZeroIs
<1>4. Gathers(model, gradient')
  BY <1>2, <1>3, FreshGathers
<1>5. Sums(model, data, gradient', 0)
  BY <1>3, SumsBegin
<1>6. 1 \in 1..(data.input.rows + 1) /\ 1 - 1 = 0
  BY <1>2 DEF DataFits, Matrix
<1>7. Learning'
  BY <1>1, <1>3, <1>4, <1>5, <1>6 DEF Learning
<1> QED BY <1>1, <1>2, <1>7 DEF NetInv

LEMMA RowStep == ASSUME NetInv, NextRow PROVE NetInv'
<1> DEFINE n == row
           f == forward(model, X(data, n))
<1>1. /\ stage = "rows" /\ n <= data.input.rows /\ model' = f /\ row' = n + 1
      /\ data' = data /\ stage' = stage
      /\ IF Unwarmed(gradient) THEN fault' = "unwarmed" /\ UNCHANGED gradient
         ELSE gradient' = Backpropagated(f, gradient, Y(data, n)) /\ UNCHANGED fault
  BY DEF NextRow, Rows, Input, Output, X, Y
<1>2. /\ IsNet(model) /\ DataFits(model, data) /\ fault # "unwarmed" /\ Warm(model)
      /\ IsNet(gradient) /\ gradient.l = model.l /\ Gathers(model, gradient)
      /\ n \in 1..(data.input.rows + 1)
      /\ n = 1 => Fresh(model, gradient)
      /\ Alone => Sums(model, data, gradient, n - 1)
  BY <1>1 DEF NetInv, Learning
<1>3. n \in 1..data.input.rows /\ data.input.rows \in Nat
  BY <1>1, <1>2 DEF DataFits, Matrix
<1>4. X(data, n) \in Ints(model.l[1]) /\ Y(data, n) \in Ints(model.l[L(model)])
  BY <1>2, <1>3, RowsFit
<1>5. IsNet(f) /\ Warm(f) /\ f.l = model.l /\ SameNet(f, model) /\ L(f) = L(model)
  BY <1>2, <1>4, ForwardIs DEF SameNet, L
<1>6. ~Unwarmed(gradient)
  <2>1. SUFFICES ASSUME L(gradient) > 2, gradient.outputs[2] = <<>> PROVE FALSE
    BY DEF Unwarmed
  <2>2. L(gradient) = L(model) /\ L(model) \in Nat
    BY <1>2, LayersAre DEF L
  <2>3. 2 \in 2..(L(model) - 1) /\ 2 \in 1..L(model)
    BY <2>1, <2>2
  <2>4. gradient.outputs[2] \in [1..model.l[2] -> Int] /\ model.l[2] \in Nat \ {0}
    BY <1>2, <2>3, LayersAre DEF Gathers, Ints
  <2>5. 1 \in DOMAIN gradient.outputs[2]
    BY <2>4
  <2> QED BY <2>1, <2>5
<1>7. gradient' = Backpropagated(f, gradient, Y(data, n)) /\ fault' = fault
  BY <1>1, <1>6
<1>8. Gathers(f, gradient) /\ gradient.l = f.l /\ Y(data, n) \in Ints(f.l[L(f)])
  BY <1>2, <1>4, <1>5, SameLayers
<1>9. /\ IsNet(gradient') /\ gradient'.l = f.l
      /\ \A k \in 2..L(f) : gradient'.outputs[k] \in Ints(f.l[k])
  <2> HIDE DEF f
  <2> QED BY <1>2, <1>5, <1>7, <1>8, RowAdds
<1>10. Gathers(f, gradient')
  <2>1. L(f) \in Nat
    BY <1>5, LayersAre
  <2> QED BY <1>9, <2>1 DEF Gathers
<1>11. ASSUME Alone PROVE Sums(f, data, gradient', n)
  <2>1. Fresh(model, gradient)
    <3>1. CASE data.input.rows = 1
      BY <1>2, <1>3, <3>1
    <3>2. CASE L(model) = 2
      BY <3>2 DEF Fresh
    <3> QED BY <1>11, <3>1, <3>2 DEF Alone
  <2>2. Sums(model, data, gradient', n)
    BY <1>2, <1>3, <1>7, <1>11, <2>1, SumsGrow
  <2>3. SameNet(model, f)
    BY <1>5 DEF SameNet
  <2> HIDE DEF f
  <2> QED BY <1>2, <1>5, <2>2, <2>3, SumsSame
<1> HIDE DEF f
<1>12. Alone' => Alone
  BY <1>1, <1>5 DEF Alone
<1>13. /\ row' \in 1..(data'.input.rows + 1) /\ row' # 1 /\ row' - 1 = n
  BY <1>1, <1>3
<1>14. Learning'
  <2>1. stage' = "rows" /\ model' = f /\ data' = data
    BY <1>1
  <2>2. gradient'.l = model'.l /\ Gathers(model', gradient')
    BY <1>9, <1>10, <2>1
  <2>3. Alone' => Sums(model', data', gradient', row' - 1)
    BY <1>11, <1>12, <1>13, <2>1
  <2> QED BY <1>9, <1>13, <2>1, <2>2, <2>3 DEF Learning
<1>15. DataFits(model', data')
  BY <1>1, <1>2, <1>5, SameLayers
<1> QED BY <1>1, <1>2, <1>5, <1>7, <1>14, <1>15 DEF NetInv

LEMMA DivideStep == ASSUME NetInv, Divide PROVE NetInv'
<1>1. /\ stage = "rows" /\ row > data.input.rows /\ stage' = "done"
      /\ model' = model /\ data' = data /\ gradient' = gradient /\ row' = row /\ fault' = fault
  BY DEF Divide, Rows
<1>2. row = data.input.rows + 1
  <2>1. row \in 1..(data.input.rows + 1) /\ data.input \in Matrix
    BY <1>1 DEF NetInv, Learning, DataFits
  <2>2. data.input.rows \in Nat
    BY <2>1 DEF Matrix
  <2> QED BY <1>1, <2>1, <2>2
<1>3. Learning'
  <2>1. Alone' = Alone
    BY <1>1 DEF Alone
  <2> QED BY <1>1, <1>2, <2>1 DEF NetInv, Learning
<1> QED BY <1>1, <1>3 DEF NetInv

LEMMA LearnStep == ASSUME NetInv, learn PROVE NetInv'
<1>1. /\ stage = "done" /\ stage' = "ready" /\ data' = data /\ fault' = fault
      /\ model' = Taught(model, gradient)
  BY DEF learn, Taught
<1>2. /\ IsNet(model) /\ DataFits(model, data) /\ fault # "unwarmed" /\ Warm(model)
      /\ IsNet(gradient) /\ gradient.l = model.l
  BY <1>1 DEF NetInv, Learning
<1>3. IsNet(model') /\ Warm(model') /\ model'.l = model.l
  BY <1>1, <1>2, TaughtIs
<1>4. DataFits(model', data')
  BY <1>1, <1>2, <1>3, SameLayers
<1> QED BY <1>1, <1>2, <1>3, <1>4 DEF NetInv, Learning

\* What is held in the end is the gradient.
LEMMA SumsAreGradient ==
  ASSUME NetInv
  PROVE  OneSampleGradientIsExact
<1>1. ASSUME stage = "done", Rows = 1 \/ L(model) = 2 PROVE IsGradient
  <2>1. /\ IsNet(model) /\ DataFits(model, data) /\ row = data.input.rows + 1
        /\ Sums(model, data, gradient, row - 1)
    BY <1>1 DEF NetInv, Learning, Alone, Rows
  <2>2. row - 1 = Rows
    BY <2>1 DEF Rows, DataFits, Matrix
  <2>3. ASSUME NEW k, NEW r, NEW c, Parameter(model, k, r, c)
        PROVE  Entry(gradient, k, r, c) = CostDerivative(k, r, c)
    <3>1. Entry(gradient, k, r, c) = Total([i \in 1..Rows |-> Slope(model, data, i, k, r, c)])
      BY <2>1, <2>2, <2>3 DEF Sums
    <3>2. \A i : Slope(model, data, i, k, r, c) = RowDerivative(i, k, r, c)
      BY DEF Slope, RowDerivative, X, Y, Input, Output
    <3>3. [i \in 1..Rows |-> Slope(model, data, i, k, r, c)] = [i \in 1..Rows |-> RowDerivative(i, k, r, c)]
      BY <3>2
    <3> QED BY <3>1, <3>3, Zenon DEF CostDerivative
  <2>4. ASSUME NEW k \in 1..(L(model) - 1), NEW r \in 1..model.l[k + 1]
        PROVE  /\ gradient.b[k][r] = CostDerivative(k, r, 0)
               /\ \A c \in 1..model.l[k] : D!At(gradient.W[k], r - 1, c - 1) = CostDerivative(k, r, c)
    <3>1. model.l[k] \in Nat
      <4>1. k \in 1..L(model)
        BY <2>1, LayersAre
      <4> QED BY <2>1, <4>1, LayersAre
    <3>2. Parameter(model, k, r, 0) /\ \A c \in 1..model.l[k] : Parameter(model, k, r, c) /\ c # 0
      BY <3>1 DEF Parameter
    <3> QED BY <2>3, <3>2 DEF Entry
  <2> QED BY <2>4, Zenon DEF IsGradient
<1>2. fault # "unwarmed"
  BY DEF NetInv
<1> QED BY <1>1, <1>2 DEF OneSampleGradientIsExact

\* What backpropogate() returns for one row of data, or for a network without a layer in between,
\* is the gradient of the cost, whatever the weights; and nothing is written to a layer without outputs.
THEOREM TrainingFollowsGradient == Spec => []OneSampleGradientIsExact
<1>1. Init => NetInv
  BY NetBegins DEF Init
<1>2. NetInv /\ [Next]_vars => NetInv'
  <2> SUFFICES ASSUME NetInv, [Next]_vars PROVE NetInv'
    OBVIOUS
  <2>1. NetNext \/ UNCHANGED netVars
    BY DEF Next, vars
  <2>2. CASE NetNext
    BY <2>2, BindStep, CostStep, ZeroStep, RowStep, DivideStep, LearnStep
       DEF NetNext, train_simple_model
  <2>3. CASE UNCHANGED netVars
    BY <2>3 DEF netVars, NetInv, Learning, Alone
  <2> QED BY <2>1, <2>2, <2>3
<1>3. NetInv => OneSampleGradientIsExact
  BY SumsAreGradient
<1> QED BY <1>1, <1>2, <1>3, PTL DEF Spec

=============================================================================
