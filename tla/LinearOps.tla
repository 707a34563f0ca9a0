------------------------------ MODULE LinearOps ------------------------------
(***************************************************************************)
(* Vectors and matrices, in the two forms the library has them: with sizes  *)
(* the compiler knows, where the arithmetic is exact, and with sizes known  *)
(* at run time (dyn_), where every sum and product below an epsilon becomes *)
(* zero.  A real is an integer and epsilon a number of units, so the        *)
(* rounding of floating point is left out and that of the library is kept.  *)
(* A vector is a sequence; a matrix has its elements row after row.         *)
(***************************************************************************)
EXTENDS Integers, Sequences, SequencesExt

CONSTANT Epsilon    (* default_epsilon() *)

abs(x) == IF x < 0 THEN -x ELSE x
epsilon_zero(x) == abs(x) < Epsilon
Flushed(x) == IF epsilon_zero(x) THEN 0 ELSE x

epsilon_sum(a, b) == Flushed(a + b)
epsilon_difference(a, b) == Flushed(a - b)
epsilon_product(a, b) == Flushed(a * b)

-----------------------------------------------------------------------------
(* Vectors *)

\* The binary operations throw unless the sizes are equal.
dyn_vector_sum(v, w) == [i \in DOMAIN v |-> epsilon_sum(v[i], w[i])]
dyn_vector_difference(v, w) == [i \in DOMAIN v |-> epsilon_difference(v[i], w[i])]
dyn_vector_hadamard_product(v, w) == [i \in DOMAIN v |-> epsilon_product(v[i], w[i])]
dyn_vector_scalar_product(v, s) == [i \in DOMAIN v |-> epsilon_product(v[i], s)]

\* Every product and every partial sum is flushed.
dyn_vector_dot_product(v, w) ==
  LET result[n \in 0..Len(v)] ==
        IF n = 0 THEN 0 ELSE epsilon_sum(result[n - 1], epsilon_product(v[n], w[n]))
  IN  result[Len(v)]

vector_sum(v, w) == [i \in DOMAIN v |-> v[i] + w[i]]
vector_difference(v, w) == [i \in DOMAIN v |-> v[i] - w[i]]
hadamard_product(v, w) == [i \in DOMAIN v |-> v[i] * w[i]]
scalar_product(s, v) == [i \in DOMAIN v |-> s * v[i]]
dot_product(v, w) ==
  LET result[n \in 0..Len(v)] == IF n = 0 THEN 0 ELSE result[n - 1] + v[n] * w[n]
  IN  result[Len(v)]

-----------------------------------------------------------------------------
(* Matrices; rows and columns are counted from 0 *)

\* The matrix with these rows, one after the other
flatten(rows) == [rows |-> Len(rows), cols |-> Len(rows[1]), data |-> FlattenSeq(rows)]

At(m, i, j) == m.data[i * m.cols + j + 1]

get_row(m, i) == [j \in 1..m.cols |-> At(m, i, j - 1)]
get_col(m, j) == [i \in 1..m.rows |-> At(m, i - 1, j)]

dyn_matrix_sum(m, n) == [m EXCEPT !.data = dyn_vector_sum(@, n.data)]
dyn_matrix_difference(m, n) == [m EXCEPT !.data = dyn_vector_difference(@, n.data)]
dyn_matrix_hadamard_product(m, n) == [m EXCEPT !.data = dyn_vector_hadamard_product(@, n.data)]

\* The result has the columns of m; those that n does not have stay zero.  If n has more, the
\* first of them fails the assertion of operator().
dyn_matrix_product(m, n) ==
  flatten([i \in 1..m.rows |-> [j \in 1..m.cols |->
    IF j <= n.cols THEN dyn_vector_dot_product(get_row(m, i - 1), get_col(n, j - 1)) ELSE 0]])

dyn_matrix_vector_product(m, v) ==
  [i \in 1..m.rows |-> dyn_vector_dot_product(get_row(m, i - 1), v)]
dyn_vector_matrix_product(v, m) ==
  [j \in 1..m.cols |-> dyn_vector_dot_product(v, get_col(m, j - 1))]
dyn_matrix_diagonalize(v) ==
  flatten([i \in DOMAIN v |-> [j \in DOMAIN v |-> IF i = j THEN v[i] ELSE 0]])

\* Each row is made of as many elements as there are rows, so the rest of a longer row is zero;
\* with more rows than columns it does not compile.  applied has what fn returns.
apply_to_matrix_elements(m, applied) ==
  [m EXCEPT !.data = [k \in DOMAIN @ |-> IF (k - 1) % m.cols < m.rows THEN applied[k] ELSE 0]]
matrix_sum(m, n) == apply_to_matrix_elements(m, vector_sum(m.data, n.data))
matrix_difference(m, n) == apply_to_matrix_elements(m, vector_difference(m.data, n.data))
matrix_hadamard_product(m, n) == apply_to_matrix_elements(m, hadamard_product(m.data, n.data))

get_matrix_row(m, row) == [j \in 1..m.cols |-> At(m, row, j - 1)]
get_matrix_col(m, col) == [i \in 1..m.rows |-> At(m, i - 1, col)]

\* What apply_matrix_product() makes of m and any n with a row for each column of m; operator*
\* lets only those compile whose product is square.
matrix_product(m, n) ==
  flatten([i \in 1..m.rows |-> [j \in 1..n.cols |->
    dot_product(get_matrix_row(m, i - 1), get_matrix_col(n, j - 1))]])
matrix_vector_product(m, v) == [i \in 1..m.rows |-> dot_product(get_matrix_row(m, i - 1), v)]
identity(n) == flatten([i \in 1..n |-> [j \in 1..n |-> IF i = j THEN 1 ELSE 0]])
=============================================================================
