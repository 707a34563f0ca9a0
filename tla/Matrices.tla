------------------------------- MODULE Matrices -------------------------------
(***************************************************************************)
(* dyn_matrix and dyn_vector as a program uses them: matrices that are      *)
(* constructed, copied, moved from, indexed and combined, in any order.     *)
(***************************************************************************)
EXTENDS LinearOps

CONSTANTS Registers,   (* the variables of the program that hold a matrix *)
          Samples,     (* the matrices it constructs *)
          MaxCalls     (* bound: calls in one behaviour *)

\* The constructors make as many elements as the size says.
ASSUME MatricesAssumption ==
  /\ Epsilon \in Nat \ {0}
  /\ Samples \subseteq [rows : Nat, cols : Nat, data : Seq(Int)]
  /\ \A m \in Samples : Len(m.data) = m.rows * m.cols

VARIABLES mats,        (* the matrix of each register *)
          vec,         (* its vector *)
          call,        (* history: the last call, its operands, how it ended and its result *)
          calls        (* history: how many there were *)

matrixVars == <<mats, vec, call, calls>>

Empty == [rows |-> 0, cols |-> 0, data |-> <<>>]
Column(v) == [rows |-> Len(v), cols |-> 1, data |-> v]

MatricesInit ==
  /\ mats = [r \in Registers |-> Empty] /\ vec = <<>>
  /\ call = [op |-> "none", ended |-> "ok"] /\ calls = 0

-----------------------------------------------------------------------------
\* A failed assertion ends the program.
Calls == calls < MaxCalls /\ call.ended # "asserts" /\ calls' = calls + 1
Quiet(op) == call' = [op |-> op, ended |-> "ok"]

\* The constructors refuse a matrix without rows or columns.
Construct(r) ==
  /\ Calls /\ Quiet("construct")
  /\ \E m \in Samples : m.rows > 0 /\ m.cols > 0 /\ mats' = [mats EXCEPT ![r] = m]
  /\ UNCHANGED vec

Copy(r, s) ==
  /\ Calls /\ Quiet("copy") /\ mats' = [mats EXCEPT ![r] = mats[s]] /\ UNCHANGED vec

\* Fault: what was moved from keeps its size.
MoveKeepsSize(r, s) ==
  /\ Calls /\ Quiet("move") /\ r # s
  /\ mats' = [mats EXCEPT ![r] = mats[s], ![s].data = <<>>]
  /\ UNCHANGED vec

\* What was moved from is empty.
Move(r, s) ==
  /\ Calls /\ Quiet("move") /\ r # s
  /\ mats' = [mats EXCEPT ![r] = mats[s], ![s] = Empty]
  /\ UNCHANGED vec

\* operator() asserts its index.
Set(r, i, j, x) ==
  /\ Calls
  /\ LET inside == i < mats[r].rows /\ j < mats[r].cols
     IN  /\ call' = [op |-> "set", ended |-> IF inside THEN "ok" ELSE "asserts"]
         /\ mats' = IF inside
                    THEN [mats EXCEPT ![r].data[i * mats[r].cols + j + 1] = x]
                    ELSE mats
  /\ UNCHANGED vec

-----------------------------------------------------------------------------
\* The elementwise operations throw on another size; of two empty matrices they construct the
\* result, which is refused.
Elementwises == {"sum", "difference", "hadamard"}
Combined(op, m, n) == CASE op = "sum" -> dyn_matrix_sum(m, n)
                        [] op = "difference" -> dyn_matrix_difference(m, n)
                        [] op = "hadamard" -> dyn_matrix_hadamard_product(m, n)
CombineEnds(m, n) ==
  IF m.rows # n.rows \/ m.cols # n.cols THEN "throws" ELSE IF m.rows = 0 THEN "asserts" ELSE "ok"

\* The product throws unless the rows of n are the columns of m.
ProductEnds(m, n) ==
  IF m.cols # n.rows THEN "throws"
  ELSE IF m.rows = 0 \/ n.cols > m.cols THEN "asserts"
  ELSE "ok"

\* r = op(r, s)
Store(op, r, s, ends, result) ==
  /\ Calls
  /\ call' = [op |-> op, ended |-> ends, m |-> mats[r], n |-> mats[s], result |-> result]
  /\ mats' = [mats EXCEPT ![r] = IF ends = "ok" THEN result ELSE @]
  /\ UNCHANGED vec

Combine(op, r, s) ==
  LET ends == CombineEnds(mats[r], mats[s])
  IN  Store(op, r, s, ends, IF ends = "ok" THEN Combined(op, mats[r], mats[s]) ELSE Empty)

Multiply(r, s) ==
  LET ends == ProductEnds(mats[r], mats[s])
  IN  Store("product", r, s, ends,
            IF ends = "ok" THEN dyn_matrix_product(mats[r], mats[s]) ELSE Empty)

-----------------------------------------------------------------------------
\* The vector is a row or a column; one of an empty matrix, or an index outside, is refused.
Take(op, i, r) ==
  /\ Calls
  /\ LET inside == i < (IF op = "row" THEN mats[r].rows ELSE mats[r].cols)
         taken == IF op = "row" THEN get_row(mats[r], i) ELSE get_col(mats[r], i)
     IN  /\ call' = [op |-> op, ended |-> IF inside THEN "ok" ELSE "asserts"]
         /\ vec' = IF inside THEN taken ELSE vec
  /\ UNCHANGED mats

\* vec = m * vec, vec = vec * m, and diag(vec), which are refused for sizes that differ and
\* for the empty vector
Replace(op, r, ends, result) ==
  /\ Calls
  /\ call' = [op |-> op, ended |-> ends, m |-> mats[r], n |-> Column(vec), result |-> Column(result)]
  /\ vec' = IF ends = "ok" THEN result ELSE vec
  /\ UNCHANGED mats

MatrixTimesVector(r) ==
  LET m == mats[r]
      ends == IF m.cols # Len(vec) THEN "throws" ELSE IF m.rows = 0 THEN "asserts" ELSE "ok"
  IN  Replace("matrix_vector", r, ends, IF ends = "ok" THEN dyn_matrix_vector_product(m, vec) ELSE <<>>)

VectorTimesMatrix(r) ==
  LET m == mats[r]
      ends == IF Len(vec) # m.rows THEN "throws" ELSE IF m.cols = 0 THEN "asserts" ELSE "ok"
  IN  Replace("vector_matrix", r, ends, IF ends = "ok" THEN dyn_vector_matrix_product(vec, m) ELSE <<>>)

\* vec = op(vec, row 0 of r)
Vectors == {"vector_sum", "vector_difference", "vector_hadamard"}
CombinedVectors(op, v, w) == CASE op = "vector_sum" -> dyn_vector_sum(v, w)
                               [] op = "vector_difference" -> dyn_vector_difference(v, w)
                               [] op = "vector_hadamard" -> dyn_vector_hadamard_product(v, w)
CombineVector(op, r) ==
  /\ mats[r].rows > 0
  /\ LET w == get_row(mats[r], 0)
         ends == IF Len(vec) = Len(w) THEN "ok" ELSE "throws"
     IN  Replace(op, r, ends, IF ends = "ok" THEN CombinedVectors(op, vec, w) ELSE <<>>)

Scale(s) ==
  /\ Calls /\ UNCHANGED mats
  /\ IF vec = <<>> THEN call' = [op |-> "scale", ended |-> "throws"] /\ UNCHANGED vec
     ELSE /\ call' = [op |-> "scale", ended |-> "ok", m |-> Column(vec), by |-> s,
                      result |-> Column(dyn_vector_scalar_product(vec, s))]
          /\ vec' = dyn_vector_scalar_product(vec, s)

Diagonalize(r) ==
  /\ Calls /\ UNCHANGED vec
  /\ call' = [op |-> "diagonalize", ended |-> IF vec = <<>> THEN "asserts" ELSE "ok"]
  /\ mats' = [mats EXCEPT ![r] = IF vec = <<>> THEN @ ELSE dyn_matrix_diagonalize(vec)]

MatricesNext ==
  \/ \E r \in Registers :
       \/ \E op \in Vectors : CombineVector(op, r)
       \/ Construct(r) \/ MatrixTimesVector(r) \/ VectorTimesMatrix(r) \/ Diagonalize(r)
       \/ \E s \in Registers :
            \/ Copy(r, s) \/ Move(r, s) \/ Multiply(r, s)
            \/ \E op \in Elementwises : Combine(op, r, s)
       \/ \E i, j \in 0..1 : Set(r, i, j, 1)
       \/ \E i \in 0..1, op \in {"row", "column"} : Take(op, i, r)
  \/ \E s \in {-1, 2} : Scale(s)

-----------------------------------------------------------------------------
\* What the operation of matrix.hpp or vector.hpp returns for the same operands
StaticResult(c) ==
  CASE c.op = "sum" -> matrix_sum(c.m, c.n)
    [] c.op = "difference" -> matrix_difference(c.m, c.n)
    [] c.op = "hadamard" -> matrix_hadamard_product(c.m, c.n)
    [] c.op = "product" -> matrix_product(c.m, c.n)
    [] c.op = "matrix_vector" -> Column(matrix_vector_product(c.m, get_col(c.n, 0)))
    [] c.op = "vector_matrix" -> Column([j \in 1..c.m.cols |-> dot_product(get_col(c.n, 0), get_col(c.m, j - 1))])
    [] c.op = "vector_sum" -> Column(vector_sum(get_col(c.n, 0), get_row(c.m, 0)))
    [] c.op = "vector_difference" -> Column(vector_difference(get_col(c.n, 0), get_row(c.m, 0)))
    [] c.op = "vector_hadamard" -> Column(hadamard_product(get_col(c.n, 0), get_row(c.m, 0)))
    [] c.op = "scale" -> Column(scalar_product(c.by, get_col(c.m, 0)))

\* Each value that is flushed is off by less than epsilon: once for an element, twice for each
\* term of a dot product.
Flushes(c) == CASE c.op = "product" -> 2 * c.m.cols
                [] c.op \in {"matrix_vector", "vector_matrix"} -> 2 * c.n.rows
                [] OTHER -> 1

\* The elements both forms compute: the static one fills as many columns as there are rows, and
\* the product of the dynamic one as many as it has room for.
Both(c) == {e \in (0..(c.result.rows - 1)) \X (0..(c.result.cols - 1)) :
              IF c.op = "product" THEN e[2] < c.n.cols
              ELSE c.op \in Elementwises => e[2] < c.result.rows}

\* After any calls, each matrix has as many elements as its size says; and what the last call
\* computed differs from the exact result of the static form by no more than the flushed
\* values, wherever both compute an element.
DynamicMatchesStatic ==
  /\ \A r \in Registers : Len(mats[r].data) = mats[r].rows * mats[r].cols
  /\ (call.ended = "ok" /\ "result" \in DOMAIN call) =>
       LET static == StaticResult(call)
       IN  \A p \in Both(call) :
             abs(At(call.result, p[1], p[2]) - At(static, p[1], p[2])) <= Flushes(call) * (Epsilon - 1)
=============================================================================
