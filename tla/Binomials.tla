------------------------------ MODULE Binomials ------------------------------
(***************************************************************************)
(* n_choose_k(): binomial coefficients from a table that lives as long as   *)
(* the program and grows to the largest n it was asked for.                 *)
(***************************************************************************)
EXTENDS Integers, Sequences, FiniteSets

CONSTANTS MaxN,        (* bound: the largest n that is asked for *)
          FirstRows,   (* the rows the table begins with: 9 in the code *)
          Wrap         (* how many values natural_t has: 2^64 in the code *)

ASSUME BinomialsAssumption == MaxN \in Nat /\ FirstRows \in Nat \ {0} /\ Wrap \in Nat \ {0, 1}

VARIABLES binomials,   (* the table; its row of n is at n + 1 *)
          answer       (* history: the last question and its answer *)

binomialVars == <<binomials, answer>>

\* The definition: how many subsets of k elements a set of n elements has.
Choose(n, k) == Cardinality({s \in SUBSET (1..n) : Cardinality(s) = k})

\* What of a number is left in a natural_t
Wrapped(x) == x % Wrap

Row(n) == [i \in 1..(n + 1) |-> Wrapped(Choose(n, i - 1))]

BinomialsInit ==
  /\ binomials = [n \in 1..FirstRows |-> Row(n - 1)]
  /\ answer = [n |-> 0, k |-> 0, is |-> 1]

\* The row after this one: ones at its ends, and between them the sums of two neighbours.
RowAfter(row) ==
  [i \in 1..(Len(row) + 1) |-> IF i \in {1, Len(row) + 1} THEN 1 ELSE Wrapped(row[i - 1] + row[i])]

\* Fault: every new row is made from the row the table ended with before.
GrownFromOneRow(table, n) ==
  LET row == RowAfter(table[Len(table)])
  IN  IF n < Len(table) THEN table ELSE table \o [i \in 1..(n + 1 - Len(table)) |-> row]

\* Rows are added until the table has the row of n.
Grown(table, n) ==
  LET grown[s \in 0..(MaxN + 1)] ==
        IF s <= Len(table) THEN table ELSE Append(grown[s - 1], RowAfter(grown[s - 1][s - 1]))
  IN  grown[n + 1]

\* The trivial coefficients do not need the table; of the others, k and n - k, the smaller one
\* is looked up.
n_choose_k(n, k) ==
  LET smaller == IF k > n \div 2 THEN n - k ELSE k
      table == Grown(binomials, n)
  IN  IF k > n \/ k \in {0, n}
      THEN /\ answer' = [n |-> n, k |-> k, is |-> IF k > n THEN 0 ELSE 1]
           /\ UNCHANGED binomials
      ELSE /\ answer' = [n |-> n, k |-> k, is |-> table[n + 1][smaller + 1]]
           /\ binomials' = table

BinomialsNext == \E n, k \in 0..MaxN : n_choose_k(n, k)

-----------------------------------------------------------------------------
\* In whatever order the coefficients are asked for, each answer is the number of subsets, or
\* what a natural_t holds of it: sums that wrapped are carried from row to row, and a number that
\* fits is exact.
CountsSubsets == answer.is = Wrapped(Choose(answer.n, answer.k))
=============================================================================
