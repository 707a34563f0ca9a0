------------------------------ MODULE NeuralNet ------------------------------
(***************************************************************************)
(* The feed-forward network and its training: the cost, backpropagation row *)
(* by row of the training data, and the step against the gradient.  Every   *)
(* layer has the activation relu.  Values are integers well above epsilon,  *)
(* so nothing is flushed, and what is divided by the number of rows is kept *)
(* as a sum.                                                                *)
(***************************************************************************)
EXTENDS Integers, Sequences

D == INSTANCE LinearOps WITH Epsilon <- 1

CONSTANTS Networks,     (* the networks that are constructed: sizes, weights and biases *)
          TrainingSets, (* pairs of an input and an output matrix *)
          MaxIterations (* bound: steps of training *)

IsMatrix(m) == m \in [rows : Nat, cols : Nat \ {0}, data : Seq(Int)] /\ Len(m.data) = m.rows * m.cols

ASSUME NetworksAssumption ==
  /\ \A net \in Networks :
       /\ net.l \in Seq(Nat \ {0}) /\ Len(net.l) >= 2
       /\ net.W = [k \in 1..(Len(net.l) - 1) |-> net.W[k]]
       /\ net.b = [k \in 1..(Len(net.l) - 1) |-> net.b[k]]
       /\ \A k \in 1..(Len(net.l) - 1) :
            /\ IsMatrix(net.W[k]) /\ net.W[k].rows = net.l[k + 1] /\ net.W[k].cols = net.l[k]
            /\ net.b[k] \in Seq(Int) /\ Len(net.b[k]) = net.l[k + 1]
  /\ \A d \in TrainingSets : IsMatrix(d.input) /\ IsMatrix(d.output) /\ d.input.rows > 0

VARIABLES model,        (* the network: l_i, W, b, layer_outputs, activated_outputs *)
          data,         (* the training data *)
          gradient,     (* the network backpropogate() makes and returns *)
          row,          (* the row it comes to next *)
          stage,        (* "idle", "rows", or "done" with a gradient that is not used yet *)
          iterations,   (* history: how many steps were taken *)
          fault         (* how the program went wrong: an assertion, or a write out of bounds *)

netVars == <<model, data, gradient, row, stage, iterations, fault>>

\* Layers, and so L, are counted from 1; weight(k) leads from layer k to layer k + 1.
L(net) == Len(net.l)
Rows == data.input.rows

\* ann(): nothing has been put through the network yet.
ann(net) == [l |-> net.l, W |-> net.W, b |-> net.b,
             outputs |-> [k \in 1..L(net) |-> <<>>], activated |-> [k \in 1..L(net) |-> <<>>]]

NetInit ==
  /\ model \in {ann(net) : net \in Networks}
  /\ data \in {d \in TrainingSets : /\ d.input.rows = d.output.rows
                                    /\ d.input.cols = model.l[1] /\ d.output.cols = model.l[L(model)]}
  /\ gradient = model /\ row = 1 /\ stage = "idle" /\ iterations = 0 /\ fault = "none"

-----------------------------------------------------------------------------
relu(v) == [i \in DOMAIN v |-> IF v[i] > 0 THEN v[i] ELSE 0]
relu_derivative(v) == [i \in DOMAIN v |-> IF v[i] > 0 THEN 1 ELSE 0]

\* forward(): the outputs of every layer, and those of every layer but the first activated
forward(net, x) ==
  LET out[k \in 1..L(net)] ==
        IF k = 1 THEN x
        ELSE D!dyn_vector_sum(
               D!dyn_matrix_vector_product(net.W[k - 1], IF k = 2 THEN x ELSE relu(out[k - 1])),
               net.b[k - 1])
  IN  [net EXCEPT !.outputs = [k \in 1..L(net) |-> out[k]],
                  !.activated = [k \in 1..L(net) |-> IF k = 1 THEN x ELSE relu(out[k])]]

Zeros(v) == [i \in DOMAIN v |-> 0]
WithData(m, elements) == [m EXCEPT !.data = elements]

\* zero(), of a copy of the model: outputs that were never computed stay empty.
zero(net) ==
  [net EXCEPT !.W = [k \in DOMAIN @ |-> WithData(@[k], Zeros(@[k].data))],
              !.b = [k \in DOMAIN @ |-> Zeros(@[k])],
              !.outputs = [k \in DOMAIN @ |-> Zeros(@[k])]]

Input(i) == D!get_row(data.input, i - 1)
Output(i) == D!get_row(data.output, i - 1)
Result(net) == net.activated[L(net)]

-----------------------------------------------------------------------------
\* Fault: the outputs of a layer before their activation
LayerInputRaw(net, k) == net.outputs[k]

\* What a layer hands on
LayerInput(net, k) == net.activated[k]

\* The derivatives by the outputs of the layers, from the last one down.  That of a layer in
\* between is added to what the gradient holds there.
Deltas(net, grad, y) ==
  LET delta[k \in 2..L(net)] ==
        LET dc == D!dyn_vector_scalar_product(D!dyn_vector_difference(Result(net), y), 2)
            back == [c \in 1..net.l[k] |-> D!dot_product(D!get_col(net.W[k], c - 1), delta[k + 1])]
        IN  D!dyn_vector_hadamard_product(
              IF k = L(net) THEN dc ELSE D!vector_sum(grad.outputs[k], back),
              relu_derivative(net.outputs[k]))
  IN  delta

\* The loop body of backpropogate() for a row whose outputs the network holds
Backpropagated(net, grad, y) ==
  LET delta == Deltas(net, grad, y)
  IN  [grad EXCEPT
         !.W = [k \in DOMAIN @ |->
                  D!flatten([r \in 1..@[k].rows |-> [c \in 1..@[k].cols |->
                    D!At(@[k], r - 1, c - 1) + delta[k + 1][r] * LayerInput(net, k)[c]]])],
         !.b = [k \in DOMAIN @ |-> D!dyn_vector_sum(@[k], delta[k + 1])],
         !.outputs = [k \in DOMAIN @ |-> IF k = 1 THEN @[k] ELSE delta[k]]]

\* In a network with a layer in between whose gradient has no outputs, they are written anyway.
Unwarmed(net) == L(net) > 2 /\ net.outputs[2] = <<>>

-----------------------------------------------------------------------------
Running == fault = "none"

\* bind_affine_layer() of a layer with the parameters of another network.  The assertion lets
\* the last layer pass, which has no parameters.
bind_affine_layer ==
  /\ Running /\ stage = "idle" /\ iterations = 0
  /\ \E k \in 1..(L(model) + 1), other \in Networks :
       /\ other.l = model.l
       /\ IF k < L(model)
          THEN model' = [model EXCEPT !.W[k] = other.W[k], !.b[k] = other.b[k]] /\ UNCHANGED fault
          ELSE fault' = (IF k > L(model) THEN "assertion" ELSE "bound_last") /\ UNCHANGED model
  /\ UNCHANGED <<data, gradient, row, stage, iterations>>

\* Training begins with compute_cost().  Its value (which counts the error of a row once for each
\* output) is not used, but it leaves the outputs of the last row in the network.
compute_cost ==
  /\ Running /\ stage = "idle" /\ iterations = 0
  /\ model' = forward(model, Input(Rows))
  /\ stage' = "ready"
  /\ UNCHANGED <<data, gradient, row, iterations, fault>>

\* backpropogate(): the gradient begins as a copy of the model ...
backpropogate ==
  /\ Running /\ stage = "ready" /\ iterations < MaxIterations
  /\ gradient' = zero(model) /\ row' = 1 /\ stage' = "rows"
  /\ UNCHANGED <<model, data, iterations, fault>>

\* ... to which each row adds its part,
NextRow ==
  /\ Running /\ stage = "rows" /\ row <= Rows
  /\ model' = forward(model, Input(row))
  /\ IF Unwarmed(gradient) THEN fault' = "unwarmed" /\ UNCHANGED gradient
     ELSE gradient' = Backpropagated(model', gradient, Output(row)) /\ UNCHANGED fault
  /\ row' = row + 1
  /\ UNCHANGED <<data, stage, iterations>>

\* ... and which is divided by the number of rows.
Divide ==
  /\ Running /\ stage = "rows" /\ row > Rows /\ stage' = "done"
  /\ UNCHANGED <<model, data, gradient, row, iterations, fault>>

\* learn(), at a rate that is the number of rows
learn ==
  /\ Running /\ stage = "done"
  /\ model' = [model EXCEPT
                 !.W = [k \in DOMAIN @ |->
                          WithData(@[k], D!vector_difference(@[k].data, gradient.W[k].data))],
                 !.b = [k \in DOMAIN @ |-> D!vector_difference(@[k], gradient.b[k])]]
  /\ stage' = "ready" /\ iterations' = iterations + 1
  /\ UNCHANGED <<data, gradient, row, fault>>

\* The cost once, then a gradient and a step by it, time and again
train_simple_model == compute_cost \/ backpropogate \/ NextRow \/ Divide \/ learn

NetNext == bind_affine_layer \/ train_simple_model

-----------------------------------------------------------------------------
(* The derivative of the cost by one parameter, computed forwards: how fast the outputs of each *)
(* layer change with the parameter.  Column 0 stands for the bias.                              *)

Unit(n, r) == [i \in 1..n |-> IF i = r THEN 1 ELSE 0]

Speeds(net, k, r, c) ==
  LET speed[m \in 1..L(net)] ==
        IF m <= k THEN [i \in 1..net.l[m] |-> 0]
        ELSE D!hadamard_product(
               relu_derivative(net.outputs[m]),
               D!vector_sum(
                 D!matrix_vector_product(net.W[m - 1], speed[m - 1]),
                 IF m = k + 1
                 THEN D!scalar_product(IF c = 0 THEN 1 ELSE net.activated[k][c], Unit(net.l[m], r))
                 ELSE [i \in 1..net.l[m] |-> 0]))
  IN  speed[L(net)]

RowDerivative(i, k, r, c) ==
  LET net == forward(model, Input(i))
  IN  D!dot_product(D!scalar_product(2, D!vector_difference(Result(net), Output(i))),
                    Speeds(net, k, r, c))

\* ... of the cost of all rows
Total(v) ==
  LET total[i \in 0..Len(v)] == IF i = 0 THEN 0 ELSE total[i - 1] + v[i]
  IN  total[Len(v)]
CostDerivative(k, r, c) == Total([i \in 1..Rows |-> RowDerivative(i, k, r, c)])

IsGradient ==
  \A k \in 1..(L(model) - 1) : \A r \in 1..model.l[k + 1] :
    /\ gradient.b[k][r] = CostDerivative(k, r, 0)
    /\ \A c \in 1..model.l[k] : D!At(gradient.W[k], r - 1, c - 1) = CostDerivative(k, r, c)

\* What backpropogate() returns is the gradient of the cost, for any network and data.
GradientIsExact == stage = "done" => IsGradient

\* It is if there is one row of data, or no layer between the first and the last; and training
\* writes nothing out of bounds unless the last layer was bound.
OneSampleGradientIsExact ==
  /\ stage = "done" /\ (Rows = 1 \/ L(model) = 2) => IsGradient
  /\ fault # "unwarmed"
=============================================================================
