----------------------------- MODULE MCTensorlib -----------------------------
EXTENDS Tensorlib

MatrixOf(rows, cols, elements) == [rows |-> rows, cols |-> cols, data |-> elements]
MCSamples == {identity(2), MatrixOf(2, 2, <<1, -1, 2, 3>>), MatrixOf(2, 2, <<-2, 1, 1, -3>>),
              MatrixOf(1, 2, <<2, -1>>), MatrixOf(2, 1, <<1, 3>>)}

\* Networks with up to three layers of parameters, and one or two rows of data
Elements(n) == CASE n = 1 -> {<<1>>, <<2>>}
                 [] n = 2 -> {<<1, 2>>, <<-1, 2>>}
                 [] n = 4 -> {<<1, -1, 2, 1>>, <<1, 1, 1, -1>>}
Weights(rows, cols) == {MatrixOf(rows, cols, e) : e \in Elements(rows * cols)}
NetworksOf(l) ==
  LET inner == 1..(Len(l) - 1)
      weights == {w \in [inner -> UNION {Weights(l[k + 1], l[k]) : k \in inner}] :
                    \A k \in inner : w[k] \in Weights(l[k + 1], l[k])}
  IN  {[l |-> l, W |-> w, b |-> [k \in inner |-> [i \in 1..l[k + 1] |-> bias]]] :
         w \in weights, bias \in {0, 1}}
MCNetworks == UNION {NetworksOf(l) : l \in {<<1, 1>>, <<2, 1>>, <<1, 1, 1>>, <<2, 2, 1>>, <<1, 2, 1>>, <<1, 1, 2, 1>>}}
MCTrainingSets ==
  {[input |-> i, output |-> o] :
     i \in {MatrixOf(1, 1, <<2>>), MatrixOf(2, 1, <<2, 1>>), MatrixOf(1, 2, <<1, 2>>), MatrixOf(2, 2, <<1, 0, 0, 1>>)},
     o \in {MatrixOf(1, 1, <<1>>), MatrixOf(2, 1, <<1, 0>>)}}

\* Only the part that is used begins in all its states.
Unused == CHOOSE net \in MCNetworks : net.l = <<1, 1>>
MCInit ==
  /\ Init
  /\ part # "network" => model = ann(Unused) /\ data.input = MatrixOf(1, 1, <<2>>)
MCSpec == MCInit /\ [][Next]_vars
=============================================================================
