-------------------------------- MODULE Graph --------------------------------
(***************************************************************************)
(* The directed graph of tensorlib: a list of weighted edges per node and a *)
(* flag that says whether there may be loops, which the degrees and the     *)
(* sort trust.  A program builds one, changes its edges and asks questions. *)
(* num_edges is left out: no function of the library reads it.              *)
(***************************************************************************)
EXTENDS Integers, Sequences, FiniteSets, SequencesExt

CONSTANTS N,          (* the number of nodes *)
          Weights,    (* the weights edges are given *)
          MaxList,    (* bound: edges per node of a graph that is built from a list *)
          MaxEdges    (* bound: edges of a graph that is built from lists or added to *)

ASSUME GraphAssumption ==
  /\ N \in Nat \ {0} /\ Weights \subseteq Nat \ {0} /\ 1 \in Weights
  /\ MaxList \in Nat /\ MaxEdges \in Nat

VARIABLES has_loops, edges,
          origin      (* history: the function the graph was built by *)

vars == <<has_loops, edges, origin>>

Nodes == 0..(N - 1)
Edge == [to : Nodes, weight : Weights]

\* The position of the first edge to a node, 0 if there is none: std::ranges::find() with
\* the operator== of edges, which ignores the weight.
Find(list, to) == SelectInSeq(list, LAMBDA e : e.to = to)
edge_exists(from, to) == Find(edges[from], to) # 0

SumOf(f) ==
  LET sum[n \in 0..N] == IF n = 0 THEN 0 ELSE sum[n - 1] + f[n - 1]
  IN  sum[N]
SumOver(Op(_)) == SumOf([i \in Nodes |-> Op(i)])
get_node_outdegree(i) == Len(edges[i])
count_edges == SumOver(get_node_outdegree)

Lists == UNION {[1..k -> Nodes] : k \in 0..MaxList}
FromLists(adj) == [i \in Nodes |-> [k \in DOMAIN adj[i] |-> [to |-> adj[i][k], weight |-> 1]]]
HasLoop == \E i \in Nodes : edge_exists(i, i)

\* new_graph() and empty_graph()
NewGraph ==
  /\ origin = "new_graph" /\ has_loops = FALSE
  /\ \E adj \in [Nodes -> Lists] : edges = FromLists(adj)
  /\ count_edges <= MaxEdges

\* get_Kn()
Kn ==
  /\ origin = "get_Kn" /\ has_loops = FALSE
  /\ \E with_loops \in BOOLEAN :
       edges = [i \in Nodes |->
                 [k \in 1..(IF with_loops THEN N ELSE N - 1) |->
                    [to |-> IF with_loops \/ k <= i THEN k - 1 ELSE k, weight |-> 1]]]

\* read_graph_from_flatbuffer(): the network graph of a simulation's configuration
Loaded ==
  /\ origin = "loaded"
  /\ edges \in [Nodes -> UNION {[1..k -> Edge] : k \in 0..MaxList}]
  /\ has_loops = HasLoop
  /\ count_edges <= MaxEdges

Init == NewGraph \/ Kn \/ Loaded

-----------------------------------------------------------------------------
\* Fault: an edge that exists is added once more.
PutAgain(list, to, w) == Append(list, [to |-> to, weight |-> w])

\* An edge that exists gets the weight, another one is appended.
Put(list, to, w) ==
  LET i == Find(list, to)
  IN  IF i = 0 THEN Append(list, [to |-> to, weight |-> w]) ELSE [list EXCEPT ![i].weight = w]

\* Fault: a forced loop is not recorded.
AddEdgeUnflagged(from, to, w, force) ==
  /\ from # to \/ has_loops \/ force
  /\ edges' = [edges EXCEPT ![from] = Put(@, to, w)]
  /\ count_edges' <= MaxEdges
  /\ UNCHANGED <<has_loops, origin>>

\* add_edge() and set_edge_weight(), unless they refuse a loop
AddEdge(from, to, w, force) ==
  /\ from # to \/ has_loops \/ force
  /\ edges' = [edges EXCEPT ![from] = Put(@, to, w)]
  /\ count_edges' <= MaxEdges
  /\ has_loops' = (has_loops \/ (from = to /\ ~edge_exists(from, to)))
  /\ UNCHANGED origin

\* Fault: the weight of an edge is cleared instead.
RemoveEdgeClears(from, to) ==
  /\ edge_exists(from, to)
  /\ edges' = [edges EXCEPT ![from][Find(edges[from], to)].weight = 0]
  /\ UNCHANGED <<has_loops, origin>>

\* remove_edge() of an edge that exists; the flag is left as it is
RemoveEdge(from, to) ==
  /\ edge_exists(from, to)
  /\ edges' = [edges EXCEPT ![from] = RemoveAt(@, Find(@, to))]
  /\ UNCHANGED <<has_loops, origin>>

\* set_loop_weights()
SetLoopWeights(w) ==
  /\ edges' = [i \in Nodes |-> Put(edges[i], i, w)]
  /\ count_edges' <= MaxEdges
  /\ has_loops' = TRUE
  /\ UNCHANGED origin

Next ==
  \/ \E from, to \in Nodes, w \in Weights, force \in BOOLEAN : AddEdge(from, to, w, force)
  \/ \E from, to \in Nodes : RemoveEdge(from, to)
  \/ \E w \in Weights : SetLoopWeights(w)

Spec == Init /\ [][Next]_vars

-----------------------------------------------------------------------------
(* Queries *)

EdgesTo(i, from) == {k \in DOMAIN edges[from] : edges[from][k].to = i}

\* Fault: loops are never counted.
IndegreeNoLoops(i) ==
  SumOver(LAMBDA from : IF from = i THEN 0 ELSE Cardinality(EdgesTo(i, from)))

get_node_indegree(i) ==
  SumOver(LAMBDA from : IF from = i /\ ~has_loops THEN 0 ELSE Cardinality(EdgesTo(i, from)))
get_node_degree(i) == get_node_outdegree(i) + get_node_indegree(i)

get_edge_weight(from, to) ==
  IF edge_exists(from, to) THEN edges[from][Find(edges[from], to)].weight ELSE 0

\* The matrix is filled in the order of the edges, so a later edge overwrites an earlier one.
get_adjacency_matrix ==
  [i \in Nodes |-> [j \in Nodes |->
     LET k == SelectLastInSeq(edges[i], LAMBDA e : e.to = j)
     IN  IF k = 0 THEN 0 ELSE edges[i][k].weight]]

-----------------------------------------------------------------------------
(* topological_sort().  A loop of the code is the function of what holds after each of its steps. *)

Marks == [temp : SUBSET Nodes, perm : SUBSET Nodes, sorted : Seq(Nodes), cycle : BOOLEAN]

\* Fault: a node that is marked but not listed is visited again.
MarkedWhenListed(m, node) == node \in m.perm

Marked(m, node) == node \in m.temp

\* The edges of a node are followed: what they lead to is visited unless it is marked.
Follow(list, visit, m) ==
  LET after[k \in 0..Len(list)] ==
        IF k = 0 THEN m
        ELSE LET acc == after[k - 1]
             IN  IF Marked(acc, list[k].to) THEN acc ELSE visit[list[k].to][acc]
  IN  after[Len(list)]

\* topo_sort_dfs_visit_node(): a node is marked, what it leads to is visited, then it is listed.
\* The recursion is as deep as there are nodes left to mark.
Visit ==
  LET visit[depth \in 0..N] ==
        [node \in Nodes |-> [m \in Marks |->
          LET marked == [m EXCEPT !.temp = @ \cup {node}]
              after == IF depth = 0 THEN marked ELSE Follow(edges[node], visit[depth - 1], marked)
          IN  [after EXCEPT !.perm = @ \cup {node}, !.sorted = Append(@, node)]]]
  IN  visit[N]

\* Depth first.  The first node that is not listed is visited next; one that is marked but not
\* listed would be on a cycle.
DepthFirst ==
  LET after[n \in 0..N] ==
        IF n = 0 THEN [temp |-> {}, perm |-> {}, sorted |-> <<>>, cycle |-> FALSE]
        ELSE LET m == after[n - 1]
             IN  IF m.cycle \/ n - 1 \in m.perm THEN m
                 ELSE IF n - 1 \in m.temp THEN [m EXCEPT !.cycle = TRUE]
                 ELSE Visit[n - 1][m]
  IN  after[N]

\* Fault: the edge stays in the copy.
CutNothing(w, node, k) == w

Cut(w, node, k) == [w EXCEPT !.copy[node] = RemoveAt(@, k)]

\* A node is taken from the stack and its edges are removed from the copy of the graph; a node
\* they led to is pushed if its indegree, taken in the graph itself, is 0.
Take(w) ==
  LET node == Last(w.stack)
      after[n \in 0..N] ==
        IF n = 0 THEN [w EXCEPT !.stack = Front(@), !.sorted = Append(@, node)]
        ELSE LET acc == after[n - 1]
                 k == Find(acc.copy[node], n - 1)
                 cut == Cut(acc, node, k)
             IN  IF acc.copy[n - 1] = <<>> \/ k = 0 THEN acc
                 ELSE IF get_node_indegree(n - 1) # 0 THEN cut
                 ELSE [cut EXCEPT !.stack = Append(@, n - 1), !.cleared = @ + 1]
  IN  after[N]

\* The nodes without edges to them, on a stack
Roots ==
  LET found[n \in 0..N] ==
        IF n = 0 THEN <<>>
        ELSE LET before == found[n - 1]
             IN  IF get_node_indegree(n - 1) = 0 THEN Append(before, n - 1) ELSE before
  IN  found[N]

\* Kahn.  A node is taken at most once for each edge that is removed and once as a root.
Kahn ==
  LET after[n \in 0..(N + count_edges)] ==
        IF n = 0 THEN [copy |-> edges, stack |-> Roots, sorted |-> <<>>, cleared |-> 0]
        ELSE LET w == after[n - 1] IN IF w.stack = <<>> THEN w ELSE Take(w)
  IN  after[N + count_edges]

\* The order, and how many nodes were pushed on the way
Sorted ==
  IF Roots = <<>> THEN <<IF DepthFirst.cycle THEN <<>> ELSE DepthFirst.sorted, 0>>
  ELSE <<Kahn.sorted, Kahn.cleared>>

topological_sort ==
  IF has_loops \/ Len(Sorted[1]) # N \/ Sorted[2] = N THEN <<>> ELSE Sorted[1]

has_cycle == topological_sort = <<>>

-----------------------------------------------------------------------------
(* Properties *)

TypeOK ==
  /\ has_loops \in BOOLEAN
  /\ edges \in [Nodes -> Seq(Edge)]
  /\ origin \in {"new_graph", "get_Kn", "loaded"}

Flagged == HasLoop => has_loops
Simple == \A i \in Nodes : \A k, l \in DOMAIN edges[i] : edges[i][k].to = edges[i][l].to => k = l

\* No sequence of calls makes a loop the flag does not tell of, however the loop is forced in,
\* removed and set again: only new_graph() and get_Kn() build such graphs.
LoopsAreFlagged == origin = "loaded" => Flagged

\* ... nor two edges between the same nodes: those come from the lists of a constructor.
StaysSimple == [][Simple => Simple']_vars

\* Where edges are unique the two ways to read a weight agree; where the flag tells the truth
\* every edge is counted once at its start and once at its end.
QueriesAgree ==
  /\ Simple => \A i, j \in Nodes : get_adjacency_matrix[i][j] = get_edge_weight(i, j)
  /\ Flagged => SumOver(get_node_degree) = 2 * count_edges

\* The loop over the stack ends: whatever is pushed again, an edge of the copy is gone for it.
SortEnds == Kahn.stack = <<>>

\* A sort that is not empty lists every node exactly once. (With a loop the flag does not tell
\* of, a node may be listed twice and another one not at all.)
SortListsEveryNode == topological_sort # <<>> => ToSet(topological_sort) = Nodes

\* What decides is whether a node has no edges to it: without one every graph is sorted, however
\* cyclic, and with one none is that has an edge, however acyclic.
SortGoesByRoots == ~has_loops => (topological_sort # <<>> <=> Roots = <<>> \/ count_edges = 0)

\* What the sort comes to: it ends on every graph; that of a graph whose flag was right from the
\* start has every node or none, and goes by the nodes without edges to them.
SortOutcome == SortEnds /\ (origin = "loaded" => SortListsEveryNode /\ SortGoesByRoots)

\* graph.cpp:277 says of the sort "if we have a cycle, return empty".
G == INSTANCE Graphs
AsGraph == [node |-> Nodes, edge |-> {e \in Nodes \X Nodes : edge_exists(e[1], e[2])}]
CycleIsNotSorted == G!HasCycle(AsGraph) => topological_sort = <<>>
=============================================================================
