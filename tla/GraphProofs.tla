----------------------------- MODULE GraphProofs -----------------------------
(***************************************************************************)
(* Proofs about the graph, for every number of nodes, all weights and lists *)
(* of edges of every length: the type invariant, that the flag of a graph   *)
(* that was loaded tells the truth about loops, that no call puts two edges *)
(* between the same nodes of a graph that has none, that the questions      *)
(* agree with each other, that the sort ends, and when it returns an order. *)
(* They rest on what the search for an edge returns, on what adding and     *)
(* removing one make of the list of a node, on sums over the nodes, and on  *)
(* what holds after each step of a loop.                                    *)
(***************************************************************************)
EXTENDS Graph, FiniteSetTheorems, WellFoundedInduction, TLAPS

\* The library states that the order of the naturals is well founded of an operator; as a set
\* of pairs it can be used by the provers.
Less == {p \in Nat \X Nat : p[1] < p[2]}

LEMMA NatLess == IsWellFoundedOn(Less, Nat)
BY NatLessThanWellFounded DEF OpToRel, Less

\* The smallest element of a set of naturals exists.
LEMMA LeastIndex ==
  ASSUME NEW S \in SUBSET Nat, S # {}
  PROVE  Min(S) \in S
<1>1. ASSUME NEW y \in Nat, NEW z \in Nat, y < z PROVE <<y, z>> \in Less
  BY <1>1 DEF Less
<1>2. PICK x \in S : \A y \in S : ~(<<y, x>> \in Less)
  BY NatLess, WFMin
<1>3. ASSUME NEW y \in S PROVE x <= y
  <2>1. ~(y < x)
    BY <1>1, <1>2
  <2> QED BY <2>1
<1> QED BY <1>3 DEF Min

-----------------------------------------------------------------------------
(* What the operations make of the list of a node *)

Leads(list, to) == \E k \in DOMAIN list : list[k].to = to
Unique(list) == \A k, l \in DOMAIN list : list[k].to = list[l].to => k = l

\* Find() (std::ranges::find) returns the place of an edge to the node, and 0 only when there
\* is none.
LEMMA FindFinds ==
  ASSUME NEW list \in Seq(Edge), NEW to \in Nodes
  PROVE  /\ Find(list, to) \in 0..Len(list)
         /\ Find(list, to) # 0 => list[Find(list, to)].to = to
         /\ (Find(list, to) # 0) <=> Leads(list, to)
<1> DEFINE S == {k \in 1..Len(list) : list[k].to = to}
<1>1. Find(list, to) = IF S # {} THEN Min(S) ELSE 0
  BY DEF Find, SelectInSeq
<1>2. S \in SUBSET 1..Len(list) /\ (S # {} => Min(S) \in S)
  <2>1. S \in SUBSET Nat
    OBVIOUS
  <2> QED BY <2>1, LeastIndex
<1>3. (S # {}) <=> Leads(list, to)
  BY DEF Leads
<1>4. CASE S = {}
  BY <1>1, <1>3, <1>4
<1>5. CASE S # {}
  <2>1. Find(list, to) \in S
    BY <1>1, <1>2, <1>5
  <2> QED BY <2>1, <1>3, <1>5
<1> QED BY <1>4, <1>5

\* add_edge() and set_edge_weight() leave a list of edges that leads where it led and to the
\* node, and no node twice if none was there twice.
LEMMA PutPuts ==
  ASSUME NEW list \in Seq(Edge), NEW to \in Nodes, NEW w \in Weights
  PROVE  /\ Put(list, to, w) \in Seq(Edge)
         /\ \A n \in Nodes : Leads(Put(list, to, w), n) => Leads(list, n) \/ n = to
         /\ Unique(list) => Unique(Put(list, to, w))
<1> DEFINE i == Find(list, to)
<1> DEFINE e == [to |-> to, weight |-> w]
<1>1. e \in Edge
  BY DEF Edge
<1>2. CASE i = 0
  <2>1. Put(list, to, w) = Append(list, e)
    BY <1>2 DEF Put
  <2>2. ~Leads(list, to)
    BY <1>2, FindFinds
  <2> HIDE DEF e
  <2>3. e.to = to
    BY DEF e
  <2>4. Append(list, e) \in Seq(Edge) /\ Len(Append(list, e)) = Len(list) + 1
    BY <1>1
  <2>5. \A k \in DOMAIN Append(list, e) :
          Append(list, e)[k] = IF k = Len(list) + 1 THEN e ELSE list[k]
    BY <1>1
  <2>6. \A n \in Nodes : Leads(Append(list, e), n) => Leads(list, n) \/ n = to
    BY <2>3, <2>4, <2>5 DEF Leads
  <2>7. Unique(list) => Unique(Append(list, e))
    BY <2>2, <2>3, <2>4, <2>5 DEF Leads, Unique
  <2> QED BY <2>1, <2>4, <2>6, <2>7
<1>3. CASE i # 0
  <2>1. Put(list, to, w) = [list EXCEPT ![i].weight = w]
    BY <1>3 DEF Put
  <2>2. i \in DOMAIN list
    BY <1>3, FindFinds
  <2>3. \A f \in Edge : /\ [f EXCEPT !.weight = w] \in Edge
                        /\ [f EXCEPT !.weight = w].to = f.to
    BY DEF Edge
  <2>4. Put(list, to, w) = [list EXCEPT ![i] = [list[i] EXCEPT !.weight = w]]
    BY <2>1
  <2>5. DOMAIN Put(list, to, w) = DOMAIN list
    BY <2>4
  <2>6. Put(list, to, w) \in Seq(Edge)
    BY <2>2, <2>3, <2>4
  <2>7. \A k \in DOMAIN list : Put(list, to, w)[k].to = list[k].to
    BY <2>2, <2>3, <2>4
  <2> QED BY <2>5, <2>6, <2>7 DEF Leads, Unique
<1> QED BY <1>2, <1>3

\* remove_edge() leaves a list of edges that leads nowhere it did not lead, and no node twice
\* if none was there twice.
LEMMA RemoveAtRemoves ==
  ASSUME NEW list \in Seq(Edge), NEW i \in 1..Len(list)
  PROVE  /\ RemoveAt(list, i) \in Seq(Edge) /\ Len(RemoveAt(list, i)) = Len(list) - 1
         /\ \A n \in Nodes : Leads(RemoveAt(list, i), n) => Leads(list, n)
         /\ Unique(list) => Unique(RemoveAt(list, i))
<1> DEFINE front == SubSeq(list, 1, i - 1)
<1> DEFINE rest == SubSeq(list, i + 1, Len(list))
<1>1. front \in Seq(Edge) /\ Len(front) = i - 1 /\ \A k \in 1..(i - 1) : front[k] = list[k]
  OBVIOUS
<1>2. /\ rest \in Seq(Edge) /\ Len(rest) = Len(list) - i
      /\ \A k \in 1..(Len(list) - i) : rest[k] = list[k + i]
  OBVIOUS
<1> HIDE DEF front, rest
<1>3. RemoveAt(list, i) = front \o rest
  BY DEF RemoveAt, front, rest
<1>4. RemoveAt(list, i) \in Seq(Edge) /\ Len(RemoveAt(list, i)) = Len(list) - 1
  BY <1>1, <1>2, <1>3
<1>5. \A k \in 1..(Len(list) - 1) :
        RemoveAt(list, i)[k] = IF k < i THEN list[k] ELSE list[k + 1]
  BY <1>1, <1>2, <1>3
<1> HIDE DEF front, rest
<1>6. \A n \in Nodes : Leads(RemoveAt(list, i), n) => Leads(list, n)
  BY <1>4, <1>5 DEF Leads
<1>7. ASSUME Unique(list), NEW k \in DOMAIN RemoveAt(list, i), NEW l \in DOMAIN RemoveAt(list, i),
             RemoveAt(list, i)[k].to = RemoveAt(list, i)[l].to
      PROVE  k = l
  <2> DEFINE at(j) == IF j < i THEN j ELSE j + 1
  <2>1. k \in 1..(Len(list) - 1) /\ l \in 1..(Len(list) - 1)
    BY <1>4
  <2>2. at(k) \in DOMAIN list /\ at(l) \in DOMAIN list
    BY <2>1
  <2>3. RemoveAt(list, i)[k] = list[at(k)] /\ RemoveAt(list, i)[l] = list[at(l)]
    BY <1>5, <2>1
  <2>4. at(k) = at(l)
    BY <1>7, <2>2, <2>3 DEF Unique
  <2> QED BY <2>1, <2>4
<1> QED BY <1>4, <1>6, <1>7 DEF Unique

-----------------------------------------------------------------------------
(* Types *)

\* The three ways to build a graph give lists of edges.
LEMMA InitTypes == Init => TypeOK
<1>1. ASSUME NewGraph PROVE TypeOK
  <2>1. PICK adj \in [Nodes -> Lists] : edges = FromLists(adj)
    BY <1>1 DEF NewGraph
  <2>2. ASSUME NEW i \in Nodes PROVE FromLists(adj)[i] \in Seq(Edge)
    <3>1. PICK k \in 0..MaxList : adj[i] \in [1..k -> Nodes]
      BY DEF Lists
    <3>2. FromLists(adj)[i] = [l \in 1..k |-> [to |-> adj[i][l], weight |-> 1]]
      BY <3>1 DEF FromLists
    <3>3. \A l \in 1..k : [to |-> adj[i][l], weight |-> 1] \in Edge
      BY <3>1, GraphAssumption DEF Edge
    <3>4. k \in Nat
      BY GraphAssumption
    <3> QED BY <3>2, <3>3, <3>4
  <2>3. edges \in [Nodes -> Seq(Edge)]
    BY <2>1, <2>2 DEF FromLists
  <2> QED BY <1>1, <2>3 DEF NewGraph, TypeOK
<1>2. ASSUME Kn PROVE TypeOK
  <2>1. PICK with_loops \in BOOLEAN :
          edges = [i \in Nodes |->
                    [k \in 1..(IF with_loops THEN N ELSE N - 1) |->
                       [to |-> IF with_loops \/ k <= i THEN k - 1 ELSE k, weight |-> 1]]]
    BY <1>2 DEF Kn
  <2> DEFINE n == IF with_loops THEN N ELSE N - 1
  <2>2. n \in Nat
    BY GraphAssumption
  <2>3. ASSUME NEW i \in Nodes, NEW k \in 1..n
        PROVE  [to |-> IF with_loops \/ k <= i THEN k - 1 ELSE k, weight |-> 1] \in Edge
    BY GraphAssumption DEF Nodes, Edge
  <2> HIDE DEF n
  <2>4. ASSUME NEW i \in Nodes
        PROVE  [k \in 1..n |-> [to |-> IF with_loops \/ k <= i THEN k - 1 ELSE k, weight |-> 1]]
                 \in Seq(Edge)
    BY <2>2, <2>3
  <2>5. edges \in [Nodes -> Seq(Edge)]
    BY <2>1, <2>4 DEF n
  <2> QED BY <1>2, <2>5 DEF Kn, TypeOK
<1>3. ASSUME Loaded PROVE TypeOK
  <2>1. UNION {[1..k -> Edge] : k \in 0..MaxList} \subseteq Seq(Edge)
    BY GraphAssumption
  <2>2. edges \in [Nodes -> Seq(Edge)]
    BY <1>3, <2>1 DEF Loaded
  <2>3. has_loops \in BOOLEAN
    BY <1>3 DEF Loaded, HasLoop
  <2> QED BY <1>3, <2>2, <2>3 DEF Loaded, TypeOK
<1> QED BY <1>1, <1>2, <1>3 DEF Init

LEMMA NextTypes == TypeOK /\ [Next]_vars => TypeOK'
<1> SUFFICES ASSUME TypeOK, [Next]_vars PROVE TypeOK'
  OBVIOUS
<1>1. ASSUME NEW from \in Nodes, NEW to \in Nodes, NEW w \in Weights, NEW force \in BOOLEAN,
             AddEdge(from, to, w, force)
      PROVE  TypeOK'
  <2>1. Put(edges[from], to, w) \in Seq(Edge)
    BY PutPuts DEF TypeOK
  <2>2. edges' \in [Nodes -> Seq(Edge)]
    BY <1>1, <2>1 DEF AddEdge, TypeOK
  <2>3. has_loops' \in BOOLEAN
    BY <1>1 DEF AddEdge, TypeOK, edge_exists
  <2> QED BY <1>1, <2>2, <2>3 DEF AddEdge, TypeOK
<1>2. ASSUME NEW from \in Nodes, NEW to \in Nodes, RemoveEdge(from, to) PROVE TypeOK'
  <2>1. Find(edges[from], to) \in 1..Len(edges[from])
    BY <1>2, FindFinds DEF RemoveEdge, edge_exists, TypeOK
  <2>2. RemoveAt(edges[from], Find(edges[from], to)) \in Seq(Edge)
    BY <2>1, RemoveAtRemoves DEF TypeOK
  <2> QED BY <1>2, <2>2 DEF RemoveEdge, TypeOK
<1>3. ASSUME NEW w \in Weights, SetLoopWeights(w) PROVE TypeOK'
  <2>1. \A i \in Nodes : Put(edges[i], i, w) \in Seq(Edge)
    BY PutPuts DEF TypeOK
  <2> QED BY <1>3, <2>1 DEF SetLoopWeights, TypeOK
<1>4. CASE UNCHANGED vars
  BY <1>4 DEF vars, TypeOK
<1> QED BY <1>1, <1>2, <1>3, <1>4 DEF Next

\* Whatever a graph is built from and whatever is added, set and removed: the list of every
\* node holds edges to nodes of the graph with weights a caller gave (graph.cpp).
THEOREM GraphTypes == Spec => []TypeOK
<1> QED BY InitTypes, NextTypes, PTL DEF Spec

-----------------------------------------------------------------------------
(* Loops and unique edges *)

\* edge_exists() in terms of the lists.
LEMMA ExistsLeads ==
  ASSUME TypeOK, NEW from \in Nodes, NEW to \in Nodes
  PROVE  edge_exists(from, to) <=> Leads(edges[from], to)
<1> QED BY FindFinds DEF edge_exists, TypeOK

\* A loop a step makes is flagged in that step (add_edge(), set_edge_weight(),
\* set_loop_weights()), and none is made by removing an edge.
LEMMA FlagIsKept == TypeOK /\ Flagged /\ [Next]_vars => Flagged'
<1> SUFFICES ASSUME TypeOK, Flagged, [Next]_vars, HasLoop' PROVE has_loops'
  BY DEF Flagged
<1>1. TypeOK'
  BY NextTypes
<1>2. PICK i \in Nodes : Leads(edges'[i], i)
  <2>1. PICK i \in Nodes : edge_exists(i, i)'
    BY DEF HasLoop
  <2> QED BY <2>1, <1>1, FindFinds DEF edge_exists, TypeOK
<1>3. Leads(edges[i], i) => has_loops
  BY ExistsLeads DEF Flagged, HasLoop
<1>4. ASSUME NEW from \in Nodes, NEW to \in Nodes, NEW w \in Weights, NEW force \in BOOLEAN,
             AddEdge(from, to, w, force)
      PROVE  has_loops'
  <2>1. edges'[i] = IF i = from THEN Put(edges[i], to, w) ELSE edges[i]
    BY <1>4 DEF AddEdge, TypeOK
  <2>2. Leads(edges[i], i) \/ (i = from /\ i = to)
    BY <1>2, <2>1, PutPuts DEF TypeOK
  <2>3. CASE Leads(edges[i], i)
    BY <1>3, <1>4, <2>3 DEF AddEdge
  <2>4. CASE ~Leads(edges[i], i)
    BY <1>4, <2>2, <2>4, ExistsLeads DEF AddEdge
  <2> QED BY <2>3, <2>4
<1>5. ASSUME NEW from \in Nodes, NEW to \in Nodes, RemoveEdge(from, to) PROVE has_loops'
  <2>1. Find(edges[from], to) \in 1..Len(edges[from])
    BY <1>5, FindFinds DEF RemoveEdge, edge_exists, TypeOK
  <2>2. edges'[i] = IF i = from THEN RemoveAt(edges[i], Find(edges[i], to)) ELSE edges[i]
    BY <1>5 DEF RemoveEdge, TypeOK
  <2>3. Leads(edges[i], i)
    BY <1>2, <2>1, <2>2, RemoveAtRemoves DEF TypeOK
  <2> QED BY <1>3, <1>5, <2>3 DEF RemoveEdge
<1>6. ASSUME NEW w \in Weights, SetLoopWeights(w) PROVE has_loops'
  BY <1>6 DEF SetLoopWeights
<1>7. ASSUME UNCHANGED vars PROVE has_loops'
  BY <1>2, <1>3, <1>7 DEF vars
<1> QED BY <1>4, <1>5, <1>6, <1>7 DEF Next

\* No sequence of calls on a graph that was loaded makes a loop its flag does not tell of, and
\* the flag is what the degrees and the sort go by (graph.cpp).
THEOREM FlagTellsOfLoops == Spec => []LoopsAreFlagged
<1>1. Init => LoopsAreFlagged
  BY DEF Init, NewGraph, Kn, Loaded, LoopsAreFlagged, Flagged
<1>2. TypeOK /\ LoopsAreFlagged /\ [Next]_vars => LoopsAreFlagged'
  <2> SUFFICES ASSUME TypeOK, LoopsAreFlagged, [Next]_vars, origin' = "loaded" PROVE Flagged'
    BY DEF LoopsAreFlagged
  <2>1. origin' = origin
    BY DEF Next, vars, AddEdge, RemoveEdge, SetLoopWeights
  <2> QED BY <2>1, FlagIsKept DEF LoopsAreFlagged
<1> QED BY <1>1, <1>2, GraphTypes, PTL DEF Spec

\* No call puts a second edge between two nodes of a graph in which there is none: add_edge()
\* and set_edge_weight() search first, and what they find is what there is (graph.cpp).
THEOREM EdgesStayUnique == Spec => StaysSimple
<1>1. ASSUME TypeOK, Simple, [Next]_vars PROVE Simple'
  <2>1. \A i \in Nodes : edges[i] \in Seq(Edge) /\ Unique(edges[i])
    BY <1>1 DEF TypeOK, Simple, Unique
  <2> SUFFICES ASSUME NEW i \in Nodes PROVE Unique(edges'[i])
    BY DEF Simple, Unique
  <2>2. ASSUME NEW from \in Nodes, NEW to \in Nodes, NEW w \in Weights,
               NEW force \in BOOLEAN, AddEdge(from, to, w, force)
        PROVE  Unique(edges'[i])
    <3>1. edges'[i] = IF i = from THEN Put(edges[i], to, w) ELSE edges[i]
      BY <1>1, <2>2 DEF AddEdge, TypeOK
    <3> QED BY <2>1, <3>1, PutPuts
  <2>3. ASSUME NEW from \in Nodes, NEW to \in Nodes, RemoveEdge(from, to)
        PROVE  Unique(edges'[i])
    <3>1. Find(edges[from], to) \in 1..Len(edges[from])
      BY <2>1, <2>3, FindFinds DEF RemoveEdge, edge_exists
    <3>2. edges'[i] = IF i = from THEN RemoveAt(edges[i], Find(edges[i], to)) ELSE edges[i]
      BY <1>1, <2>3 DEF RemoveEdge, TypeOK
    <3> QED BY <2>1, <3>1, <3>2, RemoveAtRemoves
  <2>4. ASSUME NEW w \in Weights, SetLoopWeights(w) PROVE Unique(edges'[i])
    BY <2>1, <2>4, PutPuts DEF SetLoopWeights
  <2>5. ASSUME UNCHANGED vars PROVE Unique(edges'[i])
    BY <2>1, <2>5 DEF vars
  <2> QED BY <1>1, <2>2, <2>3, <2>4, <2>5 DEF Next
<1>2. TypeOK /\ [Next]_vars => [Simple => Simple']_vars
  BY <1>1
<1> QED BY <1>2, GraphTypes, PTL DEF Spec, StaysSimple

-----------------------------------------------------------------------------
(* Sums over the nodes *)

\* The partial sums of f
Adds(f, s) == s[0] = 0 /\ \A n \in 1..N : s[n] = s[n - 1] + f[n - 1]

\* Induction up to m: were some number left out, the smallest one would be 0 or follow one that
\* is not left out.
LEMMA UpTo ==
  ASSUME NEW m \in Nat, NEW S, 0 \in S, \A n \in 1..m : n - 1 \in S => n \in S
  PROVE  0..m \subseteq S
<1> SUFFICES ASSUME (0..m) \ S # {} PROVE FALSE
  OBVIOUS
<1> DEFINE R == (0..m) \ S
<1>1. R \in SUBSET Nat /\ R # {}
  OBVIOUS
<1>2. PICK x \in R : \A y \in R : ~(<<y, x>> \in Less)
  BY <1>1, NatLess, WFMin
<1>3. x \in 1..m
  OBVIOUS
<1>4. <<x - 1, x>> \in Less
  BY <1>3 DEF Less
<1>5. x - 1 \notin R /\ x - 1 \in 0..m
  BY <1>2, <1>3, <1>4
<1> QED BY <1>3, <1>5

\* Every function has its partial sums.
LEMMA SumsExist ==
  ASSUME NEW f \in [Nodes -> Nat]
  PROVE  \E s \in [0..N -> Nat] : Adds(f, s)
<1> DEFINE S == {n \in 0..N : \E s \in [0..N -> Nat] :
                   s[0] = 0 /\ \A k \in 1..n : s[k] = s[k - 1] + f[k - 1]}
<1>0. N \in Nat
  BY GraphAssumption
<1>1. 0 \in S
  <2> DEFINE z == [k \in 0..N |-> 0]
  <2>1. z \in [0..N -> Nat] /\ z[0] = 0
    BY <1>0
  <2> HIDE DEF z
  <2>2. \A k \in 1..0 : z[k] = z[k - 1] + f[k - 1]
    OBVIOUS
  <2>3. 0 \in 0..N
    BY <1>0
  <2> QED BY <2>1, <2>2, <2>3
<1>2. ASSUME NEW n \in 1..N, n - 1 \in S PROVE n \in S
  <2>1. PICK s \in [0..N -> Nat] : s[0] = 0 /\ \A k \in 1..(n - 1) : s[k] = s[k - 1] + f[k - 1]
    BY <1>2
  <2> DEFINE t == [s EXCEPT ![n] = s[n - 1] + f[n - 1]]
  <2>2. f[n - 1] \in Nat /\ s[n - 1] \in Nat
    BY <1>0 DEF Nodes
  <2>3. t \in [0..N -> Nat]
    BY <2>2
  <2>4. t[0] = 0
    BY <1>0, <2>1
  <2>5. ASSUME NEW k \in 1..n PROVE t[k] = t[k - 1] + f[k - 1]
    <3>1. k \in 0..N /\ k - 1 \in 0..N /\ k - 1 # n
      BY <1>0
    <3>2. t[k - 1] = s[k - 1]
      BY <3>1
    <3>3. t[k] = IF k = n THEN s[n - 1] + f[n - 1] ELSE s[k]
      BY <3>1
    <3>4. k = n \/ k \in 1..(n - 1)
      OBVIOUS
    <3> QED BY <2>1, <3>2, <3>3, <3>4
  <2> HIDE DEF t
  <2>6. n \in 0..N
    BY <1>0
  <2> QED BY <2>3, <2>4, <2>5, <2>6
<1> HIDE DEF S
<1>3. N \in S
  BY <1>0, <1>1, <1>2, UpTo
<1> QED BY <1>3 DEF S, Adds

\* SumOf() is the last of the partial sums, whichever function they are taken from.
LEMMA SumIs ==
  ASSUME NEW f \in [Nodes -> Nat], NEW s \in [0..N -> Nat], Adds(f, s)
  PROVE  SumOf(f) = s[N]
<1> DEFINE F(t) == [n \in 0..N |-> IF n = 0 THEN 0 ELSE t[n - 1] + f[n - 1]]
           g == CHOOSE t : t = F(t)
<1>0. N \in Nat
  BY GraphAssumption
<1>1. SumOf(f) = g[N]
  BY DEF SumOf
<1>2. s = F(s)
  <2>1. \A n \in 0..N : s[n] = F(s)[n]
    BY <1>0 DEF Adds
  <2> QED BY <2>1
<1>3. g = F(g)
  BY <1>2
<1> HIDE DEF g
<1> DEFINE S == {n \in 0..N : g[n] = s[n]}
<1>4. 0 \in S
  <2>1. g[0] = 0
    BY <1>0, <1>3
  <2> QED BY <1>0, <2>1 DEF Adds
<1>5. ASSUME NEW n \in 1..N, n - 1 \in S PROVE n \in S
  <2>1. g[n] = g[n - 1] + f[n - 1]
    BY <1>0, <1>3
  <2> QED BY <1>5, <2>1 DEF Adds
<1> HIDE DEF S
<1>6. \A n \in 1..N : n - 1 \in S => n \in S
  BY <1>5
<1>7. 0..N \subseteq S
  BY <1>0, <1>4, <1>6, UpTo
<1>8. N \in S
  BY <1>0, <1>7
<1> QED BY <1>1, <1>8 DEF S

\* A sum of sums is the sum of the terms.
LEMMA SumAdds ==
  ASSUME NEW f \in [Nodes -> Nat], NEW h \in [Nodes -> Nat]
  PROVE  /\ SumOf(f) \in Nat
         /\ SumOf([i \in Nodes |-> f[i] + h[i]]) = SumOf(f) + SumOf(h)
<1>0. N \in Nat
  BY GraphAssumption
<1>1. PICK s \in [0..N -> Nat] : Adds(f, s)
  BY SumsExist
<1>2. PICK t \in [0..N -> Nat] : Adds(h, t)
  BY SumsExist
<1> DEFINE r == [n \in 0..N |-> s[n] + t[n]]
           e == [i \in Nodes |-> f[i] + h[i]]
<1>3. e \in [Nodes -> Nat] /\ r \in [0..N -> Nat]
  OBVIOUS
<1>4. Adds(e, r)
  <2>1. r[0] = 0
    BY <1>0, <1>1, <1>2 DEF Adds
  <2>2. ASSUME NEW n \in 1..N PROVE r[n] = r[n - 1] + e[n - 1]
    <3>1. n \in 0..N /\ n - 1 \in 0..N /\ n - 1 \in Nodes
      BY <1>0 DEF Nodes
    <3>2. s[n] = s[n - 1] + f[n - 1] /\ t[n] = t[n - 1] + h[n - 1]
      BY <1>1, <1>2 DEF Adds
    <3>3. r[n] = s[n] + t[n] /\ r[n - 1] = s[n - 1] + t[n - 1] /\ e[n - 1] = f[n - 1] + h[n - 1]
      BY <3>1
    <3>4. s[n - 1] \in Nat /\ t[n - 1] \in Nat /\ f[n - 1] \in Nat /\ h[n - 1] \in Nat
      BY <3>1
    <3> QED BY <3>2, <3>3, <3>4
  <2> QED BY <2>1, <2>2 DEF Adds
<1>5. SumOf(f) = s[N] /\ SumOf(h) = t[N]
  BY <1>1, <1>2, SumIs
<1>6. SumOf(e) = r[N]
  <2> HIDE DEF e, r
  <2> QED BY <1>3, <1>4, SumIs
<1> QED BY <1>0, <1>5, <1>6

-----------------------------------------------------------------------------
(* Degrees and weights *)

\* Every edge of the lists is counted once at the node it leads to: summed over the nodes below
\* n, the edges to each of them are the edges to any of them.
LEMMA EndsCount ==
  ASSUME TypeOK
  PROVE  SumOf([i \in Nodes |-> SumOf([from \in Nodes |-> Cardinality(EdgesTo(i, from))])])
           = count_edges
<1> DEFINE Below(n, from) == {k \in DOMAIN edges[from] : edges[from][k].to < n}
           E(i) == [from \in Nodes |-> Cardinality(EdgesTo(i, from))]
           B(n) == [from \in Nodes |-> Cardinality(Below(n, from))]
           s == [n \in 0..N |-> SumOf(B(n))]
           f == [i \in Nodes |-> SumOf(E(i))]
<1>0. N \in Nat /\ Nodes = 0..(N - 1)
  BY GraphAssumption DEF Nodes
<1>1. ASSUME NEW from \in Nodes
      PROVE  /\ Len(edges[from]) \in Nat /\ DOMAIN edges[from] = 1..Len(edges[from])
             /\ \A k \in DOMAIN edges[from] : edges[from][k].to \in Nodes
  <2>1. edges[from] \in Seq(Edge)
    BY DEF TypeOK
  <2>2. \A e \in Edge : e.to \in Nodes
    BY DEF Edge
  <2> QED BY <2>1, <2>2
<1>2. ASSUME NEW from \in Nodes, NEW S \in SUBSET DOMAIN edges[from]
      PROVE  IsFiniteSet(S) /\ Cardinality(S) \in Nat
  <2>1. IsFiniteSet(DOMAIN edges[from])
    BY <1>1, FS_Interval
  <2>2. IsFiniteSet(S)
    BY <2>1, FS_Subset
  <2> QED BY <2>2, FS_CardinalityType
<1>3. ASSUME NEW i \in Nodes PROVE E(i) \in [Nodes -> Nat]
  BY <1>2 DEF EdgesTo
<1>4. ASSUME NEW n \in 0..N PROVE B(n) \in [Nodes -> Nat]
  BY <1>2
<1>5. f \in [Nodes -> Nat]
  <2> HIDE DEF E
  <2> QED BY <1>3, SumAdds
<1>6. s \in [0..N -> Nat]
  <2> HIDE DEF B
  <2> QED BY <1>4, SumAdds
<1>7. ASSUME NEW n \in 1..N PROVE s[n] = s[n - 1] + f[n - 1]
  <2>1. n \in 0..N /\ n - 1 \in 0..N /\ n - 1 \in Nodes
    BY <1>0
  <2>2. ASSUME NEW from \in Nodes PROVE B(n)[from] = B(n - 1)[from] + E(n - 1)[from]
    <3> DEFINE At(k) == edges[from][k].to
    <3>0. ASSUME NEW k \in DOMAIN edges[from] PROVE At(k) < n <=> At(k) < n - 1 \/ At(k) = n - 1
      <4>1. At(k) \in Int /\ n \in Int
        BY <1>0, <1>1, <2>1
      <4> HIDE DEF At
      <4> QED BY <4>1
    <3>1. Below(n, from) = Below(n - 1, from) \cup EdgesTo(n - 1, from)
      <4>1. EdgesTo(n - 1, from) = {k \in DOMAIN edges[from] : At(k) = n - 1}
        BY DEF EdgesTo
      <4>2. \A k \in DOMAIN edges[from] :
              k \in Below(n, from) <=> k \in Below(n - 1, from) \/ k \in EdgesTo(n - 1, from)
        BY <3>0, <4>1
      <4> QED BY <4>1, <4>2
    <3>2. Below(n - 1, from) \cap EdgesTo(n - 1, from) = {}
      BY <1>0, <1>1, <2>1 DEF EdgesTo
    <3>3. IsFiniteSet(Below(n - 1, from)) /\ IsFiniteSet(EdgesTo(n - 1, from))
      BY <1>2 DEF EdgesTo
    <3> HIDE DEF Below
    <3>4. Cardinality(Below(n - 1, from)) \in Nat /\ Cardinality(EdgesTo(n - 1, from)) \in Nat
      BY <3>3, FS_CardinalityType
    <3>5. Cardinality(Below(n - 1, from) \cup EdgesTo(n - 1, from))
            = Cardinality(Below(n - 1, from)) + Cardinality(EdgesTo(n - 1, from))
                - Cardinality(Below(n - 1, from) \cap EdgesTo(n - 1, from))
      BY <3>3, FS_Union
    <3>6. Cardinality(Below(n - 1, from) \cap EdgesTo(n - 1, from)) = 0
      BY <3>2, FS_EmptySet
    <3>7. Cardinality(Below(n, from))
            = Cardinality(Below(n - 1, from)) + Cardinality(EdgesTo(n - 1, from))
      BY <3>1, <3>4, <3>5, <3>6
    <3> QED BY <3>7
  <2>3. B(n) = [from \in Nodes |-> B(n - 1)[from] + E(n - 1)[from]]
    BY <2>2
  <2>4. B(n - 1) \in [Nodes -> Nat] /\ E(n - 1) \in [Nodes -> Nat]
    BY <1>3, <1>4, <2>1
  <2> HIDE DEF B, E
  <2>5. SumOf(B(n)) = SumOf(B(n - 1)) + SumOf(E(n - 1))
    BY <2>3, <2>4, SumAdds
  <2> QED BY <2>1, <2>5
<1>8. s[0] = 0
  <2> DEFINE z == [from \in Nodes |-> 0]
             t == [n \in 0..N |-> 0]
  <2>1. \A from \in Nodes : Below(0, from) = {}
    BY <1>0, <1>1
  <2>2. B(0) = z
    BY <2>1, FS_EmptySet
  <2>3. z \in [Nodes -> Nat] /\ t \in [0..N -> Nat] /\ t[N] = 0
    BY <1>0
  <2>4. Adds(z, t)
    BY <1>0 DEF Adds
  <2> HIDE DEF z, t, B
  <2>5. SumOf(z) = 0
    BY <2>3, <2>4, SumIs
  <2> QED BY <1>0, <2>2, <2>5
<1>9. SumOf(f) = s[N]
  <2>1. Adds(f, s)
    BY <1>7, <1>8 DEF Adds
  <2> HIDE DEF f, s
  <2> QED BY <1>5, <1>6, <2>1, SumIs
<1>10. s[N] = count_edges
  <2>1. ASSUME NEW from \in Nodes PROVE Cardinality(Below(N, from)) = Len(edges[from])
    <3>1. Below(N, from) = 1..Len(edges[from])
      BY <1>0, <1>1
    <3>2. Cardinality(1..Len(edges[from])) = Len(edges[from])
      BY <1>1, FS_Interval
    <3> QED BY <3>1, <3>2
  <2>2. B(N) = [i \in Nodes |-> get_node_outdegree(i)]
    BY <2>1 DEF get_node_outdegree
  <2>3. s[N] = SumOf(B(N))
    BY <1>0
  <2> HIDE DEF B
  <2> QED BY <2>2, <2>3 DEF count_edges, SumOver
<1> QED BY <1>9, <1>10

\* Where the flag tells the truth the degrees add up to twice the number of edges.
LEMMA DegreesAddUp ==
  ASSUME TypeOK, Flagged
  PROVE  SumOver(get_node_degree) = 2 * count_edges
<1> DEFINE c(i, from) == Cardinality(EdgesTo(i, from))
           out == [i \in Nodes |-> Len(edges[i])]
           in == [i \in Nodes |-> SumOf([from \in Nodes |-> c(i, from)])]
<1>1. ASSUME NEW i \in Nodes, NEW from \in Nodes
      PROVE  c(i, from) = (IF from = i /\ ~has_loops THEN 0 ELSE c(i, from)) /\ c(i, from) \in Nat
  <2>1. EdgesTo(i, from) \in SUBSET (1..Len(edges[from])) /\ Len(edges[from]) \in Nat
    BY DEF TypeOK, EdgesTo
  <2>2. c(i, from) \in Nat
    <3>1. IsFiniteSet(1..Len(edges[from]))
      BY <2>1, FS_Interval
    <3>2. IsFiniteSet(EdgesTo(i, from))
      BY <2>1, <3>1, FS_Subset
    <3> QED BY <3>2, FS_CardinalityType
  <2>3. ASSUME from = i, ~has_loops PROVE c(i, from) = 0
    <3>1. ~Leads(edges[i], i)
      BY <2>3, ExistsLeads DEF Flagged, HasLoop
    <3>2. EdgesTo(i, from) = {}
      BY <2>3, <3>1 DEF EdgesTo, Leads
    <3> QED BY <3>2, FS_EmptySet
  <2> HIDE DEF c
  <2> QED BY <2>2, <2>3
<1>2. ASSUME NEW i \in Nodes PROVE get_node_indegree(i) = in[i] /\ in[i] \in Nat
  <2>1. [from \in Nodes |-> IF from = i /\ ~has_loops THEN 0 ELSE c(i, from)]
          = [from \in Nodes |-> c(i, from)]
    BY <1>1
  <2>2. get_node_indegree(i)
          = SumOf([from \in Nodes |-> IF from = i /\ ~has_loops THEN 0 ELSE c(i, from)])
    BY DEF get_node_indegree, SumOver
  <2>3. [from \in Nodes |-> c(i, from)] \in [Nodes -> Nat]
    BY <1>1
  <2> HIDE DEF c
  <2> QED BY <2>1, <2>2, <2>3, SumAdds
<1>3. out \in [Nodes -> Nat] /\ in \in [Nodes -> Nat]
  <2>1. \A i \in Nodes : Len(edges[i]) \in Nat
    BY DEF TypeOK
  <2> HIDE DEF c
  <2> QED BY <1>2, <2>1
<1>4. SumOver(get_node_degree) = SumOf([i \in Nodes |-> out[i] + in[i]])
  <2>1. [i \in Nodes |-> get_node_degree(i)] = [i \in Nodes |-> out[i] + in[i]]
    <3> HIDE DEF in
    <3> QED BY <1>2 DEF get_node_degree, get_node_outdegree
  <2> QED BY <2>1 DEF SumOver
<1>5. count_edges = SumOf(out)
  BY DEF count_edges, SumOver, get_node_outdegree
<1>6. SumOf(in) = count_edges
  BY EndsCount
<1> HIDE DEF in, out
<1>7. SumOf(out) \in Nat /\ SumOf([i \in Nodes |-> out[i] + in[i]]) = SumOf(out) + SumOf(in)
  BY <1>3, SumAdds
<1> QED BY <1>4, <1>5, <1>6, <1>7

\* Where edges are unique, the last edge to a node, which the matrix shows, is the first one,
\* which the search finds.
LEMMA WeightsAgree ==
  ASSUME TypeOK, Simple, NEW i \in Nodes, NEW j \in Nodes
  PROVE  get_adjacency_matrix[i][j] = get_edge_weight(i, j)
<1> DEFINE S == {k \in 1..Len(edges[i]) : edges[i][k].to = j}
<1>1. /\ edges[i] \in Seq(Edge) /\ DOMAIN edges[i] = 1..Len(edges[i])
      /\ \A k, l \in S : k = l
  BY DEF TypeOK, Simple
<1>2. get_adjacency_matrix[i][j]
        = LET k == IF S # {} THEN Max(S) ELSE 0 IN IF k = 0 THEN 0 ELSE edges[i][k].weight
  BY DEF get_adjacency_matrix, SelectLastInSeq
<1>3. Find(edges[i], j) = IF S # {} THEN Min(S) ELSE 0
  BY DEF Find, SelectInSeq
<1>4. ASSUME S # {} PROVE Max(S) = Min(S)
  <2>1. PICK k \in S : S = {k}
    BY <1>1, <1>4
  <2>2. Max(S) = k /\ Min(S) = k
    <3>1. k \in Nat
      BY <1>1
    <3> HIDE DEF S
    <3> QED BY <2>1, <3>1 DEF Max, Min
  <2> QED BY <2>2
<1> HIDE DEF S
<1> QED BY <1>2, <1>3, <1>4 DEF get_edge_weight, edge_exists

\* Where edges are unique the two ways to read a weight agree, and where the flag tells the
\* truth every edge is counted once at its start and once at its end: the loops the indegree
\* leaves out are none (graph.cpp).
THEOREM QueriesAnswerAlike == Spec => []QueriesAgree
<1>1. TypeOK => QueriesAgree
  BY WeightsAgree, DegreesAddUp DEF QueriesAgree
<1> QED BY <1>1, GraphTypes, PTL

-----------------------------------------------------------------------------
(* Loops of the sort *)

\* The steps of a loop, each of which takes a value to the next one, and the values
Steps(n, V) == [1..n -> [V -> V]]
Values(n, V) == [0..n -> V]
Runs(s, n, start, step) == s[0] = start /\ \A k \in 1..n : s[k] = step[k][s[k - 1]]

\* A loop whose steps stay in a set has its values there.
LEMMA LoopRuns ==
  ASSUME NEW n \in Nat, NEW V, NEW start \in V, NEW step \in Steps(n, V)
  PROVE  \E s \in Values(n, V) : Runs(s, n, start, step)
<1> DEFINE Has(m) == \E s \in [0..n -> V] :
                       s[0] = start /\ \A k \in 1..m : s[k] = step[k][s[k - 1]]
           S == {m \in 0..n : Has(m)}
<1>0. step \in [1..n -> [V -> V]]
  BY DEF Steps
<1>1. 0 \in S
  <2> DEFINE z == [k \in 0..n |-> start]
  <2>1. z \in [0..n -> V] /\ z[0] = start
    OBVIOUS
  <2> HIDE DEF z
  <2>2. \A k \in 1..0 : z[k] = step[k][z[k - 1]]
    OBVIOUS
  <2>3. Has(0)
    BY <2>1, <2>2
  <2> HIDE DEF Has
  <2> QED BY <2>3
<1>2. ASSUME NEW m \in 1..n, m - 1 \in S PROVE m \in S
  <2>1. PICK s \in [0..n -> V] : s[0] = start /\ \A k \in 1..(m - 1) : s[k] = step[k][s[k - 1]]
    BY <1>2
  <2> DEFINE x == step[m][s[m - 1]]
             t == [s EXCEPT ![m] = x]
  <2>2. x \in V
    <3>1. s[m - 1] \in V /\ step[m] \in [V -> V]
      BY <1>0
    <3> QED BY <3>1
  <2> HIDE DEF x
  <2>3. t \in [0..n -> V] /\ t[0] = start
    BY <2>1, <2>2
  <2>4. ASSUME NEW k \in 1..m PROVE t[k] = step[k][t[k - 1]]
    <3>1. k \in 0..n /\ k - 1 \in 0..n /\ k - 1 # m
      OBVIOUS
    <3>2. t[k - 1] = s[k - 1] /\ t[k] = IF k = m THEN x ELSE s[k]
      BY <3>1
    <3>3. k = m \/ k \in 1..(m - 1)
      OBVIOUS
    <3> QED BY <2>1, <3>2, <3>3 DEF x
  <2> HIDE DEF t
  <2>5. Has(m)
    BY <2>3, <2>4
  <2>6. m \in 0..n
    OBVIOUS
  <2> HIDE DEF Has
  <2> QED BY <2>5, <2>6
<1> HIDE DEF S
<1>3. \A m \in 1..n : m - 1 \in S => m \in S
  BY <1>2
<1>4. 0..n \subseteq S
  BY <1>1, <1>3, UpTo
<1>5. n \in S
  BY <1>4
<1> QED BY <1>5 DEF S, Values, Runs

-----------------------------------------------------------------------------
(* Depth first *)

\* Between two visits no node is listed twice, and the nodes that are listed are marked.
Good(m) ==
  /\ m.perm \subseteq m.temp
  /\ m.perm = {m.sorted[k] : k \in DOMAIN m.sorted}
  /\ \A j, k \in DOMAIN m.sorted : m.sorted[j] = m.sorted[k] => j = k

\* A visit marks the nodes it lists, and no others.
After(m) ==
  {r \in Marks : /\ r.cycle = m.cycle
                 /\ Good(m) => /\ Good(r)
                               /\ m.temp \subseteq r.temp /\ m.perm \subseteq r.perm
                               /\ r.temp \ m.temp = r.perm \ m.perm}

Visits ==
  {f \in [Nodes -> [Marks -> Marks]] :
     \A node \in Nodes, m \in Marks :
       node \in f[node][m].perm /\ (node \notin m.temp => f[node][m] \in After(m))}

LEMMA AfterAll ==
  ASSUME NEW m \in Marks
  PROVE  /\ m \in After(m)
         /\ \A r \in After(m) : After(r) \subseteq After(m)
<1>1. m \in After(m)
  BY DEF After
<1>2. ASSUME NEW r \in After(m), NEW q \in After(r) PROVE q \in After(m)
  BY DEF After
<1> QED BY <1>1, <1>2

\* Following a list of edges is as good as the visits it makes.
LEMMA FollowIs ==
  ASSUME NEW list \in Seq(Edge), NEW visit \in Visits, NEW m \in Marks
  PROVE  Follow(list, visit, m) \in After(m)
<1> DEFINE n == Len(list)
           V == After(m)
           Next1(k, acc) == IF Marked(acc, list[k].to) THEN acc ELSE visit[list[k].to][acc]
           step == [k \in 1..n |-> [acc \in V |-> Next1(k, acc)]]
           F(f) == [k \in 0..n |-> IF k = 0 THEN m ELSE Next1(k, f[k - 1])]
           g == CHOOSE f : f = F(f)
<1>1. n \in Nat /\ \A k \in 1..n : list[k].to \in Nodes
  <2>1. n \in Nat /\ \A k \in 1..n : list[k] \in Edge
    OBVIOUS
  <2>2. \A e \in Edge : e.to \in Nodes
    BY DEF Edge
  <2> QED BY <2>1, <2>2
<1>2. Follow(list, visit, m) = g[n]
  BY DEF Follow
<1>3. m \in V
  BY AfterAll
<1>4. ASSUME NEW k \in 1..n, NEW acc \in V PROVE Next1(k, acc) \in V
  <2>1. acc \in Marks
    BY DEF After
  <2>2. CASE Marked(acc, list[k].to)
    BY <2>2
  <2>3. CASE ~Marked(acc, list[k].to)
    <3>1. visit[list[k].to][acc] \in After(acc)
      BY <1>1, <2>1, <2>3 DEF Visits, Marked
    <3> QED BY <2>3, <3>1, AfterAll
  <2> QED BY <2>2, <2>3
<1> HIDE DEF Next1, V
<1>5. step \in Steps(n, V)
  BY <1>4 DEF Steps
<1>6. PICK s \in Values(n, V) : Runs(s, n, m, step)
  <2> HIDE DEF step, n
  <2> QED BY <1>1, <1>3, <1>5, LoopRuns
<1>7. ASSUME NEW k \in 1..n, NEW acc \in V PROVE step[k][acc] = Next1(k, acc)
  OBVIOUS
<1>8. \A k \in 0..n : s[k] \in V
  BY <1>6 DEF Values
<1>9. s = F(s)
  <2> HIDE DEF step
  <2>1. ASSUME NEW k \in 0..n PROVE s[k] = IF k = 0 THEN m ELSE Next1(k, s[k - 1])
    <3>1. CASE k = 0
      BY <1>6, <3>1 DEF Runs
    <3>2. CASE k # 0
      <4>1. k \in 1..n /\ k - 1 \in 0..n
        BY <1>1, <3>2
      <4>2. s[k] = step[k][s[k - 1]]
        BY <1>6, <4>1 DEF Runs
      <4> QED BY <1>7, <1>8, <3>2, <4>1, <4>2
    <3> QED BY <3>1, <3>2
  <2>2. s = [k \in 0..n |-> s[k]]
    BY <1>6 DEF Values
  <2> QED BY <2>1, <2>2
<1>10. g = F(g)
  BY <1>9
<1> HIDE DEF g
<1>11. g[n] \in V
  <2>1. g[0] = m /\ \A k \in 1..n : g[k] = Next1(k, g[k - 1])
    BY <1>1, <1>10
  <2> DEFINE S == {k \in 0..n : g[k] \in V}
  <2>2. 0 \in S
    BY <1>1, <1>3, <2>1
  <2>3. \A k \in 1..n : k - 1 \in S => k \in S
    BY <1>1, <1>4, <2>1
  <2> HIDE DEF S, n
  <2>4. 0..n \subseteq S
    BY <1>1, <2>2, <2>3, UpTo
  <2> QED BY <1>1, <2>4 DEF S
<1> QED BY <1>2, <1>11 DEF V

\* A node that is listed after what was marked since it was marked itself
LEMMA ListedIs ==
  ASSUME NEW node \in Nodes, NEW m \in Marks, NEW after \in After([m EXCEPT !.temp = @ \cup {node}])
  PROVE  LET r == [after EXCEPT !.perm = @ \cup {node}, !.sorted = Append(@, node)]
         IN  r \in Marks /\ node \in r.perm /\ (node \notin m.temp => r \in After(m))
<1> DEFINE marked == [m EXCEPT !.temp = @ \cup {node}]
           r == [after EXCEPT !.perm = @ \cup {node}, !.sorted = Append(@, node)]
           n == Len(after.sorted)
<1>1. /\ marked \in Marks /\ marked.temp = m.temp \cup {node} /\ marked.perm = m.perm
      /\ marked.sorted = m.sorted /\ marked.cycle = m.cycle
  BY DEF Marks
<1>2. after \in Marks /\ after.cycle = m.cycle
  BY <1>1 DEF After
<1>3. /\ r.temp = after.temp /\ r.perm = after.perm \cup {node} /\ r.cycle = after.cycle
      /\ r.sorted = Append(after.sorted, node)
  BY <1>2 DEF Marks
<1>4. r \in Marks
  <2>1. after.sorted \in Seq(Nodes) /\ after.perm \in SUBSET Nodes
    BY <1>2 DEF Marks
  <2>2. Append(after.sorted, node) \in Seq(Nodes) /\ after.perm \cup {node} \in SUBSET Nodes
    BY <2>1
  <2> QED BY <1>2, <2>2 DEF Marks
<1> HIDE DEF marked, r
<1>5. ASSUME node \notin m.temp PROVE r \in After(m)
  <2> SUFFICES ASSUME Good(m)
               PROVE  /\ Good(r) /\ m.temp \subseteq r.temp /\ m.perm \subseteq r.perm
                      /\ r.temp \ m.temp = r.perm \ m.perm
    BY <1>2, <1>3, <1>4 DEF After
  <2>1. Good(marked)
    BY <1>1 DEF Good
  <2>2. /\ Good(after) /\ marked.temp \subseteq after.temp /\ marked.perm \subseteq after.perm
        /\ after.temp \ marked.temp = after.perm \ marked.perm
    BY <2>1 DEF After, marked
  <2>3. node \notin m.perm /\ node \notin after.perm
    BY <1>1, <1>5, <2>2 DEF Good
  <2>4. /\ m.temp \subseteq r.temp /\ m.perm \subseteq r.perm
        /\ r.temp \ m.temp = r.perm \ m.perm
    BY <1>1, <1>3, <1>5, <2>2, <2>3
  <2>5. Good(r)
    <3>1. after.sorted \in Seq(Nodes)
      BY <1>2 DEF Marks
    <3> DEFINE t == after.sorted
    <3> HIDE DEF t
    <3>2. /\ Len(t) \in Nat /\ DOMAIN t = 1..Len(t) /\ DOMAIN Append(t, node) = 1..(Len(t) + 1)
          /\ \A k \in 1..Len(t) : Append(t, node)[k] = t[k]
          /\ Append(t, node)[Len(t) + 1] = node
      BY <3>1 DEF t
    <3>3. after.perm = {t[k] : k \in DOMAIN t}
          /\ \A j, k \in DOMAIN t : t[j] = t[k] => j = k
      BY <2>2 DEF Good, t
    <3>4. r.perm = {Append(t, node)[k] : k \in DOMAIN Append(t, node)}
      BY <1>3, <3>2, <3>3
    <3>5. \A k \in 1..Len(t) : t[k] # node
      BY <2>3, <3>2, <3>3
    <3>6. \A j, k \in DOMAIN Append(t, node) : Append(t, node)[j] = Append(t, node)[k] => j = k
      BY <3>2, <3>3, <3>5
    <3>7. r.perm \subseteq r.temp
      BY <1>1, <1>3, <2>2 DEF Good
    <3> QED BY <1>3, <3>4, <3>6, <3>7 DEF Good, t
  <2> QED BY <2>4, <2>5
<1>6. node \in r.perm
  BY <1>3
<1> QED BY <1>4, <1>5, <1>6 DEF r

\* A visit of a node that is not marked lists the nodes it marks, each of them once, however
\* deep it goes (topo_sort_dfs_visit_node()).
LEMMA VisitIs == TypeOK => Visit \in Visits
<1> SUFFICES ASSUME TypeOK PROVE Visit \in Visits
  OBVIOUS
<1> DEFINE marked(node, m) == [m EXCEPT !.temp = @ \cup {node}]
           Listed(node, r) == [r EXCEPT !.perm = @ \cup {node}, !.sorted = Append(@, node)]
           First == [node \in Nodes |-> [m \in Marks |-> Listed(node, marked(node, m))]]
           Deeper(f) == [node \in Nodes |-> [m \in Marks |->
                           Listed(node, Follow(edges[node], f, marked(node, m)))]]
           step == [d \in 1..N |-> [f \in Visits |-> Deeper(f)]]
           F(v) == [depth \in 0..N |->
                     [node \in Nodes |-> [m \in Marks |->
                       LET mk == [m EXCEPT !.temp = @ \cup {node}]
                           after == IF depth = 0 THEN mk ELSE Follow(edges[node], v[depth - 1], mk)
                       IN  [after EXCEPT !.perm = @ \cup {node}, !.sorted = Append(@, node)]]]]
           g == CHOOSE v : v = F(v)
<1>1. N \in Nat
  BY GraphAssumption
<1>2. Visit = g[N]
  BY DEF Visit
<1>3. ASSUME NEW node \in Nodes, NEW m \in Marks PROVE marked(node, m) \in Marks
  BY DEF Marks
<1>4. First \in Visits
  <2>1. ASSUME NEW node \in Nodes, NEW m \in Marks
        PROVE  /\ Listed(node, marked(node, m)) \in Marks
               /\ node \in Listed(node, marked(node, m)).perm
               /\ node \notin m.temp => Listed(node, marked(node, m)) \in After(m)
    <3>1. marked(node, m) \in After(marked(node, m))
      BY <1>3, AfterAll
    <3> QED BY <3>1, ListedIs
  <2> HIDE DEF Listed, marked
  <2> QED BY <2>1 DEF Visits
<1>5. ASSUME NEW f \in Visits PROVE Deeper(f) \in Visits
  <2>1. ASSUME NEW node \in Nodes, NEW m \in Marks
        PROVE  /\ Listed(node, Follow(edges[node], f, marked(node, m))) \in Marks
               /\ node \in Listed(node, Follow(edges[node], f, marked(node, m))).perm
               /\ node \notin m.temp =>
                    Listed(node, Follow(edges[node], f, marked(node, m))) \in After(m)
    <3>1. edges[node] \in Seq(Edge)
      BY DEF TypeOK
    <3>2. Follow(edges[node], f, marked(node, m)) \in After(marked(node, m))
      BY <1>3, <3>1, FollowIs
    <3> QED BY <3>2, ListedIs
  <2> HIDE DEF Listed, marked
  <2> QED BY <2>1 DEF Visits
<1> HIDE DEF Deeper, First
<1>6. step \in Steps(N, Visits)
  BY <1>5 DEF Steps
<1>7. PICK s \in Values(N, Visits) : Runs(s, N, First, step)
  <2> HIDE DEF step
  <2> QED BY <1>1, <1>4, <1>6, LoopRuns
<1>8. \A d \in 0..N : s[d] \in Visits
  BY <1>7 DEF Values
<1>9. ASSUME NEW v, NEW d \in 0..N
      PROVE  F(v)[d] = IF d = 0 THEN First ELSE Deeper(v[d - 1])
  <2>1. F(v)[d] = [node \in Nodes |-> [m \in Marks |->
                     Listed(node, IF d = 0 THEN marked(node, m)
                                  ELSE Follow(edges[node], v[d - 1], marked(node, m)))]]
    OBVIOUS
  <2> HIDE DEF F, Listed, marked
  <2>2. CASE d = 0
    BY <2>1, <2>2 DEF First
  <2>3. CASE d # 0
    BY <2>1, <2>3 DEF Deeper
  <2> QED BY <2>2, <2>3
<1> HIDE DEF F
<1>10. s = F(s)
  <2>1. ASSUME NEW d \in 0..N PROVE s[d] = F(s)[d]
    <3>1. CASE d = 0
      BY <1>7, <1>9, <3>1 DEF Runs
    <3>2. CASE d # 0
      <4>1. d \in 1..N /\ d - 1 \in 0..N
        BY <1>1, <3>2
      <4>2. s[d] = step[d][s[d - 1]]
        BY <1>7, <4>1 DEF Runs
      <4> QED BY <1>8, <1>9, <3>2, <4>1, <4>2
    <3> QED BY <3>1, <3>2
  <2>2. s = [d \in 0..N |-> s[d]] /\ F(s) = [d \in 0..N |-> F(s)[d]]
    BY <1>7 DEF Values, F
  <2> QED BY <2>1, <2>2
<1>11. g = F(g)
  BY <1>10
<1> HIDE DEF g
<1> DEFINE S == {d \in 0..N : g[d] \in Visits}
<1>12. 0 \in S
  BY <1>1, <1>4, <1>9, <1>11
<1>13. ASSUME NEW d \in 1..N, d - 1 \in S PROVE d \in S
  <2>1. g[d] = Deeper(g[d - 1])
    BY <1>1, <1>9, <1>11
  <2> QED BY <1>5, <1>13, <2>1
<1> HIDE DEF S
<1>14. 0..N \subseteq S
  <2>1. \A d \in 1..N : d - 1 \in S => d \in S
    BY <1>13
  <2> QED BY <1>1, <1>12, <2>1, UpTo
<1> QED BY <1>1, <1>2, <1>14 DEF S

\* A list without repetitions is no longer than there are nodes, and as long if it has them all.
LEMMA Pigeons ==
  ASSUME NEW s \in Seq(Nodes), \A j, k \in DOMAIN s : s[j] = s[k] => j = k
  PROVE  Len(s) <= N /\ (Len(s) = N <=> {s[k] : k \in DOMAIN s} = Nodes)
<1>0. N \in Nat /\ Len(s) \in Nat /\ DOMAIN s = 1..Len(s)
  BY GraphAssumption
<1>1. s \in [1..Len(s) -> Nodes]
  BY <1>0
<1>2. s \in Injection(1..Len(s), Nodes)
  BY <1>0, <1>1 DEF Injection, IsInjective
<1>3. IsFiniteSet(Nodes) /\ Cardinality(Nodes) = N /\ Cardinality(1..Len(s)) = Len(s)
  <2>1. N > 0 /\ Nodes = 0..(N - 1)
    BY GraphAssumption DEF Nodes
  <2>2. IsFiniteSet(0..(N - 1)) /\ Cardinality(0..(N - 1)) = N
    <3>1. 0 \in Int /\ N - 1 \in Int /\ ~(0 > N - 1) /\ (N - 1) - 0 + 1 = N
      BY <1>0, <2>1
    <3> QED BY <3>1, FS_Interval
  <2>3. Cardinality(1..Len(s)) = Len(s)
    <3>1. 1 \in Int /\ Len(s) \in Int
      BY <1>0
    <3>2. Cardinality(1..Len(s)) = IF 1 > Len(s) THEN 0 ELSE Len(s) - 1 + 1
      BY <3>1, FS_Interval
    <3> QED BY <1>0, <3>2
  <2> QED BY <2>1, <2>2, <2>3
<1>4. Len(s) <= N /\ (Len(s) = N <=> s \in Surjection(1..Len(s), Nodes))
  BY <1>2, <1>3, FS_Injection
<1>5. s \in Surjection(1..Len(s), Nodes) <=> {s[k] : k \in DOMAIN s} = Nodes
  BY <1>0, <1>1 DEF Surjection
<1> QED BY <1>4, <1>5

\* Depth first lists every node, and the test for a cycle never holds: between two visits the
\* marked nodes are those that are listed.
LEMMA DepthFirstIs ==
  TypeOK => /\ ~DepthFirst.cycle /\ DepthFirst.sorted \in Seq(Nodes)
            /\ {DepthFirst.sorted[k] : k \in DOMAIN DepthFirst.sorted} = Nodes
            /\ Len(DepthFirst.sorted) = N
<1> SUFFICES ASSUME TypeOK
             PROVE  /\ ~DepthFirst.cycle /\ DepthFirst.sorted \in Seq(Nodes)
                    /\ {DepthFirst.sorted[k] : k \in DOMAIN DepthFirst.sorted} = Nodes
                    /\ Len(DepthFirst.sorted) = N
  OBVIOUS
<1> DEFINE V == {m \in Marks : Good(m) /\ m.temp = m.perm /\ ~m.cycle}
           m0 == [temp |-> {}, perm |-> {}, sorted |-> <<>>, cycle |-> FALSE]
           Turn(n, m) == IF m.cycle \/ n - 1 \in m.perm THEN m
                         ELSE IF n - 1 \in m.temp THEN [m EXCEPT !.cycle = TRUE]
                         ELSE Visit[n - 1][m]
           step == [n \in 1..N |-> [m \in V |-> Turn(n, m)]]
           F(f) == [n \in 0..N |-> IF n = 0 THEN m0 ELSE Turn(n, f[n - 1])]
           g == CHOOSE f : f = F(f)
<1>1. N \in Nat /\ \A n \in 1..N : n - 1 \in Nodes
  BY GraphAssumption DEF Nodes
<1>2. DepthFirst = g[N]
  BY DEF DepthFirst
<1>3. m0 \in V
  <2>1. m0 \in Marks
    BY DEF Marks
  <2>2. DOMAIN m0.sorted = {}
    OBVIOUS
  <2> QED BY <2>1, <2>2 DEF Good
<1>4. ASSUME NEW n \in 1..N, NEW m \in V
      PROVE  /\ Turn(n, m) \in V /\ n - 1 \in Turn(n, m).perm
             /\ m.perm \subseteq Turn(n, m).perm
  <2>1. m \in Marks /\ Good(m) /\ m.temp = m.perm /\ ~m.cycle
    OBVIOUS
  <2>2. CASE n - 1 \in m.perm
    BY <2>1, <2>2
  <2>3. CASE n - 1 \notin m.perm
    <3> DEFINE r == Visit[n - 1][m]
    <3>1. Turn(n, m) = r
      BY <2>1, <2>3
    <3>2. r \in After(m) /\ n - 1 \in r.perm
      BY <1>1, <2>1, <2>3, VisitIs DEF Visits
    <3> HIDE DEF r, Turn
    <3>3. /\ r \in Marks /\ r.cycle = m.cycle /\ Good(r)
          /\ m.temp \subseteq r.temp /\ m.perm \subseteq r.perm
          /\ r.temp \ m.temp = r.perm \ m.perm
      BY <2>1, <3>2 DEF After
    <3> QED BY <2>1, <3>1, <3>2, <3>3
  <2> QED BY <2>2, <2>3
<1> HIDE DEF V, m0, Turn
<1>5. step \in Steps(N, V)
  BY <1>4 DEF Steps
<1>6. PICK s \in Values(N, V) : Runs(s, N, m0, step)
  <2> HIDE DEF step
  <2> QED BY <1>1, <1>3, <1>5, LoopRuns
<1>7. \A n \in 0..N : s[n] \in V
  BY <1>6 DEF Values
<1>8. s = F(s)
  <2>1. ASSUME NEW n \in 0..N PROVE s[n] = IF n = 0 THEN m0 ELSE Turn(n, s[n - 1])
    <3>1. CASE n = 0
      BY <1>6, <3>1 DEF Runs
    <3>2. CASE n # 0
      <4>1. n \in 1..N /\ n - 1 \in 0..N
        BY <1>1, <3>2
      <4>2. s[n] = step[n][s[n - 1]]
        BY <1>6, <4>1 DEF Runs
      <4> QED BY <1>7, <3>2, <4>1, <4>2
    <3> QED BY <3>1, <3>2
  <2>2. s = [n \in 0..N |-> s[n]]
    BY <1>6 DEF Values
  <2> QED BY <2>1, <2>2
<1>9. g = F(g)
  BY <1>8
<1> HIDE DEF g
<1>10. g[0] = m0 /\ \A n \in 1..N : g[n] = Turn(n, g[n - 1])
  BY <1>1, <1>9
<1> DEFINE S == {n \in 0..N : g[n] \in V /\ \A i \in Nodes : i < n => i \in g[n].perm}
<1>11. 0 \in S
  BY <1>1, <1>3, <1>10 DEF Nodes
<1>12. ASSUME NEW n \in 1..N, n - 1 \in S PROVE n \in S
  <2>1. g[n - 1] \in V /\ \A i \in Nodes : i < n - 1 => i \in g[n - 1].perm
    BY <1>12
  <2>2. g[n] \in V /\ n - 1 \in g[n].perm /\ g[n - 1].perm \subseteq g[n].perm
    BY <1>4, <1>10, <2>1
  <2>3. ASSUME NEW i \in Nodes, i < n PROVE i \in g[n].perm
    <3>1. i < n - 1 \/ i = n - 1
      BY <1>1, <2>3 DEF Nodes
    <3> QED BY <2>1, <2>2, <3>1
  <2> QED BY <2>2, <2>3
<1> HIDE DEF S
<1>13. 0..N \subseteq S
  <2>1. \A n \in 1..N : n - 1 \in S => n \in S
    BY <1>12
  <2> QED BY <1>1, <1>11, <2>1, UpTo
<1>14. g[N] \in V /\ Nodes \subseteq g[N].perm
  BY <1>1, <1>13 DEF S, Nodes
<1>15. /\ g[N].sorted \in Seq(Nodes) /\ ~g[N].cycle
       /\ {g[N].sorted[k] : k \in DOMAIN g[N].sorted} = Nodes
       /\ \A j, k \in DOMAIN g[N].sorted : g[N].sorted[j] = g[N].sorted[k] => j = k
  <2>1. g[N].perm \subseteq Nodes /\ g[N].sorted \in Seq(Nodes) /\ Good(g[N]) /\ ~g[N].cycle
    BY <1>14 DEF V, Marks
  <2> QED BY <1>14, <2>1 DEF Good
<1>16. Len(g[N].sorted) = N
  BY <1>15, Pigeons
<1> QED BY <1>2, <1>15, <1>16

-----------------------------------------------------------------------------
(* The nodes without edges to them *)

\* A sum with one term
LEMMA SumSingle ==
  ASSUME NEW i \in Nodes, NEW c \in Nat
  PROVE  SumOf([j \in Nodes |-> IF j = i THEN c ELSE 0]) = c
<1> DEFINE f == [j \in Nodes |-> IF j = i THEN c ELSE 0]
           s == [n \in 0..N |-> IF n > i THEN c ELSE 0]
<1>0. N \in Nat /\ i \in 0..(N - 1)
  BY GraphAssumption DEF Nodes
<1>1. f \in [Nodes -> Nat] /\ s \in [0..N -> Nat] /\ s[N] = c
  BY <1>0
<1>2. s[0] = 0
  BY <1>0
<1>3. ASSUME NEW n \in 1..N PROVE s[n] = s[n - 1] + f[n - 1]
  <2>1. n \in 0..N /\ n - 1 \in 0..N /\ n - 1 \in Nodes
    BY <1>0 DEF Nodes
  <2>2. /\ s[n] = (IF n > i THEN c ELSE 0) /\ s[n - 1] = (IF n - 1 > i THEN c ELSE 0)
        /\ f[n - 1] = (IF n - 1 = i THEN c ELSE 0)
    BY <2>1
  <2> QED BY <1>0, <2>1, <2>2
<1> HIDE DEF f, s
<1>4. Adds(f, s)
  BY <1>2, <1>3 DEF Adds
<1>5. SumOf(f) = c
  BY <1>1, <1>4, SumIs
<1> QED BY <1>5 DEF f

\* A sum has room for each of its terms, and changes by as much as one of them.
LEMMA SumChanges ==
  ASSUME NEW f \in [Nodes -> Nat], NEW i \in Nodes, NEW x \in Nat
  PROVE  SumOf(f) \in Nat /\ f[i] <= SumOf(f)
         /\ SumOf([f EXCEPT ![i] = x]) + f[i] = SumOf(f) + x
<1> DEFINE rest == [f EXCEPT ![i] = 0]
           one(c) == [j \in Nodes |-> IF j = i THEN c ELSE 0]
<1>1. rest \in [Nodes -> Nat] /\ f[i] \in Nat /\ \A c \in Nat : one(c) \in [Nodes -> Nat]
  OBVIOUS
<1>2. f = [j \in Nodes |-> rest[j] + one(f[i])[j]]
  <2>1. \A j \in Nodes : f[j] = rest[j] + one(f[i])[j]
    BY <1>1
  <2> HIDE DEF rest, one
  <2> QED BY <2>1
<1>3. [f EXCEPT ![i] = x] = [j \in Nodes |-> rest[j] + one(x)[j]]
  <2>1. \A j \in Nodes : [f EXCEPT ![i] = x][j] = rest[j] + one(x)[j]
    BY <1>1
  <2> HIDE DEF rest, one
  <2> QED BY <2>1
<1>4. \A c \in Nat : SumOf(one(c)) = c
  BY SumSingle
<1> HIDE DEF rest, one
<1>5. SumOf(rest) \in Nat
  BY <1>1, SumAdds
<1>6. ASSUME NEW c \in Nat
      PROVE  SumOf([j \in Nodes |-> rest[j] + one(c)[j]]) = SumOf(rest) + c
  <2>1. one(c) \in [Nodes -> Nat] /\ SumOf(one(c)) = c
    BY <1>1, <1>4
  <2> DEFINE h == one(c)
  <2> HIDE DEF h
  <2>2. SumOf([j \in Nodes |-> rest[j] + h[j]]) = SumOf(rest) + SumOf(h)
    BY <1>1, <2>1, SumAdds DEF h
  <2> QED BY <2>1, <2>2 DEF h
<1>7. SumOf(f) = SumOf(rest) + f[i]
  BY <1>1, <1>2, <1>6
<1>8. SumOf([f EXCEPT ![i] = x]) = SumOf(rest) + x
  BY <1>3, <1>6
<1> QED BY <1>1, <1>5, <1>7, <1>8

\* The indegree is a number; where it is 0 no edge leads to the node that is counted.
LEMMA IndegreeIs ==
  ASSUME TypeOK, NEW i \in Nodes
  PROVE  /\ get_node_indegree(i) \in Nat
         /\ get_node_indegree(i) = 0 =>
              \A from \in Nodes : from # i \/ has_loops => ~Leads(edges[from], i)
<1> DEFINE c(from) == Cardinality(EdgesTo(i, from))
           f == [from \in Nodes |-> IF from = i /\ ~has_loops THEN 0 ELSE c(from)]
<1>1. ASSUME NEW from \in Nodes
      PROVE  c(from) \in Nat /\ (c(from) = 0 => ~Leads(edges[from], i))
  <2>1. /\ EdgesTo(i, from) \in SUBSET (1..Len(edges[from])) /\ Len(edges[from]) \in Nat
        /\ DOMAIN edges[from] = 1..Len(edges[from])
    BY DEF TypeOK, EdgesTo
  <2>2. IsFiniteSet(EdgesTo(i, from))
    <3>1. IsFiniteSet(1..Len(edges[from]))
      BY <2>1, FS_Interval
    <3> QED BY <2>1, <3>1, FS_Subset
  <2>3. c(from) = 0 => EdgesTo(i, from) = {}
    BY <2>2, FS_EmptySet
  <2> QED BY <2>2, <2>3, FS_CardinalityType DEF EdgesTo, Leads
<1>2. get_node_indegree(i) = SumOf(f)
  BY DEF get_node_indegree, SumOver
<1> HIDE DEF c
<1>3. f \in [Nodes -> Nat]
  BY <1>1
<1>4. SumOf(f) \in Nat /\ \A from \in Nodes : f[from] <= SumOf(f)
  <2> HIDE DEF f
  <2> QED BY <1>3, SumChanges
<1>5. ASSUME SumOf(f) = 0, NEW from \in Nodes, from # i \/ has_loops PROVE ~Leads(edges[from], i)
  <2>1. f[from] = c(from) /\ f[from] \in Nat
    BY <1>3, <1>5
  <2>2. f[from] <= 0
    BY <1>4, <1>5
  <2> QED BY <1>1, <2>1, <2>2
<1> QED BY <1>2, <1>4, <1>5

\* The stack begins with the nodes of indegree 0, each of them once.
LEMMA RootsAre ==
  TypeOK => /\ Roots \in Seq(Nodes) /\ Len(Roots) <= N
            /\ {Roots[k] : k \in DOMAIN Roots} = {i \in Nodes : get_node_indegree(i) = 0}
            /\ \A j, k \in DOMAIN Roots : Roots[j] = Roots[k] => j = k
<1> SUFFICES ASSUME TypeOK
             PROVE  /\ Roots \in Seq(Nodes) /\ Len(Roots) <= N
                    /\ {Roots[k] : k \in DOMAIN Roots} = {i \in Nodes : get_node_indegree(i) = 0}
                    /\ \A j, k \in DOMAIN Roots : Roots[j] = Roots[k] => j = k
  OBVIOUS
<1> DEFINE V == Seq(Nodes)
           Turn(n, l) == IF get_node_indegree(n - 1) = 0 THEN Append(l, n - 1) ELSE l
           step == [n \in 1..N |-> [l \in V |-> Turn(n, l)]]
           F(f) == [n \in 0..N |-> IF n = 0 THEN <<>> ELSE Turn(n, f[n - 1])]
           g == CHOOSE f : f = F(f)
<1>1. N \in Nat /\ \A n \in 1..N : n - 1 \in Nodes
  BY GraphAssumption DEF Nodes
<1>2. Roots = g[N]
  BY DEF Roots
<1>3. <<>> \in V
  OBVIOUS
<1>4. ASSUME NEW n \in 1..N, NEW l \in V PROVE Turn(n, l) \in V
  BY <1>1
<1> HIDE DEF V, Turn
<1>5. step \in Steps(N, V)
  BY <1>4 DEF Steps
<1>6. PICK s \in Values(N, V) : Runs(s, N, <<>>, step)
  <2> HIDE DEF step
  <2> QED BY <1>1, <1>3, <1>5, LoopRuns
<1>7. \A n \in 0..N : s[n] \in V
  BY <1>6 DEF Values
<1>8. s = F(s)
  <2>1. ASSUME NEW n \in 0..N PROVE s[n] = IF n = 0 THEN <<>> ELSE Turn(n, s[n - 1])
    <3>1. CASE n = 0
      BY <1>6, <3>1 DEF Runs
    <3>2. CASE n # 0
      <4>1. n \in 1..N /\ n - 1 \in 0..N
        BY <1>1, <3>2
      <4>2. s[n] = step[n][s[n - 1]]
        BY <1>6, <4>1 DEF Runs
      <4> QED BY <1>7, <3>2, <4>1, <4>2
    <3> QED BY <3>1, <3>2
  <2>2. s = [n \in 0..N |-> s[n]]
    BY <1>6 DEF Values
  <2> QED BY <2>1, <2>2
<1>9. g = F(g)
  BY <1>8
<1> HIDE DEF g
<1>10. g[0] = <<>> /\ \A n \in 1..N : g[n] = Turn(n, g[n - 1])
  BY <1>1, <1>9
<1> DEFINE Found(l, n) ==
             /\ l \in Seq(Nodes)
             /\ {l[k] : k \in DOMAIN l} = {i \in Nodes : i < n /\ get_node_indegree(i) = 0}
             /\ \A j, k \in DOMAIN l : l[j] = l[k] => j = k
           S == {n \in 0..N : Found(g[n], n)}
<1>11. 0 \in S
  <2>1. DOMAIN <<>> = {} /\ \A i \in Nodes : ~(i < 0)
    BY <1>1 DEF Nodes
  <2>2. Found(<<>>, 0)
    <3>1. {i \in Nodes : i < 0 /\ get_node_indegree(i) = 0} = {}
      BY <2>1
    <3>2. <<>> \in Seq(Nodes) /\ {<<>>[k] : k \in DOMAIN <<>>} = {}
      BY <2>1
    <3> QED BY <2>1, <3>1, <3>2
  <2> HIDE DEF Found
  <2> QED BY <1>1, <1>10, <2>2
<1>12. ASSUME NEW n \in 1..N, n - 1 \in S PROVE n \in S
  <2> DEFINE l == g[n - 1]
  <2>1. Found(l, n - 1)
    BY <1>12
  <2>2. \A i \in Nodes : i < n <=> i < n - 1 \/ i = n - 1
    BY <1>1 DEF Nodes
  <2>3. CASE get_node_indegree(n - 1) # 0
    <3>1. g[n] = l
      BY <1>10, <2>3 DEF Turn
    <3>2. {i \in Nodes : i < n /\ get_node_indegree(i) = 0}
            = {i \in Nodes : i < n - 1 /\ get_node_indegree(i) = 0}
      BY <2>2, <2>3
    <3>3. Found(l, n)
      BY <2>1, <3>2
    <3> HIDE DEF Found, l
    <3> QED BY <1>1, <3>1, <3>3
  <2>4. CASE get_node_indegree(n - 1) = 0
    <3>1. g[n] = Append(l, n - 1)
      BY <1>10, <2>4 DEF Turn
    <3>2. {i \in Nodes : i < n /\ get_node_indegree(i) = 0}
            = {i \in Nodes : i < n - 1 /\ get_node_indegree(i) = 0} \cup {n - 1}
      BY <1>1, <2>2, <2>4
    <3>3. l \in Seq(Nodes) /\ n - 1 \in Nodes
      BY <1>1, <2>1
    <3> HIDE DEF l
    <3>4. /\ Len(l) \in Nat /\ DOMAIN l = 1..Len(l) /\ DOMAIN Append(l, n - 1) = 1..(Len(l) + 1)
          /\ \A k \in 1..Len(l) : Append(l, n - 1)[k] = l[k]
          /\ Append(l, n - 1)[Len(l) + 1] = n - 1 /\ Append(l, n - 1) \in Seq(Nodes)
      BY <3>3
    <3>5. \A k \in 1..Len(l) : l[k] # n - 1
      <4>1. \A k \in 1..Len(l) : l[k] < n - 1 /\ l[k] \in Nodes
        BY <2>1, <3>4
      <4> QED BY <1>1, <4>1 DEF Nodes
    <3>6. {Append(l, n - 1)[k] : k \in DOMAIN Append(l, n - 1)} = {l[k] : k \in DOMAIN l} \cup {n - 1}
      BY <3>4
    <3>7. \A j, k \in DOMAIN Append(l, n - 1) : Append(l, n - 1)[j] = Append(l, n - 1)[k] => j = k
      BY <2>1, <3>4, <3>5
    <3>8. Found(Append(l, n - 1), n)
      BY <2>1, <3>2, <3>4, <3>6, <3>7
    <3> HIDE DEF Found
    <3>9. Found(g[n], n)
      BY <3>1, <3>8, Zenon
    <3>10. n \in 0..N
      BY <1>1
    <3> QED BY <3>9, <3>10
  <2> QED BY <2>3, <2>4
<1> HIDE DEF S
<1>13. 0..N \subseteq S
  <2>1. \A n \in 1..N : n - 1 \in S => n \in S
    BY <1>12
  <2> QED BY <1>1, <1>11, <2>1, UpTo
<1>14. Found(g[N], N)
  BY <1>1, <1>13 DEF S
<1>15. \A i \in Nodes : i < N
  BY <1>1 DEF Nodes
<1>16. Len(g[N]) <= N
  BY <1>14, Pigeons
<1> QED BY <1>2, <1>14, <1>15, <1>16

-----------------------------------------------------------------------------
(* Kahn *)

Works == [copy : [Nodes -> Seq(Edge)], stack : Seq(Nodes), sorted : Seq(Nodes), cleared : Nat]

\* What is left to do: the nodes on the stack, and the edges they may push nodes for
Left(w) == Len(w.stack) + SumOf([i \in Nodes |-> Len(w.copy[i])])

\* A graph without loops, and a copy that leads where the graph leads
Plain == Flagged /\ ~has_loops
Within(w) == \A i, j \in Nodes : Leads(w.copy[i], j) => Leads(edges[i], j)

\* One node of the loop over the nodes the edges of node may lead to
Turn(node, i, acc) ==
  IF acc.copy[i] = <<>> \/ Find(acc.copy[node], i) = 0 THEN acc
  ELSE IF get_node_indegree(i) # 0 THEN Cut(acc, node, Find(acc.copy[node], i))
  ELSE [Cut(acc, node, Find(acc.copy[node], i)) EXCEPT !.stack = Append(@, i), !.cleared = @ + 1]

\* What is left to do is a number.
LEMMA LeftIs ==
  ASSUME NEW w \in Works
  PROVE  Left(w) \in Nat
<1>1. w.copy \in [Nodes -> Seq(Edge)] /\ w.stack \in Seq(Nodes)
  BY DEF Works
<1>2. [i \in Nodes |-> Len(w.copy[i])] \in [Nodes -> Nat]
  BY <1>1
<1>3. SumOf([i \in Nodes |-> Len(w.copy[i])]) \in Nat
  BY <1>2, SumAdds
<1>4. Len(w.stack) \in Nat
  BY <1>1
<1> DEFINE a == Len(w.stack)
           b == SumOf([i \in Nodes |-> Len(w.copy[i])])
<1>5. Left(w) = a + b /\ a \in Nat /\ b \in Nat
  BY <1>3, <1>4 DEF Left
<1> HIDE DEF a, b
<1> QED BY <1>5

\* An edge that is removed is one edge less.
LEMMA CutIs ==
  ASSUME NEW w \in Works, NEW node \in Nodes, NEW k \in 1..Len(w.copy[node])
  PROVE  LET r == Cut(w, node, k)
         IN  /\ r \in Works /\ Left(r) = Left(w) - 1
             /\ r.stack = w.stack /\ r.sorted = w.sorted /\ r.cleared = w.cleared
             /\ Within(w) => Within(r)
<1> DEFINE r == Cut(w, node, k)
           list == w.copy[node]
           f == [i \in Nodes |-> Len(w.copy[i])]
<1>1. /\ w.copy \in [Nodes -> Seq(Edge)] /\ w.stack \in Seq(Nodes) /\ list \in Seq(Edge)
  BY DEF Works
<1>2. /\ RemoveAt(list, k) \in Seq(Edge) /\ Len(RemoveAt(list, k)) = Len(list) - 1
      /\ \A n \in Nodes : Leads(RemoveAt(list, k), n) => Leads(list, n)
  BY <1>1, RemoveAtRemoves
<1>3. /\ r.copy = [w.copy EXCEPT ![node] = RemoveAt(list, k)]
      /\ r.stack = w.stack /\ r.sorted = w.sorted /\ r.cleared = w.cleared
      /\ r = [w EXCEPT !.copy = [w.copy EXCEPT ![node] = RemoveAt(list, k)]]
  BY DEF Cut, Works
<1>4. r.copy \in [Nodes -> Seq(Edge)]
  BY <1>1, <1>2, <1>3
<1>5. r \in Works
  BY <1>1, <1>3, <1>4 DEF Works
<1>6. Within(w) => Within(r)
  BY <1>1, <1>2, <1>3 DEF Within
<1>7. Left(r) = Left(w) - 1
  <2>1. f \in [Nodes -> Nat] /\ f[node] = Len(list) /\ Len(list) - 1 \in Nat /\ Len(list) \in Nat
    BY <1>1
  <2>2. [i \in Nodes |-> Len(r.copy[i])] = [f EXCEPT ![node] = Len(list) - 1]
    BY <1>1, <1>2, <1>3
  <2> HIDE DEF f, r, list
  <2>3. SumOf(f) \in Nat /\ SumOf([f EXCEPT ![node] = Len(list) - 1]) + f[node] = SumOf(f) + (Len(list) - 1)
    BY <2>1, SumChanges
  <2>4. SumOf([f EXCEPT ![node] = Len(list) - 1]) \in Nat
    <3>1. [f EXCEPT ![node] = Len(list) - 1] \in [Nodes -> Nat]
      BY <2>1
    <3> QED BY <3>1, SumAdds
  <2>5. Len(w.stack) \in Nat
    BY <1>1
  <2>6. Left(r) = Len(w.stack) + SumOf([f EXCEPT ![node] = Len(list) - 1])
    BY <1>3, <2>2 DEF Left
  <2>7. Left(w) = Len(w.stack) + SumOf(f)
    BY DEF Left, f
  <2> DEFINE a == SumOf([f EXCEPT ![node] = Len(list) - 1])
             b == SumOf(f)
             c == Len(list)
  <2>8. a \in Nat /\ b \in Nat /\ c \in Nat /\ a + c = b + (c - 1)
    BY <2>1, <2>3, <2>4
  <2>9. Left(r) = Len(w.stack) + a /\ Left(w) = Len(w.stack) + b
    BY <2>6, <2>7
  <2> HIDE DEF a, b, c
  <2> QED BY <2>5, <2>8, <2>9
<1> HIDE DEF r
<1> QED BY <1>3, <1>5, <1>6, <1>7 DEF r

\* What is left to do does not grow; and without loops nothing is pushed, since a node an edge
\* leads to has an indegree (graph.cpp asks the graph, not the copy).
LEMMA TurnIs ==
  ASSUME TypeOK, NEW w \in Works, NEW node \in Nodes, NEW i \in Nodes
  PROVE  LET r == Turn(node, i, w)
         IN  /\ r \in Works /\ Left(r) <= Left(w)
             /\ Plain /\ Within(w) =>
                  Within(r) /\ r.stack = w.stack /\ r.sorted = w.sorted /\ r.cleared = w.cleared
<1> DEFINE k == Find(w.copy[node], i)
           r == Turn(node, i, w)
           cut == Cut(w, node, k)
<1>1. w.copy[node] \in Seq(Edge) /\ Left(w) \in Int
  <2>1. w.copy[node] \in Seq(Edge)
    BY DEF Works
  <2>2. Left(w) \in Nat
    BY LeftIs
  <2> HIDE DEF Left
  <2> QED BY <2>1, <2>2
<1>2. CASE w.copy[i] = <<>> \/ k = 0
  <2>1. r = w
    BY <1>2 DEF Turn
  <2> HIDE DEF r
  <2>2. r \in Works /\ Left(r) <= Left(w)
    BY <1>1, <2>1
  <2> QED BY <2>1, <2>2 DEF r
<1>3. CASE ~(w.copy[i] = <<>> \/ k = 0)
  <2>1. k \in 1..Len(w.copy[node]) /\ Leads(w.copy[node], i)
    BY <1>1, <1>3, FindFinds
  <2>2. /\ cut \in Works /\ Left(cut) = Left(w) - 1
        /\ cut.stack = w.stack /\ cut.sorted = w.sorted /\ cut.cleared = w.cleared
        /\ Within(w) => Within(cut)
    <3> HIDE DEF k
    <3> QED BY <2>1, CutIs
  <2>3. CASE get_node_indegree(i) # 0
    <3>1. r = cut
      BY <1>3, <2>3 DEF Turn
    <3> HIDE DEF r, cut
    <3>2. r \in Works /\ Left(r) <= Left(w)
      BY <1>1, <2>2, <3>1
    <3> QED BY <2>2, <3>1, <3>2 DEF r
  <2>4. CASE get_node_indegree(i) = 0
    <3>1. r = [cut EXCEPT !.stack = Append(@, i), !.cleared = @ + 1]
      BY <1>3, <2>4 DEF Turn
    <3> HIDE DEF r, cut
    <3>2. /\ r.copy = cut.copy /\ r.stack = Append(w.stack, i) /\ w.stack \in Seq(Nodes)
          /\ r \in Works
      <4>1. cut \in Works /\ cut.stack = w.stack /\ w.stack \in Seq(Nodes)
        BY <2>2 DEF Works
      <4>2. Append(w.stack, i) \in Seq(Nodes)
        BY <4>1
      <4> DEFINE l == Append(w.stack, i)
                 c == cut.cleared + 1
      <4>3. r = [cut EXCEPT !.stack = l, !.cleared = c]
        BY <3>1, <4>1
      <4>4. c \in Nat
        BY <4>1 DEF Works
      <4>5. l \in Seq(Nodes)
        BY <4>2
      <4> HIDE DEF l, c
      <4>6. r.copy = cut.copy /\ r.stack = l /\ r \in Works
        BY <4>1, <4>3, <4>4, <4>5 DEF Works
      <4>7. r.stack = Append(w.stack, i)
        BY <4>6 DEF l
      <4> QED BY <4>1, <4>6, <4>7
    <3>3. Left(r) = Left(w)
      <4>1. Len(r.stack) = Len(w.stack) + 1 /\ Len(w.stack) \in Nat
        BY <3>2
      <4> DEFINE n == SumOf([j \in Nodes |-> Len(cut.copy[j])])
      <4>2. Left(r) = Len(r.stack) + n /\ Left(cut) = Len(w.stack) + n
        BY <2>2, <3>2 DEF Left
      <4>3. n \in Nat
        <5>1. [j \in Nodes |-> Len(cut.copy[j])] \in [Nodes -> Nat]
          BY <2>2 DEF Works
        <5> QED BY <5>1, SumAdds
      <4> HIDE DEF n
      <4> QED BY <1>1, <2>2, <4>1, <4>2, <4>3
    <3>4. ~(Plain /\ Within(w))
      <4> SUFFICES ASSUME Plain, Within(w) PROVE FALSE
        OBVIOUS
      <4>1. Leads(edges[node], i)
        BY <2>1 DEF Within
      <4>2. node = i
        BY <2>4, <4>1, IndegreeIs
      <4> QED BY <4>1, <4>2, ExistsLeads DEF Plain, Flagged, HasLoop
    <3>5. Left(r) <= Left(w)
      BY <1>1, <3>3
    <3> QED BY <3>2, <3>4, <3>5 DEF r
  <2> QED BY <2>3, <2>4
<1> QED BY <1>2, <1>3

\* The last node of a stack, and the stack without it
LEMMA FrontIs ==
  ASSUME NEW s \in Seq(Nodes), s # <<>>
  PROVE  /\ Len(s) \in Nat \ {0} /\ DOMAIN s = 1..Len(s) /\ Last(s) = s[Len(s)] /\ Last(s) \in Nodes
         /\ Front(s) \in Seq(Nodes) /\ Len(Front(s)) = Len(s) - 1
         /\ DOMAIN Front(s) = 1..(Len(s) - 1)
         /\ \A k \in 1..(Len(s) - 1) : Front(s)[k] = s[k]
<1>1. Len(s) \in Nat \ {0} /\ DOMAIN s = 1..Len(s) /\ \A k \in 1..Len(s) : s[k] \in Nodes
  <2>1. Len(s) \in Nat /\ DOMAIN s = 1..Len(s) /\ \A k \in 1..Len(s) : s[k] \in Nodes
    OBVIOUS
  <2>2. Len(s) # 0
    OBVIOUS
  <2> QED BY <2>1, <2>2
<1>2. Last(s) = s[Len(s)] /\ Last(s) \in Nodes
  BY <1>1 DEF Last
<1>3. Front(s) = [k \in 1..(Len(s) - 1) |-> s[k]]
  BY <1>1 DEF Front
<1>4. Front(s) \in [1..(Len(s) - 1) -> Nodes] /\ Len(s) - 1 \in Nat
  BY <1>1, <1>3
<1>5. Front(s) \in Seq(Nodes) /\ Len(Front(s)) = Len(s) - 1
  BY <1>4
<1> QED BY <1>1, <1>2, <1>3, <1>5

\* A node is taken: less is left to do; and without loops nothing is pushed.
LEMMA TakeIs ==
  ASSUME TypeOK, NEW w \in Works, w.stack # <<>>
  PROVE  LET r == Take(w)
         IN  /\ r \in Works /\ Left(r) <= Left(w) - 1
             /\ Plain /\ Within(w) =>
                  /\ Within(r) /\ r.stack = Front(w.stack)
                  /\ r.sorted = Append(w.sorted, Last(w.stack)) /\ r.cleared = w.cleared
<1> DEFINE node == Last(w.stack)
           w0 == [w EXCEPT !.stack = Front(@), !.sorted = Append(@, node)]
           Stays(u) == /\ Within(u) /\ u.stack = Front(w.stack)
                       /\ u.sorted = Append(w.sorted, Last(w.stack)) /\ u.cleared = w.cleared
           V == {u \in Works : Left(u) <= Left(w) - 1 /\ (Plain /\ Within(w) => Stays(u))}
           step == [n \in 1..N |-> [acc \in V |-> Turn(node, n - 1, acc)]]
           F(f) == [n \in 0..N |->
                     IF n = 0 THEN w0
                     ELSE LET acc == f[n - 1]
                              k == Find(acc.copy[node], n - 1)
                              cut == Cut(acc, node, k)
                          IN  IF acc.copy[n - 1] = <<>> \/ k = 0 THEN acc
                              ELSE IF get_node_indegree(n - 1) # 0 THEN cut
                              ELSE [cut EXCEPT !.stack = Append(@, n - 1), !.cleared = @ + 1]]
           g == CHOOSE f : f = F(f)
<1>1. N \in Nat /\ \A n \in 1..N : n - 1 \in Nodes
  BY GraphAssumption DEF Nodes
<1>2. Take(w) = g[N]
  BY DEF Take
<1>3. /\ w.stack \in Seq(Nodes) /\ w.sorted \in Seq(Nodes)
      /\ node \in Nodes /\ Front(w.stack) \in Seq(Nodes) /\ Len(Front(w.stack)) = Len(w.stack) - 1
      /\ Len(w.stack) \in Nat
  <2>1. w.stack \in Seq(Nodes) /\ w.sorted \in Seq(Nodes)
    BY DEF Works
  <2> QED BY <2>1, FrontIs
<1>4. w0 \in V
  <2> DEFINE l == Front(w.stack)
             o == Append(w.sorted, node)
  <2>1. l \in Seq(Nodes) /\ o \in Seq(Nodes)
    BY <1>3
  <2>2. w0 = [w EXCEPT !.stack = l, !.sorted = o]
    OBVIOUS
  <2> HIDE DEF l, o, node, w0
  <2>3. /\ w0 \in Works /\ w0.copy = w.copy /\ w0.stack = l /\ w0.sorted = o
        /\ w0.cleared = w.cleared
    BY <2>1, <2>2 DEF Works
  <2>4. Left(w0) = Left(w) - 1
    <3> DEFINE n == SumOf([j \in Nodes |-> Len(w.copy[j])])
    <3>1. Left(w0) = Len(l) + n /\ Left(w) = Len(w.stack) + n
      BY <2>3 DEF Left
    <3>2. n \in Nat
      <4>1. [j \in Nodes |-> Len(w.copy[j])] \in [Nodes -> Nat]
        BY DEF Works
      <4> QED BY <4>1, SumAdds
    <3> HIDE DEF n
    <3> QED BY <1>3, <3>1, <3>2 DEF l
  <2>5. Left(w0) <= Left(w) - 1
    <3>1. Left(w) \in Nat
      BY LeftIs
    <3> QED BY <2>4, <3>1
  <2>6. Within(w) => Stays(w0)
    BY <2>3 DEF Within, l, o, node
  <2> QED BY <2>3, <2>5, <2>6
<1>5. ASSUME NEW n \in 1..N, NEW acc \in V PROVE Turn(node, n - 1, acc) \in V
  <2> DEFINE r == Turn(node, n - 1, acc)
  <2>1. acc \in Works /\ Left(acc) <= Left(w) - 1 /\ (Plain /\ Within(w) => Stays(acc))
    OBVIOUS
  <2>2. /\ r \in Works /\ Left(r) <= Left(acc)
        /\ Plain /\ Within(acc) =>
             /\ Within(r) /\ r.stack = acc.stack /\ r.sorted = acc.sorted
             /\ r.cleared = acc.cleared
    <3> HIDE DEF node, V
    <3> QED BY <1>1, <1>3, <2>1, TurnIs
  <2>3. Left(r) \in Nat /\ Left(acc) \in Nat /\ Left(w) \in Nat
    <3> HIDE DEF r
    <3> QED BY <2>1, <2>2, LeftIs
  <2> HIDE DEF r
  <2>4. Left(r) <= Left(w) - 1
    BY <2>1, <2>2, <2>3
  <2>5. Plain /\ Within(w) => Stays(r)
    BY <2>1, <2>2
  <2> QED BY <2>2, <2>4, <2>5 DEF r
<1> HIDE DEF V, w0
<1>6. step \in Steps(N, V)
  BY <1>5 DEF Steps
<1>7. PICK s \in Values(N, V) : Runs(s, N, w0, step)
  <2> HIDE DEF step
  <2> QED BY <1>1, <1>4, <1>6, LoopRuns
<1>8. \A n \in 0..N : s[n] \in V
  BY <1>7 DEF Values
<1>9. ASSUME NEW f, NEW n \in 0..N
      PROVE  F(f)[n] = IF n = 0 THEN w0 ELSE Turn(node, n - 1, f[n - 1])
  BY DEF Turn
<1>10. s = F(s)
  <2>1. ASSUME NEW n \in 0..N PROVE s[n] = F(s)[n]
    <3> HIDE DEF F
    <3>1. CASE n = 0
      BY <1>7, <1>9, <3>1 DEF Runs
    <3>2. CASE n # 0
      <4>1. n \in 1..N /\ n - 1 \in 0..N
        BY <1>1, <3>2
      <4>2. s[n] = step[n][s[n - 1]]
        BY <1>7, <4>1 DEF Runs
      <4>3. s[n] = Turn(node, n - 1, s[n - 1])
        BY <1>8, <4>1, <4>2
      <4> QED BY <1>9, <3>2, <4>3
    <3> QED BY <3>1, <3>2
  <2>2. s = [n \in 0..N |-> s[n]]
    BY <1>7 DEF Values
  <2>3. F(s) = [n \in 0..N |-> F(s)[n]]
    OBVIOUS
  <2> HIDE DEF F
  <2> QED BY <2>1, <2>2, <2>3
<1>11. g = F(g)
  <2> HIDE DEF F
  <2> QED BY <1>10
<1> HIDE DEF g, F
<1>12. g[0] = w0 /\ \A n \in 1..N : g[n] = Turn(node, n - 1, g[n - 1])
  BY <1>1, <1>9, <1>11
<1> DEFINE S == {n \in 0..N : g[n] \in V}
<1>13. 0 \in S
  BY <1>1, <1>4, <1>12
<1>14. ASSUME NEW n \in 1..N, n - 1 \in S PROVE n \in S
  BY <1>5, <1>12, <1>14
<1> HIDE DEF S
<1>15. 0..N \subseteq S
  <2>1. \A n \in 1..N : n - 1 \in S => n \in S
    BY <1>14
  <2> QED BY <1>1, <1>13, <2>1, UpTo
<1>16. g[N] \in V
  BY <1>1, <1>15 DEF S
<1> QED BY <1>2, <1>16 DEF V

Once(l) == \A j, k \in DOMAIN l : l[j] = l[k] => j = k

\* A node that is moved from the end of one list to the end of another
LEMMA MovedIs ==
  ASSUME NEW s \in Seq(Nodes), s # <<>>, NEW o \in Seq(Nodes),
         Once(s), Once(o), ToSet(s) \cap ToSet(o) = {}
  PROVE  LET p == Front(s)
             q == Append(o, Last(s))
         IN  /\ Once(p) /\ Once(q) /\ ToSet(p) \cap ToSet(q) = {}
             /\ ToSet(p) \cup ToSet(q) = ToSet(s) \cup ToSet(o)
<1> DEFINE x == Last(s)
           p == Front(s)
           q == Append(o, x)
           m == Len(s) - 1
           n == Len(o)
<1>1. /\ m \in Nat /\ DOMAIN s = 1..(m + 1) /\ x = s[m + 1] /\ x \in Nodes
      /\ DOMAIN p = 1..m /\ \A k \in 1..m : p[k] = s[k]
  <2>1. /\ Len(s) \in Nat \ {0} /\ DOMAIN s = 1..Len(s) /\ Last(s) = s[Len(s)] /\ Last(s) \in Nodes
        /\ DOMAIN Front(s) = 1..(Len(s) - 1) /\ \A k \in 1..(Len(s) - 1) : Front(s)[k] = s[k]
    BY FrontIs
  <2>2. m \in Nat /\ m + 1 = Len(s)
    BY <2>1
  <2> QED BY <2>1, <2>2
<1>2. /\ n \in Nat /\ DOMAIN o = 1..n /\ DOMAIN q = 1..(n + 1)
      /\ q[n + 1] = x /\ \A k \in 1..n : q[k] = o[k]
  <2> HIDE DEF x
  <2> QED BY <1>1
<1> HIDE DEF p, q, m, n, x
<1>3. ToSet(s) = ToSet(p) \cup {x} /\ x \notin ToSet(p)
  BY <1>1 DEF ToSet, Once
<1>4. ToSet(q) = ToSet(o) \cup {x}
  BY <1>2 DEF ToSet
<1>5. Once(p)
  BY <1>1 DEF Once
<1>6. Once(q)
  <2>1. \A k \in 1..n : o[k] # x
    BY <1>2, <1>3 DEF ToSet
  <2> QED BY <1>2, <2>1 DEF Once
<1> QED BY <1>3, <1>4, <1>5, <1>6 DEF p, q, x

\* The loop over the stack ends, since every node that is taken makes less of what is left to
\* do; and without loops what it lists are the nodes it began with, each of them once.
LEMMA KahnIs ==
  TypeOK => /\ Kahn.stack = <<>> /\ Kahn.sorted \in Seq(Nodes)
            /\ Plain => /\ Kahn.cleared = 0 /\ Once(Kahn.sorted)
                        /\ ToSet(Kahn.sorted) = {i \in Nodes : get_node_indegree(i) = 0}
<1> SUFFICES ASSUME TypeOK
             PROVE  /\ Kahn.stack = <<>> /\ Kahn.sorted \in Seq(Nodes)
                    /\ Plain => /\ Kahn.cleared = 0 /\ Once(Kahn.sorted)
                                /\ ToSet(Kahn.sorted) = {i \in Nodes : get_node_indegree(i) = 0}
  OBVIOUS
<1> DEFINE M == N + count_edges
           w0 == [copy |-> edges, stack |-> Roots, sorted |-> <<>>, cleared |-> 0]
           Order(w) == /\ Within(w) /\ w.cleared = 0 /\ Once(w.stack) /\ Once(w.sorted)
                       /\ ToSet(w.stack) \cap ToSet(w.sorted) = {}
                       /\ ToSet(w.stack) \cup ToSet(w.sorted)
                            = {i \in Nodes : get_node_indegree(i) = 0}
           V == {w \in Works : Plain => Order(w)}
           Next1(w) == IF w.stack = <<>> THEN w ELSE Take(w)
           step == [n \in 1..M |-> [w \in V |-> Next1(w)]]
           F(f) == [n \in 0..M |-> IF n = 0 THEN w0 ELSE Next1(f[n - 1])]
           g == CHOOSE f : f = F(f)
<1>1. M \in Nat /\ count_edges \in Nat /\ count_edges = SumOf([i \in Nodes |-> Len(edges[i])])
  <2>1. count_edges = SumOf([i \in Nodes |-> Len(edges[i])])
    BY DEF count_edges, SumOver, get_node_outdegree
  <2>2. [i \in Nodes |-> Len(edges[i])] \in [Nodes -> Nat]
    BY DEF TypeOK
  <2>3. count_edges \in Nat
    BY <2>1, <2>2, SumAdds
  <2> QED BY <2>1, <2>3, GraphAssumption
<1>2. Kahn = g[M]
  BY DEF Kahn
<1>3. w0 \in V /\ w0.stack = Roots
  <2>1. Roots \in Seq(Nodes) /\ Once(Roots) /\ ToSet(Roots) = {i \in Nodes : get_node_indegree(i) = 0}
    BY RootsAre DEF Once, ToSet
  <2>2. edges \in [Nodes -> Seq(Edge)]
    BY DEF TypeOK
  <2>3. w0 \in Works
    BY <2>1, <2>2 DEF Works
  <2>4. Once(<<>>) /\ ToSet(<<>>) = {}
    BY DEF Once, ToSet
  <2>5. Within(w0)
    BY DEF Within
  <2> QED BY <2>1, <2>3, <2>4, <2>5
<1>4. Left(w0) <= M
  <2>1. Left(w0) = Len(Roots) + count_edges
    BY <1>1 DEF Left
  <2>2. Len(Roots) <= N /\ Len(Roots) \in Nat
    <3>1. Roots \in Seq(Nodes) /\ Len(Roots) <= N
      BY RootsAre
    <3> QED BY <3>1
  <2> QED BY <1>1, <2>1, <2>2, GraphAssumption
<1>5. ASSUME NEW w \in V
      PROVE  /\ Next1(w) \in V
             /\ w.stack # <<>> => Left(Next1(w)) <= Left(w) - 1
             /\ w.stack = <<>> => Next1(w) = w
  <2>1. CASE w.stack = <<>>
    BY <2>1
  <2>2. CASE w.stack # <<>>
    <3> DEFINE r == Take(w)
    <3>1. w \in Works /\ (Plain => Order(w)) /\ Next1(w) = r
      BY <2>2
    <3>2. w.stack \in Seq(Nodes) /\ w.sorted \in Seq(Nodes)
      BY <3>1 DEF Works
    <3>3. /\ r \in Works /\ Left(r) <= Left(w) - 1
          /\ Plain /\ Within(w) =>
               /\ Within(r) /\ r.stack = Front(w.stack)
               /\ r.sorted = Append(w.sorted, Last(w.stack)) /\ r.cleared = w.cleared
      BY <2>2, <3>1, TakeIs
    <3> HIDE DEF r, V
    <3>4. ASSUME Plain PROVE Order(r)
      <4> DEFINE p == Front(w.stack)
                 q == Append(w.sorted, Last(w.stack))
      <4>1. Order(w)
        BY <3>1, <3>4
      <4>2. Within(r) /\ r.stack = p /\ r.sorted = q /\ r.cleared = 0
        BY <3>3, <3>4, <4>1
      <4>3. /\ Once(p) /\ Once(q) /\ ToSet(p) \cap ToSet(q) = {}
            /\ ToSet(p) \cup ToSet(q) = ToSet(w.stack) \cup ToSet(w.sorted)
        BY <2>2, <3>2, <4>1, MovedIs
      <4> HIDE DEF p, q
      <4> QED BY <4>1, <4>2, <4>3
    <3> HIDE DEF Order, Next1
    <3>5. r \in V
      BY <3>3, <3>4 DEF V
    <3> QED BY <2>2, <3>1, <3>3, <3>5, Zenon
  <2> QED BY <2>1, <2>2
<1>6. \A w \in V : w \in Works
  OBVIOUS
<1>7. ASSUME NEW w \in V, Plain PROVE Order(w)
  BY <1>7
<1> HIDE DEF V, w0, Next1, M, Order
<1>8. step \in Steps(M, V)
  BY <1>5 DEF Steps
<1>9. PICK s \in Values(M, V) : Runs(s, M, w0, step)
  <2> HIDE DEF step
  <2> QED BY <1>1, <1>3, <1>8, LoopRuns
<1>10. \A n \in 0..M : s[n] \in V
  BY <1>9 DEF Values
<1>11. s = F(s)
  <2>1. ASSUME NEW n \in 0..M PROVE s[n] = IF n = 0 THEN w0 ELSE Next1(s[n - 1])
    <3>1. CASE n = 0
      BY <1>9, <3>1 DEF Runs
    <3>2. CASE n # 0
      <4>1. n \in 1..M /\ n - 1 \in 0..M
        BY <1>1, <3>2
      <4>2. s[n] = step[n][s[n - 1]]
        BY <1>9, <4>1 DEF Runs
      <4> QED BY <1>10, <3>2, <4>1, <4>2
    <3> QED BY <3>1, <3>2
  <2>2. s = [n \in 0..M |-> s[n]]
    BY <1>9 DEF Values
  <2> QED BY <2>1, <2>2
<1>12. g = F(g)
  BY <1>11
<1> HIDE DEF g
<1>13. g[0] = w0 /\ \A n \in 1..M : g[n] = Next1(g[n - 1])
  BY <1>1, <1>12
<1> DEFINE S == {n \in 0..M : g[n] \in V /\ (g[n].stack = <<>> \/ Left(g[n]) <= M - n)}
<1>14. 0 \in S
  BY <1>1, <1>3, <1>4, <1>13
<1>15. ASSUME NEW n \in 1..M, n - 1 \in S PROVE n \in S
  <2> DEFINE w == g[n - 1]
  <2>1. w \in V /\ (w.stack = <<>> \/ Left(w) <= M - (n - 1))
    BY <1>15
  <2>2. g[n] = Next1(w) /\ n \in 0..M
    BY <1>1, <1>13
  <2> HIDE DEF w
  <2>3. g[n] \in V
    BY <1>5, <2>1, <2>2
  <2>4. CASE w.stack = <<>>
    <3>1. g[n] = w
      BY <1>5, <2>1, <2>2, <2>4
    <3> QED BY <2>2, <2>3, <2>4, <3>1
  <2>5. CASE w.stack # <<>>
    <3>1. Left(g[n]) <= Left(w) - 1
      BY <1>5, <2>1, <2>2, <2>5
    <3>2. Left(g[n]) \in Nat /\ Left(w) \in Nat
      BY <1>6, <2>1, <2>3, LeftIs
    <3>3. Left(w) <= M - (n - 1)
      BY <2>1, <2>5
    <3>4. Left(g[n]) <= M - n
      BY <1>1, <3>1, <3>2, <3>3
    <3> QED BY <2>2, <2>3, <3>4
  <2> QED BY <2>4, <2>5
<1> HIDE DEF S
<1>16. 0..M \subseteq S
  <2>1. \A n \in 1..M : n - 1 \in S => n \in S
    BY <1>15
  <2> QED BY <1>1, <1>14, <2>1, UpTo
<1>17. g[M] \in V /\ g[M] \in Works /\ (g[M].stack = <<>> \/ Left(g[M]) <= 0)
  <2>1. M \in S /\ M - M = 0
    BY <1>1, <1>16
  <2> QED BY <1>6, <2>1 DEF S
<1>18. g[M].stack \in Seq(Nodes) /\ g[M].sorted \in Seq(Nodes)
  BY <1>17 DEF Works
<1>19. g[M].stack = <<>>
  <2> SUFFICES ASSUME g[M].stack # <<>> PROVE FALSE
    OBVIOUS
  <2>1. Len(g[M].stack) \in Nat \ {0}
    BY <1>18, FrontIs
  <2> DEFINE a == Len(g[M].stack)
             b == SumOf([i \in Nodes |-> Len(g[M].copy[i])])
  <2>2. b \in Nat
    <3>1. [i \in Nodes |-> Len(g[M].copy[i])] \in [Nodes -> Nat]
      BY <1>17 DEF Works
    <3> QED BY <3>1, SumAdds
  <2>3. Left(g[M]) = a + b
    BY DEF Left
  <2> HIDE DEF a, b
  <2>4. a \in Nat \ {0}
    BY <2>1 DEF a
  <2>5. a + b <= 0
    BY <1>17, <2>3
  <2> QED BY <2>2, <2>4, <2>5
<1>20. ASSUME Plain
       PROVE  /\ g[M].cleared = 0 /\ Once(g[M].sorted)
              /\ ToSet(g[M].sorted) = {i \in Nodes : get_node_indegree(i) = 0}
  <2>1. Order(g[M])
    BY <1>7, <1>17, <1>20
  <2>2. ToSet(g[M].stack) = {}
    BY <1>19 DEF ToSet
  <2> QED BY <2>1, <2>2 DEF Order
<1> QED BY <1>2, <1>18, <1>19, <1>20

\* Without loops, a graph without an edge to any node is one without edges.
LEMMA NoEdgesNoEnds ==
  ASSUME TypeOK, Plain
  PROVE  (\A i \in Nodes : get_node_indegree(i) = 0) <=> count_edges = 0
<1> DEFINE out == [i \in Nodes |-> Len(edges[i])]
           zero == [i \in Nodes |-> 0]
<1>1. /\ \A i \in Nodes : edges[i] \in Seq(Edge) /\ Len(edges[i]) \in Nat
                          /\ DOMAIN edges[i] = 1..Len(edges[i])
      /\ \A i \in Nodes : \A k \in DOMAIN edges[i] : edges[i][k].to \in Nodes
  <2>1. \A i \in Nodes : /\ edges[i] \in Seq(Edge) /\ Len(edges[i]) \in Nat
                         /\ DOMAIN edges[i] = 1..Len(edges[i])
                         /\ \A k \in DOMAIN edges[i] : edges[i][k] \in Edge
    BY DEF TypeOK
  <2>2. \A e \in Edge : e.to \in Nodes
    BY DEF Edge
  <2> QED BY <2>1, <2>2
<1>2. out \in [Nodes -> Nat] /\ count_edges = SumOf(out)
  BY <1>1 DEF count_edges, SumOver, get_node_outdegree
<1>3. SumOf(zero) = 0
  <2>1. 0 \in Nodes /\ 0 \in Nat
    BY GraphAssumption DEF Nodes
  <2>2. SumOf([j \in Nodes |-> IF j = 0 THEN 0 ELSE 0]) = 0
    BY <2>1, SumSingle
  <2>3. [j \in Nodes |-> IF j = 0 THEN 0 ELSE 0] = zero
    OBVIOUS
  <2> QED BY <2>2, <2>3
<1>4. ASSUME \A i \in Nodes : get_node_indegree(i) = 0 PROVE count_edges = 0
  <2>1. ASSUME NEW i \in Nodes, NEW j \in Nodes PROVE ~Leads(edges[i], j)
    <3>1. ~Leads(edges[i], i)
      BY ExistsLeads DEF Plain, Flagged, HasLoop
    <3>2. i # j => ~Leads(edges[i], j)
      BY <1>4, IndegreeIs
    <3> QED BY <3>1, <3>2
  <2>2. ASSUME NEW i \in Nodes PROVE Len(edges[i]) = 0
    <3>1. \A k \in DOMAIN edges[i] : FALSE
      BY <1>1, <2>1 DEF Leads
    <3>2. Len(edges[i]) \in Nat /\ DOMAIN edges[i] = 1..Len(edges[i])
      BY <1>1
    <3>3. Len(edges[i]) # 0 => 1 \in 1..Len(edges[i])
      BY <3>2
    <3> QED BY <3>1, <3>2, <3>3
  <2>3. out = zero
    BY <2>2
  <2> HIDE DEF out, zero
  <2> QED BY <1>2, <1>3, <2>3
<1>5. ASSUME count_edges = 0, NEW i \in Nodes PROVE get_node_indegree(i) = 0
  <2>1. ASSUME NEW from \in Nodes PROVE Cardinality(EdgesTo(i, from)) = 0
    <3>1. out[from] <= SumOf(out) /\ out[from] \in Nat
      <4> HIDE DEF out
      <4> QED BY <1>2, SumChanges
    <3>2. Len(edges[from]) = 0
      <4>1. out[from] = 0
        <5> HIDE DEF out
        <5> QED BY <1>2, <1>5, <3>1
      <4> QED BY <4>1
    <3>3. DOMAIN edges[from] = {}
      BY <1>1, <3>2
    <3>4. EdgesTo(i, from) = {}
      BY <3>3 DEF EdgesTo
    <3> QED BY <3>4, FS_EmptySet
  <2> DEFINE f == [from \in Nodes |-> IF from = i /\ ~has_loops THEN 0
                                      ELSE Cardinality(EdgesTo(i, from))]
  <2>2. get_node_indegree(i) = SumOf(f)
    BY DEF get_node_indegree, SumOver
  <2>3. f = zero
    BY <2>1
  <2> HIDE DEF f, zero
  <2> QED BY <1>3, <2>2, <2>3
<1> QED BY <1>4, <1>5

\* A list with every node has an element.
LEMMA FullIsNotEmpty ==
  ASSUME NEW s, Len(s) = N
  PROVE  s # <<>>
<1>1. Len(<<>>) = 0 /\ N # 0
  BY GraphAssumption
<1> QED BY <1>1

\* What topological_sort() returns, where the flag tells the truth about loops
LEMMA SortIs ==
  ASSUME TypeOK, Flagged
  PROVE  /\ topological_sort # <<>> => ToSet(topological_sort) = Nodes
         /\ ~has_loops =>
              (topological_sort # <<>>
                 <=> Roots = <<>> \/ \A i \in Nodes : get_node_indegree(i) = 0)
<1>0. N \in Nat /\ N # 0
  BY GraphAssumption
<1>1. CASE has_loops
  BY <1>1 DEF topological_sort
<1>2. CASE ~has_loops /\ Roots = <<>>
  <2>1. Sorted = <<DepthFirst.sorted, 0>>
    BY <1>2, DepthFirstIs DEF Sorted
  <2>2. /\ Len(DepthFirst.sorted) = N
        /\ {DepthFirst.sorted[k] : k \in DOMAIN DepthFirst.sorted} = Nodes
    BY DepthFirstIs
  <2>3. topological_sort = DepthFirst.sorted
    BY <1>0, <1>2, <2>1, <2>2 DEF topological_sort
  <2>4. DepthFirst.sorted # <<>>
    BY <2>2, FullIsNotEmpty
  <2> QED BY <1>2, <2>2, <2>3, <2>4 DEF ToSet
<1>3. CASE ~has_loops /\ Roots # <<>>
  <2> DEFINE o == Kahn.sorted
  <2>1. /\ o \in Seq(Nodes) /\ Kahn.cleared = 0 /\ Once(o)
        /\ ToSet(o) = {i \in Nodes : get_node_indegree(i) = 0}
    BY <1>3, KahnIs DEF Plain
  <2>2. Sorted = <<o, 0>>
    BY <1>3, <2>1 DEF Sorted
  <2> HIDE DEF o
  <2>3. topological_sort = IF Len(o) # N THEN <<>> ELSE o
    BY <1>0, <1>3, <2>2 DEF topological_sort
  <2>4. Len(o) = N <=> ToSet(o) = Nodes
    BY <2>1, Pigeons DEF Once, ToSet
  <2>5. topological_sort # <<>> <=> Len(o) = N
    BY <2>3, FullIsNotEmpty
  <2>6. ToSet(o) = Nodes <=> \A i \in Nodes : get_node_indegree(i) = 0
    BY <2>1
  <2> QED BY <1>3, <2>3, <2>4, <2>5, <2>6
<1> QED BY <1>1, <1>2, <1>3

\* topological_sort() ends on every graph, however it was changed, since a node is only pushed for
\* an edge that is removed from the copy (graph.cpp:287). That of a graph that was loaded has every
\* node once, or nothing; and it goes by the nodes without edges to them alone: depth first
\* never meets the test for a cycle, and the loop over the stack pushes no node it did not begin with.
THEOREM SortHasItsOutcome == Spec => []SortOutcome
<1>1. TypeOK /\ LoopsAreFlagged => SortOutcome
  <2> SUFFICES ASSUME TypeOK, LoopsAreFlagged PROVE SortOutcome
    OBVIOUS
  <2>1. SortEnds
    BY KahnIs DEF SortEnds
  <2>2. ASSUME origin = "loaded" PROVE SortListsEveryNode /\ SortGoesByRoots
    <3>1. Flagged
      BY <2>2 DEF LoopsAreFlagged
    <3>2. SortListsEveryNode
      BY <3>1, SortIs DEF SortListsEveryNode
    <3>3. ASSUME ~has_loops PROVE topological_sort # <<>> <=> Roots = <<>> \/ count_edges = 0
      <4>1. Plain
        BY <3>1, <3>3 DEF Plain
      <4> QED BY <3>1, <3>3, <4>1, SortIs, NoEdgesNoEnds
    <3> QED BY <3>2, <3>3 DEF SortGoesByRoots
  <2> QED BY <2>1, <2>2 DEF SortOutcome
<1> QED BY <1>1, GraphTypes, FlagTellsOfLoops, PTL
=============================================================================
