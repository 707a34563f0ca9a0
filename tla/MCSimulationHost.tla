-------------------------- MODULE MCSimulationHost --------------------------
EXTENDS SimulationHost

CONSTANTS p1, p2
MCPaths == {p1, p2}
MCLayerLists == {<<>>, <<p1>>, <<p1, p2>>, <<p1, p1>>}

Event(id, interval, first, last) ==
  [id |-> id, interval |-> interval, first |-> first, last |-> last]
MCEvents == {Event(id, 0, step, step) : id \in {NoId, 0, 1}, step \in {1, 2}}
              \cup {Event(NoId, 0, 1, 2), Event(NoId, 1, 0, 0)}
MCScripts == {<<>>} \cup {<<e>> : e \in MCEvents} \cup {<<e, f>> : e, f \in MCEvents}

\* Every script from time 0 without layers; and when the time is over, every list of layers and
\* what the paths in it lead to.
MCInit ==
  /\ Init
  /\ \/ layers = <<>> /\ file = [p \in MCPaths |-> "layer"] /\ now = 0
     \/ /\ script = <<>> /\ now = MaxTime
        /\ \A p \in MCPaths : file[p] = "layer" \/ \E i \in DOMAIN layers : layers[i] = p
MCSpec == MCInit /\ [][Next]_vars /\ WF_vars(Sim) /\ WF_vars(Io) /\ WF_vars(IoHandler)
=============================================================================
