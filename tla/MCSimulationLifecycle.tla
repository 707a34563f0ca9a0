----------------------- MODULE MCSimulationLifecycle -----------------------
EXTENDS SimulationLifecycle

CONSTANTS p1, p2
MCPeers == {p1, p2}
=============================================================================
