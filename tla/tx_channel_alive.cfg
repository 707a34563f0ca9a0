SPECIFICATION Spec
CONSTANTS
  p1 = p1
  p2 = p2
  Peers <- MCPeers
  MaxEvents = 2
INVARIANT TxChannelAlive
CHECK_DEADLOCK FALSE
