SPECIFICATION FairSpec
CONSTANTS
  p1 = p1
  p2 = p2
  Peers <- MCPeers
  MaxEvents = 2
INVARIANTS
  TypeOK
  ControlHandedOver
  ShutdownAnswerIsFresh
  NoErrorWithoutStop
  ServesOnlyInitialized
  ShutdownRequestNotLost
  DrainedBeforeHandOver
PROPERTIES
  StateMovesForward
  ControlMessageReachesItsPhase
  ImplementsService
  StopEndsThread
  SignalEndsProgram
CHECK_DEADLOCK FALSE
