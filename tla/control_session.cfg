SPECIFICATION Spec
CONSTANT Kinds <- MCKinds
INVARIANTS
  TypeOK
  CountedAfterAsked
  CountedOnce
  QuietShutdownIsClean
PROPERTIES
  QuietShutdownCompletes
  ShutdownCompletes
  StoppedSessionIsQuiet
CHECK_DEADLOCK FALSE
