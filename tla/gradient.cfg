SPECIFICATION MCSpec
CONSTANTS
  Epsilon = 2
  Registers = {a, b}
  Samples <- MCSamples
  MaxCalls = 4
  MaxN = 11
  FirstRows = 9
  Wrap = 256
  Objects = {o1, o2}
  Threads = {t1, t2}
  Slots = {s1, s2, s3}
  BaseSlots = {s3}
  MaxSteps = 5
  MaxSinkId = 4
  Names = {"app"}
  MaxLogCalls = 6
  Networks <- MCNetworks
  TrainingSets <- MCTrainingSets
  MaxIterations = 2
INVARIANT GradientIsExact
CHECK_DEADLOCK FALSE
