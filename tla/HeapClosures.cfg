SPECIFICATION Spec
CONSTANTS
  STRESS_TEST_GC = TRUE
  InitialThreshold = 4
  SizeOf <- MCSizeOf
  RootSource = {"m_frames", "m_open_upvalues", "m_current_compiler"}
  MaxLive <- ClosureTypes
  ClassesStayReachable = TRUE
  MaxAllocations = 5
INVARIANTS
  ListHoldsLive
  NoTracedDangling
  MarksClear
  Tricolor
PROPERTIES
  ImplementsCollector
CHECK_DEADLOCK FALSE
