SPECIFICATION Spec
CONSTANTS
  STRESS_TEST_GC = TRUE
  InitialThreshold = 4
  SizeOf <- MCSizeOf
  RootSource = {"m_value_stack", "m_current_compiler"}
  MaxLive <- ClassTypes
  ClassesStayReachable = FALSE
  MaxAllocations = 6
INVARIANTS
  NoDangling
CHECK_DEADLOCK FALSE
