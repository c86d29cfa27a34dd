SPECIFICATION Spec
CONSTANTS
  STRESS_TEST_GC = FALSE
  InitialThreshold = 4
  SizeOf <- MCSizeOf
  RootSource = {"m_value_stack", "m_current_compiler"}
  MaxLive <- ClassTypes
  ClassesStayReachable = TRUE
  MaxAllocations = 6
INVARIANTS
  Inv
  Accounting
  HeapBounded
  ResetFreesAll
PROPERTIES
  CollectsAllGarbage
  AllocationServed
CHECK_DEADLOCK FALSE
