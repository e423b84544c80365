SPECIFICATION Spec
CONSTANTS
  NRings = 3
  Pages = 8
  Requests <- MCRequests
  MaxBig = 2
INVARIANTS MemoryInv RingsMapped ContextsReclaimed Layout
CHECK_DEADLOCK FALSE
