\* Three nodes, every pair linked.  The system stops at the bound of the clock.
SPECIFICATION SimSpec
CONSTANTS
  Node = {1, 2, 3}
  Edge <- FullMesh
  LatencyMs = 1
  JitterMs = 1
  MaxLoss = 1
  Record <- Published
  MaxTime = 10
INVARIANTS FloodArrives FloodDiesOut
CHECK_DEADLOCK FALSE
