\* Two goroutines, three calls, a counter of three values: wraps are reached.
CONSTANTS
  th1 = th1
  th2 = th2
  Thread = {th1, th2}
  CtrSpan = 3
  SkewBudget = 1
  MaxWall = 2
  Remote <- RemoteStamps
  MaxCalls = 3
SPECIFICATION ClockFairSpec
INVARIANTS WordCoversHistory SkewClamped
PROPERTIES StampsIncrease CallsReturn
