\* Two callers of Start, one Stop, one receive callback, two governors.
CONSTANTS
  a1 = a1
  a2 = a2
  h1 = h1
  Starter = {a1, a2}
  Callback = {h1}
  g1 = g1
  g2 = g2
  Governor = {g1, g2}
CHECK_DEADLOCK FALSE
SPECIFICATION LifeFairSpec
INVARIANTS OrderlyStopJoins
PROPERTIES OrderlyStopEnds PauseTakesEffect
