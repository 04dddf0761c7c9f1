\* Two goroutines; a bucket of 2 bytes per 3 ticks, so that a tick earns a
\* fraction; a product leaves the word after 5 idle ticks and, having gone
\* once round it, earns again after 11.
CONSTANTS
  h1 = h1
  h2 = h2
  Pusher = {h1, h2}
  Cost = {1, 2}
  AdaptiveInterval = 1
  BackpressureMax = 2
  BandwidthCap = 2
  EgressTokens = 1
  Second = 3
  WordSpan = 18
  MaxTime = 11
SYMMETRY Perms
SPECIFICATION ThrottleSpec
INVARIANTS WindowHolds RateHolds RefusalMeansSpent
