\* Two peers whose session has just come up with different stores, and may
\* publish and graft meanwhile; one frame may be lost.  Ranges hold two
\* records.  The peers rest only between two probes.
CONSTANTS
  t = t
  Topic = {t}
  NodeID = {1, 2, 3, 4, 5}
  NoNode = NoNode
  Key = {0, 1}
  EmptyKey = 0
  NoRecord = NoRecord
  Trusted = {4, 5}
  MaxRecordsPerTopic = 9
  MaxKeysPerNode = 9
  MaxAttestations = 9
  Window = 1
  CtrSpan = 2
  MaxHLC = 9
  MaxObservedAt = 9
  Node = {1, 2}
  Link <- Pair
  Message <- Exchanged
  Backlog <- Backlogs
  TreeDegree = 2
  EagerTTL = 3
  MaxIHaves = 4
  Quorum = 2
  maxRangeSize = 2
  MaxLoss = 1
CHECK_DEADLOCK FALSE
SPECIFICATION FairSpec
PROPERTIES LazyPeersAgree DeathSpreads
