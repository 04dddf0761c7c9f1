\* Three linked nodes: one publishes, the others attest its death.  The mesh rests
\* once every message has been passed on.
CONSTANTS
  t = t
  Topic = {t}
  NodeID = {1, 2, 3}
  NoNode = NoNode
  Key = {0}
  EmptyKey = 0
  NoRecord = NoRecord
  Trusted = {2, 3}
  MaxRecordsPerTopic = 9
  MaxKeysPerNode = 9
  MaxAttestations = 9
  Window = 1
  CtrSpan = 2
  MaxHLC = 9
  MaxObservedAt = 9
  Node = {1, 2, 3}
  Link <- Triangle
  Message <- Gossiped
  TreeDegree = 1
  EagerTTL = 2
  MaxIHaves = 4
  Quorum = 2
CHECK_DEADLOCK FALSE
SPECIFICATION GossipSpec
 
PROPERTIES GossipEnds
