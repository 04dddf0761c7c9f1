\* One node with three keys, three observers, quorum changes, reaping, caps.
CONSTANTS
  t1 = t1 t2 = t2 n1 = n1 n2 = n2 o1 = o1 o2 = o2 o3 = o3 e = e k = k l = l
  Topic = {t1, t2}
  NodeID = {n1, n2, o1, o2, o3}
  NoNode = NoNode
  Key = {e, k, l}
  EmptyKey = e
  NoRecord = NoRecord
  Trusted = {o1, o2, o3}
  MaxRecordsPerTopic = 3
  MaxKeysPerNode = 2
  MaxAttestations = 2
  Window = 1
  CtrSpan = 2
  MaxHLC = 4
  MaxObservedAt = 5
  OwnerRecord <- OwnerRecords
  Attestation <- Attestations
  MaxTopics = 1
  TopicTTL <- ShortTTL
  QuorumSetting <- QuorumSettings
  MaxTime = 4
SPECIFICATION Spec
INVARIANTS SlotIsJoin LiveIsFenced CapsHold
PROPERTIES SlotNeverRegresses DeathHasQuorum StoreIsMap
