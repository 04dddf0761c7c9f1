--------------------------- MODULE TopicStoreProofs ---------------------------
(***************************************************************************)
(* What the operations of one topicStore do, for every value of the        *)
(* constants: the lemmas on which the proofs about one record store        *)
(* (RecordStoreProofs) and about gossip (PlumtreesFlow) rest.              *)
(***************************************************************************)
EXTENDS TopicStore, FiniteSetTheorems, WellFoundedInduction, TLAPS

(* A non-empty set of naturals with an upper bound has a maximum, so the   *)
(* maxHLC loop of applyAttestationLocked is well defined.                  *)
LEMMA MaxIsGreatest ==
  ASSUME NEW M \in Nat, NEW S, S \subseteq 0 .. M, S # {}
  PROVE  Max(S) \in S /\ \A y \in S : y <= Max(S)
<1> DEFINE gap == {M - y : y \in S}
<1>0. \A y \in S : y \in Nat /\ M - y \in Nat
  OBVIOUS
<1>1. gap \subseteq Nat /\ gap # {}
  <2>1. PICK y \in S : TRUE
    OBVIOUS
  <2>2. M - y \in gap
    OBVIOUS
  <2> QED
    BY <1>0, <2>2
<1>2. PICK g \in gap : \A h \in gap : ~(<<h, g>> \in OpToRel(<, Nat))
  BY <1>1, NatLessThanWellFounded, WFMin
<1>3. \A h \in gap : ~(h < g)
  BY <1>1, <1>2 DEF OpToRel
<1>4. PICK x \in S : g = M - x
  OBVIOUS
<1>5. \A y \in S : y <= x
  <2> SUFFICES ASSUME NEW y \in S PROVE y <= x
    OBVIOUS
  <2>1. M - y \in gap
    OBVIOUS
  <2>2. ~(M - y < M - x)
    BY <2>1, <1>3, <1>4
  <2> HIDE DEF gap
  <2> QED
    BY <2>2, <1>0
<1>6. \A y \in S : x >= y
  BY <1>5
<1> QED
  BY <1>6 DEF Max

(* A witness set is finite, so its size is a number. *)
LEMMA ObserversFinite ==
  ASSUME NEW set
  PROVE  IsFiniteSet(Observers(set)) /\ Cardinality(Observers(set)) \in Nat
<1>1. Observers(set) \in SUBSET NodeID
  BY DEF Observers
<1> QED
  BY <1>1, NodeAssumption, FS_Subset, FS_CardinalityType

(* A quorum of at least one is never met by an empty witness set. *)
LEMMA QuorumHasWitness ==
  ASSUME NEW set, NEW k \in Nat \ {0}, QuorumMet(set, k)
  PROVE  Observers(set) # {}
BY ObserversFinite, FS_EmptySet DEF QuorumMet

(* The entries of a map from observers to records. *)
WitnessMap == [NodeID -> Record \cup {NoRecord}]

(* The stamp of a synthesised tombstone beats every witness that counted.  *)
LEMMA SynthBeatsWitnesses ==
  ASSUME NEW set \in WitnessMap,
         \A o \in Observers(set) : set[o].hlc <= MaxHLC,
         Observers(set) # {}
  PROVE  SynthHLC(set) \in Nat /\ \A o \in Observers(set) : set[o].hlc < SynthHLC(set)
<1> DEFINE H == {set[o].hlc : o \in Observers(set)}
<1>1. \A o \in Observers(set) : set[o].hlc \in Nat
  BY DEF WitnessMap, Observers, Record
<1>2. H \subseteq 0 .. MaxHLC
  BY <1>1, CapAssumption
<1>3. H # {}
  OBVIOUS
<1>4. Max(H) \in H /\ \A y \in H : y <= Max(H)
  BY <1>2, <1>3, CapAssumption, MaxIsGreatest
<1>5. SynthHLC(set) = Max(H) + 1
  BY DEF SynthHLC
<1>6. \A o \in Observers(set) : set[o].hlc \in H
  OBVIOUS
<1>7. Max(H) \in Nat
  BY <1>2, <1>4, CapAssumption
<1>8. \A o \in Observers(set) : set[o].hlc <= Max(H)
  BY <1>4, <1>6
<1> HIDE DEF H
<1> QED
  BY <1>1, <1>5, <1>7, <1>8

(* Storing an owner record yields a topicStore. *)
LEMMA MergeOwnerType ==
  ASSUME NEW ts \in TopicStoreType, NEW r \in Record, NEW t \in Nat
  PROVE  MergeOwner(ts, r, t) \in TopicStoreType
<1>1. r.node \in NodeID /\ keyOf(r) \in Slot
  BY DEF Record, keyOf, Slot
<1>2. [ts.records EXCEPT ![keyOf(r)] = r] \in [Slot -> Record \cup {NoRecord}]
  BY <1>1 DEF TopicStoreType
<1>3. [ts.attestations EXCEPT ![r.node] = [o \in NodeID |-> NoRecord]]
        \in [NodeID -> [NodeID -> Record \cup {NoRecord}]]
  BY <1>1 DEF TopicStoreType
<1>4. [ts.restored EXCEPT ![r.node] = t] \in [NodeID -> Nat \cup {Unset}]
  BY <1>1 DEF TopicStoreType
<1> QED
  BY <1>2, <1>3, <1>4 DEF TopicStoreType, MergeOwner

(* What storing an owner record does to a slot and to a fence. *)
LEMMA MergeOwnerParts ==
  ASSUME NEW ts \in TopicStoreType, NEW r \in Record, NEW t, NEW s \in Slot
  PROVE  /\ MergeOwner(ts, r, t).records[s] = IF s = keyOf(r) THEN r ELSE ts.records[s]
         /\ MergeOwner(ts, r, t).restored[s[1]] =
              IF ~r.tomb /\ s[1] = r.node THEN t ELSE ts.restored[s[1]]
<1>1. ts.records \in [Slot -> Record \cup {NoRecord}] /\ ts.restored \in [NodeID -> Nat \cup {Unset}]
  BY DEF TopicStoreType
<1>2. s[1] \in NodeID
  BY DEF Slot
<1>3. MergeOwner(ts, r, t).records = [ts.records EXCEPT ![keyOf(r)] = r]
  BY DEF MergeOwner
<1>4. MergeOwner(ts, r, t).restored = IF r.tomb THEN ts.restored ELSE [ts.restored EXCEPT ![r.node] = t]
  BY DEF MergeOwner
<1>5. MergeOwner(ts, r, t).records[s] = IF s = keyOf(r) THEN r ELSE ts.records[s]
  BY <1>1, <1>3
<1> QED
  BY <1>1, <1>2, <1>4, <1>5

(* What a topicStore keeps for a slot and against a node. *)
LEMMA TopicStoreParts ==
  ASSUME NEW ts \in TopicStoreType
  PROVE  /\ \A s \in Slot : ts.records[s] # NoRecord => ts.records[s] \in Record
         /\ ts.attestations \in [NodeID -> WitnessMap]
BY DEF TopicStoreType, WitnessMap

(* Reaping yields a topicStore. *)
LEMMA ReapTopicType ==
  ASSUME NEW ts \in TopicStoreType, NEW t, NEW ttl
  PROVE  reapTopic(ts, t, ttl) \in TopicStoreType
BY DEF TopicStoreType, reapTopic

(* Pruning keeps the survivors as they were and drops the rest. *)
LEMMA PruneKeeps ==
  ASSUME NEW set \in WitnessMap, NEW w
  PROVE  /\ Prune(set, w) \in WitnessMap
         /\ \A o \in Observers(Prune(set, w)) : o \in Observers(set) /\ Prune(set, w)[o] = set[o]
BY DEF WitnessMap, Prune, Observers

(* The witness set after an attestation is admitted: it and older members, *)
(* no two of them further apart than the corroboration window.             *)
LEMMA WitnessSetMembers ==
  ASSUME NEW ts \in TopicStoreType, NEW a \in Record, NEW w, a.observer \in NodeID
  PROVE  /\ WitnessSet(ts, a, w) \in WitnessMap
         /\ \A o \in Observers(WitnessSet(ts, a, w)) :
              \/ o = a.observer /\ WitnessSet(ts, a, w)[o] = a
              \/ /\ ts.attestations[a.node][o] # NoRecord
                 /\ WitnessSet(ts, a, w)[o] = ts.attestations[a.node][o]
<1> DEFINE old == ts.attestations[a.node]
           new == [old EXCEPT ![a.observer] = a]
<1>1. old \in WitnessMap
  BY DEF TopicStoreType, WitnessMap, Record
<1>2. new \in WitnessMap
  BY <1>1 DEF WitnessMap
<1>3. \A o \in Observers(new) : (o = a.observer /\ new[o] = a) \/ (old[o] # NoRecord /\ new[o] = old[o])
  BY <1>1 DEF WitnessMap, Observers
<1> HIDE DEF new
<1>4. Prune(new, w) \in WitnessMap
  BY <1>2, PruneKeeps
<1>5. \A o \in Observers(Prune(new, w)) : o \in Observers(new) /\ Prune(new, w)[o] = new[o]
  BY <1>2, PruneKeeps
<1>6. WitnessSet(ts, a, w) = Prune(new, w)
  BY DEF WitnessSet, new
<1> QED
  BY <1>3, <1>4, <1>5, <1>6

(* Every synthesised tombstone is a record of the slot it lands in, and    *)
(* every other slot is left alone.                                         *)
LEMMA TombstonedType ==
  ASSUME NEW ts \in TopicStoreType, NEW a \in Record, NEW h \in Nat
  PROVE  Tombstoned(ts, a, h) \in [Slot -> Record \cup {NoRecord}]
<1>1. \A s \in Slot : Synth(a, s[2], h) \in Record
  BY DEF Synth, Record, Slot, EmptySig
<1>2. \A s \in Slot : ts.records[s] \in Record \cup {NoRecord}
  BY DEF TopicStoreType
<1> QED
  BY <1>1, <1>2 DEF Tombstoned

(* Admitting a witness yields a topicStore. *)
LEMMA AccumulateWitnessType ==
  ASSUME NEW ts \in TopicStoreType, NEW a \in Record, a.observer \in NodeID,
         NEW k \in Nat \ {0}, NEW w,
         \A o \in Observers(WitnessSet(ts, a, w)) : WitnessSet(ts, a, w)[o].hlc <= MaxHLC
  PROVE  AccumulateWitness(ts, a, k, w) \in TopicStoreType
<1> DEFINE set == WitnessSet(ts, a, w)
<1>1. set \in WitnessMap
  BY WitnessSetMembers
<1>2. QuorumMet(set, k) => SynthHLC(set) \in Nat
  BY <1>1, QuorumHasWitness, SynthBeatsWitnesses
<1>3. QuorumMet(set, k) => Tombstoned(ts, a, SynthHLC(set)) \in [Slot -> Record \cup {NoRecord}]
  BY <1>2, TombstonedType
<1>4. [ts.attestations EXCEPT ![a.node] = set] \in [NodeID -> [NodeID -> Record \cup {NoRecord}]]
  BY <1>1 DEF TopicStoreType, WitnessMap
<1> HIDE DEF set
<1>5. AccumulateWitness(ts, a, k, w) =
        [records |-> IF QuorumMet(set, k) THEN Tombstoned(ts, a, SynthHLC(set)) ELSE ts.records,
         attestations |-> [ts.attestations EXCEPT ![a.node] = set],
         restored |-> ts.restored]
  BY DEF AccumulateWitness, set
<1> QED
  BY <1>3, <1>4, <1>5 DEF TopicStoreType

(* A synthesised tombstone lands only in a slot of the dead node that is   *)
(* empty or holds a smaller stamp.                                         *)
LEMMA DyingSlotsBelow ==
  ASSUME NEW ts \in TopicStoreType, NEW n \in NodeID, NEW h \in Nat,
         NEW s \in Slot, s \in DyingSlots(ts, n, h)
  PROVE  s[1] = n /\ (ts.records[s] = NoRecord \/ ts.records[s].hlc < h)
<1>1. CASE nodePresent(ts, n)
  BY <1>1 DEF DyingSlots, nodeSlots
<1>2. CASE ~nodePresent(ts, n)
  <2>1. s = <<n, EmptyKey>>
    BY <1>2 DEF DyingSlots
  <2>2. s \notin nodeSlots(ts, n)
    BY <1>2 DEF nodePresent
  <2> QED
    BY <2>1, <2>2 DEF nodeSlots, slotsHeld
<1> QED
  BY <1>1, <1>2

(* The numbers of a record, apart from its other fields. *)
LEMMA RecordNumbers ==
  ASSUME NEW r \in Record
  PROVE  r.hlc \in Nat /\ r.sig \in Nat /\ r # NoRecord
BY NoRecordAssumption DEF Record

(* The merge order is transitive, total on different stamps or signatures, *)
(* and follows the stamps.                                                 *)
LEMMA NewerOrder ==
  ASSUME NEW a \in Record, NEW b \in Record
  PROVE  /\ Newer(a, b) => b.hlc <= a.hlc
         /\ \A c \in Record : Newer(a, b) /\ Newer(b, c) => Newer(a, c)
         /\ ~Newer(a, b) => Newer(b, a) \/ (a.hlc = b.hlc /\ a.sig = b.sig)
         /\ b.hlc < a.hlc => Newer(a, b)
BY DEF Newer, Record

(* Survivors of the pruning lie within the corroboration window. *)
LEMMA PruneWindow ==
  ASSUME NEW set \in WitnessMap, NEW w \in Nat,
         NEW o \in Observers(Prune(set, w)), NEW p \in Observers(Prune(set, w))
  PROVE  Prune(set, w)[o].observedAt - Prune(set, w)[p].observedAt <= w
<1>1. /\ o \in Observers(set) /\ Prune(set, w)[o] = set[o]
      /\ p \in Observers(set) /\ Prune(set, w)[p] = set[p]
  BY PruneKeeps
<1>2. set[o].observedAt \in Nat /\ set[p].observedAt \in Nat
  BY <1>1 DEF Observers, WitnessMap, Record
<1>3. ~(set[o].observedAt - set[p].observedAt > w)
  BY <1>1 DEF Prune, Observers
<1> QED
  BY <1>1, <1>2, <1>3

-------------------------------------------------------------------------------
(***************************************************************************)
(* The caps.                                                               *)
(***************************************************************************)

LEMMA NodeSlotsFinite ==
  ASSUME NEW ts, NEW n
  PROVE  IsFiniteSet(nodeSlots(ts, n)) /\ Cardinality(nodeSlots(ts, n)) \in Nat
<1>1. IsFiniteSet(Slot)
  BY NodeAssumption, FS_Product DEF Slot
<1>2. nodeSlots(ts, n) \in SUBSET Slot
  BY DEF nodeSlots, slotsHeld
<1> QED
  BY <1>1, <1>2, FS_Subset, FS_CardinalityType

(* The caps on one topicStore: keys per node and witnesses per target. *)
TopicCaps(ts) ==
  \A n \in NodeID :
    /\ Cardinality(nodeSlots(ts, n)) <= MaxKeysPerNode
    /\ Cardinality(Observers(ts.attestations[n])) <= MaxAttestations

(* Dropping slots or witnesses keeps the caps. *)
LEMMA FewerKeepsCaps ==
  ASSUME NEW old, NEW new, NEW n,
         nodeSlots(new, n) \subseteq nodeSlots(old, n),
         Cardinality(nodeSlots(old, n)) <= MaxKeysPerNode
  PROVE  Cardinality(nodeSlots(new, n)) <= MaxKeysPerNode
<1>1. Cardinality(nodeSlots(new, n)) <= Cardinality(nodeSlots(old, n))
  BY NodeSlotsFinite, FS_Subset
<1> QED
  BY <1>1, NodeSlotsFinite, CapAssumption

(* ApplyExt's cap checks: an applied owner record keeps a topic within its caps. *)
LEMMA MergeOwnerCaps ==
  ASSUME NEW ts \in TopicStoreType, TopicCaps(ts), NEW r \in Record, r # NoRecord,
         NEW t, OwnerApplied(ts, r)
  PROVE  TopicCaps(MergeOwner(ts, r, t))
<1> DEFINE new == MergeOwner(ts, r, t)
<1> SUFFICES ASSUME NEW n \in NodeID
             PROVE  /\ Cardinality(nodeSlots(new, n)) <= MaxKeysPerNode
                    /\ Cardinality(Observers(new.attestations[n])) <= MaxAttestations
  BY DEF TopicCaps
<1>0. /\ Cardinality(nodeSlots(ts, n)) <= MaxKeysPerNode
      /\ Cardinality(Observers(ts.attestations[n])) <= MaxAttestations
  BY DEF TopicCaps
<1>1. keyOf(r) \in Slot /\ keyOf(r)[1] = r.node
  BY DEF keyOf, Slot, Record
<1>2. nodeSlots(new, n) = IF n = r.node THEN nodeSlots(ts, n) \cup {keyOf(r)} ELSE nodeSlots(ts, n)
  BY <1>1 DEF MergeOwner, nodeSlots, slotsHeld, TopicStoreType
<1>3. Cardinality(nodeSlots(new, n)) <= MaxKeysPerNode
  <2>1. CASE n # r.node
    BY <1>0, <1>2, <2>1
  <2>2. CASE n = r.node /\ ts.records[keyOf(r)] # NoRecord
    <3>1. keyOf(r) \in nodeSlots(ts, n)
      BY <1>1, <2>2 DEF nodeSlots, slotsHeld
    <3>2. nodeSlots(new, n) = nodeSlots(ts, n)
      BY <1>2, <2>2, <3>1
    <3> QED
      BY <1>0, <3>2
  <2>3. CASE n = r.node /\ ts.records[keyOf(r)] = NoRecord
    <3>1. Cardinality(nodeSlots(ts, n)) < MaxKeysPerNode
      BY <2>3 DEF OwnerApplied, SlotRoom
    <3>2. keyOf(r) \notin nodeSlots(ts, n)
      BY <2>3 DEF nodeSlots, slotsHeld
    <3>3. Cardinality(nodeSlots(new, n)) = Cardinality(nodeSlots(ts, n)) + 1
      BY <1>2, <2>3, <3>2, NodeSlotsFinite, FS_AddElement
    <3> QED
      BY <3>1, <3>3, NodeSlotsFinite, CapAssumption
  <2> QED
    BY <2>1, <2>2, <2>3
<1>4. Cardinality(Observers(new.attestations[n])) <= MaxAttestations
  <2>1. new.attestations[n] = ts.attestations[n] \/ new.attestations[n] = [o \in NodeID |-> NoRecord]
    BY DEF MergeOwner, TopicStoreType, Record
  <2>2. Observers([o \in NodeID |-> NoRecord]) = {}
    BY DEF Observers
  <2> QED
    BY <1>0, <2>1, <2>2, FS_EmptySet, CapAssumption
<1> QED
  BY <1>3, <1>4

(* An accumulated attestation keeps the witness sets within MaxAttestations. *)
LEMMA AccumulateWitnessCaps ==
  ASSUME NEW ts \in TopicStoreType, TopicCaps(ts), NEW a \in Record, a.observer \in NodeID,
         NEW t, NEW k, NEW w, Accumulated(ts, a, t)
  PROVE  TopicCaps(AccumulateWitness(ts, a, k, w))
<1> DEFINE new == AccumulateWitness(ts, a, k, w)
           set == WitnessSet(ts, a, w)
           old == ts.attestations[a.node]
<1> SUFFICES ASSUME NEW n \in NodeID
             PROVE  /\ Cardinality(nodeSlots(new, n)) <= MaxKeysPerNode
                    /\ Cardinality(Observers(new.attestations[n])) <= MaxAttestations
  BY DEF TopicCaps
<1>0. /\ Cardinality(nodeSlots(ts, n)) <= MaxKeysPerNode
      /\ Cardinality(Observers(ts.attestations[n])) <= MaxAttestations
  BY DEF TopicCaps
<1>1. a.node \in NodeID
  BY DEF Record
<1>2. /\ new.records = ts.records \/ \E h : new.records = Tombstoned(ts, a, h)
      /\ new.attestations = [ts.attestations EXCEPT ![a.node] = set]
  BY DEF AccumulateWitness
<1>3. Cardinality(nodeSlots(new, n)) <= MaxKeysPerNode
  <2>1. CASE new.records = ts.records
    BY <1>0, <2>1, FewerKeepsCaps DEF nodeSlots, slotsHeld
  <2>2. ASSUME NEW h, new.records = Tombstoned(ts, a, h)
        PROVE  Cardinality(nodeSlots(new, n)) <= MaxKeysPerNode
    <3> HIDE DEF new
    <3>1. CASE n # a.node \/ nodePresent(ts, a.node)
      <4>1. \A s \in DyingSlots(ts, a.node, h) : s[1] = n => s \in nodeSlots(ts, n)
        BY <3>1 DEF DyingSlots, nodeSlots
      <4>2. nodeSlots(new, n) \subseteq nodeSlots(ts, n)
        BY <2>2, <4>1 DEF nodeSlots, slotsHeld, Tombstoned
      <4> QED
        BY <1>0, <4>2, FewerKeepsCaps
    <3>2. CASE n = a.node /\ ~nodePresent(ts, a.node)
      <4>1. nodeSlots(new, n) \subseteq {<<n, EmptyKey>>}
        BY <2>2, <3>2 DEF nodeSlots, slotsHeld, Tombstoned, DyingSlots, nodePresent
      <4>2. IsFiniteSet({<<n, EmptyKey>>}) /\ Cardinality({<<n, EmptyKey>>}) = 1
        BY FS_Singleton
      <4>3. Cardinality(nodeSlots(new, n)) <= 1
        BY <4>1, <4>2, FS_Subset
      <4> QED
        BY <4>3, NodeSlotsFinite, CapAssumption
    <3> QED
      BY <3>1, <3>2
  <2> QED
    BY <1>2, <2>1, <2>2
<1>4. Cardinality(Observers(new.attestations[n])) <= MaxAttestations
  <2>1. CASE n # a.node
    BY <1>0, <1>2, <2>1 DEF TopicStoreType
  <2>2. CASE n = a.node
    <3>1. new.attestations[n] = set
      BY <1>1, <1>2, <2>2 DEF TopicStoreType
    <3>2. \A o \in Observers(set) : o = a.observer \/ old[o] # NoRecord
      BY WitnessSetMembers
    <3>3. Observers(set) \subseteq Observers(old) \cup {a.observer}
      BY <3>2 DEF Observers
    <3>4. /\ IsFiniteSet(Observers(old) \cup {a.observer})
          /\ Cardinality(Observers(old) \cup {a.observer}) <= MaxAttestations
      <4>1. CASE old[a.observer] = NoRecord
        <5>1. Cardinality(Observers(old)) < MaxAttestations
          BY <4>1 DEF Accumulated, WitnessFresh
        <5> QED
          BY <5>1, ObserversFinite, FS_AddElement, CapAssumption
      <4>2. CASE old[a.observer] # NoRecord
        <5>1. a.observer \in Observers(old)
          BY <4>2 DEF Observers
        <5>2. Observers(old) \cup {a.observer} = Observers(old)
          BY <5>1
        <5> QED
          BY <1>0, <2>2, <5>2, ObserversFinite
      <4> QED
        BY <4>1, <4>2
    <3>5. Cardinality(Observers(set)) <= Cardinality(Observers(old) \cup {a.observer})
      BY <3>3, <3>4, FS_Subset
    <3>6. Cardinality(Observers(old) \cup {a.observer}) \in Nat
      BY <3>4, FS_CardinalityType
    <3> HIDE DEF new, set, old
    <3> QED
      BY <3>1, <3>4, <3>5, <3>6, ObserversFinite, CapAssumption
  <2> QED
    BY <2>1, <2>2
<1> QED
  BY <1>3, <1>4

(* reapExpired only removes records, so the caps hold after it. *)
LEMMA ReapTopicCaps ==
  ASSUME NEW ts \in TopicStoreType, TopicCaps(ts), NEW t, NEW ttl
  PROVE  TopicCaps(reapTopic(ts, t, ttl))
<1> DEFINE new == reapTopic(ts, t, ttl)
<1>1. new.attestations = ts.attestations
  BY DEF reapTopic
<1>2. \A n \in NodeID : nodeSlots(new, n) \subseteq nodeSlots(ts, n)
  BY DEF reapTopic, nodeSlots, slotsHeld, Kept
<1> HIDE DEF new
<1>3. ASSUME NEW n \in NodeID
      PROVE  /\ Cardinality(nodeSlots(new, n)) <= MaxKeysPerNode
             /\ Cardinality(Observers(new.attestations[n])) <= MaxAttestations
  BY <1>1, <1>2, FewerKeepsCaps DEF TopicCaps
<1> QED
  BY <1>3 DEF TopicCaps, new
===============================================================================
