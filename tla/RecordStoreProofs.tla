--------------------------- MODULE RecordStoreProofs ---------------------------
(***************************************************************************)
(* The invariants of the record store, for every set of topics, nodes,     *)
(* keys, records and attestations, every cap, TTL and quorum setting, and  *)
(* that the store implements the map of LWWMap: entry is read off the      *)
(* records of each topicStore, and each step of the store is a Raise, a    *)
(* Die or a Forget (which includes changing nothing).                      *)
(***************************************************************************)
EXTENDS RecordStore, TopicStoreProofs

-------------------------------------------------------------------------------
(***************************************************************************)
(* Types and filing, for the whole store.                                  *)
(***************************************************************************)

TypeInv == TypeOK /\ Filed

(* What the two kinds of input records look like. *)
LEMMA OwnerRecordShape ==
  ASSUME NEW r \in OwnerRecord
  PROVE  /\ r \in Record /\ r.topic \in Topic /\ r.node \in NodeID /\ keyOf(r) \in Slot
         /\ r.hlc \in Nat /\ r.sig \in Nat /\ r.sig # EmptySig /\ r # NoRecord
BY InputAssumption, NoRecordAssumption DEF IsOwnerRecord, Record, keyOf, Slot

(* An attestation names a target, an observer and bounded stamps. *)
LEMMA AttestationShape ==
  ASSUME NEW a \in Attestation
  PROVE  /\ a \in Record /\ a.topic \in Topic /\ a.node \in NodeID /\ a.observer \in NodeID
         /\ a.hlc \in Nat /\ a.hlc <= MaxHLC /\ a.observedAt \in Nat /\ a # NoRecord
BY InputAssumption, NoRecordAssumption DEF IsAttestation, IsObserverAttestation, Record

(* The witness set an admitted attestation leaves behind is filed: each    *)
(* member is an attestation against this node by a trusted observer.       *)
LEMMA WitnessSetFiled ==
  ASSUME TypeInv, NEW a \in Attestation, Accumulated(store[a.topic], a, now),
         NEW o \in Observers(WitnessSet(store[a.topic], a, quorum.w))
  PROVE  WitnessFiled(a.topic, a.node, o, WitnessSet(store[a.topic], a, quorum.w)[o])
<1> DEFINE ts == store[a.topic]
<1>1. ts \in TopicStoreType
  BY AttestationShape DEF TypeInv, TypeOK
<1>2. a.observer \in Trusted
  BY DEF Accumulated
<1>3. \/ o = a.observer /\ WitnessSet(ts, a, quorum.w)[o] = a
      \/ /\ ts.attestations[a.node][o] # NoRecord
         /\ WitnessSet(ts, a, quorum.w)[o] = ts.attestations[a.node][o]
  BY <1>1, AttestationShape, WitnessSetMembers
<1>4. o \in NodeID
  BY DEF Observers
<1>5. WitnessesFiled(a.topic, ts)
  BY AttestationShape DEF TypeInv, Filed
<1>6. CASE WitnessSet(ts, a, quorum.w)[o] = a /\ o = a.observer
  BY <1>2, <1>6 DEF WitnessFiled
<1>7. CASE /\ ts.attestations[a.node][o] # NoRecord
           /\ WitnessSet(ts, a, quorum.w)[o] = ts.attestations[a.node][o]
  <2>1. a.node \in NodeID
    BY AttestationShape
  <2> QED
    BY <1>4, <1>5, <1>7, <2>1 DEF WitnessesFiled
<1> QED
  BY <1>3, <1>6, <1>7, Zenon

(* newRecordStore starts well typed, with nothing filed. *)
LEMMA InitTypeInv == Init => TypeInv
<1> SUFFICES ASSUME Init PROVE TypeInv
  OBVIOUS
<1>1. EmptyTopicStore \in TopicStoreType
  BY DEF EmptyTopicStore, TopicStoreType
<1>2. TypeOK
  BY <1>1, CapAssumption DEF Init, TypeOK, DefaultObserverQuorum
<1>3. Filed
  BY DEF Init, Filed, RecordsFiled, WitnessesFiled, EmptyTopicStore
<1> QED
  BY <1>2, <1>3 DEF TypeInv

(* An owner record: what it leaves in the topic's store. *)
LEMMA OwnerKeepsTypeInv ==
  ASSUME TypeInv, NEW r \in OwnerRecord, ApplyOwnerRecord(r)
  PROVE  TypeInv'
<1> DEFINE ts == store[r.topic]
           new == ApplyOwner(ts, r, now)
<1>1. ts \in TopicStoreType /\ RecordsFiled(r.topic, ts) /\ WitnessesFiled(r.topic, ts)
  BY OwnerRecordShape DEF TypeInv, TypeOK, Filed
<1>2. now \in Nat
  BY DEF TypeInv, TypeOK
<1>3. new \in TopicStoreType
  BY <1>1, <1>2, OwnerRecordShape, MergeOwnerType DEF ApplyOwner
<1>4. RecordsFiled(r.topic, MergeOwner(ts, r, now))
  BY <1>1, OwnerRecordShape DEF RecordsFiled, MergeOwner, TopicStoreType
<1>5. WitnessesFiled(r.topic, MergeOwner(ts, r, now))
  <2> DEFINE att == MergeOwner(ts, r, now).attestations
  <2>1. att = ts.attestations
        \/ att = [ts.attestations EXCEPT ![r.node] = [o \in NodeID |-> NoRecord]]
    BY DEF MergeOwner
  <2>2. ts.attestations \in [NodeID -> WitnessMap]
    BY <1>1 DEF TopicStoreType, WitnessMap
  <2> HIDE DEF att
  <2>3. ASSUME NEW n \in NodeID, NEW o \in NodeID, att[n][o] # NoRecord
        PROVE  att[n][o] = ts.attestations[n][o]
    BY <2>1, <2>2, <2>3
  <2> QED
    BY <1>1, <2>3 DEF WitnessesFiled, att
<1>6. RecordsFiled(r.topic, new) /\ WitnessesFiled(r.topic, new)
  BY <1>1, <1>4, <1>5 DEF ApplyOwner
<1>7. store' = [store EXCEPT ![r.topic] = new]
  BY DEF ApplyOwnerRecord
<1> HIDE DEF new
<1>8. TypeOK'
  BY <1>3, <1>7, OwnerRecordShape DEF TypeInv, TypeOK, ApplyOwnerRecord
<1>9. Filed'
  BY <1>6, <1>7, OwnerRecordShape DEF TypeInv, TypeOK, Filed
<1> QED
  BY <1>8, <1>9 DEF TypeInv

(* An attestation: the witness set stays filed, every tombstone lands in   *)
(* the slot it names.                                                      *)
LEMMA AttestationKeepsTypeInv ==
  ASSUME TypeInv, NEW a \in Attestation, ApplyAttestation(a)
  PROVE  TypeInv'
<1> DEFINE ts == store[a.topic]
           set == WitnessSet(ts, a, quorum.w)
           acc == AccumulateWitness(ts, a, quorum.k, quorum.w)
           new == applyAttestation(ts, a, now, quorum.k, quorum.w)
<1>1. ts \in TopicStoreType /\ RecordsFiled(a.topic, ts) /\ WitnessesFiled(a.topic, ts)
  BY AttestationShape DEF TypeInv, TypeOK, Filed
<1>2. quorum.k \in Nat \ {0}
  BY DEF TypeInv, TypeOK
<1>3. ASSUME Accumulated(ts, a, now)
      PROVE  acc \in TopicStoreType /\ RecordsFiled(a.topic, acc) /\ WitnessesFiled(a.topic, acc)
  <2>1. \A o \in Observers(set) : WitnessFiled(a.topic, a.node, o, set[o])
    BY <1>3, WitnessSetFiled
  <2>2. acc \in TopicStoreType
    <3>1. \A o \in Observers(set) : set[o].hlc <= MaxHLC
      BY <2>1, AttestationShape DEF WitnessFiled
    <3> QED
      BY <1>1, <1>2, <3>1, AttestationShape, AccumulateWitnessType
  <2>4. acc.records = (IF QuorumMet(set, quorum.k) THEN Tombstoned(ts, a, SynthHLC(set)) ELSE ts.records)
    BY DEF AccumulateWitness
  <2>5. acc.attestations = [ts.attestations EXCEPT ![a.node] = set]
    BY DEF AccumulateWitness
  <2> HIDE DEF set, acc
  <2>6. WitnessesFiled(a.topic, acc)
    <3>1. ts.attestations \in [NodeID -> WitnessMap]
      BY <1>1, TopicStoreParts
    <3>2. ASSUME NEW n \in NodeID, NEW o \in NodeID, acc.attestations[n][o] # NoRecord
          PROVE  WitnessFiled(a.topic, n, o, acc.attestations[n][o])
      <4>1. CASE n = a.node
        BY <2>1, <2>5, <3>1, <3>2, <4>1 DEF Observers
      <4>2. CASE n # a.node
        BY <1>1, <2>5, <3>1, <3>2, <4>2 DEF WitnessesFiled
      <4> QED
        BY <4>1, <4>2
    <3> QED
      BY <3>2 DEF WitnessesFiled
  <2>7. \A s \in Slot : s \in DyingSlots(ts, a.node, SynthHLC(set)) => s[1] = a.node /\ s = <<a.node, s[2]>>
    BY DEF DyingSlots, nodeSlots, Slot
  <2>8. RecordsFiled(a.topic, acc)
    <3>1. ASSUME NEW s \in Slot, ts.records[s] # NoRecord
          PROVE  ts.records[s].topic = a.topic /\ keyOf(ts.records[s]) = s
      BY <1>1, <3>1 DEF RecordsFiled
    <3>2. ASSUME NEW s \in Slot, acc.records[s] # ts.records[s]
          PROVE  acc.records[s].topic = a.topic /\ keyOf(acc.records[s]) = s
      <4> DEFINE r == Synth(a, s[2], SynthHLC(set))
      <4>1. acc.records[s] = r /\ s = <<a.node, s[2]>>
        BY <2>4, <2>7, <3>2 DEF Tombstoned
      <4>2. r.topic = a.topic /\ r.node = a.node /\ r.key = s[2]
        BY DEF Synth
      <4> HIDE DEF r
      <4> QED
        BY <4>1, <4>2 DEF keyOf
    <3> HIDE DEF ts
    <3>3. ASSUME NEW s \in Slot, acc.records[s] # NoRecord
          PROVE  acc.records[s].topic = a.topic /\ keyOf(acc.records[s]) = s
      BY <3>1, <3>2, <3>3
    <3> QED
      BY <3>3 DEF RecordsFiled
  <2> QED
    BY <2>2, <2>6, <2>8
<1>4. new \in TopicStoreType /\ RecordsFiled(a.topic, new) /\ WitnessesFiled(a.topic, new)
  BY <1>1, <1>3 DEF applyAttestation
<1>5. store' = [store EXCEPT ![a.topic] = new]
  BY DEF ApplyAttestation
<1> HIDE DEF new
<1>6. TypeOK'
  BY <1>4, <1>5, AttestationShape DEF TypeInv, TypeOK, ApplyAttestation
<1>7. Filed'
  BY <1>4, <1>5, AttestationShape DEF TypeInv, TypeOK, Filed
<1> QED
  BY <1>6, <1>7 DEF TypeInv

(* Reaping only removes. *)
LEMMA ReapKeepsTypeInv ==
  ASSUME TypeInv, reapExpired
  PROVE  TypeInv'
<1>1. \A t \in Topic : Reaped(t) \in TopicStoreType
  BY ReapTopicType DEF Reaped, TypeInv, TypeOK
<1>2. \A t \in Topic : RecordsFiled(t, Reaped(t)) /\ WitnessesFiled(t, Reaped(t))
  <2> SUFFICES ASSUME NEW t \in Topic
               PROVE  RecordsFiled(t, Reaped(t)) /\ WitnessesFiled(t, Reaped(t))
    OBVIOUS
  <2>1. RecordsFiled(t, store[t]) /\ WitnessesFiled(t, store[t])
    BY DEF TypeInv, Filed
  <2>2. \A s \in Slot : Reaped(t).records[s] \in {store[t].records[s], NoRecord}
    BY DEF Reaped, reapTopic
  <2>3. Reaped(t).attestations = store[t].attestations
    BY DEF Reaped, reapTopic
  <2>4. RecordsFiled(t, Reaped(t))
    BY <2>1, <2>2 DEF RecordsFiled
  <2> QED
    BY <2>1, <2>3, <2>4 DEF WitnessesFiled
<1>3. store' = [t \in Topic |-> Reaped(t)]
  BY DEF reapExpired
<1>4. TypeOK'
  BY <1>1, <1>3 DEF TypeInv, TypeOK, reapExpired
<1>5. Filed'
  BY <1>2, <1>3 DEF Filed
<1> QED
  BY <1>4, <1>5 DEF TypeInv

(* No step of the store leaves the types or files a record wrongly. *)
LEMMA NextTypeInv == TypeInv /\ [Next]_vars => TypeInv'
<1> SUFFICES ASSUME TypeInv, [Next]_vars PROVE TypeInv'
  OBVIOUS
<1>1. ASSUME NEW r \in OwnerRecord, ApplyOwnerRecord(r) PROVE TypeInv'
  BY <1>1, OwnerKeepsTypeInv
<1>2. ASSUME NEW a \in Attestation, ApplyAttestation(a) PROVE TypeInv'
  BY <1>2, AttestationKeepsTypeInv
<1>3. CASE reapExpired
  BY <1>3, ReapKeepsTypeInv
<1>4. ASSUME NEW q \in QuorumSetting, SetObserverQuorum(q[1], q[2]) PROVE TypeInv'
  <2>1. q[1] \in Int /\ q[2] \in Int
    BY ConfigAssumption
  <2> QED
    BY <1>4, <2>1 DEF SetObserverQuorum, TypeInv, TypeOK, Filed
<1>5. ASSUME NEW t \in 0 .. MaxTime, ClockStep(t) PROVE TypeInv'
  BY <1>5, ConfigAssumption DEF ClockStep, TypeInv, TypeOK, Filed
<1>6. CASE UNCHANGED vars
  BY <1>6 DEF vars, TypeInv, TypeOK, Filed
<1> QED
  BY <1>1, <1>2, <1>3, <1>4, <1>5, <1>6 DEF Next

(* Every reachable store is well typed and every record and witness is     *)
(* filed under the names it carries, whatever is delivered in whatever     *)
(* order.                                                                  *)
THEOREM TypeCorrect == Spec => [](TypeOK /\ Filed)
<1>1. Init => TypeInv
  BY InitTypeInv
<1>2. TypeInv /\ [Next]_vars => TypeInv'
  BY NextTypeInv
<1>3. TypeInv => TypeOK /\ Filed
  BY DEF TypeInv
<1> QED
  BY <1>1, <1>2, <1>3, PTL DEF Spec

-------------------------------------------------------------------------------
(***************************************************************************)
(* The merge is a join.                                                    *)
(***************************************************************************)

(* One slot under one owner record r offered to it: the four outcomes of   *)
(* the merge.                                                              *)
LEMMA OfferKeepsJoin ==
  ASSUME TypeInv, NEW r \in OwnerRecord, ApplyOwnerRecord(r),
         HoldsJoin(r.topic, keyOf(r), store[r.topic].records[keyOf(r)])
  PROVE  HoldsJoin(r.topic, keyOf(r), store[r.topic].records[keyOf(r)])'
<1> DEFINE t == r.topic
           s == keyOf(r)
           cur == store[t].records[s]
<1>1. t \in Topic /\ s \in Slot /\ r \in Record /\ r # NoRecord /\ r.sig # EmptySig
  BY OwnerRecordShape
<1>2. store[t] \in TopicStoreType /\ cur \in Record \cup {NoRecord} /\ seen \subseteq OwnerRecord
  BY <1>1 DEF TypeInv, TypeOK, TopicStoreType
<1>3. store'[t] = ApplyOwner(store[t], r, now)
  BY <1>1 DEF ApplyOwnerRecord, TypeInv, TypeOK
<1>4. cur # NoRecord => cur.topic = t /\ keyOf(cur) = s
  BY <1>1 DEF TypeInv, Filed, RecordsFiled
<1>5. \A q \in SeenAt(t, s) : q \in OwnerRecord /\ q \in Record
  BY <1>2, OwnerRecordShape DEF SeenAt
<1>6. CASE CapRejects(store[t], r)
  <2>1. store'[t] = store[t] /\ seen' = seen
    BY <1>3, <1>6 DEF CapRejects, ApplyOwner, OwnerApplied, ApplyOwnerRecord
  <2> QED
    BY <2>1, Zenon DEF HoldsJoin, SeenAt
<1>7. CASE ~CapRejects(store[t], r) /\ OwnerApplied(store[t], r)
  <2>1. store'[t].records[s] = r
    BY <1>1, <1>2, <1>3, <1>7, OwnerRecordShape, MergeOwnerParts DEF ApplyOwner
  <2>2. seen' = seen \cup {r} /\ SeenAt(t, s)' = SeenAt(t, s) \cup {r}
    BY <1>7 DEF ApplyOwnerRecord, SeenAt
  <2>3. ASSUME NEW q \in SeenAt(t, s) PROVE Newer(r, q) \/ q = r
    <3>1. cur # NoRecord
      BY <2>3 DEF HoldsJoin
    <3>2. Newer(r, cur)
      BY <1>7, <3>1 DEF OwnerApplied
    <3>3. CASE cur.sig # EmptySig
      BY <1>1, <1>2, <1>5, <3>1, <3>2, <3>3, NewerOrder, Zenon DEF HoldsJoin
    <3>4. CASE cur.sig = EmptySig
      <4>1. q.hlc < cur.hlc /\ cur.hlc <= r.hlc
        BY <1>1, <1>2, <3>1, <3>2, <3>4, NewerOrder, Zenon DEF HoldsJoin
      <4>2. q.hlc < r.hlc
        BY <1>1, <1>2, <1>5, <3>1, <4>1 DEF Record
      <4> QED
        BY <1>1, <1>5, <4>2, NewerOrder
    <3> QED
      BY <3>3, <3>4
  <2> QED
    BY <1>1, <2>1, <2>2, <2>3 DEF HoldsJoin
<1>8. CASE ~CapRejects(store[t], r) /\ ~OwnerApplied(store[t], r)
  <2>1. store'[t].records[s] = cur
    BY <1>3, <1>8 DEF ApplyOwner
  <2>2. seen' = seen \cup {r} /\ SeenAt(t, s)' = SeenAt(t, s) \cup {r}
    BY <1>8 DEF ApplyOwnerRecord, SeenAt
  <2>3. cur # NoRecord /\ ~Newer(r, cur)
    BY <1>8 DEF CapRejects, OwnerApplied
  <2>4. cur.sig # EmptySig => r = cur \/ Newer(cur, r)
    <3> SUFFICES ASSUME cur.sig # EmptySig, ~Newer(cur, r) PROVE r = cur
      OBVIOUS
    <3>1. cur \in OwnerRecord
      BY <1>2, <2>3, Zenon DEF HoldsJoin
    <3>2. r.hlc = cur.hlc /\ r.sig = cur.sig
      BY <1>1, <1>2, <2>3, NewerOrder
    <3> QED
      BY <1>4, <2>3, <3>1, <3>2, SignatureAssumption
  <2>5. cur.sig = EmptySig => r.hlc < cur.hlc
    BY <1>1, <1>2, <2>3 DEF Newer, Record, EmptySig
  <2> QED
    BY <2>1, <2>2, <2>3, <2>4, <2>5, Zenon DEF HoldsJoin
<1> QED
  BY <1>6, <1>7, <1>8

(* A slot no offer and no death touched holds what it held. *)
LEMMA SlotUntouched ==
  ASSUME NEW t, NEW s, HoldsJoin(t, s, store[t].records[s]),
         store'[t].records[s] = store[t].records[s],
         SeenAt(t, s)' = SeenAt(t, s), seen \subseteq seen'
  PROVE  HoldsJoin(t, s, store[t].records[s])'
BY DEF HoldsJoin

(* ApplyExt on an owner record keeps every slot the join of what was accepted. *)
LEMMA OwnerKeepsJoin ==
  ASSUME TypeInv, SlotIsJoin, NEW r \in OwnerRecord, ApplyOwnerRecord(r)
  PROVE  SlotIsJoin'
<1> SUFFICES ASSUME NEW t \in Topic, NEW s \in Slot
             PROVE  HoldsJoin(t, s, store[t].records[s])'
  BY DEF SlotIsJoin
<1>1. HoldsJoin(t, s, store[t].records[s])
  BY DEF SlotIsJoin
<1>2. CASE t = r.topic /\ s = keyOf(r)
  BY <1>1, <1>2, OfferKeepsJoin
<1>3. CASE ~(t = r.topic /\ s = keyOf(r))
  <2>1. SeenAt(t, s)' = SeenAt(t, s) /\ seen \subseteq seen'
    BY <1>3 DEF SeenAt, ApplyOwnerRecord
  <2>2. store'[t].records[s] = store[t].records[s]
    <3>1. CASE t # r.topic
      BY <3>1 DEF ApplyOwnerRecord, TypeInv, TypeOK
    <3>2. CASE t = r.topic
      <4>1. store'[t] = ApplyOwner(store[t], r, now) /\ store[t] \in TopicStoreType
        BY <3>2 DEF ApplyOwnerRecord, TypeInv, TypeOK
      <4> QED
        BY <1>3, <3>2, <4>1, OwnerRecordShape DEF ApplyOwner, MergeOwner, TopicStoreType
    <3> QED
      BY <3>1, <3>2
  <2> QED
    BY <1>1, <2>1, <2>2, SlotUntouched
<1> QED
  BY <1>2, <1>3

(* What an attestation does to a slot: nothing, or a synthesised tombstone *)
(* whose stamp is above the record it replaces and above every witness.    *)
LEMMA AttestationEffect ==
  ASSUME TypeInv, NEW a \in Attestation, ApplyAttestation(a),
         NEW t \in Topic, NEW s \in Slot,
         store'[t].records[s] # store[t].records[s]
  PROVE  LET set == WitnessSet(store[t], a, quorum.w)
             new == store'[t].records[s]
         IN /\ t = a.topic /\ s[1] = a.node
            /\ Accumulated(store[t], a, now) /\ QuorumMet(set, quorum.k)
            /\ store'[t].attestations[a.node] = set
            /\ new = Synth(a, s[2], SynthHLC(set)) /\ new.sig = EmptySig
            /\ new.hlc \in Nat /\ new # NoRecord
            /\ \A o \in Observers(set) : set[o].hlc < new.hlc
            /\ store[t].records[s] = NoRecord \/ store[t].records[s].hlc < new.hlc
<1> DEFINE ts == store[t]
           set == WitnessSet(ts, a, quorum.w)
           h == SynthHLC(set)
<1>1. t = a.topic
  BY DEF ApplyAttestation, TypeInv, TypeOK
<1>2. store'[t] = applyAttestation(ts, a, now, quorum.k, quorum.w) /\ ts \in TopicStoreType
  BY <1>1 DEF ApplyAttestation, TypeInv, TypeOK
<1>3. Accumulated(ts, a, now) /\ store'[t] = AccumulateWitness(ts, a, quorum.k, quorum.w)
  BY <1>2 DEF applyAttestation
<1>4. QuorumMet(set, quorum.k) /\ store'[t].records = Tombstoned(ts, a, h)
  BY <1>3 DEF AccumulateWitness
<1>5. store'[t].attestations[a.node] = set
  <2>1. store'[t].attestations = [ts.attestations EXCEPT ![a.node] = set]
    BY <1>3 DEF AccumulateWitness
  <2> QED
    BY <1>2, <2>1, AttestationShape, TopicStoreParts
<1>6. set \in WitnessMap
  BY <1>2, AttestationShape, WitnessSetMembers
<1>7. h \in Nat /\ \A o \in Observers(set) : set[o].hlc < h
  <2>1. \A o \in Observers(set) : set[o].hlc <= MaxHLC
    BY <1>1, <1>3, WitnessSetFiled, AttestationShape DEF WitnessFiled
  <2>2. quorum.k \in Nat \ {0}
    BY DEF TypeInv, TypeOK
  <2> QED
    BY <1>4, <1>6, <2>1, <2>2, QuorumHasWitness, SynthBeatsWitnesses
<1> HIDE DEF set, h
<1>8. s \in DyingSlots(ts, a.node, h) /\ store'[t].records[s] = Synth(a, s[2], h)
  BY <1>4 DEF Tombstoned
<1>9. s[1] = a.node /\ (ts.records[s] = NoRecord \/ ts.records[s].hlc < h)
  BY <1>2, <1>7, <1>8, AttestationShape, DyingSlotsBelow
<1>10. Synth(a, s[2], h) \in Record /\ Synth(a, s[2], h).hlc = h /\ Synth(a, s[2], h).sig = EmptySig
  BY <1>7, AttestationShape DEF Synth, Record, Slot, EmptySig
<1>11. Synth(a, s[2], h) # NoRecord
  BY <1>10, NoRecordAssumption
<1> QED
  BY <1>1, <1>3, <1>4, <1>5, <1>7, <1>8, <1>9, <1>10, <1>11, Zenon DEF set, h

(* So does an attestation, whether it only accumulates or reaches the quorum. *)
LEMMA AttestationKeepsJoin ==
  ASSUME TypeInv, SlotIsJoin, NEW a \in Attestation, ApplyAttestation(a)
  PROVE  SlotIsJoin'
<1> SUFFICES ASSUME NEW t \in Topic, NEW s \in Slot
             PROVE  HoldsJoin(t, s, store[t].records[s])'
  BY DEF SlotIsJoin
<1> DEFINE cur == store[t].records[s]
           new == store'[t].records[s]
<1>1. HoldsJoin(t, s, cur)
  BY DEF SlotIsJoin
<1>2. seen' = seen /\ SeenAt(t, s)' = SeenAt(t, s)
  BY DEF ApplyAttestation, SeenAt
<1>3. CASE new = cur
  BY <1>1, <1>2, <1>3, SlotUntouched
<1>4. CASE new # cur
  <2>1. /\ new # NoRecord /\ new.sig = EmptySig /\ new.hlc \in Nat
        /\ cur = NoRecord \/ cur.hlc < new.hlc
    BY <1>4, AttestationEffect, Zenon
  <2>2. cur \in Record \cup {NoRecord}
    BY DEF TypeInv, TypeOK, TopicStoreType
  <2>3. ASSUME NEW q \in SeenAt(t, s) PROVE q.hlc < new.hlc
    <3>1. cur # NoRecord /\ cur \in Record /\ cur.hlc < new.hlc
      BY <1>1, <2>1, <2>2 DEF HoldsJoin
    <3>2. q \in Record
      BY OwnerRecordShape DEF SeenAt, TypeInv, TypeOK
    <3>3. q.hlc <= cur.hlc
      <4>1. CASE cur.sig # EmptySig
        <5>1. q = cur \/ Newer(cur, q)
          BY <1>1, <3>1, <4>1 DEF HoldsJoin
        <5> QED
          BY <3>1, <3>2, <5>1 DEF Newer, Record
      <4>2. CASE cur.sig = EmptySig
        <5>1. q.hlc < cur.hlc
          BY <1>1, <3>1, <4>2 DEF HoldsJoin
        <5> QED
          BY <3>1, <3>2, <5>1 DEF Record
      <4> QED
        BY <4>1, <4>2
    <3> QED
      BY <2>1, <3>1, <3>2, <3>3 DEF Record
  <2> QED
    BY <1>2, <2>1, <2>3 DEF HoldsJoin
<1> QED
  BY <1>3, <1>4

(* reapExpired keeps it: a reaped slot forgets its history with its record. *)
LEMMA ReapKeepsJoin ==
  ASSUME TypeInv, SlotIsJoin, reapExpired
  PROVE  SlotIsJoin'
<1> SUFFICES ASSUME NEW t \in Topic, NEW s \in Slot
             PROVE  HoldsJoin(t, s, store[t].records[s])'
  BY DEF SlotIsJoin
<1> DEFINE cur == store[t].records[s]
           new == store'[t].records[s]
<1>1. HoldsJoin(t, s, cur)
  BY DEF SlotIsJoin
<1>2. new = cur \/ new = NoRecord
  BY Zenon DEF reapExpired, Reaped, reapTopic
<1>3. seen' = {r \in seen : store'[r.topic].records[keyOf(r)] # NoRecord}
  BY DEF reapExpired
<1>4. CASE new = NoRecord
  <2>1. SeenAt(t, s)' = {}
    BY <1>3, <1>4 DEF SeenAt
  <2> QED
    BY <1>4, <2>1 DEF HoldsJoin
<1>5. CASE new = cur /\ cur # NoRecord
  <2>1. SeenAt(t, s)' = SeenAt(t, s)
    BY <1>3, <1>5 DEF SeenAt
  <2>2. cur.topic = t /\ keyOf(cur) = s
    BY <1>5 DEF TypeInv, Filed, RecordsFiled
  <2>3. cur \in seen => cur \in seen'
    BY <1>3, <1>5, <2>2, Zenon
  <2> QED
    BY <1>1, <1>5, <2>1, <2>3 DEF HoldsJoin
<1> QED
  BY <1>2, <1>4, <1>5

JoinInv == TypeInv /\ SlotIsJoin

(* JoinInv is inductive: no operation of the store breaks it. *)
LEMMA NextKeepsJoin == JoinInv /\ [Next]_vars => JoinInv'
<1> SUFFICES ASSUME TypeInv, SlotIsJoin, [Next]_vars PROVE SlotIsJoin'
  BY NextTypeInv DEF JoinInv
<1>1. ASSUME NEW r \in OwnerRecord, ApplyOwnerRecord(r) PROVE SlotIsJoin'
  BY <1>1, OwnerKeepsJoin
<1>2. ASSUME NEW a \in Attestation, ApplyAttestation(a) PROVE SlotIsJoin'
  BY <1>2, AttestationKeepsJoin
<1>3. CASE reapExpired
  BY <1>3, ReapKeepsJoin
<1>4. CASE UNCHANGED <<store, seen>>
  BY <1>4 DEF SlotIsJoin, HoldsJoin, SeenAt
<1>5. \/ \E r \in OwnerRecord : ApplyOwnerRecord(r)
      \/ \E a \in Attestation : ApplyAttestation(a)
      \/ reapExpired
      \/ UNCHANGED <<store, seen>>
  BY DEF Next, SetObserverQuorum, ClockStep, vars
<1> QED
  BY <1>1, <1>2, <1>3, <1>4, <1>5

(* Whatever the order, repetition and interleaving of deliveries, deaths   *)
(* and reaping, each slot holds the greatest owner record offered to it,   *)
(* or a synthesised tombstone above all of them.                           *)
THEOREM MergeIsJoin == Spec => []SlotIsJoin
<1>1. Init => JoinInv
  BY InitTypeInv DEF Init, JoinInv, SlotIsJoin, HoldsJoin, SeenAt, EmptyTopicStore
<1>2. JoinInv => SlotIsJoin
  BY DEF JoinInv
<1> QED
  BY <1>1, <1>2, NextKeepsJoin, PTL DEF Spec

-------------------------------------------------------------------------------
(***************************************************************************)
(* The restored-at fence.                                                  *)
(***************************************************************************)

LEMMA FencedSteps ==
  ASSUME TypeInv, LiveIsFenced, [Next]_vars
  PROVE  LiveIsFenced'
<1>1. ASSUME NEW t \in Topic PROVE store[t] \in TopicStoreType /\ Fenced(store[t])
  BY DEF TypeInv, TypeOK, LiveIsFenced
<1>2. ASSUME NEW r \in OwnerRecord, ApplyOwnerRecord(r) PROVE LiveIsFenced'
  <2>1. store[r.topic] \in TopicStoreType /\ Fenced(store[r.topic])
    BY <1>1, OwnerRecordShape
  <2>2. now \in Nat
    BY DEF TypeInv, TypeOK
  <2>3. Fenced(MergeOwner(store[r.topic], r, now))
    <3> DEFINE ts == store[r.topic]
               new == MergeOwner(ts, r, now)
    <3> SUFFICES ASSUME NEW s \in Slot, GetKeyed(new, s) # NoRecord
                 PROVE  new.restored[s[1]] # Unset
      BY DEF Fenced
    <3>2. CASE s = keyOf(r)
      <4>1. new.records[s] = r
        BY <2>1, <3>2, OwnerRecordShape, MergeOwnerParts
      <4>2. ~r.tomb
        BY <4>1 DEF GetKeyed
      <4>3. s[1] = r.node
        BY <3>2 DEF keyOf
      <4> QED
        BY <2>1, <2>2, <4>2, <4>3, OwnerRecordShape, MergeOwnerParts DEF Unset
    <3>3. CASE s # keyOf(r)
      <4>1. GetKeyed(ts, s) # NoRecord
        <5>1. new.records[s] = ts.records[s]
          BY <2>1, <3>3, OwnerRecordShape, MergeOwnerParts
        <5> QED
          BY <5>1 DEF GetKeyed
      <4>2. ts.restored[s[1]] # Unset
        BY <2>1, <4>1 DEF Fenced
      <4> QED
        BY <2>1, <2>2, <4>2, OwnerRecordShape, MergeOwnerParts DEF Unset
    <3> QED
      BY <3>2, <3>3
  <2>4. Fenced(ApplyOwner(store[r.topic], r, now))
    BY <2>1, <2>3 DEF ApplyOwner
  <2> QED
    BY <1>1, <1>2, <2>4, OwnerRecordShape DEF ApplyOwnerRecord, LiveIsFenced, TypeInv, TypeOK
<1>3. ASSUME NEW a \in Attestation, ApplyAttestation(a) PROVE LiveIsFenced'
  <2>1. store[a.topic] \in TopicStoreType /\ Fenced(store[a.topic])
    BY <1>1, AttestationShape
  <2>2. Fenced(applyAttestation(store[a.topic], a, now, quorum.k, quorum.w))
    BY <2>1, Zenon DEF applyAttestation, AccumulateWitness, Tombstoned, Synth, Fenced, GetKeyed
  <2> QED
    BY <1>1, <1>3, <2>2, AttestationShape DEF ApplyAttestation, LiveIsFenced, TypeInv, TypeOK
<1>4. CASE reapExpired
  <2>1. ASSUME NEW t \in Topic PROVE Fenced(Reaped(t))
    <3>1. Fenced(reapTopic(store[t], now, TopicTTL[t]))
      BY <1>1, Zenon DEF reapTopic, Kept, slotsHeld, Fenced, GetKeyed, Slot
    <3> QED
      BY <1>1, <3>1 DEF Reaped
  <2> QED
    BY <1>4, <2>1 DEF reapExpired, LiveIsFenced
<1>5. CASE UNCHANGED store
  BY <1>5 DEF LiveIsFenced
<1>6. \/ \E r \in OwnerRecord : ApplyOwnerRecord(r)
      \/ \E a \in Attestation : ApplyAttestation(a)
      \/ reapExpired
      \/ UNCHANGED store
  BY DEF Next, SetObserverQuorum, ClockStep, vars
<1> QED
  BY <1>2, <1>3, <1>4, <1>5, <1>6

(* A node holding a live record always has its restored-at mark, through   *)
(* every merge, death and reaping.                                         *)
THEOREM FenceHolds == Spec => []LiveIsFenced
<1>1. Init => TypeInv /\ LiveIsFenced
  BY InitTypeInv DEF Init, LiveIsFenced, Fenced, GetKeyed, EmptyTopicStore
<1>2. TypeInv /\ LiveIsFenced /\ [Next]_vars => (TypeInv /\ LiveIsFenced)'
  BY FencedSteps, NextTypeInv
<1> QED
  BY <1>1, <1>2, PTL DEF Spec

-------------------------------------------------------------------------------
(***************************************************************************)
(* What a step may never do.                                               *)
(***************************************************************************)

(* What an owner record does to a slot: nothing, or it takes it over.      *)
LEMMA OwnerEffect ==
  ASSUME TypeInv, NEW r \in OwnerRecord, ApplyOwnerRecord(r),
         NEW t \in Topic, NEW s \in Slot,
         store'[t].records[s] # store[t].records[s]
  PROVE  /\ t = r.topic /\ s = keyOf(r) /\ store'[t].records[s] = r
         /\ store[t].records[s] = NoRecord \/ Newer(r, store[t].records[s])
<1>1. t = r.topic
  BY DEF ApplyOwnerRecord, TypeInv, TypeOK
<1>2. store'[t] = ApplyOwner(store[t], r, now) /\ store[t] \in TopicStoreType
  BY <1>1 DEF ApplyOwnerRecord, TypeInv, TypeOK
<1>3. OwnerApplied(store[t], r) /\ store'[t] = MergeOwner(store[t], r, now)
  BY <1>2 DEF ApplyOwner
<1>4. s = keyOf(r) /\ store'[t].records[s] = r
  BY <1>2, <1>3, OwnerRecordShape, MergeOwnerParts
<1> QED
  BY <1>1, <1>3, <1>4, Zenon DEF OwnerApplied

(* The steps that touch no slot except to empty it. *)
LEMMA OtherSteps ==
  ASSUME [Next]_vars
  PROVE  \/ \E r \in OwnerRecord : ApplyOwnerRecord(r)
         \/ \E a \in Attestation : ApplyAttestation(a)
         \/ \A t \in Topic, s \in Slot :
              store'[t].records[s] \in {store[t].records[s], NoRecord}
<1>1. ASSUME reapExpired, NEW t \in Topic, NEW s \in Slot
      PROVE  store'[t].records[s] \in {store[t].records[s], NoRecord}
  <2>1. store'[t] = Reaped(t)
    BY <1>1 DEF reapExpired
  <2> QED
    BY <2>1 DEF Reaped, reapTopic
<1> QED
  BY <1>1 DEF Next, SetObserverQuorum, ClockStep, vars

(* No step moves a slot backwards in the merge order. *)
THEOREM NoRegress == Spec => SlotNeverRegresses
<1> DEFINE A == \A t \in Topic, s \in Slot :
                  LET old == store[t].records[s]
                      new == store'[t].records[s]
                  IN old # NoRecord /\ new # NoRecord /\ new # old => Newer(new, old)
<1>1. TypeInv /\ [Next]_vars => A
  <2> SUFFICES ASSUME TypeInv, [Next]_vars, NEW t \in Topic, NEW s \in Slot,
                      store[t].records[s] # NoRecord, store'[t].records[s] # NoRecord,
                      store'[t].records[s] # store[t].records[s]
               PROVE  Newer(store'[t].records[s], store[t].records[s])
    OBVIOUS
  <2>1. ASSUME NEW r \in OwnerRecord, ApplyOwnerRecord(r)
        PROVE  Newer(store'[t].records[s], store[t].records[s])
    BY <2>1, OwnerEffect
  <2>2. ASSUME NEW a \in Attestation, ApplyAttestation(a)
        PROVE  Newer(store'[t].records[s], store[t].records[s])
    <3>1. /\ store'[t].records[s].hlc \in Nat
          /\ store[t].records[s].hlc < store'[t].records[s].hlc
      BY <2>2, AttestationEffect, Zenon
    <3>2. store[t].records[s].hlc \in Nat
      <4>1. store[t].records[s] \in Record
        BY TopicStoreParts DEF TypeInv, TypeOK
      <4> QED
        BY <4>1 DEF Record
    <3> QED
      BY <3>1, <3>2 DEF Newer
  <2> QED
    BY <2>1, <2>2, OtherSteps
<1>2. Spec => []TypeInv
  BY InitTypeInv, NextTypeInv, PTL DEF Spec
<1> QED
  BY <1>1, <1>2, PTL DEF Spec, SlotNeverRegresses

(* A slot is killed only by K distinct trusted observers within the window,*)
(* with a stamp above theirs and above the record it replaces.             *)
THEOREM QuorumBeforeDeath == Spec => DeathHasQuorum
<1> DEFINE Justified(t, s) ==
             LET set == store'[t].attestations[s[1]]
             IN /\ Cardinality(Observers(set)) >= quorum.k
                /\ Observers(set) \subseteq Trusted
                /\ \A o, p \in Observers(set) : set[o].observedAt - set[p].observedAt <= quorum.w
                /\ \A o \in Observers(set) : set[o].hlc < store'[t].records[s].hlc
                /\ store[t].records[s] # NoRecord =>
                     store[t].records[s].hlc < store'[t].records[s].hlc
           A == \A t \in Topic, s \in Slot : Killed(t, s) => Justified(t, s)
<1>1. TypeInv /\ [Next]_vars => A
  <2> SUFFICES ASSUME TypeInv, [Next]_vars, NEW t \in Topic, NEW s \in Slot, Killed(t, s)
               PROVE  Justified(t, s)
    BY Zenon
  <2>1. ASSUME NEW r \in OwnerRecord, ApplyOwnerRecord(r) PROVE FALSE
    <3>1. store'[t].records[s] # store[t].records[s] /\ store'[t].records[s].sig = EmptySig
      BY DEF Killed
    <3>2. store'[t].records[s] = r
      BY <2>1, <3>1, OwnerEffect
    <3> QED
      BY <3>1, <3>2, OwnerRecordShape
  <2>2. ASSUME NEW a \in Attestation, ApplyAttestation(a) PROVE Justified(t, s)
    <3> DEFINE old == [store[t].attestations[a.node] EXCEPT ![a.observer] = a]
               set == WitnessSet(store[t], a, quorum.w)
    <3>1. /\ t = a.topic /\ s[1] = a.node /\ Accumulated(store[t], a, now)
          /\ QuorumMet(set, quorum.k) /\ store'[t].attestations[a.node] = set
          /\ \A o \in Observers(set) : set[o].hlc < store'[t].records[s].hlc
          /\ store[t].records[s] = NoRecord \/ store[t].records[s].hlc < store'[t].records[s].hlc
      BY <2>2, AttestationEffect, Zenon DEF Killed
    <3>2. Observers(set) \subseteq Trusted
      BY <3>1, WitnessSetFiled, Zenon DEF WitnessFiled
    <3>3. old \in WitnessMap /\ set = Prune(old, quorum.w) /\ quorum.w \in Nat
      <4>1. store[t].attestations \in [NodeID -> WitnessMap] /\ quorum.w \in Nat
        BY TopicStoreParts DEF TypeInv, TypeOK
      <4> QED
        BY <4>1, AttestationShape DEF WitnessMap, WitnessSet
    <3> HIDE DEF old, set
    <3>4. \A o, p \in Observers(set) : set[o].observedAt - set[p].observedAt <= quorum.w
      BY <3>3, PruneWindow
    <3> QED
      BY <3>1, <3>2, <3>4, Zenon DEF QuorumMet
  <2>3. ~(\A x \in Topic, z \in Slot : store'[x].records[z] \in {store[x].records[z], NoRecord})
    BY DEF Killed
  <2> QED
    BY <2>1, <2>2, <2>3, OtherSteps, Zenon
<1>2. Spec => []TypeInv
  BY InitTypeInv, NextTypeInv, PTL DEF Spec
<1> QED
  BY <1>1, <1>2, PTL DEF Spec, DeathHasQuorum

-------------------------------------------------------------------------------
(***************************************************************************)
(* The caps, and topics that come and go.                                  *)
(***************************************************************************)

LEMMA TopicsFinite ==
  ASSUME TypeInv
  PROVE  IsFiniteSet(byTopic) /\ Cardinality(byTopic) \in Nat
BY ConfigAssumption, FS_Subset, FS_CardinalityType DEF TypeInv, TypeOK

(* Creating a topic respects MaxTopics. *)
LEMMA AdmitKeepsCap ==
  ASSUME TypeInv, Cardinality(byTopic) <= MaxTopics, NEW t, TopicAdmitted(t)
  PROVE  Cardinality(byTopic \cup {t}) <= MaxTopics
<1>1. Cardinality(byTopic \cup {t}) = IF t \in byTopic THEN Cardinality(byTopic) ELSE Cardinality(byTopic) + 1
  BY TopicsFinite, FS_AddElement
<1> QED
  BY <1>1, TopicsFinite, ConfigAssumption DEF TopicAdmitted

(* Every operation of the store keeps the caps setCaps installed. *)
LEMMA CapSteps ==
  ASSUME TypeInv, CapsHold, [Next]_vars
  PROVE  CapsHold'
<1>1. Cardinality(byTopic) <= MaxTopics /\ \A t \in Topic : TopicCaps(store[t])
  BY DEF CapsHold, TopicCaps
<1>2. \A t \in Topic : store[t] \in TopicStoreType
  BY DEF TypeInv, TypeOK
<1> SUFFICES Cardinality(byTopic') <= MaxTopics /\ \A t \in Topic : TopicCaps(store'[t])
  BY DEF CapsHold, TopicCaps
<1>3. ASSUME NEW r \in OwnerRecord, ApplyOwnerRecord(r)
      PROVE  Cardinality(byTopic') <= MaxTopics /\ \A t \in Topic : TopicCaps(store'[t])
  <2>1. Cardinality(byTopic') <= MaxTopics
    BY <1>1, <1>3, AdmitKeepsCap DEF ApplyOwnerRecord
  <2>2. TopicCaps(ApplyOwner(store[r.topic], r, now))
    BY <1>1, <1>2, OwnerRecordShape, MergeOwnerCaps DEF ApplyOwner
  <2>3. \A t \in Topic : TopicCaps(store'[t])
    BY <1>1, <1>3, <2>2 DEF ApplyOwnerRecord, TypeInv, TypeOK
  <2> QED
    BY <2>1, <2>3
<1>4. ASSUME NEW a \in Attestation, ApplyAttestation(a)
      PROVE  Cardinality(byTopic') <= MaxTopics /\ \A t \in Topic : TopicCaps(store'[t])
  <2>1. Cardinality(byTopic') <= MaxTopics
    BY <1>1, <1>4, AdmitKeepsCap DEF ApplyAttestation
  <2>2. TopicCaps(applyAttestation(store[a.topic], a, now, quorum.k, quorum.w))
    BY <1>1, <1>2, AttestationShape, AccumulateWitnessCaps DEF applyAttestation
  <2>3. \A t \in Topic : TopicCaps(store'[t])
    BY <1>1, <1>4, <2>2 DEF ApplyAttestation, TypeInv, TypeOK
  <2> QED
    BY <2>1, <2>3
<1>5. CASE reapExpired
  <2>1. byTopic' \in SUBSET byTopic
    BY <1>5 DEF reapExpired
  <2>2. Cardinality(byTopic') <= Cardinality(byTopic) /\ Cardinality(byTopic') \in Nat
    BY <2>1, TopicsFinite, FS_Subset, FS_CardinalityType
  <2>3. \A t \in Topic : TopicCaps(Reaped(t))
    BY <1>1, <1>2, ReapTopicCaps DEF Reaped
  <2>4. \A t \in Topic : store'[t] = Reaped(t)
    BY <1>5 DEF reapExpired
  <2>5. Cardinality(byTopic') <= MaxTopics
    BY <1>1, <2>2, TopicsFinite, ConfigAssumption
  <2> QED
    BY <2>3, <2>4, <2>5
<1>6. CASE UNCHANGED <<byTopic, store>>
  BY <1>1, <1>6
<1>7. \/ \E r \in OwnerRecord : ApplyOwnerRecord(r)
      \/ \E a \in Attestation : ApplyAttestation(a)
      \/ reapExpired
      \/ UNCHANGED <<byTopic, store>>
  BY DEF Next, SetObserverQuorum, ClockStep, vars
<1> QED
  BY <1>3, <1>4, <1>5, <1>6, <1>7

(* The caps on topics, on keys per node and on witnesses per target hold   *)
(* in every reachable state.                                               *)
THEOREM CapsAlwaysHold == Spec => []CapsHold
<1>1. Init => CapsHold
  <2> SUFFICES ASSUME Init PROVE CapsHold
    OBVIOUS
  <2>1. \A t \in Topic, n \in NodeID :
          nodeSlots(store[t], n) = {} /\ Observers(store[t].attestations[n]) = {}
    BY DEF Init, EmptyTopicStore, nodeSlots, slotsHeld, Observers
  <2>2. byTopic = {}
    BY DEF Init
  <2>3. Cardinality({}) = 0
    BY FS_EmptySet
  <2>4. 0 <= MaxTopics /\ 0 <= MaxKeysPerNode /\ 0 <= MaxAttestations
    BY CapAssumption, ConfigAssumption
  <2> QED
    BY <2>1, <2>2, <2>3, <2>4 DEF CapsHold
<1>2. TypeInv /\ CapsHold /\ [Next]_vars => (TypeInv /\ CapsHold)'
  BY CapSteps, NextTypeInv
<1> QED
  BY <1>1, <1>2, InitTypeInv, PTL DEF Spec

(* A topicStore without records and witnesses has no fence left either     *)
(* once it is reaped.                                                      *)
LEMMA ReapedEmpty ==
  ASSUME NEW ts \in TopicStoreType, NEW t, NEW ttl,
         slotsHeld(reapTopic(ts, t, ttl)) = {}, ~HasWitness(reapTopic(ts, t, ttl))
  PROVE  reapTopic(ts, t, ttl) = EmptyTopicStore
<1> DEFINE new == reapTopic(ts, t, ttl)
<1>1. new.records = [s \in Slot |-> NoRecord]
  <2>1. new.records \in [Slot -> Record \cup {NoRecord}]
    BY ReapTopicType DEF TopicStoreType
  <2>2. \A s \in Slot : new.records[s] = NoRecord
    BY DEF slotsHeld
  <2> QED
    BY <2>1, <2>2, Zenon
<1>2. new.attestations = [n \in NodeID |-> [o \in NodeID |-> NoRecord]]
  <2>1. new.attestations \in [NodeID -> [NodeID -> Record \cup {NoRecord}]]
    BY ReapTopicType DEF TopicStoreType
  <2>2. \A n, o \in NodeID : new.attestations[n][o] = NoRecord
    BY DEF HasWitness, Observers
  <2> HIDE DEF new
  <2>3. \A n \in NodeID : new.attestations[n] = [o \in NodeID |-> NoRecord]
    BY <2>1, <2>2
  <2> QED
    BY <2>1, <2>3
<1>3. Kept(ts, t, ttl) = {}
  <2> SUFFICES ASSUME NEW s \in Kept(ts, t, ttl) PROVE FALSE
    OBVIOUS
  <2>1. s \in Slot /\ ts.records[s] # NoRecord
    BY DEF Kept, slotsHeld
  <2>2. new.records[s] = ts.records[s]
    BY <2>1 DEF reapTopic
  <2> QED
    BY <1>1, <2>1, <2>2
<1>4. new.restored = [n \in NodeID |-> Unset]
  BY <1>3 DEF reapTopic
<1> QED
  BY <1>1, <1>2, <1>4, Zenon DEF reapTopic, EmptyTopicStore

(* Deleting a topic in the reaper loses no record, no witness and no       *)
(* fence: what is not in byTopic is empty.                                 *)
THEOREM AbsentIsEmpty == Spec => []AbsentTopicIsEmpty
<1>1. Init => AbsentTopicIsEmpty
  BY DEF Init, AbsentTopicIsEmpty
<1>2. TypeInv /\ AbsentTopicIsEmpty /\ [Next]_vars => AbsentTopicIsEmpty'
  <2> SUFFICES ASSUME TypeInv, AbsentTopicIsEmpty, [Next]_vars, NEW t \in Topic, t \notin byTopic'
               PROVE  store'[t] = EmptyTopicStore
    BY DEF AbsentTopicIsEmpty
  <2>1. ASSUME NEW r \in OwnerRecord, ApplyOwnerRecord(r) PROVE store'[t] = EmptyTopicStore
    BY <2>1 DEF ApplyOwnerRecord, AbsentTopicIsEmpty, TypeInv, TypeOK
  <2>2. ASSUME NEW a \in Attestation, ApplyAttestation(a) PROVE store'[t] = EmptyTopicStore
    BY <2>2 DEF ApplyAttestation, AbsentTopicIsEmpty, TypeInv, TypeOK
  <2>3. CASE reapExpired
    <3>1. store'[t] = Reaped(t)
      BY <2>3, Zenon DEF reapExpired
    <3>2. CASE t \notin byTopic
      BY <3>1, <3>2 DEF Reaped, AbsentTopicIsEmpty
    <3>3. CASE t \in byTopic
      <4>1. TopicTTL[t] # 0 /\ slotsHeld(store'[t]) = {} /\ ~HasWitness(store'[t])
        BY <2>3, <3>3 DEF reapExpired
      <4>2. TopicTTL[t] > 0
        BY <4>1, ConfigAssumption
      <4>3. store'[t] = reapTopic(store[t], now, TopicTTL[t])
        BY <3>1, <3>3, <4>2 DEF Reaped
      <4> QED
        BY <4>1, <4>3, ReapedEmpty DEF TypeInv, TypeOK
    <3> QED
      BY <3>2, <3>3
  <2>4. CASE UNCHANGED <<byTopic, store>>
    BY <2>4 DEF AbsentTopicIsEmpty
  <2>5. \/ \E r \in OwnerRecord : ApplyOwnerRecord(r)
        \/ \E a \in Attestation : ApplyAttestation(a)
        \/ reapExpired
        \/ UNCHANGED <<byTopic, store>>
    BY DEF Next, SetObserverQuorum, ClockStep, vars
  <2> QED
    BY <2>1, <2>2, <2>3, <2>4, <2>5
<1>3. Spec => []TypeInv
  BY InitTypeInv, NextTypeInv, PTL DEF Spec
<1> QED
  BY <1>1, <1>2, <1>3, PTL DEF Spec

-------------------------------------------------------------------------------
(* Nothing the reader sees changes, or slots are only emptied. *)
LEMMA ForgetStep ==
  ASSUME \A t \in Topic, s \in Slot : store'[t].records[s] \in {store[t].records[s], NoRecord}
  PROVE  Map!Forget
BY DEF Map!Forget, Map!Slot, Slot

(* The stamp of a synthesised tombstone is one above a witness's. *)
LEMMA SynthBounded ==
  ASSUME NEW set \in WitnessMap,
         \A o \in Observers(set) : set[o].hlc <= MaxHLC,
         Observers(set) # {}
  PROVE  SynthHLC(set) \in 0 .. MaxHLC + 1
<1> DEFINE H == {set[o].hlc : o \in Observers(set)}
<1>1. \A o \in Observers(set) : set[o].hlc \in Nat
  BY DEF WitnessMap, Observers, Record
<1>2. H \subseteq 0 .. MaxHLC /\ H # {}
  BY <1>1, CapAssumption
<1>3. Max(H) \in H
  BY <1>2, CapAssumption, MaxIsGreatest, Zenon
<1>4. Max(H) \in 0 .. MaxHLC
  BY <1>2, <1>3
<1> QED
  BY <1>4, CapAssumption DEF SynthHLC

(* An owner record that is applied raises its slot above what it held;     *)
(* one that is not changes nothing.                                        *)
LEMMA OwnerRaises ==
  ASSUME TypeInv, NEW r \in OwnerRecord, ApplyOwnerRecord(r)
  PROVE  Map!Raise(r) \/ Map!Forget
<1> DEFINE ts == store[r.topic]
<1>1. ts \in TopicStoreType /\ store \in [Topic -> TopicStoreType]
  BY OwnerRecordShape DEF TypeInv, TypeOK
<1>2. store' = [store EXCEPT ![r.topic] = ApplyOwner(ts, r, now)]
  BY DEF ApplyOwnerRecord
<1>3. CASE ~OwnerApplied(ts, r)
  <2>1. store' = store
    BY <1>1, <1>2, <1>3 DEF ApplyOwner
  <2> QED
    BY <2>1, ForgetStep
<1>4. CASE OwnerApplied(ts, r)
  <2>1. store' = [store EXCEPT ![r.topic] = MergeOwner(ts, r, now)]
    BY <1>2, <1>4 DEF ApplyOwner
  <2>2. MergeOwner(ts, r, now).records = [ts.records EXCEPT ![keyOf(r)] = r]
    BY DEF MergeOwner
  <2>3. \A t \in Topic : store'[t].records =
          IF t = r.topic THEN [ts.records EXCEPT ![keyOf(r)] = r] ELSE store[t].records
    BY <1>1, <2>1, <2>2, OwnerRecordShape
  <2>4. [t \in Topic |-> store'[t].records] =
          [[t \in Topic |-> store[t].records] EXCEPT ![r.topic][<<r.node, r.key>>] = r]
    BY <1>1, <2>3, OwnerRecordShape, Zenon DEF keyOf, TopicStoreType
  <2>5. ts.records[keyOf(r)] = NoRecord \/ Newer(r, ts.records[keyOf(r)])
    BY <1>4 DEF OwnerApplied
  <2>6. Map!Above(r, ts.records[keyOf(r)])
    <3>1. ts.records[keyOf(r)] # NoRecord => ts.records[keyOf(r)] \in Record
      BY <1>1, OwnerRecordShape DEF TopicStoreType
    <3> QED
      BY <2>5, <3>1, OwnerRecordShape DEF Map!Above, Newer, Record
  <2> QED
    BY <2>4, <2>6, OwnerRecordShape DEF Map!Raise, keyOf
<1> QED
  BY <1>3, <1>4

(* Once a tombstone stamped h has landed, the dead node has an entry, and  *)
(* none below h.                                                           *)
LEMMA NothingBelow ==
  ASSUME NEW ts \in TopicStoreType, NEW a \in Attestation, NEW h \in Nat,
         NEW z \in Slot, z[1] = a.node, Tombstoned(ts, a, h)[z] # NoRecord
  PROVE  Tombstoned(ts, a, h)[z].hlc >= h
<1>1. CASE z \in DyingSlots(ts, a.node, h)
  BY <1>1 DEF Tombstoned, Synth
<1>2. CASE z \notin DyingSlots(ts, a.node, h)
  <2>1. ts.records[z] # NoRecord /\ Tombstoned(ts, a, h)[z] = ts.records[z]
    BY <1>2 DEF Tombstoned
  <2>2. z \in nodeSlots(ts, a.node)
    BY <2>1 DEF nodeSlots, slotsHeld
  <2>3. ~(ts.records[z].hlc < h)
    BY <1>2, <2>2 DEF DyingSlots, nodePresent
  <2>4. ts.records[z].hlc \in Nat
    BY <2>1 DEF TopicStoreType, Record
  <2> QED
    BY <2>1, <2>3, <2>4
<1> QED
  BY <1>1, <1>2

(* An attestation that changes a slot kills one node in one topic at one   *)
(* stamp: all its slots, or none.                                          *)
LEMMA AttestationKills ==
  ASSUME TypeInv, NEW a \in Attestation, ApplyAttestation(a),
         NEW t \in Topic, NEW s \in Slot, store'[t].records[s] # store[t].records[s]
  PROVE  \E h \in 0 .. MaxHLC + 1 : Map!Die(t, a.node, h)
<1> DEFINE ts == store[t]
           set == WitnessSet(ts, a, quorum.w)
<1>1. /\ t = a.topic /\ s[1] = a.node /\ Accumulated(ts, a, now) /\ QuorumMet(set, quorum.k)
      /\ store'[t].records[s] # NoRecord
  BY AttestationEffect, Zenon
<1>2. ts \in TopicStoreType
  BY DEF TypeInv, TypeOK
<1>3. set \in WitnessMap
  BY <1>2, AttestationShape, WitnessSetMembers, Zenon
<1>4. SynthHLC(set) \in 0 .. MaxHLC + 1
  <2>1. \A o \in Observers(set) : set[o].hlc <= MaxHLC
    BY <1>1, WitnessSetFiled, AttestationShape, Zenon DEF WitnessFiled
  <2>2. quorum.k \in Nat \ {0}
    BY DEF TypeInv, TypeOK
  <2> HIDE DEF set
  <2> QED
    BY <1>1, <1>3, <2>1, <2>2, QuorumHasWitness, SynthBounded
<1>5. PICK h \in 0 .. MaxHLC + 1 : h = SynthHLC(set)
  BY <1>4
<1>6. h \in Nat
  BY CapAssumption
<1>7. store'[t].records = Tombstoned(ts, a, h)
  <2>1. store'[t] = applyAttestation(ts, a, now, quorum.k, quorum.w)
    BY <1>1, Zenon DEF ApplyAttestation, TypeInv, TypeOK
  <2>2. store'[t] = AccumulateWitness(ts, a, quorum.k, quorum.w)
    BY <1>1, <2>1, Zenon DEF applyAttestation
  <2>3. AccumulateWitness(ts, a, quorum.k, quorum.w).records = Tombstoned(ts, a, SynthHLC(set))
    BY <1>1, Zenon DEF AccumulateWitness
  <2> QED
    BY <1>5, <2>2, <2>3, Zenon
<1>8. ASSUME NEW u \in Topic, NEW z \in Slot, store'[u].records[z] # store[u].records[z]
      PROVE  /\ u = t /\ z[1] = a.node
             /\ store'[u].records[z] = Synth(a, z[2], h) /\ store'[u].records[z] # NoRecord
             /\ store[u].records[z] # NoRecord => store[u].records[z].hlc < h
  <2>1. u = t
    BY <1>1, <1>8, AttestationEffect, Zenon
  <2>2. /\ z[1] = a.node /\ store'[t].records[z] = Synth(a, z[2], h)
        /\ store'[t].records[z] # NoRecord
        /\ store[t].records[z] = NoRecord \/ store[t].records[z].hlc < store'[t].records[z].hlc
    BY <1>5, <1>8, <2>1, AttestationEffect, Zenon
  <2>3. Synth(a, z[2], h).hlc = h
    BY Zenon DEF Synth
  <2> QED
    BY <2>1, <2>2, <2>3, Zenon
<1>9. \A z \in Slot : z[1] = a.node /\ store'[t].records[z] # NoRecord => store'[t].records[z].hlc >= h
  BY <1>2, <1>6, <1>7, NothingBelow
<1>10. \A x : Synth(a, x, h).tomb /\ Synth(a, x, h).sig = EmptySig /\ Synth(a, x, h).hlc = h
  BY Zenon DEF Synth
<1>11. ASSUME NEW u \in Topic, NEW z \in Slot, store'[u].records[z] # store[u].records[z]
      PROVE  /\ u = t /\ z[1] = a.node /\ Map!DeadAt(store'[u].records[z], h)
             /\ store[u].records[z] # NoRecord => store[u].records[z].hlc < h
  <2>1. /\ u = t /\ z[1] = a.node
        /\ store'[u].records[z] = Synth(a, z[2], h) /\ store'[u].records[z] # NoRecord
        /\ store[u].records[z] # NoRecord => store[u].records[z].hlc < h
    BY <1>8, <1>11, Zenon
  <2>2. Map!DeadAt(store'[u].records[z], h)
    BY <1>10, <2>1, Zenon DEF Map!DeadAt
  <2> QED
    BY <2>1, <2>2
<1>12. \E z \in Slot : z[1] = a.node /\ store'[t].records[z] # NoRecord
  BY <1>1
<1>13. Map!Die(t, a.node, h)
  BY <1>9, <1>11, <1>12 DEF Map!Die, Map!Slot, Slot
<1> QED
  BY <1>13

(* Every step of the store is a step of the map. *)
LEMMA StepIsMapStep == TypeInv /\ [Next]_vars => Map!Next
<1> SUFFICES ASSUME TypeInv, [Next]_vars PROVE Map!Next
  OBVIOUS
<1>1. ASSUME NEW r \in OwnerRecord, ApplyOwnerRecord(r) PROVE Map!Next
  BY <1>1, OwnerRaises DEF Map!Next
<1>2. ASSUME NEW a \in Attestation, ApplyAttestation(a) PROVE Map!Next
  <2>1. CASE \A t \in Topic, s \in Slot : store'[t].records[s] = store[t].records[s]
    BY <2>1, ForgetStep DEF Map!Next
  <2>2. ASSUME NEW t \in Topic, NEW s \in Slot, store'[t].records[s] # store[t].records[s]
        PROVE  Map!Next
    BY <1>2, <2>2, AttestationKills, AttestationShape DEF Map!Next
  <2> QED
    BY <2>1, <2>2
<1> QED
  BY <1>1, <1>2, OtherSteps, ForgetStep DEF Map!Next

(* The store implements the map: witness sets, fences, caps, reconfigured  *)
(* quorums and jumping clocks never show a reader anything but a slot      *)
(* raised by its owner, a node killed in one step, or slots forgotten.     *)
THEOREM Refines == Spec => StoreIsMap
<1>1. Init => Map!Init
  BY DEF Init, Map!Init, Map!Slot, Slot, EmptyTopicStore
<1>2. TypeInv /\ [Next]_vars => [Map!Next]_([t \in Topic |-> store[t].records])
  BY StepIsMapStep
<1>3. Spec => []TypeInv
  BY InitTypeInv, NextTypeInv, PTL DEF Spec
<1> QED
  BY <1>1, <1>2, <1>3, PTL DEF Spec, StoreIsMap, Map!Spec

===============================================================================
