------------------------------ MODULE TopicStore ------------------------------
(***************************************************************************)
(* The per-topic half of the delta-CRDT record store (crdt.go): the record *)
(* slots, the observer-attestation witness sets and the restored-at fence  *)
(* of one topic, with every operation written as a function from one       *)
(* topicStore value to the next.  The operators are pure so that a single  *)
(* store (RecordStore) and a mesh of stores can both use them.             *)
(*                                                                         *)
(* Data is abstracted to what the merge tells apart.  A record's body,     *)
(* public key and signature bytes are one number `sig', ordered like the   *)
(* bytes sigLess compares; 0 is the empty signature of a synthesised       *)
(* record.  Go's maps are total functions whose absent entries are         *)
(* NoRecord (or Unset).                                                    *)
(*                                                                         *)
(* A definition whose name starts with Bug is the definition that follows  *)
(* it with a plausible mistake; no specification uses it.                  *)
(***************************************************************************)
EXTENDS Integers, FiniteSets, FiniteSetsExt

CONSTANTS
  Topic,               \* topic names
  NodeID,              \* node identities: owners, targets and observers
  NoNode,              \* the empty ObserverNodeID of an owner record
  Key,                 \* slot keys, EmptyKey among them
  EmptyKey,            \* the key of the classical one-slot-per-node form
  NoRecord,            \* an absent map entry
  Trusted,             \* observers the wired role check accepts
  MaxRecordsPerTopic,  \* caps installed by setCaps
  MaxKeysPerNode,
  MaxAttestations,
  Window,              \* DefaultObserverCorroborationWindow, in clock units
  CtrSpan,             \* stamps per clock unit: an HLC's wall is hlc \div CtrSpan
  MaxHLC,              \* largest stamp the inbound gate admits
  MaxObservedAt        \* largest ObservedAtUnixMs in circulation

ASSUME NodeAssumption ==
  /\ IsFiniteSet(NodeID) /\ NoNode \notin NodeID
  /\ IsFiniteSet(Key) /\ EmptyKey \in Key
  /\ Trusted \subseteq NodeID

ASSUME CapAssumption ==
  /\ MaxRecordsPerTopic \in Nat \ {0}
  /\ MaxKeysPerNode \in Nat \ {0}
  /\ MaxAttestations \in Nat \ {0}
  /\ Window \in Nat \ {0}
  /\ CtrSpan \in Nat \ {0}
  /\ MaxHLC \in Nat
  /\ MaxObservedAt \in Nat

Slot == NodeID \X Key
Unset == -1
EmptySig == 0
SkewBudget == 2 * Window

Record ==
  [topic : Topic, node : NodeID, key : Key, hlc : Nat, tomb : BOOLEAN,
   sig : Nat, observer : NodeID \cup {NoNode}, observedAt : Nat]

ASSUME NoRecordAssumption == NoRecord \notin Record

IsObserverAttestation(r) == r.tomb /\ r.observer # NoNode

(* The records an owner may sign: fields of PublishKeyed and PublishKeyedTombstone. *)
IsOwnerRecord(r) ==
  /\ r \in Record
  /\ r.hlc <= MaxHLC
  /\ r.sig # EmptySig
  /\ r.observer = NoNode

(* The records PublishObserverTombstone signs: keyless, never about oneself. *)
IsAttestation(r) ==
  /\ r \in Record
  /\ IsObserverAttestation(r)
  /\ r.observer # r.node
  /\ r.key = EmptyKey
  /\ r.hlc <= MaxHLC
  /\ r.observedAt <= MaxObservedAt
  /\ r.sig # EmptySig

TopicStoreType ==
  [records : [Slot -> Record \cup {NoRecord}],
   attestations : [NodeID -> [NodeID -> Record \cup {NoRecord}]],
   restored : [NodeID -> Nat \cup {Unset}]]

EmptyTopicStore ==
  [records |-> [s \in Slot |-> NoRecord],
   attestations |-> [n \in NodeID |-> [o \in NodeID |-> NoRecord]],
   restored |-> [n \in NodeID |-> Unset]]

keyOf(r) == <<r.node, r.key>>

slotsHeld(ts) == {s \in Slot : ts.records[s] # NoRecord}

nodeSlots(ts, n) == {s \in slotsHeld(ts) : s[1] = n}

nodePresent(ts, n) == nodeSlots(ts, n) # {}

(* Every slot the node holds is tombstoned at or above h, and it holds one. *)
nodeDeadAtOrAbove(ts, n, h) ==
  /\ nodePresent(ts, n)
  /\ \A s \in nodeSlots(ts, n) : ts.records[s].tomb /\ ts.records[s].hlc >= h

-------------------------------------------------------------------------------
(***************************************************************************)
(* Owner records: HLC-max merge, ties broken on the signature.             *)
(***************************************************************************)

(* Bug: the signature tie-break is forgotten. *)
BugNewerByStampOnly(r, cur) == r.hlc > cur.hlc

Newer(r, cur) == r.hlc > cur.hlc \/ (r.hlc = cur.hlc /\ cur.sig < r.sig)

(* Bug: the per-node cap is off by one. *)
BugSlotRoomOneMore(ts, n) ==
  /\ Cardinality(slotsHeld(ts)) < MaxRecordsPerTopic
  /\ Cardinality(nodeSlots(ts, n)) <= MaxKeysPerNode

(* Room for a new slot: the per-topic cap and the per-node cap. *)
SlotRoom(ts, n) ==
  /\ Cardinality(slotsHeld(ts)) < MaxRecordsPerTopic
  /\ Cardinality(nodeSlots(ts, n)) < MaxKeysPerNode

CapRejects(ts, r) == ts.records[keyOf(r)] = NoRecord /\ ~SlotRoom(ts, r.node)

OwnerApplied(ts, r) ==
  \/ ts.records[keyOf(r)] = NoRecord /\ SlotRoom(ts, r.node)
  \/ ts.records[keyOf(r)] # NoRecord /\ Newer(r, ts.records[keyOf(r)])

(* Opening a slot keeps the node's witness set, overwriting one clears it; *)
(* a live record stamps the restored-at fence with the store's clock t.    *)
MergeOwner(ts, r, t) ==
  [records |-> [ts.records EXCEPT ![keyOf(r)] = r],
   attestations |->
     IF ts.records[keyOf(r)] = NoRecord THEN ts.attestations
     ELSE [ts.attestations EXCEPT ![r.node] = [o \in NodeID |-> NoRecord]],
   restored |->
     IF r.tomb THEN ts.restored ELSE [ts.restored EXCEPT ![r.node] = t]]

ApplyOwner(ts, r, t) == IF OwnerApplied(ts, r) THEN MergeOwner(ts, r, t) ELSE ts

-------------------------------------------------------------------------------
(***************************************************************************)
(* Observer attestations: gate, accumulate, prune, then test the quorum.   *)
(***************************************************************************)

Observers(set) == {o \in NodeID : set[o] # NoRecord}

(* The observer's slot is free and the set has room, or it supersedes its  *)
(* own previous attestation by time or by stamp.                           *)
WitnessFresh(set, a) ==
  IF set[a.observer] = NoRecord
  THEN Cardinality(Observers(set)) < MaxAttestations
  ELSE a.observedAt > set[a.observer].observedAt \/ a.hlc > set[a.observer].hlc

(* The attestation passes every gate and enters the witness set: the       *)
(* `accumulated' result of ApplyExt.                                       *)
Accumulated(ts, a, t) ==
  /\ a.observer \in Trusted
  /\ a.observedAt <= t + SkewBudget
  /\ a.observedAt > ts.restored[a.node]
  /\ ~nodeDeadAtOrAbove(ts, a.node, a.hlc)
  /\ WitnessFresh(ts.attestations[a.node], a)

(* Bug: witnesses outside the window are kept. *)
BugPruneNothing(set, w) == set

(* Drop the witnesses more than w older than the newest one. *)
Prune(set, w) ==
  [o \in NodeID |->
     IF /\ set[o] # NoRecord
        /\ \E p \in Observers(set) : set[p].observedAt - set[o].observedAt > w
     THEN NoRecord
     ELSE set[o]]

WitnessSet(ts, a, w) == Prune([ts.attestations[a.node] EXCEPT ![a.observer] = a], w)

QuorumMet(set, k) == Cardinality(Observers(set)) >= k

SynthHLC(set) == Max({set[o].hlc : o \in Observers(set)}) + 1

(* The consumer-local, unsigned tombstone of one slot. *)
Synth(a, key, h) ==
  [topic |-> a.topic, node |-> a.node, key |-> key, hlc |-> h, tomb |-> TRUE,
   sig |-> EmptySig, observer |-> NoNode, observedAt |-> 0]

(* Bug: a tie goes to the synthesised tombstone. *)
BugDyingSlotsOnTie(ts, n, h) ==
  IF nodePresent(ts, n)
  THEN {s \in nodeSlots(ts, n) : ts.records[s].hlc <= h}
  ELSE {<<n, EmptyKey>>}

(* Bug: only the keyless slot dies. *)
BugDyingKeylessOnly(ts, n, h) ==
  IF nodePresent(ts, n)
  THEN {s \in nodeSlots(ts, n) : ts.records[s].hlc < h /\ s[2] = EmptyKey}
  ELSE {<<n, EmptyKey>>}

(* The slots a synthesised tombstone stamped h lands in: every held slot   *)
(* with a smaller stamp, or the keyless slot of a node that holds none.    *)
DyingSlots(ts, n, h) ==
  IF nodePresent(ts, n)
  THEN {s \in nodeSlots(ts, n) : ts.records[s].hlc < h}
  ELSE {<<n, EmptyKey>>}

Tombstoned(ts, a, h) ==
  [s \in Slot |-> IF s \in DyingSlots(ts, a.node, h) THEN Synth(a, s[2], h)
                  ELSE ts.records[s]]

AccumulateWitness(ts, a, k, w) ==
  LET set == WitnessSet(ts, a, w)
  IN [records |-> IF QuorumMet(set, k) THEN Tombstoned(ts, a, SynthHLC(set))
                  ELSE ts.records,
      attestations |-> [ts.attestations EXCEPT ![a.node] = set],
      restored |-> ts.restored]

applyAttestation(ts, a, t, k, w) ==
  IF Accumulated(ts, a, t) THEN AccumulateWitness(ts, a, k, w) ELSE ts

-------------------------------------------------------------------------------
(***************************************************************************)
(* TTL retention and the read views.                                       *)
(***************************************************************************)

Wall(hlc) == hlc \div CtrSpan

Expired(r, t, ttl) == t - Wall(r.hlc) > (IF r.tomb THEN 2 * ttl ELSE ttl)

(* Tombstones are kept twice as long as live records; the fence of a node  *)
(* goes only with its last slot; witness sets are never reaped.            *)
Kept(ts, t, ttl) == {s \in slotsHeld(ts) : ~Expired(ts.records[s], t, ttl)}

(* Bug: the fence of a node goes with any of its slots. *)
BugReapTopicUnfences(ts, t, ttl) ==
  [records |-> [s \in Slot |-> IF s \in Kept(ts, t, ttl) THEN ts.records[s] ELSE NoRecord],
   attestations |-> ts.attestations,
   restored |-> [n \in NodeID |-> IF nodeSlots(ts, n) \subseteq Kept(ts, t, ttl)
                                  THEN ts.restored[n] ELSE Unset]]

reapTopic(ts, t, ttl) ==
  [records |-> [s \in Slot |-> IF s \in Kept(ts, t, ttl) THEN ts.records[s] ELSE NoRecord],
   attestations |-> ts.attestations,
   restored |-> [n \in NodeID |-> IF \E s \in Kept(ts, t, ttl) : s[1] = n
                                  THEN ts.restored[n] ELSE Unset]]

HasWitness(ts) == \E n \in NodeID : Observers(ts.attestations[n]) # {}

(* GetKeyed: the live record of a slot, or NoRecord. *)
GetKeyed(ts, s) ==
  IF ts.records[s] # NoRecord /\ ~ts.records[s].tomb THEN ts.records[s] ELSE NoRecord

===============================================================================
