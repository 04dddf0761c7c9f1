------------------------------ MODULE RecordStore ------------------------------
(***************************************************************************)
(* One node's recordStore (crdt.go) as a state machine: any owner record   *)
(* or observer attestation in circulation may be applied at any moment, as *)
(* often and in any order the network delivers it; the reaper runs when it *)
(* likes; the quorum may be reconfigured; the wall clock may jump both     *)
(* ways.  Every operation holds s.mu, so each is one atomic step.          *)
(*                                                                         *)
(* `seen' is a history variable: the owner records offered to each slot    *)
(* since the slot was last empty.                                          *)
(***************************************************************************)
EXTENDS TopicStore

CONSTANTS
  OwnerRecord,     \* the owner-signed records in circulation
  Attestation,     \* the observer attestations in circulation
  MaxTopics,       \* cap on distinct topics
  TopicTTL,        \* retention per topic, 0 = keep forever
  QuorumSetting,   \* the <<k, w>> pairs SetObserverQuorum is called with
  MaxTime          \* bound on the wall clock

ASSUME InputAssumption ==
  /\ \A r \in OwnerRecord : IsOwnerRecord(r)
  /\ \A a \in Attestation : IsAttestation(a)

(* Ed25519 signs every field: records of one slot that share the stamp and *)
(* the signature are the same record.                                      *)
ASSUME SignatureAssumption ==
  \A r1, r2 \in OwnerRecord :
    /\ r1.topic = r2.topic /\ keyOf(r1) = keyOf(r2)
    /\ r1.hlc = r2.hlc /\ r1.sig = r2.sig
    => r1 = r2

ASSUME ConfigAssumption ==
  /\ IsFiniteSet(Topic)
  /\ MaxTopics \in Nat \ {0}
  /\ TopicTTL \in [Topic -> Nat]
  /\ QuorumSetting \subseteq Int \X Int
  /\ MaxTime \in Nat

VARIABLES
  byTopic,     \* the topics that have a topicStore
  store,       \* store[t]: the topicStore of t, EmptyTopicStore if it has none
  quorum,      \* observerQuorum (k) and observerCorroborationWindow (w)
  now,         \* nowFn, in clock units
  seen         \* history: owner records offered to the slots in use

vars == <<byTopic, store, quorum, now, seen>>

DefaultObserverQuorum == 2

Init ==
  /\ byTopic = {}
  /\ store = [t \in Topic |-> EmptyTopicStore]
  /\ quorum = [k |-> DefaultObserverQuorum, w |-> Window]
  /\ now = 0
  /\ seen = {}

-------------------------------------------------------------------------------

(* ApplyExt finds the topic's store or creates it.  At MaxTopics it only   *)
(* counts a rejection, a stuttering step here.                             *)
TopicAdmitted(t) == t \in byTopic \/ Cardinality(byTopic) < MaxTopics

ApplyOwnerRecord(r) ==
  /\ TopicAdmitted(r.topic)
  /\ byTopic' = byTopic \cup {r.topic}
  /\ store' = [store EXCEPT ![r.topic] = ApplyOwner(store[r.topic], r, now)]
  /\ seen' = IF CapRejects(store[r.topic], r) THEN seen ELSE seen \cup {r}
  /\ UNCHANGED <<quorum, now>>

ApplyAttestation(a) ==
  /\ TopicAdmitted(a.topic)
  /\ byTopic' = byTopic \cup {a.topic}
  /\ store' = [store EXCEPT ![a.topic] =
                 applyAttestation(store[a.topic], a, now, quorum.k, quorum.w)]
  /\ UNCHANGED <<quorum, now, seen>>

Reaped(t) ==
  IF t \in byTopic /\ TopicTTL[t] > 0
  THEN reapTopic(store[t], now, TopicTTL[t])
  ELSE store[t]

reapExpired ==
  /\ store' = [t \in Topic |-> Reaped(t)]
  /\ byTopic' = {t \in byTopic : \/ TopicTTL[t] = 0
                                 \/ slotsHeld(store'[t]) # {}
                                 \/ HasWitness(store'[t])}
  /\ seen' = {r \in seen : store'[r.topic].records[keyOf(r)] # NoRecord}
  /\ UNCHANGED <<quorum, now>>

SetObserverQuorum(k, w) ==
  /\ k >= 1 /\ w > 0
  /\ quorum' = [k |-> k, w |-> w]
  /\ UNCHANGED <<byTopic, store, now, seen>>

ClockStep(t) ==
  /\ now' = t
  /\ UNCHANGED <<byTopic, store, quorum, seen>>

Next ==
  \/ \E r \in OwnerRecord : ApplyOwnerRecord(r)
  \/ \E a \in Attestation : ApplyAttestation(a)
  \/ reapExpired
  \/ \E q \in QuorumSetting : SetObserverQuorum(q[1], q[2])
  \/ \E t \in 0 .. MaxTime : ClockStep(t)

Spec == Init /\ [][Next]_vars

-------------------------------------------------------------------------------

TypeOK ==
  /\ byTopic \subseteq Topic
  /\ store \in [Topic -> TopicStoreType]
  /\ quorum \in [k : Nat \ {0}, w : Nat \ {0}]
  /\ now \in Nat
  /\ seen \subseteq OwnerRecord

SeenAt(t, s) == {r \in seen : r.topic = t /\ keyOf(r) = s}

(* cur is what slot s of topic t should hold after the offers made to it.  *)
HoldsJoin(t, s, cur) ==
  /\ cur = NoRecord => SeenAt(t, s) = {}
  /\ cur # NoRecord /\ cur.sig # EmptySig =>
       cur \in seen /\ \A r \in SeenAt(t, s) : r = cur \/ Newer(cur, r)
  /\ cur # NoRecord /\ cur.sig = EmptySig =>
       \A r \in SeenAt(t, s) : r.hlc < cur.hlc

(* The merge is a join (crdt.go: "A.merge(B) == B.merge(A)"): whatever the *)
(* order and the repetition of deliveries, a slot holds the greatest of    *)
(* the owner records offered to it, or a synthesised tombstone above all   *)
(* of them.  Two stores offered the same records agree on every slot that  *)
(* no quorum has killed.                                                   *)
SlotIsJoin ==
  \A t \in Topic, s \in Slot : HoldsJoin(t, s, store[t].records[s])

RecordsFiled(t, ts) ==
  \A s \in Slot : ts.records[s] # NoRecord =>
    ts.records[s].topic = t /\ keyOf(ts.records[s]) = s

WitnessFiled(t, n, o, m) ==
  m \in Attestation /\ m.topic = t /\ m.node = n /\ m.observer = o /\ o \in Trusted

WitnessesFiled(t, ts) ==
  \A n, o \in NodeID : ts.attestations[n][o] # NoRecord =>
    WitnessFiled(t, n, o, ts.attestations[n][o])

(* Every record sits in the slot its own topic, NodeID and Key name, so a  *)
(* death fanned out over a node's keys never collapses onto one of them.   *)
(* Every witness is an attestation some trusted observer signed, filed     *)
(* under the node it accuses and under that observer.                      *)
Filed == \A t \in Topic : RecordsFiled(t, store[t]) /\ WitnessesFiled(t, store[t])

Fenced(ts) ==
  \A s \in Slot : GetKeyed(ts, s) # NoRecord => ts.restored[s[1]] # Unset

(* A node holding a live record is fenced: the reaper drops the            *)
(* restored-at mark only with the node's last slot, so no attestation      *)
(* older than the mark can enter its witness set.                          *)
LiveIsFenced == \A t \in Topic : Fenced(store[t])

(* The caps hold in every state: topics, keys per node, witnesses per      *)
(* target.  (The tombstone of an unknown node passes by the cap on records *)
(* per topic.)                                                             *)
CapsHold ==
  /\ Cardinality(byTopic) <= MaxTopics
  /\ \A t \in Topic, n \in NodeID :
       /\ Cardinality(nodeSlots(store[t], n)) <= MaxKeysPerNode
       /\ Cardinality(Observers(store[t].attestations[n])) <= MaxAttestations

(* A topic without a topicStore has nothing: deleting a topic in the       *)
(* reaper loses no record, no witness and no fence.                        *)
AbsentTopicIsEmpty ==
  \A t \in Topic \ byTopic : store[t] = EmptyTopicStore

(* A step turns the slot into a synthesised tombstone. *)
Killed(t, s) ==
  /\ store'[t].records[s] # store[t].records[s]
  /\ store'[t].records[s] # NoRecord
  /\ store'[t].records[s].sig = EmptySig

(* K-of-N: a slot is killed only while at least K distinct trusted         *)
(* observers stand in the node's witness set, no two of them more than the *)
(* corroboration window apart, and the tombstone's stamp beats every one   *)
(* of theirs and the record it replaces.                                   *)
DeathHasQuorum ==
  [][\A t \in Topic, s \in Slot : Killed(t, s) =>
       LET set == store'[t].attestations[s[1]]
       IN /\ Cardinality(Observers(set)) >= quorum.k
          /\ Observers(set) \subseteq Trusted
          /\ \A o, p \in Observers(set) : set[o].observedAt - set[p].observedAt <= quorum.w
          /\ \A o \in Observers(set) : set[o].hlc < store'[t].records[s].hlc
          /\ store[t].records[s] # NoRecord =>
               store[t].records[s].hlc < store'[t].records[s].hlc]_vars

(* A slot in use never goes back in the merge order, whichever path writes *)
(* it: an owner update, a synthesised death or the auto-restore after one. *)
SlotNeverRegresses ==
  [][\A t \in Topic, s \in Slot :
       LET old == store[t].records[s]
           new == store'[t].records[s]
       IN old # NoRecord /\ new # NoRecord /\ new # old => Newer(new, old)]_vars

Map == INSTANCE LWWMap WITH
  Offer <- OwnerRecord, Stamp <- 0 .. MaxHLC + 1, NoEntry <- NoRecord, NoSig <- EmptySig,
  entry <- [t \in Topic |-> store[t].records]

(* Behind the witness sets, the fences, the caps and the clocks the store  *)
(* is a last-writer-wins map: a step of ApplyExt raises one slot to the    *)
(* record offered, or kills every slot of one node in one topic at one     *)
(* stamp, or changes nothing a reader sees; the reaper only forgets.       *)
StoreIsMap == Map!Spec

===============================================================================
