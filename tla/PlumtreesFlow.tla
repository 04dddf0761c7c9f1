---------------------------- MODULE PlumtreesFlow ----------------------------
(***************************************************************************)
(* The inductive invariant of gossip, what a step does to the stores and   *)
(* the frames, and that publishing and pushing a record keep the           *)
(* invariant.  PlumtreesProofs has the other steps and the theorems.       *)
(*                                                                         *)
(* QuietMeansAgreed speaks of quiet states only.  What is inductive is a   *)
(* promise kept across every link (Flow): if one end has taken in a record *)
(* or a newer one, a push, an announcement or a graft for it is on its way *)
(* to the other end, unless the record was superseded or its slot was      *)
(* declared dead above it.  Flow rests on what is known of each frame and  *)
(* tracked announcement (Traffic): its sender has the record; the nodes    *)
(* that have it and the hops left to a push are together more than         *)
(* EagerTTL.                                                               *)
(***************************************************************************)
EXTENDS Plumtrees, TopicStoreProofs


Owner(r) == ~IsObserverAttestation(r)

(* Node n has taken in r, or something that beats it. *)
Reached(n, r) ==
  /\ store[n].records[keyOf(r)] # NoRecord
  /\ ~Newer(r, store[n].records[keyOf(r)])

ReachedBy(r) == {n \in Node : Reached(n, r)}

(* A newer record of the slot was published, or a node declared the slot   *)
(* dead above r.                                                           *)
Superseded(r) == \E q \in published : Owner(q) /\ keyOf(q) = keyOf(r) /\ q.hlc > r.hlc
DeadAbove(p, r) == DeclaredDead(p, keyOf(r)) /\ store[p].records[keyOf(r)].hlc > r.hlc
Excused(r) == Superseded(r) \/ \E p \in Node : DeadAbove(p, r)

(* An announcement or a graft names a slot and a stamp. *)
About(m, r) == m.slot = keyOf(r) /\ m.hlc = r.hlc

(* Node p may be asked for what m announces. *)
Announced(p, m) == \E q \in published : About(m, q) /\ (Owner(q) => Reached(p, q))

Pushed(n, r) == \E m \in frames : m.kind = "eager" /\ m.to = n /\ m.record = r
Tracked(n, r) == \E i \in missing[n] : ~i.grafted /\ About(i, r)
Grafting(n, r) == \E m \in frames : m.kind = "graft" /\ m.from = n /\ About(m, r)
Offered(n, r) == \E m \in frames : m.kind = "ihave" /\ m.to = n /\ About(m, r)

Requested(n, r) == Covered(n, r) \/ Pushed(n, r) \/ Tracked(n, r) \/ Grafting(n, r)

(* Witnesses are messages. *)
WitnessesSent(ts) ==
  \A x, o \in NodeID : ts.attestations[x][o] \in Message \cup {NoRecord}

Types == GossipTypeOK /\ \A n \in Node : WitnessesSent(store[n])

(* A slot holds a published record of its own or a synthesised tombstone. *)
Held ==
  \A n \in Node, s \in Slot :
    \/ store[n].records[s] = NoRecord
    \/ store[n].records[s].sig = EmptySig
    \/ /\ store[n].records[s] \in published
       /\ keyOf(store[n].records[s]) = s
       /\ Owner(store[n].records[s])

(* An author never signs two records of one slot with one stamp. *)
Distinct ==
  \A q, r \in published :
    Owner(q) /\ Owner(r) /\ keyOf(q) = keyOf(r) /\ q.hlc = r.hlc => q = r

(* A pushed owner record is held by its sender, and the nodes that have it *)
(* and the hops left to it are together more than EagerTTL; whoever is     *)
(* named as a source has what was announced.                               *)
FrameOK(m) ==
  /\ m.kind = "eager" =>
       /\ m.record \in published
       /\ Owner(m.record) =>
            /\ Reached(m.from, m.record)
            /\ Cardinality(ReachedBy(m.record)) + m.ttl > EagerTTL
  /\ m.kind = "ihave" => Announced(m.from, m)
  /\ m.kind = "graft" => Announced(m.to, m)

Traffic ==
  /\ \A m \in frames : FrameOK(m)
  /\ \A n \in Node : \A i \in missing[n] :
       /\ Announced(i.announcer, i)
       /\ \A j \in missing[n] : i.slot = j.slot /\ i.hlc = j.hlc => i = j

(* What a node must be on its way to having: what a peer has, and what it  *)
(* tracked.                                                                *)
Served(n, r) ==
  /\ \A p \in Peers(n) : Reached(p, r) => Requested(n, r) \/ Offered(n, r)
  /\ \A i \in missing[n] : About(i, r) => Requested(n, r)

(* The author has its record, and every link carries it on. *)
Flow ==
  \A r \in published : Owner(r) =>
    /\ r.node \in Node /\ Reached(r.node, r)
    /\ Excused(r) \/ \A n \in Node : Served(n, r)

GossipInv == Types /\ Held /\ Distinct /\ Traffic /\ (GossipSuffices => Flow)

(* What a step does at most to the stores and what was published. *)
Grows ==
  /\ published \subseteq published' /\ published' \subseteq Message
  /\ \A x \in Node, q \in Message :
       /\ Reached(x, q) => Reached(x, q)'
       /\ Covered(x, q) => Covered(x, q)'
  /\ \A q \in Message : Owner(q) /\ Excused(q) => Excused(q)'

-------------------------------------------------------------------------------
(***************************************************************************)
(* Facts about the constants and the operators.                            *)
(***************************************************************************)

(* Nodes and slots are finite, and every message has its shape. *)
LEMMA MessageShape ==
  ASSUME NEW r \in Message
  PROVE  /\ r \in Record /\ r.hlc \in 0 .. MaxHLC /\ r.sig \in Nat \ {0}
         /\ keyOf(r) \in Slot /\ r.node \in NodeID
         /\ IsObserverAttestation(r) => r.observer \in NodeID /\ r.key = EmptyKey
         /\ Owner(r) => r.observer = NoNode
BY GossipAssumption, CapAssumption
   DEF IsOwnerRecord, IsAttestation, IsObserverAttestation, Record, keyOf, Slot, EmptySig, Owner

LEMMA NodesFinite ==
  /\ IsFiniteSet(Node) /\ IsFiniteSet(Slot) /\ IsFiniteSet(Key)
  /\ Cardinality(Node) \in Nat /\ Cardinality(Slot) \in Nat /\ Cardinality(Key) \in Nat
<1>1. IsFiniteSet(Node)
  BY NodeAssumption, GossipAssumption, FS_Subset, Zenon
<1>2. IsFiniteSet(Slot)
  BY NodeAssumption, FS_Product DEF Slot
<1> QED
  BY <1>1, <1>2, NodeAssumption, FS_CardinalityType

LEMMA MessageNumbers ==
  ASSUME NEW r \in Message
  PROVE  /\ r \in Record /\ keyOf(r) \in Slot /\ r # NoRecord
         /\ r.hlc \in Nat /\ r.sig \in Nat /\ r.sig # EmptySig /\ ~Newer(r, r)
<1>1. r \in Record /\ keyOf(r) \in Slot /\ r.sig # 0
  BY MessageShape
<1>2. r # NoRecord /\ r.hlc \in Nat /\ r.sig \in Nat
  BY <1>1, RecordNumbers
<1> QED
  BY <1>1, <1>2 DEF EmptySig, Newer

LEMMA NotNewer ==
  ASSUME NEW r \in Message, NEW c \in Record, ~Newer(r, c)
  PROVE  c.hlc >= r.hlc /\ (c.sig = EmptySig => c.hlc > r.hlc)
<1>1. r.hlc \in Nat /\ r.sig \in Nat /\ r.sig # 0 /\ c.hlc \in Nat /\ c.sig \in Nat
  BY MessageNumbers, RecordNumbers DEF EmptySig
<1> QED
  BY <1>1 DEF Newer, EmptySig

LEMMA SlotTyped ==
  ASSUME NEW ts \in TopicStoreType, NEW s \in Slot
  PROVE  ts.records[s] = NoRecord \/ ts.records[s] \in Record
BY DEF TopicStoreType

LEMMA Hops ==
  /\ EagerTTL \in Nat /\ MaxIHaves \in Nat /\ EagerTTL \in 1 .. EagerTTL
  /\ \A k \in 1 .. EagerTTL : k \in Nat /\ k >= 1 /\ (k > 1 => k - 1 \in 1 .. EagerTTL)
<1>1. EagerTTL \in Nat \ {0} /\ MaxIHaves \in Nat
  BY GossipAssumption
<1> QED
  BY <1>1

-------------------------------------------------------------------------------
(***************************************************************************)
(* What a store does with a message.                                       *)
(***************************************************************************)

(* What one message may do to a slot: nothing, put itself there, or have a *)
(* tombstone synthesised above what was there.                             *)
SlotStep(old, new, s, r) ==
  \/ new = old
  \/ Owner(r) /\ s = keyOf(r) /\ new = r /\ (old = NoRecord \/ Newer(r, old))
  \/ /\ new \in Record /\ new.sig = EmptySig
     /\ old = NoRecord \/ new.hlc > old.hlc

(* A slot only goes up. *)
LEMMA SlotGoesUp ==
  ASSUME NEW r \in Message, NEW s, NEW old \in Record, NEW new, SlotStep(old, new, s, r)
  PROVE  new # NoRecord /\ new.hlc >= old.hlc /\ ~Newer(old, new)
<1>1. old.hlc \in Nat /\ old.sig \in Nat /\ old # NoRecord
  BY RecordNumbers
<1>2. CASE new = old
  BY <1>1, <1>2 DEF Newer
<1>3. CASE new = r /\ Newer(r, old)
  BY <1>1, <1>3, MessageNumbers DEF Newer
<1>4. CASE new \in Record /\ new.hlc > old.hlc
  <2>1. new # NoRecord /\ new.hlc \in Nat
    BY <1>4, RecordNumbers
  <2> QED
    BY <1>1, <1>4, <2>1 DEF Newer
<1> QED
  BY <1>1, <1>2, <1>3, <1>4 DEF SlotStep

LEMMA OwnerStep ==
  ASSUME NEW ts \in TopicStoreType, WitnessesSent(ts), NEW r \in Message, Owner(r)
  PROVE  LET u == ApplyExt(ts, r) IN
         /\ u \in TopicStoreType /\ WitnessesSent(u)
         /\ \A s \in Slot : SlotStep(ts.records[s], u.records[s], s, r)
         /\ AppliedExt(ts, r) => u.records[keyOf(r)] = r
         /\ ~AppliedExt(ts, r) => u = ts
<1> DEFINE u == ApplyExt(ts, r)
<1>0. r \in Record /\ keyOf(r) \in Slot /\ now \in Nat
  BY MessageShape DEF now
<1>1. u = IF OwnerApplied(ts, r) THEN MergeOwner(ts, r, now) ELSE ts
  BY DEF ApplyExt, ApplyOwner, Owner
<1>2. AppliedExt(ts, r) <=> OwnerApplied(ts, r)
  BY DEF AppliedExt, Owner
<1>3. CASE OwnerApplied(ts, r)
  <2>1. u = MergeOwner(ts, r, now)
    BY <1>1, <1>3
  <2>2. u \in TopicStoreType
    BY <2>1, <1>0, MergeOwnerType
  <2>3. \A s \in Slot : u.records[s] = IF s = keyOf(r) THEN r ELSE ts.records[s]
    BY <2>1, <1>0, MergeOwnerParts
  <2>4. WitnessesSent(u)
    <3> SUFFICES ASSUME NEW x \in NodeID, NEW o \in NodeID
                 PROVE  u.attestations[x][o] \in Message \cup {NoRecord}
      BY DEF WitnessesSent
    <3>1. ts.attestations[x][o] \in Message \cup {NoRecord}
      BY DEF WitnessesSent
    <3>2. ts.attestations \in [NodeID -> WitnessMap]
      BY TopicStoreParts
    <3>3. \/ u.attestations = ts.attestations
          \/ u.attestations = [ts.attestations EXCEPT ![r.node] = [q \in NodeID |-> NoRecord]]
      BY <2>1 DEF MergeOwner
    <3> HIDE DEF u
    <3> QED
      BY <3>1, <3>2, <3>3
  <2> HIDE DEF u
  <2>5. ASSUME NEW s \in Slot PROVE SlotStep(ts.records[s], u.records[s], s, r)
    <3>1. s = keyOf(r) => ts.records[s] = NoRecord \/ Newer(r, ts.records[s])
      BY <1>3 DEF OwnerApplied
    <3> QED
      BY <2>3, <3>1 DEF SlotStep
  <2> QED
    BY <1>0, <1>2, <1>3, <2>2, <2>3, <2>4, <2>5 DEF u
<1>4. CASE ~OwnerApplied(ts, r)
  BY <1>1, <1>2, <1>4 DEF SlotStep
<1> QED
  BY <1>3, <1>4

(* A witness set holds attestations that were published, so the stamp of   *)
(* the tombstone they may give rise to is a number.                        *)
LEMMA WitnessSetSent ==
  ASSUME NEW ts \in TopicStoreType, WitnessesSent(ts), NEW a \in Message, IsObserverAttestation(a)
  PROVE  LET set == WitnessSet(ts, a, Window) IN
         /\ set \in WitnessMap
         /\ \A o \in NodeID : set[o] \in Message \cup {NoRecord}
         /\ \A o \in Observers(set) : set[o].hlc <= MaxHLC
         /\ QuorumMet(set, Quorum) => SynthHLC(set) \in Nat
<1> DEFINE set == WitnessSet(ts, a, Window)
<1>1. a \in Record /\ a.node \in NodeID /\ a.observer \in NodeID
  BY MessageShape
<1>2. set \in WitnessMap
  BY <1>1, WitnessSetMembers
<1>3. \A o \in Observers(set) :
        (o = a.observer /\ set[o] = a) \/ set[o] = ts.attestations[a.node][o]
  BY <1>1, WitnessSetMembers
<1> HIDE DEF set
<1>4. \A o \in NodeID : set[o] \in Message \cup {NoRecord}
  BY <1>1, <1>3 DEF WitnessesSent, Observers
<1>5. \A o \in Observers(set) : set[o].hlc <= MaxHLC
  <2>1. \A r \in Message : r.hlc <= MaxHLC
    BY MessageShape, CapAssumption
  <2> QED
    BY <1>4, <2>1 DEF Observers
<1>6. Quorum \in Nat \ {0}
  BY GossipAssumption
<1>7. QuorumMet(set, Quorum) => SynthHLC(set) \in Nat
  BY <1>2, <1>5, <1>6, QuorumHasWitness, SynthBeatsWitnesses
<1> QED
  BY <1>2, <1>4, <1>5, <1>7 DEF set

LEMMA AttestationStep ==
  ASSUME NEW ts \in TopicStoreType, WitnessesSent(ts), NEW a \in Message, IsObserverAttestation(a)
  PROVE  LET u == ApplyExt(ts, a) IN
         /\ u \in TopicStoreType /\ WitnessesSent(u)
         /\ \A s \in Slot : SlotStep(ts.records[s], u.records[s], s, a)
         /\ ~AccumulatedExt(ts, a) => u = ts
<1> DEFINE u == ApplyExt(ts, a)
           set == WitnessSet(ts, a, Window)
           h == SynthHLC(set)
<1>1. u = IF Accumulated(ts, a, now) THEN AccumulateWitness(ts, a, Quorum, Window) ELSE ts
  BY DEF ApplyExt, applyAttestation
<1>2. AccumulatedExt(ts, a) <=> Accumulated(ts, a, now)
  BY DEF AccumulatedExt
<1>3. CASE Accumulated(ts, a, now)
  <2>1. a \in Record /\ a.node \in NodeID /\ a.observer \in NodeID /\ Quorum \in Nat \ {0}
    BY MessageShape, GossipAssumption
  <2>2. /\ set \in WitnessMap
        /\ \A o \in NodeID : set[o] \in Message \cup {NoRecord}
        /\ \A o \in Observers(set) : set[o].hlc <= MaxHLC
        /\ QuorumMet(set, Quorum) => h \in Nat
    BY WitnessSetSent
  <2>3. u = AccumulateWitness(ts, a, Quorum, Window)
    BY <1>1, <1>3
  <2>4. u \in TopicStoreType
    BY <2>1, <2>2, <2>3, AccumulateWitnessType
  <2>5. /\ u.records = IF QuorumMet(set, Quorum) THEN Tombstoned(ts, a, h) ELSE ts.records
        /\ u.attestations = [ts.attestations EXCEPT ![a.node] = set]
    BY <2>3 DEF AccumulateWitness
  <2> HIDE DEF u, h, set
  <2>6. WitnessesSent(u)
    <3> SUFFICES ASSUME NEW x \in NodeID, NEW o \in NodeID
                 PROVE  u.attestations[x][o] \in Message \cup {NoRecord}
      BY DEF WitnessesSent
    <3>1. ts.attestations[x][o] \in Message \cup {NoRecord}
      BY DEF WitnessesSent
    <3>2. ts.attestations \in [NodeID -> WitnessMap]
      BY TopicStoreParts
    <3>3. u.attestations[x] = IF x = a.node THEN set ELSE ts.attestations[x]
      BY <2>5, <3>2
    <3> QED
      BY <2>2, <3>1, <3>3
  <2>7. ASSUME NEW s \in Slot PROVE SlotStep(ts.records[s], u.records[s], s, a)
    <3>1. CASE ~QuorumMet(set, Quorum) \/ s \notin DyingSlots(ts, a.node, h)
      BY <2>5, <3>1 DEF Tombstoned, SlotStep
    <3>2. CASE QuorumMet(set, Quorum) /\ s \in DyingSlots(ts, a.node, h)
      <4>1. u.records[s] = Synth(a, s[2], h) /\ h \in Nat /\ s[2] \in Key
        BY <2>2, <2>5, <3>2 DEF Tombstoned, Slot
      <4>2. u.records[s] \in Record /\ u.records[s].sig = EmptySig /\ u.records[s].hlc = h
        BY <4>1, <2>1 DEF Synth, Record, EmptySig
      <4>3. ts.records[s] = NoRecord \/ ts.records[s].hlc < h
        BY <2>1, <3>2, <4>1, DyingSlotsBelow
      <4>4. ts.records[s] = NoRecord \/ ts.records[s].hlc \in Nat
        BY SlotTyped, RecordNumbers
      <4> QED
        BY <4>1, <4>2, <4>3, <4>4 DEF SlotStep
    <3> QED
      BY <3>1, <3>2
  <2> QED
    BY <1>2, <1>3, <2>4, <2>6, <2>7 DEF u
<1>4. CASE ~Accumulated(ts, a, now)
  BY <1>1, <1>2, <1>4 DEF SlotStep
<1> QED
  BY <1>3, <1>4

-------------------------------------------------------------------------------
(***************************************************************************)
(* What a step leaves in place.                                            *)
(***************************************************************************)

(* Taking in a message: stores only grow, and a node newly has a record    *)
(* only if it is that message, or if the record no longer matters.         *)
LEMMA StoreStep ==
  ASSUME Types, Held, NEW n \in Node, NEW r \in Message, r \in published',
         published \subseteq published', published' \subseteq Message,
         store' = [store EXCEPT ![n] = ApplyExt(@, r)]
  PROVE  /\ store' \in [Node -> TopicStoreType]
         /\ \A x \in Node : WitnessesSent(store'[x])
         /\ Held'
         /\ Grows
         /\ Distinct' => \A x \in Node, q \in published' :
              Owner(q) /\ Reached(x, q)' => Reached(x, q) \/ (x = n /\ q = r) \/ Excused(q)'
<1>1. store \in [Node -> TopicStoreType] /\ WitnessesSent(store[n])
  BY DEF Types, GossipTypeOK
<1>2. /\ ApplyExt(store[n], r) \in TopicStoreType
      /\ WitnessesSent(ApplyExt(store[n], r))
      /\ \A s \in Slot : SlotStep(store[n].records[s], ApplyExt(store[n], r).records[s], s, r)
  <2>1. CASE Owner(r)
    BY <1>1, <2>1, OwnerStep
  <2>2. CASE IsObserverAttestation(r)
    BY <1>1, <2>2, AttestationStep
  <2> QED
    BY <2>1, <2>2 DEF Owner
<1>3. store' \in [Node -> TopicStoreType] /\ \A x \in Node : WitnessesSent(store'[x])
  BY <1>1, <1>2 DEF Types
<1>4. \A x \in Node, s \in Slot :
        /\ SlotStep(store[x].records[s], store'[x].records[s], s, r)
        /\ x # n => store'[x].records[s] = store[x].records[s]
  BY <1>1, <1>2, Zenon DEF SlotStep
<1>5. \A x \in Node, s \in Slot : store[x].records[s] \in Record \cup {NoRecord}
                                  /\ store'[x].records[s] \in Record \cup {NoRecord}
  BY <1>1, <1>3 DEF TopicStoreType
<1>6. \A q \in Record : q # NoRecord /\ q.hlc \in Nat /\ q.sig \in Nat
  BY NoRecordAssumption DEF Record
<1>7. r \in Record /\ keyOf(r) \in Slot
  BY MessageShape
<1>8. Held'
  <2> SUFFICES ASSUME NEW x \in Node, NEW s \in Slot
               PROVE  \/ store'[x].records[s] = NoRecord
                      \/ store'[x].records[s].sig = EmptySig
                      \/ /\ store'[x].records[s] \in published'
                         /\ keyOf(store'[x].records[s]) = s
                         /\ Owner(store'[x].records[s])
    BY DEF Held
  <2>1. SlotStep(store[x].records[s], store'[x].records[s], s, r)
    BY <1>4
  <2> QED
    BY <2>1 DEF SlotStep, Held
<1>9. ASSUME NEW x \in Node, NEW q \in Message
      PROVE  /\ Reached(x, q) => Reached(x, q)'
             /\ Covered(x, q) => Covered(x, q)'
  <2> DEFINE old == store[x].records[keyOf(q)]
             new == store'[x].records[keyOf(q)]
  <2>1. keyOf(q) \in Slot /\ q.hlc \in Nat /\ q.sig \in Nat
    BY MessageShape, CapAssumption
  <2>2. old \in Record \cup {NoRecord} /\ new \in Record \cup {NoRecord}
        /\ SlotStep(old, new, keyOf(q), r)
    BY <2>1, <1>4, <1>5
  <2>3. old # NoRecord => new # NoRecord /\ new.hlc >= old.hlc /\ ~Newer(old, new)
    BY <2>2, SlotGoesUp, Zenon
  <2>4. (Reached(x, q) <=> old # NoRecord /\ ~Newer(q, old))
        /\ (Reached(x, q)' <=> new # NoRecord /\ ~Newer(q, new))
    BY DEF Reached
  <2>5. (Covered(x, q) <=> old # NoRecord /\ old.hlc >= q.hlc)
        /\ (Covered(x, q)' <=> new # NoRecord /\ new.hlc >= q.hlc)
    BY DEF Covered
  <2> HIDE DEF old, new
  <2>6. Reached(x, q) => Reached(x, q)'
    BY <2>1, <2>2, <2>3, <2>4, <1>6 DEF Newer
  <2> QED
    BY <2>1, <2>2, <2>3, <2>5, <2>6, <1>6
<1>10. ASSUME NEW q \in Message, Owner(q), Excused(q)
       PROVE  Excused(q)'
  <2>1. CASE Superseded(q)
    BY <2>1 DEF Superseded, Excused
  <2>2. CASE \E p \in Node : DeadAbove(p, q)
    <3>1. PICK p \in Node : DeadAbove(p, q)
      BY <2>2
    <3> DEFINE old == store[p].records[keyOf(q)]
               new == store'[p].records[keyOf(q)]
    <3>2. keyOf(q) \in Slot /\ q.hlc \in Nat
      BY MessageShape, CapAssumption
    <3>3. old \in Record /\ new \in Record \cup {NoRecord} /\ SlotStep(old, new, keyOf(q), r)
          /\ old.sig = EmptySig /\ old.hlc > q.hlc
      BY <3>1, <3>2, <1>4, <1>5 DEF DeadAbove, DeclaredDead
    <3> HIDE DEF old, new
    <3>4. CASE new.sig = EmptySig /\ new # NoRecord /\ new.hlc >= old.hlc
      <4>1. new.hlc > q.hlc
        BY <3>2, <3>3, <3>4, <1>6
      <4>2. DeadAbove(p, q)'
        BY <3>4, <4>1 DEF DeadAbove, DeclaredDead, new
      <4> QED
        BY <4>2 DEF Excused
    <3>5. CASE new = r /\ keyOf(q) = keyOf(r) /\ Owner(r) /\ Newer(r, old)
      <4>1. r.hlc > q.hlc
        BY <3>2, <3>3, <3>5, <1>6, <1>7 DEF Newer
      <4> QED
        BY <3>5, <4>1 DEF Excused, Superseded
    <3> QED
      BY <3>3, <3>4, <3>5, <1>6 DEF SlotStep
  <2> QED
    BY <1>10, <2>1, <2>2 DEF Excused
<1>11. ASSUME Distinct', NEW x \in Node, NEW q \in published', Owner(q), Reached(x, q)'
       PROVE  Reached(x, q) \/ (x = n /\ q = r) \/ Excused(q)'
  <2> DEFINE old == store[x].records[keyOf(q)]
             new == store'[x].records[keyOf(q)]
  <2>1. q \in Message /\ keyOf(q) \in Slot /\ q.hlc \in Nat /\ q.sig \in Nat \ {0}
    BY MessageShape, CapAssumption
  <2>2. new \in Record /\ ~Newer(q, new) /\ SlotStep(old, new, keyOf(q), r)
    BY <1>11, <2>1, <1>4, <1>5 DEF Reached
  <2>3. CASE new = old
    BY <2>3, <1>11 DEF Reached
  <2>4. CASE new # old /\ new = r /\ keyOf(q) = keyOf(r) /\ Owner(r)
    <3>1. x = n
      BY <2>1, <2>4, <1>4
    <3>2. r.hlc > q.hlc \/ r.hlc = q.hlc
      <4> HIDE DEF old, new
      <4>1. ~Newer(q, r) /\ r \in Record
        BY <2>2, <2>4
      <4>2. r.hlc >= q.hlc /\ r.hlc \in Nat
        BY <4>1, <2>1, NotNewer, RecordNumbers
      <4> QED
        BY <4>2, <2>1
    <3>3. CASE r.hlc = q.hlc
      <4>1. q = r
        BY <3>3, <2>4, <1>11 DEF Distinct
      <4> QED
        BY <3>1, <4>1
    <3>4. CASE r.hlc > q.hlc
      BY <3>4, <2>4 DEF Excused, Superseded
    <3> QED
      BY <3>2, <3>3, <3>4
  <2>5. CASE new.sig = EmptySig
    <3>1. new.hlc > q.hlc
      <4> HIDE DEF old, new
      <4> QED
        BY <2>1, <2>2, <2>5, NotNewer
    <3>2. DeadAbove(x, q)'
      BY <3>1, <2>2, <2>5, <1>6 DEF DeadAbove, DeclaredDead
    <3> QED
      BY <3>2 DEF Excused
  <2> QED
    BY <2>2, <2>3, <2>4, <2>5, Zenon DEF SlotStep
<1> QED
  BY <1>3, <1>8, <1>9, <1>10, <1>11 DEF Grows

(* A step that takes in nothing. *)
LEMMA SameStores ==
  ASSUME Types, Held, Distinct, UNCHANGED <<store, published>>
  PROVE  /\ store' \in [Node -> TopicStoreType]
         /\ \A x \in Node : WitnessesSent(store'[x])
         /\ Held' /\ Distinct' /\ Grows
         /\ \A x \in Node, q \in published' : Reached(x, q)' => Reached(x, q)
<1>1. \A x, q : /\ Reached(x, q)' <=> Reached(x, q)
                /\ Covered(x, q)' <=> Covered(x, q)
                /\ DeadAbove(x, q)' <=> DeadAbove(x, q)
  BY DEF Reached, Covered, DeadAbove, DeclaredDead
<1>2. \A q : Excused(q) => Excused(q)'
  BY <1>1 DEF Excused, Superseded
<1>3. Held' /\ Distinct'
  BY DEF Held, Distinct
<1> QED
  BY <1>1, <1>2, <1>3, Zenon DEF Types, GossipTypeOK, Grows

(* What was true of a source, a frame or a promise stays true. *)
LEMMA AnnouncedKept ==
  ASSUME Types, Grows, NEW p \in Node, NEW m, Announced(p, m)
  PROVE  Announced(p, m)'
<1>1. PICK q \in published : About(m, q) /\ (Owner(q) => Reached(p, q))
  BY DEF Announced
<1>2. q \in Message /\ q \in published'
  BY DEF Types, GossipTypeOK, Grows
<1>3. Reached(p, q) => Reached(p, q)'
  BY <1>2 DEF Grows
<1> QED
  BY <1>1, <1>2, <1>3 DEF Announced, About

LEMMA FrameKept ==
  ASSUME Types, Grows, NEW m \in GossipFrame, FrameOK(m)
  PROVE  FrameOK(m)'
<1>1. m.from \in Node /\ m.to \in Node
  BY DEF GossipFrame
<1>2. ASSUME m.kind = "eager", m.record \in published, Owner(m.record)
      PROVE  Reached(m.from, m.record)' /\ Cardinality(ReachedBy(m.record)') + m.ttl > EagerTTL
  <2>1. m.record \in Message /\ m.ttl \in Nat
    BY <1>2, GossipAssumption DEF GossipFrame
  <2>2. Reached(m.from, m.record) /\ Cardinality(ReachedBy(m.record)) + m.ttl > EagerTTL
    BY <1>2 DEF FrameOK
  <2>3. Reached(m.from, m.record)'
    BY <1>1, <2>1, <2>2 DEF Grows
  <2>4. ReachedBy(m.record) \subseteq ReachedBy(m.record)' /\ ReachedBy(m.record)' \subseteq Node
    BY <2>1 DEF Grows, ReachedBy
  <2>5. /\ Cardinality(ReachedBy(m.record)) \in Nat /\ Cardinality(ReachedBy(m.record)') \in Nat
        /\ Cardinality(ReachedBy(m.record)) <= Cardinality(ReachedBy(m.record)')
    BY <2>4, NodesFinite, FS_Subset, FS_CardinalityType
  <2> QED
    BY <2>1, <2>2, <2>3, <2>5, GossipAssumption
<1>3. m.kind = "eager" => m.record \in published /\ m.record \in published'
  BY DEF FrameOK, Grows
<1>4. m.kind = "ihave" => Announced(m.from, m)'
  BY <1>1, AnnouncedKept DEF FrameOK
<1>5. m.kind = "graft" => Announced(m.to, m)'
  BY <1>1, AnnouncedKept DEF FrameOK
<1> QED
  BY <1>2, <1>3, <1>4, <1>5 DEF FrameOK

(* Frames keep their types, their links and their truth as long as the new *)
(* ones have them.                                                         *)
LEMMA FramesKept ==
  ASSUME Types, Traffic, Grows, NEW new, frames' \subseteq frames \cup new,
         \A m \in new : m \in GossipFrame /\ m.to \in Peers(m.from) /\ FrameOK(m)'
  PROVE  /\ frames' \subseteq GossipFrame
         /\ \A m \in frames' : m.to \in Peers(m.from)
         /\ \A m \in frames' : FrameOK(m)'
<1> SUFFICES ASSUME NEW m \in frames'
             PROVE  m \in GossipFrame /\ m.to \in Peers(m.from) /\ FrameOK(m)'
  OBVIOUS
<1>1. CASE m \in frames
  BY <1>1, FrameKept DEF Types, GossipTypeOK, Traffic
<1>2. CASE m \in new
  BY <1>2
<1> QED
  BY <1>1, <1>2

(* Peers see each other. *)
LEMMA PeersMutual ==
  ASSUME NEW n \in Node, NEW p \in Node
  PROVE  p \in Peers(n) <=> n \in Peers(p)
BY GossipAssumption DEF Peers

(* What every bound of GossipSuffices is there for: a free slot is always  *)
(* opened, ...                                                             *)
LEMMA RoomForAll ==
  ASSUME GossipSuffices, NEW ts \in TopicStoreType, NEW r \in Message,
         ts.records[keyOf(r)] = NoRecord
  PROVE  SlotRoom(ts, r.node)
<1> DEFINE A == slotsHeld(ts)
           B == nodeSlots(ts, r.node)
<1>1. keyOf(r) \in Slot /\ r.key \in Key
  BY MessageShape DEF Record
<1>2. A \subseteq Slot \ {keyOf(r)} /\ B \subseteq A
  BY DEF slotsHeld, nodeSlots
<1>3. Cardinality(A) <= Cardinality(Slot \ {keyOf(r)}) /\ IsFiniteSet(A) /\ Cardinality(A) \in Nat
  BY <1>2, NodesFinite, FS_Subset, FS_CardinalityType, FS_RemoveElement
<1>4. Cardinality(Slot \ {keyOf(r)}) = Cardinality(Slot) - 1
  BY <1>1, NodesFinite, FS_RemoveElement, Zenon
<1>5. Cardinality(Key \ {r.key}) = Cardinality(Key) - 1 /\ IsFiniteSet(Key \ {r.key})
  BY <1>1, NodesFinite, FS_RemoveElement
<1>6. Cardinality(B) <= Cardinality(Key \ {r.key}) /\ Cardinality(B) \in Nat
  <2> DEFINE f == [s \in B |-> s[2]]
  <2>1. IsFiniteSet(B)
    BY <1>2, <1>3, FS_Subset
  <2>2. \A s \in B : s \in NodeID \X Key /\ s[1] = r.node /\ s # <<r.node, r.key>>
    BY <1>2 DEF nodeSlots, Slot, keyOf
  <2>3. \A s \in B : s = <<s[1], s[2]>> /\ s[2] \in Key
    BY <2>2
  <2>4. \A s \in B : s[2] # r.key
    BY <2>2, <2>3
  <2>5. f \in [B -> Key \ {r.key}]
    BY <2>3, <2>4
  <2>6. \A s, q \in B : s[2] = q[2] => s = q
    BY <2>2, <2>3
  <2>7. f \in Injection(B, Key \ {r.key})
    BY <2>5, <2>6 DEF Injection, IsInjective
  <2> QED
    BY <2>1, <2>7, <1>5, FS_Injection, FS_CardinalityType
<1> HIDE DEF A, B
<1> QED
  BY <1>3, <1>4, <1>5, <1>6, NodesFinite, CapAssumption DEF SlotRoom, GossipSuffices, A, B

(* ... and a slot and a stamp name one record. *)
LEMMA NamesOneRecord ==
  ASSUME GossipSuffices, Types, Distinct, NEW r \in published, Owner(r),
         NEW q \in published, NEW m, About(m, q), About(m, r)
  PROVE  q = r
<1>1. q \in Message /\ r \in Message
  BY DEF Types, GossipTypeOK
<1>2. keyOf(q) = keyOf(r) /\ q.hlc = r.hlc
  BY DEF About
<1>3. Owner(q)
  BY <1>1, <1>2 DEF GossipSuffices, Owner
<1> QED
  BY <1>2, <1>3 DEF Distinct

(* A promise is kept by a step that keeps the frames and entries it rests  *)
(* on, or replaces them.                                                   *)
LEMMA ServedKept ==
  ASSUME NEW r, NEW n, Served(n, r),
         \A p \in Peers(n) : Reached(p, r)' => Reached(p, r) \/ Requested(n, r)' \/ Offered(n, r)',
         Requested(n, r) => Requested(n, r)',
         Offered(n, r) => Requested(n, r)' \/ Offered(n, r)',
         \A i \in missing'[n] : About(i, r) =>
           (\E j \in missing[n] : About(j, r)) \/ Requested(n, r)'
  PROVE  Served(n, r)'
<1>1. ASSUME NEW p \in Peers(n), Reached(p, r)' PROVE Requested(n, r)' \/ Offered(n, r)'
  BY <1>1, Zenon DEF Served
<1>2. ASSUME NEW i \in missing'[n], About(i, r) PROVE Requested(n, r)'
  BY <1>2 DEF Served
<1>3. Peers(n)' = Peers(n) /\ \A i : About(i, r)' <=> About(i, r)
  BY DEF Peers, About
<1> QED
  BY <1>1, <1>2, <1>3, Zenon DEF Served

(* The helpers of the peer table change no peer. *)
EdgesOf(n, e) ==
  /\ e \in [Node -> {"none", "lazy", "tree"}]
  /\ \A p \in Node : e[p] # "none" <=> p \in Peers(n)

LEMMA EdgesKept ==
  ASSUME NEW n \in Node, NEW e, EdgesOf(n, e)
  PROVE  /\ EdgesOf(n, bestTreeEdges(e))
         /\ \A p \in Peers(n) : EdgesOf(n, promoteTreeEdgeBounded(e, p))
         /\ \A p \in Peers(n) : EdgesOf(n, [e EXCEPT ![p] = "lazy"])
         /\ TreeEdges(e) \cup NonTreeEdges(e) = Peers(n)
<1>1. EdgesOf(n, bestTreeEdges(e))
  <2>1. \A p \in Node : bestTreeEdges(e)[p] = e[p] \/ (e[p] = "lazy" /\ bestTreeEdges(e)[p] = "tree")
    BY DEF bestTreeEdges
  <2>2. bestTreeEdges(e) \in [Node -> {"none", "lazy", "tree"}]
    BY DEF bestTreeEdges, EdgesOf
  <2> QED
    BY <2>1, <2>2 DEF EdgesOf
<1>2. Peers(n) \subseteq Node
  BY DEF Peers
<1>3. \A p \in Peers(n) : EdgesOf(n, promoteTreeEdgeBounded(e, p))
  BY <1>2 DEF EdgesOf, promoteTreeEdgeBounded
<1>4. \A p \in Peers(n) : EdgesOf(n, [e EXCEPT ![p] = "lazy"])
  BY <1>2 DEF EdgesOf
<1>5. TreeEdges(e) \cup NonTreeEdges(e) = Peers(n)
  BY <1>2 DEF EdgesOf, TreeEdges, NonTreeEdges
<1> QED
  BY <1>1, <1>3, <1>4, <1>5

LEMMA EdgeStep ==
  ASSUME Types, NEW n \in Node, NEW e, EdgesOf(n, e), edge' = [edge EXCEPT ![n] = e]
  PROVE  /\ edge' \in [Node -> [Node -> {"none", "lazy", "tree"}]]
         /\ \A x, p \in Node : edge'[x][p] # "none" <=> p \in Peers(x)
BY DEF Types, GossipTypeOK, EdgesOf

LEMMA EdgesTyped ==
  ASSUME Types, NEW n \in Node
  PROVE  EdgesOf(n, edge[n])
BY DEF Types, GossipTypeOK, EdgesOf

(* A push of r, and an announcement of r, that n sends to a peer. *)
PushTo(m, n, r, ttl) ==
  /\ m \in GossipFrame /\ m.to \in Peers(m.from)
  /\ m.kind = "eager" /\ m.from = n /\ m.record = r /\ m.ttl = ttl

LazyTo(m, n, r) ==
  /\ m \in GossipFrame /\ m.to \in Peers(m.from)
  /\ m.kind = "ihave" /\ m.from = n /\ About(m, r)

LEMMA PushShape ==
  ASSUME NEW n \in Node, NEW ps, ps \subseteq Peers(n), NEW r \in Message,
         NEW ttl \in 1 .. EagerTTL, NEW m \in eagerPush(n, ps, r, ttl)
  PROVE  PushTo(m, n, r, ttl)
BY DEF PushTo, eagerPush, GossipFrame, Peers

LEMMA LazyShape ==
  ASSUME NEW n \in Node, NEW e, EdgesOf(n, e), NEW r \in Message, NEW m \in lazyPush(n, e, r)
  PROVE  LazyTo(m, n, r)
<1>1. NonTreeEdges(e) \subseteq Peers(n) /\ Peers(n) \subseteq Node
  BY EdgesKept DEF Peers
<1>2. keyOf(r) \in Slot /\ r.hlc \in 0 .. MaxHLC
  BY MessageShape
<1> QED
  BY <1>1, <1>2 DEF LazyTo, lazyPush, GossipFrame, About

-------------------------------------------------------------------------------
(***************************************************************************)
(* Every action keeps the invariant.                                       *)
(***************************************************************************)

(* Flow for a record published before the step. *)
LEMMA FlowKept ==
  ASSUME Types, Flow, Grows, NEW r \in published, Owner(r),
         ASSUME NEW n \in Node, ~Excused(r)', Served(n, r) PROVE Served(n, r)'
  PROVE  /\ r.node \in Node /\ Reached(r.node, r)'
         /\ Excused(r)' \/ \A n \in Node : Served(n, r)'
<1>1. r \in Message /\ r.node \in Node /\ Reached(r.node, r)
  BY Zenon DEF Flow, Types, GossipTypeOK
<1>2. Reached(r.node, r)' /\ (Excused(r) => Excused(r)')
  BY <1>1 DEF Grows
<1>3. Excused(r)' \/ \A n \in Node : Served(n, r)
  BY <1>2 DEF Flow
<1> QED
  BY <1>1, <1>2, <1>3

(* An author's new stamp is above its own, so that it takes its record in  *)
(* and nothing else is known by that stamp.                                *)
LEMMA PublishedNew ==
  ASSUME GossipInv, NEW r \in Message, Owner(r), Publish(r)
  PROVE  /\ r.node \in Node /\ Author(r) = r.node
         /\ \A q \in published : Owner(q) /\ keyOf(q) = keyOf(r) => q.hlc < r.hlc
         /\ \A p \in Node : Reached(p, r) => Excused(r)
         /\ GossipSuffices => AppliedExt(store[r.node], r)
<1>1. r.node \in Node /\ Author(r) = r.node /\ Stamped(r.node, r)
  BY MessageShape, Zenon DEF Publish, Author
<1>2. ASSUME NEW q \in published, Owner(q), keyOf(q) = keyOf(r) PROVE q.hlc < r.hlc
  <2>1. q \in Message
    BY DEF GossipInv, Types, GossipTypeOK
  <2>2. Author(q) = q.node /\ q.node = r.node
    BY <1>2, <2>1, MessageShape, Zenon DEF Author, keyOf
  <2> QED
    BY <1>1, <2>2 DEF Stamped
<1>3. keyOf(r) \in Slot /\ r.hlc \in Nat /\ r.sig \in Nat
  BY MessageNumbers
<1>4. ASSUME NEW p \in Node
      PROVE  /\ store[p] \in TopicStoreType
             /\ store[p].records[keyOf(r)] = NoRecord \/ store[p].records[keyOf(r)] \in Record
  <2>1. store[p] \in TopicStoreType
    BY DEF GossipInv, Types, GossipTypeOK
  <2> QED
    BY <1>3, <2>1, SlotTyped
<1>5. ASSUME NEW p \in Node, Reached(p, r) PROVE Excused(r)
  <2> DEFINE c == store[p].records[keyOf(r)]
  <2>1. c \in Record /\ ~Newer(r, c)
    BY <1>4, <1>5 DEF Reached
  <2>2. c.hlc \in Nat /\ c.hlc >= r.hlc
    BY <2>1, NotNewer, RecordNumbers
  <2>3. CASE c.sig = EmptySig
    <3>1. c.hlc > r.hlc
      BY <2>1, <2>3, NotNewer
    <3>2. DeadAbove(p, r)
      BY <1>5, <2>3, <3>1 DEF DeadAbove, DeclaredDead, Reached
    <3> QED
      BY <3>2 DEF Excused
  <2>4. CASE c.sig # EmptySig
    <3>1. c \in published /\ keyOf(c) = keyOf(r) /\ Owner(c)
      BY <1>3, <1>5, <2>4 DEF GossipInv, Held, Reached
    <3>2. c.hlc < r.hlc
      BY <1>2, <3>1
    <3> QED
      BY <1>3, <2>2, <3>2
  <2> QED
    BY <2>3, <2>4
<1>6. ASSUME GossipSuffices PROVE AppliedExt(store[r.node], r)
  <2> DEFINE c == store[r.node].records[keyOf(r)]
  <2>1. CASE c = NoRecord
    BY <1>1, <1>4, <1>6, <2>1, RoomForAll, Zenon DEF AppliedExt, OwnerApplied, Owner
  <2>2. CASE c # NoRecord
    <3>1. c.hlc < r.hlc
      BY <1>1, <1>3, <2>2 DEF Stamped, slotsHeld
    <3>2. c.hlc \in Nat
      BY <1>1, <1>4, <2>2, RecordNumbers
    <3> QED
      BY <1>3, <2>2, <3>1, <3>2, Zenon DEF AppliedExt, OwnerApplied, Owner, Newer
  <2> QED
    BY <2>1, <2>2
<1> QED
  BY <1>1, <1>2, <1>5, <1>6

LEMMA PublishKeeps ==
  ASSUME GossipInv, NEW r \in Message, Publish(r)
  PROVE  GossipInv'
<1> DEFINE n == Author(r)
           e == bestTreeEdges(edge[n])
           new == eagerPush(n, TreeEdges(e), r, EagerTTL) \cup lazyPush(n, e, r)
<1>1. Types /\ Held /\ Distinct /\ Traffic
  BY DEF GossipInv
<1>2. /\ n \in Node /\ r \notin published /\ published' = published \cup {r} /\ missing' = missing
      /\ store' = [store EXCEPT ![n] = ApplyExt(@, r)] /\ topics' = topics \cup {n}
  BY DEF Publish
<1>3. published \subseteq Message
  BY <1>1 DEF Types, GossipTypeOK
<1>4. published \subseteq published' /\ published' \subseteq Message /\ r \in published'
  BY <1>2, <1>3
<1>5. /\ store' \in [Node -> TopicStoreType] /\ \A x \in Node : WitnessesSent(store'[x])
      /\ Held' /\ Grows
  BY <1>1, <1>2, <1>4, StoreStep, Zenon
<1>6. Distinct'
  <2> SUFFICES ASSUME NEW p \in published', NEW q \in published', Owner(p), Owner(q),
                      keyOf(p) = keyOf(q), p.hlc = q.hlc
               PROVE  p = q
    BY DEF Distinct, Owner
  <2>1. \A x \in published : Owner(x) /\ Owner(r) /\ keyOf(x) = keyOf(r) => x.hlc < r.hlc
    BY PublishedNew, Zenon
  <2>2. p.hlc \in Nat /\ q.hlc \in Nat
    BY <1>4, MessageNumbers
  <2> QED
    BY <1>1, <1>2, <2>1, <2>2 DEF Distinct
<1>7. EdgesOf(n, edge[n]) /\ EdgesOf(n, e) /\ TreeEdges(e) \cup NonTreeEdges(e) = Peers(n)
  BY <1>1, <1>2, EdgesTyped, EdgesKept, Zenon
<1>8. /\ edge' \in [Node -> [Node -> {"none", "lazy", "tree"}]]
      /\ \A x, p \in Node : edge'[x][p] # "none" <=> p \in Peers(x)
  <2>1. edge' = [edge EXCEPT ![n] = e] \/ edge' = edge
    BY DEF Publish
  <2> QED
    BY <1>1, <1>2, <1>7, <2>1, EdgeStep, Zenon DEF Types, GossipTypeOK
<1>9. frames' = frames \cup new \/ (frames' = frames /\ Owner(r) /\ ~AppliedExt(store[n], r))
  BY DEF Publish, Owner
<1>10. Owner(r) /\ frames' # frames => Reached(n, r)' /\ AppliedExt(store[n], r)
  <2> SUFFICES ASSUME Owner(r), frames' # frames PROVE Reached(n, r)' /\ AppliedExt(store[n], r)
    OBVIOUS
  <2>1. AppliedExt(store[n], r)
    BY DEF Publish, Owner
  <2>2. store[n] \in TopicStoreType /\ WitnessesSent(store[n])
    BY <1>1, <1>2, Zenon DEF Types, GossipTypeOK
  <2>3. store'[n].records[keyOf(r)] = r
    BY <1>1, <1>2, <2>1, <2>2, OwnerStep, Zenon DEF Types, GossipTypeOK
  <2>4. ~Newer(r, r) /\ r # NoRecord
    BY MessageNumbers
  <2> QED
    BY <2>1, <2>3, <2>4, Zenon DEF Reached
<1>11. frames' # frames => \A m \in new : m \in GossipFrame /\ m.to \in Peers(m.from) /\ FrameOK(m)'
  <2> SUFFICES ASSUME frames' # frames, NEW m \in new
               PROVE  m \in GossipFrame /\ m.to \in Peers(m.from) /\ FrameOK(m)'
    OBVIOUS
  <2>1. CASE m \in eagerPush(n, TreeEdges(e), r, EagerTTL)
    <3>1. PushTo(m, n, r, EagerTTL)
      <4>1. EagerTTL \in 1 .. EagerTTL /\ TreeEdges(e) \subseteq Peers(n)
        BY <1>7, Hops
      <4> HIDE DEF n, e
      <4> QED
        BY <1>2, <2>1, <4>1, PushShape
    <3>2. ASSUME Owner(r) PROVE Cardinality(ReachedBy(r)') > 0
      <4>1. n \in ReachedBy(r)' /\ ReachedBy(r)' \subseteq Node
        BY <1>2, <1>10, <3>2 DEF ReachedBy
      <4>2. IsFiniteSet(ReachedBy(r)')
        BY <4>1, NodesFinite, FS_Subset
      <4> QED
        BY <4>1, <4>2, FS_EmptySet, FS_CardinalityType
    <3>3. Owner(r) => Cardinality(ReachedBy(r)') + EagerTTL > EagerTTL
      <4>1. IsFiniteSet(ReachedBy(r)')
        BY NodesFinite, FS_Subset DEF ReachedBy
      <4> QED
        BY <3>2, <4>1, FS_CardinalityType, Hops
    <3> QED
      BY <1>4, <1>10, <3>1, <3>3, Zenon DEF FrameOK, Owner, PushTo
  <2>2. CASE m \in lazyPush(n, e, r)
    <3>1. LazyTo(m, n, r)
      <4> HIDE DEF n, e
      <4> QED
        BY <1>2, <1>7, <2>2, LazyShape
    <3>2. Announced(n, m)'
      BY <1>4, <1>10, <3>1, Zenon DEF Announced, About, Owner, LazyTo
    <3> QED
      BY <3>1, <3>2, Zenon DEF FrameOK, LazyTo
  <2> QED
    BY <2>1, <2>2
<1>12. /\ frames' \subseteq GossipFrame
       /\ \A m \in frames' : m.to \in Peers(m.from)
       /\ \A m \in frames' : FrameOK(m)'
  <2>1. CASE frames' # frames
    BY <1>1, <1>5, <1>9, <1>11, <2>1, FramesKept, Zenon
  <2>2. CASE frames' = frames
    BY <1>1, <1>5, <2>2, FrameKept, Zenon DEF Types, GossipTypeOK, Traffic
  <2> QED
    BY <2>1, <2>2
<1>13. Types' /\ Traffic'
  <2>1. GossipTypeOK'
    BY <1>1, <1>2, <1>4, <1>5, <1>8, <1>12, Zenon DEF Types, GossipTypeOK, Peers
  <2>2. Traffic'
    <3>1. ASSUME NEW x \in Node, NEW i \in missing[x] PROVE Announced(i.announcer, i)'
      <4>1. i.announcer \in Node
        BY <1>1, Zenon DEF Types, GossipTypeOK, Peers
      <4> QED
        BY <1>1, <1>5, <4>1, AnnouncedKept DEF Traffic
    <3> QED
      BY <1>1, <1>2, <1>12, <3>1, Zenon DEF Traffic
  <2> QED
    BY <1>5, <2>1, <2>2 DEF Types
<1>14. ASSUME GossipSuffices, NEW q \in published', Owner(q)
       PROVE  /\ q.node \in Node /\ Reached(q.node, q)'
              /\ Excused(q)' \/ \A x \in Node : Served(x, q)'
  <2>1. Flow /\ frames \subseteq frames'
    BY <1>9, <1>14, Zenon DEF GossipInv
  <2>3. CASE q \in published
    <3>1. ASSUME NEW x \in Node, ~Excused(q)', Served(x, q) PROVE Served(x, q)'
      <4>1. \A p \in Peers(x) : Reached(p, q)' => Reached(p, q)
        BY <1>1, <1>2, <1>4, <1>6, <1>14, <2>3, <3>1, StoreStep, Zenon DEF Peers
      <4>2. Covered(x, q) => Covered(x, q)'
        BY <1>3, <1>5, <2>3 DEF Grows
      <4>3. Requested(x, q) => Requested(x, q)'
        BY <1>2, <2>1, <4>2, Zenon DEF Requested, Pushed, Tracked, Grafting, About
      <4>4. Offered(x, q) => Offered(x, q)'
        BY <2>1 DEF Offered, About
      <4> QED
        BY <1>2, <3>1, <4>1, <4>3, <4>4, ServedKept, Zenon
    <3> QED
      BY <1>1, <1>5, <1>14, <2>1, <2>3, <3>1, FlowKept, Zenon
  <2>4. CASE q = r
    <3>1. /\ r.node = n /\ AppliedExt(store[n], r) /\ frames' = frames \cup new
          /\ \A p \in Node : Reached(p, r) => Excused(r)
          /\ \A p \in published : Owner(p) /\ keyOf(p) = keyOf(r) => p.hlc < r.hlc
      BY <1>9, <1>14, <2>4, PublishedNew, Zenon
    <3>2. Reached(n, r)'
      <4>1. store[n] \in TopicStoreType /\ WitnessesSent(store[n])
        BY <1>1, <1>2, Zenon DEF Types, GossipTypeOK
      <4>2. store'[n].records[keyOf(r)] = r
        BY <1>1, <1>2, <1>14, <2>4, <3>1, <4>1, OwnerStep, Zenon DEF Types, GossipTypeOK
      <4>3. ~Newer(r, r) /\ r # NoRecord
        BY MessageNumbers
      <4> QED
        BY <4>2, <4>3 DEF Reached
    <3>3. ASSUME ~Excused(r)', NEW x \in Node PROVE Served(x, r)'
      <4>1. ~Excused(r)
        BY <1>5, <1>14, <2>4, <3>3 DEF Grows
      <4>2. ASSUME NEW p \in Peers(x), Reached(p, r)' PROVE Requested(x, r)' \/ Offered(x, r)'
        <5>1. p \in Node
          BY DEF Peers
        <5>2. p = n
          BY <1>1, <1>2, <1>4, <1>6, <1>14, <2>4, <3>1, <3>3, <4>1, <4>2, <5>1, StoreStep, Zenon
        <5>3. x \in Peers(n)
          BY <1>2, <4>2, <5>2, PeersMutual
        <5>4. x \in TreeEdges(e) \/ x \in NonTreeEdges(e)
          BY <1>7, <5>3
        <5>5. CASE x \in TreeEdges(e)
          <6> DEFINE m == [kind |-> "eager", from |-> n, to |-> x, record |-> r, ttl |-> EagerTTL]
          <6>1. m \in frames'
            BY <3>1, <5>5, Zenon DEF eagerPush
          <6> QED
            BY <6>1 DEF Requested, Pushed
        <5>6. CASE x \in NonTreeEdges(e)
          <6> DEFINE m == [kind |-> "ihave", from |-> n, to |-> x, slot |-> keyOf(r), hlc |-> r.hlc]
          <6>1. m \in frames'
            BY <3>1, <5>6, Zenon DEF lazyPush
          <6> QED
            BY <6>1 DEF Offered, About
        <5> QED
          BY <5>4, <5>5, <5>6
      <4>3. ASSUME NEW i \in missing[x], About(i, r) PROVE FALSE
        <5>1. PICK p \in published : About(i, p)
          BY <1>1, <4>3, Zenon DEF Traffic, Announced
        <5>2. p \in Message /\ keyOf(p) = keyOf(r) /\ p.hlc = r.hlc
          BY <1>3, <4>3, <5>1 DEF About
        <5>3. Owner(p)
          BY <1>14, <2>4, <5>2 DEF GossipSuffices, Owner
        <5>4. p.hlc < r.hlc
          BY <3>1, <5>2, <5>3, Zenon
        <5>5. r.hlc \in Nat
          BY MessageNumbers, Zenon
        <5> QED
          BY <5>2, <5>4, <5>5
      <4>4. Peers(x)' = Peers(x)
        BY DEF Peers
      <4> QED
        BY <1>2, <4>2, <4>3, <4>4, Zenon DEF Served, About
    <3> QED
      BY <1>2, <2>4, <3>1, <3>2, <3>3, Zenon
  <2> QED
    BY <1>2, <2>3, <2>4, Zenon
<1>15. GossipSuffices' => Flow'
  BY <1>14, Zenon DEF Flow, GossipSuffices, Owner
<1> QED
  BY <1>5, <1>6, <1>13, <1>15 DEF GossipInv

(* A push comes from a peer that was sent a published message. *)
LEMMA EagerFacts ==
  ASSUME Types, Traffic, NEW m \in frames, m.kind = "eager"
  PROVE  /\ m.to \in Node /\ m.from \in Node /\ m.from \in Peers(m.to)
         /\ m.record \in Message /\ m.record \in published /\ m.ttl \in 1 .. EagerTTL
         /\ store[m.to] \in TopicStoreType /\ WitnessesSent(store[m.to])
<1>1. m \in GossipFrame /\ m.to \in Peers(m.from) /\ m.record \in published
  BY Zenon DEF Types, GossipTypeOK, Traffic, FrameOK
<1>2. m.to \in Node /\ m.from \in Node /\ m.record \in Message /\ m.ttl \in 1 .. EagerTTL
  BY <1>1 DEF GossipFrame
<1> QED
  BY <1>1, <1>2, PeersMutual, Zenon DEF Types, GossipTypeOK

(* A slot that holds r or something that beats it covers r. *)
LEMMA ReachedCovers ==
  ASSUME Types, NEW n \in Node, NEW r \in Message, Reached(n, r)
  PROVE  Covered(n, r)
<1>1. store[n] \in TopicStoreType /\ keyOf(r) \in Slot
  BY MessageNumbers, Zenon DEF Types, GossipTypeOK
<1>2. store[n].records[keyOf(r)] \in Record
  BY <1>1, SlotTyped DEF Reached
<1> QED
  BY <1>2, NotNewer DEF Reached, Covered

(* A record just taken in was not there before. *)
LEMMA AppliedReaches ==
  ASSUME Types, NEW n \in Node, NEW r \in Message, Owner(r),
         store' = [store EXCEPT ![n] = ApplyExt(@, r)]
  PROVE  /\ AppliedExt(store[n], r) => ~Reached(n, r) /\ Reached(n, r)'
         /\ ~AppliedExt(store[n], r) => store' = store
         /\ GossipSuffices /\ ~AppliedExt(store[n], r) => Reached(n, r)
<1>1. store \in [Node -> TopicStoreType] /\ store[n] \in TopicStoreType /\ WitnessesSent(store[n])
  BY Zenon DEF Types, GossipTypeOK
<1>2. ~Newer(r, r) /\ r # NoRecord
  BY MessageNumbers
<1>3. ASSUME AppliedExt(store[n], r) PROVE ~Reached(n, r) /\ Reached(n, r)'
  <2>1. store'[n].records[keyOf(r)] = r
    BY <1>1, <1>3, OwnerStep
  <2>2. Reached(n, r)'
    BY <1>2, <2>1 DEF Reached
  <2> QED
    BY <1>3, <2>2, Zenon DEF AppliedExt, OwnerApplied, Owner, Reached
<1>4. ~AppliedExt(store[n], r) => store' = store
  BY <1>1, OwnerStep
<1>5. GossipSuffices /\ ~AppliedExt(store[n], r) => Reached(n, r)
  BY <1>1, RoomForAll, Zenon DEF AppliedExt, OwnerApplied, Owner, Reached
<1> QED
  BY <1>3, <1>4, <1>5

(* A record taken in from a push is passed to every peer that may lack it. *)
LEMMA PassedOn ==
  ASSUME Types, Traffic, NEW m \in frames, m.kind = "eager", PassOn(m), Grows, Owner(m.record),
         store' = [store EXCEPT ![m.to] = ApplyExt(@, m.record)]
  PROVE  /\ Reached(m.to, m.record)'
         /\ m.ttl > 1 => Cardinality(ReachedBy(m.record)') + (m.ttl - 1) > EagerTTL
         /\ GossipSuffices => \A x \in Peers(m.to) :
              Requested(x, m.record)' \/ Offered(x, m.record)'
<1> DEFINE n == m.to
           r == m.record
           e == promoteTreeEdgeBounded(edge[n], m.from)
           R == ReachedBy(r)
<1>1. /\ n \in Node /\ m.from \in Peers(n) /\ m.from \in Node
      /\ r \in Message /\ r \in published /\ m.ttl \in 1 .. EagerTTL
  BY EagerFacts, Zenon
<1>2. ~Reached(n, r) /\ Reached(n, r)'
  BY <1>1, AppliedReaches, Zenon DEF PassOn
<1>3. Reached(m.from, r) /\ Cardinality(R) + m.ttl > EagerTTL
  BY Zenon DEF Traffic, FrameOK
<1>4. /\ R \subseteq Node \ {n} /\ IsFiniteSet(R) /\ Cardinality(R) \in Nat
      /\ IsFiniteSet(Node \ {n}) /\ Cardinality(Node \ {n}) = Cardinality(Node) - 1
  <2>1. R \subseteq Node \ {n}
    BY <1>2 DEF ReachedBy
  <2>2. IsFiniteSet(Node \ {n}) /\ Cardinality(Node \ {n}) = Cardinality(Node) - 1
    BY <1>1, NodesFinite, FS_RemoveElement, Zenon
  <2> QED
    BY <2>1, <2>2, FS_Subset, FS_CardinalityType
<1>5. Cardinality(ReachedBy(r)') \in Nat /\ Cardinality(ReachedBy(r)') >= Cardinality(R) + 1
  <2>1. R \cup {n} \subseteq ReachedBy(r)' /\ ReachedBy(r)' \subseteq Node
    BY <1>1, <1>2, Zenon DEF ReachedBy, Grows
  <2>2. n \notin R
    BY <1>4
  <2>3. Cardinality(R \cup {n}) = Cardinality(R) + 1 /\ IsFiniteSet(R \cup {n})
    BY <1>4, <2>2, FS_AddElement, Zenon
  <2>4. IsFiniteSet(ReachedBy(r)')
    BY <2>1, NodesFinite, FS_Subset
  <2>5. /\ Cardinality(ReachedBy(r)') \in Nat
        /\ Cardinality(R \cup {n}) <= Cardinality(ReachedBy(r)')
    BY <2>1, <2>4, FS_Subset, FS_CardinalityType
  <2> HIDE DEF R
  <2> QED
    BY <2>3, <2>5
<1>6. m.ttl > 1 => Cardinality(ReachedBy(r)') + (m.ttl - 1) > EagerTTL
  <2>1. m.ttl \in Nat /\ EagerTTL \in Nat
    BY <1>1, Hops, Zenon
  <2> QED
    BY <1>3, <1>4, <1>5, <2>1
<1>7. ASSUME GossipSuffices, NEW x \in Peers(n) PROVE Requested(x, r)' \/ Offered(x, r)'
  <2>1. x \in Node
    BY DEF Peers
  <2>2. Reached(x, r) => Requested(x, r)'
    BY <1>1, <2>1, ReachedCovers, Zenon DEF Grows, Requested
  <2>3. x \in TreeEdges(e) \/ x \in NonTreeEdges(e)
    <3>1. EdgesOf(n, e)
      BY <1>1, EdgesTyped, EdgesKept, Zenon
    <3>2. TreeEdges(e) \cup NonTreeEdges(e) = Peers(n)
      BY <1>1, <3>1, EdgesKept, Zenon
    <3> QED
      BY <1>7, <3>2, Zenon
  <2>4. CASE x \in NonTreeEdges(e)
    <3> DEFINE f == [kind |-> "ihave", from |-> n, to |-> x, slot |-> keyOf(r), hlc |-> r.hlc]
    <3>1. f \in frames'
      BY <2>4, Zenon DEF PassOn, lazyPush
    <3> QED
      BY <3>1, Zenon DEF Offered, About
  <2>5. CASE x \in TreeEdges(e) /\ x # m.from /\ m.ttl > 1
    <3> DEFINE f == [kind |-> "eager", from |-> n, to |-> x, record |-> r, ttl |-> m.ttl - 1]
    <3>1. f \in frames'
      BY <2>5, Zenon DEF PassOn, eagerPush, ForwardTo
    <3> QED
      BY <3>1 DEF Requested, Pushed
  <2>6. CASE ~(m.ttl > 1)
    <3>1. Cardinality(R) >= Cardinality(Node \ {n})
      <4>1. m.ttl \in Nat /\ EagerTTL \in Nat /\ Cardinality(Node) \in Nat
        BY <1>1, Hops, NodesFinite, Zenon
      <4>2. Cardinality(Node) <= EagerTTL + 1
        BY <1>7, Zenon DEF GossipSuffices
      <4> QED
        BY <1>3, <1>4, <2>6, <4>1, <4>2
    <3>2. R = Node \ {n}
      BY <1>4, <3>1, FS_Subset, FS_CardinalityType
    <3>3. x # n
      BY <1>7, GossipAssumption, Zenon DEF Peers
    <3> QED
      BY <2>1, <2>2, <3>2, <3>3 DEF ReachedBy
  <2>7. CASE x = m.from
    BY <1>3, <2>2, <2>7
  <2> QED
    BY <2>3, <2>4, <2>5, <2>6, <2>7, Zenon
<1> QED
  BY <1>2, <1>6, <1>7

(* What a push leaves behind: its frames, entries and edges. *)
LEMMA EagerStep ==
  ASSUME Types, Traffic, NEW m \in frames, handleEager(m), Grows
  PROVE  /\ EdgesOf(m.to, edge'[m.to]) /\ edge' = [edge EXCEPT ![m.to] = edge'[m.to]]
         /\ missing' \in [Node -> SUBSET IHaveEntry]
         /\ \A x \in Node : missing'[x] \subseteq missing[x]
         /\ \A x \in Node : \A i \in missing[x] \ missing'[x] : x = m.to /\ About(i, m.record)
         /\ frames \ {m} \subseteq frames'
         /\ frames' \subseteq GossipFrame
         /\ \A f \in frames' : f.to \in Peers(f.from)
         /\ \A f \in frames' : FrameOK(f)'
<1> DEFINE n == m.to
           r == m.record
<1>1. /\ n \in Node /\ m.from \in Peers(n) /\ m.from \in Node /\ n \in Peers(m.from)
      /\ r \in Message /\ r \in published /\ r \in published' /\ m.ttl \in 1 .. EagerTTL
  BY EagerFacts, PeersMutual, Zenon DEF handleEager
<1>2. EdgesOf(n, edge[n]) /\ edge \in [Node -> [Node -> {"none", "lazy", "tree"}]]
  BY <1>1, EdgesTyped, Zenon DEF Types, GossipTypeOK
<1>3. missing \in [Node -> SUBSET IHaveEntry]
  BY DEF Types, GossipTypeOK
<1>4. CASE PassOn(m)
  <2> DEFINE e == promoteTreeEdgeBounded(edge[n], m.from)
             push == eagerPush(n, ForwardTo(e, m), r, m.ttl - 1)
  <2>1. EdgesOf(n, e) /\ edge' = [edge EXCEPT ![n] = e]
    BY <1>1, <1>2, <1>4, EdgesKept, Zenon DEF PassOn
  <2>2. frames' = (frames \ {m}) \cup (push \cup lazyPush(n, e, r))
    BY <1>4, Zenon DEF PassOn
  <2>3. Owner(r) => /\ Reached(n, r)'
                    /\ m.ttl > 1 => Cardinality(ReachedBy(r)') + (m.ttl - 1) > EagerTTL
    BY <1>4, PassedOn, Zenon DEF handleEager
  <2>4. ASSUME NEW f \in push PROVE f \in GossipFrame /\ f.to \in Peers(f.from) /\ FrameOK(f)'
    <3>1. m.ttl > 1 /\ m.ttl - 1 \in 1 .. EagerTTL /\ ForwardTo(e, m) \subseteq Peers(n)
      <4>1. m.ttl > 1
        BY <2>4, Zenon DEF eagerPush, ForwardTo
      <4>2. TreeEdges(e) \cup NonTreeEdges(e) = Peers(n)
        BY <1>1, <2>1, EdgesKept, Zenon
      <4>3. ForwardTo(e, m) \subseteq Peers(n)
        BY <4>2, Zenon DEF ForwardTo
      <4> QED
        BY <1>1, <4>1, <4>3, Hops, Zenon
    <3>2. PushTo(f, n, r, m.ttl - 1)
      <4> HIDE DEF n, r, e
      <4> QED
        BY <1>1, <2>4, <3>1, PushShape
    <3> QED
      BY <1>1, <2>3, <3>1, <3>2, Zenon DEF FrameOK, Owner, PushTo
  <2>5. ASSUME NEW f \in lazyPush(n, e, r)
        PROVE  f \in GossipFrame /\ f.to \in Peers(f.from) /\ FrameOK(f)'
    <3>1. LazyTo(f, n, r)
      <4> HIDE DEF n, r, e
      <4> QED
        BY <1>1, <2>1, <2>5, LazyShape
    <3>2. Announced(n, f)'
      BY <1>1, <2>3, <3>1, Zenon DEF Announced, About, Owner, LazyTo
    <3> QED
      BY <3>1, <3>2, Zenon DEF FrameOK, LazyTo
  <2>6. \A f \in push \cup lazyPush(n, e, r) :
          f \in GossipFrame /\ f.to \in Peers(f.from) /\ FrameOK(f)'
    BY <2>4, <2>5, Zenon
  <2>7. frames' \subseteq frames \cup (push \cup lazyPush(n, e, r))
    BY <2>2, Zenon
  <2>8. /\ frames' \subseteq GossipFrame
        /\ \A f \in frames' : f.to \in Peers(f.from)
        /\ \A f \in frames' : FrameOK(f)'
    BY <2>6, <2>7, FramesKept, Zenon
  <2>9. missing' = [missing EXCEPT ![n] = {i \in @ : <<i.slot, i.hlc>> # <<keyOf(r), r.hlc>>}]
    BY <1>4, Zenon DEF PassOn
  <2> QED
    BY <1>1, <1>2, <1>3, <2>1, <2>2, <2>8, <2>9, Zenon DEF About
<1>5. CASE RelayAttestation(m)
  <2> DEFINE e == IF m.ttl > 1 THEN bestTreeEdges(edge[n]) ELSE edge[n]
             push == eagerPush(n, ForwardTo(e, m), r, m.ttl - 1)
  <2>1. EdgesOf(n, e) /\ edge' = [edge EXCEPT ![n] = e]
    BY <1>1, <1>2, <1>5, EdgesKept, Zenon DEF RelayAttestation
  <2>2. frames' = (frames \ {m}) \cup push /\ missing' = missing /\ ~Owner(r)
    BY <1>5, Zenon DEF RelayAttestation, AccumulatedExt, Owner
  <2>3. ASSUME NEW f \in push PROVE f \in GossipFrame /\ f.to \in Peers(f.from) /\ FrameOK(f)'
    <3>1. m.ttl > 1 /\ m.ttl - 1 \in 1 .. EagerTTL /\ ForwardTo(e, m) \subseteq Peers(n)
      <4>1. m.ttl > 1
        BY <2>3, Zenon DEF eagerPush, ForwardTo
      <4>2. TreeEdges(e) \cup NonTreeEdges(e) = Peers(n)
        BY <1>1, <2>1, EdgesKept, Zenon
      <4>3. ForwardTo(e, m) \subseteq Peers(n)
        BY <4>2, Zenon DEF ForwardTo
      <4> QED
        BY <1>1, <4>1, <4>3, Hops, Zenon
    <3>2. PushTo(f, n, r, m.ttl - 1)
      <4> HIDE DEF n, r, e
      <4> QED
        BY <1>1, <2>3, <3>1, PushShape
    <3> QED
      BY <1>1, <2>2, <3>2, Zenon DEF FrameOK, Owner, PushTo
  <2>4. frames' \subseteq frames \cup push
    BY <2>2
  <2>5. /\ frames' \subseteq GossipFrame
        /\ \A f \in frames' : f.to \in Peers(f.from)
        /\ \A f \in frames' : FrameOK(f)'
    BY <2>3, <2>4, FramesKept, Zenon
  <2> QED
    BY <1>1, <1>2, <1>3, <2>1, <2>2, <2>5, Zenon
<1>6. CASE Duplicate(m)
  <2> DEFINE push == PruneSender(n, m)
  <2>1. \A f \in push : f \in GossipFrame /\ f.to \in Peers(f.from) /\ FrameOK(f)'
    <3> DEFINE f == [kind |-> "prune", from |-> n, to |-> m.from]
    <3>1. f \in GossipFrame /\ f.kind = "prune" /\ f.from = n /\ f.to = m.from
      BY <1>1, Zenon DEF GossipFrame
    <3> HIDE DEF f
    <3>2. f.to \in Peers(f.from) /\ FrameOK(f)'
      BY <1>1, <3>1, Zenon DEF FrameOK
    <3> QED
      BY <3>1, <3>2 DEF PruneSender, f
  <2>2. frames' \subseteq frames \cup push /\ frames \ {m} \subseteq frames'
    BY <1>6, Zenon DEF Duplicate
  <2>3. /\ frames' \subseteq GossipFrame
        /\ \A f \in frames' : f.to \in Peers(f.from)
        /\ \A f \in frames' : FrameOK(f)'
    BY <2>1, <2>2, FramesKept
  <2>4. missing' = missing /\ edge' = edge
    BY <1>6 DEF Duplicate
  <2> QED
    BY <1>1, <1>2, <1>3, <2>2, <2>3, <2>4, Zenon
<1> QED
  BY <1>4, <1>5, <1>6, Zenon DEF handleEager

===============================================================================
