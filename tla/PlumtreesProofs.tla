--------------------------- MODULE PlumtreesProofs ---------------------------
(***************************************************************************)
(* Gossip by itself delivers: QuietMeansAgreed for every connected mesh    *)
(* within the hops of a push, every set of messages, tree degree, quorum   *)
(* and order of events.                                                    *)
(***************************************************************************)
EXTENDS PlumtreesFlow

(* The parts of the invariant put together. *)
LEMMA Together ==
  ASSUME Types, Grows, store' \in [Node -> TopicStoreType], \A x \in Node : WitnessesSent(store'[x]),
         Held', Distinct', topics' \subseteq Node, published' = published,
         edge' \in [Node -> [Node -> {"none", "lazy", "tree"}]],
         \A x, p \in Node : edge'[x][p] # "none" <=> p \in Peers(x),
         missing' \in [Node -> SUBSET IHaveEntry],
         \A x \in Node : \A i \in missing'[x] :
           /\ i.announcer \in Peers(x) /\ Announced(i.announcer, i)'
           /\ \A j \in missing'[x] : i.slot = j.slot /\ i.hlc = j.hlc => i = j,
         frames' \subseteq GossipFrame,
         \A f \in frames' : f.to \in Peers(f.from) /\ FrameOK(f)',
         ASSUME GossipSuffices, Flow, NEW q \in published, Owner(q), NEW x \in Node,
                ~Excused(q)', Served(x, q)
         PROVE  Served(x, q)',
         GossipSuffices => Flow
  PROVE  GossipInv'
<1>1. published' \subseteq Message
  BY DEF Types, GossipTypeOK
<1>2. Types'
  BY <1>1 DEF Types, GossipTypeOK, Peers
<1>3. Traffic'
  BY DEF Traffic
<1>4. ASSUME GossipSuffices PROVE Flow'
  <2>1. Flow
    BY <1>4
  <2>2. ASSUME NEW q \in published, Owner(q)
        PROVE  /\ q.node \in Node /\ Reached(q.node, q)'
               /\ Excused(q)' \/ \A x \in Node : Served(x, q)'
    BY <1>4, <2>1, <2>2, FlowKept, Zenon
  <2> QED
    BY <2>2 DEF Flow, Owner
<1> QED
  BY <1>2, <1>3, <1>4 DEF GossipInv, GossipSuffices

(* Tracked announcements that stay keep what is known of them. *)
LEMMA EntriesKept ==
  ASSUME Types, Traffic, Grows, NEW x \in Node, missing'[x] \subseteq missing[x]
  PROVE  \A i \in missing'[x] :
           /\ i.announcer \in Peers(x) /\ Announced(i.announcer, i)'
           /\ \A j \in missing'[x] : i.slot = j.slot /\ i.hlc = j.hlc => i = j
<1> SUFFICES ASSUME NEW i \in missing'[x]
             PROVE  /\ i.announcer \in Peers(x) /\ Announced(i.announcer, i)'
                    /\ \A j \in missing'[x] : i.slot = j.slot /\ i.hlc = j.hlc => i = j
  OBVIOUS
<1>1. i.announcer \in Peers(x) /\ i.announcer \in Node /\ Announced(i.announcer, i)
  BY DEF Types, GossipTypeOK, Traffic, Peers
<1> QED
  BY <1>1, AnnouncedKept DEF Traffic

LEMMA EagerKeeps ==
  ASSUME GossipInv, NEW m \in frames, handleEager(m)
  PROVE  GossipInv'
<1> DEFINE n == m.to
           r == m.record
<1>1. Types /\ Held /\ Distinct /\ Traffic /\ (GossipSuffices => Flow)
  BY DEF GossipInv
<1>2. /\ m.kind = "eager" /\ published' = published /\ topics' = topics \cup {n}
      /\ store' = [store EXCEPT ![n] = ApplyExt(@, r)]
  BY DEF handleEager
<1>3. n \in Node /\ r \in Message /\ r \in published /\ r \in published' /\ published' \subseteq Message
  BY <1>1, <1>2, EagerFacts DEF Types, GossipTypeOK
<1>4. Distinct'
  BY <1>1, <1>2 DEF Distinct, Owner
<1>5. /\ store' \in [Node -> TopicStoreType] /\ \A x \in Node : WitnessesSent(store'[x])
      /\ Held' /\ Grows
      /\ \A x \in Node, q \in published' :
           Owner(q) /\ Reached(x, q)' => Reached(x, q) \/ (x = n /\ q = r) \/ Excused(q)'
  BY <1>1, <1>2, <1>3, <1>4, StoreStep, Zenon
<1>6. /\ EdgesOf(n, edge'[n]) /\ edge' = [edge EXCEPT ![n] = edge'[n]]
      /\ missing' \in [Node -> SUBSET IHaveEntry]
      /\ \A x \in Node : missing'[x] \subseteq missing[x]
      /\ \A x \in Node : \A i \in missing[x] \ missing'[x] : x = n /\ About(i, r)
      /\ frames \ {m} \subseteq frames'
      /\ frames' \subseteq GossipFrame
      /\ \A f \in frames' : f.to \in Peers(f.from)
      /\ \A f \in frames' : FrameOK(f)'
  BY <1>1, <1>5, EagerStep
<1>7. /\ edge' \in [Node -> [Node -> {"none", "lazy", "tree"}]]
      /\ \A x, p \in Node : edge'[x][p] # "none" <=> p \in Peers(x)
  BY <1>1, <1>3, <1>6, EdgeStep
<1>8. topics' \subseteq Node
  BY <1>1, <1>2, <1>3 DEF Types, GossipTypeOK
<1>9. ASSUME GossipSuffices, NEW q \in published, Owner(q), NEW x \in Node,
             ~Excused(q)', Served(x, q)
      PROVE  Served(x, q)'
  <2>1. q \in Message
    BY <1>1, <1>9 DEF Types, GossipTypeOK
  <2>2. Owner(r) => Covered(n, r)'
    <3>1. Owner(r) => Reached(n, r) \/ Reached(n, r)'
      BY <1>1, <1>2, <1>3, <1>9, AppliedReaches, Zenon
    <3>2. Owner(r) => Reached(n, r)'
      BY <1>3, <1>5, <3>1 DEF Grows
    <3>3. keyOf(r) \in Slot /\ store'[n] \in TopicStoreType
      BY <1>3, <1>5, MessageNumbers
    <3>4. store'[n].records[keyOf(r)] = NoRecord \/ store'[n].records[keyOf(r)] \in Record
      BY <3>3, SlotTyped
    <3> QED
      BY <1>3, <3>2, <3>4, NotNewer DEF Reached, Covered
  <2>3. Covered(x, q) => Covered(x, q)'
    BY <1>5, <2>1 DEF Grows
  <2>4. Pushed(x, q) => Pushed(x, q)' \/ Covered(x, q)'
    BY <1>2, <1>6, <1>9, <2>2 DEF Pushed
  <2>5. Tracked(x, q) => Tracked(x, q)' \/ Covered(x, q)'
    <3> SUFFICES ASSUME NEW i \in missing[x], ~i.grafted, About(i, q), i \notin missing'[x]
                 PROVE  Covered(x, q)'
      BY DEF Tracked, About
    <3>1. x = n /\ About(i, r)
      BY <1>6
    <3>2. q = r
      BY <1>1, <1>3, <1>9, <3>1, NamesOneRecord
    <3> QED
      BY <1>9, <2>2, <3>1, <3>2
  <2>6. (Grafting(x, q) => Grafting(x, q)') /\ (Offered(x, q) => Offered(x, q)')
    BY <1>2, <1>6 DEF Grafting, Offered, About
  <2>7. Requested(x, q) => Requested(x, q)'
    BY <2>3, <2>4, <2>5, <2>6 DEF Requested
  <2>8. ASSUME NEW p \in Peers(x), Reached(p, q)', ~Reached(p, q)
        PROVE  Requested(x, q)' \/ Offered(x, q)'
    <3>1. p \in Node
      BY DEF Peers
    <3>2. p = n /\ q = r
      BY <1>2, <1>5, <1>9, <2>8, <3>1
    <3>3. AppliedExt(store[n], r)
      BY <1>1, <1>2, <1>3, <1>9, <2>8, <3>2, AppliedReaches, Zenon
    <3>4. PassOn(m)
      BY <3>3 DEF handleEager, RelayAttestation, Duplicate
    <3>5. x \in Peers(n)
      BY <2>8, <3>1, <3>2, PeersMutual
    <3> QED
      BY <1>1, <1>2, <1>5, <1>9, <3>2, <3>4, <3>5, PassedOn, Zenon
  <2> QED
    BY <1>6, <1>9, <2>6, <2>7, <2>8, ServedKept
<1>10. \A x \in Node : \A i \in missing'[x] :
         /\ i.announcer \in Peers(x) /\ Announced(i.announcer, i)'
         /\ \A j \in missing'[x] : i.slot = j.slot /\ i.hlc = j.hlc => i = j
  BY <1>1, <1>5, <1>6, EntriesKept
<1> QED
  BY <1>1, <1>2, <1>4, <1>5, <1>6, <1>7, <1>8, <1>9, <1>10, Together, Zenon

(* The entries of missingIHaves name different published messages, so that *)
(* a table as large as the set of messages has an entry for each.          *)
LEMMA FullMeansTracked ==
  ASSUME Types, Traffic, GossipSuffices, NEW n \in Node, Cardinality(missing[n]) >= MaxIHaves,
         NEW q \in published
  PROVE  \E i \in missing[n] : About(i, q)
<1> SUFFICES ASSUME \A i \in missing[n] : ~About(i, q) PROVE FALSE
  OBVIOUS
<1> DEFINE M == missing[n]
           T == Message \ {q}
           named(i) == CHOOSE r \in T : About(i, r)
           f == [i \in M |-> named(i)]
<1>1. q \in Message /\ published \subseteq Message
  BY DEF Types, GossipTypeOK
<1>2. \A i \in M : \E r \in T : About(i, r)
  BY <1>1 DEF Traffic, Announced
<1>3. \A i \in M : named(i) \in T /\ About(i, named(i))
  BY <1>2
<1>4. \A i, j \in M : named(i) = named(j) => i = j
  BY <1>3 DEF About, Traffic
<1>5. f \in Injection(M, T)
  BY <1>3, <1>4 DEF Injection, IsInjective
<1>6. IsFiniteSet(T) /\ Cardinality(T) = Cardinality(Message) - 1 /\ Cardinality(Message) \in Nat
  BY <1>1, GossipAssumption, FS_RemoveElement, FS_CardinalityType
<1>7. Cardinality(M) <= Cardinality(T) /\ Cardinality(M) \in Nat
  BY <1>5, <1>6, FS_Injection, FS_CardinalityType
<1> QED
  <2>1. Cardinality(Message) <= MaxIHaves /\ MaxIHaves \in Nat
    BY Hops DEF GossipSuffices
  <2> QED
    BY <1>6, <1>7, <2>1

LEMMA IHaveKeeps ==
  ASSUME GossipInv, NEW m \in frames, handleIHave(m)
  PROVE  GossipInv'
<1> DEFINE n == m.to
           cur == getRawKeyed(store[n], m.slot)
           tracked == \E i \in missing[n] : <<i.slot, i.hlc>> = <<m.slot, m.hlc>>
           new == [slot |-> m.slot, hlc |-> m.hlc, announcer |-> m.from, grafted |-> FALSE]
           known == \/ cur # NoRecord /\ cur.hlc >= m.hlc
                    \/ tracked
                    \/ Cardinality(missing[n]) >= MaxIHaves
<1>1. Types /\ Held /\ Distinct /\ Traffic /\ (GossipSuffices => Flow)
  BY DEF GossipInv
<1>2. /\ m.kind = "ihave" /\ frames' = frames \ {m} /\ UNCHANGED <<store, topics, edge, published>>
      /\ known => missing' = missing
      /\ ~known => missing' = [missing EXCEPT ![n] = @ \cup {new}]
  BY DEF handleIHave
<1> HIDE DEF known
<1>3. /\ store' \in [Node -> TopicStoreType] /\ \A x \in Node : WitnessesSent(store'[x])
      /\ Held' /\ Distinct' /\ Grows
      /\ \A x \in Node, q \in published' : Reached(x, q)' => Reached(x, q)
  BY <1>1, <1>2, SameStores
<1>4. m \in GossipFrame /\ m.to \in Peers(m.from) /\ Announced(m.from, m)
  BY <1>1, <1>2 DEF Types, GossipTypeOK, Traffic, FrameOK
<1>5. n \in Node /\ m.from \in Node /\ m.from \in Peers(n) /\ m.slot \in Slot /\ m.hlc \in 0 .. MaxHLC
  BY <1>2, <1>4, PeersMutual DEF GossipFrame
<1>6. missing \in [Node -> SUBSET IHaveEntry]
  BY <1>1 DEF Types, GossipTypeOK
<1>7. /\ new \in IHaveEntry /\ new.slot = m.slot /\ new.hlc = m.hlc
       /\ new.announcer = m.from /\ ~new.grafted
  BY <1>5 DEF IHaveEntry
<1> HIDE DEF new
<1>8. missing' \in [Node -> SUBSET IHaveEntry]
  BY <1>2, <1>6, <1>7
<1>9. \A x \in Node : missing[x] \subseteq missing'[x]
  BY <1>2, <1>6
<1>10. \A x \in Node : \A i \in missing'[x] \ missing[x] : x = n /\ i = new /\ ~known
  BY <1>2, <1>6
<1>11. \A x \in Node : \A i \in missing'[x] :
         /\ i.announcer \in Peers(x) /\ Announced(i.announcer, i)'
         /\ \A j \in missing'[x] : i.slot = j.slot /\ i.hlc = j.hlc => i = j
  <2>1. Announced(m.from, new)'
    BY <1>1, <1>3, <1>4, <1>5, <1>7, AnnouncedKept DEF Announced, About
  <2>2. \A x \in Node : \A i \in missing[x] :
          i.announcer \in Peers(x) /\ i.announcer \in Node /\ Announced(i.announcer, i)
    BY <1>1, Zenon DEF Types, GossipTypeOK, Traffic, Peers
  <2>3. \A x \in Node : \A i \in missing[x] : Announced(i.announcer, i)'
    BY <1>1, <1>3, <2>2, AnnouncedKept
  <2>4. \A x \in Node : \A i \in missing'[x] : i.announcer \in Peers(x) /\ Announced(i.announcer, i)'
    BY <1>5, <1>10, <1>7, <2>1, <2>2, <2>3
  <2>5. ASSUME NEW x \in Node, NEW i \in missing'[x], NEW j \in missing'[x],
               i.slot = j.slot, i.hlc = j.hlc
        PROVE  i = j
    <3>1. CASE i \in missing[x] /\ j \in missing[x]
      BY <1>1, <2>5, <3>1 DEF Traffic
    <3>2. ASSUME ~known, NEW k \in missing[n] PROVE ~(k.slot = m.slot /\ k.hlc = m.hlc)
      BY <3>2 DEF known
    <3> QED
      BY <1>10, <1>7, <2>5, <3>1, <3>2
  <2> QED
    BY <2>4, <2>5
<1>12. frames' \subseteq GossipFrame /\ \A f \in frames' : f.to \in Peers(f.from) /\ FrameOK(f)'
  BY <1>1, <1>2, <1>3, FrameKept, Zenon DEF Types, GossipTypeOK, Traffic
<1>13. ASSUME GossipSuffices, NEW q \in published, Owner(q), NEW x \in Node, Served(x, q)
       PROVE  Served(x, q)'
  <2>1. q \in Message
    BY <1>1, <1>13 DEF Types, GossipTypeOK
  <2>2. Requested(x, q) => Requested(x, q)'
    <3>1. Covered(x, q) => Covered(x, q)'
      BY <1>3, <2>1 DEF Grows
    <3>2. (Pushed(x, q) => Pushed(x, q)') /\ (Grafting(x, q) => Grafting(x, q)')
      BY <1>2 DEF Pushed, Grafting, About
    <3>3. Tracked(x, q) => Tracked(x, q)'
      BY <1>9 DEF Tracked, About
    <3> QED
      BY <3>1, <3>2, <3>3 DEF Requested
  <2>3. ASSUME x = n, About(m, q) PROVE Requested(x, q)'
    <3>1. CASE cur # NoRecord /\ cur.hlc >= m.hlc
      <4>1. Covered(x, q)
        BY <2>3, <3>1 DEF Covered, About, getRawKeyed
      <4> QED
        BY <2>2, <4>1 DEF Requested
    <3>2. CASE tracked
      <4>1. \E i \in missing[x] : About(i, q)
        BY <2>3, <3>2 DEF About
      <4> QED
        BY <1>13, <2>2, <4>1 DEF Served
    <3>3. CASE Cardinality(missing[n]) >= MaxIHaves
      <4>1. \E i \in missing[x] : About(i, q)
        BY <1>1, <1>5, <1>13, <2>3, <3>3, FullMeansTracked
      <4> QED
        BY <1>13, <2>2, <4>1 DEF Served
    <3>4. CASE ~known
      <4>1. new \in missing'[x]
        BY <1>2, <1>5, <1>6, <2>3, <3>4
      <4>2. ~new.grafted /\ About(new, q)
        BY <1>7, <2>3 DEF About
      <4> QED
        BY <4>1, <4>2 DEF Requested, Tracked, About
    <3> QED
      BY <3>1, <3>2, <3>3, <3>4 DEF known
  <2>4. Offered(x, q) => Requested(x, q)' \/ Offered(x, q)'
    BY <1>2, <2>3 DEF Offered, About
  <2>5. ASSUME NEW i \in missing'[x], About(i, q)
        PROVE  (\E j \in missing[x] : About(j, q)) \/ Requested(x, q)'
    <3>1. CASE i \in missing[x]
      BY <2>5, <3>1
    <3>2. CASE i \notin missing[x]
      <4>1. x = n /\ i = new
        BY <1>10, <3>2
      <4>2. About(m, q)
        BY <1>7, <2>5, <4>1 DEF About
      <4> QED
        BY <2>3, <4>1, <4>2
    <3> QED
      BY <3>1, <3>2
  <2>6. \A p \in Peers(x) : Reached(p, q)' => Reached(p, q)
    BY <1>2, <1>3 DEF Peers
  <2> QED
    BY <1>13, <2>2, <2>4, <2>5, <2>6, ServedKept
<1>14. /\ edge' \in [Node -> [Node -> {"none", "lazy", "tree"}]] /\ topics' \subseteq Node
       /\ \A x, p \in Node : edge'[x][p] # "none" <=> p \in Peers(x)
  BY <1>1, <1>2 DEF Types, GossipTypeOK
<1> QED
  BY <1>1, <1>2, <1>3, <1>8, <1>11, <1>12, <1>13, <1>14, Together, Zenon

LEMMA GraftKeeps ==
  ASSUME GossipInv, NEW m \in frames, handleGraft(m)
  PROVE  GossipInv'
<1> DEFINE n == m.to
<1>0. PICK c : c = getRawKeyed(store[n], m.slot)
  OBVIOUS
<1> DEFINE push == IF c # NoRecord /\ c.sig # EmptySig
                   THEN eagerPush(n, {m.from}, c, EagerTTL) ELSE {}
<1>1. Types /\ Held /\ Distinct /\ Traffic /\ (GossipSuffices => Flow)
  BY DEF GossipInv
<1>2. /\ m.kind = "graft" /\ frames' = (frames \ {m}) \cup push
      /\ edge' = [edge EXCEPT ![n] = promoteTreeEdgeBounded(@, m.from)]
      /\ UNCHANGED <<store, topics, missing, published>>
  BY <1>0 DEF handleGraft
<1>3. /\ store' \in [Node -> TopicStoreType] /\ \A x \in Node : WitnessesSent(store'[x])
      /\ Held' /\ Distinct' /\ Grows
      /\ \A x \in Node, q \in published' : Reached(x, q)' => Reached(x, q)
  BY <1>1, <1>2, SameStores
<1>4. m \in GossipFrame /\ m.to \in Peers(m.from) /\ Announced(m.to, m)
  BY <1>1, <1>2, Zenon DEF Types, GossipTypeOK, Traffic, FrameOK
<1>5. n \in Node /\ m.from \in Node /\ m.from \in Peers(n) /\ m.slot \in Slot
  BY <1>2, <1>4, PeersMutual, Zenon DEF GossipFrame
<1>6. /\ edge' \in [Node -> [Node -> {"none", "lazy", "tree"}]]
      /\ \A x, p \in Node : edge'[x][p] # "none" <=> p \in Peers(x)
  <2>1. edge' = [edge EXCEPT ![n] = promoteTreeEdgeBounded(edge[n], m.from)]
    BY <1>2
  <2>2. EdgesOf(n, promoteTreeEdgeBounded(edge[n], m.from))
    BY <1>1, <1>5, EdgesTyped, EdgesKept
  <2> QED
    BY <1>1, <1>5, <2>1, <2>2, EdgeStep, Zenon
<1>7. c = NoRecord \/ c \in Record
  <2>1. store[n] \in TopicStoreType
    BY <1>1, <1>5 DEF Types, GossipTypeOK
  <2> QED
    BY <1>0, <1>5, <2>1, SlotTyped DEF getRawKeyed
<1>8. c # NoRecord /\ c.sig # EmptySig =>
        c \in published /\ c \in published' /\ c \in Message /\ keyOf(c) = m.slot /\ Owner(c)
  BY <1>0, <1>1, <1>2, <1>5, Zenon DEF Held, getRawKeyed, Types, GossipTypeOK
<1>9. \A f \in push : f \in GossipFrame /\ f.to \in Peers(f.from) /\ FrameOK(f)'
  <2> SUFFICES ASSUME c # NoRecord, c.sig # EmptySig, NEW f \in eagerPush(n, {m.from}, c, EagerTTL)
               PROVE  f \in GossipFrame /\ f.to \in Peers(f.from) /\ FrameOK(f)'
    OBVIOUS
  <2>1. EagerTTL \in 1 .. EagerTTL /\ {m.from} \subseteq Peers(n)
    BY <1>5, Hops
  <2>2. PushTo(f, n, c, EagerTTL)
    <3> HIDE DEF n
    <3> QED
      BY <1>5, <1>8, <2>1, PushShape
  <2>3. Reached(n, c)'
    <3>1. ~Newer(c, c)
      BY <1>8, MessageNumbers
    <3>2. store'[n].records[keyOf(c)] = c
      BY <1>0, <1>2, <1>8, Zenon DEF getRawKeyed
    <3> QED
      BY <3>1, <3>2 DEF Reached
  <2>4. Cardinality(ReachedBy(c)') + EagerTTL > EagerTTL
    <3>1. n \in ReachedBy(c)' /\ ReachedBy(c)' \subseteq Node
      BY <1>5, <2>3 DEF ReachedBy
    <3>2. IsFiniteSet(ReachedBy(c)')
      BY <3>1, NodesFinite, FS_Subset
    <3>3. Cardinality(ReachedBy(c)') # 0 /\ Cardinality(ReachedBy(c)') \in Nat
      BY <3>1, <3>2, FS_EmptySet, FS_CardinalityType
    <3> QED
      BY <3>3, Hops
  <2> QED
    BY <1>8, <2>2, <2>3, <2>4 DEF FrameOK, PushTo
<1>10. frames' \subseteq GossipFrame /\ \A f \in frames' : f.to \in Peers(f.from) /\ FrameOK(f)'
  <2>1. frames' \subseteq frames \cup push
    BY <1>2
  <2> HIDE DEF push
  <2> QED
    BY <1>1, <1>3, <1>9, <2>1, FramesKept
<1>11. ASSUME GossipSuffices, NEW q \in published, Owner(q), NEW x \in Node,
              ~Excused(q)', Served(x, q)
       PROVE  Served(x, q)'
  <2>1. q \in Message /\ ~Excused(q)
    BY <1>1, <1>3, <1>11, Zenon DEF Types, GossipTypeOK, Grows
  <2>2. ASSUME x = m.from, About(m, q) PROVE Pushed(x, q)'
    <3>1. Reached(n, q)
      BY <1>1, <1>4, <1>11, <2>2, NamesOneRecord DEF Announced
    <3>2. c # NoRecord /\ ~Newer(q, c) /\ m.slot = keyOf(q)
      BY <1>0, <2>2, <3>1 DEF Reached, About, getRawKeyed
    <3>3. c.hlc \in Nat /\ q.hlc \in Nat
      BY <1>7, <2>1, <3>2, MessageNumbers, RecordNumbers
    <3>4. c.hlc >= q.hlc /\ (c.sig = EmptySig => c.hlc > q.hlc)
      BY <1>7, <2>1, <3>2, NotNewer
    <3>5. c.sig # EmptySig
      <4> SUFFICES ASSUME c.sig = EmptySig PROVE FALSE
        OBVIOUS
      <4>1. c.hlc > q.hlc
        BY <3>4
      <4>2. DeadAbove(n, q)
        BY <1>0, <3>2, <4>1, Zenon DEF DeadAbove, DeclaredDead, getRawKeyed
      <4> QED
        BY <1>5, <2>1, <4>2 DEF Excused
    <3>6. c = q
      <4>1. ~(c.hlc > q.hlc)
        BY <1>8, <2>1, <3>2, <3>5 DEF Excused, Superseded
      <4>2. c.hlc = q.hlc
        BY <3>3, <3>4, <4>1
      <4> QED
        BY <1>1, <1>8, <1>11, <3>2, <3>5, <4>2 DEF Distinct
    <3>7. [kind |-> "eager", from |-> n, to |-> x, record |-> q, ttl |-> EagerTTL] \in frames'
      BY <1>2, <2>2, <3>2, <3>5, <3>6 DEF eagerPush
    <3> QED
      BY <3>7 DEF Pushed
  <2>3. Requested(x, q) => Requested(x, q)'
    <3>1. Covered(x, q) => Covered(x, q)'
      BY <1>3, <2>1 DEF Grows
    <3>2. Pushed(x, q) => Pushed(x, q)'
      BY <1>2 DEF Pushed
    <3>3. Tracked(x, q) => Tracked(x, q)'
      BY <1>2, Zenon DEF Tracked, About
    <3>4. Grafting(x, q) => Grafting(x, q)' \/ Pushed(x, q)'
      BY <1>2, <2>2 DEF Grafting, About
    <3> QED
      BY <3>1, <3>2, <3>3, <3>4 DEF Requested
  <2>4. Offered(x, q) => Offered(x, q)'
    BY <1>2 DEF Offered, About
  <2>5. \A p \in Peers(x) : Reached(p, q)' => Reached(p, q)
    BY <1>2, <1>3 DEF Peers
  <2> QED
    BY <1>2, <1>11, <2>3, <2>4, <2>5, ServedKept, Zenon
<1>12. /\ missing' \in [Node -> SUBSET IHaveEntry] /\ topics' \subseteq Node
       /\ \A x \in Node : missing'[x] \subseteq missing[x]
  BY <1>1, <1>2, Zenon DEF Types, GossipTypeOK
<1>13. \A x \in Node : \A i \in missing'[x] :
         /\ i.announcer \in Peers(x) /\ Announced(i.announcer, i)'
         /\ \A j \in missing'[x] : i.slot = j.slot /\ i.hlc = j.hlc => i = j
  BY <1>1, <1>3, <1>12, EntriesKept, Zenon
<1> QED
  BY <1>1, <1>2, <1>3, <1>6, <1>10, <1>11, <1>12, <1>13, Together, Zenon

LEMMA PruneFrameKeeps ==
  ASSUME GossipInv, NEW m \in frames, handlePrune(m)
  PROVE  GossipInv'
<1> DEFINE n == m.to
<1>1. Types /\ Held /\ Distinct /\ Traffic /\ (GossipSuffices => Flow)
  BY DEF GossipInv
<1>2. /\ m.kind = "prune" /\ frames' = frames \ {m}
      /\ edge' = [edge EXCEPT ![n] = [edge[n] EXCEPT ![m.from] = "lazy"]]
      /\ UNCHANGED <<store, topics, missing, published>>
  BY DEF handlePrune
<1>3. /\ store' \in [Node -> TopicStoreType] /\ \A x \in Node : WitnessesSent(store'[x])
      /\ Held' /\ Distinct' /\ Grows
      /\ \A x \in Node, q \in published' : Reached(x, q)' => Reached(x, q)
  BY <1>1, <1>2, SameStores
<1>4. n \in Node /\ m.from \in Node /\ m.from \in Peers(n)
  BY <1>1, <1>2, PeersMutual, Zenon DEF Types, GossipTypeOK, GossipFrame
<1>5. /\ edge' \in [Node -> [Node -> {"none", "lazy", "tree"}]]
      /\ \A x, p \in Node : edge'[x][p] # "none" <=> p \in Peers(x)
  <2>1. EdgesOf(n, [edge[n] EXCEPT ![m.from] = "lazy"])
    BY <1>1, <1>4, EdgesTyped, EdgesKept, Zenon
  <2> QED
    BY <1>1, <1>2, <1>4, <2>1, EdgeStep, Zenon
<1>6. frames' \subseteq GossipFrame /\ \A f \in frames' : f.to \in Peers(f.from) /\ FrameOK(f)'
  BY <1>1, <1>2, <1>3, FrameKept, Zenon DEF Types, GossipTypeOK, Traffic
<1>7. ASSUME NEW q \in published, NEW x \in Node, Served(x, q) PROVE Served(x, q)'
  <2>1. q \in Message
    BY <1>1, <1>7, Zenon DEF Types, GossipTypeOK
  <2>2. Covered(x, q) => Covered(x, q)'
    BY <1>3, <2>1 DEF Grows
  <2>3. Requested(x, q) => Requested(x, q)'
    BY <1>2, <2>2 DEF Requested, Pushed, Tracked, Grafting, About
  <2>4. Offered(x, q) => Offered(x, q)'
    BY <1>2 DEF Offered, About
  <2>5. \A p \in Peers(x) : Reached(p, q)' => Reached(p, q)
    BY <1>2, <1>3 DEF Peers
  <2> QED
    BY <1>2, <1>7, <2>3, <2>4, <2>5, ServedKept
<1>8. /\ missing' \in [Node -> SUBSET IHaveEntry] /\ topics' \subseteq Node
      /\ \A x \in Node : missing'[x] \subseteq missing[x]
  BY <1>1, <1>2, Zenon DEF Types, GossipTypeOK
<1>9. \A x \in Node : \A i \in missing'[x] :
        /\ i.announcer \in Peers(x) /\ Announced(i.announcer, i)'
        /\ \A j \in missing'[x] : i.slot = j.slot /\ i.hlc = j.hlc => i = j
  BY <1>1, <1>3, <1>8, EntriesKept, Zenon
<1> QED
  BY <1>1, <1>2, <1>3, <1>5, <1>6, <1>7, <1>8, <1>9, Together, Zenon

LEMMA TicksKeep ==
  ASSUME GossipInv, NEW n \in Node, Ticks(n)
  PROVE  GossipInv'
<1> DEFINE graft(i) == [kind |-> "graft", from |-> n, to |-> i.announcer, slot |-> i.slot, hlc |-> i.hlc]
           marked(i) == [i EXCEPT !.grafted = TRUE]
<1>1. Types /\ Held /\ Distinct /\ Traffic /\ (GossipSuffices => Flow)
  BY DEF GossipInv
<1>2. PICK ripe, stale \in SUBSET missing[n] : processGrafts(n, ripe, stale)
  BY DEF Ticks
<1> DEFINE asked == {graft(i) : i \in ripe}
           kept == missing[n] \ (ripe \cup stale)
<1>3. /\ \A i \in ripe : ~i.grafted
      /\ \A i \in stale : i.grafted
      /\ missing' = [missing EXCEPT ![n] = kept \cup {marked(i) : i \in ripe}]
      /\ frames' = frames \cup asked
      /\ UNCHANGED <<store, topics, edge, published>>
  BY <1>2 DEF processGrafts, Ungrafted
<1>4. /\ store' \in [Node -> TopicStoreType] /\ \A x \in Node : WitnessesSent(store'[x])
      /\ Held' /\ Distinct' /\ Grows
      /\ \A x \in Node, q \in published' : Reached(x, q)' => Reached(x, q)
  BY <1>1, <1>3, SameStores
<1>5. missing \in [Node -> SUBSET IHaveEntry]
  BY <1>1 DEF Types, GossipTypeOK
<1>6. \A i \in IHaveEntry : /\ marked(i) \in IHaveEntry /\ marked(i).slot = i.slot
                            /\ marked(i).hlc = i.hlc /\ marked(i).announcer = i.announcer
  BY Zenon DEF IHaveEntry
<1>7. \A i \in IHaveEntry :
        /\ graft(i) \in GossipFrame /\ graft(i).slot = i.slot /\ graft(i).hlc = i.hlc
        /\ graft(i).from = n /\ graft(i).to = i.announcer /\ graft(i).kind = "graft"
  BY DEF IHaveEntry, GossipFrame
<1> HIDE DEF marked, graft
<1>8. missing' \in [Node -> SUBSET IHaveEntry]
  BY <1>3, <1>5, <1>6
<1>9. ASSUME NEW x \in Node, NEW i \in missing'[x]
      PROVE  \E j \in missing[x] :
               /\ j \in IHaveEntry /\ i.slot = j.slot /\ i.hlc = j.hlc /\ i.announcer = j.announcer
               /\ i = j \/ i = marked(j)
               /\ x = n /\ i # j => j \in ripe
               /\ i = j => x # n \/ j \notin ripe
  <2>1. CASE x # n
    BY <1>3, <1>5, <1>9, <2>1
  <2>2. CASE x = n /\ i \in kept
    BY <1>5, <2>2
  <2>3. ASSUME x = n, NEW j \in ripe, i = marked(j)
        PROVE  /\ j \in IHaveEntry /\ i.slot = j.slot /\ i.hlc = j.hlc /\ i.announcer = j.announcer
               /\ i # j
    <3>1. j \in IHaveEntry /\ ~j.grafted
      BY <1>2, <1>3, <1>5
    <3>2. marked(j).grafted
      BY <3>1 DEF marked, IHaveEntry
    <3> QED
      BY <1>6, <2>3, <3>1, <3>2
  <2>4. x = n => i \in kept \cup {marked(j) : j \in ripe}
    BY <1>3, <1>5
  <2> QED
    BY <1>2, <2>1, <2>2, <2>3, <2>4
<1>10. \A x \in Node : \A i \in missing'[x] :
         /\ i.announcer \in Peers(x) /\ Announced(i.announcer, i)'
         /\ \A j \in missing'[x] : i.slot = j.slot /\ i.hlc = j.hlc => i = j
  <2>1. ASSUME NEW x \in Node, NEW i \in missing'[x]
        PROVE  i.announcer \in Peers(x) /\ Announced(i.announcer, i)'
    <3>1. PICK j \in missing[x] : i.slot = j.slot /\ i.hlc = j.hlc /\ i.announcer = j.announcer
      BY <1>9
    <3>2. i.announcer \in Peers(x) /\ i.announcer \in Node /\ Announced(i.announcer, j)
      BY <1>1, <3>1, Zenon DEF Types, GossipTypeOK, Traffic, Peers
    <3>3. Announced(i.announcer, i)
      BY <3>1, <3>2, Zenon DEF Announced, About
    <3> QED
      BY <1>1, <1>4, <3>2, <3>3, AnnouncedKept, Zenon
  <2>2. ASSUME NEW x \in Node, NEW i \in missing'[x], NEW j \in missing'[x],
               i.slot = j.slot, i.hlc = j.hlc
        PROVE  i = j
    <3>1. PICK k \in missing[x] : /\ i.slot = k.slot /\ i.hlc = k.hlc
                                  /\ i = k \/ i = marked(k)
                                  /\ x = n /\ i # k => k \in ripe
                                  /\ i = k => x # n \/ k \notin ripe
      BY <1>9
    <3>2. PICK l \in missing[x] : /\ j.slot = l.slot /\ j.hlc = l.hlc
                                  /\ j = l \/ j = marked(l)
                                  /\ x = n /\ j # l => l \in ripe
                                  /\ j = l => x # n \/ l \notin ripe
      BY <1>9
    <3>3. k = l
      BY <1>1, <2>2, <3>1, <3>2, Zenon DEF Traffic
    <3>4. CASE x # n
      BY <1>1, <1>3, <1>5, <2>2, <3>4 DEF Traffic
    <3>5. CASE x = n
      <4>1. i = k <=> j = k
        BY <3>1, <3>2, <3>3, <3>5
      <4> QED
        BY <3>1, <3>2, <3>3, <4>1
    <3> QED
      BY <3>4, <3>5
  <2> QED
    BY <2>1, <2>2
<1>11. frames' \subseteq GossipFrame /\ \A f \in frames' : f.to \in Peers(f.from) /\ FrameOK(f)'
  <2>1. ASSUME NEW f \in asked PROVE f \in GossipFrame /\ f.to \in Peers(f.from) /\ FrameOK(f)'
    <3>1. PICK i \in ripe : f = graft(i)
      BY <2>1
    <3>2. /\ i \in missing[n] /\ i \in IHaveEntry /\ i.announcer \in Peers(n) /\ i.announcer \in Node
          /\ Announced(i.announcer, i)
      BY <1>1, <1>2, <1>5, Zenon DEF Types, GossipTypeOK, Traffic, Peers
    <3>3. /\ f \in GossipFrame /\ f.slot = i.slot /\ f.hlc = i.hlc
          /\ f.from = n /\ f.to = i.announcer /\ f.kind = "graft"
      BY <1>7, <3>1, <3>2
    <3>4. Announced(f.to, f)
      BY <3>2, <3>3, Zenon DEF Announced, About
    <3>5. Announced(f.to, f)'
      BY <1>1, <1>4, <3>2, <3>3, <3>4, AnnouncedKept, Zenon
    <3> QED
      BY <3>2, <3>3, <3>5, Zenon DEF FrameOK
  <2>2. frames' \subseteq frames \cup asked
    BY <1>3
  <2> QED
    BY <1>1, <1>4, <2>1, <2>2, FramesKept, Zenon
<1>12. ASSUME NEW q \in published, NEW x \in Node, Served(x, q) PROVE Served(x, q)'
  <2>1. q \in Message
    BY <1>1, <1>12, Zenon DEF Types, GossipTypeOK
  <2>2. Covered(x, q) => Covered(x, q)'
    BY <1>4, <2>1, Zenon DEF Grows
  <2>3. frames \subseteq frames'
    BY <1>3
  <2>4. (Pushed(x, q) => Pushed(x, q)') /\ (Grafting(x, q) => Grafting(x, q)')
        /\ (Offered(x, q) => Offered(x, q)')
    BY <2>3 DEF Pushed, Grafting, Offered, About
  <2>5. ASSUME NEW i \in missing[x], ~i.grafted, About(i, q) PROVE Tracked(x, q)' \/ Grafting(x, q)'
    <3>1. CASE x = n /\ i \in ripe
      <4>1. graft(i) \in frames' /\ i \in IHaveEntry
        BY <1>2, <1>3, <1>5, <3>1
      <4>2. graft(i).kind = "graft" /\ graft(i).from = x /\ About(graft(i), q)
        BY <1>7, <2>5, <3>1, <4>1 DEF About
      <4> QED
        BY <4>1, <4>2 DEF Grafting, About
    <3>2. CASE x # n \/ i \notin ripe
      <4>1. i \in missing'[x]
        BY <1>3, <1>5, <2>5, <3>2
      <4> QED
        BY <2>5, <4>1 DEF Tracked, About
    <3> QED
      BY <3>1, <3>2
  <2>6. Requested(x, q) => Requested(x, q)'
    BY <2>2, <2>4, <2>5, Zenon DEF Requested, Tracked
  <2>7. \A i \in missing'[x] : About(i, q) => \E j \in missing[x] : About(j, q)
    <3> SUFFICES ASSUME NEW i \in missing'[x], About(i, q)
                 PROVE  \E j \in missing[x] : About(j, q)
      OBVIOUS
    <3>1. PICK j \in missing[x] : i.slot = j.slot /\ i.hlc = j.hlc
      BY <1>9
    <3> QED
      BY <3>1 DEF About
  <2>8. \A p \in Peers(x) : Reached(p, q)' => Reached(p, q)
    BY <1>3, <1>4 DEF Peers
  <2> QED
    BY <1>12, <2>4, <2>6, <2>7, <2>8, ServedKept, Zenon
<1>13. /\ edge' \in [Node -> [Node -> {"none", "lazy", "tree"}]] /\ topics' \subseteq Node
       /\ \A x, p \in Node : edge'[x][p] # "none" <=> p \in Peers(x)
  BY <1>1, <1>3, Zenon DEF Types, GossipTypeOK
<1> QED
  BY <1>1, <1>3, <1>4, <1>8, <1>10, <1>11, <1>12, <1>13, Together, Zenon

-------------------------------------------------------------------------------
(***************************************************************************)
(* The theorems.                                                           *)
(***************************************************************************)

LEMMA GossipStarts ==
  ASSUME GossipInit PROVE GossipInv
<1>1. /\ store = [n \in Node |-> EmptyTopicStore] /\ topics = {} /\ published = {}
      /\ frames = {} /\ missing = [n \in Node |-> {}]
      /\ edge = [n \in Node |-> [p \in Node |-> IF p \in Peers(n) THEN "lazy" ELSE "none"]]
  BY DEF GossipInit, SessionsUp, newPlumtrees
<1>2. /\ EmptyTopicStore \in TopicStoreType
      /\ \A s \in Slot : EmptyTopicStore.records[s] = NoRecord
      /\ \A x, o \in NodeID : EmptyTopicStore.attestations[x][o] = NoRecord
  BY DEF EmptyTopicStore, TopicStoreType
<1>3. Types
  BY <1>1, <1>2, Zenon DEF Types, GossipTypeOK, WitnessesSent
<1>4. Held /\ Distinct /\ Traffic /\ Flow
  BY <1>1, <1>2, Zenon DEF Held, Distinct, Traffic, Flow
<1> QED
  BY <1>3, <1>4 DEF GossipInv

LEMMA GossipStep ==
  ASSUME GossipInv, [GossipNext]_gossipVars PROVE GossipInv'
<1>1. CASE \E r \in Message : Publish(r)
  BY <1>1, PublishKeeps
<1>2. CASE \E m \in frames : ReceiveGossip(m)
  BY <1>2, EagerKeeps, IHaveKeeps, GraftKeeps, PruneFrameKeeps DEF ReceiveGossip
<1>3. CASE \E n \in Node : Ticks(n)
  BY <1>3, TicksKeep
<1>4. CASE UNCHANGED gossipVars
  <2>1. UNCHANGED <<store, topics, edge, missing, frames, published>>
    BY <1>4 DEF gossipVars
  <2>2. Types /\ Held /\ Distinct /\ Traffic /\ (GossipSuffices => Flow)
    BY DEF GossipInv
  <2>3. /\ store' \in [Node -> TopicStoreType] /\ \A x \in Node : WitnessesSent(store'[x])
        /\ Held' /\ Distinct' /\ Grows
        /\ \A x \in Node, q \in published' : Reached(x, q)' => Reached(x, q)
    BY <2>1, <2>2, SameStores
  <2>4. ASSUME NEW q \in published, NEW x \in Node, Served(x, q) PROVE Served(x, q)'
    <3>1. \A p : (Reached(p, q)' <=> Reached(p, q)) /\ (Covered(p, q)' <=> Covered(p, q))
      BY <2>1, Zenon DEF Reached, Covered
    <3> QED
      BY <2>1, <2>4, <3>1, Zenon DEF Served, Requested, Offered, Pushed, Tracked, Grafting, About, Peers
  <2>5. /\ edge' \in [Node -> [Node -> {"none", "lazy", "tree"}]] /\ topics' \subseteq Node
        /\ \A x, p \in Node : edge'[x][p] # "none" <=> p \in Peers(x)
        /\ missing' \in [Node -> SUBSET IHaveEntry]
    BY <2>1, <2>2, Zenon DEF Types, GossipTypeOK
  <2>6. \A x \in Node : \A i \in missing'[x] :
          /\ i.announcer \in Peers(x) /\ Announced(i.announcer, i)'
          /\ \A j \in missing'[x] : i.slot = j.slot /\ i.hlc = j.hlc => i = j
    BY <2>1, <2>2, <2>3, EntriesKept, Zenon
  <2>7. frames' \subseteq GossipFrame /\ \A f \in frames' : f.to \in Peers(f.from) /\ FrameOK(f)'
    BY <2>1, <2>2, <2>3, FrameKept, Zenon DEF Types, GossipTypeOK, Traffic
  <2> QED
    BY <2>1, <2>2, <2>3, <2>4, <2>5, <2>6, <2>7, Together, Zenon
<1> QED
  BY <1>1, <1>2, <1>3, <1>4 DEF GossipNext

(* The newest record of a slot: nothing excuses it in a mesh that declared *)
(* nobody dead.                                                            *)
LEMMA NewestExists ==
  ASSUME Types, NEW r \in published, Owner(r)
  PROVE  \E t \in published :
           /\ Owner(t) /\ keyOf(t) = keyOf(r) /\ t.hlc \in Nat
           /\ \A q \in published : Owner(q) /\ keyOf(q) = keyOf(r) => q.hlc <= t.hlc
<1> DEFINE Q == {q \in published : Owner(q) /\ keyOf(q) = keyOf(r)}
           H == {q.hlc : q \in Q}
<1>1. \A q \in published : q.hlc \in 0 .. MaxHLC
  BY MessageShape, Zenon DEF Types, GossipTypeOK
<1>2. H \subseteq 0 .. MaxHLC /\ H # {} /\ MaxHLC \in Nat
  BY <1>1, CapAssumption, Zenon
<1>3. Max(H) \in H /\ \A y \in H : y <= Max(H)
  BY <1>2, MaxIsGreatest, Zenon
<1>4. PICK t \in Q : t.hlc = Max(H)
  BY <1>3, Zenon
<1>5. \A q \in Q : q.hlc <= t.hlc
  BY <1>3, <1>4, Zenon
<1>6. t.hlc \in Nat
  BY <1>1, <1>2
<1> QED
  BY <1>5, <1>6

LEMMA QuietAgrees ==
  ASSUME GossipInv PROVE QuietMeansAgreed
<1> SUFFICES ASSUME GossipSuffices, Quiet, NEW r \in published, Owner(r),
                    \A p \in Node : ~DeclaredDead(p, keyOf(r))
             PROVE  \A n \in Node : Covered(n, r)
  BY DEF QuietMeansAgreed, Owner
<1>1. Types /\ Held /\ Distinct /\ Flow /\ published \subseteq Message
  BY Zenon DEF GossipInv, Types, GossipTypeOK
<1>2. PICK t \in published :
        /\ Owner(t) /\ keyOf(t) = keyOf(r) /\ t.hlc \in Nat
        /\ \A q \in published : Owner(q) /\ keyOf(q) = keyOf(r) => q.hlc <= t.hlc
  BY <1>1, NewestExists
<1>3. \A q \in published : q.hlc \in Nat /\ ~Newer(q, q) /\ keyOf(q) \in Slot
  BY <1>1, MessageNumbers
<1>4. ~Excused(t)
  <2>1. ~Superseded(t)
    BY <1>2, <1>3 DEF Superseded
  <2> QED
    BY <1>2, <2>1, Zenon DEF Excused, DeadAbove
<1>5. t.node \in Node /\ Reached(t.node, t) /\ \A n \in Node : Served(n, t)
  BY <1>1, <1>2, <1>4 DEF Flow
<1>6. frames = {} /\ \A n \in Node : \A i \in missing[n] : i.grafted
  <2>1. \A m \in frames : m.kind \in {"eager", "ihave", "graft", "prune"}
    BY <1>1, Zenon DEF Types, GossipTypeOK, GossipFrame
  <2> QED
    BY <2>1 DEF Quiet, Gossip, Ungrafted
<1>7. ASSUME NEW n \in Node, Covered(n, t) PROVE Reached(n, t)
  <2> DEFINE c == store[n].records[keyOf(t)]
  <2>1. c # NoRecord /\ c.hlc >= t.hlc
    BY <1>7 DEF Covered
  <2>2. c.sig # EmptySig
    BY <1>2, <2>1 DEF DeclaredDead
  <2>3. keyOf(t) \in Slot
    BY <1>3
  <2>4. c \in published /\ keyOf(c) = keyOf(t) /\ Owner(c)
    BY <1>1, <2>1, <2>2, <2>3, Zenon DEF Held
  <2>5. c.hlc = t.hlc
    <3>1. c.hlc \in Nat /\ t.hlc \in Nat /\ c.hlc <= t.hlc
      BY <1>2, <1>3, <2>4, Zenon
    <3> HIDE DEF c
    <3> QED
      BY <2>1, <3>1
  <2>6. c = t
    BY <1>1, <1>2, <2>4, <2>5, Zenon DEF Distinct
  <2> QED
    BY <1>3, <2>1, <2>6, Zenon DEF Reached
<1>8. ASSUME NEW n \in Node, NEW p \in Peers(n), Reached(p, t) PROVE Reached(n, t)
  <2>1. Requested(n, t) \/ Offered(n, t)
    BY <1>5, <1>8, Zenon DEF Served
  <2>2. Covered(n, t)
    BY <1>6, <2>1, Zenon DEF Requested, Pushed, Tracked, Grafting, Offered
  <2> QED
    BY <1>7, <2>2
<1>9. ReachedBy(t) = Node
  <2> SUFFICES ASSUME ReachedBy(t) # Node PROVE FALSE
    OBVIOUS
  <2>1. ReachedBy(t) \in (SUBSET Node) \ {{}, Node}
    BY <1>5 DEF ReachedBy
  <2>2. PICK l \in Link : l[1] \in ReachedBy(t) /\ l[2] \notin ReachedBy(t)
    BY <2>1, Zenon DEF GossipSuffices
  <2>3. l \in Node \X Node /\ <<l[2], l[1]>> \in Link
    BY GossipAssumption
  <2>4. l[1] \in Node /\ l[2] \in Node /\ l[1] \in Peers(l[2])
    BY <2>3 DEF Peers
  <2> QED
    BY <1>8, <2>2, <2>4 DEF ReachedBy
<1>10. ASSUME NEW n \in Node PROVE Covered(n, r)
  <2> DEFINE c == store[n].records[keyOf(r)]
  <2>1. c # NoRecord /\ c.hlc >= t.hlc
    BY <1>1, <1>2, <1>9, ReachedCovers DEF ReachedBy, Covered
  <2>2. store[n] \in TopicStoreType /\ keyOf(r) \in Slot
    BY <1>1, <1>3, Zenon DEF Types, GossipTypeOK
  <2>3. c.hlc \in Nat
    BY <2>1, <2>2, SlotTyped, RecordNumbers, Zenon
  <2>4. r.hlc \in Nat /\ t.hlc \in Nat /\ r.hlc <= t.hlc
    BY <1>2, <1>3
  <2>5. c.hlc >= r.hlc
    <3> HIDE DEF c
    <3> QED
      BY <2>1, <2>3, <2>4
  <2> QED
    BY <2>1, <2>5 DEF Covered
<1> QED
  BY <1>10

(* Gossip keeps its types: frames travel along links, and no synthesised   *)
(* tombstone, which has no signature, is ever sent.                        *)
THEOREM GossipTypes == GossipSafe => []GossipTypeOK
<1>1. GossipInit => GossipInv
  BY GossipStarts
<1>2. GossipInv /\ [GossipNext]_gossipVars => GossipInv'
  BY GossipStep
<1>3. GossipInv => GossipTypeOK
  BY DEF GossipInv, Types
<1> QED
  BY <1>1, <1>2, <1>3, PTL DEF GossipSafe

(* While no frame is lost, Plumtrees alone brings the newest record of     *)
(* every slot to every node: when no push, announcement, graft or tracked  *)
(* entry is left, all hold it, unless one of them declared its node dead.  *)
(* This holds for every connected mesh of at most eagerTTL + 1 nodes,      *)
(* whatever order the frames arrive in and whatever tree they leave.       *)
THEOREM GossipAgrees == GossipSafe => []QuietMeansAgreed
<1>1. GossipInit => GossipInv
  BY GossipStarts
<1>2. GossipInv /\ [GossipNext]_gossipVars => GossipInv'
  BY GossipStep
<1>3. GossipInv => QuietMeansAgreed
  BY QuietAgrees
<1> QED
  BY <1>1, <1>2, <1>3, PTL DEF GossipSafe
===============================================================================
