------------------------------- MODULE Plumtrees -------------------------------
(***************************************************************************)
(* The Plumtrees engine (plumtrees.go) of every node of a mesh, with the   *)
(* record stores of TopicStore it feeds, for one topic.  A handler runs to *)
(* its end in one step: the transport of a node calls back from one        *)
(* goroutine.  Frames are reordered at will; Mesh also loses them.         *)
(*                                                                         *)
(* NodeIDs and keys are numbers in the order of the strings; all peers     *)
(* have one priority class.  Every message has a valid signature and       *)
(* passes the admission gate.  An attestation was taken at time 0, like    *)
(* all records held, or later, which the restored-at fence tells apart.    *)
(***************************************************************************)
EXTENDS TopicStore

CONSTANTS
  Node,         \* the nodes of the mesh
  Link,         \* pairs <<n, p>> with a session, both directions
  Message,      \* the signed records and attestations in circulation
  TreeDegree,   \* Config.TreeDegree
  EagerTTL,     \* eagerTTL
  MaxIHaves,    \* Config.MaxPendingIHaves
  Quorum        \* Config.ObserverQuorum

ASSUME GossipAssumption ==
  /\ NodeID \subseteq Nat \ {0} /\ Key \subseteq Nat /\ Node \subseteq NodeID
  /\ Link \subseteq Node \X Node
  /\ \A l \in Link : l[1] # l[2] /\ <<l[2], l[1]>> \in Link
  /\ IsFiniteSet(Message)
  /\ \A r \in Message : IsOwnerRecord(r) \/ IsAttestation(r)
  /\ {TreeDegree, EagerTTL, MaxIHaves, Quorum} \subseteq Nat \ {0}

GossipFrame ==
  [kind : {"eager"}, from : Node, to : Node, record : Message, ttl : 1..EagerTTL]
    \cup [kind : {"ihave", "graft"}, from : Node, to : Node, slot : Slot, hlc : 0..MaxHLC]
    \cup [kind : {"prune"}, from : Node, to : Node]

IHaveEntry == [slot : Slot, hlc : 0..MaxHLC, announcer : Node, grafted : BOOLEAN]

VARIABLES
  store,        \* store[n]: the topicStore of node n
  topics,       \* the nodes whose byTopic has an entry for the topic
  edge,         \* edge[n][p]: isTreeEdge of n's peer p, "none" when p is not in the table
  missing,      \* missingIHaves
  frames,       \* frames in flight
  published     \* messages published so far

gossipVars == <<store, topics, edge, missing, frames, published>>

Peers(n) == {p \in Node : <<n, p>> \in Link}

-------------------------------------------------------------------------------
(***************************************************************************)
(* What ApplyExt does and returns.                                         *)
(***************************************************************************)

(* nowFn.  The time modelled is short: no clock unit passes.               *)
now == 0

ApplyExt(ts, r) ==
  IF IsObserverAttestation(r) THEN applyAttestation(ts, r, now, Quorum, Window)
  ELSE ApplyOwner(ts, r, now)

(* `accumulated': an attestation that entered the witness set. *)
AccumulatedExt(ts, r) == IsObserverAttestation(r) /\ Accumulated(ts, r, now)

(* `applied': a slot changed; for an attestation, the quorum was crossed. *)
AppliedExt(ts, r) ==
  IF IsObserverAttestation(r)
  THEN LET set == WitnessSet(ts, r, Window)
       IN /\ Accumulated(ts, r, now)
          /\ QuorumMet(set, Quorum)
          /\ DyingSlots(ts, r.node, SynthHLC(set)) # {}
  ELSE OwnerApplied(ts, r)

(* `replaced' of a message that changed nothing: an owner record of a held *)
(* slot, or an attestation that is redundant rather than inadmissible.     *)
ReplacedExt(ts, r) ==
  IF IsObserverAttestation(r)
  THEN /\ r.observer \in Trusted
       /\ r.observedAt <= now + SkewBudget
       /\ r.observedAt > ts.restored[r.node]
  ELSE ts.records[keyOf(r)] # NoRecord

getRawKeyed(ts, s) == ts.records[s]

topicAttestations(ts) ==
  UNION {{ts.attestations[n][o] : o \in Observers(ts.attestations[n])} : n \in NodeID}

newPlumtrees == missing = [n \in Node |-> {}]

(* The sessions have just come up: all peers are off the tree. *)
SessionsUp ==
  /\ edge = [n \in Node |-> [p \in Node |-> IF p \in Peers(n) THEN "lazy" ELSE "none"]]
  /\ frames = {}

GossipInit ==
  /\ store = [n \in Node |-> EmptyTopicStore]
  /\ topics = {}
  /\ published = {}
  /\ newPlumtrees
  /\ SessionsUp

-------------------------------------------------------------------------------
(***************************************************************************)
(* The peer table and its tree edges.                                      *)
(***************************************************************************)

TreeEdges(e) == {p \in Node : e[p] = "tree"}
NonTreeEdges(e) == {p \in Node : e[p] = "lazy"}

maxTreeEdges == 4 * TreeDegree

promoteTreeEdgeBounded(e, p) ==
  IF Cardinality(TreeEdges(e)) >= maxTreeEdges THEN e ELSE [e EXCEPT ![p] = "tree"]

(* Promote the first lazy peers until the node has TreeDegree tree edges. *)
bestTreeEdges(e) ==
  LET need == TreeDegree - Cardinality(TreeEdges(e))
      before(p) == {q \in NonTreeEdges(e) : q < p}
  IN [p \in Node |->
        IF e[p] = "lazy" /\ Cardinality(before(p)) < need THEN "tree" ELSE e[p]]

eagerPush(n, ps, r, ttl) ==
  {[kind |-> "eager", from |-> n, to |-> p, record |-> r, ttl |-> ttl] : p \in ps}

(* Announcements that neither pause, backpressure nor bandwidth hold back. *)
lazyPush(n, e, r) ==
  {[kind |-> "ihave", from |-> n, to |-> p, slot |-> keyOf(r), hlc |-> r.hlc] :
     p \in NonTreeEdges(e)}

-------------------------------------------------------------------------------
(***************************************************************************)
(* Plumtrees.                                                              *)
(***************************************************************************)

Author(r) == IF r.observer = NoNode THEN r.node ELSE r.observer

(* The author's clock is above every stamp it took in or issued. *)
Stamped(n, r) ==
  /\ \A s \in slotsHeld(store[n]) : store[n].records[s].hlc < r.hlc
  /\ \A a \in topicAttestations(store[n]) : a.hlc < r.hlc
  /\ \A q \in published : Author(q) = n => q.hlc < r.hlc

(* PublishKeyed pushes what its own store took in; PublishObserverTombstone *)
(* pushes its attestation in any case.                                      *)
Publish(r) ==
  LET n == Author(r)
      e == bestTreeEdges(edge[n])
  IN /\ r \notin published
     /\ n \in Node
     /\ Stamped(n, r)
     /\ published' = published \cup {r}
     /\ store' = [store EXCEPT ![n] = ApplyExt(@, r)]
     /\ topics' = topics \cup {n}
     /\ IF IsObserverAttestation(r) \/ AppliedExt(store[n], r)
        THEN /\ edge' = [edge EXCEPT ![n] = e]
             /\ frames' = frames \cup eagerPush(n, TreeEdges(e), r, EagerTTL)
                                 \cup lazyPush(n, e, r)
        ELSE UNCHANGED <<edge, frames>>
     /\ UNCHANGED <<missing>>

(* The tree edges a message travels on to: none when its hops are used up. *)
ForwardTo(e, m) == IF m.ttl > 1 THEN TreeEdges(e) \ {m.from} ELSE {}

(* Bug: a duplicate is returned to its sender, like a record it lacks. *)
BugPruneSender(n, m) == eagerPush(n, {m.from}, m.record, m.ttl)

PruneSender(n, m) == {[kind |-> "prune", from |-> n, to |-> m.from]}

(* A fresh attestation below the quorum goes on to the best tree edges. *)
RelayAttestation(m) ==
  LET n == m.to
      e == IF m.ttl > 1 THEN bestTreeEdges(edge[n]) ELSE edge[n]
  IN /\ AccumulatedExt(store[n], m.record)
     /\ ~AppliedExt(store[n], m.record)
     /\ edge' = [edge EXCEPT ![n] = e]
     /\ frames' = (frames \ {m}) \cup eagerPush(n, ForwardTo(e, m), m.record, m.ttl - 1)
     /\ UNCHANGED missing

(* A message that changed a slot: its sender is promoted, and the message  *)
(* pushed on and announced.                                                *)
PassOn(m) ==
  LET n == m.to
      r == m.record
      e == promoteTreeEdgeBounded(edge[n], m.from)
  IN /\ AppliedExt(store[n], r)
     /\ edge' = [edge EXCEPT ![n] = e]
     /\ missing' = [missing EXCEPT ![n] = {i \in @ : <<i.slot, i.hlc>> # <<keyOf(r), r.hlc>>}]
     /\ frames' = (frames \ {m}) \cup eagerPush(n, ForwardTo(e, m), r, m.ttl - 1)
                                 \cup lazyPush(n, e, r)

(* A message that changed nothing: a duplicate prunes its sender. *)
Duplicate(m) ==
  /\ ~AppliedExt(store[m.to], m.record)
  /\ ~AccumulatedExt(store[m.to], m.record)
  /\ frames' = (frames \ {m}) \cup
       (IF ReplacedExt(store[m.to], m.record) THEN PruneSender(m.to, m) ELSE {})
  /\ UNCHANGED <<edge, missing>>

handleEager(m) ==
  /\ m.kind = "eager"
  /\ PassOn(m) \/ RelayAttestation(m) \/ Duplicate(m)
  /\ store' = [store EXCEPT ![m.to] = ApplyExt(@, m.record)]
  /\ topics' = topics \cup {m.to}
  /\ UNCHANGED <<published>>

(* An unknown record is tracked once, for its first announcer, up to the cap. *)
handleIHave(m) ==
  LET n == m.to
      cur == getRawKeyed(store[n], m.slot)
      tracked == \E i \in missing[n] : <<i.slot, i.hlc>> = <<m.slot, m.hlc>>
      new == [slot |-> m.slot, hlc |-> m.hlc, announcer |-> m.from, grafted |-> FALSE]
  IN /\ m.kind = "ihave"
     /\ frames' = frames \ {m}
     /\ missing' =
          IF \/ cur # NoRecord /\ cur.hlc >= m.hlc
             \/ tracked
             \/ Cardinality(missing[n]) >= MaxIHaves
          THEN missing
          ELSE [missing EXCEPT ![n] = @ \cup {new}]
     /\ UNCHANGED <<store, topics, edge, published>>

(* Bug: the grafting peer is promoted but not sent the record. *)
BughandleGraft(m) ==
  /\ m.kind = "graft"
  /\ edge' = [edge EXCEPT ![m.to] = promoteTreeEdgeBounded(@, m.from)]
  /\ frames' = frames \ {m}
  /\ UNCHANGED <<store, topics, missing, published>>

(* Promote the grafting peer and send it what the slot holds now, unless   *)
(* that is a synthesised tombstone.                                        *)
handleGraft(m) ==
  LET r == getRawKeyed(store[m.to], m.slot) IN
  /\ m.kind = "graft"
  /\ edge' = [edge EXCEPT ![m.to] = promoteTreeEdgeBounded(@, m.from)]
  /\ frames' = (frames \ {m}) \cup
       (IF r # NoRecord /\ r.sig # EmptySig THEN eagerPush(m.to, {m.from}, r, EagerTTL) ELSE {})
  /\ UNCHANGED <<store, topics, missing, published>>

handlePrune(m) ==
  /\ m.kind = "prune"
  /\ edge' = [edge EXCEPT ![m.to][m.from] = "lazy"]
  /\ frames' = frames \ {m}
  /\ UNCHANGED <<store, topics, missing, published>>

Ungrafted(n) == {i \in missing[n] : ~i.grafted}

(* One tick: entries older than graftDelay are asked for once, entries     *)
(* older than ihaveEntryTTL dropped.  The ticker's 50 ms are well below    *)
(* both, so an entry is asked for before it grows old.                     *)
processGrafts(n, ripe, stale) ==
  /\ ripe \subseteq Ungrafted(n)
  /\ stale \subseteq missing[n] \ Ungrafted(n)
  /\ ripe \cup stale # {}
  /\ missing' = [missing EXCEPT ![n] =
       (@ \ (ripe \cup stale)) \cup {[i EXCEPT !.grafted = TRUE] : i \in ripe}]
  /\ frames' = frames \cup
       {[kind |-> "graft", from |-> n, to |-> i.announcer, slot |-> i.slot, hlc |-> i.hlc] :
          i \in ripe}
  /\ UNCHANGED <<store, topics, edge, published>>

-------------------------------------------------------------------------------

(* ReceiveFrame, for the frames of the engine. *)
ReceiveGossip(m) == handleEager(m) \/ handleIHave(m) \/ handleGraft(m) \/ handlePrune(m)

Ticks(n) ==
  \E ripe, stale \in SUBSET missing[n] : processGrafts(n, ripe, stale)

GossipNext ==
  \/ \E r \in Message : Publish(r)
  \/ \E m \in frames : ReceiveGossip(m)
  \/ \E n \in Node : Ticks(n)

GossipSafe == GossipInit /\ [][GossipNext]_gossipVars

(* It is enough that some frame keeps being delivered and that tickers     *)
(* keep ticking.  Records may be published or not.                         *)
GossipSpec ==
  /\ GossipSafe
  /\ WF_gossipVars(\E m \in frames : ReceiveGossip(m))
  /\ WF_gossipVars(\E n \in Node : Ticks(n))

-------------------------------------------------------------------------------

(* Only gossip travels, along links; only signed messages travel, never a  *)
(* synthesised tombstone; the peers of a node are its tree edges and the   *)
(* others.                                                                 *)
GossipTypeOK ==
  /\ store \in [Node -> TopicStoreType]
  /\ topics \subseteq Node
  /\ edge \in [Node -> [Node -> {"none", "lazy", "tree"}]]
  /\ \A n, p \in Node : edge[n][p] # "none" <=> p \in Peers(n)
  /\ missing \in [Node -> SUBSET IHaveEntry]
  /\ \A n \in Node : \A i \in missing[n] : i.announcer \in Peers(n)
  /\ frames \subseteq GossipFrame
  /\ \A m \in frames : m.to \in Peers(m.from)
  /\ published \subseteq Message

Gossip == {m \in frames : m.kind \in {"eager", "ihave", "graft", "prune"}}

(* Node n holds r or something newer in its slot. *)
Covered(n, r) ==
  /\ store[n].records[keyOf(r)] # NoRecord
  /\ store[n].records[keyOf(r)].hlc >= r.hlc

DeclaredDead(n, s) ==
  store[n].records[s] # NoRecord /\ store[n].records[s].sig = EmptySig

Quiet == Gossip = {} /\ (\A n \in Node : Ungrafted(n) = {})

(* Where gossip needs no help from anti-entropy: the links connect the     *)
(* nodes, a push has hops enough to visit them all, no cap is met, and no  *)
(* attestation has the slot and the stamp of a record of its target, under *)
(* which missingIHaves would file both announcements as one.               *)
GossipSuffices ==
  /\ \A S \in (SUBSET Node) \ {{}, Node} : \E l \in Link : l[1] \in S /\ l[2] \notin S
  /\ Cardinality(Node) <= EagerTTL + 1
  /\ Cardinality(Message) <= MaxIHaves
  /\ Cardinality(Slot) <= MaxRecordsPerTopic /\ Cardinality(Key) <= MaxKeysPerNode
  /\ \A r, a \in Message :
       IsObserverAttestation(a) /\ ~IsObserverAttestation(r) /\ keyOf(a) = keyOf(r)
         => a.hlc # r.hlc

(* While nothing is lost, eager push, announcements and grafts deliver     *)
(* every owner record by themselves: once they have nothing left to do,    *)
(* all nodes hold the newest record of a slot, unless some of them         *)
(* declared its node dead, whatever tree the prunes and grafts left.       *)
QuietMeansAgreed ==
  GossipSuffices /\ Quiet =>
    \A r \in published :
      \/ IsObserverAttestation(r)
      \/ \E p \in Node : DeclaredDead(p, keyOf(r))
      \/ \A n \in Node : Covered(n, r)

(* The gossip of the published messages dies out: pushes, relays, grafts   *)
(* and prunes do not set each other off for ever.                          *)
GossipEnds == <>[](Gossip = {})
================================================================================
