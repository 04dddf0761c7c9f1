---------------------------------- MODULE Mesh ----------------------------------
(***************************************************************************)
(* A mesh of nodes with the Plumtrees engine and Merkle anti-entropy       *)
(* (merkle.go), for one topic.                                             *)
(*                                                                         *)
(* A Merkle root is the set of signed records it hashes.  A range of       *)
(* NodeIDs is named by its exclusive lower end: the first is 0, the others *)
(* are `last NodeID || 0x01'; no end is ever set.                          *)
(***************************************************************************)
EXTENDS Plumtrees, Sequences, SequencesExt

CONSTANTS
  Backlog,      \* what the nodes may hold, and have heard announced, when sessions come up
  maxRangeSize, \* merkleEngine.maxRangeSize
  MaxLoss       \* bound on the frames lost

ASSUME MeshAssumption ==
  /\ Backlog \subseteq [held : [Node -> SUBSET Message], heard : [Node -> SUBSET IHaveEntry]]
  /\ maxRangeSize \in Nat \ {0}
  /\ MaxLoss \in Nat

(* The full range, and what follows a NodeID. *)
Start == {0} \cup {r.node : r \in Message}

Frame ==
  GossipFrame
    \cup [kind : {"probe"}, from : Node, to : Node, start : Start, root : SUBSET Message]
    \cup [kind : {"range"}, from : Node, to : Node, records : Seq(Message), truncated : BOOLEAN]

VARIABLES
  answered,     \* lastReciprocal: peers probed back less than 5 s ago
  lost          \* frames lost so far

merkleVars == <<answered, lost>>
vars == <<gossipVars, merkleVars>>

(* Apply a sequence of messages in order; the singleton set has TLC        *)
(* evaluate each store once.                                               *)
ApplyAll(store0, rs) ==
  LET Take(ts, r) == CHOOSE u \in {ApplyExt(v, r) : v \in {ts}} : TRUE
  IN FoldLeft(Take, store0, rs)

(* The store of a node that took in the messages ms in the order of their stamps. *)
Replayed(ms) ==
  LET ordered(q) == \A i, j \in DOMAIN q : i < j => q[i].hlc <= q[j].hlc
  IN ApplyAll(EmptyTopicStore, CHOOSE q \in SetToSeqs(ms) : ordered(q))

newMerkle == answered = [n \in Node |-> {}]

(* The sessions have just come up, and each node has kept what it took in  *)
(* before and the announcements it tracked: no session's end drops those.  *)
Init ==
  /\ \E b \in Backlog :
       /\ store = [n \in Node |-> Replayed(b.held[n])]
       /\ topics = {n \in Node : b.held[n] # {}}
       /\ missing = b.heard
       /\ published = UNION {b.held[n] : n \in Node}
  /\ SessionsUp
  /\ newMerkle
  /\ lost = 0

-------------------------------------------------------------------------------
(***************************************************************************)
(* Merkle anti-entropy.                                                    *)
(***************************************************************************)

topicRecordsSigned(ts) ==
  {ts.records[s] : s \in {q \in slotsHeld(ts) : ts.records[q].sig # EmptySig}}

InRange(ts, start) == {r \in topicRecordsSigned(ts) : r.node > start}

probe(n, p, start) ==
  [kind |-> "probe", from |-> n, to |-> p, start |-> start, root |-> InRange(store[n], start)]

range(n, p, rs, more) ==
  [kind |-> "range", from |-> n, to |-> p, records |-> rs, truncated |-> more]

lessRecordKey(r, q) == r.node < q.node \/ (r.node = q.node /\ r.key < q.key)
lessWitness(a, b) == a.node < b.node \/ (a.node = b.node /\ a.observer < b.observer)

(* Bug: the first half ends inside a node's group of keys. *)
BugSplit(rs) == Len(rs) \div 2

(* The first half of the range, extended to the end of its last node's group. *)
Split(rs) ==
  LET half == IF Len(rs) < 2 THEN 1 ELSE Len(rs) \div 2
  IN Min({h \in half..Len(rs) : h = Len(rs) \/ rs[h].node # rs[h + 1].node})

(* Bug: the attestations are left out. *)
BugAnswer(ts, m) ==
  LET rs == SetToSortSeq(InRange(ts, m.start), lessRecordKey)
  IN IF Len(rs) <= maxRangeSize
     THEN range(m.to, m.from, rs, FALSE)
     ELSE range(m.to, m.from, SubSeq(rs, 1, Split(rs)), Split(rs) < Len(rs))

(* The answer to a probe whose root differs: all records of the range, and *)
(* on the full range the attestations too, or the first part of a range    *)
(* above maxRangeSize.                                                     *)
Answer(ts, m) ==
  LET rs == SetToSortSeq(InRange(ts, m.start), lessRecordKey)
      as == SetToSortSeq(topicAttestations(ts), lessWitness)
      few == SubSeq(as, 1, Min({Len(as), maxRangeSize}))
  IN IF Len(rs) <= maxRangeSize
     THEN range(m.to, m.from, IF m.start = 0 THEN rs \o few ELSE rs, FALSE)
     ELSE range(m.to, m.from, SubSeq(rs, 1, Split(rs)), Split(rs) < Len(rs))

(* What is left of an exchange of probes and ranges between two nodes. *)
Exchange(n, p) == {m \in frames : m.kind \in {"probe", "range"} /\ {m.from, m.to} = {n, p}}

(* Tick's periodic probe of a topic the node holds, to a peer off the      *)
(* tree.  The probe interval is long: the exchange before is over.         *)
ProbeTick(n, p) ==
  /\ n \in topics
  /\ p \in NonTreeEdges(edge[n])
  /\ Exchange(n, p) = {}
  /\ frames' = frames \cup {probe(n, p, 0)}
  /\ UNCHANGED <<store, topics, edge, missing, answered, published, lost>>

(* The application probes a peer whose session came up, tree edge or not,  *)
(* paused or not.                                                          *)
ProbePeer(n, p) ==
  /\ n \in topics /\ p \in Peers(n)
  /\ Exchange(n, p) = {}
  /\ frames' = frames \cup {probe(n, p, 0)}
  /\ UNCHANGED <<store, topics, edge, missing, answered, published, lost>>

(* Probe the prober back, unless that was done in the last 5 s. *)
Reciprocal(n, m) == IF m.from \in answered[n] THEN {} ELSE {probe(n, m.from, m.start)}

HandleProbe(m) ==
  LET n == m.to IN
  /\ m.kind = "probe"
  /\ IF InRange(store[n], m.start) = m.root
     THEN frames' = frames \ {m} /\ UNCHANGED answered
     ELSE /\ frames' = (frames \ {m}) \cup Reciprocal(n, m) \cup {Answer(store[n], m)}
          /\ answered' = [answered EXCEPT ![n] = @ \cup {m.from}]
  /\ UNCHANGED <<store, topics, edge, missing, published, lost>>

(* The 5 s of the rate limit pass. *)
MayProbeBack(n, p) ==
  /\ p \in answered[n]
  /\ answered' = [answered EXCEPT ![n] = @ \ {p}]
  /\ UNCHANGED <<store, topics, edge, missing, frames, published, lost>>

(* Apply the records in order; a truncated range is continued after its    *)
(* last NodeID.                                                            *)
HandleRange(m) ==
  LET n == m.to
      ts == ApplyAll(store[n], m.records)
      next == IF m.truncated
              THEN {[kind |-> "probe", from |-> n, to |-> m.from,
                     start |-> Last(m.records).node,
                     root |-> InRange(ts, Last(m.records).node)]}
              ELSE {}
  IN /\ m.kind = "range"
     /\ store' = [store EXCEPT ![n] = ts]
     /\ topics' = IF m.records = <<>> THEN topics ELSE topics \cup {n}
     /\ frames' = (frames \ {m}) \cup next
     /\ UNCHANGED <<edge, missing, answered, published, lost>>

-------------------------------------------------------------------------------

(* Best-effort delivery: a queued frame may be dropped. *)
Lose(m) ==
  /\ lost < MaxLoss
  /\ frames' = frames \ {m}
  /\ lost' = lost + 1
  /\ UNCHANGED <<store, topics, edge, missing, published, answered>>

(* ReceiveFrame. *)
Receive(m) ==
  \/ ReceiveGossip(m) /\ UNCHANGED merkleVars
  \/ HandleProbe(m) \/ HandleRange(m)

Next ==
  \/ \E r \in Message : Publish(r) /\ UNCHANGED merkleVars
  \/ \E m \in frames : Receive(m) \/ Lose(m)
  \/ \E n \in Node : Ticks(n) /\ UNCHANGED merkleVars
  \/ \E n, p \in Node : ProbeTick(n, p) \/ ProbePeer(n, p) \/ MayProbeBack(n, p)

Spec == Init /\ [][Next]_vars

(* A link keeps carrying the frames of each class, so that none waits for  *)
(* ever behind those of another.                                           *)
Class(m) ==
  CASE m.kind = "probe" -> <<m.kind, m.start>>
    [] m.kind = "range" -> <<m.kind, IF m.truncated THEN 1 ELSE 0>>
    [] OTHER -> <<"gossip", 0>>

Classes ==
  {<<"gossip", 0>>} \cup ({"range"} \X {0, 1}) \cup ({"probe"} \X Start)

Carries(l, c) == \E m \in frames : Class(m) = c /\ <<m.from, m.to>> = l /\ Receive(m)

(* Links keep carrying frames and tickers keep ticking.  Records may be    *)
(* published or not, and a frame may be lost.                              *)
Fairness ==
  /\ \A l \in Link, c \in Classes : WF_vars(Carries(l, c))
  /\ \A n \in Node : WF_vars(Ticks(n) /\ UNCHANGED merkleVars)
  /\ \A l \in Link : WF_vars(ProbeTick(l[1], l[2])) /\ WF_vars(MayProbeBack(l[1], l[2]))

FairSpec == Spec /\ Fairness

-------------------------------------------------------------------------------

(* Frames, tracked announcements and stores have their types. *)
TypeOK ==
  /\ \A n \in Node : store[n] \in TopicStoreType
  /\ topics \subseteq Node
  /\ edge \in [Node -> [Node -> {"none", "lazy", "tree"}]]
  /\ \A n \in Node : missing[n] \subseteq IHaveEntry /\ answered[n] \subseteq Node
  /\ frames \subseteq Frame
  /\ published \subseteq Message
  /\ lost \in 0..MaxLoss

(* n probes its peer p now and then. *)
Probes(n, p) == n \in topics /\ edge[n][p] = "lazy"

(* Anti-entropy: a node that holds the topic and a peer it keeps off its   *)
(* tree come to hold each other's signed records, or deaths above them,    *)
(* although frames were lost and ranges split.  Both directions matter:    *)
(* the probed peer may hold more, less or nothing.                         *)
LazyPeersAgree ==
  \A l \in Link :
    <>[]Probes(l[1], l[2]) =>
      <>[](/\ \A r \in topicRecordsSigned(store[l[1]]) : Covered(l[2], r)
           /\ \A r \in topicRecordsSigned(store[l[2]]) : Covered(l[1], r))

(* Node p's fence lets in the witnesses on which n declared x dead. *)
LetsIn(p, n, x) ==
  \A o \in Observers(store[n].attestations[x]) :
    store[n].attestations[x][o].observedAt > store[p].restored[x]

(* Anti-entropy also repairs witness sets: when n keeps probing p, p       *)
(* declared x dead on witnesses n's fence lets in, n still holds a record  *)
(* of x and p's signed records fit one range, n comes to declare x dead.   *)
DeathSpreads ==
  \A l \in Link, x \in NodeID :
    <>[](/\ Probes(l[1], l[2])
         /\ nodeDeadAtOrAbove(store[l[2]], x, 0)
         /\ nodePresent(store[l[1]], x)
         /\ LetsIn(l[1], l[2], x)
         /\ Cardinality(topicRecordsSigned(store[l[2]])) <= maxRangeSize)
      => <>[]nodeDeadAtOrAbove(store[l[1]], x, 0)
================================================================================
