-------------------------------- MODULE Simulator -------------------------------
(***************************************************************************)
(* The deterministic network simulator the convergence tests run on        *)
(* (sim/sim.go), with its flooding nodes (sim/stub_node.go): Mesh.Step     *)
(* advances virtual time, drains every node's outbound queue into a heap   *)
(* of frames with a delivery time, and delivers the frames that are due.   *)
(*                                                                         *)
(* The seeded generator is a nondeterministic choice of jitter and loss.   *)
(* The first half of Step and each delivery are separate steps, since a    *)
(* test may Publish between them.  A record is its publisher and its       *)
(* stamp; the JSON codec tells two records apart, so a payload is the      *)
(* record.  publishedAt is a history variable.                             *)
(***************************************************************************)
EXTENDS Integers, FiniteSets, FiniteSetsExt

CONSTANTS
  Node,
  Edge,              \* pairs <<from, to>> with a link
  LatencyMs, JitterMs,
  MaxLoss,           \* frames the links may lose
  Record,            \* the records the test publishes
  MaxTime            \* bound on the virtual clock

Frame == [from : Node, to : Node, body : Record]

ASSUME SimulatorAssumption ==
  /\ IsFiniteSet(Node) /\ Edge \subseteq Node \X Node
  /\ IsFiniteSet(Record) /\ Record \subseteq [node : Node, hlc : Nat \ {0}]
  /\ {LatencyMs, JitterMs, MaxLoss, MaxTime} \subseteq Nat

VARIABLES
  now,           \* virtual time
  due,           \* Step is delivering
  records,       \* node -> publisher -> stamp held, 0 if none
  outbound,      \* node -> outbound queue (pending of StubNode)
  delivered,     \* node -> payloads seen
  pendingFrames, \* the heap
  lost,          \* number of frames lost
  publishedAt    \* record -> time of its publication, -1 before

simVars == <<now, due, records, outbound, delivered, pendingFrames, lost, publishedAt>>

Peers(n) == {m \in Node : <<n, m>> \in Edge}

SimInit ==
  /\ now = 0 /\ due = FALSE
  /\ records = [n \in Node |-> [m \in Node |-> 0]]
  /\ outbound = [n \in Node |-> {}]
  /\ delivered = [n \in Node |-> {}]
  /\ pendingFrames = {}
  /\ lost = 0
  /\ publishedAt = [r \in Record |-> -1]

-------------------------------------------------------------------------------

Copies(n, to, r) == {[from |-> n, to |-> m, body |-> r] : m \in to \ {n}}

(* StubNode.Publish: the own slot is overwritten, every peer gets a copy.  *)
(* Tests publish increasing stamps.                                        *)
Publish(r) ==
  /\ publishedAt[r] < 0 /\ r.hlc > records[r.node][r.node]
  /\ publishedAt' = [publishedAt EXCEPT ![r] = now]
  /\ records' = [records EXCEPT ![r.node][r.node] = r.hlc]
  /\ outbound' = [outbound EXCEPT ![r.node] = @ \cup Copies(r.node, Peers(r.node), r)]
  /\ delivered' = [delivered EXCEPT ![r.node] = @ \cup {r}]
  /\ UNCHANGED <<now, due, pendingFrames, lost>>

(* sendFrame: latency plus or minus jitter, at least one tick. *)
Delay == {Max({1, LatencyMs + j}) : j \in -JitterMs .. JitterMs}

(* The test of the delivery loop. *)
IsDue(t, heap) == \E p \in heap : p.deliveryAt <= t

(* Each frame of out that has an edge is lost or goes on the heap. *)
sendFrame(at, out) ==
  LET linked == {f \in out : <<f.from, f.to>> \in Edge}
  IN \E gone \in SUBSET linked :
       /\ lost + Cardinality(gone) <= MaxLoss
       /\ lost' = lost + Cardinality(gone)
       /\ \E d \in [linked \ gone -> Delay] :
            pendingFrames' = pendingFrames \cup
              {[deliveryAt |-> at + d[f], frame |-> f] : f \in linked \ gone}

(* Step up to the deliveries: the clock, every node's Step, sendFrame for  *)
(* what they return.                                                       *)
Step ==
  /\ ~due /\ now < MaxTime
  /\ now' = now + 1
  /\ sendFrame(now + 1, UNION {outbound[n] : n \in Node})
  /\ outbound' = [n \in Node |-> {}]
  /\ due' = IsDue(now', pendingFrames')
  /\ UNCHANGED <<records, delivered, publishedAt>>

(* Bug: a payload seen before is forwarded again. *)
BugReceive(f) ==
  /\ delivered' = [delivered EXCEPT ![f.to] = @ \cup {f.body}]
  /\ records' = [records EXCEPT ![f.to][f.body.node] = Max({@, f.body.hlc})]
  /\ outbound' = [outbound EXCEPT ![f.to] = @ \cup Copies(f.to, Peers(f.to) \ {f.from}, f.body)]

(* Bug: the copy goes back to the sender instead of to everyone else. *)
BugReceiveEcho(f) ==
  IF f.body \in delivered[f.to] THEN UNCHANGED <<records, outbound, delivered>>
  ELSE
    /\ delivered' = [delivered EXCEPT ![f.to] = @ \cup {f.body}]
    /\ records' = [records EXCEPT ![f.to][f.body.node] = Max({@, f.body.hlc})]
    /\ outbound' = [outbound EXCEPT ![f.to] = @ \cup Copies(f.to, {f.from}, f.body)]

(* StubNode.Receive: a payload seen before is dropped; otherwise the newer *)
(* record wins and everyone but the sender gets a copy.                    *)
Receive(f) ==
  IF f.body \in delivered[f.to] THEN UNCHANGED <<records, outbound, delivered>>
  ELSE
    /\ delivered' = [delivered EXCEPT ![f.to] = @ \cup {f.body}]
    /\ records' = [records EXCEPT ![f.to][f.body.node] = Max({@, f.body.hlc})]
    /\ outbound' = [outbound EXCEPT ![f.to] = @ \cup Copies(f.to, Peers(f.to) \ {f.from}, f.body)]

(* pendingHeap orders by time alone: any frame of the least time may be on *)
(* top.                                                                    *)
OnTop(p) == \A q \in pendingFrames : p.deliveryAt <= q.deliveryAt

(* One turn of Step's delivery loop. *)
Deliver(p) ==
  /\ due /\ p \in pendingFrames /\ OnTop(p)
  /\ pendingFrames' = pendingFrames \ {p}
  /\ Receive(p.frame)
  /\ due' = IsDue(now, pendingFrames')
  /\ UNCHANGED <<now, lost, publishedAt>>

SimNext ==
  \/ \E r \in Record : Publish(r)
  \/ Step
  \/ \E p \in pendingFrames : Deliver(p)

SimSpec == SimInit /\ [][SimNext]_simVars

-------------------------------------------------------------------------------

(* Between two Steps no frame of the heap is due: Step delivers each frame *)
(* in the very tick it is due, and queues hold frames to peers only.       *)
SimTypeOK ==
  /\ now \in 0 .. MaxTime /\ due \in BOOLEAN /\ lost \in 0 .. MaxLoss
  /\ records \in [Node -> [Node -> {0} \cup {r.hlc : r \in Record}]]
  /\ \A n \in Node : outbound[n] \subseteq Frame /\ delivered[n] \subseteq Record
  /\ \A p \in pendingFrames :
       /\ p.frame \in Frame /\ <<p.frame.from, p.frame.to>> \in Edge
       /\ p.deliveryAt >= now /\ (p.deliveryAt = now => due)
  /\ publishedAt \in [Record -> -1 .. MaxTime]

Hops == Cardinality(Node) - 1
HopTime == 1 + Max({1, LatencyMs + JitterMs})

(* The links may not lose a frame on every edge that leaves a set of nodes. *)
Cut(S) == {e \in Edge : e[1] \in S /\ e[2] \notin S}
FloodSuffices == \A S \in (SUBSET Node) \ {{}, Node} : Cardinality(Cut(S)) > MaxLoss

(* The ticks a convergence test may allow: with fewer losses than there    *)
(* are edge-disjoint paths between any two nodes, every node holds a       *)
(* record, or a newer one of its publisher, after one Step and one longest *)
(* delay per hop, whatever the jitter and whichever frames were lost.      *)
FloodArrives ==
  FloodSuffices /\ ~due =>
    \A r \in Record : publishedAt[r] >= 0 /\ now >= publishedAt[r] + Hops * HopTime
      => \A n \in Node : records[n][r.node] >= r.hlc

(* The flood dies out: one hop later nothing is queued or in flight.       *)
FloodDiesOut ==
  /\ FloodSuffices /\ ~due
  /\ \A r \in Record : publishedAt[r] >= 0 => now >= publishedAt[r] + (Hops + 1) * HopTime
  => pendingFrames = {} /\ \A n \in Node : outbound[n] = {}

===============================================================================
