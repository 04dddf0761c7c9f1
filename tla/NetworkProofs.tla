------------------------------ MODULE NetworkProofs -----------------------------
(***************************************************************************)
(* The simulated network and the content fetch RPC, each for every value   *)
(* of its constants.                                                       *)
(***************************************************************************)
EXTENDS Simulator, ContentFetch, FiniteSetTheorems, WellFoundedInduction, TLAPS

-------------------------------------------------------------------------------
(***************************************************************************)
(* The simulator's flood, for any graph, any latency, jitter, loss and     *)
(* records, with any number of publications in progress.                   *)
(*                                                                         *)
(* FloodInv says that some history explains the state: times at which the  *)
(* nodes first saw each record, and a set of lost frames no larger than    *)
(* `lost'.  By it each copy a node owes a peer arrived within a hop, is    *)
(* lost, queued or in flight.  Once nothing of a layer is on its way, the  *)
(* copies across its cut are all lost unless the next layer is larger, and *)
(* a cut has more edges than MaxLoss; so layer k has more than k nodes.    *)
(***************************************************************************)

LEMMA MaxOfTwo ==
  ASSUME NEW a \in Int, NEW b \in Int
  PROVE  Max({a, b}) = IF a >= b THEN a ELSE b
<1> DEFINE m == IF a >= b THEN a ELSE b
<1>1. m \in {a, b} /\ \A y \in {a, b} : m >= y
  OBVIOUS
<1>2. Max({a, b}) \in {a, b} /\ \A y \in {a, b} : Max({a, b}) >= y
  BY <1>1 DEF Max
<1> QED
  BY <1>1, <1>2

(* drainOutbound draws a delay of at least one millisecond, and a frame is *)
(* due within a hop of the next drain.                                     *)
LEMMA HopTimes ==
  /\ HopTime \in Nat /\ HopTime >= 2
  /\ \A d \in Delay : d \in Nat /\ 1 <= d /\ 1 + d <= HopTime
<1>1. LatencyMs \in Nat /\ JitterMs \in Nat
  BY SimulatorAssumption
<1>2. HopTime = 1 + (IF 1 >= LatencyMs + JitterMs THEN 1 ELSE LatencyMs + JitterMs)
  BY <1>1, MaxOfTwo DEF HopTime
<1>3. ASSUME NEW d \in Delay
      PROVE  d \in Nat /\ 1 <= d /\ 1 + d <= HopTime
  <2>1. PICK j \in -JitterMs .. JitterMs : d = Max({1, LatencyMs + j})
    BY Zenon DEF Delay
  <2>2. j \in Int /\ j <= JitterMs
    BY <1>1
  <2>3. d = IF 1 >= LatencyMs + j THEN 1 ELSE LatencyMs + j
    BY <1>1, <2>1, <2>2, MaxOfTwo
  <2> QED
    BY <1>1, <1>2, <2>2, <2>3
<1> QED
  BY <1>1, <1>2, <1>3

(* The states of the simulator, and its clock: no frame of the heap is     *)
(* overdue, and one that is due is delivered before the next Step.         *)
SimTypes ==
  /\ now \in 0 .. MaxTime /\ due \in BOOLEAN /\ lost \in 0 .. MaxLoss
  /\ records \in [Node -> [Node -> {0} \cup {r.hlc : r \in Record}]]
  /\ outbound \in [Node -> SUBSET Frame]
  /\ delivered \in [Node -> SUBSET Record]
  /\ pendingFrames \subseteq [deliveryAt : Nat, frame : Frame]
  /\ publishedAt \in [Record -> -1 .. MaxTime]

Timely ==
  /\ \A p \in pendingFrames :
       /\ <<p.frame.from, p.frame.to>> \in Edge
       /\ p.deliveryAt >= now /\ (p.deliveryAt = now => due)
  /\ due => \E p \in pendingFrames : p.deliveryAt <= now

(* Who has seen a record holds it or a newer one, and a record was         *)
(* published once its publisher has seen it.                               *)
Kept ==
  /\ \A n \in Node : \A r \in delivered[n] :
       records[n][r.node] >= r.hlc /\ publishedAt[r] >= 0
  /\ \A r \in Record : publishedAt[r] >= 0 => r \in delivered[r.node]

Copy(m, n, r) == [from |-> m, to |-> n, body |-> r]

(* What became of the copy of r that node m owes its peer n, when node k   *)
(* saw record q at time at[k][q] and the frames gone were lost.            *)
Forwarded(at, gone, m, n, r) ==
  \/ r \in delivered[n] /\ at[n][r] <= at[m][r] + HopTime
  \/ Copy(m, n, r) \in gone
  \/ Copy(m, n, r) \in outbound[m]
  \/ \E p \in pendingFrames : p.frame = Copy(m, n, r)

History(at, gone) ==
  /\ Cardinality(gone) <= lost
  /\ \A n \in Node : \A r \in delivered[n] : at[n][r] <= now
  /\ \A r \in Record : publishedAt[r] >= 0 => at[r.node][r] = publishedAt[r]
  /\ \A n \in Node : \A f \in outbound[n] :
       /\ f.from = n /\ <<n, f.to>> \in Edge
       /\ f.body \in delivered[n] /\ at[n][f.body] = now
  /\ \A p \in pendingFrames :
       /\ p.frame.body \in delivered[p.frame.from]
       /\ p.deliveryAt <= at[p.frame.from][p.frame.body] + HopTime
  /\ \A m, n \in Node : <<m, n>> \in Edge =>
       \A r \in delivered[m] : Forwarded(at, gone, m, n, r)

Times == [Node -> [Record -> Nat]]

(* Some history of first sights and losses explains the state. *)
FloodInv ==
  /\ SimTypes /\ Timely /\ Kept
  /\ \E at \in Times, gone \in SUBSET Frame : History(at, gone)

(* Finitely many nodes and records make finitely many frames. *)
LEMMA FramesFinite == IsFiniteSet(Frame)
<1>1. IsFiniteSet(Node) /\ IsFiniteSet(Record)
  BY SimulatorAssumption
<1>2. IsFiniteSet(Node \X (Node \X Record))
  BY <1>1, FS_Product, Zenon
<1> DEFINE G == [f \in Frame |-> <<f.from, <<f.to, f.body>>>>]
<1>3. G \in [Frame -> Node \X (Node \X Record)]
  BY DEF Frame
<1>4. ASSUME NEW f \in Frame, NEW g \in Frame, G[f] = G[g]
      PROVE  f = g
  BY <1>4 DEF Frame
<1>5. G \in Injection(Frame, Node \X (Node \X Record))
  <2> HIDE DEF G
  <2> QED
    BY <1>3, <1>4 DEF Injection, IsInjective
<1> QED
  BY <1>2, <1>5, FS_Injection

(* Nothing was published, so that the empty history explains it. *)
LEMMA InitFloodInv == SimInit => FloodInv
<1> SUFFICES ASSUME SimInit PROVE FloodInv
  OBVIOUS
<1> USE DEF SimInit
<1>0. MaxLoss \in Nat /\ MaxTime \in Nat /\ \A r \in Record : r.node \in Node
  BY SimulatorAssumption
<1>1. SimTypes
  <2>1. -1 \in -1 .. MaxTime
    BY <1>0
  <2>2. publishedAt \in [Record -> -1 .. MaxTime]
    BY <2>1
  <2>3. records \in [Node -> [Node -> {0} \cup {r.hlc : r \in Record}]]
    OBVIOUS
  <2>4. now \in 0 .. MaxTime /\ lost \in 0 .. MaxLoss
    BY <1>0
  <2>5. outbound \in [Node -> SUBSET Frame] /\ delivered \in [Node -> SUBSET Record]
    OBVIOUS
  <2> HIDE DEF SimInit
  <2>7. due \in BOOLEAN
    BY Zenon DEF SimInit
  <2>6. pendingFrames \subseteq [deliveryAt : Nat, frame : Frame]
    BY DEF SimInit
  <2> QED
    BY <2>2, <2>3, <2>4, <2>5, <2>6, <2>7 DEF SimTypes
<1>2. Timely /\ Kept
  BY <1>0 DEF Timely, Kept
<1> DEFINE at == [n \in Node |-> [r \in Record |-> 0]]
<1>3. at \in Times /\ {} \in SUBSET Frame
  BY DEF Times
<1>4. History(at, {})
  BY <1>0, FS_EmptySet DEF History
<1> QED
  BY <1>1, <1>2, <1>3, <1>4 DEF FloodInv

(* What Publish and Receive have in common: node n sees record r for the   *)
(* first time and queues a copy for each peer but those of skip, which saw *)
(* it before; only a frame that brought r to n leaves the heap.            *)
SeesFirst(at, n, r, skip) ==
  /\ r \notin delivered[n] /\ \A m \in skip : r \in delivered[m]
  /\ delivered' = [delivered EXCEPT ![n] = @ \cup {r}]
  /\ outbound' = [outbound EXCEPT ![n] = @ \cup Copies(n, Peers(n) \ skip, r)]
  /\ pendingFrames' \subseteq pendingFrames
  /\ \A p \in pendingFrames \ pendingFrames' :
       p.frame.to = n /\ p.frame.body = r /\ now <= at[p.frame.from][r] + HopTime
  /\ now' = now /\ lost' = lost
  /\ \/ publishedAt[r] >= 0 /\ n # r.node /\ publishedAt' = publishedAt
     \/ publishedAt[r] < 0 /\ n = r.node /\ publishedAt' = [publishedAt EXCEPT ![r] = now]

(* Then some history explains the new state: n saw r now. *)
LEMMA FirstSight ==
  ASSUME SimTypes, NEW at \in Times, NEW gone \in SUBSET Frame, History(at, gone),
         NEW n \in Node, NEW r \in Record, NEW skip \in SUBSET Node,
         SeesFirst(at, n, r, skip)
  PROVE  \E at2 \in Times : History(at2, gone)'
<1> USE DEF SeesFirst
<1>1. PICK at2 : at2 = [at EXCEPT ![n][r] = now]
  BY Zenon
<1>2. now \in Nat
  BY SimulatorAssumption DEF SimTypes
<1>3. at2 \in Times
  BY <1>1, <1>2 DEF Times
<1>4. at2[n][r] = now
  BY <1>1 DEF Times
<1>5. \A m \in Node, q \in Record : q \in delivered[m] => at2[m][q] = at[m][q]
  BY <1>1 DEF Times
<1>6. \A m \in Node, q \in Record :
        q \in delivered'[m] <=> q \in delivered[m] \/ (m = n /\ q = r)
  BY DEF SimTypes
<1>7. \A m \in Node : delivered'[m] \subseteq Record /\ delivered[m] \subseteq delivered'[m]
  BY DEF SimTypes
<1>8. \A m \in Node : outbound[m] \subseteq outbound'[m]
  BY DEF SimTypes
<1>9. \A m \in Node : \A f \in outbound'[m] :
        f \in outbound[m] \/ (m = n /\ f \in Copies(n, Peers(n) \ skip, r))
  BY DEF SimTypes
<1>10. (Cardinality(gone) <= lost)'
  BY DEF History
<1>11. \A m \in Node : \A q \in delivered'[m] : at2[m][q] <= now'
  BY <1>2, <1>4, <1>5, <1>6, <1>7 DEF History
<1>12. \A q \in Record : publishedAt'[q] >= 0 => at2[q.node][q] = publishedAt'[q]
  <2> SUFFICES ASSUME NEW q \in Record, publishedAt'[q] >= 0
               PROVE  at2[q.node][q] = publishedAt'[q]
    OBVIOUS
  <2>0. q.node \in Node /\ publishedAt[r] \in Int
    BY SimulatorAssumption DEF SimTypes
  <2>1. CASE q = r /\ publishedAt[r] < 0
    BY <2>1, <1>4 DEF SimTypes
  <2>2. CASE ~(q = r /\ publishedAt[r] < 0)
    <3>1. publishedAt'[q] = publishedAt[q]
      BY <2>0, <2>2 DEF SimTypes
    <3>2. ~(q = r /\ q.node = n)
      BY <2>0, <2>2
    <3>3. at2[q.node][q] = at[q.node][q]
      BY <3>2, <2>0, <1>1 DEF Times
    <3> QED
      BY <3>1, <3>3 DEF History
  <2> QED
    BY <2>1, <2>2
<1>13. \A m \in Node : \A f \in outbound'[m] :
        /\ f.from = m /\ <<m, f.to>> \in Edge
        /\ f.body \in delivered'[m] /\ at2[m][f.body] = now'
  <2> SUFFICES ASSUME NEW m \in Node, NEW f \in outbound'[m]
               PROVE  /\ f.from = m /\ <<m, f.to>> \in Edge
                      /\ f.body \in delivered'[m] /\ at2[m][f.body] = now'
    BY Zenon
  <2>1. CASE f \in outbound[m]
    <3>1. /\ f.from = m /\ <<m, f.to>> \in Edge
          /\ f.body \in delivered[m] /\ at[m][f.body] = now
      BY <2>1 DEF History
    <3>2. f.body \in Record
      BY <3>1 DEF SimTypes
    <3> QED
      BY <3>1, <3>2, <1>5, <1>7
  <2>2. CASE m = n /\ f \in Copies(n, Peers(n) \ skip, r)
    <3>1. PICK k \in Peers(n) : f = [from |-> n, to |-> k, body |-> r]
      BY <2>2 DEF Copies
    <3>2. f.from = n /\ f.to = k /\ f.body = r /\ <<n, k>> \in Edge
      BY <3>1 DEF Peers
    <3> QED
      BY <3>2, <2>2, <1>4, <1>6
  <2> QED
    BY <1>9, <2>1, <2>2
<1>14. \A p \in pendingFrames' :
        /\ p.frame.body \in delivered'[p.frame.from]
        /\ p.deliveryAt <= at2[p.frame.from][p.frame.body] + HopTime
  <2> SUFFICES ASSUME NEW p \in pendingFrames
               PROVE  /\ p.frame.body \in delivered'[p.frame.from]
                      /\ p.deliveryAt <= at2[p.frame.from][p.frame.body] + HopTime
    OBVIOUS
  <2>1. p.frame.from \in Node /\ p.frame.body \in Record
    BY DEF SimTypes, Frame
  <2>2. /\ p.frame.body \in delivered[p.frame.from]
        /\ p.deliveryAt <= at[p.frame.from][p.frame.body] + HopTime
    BY DEF History
  <2> QED
    BY <2>1, <2>2, <1>5, <1>7
<1>15. ASSUME NEW m \in Node, NEW k \in Node, <<m, k>> \in Edge, NEW q \in delivered'[m]
       PROVE  Forwarded(at2, gone, m, k, q)'
  <2>0. q \in Record /\ at2[m][q] \in Nat /\ HopTime \in Nat
    BY <1>3, <1>7, HopTimes DEF Times
  <2>1. CASE q \in delivered[m]
    <3>1. Forwarded(at, gone, m, k, q) /\ at2[m][q] = at[m][q]
      BY <2>0, <2>1, <1>5, <1>15 DEF History
    <3>2. CASE q \in delivered[k] /\ at[k][q] <= at[m][q] + HopTime
      BY <3>1, <3>2, <2>0, <1>5, <1>7 DEF Forwarded
    <3>3. CASE Copy(m, k, q) \in gone \/ Copy(m, k, q) \in outbound[m]
      BY <3>3, <1>8 DEF Forwarded, Copy
    <3>4. CASE \E p \in pendingFrames : p.frame = Copy(m, k, q)
      <4>1. PICK p \in pendingFrames : p.frame = Copy(m, k, q)
        BY <3>4
      <4>2. CASE p \in pendingFrames'
        BY <4>1, <4>2 DEF Forwarded, Copy
      <4>3. CASE p \notin pendingFrames'
        <5>1. k = n /\ q = r /\ now <= at[m][r] + HopTime
          BY <4>1, <4>3 DEF Copy
        <5>2. r \in delivered'[n] /\ at2[n][r] <= at2[m][r] + HopTime
          BY <5>1, <3>1, <1>4, <1>6
        <5> QED
          BY <5>1, <5>2 DEF Forwarded
      <4> QED
        BY <4>2, <4>3
    <3> QED
      BY <3>1, <3>2, <3>3, <3>4, Zenon DEF Forwarded
  <2>2. CASE m = n /\ q = r
    <3>1. CASE k = n
      BY <3>1, <2>0, <2>2, <1>6 DEF Forwarded
    <3>2. CASE k \in skip
      <4>1. r \in delivered[k] /\ at[k][r] <= now /\ at[k][r] \in Nat
        BY <3>2 DEF History, Times
      <4>2. r \in delivered'[k] /\ at2[k][r] <= at2[m][r] + HopTime
        BY <4>1, <2>0, <2>2, <1>2, <1>4, <1>5, <1>7
      <4> QED
        BY <4>2, <2>2 DEF Forwarded
    <3>3. CASE k # n /\ k \notin skip
      <4>1. Copy(n, k, r) \in Copies(n, Peers(n) \ skip, r)
        BY <3>3, <2>2, <1>15 DEF Copy, Copies, Peers
      <4>2. Copy(n, k, r) \in outbound'[n]
        BY <4>1 DEF SimTypes
      <4> QED
        BY <4>2, <2>2 DEF Forwarded, Copy
    <3> QED
      BY <3>1, <3>2, <3>3
  <2> QED
    BY <2>1, <2>2, <1>6, <1>7
<1>16. History(at2, gone)'
  BY <1>10, <1>11, <1>12, <1>13, <1>14, <1>15, Zenon DEF History
<1> QED
  BY <1>3, <1>16

LEMMA StampsAreNumbers == {0} \cup {r.hlc : r \in Record} \subseteq Nat
<1>1. \A r \in Record : r.hlc \in Nat
  BY SimulatorAssumption
<1> QED
  BY <1>1

LEMMA CopiesAreFrames ==
  ASSUME NEW n \in Node, NEW to \in SUBSET Node, NEW r \in Record
  PROVE  Copies(n, to, r) \subseteq Frame
BY DEF Copies, Frame

(* StubNode.Publish. *)
LEMMA PublishKeeps ==
  ASSUME FloodInv, NEW r \in Record, Publish(r)
  PROVE  FloodInv'
<1> USE DEF Publish
<1>0. r.node \in Node /\ r.hlc \in Nat /\ SimTypes /\ Timely /\ Kept
  BY SimulatorAssumption DEF FloodInv
<1>1. SimTypes'
  <2>1. Copies(r.node, Peers(r.node), r) \subseteq Frame
    BY <1>0, CopiesAreFrames, Zenon DEF Peers
  <2>2. publishedAt' \in [Record -> -1 .. MaxTime]
    BY <1>0, SimulatorAssumption DEF SimTypes
  <2>3. records' \in [Node -> [Node -> {0} \cup {q.hlc : q \in Record}]]
    BY <1>0, Zenon DEF SimTypes
  <2> QED
    BY <1>0, <2>1, <2>2, <2>3 DEF SimTypes
<1>2. Timely'
  BY <1>0 DEF Timely
<1>3. \A n \in Node : r \notin delivered[n]
  BY <1>0, SimulatorAssumption DEF Kept, SimTypes
<1>4. Kept'
  <2>1. ASSUME NEW n \in Node, NEW q \in delivered'[n]
        PROVE  records'[n][q.node] >= q.hlc /\ publishedAt'[q] >= 0
    <3>1. q \in Record /\ q.node \in Node /\ q.hlc \in Nat
      BY <1>1, SimulatorAssumption DEF SimTypes
    <3>2. now >= 0
      BY <1>0, SimulatorAssumption DEF SimTypes
    <3>3. CASE q = r
      BY <3>1, <3>2, <3>3, <1>0, <1>3 DEF SimTypes
    <3>4. CASE q # r
      <4>1. q \in delivered[n]
        BY <3>4, <2>1, <1>0 DEF SimTypes
      <4>2. records[n][q.node] >= q.hlc /\ publishedAt[q] >= 0
        BY <4>1, <1>0 DEF Kept
      <4>3. publishedAt'[q] = publishedAt[q]
        BY <3>1, <3>4, <1>0 DEF SimTypes
      <4>4. records'[n][q.node] =
              IF n = r.node /\ q.node = r.node THEN r.hlc ELSE records[n][q.node]
        BY <3>1, <1>0 DEF SimTypes
      <4>5. records[n][q.node] \in Nat
        BY <3>1, <1>0, SimulatorAssumption DEF SimTypes
      <4> QED
        BY <4>2, <4>3, <4>4, <4>5, <3>1, <1>0
    <3> QED
      BY <3>3, <3>4
  <2>2. ASSUME NEW q \in Record, publishedAt'[q] >= 0
        PROVE  q \in delivered'[q.node]
    <3>1. q.node \in Node
      BY SimulatorAssumption
    <3>2. CASE q = r
      BY <3>2, <1>0 DEF SimTypes
    <3>3. CASE q # r
      BY <3>1, <3>3, <2>2, <1>0 DEF SimTypes, Kept
    <3> QED
      BY <3>2, <3>3
  <2> QED
    BY <2>1, <2>2 DEF Kept
<1>5. PICK at \in Times, gone \in SUBSET Frame : History(at, gone)
  BY DEF FloodInv
<1>6. SeesFirst(at, r.node, r, {})
  <2>1. Peers(r.node) \ {} = Peers(r.node)
    OBVIOUS
  <2> QED
    BY <2>1, <1>0, <1>3 DEF SeesFirst
<1>7. \E at2 \in Times : History(at2, gone)'
  <2> HIDE DEF Publish
  <2> QED
    BY <1>0, <1>5, <1>6, FirstSight, {} \in SUBSET Node
<1> QED
  BY <1>1, <1>2, <1>4, <1>7 DEF FloodInv

(* One turn of the delivery loop: the frame on top is due now. *)
LEMMA DeliverKeeps ==
  ASSUME FloodInv, NEW p \in pendingFrames, Deliver(p)
  PROVE  FloodInv'
<1> DEFINE f == p.frame
<1>0. SimTypes /\ Timely /\ Kept /\ now \in Nat
  BY SimulatorAssumption DEF FloodInv, SimTypes
<1>1. p.deliveryAt \in Nat /\ f \in Frame
  BY <1>0 DEF SimTypes
<1>2. f.from \in Node /\ f.to \in Node /\ f.body \in Record
  BY <1>1 DEF Frame
<1>3. f.body.node \in Node /\ f.body.hlc \in Nat
  BY <1>2, SimulatorAssumption
<1>4. p.deliveryAt = now
  <2>1. PICK q \in pendingFrames : q.deliveryAt <= now
    BY <1>0 DEF Timely, Deliver
  <2>2. p.deliveryAt <= q.deliveryAt /\ p.deliveryAt >= now /\ q.deliveryAt \in Nat
    BY <1>0, Zenon DEF Timely, Deliver, OnTop, SimTypes
  <2> QED
    BY <2>1, <2>2, <1>0, <1>1
<1>5. Timely'
  <2>1. now' = now /\ pendingFrames' = pendingFrames \ {p}
    BY DEF Deliver
  <2>2. due' <=> \E q \in pendingFrames' : q.deliveryAt <= now
    BY DEF Deliver, IsDue
  <2>3. ASSUME NEW q \in pendingFrames', q.deliveryAt = now
        PROVE  due'
    BY <2>2, <2>3, <1>0
  <2>4. ASSUME NEW q \in pendingFrames'
        PROVE  <<q.frame.from, q.frame.to>> \in Edge /\ q.deliveryAt >= now
    BY <2>1, <1>0 DEF Timely
  <2> QED
    BY <2>1, <2>2, <2>3, <2>4 DEF Timely
<1>6. PICK at \in Times, gone \in SUBSET Frame : History(at, gone)
  BY DEF FloodInv
<1>7. f.body \in delivered[f.from] /\ now <= at[f.from][f.body] + HopTime
  BY <1>4, <1>6 DEF History
<1>8. now' = now /\ lost' = lost /\ publishedAt' = publishedAt /\ due' \in BOOLEAN
      /\ pendingFrames' = pendingFrames \ {p} /\ Receive(f)
  BY DEF Deliver, IsDue
<1>9. CASE f.body \in delivered[f.to]
  <2>1. records' = records /\ outbound' = outbound /\ delivered' = delivered
    BY <1>8, <1>9 DEF Receive
  <2>2. SimTypes' /\ Kept'
    BY <2>1, <1>0, <1>8 DEF SimTypes, Kept
  <2>3. ASSUME NEW m \in Node, NEW k \in Node, <<m, k>> \in Edge, NEW q \in delivered[m]
        PROVE  Forwarded(at, gone, m, k, q)'
    <3>1. Forwarded(at, gone, m, k, q)
      BY <2>3, <1>6 DEF History
    <3>2. CASE f = Copy(m, k, q)
      <4>1. m = f.from /\ k = f.to /\ q = f.body
        BY <3>2 DEF Copy
      <4>2. at[k][q] <= now /\ at[k][q] \in Nat /\ at[m][q] \in Nat
        BY <4>1, <1>2, <1>6, <1>9 DEF History, Times
      <4>3. q \in delivered[k] /\ at[k][q] <= at[m][q] + HopTime
        <5>1. q \in delivered[k] /\ now <= at[m][q] + HopTime
          BY <4>1, <1>7, <1>9, Zenon
        <5> QED
          BY <4>2, <5>1, <1>0, HopTimes
      <4> QED
        BY <4>3, <2>1 DEF Forwarded
    <3>3. CASE f # Copy(m, k, q)
      BY <3>1, <3>3, <2>1, <1>8 DEF Forwarded, Copy
    <3> QED
      BY <3>2, <3>3
  <2>4. History(at, gone)'
    <3>1. \A q \in pendingFrames' : q \in pendingFrames
      BY <1>8
    <3> QED
      BY <3>1, <2>1, <2>3, <1>6, <1>8, Zenon DEF History
  <2> QED
    BY <2>2, <2>4, <1>5, <1>6 DEF FloodInv
<1>10. CASE f.body \notin delivered[f.to]
  <2>1. /\ delivered' = [delivered EXCEPT ![f.to] = @ \cup {f.body}]
        /\ records' = [records EXCEPT ![f.to][f.body.node] = Max({@, f.body.hlc})]
        /\ outbound' = [outbound EXCEPT ![f.to] = @ \cup Copies(f.to, Peers(f.to) \ {f.from}, f.body)]
    BY <1>8, <1>10 DEF Receive
  <2> DEFINE old == records[f.to][f.body.node]
  <2>2. old \in Nat /\ old \in {0} \cup {r.hlc : r \in Record}
    BY <1>0, <1>2, <1>3, StampsAreNumbers, Zenon DEF SimTypes
  <2>3. Max({old, f.body.hlc}) = IF old >= f.body.hlc THEN old ELSE f.body.hlc
    <3>1. old \in Int /\ f.body.hlc \in Int
      BY <2>2, <1>3
    <3> QED
      BY <3>1, MaxOfTwo, Zenon
  <2>4. SimTypes'
    <3>1. Copies(f.to, Peers(f.to) \ {f.from}, f.body) \subseteq Frame
      BY <1>2, CopiesAreFrames, Zenon DEF Peers
    <3>2. Max({old, f.body.hlc}) \in {0} \cup {r.hlc : r \in Record}
      BY <2>2, <2>3, <1>2, Zenon
    <3>3. records' \in [Node -> [Node -> {0} \cup {r.hlc : r \in Record}]]
      BY <3>2, <2>1, <1>0, <1>2, <1>3, Zenon DEF SimTypes
    <3>4. outbound' \in [Node -> SUBSET Frame]
      BY <3>1, <2>1, <1>0, <1>2, Zenon DEF SimTypes
    <3>5. delivered' \in [Node -> SUBSET Record]
      BY <2>1, <1>0, <1>2 DEF SimTypes
    <3> QED
      BY <3>3, <3>4, <3>5, <1>0, <1>8 DEF SimTypes
  <2>5. publishedAt[f.body] >= 0
    BY <1>0, <1>2, <1>7 DEF Kept
  <2>6. Kept'
    <3>1. ASSUME NEW n \in Node, NEW q \in delivered'[n]
          PROVE  records'[n][q.node] >= q.hlc /\ publishedAt'[q] >= 0
      <4>1. q \in Record /\ q.node \in Node /\ q.hlc \in Nat
        BY <2>4, SimulatorAssumption DEF SimTypes
      <4>2. records'[n][q.node] = IF n = f.to /\ q.node = f.body.node
                                  THEN Max({old, f.body.hlc}) ELSE records[n][q.node]
        BY <4>1, <2>1, <1>0, <1>2, <1>3, Zenon DEF SimTypes
      <4>3. CASE q \in delivered[n]
        <5>1. records[n][q.node] >= q.hlc /\ publishedAt[q] >= 0
          BY <4>3, <1>0 DEF Kept
        <5> HIDE DEF f, old
        <5>2. CASE n = f.to /\ q.node = f.body.node
          <6>1. old >= q.hlc
            BY <5>1, <5>2 DEF old
          <6> QED
            BY <6>1, <5>1, <5>2, <4>1, <4>2, <2>2, <2>3, <1>3, <1>8
        <5> QED
          BY <5>1, <5>2, <4>2, <1>8
      <4>4. CASE q \notin delivered[n]
        <5>1. n = f.to /\ q = f.body
          BY <4>4, <3>1, <2>1, <1>0, <1>2 DEF SimTypes
        <5> HIDE DEF f, old
        <5> QED
          BY <5>1, <4>2, <2>2, <2>3, <2>5, <1>3, <1>8
      <4> QED
        BY <4>3, <4>4
    <3>2. ASSUME NEW q \in Record, publishedAt'[q] >= 0
          PROVE  q \in delivered'[q.node]
      <4>1. q.node \in Node
        BY SimulatorAssumption
      <4> QED
        BY <4>1, <3>2, <2>1, <1>0, <1>8, Zenon DEF Kept, SimTypes
    <3> QED
      BY <3>1, <3>2 DEF Kept
  <2>7. SeesFirst(at, f.to, f.body, {f.from})
    <3>1. f.to # f.body.node
      BY <2>5, <1>0, <1>2, <1>10 DEF Kept
    <3>2. \A q \in pendingFrames \ pendingFrames' : q = p
      BY <1>8
    <3> QED
      BY <3>1, <3>2, <2>1, <2>5, <1>7, <1>8, <1>10, Zenon DEF SeesFirst
  <2>8. {f.from} \in SUBSET Node
    BY <1>2
  <2>9. \E at2 \in Times : History(at2, gone)'
    <3> HIDE DEF f
    <3> QED
      BY <2>7, <2>8, <1>0, <1>2, <1>6, FirstSight, Zenon
  <2> QED
    BY <2>4, <2>6, <2>9, <1>5 DEF FloodInv
<1> QED
  BY <1>9, <1>10

(* Step up to the deliveries: every queued copy is lost or goes on the     *)
(* heap, due within one hop of the sight it was made at.                   *)
LEMMA StepKeeps ==
  ASSUME FloodInv, Step
  PROVE  FloodInv'
<1> DEFINE out == UNION {outbound[n] : n \in Node}
           linked == {f \in out : <<f.from, f.to>> \in Edge}
<1>0. SimTypes /\ Timely /\ Kept /\ now \in Nat
  BY SimulatorAssumption DEF FloodInv, SimTypes
<1>1. PICK at \in Times, gone \in SUBSET Frame : History(at, gone)
  BY DEF FloodInv
<1>2. \A n \in Node : \A f \in outbound[n] :
        /\ f.from = n /\ <<f.from, f.to>> \in Edge /\ f \in Frame /\ f \in linked
        /\ f.body \in delivered[n] /\ at[n][f.body] = now
  <2> SUFFICES ASSUME NEW n \in Node, NEW f \in outbound[n]
               PROVE  /\ f.from = n /\ <<f.from, f.to>> \in Edge /\ f \in Frame /\ f \in linked
                      /\ f.body \in delivered[n] /\ at[n][f.body] = now
    BY Zenon
  <2>1. /\ f.from = n /\ <<n, f.to>> \in Edge
        /\ f.body \in delivered[n] /\ at[n][f.body] = now
    BY <1>1, Zenon DEF History
  <2>2. f \in Frame
    BY <1>0 DEF SimTypes
  <2>3. f \in out
    OBVIOUS
  <2> QED
    BY <2>1, <2>2, <2>3
<1>3. \A f \in linked :
        /\ f \in Frame /\ <<f.from, f.to>> \in Edge
        /\ f.body \in delivered[f.from] /\ at[f.from][f.body] = now
  <2> SUFFICES ASSUME NEW f \in linked
               PROVE  /\ f \in Frame /\ <<f.from, f.to>> \in Edge
                      /\ f.body \in delivered[f.from] /\ at[f.from][f.body] = now
    BY Zenon
  <2>1. PICK n \in Node : f \in outbound[n]
    OBVIOUS
  <2> QED
    BY <2>1, <1>2
<1>4. sendFrame(now + 1, out)
  BY DEF Step
<1>5. PICK drop \in SUBSET linked :
        /\ lost + Cardinality(drop) <= MaxLoss
        /\ lost' = lost + Cardinality(drop)
        /\ \E d \in [linked \ drop -> Delay] :
             pendingFrames' = pendingFrames \cup
               {[deliveryAt |-> now + 1 + d[f], frame |-> f] : f \in linked \ drop}
  BY <1>4, Zenon DEF sendFrame
<1> HIDE DEF linked
<1>6. PICK d \in [linked \ drop -> Delay] :
        pendingFrames' = pendingFrames \cup
          {[deliveryAt |-> now + 1 + d[f], frame |-> f] : f \in linked \ drop}
  BY <1>5
<1>7. /\ ~due /\ now < MaxTime /\ now' = now + 1
      /\ outbound' = [n \in Node |-> {}]
      /\ records' = records /\ delivered' = delivered /\ publishedAt' = publishedAt
  BY DEF Step
<1>8. due' <=> \E p \in pendingFrames' : p.deliveryAt <= now'
  BY DEF Step, IsDue
<1>9. due' \in BOOLEAN
  BY DEF Step, IsDue
<1>10. ASSUME NEW p \in pendingFrames', p \notin pendingFrames
       PROVE  /\ p.frame \in linked \ drop
              /\ p.deliveryAt \in Nat /\ p.deliveryAt >= now + 2
              /\ p.deliveryAt <= now + HopTime
              /\ p = [deliveryAt |-> p.deliveryAt, frame |-> p.frame]
  <2>1. PICK f \in linked \ drop : p = [deliveryAt |-> now + 1 + d[f], frame |-> f]
    BY <1>6, <1>10
  <2>2. d[f] \in Nat /\ 1 <= d[f] /\ 1 + d[f] <= HopTime
    BY <2>1, HopTimes
  <2>3. p.deliveryAt = now + 1 + d[f] /\ p.frame = f
    BY <2>1
  <2> QED
    BY <2>1, <2>2, <2>3, <1>0, HopTimes
<1>11. IsFiniteSet(gone) /\ IsFiniteSet(drop) /\ drop \in SUBSET Frame
  BY <1>1, <1>3, <1>5, FramesFinite, FS_Subset, Zenon
<1>12. /\ Cardinality(drop) \in Nat
       /\ Cardinality(gone) \in Nat
       /\ Cardinality(gone \cup drop) <= Cardinality(gone) + Cardinality(drop)
  <2>1. IsFiniteSet(gone \cap drop)
    BY <1>11, FS_Intersection, Zenon
  <2>2. Cardinality(gone \cap drop) \in Nat
    BY <2>1, FS_CardinalityType
  <2>3. Cardinality(drop) \in Nat /\ Cardinality(gone) \in Nat
    BY <1>11, FS_CardinalityType
  <2>4. Cardinality(gone \cup drop) = Cardinality(gone) + Cardinality(drop) - Cardinality(gone \cap drop)
    BY <1>11, FS_Union
  <2> QED
    BY <2>2, <2>3, <2>4
<1>13. SimTypes'
  <2>1. lost' \in 0 .. MaxLoss /\ now' \in 0 .. MaxTime
    BY <1>0, <1>5, <1>7, <1>12, SimulatorAssumption DEF SimTypes
  <2>2. \A p \in pendingFrames' : p \in [deliveryAt : Nat, frame : Frame]
    <3> SUFFICES ASSUME NEW p \in pendingFrames'
                 PROVE  p \in [deliveryAt : Nat, frame : Frame]
      OBVIOUS
    <3>1. CASE p \in pendingFrames
      BY <3>1, <1>0 DEF SimTypes
    <3>2. CASE p \notin pendingFrames
      <4>1. p.frame \in Frame /\ p.deliveryAt \in Nat
        BY <3>2, <1>3, <1>10, Zenon
      <4>2. p = [deliveryAt |-> p.deliveryAt, frame |-> p.frame]
        BY <3>2, <1>10
      <4> QED
        BY <4>1, <4>2
    <3> QED
      BY <3>1, <3>2
  <2>3. outbound' \in [Node -> SUBSET Frame]
    BY <1>7
  <2> QED
    BY <2>1, <2>2, <2>3, <1>0, <1>7, <1>9 DEF SimTypes
<1>14. Timely'
  <2>1. ASSUME NEW p \in pendingFrames'
        PROVE  <<p.frame.from, p.frame.to>> \in Edge /\ p.deliveryAt >= now' /\ p.deliveryAt \in Nat
    <3>1. CASE p \in pendingFrames
      <4>1. p.deliveryAt \in Nat
        BY <3>1, <1>0 DEF SimTypes
      <4>2. <<p.frame.from, p.frame.to>> \in Edge /\ p.deliveryAt >= now /\ p.deliveryAt # now
        BY <3>1, <1>0, <1>7 DEF Timely
      <4> QED
        BY <4>1, <4>2, <1>0, <1>7
    <3>2. CASE p \notin pendingFrames
      BY <3>2, <1>0, <1>3, <1>7, <1>10
    <3> QED
      BY <3>1, <3>2
  <2>2. ASSUME NEW p \in pendingFrames', p.deliveryAt = now'
        PROVE  due'
    <3>1. p.deliveryAt <= now'
      BY <2>2, <1>0, <1>7
    <3> QED
      BY <3>1, <1>8
  <2> QED
    BY <2>1, <2>2, <1>8 DEF Timely
<1>15. Kept'
  BY <1>0, <1>7 DEF Kept
<1>16. ASSUME NEW m \in Node, NEW k \in Node, <<m, k>> \in Edge, NEW q \in delivered[m]
       PROVE  Forwarded(at, gone \cup drop, m, k, q)'
  <2>1. Forwarded(at, gone, m, k, q)
    BY <1>1, <1>16, Zenon DEF History
  <2>2. CASE Copy(m, k, q) \in outbound[m]
    <3>1. Copy(m, k, q) \in linked
      BY <2>2, <1>2, Zenon
    <3>2. CASE Copy(m, k, q) \in drop
      BY <3>2 DEF Forwarded, Copy
    <3>3. CASE Copy(m, k, q) \notin drop
      <4>1. PICK f : f = Copy(m, k, q)
        OBVIOUS
      <4>2. PICK p : p = [deliveryAt |-> now + 1 + d[f], frame |-> f]
        BY Zenon
      <4>3. p \in pendingFrames' /\ p.frame = f
        BY <4>1, <4>2, <3>1, <3>3, <1>6
      <4> QED
        BY <4>1, <4>3 DEF Forwarded, Copy
    <3> QED
      BY <3>2, <3>3, Zenon
  <2>3. CASE q \in delivered[k] /\ at[k][q] <= at[m][q] + HopTime
    BY <2>3, <1>7, Zenon DEF Forwarded
  <2>4. CASE Copy(m, k, q) \in gone
    BY <2>4 DEF Forwarded, Copy
  <2>5. CASE \E p \in pendingFrames : p.frame = Copy(m, k, q)
    BY <2>5, <1>6 DEF Forwarded, Copy
  <2> QED
    BY <2>1, <2>2, <2>3, <2>4, <2>5, Zenon DEF Forwarded
<1>17. History(at, gone \cup drop)'
  <2>1. Cardinality(gone \cup drop) <= lost'
    <3>1. Cardinality(gone) <= lost
      BY <1>1, Zenon DEF History
    <3>4. lost \in Nat
      BY <1>0, SimulatorAssumption DEF SimTypes
    <3>2. IsFiniteSet(gone \cup drop)
      BY <1>11, FS_Union, Zenon
    <3>3. Cardinality(gone \cup drop) \in Nat
      BY <3>2, FS_CardinalityType
    <3> QED
      BY <3>1, <3>3, <3>4, <1>5, <1>12
  <2>2. \A n \in Node : \A r \in delivered[n] : at[n][r] <= now'
    <3> SUFFICES ASSUME NEW n \in Node, NEW r \in delivered[n] PROVE at[n][r] <= now'
      BY Zenon
    <3>1. at[n][r] <= now /\ at[n][r] \in Nat
      BY <1>0, <1>1, Zenon DEF History, Times, SimTypes
    <3> QED
      BY <3>1, <1>0, <1>7
  <2>3. ASSUME NEW p \in pendingFrames'
        PROVE  /\ p.frame.body \in delivered[p.frame.from]
               /\ p.deliveryAt <= at[p.frame.from][p.frame.body] + HopTime
    <3>1. CASE p \in pendingFrames
      BY <3>1, <1>1, Zenon DEF History
    <3>2. CASE p \notin pendingFrames
      BY <3>2, <1>3, <1>10, Zenon
    <3> QED
      BY <3>1, <3>2, Zenon
  <2>4. \A n \in Node : outbound'[n] = {}
    BY <1>7
  <2>5. \A r \in Record : publishedAt[r] >= 0 => at[r.node][r] = publishedAt[r]
    BY <1>1 DEF History
  <2> QED
    BY <2>1, <2>2, <2>3, <2>4, <2>5, <1>7, <1>16, Zenon DEF History
<1> QED
  BY <1>1, <1>11, <1>13, <1>14, <1>15, <1>17 DEF FloodInv

(* FloodInv is inductive. *)
LEMMA NextFloodInv == FloodInv /\ [SimNext]_simVars => FloodInv'
<1> SUFFICES ASSUME FloodInv, [SimNext]_simVars PROVE FloodInv'
  OBVIOUS
<1>1. CASE SimNext
  BY <1>1, PublishKeeps, StepKeeps, DeliverKeeps DEF SimNext
<1>2. CASE UNCHANGED simVars
  <2>1. /\ now' = now /\ due' = due /\ records' = records /\ outbound' = outbound
        /\ delivered' = delivered /\ pendingFrames' = pendingFrames /\ lost' = lost
        /\ publishedAt' = publishedAt
    BY <1>2 DEF simVars
  <2>2. SimTypes' /\ Timely' /\ Kept'
    BY <2>1, Zenon DEF FloodInv, SimTypes, Timely, Kept
  <2>3. PICK at \in Times, gone \in SUBSET Frame : History(at, gone)
    BY DEF FloodInv
  <2>4. \A m, n \in Node : \A r : Forwarded(at, gone, m, n, r) => Forwarded(at, gone, m, n, r)'
    BY <2>1, Zenon DEF Forwarded, Copy
  <2>5. History(at, gone)'
    BY <2>1, <2>3, <2>4, Zenon DEF History
  <2> QED
    BY <2>2, <2>3, <2>5 DEF FloodInv
<1> QED
  BY <1>1, <1>2

(* The nodes that saw r within k hops of its publication. *)
Layer(at, r, k) ==
  {n \in Node : r \in delivered[n] /\ at[n][r] <= publishedAt[r] + k * HopTime}

(* Losses are too few to stop a layer from growing: when nothing of it is  *)
(* still on its way, some node outside it sees r within one more hop.      *)
LEMMA LayerGrows ==
  ASSUME FloodInv, FloodSuffices, ~due,
         NEW at \in Times, NEW gone \in SUBSET Frame, History(at, gone),
         NEW r \in Record, publishedAt[r] >= 0,
         NEW k \in Nat, now >= publishedAt[r] + (k + 1) * HopTime,
         Layer(at, r, k) # Node
  PROVE  \E n \in Node : n \in Layer(at, r, k + 1) /\ n \notin Layer(at, r, k)
<1> DEFINE S == Layer(at, r, k)
           cut == Cut(S)
<1>0. SimTypes /\ Timely /\ Kept
  BY DEF FloodInv
<1>1. /\ r.node \in Node /\ publishedAt[r] \in Nat /\ now \in Nat
      /\ HopTime \in Nat /\ MaxLoss \in Nat /\ lost \in Nat /\ lost <= MaxLoss
  BY <1>0, SimulatorAssumption, HopTimes DEF SimTypes
<1>2. /\ k * HopTime \in Nat /\ (k + 1) * HopTime = k * HopTime + HopTime
  BY <1>1
<1> DEFINE by == publishedAt[r] + k * HopTime
<1>b. by \in Nat /\ now >= by + HopTime /\ by + HopTime = publishedAt[r] + (k + 1) * HopTime
  BY <1>1, <1>2
<1> HIDE DEF by
<1>h. \A x \in Nat : x <= by => x # now
  BY <1>1, <1>b, HopTimes
<1>3. S \in (SUBSET Node) \ {{}, Node}
  <2>1. r \in delivered[r.node] /\ at[r.node][r] = publishedAt[r]
    BY <1>0, Zenon DEF Kept, History
  <2>2. r.node \in S
    BY <2>1, <1>1, <1>2 DEF Layer
  <2> QED
    BY <2>2, Zenon DEF Layer
<1>4. Cardinality(cut) > MaxLoss
  BY <1>3 DEF FloodSuffices
<1>5. SUFFICES ASSUME \A n \in Node : n \in Layer(at, r, k + 1) => n \in S
               PROVE  FALSE
  OBVIOUS
<1>6. ASSUME NEW e \in cut
      PROVE  e[1] \in Node /\ e[2] \in Node /\ e = <<e[1], e[2]>> /\ Copy(e[1], e[2], r) \in gone
  <2>1. /\ e[1] \in Node /\ e[2] \in Node /\ e = <<e[1], e[2]>> /\ <<e[1], e[2]>> \in Edge
        /\ e[1] \in S /\ e[2] \notin S
    BY <1>6, SimulatorAssumption DEF Cut
  <2> DEFINE m == e[1]
             n == e[2]
  <2> HIDE DEF m, n, S, cut
  <2>2. m \in Node /\ n \in Node /\ <<m, n>> \in Edge /\ m \in S /\ n \notin S
    BY <2>1 DEF m, n
  <2>3. r \in delivered[m] /\ at[m][r] <= by /\ at[m][r] \in Nat
    BY <2>2 DEF S, by, Layer, Times
  <2>4. Forwarded(at, gone, m, n, r)
    BY <2>2, <2>3, Zenon DEF History
  <2>5. ~(r \in delivered[n] /\ at[n][r] <= at[m][r] + HopTime)
    <3> SUFFICES ASSUME r \in delivered[n], at[n][r] <= at[m][r] + HopTime PROVE FALSE
      OBVIOUS
    <3>1. at[n][r] \in Nat
      BY <2>2 DEF Times
    <3>2. at[n][r] <= by + HopTime
      BY <3>1, <2>3, <1>1, <1>b
    <3>3. at[n][r] <= publishedAt[r] + (k + 1) * HopTime
      BY <3>2, <1>b, Zenon
    <3> QED
      BY <3>3, <2>2, <1>5, Zenon DEF Layer
  <2>6. Copy(m, n, r) \notin outbound[m]
    <3> SUFFICES ASSUME Copy(m, n, r) \in outbound[m] PROVE FALSE
      OBVIOUS
    <3>1. at[m][Copy(m, n, r).body] = now
      BY <2>2, Zenon DEF History
    <3>2. at[m][r] = now
      BY <3>1, Zenon DEF Copy
    <3> QED
      BY <3>2, <2>3, <1>h, Zenon
  <2>7. ASSUME NEW p \in pendingFrames, p.frame = Copy(m, n, r)
        PROVE  FALSE
    <3>1. p.deliveryAt <= at[p.frame.from][p.frame.body] + HopTime
      BY Zenon DEF History
    <3>2. p.deliveryAt <= at[m][r] + HopTime
      <4>1. p.frame.from = m /\ p.frame.body = r
        <5>1. Copy(m, n, r).from = m /\ Copy(m, n, r).body = r
          BY Zenon DEF Copy
        <5> QED
          BY <2>7, <5>1, Zenon
      <4> QED
        BY <3>1, <4>1, Zenon
    <3>3. p.deliveryAt \in Nat /\ p.deliveryAt >= now /\ p.deliveryAt # now
      BY <1>0, Zenon DEF Timely, SimTypes
    <3> QED
      BY <3>2, <3>3, <2>3, <1>1, <1>b
  <2> QED
    BY <2>1, <2>4, <2>5, <2>6, <2>7 DEF Forwarded, m, n
<1> DEFINE C == [e \in cut |-> Copy(e[1], e[2], r)]
<1>7. C \in [cut -> gone]
  BY <1>6
<1>8. ASSUME NEW e \in cut, NEW g \in cut, C[e] = C[g]
      PROVE  e = g
  <2>1. Copy(e[1], e[2], r) = Copy(g[1], g[2], r)
    BY <1>8
  <2>2. e[1] = g[1] /\ e[2] = g[2]
    BY <2>1 DEF Copy
  <2> QED
    BY <2>2, <1>6
<1>9. C \in Injection(cut, gone)
  <2> HIDE DEF C, cut
  <2> QED
    BY <1>7, <1>8 DEF Injection, IsInjective
<1>10. IsFiniteSet(gone)
  BY FramesFinite, FS_Subset
<1>11. IsFiniteSet(cut) /\ Cardinality(cut) <= Cardinality(gone)
  <2> HIDE DEF C, cut
  <2> QED
    BY <1>9, <1>10, FS_Injection
<1>12. Cardinality(gone) <= lost /\ Cardinality(gone) \in Nat /\ Cardinality(cut) \in Nat
  <2> HIDE DEF cut
  <2> QED
    BY <1>10, <1>11, FS_CardinalityType, Zenon DEF History
<1> QED
  <2> HIDE DEF cut
  <2> QED
    BY <1>1, <1>4, <1>11, <1>12

(* So by Hops hops after its publication every node has seen r: the k-th   *)
(* layer has more than k nodes.                                            *)
LEMMA AllReached ==
  ASSUME FloodInv, FloodSuffices, ~due,
         NEW at \in Times, NEW gone \in SUBSET Frame, History(at, gone),
         NEW r \in Record, publishedAt[r] >= 0, now >= publishedAt[r] + Hops * HopTime
  PROVE  Hops \in Nat /\ Layer(at, r, Hops) = Node
<1> DEFINE Size(k) == Cardinality(Layer(at, r, k))
           bad == {k \in 0 .. Hops : Size(k) < k + 1}
<1>0. SimTypes /\ Kept
  BY DEF FloodInv
<1>1. r.node \in Node /\ publishedAt[r] \in Nat /\ now \in Nat /\ HopTime \in Nat
  BY <1>0, SimulatorAssumption, HopTimes DEF SimTypes
<1>2. IsFiniteSet(Node) /\ Cardinality(Node) \in Nat /\ Cardinality(Node) # 0
  <2>1. IsFiniteSet(Node)
    BY SimulatorAssumption
  <2> QED
    BY <2>1, <1>1, FS_CardinalityType, FS_EmptySet
<1>3. Hops \in Nat /\ Cardinality(Node) = Hops + 1
  BY <1>2 DEF Hops
<1>4. \A k : Layer(at, r, k) \in SUBSET Node
  BY DEF Layer
<1>5. \A k : IsFiniteSet(Layer(at, r, k)) /\ Size(k) \in Nat /\ Size(k) <= Hops + 1
  <2> SUFFICES ASSUME NEW k
               PROVE  IsFiniteSet(Layer(at, r, k)) /\ Size(k) \in Nat /\ Size(k) <= Hops + 1
    OBVIOUS
  <2> QED
    BY <1>2, <1>3, <1>4, FS_Subset, FS_CardinalityType
<1>6. bad = {}
  <2> SUFFICES ASSUME bad # {} PROVE FALSE
    OBVIOUS
  <2>1. bad \subseteq Nat
    BY <1>3
  <2>2. PICK k \in bad : \A h \in bad : ~(<<h, k>> \in OpToRel(<, Nat))
    BY <2>1, NatLessThanWellFounded, WFMin, Zenon
  <2>3. \A h \in bad : ~(h < k)
    BY <2>1, <2>2, Zenon DEF OpToRel
  <2>4. k \in Nat /\ k <= Hops /\ Size(k) < k + 1
    BY <1>3
  <2>5. k # 0
    <3> SUFFICES ASSUME k = 0 PROVE FALSE
      OBVIOUS
    <3>1. r \in delivered[r.node] /\ at[r.node][r] = publishedAt[r]
      BY <1>0, Zenon DEF Kept, History
    <3>2. r.node \in Layer(at, r, 0)
      BY <3>1, <1>1 DEF Layer
    <3>3. Size(0) # 0
      BY <3>2, <1>5, FS_EmptySet
    <3> HIDE DEF Size
    <3> QED
      BY <3>3, <2>4, <1>5
  <2>6. PICK j \in Nat : k = j + 1
    <3>1. k - 1 \in Nat /\ k = (k - 1) + 1
      BY <2>4, <2>5
    <3> QED
      BY <3>1
  <2>7. Size(j) >= k
    <3>1. j \notin bad
      BY <2>3, <2>4, <2>6
    <3> HIDE DEF Size
    <3>2. j \in 0 .. Hops
      BY <2>4, <2>6, <1>3
    <3> QED
      BY <3>1, <3>2, <2>4, <2>6, <1>5
  <2>8. Layer(at, r, j) \subseteq Layer(at, r, k)
    <3>1. j * HopTime \in Nat /\ k * HopTime = j * HopTime + HopTime
      BY <2>6, <1>1
    <3>2. \A n \in Node : at[n][r] \in Nat
      BY DEF Times
    <3> QED
      BY <3>1, <3>2, <1>1 DEF Layer
  <2>9. Layer(at, r, j) # Node
    <3> SUFFICES ASSUME Layer(at, r, j) = Node PROVE FALSE
      OBVIOUS
    <3>1. Layer(at, r, k) = Node
      BY <2>8, <1>4, Zenon
    <3>2. Size(k) = Hops + 1
      BY <3>1, <1>3
    <3> HIDE DEF Size
    <3> QED
      BY <3>2, <2>4, <1>3
  <2>10. now >= publishedAt[r] + (j + 1) * HopTime
    <3>1. PICK i \in Nat : Hops = k + i
      <4>1. Hops - k \in Nat /\ Hops = k + (Hops - k)
        BY <2>4, <1>3
      <4> QED
        BY <4>1
    <3>2. Hops * HopTime = k * HopTime + i * HopTime /\ i * HopTime \in Nat /\ k * HopTime \in Nat
      BY <3>1, <2>4, <1>1
    <3> QED
      BY <3>2, <2>6, <1>1
  <2>11. PICK n \in Node : n \in Layer(at, r, k) /\ n \notin Layer(at, r, j)
    BY <2>6, <2>9, <2>10, LayerGrows
  <2>12. Cardinality(Layer(at, r, j) \cup {n}) = Size(j) + 1
    BY <2>11, <1>5, FS_AddElement, Zenon
  <2>13. Cardinality(Layer(at, r, j) \cup {n}) <= Size(k)
    <3>1. Layer(at, r, j) \cup {n} \in SUBSET Layer(at, r, k)
      BY <2>8, <2>11
    <3> QED
      BY <3>1, <1>5, FS_Subset
  <2> HIDE DEF Size
  <2> QED
    BY <2>4, <2>7, <2>12, <2>13, <1>5
<1>7. Size(Hops) = Hops + 1
  <2>1. ~(Size(Hops) < Hops + 1)
    BY <1>3, <1>6
  <2> HIDE DEF Size, bad
  <2> QED
    BY <2>1, <1>3, <1>5
<1> QED
  BY <1>2, <1>3, <1>4, <1>7, FS_Subset

(* After Hops hops the last layer is the whole graph. *)
LEMMA InvArrives == FloodInv => FloodArrives
<1> SUFFICES ASSUME FloodInv, FloodSuffices, ~due, NEW r \in Record, publishedAt[r] >= 0,
                    now >= publishedAt[r] + Hops * HopTime, NEW n \in Node
             PROVE  records[n][r.node] >= r.hlc
  BY DEF FloodArrives
<1>1. PICK at \in Times, gone \in SUBSET Frame : History(at, gone)
  BY DEF FloodInv
<1>2. n \in Layer(at, r, Hops)
  BY <1>1, AllReached
<1> QED
  BY <1>2, Zenon DEF Layer, FloodInv, Kept

(* One hop later every copy of the record has arrived or is lost. *)
LEMMA InvDiesOut == FloodInv => FloodDiesOut
<1> SUFFICES ASSUME FloodInv, FloodSuffices, ~due,
                    \A r \in Record : publishedAt[r] >= 0 =>
                      now >= publishedAt[r] + (Hops + 1) * HopTime
             PROVE  pendingFrames = {} /\ \A n \in Node : outbound[n] = {}
  BY DEF FloodDiesOut
<1>0. SimTypes /\ Timely /\ Kept
  BY DEF FloodInv
<1>1. PICK at \in Times, gone \in SUBSET Frame : History(at, gone)
  BY DEF FloodInv
<1>2. ASSUME NEW n \in Node, NEW r \in delivered[n]
      PROVE  at[n][r] \in Nat /\ HopTime \in Nat /\ now \in Nat /\ at[n][r] + HopTime <= now /\ at[n][r] # now
  <2>1. r \in Record /\ publishedAt[r] \in Int /\ publishedAt[r] >= 0
    BY <1>0 DEF Kept, SimTypes
  <2>2. /\ HopTime \in Nat /\ HopTime >= 2 /\ now \in Nat /\ Hops \in Int
        /\ now >= publishedAt[r] + (Hops + 1) * HopTime /\ at[n][r] \in Nat
    <3>1. IsFiniteSet(Node)
      BY SimulatorAssumption
    <3>2. Hops \in Int
      BY <3>1, FS_CardinalityType DEF Hops
    <3> QED
      BY <3>2, <2>1, <1>0, SimulatorAssumption, HopTimes DEF SimTypes, Times
  <2>3. Hops * HopTime \in Int /\ (Hops + 1) * HopTime = Hops * HopTime + HopTime
    BY <2>2
  <2>4. now >= publishedAt[r] + Hops * HopTime
    BY <2>1, <2>2, <2>3
  <2>5. n \in Layer(at, r, Hops)
    BY <2>1, <2>4, <1>1, AllReached
  <2>6. at[n][r] <= publishedAt[r] + Hops * HopTime
    BY <2>5 DEF Layer
  <2> QED
    BY <2>1, <2>2, <2>3, <2>6
<1>3. ASSUME NEW p \in pendingFrames
      PROVE  FALSE
  <2>1. /\ p.frame.from \in Node /\ p.frame.body \in delivered[p.frame.from]
        /\ p.deliveryAt <= at[p.frame.from][p.frame.body] + HopTime
    BY <1>0, <1>1, Zenon DEF History, SimTypes, Frame
  <2>2. p.deliveryAt \in Nat /\ p.deliveryAt >= now /\ p.deliveryAt # now
    BY <1>0, Zenon DEF Timely, SimTypes
  <2> QED
    BY <2>1, <2>2, <1>2
<1>4. ASSUME NEW n \in Node, NEW f \in outbound[n]
      PROVE  FALSE
  <2>1. f.body \in delivered[n] /\ at[n][f.body] = now
    BY <1>1, Zenon DEF History
  <2> QED
    BY <2>1, <1>2
<1> QED
  BY <1>3, <1>4

(* In every state of the simulator, whatever is published, lost and        *)
(* delayed, some history of first sights and losses explains who has what. *)
THEOREM SimulatorSafe == SimSpec => []FloodInv
BY InitFloodInv, NextFloodInv, PTL DEF SimSpec

(* Ticks, deliveries and publications keep the simulator's records,        *)
(* queues, heap and clock within their types.                              *)
THEOREM SimulatorTypes == SimSpec => []SimTypeOK
<1>1. FloodInv => SimTypeOK
  <2> SUFFICES ASSUME FloodInv PROVE SimTypeOK
    OBVIOUS
  <2>1. SimTypes /\ Timely
    BY DEF FloodInv
  <2>2. \A n \in Node : outbound[n] \subseteq Frame /\ delivered[n] \subseteq Record
    BY <2>1 DEF SimTypes
  <2>3. \A p \in pendingFrames : p.frame \in Frame
    BY <2>1 DEF SimTypes
  <2> QED
    BY <2>1, <2>2, <2>3, Zenon DEF SimTypes, Timely, SimTypeOK
<1> QED
  BY <1>1, SimulatorSafe, PTL

(* On every graph whose cuts all have more edges than frames can be lost,  *)
(* and for every latency and jitter, each node holds a published record,   *)
(* or a newer one of its publisher, once Hops hops have passed.            *)
THEOREM FloodAlwaysArrives == SimSpec => []FloodArrives
BY SimulatorSafe, InvArrives, PTL

(* There, a hop after the last publication has arrived everywhere, no copy *)
(* is queued or in flight: the duplicate check of Receive ends the flood.  *)
THEOREM FloodAlwaysDiesOut == SimSpec => []FloodDiesOut
BY SimulatorSafe, InvDiesOut, PTL

-------------------------------------------------------------------------------
(***************************************************************************)
(* Channels, pending entries and verified bytes of the fetch RPC, for any  *)
(* number of concurrent calls, delivering goroutines, channels, hashes and *)
(* holders, whatever is delayed, repeated or lost.                         *)
(*                                                                         *)
(* The inductive invariant says at which stage of a call it owns a channel *)
(* and may have an answer, and that ownership is exclusive.  It needs no   *)
(* bound on request ids: MaxReq only keeps the model finite.               *)
(***************************************************************************)

Answer == [id : Nat, body : Body] \cup {Nothing}

AnyCall ==
  [pc : {"idle", "choose", "await", "unregister", "drain", "judge", "done"},
   hash : Hash \cup {Nothing}, todo : SUBSET Holder, id : Nat,
   ch : Chan \cup {Nothing}, answer : Answer,
   last : {"none", "ok", "mismatch", "refused", "send", "ctx"}, expired : BOOLEAN]

Shape ==
  /\ call \in [Fetcher -> AnyCall] /\ reqCount \in Nat
  /\ pending \in [ReqID -> Chan \cup {Nothing}]
  /\ chan \in [Chan -> Answer]
  /\ pool \subseteq Chan
  /\ \A q \in requests : q.id \in Nat
  /\ responses \subseteq [id : Nat, body : Body]
  /\ DOMAIN routed = Handler
  /\ \A h \in Handler : routed[h] # Nothing => routed[h].answer \in Answer

Owning == {"await", "unregister", "drain"}

(* A call owns a channel from the request to the cleanup; a channel is     *)
(* owned by one call or pooled, never both.                                *)
HeldMeanwhile == \A f \in Fetcher : call[f].ch # Nothing <=> call[f].pc \in Owning
NonePooled    == \A f \in Fetcher : call[f].ch \notin pool
OneOwner      == \A f, g \in Fetcher : call[f].ch = call[g].ch /\ call[f].ch # Nothing => f = g
NoneLost      == \A c \in Chan : c \in pool \/ \E f \in Fetcher : call[f].ch = c
Owned == HeldMeanwhile /\ NonePooled /\ OneOwner /\ NoneLost

Registered ==
  \A i \in ReqID : pending[i] # Nothing =>
    \E f \in Fetcher : /\ call[f].id = i /\ call[f].ch = pending[i]
                       /\ call[f].pc \in {"await", "unregister"}

NoAnswerYet == \A f \in Fetcher : call[f].pc = "choose" => call[f].answer = Nothing

FetchInv == Shape /\ Owned /\ Registered /\ NoAnswerYet /\ BytesVerify

(* No answer is told apart from a channel and from bytes. *)
LEMMA NothingApart == Nothing \notin Chan /\ Nothing \notin Body
BY FetchAssumption DEF Body

(* A Fetch has not started. *)
LEMMA InitFetchInv == FetchInit => FetchInv
<1> SUFFICES ASSUME FetchInit PROVE FetchInv
  OBVIOUS
<1>1. Idle \in AnyCall
  BY Zenon DEF Idle, AnyCall, Answer
<1>2. Shape
  BY <1>1, Zenon DEF FetchInit, Shape, Answer
<1>3. Owned /\ Registered /\ NoAnswerYet /\ BytesVerify
  BY NothingApart, Zenon
  DEF FetchInit, Owned, HeldMeanwhile, NonePooled, OneOwner, NoneLost, Registered, NoAnswerYet, BytesVerify,
      Idle, Owning
<1> QED
  BY <1>2, <1>3 DEF FetchInv

(* Calls that keep their channels keep the division of the channels.       *)
LEMMA SameOwners ==
  ASSUME Owned, pool' = pool, \A g \in Fetcher : call'[g].ch = call[g].ch
  PROVE  NonePooled' /\ OneOwner' /\ NoneLost'
<1>1. NonePooled'
  BY Zenon DEF Owned, NonePooled
<1>2. OneOwner'
  <2> SUFFICES ASSUME NEW g \in Fetcher, NEW h \in Fetcher,
                      call'[g].ch = call'[h].ch, call'[g].ch # Nothing
               PROVE  g = h
    BY Zenon DEF OneOwner
  <2> QED
    BY Zenon DEF Owned, OneOwner
<1>3. NoneLost'
  BY Zenon DEF Owned, NoneLost
<1> QED
  BY <1>1, <1>2, <1>3, Zenon

(* A step of call f that keeps its channel and leaves pending and the pool *)
(* alone.                                                                  *)
LEMMA PrivateStep ==
  ASSUME FetchInv, NEW f \in Fetcher, NEW c \in AnyCall,
         call' = [call EXCEPT ![f] = c],
         UNCHANGED <<reqCount, pending, pool, net, routed>>, chan' \in [Chan -> Answer],
         c.ch = call[f].ch, c.ch # Nothing <=> c.pc \in Owning,
         call[f].pc \in {"await", "unregister"} => c.id = call[f].id /\ c.pc \in {"await", "unregister"},
         c.pc = "choose" => c.answer = Nothing,
         c.pc = "done" /\ c.last = "ok" /\ c.answer # Nothing => c.answer.body = c.hash
  PROVE  FetchInv'
<1>1. call \in [Fetcher -> AnyCall] /\ \A g \in Fetcher : call'[g] = IF g = f THEN c ELSE call[g]
  BY Zenon DEF FetchInv, Shape
<1>2. Shape'
  BY Zenon DEF FetchInv, Shape, net
<1>3. Owned'
  <2>1. \A g \in Fetcher : call'[g].ch = call[g].ch
    BY <1>1, Zenon
  <2>2. HeldMeanwhile'
    BY <1>1, Zenon DEF FetchInv, Owned, HeldMeanwhile
  <2> QED
    BY <2>1, <2>2, SameOwners, Zenon DEF FetchInv, Owned
<1>4. Registered'
  <2> SUFFICES ASSUME NEW i \in ReqID, pending'[i] # Nothing
               PROVE  \E g \in Fetcher : /\ call'[g].id = i /\ call'[g].ch = pending'[i]
                                         /\ call'[g].pc \in {"await", "unregister"}
    BY Zenon DEF Registered
  <2>1. PICK g \in Fetcher : /\ call[g].id = i /\ call[g].ch = pending[i]
                            /\ call[g].pc \in {"await", "unregister"}
    BY Zenon DEF FetchInv, Registered
  <2>2. CASE g = f
    BY <1>1, <2>1, <2>2, Zenon
  <2>3. CASE g # f
    BY <1>1, <2>1, <2>3, Zenon
  <2> QED
    BY <2>2, <2>3, Zenon
<1>5. NoAnswerYet' /\ BytesVerify'
  BY <1>1, Zenon DEF FetchInv, NoAnswerYet, BytesVerify
<1> QED
  BY <1>2, <1>3, <1>4, <1>5, Zenon DEF FetchInv

(* The steps of a call that fit PrivateStep. *)
LEMMA CallKeeps ==
  ASSUME FetchInv, NEW f \in Fetcher,
         \/ \E hash \in Hash, hs \in SUBSET Holder : Fetch(f, hash, hs)
         \/ Deadline(f) \/ \E found \in BOOLEAN : LocalRead(f, found)
         \/ ReceiveAnswer(f) \/ TimeOut(f) \/ Judge(f) \/ Exhausted(f) \/ Return(f)
  PROVE  FetchInv'
<1>1. /\ call \in [Fetcher -> AnyCall] /\ call[f] \in AnyCall /\ chan \in [Chan -> Answer]
      /\ call[f].ch # Nothing <=> call[f].pc \in Owning
      /\ call[f].pc = "choose" => call[f].answer = Nothing
      /\ call[f].pc = "done" /\ call[f].last = "ok" /\ call[f].answer # Nothing
           => call[f].answer.body = call[f].hash
  BY Zenon DEF FetchInv, Shape, Owned, HeldMeanwhile, NoAnswerYet, BytesVerify
<1>2. Idle \in AnyCall /\ Idle.ch = Nothing /\ Idle.pc = "idle" /\ Idle.answer = Nothing
  BY Zenon DEF Idle, AnyCall, Answer
<1>3. ASSUME NEW hash \in Hash, NEW hs \in SUBSET Holder, Fetch(f, hash, hs) PROVE FetchInv'
  <2> DEFINE c == [Idle EXCEPT !.pc = IF hs = {} THEN "done" ELSE "choose", !.hash = hash, !.todo = hs]
  <2>1. /\ c \in AnyCall /\ c.ch = Nothing /\ c.answer = Nothing /\ c.pc \in {"done", "choose"}
    BY Zenon DEF Idle, AnyCall, Answer
  <2>2. call' = [call EXCEPT ![f] = c] /\ call[f].pc = "idle"
    BY <1>3, Zenon DEF Fetch, At
  <2> HIDE DEF c
  <2>3. UNCHANGED <<reqCount, pending, chan, pool, net, routed>>
    BY <1>3, Zenon DEF Fetch
  <2> QED
    BY <1>1, <2>1, <2>2, <2>3, PrivateStep, Zenon DEF Owning
<1>4. CASE Deadline(f)
  <2> DEFINE c == [call[f] EXCEPT !.expired = TRUE]
  <2>1. /\ c \in AnyCall /\ c.ch = call[f].ch /\ c.answer = call[f].answer /\ c.pc = call[f].pc
        /\ c.id = call[f].id /\ c.last = call[f].last /\ c.hash = call[f].hash
    BY <1>1, Zenon DEF AnyCall
  <2>2. call' = [call EXCEPT ![f] = c] /\ UNCHANGED <<reqCount, pending, chan, pool, net, routed>>
    BY <1>4 DEF Deadline
  <2> HIDE DEF c
  <2> QED
    BY <1>1, <2>1, <2>2, PrivateStep, Zenon
<1>5. ASSUME NEW found \in BOOLEAN, LocalRead(f, found) PROVE FetchInv'
  <2> DEFINE c == IF found THEN [call[f] EXCEPT !.pc = "done", !.last = "ok"]
                  ELSE [call[f] EXCEPT !.todo = @ \ {Self}]
  <2>1. call[f].pc = "choose"
    BY <1>5 DEF LocalRead, At
  <2>2. c \in AnyCall /\ c.ch = call[f].ch /\ c.answer = call[f].answer /\ c.pc \in {"done", "choose"}
    BY <1>1, <2>1, Zenon DEF AnyCall
  <2>3. call' = [call EXCEPT ![f] = c] /\ UNCHANGED <<reqCount, pending, chan, pool, net, routed>>
    BY <1>5, Zenon DEF LocalRead, Finish
  <2> HIDE DEF c
  <2> QED
    BY <1>1, <2>1, <2>2, <2>3, PrivateStep, Zenon DEF Owning
<1>6. CASE ReceiveAnswer(f)
  <2> DEFINE c == [call[f] EXCEPT !.pc = "unregister", !.answer = chan[call[f].ch]]
  <2>1. call[f].pc = "await" /\ call[f].ch \in Chan
    BY <1>1, <1>6 DEF ReceiveAnswer, At, AnyCall, Owning
  <2>2. c \in AnyCall /\ c.ch = call[f].ch /\ c.id = call[f].id /\ c.pc = "unregister"
    BY <1>1, <2>1, Zenon DEF AnyCall
  <2>3. call' = [call EXCEPT ![f] = c] /\ UNCHANGED <<reqCount, pending, pool, net, routed>>
    BY <1>6, Zenon DEF ReceiveAnswer
  <2>4. chan' \in [Chan -> Answer]
    BY <1>1, <1>6, Zenon DEF ReceiveAnswer, Answer
  <2> HIDE DEF c
  <2> QED
    BY <1>1, <2>1, <2>2, <2>3, <2>4, PrivateStep, Zenon DEF Owning
<1>7. CASE TimeOut(f)
  <2> DEFINE c == [call[f] EXCEPT !.pc = "unregister", !.last = "ctx"]
  <2>1. call[f].pc = "await"
    BY <1>7 DEF TimeOut, At
  <2>2. c \in AnyCall /\ c.ch = call[f].ch /\ c.id = call[f].id /\ c.pc = "unregister"
    BY <1>1, Zenon DEF AnyCall
  <2>3. call' = [call EXCEPT ![f] = c] /\ UNCHANGED <<reqCount, pending, chan, pool, net, routed>>
    BY <1>7, Zenon DEF TimeOut
  <2> HIDE DEF c
  <2> QED
    BY <1>1, <2>1, <2>2, <2>3, PrivateStep, Zenon DEF Owning
<1>8. CASE Judge(f)
  <2> DEFINE out == Outcome(call[f])
             c == IF out = "ok" \/ call[f].expired
                  THEN [call[f] EXCEPT !.pc = "done", !.last = IF out = "ok" THEN "ok" ELSE "ctx"]
                  ELSE [call[f] EXCEPT !.pc = "choose", !.last = out, !.id = 0, !.answer = Nothing]
  <2>1. call[f].pc = "judge"
    BY <1>8 DEF Judge, At
  <2>2. /\ out \in {"none", "ok", "mismatch", "refused", "send", "ctx"}
        /\ out = "ok" /\ call[f].answer # Nothing => call[f].answer.body = call[f].hash
    BY <1>1 DEF Outcome, AnyCall
  <2>3. call' = [call EXCEPT ![f] = c] /\ UNCHANGED <<reqCount, pending, chan, pool, net, routed>>
    BY <1>8, Zenon DEF Judge, Finish
  <2> HIDE DEF out
  <2>4. /\ c \in AnyCall /\ c.ch = call[f].ch /\ c.hash = call[f].hash /\ c.pc \in {"done", "choose"}
        /\ c.pc = "choose" => c.answer = Nothing
        /\ c.pc = "done" /\ c.last = "ok" => out = "ok" /\ c.answer = call[f].answer
    <3>1. CASE out = "ok"
      <4>1. c = [call[f] EXCEPT !.pc = "done", !.last = "ok"]
        BY <3>1
      <4> QED
        BY <1>1, <3>1, <4>1, Zenon DEF AnyCall
    <3>2. CASE out # "ok" /\ call[f].expired
      <4>1. c = [call[f] EXCEPT !.pc = "done", !.last = "ctx"]
        BY <3>2
      <4> QED
        BY <1>1, <4>1, Zenon DEF AnyCall
    <3>3. CASE out # "ok" /\ ~call[f].expired
      <4>1. c = [call[f] EXCEPT !.pc = "choose", !.last = out, !.id = 0, !.answer = Nothing]
        BY <3>3
      <4> HIDE DEF c
      <4>2. c \in AnyCall
        BY <1>1, <2>2, <4>1, Zenon DEF AnyCall, Answer
      <4>3. c.ch = call[f].ch /\ c.hash = call[f].hash /\ c.pc = "choose" /\ c.answer = Nothing
        BY <1>1, <4>1 DEF AnyCall
      <4> QED
        BY <4>2, <4>3, Zenon
    <3> QED
      BY <3>1, <3>2, <3>3
  <2> HIDE DEF c
  <2> QED
    BY <1>1, <2>1, <2>2, <2>3, <2>4, PrivateStep, Zenon DEF Owning
<1>9. CASE Exhausted(f)
  <2> DEFINE c == [call[f] EXCEPT !.pc = "done", !.last = call[f].last]
  <2>1. call[f].pc = "choose"
    BY <1>9, Zenon DEF Exhausted, At
  <2>2. c \in AnyCall /\ c.ch = call[f].ch /\ c.answer = call[f].answer /\ c.pc = "done"
    BY <1>1, Zenon DEF AnyCall
  <2>3. call' = [call EXCEPT ![f] = c] /\ UNCHANGED <<reqCount, pending, chan, pool, net, routed>>
    BY <1>9, Zenon DEF Exhausted, Finish
  <2> HIDE DEF c
  <2> QED
    BY <1>1, <2>1, <2>2, <2>3, PrivateStep, Zenon DEF Owning
<1>10. CASE Return(f)
  <2>1. call[f].pc = "done" /\ call' = [call EXCEPT ![f] = Idle]
    BY <1>10 DEF Return, At
  <2>2. UNCHANGED <<reqCount, pending, chan, pool, net, routed>>
    BY <1>10 DEF Return
  <2> QED
    BY <1>1, <1>2, <2>1, <2>2, PrivateStep, Zenon DEF Owning
<1> QED
  BY <1>3, <1>4, <1>5, <1>6, <1>7, <1>8, <1>9, <1>10

(* A channel leaves the pool for one call, under one pending entry. *)
LEMMA RequestKeeps ==
  ASSUME FetchInv, NEW f \in Fetcher, NEW n \in Holder, NEW c \in Chan, NEW accepted \in BOOLEAN,
         requestFromHolder(f, n, c, accepted)
  PROVE  FetchInv'
<1> DEFINE new == [call[f] EXCEPT !.todo = @ \ {n}, !.id = NextID, !.ch = c, !.answer = Nothing,
                                  !.pc = IF accepted THEN "await" ELSE "unregister",
                                  !.last = IF accepted THEN "none" ELSE "send"]
<1>1. /\ call \in [Fetcher -> AnyCall] /\ call[f] \in AnyCall /\ reqCount \in Nat
      /\ pending \in [ReqID -> Chan \cup {Nothing}] /\ NextID \in Nat
  BY DEF FetchInv, Shape, NextID
<1>2. /\ call[f].pc = "choose" /\ c \in pool /\ pool' = pool \ {c} /\ reqCount' = reqCount + 1
      /\ pending' = [pending EXCEPT ![NextID] = c] /\ call' = [call EXCEPT ![f] = new]
      /\ UNCHANGED <<chan, responses, routed>>
  <2>1. call' = [call EXCEPT ![f] = new]
    BY DEF requestFromHolder
  <2> QED
    BY <2>1 DEF requestFromHolder, At
<1>3. /\ new \in AnyCall /\ new.id = NextID /\ new.ch = c
      /\ new.pc \in {"await", "unregister"}
  BY <1>1, Zenon DEF AnyCall, Answer
<1> HIDE DEF new
<1>4. \A g \in Fetcher : call'[g] = IF g = f THEN new ELSE call[g]
  BY <1>1, <1>2
<1>5. Shape'
  <2>1. \A q \in requests' : q.id \in Nat
    <3>1. requests' \subseteq requests \cup {[id |-> NextID, to |-> n, hash |-> call[f].hash]}
      BY Zenon DEF requestFromHolder
    <3>2. \A q \in requests : q.id \in Nat
      BY Zenon DEF FetchInv, Shape
    <3> QED
      BY <1>1, <3>1, <3>2
  <2>2. call' \in [Fetcher -> AnyCall]
    BY <1>1, <1>2, <1>3
  <2>3. pending' \in [ReqID -> Chan \cup {Nothing}]
    BY <1>1, <1>2, Zenon
  <2> QED
    <3>1. reqCount' \in Nat
      BY <1>1, <1>2
    <3>2. pool' \subseteq Chan
      BY <1>2, Zenon DEF FetchInv, Shape
    <3> QED
      BY <1>2, <2>1, <2>2, <2>3, <3>1, <3>2, Zenon DEF FetchInv, Shape
<1>6. Owned'
  <2>1. HeldMeanwhile'
    <3>1. c # Nothing /\ new.pc \in Owning
      BY <1>3, NothingApart, Zenon DEF Owning
    <3> QED
      BY <1>3, <1>4, <3>1, Zenon DEF FetchInv, Owned, HeldMeanwhile
  <2>2. \A g \in Fetcher : g # f => call'[g].ch = call[g].ch /\ call[g].ch # c
    BY <1>2, <1>4, Zenon DEF FetchInv, Owned, NonePooled
  <2>3. call'[f].ch = c /\ call[f].ch = Nothing
    BY <1>2, <1>3, <1>4, Zenon DEF FetchInv, Owned, HeldMeanwhile, Owning
  <2>4. NonePooled'
    <3> SUFFICES ASSUME NEW g \in Fetcher PROVE call'[g].ch \notin pool'
      BY Zenon DEF NonePooled
    <3>1. c \notin pool' /\ \A d \in pool' : d \in pool
      BY <1>2
    <3>2. call[g].ch \notin pool
      BY Zenon DEF FetchInv, Owned, NonePooled
    <3>3. CASE g = f
      BY <3>1, <3>3, <2>3, Zenon
    <3>4. CASE g # f
      BY <3>1, <3>2, <3>4, <2>2, Zenon
    <3> QED
      BY <3>3, <3>4, Zenon
  <2>5. OneOwner'
    <3> SUFFICES ASSUME NEW g \in Fetcher, NEW h \in Fetcher,
                        call'[g].ch = call'[h].ch, call'[g].ch # Nothing
                 PROVE  g = h
      BY Zenon DEF OneOwner
    <3>1. CASE g = f \/ h = f
      BY <3>1, <2>2, <2>3, Zenon
    <3>2. CASE g # f /\ h # f
      BY <3>2, <2>2, Zenon DEF FetchInv, Owned, OneOwner
    <3> QED
      BY <3>1, <3>2, Zenon
  <2>6. NoneLost'
    <3> SUFFICES ASSUME NEW d \in Chan, d \notin pool'
                 PROVE  \E g \in Fetcher : call'[g].ch = d
      BY Zenon DEF NoneLost
    <3>1. CASE d = c
      BY <3>1, <2>3, Zenon
    <3>2. CASE d # c
      <4>1. PICK g \in Fetcher : call[g].ch = d
        BY <3>2, <1>2, Zenon DEF FetchInv, Owned, NoneLost
      <4>2. g # f
        BY <4>1, <2>3, NothingApart, Zenon
      <4> QED
        BY <4>1, <4>2, <2>2, Zenon
    <3> QED
      BY <3>1, <3>2, Zenon
  <2> QED
    BY <2>1, <2>4, <2>5, <2>6, Zenon DEF Owned
<1>7. Registered'
  <2> SUFFICES ASSUME NEW i \in ReqID, pending'[i] # Nothing
               PROVE  \E g \in Fetcher : /\ call'[g].id = i /\ call'[g].ch = pending'[i]
                                         /\ call'[g].pc \in {"await", "unregister"}
    BY DEF Registered
  <2>1. CASE i = NextID
    BY <1>1, <1>2, <1>3, <1>4, <2>1
  <2>2. CASE i # NextID
    <3>1. pending'[i] = pending[i]
      BY <1>1, <1>2, <2>2
    <3>2. PICK g \in Fetcher : /\ call[g].id = i /\ call[g].ch = pending[i]
                              /\ call[g].pc \in {"await", "unregister"}
      BY <3>1, Zenon DEF FetchInv, Registered
    <3>3. g # f
      BY <1>2, <3>2
    <3> QED
      BY <1>4, <3>1, <3>2, <3>3, Zenon
  <2> QED
    BY <2>1, <2>2, Zenon
<1>8. NoAnswerYet' /\ BytesVerify'
  BY <1>3, <1>4, Zenon DEF FetchInv, NoAnswerYet, BytesVerify
<1> QED
  BY <1>5, <1>6, <1>7, <1>8 DEF FetchInv

(* The cleanup: the entry goes first ... *)
LEMMA UnregisterKeeps ==
  ASSUME FetchInv, NEW f \in Fetcher, Unregister(f)
  PROVE  FetchInv'
<1> DEFINE new == [call[f] EXCEPT !.pc = "drain"]
<1>1. /\ call \in [Fetcher -> AnyCall] /\ call[f] \in AnyCall
      /\ pending \in [ReqID -> Chan \cup {Nothing}]
  BY DEF FetchInv, Shape
<1>2. /\ call[f].pc = "unregister" /\ call' = [call EXCEPT ![f] = new]
      /\ pending' = [pending EXCEPT ![call[f].id] = Nothing]
      /\ UNCHANGED <<reqCount, chan, pool, net, routed>>
  BY DEF Unregister, At
<1>3. new \in AnyCall /\ new.ch = call[f].ch /\ new.pc = "drain"
  BY <1>1 DEF AnyCall
<1> HIDE DEF new
<1>4. \A g \in Fetcher : call'[g] = IF g = f THEN new ELSE call[g]
  BY <1>1, <1>2
<1>5. Shape'
  BY <1>1, <1>2, <1>3, Zenon DEF FetchInv, Shape, net
<1>6. Owned'
  <2>1. \A g \in Fetcher : call'[g].ch = call[g].ch
    BY <1>3, <1>4, Zenon
  <2>2. call[f].ch # Nothing /\ new.pc \in Owning
    BY <1>2, <1>3, Zenon DEF FetchInv, Owned, HeldMeanwhile, Owning
  <2>3. HeldMeanwhile'
    BY <1>3, <1>4, <2>2, Zenon DEF FetchInv, Owned, HeldMeanwhile
  <2> QED
    BY <1>2, <2>1, <2>3, SameOwners, Zenon DEF FetchInv, Owned
<1>7. Registered'
  <2> SUFFICES ASSUME NEW i \in ReqID, pending'[i] # Nothing
               PROVE  \E g \in Fetcher : /\ call'[g].id = i /\ call'[g].ch = pending'[i]
                                         /\ call'[g].pc \in {"await", "unregister"}
    BY Zenon DEF Registered
  <2>1. i # call[f].id /\ pending'[i] = pending[i]
    BY <1>1, <1>2, Zenon
  <2>2. PICK g \in Fetcher : /\ call[g].id = i /\ call[g].ch = pending[i]
                            /\ call[g].pc \in {"await", "unregister"}
    BY <2>1, Zenon DEF FetchInv, Registered
  <2>3. g # f
    BY <2>1, <2>2, Zenon
  <2> QED
    BY <1>4, <2>1, <2>2, <2>3, Zenon
<1>8. NoAnswerYet' /\ BytesVerify'
  BY <1>3, <1>4, Zenon DEF FetchInv, NoAnswerYet, BytesVerify
<1> QED
  BY <1>5, <1>6, <1>7, <1>8 DEF FetchInv

(* ... then the channel goes back to the pool. *)
LEMMA DrainKeeps ==
  ASSUME FetchInv, NEW f \in Fetcher, DrainAndPool(f)
  PROVE  FetchInv'
<1> DEFINE new == [call[f] EXCEPT !.pc = "judge", !.ch = Nothing]
<1>1. call \in [Fetcher -> AnyCall] /\ call[f] \in AnyCall
  BY DEF FetchInv, Shape
<1>2. /\ call[f].pc = "drain" /\ call' = [call EXCEPT ![f] = new]
      /\ pool' = pool \cup {call[f].ch} /\ chan' = [chan EXCEPT ![call[f].ch] = Nothing]
      /\ UNCHANGED <<reqCount, pending, net, routed>>
  BY Zenon DEF DrainAndPool, At
<1>3. new \in AnyCall /\ new.ch = Nothing /\ new.pc = "judge"
  BY <1>1, Zenon DEF AnyCall
<1> HIDE DEF new
<1>4. \A g \in Fetcher : call'[g] = IF g = f THEN new ELSE call[g]
  BY <1>1, <1>2
<1>5. call[f].ch \in Chan
  BY <1>1, <1>2 DEF FetchInv, Owned, HeldMeanwhile, Owning, AnyCall
<1>6. Shape'
  BY <1>1, <1>2, <1>3, <1>5, Zenon DEF FetchInv, Shape, net, Answer
<1>7. Owned'
  <2>1. HeldMeanwhile'
    <3>1. new.pc \notin Owning
      BY <1>3 DEF Owning
    <3> QED
      BY <1>3, <1>4, <3>1, Zenon DEF FetchInv, Owned, HeldMeanwhile
  <2>2. \A g \in Fetcher : g # f => call'[g].ch = call[g].ch /\ call[g].ch # call[f].ch
    BY <1>4, <1>5, NothingApart, Zenon DEF FetchInv, Owned, OneOwner
  <2>3. call'[f].ch = Nothing /\ Nothing \notin pool'
    <3>1. Nothing \notin pool
      BY NothingApart, Zenon DEF FetchInv, Shape
    <3> QED
      BY <3>1, <1>2, <1>3, <1>4, <1>5, NothingApart, Zenon
  <2>4. NonePooled'
    <3> SUFFICES ASSUME NEW g \in Fetcher PROVE call'[g].ch \notin pool'
      BY Zenon DEF NonePooled
    <3>1. \A d \in pool' : d \in pool \/ d = call[f].ch
      BY <1>2, Zenon
    <3>2. call[g].ch \notin pool
      BY Zenon DEF FetchInv, Owned, NonePooled
    <3>3. CASE g = f
      BY <3>3, <2>3, Zenon
    <3>4. CASE g # f
      BY <3>1, <3>2, <3>4, <2>2, Zenon
    <3> QED
      BY <3>3, <3>4, Zenon
  <2>5. OneOwner'
    <3> SUFFICES ASSUME NEW g \in Fetcher, NEW h \in Fetcher,
                        call'[g].ch = call'[h].ch, call'[g].ch # Nothing
                 PROVE  g = h
      BY Zenon DEF OneOwner
    <3>1. g # f /\ h # f
      BY <2>3, Zenon
    <3> QED
      BY <3>1, <2>2, Zenon DEF FetchInv, Owned, OneOwner
  <2>6. NoneLost'
    <3> SUFFICES ASSUME NEW d \in Chan, d \notin pool'
                 PROVE  \E g \in Fetcher : call'[g].ch = d
      BY Zenon DEF NoneLost
    <3>1. PICK g \in Fetcher : call[g].ch = d
      BY <1>2, Zenon DEF FetchInv, Owned, NoneLost
    <3>2. g # f
      BY <3>1, <1>2, Zenon
    <3> QED
      BY <3>1, <3>2, <2>2, Zenon
  <2> QED
    BY <2>1, <2>4, <2>5, <2>6, Zenon DEF Owned
<1>8. Registered'
  <2> SUFFICES ASSUME NEW i \in ReqID, pending'[i] # Nothing
               PROVE  \E g \in Fetcher : /\ call'[g].id = i /\ call'[g].ch = pending'[i]
                                         /\ call'[g].pc \in {"await", "unregister"}
    BY Zenon DEF Registered
  <2>1. PICK g \in Fetcher : /\ call[g].id = i /\ call[g].ch = pending[i]
                            /\ call[g].pc \in {"await", "unregister"}
    BY <1>2, Zenon DEF FetchInv, Registered
  <2>2. g # f
    BY <1>2, <2>1, Zenon
  <2> QED
    BY <1>2, <1>4, <2>1, <2>2, Zenon
<1>9. NoAnswerYet' /\ BytesVerify'
  BY <1>3, <1>4, Zenon DEF FetchInv, NoAnswerYet, BytesVerify
<1> QED
  BY <1>6, <1>7, <1>8, <1>9 DEF FetchInv

(* The transport and its handlers touch no call, no entry and no pool. *)
LEMMA NetworkKeeps ==
  ASSUME FetchInv,
         \/ \E q \in requests, body \in Body : handleFetchRequest(q, body)
         \/ \E h \in Handler : Deposit(h)
         \/ \E h \in Handler, r \in responses, again \in BOOLEAN : LookUp(h, r, again)
  PROVE  FetchInv'
<1>1. UNCHANGED <<call, reqCount, pending, pool>>
  BY Zenon DEF handleFetchRequest, Deposit, LookUp
<1>2. Owned' /\ Registered' /\ NoAnswerYet' /\ BytesVerify'
  BY <1>1, Zenon
  DEF FetchInv, Owned, HeldMeanwhile, NonePooled, OneOwner, NoneLost, Registered, NoAnswerYet, BytesVerify
<1>3. ASSUME NEW q \in requests, NEW body \in Body, handleFetchRequest(q, body) PROVE Shape'
  <2>1. \A p \in requests' : p.id \in Nat
    BY <1>3, Zenon DEF FetchInv, Shape, handleFetchRequest
  <2>2. responses' \subseteq [id : Nat, body : Body]
    <3>1. responses \subseteq [id : Nat, body : Body] /\ q.id \in Nat
      BY Zenon DEF FetchInv, Shape
    <3>2. [id |-> q.id, body |-> body] \in [id : Nat, body : Body]
      BY <3>1, Zenon
    <3> QED
      BY <1>3, <3>1, <3>2, Zenon DEF handleFetchRequest
  <2>3. UNCHANGED <<chan, routed>>
    BY <1>3, Zenon DEF handleFetchRequest
  <2> QED
    BY <1>1, <2>1, <2>2, <2>3, Zenon DEF FetchInv, Shape
<1>4. ASSUME NEW h \in Handler, Deposit(h) PROVE Shape'
  <2>1. chan' \in [Chan -> Answer]
    BY <1>4, Zenon DEF FetchInv, Shape, Deposit
  <2> QED
    BY <1>1, <1>4, <2>1, Zenon DEF FetchInv, Shape, Deposit, net
<1>5. ASSUME NEW h \in Handler, NEW r \in responses, NEW again \in BOOLEAN, LookUp(h, r, again)
      PROVE  Shape'
  <2>1. r \in Answer
    BY Zenon DEF FetchInv, Shape, Answer
  <2>2. DOMAIN routed' = Handler
        /\ \A g \in Handler : routed'[g] # Nothing => routed'[g].answer \in Answer
    BY <1>5, <2>1, Zenon DEF FetchInv, Shape, LookUp
  <2> QED
    BY <1>1, <1>5, <2>2, Zenon DEF FetchInv, Shape, LookUp
<1> QED
  BY <1>2, <1>3, <1>4, <1>5 DEF FetchInv

(* FetchInv is inductive. *)
LEMMA NextFetchInv == FetchInv /\ [FetchNext]_fetchVars => FetchInv'
<1> SUFFICES ASSUME FetchInv, [FetchNext]_fetchVars PROVE FetchInv'
  OBVIOUS
<1>1. CASE UNCHANGED fetchVars
  BY <1>1, Zenon
  DEF fetchVars, net, FetchInv, Shape, Owned, HeldMeanwhile, NonePooled, OneOwner, NoneLost, Registered,
      NoAnswerYet, BytesVerify
<1> QED
  BY <1>1, CallKeeps, RequestKeeps, UnregisterKeeps, DrainKeeps, NetworkKeeps
     DEF FetchNext, Asking, Finishing

(* Exclusive ownership, counted. *)
LEMMA OwnersCounted == FetchInv => ChannelHasOneOwner
<1> SUFFICES ASSUME FetchInv, NEW c \in Chan
             PROVE  Cardinality({f \in Fetcher : call[f].ch = c}) = (IF c \in pool THEN 0 ELSE 1)
  BY Zenon DEF FetchInv, Registered, ChannelHasOneOwner
<1>1. CASE c \in pool
  <2>1. {f \in Fetcher : call[f].ch = c} = {}
    BY <1>1, Zenon DEF FetchInv, Owned, NonePooled
  <2> QED
    BY <1>1, <2>1, FS_EmptySet, Zenon
<1>2. CASE c \notin pool
  <2>1. PICK f \in Fetcher : call[f].ch = c
    BY <1>2, Zenon DEF FetchInv, Owned, NoneLost
  <2>2. {g \in Fetcher : call[g].ch = c} = {f}
    BY <2>1, NothingApart, Zenon DEF FetchInv, Owned, OneOwner
  <2> QED
    BY <1>2, <2>2, FS_Singleton, Zenon
<1> QED
  BY <1>1, <1>2

(* The invariant holds in every interleaving of calls, cleanups and late   *)
(* or repeated answers.                                                    *)
THEOREM FetchSafe == FetchSpec => []FetchInv
BY InitFetchInv, NextFetchInv, PTL DEF FetchSpec

(* However calls, cleanups and late or repeated answers interleave, a      *)
(* channel is in the pool or owned by one call, and every pending entry    *)
(* belongs to a call that waits for it.                                    *)
THEOREM ChannelsHaveOneOwner == FetchSpec => []ChannelHasOneOwner
BY OwnersCounted, FetchSafe, PTL

(* A call that succeeds with an answer returns bytes of the hash asked     *)
(* for.                                                                    *)
THEOREM FetchedBytesVerify == FetchSpec => []BytesVerify
<1>1. FetchInv => BytesVerify
  BY DEF FetchInv
<1> QED
  BY <1>1, FetchSafe, PTL

-------------------------------------------------------------------------------
(***************************************************************************)
(* A call advances.                                                        *)
(***************************************************************************)

(* c becomes d: a later stage, or one holder less. *)
Nearer(c, d) ==
  \/ d.todo = c.todo /\ Stage[d.pc] < Stage[c.pc]
  \/ \E n \in c.todo : d.todo = c.todo \ {n} /\ Stage[d.pc] <= Stage[c.pc] + 4

(* The stages of a call, from the request to the return. *)
LEMMA Stages ==
  /\ Stage["done"] = 0 /\ Stage["choose"] = 1 /\ Stage["judge"] = 2
  /\ Stage["drain"] = 3 /\ Stage["unregister"] = 4 /\ Stage["await"] = 5
BY Zenon DEF Stage

LEMMA StagesOrdered ==
  /\ Stage["await"] <= Stage["choose"] + 4 /\ Stage["unregister"] <= Stage["choose"] + 4
  /\ Stage["done"] < Stage["judge"] /\ Stage["choose"] < Stage["judge"]
BY Stages

(* Nearer to the return means that less remains. *)
LEMMA NearerIsLess ==
  ASSUME NEW c \in AnyCall, NEW d \in AnyCall, c.pc # "idle", d.pc # "idle", Nearer(c, d)
  PROVE  Remaining(d) < Remaining(c)
<1>1. IsFiniteSet(c.todo) /\ Cardinality(c.todo) \in Nat
  BY FetchAssumption, FS_Subset, FS_CardinalityType, Zenon DEF AnyCall
<1>2. Stage[c.pc] \in Nat /\ Stage[d.pc] \in Nat
  BY Stages DEF AnyCall
<1>3. CASE d.todo = c.todo /\ Stage[d.pc] < Stage[c.pc]
  BY <1>1, <1>2, <1>3 DEF Remaining
<1>4. CASE \E n \in c.todo : d.todo = c.todo \ {n} /\ Stage[d.pc] <= Stage[c.pc] + 4
  <2>1. Cardinality(d.todo) = Cardinality(c.todo) - 1
    BY <1>1, <1>4, FS_RemoveElement, Zenon
  <2> QED
    BY <1>1, <1>2, <1>4, <2>1 DEF Remaining
<1> QED
  BY <1>3, <1>4, Zenon DEF Nearer

(* Every step of a call but its deadline. *)
LEMMA OwnStepIsNearer ==
  ASSUME FetchInv, NEW f \in Fetcher, Asking(f) \/ Finishing(f), call[f].pc # "done"
  PROVE  Nearer(call[f], call'[f]) /\ call'[f].pc # "idle"
<1>1. call \in [Fetcher -> AnyCall] /\ call[f] \in AnyCall
  BY DEF FetchInv, Shape
<1>2. ASSUME NEW found \in BOOLEAN, LocalRead(f, found)
      PROVE  Nearer(call[f], call'[f]) /\ call'[f].pc # "idle"
  <2>1. CASE found
    BY <1>1, <1>2, <2>1, Stages DEF LocalRead, At, Finish, AnyCall, Nearer
  <2>2. CASE ~found
    BY <1>1, <1>2, <2>2, Stages DEF LocalRead, At, AnyCall, Nearer
  <2> QED
    BY <2>1, <2>2
<1>3. ASSUME NEW n \in Holder, NEW c \in Chan, NEW accepted \in BOOLEAN,
             requestFromHolder(f, n, c, accepted)
      PROVE  Nearer(call[f], call'[f]) /\ call'[f].pc # "idle"
  <2>1. /\ n \in call[f].todo /\ call[f].pc = "choose" /\ call'[f].todo = call[f].todo \ {n}
        /\ call'[f].pc = IF accepted THEN "await" ELSE "unregister"
    BY <1>1, <1>3 DEF requestFromHolder, At, AnyCall
  <2> QED
    BY <2>1, StagesOrdered, Zenon DEF Nearer
<1>4. CASE ReceiveAnswer(f)
  BY <1>1, <1>4, Stages DEF ReceiveAnswer, At, AnyCall, Nearer
<1>5. CASE TimeOut(f)
  BY <1>1, <1>5, Stages DEF TimeOut, At, AnyCall, Nearer
<1>6. CASE Unregister(f)
  BY <1>1, <1>6, Stages DEF Unregister, At, AnyCall, Nearer
<1>7. CASE DrainAndPool(f)
  BY <1>1, <1>7, Stages DEF DrainAndPool, At, AnyCall, Nearer
<1>8. CASE Judge(f)
  <2>1. /\ call[f].pc = "judge" /\ call'[f].todo = call[f].todo
        /\ call'[f].pc = "done" \/ call'[f].pc = "choose"
    <3>1. /\ call[f].pc = "judge"
          /\ \/ \E l : Finish(f, l)
             \/ \E l : call' = [call EXCEPT ![f] =
                            [call[f] EXCEPT !.pc = "choose", !.last = l, !.id = 0, !.answer = Nothing]]
      BY <1>8, Zenon DEF Judge, At
    <3>2. ASSUME NEW l, Finish(f, l)
          PROVE  call'[f].todo = call[f].todo /\ call'[f].pc = "done"
      BY <1>1, <3>2 DEF Finish, AnyCall
    <3>3. ASSUME NEW l, call' = [call EXCEPT ![f] =
                    [call[f] EXCEPT !.pc = "choose", !.last = l, !.id = 0, !.answer = Nothing]]
          PROVE  call'[f].todo = call[f].todo /\ call'[f].pc = "choose"
      BY <1>1, <3>3 DEF AnyCall
    <3> QED
      BY <3>1, <3>2, <3>3, Zenon
  <2> QED
    BY <2>1, StagesOrdered, Zenon DEF Nearer
<1>9. CASE Exhausted(f)
  BY <1>1, <1>9, Stages DEF Exhausted, At, Finish, AnyCall, Nearer
<1>10. ~Return(f)
  BY DEF Return, At
<1> QED
  BY <1>2, <1>3, <1>4, <1>5, <1>6, <1>7, <1>8, <1>9, <1>10, Zenon DEF Asking, Finishing

(* A step touches one call at most. *)
LEMMA OthersWait ==
  ASSUME FetchInv, NEW f \in Fetcher, NEW g \in Fetcher, g # f,
         \/ \E hash \in Hash, hs \in SUBSET Holder : Fetch(f, hash, hs)
         \/ Deadline(f) \/ Asking(f) \/ Finishing(f)
  PROVE  call'[g] = call[g]
<1>1. call \in [Fetcher -> AnyCall]
  BY DEF FetchInv, Shape
<1>2. CASE Asking(f)
  BY <1>1, <1>2, Zenon DEF Asking, LocalRead, requestFromHolder, Finish
<1>3. CASE Finishing(f)
  BY <1>1, <1>3 DEF Finishing, ReceiveAnswer, TimeOut, Unregister, DrainAndPool, Judge, Exhausted, Return, Finish
<1>4. CASE Deadline(f) \/ \E hash \in Hash, hs \in SUBSET Holder : Fetch(f, hash, hs)
  BY <1>1, <1>4, Zenon DEF Deadline, Fetch
<1> QED
  BY <1>2, <1>3, <1>4

(* Whatever other calls, holders and handlers do, each step of a Fetch but *)
(* the deadline brings it nearer to its return: no holder is asked twice   *)
(* and no stage is repeated.                                               *)
THEOREM CallsAdvance == FetchSpec => CallAdvances
<1> DEFINE A == \A f \in Fetcher :
                  /\ call[f].pc \notin {"idle", "done"}
                  /\ call'[f] # [call[f] EXCEPT !.expired = call'[f].expired]
                  => Remaining(call'[f]) < Remaining(call[f])
<1>1. FetchInv /\ FetchInv' /\ [FetchNext]_fetchVars => A
  <2> SUFFICES ASSUME FetchInv, FetchInv', [FetchNext]_fetchVars, NEW f \in Fetcher,
                      call[f].pc \notin {"idle", "done"},
                      call'[f] # [call[f] EXCEPT !.expired = call'[f].expired]
               PROVE  Remaining(call'[f]) < Remaining(call[f])
    OBVIOUS
  <2>1. call[f] \in AnyCall /\ call'[f] \in AnyCall /\ call \in [Fetcher -> AnyCall]
    <3>1. AnyCall' = AnyCall
      BY DEF AnyCall, Answer, Body
    <3> QED
      BY <3>1 DEF FetchInv, Shape
  <2>2. call'[f] # call[f]
    BY <2>1 DEF AnyCall
  <2>3. ~Deadline(f) /\ ~(\E hash \in Hash, hs \in SUBSET Holder : Fetch(f, hash, hs))
    <3>1. ASSUME Deadline(f) PROVE call'[f] = [call[f] EXCEPT !.expired = TRUE] /\ call'[f].expired = TRUE
      BY <2>1, <3>1 DEF Deadline, AnyCall
    <3>2. ~Deadline(f)
      BY <3>1, Zenon
    <3>3. \A hash, hs : ~Fetch(f, hash, hs)
      BY DEF Fetch, At
    <3> QED
      BY <3>2, <3>3, Zenon
  <2>4. \E g \in Fetcher : \/ \E hash \in Hash, hs \in SUBSET Holder : Fetch(g, hash, hs)
                          \/ Deadline(g) \/ Asking(g) \/ Finishing(g)
    <3>1. /\ \A q, body : handleFetchRequest(q, body) => call' = call
          /\ \A h : Deposit(h) => call' = call
          /\ \A h, r, again : LookUp(h, r, again) => call' = call
          /\ UNCHANGED fetchVars => call' = call
      BY DEF handleFetchRequest, Deposit, LookUp, fetchVars
    <3> QED
      BY <2>2, <3>1, Zenon DEF FetchNext
  <2>5. Asking(f) \/ Finishing(f)
    BY <2>2, <2>3, <2>4, OthersWait, Zenon
  <2> QED
    BY <2>1, <2>5, OwnStepIsNearer, NearerIsLess
<1> QED
  BY <1>1, FetchSafe, PTL DEF FetchSpec, CallAdvances
================================================================================
