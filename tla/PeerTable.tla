------------------------------ MODULE PeerTable ------------------------------
(***************************************************************************)
(* The table of peers (peer.go) under the goroutines that use it: frame    *)
(* handlers promote and demote tree edges, publishers fill the tree up to  *)
(* its degree, lazy pushes touch every other peer, and the transport       *)
(* reports joins and leaves.  The table's lock is taken once per read and  *)
(* once per Ensure, the flag's lock after that, so a check and the write   *)
(* it guards are separate steps.                                           *)
(*                                                                         *)
(* TreeEdges and NonTreeEdges are one step each: they hold the table lock, *)
(* and while they do another goroutine can at most finish the one flag     *)
(* write it has already fetched a context for.                             *)
(***************************************************************************)
EXTENDS Integers, FiniteSets

CONSTANTS
  Peer,
  Handler,     \* goroutines in the engine at the same time
  TreeDegree,  \* Config.TreeDegree
  EdgeFactor,  \* tree edges allowed per degree, 4 in the code
  Priority     \* PerPeerConfig.PriorityClass of each peer

ASSUME PeerTableAssumption ==
  /\ IsFiniteSet(Peer) /\ IsFiniteSet(Handler) /\ Handler # {}
  /\ TreeDegree \in Nat \ {0} /\ EdgeFactor \in Nat \ {0}
  /\ Priority \in [Peer -> Nat]

VARIABLES
  connected,  \* the transport's peers
  ctxBy,      \* peers that have a context in the table
  isTreeEdge, \* peers whose context has the flag
  wired,      \* Wire has read the transport's peers
  pc,         \* goroutine control: see States
  todo,       \* peers whose context a goroutine has still to fetch
  edit,       \* what it does with each: promote, demote or only touch
  held,       \* the context it holds: a peer, NoCtx, or Orphan once removed
  need,       \* edges bestTreeEdges still wants
  overlapped  \* history: peers that left while a goroutine had them in hand

NoCtx == "no context"
Orphan == "removed context"

vars == <<connected, ctxBy, isTreeEdge, wired, pc, todo, edit, held, need, overlapped>>

(* idle; counting: from is no edge yet; choosing: below the degree; each:  *)
(* about to fetch a context; writing: holding one.                         *)
States == {"idle", "counting", "choosing", "each", "writing"}

Init ==
  /\ connected \in SUBSET Peer
  /\ ctxBy = {} /\ isTreeEdge = {}
  /\ wired = FALSE
  /\ pc = [h \in Handler |-> "idle"]
  /\ todo = [h \in Handler |-> {}]
  /\ edit = [h \in Handler |-> "touch"]
  /\ held = [h \in Handler |-> NoCtx]
  /\ need = [h \in Handler |-> 0]
  /\ overlapped = {}

-------------------------------------------------------------------------------
(***************************************************************************)
(* The transport's callbacks.                                              *)
(***************************************************************************)

TreeEdges == isTreeEdge
NonTreeEdges == ctxBy \ isTreeEdge

Ensure(p) == ctxBy' = ctxBy \cup {p}

OnPeerJoin(p) ==
  /\ p \notin connected
  /\ connected' = connected \cup {p}
  /\ Ensure(p)
  /\ UNCHANGED <<isTreeEdge, wired, pc, todo, edit, held, need, overlapped>>

(* Bug: the context of a departed peer is kept. *)
BugKeepContext(p) == UNCHANGED <<ctxBy, isTreeEdge, held>>

(* The context goes; a goroutine that holds it writes to an orphan. *)
Remove(p) ==
  /\ ctxBy' = ctxBy \ {p}
  /\ isTreeEdge' = isTreeEdge \ {p}
  /\ held' = [h \in Handler |-> IF held[h] = p THEN Orphan ELSE held[h]]

OnPeerLeave(p) ==
  /\ p \in connected
  /\ connected' = connected \ {p}
  /\ Remove(p)
  /\ overlapped' = overlapped \cup {q \in {p} : \E h \in Handler : q \in todo[h]}
  /\ UNCHANGED <<wired, pc, todo, edit, need>>

-------------------------------------------------------------------------------
(***************************************************************************)
(* Goroutines.  Begin loads a goroutine with the peers it will visit.      *)
(***************************************************************************)

Begin(h, at, ps, e) ==
  /\ pc' = [pc EXCEPT ![h] = at]
  /\ todo' = [todo EXCEPT ![h] = ps]
  /\ edit' = [edit EXCEPT ![h] = e]
  /\ UNCHANGED <<connected, ctxBy, isTreeEdge, held, overlapped>>

(* The end of Wire: its callbacks are installed, the peers known to the    *)
(* transport are read once and ensured one by one.                         *)
WirePeers(h) ==
  /\ ~wired /\ pc[h] = "idle"
  /\ wired' = TRUE
  /\ Begin(h, "each", connected, "touch")
  /\ UNCHANGED need

(* promoteTreeEdgeBounded, from handleEager and handleGraft: the first     *)
(* read of the tree edges.                                                 *)
CheckEdge(h, from) ==
  /\ pc[h] = "idle" /\ from \in connected
  /\ from \notin TreeEdges
  /\ Begin(h, "counting", {from}, "promote")
  /\ UNCHANGED <<wired, need>>

maxTreeEdges == TreeDegree * EdgeFactor

(* Bug: the bound is tested with > instead of >=. *)
BugEdgesFull == Cardinality(TreeEdges) > maxTreeEdges

EdgesFull == Cardinality(TreeEdges) >= maxTreeEdges

(* Its second read: the count. *)
CountEdges(h) ==
  /\ pc[h] = "counting"
  /\ Begin(h, IF EdgesFull THEN "idle" ELSE "each", IF EdgesFull THEN {} ELSE todo[h], edit[h])
  /\ UNCHANGED <<wired, need>>

handlePrune(h, from) ==
  /\ pc[h] = "idle" /\ from \in connected
  /\ Begin(h, "each", {from}, "demote")
  /\ UNCHANGED <<wired, need>>

(* bestTreeEdges, from a publish or a relayed attestation. *)
bestTreeEdges(h) ==
  /\ pc[h] = "idle" /\ Cardinality(TreeEdges) < TreeDegree
  /\ need' = [need EXCEPT ![h] = TreeDegree - Cardinality(TreeEdges)]
  /\ Begin(h, "choosing", {}, "promote")
  /\ UNCHANGED wired

(* The first need of all, by descending priority; ties are by NodeID. *)
Best(all, n) ==
  {S \in SUBSET all :
     /\ Cardinality(S) = IF Cardinality(all) < n THEN Cardinality(all) ELSE n
     /\ \A p \in S, q \in all \ S : Priority[p] >= Priority[q]}

ChooseEdges(h) ==
  /\ pc[h] = "choosing"
  /\ \E S \in Best(NonTreeEdges, need[h]) : Begin(h, "each", S, "promote")
  /\ need' = [need EXCEPT ![h] = 0]
  /\ UNCHANGED wired

(* EnqueueLazy and ConsumeTokens fetch the context of each lazy peer; what *)
(* they do with it is module Throttle.                                     *)
lazyPushToNonTreeEdges(h) ==
  /\ pc[h] = "idle" /\ NonTreeEdges # {}
  /\ Begin(h, "each", NonTreeEdges, "touch")
  /\ UNCHANGED <<wired, need>>

FetchContext(h, p) ==
  /\ pc[h] = "each" /\ p \in todo[h]
  /\ Ensure(p)
  /\ todo' = [todo EXCEPT ![h] = @ \ {p}]
  /\ held' = [held EXCEPT ![h] = p]
  /\ pc' = [pc EXCEPT ![h] = "writing"]
  /\ UNCHANGED <<connected, isTreeEdge, wired, edit, need, overlapped>>

(* SetTreeEdge's write, under the context's own lock. *)
WriteFlag(h) ==
  /\ pc[h] = "writing"
  /\ isTreeEdge' = CASE edit[h] = "promote" -> isTreeEdge \cup ({held[h]} \cap ctxBy)
                     [] edit[h] = "demote" -> isTreeEdge \ {held[h]}
                     [] OTHER -> isTreeEdge
  /\ held' = [held EXCEPT ![h] = NoCtx]
  /\ pc' = [pc EXCEPT ![h] = IF todo[h] = {} THEN "idle" ELSE "each"]
  /\ UNCHANGED <<connected, ctxBy, wired, todo, edit, need, overlapped>>

Finish(h) ==
  /\ pc[h] = "each" /\ todo[h] = {}
  /\ Begin(h, "idle", {}, edit[h])
  /\ UNCHANGED <<wired, need>>

Next ==
  \/ \E p \in Peer : OnPeerJoin(p) \/ OnPeerLeave(p)
  \/ \E h \in Handler :
       \/ WirePeers(h) \/ CountEdges(h) \/ bestTreeEdges(h) \/ ChooseEdges(h)
       \/ lazyPushToNonTreeEdges(h) \/ WriteFlag(h) \/ Finish(h)
       \/ \E p \in Peer : CheckEdge(h, p) \/ handlePrune(h, p) \/ FetchContext(h, p)

Spec == Init /\ [][Next]_vars

-------------------------------------------------------------------------------

TypeOK ==
  /\ connected \subseteq Peer /\ ctxBy \subseteq Peer /\ overlapped \subseteq Peer
  /\ isTreeEdge \subseteq ctxBy
  /\ wired \in BOOLEAN
  /\ pc \in [Handler -> States]
  /\ todo \in [Handler -> SUBSET Peer]
  /\ edit \in [Handler -> {"touch", "promote", "demote"}]
  /\ held \in [Handler -> Peer \cup {NoCtx, Orphan}]
  /\ need \in [Handler -> 0 .. TreeDegree]

(* maxTreeEdges "stops a peer set from graft-flooding the edge set into    *)
(* all-peers fan-out".  The count is read before the flag is written, so   *)
(* the bound is exceeded, but only by what the other goroutines can have   *)
(* in hand at that moment: TreeDegree edges each.                          *)
EdgesBounded ==
  Cardinality(TreeEdges) <= maxTreeEdges + (Cardinality(Handler) - 1) * TreeDegree

(* A departed peer has a context only if some goroutine had it in hand     *)
(* when it left and its Ensure created the context again; without such an  *)
(* overlap OnPeerLeave is final until the peer joins again.                *)
GhostsComeFromOverlap == ctxBy \subseteq connected \cup overlapped

===============================================================================
