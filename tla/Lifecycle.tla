------------------------------- MODULE Lifecycle -------------------------------
(***************************************************************************)
(* Start, Stop, the background ticker and the transport's receive callback *)
(* of one node (node.go), each statement that touches shared state a step  *)
(* of its goroutine.  Stop's CompareAndSwap lets one caller through, so    *)
(* one stopper is modelled; Start is called by every thread of Starter, on *)
(* a wired node whose background ticker is enabled.                        *)
(*                                                                         *)
(* A resource governor calls Pause and Resume, which flip the node's flag  *)
(* and then the flag of each engine; the engines read theirs when they     *)
(* come to a lazy push or a round of probes.                               *)
(*                                                                         *)
(* Two history variables: orderly, Start had spawned its ticker when Stop  *)
(* began; sequenced, no call of Pause or Resume began during another.      *)
(***************************************************************************)
EXTENDS Integers, FiniteSets

CONSTANTS
  Starter,     \* goroutines calling Start
  Callback,     \* transport goroutines running the OnReceive callback
  Governor     \* goroutines calling Pause and Resume

VARIABLES
  stopped, started,  \* the atomic flags
  startCancel,       \* the cancel func under lifeMu: is it set?
  ctxDone,           \* startCtx is done
  wg,                \* the wait group's counter
  apc,               \* Start: idle, checked, swapped, stored, blocked, returned
  opc,               \* Stop: idle, swapped, cancel, wait, returned
  ticker,            \* the ticker goroutines: number running
  ticked,            \* runTickLoop: no, fired, probe or skip (the merkle round)
  hpc,               \* callbacks: idle, engine, lazy or skip (the lazy push)
  paused,            \* the pause flags of the node and of its two engines
  gpc,               \* Pause and Resume: idle, plum, merkle, hook
  goal               \* the value a governor's call sets
VARIABLES orderly, sequenced

life == <<stopped, started, startCancel, ctxDone, wg, apc, opc, ticker, orderly>>
pausing == <<paused, gpc, goal, sequenced>>
lifeVars == <<life, ticked, hpc, pausing>>

Part == {"node", "plum", "merkle"}

LifeInit ==
  /\ stopped = FALSE /\ started = FALSE
  /\ startCancel = FALSE /\ ctxDone = FALSE
  /\ wg = 0
  /\ apc = [a \in Starter |-> "idle"]
  /\ opc = "idle"
  /\ ticker = 0
  /\ ticked = "no"
  /\ hpc = [h \in Callback |-> "idle"]
  /\ paused = [x \in Part |-> FALSE]
  /\ gpc = [g \in Governor |-> "idle"]
  /\ goal = [g \in Governor |-> FALSE]
  /\ orderly = FALSE /\ sequenced = TRUE

-------------------------------------------------------------------------------

(* Start refuses a stopped node. *)
StartCheck(a) ==
  /\ apc[a] = "idle"
  /\ apc' = [apc EXCEPT ![a] = IF stopped THEN "returned" ELSE "checked"]
  /\ UNCHANGED <<stopped, started, startCancel, ctxDone, wg, opc, ticker, ticked, hpc, orderly, pausing>>

(* started.Swap lets one caller through. *)
StartSwap(a) ==
  /\ apc[a] = "checked"
  /\ started' = TRUE
  /\ apc' = [apc EXCEPT ![a] = IF started THEN "returned" ELSE "swapped"]
  /\ UNCHANGED <<stopped, startCancel, ctxDone, wg, opc, ticker, ticked, hpc, orderly, pausing>>

StartStoreCancel(a) ==
  /\ apc[a] = "swapped"
  /\ startCancel' = TRUE
  /\ apc' = [apc EXCEPT ![a] = "stored"]
  /\ UNCHANGED <<stopped, started, ctxDone, wg, opc, ticker, ticked, hpc, orderly, pausing>>

(* wg.Add(1) and the go statement. *)
StartSpawn(a) ==
  /\ apc[a] = "stored"
  /\ wg' = wg + 1
  /\ ticker' = ticker + 1
  /\ apc' = [apc EXCEPT ![a] = "blocked"]
  /\ UNCHANGED <<stopped, started, startCancel, ctxDone, opc, ticked, hpc, orderly, pausing>>

StartReturn(a) ==
  /\ apc[a] = "blocked" /\ ctxDone
  /\ apc' = [apc EXCEPT ![a] = "returned"]
  /\ UNCHANGED <<stopped, started, startCancel, ctxDone, wg, opc, ticker, ticked, hpc, orderly, pausing>>

(* The context given to Start is cancelled by its owner. *)
ParentCancel ==
  /\ ~ctxDone
  /\ ctxDone' = TRUE
  /\ UNCHANGED <<stopped, started, startCancel, wg, apc, opc, ticker, ticked, hpc, orderly, pausing>>

(* runTickLoop: plum.Tick runs whatever the pause state, merkle.Tick reads *)
(* its flag, the rest of the tick follows.  With the context done and a    *)
(* tick pending select may take either.                                    *)
TickFires ==
  /\ ticker > 0 /\ ticked = "no"
  /\ ticked' = "fired"
  /\ UNCHANGED <<life, hpc, pausing>>

TickMerkle ==
  /\ ticked = "fired"
  /\ ticked' = IF paused["merkle"] THEN "skip" ELSE "probe"
  /\ UNCHANGED <<life, hpc, pausing>>

TickDone ==
  /\ ticked \in {"probe", "skip"}
  /\ ticked' = "no"
  /\ UNCHANGED <<life, hpc, pausing>>

(* Bug: the goroutine returns without wg.Done. *)
BugTickerExitsSilently ==
  /\ ticker > 0 /\ ticked = "no" /\ ctxDone
  /\ ticker' = ticker - 1
  /\ UNCHANGED <<stopped, started, startCancel, ctxDone, wg, apc, opc, ticked, hpc, orderly, pausing>>

TickerExit ==
  /\ ticker > 0 /\ ticked = "no" /\ ctxDone
  /\ ticker' = ticker - 1
  /\ wg' = wg - 1
  /\ UNCHANGED <<stopped, started, startCancel, ctxDone, apc, opc, ticked, hpc, orderly, pausing>>

StopSwap ==
  /\ opc = "idle"
  /\ stopped' = TRUE
  /\ opc' = "swapped"
  /\ orderly' = \E a \in Starter : apc[a] = "blocked"
  /\ UNCHANGED <<started, startCancel, ctxDone, wg, apc, ticker, ticked, hpc, pausing>>

(* The cancel func is read under lifeMu and called after the unlock. *)
StopReadCancel ==
  /\ opc = "swapped"
  /\ opc' = IF startCancel THEN "cancel" ELSE "wait"
  /\ UNCHANGED <<stopped, started, startCancel, ctxDone, wg, apc, ticker, ticked, hpc, orderly, pausing>>

StopCancel ==
  /\ opc = "cancel"
  /\ ctxDone' = TRUE
  /\ opc' = "wait"
  /\ UNCHANGED <<stopped, started, startCancel, wg, apc, ticker, ticked, hpc, orderly, pausing>>

(* Bug: Stop returns without joining the ticker. *)
BugStopNoJoin ==
  /\ opc = "wait"
  /\ opc' = "returned"
  /\ UNCHANGED <<stopped, started, startCancel, ctxDone, wg, apc, ticker, ticked, hpc, orderly, pausing>>

StopJoin ==
  /\ opc = "wait" /\ wg = 0
  /\ opc' = "returned"
  /\ UNCHANGED <<stopped, started, startCancel, ctxDone, wg, apc, ticker, ticked, hpc, orderly, pausing>>

(* The OnReceive callback: dropped once stopped, else into the engine,     *)
(* which comes to lazyPushToNonTreeEdges if the frame was news.            *)
ReceiveGate(h) ==
  /\ hpc[h] = "idle" /\ ~stopped
  /\ hpc' = [hpc EXCEPT ![h] = "engine"]
  /\ UNCHANGED <<life, ticked, pausing>>

LazyPush(h) ==
  /\ hpc[h] = "engine"
  /\ hpc' = [hpc EXCEPT ![h] = IF paused["plum"] THEN "skip" ELSE "lazy"]
  /\ UNCHANGED <<life, ticked, pausing>>

ReceiveDone(h) ==
  /\ hpc[h] # "idle"
  /\ hpc' = [hpc EXCEPT ![h] = "idle"]
  /\ UNCHANGED <<life, ticked, pausing>>

-------------------------------------------------------------------------------
(***************************************************************************)
(* Pause (to = TRUE) and Resume (to = FALSE).                              *)
(***************************************************************************)

InCall == {g \in Governor : gpc[g] # "idle"}

(* CompareAndSwap: a call that finds the flag as it wants it returns. *)
PauseSwap(g, to) ==
  /\ gpc[g] = "idle"
  /\ sequenced' = (sequenced /\ InCall = {})
  /\ paused' = [paused EXCEPT !["node"] = to]
  /\ goal' = [goal EXCEPT ![g] = to /\ ~paused["node"]]
  /\ gpc' = [gpc EXCEPT ![g] = IF paused["node"] = to THEN "idle" ELSE "plum"]
  /\ UNCHANGED <<life, ticked, hpc>>

PausePlum(g) ==
  /\ gpc[g] = "plum"
  /\ paused' = [paused EXCEPT !["plum"] = goal[g]]
  /\ gpc' = [gpc EXCEPT ![g] = "merkle"]
  /\ UNCHANGED <<life, ticked, hpc, goal, sequenced>>

(* Bug: Resume forgets the anti-entropy engine. *)
BugPauseMerkle(g) ==
  /\ gpc[g] = "merkle"
  /\ paused' = [paused EXCEPT !["merkle"] = @ \/ goal[g]]
  /\ gpc' = [gpc EXCEPT ![g] = "hook"]
  /\ UNCHANGED <<life, ticked, hpc, goal, sequenced>>

PauseMerkle(g) ==
  /\ gpc[g] = "merkle"
  /\ paused' = [paused EXCEPT !["merkle"] = goal[g]]
  /\ gpc' = [gpc EXCEPT ![g] = "hook"]
  /\ UNCHANGED <<life, ticked, hpc, goal, sequenced>>

(* OnPaused or OnResumed, and the return. *)
PauseHook(g) ==
  /\ gpc[g] = "hook"
  /\ gpc' = [gpc EXCEPT ![g] = "idle"]
  /\ goal' = [goal EXCEPT ![g] = FALSE]
  /\ UNCHANGED <<life, ticked, hpc, paused, sequenced>>

PauseStep(g) == PausePlum(g) \/ PauseMerkle(g) \/ PauseHook(g)

-------------------------------------------------------------------------------

StartStep(a) == StartCheck(a) \/ StartSwap(a) \/ StartStoreCancel(a) \/ StartSpawn(a) \/ StartReturn(a)
StopStep == StopReadCancel \/ StopCancel \/ StopJoin

LifeNext ==
  \/ \E a \in Starter : StartStep(a)
  \/ ParentCancel
  \/ TickFires \/ TickMerkle \/ TickDone \/ TickerExit
  \/ StopSwap \/ StopStep
  \/ \E h \in Callback : ReceiveGate(h) \/ LazyPush(h) \/ ReceiveDone(h)
  \/ \E g \in Governor : PauseStep(g) \/ \E to \in BOOLEAN : PauseSwap(g, to)

LifeSpec == LifeInit /\ [][LifeNext]_lifeVars

(* Goroutines keep running; select's fair choice takes a done context      *)
(* sooner or later even when ticks keep firing.                            *)
LifeFairSpec ==
  /\ LifeSpec
  /\ \A a \in Starter : WF_lifeVars(StartStep(a))
  /\ WF_lifeVars(StopStep) /\ WF_lifeVars(TickMerkle \/ TickDone) /\ SF_lifeVars(TickerExit)
  /\ \A h \in Callback : WF_lifeVars(ReceiveDone(h))

-------------------------------------------------------------------------------

LifeTypeOK ==
  /\ stopped \in BOOLEAN /\ started \in BOOLEAN
  /\ startCancel \in BOOLEAN /\ ctxDone \in BOOLEAN
  /\ wg \in Nat
  /\ apc \in [Starter -> {"idle", "checked", "swapped", "stored", "blocked", "returned"}]
  /\ opc \in {"idle", "swapped", "cancel", "wait", "returned"}
  /\ ticker \in Nat /\ ticked \in {"no", "fired", "probe", "skip"}
  /\ hpc \in [Callback -> {"idle", "engine", "lazy", "skip"}]
  /\ paused \in [Part -> BOOLEAN]
  /\ gpc \in [Governor -> {"idle", "plum", "merkle", "hook"}]
  /\ goal \in [Governor -> BOOLEAN]
  /\ orderly \in BOOLEAN /\ sequenced \in BOOLEAN

(* However many callers race through Start, one ticker runs, and the wait  *)
(* group counts it.                                                        *)
OneTicker == ticker <= 1 /\ wg = ticker

(* When Stop began after Start had spawned the ticker, Stop returns only   *)
(* after the ticker goroutine has, so no tick runs on a stopped node.      *)
OrderlyStopJoins == orderly /\ opc = "returned" => ticker = 0

(* In that case Stop and the blocked Start do return, and the node is      *)
(* quiet from then on: no ticker, and no callback in the engine.           *)
OrderlyStopEnds ==
  orderly ~> []( /\ opc = "returned" /\ ticker = 0
                 /\ \A a \in Starter : apc[a] # "blocked"
                 /\ \A h \in Callback : hpc[h] = "idle" )

Decides(pc, pc2, choice) == pc # choice /\ pc2 = choice

(* "The caller is responsible for sequencing Pause/Resume pairs": if no    *)
(* two calls ever overlapped, then between calls a round of probes or a    *)
(* lazy push starts only while the node is not paused, and is skipped only *)
(* while it is, whatever Start, Stop and the callbacks are doing.          *)
PauseTakesEffect ==
  [][sequenced /\ InCall = {} =>
       /\ Decides(ticked, ticked', "probe") \/ (\E h \in Callback : Decides(hpc[h], hpc[h]', "lazy"))
            => ~paused["node"]
       /\ Decides(ticked, ticked', "skip") \/ (\E h \in Callback : Decides(hpc[h], hpc[h]', "skip"))
            => paused["node"]
    ]_lifeVars

===============================================================================
