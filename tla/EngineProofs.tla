------------------------------ MODULE EngineProofs ------------------------------
(***************************************************************************)
(* The engine's clock, its life cycle and the delivery of records to       *)
(* handlers, each for every value of its constants.                        *)
(***************************************************************************)
EXTENDS HLC, Lifecycle, Delivery, TLAPS

-------------------------------------------------------------------------------
(***************************************************************************)
(* The clock's safety for any number of goroutines, calls and remote       *)
(* stamps, any counter width and any wall clock.                           *)
(*                                                                         *)
(* ClockInv is inductive.  WordCoversHistory needs only the types: a swap  *)
(* that succeeds computed from the very word it replaces.  SkewClamped     *)
(* also needs that no goroutine computes with a wall reading above peak.   *)
(***************************************************************************)

ReadingsBelowPeak == clock <= peak /\ \A t \in Thread : nowWall[t] <= peak

ClockInv == ClockTypeOK /\ WordCoversHistory /\ ReadingsBelowPeak /\ SkewClamped

(* The 16-bit mask of packHLC. *)
LEMMA Masked ==
  ASSUME NEW c \in Nat
  PROVE  /\ c % CtrSpan \in 0 .. CtrSpan - 1
         /\ c < CtrSpan => c % CtrSpan = c
BY ClockAssumption

(* The order of packed words is a total order on stamps. *)
LEMMA StampOrder ==
  ASSUME NEW a \in Stamp, NEW b \in Stamp, NEW c \in Stamp
  PROVE  /\ Leq(a, b) /\ Leq(b, c) => Leq(a, c)
         /\ Leq(a, b) /\ Less(b, c) => Less(a, c)
         /\ Leq(a, Later(a, b)) /\ Leq(b, Later(a, b)) /\ Later(a, b) \in Stamp
         /\ Leq(a, c) /\ Leq(b, c) => Leq(Later(a, b), c)
BY DEF Leq, Less, Later, Stamp

(* Now's next stamp: above the word it replaces, unless the counter wraps, *)
(* and never past both the word's wall and the reading.                    *)
LEMMA NextStampAbove ==
  ASSUME NEW c \in Stamp, NEW w \in Nat
  PROVE  /\ NextStamp(c, w) \in Stamp
         /\ ~Wraps(c, w) => Less(c, NextStamp(c, w))
         /\ NextStamp(c, w).wall = (IF w > c.wall THEN w ELSE c.wall)
<1>1. c.wall \in Nat /\ c.ctr \in 0 .. CtrSpan - 1 /\ c.ctr + 1 \in Nat /\ 0 \in 0 .. CtrSpan - 1
  BY ClockAssumption DEF Stamp
<1>2. /\ (c.ctr + 1) % CtrSpan \in 0 .. CtrSpan - 1
      /\ c.ctr + 1 < CtrSpan => (c.ctr + 1) % CtrSpan = c.ctr + 1
      /\ 0 % CtrSpan = 0
  BY <1>1, Masked, ClockAssumption
<1> QED
  BY <1>1, <1>2, ClockAssumption DEF NextStamp, Wraps, packHLC, Stamp, Less

(* Observe's stamp: at or above the word it replaces and the stamp it      *)
(* takes in, with a wall no later than all of its inputs.                  *)
LEMMA ObservedStampCovers ==
  ASSUME NEW c \in Stamp, NEW w \in Nat, NEW r \in Stamp
  PROVE  LET n == ObservedStamp(c, w, r)
         IN /\ n \in Stamp /\ Leq(c, n)
            /\ InBudget(r, w) => Leq(r, n)
            /\ n.wall \in {c.wall, w} \/ (n.wall = r.wall /\ InBudget(r, w))
<1> DEFINE m == IF InBudget(r, w) THEN Later(c, r) ELSE c
           n == IF w > m.wall THEN packHLC(w, 0) ELSE packHLC(m.wall, m.ctr)
<1>1. m \in Stamp /\ Leq(c, m) /\ (InBudget(r, w) => Leq(r, m))
  BY StampOrder DEF Leq
<1>2. m = c \/ (m = r /\ InBudget(r, w))
  BY DEF Later
<1> HIDE DEF m
<1>3. m.wall \in Nat /\ m.ctr \in Nat /\ m.ctr % CtrSpan = m.ctr /\ 0 % CtrSpan = 0
  BY <1>1, Masked, ClockAssumption DEF Stamp
<1>4. n \in Stamp /\ Leq(m, n) /\ n.wall \in {m.wall, w}
  <2>1. CASE w > m.wall
    BY <1>1, <1>3, <2>1, ClockAssumption DEF packHLC, Stamp, Leq, Less
  <2>2. CASE ~(w > m.wall)
    <3>1. n = m
      BY <1>1, <1>3, <2>2 DEF packHLC, Stamp
    <3> QED
      BY <1>1, <3>1 DEF Leq
  <2> QED
    BY <2>1, <2>2
<1> HIDE DEF n
<1>5. Leq(c, n) /\ (InBudget(r, w) => Leq(r, n))
  BY <1>1, <1>4, StampOrder, Zenon
<1>6. ObservedStamp(c, w, r) = n
  BY DEF ObservedStamp, m, n
<1> QED
  BY <1>2, <1>4, <1>5, <1>6

(* NewHLC. *)
LEMMA InitClockInv == ClockInit => ClockInv
<1> SUFFICES ASSUME ClockInit PROVE ClockInv
  OBVIOUS
<1>1. 0 % CtrSpan = 0 /\ 0 \in 0 .. CtrSpan - 1
  BY Masked, ClockAssumption
<1>2. clock \in Nat /\ state = [wall |-> clock, ctr |-> 0] /\ state \in Stamp
  BY <1>1, ClockAssumption DEF ClockInit, packHLC, Stamp
<1>3. Zero \in Stamp /\ Leq(Zero, state)
  BY <1>1, <1>2 DEF Zero, Stamp, Leq, Less
<1>4. ClockTypeOK
  BY <1>2, <1>3, Zenon DEF ClockInit, ClockTypeOK
<1>5. WordCoversHistory
  BY <1>3 DEF ClockInit, WordCoversHistory, Leq
<1>6. ReadingsBelowPeak
  BY <1>2 DEF ClockInit, ReadingsBelowPeak
<1>7. SkewClamped
  BY <1>2, ClockAssumption DEF ClockInit, SkewClamped
<1> QED
  BY <1>4, <1>5, <1>6, <1>7 DEF ClockInv

(* Now's successful swap. *)
LEMMA SwapNowKeeps ==
  ASSUME ClockInv, NEW t \in Thread, SwapNow(t)
  PROVE  ClockInv' /\ (~wrapped' => Less(last, last') /\ Less(observed, last'))
<1>1. state \in Stamp /\ nowWall[t] \in Nat /\ state = cur[t] /\ last \in Stamp /\ observed \in Stamp
  BY DEF ClockInv, ClockTypeOK, SwapNow
<1>2. /\ state' = NextStamp(state, nowWall[t]) /\ last' = state' /\ observed' = observed
      /\ wrapped' = (wrapped \/ Wraps(state, nowWall[t]))
  BY <1>1 DEF SwapNow
<1>3. /\ state' \in Stamp
      /\ ~Wraps(state, nowWall[t]) => Less(state, state')
      /\ state'.wall = (IF nowWall[t] > state.wall THEN nowWall[t] ELSE state.wall)
  BY <1>1, <1>2, NextStampAbove
<1>4. ~wrapped' => Less(last, last') /\ Less(observed, last')
  BY <1>1, <1>2, <1>3, StampOrder, Zenon DEF ClockInv, WordCoversHistory
<1>5. ClockTypeOK'
  <2>1. wrapped' \in BOOLEAN
    BY <1>2, Zenon DEF ClockInv, ClockTypeOK
  <2> QED
    BY <1>2, <1>3, <2>1 DEF ClockInv, ClockTypeOK, SwapNow
<1>6. WordCoversHistory'
  BY <1>2, <1>4 DEF WordCoversHistory, Leq
<1>7. ReadingsBelowPeak'
  BY DEF ClockInv, ReadingsBelowPeak, SwapNow
<1>8. SkewClamped'
  BY <1>1, <1>3, ClockAssumption DEF ClockInv, ClockTypeOK, Stamp, ReadingsBelowPeak, SkewClamped, SwapNow
<1> QED
  BY <1>4, <1>5, <1>6, <1>7, <1>8 DEF ClockInv

(* Observe's successful swap. *)
LEMMA SwapObserveKeeps ==
  ASSUME ClockInv, NEW t \in Thread, SwapObserve(t)
  PROVE  ClockInv'
<1>1. /\ state \in Stamp /\ nowWall[t] \in Nat /\ remote[t] \in Stamp /\ state = cur[t]
      /\ last \in Stamp /\ observed \in Stamp
  BY DEF ClockInv, ClockTypeOK, SwapObserve
<1>2. /\ state' = ObservedStamp(state, nowWall[t], remote[t]) /\ last' = last /\ wrapped' = wrapped
      /\ observed' = IF InBudget(remote[t], nowWall[t]) THEN Later(observed, remote[t]) ELSE observed
  BY <1>1 DEF SwapObserve
<1>3. /\ state' \in Stamp /\ Leq(state, state')
      /\ InBudget(remote[t], nowWall[t]) => Leq(remote[t], state')
      /\ \/ state'.wall \in {state.wall, nowWall[t]}
         \/ state'.wall = remote[t].wall /\ InBudget(remote[t], nowWall[t])
  BY <1>1, <1>2, ObservedStampCovers
<1>4. observed' \in Stamp
  BY <1>1, <1>2, StampOrder
<1>5. ClockTypeOK'
  BY <1>2, <1>3, <1>4 DEF ClockInv, ClockTypeOK, SwapObserve
<1>6. WordCoversHistory'
  <2> SUFFICES ASSUME ~wrapped PROVE Leq(last, state') /\ Leq(observed', state')
    BY <1>2 DEF WordCoversHistory
  <2>1. Leq(last, state) /\ Leq(observed, state)
    BY DEF ClockInv, WordCoversHistory
  <2>2. Leq(last, state') /\ Leq(observed, state')
    BY <1>1, <1>3, <2>1, StampOrder
  <2> QED
    BY <1>1, <1>2, <1>3, <2>2, StampOrder
<1>7. ReadingsBelowPeak'
  BY DEF ClockInv, ReadingsBelowPeak, SwapObserve
<1>8. SkewClamped'
  BY <1>1, <1>3, ClockAssumption
     DEF ClockInv, ClockTypeOK, Stamp, ReadingsBelowPeak, SkewClamped, SwapObserve, InBudget
<1> QED
  BY <1>5, <1>6, <1>7, <1>8 DEF ClockInv

(* The steps that leave the word alone. *)
LEMMA OtherStepsKeep ==
  ASSUME ClockInv,
         \/ \E t \in Thread : \/ CallNow(t) \/ \E r \in Remote : CallObserve(t, r)
                              \/ Load(t) \/ ReadClock(t) \/ Retry(t)
         \/ \E w \in 0 .. MaxWall : ClockStep(w)
         \/ UNCHANGED clockVars
  PROVE  ClockInv'
<1> USE DEF ClockInv, ClockTypeOK, WordCoversHistory, ReadingsBelowPeak, SkewClamped
<1>1. ASSUME NEW t \in Thread, CallNow(t) PROVE ClockInv'
  BY <1>1 DEF CallNow, history
<1>2. ASSUME NEW t \in Thread, NEW r \in Remote, CallObserve(t, r) PROVE ClockInv'
  BY <1>2, ClockAssumption DEF CallObserve, history
<1>3. ASSUME NEW t \in Thread, Load(t) PROVE ClockInv'
  BY <1>3 DEF Load, history
<1>4. ASSUME NEW t \in Thread, ReadClock(t) PROVE ClockInv'
  BY <1>4 DEF ReadClock, history
<1>5. ASSUME NEW t \in Thread, Retry(t) PROVE ClockInv'
  BY <1>5 DEF Retry, history
<1>6. ASSUME NEW w \in 0 .. MaxWall, ClockStep(w) PROVE ClockInv'
  <2>1. w \in Nat
    BY ClockAssumption
  <2>2. peak' \in Nat /\ peak <= peak' /\ w <= peak'
    BY <1>6, <2>1 DEF ClockStep
  <2>3. ClockTypeOK' /\ WordCoversHistory'
    BY <1>6, <2>1, <2>2 DEF ClockStep
  <2>4. ReadingsBelowPeak'
    BY <1>6, <2>1, <2>2 DEF ClockStep
  <2>5. SkewClamped'
    BY <1>6, <2>2, ClockAssumption DEF ClockStep, Stamp
  <2> QED
    BY <2>3, <2>4, <2>5
<1>7. CASE UNCHANGED clockVars
  BY <1>7 DEF clockVars
<1> QED
  BY <1>1, <1>2, <1>3, <1>4, <1>5, <1>6, <1>7, Zenon

(* ClockInv is inductive. *)
LEMMA NextClockInv == ClockInv /\ [ClockNext]_clockVars => ClockInv'
BY SwapNowKeeps, SwapObserveKeeps, OtherStepsKeep DEF ClockNext, Proceed

(* The word stays a stamp, covers everything issued and taken in until the *)
(* counter wraps, and its wall part stays within the skew budget.          *)
THEOREM ClockSafe == ClockSpec => [](ClockTypeOK /\ WordCoversHistory /\ SkewClamped)
<1>1. ClockInv => ClockTypeOK /\ WordCoversHistory /\ SkewClamped
  BY DEF ClockInv
<1> QED
  BY <1>1, InitClockInv, NextClockInv, PTL DEF ClockSpec

(* No Observe, however far ahead its stamp and whoever races with it,      *)
(* pulls the clock further than the skew budget beyond the highest wall    *)
(* reading.                                                                *)
THEOREM SkewStaysClamped == ClockSpec => []SkewClamped
BY ClockSafe, PTL

(* Until the counter wraps Now hands out strictly increasing stamps to all *)
(* goroutines together.                                                    *)
THEOREM StampsAlwaysIncrease == ClockSpec => StampsIncrease
<1> DEFINE A == \A t \in Thread : NowReturns(t) /\ ~wrapped' =>
                  Less(last, last') /\ Less(observed, last')
<1>1. ClockInv /\ [ClockNext]_clockVars => A
  <2> SUFFICES ASSUME ClockInv, [ClockNext]_clockVars, NEW t \in Thread, NowReturns(t), ~wrapped'
               PROVE  Less(last, last') /\ Less(observed, last')
    OBVIOUS
  <2>1. \E u \in Thread : SwapNow(u)
    <3>1. /\ op[t] = "Now" /\ pc[t] = "cas" /\ pc'[t] = "idle"
          /\ pc \in [Thread -> {"idle", "load", "clock", "cas"}]
      BY DEF NowReturns, ClockInv, ClockTypeOK
    <3> QED
      BY <3>1 DEF ClockNext, Proceed, CallNow, CallObserve, Load, ReadClock, SwapObserve, Retry, ClockStep, clockVars
  <2> QED
    BY <2>1, SwapNowKeeps
<1>2. ClockSpec => []ClockInv
  BY InitClockInv, NextClockInv, PTL DEF ClockSpec
<1> QED
  BY <1>1, <1>2, PTL DEF ClockSpec, StampsIncrease
-------------------------------------------------------------------------------
(***************************************************************************)
(* Start, Stop, Pause and Resume for any number of callers, callbacks and  *)
(* governors.                                                              *)
(*                                                                         *)
(* OneTicker needs that a starter between Swap and go is alone and has no  *)
(* ticker yet; OrderlyStopJoins, that an orderly Stop leaves no such       *)
(* starter behind; PauseTakesEffect, which of the three flags a call in    *)
(* progress has already set.                                               *)
(***************************************************************************)

Spawning == {"swapped", "stored"}

StartInv ==
  /\ wg = ticker /\ ticker \in {0, 1}
  /\ ~started => ticker = 0 /\ \A a \in Starter : apc[a] \notin Spawning
  /\ \A a \in Starter : apc[a] = "blocked" => started
  /\ \A a, b \in Starter : apc[a] \in Spawning /\ apc[b] \in Spawning => a = b
  /\ \A a \in Starter : apc[a] \in Spawning => /\ ticker = 0
                                               /\ \A b \in Starter : apc[b] # "blocked"
  /\ orderly => started /\ \A a \in Starter : apc[a] \notin Spawning

Flags(g) ==
  /\ gpc[g] = "plum" => paused["node"] = goal[g]
  /\ gpc[g] = "merkle" => paused["node"] = goal[g] /\ paused["plum"] = goal[g]
  /\ gpc[g] = "hook" => paused["plum"] = paused["node"] /\ paused["merkle"] = paused["node"]

PauseInv ==
  sequenced =>
    /\ \A g, h \in InCall : g = h
    /\ InCall = {} => paused["plum"] = paused["node"] /\ paused["merkle"] = paused["node"]
    /\ \A g \in Governor : Flags(g)

LifeInv == LifeTypeOK /\ StartInv /\ OrderlyStopJoins /\ PauseInv

(* A node that was never started. *)
LEMMA InitLifeInv == LifeInit => LifeInv
<1> SUFFICES ASSUME LifeInit PROVE LifeInv
  OBVIOUS
<1>1. LifeTypeOK
  BY Zenon DEF LifeInit, LifeTypeOK
<1>2. StartInv /\ OrderlyStopJoins
  BY DEF LifeInit, StartInv, OrderlyStopJoins, Spawning
<1>3. PauseInv
  BY DEF LifeInit, PauseInv, InCall, Flags, Part
<1> QED
  BY <1>1, <1>2, <1>3 DEF LifeInv

(* Start, Stop, the ticker and the parent context leave the pause flags.   *)
LEMMA LifeKeeps ==
  ASSUME LifeInv,
         \/ \E a \in Starter : StartStep(a)
         \/ ParentCancel \/ TickerExit \/ StopSwap \/ StopStep
  PROVE  LifeInv'
<1>1. UNCHANGED <<ticked, hpc, pausing>>
  BY Zenon DEF StartStep, StartCheck, StartSwap, StartStoreCancel, StartSpawn, StartReturn,
         ParentCancel, TickerExit, StopSwap, StopStep, StopReadCancel, StopCancel, StopJoin
<1>2. PauseInv'
  BY <1>1 DEF LifeInv, PauseInv, InCall, Flags, pausing
<1>3. ASSUME NEW a \in Starter, StartStep(a) PROVE LifeTypeOK' /\ StartInv' /\ OrderlyStopJoins'
  <2>1. apc \in [Starter -> {"idle", "checked", "swapped", "stored", "blocked", "returned"}]
        /\ ticker \in Nat
    BY DEF LifeInv, LifeTypeOK
  <2>2. LifeTypeOK'
    <3>1. CASE StartCheck(a)
      BY <1>1, <2>1, <3>1 DEF LifeInv, LifeTypeOK, StartCheck, pausing
    <3>2. CASE StartSwap(a)
      BY <1>1, <2>1, <3>2 DEF LifeInv, LifeTypeOK, StartSwap, pausing
    <3>3. CASE StartStoreCancel(a)
      BY <1>1, <2>1, <3>3 DEF LifeInv, LifeTypeOK, StartStoreCancel, pausing
    <3>4. CASE StartSpawn(a)
      BY <1>1, <2>1, <3>4 DEF LifeInv, LifeTypeOK, StartSpawn, pausing
    <3>5. CASE StartReturn(a)
      BY <1>1, <2>1, <3>5 DEF LifeInv, LifeTypeOK, StartReturn, pausing
    <3> QED
      BY <1>3, <3>1, <3>2, <3>3, <3>4, <3>5 DEF StartStep
  <2>3. StartInv'
    <3> USE <2>1 DEF LifeInv, StartInv, Spawning
    <3>1. CASE StartCheck(a)
      BY <3>1 DEF StartCheck
    <3>2. CASE StartSwap(a)
      BY <3>2 DEF StartSwap
    <3>3. CASE StartStoreCancel(a)
      BY <3>3 DEF StartStoreCancel
    <3>4. CASE StartSpawn(a)
      BY <3>4 DEF StartSpawn
    <3>5. CASE StartReturn(a)
      BY <3>5 DEF StartReturn
    <3> QED
      BY <1>3, <3>1, <3>2, <3>3, <3>4, <3>5, Zenon DEF StartStep
  <2>4. OrderlyStopJoins'
    BY <1>3, <2>1, Zenon DEF LifeInv, StartInv, OrderlyStopJoins, Spawning, StartStep, StartCheck,
                      StartSwap, StartStoreCancel, StartSpawn, StartReturn
  <2> QED
    BY <2>2, <2>3, <2>4
<1>4. ASSUME ParentCancel \/ TickerExit \/ StopSwap \/ StopStep
      PROVE  LifeTypeOK' /\ StartInv' /\ OrderlyStopJoins'
  <2> USE DEF LifeInv
  <2>1. CASE ParentCancel
    <3>1. LifeTypeOK'
      BY <1>1, <2>1, Zenon DEF LifeTypeOK, ParentCancel, pausing
    <3> QED
      BY <2>1, <3>1, Zenon DEF StartInv, OrderlyStopJoins, ParentCancel
  <2>2. CASE TickerExit
    <3>1. ticker = 1 /\ ticker' = 0 /\ wg' = 0
      BY <2>2 DEF StartInv, TickerExit
    <3> QED
      <4>1. wg' \in Nat /\ ticker' \in Nat
        BY <3>1
      <4>2. LifeTypeOK'
        BY <1>1, <2>2, <4>1, Zenon DEF LifeTypeOK, TickerExit, pausing
      <4>3. StartInv'
        BY <2>2, <3>1, Zenon DEF StartInv, TickerExit
      <4> QED
        BY <3>1, <4>2, <4>3, Zenon DEF OrderlyStopJoins
  <2>3. CASE StopSwap
    <3>1. orderly' \in BOOLEAN
      BY <2>3, Zenon DEF StopSwap
    <3>2. LifeTypeOK'
      BY <1>1, <2>3, <3>1 DEF LifeTypeOK, StopSwap, pausing
    <3>3. orderly' => started /\ \A a \in Starter : apc[a] \notin Spawning
      BY <2>3, Zenon DEF StartInv, StopSwap
    <3> QED
      BY <2>3, <3>2, <3>3 DEF StartInv, OrderlyStopJoins, StopSwap
  <2>4. CASE StopStep
    <3>1. CASE StopReadCancel
      BY <1>1, <3>1 DEF LifeTypeOK, StartInv, OrderlyStopJoins, StopReadCancel, pausing
    <3>2. CASE StopCancel
      BY <1>1, <3>2 DEF LifeTypeOK, StartInv, OrderlyStopJoins, StopCancel, pausing
    <3>3. CASE StopJoin
      BY <1>1, <3>3, Zenon DEF LifeTypeOK, StartInv, OrderlyStopJoins, StopJoin, pausing
    <3> QED
      BY <2>4, <3>1, <3>2, <3>3 DEF StopStep
  <2> QED
    BY <1>4, <2>1, <2>2, <2>3, <2>4
<1> QED
  BY <1>2, <1>3, <1>4 DEF LifeInv

(* Ticks and callbacks only read the flags. *)
LEMMA EngineKeeps ==
  ASSUME LifeInv,
         \/ TickFires \/ TickMerkle \/ TickDone
         \/ \E h \in Callback : ReceiveGate(h) \/ LazyPush(h) \/ ReceiveDone(h)
  PROVE  LifeInv'
<1>1. UNCHANGED <<life, pausing>>
  BY DEF TickFires, TickMerkle, TickDone, ReceiveGate, LazyPush, ReceiveDone
<1>2. StartInv' /\ OrderlyStopJoins' /\ PauseInv'
  BY <1>1 DEF LifeInv, StartInv, OrderlyStopJoins, PauseInv, InCall, Flags, life, pausing
<1>3. ticked' \in {"no", "fired", "probe", "skip"} /\ hpc' \in [Callback -> {"idle", "engine", "lazy", "skip"}]
  BY DEF LifeInv, LifeTypeOK, TickFires, TickMerkle, TickDone, ReceiveGate, LazyPush, ReceiveDone
<1>4. LifeTypeOK'
  BY <1>1, <1>3 DEF LifeInv, LifeTypeOK, life, pausing
<1> QED
  BY <1>2, <1>4 DEF LifeInv

(* The swap of Pause or Resume. *)
LEMMA SwapKeeps ==
  ASSUME LifeInv, NEW g \in Governor, NEW to \in BOOLEAN, PauseSwap(g, to)
  PROVE  LifeInv'
<1>1. /\ gpc \in [Governor -> {"idle", "plum", "merkle", "hook"}]
      /\ goal \in [Governor -> BOOLEAN] /\ paused \in [Part -> BOOLEAN]
  BY DEF LifeInv, LifeTypeOK
<1>2. /\ gpc' = [gpc EXCEPT ![g] = IF paused["node"] = to THEN "idle" ELSE "plum"]
      /\ goal' = [goal EXCEPT ![g] = to /\ ~paused["node"]]
      /\ paused' = [paused EXCEPT !["node"] = to]
      /\ sequenced' = (sequenced /\ InCall = {})
      /\ UNCHANGED <<life, ticked, hpc>>
  BY DEF PauseSwap
<1>3. paused["node"] \in BOOLEAN /\ "node" \in Part /\ "plum" \in Part /\ "merkle" \in Part
  BY <1>1 DEF Part
<1>4. /\ paused'["node"] = to /\ paused'["plum"] = paused["plum"]
      /\ paused'["merkle"] = paused["merkle"]
  BY <1>1, <1>2, <1>3
<1>5. StartInv' /\ OrderlyStopJoins'
  BY <1>2 DEF LifeInv, StartInv, OrderlyStopJoins, life
<1>6. LifeTypeOK'
  <2>1. sequenced' \in BOOLEAN
    BY <1>2, Zenon
  <2>2. goal' \in [Governor -> BOOLEAN]
    BY <1>1, <1>2
  <2>3. paused' \in [Part -> BOOLEAN]
    BY <1>1, <1>2, Zenon
  <2>4. gpc' \in [Governor -> {"idle", "plum", "merkle", "hook"}]
    BY <1>1, <1>2
  <2> QED
    BY <1>2, <2>1, <2>2, <2>3, <2>4 DEF LifeInv, LifeTypeOK, life
<1>7. PauseInv'
  <2> SUFFICES ASSUME sequenced, InCall = {}
               PROVE  /\ \A u, v \in InCall' : u = v
                      /\ InCall' = {} => paused'["plum"] = paused'["node"] /\ paused'["merkle"] = paused'["node"]
                      /\ \A u \in Governor : Flags(u)'
    BY <1>2, Zenon DEF PauseInv
  <2>1. \A u \in Governor : gpc[u] = "idle"
    BY DEF InCall
  <2>2. paused["plum"] = paused["node"] /\ paused["merkle"] = paused["node"]
    BY DEF LifeInv, PauseInv
  <2>3. CASE paused["node"] = to
    <3>1. \A u \in Governor : gpc'[u] = "idle"
      BY <1>1, <1>2, <2>1, <2>3
    <3> QED
      BY <1>4, <2>2, <2>3, <3>1 DEF InCall, Flags
  <2>4. CASE paused["node"] # to
    <3>1. \A u \in Governor : gpc'[u] = IF u = g THEN "plum" ELSE "idle"
      BY <1>1, <1>2, <2>1, <2>4
    <3>2. goal'[g] = to
      BY <1>1, <1>2, <1>3, <2>4
    <3> QED
      BY <1>4, <3>1, <3>2, Zenon DEF InCall, Flags
  <2> QED
    BY <2>3, <2>4
<1> QED
  BY <1>5, <1>6, <1>7 DEF LifeInv

(* The rest of Pause or Resume: one engine flag after the other. *)
LEMMA PauseStepKeeps ==
  ASSUME LifeInv, NEW g \in Governor, PauseStep(g)
  PROVE  LifeInv'
<1>1. /\ gpc \in [Governor -> {"idle", "plum", "merkle", "hook"}]
      /\ goal \in [Governor -> BOOLEAN] /\ paused \in [Part -> BOOLEAN]
      /\ "node" \in Part /\ "plum" \in Part /\ "merkle" \in Part
  BY DEF LifeInv, LifeTypeOK, Part
<1>2. sequenced' = sequenced /\ UNCHANGED <<life, ticked, hpc>>
  BY DEF PauseStep, PausePlum, PauseMerkle, PauseHook
<1>3. StartInv' /\ OrderlyStopJoins'
  BY <1>2 DEF LifeInv, StartInv, OrderlyStopJoins, life
<1>4. LifeTypeOK'
  <2>1. paused' \in [Part -> BOOLEAN] /\ goal' \in [Governor -> BOOLEAN]
        /\ gpc' \in [Governor -> {"idle", "plum", "merkle", "hook"}]
    <3>1. goal[g] \in BOOLEAN /\ FALSE \in BOOLEAN
      BY <1>1
    <3> QED
      BY <1>1, <3>1, Zenon DEF PauseStep, PausePlum, PauseMerkle, PauseHook
  <2> QED
    BY <1>2, <2>1 DEF LifeInv, LifeTypeOK, life
<1>5. PauseInv'
  <2> SUFFICES ASSUME sequenced
               PROVE  /\ \A u, v \in InCall' : u = v
                      /\ InCall' = {} => paused'["plum"] = paused'["node"] /\ paused'["merkle"] = paused'["node"]
                      /\ \A u \in Governor : Flags(u)'
    BY <1>2 DEF PauseInv
  <2>1. \A u \in Governor : u # g => gpc[u] = "idle" /\ gpc'[u] = "idle"
    BY <1>1, Zenon DEF LifeInv, PauseInv, InCall, PauseStep, PausePlum, PauseMerkle, PauseHook
  <2>2. Flags(g)
    BY DEF LifeInv, PauseInv
  <2>3. CASE PausePlum(g)
    BY <1>1, <2>1, <2>2, <2>3 DEF InCall, Flags, PausePlum
  <2>4. CASE PauseMerkle(g)
    BY <1>1, <2>1, <2>2, <2>4 DEF InCall, Flags, PauseMerkle
  <2>5. CASE PauseHook(g)
    BY <1>1, <2>1, <2>2, <2>5 DEF InCall, Flags, PauseHook
  <2> QED
    BY <2>3, <2>4, <2>5 DEF PauseStep
<1> QED
  BY <1>3, <1>4, <1>5 DEF LifeInv

(* LifeInv is inductive. *)
LEMMA NextLifeInv == LifeInv /\ [LifeNext]_lifeVars => LifeInv'
<1>1. LifeInv /\ UNCHANGED lifeVars => LifeInv'
  <2> SUFFICES ASSUME LifeInv, UNCHANGED lifeVars PROVE LifeInv'
    OBVIOUS
  <2>1. LifeTypeOK'
    BY Zenon DEF lifeVars, life, pausing, LifeInv, LifeTypeOK
  <2>2. StartInv' /\ OrderlyStopJoins'
    BY Zenon DEF lifeVars, life, pausing, LifeInv, StartInv, OrderlyStopJoins
  <2>3. PauseInv'
    BY Zenon DEF lifeVars, life, pausing, LifeInv, PauseInv, InCall, Flags
  <2> QED
    BY <2>1, <2>2, <2>3, Zenon DEF LifeInv
<1> QED
  BY <1>1, LifeKeeps, EngineKeeps, SwapKeeps, PauseStepKeeps DEF LifeNext

(* One ticker, counted; an orderly Stop outlives it. *)
THEOREM LifecycleSafe == LifeSpec => [](LifeTypeOK /\ OneTicker /\ OrderlyStopJoins)
<1>1. LifeInv => LifeTypeOK /\ OneTicker /\ OrderlyStopJoins
  BY DEF LifeInv, StartInv, OneTicker
<1> QED
  BY <1>1, InitLifeInv, NextLifeInv, PTL DEF LifeSpec

(* Between calls that did not overlap, the engines do exactly what the     *)
(* node's pause flag says.                                                 *)
THEOREM PauseAlwaysTakesEffect == LifeSpec => PauseTakesEffect
<1> DEFINE A == sequenced /\ InCall = {} =>
                  /\ Decides(ticked, ticked', "probe") \/ (\E h \in Callback : Decides(hpc[h], hpc[h]', "lazy"))
                       => ~paused["node"]
                  /\ Decides(ticked, ticked', "skip") \/ (\E h \in Callback : Decides(hpc[h], hpc[h]', "skip"))
                       => paused["node"]
<1>1. LifeInv /\ [LifeNext]_lifeVars => A
  <2> SUFFICES ASSUME LifeInv, [LifeNext]_lifeVars, sequenced, InCall = {} PROVE A
    OBVIOUS
  <2>1. paused["plum"] = paused["node"] /\ paused["merkle"] = paused["node"]
    BY DEF LifeInv, PauseInv
  <2>2. \/ UNCHANGED <<ticked, hpc>> \/ TickFires \/ TickMerkle \/ TickDone
        \/ \E h \in Callback : ReceiveGate(h) \/ LazyPush(h) \/ ReceiveDone(h)
    BY Zenon DEF LifeNext, lifeVars, StartStep, StartCheck, StartSwap, StartStoreCancel, StartSpawn, StartReturn,
           ParentCancel, TickerExit, StopSwap, StopStep, StopReadCancel, StopCancel, StopJoin,
           PauseStep, PausePlum, PauseMerkle, PauseHook, PauseSwap
  <2> QED
    <3>1. CASE UNCHANGED <<ticked, hpc>>
      BY <3>1, Zenon DEF Decides
    <3>2. CASE TickFires \/ TickMerkle \/ TickDone
      BY <2>1, <3>2 DEF Decides, TickFires, TickMerkle, TickDone
    <3>3. ASSUME NEW h \in Callback, ReceiveGate(h) \/ LazyPush(h) \/ ReceiveDone(h) PROVE A
      <4>1. hpc \in [Callback -> {"idle", "engine", "lazy", "skip"}]
        BY Zenon DEF LifeInv, LifeTypeOK
      <4> QED
        BY <2>1, <3>3, <4>1 DEF Decides, ReceiveGate, LazyPush, ReceiveDone
    <3> QED
      BY <2>2, <3>1, <3>2, <3>3, Zenon
<1>2. LifeSpec => []LifeInv
  BY InitLifeInv, NextLifeInv, PTL DEF LifeSpec
<1> QED
  BY <1>1, <1>2, PTL DEF LifeSpec, PauseTakesEffect

-------------------------------------------------------------------------------
(***************************************************************************)
(* The way of a record to a subscriber, for any goroutines, slots, records *)
(* and number of stamps.  None of the properties is inductive.             *)
(*                                                                         *)
(* NoGap speaks of the moment Subscribe returns; before it, the newest     *)
(* record of a slot may also wait in the snapshot, the queue or the batch. *)
(* A record the drain drops as covered is not lost, because what was       *)
(* replayed for its slot was handed over and the store has not gone back.  *)
(* No record is handed over twice because stamps are unique: a record that *)
(* enters the system is newer than every one known, so that the carried,   *)
(* queued and batched ones stay distinct, and one that was handed over     *)
(* already is covered by the replay.                                       *)
(***************************************************************************)

(* Workers that carry a record which is not handed over yet, while the     *)
(* gate is closed.                                                         *)
Carrying == {w \in Worker : wpc[w] \in {"stamped", "accepted", "holding"}}

(* A record the node has stamped, or the store has seen. *)
Known(r) == r.hlc <= IF r.slot \in OwnSlot THEN stamp ELSE slots[r.slot]

(* Busy workers carry records, and slots hold them. *)
WorkersHaveRecords ==
  /\ \A w \in Worker :
       /\ wpc[w] # "idle" => rec[w] \in Record
       /\ wpc[w] = "stamped" => rec[w].slot \in OwnSlot
  /\ \A s \in Slot : slots[s] # 0 => [slot |-> s, hlc |-> slots[s]] \in Record

(* The gate is in the table from registration to unsubscribe, and closed   *)
(* until Subscribe has drained all there is.                               *)
GateFollowsSubscribe ==
  /\ registered <=> spc \in {"registered", "replay", "drain", "live"}
  /\ replaying <=> spc \notin {"live", "gone"}
  /\ replaying => \A w \in Worker : wpc[w] \notin {"open", "inside"}
  /\ spc # "replay" => snapshot = {}
  /\ spc # "drain" => batch = <<>>
  /\ ~replaying => queue = <<>>
  /\ spc \in {"none", "registered"} => delivered = <<>> /\ \A s \in Slot : replayed[s] = 0

(* Nothing is newer than what the node has stamped or its store has seen.  *)
AllKnown ==
  /\ \A s \in OwnSlot : slots[s] <= stamp
  /\ \A w \in Worker : wpc[w] # "idle" => Known(rec[w])
  /\ \A r \in Range(queue) \cup Range(batch) \cup Range(delivered) : Known(r)
  /\ \A r \in snapshot : r.hlc <= slots[r.slot]
  /\ \A s \in Slot : replayed[s] <= slots[s]

(* Where the newest record of a slot may be, from the snapshot on. *)
NewestOnItsWay ==
  /\ spc \in {"replay", "drain", "live"} =>
       \A s \in Slot : slots[s] # 0 =>
         LET r == [slot |-> s, hlc |-> slots[s]]
         IN \/ r \in snapshot \cup Range(queue) \cup Range(batch) \cup Range(delivered)
            \/ \E w \in Worker : rec[w] = r /\ wpc[w] \in {"accepted", "holding", "open"}
  /\ \A s \in Slot : replayed[s] # 0 => [slot |-> s, hlc |-> replayed[s]] \in Range(delivered)

(* While the gate is closed: the records on their way are distinct, and    *)
(* those already handed over are covered by the replay.                    *)
Distinct ==
  /\ \A w, v \in Carrying : rec[w] = rec[v] => w = v
  /\ \A w \in Carrying : rec[w] \notin Range(queue) \cup Range(batch)
  /\ IsInjective(queue) /\ IsInjective(batch) /\ Range(queue) \cap Range(batch) = {}

OnceOnly ==
  /\ IsInjective(delivered)
  /\ \A w \in Carrying : rec[w] \in Range(delivered) => Covered(rec[w])
  /\ \A r \in Range(queue) \cup Range(batch) : r \in Range(delivered) => Covered(r)
  /\ \A r \in snapshot : replayed[r.slot] = 0
  /\ \A r, q \in snapshot : r.slot = q.slot => r = q
  /\ spc = "replay" => \A r \in Range(delivered) : replayed[r.slot] = r.hlc

(* A slot of SetTenant's snapshot that is done with holds something newer  *)
(* than the swap, or its tombstone is about to be applied.                 *)
Retiring ==
  /\ tenant.swap <= stamp
  /\ tenant.pc = "done" => tenant.todo = {} /\ wpc[Tenant] # "stamped"
  /\ wpc[Tenant] = "stamped" => rec[Tenant].hlc > tenant.swap /\ tenant.pc = "retire"
  /\ tenant.pc \in {"retire", "done"} =>
       \A s \in tenant.mine \ tenant.todo :
         slots[s] > tenant.swap \/ (wpc[Tenant] = "stamped" /\ rec[Tenant].slot = s)

FlowInv ==
  /\ TypeOK /\ WorkersHaveRecords /\ GateFollowsSubscribe /\ AllKnown
  /\ NewestOnItsWay /\ (replaying => Distinct /\ OnceOnly)

DeliveryInv == FlowInv /\ Retiring

-------------------------------------------------------------------------------
(***************************************************************************)
(* Sequences and records.                                                  *)
(***************************************************************************)

LEMMA OrderFacts ==
  \A a, b, c \in Nat : /\ a <= b /\ c >= b => a <= c
                       /\ b > a /\ c >= b => c > a
                       /\ a <= b => b + 1 > a
                       /\ a >= a
                       /\ ~(b > a) => a >= b
OBVIOUS

(* Appending an element adds it to the elements; the others stay.          *)
LEMMA AppendSet ==
  ASSUME NEW S, NEW q \in Seq(S), NEW r \in S
  PROVE  /\ Append(q, r) \in Seq(S)
         /\ Range(Append(q, r)) = Range(q) \cup {r}
         /\ IsInjective(q) /\ r \notin Range(q) => IsInjective(Append(q, r))
<1>1. /\ Append(q, r) \in Seq(S) /\ DOMAIN Append(q, r) = 1 .. Len(q) + 1 /\ Len(q) \in Nat
      /\ DOMAIN q = 1 .. Len(q) /\ Append(q, r)[Len(q) + 1] = r
      /\ \A i \in 1 .. Len(q) : Append(q, r)[i] = q[i]
  OBVIOUS
<1>2. Range(Append(q, r)) = Range(q) \cup {r}
  BY <1>1, Z3 DEF Range
<1>3. ASSUME IsInjective(q), r \notin Range(q) PROVE IsInjective(Append(q, r))
  BY <1>1, <1>3 DEF Range, IsInjective
<1> QED
  BY <1>1, <1>2, <1>3, Zenon

(* Taking the head of a queue away. *)
LEMMA TailSet ==
  ASSUME NEW S, NEW q \in Seq(S), q # <<>>
  PROVE  /\ Head(q) \in S /\ Tail(q) \in Seq(S)
         /\ Range(q) = {Head(q)} \cup Range(Tail(q))
         /\ IsInjective(q) => IsInjective(Tail(q)) /\ Head(q) \notin Range(Tail(q))
<1>1. /\ Len(q) \in Nat \ {0} /\ DOMAIN q = 1 .. Len(q) /\ Head(q) = q[1] /\ Head(q) \in S
      /\ Tail(q) \in Seq(S) /\ DOMAIN Tail(q) = 1 .. Len(q) - 1
      /\ \A i \in 1 .. Len(q) - 1 : Tail(q)[i] = q[i + 1]
  OBVIOUS
<1>2. Range(q) = {Head(q)} \cup Range(Tail(q))
  <2>1. \A i \in 1 .. Len(q) : i = 1 \/ (i - 1 \in 1 .. Len(q) - 1 /\ q[i] = Tail(q)[i - 1])
    BY <1>1
  <2>2. \A i \in 1 .. Len(q) - 1 : i + 1 \in 1 .. Len(q)
    BY <1>1
  <2>3. Range(q) \subseteq {Head(q)} \cup Range(Tail(q))
    <3>1. ASSUME NEW i \in 1 .. Len(q) PROVE q[i] \in {Head(q)} \cup Range(Tail(q))
      <4>1. CASE i = 1
        BY <1>1, <4>1
      <4>2. CASE i # 1
        BY <1>1, <2>1, <4>2, Zenon DEF Range
      <4> QED
        BY <4>1, <4>2
    <3> QED
      BY <1>1, <3>1 DEF Range
  <2>4. {Head(q)} \cup Range(Tail(q)) \subseteq Range(q)
    BY <1>1, <2>2 DEF Range
  <2> QED
    BY <2>3, <2>4
<1>3. ASSUME IsInjective(q) PROVE IsInjective(Tail(q)) /\ Head(q) \notin Range(Tail(q))
  BY <1>1, <1>3 DEF Range, IsInjective
<1> QED
  BY <1>1, <1>2, <1>3

(* The same for records, and the sequence that results. *)
LEMMA AppendRecord ==
  ASSUME NEW q \in Seq(Record), NEW r \in Record, NEW t, t = Append(q, r)
  PROVE  /\ t \in Seq(Record) /\ Range(t) = Range(q) \cup {r}
         /\ IsInjective(q) /\ r \notin Range(q) => IsInjective(t)
BY AppendSet

(* The elements of a sequence over a set. *)
LEMMA ElementsOf ==
  ASSUME NEW S, NEW q \in Seq(S)
  PROVE  Range(q) \subseteq S
BY DEF Range

(* What waits and what was handed over are records. *)
LEMMA QueuedAreRecords ==
  ASSUME FlowInv
  PROVE  Range(queue) \cup Range(batch) \cup Range(delivered) \subseteq Record /\ snapshot \subseteq Record
<1>1. queue \in Seq(Record) /\ batch \in Seq(Record) /\ delivered \in Seq(Record)
      /\ snapshot \subseteq Record
  BY Zenon DEF FlowInv, TypeOK
<1> QED
  BY <1>1, ElementsOf, Zenon

LEMMA EmptySeqSet == Range(<<>>) = {} /\ IsInjective(<<>>)
  BY DEF Range, IsInjective

(* A record is its slot and its stamp, which is not 0. *)
LEMMA RecordFacts ==
  ASSUME NEW r \in Record
  PROVE  /\ r.slot \in Slot /\ r.hlc \in Nat \ {0} /\ r = [slot |-> r.slot, hlc |-> r.hlc]
         /\ r.slot \in OwnSlot => r.hlc \in 1 .. MaxStamp
  BY DeliveryAssumption DEF Record, Slot

(* Nothing is stamped, stored or subscribed. *)
LEMMA InitFlow == Init => FlowInv
<1> SUFFICES ASSUME Init PROVE FlowInv
  OBVIOUS
<1>1. TypeOK
  <2>1. tenant \in TenantCall /\ stamp \in 0 .. MaxStamp
    <3>1. stamp \in 0 .. MaxStamp /\ 0 \in 0 .. MaxStamp
      BY DeliveryAssumption DEF Init
    <3> QED
      BY <3>1 DEF Init, TenantCall
  <2>2. slots \in [Slot -> Nat] /\ replayed \in [Slot -> Nat]
    BY DEF Init
  <2>3. wpc \in [Worker -> WorkerStates] /\ rec \in [Worker -> Record \cup {NoRec}]
    BY DEF Init, WorkerStates
  <2>4. spc \in SubscribeStates /\ registered \in BOOLEAN /\ replaying \in BOOLEAN
    BY Zenon DEF Init, SubscribeStates
  <2>5. queue \in Seq(Record) /\ batch \in Seq(Record) /\ delivered \in Seq(Record)
        /\ snapshot \subseteq Record
    BY DEF Init
  <2> QED
    BY <2>1, <2>2, <2>3, <2>4, <2>5 DEF TypeOK
<1>2. WorkersHaveRecords /\ GateFollowsSubscribe
  BY DEF Init, WorkersHaveRecords, GateFollowsSubscribe
<1>3. AllKnown
  BY EmptySeqSet, DeliveryAssumption DEF Init, AllKnown, Slot
<1>4. NewestOnItsWay
  BY DEF Init, NewestOnItsWay
<1>5. Distinct /\ OnceOnly
  BY EmptySeqSet, Zenon DEF Init, Distinct, OnceOnly, Carrying
<1> QED
  BY <1>1, <1>2, <1>3, <1>4, <1>5 DEF FlowInv

(* A record the node did not know differs from every one it did. *)
LEMMA NewIsDistinct ==
  ASSUME FlowInv, NEW r \in Record, ~Known(r)
  PROVE  /\ \A w \in Worker : wpc[w] # "idle" => rec[w] # r
         /\ r \notin Range(queue) \cup Range(batch) \cup Range(delivered)
  BY Zenon DEF FlowInv, AllKnown

(* What is known stays known while stamps and slots only grow. *)
LEMMA KnownStays ==
  ASSUME FlowInv, NEW r \in Record, Known(r), slots' \in [Slot -> Nat], stamp' \in Nat,
         stamp' >= stamp, \A s \in Slot : slots'[s] >= slots[s]
  PROVE  Known(r)'
<1>1. r.slot \in Slot /\ r.hlc \in Nat /\ stamp \in Nat /\ slots[r.slot] \in Nat /\ slots'[r.slot] \in Nat
  BY RecordFacts, DeliveryAssumption DEF FlowInv, TypeOK
<1> QED
  BY <1>1 DEF Known

(* SignRecord and SignTombstone: a worker gets a record with a new stamp. *)
Signs(w, s) ==
  /\ wpc[w] = "idle" /\ stamp < MaxStamp
  /\ stamp' = stamp + 1
  /\ rec' = [rec EXCEPT ![w] = [slot |-> s, hlc |-> stamp + 1]]
  /\ wpc' = [wpc EXCEPT ![w] = "stamped"]
  /\ UNCHANGED <<slots, gate, queue, delivered>>

LEMMA SignKeeps ==
  ASSUME FlowInv, NEW w \in Worker, NEW s \in OwnSlot, Signs(w, s), tenant' \in TenantCall
  PROVE  FlowInv'
<1>0. stamp \in Nat /\ stamp + 1 \in 1 .. MaxStamp /\ MaxStamp \in Nat
  BY DeliveryAssumption DEF FlowInv, TypeOK, Signs
<1>a. PICK r \in Record : r = [slot |-> s, hlc |-> stamp + 1]
  BY <1>0, Zenon DEF Record
<1>1. r \in Record /\ ~Known(r) /\ r.slot = s /\ r.hlc = stamp + 1 /\ Known(r)'
  BY <1>0, <1>a DEF Known, Signs
<1>2. TypeOK'
  BY <1>0, <1>a DEF FlowInv, TypeOK, Signs, gate, WorkerStates
<1>3. WorkersHaveRecords'
  BY <1>a, Zenon DEF FlowInv, TypeOK, WorkersHaveRecords, Signs
<1>4. GateFollowsSubscribe'
  BY DEF FlowInv, TypeOK, GateFollowsSubscribe, Signs, gate
<1>5. AllKnown'
  <2>1. \A q \in Record : Known(q) => Known(q)'
    <3>1. slots' = slots /\ slots \in [Slot -> Nat] /\ stamp' \in Nat /\ stamp' >= stamp
      BY <1>0 DEF FlowInv, TypeOK, Signs
    <3>2. \A x \in Slot : slots'[x] >= slots[x]
      BY <3>1
    <3> QED
      BY <3>1, <3>2, KnownStays
  <2>2. Range(queue) \cup Range(batch) \cup Range(delivered) \subseteq Record
    BY QueuedAreRecords, Zenon
  <2> QED
    <3>1. ASSUME NEW v \in Worker, wpc'[v] # "idle" PROVE Known(rec[v])'
      BY <1>a, <1>1, <2>1, <3>1 DEF FlowInv, TypeOK, AllKnown, WorkersHaveRecords, Signs
    <3>2. \A x \in OwnSlot : slots'[x] <= stamp'
      <4>1. slots' = slots /\ stamp' = stamp + 1
        BY Zenon DEF Signs
      <4>2. \A x \in OwnSlot : slots[x] <= stamp /\ slots[x] \in Nat
        BY Zenon DEF FlowInv, TypeOK, AllKnown, Slot
      <4> QED
        BY <1>0, <4>1, <4>2
    <3>3. UNCHANGED <<queue, batch, delivered, snapshot, replayed, slots>>
      BY DEF Signs, gate
    <3> QED
      BY <2>1, <2>2, <3>1, <3>2, <3>3, Zenon DEF FlowInv, AllKnown
<1>6. NewestOnItsWay'
  BY Zenon DEF FlowInv, TypeOK, NewestOnItsWay, Signs, gate
<1>7. ASSUME replaying' PROVE Distinct' /\ OnceOnly'
  <2>1. Carrying' = Carrying \cup {w} /\ w \notin Carrying /\ rec'[w] = r
        /\ \A v \in Carrying : rec'[v] = rec[v] /\ rec[v] # r
    BY <1>a, <1>1, NewIsDistinct, Zenon DEF FlowInv, TypeOK, Carrying, Signs
  <2>2. r \notin Range(queue) \cup Range(batch) \cup Range(delivered)
    BY <1>1, NewIsDistinct, Zenon
  <2>3. Distinct /\ OnceOnly
    BY <1>7 DEF FlowInv, Signs, gate
  <2>4. Distinct'
    BY <2>1, <2>2, <2>3 DEF Distinct, Signs, gate
  <2>5. OnceOnly'
    BY <2>1, <2>2, <2>3, Zenon DEF OnceOnly, Signs, gate, Covered
  <2> QED
    BY <2>4, <2>5
<1> QED
  BY <1>2, <1>3, <1>4, <1>5, <1>6, <1>7 DEF FlowInv

(* ApplyLocal, ApplyRemote and ApplyTombstone when the store takes r: from *)
(* a worker that stamped it, or from the wire.                             *)
Stores(w, r) ==
  /\ r.hlc > slots[r.slot]
  /\ \/ wpc[w] = "stamped" /\ rec[w] = r
     \/ wpc[w] = "idle" /\ r.slot \notin OwnSlot
  /\ Take(r)
  /\ rec' = [rec EXCEPT ![w] = r]
  /\ wpc' = [wpc EXCEPT ![w] = "accepted"]
  /\ UNCHANGED <<stamp, tenant, gate, queue, delivered>>

(* The store only moves forward. *)
LEMMA StoreGrows ==
  ASSUME FlowInv, NEW w \in Worker, NEW r \in Record, Stores(w, r)
  PROVE  slots' \in [Slot -> Nat] /\ \A s \in Slot : slots'[s] >= slots[s]
  BY RecordFacts DEF FlowInv, TypeOK, Stores, Take

(* The store takes a worker's record, which becomes the newest of its      *)
(* slot.                                                                   *)
LEMMA StoreKeeps ==
  ASSUME FlowInv, NEW w \in Worker, NEW r \in Record, Stores(w, r)
  PROVE  FlowInv'
<1>1. r.slot \in Slot /\ r.hlc \in Nat \ {0} /\ r = [slot |-> r.slot, hlc |-> r.hlc]
      /\ slots \in [Slot -> Nat] /\ stamp \in Nat /\ OwnSlot \subseteq Slot
  BY RecordFacts, DeliveryAssumption DEF FlowInv, TypeOK, Slot
<1>2. slots' \in [Slot -> Nat] /\ (\A s \in Slot : slots'[s] >= slots[s]) /\ stamp' = stamp
      /\ slots'[r.slot] = r.hlc /\ \A s \in Slot : s # r.slot => slots'[s] = slots[s]
  BY <1>1, StoreGrows DEF Stores, Take
<1>3. UNCHANGED <<queue, batch, delivered, snapshot, replayed, spc, registered, replaying>>
  BY Zenon DEF Stores, gate
<1>4. rec'[w] = r /\ wpc'[w] = "accepted" /\ wpc[w] \in {"stamped", "idle"}
      /\ \A v \in Worker : v # w => rec'[v] = rec[v] /\ wpc'[v] = wpc[v]
  BY DEF FlowInv, TypeOK, Stores
<1>5. TypeOK'
  BY <1>2, <1>3 DEF FlowInv, TypeOK, Stores, WorkerStates
<1>6. WorkersHaveRecords'
  <2>1. \A s \in Slot : slots'[s] # 0 => [slot |-> s, hlc |-> slots'[s]] \in Record
    BY <1>1, <1>2 DEF FlowInv, WorkersHaveRecords
  <2>2. rec'[w].slot \in OwnSlot \/ wpc'[w] # "stamped"
    BY <1>4, Zenon
  <2> QED
    BY <1>4, <2>1, <2>2, Zenon DEF FlowInv, WorkersHaveRecords
<1>7. GateFollowsSubscribe'
  BY <1>3, <1>4, Zenon DEF FlowInv, GateFollowsSubscribe
<1>8. wpc[w] = "stamped" => Known(r)
  BY Zenon DEF FlowInv, AllKnown, Stores
<1>9. AllKnown'
  <2>1. \A q \in Record : Known(q) => Known(q)'
    BY <1>1, <1>2, KnownStays
  <2>2. Range(queue) \cup Range(batch) \cup Range(delivered) \subseteq Record /\ snapshot \subseteq Record
    BY QueuedAreRecords, Zenon
  <2>3. Known(r)'
    BY <1>1, <1>2, <1>8, <2>1 DEF Known, Stores
  <2>4. ASSUME NEW v \in Worker, wpc'[v] # "idle" PROVE Known(rec[v])'
    BY <1>4, <2>1, <2>3, <2>4, Zenon DEF FlowInv, AllKnown, WorkersHaveRecords
  <2>5. \A x \in OwnSlot : slots'[x] <= stamp'
    BY <1>1, <1>2, <1>8 DEF FlowInv, AllKnown, Known, Stores
  <2>6. \A q \in snapshot : q.hlc <= slots'[q.slot]
    BY <1>1, <1>2, <2>2, RecordFacts DEF FlowInv, AllKnown
  <2>7. \A x \in Slot : replayed[x] <= slots'[x]
    BY <1>1, <1>2 DEF FlowInv, TypeOK, AllKnown
  <2>8. \A q \in Range(queue) \cup Range(batch) \cup Range(delivered) : Known(q)'
    BY <2>1, <2>2, Zenon DEF FlowInv, AllKnown
  <2> QED
    BY <1>3, <2>4, <2>5, <2>6, <2>7, <2>8, Zenon DEF AllKnown
<1>10. NewestOnItsWay'
  <2> SUFFICES ASSUME spc \in {"replay", "drain", "live"}, NEW s \in Slot, slots'[s] # 0
               PROVE  LET q == [slot |-> s, hlc |-> slots'[s]]
                      IN \/ q \in snapshot \cup Range(queue) \cup Range(batch) \cup Range(delivered)
                         \/ \E v \in Worker : rec'[v] = q /\ wpc'[v] \in {"accepted", "holding", "open"}
    BY <1>3, Zenon DEF FlowInv, NewestOnItsWay
  <2>1. CASE s = r.slot
    BY <1>1, <1>2, <1>4, <2>1
  <2>2. CASE s # r.slot
    <3>1. slots'[s] = slots[s]
      BY <1>2, <2>2, Zenon
    <3> QED
      <4> DEFINE q == [slot |-> s, hlc |-> slots[s]]
      <4>1. \/ q \in snapshot \cup Range(queue) \cup Range(batch) \cup Range(delivered)
            \/ \E v \in Worker : rec[v] = q /\ wpc[v] \in {"accepted", "holding", "open"}
        BY <3>1, Zenon DEF FlowInv, NewestOnItsWay
      <4> HIDE DEF q
      <4>2. ASSUME NEW v \in Worker, rec[v] = q, wpc[v] \in {"accepted", "holding", "open"}
            PROVE  \E u \in Worker : rec'[u] = q /\ wpc'[u] \in {"accepted", "holding", "open"}
        <5>1. v # w
          BY <1>4, <4>2, Zenon
        <5> QED
          BY <1>4, <4>2, <5>1, Zenon
      <4> QED
        BY <3>1, <4>1, <4>2, Zenon DEF q
  <2> QED
    BY <2>1, <2>2, Zenon
<1>11. ASSUME replaying' PROVE Distinct' /\ OnceOnly'
  <2>1. Distinct /\ OnceOnly
    BY <1>3, <1>11 DEF FlowInv
  <2>2. \/ Carrying' = Carrying /\ w \in Carrying /\ rec[w] = r
        \/ /\ Carrying' = Carrying \cup {w} /\ w \notin Carrying
           /\ \A v \in Carrying : rec[v] # r
           /\ r \notin Range(queue) \cup Range(batch) \cup Range(delivered)
    <3>1. CASE wpc[w] = "stamped" /\ rec[w] = r
      BY <1>4, <3>1, Zenon DEF Carrying
    <3>2. CASE wpc[w] = "idle" /\ r.slot \notin OwnSlot
      <4>1. ~Known(r)
        BY <1>1, <3>2 DEF Known, Stores
      <4> QED
        BY <1>4, <3>2, <4>1, NewIsDistinct, Zenon DEF Carrying
    <3> QED
      BY <3>1, <3>2, Zenon DEF Stores
  <2>3. \A v \in Carrying' : rec'[v] = IF v = w THEN r ELSE rec[v]
    BY <1>4, <2>2, Zenon DEF Carrying
  <2>4. Distinct'
    BY <1>3, <2>1, <2>2, <2>3, Zenon DEF Distinct
  <2>5. OnceOnly'
    BY <1>3, <2>1, <2>2, <2>3, Zenon DEF OnceOnly, Covered
  <2> QED
    BY <2>4, <2>5
<1> QED
  BY <1>5, <1>6, <1>7, <1>9, <1>10, <1>11 DEF FlowInv

(* A worker moves on and touches nothing else. *)
Moves(w, at) ==
  /\ wpc' = [wpc EXCEPT ![w] = at]
  /\ UNCHANGED <<store, rec, gate, queue, delivered>>

(* It may drop its record only when no subscriber is due to get it. *)
LEMMA MoveKeeps ==
  ASSUME FlowInv, NEW w \in Worker, NEW at \in WorkerStates, Moves(w, at),
         wpc[w] # "idle", at # "stamped",
         at \in {"open", "inside"} => ~replaying,
         at \in {"accepted", "holding"} => w \in Carrying,
         \/ wpc[w] \notin {"accepted", "holding", "open"}
         \/ at \in {"accepted", "holding", "open"}
         \/ spc \notin {"replay", "drain", "live"}
  PROVE  FlowInv'
<1>1. UNCHANGED <<slots, stamp, tenant, rec, queue, batch, delivered, snapshot, replayed, spc,
                  registered, replaying>>
  BY DEF Moves, store, gate
<1>2. wpc'[w] = at /\ \A v \in Worker : v # w => wpc'[v] = wpc[v]
  BY DEF FlowInv, TypeOK, Moves
<1>3. TypeOK'
  BY <1>1 DEF FlowInv, TypeOK, Moves
<1>4. WorkersHaveRecords'
  BY <1>1, <1>2, Zenon DEF FlowInv, WorkersHaveRecords
<1>5. GateFollowsSubscribe'
  BY <1>1, <1>2, Zenon DEF FlowInv, GateFollowsSubscribe
<1>6. AllKnown'
  BY <1>1, <1>2, Zenon DEF FlowInv, AllKnown, Known
<1>7. NewestOnItsWay'
  BY <1>1, <1>2, Zenon DEF FlowInv, NewestOnItsWay
<1>8. ASSUME replaying' PROVE Distinct' /\ OnceOnly'
  <2>1. Distinct /\ OnceOnly
    BY <1>1, <1>8 DEF FlowInv
  <2>2. Carrying' \subseteq Carrying
    BY <1>2 DEF Carrying
  <2>3. Distinct'
    BY <1>1, <2>1, <2>2, Zenon DEF Distinct
  <2>4. OnceOnly'
    BY <1>1, <2>1, <2>2, Zenon DEF OnceOnly, Covered
  <2> QED
    BY <2>3, <2>4
<1> QED
  BY <1>3, <1>4, <1>5, <1>6, <1>7, <1>8 DEF FlowInv

(* deliverToSubs: nobody is registered before the snapshot is taken. *)
LEMMA CopyKeeps ==
  ASSUME FlowInv, NEW w \in Worker, CopyCallbacks(w)
  PROVE  FlowInv'
<1>1. CASE registered
  <2>1. Moves(w, "holding") /\ wpc[w] = "accepted" /\ w \in Carrying
    BY <1>1 DEF CopyCallbacks, Moves, Carrying
  <2> QED
    BY <2>1, MoveKeeps DEF WorkerStates
<1>2. CASE ~registered
  <2>1. Moves(w, "idle") /\ wpc[w] = "accepted" /\ spc \notin {"replay", "drain", "live"}
    BY <1>2 DEF CopyCallbacks, Moves, FlowInv, GateFollowsSubscribe
  <2> QED
    BY <2>1, MoveKeeps DEF WorkerStates
<1> QED
  BY <1>1, <1>2

(* subGate.deliver queues behind the replay. *)
LEMMA QueueKeeps ==
  ASSUME FlowInv, NEW w \in Worker, EnterGate(w), replaying
  PROVE  FlowInv'
<1>1. UNCHANGED <<slots, stamp, tenant, rec, batch, delivered, snapshot, replayed, spc,
                  registered, replaying>>
  BY DEF EnterGate, store, gate
<1>2. /\ wpc[w] = "holding" /\ wpc' = [wpc EXCEPT ![w] = "idle"] /\ queue' = Append(queue, rec[w])
      /\ wpc'[w] = "idle" /\ \A v \in Worker : v # w => wpc'[v] = wpc[v]
  BY DEF EnterGate, FlowInv, TypeOK
<1>3. rec[w] \in Record /\ queue \in Seq(Record) /\ w \in Carrying
  BY <1>2 DEF FlowInv, TypeOK, WorkersHaveRecords, Carrying
<1>4. queue' \in Seq(Record) /\ Range(queue') = Range(queue) \cup {rec[w]}
      /\ (IsInjective(queue) /\ rec[w] \notin Range(queue) => IsInjective(queue'))
  BY <1>2, <1>3, AppendRecord, Zenon
<1>5. TypeOK'
  BY <1>1, <1>2, <1>4 DEF FlowInv, TypeOK, WorkerStates
<1>6. WorkersHaveRecords'
  BY <1>1, <1>2, Zenon DEF FlowInv, WorkersHaveRecords
<1>7. GateFollowsSubscribe'
  BY <1>1, <1>2 DEF FlowInv, GateFollowsSubscribe
<1>8. AllKnown'
  BY <1>1, <1>2, <1>4, Zenon DEF FlowInv, AllKnown, Known
<1>9. NewestOnItsWay'
  BY <1>1, <1>2, <1>4, Zenon DEF FlowInv, NewestOnItsWay
<1>10. Distinct' /\ OnceOnly'
  <2>1. Distinct /\ OnceOnly
    BY DEF FlowInv
  <2>2. Carrying' = Carrying \ {w}
    BY <1>2 DEF Carrying
  <2>3. Distinct'
    BY <1>1, <1>3, <1>4, <2>1, <2>2 DEF Distinct
  <2>4. OnceOnly'
    BY <1>1, <1>3, <1>4, <2>1, <2>2, Zenon DEF OnceOnly, Covered
  <2> QED
    BY <2>3, <2>4
<1> QED
  BY <1>5, <1>6, <1>7, <1>8, <1>9, <1>10 DEF FlowInv

(* With the gate open a worker goes on to the subscriber. *)
LEMMA OpenKeeps ==
  ASSUME FlowInv, NEW w \in Worker, EnterGate(w), ~replaying
  PROVE  FlowInv'
<1>1. Moves(w, "open") /\ wpc[w] = "holding"
  BY DEF EnterGate, Moves
<1> QED
  BY <1>1, MoveKeeps DEF WorkerStates

(* A worker past the open gate hands its record over. *)
LEMMA CallKeeps ==
  ASSUME FlowInv, NEW w \in Worker, CallSubscriber(w)
  PROVE  FlowInv'
<1>1. UNCHANGED <<slots, stamp, tenant, rec, queue, batch, snapshot, replayed, spc,
                  registered, replaying>>
  BY DEF CallSubscriber, store, gate
<1>2. /\ wpc[w] = "open" /\ wpc' = [wpc EXCEPT ![w] = "inside"]
      /\ delivered' = Append(delivered, rec[w])
      /\ wpc'[w] = "inside" /\ \A v \in Worker : v # w => wpc'[v] = wpc[v]
  BY DEF CallSubscriber, FlowInv, TypeOK
<1>3. rec[w] \in Record /\ delivered \in Seq(Record) /\ ~replaying
  BY <1>2 DEF FlowInv, TypeOK, WorkersHaveRecords, GateFollowsSubscribe
<1>4. delivered' \in Seq(Record) /\ Range(delivered') = Range(delivered) \cup {rec[w]}
  BY <1>2, <1>3, AppendRecord, Zenon
<1>5. TypeOK'
  BY <1>1, <1>2, <1>4 DEF FlowInv, TypeOK, WorkerStates
<1>6. WorkersHaveRecords'
  BY <1>1, <1>2, Zenon DEF FlowInv, WorkersHaveRecords
<1>7. GateFollowsSubscribe'
  BY <1>1, <1>2, <1>3, Zenon DEF FlowInv, GateFollowsSubscribe
<1>8. AllKnown'
  BY <1>1, <1>2, <1>4, Zenon DEF FlowInv, AllKnown, Known
<1>9. NewestOnItsWay'
  BY <1>1, <1>2, <1>4, Zenon DEF FlowInv, NewestOnItsWay
<1> QED
  BY <1>1, <1>3, <1>5, <1>6, <1>7, <1>8, <1>9 DEF FlowInv

-------------------------------------------------------------------------------
(***************************************************************************)
(* Subscribe.                                                              *)
(***************************************************************************)

(* The gate goes in, or out of, the table. *)
LEMMA RegisterKeeps ==
  ASSUME FlowInv, Register \/ unsubscribe
  PROVE  FlowInv'
<1>1. UNCHANGED <<slots, stamp, tenant, wpc, rec, queue, batch, delivered, snapshot, replayed,
                  replaying>>
  BY DEF Register, unsubscribe, store
<1>2. \/ spc = "none" /\ spc' = "registered" /\ registered' = TRUE
      \/ spc = "live" /\ spc' = "gone" /\ registered' = FALSE
  BY DEF Register, unsubscribe
<1>3. TypeOK'
  BY <1>1, <1>2, Zenon DEF FlowInv, TypeOK, SubscribeStates
<1>4. WorkersHaveRecords'
  BY <1>1, Zenon DEF FlowInv, WorkersHaveRecords
<1>5. GateFollowsSubscribe'
  BY <1>1, <1>2 DEF FlowInv, GateFollowsSubscribe
<1>6. AllKnown'
  BY <1>1, Zenon DEF FlowInv, AllKnown, Known
<1>7. NewestOnItsWay'
  BY <1>1, <1>2, Zenon DEF FlowInv, NewestOnItsWay
<1>8. replaying' => Distinct' /\ OnceOnly'
  BY <1>1, <1>2, Zenon DEF FlowInv, Distinct, OnceOnly, Carrying, Covered
<1> QED
  BY <1>3, <1>4, <1>5, <1>6, <1>7, <1>8 DEF FlowInv

(* The snapshot holds the newest record of every slot. *)
LEMMA SnapshotKeeps ==
  ASSUME FlowInv, TakeSnapshot
  PROVE  FlowInv'
<1>1. UNCHANGED <<slots, stamp, tenant, wpc, rec, queue, batch, delivered, replayed, registered,
                  replaying>>
  BY Zenon DEF TakeSnapshot, store
<1>2. /\ spc = "registered" /\ spc' = "replay" /\ delivered = <<>> /\ replaying
      /\ \A s \in Slot : replayed[s] = 0
  BY Zenon DEF TakeSnapshot, FlowInv, GateFollowsSubscribe
<1>3. ASSUME NEW s \in Slot, slots[s] # 0 PROVE [slot |-> s, hlc |-> slots[s]] \in snapshot'
  BY <1>3, Zenon DEF TakeSnapshot
<1>4. ASSUME NEW r \in snapshot'
      PROVE  r.slot \in Slot /\ slots[r.slot] # 0 /\ r = [slot |-> r.slot, hlc |-> slots[r.slot]]
  BY <1>4 DEF TakeSnapshot
<1>5. TypeOK'
  <2>1. snapshot' \subseteq Record
    BY <1>4 DEF FlowInv, WorkersHaveRecords
  <2> QED
    BY <1>1, <1>2, <2>1 DEF FlowInv, TypeOK, SubscribeStates
<1>6. WorkersHaveRecords'
  BY <1>1, Zenon DEF FlowInv, WorkersHaveRecords
<1>7. GateFollowsSubscribe'
  BY <1>1, <1>2 DEF FlowInv, GateFollowsSubscribe
<1>8. AllKnown'
  <2>1. \A r \in snapshot' : r.hlc <= slots'[r.slot]
    BY <1>1, <1>4 DEF FlowInv, TypeOK
  <2> QED
    BY <1>1, <2>1, Zenon DEF FlowInv, AllKnown, Known
<1>9. NewestOnItsWay'
  BY <1>1, <1>2, <1>3, Zenon DEF FlowInv, NewestOnItsWay
<1>10. Distinct' /\ OnceOnly'
  <2>1. Distinct /\ OnceOnly
    BY <1>2 DEF FlowInv
  <2>2. Distinct'
    BY <1>1, <2>1, Zenon DEF Distinct, Carrying
  <2>3. OnceOnly'
    <3>1. \A r \in snapshot' : replayed'[r.slot] = 0
      BY <1>1, <1>2, <1>4
    <3>2. \A r, q \in snapshot' : r.slot = q.slot => r = q
      BY <1>4
    <3>3. Range(delivered) = {}
      BY <1>2, EmptySeqSet
    <3> QED
      BY <1>1, <2>1, <3>1, <3>2, <3>3, Zenon DEF OnceOnly, Carrying
  <2> QED
    BY <2>2, <2>3
<1> QED
  BY <1>5, <1>6, <1>7, <1>8, <1>9, <1>10 DEF FlowInv

(* One record of the snapshot is handed over: the first of its slot. *)
LEMMA ReplayKeeps ==
  ASSUME FlowInv, NEW r \in snapshot, ReplayOne(r)
  PROVE  FlowInv'
<1>1. UNCHANGED <<slots, stamp, tenant, wpc, rec, spc, registered, replaying, queue, batch>>
  BY DEF ReplayOne, store
<1>2. /\ spc = "replay" /\ replaying /\ snapshot' = snapshot \ {r}
      /\ replayed' = [replayed EXCEPT ![r.slot] = r.hlc] /\ delivered' = Append(delivered, r)
  BY DEF ReplayOne, FlowInv, GateFollowsSubscribe
<1>3. /\ r \in Record /\ r.slot \in Slot /\ r.hlc \in Nat \ {0}
      /\ r = [slot |-> r.slot, hlc |-> r.hlc] /\ delivered \in Seq(Record)
      /\ slots \in [Slot -> Nat] /\ stamp \in Nat /\ replayed \in [Slot -> Nat]
  BY RecordFacts, DeliveryAssumption DEF FlowInv, TypeOK
<1>4. delivered' \in Seq(Record) /\ Range(delivered') = Range(delivered) \cup {r}
      /\ (IsInjective(delivered) /\ r \notin Range(delivered) => IsInjective(delivered'))
  BY <1>2, <1>3, AppendSet
<1>5. replayed' \in [Slot -> Nat] /\ replayed'[r.slot] = r.hlc
      /\ \A s \in Slot : s # r.slot => replayed'[s] = replayed[s]
  BY <1>2, <1>3
<1>6. TypeOK'
  BY <1>1, <1>2, <1>4, <1>5 DEF FlowInv, TypeOK
<1>7. WorkersHaveRecords'
  BY <1>1, Zenon DEF FlowInv, WorkersHaveRecords
<1>8. GateFollowsSubscribe'
  BY <1>1, <1>2 DEF FlowInv, GateFollowsSubscribe
<1>9. AllKnown'
  <2>1. r.hlc <= slots[r.slot]
    BY Zenon DEF FlowInv, AllKnown
  <2>2. Known(r)
    BY <1>3, <2>1 DEF FlowInv, AllKnown, Known
  <2>3. \A s \in Slot : replayed'[s] <= slots[s]
    BY <1>5, <2>1 DEF FlowInv, AllKnown
  <2> QED
    BY <1>1, <1>2, <1>4, <2>2, <2>3, Zenon DEF FlowInv, AllKnown, Known
<1>10. NewestOnItsWay'
  BY <1>1, <1>2, <1>3, <1>4, <1>5, Zenon DEF FlowInv, NewestOnItsWay
<1>11. Distinct' /\ OnceOnly'
  <2>1. Distinct /\ OnceOnly
    BY <1>2 DEF FlowInv
  <2>2. Distinct'
    BY <1>1, <2>1, Zenon DEF Distinct, Carrying
  <2>3. replayed[r.slot] = 0 /\ \A q \in Range(delivered) : q \in Record /\ q.slot # r.slot
    <3>1. \A q \in Range(delivered) : q \in Record /\ replayed[q.slot] = q.hlc
      BY <1>2, <1>3, <2>1 DEF OnceOnly, Range
    <3> QED
      BY <2>1, <3>1, RecordFacts DEF OnceOnly
  <2>4. r \notin Range(delivered)
    BY <2>3
  <2>5. \A q \in Record : q = r \/ (q.slot # r.slot /\ Covered(q)) => Covered(q)'
    BY <1>3, <1>5, RecordFacts DEF Covered
  <2>6. OnceOnly'
    <3>1. ASSUME NEW q \in Record, q \in Range(delivered) => Covered(q), q \in Range(delivered')
          PROVE  Covered(q)'
      BY <1>4, <2>3, <2>5, <3>1, Zenon
    <3>2. \A w \in Carrying : rec[w] \in Record
      BY Zenon DEF FlowInv, WorkersHaveRecords, Carrying
    <3>3. Range(queue) \cup Range(batch) \subseteq Record /\ snapshot \subseteq Record
      BY QueuedAreRecords, Zenon
    <3>4. (\A w \in Carrying : rec[w] \in Range(delivered) => Covered(rec[w]))'
      BY <1>1, <2>1, <3>1, <3>2, Zenon DEF OnceOnly, Carrying, Covered
    <3>5. (\A q \in Range(queue) \cup Range(batch) : q \in Range(delivered) => Covered(q))'
      BY <1>1, <2>1, <3>1, <3>3, Zenon DEF OnceOnly
    <3>6. /\ \A q \in snapshot' : replayed'[q.slot] = 0
          /\ \A q, x \in snapshot' : q.slot = x.slot => q = x
      BY <1>2, <1>5, <2>1, <3>3, RecordFacts DEF OnceOnly
    <3>7. \A q \in Range(delivered') : replayed'[q.slot] = q.hlc
      BY <1>2, <1>4, <1>5, <2>1, <2>3, RecordFacts, Zenon DEF OnceOnly
    <3>8. IsInjective(delivered)'
      BY <1>4, <2>1, <2>4, Zenon DEF OnceOnly
    <3> QED
      BY <3>4, <3>5, <3>6, <3>7, <3>8, Zenon DEF OnceOnly
  <2> QED
    BY <2>2, <2>6
<1> QED
  BY <1>6, <1>7, <1>8, <1>9, <1>10, <1>11 DEF FlowInv

(* finishReplay takes what was queued, or opens the gate. *)
LEMMA BatchKeeps ==
  ASSUME FlowInv, NextBatch
  PROVE  FlowInv'
<1>1. UNCHANGED <<slots, stamp, tenant, wpc, rec, registered, snapshot, replayed, delivered>>
  BY DEF NextBatch, store
<1>2. spc \in {"replay", "drain"} /\ replaying /\ snapshot = {} /\ batch = <<>>
  BY DEF NextBatch, FlowInv, GateFollowsSubscribe
<1>3. Range(<<>>) = {} /\ IsInjective(<<>>) /\ <<>> \in Seq(Record) /\ Distinct /\ OnceOnly
  BY <1>2, EmptySeqSet DEF FlowInv
<1>4. WorkersHaveRecords'
  BY <1>1, Zenon DEF FlowInv, WorkersHaveRecords
<1>5. CASE queue # <<>>
  <2>1. batch' = queue /\ queue' = <<>> /\ spc' = "drain" /\ replaying' = replaying
    BY <1>5 DEF NextBatch
  <2>2. TypeOK'
    BY <1>1, <1>3, <2>1 DEF FlowInv, TypeOK, SubscribeStates
  <2>3. GateFollowsSubscribe'
    BY <1>1, <1>2, <2>1, Zenon DEF FlowInv, GateFollowsSubscribe
  <2>4. AllKnown'
    BY <1>1, <1>2, <1>3, <2>1, Zenon DEF FlowInv, AllKnown, Known
  <2>5. NewestOnItsWay'
    BY <1>1, <1>2, <1>3, <2>1, Zenon DEF FlowInv, NewestOnItsWay
  <2>6. Distinct'
    BY <1>1, <1>2, <1>3, <2>1, Zenon DEF Distinct, Carrying
  <2>7. OnceOnly'
    BY <1>1, <1>2, <1>3, <2>1, Zenon DEF OnceOnly, Carrying, Covered
  <2> QED
    BY <1>4, <2>2, <2>3, <2>4, <2>5, <2>6, <2>7 DEF FlowInv
<1>6. CASE queue = <<>>
  <2>1. batch' = batch /\ queue' = queue /\ spc' = "live" /\ ~replaying' /\ replaying' \in BOOLEAN
    BY <1>6, Zenon DEF NextBatch
  <2>2. TypeOK'
    BY <1>1, <2>1 DEF FlowInv, TypeOK, SubscribeStates
  <2>3. GateFollowsSubscribe'
    BY <1>1, <1>2, <1>6, <2>1 DEF FlowInv, GateFollowsSubscribe
  <2>4. AllKnown'
    BY <1>1, <2>1, Zenon DEF FlowInv, AllKnown, Known
  <2>5. NewestOnItsWay'
    BY <1>1, <1>2, <2>1, Zenon DEF FlowInv, NewestOnItsWay
  <2> QED
    BY <1>4, <2>1, <2>2, <2>3, <2>4, <2>5 DEF FlowInv
<1> QED
  BY <1>5, <1>6

(* A batched record is dropped only when the replay covered its slot with  *)
(* it or with a newer one.                                                 *)
LEMMA DrainKeeps ==
  ASSUME FlowInv, DrainOne
  PROVE  FlowInv'
<1>1. UNCHANGED <<slots, stamp, tenant, wpc, rec, spc, registered, replaying, queue, snapshot,
                  replayed>>
  BY DEF DrainOne, store
<1>2. spc = "drain" /\ replaying /\ batch # <<>> /\ batch \in Seq(Record)
      /\ delivered \in Seq(Record) /\ Distinct /\ OnceOnly
  BY Zenon DEF DrainOne, FlowInv, TypeOK, GateFollowsSubscribe
<1>3. PICK r \in Record :
        /\ r = Head(batch)
        /\ batch' \in Seq(Record) /\ Range(batch) = {r} \cup Range(batch')
        /\ IsInjective(batch') /\ r \notin Range(batch')
        /\ delivered' = IF Covered(r) THEN delivered ELSE Append(delivered, r)
  <2>1. Head(batch) \in Record
    BY <1>2, TailSet
  <2>2. batch' = Tail(batch) /\ IsInjective(batch)
        /\ delivered' = IF Covered(Head(batch)) THEN delivered ELSE Append(delivered, Head(batch))
    BY <1>2 DEF DrainOne, Distinct
  <2> QED
    BY <1>2, <2>1, <2>2, TailSet
<1>4. ~Covered(r) => r \notin Range(delivered)
  BY <1>2, <1>3, Zenon DEF OnceOnly
<1>5. /\ delivered' \in Seq(Record) /\ IsInjective(delivered')
      /\ \/ Covered(r) /\ Range(delivered') = Range(delivered)
         \/ Range(delivered') = Range(delivered) \cup {r}
  <2>1. delivered \in Seq(Record) /\ IsInjective(delivered)
    BY <1>2, Zenon DEF OnceOnly
  <2>2. CASE Covered(r)
    BY <1>3, <2>1, <2>2, Zenon
  <2>3. CASE ~Covered(r)
    <3>1. delivered' = Append(delivered, r) /\ r \notin Range(delivered)
      BY <1>3, <1>4, <2>3, Zenon
    <3> QED
      BY <2>1, <3>1, AppendRecord, Zenon
  <2> QED
    BY <2>2, <2>3, Zenon
<1>6. TypeOK'
  BY <1>1, <1>3, <1>5, Zenon DEF FlowInv, TypeOK
<1>7. WorkersHaveRecords'
  BY <1>1, Zenon DEF FlowInv, WorkersHaveRecords
<1>8. GateFollowsSubscribe'
  BY <1>1, <1>2 DEF FlowInv, GateFollowsSubscribe
<1>9. AllKnown'
  BY <1>1, <1>3, <1>5, Zenon DEF FlowInv, AllKnown, Known
<1>10. NewestOnItsWay'
  <2>1. ASSUME Covered(r), slots[r.slot] = r.hlc PROVE r \in Range(delivered)
    <3>1. r.slot \in Slot /\ r.hlc \in Nat /\ r = [slot |-> r.slot, hlc |-> r.hlc]
          /\ replayed[r.slot] \in Nat
      BY RecordFacts DEF FlowInv, TypeOK
    <3>2. replayed[r.slot] = r.hlc /\ replayed[r.slot] # 0
      BY <2>1, <3>1 DEF Covered, FlowInv, AllKnown
    <3> QED
      BY <3>1, <3>2, Zenon DEF FlowInv, NewestOnItsWay
  <2>2. ASSUME NEW s \in Slot, slots[s] # 0, r = [slot |-> s, hlc |-> slots[s]]
        PROVE  r \in Range(delivered')
    BY <1>5, <2>1, <2>2
  <2> QED
    BY <1>1, <1>3, <1>5, <2>2, Zenon DEF FlowInv, NewestOnItsWay
<1>11. Distinct'
  BY <1>1, <1>2, <1>3, Zenon DEF Distinct, Carrying
<1>12. OnceOnly'
  <2>1. \A w \in Carrying : rec[w] # r
    BY <1>2, <1>3 DEF Distinct
  <2>2. r \notin Range(queue) \cup Range(batch')
    BY <1>2, <1>3 DEF Distinct
  <2> QED
    BY <1>1, <1>2, <1>3, <1>5, <2>1, <2>2, Zenon DEF OnceOnly, Carrying, Covered
<1> QED
  BY <1>1, <1>2, <1>6, <1>7, <1>8, <1>9, <1>10, <1>11, <1>12 DEF FlowInv

-------------------------------------------------------------------------------
(***************************************************************************)
(* Every step of the program.                                              *)
(***************************************************************************)

(* A stamped record is stored, or found old. *)
LEMMA ApplyKeeps ==
  ASSUME FlowInv, NEW w \in Worker, wpc[w] = "stamped", NEW at \in {"accepted", "idle"},
         IF rec[w].hlc > slots[rec[w].slot]
         THEN Take(rec[w]) /\ wpc' = [wpc EXCEPT ![w] = "accepted"]
         ELSE UNCHANGED slots /\ wpc' = [wpc EXCEPT ![w] = at],
         UNCHANGED <<stamp, tenant, rec, gate, queue, delivered>>
  PROVE  FlowInv'
<1>1. rec[w] \in Record /\ rec' = [rec EXCEPT ![w] = rec[w]]
  BY Zenon DEF FlowInv, TypeOK, WorkersHaveRecords
<1>2. CASE rec[w].hlc > slots[rec[w].slot]
  <2>1. Stores(w, rec[w])
    BY <1>1, <1>2, Zenon DEF Stores
  <2> QED
    BY <1>1, <2>1, StoreKeeps
<1>3. CASE ~(rec[w].hlc > slots[rec[w].slot])
  <2>1. Moves(w, at) /\ w \in Carrying /\ at \in WorkerStates
    BY <1>3, Zenon DEF Moves, store, Carrying, WorkerStates
  <2> QED
    BY <2>1, MoveKeeps, Zenon
<1> QED
  BY <1>2, <1>3, Zenon

LEMMA WorkerKeeps ==
  ASSUME FlowInv, NEW w \in Worker,
         \/ \E s \in OwnSlot : SignRecord(w, s)
         \/ \E r \in RemoteRecord : ApplyRemote(w, r)
         \/ WorkerStep(w)
  PROVE  FlowInv'
<1>1. ASSUME NEW s \in OwnSlot, SignRecord(w, s) PROVE FlowInv'
  <2>1. Signs(w, s) /\ tenant' \in TenantCall
    BY <1>1, Zenon DEF SignRecord, Signs, FlowInv, TypeOK
  <2> QED
    BY <2>1, SignKeeps
<1>2. ASSUME NEW r \in RemoteRecord, ApplyRemote(w, r) PROVE FlowInv'
  <2>1. r \in Record /\ r.slot \notin OwnSlot
    BY DeliveryAssumption DEF Record
  <2>2. Stores(w, r)
    BY <1>2, <2>1, Zenon DEF ApplyRemote, Stores
  <2> QED
    BY <2>1, <2>2, StoreKeeps
<1>3. CASE ApplyLocal(w)
  BY <1>3, ApplyKeeps, Zenon DEF ApplyLocal
<1>4. CASE CopyCallbacks(w)
  BY <1>4, CopyKeeps
<1>5. CASE EnterGate(w)
  BY <1>5, QueueKeeps, OpenKeeps
<1>6. CASE CallSubscriber(w)
  BY <1>6, CallKeeps
<1>7. CASE SubscriberReturns(w)
  <2>1. Moves(w, "idle") /\ wpc[w] = "inside"
    BY <1>7 DEF SubscriberReturns, Moves
  <2> QED
    BY <2>1, MoveKeeps DEF WorkerStates
<1> QED
  BY <1>1, <1>2, <1>3, <1>4, <1>5, <1>6, <1>7 DEF WorkerStep

(* The steps of SetTenant that only touch its own state. *)
LEMMA TenantOnlyKeeps ==
  ASSUME FlowInv, tenant' \in TenantCall,
         UNCHANGED <<slots, stamp, wpc, rec, gate, queue, delivered>>
  PROVE  FlowInv'
<1>1. UNCHANGED <<slots, stamp, wpc, rec, spc, registered, replaying, snapshot, replayed, batch,
                  queue, delivered>>
  BY DEF gate
<1>2. TypeOK'
  BY <1>1, Zenon DEF FlowInv, TypeOK
<1>3. WorkersHaveRecords' /\ GateFollowsSubscribe'
  BY <1>1, Zenon DEF FlowInv, WorkersHaveRecords, GateFollowsSubscribe
<1>4. AllKnown' /\ NewestOnItsWay'
  BY <1>1, Zenon DEF FlowInv, AllKnown, Known, NewestOnItsWay
<1>5. replaying' => Distinct' /\ OnceOnly'
  BY <1>1, Zenon DEF FlowInv, Distinct, OnceOnly, Carrying, Covered
<1> QED
  BY <1>2, <1>3, <1>4, <1>5 DEF FlowInv

LEMMA TenantKeeps ==
  ASSUME FlowInv, SetTenant
  PROVE  FlowInv'
<1>1. tenant \in TenantCall /\ stamp \in 0 .. MaxStamp /\ MaxStamp \in Nat /\ Tenant \in Worker
  BY DeliveryAssumption DEF FlowInv, TypeOK, Worker
<1>2. CASE SwapTenant
  BY <1>1, <1>2, TenantOnlyKeeps, Zenon DEF SwapTenant, TenantCall
<1>3. CASE SnapshotOwn
  BY <1>1, <1>3, TenantOnlyKeeps, Zenon DEF SnapshotOwn, TenantCall
<1>4. CASE TenantReturns
  BY <1>1, <1>4, TenantOnlyKeeps DEF TenantReturns, TenantCall
<1>5. CASE ApplyTombstone
  BY <1>1, <1>5, ApplyKeeps, Zenon DEF ApplyTombstone
<1>6. ASSUME NEW s \in OwnSlot, SignTombstone(s) PROVE FlowInv'
  <2>1. Signs(Tenant, s)
    BY <1>6 DEF SignTombstone, Signs
  <2>2. tenant' \in TenantCall
    <3>1. stamp + 1 \in 1 .. MaxStamp
      BY <1>1, <1>6 DEF SignTombstone
    <3>2. tenant.todo \ {s} \subseteq OwnSlot /\ tenant.tombs \cup {stamp + 1} \subseteq 1 .. MaxStamp
      BY <1>1, <3>1 DEF TenantCall
    <3>3. tenant' = [tenant EXCEPT !.todo = tenant.todo \ {s}, !.tombs = tenant.tombs \cup {stamp + 1}]
      BY <1>6 DEF SignTombstone
    <3> QED
      BY <1>1, <3>2, <3>3, Zenon DEF TenantCall
  <2> QED
    BY <1>1, <2>1, <2>2, SignKeeps
<1> QED
  BY <1>2, <1>3, <1>4, <1>5, <1>6 DEF SetTenant

(* FlowInv is inductive. *)
LEMMA FlowStep == FlowInv /\ [Next]_vars => FlowInv'
<1> SUFFICES ASSUME FlowInv, [Next]_vars PROVE FlowInv'
  OBVIOUS
<1>1. CASE UNCHANGED vars
  <2>1. UNCHANGED <<slots, stamp, wpc, rec, gate, queue, delivered>> /\ tenant' \in TenantCall
    BY <1>1, Zenon DEF vars, gate, FlowInv, TypeOK
  <2> QED
    BY <2>1, TenantOnlyKeeps
<1>2. CASE SubscribeStep
  BY <1>2, RegisterKeeps, SnapshotKeeps, ReplayKeeps, BatchKeeps, DrainKeeps DEF SubscribeStep
<1> QED
  BY <1>1, <1>2, WorkerKeeps, TenantKeeps, RegisterKeeps DEF Next

-------------------------------------------------------------------------------
(***************************************************************************)
(* SetTenant.                                                              *)
(***************************************************************************)

(* No step takes a slot back. *)
LEMMA SlotsGrow ==
  ASSUME FlowInv, [Next]_vars
  PROVE  /\ slots' \in [Slot -> Nat] /\ slots \in [Slot -> Nat] /\ stamp \in Nat /\ stamp' \in Nat
         /\ stamp' >= stamp /\ \A s \in Slot : slots'[s] >= slots[s]
<1>1. slots \in [Slot -> Nat] /\ stamp \in Nat
  BY DeliveryAssumption DEF FlowInv, TypeOK
<1>2. \/ slots' = slots
      \/ \E r \in Record : r.hlc > slots[r.slot] /\ slots' = [slots EXCEPT ![r.slot] = r.hlc]
  <2>1. \A w \in Worker : wpc[w] # "idle" => rec[w] \in Record
    BY Zenon DEF FlowInv, WorkersHaveRecords
  <2>2. ASSUME NEW w \in Worker, ApplyLocal(w)
        PROVE  slots' = slots \/ (rec[w] \in Record /\ rec[w].hlc > slots[rec[w].slot] /\ Take(rec[w]))
    BY <2>1, <2>2, Zenon DEF ApplyLocal
  <2>3. ASSUME ApplyTombstone
        PROVE  slots' = slots \/ (rec[Tenant] \in Record /\ rec[Tenant].hlc > slots[rec[Tenant].slot]
                                  /\ Take(rec[Tenant]))
    BY <2>1, <2>3, Zenon DEF ApplyTombstone, Worker
  <2>4. ASSUME NEW w \in Worker, NEW r \in RemoteRecord, ApplyRemote(w, r)
        PROVE  r \in Record /\ r.hlc > slots[r.slot] /\ Take(r)
    BY <2>4 DEF ApplyRemote, Record
  <2>5. ASSUME NEW w \in Worker,
               \/ \E s \in OwnSlot : SignRecord(w, s)
               \/ CopyCallbacks(w) \/ EnterGate(w) \/ CallSubscriber(w) \/ SubscriberReturns(w)
        PROVE  slots' = slots
    BY <2>5 DEF SignRecord, CopyCallbacks, EnterGate, CallSubscriber, SubscriberReturns, store
  <2>6. ASSUME \/ SwapTenant \/ SnapshotOwn \/ TenantReturns \/ SubscribeStep \/ unsubscribe
               \/ \E s \in OwnSlot : SignTombstone(s)
        PROVE  slots' = slots
    BY <2>6, Zenon DEF SwapTenant, SnapshotOwn, TenantReturns, SubscribeStep, unsubscribe, SignTombstone,
                Register, TakeSnapshot, ReplayOne, NextBatch, DrainOne, store
  <2> QED
    BY <2>2, <2>3, <2>4, <2>5, <2>6, Zenon DEF Next, WorkerStep, SetTenant, Take, vars
<1>3. stamp' = stamp \/ stamp' = stamp + 1
  BY Zenon DEF Next, WorkerStep, SetTenant, SubscribeStep, vars, SignRecord, ApplyLocal, ApplyRemote,
         CopyCallbacks, EnterGate, CallSubscriber, SubscriberReturns, SwapTenant, SnapshotOwn,
         SignTombstone, ApplyTombstone, TenantReturns, Register, TakeSnapshot, ReplayOne,
         NextBatch, DrainOne, unsubscribe, store
<1> QED
  BY <1>1, <1>2, <1>3, RecordFacts

(* A step that is not SetTenant's leaves its tombstone alone. *)
LEMMA OthersLeaveTombstone ==
  ASSUME FlowInv,
         \/ \E w \in Worker : \/ \E s \in OwnSlot : SignRecord(w, s)
                              \/ \E r \in RemoteRecord : ApplyRemote(w, r)
                              \/ WorkerStep(w)
         \/ SubscribeStep \/ unsubscribe \/ UNCHANGED vars
  PROVE  /\ tenant' = tenant
         /\ wpc'[Tenant] = "stamped" <=> wpc[Tenant] = "stamped"
         /\ wpc[Tenant] = "stamped" => rec'[Tenant] = rec[Tenant]
<1>1. Tenant \in Worker /\ Tenant \notin LocalPublisher \cup Receiver
      /\ wpc \in [Worker -> WorkerStates] /\ rec \in [Worker -> Record \cup {NoRec}]
  BY DeliveryAssumption DEF Worker, FlowInv, TypeOK
<1>2. ASSUME NEW w \in Worker,
             \/ \E s \in OwnSlot : SignRecord(w, s)
             \/ \E r \in RemoteRecord : ApplyRemote(w, r)
             \/ ApplyLocal(w)
      PROVE  w # Tenant /\ tenant' = tenant /\ wpc'[Tenant] = wpc[Tenant] /\ rec'[Tenant] = rec[Tenant]
  BY <1>1, <1>2, Zenon DEF SignRecord, ApplyRemote, ApplyLocal
<1>3. ASSUME NEW w \in Worker,
             CopyCallbacks(w) \/ EnterGate(w) \/ CallSubscriber(w) \/ SubscriberReturns(w)
      PROVE  /\ tenant' = tenant /\ rec' = rec
             /\ wpc'[Tenant] = "stamped" <=> wpc[Tenant] = "stamped"
  BY <1>1, <1>3, Zenon DEF CopyCallbacks, EnterGate, CallSubscriber, SubscriberReturns, store
<1>4. ASSUME SubscribeStep \/ unsubscribe \/ UNCHANGED vars
      PROVE  tenant' = tenant /\ rec' = rec /\ wpc' = wpc
  BY <1>4, Zenon DEF SubscribeStep, Register, TakeSnapshot, ReplayOne, NextBatch, DrainOne, unsubscribe,
              store, vars
<1> QED
  BY <1>2, <1>3, <1>4, Zenon DEF WorkerStep

(* With FlowInv, so is Retiring. *)
LEMMA RetiringStep == FlowInv /\ Retiring /\ [Next]_vars => Retiring'
<1> SUFFICES ASSUME FlowInv, Retiring, [Next]_vars PROVE Retiring'
  OBVIOUS
<1>1. /\ slots' \in [Slot -> Nat] /\ slots \in [Slot -> Nat] /\ stamp \in Nat /\ stamp' \in Nat
      /\ stamp' >= stamp /\ \A s \in Slot : slots'[s] >= slots[s]
  BY SlotsGrow, Zenon
<1>2. /\ tenant \in TenantCall /\ tenant.swap \in Nat /\ tenant.mine \subseteq Slot
      /\ Tenant \in Worker /\ wpc \in [Worker -> WorkerStates] /\ rec \in [Worker -> Record \cup {NoRec}]
  BY DeliveryAssumption DEF FlowInv, TypeOK, TenantCall, Worker, Slot
<1>g. tenant.swap <= stamp' /\ \A s \in Slot : slots[s] > tenant.swap => slots'[s] > tenant.swap
  <2>1. tenant.swap <= stamp
    BY Zenon DEF Retiring
  <2> QED
    BY <1>1, <1>2, <2>1, OrderFacts, Zenon
<1>3. ASSUME /\ tenant' = tenant
             /\ wpc'[Tenant] = "stamped" <=> wpc[Tenant] = "stamped"
             /\ wpc[Tenant] = "stamped" => rec'[Tenant] = rec[Tenant]
      PROVE  Retiring'
  BY <1>2, <1>3, <1>g, Zenon DEF Retiring
<1>4. CASE SwapTenant
  <2>1. tenant.pc = "idle" /\ tenant'.pc = "swapped" /\ tenant'.swap = stamp
        /\ UNCHANGED <<slots, stamp, wpc, rec>>
    BY <1>2, <1>4 DEF SwapTenant, TenantCall
  <2> QED
    BY <1>1, <2>1, Zenon DEF Retiring
<1>5. CASE SnapshotOwn
  <2>1. /\ tenant.pc = "swapped" /\ tenant'.pc = "retire" /\ tenant'.swap = tenant.swap
        /\ tenant'.mine = tenant'.todo /\ UNCHANGED <<slots, stamp, wpc, rec>>
    BY <1>2, <1>5 DEF SnapshotOwn, TenantCall
  <2> QED
    BY <1>1, <2>1, Zenon DEF Retiring
<1>6. CASE TenantReturns
  <2>1. /\ tenant.pc = "retire" /\ tenant.todo = {} /\ wpc[Tenant] = "idle"
        /\ tenant'.pc = "done" /\ tenant'.swap = tenant.swap /\ tenant'.mine = tenant.mine
        /\ tenant'.todo = tenant.todo /\ UNCHANGED <<slots, stamp, wpc, rec>>
    BY <1>2, <1>6 DEF TenantReturns, TenantCall
  <2> QED
    BY <1>1, <2>1, Zenon DEF Retiring
<1>7. ASSUME NEW s \in OwnSlot, SignTombstone(s) PROVE Retiring'
  <2>1. /\ tenant.pc = "retire" /\ tenant'.pc = "retire" /\ tenant'.swap = tenant.swap
        /\ tenant'.mine = tenant.mine /\ tenant'.todo = tenant.todo \ {s} /\ slots' = slots
        /\ wpc[Tenant] = "idle" /\ wpc'[Tenant] = "stamped" /\ stamp' = stamp + 1
        /\ rec'[Tenant] = [slot |-> s, hlc |-> stamp + 1]
    BY <1>2, <1>7 DEF SignTombstone, TenantCall
  <2>2. stamp + 1 > tenant.swap
    <3>1. tenant.swap <= stamp
      BY Zenon DEF Retiring
    <3> QED
      BY <1>1, <1>2, <3>1, OrderFacts, Zenon
  <2>3. rec'[Tenant].slot = s /\ rec'[Tenant].hlc = stamp + 1
    <3> DEFINE r == [slot |-> s, hlc |-> stamp + 1]
    <3>1. r.slot = s /\ r.hlc = stamp + 1
      BY Zenon
    <3> HIDE DEF r
    <3> QED
      BY <2>1, <3>1, Zenon DEF r
  <2>4. tenant'.swap <= stamp'
    BY <1>g, <2>1, Zenon
  <2> QED
    BY <2>1, <2>2, <2>3, <2>4, Zenon DEF Retiring
<1>8. CASE ApplyTombstone
  <2>1. /\ tenant' = tenant /\ stamp' = stamp /\ wpc[Tenant] = "stamped" /\ wpc'[Tenant] # "stamped"
        /\ rec[Tenant] \in Record
    BY <1>2, <1>8, Zenon DEF ApplyTombstone, FlowInv, WorkersHaveRecords
  <2>2. /\ rec[Tenant].slot \in Slot /\ rec[Tenant].hlc \in Nat /\ rec[Tenant].hlc > tenant.swap
        /\ tenant.pc = "retire"
    BY <2>1, RecordFacts DEF Retiring
  <2>3. slots'[rec[Tenant].slot] >= rec[Tenant].hlc
    <3>1. \/ slots' = [slots EXCEPT ![rec[Tenant].slot] = rec[Tenant].hlc]
          \/ slots' = slots /\ ~(rec[Tenant].hlc > slots[rec[Tenant].slot])
      BY <1>8, Zenon DEF ApplyTombstone, Take
    <3> DEFINE x == rec[Tenant].slot
               h == rec[Tenant].hlc
    <3>2. x \in Slot /\ h \in Nat /\ slots[x] \in Nat
      BY <1>1, <2>2, Zenon
    <3>3. CASE slots' = [slots EXCEPT ![x] = h]
      <4>1. slots'[x] = h
        BY <1>1, <3>2, <3>3, Zenon
      <4> QED
        BY <3>2, <4>1, OrderFacts, Zenon
    <3>4. CASE slots' = slots /\ ~(h > slots[x])
      BY <3>2, <3>4, OrderFacts, Zenon
    <3> QED
      BY <3>1, <3>3, <3>4, Zenon
  <2>4. ASSUME NEW s \in tenant.mine \ tenant.todo
        PROVE  slots'[s] > tenant.swap
    <3>1. s \in Slot /\ slots'[s] \in Nat /\ slots[s] \in Nat /\ slots'[s] >= slots[s]
      BY <1>1, <1>2, Zenon
    <3>2. slots[s] > tenant.swap \/ rec[Tenant].slot = s
      BY <2>2 DEF Retiring
    <3>3. slots'[rec[Tenant].slot] > tenant.swap
      <4> DEFINE h == rec[Tenant].hlc
                 new == slots'[rec[Tenant].slot]
      <4>1. tenant.swap \in Nat /\ h \in Nat /\ new \in Nat
        BY <1>1, <1>2, <2>2, Zenon
      <4>2. h > tenant.swap /\ new >= h
        BY <2>2, <2>3, Zenon
      <4> HIDE DEF h, new
      <4>3. new > tenant.swap
        BY <4>1, <4>2, OrderFacts, Zenon
      <4> QED
        BY <4>3, Zenon DEF new
    <3> QED
      BY <1>g, <3>1, <3>2, <3>3, Zenon
  <2> QED
    BY <2>1, <2>2, <2>4, Zenon DEF Retiring
<1> QED
  BY <1>3, <1>4, <1>5, <1>6, <1>7, <1>8, OthersLeaveTombstone, Zenon DEF Next, SetTenant

-------------------------------------------------------------------------------

LEMMA DeliveryInvariant == Spec => []DeliveryInv
<1>1. Init => Retiring
  <2> SUFFICES ASSUME Init PROVE Retiring
    OBVIOUS
  <2>1. tenant.swap = 0 /\ stamp = 0 /\ tenant.pc = "idle" /\ wpc[Tenant] = "idle"
    BY DeliveryAssumption, Zenon DEF Init, Worker
  <2>2. tenant.swap <= stamp
    BY <2>1
  <2> QED
    BY <2>1, <2>2, Zenon DEF Retiring
<1>2. Init => DeliveryInv
  BY <1>1, InitFlow DEF DeliveryInv
<1>3. DeliveryInv /\ [Next]_vars => DeliveryInv'
  BY FlowStep, RetiringStep DEF DeliveryInv
<1> QED
  BY <1>2, <1>3, PTL DEF Spec

(* Every state is well typed. *)
THEOREM DeliveryTypes == Spec => []TypeOK
<1>1. DeliveryInv => TypeOK
  BY DEF DeliveryInv, FlowInv
<1> QED
  BY <1>1, DeliveryInvariant, PTL

(* finishReplay: no worker is in the subscriber, or past the gate, before  *)
(* Subscribe has handed over the snapshot and all that was queued.         *)
THEOREM SubscribeIsSerial == Spec => []TransitionIsSerial
<1>1. DeliveryInv => TransitionIsSerial
  BY DEF DeliveryInv, FlowInv, GateFollowsSubscribe, TransitionIsSerial, InTransition
<1> QED
  BY <1>1, DeliveryInvariant, PTL

(* Subscribe: the replay and the drained queue hand over no record twice.  *)
THEOREM SubscribeHasNoDuplicate == Spec => []TransitionHasNoDuplicate
<1>1. DeliveryInv => TransitionHasNoDuplicate
  BY Zenon DEF DeliveryInv, FlowInv, GateFollowsSubscribe, OnceOnly, TransitionHasNoDuplicate, InTransition
<1> QED
  BY <1>1, DeliveryInvariant, PTL

(* Subscribe and recordAccepted: once Subscribe has returned, the newest   *)
(* record of every slot was handed over or is on its way in.               *)
THEOREM SubscribeHasNoGap == Spec => []NoGap
<1>1. ASSUME DeliveryInv, spc = "live" PROVE snapshot = {} /\ Range(queue) = {} /\ Range(batch) = {}
  <2>1. spc \notin {"replay", "drain"}
    BY <1>1
  <2>2. snapshot = {} /\ queue = <<>> /\ batch = <<>>
    BY <1>1, <2>1 DEF DeliveryInv, FlowInv, GateFollowsSubscribe
  <2> QED
    BY <2>2, EmptySeqSet
<1>2. DeliveryInv => NoGap
  BY <1>1, Zenon DEF DeliveryInv, FlowInv, NewestOnItsWay, NoGap
<1> QED
  BY <1>2, DeliveryInvariant, PTL

(* SetTenant: once it has returned, every slot of its snapshot holds a     *)
(* tombstone or a record stamped after the tenant changed.                 *)
THEOREM SetTenantRetires == Spec => []TenantRetires
<1>1. DeliveryInv => TenantRetires
  BY Zenon DEF DeliveryInv, Retiring, TenantRetires
<1> QED
  BY <1>1, DeliveryInvariant, PTL

================================================================================
