---------------------------------- MODULE HLC ----------------------------------
(***************************************************************************)
(* The hybrid logical clock of a node (hlc.go): one atomic word shared by  *)
(* every goroutine that stamps a record (Now) or receives one (Observe),   *)
(* each a load / compute / compare-and-swap loop.                          *)
(*                                                                         *)
(* A packed stamp is the pair of its wall and counter parts; packHLC's     *)
(* 16-bit mask is the modulus CtrSpan.  The wall clock jumps freely.       *)
(*                                                                         *)
(* last, observed, peak and wrapped are history variables: the latest      *)
(* stamp returned, the greatest stamp an Observe has taken in, the highest *)
(* reading the wall clock has shown, and whether the counter ever wrapped. *)
(***************************************************************************)
EXTENDS Integers

CONSTANTS
  Thread,      \* goroutines that share the clock
  CtrSpan,     \* counter values per wall reading: 2^16 in the code
  SkewBudget,  \* observerForwardSkewBudget, in wall units
  MaxWall,     \* bound on the wall clock
  Remote,      \* stamps received from peers
  MaxCalls     \* bound on the calls made

Stamp == [wall : Nat, ctr : 0 .. CtrSpan - 1]

ASSUME ClockAssumption ==
  /\ CtrSpan \in Nat \ {0}
  /\ SkewBudget \in Nat
  /\ MaxWall \in Nat
  /\ MaxCalls \in Nat
  /\ Remote \subseteq Stamp

VARIABLES
  state,      \* the packed word
  clock,      \* the wall clock, time.Now().UnixMilli()
  pc,         \* "idle", "load", "clock" or "cas"
  op,         \* the call a thread is in: "Now" or "Observe"
  cur,        \* the thread's loaded copy of state
  nowWall,    \* the wall reading the thread computes with
  remote,     \* Observe's argument
  calls,      \* calls made so far
  last, observed, peak, wrapped

clockVars == <<state, clock, pc, op, cur, nowWall, remote, calls, last, observed, peak, wrapped>>
history == <<last, observed, peak, wrapped>>

Less(a, b) == a.wall < b.wall \/ (a.wall = b.wall /\ a.ctr < b.ctr)
Leq(a, b) == a = b \/ Less(a, b)
Later(a, b) == IF Less(a, b) THEN b ELSE a

packHLC(w, c) == [wall |-> w, ctr |-> c % CtrSpan]

Zero == [wall |-> 0, ctr |-> 0]

(* NewHLC: anchored at the wall clock. *)
ClockInit ==
  /\ clock \in 0 .. MaxWall
  /\ state = packHLC(clock, 0)
  /\ pc = [t \in Thread |-> "idle"]
  /\ op = [t \in Thread |-> "Now"]
  /\ cur = [t \in Thread |-> Zero]
  /\ nowWall = [t \in Thread |-> 0]
  /\ remote = [t \in Thread |-> Zero]
  /\ calls = 0
  /\ last = state
  /\ observed = Zero
  /\ peak = clock
  /\ wrapped = FALSE

-------------------------------------------------------------------------------

CallNow(t) ==
  /\ pc[t] = "idle" /\ calls < MaxCalls
  /\ pc' = [pc EXCEPT ![t] = "load"]
  /\ op' = [op EXCEPT ![t] = "Now"]
  /\ calls' = calls + 1
  /\ UNCHANGED <<state, clock, cur, nowWall, remote, history>>

(* Observe reads the wall clock once, before observeAt's loop. *)
CallObserve(t, r) ==
  /\ pc[t] = "idle" /\ calls < MaxCalls
  /\ pc' = [pc EXCEPT ![t] = "load"]
  /\ op' = [op EXCEPT ![t] = "Observe"]
  /\ remote' = [remote EXCEPT ![t] = r]
  /\ nowWall' = [nowWall EXCEPT ![t] = clock]
  /\ calls' = calls + 1
  /\ UNCHANGED <<state, clock, cur, history>>

Load(t) ==
  /\ pc[t] = "load"
  /\ cur' = [cur EXCEPT ![t] = state]
  /\ pc' = [pc EXCEPT ![t] = IF op[t] = "Now" THEN "clock" ELSE "cas"]
  /\ UNCHANGED <<state, clock, op, nowWall, remote, calls, history>>

(* Now reads the wall clock afresh in every round of its loop. *)
ReadClock(t) ==
  /\ pc[t] = "clock"
  /\ nowWall' = [nowWall EXCEPT ![t] = clock]
  /\ pc' = [pc EXCEPT ![t] = "cas"]
  /\ UNCHANGED <<state, clock, op, cur, remote, calls, history>>

NextStamp(c, w) ==
  IF w > c.wall THEN packHLC(w, 0) ELSE packHLC(c.wall, c.ctr + 1)

Wraps(c, w) == w <= c.wall /\ c.ctr + 1 = CtrSpan

(* Bug: a remote stamp is taken in however far ahead it is. *)
BugInBudgetAlways(r, w) == TRUE

InBudget(r, w) == r.wall <= w + SkewBudget

ObservedStamp(c, w, r) ==
  LET m == IF InBudget(r, w) THEN Later(c, r) ELSE c
  IN IF w > m.wall THEN packHLC(w, 0) ELSE packHLC(m.wall, m.ctr)

(* Bug: the swap does not compare: a stamp computed from a stale copy wins. *)
BugStoreNow(t) ==
  /\ pc[t] = "cas" /\ op[t] = "Now"
  /\ state' = NextStamp(cur[t], nowWall[t])
  /\ last' = state'
  /\ wrapped' = (wrapped \/ Wraps(cur[t], nowWall[t]))
  /\ pc' = [pc EXCEPT ![t] = "idle"]
  /\ UNCHANGED <<clock, op, cur, nowWall, remote, calls, observed, peak>>

SwapNow(t) ==
  /\ pc[t] = "cas" /\ op[t] = "Now" /\ state = cur[t]
  /\ state' = NextStamp(cur[t], nowWall[t])
  /\ last' = state'
  /\ wrapped' = (wrapped \/ Wraps(cur[t], nowWall[t]))
  /\ pc' = [pc EXCEPT ![t] = "idle"]
  /\ UNCHANGED <<clock, op, cur, nowWall, remote, calls, observed, peak>>

SwapObserve(t) ==
  /\ pc[t] = "cas" /\ op[t] = "Observe" /\ state = cur[t]
  /\ state' = ObservedStamp(cur[t], nowWall[t], remote[t])
  /\ observed' = IF InBudget(remote[t], nowWall[t])
                 THEN Later(observed, remote[t]) ELSE observed
  /\ pc' = [pc EXCEPT ![t] = "idle"]
  /\ UNCHANGED <<clock, op, cur, nowWall, remote, calls, last, peak, wrapped>>

(* Bug: a failed swap is retried without loading the word again. *)
BugRetryStale(t) ==
  /\ pc[t] = "cas" /\ state # cur[t]
  /\ UNCHANGED clockVars

Retry(t) ==
  /\ pc[t] = "cas" /\ state # cur[t]
  /\ pc' = [pc EXCEPT ![t] = "load"]
  /\ UNCHANGED <<state, clock, op, cur, nowWall, remote, calls, history>>

ClockStep(w) ==
  /\ clock' = w
  /\ peak' = IF w > peak THEN w ELSE peak
  /\ UNCHANGED <<state, pc, op, cur, nowWall, remote, calls, last, observed, wrapped>>

Proceed(t) == Load(t) \/ ReadClock(t) \/ SwapNow(t) \/ SwapObserve(t) \/ Retry(t)

ClockNext ==
  \/ \E t \in Thread : CallNow(t) \/ (\E r \in Remote : CallObserve(t, r)) \/ Proceed(t)
  \/ \E w \in 0 .. MaxWall : ClockStep(w)

ClockSpec == ClockInit /\ [][ClockNext]_clockVars

(* A goroutine inside Now or Observe keeps running. *)
ClockFairSpec == ClockSpec /\ \A t \in Thread : WF_clockVars(Proceed(t))

-------------------------------------------------------------------------------

ClockTypeOK ==
  /\ state \in Stamp
  /\ clock \in Nat
  /\ pc \in [Thread -> {"idle", "load", "clock", "cas"}]
  /\ op \in [Thread -> {"Now", "Observe"}]
  /\ cur \in [Thread -> Stamp]
  /\ nowWall \in [Thread -> Nat]
  /\ remote \in [Thread -> Stamp]
  /\ calls \in Nat
  /\ last \in Stamp
  /\ observed \in Stamp
  /\ peak \in Nat
  /\ wrapped \in BOOLEAN

(* As long as the counter has not wrapped, the shared word stays at or     *)
(* above every stamp returned and every stamp taken in.                    *)
WordCoversHistory ==
  ~wrapped => Leq(last, state) /\ Leq(observed, state)

(* Observe's clamp: no remote stamp moves the wall part more than the      *)
(* budget past the highest reading of the local wall clock, so Now can     *)
(* always catch up and leave a pinned wall.                                *)
SkewClamped == state.wall <= peak + SkewBudget

NowReturns(t) == op[t] = "Now" /\ pc[t] = "cas" /\ pc'[t] = "idle"

(* Until the counter wraps, each stamp Now returns is above every stamp    *)
(* any goroutine got before and above everything Observe took in, whatever *)
(* the interleaving and wherever the wall clock jumps.                     *)
StampsIncrease ==
  [][\A t \in Thread : NowReturns(t) /\ ~wrapped' =>
       Less(last, last') /\ Less(observed, last')]_clockVars

(* The retry loop makes progress: a call returns once the others stop      *)
(* making new ones, because a swap fails only when another succeeded.      *)
CallsReturn ==
  \A t \in Thread : pc[t] # "idle" ~> pc[t] = "idle"

===============================================================================
