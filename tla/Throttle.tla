------------------------------- MODULE Throttle -------------------------------
(***************************************************************************)
(* What lazyPushToNonTreeEdges may send to one peer (plumtrees.go,         *)
(* peer.go): the announcement queue that BackpressureMax bounds over a     *)
(* sliding window, and the token bucket that BandwidthCap refills.         *)
(* Goroutines push concurrently; EnqueueLazy and ConsumeTokens each hold   *)
(* the context's lock and are one step each.                               *)
(*                                                                         *)
(* The module is about one peerCtx.  A peer that leaves and joins again    *)
(* gets a fresh one, which shares nothing with the old (module PeerTable). *)
(* Time is in ticks, a second is Second of them.  Products are int64:      *)
(* WordSpan stands for 2^64.                                               *)
(*                                                                         *)
(* accepted and granted are histories: announcements queued and bytes sent *)
(* since the tick `since`; usedAt is what lastRefill was then.  A clock    *)
(* tick may move since to the present, so the counts range over every      *)
(* interval of the clock.                                                  *)
(***************************************************************************)
EXTENDS Integers, Sequences, FiniteSetsExt

CONSTANTS
  Pusher,           \* goroutines pushing announcements
  Cost,             \* lengths of encoded announcements
  AdaptiveInterval, BackpressureMax, BandwidthCap, EgressTokens,  \* PerPeerConfig
  Second,           \* clock ticks per second
  WordSpan,         \* 2^64: products wrap to -WordSpan/2 .. WordSpan/2 - 1
  MaxTime           \* bound on the clock

ASSUME ThrottleAssumption ==
  /\ Cost \subseteq Nat \ {0}
  /\ BackpressureMax \in Nat /\ BandwidthCap \in Nat /\ EgressTokens \in Nat
  /\ AdaptiveInterval \in Int /\ Second \in Nat \ {0}
  /\ WordSpan \in Nat \ {0} /\ MaxTime \in Nat

VARIABLES
  now,
  lazyQueue,  \* queuedAt of the entries
  tokens,
  lastRefill, \* NoTime before the first use
  cost,       \* bytes of the frame a goroutine has queued, 0 if it is idle
  since, accepted, granted, usedAt

bucket == <<tokens, lastRefill>>
measure == <<since, usedAt>>
throttleVars == <<now, lazyQueue, tokens, lastRefill, cost, since, accepted, granted, usedAt>>

Time == 0 .. MaxTime
NoTime == -1

ThrottleInit ==
  /\ now = 0
  /\ lazyQueue = <<>> /\ tokens = 0 /\ lastRefill = NoTime
  /\ cost = [h \in Pusher |-> 0]
  /\ since = 0 /\ accepted = 0 /\ granted = 0 /\ usedAt = NoTime

-------------------------------------------------------------------------------
(***************************************************************************)
(* The queue.                                                              *)
(***************************************************************************)

maxAge == IF AdaptiveInterval <= 0 THEN Second ELSE AdaptiveInterval

(* Bug: an entry is dropped one tick too early. *)
BugFresh(t) == t > now - maxAge

Fresh(t) == t >= now - maxAge

(* Entries the prefix loop passes before it stops at a fresh one. *)
Stale ==
  CHOOSE i \in 0 .. Len(lazyQueue) :
    /\ \A j \in 1 .. i : ~Fresh(lazyQueue[j])
    /\ i < Len(lazyQueue) => Fresh(lazyQueue[i + 1])

Pruned == SubSeq(lazyQueue, Stale + 1, Len(lazyQueue))

QueueFull == BackpressureMax > 0 /\ Len(Pruned) >= BackpressureMax

(* An announcement for a lazy peer: dropped at the cap, or queued. *)
EnqueueLazy(h, n) ==
  /\ cost[h] = 0
  /\ IF QueueFull
     THEN lazyQueue' = Pruned /\ UNCHANGED <<cost, accepted>>
     ELSE /\ lazyQueue' = Append(Pruned, now)
          /\ cost' = [cost EXCEPT ![h] = n]
          /\ accepted' = accepted + 1
  /\ UNCHANGED <<now, bucket, granted, measure>>

-------------------------------------------------------------------------------
(***************************************************************************)
(* The bucket, as a pair of tokens and the time of the last refill.        *)
(***************************************************************************)

Wrapped(x) == ((x + WordSpan \div 2) % WordSpan) - WordSpan \div 2

Primed ==
  IF lastRefill # NoTime THEN bucket
  ELSE <<IF EgressTokens = 0 THEN BandwidthCap ELSE EgressTokens, now>>

(* Go's quotient is truncated; a product that wrapped below zero earns     *)
(* nothing.                                                                *)
Earned(refill) ==
  LET product == Wrapped(BandwidthCap * (now - refill))
  IN IF product > 0 THEN product \div Second ELSE 0

(* Bug: the bucket is not capped. *)
BugUncapped(b) ==
  IF Earned(b[2]) = 0 THEN b ELSE <<b[1] + Earned(b[2]), now>>

(* Bug: the refill time advances although nothing was earned. *)
BugForgetFraction(b) == <<Min({b[1] + Earned(b[2]), BandwidthCap}), now>>

Refilled(b) ==
  IF Earned(b[2]) = 0 THEN b ELSE <<Min({b[1] + Earned(b[2]), BandwidthCap}), now>>

(* Tokens a request finds; without a cap it is always granted. *)
Available == IF BandwidthCap = 0 THEN bucket ELSE Refilled(Primed)

Refused(h) == BandwidthCap > 0 /\ Available[1] < cost[h]

(* ConsumeTokens, and the Send it allows. *)
ConsumeTokens(h) ==
  /\ cost[h] # 0
  /\ lastRefill' = Available[2]
  /\ tokens' = IF BandwidthCap = 0 \/ Refused(h) THEN Available[1] ELSE Available[1] - cost[h]
  /\ granted' = IF Refused(h) THEN granted ELSE granted + cost[h]
  /\ cost' = [cost EXCEPT ![h] = 0]
  /\ UNCHANGED <<now, lazyQueue, accepted, measure>>

-------------------------------------------------------------------------------

Tick ==
  /\ now < MaxTime
  /\ now' = now + 1
  /\ \/ UNCHANGED <<since, accepted, granted, usedAt>>
     \/ /\ since' = now + 1
        /\ accepted' = 0 /\ granted' = 0
        /\ usedAt' = lastRefill
  /\ UNCHANGED <<lazyQueue, bucket, cost>>

ThrottleNext ==
  \/ Tick
  \/ \E h \in Pusher : ConsumeTokens(h) \/ \E n \in Cost : EnqueueLazy(h, n)

ThrottleSpec == ThrottleInit /\ [][ThrottleNext]_throttleVars

-------------------------------------------------------------------------------

ThrottleTypeOK ==
  /\ now \in Time /\ since \in 0 .. now
  /\ lazyQueue \in Seq(Time)
  /\ tokens \in Nat /\ lastRefill \in Time \cup {NoTime}
  /\ cost \in [Pusher -> Cost \cup {0}]
  /\ accepted \in Nat /\ granted \in Nat /\ usedAt \in Time \cup {NoTime}

(* EnqueueLazy: "BackpressureMax acts as max recent IHaves to this peer in *)
(* the maxAge window": however pushes and the clock interleave, no window  *)
(* of that length sees more announcements.                                 *)
WindowHolds ==
  BackpressureMax > 0 /\ now - since <= maxAge => accepted <= BackpressureMax

Burst == Max({EgressTokens, BandwidthCap})

(* BandwidthCap is a rate: over any interval the peer is sent at most one  *)
(* burst and what the cap earns in that time (and one byte of rounding),   *)
(* also after products have wrapped.                                       *)
RateHolds ==
  BandwidthCap > 0 =>
    granted <= Burst + (BandwidthCap * (now - since)) \div Second + 1

(* "refilled at BandwidthCap rate": a refill that rounds down keeps at     *)
(* least half of what was earned, and a request that earns nothing loses   *)
(* nothing.  So a bucket in use for a second refuses an announcement only  *)
(* if that one and the bytes sent meanwhile exceed half the cap, provided  *)
(* that the cap times the age of the refill the second began with still    *)
(* fits the word.                                                          *)
RefusalMeansSpent ==
  \A h \in Pusher :
    /\ cost[h] # 0 /\ Refused(h)
    /\ usedAt # NoTime /\ since <= now - Second
    /\ BandwidthCap * (now - usedAt) < WordSpan \div 2
    => 2 * (granted + cost[h]) > BandwidthCap

===============================================================================
