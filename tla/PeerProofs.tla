------------------------------- MODULE PeerProofs -------------------------------
(***************************************************************************)
(* The two halves of peer.go.                                              *)
(*                                                                         *)
(* What one peer is sent, for every configuration of the peer, every set   *)
(* of goroutines and lengths, every clock resolution and word size.  None  *)
(* of the three invariants is inductive.  The window needs where the       *)
(* announcements accepted since the tick `since` sit in the queue (its     *)
(* last entries, all stamped since then); the rate needs the bytes sent    *)
(* together with the tokens left and the credit the next refill will find; *)
(* the refusal needs what the refills of the interval have paid in.        *)
(*                                                                         *)
(* The table of peers, for any peers, goroutines, degree and priorities.   *)
(* GhostsComeFromOverlap is not inductive: a goroutine creates a context   *)
(* for whatever peer it still has in hand, so those peers have to be       *)
(* connected or known to have left meanwhile as well.  EdgesBounded is not *)
(* inductive either: a goroutine that has read the count writes its flags  *)
(* later.  It owes the table the edges it may still add, at most           *)
(* TreeDegree of them, and the edges there are plus all that are owed stay *)
(* below the bound: the reader of the count sees room for its own edges,   *)
(* and every other goroutine owes at most TreeDegree.                      *)
(***************************************************************************)
EXTENDS Throttle, PeerTable, FiniteSetTheorems, WellFoundedInduction, TLAPS

-------------------------------------------------------------------------------
(***************************************************************************)
(* Backpressure.                                                           *)
(***************************************************************************)

(* What the clock has earned by tick t after a refill, before the division *)
(* by Second: a product that wrapped below zero earns nothing.             *)
Credit(refill, t) ==
  LET product == Wrapped(BandwidthCap * (t - refill))
  IN IF product > 0 THEN product ELSE 0

Ordered == lastRefill <= now /\ usedAt <= lastRefill /\ usedAt <= since

QueueInv ==
  /\ BackpressureMax > 0 => Len(lazyQueue) <= BackpressureMax
  /\ now - since <= maxAge =>
       /\ accepted <= Len(lazyQueue)
       /\ \A i \in 1 .. Len(lazyQueue) :
            i > Len(lazyQueue) - accepted => lazyQueue[i] >= since

BucketInv ==
  BandwidthCap > 0 =>
    /\ tokens <= Burst
    /\ granted > 0 =>
         /\ lastRefill # NoTime
         /\ Second * (granted + tokens) + Credit(lastRefill, now)
              <= Second * Burst + BandwidthCap * (now - since) + Second - 1

SpentInv ==
  /\ BandwidthCap > 0 /\ usedAt # NoTime
  /\ BandwidthCap * (now - usedAt) < WordSpan \div 2
  => \/ tokens + granted >= BandwidthCap
     \/ 2 * (Second * (tokens + granted)) >= BandwidthCap * (lastRefill - usedAt)

ThrottleInv == ThrottleTypeOK /\ Ordered /\ QueueInv /\ BucketInv /\ SpentInv

-------------------------------------------------------------------------------
(***************************************************************************)
(* Arithmetic.                                                             *)
(***************************************************************************)

(* The larger and the smaller of two numbers. *)
LEMMA TwoMax ==
  ASSUME NEW a \in Int, NEW b \in Int
  PROVE  Max({a, b}) = IF a >= b THEN a ELSE b
BY DEF Max

LEMMA TwoMin ==
  ASSUME NEW a \in Int, NEW b \in Int
  PROVE  Min({a, b}) = IF a <= b THEN a ELSE b
BY DEF Min

(* Quotient and remainder. *)
LEMMA Division ==
  ASSUME NEW a \in Int, NEW n \in Nat \ {0}
  PROVE  /\ a \div n \in Int /\ a % n \in 0 .. n - 1
         /\ a = n * (a \div n) + (a % n)
OBVIOUS

(* A multiple of n that is above zero is at least n. *)
LEMMA Multiple ==
  ASSUME NEW n \in Nat \ {0}, NEW k \in Int, n * k > 0
  PROVE  n * k >= n
<1>1. k >= 1
  OBVIOUS
<1>2. n * k = n + n * (k - 1)
  OBVIOUS
<1>3. n * (k - 1) >= 0
  BY <1>1
<1> QED
  BY <1>2, <1>3

(* Going round the word never gains: the remainder grows by no more than   *)
(* the number does.                                                        *)
LEMMA RemainderStep ==
  ASSUME NEW a \in Int, NEW d \in Nat, NEW n \in Nat \ {0}
  PROVE  (a + d) % n <= (a % n) + d
<1> DEFINE q == a \div n
           r == a % n
           p == (a + d) \div n
           t == (a + d) % n
<1>1. /\ q \in Int /\ r \in 0 .. n - 1 /\ a = n * q + r
      /\ p \in Int /\ t \in 0 .. n - 1 /\ a + d = n * p + t
  BY Division
<1> HIDE DEF q, r, p, t
<1>2. n * (q - p) = t - (r + d)
  <2>1. n * (q - p) = n * q - n * p
    BY <1>1
  <2> QED
    BY <1>1, <2>1
<1>3. ASSUME t > r + d
      PROVE  FALSE
  <2>1. n * (q - p) >= n
    BY <1>1, <1>2, <1>3, Multiple
  <2> QED
    BY <1>1, <1>2, <2>1
<1> QED
  BY <1>1, <1>3 DEF r, t

LEMMA WrapSpan == WordSpan \div 2 \in Nat /\ 2 * (WordSpan \div 2) <= WordSpan
BY ThrottleAssumption

(* A number of the word keeps its value. *)
LEMMA WrappedSmall ==
  ASSUME NEW x \in Nat, x < WordSpan \div 2
  PROVE  Wrapped(x) = x
<1> DEFINE half == WordSpan \div 2
<1>1. half \in Nat /\ x + half \in 0 .. WordSpan - 1
  BY WrapSpan, ThrottleAssumption
<1>2. (x + half) % WordSpan = x + half
  <2> HIDE DEF half
  <2>1. \A y \in 0 .. WordSpan - 1 : y % WordSpan = y
    BY ThrottleAssumption
  <2> QED
    BY <1>1, <2>1
<1> QED
  BY <1>1, <1>2 DEF Wrapped

(* Wrapping never gains either. *)
LEMMA WrappedStep ==
  ASSUME NEW x \in Nat, NEW d \in Nat
  PROVE  /\ Wrapped(x) \in Int
         /\ Wrapped(x + d) \in Int
         /\ Wrapped(x + d) <= Wrapped(x) + d
<1> DEFINE half == WordSpan \div 2
<1>1. half \in Nat /\ WordSpan \in Nat \ {0}
  BY WrapSpan, ThrottleAssumption
<1>2. Wrapped(x) = ((x + half) % WordSpan) - half
  BY DEF Wrapped
<1>3. Wrapped(x + d) = (((x + half) + d) % WordSpan) - half
  BY <1>1 DEF Wrapped
<1> HIDE DEF half
<1>4. /\ (x + half) % WordSpan \in Int
      /\ ((x + half) + d) % WordSpan \in Int
      /\ ((x + half) + d) % WordSpan <= ((x + half) % WordSpan) + d
  BY <1>1, RemainderStep, Division
<1> QED
  BY <1>1, <1>2, <1>3, <1>4

(* Credit starts at zero, and a tick adds at most the cap. *)
LEMMA CreditStep ==
  ASSUME NEW refill \in Nat, NEW t \in Nat, refill <= t
  PROVE  /\ Credit(refill, t) \in Nat
         /\ Credit(refill, t + 1) \in Nat
         /\ Credit(refill, t + 1) <= Credit(refill, t) + BandwidthCap
<1> DEFINE x == BandwidthCap * (t - refill)
<1>1. BandwidthCap \in Nat /\ x \in Nat
  BY ThrottleAssumption
<1>2. BandwidthCap * (t + 1 - refill) = x + BandwidthCap
  BY ThrottleAssumption
<1>3. /\ Wrapped(x) \in Int
      /\ Wrapped(x + BandwidthCap) \in Int
      /\ Wrapped(x + BandwidthCap) <= Wrapped(x) + BandwidthCap
  BY <1>1, WrappedStep
<1> QED
  BY <1>1, <1>2, <1>3 DEF Credit

LEMMA NoCredit ==
  ASSUME NEW t \in Nat
  PROVE  Credit(t, t) = 0
<1>1. BandwidthCap * (t - t) = 0
  BY ThrottleAssumption
<1>2. Wrapped(0) = 0
  <2> DEFINE half == WordSpan \div 2
  <2>1. half \in Nat /\ WordSpan \in Nat \ {0} /\ half < WordSpan
    BY ThrottleAssumption
  <2>2. Wrapped(0) = (half % WordSpan) - half
    BY <2>1 DEF Wrapped
  <2> HIDE DEF half
  <2>3. half % WordSpan = half
    BY <2>1
  <2> QED
    BY <2>1, <2>2, <2>3
<1> QED
  BY <1>1, <1>2 DEF Credit

(* What a refill finds is the credit, rounded down to whole tokens. *)
LEMMA EarnedCredit ==
  ASSUME now \in Nat, NEW refill \in Nat, refill <= now
  PROVE  /\ Earned(refill) \in Nat
         /\ Second * Earned(refill) <= Credit(refill, now)
         /\ Credit(refill, now) <= Second * Earned(refill) + Second - 1
<1> DEFINE product == Wrapped(BandwidthCap * (now - refill))
<1>1. Second \in Nat \ {0} /\ product \in Int
  <2>1. BandwidthCap * (now - refill) \in Nat
    BY ThrottleAssumption
  <2> QED
    BY <2>1, WrappedStep, ThrottleAssumption
<1>2. CASE product > 0
  <2>1. Credit(refill, now) = product /\ Earned(refill) = product \div Second
    BY <1>2 DEF Credit, Earned
  <2> HIDE DEF product
  <2>2. /\ product \div Second \in Int /\ product % Second \in 0 .. Second - 1
        /\ product = Second * (product \div Second) + (product % Second)
    BY <1>1, Division
  <2>3. product \div Second >= 0
    BY <1>1, <1>2
  <2> QED
    BY <1>1, <2>1, <2>2, <2>3
<1>3. CASE ~(product > 0)
  <2>1. Credit(refill, now) = 0 /\ Earned(refill) = 0
    BY <1>3 DEF Credit, Earned
  <2> QED
    BY <1>1, <2>1
<1> QED
  BY <1>2, <1>3

-------------------------------------------------------------------------------
(***************************************************************************)
(* The bucket a request finds.                                             *)
(***************************************************************************)

LEMMA BurstBounds ==
  Burst \in Nat /\ BandwidthCap <= Burst /\ EgressTokens <= Burst
BY ThrottleAssumption, TwoMax DEF Burst

(* First use, nothing earned yet, or a refill. *)
LEMMA AvailableCases ==
  ASSUME ThrottleTypeOK, Ordered, BandwidthCap > 0
  PROVE  \/ /\ lastRefill = NoTime
            /\ Available = <<IF EgressTokens = 0 THEN BandwidthCap ELSE EgressTokens, now>>
         \/ lastRefill # NoTime /\ Earned(lastRefill) = 0 /\ Available = bucket
         \/ /\ lastRefill # NoTime /\ Earned(lastRefill) \in Nat \ {0}
            /\ Available = <<Min({tokens + Earned(lastRefill), BandwidthCap}), now>>
<1>1. now \in Nat /\ MaxTime \in Nat
  BY ThrottleAssumption DEF ThrottleTypeOK, Time
<1>2. Available = Refilled(Primed)
  BY ThrottleAssumption DEF Available
<1>3. CASE lastRefill = NoTime
  <2> DEFINE b == <<IF EgressTokens = 0 THEN BandwidthCap ELSE EgressTokens, now>>
  <2>1. Primed = b
    BY <1>3 DEF Primed
  <2>2. Earned(now) = 0
    <3>1. Credit(now, now) = 0
      BY <1>1, NoCredit
    <3>2. Earned(now) \in Nat /\ Second * Earned(now) <= 0
      BY <1>1, <3>1, EarnedCredit
    <3> QED
      BY <3>2, ThrottleAssumption
  <2>3. Refilled(b) = b
    BY <2>2 DEF Refilled
  <2> QED
    BY <1>2, <1>3, <2>1, <2>3
<1>4. CASE lastRefill # NoTime
  <2>1. Primed = bucket
    BY <1>4 DEF Primed
  <2>2. Earned(lastRefill) \in Nat
    BY <1>1, <1>4, EarnedCredit DEF ThrottleTypeOK, Ordered, Time
  <2>3. bucket[1] = tokens /\ bucket[2] = lastRefill
    BY DEF bucket
  <2> QED
    BY <1>2, <1>4, <2>1, <2>2, <2>3 DEF Refilled
<1> QED
  BY <1>3, <1>4

(* It is well formed, and its refill time only moves forward. *)
LEMMA AvailableType ==
  ASSUME ThrottleTypeOK, Ordered
  PROVE  /\ Available[1] \in Nat /\ Available[2] \in Time \cup {NoTime}
         /\ lastRefill <= Available[2] /\ Available[2] <= now
<1>1. /\ now \in Time /\ now \in Nat /\ tokens \in Nat /\ lastRefill \in Time \cup {NoTime}
      /\ lastRefill <= now /\ lastRefill \in Int
  BY ThrottleAssumption DEF ThrottleTypeOK, Ordered, Time, NoTime
<1>2. CASE BandwidthCap > 0
  <2>1. CASE /\ lastRefill = NoTime
             /\ Available = <<IF EgressTokens = 0 THEN BandwidthCap ELSE EgressTokens, now>>
    BY <1>1, <2>1, ThrottleAssumption
  <2>2. CASE Available = bucket
    BY <1>1, <2>2 DEF bucket
  <2>3. CASE /\ Earned(lastRefill) \in Nat \ {0}
             /\ Available = <<Min({tokens + Earned(lastRefill), BandwidthCap}), now>>
    <3>1. Min({tokens + Earned(lastRefill), BandwidthCap}) \in Nat
      BY <1>1, <2>3, TwoMin, ThrottleAssumption
    <3> QED
      BY <1>1, <2>3, <3>1
  <2> QED
    BY <1>2, <2>1, <2>2, <2>3, AvailableCases
<1>3. CASE ~(BandwidthCap > 0)
  <2>1. Available = bucket
    BY <1>3, ThrottleAssumption DEF Available
  <2> QED
    BY <1>1, <2>1 DEF bucket
<1> QED
  BY <1>2, <1>3

(* Its tokens and what its clock has earned come to at most a burst and a  *)
(* fraction of a token, and to no more than before the request.            *)
LEMMA AvailableRate ==
  ASSUME ThrottleTypeOK, Ordered, BandwidthCap > 0, tokens <= Burst
  PROVE  /\ Available[1] <= Burst /\ Available[2] # NoTime
         /\ Credit(Available[2], now) \in Nat
         /\ Second * Available[1] + Credit(Available[2], now) <= Second * Burst + Second - 1
         /\ lastRefill # NoTime =>
              /\ Credit(lastRefill, now) \in Nat
              /\ Second * Available[1] + Credit(Available[2], now)
                   <= Second * tokens + Credit(lastRefill, now)
<1>1. /\ now \in Nat /\ tokens \in Nat /\ Second \in Nat \ {0}
      /\ BandwidthCap \in Nat /\ EgressTokens \in Nat /\ now # NoTime
      /\ lastRefill # NoTime => lastRefill \in Nat /\ lastRefill <= now
  BY ThrottleAssumption DEF ThrottleTypeOK, Ordered, Time, NoTime
<1>2. Burst \in Nat /\ BandwidthCap <= Burst /\ EgressTokens <= Burst
  BY BurstBounds
<1>3. Credit(now, now) = 0
  BY <1>1, NoCredit
<1>4. \A n \in Nat : n <= Burst => Second * n <= Second * Burst
  BY <1>1, <1>2
<1>5. CASE /\ lastRefill = NoTime
           /\ Available = <<IF EgressTokens = 0 THEN BandwidthCap ELSE EgressTokens, now>>
  <2>1. Available[1] \in Nat /\ Available[1] <= Burst /\ Available[2] = now
    BY <1>1, <1>2, <1>5
  <2> QED
    BY <1>1, <1>2, <1>3, <1>4, <1>5, <2>1
<1>6. CASE lastRefill # NoTime /\ Earned(lastRefill) = 0 /\ Available = bucket
  <2>1. Available[1] = tokens /\ Available[2] = lastRefill
    BY <1>6 DEF bucket
  <2>2. Credit(lastRefill, now) \in Nat
    BY <1>1, <1>6, CreditStep
  <2>3. Credit(lastRefill, now) <= Second - 1
    <3>1. Credit(lastRefill, now) <= Second * Earned(lastRefill) + Second - 1
      BY <1>1, <1>6, EarnedCredit
    <3> QED
      BY <1>1, <1>6, <2>2, <3>1
  <2>4. Second * tokens <= Second * Burst
    BY <1>1, <1>4
  <2> QED
    BY <1>1, <1>2, <1>6, <2>1, <2>2, <2>3, <2>4
<1>7. CASE /\ lastRefill # NoTime /\ Earned(lastRefill) \in Nat \ {0}
           /\ Available = <<Min({tokens + Earned(lastRefill), BandwidthCap}), now>>
  <2>1. PICK e \in Nat \ {0} : e = Earned(lastRefill)
    BY <1>7
  <2>2. /\ Available[1] \in Nat /\ Available[1] <= BandwidthCap /\ Available[1] <= tokens + e
        /\ Available[2] = now
    BY <1>1, <1>7, <2>1, TwoMin
  <2>3. Credit(lastRefill, now) \in Nat /\ Second * e <= Credit(lastRefill, now)
    BY <1>1, <1>7, <2>1, CreditStep, EarnedCredit
  <2>4. PICK a \in Nat : a = Available[1]
    BY <2>2
  <2>5. Second * a <= Second * tokens + Second * e
    <3>1. Second * (tokens + e - a) >= 0
      BY <1>1, <2>1, <2>2, <2>4
    <3> QED
      BY <1>1, <2>1, <2>4, <3>1
  <2>6. Second * a <= Second * Burst
    BY <1>1, <1>2, <1>4, <2>2, <2>4
  <2>7. a <= Burst
    BY <1>1, <1>2, <2>2, <2>4
  <2>8. Second * a + Credit(now, now) <= Second * Burst + Second - 1
    BY <1>1, <1>2, <1>3, <2>4, <2>6
  <2>9. Second * a + Credit(now, now) <= Second * tokens + Credit(lastRefill, now)
    BY <1>1, <1>3, <2>1, <2>3, <2>4, <2>5
  <2> QED
    BY <1>1, <1>3, <2>2, <2>3, <2>4, <2>7, <2>8, <2>9
<1> QED
  BY <1>5, <1>6, <1>7, AvailableCases

(* A refill pays at least half of what the clock earned: rounding down to  *)
(* one token or more loses less than it keeps.                             *)
LEMMA RefillPaysHalf ==
  ASSUME ThrottleTypeOK, Ordered, lastRefill # NoTime, Earned(lastRefill) # 0,
         BandwidthCap * (now - lastRefill) < WordSpan \div 2
  PROVE  2 * (Second * Earned(lastRefill)) >= BandwidthCap * (now - lastRefill)
<1>1. now \in Nat /\ lastRefill \in Nat /\ lastRefill <= now /\ Second \in Nat \ {0}
  BY ThrottleAssumption DEF ThrottleTypeOK, Ordered, Time
<1>2. PICK p \in Nat : p = BandwidthCap * (now - lastRefill)
  BY <1>1, ThrottleAssumption
<1>3. Wrapped(p) = p
  BY <1>2, WrappedSmall
<1>4. PICK e \in Nat \ {0} : e = Earned(lastRefill)
  BY <1>1, EarnedCredit
<1>5. Credit(lastRefill, now) = p
  BY <1>2, <1>3 DEF Credit
<1>6. p <= Second * e + Second - 1
  BY <1>1, <1>4, <1>5, EarnedCredit
<1>7. Second * e >= Second
  BY <1>1, <1>4, Multiple
<1> QED
  BY <1>1, <1>2, <1>4, <1>6, <1>7

(* After a request the clock has earned less than a token. *)
LEMMA AvailableRest ==
  ASSUME ThrottleTypeOK, Ordered, BandwidthCap > 0, lastRefill # NoTime,
         BandwidthCap * (now - lastRefill) < WordSpan \div 2
  PROVE  BandwidthCap * (now - Available[2]) <= Second - 1
<1>1. /\ now \in Nat /\ lastRefill \in Nat /\ lastRefill <= now
      /\ Second \in Nat \ {0} /\ BandwidthCap \in Nat
  BY ThrottleAssumption DEF ThrottleTypeOK, Ordered, Time
<1>2. CASE Earned(lastRefill) = 0 /\ Available = bucket
  <2>1. PICK p \in Nat : p = BandwidthCap * (now - lastRefill)
    BY <1>1
  <2>2. Credit(lastRefill, now) = p
    BY <2>1, WrappedSmall DEF Credit
  <2>3. p <= Second * Earned(lastRefill) + Second - 1
    BY <1>1, <2>2, EarnedCredit
  <2> QED
    BY <1>1, <1>2, <2>1, <2>3 DEF bucket
<1>3. CASE Available[2] = now
  BY <1>1, <1>3
<1> QED
  BY <1>2, <1>3, AvailableCases

(* Paying in keeps SpentInv: the bucket a request finds satisfies it too.  *)
LEMMA AvailableSpent ==
  ASSUME ThrottleTypeOK, Ordered, SpentInv, BandwidthCap > 0, usedAt # NoTime,
         BandwidthCap * (now - usedAt) < WordSpan \div 2
  PROVE  \/ Available[1] + granted >= BandwidthCap
         \/ 2 * (Second * (Available[1] + granted)) >= BandwidthCap * (Available[2] - usedAt)
<1>1. /\ now \in Nat /\ usedAt \in Nat /\ lastRefill \in Nat
      /\ usedAt <= lastRefill /\ lastRefill <= now /\ lastRefill # NoTime
      /\ tokens \in Nat /\ granted \in Nat
      /\ Second \in Nat \ {0} /\ BandwidthCap \in Nat \ {0} /\ WordSpan \div 2 \in Nat
  BY ThrottleAssumption, WrapSpan DEF ThrottleTypeOK, Ordered, Time, NoTime
<1>2. \/ tokens + granted >= BandwidthCap
      \/ 2 * (Second * (tokens + granted)) >= BandwidthCap * (lastRefill - usedAt)
  BY DEF SpentInv
<1>3. CASE Available = bucket
  BY <1>2, <1>3 DEF bucket
<1>4. CASE /\ Earned(lastRefill) \in Nat \ {0}
           /\ Available = <<Min({tokens + Earned(lastRefill), BandwidthCap}), now>>
  <2>1. PICK e \in Nat \ {0} : e = Earned(lastRefill)
    BY <1>4
  <2>2. CASE tokens + e >= BandwidthCap
    <3>1. Available[1] = BandwidthCap
      BY <1>1, <1>4, <2>1, <2>2, TwoMin
    <3> QED
      BY <1>1, <3>1
  <2>3. CASE tokens + e < BandwidthCap
    <3>1. Available[1] = tokens + e /\ Available[2] = now
      BY <1>1, <1>4, <2>1, <2>3, TwoMin
    <3>2. CASE tokens + granted >= BandwidthCap
      BY <1>1, <2>1, <3>1, <3>2
    <3>3. CASE 2 * (Second * (tokens + granted)) >= BandwidthCap * (lastRefill - usedAt)
      <4>1. BandwidthCap * (now - usedAt)
              = BandwidthCap * (now - lastRefill) + BandwidthCap * (lastRefill - usedAt)
        BY <1>1
      <4>2. BandwidthCap * (lastRefill - usedAt) >= 0
        BY <1>1
      <4>3. BandwidthCap * (now - lastRefill) < WordSpan \div 2
        BY <1>1, <4>1, <4>2
      <4>4. 2 * (Second * e) >= BandwidthCap * (now - lastRefill)
        BY <1>1, <2>1, <4>3, RefillPaysHalf
      <4>5. Second * (tokens + e + granted) = Second * (tokens + granted) + Second * e
        BY <1>1, <2>1
      <4>6. 2 * (Second * (tokens + e + granted)) >= BandwidthCap * (now - usedAt)
        BY <1>1, <2>1, <3>3, <4>1, <4>4, <4>5
      <4> QED
        BY <3>1, <4>6
    <3> QED
      BY <1>2, <3>2, <3>3
  <2> QED
    BY <1>1, <2>1, <2>2, <2>3
<1> QED
  BY <1>1, <1>3, <1>4, AvailableCases

-------------------------------------------------------------------------------
(***************************************************************************)
(* The prefix loop of EnqueueLazy.                                         *)
(***************************************************************************)

LEMMA LeastElement ==
  ASSUME NEW S, S \subseteq Nat, S # {}
  PROVE  \E m \in S : \A y \in S : m <= y
<1>1. PICK m \in S : \A y \in S : ~(<<y, m>> \in OpToRel(<, Nat))
  BY NatLessThanWellFounded, WFMin
<1>2. \A y \in S : ~(y < m)
  BY <1>1 DEF OpToRel
<1> QED
  BY <1>2

(* The loop stops: it passes exactly the stale entries before the first    *)
(* fresh one.                                                              *)
LEMMA StaleIsPrefix ==
  ASSUME ThrottleTypeOK
  PROVE  Stale \in 0 .. Len(lazyQueue) /\ \A j \in 1 .. Stale : ~Fresh(lazyQueue[j])
<1> DEFINE n == Len(lazyQueue)
           Stop(i) == /\ \A j \in 1 .. i : ~Fresh(lazyQueue[j])
                      /\ i < n => Fresh(lazyQueue[i + 1])
           hits == {j \in 1 .. n : Fresh(lazyQueue[j])}
<1>1. n \in Nat
  BY DEF ThrottleTypeOK
<1>2. \E i \in 0 .. n : Stop(i)
  <2>1. CASE hits = {}
    BY <1>1, <2>1
  <2>2. CASE hits # {}
    <3>1. PICK m \in hits : \A y \in hits : m <= y
      <4>1. hits \subseteq Nat
        BY <1>1
      <4> HIDE DEF hits
      <4> QED
        BY <2>2, <4>1, LeastElement
    <3>2. m - 1 \in 0 .. n /\ m - 1 + 1 = m /\ m \in Nat
      BY <1>1, <3>1
    <3>3. \A j \in 1 .. m - 1 : ~Fresh(lazyQueue[j])
      <4> SUFFICES ASSUME NEW j \in 1 .. m - 1, Fresh(lazyQueue[j])
                   PROVE  FALSE
        OBVIOUS
      <4>1. j \in hits
        BY <1>1, <3>1
      <4> QED
        BY <3>1, <3>2, <4>1
    <3> QED
      BY <3>1, <3>2, <3>3
  <2> QED
    BY <2>1, <2>2
<1>3. Stale = CHOOSE i \in 0 .. n : Stop(i)
  BY DEF Stale
<1> HIDE DEF hits
<1>4. Stale \in 0 .. n /\ Stop(Stale)
  <2> HIDE DEF Stop, n
  <2> QED
    BY <1>2, <1>3
<1> QED
  BY <1>4

LEMMA PrunedShape ==
  ASSUME ThrottleTypeOK
  PROVE  /\ Pruned \in Seq(Time)
         /\ Stale \in Nat /\ Len(Pruned) = Len(lazyQueue) - Stale
         /\ \A i \in 1 .. Len(Pruned) : Pruned[i] = lazyQueue[i + Stale]
<1>1. lazyQueue \in Seq(Time) /\ Len(lazyQueue) \in Nat /\ Stale \in 0 .. Len(lazyQueue)
  BY StaleIsPrefix DEF ThrottleTypeOK
<1>2. PICK k \in Nat : k = Stale /\ k <= Len(lazyQueue)
  BY <1>1
<1>3. Pruned = SubSeq(lazyQueue, k + 1, Len(lazyQueue))
  BY <1>2 DEF Pruned
<1>4. Pruned \in Seq(Time) /\ Len(Pruned) = Len(lazyQueue) - k
  BY <1>1, <1>2, <1>3
<1>5. \A i \in 1 .. Len(Pruned) : Pruned[i] = lazyQueue[i + k]
  BY <1>1, <1>2, <1>3, <1>4
<1> QED
  BY <1>2, <1>4, <1>5

LEMMA AgeIsPositive == maxAge \in Nat \ {0}
BY ThrottleAssumption DEF maxAge

(* Nothing accepted within the window is pruned. *)
LEMMA PrunedKeepsWindow ==
  ASSUME ThrottleTypeOK, QueueInv, now - since <= maxAge
  PROVE  /\ accepted <= Len(Pruned)
         /\ \A i \in 1 .. Len(Pruned) : i > Len(Pruned) - accepted => Pruned[i] >= since
<1>1. /\ now \in Nat /\ since \in Nat /\ accepted \in Nat
      /\ lazyQueue \in Seq(Time) /\ Len(lazyQueue) \in Nat /\ maxAge \in Nat
  BY ThrottleAssumption, AgeIsPositive DEF ThrottleTypeOK, Time
<1>2. /\ accepted <= Len(lazyQueue)
      /\ \A i \in 1 .. Len(lazyQueue) :
           i > Len(lazyQueue) - accepted => lazyQueue[i] >= since
  BY DEF QueueInv
<1>3. \A i \in 1 .. Len(lazyQueue) : lazyQueue[i] \in Nat
  BY <1>1, ThrottleAssumption DEF Time
<1>4. PICK k \in 0 .. Len(lazyQueue) : k = Stale /\ \A j \in 1 .. k : ~Fresh(lazyQueue[j])
  BY StaleIsPrefix
<1>5. k <= Len(lazyQueue) - accepted
  <2> SUFFICES ASSUME k > Len(lazyQueue) - accepted
               PROVE  FALSE
    BY <1>1, <1>4
  <2>1. k \in 1 .. k /\ k \in 1 .. Len(lazyQueue)
    BY <1>1, <1>2, <1>4
  <2>2. lazyQueue[k] >= since /\ lazyQueue[k] \in Nat
    BY <1>2, <1>3, <2>1
  <2>3. Fresh(lazyQueue[k])
    BY <1>1, <2>2 DEF Fresh
  <2> QED
    BY <1>4, <2>1, <2>3
<1>6. /\ Len(Pruned) = Len(lazyQueue) - k
      /\ \A i \in 1 .. Len(Pruned) : Pruned[i] = lazyQueue[i + k]
  BY <1>4, PrunedShape
<1>7. ASSUME NEW i \in 1 .. Len(Pruned), i > Len(Pruned) - accepted
      PROVE  Pruned[i] >= since
  <2>1. i + k \in 1 .. Len(lazyQueue) /\ i + k > Len(lazyQueue) - accepted
    BY <1>1, <1>4, <1>6, <1>7
  <2> QED
    BY <1>2, <1>6, <2>1
<1> QED
  BY <1>1, <1>4, <1>5, <1>6, <1>7

-------------------------------------------------------------------------------
(***************************************************************************)
(* The inductive invariant.                                                *)
(***************************************************************************)

LEMMA InitThrottle == ThrottleInit => ThrottleInv
<1> SUFFICES ASSUME ThrottleInit PROVE ThrottleInv
  OBVIOUS
<1>1. ThrottleTypeOK /\ Ordered
  BY ThrottleAssumption DEF ThrottleInit, ThrottleTypeOK, Ordered, Time, NoTime
<1>2. QueueInv
  BY ThrottleAssumption DEF ThrottleInit, QueueInv
<1>3. BucketInv
  BY BurstBounds DEF ThrottleInit, BucketInv
<1>4. SpentInv
  BY DEF ThrottleInit, SpentInv
<1> QED
  BY <1>1, <1>2, <1>3, <1>4 DEF ThrottleInv

(* The clock moves on, and the interval measured may begin again. *)
LEMMA TickKeeps ==
  ASSUME ThrottleInv, Tick
  PROVE  ThrottleInv'
<1>1. /\ now \in Nat /\ now' = now + 1 /\ since \in Nat /\ since <= now
      /\ lastRefill \in Int /\ usedAt \in Int /\ lastRefill' = lastRefill
      /\ lazyQueue' = lazyQueue /\ tokens' = tokens /\ tokens \in Nat
      /\ granted \in Nat /\ accepted \in Nat /\ Len(lazyQueue) \in Nat
      /\ BandwidthCap \in Nat /\ Second \in Nat \ {0} /\ Burst \in Nat /\ maxAge \in Nat \ {0}
  BY ThrottleAssumption, AgeIsPositive, BurstBounds
  DEF ThrottleInv, ThrottleTypeOK, Time, NoTime, Tick, bucket
<1>2. \/ UNCHANGED <<since, accepted, granted, usedAt>>
      \/ since' = now + 1 /\ accepted' = 0 /\ granted' = 0 /\ usedAt' = lastRefill
  BY DEF Tick
<1>3. ThrottleTypeOK' /\ Ordered'
  BY <1>1, <1>2, ThrottleAssumption DEF ThrottleInv, ThrottleTypeOK, Ordered, Time, NoTime, Tick, bucket
<1>4. QueueInv'
  <2>1. CASE UNCHANGED <<since, accepted, granted, usedAt>>
    <3>1. now' - since' <= maxAge => now - since <= maxAge
      BY <1>1, <2>1
    <3> QED
      BY <1>1, <2>1, <3>1 DEF ThrottleInv, QueueInv, maxAge
  <2>2. CASE accepted' = 0
    BY <1>1, <2>2 DEF ThrottleInv, QueueInv
  <2> QED
    BY <1>2, <2>1, <2>2
<1>5. BucketInv'
  <2>1. CASE UNCHANGED <<since, accepted, granted, usedAt>>
    <3> SUFFICES ASSUME BandwidthCap > 0, granted > 0
                 PROVE  /\ lastRefill # NoTime
                        /\ Second * (granted + tokens) + Credit(lastRefill, now + 1)
                             <= Second * Burst + BandwidthCap * (now + 1 - since) + Second - 1
      BY <1>1, <2>1 DEF ThrottleInv, BucketInv, Burst
    <3>1. /\ lastRefill # NoTime
          /\ Second * (granted + tokens) + Credit(lastRefill, now)
               <= Second * Burst + BandwidthCap * (now - since) + Second - 1
      BY DEF ThrottleInv, BucketInv
    <3>2. lastRefill \in Nat /\ lastRefill <= now
      BY <3>1, ThrottleAssumption DEF ThrottleInv, ThrottleTypeOK, Ordered, Time
    <3>3. /\ Credit(lastRefill, now) \in Nat /\ Credit(lastRefill, now + 1) \in Nat
          /\ Credit(lastRefill, now + 1) <= Credit(lastRefill, now) + BandwidthCap
      BY <1>1, <3>2, CreditStep
    <3>4. BandwidthCap * (now + 1 - since) = BandwidthCap * (now - since) + BandwidthCap
      BY <1>1
    <3>5. /\ Second * (granted + tokens) \in Int /\ Second * Burst \in Int
          /\ BandwidthCap * (now - since) \in Int
      BY <1>1
    <3> QED
      BY <1>1, <3>1, <3>3, <3>4, <3>5
  <2>2. CASE granted' = 0
    BY <1>1, <2>2 DEF ThrottleInv, BucketInv, Burst
  <2> QED
    BY <1>2, <2>1, <2>2
<1>6. SpentInv'
  <2> SUFFICES ASSUME BandwidthCap > 0, usedAt' # NoTime,
                      BandwidthCap * (now' - usedAt') < WordSpan \div 2
               PROVE  \/ tokens' + granted' >= BandwidthCap
                      \/ 2 * (Second * (tokens' + granted')) >= BandwidthCap * (lastRefill' - usedAt')
    BY Zenon DEF SpentInv, NoTime
  <2>1. CASE UNCHANGED <<since, accepted, granted, usedAt>>
    <3>1. BandwidthCap * (now + 1 - usedAt) = BandwidthCap * (now - usedAt) + BandwidthCap
      BY <1>1
    <3>2. BandwidthCap * (now + 1 - usedAt) < WordSpan \div 2
      BY <1>1, <2>1
    <3>3. BandwidthCap * (now - usedAt) < WordSpan \div 2
      BY <1>1, <3>1, <3>2, WrapSpan
    <3>4. \/ tokens + granted >= BandwidthCap
          \/ 2 * (Second * (tokens + granted)) >= BandwidthCap * (lastRefill - usedAt)
      BY <2>1, <3>3 DEF ThrottleInv, SpentInv
    <3> QED
      BY <1>1, <2>1, <3>4
  <2>2. CASE granted' = 0 /\ usedAt' = lastRefill
    <3>1. BandwidthCap * (lastRefill' - usedAt') = 0
      BY <1>1, <2>2
    <3>2. 2 * (Second * (tokens' + granted')) >= 0
      BY <1>1, <2>2
    <3> QED
      BY <3>1, <3>2
  <2> QED
    BY <1>2, <2>1, <2>2
<1> QED
  BY <1>3, <1>4, <1>5, <1>6 DEF ThrottleInv

(* An announcement is dropped at the cap, or queued at the end. *)
LEMMA EnqueueKeeps ==
  ASSUME ThrottleInv, NEW h \in Pusher, NEW n \in Cost, EnqueueLazy(h, n)
  PROVE  ThrottleInv'
<1>1. /\ ThrottleTypeOK /\ Ordered /\ QueueInv /\ BucketInv /\ SpentInv
      /\ now' = now /\ since' = since /\ tokens' = tokens /\ lastRefill' = lastRefill
      /\ granted' = granted /\ usedAt' = usedAt
  BY DEF ThrottleInv, EnqueueLazy, bucket, measure
<1>2. /\ now \in Time /\ now \in Nat /\ since \in Nat /\ since <= now /\ accepted \in Nat
      /\ cost \in [Pusher -> Cost \cup {0}] /\ Len(lazyQueue) \in Nat
      /\ BackpressureMax \in Nat
  BY <1>1, ThrottleAssumption DEF ThrottleTypeOK, Time
<1>3. /\ Pruned \in Seq(Time) /\ Len(Pruned) \in Nat /\ Len(Pruned) <= Len(lazyQueue)
  <2>1. /\ Pruned \in Seq(Time) /\ Stale \in Nat
        /\ Len(Pruned) = Len(lazyQueue) - Stale
    BY <1>1, PrunedShape
  <2> QED
    BY <1>2, <2>1
<1>4. BucketInv' /\ SpentInv' /\ Ordered'
  BY <1>1 DEF BucketInv, SpentInv, Ordered, Burst, Credit, Wrapped
<1>5. BackpressureMax > 0 => Len(lazyQueue) <= BackpressureMax
  BY <1>1 DEF QueueInv
<1>6. CASE QueueFull
  <2>1. lazyQueue' = Pruned /\ cost' = cost /\ accepted' = accepted
    BY <1>6 DEF EnqueueLazy
  <2>2. ThrottleTypeOK'
    BY <1>1, <1>3, <2>1 DEF ThrottleTypeOK
  <2>3. Len(Pruned) <= BackpressureMax \/ ~(BackpressureMax > 0)
    BY <1>2, <1>3, <1>5
  <2>4. QueueInv'
    BY <1>1, <2>1, <2>3, PrunedKeepsWindow DEF QueueInv, maxAge
  <2> QED
    BY <1>4, <2>2, <2>4 DEF ThrottleInv
<1>7. CASE ~QueueFull
  <2>1. /\ lazyQueue' = Append(Pruned, now) /\ cost' = [cost EXCEPT ![h] = n]
        /\ accepted' = accepted + 1
    BY <1>7 DEF EnqueueLazy
  <2>2. /\ lazyQueue' \in Seq(Time) /\ Len(lazyQueue') = Len(Pruned) + 1
        /\ lazyQueue'[Len(Pruned) + 1] = now
        /\ \A i \in 1 .. Len(Pruned) : lazyQueue'[i] = Pruned[i]
    BY <1>2, <1>3, <2>1
  <2>3. ThrottleTypeOK'
    <3>1. cost' \in [Pusher -> Cost \cup {0}]
      BY <1>2, <2>1
    <3>2. accepted' \in Nat
      BY <1>2, <2>1
    <3> QED
      BY <1>1, <2>2, <3>1, <3>2 DEF ThrottleTypeOK
  <2>4. BackpressureMax > 0 => Len(lazyQueue') <= BackpressureMax
    BY <1>2, <1>3, <1>7, <2>2 DEF QueueFull
  <2>5. ASSUME now - since <= maxAge
        PROVE  /\ accepted' <= Len(lazyQueue')
               /\ \A i \in 1 .. Len(lazyQueue') :
                    i > Len(lazyQueue') - accepted' => lazyQueue'[i] >= since
    <3>1. /\ accepted <= Len(Pruned)
          /\ \A i \in 1 .. Len(Pruned) : i > Len(Pruned) - accepted => Pruned[i] >= since
      BY <1>1, <2>5, PrunedKeepsWindow
    <3>2. ASSUME NEW i \in 1 .. Len(lazyQueue'), i > Len(lazyQueue') - accepted'
          PROVE  lazyQueue'[i] >= since
      <4>1. CASE i = Len(Pruned) + 1
        BY <1>2, <2>2, <4>1
      <4>2. CASE i # Len(Pruned) + 1
        <5>1. i \in 1 .. Len(Pruned) /\ i > Len(Pruned) - accepted
          BY <1>2, <1>3, <2>1, <2>2, <3>2, <4>2
        <5> QED
          BY <2>2, <3>1, <5>1
      <4> QED
        BY <4>1, <4>2
    <3> QED
      BY <1>2, <1>3, <2>1, <2>2, <3>1, <3>2
  <2>6. QueueInv'
    BY <1>1, <2>4, <2>5 DEF QueueInv, maxAge
  <2> QED
    BY <1>4, <2>3, <2>6 DEF ThrottleInv
<1> QED
  BY <1>6, <1>7

(* A request moves bytes from the bucket to the peer, or is refused. *)
LEMMA ConsumeMoves ==
  ASSUME ThrottleInv, NEW h \in Pusher, ConsumeTokens(h)
  PROVE  /\ cost[h] \in Nat \ {0}
         /\ tokens' \in Nat /\ granted' \in Nat
         /\ BandwidthCap > 0 =>
              /\ tokens' + granted' = Available[1] + granted
              /\ tokens' <= Available[1] /\ granted' >= granted
<1>1. /\ cost[h] \in Nat \ {0} /\ granted \in Nat /\ Available[1] \in Nat
      /\ BandwidthCap \in Nat
  BY AvailableType, ThrottleAssumption DEF ThrottleInv, ThrottleTypeOK, ConsumeTokens
<1>2. CASE BandwidthCap = 0
  BY <1>1, <1>2 DEF ConsumeTokens, Refused
<1>3. CASE BandwidthCap # 0 /\ Refused(h)
  BY <1>1, <1>3 DEF ConsumeTokens
<1>4. CASE BandwidthCap # 0 /\ ~Refused(h)
  <2>1. tokens' = Available[1] - cost[h] /\ granted' = granted + cost[h]
    BY <1>4 DEF ConsumeTokens
  <2>2. cost[h] <= Available[1]
    BY <1>1, <1>4 DEF Refused
  <2> QED
    BY <1>1, <2>1, <2>2
<1> QED
  BY <1>2, <1>3, <1>4

LEMMA ConsumeKeeps ==
  ASSUME ThrottleInv, NEW h \in Pusher, ConsumeTokens(h)
  PROVE  ThrottleInv'
<1>1. /\ ThrottleTypeOK /\ Ordered /\ QueueInv /\ BucketInv /\ SpentInv
      /\ now' = now /\ since' = since /\ lazyQueue' = lazyQueue /\ accepted' = accepted
      /\ usedAt' = usedAt /\ lastRefill' = Available[2]
  BY DEF ThrottleInv, ConsumeTokens, measure
<1>2. /\ now \in Nat /\ since \in Nat /\ since <= now /\ tokens \in Nat /\ granted \in Nat
      /\ lastRefill \in Int /\ usedAt \in Int /\ usedAt <= lastRefill
      /\ BandwidthCap \in Nat /\ Second \in Nat \ {0} /\ Burst \in Nat
  BY <1>1, ThrottleAssumption, BurstBounds DEF ThrottleTypeOK, Ordered, Time, NoTime
<1>3. /\ Available[1] \in Nat /\ Available[2] \in Time \cup {NoTime} /\ Available[2] \in Int
      /\ lastRefill <= Available[2] /\ Available[2] <= now
  BY <1>1, AvailableType, ThrottleAssumption DEF Time, NoTime
<1>4. /\ tokens' \in Nat /\ granted' \in Nat
      /\ BandwidthCap > 0 =>
           /\ tokens' + granted' = Available[1] + granted
           /\ tokens' <= Available[1] /\ granted' >= granted
  BY ConsumeMoves
<1>5. ThrottleTypeOK'
  <2>1. cost' \in [Pusher -> Cost \cup {0}]
    BY <1>1 DEF ThrottleTypeOK, ConsumeTokens
  <2> QED
    BY <1>1, <1>3, <1>4, <2>1 DEF ThrottleTypeOK
<1>6. Ordered'
  BY <1>1, <1>2, <1>3 DEF Ordered
<1>7. QueueInv'
  BY <1>1 DEF QueueInv, maxAge
<1>8. BucketInv'
  <2> SUFFICES ASSUME BandwidthCap > 0
               PROVE  /\ tokens' <= Burst
                      /\ granted' > 0 =>
                           /\ Available[2] # NoTime
                           /\ Second * (granted' + tokens') + Credit(Available[2], now)
                                <= Second * Burst + BandwidthCap * (now - since) + Second - 1
    BY <1>1 DEF BucketInv, Burst
  <2>1. tokens <= Burst
    BY <1>1 DEF BucketInv
  <2>2. /\ Available[1] <= Burst /\ Available[2] # NoTime
        /\ Credit(Available[2], now) \in Nat
        /\ Second * Available[1] + Credit(Available[2], now) <= Second * Burst + Second - 1
        /\ lastRefill # NoTime =>
             /\ Credit(lastRefill, now) \in Nat
             /\ Second * Available[1] + Credit(Available[2], now)
                  <= Second * tokens + Credit(lastRefill, now)
    BY <1>1, <2>1, AvailableRate
  <2>3. tokens' <= Burst
    BY <1>2, <1>3, <1>4, <2>2
  <2>4. Second * (granted' + tokens') = Second * Available[1] + Second * granted
    BY <1>2, <1>3, <1>4
  <2>5. BandwidthCap * (now - since) >= 0
    BY <1>2
  <2>6. /\ Second * Available[1] \in Int /\ Second * granted \in Int /\ Second * tokens \in Int
        /\ Second * Burst \in Int /\ BandwidthCap * (now - since) \in Int
    BY <1>2, <1>3
  <2>7. CASE granted = 0
    <3>1. Second * granted = 0
      BY <1>2, <2>7
    <3> QED
      BY <1>2, <2>2, <2>3, <2>4, <2>5, <2>6, <3>1
  <2>8. CASE granted > 0
    <3>1. /\ lastRefill # NoTime
          /\ Second * (granted + tokens) + Credit(lastRefill, now)
               <= Second * Burst + BandwidthCap * (now - since) + Second - 1
      BY <1>1, <2>8 DEF BucketInv
    <3>2. Second * (granted + tokens) = Second * granted + Second * tokens
      BY <1>2
    <3> QED
      BY <1>2, <2>2, <2>3, <2>4, <2>6, <3>1, <3>2
  <2> QED
    BY <1>2, <2>7, <2>8
<1>9. SpentInv'
  <2> SUFFICES ASSUME BandwidthCap > 0, usedAt' # NoTime,
                      BandwidthCap * (now' - usedAt') < WordSpan \div 2
               PROVE  \/ tokens' + granted' >= BandwidthCap
                      \/ 2 * (Second * (tokens' + granted')) >= BandwidthCap * (lastRefill' - usedAt')
    BY Zenon DEF SpentInv, NoTime
  <2>1. BandwidthCap * (now - usedAt) < WordSpan \div 2
    BY <1>1
  <2>2. \/ Available[1] + granted >= BandwidthCap
        \/ 2 * (Second * (Available[1] + granted)) >= BandwidthCap * (Available[2] - usedAt)
    BY <1>1, <2>1, AvailableSpent
  <2> QED
    BY <1>1, <1>4, <2>2
<1> QED
  BY <1>5, <1>6, <1>7, <1>8, <1>9 DEF ThrottleInv

LEMMA NextKeepsThrottle == ThrottleInv /\ [ThrottleNext]_throttleVars => ThrottleInv'
<1> SUFFICES ASSUME ThrottleInv, [ThrottleNext]_throttleVars PROVE ThrottleInv'
  OBVIOUS
<1>1. CASE Tick
  BY <1>1, TickKeeps
<1>2. ASSUME NEW h \in Pusher, ConsumeTokens(h)
      PROVE  ThrottleInv'
  BY <1>2, ConsumeKeeps
<1>3. ASSUME NEW h \in Pusher, NEW n \in Cost, EnqueueLazy(h, n)
      PROVE  ThrottleInv'
  BY <1>3, EnqueueKeeps
<1>4. CASE UNCHANGED throttleVars
  BY <1>4 DEF throttleVars, ThrottleInv, ThrottleTypeOK, Ordered, QueueInv, BucketInv, SpentInv,
              maxAge, Burst, Credit, Wrapped
<1> QED
  BY <1>1, <1>2, <1>3, <1>4 DEF ThrottleNext

LEMMA AlwaysThrottleInv == ThrottleSpec => []ThrottleInv
<1>1. ThrottleInit => ThrottleInv
  BY InitThrottle
<1>2. ThrottleInv /\ [ThrottleNext]_throttleVars => ThrottleInv'
  BY NextKeepsThrottle
<1> QED
  BY <1>1, <1>2, PTL DEF ThrottleSpec

(* Every reachable queue, bucket and measure is well typed. *)
THEOREM ThrottleTypes == ThrottleSpec => []ThrottleTypeOK
<1>1. ThrottleInv => ThrottleTypeOK
  BY DEF ThrottleInv
<1> QED
  BY <1>1, AlwaysThrottleInv, PTL

(* EnqueueLazy bounds the announcements to one peer: no stretch of the     *)
(* clock as long as maxAge sees more than BackpressureMax of them, for     *)
(* every cap and age and however goroutines and the clock interleave.      *)
THEOREM WindowIsBounded == ThrottleSpec => []WindowHolds
<1>1. ThrottleInv => WindowHolds
  <2> SUFFICES ASSUME ThrottleInv, BackpressureMax > 0, now - since <= maxAge
               PROVE  accepted <= BackpressureMax
    BY DEF WindowHolds
  <2>1. /\ accepted \in Nat /\ Len(lazyQueue) \in Nat /\ BackpressureMax \in Nat
        /\ accepted <= Len(lazyQueue) /\ Len(lazyQueue) <= BackpressureMax
    BY ThrottleAssumption DEF ThrottleInv, ThrottleTypeOK, QueueInv
  <2> QED
    BY <2>1
<1> QED
  BY <1>1, AlwaysThrottleInv, PTL

(* ConsumeTokens keeps the rate: over every stretch of the clock the peer  *)
(* is sent at most one burst, what BandwidthCap earns in that time and one *)
(* byte, for every cap, burst, clock resolution and word size.             *)
THEOREM RateIsBounded == ThrottleSpec => []RateHolds
<1>1. ThrottleInv => RateHolds
  <2> SUFFICES ASSUME ThrottleInv, BandwidthCap > 0
               PROVE  granted <= Burst + (BandwidthCap * (now - since)) \div Second + 1
    BY DEF RateHolds
  <2>1. /\ now \in Nat /\ since \in Nat /\ since <= now /\ granted \in Nat /\ tokens \in Nat
        /\ BandwidthCap \in Nat /\ Second \in Nat \ {0} /\ Burst \in Nat
    BY ThrottleAssumption, BurstBounds DEF ThrottleInv, ThrottleTypeOK, Time
  <2>2. PICK x \in Nat : x = BandwidthCap * (now - since)
    BY <2>1
  <2>3. PICK q \in Int : q = x \div Second
    BY <2>1, <2>2
  <2>4. x <= Second * q + Second - 1 /\ q >= 0
    BY <2>1, <2>2, <2>3, Division
  <2>5. CASE granted = 0
    BY <2>1, <2>2, <2>3, <2>4, <2>5
  <2>6. CASE granted > 0
    <3>1. /\ lastRefill # NoTime
          /\ Second * (granted + tokens) + Credit(lastRefill, now)
               <= Second * Burst + x + Second - 1
      BY <2>2, <2>6 DEF ThrottleInv, BucketInv
    <3>2. Credit(lastRefill, now) \in Nat
      <4>1. lastRefill \in Nat /\ lastRefill <= now
        BY <3>1, ThrottleAssumption DEF ThrottleInv, ThrottleTypeOK, Ordered, Time
      <4> QED
        BY <2>1, <4>1, CreditStep
    <3>3. Second * (granted + tokens) = Second * granted + Second * tokens /\ Second * tokens >= 0
      BY <2>1
    <3>4. Second * granted <= Second * Burst + Second * q + 2 * Second - 2
      BY <2>1, <2>2, <2>3, <2>4, <3>1, <3>2, <3>3
    <3>5. ASSUME granted > Burst + q + 1
          PROVE  FALSE
      <4>1. Second * (granted - (Burst + q + 2)) >= 0
        BY <2>1, <2>3, <3>5
      <4>2. Second * (granted - (Burst + q + 2))
              = Second * granted - Second * Burst - Second * q - 2 * Second
        BY <2>1, <2>3
      <4> QED
        BY <2>1, <2>3, <3>4, <4>1, <4>2
    <3> QED
      BY <2>1, <2>2, <2>3, <3>5
  <2> QED
    BY <2>1, <2>5, <2>6
<1> QED
  BY <1>1, AlwaysThrottleInv, PTL

LEMMA UsedTypes ==
  ASSUME ThrottleInv, NEW h \in Pusher, usedAt # NoTime
  PROVE  /\ now \in Nat /\ since \in Nat /\ usedAt \in Nat /\ granted \in Nat
         /\ BandwidthCap \in Nat /\ Second \in Nat \ {0} /\ cost[h] \in Nat
         /\ lastRefill \in Nat /\ usedAt <= lastRefill /\ usedAt <= since
         /\ lastRefill <= now /\ lastRefill # NoTime /\ WordSpan \div 2 \in Nat
<1>1. ThrottleTypeOK /\ Ordered
  BY DEF ThrottleInv
<1>2. Time \subseteq Nat /\ Cost \subseteq Nat /\ MaxTime \in Nat
  BY ThrottleAssumption DEF Time
<1>3. cost[h] \in Nat
  <2>1. cost[h] \in Cost \/ cost[h] = 0
    BY <1>1 DEF ThrottleTypeOK
  <2>2. \A n \in Cost : n \in Nat
    BY <1>2
  <2> QED
    BY <2>1, <2>2
<1>4. now \in Nat /\ since \in Nat /\ usedAt \in Nat /\ granted \in Nat
  BY <1>1, <1>2 DEF ThrottleTypeOK
<1>5. lastRefill \in Nat /\ lastRefill # NoTime
  BY <1>1, <1>2, <1>4 DEF ThrottleTypeOK, Ordered, NoTime
<1> QED
  BY <1>1, <1>3, <1>4, <1>5, ThrottleAssumption, WrapSpan DEF Ordered

(* ConsumeTokens refuses only what the rate explains: a bucket in use for  *)
(* a second refuses an announcement only if that one and the bytes sent    *)
(* meanwhile exceed half the cap, unless a product may have left the word. *)
THEOREM RefusalIsSpent == ThrottleSpec => []RefusalMeansSpent
<1>1. ThrottleInv => RefusalMeansSpent
  <2> SUFFICES ASSUME ThrottleInv, NEW h \in Pusher, cost[h] # 0, Refused(h),
                      usedAt # NoTime, since <= now - Second,
                      BandwidthCap * (now - usedAt) < WordSpan \div 2
               PROVE  2 * (granted + cost[h]) > BandwidthCap
    BY DEF RefusalMeansSpent
  <2>1. BandwidthCap > 0 /\ ThrottleTypeOK /\ Ordered /\ SpentInv /\ Available[1] < cost[h]
    BY DEF ThrottleInv, Refused
  <2>2. /\ now \in Nat /\ since \in Nat /\ usedAt \in Nat /\ granted \in Nat
        /\ BandwidthCap \in Nat /\ Second \in Nat \ {0} /\ cost[h] \in Nat
        /\ lastRefill \in Nat /\ usedAt <= lastRefill /\ usedAt <= since
        /\ lastRefill <= now /\ lastRefill # NoTime /\ WordSpan \div 2 \in Nat
    BY UsedTypes
  <2>3. PICK a \in Nat : a = Available[1]
    BY <2>1, AvailableType
  <2>4. PICK r \in Int : r = Available[2] /\ lastRefill <= r /\ r <= now
    <3>1. Available[2] \in Int
      BY <2>1, ThrottleAssumption, AvailableType DEF Time, NoTime
    <3> QED
      BY <2>1, <3>1, AvailableType
  <2>5. CASE a + granted >= BandwidthCap
    BY <2>1, <2>2, <2>3, <2>5
  <2>6. CASE 2 * (Second * (a + granted)) >= BandwidthCap * (r - usedAt)
    <3>1. BandwidthCap * (now - lastRefill) < WordSpan \div 2
      <4>1. /\ BandwidthCap * (now - usedAt)
                 = BandwidthCap * (now - lastRefill) + BandwidthCap * (lastRefill - usedAt)
            /\ BandwidthCap * (lastRefill - usedAt) >= 0
        BY <2>2
      <4> QED
        BY <2>2, <4>1
    <3>2. BandwidthCap * (now - r) <= Second - 1
      BY <2>1, <2>2, <2>4, <3>1, AvailableRest
    <3>3. BandwidthCap * (now - usedAt) = BandwidthCap * (now - r) + BandwidthCap * (r - usedAt)
      BY <2>2, <2>4
    <3>4. BandwidthCap * (now - usedAt) >= BandwidthCap * Second
      <4>1. now - usedAt - Second >= 0
        BY <2>2
      <4>2. BandwidthCap * (now - usedAt - Second) >= 0
        BY <2>2, <4>1
      <4>3. BandwidthCap * (now - usedAt - Second)
              = BandwidthCap * (now - usedAt) - BandwidthCap * Second
        BY <2>2
      <4> QED
        BY <2>2, <4>2, <4>3
    <3>5. Second * (2 * (a + granted) - (BandwidthCap - 1)) > 0
      <4>1. Second * (2 * (a + granted) - (BandwidthCap - 1))
              = 2 * (Second * (a + granted)) - BandwidthCap * Second + Second
        <5>1. PICK x \in Int : x = a + granted
          BY <2>2, <2>3
        <5>2. Second * (2 * x - (BandwidthCap - 1)) = Second * (2 * x) - Second * (BandwidthCap - 1)
          BY <2>2
        <5>3. Second * (2 * x) = 2 * (Second * x)
          BY <2>2
        <5>4. Second * (BandwidthCap - 1) = BandwidthCap * Second - Second
          BY <2>2
        <5>5. Second * (2 * x) \in Int /\ BandwidthCap * Second \in Int
          BY <2>2
        <5> QED
          BY <2>2, <5>1, <5>2, <5>3, <5>4, <5>5
      <4>2. /\ 2 * (Second * (a + granted)) \in Int /\ BandwidthCap * Second \in Int
            /\ BandwidthCap * (now - r) \in Int /\ BandwidthCap * (r - usedAt) \in Int
        BY <2>2, <2>3, <2>4
      <4> QED
        BY <2>2, <2>6, <3>2, <3>3, <3>4, <4>1, <4>2
    <3>6. 2 * (a + granted) - (BandwidthCap - 1) > 0
      BY <2>2, <2>3, <3>5
    <3> QED
      BY <2>1, <2>2, <2>3, <3>6
  <2> QED
    BY <2>1, <2>3, <2>4, <2>5, <2>6, AvailableSpent
<1> QED
  BY <1>1, AlwaysThrottleInv, PTL

-------------------------------------------------------------------------------
(***************************************************************************)
(* The table of peers.                                                     *)
(***************************************************************************)

InHand == \A h \in Handler : todo[h] \subseteq connected \cup overlapped

TableInv == TypeOK /\ GhostsComeFromOverlap /\ InHand

(* Before Wire the table is empty. *)
LEMMA InitTableInv == Init => TableInv
<1> SUFFICES ASSUME Init PROVE TableInv
  OBVIOUS
<1>1. 0 \in 0 .. TreeDegree /\ "idle" \in States
  BY PeerTableAssumption DEF States
<1>2. TypeOK
  BY <1>1 DEF Init, TypeOK
<1>3. GhostsComeFromOverlap /\ InHand
  BY DEF Init, GhostsComeFromOverlap, InHand
<1> QED
  BY <1>2, <1>3 DEF TableInv

(* Joins and leaves. *)
LEMMA TransportKeeps ==
  ASSUME TableInv, NEW p \in Peer, OnPeerJoin(p) \/ OnPeerLeave(p)
  PROVE  TableInv'
<1>1. CASE OnPeerJoin(p)
  BY <1>1 DEF OnPeerJoin, Ensure, TableInv, TypeOK, GhostsComeFromOverlap, InHand
<1>2. CASE OnPeerLeave(p)
  <2>1. TypeOK'
    BY <1>2 DEF OnPeerLeave, Remove, TableInv, TypeOK
  <2>2. GhostsComeFromOverlap'
    BY <1>2 DEF OnPeerLeave, Remove, TableInv, GhostsComeFromOverlap
  <2>3. InHand'
    BY <1>2 DEF OnPeerLeave, TableInv, InHand
  <2> QED
    BY <2>1, <2>2, <2>3 DEF TableInv
<1> QED
  BY <1>1, <1>2

(* A goroutine takes peers in hand. *)
LEMMA BeginKeeps ==
  ASSUME TableInv, NEW h \in Handler, NEW at \in States, NEW ps,
         ps \subseteq connected \cup overlapped, NEW e \in {"touch", "promote", "demote"},
         Begin(h, at, ps, e), wired' \in BOOLEAN, need' \in [Handler -> 0 .. TreeDegree]
  PROVE  TableInv'
<1>1. ps \subseteq Peer
  BY DEF TableInv, TypeOK
<1>2. TypeOK'
  BY <1>1 DEF Begin, TableInv, TypeOK
<1>3. GhostsComeFromOverlap' /\ InHand'
  BY DEF Begin, TableInv, TypeOK, GhostsComeFromOverlap, InHand
<1> QED
  BY <1>2, <1>3 DEF TableInv

(* The steps that begin or end a goroutine's work. *)
LEMMA HandlerKeeps ==
  ASSUME TableInv, NEW h \in Handler,
         \/ WirePeers(h) \/ CountEdges(h) \/ bestTreeEdges(h) \/ ChooseEdges(h)
         \/ lazyPushToNonTreeEdges(h) \/ Finish(h)
         \/ \E p \in Peer : CheckEdge(h, p) \/ handlePrune(h, p)
  PROVE  TableInv'
<1>1. /\ NonTreeEdges \subseteq connected \cup overlapped /\ todo[h] \subseteq connected \cup overlapped
      /\ wired \in BOOLEAN /\ need \in [Handler -> 0 .. TreeDegree]
      /\ edit[h] \in {"touch", "promote", "demote"}
      /\ {"idle", "counting", "choosing", "each"} \subseteq States
  BY DEF TableInv, TypeOK, GhostsComeFromOverlap, InHand, NonTreeEdges, States
<1>2. CASE WirePeers(h)
  BY <1>1, <1>2, BeginKeeps DEF WirePeers
<1>3. CASE CountEdges(h)
  <2> DEFINE at == IF EdgesFull THEN "idle" ELSE "each"
             ps == IF EdgesFull THEN {} ELSE todo[h]
  <2>1. Begin(h, at, ps, edit[h]) /\ wired' = wired /\ need' = need
    BY <1>3 DEF CountEdges
  <2>2. at \in States /\ ps \subseteq connected \cup overlapped
    BY <1>1
  <2> HIDE DEF at, ps
  <2> QED
    BY <1>1, <2>1, <2>2, BeginKeeps
<1>4. CASE bestTreeEdges(h)
  <2>1. need' \in [Handler -> 0 .. TreeDegree]
    <3>1. isTreeEdge \subseteq Peer
      BY DEF TableInv, TypeOK
    <3>2. Cardinality(TreeEdges) \in Nat
      BY <3>1, PeerTableAssumption, FS_Subset, FS_CardinalityType DEF TreeEdges
    <3>3. TreeDegree - Cardinality(TreeEdges) \in 0 .. TreeDegree
      BY <1>4, <3>2, PeerTableAssumption DEF bestTreeEdges
    <3> QED
      BY <1>1, <1>4, <3>3 DEF bestTreeEdges
  <2> QED
    BY <1>1, <1>4, <2>1, BeginKeeps DEF bestTreeEdges
<1>5. CASE ChooseEdges(h)
  <2>1. PICK S \in Best(NonTreeEdges, need[h]) : Begin(h, "each", S, "promote")
    BY <1>5 DEF ChooseEdges
  <2>2. S \subseteq connected \cup overlapped
    BY <1>1, <2>1 DEF Best
  <2>3. need' \in [Handler -> 0 .. TreeDegree] /\ wired' = wired
    <3>1. 0 \in 0 .. TreeDegree
      BY PeerTableAssumption
    <3> QED
      BY <1>1, <1>5, <3>1 DEF ChooseEdges
  <2> QED
    BY <1>1, <2>1, <2>2, <2>3, BeginKeeps
<1>6. CASE lazyPushToNonTreeEdges(h)
  BY <1>1, <1>6, BeginKeeps DEF lazyPushToNonTreeEdges
<1>7. CASE Finish(h)
  BY <1>1, <1>7, BeginKeeps DEF Finish
<1>8. ASSUME NEW p \in Peer, CheckEdge(h, p) \/ handlePrune(h, p) PROVE TableInv'
  BY <1>1, <1>8, BeginKeeps DEF CheckEdge, handlePrune
<1> QED
  BY <1>2, <1>3, <1>4, <1>5, <1>6, <1>7, <1>8

(* Fetching a context creates one only for a peer in hand; a write goes to *)
(* a context that is in the table, or is lost.                             *)
LEMMA ContextKeeps ==
  ASSUME TableInv, NEW h \in Handler,
         WriteFlag(h) \/ \E p \in Peer : FetchContext(h, p)
  PROVE  TableInv'
<1>1. CASE WriteFlag(h)
  <2>1. isTreeEdge' \subseteq ctxBy
    BY <1>1 DEF WriteFlag, TableInv, TypeOK
  <2> QED
    BY <1>1, <2>1 DEF WriteFlag, TableInv, TypeOK, GhostsComeFromOverlap, InHand, States
<1>2. ASSUME NEW p \in Peer, FetchContext(h, p) PROVE TableInv'
  <2>1. TypeOK'
    BY <1>2 DEF FetchContext, Ensure, TableInv, TypeOK, States
  <2>2. GhostsComeFromOverlap' /\ InHand'
    BY <1>2 DEF FetchContext, Ensure, TableInv, TypeOK, GhostsComeFromOverlap, InHand
  <2> QED
    BY <2>1, <2>2 DEF TableInv
<1> QED
  BY <1>1, <1>2

LEMMA TableStep == TableInv /\ [Next]_vars => TableInv'
<1>1. TableInv /\ UNCHANGED vars => TableInv'
  BY DEF vars, TableInv, TypeOK, GhostsComeFromOverlap, InHand
<1> QED
  BY <1>1, TransportKeeps, HandlerKeeps, ContextKeeps DEF Next

(* Flags belong to contexts of the table, and a departed peer has a        *)
(* context only if a goroutine had it in hand when it left.                *)
THEOREM TableSafe == Spec => [](TypeOK /\ GhostsComeFromOverlap)
<1>1. TableInv => TypeOK /\ GhostsComeFromOverlap
  BY DEF TableInv
<1> QED
  BY <1>1, InitTableInv, TableStep, PTL DEF Spec

-------------------------------------------------------------------------------
(***************************************************************************)
(* The number of tree edges.                                               *)
(***************************************************************************)

(* Edges each goroutine may still add. *)
Owed ==
  [h \in Handler |->
     CASE edit[h] = "promote" /\ pc[h] = "choosing" -> need[h]
       [] edit[h] = "promote" /\ pc[h] = "each" -> Cardinality(todo[h])
       [] edit[h] = "promote" /\ pc[h] = "writing" -> Cardinality(todo[h]) + 1
       [] OTHER -> 0]

(* One element for each edge owed, by all goroutines or all but one. *)
Debt(owed) == {t \in Handler \X (1 .. TreeDegree) : t[2] <= owed[t[1]]}
DebtOfOthers(owed, h) == {t \in Debt(owed) : t[1] # h}

EdgeBound == maxTreeEdges + (Cardinality(Handler) - 1) * TreeDegree

EdgesAndDebt ==
  /\ Owed \in [Handler -> 0 .. TreeDegree]
  /\ \A h \in Handler :
       /\ pc[h] \in {"counting", "choosing"} => edit[h] = "promote"
       /\ pc[h] = "counting" => \E p \in Peer : todo[h] = {p}
  /\ Cardinality(isTreeEdge) + Cardinality(Debt(Owed)) <= EdgeBound

(* What is owed in all is what one goroutine owes and what the others do. *)
LEMMA DebtParts ==
  ASSUME NEW owed \in [Handler -> 0 .. TreeDegree], NEW h \in Handler
  PROVE  /\ Cardinality(DebtOfOthers(owed, h)) \in Nat /\ Cardinality(Handler) \in Nat
         /\ Cardinality(Debt(owed)) = Cardinality(DebtOfOthers(owed, h)) + owed[h]
         /\ Cardinality(DebtOfOthers(owed, h)) <= (Cardinality(Handler) - 1) * TreeDegree
<1> DEFINE mine == {h} \X (1 .. owed[h])
           rest == (Handler \ {h}) \X (1 .. TreeDegree)
<1>1. /\ IsFiniteSet(Handler) /\ TreeDegree \in Nat /\ owed[h] \in Nat /\ owed[h] <= TreeDegree
      /\ Cardinality(Handler) \in Nat
  BY PeerTableAssumption, FS_CardinalityType
<1>2. IsFiniteSet(1 .. TreeDegree) /\ Cardinality(1 .. TreeDegree) = TreeDegree
  BY <1>1, FS_Interval
<1>3. IsFiniteSet(1 .. owed[h]) /\ Cardinality(1 .. owed[h]) = owed[h]
  BY <1>1, FS_Interval
<1>4. IsFiniteSet(mine) /\ Cardinality(mine) = owed[h]
  <2>1. IsFiniteSet({h}) /\ Cardinality({h}) = 1
    BY FS_Singleton
  <2>2. IsFiniteSet(mine) /\ Cardinality(mine) = Cardinality({h}) * Cardinality(1 .. owed[h])
    BY <1>3, <2>1, FS_Product
  <2> QED
    BY <1>1, <1>3, <2>1, <2>2
<1>5. IsFiniteSet(rest) /\ Cardinality(rest) = (Cardinality(Handler) - 1) * TreeDegree
  <2>1. IsFiniteSet(Handler \ {h}) /\ Cardinality(Handler \ {h}) = Cardinality(Handler) - 1
    BY <1>1, FS_RemoveElement
  <2>2. IsFiniteSet(rest) /\ Cardinality(rest) = Cardinality(Handler \ {h}) * Cardinality(1 .. TreeDegree)
    BY <1>2, <2>1, FS_Product
  <2> QED
    BY <1>2, <2>1, <2>2
<1>6. DebtOfOthers(owed, h) \in SUBSET rest
  BY DEF DebtOfOthers, Debt
<1>7. /\ IsFiniteSet(DebtOfOthers(owed, h)) /\ Cardinality(DebtOfOthers(owed, h)) \in Nat
      /\ Cardinality(DebtOfOthers(owed, h)) <= Cardinality(rest)
  BY <1>5, <1>6, FS_Subset, FS_CardinalityType
<1>8. Debt(owed) = DebtOfOthers(owed, h) \cup mine /\ DebtOfOthers(owed, h) \cap mine = {}
  <2>1. mine \subseteq Debt(owed)
    BY <1>1 DEF Debt
  <2>2. \A t \in Debt(owed) : t \in DebtOfOthers(owed, h) \cup mine
    BY <1>1 DEF Debt, DebtOfOthers
  <2> QED
    BY <2>1, <2>2 DEF DebtOfOthers
<1> HIDE DEF mine, rest
<1>9. Cardinality(Debt(owed)) = Cardinality(DebtOfOthers(owed, h)) + owed[h]
  <2>1. Cardinality(DebtOfOthers(owed, h) \cup mine)
          = Cardinality(DebtOfOthers(owed, h)) + Cardinality(mine) - Cardinality({})
    BY <1>4, <1>7, <1>8, FS_Union
  <2>2. Cardinality({}) = 0
    BY FS_EmptySet
  <2> QED
    BY <1>1, <1>4, <1>7, <1>8, <2>1, <2>2
<1> QED
  BY <1>1, <1>5, <1>7, <1>9

(* A goroutine acts: it trades debt for edges, or found room for both. *)
LEMMA EdgeStep ==
  ASSUME NEW old \in [Handler -> 0 .. TreeDegree], NEW new \in [Handler -> 0 .. TreeDegree],
         NEW h \in Handler, \A g \in Handler \ {h} : new[g] = old[g],
         NEW m \in Nat, NEW n \in Nat, m + Cardinality(Debt(old)) <= EdgeBound,
         n + new[h] <= m + old[h] \/ n + new[h] <= maxTreeEdges
  PROVE  n + Cardinality(Debt(new)) <= EdgeBound
<1>1. DebtOfOthers(new, h) = DebtOfOthers(old, h)
  BY DEF DebtOfOthers, Debt
<1> DEFINE d == Cardinality(DebtOfOthers(old, h))
           c == (Cardinality(Handler) - 1) * TreeDegree
<1>2. /\ d \in Nat /\ Cardinality(Handler) \in Nat /\ d <= c
      /\ Cardinality(Debt(old)) = d + old[h] /\ Cardinality(Debt(new)) = d + new[h]
  BY <1>1, DebtParts
<1>3. maxTreeEdges \in Nat /\ c \in Int /\ old[h] \in Nat /\ new[h] \in Nat /\ EdgeBound = maxTreeEdges + c
  BY <1>2, PeerTableAssumption DEF maxTreeEdges, EdgeBound
<1> HIDE DEF d, c
<1> QED
  BY <1>2, <1>3

(* Sets of peers are finite. *)
LEMMA PeerSets ==
  ASSUME NEW S \in SUBSET Peer
  PROVE  IsFiniteSet(S) /\ Cardinality(S) \in Nat
  BY PeerTableAssumption, FS_Subset, FS_CardinalityType

LEMMA InitEdges == Init => EdgesAndDebt
<1> SUFFICES ASSUME Init PROVE EdgesAndDebt
  OBVIOUS
<1>1. Owed = [h \in Handler |-> 0]
  BY DEF Init, Owed
<1>2. Debt(Owed) = {}
  BY <1>1 DEF Debt
<1>3. Cardinality(isTreeEdge) = 0 /\ Cardinality(Debt(Owed)) = 0
  BY <1>2, FS_EmptySet DEF Init
<1>4. EdgeBound \in Nat
  <2>1. Cardinality(Handler) \in Nat \ {0}
    BY PeerTableAssumption, FS_CardinalityType, FS_EmptySet
  <2>2. maxTreeEdges \in Nat /\ Cardinality(Handler) - 1 \in Nat /\ TreeDegree \in Nat
    BY <2>1, PeerTableAssumption DEF maxTreeEdges
  <2> QED
    BY <2>2 DEF EdgeBound
<1>5. Owed \in [Handler -> 0 .. TreeDegree]
  BY <1>1, PeerTableAssumption
<1> QED
  BY <1>3, <1>4, <1>5 DEF EdgesAndDebt, Init

(* A step of goroutine h. *)
LEMMA ActKeepsEdges ==
  ASSUME TableInv, TableInv', EdgesAndDebt, NEW h \in Handler,
         \A g \in Handler \ {h} :
           pc'[g] = pc[g] /\ todo'[g] = todo[g] /\ edit'[g] = edit[g] /\ need'[g] = need[g],
         Owed'[h] \in 0 .. TreeDegree,
         \/ Cardinality(isTreeEdge') + Owed'[h] <= Cardinality(isTreeEdge) + Owed[h]
         \/ Cardinality(isTreeEdge') + Owed'[h] <= maxTreeEdges,
         pc'[h] \in {"counting", "choosing"} => edit'[h] = "promote",
         pc'[h] = "counting" => \E p \in Peer : todo'[h] = {p}
  PROVE  EdgesAndDebt'
<1>1. Cardinality(isTreeEdge) \in Nat /\ Cardinality(isTreeEdge') \in Nat
  BY PeerSets DEF TableInv, TypeOK
<1>2. \A g \in Handler \ {h} : Owed'[g] = Owed[g]
  BY DEF Owed
<1>3. Owed' \in [Handler -> 0 .. TreeDegree] /\ Owed \in [Handler -> 0 .. TreeDegree]
  BY <1>2 DEF Owed, EdgesAndDebt
<1>4. Cardinality(isTreeEdge') + Cardinality(Debt(Owed')) <= EdgeBound
  BY <1>1, <1>2, <1>3, EdgeStep DEF EdgesAndDebt
<1>5. Debt(Owed)' = Debt(Owed')
  BY DEF Debt
<1> QED
  BY <1>3, <1>4, <1>5 DEF EdgesAndDebt

(* A peer joins or leaves: no goroutine owes more, no edge is added. *)
LEMMA TransportKeepsEdges ==
  ASSUME TableInv, EdgesAndDebt, NEW p \in Peer, OnPeerJoin(p) \/ OnPeerLeave(p)
  PROVE  EdgesAndDebt'
<1>1. UNCHANGED <<pc, todo, edit, need>> /\ isTreeEdge' \subseteq isTreeEdge
  BY DEF OnPeerJoin, OnPeerLeave, Remove
<1>2. Owed' = Owed
  BY <1>1 DEF Owed
<1>3. PICK h : h \in Handler
  BY PeerTableAssumption
<1>4. Cardinality(isTreeEdge') <= Cardinality(isTreeEdge) /\ Cardinality(isTreeEdge) \in Nat
      /\ Cardinality(isTreeEdge') \in Nat
  BY <1>1, PeerSets, FS_Subset DEF TableInv, TypeOK
<1>5. Cardinality(isTreeEdge') + Owed[h] <= Cardinality(isTreeEdge) + Owed[h] /\ Owed[h] \in 0 .. TreeDegree
  BY <1>3, <1>4 DEF EdgesAndDebt
<1>6. TableInv'
  BY TransportKeeps
<1> QED
  BY <1>1, <1>2, <1>3, <1>5, <1>6, ActKeepsEdges DEF EdgesAndDebt

(* A goroutine takes up work that adds no edge, or has nothing left. *)
LEMMA FreeKeepsEdges ==
  ASSUME TableInv, TableInv', EdgesAndDebt, NEW h \in Handler, NEW at, NEW ps, NEW e,
         Begin(h, at, ps, e), UNCHANGED need,
         at = "idle" \/ e # "promote" \/ (at = "counting" /\ \E p \in Peer : ps = {p}),
         at \in {"idle", "each", "counting"}, at = "counting" => e = "promote"
  PROVE  EdgesAndDebt'
<1>1. /\ pc'[h] = at /\ todo'[h] = ps /\ edit'[h] = e /\ isTreeEdge' = isTreeEdge
      /\ \A g \in Handler \ {h} :
           pc'[g] = pc[g] /\ todo'[g] = todo[g] /\ edit'[g] = edit[g] /\ need'[g] = need[g]
  BY DEF Begin, TableInv, TypeOK
<1>2. Owed'[h] = 0
  BY <1>1 DEF Owed
<1>3. Owed[h] \in 0 .. TreeDegree /\ TreeDegree \in Nat /\ Cardinality(isTreeEdge) \in Nat
  BY PeerSets, PeerTableAssumption DEF EdgesAndDebt, TableInv, TypeOK
<1>4. Owed'[h] \in 0 .. TreeDegree
      /\ Cardinality(isTreeEdge') + Owed'[h] <= Cardinality(isTreeEdge) + Owed[h]
  BY <1>1, <1>2, <1>3
<1> QED
  BY <1>1, <1>4, ActKeepsEdges

(* promoteTreeEdgeBounded: below the bound there is room for one edge. *)
LEMMA CountKeepsEdges ==
  ASSUME TableInv, EdgesAndDebt, NEW h \in Handler, CountEdges(h)
  PROVE  EdgesAndDebt'
<1>1. TableInv'
  BY HandlerKeeps
<1>2. CASE EdgesFull
  <2>1. Begin(h, "idle", {}, edit[h]) /\ UNCHANGED need
    BY <1>2 DEF CountEdges
  <2> QED
    BY <1>1, <2>1, FreeKeepsEdges
<1>3. CASE ~EdgesFull
  <2>1. Begin(h, "each", todo[h], edit[h]) /\ UNCHANGED need /\ pc[h] = "counting"
    BY <1>3 DEF CountEdges
  <2>2. PICK p \in Peer : todo[h] = {p}
    BY <2>1 DEF EdgesAndDebt
  <2>3. /\ pc'[h] = "each" /\ todo'[h] = {p} /\ edit'[h] = "promote" /\ isTreeEdge' = isTreeEdge
        /\ \A g \in Handler \ {h} :
             pc'[g] = pc[g] /\ todo'[g] = todo[g] /\ edit'[g] = edit[g] /\ need'[g] = need[g]
    BY <2>1, <2>2 DEF Begin, TableInv, TypeOK, EdgesAndDebt
  <2>4. Owed'[h] = 1
    <3>1. Cardinality({p}) = 1
      BY FS_Singleton
    <3> QED
      BY <2>3, <3>1 DEF Owed
  <2>5. Cardinality(isTreeEdge) \in Nat /\ maxTreeEdges \in Nat /\ TreeDegree \in Nat \ {0}
    BY PeerSets, PeerTableAssumption DEF TableInv, TypeOK, maxTreeEdges
  <2>6. Owed'[h] \in 0 .. TreeDegree /\ Cardinality(isTreeEdge') + Owed'[h] <= maxTreeEdges
    BY <1>3, <2>3, <2>4, <2>5 DEF EdgesFull, TreeEdges
  <2> QED
    BY <1>1, <2>3, <2>6, ActKeepsEdges
<1> QED
  BY <1>2, <1>3

(* bestTreeEdges: it wants no more than the degree leaves room for. *)
LEMMA BestKeepsEdges ==
  ASSUME TableInv, EdgesAndDebt, NEW h \in Handler, bestTreeEdges(h)
  PROVE  EdgesAndDebt'
<1>1. TableInv'
  BY HandlerKeeps
<1>2. /\ pc'[h] = "choosing" /\ edit'[h] = "promote" /\ isTreeEdge' = isTreeEdge
      /\ need'[h] = TreeDegree - Cardinality(isTreeEdge) /\ Cardinality(isTreeEdge) < TreeDegree
      /\ \A g \in Handler \ {h} :
           pc'[g] = pc[g] /\ todo'[g] = todo[g] /\ edit'[g] = edit[g] /\ need'[g] = need[g]
  BY DEF bestTreeEdges, Begin, TableInv, TypeOK, TreeEdges
<1>3. Owed'[h] = TreeDegree - Cardinality(isTreeEdge)
  BY <1>2 DEF Owed
<1>4. Cardinality(isTreeEdge) \in Nat /\ TreeDegree \in Nat \ {0} /\ EdgeFactor \in Nat \ {0}
  BY PeerSets, PeerTableAssumption DEF TableInv, TypeOK
<1>5. maxTreeEdges >= TreeDegree
  BY <1>4 DEF maxTreeEdges
<1>6. maxTreeEdges \in Nat
  BY <1>4 DEF maxTreeEdges
<1>7. Owed'[h] \in 0 .. TreeDegree /\ Cardinality(isTreeEdge') + Owed'[h] <= maxTreeEdges
  BY <1>2, <1>3, <1>4, <1>5, <1>6
<1> QED
  BY <1>1, <1>2, <1>7, ActKeepsEdges

(* The chosen peers are no more than the edges wanted. *)
LEMMA ChooseKeepsEdges ==
  ASSUME TableInv, EdgesAndDebt, NEW h \in Handler, ChooseEdges(h)
  PROVE  EdgesAndDebt'
<1>1. TableInv'
  BY HandlerKeeps
<1>2. PICK S \in Best(NonTreeEdges, need[h]) : Begin(h, "each", S, "promote")
  BY DEF ChooseEdges
<1>3. /\ pc[h] = "choosing" /\ edit[h] = "promote" /\ pc'[h] = "each" /\ edit'[h] = "promote"
      /\ todo'[h] = S /\ isTreeEdge' = isTreeEdge
      /\ \A g \in Handler \ {h} :
           pc'[g] = pc[g] /\ todo'[g] = todo[g] /\ edit'[g] = edit[g] /\ need'[g] = need[g]
  BY <1>2 DEF ChooseEdges, Begin, TableInv, TypeOK, EdgesAndDebt
<1>4. Owed[h] = need[h] /\ Owed'[h] = Cardinality(S)
  BY <1>3 DEF Owed
<1>5. /\ Cardinality(S) \in Nat /\ Cardinality(NonTreeEdges) \in Nat
      /\ Cardinality(isTreeEdge) \in Nat /\ need[h] \in 0 .. TreeDegree /\ TreeDegree \in Nat
  BY <1>2, PeerSets, PeerTableAssumption DEF Best, NonTreeEdges, TableInv, TypeOK
<1>6. Cardinality(S) <= need[h]
  BY <1>2, <1>5 DEF Best
<1>7. Owed'[h] \in 0 .. TreeDegree
      /\ Cardinality(isTreeEdge') + Owed'[h] <= Cardinality(isTreeEdge) + Owed[h]
  <2>1. isTreeEdge' = isTreeEdge
    BY <1>3
  <2> QED
    BY <1>4, <1>5, <1>6, <2>1
<1> QED
  BY <1>1, <1>3, <1>7, ActKeepsEdges

(* A context fetched is an edge about to be written. *)
LEMMA FetchKeepsEdges ==
  ASSUME TableInv, EdgesAndDebt, NEW h \in Handler, NEW p \in Peer, FetchContext(h, p)
  PROVE  EdgesAndDebt'
<1>1. TableInv'
  BY ContextKeeps
<1>2. /\ pc[h] = "each" /\ pc'[h] = "writing" /\ edit'[h] = edit[h] /\ p \in todo[h]
      /\ todo'[h] = todo[h] \ {p} /\ isTreeEdge' = isTreeEdge
      /\ \A g \in Handler \ {h} :
           pc'[g] = pc[g] /\ todo'[g] = todo[g] /\ edit'[g] = edit[g] /\ need'[g] = need[g]
  BY DEF FetchContext, TableInv, TypeOK
<1>3. Cardinality(todo[h]) \in Nat /\ Cardinality(todo[h] \ {p}) = Cardinality(todo[h]) - 1
  <2>1. todo[h] \in SUBSET Peer
    BY DEF TableInv, TypeOK
  <2> QED
    BY <1>2, <2>1, PeerSets, FS_RemoveElement
<1>4. Owed'[h] = Owed[h]
  <2>1. edit[h] = "promote" => Owed[h] = Cardinality(todo[h]) /\ Owed'[h] = Cardinality(todo[h] \ {p}) + 1
    BY <1>2 DEF Owed
  <2>2. edit[h] # "promote" => Owed[h] = 0 /\ Owed'[h] = 0
    BY <1>2 DEF Owed
  <2> QED
    BY <1>3, <2>1, <2>2
<1>5. Owed[h] \in 0 .. TreeDegree /\ TreeDegree \in Nat /\ Cardinality(isTreeEdge) \in Nat
  BY PeerSets, PeerTableAssumption DEF EdgesAndDebt, TableInv, TypeOK
<1>6. Cardinality(isTreeEdge') + Owed'[h] <= Cardinality(isTreeEdge) + Owed[h]
  BY <1>2, <1>4, <1>5
<1> QED
  BY <1>1, <1>2, <1>4, <1>5, <1>6, ActKeepsEdges

(* SetTreeEdge pays one edge of the debt, or removes one. *)
LEMMA WriteKeepsEdges ==
  ASSUME TableInv, EdgesAndDebt, NEW h \in Handler, WriteFlag(h)
  PROVE  EdgesAndDebt'
<1>1. TableInv'
  BY ContextKeeps
<1>2. /\ pc[h] = "writing" /\ pc'[h] = (IF todo[h] = {} THEN "idle" ELSE "each")
      /\ edit'[h] = edit[h] /\ todo'[h] = todo[h]
      /\ \A g \in Handler \ {h} :
           pc'[g] = pc[g] /\ todo'[g] = todo[g] /\ edit'[g] = edit[g] /\ need'[g] = need[g]
  BY DEF WriteFlag, TableInv, TypeOK
<1>3. /\ Cardinality(todo[h]) \in Nat /\ Cardinality({}) = 0 /\ TreeDegree \in Nat
      /\ Owed[h] \in 0 .. TreeDegree
      /\ IsFiniteSet(isTreeEdge) /\ Cardinality(isTreeEdge) \in Nat /\ Cardinality(isTreeEdge') \in Nat
  BY <1>1, PeerSets, FS_EmptySet, PeerTableAssumption DEF TableInv, TypeOK, EdgesAndDebt
<1>6. pc'[h] \notin {"counting", "choosing"}
  BY <1>2
<1>4. CASE edit[h] = "promote"
  <2>1. Owed[h] = Cardinality(todo[h]) + 1 /\ Owed'[h] = Cardinality(todo[h])
    BY <1>2, <1>3, <1>4 DEF Owed
  <2>2. isTreeEdge' = isTreeEdge \/ isTreeEdge' = isTreeEdge \cup {held[h]}
    BY <1>4 DEF WriteFlag
  <2>3. Cardinality(isTreeEdge') <= Cardinality(isTreeEdge) + 1
    <3>1. CASE isTreeEdge' = isTreeEdge
      BY <1>3, <3>1
    <3>2. CASE isTreeEdge' = isTreeEdge \cup {held[h]}
      <4>1. \/ Cardinality(isTreeEdge') = Cardinality(isTreeEdge)
            \/ Cardinality(isTreeEdge') = Cardinality(isTreeEdge) + 1
        BY <1>3, <3>2, FS_AddElement
      <4> QED
        BY <1>3, <4>1
    <3> QED
      BY <2>2, <3>1, <3>2
  <2>4. /\ Owed'[h] \in 0 .. TreeDegree
        /\ Cardinality(isTreeEdge') + Owed'[h] <= Cardinality(isTreeEdge) + Owed[h]
    <3>1. /\ TreeDegree \in Nat /\ Owed[h] \in 0 .. TreeDegree /\ Cardinality(todo[h]) \in Nat
          /\ Cardinality(isTreeEdge) \in Nat /\ Cardinality(isTreeEdge') \in Nat
      BY <1>3
    <3> QED
      BY <2>1, <2>3, <3>1
  <2> QED
    BY <1>1, <1>2, <1>6, <2>4, ActKeepsEdges
<1>5. CASE edit[h] # "promote"
  <2>1. Owed[h] = 0 /\ Owed'[h] = 0
    BY <1>2, <1>5 DEF Owed
  <2>2. isTreeEdge' \in SUBSET isTreeEdge
    BY <1>5 DEF WriteFlag
  <2>3. Cardinality(isTreeEdge') <= Cardinality(isTreeEdge)
    BY <1>3, <2>2, FS_Subset
  <2>4. /\ Owed'[h] \in 0 .. TreeDegree
        /\ Cardinality(isTreeEdge') + Owed'[h] <= Cardinality(isTreeEdge) + Owed[h]
    <3>1. /\ TreeDegree \in Nat /\ Owed[h] \in 0 .. TreeDegree /\ Cardinality(todo[h]) \in Nat
          /\ Cardinality(isTreeEdge) \in Nat /\ Cardinality(isTreeEdge') \in Nat
      BY <1>3
    <3> QED
      BY <2>1, <2>3, <3>1
  <2> QED
    BY <1>1, <1>2, <1>6, <2>4, ActKeepsEdges
<1> QED
  BY <1>4, <1>5

(* maxTreeEdges holds up to what the other goroutines have in hand: for    *)
(* any number of goroutines and peers, the tree edges exceed it by at most *)
(* TreeDegree for each goroutine but one.                                  *)
THEOREM EdgesStayBounded == Spec => []EdgesBounded
<1>1. TableInv /\ EdgesAndDebt /\ [Next]_vars => TableInv' /\ EdgesAndDebt'
  <2> SUFFICES ASSUME TableInv, EdgesAndDebt, [Next]_vars PROVE TableInv' /\ EdgesAndDebt'
    OBVIOUS
  <2>1. TableInv'
    BY TableStep
  <2>2. CASE UNCHANGED vars
    BY <2>1, <2>2 DEF vars, EdgesAndDebt, Owed, Debt
  <2>3. ASSUME NEW h \in Handler,
               \/ WirePeers(h) \/ lazyPushToNonTreeEdges(h) \/ Finish(h)
               \/ \E p \in Peer : CheckEdge(h, p) \/ handlePrune(h, p)
        PROVE  EdgesAndDebt'
    BY <2>1, <2>3, FreeKeepsEdges DEF WirePeers, lazyPushToNonTreeEdges, Finish, CheckEdge, handlePrune
  <2> QED
    BY <2>1, <2>2, <2>3, TransportKeepsEdges, CountKeepsEdges, BestKeepsEdges, ChooseKeepsEdges,
       FetchKeepsEdges, WriteKeepsEdges DEF Next
<1>2. TableInv /\ EdgesAndDebt => EdgesBounded
  <2> SUFFICES ASSUME TableInv, EdgesAndDebt PROVE EdgesBounded
    OBVIOUS
  <2>1. PICK h : h \in Handler
    BY PeerTableAssumption
  <2>2. Cardinality(Debt(Owed)) \in Nat
    BY <2>1, DebtParts DEF EdgesAndDebt
  <2>3. Cardinality(isTreeEdge) \in Nat /\ EdgeBound \in Int
    <3>1. Cardinality(isTreeEdge) \in Nat
      BY PeerSets DEF TableInv, TypeOK
    <3> QED
      BY <3>1, <2>1, PeerTableAssumption, DebtParts DEF EdgeBound, maxTreeEdges, EdgesAndDebt
  <2>4. Cardinality(isTreeEdge) <= EdgeBound
    BY <2>2, <2>3 DEF EdgesAndDebt
  <2> QED
    BY <2>4 DEF EdgesBounded, EdgeBound, TreeEdges
<1> QED
  BY <1>1, <1>2, InitTableInv, InitEdges, PTL DEF Spec

===============================================================================
