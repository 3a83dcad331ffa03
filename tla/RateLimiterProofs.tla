------------------------- MODULE RateLimiterProofs -------------------------
(***************************************************************************)
(* Proofs about RateLimiter, for every capacity, rate, cost, skew and lag  *)
(* that the spare time of the TTL covers.                                  *)
(***************************************************************************)
EXTENDS RateLimiter, TLAPS

LEMMA Monotone == ASSUME NEW r \in Nat, NEW a \in Int, NEW b \in Int, a <= b
                  PROVE  r * a <= r * b
<1>1. r * (b - a) >= 0
  OBVIOUS
<1>2. QED
  BY <1>1

(* Ceil(a, b) rounds a / b up. *)
LEMMA CeilRounds == ASSUME NEW a \in Nat, NEW b \in Nat \ {0}
                    PROVE  /\ Ceil(a, b) \in Nat
                           /\ b * Ceil(a, b) >= a
                           /\ b * (Ceil(a, b) - 1) < a
                           /\ a > 0 => Ceil(a, b) > 0
  BY DEF Ceil

-----------------------------------------------------------------------------
(* The inductive invariant *)

(* A request under way carries its instance's time of at most MaxLag ago. *)
PendingInv ==
    \A c \in pending :
        readAt[c] <= clock /\ clock <= readAt[c] + MaxLag /\ now[c] = readAt[c] + Skew[c]

(* A key whose bucket is not full expires no earlier than its TTL after the stored time, skew aside. *)
ExpiryInv == tokens = Capacity \/ updatedAt + Ttl <= expiresAt + MaxSkew

IInv == TypeOK /\ PendingInv /\ ExpiryInv /\ AdmissionBound /\ RetryAfterExact

USE ConstantsAssumption, MarginAssumption

LEMMA TtlType == Ttl \in Nat /\ Rate * (Ttl - Margin) >= Capacity
<1>1. Ceil(Capacity, Rate) \in Nat /\ Rate * Ceil(Capacity, Rate) >= Capacity
  BY CeilRounds
<1>2. Ttl \in Nat /\ Ttl - Margin = Ceil(Capacity, Rate)
  BY <1>1 DEF Ttl
<1>3. QED
  BY <1>1, <1>2

(* How far timestamp t is ahead of the stored one, and behind. *)
Ahead(t) == IF t > updatedAt THEN t - updatedAt ELSE 0
Behind(t) == IF t < updatedAt THEN updatedAt - t ELSE 0

(* What the script finds in the bucket: at most the old tokens and the refill since. *)
LEMMA FilledBound ==
    ASSUME TypeOK, NEW t \in Nat
    PROVE  /\ Filled(t) \in 0 .. Capacity
           /\ Filled(t) <= tokens + Rate * Ahead(t) \/ (Expired /\ Filled(t) = Capacity)
<1>1. Ahead(t) \in Nat /\ Rate * Ahead(t) \in Nat
  BY DEF Ahead, TypeOK
<1>2. QED
  BY <1>1 DEF Filled, Ahead, TypeOK

(* An expired bucket would have been full: at least Capacity was refilled since. *)
LEMMA ExpiredIsFull ==
    ASSUME TypeOK, PendingInv, ExpiryInv, NEW c \in pending, Expired
    PROVE  tokens + Rate * Ahead(now[c]) >= Capacity
<1>1. c \in Client /\ now[c] \in Nat /\ Skew[c] \in 0 .. MaxSkew /\ readAt[c] \in Nat
  BY DEF TypeOK
<1>2. CASE tokens = Capacity
  <2>1. Rate * Ahead(now[c]) \in Nat
    BY <1>1 DEF Ahead, TypeOK
  <2>2. QED
    BY <1>2, <2>1
<1>3. CASE updatedAt + Ttl <= expiresAt + MaxSkew
  <2>1. now[c] >= clock - MaxLag
    BY <1>1 DEF PendingInv, TypeOK
  <2>2. Ahead(now[c]) >= Ttl - Margin /\ Ahead(now[c]) \in Nat
    BY <1>1, <1>3, <2>1, TtlType DEF Ahead, Expired, TypeOK
  <2>3. Rate * Ahead(now[c]) >= Rate * (Ttl - Margin)
    BY <2>2, TtlType, Monotone
  <2>4. QED
    BY <2>2, <2>3, TtlType DEF TypeOK
<1>4. QED
  BY <1>2, <1>3 DEF ExpiryInv

LEMMA FilledPaid ==
    ASSUME TypeOK, PendingInv, ExpiryInv, NEW c \in pending
    PROVE  Filled(now[c]) <= tokens + Rate * Ahead(now[c])
<1>1. now[c] \in Nat
  BY DEF TypeOK
<1>2. Ahead(now[c]) \in Nat /\ Rate * Ahead(now[c]) \in Nat
  BY <1>1 DEF Ahead, TypeOK
<1>3. QED
  BY <1>1, <1>2, FilledBound, ExpiredIsFull DEF TypeOK

LEMMA RetryAnswer ==
    ASSUME NEW filled \in 0 .. Capacity, filled < Cost,
           NEW r, r = RetryAfter(Cost - filled)
    PROVE  /\ r \in Nat \ {0}
           /\ filled + Rate * r >= Cost
           /\ filled + Rate * (r - 1) < Cost
<1>1. Cost - filled \in Nat \ {0}
  OBVIOUS
<1>2. /\ r \in Nat \ {0}
      /\ Rate * r >= Cost - filled
      /\ Rate * (r - 1) < Cost - filled
  BY <1>1, CeilRounds DEF RetryAfter
<1>3. Rate * r \in Int /\ Rate * (r - 1) \in Int
  BY <1>2
<1>4. QED
  BY <1>2, <1>3

(* Retry-After in seconds covers retry_after_ms, and is at most a second too long. *)
LEMMA SecondsRound ==
    ASSUME NEW ms \in Nat \ {0}
    PROVE  /\ Second * RetryAfterSec(ms) >= ms
           /\ RetryAfterSec(ms) > 1 => Second * (RetryAfterSec(ms) - 1) < ms
<1>1. Ceil(ms, Second) \in Nat \ {0} /\ Second * Ceil(ms, Second) >= ms /\ Second * (Ceil(ms, Second) - 1) < ms
  BY CeilRounds
<1>2. RetryAfterSec(ms) = Ceil(ms, Second)
  BY <1>1 DEF RetryAfterSec, Ceil
<1>3. QED
  BY <1>1, <1>2

-----------------------------------------------------------------------------
LEMMA InitInv == Init => IInv
<1> SUFFICES ASSUME Init PROVE IInv
  OBVIOUS
<1>1. TypeOK
  BY DEF Init, TypeOK
<1>2. PendingInv /\ ExpiryInv /\ RetryAfterExact
  BY DEF Init, PendingInv, ExpiryInv, RetryAfterExact
<1>3. AdmissionBound
  BY DEF Init, AdmissionBound
<1>4. QED
  BY <1>1, <1>2, <1>3 DEF IInv

LEMMA TickInv == IInv /\ Tick => IInv'
<1> SUFFICES ASSUME IInv, Tick PROVE IInv'
  OBVIOUS
<1> USE DEF IInv, Tick, bucket, observer
<1>1. TypeOK'
  BY DEF TypeOK
<1>2. PendingInv'
  BY DEF TypeOK, PendingInv
<1>3. ExpiryInv'
  BY DEF ExpiryInv, Ttl, Ceil
<1>4. AdmissionBound' /\ RetryAfterExact'
  BY DEF AdmissionBound, RetryAfterExact, RetryAfterSec
<1>5. QED
  BY <1>1, <1>2, <1>3, <1>4

LEMMA StartCountingInv == IInv /\ StartCounting => IInv'
<1> SUFFICES ASSUME IInv, StartCounting PROVE IInv'
  OBVIOUS
<1> USE DEF IInv, StartCounting, bucket
<1>1. TypeOK'
  BY DEF TypeOK
<1>2. PendingInv' /\ ExpiryInv'
  BY DEF PendingInv, ExpiryInv, Ttl, Ceil
<1>3. AdmissionBound'
  BY DEF TypeOK, AdmissionBound
<1>4. RetryAfterExact'
  BY DEF RetryAfterExact, RetryAfterSec
<1>5. QED
  BY <1>1, <1>2, <1>3, <1>4

LEMMA ReadClockInv == ASSUME NEW c \in Client PROVE IInv /\ ReadClock(c) => IInv'
<1> SUFFICES ASSUME IInv, ReadClock(c) PROVE IInv'
  OBVIOUS
<1> USE DEF IInv, ReadClock, bucket, observer
<1>0. Skew[c] \in Nat
  OBVIOUS
<1>1. TypeOK'
  BY <1>0 DEF TypeOK
<1>2. PendingInv'
  BY <1>0 DEF TypeOK, PendingInv
<1>3. ExpiryInv'
  BY DEF ExpiryInv, Ttl, Ceil
<1>4. AdmissionBound' /\ RetryAfterExact'
  BY DEF AdmissionBound, RetryAfterExact, RetryAfterSec
<1>5. QED
  BY <1>1, <1>2, <1>3, <1>4

LEMMA ConsumeInv == ASSUME NEW c \in Client PROVE IInv /\ Consume(c) => IInv'
<1> SUFFICES ASSUME IInv, Consume(c) PROVE IInv'
  OBVIOUS
<1> DEFINE t == now[c]
<1> DEFINE f == Filled(now[c])
<1>0. c \in pending /\ t \in Nat /\ Skew[c] \in 0 .. MaxSkew /\ readAt[c] \in Nat
  BY DEF IInv, TypeOK, Consume
<1>1. f \in 0 .. Capacity /\ f <= tokens + Rate * Ahead(t)
  BY <1>0, FilledBound, FilledPaid DEF IInv
<1>2. /\ Ahead(t) \in Nat /\ Behind(t) \in Nat
      /\ t - updatedAt = Ahead(t) - Behind(t)
      /\ Rate * Ahead(t) \in Nat
  BY <1>0 DEF Ahead, Behind, IInv, TypeOK
<1>3. /\ \/ f >= Cost /\ tokens' = f - Cost /\ retryAfter' = 0 /\ admitted' = admitted + 1
         \/ f < Cost /\ tokens' = f /\ retryAfter' = RetryAfter(Cost - f) /\ admitted' = admitted
      /\ updatedAt' = t /\ expiresAt' = clock + Ttl /\ rewound' = rewound + Behind(t)
      /\ pending' = pending \ {c}
      /\ clock' = clock /\ now' = now /\ readAt' = readAt /\ requests' = requests
      /\ since' = since /\ sinceClock' = sinceClock
  BY DEF Consume, Behind
<1> HIDE DEF t, f
<1>4. f < Cost => /\ RetryAfter(Cost - f) \in Nat \ {0}
                  /\ f + Rate * RetryAfter(Cost - f) >= Cost
                  /\ f + Rate * (RetryAfter(Cost - f) - 1) < Cost
  BY <1>1, RetryAnswer
<1>5. TypeOK'
  BY <1>0, <1>1, <1>2, <1>3, <1>4, TtlType DEF IInv, TypeOK
<1>6. PendingInv'
  BY <1>3 DEF IInv, PendingInv
<1>7. ExpiryInv'
  <2>1. t <= clock + MaxSkew
    BY <1>0 DEF IInv, PendingInv, TypeOK, t
  <2>2. Ttl' = Ttl
    BY DEF Ttl, Ceil
  <2>3. QED
    BY <1>0, <1>3, <2>1, <2>2, TtlType DEF ExpiryInv, IInv, TypeOK
<1>8. AdmissionBound'
  <2> DEFINE x == updatedAt - since + rewound
  <2>1. x \in Int /\ updatedAt' - since' + rewound' = x + Ahead(t)
    <3>1. updatedAt \in Nat /\ since \in Nat /\ rewound \in Nat
      BY DEF IInv, TypeOK
    <3>2. QED
      BY <1>0, <1>2, <1>3, <3>1
  <2>2. admitted * Cost + tokens <= Capacity + Rate * x
    BY DEF IInv, AdmissionBound
  <2>3. Rate * (x + Ahead(t)) = Rate * x + Rate * Ahead(t)
    BY <1>2, <2>1
  <2>4. admitted' * Cost + tokens' = admitted * Cost + f
    <3>1. admitted \in Nat /\ (admitted + 1) * Cost = admitted * Cost + Cost
      BY DEF IInv, TypeOK
    <3>2. QED
      BY <1>1, <1>3, <3>1
  <2>5. admitted * Cost \in Nat /\ Rate * x \in Int /\ tokens \in Nat
    BY <2>1 DEF IInv, TypeOK
  <2> HIDE DEF x
  <2>6. QED
    BY <1>1, <1>2, <2>1, <2>2, <2>3, <2>4, <2>5 DEF AdmissionBound
<1>9. RetryAfterExact'
  BY <1>1, <1>3, <1>4, SecondsRound DEF RetryAfterExact, RetryAfterSec
<1>10. QED
  BY <1>5, <1>6, <1>7, <1>8, <1>9 DEF IInv

LEMMA StutterInv == IInv /\ UNCHANGED vars => IInv'
  BY DEF IInv, vars, bucket, observer, TypeOK, PendingInv, ExpiryInv, Ttl, Ceil, AdmissionBound,
         RetryAfterExact, RetryAfterSec

THEOREM Inductive == Spec => []IInv
<1>1. IInv /\ [Next]_vars => IInv'
  BY TickInv, StartCountingInv, ReadClockInv, ConsumeInv, StutterInv DEF Next
<1>2. QED
  BY InitInv, <1>1, PTL DEF Spec

(* Every variable keeps its type; in particular the bucket never holds more than the capacity of *)
(* RateLimiter(capacity=...).                                                                    *)
THEOREM TypeCorrect == Spec => []TypeOK
<1>1. IInv => TypeOK
  BY DEF IInv
<1>2. QED
  BY Inductive, <1>1, PTL

(* Over any stretch of time the script admits no more than the capacity and the refill, and a key *)
(* that expires gives nothing away as long as the spare minute of its TTL covers skew and delay.  *)
THEOREM AdmissionBounded == Spec => []AdmissionBound
<1>1. IInv => AdmissionBound
  BY DEF IInv
<1>2. QED
  BY Inductive, <1>1, PTL

(* retry_after_ms, and the header Retry-After made of it, are long enough and not too long. *)
THEOREM RetryAfterRight == Spec => []RetryAfterExact
<1>1. IInv => RetryAfterExact
  BY DEF IInv
<1>2. QED
  BY Inductive, <1>1, PTL

-----------------------------------------------------------------------------
(* What is admitted, against the time that passes.  Since a script that runs while an observer counts *)
(* carries a timestamp of at most MaxLag before the start, an idle bucket that was full long ago gives *)
(* its capacity once.                                                                                 *)

(* The refill that the timestamps can have paid for since the observer started. *)
Paid == updatedAt + MaxLag + rewound - sinceClock

OverTimeInv ==
    /\ sinceClock <= clock
    /\ updatedAt <= clock + MaxSkew
    /\ admitted = 0 \/ admitted * Cost + tokens <= Capacity + Rate * Paid

LEMMA OverTimeInit == Init => OverTimeInv
  BY DEF Init, OverTimeInv

LEMMA OverTimeConsume ==
    ASSUME NEW c \in Client, IInv, OverTimeInv, Consume(c)
    PROVE  OverTimeInv'
<1> DEFINE t == now[c]
<1> DEFINE f == Filled(now[c])
<1>0. c \in pending /\ t \in Nat /\ Skew[c] \in 0 .. MaxSkew /\ readAt[c] \in Nat
  BY DEF IInv, TypeOK, Consume
<1>1. f \in 0 .. Capacity /\ f <= tokens + Rate * Ahead(t)
  BY <1>0, FilledBound, FilledPaid DEF IInv
<1>2. /\ clock \in Nat /\ tokens \in Nat /\ updatedAt \in Nat /\ admitted \in Nat
      /\ sinceClock \in Nat /\ rewound \in Nat
  BY DEF IInv, TypeOK
<1>3. /\ Ahead(t) \in Nat /\ Behind(t) \in Nat
      /\ t - updatedAt = Ahead(t) - Behind(t)
  BY <1>0, <1>2 DEF Ahead, Behind
<1>4. /\ \/ tokens' = f - Cost /\ admitted' = admitted + 1
         \/ tokens' = f /\ admitted' = admitted
      /\ updatedAt' = t /\ rewound' = rewound + Behind(t)
      /\ clock' = clock /\ sinceClock' = sinceClock
  BY DEF Consume, Behind
<1>5. t <= clock + MaxSkew /\ clock <= t + MaxLag
  BY <1>0, <1>2 DEF IInv, PendingInv
<1> HIDE DEF t, f
<1>6. admitted' * Cost + tokens' = admitted * Cost + f
  <2>1. (admitted + 1) * Cost = admitted * Cost + Cost /\ admitted * Cost \in Nat
    BY <1>2
  <2>2. QED
    BY <1>1, <1>4, <2>1
<1>7. Paid \in Int /\ Paid' = Paid + Ahead(t)
  BY <1>0, <1>2, <1>3, <1>4 DEF Paid
<1>8. admitted' * Cost + tokens' <= Capacity + Rate * Paid'
  <2>1. CASE admitted = 0
    <3>1. Paid' \in Nat
      BY <1>0, <1>2, <1>3, <1>4, <1>5 DEF Paid, OverTimeInv
    <3>2. Rate * Paid' \in Nat
      <4>1. \A n \in Nat : Rate * n \in Nat
        OBVIOUS
      <4>2. QED
        BY <3>1, <4>1
    <3>3. admitted * Cost = 0
      BY <2>1
    <3>4. QED
      BY <1>1, <1>6, <3>2, <3>3
  <2>2. CASE admitted # 0
    <3>1. Rate * Paid' = Rate * Paid + Rate * Ahead(t)
      BY <1>3, <1>7
    <3>2. /\ Rate * Paid \in Int /\ Rate * Ahead(t) \in Int /\ admitted * Cost \in Nat
          /\ admitted * Cost + tokens <= Capacity + Rate * Paid
      BY <1>2, <1>3, <1>7, <2>2 DEF OverTimeInv
    <3>3. QED
      BY <1>1, <1>2, <1>6, <3>1, <3>2
  <2>3. QED
    BY <2>1, <2>2
<1>9. QED
  BY <1>2, <1>4, <1>5, <1>8 DEF OverTimeInv

LEMMA OverTimeNext == IInv /\ OverTimeInv /\ [Next]_vars => OverTimeInv'
<1> SUFFICES ASSUME IInv, OverTimeInv, [Next]_vars PROVE OverTimeInv'
  OBVIOUS
<1>0. TypeOK
  BY DEF IInv
<1>1. CASE Tick
  BY <1>0, <1>1 DEF OverTimeInv, Paid, Tick, bucket, observer, TypeOK
<1>2. CASE StartCounting
  BY <1>0, <1>2 DEF OverTimeInv, StartCounting, bucket, TypeOK
<1>3. ASSUME NEW c \in Client, ReadClock(c) PROVE OverTimeInv'
  BY <1>3 DEF OverTimeInv, Paid, ReadClock, bucket, observer
<1>4. ASSUME NEW c \in Client, Consume(c) PROVE OverTimeInv'
  BY <1>4, OverTimeConsume
<1>5. CASE UNCHANGED vars
  BY <1>5 DEF OverTimeInv, Paid, vars, bucket, observer
<1>6. QED
  BY <1>1, <1>2, <1>3, <1>4, <1>5 DEF Next

LEMMA OverTimeBound == IInv /\ OverTimeInv => AdmittedOverTime
<1> SUFFICES ASSUME IInv, OverTimeInv PROVE AdmittedOverTime
  OBVIOUS
<1> DEFINE y == clock - sinceClock + MaxSkew + MaxLag + rewound
<1>1. /\ clock \in Nat /\ tokens \in Nat /\ updatedAt \in Nat /\ admitted \in Nat
      /\ sinceClock \in Nat /\ rewound \in Nat
  BY DEF IInv, TypeOK
<1>2. y \in Nat /\ Paid \in Int /\ Paid <= y
  BY <1>1 DEF OverTimeInv, Paid
<1>3. Rate * Paid \in Int /\ Rate * y \in Nat /\ Rate * Paid <= Rate * y
  BY <1>2, Monotone
<1>4. admitted * Cost \in Nat /\ (admitted = 0 => admitted * Cost = 0)
  BY <1>1
<1>5. AdmittedOverTime <=> admitted * Cost <= Capacity + Rate * y
  BY DEF AdmittedOverTime
<1> HIDE DEF y
<1>6. QED
  BY <1>1, <1>3, <1>4, <1>5 DEF OverTimeInv

(* Over any stretch of time no more is admitted than the capacity and what that time refills, give or *)
(* take skew, delay and the time that timestamps out of order have counted twice.                     *)
THEOREM OverTimeBounded == Spec => []AdmittedOverTime
<1>1. Spec => []OverTimeInv
  <2>1. IInv /\ OverTimeInv /\ [Next]_vars => OverTimeInv'
    BY OverTimeNext
  <2>2. QED
    BY Inductive, OverTimeInit, <2>1, PTL DEF Spec
<1>2. QED
  BY Inductive, <1>1, OverTimeBound, PTL
=============================================================================
