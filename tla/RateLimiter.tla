----------------------------- MODULE RateLimiter -----------------------------
(***************************************************************************)
(* The token bucket of app/core/rate_limiter.py: one key of Redis that     *)
(* several server instances update with a Lua script.  A request reads its *)
(* own instance's clock, then sends the script; scripts run one at a time, *)
(* in the order in which they reach Redis.                                 *)
(*                                                                         *)
(* Time is counted in milliseconds and tokens in grains, so small that     *)
(* Rate grains per millisecond is refill_per_sec; the script computes with *)
(* floating-point numbers, whose rounding is not modelled.                 *)
(***************************************************************************)
EXTENDS Integers

CONSTANTS
    Client,      \* the requests that may be under way at a time, on any instance
    Skew,        \* Skew[c]: how far the clock of c's instance is ahead, in ms
    Capacity,    \* capacity, in grains
    Rate,        \* refill_per_sec, in grains per ms
    Cost,        \* cost, in grains
    Margin,      \* the spare time of the key's TTL, in ms (60000)
    Second,      \* ms per second (1000; small for TLC)
    MaxSkew,     \* bound: clocks are this close to each other
    MaxLag,      \* bound: ms between reading the clock and running the script
    MaxClock,    \* bound: how far the clock runs
    MaxRequests  \* bound: how many requests are made

ASSUME ConstantsAssumption ==
    /\ Capacity \in Nat \ {0} /\ Rate \in Nat \ {0} /\ Cost \in Nat \ {0} /\ Second \in Nat \ {0}
    /\ Margin \in Nat /\ MaxSkew \in Nat /\ MaxLag \in Nat
    /\ MaxClock \in Nat /\ MaxRequests \in Nat
    /\ Skew \in [Client -> 0 .. MaxSkew]

(* What the spare minute of the TTL is for. *)
ASSUME MarginAssumption == MaxSkew + MaxLag <= Margin

Ceil(a, b) == (a + b - 1) \div b

VARIABLES
    clock,       \* the time, as Redis has it
    pending,     \* clients that have read their clock and not yet run the script
    now,         \* now[c]: the timestamp c sends (ARGV[3])
    requests,    \* requests made
    readAt,      \* readAt[c]: the time at which c read its clock
    tokens,      \* the bucket: field tokens
    updatedAt,   \* the bucket: field updated_at
    expiresAt,   \* the time at which the key expires
    retryAfter,  \* the last answer: 0 allowed, otherwise retry_after_ms
    admitted,    \* requests allowed since the observer started counting
    since,       \* updated_at when it started
    sinceClock,  \* the time when it started
    rewound      \* ms that updated_at has been set back since then

bucket == <<tokens, updatedAt, expiresAt>>
observer == <<admitted, since, sinceClock, rewound>>
vars == <<clock, pending, now, readAt, requests, bucket, retryAfter, observer>>

TypeOK ==
    /\ clock \in Nat
    /\ pending \subseteq Client
    /\ now \in [Client -> Nat] /\ readAt \in [Client -> Nat]
    /\ requests \in Nat
    /\ tokens \in 0 .. Capacity
    /\ updatedAt \in Nat /\ expiresAt \in Nat
    /\ retryAfter \in Nat
    /\ admitted \in Nat /\ since \in Nat /\ sinceClock \in Nat /\ rewound \in Nat

(* There is no key: it counts as one that has expired. *)
Init ==
    /\ clock = 0
    /\ pending = {}
    /\ now = [c \in Client |-> 0] /\ readAt = [c \in Client |-> 0]
    /\ requests = 0
    /\ tokens = Capacity /\ updatedAt = 0 /\ expiresAt = 0
    /\ retryAfter = 0
    /\ admitted = 0 /\ since = 0 /\ sinceClock = 0 /\ rewound = 0

-----------------------------------------------------------------------------
(* Time passes; a request does not stay under way for longer than MaxLag. *)
Tick ==
    /\ clock < MaxClock
    /\ \A c \in pending : clock < readAt[c] + MaxLag
    /\ clock' = clock + 1
    /\ UNCHANGED <<pending, now, readAt, requests, bucket, retryAfter, observer>>

(* An observer starts counting, at any time. *)
StartCounting ==
    /\ admitted' = 0
    /\ since' = updatedAt
    /\ sinceClock' = clock
    /\ rewound' = 0
    /\ UNCHANGED <<clock, pending, now, readAt, requests, bucket, retryAfter>>

(* consume: int(time.time() * 1000), before the script is sent. *)
ReadClock(c) ==
    /\ c \notin pending
    /\ requests < MaxRequests
    /\ requests' = requests + 1
    /\ pending' = pending \cup {c}
    /\ now' = [now EXCEPT ![c] = clock + Skew[c]]
    /\ readAt' = [readAt EXCEPT ![c] = clock]
    /\ UNCHANGED <<clock, bucket, retryAfter, observer>>

-----------------------------------------------------------------------------
(* The script *)

Expired == expiresAt <= clock

(* Mutant: what is refilled is not cut off at the capacity. *)
FilledNoCap(t) == IF Expired THEN Capacity ELSE tokens + (IF t > updatedAt THEN t - updatedAt ELSE 0) * Rate

(* The tokens in the bucket at timestamp t, before the request takes its own. *)
Filled(t) ==
    LET elapsed  == IF t > updatedAt THEN t - updatedAt ELSE 0
        refilled == tokens + elapsed * Rate
    IN IF Expired \/ refilled > Capacity THEN Capacity ELSE refilled

(* Mutant: the key lives as long as a bucket needs to fill up, with nothing to spare. *)
TtlNoMargin == Ceil(Capacity, Rate)

Ttl == Ceil(Capacity, Rate) + Margin

(* Mutant: retry_after_ms is rounded down. *)
RetryAfterFloor(deficit) == deficit \div Rate

RetryAfter(deficit) == Ceil(deficit, Rate)

(* The header Retry-After that error_handlers.py makes of retry_after_ms, in seconds. *)
RetryAfterSec(ms) ==
    LET sec == (ms + Second - 1) \div Second IN IF sec > 1 THEN sec ELSE 1

Consume(c) ==
    LET t == now[c] IN
    /\ c \in pending
    /\ pending' = pending \ {c}
    /\ \/ /\ Filled(t) >= Cost
          /\ tokens' = Filled(t) - Cost
          /\ retryAfter' = 0
          /\ admitted' = admitted + 1
       \/ /\ Filled(t) < Cost
          /\ tokens' = Filled(t)
          /\ retryAfter' = RetryAfter(Cost - Filled(t))
          /\ UNCHANGED admitted
    /\ updatedAt' = t
    /\ expiresAt' = clock + Ttl
    /\ rewound' = rewound + (IF t < updatedAt THEN updatedAt - t ELSE 0)
    /\ UNCHANGED <<clock, now, readAt, requests, since, sinceClock>>

Next ==
    \/ Tick
    \/ StartCounting
    \/ \E c \in Client : ReadClock(c) \/ Consume(c)

Spec == Init /\ [][Next]_vars

-----------------------------------------------------------------------------
(* Properties *)

(* Over any stretch of time no more is taken out of a bucket than it can hold plus what the          *)
(* timestamps of the scripts refill; a timestamp older than the one before it counts twice, and a    *)
(* key that expires gives nothing away.                                                              *)
AdmissionBound ==
    admitted * Cost + tokens <= Capacity + Rate * (updatedAt - since + rewound)

(* A refused client that waits as long as it was told finds enough tokens, unless another took them; *)
(* it is not told to wait a millisecond (in the header: a second) too long.                          *)
RetryAfterExact ==
    retryAfter > 0 =>
        /\ tokens + Rate * retryAfter >= Cost
        /\ tokens + Rate * (retryAfter - 1) < Cost
        /\ Second * RetryAfterSec(retryAfter) >= retryAfter
        /\ RetryAfterSec(retryAfter) > 1 => Second * (RetryAfterSec(retryAfter) - 1) < retryAfter

(* The limit as rate_limiter.py:5 claims it for several instances: what is admitted over a stretch   *)
(* of time exceeds the capacity by what that time refills, give or take the difference of the clocks *)
(* and the delay of a request.  Timestamps that overtake each other count twice: without the term    *)
(* rewound it does not hold.                                                                         *)
AdmittedOverTime ==
    admitted * Cost <= Capacity + Rate * (clock - sinceClock + MaxSkew + MaxLag + rewound)
=============================================================================
