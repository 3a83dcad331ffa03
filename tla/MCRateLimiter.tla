---------------------------- MODULE MCRateLimiter ----------------------------
(* Small instances of RateLimiter for TLC. *)
EXTENDS RateLimiter

CONSTANTS c1, c2

Skewed == [c \in Client |-> IF c = c1 THEN 1 ELSE 0]
=============================================================================
