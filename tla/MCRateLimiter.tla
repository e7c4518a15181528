---------------------------- MODULE MCRateLimiter ----------------------------
EXTENDS RateLimiter, TLC

CONSTANTS c1, tenant, k1, k2

\* The first call uses an API key of its own.
TwoKeys == [c \in Call |-> IF c = c1 THEN <<tenant, k1>> ELSE <<tenant, k2>>]
Uneven == [c \in Call |-> IF c = c1 THEN 2 ELSE 1]
===============================================================================
