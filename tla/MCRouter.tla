------------------------------- MODULE MCRouter -------------------------------
EXTENDS Router, TLC

CONSTANTS c1, p1, p2

TwoProviders == <<p1, p2>>

\* The policy of the first call allows one provider only.
Restricted == [c \in Call |-> IF c = c1 THEN {p1} ELSE Provider]
NoProvider == [c \in Call |-> {}]
Ones == [p \in Provider |-> 1]
Rising == [p \in Provider |-> IF p = p1 THEN 1 ELSE 2]
===============================================================================
