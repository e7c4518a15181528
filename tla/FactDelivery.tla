----------------------------- MODULE FactDelivery -----------------------------
(* What the event pipeline promises: a fact committed with a domain change   *)
(* takes effect at the consumer at most once, and only after its commit.     *)
EXTENDS Naturals

CONSTANT Fact

VARIABLES committed,   \* facts in the outbox
          effects      \* per fact: how often it took effect

vars == <<committed, effects>>

Init == committed = {} /\ effects = [f \in Fact |-> 0]

Commit(f) == /\ f \notin committed
             /\ committed' = committed \cup {f}
             /\ UNCHANGED effects

Apply(f) == /\ f \in committed
            /\ effects[f] = 0
            /\ effects' = [effects EXCEPT ![f] = 1]
            /\ UNCHANGED committed

Next == \E f \in Fact : Commit(f) \/ Apply(f)

Spec == Init /\ [][Next]_vars
===============================================================================
