--------------------------- MODULE RequestLifecycle ---------------------------
(* What the gateway's store promises about logical requests, whoever runs   *)
(* them: a request is accepted once, moves only along the state machine of  *)
(* request.go, and commits the facts of its final state in the step that    *)
(* makes it final.                                                          *)
EXTENDS RequestStates

CONSTANT Key                \* tenant and idempotency key of a logical request

VARIABLES status,           \* the request's durable state, or Absent
          facts             \* the final facts committed to its outbox

vars == <<status, facts>>

\* The facts a transition commits: a request that fails before it is in
\* progress (policy, admission or pricing) and a cancelled one leave none.
FactsOf(current, next) ==
    CASE next = Completed                          -> {"completed", "usage"}
      [] current = InProgress /\ next = Failed     -> {"failed"}
      [] next = BudgetRejected                     -> {"exceeded"}
      [] OTHER                                     -> {}

Init == /\ status = [k \in Key |-> Absent]
        /\ facts = [k \in Key |-> {}]

Accept(k) == /\ status[k] = Absent
             /\ status' = [status EXCEPT ![k] = Received]
             /\ UNCHANGED facts

Move(k, next) ==
    /\ CanTransition(status[k], next)
    /\ status' = [status EXCEPT ![k] = next]
    /\ facts' = [facts EXCEPT ![k] = @ \cup FactsOf(status[k], next)]

Next == \E k \in Key : Accept(k) \/ (\E s \in State : Move(k, s))

Spec == Init /\ [][Next]_vars
===============================================================================
