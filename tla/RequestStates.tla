---------------------------- MODULE RequestStates ----------------------------
(* The durable states of one logical request and the state machine over     *)
(* them, from internal/request/request.go.                                  *)

Received == "RECEIVED"
Validated == "VALIDATED"
Routing == "ROUTING"
InProgress == "IN_PROGRESS"
Completed == "COMPLETED"
Failed == "FAILED"
Cancelled == "CANCELLED"
BudgetRejected == "BUDGET_REJECTED"

State == {Received, Validated, Routing, InProgress,
          Completed, Failed, Cancelled, BudgetRejected}

\* Keys of the map that have successors; a final state has none.
allowedTransitions(current) ==
    CASE current = Received   -> {Validated, Failed, Cancelled}
      [] current = Validated  -> {Routing, BudgetRejected, Failed, Cancelled}
      [] current = Routing    -> {InProgress, Failed, Cancelled}
      [] current = InProgress -> {Completed, Failed, Cancelled}
      [] OTHER                -> {}

CanTransition(current, next) == next \in allowedTransitions(current)

Final == {s \in State : allowedTransitions(s) = {}}

\* No row with this tenant and idempotency key exists.
Absent == "ABSENT"
==============================================================================
