----------------------------- MODULE MemoryStore -----------------------------
(* internal/persistence/memory.go: the store of the gateway's development    *)
(* mode and of its tests. One mutex makes every method one step, and the      *)
(* methods ignore their context. The rows of one tenant are modelled; a       *)
(* request is known by its idempotency key, which the store maps to an ID.    *)
(* A method is an action fragment over storeVars whose guard is the condition *)
(* under which it returns no error.                                           *)
EXTENDS RequestStates, Budget

CONSTANTS Key,            \* idempotency keys of the tenant
          MaxAttempts,    \* Config.MaxAttempts
          MonthlyBudget,  \* TenantPolicy.MonthlyBudget, 0 for no limit
          None            \* the absent value

AttemptNumber == 1..MaxAttempts

VARIABLES requests,       \* the records
          attempts,       \* "none", "started" or "final", by attempt number
          reservations,   \* amounts, 0 where there is none
          used            \* the sum of the reconciled costs

storeVars == <<requests, attempts, reservations, used>>

Record(state, h) == [state |-> state, hash |-> h, response |-> None, category |-> "",
                     partial |-> FALSE, cost |-> 0]

NewMemory ==
    /\ requests = [k \in Key |-> Record(Absent, None)]
    /\ attempts = [k \in Key |-> [n \in AttemptNumber |-> "none"]]
    /\ reservations = [k \in Key |-> 0]
    /\ used = 0

state(k) == requests[k].state

Conflicts(k, h) == state(k) # Absent /\ requests[k].hash # h

CreateRequest(k, h) ==
    /\ state(k) = Absent
    /\ requests' = [requests EXCEPT ![k] = Record(Received, h)]
    /\ UNCHANGED <<attempts, reservations, used>>

TransitionRequest(k, from, to) ==
    /\ state(k) = from
    /\ CanTransition(from, to)
    /\ requests' = [requests EXCEPT ![k].state = to]
    /\ UNCHANGED <<attempts, reservations, used>>

\* The state of the request is not looked at.
StartAttempt(k, n) ==
    /\ attempts[k][n] = "none"
    /\ attempts' = [attempts EXCEPT ![k][n] = "started"]
    /\ UNCHANGED <<requests, reservations, used>>

CompleteRequest(k, n, content, c) ==
    /\ state(k) = InProgress
    /\ requests' = [requests EXCEPT ![k].state = Completed, ![k].response = content, ![k].cost = c]
    /\ attempts' = [attempts EXCEPT ![k][n] = "final"]
    /\ UNCHANGED <<reservations, used>>

\* Only a final failure changes the store.
FailAttempt(k, category, partial, final) ==
    /\ final => state(k) = InProgress
    /\ requests' = IF final THEN [requests EXCEPT ![k].state = Failed, ![k].category = category,
                                                  ![k].partial = partial]
                   ELSE requests
    /\ UNCHANGED <<attempts, reservations, used>>

CancelAnyRequest(k) ==
    /\ state(k) # Absent
    /\ requests' = [requests EXCEPT ![k].state = Cancelled]
    /\ UNCHANGED <<attempts, reservations, used>>

CancelRequest(k) ==
    /\ state(k) \notin {Absent, Completed, Failed, Cancelled, BudgetRejected}
    /\ requests' = [requests EXCEPT ![k].state = Cancelled]
    /\ UNCHANGED <<attempts, reservations, used>>

sumMap == Sum(reservations, Key)

ReserveBudget(k, amount) ==
    /\ CanReserve(MonthlyBudget, used, sumMap, amount) = "ok"
    /\ reservations' = [reservations EXCEPT ![k] = amount]
    /\ UNCHANGED <<requests, attempts, used>>

ReconcileBudget(k, actual) ==
    /\ reservations' = [reservations EXCEPT ![k] = 0]
    /\ used' = used + actual
    /\ UNCHANGED <<requests, attempts>>
===============================================================================
