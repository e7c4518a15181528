---------------------------- MODULE GatewayService ----------------------------
(* One logical chat request from submission to settlement: every call of    *)
(* Service.execute (internal/gateway/service.go) runs against the rows that *)
(* Postgres keeps for the request (internal/persistence/postgres.go).       *)
(* A step is one store, limiter, router or provider call with the local     *)
(* code up to the next one. Duplicate submissions, the cancel endpoint,     *)
(* clients that disconnect, failed or unanswered store calls and crashes    *)
(* interleave with it.                                                      *)
EXTENDS RequestStates, Naturals

CONSTANTS Handler,      \* invocations of execute, on any gateway replica
          Key,          \* (tenant, idempotency key) pairs
          Payload,      \* canonical hashes of request bodies
          Streamed,     \* the payloads that ask for a stream
          Provider,     \* configured providers
          MaxAttempts,  \* Config.MaxAttempts
          CallResults,  \* how a provider call may end in this instance
          Impatient,    \* handlers whose client may disconnect
          Cancellable,  \* requests whose owner may call the cancel endpoint
          MaxFaults,    \* bound on store faults and crashes
          None          \* the absent value

ASSUME GatewayAssumption ==
    /\ MaxAttempts \in Nat \ {0}
    /\ MaxFaults \in Nat
    /\ Streamed \subseteq Payload
    /\ None \notin Provider \cup Payload \cup Key \cup State
    /\ CallResults \subseteq {"answer", "badusage", "transient", "permanent", "timeout"}

VARIABLES
    \* rows of the store, by logical request
    status,       \* ai_requests.status
    hash,         \* ai_requests.canonical_request_hash
    attempts,     \* provider_attempts.status by attempt_number
    tried,        \* provider_attempts.provider_id by attempt_number
    reservation,  \* budget_reservations.state
    outbox,       \* number of outbox_events rows by event type
    \* locals of each handler
    pc, key, payload, attempt, excluded, lease, permits, failure, gone, outcome,
    \* history and bounds
    output,       \* attempts whose content reached the client
    blamed,       \* causes of the failures reported to circuit breakers
    faults        \* store faults and crashes so far

storeVars == <<status, hash, attempts, tried, reservation, outbox>>
handlerVars == <<pc, key, payload, attempt, excluded, lease, permits, failure, gone, outcome>>
vars == <<storeVars, handlerVars, output, blamed, faults>>

Event == {"accepted", "selected", "completed", "usage", "failed", "exceeded"}
AttemptNumber == 1..MaxAttempts
AttemptStatus == {"NONE", "STARTED", "SUCCEEDED", "FAILED"}
Cause == {"provider", "timeout", "client"}
NoFailure == [cause |-> "provider", retryable |-> FALSE]
Outcome == [kind : {"none", "error", "unpriced", "conflict", "pending", "replayed", "completed"},
            state : State \cup {None}]
Label == {"idle", "received", "policy", "admit", "price", "refuse", "reserve",
          "reject", "route", "progress", "select", "start", "call", "complete",
          "fail", "backoff", "finish", "reconcile", "done", "crashed"}
Ended == {"idle", "done", "crashed"}

Init ==
    /\ status = [k \in Key |-> Absent]
    /\ hash = [k \in Key |-> None]
    /\ attempts = [k \in Key |-> [n \in AttemptNumber |-> "NONE"]]
    /\ tried = [k \in Key |-> [n \in AttemptNumber |-> None]]
    /\ reservation = [k \in Key |-> "NONE"]
    /\ outbox = [k \in Key |-> [e \in Event |-> 0]]
    /\ pc = [h \in Handler |-> "idle"]
    /\ key = [h \in Handler |-> None]
    /\ payload = [h \in Handler |-> None]
    /\ attempt = [h \in Handler |-> 0]
    /\ excluded = [h \in Handler |-> {}]
    /\ lease = [h \in Handler |-> None]
    /\ permits = [h \in Handler |-> FALSE]
    /\ failure = [h \in Handler |-> NoFailure]
    /\ gone = [h \in Handler |-> FALSE]
    /\ outcome = [h \in Handler |-> [kind |-> "none", state |-> None]]
    /\ output = [k \in Key |-> {}]
    /\ blamed = {}
    /\ faults = 0

------------------------------------------------------------------------------
(* How a store call answers its handler. "ok": committed and answered (the   *)
(* call may still report that its conditional update matched no row).        *)
(* "error": nothing committed. "lost": committed, but the handler is told it *)
(* failed. A call that carries the request context never answers "ok" once   *)
(* the client is gone; one made with context.WithoutCancel does not care.    *)
Reply == {"ok", "error", "lost"}

Answers(h, withContext, r) ==
    LET cut == withContext /\ gone[h] IN
    IF r = "ok" THEN ~cut /\ UNCHANGED faults
                ELSE \/ cut /\ UNCHANGED faults
                     \/ faults < MaxFaults /\ faults' = faults + 1

Goto(h, label) == /\ pc' = [pc EXCEPT ![h] = label]
                  /\ UNCHANGED <<outcome, permits>>

\* execute returns: the deferred releasePermits runs.
Return(h, kind, state) ==
    /\ pc' = [pc EXCEPT ![h] = "done"]
    /\ outcome' = [outcome EXCEPT ![h] = [kind |-> kind, state |-> state]]
    /\ permits' = [permits EXCEPT ![h] = FALSE]

ReturnError(h) == Return(h, "error", None)

insertOutbox(k, events) ==
    outbox' = [outbox EXCEPT ![k] =
                 [e \in Event |-> outbox[k][e] + (IF e \in events THEN 1 ELSE 0)]]

\* UPDATE ai_requests ... WHERE status = from
MatchesAnyStatus(k, from) == status[k] # Absent
Matches(k, from) == status[k] = from

\* The update commits; the handler is told it changed one row.
Commits(k, from, r) == r # "error" /\ Matches(k, from)
ConfirmsAnyCount(k, from, r) == r = "ok"
Confirms(k, from, r) == r = "ok" /\ Matches(k, from)

TransitionRequest(k, from, to, r) ==
    status' = IF Commits(k, from, r) /\ CanTransition(from, to)
                THEN [status EXCEPT ![k] = to] ELSE status

\* The status column of attempt n becomes s.
Mark(k, n, s) == [attempts EXCEPT ![k][n] = s]

\* Lease.Success and Lease.Failure give the capacity back.
KeepLease(h) == UNCHANGED lease
ReleaseLease(h) == lease' = [lease EXCEPT ![h] = None]

------------------------------------------------------------------------------
(* Admission: service.go 86-147 *)

\* The input does not validate, or the model is not enabled for the tenant.
Refuse(h) ==
    /\ pc[h] = "idle"
    /\ ReturnError(h)
    /\ UNCHANGED <<storeVars, key, payload, attempt, excluded, lease, failure, gone,
                   output, blamed, faults>>

\* INSERT ... ON CONFLICT (tenant_id, idempotency_key) DO NOTHING
InsertsAlways(k) == TRUE
Inserts(k) == status[k] = Absent

\* CreateOrGetRequest inserts the row and its acceptance fact.
CreateRequest(h, k, p) ==
    /\ pc[h] = "idle"
    /\ Inserts(k)
    /\ key' = [key EXCEPT ![h] = k]
    /\ payload' = [payload EXCEPT ![h] = p]
    /\ \E r \in Reply :
         /\ Answers(h, TRUE, r)
         /\ IF r = "error"
              THEN UNCHANGED <<status, hash, outbox>>
              ELSE /\ status' = [status EXCEPT ![k] = Received]
                   /\ hash' = [hash EXCEPT ![k] = p]
                   /\ insertOutbox(k, {"accepted"})
         /\ IF r = "ok" THEN Goto(h, "received") ELSE ReturnError(h)
    /\ UNCHANGED <<attempts, tried, reservation, attempt, excluded, lease, failure, gone, output, blamed>>

ReplayAnnouncing(h, k, p) ==
    /\ pc[h] = "idle"
    /\ ~Inserts(k)
    /\ key' = [key EXCEPT ![h] = k]
    /\ payload' = [payload EXCEPT ![h] = p]
    /\ insertOutbox(k, {"accepted"})
    /\ Return(h, "pending", status[k])
    /\ UNCHANGED <<status, hash, attempts, tried, reservation, attempt, excluded, lease, failure,
                   gone, output, blamed, faults>>

\* CreateOrGetRequest finds the row: a different payload conflicts, a completed
\* request is replayed, and every other one is reported as pending.
ReplayRequest(h, k, p) ==
    /\ pc[h] = "idle"
    /\ ~Inserts(k)
    /\ key' = [key EXCEPT ![h] = k]
    /\ payload' = [payload EXCEPT ![h] = p]
    /\ \E r \in Reply :
         /\ Answers(h, TRUE, r)
         /\ \/ r # "ok" /\ ReturnError(h)
            \/ r = "ok" /\ hash[k] # p /\ Return(h, "conflict", None)
            \/ r = "ok" /\ hash[k] = p /\ status[k] = Completed /\ Return(h, "replayed", Completed)
            \/ r = "ok" /\ hash[k] = p /\ status[k] # Completed /\ Return(h, "pending", status[k])
    /\ UNCHANGED <<storeVars, attempt, excluded, lease, failure, gone, output, blamed>>

\* A TransitionRequest that execute insists on: any error returns.
Advance(h, at, from, to, next) ==
    /\ pc[h] = at
    /\ \E r \in Reply :
         /\ Answers(h, TRUE, r)
         /\ TransitionRequest(key[h], from, to, r)
         /\ IF Confirms(key[h], from, r) THEN Goto(h, next) ELSE ReturnError(h)
    /\ UNCHANGED <<hash, attempts, tried, reservation, outbox, key, payload, attempt, excluded,
                   lease, failure, gone, output, blamed>>

Validate(h) == Advance(h, "received", Received, Validated, "policy")

\* TenantPolicy: a read; the policy may be gone and the read may fail.
LoadPolicy(h) ==
    /\ pc[h] = "policy"
    /\ \/ ~gone[h] /\ Goto(h, "admit")
       \/ Goto(h, "refuse")
    /\ UNCHANGED <<storeVars, key, payload, attempt, excluded, lease, failure, gone,
                   output, blamed, faults>>

\* admit: both limiter buckets grant a permit, or those granted are released.
Admit(h) ==
    /\ pc[h] = "admit"
    /\ \/ /\ ~gone[h]
          /\ pc' = [pc EXCEPT ![h] = "price"]
          /\ permits' = [permits EXCEPT ![h] = TRUE]
          /\ UNCHANGED outcome
       \/ Goto(h, "refuse")
    /\ UNCHANGED <<storeVars, key, payload, attempt, excluded, lease, failure, gone,
                   output, blamed, faults>>

\* HighestPrices: no provider fits the static policy, or the price is known.
\* The reservation is bounded by ChatInput.Validate and cannot overflow.
Price(h) ==
    /\ pc[h] = "price"
    /\ Goto(h, "reserve") \/ Goto(h, "refuse")
    /\ UNCHANGED <<storeVars, key, payload, attempt, excluded, lease, failure, gone,
                   output, blamed, faults>>

\* The refusals at 110, 121 and 129: the transition's own error is ignored.
FailValidated(h) ==
    /\ pc[h] = "refuse"
    /\ \E r \in Reply :
         /\ Answers(h, TRUE, r)
         /\ TransitionRequest(key[h], Validated, Failed, r)
    /\ ReturnError(h)
    /\ UNCHANGED <<hash, attempts, tried, reservation, outbox, key, payload, attempt, excluded,
                   lease, failure, gone, output, blamed>>

\* ReserveBudget does not look at the request's status. An exceeded budget is
\* rejected; any other error returns and leaves the request VALIDATED.
ReserveBudget(h) ==
    LET k == key[h] IN
    /\ pc[h] = "reserve"
    /\ \/ \E r \in Reply :
            /\ Answers(h, TRUE, r)
            /\ reservation' = IF r # "error" /\ reservation[k] = "NONE"
                                THEN [reservation EXCEPT ![k] = "RESERVED"] ELSE reservation
            /\ IF r = "ok" THEN Goto(h, "route") ELSE ReturnError(h)
       \/ /\ ~gone[h]
          /\ Goto(h, "reject")
          /\ UNCHANGED <<reservation, faults>>
    /\ UNCHANGED <<status, hash, attempts, tried, outbox, key, payload, attempt, excluded, lease,
                   failure, gone, output, blamed>>

\* RejectBudget, without the request's context; its error is ignored.
RejectBudget(h) ==
    LET k == key[h] IN
    /\ pc[h] = "reject"
    /\ \E r \in Reply :
         /\ Answers(h, FALSE, r)
         /\ TransitionRequest(k, Validated, BudgetRejected, r)
         /\ IF Commits(k, Validated, r)
              THEN insertOutbox(k, {"exceeded"}) ELSE UNCHANGED outbox
    /\ ReturnError(h)
    /\ UNCHANGED <<hash, attempts, tried, reservation, key, payload, attempt, excluded, lease,
                   failure, gone, output, blamed>>

StartRouting(h) == Advance(h, "route", Validated, Routing, "progress")
StartProgress(h) == Advance(h, "progress", Routing, InProgress, "select")

------------------------------------------------------------------------------
(* The attempt loop: service.go 149-211 *)

\* Router.Select leases a provider that this request has not tried, or finds
\* none eligible (breakers, capacity and policy are those of module Router).
Select(h) ==
    /\ pc[h] = "select"
    /\ \/ \E p \in Provider \ excluded[h] :
            /\ lease' = [lease EXCEPT ![h] = p]
            /\ excluded' = [excluded EXCEPT ![h] = @ \cup {p}]
            /\ attempt' = [attempt EXCEPT ![h] = @ + 1]
            /\ Goto(h, "start")
       \/ Goto(h, "finish") /\ UNCHANGED <<lease, excluded, attempt>>
    /\ UNCHANGED <<storeVars, key, payload, failure, gone, output, blamed, faults>>

\* StartAttempt inserts the attempt and its fact, whatever the request's status.
StartAttempt(h) ==
    LET k == key[h] IN
    /\ pc[h] = "start"
    /\ \E r \in Reply :
         /\ Answers(h, TRUE, r)
         /\ IF r = "error"
              THEN UNCHANGED <<attempts, tried, outbox>>
              ELSE /\ attempts' = Mark(k, attempt[h], "STARTED")
                   /\ tried' = [tried EXCEPT ![k][attempt[h]] = lease[h]]
                   /\ insertOutbox(k, {"selected"})
         /\ IF r = "ok" THEN Goto(h, "call") /\ UNCHANGED lease
                        ELSE ReturnError(h) /\ ReleaseLease(h)
    /\ UNCHANGED <<status, hash, reservation, key, payload, attempt, excluded, failure, gone,
                   output, blamed>>

\* provider.IsRetryable of the error each adapter makes of a failed call. A
\* deadline that passes before the headers is not retryable, one that cuts the
\* stream's body is; a disconnect looks like a transport fault to the adapter.
IsRetryable(result, streaming) ==
    CASE result = "transient" -> {TRUE}
      [] result = "permanent" -> {FALSE}
      [] result = "timeout"   -> IF streaming THEN BOOLEAN ELSE {FALSE}
      [] result = "client"    -> BOOLEAN

CauseOf(result) == IF result \in {"timeout", "client"} THEN result ELSE "provider"

\* Whether a failed attempt n is followed by another.
RetryAfterOutput(retryable, partial, n) == retryable /\ n < MaxAttempts
Retry(retryable, partial, n) == retryable /\ ~partial /\ n < MaxAttempts

Emits(h) == output' = [output EXCEPT ![key[h]] = @ \cup {attempt[h]}]

\* The provider answers. A usage that CostMicroUSD rejects returns at once.
CallAnswers(h) ==
    /\ pc[h] = "call"
    /\ UNCHANGED output \/ (payload[h] \in Streamed /\ Emits(h))
    /\ \/ "answer" \in CallResults /\ Goto(h, "complete") /\ UNCHANGED lease
       \/ "badusage" \in CallResults /\ Return(h, "unpriced", None) /\ ReleaseLease(h)
    /\ UNCHANGED <<storeVars, key, payload, attempt, excluded, failure, gone, blamed, faults>>

\* The call fails. Lease.Failure reports it to the breaker when it is retried.
CallFails(h, result) ==
    LET streaming == payload[h] \in Streamed IN
    /\ pc[h] = "call"
    /\ \E retryable \in IsRetryable(result, streaming),
          partial \in (IF streaming THEN BOOLEAN ELSE {FALSE}) :
         LET again == Retry(retryable, partial, attempt[h]) IN
         /\ failure' = [failure EXCEPT ![h] = [cause |-> CauseOf(result), retryable |-> again]]
         /\ blamed' = IF again THEN blamed \cup {CauseOf(result)} ELSE blamed
         /\ IF partial THEN Emits(h) ELSE UNCHANGED output
    /\ ReleaseLease(h)
    /\ Goto(h, "fail")
    /\ UNCHANGED <<storeVars, key, payload, attempt, excluded, gone, faults>>

\* The transaction of CompleteRequest: attempt, request and both facts, rolled
\* back when the request is no longer in progress.
CompletionWithoutRollback(k, n, r) ==
    /\ attempts' = IF r # "error" THEN Mark(k, n, "SUCCEEDED") ELSE attempts
    /\ status' = IF Commits(k, InProgress, r) THEN [status EXCEPT ![k] = Completed] ELSE status
    /\ IF Commits(k, InProgress, r) THEN insertOutbox(k, {"completed", "usage"})
                                    ELSE UNCHANGED outbox

CompletionTx(k, n, r) ==
    IF Commits(k, InProgress, r)
      THEN /\ attempts' = IF attempts[k][n] = "STARTED"
                            THEN Mark(k, n, "SUCCEEDED") ELSE attempts
           /\ status' = [status EXCEPT ![k] = Completed]
           /\ insertOutbox(k, {"completed", "usage"})
      ELSE UNCHANGED <<status, attempts, outbox>>

\* CompleteRequest. Whatever it answers, the lease is given back.
CompleteRequest(h) ==
    LET k == key[h] IN
    /\ pc[h] = "complete"
    /\ \E r \in Reply :
         /\ Answers(h, TRUE, r)
         /\ CompletionTx(k, attempt[h], r)
         /\ IF Confirms(k, InProgress, r)
              THEN /\ pc' = [pc EXCEPT ![h] = "reconcile"]
                   /\ outcome' = [outcome EXCEPT ![h] = [kind |-> "completed", state |-> Completed]]
                   /\ UNCHANGED permits
              ELSE ReturnError(h)
    /\ ReleaseLease(h)
    /\ UNCHANGED <<hash, tried, reservation, key, payload, attempt, excluded, failure, gone, output, blamed>>

\* The transaction of FailAttempt for attempt n (0: none). A final failure is
\* rolled back, the attempt's update included, unless the request is in progress.
FailAttemptFinalOnly(k, n, final, r) ==
    LET applied == final /\ Commits(k, InProgress, r) IN
    /\ attempts' = IF applied /\ n > 0 /\ attempts[k][n] = "STARTED"
                     THEN Mark(k, n, "FAILED") ELSE attempts
    /\ status' = IF applied THEN [status EXCEPT ![k] = Failed] ELSE status
    /\ IF applied THEN insertOutbox(k, {"failed"}) ELSE UNCHANGED outbox

FailAttemptTx(k, n, final, r) ==
    LET applied == IF final THEN Commits(k, InProgress, r) ELSE r # "error" IN
    /\ attempts' = IF applied /\ n > 0 /\ attempts[k][n] = "STARTED"
                     THEN Mark(k, n, "FAILED") ELSE attempts
    /\ status' = IF applied /\ final THEN [status EXCEPT ![k] = Failed] ELSE status
    /\ IF applied /\ final THEN insertOutbox(k, {"failed"}) ELSE UNCHANGED outbox

\* FailAttempt after a failed call: an error returns without settling.
FailAttempt(h) ==
    LET final == ~failure[h].retryable IN
    /\ pc[h] = "fail"
    /\ \E r \in Reply :
         /\ Answers(h, FALSE, r)
         /\ FailAttemptTx(key[h], attempt[h], final, r)
         /\ IF (IF final THEN Confirms(key[h], InProgress, r) ELSE r = "ok")
              THEN Goto(h, IF final THEN "reconcile" ELSE "backoff")
              ELSE ReturnError(h)
    /\ UNCHANGED <<hash, tried, reservation, key, payload, attempt, excluded, lease, failure, gone,
                   output, blamed>>

BackoffWithoutTimer(h) ==
    /\ pc[h] = "backoff"
    /\ gone[h] /\ Goto(h, "finish")
    /\ UNCHANGED <<storeVars, key, payload, attempt, excluded, lease, failure, gone,
                   output, blamed, faults>>

\* waitBackoff: the timer fires, or the client is gone.
Backoff(h) ==
    /\ pc[h] = "backoff"
    /\ Goto(h, "select") \/ (gone[h] /\ Goto(h, "finish"))
    /\ UNCHANGED <<storeVars, key, payload, attempt, excluded, lease, failure, gone,
                   output, blamed, faults>>

FinishWithoutFailing(h) ==
    /\ pc[h] = "finish"
    /\ Goto(h, "reconcile")
    /\ UNCHANGED <<storeVars, key, payload, attempt, excluded, lease, failure, gone,
                   output, blamed, faults>>

FinishWithoutReconciling(h) ==
    /\ pc[h] = "finish"
    /\ \E r \in Reply : Answers(h, FALSE, r) /\ FailAttemptTx(key[h], 0, TRUE, r)
    /\ ReturnError(h)
    /\ UNCHANGED <<hash, tried, reservation, key, payload, attempt, excluded, lease, failure, gone,
                   output, blamed>>

\* The loop ended without a final attempt: the request fails, error ignored.
Finish(h) ==
    /\ pc[h] = "finish"
    /\ \E r \in Reply :
         /\ Answers(h, FALSE, r)
         /\ FailAttemptTx(key[h], 0, TRUE, r)
    /\ Goto(h, "reconcile")
    /\ UNCHANGED <<hash, tried, reservation, key, payload, attempt, excluded, lease, failure, gone,
                   output, blamed>>

\* UPDATE budget_reservations ... WHERE state = 'RESERVED'
SettledAsReleased(state) == IF state = "RESERVED" THEN "RELEASED" ELSE state
Settled(state) == IF state = "RESERVED" THEN "RECONCILED" ELSE state

\* ReconcileBudget of a completed or failed request; its error is ignored.
ReconcileBudget(h) ==
    LET k == key[h] IN
    /\ pc[h] = "reconcile"
    /\ \E r \in Reply :
         /\ Answers(h, FALSE, r)
         /\ reservation' = IF r = "error" THEN reservation
                             ELSE [reservation EXCEPT ![k] = Settled(@)]
    /\ IF outcome[h].kind = "completed" THEN Return(h, "completed", Completed) ELSE ReturnError(h)
    /\ UNCHANGED <<status, hash, attempts, tried, outbox, key, payload, attempt, excluded, lease,
                   failure, gone, output, blamed>>

------------------------------------------------------------------------------
(* The environment *)

\* The statuses that the update of CancelRequest matches.
Cancels == {Received, Validated, Routing, InProgress}

\* The cancel endpoint changes the status and nothing else.
CancelRequest(k) ==
    /\ k \in Cancellable
    /\ status[k] \in Cancels
    /\ status' = [status EXCEPT ![k] = Cancelled]
    /\ UNCHANGED <<hash, attempts, tried, reservation, outbox, handlerVars, output, blamed, faults>>

\* The HTTP server cancels the request's context.
Disconnect(h) ==
    /\ h \in Impatient
    /\ pc[h] \notin Ended
    /\ ~gone[h]
    /\ gone' = [gone EXCEPT ![h] = TRUE]
    /\ UNCHANGED <<storeVars, pc, key, payload, attempt, excluded, lease, permits, failure,
                   outcome, output, blamed, faults>>

\* The gateway process dies: leases die with its router.
Crash(h) ==
    /\ faults < MaxFaults
    /\ pc[h] \notin Ended
    /\ pc' = [pc EXCEPT ![h] = "crashed"]
    /\ ReleaseLease(h)
    /\ faults' = faults + 1
    /\ UNCHANGED <<storeVars, key, payload, attempt, excluded, permits, failure, gone, outcome,
                   output, blamed>>

\* A submission arrives at an idle handler.
Arrive(h) == \/ Refuse(h)
             \/ \E k \in Key, p \in Payload : CreateRequest(h, k, p) \/ ReplayRequest(h, k, p)

\* A step of execute itself.
Step(h) ==
    \/ Validate(h) \/ LoadPolicy(h) \/ Admit(h) \/ Price(h) \/ FailValidated(h)
    \/ ReserveBudget(h) \/ RejectBudget(h) \/ StartRouting(h) \/ StartProgress(h)
    \/ Select(h) \/ StartAttempt(h) \/ CallAnswers(h)
    \/ \E result \in CallResults \cap {"transient", "permanent", "timeout"} : CallFails(h, result)
    \/ gone[h] /\ CallFails(h, "client")
    \/ CompleteRequest(h) \/ FailAttempt(h) \/ Backoff(h) \/ Finish(h) \/ ReconcileBudget(h)

Next == \/ \E h \in Handler : Arrive(h) \/ Step(h) \/ Disconnect(h) \/ Crash(h)
        \/ \E k \in Key : CancelRequest(k)

Spec == Init /\ [][Next]_vars

\* execute keeps running: store calls answer or fail, the lease's timeout ends
\* every provider call, and the backoff timer fires.
FairSpec == Spec /\ \A h \in Handler : WF_vars(Step(h))

------------------------------------------------------------------------------
(* Properties *)

Executing(h) == pc[h] \notin Ended

TypeOK ==
    /\ status \in [Key -> State \cup {Absent}]
    /\ hash \in [Key -> Payload \cup {None}]
    /\ attempts \in [Key -> [AttemptNumber -> AttemptStatus]]
    /\ tried \in [Key -> [AttemptNumber -> Provider \cup {None}]]
    /\ reservation \in [Key -> {"NONE", "RESERVED", "RECONCILED"}]
    /\ outbox \in [Key -> [Event -> Nat]]
    /\ pc \in [Handler -> Label]
    /\ key \in [Handler -> Key \cup {None}]
    /\ payload \in [Handler -> Payload \cup {None}]
    /\ attempt \in [Handler -> 0..MaxAttempts]
    /\ excluded \in [Handler -> SUBSET Provider]
    /\ lease \in [Handler -> Provider \cup {None}]
    /\ permits \in [Handler -> BOOLEAN]
    /\ failure \in [Handler -> [cause : Cause, retryable : BOOLEAN]]
    /\ gone \in [Handler -> BOOLEAN]
    /\ outcome \in [Handler -> Outcome]
    /\ output \in [Key -> SUBSET AttemptNumber]
    /\ blamed \in SUBSET Cause
    /\ faults \in 0..MaxFaults

InLoop == {"select", "start", "call", "complete", "fail", "backoff", "finish", "reconcile"}

LoopAt(h) ==
    /\ key[h] \in Key
    /\ status[key[h]] # Absent
    /\ pc[h] \notin InLoop => attempt[h] = 0
    /\ pc[h] \in {"select", "backoff"} => attempt[h] < MaxAttempts
    /\ pc[h] \in {"start", "call", "complete", "fail"} => attempt[h] > 0
    /\ pc[h] = "fail" /\ failure[h].retryable => attempt[h] < MaxAttempts

\* The loop of execute counts only attempts it makes: none before it is entered,
\* at most MaxAttempts in it, and a failure is retried only below MaxAttempts.
LoopInv ==
    \A h \in Handler : /\ pc[h] = "idle" => attempt[h] = 0
                       /\ Executing(h) => LoopAt(h)

\* Row n of the request that h executes, by where h stands in the loop.
AttemptAt(h, n) ==
    LET k == key[h]
        recorded == tried[k][n] \in excluded[h]
        unseen == n \notin output[k]
    IN
    /\ n > attempt[h] => attempts[k][n] = "NONE" /\ unseen
    /\ n < attempt[h] => attempts[k][n] = "FAILED" /\ unseen /\ recorded /\ tried[k][n] # lease[h]
    /\ n = attempt[h] =>
         /\ pc[h] = "start" => attempts[k][n] = "NONE" /\ unseen /\ lease[h] \in excluded[h]
         /\ pc[h] = "call" => unseen
         /\ pc[h] \in {"call", "complete", "fail"} => attempts[k][n] = "STARTED" /\ recorded
         /\ pc[h] = "fail" /\ failure[h].retryable => unseen
         /\ pc[h] \in {"select", "backoff"} => attempts[k][n] = "FAILED" /\ unseen /\ recorded

\* The rows of a request agree with where its handler stands in the loop, whose
\* counter is LoopInv: earlier attempts are FAILED at providers that are excluded
\* from now on and showed the client nothing, later ones are absent, and the
\* current one is STARTED exactly while its call is outstanding or unrecorded.
RowInv ==
    /\ LoopInv
    /\ \A k \in Key : status[k] = Absent =>
         \A n \in AttemptNumber : attempts[k][n] = "NONE" /\ n \notin output[k]
    /\ \A h \in Handler : Executing(h) => \A n \in AttemptNumber : AttemptAt(h, n)

\* Two concurrent or repeated submissions of one idempotency key never execute
\* the request twice: CreateOrGetRequest lets one handler past the insert.
SingleExecutor ==
    \A g, h \in Handler : Executing(g) /\ Executing(h) /\ key[g] = key[h] => g = h

\* The outbox holds exactly the facts of the request's status: one acceptance,
\* a completion and a usage fact exactly when it is COMPLETED (so it is charged
\* once), one rejection exactly when BUDGET_REJECTED, a failure only when FAILED.
FactsOfStatus(k) ==
    /\ outbox[k]["accepted"] = IF status[k] = Absent THEN 0 ELSE 1
    /\ outbox[k]["completed"] = IF status[k] = Completed THEN 1 ELSE 0
    /\ outbox[k]["usage"] = outbox[k]["completed"]
    /\ outbox[k]["exceeded"] = IF status[k] = BudgetRejected THEN 1 ELSE 0
    /\ outbox[k]["failed"] \in (IF status[k] = Failed THEN {0, 1} ELSE {0})

FactsMatchStatus == \A k \in Key : FactsOfStatus(k)

\* A request is COMPLETED exactly when one attempt SUCCEEDED, and never two: a
\* cancellation that wins the race rolls the attempt's success back too.
OneSuccessfulAttempt ==
    \A k \in Key :
      LET won == {n \in AttemptNumber : attempts[k][n] = "SUCCEEDED"} IN
      /\ (status[k] = Completed) <=> (won # {})
      /\ \A m, n \in won : m = n

\* Attempts are numbered without gaps. A later one starts only after the earlier
\* one is recorded FAILED, at another provider, and only if the client has seen no
\* content of the earlier one.
AttemptsInOrder ==
    \A k \in Key : \A m, n \in AttemptNumber :
      m < n /\ attempts[k][n] # "NONE" =>
        /\ attempts[k][m] = "FAILED"
        /\ tried[k][m] # tried[k][n]
        /\ m \notin output[k]

\* A handler that returned, on whatever path, gave back its provider lease and
\* its rate-limit permits.
NoCapacityLeak == \A h \in Handler : pc[h] = "done" => lease[h] = None /\ ~permits[h]

\* Leases are held only around a provider call, and a handler has nothing to
\* report before it settles or returns.
ReturnInv ==
    \A h \in Handler :
      /\ pc[h] \notin {"start", "call", "complete"} => lease[h] = None
      /\ pc[h] = "done" => ~permits[h]
      /\ pc[h] \notin {"reconcile", "done", "crashed"} => outcome[h].kind = "none"
      /\ outcome[h].kind \in {"completed", "replayed"} =>
           key[h] \in Key /\ status[key[h]] = Completed

\* A success told to a client, first-hand or replayed, is and stays COMPLETED:
\* no cancellation, retry, fault or crash takes it back.
ReportedSuccessIsDurable ==
    \A h \in Handler :
      outcome[h].kind \in {"completed", "replayed"} => status[key[h]] = Completed

\* The store's promise about every logical request (module RequestLifecycle).
Lifecycle == INSTANCE RequestLifecycle WITH
    facts <- [k \in Key |-> {e \in Event \ {"accepted", "selected"} : outbox[k][e] > 0}]
RefinesLifecycle == Lifecycle!Spec

\* Every call of execute returns (or its process died): no path waits forever.
HandlersReturn == \A h \in Handler : Executing(h) ~> ~Executing(h)

\* Something happened to request k after which execute returns without settling
\* it: a store fault or crash, a disconnect, or a usage without a price.
Disturbed(k) ==
    \/ faults > 0
    \/ \E h \in Handler : key[h] = k /\ (gone[h] \/ outcome[h].kind = "unpriced")

\* Every accepted request becomes final, however its attempts end, unless it is
\* disturbed: no other path of execute leaves one VALIDATED or IN_PROGRESS.
RequestSettles ==
    \A k \in Key : status[k] # Absent ~> status[k] \in Final \/ Disturbed(k)

\* Every budget reservation is reconciled, which releases what was not spent,
\* unless the request is disturbed or cancelled.
ReservationReleased ==
    \A k \in Key : reservation[k] = "RESERVED" ~>
      reservation[k] = "RECONCILED" \/ Disturbed(k) \/ status[k] = Cancelled

------------------------------------------------------------------------------
(* Statements of the documentation, the comments or the tests that this code  *)
(* does not keep; README.md says how each one fails.                          *)

\* The reservation of a cancelled request is released too.
CancelReleasesReservation ==
    \A k \in Key : status[k] = Cancelled /\ reservation[k] = "RESERVED" ~>
      reservation[k] = "RECONCILED"

\* A submission answered as pending repeats a request that is still in progress.
PendingIsRunning == \A h \in Handler : outcome[h].kind = "pending" => outcome[h].state \notin Final

\* Only provider faults are reported to a provider's circuit breaker.
BreakerBlamesProviders == "client" \notin blamed

\* A call that times out before any output is retried while attempts remain.
TimeoutIsRetried ==
    \A h \in Handler :
      /\ pc[h] = "fail"
      /\ failure[h].cause = "timeout"
      /\ attempt[h] < MaxAttempts
      /\ attempt[h] \notin output[key[h]]
      => failure[h].retryable
===============================================================================
