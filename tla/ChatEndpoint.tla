----------------------------- MODULE ChatEndpoint -----------------------------
(* POST /v1/chat/completions and the cancel endpoint (internal/api/gateway.go) *)
(* in the gateway's development mode: Service.execute and Service.call         *)
(* (internal/gateway/service.go) on the in-memory store, the event stream of   *)
(* an OpenAI-compatible provider (internal/provider/openai.go) on one side and *)
(* the answer written to the client on the other. Leases, breakers and permits *)
(* are those of Router and RateLimiter; here any provider or none may be free. *)
EXTENDS MemoryStore, Sequences

CONSTANTS Handler,             \* calls of the endpoint
          Streamed,            \* bodies with "stream": true; two bodies differ in their hash
          Provider,
          InputPrice,          \* InputCostPerMillionMicro by provider
          OutputPrice,         \* OutputCostPerMillionMicro by provider
          Estimate,            \* the usage a reservation is made for
          Usages,              \* usages a provider may report
          MaximumStreamBytes,  \* in chunks of content
          Policies,            \* the policies the tenant may have
          Sends,               \* the keys and bodies a handler's client may send
          Impatient,           \* handlers whose client may disconnect
          Cancellable          \* requests whose owner may cancel them

ASSUME EndpointAssumption ==
    /\ None \notin Provider /\ Policies \subseteq (SUBSET Provider) \cup {None}
    /\ \A h \in Handler : \A m \in Sends[h] : m[1] \in Key

\* Keys are bounded strings and providers are configured; the rest are Go integers.
ASSUME PriceAssumption ==
    /\ IsFiniteSet(Key) /\ IsFiniteSet(Provider)
    /\ MonthlyBudget \in Machine
    /\ \A p \in Provider : InputPrice[p] \in Machine /\ OutputPrice[p] \in Machine
    /\ \A u \in Usages \cup {Estimate} : u.prompt \in Machine /\ u.completion \in Machine

VARIABLES policy,    \* providers that the tenant's policy and model admit, or None
          handler,   \* locals of each call
          reply      \* what was written to its client

vars == <<storeVars, policy, handler, reply>>

NoUsage == [prompt |-> 0, completion |-> 0]
NoReply == [code |-> 0, error |-> "", sse |-> FALSE, body |-> <<>>, end |-> "open"]
Idle == [pc |-> "idle", key |-> None, input |-> None, attempt |-> 0, excluded |-> {},
         provider |-> None, content |-> <<>>, usage |-> NoUsage, error |-> "", retryable |-> FALSE,
         gone |-> FALSE]

Init == /\ NewMemory
        /\ policy \in Policies
        /\ handler = [h \in Handler |-> Idle]
        /\ reply = [h \in Handler |-> NoReply]

At(h, label) == handler[h].pc = label
keyOf(h) == handler[h].key
isStream(h) == handler[h].input \in Streamed
Goto(h, label) == /\ handler' = [handler EXCEPT ![h].pc = label]
                  /\ UNCHANGED <<policy, reply>>

\* The handler returns; which request it was for is kept, with the attempts made.
Leave(h, k, i) ==
    /\ handler' = [handler EXCEPT ![h] = [Idle EXCEPT !.pc = "answered", !.key = k, !.input = i,
                                                     !.attempt = handler[h].attempt]]
    /\ UNCHANGED policy
Answer(h) == Leave(h, keyOf(h), handler[h].input)

------------------------------------------------------------------------------
(* The answer *)

writeServiceError(error) ==
    CASE error = "invalid"      -> 400
      [] error = "conflict"     -> 409
      [] error = "forbidden"    -> 403
      [] error = "alreadyfinal" -> 409
      [] error = "exceeded"     -> 402
      [] error = "ratelimited"  -> 429
      [] error = "noprovider"   -> 503
      [] OTHER                  -> 502

\* A stream that has started can only be ended by an error event.
writeError(h, error) ==
    reply' = [reply EXCEPT ![h] =
                IF @.sse THEN [@ EXCEPT !.error = error, !.end = "error"]
                ELSE [@ EXCEPT !.code = writeServiceError(error), !.error = error, !.end = "problem"]]

\* A JSON answer carries the whole response; the stream has carried what was emitted.
writeOutcome(h, input, content) ==
    reply' = [reply EXCEPT ![h] =
                IF input \in Streamed THEN [@ EXCEPT !.code = 200, !.sse = TRUE, !.end = "done"]
                ELSE [@ EXCEPT !.code = 200, !.body = content, !.end = "json"]]

writePending(h) == reply' = [reply EXCEPT ![h].code = 202, ![h].end = "json"]

ReturnError(h, error) == writeError(h, error) /\ Answer(h)

------------------------------------------------------------------------------
(* Admission: service.go 86-147 *)

\* The key, the body or its fields are refused before the service is called.
BadRequest(h) ==
    /\ At(h, "idle")
    /\ ReturnError(h, "invalid")
    /\ UNCHANGED storeVars

Submit(h, k, i) ==
    /\ At(h, "idle")
    /\ CreateRequest(k, i)
    /\ handler' = [handler EXCEPT ![h].pc = "received", ![h].key = k, ![h].input = i]
    /\ UNCHANGED <<policy, reply>>

\* A replayed stream is empty: the response of the record is not emitted.
Repeat(h, k, i) ==
    /\ At(h, "idle")
    /\ state(k) # Absent
    /\ Leave(h, k, i)
    /\ \/ Conflicts(k, i) /\ writeError(h, "conflict")
       \/ ~Conflicts(k, i) /\ state(k) # Completed /\ writePending(h)
       \/ ~Conflicts(k, i) /\ state(k) = Completed /\ writeOutcome(h, i, requests[k].response)
    /\ UNCHANGED storeVars

\* A transition of the request that, when the state has changed, ends the call.
Advance(h, from, to, label) ==
    \/ TransitionRequest(keyOf(h), from, to) /\ Goto(h, label)
    \/ state(keyOf(h)) # from /\ UNCHANGED storeVars /\ ReturnError(h, "alreadyfinal")

Validate(h) == At(h, "received") /\ Advance(h, Received, Validated, "admit")

\* TenantPolicy, admit and HighestPrices: the last only looks at static policy.
Refusals == IF policy = None THEN {"forbidden"}
            ELSE {"ratelimited", "unavailable"} \cup (IF policy = {} THEN {"noprovider"} ELSE {})

Admit(h) ==
    /\ At(h, "admit")
    /\ \/ /\ policy \notin {None, {}}
          /\ Goto(h, "reserve")
       \/ \E e \in Refusals :
            /\ handler' = [handler EXCEPT ![h].pc = "refuse", ![h].error = e]
            /\ UNCHANGED <<policy, reply>>
    /\ UNCHANGED storeVars

RefuseSilently(h) ==
    /\ At(h, "refuse")
    /\ UNCHANGED storeVars
    /\ ReturnError(h, handler[h].error)

\* The error of the transition is ignored.
Refuse(h) ==
    /\ At(h, "refuse")
    /\ \/ TransitionRequest(keyOf(h), Validated, Failed)
       \/ state(keyOf(h)) # Validated /\ UNCHANGED storeVars
    /\ ReturnError(h, handler[h].error)

LowestPrice(price) == Min({price[p] : p \in policy})
HighestPrice(price) == Max({price[p] : p \in policy})

\* Validate bounds the tokens of a request, so CostMicroUSD cannot overflow here.
reservation ==
    CostMicroUSD(Estimate.prompt, Estimate.completion, HighestPrice(InputPrice), HighestPrice(OutputPrice))

Reserve(h) ==
    /\ At(h, "reserve")
    /\ \/ ReserveBudget(keyOf(h), reservation) /\ Goto(h, "route")
       \/ /\ CanReserve(MonthlyBudget, used, sumMap, reservation) # "ok"
          /\ UNCHANGED storeVars
          /\ Goto(h, "reject")

\* RejectBudget is a transition, whose error is ignored.
Reject(h) ==
    /\ At(h, "reject")
    /\ \/ TransitionRequest(keyOf(h), Validated, BudgetRejected)
       \/ state(keyOf(h)) # Validated /\ UNCHANGED storeVars
    /\ ReturnError(h, "exceeded")

Route(h) == At(h, "route") /\ Advance(h, Validated, Routing, "progress")

Progress(h) == At(h, "progress") /\ Advance(h, Routing, InProgress, "select")

------------------------------------------------------------------------------
(* Attempts: service.go 152-210 *)

\* The loop is left when no provider is free.
Select(h) ==
    /\ At(h, "select")
    /\ \/ \E p \in policy \ handler[h].excluded :
            handler' = [handler EXCEPT ![h].pc = "start", ![h].attempt = @ + 1, ![h].provider = p,
                                       ![h].excluded = @ \cup {p}, ![h].content = <<>>,
                                       ![h].usage = NoUsage]
       \/ handler' = [handler EXCEPT ![h].pc = "finish", ![h].error = "noprovider"]
    /\ UNCHANGED <<storeVars, policy, reply>>

Start(h) ==
    /\ At(h, "start")
    /\ StartAttempt(keyOf(h), handler[h].attempt)
    /\ Goto(h, "call")

Fails(h, error, retryable) ==
    /\ handler' = [handler EXCEPT ![h].pc = "fail", ![h].error = error, ![h].retryable = retryable]
    /\ UNCHANGED <<storeVars, policy, reply>>

\* The provider of the development mode returns the bare error of its context, which
\* ends with the client or with the timeout of the lease.
ContextEnds(h) ==
    \E e \in {"deadline"} \cup (IF handler[h].gone THEN {"cancelled"} ELSE {}) : Fails(h, e, FALSE)

\* Complete or Stream is refused: transport, upstream status, malformed or empty body.
CallFails(h) ==
    /\ At(h, "call")
    /\ (\E retryable \in BOOLEAN : Fails(h, "provider", retryable)) \/ ContextEnds(h)

\* A chunk is known by the attempt it came from.
Completes(h) ==
    /\ At(h, "call")
    /\ ~isStream(h)
    /\ \E u \in Usages :
         handler' = [handler EXCEPT ![h].pc = "complete", ![h].usage = u,
                                    ![h].content = <<handler[h].attempt>>]
    /\ UNCHANGED <<storeVars, policy, reply>>

Opens(h) ==
    /\ At(h, "call")
    /\ isStream(h)
    /\ Goto(h, "stream")
    /\ UNCHANGED storeVars

UsageEvent(h) ==
    /\ At(h, "stream")
    /\ \E u \in Usages : handler' = [handler EXCEPT ![h].usage = u]
    /\ UNCHANGED <<storeVars, policy, reply>>

\* Service.call counts the chunk before sseWriter.Emit writes it; the write of a
\* chunk to a client that has gone may fail.
Emit(h, chunk) ==
    \/ /\ handler' = [handler EXCEPT ![h].content = @ \o chunk]
       /\ reply' = [reply EXCEPT ![h].code = 200, ![h].sse = TRUE, ![h].body = @ \o chunk]
       /\ UNCHANGED <<storeVars, policy>>
    \/ /\ handler[h].gone
       /\ handler' = [handler EXCEPT ![h].content = @ \o chunk, ![h].pc = "fail",
                                     ![h].error = "provider", ![h].retryable = FALSE]
       /\ reply' = [reply EXCEPT ![h].code = 200, ![h].sse = TRUE]
       /\ UNCHANGED <<storeVars, policy>>

ChunkEvent(h) ==
    /\ At(h, "stream")
    /\ \E chunk \in {<<>>, <<handler[h].attempt>>} :
         IF Len(handler[h].content \o chunk) > MaximumStreamBytes
           THEN Fails(h, "provider", FALSE)
           ELSE Emit(h, chunk)

StreamDone(h) ==
    /\ At(h, "stream")
    /\ Goto(h, "complete")
    /\ UNCHANGED storeVars

\* A malformed event; the body ends, breaks or outlasts the deadline of the lease.
StreamFails(h) ==
    /\ At(h, "stream")
    /\ (\E retryable \in {FALSE, handler[h].content = <<>>} : Fails(h, "provider", retryable)) \/ ContextEnds(h)

actual(h) == CostMicroUSD(handler[h].usage.prompt, handler[h].usage.completion,
                          InputPrice[handler[h].provider], OutputPrice[handler[h].provider])

\* The answer of CompleteRequest is not looked at.
CompleteUnchecked(h) ==
    /\ At(h, "complete")
    /\ \/ /\ actual(h) # Overflow
          /\ CompleteRequest(keyOf(h), handler[h].attempt, handler[h].content, actual(h))
       \/ state(keyOf(h)) # InProgress /\ UNCHANGED storeVars
    /\ Goto(h, "settle")

\* A usage that has no price ends the call and leaves the request as it is.
Complete(h) ==
    /\ At(h, "complete")
    /\ \/ /\ actual(h) # Overflow
          /\ CompleteRequest(keyOf(h), handler[h].attempt, handler[h].content, actual(h))
          /\ Goto(h, "settle")
       \/ /\ actual(h) # Overflow
          /\ state(keyOf(h)) # InProgress
          /\ UNCHANGED storeVars
          /\ ReturnError(h, "alreadyfinal")
       \/ /\ actual(h) = Overflow
          /\ UNCHANGED storeVars
          /\ ReturnError(h, "unpriced")

Settle(h) ==
    /\ At(h, "settle")
    /\ ReconcileBudget(keyOf(h), actual(h))
    /\ writeOutcome(h, handler[h].input, handler[h].content)
    /\ Answer(h)

\* "provider" stands for the categories of a provider.Error.
errorCategory(error) == CASE error \in {"provider", "cancelled"} -> error
                          [] error = "deadline" -> "deadline_exceeded"
                          [] OTHER              -> "provider_unavailable"

Retries(h) == /\ handler[h].retryable
              /\ handler[h].content = <<>>
              /\ handler[h].attempt < MaxAttempts

\* The first error of FailAttempt ends the call with the reservation in place.
Fail(h) ==
    /\ At(h, "fail")
    /\ \/ /\ FailAttempt(keyOf(h), errorCategory(handler[h].error), handler[h].content # <<>>, ~Retries(h))
          /\ Goto(h, IF Retries(h) THEN "backoff" ELSE "reconcile")
       \/ /\ ~Retries(h)
          /\ state(keyOf(h)) # InProgress
          /\ UNCHANGED storeVars
          /\ ReturnError(h, "alreadyfinal")

BackoffForever(h) ==
    /\ At(h, "backoff")
    /\ handler[h].gone
    /\ handler' = [handler EXCEPT ![h].pc = "finish", ![h].error = "cancelled"]
    /\ UNCHANGED <<storeVars, policy, reply>>

Backoff(h) ==
    /\ At(h, "backoff")
    /\ \/ handler' = [handler EXCEPT ![h].pc = "select"]
       \/ handler[h].gone /\ handler' = [handler EXCEPT ![h].pc = "finish", ![h].error = "cancelled"]
    /\ UNCHANGED <<storeVars, policy, reply>>

Finish(h) ==
    /\ At(h, "finish")
    /\ \/ FailAttempt(keyOf(h), errorCategory(handler[h].error), FALSE, TRUE)
       \/ state(keyOf(h)) # InProgress /\ UNCHANGED storeVars
    /\ Goto(h, "reconcile")

Reconcile(h) ==
    /\ At(h, "reconcile")
    /\ ReconcileBudget(keyOf(h), 0)
    /\ ReturnError(h, handler[h].error)

------------------------------------------------------------------------------
(* The cancel endpoint answers 409 and changes nothing once a request is final. *)
Cancel(k) ==
    /\ k \in Cancellable
    /\ CancelRequest(k)
    /\ UNCHANGED <<policy, handler, reply>>

Disconnect(h) ==
    /\ h \in Impatient
    /\ handler[h].pc \notin {"idle", "answered"}
    /\ handler' = [handler EXCEPT ![h].gone = TRUE]
    /\ UNCHANGED <<storeVars, policy, reply>>

Step(h) ==
    \/ Validate(h) \/ Admit(h) \/ Refuse(h) \/ Reserve(h) \/ Reject(h) \/ Route(h) \/ Progress(h)
    \/ Select(h) \/ Start(h) \/ CallFails(h) \/ Completes(h) \/ Opens(h)
    \/ UsageEvent(h) \/ ChunkEvent(h) \/ StreamDone(h) \/ StreamFails(h)
    \/ Complete(h) \/ Settle(h) \/ Fail(h) \/ Backoff(h) \/ Finish(h) \/ Reconcile(h)

Next ==
    \/ \E h \in Handler : \/ BadRequest(h) \/ Step(h) \/ Disconnect(h)
                          \/ \E m \in Sends[h] : Submit(h, m[1], m[2]) \/ Repeat(h, m[1], m[2])
    \/ \E k \in Key : Cancel(k)

Spec == Init /\ [][Next]_vars

\* A running handler takes steps, and a stream that goes on and on is cut by the
\* limit on its length or by the deadline of its lease.
FairSpec == Spec /\ \A h \in Handler : WF_vars(Step(h)) /\ WF_vars(StreamFails(h))

------------------------------------------------------------------------------
(* Properties *)

\* A success told to a client is true: a JSON response and [DONE] are sent only for
\* a request that is, and stays, COMPLETED, and what the client has received, from
\* however many attempts and however it was chunked, is the response the store
\* keeps. A replayed stream is the exception: it carries nothing before [DONE].
Replayed(h) == handler[h].attempt = 0

DoneIsTrue ==
    \A h \in Handler : reply[h].code = 200 /\ reply[h].end \in {"done", "json"} =>
      LET row == requests[keyOf(h)] IN
      /\ row.state = Completed
      /\ reply[h].body = IF Replayed(h) /\ isStream(h) THEN <<>> ELSE row.response

\* An error told to the client that created the request is its end: the request is
\* final, it was not completed and costs nothing, whatever the cancel endpoint did
\* in between, and a failed one is marked partial if the client has seen content.
\* A usage without a price is the exception: that request stays IN_PROGRESS.
ErrorsAreFinal ==
    \A h \in Handler : reply[h].error \notin {"", "invalid", "conflict", "unpriced"} =>
      LET row == requests[keyOf(h)] IN
      /\ row.state \in Final \ {Completed}
      /\ row.cost = 0
      /\ row.state = Failed /\ reply[h].body # <<>> => row.partial

\* What a request costs beyond the estimate at the highest prices its policy admits.
Dearest == Max({0} \cup {CostMicroUSD(Estimate.prompt, Estimate.completion,
                                      InputPrice[x[1]], OutputPrice[x[2]]) : x \in policy \X policy})
Overrun(k) == Max({0, requests[k].cost - Dearest})

\* Spent and reserved amounts stay within the monthly budget, if there is one, as far
\* as providers report no more usage than was estimated, whichever provider a request
\* fails over to: HighestPrices covers them all, and no reservation is lost or forgotten.
BudgetHolds ==
    MonthlyBudget > 0 /\ policy # None =>
      used + sumMap <= MonthlyBudget + Sum([k \in Key |-> Overrun(k)], Key)

\* The in-memory store keeps the promise of RequestLifecycle; it has no outbox, so
\* the facts are those its records imply.
factsOf(row) ==
    CASE row.state = Completed                        -> {"completed", "usage"}
      [] row.state = BudgetRejected                   -> {"exceeded"}
      [] row.state = Failed /\ row.category # ""      -> {"failed"}
      [] OTHER                                        -> {}

Lifecycle == INSTANCE RequestLifecycle WITH
    status <- [k \in Key |-> state(k)],
    facts <- [k \in Key |-> factsOf(requests[k])]
RefinesLifecycle == Lifecycle!Spec

\* Every call of the endpoint is answered: retries, backoff and streams end.
EveryCallAnswered == \A h \in Handler : handler[h].pc # "idle" ~> handler[h].pc = "answered"

------------------------------------------------------------------------------
(* Statements of the documentation, the comments or the tests that this code  *)
(* does not keep; README.md says how each one fails.                          *)

\* docs/failure-modes.md:9: "Client retry reads committed response". A streamed one
\* reads an empty stream (api/gateway.go:108).
StreamIsReplayed ==
    \A h \in Handler : reply[h].end = "done" => reply[h].body = requests[keyOf(h)].response
===============================================================================
