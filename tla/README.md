# A TLA+ model of the Aegis AI platform

This directory models the parts of the repository that decide whether a request
is executed once, charged once, recorded once and ends. TLC checks the modules on
small instances; TLAPS proves the most important statements for every instance.
`PROJECT.json` lists components, runs, mutants, findings, hazards and theorems,
and maps every definition to the lines of source it stands for.

## The system

| Part | Source | Module | Kept state |
| --- | --- | --- | --- |
| Request state machine | `internal/request/request.go` | `RequestStates`, `RequestLifecycle` | status, facts |
| Gateway service | `internal/gateway/service.go` | `GatewayService` | rows in PostgreSQL, locals of each `execute` |
| Store | `internal/persistence/{postgres,audit,evaluation}.go` | in the module that calls each transaction | tables |
| Budget arithmetic | `internal/budget/budget.go` | `Budget`, `BudgetArithmetic` | none (pure) |
| Budget reservations, usage ledger | `postgres.go` `ReserveBudget`, `ReconcileBudget` | `BudgetLedger` | reservations, ledger, row lock |
| Router and leases | `internal/routing/router.go` | `Router` | semaphores, counters |
| Circuit breaker | `internal/circuitbreaker/breaker.go` | `CircuitBreaker` | state, failures, probes |
| Rate limiter | `internal/ratelimit/redis.go`, `Service.admit` | `RateLimiter` | Redis counters and their expiry |
| Outbox relay | `internal/outbox/outbox.go`, `internal/kafka/kafka.go` | `EventPipeline` | outbox rows, claims, batches |
| Audit consumer | `internal/kafka/consumer.go`, `internal/persistence/audit.go` | `EventPipeline` | partition, offset, markers, effects |
| Evaluation API and worker | `internal/evaluationjob/service.go`, `internal/rabbitmq/rabbitmq.go` | `EvaluationJobs` | jobs, results, three queues |
| Publisher confirms | `rabbitmq.go` `Manager.Publish` | `PublisherConfirms` | mutex, confirmation channel |
| In-memory store | `internal/persistence/memory.go` | `MemoryStore` | records, attempts, reservations, use |
| Chat and cancel endpoints, provider adapters | `internal/api/gateway.go`, `internal/provider/*.go` | `ChatEndpoint` | locals of each call, what its client received |
| API keys, administration tool | `internal/auth/apikey.go`, `cmd/admin-cli/main.go` | `ApiKeys` | rows of `api_keys` |
| Process lifecycle, health, authentication | `internal/app/run.go`, `internal/health/health.go`, `cmd/*/main.go` | `ServiceProcess` | main, probe, handlers, worker, dependencies |
| Evaluators | `internal/evaluation/evaluation.go` | `Evaluators` | none (pure) |
| Configuration, metrics, tracing, other tools | `internal/config`, `internal/observability`, ... | not modelled, see the end | |

How they interact: an HTTP handler calls `Service.execute`, which asks the limiter
for permits, reserves budget, leases a provider from the router, calls it, and
commits the outcome together with outbox facts. Relays move the facts to Kafka,
consumers turn them into audit entries and charges, and the charges are what the
next reservation is measured against. Evaluations of finished requests go through
RabbitMQ to workers, which commit results and facts of their own.

The modules meet at promises. `RequestLifecycle` is what the store promises about a
request, and `GatewayService` is shown to implement it. `FactDelivery` is what the
pipeline promises (each committed fact takes effect at most once, after its
commit): `EventPipeline` is shown to implement it, and `BudgetLedger` is built on
it instead of on the pipeline. `Router` is built on `CircuitBreaker`. `ChatEndpoint`
composes the HTTP answer, `Service.execute`, the provider's event stream and
`MemoryStore` (the gateway as it runs with `AEGIS_DEV_MEMORY` and in its tests), and
is shown to implement `RequestLifecycle` as well: the two stores keep one promise.
`ServiceProcess` composes `app.Serve` with the handlers, `ApiKeys` and the worker. In
`GatewayService` the router appears as "leases some provider not tried yet, or
none", the limiter as "grants or refuses", and the budget as "reserves or is
exceeded": each is any answer the detailed module can give.

## How the code became actions

An action is one call to a store, broker, cache or provider, together with the
local code up to the next such call. What is local to a Go routine (its program
counter and variables) is a function over the routines.

- **Calls.** A call answers `ok`, `error` (nothing happened) or `lost` (it happened,
  the caller is told it failed). `error` and `lost` are bounded by `MaxFaults`.
  A call made with the request's context fails once the client is gone
  (`gone[h]`); one made with `context.WithoutCancel` does not.
- **Transactions** are one step, because PostgreSQL makes them one. The exception
  is `ReserveBudget`, whose `SELECT ... FOR UPDATE` is a step of its own in
  `BudgetLedger`, so that the lock can be dropped in a mutant.
- **Conditional updates** (`WHERE status = from`) are the operators `Matches`,
  `Commits` and `Confirms`.
- **Time** is abstract: a claim "expires", a breaker has ages that `Tick`
  increases, a Redis key has an age, a day passes.
- **Payloads, texts and IDs** are model values. A payload stands for its canonical
  hash, so SHA-256 is taken to be injective. Provider latencies are "any order".
- **Left out**: logging, metrics, JSON, HTTP headers.

Choices worth knowing:

- `GatewayService`: `RejectBudget`, `FailAttempt`, `Finish` and `ReconcileBudget` run
  without the request's context, the rest with it. Errors that the code drops
  (`_ = ...`) do not change control. A usage that `CostMicroUSD` rejects ends
  `execute` with outcome `unpriced` and no settlement.
- `EventPipeline` has one tenant and therefore one partition. An error ends
  `Relay.Run` or `Consumer.Run` (`stopped`) while the process and its group
  membership go on, as in `cmd/outbox-relay` and `cmd/audit-consumer`. The
  rows that `UPDATE ... RETURNING` gives come in any order.
- `Router`: filter, breaker, semaphore and outstanding counter are separate steps,
  because `Select` and `release` hold no lock across them. `least_outstanding` sorts one snapshot of the counters,
  while Go's comparison re-reads them as it sorts.
- `EvaluationJobs`: a queue is how often it holds each message, without an order, and
  RabbitMQ may requeue any unacknowledged delivery. A process has one `Manager`:
  `ManagerPublish` is what `PublisherConfirms` says of `Publish`, in one step. A
  message the broker has not decided on counts as what it will decide. The broker
  accepts or refuses the message, or the channel breaks with the message kept or lost,
  and stays broken until the process is started again. The caller takes the oldest unread confirmation for its own,
  or stops waiting and leaves its confirmation to the next. So success does not imply
  that the message is queued, and the jobs depend on that: see `WorkIsNotLost` below.
  A worker's context ends only when its process is told to stop; in the model a worker
  that stopped waiting may also go on, which allows more than the code does.
- `PublisherConfirms`: unread confirmations are an unbounded sequence. The Go channel
  has room for one (`rabbitmq.go:67`); the library holds the next ones back and
  delivers them in order, so the callers read the same sequence.
- `ChatEndpoint` follows one call from the decoded body to the last byte of the
  answer. A chunk of content is known by the attempt that sent it, a body by its
  hash and whether it asks for a stream. `reply[h]` is what the client has received.
  An empty delta starts the event stream without content, a chunk beyond
  `MaximumStreamBytes` ends it, and a write to a client that has gone may fail. The
  mock provider returns bare context errors, the adapter wraps them. A handler
  forgets its locals when it answers, except the request it was for. Two errors that
  no input of a validated request reaches are left out: `CostMicroUSD`'s at the
  reservation (`service.go:133`), and `CanReserve`'s for negative amounts, which is
  folded into "exceeded".
- `MemoryStore`: every method is one step because of its mutex, none looks at its
  context, and only a final `FailAttempt` writes.
- `ServiceProcess`: `kind` selects one of the commands. An error ends the loop of the
  relay and of the audit consumer; the evaluation worker goes on. Relay and
  evaluation worker record failures with a context that is not cancelled. `pgxpool`'s `Close`
  refuses new queries and waits for the running ones. The database is up, down
  (queries fail) or hung (they end only with their context). A readiness check loads
  `workerFailed` and then pings, in two steps: a worker may fail in between, and this
  probe does not notice. The listener fails only
  without closing anything, as `Serve` returns at once.
- `ApiKeys`: time passes as `Expire`; `Verify` compares with the clock that was read
  before the lookup. `seed` rewrites hash and prefix of its row and nothing else.
- `Evaluators`: the ratio test `repeatedRatio(words) > 0.6` is written in integers. The
  quotient of two small integers exceeds the double nearest to 0.6 exactly when it
  exceeds three fifths.
- `RateLimiter`: a call may take any time. The concurrency key lives two minutes after
  the last admission; an execution is three provider calls of at most 30 s plus backoff
  with the default configuration, and its database calls have no timeout, so a
  counter can expire under a call. `overrun` remembers the buckets on which that may have happened. The
  client of `cmd/gateway/main.go:54` keeps go-redis' default of repeating a command
  whose answer it did not get, so either script may run more than once
  (`AskRetried`, `ReleaseRetried`).

## Runs

| Run | Module | Distinct states | Shows |
| --- | --- | --- | --- |
| `gateway` | `MCGateway` | 60 thousand | all safety properties of `execute`, refinement of `RequestLifecycle`, return and settlement |
| `endpoint` | `MCEndpoint` | 64 thousand | what clients are told is what is stored, budget across failover, refinement, every call answered |
| `process` | `MCProcess` | 384 thousand | draining, readiness, barred keys, exit |
| `pipeline` | `MCEventPipeline` | 254 thousand | exactly-once effects, no lost fact, refinement of `FactDelivery`, facts take effect |
| `router` | `MCRouter` | 293 thousand | slots, probes, readmission |
| `evaluation` | `MCEvaluation` | 592 thousand | status has evidence, the one way to lose work, jobs settle |
| `confirms` | `MCPublisherConfirms` | 2 thousand | own confirmation, return |
| `arithmetic` | `MCArithmetic` | 26 thousand | exact admission and cost on three-bit integers, evaluator scores |
| `ledger` | `MCBudgetLedger` | 260 thousand (symmetric) | concurrent reservations stay within the limits |
| `limiter` | `MCRateLimiter` | 90 thousand | counters cover permits and when they do not, no leak, room again |
| `confirms_cancelled` | `MCPublisherConfirms` | violated | see *Disagreements* |
| `ledger_overspend` | `MCBudgetLedger` | violated | see *Disagreements* |

Every property of a passing run has a mutant in `PROJECT.json`: a variant of one
definition, with a bug the code could have had, for which the property fails.

### The properties

*Gateway.* `SingleExecutor`: duplicates of one idempotency key never run twice.
`FactsMatchStatus`: the outbox holds exactly the facts of the status, so a request
is charged once and only when COMPLETED. `OneSuccessfulAttempt`: COMPLETED exactly
when one attempt SUCCEEDED, also when a cancellation races the completion.
`AttemptsInOrder`, `RowInv`: attempt rows follow the loop, no provider is tried
twice, no attempt follows the last or the first streamed content. `NoCapacityLeak`:
every return gives lease and permits back. `ReportedSuccessIsDurable`: a success
that a client saw stays.
`HandlersReturn`, `RequestSettles`, `ReservationReleased`: every `execute` returns; a
request becomes final, and its reservation is released, unless it was disturbed
(a store fault or crash, a disconnect, an unpriced usage) or, for the
reservation, cancelled.

*Pipeline.* `EffectsAreAtomic`, `PublishedIsInLog`, `OffsetFollowsEffects` and
`RefinesDelivery` under any two faults; `FactsTakeEffect` unless every relay, or the
partition's consumer, has returned on an error.

*Endpoint.* `DoneIsTrue`: a JSON response or `[DONE]` is sent only for a request that is
COMPLETED and stays so, and the client received exactly what the store keeps.
`ErrorsAreFinal`: an error told to the client that created a request means that it
is final, not COMPLETED, free of charge, and marked partial if content was seen;
cancellations race every step. `BudgetHolds`: use and reservations exceed the budget
by no more than what providers report beyond the estimate, also after failover to
a dearer one (a limit of 0 means no budget). `RefinesLifecycle`, `EveryCallAnswered`.

*Process.* `DrainedBeforeClose`: a running handler loses its dependencies only after
the shutdown timeout. `ReadyMeansWorking`: no probe says ready after shutdown began,
however long its check took, or when the worker had failed before the probe arrived. A
worker that fails after the check has loaded its flag, during the ping of up to two
seconds, is still reported ready once (`cmd/evaluation-worker/main.go:47`).
`RevokedKeysStayOut`: a key that was revoked or expired when a request arrived lets
nothing through, whatever `seed`, `create-api-key` and `revoke-api-key` do meanwhile.
`ProcessExits`: after SIGTERM the process exits, unless a query that hangs and that no
context ends keeps the pool open.

*Router.* `SlotsAreLeases` (semaphore and outstanding counter each count their calls,
although they change at different times), `ProbesHaveOwners`, `ProvidersReadmitted`.

*Evaluation.* `StatusHasEvidence`. `WorkIsNotLost`: a queued job has a result, a message
in a queue or with a connected worker, or it is `misled`: `Publish` took an acknowledgement
that belongs to an earlier message for that of one the broker did not accept (the
disagreement of `confirms_cancelled`). Such a job can be stuck for good: its row says
QUEUED, there is no message, and `Retry` refuses a QUEUED job; or a worker has
acknowledged the original and its copy does not exist. The second conjunct says that
nobody is misled before some caller has stopped waiting. `JobsSettle`: a queued job that is
not misled gets a result or a dead-lettered message, while one worker consumes.
*Confirms.* `OwnConfirmation`, `CallersReturn`.

*Arithmetic.* `AdmissionIsExact`, `CostIsLeastCover`; `ScoresAreSound`: status and score of
each evaluator agree with its findings at every boundary. *Ledger.*
`ReservationsWithinLimits`. *Limiter.* `CounterCoversPermits`: a bucket counts at least the
permits held on it, and no others while nothing has failed. Two things can make it
count too few: a counter that expired under a running call, whose release then takes
the place of another, and a release that ran twice. The property excuses the buckets
that this happened to (`overrun`) until nobody holds a permit of them: the damage stays
in the bucket and ends with the calls. `RoomAgain`: one place is free again and again. Not
all of them: each admission renews the key, so under steady traffic a lost permit
stays counted.

The `TypeOK` of the other modules documents their types; only the one of
`GatewayService` is listed in a run, because its proof is listed too.

### Bounds, and why they are enough

- `gateway`: one key and two handlers give every race between an executing and a
  repeating submission (handlers of different keys share no row); two payloads, one
  streamed, give conflict and replay; two attempts over three providers give a
  first, a last and a retried attempt; one fault or crash, one disconnect and one
  cancellation may all strike one execution.
- `pipeline`: two facts (one charges) in batches of two give a partly failed batch;
  two relays and two consumers give expired claims and rebalances; two faults
  give a fault during the recovery from another.
- `endpoint`: both handlers may send the first key, plain or streamed, so that
  conflict, replay and execution meet; the second may instead send a key of its own,
  so that two reservations compete for a budget that holds one and a half. Two
  attempts over a cheap and a dear provider give failover to the dearer one; two
  chunks of at most two give an empty, a partial, a full and an excessive stream. A
  usage is the estimate, more than it, or has no price. The first client may leave,
  the first request may be cancelled.
- `process`: one handler that serves request after request, since handlers share
  only the pool; the development key with two secrets of one prefix, and a
  generated one; all five kinds of process, and any changes of the database.
- `router`: two calls and one slot each contend for slot and probe; a lease frees its
  slot before it reports, so late reports happen with one slot; threshold two
  makes the window matter; a clock may be read one tick before it is used.
- `evaluation`: one job (jobs share the queues and the publishers; a confirmation left by
  another job's publication is one left by an earlier one of the same), two
  attempts, two commands of two API calls, two workers, three faults. Two of them
  mislead a caller: one stops waiting, the next message is refused.
- `confirms`: four publications by three callers. `limiter`: two calls, two permits
  and three faults, enough to lose every permit of a bucket and one more; a call that
  crashed leaves its permit behind and starts again, which stands in for a third. `ledger`: three requests,
  three days and a month end.
- `arithmetic`: all three-bit arguments; the theorems cover every width. Answers
  have up to ten words over two, which has both sides of the three-fifths boundary
  at every length from eight; up to five findings take a score below zero.

Symmetry is used only in runs that check no liveness. Deadlock is checked for
`router` and `limiter`, which never stop; in the others all work may be done.

### Fairness

Only steps that the program or its runtime is bound to take are fair, each weakly:
a running `execute` (`Step`): store calls answer or fail, a lease's timeout ends each
provider call, the backoff timer fires; a polling relay and a consumer loop; the
passing of time that makes a delayed or abandoned row claimable; a running
`Select`, the end of a provider call, and the clock; workers and the
retry queue's TTL (an API call may stop anywhere); the broker's answers while a channel is open. In `ChatEndpoint` a
stream's end is fair on its own, since the lease's timeout ends a stream that only
sends empty events. In `ServiceProcess` goroutines that can run and the shutdown timer
are fair; the database, clients, the signal and the operator are not. Arrivals,
cancellations, disconnects, faults, crashes and rebalances are never fair. A
`stopped` relay or consumer and a closed channel are not assumed to come back,
since nothing in the code restarts them.

## Proofs

Every theorem is proved for all values of the constants: any sets of handlers, keys,
relays, workers and so on, and any bounds. Each safety proof has one shape: an
inductive invariant, which TLC checked on the small instance before it was proved; one
lemma per action that the action preserves it; and theorems that read the property off
it. Only the assumptions named below are used; TLC evaluates each of them in the run
of its module.

**`GatewayProofs`** (`GatewayAssumption`: at least one attempt, `None` is no provider, key,
payload or state).

- `TypeCorrect`: `Spec => []TypeOK`. Not inductive by itself, because `attempt` could
  pass `MaxAttempts`. `LoopInv` says where in the loop which counter values occur
  and that an executing handler's row exists; `TypeOK /\ LoopInv` is inductive.
- `OneExecutor`: `Spec => []SingleExecutor`. A handler starts to execute only by
  inserting a row that was absent; with `LoopInv`, a row that somebody executes
  exists. That rows never disappear is lemma `RowsStay`.
- `FactsAgree`: `Spec => []FactsMatchStatus`. Lemma `RowSteps` reduces every action
  to what it does to one row (`RowStep`): a status change with its facts, or
  nothing; the facts follow from that by cases.
- `Refinement`: `Spec => RefinesLifecycle`. `RowStep` maps each step to a step of
  `RequestLifecycle`, or to a stutter.
- `RowsAgree`, `SuccessIsUnique`, `RetriesAreSafe`: `RowInv`, `OneSuccessfulAttempt` and
  `AttemptsInOrder`. The three are inductive only together: `RowInv` says where the
  executor of a request stands, the other two say what its rows look like when nobody
  executes it any more. `AttemptInv` is their conjunction; that the rows of a request are
  changed by its executor alone is `OwnRows`.
- `CapacityReturned`, `SuccessIsDurable`: `NoCapacityLeak` and `ReportedSuccessIsDurable`,
  from `ReturnInv`: which program points may hold a lease, permits or an outcome.

**`PipelineProofs`** (`PipelineAssumption`: batches are not empty, usage facts are facts, `None` is
none of the actors and facts). `PipelineInv` adds to the three invariants what each actor
relies on: what a relay holds or the log contains was committed, the row that a relay is about to
mark is in the log, and a consumer has applied all that precedes the entry it works on,
even when a rebalance has set its position back meanwhile. From it follow
`ChargedOnce` (`EffectsAreAtomic`), `NothingDropped` (`PublishedIsInLog`), `NothingSkipped`
(`OffsetFollowsEffects`) and `DeliveryRefinement` (`RefinesDelivery`): each step maps to a
commit or an effect of `FactDelivery`, or to a stutter.

The module also proves `ReservationsFit` (`ReservationsWithinLimits`) of the ledger, with
`LedgerAssumption`: limits and amounts are machine integers. Its
invariant says what the row lock is for: between check and insert the checked amount
still fits (`InsertInv`), because only the holder inserts and all others only take reservations out.

**`EndpointProofs`** (`EndpointAssumption`: policies are sets of providers or absent,
clients send known keys). `EndpointInv` says of a running call: the state of its record is
the one its program point expects, or CANCELLED; the client has been sent what the
attempt has produced, and nothing before the stream; no other call runs its request
(`OneOwner`). Of a call that has answered it says that the answer is true of the record, and
the steps of all others are shown to leave it so. `SuccessIsTrue` (`DoneIsTrue`), `FailureIsFinal` (`ErrorsAreFinal`) and
`MemoryRefinement` (`RefinesLifecycle`, now of the in-memory store) follow.

**`SpendingProofs`** (in addition `PriceAssumption`: keys and providers are finite, and prices, usage,
estimate and budget are machine integers) extends `EndpointProofs` with the budget: `BudgetKept`
(`BudgetHolds`). It needs a second invariant, `Money`. `BudgetHolds` is not inductive: a
completed request has its cost in the record before `ReconcileBudget` has it in the books, and
nothing in it says that a call still has its reservation. `Money` says that a call
keeps a reservation of at least `Dearest`, the estimate at the highest prices of its policy
(`DearestIs`), until it settles, that it settles what the record says, and that the bound
holds even without the requests that are about to settle (`Settling`). `OneOwner`
keeps the calls from touching each other's reservations. Most steps neither reserve nor
pay (`Still`, and the lemmas that use it, in `EndpointProofs`); `ReserveMoney`, `CompleteMoney`
and `ReconcileMoney` are about the others.

**`ProcessProofs`** (`KeyAssumption`: the development secrets are secrets, and no row is
`None`). `RequestsDrain` (`DrainedBeforeClose`), `ReadyIsTrue` (the action property
`ReadyMeansWorking`; `ProbeInv` ties the flag and the doubts of a probe to the main routine
and the worker) and `RevocationHolds` (`RevokedKeysStayOut`). The last rests on `StillBarred`:
the row that barred a secret goes on barring it. For a generated secret that row is never
given another secret; the development row may be, by `seed`, but no other row holds a
development secret and `seed` does not lift a revocation.

The module also holds the proofs about the rate limiter (`LimiterAssumption`: a call asks distinct
buckets, at least one, and limits and lifetimes are positive; nothing is assumed of how long
a call takes): `LimitsHold` (`LimiterTypeOK`: no counter passes its limit) and
`PermitsCounted` (`CounterCoversPermits`). `LimiterInv` adds that a call holds exactly the
permits of the buckets it has asked so far, in order, so that the next one is new, and
that the counter of a held permit is younger than the hold (`Fresh`), so that it cannot have
expired under it, unless the bucket is overrun.

**`JobsProofs`** (`JobsAssumption`: at least one attempt, `None` is no job or message). `JobsTyped`
(`TypeOK`), `EvidenceCommitted` (`StatusHasEvidence`) and `NoWorkLost` (`WorkIsNotLost`). The last is not
inductive: a worker on its way to an acknowledgement still holds its message but no
longer keeps the job. `Safe` says that a job that somebody relies on (its status, a worker
that holds it, an API call that has published it) is kept by a result, by a queue, or by a
worker that is not on that way, or is misled. `PublisherSide` says that an unread confirmation
was left by a caller that gave up, so that nobody is misled before. `OwnConfirmationRead` (`OwnConfirmation`) is about the publisher
(`ConfirmsAssumption`: `Nobody` is no caller and no tag). `ChannelInv` lines up the unread
confirmations with the publications: the first `d` are decided, the first `k` of the
decisions are read (`Places`). An acknowledgement that is still unread although its caller has
returned belongs to, or comes after, one whose caller was told of a failure (`Wronged`); so does a success the broker has
not confirmed. The two need each other: a read of an old confirmation turns the first
into the second, a late answer of the broker the second into the first.

**`RouterProofs`** (`RouterAssumption`: registered providers are distinct, `None` is none of them, the
limits are positive; `BreakerAssumption`). `SlotsCounted` (`SlotsAreLeases`, each counter by itself) and `ProbesOwned`
(`ProbesHaveOwners`). `RouterInv` adds that a call holds no lease while it selects and that a
breaker counts probes only while half-open. What each breaker method does to the count is
proved first (`AllowProbe`, `ReleaseProbe`, `OutcomeProbe`, `OlderProbe`); the steps of `Select` and of a lease
then add, keep or remove one owner, whatever the order of the candidates: nothing is
assumed of the strategies.

**`BudgetProofs`** (`BudgetAssumption`), for every word size and price unit:
`CanReserveExact` and `AdmissionExact` (no difference wraps, so admission is the exact
comparison), `CostLeastCover` (a returned cost is the least cover), and
`ReservationCovers` (a reservation for at least the tokens at at least the prices
of a call covers its cost, the reason `HighestPrices` suffices). The
other modules need that a sum grows by the amount that is added, shrinks with its set and
grows with its amounts. These are
inductions over finite sets; the library's induction theorems cannot be instantiated here, so
they are done by a least counterexample (`Induct`, from the well-foundedness of strict
inclusion): first that the recursion behind `MapThenSumSet` has a solution (`FoldExists`), then that
the order of summation does not matter (`SumMember`).

Only model-checked:

- all liveness properties: the prover has no fairness and no ENABLED;
- `ScoresAreSound`, a comparison of folds over sequences of words.

## Disagreements between code and documentation

Two have a run that shows the counterexample:

- **Borrowed confirmations** (`confirms_cancelled`). A caller whose context ends leaves
  its confirmation in the Go channel; the next `Publish` takes it for its own.
  `rabbitmq.go:97`: "Publish waits for broker acknowledgement before returning success."
  What this does to the jobs is the `misled` case of `WorkIsNotLost`.
- **The remainder spent twice** (`ledger_overspend`). A reconciled reservation leaves
  the sums at once; its cost arrives with the usage fact, later. `data-model.md:41`:
  "preventing concurrent requests from spending the same remainder."

The modules state twelve more such sentences, under the heading "Statements of the
documentation ... that this code does not keep". They are not part of the runs.
Each one fails when it is added as INVARIANT (`CancelReleasesReservation`,
`CompletedIsFinal` and `ReadyMeansDatabase`: as PROPERTY) to the configuration named
here:

| Statement | Configuration | How it fails |
| --- | --- | --- |
| `CancelReleasesReservation` | `gateway` | `CancelRequest` changes the status only; the handler's next conditional update fails and it returns before `ReconcileBudget` (`postgres.go:294`; `data-model.md:41`: "releases unused reservation") |
| `PendingIsRunning` | `gateway` | a repeat of a FAILED, CANCELLED or BUDGET_REJECTED request is returned as pending (`service.go:103`; its line 64 speaks of "a repeated request still in progress") |
| `BreakerBlamesProviders` | `gateway` | a disconnect looks like a transport fault and is reported to the breaker (`service.go:188`; `router.go:210`: "only for provider faults") |
| `TimeoutIsRetried` | `gateway` | a deadline before output is classified as not retryable (`openai.go:189`; `failure-modes.md:7`: "Bounded retry") |
| `TenantOrder` | `pipeline` | a row whose publish failed is overtaken by the tenant's next one (`outbox.go:126`; ADR 0001:12) |
| `OneCompletionFact` | `evaluation` | a redelivery after the commit writes a second fact (`evaluation.go:216`; `interview-story.md:9`) |
| `CompletedIsFinal` | `evaluation` | a redelivery that cannot read its source turns COMPLETED into FAILED (`evaluation.go:233`; `data-model.md:55`) |
| `DeadLetterRecorded` | `evaluation` | `FailEvaluation` fails, is ignored, and the message is dead-lettered all the same (`rabbitmq.go:263`; `failure-modes.md:16`) |
| `ProbeLimit` | `router` with three calls and two slots | a call admitted before the breaker opened gives back another's probe (`breaker.go:106`; `breaker_test.go:20`) |
| `StreamIsReplayed` | `endpoint` | the replay of a streamed request is `[DONE]` without content (`api/gateway.go:108`; `failure-modes.md:9`: "Client retry reads committed response") |
| `PollingStopsFirst` | `process` | the broker client is closed while the worker that was told to stop is still at work (`app/run.go:76`; `failure-modes.md:20`) |
| `ReadyMeansDatabase` | `process` | the gateway's check pings Redis only (`cmd/gateway/main.go:77`; `failure-modes.md:19`: "Services become unready") |

Two more follow from the properties. A request refused by the rate limiter is FAILED
under its idempotency key (`ErrorsAreFinal`), so the retry that the `Retry-After` header
of the answer invites is answered 202 and never executed. And the escape in
`ProcessExits` is a real one: `closeDependencies` is given the shutdown deadline and
`postgres.Close()` does not take it, so that a query that hangs outlasts the grace
period of `interview-story.md:135`.

Two liveness statements of the documentation hold only with the escape stated in
the properties: a consumer or relay that returned on an error
(`FactsTakeEffect`, `consumer.go:60`, `outbox.go:107`) and a worker whose channel was
closed (`JobsSettle`, `rabbitmq.go:209`) do not recover when their dependency does,
although `docs/load-testing.md:30` speaks of "backlog recovery after dependencies
return".

## Not modelled

- Reading of configuration, logging, metrics, tracing, `cmd/healthcheck` and
  `cmd/mock-provider`: I/O without state that any statement above depends on.
- The text side of the HTTP API and the evaluators: decoding and validation of bodies
  (a body that is refused is `BadRequest`), middleware, problem documents, patterns and
  masking. Read-only routes change nothing.
- Status codes of the evaluation routes; what those routes do to the jobs is in
  `EvaluationJobs`, and their authentication in `ServiceProcess`.
- `admin-cli` beyond API keys: tenants, limits and providers are constants of the modules.
- The database schema, except for the constraints that the code relies on.
- One composition of limiter, router and gateway: the product is out of TLC's
  reach. `GatewayService` and `ChatEndpoint` allow every answer of the other two, and
  `NoCapacityLeak` is the part of the contract that the gateway owes them.

## Plan

Done: request states, gateway, pipeline, router, evaluation and confirms, budget,
limiter; then the in-memory store with the endpoint, API keys with the process
lifecycle, and the evaluators.
