---------------------------- MODULE ServiceProcess ----------------------------
(* One process of the platform from start to exit: app.Serve (internal/app),   *)
(* the readiness probe, the HTTP handlers with their API-key check, the worker *)
(* goroutine of the processes that have one, and the dependencies that are     *)
(* closed on the way out. The database may be down or hang, and the operator   *)
(* uses the admin tool at any time.                                            *)
EXTENDS ApiKeys, Sequences

CONSTANTS Handler,    \* concurrent HTTP requests, one after another on each
          Kind,       \* the processes considered
          Needed      \* the scope of the route that is called

NoProbe == [pc |-> "idle", doubt |-> FALSE]
Idle == [pc |-> "idle", secret |-> None, expired |-> {}, barred |-> FALSE]

VARIABLES kind,       \* which process this is
          main,       \* where the main goroutine is
          ready,      \* health.State
          signalled,  \* SIGTERM has arrived
          late,       \* ShutdownTimeout has passed
          closing,    \* what closeDependencies has still to close
          pool,       \* the PostgreSQL pool
          broker,     \* Kafka, RabbitMQ or Redis client
          cancelled,  \* the worker's context
          database,   \* "up", "down" or "hung"
          handler,    \* HTTP handlers
          probe,      \* the handler of GET /health/ready
          worker      \* the worker goroutine

serveVars == <<main, ready, signalled, late>>
depVars == <<closing, pool, broker, cancelled>>
worldVars == <<keys, kind, database>>
workVars == <<handler, probe, worker>>
vars == <<serveVars, depVars, worldVars, workVars>>

HasWorker == kind \in {"outbox-relay", "audit-consumer", "evaluation-worker"}
HasBusiness == kind \in {"gateway", "evaluation-api"}

Init == /\ InitKeys
        /\ kind \in Kind
        /\ main = "starting" /\ ready = FALSE /\ signalled = FALSE /\ late = FALSE
        /\ closing = <<>> /\ pool = "open" /\ broker = "open" /\ cancelled = FALSE
        /\ database = "up"
        /\ handler = [h \in Handler |-> Idle]
        /\ probe = NoProbe
        /\ worker \in CASE kind = "evaluation-worker" -> {"poll", "failed"}  \* no consumer channel
                       [] HasWorker                  -> {"poll"}
                       [] OTHER                      -> {"none"}

Running == main # "exited"
Listening == main \in {"starting", "run", "draining"}
InFlight == {h \in Handler : handler[h].pc # "idle"}
InPool == \/ \E h \in Handler : handler[h].pc \in {"lookup", "query"}
          \/ worker \in {"query", "cleanup"}

------------------------------------------------------------------------------
(* app.Serve and closeDependencies *)

Start == /\ main = "starting"
         /\ main' = "run"
         /\ ready' = TRUE
         /\ UNCHANGED <<signalled, late, depVars, worldVars, workVars>>

\* The listener fails: the process ends and closes nothing.
ListenFails == /\ main = "run"
               /\ main' = "exited"
               /\ UNCHANGED <<ready, signalled, late, depVars, worldVars, workVars>>

Signal == /\ Running
          /\ ~signalled
          /\ signalled' = TRUE
          /\ UNCHANGED <<main, ready, late, depVars, worldVars, workVars>>

BecomeUnready ==
    /\ main = "run" /\ signalled
    /\ main' = "draining"
    /\ ready' = FALSE
    /\ UNCHANGED <<signalled, late, depVars, worldVars, workVars>>

\* Shutdown closes the listener, then waits for the handlers or the deadline.
CloseListener ==
    /\ main = "draining"
    /\ main' = "shutdown"
    /\ UNCHANGED <<ready, signalled, late, depVars, worldVars, workVars>>

Deadline == /\ main \in {"shutdown", "closing"}
            /\ ~late
            /\ late' = TRUE
            /\ UNCHANGED <<main, ready, signalled, depVars, worldVars, workVars>>

\* The worker is told to stop, but not waited for.
CloseOrderPoolFirst == IF HasWorker THEN <<"pool", "worker", "broker">> ELSE <<"broker", "pool">>
CloseOrder == CASE HasWorker               -> <<"worker", "broker", "pool">>
                [] kind = "evaluation-api" -> <<"broker", "pool">>
                [] OTHER                   -> <<"pool", "broker">>

ShutdownAtOnce ==
    /\ main = "shutdown"
    /\ main' = "closing"
    /\ closing' = CloseOrder
    /\ UNCHANGED <<ready, signalled, late, pool, broker, cancelled, worldVars, workVars>>

ShutdownReturns ==
    /\ main = "shutdown"
    /\ (InFlight = {} /\ probe.pc \notin {"check", "ping", "confirm"}) \/ late
    /\ main' = "closing"
    /\ closing' = CloseOrder
    /\ UNCHANGED <<ready, signalled, late, pool, broker, cancelled, worldVars, workVars>>

Closes(dependency) == main = "closing" /\ closing # <<>> /\ Head(closing) = dependency

StopWorker == /\ Closes("worker")
              /\ cancelled' = TRUE
              /\ closing' = Tail(closing)
              /\ UNCHANGED <<serveVars, pool, broker, worldVars, workVars>>

CloseBroker == /\ Closes("broker")
               /\ broker' = "closed"
               /\ closing' = Tail(closing)
               /\ UNCHANGED <<serveVars, pool, cancelled, worldVars, workVars>>

\* pgxpool refuses new work, then waits until every connection is given back.
ClosePool == /\ Closes("pool")
             /\ \/ pool = "open" /\ pool' = "closing" /\ UNCHANGED closing
                \/ pool = "closing" /\ ~InPool /\ pool' = "closed" /\ closing' = Tail(closing)
             /\ UNCHANGED <<serveVars, broker, cancelled, worldVars, workVars>>

Exit == /\ main = "closing" /\ closing = <<>>
        /\ main' = "exited"
        /\ UNCHANGED <<ready, signalled, late, depVars, worldVars, workVars>>

ServeStep == \/ Start \/ BecomeUnready \/ CloseListener \/ ShutdownReturns
             \/ StopWorker \/ CloseBroker \/ ClosePool \/ Exit

------------------------------------------------------------------------------
(* GET /health/ready *)

ProbeGoes(p) == /\ probe' = p
                /\ UNCHANGED <<serveVars, depVars, worldVars, handler, worker>>

\* An unready process answers at once. doubt: the worker had failed on arrival.
ProbeArrives == /\ Listening
                /\ probe.pc \in {"idle", "ready"}
                /\ ProbeGoes(IF ready THEN [pc |-> "check", doubt |-> worker = "failed"] ELSE NoProbe)

\* readyCheck first loads workerFailed (the gateway and the API have no worker) ...
readyCheck == /\ Running
              /\ probe.pc = "check"
              /\ ProbeGoes(IF worker = "failed" THEN NoProbe ELSE [probe EXCEPT !.pc = "ping"])

\* ... and then pings, for up to two seconds: the gateway Redis, the others PostgreSQL.
PingPasses == IF kind = "gateway" THEN broker = "open" ELSE pool = "open" /\ database = "up"
PingFails == kind = "gateway" \/ pool # "open" \/ database # "up"

Ping == /\ Running
        /\ probe.pc = "ping"
        /\ \/ PingPasses /\ ProbeGoes([probe EXCEPT !.pc = "confirm"])
           \/ PingFails /\ ProbeGoes(NoProbe)

ReadyAsChecked == /\ Running
                  /\ probe.pc = "confirm"
                  /\ ProbeGoes([NoProbe EXCEPT !.pc = "ready"])

\* state.Ready reads the flag again.
Ready == /\ Running
         /\ probe.pc = "confirm"
         /\ ProbeGoes(IF ready THEN [NoProbe EXCEPT !.pc = "ready"] ELSE NoProbe)

------------------------------------------------------------------------------
(* HTTP handlers: authenticate, then the work of the route *)

HandlerGoes(h, r) ==
    /\ handler' = [handler EXCEPT ![h] = r]
    /\ UNCHANGED <<serveVars, depVars, worldVars, probe, worker>>

Expired == {r \in Rows : keys[r].expires = "past"}
Barred(secret) == \E r \in Rows : keys[r].secret = secret /\ (keys[r].revoked \/ r \in Expired)

\* The clock is read on arrival; barred is history.
Arrive(h) ==
    /\ Listening /\ HasBusiness
    /\ handler[h].pc = "idle"
    /\ \E s \in Secret :
         HandlerGoes(h, [pc |-> "verify", secret |-> s, expired |-> Expired, barred |-> Barred(s)])

\* A query takes a connection of the pool, or fails at once.
Query(h, from, to) ==
    /\ Running
    /\ handler[h].pc = from
    /\ HandlerGoes(h, IF pool = "open" THEN [handler[h] EXCEPT !.pc = to] ELSE Idle)

\* Any error of the lookup is answered 401.
authenticate(h) ==
    /\ Running
    /\ handler[h].pc = "lookup"
    /\ database # "hung"
    /\ HandlerGoes(h, IF /\ database = "up"
                         /\ Verify(handler[h].secret, handler[h].expired)
                         /\ RequireScope(handler[h].secret, Needed)
                      THEN [handler[h] EXCEPT !.pc = "business"] ELSE Idle)

\* The route's queries, one or several, end in an answer.
QueryEnds(h) ==
    /\ Running
    /\ handler[h].pc = "query"
    /\ database # "hung"
    /\ \/ database = "up" /\ HandlerGoes(h, [handler[h] EXCEPT !.pc = "business"])
       \/ HandlerGoes(h, Idle)

\* The request context ends with the client, and with it a query that hangs.
ClientLeaves(h) ==
    /\ Running
    /\ handler[h].pc \in {"lookup", "query"}
    /\ HandlerGoes(h, Idle)

HandlerStep(h) == Query(h, "verify", "lookup") \/ authenticate(h) \/ Query(h, "business", "query") \/ QueryEnds(h)

------------------------------------------------------------------------------
(* The worker goroutine: Relay.Run, Consumer.Run or the loops of Worker.Run *)

WorkerGoes(w) == /\ worker' = w
                 /\ UNCHANGED <<serveVars, depVars, worldVars, handler, probe>>

\* Run returns nil when its context ends while it waits. The relay waits for a timer,
\* the others for the broker, whose failure is an error of the audit consumer.
Poll == /\ Running
        /\ worker = "poll"
        /\ \/ cancelled /\ WorkerGoes("stopped")
           \/ (kind = "outbox-relay" \/ broker = "open") /\ WorkerGoes("work")
           \/ kind = "audit-consumer" /\ ~cancelled /\ WorkerGoes("failed")

\* An error of the work ends the consumer, and the relay unless its context has ended;
\* the evaluation worker deals with it and goes on.
AfterError == CASE kind = "evaluation-worker"           -> "record"
                [] kind = "outbox-relay" /\ cancelled -> "poll"
                [] OTHER                               -> "failed"

Work == /\ Running
        /\ worker = "work"
        /\ WorkerGoes(IF pool = "open" /\ ~cancelled THEN "query" ELSE AfterError)

\* The relay records a publication that fails.
WorkQueryEnds ==
    /\ Running
    /\ worker = "query"
    /\ \/ database = "up" /\ ~cancelled /\ WorkerGoes("poll")
       \/ database = "up" /\ kind = "outbox-relay" /\ WorkerGoes("record")
       \/ (database = "down" \/ cancelled) /\ WorkerGoes(AfterError)

\* MarkFailed and FailEvaluation run without the worker's cancellation, and their errors
\* are ignored; the latter is left out when the job cannot be put on the retry queue.
Record == /\ Running
          /\ worker = "record"
          /\ \/ pool = "open" /\ WorkerGoes("cleanup")
             \/ (pool # "open" \/ kind = "evaluation-worker") /\ WorkerGoes("poll")

RecordEnds == /\ Running
              /\ worker = "cleanup"
              /\ database # "hung"
              /\ WorkerGoes("poll")

WorkerStep == Poll \/ Work \/ WorkQueryEnds \/ Record \/ RecordEnds

------------------------------------------------------------------------------
(* The world around it *)

DatabaseChanges == /\ Running
                   /\ \E d \in {"up", "down", "hung"} : database' = d
                   /\ UNCHANGED <<serveVars, depVars, keys, kind, workVars>>

\* Keys matter to the processes that verify them.
Admin == /\ Running /\ HasBusiness
         /\ \/ \E s \in DevSecret : Seed(s)
            \/ \E id \in KeyID, s \in Secret, scope \in Scope : createAPIKey(id, s, scope)
            \/ \E id \in KeyID : revokeAPIKey(id) \/ Expire(id)
         /\ UNCHANGED <<serveVars, depVars, kind, database, workVars>>

Next == \/ ServeStep \/ ListenFails \/ Signal \/ Deadline
        \/ ProbeArrives \/ readyCheck \/ Ping \/ Ready
        \/ \E h \in Handler : Arrive(h) \/ HandlerStep(h) \/ ClientLeaves(h)
        \/ WorkerStep
        \/ DatabaseChanges
        \/ Admin

Spec == Init /\ [][Next]_vars

\* Goroutines that can go on do, timers fire; nothing is assumed of the database,
\* the clients, the operator and the signal.
FairSpec ==
    /\ Spec
    /\ WF_vars(ServeStep) /\ WF_vars(Deadline)
    /\ WF_vars(readyCheck) /\ WF_vars(Ping) /\ WF_vars(Ready)
    /\ \A h \in Handler : WF_vars(HandlerStep(h))
    /\ WF_vars(WorkerStep)

------------------------------------------------------------------------------
(* Properties *)

\* Dependencies are closed under a running HTTP handler only when it has outlasted
\* the shutdown timeout: until then every request still has its store.
DrainedBeforeClose == main = "closing" /\ InFlight # {} => late

\* The probe says ready only while the process takes work: not once shutdown has
\* begun, however long the dependency check took, and not if its worker had failed when
\* the probe arrived. A worker that fails after readyCheck has loaded its flag, during
\* the ping or later, is still reported ready by this probe; the next one sees it.
ReadyMeansWorking ==
    [][probe.pc # "ready" /\ probe'.pc = "ready" => main = "run" /\ ~probe.doubt]_vars

\* A request with a key that was revoked or expired when it arrived never gets past
\* authentication, whatever seed, create and revoke do meanwhile.
RevokedKeysStayOut ==
    \A h \in Handler : handler[h].pc \in {"business", "query"} => ~handler[h].barred

\* A query in a database that hangs which no deadline and no cancellation ends.
Stuck == /\ database = "hung"
         /\ \/ \E h \in Handler : handler[h].pc \in {"lookup", "query"}
            \/ worker = "cleanup"

\* After SIGTERM the process exits, unless such queries keep it from closing the pool.
ProcessExits == <>[]~Stuck => (signalled ~> main = "exited")

------------------------------------------------------------------------------
(* Statements of the documentation, the comments or the tests that this code  *)
(* does not keep; README.md says how each one fails.                          *)

\* docs/failure-modes.md:20: "HTTP drains, polling stops, dependencies close". Nobody
\* waits for the worker that was told to stop (app/run.go:76).
PollingStopsFirst == broker = "closed" /\ HasWorker => worker \in {"stopped", "failed"}

\* docs/failure-modes.md:19: "PostgreSQL unavailable | Services become unready". The
\* gateway's check does not ask PostgreSQL (cmd/gateway/main.go:77).
ReadyMeansDatabase ==
    [][probe.pc = "ping" /\ probe'.pc = "confirm" => database = "up"]_vars
===============================================================================
