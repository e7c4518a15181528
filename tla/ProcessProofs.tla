---------------------------- MODULE ProcessProofs ----------------------------
(* What ServiceProcess keeps, for any number of HTTP handlers, API keys and     *)
(* secrets: the order of the shutdown, what the readiness probe answers, and    *)
(* which requests pass the API-key check. And what the concurrency counters of  *)
(* RateLimiter cover, for any number of calls, buckets, limits and faults.      *)
EXTENDS ServiceProcess, RateLimiter, FiniteSetTheorems, TLAPS

HandlerType == [pc : {"idle", "verify", "lookup", "business", "query"},
                secret : Secret \cup {None}, expired : SUBSET KeyID, barred : BOOLEAN]

TypeOK == /\ keys \in [KeyID -> RowType \cup {None}]
          /\ handler \in [Handler -> HandlerType]
          /\ probe \in [pc : {"idle", "check", "ping", "confirm", "ready"}, doubt : BOOLEAN]
          /\ ready \in BOOLEAN /\ late \in BOOLEAN

\* The flag is up only while Serve waits, or where the listener's failure left it; a
\* probe in doubt met a failed worker, which stays failed and lets no check go on.
ProbeInv == /\ ready => main \in {"run", "exited"}
            /\ kind = "gateway" => worker = "none"
            /\ probe.doubt => worker = "failed"
            /\ probe.pc \in {"ping", "confirm"} => ~probe.doubt

\* The development row holds a development secret, the other rows hold none, and no
\* two rows share a secret.
KeysInv == /\ DevKey \in Rows
           /\ keys[DevKey].secret \in DevSecret
           /\ \A r \in Rows \ {DevKey} : keys[r].secret \notin DevSecret
           /\ \A q, r \in Rows : keys[q].secret = keys[r].secret => q = r

\* The row that barred a secret goes on barring it. The row of a generated secret keeps
\* that secret; the development row may be given another one, and stays barred.
StillBarred(secret, expired) ==
    \E r \in Rows : /\ IF secret \in DevSecret THEN r = DevKey ELSE keys[r].secret = secret
                    /\ keys[r].revoked \/ r \in expired

HandlerInv(h) ==
    /\ handler[h].pc \in {"verify", "lookup"} /\ handler[h].barred
         => StillBarred(handler[h].secret, handler[h].expired)
    /\ handler[h].pc \in {"business", "query"} => ~handler[h].barred

ProcessInv == /\ TypeOK /\ ProbeInv /\ KeysInv
              /\ \A h \in Handler : HandlerInv(h)
              /\ DrainedBeforeClose

------------------------------------------------------------------------------
(* Serve, its signal and its deadline *)

\* What every step of the main goroutine leaves alone.
Aside == UNCHANGED <<keys, kind, handler, probe, worker>>

\* What is said of the keys and the requests depends on nothing else.
LEMMA KeysKept ==
    ASSUME ProcessInv, keys' = keys, handler' = handler
    PROVE  KeysInv' /\ \A h \in Handler : HandlerInv(h)'
<1>1. KeysInv'
    BY Zenon DEF ProcessInv, KeysInv, Rows
<1>2. ASSUME NEW h \in Handler PROVE HandlerInv(h)'
    BY Zenon DEF ProcessInv, HandlerInv, StillBarred, Rows
<1> QED BY <1>1, <1>2, Zenon

\* Serve raises the flag only as it begins to wait, and drops it before it drains.
LEMMA ServeKeeps ==
    ASSUME ProcessInv, Aside, ready' \in BOOLEAN, late' \in BOOLEAN,
           ready' => main' \in {"run", "exited"}, DrainedBeforeClose'
    PROVE  ProcessInv'
<1>1. TypeOK'
    BY Zenon DEF ProcessInv, TypeOK, Aside
<1>2. ProbeInv'
    BY Zenon DEF ProcessInv, ProbeInv, Aside
<1>3. keys' = keys /\ handler' = handler
    BY Zenon DEF Aside
<1> QED BY <1>1, <1>2, <1>3, KeysKept, Zenon DEF ProcessInv

\* Every step of Serve. Only ShutdownReturns enters the closing phase, with no handler
\* left or after the deadline, and no request arrives once the listener is closed.
LEMMA ServeSteps ==
    ASSUME ProcessInv, ServeStep \/ ListenFails \/ Signal \/ Deadline
    PROVE  ProcessInv'
<1>1. /\ ready \in BOOLEAN /\ late \in BOOLEAN
      /\ ready => main \in {"run", "exited"}
      /\ main = "closing" /\ InFlight # {} => late
    BY Zenon DEF ProcessInv, TypeOK, ProbeInv, DrainedBeforeClose
<1>2. Aside
    BY Zenon DEF ServeStep, Start, BecomeUnready, CloseListener, ShutdownReturns, StopWorker,
                 CloseBroker, ClosePool, Exit, ListenFails, Signal, Deadline, Aside,
                 worldVars, workVars
<1>3. InFlight' = InFlight
    BY <1>2, Zenon DEF Aside, InFlight
<1>4. \/ UNCHANGED <<main, ready, late>>
      \/ main = "starting" /\ main' = "run" /\ ready' = TRUE /\ late' = late
      \/ main = "run" /\ main' = "draining" /\ ready' = FALSE /\ late' = late
      \/ main = "draining" /\ main' = "shutdown" /\ UNCHANGED <<ready, late>>
      \/ /\ main = "shutdown" /\ main' = "closing" /\ UNCHANGED <<ready, late>>
         /\ InFlight = {} \/ late
      \/ main' = "exited" /\ UNCHANGED <<ready, late>>
      \/ /\ main \in {"shutdown", "closing"} /\ late' = TRUE
         /\ UNCHANGED <<main, ready>>
    BY Zenon DEF ServeStep, Start, BecomeUnready, CloseListener, ShutdownReturns, StopWorker,
                 CloseBroker, ClosePool, Exit, ListenFails, Signal, Deadline, serveVars
<1>5. ready' \in BOOLEAN /\ late' \in BOOLEAN
    BY <1>1, <1>4, Zenon
<1>6. ready' => main' \in {"run", "exited"}
    <2>1. CASE UNCHANGED <<main, ready>>
        BY <1>1, <2>1, Zenon
    <2>2. CASE main' \in {"run", "exited"}
        BY <2>2, Zenon
    <2>3. CASE ready' = FALSE
        BY <2>3, Zenon
    <2>4. CASE main \in {"draining", "shutdown"} /\ ready' = ready
        <3>1. main \notin {"run", "exited"}
            BY <2>4
        <3> QED BY <1>1, <2>4, <3>1, Zenon
    <2> QED BY <1>4, <2>1, <2>2, <2>3, <2>4, Zenon
<1>7. main' = "closing" /\ InFlight' # {} => late'
    <2>1. CASE main' = main /\ late' = late
        BY <1>1, <1>3, <2>1, Zenon
    <2>2. CASE late' = TRUE
        BY <2>2, Zenon
    <2>3. CASE (InFlight = {} \/ late) /\ late' = late
        BY <1>3, <2>3, Zenon
    <2>4. CASE main' \in {"run", "draining", "shutdown", "exited"}
        <3>1. main' # "closing"
            BY <2>4
        <3> QED BY <3>1, Zenon
    <2> QED BY <1>4, <2>1, <2>2, <2>3, <2>4, Zenon
<1> QED BY <1>2, <1>5, <1>6, <1>7, ServeKeeps, Zenon DEF DrainedBeforeClose

------------------------------------------------------------------------------
(* The probe, the worker and the database *)

\* A probe that arrives notes whether the worker had failed; only a look at workerFailed
\* that finds no failure takes it to the ping, and to the second look at the flag.
LEMMA ProbeSteps ==
    ASSUME ProcessInv, ProbeArrives \/ readyCheck \/ Ping \/ Ready
    PROVE  /\ ProcessInv'
           /\ probe.pc # "ready" /\ probe'.pc = "ready" => main = "run" /\ ~probe.doubt
<1>1. /\ UNCHANGED <<keys, handler, kind, worker, main, ready, late>>
    BY Zenon DEF ProbeArrives, readyCheck, Ping, Ready, ProbeGoes, serveVars, worldVars
<1>2. /\ probe \in [pc : {"idle", "check", "ping", "confirm", "ready"}, doubt : BOOLEAN]
      /\ ready \in BOOLEAN /\ (ready => main \in {"run", "exited"})
      /\ kind = "gateway" => worker = "none"
      /\ probe.doubt => worker = "failed"
      /\ probe.pc \in {"ping", "confirm"} => ~probe.doubt
    BY Zenon DEF ProcessInv, TypeOK, ProbeInv
<1>3. \/ probe.pc \in {"idle", "ready"} /\ probe' = [pc |-> "check", doubt |-> worker = "failed"]
      \/ probe' = NoProbe
      \/ worker # "failed" /\ probe' = [probe EXCEPT !.pc = "ping"]
      \/ probe.pc = "ping" /\ probe' = [probe EXCEPT !.pc = "confirm"]
      \/ /\ probe.pc = "confirm" /\ ready /\ main # "exited"
         /\ probe' = [NoProbe EXCEPT !.pc = "ready"]
    BY Zenon DEF ProbeArrives, readyCheck, Ping, Ready, ProbeGoes, Running
<1> DEFINE Answer == [pc : {"idle", "check", "ping", "confirm", "ready"}, doubt : BOOLEAN]
           Goal == /\ probe' \in Answer
                   /\ probe'.doubt => worker = "failed"
                   /\ probe'.pc \in {"ping", "confirm"} => ~probe'.doubt
                   /\ probe.pc # "ready" /\ probe'.pc = "ready" => main = "run" /\ ~probe.doubt
<1>4. ASSUME probe.pc \in {"idle", "ready"}, probe' = [pc |-> "check", doubt |-> worker = "failed"]
      PROVE  Goal
    <2>1. (worker = "failed") \in BOOLEAN
        OBVIOUS
    <2>2. probe' \in Answer /\ probe'.doubt = (worker = "failed") /\ probe'.pc = "check"
        BY <1>4, <2>1, Zenon
    <2>3. probe'.pc \notin {"ping", "confirm", "ready"}
        BY <2>2
    <2> QED BY <2>2, <2>3, Zenon
<1>5. ASSUME probe' = NoProbe PROVE Goal
    <2>1. probe' \in Answer /\ probe'.doubt = FALSE /\ probe'.pc = "idle"
        BY <1>5, Zenon DEF NoProbe
    <2>2. probe'.pc \notin {"ping", "confirm", "ready"}
        BY <2>1
    <2> QED BY <2>1, <2>2, Zenon
<1>6. ASSUME worker # "failed", probe' = [probe EXCEPT !.pc = "ping"]
      PROVE  Goal
    <2>1. probe' \in Answer /\ probe'.doubt = probe.doubt /\ probe'.pc = "ping"
        BY <1>2, <1>6
    <2>2. probe'.pc # "ready"
        BY <2>1
    <2> QED BY <1>2, <1>6, <2>1, <2>2, Zenon
<1>7. ASSUME probe.pc = "ping", probe' = [probe EXCEPT !.pc = "confirm"]
      PROVE  Goal
    <2>1. probe' \in Answer /\ probe'.doubt = probe.doubt /\ probe'.pc = "confirm"
        BY <1>2, <1>7
    <2>2. probe'.pc # "ready" /\ probe.pc \in {"ping", "confirm"}
        BY <1>7, <2>1
    <2> QED BY <1>2, <2>1, <2>2, Zenon
<1>8. ASSUME probe.pc = "confirm", ready, main # "exited",
             probe' = [NoProbe EXCEPT !.pc = "ready"]
      PROVE  Goal
    <2>1. probe' = [pc |-> "ready", doubt |-> FALSE]
        BY <1>8, ZenonT(30) DEF NoProbe
    <2>2. probe' \in Answer /\ probe'.doubt = FALSE /\ probe'.pc = "ready"
        BY <2>1, Zenon
    <2>3. probe'.pc \notin {"ping", "confirm"} /\ probe.pc \in {"ping", "confirm"}
        BY <1>8, <2>2
    <2>4. main = "run"
        BY <1>2, <1>8, Zenon
    <2> QED BY <1>2, <1>8, <2>2, <2>3, <2>4, Zenon
<1>9. Goal
    BY <1>3, <1>4, <1>5, <1>6, <1>7, <1>8, Zenon
<1> HIDE DEF Goal
<1>10. TypeOK'
    BY <1>1, <1>9, Zenon DEF ProcessInv, TypeOK, Goal
<1>11. ProbeInv'
    BY <1>1, <1>2, <1>9, Zenon DEF ProbeInv, Goal
<1>12. DrainedBeforeClose'
    BY <1>1, Zenon DEF ProcessInv, DrainedBeforeClose, InFlight
<1> QED BY <1>1, <1>9, <1>10, <1>11, <1>12, KeysKept, Zenon DEF ProcessInv, Goal

\* A worker that failed does nothing any more, and the gateway has none.
LEMMA WorkerSteps ==
    ASSUME ProcessInv, WorkerStep \/ DatabaseChanges
    PROVE  ProcessInv'
<1>1. UNCHANGED <<keys, handler, kind, probe, main, ready, late>>
    BY Zenon DEF WorkerStep, Poll, Work, WorkQueryEnds, Record, RecordEnds, WorkerGoes,
                 DatabaseChanges, serveVars, worldVars, workVars
<1>2. worker' = worker \/ worker \in {"poll", "work", "query", "record", "cleanup"}
    BY Zenon DEF WorkerStep, Poll, Work, WorkQueryEnds, Record, RecordEnds, DatabaseChanges, workVars
<1>3. worker' = worker \/ worker \notin {"failed", "none"}
    BY <1>2
<1>4. ProbeInv'
    BY <1>1, <1>3, Zenon DEF ProcessInv, ProbeInv
<1>5. TypeOK' /\ DrainedBeforeClose'
    BY <1>1, Zenon DEF ProcessInv, TypeOK, DrainedBeforeClose, InFlight
<1> QED BY <1>1, <1>4, <1>5, KeysKept, Zenon DEF ProcessInv

------------------------------------------------------------------------------
(* The HTTP handlers *)

\* A step of one handler: its new state has to satisfy its part of the invariant, and
\* while dependencies are closed only a request that is already running moves on.
LEMMA HandlerKeeps ==
    ASSUME ProcessInv, NEW h \in Handler, NEW r \in HandlerType, HandlerGoes(h, r),
           r.pc \in {"verify", "lookup"} /\ r.barred => StillBarred(r.secret, r.expired),
           r.pc \in {"business", "query"} => ~r.barred,
           main # "closing" \/ handler[h].pc # "idle"
    PROVE  ProcessInv'
<1>1. /\ UNCHANGED <<keys, kind, probe, worker, main, ready, late>>
      /\ handler' = [handler EXCEPT ![h] = r]
    BY Zenon DEF HandlerGoes, serveVars, worldVars
<1>2. handler \in [Handler -> HandlerType]
    BY Zenon DEF ProcessInv, TypeOK
<1>3. /\ handler' \in [Handler -> HandlerType] /\ handler'[h] = r
      /\ \A g \in Handler \ {h} : handler'[g] = handler[g]
    BY <1>1, <1>2, Zenon
<1>4. TypeOK' /\ ProbeInv'
    BY <1>1, <1>3, Zenon DEF ProcessInv, TypeOK, ProbeInv
<1>5. KeysInv'
    BY <1>1, Zenon DEF ProcessInv, KeysInv, Rows
<1>6. \A x, e : StillBarred(x, e) => StillBarred(x, e)'
    BY <1>1, Zenon DEF StillBarred, Rows
<1>7. ASSUME NEW g \in Handler PROVE HandlerInv(g)'
    <2>1. CASE g = h
        BY <1>3, <1>6, <2>1, Zenon DEF HandlerInv
    <2>2. CASE g # h
        <3>1. handler'[g] = handler[g]
            BY <1>3, <2>2, Zenon
        <3> QED BY <1>6, <3>1, Zenon DEF ProcessInv, HandlerInv
    <2> QED BY <2>1, <2>2, Zenon
<1>8. DrainedBeforeClose'
    <2>1. SUFFICES ASSUME main = "closing", InFlight' # {} PROVE late
        BY <1>1, Zenon DEF DrainedBeforeClose
    <2>2. PICK g \in Handler : handler'[g].pc # "idle"
        BY <2>1, Zenon DEF InFlight
    <2>3. handler[g].pc # "idle"
        <3>1. CASE g = h
            BY <2>1, <3>1, Zenon
        <3>2. CASE g # h
            BY <1>3, <2>2, <3>2, Zenon
        <3> QED BY <3>1, <3>2, Zenon
    <2>4. InFlight # {}
        BY <2>3, Zenon DEF InFlight
    <2> QED BY <2>1, <2>4, Zenon DEF ProcessInv, DrainedBeforeClose
<1> QED BY <1>4, <1>5, <1>7, <1>8, Zenon DEF ProcessInv

\* A request that has been answered.
LEMMA IdleHandler ==
    /\ Idle \in HandlerType
    /\ Idle.pc \notin {"verify", "lookup", "business", "query"}
<1>1. Idle \in HandlerType /\ Idle.pc = "idle"
    BY Zenon DEF Idle, HandlerType
<1> QED BY <1>1

\* A handler that goes on with its request only changes its place in it.
LEMMA NextPlace ==
    ASSUME NEW x \in HandlerType, NEW step \in {"verify", "lookup", "business", "query"},
           NEW r, r = [x EXCEPT !.pc = step]
    PROVE  /\ r \in HandlerType /\ r.pc = step
           /\ r.secret = x.secret /\ r.expired = x.expired /\ r.barred = x.barred
<1>1. x = [pc |-> x.pc, secret |-> x.secret, expired |-> x.expired, barred |-> x.barred]
    BY DEF HandlerType
<1>2. /\ x.secret \in Secret \cup {None} /\ x.expired \in SUBSET KeyID /\ x.barred \in BOOLEAN
    BY DEF HandlerType
<1>3. [x EXCEPT !.pc = step] = [pc |-> step, secret |-> x.secret, expired |-> x.expired, barred |-> x.barred]
    BY <1>1
<1>4. step \in {"idle", "verify", "lookup", "business", "query"}
    BY Zenon
<1> QED BY <1>2, <1>3, <1>4, Zenon DEF HandlerType

\* The row that bars a secret on arrival is the one StillBarred follows.
LEMMA BarredOnArrival ==
    ASSUME KeysInv, NEW s, Barred(s)
    PROVE  StillBarred(s, Expired)
<1>1. PICK r \in Rows : keys[r].secret = s /\ (keys[r].revoked \/ r \in Expired)
    BY Zenon DEF Barred
<1>2. s \in DevSecret => r = DevKey
    BY <1>1, Zenon DEF KeysInv
<1> QED BY <1>1, <1>2, Zenon DEF StillBarred

\* A secret that is still barred does not verify.
LEMMA BarredFails ==
    ASSUME KeysInv, NEW s, NEW e, StillBarred(s, e)
    PROVE  ~Verify(s, e)
<1>1. SUFFICES ASSUME NEW q \in Rows, keys[q].secret = s, ~keys[q].revoked, q \notin e
               PROVE  FALSE
    BY Zenon DEF Verify, FindAPIKeyByPrefix
<1>2. PICK r \in Rows : /\ IF s \in DevSecret THEN r = DevKey ELSE keys[r].secret = s
                        /\ keys[r].revoked \/ r \in e
    BY Zenon DEF StillBarred
<1>3. r = q
    <2>1. CASE s \in DevSecret
        BY <1>1, <1>2, <2>1, Zenon DEF KeysInv
    <2>2. CASE s \notin DevSecret
        BY <1>1, <1>2, <2>2, Zenon DEF KeysInv
    <2> QED BY <2>1, <2>2, Zenon
<1> QED BY <1>1, <1>2, <1>3, Zenon

\* Every step of a request: the lookup lets a barred one no further, and the queries
\* after it belong to a request that was not barred.
LEMMA HandlerSteps ==
    ASSUME ProcessInv, NEW h \in Handler, Arrive(h) \/ HandlerStep(h) \/ ClientLeaves(h)
    PROVE  ProcessInv'
<1> DEFINE x == handler[h]
<1>1. x \in HandlerType /\ HandlerInv(h) /\ KeysInv
    BY Zenon DEF ProcessInv, TypeOK
<1>2. CASE Arrive(h)
    <2>1. PICK s \in Secret :
            HandlerGoes(h, [pc |-> "verify", secret |-> s, expired |-> Expired, barred |-> Barred(s)])
        BY <1>2, Zenon DEF Arrive
    <2>2. Expired \in SUBSET KeyID /\ Barred(s) \in BOOLEAN
        BY Zenon DEF Expired, Rows, Barred
    <2> DEFINE r == [pc |-> "verify", secret |-> s, expired |-> Expired, barred |-> Barred(s)]
    <2>3. /\ r \in HandlerType /\ r.pc = "verify"
          /\ r.secret = s /\ r.expired = Expired /\ r.barred = Barred(s)
        BY <2>2, Zenon DEF HandlerType
    <2>4. r.pc \notin {"business", "query"}
        BY <2>3
    <2>5. main # "closing"
        BY <1>2 DEF Arrive, Listening
    <2>6. HandlerGoes(h, r)
        BY <2>1
    <2> HIDE DEF r
    <2>7. r.barred => StillBarred(r.secret, r.expired)
        BY <1>1, <2>3, BarredOnArrival, Zenon
    <2> QED BY <2>3, <2>4, <2>5, <2>6, <2>7, HandlerKeeps, Zenon
<1>3. ASSUME HandlerGoes(h, Idle), x.pc # "idle"
      PROVE  ProcessInv'
    BY <1>3, IdleHandler, HandlerKeeps, Zenon
<1>4. ASSUME NEW step \in {"lookup", "business", "query"}, HandlerGoes(h, [x EXCEPT !.pc = step]),
             x.pc # "idle",
             step = "lookup" /\ x.barred => StillBarred(x.secret, x.expired),
             step \in {"business", "query"} => ~x.barred
      PROVE  ProcessInv'
    <2> DEFINE r == [x EXCEPT !.pc = step]
    <2>1. /\ r \in HandlerType /\ r.pc = step
          /\ r.secret = x.secret /\ r.expired = x.expired /\ r.barred = x.barred
        <3>1. r = [x EXCEPT !.pc = step]
            OBVIOUS
        <3>2. step \in {"verify", "lookup", "business", "query"}
            BY <1>4, Zenon
        <3>3. x \in HandlerType
            BY <1>1, Zenon
        <3> HIDE DEF x, r
        <3> QED BY <3>1, <3>2, <3>3, NextPlace
    <2>2. step # "verify"
        OBVIOUS
    <2>3. HandlerGoes(h, r)
        BY <1>4
    <2> HIDE DEF r
    <2> QED BY <1>4, <2>1, <2>2, <2>3, HandlerKeeps, Zenon
<1>5. CASE Query(h, "verify", "lookup")
    <2>1. x.pc = "verify" /\ (HandlerGoes(h, [x EXCEPT !.pc = "lookup"]) \/ HandlerGoes(h, Idle))
        BY <1>5, Zenon DEF Query
    <2>2. x.pc # "idle" /\ "lookup" \notin {"business", "query"}
        BY <2>1
    <2> QED BY <1>1, <1>3, <1>4, <2>1, <2>2, Zenon DEF HandlerInv
<1>6. CASE authenticate(h)
    <2>1. /\ x.pc = "lookup"
          /\ \/ HandlerGoes(h, [x EXCEPT !.pc = "business"]) /\ Verify(x.secret, x.expired)
             \/ HandlerGoes(h, Idle)
        BY <1>6, Zenon DEF authenticate
    <2>2. x.pc # "idle" /\ "business" # "lookup"
        BY <2>1
    <2>3. Verify(x.secret, x.expired) => ~x.barred
        BY <1>1, <2>1, BarredFails, Zenon DEF HandlerInv
    <2> QED BY <1>3, <1>4, <2>1, <2>2, <2>3, Zenon
<1>7. CASE Query(h, "business", "query")
    <2>1. x.pc = "business" /\ (HandlerGoes(h, [x EXCEPT !.pc = "query"]) \/ HandlerGoes(h, Idle))
        BY <1>7, Zenon DEF Query
    <2>2. x.pc # "idle" /\ "query" # "lookup"
        BY <2>1
    <2> QED BY <1>1, <1>3, <1>4, <2>1, <2>2, Zenon DEF HandlerInv
<1>8. CASE QueryEnds(h)
    <2>1. x.pc = "query" /\ (HandlerGoes(h, [x EXCEPT !.pc = "business"]) \/ HandlerGoes(h, Idle))
        BY <1>8, Zenon DEF QueryEnds
    <2>2. x.pc # "idle" /\ "business" # "lookup"
        BY <2>1
    <2> QED BY <1>1, <1>3, <1>4, <2>1, <2>2, Zenon DEF HandlerInv
<1>9. CASE ClientLeaves(h)
    <2>1. x.pc # "idle"
        BY <1>9 DEF ClientLeaves
    <2> QED BY <1>3, <1>9, <2>1, Zenon DEF ClientLeaves
<1> QED BY <1>2, <1>5, <1>6, <1>7, <1>8, <1>9, Zenon DEF HandlerStep

------------------------------------------------------------------------------
(* The admin tool *)

\* A write of one row: a new row has a secret of its own, an old one keeps its
\* revocation and, unless it is the development key's, its secret.
LEMMA RowWritten ==
    ASSUME ProcessInv, NEW id \in KeyID, NEW new \in RowType, keys' = [keys EXCEPT ![id] = new],
           id = DevKey <=> new.secret \in DevSecret,
           \A r \in Rows \ {id} : keys[r].secret # new.secret,
           id \in Rows => /\ keys[id].revoked => new.revoked
                          /\ id = DevKey \/ new.secret = keys[id].secret
    PROVE  /\ keys' \in [KeyID -> RowType \cup {None}]
           /\ KeysInv'
           /\ \A s, e : StillBarred(s, e) => StillBarred(s, e)'
<1>1. keys \in [KeyID -> RowType \cup {None}] /\ KeysInv /\ None \notin RowType
    BY KeyAssumption, Zenon DEF ProcessInv, TypeOK
<1>2. /\ keys' \in [KeyID -> RowType \cup {None}]
      /\ keys'[id] = new
      /\ \A r \in KeyID \ {id} : keys'[r] = keys[r]
    BY <1>1, Zenon
<1>3. Rows' = Rows \cup {id} /\ Rows \subseteq KeyID
    BY <1>1, <1>2, Zenon DEF Rows
<1>4. \A r \in Rows \ {id} : keys'[r] = keys[r]
    BY <1>2, <1>3, Zenon
<1>5. DevKey \in Rows' /\ keys'[DevKey].secret \in DevSecret
    BY <1>1, <1>2, <1>3, <1>4, Zenon DEF KeysInv
<1>6. ASSUME NEW r \in Rows' \ {DevKey} PROVE keys'[r].secret \notin DevSecret
    BY <1>1, <1>2, <1>3, <1>4, Zenon DEF KeysInv
<1>7. ASSUME NEW q \in Rows', NEW r \in Rows', keys'[q].secret = keys'[r].secret PROVE q = r
    <2>1. CASE q = id
        BY <1>2, <1>3, <1>4, <1>7, <2>1, Zenon
    <2>2. CASE r = id
        BY <1>2, <1>3, <1>4, <1>7, <2>2, Zenon
    <2>3. CASE q # id /\ r # id
        BY <1>1, <1>3, <1>4, <1>7, <2>3, Zenon DEF KeysInv
    <2> QED BY <2>1, <2>2, <2>3, Zenon
<1>8. ASSUME NEW s, NEW e, StillBarred(s, e) PROVE StillBarred(s, e)'
    <2>1. PICK r \in Rows : /\ IF s \in DevSecret THEN r = DevKey ELSE keys[r].secret = s
                            /\ keys[r].revoked \/ r \in e
        BY <1>8, Zenon DEF StillBarred
    <2>2. r \in Rows' /\ (keys'[r].revoked \/ r \in e)
        BY <1>2, <1>3, <1>4, <2>1, Zenon
    <2>3. ASSUME s \notin DevSecret PROVE keys'[r].secret = s
        <3>1. keys[r].secret = s /\ r # DevKey
            BY <1>1, <2>1, <2>3, Zenon DEF KeysInv
        <3>2. CASE r = id
            BY <1>2, <2>1, <3>1, <3>2, Zenon
        <3>3. CASE r # id
            BY <1>4, <2>1, <3>1, <3>3, Zenon
        <3> QED BY <3>2, <3>3, Zenon
    <2> QED BY <2>1, <2>2, <2>3, Zenon DEF StillBarred
<1> QED BY <1>2, <1>5, <1>6, <1>7, <1>8, Zenon DEF KeysInv

\* The row of a key after one of its columns is written.
LEMMA ColumnWritten ==
    ASSUME NEW row \in RowType
    PROVE  /\ \A s \in Secret :
                /\ [row EXCEPT !.secret = s] \in RowType
                /\ [row EXCEPT !.secret = s].secret = s
                /\ [row EXCEPT !.secret = s].revoked = row.revoked
           /\ [row EXCEPT !.revoked = TRUE] \in RowType
           /\ [row EXCEPT !.revoked = TRUE].secret = row.secret
           /\ [row EXCEPT !.revoked = TRUE].revoked = TRUE
           /\ [row EXCEPT !.expires = "past"] \in RowType
           /\ [row EXCEPT !.expires = "past"].secret = row.secret
           /\ [row EXCEPT !.expires = "past"].revoked = row.revoked
<1>1. ASSUME NEW s \in Secret
      PROVE  /\ [row EXCEPT !.secret = s] \in RowType
             /\ [row EXCEPT !.secret = s].secret = s
             /\ [row EXCEPT !.secret = s].revoked = row.revoked
    BY DEF RowType
<1>2. /\ [row EXCEPT !.revoked = TRUE] \in RowType
      /\ [row EXCEPT !.revoked = TRUE].secret = row.secret
      /\ [row EXCEPT !.revoked = TRUE].revoked = TRUE
    BY ZenonT(30) DEF RowType
<1>3. /\ [row EXCEPT !.expires = "past"] \in RowType
      /\ [row EXCEPT !.expires = "past"].secret = row.secret
      /\ [row EXCEPT !.expires = "past"].revoked = row.revoked
    BY DEF RowType
<1> QED BY <1>1, <1>2, <1>3, Zenon

\* Each command of the admin tool, and an expiry, writes one row in that manner.
LEMMA AdminWrites ==
    ASSUME ProcessInv, Admin
    PROVE  /\ keys' \in [KeyID -> RowType \cup {None}]
           /\ KeysInv'
           /\ \A s, e : StillBarred(s, e) => StillBarred(s, e)'
<1>1. keys \in [KeyID -> RowType \cup {None}] /\ KeysInv
    BY Zenon DEF ProcessInv, TypeOK
<1>2. ASSUME NEW id \in KeyID, keys[id] # None
      PROVE  keys[id] \in RowType /\ id \in Rows
    BY <1>1, <1>2, Zenon DEF Rows
<1>3. ASSUME NEW id \in Rows
      PROVE  /\ id = DevKey <=> keys[id].secret \in DevSecret
             /\ \A r \in Rows \ {id} : keys[r].secret # keys[id].secret
    BY <1>1, Zenon DEF KeysInv
<1>4. ASSUME NEW s \in DevSecret, Seed(s)
      PROVE  \E new \in RowType : /\ keys' = [keys EXCEPT ![DevKey] = new]
                                  /\ new.secret = s /\ new.revoked = keys[DevKey].revoked
    <2>1. DevKey \in KeyID /\ keys[DevKey] \in RowType /\ s \in Secret
        BY <1>1, <1>2, KeyAssumption, Zenon DEF KeysInv, Rows
    <2>2. keys' = [keys EXCEPT ![DevKey] = [keys[DevKey] EXCEPT !.secret = s]]
        BY <1>4, Zenon DEF Seed
    <2> DEFINE new == [keys[DevKey] EXCEPT !.secret = s]
    <2>3. new \in RowType /\ new.secret = s /\ new.revoked = keys[DevKey].revoked
        BY <2>1, ColumnWritten, ZenonT(30)
    <2>4. keys' = [keys EXCEPT ![DevKey] = new]
        BY <2>2
    <2> HIDE DEF new
    <2> QED BY <2>3, <2>4, Zenon
<1>5. CASE \E s \in DevSecret : Seed(s)
    <2>1. PICK s \in DevSecret : Seed(s)
        BY <1>5, Zenon
    <2>2. PICK new \in RowType : /\ keys' = [keys EXCEPT ![DevKey] = new]
                                 /\ new.secret = s /\ new.revoked = keys[DevKey].revoked
        BY <1>4, <2>1, Zenon
    <2>3. \A r \in Rows \ {DevKey} : keys[r].secret # new.secret
        BY <1>1, <2>2, Zenon DEF KeysInv
    <2>4. DevKey \in KeyID
        BY KeyAssumption, Zenon
    <2> QED BY <2>2, <2>3, <2>4, RowWritten, Zenon
<1>6. CASE \E id \in KeyID, s \in Secret, scope \in Scope : createAPIKey(id, s, scope)
    <2>1. PICK id \in KeyID, s \in Secret, scope \in Scope : createAPIKey(id, s, scope)
        BY <1>6, Zenon
    <2> DEFINE new == Row(s, scope, "never")
    <2>2. new \in RowType /\ new.secret = s
        BY Zenon DEF Row, RowType
    <2>3. /\ id \notin Rows /\ id # DevKey /\ s \notin DevSecret
          /\ keys' = [keys EXCEPT ![id] = new]
          /\ \A r \in Rows \ {id} : keys[r].secret # s
        BY <1>1, <2>1, Zenon DEF createAPIKey, PrefixFree, KeysInv, Rows
    <2> HIDE DEF new
    <2> QED BY <2>2, <2>3, RowWritten, Zenon
<1>7. CASE \E id \in KeyID : revokeAPIKey(id) \/ Expire(id)
    <2>1. PICK id \in KeyID : revokeAPIKey(id) \/ Expire(id)
        BY <1>7, Zenon
    <2>2. keys[id] \in RowType /\ id \in Rows
        BY <1>2, <2>1, Zenon DEF revokeAPIKey, Expire
    <2>3. \/ keys' = [keys EXCEPT ![id] = [keys[id] EXCEPT !.revoked = TRUE]]
          \/ keys' = [keys EXCEPT ![id] = [keys[id] EXCEPT !.expires = "past"]]
        BY <2>1, Zenon DEF revokeAPIKey, Expire
    <2>4. PICK new \in RowType : /\ keys' = [keys EXCEPT ![id] = new]
                                 /\ new.secret = keys[id].secret
                                 /\ keys[id].revoked => new.revoked
        <3> DEFINE revoked == [keys[id] EXCEPT !.revoked = TRUE]
                   expired == [keys[id] EXCEPT !.expires = "past"]
        <3>1. /\ revoked \in RowType /\ revoked.secret = keys[id].secret /\ revoked.revoked = TRUE
              /\ expired \in RowType /\ expired.secret = keys[id].secret
              /\ expired.revoked = keys[id].revoked
            BY <2>2, ColumnWritten
        <3>2. keys' = [keys EXCEPT ![id] = revoked] \/ keys' = [keys EXCEPT ![id] = expired]
            BY <2>3
        <3> HIDE DEF revoked, expired
        <3> QED BY <3>1, <3>2, Zenon
    <2>5. /\ id = DevKey <=> new.secret \in DevSecret
          /\ \A r \in Rows \ {id} : keys[r].secret # new.secret
        BY <1>3, <2>2, <2>4, Zenon
    <2> QED BY <2>4, <2>5, RowWritten, ZenonT(30)
<1> QED BY <1>5, <1>6, <1>7, Zenon DEF Admin

\* The commands on keys keep the invariant.
LEMMA AdminSteps ==
    ASSUME ProcessInv, Admin
    PROVE  ProcessInv'
<1>1. UNCHANGED <<kind, handler, probe, worker, main, ready, late>>
    BY Zenon DEF Admin, serveVars, workVars
<1>2. TypeOK' /\ ProbeInv' /\ DrainedBeforeClose'
    BY <1>1, AdminWrites, Zenon DEF ProcessInv, TypeOK, ProbeInv, DrainedBeforeClose, InFlight
<1>3. ASSUME NEW h \in Handler PROVE HandlerInv(h)'
    BY <1>1, AdminWrites, Zenon DEF ProcessInv, HandlerInv
<1> QED BY <1>2, <1>3, AdminWrites, Zenon DEF ProcessInv

------------------------------------------------------------------------------
(* The theorems *)

\* The invariant holds at first.
LEMMA ProcessInit == Init => ProcessInv
<1> SUFFICES ASSUME Init PROVE ProcessInv
    OBVIOUS
<1>1. PICK e \in {"never", "ahead"} :
        keys = [id \in KeyID |-> IF id = DevKey THEN Row(CHOOSE s \in DevSecret : TRUE, "*", e) ELSE None]
    BY Zenon DEF Init, InitKeys
<1> DEFINE dev == CHOOSE s \in DevSecret : TRUE
           new == Row(dev, "*", e)
<1>2. dev \in DevSecret /\ dev \in Secret
    BY KeyAssumption, Zenon
<1>3. new \in RowType /\ new.secret = dev
    <2> HIDE DEF dev
    <2> QED BY <1>2, Zenon DEF Row, RowType
<1>4. keys = [id \in KeyID |-> IF id = DevKey THEN new ELSE None]
    BY <1>1
<1> HIDE DEF new, dev
<1>5. /\ keys \in [KeyID -> RowType \cup {None}]
      /\ keys[DevKey] = new /\ DevKey \in KeyID
      /\ \A id \in KeyID \ {DevKey} : keys[id] = None
    BY <1>3, <1>4, KeyAssumption, Zenon
<1>6. Rows = {DevKey}
    BY <1>3, <1>5, KeyAssumption, Zenon DEF Rows
<1>7. KeysInv
    BY <1>2, <1>3, <1>5, <1>6, Zenon DEF KeysInv
<1>8. /\ handler \in [Handler -> HandlerType]
      /\ \A h \in Handler : handler[h] = Idle
    BY IdleHandler, Zenon DEF Init
<1>9. \A h \in Handler : HandlerInv(h)
    BY <1>8, IdleHandler, Zenon DEF HandlerInv
<1>10. probe = [pc |-> "idle", doubt |-> FALSE] /\ main = "starting" /\ ready = FALSE /\ late = FALSE
    BY Zenon DEF Init, NoProbe
<1>11. /\ probe \in [pc : {"idle", "check", "ping", "confirm", "ready"}, doubt : BOOLEAN]
       /\ probe.doubt = FALSE /\ main # "closing"
    BY <1>10
<1>12. kind = "gateway" => worker = "none"
    <2> SUFFICES ASSUME kind = "gateway" PROVE worker = "none"
        OBVIOUS
    <2>1. kind # "evaluation-worker" /\ ~HasWorker
        BY DEF HasWorker
    <2> QED BY <2>1, Zenon DEF Init
<1>13. TypeOK /\ ProbeInv /\ DrainedBeforeClose
    BY <1>5, <1>8, <1>10, <1>11, <1>12, Zenon DEF TypeOK, ProbeInv, DrainedBeforeClose
<1> QED BY <1>7, <1>9, <1>13, Zenon DEF ProcessInv

\* Every step keeps the invariant.
LEMMA ProcessStep == ProcessInv /\ [Next]_vars => ProcessInv'
<1>1. CASE ProcessInv /\ Next
    BY <1>1, ServeSteps, ProbeSteps, WorkerSteps, HandlerSteps, AdminSteps, Zenon DEF Next
<1>2. CASE ProcessInv /\ UNCHANGED vars
    <2>1. Aside /\ UNCHANGED <<main, ready, late>>
        BY <1>2, Zenon DEF Aside, vars, serveVars, worldVars, workVars
    <2>2. /\ ready' \in BOOLEAN /\ late' \in BOOLEAN
          /\ ready' => main' \in {"run", "exited"}
        BY <1>2, <2>1, Zenon DEF ProcessInv, TypeOK, ProbeInv
    <2>3. DrainedBeforeClose'
        BY <1>2, <2>1, Zenon DEF ProcessInv, DrainedBeforeClose, InFlight, Aside
    <2> QED BY <1>2, <2>1, <2>2, <2>3, ServeKeeps, Zenon
<1> QED BY <1>1, <1>2, Zenon

\* The invariant holds throughout.
LEMMA ProcessSafety == Spec => []ProcessInv
BY ProcessInit, ProcessStep, PTL DEF Spec

\* Dependencies are closed under a running request only after the shutdown timeout,
\* however many requests there are (app/run.go).
THEOREM RequestsDrain == Spec => []DrainedBeforeClose
<1>1. ProcessInv => DrainedBeforeClose
    BY Zenon DEF ProcessInv
<1> QED BY <1>1, ProcessSafety, PTL

\* A request whose key was revoked or expired on arrival never reaches the handler of
\* the route, whatever the admin tool does to the keys meanwhile (auth/apikey.go).
THEOREM RevocationHolds == Spec => []RevokedKeysStayOut
<1>1. ProcessInv => RevokedKeysStayOut
    BY Zenon DEF ProcessInv, HandlerInv, RevokedKeysStayOut
<1> QED BY <1>1, ProcessSafety, PTL

\* The probe answers ready only in a process that is not shutting down and whose worker
\* had not failed when the probe arrived; it may have failed since (app/run.go,
\* health.State, cmd/evaluation-worker/main.go).
THEOREM ReadyIsTrue == Spec => ReadyMeansWorking
<1> DEFINE Honest == probe.pc # "ready" /\ probe'.pc = "ready" => main = "run" /\ ~probe.doubt
<1>1. ProcessInv /\ [Next]_vars => [Honest]_vars
    <2> SUFFICES ASSUME ProcessInv, Next, probe.pc # "ready", probe'.pc = "ready"
                 PROVE  main = "run" /\ ~probe.doubt
        BY Zenon
    <2>1. probe' # probe
        BY Zenon
    <2>2. ProbeArrives \/ readyCheck \/ Ping \/ Ready
        BY <2>1, Zenon DEF Next, ServeStep, Start, BecomeUnready, CloseListener, ShutdownReturns,
             StopWorker, CloseBroker, ClosePool, Exit, ListenFails, Signal, Deadline,
             Arrive, HandlerStep, Query, authenticate, QueryEnds, ClientLeaves, HandlerGoes,
             WorkerStep, Poll, Work, WorkQueryEnds, Record, RecordEnds, WorkerGoes,
             DatabaseChanges, Admin, workVars
    <2> QED BY <2>2, ProbeSteps, Zenon
<1> QED BY <1>1, ProcessSafety, PTL DEF Spec, ReadyMeansWorking

------------------------------------------------------------------------------
(* The rate limiter *)

HoldersOf(p, b) == {c \in Call : b \in p[c]}

\* Call c is granted, or gives up, a permit of b.
Gains(p, q, c, b) == b \notin p[c] /\ q = [p EXCEPT ![c] = @ \cup {b}]
Loses(p, q, c, b) == b \in p[c] /\ q = [p EXCEPT ![c] = @ \ {b}]

\* Then b has one holder more, or less, and the other buckets have the same.
OneMore(p, q, b) == /\ \A d \in Bucket \ {b} : HoldersOf(q, d) = HoldersOf(p, d)
                    /\ IsFiniteSet(HoldersOf(q, b))
                    /\ Cardinality(HoldersOf(q, b)) = Cardinality(HoldersOf(p, b)) + 1
OneLess(p, q, b) == /\ \A d \in Bucket \ {b} : HoldersOf(q, d) = HoldersOf(p, d)
                    /\ IsFiniteSet(HoldersOf(q, b))
                    /\ Cardinality(HoldersOf(q, b)) = Cardinality(HoldersOf(p, b)) - 1

\* The permits a call has after it was admitted to n buckets.
Prefix(c, n) == {Buckets[c][i] : i \in 1..n}

Taken(S, c, n) == S = Prefix(c, n) /\ IsFiniteSet(S) /\ Cardinality(S) = n
Asked(c) == \E n \in Nat : n < Len(Buckets[c]) /\ Taken(permits[c], c, n)

\* The counter of a permit has been refreshed since the call began to hold it.
Fresh(c, b) == b \in overrun \/ age[b] <= heldFor[c][b]

\* A call that asks holds the permits of the buckets it has asked, and an idle one none.
CallInv(c) == /\ pc[c] = "asking" => Asked(c)
              /\ pc[c] = "idle" => permits[c] = {}
              /\ \A b \in permits[c] : Fresh(c, b)

Covers(p, b, n, f, over) == /\ IsFiniteSet(HoldersOf(p, b))
                            /\ b \in over \/ Cardinality(HoldersOf(p, b)) <= n
                            /\ f = 0 => n <= Cardinality(HoldersOf(p, b))

LimiterInv == /\ LimiterTypeOK
              /\ \A c \in Call : CallInv(c)
              /\ \A b \in Bucket : Covers(permits, b, concurrent[b], faults, overrun)

------------------------------------------------------------------------------
(* The holders of a bucket *)

\* A new member adds one to the size of a set.
LEMMA CountUp ==
    ASSUME NEW S, IsFiniteSet(S), NEW x, x \notin S
    PROVE  IsFiniteSet(S \cup {x}) /\ Cardinality(S \cup {x}) = Cardinality(S) + 1
BY FS_AddElement, SMT

\* And one member less.
LEMMA CountDown ==
    ASSUME NEW S, IsFiniteSet(S), NEW x, x \in S
    PROVE  IsFiniteSet(S \ {x}) /\ Cardinality(S \ {x}) = Cardinality(S) - 1
BY FS_RemoveElement, SMT

\* A permit that Allow grants adds one holder to its bucket and none to the others.
LEMMA Grow ==
    ASSUME NEW p \in [Call -> SUBSET Bucket], NEW c \in Call, NEW b \in Bucket,
           NEW q, Gains(p, q, c, b),
           IsFiniteSet(HoldersOf(p, b))
    PROVE  OneMore(p, q, b)
<1>1. HoldersOf(q, b) = HoldersOf(p, b) \cup {c} /\ c \notin HoldersOf(p, b)
    BY Zenon DEF HoldersOf, Gains
<1>2. \A d \in Bucket \ {b} : HoldersOf(q, d) = HoldersOf(p, d)
    BY Zenon DEF HoldersOf, Gains
<1>3. /\ IsFiniteSet(HoldersOf(p, b) \cup {c})
      /\ Cardinality(HoldersOf(p, b) \cup {c}) = Cardinality(HoldersOf(p, b)) + 1
    BY <1>1, CountUp
<1> QED BY <1>1, <1>2, <1>3, Zenon DEF OneMore

\* A permit that is released leaves its bucket with one holder less.
LEMMA Shrink ==
    ASSUME NEW p \in [Call -> SUBSET Bucket], NEW c \in Call, NEW b \in Bucket,
           NEW q, Loses(p, q, c, b),
           IsFiniteSet(HoldersOf(p, b))
    PROVE  OneLess(p, q, b)
<1>1. HoldersOf(q, b) = HoldersOf(p, b) \ {c} /\ c \in HoldersOf(p, b)
    BY Zenon DEF HoldersOf, Loses
<1>2. \A d \in Bucket \ {b} : HoldersOf(q, d) = HoldersOf(p, d)
    BY Zenon DEF HoldersOf, Loses
<1>3. /\ IsFiniteSet(HoldersOf(p, b) \ {c})
      /\ Cardinality(HoldersOf(p, b) \ {c}) = Cardinality(HoldersOf(p, b)) - 1
    BY <1>1, CountDown
<1> QED BY <1>1, <1>2, <1>3, Zenon DEF OneLess

\* A call that dies leaves every bucket with at most as many holders.
LEMMA Drop ==
    ASSUME NEW p \in [Call -> SUBSET Bucket], NEW c \in Call, NEW b \in Bucket,
           NEW q, q = [p EXCEPT ![c] = {}], IsFiniteSet(HoldersOf(p, b))
    PROVE  /\ IsFiniteSet(HoldersOf(q, b))
           /\ Cardinality(HoldersOf(q, b)) <= Cardinality(HoldersOf(p, b))
<1>1. HoldersOf(q, b) \in SUBSET HoldersOf(p, b)
    BY Zenon DEF HoldersOf
<1> QED BY <1>1, FS_Subset, Zenon

\* The bucket that admit asks next is one of which the call has no permit yet.
LEMMA NextIsNew ==
    ASSUME NEW c \in Call, Asked(c)
    PROVE  /\ NextBucket(c) \in Bucket /\ NextBucket(c) \notin permits[c]
           /\ Cardinality(permits[c]) \in Nat /\ Cardinality(permits[c]) < Len(Buckets[c])
           /\ Taken(permits[c] \cup {NextBucket(c)}, c, Cardinality(permits[c]) + 1)
<1>1. PICK n \in Nat : n < Len(Buckets[c]) /\ Taken(permits[c], c, n)
    BY Zenon DEF Asked
<1> USE DEF Taken
<1>2. Buckets[c] \in Seq(Bucket) /\ IsInjective(Buckets[c])
    BY LimiterAssumption, Zenon
<1>3. n + 1 \in DOMAIN Buckets[c] /\ \A i \in 1..n : i \in DOMAIN Buckets[c] /\ i # n + 1
    BY <1>1, <1>2, SMT
<1>4. Buckets[c][n + 1] \in Bucket
    BY <1>1, <1>2, SMT
<1>5. Buckets[c][n + 1] \notin permits[c]
    BY <1>1, <1>2, <1>3, Zenon DEF IsInjective, Prefix
<1>6. 1..(n + 1) = (1..n) \cup {n + 1}
    BY SMT
<1>7. permits[c] \cup {Buckets[c][n + 1]} = Prefix(c, n + 1)
    BY <1>1, <1>6, Zenon DEF Prefix
<1>8. NextBucket(c) = Buckets[c][n + 1]
    BY <1>1, Zenon DEF NextBucket
<1> QED BY <1>1, <1>4, <1>5, <1>7, <1>8, CountUp, Zenon

------------------------------------------------------------------------------
(* Steps of the limiter *)

\* Types of the times.
LEMMA Times ==
    ASSUME LimiterTypeOK, NEW c \in Call, NEW b \in Bucket
    PROVE  /\ heldFor[c][b] \in 0..ConcurrencyTTL - 1 /\ heldFor[c][b] \in Nat
           /\ age[b] \in Nat /\ ConcurrencyTTL \in Nat \ {0}
<1>1. heldFor[c][b] \in 0..ConcurrencyTTL - 1 /\ age[b] \in 0..ConcurrencyTTL - 1
    BY Zenon DEF LimiterTypeOK
<1>2. ConcurrencyTTL \in Nat \ {0}
    BY LimiterAssumption, SMT
<1> QED BY <1>1, <1>2, SMT

\* A permit that stays where it was stays fresh when no counter gets older.
LEMMA StaysFresh ==
    ASSUME LimiterTypeOK, NEW c \in Call, NEW b \in Bucket, Fresh(c, b),
           heldFor'[c][b] = heldFor[c][b], age'[b] <= age[b], age'[b] \in Nat,
           b \in overrun => b \in overrun'
    PROVE  Fresh(c, b)'
<1>1. CASE b \in overrun
    BY <1>1, Zenon DEF Fresh
<1>2. CASE age[b] <= heldFor[c][b]
    <2>1. heldFor[c][b] \in Nat /\ age[b] \in Nat
        BY Times, Zenon
    <2>2. age'[b] <= heldFor'[c][b]
        BY <1>2, <2>1, SMT
    <2> QED BY <2>2, Zenon DEF Fresh
<1> QED BY <1>1, <1>2, Zenon DEF Fresh

\* What a step of one call leaves true of the others.
LEMMA OtherCalls ==
    ASSUME LimiterTypeOK, NEW c \in Call, NEW d \in Call, d # c, CallInv(d),
           pc'[d] = pc[d], permits'[d] = permits[d], heldFor'[d] = heldFor[d],
           \A b \in permits[d] : b \in overrun => b \in overrun',
           \A b \in Bucket : age'[b] <= age[b], \A b \in Bucket : age'[b] \in Nat
    PROVE  CallInv(d)'
<1>1. Asked(d) => Asked(d)'
    BY Zenon DEF Asked
<1>2. ASSUME NEW b \in permits'[d] PROVE Fresh(d, b)'
    <2>1. b \in Bucket /\ Fresh(d, b) /\ heldFor'[d][b] = heldFor[d][b]
        BY <1>2, Zenon DEF LimiterTypeOK, CallInv
    <2> QED BY <1>2, <2>1, StaysFresh, Zenon
<1> QED BY <1>1, <1>2, Zenon DEF CallInv

\* The same, for a step that leaves the counters' expiry alone.
LEMMA OtherCallsSameAge ==
    ASSUME LimiterInv, NEW c \in Call, NEW d \in Call, d # c,
           pc'[d] = pc[d], permits'[d] = permits[d], heldFor'[d] = heldFor[d],
           \A b \in permits[d] : b \in overrun => b \in overrun', age' = age
    PROVE  CallInv(d)'
<1>1. \A b \in Bucket : age[b] \in Nat
    BY Times, Zenon DEF LimiterInv
<1>2. \A b \in Bucket : age'[b] <= age[b] /\ age'[b] \in Nat
    BY <1>1, SMT
<1> QED BY <1>2, OtherCalls, Zenon DEF LimiterInv

\* A bucket that others hold stays overrun when a permit is given back.
LEMMA StaysOverrun ==
    ASSUME ForgetEmptied, NEW d \in Call, permits'[d] = permits[d]
    PROVE  \A b \in permits[d] : b \in overrun => b \in overrun'
<1>1. ASSUME NEW b \in permits[d], b \in overrun PROVE b \in overrun'
    <2>1. d \in Holders(b)'
        BY <1>1, Zenon DEF Holders
    <2> QED BY <1>1, <2>1, Zenon DEF ForgetEmptied
<1> QED BY <1>1, Zenon

\* A new call has no permits and asks for its first one.
LEMMA EnterStep == ASSUME LimiterInv, NEW c \in Call, Enter(c) PROVE LimiterInv'
<1>1. LimiterTypeOK'
    BY SMT DEF LimiterInv, LimiterTypeOK, Enter, Goes, redisVars
<1>2. permits[c] = {}
    BY Zenon DEF LimiterInv, CallInv, Enter
<1>3. Asked(c)'
    <2>1. 0 < Len(Buckets[c])
        BY LimiterAssumption
    <2>2. 1..0 = {}
        BY SMT
    <2>3. Taken(permits[c], c, 0)
        BY <1>2, <2>2, FS_EmptySet, Zenon DEF Taken, Prefix
    <2> QED BY <2>1, <2>3, Zenon DEF Asked, Enter
<1>4. CallInv(c)'
    BY <1>2, <1>3, Zenon DEF CallInv, Enter, Goes, LimiterInv, LimiterTypeOK, redisVars
<1>5. ASSUME NEW d \in Call, d # c PROVE CallInv(d)'
    BY <1>5, OtherCallsSameAge, Zenon DEF LimiterInv, LimiterTypeOK, Enter, Goes, redisVars
<1>6. \A b \in Bucket : Covers(permits, b, concurrent[b], faults, overrun)'
    BY Zenon DEF LimiterInv, Enter, redisVars, Covers, HoldersOf
<1> QED BY <1>1, <1>4, <1>5, <1>6, Zenon DEF LimiterInv

\* A call that ends keeps its permits for releasePermits.
LEMMA FinishStep == ASSUME LimiterInv, NEW c \in Call, Finish(c) PROVE LimiterInv'
<1>1. LimiterTypeOK'
    BY SMT DEF LimiterInv, LimiterTypeOK, Finish, Goes, redisVars
<1>2. CallInv(c)'
    <2>1. pc'[c] = "releasing"
        BY Zenon DEF LimiterInv, LimiterTypeOK, Finish, Goes
    <2>2. "releasing" # "asking" /\ "releasing" # "idle"
        BY SMT
    <2> QED BY <2>1, <2>2, Zenon DEF CallInv, Fresh, Finish, LimiterInv, redisVars
<1>3. ASSUME NEW d \in Call, d # c PROVE CallInv(d)'
    BY <1>3, OtherCallsSameAge, Zenon DEF LimiterInv, LimiterTypeOK, Finish, Goes, redisVars
<1>4. \A b \in Bucket : Covers(permits, b, concurrent[b], faults, overrun)'
    BY Zenon DEF LimiterInv, Finish, redisVars, Covers, HoldersOf
<1> QED BY <1>1, <1>2, <1>3, <1>4, Zenon DEF LimiterInv

\* A bucket is no longer overrun once nobody holds a permit of it, when any counter covers.
LEMMA Overlooked ==
    ASSUME ForgetEmptied, NEW b \in Bucket, b \in overrun, NEW n \in Nat
    PROVE  b \in overrun' \/ Cardinality(HoldersOf(permits', b)) <= n
<1>1. CASE Holders(b)' = {}
    <2>1. HoldersOf(permits', b) = {}
        BY <1>1, Zenon DEF Holders, HoldersOf
    <2>2. Cardinality(HoldersOf(permits', b)) = 0
        BY <2>1, FS_EmptySet, Zenon
    <2> QED BY <2>2, SMT
<1>2. CASE Holders(b)' # {}
    BY <1>2, Zenon DEF ForgetEmptied
<1> QED BY <1>1, <1>2, Zenon

\* Permits that die with their gateway stay counted until their key expires.
LEMMA CrashStep == ASSUME LimiterInv, NEW c \in Call, Crash(c) PROVE LimiterInv'
<1>a. /\ Fault /\ Goes(c, "idle") /\ ForgetEmptied
      /\ permits' = [permits EXCEPT ![c] = {}]
      /\ heldFor' = [heldFor EXCEPT ![c] = [b \in Bucket |-> 0]]
      /\ UNCHANGED <<minute, requests, tokens, concurrent, age>>
    BY Zenon DEF Crash, redisVars
<1>b. LimiterTypeOK
    BY Zenon DEF LimiterInv
<1>1. LimiterTypeOK'
    <2>1. faults' \in 0..MaxFaults
        BY <1>a, <1>b, LimiterAssumption, SMT DEF Fault, LimiterTypeOK
    <2>2. 0 \in 0..ConcurrencyTTL - 1
        BY LimiterAssumption, SMT
    <2>3. /\ heldFor' \in [Call -> [Bucket -> 0..ConcurrencyTTL - 1]]
          /\ permits' \in [Call -> SUBSET Bucket]
          /\ pc' \in [Call -> {"idle", "asking", "running", "releasing"}]
        BY <1>a, <1>b, <2>2, Zenon DEF LimiterTypeOK, Goes
    <2>4. overrun' \subseteq Bucket
        BY <1>a, <1>b, Zenon DEF LimiterTypeOK, ForgetEmptied
    <2> QED BY <1>a, <1>b, <2>1, <2>3, <2>4, Zenon DEF LimiterTypeOK
<1>2. CallInv(c)'
    <2>1. pc'[c] = "idle" /\ permits'[c] = {}
        BY <1>a, <1>b, Zenon DEF LimiterTypeOK, Goes
    <2>2. "idle" # "asking"
        BY SMT
    <2> QED BY <2>1, <2>2, Zenon DEF CallInv
<1>3. ASSUME NEW d \in Call, d # c PROVE CallInv(d)'
    <2>1. pc'[d] = pc[d] /\ permits'[d] = permits[d] /\ heldFor'[d] = heldFor[d] /\ age' = age
        BY <1>a, <1>b, <1>3, Zenon DEF LimiterTypeOK, Goes
    <2> QED BY <1>a, <1>3, <2>1, StaysOverrun, OtherCallsSameAge, Zenon
<1>4. ASSUME NEW b \in Bucket PROVE Covers(permits, b, concurrent[b], faults, overrun)'
    <2>1. /\ IsFiniteSet(HoldersOf(permits', b))
          /\ Cardinality(HoldersOf(permits', b)) <= Cardinality(HoldersOf(permits, b))
        BY <1>a, Drop, Zenon DEF LimiterInv, LimiterTypeOK, Covers
    <2>2. /\ Cardinality(HoldersOf(permits', b)) \in Nat /\ Cardinality(HoldersOf(permits, b)) \in Nat
          /\ concurrent[b] \in Nat
        <3>1. concurrent[b] \in 0..MaxConcurrent /\ MaxConcurrent \in Nat
            BY <1>b, LimiterAssumption DEF LimiterTypeOK
        <3>2. concurrent[b] \in Nat
            BY <3>1, SMT
        <3> QED BY <2>1, <3>2, FS_CardinalityType, Zenon DEF LimiterInv, Covers
    <2>3. faults' # 0 /\ concurrent' = concurrent
        BY <1>a, <1>b, SMT DEF LimiterTypeOK, Fault
    <2>4. b \in overrun' \/ Cardinality(HoldersOf(permits', b)) <= concurrent'[b]
        <3>1. CASE Cardinality(HoldersOf(permits, b)) <= concurrent[b]
            BY <2>1, <2>2, <2>3, <3>1, SMT
        <3>2. CASE b \in overrun
            BY <1>a, <2>2, <2>3, <3>2, Overlooked, Zenon
        <3> QED BY <3>1, <3>2, Zenon DEF LimiterInv, Covers
    <2> QED BY <2>1, <2>3, <2>4, Zenon DEF Covers, HoldersOf
<1> QED BY <1>1, <1>2, <1>3, <1>4, Zenon DEF LimiterInv


\* A call that has returned its permits is idle.
LEMMA ReleasedStep == ASSUME LimiterInv, NEW c \in Call, Released(c) PROVE LimiterInv'
<1>1. LimiterTypeOK'
    BY LimiterAssumption, SMT DEF LimiterInv, LimiterTypeOK, Released, Goes, redisVars
<1>2. CallInv(c)'
    <2>1. pc'[c] = "idle" /\ permits'[c] = {}
        BY Zenon DEF LimiterInv, LimiterTypeOK, Released, Goes
    <2>2. "idle" # "asking"
        BY SMT
    <2> QED BY <2>1, <2>2, Zenon DEF CallInv
<1>3. ASSUME NEW d \in Call, d # c PROVE CallInv(d)'
    BY <1>3, OtherCallsSameAge, Zenon DEF LimiterInv, LimiterTypeOK, Released, Goes, redisVars
<1>4. \A b \in Bucket : Covers(permits, b, concurrent[b], faults, overrun)'
    BY Zenon DEF LimiterInv, Released, redisVars, Covers, HoldersOf
<1> QED BY <1>1, <1>2, <1>3, <1>4, Zenon DEF LimiterInv

\* A released permit leaves its counter no lower than its other holders: the counter
\* falls with the permit, or, when the call to Redis fails, not at all.
LEMMA ReleaseStep ==
    ASSUME LimiterInv, NEW c \in Call, NEW x \in Bucket, Release(c, x) PROVE LimiterInv'
<1>0. "releasing" # "asking" /\ "releasing" # "idle"
    BY SMT
<1>1. /\ UNCHANGED <<minute, pc, requests, tokens, age>>
      /\ heldFor' = [heldFor EXCEPT ![c][x] = 0] /\ ForgetEmptied
      /\ pc[c] = "releasing" /\ x \in permits[c]
      /\ permits' = [permits EXCEPT ![c] = @ \ {x}]
    BY Zenon DEF Release, IsFirstPermit
<1>2. PICK reply \in Reply :
         Answers(reply) /\ IF reply = "error" THEN UNCHANGED concurrent ELSE Decrement(x)
    BY Zenon DEF Release
<1>a. /\ faults \in 0..MaxFaults /\ MaxFaults \in Nat
      /\ concurrent \in [Bucket -> 0..MaxConcurrent]
      /\ permits \in [Call -> SUBSET Bucket]
    BY LimiterAssumption, Zenon DEF LimiterInv, LimiterTypeOK
<1>b. MaxConcurrent \in Nat
    BY LimiterAssumption, SMT
<1>3. /\ faults \in Nat /\ faults' \in 0..MaxFaults
      /\ faults' = 0 => faults = 0 /\ reply # "error"
    <2>1. Answers(reply)
        BY <1>2, Zenon
    <2> QED BY <1>a, <2>1, SMT DEF Answers, Fault
<1>4. concurrent' \in [Bucket -> 0..MaxConcurrent]
    <2>1. UNCHANGED concurrent \/ Decrement(x)
        BY <1>2, Zenon
    <2> QED BY <1>a, <1>b, <2>1, SMT DEF Decrement
<1>5. permits' \in [Call -> SUBSET Bucket] /\ permits'[c] \subseteq permits[c]
    BY <1>1, Zenon DEF LimiterInv, LimiterTypeOK
<1>c. /\ heldFor' \in [Call -> [Bucket -> 0..ConcurrencyTTL - 1]]
      /\ \A d \in Call \ {c} : heldFor'[d] = heldFor[d]
      /\ \A b \in Bucket \ {x} : heldFor'[c][b] = heldFor[c][b]
    <2>0. 0 \in 0..ConcurrencyTTL - 1
        BY LimiterAssumption, SMT
    <2>1. heldFor \in [Call -> [Bucket -> 0..ConcurrencyTTL - 1]] /\ 0 \in 0..ConcurrencyTTL - 1
        BY <2>0, Zenon DEF LimiterInv, LimiterTypeOK
    <2> DEFINE row == [heldFor[c] EXCEPT ![x] = 0]
    <2>2. row \in [Bucket -> 0..ConcurrencyTTL - 1] /\ \A b \in Bucket \ {x} : row[b] = heldFor[c][b]
        BY <2>1, Zenon
    <2>3. heldFor' = [heldFor EXCEPT ![c] = row]
        BY <1>1, Zenon
    <2> HIDE DEF row
    <2> QED BY <2>1, <2>2, <2>3, Zenon
<1>6. LimiterTypeOK'
    <2>1. overrun' \subseteq Bucket
        BY <1>1, Zenon DEF LimiterInv, LimiterTypeOK, ForgetEmptied
    <2> QED BY <1>1, <1>3, <1>4, <1>5, <1>c, <2>1, Zenon DEF LimiterInv, LimiterTypeOK
<1>7. CallInv(c)'
    <2>1. ASSUME NEW b \in permits'[c] PROVE Fresh(c, b)'
        <3>1. b \in permits[c] /\ b # x /\ b \in Bucket
            BY <1>a, <1>1, <2>1, Zenon
        <3>2. c \in Holders(b)'
            BY <2>1, Zenon DEF Holders
        <3>3. b \in overrun => b \in overrun'
            BY <1>1, <3>2, Zenon DEF ForgetEmptied
        <3>4. heldFor'[c][b] = heldFor[c][b] /\ age' = age /\ Fresh(c, b)
            BY <1>1, <1>c, <3>1, Zenon DEF LimiterInv, CallInv
        <3> QED BY <3>3, <3>4, Zenon DEF Fresh
    <2> QED BY <1>0, <1>1, <2>1, Zenon DEF CallInv
<1>8. ASSUME NEW d \in Call, d # c PROVE CallInv(d)'
    <2>1. pc'[d] = pc[d] /\ permits'[d] = permits[d] /\ heldFor'[d] = heldFor[d] /\ age' = age
        BY <1>1, <1>8, <1>c, Zenon DEF LimiterInv, LimiterTypeOK
    <2> QED BY <1>1, <1>8, <2>1, StaysOverrun, OtherCallsSameAge, Zenon
<1>9. /\ \A d \in Bucket \ {x} : HoldersOf(permits', d) = HoldersOf(permits, d)
      /\ IsFiniteSet(HoldersOf(permits', x))
      /\ Cardinality(HoldersOf(permits', x)) = Cardinality(HoldersOf(permits, x)) - 1
    <2>1. IsFiniteSet(HoldersOf(permits, x))
        BY Zenon DEF LimiterInv, Covers
    <2>2. permits \in [Call -> SUBSET Bucket]
        BY <1>a
    <2>3. Loses(permits, permits', c, x)
        BY <1>1 DEF Loses
    <2>4. OneLess(permits, permits', x)
        BY <2>1, <2>2, <2>3, Shrink, Zenon
    <2> QED BY <2>4, Zenon DEF OneLess
<1>10. ASSUME NEW b \in Bucket, b # x PROVE Covers(permits, b, concurrent[b], faults, overrun)'
    <2>1. concurrent'[b] = concurrent[b]
        BY <1>2, <1>10, Zenon DEF LimiterInv, LimiterTypeOK, Decrement
    <2>2. concurrent[b] \in Nat
        BY <1>a, <1>b, SMT
    <2>3. b \in overrun' \/ Cardinality(HoldersOf(permits', b)) <= concurrent'[b]
        BY <1>1, <1>9, <1>10, <2>1, <2>2, Overlooked, Zenon DEF LimiterInv, Covers
    <2> QED BY <1>3, <1>9, <1>10, <2>1, <2>3, Zenon DEF LimiterInv, Covers, HoldersOf
<1>11. Covers(permits, x, concurrent[x], faults, overrun)'
    <2>1. /\ IsFiniteSet(HoldersOf(permits, x)) /\ IsFiniteSet(HoldersOf(permits', x))
          /\ Cardinality(HoldersOf(permits', x)) = Cardinality(HoldersOf(permits, x)) - 1
          /\ x \in overrun \/ Cardinality(HoldersOf(permits, x)) <= concurrent[x]
          /\ faults = 0 => concurrent[x] <= Cardinality(HoldersOf(permits, x))
        BY <1>9, Zenon DEF LimiterInv, Covers
    <2>2. Cardinality(HoldersOf(permits, x)) \in Nat /\ Cardinality(HoldersOf(permits', x)) \in Nat
        BY <2>1, FS_CardinalityType, Zenon
    <2>3. /\ concurrent[x] \in Nat
          /\ IF reply = "error" THEN concurrent'[x] = concurrent[x]
               ELSE concurrent'[x] = IF concurrent[x] <= 1 THEN 0 ELSE concurrent[x] - 1
        <3>1. IF reply = "error" THEN UNCHANGED concurrent ELSE Decrement(x)
            BY <1>2, Zenon
        <3> QED BY <1>a, <1>b, <3>1, SMT DEF Decrement
    <2>4. /\ Cardinality(HoldersOf(permits, x)) <= concurrent[x] =>
               Cardinality(HoldersOf(permits', x)) <= concurrent'[x]
          /\ faults' = 0 => concurrent'[x] <= Cardinality(HoldersOf(permits', x))
          /\ concurrent'[x] \in Nat
        BY <1>3, <2>1, <2>2, <2>3, SMT
    <2>5. x \in overrun' \/ Cardinality(HoldersOf(permits', x)) <= concurrent'[x]
        BY <1>1, <2>1, <2>4, Overlooked, Zenon
    <2> QED BY <2>1, <2>4, <2>5, Zenon DEF Covers, HoldersOf
<1> QED BY <1>6, <1>7, <1>8, <1>10, <1>11, Zenon DEF LimiterInv

\* What admit's next Allow comes to: a permit; a permit that Redis counts and the
\* caller does not learn of; or nothing.
Granted(c, b) == /\ Admits(b, c) /\ Consume(b, c) /\ UNCHANGED faults
                 /\ permits' = [permits EXCEPT ![c] = @ \cup {b}]
                 /\ Goes(c, IF Cardinality(permits[c]) + 1 = Len(Buckets[c]) THEN "running" ELSE "asking")
Uncounted(c, b) == /\ Admits(b, c) /\ Consume(b, c) /\ Fault /\ UNCHANGED permits
                   /\ Goes(c, "releasing") \/ UNCHANGED pc
Refused(c) == /\ UNCHANGED redisVars /\ (UNCHANGED faults \/ Fault)
              /\ Goes(c, "releasing") /\ UNCHANGED permits

\* An Allow has one of these three results (redis.go).
LEMMA AskCases ==
    ASSUME NEW c \in Call, Ask(c)
    PROVE  /\ Granted(c, NextBucket(c)) \/ Uncounted(c, NextBucket(c)) \/ Refused(c)
           /\ pc[c] = "asking" /\ UNCHANGED <<minute, heldFor, overrun>>
<1> DEFINE b == NextBucket(c)
<1>1. PICK reply \in Reply :
         /\ Answers(reply)
         /\ IF reply = "error" THEN UNCHANGED redisVars
            ELSE IF Admits(b, c) THEN Consume(b, c) ELSE Reject(b)
         /\ IF reply = "ok" /\ Admits(b, c)
              THEN /\ permits' = [permits EXCEPT ![c] = @ \cup {b}]
                   /\ Goes(c, IF Cardinality(permits[c]) + 1 = Len(Buckets[c]) THEN "running" ELSE "asking")
              ELSE Goes(c, "releasing") /\ UNCHANGED permits
    BY Zenon DEF Ask
<1> HIDE DEF b
<1>0. "ok" # "error" /\ "lost" # "error" /\ "lost" # "ok" /\ reply \in {"ok", "error", "lost"}
    BY SMT DEF Reply
<1>2. Granted(c, b) \/ Uncounted(c, b) \/ Refused(c)
    <2>1. CASE ~Admits(b, c) \/ reply = "error"
        BY <1>0, <1>1, <2>1, Zenon DEF Refused, Answers, Reject
    <2>2. CASE Admits(b, c) /\ reply = "ok"
        BY <1>0, <1>1, <2>2, Zenon DEF Granted, Answers
    <2>3. CASE Admits(b, c) /\ reply = "lost"
        BY <1>0, <1>1, <2>3, Zenon DEF Uncounted, Answers
    <2> QED BY <1>0, <2>1, <2>2, <2>3, Zenon
<1> QED BY <1>2, Zenon DEF Ask, b

\* allowScript keeps the counters within their limits, adds one to the concurrency
\* counter of its bucket and refreshes its expiry.
LEMMA ConsumeKeeps ==
    ASSUME LimiterTypeOK, NEW c \in Call, NEW b \in Bucket, Admits(b, c), Consume(b, c)
    PROVE  /\ requests' \in [Bucket -> 0..RequestsPerMinute]
           /\ tokens' \in [Bucket -> 0..TokensPerMinute]
           /\ concurrent' \in [Bucket -> 0..MaxConcurrent]
           /\ age' \in [Bucket -> 0..ConcurrencyTTL - 1]
           /\ concurrent[b] \in Nat /\ concurrent'[b] = concurrent[b] + 1
           /\ \A d \in Bucket \ {b} : concurrent'[d] = concurrent[d]
           /\ age'[b] = 0 /\ \A d \in Bucket : age'[d] <= age[d]
<1>1. /\ requests \in [Bucket -> 0..RequestsPerMinute] /\ tokens \in [Bucket -> 0..TokensPerMinute]
      /\ concurrent \in [Bucket -> 0..MaxConcurrent] /\ age \in [Bucket -> 0..ConcurrencyTTL - 1]
    BY Zenon DEF LimiterTypeOK
<1>2. /\ RequestsPerMinute \in Nat /\ TokensPerMinute \in Nat /\ MaxConcurrent \in Nat
      /\ Tokens[c] \in Nat /\ ConcurrencyTTL \in Nat /\ 0 \in 0..ConcurrencyTTL - 1
    BY LimiterAssumption, SMT
<1>3. requests' \in [Bucket -> 0..RequestsPerMinute]
    BY <1>1, <1>2, SMT DEF Admits, Consume
<1>4. tokens' \in [Bucket -> 0..TokensPerMinute]
    BY <1>1, <1>2, SMT DEF Admits, Consume
<1>5. concurrent' \in [Bucket -> 0..MaxConcurrent]
    BY <1>1, <1>2, SMT DEF Admits, Consume
<1>6. age' \in [Bucket -> 0..ConcurrencyTTL - 1]
    BY <1>1, <1>2, SMT DEF Consume
<1>7. concurrent[b] \in Nat /\ concurrent'[b] = concurrent[b] + 1
    BY <1>1, <1>2, SMT DEF Consume
<1>8. \A d \in Bucket \ {b} : concurrent'[d] = concurrent[d]
    BY <1>1, Zenon DEF Consume
<1>9. age'[b] = 0 /\ \A d \in Bucket : age'[d] <= age[d]
    BY <1>1, <1>2, SMT DEF Consume
<1> QED BY <1>3, <1>4, <1>5, <1>6, <1>7, <1>8, <1>9, Zenon

\* A permit granted is counted, and the call goes on to its next bucket or runs.
LEMMA GrantedStep ==
    ASSUME LimiterInv, NEW c \in Call, pc[c] = "asking", UNCHANGED <<minute, heldFor, overrun>>,
           Granted(c, NextBucket(c))
    PROVE  LimiterInv'
<1>b. PICK b : b = NextBucket(c)
    OBVIOUS
<1>n. PICK n : n = Cardinality(permits[c])
    OBVIOUS
<1>1. Asked(c)
    BY Zenon DEF LimiterInv, CallInv
<1>2. /\ b \in Bucket /\ b \notin permits[c]
      /\ n \in Nat /\ n < Len(Buckets[c]) /\ Taken(permits[c] \cup {b}, c, n + 1)
    BY <1>1, <1>b, <1>n, NextIsNew, Zenon
<1>3. /\ Admits(b, c) /\ Consume(b, c) /\ faults' = faults
      /\ permits' = [permits EXCEPT ![c] = @ \cup {b}]
      /\ pc' = [pc EXCEPT ![c] = IF n + 1 = Len(Buckets[c]) THEN "running" ELSE "asking"]
    BY <1>b, <1>n, Zenon DEF Granted, Goes
<1>a. LimiterTypeOK
    BY Zenon DEF LimiterInv
<1>4. /\ requests' \in [Bucket -> 0..RequestsPerMinute] /\ tokens' \in [Bucket -> 0..TokensPerMinute]
      /\ concurrent' \in [Bucket -> 0..MaxConcurrent] /\ age' \in [Bucket -> 0..ConcurrencyTTL - 1]
      /\ concurrent[b] \in Nat /\ concurrent'[b] = concurrent[b] + 1
      /\ \A d \in Bucket \ {b} : concurrent'[d] = concurrent[d]
      /\ age'[b] = 0 /\ \A d \in Bucket : age'[d] <= age[d]
    BY <1>a, <1>2, <1>3, ConsumeKeeps, Zenon
<1>5. permits' \in [Call -> SUBSET Bucket]
    BY <1>a, <1>2, <1>3, Zenon DEF LimiterTypeOK
<1>6. LimiterTypeOK'
    BY <1>a, <1>3, <1>4, <1>5, Zenon DEF LimiterTypeOK
<1>7. CallInv(c)'
    <2>1. permits'[c] = permits[c] \cup {b}
        BY <1>a, <1>3, Zenon DEF LimiterTypeOK
    <2>2. pc'[c] = IF n + 1 = Len(Buckets[c]) THEN "running" ELSE "asking"
        BY <1>a, <1>3, Zenon DEF LimiterTypeOK
    <2>3. ASSUME pc'[c] = "asking" PROVE Asked(c)'
        <3>1. n + 1 # Len(Buckets[c])
            BY <2>2, <2>3, SMT
        <3>2. n + 1 \in Nat /\ n + 1 < Len(Buckets[c])
            <4>1. Len(Buckets[c]) \in Nat
                BY LimiterAssumption
            <4> QED BY <1>2, <3>1, <4>1, SMT
        <3> QED BY <1>2, <2>1, <3>2, Zenon DEF Asked
    <2>4. pc'[c] # "idle"
        BY <2>2, SMT
    <2>5. ASSUME NEW d \in permits'[c] PROVE Fresh(c, d)'
        <3>1. CASE d = b
            <4>1. heldFor'[c][b] = heldFor[c][b] /\ heldFor[c][b] \in Nat
                BY <1>a, <1>2, Times, Zenon
            <4>2. age'[b] <= heldFor'[c][b]
                BY <1>4, <4>1, SMT
            <4> QED BY <3>1, <4>2, Zenon DEF Fresh
        <3>2. CASE d # b
            <4>1. d \in permits[c] /\ d \in Bucket
                BY <1>a, <2>1, <2>5, <3>2, Zenon DEF LimiterTypeOK
            <4>2. Fresh(c, d) /\ age'[d] <= age[d] /\ heldFor'[c][d] = heldFor[c][d]
                BY <1>4, <4>1, Zenon DEF LimiterInv, CallInv
            <4>3. age'[d] \in Nat
                BY <1>4, <4>1, LimiterAssumption, SMT
            <4> QED BY <1>a, <4>1, <4>2, <4>3, StaysFresh, Zenon
        <3> QED BY <3>1, <3>2, Zenon
    <2> QED BY <2>3, <2>4, <2>5, Zenon DEF CallInv
<1>8. ASSUME NEW d \in Call, d # c PROVE CallInv(d)'
    <2>1. pc'[d] = pc[d] /\ permits'[d] = permits[d] /\ heldFor'[d] = heldFor[d]
        BY <1>a, <1>3, <1>8, Zenon DEF LimiterTypeOK
    <2>2. \A x \in Bucket : age'[x] \in Nat
        BY <1>4, LimiterAssumption, SMT
    <2>3. CallInv(d)
        BY Zenon DEF LimiterInv
    <2> QED BY <1>8, <1>a, <1>4, <2>1, <2>2, <2>3, OtherCalls, Zenon
<1>9. OneMore(permits, permits', b)
    <2>1. IsFiniteSet(HoldersOf(permits, b)) /\ permits \in [Call -> SUBSET Bucket]
        BY <1>2, Zenon DEF LimiterInv, LimiterTypeOK, Covers
    <2>2. Gains(permits, permits', c, b)
        BY <1>2, <1>3, Zenon DEF Gains
    <2> QED BY <1>2, <2>1, <2>2, Grow, Zenon
<1>10. ASSUME NEW d \in Bucket, d # b PROVE Covers(permits, d, concurrent[d], faults, overrun)'
    BY <1>3, <1>4, <1>9, <1>10, Zenon DEF LimiterInv, Covers, HoldersOf, OneMore
<1>11. Covers(permits, b, concurrent[b], faults, overrun)'
    <2>1. /\ IsFiniteSet(HoldersOf(permits, b)) /\ IsFiniteSet(HoldersOf(permits', b))
          /\ Cardinality(HoldersOf(permits', b)) = Cardinality(HoldersOf(permits, b)) + 1
          /\ b \in overrun \/ Cardinality(HoldersOf(permits, b)) <= concurrent[b]
          /\ faults = 0 => concurrent[b] <= Cardinality(HoldersOf(permits, b))
        BY <1>2, <1>9, Zenon DEF LimiterInv, Covers, OneMore
    <2>2. Cardinality(HoldersOf(permits, b)) \in Nat
        BY <2>1, FS_CardinalityType, Zenon
    <2>3. /\ Cardinality(HoldersOf(permits, b)) <= concurrent[b] =>
               Cardinality(HoldersOf(permits', b)) <= concurrent'[b]
          /\ faults' = 0 => concurrent'[b] <= Cardinality(HoldersOf(permits', b))
        BY <1>3, <1>4, <2>1, <2>2, SMT
    <2>4. Covers(permits', b, concurrent'[b], faults', overrun')
        BY <2>1, <2>3, Zenon DEF Covers
    <2> QED BY <2>4, Zenon DEF Covers, HoldersOf
<1> QED BY <1>6, <1>7, <1>8, <1>10, <1>11, Zenon DEF LimiterInv

\* A permit whose answer was lost stays counted until its key expires.
LEMMA UncountedStep ==
    ASSUME LimiterInv, NEW c \in Call, pc[c] = "asking", UNCHANGED <<minute, heldFor, overrun>>,
           NEW b \in Bucket, Uncounted(c, b)
    PROVE  LimiterInv'
<1>1. /\ Admits(b, c) /\ Consume(b, c) /\ Fault /\ permits' = permits
      /\ pc' = [pc EXCEPT ![c] = "releasing"] \/ pc' = pc
    BY Zenon DEF Uncounted, Goes
<1>2. LimiterTypeOK
    BY Zenon DEF LimiterInv
<1>3. /\ requests' \in [Bucket -> 0..RequestsPerMinute] /\ tokens' \in [Bucket -> 0..TokensPerMinute]
      /\ concurrent' \in [Bucket -> 0..MaxConcurrent] /\ age' \in [Bucket -> 0..ConcurrencyTTL - 1]
      /\ concurrent[b] \in Nat /\ concurrent'[b] = concurrent[b] + 1
      /\ \A d \in Bucket \ {b} : concurrent'[d] = concurrent[d]
      /\ \A d \in Bucket : age'[d] <= age[d]
    BY <1>1, <1>2, ConsumeKeeps, Zenon
<1>4. faults' \in 0..MaxFaults /\ faults' # 0
    <2>1. faults \in 0..MaxFaults /\ MaxFaults \in Nat /\ Fault
        BY <1>1, <1>2, LimiterAssumption, Zenon DEF LimiterTypeOK
    <2> QED BY <2>1, SMT DEF Fault
<1>5. LimiterTypeOK'
    BY <1>1, <1>2, <1>3, <1>4, Zenon DEF LimiterTypeOK
<1>6. \A x \in Bucket : age'[x] \in Nat
    BY <1>3, LimiterAssumption, SMT
<1>7. CallInv(c)'
    <2>1. pc'[c] \in {"asking", "releasing"} /\ Asked(c)'
        BY <1>1, <1>2, Zenon DEF LimiterTypeOK, LimiterInv, CallInv, Asked
    <2>2. "releasing" # "idle" /\ "asking" # "idle"
        BY SMT
    <2>3. ASSUME NEW d \in permits'[c] PROVE Fresh(c, d)'
        <3>1. d \in permits[c] /\ d \in Bucket
            BY <1>1, <1>2, <2>3, Zenon DEF LimiterTypeOK
        <3>2. Fresh(c, d) /\ age'[d] <= age[d] /\ age'[d] \in Nat /\ heldFor'[c][d] = heldFor[c][d]
            BY <1>3, <1>6, <3>1, Zenon DEF LimiterInv, CallInv
        <3> QED BY <1>2, <3>1, <3>2, StaysFresh, Zenon
    <2> QED BY <2>1, <2>2, <2>3, Zenon DEF CallInv
<1>8. ASSUME NEW d \in Call, d # c PROVE CallInv(d)'
    <2>1. pc'[d] = pc[d] /\ permits'[d] = permits[d] /\ heldFor'[d] = heldFor[d]
        BY <1>1, <1>2, <1>8, Zenon DEF LimiterTypeOK
    <2>2. CallInv(d)
        BY Zenon DEF LimiterInv
    <2> QED BY <1>2, <1>3, <1>6, <1>8, <2>1, <2>2, OtherCalls, Zenon
<1>9. ASSUME NEW d \in Bucket PROVE Covers(permits, d, concurrent[d], faults, overrun)'
    <2>1. concurrent[d] \in Nat /\ concurrent'[d] \in Nat /\ concurrent[d] <= concurrent'[d]
        <3>1. concurrent \in [Bucket -> 0..MaxConcurrent]
            BY <1>2, Zenon DEF LimiterTypeOK
        <3>2. concurrent[d] \in Nat /\ concurrent'[d] \in Nat
            BY <1>3, <3>1, SMT
        <3>3. CASE d = b
            BY <1>3, <3>2, <3>3, SMT
        <3>4. CASE d # b
            BY <1>3, <3>2, <3>4, SMT
        <3> QED BY <3>2, <3>3, <3>4, Zenon
    <2>2. /\ IsFiniteSet(HoldersOf(permits, d))
          /\ d \in overrun \/ Cardinality(HoldersOf(permits, d)) <= concurrent[d]
        BY Zenon DEF LimiterInv, Covers
    <2>3. Cardinality(HoldersOf(permits, d)) \in Nat
        BY <2>2, FS_CardinalityType, Zenon
    <2>4. Cardinality(HoldersOf(permits, d)) <= concurrent[d] =>
            Cardinality(HoldersOf(permits, d)) <= concurrent'[d]
        BY <2>1, <2>3, SMT
    <2> QED BY <1>1, <1>4, <2>2, <2>4, Zenon DEF Covers, HoldersOf
<1> QED BY <1>5, <1>7, <1>8, <1>9, Zenon DEF LimiterInv

\* A call that Allow refuses, or that cannot reach Redis, gives its permits back.
LEMMA RefusedStep ==
    ASSUME LimiterInv, NEW c \in Call, pc[c] = "asking", UNCHANGED <<minute, heldFor, overrun>>, Refused(c)
    PROVE  LimiterInv'
<1>1. /\ UNCHANGED <<requests, tokens, concurrent, age>> /\ permits' = permits
      /\ pc' = [pc EXCEPT ![c] = "releasing"]
    BY Zenon DEF Refused, Goes, redisVars
<1>2. faults' \in 0..MaxFaults /\ (faults' = 0 => faults = 0)
    <2>1. faults \in 0..MaxFaults /\ MaxFaults \in Nat /\ (faults' = faults \/ Fault)
        BY LimiterAssumption, Zenon DEF LimiterInv, LimiterTypeOK, Refused
    <2> QED BY <2>1, SMT DEF Fault
<1>3. LimiterTypeOK'
    BY <1>1, <1>2, Zenon DEF LimiterInv, LimiterTypeOK
<1>4. CallInv(c)'
    <2>1. pc'[c] = "releasing"
        BY <1>1, Zenon DEF LimiterInv, LimiterTypeOK
    <2>2. "releasing" # "asking" /\ "releasing" # "idle"
        BY SMT
    <2> QED BY <1>1, <2>1, <2>2, Zenon DEF CallInv, Fresh, LimiterInv
<1>5. ASSUME NEW d \in Call, d # c PROVE CallInv(d)'
    BY <1>1, <1>5, OtherCallsSameAge, Zenon DEF LimiterInv, LimiterTypeOK
<1>6. \A b \in Bucket : Covers(permits, b, concurrent[b], faults, overrun)'
    BY <1>1, <1>2, Zenon DEF LimiterInv, Covers, HoldersOf
<1> QED BY <1>3, <1>4, <1>5, <1>6, Zenon DEF LimiterInv

\* Every result of an Allow keeps the counters right.
LEMMA AskStep == ASSUME LimiterInv, NEW c \in Call, Ask(c) PROVE LimiterInv'
<1>1. /\ Granted(c, NextBucket(c)) \/ Uncounted(c, NextBucket(c)) \/ Refused(c)
      /\ pc[c] = "asking" /\ UNCHANGED <<minute, heldFor, overrun>>
    BY AskCases, Zenon
<1>2. NextBucket(c) \in Bucket
    BY <1>1, NextIsNew, Zenon DEF LimiterInv, CallInv
<1> QED BY <1>1, <1>2, GrantedStep, UncountedStep, RefusedStep, Zenon

\* An admission that the Redis client repeats is counted once more, for nobody.
LEMMA AskRetriedStep == ASSUME LimiterInv, NEW c \in Call, AskRetried(c) PROVE LimiterInv'
<1>1. Uncounted(c, NextBucket(c)) /\ pc[c] = "asking" /\ UNCHANGED <<minute, heldFor, overrun>>
    BY Zenon DEF AskRetried, Uncounted
<1>2. NextBucket(c) \in Bucket
    BY <1>1, NextIsNew, Zenon DEF LimiterInv, CallInv
<1> QED BY <1>1, <1>2, UncountedStep, Zenon

\* A release that the Redis client repeats makes its bucket overrun.
LEMMA ReleaseRetriedStep ==
    ASSUME LimiterInv, NEW c \in Call, NEW x \in Bucket, ReleaseRetried(c, x) PROVE LimiterInv'
<1>1. /\ UNCHANGED <<minute, pc, permits, heldFor, requests, tokens, age>>
      /\ Fault /\ Decrement(x) /\ overrun' = overrun \cup {x}
    BY Zenon DEF ReleaseRetried
<1>2. LimiterTypeOK /\ MaxFaults \in Nat
    BY LimiterAssumption, Zenon DEF LimiterInv
<1>3. faults' \in 0..MaxFaults /\ faults' # 0
    BY <1>1, <1>2, SMT DEF LimiterTypeOK, Fault
<1>4. concurrent' \in [Bucket -> 0..MaxConcurrent] /\ \A b \in Bucket \ {x} : concurrent'[b] = concurrent[b]
    <2>1. concurrent \in [Bucket -> 0..MaxConcurrent]
        BY <1>2, Zenon DEF LimiterTypeOK
    <2>2. MaxConcurrent \in Nat
        BY LimiterAssumption, SMT
    <2> QED BY <1>1, <2>1, <2>2, SMT DEF Decrement
<1>5. LimiterTypeOK'
    BY <1>1, <1>2, <1>3, <1>4, Zenon DEF LimiterTypeOK
<1>6. ASSUME NEW d \in Call PROVE CallInv(d)'
    BY <1>1, Zenon DEF LimiterInv, CallInv, Asked, Fresh
<1>7. ASSUME NEW b \in Bucket PROVE Covers(permits, b, concurrent[b], faults, overrun)'
    <2>1. Covers(permits, b, concurrent[b], faults, overrun) /\ permits' = permits
        BY <1>1, Zenon DEF LimiterInv
    <2>2. b \in overrun' \/ Cardinality(HoldersOf(permits, b)) <= concurrent'[b]
        BY <1>1, <1>4, <2>1, Zenon DEF Covers
    <2> QED BY <1>3, <2>1, <2>2, Zenon DEF Covers, HoldersOf
<1> QED BY <1>5, <1>6, <1>7, Zenon DEF LimiterInv

\* Time lets the counter of a bucket that is not overrun expire only when nobody holds
\* a permit of it: the permit would be as old as the life of the key.
LEMMA TickStep == ASSUME LimiterInv, Tick PROVE LimiterInv'
<1>1. /\ concurrent \in [Bucket -> 0..MaxConcurrent] /\ age \in [Bucket -> 0..ConcurrencyTTL - 1]
      /\ heldFor \in [Call -> [Bucket -> 0..ConcurrencyTTL - 1]] /\ permits \in [Call -> SUBSET Bucket]
      /\ requests \in [Bucket -> 0..RequestsPerMinute] /\ tokens \in [Bucket -> 0..TokensPerMinute]
      /\ minute \in 0..MinuteLength - 1 /\ overrun \subseteq Bucket /\ LimiterTypeOK
    BY Zenon DEF LimiterInv, LimiterTypeOK
<1>2. /\ RequestsPerMinute \in Nat /\ TokensPerMinute \in Nat /\ MaxConcurrent \in Nat
      /\ ConcurrencyTTL \in Nat \ {0} /\ MinuteLength \in Nat \ {0}
    BY LimiterAssumption, SMT
<1> DEFINE held(c, b) == IF b \in permits[c] /\ heldFor[c][b] + 1 < ConcurrencyTTL
                           THEN heldFor[c][b] + 1 ELSE heldFor[c][b]
<1>3. /\ minute' = (minute + 1) % MinuteLength
      /\ heldFor' = [c \in Call |-> [b \in Bucket |-> held(c, b)]]
      /\ overrun' = overrun \cup {b \in Bucket : \E c \in Holders(b) : heldFor[c][b] + 1 >= ConcurrencyTTL}
      /\ pc' = pc /\ permits' = permits /\ faults' = faults
    BY Zenon DEF Tick
<1>4. concurrent' = [b \in Bucket |-> IF age[b] + 1 >= ConcurrencyTTL THEN 0 ELSE concurrent[b]]
    BY Zenon DEF Tick
<1>5. age' = [b \in Bucket |-> IF concurrent'[b] = 0 THEN 0 ELSE age[b] + 1]
    BY Zenon DEF Tick
<1>6. LimiterTypeOK'
    <2>1. minute' \in 0..MinuteLength - 1
        BY <1>1, <1>2, <1>3, SMT
    <2>2. requests' \in [Bucket -> 0..RequestsPerMinute] /\ tokens' \in [Bucket -> 0..TokensPerMinute]
        BY <1>1, <1>2, SMT DEF Tick
    <2>3. concurrent' \in [Bucket -> 0..MaxConcurrent]
        BY <1>1, <1>2, <1>4, SMT
    <2>4. ASSUME NEW b \in Bucket
          PROVE  (IF concurrent'[b] = 0 THEN 0 ELSE age[b] + 1) \in 0..ConcurrencyTTL - 1
        BY <1>1, <1>2, <1>4, SMT
    <2>5. age' \in [Bucket -> 0..ConcurrencyTTL - 1]
        BY <1>5, <2>4, Zenon
    <2>6. ASSUME NEW c \in Call, NEW b \in Bucket PROVE held(c, b) \in 0..ConcurrencyTTL - 1
        <3>1. heldFor[c][b] \in 0..ConcurrencyTTL - 1
            BY <1>1, Zenon
        <3> QED BY <1>2, <3>1, SMT
    <2> HIDE DEF held
    <2>7. heldFor' \in [Call -> [Bucket -> 0..ConcurrencyTTL - 1]]
        BY <1>3, <2>6, Zenon
    <2> QED BY <1>1, <1>3, <2>1, <2>2, <2>3, <2>5, <2>7, Zenon DEF LimiterTypeOK
<1>7. ASSUME NEW c \in Call, NEW b \in permits[c], b \notin overrun'
      PROVE  age'[b] <= heldFor'[c][b] /\ concurrent'[b] = concurrent[b]
    <2>1. b \in Bucket /\ c \in Holders(b)
        BY <1>1, <1>7, Zenon DEF Holders
    <2>2. b \notin overrun /\ ~(heldFor[c][b] + 1 >= ConcurrencyTTL)
        BY <1>3, <1>7, <2>1, Zenon
    <2>3. age[b] <= heldFor[c][b]
        BY <1>7, <2>2, Zenon DEF LimiterInv, CallInv, Fresh
    <2>4. heldFor[c][b] \in Nat /\ age[b] \in Nat
        BY <1>1, <2>1, Times, Zenon
    <2>5. heldFor[c][b] + 1 < ConcurrencyTTL /\ ~(age[b] + 1 >= ConcurrencyTTL)
        BY <1>2, <2>2, <2>3, <2>4, SMT
    <2>6. heldFor'[c][b] = heldFor[c][b] + 1
        <3>1. heldFor'[c][b] = held(c, b)
            <4> HIDE DEF held
            <4> QED BY <1>3, <2>1, Zenon
        <3> QED BY <1>7, <2>5, <3>1, Zenon
    <2>7. concurrent'[b] = concurrent[b]
        BY <1>4, <2>1, <2>5, Zenon
    <2>8. age'[b] = 0 \/ age'[b] = age[b] + 1
        BY <1>5, <2>1, Zenon
    <2> QED BY <2>3, <2>4, <2>6, <2>7, <2>8, SMT
<1>8. ASSUME NEW c \in Call PROVE CallInv(c)'
    <2>1. Asked(c) => Asked(c)'
        BY <1>3, Zenon DEF Asked
    <2>2. ASSUME NEW b \in permits'[c] PROVE Fresh(c, b)'
        BY <1>3, <1>7, <2>2, Zenon DEF Fresh
    <2> QED BY <1>3, <2>1, <2>2, Zenon DEF CallInv, LimiterInv
<1>9. ASSUME NEW b \in Bucket PROVE Covers(permits, b, concurrent[b], faults, overrun)'
    <2>1. Covers(permits, b, concurrent[b], faults, overrun) /\ overrun \subseteq overrun'
        BY <1>3, Zenon DEF LimiterInv
    <2>2. /\ IsFiniteSet(HoldersOf(permits, b)) /\ Cardinality(HoldersOf(permits, b)) \in Nat
          /\ concurrent[b] \in Nat
        <3>1. concurrent[b] \in Nat
            BY <1>1, <1>2, SMT
        <3> QED BY <2>1, <3>1, FS_CardinalityType, Zenon DEF Covers
    <2>3. concurrent'[b] = 0 \/ concurrent'[b] = concurrent[b]
        BY <1>4, Zenon
    <2>4. faults = 0 => concurrent'[b] <= Cardinality(HoldersOf(permits, b))
        <3>1. faults = 0 => concurrent[b] <= Cardinality(HoldersOf(permits, b))
            BY <2>1, Zenon DEF Covers
        <3> QED BY <2>2, <2>3, <3>1, SMT
    <2>5. b \in overrun' \/ Cardinality(HoldersOf(permits, b)) <= concurrent'[b]
        <3>1. CASE HoldersOf(permits, b) # {}
            BY <1>7, <2>1, <3>1, Zenon DEF HoldersOf, Covers
        <3>2. CASE HoldersOf(permits, b) = {}
            <4>1. Cardinality(HoldersOf(permits, b)) = 0
                BY <3>2, FS_EmptySet, Zenon
            <4> QED BY <2>2, <2>3, <4>1, SMT
        <3> QED BY <3>1, <3>2, Zenon
    <2> QED BY <1>3, <2>2, <2>4, <2>5, Zenon DEF Covers, HoldersOf
<1> QED BY <1>6, <1>8, <1>9, Zenon DEF LimiterInv

------------------------------------------------------------------------------
(* The theorems about the limiter *)

\* At first nobody holds a permit and nothing is counted.
LEMMA LimiterInit == NewLimiter => LimiterInv
<1> SUFFICES ASSUME NewLimiter PROVE LimiterInv
    BY Zenon
<1>1. LimiterTypeOK
    BY LimiterAssumption, SMT DEF NewLimiter, LimiterTypeOK
<1>2. "idle" # "asking"
    BY SMT
<1>3. \A c \in Call : CallInv(c)
    BY <1>2, Zenon DEF NewLimiter, CallInv
<1>4. ASSUME NEW b \in Bucket PROVE Covers(permits, b, concurrent[b], faults, overrun)
    <2>1. HoldersOf(permits, b) = {} /\ concurrent[b] = 0
        BY Zenon DEF NewLimiter, HoldersOf
    <2>2. 0 <= 0
        BY SMT
    <2> QED BY <2>1, <2>2, FS_EmptySet, Zenon DEF Covers
<1> QED BY <1>1, <1>3, <1>4, Zenon DEF LimiterInv

\* Every step of calls, Redis and time keeps the invariant.
LEMMA LimiterStep == LimiterInv /\ [LimiterNext]_limiterVars => LimiterInv'
<1> SUFFICES ASSUME LimiterInv, [LimiterNext]_limiterVars PROVE LimiterInv'
    BY Zenon
<1>1. CASE Tick
    BY <1>1, TickStep, Zenon
<1>2. ASSUME NEW c \in Call, Enter(c) \/ CallStep(c) \/ Crash(c) PROVE LimiterInv'
    BY <1>2, EnterStep, AskStep, FinishStep, ReleasedStep, ReleaseStep, CrashStep, Zenon DEF CallStep
<1>3. ASSUME NEW c \in Call, AskRetried(c) PROVE LimiterInv'
    BY <1>3, AskRetriedStep, Zenon
<1>4. ASSUME NEW c \in Call, NEW b \in Bucket, ReleaseRetried(c, b) PROVE LimiterInv'
    BY <1>4, ReleaseRetriedStep, Zenon
<1>5. CASE UNCHANGED limiterVars
    <2>1. UNCHANGED <<minute, requests, tokens, concurrent, age, pc, permits, heldFor, overrun, faults>>
        BY <1>5, Zenon DEF limiterVars, redisVars
    <2>2. LimiterTypeOK'
        BY <2>1, Zenon DEF LimiterInv, LimiterTypeOK
    <2>3. ASSUME NEW c \in Call PROVE CallInv(c)'
        BY <2>1, Zenon DEF LimiterInv, CallInv, Asked, Fresh
    <2>4. \A b \in Bucket : Covers(permits, b, concurrent[b], faults, overrun)'
        BY <2>1, Zenon DEF LimiterInv, Covers, HoldersOf
    <2> QED BY <2>2, <2>3, <2>4, Zenon DEF LimiterInv
<1> QED BY <1>1, <1>2, <1>3, <1>4, <1>5, Zenon DEF LimiterNext

\* The counters stay within the limits of the tenant's policy: no interleaving of
\* allowScript and finishScript takes a bucket past them (redis.go).
THEOREM LimitsHold == LimiterSpec => []LimiterTypeOK
<1>1. LimiterInv => LimiterTypeOK
    BY Zenon DEF LimiterInv
<1> QED BY <1>1, LimiterInit, LimiterStep, PTL DEF LimiterSpec

\* The counter of a bucket that is not overrun covers the permits held on it, through
\* lost answers, failures, crashes and expiring keys, and without faults no counter is
\* above its permits (redis.go, service.go).
THEOREM PermitsCounted == LimiterSpec => []CounterCoversPermits
<1>1. LimiterInv => CounterCoversPermits
    BY Zenon DEF LimiterInv, Covers, HoldersOf, CounterCoversPermits, Holders
<1> QED BY <1>1, LimiterInit, LimiterStep, PTL DEF LimiterSpec
===============================================================================
