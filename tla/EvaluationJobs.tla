---------------------------- MODULE EvaluationJobs ----------------------------
(* Evaluation jobs: the API that records and publishes them                  *)
(* (internal/evaluationjob/service.go), the RabbitMQ work, retry and dead     *)
(* queues (external, as internal/rabbitmq/rabbitmq.go declares and uses       *)
(* them), the workers of rabbitmq.go and the rows of                          *)
(* internal/persistence/evaluation.go. Each worker is a process of its own;   *)
(* the API calls share one. A process has one Manager, and Publish keeps no   *)
(* more than what PublisherConfirms says of it: success may be owed to the    *)
(* confirmation of an earlier publication whose caller stopped waiting.       *)
EXTENDS Naturals, Sequences

CONSTANTS Job,          \* jobs, by idempotency key
          Client,       \* concurrent API calls
          Worker,
          Api,          \* the process of the API calls
          MaxAttempts,
          FaultKind,    \* which faults strike: database, source, publish, context, channel, crash
          MaxFaults, MaxCommands,   \* bounds: faults, published API commands
          None

Process == Worker \cup {Api}
Message == [job : Job, attempt : 0..MaxAttempts - 1]

ASSUME JobsAssumption ==
    /\ None \notin Job \cup Message
    /\ Api \notin Worker
    /\ MaxAttempts \in Nat \ {0}
    /\ FaultKind \subseteq {"database", "source", "publish", "context", "channel", "crash"}
    /\ MaxFaults \in Nat /\ MaxCommands \in Nat

VARIABLES
    status,       \* evaluation_jobs.status, "absent" without a row
    results,      \* per job: rows of evaluation_results
    completions, failures,  \* per job: EvaluationComplete, EvaluationFailed facts
                            \* in the outbox
    work, retry, dead,     \* the queues: copies of each message
    clientPc, clientJob,   \* each API call
    workerPc, held,        \* each worker: step, the delivery it processes
    channel,      \* per worker: open, closed
    publisher,    \* per process: the channel of its Manager, confirmations nobody has read
    misled,       \* history: jobs with a success of Publish for a message not accepted,
                  \* and none accepted since
    gaveUp,       \* history: a caller of Publish has stopped waiting
    commands, faults

queueVars == <<work, retry, dead>>
rowVars == <<status, results, completions, failures>>
clientVars == <<clientPc, clientJob, commands>>
workerVars == <<workerPc, held, channel>>
publishVars == <<publisher, misled, gaveUp>>
vars == <<rowVars, queueVars, clientVars, workerVars, publishVars, faults>>

NewPublisher == [open |-> TRUE, unread |-> <<>>]
BrokenPublisher == [open |-> FALSE, unread |-> <<>>]

Empty == [m \in Message |-> 0]

Init ==
    /\ status = [j \in Job |-> "absent"]
    /\ results = [j \in Job |-> 0]
    /\ completions = [j \in Job |-> 0]
    /\ failures = [j \in Job |-> 0]
    /\ work = Empty /\ retry = Empty /\ dead = Empty
    /\ clientPc = [c \in Client |-> "idle"]
    /\ clientJob = [c \in Client |-> None]
    /\ workerPc = [w \in Worker |-> "idle"]
    /\ held = [w \in Worker |-> None]
    /\ channel = [w \in Worker |-> "open"]
    /\ publisher = [p \in Process |-> NewPublisher]
    /\ misled = {} /\ gaveUp = FALSE
    /\ commands = 0
    /\ faults = 0

Fault(kind) == kind \in FaultKind /\ faults < MaxFaults /\ faults' = faults + 1
Reply == {"ok", "error", "lost"}
Answers(kind, reply) == IF reply = "ok" THEN UNCHANGED faults ELSE Fault(kind)

Add(queue, m) == [queue EXCEPT ![m] = @ + 1]
Remove(queue, m) == [queue EXCEPT ![m] = @ - 1]
In(queue) == {m \in Message : queue[m] > 0}

------------------------------------------------------------------------------
(* The rows. MarkQueued and MarkRunning give the status after the update. *)

MarkQueued(s) == IF s \in {"PENDING", "FAILED"} THEN "QUEUED" ELSE s
MarkRunning(s) == IF s \in {"PENDING", "QUEUED", "RUNNING", "FAILED"} THEN "RUNNING" ELSE s

\* FailEvaluation looks at no status; a permanent failure commits a fact too.
FailWithoutFact(j, permanent) ==
    /\ status' = [status EXCEPT ![j] = IF permanent THEN "DEAD_LETTERED" ELSE "FAILED"]
    /\ UNCHANGED failures

Fail(j, permanent) ==
    /\ status' = [status EXCEPT ![j] = IF permanent THEN "DEAD_LETTERED" ELSE "FAILED"]
    /\ failures' = [failures EXCEPT ![j] = IF permanent THEN @ + 1 ELSE @]

\* CompleteEvaluation: the first result stays, status and fact are written each time.
Complete(j) ==
    /\ results' = [results EXCEPT ![j] = IF @ = 0 THEN 1 ELSE @]
    /\ status' = [status EXCEPT ![j] = "COMPLETED"]
    /\ completions' = [completions EXCEPT ![j] = @ + 1]
    /\ UNCHANGED failures

------------------------------------------------------------------------------
(* Manager.Publish *)

\* What becomes of a publication by process p: the broker accepts or refuses it and says
\* so, or the channel breaks before the answer, with the message kept or lost. A channel
\* that has broken stays so, and refuses the call at once.
Outcome(p) == IF publisher[p].open THEN {"ack", "nack", "kept", "lost"} ELSE {"refused"}
Accepted(outcome) == outcome \in {"ack", "kept"}

\* The broker's answer joins the confirmations that nobody has read. A caller that waits
\* takes the oldest of them for its own, one whose context ends leaves them all.
Unread(p, outcome) ==
    IF outcome \in {"ack", "nack"} THEN Append(publisher[p].unread, outcome) ELSE publisher[p].unread
Succeeds(p, outcome, waits) == waits /\ Unread(p, outcome) # <<>> /\ Head(Unread(p, outcome)) = "ack"

\* Publish of a message for job j.
ManagerPublish(p, j, outcome, waits) ==
    /\ outcome = "refused" => waits
    /\ IF outcome = "refused" \/ (outcome = "ack" /\ waits) THEN UNCHANGED faults
       ELSE Fault(IF waits THEN "publish" ELSE "context")
    /\ publisher' = [publisher EXCEPT ![p] =
                        IF outcome \notin {"ack", "nack"} THEN BrokenPublisher
                        ELSE [open |-> TRUE,
                              unread |-> IF waits THEN Tail(Unread(p, outcome)) ELSE Unread(p, outcome)]]
    /\ gaveUp' = (gaveUp \/ ~waits)
    /\ misled' = IF Accepted(outcome) THEN misled \ {j}
                 ELSE IF Succeeds(p, outcome, waits) THEN misled \cup {j} ELSE misled

------------------------------------------------------------------------------
(* The API *)

ClientGoes(c, step, j) == /\ clientPc' = [clientPc EXCEPT ![c] = step]
                          /\ clientJob' = [clientJob EXCEPT ![c] = j]

\* Service.Submit: CreateOrGetEvaluation. Only the call that created the row goes
\* on to publish; a repeat is answered with the row.
Submit(c, j) ==
    /\ clientPc[c] = "idle"
    /\ commands < MaxCommands
    /\ \E reply \in Reply :
         /\ Answers("database", reply)
         /\ status' = IF reply # "error" /\ status[j] = "absent"
                        THEN [status EXCEPT ![j] = "PENDING"] ELSE status
         /\ IF reply = "ok" /\ status[j] = "absent"
              THEN ClientGoes(c, "publish", j) /\ commands' = commands + 1
              ELSE UNCHANGED clientVars
    /\ UNCHANGED <<results, completions, failures, queueVars, workerVars, publishVars>>

\* Service.Retry reads the row first.
RetryJob(c, j) ==
    /\ clientPc[c] = "idle"
    /\ commands < MaxCommands
    /\ status[j] \in {"FAILED", "DEAD_LETTERED", "PENDING"}
    /\ ClientGoes(c, "publish", j)
    /\ commands' = commands + 1
    /\ UNCHANGED <<rowVars, queueVars, workerVars, publishVars, faults>>

PublishJob(c) ==
    /\ clientPc[c] = "publish"
    /\ \E outcome \in Outcome(Api), waits \in BOOLEAN :
         /\ ManagerPublish(Api, clientJob[c], outcome, waits)
         /\ work' = IF Accepted(outcome) THEN Add(work, [job |-> clientJob[c], attempt |-> 0]) ELSE work
         /\ IF Succeeds(Api, outcome, waits) THEN ClientGoes(c, "queued", clientJob[c]) ELSE ClientGoes(c, "idle", None)
    /\ UNCHANGED <<rowVars, retry, dead, commands, workerVars>>

MarkJobQueued(c) ==
    /\ clientPc[c] = "queued"
    /\ \E reply \in Reply :
         /\ Answers("database", reply)
         /\ status' = IF reply = "error" THEN status
                        ELSE [status EXCEPT ![clientJob[c]] = MarkQueued(@)]
    /\ ClientGoes(c, "idle", None)
    /\ UNCHANGED <<results, completions, failures, queueVars, commands, workerVars, publishVars>>

------------------------------------------------------------------------------
(* A worker *)

JobOf(w) == held[w].job
Goes(w, step) == workerPc' = [workerPc EXCEPT ![w] = step]

\* After an error: the attempts are used up, or another one follows.
AfterError(w) == IF held[w].attempt + 1 >= MaxAttempts THEN "bury" ELSE "republish"

Receive(w) ==
    /\ workerPc[w] = "idle" /\ channel[w] = "open"
    /\ \E m \in In(work) :
         /\ work' = Remove(work, m)
         /\ held' = [held EXCEPT ![w] = m]
    /\ Goes(w, "mark")
    /\ UNCHANGED <<rowVars, retry, dead, clientVars, channel, publishVars, faults>>

MarkEvaluationRunning(w) ==
    /\ workerPc[w] = "mark"
    /\ \E reply \in Reply :
         /\ Answers("database", reply)
         /\ status' = IF reply = "error" THEN status
                        ELSE [status EXCEPT ![JobOf(w)] = MarkRunning(@)]
         /\ Goes(w, IF reply = "ok" THEN "load" ELSE AfterError(w))
    /\ UNCHANGED <<results, completions, failures, queueVars, clientVars, held, channel, publishVars>>

LoadInput(w) ==
    /\ workerPc[w] = "load"
    /\ \/ Goes(w, "complete") /\ UNCHANGED faults
       \/ Goes(w, AfterError(w)) /\ Fault("source")
    /\ UNCHANGED <<rowVars, queueVars, clientVars, held, channel, publishVars>>

CompleteEvaluation(w) ==
    /\ workerPc[w] = "complete"
    /\ \E reply \in Reply :
         /\ Answers("database", reply)
         /\ IF reply = "error" THEN UNCHANGED rowVars ELSE Complete(JobOf(w))
         /\ Goes(w, IF reply = "ok" THEN "ack" ELSE AfterError(w))
    /\ UNCHANGED <<queueVars, clientVars, held, channel, publishVars>>

\* retry: Publish of a copy to the retry queue returns before the original is acked.
Republish(w) ==
    /\ workerPc[w] = "republish"
    /\ \E outcome \in Outcome(w), waits \in BOOLEAN :
         /\ ManagerPublish(w, JobOf(w), outcome, waits)
         /\ retry' = IF Accepted(outcome) THEN Add(retry, [held[w] EXCEPT !.attempt = @ + 1]) ELSE retry
         /\ Goes(w, IF Succeeds(w, outcome, waits) THEN "fail" ELSE "requeue")
    /\ UNCHANGED <<rowVars, work, dead, clientVars, held, channel>>

\* FailEvaluation after a republication, or for good; its error is ignored.
FailEvaluation(w, step, permanent, next) ==
    /\ workerPc[w] = step
    /\ \E reply \in Reply :
         /\ Answers("database", reply)
         /\ IF reply = "error" THEN UNCHANGED <<status, failures>> ELSE Fail(JobOf(w), permanent)
    /\ Goes(w, next)
    /\ UNCHANGED <<results, completions, queueVars, clientVars, held, channel, publishVars>>

\* Ack, Nack to the dead queue, Nack back to the work queue. On a closed channel
\* they fail, and the broker has requeued the delivery already.
Settle(w, step, queue, other) ==
    /\ workerPc[w] = step
    /\ queue' = IF channel[w] = "open" THEN Add(queue, held[w]) ELSE queue
    /\ UNCHANGED other
    /\ Goes(w, "idle")
    /\ held' = [held EXCEPT ![w] = None]
    /\ UNCHANGED <<rowVars, clientVars, channel, publishVars, faults>>

AckEarly(w) ==
    /\ workerPc[w] \in {"complete", "ack"}
    /\ Goes(w, "idle")
    /\ held' = [held EXCEPT ![w] = None]
    /\ UNCHANGED <<rowVars, queueVars, clientVars, channel, publishVars, faults>>

Ack(w) ==
    /\ workerPc[w] = "ack"
    /\ Goes(w, "idle")
    /\ held' = [held EXCEPT ![w] = None]
    /\ UNCHANGED <<rowVars, queueVars, clientVars, channel, publishVars, faults>>

WorkerStep(w) ==
    \/ Receive(w) \/ MarkEvaluationRunning(w) \/ LoadInput(w) \/ CompleteEvaluation(w)
    \/ Republish(w)
    \/ FailEvaluation(w, "fail", FALSE, "ack")
    \/ FailEvaluation(w, "bury", TRUE, "discard")
    \/ Settle(w, "discard", dead, <<work, retry>>)
    \/ Settle(w, "requeue", work, <<retry, dead>>)
    \/ Ack(w)

------------------------------------------------------------------------------
(* The broker, and faults *)

RetryExpiresInPlace == In(retry) # {} /\ UNCHANGED vars

\* The retry queue's TTL sends a message back to the work queue.
RetryExpires ==
    \E m \in In(retry) :
      /\ retry' = Remove(retry, m)
      /\ work' = Add(work, m)
      /\ UNCHANGED <<rowVars, dead, clientVars, workerVars, publishVars, faults>>

Requeued(w) == IF held[w] # None /\ channel[w] = "open" THEN Add(work, held[w]) ELSE work

\* The broker closes a channel and requeues its delivery. The worker finishes the
\* delivery it has, receives no other, and does not open a channel again.
ChannelCloses(w) ==
    /\ channel[w] = "open"
    /\ Fault("channel")
    /\ channel' = [channel EXCEPT ![w] = "closed"]
    /\ work' = Requeued(w)
    /\ UNCHANGED <<rowVars, retry, dead, clientVars, workerPc, held, publishVars>>

\* The worker's process dies and is started again.
RestartWorker(w) ==
    /\ Fault("crash")
    /\ work' = Requeued(w)
    /\ workerPc' = [workerPc EXCEPT ![w] = "idle"]
    /\ held' = [held EXCEPT ![w] = None]
    /\ channel' = [channel EXCEPT ![w] = "open"]
    /\ publisher' = [publisher EXCEPT ![w] = NewPublisher]
    /\ UNCHANGED <<rowVars, retry, dead, clientVars, misled, gaveUp>>

\* The API process dies and is started again (which matters when it was in the middle of
\* a call, or when its publisher is not as new).
RestartApi ==
    /\ publisher[Api] # NewPublisher \/ \E c \in Client : clientPc[c] # "idle"
    /\ Fault("crash")
    /\ clientPc' = [c \in Client |-> "idle"]
    /\ clientJob' = [c \in Client |-> None]
    /\ publisher' = [publisher EXCEPT ![Api] = NewPublisher]
    /\ UNCHANGED <<rowVars, queueVars, commands, workerVars, misled, gaveUp>>

------------------------------------------------------------------------------
ClientStep(c) == PublishJob(c) \/ MarkJobQueued(c)

Next ==
    \/ \E c \in Client : \/ \E j \in Job : Submit(c, j) \/ RetryJob(c, j)
                         \/ ClientStep(c)
    \/ \E w \in Worker : WorkerStep(w) \/ ChannelCloses(w) \/ RestartWorker(w)
    \/ RestartApi \/ RetryExpires

Spec == Init /\ [][Next]_vars

\* Workers go on, and the broker expires the retry queue. An API call may stop anywhere.
FairSpec ==
    /\ Spec
    /\ \A w \in Worker : WF_vars(WorkerStep(w))
    /\ WF_vars(RetryExpires)

------------------------------------------------------------------------------
(* Properties *)

InFlight == {held[w] : w \in {v \in Worker : held[v] # None}}
Queued == In(work) \cup In(retry) \cup In(dead)

TypeOK ==
    /\ status \in [Job -> {"absent", "PENDING", "QUEUED", "RUNNING", "FAILED",
                           "DEAD_LETTERED", "COMPLETED"}]
    /\ results \in [Job -> 0..1]
    /\ {completions, failures} \subseteq [Job -> Nat]
    /\ {work, retry, dead} \subseteq [Message -> Nat]
    /\ InFlight \subseteq Message
    /\ clientPc \in [Client -> {"idle", "publish", "queued"}]
    /\ clientJob \in [Client -> Job \cup {None}]
    /\ workerPc \in [Worker -> {"idle", "mark", "load", "complete", "ack", "republish",
                                "fail", "bury", "discard", "requeue"}]
    /\ channel \in [Worker -> {"open", "closed"}]
    /\ publisher \in [Process -> [open : BOOLEAN, unread : Seq({"ack", "nack"})]]
    /\ misled \subseteq Job /\ gaveUp \in BOOLEAN
    /\ commands \in 0..MaxCommands
    /\ faults \in 0..MaxFaults

\* A job shown as COMPLETED has its committed result and fact, one shown as
\* DEAD_LETTERED its failure fact, whatever was redelivered.
StatusHasEvidence ==
    \A j \in Job :
      /\ status[j] = "COMPLETED" => results[j] = 1 /\ completions[j] > 0
      /\ status[j] = "DEAD_LETTERED" => failures[j] > 0

\* A job that was queued keeps a message in a queue or with a worker until it has
\* a result: no crash, refused or lost publication or closed channel loses the work. It
\* is lost in one case, when Publish took another's acknowledgement for that of a message
\* the broker did not accept; and that takes a caller that stopped waiting before.
WorkIsNotLost ==
    /\ \A j \in Job : status[j] \in {"QUEUED", "RUNNING", "FAILED"} =>
         \/ results[j] = 1
         \/ \E m \in Queued : m.job = j
         \/ \E w \in Worker : held[w] # None /\ JobOf(w) = j /\ channel[w] = "open"
         \/ j \in misled
    /\ misled # {} => gaveUp

\* No worker consumes any more: a consumer whose channel closed is not reopened.
Halted == \A w \in Worker : channel[w] = "closed"

\* Work ends: a queued job whose message the broker has accepted gets a result or its
\* message reaches the dead queue, through failed calls, crashes and closed channels,
\* while one worker consumes.
JobsSettle ==
    \A j \in Job : status[j] = "QUEUED" ~>
      results[j] = 1 \/ (\E m \in In(dead) : m.job = j) \/ j \in misled \/ Halted

------------------------------------------------------------------------------
(* Statements of the documentation, the comments or the tests that this code  *)
(* does not keep; README.md says how each one fails.                          *)

\* A job yields one EvaluationComplete fact.
OneCompletionFact == \A j \in Job : completions[j] <= 1

\* Once a job is COMPLETED no redelivery changes that.
CompletedIsFinal == [][\A j \in Job : status[j] = "COMPLETED" => status'[j] = "COMPLETED"]_vars

\* A job whose message reached the dead queue, and no other is left, is DEAD_LETTERED.
DeadLetterRecorded ==
    \A m \in In(dead) :
      \/ status[m.job] \in {"DEAD_LETTERED", "COMPLETED"}
      \/ \E n \in In(work) \cup In(retry) \cup InFlight : n.job = m.job
===============================================================================
