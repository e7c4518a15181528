----------------------------- MODULE JobsProofs -----------------------------
(* What EvaluationJobs keeps, for any number of jobs, API calls, workers,      *)
(* attempts and faults: the status of a job has its evidence, and no queued    *)
(* job loses its last message before it has a result, unless Publish reported  *)
(* as accepted what the broker did not accept. And what the publisher          *)
(* its messages go through, PublisherConfirms, keeps for any number of callers *)
(* and publications: whose confirmation a caller reads.                        *)
EXTENDS Integers, EvaluationJobs, PublisherConfirms, TLAPS

------------------------------------------------------------------------------
(* The invariant *)

RowSide ==
    /\ status \in [Job -> {"absent", "PENDING", "QUEUED", "RUNNING", "FAILED",
                           "DEAD_LETTERED", "COMPLETED"}]
    /\ results \in [Job -> 0..1]
    /\ completions \in [Job -> Nat] /\ failures \in [Job -> Nat]
    /\ StatusHasEvidence

Good(queue) == queue \in [Message -> Nat]
QueueSide == Good(work) /\ Good(retry) /\ Good(dead)

\* An idle worker holds nothing, a busy one its delivery, and only a delivery that is
\* not its last one is published again.
WorkerSide ==
    /\ held \in [Worker -> Message \cup {None}]
    /\ workerPc \in [Worker -> {"idle", "mark", "load", "complete", "ack", "republish",
                                "fail", "bury", "discard", "requeue"}]
    /\ channel \in [Worker -> {"open", "closed"}]
    /\ \A w \in Worker : /\ workerPc[w] = "idle" <=> held[w] = None
                         /\ workerPc[w] = "republish" => held[w].attempt + 1 < MaxAttempts

ClientSide ==
    /\ clientPc \in [Client -> {"idle", "publish", "queued"}]
    /\ clientJob \in [Client -> Job \cup {None}]
    /\ \A c \in Client : clientPc[c] # "idle" => clientJob[c] \in Job
    /\ commands \in 0..MaxCommands
    /\ faults \in 0..MaxFaults

\* While no caller has given up, every confirmation is read by the caller it answers.
PublisherSide ==
    /\ publisher \in [Process -> [open : BOOLEAN, unread : Seq({"ack", "nack"})]]
    /\ misled \subseteq Job /\ gaveUp \in BOOLEAN
    /\ ~gaveUp => misled = {} /\ \A p \in Process : publisher[p].unread = <<>>

\* A job is kept by its result, by a message in a queue, or by a worker that the broker
\* waits for, unless Publish has misled its caller. A worker on its way to an ack no
\* longer counts: what it holds has been republished or has led to a result.
Holding(w, j) == held[w] # None /\ held[w].job = j
Keeper(w, j) == Holding(w, j) /\ channel[w] = "open" /\ workerPc[w] \notin {"fail", "ack"}
Waiting(j) == \E m \in Queued : m.job = j
Kept(j) == results[j] = 1 \/ Waiting(j) \/ (\E w \in Worker : Keeper(w, j)) \/ j \in misled

Calling(c, j) == clientPc[c] = "queued" /\ clientJob[c] = j

\* Who relies on that: the status, a worker that holds the job, whatever became of its
\* channel, and an API call that has published it.
Owed(j) == \/ status[j] \in {"QUEUED", "RUNNING", "FAILED"}
           \/ \E w \in Worker : Holding(w, j)
           \/ \E c \in Client : Calling(c, j)

Safe == \A j \in Job : Owed(j) => Kept(j)

JobsInv == RowSide /\ QueueSide /\ WorkerSide /\ ClientSide /\ PublisherSide /\ Safe

------------------------------------------------------------------------------
(* Queues *)

\* A publication adds its message to the queue.
LEMMA AddMessage ==
    ASSUME NEW q, Good(q), NEW m \in Message
    PROVE  Good(Add(q, m)) /\ In(Add(q, m)) = In(q) \cup {m}
<1>1. /\ Good(Add(q, m)) /\ Add(q, m)[m] > 0
      /\ \A n \in Message \ {m} : Add(q, m)[n] = q[n]
    BY DEF Good, Add
<1>2. \A n \in Message : Add(q, m)[n] > 0 <=> q[n] > 0 \/ n = m
    BY <1>1, Zenon
<1> QED BY <1>1, <1>2, Zenon DEF In

\* A delivery takes one copy of a message off the queue, and no other message.
LEMMA RemoveMessage ==
    ASSUME NEW q, Good(q), NEW m \in In(q)
    PROVE  Good(Remove(q, m)) /\ In(q) \subseteq In(Remove(q, m)) \cup {m}
<1>1. /\ Good(Remove(q, m))
      /\ \A n \in Message \ {m} : Remove(q, m)[n] = q[n]
    BY DEF Good, Remove, In
<1> QED BY <1>1, Zenon DEF In

\* An empty queue holds no message.
LEMMA NoMessages == Good(Empty) /\ In(Empty) = {}
BY DEF Good, In, Empty

------------------------------------------------------------------------------
(* Rows *)

\* A status that shows no outcome needs no evidence.
LEMMA StatusWritten ==
    ASSUME RowSide, NEW j \in Job,
           NEW s \in {"PENDING", "QUEUED", "RUNNING", "FAILED"},
           status' = [status EXCEPT ![j] = s], UNCHANGED <<results, completions, failures>>
    PROVE  RowSide'
<1>1. /\ status' \in [Job -> {"absent", "PENDING", "QUEUED", "RUNNING", "FAILED",
                           "DEAD_LETTERED", "COMPLETED"}]
      /\ status'[j] = s /\ \A i \in Job \ {j} : status'[i] = status[i]
    BY DEF RowSide
<1>2. s # "COMPLETED" /\ s # "DEAD_LETTERED"
    OBVIOUS
<1>3. StatusHasEvidence'
    BY <1>1, <1>2, Zenon DEF RowSide, StatusHasEvidence
<1> QED BY <1>1, <1>3, Zenon DEF RowSide

\* Nothing written: the rows stay as they are.
LEMMA RowsUnchanged ==
    ASSUME RowSide, UNCHANGED rowVars
    PROVE  RowSide'
BY Zenon DEF RowSide, StatusHasEvidence, rowVars

\* FailEvaluation commits the failure fact with the status DEAD_LETTERED.
LEMMA FailWritten ==
    ASSUME RowSide, NEW j \in Job, NEW permanent \in BOOLEAN, Fail(j, permanent),
           UNCHANGED <<results, completions>>
    PROVE  RowSide'
<1>1. CASE permanent = FALSE
    <2>1. status' = [status EXCEPT ![j] = "FAILED"] /\ failures' = failures
        BY <1>1 DEF Fail, RowSide
    <2> QED BY <2>1, StatusWritten, Zenon
<1>2. CASE permanent = TRUE
    <2>1. /\ status' = [status EXCEPT ![j] = "DEAD_LETTERED"]
          /\ failures' = [failures EXCEPT ![j] = failures[j] + 1]
        BY <1>2 DEF Fail
    <2>2. /\ status' \in [Job -> {"absent", "PENDING", "QUEUED", "RUNNING", "FAILED",
                           "DEAD_LETTERED", "COMPLETED"}]
          /\ status'[j] # "COMPLETED" /\ \A i \in Job \ {j} : status'[i] = status[i]
        BY <2>1 DEF RowSide
    <2>3. /\ failures' \in [Job -> Nat]
          /\ failures'[j] > 0 /\ \A i \in Job \ {j} : failures'[i] = failures[i]
        BY <2>1 DEF RowSide
    <2>4. StatusHasEvidence'
        BY <2>2, <2>3, Zenon DEF RowSide, StatusHasEvidence
    <2> QED BY <2>2, <2>3, <2>4, Zenon DEF RowSide
<1> QED BY <1>1, <1>2, Zenon

\* CompleteEvaluation commits result and fact with the status COMPLETED.
LEMMA CompleteWritten ==
    ASSUME RowSide, NEW j \in Job, Complete(j)
    PROVE  /\ RowSide' /\ results'[j] = 1
           /\ \A i \in Job : results[i] = 1 => results'[i] = 1
<1>1. /\ status' \in [Job -> {"absent", "PENDING", "QUEUED", "RUNNING", "FAILED",
                           "DEAD_LETTERED", "COMPLETED"}]
      /\ status'[j] # "DEAD_LETTERED" /\ \A i \in Job \ {j} : status'[i] = status[i]
    BY DEF RowSide, Complete
<1>2. /\ completions' \in [Job -> Nat]
      /\ completions'[j] > 0 /\ \A i \in Job \ {j} : completions'[i] = completions[i]
    BY DEF RowSide, Complete
<1>3. /\ results' \in [Job -> 0..1]
      /\ results'[j] = 1 /\ \A i \in Job \ {j} : results'[i] = results[i]
    BY DEF RowSide, Complete
<1>4. failures' = failures
    BY Zenon DEF Complete
<1>5. StatusHasEvidence'
    BY <1>1, <1>2, <1>3, <1>4, Zenon DEF RowSide, StatusHasEvidence
<1>6. \A i \in Job : results[i] = 1 => results'[i] = 1
    BY <1>3, Zenon
<1> QED BY <1>1, <1>2, <1>3, <1>4, <1>5, <1>6, Zenon DEF RowSide

------------------------------------------------------------------------------
(* Publishing *)

\* Faults stay within their bound.
LEMMA FaultCounted ==
    ASSUME faults \in 0..MaxFaults, NEW kind, NEW reply,
           Answers(kind, reply) \/ Fault(kind) \/ UNCHANGED faults
    PROVE  faults' \in 0..MaxFaults
BY JobsAssumption DEF Answers, Fault

\* A step that publishes nothing leaves the publishers and the misled jobs alone.
LEMMA PublisherIdle ==
    ASSUME JobsInv, UNCHANGED publishVars
    PROVE  PublisherSide' /\ \A j \in Job : j \in misled => Kept(j)'
<1>1. misled' = misled /\ PublisherSide'
    BY Zenon DEF JobsInv, PublisherSide, publishVars
<1> QED BY <1>1, Zenon DEF Kept

\* A process that starts again has a new publisher.
LEMMA PublisherRestarts ==
    ASSUME JobsInv, NEW p \in Process, publisher' = [publisher EXCEPT ![p] = NewPublisher],
           UNCHANGED <<misled, gaveUp>>
    PROVE  PublisherSide' /\ \A j \in Job : j \in misled => Kept(j)'
<1>1. PublisherSide
    BY Zenon DEF JobsInv
<1>2. NewPublisher \in [open : BOOLEAN, unread : Seq({"ack", "nack"})] /\ NewPublisher.unread = <<>>
    BY DEF NewPublisher
<1>3. /\ publisher' \in [Process -> [open : BOOLEAN, unread : Seq({"ack", "nack"})]]
      /\ publisher'[p] = NewPublisher /\ \A q \in Process \ {p} : publisher'[q] = publisher[q]
    BY <1>1, <1>2, Zenon DEF PublisherSide
<1>4. ASSUME ~gaveUp, NEW q \in Process PROVE publisher'[q].unread = <<>>
    <2>1. CASE q = p
        BY <1>2, <1>3, <2>1, Zenon
    <2>2. CASE q # p
        BY <1>1, <1>3, <1>4, <2>2, Zenon DEF PublisherSide
    <2> QED BY <2>1, <2>2, Zenon
<1> QED BY <1>1, <1>3, <1>4, Zenon DEF PublisherSide, Kept

\* Publish: success without an accepted message takes a confirmation that an earlier
\* caller left unread.
LEMMA PublishFacts ==
    ASSUME JobsInv, NEW p \in Process, NEW j \in Job, NEW waits \in BOOLEAN,
           NEW outcome \in Outcome(p), ManagerPublish(p, j, outcome, waits)
    PROVE  /\ PublisherSide' /\ faults' \in 0..MaxFaults
           /\ Succeeds(p, outcome, waits) => Accepted(outcome) \/ j \in misled'
           /\ \A i \in Job : i \in misled => i \in misled' \/ (Accepted(outcome) /\ i = j)
<1>1. PublisherSide /\ faults \in 0..MaxFaults
    BY Zenon DEF JobsInv, ClientSide
<1>2. faults' \in 0..MaxFaults
    BY <1>1, FaultCounted, Zenon DEF ManagerPublish
<1>3. /\ misled' = IF Accepted(outcome) THEN misled \ {j}
                  ELSE IF Succeeds(p, outcome, waits) THEN misled \cup {j} ELSE misled
      /\ gaveUp' = (gaveUp \/ ~waits)
    BY Zenon DEF ManagerPublish
<1> DEFINE Typed == [open : BOOLEAN, unread : Seq({"ack", "nack"})]
           unread == Unread(p, outcome)
           new == IF outcome \notin {"ack", "nack"} THEN BrokenPublisher
                  ELSE [open |-> TRUE, unread |-> IF waits THEN Tail(unread) ELSE unread]
<1>4. publisher[p] \in Typed /\ publisher[p].unread \in Seq({"ack", "nack"})
    <2>1. publisher[p] \in Typed
        BY <1>1, Zenon DEF PublisherSide
    <2> QED BY <2>1
<1>5. unread \in Seq({"ack", "nack"}) /\ (outcome \in {"ack", "nack"} => unread # <<>>)
    <2>1. CASE outcome \in {"ack", "nack"}
        <3>1. unread = Append(publisher[p].unread, outcome)
            BY <2>1, Zenon DEF Unread
        <3> HIDE DEF unread
        <3> QED BY <1>4, <2>1, <3>1
    <2>2. CASE outcome \notin {"ack", "nack"}
        BY <1>4, <2>2, Zenon DEF Unread
    <2> QED BY <2>1, <2>2, Zenon
<1>6. new \in Typed
    BY <1>5 DEF BrokenPublisher
<1>7. /\ publisher' \in [Process -> Typed]
      /\ publisher'[p] = new /\ \A q \in Process \ {p} : publisher'[q] = publisher[q]
    <2>1. publisher' = [publisher EXCEPT ![p] = new]
        BY Zenon DEF ManagerPublish
    <2> HIDE DEF new
    <2> QED BY <1>1, <1>6, <2>1, Zenon DEF PublisherSide
<1>8. ASSUME ~gaveUp, waits
      PROVE  new.unread = <<>> /\ (Succeeds(p, outcome, waits) => Accepted(outcome))
    <2>1. publisher[p].unread = <<>>
        BY <1>1, <1>8, Zenon DEF PublisherSide
    <2>2. unread = IF outcome \in {"ack", "nack"} THEN <<outcome>> ELSE <<>>
        BY <2>1 DEF Unread
    <2>3. new.unread = <<>>
        BY <1>8, <2>2 DEF BrokenPublisher
    <2>4. Succeeds(p, outcome, waits) => outcome = "ack"
        BY <2>2 DEF Succeeds
    <2> QED BY <2>3, <2>4 DEF Accepted
<1>9. ASSUME ~gaveUp' PROVE misled' = {} /\ \A q \in Process : publisher'[q].unread = <<>>
    <2>1. ~gaveUp /\ waits /\ misled = {}
        BY <1>1, <1>3, <1>9, Zenon DEF PublisherSide
    <2>2. misled' = {}
        BY <1>3, <1>8, <2>1, Zenon
    <2>3. ASSUME NEW q \in Process PROVE publisher'[q].unread = <<>>
        <3> HIDE DEF new
        <3>1. CASE q = p
            BY <1>7, <1>8, <2>1, <3>1, Zenon
        <3>2. CASE q # p
            BY <1>1, <1>7, <2>1, <3>2, Zenon DEF PublisherSide
        <3> QED BY <3>1, <3>2, Zenon
    <2> QED BY <2>2, <2>3, Zenon
<1>10. misled' \subseteq Job /\ gaveUp' \in BOOLEAN
    BY <1>1, <1>3, Zenon DEF PublisherSide
<1>11. PublisherSide'
    BY <1>7, <1>9, <1>10, Zenon DEF PublisherSide
<1>12. /\ Succeeds(p, outcome, waits) => Accepted(outcome) \/ j \in misled'
       /\ \A i \in Job : i \in misled => i \in misled' \/ (Accepted(outcome) /\ i = j)
    BY <1>3, Zenon
<1> QED BY <1>2, <1>11, <1>12, Zenon

------------------------------------------------------------------------------
(* Who keeps a job *)

\* Work stays safe when what is kept stays kept and what is newly owed is kept.
LEMMA SafeNext ==
    ASSUME Safe, \A j \in Job : Kept(j) => Kept(j)',
           \A j \in Job : Owed(j)' => Owed(j) \/ Kept(j)'
    PROVE  Safe'
BY Zenon DEF Safe

\* Unchanged queues hold the same messages.
LEMMA QueuedUnchanged == UNCHANGED queueVars => Queued' = Queued
BY Zenon DEF queueVars, Queued

\* An API call takes no message away.
LEMMA KeptByClient ==
    ASSUME UNCHANGED <<results, held, channel, workerPc>>, Queued \subseteq Queued',
           \A j \in Job : j \in misled => Kept(j)'
    PROVE  \A j \in Job : Kept(j) => Kept(j)'
<1>1. ASSUME NEW j \in Job PROVE Waiting(j) => Waiting(j)'
    BY Zenon DEF Waiting
<1>2. ASSUME NEW j \in Job, NEW w \in Worker PROVE Keeper(w, j) => Keeper(w, j)'
    BY Zenon DEF Keeper, Holding
<1> QED BY <1>1, <1>2, Zenon DEF Kept

\* Of the workers only w moves: what it kept, and what it took, has to be kept.
OtherWorkers(w) == \A v \in Worker \ {w} : /\ held'[v] = held[v] /\ channel'[v] = channel[v]
                                           /\ workerPc'[v] = workerPc[v]

\* A job is kept when what waits for it and what the acting worker holds of it are.
LEMMA KeptByWorkers ==
    ASSUME NEW w \in Worker, OtherWorkers(w),
           \A j \in Job : results[j] = 1 => results'[j] = 1,
           \A j \in Job : Waiting(j) => Kept(j)',
           \A j \in Job : Keeper(w, j) => Kept(j)',
           \A j \in Job : j \in misled => Kept(j)'
    PROVE  \A j \in Job : Kept(j) => Kept(j)'
<1>1. ASSUME NEW j \in Job, NEW v \in Worker, Keeper(v, j) PROVE Kept(j)'
    <2>1. CASE v = w
        BY <1>1, <2>1, Zenon
    <2>2. CASE v # w
        <3>1. Keeper(v, j)'
            BY <1>1, <2>2, Zenon DEF Keeper, Holding, OtherWorkers
        <3> QED BY <3>1, Zenon DEF Kept
    <2> QED BY <2>1, <2>2, Zenon
<1>2. ASSUME NEW j \in Job, results[j] = 1 PROVE Kept(j)'
    BY <1>2, Zenon DEF Kept
<1>3. ASSUME NEW j \in Job, Waiting(j) PROVE Kept(j)'
    BY <1>3, Zenon
<1> QED BY <1>1, <1>2, <1>3, Zenon DEF Kept

------------------------------------------------------------------------------
(* The API *)

\* A step of one API call.
LEMMA CallMoves ==
    ASSUME ClientSide, NEW c \in Client, NEW step \in {"idle", "publish", "queued"},
           NEW j \in Job \cup {None}, step # "idle" => j \in Job, ClientGoes(c, step, j),
           commands' \in 0..MaxCommands, faults' \in 0..MaxFaults
    PROVE  /\ ClientSide'
           /\ \A i : \A d \in Client : Calling(d, i)' => Calling(d, i) \/ (step = "queued" /\ i = j)
<1>1. /\ clientPc' \in [Client -> {"idle", "publish", "queued"}]
      /\ clientPc'[c] = step /\ \A d \in Client \ {c} : clientPc'[d] = clientPc[d]
    BY Zenon DEF ClientSide, ClientGoes
<1>2. /\ clientJob' \in [Client -> Job \cup {None}]
      /\ clientJob'[c] = j /\ \A d \in Client \ {c} : clientJob'[d] = clientJob[d]
    BY Zenon DEF ClientSide, ClientGoes
<1>3. \A d \in Client : clientPc'[d] # "idle" => clientJob'[d] \in Job
    BY <1>1, <1>2, Zenon DEF ClientSide
<1>4. ASSUME NEW i, NEW d \in Client, Calling(d, i)'
      PROVE  Calling(d, i) \/ (step = "queued" /\ i = j)
    <2>1. CASE d = c
        BY <1>1, <1>2, <1>4, <2>1, Zenon DEF Calling
    <2>2. CASE d # c
        BY <1>1, <1>2, <1>4, <2>2, Zenon DEF Calling
    <2> QED BY <2>1, <2>2, Zenon
<1> QED BY <1>1, <1>2, <1>3, <1>4, Zenon DEF ClientSide

\* A call that neither takes a message nor writes a status that owes one.
LEMMA CallKeeps ==
    ASSUME JobsInv, RowSide', QueueSide', ClientSide', PublisherSide',
           UNCHANGED <<results, held, channel, workerPc>>, Queued \subseteq Queued',
           \A j \in Job : j \in misled => Kept(j)',
           \A j \in Job : status'[j] \in {"QUEUED", "RUNNING", "FAILED"} => Owed(j) \/ Kept(j)',
           \A j \in Job : \A c \in Client : Calling(c, j)' => Owed(j) \/ Kept(j)'
    PROVE  JobsInv'
<1>1. WorkerSide'
    BY Zenon DEF JobsInv, WorkerSide
<1>2. \A j \in Job : Kept(j) => Kept(j)'
    BY KeptByClient, Zenon
<1>3. ASSUME NEW j \in Job, NEW w \in Worker, Holding(w, j)' PROVE Owed(j)
    <2>1. Holding(w, j)
        BY <1>3, Zenon DEF Holding
    <2> QED BY <2>1, Zenon DEF Owed
<1>4. \A j \in Job : Owed(j)' => Owed(j) \/ Kept(j)'
    BY <1>3, Zenon DEF Owed
<1>5. Safe'
    BY <1>2, <1>4, SafeNext, Zenon DEF JobsInv
<1> QED BY <1>1, <1>5, Zenon DEF JobsInv

\* Service.Submit: a new row is PENDING, which promises nothing yet.
LEMMA SubmitStep ==
    ASSUME JobsInv, NEW c \in Client, NEW j \in Job, Submit(c, j)
    PROVE  JobsInv'
<1>1. RowSide /\ ClientSide /\ QueueSide
    BY Zenon DEF JobsInv
<1>2. UNCHANGED <<results, completions, failures, work, retry, dead, held, channel, workerPc, publishVars>>
    BY Zenon DEF Submit, queueVars, workerVars
<1>3. \/ status' = status \/ status' = [status EXCEPT ![j] = "PENDING"]
    BY Zenon DEF Submit
<1>4. RowSide'
    <2>1. CASE status' = status
        BY <1>1, <1>2, <2>1, RowsUnchanged, Zenon DEF rowVars
    <2>2. CASE status' = [status EXCEPT ![j] = "PENDING"]
        BY <1>1, <1>2, <2>2, StatusWritten, Zenon
    <2> QED BY <1>3, <2>1, <2>2, Zenon
<1>5. ASSUME NEW i \in Job, status'[i] \in {"QUEUED", "RUNNING", "FAILED"}
      PROVE  status[i] \in {"QUEUED", "RUNNING", "FAILED"}
    <2>1. status \in [Job -> {"absent", "PENDING", "QUEUED", "RUNNING", "FAILED", "DEAD_LETTERED", "COMPLETED"}]
        BY <1>1, Zenon DEF RowSide
    <2> QED BY <1>3, <1>5, <2>1
<1>6. faults' \in 0..MaxFaults
    BY <1>1, FaultCounted, Zenon DEF Submit, ClientSide
<1>7. /\ ClientSide'
      /\ \A i : \A d \in Client : Calling(d, i)' => Calling(d, i)
    <2>1. CASE UNCHANGED clientVars
        BY <1>1, <1>6, <2>1, Zenon DEF clientVars, ClientSide, Calling
    <2>2. CASE ClientGoes(c, "publish", j) /\ commands' = commands + 1
        <3>1. commands' \in 0..MaxCommands
            BY <1>1, <2>2, JobsAssumption DEF Submit, ClientSide
        <3>2. "publish" # "queued"
            OBVIOUS
        <3> QED BY <1>1, <1>6, <2>2, <3>1, <3>2, CallMoves, Zenon
    <2> QED BY <2>1, <2>2, Zenon DEF Submit
<1>8. QueueSide' /\ Queued' = Queued
    BY <1>1, <1>2, Zenon DEF QueueSide, Queued
<1>9. \A i \in Job : status'[i] \in {"QUEUED", "RUNNING", "FAILED"} => Owed(i)
    BY <1>5, Zenon DEF Owed
<1>10. \A i \in Job : \A d \in Client : Calling(d, i)' => Owed(i)
    BY <1>7, Zenon DEF Owed
<1> QED BY <1>2, <1>4, <1>7, <1>8, <1>9, <1>10, CallKeeps, PublisherIdle, Zenon

\* Service.Retry only reads the row.
LEMMA RetryStep ==
    ASSUME JobsInv, NEW c \in Client, NEW j \in Job, RetryJob(c, j)
    PROVE  JobsInv'
<1>1. RowSide /\ ClientSide /\ QueueSide
    BY Zenon DEF JobsInv
<1>2. UNCHANGED <<status, results, completions, failures, work, retry, dead, held, channel, workerPc, faults, publishVars>>
    BY Zenon DEF RetryJob, queueVars, workerVars, rowVars
<1>3. RowSide' /\ QueueSide' /\ Queued' = Queued
    BY <1>1, <1>2, RowsUnchanged, Zenon DEF rowVars, QueueSide, Queued
<1>4. commands' \in 0..MaxCommands /\ faults' \in 0..MaxFaults
    BY <1>1, <1>2, JobsAssumption DEF RetryJob, ClientSide
<1>5. "publish" # "queued"
    OBVIOUS
<1>6. /\ ClientSide'
      /\ \A i : \A d \in Client : Calling(d, i)' => Calling(d, i)
    BY <1>1, <1>4, <1>5, CallMoves, Zenon DEF RetryJob
<1>7. \A i \in Job : status'[i] \in {"QUEUED", "RUNNING", "FAILED"} => Owed(i)
    BY <1>2, Zenon DEF Owed
<1>8. \A i \in Job : \A d \in Client : Calling(d, i)' => Owed(i)
    BY <1>6, Zenon DEF Owed
<1> QED BY <1>2, <1>3, <1>6, <1>7, <1>8, CallKeeps, PublisherIdle, Zenon

\* A call goes on to MarkQueued only once its message is in the work queue, or misled.
LEMMA PublishStep ==
    ASSUME JobsInv, NEW c \in Client, PublishJob(c)
    PROVE  JobsInv'
<1>1. RowSide /\ ClientSide /\ QueueSide
    BY Zenon DEF JobsInv
<1>2. UNCHANGED <<status, results, completions, failures, retry, dead, held, channel, workerPc, commands>>
    BY Zenon DEF PublishJob, workerVars, rowVars
<1>3. clientPc[c] # "idle"
    BY DEF PublishJob
<1>4. PICK j \in Job : j = clientJob[c]
    BY <1>1, <1>3, Zenon DEF ClientSide
<1> DEFINE m == [job |-> j, attempt |-> 0]
<1>5. m \in Message /\ m.job = j
    BY JobsAssumption DEF Message
<1>6. PICK outcome \in Outcome(Api), waits \in BOOLEAN :
        /\ ManagerPublish(Api, j, outcome, waits)
        /\ work' = IF Accepted(outcome) THEN Add(work, m) ELSE work
        /\ IF Succeeds(Api, outcome, waits) THEN ClientGoes(c, "queued", j) ELSE ClientGoes(c, "idle", None)
    BY <1>4, Zenon DEF PublishJob
<1> HIDE DEF m
<1>7. /\ Good(work') /\ In(work) \subseteq In(work')
      /\ Accepted(outcome) => m \in In(work')
    <2>1. Good(work) /\ Good(Add(work, m)) /\ In(Add(work, m)) = In(work) \cup {m}
        BY <1>1, <1>5, AddMessage, Zenon DEF QueueSide
    <2> QED BY <1>6, <2>1, Zenon
<1>8. QueueSide' /\ Queued \subseteq Queued' /\ (Accepted(outcome) => m \in Queued')
    BY <1>1, <1>2, <1>7, Zenon DEF QueueSide, Queued
<1> DEFINE success == Succeeds(Api, outcome, waits)
<1>9. /\ PublisherSide' /\ faults' \in 0..MaxFaults
      /\ success => Accepted(outcome) \/ j \in misled'
      /\ \A i \in Job : i \in misled => i \in misled' \/ (Accepted(outcome) /\ i = j)
    <2>1. Api \in Process
        BY Zenon DEF Process
    <2> QED BY <1>6, <2>1, PublishFacts DEF success
<1> HIDE DEF success
<1>10. /\ Accepted(outcome) => Kept(j)'
       /\ success => Kept(j)'
       /\ \A i \in Job : i \in misled => Kept(i)'
    <2>1. Accepted(outcome) => Kept(j)'
        BY <1>5, <1>8, Zenon DEF Kept, Waiting
    <2> QED BY <1>9, <2>1, Zenon DEF Kept
<1>11. commands' \in 0..MaxCommands /\ faults' \in 0..MaxFaults
    BY <1>1, <1>2, <1>9, Zenon DEF ClientSide
<1>12. /\ ClientSide'
       /\ \A i : \A d \in Client : Calling(d, i)' => Calling(d, i) \/ (success /\ i = j)
    <2>1. CASE success
        <3>1. ClientGoes(c, "queued", j)
            BY <1>6, <2>1, Zenon DEF success
        <3> QED BY <1>1, <1>11, <2>1, <3>1, CallMoves, Zenon
    <2>2. CASE ~success
        <3>1. "idle" # "queued"
            OBVIOUS
        <3>2. ClientGoes(c, "idle", None)
            BY <1>6, <2>2, Zenon DEF success
        <3> QED BY <1>1, <1>11, <3>1, <3>2, CallMoves, Zenon
    <2> QED BY <2>1, <2>2, Zenon
<1>13. \A i \in Job : \A d \in Client : Calling(d, i)' => Owed(i) \/ Kept(i)'
    BY <1>10, <1>12, Zenon DEF Owed
<1>14. \A i \in Job : status'[i] \in {"QUEUED", "RUNNING", "FAILED"} => Owed(i)
    BY <1>2, Zenon DEF Owed
<1>15. RowSide'
    BY <1>1, <1>2, RowsUnchanged, Zenon DEF rowVars
<1> QED BY <1>2, <1>8, <1>9, <1>10, <1>12, <1>13, <1>14, <1>15, CallKeeps, Zenon

\* MarkQueued follows the publication, and the job is kept since then.
LEMMA MarkQueuedStep ==
    ASSUME JobsInv, NEW c \in Client, MarkJobQueued(c)
    PROVE  JobsInv'
<1>1. RowSide /\ ClientSide /\ QueueSide
    BY Zenon DEF JobsInv
<1>2. UNCHANGED <<results, completions, failures, work, retry, dead, held, channel, workerPc, commands, publishVars>>
    BY Zenon DEF MarkJobQueued, workerVars, queueVars
<1>3. clientPc[c] = "queued" /\ clientPc[c] # "idle"
    BY DEF MarkJobQueued
<1>4. PICK j \in Job : j = clientJob[c]
    BY <1>1, <1>3, Zenon DEF ClientSide
<1>5. Owed(j)
    BY <1>3, <1>4, Zenon DEF Owed, Calling
<1>6. status' = status \/ status' = [status EXCEPT ![j] = MarkQueued(status[j])]
    BY <1>4, Zenon DEF MarkJobQueued
<1>7. MarkQueued(status[j]) = "QUEUED" \/ MarkQueued(status[j]) = status[j]
    BY Zenon DEF MarkQueued
<1>8. status' = status \/ status' = [status EXCEPT ![j] = "QUEUED"]
    <2>1. status = [status EXCEPT ![j] = status[j]]
        BY <1>1 DEF RowSide
    <2> QED BY <1>6, <1>7, <2>1, Zenon
<1>9. /\ RowSide'
      /\ \A i \in Job : status'[i] \in {"QUEUED", "RUNNING", "FAILED"} => Owed(i)
    <2>1. CASE status' = status
        BY <1>1, <1>2, <2>1, RowsUnchanged, Zenon DEF rowVars, Owed
    <2>2. CASE status' = [status EXCEPT ![j] = "QUEUED"]
        <3>1. \A i \in Job \ {j} : status'[i] = status[i]
            BY <1>1, <2>2, Zenon DEF RowSide
        <3> QED BY <1>1, <1>2, <1>5, <2>2, <3>1, StatusWritten, Zenon DEF Owed
    <2> QED BY <1>8, <2>1, <2>2, Zenon
<1>10. commands' \in 0..MaxCommands /\ faults' \in 0..MaxFaults
    BY <1>1, <1>2, FaultCounted, Zenon DEF ClientSide, MarkJobQueued
<1>11. "idle" # "queued"
    OBVIOUS
<1>12. /\ ClientSide'
       /\ \A i : \A d \in Client : Calling(d, i)' => Calling(d, i)
    BY <1>1, <1>10, <1>11, CallMoves, Zenon DEF MarkJobQueued
<1>13. \A i \in Job : \A d \in Client : Calling(d, i)' => Owed(i)
    BY <1>12, Zenon DEF Owed
<1>14. QueueSide' /\ Queued' = Queued
    BY <1>1, <1>2, Zenon DEF QueueSide, Queued
<1> QED BY <1>2, <1>9, <1>12, <1>13, <1>14, CallKeeps, PublisherIdle, Zenon

\* The API process starts again: no call is left, rows and queues are as they were.
LEMMA ApiRestartStep ==
    ASSUME JobsInv, RestartApi
    PROVE  JobsInv'
<1>1. RowSide /\ ClientSide /\ QueueSide
    BY Zenon DEF JobsInv
<1>2. /\ UNCHANGED <<status, results, completions, failures, work, retry, dead, held, channel, workerPc,
                     commands, misled, gaveUp>>
      /\ publisher' = [publisher EXCEPT ![Api] = NewPublisher]
      /\ clientPc' = [c \in Client |-> "idle"] /\ clientJob' = [c \in Client |-> None]
    BY Zenon DEF RestartApi, queueVars, workerVars, rowVars
<1>3. RowSide' /\ QueueSide' /\ Queued' = Queued
    BY <1>1, <1>2, RowsUnchanged, Zenon DEF rowVars, QueueSide, Queued
<1>4. commands' \in 0..MaxCommands /\ faults' \in 0..MaxFaults
    BY <1>1, <1>2, FaultCounted, Zenon DEF RestartApi, ClientSide
<1>5. "idle" # "queued"
    OBVIOUS
<1>6. ClientSide' /\ \A i : \A d \in Client : ~Calling(d, i)'
    BY <1>2, <1>4, <1>5, Zenon DEF ClientSide, Calling
<1>7. \A i \in Job : status'[i] \in {"QUEUED", "RUNNING", "FAILED"} => Owed(i)
    BY <1>2, Zenon DEF Owed
<1>8. PublisherSide' /\ \A j \in Job : j \in misled => Kept(j)'
    BY <1>2, PublisherRestarts, Zenon DEF Process
<1> QED BY <1>2, <1>3, <1>6, <1>7, <1>8, CallKeeps, Zenon

------------------------------------------------------------------------------
(* The workers *)

WorkerPc == {"idle", "mark", "load", "complete", "ack", "republish", "fail", "bury", "discard",
             "requeue"}

\* The new state of one worker.
LEMMA WorkerMoves ==
    ASSUME WorkerSide, NEW w \in Worker, NEW m \in Message \cup {None}, NEW step \in WorkerPc,
           NEW ch \in {"open", "closed"},
           workerPc' = [workerPc EXCEPT ![w] = step],
           held' = [held EXCEPT ![w] = m],
           channel' = [channel EXCEPT ![w] = ch],
           step = "idle" <=> m = None, step = "republish" => m.attempt + 1 < MaxAttempts
    PROVE  /\ WorkerSide' /\ OtherWorkers(w)
           /\ held'[w] = m /\ workerPc'[w] = step /\ channel'[w] = ch
<1>1. /\ workerPc' \in [Worker -> WorkerPc]
      /\ workerPc'[w] = step /\ \A v \in Worker \ {w} : workerPc'[v] = workerPc[v]
    BY Zenon DEF WorkerSide, WorkerPc
<1>2. /\ held' \in [Worker -> Message \cup {None}]
      /\ held'[w] = m /\ \A v \in Worker \ {w} : held'[v] = held[v]
    BY Zenon DEF WorkerSide
<1>3. /\ channel' \in [Worker -> {"open", "closed"}]
      /\ channel'[w] = ch /\ \A v \in Worker \ {w} : channel'[v] = channel[v]
    BY Zenon DEF WorkerSide
<1>4. ASSUME NEW v \in Worker
      PROVE  /\ workerPc'[v] = "idle" <=> held'[v] = None
             /\ workerPc'[v] = "republish" => held'[v].attempt + 1 < MaxAttempts
    <2>1. CASE v = w
        BY <1>1, <1>2, <2>1, Zenon
    <2>2. CASE v # w
        BY <1>1, <1>2, <2>2, Zenon DEF WorkerSide
    <2> QED BY <2>1, <2>2, Zenon
<1> QED BY <1>1, <1>2, <1>3, <1>4, Zenon DEF WorkerSide, WorkerPc, OtherWorkers

\* A step of one worker: what the queues and it kept must be kept, what it takes too.
LEMMA WorkerKeeps ==
    ASSUME JobsInv, NEW w \in Worker, RowSide', QueueSide', WorkerSide', PublisherSide',
           \A j \in Job : j \in misled => Kept(j)',
           UNCHANGED <<clientPc, clientJob, commands>>, faults' \in 0..MaxFaults, OtherWorkers(w),
           \A j \in Job : results[j] = 1 => results'[j] = 1,
           \A j \in Job : Waiting(j) => Kept(j)',
           \A j \in Job : Keeper(w, j) => Kept(j)',
           \A j \in Job : Holding(w, j)' => Owed(j) \/ Kept(j)',
           \A j \in Job : status'[j] \in {"QUEUED", "RUNNING", "FAILED"} => Owed(j)
    PROVE  JobsInv'
<1>1. ClientSide'
    BY Zenon DEF JobsInv, ClientSide
<1>2. \A j \in Job : Kept(j) => Kept(j)'
    BY KeptByWorkers, Zenon
<1>3. ASSUME NEW j \in Job, NEW v \in Worker, Holding(v, j)' PROVE Owed(j) \/ Kept(j)'
    <2>1. CASE v = w
        BY <1>3, <2>1, Zenon
    <2>2. CASE v # w
        <3>1. Holding(v, j)
            BY <1>3, <2>2, Zenon DEF Holding, OtherWorkers
        <3> QED BY <3>1, Zenon DEF Owed
    <2> QED BY <2>1, <2>2, Zenon
<1>4. ASSUME NEW j \in Job, NEW c \in Client, Calling(c, j)' PROVE Owed(j)
    <2>1. Calling(c, j)
        BY <1>4, Zenon DEF Calling
    <2> QED BY <2>1, Zenon DEF Owed
<1>5. \A j \in Job : Owed(j)' => Owed(j) \/ Kept(j)'
    BY <1>3, <1>4, Zenon DEF Owed
<1>6. Safe'
    BY <1>2, <1>5, SafeNext, Zenon DEF JobsInv
<1> QED BY <1>1, <1>6, Zenon DEF JobsInv

\* A worker goes on with its delivery. It stops being the keeper of the job only when
\* there is a result or another message.
LEMMA Proceeds ==
    ASSUME JobsInv, NEW w \in Worker, NEW step \in WorkerPc \ {"idle"}, Goes(w, step),
           held[w] # None, UNCHANGED <<held, channel, clientPc, clientJob, commands>>,
           step = "republish" => held[w].attempt + 1 < MaxAttempts,
           RowSide', QueueSide', Queued \subseteq Queued', faults' \in 0..MaxFaults,
           PublisherSide', \A j \in Job : j \in misled => Kept(j)',
           \A j \in Job : results[j] = 1 => results'[j] = 1,
           step \in {"fail", "ack"} =>
             \A j \in Job : Keeper(w, j) => results'[j] = 1 \/ Waiting(j)' \/ j \in misled',
           \A j \in Job : status'[j] \in {"QUEUED", "RUNNING", "FAILED"} =>
             status[j] \in {"QUEUED", "RUNNING", "FAILED"} \/ Holding(w, j)
    PROVE  JobsInv'
<1>1. WorkerSide
    BY Zenon DEF JobsInv
<1>2. /\ held' = [held EXCEPT ![w] = held[w]] /\ channel' = [channel EXCEPT ![w] = channel[w]]
      /\ held[w] \in Message \cup {None} /\ channel[w] \in {"open", "closed"}
    BY <1>1 DEF WorkerSide
<1>3. /\ WorkerSide' /\ OtherWorkers(w)
      /\ held'[w] = held[w] /\ workerPc'[w] = step /\ channel'[w] = channel[w]
    BY <1>1, <1>2, WorkerMoves, Zenon DEF Goes
<1>4. ASSUME NEW j \in Job, Waiting(j) PROVE Kept(j)'
    BY <1>4, Zenon DEF Waiting, Kept
<1>5. ASSUME NEW j \in Job, Keeper(w, j) PROVE Kept(j)'
    <2>1. CASE step \in {"fail", "ack"}
        BY <1>5, <2>1, Zenon DEF Kept
    <2>2. CASE step \notin {"fail", "ack"}
        <3>1. Keeper(w, j)'
            BY <1>3, <1>5, <2>2, Zenon DEF Keeper, Holding
        <3> QED BY <3>1, Zenon DEF Kept
    <2> QED BY <2>1, <2>2, Zenon
<1>6. ASSUME NEW j \in Job PROVE Holding(w, j) => Owed(j)
    BY Zenon DEF Owed
<1>7. ASSUME NEW j \in Job PROVE Holding(w, j)' => Owed(j)
    BY <1>3, <1>6, Zenon DEF Holding
<1>8. \A j \in Job : status'[j] \in {"QUEUED", "RUNNING", "FAILED"} => Owed(j)
    BY <1>6, Zenon DEF Owed
<1> QED BY <1>3, <1>4, <1>5, <1>7, <1>8, WorkerKeeps, Zenon

\* A worker lets go of its delivery: what it kept has to be in a queue.
LEMMA LetsGo ==
    ASSUME JobsInv, NEW w \in Worker, Goes(w, "idle"), held' = [held EXCEPT ![w] = None],
           NEW ch \in {"open", "closed"}, channel' = [channel EXCEPT ![w] = ch],
           UNCHANGED <<rowVars, clientPc, clientJob, commands>>, faults' \in 0..MaxFaults,
           QueueSide', Queued \subseteq Queued', PublisherSide',
           \A j \in Job : Keeper(w, j) => Waiting(j)',
           \A j \in Job : j \in misled => Kept(j)'
    PROVE  JobsInv'
<1>1. WorkerSide /\ RowSide
    BY Zenon DEF JobsInv
<1>2. /\ WorkerSide' /\ OtherWorkers(w) /\ held'[w] = None
    <2>1. "idle" \in WorkerPc /\ "idle" # "republish"
        BY DEF WorkerPc
    <2> QED BY <1>1, <2>1, WorkerMoves, Zenon DEF Goes
<1>3. RowSide' /\ status' = status /\ results' = results
    BY <1>1, RowsUnchanged, Zenon DEF rowVars
<1>4. ASSUME NEW j \in Job, Waiting(j) PROVE Kept(j)'
    BY <1>4, Zenon DEF Waiting, Kept
<1>5. ASSUME NEW j \in Job, Keeper(w, j) PROVE Kept(j)'
    BY <1>5, Zenon DEF Kept
<1>6. ASSUME NEW j \in Job PROVE ~Holding(w, j)'
    BY <1>2, Zenon DEF Holding
<1>7. \A j \in Job : status'[j] \in {"QUEUED", "RUNNING", "FAILED"} => Owed(j)
    BY <1>3, Zenon DEF Owed
<1> QED BY <1>2, <1>3, <1>4, <1>5, <1>6, <1>7, WorkerKeeps, Zenon

\* A busy worker holds a message of some job.
LEMMA Busy ==
    ASSUME JobsInv, NEW w \in Worker, workerPc[w] # "idle"
    PROVE  held[w] # None /\ held[w] \in Message /\ JobOf(w) \in Job /\ Holding(w, JobOf(w))
<1>1. held[w] # None /\ held[w] \in Message
    BY Zenon DEF JobsInv, WorkerSide
<1>2. held[w].job \in Job
    BY <1>1 DEF Message
<1> QED BY <1>1, <1>2, Zenon DEF JobOf, Holding

\* After an error a delivery is published again unless it was the last one.
LEMMA ErrorStep ==
    ASSUME JobsInv, NEW w \in Worker, held[w] \in Message
    PROVE  /\ AfterError(w) \in WorkerPc \ {"idle"} /\ AfterError(w) \notin {"fail", "ack"}
           /\ AfterError(w) = "republish" => held[w].attempt + 1 < MaxAttempts
<1>1. held[w].attempt \in Nat /\ MaxAttempts \in Nat
    BY JobsAssumption DEF Message
<1> QED BY <1>1 DEF AfterError, WorkerPc

\* Nothing but the delivery moves.
LEMMA QueuesStay ==
    ASSUME JobsInv, UNCHANGED queueVars
    PROVE  QueueSide' /\ Queued' = Queued
BY Zenon DEF JobsInv, QueueSide, Queued, queueVars

\* A delivery is its worker's from then on.
LEMMA ReceiveStep ==
    ASSUME JobsInv, NEW w \in Worker, Receive(w)
    PROVE  JobsInv'
<1>1. RowSide /\ QueueSide /\ WorkerSide /\ ClientSide
    BY Zenon DEF JobsInv
<1>2. PICK m \in In(work) : work' = Remove(work, m) /\ held' = [held EXCEPT ![w] = m]
    BY Zenon DEF Receive
<1>3. /\ workerPc[w] = "idle" /\ channel[w] = "open" /\ Goes(w, "mark")
      /\ UNCHANGED <<rowVars, retry, dead, clientPc, clientJob, commands, channel, faults, publishVars>>
    BY Zenon DEF Receive, clientVars
<1>4. m \in Message /\ m # None /\ m.job \in Job
    <2>1. m \in Message
        BY <1>2, Zenon DEF In
    <2>2. m.job \in Job
        BY <2>1 DEF Message
    <2> QED BY <2>1, <2>2, JobsAssumption, Zenon
<1>5. Good(work') /\ In(work) \subseteq In(work') \cup {m}
    BY <1>1, <1>2, RemoveMessage, Zenon DEF QueueSide
<1>6. QueueSide' /\ Queued \subseteq Queued' \cup {m}
    BY <1>1, <1>3, <1>5, Zenon DEF QueueSide, Queued
<1>7. channel' = [channel EXCEPT ![w] = "open"]
    BY <1>1, <1>3 DEF WorkerSide
<1>8. /\ "mark" \in WorkerPc /\ "mark" # "idle" /\ "mark" # "republish" /\ "mark" \notin {"fail", "ack"}
    BY DEF WorkerPc
<1>9. /\ WorkerSide' /\ OtherWorkers(w)
      /\ held'[w] = m /\ workerPc'[w] = "mark" /\ channel'[w] = "open"
    BY <1>1, <1>2, <1>3, <1>4, <1>7, <1>8, WorkerMoves, Zenon DEF Goes
<1>10. RowSide' /\ status' = status /\ results' = results
    BY <1>1, <1>3, RowsUnchanged, Zenon DEF rowVars
<1>11. Keeper(w, m.job)'
    <2>1. PICK j \in Job : j = m.job
        BY <1>4, Zenon
    <2> QED BY <1>4, <1>8, <1>9, <2>1, Zenon DEF Keeper, Holding
<1>12. ASSUME NEW j \in Job, j = m.job PROVE Kept(j)'
    BY <1>11, <1>12, Zenon DEF Kept
<1>13. ASSUME NEW j \in Job, Waiting(j) PROVE Kept(j)'
    <2>1. PICK n \in Queued : n.job = j
        BY <1>13, Zenon DEF Waiting
    <2>2. CASE n = m
        BY <1>12, <2>1, <2>2, Zenon
    <2>3. CASE n \in Queued'
        BY <2>1, <2>3, Zenon DEF Waiting, Kept
    <2> QED BY <1>6, <2>1, <2>2, <2>3, Zenon
<1>14. ASSUME NEW j \in Job PROVE ~Keeper(w, j)
    BY <1>1, <1>3, Zenon DEF Keeper, Holding, WorkerSide
<1>15. ASSUME NEW j \in Job, Holding(w, j)' PROVE Kept(j)'
    BY <1>9, <1>12, <1>15, Zenon DEF Holding
<1>16. \A j \in Job : status'[j] \in {"QUEUED", "RUNNING", "FAILED"} => Owed(j)
    BY <1>10, Zenon DEF Owed
<1>17. faults' \in 0..MaxFaults
    BY <1>1, <1>3, Zenon DEF ClientSide
<1> QED BY <1>3, <1>6, <1>9, <1>10, <1>13, <1>14, <1>15, <1>16, <1>17, WorkerKeeps, PublisherIdle, Zenon

\* MarkEvaluationRunning: the job whose status it writes is held.
LEMMA MarkRunningStep ==
    ASSUME JobsInv, NEW w \in Worker, MarkEvaluationRunning(w)
    PROVE  JobsInv'
<1>1. RowSide /\ ClientSide
    BY Zenon DEF JobsInv
<1>2. workerPc[w] # "idle"
    BY DEF MarkEvaluationRunning
<1>3. /\ UNCHANGED <<results, completions, failures, queueVars, clientPc, clientJob, commands, held, channel, publishVars>>
    BY Zenon DEF MarkEvaluationRunning, clientVars
<1>4. PICK reply \in Reply :
        /\ Answers("database", reply)
        /\ status' = IF reply = "error" THEN status ELSE [status EXCEPT ![JobOf(w)] = MarkRunning(@)]
        /\ Goes(w, IF reply = "ok" THEN "load" ELSE AfterError(w))
    BY Zenon DEF MarkEvaluationRunning
<1>5. PICK j \in Job : j = JobOf(w) /\ Holding(w, j)
    BY <1>2, Busy, Zenon
<1>6. status' = status \/ status' = [status EXCEPT ![j] = "RUNNING"]
    <2>1. status = [status EXCEPT ![j] = status[j]]
        BY <1>1 DEF RowSide
    <2>2. MarkRunning(status[j]) = "RUNNING" \/ MarkRunning(status[j]) = status[j]
        BY Zenon DEF MarkRunning
    <2>3. status' = status \/ status' = [status EXCEPT ![j] = MarkRunning(status[j])]
        BY <1>4, <1>5, Zenon
    <2> QED BY <2>1, <2>2, <2>3, Zenon
<1>7. /\ RowSide'
      /\ \A i \in Job : status'[i] \in {"QUEUED", "RUNNING", "FAILED"} =>
           status[i] \in {"QUEUED", "RUNNING", "FAILED"} \/ Holding(w, i)
    <2>1. CASE status' = status
        BY <1>1, <1>3, <2>1, RowsUnchanged, Zenon DEF rowVars
    <2>2. CASE status' = [status EXCEPT ![j] = "RUNNING"]
        <3>1. \A i \in Job \ {j} : status'[i] = status[i]
            BY <1>1, <2>2, Zenon DEF RowSide
        <3> QED BY <1>1, <1>3, <1>5, <2>2, <3>1, StatusWritten, Zenon
    <2> QED BY <1>6, <2>1, <2>2, Zenon
<1>8. faults' \in 0..MaxFaults
    BY <1>1, <1>4, FaultCounted, Zenon DEF ClientSide
<1> DEFINE step == IF reply = "ok" THEN "load" ELSE AfterError(w)
<1>9. /\ step \in WorkerPc \ {"idle"} /\ step \notin {"fail", "ack"}
      /\ step = "republish" => held[w].attempt + 1 < MaxAttempts
    <2>1. "load" \in WorkerPc \ {"idle"} /\ "load" \notin {"fail", "ack"} /\ "load" # "republish"
        BY DEF WorkerPc
    <2> QED BY <1>2, <2>1, Busy, ErrorStep, Zenon
<1>10. Goes(w, step)
    BY <1>4
<1> HIDE DEF step
<1> QED BY <1>2, <1>3, <1>7, <1>8, <1>9, <1>10, Busy, QueuesStay, Proceeds, PublisherIdle, Zenon

\* Loading the input writes nothing.
LEMMA LoadStep ==
    ASSUME JobsInv, NEW w \in Worker, LoadInput(w)
    PROVE  JobsInv'
<1>1. RowSide /\ ClientSide
    BY Zenon DEF JobsInv
<1>2. workerPc[w] # "idle"
    BY DEF LoadInput
<1>3. /\ UNCHANGED <<rowVars, queueVars, clientPc, clientJob, commands, held, channel, publishVars>>
    BY Zenon DEF LoadInput, clientVars
<1>4. PICK step \in {"complete", AfterError(w)} : Goes(w, step)
    BY Zenon DEF LoadInput
<1>5. /\ step \in WorkerPc \ {"idle"} /\ step \notin {"fail", "ack"}
      /\ step = "republish" => held[w].attempt + 1 < MaxAttempts
    <2>1. "complete" \in WorkerPc \ {"idle"} /\ "complete" \notin {"fail", "ack"} /\ "complete" # "republish"
        BY DEF WorkerPc
    <2> QED BY <1>2, <1>4, <2>1, Busy, ErrorStep, Zenon
<1>6. faults' \in 0..MaxFaults
    BY <1>1, FaultCounted, Zenon DEF ClientSide, LoadInput
<1>7. RowSide' /\ status' = status /\ results' = results
    BY <1>1, <1>3, RowsUnchanged, Zenon DEF rowVars
<1> QED BY <1>2, <1>3, <1>4, <1>5, <1>6, <1>7, Busy, QueuesStay, Proceeds, PublisherIdle, Zenon

\* CompleteEvaluation: an answer, even one that is lost, means that the job has its
\* result, so the worker may go on to the ack.
LEMMA CompleteStep ==
    ASSUME JobsInv, NEW w \in Worker, CompleteEvaluation(w)
    PROVE  JobsInv'
<1>1. RowSide /\ ClientSide
    BY Zenon DEF JobsInv
<1>2. workerPc[w] # "idle"
    BY DEF CompleteEvaluation
<1>3. /\ UNCHANGED <<queueVars, clientPc, clientJob, commands, held, channel, publishVars>>
    BY Zenon DEF CompleteEvaluation, clientVars
<1>4. PICK reply \in Reply :
        /\ Answers("database", reply)
        /\ IF reply = "error" THEN UNCHANGED rowVars ELSE Complete(JobOf(w))
        /\ Goes(w, IF reply = "ok" THEN "ack" ELSE AfterError(w))
    BY Zenon DEF CompleteEvaluation
<1>5. PICK j \in Job : j = JobOf(w) /\ Holding(w, j)
    BY <1>2, Busy, Zenon
<1>6. /\ RowSide'
      /\ \A i \in Job : results[i] = 1 => results'[i] = 1
      /\ reply # "error" => results'[j] = 1
      /\ \A i \in Job : status'[i] \in {"QUEUED", "RUNNING", "FAILED"} =>
           status[i] \in {"QUEUED", "RUNNING", "FAILED"} \/ Holding(w, i)
    <2>1. CASE reply = "error"
        BY <1>1, <1>4, <2>1, RowsUnchanged, Zenon DEF rowVars
    <2>2. CASE reply # "error"
        <3>1. Complete(j)
            BY <1>4, <1>5, <2>2, Zenon
        <3>2. \A i \in Job \ {j} : status'[i] = status[i]
            BY <1>1, <3>1, Zenon DEF RowSide, Complete
        <3> QED BY <1>1, <1>5, <3>1, <3>2, CompleteWritten, Zenon
    <2> QED BY <2>1, <2>2, Zenon
<1>7. faults' \in 0..MaxFaults
    BY <1>1, <1>4, FaultCounted, Zenon DEF ClientSide
<1> DEFINE step == IF reply = "ok" THEN "ack" ELSE AfterError(w)
<1>8. /\ step \in WorkerPc \ {"idle"}
      /\ step = "republish" => held[w].attempt + 1 < MaxAttempts
      /\ step \in {"fail", "ack"} => reply # "error"
    <2>1. "ack" \in WorkerPc \ {"idle"} /\ "ack" # "republish" /\ "ok" # "error"
        BY DEF WorkerPc
    <2> QED BY <1>2, <2>1, Busy, ErrorStep, Zenon
<1>9. Goes(w, step)
    BY <1>4
<1> HIDE DEF step
<1>10. ASSUME NEW i \in Job, Keeper(w, i) PROVE i = j
    BY <1>5, <1>10, Zenon DEF Keeper, Holding
<1>11. step \in {"fail", "ack"} => \A i \in Job : Keeper(w, i) => results'[i] = 1
    BY <1>6, <1>8, <1>10, Zenon
<1> QED BY <1>2, <1>3, <1>6, <1>7, <1>8, <1>9, <1>11, Busy, QueuesStay, Proceeds, PublisherIdle, Zenon

\* retry: the copy is in the retry queue before the worker gives up the original, unless
\* Publish has misled it.
LEMMA RepublishStep ==
    ASSUME JobsInv, NEW w \in Worker, Republish(w)
    PROVE  JobsInv'
<1>1. RowSide /\ ClientSide /\ QueueSide /\ WorkerSide
    BY Zenon DEF JobsInv
<1>2. workerPc[w] = "republish" /\ workerPc[w] # "idle"
    BY DEF Republish
<1>3. /\ UNCHANGED <<rowVars, work, dead, clientPc, clientJob, commands, held, channel>>
    BY Zenon DEF Republish, clientVars
<1> DEFINE m == [held[w] EXCEPT !.attempt = @ + 1]
<1>4. PICK outcome \in Outcome(w), waits \in BOOLEAN :
        /\ ManagerPublish(w, JobOf(w), outcome, waits)
        /\ retry' = IF Accepted(outcome) THEN Add(retry, m) ELSE retry
        /\ Goes(w, IF Succeeds(w, outcome, waits) THEN "fail" ELSE "requeue")
    BY Zenon DEF Republish
<1>5. m \in Message /\ m.job = held[w].job
    <2>1. held[w] \in Message /\ held[w].attempt + 1 < MaxAttempts
        BY <1>1, <1>2, Busy, Zenon DEF WorkerSide
    <2> QED BY <2>1, JobsAssumption DEF Message
<1> HIDE DEF m
<1>6. /\ Good(retry') /\ In(retry) \subseteq In(retry')
      /\ Accepted(outcome) => m \in In(retry')
    <2>1. Good(retry) /\ Good(Add(retry, m)) /\ In(Add(retry, m)) = In(retry) \cup {m}
        BY <1>1, <1>5, AddMessage, Zenon DEF QueueSide
    <2> QED BY <1>4, <2>1, Zenon
<1>7. QueueSide' /\ Queued \subseteq Queued' /\ (Accepted(outcome) => m \in Queued')
    BY <1>1, <1>3, <1>6, Zenon DEF QueueSide, Queued
<1> DEFINE success == Succeeds(w, outcome, waits)
           step == IF success THEN "fail" ELSE "requeue"
<1>8. PICK job \in Job : job = JobOf(w) /\ job = held[w].job
    BY <1>2, Busy, Zenon DEF JobOf
<1>9. /\ PublisherSide' /\ faults' \in 0..MaxFaults
      /\ success => Accepted(outcome) \/ job \in misled'
      /\ \A i \in Job : i \in misled => i \in misled' \/ (Accepted(outcome) /\ i = job)
    <2>1. w \in Process
        BY Zenon DEF Process
    <2>2. ManagerPublish(w, job, outcome, waits)
        BY <1>4, <1>8, Zenon
    <2> QED BY <2>1, <2>2, PublishFacts DEF success
<1> HIDE DEF success
<1>10. /\ step \in WorkerPc \ {"idle"} /\ step # "republish"
       /\ step \in {"fail", "ack"} => success
    BY DEF WorkerPc
<1>11. Goes(w, step)
    BY <1>4 DEF success
<1> HIDE DEF step
<1>12. Accepted(outcome) => Waiting(job)'
    BY <1>5, <1>7, <1>8, Zenon DEF Waiting
<1>13. \A i \in Job : i \in misled => Kept(i)'
    BY <1>9, <1>12, Zenon DEF Kept
<1>14. ASSUME NEW i \in Job, Keeper(w, i) PROVE i = job
    BY <1>8, <1>14, Zenon DEF Keeper, Holding
<1>15. step \in {"fail", "ack"} => \A i \in Job : Keeper(w, i) => Waiting(i)' \/ i \in misled'
    BY <1>9, <1>10, <1>12, <1>14, Zenon
<1>16. RowSide' /\ status' = status /\ results' = results
    BY <1>1, <1>3, RowsUnchanged, Zenon DEF rowVars
<1> QED BY <1>2, <1>3, <1>7, <1>9, <1>10, <1>11, <1>13, <1>15, <1>16, Busy, Proceeds, Zenon

\* FailEvaluation, after a republication or for good.
LEMMA FailStep ==
    ASSUME JobsInv, NEW w \in Worker, NEW permanent \in BOOLEAN, NEW step, NEW next,
           FailEvaluation(w, step, permanent, next),
           step \in {"fail", "bury"}, (step = "fail" /\ next = "ack") \/ next = "discard"
    PROVE  JobsInv'
<1>1. RowSide /\ ClientSide
    BY Zenon DEF JobsInv
<1>2. workerPc[w] # "idle" /\ workerPc[w] = step
    BY DEF FailEvaluation
<1>3. UNCHANGED <<results, completions, queueVars, clientPc, clientJob, commands, held, channel, publishVars>>
    BY Zenon DEF FailEvaluation, clientVars
<1>4. PICK reply \in Reply :
        /\ Answers("database", reply)
        /\ IF reply = "error" THEN UNCHANGED <<status, failures>> ELSE Fail(JobOf(w), permanent)
    BY Zenon DEF FailEvaluation
<1>5. PICK j \in Job : j = JobOf(w) /\ Holding(w, j)
    BY <1>2, Busy, Zenon
<1>6. /\ RowSide'
      /\ \A i \in Job : status'[i] \in {"QUEUED", "RUNNING", "FAILED"} =>
           status[i] \in {"QUEUED", "RUNNING", "FAILED"} \/ Holding(w, i)
    <2>1. CASE reply = "error"
        BY <1>1, <1>3, <1>4, <2>1, RowsUnchanged, Zenon DEF rowVars
    <2>2. CASE reply # "error"
        <3>1. Fail(j, permanent)
            BY <1>4, <1>5, <2>2, Zenon
        <3>2. \A i \in Job \ {j} : status'[i] = status[i]
            BY <1>1, <3>1, Zenon DEF RowSide, Fail
        <3> QED BY <1>1, <1>3, <1>5, <3>1, <3>2, FailWritten, Zenon
    <2> QED BY <2>1, <2>2, Zenon
<1>7. faults' \in 0..MaxFaults
    BY <1>1, <1>4, FaultCounted, Zenon DEF ClientSide
<1>8. /\ next \in WorkerPc \ {"idle"} /\ next # "republish"
      /\ next \in {"fail", "ack"} => step = "fail"
    BY DEF WorkerPc
<1>9. ASSUME NEW i \in Job, step = "fail" PROVE ~Keeper(w, i)
    BY <1>2, <1>9, Zenon DEF Keeper
<1>10. Goes(w, next)
    BY Zenon DEF FailEvaluation
<1> QED BY <1>2, <1>3, <1>6, <1>7, <1>8, <1>9, <1>10, Busy, QueuesStay, Proceeds, PublisherIdle, Zenon

\* A Nack on an open channel puts the message in a queue. On a closed channel the
\* broker has requeued it, and the worker keeps nothing.
LEMMA SettleStep ==
    ASSUME JobsInv, NEW w \in Worker, NEW step \in {"discard", "requeue"},
           \/ Settle(w, step, dead, <<work, retry>>)
           \/ Settle(w, step, work, <<retry, dead>>)
    PROVE  JobsInv'
<1>1. QueueSide /\ WorkerSide /\ ClientSide
    BY Zenon DEF JobsInv
<1>2. workerPc[w] # "idle"
    BY DEF Settle
<1>3. held[w] \in Message
    BY <1>2, Busy, Zenon
<1>4. /\ Goes(w, "idle") /\ held' = [held EXCEPT ![w] = None]
      /\ UNCHANGED <<rowVars, clientPc, clientJob, commands, channel, faults, publishVars>>
    BY Zenon DEF Settle, clientVars
<1>5. /\ QueueSide' /\ Queued \subseteq Queued'
      /\ channel[w] = "open" => held[w] \in Queued'
    <2>1. CASE Settle(w, step, dead, <<work, retry>>)
        <3>1. dead' = IF channel[w] = "open" THEN Add(dead, held[w]) ELSE dead
            BY <2>1, Zenon DEF Settle
        <3>2. /\ Good(dead') /\ In(dead) \subseteq In(dead')
              /\ channel[w] = "open" => held[w] \in In(dead')
            <4>1. Good(dead) /\ Good(Add(dead, held[w])) /\ In(Add(dead, held[w])) = In(dead) \cup {held[w]}
                BY <1>1, <1>3, AddMessage, Zenon DEF QueueSide
            <4> QED BY <3>1, <4>1, Zenon
        <3>3. work' = work /\ retry' = retry
            BY <2>1, Zenon DEF Settle
        <3> QED BY <1>1, <3>2, <3>3, Zenon DEF QueueSide, Queued
    <2>2. CASE Settle(w, step, work, <<retry, dead>>)
        <3>1. work' = IF channel[w] = "open" THEN Add(work, held[w]) ELSE work
            BY <2>2, Zenon DEF Settle
        <3>2. /\ Good(work') /\ In(work) \subseteq In(work')
              /\ channel[w] = "open" => held[w] \in In(work')
            <4>1. Good(work) /\ Good(Add(work, held[w])) /\ In(Add(work, held[w])) = In(work) \cup {held[w]}
                BY <1>1, <1>3, AddMessage, Zenon DEF QueueSide
            <4> QED BY <3>1, <4>1, Zenon
        <3>3. retry' = retry /\ dead' = dead
            BY <2>2, Zenon DEF Settle
        <3> QED BY <1>1, <3>2, <3>3, Zenon DEF QueueSide, Queued
    <2> QED BY <2>1, <2>2, Zenon
<1>6. ASSUME NEW j \in Job, Keeper(w, j) PROVE Waiting(j)'
    BY <1>5, <1>6, Zenon DEF Keeper, Holding, Waiting
<1>7. channel[w] \in {"open", "closed"} /\ channel' = [channel EXCEPT ![w] = channel[w]]
    BY <1>1, <1>4 DEF WorkerSide
<1>8. faults' \in 0..MaxFaults
    BY <1>1, <1>4, Zenon DEF ClientSide
<1> QED BY <1>4, <1>5, <1>6, <1>7, <1>8, LetsGo, PublisherIdle, Zenon

\* An ack gives up nothing that is still needed.
LEMMA AckStep ==
    ASSUME JobsInv, NEW w \in Worker, Ack(w)
    PROVE  JobsInv'
<1>1. WorkerSide /\ ClientSide
    BY Zenon DEF JobsInv
<1>2. /\ workerPc[w] = "ack" /\ Goes(w, "idle") /\ held' = [held EXCEPT ![w] = None]
      /\ UNCHANGED <<rowVars, queueVars, clientPc, clientJob, commands, channel, faults, publishVars>>
    BY Zenon DEF Ack, clientVars
<1>3. ASSUME NEW j \in Job PROVE ~Keeper(w, j)
    BY <1>2, Zenon DEF Keeper
<1>4. channel[w] \in {"open", "closed"} /\ channel' = [channel EXCEPT ![w] = channel[w]]
    BY <1>1, <1>2 DEF WorkerSide
<1>5. faults' \in 0..MaxFaults
    BY <1>1, <1>2, Zenon DEF ClientSide
<1> QED BY <1>2, <1>3, <1>4, <1>5, QueuesStay, LetsGo, PublisherIdle, Zenon

------------------------------------------------------------------------------
(* The broker, and faults *)

\* An expired message of the retry queue is back in the work queue.
LEMMA RetryExpiresStep ==
    ASSUME JobsInv, RetryExpires
    PROVE  JobsInv'
<1>1. RowSide /\ ClientSide /\ QueueSide
    BY Zenon DEF JobsInv
<1>2. PICK m \in In(retry) : retry' = Remove(retry, m) /\ work' = Add(work, m)
    BY Zenon DEF RetryExpires
<1>3. UNCHANGED <<rowVars, dead, clientVars, workerVars, publishVars, faults>>
    BY Zenon DEF RetryExpires
<1>4. m \in Message
    BY <1>2, Zenon DEF In
<1>5. Good(retry') /\ In(retry) \subseteq In(retry') \cup {m}
    BY <1>1, <1>2, RemoveMessage, Zenon DEF QueueSide
<1>6. Good(work') /\ In(work') = In(work) \cup {m}
    BY <1>1, <1>2, <1>4, AddMessage, Zenon DEF QueueSide
<1>7. dead' = dead
    BY <1>3, Zenon
<1>8. QueueSide'
    BY <1>1, <1>5, <1>6, <1>7, Zenon DEF QueueSide
<1>9. ASSUME NEW n \in Queued PROVE n \in Queued'
    BY <1>5, <1>6, <1>7, Zenon DEF Queued
<1>10. RowSide' /\ status' = status /\ results' = results
    BY <1>1, <1>3, RowsUnchanged, Zenon DEF rowVars
<1>11. ClientSide' /\ \A i : \A d \in Client : Calling(d, i)' => Calling(d, i)
    BY <1>1, <1>3, Zenon DEF clientVars, ClientSide, Calling
<1>12. UNCHANGED <<results, held, channel, workerPc>> /\ Queued \subseteq Queued'
    BY <1>3, <1>9, <1>10, Zenon DEF workerVars
<1>13. /\ \A i \in Job : status'[i] \in {"QUEUED", "RUNNING", "FAILED"} => Owed(i)
       /\ \A i \in Job : \A d \in Client : Calling(d, i)' => Owed(i)
    BY <1>10, <1>11, Zenon DEF Owed
<1> QED BY <1>3, <1>8, <1>10, <1>11, <1>12, <1>13, CallKeeps, PublisherIdle, Zenon

\* The broker requeues what a channel that closes had not acknowledged.
LEMMA DeliveryRequeued ==
    ASSUME JobsInv, NEW w \in Worker, work' = Requeued(w), UNCHANGED <<retry, dead>>
    PROVE  /\ QueueSide' /\ Queued \subseteq Queued'
           /\ \A j \in Job : Keeper(w, j) => Waiting(j)'
<1>1. QueueSide /\ held[w] \in Message \cup {None}
    BY Zenon DEF JobsInv, WorkerSide
<1>2. /\ Good(work') /\ In(work) \subseteq In(work')
      /\ held[w] # None /\ channel[w] = "open" => held[w] \in In(work')
    <2>1. CASE held[w] # None /\ channel[w] = "open"
        <3>1. work' = Add(work, held[w]) /\ held[w] \in Message
            BY <1>1, <2>1, Zenon DEF Requeued
        <3>2. Good(Add(work, held[w])) /\ In(Add(work, held[w])) = In(work) \cup {held[w]}
            BY <1>1, <3>1, AddMessage, Zenon DEF QueueSide
        <3> QED BY <3>1, <3>2, Zenon
    <2>2. CASE ~(held[w] # None /\ channel[w] = "open")
        <3>1. work' = work
            BY <2>2, Zenon DEF Requeued
        <3> QED BY <1>1, <2>2, <3>1, Zenon DEF QueueSide
    <2> QED BY <2>1, <2>2, Zenon
<1>3. QueueSide' /\ Queued \subseteq Queued'
    BY <1>1, <1>2, Zenon DEF QueueSide, Queued
<1>4. ASSUME NEW j \in Job, Keeper(w, j) PROVE Waiting(j)'
    <2>1. held[w] # None /\ held[w].job = j /\ channel[w] = "open"
        BY <1>4, Zenon DEF Keeper, Holding
    <2>2. held[w] \in Queued'
        BY <1>2, <2>1, Zenon DEF Queued
    <2> QED BY <2>1, <2>2, Zenon DEF Waiting
<1> QED BY <1>3, <1>4, Zenon

\* A worker whose channel has closed still holds its delivery, and keeps it no more.
LEMMA ChannelClosesStep ==
    ASSUME JobsInv, NEW w \in Worker, ChannelCloses(w)
    PROVE  JobsInv'
<1>1. RowSide /\ ClientSide /\ WorkerSide
    BY Zenon DEF JobsInv
<1>2. /\ work' = Requeued(w) /\ channel' = [channel EXCEPT ![w] = "closed"]
      /\ UNCHANGED <<rowVars, retry, dead, clientPc, clientJob, commands, workerPc, held, publishVars>>
    BY Zenon DEF ChannelCloses, clientVars
<1>3. /\ QueueSide' /\ Queued \subseteq Queued'
      /\ \A j \in Job : Keeper(w, j) => Waiting(j)'
    BY <1>2, DeliveryRequeued, Zenon
<1>4. faults' \in 0..MaxFaults
    BY <1>1, FaultCounted, Zenon DEF ClientSide, ChannelCloses
<1>5. /\ workerPc' = [workerPc EXCEPT ![w] = workerPc[w]] /\ held' = [held EXCEPT ![w] = held[w]]
      /\ workerPc[w] \in WorkerPc /\ held[w] \in Message \cup {None}
    BY <1>1, <1>2 DEF WorkerSide, WorkerPc
<1>6. /\ workerPc[w] = "idle" <=> held[w] = None
      /\ workerPc[w] = "republish" => held[w].attempt + 1 < MaxAttempts
    BY <1>1, Zenon DEF WorkerSide
<1>7. WorkerSide' /\ OtherWorkers(w)
    BY <1>1, <1>2, <1>5, <1>6, WorkerMoves, Zenon
<1>8. RowSide' /\ status' = status /\ results' = results
    BY <1>1, <1>2, RowsUnchanged, Zenon DEF rowVars
<1>9. /\ \A j \in Job : Waiting(j) => Kept(j)'
      /\ \A j \in Job : Keeper(w, j) => Kept(j)'
    BY <1>3, Zenon DEF Waiting, Kept
<1>10. ASSUME NEW j \in Job PROVE Holding(w, j)' => Owed(j)
    BY <1>2, Zenon DEF Holding, Owed
<1>11. \A j \in Job : status'[j] \in {"QUEUED", "RUNNING", "FAILED"} => Owed(j)
    BY <1>8, Zenon DEF Owed
<1> QED BY <1>2, <1>3, <1>4, <1>7, <1>8, <1>9, <1>10, <1>11, WorkerKeeps, PublisherIdle, Zenon

\* A worker that dies holds nothing any more.
LEMMA RestartStep ==
    ASSUME JobsInv, NEW w \in Worker, RestartWorker(w)
    PROVE  JobsInv'
<1>1. ClientSide
    BY Zenon DEF JobsInv
<1>2. /\ work' = Requeued(w) /\ channel' = [channel EXCEPT ![w] = "open"]
      /\ Goes(w, "idle") /\ held' = [held EXCEPT ![w] = None]
      /\ UNCHANGED <<rowVars, retry, dead, clientPc, clientJob, commands, misled, gaveUp>>
      /\ publisher' = [publisher EXCEPT ![w] = NewPublisher]
    BY Zenon DEF RestartWorker, clientVars, Goes
<1>3. faults' \in 0..MaxFaults
    BY <1>1, FaultCounted, Zenon DEF ClientSide, RestartWorker
<1>4. PublisherSide' /\ \A j \in Job : j \in misled => Kept(j)'
    BY <1>2, PublisherRestarts, Zenon DEF Process
<1> QED BY <1>2, <1>3, <1>4, DeliveryRequeued, LetsGo, Zenon

------------------------------------------------------------------------------
(* The theorems *)

\* The invariant holds at first.
LEMMA JobsInit == Init => JobsInv
<1> SUFFICES ASSUME Init PROVE JobsInv
    OBVIOUS
<1>1. /\ \A j \in Job : status[j] = "absent"
      /\ \A w \in Worker : held[w] = None /\ workerPc[w] = "idle"
      /\ \A c \in Client : clientPc[c] = "idle"
    BY Zenon DEF Init
<1>2. /\ \A j \in Job : status[j] \notin {"QUEUED", "RUNNING", "FAILED", "COMPLETED", "DEAD_LETTERED"}
      /\ \A w \in Worker : workerPc[w] # "republish"
      /\ \A c \in Client : clientPc[c] # "queued"
    BY <1>1
<1>3. RowSide
    <2>1. /\ results \in [Job -> 0..1] /\ completions \in [Job -> Nat] /\ failures \in [Job -> Nat]
        BY DEF Init
    <2> QED BY <1>2, <2>1, Zenon DEF Init, RowSide, StatusHasEvidence
<1>4. QueueSide
    BY NoMessages, Zenon DEF Init, QueueSide
<1>5. WorkerSide
    BY <1>1, <1>2, Zenon DEF Init, WorkerSide
<1>6. ClientSide
    <2>1. commands \in 0..MaxCommands /\ faults \in 0..MaxFaults
        BY JobsAssumption DEF Init
    <2> QED BY <1>1, <2>1, Zenon DEF Init, ClientSide
<1>7. Safe
    BY <1>1, <1>2, Zenon DEF Safe, Owed, Holding, Calling
<1>8. PublisherSide
    <2>1. NewPublisher \in [open : BOOLEAN, unread : Seq({"ack", "nack"})] /\ NewPublisher.unread = <<>>
        BY DEF NewPublisher
    <2> QED BY <2>1, Zenon DEF Init, PublisherSide
<1> QED BY <1>3, <1>4, <1>5, <1>6, <1>7, <1>8, Zenon DEF JobsInv

\* Every step keeps the invariant.
LEMMA JobsStep == JobsInv /\ [Next]_vars => JobsInv'
<1> SUFFICES ASSUME JobsInv, [Next]_vars PROVE JobsInv'
    OBVIOUS
<1>1. ASSUME NEW c \in Client, NEW j \in Job, Submit(c, j) \/ RetryJob(c, j) PROVE JobsInv'
    BY <1>1, SubmitStep, RetryStep, Zenon
<1>2. ASSUME NEW c \in Client, ClientStep(c) PROVE JobsInv'
    BY <1>2, PublishStep, MarkQueuedStep, Zenon DEF ClientStep
<1>3. ASSUME NEW w \in Worker, WorkerStep(w) PROVE JobsInv'
    <2>1. CASE Receive(w) \/ MarkEvaluationRunning(w) \/ LoadInput(w)
        BY <2>1, ReceiveStep, MarkRunningStep, LoadStep, Zenon
    <2>2. CASE CompleteEvaluation(w) \/ Republish(w) \/ Ack(w)
        BY <2>2, CompleteStep, RepublishStep, AckStep, Zenon
    <2>3. CASE FailEvaluation(w, "fail", FALSE, "ack") \/ FailEvaluation(w, "bury", TRUE, "discard")
        BY <2>3, FailStep, Zenon
    <2>4. CASE \/ Settle(w, "discard", dead, <<work, retry>>)
               \/ Settle(w, "requeue", work, <<retry, dead>>)
        BY <2>4, SettleStep, Zenon
    <2> QED BY <1>3, <2>1, <2>2, <2>3, <2>4, Zenon DEF WorkerStep
<1>4. ASSUME NEW w \in Worker, ChannelCloses(w) \/ RestartWorker(w) PROVE JobsInv'
    BY <1>4, ChannelClosesStep, RestartStep, Zenon
<1>5. CASE Next
    BY <1>1, <1>2, <1>3, <1>4, <1>5, ApiRestartStep, RetryExpiresStep, Zenon DEF Next
<1>6. CASE UNCHANGED vars
    <2>1. UNCHANGED rowVars /\ UNCHANGED queueVars /\ UNCHANGED clientVars /\ UNCHANGED workerVars
          /\ UNCHANGED publishVars /\ UNCHANGED faults
        BY <1>6, Zenon DEF vars
    <2>2. RowSide' /\ QueueSide' /\ Queued' = Queued
        BY <2>1, RowsUnchanged, QueuesStay, Zenon DEF JobsInv
    <2>3. ClientSide' /\ \A i : \A d \in Client : Calling(d, i)' => Calling(d, i)
        BY <2>1, Zenon DEF JobsInv, clientVars, ClientSide, Calling
    <2>4. /\ \A i \in Job : status'[i] \in {"QUEUED", "RUNNING", "FAILED"} => Owed(i)
          /\ \A i \in Job : \A d \in Client : Calling(d, i)' => Owed(i)
        BY <2>1, <2>3, Zenon DEF Owed, rowVars
    <2>5. UNCHANGED <<results, held, channel, workerPc>>
        BY <2>1, Zenon DEF rowVars, workerVars
    <2> QED BY <2>1, <2>2, <2>3, <2>4, <2>5, CallKeeps, PublisherIdle, Zenon
<1> QED BY <1>5, <1>6, Zenon

\* The invariant holds throughout.
LEMMA JobsSafety == Spec => []JobsInv
BY JobsInit, JobsStep, PTL DEF Spec

\* Type correctness; no message is ever sent with an attempt past MaxAttempts, and
\* no job has two results (rabbitmq.go, evaluation.go).
THEOREM JobsTyped == Spec => []TypeOK
<1>1. JobsInv => TypeOK
    <2>1. WorkerSide => InFlight \subseteq Message
        <3>1. held \in [Worker -> Message \cup {None}]
                => \A w \in Worker : held[w] # None => held[w] \in Message
            BY Zenon
        <3> QED BY <3>1, Zenon DEF WorkerSide, InFlight
    <2> QED BY <2>1, Zenon DEF JobsInv, RowSide, QueueSide, Good, WorkerSide, ClientSide, PublisherSide, TypeOK
<1> QED BY <1>1, JobsSafety, PTL

\* A job is shown as COMPLETED or DEAD_LETTERED only with the rows that say so, through
\* any redelivery and any number of workers (evaluation.go).
THEOREM EvidenceCommitted == Spec => []StatusHasEvidence
<1>1. JobsInv => StatusHasEvidence
    BY Zenon DEF JobsInv, RowSide
<1> QED BY <1>1, JobsSafety, PTL

\* A queued job keeps a message until it has a result, whatever crashes, refusals, lost
\* answers and closed channels there are, unless Publish returned nil for a message the
\* broker did not accept; and until a caller of Publish has given up it never does
\* (rabbitmq.go).
THEOREM NoWorkLost == Spec => []WorkIsNotLost
<1>1. JobsInv => WorkIsNotLost
    <2> SUFFICES ASSUME JobsInv PROVE WorkIsNotLost
        OBVIOUS
    <2>1. ASSUME NEW j \in Job, status[j] \in {"QUEUED", "RUNNING", "FAILED"}
          PROVE  \/ results[j] = 1
                 \/ \E m \in Queued : m.job = j
                 \/ \E w \in Worker : held[w] # None /\ JobOf(w) = j /\ channel[w] = "open"
                 \/ j \in misled
        <3>1. Kept(j)
            BY <2>1, Zenon DEF JobsInv, Safe, Owed
        <3> QED BY <3>1, Zenon DEF Kept, Waiting, Keeper, Holding, JobOf
    <2>2. misled # {} => gaveUp
        BY Zenon DEF JobsInv, PublisherSide
    <2> QED BY <2>1, <2>2, Zenon DEF WorkIsNotLost
<1> QED BY <1>1, JobsSafety, PTL

------------------------------------------------------------------------------
(* Publisher confirms *)

\* Publications whose callers have returned.
Done == IF mu = Nobody THEN published ELSE published - 1

\* The caller of an acknowledged publication up to t was told otherwise.
Wronged(t) == \E q \in returned : q.tag <= t /\ ~q.success /\ broker[q.tag] = "ack"

\* The mutex admits one waiting caller, whose publication is the latest.
MutexInv == /\ published \in 0..MaxMessages
            /\ mu # Nobody => published > 0
            /\ DOMAIN waiting = Caller
            /\ \A c \in Caller : waiting[c] # Nobody => mu = c /\ waiting[c] = published

\* The first d publications are decided and the first k of the decisions are read.
Places(k, d) == /\ k <= d /\ d <= published /\ k <= Done
                /\ \A t \in Tag : broker[t] = "unknown" <=> t > d
                /\ Len(confirm) = d - k
                /\ \A i \in 1..Len(confirm) : confirm[i] = broker[k + i]
                /\ \A t \in Tag : k < t /\ t <= Done /\ broker[t] = "ack" => Wronged(t)

\* Every publication but the waiting one has returned. Success not owed to the broker's
\* answer is traced to an earlier caller that was told of a failure.
ResultInv == /\ returned \subseteq [tag : 1..Done, success : BOOLEAN]
             /\ \A t \in 1..Done : \E r \in returned : r.tag = t
             /\ \A r \in returned : r.success => broker[r.tag] = "ack" \/ Wronged(r.tag - 1)

\* OwnConfirmation by itself does not survive a late answer of the broker or a read of
\* a confirmation left behind: both need to know how the unread ones line up with the
\* publications (Places).
ChannelInv == /\ MutexInv /\ ResultInv /\ DOMAIN broker = Tag
              /\ confirm \in Seq({"ack", "nack"})
              /\ \E k, d \in 0..MaxMessages : Places(k, d)

\* A new channel, NewPublisher's: nothing is published, decided or read.
LEMMA ChannelInit == NewChannel => ChannelInv
<1> SUFFICES ASSUME NewChannel PROVE ChannelInv
  OBVIOUS
<1>1. MutexInv /\ ResultInv /\ DOMAIN broker = Tag /\ confirm \in Seq({"ack", "nack"})
  BY ConfirmsAssumption DEF NewChannel, MutexInv, ResultInv, Done, Tag
<1>2. Places(0, 0)
  BY ConfirmsAssumption DEF NewChannel, Places, Done, Tag
<1> QED
  BY <1>1, <1>2, ConfirmsAssumption DEF ChannelInv

\* Publish under the mutex leaves the returned publications alone.
LEMMA ChannelPublishStep ==
  ASSUME ChannelInv, NEW c \in Caller, Publish(c) PROVE ChannelInv'
<1>1. Done' = Done /\ published \in Nat
  BY ConfirmsAssumption DEF ChannelInv, MutexInv, Publish, Done
<1>2. MutexInv'
  <2>1. \A e \in Caller : waiting[e] = Nobody
    BY ConfirmsAssumption DEF ChannelInv, MutexInv, Publish
  <2> QED
    BY <2>1, <1>1, ConfirmsAssumption DEF ChannelInv, MutexInv, Publish
<1>3. ResultInv'
  BY <1>1 DEF ChannelInv, ResultInv, Wronged, Publish
<1>4. PICK k \in 0..MaxMessages, d \in 0..MaxMessages : Places(k, d)
  BY DEF ChannelInv
<1>5. Places(k, d)'
  BY <1>1, <1>4 DEF Places, Wronged, Publish
<1> QED
  BY <1>2, <1>3, <1>5 DEF ChannelInv, Publish

\* However the select of Publish ends, the caller returns the result of the latest
\* publication and frees the mutex.
LEMMA ReturnFacts ==
  ASSUME ChannelInv, NEW c \in Caller, waiting[c] # Nobody, NEW success \in BOOLEAN,
         Return(c, success), UNCHANGED <<published, broker>>
  PROVE  /\ published \in Nat /\ published \in Tag
         /\ Done = published - 1 /\ Done' = published
         /\ returned' = returned \cup {[tag |-> published, success |-> success]}
         /\ MutexInv'
<1>1. mu = c /\ waiting[c] = published /\ c # Nobody
  BY ConfirmsAssumption DEF ChannelInv, MutexInv
<1>2. published \in Nat /\ published \in Tag /\ Done = published - 1 /\ Done' = published
  BY <1>1, ConfirmsAssumption DEF ChannelInv, MutexInv, Done, Return, Tag
<1>3. \A e \in Caller : waiting'[e] = Nobody
  BY <1>1 DEF ChannelInv, MutexInv, Return
<1> QED
  BY <1>1, <1>2, <1>3 DEF ChannelInv, MutexInv, Return

\* A result is accounted for if its success is.
LEMMA ResultsKept ==
  ASSUME ChannelInv, NEW c \in Caller, waiting[c] # Nobody, NEW success \in BOOLEAN,
         Return(c, success), UNCHANGED <<published, broker>>,
         success => broker[published] = "ack" \/ Wronged(published - 1)
  PROVE  ResultInv'
<1>1. PICK new : new = [tag |-> published, success |-> success]
  BY Zenon
<1>2. /\ published \in Nat /\ published > 0
      /\ Done = published - 1 /\ Done' = published
      /\ returned' = returned \cup {new}
  BY <1>1, ReturnFacts, ConfirmsAssumption DEF Tag
<1>3. returned' \subseteq [tag : 1..published, success : BOOLEAN]
  BY <1>1, <1>2 DEF ChannelInv, ResultInv
<1>4. \A t \in 1..published : \E r \in returned' : r.tag = t
  BY <1>1, <1>2 DEF ChannelInv, ResultInv
<1>5. ASSUME NEW t, Wronged(t) PROVE Wronged(t)'
  BY <1>2, <1>5 DEF Wronged
<1>6. ASSUME NEW r \in returned', r.success PROVE broker[r.tag] = "ack" \/ Wronged(r.tag - 1)'
  BY <1>1, <1>2, <1>5, <1>6 DEF ChannelInv, ResultInv, Wronged
<1> QED
  BY <1>2, <1>3, <1>4, <1>6 DEF ResultInv

\* The select receives the oldest unread confirmation, its own or one left behind.
LEMMA ConfirmedStep ==
  ASSUME ChannelInv, NEW c \in Caller, Confirmed(c), confirm # <<>> PROVE ChannelInv'
<1>1. PICK success \in BOOLEAN : success = (Head(confirm) = "ack")
  BY Zenon
<1>2. Return(c, success) /\ confirm' = Tail(confirm) /\ waiting[c] # Nobody
      /\ UNCHANGED <<published, broker>>
  BY <1>1, Zenon DEF Confirmed
<1>3. /\ published \in Nat /\ published \in Tag
      /\ Done = published - 1 /\ Done' = published
      /\ returned' = returned \cup {[tag |-> published, success |-> success]}
      /\ MutexInv'
  BY <1>2, ReturnFacts
<1>4. PICK k \in 0..MaxMessages, d \in 0..MaxMessages : Places(k, d)
  BY DEF ChannelInv
<1>5. /\ confirm \in Seq({"ack", "nack"}) /\ Len(confirm) > 0
      /\ Len(confirm) = d - k /\ Head(confirm) = broker[k + 1]
  BY <1>4, ConfirmsAssumption DEF ChannelInv, Places
<1>6. success <=> broker[k + 1] = "ack"
  BY <1>1, <1>5, Zenon
<1>7. k + 1 \in Tag /\ k + 1 <= d /\ d <= published /\ k + 1 <= published
  BY <1>3, <1>4, <1>5, ConfirmsAssumption DEF Places, Tag
\* A confirmation of an earlier publication is read late.
<1>8. ASSUME success, k + 1 < published PROVE Wronged(k + 1)
  BY <1>3, <1>4, <1>6, <1>7, <1>8 DEF Places, Tag
<1>9. success => broker[published] = "ack" \/ Wronged(published - 1)
  BY <1>3, <1>6, <1>7, <1>8 DEF Wronged, ChannelInv, ResultInv, Tag
<1>10. ResultInv'
  BY <1>2, <1>9, ResultsKept
<1>11. \A t \in Tag : k + 1 < t /\ t <= published /\ broker[t] = "ack" => Wronged(t)'
  <2> SUFFICES ASSUME NEW t \in Tag, k + 1 < t, t <= published, broker[t] = "ack"
               PROVE  Wronged(t)'
    OBVIOUS
  <2>1. CASE t < published
    <3>1. Wronged(t)
      BY <2>1, <1>3, <1>4 DEF Places, Tag
    <3> QED
      BY <3>1, <1>2, <1>3 DEF Wronged
  <2>2. CASE t = published /\ ~success
    <3>1. PICK q : q = [tag |-> published, success |-> success]
      BY Zenon
    <3>2. q \in returned' /\ q.tag = published /\ ~q.success
      BY <2>2, <3>1, <1>3
    <3> QED
      BY <2>2, <3>2, <1>2, <1>3 DEF Wronged
  <2>3. CASE t = published /\ success
    <3>1. Wronged(k + 1)
      BY <2>3, <1>8
    <3> QED
      BY <3>1, <1>2, <1>3 DEF Wronged, ChannelInv, ResultInv, Tag
  <2> QED
    BY <2>1, <2>2, <2>3, <1>3 DEF Tag
<1>12. confirm' \in Seq({"ack", "nack"}) /\ Len(confirm') = d - (k + 1)
       /\ \A i \in 1..Len(confirm') : confirm'[i] = broker[(k + 1) + i]
  <2>1. /\ confirm' \in Seq({"ack", "nack"}) /\ Len(confirm') = Len(confirm) - 1
        /\ \A i \in 1..Len(confirm') : confirm'[i] = confirm[i + 1]
    BY <1>2, <1>5
  <2>2. \A i \in 1..Len(confirm) : confirm[i] = broker[k + i]
    BY <1>4 DEF Places
  <2>3. ASSUME NEW i \in 1..Len(confirm') PROVE confirm'[i] = broker[(k + 1) + i]
    <3>1. i + 1 \in 1..Len(confirm) /\ k + (i + 1) = (k + 1) + i
      BY <2>1, <1>5
    <3> QED
      BY <3>1, <2>1, <2>2, Zenon
  <2> QED
    BY <2>1, <2>3, <1>5
<1>13. Places(k + 1, d)'
  BY <1>2, <1>3, <1>4, <1>7, <1>11, <1>12 DEF Places
<1> QED
  BY <1>2, <1>3, <1>7, <1>10, <1>12, <1>13, ConfirmsAssumption DEF ChannelInv, Tag

\* The select ends without a confirmation: context over or Go channel closed. What it
\* leaves unread belongs to a caller that was told of a failure.
LEMMA UnconfirmedStep ==
  ASSUME ChannelInv, NEW c \in Caller, waiting[c] # Nobody, Return(c, FALSE),
         UNCHANGED <<published, broker, confirm>>
  PROVE  ChannelInv'
<1>1. /\ published \in Nat /\ published \in Tag
      /\ Done = published - 1 /\ Done' = published
      /\ returned' = returned \cup {[tag |-> published, success |-> FALSE]}
      /\ MutexInv'
  BY ReturnFacts, Zenon
<1>2. ResultInv'
  BY ResultsKept, Zenon
<1>3. PICK k \in 0..MaxMessages, d \in 0..MaxMessages : Places(k, d)
  BY DEF ChannelInv
<1>4. ASSUME NEW t \in Tag, k < t, t <= published, broker[t] = "ack" PROVE Wronged(t)'
  <2>1. CASE t < published
    <3>1. Wronged(t)
      BY <2>1, <1>1, <1>3, <1>4 DEF Places, Tag
    <3> QED
      BY <3>1, <1>1 DEF Wronged
  <2>2. CASE t = published
    <3>1. PICK q : q = [tag |-> published, success |-> FALSE]
      BY Zenon
    <3>2. q \in returned' /\ q.tag = published /\ ~q.success
      BY <3>1, <1>1
    <3> QED
      BY <2>2, <3>2, <1>1, <1>4 DEF Wronged
  <2> QED
    BY <2>1, <2>2, <1>1, <1>4 DEF Tag
<1>5. Places(k, d)'
  BY <1>1, <1>3, <1>4 DEF Places
<1> QED
  BY <1>1, <1>2, <1>5 DEF ChannelInv

\* The broker's answer is the next decided publication and the last unread confirmation,
\* whether its caller still waits or not.
LEMMA DecideStep ==
  ASSUME ChannelInv, NEW answer \in {"ack", "nack"}, Decide(answer) PROVE ChannelInv'
<1>1. PICK u \in 1..published :
        /\ broker[u] = "unknown" /\ \A s \in 1..u - 1 : broker[s] # "unknown"
        /\ broker' = [broker EXCEPT ![u] = answer]
        /\ confirm' = Append(confirm, answer)
        /\ UNCHANGED <<mu, published, open, waiting, returned>>
  BY Zenon DEF Decide
<1>2. PICK k \in 0..MaxMessages, d \in 0..MaxMessages : Places(k, d)
  BY DEF ChannelInv
<1>3. published \in 0..MaxMessages /\ u \in Tag
  BY ConfirmsAssumption DEF ChannelInv, MutexInv, Tag
<1>4. u = d + 1
  <2>1. u > d /\ \A t \in Tag : t > d => broker[t] = "unknown"
    BY <1>1, <1>2, <1>3 DEF Places
  <2>2. u <= MaxMessages /\ u \in Nat /\ d \in Nat
    BY <1>1, <1>2, <1>3, ConfirmsAssumption DEF Tag
  <2>3. ASSUME u > d + 1 PROVE FALSE
    <3>1. d + 1 \in Tag /\ d + 1 > d /\ d + 1 \in 1..u - 1
      BY <2>2, <2>3, ConfirmsAssumption DEF Tag
    <3> QED
      BY <3>1, <2>1, <1>1
  <2> QED
    BY <2>1, <2>2, <2>3
<1>5. Done' = Done /\ Done \in Int /\ Done <= published /\ MutexInv'
  BY <1>1, <1>3 DEF ChannelInv, MutexInv, Done
<1>6. DOMAIN broker' = Tag /\ broker'[u] = answer
      /\ \A t \in Tag : t # u => broker'[t] = broker[t]
  BY <1>1, <1>3 DEF ChannelInv
<1>7. answer # "unknown" /\ broker[u] # "ack"
  BY <1>1
<1>8. \A r \in returned : r.tag \in Tag /\ r.tag \in 1..Done
  BY <1>3, <1>5, ConfirmsAssumption DEF ChannelInv, ResultInv, Tag
<1>9. ASSUME NEW t, Wronged(t) PROVE Wronged(t)'
  BY <1>1, <1>6, <1>7, <1>8, <1>9 DEF Wronged
<1>10. ResultInv'
  BY <1>1, <1>5, <1>6, <1>7, <1>8, <1>9 DEF ChannelInv, ResultInv
\* Its caller has returned: with a failure, or with a confirmation it was not owed.
<1>11. ASSUME u <= Done, answer = "ack" PROVE Wronged(u)'
  <2>1. PICK r \in returned : r.tag = u
    BY <1>3, <1>5, <1>11 DEF ChannelInv, ResultInv, Tag
  <2>2. CASE r.success
    <3>1. Wronged(u - 1)
      BY <2>1, <2>2, <1>7 DEF ChannelInv, ResultInv
    <3> QED
      BY <3>1, <1>8, <1>9, <1>3 DEF Wronged, Tag
  <2>3. CASE ~r.success
    BY <2>1, <2>3, <1>1, <1>6, <1>11, <1>3 DEF Wronged, Tag
  <2> QED
    BY <2>2, <2>3
<1>12. \A t \in Tag : k < t /\ t <= Done /\ broker'[t] = "ack" => Wronged(t)'
  <2> SUFFICES ASSUME NEW t \in Tag, k < t, t <= Done, broker'[t] = "ack" PROVE Wronged(t)'
    OBVIOUS
  <2>1. CASE t = u
    BY <2>1, <1>6, <1>11
  <2>2. CASE t # u
    BY <2>2, <1>2, <1>6, <1>9 DEF Places
  <2> QED
    BY <2>1, <2>2
<1>13. /\ confirm' \in Seq({"ack", "nack"}) /\ Len(confirm') = (d + 1) - k
       /\ \A i \in 1..Len(confirm') : confirm'[i] = broker'[k + i]
  <2>1. confirm \in Seq({"ack", "nack"}) /\ Len(confirm) = d - k /\ k <= d
        /\ \A i \in 1..Len(confirm) : confirm[i] = broker[k + i]
    BY <1>2 DEF ChannelInv, Places
  <2>2. /\ confirm' \in Seq({"ack", "nack"}) /\ Len(confirm') = Len(confirm) + 1
        /\ confirm'[Len(confirm) + 1] = answer
        /\ \A i \in 1..Len(confirm) : confirm'[i] = confirm[i]
    <3>1. PICK S : S = {"ack", "nack"}
      BY Zenon
    <3>2. confirm \in Seq(S) /\ answer \in S /\ confirm' = Append(confirm, answer)
      BY <3>1, <2>1, <1>1, Zenon
    <3>3. /\ confirm' \in Seq(S) /\ Len(confirm') = Len(confirm) + 1
          /\ confirm'[Len(confirm) + 1] = answer
          /\ \A i \in 1..Len(confirm) : confirm'[i] = confirm[i]
      BY <3>2
    <3> QED
      BY <3>1, <3>3, Zenon
  <2>3. ASSUME NEW i \in 1..Len(confirm') PROVE confirm'[i] = broker'[k + i]
    <3>1. CASE i = Len(confirm) + 1
      <4>1. k + i = u
        BY <3>1, <2>1, <1>4
      <4> QED
        BY <4>1, <3>1, <2>2, <1>6
    <3>2. CASE i \in 1..Len(confirm)
      <4>1. k + i \in Tag /\ k + i # u
        BY <3>2, <2>1, <1>1, <1>2, <1>3, <1>4, ConfirmsAssumption DEF Tag
      <4> QED
        BY <4>1, <3>2, <2>1, <2>2, <1>6, Zenon
    <3> QED
      BY <3>1, <3>2, <2>1, <2>2
  <2> QED
    BY <2>1, <2>2, <2>3
<1>14. \A t \in Tag : broker'[t] = "unknown" <=> t > d + 1
  BY <1>2, <1>4, <1>6, <1>7 DEF Places, Tag
<1>15. Places(k, d + 1)'
  BY <1>1, <1>2, <1>3, <1>4, <1>5, <1>12, <1>13, <1>14 DEF Places, Tag
<1>16. d + 1 \in 0..MaxMessages
  BY <1>3, <1>4, ConfirmsAssumption DEF Tag
<1> QED
  BY <1>5, <1>6, <1>10, <1>13, <1>15, <1>16 DEF ChannelInv

\* The invariant does not look at whether the channel is open.
LEMMA ChannelUnchanged ==
  ASSUME ChannelInv, UNCHANGED <<mu, published, broker, confirm, waiting, returned>>
  PROVE  ChannelInv'
<1>1. Done' = Done /\ MutexInv' = MutexInv
  BY Zenon DEF Done, MutexInv
<1>2. \A t : Wronged(t)' = Wronged(t)
  BY Zenon DEF Wronged
<1>3. ResultInv' = ResultInv
  BY <1>1, <1>2, Zenon DEF ResultInv
<1>4. \A k, d : Places(k, d)' = Places(k, d)
  BY <1>1, <1>2, Zenon DEF Places
<1> QED BY <1>1, <1>3, <1>4, Zenon DEF ChannelInv

\* Every step of the publisher, the broker and the connection keeps the invariant.
LEMMA ChannelStep == ChannelInv /\ [ChannelNext]_channelVars => ChannelInv'
<1> SUFFICES ASSUME ChannelInv, [ChannelNext]_channelVars PROVE ChannelInv'
  OBVIOUS
<1>1. ASSUME NEW c \in Caller, Publish(c) PROVE ChannelInv'
  BY <1>1, ChannelPublishStep
<1>2. ASSUME NEW c \in Caller, Confirmed(c) PROVE ChannelInv'
  BY <1>2, ConfirmedStep, UnconfirmedStep, Zenon DEF Confirmed
<1>3. ASSUME NEW c \in Caller, ContextEnds(c) PROVE ChannelInv'
  BY <1>3, UnconfirmedStep, Zenon DEF ContextEnds
<1>4. CASE BrokerStep
  BY <1>4, DecideStep DEF BrokerStep
<1>5. CASE ChannelBreaks
  BY <1>5, ChannelUnchanged DEF ChannelBreaks
<1>6. CASE UNCHANGED channelVars
  BY <1>6, ChannelUnchanged DEF channelVars
<1> QED
  BY <1>1, <1>2, <1>3, <1>4, <1>5, <1>6 DEF ChannelNext

\* Publish never takes another publication's confirmation for its own, unless an earlier
\* caller gave up on one: for any number of callers and publications, whichever of them
\* stop waiting and whenever the broker answers.
THEOREM OwnConfirmationRead == ChannelSpec => []OwnConfirmation
<1>1. ChannelInv => OwnConfirmation
  <2> SUFFICES ASSUME ChannelInv, NEW r \in returned, r.success
               PROVE  \/ broker[r.tag] = "ack"
                      \/ \E q \in returned : q.tag < r.tag /\ ~q.success /\ broker[q.tag] # "nack"
    BY DEF OwnConfirmation
  <2>1. \A q \in returned : q.tag \in Int
    BY DEF ChannelInv, ResultInv
  <2>2. broker[r.tag] = "ack" \/ Wronged(r.tag - 1)
    BY DEF ChannelInv, ResultInv
  <2> QED
    BY <2>1, <2>2 DEF Wronged
<1> QED
  BY <1>1, ChannelInit, ChannelStep, PTL DEF ChannelSpec
=============================================================================
