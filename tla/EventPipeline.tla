---------------------------- MODULE EventPipeline ----------------------------
(* The facts of one tenant on their way from the outbox table through the    *)
(* relays (internal/outbox/outbox.go) and the tenant's Kafka partition to    *)
(* the audit consumers (internal/kafka/consumer.go), which write the audit   *)
(* trail and the usage ledger (internal/persistence/audit.go). Broker and    *)
(* database calls fail, or succeed without the caller learning it; processes *)
(* crash; claims expire; the partition moves between consumers.              *)
EXTENDS Naturals, Sequences, FiniteSets, Functions

CONSTANTS Fact,        \* outbox rows, by id
          UsageFact,   \* those of type UsageRecorded
          Relay, Consumer,
          BatchSize,
          FaultKind,   \* which faults strike: database, publish, group, crash, expiry
          MaxFaults,   \* bound on their number
          None

ASSUME PipelineAssumption ==
    /\ UsageFact \subseteq Fact
    /\ None \notin Relay \cup Consumer \cup Fact
    /\ BatchSize \in Nat \ {0}
    /\ FaultKind \subseteq {"database", "publish", "group", "crash", "expiry"}
    /\ MaxFaults \in Nat

VARIABLES
    commits,    \* the rows in order of created_at
    row,        \* per fact: unpublished, delayed (available_at ahead) or published
    claimedBy,  \* per fact: claimed_by
    stale,      \* facts whose claim is older than the claim TTL
    relayPc, batch,               \* each relay: what it does, rows still to publish
    log,        \* the Kafka partition
    offset,     \* the group's committed offset
    owner,      \* the consumer the partition is assigned to
    consumerPc, position, current,    \* each consumer: what it does, the entry it
                                      \* fetched last, the entry it works on
    processed,  \* processed_kafka_events of this consumer group
    audited,    \* audit_events
    charges,    \* per fact: rows of usage_ledger
    errors      \* faults so far

outboxVars == <<commits, row, claimedBy, stale>>
relayVars == <<relayPc, batch>>
consumerVars == <<offset, owner, consumerPc, position, current>>
effectVars == <<processed, audited, charges>>
vars == <<outboxVars, relayVars, log, consumerVars, effectVars, errors>>

Init ==
    /\ commits = <<>>
    /\ row = [f \in Fact |-> "absent"]
    /\ claimedBy = [f \in Fact |-> None]
    /\ stale = {}
    /\ relayPc = [r \in Relay |-> "poll"]
    /\ batch = [r \in Relay |-> <<>>]
    /\ log = <<>>
    /\ offset = 0
    /\ owner \in Consumer
    /\ consumerPc = [c \in Consumer |-> "fetch"]
    /\ position = [c \in Consumer |-> 0]
    /\ current = [c \in Consumer |-> 0]
    /\ processed = {}
    /\ audited = {}
    /\ charges = [f \in Fact |-> 0]
    /\ errors = 0

Fault(kind) == /\ kind \in FaultKind
               /\ errors < MaxFaults
               /\ errors' = errors + 1

\* A call succeeds, fails without effect, or takes effect unknown to its caller.
Reply == {"ok", "error", "lost"}
Answers(kind, reply) == IF reply = "ok" THEN UNCHANGED errors ELSE Fault(kind)

------------------------------------------------------------------------------
(* The outbox *)

CommitAfterPublish(f) ==
    /\ row[f] = "absent"
    /\ row' = [row EXCEPT ![f] = "published"]
    /\ log' = Append(log, f)
    /\ UNCHANGED <<commits, claimedBy, stale, relayVars, consumerVars, effectVars, errors>>

\* insertOutbox, in the transaction of a domain change.
Commit(f) ==
    /\ row[f] = "absent"
    /\ row' = [row EXCEPT ![f] = "unpublished"]
    /\ commits' = Append(commits, f)
    /\ UNCHANGED <<claimedBy, stale, relayVars, log, consumerVars, effectVars, errors>>

\* available_at passes.
BecomeAvailable(f) ==
    /\ row[f] = "delayed"
    /\ row' = [row EXCEPT ![f] = "unpublished"]
    /\ UNCHANGED <<commits, claimedBy, stale, relayVars, log, consumerVars, effectVars, errors>>

\* A relay that no longer works on a row it has claimed.
Abandoned(f) == LET r == claimedBy[f] IN
    r # None /\ (relayPc[r] = "stopped" \/ f \notin Range(batch[r]))

\* The claim grows older than the TTL: it was abandoned, or its relay is slow.
ClaimExpires(f) ==
    /\ row[f] # "published"
    /\ claimedBy[f] # None
    /\ f \notin stale
    /\ IF Abandoned(f) THEN UNCHANGED errors ELSE Fault("expiry")
    /\ stale' = stale \cup {f}
    /\ UNCHANGED <<commits, row, claimedBy, relayVars, log, consumerVars, effectVars>>

ClaimableOnce(f) == row[f] = "unpublished" /\ claimedBy[f] = None

Claimable(f) == row[f] = "unpublished" /\ (claimedBy[f] = None \/ f \in stale)

\* The oldest claimable rows, at most BatchSize of them.
Candidates ==
    LET claimable == {i \in DOMAIN commits : Claimable(commits[i])} IN
    {commits[i] : i \in {j \in claimable : Cardinality({m \in claimable : m < j}) < BatchSize}}

------------------------------------------------------------------------------
(* A relay *)

\* Repository.Claim. UPDATE ... RETURNING gives the rows in no particular order.
\* An error ends Relay.Run, and its process goes on without it.
Claim(r) ==
    /\ relayPc[r] = "poll"
    /\ \E reply \in Reply :
         /\ Answers("database", reply)
         /\ claimedBy' = IF reply = "error" THEN claimedBy
                           ELSE [f \in Fact |-> IF f \in Candidates THEN r ELSE claimedBy[f]]
         /\ stale' = IF reply = "error" THEN stale ELSE stale \ Candidates
         /\ IF reply = "ok"
              THEN /\ Candidates # {}
                   /\ \E n \in 1..BatchSize : \E rows \in Bijection(1..n, Candidates) :
                        batch' = [batch EXCEPT ![r] = rows]
                   /\ relayPc' = [relayPc EXCEPT ![r] = "publish"]
              ELSE /\ relayPc' = [relayPc EXCEPT ![r] = "stopped"]
                   /\ UNCHANGED batch
    /\ UNCHANGED <<commits, row, log, consumerVars, effectVars>>

\* The next row of the batch, or the next poll.
Advance(r) ==
    /\ batch' = [batch EXCEPT ![r] = Tail(@)]
    /\ relayPc' = [relayPc EXCEPT ![r] = IF Tail(batch[r]) = <<>> THEN "poll" ELSE "publish"]

PublishWithoutAck(r) ==
    /\ relayPc[r] = "publish"
    /\ \E reply \in Reply :
         /\ Answers("publish", reply)
         /\ log' = IF reply = "error" THEN log ELSE Append(log, Head(batch[r]))
         /\ relayPc' = [relayPc EXCEPT ![r] = "mark"]
    /\ UNCHANGED <<outboxVars, batch, consumerVars, effectVars>>

\* Publisher.Publish appends the fact and waits for all replicas.
Publish(r) ==
    /\ relayPc[r] = "publish"
    /\ \E reply \in Reply :
         /\ Answers("publish", reply)
         /\ log' = IF reply = "error" THEN log ELSE Append(log, Head(batch[r]))
         /\ relayPc' = [relayPc EXCEPT ![r] = IF reply = "ok" THEN "mark" ELSE "release"]
    /\ UNCHANGED <<outboxVars, batch, consumerVars, effectVars>>

\* MarkPublished counts only while the row is claimed by this relay.
StillClaimed(r, f) == claimedBy[f] = r /\ row[f] # "published"

MarkPublished(r) ==
    LET f == Head(batch[r]) IN
    /\ relayPc[r] = "mark"
    /\ \E reply \in Reply :
         /\ Answers("database", reply)
         /\ IF reply # "error" /\ StillClaimed(r, f)
              THEN /\ row' = [row EXCEPT ![f] = "published"]
                   /\ claimedBy' = [claimedBy EXCEPT ![f] = None]
                   /\ stale' = stale \ {f}
              ELSE UNCHANGED <<row, claimedBy, stale>>
         /\ IF reply = "ok" THEN Advance(r)
              ELSE relayPc' = [relayPc EXCEPT ![r] = "stopped"] /\ UNCHANGED batch
    /\ UNCHANGED <<commits, log, consumerVars, effectVars>>

\* MarkFailed gives the row back, available after a delay; its error is ignored.
MarkFailed(r) ==
    LET f == Head(batch[r]) IN
    /\ relayPc[r] = "release"
    /\ \E reply \in Reply :
         /\ Answers("database", reply)
         /\ IF reply # "error" /\ StillClaimed(r, f)
              THEN /\ row' = [row EXCEPT ![f] = "delayed"]
                   /\ claimedBy' = [claimedBy EXCEPT ![f] = None]
                   /\ stale' = stale \ {f}
              ELSE UNCHANGED <<row, claimedBy, stale>>
    /\ Advance(r)
    /\ UNCHANGED <<commits, log, consumerVars, effectVars>>

\* The relay's process dies and is started again. A stopped relay leaves its
\* process running: only an operator, or another crash, brings it back.
RestartRelay(r) ==
    /\ Fault("crash")
    /\ relayPc' = [relayPc EXCEPT ![r] = "poll"]
    /\ batch' = [batch EXCEPT ![r] = <<>>]
    /\ UNCHANGED <<outboxVars, log, consumerVars, effectVars>>

------------------------------------------------------------------------------
(* A consumer *)

\* FetchMessage: the next entry of the assigned partition. An error ends
\* Consumer.Run; its process, and its membership of the group, go on without it.
Fetch(c) ==
    /\ consumerPc[c] = "fetch"
    /\ \/ /\ owner = c
          /\ position[c] < Len(log)
          /\ position' = [position EXCEPT ![c] = @ + 1]
          /\ current' = [current EXCEPT ![c] = position[c] + 1]
          /\ consumerPc' = [consumerPc EXCEPT ![c] = "process"]
          /\ UNCHANGED errors
       \/ /\ Fault("group")
          /\ consumerPc' = [consumerPc EXCEPT ![c] = "stopped"]
          /\ UNCHANGED <<position, current>>
    /\ UNCHANGED <<outboxVars, relayVars, log, offset, owner, effectVars>>

\* The transaction of ProcessKafkaEvent: the marker decides, and commits with
\* the effects.
ApplyMarkerOnly(f) ==
    /\ processed' = processed \cup {f}
    /\ UNCHANGED <<audited, charges>>

Apply(f) ==
    IF f \in processed
      THEN UNCHANGED effectVars
      ELSE /\ processed' = processed \cup {f}
           /\ audited' = audited \cup {f}
           /\ charges' = [charges EXCEPT ![f] = IF f \in UsageFact /\ @ = 0 THEN 1 ELSE @]

\* An error ends Consumer.Run here too.
ProcessSkipsErrors(c) ==
    /\ consumerPc[c] = "process"
    /\ \E reply \in Reply :
         /\ Answers("database", reply)
         /\ IF reply = "error" THEN UNCHANGED effectVars ELSE Apply(log[current[c]])
         /\ consumerPc' = [consumerPc EXCEPT ![c] = "commit"]
    /\ UNCHANGED <<outboxVars, relayVars, log, offset, owner, position, current>>

ProcessKafkaEvent(c) ==
    /\ consumerPc[c] = "process"
    /\ \E reply \in Reply :
         /\ Answers("database", reply)
         /\ IF reply = "error" THEN UNCHANGED effectVars ELSE Apply(log[current[c]])
         /\ consumerPc' = [consumerPc EXCEPT ![c] = IF reply = "ok" THEN "commit" ELSE "stopped"]
    /\ UNCHANGED <<outboxVars, relayVars, log, offset, owner, position, current>>

\* CommitMessages. Once the partition has moved on the broker may refuse it.
CommitMessages(c) ==
    /\ consumerPc[c] = "commit"
    /\ \E reply \in Reply :
         /\ IF owner = c THEN Answers("group", reply) ELSE UNCHANGED errors
         /\ offset' = IF reply = "error" THEN offset ELSE current[c]
         /\ consumerPc' = [consumerPc EXCEPT ![c] = IF reply = "ok" THEN "fetch" ELSE "stopped"]
    /\ UNCHANGED <<outboxVars, relayVars, log, owner, position, current, effectVars>>

\* The group's membership changes and the partition goes to consumer c, from the
\* committed offset, whatever c is doing.
Rebalance(c) ==
    /\ owner # c
    /\ Fault("group")
    /\ owner' = c
    /\ position' = [position EXCEPT ![c] = offset]
    /\ UNCHANGED <<outboxVars, relayVars, log, offset, consumerPc, current, effectVars>>

\* The consumer's process dies and is started again.
RestartConsumer(c) ==
    /\ Fault("crash")
    /\ consumerPc' = [consumerPc EXCEPT ![c] = "fetch"]
    /\ position' = [position EXCEPT ![c] = offset]
    /\ current' = [current EXCEPT ![c] = 0]
    /\ UNCHANGED <<outboxVars, relayVars, log, offset, owner, effectVars>>

------------------------------------------------------------------------------
RelayStep(r) == Claim(r) \/ Publish(r) \/ MarkPublished(r) \/ MarkFailed(r)
ConsumerStep(c) == Fetch(c) \/ ProcessKafkaEvent(c) \/ CommitMessages(c)

Next ==
    \/ \E f \in Fact : Commit(f) \/ BecomeAvailable(f) \/ ClaimExpires(f)
    \/ \E r \in Relay : RelayStep(r) \/ RestartRelay(r)
    \/ \E c \in Consumer : ConsumerStep(c) \/ Rebalance(c) \/ RestartConsumer(c)

Spec == Init /\ [][Next]_vars

\* The passing of time alone makes a delayed or abandoned row claimable.
TimePasses == \E f \in Fact : BecomeAvailable(f) \/ (Abandoned(f) /\ ClaimExpires(f))

\* Pollers keep running, and time passes for delayed and abandoned rows.
Fairness ==
    /\ \A r \in Relay : WF_vars(RelayStep(r))
    /\ \A c \in Consumer : WF_vars(ConsumerStep(c))
    /\ WF_vars(TimePasses)

FairSpec == Spec /\ Fairness

------------------------------------------------------------------------------
(* Properties *)

TypeOK ==
    /\ commits \in Seq(Fact)
    /\ row \in [Fact -> {"absent", "unpublished", "delayed", "published"}]
    /\ claimedBy \in [Fact -> Relay \cup {None}]
    /\ stale \in SUBSET Fact
    /\ relayPc \in [Relay -> {"poll", "publish", "mark", "release", "stopped"}]
    /\ batch \in [Relay -> Seq(Fact)]
    /\ log \in Seq(Fact)
    /\ offset \in 0..Len(log)
    /\ owner \in Consumer
    /\ consumerPc \in [Consumer -> {"fetch", "process", "commit", "stopped"}]
    /\ {position, current} \subseteq [Consumer -> 0..Len(log)]
    /\ processed \in SUBSET Fact
    /\ audited \in SUBSET Fact
    /\ charges \in [Fact -> Nat]
    /\ errors \in 0..MaxFaults

\* A usage fact charges its tenant at most once however often it is published
\* and delivered; marker, audit entry and charge appear together or not at all.
EffectsAreAtomic ==
    \A f \in Fact :
      /\ f \in processed <=> f \in audited
      /\ charges[f] = IF f \in processed /\ f \in UsageFact THEN 1 ELSE 0

\* A row marked published is in the partition: no crash, lost answer or expired
\* claim makes a relay drop a fact.
PublishedIsInLog == \A f \in Fact : row[f] = "published" => f \in Range(log)

\* The committed offset never passes an entry whose effects are not committed,
\* so a restart from it skips nothing.
OffsetFollowsEffects == \A i \in 1..offset : log[i] \in processed

\* Exactly-once effects over at-least-once delivery (module FactDelivery).
Effects == [f \in Fact |-> IF f \in UsageFact THEN charges[f]
                           ELSE IF f \in audited THEN 1 ELSE 0]
Delivery == INSTANCE FactDelivery WITH committed <- Range(commits), effects <- Effects
RefinesDelivery == Delivery!Spec

\* Nobody publishes any more, or nobody reads the partition.
Halted == \/ \A r \in Relay : relayPc[r] = "stopped"
          \/ consumerPc[owner] = "stopped"

\* Every committed fact reaches the audit trail and the ledger, through failed
\* and unanswered publishes, expired claims, crashes and rebalances, unless every
\* relay or the partition's consumer has returned on an error.
FactsTakeEffect == \A f \in Fact : row[f] # "absent" ~> f \in audited \/ Halted

------------------------------------------------------------------------------
(* Statements of the documentation, the comments or the tests that this code  *)
(* does not keep; README.md says how each one fails.                          *)

\* The tenant's facts first appear in the partition in the order of their commits.
TenantOrder ==
    \A i, j \in 1..Len(commits) :
      i < j /\ commits[j] \in Range(log) =>
        \E m \in 1..Len(log) : /\ log[m] = commits[i]
                               /\ \A n \in 1..m : log[n] # commits[j]
===============================================================================
