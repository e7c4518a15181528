--------------------------- MODULE PipelineProofs ---------------------------
(* Proofs about EventPipeline, for every set of facts, relays and consumers, *)
(* every batch size and every number and kind of faults; and about the       *)
(* ledger of BudgetLedger, for any number of requests and any limits: the    *)
(* reservations it has admitted fit.                                         *)
EXTENDS EventPipeline, BudgetLedger, BudgetProofs, TLAPS

\* Every entry up to n of the partition took effect.
EffectsTo(n) == \A i \in 1..n : log[i] \in processed

\* A relay works on rows of the table; the one it is about to mark is in the log.
RelayInv(r) ==
    /\ Range(batch[r]) \subseteq Range(commits)
    /\ relayPc[r] \in {"publish", "mark", "release"} => batch[r] # <<>>
    /\ relayPc[r] = "mark" => Head(batch[r]) \in Range(log)

\* A consumer has applied what precedes the entry it works on. A rebalance may
\* have moved its position back to the committed offset meanwhile.
ConsumerInv(c) ==
    /\ consumerPc[c] = "fetch" => EffectsTo(position[c])
    /\ consumerPc[c] = "process" =>
         /\ current[c] > 0 /\ EffectsTo(current[c] - 1)
         /\ position[c] = current[c] \/ EffectsTo(position[c])
    /\ consumerPc[c] = "commit" => EffectsTo(current[c]) /\ EffectsTo(position[c])

PipelineInv ==
    /\ TypeOK
    /\ \A f \in Fact : f \in Range(commits) <=> row[f] # "absent"
    /\ Range(log) \subseteq Range(commits)
    /\ \A r \in Relay : RelayInv(r)
    /\ \A c \in Consumer : ConsumerInv(c)
    /\ EffectsAreAtomic
    /\ PublishedIsInLog
    /\ OffsetFollowsEffects

-----------------------------------------------------------------------------
(* Sequences of rows and log entries, and the set of what they hold.          *)

\* Length and elements of a sequence.
LEMMA SeqFacts ==
    ASSUME NEW S, NEW s \in Seq(S)
    PROVE  /\ Len(s) \in Nat /\ DOMAIN s = 1..Len(s)
           /\ \A i \in 1..Len(s) : s[i] \in S
           /\ s # <<>> => Len(s) # 0
OBVIOUS

\* An element of a sequence is one of its values.
LEMMA InRange ==
    ASSUME NEW S, NEW s \in Seq(S), NEW i \in 1..Len(s)
    PROVE  s[i] \in Range(s)
BY SeqFacts, Zenon DEF Range

\* An append adds its element and keeps the entries before it.
LEMMA AppendRange ==
    ASSUME NEW S, NEW s \in Seq(S), NEW e \in S
    PROVE  /\ Append(s, e) \in Seq(S) /\ Len(Append(s, e)) = Len(s) + 1
           /\ \A i \in 1..Len(s) : Append(s, e)[i] = s[i]
           /\ Range(Append(s, e)) = Range(s) \cup {e}
<1>1. /\ Append(s, e) \in Seq(S) /\ Len(Append(s, e)) = Len(s) + 1
      /\ \A i \in 1..Len(s) : Append(s, e)[i] = s[i]
      /\ Append(s, e)[Len(s) + 1] = e
    OBVIOUS
<1>2. /\ DOMAIN s = 1..Len(s) /\ Len(s) \in Nat
      /\ DOMAIN Append(s, e) = 1..(Len(s) + 1)
    BY <1>1, SeqFacts
<1>3. ASSUME NEW x \in Range(Append(s, e)) PROVE x \in Range(s) \cup {e}
    <2>1. PICK i \in 1..(Len(s) + 1) : x = Append(s, e)[i]
        BY <1>2, Zenon DEF Range
    <2>2. CASE i = Len(s) + 1
        BY <1>1, <2>1, <2>2, Zenon
    <2>3. CASE i \in 1..Len(s)
        BY <1>1, <2>1, <2>3, InRange, Zenon
    <2> QED BY <1>2, <2>2, <2>3
<1>4. ASSUME NEW x \in Range(s) PROVE x \in Range(Append(s, e))
    <2>1. PICK i \in 1..Len(s) : x = s[i]
        BY <1>2, Zenon DEF Range
    <2>2. i \in 1..(Len(s) + 1)
        BY <1>2
    <2>3. x = Append(s, e)[i]
        BY <1>1, <2>1, Zenon
    <2> QED BY <1>2, <2>2, <2>3, Zenon DEF Range
<1>5. e \in Range(Append(s, e))
    <2>1. Len(s) + 1 \in 1..(Len(s) + 1)
        BY <1>2
    <2> QED BY <1>1, <1>2, <2>1, Zenon DEF Range
<1> QED BY <1>1, <1>3, <1>4, <1>5, Zenon

\* The rest of a batch is part of it.
LEMMA TailRange ==
    ASSUME NEW S, NEW s \in Seq(S), s # <<>>
    PROVE  /\ Head(s) \in Range(s) /\ Head(s) \in S
           /\ Tail(s) \in Seq(S) /\ Range(Tail(s)) \subseteq Range(s)
<1>1. /\ Len(s) \in Nat \ {0} /\ DOMAIN s = 1..Len(s)
    BY SeqFacts
<1>2. /\ Tail(s) \in Seq(S) /\ Len(Tail(s)) = Len(s) - 1
      /\ \A i \in 1..Len(Tail(s)) : Tail(s)[i] = s[i + 1]
      /\ Head(s) = s[1] /\ Head(s) \in S
    BY <1>1
<1>3. DOMAIN Tail(s) = 1..Len(Tail(s))
    BY <1>2, SeqFacts, Zenon
<1>4. ASSUME NEW x \in Range(Tail(s)) PROVE x \in Range(s)
    <2>1. PICK i \in 1..Len(Tail(s)) : x = Tail(s)[i]
        BY <1>3, Zenon DEF Range
    <2>2. i + 1 \in 1..Len(s) /\ x = s[i + 1]
        BY <1>1, <1>2, <2>1
    <2> QED BY <2>2, InRange, Zenon
<1>5. Head(s) \in Range(s)
    <2>1. 1 \in 1..Len(s)
        BY <1>1
    <2> QED BY <1>2, <2>1, InRange, Zenon
<1> QED BY <1>2, <1>4, <1>5, Zenon

\* The rows a relay claims are rows of the table.
LEMMA CandidateRows ==
    ASSUME commits \in Seq(Fact)
    PROVE  /\ Candidates \subseteq Range(commits) /\ Range(commits) \subseteq Fact
           /\ \A f \in Candidates : row[f] = "unpublished"
<1>1. DOMAIN commits = 1..Len(commits) /\ \A i \in DOMAIN commits : commits[i] \in Fact
    BY SeqFacts, Zenon
<1> QED BY <1>1, Zenon DEF Candidates, Range, Claimable

\* A batch is a sequence of them, in whatever order UPDATE ... RETURNING gives them.
LEMMA BatchOfCandidates ==
    ASSUME NEW S, NEW n \in 1..BatchSize, NEW rows \in Bijection(1..n, S)
    PROVE  rows \in Seq(S) /\ Range(rows) \subseteq S /\ rows # <<>>
<1>1. n \in Nat /\ n # 0
    BY PipelineAssumption
<1>2. rows \in [1..n -> S]
    BY Zenon DEF Bijection, Injection
<1>3. rows \in Seq(S) /\ Len(rows) = n
    BY <1>1, <1>2
<1>4. rows # <<>>
    BY <1>1, <1>3
<1> QED BY <1>2, <1>3, <1>4, Zenon DEF Range

-----------------------------------------------------------------------------
(* The inductive invariant, by the part of the pipeline a step belongs to.    *)

\* The types of the parts of the state.
LEMMA Types ==
    ASSUME TypeOK
    PROVE  /\ position \in [Consumer -> 0..Len(log)]
           /\ current \in [Consumer -> 0..Len(log)]
           /\ Len(log) \in Nat
BY SeqFacts, Zenon DEF TypeOK

\* The faults stay within their bound.
LEMMA FaultsBounded ==
    ASSUME errors \in 0..MaxFaults, UNCHANGED errors \/ \E kind : Fault(kind)
    PROVE  errors' \in 0..MaxFaults
BY PipelineAssumption DEF Fault

\* The partition only grows: an entry keeps its place.
LogGrows ==
    /\ log' \in Seq(Fact)
    /\ Len(log') \in Nat /\ Len(log') >= Len(log)
    /\ \A i \in 1..Len(log) : log'[i] = log[i]
    /\ Range(log) \subseteq Range(log')

\* An unchanged log counts as grown.
LEMMA LogKept ==
    ASSUME TypeOK, UNCHANGED log
    PROVE  LogGrows
BY Types DEF TypeOK, LogGrows

\* A published fact is the only new one in the log.
LEMMA LogAppended ==
    ASSUME TypeOK, NEW f \in Fact, log' = Append(log, f)
    PROVE  LogGrows /\ Range(log') = Range(log) \cup {f}
<1>1. log \in Seq(Fact) /\ Len(log) \in Nat
    BY Types, Zenon DEF TypeOK
<1>2. /\ Append(log, f) \in Seq(Fact) /\ Len(Append(log, f)) = Len(log) + 1
      /\ \A i \in 1..Len(log) : Append(log, f)[i] = log[i]
      /\ Range(Append(log, f)) = Range(log) \cup {f}
    BY <1>1, AppendRange
<1> QED BY <1>1, <1>2 DEF LogGrows

\* What took effect stays in effect while the partition grows.
LEMMA EffectsStay ==
    ASSUME TypeOK, LogGrows, processed \subseteq processed',
           NEW n \in 0..Len(log), EffectsTo(n)
    PROVE  EffectsTo(n)'
<1>1. Len(log) \in Nat
    BY Types, Zenon
<1>2. ASSUME NEW i \in 1..n PROVE log'[i] \in processed'
    BY <1>1 DEF EffectsTo, LogGrows
<1> QED BY <1>2, Zenon DEF EffectsTo

\* A step of the relays or of the database leaves the consumers' side as it is.
ConsumerSide ==
    /\ offset \in 0..Len(log)
    /\ owner \in Consumer
    /\ consumerPc \in [Consumer -> {"fetch", "process", "commit", "stopped"}]
    /\ {position, current} \subseteq [Consumer -> 0..Len(log)]
    /\ processed \in SUBSET Fact
    /\ audited \in SUBSET Fact
    /\ charges \in [Fact -> Nat]
    /\ \A c \in Consumer : ConsumerInv(c)
    /\ EffectsAreAtomic
    /\ OffsetFollowsEffects

RelaySide ==
    /\ commits \in Seq(Fact)
    /\ row \in [Fact -> {"absent", "unpublished", "delayed", "published"}]
    /\ claimedBy \in [Fact -> Relay \cup {None}]
    /\ stale \in SUBSET Fact
    /\ relayPc \in [Relay -> {"poll", "publish", "mark", "release", "stopped"}]
    /\ batch \in [Relay -> Seq(Fact)]
    /\ \A f \in Fact : f \in Range(commits) <=> row[f] # "absent"
    /\ Range(log) \subseteq Range(commits)
    /\ \A r \in Relay : RelayInv(r)
    /\ PublishedIsInLog

\* The invariant is that of the relays and that of the consumers.
LEMMA Sides == PipelineInv <=> RelaySide /\ ConsumerSide /\ log \in Seq(Fact) /\ errors \in 0..MaxFaults
BY Zenon DEF PipelineInv, TypeOK, RelaySide, ConsumerSide

\* A consumer keeps its invariant while others make progress.
LEMMA ConsumerKept ==
    ASSUME TypeOK, LogGrows, processed \subseteq processed', NEW c \in Consumer, ConsumerInv(c),
           consumerPc'[c] = consumerPc[c], position'[c] = position[c], current'[c] = current[c]
    PROVE  ConsumerInv(c)'
<1>1. Len(log) \in Nat
    BY Types, Zenon
<1>2. PICK p \in 0..Len(log) : p = position[c]
    BY Types, Zenon
<1>3. PICK k \in 0..Len(log) : k = current[c]
    BY Types, Zenon
<1>4. EffectsTo(p) => EffectsTo(p)'
    BY EffectsStay, Zenon
<1>5. EffectsTo(k) => EffectsTo(k)'
    BY EffectsStay, Zenon
<1>6. k > 0 => (EffectsTo(k - 1) => EffectsTo(k - 1)')
    <2>1. k > 0 => k - 1 \in 0..Len(log)
        BY <1>1
    <2> QED BY <2>1, EffectsStay, Zenon
<1> QED BY <1>2, <1>3, <1>4, <1>5, <1>6, Zenon DEF ConsumerInv, EffectsTo

\* The same for the next state.
LEMMA SidesNext ==
    RelaySide' /\ ConsumerSide' /\ log' \in Seq(Fact) /\ errors' \in 0..MaxFaults => PipelineInv'
BY Zenon DEF PipelineInv, TypeOK, RelaySide, ConsumerSide

\* A log that grows leaves the invariant of the consumers.
LEMMA ConsumersUnaffected ==
    ASSUME PipelineInv, LogGrows, UNCHANGED <<consumerVars, effectVars>>
    PROVE  ConsumerSide'
<1>1. TypeOK
    BY Zenon DEF PipelineInv
<1>2. /\ offset' = offset /\ owner' = owner /\ consumerPc' = consumerPc
      /\ position' = position /\ current' = current
      /\ processed' = processed /\ audited' = audited /\ charges' = charges
    BY Zenon DEF consumerVars, effectVars
<1>3. /\ Len(log) \in Nat /\ Len(log') \in Nat /\ Len(log') >= Len(log)
    BY <1>1, Types DEF LogGrows
<1>4. /\ offset' \in 0..Len(log')
      /\ position' \in [Consumer -> 0..Len(log')]
      /\ current' \in [Consumer -> 0..Len(log')]
    BY <1>1, <1>2, <1>3, Types DEF TypeOK
<1>5. \A c \in Consumer : ConsumerInv(c)'
    BY <1>1, <1>2, ConsumerKept, Zenon DEF PipelineInv
<1>6. EffectsAreAtomic'
    BY <1>2, Zenon DEF PipelineInv, EffectsAreAtomic
<1>7. OffsetFollowsEffects'
    <2>1. PICK n \in 0..Len(log) : n = offset
        BY <1>1, Zenon DEF TypeOK
    <2>2. EffectsTo(n)'
        BY <1>1, <1>2, <2>1, EffectsStay, Zenon DEF PipelineInv, OffsetFollowsEffects, EffectsTo
    <2> QED BY <1>2, <2>1, <2>2, Zenon DEF OffsetFollowsEffects, EffectsTo
<1> QED BY <1>1, <1>2, <1>4, <1>5, <1>6, <1>7 DEF ConsumerSide, TypeOK

\* A step of a consumer leaves the relays.
LEMMA RelaysUnaffected ==
    ASSUME RelaySide, UNCHANGED <<outboxVars, relayVars, log>>
    PROVE  RelaySide'
BY Zenon DEF RelaySide, RelayInv, PublishedIsInLog, outboxVars, relayVars

\* A relay keeps its invariant while the table and the partition grow.
LEMMA RelayKept ==
    ASSUME NEW r \in Relay, RelayInv(r), batch'[r] = batch[r], relayPc'[r] = relayPc[r],
           Range(commits) \subseteq Range(commits'), Range(log) \subseteq Range(log')
    PROVE  RelayInv(r)'
BY Zenon DEF RelayInv

\* The commit of a fact keeps the invariant.
LEMMA CommitStep ==
    ASSUME RelaySide, NEW f \in Fact, Commit(f)
    PROVE  RelaySide'
<1>1. /\ row[f] = "absent" /\ row' = [row EXCEPT ![f] = "unpublished"]
      /\ commits' = Append(commits, f)
      /\ UNCHANGED <<claimedBy, stale, relayPc, batch, log>>
    BY Zenon DEF Commit, relayVars
<1>2. commits' \in Seq(Fact) /\ Range(commits') = Range(commits) \cup {f}
    <2>1. commits \in Seq(Fact)
        BY Zenon DEF RelaySide
    <2>2. Append(commits, f) \in Seq(Fact) /\ Range(Append(commits, f)) = Range(commits) \cup {f}
        BY <2>1, AppendRange
    <2> QED BY <1>1, <2>2, Zenon
<1>3. row' \in [Fact -> {"absent", "unpublished", "delayed", "published"}]
    BY <1>1, Zenon DEF RelaySide
<1>4. \A g \in Fact : row'[g] = IF g = f THEN "unpublished" ELSE row[g]
    BY <1>1, Zenon DEF RelaySide
<1>5. \A g \in Fact : g \in Range(commits') <=> row'[g] # "absent"
    BY <1>2, <1>4, Zenon DEF RelaySide
<1>6. PublishedIsInLog'
    BY <1>1, <1>4, Zenon DEF RelaySide, PublishedIsInLog
<1>7. \A r \in Relay : RelayInv(r)'
    BY <1>1, <1>2, RelayKept, Zenon DEF RelaySide
<1> QED BY <1>1, <1>2, <1>3, <1>5, <1>6, <1>7, Zenon DEF RelaySide

\* Time passes: a delayed row, or a row whose claim has expired, is offered again.
LEMMA TimeStep ==
    ASSUME RelaySide, NEW f \in Fact, BecomeAvailable(f) \/ ClaimExpires(f)
    PROVE  RelaySide'
<1>1. UNCHANGED <<commits, claimedBy, relayPc, batch, log>>
    BY Zenon DEF BecomeAvailable, ClaimExpires, relayVars
<1>2. stale' \in SUBSET Fact
    BY Zenon DEF BecomeAvailable, ClaimExpires, RelaySide
<1>3. /\ row' \in [Fact -> {"absent", "unpublished", "delayed", "published"}]
      /\ \A g \in Fact : row'[g] = row[g] \/ (row[g] = "delayed" /\ row'[g] = "unpublished")
    <2>1. row \in [Fact -> {"absent", "unpublished", "delayed", "published"}]
        BY Zenon DEF RelaySide
    <2>2. CASE BecomeAvailable(f)
        <3>1. row[f] = "delayed" /\ row' = [row EXCEPT ![f] = "unpublished"]
            BY <2>2, Zenon DEF BecomeAvailable
        <3> QED BY <2>1, <3>1, Zenon
    <2>3. CASE ClaimExpires(f)
        <3>1. row' = row
            BY <2>3, Zenon DEF ClaimExpires
        <3> QED BY <2>1, <3>1, Zenon
    <2> QED BY <2>2, <2>3, Zenon
<1>4. /\ \A g \in Fact : g \in Range(commits') <=> row'[g] # "absent"
      /\ PublishedIsInLog'
    BY <1>1, <1>3, Zenon DEF RelaySide, PublishedIsInLog
<1>5. \A r \in Relay : RelayInv(r)'
    BY <1>1, Zenon DEF RelaySide, RelayInv
<1> QED BY <1>1, <1>2, <1>3, <1>4, <1>5, Zenon DEF RelaySide

\* A relay that returns on a database error keeps its rows; they wait for the claim
\* to expire.
LEMMA StopStep ==
    ASSUME RelaySide, NEW r \in Relay, relayPc' = [relayPc EXCEPT ![r] = "stopped"],
           UNCHANGED <<batch, commits, log>>
    PROVE  /\ batch' \in [Relay -> Seq(Fact)]
           /\ relayPc' \in [Relay -> {"poll", "publish", "mark", "release", "stopped"}]
           /\ \A q \in Relay : RelayInv(q)'
<1>1. relayPc'[r] = "stopped" /\ \A q \in Relay \ {r} : relayPc'[q] = relayPc[q]
    BY Zenon DEF RelaySide
<1>2. relayPc' \in [Relay -> {"poll", "publish", "mark", "release", "stopped"}]
    BY Zenon DEF RelaySide
<1>3. \A q \in Relay \ {r} : RelayInv(q)'
    BY <1>1, RelayKept, Zenon DEF RelaySide
<1>4. RelayInv(r)'
    BY <1>1, Zenon DEF RelaySide, RelayInv
<1> QED BY <1>2, <1>3, <1>4, Zenon DEF RelaySide

\* The claim of a batch keeps the invariant.
LEMMA ClaimStep ==
    ASSUME RelaySide, NEW r \in Relay, Claim(r)
    PROVE  RelaySide'
<1>1. /\ UNCHANGED <<commits, row, log>> /\ commits \in Seq(Fact)
      /\ stale' \in SUBSET Fact
      /\ \/ claimedBy' = claimedBy
         \/ claimedBy' = [f \in Fact |-> IF f \in Candidates THEN r ELSE claimedBy[f]]
    BY Zenon DEF Claim, RelaySide
<1>2. claimedBy' \in [Fact -> Relay \cup {None}]
    BY <1>1, Zenon DEF RelaySide
<1>3. \/ /\ Candidates # {}
         /\ \E n \in 1..BatchSize : \E rows \in Bijection(1..n, Candidates) :
              batch' = [batch EXCEPT ![r] = rows]
         /\ relayPc' = [relayPc EXCEPT ![r] = "publish"]
      \/ /\ relayPc' = [relayPc EXCEPT ![r] = "stopped"]
         /\ UNCHANGED batch
    BY Zenon DEF Claim
<1>4. /\ batch' \in [Relay -> Seq(Fact)]
      /\ relayPc' \in [Relay -> {"poll", "publish", "mark", "release", "stopped"}]
      /\ \A q \in Relay : RelayInv(q)'
    <2>1. CASE /\ relayPc' = [relayPc EXCEPT ![r] = "stopped"]
               /\ UNCHANGED batch
        BY <1>1, <2>1, StopStep, Zenon
    <2>2. CASE /\ Candidates # {}
               /\ \E n \in 1..BatchSize : \E rows \in Bijection(1..n, Candidates) :
                    batch' = [batch EXCEPT ![r] = rows]
               /\ relayPc' = [relayPc EXCEPT ![r] = "publish"]
        <3>0. PICK n \in 1..BatchSize : \E rows \in Bijection(1..n, Candidates) :
                batch' = [batch EXCEPT ![r] = rows]
            BY <2>2, Zenon
        <3>1. PICK rows \in Bijection(1..n, Candidates) : batch' = [batch EXCEPT ![r] = rows]
            BY <3>0, Zenon
        <3>2. Candidates \subseteq Range(commits) /\ Range(commits) \subseteq Fact
            BY <1>1, CandidateRows, Zenon
        <3>3. rows \in Seq(Candidates) /\ Range(rows) \subseteq Candidates /\ rows # <<>>
            BY <2>2, <3>2, BatchOfCandidates, Zenon
        <3>4. rows \in Seq(Fact)
            <4>1. Candidates \subseteq Fact
                BY <3>2, Zenon
            <4> QED BY <3>3, <4>1
        <3>5. /\ batch' \in [Relay -> Seq(Fact)] /\ batch'[r] = rows
              /\ \A q \in Relay \ {r} : batch'[q] = batch[q]
            BY <3>1, <3>4 DEF RelaySide
        <3>6. /\ relayPc' \in [Relay -> {"poll", "publish", "mark", "release", "stopped"}]
              /\ relayPc'[r] = "publish"
              /\ \A q \in Relay \ {r} : relayPc'[q] = relayPc[q]
            BY <2>2, Zenon DEF RelaySide
        <3>7. \A q \in Relay \ {r} : RelayInv(q)'
            BY <1>1, <3>5, <3>6, RelayKept, Zenon DEF RelaySide
        <3>8. RelayInv(r)'
            BY <1>1, <3>2, <3>3, <3>5, <3>6, Zenon DEF RelayInv
        <3> QED BY <3>5, <3>6, <3>7, <3>8, Zenon
    <2> QED BY <1>3, <2>1, <2>2, Zenon
<1> QED BY <1>1, <1>2, <1>4, Zenon DEF RelaySide, PublishedIsInLog

\* The publication of a row keeps the invariant.
LEMMA PublishStep ==
    ASSUME PipelineInv, NEW r \in Relay, Publish(r)
    PROVE  RelaySide' /\ LogGrows
<1>0. RelaySide /\ TypeOK /\ RelayInv(r)
    BY Sides, Zenon DEF PipelineInv
<1>1. PICK reply \in Reply :
        /\ log' = IF reply = "error" THEN log ELSE Append(log, Head(batch[r]))
        /\ relayPc' = [relayPc EXCEPT ![r] = IF reply = "ok" THEN "mark" ELSE "release"]
    BY Zenon DEF Publish
<1>2. relayPc[r] = "publish" /\ UNCHANGED <<commits, row, claimedBy, stale, batch>>
    BY Zenon DEF Publish, outboxVars
<1>3. PICK f \in Fact : f = Head(batch[r]) /\ f \in Range(commits)
    <2>1. batch[r] \in Seq(Fact) /\ batch[r] # <<>> /\ Range(batch[r]) \subseteq Range(commits)
        BY <1>0, <1>2, Zenon DEF TypeOK, RelayInv
    <2>2. Head(batch[r]) \in Range(batch[r]) /\ Head(batch[r]) \in Fact
        BY <2>1, TailRange
    <2> QED BY <2>1, <2>2, Zenon
<1>4. /\ LogGrows /\ Range(log') \subseteq Range(log) \cup {f}
      /\ reply # "error" => f \in Range(log')
    <2>1. CASE reply = "error"
        <3>1. log' = log
            BY <1>1, <2>1, Zenon
        <3> QED BY <1>0, <2>1, <3>1, LogKept, Zenon
    <2>2. CASE reply # "error"
        <3>1. log' = Append(log, f)
            BY <1>1, <1>3, <2>2, Zenon
        <3>2. LogGrows /\ Range(log') = Range(log) \cup {f}
            BY <1>0, <3>1, LogAppended, Zenon
        <3> QED BY <3>2, Zenon
    <2> QED BY <2>1, <2>2, Zenon
<1>5. /\ relayPc' \in [Relay -> {"poll", "publish", "mark", "release", "stopped"}]
      /\ relayPc'[r] = IF reply = "ok" THEN "mark" ELSE "release"
      /\ \A q \in Relay \ {r} : relayPc'[q] = relayPc[q]
    BY <1>0, <1>1 DEF RelaySide
<1>6. RelayInv(r)'
    <2>1. batch'[r] # <<>> /\ Range(batch'[r]) \subseteq Range(commits')
        BY <1>0, <1>2, Zenon DEF RelayInv
    <2>2. relayPc'[r] = "mark" => Head(batch'[r]) \in Range(log')
        <3>1. relayPc'[r] = "mark" => reply = "ok"
            BY <1>5, Zenon
        <3>2. reply = "ok" => reply # "error"
            OBVIOUS
        <3> QED BY <1>2, <1>3, <1>4, <3>1, <3>2, Zenon
    <2> QED BY <2>1, <2>2, Zenon DEF RelayInv
<1>7. \A q \in Relay \ {r} : RelayInv(q)'
    BY <1>0, <1>2, <1>4, <1>5, RelayKept, Zenon DEF RelaySide, LogGrows
<1>8. Range(log') \subseteq Range(commits') /\ PublishedIsInLog'
    BY <1>0, <1>2, <1>3, <1>4, Zenon DEF RelaySide, PublishedIsInLog, LogGrows
<1> QED BY <1>0, <1>2, <1>4, <1>5, <1>6, <1>7, <1>8, Zenon DEF RelaySide

\* A relay that is through with a row goes on to the rest of its batch.
LEMMA AdvanceStep ==
    ASSUME RelaySide, NEW r \in Relay, batch[r] # <<>>, Advance(r), UNCHANGED <<commits, log>>
    PROVE  /\ batch' \in [Relay -> Seq(Fact)]
           /\ relayPc' \in [Relay -> {"poll", "publish", "mark", "release", "stopped"}]
           /\ \A q \in Relay : RelayInv(q)'
<1>1. batch \in [Relay -> Seq(Fact)] /\ RelayInv(r)
    BY Zenon DEF RelaySide
<1>2. /\ Tail(batch[r]) \in Seq(Fact) /\ Range(Tail(batch[r])) \subseteq Range(batch[r])
    <2>1. batch[r] \in Seq(Fact)
        BY <1>1, Zenon
    <2> QED BY <2>1, TailRange
<1>3. /\ batch' \in [Relay -> Seq(Fact)]
      /\ batch'[r] = Tail(batch[r])
      /\ \A q \in Relay \ {r} : batch'[q] = batch[q]
    BY <1>1, <1>2 DEF Advance
<1>4. /\ relayPc' \in [Relay -> {"poll", "publish", "mark", "release", "stopped"}]
      /\ relayPc'[r] = IF Tail(batch[r]) = <<>> THEN "poll" ELSE "publish"
      /\ \A q \in Relay \ {r} : relayPc'[q] = relayPc[q]
    BY Zenon DEF Advance, RelaySide
<1>5. RelayInv(r)'
    <2>1. relayPc'[r] \notin {"mark", "release"} /\ (relayPc'[r] = "publish" => batch'[r] # <<>>)
        BY <1>3, <1>4
    <2>2. Range(batch'[r]) \subseteq Range(commits')
        BY <1>1, <1>2, <1>3, Zenon DEF RelayInv
    <2> QED BY <2>1, <2>2, Zenon DEF RelayInv
<1>6. \A q \in Relay \ {r} : RelayInv(q)'
    BY <1>3, <1>4, RelayKept, Zenon DEF RelaySide
<1> QED BY <1>3, <1>4, <1>5, <1>6, Zenon

\* The row a relay marks or gives back, and those of the other facts.
LEMMA MarkStep ==
    ASSUME RelaySide, NEW r \in Relay, MarkPublished(r) \/ MarkFailed(r)
    PROVE  RelaySide'
<1>1. /\ relayPc[r] \in {"mark", "release"} /\ UNCHANGED <<commits, log>>
      /\ relayPc[r] = "mark" <=> MarkPublished(r)
    <2>1. MarkPublished(r) => relayPc[r] = "mark" /\ UNCHANGED <<commits, log>>
        BY Zenon DEF MarkPublished
    <2>2. MarkFailed(r) => relayPc[r] = "release" /\ UNCHANGED <<commits, log>>
        BY Zenon DEF MarkFailed
    <2>3. relayPc[r] = "release" => relayPc[r] # "mark"
        OBVIOUS
    <2> QED BY <2>1, <2>2, <2>3, Zenon
<1>2. /\ batch[r] # <<>> /\ batch[r] \in Seq(Fact) /\ Range(batch[r]) \subseteq Range(commits)
      /\ relayPc[r] = "mark" => Head(batch[r]) \in Range(log)
    BY <1>1, Zenon DEF RelaySide, RelayInv
<1>3. PICK f \in Fact : f = Head(batch[r]) /\ f \in Range(commits)
    <2>1. Head(batch[r]) \in Range(batch[r]) /\ Head(batch[r]) \in Fact
        BY <1>2, TailRange
    <2> QED BY <1>2, <2>1, Zenon
<1>4. \/ UNCHANGED <<row, claimedBy, stale>>
      \/ /\ row' = [row EXCEPT ![f] = IF relayPc[r] = "mark" THEN "published" ELSE "delayed"]
         /\ claimedBy' = [claimedBy EXCEPT ![f] = None]
         /\ stale' = stale \ {f}
    <2>1. CASE MarkPublished(r)
        <3>1. relayPc[r] = "mark"
            BY <1>1, <2>1, Zenon
        <3> QED BY <1>3, <2>1, <3>1, Zenon DEF MarkPublished
    <2>2. CASE MarkFailed(r)
        <3>1. relayPc[r] = "release" /\ "release" # "mark"
            BY <2>2, Zenon DEF MarkFailed
        <3> QED BY <1>3, <2>2, <3>1, Zenon DEF MarkFailed
    <2> QED BY <2>1, <2>2, Zenon
<1>5. /\ row' \in [Fact -> {"absent", "unpublished", "delayed", "published"}]
      /\ \A g \in Fact : \/ row'[g] = row[g]
                         \/ g = f /\ row'[g] = IF relayPc[r] = "mark" THEN "published" ELSE "delayed"
    <2>1. row \in [Fact -> {"absent", "unpublished", "delayed", "published"}]
        BY Zenon DEF RelaySide
    <2> QED BY <1>4, <2>1
<1>6. claimedBy' \in [Fact -> Relay \cup {None}] /\ stale' \in SUBSET Fact
    <2>1. claimedBy \in [Fact -> Relay \cup {None}] /\ stale \in SUBSET Fact
        BY Zenon DEF RelaySide
    <2> QED BY <1>4, <2>1
<1>7. \A g \in Fact : g \in Range(commits') <=> row'[g] # "absent"
    <2>1. \A g \in Fact : g \in Range(commits) <=> row[g] # "absent"
        BY Zenon DEF RelaySide
    <2>2. row'[f] # "absent"
        BY <1>3, <1>5, <2>1
    <2>3. \A g \in Fact \ {f} : row'[g] = row[g]
        BY <1>5, Zenon
    <2> QED BY <1>1, <1>3, <2>1, <2>2, <2>3, Zenon
<1>8. PublishedIsInLog'
    <2>1. \A g \in Fact : row[g] = "published" => g \in Range(log)
        BY Zenon DEF RelaySide, PublishedIsInLog
    <2>2. ASSUME NEW g \in Fact, row'[g] = "published" PROVE g \in Range(log)
        <3>1. CASE row'[g] = row[g]
            BY <2>1, <2>2, <3>1, Zenon
        <3>2. CASE g = f /\ row'[g] = IF relayPc[r] = "mark" THEN "published" ELSE "delayed"
            <4>1. relayPc[r] = "mark"
                BY <2>2, <3>2
            <4> QED BY <1>2, <1>3, <3>2, <4>1, Zenon
        <3> QED BY <1>5, <3>1, <3>2, Zenon
    <2> QED BY <1>1, <2>2, Zenon DEF PublishedIsInLog
<1>9. /\ batch' \in [Relay -> Seq(Fact)]
      /\ relayPc' \in [Relay -> {"poll", "publish", "mark", "release", "stopped"}]
      /\ \A q \in Relay : RelayInv(q)'
    <2>1. Advance(r) \/ (relayPc' = [relayPc EXCEPT ![r] = "stopped"] /\ UNCHANGED batch)
        BY Zenon DEF MarkPublished, MarkFailed
    <2>2. CASE Advance(r)
        BY <1>1, <1>2, <2>2, AdvanceStep, Zenon
    <2>3. CASE relayPc' = [relayPc EXCEPT ![r] = "stopped"] /\ UNCHANGED batch
        BY <1>1, <2>3, StopStep, Zenon
    <2> QED BY <2>1, <2>2, <2>3, Zenon
<1> QED BY <1>1, <1>5, <1>6, <1>7, <1>8, <1>9, Zenon DEF RelaySide

\* The restart of a relay keeps the invariant.
LEMMA RestartRelayStep ==
    ASSUME RelaySide, NEW r \in Relay, RestartRelay(r)
    PROVE  RelaySide'
<1>1. /\ UNCHANGED <<commits, row, claimedBy, stale, log>>
      /\ relayPc' = [relayPc EXCEPT ![r] = "poll"] /\ batch' = [batch EXCEPT ![r] = <<>>]
    BY Zenon DEF RestartRelay, outboxVars
<1>2. /\ batch \in [Relay -> Seq(Fact)]
      /\ relayPc \in [Relay -> {"poll", "publish", "mark", "release", "stopped"}]
    BY Zenon DEF RelaySide
<1>3. /\ batch' \in [Relay -> Seq(Fact)] /\ batch'[r] = <<>>
      /\ relayPc' \in [Relay -> {"poll", "publish", "mark", "release", "stopped"}]
      /\ relayPc'[r] = "poll"
      /\ \A q \in Relay \ {r} : batch'[q] = batch[q] /\ relayPc'[q] = relayPc[q]
    BY <1>1, <1>2
<1>4. \A q \in Relay \ {r} : RelayInv(q)'
    BY <1>1, <1>3, RelayKept, Zenon DEF RelaySide
<1>5. RelayInv(r)'
    <2>1. Range(<<>>) = {}
        BY DEF Range
    <2>2. relayPc'[r] \notin {"publish", "mark", "release"}
        BY <1>3, Zenon
    <2> QED BY <1>3, <2>1, <2>2, Zenon DEF RelayInv
<1> QED BY <1>1, <1>3, <1>4, <1>5, Zenon DEF RelaySide, PublishedIsInLog

-----------------------------------------------------------------------------
(* The steps of a consumer.                                                    *)

\* What a step of consumer c has to show when it applies no fact: its new position
\* and current entry are entries of the log, and the consumer's own invariant.
LEMMA QuietConsumer ==
    ASSUME PipelineInv, NEW c \in Consumer, UNCHANGED <<log, processed, audited, charges>>,
           offset' \in 0..Len(log), EffectsTo(offset'), owner' \in Consumer,
           consumerPc' \in [Consumer -> {"fetch", "process", "commit", "stopped"}],
           position' \in [Consumer -> 0..Len(log)], current' \in [Consumer -> 0..Len(log)],
           \A d \in Consumer \ {c} : /\ consumerPc'[d] = consumerPc[d]
                                     /\ position'[d] = position[d] /\ current'[d] = current[d],
           ConsumerInv(c)'
    PROVE  ConsumerSide'
<1>1. TypeOK /\ LogGrows /\ processed \subseteq processed'
    BY LogKept, Zenon DEF PipelineInv
<1>2. \A d \in Consumer \ {c} : ConsumerInv(d)'
    BY <1>1, ConsumerKept, Zenon DEF PipelineInv
<1>3. OffsetFollowsEffects'
    BY Zenon DEF OffsetFollowsEffects, EffectsTo
<1>4. EffectsAreAtomic'
    BY Zenon DEF PipelineInv, EffectsAreAtomic
<1>5. processed \in SUBSET Fact /\ audited \in SUBSET Fact /\ charges \in [Fact -> Nat]
    BY <1>1, Zenon DEF TypeOK
<1>6. {position', current'} \subseteq [Consumer -> 0..Len(log)]
    BY Zenon
<1> QED BY <1>2, <1>3, <1>4, <1>5, <1>6, Zenon DEF ConsumerSide

\* The fetch of a message keeps the invariant.
LEMMA FetchStep ==
    ASSUME PipelineInv, NEW c \in Consumer, Fetch(c)
    PROVE  ConsumerSide'
<1>0. TypeOK /\ ConsumerInv(c)
    BY Zenon DEF PipelineInv
<1>1. /\ consumerPc \in [Consumer -> {"fetch", "process", "commit", "stopped"}]
      /\ position \in [Consumer -> 0..Len(log)] /\ current \in [Consumer -> 0..Len(log)]
      /\ Len(log) \in Nat /\ offset \in 0..Len(log) /\ owner \in Consumer
    BY <1>0, Types, Zenon DEF TypeOK
<1>2. /\ UNCHANGED <<log, offset, owner, processed, audited, charges>> /\ EffectsTo(offset)
      /\ consumerPc[c] = "fetch" /\ EffectsTo(position[c])
    BY <1>0, Zenon DEF Fetch, effectVars, PipelineInv, OffsetFollowsEffects, EffectsTo, ConsumerInv
<1>3. CASE /\ position[c] < Len(log)
           /\ position' = [position EXCEPT ![c] = @ + 1]
           /\ current' = [current EXCEPT ![c] = position[c] + 1]
           /\ consumerPc' = [consumerPc EXCEPT ![c] = "process"]
    <2>1. position' \in [Consumer -> 0..Len(log)] /\ current' \in [Consumer -> 0..Len(log)]
        BY <1>1, <1>3
    <2>2. /\ consumerPc' \in [Consumer -> {"fetch", "process", "commit", "stopped"}]
          /\ \A d \in Consumer \ {c} : /\ consumerPc'[d] = consumerPc[d]
                                       /\ position'[d] = position[d] /\ current'[d] = current[d]
        BY <1>1, <1>3, Zenon
    <2>3. PICK p \in 0..Len(log) : p = position[c]
        BY <1>1, Zenon
    <2>4. /\ consumerPc'[c] = "process" /\ position'[c] = p + 1 /\ current'[c] = p + 1
          /\ p + 1 > 0 /\ (p + 1) - 1 = p
        <3>1. consumerPc'[c] = "process"
            BY <1>1, <1>3, Zenon
        <3>2. position'[c] = position[c] + 1 /\ current'[c] = position[c] + 1
            BY <1>1, <1>3, Zenon
        <3>3. p + 1 > 0 /\ (p + 1) - 1 = p
            BY <1>1
        <3> QED BY <2>3, <3>1, <3>2, <3>3, Zenon
    <2>5. EffectsTo(p)'
        BY <1>2, <2>3, Zenon DEF EffectsTo
    <2>6. ConsumerInv(c)'
        <3>1. "process" # "fetch" /\ "process" # "commit"
            OBVIOUS
        <3> QED BY <2>4, <2>5, <3>1, Zenon DEF ConsumerInv, EffectsTo
    <2> QED BY <1>1, <1>2, <2>1, <2>2, <2>6, QuietConsumer, Zenon
<1>4. CASE consumerPc' = [consumerPc EXCEPT ![c] = "stopped"] /\ UNCHANGED <<position, current>>
    <2>1. /\ consumerPc' \in [Consumer -> {"fetch", "process", "commit", "stopped"}]
          /\ consumerPc'[c] = "stopped"
          /\ \A d \in Consumer \ {c} : consumerPc'[d] = consumerPc[d]
        BY <1>1, <1>4
    <2>2. consumerPc'[c] \notin {"fetch", "process", "commit"}
        BY <2>1, Zenon
    <2>3. ConsumerInv(c)'
        BY <2>2, Zenon DEF ConsumerInv
    <2> QED BY <1>1, <1>2, <1>4, <2>1, <2>3, QuietConsumer, Zenon
<1> QED BY <1>3, <1>4, Zenon DEF Fetch

\* The commit of an offset keeps the invariant.
LEMMA CommitMessagesStep ==
    ASSUME PipelineInv, NEW c \in Consumer, CommitMessages(c)
    PROVE  ConsumerSide'
<1>0. TypeOK /\ ConsumerInv(c)
    BY Zenon DEF PipelineInv
<1>1. /\ consumerPc \in [Consumer -> {"fetch", "process", "commit", "stopped"}]
      /\ position \in [Consumer -> 0..Len(log)] /\ current \in [Consumer -> 0..Len(log)]
      /\ offset \in 0..Len(log) /\ owner \in Consumer
    BY <1>0, Types, Zenon DEF TypeOK
<1>2. /\ UNCHANGED <<log, owner, position, current, processed, audited, charges>>
      /\ EffectsTo(offset) /\ EffectsTo(current[c]) /\ EffectsTo(position[c])
    BY <1>0, Zenon DEF CommitMessages, effectVars, PipelineInv, OffsetFollowsEffects, EffectsTo, ConsumerInv
<1>3. /\ offset' = offset \/ offset' = current[c]
      /\ \E step \in {"fetch", "stopped"} : consumerPc' = [consumerPc EXCEPT ![c] = step]
    BY Zenon DEF CommitMessages
<1>4. offset' \in 0..Len(log) /\ EffectsTo(offset')
    BY <1>1, <1>2, <1>3, Zenon
<1>5. /\ consumerPc' \in [Consumer -> {"fetch", "process", "commit", "stopped"}]
      /\ consumerPc'[c] \notin {"process", "commit"}
      /\ \A d \in Consumer \ {c} : consumerPc'[d] = consumerPc[d]
    BY <1>1, <1>3, Zenon
<1>6. ConsumerInv(c)'
    BY <1>2, <1>5, Zenon DEF ConsumerInv, EffectsTo
<1> QED BY <1>1, <1>2, <1>4, <1>5, <1>6, QuietConsumer, Zenon

\* A consumer that is handed the partition, or starts again, goes on from the
\* committed offset, which no unapplied entry precedes.
LEMMA RewindStep ==
    ASSUME PipelineInv, NEW c \in Consumer, Rebalance(c) \/ RestartConsumer(c)
    PROVE  ConsumerSide'
<1>0. TypeOK /\ ConsumerInv(c)
    BY Zenon DEF PipelineInv
<1>1. /\ consumerPc \in [Consumer -> {"fetch", "process", "commit", "stopped"}]
      /\ position \in [Consumer -> 0..Len(log)] /\ current \in [Consumer -> 0..Len(log)]
      /\ Len(log) \in Nat /\ offset \in 0..Len(log) /\ owner \in Consumer
    BY <1>0, Types, Zenon DEF TypeOK
<1>2. /\ UNCHANGED <<log, offset, processed, audited, charges>> /\ owner' \in Consumer
      /\ EffectsTo(offset) /\ position' = [position EXCEPT ![c] = offset]
    BY <1>1, Zenon DEF Rebalance, RestartConsumer, effectVars, PipelineInv, OffsetFollowsEffects, EffectsTo
<1>3. /\ position' \in [Consumer -> 0..Len(log)] /\ position'[c] = offset
      /\ \A d \in Consumer \ {c} : position'[d] = position[d]
    BY <1>1, <1>2
<1>4. EffectsTo(offset)'
    BY <1>2, Zenon DEF EffectsTo
<1>5. CASE Rebalance(c)
    <2>1. UNCHANGED <<consumerPc, current>>
        BY <1>5, Zenon DEF Rebalance
    <2>2. ConsumerInv(c)'
        BY <1>0, <1>2, <1>3, <1>4, <2>1, Zenon DEF ConsumerInv, EffectsTo
    <2> QED BY <1>1, <1>2, <1>3, <2>1, <2>2, QuietConsumer, Zenon
<1>6. CASE RestartConsumer(c)
    <2>1. /\ consumerPc' = [consumerPc EXCEPT ![c] = "fetch"]
          /\ current' = [current EXCEPT ![c] = 0]
        BY <1>6, Zenon DEF RestartConsumer
    <2>2. /\ consumerPc' \in [Consumer -> {"fetch", "process", "commit", "stopped"}]
          /\ current' \in [Consumer -> 0..Len(log)]
          /\ consumerPc'[c] \notin {"process", "commit"}
          /\ \A d \in Consumer \ {c} : consumerPc'[d] = consumerPc[d] /\ current'[d] = current[d]
        BY <1>1, <2>1
    <2>3. ConsumerInv(c)'
        BY <1>2, <1>3, <1>4, <2>2, Zenon DEF ConsumerInv, EffectsTo
    <2> QED BY <1>1, <1>2, <1>3, <2>2, <2>3, QuietConsumer, Zenon
<1> QED BY <1>5, <1>6, Zenon

\* The transaction leaves marker, audit entry and charge together.
LEMMA ApplyStep ==
    ASSUME TypeOK, EffectsAreAtomic, NEW f \in Fact, Apply(f)
    PROVE  /\ processed' = processed \cup {f}
           /\ audited' \in SUBSET Fact /\ charges' \in [Fact -> Nat]
           /\ EffectsAreAtomic'
<1>1. processed \in SUBSET Fact /\ audited \in SUBSET Fact /\ charges \in [Fact -> Nat]
    BY Zenon DEF TypeOK
<1>2. CASE f \in processed
    <2>1. UNCHANGED <<processed, audited, charges>>
        BY <1>2, Zenon DEF Apply, effectVars
    <2> QED BY <1>1, <1>2, <2>1, Zenon DEF EffectsAreAtomic
<1>3. CASE f \notin processed
    <2>1. /\ processed' = processed \cup {f} /\ audited' = audited \cup {f}
          /\ charges' = [charges EXCEPT ![f] = IF f \in UsageFact /\ @ = 0 THEN 1 ELSE @]
        BY <1>3, Zenon DEF Apply
    <2>2. charges[f] = 0
        BY <1>3, Zenon DEF EffectsAreAtomic
    <2>3. /\ charges' \in [Fact -> Nat]
          /\ charges'[f] = IF f \in UsageFact THEN 1 ELSE 0
          /\ \A g \in Fact \ {f} : charges'[g] = charges[g]
        BY <1>1, <2>1, <2>2, Zenon
    <2>4. ASSUME NEW g \in Fact
          PROVE  /\ g \in processed' <=> g \in audited'
                 /\ charges'[g] = IF g \in processed' /\ g \in UsageFact THEN 1 ELSE 0
        <3>1. CASE g = f
            BY <2>1, <2>3, <3>1
        <3>2. CASE g # f
            BY <2>1, <2>3, <3>2 DEF EffectsAreAtomic
        <3> QED BY <3>1, <3>2, Zenon
    <2> QED BY <1>1, <2>1, <2>3, <2>4, Zenon DEF EffectsAreAtomic
<1> QED BY <1>2, <1>3, Zenon

\* The handling of a message keeps the invariant.
LEMMA ProcessStep ==
    ASSUME PipelineInv, NEW c \in Consumer, ProcessKafkaEvent(c)
    PROVE  ConsumerSide'
<1>0. TypeOK /\ ConsumerInv(c) /\ EffectsAreAtomic
    BY Zenon DEF PipelineInv
<1>1. /\ consumerPc \in [Consumer -> {"fetch", "process", "commit", "stopped"}]
      /\ position \in [Consumer -> 0..Len(log)] /\ current \in [Consumer -> 0..Len(log)]
      /\ Len(log) \in Nat /\ log \in Seq(Fact) /\ offset \in 0..Len(log) /\ owner \in Consumer
    BY <1>0, Types, Zenon DEF TypeOK
<1>2. /\ UNCHANGED <<log, offset, owner, position, current>> /\ EffectsTo(offset)
      /\ consumerPc[c] = "process"
    BY Zenon DEF ProcessKafkaEvent, PipelineInv, OffsetFollowsEffects, EffectsTo
<1>3. PICK k \in 1..Len(log) : k = current[c] /\ EffectsTo(k - 1)
    <2>1. current[c] > 0 /\ EffectsTo(current[c] - 1)
        BY <1>0, <1>2, Zenon DEF ConsumerInv
    <2>2. current[c] \in 1..Len(log)
        BY <1>1, <2>1
    <2> QED BY <2>1, <2>2, Zenon
<1>4. PICK f \in Fact : f = log[k]
    BY <1>1, <1>3
<1>5. \/ /\ consumerPc' = [consumerPc EXCEPT ![c] = "commit"] /\ Apply(f)
      \/ /\ consumerPc' = [consumerPc EXCEPT ![c] = "stopped"]
         /\ Apply(f) \/ UNCHANGED <<processed, audited, charges>>
    <2>1. PICK reply \in Reply :
            /\ IF reply = "error" THEN UNCHANGED effectVars ELSE Apply(f)
            /\ consumerPc' = [consumerPc EXCEPT ![c] = IF reply = "ok" THEN "commit" ELSE "stopped"]
        BY <1>3, <1>4, Zenon DEF ProcessKafkaEvent
    <2>2. CASE reply = "ok"
        <3>1. reply # "error"
            BY <2>2, Zenon
        <3> QED BY <2>1, <2>2, <3>1, Zenon
    <2>3. CASE reply # "ok"
        BY <2>1, <2>3, Zenon DEF effectVars
    <2> QED BY <2>2, <2>3, Zenon
<1>6. /\ processed \subseteq processed' /\ processed' \subseteq Fact
      /\ audited' \in SUBSET Fact /\ charges' \in [Fact -> Nat]
      /\ EffectsAreAtomic'
    <2>1. CASE Apply(f)
        BY <1>0, <2>1, ApplyStep, Zenon DEF TypeOK
    <2>2. CASE UNCHANGED <<processed, audited, charges>>
        BY <1>0, <2>2, Zenon DEF TypeOK, EffectsAreAtomic
    <2> QED BY <1>5, <2>1, <2>2, Zenon
<1>7. LogGrows
    BY <1>0, <1>2, LogKept, Zenon
<1>8. /\ consumerPc' \in [Consumer -> {"fetch", "process", "commit", "stopped"}]
      /\ \A d \in Consumer \ {c} : consumerPc'[d] = consumerPc[d]
      /\ consumerPc'[c] \notin {"fetch", "process"}
      /\ consumerPc'[c] = "commit" => Apply(f)
    <2>1. CASE consumerPc' = [consumerPc EXCEPT ![c] = "commit"] /\ Apply(f)
        BY <1>1, <2>1
    <2>2. CASE consumerPc' = [consumerPc EXCEPT ![c] = "stopped"]
        BY <1>1, <2>2
    <2> QED BY <1>5, <2>1, <2>2, Zenon
<1>9. ConsumerInv(c)'
    <2>1. PICK p \in 0..Len(log) : p = position[c] /\ (p = k \/ EffectsTo(p))
        BY <1>0, <1>1, <1>2, <1>3, Zenon DEF ConsumerInv
    <2>2. ASSUME Apply(f) PROVE EffectsTo(k)'
        <3>1. f \in processed'
            BY <1>0, <2>2, ApplyStep, Zenon
        <3>2. k - 1 \in 0..Len(log)
            BY <1>1
        <3>3. EffectsTo(k - 1)'
            BY <1>0, <1>3, <1>6, <1>7, <3>2, EffectsStay, Zenon
        <3>4. \A i \in 1..k : i = k \/ i \in 1..(k - 1)
            BY <1>1
        <3>5. log'[k] = f
            BY <1>2, <1>4, Zenon
        <3> QED BY <3>1, <3>3, <3>4, <3>5, Zenon DEF EffectsTo
    <2>3. EffectsTo(p) => EffectsTo(p)'
        BY <1>0, <1>6, <1>7, EffectsStay, Zenon
    <2>4. current'[c] = k /\ position'[c] = p
        BY <1>2, <1>3, <2>1, Zenon
    <2> QED BY <1>8, <2>1, <2>2, <2>3, <2>4, Zenon DEF ConsumerInv, EffectsTo
<1>10. \A d \in Consumer \ {c} : ConsumerInv(d)'
    BY <1>0, <1>2, <1>6, <1>7, <1>8, ConsumerKept, Zenon DEF PipelineInv
<1>11. OffsetFollowsEffects'
    BY <1>2, <1>6, Zenon DEF OffsetFollowsEffects, EffectsTo
<1>12. {position', current'} \subseteq [Consumer -> 0..Len(log')]
    BY <1>1, <1>2, Zenon
<1> QED BY <1>1, <1>2, <1>6, <1>8, <1>9, <1>10, <1>11, <1>12, Zenon DEF ConsumerSide

-----------------------------------------------------------------------------
(* The invariant, and the safety of the pipeline.                              *)

\* The invariant holds at first.
LEMMA PipelineInit == Init => PipelineInv
<1> SUFFICES ASSUME Init PROVE PipelineInv
    OBVIOUS
<1>1. /\ commits = <<>> /\ log = <<>> /\ Range(<<>>) = {} /\ Len(<<>>) = 0 /\ <<>> \in Seq(Fact)
    BY DEF Init, Range
<1>2. TypeOK
    BY <1>1, PipelineAssumption DEF Init, TypeOK
<1>3. \A f \in Fact : row[f] = "absent" /\ charges[f] = 0
    BY Zenon DEF Init
<1>4. \A f \in Fact : (f \in Range(commits) <=> row[f] # "absent") /\ row[f] # "published"
    BY <1>1, <1>3, Zenon
<1>5. \A r \in Relay : batch[r] = <<>> /\ relayPc[r] \notin {"publish", "mark", "release"}
    BY Zenon DEF Init
<1>6. \A c \in Consumer : /\ consumerPc[c] \notin {"process", "commit"}
                          /\ position[c] = 0 /\ current[c] = 0
    BY Zenon DEF Init
<1>7. 1..0 = {} /\ offset = 0 /\ processed = {} /\ audited = {}
    BY DEF Init
<1>8. EffectsAreAtomic /\ OffsetFollowsEffects
    BY <1>3, <1>7, Zenon DEF EffectsAreAtomic, OffsetFollowsEffects
<1> QED BY <1>1, <1>2, <1>4, <1>5, <1>6, <1>7, <1>8, Zenon
        DEF PipelineInv, PublishedIsInLog, RelayInv, ConsumerInv, EffectsTo

\* Faults stay within their bound.
LEMMA ErrorsBounded ==
    ASSUME TypeOK, [Next]_vars
    PROVE  errors' \in 0..MaxFaults
<1>1. errors \in 0..MaxFaults
    BY Zenon DEF TypeOK
<1>2. UNCHANGED errors \/ \E kind : Fault(kind)
    <2>1. ASSUME NEW f \in Fact, Commit(f) \/ BecomeAvailable(f) \/ ClaimExpires(f)
          PROVE  UNCHANGED errors \/ Fault("expiry")
        BY <2>1, Zenon DEF Commit, BecomeAvailable, ClaimExpires
    <2>2. ASSUME NEW r \in Relay, RelayStep(r) \/ RestartRelay(r)
          PROVE  UNCHANGED errors \/ \E kind \in {"database", "publish", "crash"} : Fault(kind)
        BY <2>2, Zenon DEF RelayStep, Claim, Publish, MarkPublished, MarkFailed, RestartRelay, Answers
    <2>3. ASSUME NEW c \in Consumer, ConsumerStep(c) \/ Rebalance(c) \/ RestartConsumer(c)
          PROVE  UNCHANGED errors \/ \E kind \in {"database", "group", "crash"} : Fault(kind)
        BY <2>3, Zenon DEF ConsumerStep, Fetch, ProcessKafkaEvent, CommitMessages, Rebalance,
           RestartConsumer, Answers
    <2>4. UNCHANGED vars => UNCHANGED errors
        BY Zenon DEF vars
    <2> QED BY <2>1, <2>2, <2>3, <2>4, Zenon DEF Next
<1> QED BY <1>1, <1>2, FaultsBounded, Zenon

\* Every step keeps the invariant.
LEMMA PipelineStep == PipelineInv /\ [Next]_vars => PipelineInv'
<1> SUFFICES ASSUME PipelineInv, [Next]_vars PROVE PipelineInv'
    OBVIOUS
<1>0. TypeOK /\ RelaySide /\ log \in Seq(Fact)
    BY Sides, Zenon DEF PipelineInv
<1>1. errors' \in 0..MaxFaults
    BY <1>0, ErrorsBounded, Zenon
<1>2. ASSUME NEW f \in Fact, Commit(f) \/ BecomeAvailable(f) \/ ClaimExpires(f) PROVE PipelineInv'
    <2>1. RelaySide'
        BY <1>0, <1>2, CommitStep, TimeStep, Zenon
    <2>2. UNCHANGED <<log, consumerVars, effectVars>>
        BY <1>2, Zenon DEF Commit, BecomeAvailable, ClaimExpires
    <2>3. ConsumerSide'
        BY <1>0, <2>2, LogKept, ConsumersUnaffected, Zenon
    <2> QED BY <1>0, <1>1, <2>1, <2>2, <2>3, SidesNext, Zenon
<1>3. ASSUME NEW r \in Relay, RelayStep(r) \/ RestartRelay(r) PROVE PipelineInv'
    <2>1. UNCHANGED <<consumerVars, effectVars>>
        BY <1>3, Zenon DEF RelayStep, Claim, Publish, MarkPublished, MarkFailed, RestartRelay
    <2>2. RelaySide' /\ LogGrows
        <3>1. CASE Publish(r)
            BY <3>1, PublishStep, Zenon
        <3>2. CASE Claim(r) \/ MarkPublished(r) \/ MarkFailed(r) \/ RestartRelay(r)
            <4>1. UNCHANGED log
                BY <3>2, Zenon DEF Claim, MarkPublished, MarkFailed, RestartRelay
            <4> QED BY <1>0, <3>2, <4>1, LogKept, ClaimStep, MarkStep, RestartRelayStep, Zenon
        <3> QED BY <1>3, <3>1, <3>2, Zenon DEF RelayStep
    <2>3. ConsumerSide' /\ log' \in Seq(Fact)
        BY <2>1, <2>2, ConsumersUnaffected, Zenon DEF LogGrows
    <2> QED BY <1>1, <2>2, <2>3, SidesNext, Zenon
<1>4. ASSUME NEW c \in Consumer, ConsumerStep(c) \/ Rebalance(c) \/ RestartConsumer(c) PROVE PipelineInv'
    <2>1. UNCHANGED <<outboxVars, relayVars, log>>
        BY <1>4, Zenon DEF ConsumerStep, Fetch, ProcessKafkaEvent, CommitMessages, Rebalance, RestartConsumer
    <2>2. RelaySide'
        BY <1>0, <2>1, RelaysUnaffected, Zenon
    <2>3. ConsumerSide'
        BY <1>4, FetchStep, ProcessStep, CommitMessagesStep, RewindStep, Zenon DEF ConsumerStep
    <2> QED BY <1>0, <1>1, <2>1, <2>2, <2>3, SidesNext, Zenon
<1>5. CASE UNCHANGED vars
    <2>1. UNCHANGED <<outboxVars, relayVars, log, consumerVars, effectVars>>
        BY <1>5, Zenon DEF vars
    <2>2. RelaySide' /\ ConsumerSide'
        BY <1>0, <2>1, LogKept, RelaysUnaffected, ConsumersUnaffected, Zenon
    <2> QED BY <1>0, <1>1, <2>1, <2>2, SidesNext, Zenon
<1> QED BY <1>2, <1>3, <1>4, <1>5, Zenon DEF Next

\* The invariant always holds.
LEMMA PipelineSafety == Spec => []PipelineInv
BY PipelineInit, PipelineStep, PTL DEF Spec

\* A usage fact charges its tenant at most once, and its marker, audit entry and
\* charge commit together, whatever relays, brokers, consumers and crashes repeat.
THEOREM ChargedOnce == Spec => []EffectsAreAtomic
<1>1. PipelineInv => EffectsAreAtomic
    BY Zenon DEF PipelineInv
<1> QED BY <1>1, PipelineSafety, PTL

\* No relay marks a row published that the partition does not hold.
THEOREM NothingDropped == Spec => []PublishedIsInLog
<1>1. PipelineInv => PublishedIsInLog
    BY Zenon DEF PipelineInv
<1> QED BY <1>1, PipelineSafety, PTL

\* The committed offset never passes an entry without effects: a consumer that
\* starts from it, after a crash or a rebalance, skips nothing.
THEOREM NothingSkipped == Spec => []OffsetFollowsEffects
<1>1. PipelineInv => OffsetFollowsEffects
    BY Zenon DEF PipelineInv
<1> QED BY <1>1, PipelineSafety, PTL

-----------------------------------------------------------------------------
(* The pipeline implements FactDelivery: committed facts are the rows of the   *)
(* table, a fact has taken effect when its audit entry, or its charge, exists. *)

\* A fact without effects has none in the ledger either, and one with effects has one.
LEMMA EffectsValue ==
    ASSUME EffectsAreAtomic
    PROVE  \A f \in Fact : Effects[f] = IF f \in processed THEN 1 ELSE 0
BY Zenon DEF EffectsAreAtomic, Effects

\* Nothing is delivered at first, in both specifications.
LEMMA DeliveryInit == Init => Delivery!Init
<1> SUFFICES ASSUME Init PROVE Delivery!Init
    OBVIOUS
<1>1. Range(commits) = {}
    BY DEF Init, Range
<1>2. \A f \in Fact : charges[f] = 0 /\ f \notin audited
    BY Zenon DEF Init
<1>3. Effects = [f \in Fact |-> 0]
    BY <1>2 DEF Effects
<1> QED BY <1>1, <1>3, Zenon DEF Delivery!Init

\* Nothing but a commit adds a row, and nothing but the transaction of
\* ProcessKafkaEvent, on an entry without marker, adds effects.
LEMMA DeliveryStep == PipelineInv /\ [Next]_vars => [Delivery!Next]_(Delivery!vars)
<1> SUFFICES ASSUME PipelineInv, [Next]_vars
             PROVE  Delivery!Next \/ UNCHANGED Delivery!vars
    BY Zenon
<1>0. /\ TypeOK /\ EffectsAreAtomic /\ \A f \in Fact : f \in Range(commits) <=> row[f] # "absent"
      /\ commits \in Seq(Fact)
    BY Zenon DEF PipelineInv, TypeOK
<1>1. UNCHANGED <<commits, audited, charges>> => UNCHANGED Delivery!vars
    BY Zenon DEF Delivery!vars, Effects
<1>2. ASSUME NEW f \in Fact, Commit(f) PROVE Delivery!Next
    <2>1. /\ row[f] = "absent" /\ commits' = Append(commits, f) /\ UNCHANGED <<audited, charges>>
        BY <1>2, Zenon DEF Commit, effectVars
    <2>2. f \notin Range(commits)
        BY <1>0, <2>1, Zenon
    <2>3. Range(Append(commits, f)) = Range(commits) \cup {f}
        BY <1>0, AppendRange
    <2>4. UNCHANGED Effects
        BY <2>1, Zenon DEF Effects
    <2>5. Delivery!Commit(f)
        BY <2>1, <2>2, <2>3, <2>4, Zenon DEF Delivery!Commit
    <2> QED BY <2>5, Zenon DEF Delivery!Next
<1>3. ASSUME NEW c \in Consumer, ProcessKafkaEvent(c) PROVE Delivery!Next \/ UNCHANGED Delivery!vars
    <2>1. UNCHANGED commits /\ (Apply(log[current[c]]) \/ UNCHANGED <<audited, charges>>)
        BY <1>3, Zenon DEF ProcessKafkaEvent, outboxVars, effectVars
    <2>2. CASE UNCHANGED <<audited, charges>>
        BY <1>1, <2>1, <2>2, Zenon
    <2>3. CASE Apply(log[current[c]])
        <3>1. PICK f \in Fact : f = log[current[c]] /\ f \in Range(commits)
            <4>1. current[c] > 0
                BY <1>3, Zenon DEF PipelineInv, ConsumerInv, ProcessKafkaEvent
            <4>2. current[c] \in 1..Len(log)
                BY <1>0, <4>1, Types
            <4>3. log[current[c]] \in Range(log)
                BY <1>0, <4>2, InRange, Zenon DEF TypeOK
            <4>4. Range(log) \subseteq Range(commits) /\ Range(commits) \subseteq Fact
                BY <1>0, CandidateRows, Zenon DEF PipelineInv
            <4> QED BY <4>3, <4>4, Zenon
        <3>2. processed' = processed \cup {f} /\ EffectsAreAtomic'
            BY <1>0, <2>3, <3>1, ApplyStep, Zenon
        <3>3. CASE f \in processed
            <4>1. UNCHANGED <<audited, charges>>
                BY <2>3, <3>1, <3>3, Zenon DEF Apply, effectVars
            <4> QED BY <1>1, <2>1, <4>1, Zenon
        <3>4. CASE f \notin processed
            <4>1. \A g \in Fact : Effects[g] = IF g \in processed THEN 1 ELSE 0
                BY <1>0, EffectsValue, Zenon
            <4>2. \A g \in Fact : Effects'[g] = IF g \in processed' THEN 1 ELSE 0
                BY <3>2 DEF EffectsAreAtomic, Effects
            <4>3. DOMAIN Effects = Fact /\ DOMAIN Effects' = Fact
                  /\ Effects = [g \in DOMAIN Effects |-> Effects[g]]
                  /\ Effects' = [g \in DOMAIN Effects' |-> Effects'[g]]
                BY Zenon DEF Effects
            <4>4. Effects' = [Effects EXCEPT ![f] = 1]
                BY <3>2, <4>1, <4>2, <4>3
            <4>5. Delivery!Apply(f)
                <5>1. Effects[f] = 0
                    BY <3>4, <4>1
                <5> QED BY <2>1, <3>1, <4>4, <5>1, Zenon DEF Delivery!Apply
            <4> QED BY <4>5, Zenon DEF Delivery!Next
        <3> QED BY <3>3, <3>4, Zenon
    <2> QED BY <2>1, <2>2, <2>3, Zenon
<1>4. ASSUME NEW f \in Fact, BecomeAvailable(f) \/ ClaimExpires(f) PROVE UNCHANGED <<commits, audited, charges>>
    BY <1>4, Zenon DEF BecomeAvailable, ClaimExpires, effectVars
<1>5. ASSUME NEW r \in Relay, RelayStep(r) \/ RestartRelay(r) PROVE UNCHANGED <<commits, audited, charges>>
    BY <1>5, Zenon DEF RelayStep, Claim, Publish, MarkPublished, MarkFailed, RestartRelay, outboxVars, effectVars
<1>6. ASSUME NEW c \in Consumer, Fetch(c) \/ CommitMessages(c) \/ Rebalance(c) \/ RestartConsumer(c)
      PROVE  UNCHANGED <<commits, audited, charges>>
    BY <1>6, Zenon DEF Fetch, CommitMessages, Rebalance, RestartConsumer, outboxVars, effectVars
<1>7. UNCHANGED vars => UNCHANGED <<commits, audited, charges>>
    BY Zenon DEF vars, outboxVars, effectVars
<1> QED BY <1>1, <1>2, <1>3, <1>4, <1>5, <1>6, <1>7, Zenon DEF Next, ConsumerStep

\* Outbox, relays, partition and consumers together deliver every fact's effects at
\* most once and only after its commit.
THEOREM DeliveryRefinement == Spec => RefinesDelivery
BY DeliveryInit, DeliveryStep, PipelineSafety, PTL DEF Spec, RefinesDelivery, Delivery!Spec

-------------------------------------------------------------------------------
(* Reservations of module BudgetLedger *)

\* The active reservations of a day and of its month.
DaySet(d) == {r \in Active : day[r] = d}
MonthSet(d) == {r \in Active : MonthOf(day[r]) = MonthOf(d)}

\* Reservations S and another amount are within a limit that is set.
Within(limit, S, amount) == limit > 0 => Sum(reserved, S) + amount <= limit

\* The rows have their columns, and finitely many reservations exist.
RowInv == /\ DOMAIN pc = Request /\ DOMAIN day = Request /\ DOMAIN state = Request /\ DOMAIN effects = Request
          /\ reserved \in [Request -> Nat] /\ cost \in [Request -> Nat]
          /\ IsFiniteSet(Active) /\ IsFiniteSet(Ledger)

\* The row lock is held from the check to the insert, and only inserted reservations
\* are active.
LockInv == \A r \in Request : /\ pc[r] \in {"check", "insert"} => lock = r
                              /\ state[r] = "RESERVED" => pc[r] \in {"running", "completed"}

\* What was checked still fits when it is inserted.
InsertInv == \A r \in Request : pc[r] = "insert" =>
               /\ Within(DailyLimit, DaySet(day[r]), reserved[r])
               /\ Within(MonthlyLimit, MonthSet(day[r]), reserved[r])

\* The limits hold in every period.
SumInv == \A d \in 0..LastDay : Within(DailyLimit, DaySet(d), 0) /\ Within(MonthlyLimit, MonthSet(d), 0)

\* InsertInv is what the row lock is for: nobody else inserts between check and insert.
LedgerInv == RowInv /\ LockInv /\ InsertInv /\ SumInv

\* A step that makes no reservation active and changes none.
Shrinks == /\ Active' \subseteq Active
           /\ \A r \in Active' : day'[r] = day[r] /\ reserved'[r] = reserved[r]

\* Such a step raises no sum of reservations.
LEMMA SumsShrink ==
    ASSUME RowInv, RowInv', Shrinks, NEW d, NEW limit \in Nat, NEW amount \in Nat
    PROVE  /\ Within(limit, DaySet(d), amount) => Within(limit, DaySet(d), amount)'
           /\ Within(limit, MonthSet(d), amount) => Within(limit, MonthSet(d), amount)'
<1>1. ASSUME NEW S, NEW T, S \subseteq Active, T \subseteq S, T \subseteq Active'
      PROVE  Sum(reserved', T) <= Sum(reserved, S) /\ Sum(reserved', T) \in Nat /\ Sum(reserved, S) \in Nat
    <2>1. IsFiniteSet(S) /\ Natural(reserved, S) /\ IsFiniteSet(T) /\ Natural(reserved', T)
        <3>1. IsFiniteSet(Active) /\ IsFiniteSet(Active)'
            BY Zenon DEF RowInv
        <3>2. S \in SUBSET Active /\ T \in SUBSET Active'
            BY <1>1, Zenon
        <3>3. IsFiniteSet(S) /\ IsFiniteSet(T)
            BY <3>1, <3>2, FS_Subset, Zenon
        <3>4. Natural(reserved, S) /\ Natural(reserved', T)
            BY <1>1, Zenon DEF RowInv, Natural, Active
        <3> QED BY <3>3, <3>4, Zenon
    <2>2. Sum(reserved', T) = Sum(reserved, T)
        BY <1>1, SumSame, Zenon DEF Shrinks
    <2>3. Sum(reserved, T) <= Sum(reserved, S)
        BY <1>1, <2>1, SumSubset
    <2>4. Sum(reserved', T) \in Nat /\ Sum(reserved, S) \in Nat
        BY <2>1, SumNat, Zenon
    <2> QED BY <2>2, <2>3, <2>4, Zenon
<1>2. DaySet(d) \subseteq Active /\ DaySet(d)' \subseteq DaySet(d) /\ DaySet(d)' \subseteq Active'
    BY Zenon DEF DaySet, Shrinks
<1>3. MonthSet(d) \subseteq Active /\ MonthSet(d)' \subseteq MonthSet(d) /\ MonthSet(d)' \subseteq Active'
    BY Zenon DEF MonthSet, Shrinks
<1>4. /\ Sum(reserved', DaySet(d)') <= Sum(reserved, DaySet(d))
      /\ Sum(reserved', DaySet(d)') \in Nat /\ Sum(reserved, DaySet(d)) \in Nat
    BY <1>1, <1>2, Zenon
<1>5. /\ Sum(reserved', MonthSet(d)') <= Sum(reserved, MonthSet(d))
      /\ Sum(reserved', MonthSet(d)') \in Nat /\ Sum(reserved, MonthSet(d)) \in Nat
    BY <1>1, <1>3, Zenon
<1>6. Within(limit, DaySet(d), amount) => Within(limit, DaySet(d), amount)'
    BY <1>4, SMT DEF Within
<1>7. Within(limit, MonthSet(d), amount) => Within(limit, MonthSet(d), amount)'
    BY <1>5, SMT DEF Within
<1> QED BY <1>6, <1>7, Zenon

\* A step that shrinks the active reservations keeps what fitted.
LEMMA ShrinkStep ==
    ASSUME LedgerInv, RowInv', LockInv', Shrinks,
           \A r \in Request : pc'[r] = "insert" =>
             \/ pc[r] = "insert" /\ day'[r] = day[r] /\ reserved'[r] = reserved[r]
             \/ /\ Within(DailyLimit, DaySet(day'[r]), reserved'[r])
                /\ Within(MonthlyLimit, MonthSet(day'[r]), reserved'[r])
    PROVE  LedgerInv'
<1>1. RowInv /\ DailyLimit \in Nat /\ MonthlyLimit \in Nat /\ 0 \in Nat
    BY LedgerAssumption DEF LedgerInv
<1>2. ASSUME NEW r \in Request, pc'[r] = "insert"
      PROVE  /\ Within(DailyLimit, DaySet(day[r]), reserved[r])'
             /\ Within(MonthlyLimit, MonthSet(day[r]), reserved[r])'
    <2>1. PICK d : d = day'[r]
        OBVIOUS
    <2>2. PICK n : n = reserved'[r]
        OBVIOUS
    <2>3. n \in Nat
        BY <2>2, Zenon DEF RowInv
    <2>4. Within(DailyLimit, DaySet(d), n) /\ Within(MonthlyLimit, MonthSet(d), n)
        BY <1>2, <2>1, <2>2, Zenon DEF LedgerInv, InsertInv
    <2>5. Within(DailyLimit, DaySet(d), n)' /\ Within(MonthlyLimit, MonthSet(d), n)'
        BY <1>1, <2>3, <2>4, SumsShrink, Zenon
    <2> QED BY <2>1, <2>2, <2>5, Zenon DEF Within, DaySet, MonthSet
<1>3. SumInv'
    BY <1>1, SumsShrink, Zenon DEF LedgerInv, SumInv
<1> QED BY <1>2, <1>3, Zenon DEF LedgerInv, InsertInv

\* ReserveBudget up to the check.
LEMMA BeforeCheckStep ==
    ASSUME LedgerInv, NEW r \in Request, ReadClock(r) \/ LockLimits(r) PROVE LedgerInv'
<1>1. RowInv /\ LockInv
    BY Zenon DEF LedgerInv
<1>2. /\ pc[r] # "running" /\ pc[r] # "completed"
      /\ UNCHANGED <<rowVars, factVars>>
    <2>1. pc[r] = "start" \/ pc[r] = "lock"
        BY Zenon DEF ReadClock, LockLimits
    <2>2. pc[r] # "running" /\ pc[r] # "completed"
        BY <2>1, SMT
    <2> QED BY <2>2, Zenon DEF ReadClock, LockLimits
<1>3. UNCHANGED <<reserved, state, cost, effects>>
    BY <1>2, Zenon DEF rowVars, factVars
<1>4. Active' = Active /\ Ledger' = Ledger /\ r \notin Active
    BY <1>1, <1>2, <1>3, Zenon DEF Active, Ledger, LockInv
<1>5. /\ DOMAIN pc' = Request /\ DOMAIN day' = Request
      /\ \A q \in Request \ {r} : pc'[q] = pc[q] /\ day'[q] = day[q]
      /\ pc'[r] # "insert"
    <2>1. CASE ReadClock(r)
        BY <1>1, <2>1, SMT DEF ReadClock, Goes, RowInv
    <2>2. CASE LockLimits(r)
        BY <1>1, <2>2, SMT DEF LockLimits, Goes, RowInv
    <2> QED BY <2>1, <2>2, Zenon
<1>6. RowInv'
    BY <1>1, <1>3, <1>4, <1>5, Zenon DEF RowInv
<1>7. LockInv'
    <2>1. CASE ReadClock(r)
        <3>1. pc'[r] = "lock" /\ lock' = lock
            BY <1>1, <2>1, SMT DEF ReadClock, Goes, RowInv
        <3>2. pc'[r] \notin {"check", "insert"}
            BY <3>1, SMT
        <3> QED BY <1>1, <1>2, <1>3, <1>5, <3>1, <3>2, Zenon DEF LockInv
    <2>2. CASE LockLimits(r)
        <3>1. lock' = r /\ lock = Nobody
            BY <2>2, Zenon DEF LockLimits
        <3>2. \A q \in Request : lock # q
            BY <3>1, LedgerAssumption, Zenon
        <3> QED BY <1>1, <1>2, <1>3, <1>5, <3>1, <3>2, Zenon DEF LockInv
    <2> QED BY <2>1, <2>2, Zenon
<1>8. Shrinks
    BY <1>3, <1>4, <1>5, Zenon DEF Shrinks, Active
<1> QED BY <1>3, <1>5, <1>6, <1>7, <1>8, ShrinkStep, Zenon

\* An amount that passed both checks fits beside the active reservations.
LEMMA FitsIsWithin ==
    ASSUME RowInv, NEW d, NEW amount \in Amount, Fits(d, amount)
    PROVE  Within(DailyLimit, DaySet(d), amount) /\ Within(MonthlyLimit, MonthSet(d), amount)
<1>1. ASSUME NEW limit \in 0..MaxInt, NEW T, T \subseteq Ledger, NEW S, S \subseteq Active,
             CanReserve(limit, Sum(cost, T), Sum(reserved, S), amount) = "ok"
      PROVE  Within(limit, S, amount)
    <2>1. T \in SUBSET Ledger /\ S \in SUBSET Active
        BY <1>1, Zenon
    <2>2. IsFiniteSet(T) /\ IsFiniteSet(S)
        BY <2>1, FS_Subset, Zenon DEF RowInv
    <2>3. Natural(cost, T) /\ Natural(reserved, S)
        BY <1>1, Zenon DEF Natural, RowInv, Ledger, Active
    <2>4. PICK used : used = Sum(cost, T)
        OBVIOUS
    <2>5. PICK active : active = Sum(reserved, S)
        OBVIOUS
    <2>6. used \in Nat /\ active \in Nat
        BY <2>2, <2>3, <2>4, <2>5, SumNat, Zenon
    <2>7. amount \in Nat
        BY LedgerAssumption, BudgetAssumption
    <2>8. limit \in 1..MaxInt => used + active + amount <= limit
        BY <1>1, <2>4, <2>5, <2>6, <2>7, CanReserveExact, Zenon
    <2>9. limit > 0 => active + amount <= limit
        BY <2>6, <2>7, <2>8, BudgetAssumption, SMT
    <2> QED BY <2>5, <2>9, Zenon DEF Within
<1>2. DailyLimit \in 0..MaxInt /\ MonthlyLimit \in 0..MaxInt
    BY LedgerAssumption, Zenon
<1>3. Within(DailyLimit, DaySet(d), amount)
    <2>1. {r \in Ledger : spentOn[r] >= d} \subseteq Ledger /\ DaySet(d) \subseteq Active
        BY Zenon DEF DaySet
    <2> QED BY <1>1, <1>2, <2>1, Zenon DEF Fits, DayUsed, DayReserved, DaySet
<1>4. Within(MonthlyLimit, MonthSet(d), amount)
    <2>1. {r \in Ledger : MonthOf(spentOn[r]) >= MonthOf(d)} \subseteq Ledger /\ MonthSet(d) \subseteq Active
        BY Zenon DEF MonthSet
    <2> QED BY <1>1, <1>2, <2>1, Zenon DEF Fits, MonthUsed, MonthReserved, MonthSet
<1> QED BY <1>3, <1>4, Zenon

\* The check under the lock.
LEMMA CheckStep ==
    ASSUME LedgerInv, NEW r \in Request, NEW amount \in Amount, CheckLimits(r, amount) PROVE LedgerInv'
<1>1. RowInv /\ LockInv
    BY Zenon DEF LedgerInv
<1>2. /\ pc[r] = "check" /\ lock = r /\ pc[r] \notin {"running", "completed"}
      /\ UNCHANGED <<day, state, cost, effects>>
    <2>1. pc[r] = "check"
        BY Zenon DEF CheckLimits
    <2>2. lock = r
        BY <1>1, <2>1, Zenon DEF LockInv
    <2>3. pc[r] \notin {"running", "completed"}
        BY <2>1, SMT
    <2> QED BY <2>1, <2>2, <2>3, Zenon DEF CheckLimits, factVars
<1>3. Active' = Active /\ Ledger' = Ledger /\ r \notin Active
    BY <1>1, <1>2, Zenon DEF Active, Ledger, LockInv
<1>4. amount \in Nat
    BY LedgerAssumption, BudgetAssumption
<1>5. CASE Fits(day[r], amount)
    <2>1. pc' = [pc EXCEPT ![r] = "insert"] /\ reserved' = [reserved EXCEPT ![r] = amount] /\ lock' = lock
        BY <1>5, Zenon DEF CheckLimits, Goes
    <2>2. /\ DOMAIN pc' = Request /\ reserved' \in [Request -> Nat]
          /\ pc'[r] = "insert" /\ reserved'[r] = amount
          /\ \A q \in Request \ {r} : pc'[q] = pc[q] /\ reserved'[q] = reserved[q]
        BY <1>1, <1>4, <2>1, SMT DEF RowInv
    <2>3. RowInv'
        BY <1>1, <1>2, <1>3, <2>2, Zenon DEF RowInv
    <2>4. LockInv'
        BY <1>1, <1>2, <2>1, <2>2, Zenon DEF LockInv
    <2>5. Shrinks
        BY <1>2, <1>3, <2>2, Zenon DEF Shrinks, Active
    <2>6. Within(DailyLimit, DaySet(day[r]), amount) /\ Within(MonthlyLimit, MonthSet(day[r]), amount)
        BY <1>1, <1>5, FitsIsWithin, Zenon
    <2>7. ASSUME NEW q \in Request, pc'[q] = "insert"
          PROVE  \/ pc[q] = "insert" /\ day'[q] = day[q] /\ reserved'[q] = reserved[q]
                 \/ /\ Within(DailyLimit, DaySet(day'[q]), reserved'[q])
                    /\ Within(MonthlyLimit, MonthSet(day'[q]), reserved'[q])
        BY <1>2, <2>2, <2>6, <2>7, Zenon
    <2> QED BY <2>3, <2>4, <2>5, <2>7, ShrinkStep, Zenon
<1>6. CASE ~Fits(day[r], amount)
    <2>1. pc' = [pc EXCEPT ![r] = "rejected"] /\ reserved' = reserved /\ lock' = Nobody
        BY <1>6, Zenon DEF CheckLimits, Goes
    <2>2. /\ DOMAIN pc' = Request /\ pc'[r] \notin {"check", "insert"} /\ pc'[r] # "insert"
          /\ \A q \in Request \ {r} : pc'[q] = pc[q]
        BY <1>1, <2>1, SMT DEF RowInv
    <2>3. RowInv'
        BY <1>1, <1>2, <1>3, <2>1, <2>2, Zenon DEF RowInv
    <2>4. LockInv'
        BY <1>1, <1>2, <2>1, <2>2, Zenon DEF LockInv
    <2>5. Shrinks
        BY <1>2, <1>3, <2>1, Zenon DEF Shrinks
    <2> QED BY <1>2, <2>1, <2>2, <2>3, <2>4, <2>5, ShrinkStep, Zenon
<1> QED BY <1>5, <1>6, Zenon

\* After the insert: completion, reconciliation, the ledger's consumer and the clock.
LEMMA AfterInsertStep ==
    ASSUME LedgerInv, NEW r \in Request, CompleteRequest(r) \/ ReconcileBudget(r)
    PROVE LedgerInv'
<1>1. RowInv /\ LockInv
    BY Zenon DEF LedgerInv
<1>2. /\ UNCHANGED <<lock, day, reserved, effects>>
      /\ DOMAIN pc' = Request /\ pc'[r] \notin {"check", "insert"} /\ pc'[r] # "insert"
      /\ \A q \in Request \ {r} : pc'[q] = pc[q]
      /\ DOMAIN state' = Request /\ \A q \in Request \ {r} : state'[q] = state[q]
      /\ state'[r] = "RESERVED" => state[r] = "RESERVED" /\ pc'[r] \in {"running", "completed"}
      /\ cost' \in [Request -> Nat]
    <2>1. CASE CompleteRequest(r)
        <3>1. /\ UNCHANGED <<lock, day, reserved, effects, state>> /\ pc' = [pc EXCEPT ![r] = "completed"]
              /\ \E actual \in Amount : cost' = [cost EXCEPT ![r] = actual]
            BY <2>1, Zenon DEF CompleteRequest, Goes, Facts!Commit
        <3>2. \A actual \in Amount : actual \in Nat
            BY LedgerAssumption, BudgetAssumption
        <3>3. cost' \in [Request -> Nat]
            BY <1>1, <3>1, <3>2, Zenon DEF RowInv
        <3> QED BY <1>1, <3>1, <3>3, SMT DEF RowInv
    <2>2. CASE ReconcileBudget(r)
        <3>1. /\ UNCHANGED <<lock, day, reserved, effects, cost>>
              /\ pc' = [pc EXCEPT ![r] = "done"] /\ state' = [state EXCEPT ![r] = "RECONCILED"]
            BY <2>2, Zenon DEF ReconcileBudget, Goes, factVars
        <3> QED BY <1>1, <3>1, SMT DEF RowInv
    <2> QED BY <2>1, <2>2, Zenon
<1>3. Active' \in SUBSET Active /\ Ledger' = Ledger
    BY <1>2, Zenon DEF Active, Ledger
<1>4. RowInv'
    BY <1>1, <1>2, <1>3, FS_Subset, Zenon DEF RowInv
<1>5. LockInv'
    BY <1>1, <1>2, Zenon DEF LockInv
<1>6. Shrinks
    BY <1>2, <1>3, Zenon DEF Shrinks
<1> QED BY <1>2, <1>4, <1>5, <1>6, ShrinkStep, Zenon

\* The ledger's consumer and the clock touch no reservation.
LEMMA ElsewhereStep ==
    ASSUME LedgerInv, Midnight \/ (\E r \in Request : RecordUsage(r)) \/ UNCHANGED ledgerVars
    PROVE LedgerInv'
<1>1. RowInv /\ LockInv
    BY Zenon DEF LedgerInv
<1>2. UNCHANGED <<lock, pc, day, reserved, state, cost>>
    BY Zenon DEF Midnight, RecordUsage, ledgerVars, rowVars
<1>3. Active' = Active
    BY <1>2, Zenon DEF Active
<1>4. DOMAIN effects' = Request /\ IsFiniteSet(Ledger')
    <2>1. CASE effects' = effects
        BY <1>1, <2>1, Zenon DEF RowInv, Ledger
    <2>2. CASE \E r \in Request : effects' = [effects EXCEPT ![r] = 1]
        <3>1. PICK r \in Request : effects' = [effects EXCEPT ![r] = 1]
            BY <2>2, Zenon
        <3>2. DOMAIN effects' = Request /\ Ledger' = Ledger \cup {r}
            BY <1>1, <3>1, SMT DEF RowInv, Ledger
        <3>3. IsFiniteSet(Ledger)
            BY <1>1, Zenon DEF RowInv
        <3>4. IsFiniteSet(Ledger \cup {r})
            BY <3>3, FS_AddElement, SMT
        <3> QED BY <3>2, <3>4, Zenon
    <2>3. effects' = effects \/ \E r \in Request : effects' = [effects EXCEPT ![r] = 1]
        BY Zenon DEF Midnight, RecordUsage, Facts!Apply, ledgerVars, factVars
    <2> QED BY <2>1, <2>2, <2>3, Zenon
<1>5. RowInv'
    BY <1>1, <1>2, <1>3, <1>4, Zenon DEF RowInv
<1>6. LockInv'
    BY <1>1, <1>2, Zenon DEF LockInv
<1>7. Shrinks
    BY <1>2, <1>3, Zenon DEF Shrinks
<1> QED BY <1>2, <1>5, <1>6, <1>7, ShrinkStep, Zenon

\* The insert makes active what was checked, under the same lock.
LEMMA InsertStep == ASSUME LedgerInv, NEW r \in Request, InsertReservation(r) PROVE LedgerInv'
<1>1. RowInv /\ LockInv
    BY Zenon DEF LedgerInv
<1>2. /\ pc[r] = "insert" /\ state' = [state EXCEPT ![r] = "RESERVED"] /\ lock' = Nobody
      /\ pc' = [pc EXCEPT ![r] = "running"] /\ UNCHANGED <<day, reserved, cost, effects>>
    BY Zenon DEF InsertReservation, Goes, factVars
<1>3. /\ DOMAIN pc' = Request /\ DOMAIN state' = Request
      /\ pc'[r] \in {"running", "completed"} /\ pc'[r] \notin {"check", "insert"} /\ pc'[r] # "insert"
      /\ \A q \in Request \ {r} : pc'[q] = pc[q] /\ state'[q] = state[q]
      /\ state'[r] = "RESERVED" /\ pc[r] \notin {"running", "completed"}
    BY <1>1, <1>2, SMT DEF RowInv
<1>4. r \notin Active /\ lock = r
    BY <1>1, <1>2, <1>3, Zenon DEF Active, LockInv
<1>5. Active' = Active \cup {r} /\ Ledger' = Ledger
    BY <1>2, <1>3, Zenon DEF Active, Ledger
<1>6. RowInv'
    <2>1. IsFiniteSet(Active)
        BY <1>1, Zenon DEF RowInv
    <2>2. IsFiniteSet(Active \cup {r})
        BY <2>1, FS_AddElement, SMT
    <2> QED BY <1>1, <1>2, <1>3, <1>5, <2>2, Zenon DEF RowInv
<1>7. LockInv' /\ InsertInv'
    BY <1>1, <1>2, <1>3, <1>4, Zenon DEF LockInv, InsertInv
<1>8. ASSUME NEW S, S \subseteq Active, NEW limit \in Nat, Within(limit, S, reserved[r])
      PROVE  limit > 0 => Sum(reserved', S \cup {r}) + 0 <= limit
    <2>1. IsFiniteSet(S) /\ Natural(reserved, S \cup {r}) /\ r \notin S
        <3>1. S \in SUBSET Active
            BY <1>8, Zenon
        <3>2. IsFiniteSet(S)
            BY <1>1, <3>1, FS_Subset, Zenon DEF RowInv
        <3> QED BY <1>1, <1>4, <1>8, <3>2, Zenon DEF RowInv, Natural, Active
    <2>2. /\ Sum(reserved, S \cup {r}) = Sum(reserved, S) + reserved[r]
          /\ Sum(reserved, S) \in Nat /\ reserved[r] \in Nat
        BY <2>1, SumAdded, Zenon
    <2>3. limit > 0 => Sum(reserved, S \cup {r}) + 0 <= limit
        BY <1>8, <2>2, SMT DEF Within
    <2> QED BY <1>2, <2>3, Zenon
<1>9. ASSUME NEW S, S \subseteq Active, NEW limit \in Nat, Within(limit, S, 0)
      PROVE  limit > 0 => Sum(reserved', S) + 0 <= limit
    BY <1>2, <1>9, Zenon DEF Within
<1>10. DailyLimit \in Nat /\ MonthlyLimit \in Nat
    BY LedgerAssumption
<1>11. ASSUME NEW d \in 0..LastDay PROVE Within(DailyLimit, DaySet(d), 0)'
    <2>1. CASE day[r] = d
        <3>1. DaySet(d)' = DaySet(d) \cup {r} /\ DaySet(d) \subseteq Active
            BY <1>2, <1>5, <2>1, Zenon DEF DaySet
        <3>2. Within(DailyLimit, DaySet(d), reserved[r])
            BY <1>2, <2>1, Zenon DEF LedgerInv, InsertInv
        <3> QED BY <1>8, <1>10, <3>1, <3>2, Zenon DEF Within
    <2>2. CASE day[r] # d
        <3>1. DaySet(d)' = DaySet(d) /\ DaySet(d) \subseteq Active
            BY <1>2, <1>5, <2>2, Zenon DEF DaySet
        <3>2. Within(DailyLimit, DaySet(d), 0)
            BY Zenon DEF LedgerInv, SumInv
        <3> QED BY <1>9, <1>10, <3>1, <3>2, Zenon DEF Within
    <2> QED BY <2>1, <2>2, Zenon
<1>12. ASSUME NEW d \in 0..LastDay PROVE Within(MonthlyLimit, MonthSet(d), 0)'
    <2>1. CASE MonthOf(day[r]) = MonthOf(d)
        <3>1. MonthSet(d)' = MonthSet(d) \cup {r} /\ MonthSet(d) \subseteq Active /\ MonthSet(d) = MonthSet(day[r])
            BY <1>2, <1>5, <2>1, Zenon DEF MonthSet
        <3>2. Within(MonthlyLimit, MonthSet(d), reserved[r])
            BY <1>2, <3>1, Zenon DEF LedgerInv, InsertInv
        <3> QED BY <1>8, <1>10, <3>1, <3>2, Zenon DEF Within
    <2>2. CASE MonthOf(day[r]) # MonthOf(d)
        <3>1. MonthSet(d)' = MonthSet(d) /\ MonthSet(d) \subseteq Active
            BY <1>2, <1>5, <2>2, Zenon DEF MonthSet
        <3>2. Within(MonthlyLimit, MonthSet(d), 0)
            BY Zenon DEF LedgerInv, SumInv
        <3> QED BY <1>9, <1>10, <3>1, <3>2, Zenon DEF Within
    <2> QED BY <2>1, <2>2, Zenon
<1> QED BY <1>6, <1>7, <1>11, <1>12, Zenon DEF LedgerInv, SumInv

\* Nothing is reserved at first.
LEMMA LedgerInit == ASSUME NewLedger PROVE LedgerInv
<1>1. \A r \in Request : pc[r] = "start" /\ state[r] = "none" /\ effects[r] = 0
    BY Zenon DEF NewLedger, Facts!Init
<1>2. Active = {} /\ Ledger = {}
    BY <1>1, SMT DEF Active, Ledger
<1>3. RowInv
    <2>1. /\ DOMAIN pc = Request /\ DOMAIN day = Request /\ DOMAIN state = Request /\ DOMAIN effects = Request
          /\ reserved \in [Request -> Nat] /\ cost \in [Request -> Nat]
        BY SMT DEF NewLedger, Facts!Init
    <2> QED BY <1>2, <2>1, FS_EmptySet, Zenon DEF RowInv
<1>4. LockInv /\ InsertInv
    BY <1>1, SMT DEF LockInv, InsertInv
<1>5. \A d : DaySet(d) = {} /\ MonthSet(d) = {}
    BY <1>2, Zenon DEF DaySet, MonthSet
<1>6. ASSUME NEW limit \in Nat PROVE Within(limit, {}, 0)
    <2>1. Sum(reserved, {}) = 0
        BY SumEmpty, Zenon
    <2> QED BY <2>1, SMT DEF Within
<1>7. SumInv
    <2>1. DailyLimit \in Nat /\ MonthlyLimit \in Nat
        BY LedgerAssumption
    <2> QED BY <1>5, <1>6, <2>1, Zenon DEF SumInv
<1> QED BY <1>3, <1>4, <1>7, Zenon DEF LedgerInv

\* The invariant is inductive.
LEMMA LedgerStep == ASSUME LedgerInv, [LedgerNext]_ledgerVars PROVE LedgerInv'
BY BeforeCheckStep, CheckStep, InsertStep, AfterInsertStep, ElsewhereStep, Zenon DEF LedgerNext

\* Concurrent calls of ReserveBudget (postgres.go) never reserve more together than
\* the limit of a day or of a month, for any number of requests, any amounts and
\* limits: the check of one sees the insert of the other, because FOR UPDATE holds
\* the tenant's row from the sums to the commit.
THEOREM ReservationsFit == LedgerSpec => []ReservationsWithinLimits
<1>1. LedgerInv => ReservationsWithinLimits
    <2>1. SUFFICES ASSUME LedgerInv, NEW d \in 0..LastDay
                   PROVE  /\ DailyLimit > 0 => DayReserved(d) <= DailyLimit
                          /\ MonthlyLimit > 0 => MonthReserved(d) <= MonthlyLimit
        BY Zenon DEF ReservationsWithinLimits
    <2>2. /\ DailyLimit > 0 => Sum(reserved, DaySet(d)) + 0 <= DailyLimit
          /\ MonthlyLimit > 0 => Sum(reserved, MonthSet(d)) + 0 <= MonthlyLimit
        BY <2>1, Zenon DEF LedgerInv, SumInv, Within
    <2>3. Sum(reserved, DaySet(d)) \in Nat /\ Sum(reserved, MonthSet(d)) \in Nat
        <3>1. DaySet(d) \in SUBSET Active /\ MonthSet(d) \in SUBSET Active
            BY Zenon DEF DaySet, MonthSet
        <3>2. IsFiniteSet(DaySet(d)) /\ IsFiniteSet(MonthSet(d))
            BY <2>1, <3>1, FS_Subset, Zenon DEF LedgerInv, RowInv
        <3>3. Natural(reserved, DaySet(d)) /\ Natural(reserved, MonthSet(d))
            BY <2>1, Zenon DEF LedgerInv, RowInv, Natural, DaySet, MonthSet, Active
        <3> QED BY <3>2, <3>3, SumNat, Zenon
    <2>4. DayReserved(d) = Sum(reserved, DaySet(d)) /\ MonthReserved(d) = Sum(reserved, MonthSet(d))
        BY Zenon DEF DayReserved, MonthReserved, DaySet, MonthSet
    <2>5. DailyLimit \in Nat /\ MonthlyLimit \in Nat
        BY LedgerAssumption
    <2> QED BY <2>2, <2>3, <2>4, <2>5, SMT
<1>2. NewLedger => LedgerInv
    BY LedgerInit, Zenon
<1>3. LedgerInv /\ [LedgerNext]_ledgerVars => LedgerInv'
    BY LedgerStep, Zenon
<1> QED BY <1>1, <1>2, <1>3, PTL DEF LedgerSpec
=============================================================================
