-------------------------------- MODULE Router --------------------------------
(* internal/routing/router.go: concurrent calls select a provider, hold its  *)
(* capacity as a lease and report the outcome. Select reads breakers and     *)
(* semaphores without a lock across them, so calls interleave between its    *)
(* filter, Breaker.Allow, the semaphore and the counter, and between a       *)
(* lease's release and the report to the breaker.                            *)
EXTENDS CircuitBreaker, Integers, FiniteSets, SequencesExt, FiniteSetsExt

CONSTANTS Call,
          Registry,        \* the providers in registration order
          Permitted,       \* per call: providers that static policy allows
          Excluded,        \* per call: providers tried before
          Weight, Priority, MaxConcurrency,          \* per provider
          Strategies,      \* those a selection may ask for
          SequencePeriod,  \* a common multiple of the weight totals
          None

Provider == ToSet(Registry)

ASSUME RouterAssumption ==
    /\ IsInjective(Registry) /\ None \notin Provider
    /\ Permitted \in [Call -> SUBSET Provider] /\ Excluded \in [Call -> SUBSET Provider]
    /\ {Weight, Priority, MaxConcurrency} \subseteq [Provider -> Nat \ {0}]
    /\ Strategies \subseteq {"weighted_round_robin", "least_outstanding", "least_latency", "priority_fallback"}

ASSUME PeriodAssumption ==
    \A S \in (SUBSET Provider) \ {{}} : SequencePeriod % MapThenSumSet(LAMBDA p : Weight[p], S) = 0

VARIABLES
    breaker,      \* per provider
    semaphore,    \* per provider: slots taken
    outstanding,  \* per provider: the counter that least_outstanding reads
    sequence,     \* the round-robin counter, modulo SequencePeriod
    pc, lag,      \* each call: where it is, how long ago it read its clock
    candidates,   \* each call: providers still to filter, or to try in order
    eligible,     \* each call: providers that passed the filter so far
    lease,        \* each call: the provider whose lease it holds
    probes        \* per provider: calls that Allow admitted in this half-open period

poolVars == <<breaker, semaphore, outstanding, sequence, probes>>
callVars == <<pc, lag, candidates, eligible, lease>>
vars == <<poolVars, callVars>>

Init ==
    /\ breaker = [p \in Provider |-> NewBreaker]
    /\ semaphore = [p \in Provider |-> 0]
    /\ outstanding = [p \in Provider |-> 0]
    /\ sequence = 0
    /\ pc = [c \in Call |-> "idle"]
    /\ lag = [c \in Call |-> 0]
    /\ candidates = [c \in Call |-> <<>>]
    /\ eligible = [c \in Call |-> <<>>]
    /\ lease = [c \in Call |-> None]
    /\ probes = [p \in Provider |-> {}]

------------------------------------------------------------------------------
(* order *)

WeightOf(s) == FoldSeq(LAMBDA p, w : Weight[p] + w, 0, s)

SortedBy(s, key) == SortSeq(s, LAMBDA p, q :
    key[p] < key[q] \/ (key[p] = key[q] /\ SelectInSeq(Registry, LAMBDA x : x = p)
                                           < SelectInSeq(Registry, LAMBDA x : x = q)))

\* The entry whose share of the total weight holds the counter goes first.
Rotated(s) ==
    LET place == sequence % WeightOf(s)
        first == CHOOSE i \in 1..Len(s) : /\ place < WeightOf(SubSeq(s, 1, i))
                                          /\ place >= WeightOf(SubSeq(s, 1, i - 1))
    IN  SubSeq(s, first, Len(s)) \o SubSeq(s, 1, first - 1)

\* The orders a strategy may give. Measured latencies may put them in any.
Orders(s, strategy) ==
    CASE strategy = "least_outstanding" -> {SortedBy(s, outstanding)}
      [] strategy = "least_latency" -> SetToSeqs(ToSet(s))
      [] strategy = "priority_fallback" -> {SortedBy(s, Priority)}
      [] OTHER -> {Rotated(s)}

------------------------------------------------------------------------------
(* Select *)

GiveUp(c) == /\ pc' = [pc EXCEPT ![c] = "idle"]
             /\ lag' = [lag EXCEPT ![c] = 0]
             /\ candidates' = [candidates EXCEPT ![c] = <<>>]

\* Select reads its clock and starts on the registry.
Begin(c) ==
    /\ pc[c] = "idle"
    /\ pc' = [pc EXCEPT ![c] = "filter"]
    /\ candidates' = [candidates EXCEPT ![c] = Registry]
    /\ UNCHANGED <<poolVars, lag, eligible, lease>>

Passes(c, p) ==
    /\ p \in Permitted[c] \ Excluded[c]
    /\ State(breaker[p], lag[c]) # "open"
    /\ semaphore[p] < MaxConcurrency[p]

\* One provider of the filter's loop.
Filter(c) ==
    LET p == Head(candidates[c]) IN
    /\ pc[c] = "filter"
    /\ candidates[c] # <<>>
    /\ candidates' = [candidates EXCEPT ![c] = Tail(@)]
    /\ eligible' = [eligible EXCEPT ![c] = IF Passes(c, p) THEN Append(@, p) ELSE @]
    /\ UNCHANGED <<poolVars, pc, lag, lease>>

\* The end of the filter: ErrNoEligibleProvider, or the strategy's order.
Arrange(c) ==
    /\ pc[c] = "filter"
    /\ candidates[c] = <<>>
    /\ eligible' = [eligible EXCEPT ![c] = <<>>]
    /\ IF eligible[c] = <<>>
         THEN GiveUp(c) /\ UNCHANGED sequence
         ELSE /\ \E strategy \in Strategies :
                   /\ \E s \in Orders(eligible[c], strategy) :
                        candidates' = [candidates EXCEPT ![c] = s]
                   /\ sequence' = IF strategy = "weighted_round_robin"
                                    THEN (sequence + 1) % SequencePeriod ELSE sequence
              /\ pc' = [pc EXCEPT ![c] = "allow"]
              /\ UNCHANGED lag
    /\ UNCHANGED <<breaker, semaphore, outstanding, probes, lease>>

\* On to the next candidate, or ErrNoEligibleProvider.
TryNext(c) ==
    IF Tail(candidates[c]) = <<>> THEN GiveUp(c)
      ELSE /\ pc' = [pc EXCEPT ![c] = "allow"]
           /\ candidates' = [candidates EXCEPT ![c] = Tail(@)]
           /\ UNCHANGED lag

\* Breaker.Allow of the next candidate.
AskBreaker(c) ==
    LET p == Head(candidates[c])
        b == Allow(breaker[p], lag[c])
    IN
    /\ pc[c] = "allow"
    /\ breaker' = [breaker EXCEPT ![p] = b]
    /\ probes' = [probes EXCEPT ![p] =
         IF b.state # "half_open" THEN {}
           ELSE (IF breaker[p].state = "half_open" THEN @ ELSE {})
                \cup (IF Allows(breaker[p], lag[c]) THEN {c} ELSE {})]
    /\ IF Allows(breaker[p], lag[c])
         THEN pc' = [pc EXCEPT ![c] = "acquire"] /\ UNCHANGED <<candidates, lag>>
         ELSE TryNext(c)
    /\ UNCHANGED <<semaphore, outstanding, sequence, eligible, lease>>

\* The semaphore: a lease, or the probe is given back.
AcquireKeepingProbe(c) ==
    LET p == Head(candidates[c]) IN
    /\ pc[c] = "acquire"
    /\ IF semaphore[p] < MaxConcurrency[p]
         THEN /\ semaphore' = [semaphore EXCEPT ![p] = @ + 1]
              /\ lease' = [lease EXCEPT ![c] = p]
              /\ pc' = [pc EXCEPT ![c] = "count"]
              /\ lag' = [lag EXCEPT ![c] = 0]
              /\ candidates' = [candidates EXCEPT ![c] = <<>>]
              /\ UNCHANGED <<breaker, probes>>
         ELSE TryNext(c) /\ UNCHANGED <<semaphore, lease, breaker, probes>>
    /\ UNCHANGED <<outstanding, sequence, eligible>>

AcquireUnchecked(c) ==
    LET p == Head(candidates[c]) IN
    /\ pc[c] = "acquire"
    /\ semaphore' = [semaphore EXCEPT ![p] = @ + 1]
    /\ lease' = [lease EXCEPT ![c] = p]
    /\ pc' = [pc EXCEPT ![c] = "count"]
    /\ lag' = [lag EXCEPT ![c] = 0]
    /\ candidates' = [candidates EXCEPT ![c] = <<>>]
    /\ UNCHANGED <<breaker, probes, outstanding, sequence, eligible>>

Acquire(c) ==
    LET p == Head(candidates[c]) IN
    /\ pc[c] = "acquire"
    /\ IF semaphore[p] < MaxConcurrency[p]
         THEN /\ semaphore' = [semaphore EXCEPT ![p] = @ + 1]
              /\ lease' = [lease EXCEPT ![c] = p]
              /\ pc' = [pc EXCEPT ![c] = "count"]
              /\ lag' = [lag EXCEPT ![c] = 0]
              /\ candidates' = [candidates EXCEPT ![c] = <<>>]
              /\ UNCHANGED <<breaker, probes>>
         ELSE /\ TryNext(c)
              /\ breaker' = [breaker EXCEPT ![p] = Release(@)]
              /\ probes' = [probes EXCEPT ![p] = @ \ {c}]
              /\ UNCHANGED <<semaphore, lease>>
    /\ UNCHANGED <<outstanding, sequence, eligible>>

\* The counter follows the semaphore; other calls may read it in between.
Count(c) ==
    /\ pc[c] = "count"
    /\ outstanding' = [outstanding EXCEPT ![lease[c]] = @ + 1]
    /\ pc' = [pc EXCEPT ![c] = "leased"]
    /\ UNCHANGED <<breaker, semaphore, sequence, probes, lag, candidates, eligible, lease>>

------------------------------------------------------------------------------
(* The lease's outcome *)

\* release: the slot is free first, ...
ReleaseSlot(c) ==
    /\ pc[c] = "leased"
    /\ semaphore' = [semaphore EXCEPT ![lease[c]] = @ - 1]
    /\ pc' = [pc EXCEPT ![c] = "freed"]
    /\ UNCHANGED <<breaker, outstanding, sequence, probes, lag, candidates, eligible, lease>>

\* ... then the counter goes down, and only then the breaker hears of the outcome.
Uncount(c, outcome) ==
    /\ pc[c] = "freed"
    /\ outstanding' = [outstanding EXCEPT ![lease[c]] = @ - 1]
    /\ pc' = [pc EXCEPT ![c] = outcome]
    /\ UNCHANGED <<breaker, semaphore, sequence, probes, lag, candidates, eligible, lease>>

\* Success, Failure(true) or Failure(false) tells the breaker.
Report(c) ==
    LET p == lease[c]
        b == CASE pc[c] = "success" -> Success(breaker[p])
               [] pc[c] = "fault" -> Failure(breaker[p])
               [] pc[c] = "no_fault" -> Release(breaker[p])
    IN
    /\ pc[c] \in {"success", "fault", "no_fault"}
    /\ breaker' = [breaker EXCEPT ![p] = b]
    /\ probes' = [probes EXCEPT ![p] = IF b.state = "half_open" THEN @ \ {c} ELSE {}]
    /\ pc' = [pc EXCEPT ![c] = "idle"]
    /\ lease' = [lease EXCEPT ![c] = None]
    /\ UNCHANGED <<semaphore, outstanding, sequence, lag, candidates, eligible>>

\* Time passes, also for a call between reading its clock and its Allow.
Selecting == {c \in Call : pc[c] \in {"filter", "allow", "acquire"}}
Tick ==
    /\ \A c \in Selecting : lag[c] < MaxLag
    /\ breaker' = [p \in Provider |-> Older(breaker[p])]
    /\ lag' = [c \in Call |-> IF c \in Selecting THEN lag[c] + 1 ELSE lag[c]]
    /\ UNCHANGED <<semaphore, outstanding, sequence, probes, pc, candidates, eligible, lease>>

------------------------------------------------------------------------------
SelectStep(c) == Filter(c) \/ Arrange(c) \/ AskBreaker(c) \/ Acquire(c) \/ Count(c)
OutcomeStep(c) == ReleaseSlot(c) \/ Report(c)
                  \/ \E outcome \in {"success", "fault", "no_fault"} : Uncount(c, outcome)

Next == Tick \/ \E c \in Call : Begin(c) \/ SelectStep(c) \/ OutcomeStep(c)

Spec == Init /\ [][Next]_vars

\* A running Select goes on, a provider call ends at its deadline, time passes.
FairSpec == Spec /\ WF_vars(Tick) /\ \A c \in Call : WF_vars(SelectStep(c)) /\ WF_vars(OutcomeStep(c))

------------------------------------------------------------------------------
(* Properties *)

TypeOK ==
    /\ \A p \in Provider : BreakerType(breaker[p])
    /\ semaphore \in [Provider -> Nat]
    /\ outstanding \in [Provider -> Nat]
    /\ sequence \in 0..SequencePeriod - 1
    /\ pc \in [Call -> {"idle", "filter", "allow", "acquire", "count", "leased", "freed",
                    "success", "fault", "no_fault"}]
    /\ lag \in [Call -> 0..MaxLag]
    /\ candidates \in [Call -> Seq(Provider)]
    /\ eligible \in [Call -> Seq(Provider)]
    /\ lease \in [Call -> Provider \cup {None}]
    /\ probes \in [Provider -> SUBSET Call]

\* A provider's semaphore counts the leases on it, never more than MaxConcurrency, and
\* its outstanding counter those that were counted and not yet uncounted: no path of
\* Select or of a report leaks or returns twice a slot or a count, whatever other calls
\* do between the two.
SlotsAreLeases ==
    \A p \in Provider :
      /\ semaphore[p] = Cardinality({c \in Call : pc[c] \in {"count", "leased"} /\ lease[c] = p})
      /\ semaphore[p] <= MaxConcurrency[p]
      /\ outstanding[p] = Cardinality({c \in Call : pc[c] \in {"leased", "freed"} /\ lease[c] = p})

\* Every half-open probe that the breaker counts belongs to a call it admitted in
\* this period that will still report: Select keeps no probe it does not use.
ProbesHaveOwners ==
    \A p \in Provider : breaker[p].active <=
      Cardinality({c \in probes[p] : \/ pc[c] = "acquire" /\ Head(candidates[c]) = p
                                     \/ lease[c] = p})

\* No provider is shut out for good: again and again its breaker would admit a
\* call, however its calls end.
ProvidersReadmitted == \A p \in Provider : []<>Allows(breaker[p], 0)

------------------------------------------------------------------------------
(* Statements of the documentation, the comments or the tests that this code  *)
(* does not keep; README.md says how each one fails.                          *)

\* A half-open breaker never has more than HalfOpenProbes of the calls it
\* admitted in that period running at once.
ProbeLimit == \A p \in Provider : Cardinality(probes[p]) <= HalfOpenProbes
===============================================================================
