----------------------------- MODULE RouterProofs -----------------------------
(* Leases and half-open probes of module Router, for any number of calls and *)
(* providers: every slot taken is a lease, every probe has an owner.         *)
EXTENDS Router, FiniteSetTheorems, TLAPS

Leases(p) == {c \in Call : pc[c] \in {"count", "leased"} /\ lease[c] = p}
Counted(p) == {c \in Call : pc[c] \in {"leased", "freed"} /\ lease[c] = p}
Owner(c, p) == (pc[c] = "acquire" /\ Head(candidates[c]) = p) \/ lease[c] = p
Owners(p) == {c \in probes[p] : Owner(c, p)}

\* The value of a breaker is a record of its four fields.
Shape(b) == DOMAIN b = {"state", "failures", "openAge", "active"}

\* A breaker counts probes only while it is half-open.
BreakerInv(b) == /\ Shape(b) /\ b.active \in Nat
                 /\ b.state # "half_open" => b.active = 0

\* A call holds no lease while it selects.
CallInv == /\ DOMAIN pc = Call /\ DOMAIN lease = Call /\ DOMAIN candidates = Call
           /\ \A c \in Call : pc[c] \in {"idle", "filter", "allow", "acquire"} => lease[c] = None

PoolInv == /\ DOMAIN breaker = Provider /\ DOMAIN probes = Provider
           /\ DOMAIN semaphore = Provider /\ DOMAIN outstanding = Provider
           /\ \A p \in Provider : BreakerInv(breaker[p]) /\ probes[p] \subseteq Call

SlotInv(p) == /\ IsFiniteSet(Leases(p)) /\ semaphore[p] = Cardinality(Leases(p))
              /\ semaphore[p] <= MaxConcurrency[p]
CountInv(p) == IsFiniteSet(Counted(p)) /\ outstanding[p] = Cardinality(Counted(p))
ProbeInv(p) == IsFiniteSet(Owners(p)) /\ breaker[p].active <= Cardinality(Owners(p))

RouterInv == /\ CallInv /\ PoolInv
             /\ \A p \in Provider : SlotInv(p) /\ CountInv(p) /\ ProbeInv(p)

------------------------------------------------------------------------------
(* The breaker *)

\* Allow counts a probe exactly when it lets a call through half-open.
LEMMA AllowProbe ==
    ASSUME NEW b, BreakerInv(b), NEW l
    PROVE  /\ BreakerInv(Allow(b, l))
           /\ Allow(b, l).state = "half_open" =>
                \/ Allows(b, l) /\ b.state = "half_open" /\ Allow(b, l).active = b.active + 1
                \/ Allows(b, l) /\ b.state # "half_open" /\ Allow(b, l).active = 1
                \/ ~Allows(b, l) /\ b.state = "half_open" /\ Allow(b, l).active = b.active
<1>1. HalfOpenProbes \in Nat \ {0}
    BY BreakerAssumption, SMT
<1>2. CASE MayProbe(b, l)
    <2>1. /\ Shape(HalfOpened(b, l)) /\ HalfOpened(b, l).state = "half_open" /\ HalfOpened(b, l).active = 0
          /\ b.state # "half_open"
        BY <1>2, SMT DEF BreakerInv, Shape, HalfOpened, MayProbe
    <2>2. Shape(Allow(b, l)) /\ Allow(b, l).active = 1 /\ Allow(b, l).state = "half_open"
        BY <1>1, <2>1, SMT DEF Allow, Shape
    <2>3. Allows(b, l)
        BY <1>1, <2>1, SMT DEF Allows
    <2> QED BY <2>1, <2>2, <2>3, SMT DEF BreakerInv
<1>3. CASE ~MayProbe(b, l)
    <2>1. HalfOpened(b, l) = b
        BY <1>3, Zenon DEF HalfOpened
    <2>2. CASE b.state = "half_open" /\ b.active < HalfOpenProbes
        <3>1. /\ Shape(Allow(b, l)) /\ Allow(b, l).active = b.active + 1 /\ Allow(b, l).state = "half_open"
            BY <2>1, <2>2, SMT DEF Allow, Shape, BreakerInv
        <3>2. Allows(b, l)
            BY <2>1, <2>2, Zenon DEF Allows
        <3> QED BY <2>2, <3>1, <3>2, SMT DEF BreakerInv
    <2>3. CASE ~(b.state = "half_open" /\ b.active < HalfOpenProbes)
        <3>1. Allow(b, l) = b
            BY <2>1, <2>3, Zenon DEF Allow
        <3>2. b.state = "half_open" => ~Allows(b, l)
            BY <2>1, <2>3, SMT DEF Allows
        <3> QED BY <3>1, <3>2, Zenon
    <2> QED BY <2>2, <2>3, Zenon
<1> QED BY <1>2, <1>3, Zenon

\* Release gives back one probe of a half-open breaker, if it counts any.
LEMMA ReleaseProbe ==
    ASSUME NEW b, BreakerInv(b)
    PROVE  /\ BreakerInv(Release(b)) /\ Release(b).state = b.state
           /\ Release(b).active = IF b.state = "half_open" /\ b.active > 0 THEN b.active - 1 ELSE b.active
BY SMT DEF BreakerInv, Shape, Release

\* Success and Failure end the half-open period, and with it the count.
LEMMA OutcomeProbe ==
    ASSUME NEW b, BreakerInv(b)
    PROVE  /\ BreakerInv(Success(b)) /\ Success(b).state # "half_open"
           /\ BreakerInv(Failure(b)) /\ Failure(b).state # "half_open"
<1>1. BreakerInv(Success(b)) /\ Success(b).state # "half_open"
    BY SMT DEF BreakerInv, Shape, Success
<1>2. ASSUME NEW d, BreakerInv(d) PROVE BreakerInv(OpenedNow(d)) /\ OpenedNow(d).state # "half_open"
    BY <1>2, SMT DEF BreakerInv, Shape, OpenedNow
<1>3. ASSUME NEW f, b.state # "half_open"
      PROVE  /\ BreakerInv([b EXCEPT !.failures = f])
             /\ [b EXCEPT !.failures = f].state # "half_open"
    BY <1>3, SMT DEF BreakerInv, Shape
<1>4. CASE b.state = "half_open"
    BY <1>1, <1>2, <1>4, Zenon DEF Failure
<1>5. CASE b.state # "half_open"
    <2>1. PICK f : Failure(b) = OpenedNow([b EXCEPT !.failures = f]) \/ Failure(b) = [b EXCEPT !.failures = f]
        BY <1>5, Zenon DEF Failure
    <2>2. BreakerInv(Failure(b)) /\ Failure(b).state # "half_open"
        <3>1. BreakerInv([b EXCEPT !.failures = f]) /\ [b EXCEPT !.failures = f].state # "half_open"
            BY <1>3, <1>5, Zenon
        <3> QED BY <1>2, <2>1, <3>1, Zenon
    <2> QED BY <1>1, <2>2, Zenon
<1> QED BY <1>4, <1>5, Zenon

\* Time changes neither the state of a breaker nor its count.
LEMMA OlderProbe ==
    ASSUME NEW b, BreakerInv(b)
    PROVE  BreakerInv(Older(b)) /\ Older(b).state = b.state /\ Older(b).active = b.active
<1>1. Shape(Older(b)) /\ Older(b).state = b.state /\ Older(b).active = b.active
    BY SMT DEF BreakerInv, Shape, Older
<1> QED BY <1>1, Zenon DEF BreakerInv

------------------------------------------------------------------------------
(* Slots and probes *)

\* A new member adds one to the size of a set.
LEMMA CountUp ==
    ASSUME NEW S, IsFiniteSet(S), NEW x, x \notin S
    PROVE  IsFiniteSet(S \cup {x}) /\ Cardinality(S \cup {x}) = Cardinality(S) + 1
BY FS_AddElement, SMT

\* And one member less.
LEMMA CountDown ==
    ASSUME NEW S, IsFiniteSet(S), NEW x, x \in S
    PROVE  IsFiniteSet(S \ {x}) /\ Cardinality(S \ {x}) = Cardinality(S) - 1
BY FS_RemoveElement, SMT

\* A step of call c leaves the other calls where they are.
Moved(c) == /\ DOMAIN pc' = Call /\ DOMAIN lease' = Call /\ DOMAIN candidates' = Call
            /\ \A d \in Call \ {c} : pc'[d] = pc[d] /\ lease'[d] = lease[d] /\ candidates'[d] = candidates[d]

\* A call that holds neither a slot nor a probe.
Free(c) == pc[c] \in {"idle", "filter", "allow"} /\ lease[c] = None

\* A free call owns nothing, before a step or after it.
LEMMA FreeOwnsNothing ==
    ASSUME NEW c \in Call, NEW p \in Provider
    PROVE  /\ Free(c) => ~Owner(c, p) /\ c \notin Leases(p) /\ c \notin Counted(p)
           /\ Free(c)' => ~Owner(c, p)' /\ c \notin Leases(p)' /\ c \notin Counted(p)'
<1>1. None # p
    BY RouterAssumption, Zenon
<1>2. Free(c) => pc[c] # "acquire"
    BY SMT DEF Free
<1>3. Free(c)' => pc'[c] # "acquire"
    BY SMT DEF Free
<1> QED BY <1>1, <1>2, <1>3, Zenon DEF Owner, Leases, Counted, Free

\* GiveUp and TryNext leave a call that has no lease free.
LEMMA GoesOn ==
    ASSUME CallInv, NEW c \in Call, lease[c] = None, lease' = lease, TryNext(c) \/ GiveUp(c)
    PROVE  Moved(c) /\ Free(c)'
<1>1. CASE GiveUp(c)
    BY <1>1, SMT DEF GiveUp, CallInv, Moved, Free
<1>2. CASE ~GiveUp(c)
    BY <1>2, SMT DEF TryNext, CallInv, Moved, Free
<1> QED BY <1>1, <1>2, Zenon

\* The leases of a provider after a step that gives no call a slot, or takes it.
LEMMA SlotsKept ==
    ASSUME NEW c \in Call, Moved(c), NEW p \in Provider, SlotInv(p),
           semaphore'[p] = semaphore[p], c \in Leases(p) <=> c \in Leases(p)'
    PROVE  SlotInv(p)'
<1>1. Leases(p)' = Leases(p)
    BY Zenon DEF Leases, Moved
<1> QED BY <1>1, Zenon DEF SlotInv

\* The same for the outstanding counter.
LEMMA CountsKept ==
    ASSUME NEW c \in Call, Moved(c), NEW p \in Provider, CountInv(p),
           outstanding'[p] = outstanding[p], c \in Counted(p) <=> c \in Counted(p)'
    PROVE  CountInv(p)'
<1>1. Counted(p)' = Counted(p)
    BY Zenon DEF Counted, Moved
<1> QED BY <1>1, Zenon DEF CountInv

\* The counter goes up and down with the calls that are counted.
LEMMA CountChanges ==
    ASSUME NEW c \in Call, Moved(c), NEW p \in Provider, CountInv(p),
           \/ c \notin Counted(p) /\ c \in Counted(p)' /\ outstanding'[p] = outstanding[p] + 1
           \/ c \in Counted(p) /\ c \notin Counted(p)' /\ outstanding'[p] = outstanding[p] - 1
    PROVE  CountInv(p)'
<1>1. IsFiniteSet(Counted(p)) /\ outstanding[p] = Cardinality(Counted(p))
    BY Zenon DEF CountInv
<1>2. CASE c \notin Counted(p) /\ c \in Counted(p)' /\ outstanding'[p] = outstanding[p] + 1
    <2>1. Counted(p)' = Counted(p) \cup {c}
        BY <1>2, Zenon DEF Counted, Moved
    <2>2. IsFiniteSet(Counted(p) \cup {c}) /\ Cardinality(Counted(p) \cup {c}) = Cardinality(Counted(p)) + 1
        BY <1>1, <1>2, CountUp
    <2> QED BY <1>1, <1>2, <2>1, <2>2, Zenon DEF CountInv
<1>3. CASE c \in Counted(p) /\ c \notin Counted(p)' /\ outstanding'[p] = outstanding[p] - 1
    <2>1. Counted(p)' = Counted(p) \ {c}
        BY <1>3, Zenon DEF Counted, Moved
    <2>2. IsFiniteSet(Counted(p) \ {c}) /\ Cardinality(Counted(p) \ {c}) = Cardinality(Counted(p)) - 1
        BY <1>1, <1>3, CountDown
    <2> QED BY <1>1, <1>3, <2>1, <2>2, Zenon DEF CountInv
<1> QED BY <1>2, <1>3, Zenon

\* A lease on provider p takes one of the slots of p.
LEMMA SlotTaken ==
    ASSUME NEW c \in Call, Moved(c), NEW p \in Provider, SlotInv(p), c \notin Leases(p), c \in Leases(p)',
           semaphore[p] < MaxConcurrency[p],
           semaphore'[p] = semaphore[p] + 1
    PROVE  SlotInv(p)'
<1>1. Leases(p)' = Leases(p) \cup {c}
    BY Zenon DEF Leases, Moved
<1>2. IsFiniteSet(Leases(p)) /\ Cardinality(Leases(p)) \in Nat /\ semaphore[p] = Cardinality(Leases(p))
    BY FS_CardinalityType, Zenon DEF SlotInv
<1>3. IsFiniteSet(Leases(p) \cup {c}) /\ Cardinality(Leases(p) \cup {c}) = Cardinality(Leases(p)) + 1
    BY <1>2, CountUp
<1>4. MaxConcurrency[p] \in Nat
    BY RouterAssumption
<1>5. semaphore'[p] <= MaxConcurrency[p]
    BY <1>2, <1>4, SMT
<1> QED BY <1>1, <1>2, <1>3, <1>5, Zenon DEF SlotInv

\* The end of a lease frees the slot it took.
LEMMA SlotFreed ==
    ASSUME NEW c \in Call, Moved(c), NEW p \in Provider, SlotInv(p), c \in Leases(p), c \notin Leases(p)',
           semaphore'[p] = semaphore[p] - 1
    PROVE  SlotInv(p)'
<1>1. Leases(p)' = Leases(p) \ {c}
    BY Zenon DEF Leases, Moved
<1>2. /\ IsFiniteSet(Leases(p)) /\ Cardinality(Leases(p)) \in Nat /\ semaphore[p] = Cardinality(Leases(p))
      /\ semaphore[p] <= MaxConcurrency[p]
    BY FS_CardinalityType, Zenon DEF SlotInv
<1>3. IsFiniteSet(Leases(p) \ {c}) /\ Cardinality(Leases(p) \ {c}) = Cardinality(Leases(p)) - 1
    BY <1>2, CountDown
<1>4. MaxConcurrency[p] \in Nat
    BY RouterAssumption
<1>5. semaphore'[p] <= MaxConcurrency[p]
    BY <1>2, <1>4, SMT
<1> QED BY <1>1, <1>2, <1>3, <1>5, Zenon DEF SlotInv

\* The owners of a provider's probes after a step that neither adds nor ends a probe.
LEMMA ProbesKept ==
    ASSUME NEW c \in Call, Moved(c), PoolInv, NEW p \in Provider, ProbeInv(p),
           breaker'[p].active = breaker[p].active, probes'[p] = probes[p], Owner(c, p) <=> Owner(c, p)'
    PROVE  ProbeInv(p)'
<1>1. Owners(p)' = Owners(p)
    BY Zenon DEF Owners, Owner, Moved, PoolInv
<1> QED BY <1>1, Zenon DEF ProbeInv

\* The owners after call c returns its probe, or loses its place among the owners.
LEMMA ProbeReturned ==
    ASSUME NEW c \in Call, Moved(c), PoolInv, NEW p \in Provider, ProbeInv(p),
           breaker'[p] = Release(breaker[p]), probes'[p] = probes[p] \ {c}
    PROVE  ProbeInv(p)'
<1>1. Owners(p)' = Owners(p) \ {c}
    BY Zenon DEF Owners, Owner, Moved, PoolInv
<1>2. BreakerInv(breaker[p])
    BY Zenon DEF PoolInv
<1>3. IsFiniteSet(Owners(p)) /\ Cardinality(Owners(p)) \in Nat /\ breaker[p].active <= Cardinality(Owners(p))
    BY FS_CardinalityType, Zenon DEF ProbeInv
<1>4. CASE c \in Owners(p)
    <2>1. IsFiniteSet(Owners(p) \ {c}) /\ Cardinality(Owners(p) \ {c}) = Cardinality(Owners(p)) - 1
        BY <1>3, <1>4, CountDown
    <2>2. Cardinality(Owners(p)) # 0
        BY <1>3, <1>4, FS_EmptySet
    <2>3. breaker'[p].active <= Cardinality(Owners(p)) - 1
        BY <1>2, <1>3, <2>2, ReleaseProbe, SMT DEF BreakerInv
    <2> QED BY <1>1, <2>1, <2>3, Zenon DEF ProbeInv
<1>5. CASE c \notin Owners(p)
    <2>1. Owners(p)' = Owners(p)
        BY <1>1, <1>5, Zenon
    <2>2. breaker'[p].active <= Cardinality(Owners(p))
        BY <1>2, <1>3, ReleaseProbe, SMT DEF BreakerInv
    <2> QED BY <1>3, <2>1, <2>2, Zenon DEF ProbeInv
<1> QED BY <1>4, <1>5, Zenon

\* No probes are counted, so none needs an owner.
LEMMA ProbesCleared ==
    ASSUME NEW p \in Provider, BreakerInv(breaker[p])', breaker'[p].state # "half_open", probes'[p] = {}
    PROVE  ProbeInv(p)'
<1>1. Owners(p)' = {} /\ breaker'[p].active = 0
    BY Zenon DEF Owners, BreakerInv
<1>2. IsFiniteSet({}) /\ Cardinality({}) = 0
    BY FS_EmptySet, Zenon
<1>3. 0 <= 0
    BY SMT
<1> QED BY <1>1, <1>2, <1>3, Zenon DEF ProbeInv

\* A probe that Allow counts in a half-open period belongs to the call it admitted.
LEMMA ProbeAdded ==
    ASSUME NEW c \in Call, Moved(c), PoolInv, NEW p \in Provider, ProbeInv(p), ~Owner(c, p), Owner(c, p)',
           breaker'[p].active = breaker[p].active + 1, probes'[p] = probes[p] \cup {c}
    PROVE  ProbeInv(p)'
<1>1. Owners(p)' = Owners(p) \cup {c} /\ c \notin Owners(p)
    <2>1. \A d \in probes[p] \ {c} : Owner(d, p)' <=> Owner(d, p)
        BY Zenon DEF Owner, Moved, PoolInv
    <2> QED BY <2>1, Zenon DEF Owners
<1>2. /\ IsFiniteSet(Owners(p)) /\ Cardinality(Owners(p)) \in Nat
      /\ breaker[p].active <= Cardinality(Owners(p)) /\ breaker[p].active \in Nat
    BY FS_CardinalityType, Zenon DEF ProbeInv, PoolInv, BreakerInv
<1>3. IsFiniteSet(Owners(p) \cup {c}) /\ Cardinality(Owners(p) \cup {c}) = Cardinality(Owners(p)) + 1
    BY <1>1, <1>2, CountUp
<1>4. breaker'[p].active <= Cardinality(Owners(p)) + 1
    BY <1>2, SMT
<1> QED BY <1>1, <1>3, <1>4, Zenon DEF ProbeInv

\* And so does the probe with which Allow begins the period.
LEMMA ProbeFirst ==
    ASSUME NEW c \in Call, NEW p \in Provider, Owner(c, p)', breaker'[p].active = 1, probes'[p] = {c}
    PROVE  ProbeInv(p)'
<1>1. Owners(p)' = {c}
    BY Zenon DEF Owners
<1>2. IsFiniteSet({c}) /\ Cardinality({c}) = 1
    BY FS_Singleton, Zenon
<1>3. 1 <= 1
    BY SMT
<1> QED BY <1>1, <1>2, <1>3, Zenon DEF ProbeInv

------------------------------------------------------------------------------
(* Steps *)

\* What a step of call c must leave true.
LEMMA CallStepInv ==
    ASSUME CallInv, NEW c \in Call, Moved(c), lease'[c] = None \/ pc'[c] \notin {"idle", "filter", "allow", "acquire"}
    PROVE  CallInv'
BY Zenon DEF CallInv, Moved

\* Select before it asks a breaker touches no provider.
LEMMA SelectingStep ==
    ASSUME RouterInv, NEW c \in Call, Begin(c) \/ Filter(c) \/ Arrange(c)
    PROVE  RouterInv'
<1>0. CallInv /\ PoolInv
    BY Zenon DEF RouterInv
<1>1. Free(c) /\ lease[c] = None
    <2>1. pc[c] = "idle" \/ pc[c] = "filter"
        BY Zenon DEF Begin, Filter, Arrange
    <2> QED BY <1>0, <2>1, Zenon DEF CallInv, Free
<1>2. UNCHANGED <<breaker, semaphore, outstanding, probes, lease>>
    BY Zenon DEF Begin, Filter, Arrange, poolVars
<1>3. Moved(c) /\ Free(c)'
    <2>1. CASE Begin(c)
        BY <1>0, <1>1, <1>2, <2>1, SMT DEF Begin, CallInv, Moved, Free
    <2>2. CASE Filter(c)
        BY <1>0, <1>1, <1>2, <2>2, SMT DEF Filter, CallInv, Moved, Free
    <2>3. CASE Arrange(c) /\ GiveUp(c)
        BY <1>0, <1>1, <1>2, <2>3, GoesOn, Zenon
    <2>4. CASE Arrange(c) /\ ~GiveUp(c)
        <3>1. pc' = [pc EXCEPT ![c] = "allow"] /\ \E s : candidates' = [candidates EXCEPT ![c] = s]
            BY <2>4, Zenon DEF Arrange
        <3> QED BY <1>0, <1>1, <1>2, <3>1, SMT DEF CallInv, Moved, Free
    <2> QED BY <2>1, <2>2, <2>3, <2>4, Zenon
<1>4. CallInv' /\ PoolInv'
    BY <1>0, <1>2, <1>3, CallStepInv, Zenon DEF PoolInv, Free
<1>5. ASSUME NEW p \in Provider PROVE SlotInv(p)' /\ CountInv(p)' /\ ProbeInv(p)'
    <2>1. ~Owner(c, p) /\ c \notin Leases(p) /\ c \notin Counted(p)
        BY <1>1, FreeOwnsNothing, Zenon
    <2>2. ~Owner(c, p)' /\ c \notin Leases(p)' /\ c \notin Counted(p)'
        BY <1>3, FreeOwnsNothing, Zenon
    <2>3. SlotInv(p) /\ CountInv(p) /\ ProbeInv(p)
        BY Zenon DEF RouterInv
    <2> QED BY <1>0, <1>2, <1>3, <2>1, <2>2, <2>3, SlotsKept, CountsKept, ProbesKept, Zenon
<1> QED BY <1>4, <1>5, Zenon DEF RouterInv

\* Allow of the next candidate's breaker: the probe it counts is the call's own.
LEMMA AskBreakerStep == ASSUME RouterInv, NEW c \in Call, AskBreaker(c) PROVE RouterInv'
<1>0. CallInv /\ PoolInv
    BY Zenon DEF RouterInv
<1>1. Free(c) /\ lease[c] = None /\ pc[c] = "allow"
    BY <1>0, Zenon DEF CallInv, Free, AskBreaker
<1>2. UNCHANGED <<semaphore, outstanding, lease>>
    BY Zenon DEF AskBreaker
<1>3. PICK p : p = Head(candidates[c])
    OBVIOUS
<1>4. PICK b : b = Allow(breaker[p], lag[c])
    OBVIOUS
<1>5. PICK allowed : allowed = Allows(breaker[p], lag[c])
    OBVIOUS
<1>6. /\ breaker' = [breaker EXCEPT ![p] = b]
      /\ probes' = [probes EXCEPT ![p] =
           IF b.state # "half_open" THEN {}
             ELSE (IF breaker[p].state = "half_open" THEN @ ELSE {}) \cup (IF allowed THEN {c} ELSE {})]
    BY <1>3, <1>4, <1>5, Zenon DEF AskBreaker
<1>7. /\ Moved(c) /\ lease'[c] = None
      /\ IF allowed THEN pc'[c] = "acquire" /\ Head(candidates'[c]) = p ELSE Free(c)'
    <2>1. CASE allowed
        <3>1. pc' = [pc EXCEPT ![c] = "acquire"] /\ candidates' = candidates
            BY <1>3, <1>5, <2>1, Zenon DEF AskBreaker
        <3> QED BY <1>0, <1>1, <1>2, <1>3, <2>1, <3>1, SMT DEF CallInv, Moved
    <2>2. CASE ~allowed
        <3>1. TryNext(c)
            BY <1>3, <1>5, <2>2, Zenon DEF AskBreaker
        <3>2. Moved(c) /\ Free(c)'
            BY <1>0, <1>1, <1>2, <3>1, GoesOn, Zenon
        <3>3. lease'[c] = None
            BY <3>2, Zenon DEF Free
        <3> QED BY <2>2, <3>2, <3>3, Zenon
    <2> QED BY <2>1, <2>2, Zenon
<1>8. CallInv'
    BY <1>0, <1>7, CallStepInv, Zenon
<1>9. ASSUME NEW q \in Provider
      PROVE  /\ ProbeInv(q) /\ SlotInv(q)' /\ CountInv(q)' /\ BreakerInv(breaker[q])
             /\ ~Owner(c, q) /\ (q # p \/ ~allowed => ~Owner(c, q)')
    <2>1. SlotInv(q) /\ CountInv(q) /\ ProbeInv(q) /\ BreakerInv(breaker[q])
        BY <1>0, Zenon DEF RouterInv, PoolInv
    <2>2. None # q
        BY RouterAssumption, Zenon
    <2>3. /\ ~Owner(c, q) /\ c \notin Leases(q) /\ c \notin Leases(q)'
          /\ c \notin Counted(q) /\ c \notin Counted(q)'
        BY <1>1, <1>7, <2>2, FreeOwnsNothing, Zenon DEF Leases, Counted
    <2>4. SlotInv(q)' /\ CountInv(q)'
        BY <1>2, <1>7, <2>1, <2>3, SlotsKept, CountsKept, Zenon
    <2>5. q # p \/ ~allowed => ~Owner(c, q)'
        BY <1>7, <2>2, FreeOwnsNothing, Zenon DEF Owner
    <2> QED BY <2>1, <2>3, <2>4, <2>5, Zenon
<1>10. ASSUME NEW q \in Provider, q # p
       PROVE  ProbeInv(q)' /\ BreakerInv(breaker'[q]) /\ probes'[q] \subseteq Call
    <2>1. breaker'[q] = breaker[q] /\ probes'[q] = probes[q]
        BY <1>0, <1>6, <1>10, SMT DEF PoolInv
    <2> QED BY <1>0, <1>7, <1>9, <1>10, <2>1, ProbesKept, Zenon DEF PoolInv
<1>11. ASSUME p \in Provider
       PROVE  ProbeInv(p)' /\ BreakerInv(breaker'[p]) /\ probes'[p] \subseteq Call
    <2>1. /\ breaker'[p] = b
          /\ probes'[p] = IF b.state # "half_open" THEN {}
               ELSE (IF breaker[p].state = "half_open" THEN probes[p] ELSE {}) \cup (IF allowed THEN {c} ELSE {})
        BY <1>0, <1>6, <1>11, SMT DEF PoolInv
    <2>2. probes[p] \subseteq Call
        BY <1>0, <1>11, Zenon DEF PoolInv
    <2>3. /\ BreakerInv(b)
          /\ b.state = "half_open" =>
               \/ allowed /\ breaker[p].state = "half_open" /\ b.active = breaker[p].active + 1
               \/ allowed /\ breaker[p].state # "half_open" /\ b.active = 1
               \/ ~allowed /\ breaker[p].state = "half_open" /\ b.active = breaker[p].active
        BY <1>4, <1>5, <1>9, <1>11, AllowProbe, Zenon
    <2>4. BreakerInv(breaker'[p]) /\ probes'[p] \subseteq Call
        BY <2>1, <2>2, <2>3, Zenon
    <2>5. allowed => Owner(c, p)'
        BY <1>7, Zenon DEF Owner
    <2>6. CASE b.state # "half_open"
        BY <1>11, <2>1, <2>4, <2>6, ProbesCleared, Zenon
    <2>7. CASE b.state = "half_open" /\ allowed /\ breaker[p].state = "half_open"
        <3>1. probes'[p] = probes[p] \cup {c} /\ breaker'[p].active = breaker[p].active + 1
            BY <2>1, <2>3, <2>7, Zenon
        <3> QED BY <1>0, <1>7, <1>9, <1>11, <2>4, <2>5, <2>7, <3>1, ProbeAdded, Zenon
    <2>8. CASE b.state = "half_open" /\ allowed /\ breaker[p].state # "half_open"
        <3>1. probes'[p] = {c} /\ breaker'[p].active = 1
            BY <2>1, <2>3, <2>8, Zenon
        <3> QED BY <1>11, <2>4, <2>5, <2>8, <3>1, ProbeFirst, Zenon
    <2>9. CASE b.state = "half_open" /\ ~allowed
        <3>1. probes'[p] = probes[p] /\ breaker'[p].active = breaker[p].active
            BY <2>1, <2>3, <2>9, Zenon
        <3> QED BY <1>0, <1>7, <1>9, <1>11, <2>4, <2>9, <3>1, ProbesKept, Zenon
    <2> QED BY <2>6, <2>7, <2>8, <2>9, Zenon
<1>12. PoolInv'
    <2>1. DOMAIN breaker' = Provider /\ DOMAIN probes' = Provider
        BY <1>0, <1>6, SMT DEF PoolInv
    <2> QED BY <1>0, <1>2, <1>10, <1>11, <2>1, Zenon DEF PoolInv
<1> QED BY <1>8, <1>9, <1>10, <1>11, <1>12, Zenon DEF RouterInv

\* A free slot becomes the call's lease, which takes its probe along.
LEMMA LeaseStep ==
    ASSUME RouterInv, NEW c \in Call, Acquire(c),
           semaphore[Head(candidates[c])] < MaxConcurrency[Head(candidates[c])]
    PROVE  RouterInv'
<1>0. CallInv /\ PoolInv
    BY Zenon DEF RouterInv
<1>1. pc[c] = "acquire" /\ lease[c] = None
    BY <1>0, Zenon DEF CallInv, Acquire
<1>2. PICK p : p = Head(candidates[c])
    OBVIOUS
<1>3. /\ semaphore' = [semaphore EXCEPT ![p] = @ + 1] /\ outstanding' = outstanding
      /\ lease' = [lease EXCEPT ![c] = p] /\ pc' = [pc EXCEPT ![c] = "count"]
      /\ candidates' = [candidates EXCEPT ![c] = <<>>] /\ breaker' = breaker /\ probes' = probes
      /\ semaphore[p] < MaxConcurrency[p]
    BY <1>2, Zenon DEF Acquire
<1>4. Moved(c) /\ pc'[c] = "count" /\ lease'[c] = p
    BY <1>0, <1>3, SMT DEF CallInv, Moved
<1>5. CallInv'
    <2>1. pc'[c] \notin {"idle", "filter", "allow", "acquire"}
        BY <1>4, SMT
    <2> QED BY <1>0, <1>4, <2>1, CallStepInv, Zenon
<1>6. PoolInv'
    <2>1. DOMAIN semaphore' = Provider
        BY <1>0, <1>3, SMT DEF PoolInv
    <2> QED BY <1>0, <1>3, <2>1, Zenon DEF PoolInv
<1>7. ASSUME NEW q \in Provider PROVE SlotInv(q)' /\ CountInv(q)' /\ ProbeInv(q)'
    <2>1. SlotInv(q) /\ CountInv(q) /\ ProbeInv(q)
        BY Zenon DEF RouterInv
    <2>2. None # q /\ "acquire" # "count" /\ "count" \notin {"leased", "freed"}
        BY RouterAssumption, SMT
    <2>3. (Owner(c, q) <=> q = p) /\ (Owner(c, q)' <=> q = p)
        BY <1>1, <1>2, <1>4, <2>2, Zenon DEF Owner
    <2>4. /\ c \notin Leases(q) /\ (c \in Leases(q)' <=> q = p)
          /\ c \notin Counted(q) /\ c \notin Counted(q)'
        BY <1>1, <1>4, <2>2, Zenon DEF Leases, Counted
    <2>5. ProbeInv(q)'
        BY <1>0, <1>3, <1>4, <2>1, <2>3, ProbesKept, Zenon
    <2>6. CountInv(q)'
        BY <1>3, <1>4, <2>1, <2>4, CountsKept, Zenon
    <2>7. CASE q = p
        <3>1. semaphore'[q] = semaphore[q] + 1
            BY <1>0, <1>3, <2>7, SMT DEF PoolInv
        <3> QED BY <1>3, <1>4, <2>1, <2>4, <2>5, <2>6, <2>7, <3>1, SlotTaken, Zenon
    <2>8. CASE q # p
        <3>1. semaphore'[q] = semaphore[q]
            BY <1>0, <1>3, <2>8, SMT DEF PoolInv
        <3> QED BY <1>4, <2>1, <2>4, <2>5, <2>6, <2>8, <3>1, SlotsKept, Zenon
    <2> QED BY <2>7, <2>8, Zenon
<1> QED BY <1>5, <1>6, <1>7, Zenon DEF RouterInv

\* What a step that ends call c's claim on provider p, with or without a verdict for
\* the breaker of p, must do to keep the invariant.
LEMMA ClaimEnds ==
    ASSUME RouterInv, NEW c \in Call, Moved(c), Free(c)', pc[c] \notin {"count", "leased", "freed"}, NEW p, NEW b, NEW S,
           \A q \in Provider \ {p} : ~Owner(c, q),
           UNCHANGED <<semaphore, outstanding>>,
           breaker' = [breaker EXCEPT ![p] = b],
           probes' = [probes EXCEPT ![p] = S],
           p \in Provider => \/ S = probes[p] \ {c} /\ b = Release(breaker[p])
                             \/ S = {} /\ b.state # "half_open" /\ BreakerInv(b)
    PROVE  RouterInv'
<1>0. CallInv /\ PoolInv
    BY Zenon DEF RouterInv
<1>1. CallInv'
    BY <1>0, CallStepInv, Zenon DEF Free
<1>2. ASSUME NEW q \in Provider
      PROVE  ProbeInv(q) /\ SlotInv(q)' /\ CountInv(q)' /\ BreakerInv(breaker[q]) /\ ~Owner(c, q)'
    <2>1. SlotInv(q) /\ CountInv(q) /\ ProbeInv(q) /\ BreakerInv(breaker[q])
        BY <1>0, Zenon DEF RouterInv, PoolInv
    <2>2. ~Owner(c, q)' /\ c \notin Leases(q)' /\ c \notin Counted(q)'
        BY FreeOwnsNothing, Zenon
    <2>3. c \notin Leases(q) /\ c \notin Counted(q)
        BY Zenon DEF Leases, Counted
    <2> QED BY <2>1, <2>2, <2>3, SlotsKept, CountsKept, Zenon
<1>3. ASSUME NEW q \in Provider, q # p
      PROVE  ProbeInv(q)' /\ BreakerInv(breaker'[q]) /\ probes'[q] \subseteq Call
    <2>1. breaker'[q] = breaker[q] /\ probes'[q] = probes[q]
        BY <1>0, <1>3, SMT DEF PoolInv
    <2>2. ~Owner(c, q)
        BY <1>3, Zenon
    <2> QED BY <1>0, <1>2, <1>3, <2>1, <2>2, ProbesKept, Zenon DEF PoolInv
<1>4. ASSUME p \in Provider
      PROVE  ProbeInv(p)' /\ BreakerInv(breaker'[p]) /\ probes'[p] \subseteq Call
    <2>1. breaker'[p] = b /\ probes'[p] = S
        BY <1>0, <1>4, SMT DEF PoolInv
    <2>2. probes'[p] \subseteq Call /\ BreakerInv(b)
        BY <1>0, <1>2, <1>4, <2>1, ReleaseProbe, Zenon DEF PoolInv
    <2>3. CASE S = {} /\ b.state # "half_open" /\ BreakerInv(b)
        BY <1>4, <2>1, <2>2, <2>3, ProbesCleared, Zenon
    <2>4. CASE S = probes[p] \ {c} /\ b = Release(breaker[p])
        BY <1>0, <1>2, <1>4, <2>1, <2>2, <2>4, ProbeReturned, Zenon
    <2> QED BY <1>4, <2>3, <2>4, Zenon
<1>5. PoolInv'
    <2>1. DOMAIN breaker' = Provider /\ DOMAIN probes' = Provider
        BY <1>0, SMT DEF PoolInv
    <2> QED BY <1>0, <1>3, <1>4, <2>1, Zenon DEF PoolInv
<1> QED BY <1>1, <1>2, <1>3, <1>4, <1>5, Zenon DEF RouterInv

\* A full semaphore: the probe is given back before the next candidate.
LEMMA FullStep ==
    ASSUME RouterInv, NEW c \in Call, Acquire(c),
           ~(semaphore[Head(candidates[c])] < MaxConcurrency[Head(candidates[c])])
    PROVE  RouterInv'
<1>0. CallInv /\ PoolInv
    BY Zenon DEF RouterInv
<1>1. pc[c] = "acquire" /\ lease[c] = None
    BY <1>0, Zenon DEF CallInv, Acquire
<1>2. PICK p : p = Head(candidates[c])
    OBVIOUS
<1>3. PICK b : b = Release(breaker[p])
    OBVIOUS
<1>4. PICK S : S = probes[p] \ {c}
    BY Zenon
<1>5. /\ TryNext(c) /\ breaker' = [breaker EXCEPT ![p] = b] /\ probes' = [probes EXCEPT ![p] = S]
      /\ UNCHANGED <<semaphore, outstanding>> /\ lease' = lease
    BY <1>2, <1>3, <1>4, Zenon DEF Acquire
<1>6. Moved(c) /\ Free(c)'
    BY <1>0, <1>1, <1>5, GoesOn, Zenon
<1>7. \A q \in Provider \ {p} : ~Owner(c, q)
    <2>1. \A q \in Provider : None # q
        BY RouterAssumption, Zenon
    <2> QED BY <1>1, <1>2, <2>1, Zenon DEF Owner
<1>8. pc[c] \notin {"count", "leased", "freed"}
    BY <1>1, SMT
<1> QED BY <1>3, <1>4, <1>5, <1>6, <1>7, <1>8, ClaimEnds, Zenon

\* A report to the breaker: a verdict ends the half-open period, without one the
\* probe is given back.
LEMMA ReportStep == ASSUME RouterInv, NEW c \in Call, Report(c) PROVE RouterInv'
<1>0. CallInv /\ PoolInv
    BY Zenon DEF RouterInv
<1>1. /\ pc[c] \in {"success", "fault", "no_fault"} /\ pc[c] # "acquire"
      /\ pc[c] \notin {"count", "leased", "freed"}
      /\ "success" # "fault" /\ "success" # "no_fault" /\ "fault" # "no_fault"
    <2>1. pc[c] \in {"success", "fault", "no_fault"}
        BY Zenon DEF Report
    <2> QED BY <2>1, SMT
<1>2. PICK p : p = lease[c]
    OBVIOUS
<1>3. PICK b : b = CASE pc[c] = "success" -> Success(breaker[p])
                     [] pc[c] = "fault" -> Failure(breaker[p])
                     [] pc[c] = "no_fault" -> Release(breaker[p])
    OBVIOUS
<1>4. PICK S : S = IF b.state = "half_open" THEN probes[p] \ {c} ELSE {}
    BY Zenon
<1>5. /\ breaker' = [breaker EXCEPT ![p] = b] /\ probes' = [probes EXCEPT ![p] = S]
      /\ pc' = [pc EXCEPT ![c] = "idle"] /\ lease' = [lease EXCEPT ![c] = None]
      /\ UNCHANGED <<semaphore, outstanding>> /\ candidates' = candidates
    BY <1>2, <1>3, <1>4, Zenon DEF Report
<1>6. Moved(c) /\ Free(c)'
    BY <1>0, <1>5, SMT DEF CallInv, Moved, Free
<1>7. \A q \in Provider \ {p} : ~Owner(c, q)
    BY <1>1, <1>2, Zenon DEF Owner
<1>8. ASSUME p \in Provider
      PROVE  \/ S = probes[p] \ {c} /\ b = Release(breaker[p])
             \/ S = {} /\ b.state # "half_open" /\ BreakerInv(b)
    <2>1. BreakerInv(breaker[p])
        BY <1>0, <1>8, Zenon DEF PoolInv
    <2>2. CASE pc[c] = "success"
        <3>1. b = Success(breaker[p])
            BY <1>1, <1>3, <2>2, Zenon
        <3> QED BY <1>4, <2>1, <3>1, OutcomeProbe, Zenon
    <2>3. CASE pc[c] = "fault"
        <3>1. b = Failure(breaker[p])
            BY <1>1, <1>3, <2>3, Zenon
        <3> QED BY <1>4, <2>1, <3>1, OutcomeProbe, Zenon
    <2>4. CASE pc[c] = "no_fault"
        <3>1. b = Release(breaker[p])
            BY <1>1, <1>3, <2>4, Zenon
        <3> QED BY <1>4, <2>1, <3>1, ReleaseProbe, Zenon
    <2> QED BY <1>1, <2>2, <2>3, <2>4, Zenon
<1> QED BY <1>1, <1>5, <1>6, <1>7, <1>8, ClaimEnds, Zenon

\* What a step of a call that keeps its lease must do to keep the invariant: the slots
\* and counts of other providers stay, and so do its probe and its claim on it.
LEMMA LeaseKept ==
    ASSUME RouterInv, NEW c \in Call, NEW to,
           to \notin {"idle", "filter", "allow", "acquire"}, pc[c] # "acquire", pc' = [pc EXCEPT ![c] = to],
           UNCHANGED <<breaker, probes, candidates, lease>>,
           DOMAIN semaphore' = Provider, DOMAIN outstanding' = Provider,
           \A q \in Provider : SlotInv(q)' /\ CountInv(q)'
    PROVE  RouterInv'
<1>0. CallInv /\ PoolInv
    BY Zenon DEF RouterInv
<1>1. Moved(c) /\ pc'[c] = to
    BY <1>0, SMT DEF CallInv, Moved
<1>2. pc'[c] # "acquire"
    BY <1>1, SMT
<1>3. CallInv' /\ PoolInv'
    BY <1>0, <1>1, CallStepInv, Zenon DEF PoolInv
<1>4. ASSUME NEW q \in Provider PROVE ProbeInv(q)'
    <2>1. Owner(c, q) <=> Owner(c, q)'
        BY <1>2, Zenon DEF Owner
    <2>2. ProbeInv(q)
        BY Zenon DEF RouterInv
    <2> QED BY <1>0, <1>1, <2>1, <2>2, ProbesKept, Zenon
<1> QED BY <1>3, <1>4, Zenon DEF RouterInv

\* A lease is counted once it has its slot.
LEMMA CountStep == ASSUME RouterInv, NEW c \in Call, Count(c) PROVE RouterInv'
<1>0. CallInv /\ PoolInv
    BY Zenon DEF RouterInv
<1>1. PICK p : p = lease[c]
    OBVIOUS
<1>2. /\ pc[c] = "count" /\ pc' = [pc EXCEPT ![c] = "leased"]
      /\ outstanding' = [outstanding EXCEPT ![p] = @ + 1]
      /\ UNCHANGED <<breaker, semaphore, probes, candidates, lease>>
    BY <1>1, Zenon DEF Count
<1>3. /\ "leased" \notin {"idle", "filter", "allow", "acquire"} /\ "count" # "acquire"
      /\ "count" \notin {"leased", "freed"}
    BY SMT
<1>4. Moved(c) /\ pc'[c] = "leased"
    BY <1>0, <1>2, SMT DEF CallInv, Moved
<1>5. DOMAIN semaphore' = Provider /\ DOMAIN outstanding' = Provider
    BY <1>0, <1>2, SMT DEF PoolInv
<1>6. ASSUME NEW q \in Provider PROVE SlotInv(q)' /\ CountInv(q)'
    <2>1. SlotInv(q) /\ CountInv(q)
        BY Zenon DEF RouterInv
    <2>2. (c \in Leases(q) <=> c \in Leases(q)') /\ c \notin Counted(q) /\ (c \in Counted(q)' <=> q = p)
        BY <1>1, <1>2, <1>3, <1>4, Zenon DEF Leases, Counted
    <2>3. SlotInv(q)'
        BY <1>2, <1>4, <2>1, <2>2, SlotsKept, Zenon
    <2>4. outstanding'[q] = IF q = p THEN outstanding[q] + 1 ELSE outstanding[q]
        BY <1>0, <1>2, SMT DEF PoolInv
    <2> QED BY <1>4, <2>1, <2>2, <2>3, <2>4, CountsKept, CountChanges, Zenon
<1> QED BY <1>2, <1>3, <1>5, <1>6, LeaseKept, Zenon

\* The end of a lease: its slot is free, its count and its probe are still owned.
LEMMA ReleaseSlotStep == ASSUME RouterInv, NEW c \in Call, ReleaseSlot(c) PROVE RouterInv'
<1>0. CallInv /\ PoolInv
    BY Zenon DEF RouterInv
<1>1. PICK p : p = lease[c]
    OBVIOUS
<1>2. /\ pc[c] = "leased" /\ pc' = [pc EXCEPT ![c] = "freed"]
      /\ semaphore' = [semaphore EXCEPT ![p] = @ - 1]
      /\ UNCHANGED <<breaker, outstanding, probes, candidates, lease>>
    BY <1>1, Zenon DEF ReleaseSlot
<1>3. /\ "freed" \notin {"idle", "filter", "allow", "acquire"} /\ "leased" # "acquire"
      /\ "freed" \notin {"count", "leased"}
    BY SMT
<1>4. Moved(c) /\ pc'[c] = "freed"
    BY <1>0, <1>2, SMT DEF CallInv, Moved
<1>5. DOMAIN semaphore' = Provider /\ DOMAIN outstanding' = Provider
    BY <1>0, <1>2, SMT DEF PoolInv
<1>6. ASSUME NEW q \in Provider PROVE SlotInv(q)' /\ CountInv(q)'
    <2>1. SlotInv(q) /\ CountInv(q)
        BY Zenon DEF RouterInv
    <2>2. (c \in Leases(q) <=> q = p) /\ c \notin Leases(q)' /\ (c \in Counted(q) <=> c \in Counted(q)')
        BY <1>1, <1>2, <1>3, <1>4, Zenon DEF Leases, Counted
    <2>3. CountInv(q)'
        BY <1>2, <1>4, <2>1, <2>2, CountsKept, Zenon
    <2>4. semaphore'[q] = IF q = p THEN semaphore[q] - 1 ELSE semaphore[q]
        BY <1>0, <1>2, SMT DEF PoolInv
    <2> QED BY <1>4, <2>1, <2>2, <2>3, <2>4, SlotsKept, SlotFreed, Zenon
<1> QED BY <1>2, <1>3, <1>5, <1>6, LeaseKept, Zenon

\* The count goes down before the report; the probe is owned until then.
LEMMA UncountStep ==
    ASSUME RouterInv, NEW c \in Call, NEW outcome \in {"success", "fault", "no_fault"}, Uncount(c, outcome)
    PROVE  RouterInv'
<1>0. CallInv /\ PoolInv
    BY Zenon DEF RouterInv
<1>1. PICK p : p = lease[c]
    OBVIOUS
<1>2. /\ pc[c] = "freed" /\ pc' = [pc EXCEPT ![c] = outcome]
      /\ outstanding' = [outstanding EXCEPT ![p] = @ - 1]
      /\ UNCHANGED <<breaker, semaphore, probes, candidates, lease>>
    BY <1>1, Zenon DEF Uncount
<1>3. /\ outcome \notin {"idle", "filter", "allow", "acquire"} /\ "freed" # "acquire"
      /\ outcome \notin {"count", "leased"} /\ outcome \notin {"leased", "freed"}
      /\ "freed" \notin {"count", "leased"}
    BY SMT
<1>4. Moved(c) /\ pc'[c] = outcome
    BY <1>0, <1>2, SMT DEF CallInv, Moved
<1>5. DOMAIN semaphore' = Provider /\ DOMAIN outstanding' = Provider
    BY <1>0, <1>2, SMT DEF PoolInv
<1>6. ASSUME NEW q \in Provider PROVE SlotInv(q)' /\ CountInv(q)'
    <2>1. SlotInv(q) /\ CountInv(q)
        BY Zenon DEF RouterInv
    <2>2. /\ c \notin Leases(q) /\ c \notin Leases(q)'
          /\ (c \in Counted(q) <=> q = p) /\ c \notin Counted(q)'
        BY <1>1, <1>2, <1>3, <1>4, Zenon DEF Leases, Counted
    <2>3. SlotInv(q)'
        BY <1>2, <1>4, <2>1, <2>2, SlotsKept, Zenon
    <2>4. outstanding'[q] = IF q = p THEN outstanding[q] - 1 ELSE outstanding[q]
        BY <1>0, <1>2, SMT DEF PoolInv
    <2> QED BY <1>4, <2>1, <2>2, <2>3, <2>4, CountsKept, CountChanges, Zenon
<1> QED BY <1>2, <1>3, <1>5, <1>6, LeaseKept, Zenon

\* Time changes no lease and no probe.
LEMMA TickStep == ASSUME RouterInv, Tick PROVE RouterInv'
<1>1. UNCHANGED <<semaphore, outstanding, probes, pc, candidates, lease>>
    BY Zenon DEF Tick
<1>2. CallInv'
    BY <1>1, Zenon DEF RouterInv, CallInv
<1>3. DOMAIN breaker' = Provider /\ \A p \in Provider : breaker'[p] = Older(breaker[p])
    BY Zenon DEF Tick
<1>4. ASSUME NEW p \in Provider
      PROVE  BreakerInv(breaker'[p]) /\ breaker'[p].active = breaker[p].active
    <2>1. BreakerInv(breaker[p])
        BY Zenon DEF RouterInv, PoolInv
    <2> QED BY <1>3, <2>1, OlderProbe, Zenon
<1>5. PoolInv'
    BY <1>1, <1>3, <1>4, Zenon DEF RouterInv, PoolInv
<1>6. ASSUME NEW p \in Provider PROVE SlotInv(p)' /\ CountInv(p)' /\ ProbeInv(p)'
    <2>1. Leases(p)' = Leases(p) /\ Counted(p)' = Counted(p) /\ Owners(p)' = Owners(p)
        BY <1>1, Zenon DEF Leases, Counted, Owners, Owner
    <2>2. SlotInv(p) /\ CountInv(p) /\ ProbeInv(p)
        BY Zenon DEF RouterInv
    <2> QED BY <1>1, <1>4, <2>1, <2>2, Zenon DEF SlotInv, CountInv, ProbeInv
<1> QED BY <1>2, <1>5, <1>6, Zenon DEF RouterInv

\* A new router has leased nothing and its breakers are closed.
LEMMA RouterInit == ASSUME Init PROVE RouterInv
<1>1. CallInv
    BY SMT DEF Init, CallInv
<1>2. BreakerInv(NewBreaker) /\ NewBreaker.active = 0
    BY SMT DEF NewBreaker, BreakerInv, Shape
<1>3. PoolInv
    BY <1>2, Zenon DEF Init, PoolInv
<1>4. IsFiniteSet({}) /\ Cardinality({}) = 0
    BY FS_EmptySet, Zenon
<1>5. ASSUME NEW p \in Provider PROVE SlotInv(p) /\ CountInv(p) /\ ProbeInv(p)
    <2>1. /\ \A c \in Call : pc[c] \notin {"count", "leased"} /\ pc[c] \notin {"leased", "freed"}
          /\ semaphore[p] = 0 /\ outstanding[p] = 0 /\ probes[p] = {} /\ breaker[p] = NewBreaker
        BY SMT DEF Init
    <2>2. Leases(p) = {} /\ Counted(p) = {} /\ Owners(p) = {}
        BY <2>1, Zenon DEF Leases, Counted, Owners
    <2>3. 0 <= MaxConcurrency[p] /\ 0 <= 0
        BY RouterAssumption
    <2> QED BY <1>2, <1>4, <2>1, <2>2, <2>3, Zenon DEF SlotInv, CountInv, ProbeInv
<1> QED BY <1>1, <1>3, <1>5, Zenon DEF RouterInv

\* The invariant is inductive.
LEMMA RouterStep == ASSUME RouterInv, [Next]_vars PROVE RouterInv'
<1>1. CASE Tick
    BY <1>1, TickStep, Zenon
<1>2. ASSUME NEW c \in Call, Begin(c) \/ SelectStep(c) \/ OutcomeStep(c) PROVE RouterInv'
    BY <1>2, SelectingStep, AskBreakerStep, LeaseStep, FullStep, ReportStep, CountStep,
       ReleaseSlotStep, UncountStep, Zenon
       DEF SelectStep, OutcomeStep
<1>3. CASE UNCHANGED vars
    <2>1. UNCHANGED <<breaker, semaphore, outstanding, probes, pc, candidates, lease>>
        BY <1>3, Zenon DEF vars, poolVars, callVars
    <2> QED BY <2>1, Zenon DEF RouterInv, CallInv, PoolInv, SlotInv, CountInv, ProbeInv, Leases, Counted, Owners, Owner
<1> QED BY <1>1, <1>2, <1>3, Zenon DEF Next

\* RouterInv holds in every state of the router.
LEMMA RouterInvariant == Spec => []RouterInv
<1>1. Init => RouterInv
    BY RouterInit, Zenon
<1>2. RouterInv /\ [Next]_vars => RouterInv'
    BY RouterStep, Zenon
<1> QED BY <1>1, <1>2, PTL DEF Spec

\* However many calls race through Select and whichever way their leases end, a
\* provider's semaphore counts exactly the leases on it and never exceeds
\* MaxConcurrency, and the outstanding counter exactly those that were counted and not
\* yet uncounted, though the two change at different times: no path leaks a slot.
THEOREM SlotsCounted == Spec => []SlotsAreLeases
<1>1. RouterInv => SlotsAreLeases
    BY Zenon DEF RouterInv, SlotInv, CountInv, Leases, Counted, SlotsAreLeases
<1> QED BY <1>1, RouterInvariant, PTL

\* Every half-open probe that a breaker counts belongs to a call which it admitted in
\* this period and which will still report or give the probe back, although other
\* calls end the period, and begin the next, between any two steps of the call.
THEOREM ProbesOwned == Spec => []ProbesHaveOwners
<1>1. RouterInv => ProbesHaveOwners
    BY Zenon DEF RouterInv, ProbeInv, Owners, Owner, ProbesHaveOwners
<1> QED BY <1>1, RouterInvariant, PTL
===============================================================================
