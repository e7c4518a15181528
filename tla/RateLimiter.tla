----------------------------- MODULE RateLimiter -----------------------------
(* internal/ratelimit/redis.go, as Service.admit and releasePermits of       *)
(* internal/gateway/service.go use it: a call takes a permit of its tenant's *)
(* bucket and one of its API key's bucket, and gives both back when it ends. *)
(* The scripts are atomic in Redis; a script may fail, its answer may be     *)
(* lost, the Redis client may run it again, and a gateway may die with its   *)
(* permits. A call may hold its permits for longer than the counter lives.   *)
EXTENDS Naturals, FiniteSets, Sequences, Functions

CONSTANTS Call,
          Buckets,        \* per call: its buckets in the order admit asks them
          Tokens,         \* per call: estimated tokens
          RequestsPerMinute, TokensPerMinute, MaxConcurrent,
          ConcurrencyTTL, MinuteLength,   \* ticks a counter lives, ticks of a window
          MaxFaults       \* bound

Bucket == UNION {Range(Buckets[c]) : c \in Call}

ASSUME LimiterAssumption ==
    /\ DOMAIN Buckets = Call
    /\ \A c \in Call : /\ Buckets[c] \in Seq(Bucket) /\ Buckets[c] # <<>>
                      /\ IsInjective(Buckets[c])
    /\ Tokens \in [Call -> Nat]
    /\ {RequestsPerMinute, TokensPerMinute, MaxConcurrent} \subseteq Nat \ {0}
    /\ {ConcurrencyTTL, MinuteLength} \subseteq Nat \ {0} /\ MaxFaults \in Nat

VARIABLES
    minute,       \* ticks into the current window
    requests, tokens,    \* per bucket: counters of the current window
    concurrent,   \* per bucket: the concurrency counter, zero without a key
    age,          \* per bucket: time since the counter's EXPIRE
    pc,           \* each call: idle, asking, running, releasing
    permits,      \* each call: permits it holds
    heldFor,      \* each call and bucket: time since it has the permit, up to the last
                  \* tick of ConcurrencyTTL
    overrun,      \* history: buckets on which, since nobody held a permit, one was held
                  \* for ConcurrencyTTL or given back twice
    faults

redisVars == <<requests, tokens, concurrent, age>>
limiterVars == <<minute, redisVars, pc, permits, heldFor, overrun, faults>>

NewLimiter ==
    /\ minute = 0
    /\ requests = [b \in Bucket |-> 0]
    /\ tokens = [b \in Bucket |-> 0]
    /\ concurrent = [b \in Bucket |-> 0]
    /\ age = [b \in Bucket |-> 0]
    /\ pc = [c \in Call |-> "idle"]
    /\ permits = [c \in Call |-> {}]
    /\ heldFor = [c \in Call |-> [b \in Bucket |-> 0]]
    /\ overrun = {}
    /\ faults = 0

Fault == faults < MaxFaults /\ faults' = faults + 1
Reply == {"ok", "error", "lost"}
Answers(reply) == IF reply = "ok" THEN UNCHANGED faults ELSE Fault

Goes(c, step) == pc' = [pc EXCEPT ![c] = step]

Holders(b) == {c \in Call : b \in permits[c]}

------------------------------------------------------------------------------
(* allowScript *)

Admits(b, c) ==
    /\ requests[b] + 1 <= RequestsPerMinute
    /\ tokens[b] + Tokens[c] <= TokensPerMinute
    /\ concurrent[b] + 1 <= MaxConcurrent

ConsumeKeepingTTL(b, c) ==
    /\ requests' = [requests EXCEPT ![b] = @ + 1]
    /\ tokens' = [tokens EXCEPT ![b] = @ + Tokens[c]]
    /\ concurrent' = [concurrent EXCEPT ![b] = @ + 1]
    /\ UNCHANGED age

Consume(b, c) ==
    /\ requests' = [requests EXCEPT ![b] = @ + 1]
    /\ tokens' = [tokens EXCEPT ![b] = @ + Tokens[c]]
    /\ concurrent' = [concurrent EXCEPT ![b] = @ + 1]
    /\ age' = [age EXCEPT ![b] = 0]

\* A rejection changes nothing, so it does not keep the counter alive either.
RejectRefreshing(b) == age' = [age EXCEPT ![b] = 0] /\ UNCHANGED <<requests, tokens, concurrent>>
Reject(b) == UNCHANGED redisVars

------------------------------------------------------------------------------
(* admit and releasePermits *)

NextBucket(c) == Buckets[c][Cardinality(permits[c]) + 1]

Enter(c) ==
    /\ pc[c] = "idle"
    /\ Goes(c, "asking")
    /\ UNCHANGED <<minute, redisVars, permits, heldFor, overrun, faults>>

\* One Limiter.Allow. An error or a rejection gives back the permits so far.
Ask(c) ==
    LET b == NextBucket(c) IN
    /\ pc[c] = "asking"
    /\ \E reply \in Reply :
         /\ Answers(reply)
         /\ IF reply = "error" THEN UNCHANGED redisVars
            ELSE IF Admits(b, c) THEN Consume(b, c) ELSE Reject(b)
         /\ IF reply = "ok" /\ Admits(b, c)
              THEN /\ permits' = [permits EXCEPT ![c] = @ \cup {b}]
                   /\ Goes(c, IF Cardinality(permits[c]) + 1 = Len(Buckets[c]) THEN "running" ELSE "asking")
              ELSE Goes(c, "releasing") /\ UNCHANGED permits
    /\ UNCHANGED <<minute, heldFor, overrun>>

\* The script has run, its answer is lost, and the Redis client, whose retries are left
\* on, runs it again.
AskRetried(c) ==
    /\ pc[c] = "asking"
    /\ Admits(NextBucket(c), c)
    /\ Fault
    /\ Consume(NextBucket(c), c)
    /\ UNCHANGED <<minute, pc, permits, heldFor, overrun>>

\* The call ends; releasePermits is deferred.
Finish(c) ==
    /\ pc[c] = "running"
    /\ Goes(c, "releasing")
    /\ UNCHANGED <<minute, redisVars, permits, heldFor, overrun, faults>>

\* finishScript
Decrement(b) == concurrent' = [concurrent EXCEPT ![b] = IF @ <= 1 THEN 0 ELSE @ - 1]

IsFirstPermit(c, b) == \E i \in DOMAIN Buckets[c] :
    b = Buckets[c][i] /\ b \in permits[c] /\ \A j \in 1..i - 1 : Buckets[c][j] \notin permits[c]

\* With its last permit returned, the count of a bucket is no longer too low.
ForgetEmptied == overrun' = {b \in overrun : Holders(b)' # {}}

\* Permit.Release for one permit, which counts as released whatever Redis says.
Release(c, b) ==
    /\ pc[c] = "releasing"
    /\ IsFirstPermit(c, b)
    /\ \E reply \in Reply :
         /\ Answers(reply)
         /\ IF reply = "error" THEN UNCHANGED concurrent ELSE Decrement(b)
    /\ permits' = [permits EXCEPT ![c] = @ \ {b}]
    /\ heldFor' = [heldFor EXCEPT ![c][b] = 0]
    /\ ForgetEmptied
    /\ UNCHANGED <<minute, pc, requests, tokens, age>>

\* As AskRetried: the counter goes down once too often.
ReleaseRetried(c, b) ==
    /\ pc[c] = "releasing"
    /\ IsFirstPermit(c, b)
    /\ Fault
    /\ Decrement(b)
    /\ overrun' = overrun \cup {b}
    /\ UNCHANGED <<minute, pc, permits, heldFor, requests, tokens, age>>

\* releasePermits returns.
Released(c) ==
    /\ pc[c] = "releasing"
    /\ permits[c] = {}
    /\ Goes(c, "idle")
    /\ UNCHANGED <<minute, redisVars, permits, heldFor, overrun, faults>>

\* The gateway dies with the permits of its call.
Crash(c) ==
    /\ pc[c] # "idle"
    /\ Fault
    /\ Goes(c, "idle")
    /\ permits' = [permits EXCEPT ![c] = {}]
    /\ heldFor' = [heldFor EXCEPT ![c] = [b \in Bucket |-> 0]]
    /\ ForgetEmptied
    /\ UNCHANGED <<minute, redisVars>>

\* Time passes: windows begin, counters expire. The requests and tokens keys name
\* their window, so a new window starts from nothing.
Tick ==
    /\ minute' = (minute + 1) % MinuteLength
    /\ requests' = [b \in Bucket |-> IF minute' = 0 THEN 0 ELSE requests[b]]
    /\ tokens' = [b \in Bucket |-> IF minute' = 0 THEN 0 ELSE tokens[b]]
    /\ concurrent' = [b \in Bucket |-> IF age[b] + 1 >= ConcurrencyTTL THEN 0 ELSE concurrent[b]]
    /\ age' = [b \in Bucket |-> IF concurrent'[b] = 0 THEN 0 ELSE age[b] + 1]
    /\ heldFor' = [c \in Call |-> [b \in Bucket |->
                     IF b \in permits[c] /\ heldFor[c][b] + 1 < ConcurrencyTTL THEN heldFor[c][b] + 1
                     ELSE heldFor[c][b]]]
    /\ overrun' = overrun \cup {b \in Bucket : \E c \in Holders(b) : heldFor[c][b] + 1 >= ConcurrencyTTL}
    /\ UNCHANGED <<pc, permits, faults>>

------------------------------------------------------------------------------
CallStep(c) == Ask(c) \/ Finish(c) \/ Released(c) \/ \E b \in Bucket : Release(c, b)
LimiterNext ==
    \/ Tick
    \/ \E c \in Call : Enter(c) \/ CallStep(c) \/ Crash(c) \/ AskRetried(c)
    \/ \E c \in Call, b \in Bucket : ReleaseRetried(c, b)

LimiterSpec == NewLimiter /\ [][LimiterNext]_limiterVars

\* Calls go on and end, and time passes.
FairLimiterSpec == LimiterSpec /\ WF_limiterVars(Tick) /\ \A c \in Call : WF_limiterVars(CallStep(c))

------------------------------------------------------------------------------
LimiterTypeOK ==
    /\ minute \in 0..MinuteLength - 1
    /\ requests \in [Bucket -> 0..RequestsPerMinute]
    /\ tokens \in [Bucket -> 0..TokensPerMinute]
    /\ concurrent \in [Bucket -> 0..MaxConcurrent]
    /\ age \in [Bucket -> 0..ConcurrencyTTL - 1]
    /\ pc \in [Call -> {"idle", "asking", "running", "releasing"}]
    /\ permits \in [Call -> SUBSET Bucket]
    /\ heldFor \in [Call -> [Bucket -> 0..ConcurrencyTTL - 1]]
    /\ overrun \subseteq Bucket
    /\ faults \in 0..MaxFaults

\* A bucket's counter does not fall below the permits held on it, whatever crashes,
\* fails or is lost, so that no more than MaxConcurrent calls of a tenant run at once;
\* except on a bucket that was overrun: a call outlived the counter's TTL, or the Redis
\* client ran a release twice. It is so until nobody holds a permit of the bucket.
\* As long as nothing fails it counts no other permit: the partial admissions of a
\* rejected call are given back.
CounterCoversPermits ==
    \A b \in Bucket : /\ b \notin overrun => Cardinality(Holders(b)) <= concurrent[b]
                      /\ faults = 0 => concurrent[b] <= Cardinality(Holders(b))

\* Lost permits do not lock a tenant out: the concurrency limit of each of its
\* buckets again and again has room.
RoomAgain == \A b \in Bucket : []<>(concurrent[b] < MaxConcurrent)
===============================================================================
