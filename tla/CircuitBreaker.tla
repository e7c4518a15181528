---------------------------- MODULE CircuitBreaker ----------------------------
(* internal/circuitbreaker/breaker.go: every method as a function of the     *)
(* state the breaker's mutex protects. Instants are kept as ages, so that    *)
(* time can pass for ever in a finite model: an age is capped where older    *)
(* makes no difference. "lag" is how long ago the caller read its clock.     *)
EXTENDS Naturals, Sequences

CONSTANTS FailureThreshold, Window, OpenDuration, HalfOpenProbes,
          MaxLag   \* bound on the time between reading the clock and using it

ASSUME BreakerAssumption ==
    /\ {FailureThreshold, Window, OpenDuration, HalfOpenProbes} \subseteq Nat \ {0}
    /\ MaxLag \in Nat

MaxOpenAge == OpenDuration + MaxLag

NewBreaker == [state |-> "closed", failures |-> <<>>, openAge |-> 0, active |-> 0]

BreakerType(b) ==
    /\ DOMAIN b = {"state", "failures", "openAge", "active"}
    /\ b.state \in {"closed", "open", "half_open"}
    /\ b.failures \in Seq(0..Window)
    /\ b.openAge \in 0..MaxOpenAge
    /\ b.active \in 0..HalfOpenProbes

MayProbeInverted(b, lag) == b.state = "open" /\ b.openAge < OpenDuration + lag

\* Open, and OpenDuration has passed by the caller's clock.
MayProbe(b, lag) == b.state = "open" /\ b.openAge >= OpenDuration + lag

HalfOpened(b, lag) ==
    IF MayProbe(b, lag) THEN [b EXCEPT !.state = "half_open", !.active = 0, !.openAge = 0] ELSE b

\* The value Allow returns, and the state it leaves.
Allows(b, lag) == LET h == HalfOpened(b, lag) IN
    h.state = "closed" \/ (h.state = "half_open" /\ h.active < HalfOpenProbes)

Allow(b, lag) == LET h == HalfOpened(b, lag) IN
    IF h.state = "half_open" /\ h.active < HalfOpenProbes THEN [h EXCEPT !.active = @ + 1] ELSE h

State(b, lag) == IF MayProbe(b, lag) THEN "half_open" ELSE b.state

Success(b) == [b EXCEPT !.state = "closed", !.failures = <<>>, !.active = 0, !.openAge = 0]

OpenedNow(b) == [b EXCEPT !.state = "open", !.openAge = 0, !.active = 0]

Failure(b) ==
    IF b.state = "half_open" THEN OpenedNow(b) ELSE
    LET recent == Append(SelectSeq(b.failures, LAMBDA age : age < Window), 0)
    IN  IF Len(recent) >= FailureThreshold THEN OpenedNow([b EXCEPT !.failures = recent])
          ELSE [b EXCEPT !.failures = recent]

Release(b) == IF b.state = "half_open" /\ b.active > 0 THEN [b EXCEPT !.active = @ - 1] ELSE b

\* One unit of time passes.
Older(b) ==
    [b EXCEPT !.failures = [i \in DOMAIN @ |-> IF @[i] < Window THEN @[i] + 1 ELSE Window],
              !.openAge = IF b.state = "open" /\ @ < MaxOpenAge THEN @ + 1 ELSE @]
===============================================================================
