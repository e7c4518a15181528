-------------------------------- MODULE Budget --------------------------------
(* internal/budget/budget.go: the cost of a call and the admission of a      *)
(* reservation, on machine integers. MaxInt stands for the largest int64 and *)
(* PriceUnit for tokensPerPriceUnit, so that TLC can take both small.        *)
EXTENDS Integers, FiniteSetsExt

CONSTANTS MaxInt, PriceUnit

ASSUME BudgetAssumption == MaxInt \in Nat \ {0} /\ PriceUnit \in Nat \ {0}

MinInt == -MaxInt - 1
Machine == MinInt..MaxInt

\* Two's complement subtraction.
Minus(a, b) == IF a - b > MaxInt THEN a - b - 2 * (MaxInt + 1)
               ELSE IF a - b < MinInt THEN a - b + 2 * (MaxInt + 1)
               ELSE a - b

CanReserveWrapping(limit, committed, active, requested) ==
    IF limit = 0 THEN "ok"
    ELSE IF limit < 0 \/ committed < 0 \/ active < 0 \/ requested < 0 THEN "negative"
    ELSE IF Minus(Minus(Minus(limit, requested), committed), active) < 0 THEN "exceeded"
    ELSE "ok"

\* Go's || evaluates left to right: each difference is formed only once the
\* comparisons before it have failed.
CanReserve(limit, committed, active, requested) ==
    IF limit = 0 THEN "ok"
    ELSE IF limit < 0 \/ committed < 0 \/ active < 0 \/ requested < 0 THEN "negative"
    ELSE IF \/ requested > limit
            \/ committed > Minus(limit, requested)
            \/ active > Minus(Minus(limit, requested), committed)
      THEN "exceeded"
    ELSE "ok"

\* big.Int arithmetic is exact; the quotient is rounded up.
Total(prompt, completion, input, output) == prompt * input + completion * output

CeilingRoundsDown(total) == total \div PriceUnit
Ceiling(total) == total \div PriceUnit + (IF total % PriceUnit > 0 THEN 1 ELSE 0)

Overflow == -1   \* the errors of CostMicroUSD

CostMicroUSD(prompt, completion, input, output) ==
    IF prompt < 0 \/ completion < 0 \/ input < 0 \/ output < 0 THEN Overflow
    ELSE LET cost == Ceiling(Total(prompt, completion, input, output))
         IN  IF cost > MaxInt THEN Overflow ELSE cost

\* What the stores compare a limit with: the sum of the amounts f of some requests S.
Sum(f, S) == MapThenSumSet(LAMBDA r : f[r], S)
===============================================================================
