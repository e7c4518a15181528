--------------------------- MODULE BudgetArithmetic ---------------------------
(* The functions of module Budget, called with any machine integers.         *)
EXTENDS Budget

VARIABLES args,   \* limit, committed, active, requested
          usage   \* prompt, completion, input and output price

arguments == <<args, usage>>

AnyArguments == /\ args \in [1..4 -> Machine]
                /\ usage \in [1..4 -> Machine]

Calls == AnyArguments /\ [][UNCHANGED arguments]_arguments

Admission == CanReserve(args[1], args[2], args[3], args[4])
Cost == CostMicroUSD(usage[1], usage[2], usage[3], usage[4])

\* CanReserve admits exactly when usage, reservations and the request fit in the
\* limit together: no difference it forms wraps around, whatever the magnitudes.
AdmissionIsExact ==
    args[1] > 0 /\ (\A i \in 2..4 : args[i] >= 0) =>
      (Admission = "ok" <=> args[2] + args[3] + args[4] <= args[1])

\* A cost that CostMicroUSD returns is the least whole number of micro-USD that
\* covers the exact price.
CostIsLeastCover ==
    LET total == Total(usage[1], usage[2], usage[3], usage[4]) IN
    Cost # Overflow => Cost * PriceUnit >= total /\ (Cost - 1) * PriceUnit < total
===============================================================================
