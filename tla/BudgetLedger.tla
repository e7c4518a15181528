----------------------------- MODULE BudgetLedger -----------------------------
(* The money of one tenant: ReserveBudget and ReconcileBudget of             *)
(* internal/persistence/postgres.go, the usage fact that CompleteRequest     *)
(* commits, and the usage ledger, which the fact reaches through the event   *)
(* pipeline (module FactDelivery stands for it: once, at some later time).   *)
EXTENDS Budget, FiniteSets

CONSTANTS Request,
          Amount,         \* amounts that are reserved and charged
          DailyLimit, MonthlyLimit,   \* zero: not enabled
          DaysPerMonth, LastDay,      \* bound on the days that pass
          Nobody

ASSUME LedgerAssumption ==
    /\ Amount \subseteq 0..MaxInt
    /\ {DailyLimit, MonthlyLimit} \subseteq 0..MaxInt
    /\ DaysPerMonth \in Nat \ {0} /\ LastDay \in Nat
    /\ Nobody \notin Request

VARIABLES
    today,      \* the date
    lock,       \* who holds the tenant_limits row FOR UPDATE
    pc,         \* each request: where it is in execute
    day,        \* each request: the date ReserveBudget was called with
    reserved, state,   \* its budget_reservations row
    cost, spentOn,     \* its actual cost, the date of its usage fact
    committed, effects \* usage facts in the outbox, rows in usage_ledger

rowVars == <<reserved, state, cost, spentOn>>
factVars == <<committed, effects>>
ledgerVars == <<today, lock, pc, day, rowVars, factVars>>

Facts == INSTANCE FactDelivery WITH Fact <- Request

NewLedger ==
    /\ today = 0
    /\ lock = Nobody
    /\ pc = [r \in Request |-> "start"]
    /\ day = [r \in Request |-> 0]
    /\ reserved = [r \in Request |-> 0]
    /\ state = [r \in Request |-> "none"]
    /\ cost = [r \in Request |-> 0]
    /\ spentOn = [r \in Request |-> 0]
    /\ Facts!Init

MonthOf(d) == d \div DaysPerMonth
Goes(r, step) == pc' = [pc EXCEPT ![r] = step]

\* The sums that ReserveBudget reads for its own date and month.
Ledger == {r \in Request : effects[r] = 1}
Active == {r \in Request : state[r] = "RESERVED"}
DayUsed(d) == Sum(cost, {r \in Ledger : spentOn[r] >= d})
MonthUsed(d) == Sum(cost, {r \in Ledger : MonthOf(spentOn[r]) >= MonthOf(d)})
DayReserved(d) == Sum(reserved, {r \in Active : day[r] = d})
MonthReserved(d) == Sum(reserved, {r \in Active : MonthOf(day[r]) = MonthOf(d)})

Fits(d, amount) ==
    /\ CanReserve(MonthlyLimit, MonthUsed(d), MonthReserved(d), amount) = "ok"
    /\ CanReserve(DailyLimit, DayUsed(d), DayReserved(d), amount) = "ok"

\* ReserveBudget: the date is read, the tenant's limits are locked ...
ReadClock(r) ==
    /\ pc[r] = "start"
    /\ day' = [day EXCEPT ![r] = today]
    /\ Goes(r, "lock")
    /\ UNCHANGED <<today, lock, rowVars, factVars>>

LockNothing(r) ==
    /\ pc[r] = "lock"
    /\ lock' = r
    /\ Goes(r, "check")
    /\ UNCHANGED <<today, day, rowVars, factVars>>

LockLimits(r) ==
    /\ pc[r] = "lock"
    /\ lock = Nobody
    /\ lock' = r
    /\ Goes(r, "check")
    /\ UNCHANGED <<today, day, rowVars, factVars>>

\* ... the sums are read under the lock and both limits are checked ...
CheckLimits(r, amount) ==
    /\ pc[r] = "check"
    /\ IF Fits(day[r], amount)
         THEN Goes(r, "insert") /\ reserved' = [reserved EXCEPT ![r] = amount] /\ UNCHANGED lock
         ELSE Goes(r, "rejected") /\ lock' = Nobody /\ UNCHANGED reserved
    /\ UNCHANGED <<today, day, state, cost, spentOn, factVars>>

\* ... and the reservation and the lock's release commit together.
InsertReservation(r) ==
    /\ pc[r] = "insert"
    /\ state' = [state EXCEPT ![r] = "RESERVED"]
    /\ lock' = Nobody
    /\ Goes(r, "running")
    /\ UNCHANGED <<today, day, reserved, cost, spentOn, factVars>>

\* CompleteRequest commits the response with its usage fact, at its own date. The
\* provider decides what it cost.
CompleteRequest(r) ==
    /\ pc[r] = "running"
    /\ \E actual \in Amount : cost' = [cost EXCEPT ![r] = actual]
    /\ spentOn' = [spentOn EXCEPT ![r] = today]
    /\ Facts!Commit(r)
    /\ Goes(r, "completed")
    /\ UNCHANGED <<today, lock, day, reserved, state>>

\* ReconcileBudget takes the reservation out of the sums; a failed request's
\* reservation is reconciled at no cost.
ReconcileBudget(r) ==
    /\ pc[r] \in {"running", "completed"}
    /\ state[r] = "RESERVED"
    /\ state' = [state EXCEPT ![r] = "RECONCILED"]
    /\ Goes(r, "done")
    /\ UNCHANGED <<today, lock, day, reserved, cost, spentOn, factVars>>

\* The audit consumer writes the ledger.
RecordUsage(r) ==
    /\ Facts!Apply(r)
    /\ UNCHANGED <<today, lock, pc, day, rowVars>>

Midnight ==
    /\ today < LastDay
    /\ today' = today + 1
    /\ UNCHANGED <<lock, pc, day, rowVars, factVars>>

LedgerNext ==
    \/ Midnight
    \/ \E r \in Request :
         \/ ReadClock(r) \/ LockLimits(r) \/ InsertReservation(r)
         \/ CompleteRequest(r) \/ ReconcileBudget(r) \/ RecordUsage(r)
         \/ \E amount \in Amount : CheckLimits(r, amount)

LedgerSpec == NewLedger /\ [][LedgerNext]_ledgerVars

------------------------------------------------------------------------------
LedgerTypeOK ==
    /\ today \in 0..LastDay
    /\ lock \in Request \cup {Nobody}
    /\ pc \in [Request -> {"start", "lock", "check", "insert", "running", "completed", "done", "rejected"}]
    /\ day \in [Request -> 0..LastDay]
    /\ reserved \in [Request -> Amount \cup {0}]
    /\ state \in [Request -> {"none", "RESERVED", "RECONCILED"}]
    /\ cost \in [Request -> Amount \cup {0}]
    /\ spentOn \in [Request -> 0..LastDay]

\* Concurrent reservations of a period never exceed its limit together: the row
\* lock makes the check of one see the insert of the other.
ReservationsWithinLimits ==
    \A d \in 0..LastDay :
      /\ DailyLimit > 0 => DayReserved(d) <= DailyLimit
      /\ MonthlyLimit > 0 => MonthReserved(d) <= MonthlyLimit

\* A tenant's completed requests of a day cost no more than its daily budget.
SpendingWithinDay ==
    DailyLimit > 0 =>
      \A d \in 0..LastDay : Sum(cost, {r \in committed : spentOn[r] = d}) <= DailyLimit
===============================================================================
