----------------------------- MODULE BudgetProofs -----------------------------
(* Proofs about internal/budget/budget.go for every width and price unit, and *)
(* about the sums that the stores compare a limit with, for any finite set.   *)
EXTENDS BudgetArithmetic, FiniteSetTheorems, TLAPS

\* The differences that CanReserve forms stay in range, so they do not wrap.
LEMMA NoWrap ==
    ASSUME NEW a \in 0..MaxInt, NEW b \in 0..a
    PROVE  Minus(a, b) = a - b /\ Minus(a, b) \in 0..MaxInt
  BY BudgetAssumption DEF Minus, MinInt

\* CanReserve (budget.go:35) is the comparison of the exact sum with the limit.
THEOREM CanReserveExact ==
    ASSUME NEW limit \in 1..MaxInt, NEW used \in Nat, NEW active \in Nat, NEW requested \in Nat
    PROVE  CanReserve(limit, used, active, requested) = "ok"
             <=> used + active + requested <= limit
<1>1. CASE requested > limit
  BY <1>1, BudgetAssumption DEF CanReserve
<1>2. CASE requested <= limit
  <2>1. Minus(limit, requested) = limit - requested /\ limit - requested \in 0..MaxInt
    BY <1>2, NoWrap, BudgetAssumption
  <2>2. CASE used > limit - requested
    BY <1>2, <2>1, <2>2, BudgetAssumption DEF CanReserve
  <2>3. CASE used <= limit - requested
    <3>1. Minus(limit - requested, used) = limit - requested - used
      BY <2>1, <2>3, NoWrap, BudgetAssumption
    <3> QED BY <1>2, <2>1, <2>3, <3>1, BudgetAssumption DEF CanReserve
  <2> QED BY <2>1, <2>2, <2>3, BudgetAssumption
<1> QED BY <1>1, <1>2, BudgetAssumption

\* Rounding up gives the least multiple of the price unit that covers the total.
LEMMA CeilingCovers ==
    ASSUME NEW total \in Nat
    PROVE  /\ Ceiling(total) \in Nat
           /\ Ceiling(total) * PriceUnit >= total
           /\ (Ceiling(total) - 1) * PriceUnit < total
<1> DEFINE q == total \div PriceUnit
           r == total % PriceUnit
<1>1. q \in Nat /\ r \in 0..PriceUnit - 1 /\ total = q * PriceUnit + r
  BY BudgetAssumption, Z3
<1> HIDE DEF q, r
<1>2. CASE r > 0
  <2>1. Ceiling(total) = q + 1
    BY <1>1, <1>2 DEF Ceiling, q, r
  <2>2. (q + 1) * PriceUnit = q * PriceUnit + PriceUnit
    BY <1>1, BudgetAssumption, Z3
  <2> QED BY <1>1, <1>2, <2>1, <2>2, BudgetAssumption, Z3
<1>3. CASE r = 0
  <2>1. Ceiling(total) = q
    BY <1>1, <1>3 DEF Ceiling, q, r
  <2>2. (q - 1) * PriceUnit = q * PriceUnit - PriceUnit
    BY <1>1, BudgetAssumption, Z3
  <2> QED BY <1>1, <1>3, <2>1, <2>2, BudgetAssumption, Z3
<1> QED BY <1>1, <1>2, <1>3, BudgetAssumption

\* More tokens at higher prices never cost less (service.go:132 reserves at the
\* highest permitted prices): the reservation covers a call that stays within the
\* estimated tokens.
LEMMA ProductsGrow ==
    ASSUME NEW a \in Nat, NEW b \in Nat, NEW c \in Nat, NEW d \in Nat, a <= c, b <= d
    PROVE  a * b <= c * d
<1>1. a * b <= c * b
  BY Z3
<1>2. c * b <= c * d
  BY Z3
<1>3. a * b \in Nat /\ c * b \in Nat /\ c * d \in Nat
  BY Z3
<1> QED BY <1>1, <1>2, <1>3

\* The ceiling of a quotient grows with its dividend.
LEMMA CeilingGrows ==
    ASSUME NEW s \in Nat, NEW t \in Nat, s <= t
    PROVE  Ceiling(s) <= Ceiling(t)
<1>1. /\ Ceiling(s) \in Nat /\ Ceiling(t) \in Nat
      /\ Ceiling(t) * PriceUnit >= t
      /\ (Ceiling(s) - 1) * PriceUnit < s
  BY CeilingCovers
<1>2. SUFFICES ASSUME Ceiling(s) >= Ceiling(t) + 1 PROVE FALSE
  BY <1>1
<1> DEFINE cs == Ceiling(s) - 1
           ct == Ceiling(t)
<1>3. ct \in Nat /\ cs \in Nat /\ ct <= cs /\ ct * PriceUnit >= t /\ cs * PriceUnit < s
  BY <1>1, <1>2
<1> HIDE DEF cs, ct
<1>4. ct * PriceUnit <= cs * PriceUnit
  BY <1>3, ProductsGrow, BudgetAssumption
<1>5. ct * PriceUnit \in Nat /\ cs * PriceUnit \in Nat
  BY <1>3, BudgetAssumption, Z3
<1> QED BY <1>3, <1>4, <1>5

\* The cost of a call (service.go:171) is at most the amount reserved for it when
\* its tokens are at most the estimated ones and its prices at most the highest.
THEOREM ReservationCovers ==
    ASSUME NEW p \in Nat, NEW c \in Nat, NEW i \in Nat, NEW o \in Nat,
           NEW pe \in Nat, NEW ce \in Nat, NEW ih \in Nat, NEW oh \in Nat,
           p <= pe, c <= ce, i <= ih, o <= oh,
           CostMicroUSD(pe, ce, ih, oh) # Overflow
    PROVE  /\ CostMicroUSD(p, c, i, o) # Overflow
           /\ CostMicroUSD(p, c, i, o) <= CostMicroUSD(pe, ce, ih, oh)
<1>1. p * i <= pe * ih /\ c * o <= ce * oh
  BY ProductsGrow
<1>2. p * i \in Nat /\ pe * ih \in Nat /\ c * o \in Nat /\ ce * oh \in Nat
  BY Z3
<1> DEFINE s == Total(p, c, i, o)
           t == Total(pe, ce, ih, oh)
<1>3. s \in Nat /\ t \in Nat /\ s <= t
  BY <1>1, <1>2 DEF Total
<1>4. Ceiling(s) \in Nat /\ Ceiling(t) \in Nat /\ Ceiling(s) <= Ceiling(t)
  BY <1>3, CeilingCovers, CeilingGrows
<1> HIDE DEF s, t
<1>5. CostMicroUSD(pe, ce, ih, oh) = IF Ceiling(t) > MaxInt THEN Overflow ELSE Ceiling(t)
  BY DEF CostMicroUSD, t
<1>6. CostMicroUSD(p, c, i, o) = IF Ceiling(s) > MaxInt THEN Overflow ELSE Ceiling(s)
  BY DEF CostMicroUSD, s
<1> QED BY <1>4, <1>5, <1>6, BudgetAssumption DEF Overflow

-------------------------------------------------------------------------------
\* For arguments of the machine's width, CanReserve (budget.go:35) admits exactly
\* what fits in the limit.
LEMMA AdmissionOfArgs == AnyArguments => AdmissionIsExact
<1> SUFFICES ASSUME AnyArguments, args[1] > 0, \A i \in 2..4 : args[i] >= 0
             PROVE  Admission = "ok" <=> args[2] + args[3] + args[4] <= args[1]
  BY DEF AdmissionIsExact
<1>1. /\ args[1] \in 1..MaxInt /\ args[2] \in 0..MaxInt
      /\ args[3] \in 0..MaxInt /\ args[4] \in 0..MaxInt
  BY BudgetAssumption DEF AnyArguments, Machine, MinInt
<1> QED BY <1>1, CanReserveExact DEF Admission

\* CanReserve admits exactly what fits, for every width of the integers.
THEOREM AdmissionExact == Calls => []AdmissionIsExact
<1>1. AnyArguments /\ [UNCHANGED arguments]_arguments => AnyArguments'
  BY DEF AnyArguments, arguments
<1> QED BY <1>1, AdmissionOfArgs, PTL DEF Calls

\* A cost that CostMicroUSD (budget.go:14) returns is the least that covers the price.
LEMMA CostOfUsage == AnyArguments => CostIsLeastCover
<1> SUFFICES ASSUME AnyArguments, Cost # Overflow
             PROVE  LET total == Total(usage[1], usage[2], usage[3], usage[4])
                    IN  Cost * PriceUnit >= total /\ (Cost - 1) * PriceUnit < total
  BY DEF CostIsLeastCover
<1>1. \A k \in 1..4 : usage[k] \in Int
  BY BudgetAssumption DEF AnyArguments, Machine, MinInt
<1>2. usage[1] \in Nat /\ usage[2] \in Nat /\ usage[3] \in Nat /\ usage[4] \in Nat
  BY <1>1 DEF Cost, CostMicroUSD, Overflow
<1> DEFINE total == Total(usage[1], usage[2], usage[3], usage[4])
<1>3. usage[1] * usage[3] \in Nat /\ usage[2] * usage[4] \in Nat
  BY <1>2, Z3
<1>4. total \in Nat
  BY <1>2, <1>3 DEF Total
<1> HIDE DEF total
<1>5. Cost = Ceiling(total)
  BY <1>2 DEF Cost, CostMicroUSD, Overflow, total
<1> QED BY <1>4, <1>5, CeilingCovers DEF total

\* CostMicroUSD returns the least cover, for every width and price unit.
THEOREM CostLeastCover == Calls => []CostIsLeastCover
<1>1. AnyArguments /\ [UNCHANGED arguments]_arguments => AnyArguments'
  BY DEF AnyArguments, arguments
<1> QED BY <1>1, CostOfUsage, PTL DEF Calls

-------------------------------------------------------------------------------
(* Sums *)

\* The sums of BudgetLedger are folds over sets: the library chooses an element, takes
\* its value and goes on with the rest.
Any(s) == CHOOSE x \in s : TRUE
IsFold(g, f, S) == g = [s \in SUBSET S |-> IF s = {} THEN 0 ELSE f[Any(s)] + g[s \ {Any(s)}]]

\* The sum the ledger's SELECT SUM(...) is modelled by, with the library's definitions
\* expanded.
LEMMA SumIsFold == \A f, S : Sum(f, S) = (CHOOSE g : IsFold(g, f, S))[S]
BY DEF Sum, MapThenSumSet, MapThenFoldSet, IsFold, Any

\* The element a sum goes on with is one of the set's.
LEMMA AnyIn == \A s : s # {} => Any(s) \in s
BY DEF Any

\* Induction over a finite set, by a least counterexample: some member of a nonempty
\* collection B of subsets has no proper subset in B.
LEMMA Induct ==
  ASSUME NEW S, IsFiniteSet(S), NEW B \in SUBSET SUBSET S, B # {}
  PROVE  \E T \in B : \A U \in B : U \subseteq T => U = T
<1>1. SUBSET S = FiniteSubsetsOf(S)
  BY FS_FiniteSubsetsOfFinite
<1>2. IsWellFoundedOn(StrictSubsetOrdering(S), SUBSET S)
  BY <1>1, FS_StrictSubsetOrderingWellFounded, Zenon
<1>3. \E T \in B : \A U \in B : ~(<<U, T>> \in StrictSubsetOrdering(S))
  BY <1>2, WFMin
<1> QED BY <1>3, Zenon DEF StrictSubsetOrdering

\* One step of the recursion behind a sum.
LEMMA FoldAt ==
  ASSUME NEW S, NEW f, NEW g, IsFold(g, f, S), NEW s \in SUBSET S
  PROVE  g[s] = IF s = {} THEN 0 ELSE f[Any(s)] + g[s \ {Any(s)}]
BY Zenon DEF IsFold

\* The partial sums of a set do not depend on the set they were formed for.
LEMMA FoldAgree ==
  ASSUME NEW S, NEW T, IsFiniteSet(S), NEW f, NEW g, NEW h, IsFold(g, f, S), IsFold(h, f, T),
         NEW s \in SUBSET S, s \in SUBSET T
  PROVE  g[s] = h[s]
<1>1. PICK B : B = {u \in SUBSET S : u \in SUBSET T /\ g[u] # h[u]}
  BY Zenon
<1>2. SUFFICES ASSUME B # {} PROVE FALSE
  BY <1>1, Zenon
<1>3. B \in SUBSET SUBSET S
  BY <1>1, Zenon
<1>4. PICK u \in B : \A v \in B : v \subseteq u => v = u
  BY <1>2, <1>3, Induct
<1>5. u \in SUBSET S /\ u \in SUBSET T /\ g[u] # h[u]
  BY <1>1, <1>4, Zenon
<1>6. g[{}] = 0 /\ h[{}] = 0
  BY FoldAt, Zenon
<1>7. PICK x : x = Any(u)
  OBVIOUS
<1>8. u # {} /\ x \in u
  BY <1>5, <1>6, <1>7, AnyIn, Zenon
<1>9. PICK v : v = u \ {x}
  BY Zenon
<1>10. v \in SUBSET S /\ v \in SUBSET T /\ v # u /\ v \subseteq u
  BY <1>5, <1>8, <1>9, Zenon
<1>11. g[v] = h[v]
  BY <1>1, <1>4, <1>10, Zenon
<1>12. g[u] = f[x] + g[v]
  <2>1. g[u] = IF u = {} THEN 0 ELSE f[Any(u)] + g[u \ {Any(u)}]
    BY <1>5, FoldAt
  <2> QED BY <1>7, <1>8, <1>9, <2>1, Zenon
<1>13. h[u] = f[x] + h[v]
  <2>1. h[u] = IF u = {} THEN 0 ELSE f[Any(u)] + h[u \ {Any(u)}]
    BY <1>5, FoldAt
  <2> QED BY <1>7, <1>8, <1>9, <2>1, Zenon
<1> QED BY <1>5, <1>11, <1>12, <1>13, Zenon

\* The partial sums of S, and what the sum of u is by those of smaller sets.
Fold(f, S) == CHOOSE g : IsFold(g, f, S)
Part(f, u) == IF u = {} THEN 0 ELSE f[Any(u)] + Fold(f, u \ {Any(u)})[u \ {Any(u)}]

\* The recursion behind a sum over a finite set has a solution.
LEMMA FoldExists == ASSUME NEW S, IsFiniteSet(S), NEW f PROVE IsFold(Fold(f, S), f, S)
<1>1. PICK B : B = {T \in SUBSET S : ~IsFold(Fold(f, T), f, T)}
  BY Zenon
<1>2. SUFFICES ASSUME B # {} PROVE FALSE
  BY <1>1, Zenon
<1>3. B \in SUBSET SUBSET S
  BY <1>1, Zenon
<1>4. PICK T \in B : \A v \in B : v \subseteq T => v = T
  BY <1>2, <1>3, Induct
<1>5. T \in SUBSET S /\ ~IsFold(Fold(f, T), f, T)
  BY <1>1, <1>4, Zenon
<1>6. ASSUME NEW U \in SUBSET T, U # T PROVE IsFold(Fold(f, U), f, U) /\ IsFiniteSet(U)
  <2>1. U \in SUBSET S /\ U \notin B
    BY <1>4, <1>5, <1>6, Zenon
  <2> QED BY <1>1, <2>1, FS_Subset, Zenon
<1>7. ASSUME NEW u \in SUBSET T, u # T PROVE Part(f, u) = Fold(f, u)[u]
  <2>1. PICK k : k = Fold(f, u)
    OBVIOUS
  <2>2. IsFold(k, f, u) /\ IsFiniteSet(u) /\ u \in SUBSET u
    BY <1>6, <1>7, <2>1, Zenon
  <2>3. k[u] = IF u = {} THEN 0 ELSE f[Any(u)] + k[u \ {Any(u)}]
    BY <2>2, FoldAt
  <2>4. ASSUME u # {} PROVE k[u \ {Any(u)}] = Fold(f, u \ {Any(u)})[u \ {Any(u)}]
    <3>1. PICK v : v = u \ {Any(u)}
      BY Zenon
    <3>2. v \in SUBSET T /\ v # T /\ v \in SUBSET u /\ v \in SUBSET v
      BY <1>7, <2>4, <3>1, AnyIn, Zenon
    <3>3. PICK j : j = Fold(f, v)
      OBVIOUS
    <3>4. IsFold(j, f, v)
      BY <1>6, <3>2, <3>3, Zenon
    <3>5. k[v] = j[v]
      BY <2>2, <3>2, <3>4, FoldAgree
    <3> QED BY <3>1, <3>3, <3>5, Zenon
  <2> QED BY <2>1, <2>3, <2>4, Zenon DEF Part
<1>8. PICK g : g = [u \in SUBSET T |-> Part(f, u)]
  BY Zenon
<1>9. ASSUME NEW u \in SUBSET T PROVE Part(f, u) = IF u = {} THEN 0 ELSE f[Any(u)] + g[u \ {Any(u)}]
  <2>1. ASSUME u # {} PROVE Fold(f, u \ {Any(u)})[u \ {Any(u)}] = g[u \ {Any(u)}]
    <3>1. PICK v : v = u \ {Any(u)}
      BY Zenon
    <3>2. v \in SUBSET T /\ v # T
      BY <2>1, <3>1, AnyIn, Zenon
    <3>3. g[v] = Fold(f, v)[v]
      BY <1>7, <1>8, <3>2, Zenon
    <3> QED BY <3>1, <3>3, Zenon
  <2> QED BY <2>1, Zenon DEF Part
<1>10. IsFold(g, f, T)
  BY <1>8, <1>9, Zenon DEF IsFold
<1>11. IsFold(Fold(f, T), f, T)
  BY <1>10, Zenon DEF Fold
<1> QED BY <1>5, <1>11, Zenon

\* Without reservations the sum is 0.
LEMMA SumEmpty == \A f : Sum(f, {}) = 0
<1>1. TAKE f
<1>2. PICK k : k = Fold(f, {})
  OBVIOUS
<1>3. IsFold(k, f, {})
  BY <1>2, FS_EmptySet, FoldExists, Zenon
<1>4. k[{}] = 0
  BY <1>3, FoldAt, Zenon
<1> QED BY <1>2, <1>4, SumIsFold, Zenon DEF Fold

\* A sum is the value of the chosen element and the sum of the rest.
LEMMA SumNext ==
  ASSUME NEW S, IsFiniteSet(S), S # {}, NEW f
  PROVE  Sum(f, S) = f[Any(S)] + Sum(f, S \ {Any(S)})
<1>1. PICK T : T = S \ {Any(S)}
  BY Zenon
<1>2. T \in SUBSET S /\ IsFiniteSet(T) /\ T \in SUBSET T /\ S \in SUBSET S
  BY <1>1, FS_Subset, Zenon
<1>3. PICK k : k = Fold(f, S)
  OBVIOUS
<1>4. PICK j : j = Fold(f, T)
  OBVIOUS
<1>5. IsFold(k, f, S) /\ IsFold(j, f, T)
  BY <1>2, <1>3, <1>4, FoldExists, Zenon
<1>6. k[T] = j[T]
  <2>1. T \in SUBSET S /\ T \in SUBSET T
    BY <1>2, Zenon
  <2> QED BY <1>5, <2>1, FoldAgree
<1>7. k[S] = f[Any(S)] + k[T]
  <2>1. k[S] = IF S = {} THEN 0 ELSE f[Any(S)] + k[S \ {Any(S)}]
    BY <1>5, FoldAt
  <2> QED BY <1>1, <2>1, Zenon
<1>8. Sum(f, S) = k[S] /\ Sum(f, T) = j[T]
  BY <1>3, <1>4, SumIsFold, Zenon DEF Fold
<1> QED BY <1>1, <1>6, <1>7, <1>8, Zenon

\* The amounts of S are natural numbers.
Natural(f, S) == \A r \in S : f[r] \in Nat

\* So is their sum.
LEMMA SumNat == ASSUME NEW S, IsFiniteSet(S), NEW f, Natural(f, S) PROVE Sum(f, S) \in Nat
<1>1. PICK B : B = {T \in SUBSET S : Sum(f, T) \notin Nat}
  BY Zenon
<1>2. SUFFICES ASSUME B # {} PROVE FALSE
  BY <1>1, Zenon
<1>3. B \in SUBSET SUBSET S
  BY <1>1, Zenon
<1>4. PICK T \in B : \A v \in B : v \subseteq T => v = T
  BY <1>2, <1>3, Induct
<1>5. T \in SUBSET S /\ Sum(f, T) \notin Nat /\ IsFiniteSet(T)
  BY <1>1, <1>4, FS_Subset, Zenon
<1>6. T # {}
  BY <1>5, SumEmpty, SMT
<1>7. PICK x : x = Any(T)
  OBVIOUS
<1>8. x \in T /\ f[x] \in Nat
  BY <1>5, <1>6, <1>7, AnyIn, Zenon DEF Natural
<1>9. Sum(f, T \ {x}) \in Nat
  <2>1. T \ {x} \in SUBSET S /\ T \ {x} \subseteq T /\ T \ {x} # T
    BY <1>5, <1>8, Zenon
  <2> QED BY <1>1, <1>4, <2>1, Zenon
<1>10. Sum(f, T) = f[x] + Sum(f, T \ {x})
  BY <1>5, <1>6, <1>7, SumNext, Zenon
<1> QED BY <1>5, <1>8, <1>9, <1>10, SMT

\* The order of summation does not matter: any element may be taken out first.
LEMMA SumMember ==
  ASSUME NEW S, IsFiniteSet(S), NEW f, Natural(f, S), NEW y \in S
  PROVE  Sum(f, S) = f[y] + Sum(f, S \ {y})
<1>1. PICK B : B = {T \in SUBSET S : \E z \in T : Sum(f, T) # f[z] + Sum(f, T \ {z})}
  BY Zenon
<1>2. SUFFICES ASSUME B # {} PROVE FALSE
  BY <1>1, Zenon
<1>3. B \in SUBSET SUBSET S
  BY <1>1, Zenon
<1>4. PICK T \in B : \A v \in B : v \subseteq T => v = T
  BY <1>2, <1>3, Induct
<1>5. PICK z \in T : Sum(f, T) # f[z] + Sum(f, T \ {z})
  BY <1>1, <1>4, Zenon
<1>6. T \in SUBSET S /\ IsFiniteSet(T)
  BY <1>1, <1>4, FS_Subset, Zenon
<1>7. PICK x : x = Any(T)
  OBVIOUS
<1>8. x \in T /\ x \in S /\ z \in S
  BY <1>5, <1>6, <1>7, AnyIn, Zenon
<1>9. Sum(f, T) = f[x] + Sum(f, T \ {x})
  BY <1>6, <1>7, <1>8, SumNext, Zenon
<1>10. x # z
  BY <1>5, <1>9, Zenon
<1>11. ASSUME NEW U \in SUBSET T, U # T, NEW w \in U PROVE Sum(f, U) = f[w] + Sum(f, U \ {w})
  <2>1. U \in SUBSET S /\ U \notin B
    BY <1>4, <1>6, <1>11, Zenon
  <2> QED BY <1>1, <1>11, <2>1, Zenon
<1>12. Sum(f, T \ {x}) = f[z] + Sum(f, (T \ {x}) \ {z})
  <2>1. T \ {x} \in SUBSET T /\ T \ {x} # T /\ z \in T \ {x}
    BY <1>5, <1>8, <1>10, Zenon
  <2> QED BY <1>11, <2>1, Zenon
<1>13. Sum(f, T \ {z}) = f[x] + Sum(f, (T \ {z}) \ {x})
  <2>1. T \ {z} \in SUBSET T /\ T \ {z} # T /\ x \in T \ {z}
    BY <1>5, <1>8, <1>10, Zenon
  <2> QED BY <1>11, <2>1, Zenon
<1>14. (T \ {z}) \ {x} = (T \ {x}) \ {z}
  BY Zenon
<1>15. Sum(f, (T \ {x}) \ {z}) \in Nat /\ f[x] \in Nat /\ f[z] \in Nat
  <2>1. (T \ {x}) \ {z} \in SUBSET S
    BY <1>6, Zenon
  <2>2. IsFiniteSet((T \ {x}) \ {z}) /\ Natural(f, (T \ {x}) \ {z})
    BY <2>1, FS_Subset, Zenon DEF Natural
  <2> QED BY <1>8, <2>2, SumNat, Zenon DEF Natural
<1>16. PICK n : n = Sum(f, (T \ {x}) \ {z})
  OBVIOUS
<1>17. Sum(f, T) = f[x] + (f[z] + n) /\ f[z] + Sum(f, T \ {z}) = f[z] + (f[x] + n)
  BY <1>9, <1>12, <1>13, <1>14, <1>16, Zenon
<1>18. n \in Nat /\ f[x] \in Nat /\ f[z] \in Nat
  BY <1>15, <1>16, Zenon
<1>19. f[x] + (f[z] + n) = f[z] + (f[x] + n)
  BY <1>18, SMT
<1> QED BY <1>5, <1>17, <1>19, Zenon

\* A sum depends on the amounts of its elements only.
LEMMA SumSame ==
  ASSUME NEW S, NEW f, NEW h, \A r \in S : f[r] = h[r]
  PROVE  Sum(f, S) = Sum(h, S)
<1>1. ASSUME NEW s \in SUBSET S, NEW g
      PROVE  (IF s = {} THEN 0 ELSE f[Any(s)] + g[s \ {Any(s)}]) = IF s = {} THEN 0 ELSE h[Any(s)] + g[s \ {Any(s)}]
  BY AnyIn, Zenon
<1>2. \A g : IsFold(g, f, S) <=> IsFold(g, h, S)
  BY <1>1, Zenon DEF IsFold
<1>3. (CHOOSE g : IsFold(g, f, S)) = (CHOOSE g : IsFold(g, h, S))
  BY <1>2
<1> QED BY <1>3, SumIsFold, Zenon

\* Fewer reservations have no larger sum.
LEMMA SumSubset ==
  ASSUME NEW S, IsFiniteSet(S), NEW f, Natural(f, S), NEW R \in SUBSET S
  PROVE  Sum(f, R) <= Sum(f, S)
<1>1. PICK B : B = {U \in SUBSET S : \E T \in SUBSET U : ~(Sum(f, T) <= Sum(f, U))}
  BY Zenon
<1>2. SUFFICES ASSUME B # {} PROVE FALSE
  BY <1>1, Zenon
<1>3. B \in SUBSET SUBSET S
  BY <1>1, Zenon
<1>4. PICK U \in B : \A v \in B : v \subseteq U => v = U
  BY <1>2, <1>3, Induct
<1>5. PICK T \in SUBSET U : ~(Sum(f, T) <= Sum(f, U))
  BY <1>1, <1>4, Zenon
<1>6. ASSUME NEW V \in SUBSET S PROVE IsFiniteSet(V) /\ Natural(f, V) /\ Sum(f, V) \in Nat
  <2>1. IsFiniteSet(V) /\ Natural(f, V)
    BY FS_Subset, Zenon DEF Natural
  <2> QED BY <2>1, SumNat, Zenon
<1>7. U \in SUBSET S
  BY <1>1, <1>4, Zenon
<1>8. Sum(f, U) \in Nat /\ IsFiniteSet(U) /\ Natural(f, U)
  BY <1>6, <1>7, Zenon
<1>9. T # U
  BY <1>5, <1>8, SMT
<1>10. PICK x \in U : x \notin T
  BY <1>5, <1>9, Zenon
<1>11. U \ {x} \in SUBSET S /\ U \ {x} \subseteq U /\ U \ {x} # U /\ T \in SUBSET (U \ {x}) /\ T \in SUBSET S
  BY <1>5, <1>7, <1>10, Zenon
<1>12. Sum(f, T) <= Sum(f, U \ {x})
  <2>1. U \ {x} \notin B
    BY <1>4, <1>11, Zenon
  <2> QED BY <1>1, <1>11, <2>1, Zenon
<1>13. Sum(f, U) = f[x] + Sum(f, U \ {x})
  BY <1>8, <1>10, SumMember, Zenon
<1>14. Sum(f, T) \in Nat /\ Sum(f, U \ {x}) \in Nat /\ f[x] \in Nat
  BY <1>6, <1>8, <1>10, <1>11, Zenon DEF Natural
<1> QED BY <1>5, <1>12, <1>13, <1>14, SMT

\* A new reservation adds its amount to the sum.
LEMMA SumAdded ==
  ASSUME NEW S, IsFiniteSet(S), NEW x, x \notin S, NEW f, Natural(f, S \cup {x})
  PROVE  Sum(f, S \cup {x}) = Sum(f, S) + f[x] /\ Sum(f, S) \in Nat /\ f[x] \in Nat
<1>1. IsFiniteSet(S \cup {x})
  BY FS_AddElement, Zenon
<1>2. (S \cup {x}) \ {x} = S /\ x \in S \cup {x} /\ Natural(f, S)
  BY Zenon DEF Natural
<1>3. Sum(f, S \cup {x}) = f[x] + Sum(f, (S \cup {x}) \ {x})
  <2>1. PICK T : T = S \cup {x}
    OBVIOUS
  <2>2. IsFiniteSet(T) /\ x \in T /\ Natural(f, T)
    BY <1>1, <2>1, Zenon
  <2>3. Sum(f, T) = f[x] + Sum(f, T \ {x})
    BY <2>2, SumMember, Zenon
  <2> QED BY <2>1, <2>3, Zenon
<1>4. Sum(f, S) \in Nat /\ f[x] \in Nat
  BY <1>2, SumNat, Zenon DEF Natural
<1>5. Sum(f, S \cup {x}) = f[x] + Sum(f, S)
  BY <1>2, <1>3, Zenon
<1>6. PICK n : n = Sum(f, S)
  OBVIOUS
<1>7. f[x] + n = n + f[x]
  BY <1>4, <1>6, SMT
<1> QED BY <1>4, <1>5, <1>6, <1>7, Zenon

\* Changing one amount changes the sum by the difference.
LEMMA SumUpdated ==
  ASSUME NEW S, IsFiniteSet(S), NEW f \in [S -> Nat], NEW g \in [S -> Nat], NEW x \in S,
         \A r \in S \ {x} : g[r] = f[r]
  PROVE  /\ Sum(f, S) \in Nat /\ Sum(g, S) \in Nat /\ f[x] \in Nat /\ g[x] \in Nat
         /\ f[x] <= Sum(f, S) /\ Sum(g, S) = (Sum(f, S) - f[x]) + g[x]
<1>1. PICK T : T = S \ {x}
  BY Zenon
<1>2. Natural(f, S) /\ Natural(g, S) /\ Natural(f, T) /\ IsFiniteSet(T)
  BY <1>1, FS_Subset, Zenon DEF Natural
<1>3. Sum(f, S) = f[x] + Sum(f, T) /\ Sum(g, S) = g[x] + Sum(g, T)
  BY <1>1, <1>2, SumMember, Zenon
<1>4. Sum(f, T) = Sum(g, T)
  BY <1>1, SumSame
<1>5. PICK n : n = Sum(f, T)
  OBVIOUS
<1>6. n \in Nat /\ f[x] \in Nat /\ g[x] \in Nat
  BY <1>2, <1>5, SumNat, Zenon DEF Natural
<1>7. Sum(f, S) = f[x] + n /\ Sum(g, S) = g[x] + n
  BY <1>3, <1>4, <1>5, Zenon
<1>8. /\ g[x] + n = ((f[x] + n) - f[x]) + g[x] /\ f[x] + n \in Nat /\ g[x] + n \in Nat
      /\ f[x] <= f[x] + n
  BY <1>6
<1> QED BY <1>6, <1>7, <1>8, Zenon

\* Larger amounts have the larger sum.
LEMMA SumGrows ==
  ASSUME NEW S, IsFiniteSet(S), NEW f, NEW g, Natural(f, S), Natural(g, S), \A r \in S : f[r] <= g[r]
  PROVE  Sum(f, S) <= Sum(g, S)
<1>1. PICK B : B = {T \in SUBSET S : ~(Sum(f, T) <= Sum(g, T))}
  BY Zenon
<1>2. SUFFICES ASSUME B # {} PROVE FALSE
  BY <1>1, Zenon
<1>3. B \in SUBSET SUBSET S
  BY <1>1, Zenon
<1>4. PICK T \in B : \A v \in B : v \subseteq T => v = T
  BY <1>2, <1>3, Induct
<1>5. T \in SUBSET S /\ ~(Sum(f, T) <= Sum(g, T)) /\ IsFiniteSet(T)
  BY <1>1, <1>4, FS_Subset, Zenon
<1>6. T # {}
  BY <1>5, SumEmpty, SMT
<1>7. PICK x : x = Any(T)
  OBVIOUS
<1>8. x \in T /\ f[x] \in Nat /\ g[x] \in Nat /\ f[x] <= g[x]
  BY <1>5, <1>6, <1>7, AnyIn, Zenon DEF Natural
<1>9. PICK U : U = T \ {x}
  BY Zenon
<1>10. Sum(f, U) <= Sum(g, U)
  <2>1. U \in SUBSET S /\ U \subseteq T /\ U # T
    BY <1>5, <1>8, <1>9, Zenon
  <2> QED BY <1>1, <1>4, <2>1, Zenon
<1>11. Sum(f, U) \in Nat /\ Sum(g, U) \in Nat
  <2>1. IsFiniteSet(U) /\ Natural(f, U) /\ Natural(g, U)
    BY <1>5, <1>9, FS_Subset, Zenon DEF Natural
  <2> QED BY <2>1, SumNat, Zenon
<1>12. Sum(f, T) = f[x] + Sum(f, U) /\ Sum(g, T) = g[x] + Sum(g, U)
  BY <1>5, <1>6, <1>7, <1>9, SumNext, Zenon
<1> QED BY <1>5, <1>8, <1>10, <1>11, <1>12, SMT

\* Nothing adds up to nothing.
LEMMA SumZero == ASSUME NEW S, IsFiniteSet(S), NEW f, \A r \in S : f[r] = 0 PROVE Sum(f, S) = 0
<1>1. PICK B : B = {T \in SUBSET S : Sum(f, T) # 0}
  BY Zenon
<1>2. SUFFICES ASSUME B # {} PROVE FALSE
  BY <1>1, Zenon
<1>3. B \in SUBSET SUBSET S
  BY <1>1, Zenon
<1>4. PICK T \in B : \A v \in B : v \subseteq T => v = T
  BY <1>2, <1>3, Induct
<1>5. T \in SUBSET S /\ Sum(f, T) # 0 /\ IsFiniteSet(T)
  BY <1>1, <1>4, FS_Subset, Zenon
<1>6. T # {}
  BY <1>5, SumEmpty, Zenon
<1>7. PICK x : x = Any(T)
  OBVIOUS
<1>8. x \in T /\ f[x] = 0
  BY <1>5, <1>6, <1>7, AnyIn, Zenon
<1>9. Sum(f, T \ {x}) = 0
  <2>1. T \ {x} \in SUBSET S /\ T \ {x} \subseteq T /\ T \ {x} # T
    BY <1>5, <1>8, Zenon
  <2> QED BY <1>1, <1>4, <2>1, Zenon
<1>10. Sum(f, T) = f[x] + Sum(f, T \ {x})
  BY <1>5, <1>6, <1>7, SumNext, Zenon
<1> QED BY <1>5, <1>8, <1>9, <1>10, SMT

\* One of finitely many integers is the greatest.
LEMMA Greatest ==
  ASSUME NEW S, IsFiniteSet(S), S # {}, NEW f, \A x \in S : f[x] \in Int
  PROVE  \E m \in S : \A y \in S : f[y] <= f[m]
<1>1. PICK B : B = {T \in SUBSET S : T # {} /\ ~\E m \in T : \A y \in T : f[y] <= f[m]}
  BY Zenon
<1>2. SUFFICES ASSUME B # {} PROVE FALSE
  BY <1>1, Zenon
<1>3. B \in SUBSET SUBSET S
  BY <1>1, Zenon
<1>4. PICK T \in B : \A v \in B : v \subseteq T => v = T
  BY <1>2, <1>3, Induct
<1>5. T \in SUBSET S /\ T # {} /\ ~\E m \in T : \A y \in T : f[y] <= f[m]
  BY <1>1, <1>4, Zenon
<1>6. PICK x \in T : TRUE
  BY <1>5, Zenon
<1>7. PICK U : U = T \ {x}
  BY Zenon
<1>8. U \in SUBSET S /\ U \subseteq T /\ U # T /\ \A y \in T : y = x \/ y \in U
  BY <1>5, <1>6, <1>7, Zenon
<1>9. \A y \in T : f[y] \in Int
  BY <1>5, Zenon
<1>10. CASE U = {}
  <2>1. \A y \in T : f[y] <= f[x]
    BY <1>6, <1>8, <1>9, <1>10
  <2> QED BY <1>5, <1>6, <2>1, Zenon
<1>11. CASE U # {}
  <2>1. PICK m \in U : \A y \in U : f[y] <= f[m]
    BY <1>1, <1>4, <1>8, <1>11, Zenon
  <2>2. m \in T
    BY <1>8, <2>1, Zenon
  <2>3. CASE f[x] <= f[m]
    BY <1>5, <1>8, <2>1, <2>2, <2>3, Zenon
  <2>4. CASE ~(f[x] <= f[m])
    <3>1. \A y \in T : f[y] <= f[x]
      BY <1>6, <1>8, <1>9, <2>1, <2>2, <2>4
    <3> QED BY <1>5, <1>6, <3>1, Zenon
  <2> QED BY <2>3, <2>4
<1> QED BY <1>10, <1>11

\* Max is the greatest element, if there is one.
LEMMA MaxIs ==
  ASSUME NEW S, S \subseteq Int, NEW m \in S, \A y \in S : m >= y
  PROVE  Max(S) = m
<1>1. PICK z : z = CHOOSE x \in S : \A y \in S : x >= y
  OBVIOUS
<1>2. z \in S /\ \A y \in S : z >= y
  BY <1>1, Zenon
<1>3. z = m
  BY <1>2
<1> QED BY <1>1, <1>3 DEF Max

\* A cost is a natural number, or no cost when an argument is negative (budget.go:14).
LEMMA CostRange ==
  ASSUME NEW p \in Int, NEW c \in Int, NEW i \in Int, NEW o \in Int
  PROVE  /\ CostMicroUSD(p, c, i, o) \in Nat \cup {Overflow}
         /\ CostMicroUSD(p, c, i, o) # Overflow => p >= 0 /\ c >= 0 /\ i >= 0 /\ o >= 0
<1>1. CASE p < 0 \/ c < 0 \/ i < 0 \/ o < 0
  BY <1>1 DEF CostMicroUSD
<1>2. CASE p >= 0 /\ c >= 0 /\ i >= 0 /\ o >= 0
  <2>1. p * i \in Nat /\ c * o \in Nat
    BY <1>2, Z3
  <2>2. Ceiling(Total(p, c, i, o)) \in Nat
    BY <2>1, CeilingCovers DEF Total
  <2> QED BY <1>2, <2>2 DEF CostMicroUSD
<1> QED BY <1>1, <1>2
===============================================================================
