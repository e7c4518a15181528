---------------------------- MODULE SpendingProofs ----------------------------
(* What the calls of ChatEndpoint spend and reserve, for any finite number of *)
(* requests and providers and any prices: the monthly budget is kept as far   *)
(* as providers keep to the estimates.                                        *)
EXTENDS EndpointProofs, BudgetProofs

Tariff(p, q) == CostMicroUSD(Estimate.prompt, Estimate.completion, InputPrice[p], OutputPrice[q])

\* The price of a finite, nonempty policy is that of one of its providers.
LEMMA HighestIs ==
  ASSUME NEW S \in SUBSET Provider, S # {}, NEW price, \A p \in Provider : price[p] \in Int
  PROVE  \E m \in S : Max({price[p] : p \in S}) = price[m] /\ \A p \in S : price[p] <= price[m]
<1>1. IsFiniteSet(S)
  BY PriceAssumption, FS_Subset, Zenon
<1>2. PICK m \in S : \A p \in S : price[p] <= price[m]
  BY <1>1, Greatest, Zenon
<1>3. PICK T : T = {price[p] : p \in S}
  BY Zenon
<1>4. T \subseteq Int /\ price[m] \in T
  BY <1>2, <1>3, Zenon
<1>5. \A y \in T : price[m] >= y
  BY <1>2, <1>3, <1>4
<1>6. Max(T) = price[m]
  BY <1>4, <1>5, MaxIs, Zenon
<1> QED BY <1>2, <1>3, <1>6, Zenon

\* The estimate and the prices are integers.
LEMMA Prices ==
  /\ Estimate.prompt \in Int /\ Estimate.completion \in Int
  /\ \A p \in Provider : InputPrice[p] \in Int /\ OutputPrice[p] \in Int
  /\ \A u \in Usage : u.prompt \in Int /\ u.completion \in Int
  /\ MonthlyBudget \in Int /\ MonthlyBudget <= MaxInt /\ MaxInt \in Nat
<1>1. Machine \subseteq Int /\ (\A n \in Machine : n <= MaxInt) /\ MaxInt \in Nat
  BY BudgetAssumption DEF Machine, MinInt
<1>2. NoUsage.prompt \in Int /\ NoUsage.completion \in Int
  BY DEF NoUsage
<1>3. \A u \in Usages \cup {Estimate} : u.prompt \in Machine /\ u.completion \in Machine
  BY PriceAssumption, Zenon
<1>4. /\ MonthlyBudget \in Machine
      /\ \A p \in Provider : InputPrice[p] \in Machine /\ OutputPrice[p] \in Machine
  BY PriceAssumption, Zenon
<1> QED BY <1>1, <1>2, <1>3, <1>4, Zenon DEF Usage

\* A reservation at the highest prices covers the estimate at any prices of the policy.
LEMMA DearestIs ==
  ASSUME policy \in SUBSET Provider
  PROVE  /\ Dearest \in Nat
         /\ policy # {} => reservation \in Int /\ (reservation >= 0 => Dearest <= reservation)
<1>1. \A p, q \in policy : Tariff(p, q) \in Nat \cup {Overflow}
  BY Prices, CostRange, Zenon DEF Tariff
<1>2. PICK D : D = {0} \cup {Tariff(x[1], x[2]) : x \in policy \X policy}
  BY Zenon
<1>3. Dearest = Max(D)
  BY <1>2, Zenon DEF Dearest, Tariff
<1>4. D \subseteq Int /\ 0 \in D
  <2>1. \A x \in policy \X policy : x[1] \in policy /\ x[2] \in policy
    OBVIOUS
  <2>2. D \subseteq {0} \cup Nat \cup {Overflow} /\ 0 \in D
    BY <1>1, <1>2, <2>1, Zenon
  <2> QED BY <2>2 DEF Overflow
<1>5. \E m \in D : \A y \in D : m >= y
  <2>1. CASE policy = {}
    BY <1>2, <2>1
  <2>2. CASE policy # {}
    <3>1. PICK S : S = policy \X policy
      BY Zenon
    <3>2. PICK f : f = [x \in S |-> Tariff(x[1], x[2])]
      BY Zenon
    <3>3. IsFiniteSet(S) /\ S # {}
      <4>1. IsFiniteSet(policy)
        BY PriceAssumption, FS_Subset, Zenon
      <4>2. IsFiniteSet(S)
        BY <3>1, <4>1, FS_Product, Zenon
      <4>3. PICK p : p \in policy
        BY <2>2, Zenon
      <4>4. <<p, p>> \in policy \X policy
        BY <4>3
      <4>5. S # {}
        BY <3>1, <4>4, Zenon
      <4> QED BY <4>2, <4>5, Zenon
    <3>5. \A x \in S : x[1] \in policy /\ x[2] \in policy /\ f[x] = Tariff(x[1], x[2])
      BY <3>1, <3>2
    <3>6. \A x \in S : f[x] \in Int /\ f[x] \in D
      BY <1>2, <1>4, <3>1, <3>5, Zenon
    <3>7. PICK x \in S : \A y \in S : f[y] <= f[x]
      BY <3>3, <3>6, Greatest, Zenon
    <3>8. \A y \in D : y = 0 \/ y <= f[x]
      BY <1>2, <3>1, <3>5, <3>7, Zenon
    <3>9. CASE f[x] >= 0
      BY <3>6, <3>7, <3>8, <3>9, <1>4
    <3>10. CASE ~(f[x] >= 0)
      BY <3>6, <3>7, <3>8, <3>10, <1>4
    <3> QED BY <3>9, <3>10
  <2> QED BY <2>1, <2>2
<1>6. PICK m \in D : \A y \in D : m >= y
  BY <1>5
<1>7. Dearest = m
  BY <1>3, <1>4, <1>6, MaxIs, Zenon
<1>8. Dearest \in Nat
  BY <1>4, <1>6, <1>7
<1>9. ASSUME policy # {}
      PROVE  reservation \in Int /\ (reservation >= 0 => Dearest <= reservation)
  <2>1. PICK i \in policy : HighestPrice(InputPrice) = InputPrice[i] /\ \A p \in policy : InputPrice[p] <= InputPrice[i]
    BY <1>9, HighestIs, Prices, Zenon DEF HighestPrice
  <2>2. PICK o \in policy : HighestPrice(OutputPrice) = OutputPrice[o] /\ \A p \in policy : OutputPrice[p] <= OutputPrice[o]
    BY <1>9, HighestIs, Prices, Zenon DEF HighestPrice
  <2>3. reservation = Tariff(i, o)
    BY <2>1, <2>2, Zenon DEF reservation, Tariff
  <2>4. reservation \in Nat \cup {Overflow}
    BY <1>1, <2>3, Zenon
  <2>5. ASSUME reservation >= 0, NEW p \in policy, NEW q \in policy PROVE Tariff(p, q) <= reservation
    <3>1. Tariff(i, o) # Overflow
      BY <2>3, <2>5 DEF Overflow
    <3>2. Estimate.prompt \in Nat /\ Estimate.completion \in Nat
      BY <3>1, Prices, CostRange DEF Tariff
    <3>3. CASE InputPrice[p] < 0 \/ OutputPrice[q] < 0
      <4>1. Tariff(p, q) = Overflow
        BY <3>3, Zenon DEF Tariff, CostMicroUSD
      <4>2. -1 <= reservation
        BY <2>4, <2>5 DEF Overflow
      <4> QED BY <4>1, <4>2, Zenon DEF Overflow
    <3>4. CASE ~(InputPrice[p] < 0 \/ OutputPrice[q] < 0)
      <4>1. InputPrice[p] \in Nat /\ OutputPrice[q] \in Nat /\ InputPrice[i] \in Nat /\ OutputPrice[o] \in Nat
            /\ InputPrice[p] <= InputPrice[i] /\ OutputPrice[q] <= OutputPrice[o]
        BY <3>4, <2>1, <2>2, Prices
      <4>2. Estimate.prompt <= Estimate.prompt /\ Estimate.completion <= Estimate.completion
        BY <3>2
      <4> QED BY <2>3, <3>1, <3>2, <4>1, <4>2, ReservationCovers, Zenon DEF Tariff
    <3> QED BY <3>3, <3>4
  <2>6. ASSUME reservation >= 0 PROVE Dearest <= reservation
    <3>1. m = 0 \/ \E x \in policy \X policy : m = Tariff(x[1], x[2])
      BY <1>2, <1>6, Zenon
    <3>2. \A x \in policy \X policy : x[1] \in policy /\ x[2] \in policy
      OBVIOUS
    <3>3. m = 0 \/ m <= reservation
      BY <2>5, <2>6, <3>1, <3>2, Zenon
    <3> QED BY <1>7, <2>6, <3>3
  <2> QED BY <2>4, <2>6 DEF Overflow
<1> QED BY <1>8, <1>9

\* A request costs an integer, and overruns by at least what it costs beyond Dearest.
LEMMA Overruns ==
  ASSUME TypeOK, policy # None, NEW k \in Key
  PROVE  /\ policy \in SUBSET Provider
         /\ requests[k].cost \in Int
         /\ Overrun(k) \in Nat
         /\ requests[k].cost - Dearest <= Overrun(k)
         /\ requests[k].cost = 0 => Overrun(k) = 0
<1>1. policy \in SUBSET Provider
  BY EndpointAssumption, Zenon DEF TypeOK
<1>2. requests[k].cost \in Costs
  BY Zenon DEF TypeOK, RowType
<1>3. \A u \in Usage, p \in Provider :
        CostMicroUSD(u.prompt, u.completion, InputPrice[p], OutputPrice[p]) \in Nat \cup {Overflow}
  BY Prices, CostRange, Zenon
<1>4. requests[k].cost \in {0} \cup Nat \cup {Overflow}
  <2>1. requests[k].cost = 0 \/ \E u \in Usage, p \in Provider :
          requests[k].cost = CostMicroUSD(u.prompt, u.completion, InputPrice[p], OutputPrice[p])
    BY <1>2 DEF Costs
  <2> QED BY <1>3, <2>1, Zenon
<1>5. PICK c : c = requests[k].cost
  OBVIOUS
<1>6. c \in Int /\ Dearest \in Nat
  BY <1>1, <1>4, <1>5, DearestIs DEF Overflow
<1>7. PICK T : T = {0, c - Dearest}
  BY Zenon
<1>8. T \subseteq Int /\ Overrun(k) = Max(T)
  BY <1>5, <1>6, <1>7 DEF Overrun
<1>9. CASE c - Dearest >= 0
  <2>1. Max(T) = c - Dearest
    BY <1>6, <1>7, <1>8, <1>9, MaxIs
  <2> QED BY <1>1, <1>5, <1>6, <1>8, <1>9, <2>1
<1>10. CASE ~(c - Dearest >= 0)
  <2>1. Max(T) = 0
    BY <1>6, <1>7, <1>8, <1>10, MaxIs
  <2> QED BY <1>1, <1>5, <1>6, <1>8, <1>10, <2>1
<1> QED BY <1>9, <1>10

\* What the sums of Money are sums of.
LEMMA Amounts ==
  ASSUME TypeOK, policy # None
  PROVE  /\ Counts \in [Key -> Nat] /\ Sum(Counts, Key) \in Nat
         /\ Dearest \in Nat /\ IsFiniteSet(Key)
<1>1. \A k \in Key : Overrun(k) \in Nat
  BY Overruns, Zenon
<1>2. Counts \in [Key -> Nat]
  BY <1>1 DEF Counts
<1>3. IsFiniteSet(Key)
  BY PriceAssumption, Zenon
<1>4. Sum(Counts, Key) \in Nat
  <2>1. Natural(Counts, Key)
    BY <1>2, Zenon DEF Natural
  <2> QED BY <1>3, <2>1, SumNat, Zenon
<1>5. policy \in SUBSET Provider
  BY EndpointAssumption, Zenon DEF TypeOK
<1> QED BY <1>2, <1>3, <1>4, <1>5, DearestIs

\* A sum over the requests of which one changes.
LEMMA OneAmount ==
  ASSUME NEW f \in [Key -> Nat], NEW g \in [Key -> Nat], NEW k \in Key,
         \A j \in Key \ {k} : g[j] = f[j]
  PROVE  /\ Sum(f, Key) \in Nat /\ Sum(g, Key) \in Nat /\ f[k] \in Nat /\ g[k] \in Nat
         /\ f[k] <= Sum(f, Key) /\ Sum(g, Key) = (Sum(f, Key) - f[k]) + g[k]
<1>1. IsFiniteSet(Key)
  BY PriceAssumption, Zenon
<1> QED BY <1>1, SumUpdated

\* Complete writes the cost into the record; the books have it once it is settled.
LEMMA CompleteMoney ==
  ASSUME EndpointInv, Money, policy # None, NEW h \in Handler, Complete(h), EndpointInv'
  PROVE  Money'
<1>1. handler[h].pc = "complete"
  BY Zenon DEF Complete, At
<1>2. keyOf(h) \in Key /\ Rows /\ handler[h] \in HandlerType /\ handler[h].pc # "settle"
  BY <1>1, Running
<1>3. ASSUME UNCHANGED storeVars, NEW e, ReturnError(h, e) PROVE Money'
  <2>1. Books
    BY <1>2, <1>3, StoreBooks, Zenon
  <2> QED BY <1>2, <1>3, <2>1, LeaveMoves, Still, Zenon DEF ReturnError, Answer
<1>4. ASSUME actual(h) # Overflow, Goto(h, "settle"),
             CompleteRequest(keyOf(h), handler[h].attempt, handler[h].content, actual(h))
      PROVE  Money'
  <2>1. PICK k \in Key : k = keyOf(h)
    BY <1>2
  <2>2. PICK r : r = [handler[h] EXCEPT !.pc = "settle"]
    BY Zenon
  <2>3. /\ r.pc = "settle" /\ r.key = handler[h].key
        /\ r.usage = handler[h].usage /\ r.provider = handler[h].provider
    BY <1>2, <2>2, Zenon DEF HandlerType
  <2>4. handler' = [handler EXCEPT ![h] = r] /\ UNCHANGED policy
    BY <1>4, <2>2, Zenon DEF Goto
  <2>5. handler'[h] = r /\ \A g \in Handler \ {h} : handler'[g] = handler[g]
    BY <2>4, Zenon DEF EndpointInv, TypeOK
  <2>6. keyOf(h)' = k /\ actual(h)' = actual(h)
    BY <2>1, <2>3, <2>5, Zenon DEF keyOf, actual
  <2>7. /\ requests[k].cost = 0 /\ requests'[k].cost = actual(h)
        /\ \A j \in Key \ {k} : requests'[j] = requests[j]
        /\ reservations' = reservations /\ used' = used
    <3>1. requests[k].state # Completed
      BY <1>4, <2>1 DEF CompleteRequest, state, InProgress, Completed
    <3>2. requests[k].cost = 0 /\ requests[k] \in RowType /\ requests \in [Key -> RowType]
      BY <1>2, <3>1, Zenon DEF Rows, RowInv
    <3>3. PICK row : row = [requests[k] EXCEPT !.state = Completed, !.response = handler[h].content,
                                              !.cost = actual(h)]
      OBVIOUS
    <3>4. row.cost = actual(h)
      BY <3>2, <3>3, Zenon DEF RowType
    <3>5. requests' = [requests EXCEPT ![k] = row] /\ reservations' = reservations /\ used' = used
      BY <1>4, <2>1, <3>3, Zenon DEF CompleteRequest
    <3> QED BY <3>2, <3>4, <3>5, Zenon
  <2>8. handler[h].pc \in Backed \cup {"reserve"} /\ "settle" \in Backed
    BY <1>1 DEF Backed, Looping
  <2>9. /\ Dearest' = Dearest
        /\ \A g \in Handler \ {h} : CallMoney(g)'
        /\ \A j \in Key \ {k} : Counts'[j] = Counts[j]
    <3>1. handler'[h].key = k /\ UNCHANGED policy
      BY <2>1, <2>3, <2>4, <2>5, Zenon DEF keyOf
    <3>2. \A j \in Key \ {k} : /\ reservations'[j] = reservations[j]
                               /\ requests'[j].cost = requests[j].cost
      BY <2>7, Zenon
    <3>3. /\ Dearest' = Dearest
          /\ \A g \in Handler \ {h} : CallMoney(g)' /\ (handler[g].pc = "settle" => keyOf(g) # k)
          /\ \A j \in Key \ {k} : Counts'[j] = Counts[j]
      BY <2>1, <2>5, <2>8, <3>1, <3>2, OthersMoney, Zenon
    <3> QED BY <3>3, Zenon
  <2>10. Counts'[k] = Counts[k]
    <3>1. Settling(k)'
      BY <2>3, <2>5, <2>6, Zenon DEF Settling
    <3>2. Overrun(k) = 0
      BY <2>7, Overruns, Zenon DEF EndpointInv
    <3> QED BY <3>1, <3>2, Zenon DEF Counts
  <2>11. Counts' = Counts
    <3>1. \A j \in Key : Counts'[j] = Counts[j]
      BY <2>9, <2>10, Zenon
    <3> QED BY <3>1, Zenon DEF Counts
  <2>12. actual(h) \in Nat
    <3>1. requests'[k].cost \in Costs
      BY Zenon DEF EndpointInv, TypeOK, RowType
    <3>2. actual(h) = 0 \/ \E u \in Usage, p \in Provider :
            actual(h) = CostMicroUSD(u.prompt, u.completion, InputPrice[p], OutputPrice[p])
      BY <2>7, <3>1 DEF Costs
    <3>3. \A u \in Usage, p \in Provider :
            CostMicroUSD(u.prompt, u.completion, InputPrice[p], OutputPrice[p]) \in Nat \cup {Overflow}
      BY Prices, CostRange, Zenon
    <3>4. actual(h) \in {0} \cup Nat \cup {Overflow}
      BY <3>2, <3>3, Zenon
    <3> QED BY <1>4, <3>4
  <2>13. CallMoney(h)'
    <3>1. handler'[h].pc = "settle" /\ "settle" # "reserve"
      BY <2>3, <2>5
    <3>2. Dearest <= reservations[k]
      BY <2>1, <2>8, <1>1, Zenon DEF Money, CallMoney
    <3>3. Dearest' <= reservations'[keyOf(h)']
      BY <2>6, <2>7, <2>9, <3>2, Zenon
    <3>4. requests'[keyOf(h)'].cost = actual(h)' /\ actual(h)' \in Nat
      BY <2>6, <2>7, <2>12, Zenon
    <3> QED BY <3>1, <3>3, <3>4, Zenon DEF CallMoney, keyOf
  <2> QED BY <2>7, <2>9, <2>11, <2>13, Zenon DEF Money
<1> QED BY <1>3, <1>4, Zenon DEF Complete

\* ReserveBudget admits what fits, at prices no provider of the policy exceeds.
LEMMA ReserveMoney ==
  ASSUME EndpointInv, Money, MonthlyBudget > 0, policy # None, NEW h \in Handler, Reserve(h)
  PROVE  Money'
<1>1. handler[h].pc = "reserve"
  BY Zenon DEF Reserve, At
<1>2. keyOf(h) \in Key /\ Rows /\ handler[h] \in HandlerType /\ handler[h].pc # "settle"
  BY <1>1, Running
<1>3. ASSUME UNCHANGED storeVars, Goto(h, "reject") PROVE Money'
  <2>1. Books
    BY <1>2, <1>3, StoreBooks, Zenon
  <2> QED BY <1>2, <1>3, <2>1, GotoMoves, Still, Lines, Zenon
<1>4. ASSUME ReserveBudget(keyOf(h), reservation), Goto(h, "route") PROVE Money'
  <2>1. PICK k \in Key : k = keyOf(h)
    BY <1>2
  <2>2. PICK r : r = [handler[h] EXCEPT !.pc = "route"]
    BY Zenon
  <2>3. r.pc = "route" /\ r.key = k
    BY <1>2, <2>1, <2>2, Zenon DEF HandlerType, keyOf
  <2>4. handler' = [handler EXCEPT ![h] = r] /\ UNCHANGED policy
    BY <1>4, <2>2, Zenon DEF Goto
  <2>5. handler'[h] = r /\ \A g \in Handler \ {h} : handler'[g] = handler[g]
    BY <2>4, Zenon DEF EndpointInv, TypeOK
  <2>6. /\ reservations' = [reservations EXCEPT ![k] = reservation] /\ used' = used
        /\ requests' = requests /\ CanReserve(MonthlyBudget, used, Sum(reservations, Key), reservation) = "ok"
    BY <1>4, <2>1, Zenon DEF ReserveBudget, sumMap
  <2>7. used \in Nat /\ reservations \in [Key -> Nat] /\ policy # {}
    BY <1>1, Zenon DEF Money, CallMoney
  <2>8. reservation \in Nat /\ Dearest <= reservation
    <3>1. policy \in SUBSET Provider
      BY EndpointAssumption, Zenon DEF EndpointInv, TypeOK
    <3>2. reservation \in Int /\ (reservation >= 0 => Dearest <= reservation)
      BY <2>7, <3>1, DearestIs, Zenon
    <3>3. ~(reservation < 0)
      BY <2>6, <3>2, Prices DEF CanReserve
    <3> QED BY <3>2, <3>3
  <2>9. reservations' \in [Key -> Nat] /\ reservations'[k] = reservation
        /\ \A j \in Key \ {k} : reservations'[j] = reservations[j]
    BY <2>6, <2>7, <2>8
  <2>10. handler[h].pc \in Backed \cup {"reserve"}
    BY <1>1
  <2>11. /\ Dearest' = Dearest
         /\ \A g \in Handler \ {h} : CallMoney(g)'
         /\ \A j \in Key \ {k} : Counts'[j] = Counts[j]
    <3>1. handler'[h].key = k /\ UNCHANGED policy
      BY <2>3, <2>4, <2>5, Zenon
    <3>2. \A j \in Key \ {k} : /\ reservations'[j] = reservations[j]
                               /\ requests'[j].cost = requests[j].cost
      BY <2>6, <2>9, Zenon
    <3>3. /\ Dearest' = Dearest
          /\ \A g \in Handler \ {h} : CallMoney(g)' /\ (handler[g].pc = "settle" => keyOf(g) # k)
          /\ \A j \in Key \ {k} : Counts'[j] = Counts[j]
      BY <2>1, <2>5, <2>10, <3>1, <3>2, OthersMoney, Zenon
    <3> QED BY <3>3, Zenon
  <2>12. Counts' = Counts
    <3>1. \A j \in Key : Overrun(j)' = Overrun(j)
      BY <2>4, <2>6, SameOverruns, Zenon
    <3>2. "route" # "settle"
      OBVIOUS
    <3>3. \A j \in Key : Settling(j)' <=> Settling(j)
      BY <1>2, <2>3, <2>5, <3>2, Zenon DEF Settling, keyOf
    <3> QED BY <3>1, <3>3, Zenon DEF Counts
  <2>13. CallMoney(h)'
    <3>1. handler'[h].pc # "reserve" /\ handler'[h].pc # "settle"
      BY <2>3, <2>5
    <3>2. handler'[h].key = k
      BY <2>3, <2>5, Zenon
    <3> QED BY <2>8, <2>9, <2>11, <3>1, <3>2, Zenon DEF CallMoney, keyOf
  <2>14. used' + Sum(reservations', Key) <= MonthlyBudget + Sum(Counts', Key)
    <3>1. /\ Sum(reservations, Key) \in Nat /\ reservations[k] \in Nat
          /\ reservations[k] <= Sum(reservations, Key)
          /\ Sum(reservations', Key) = (Sum(reservations, Key) - reservations[k]) + reservation
      BY <2>7, <2>9, OneAmount, Zenon
    <3>2. MonthlyBudget \in 1..MaxInt
      BY Prices
    <3>3. used + Sum(reservations, Key) + reservation <= MonthlyBudget
      BY <2>6, <2>7, <2>8, <3>1, <3>2, CanReserveExact
    <3>4. Sum(Counts', Key) \in Nat
      BY <2>12, Amounts, Zenon DEF EndpointInv
    <3> QED BY <2>6, <2>7, <2>8, <3>1, <3>2, <3>3, <3>4
  <2> QED BY <2>5, <2>6, <2>7, <2>9, <2>11, <2>13, <2>14, Zenon DEF Money
<1> QED BY <1>3, <1>4, Zenon DEF Reserve

\* ReconcileBudget exchanges a reservation of at least Dearest for what the request cost.
LEMMA ReconcileMoney ==
  ASSUME EndpointInv, Money, policy # None, NEW h \in Handler, NEW a \in Nat,
         ReconcileBudget(keyOf(h), a), Answer(h),
         \/ handler[h].pc = "settle" /\ a = requests[keyOf(h)].cost
         \/ handler[h].pc = "reconcile" /\ a = 0
  PROVE  Money'
<1>1. keyOf(h) \in Key /\ Rows /\ handler[h] \in HandlerType /\ handler[h].pc \in Backed
  <2>1. handler[h].pc \in Backed /\ handler[h].pc \notin {"idle", "answered"}
    BY DEF Backed
  <2> QED BY <2>1, Running, Zenon
<1>2. PICK k \in Key : k = keyOf(h)
  BY <1>1
<1>3. PICK r : r = [Idle EXCEPT !.pc = "answered", !.key = k, !.input = handler[h].input,
                                !.attempt = handler[h].attempt]
  OBVIOUS
<1>4. r.pc = "answered" /\ r.key = k
  BY <1>3 DEF Idle
<1>5. handler' = [handler EXCEPT ![h] = r] /\ UNCHANGED policy
  BY <1>2, <1>3, Zenon DEF Answer, Leave
<1>6. handler'[h] = r /\ \A g \in Handler \ {h} : handler'[g] = handler[g]
  BY <1>5, Zenon DEF EndpointInv, TypeOK
<1>7. used' = used + a /\ reservations' = [reservations EXCEPT ![k] = 0] /\ requests' = requests
  BY <1>2, Zenon DEF ReconcileBudget
<1>8. used \in Nat /\ reservations \in [Key -> Nat] /\ Dearest <= reservations[k]
  BY <1>1, <1>2, Zenon DEF Money, CallMoney
<1>9. used' \in Nat /\ reservations' \in [Key -> Nat] /\ reservations'[k] = 0
      /\ \A j \in Key \ {k} : reservations'[j] = reservations[j]
  BY <1>7, <1>8
<1>10. /\ Dearest' = Dearest
       /\ \A g \in Handler \ {h} : CallMoney(g)' /\ (handler[g].pc = "settle" => keyOf(g) # k)
       /\ \A j \in Key \ {k} : Counts'[j] = Counts[j]
  <2>1. handler'[h].key = k /\ handler[h].pc \in Backed \cup {"reserve"}
    BY <1>1, <1>4, <1>6, Zenon
  <2>2. \A j \in Key \ {k} : /\ reservations'[j] = reservations[j]
                             /\ requests'[j].cost = requests[j].cost
    BY <1>7, <1>9, Zenon
  <2> QED BY <1>2, <1>5, <1>6, <2>1, <2>2, OthersMoney, Zenon
<1>11. CallMoney(h)'
  <2>1. "answered" \notin Backed /\ "answered" # "settle" /\ "answered" # "reserve"
    BY DEF Backed, Looping
  <2>2. handler'[h].pc = "answered"
    BY <1>4, <1>6, Zenon
  <2> QED BY <2>1, <2>2, Zenon DEF CallMoney
<1>12. ~Settling(k)' /\ Overrun(k)' = Overrun(k) /\ Counts'[k] = Overrun(k)
  <2>1. "answered" # "settle"
    OBVIOUS
  <2>2. ~Settling(k)'
    BY <1>4, <1>6, <1>10, <2>1, Zenon DEF Settling, keyOf
  <2>3. Overrun(k)' = Overrun(k)
    BY <1>5, <1>7, SameOverruns, Zenon
  <2> QED BY <2>2, <2>3, Zenon DEF Counts
<1>13. Counts[k] + (a - Dearest) <= Overrun(k) /\ Counts[k] \in Nat /\ Overrun(k) \in Nat /\ Dearest \in Nat
  <2>1. Overrun(k) \in Nat /\ requests[k].cost - Dearest <= Overrun(k) /\ Dearest \in Nat
    BY Overruns, Amounts, Zenon DEF EndpointInv
  <2>2. CASE handler[h].pc = "settle" /\ a = requests[keyOf(h)].cost
    <3>1. Settling(k)
      BY <1>2, <2>2, Zenon DEF Settling
    <3>2. Counts[k] = 0
      BY <3>1, Zenon DEF Counts
    <3> QED BY <1>2, <2>1, <2>2, <3>2
  <2>3. CASE handler[h].pc = "reconcile" /\ a = 0
    <3>1. handler[h].pc # "settle"
      BY <2>3
    <3>2. ~Settling(k)
      BY <1>10, <3>1, Zenon DEF Settling
    <3>3. Counts[k] = Overrun(k)
      BY <3>2, Zenon DEF Counts
    <3> QED BY <2>1, <2>3, <3>3
  <2> QED BY <2>2, <2>3
<1>14. Counts \in [Key -> Nat] /\ Counts' \in [Key -> Nat]
  <2>1. Counts \in [Key -> Nat]
    BY Amounts, Zenon DEF EndpointInv
  <2>2. DOMAIN Counts' = Key /\ Counts' = [j \in Key |-> Counts'[j]]
    BY Zenon DEF Counts
  <2>3. \A j \in Key : Counts'[j] \in Nat
    BY <1>10, <1>12, <1>13, <2>1, Zenon
  <2> QED BY <2>1, <2>2, <2>3
<1>15. used' + Sum(reservations', Key) <= MonthlyBudget + Sum(Counts', Key)
  <2>1. /\ Sum(reservations, Key) \in Nat /\ reservations[k] \in Nat
        /\ reservations[k] <= Sum(reservations, Key)
        /\ Sum(reservations', Key) = (Sum(reservations, Key) - reservations[k]) + 0
    BY <1>8, <1>9, OneAmount
  <2>2. /\ Sum(Counts, Key) \in Nat /\ Counts[k] <= Sum(Counts, Key)
        /\ Sum(Counts', Key) = (Sum(Counts, Key) - Counts[k]) + Overrun(k)
    BY <1>10, <1>12, <1>14, OneAmount, Zenon
  <2>3. used + Sum(reservations, Key) <= MonthlyBudget + Sum(Counts, Key) /\ MonthlyBudget \in Int
    BY Prices, Zenon DEF Money
  <2> QED BY <1>7, <1>8, <1>13, <2>1, <2>2, <2>3
<1> QED BY <1>9, <1>10, <1>11, <1>15, Zenon DEF Money

\* Every step keeps what covers the budget.
LEMMA MoneyStep ==
  ASSUME EndpointInv, EndpointInv', Limited => Money, [Next]_vars
  PROVE  (Limited => Money)'
<1> SUFFICES ASSUME Limited' PROVE Money'
  BY Zenon
<1>1. UNCHANGED policy
  BY PolicyKept, Zenon
<1>2. Money /\ MonthlyBudget > 0 /\ policy # None
  BY <1>1, Zenon DEF Limited
<1>3. ASSUME NEW h \in Handler, Settle(h) PROVE Money'
  <2>1. handler[h].pc = "settle" /\ ReconcileBudget(keyOf(h), actual(h)) /\ Answer(h)
    BY <1>3, Zenon DEF Settle, At
  <2>2. actual(h) \in Nat /\ actual(h) = requests[keyOf(h)].cost
    BY <1>2, <2>1, Zenon DEF Money, CallMoney
  <2> QED BY <1>2, <2>1, <2>2, ReconcileMoney, Zenon
<1>4. ASSUME NEW h \in Handler, Reconcile(h) PROVE Money'
  <2>1. handler[h].pc = "reconcile" /\ ReconcileBudget(keyOf(h), 0) /\ Answer(h)
    BY <1>4, Zenon DEF Reconcile, At, ReturnError
  <2>2. 0 \in Nat
    OBVIOUS
  <2> QED BY <1>2, <2>1, <2>2, ReconcileMoney, Zenon
<1>5. ASSUME NEW h \in Handler, Step(h) PROVE Money'
  BY <1>2, <1>3, <1>4, <1>5, PlainMoney, AttemptMoney, FailMoney, ReserveMoney, CompleteMoney, Zenon DEF Step
<1>6. ASSUME NEW h \in Handler, \/ BadRequest(h) \/ Disconnect(h)
                                \/ \E m \in Sends[h] : Submit(h, m[1], m[2]) \/ Repeat(h, m[1], m[2])
      PROVE  Money'
  BY <1>2, <1>6, OtherMoney, Zenon
<1>7. ASSUME NEW k \in Key, Cancel(k) PROVE Money'
  BY <1>2, <1>7, CancelMoney, Zenon
<1>8. CASE UNCHANGED vars
  <2>1. Books /\ \A h \in Handler : Moves(h)
    BY <1>2, <1>8, Zenon DEF vars, storeVars, Books, CostsKept, Moves, Money, CallMoney
  <2> QED BY <1>1, <1>2, <2>1, Still, Zenon
<1> QED BY <1>5, <1>6, <1>7, <1>8, Zenon DEF Next

\* Nothing is spent or reserved at first.
LEMMA MoneyInit == ASSUME Init, Limited PROVE Money
<1>1. EndpointInv
  BY EndpointInit, Zenon
<1>2. \A h \in Handler : handler[h].pc = "idle"
  BY Zenon DEF Init, Idle
<1>3. \A h \in Handler : CallMoney(h)
  BY <1>2, Lines, Zenon DEF CallMoney
<1>4. used = 0 /\ reservations \in [Key -> Nat] /\ \A k \in Key : reservations[k] = 0
  BY DEF Init, NewMemory
<1>5. Sum(reservations, Key) = 0
  BY <1>4, PriceAssumption, SumZero, Zenon
<1>6. Sum(Counts, Key) \in Nat /\ MonthlyBudget \in Int
  BY <1>1, Amounts, Prices, Zenon DEF EndpointInv, Limited
<1> QED BY <1>3, <1>4, <1>5, <1>6 DEF Money, Limited

\* What is counted is at most what was overrun.
LEMMA MoneyHolds == ASSUME EndpointInv, Limited => Money PROVE BudgetHolds
<1> SUFFICES ASSUME MonthlyBudget > 0, policy # None
             PROVE  used + sumMap <= MonthlyBudget + Sum([k \in Key |-> Overrun(k)], Key)
  BY Zenon DEF BudgetHolds
<1>1. Money
  BY Zenon DEF Limited
<1>2. PICK f : f = [k \in Key |-> Overrun(k)]
  BY Zenon
<1>3. \A k \in Key : Overrun(k) \in Nat
  BY Overruns, Zenon DEF EndpointInv
<1>4. \A k \in Key : f[k] \in Nat /\ Counts[k] \in Nat /\ Counts[k] <= f[k]
  BY <1>2, <1>3 DEF Counts
<1>5. Natural(f, Key) /\ Natural(Counts, Key) /\ IsFiniteSet(Key)
  BY <1>4, PriceAssumption, Zenon DEF Natural
<1>6. Sum(Counts, Key) <= Sum(f, Key) /\ Sum(f, Key) \in Nat /\ Sum(Counts, Key) \in Nat
  BY <1>4, <1>5, SumGrows, SumNat, Zenon
<1>7. Sum(reservations, Key) \in Nat
  <2>1. Natural(reservations, Key)
    BY <1>1, Zenon DEF Money, Natural
  <2> QED BY <1>5, <2>1, SumNat, Zenon
<1>8. used + Sum(reservations, Key) <= MonthlyBudget + Sum(f, Key)
  BY <1>1, <1>6, <1>7, Prices DEF Money
<1> QED BY <1>2, <1>8, Zenon DEF sumMap

\* The calls of gateway.go on memory.go keep a tenant's monthly budget: what is spent and
\* reserved exceeds it by no more than the providers reported beyond the estimates.
THEOREM BudgetKept == Spec => []BudgetHolds
<1>1. Init => (Limited => Money)
  BY MoneyInit, Zenon
<1>2. EndpointInv /\ EndpointInv' /\ (Limited => Money) /\ [Next]_vars => (Limited => Money)'
  BY MoneyStep, Zenon
<1>3. EndpointInv /\ (Limited => Money) => BudgetHolds
  BY MoneyHolds, Zenon
<1> QED BY <1>1, <1>2, <1>3, EndpointSafety, PTL DEF Spec
===============================================================================
