---------------------------- MODULE GatewayProofs ----------------------------
(* Proofs about GatewayService, for every set of handlers, requests and      *)
(* providers and every bound on attempts and faults.                         *)
EXTENDS GatewayService, TLAPS

\* Return keeps the types.
LEMMA ReturnType ==
    ASSUME TypeOK, NEW h \in Handler,
           NEW kind \in {"error", "unpriced", "conflict", "pending", "replayed", "completed"},
           NEW state \in State \cup {None}, Return(h, kind, state)
    PROVE  /\ pc' \in [Handler -> Label]
           /\ outcome' \in [Handler -> Outcome]
           /\ permits' \in [Handler -> BOOLEAN]
BY Zenon DEF TypeOK, Return, Outcome, Label

\* Goto keeps the types.
LEMMA GotoType ==
    ASSUME TypeOK, NEW h \in Handler, NEW label \in Label, Goto(h, label)
    PROVE  /\ pc' \in [Handler -> Label]
           /\ outcome' \in [Handler -> Outcome]
           /\ permits' \in [Handler -> BOOLEAN]
BY Zenon DEF TypeOK, Goto

\* Answers keeps the types.
LEMMA AnswersType ==
    ASSUME TypeOK, NEW h \in Handler, NEW withContext, NEW r, Answers(h, withContext, r)
    PROVE  faults' \in 0..MaxFaults
BY GatewayAssumption DEF TypeOK, Answers

\* insertOutbox keeps the type of the outbox.
LEMMA OutboxType ==
    ASSUME TypeOK, NEW k \in Key, NEW events, insertOutbox(k, events)
    PROVE  outbox' \in [Key -> [Event -> Nat]]
BY DEF TypeOK, insertOutbox

\* TransitionRequest keeps the types.
LEMMA TransitionType ==
    ASSUME TypeOK, NEW k, NEW from, NEW to \in State, NEW r, TransitionRequest(k, from, to, r)
    PROVE  status' \in [Key -> State \cup {Absent}]
BY Zenon DEF TypeOK, TransitionRequest

\* Advance keeps the types.
LEMMA AdvanceType ==
    ASSUME TypeOK, NEW h \in Handler, NEW at, NEW from, NEW to \in State, NEW next \in Label,
           Advance(h, at, from, to, next)
    PROVE  TypeOK'
<1>1. PICK r \in Reply :
         /\ Answers(h, TRUE, r)
         /\ TransitionRequest(key[h], from, to, r)
         /\ Goto(h, next) \/ ReturnError(h)
    BY Zenon DEF Advance
<1>2. faults' \in 0..MaxFaults
    BY <1>1, AnswersType, Zenon
<1>3. status' \in [Key -> State \cup {Absent}]
    BY <1>1, TransitionType, Zenon
<1>4. pc' \in [Handler -> Label] /\ outcome' \in [Handler -> Outcome] /\ permits' \in [Handler -> BOOLEAN]
    BY <1>1, GotoType, ReturnType, Zenon DEF ReturnError
<1> QED BY <1>2, <1>3, <1>4, Zenon DEF TypeOK, Advance

\* Marking an attempt keeps the types.
LEMMA MarkType ==
    ASSUME TypeOK, NEW k, NEW n, NEW s \in AttemptStatus
    PROVE  Mark(k, n, s) \in [Key -> [AttemptNumber -> AttemptStatus]]
BY Zenon DEF TypeOK, Mark

\* The completion transaction keeps the types.
LEMMA CompletionType ==
    ASSUME TypeOK, NEW k, NEW n, NEW r, CompletionTx(k, n, r), k \in Key
    PROVE  /\ status' \in [Key -> State \cup {Absent}]
           /\ attempts' \in [Key -> [AttemptNumber -> AttemptStatus]]
           /\ outbox' \in [Key -> [Event -> Nat]]
<1>1. CASE Commits(k, InProgress, r)
    <2>1. status' \in [Key -> State \cup {Absent}]
        BY <1>1, Zenon DEF TypeOK, CompletionTx, State
    <2>2. attempts' \in [Key -> [AttemptNumber -> AttemptStatus]]
        BY <1>1, MarkType DEF TypeOK, CompletionTx, AttemptStatus
    <2> QED BY <1>1, <2>1, <2>2, OutboxType, Zenon DEF CompletionTx
<1>2. CASE ~Commits(k, InProgress, r)
    BY <1>2, Zenon DEF TypeOK, CompletionTx
<1> QED BY <1>1, <1>2, Zenon

\* FailAttempt keeps the types.
LEMMA FailAttemptType ==
    ASSUME TypeOK, NEW k \in Key, NEW n, NEW final, NEW r, FailAttemptTx(k, n, final, r)
    PROVE  /\ status' \in [Key -> State \cup {Absent}]
           /\ attempts' \in [Key -> [AttemptNumber -> AttemptStatus]]
           /\ outbox' \in [Key -> [Event -> Nat]]
<1>1. status' \in [Key -> State \cup {Absent}]
    BY Zenon DEF TypeOK, FailAttemptTx, State
<1>2. attempts' \in [Key -> [AttemptNumber -> AttemptStatus]]
    BY MarkType, Zenon DEF TypeOK, FailAttemptTx, AttemptStatus
<1>3. outbox' \in [Key -> [Event -> Nat]]
    BY OutboxType, Zenon DEF TypeOK, FailAttemptTx
<1> QED BY <1>1, <1>2, <1>3, Zenon

\* A handler in the loop works on a request of Key.
LEMMA KeyOfExecuting ==
    ASSUME LoopInv, NEW h \in Handler, Executing(h)
    PROVE  key[h] \in Key
BY Zenon DEF LoopInv, LoopAt

\* An executing handler has an attempt number.
LEMMA AttemptOfExecuting ==
    ASSUME TypeOK, LoopInv, NEW h \in Handler, pc[h] \in {"start", "call", "complete", "fail"}
    PROVE  attempt[h] \in AttemptNumber
<1>1. Executing(h)
    BY Zenon DEF Executing, Ended
<1>2. attempt[h] \in 0..MaxAttempts
    BY Zenon DEF TypeOK
<1>3. attempt[h] > 0
    BY <1>1, Zenon DEF LoopInv, LoopAt
<1> QED BY <1>2, <1>3, GatewayAssumption DEF AttemptNumber

\* A call of a provider keeps the types.
LEMMA EmitsType ==
    ASSUME TypeOK, NEW h \in Handler, attempt[h] \in AttemptNumber,
           Emits(h) \/ UNCHANGED output
    PROVE  output' \in [Key -> SUBSET AttemptNumber]
<1>1. CASE Emits(h)
    BY <1>1, Zenon DEF TypeOK, Emits
<1>2. CASE UNCHANGED output
    BY <1>2, Zenon DEF TypeOK
<1> QED BY <1>1, <1>2, Zenon

\* Every variable stays in its type; the loop of execute never starts more than
\* MaxAttempts attempts.
LEMMA TypeStep == TypeOK /\ LoopInv /\ [Next]_vars => TypeOK'
<1> SUFFICES ASSUME TypeOK, LoopInv, [Next]_vars PROVE TypeOK'
    OBVIOUS
<1> DEFINE Control == /\ pc' \in [Handler -> Label]
                      /\ outcome' \in [Handler -> Outcome]
                      /\ permits' \in [Handler -> BOOLEAN]
<1>0. /\ {Received, Validated, Routing, InProgress, Completed, Failed, BudgetRejected} \subseteq State
      /\ None \in State \cup {None}
    BY Zenon DEF State
<1>1. ASSUME NEW h \in Handler, Refuse(h) PROVE TypeOK'
    <2>1. Control
        BY <1>1, ReturnType, Zenon DEF Refuse, ReturnError
    <2> QED BY <1>1, <2>1, Zenon DEF Refuse, TypeOK, storeVars
<1>2. ASSUME NEW h \in Handler, NEW k \in Key, NEW p \in Payload, CreateRequest(h, k, p) PROVE TypeOK'
    <2>1. PICK r \in Reply :
            /\ Answers(h, TRUE, r)
            /\ \/ UNCHANGED <<status, hash, outbox>>
               \/ /\ status' = [status EXCEPT ![k] = Received]
                  /\ hash' = [hash EXCEPT ![k] = p]
                  /\ insertOutbox(k, {"accepted"})
            /\ Goto(h, "received") \/ ReturnError(h)
        BY <1>2, Zenon DEF CreateRequest
    <2>2. Control
        BY <2>1, GotoType, ReturnType, Zenon DEF ReturnError, Label
    <2>3. outbox' \in [Key -> [Event -> Nat]]
        BY <2>1, OutboxType, Zenon DEF TypeOK
    <2>4. status' \in [Key -> State \cup {Absent}]
        <3>1. status' = status \/ status' = [status EXCEPT ![k] = Received]
            BY <2>1, Zenon
        <3> QED BY <3>1, <1>0, Zenon DEF TypeOK
    <2>7. hash' \in [Key -> Payload \cup {None}]
        <3>1. hash' = hash \/ hash' = [hash EXCEPT ![k] = p]
            BY <2>1, Zenon
        <3> QED BY <3>1, Zenon DEF TypeOK
    <2>5. faults' \in 0..MaxFaults
        BY <2>1, AnswersType, Zenon
    <2>6. key' \in [Handler -> Key \cup {None}] /\ payload' \in [Handler -> Payload \cup {None}]
        BY <1>2, Zenon DEF CreateRequest, TypeOK
    <2> QED BY <1>2, <2>2, <2>3, <2>4, <2>5, <2>6, <2>7, Zenon DEF CreateRequest, TypeOK
<1>3. ASSUME NEW h \in Handler, NEW k \in Key, NEW p \in Payload, ReplayRequest(h, k, p) PROVE TypeOK'
    <2>0. status[k] \in State
        BY <1>3, Zenon DEF ReplayRequest, Inserts, TypeOK
    <2>1. PICK r \in Reply : /\ Answers(h, TRUE, r)
                             /\ \/ ReturnError(h)
                                \/ Return(h, "conflict", None)
                                \/ Return(h, "replayed", Completed)
                                \/ Return(h, "pending", status[k])
        BY <1>3, Zenon DEF ReplayRequest
    <2>2. Control
        BY <2>0, <2>1, <1>0, ReturnType, Zenon DEF ReturnError
    <2>3. faults' \in 0..MaxFaults
        BY <2>1, AnswersType, Zenon
    <2>4. key' \in [Handler -> Key \cup {None}] /\ payload' \in [Handler -> Payload \cup {None}]
        BY <1>3, Zenon DEF ReplayRequest, TypeOK
    <2> QED BY <1>3, <2>2, <2>3, <2>4, Zenon DEF ReplayRequest, TypeOK, storeVars
<1>4. ASSUME NEW h \in Handler, Validate(h) \/ StartRouting(h) \/ StartProgress(h) PROVE TypeOK'
    BY <1>4, <1>0, AdvanceType, Zenon DEF Validate, StartRouting, StartProgress, Label
<1>5. ASSUME NEW h \in Handler, LoadPolicy(h) \/ Price(h) \/ Backoff(h) PROVE TypeOK'
    <2>1. Control
        BY <1>5, GotoType, Zenon DEF LoadPolicy, Price, Backoff, Label
    <2> QED BY <1>5, <2>1, Zenon DEF LoadPolicy, Price, Backoff, TypeOK, storeVars
<1>6. ASSUME NEW h \in Handler, Admit(h) PROVE TypeOK'
    <2>1. Control
        BY <1>6, GotoType, Zenon DEF Admit, Label, TypeOK
    <2> QED BY <1>6, <2>1, Zenon DEF Admit, TypeOK, storeVars
<1>7. ASSUME NEW h \in Handler, FailValidated(h) PROVE TypeOK'
    <2>1. Control
        BY <1>7, ReturnType, Zenon DEF FailValidated, ReturnError
    <2>2. faults' \in 0..MaxFaults /\ status' \in [Key -> State \cup {Absent}]
        BY <1>0, <1>7, AnswersType, TransitionType, Zenon DEF FailValidated
    <2> QED BY <1>7, <2>1, <2>2, Zenon DEF FailValidated, TypeOK
<1>8. ASSUME NEW h \in Handler, ReserveBudget(h) PROVE TypeOK'
    <2>1. Control
        BY <1>8, GotoType, ReturnType, Zenon DEF ReserveBudget, ReturnError, Label
    <2>2. faults' \in 0..MaxFaults
        BY <1>8, AnswersType, Zenon DEF ReserveBudget, TypeOK
    <2>3. reservation' = reservation \/ reservation' = [reservation EXCEPT ![key[h]] = "RESERVED"]
        BY <1>8, Zenon DEF ReserveBudget
    <2>4. reservation' \in [Key -> {"NONE", "RESERVED", "RECONCILED"}]
        BY <2>3, Zenon DEF TypeOK
    <2> QED BY <1>8, <2>1, <2>2, <2>4, Zenon DEF ReserveBudget, TypeOK
<1>9. ASSUME NEW h \in Handler, RejectBudget(h) PROVE TypeOK'
    <2>1. key[h] \in Key
        BY <1>9, KeyOfExecuting, Zenon DEF RejectBudget, Executing, Ended
    <2>2. Control
        BY <1>9, ReturnType, Zenon DEF RejectBudget, ReturnError
    <2>3. faults' \in 0..MaxFaults /\ status' \in [Key -> State \cup {Absent}]
        BY <1>0, <1>9, AnswersType, TransitionType, Zenon DEF RejectBudget
    <2>4. outbox' \in [Key -> [Event -> Nat]]
        BY <1>9, <2>1, OutboxType, Zenon DEF RejectBudget, TypeOK
    <2> QED BY <1>9, <2>2, <2>3, <2>4, Zenon DEF RejectBudget, TypeOK
<1>10. ASSUME NEW h \in Handler, Select(h) PROVE TypeOK'
    <2>1. Control
        BY <1>10, GotoType, Zenon DEF Select, Label
    <2>2. attempt[h] + 1 \in 0..MaxAttempts
        <3>1. Executing(h) /\ pc[h] = "select"
            BY <1>10, Zenon DEF Select, Executing, Ended
        <3>2. attempt[h] < MaxAttempts
            BY <3>1, Zenon DEF LoopInv, LoopAt
        <3>3. attempt[h] \in 0..MaxAttempts
            BY Zenon DEF TypeOK
        <3> QED BY <3>2, <3>3, GatewayAssumption, SMTT(30)
    <2>3. /\ attempt' \in [Handler -> 0..MaxAttempts]
          /\ excluded' \in [Handler -> SUBSET Provider]
          /\ lease' \in [Handler -> Provider \cup {None}]
        <3>1. CASE UNCHANGED <<lease, excluded, attempt>>
            BY <3>1, Zenon DEF TypeOK
        <3>2. ASSUME NEW p \in Provider,
                     lease' = [lease EXCEPT ![h] = p],
                     excluded' = [excluded EXCEPT ![h] = @ \cup {p}],
                     attempt' = [attempt EXCEPT ![h] = @ + 1]
              PROVE  <2>3
            BY <2>2, <3>2, Zenon DEF TypeOK
        <3> QED BY <1>10, <3>1, <3>2, Zenon DEF Select
    <2> QED BY <1>10, <2>1, <2>3, Zenon DEF Select, TypeOK, storeVars
<1>11. ASSUME NEW h \in Handler, StartAttempt(h) PROVE TypeOK'
    <2>1. key[h] \in Key
        BY <1>11, KeyOfExecuting, Zenon DEF StartAttempt, Executing, Ended
    <2>2. Control
        BY <1>11, GotoType, ReturnType, Zenon DEF StartAttempt, ReturnError, Label
    <2>3. faults' \in 0..MaxFaults
        BY <1>11, AnswersType, Zenon DEF StartAttempt
    <2>4. outbox' \in [Key -> [Event -> Nat]]
        BY <1>11, <2>1, OutboxType, Zenon DEF StartAttempt, TypeOK
    <2>5. attempts' \in [Key -> [AttemptNumber -> AttemptStatus]]
        BY <1>11, MarkType DEF StartAttempt, TypeOK, AttemptStatus
    <2>6. tried' \in [Key -> [AttemptNumber -> Provider \cup {None}]]
        <3>1. tried' = tried \/ tried' = [tried EXCEPT ![key[h]][attempt[h]] = lease[h]]
            BY <1>11, Zenon DEF StartAttempt
        <3>2. lease[h] \in Provider \cup {None} /\ tried \in [Key -> [AttemptNumber -> Provider \cup {None}]]
            BY Zenon DEF TypeOK
        <3> QED BY <3>1, <3>2
    <2>7. lease' \in [Handler -> Provider \cup {None}]
        BY <1>11, Zenon DEF StartAttempt, ReleaseLease, TypeOK
    <2> QED BY <1>11, <2>2, <2>3, <2>4, <2>5, <2>6, <2>7, Zenon DEF StartAttempt, TypeOK
<1>12. ASSUME NEW h \in Handler, CallAnswers(h) PROVE TypeOK'
    <2>0. pc[h] = "call"
        BY <1>12, Zenon DEF CallAnswers
    <2>1. attempt[h] \in AttemptNumber
        BY <2>0, AttemptOfExecuting, Zenon
    <2>2. Control
        <3>1. CASE Goto(h, "complete")
            BY <3>1, GotoType, Zenon DEF Label
        <3>2. CASE Return(h, "unpriced", None)
            BY <3>2, ReturnType, Zenon
        <3> QED BY <1>12, <3>1, <3>2, Zenon DEF CallAnswers
    <2>3. output' \in [Key -> SUBSET AttemptNumber]
        BY <1>12, <2>1, EmitsType, Zenon DEF CallAnswers
    <2>4. lease' \in [Handler -> Provider \cup {None}]
        BY <1>12, Zenon DEF CallAnswers, ReleaseLease, TypeOK
    <2> QED BY <1>12, <2>2, <2>3, <2>4, Zenon DEF CallAnswers, TypeOK, storeVars
<1>13. ASSUME NEW h \in Handler, NEW result, CallFails(h, result) PROVE TypeOK'
    <2>0. pc[h] = "call" /\ Goto(h, "fail")
        BY <1>13, Zenon DEF CallFails
    <2>1. attempt[h] \in AttemptNumber
        BY <2>0, AttemptOfExecuting, Zenon
    <2>2. Control
        BY <2>0, GotoType, Zenon DEF Label
    <2>3. output' \in [Key -> SUBSET AttemptNumber]
        BY <1>13, <2>1, EmitsType, Zenon DEF CallFails
    <2>4. lease' \in [Handler -> Provider \cup {None}]
        BY <1>13, Zenon DEF CallFails, ReleaseLease, TypeOK
    <2>5. CauseOf(result) \in Cause
        BY Zenon DEF CauseOf, Cause
    <2>6. failure' \in [Handler -> [cause : Cause, retryable : BOOLEAN]] /\ blamed' \in SUBSET Cause
        <3>1. failure \in [Handler -> [cause : Cause, retryable : BOOLEAN]] /\ blamed \in SUBSET Cause
            BY Zenon DEF TypeOK
        <3> QED BY <1>13, <2>5, <3>1, SMTT(30) DEF CallFails, Retry
    <2> QED BY <1>13, <2>2, <2>3, <2>4, <2>6, Zenon DEF CallFails, TypeOK, storeVars
<1>14. ASSUME NEW h \in Handler, CompleteRequest(h) PROVE TypeOK'
    <2>1. key[h] \in Key
        BY <1>14, KeyOfExecuting, Zenon DEF CompleteRequest, Executing, Ended
    <2>2. PICK r \in Reply :
            /\ Answers(h, TRUE, r)
            /\ CompletionTx(key[h], attempt[h], r)
            /\ \/ /\ pc' = [pc EXCEPT ![h] = "reconcile"]
                  /\ outcome' = [outcome EXCEPT ![h] = [kind |-> "completed", state |-> Completed]]
                  /\ UNCHANGED permits
               \/ ReturnError(h)
        BY <1>14, Zenon DEF CompleteRequest
    <2>3. Control
        <3>1. [kind |-> "completed", state |-> Completed] \in Outcome
            BY <1>0, Zenon DEF Outcome
        <3>2. CASE ReturnError(h)
            BY <3>2, ReturnType, Zenon DEF ReturnError
        <3>3. CASE /\ pc' = [pc EXCEPT ![h] = "reconcile"]
                   /\ outcome' = [outcome EXCEPT ![h] = [kind |-> "completed", state |-> Completed]]
                   /\ UNCHANGED permits
            BY <3>1, <3>3, Zenon DEF Label, TypeOK
        <3> QED BY <2>2, <3>2, <3>3, Zenon
    <2>4. faults' \in 0..MaxFaults
        BY <2>2, AnswersType, Zenon
    <2>5. /\ status' \in [Key -> State \cup {Absent}]
          /\ attempts' \in [Key -> [AttemptNumber -> AttemptStatus]]
          /\ outbox' \in [Key -> [Event -> Nat]]
        BY <2>1, <2>2, CompletionType, Zenon
    <2>6. lease' \in [Handler -> Provider \cup {None}]
        BY <1>14, Zenon DEF CompleteRequest, ReleaseLease, TypeOK
    <2> QED BY <1>14, <2>3, <2>4, <2>5, <2>6, Zenon DEF CompleteRequest, TypeOK
<1>15. ASSUME NEW h \in Handler, FailAttempt(h) PROVE TypeOK'
    <2>1. key[h] \in Key
        BY <1>15, KeyOfExecuting, Zenon DEF FailAttempt, Executing, Ended
    <2>2. Control
        BY <1>15, GotoType, ReturnType, Zenon DEF FailAttempt, ReturnError, Label
    <2>3. faults' \in 0..MaxFaults
        BY <1>15, AnswersType, Zenon DEF FailAttempt
    <2>4. /\ status' \in [Key -> State \cup {Absent}]
          /\ attempts' \in [Key -> [AttemptNumber -> AttemptStatus]]
          /\ outbox' \in [Key -> [Event -> Nat]]
        BY <1>15, <2>1, FailAttemptType, Zenon DEF FailAttempt
    <2> QED BY <1>15, <2>2, <2>3, <2>4, Zenon DEF FailAttempt, TypeOK
<1>16. ASSUME NEW h \in Handler, Finish(h) PROVE TypeOK'
    <2>1. key[h] \in Key
        BY <1>16, KeyOfExecuting, Zenon DEF Finish, Executing, Ended
    <2>2. Control
        BY <1>16, GotoType, Zenon DEF Finish, Label
    <2>3. faults' \in 0..MaxFaults
        BY <1>16, AnswersType, Zenon DEF Finish
    <2>4. /\ status' \in [Key -> State \cup {Absent}]
          /\ attempts' \in [Key -> [AttemptNumber -> AttemptStatus]]
          /\ outbox' \in [Key -> [Event -> Nat]]
        BY <1>16, <2>1, FailAttemptType, Zenon DEF Finish
    <2> QED BY <1>16, <2>2, <2>3, <2>4, Zenon DEF Finish, TypeOK
<1>17. ASSUME NEW h \in Handler, ReconcileBudget(h) PROVE TypeOK'
    <2>1. Control
        BY <1>0, <1>17, ReturnType, Zenon DEF ReconcileBudget, ReturnError
    <2>2. faults' \in 0..MaxFaults
        BY <1>17, AnswersType, Zenon DEF ReconcileBudget
    <2>3. \/ reservation' = reservation
          \/ reservation' = [reservation EXCEPT ![key[h]] = Settled(@)]
        BY <1>17, Zenon DEF ReconcileBudget
    <2>4. reservation' \in [Key -> {"NONE", "RESERVED", "RECONCILED"}]
        BY <2>3, ZenonT(30) DEF TypeOK, Settled
    <2> QED BY <1>17, <2>1, <2>2, <2>4, Zenon DEF ReconcileBudget, TypeOK
<1>18. ASSUME NEW h \in Handler, Disconnect(h) PROVE TypeOK'
    BY <1>18, Zenon DEF Disconnect, TypeOK, storeVars
<1>19. ASSUME NEW h \in Handler, Crash(h) PROVE TypeOK'
    BY <1>19, GatewayAssumption, SMTT(30) DEF Crash, ReleaseLease, TypeOK, storeVars, Label
<1>20. ASSUME NEW k \in Key, CancelRequest(k) PROVE TypeOK'
    BY <1>20, Zenon DEF CancelRequest, TypeOK, handlerVars, State
<1>21. ASSUME UNCHANGED vars PROVE TypeOK'
    BY <1>21, Zenon DEF vars, storeVars, handlerVars, TypeOK
<1> QED
    BY <1>1, <1>2, <1>3, <1>4, <1>5, <1>6, <1>7, <1>8, <1>9, <1>10, <1>11, <1>12, <1>13,
       <1>14, <1>15, <1>16, <1>17, <1>18, <1>19, <1>20, <1>21, Zenon DEF Next, Arrive, Step
-----------------------------------------------------------------------------
(* What a step may do to the request rows, whichever handler takes it.       *)

\* A step adds the given facts of request k and no other, "selected" aside.
Adds(k, events) ==
    \A j \in Key, e \in Event \ {"selected"} :
      outbox'[j][e] = outbox[j][e] + (IF j = k /\ e \in events THEN 1 ELSE 0)

Keeps == /\ UNCHANGED status
         /\ \A j \in Key, e \in Event \ {"selected"} : outbox'[j][e] = outbox[j][e]

Accepts(k) == /\ status[k] = Absent
              /\ status' = [status EXCEPT ![k] = Received]
              /\ Adds(k, {"accepted"})

Moves(k, s) == /\ CanTransition(status[k], s)
               /\ status' = [status EXCEPT ![k] = s]
               /\ Adds(k, Lifecycle!FactsOf(status[k], s))

RowStep == \/ Keeps
           \/ \E k \in Key : Accepts(k)
           \/ \E k \in Key, s \in State : Moves(k, s)

\* insertOutbox adds its events once.
LEMMA InsertAdds ==
    ASSUME TypeOK, NEW k \in Key, NEW events, insertOutbox(k, events)
    PROVE  Adds(k, events)
BY DEF TypeOK, insertOutbox, Adds

\* An unchanged outbox adds nothing.
LEMMA NothingAdded ==
    ASSUME TypeOK, NEW k \in Key, UNCHANGED outbox
    PROVE  Adds(k, {})
BY DEF TypeOK, Adds

\* The transitions the service asks for are in allowedTransitions.
LEMMA Reaches ==
    /\ CanTransition(Received, Validated) /\ CanTransition(Validated, Routing)
    /\ CanTransition(Routing, InProgress) /\ CanTransition(Validated, Failed)
    /\ CanTransition(Validated, BudgetRejected) /\ CanTransition(InProgress, Completed)
    /\ CanTransition(InProgress, Failed)
    /\ \A s \in Cancels : CanTransition(s, Cancelled)
BY Zenon DEF CanTransition, allowedTransitions, Cancels, Received, Validated, Routing, InProgress,
       Completed, Failed, Cancelled, BudgetRejected

\* FactsOf, by transition.
LEMMA FactsOfMoves ==
    /\ Lifecycle!FactsOf(Received, Validated) = {} /\ Lifecycle!FactsOf(Validated, Routing) = {}
    /\ Lifecycle!FactsOf(Routing, InProgress) = {} /\ Lifecycle!FactsOf(Validated, Failed) = {}
    /\ Lifecycle!FactsOf(Validated, BudgetRejected) = {"exceeded"}
    /\ Lifecycle!FactsOf(InProgress, Completed) = {"completed", "usage"}
    /\ Lifecycle!FactsOf(InProgress, Failed) = {"failed"}
    /\ \A s \in Cancels : Lifecycle!FactsOf(s, Cancelled) = {}
BY Zenon DEF Lifecycle!FactsOf, Lifecycle!Completed, Lifecycle!InProgress, Lifecycle!Failed,
       Lifecycle!BudgetRejected, Cancels, Received, Validated, Routing, InProgress,
       Completed, Failed, Cancelled, BudgetRejected

\* TransitionRequest moves at most one row.
LEMMA TransitionRow ==
    ASSUME TypeOK, NEW k \in Key, NEW from \in State, NEW to \in State, NEW r,
           TransitionRequest(k, from, to, r), UNCHANGED outbox,
           Lifecycle!FactsOf(from, to) = {}
    PROVE  RowStep
<1>1. CASE Commits(k, from, r) /\ CanTransition(from, to)
    <2>1. status[k] = from /\ status' = [status EXCEPT ![k] = to]
        BY <1>1, Zenon DEF TransitionRequest, Commits, Matches
    <2>2. Adds(k, Lifecycle!FactsOf(status[k], to))
        BY <2>1, NothingAdded, Zenon
    <2> QED BY <1>1, <2>1, <2>2, Zenon DEF RowStep, Moves
<1>2. CASE ~(Commits(k, from, r) /\ CanTransition(from, to))
    BY <1>2, Zenon DEF TransitionRequest, RowStep, Keeps
<1> QED BY <1>1, <1>2, Zenon

\* The completion transaction moves at most one row, with its facts.
LEMMA CompletionRow ==
    ASSUME TypeOK, NEW k \in Key, NEW n, NEW r, CompletionTx(k, n, r)
    PROVE  RowStep
<1>1. CASE Commits(k, InProgress, r)
    <2>1. /\ status[k] = InProgress
          /\ status' = [status EXCEPT ![k] = Completed]
          /\ insertOutbox(k, {"completed", "usage"})
        BY <1>1, Zenon DEF CompletionTx, Commits, Matches
    <2>2. Moves(k, Completed)
        BY <2>1, InsertAdds, Reaches, FactsOfMoves, Zenon DEF Moves
    <2> QED BY <2>2, Zenon DEF RowStep, State
<1>2. CASE ~Commits(k, InProgress, r)
    BY <1>2, Zenon DEF CompletionTx, RowStep, Keeps
<1> QED BY <1>1, <1>2, Zenon

\* FailAttempt moves at most one row, with its fact.
LEMMA FailAttemptRow ==
    ASSUME TypeOK, NEW k \in Key, NEW n, NEW final, NEW r, FailAttemptTx(k, n, final, r)
    PROVE  RowStep
<1>1. CASE final /\ Commits(k, InProgress, r)
    <2>1. /\ status[k] = InProgress
          /\ status' = [status EXCEPT ![k] = Failed]
          /\ insertOutbox(k, {"failed"})
        BY <1>1, Zenon DEF FailAttemptTx, Commits, Matches
    <2>2. Moves(k, Failed)
        BY <2>1, InsertAdds, Reaches, FactsOfMoves, Zenon DEF Moves
    <2> QED BY <2>2, Zenon DEF RowStep, State
<1>2. CASE ~(final /\ Commits(k, InProgress, r))
    BY <1>2, Zenon DEF FailAttemptTx, RowStep, Keeps
<1> QED BY <1>1, <1>2, Zenon

\* Every step accepts one request, moves one along the state machine with the
\* facts of the transition, or leaves statuses and final facts alone.
LEMMA RowSteps == TypeOK /\ LoopInv /\ [Next]_vars => RowStep
<1> SUFFICES ASSUME TypeOK, LoopInv, [Next]_vars PROVE RowStep
    OBVIOUS
<1>0. /\ Received \in State /\ Validated \in State /\ Routing \in State /\ InProgress \in State
      /\ Failed \in State /\ BudgetRejected \in State /\ Cancelled \in State
    BY Zenon DEF State
<1>1. CASE UNCHANGED <<status, outbox>>
    BY <1>1, Zenon DEF RowStep, Keeps
<1>2. ASSUME NEW h \in Handler, NEW k \in Key, NEW p \in Payload, CreateRequest(h, k, p) PROVE RowStep
    <2>1. CASE status' = [status EXCEPT ![k] = Received] /\ insertOutbox(k, {"accepted"})
        <3>1. Accepts(k)
            BY <1>2, <2>1, InsertAdds, Zenon DEF Accepts, CreateRequest, Inserts
        <3> QED BY <3>1, Zenon DEF RowStep
    <2> QED BY <1>1, <1>2, <2>1, Zenon DEF CreateRequest
<1>3. ASSUME NEW h \in Handler, Validate(h) \/ StartRouting(h) \/ StartProgress(h) PROVE RowStep
    <2>1. key[h] \in Key
        BY <1>3, KeyOfExecuting, Zenon DEF Validate, StartRouting, StartProgress, Advance, Executing, Ended
    <2>2. UNCHANGED outbox
        BY <1>3, Zenon DEF Validate, StartRouting, StartProgress, Advance
    <2>3. CASE Validate(h)
        <3>1. PICK r : TransitionRequest(key[h], Received, Validated, r)
            BY <2>3, Zenon DEF Validate, Advance
        <3> QED BY <1>0, <2>1, <2>2, <3>1, TransitionRow, FactsOfMoves, Zenon
    <2>4. CASE StartRouting(h)
        <3>1. PICK r : TransitionRequest(key[h], Validated, Routing, r)
            BY <2>4, Zenon DEF StartRouting, Advance
        <3> QED BY <1>0, <2>1, <2>2, <3>1, TransitionRow, FactsOfMoves, Zenon
    <2>5. CASE StartProgress(h)
        <3>1. PICK r : TransitionRequest(key[h], Routing, InProgress, r)
            BY <2>5, Zenon DEF StartProgress, Advance
        <3> QED BY <1>0, <2>1, <2>2, <3>1, TransitionRow, FactsOfMoves, Zenon
    <2> QED BY <1>3, <2>3, <2>4, <2>5, Zenon
<1>4. ASSUME NEW h \in Handler, FailValidated(h) PROVE RowStep
    <2>0. Executing(h)
        BY <1>4, Zenon DEF FailValidated, Executing, Ended
    <2>1. key[h] \in Key
        BY <2>0, KeyOfExecuting, Zenon
    <2>2. PICK r : TransitionRequest(key[h], Validated, Failed, r)
        BY <1>4, Zenon DEF FailValidated
    <2>3. UNCHANGED outbox
        BY <1>4, Zenon DEF FailValidated
    <2> QED BY <1>0, <2>1, <2>2, <2>3, TransitionRow, FactsOfMoves, Zenon
<1>5. ASSUME NEW h \in Handler, RejectBudget(h) PROVE RowStep
    <2> DEFINE k == key[h]
    <2>1. k \in Key
        BY <1>5, KeyOfExecuting, Zenon DEF RejectBudget, Executing, Ended
    <2>2. PICK r : /\ TransitionRequest(k, Validated, BudgetRejected, r)
                   /\ IF Commits(k, Validated, r)
                        THEN insertOutbox(k, {"exceeded"}) ELSE UNCHANGED outbox
        BY <1>5, Zenon DEF RejectBudget
    <2> HIDE DEF k
    <2>3. CASE Commits(k, Validated, r)
        <3>1. /\ status[k] = Validated
              /\ status' = [status EXCEPT ![k] = BudgetRejected]
              /\ insertOutbox(k, {"exceeded"})
            BY <2>2, <2>3, Reaches, Zenon DEF TransitionRequest, Commits, Matches
        <3>2. Moves(k, BudgetRejected)
            BY <2>1, <3>1, InsertAdds, Reaches, FactsOfMoves, Zenon DEF Moves
        <3> QED BY <1>0, <2>1, <3>2, Zenon DEF RowStep
    <2>4. CASE ~Commits(k, Validated, r)
        BY <1>1, <2>2, <2>4, Zenon DEF TransitionRequest
    <2> QED BY <2>3, <2>4, Zenon
<1>6. ASSUME NEW h \in Handler, StartAttempt(h) PROVE RowStep
    <2>1. key[h] \in Key
        BY <1>6, KeyOfExecuting, Zenon DEF StartAttempt, Executing, Ended
    <2>2. UNCHANGED outbox \/ insertOutbox(key[h], {"selected"})
        BY <1>6, Zenon DEF StartAttempt
    <2>3. \A j \in Key, e \in Event \ {"selected"} : outbox'[j][e] = outbox[j][e]
        <3>1. CASE insertOutbox(key[h], {"selected"})
            <4>1. Adds(key[h], {"selected"})
                BY <2>1, <3>1, InsertAdds, Zenon
            <4>2. \A j \in Key, e \in Event : outbox[j][e] \in Nat
                BY SMTT(30) DEF TypeOK
            <4> QED BY <4>1, <4>2 DEF Adds
        <3> QED BY <2>2, <3>1, Zenon
    <2> QED BY <1>6, <2>3, Zenon DEF StartAttempt, RowStep, Keeps
<1>7. ASSUME NEW h \in Handler, CompleteRequest(h) PROVE RowStep
    <2>1. key[h] \in Key
        BY <1>7, KeyOfExecuting, Zenon DEF CompleteRequest, Executing, Ended
    <2> QED BY <1>7, <2>1, CompletionRow, Zenon DEF CompleteRequest
<1>8. ASSUME NEW h \in Handler, FailAttempt(h) \/ Finish(h) PROVE RowStep
    <2>1. key[h] \in Key
        BY <1>8, KeyOfExecuting, Zenon DEF FailAttempt, Finish, Executing, Ended
    <2> QED BY <1>8, <2>1, FailAttemptRow, Zenon DEF FailAttempt, Finish
<1>9. ASSUME NEW k \in Key, CancelRequest(k) PROVE RowStep
    <2>1. /\ status[k] \in Cancels
          /\ status' = [status EXCEPT ![k] = Cancelled]
          /\ UNCHANGED outbox
        BY <1>9, Zenon DEF CancelRequest
    <2>2. CanTransition(status[k], Cancelled) /\ Lifecycle!FactsOf(status[k], Cancelled) = {}
        BY <2>1, Reaches, FactsOfMoves, Zenon
    <2>3. Moves(k, Cancelled)
        BY <2>1, <2>2, NothingAdded, Zenon DEF Moves
    <2> QED BY <1>0, <2>3, Zenon DEF RowStep
<1>10. ASSUME NEW h \in Handler,
              \/ Refuse(h) \/ LoadPolicy(h) \/ Admit(h) \/ Price(h) \/ ReserveBudget(h)
              \/ Select(h) \/ CallAnswers(h) \/ Backoff(h) \/ ReconcileBudget(h)
              \/ Disconnect(h) \/ Crash(h)
       PROVE  RowStep
    BY <1>1, <1>10, Zenon DEF Refuse, LoadPolicy, Admit, Price, ReserveBudget, Select, CallAnswers,
       Backoff, ReconcileBudget, Disconnect, Crash, storeVars
<1>11. ASSUME NEW h \in Handler, NEW k \in Key, NEW p \in Payload, ReplayRequest(h, k, p) PROVE RowStep
    BY <1>1, <1>11, Zenon DEF ReplayRequest, storeVars
<1>12. ASSUME NEW h \in Handler, NEW result, CallFails(h, result) PROVE RowStep
    BY <1>1, <1>12, Zenon DEF CallFails, storeVars
<1>13. CASE UNCHANGED vars
    BY <1>1, <1>13, Zenon DEF vars, storeVars
<1> QED
    BY <1>2, <1>3, <1>4, <1>5, <1>6, <1>7, <1>8, <1>9, <1>10, <1>11, <1>12, <1>13, Zenon
       DEF Next, Arrive, Step

-----------------------------------------------------------------------------
(* The handlers: each step belongs to one, and leaves the others' locals.    *)

Others(h) == \A g \in Handler \ {h} :
    pc'[g] = pc[g] /\ key'[g] = key[g] /\ attempt'[g] = attempt[g] /\ failure'[g] = failure[g]

NoDeletion == \A k \in Key : status[k] # Absent => status'[k] # Absent

\* No row is deleted.
LEMMA RowsStay == TypeOK /\ RowStep => NoDeletion
BY Zenon DEF TypeOK, RowStep, Keeps, Accepts, Moves, NoDeletion, Absent, State, Received, Validated,
       Routing, InProgress, Completed, Failed, Cancelled, BudgetRejected

\* A step of one handler leaves the control of the others.
LEMMA ControlFrame ==
    ASSUME TypeOK, NEW h \in Handler, NEW label, NEW kind, NEW state,
           Goto(h, label) \/ Return(h, kind, state)
    PROVE  \A g \in Handler \ {h} : pc'[g] = pc[g]
BY Zenon DEF TypeOK, Goto, Return

\* The other handlers keep their place.
LEMMA OthersStay ==
    ASSUME TypeOK, NEW h \in Handler, Arrive(h) \/ Step(h) \/ Disconnect(h) \/ Crash(h)
    PROVE  Others(h)
<1> DEFINE Frame == \A g \in Handler \ {h} : pc'[g] = pc[g]
<1>1. ASSUME \/ Refuse(h) \/ LoadPolicy(h) \/ Admit(h) \/ Price(h) \/ Backoff(h) \/ Disconnect(h) \/ Crash(h)
      PROVE  Others(h)
    BY <1>1, Zenon DEF Others, TypeOK, Refuse, LoadPolicy, Admit, Price, Backoff, Disconnect, Crash,
       Goto, ReturnError, Return
<1>2. ASSUME NEW k \in Key, NEW p \in Payload, CreateRequest(h, k, p) PROVE Others(h)
    <2>1. Frame
        BY <1>2, ControlFrame, Zenon DEF CreateRequest, ReturnError
    <2> QED BY <1>2, <2>1, Zenon DEF CreateRequest, Others, TypeOK
<1>3. ASSUME NEW k \in Key, NEW p \in Payload, ReplayRequest(h, k, p) PROVE Others(h)
    <2>1. Frame
        BY <1>3, ControlFrame, Zenon DEF ReplayRequest, ReturnError
    <2> QED BY <1>3, <2>1, Zenon DEF ReplayRequest, Others, TypeOK
<1>4. ASSUME Validate(h) \/ StartRouting(h) \/ StartProgress(h) PROVE Others(h)
    <2>1. Frame
        BY <1>4, ControlFrame, Zenon DEF Validate, StartRouting, StartProgress, Advance, ReturnError
    <2> QED BY <1>4, <2>1, Zenon DEF Validate, StartRouting, StartProgress, Advance, Others
<1>5. ASSUME FailValidated(h) \/ ReserveBudget(h) \/ RejectBudget(h) PROVE Others(h)
    <2>1. Frame
        BY <1>5, ControlFrame, Zenon DEF FailValidated, ReserveBudget, RejectBudget, ReturnError
    <2> QED BY <1>5, <2>1, Zenon DEF FailValidated, ReserveBudget, RejectBudget, Others
<1>6. ASSUME Select(h) PROVE Others(h)
    <2>1. Frame
        BY <1>6, ControlFrame, Zenon DEF Select
    <2>2. \A g \in Handler \ {h} : attempt'[g] = attempt[g]
        BY <1>6, Zenon DEF Select, TypeOK
    <2> QED BY <1>6, <2>1, <2>2, Zenon DEF Select, Others
<1>7. ASSUME StartAttempt(h) \/ CallAnswers(h) PROVE Others(h)
    <2>1. Frame
        BY <1>7, ControlFrame, Zenon DEF StartAttempt, CallAnswers, ReturnError
    <2> QED BY <1>7, <2>1, Zenon DEF StartAttempt, CallAnswers, Others
<1>8. ASSUME NEW result, CallFails(h, result) PROVE Others(h)
    <2>1. Frame
        BY <1>8, ControlFrame, Zenon DEF CallFails
    <2>2. \A g \in Handler \ {h} : failure'[g] = failure[g]
        BY <1>8, Zenon DEF CallFails, TypeOK
    <2> QED BY <1>8, <2>1, <2>2, Zenon DEF CallFails, Others
<1>9. ASSUME CompleteRequest(h) PROVE Others(h)
    <2>1. pc' = [pc EXCEPT ![h] = "reconcile"] \/ ReturnError(h)
        BY <1>9, Zenon DEF CompleteRequest
    <2>2. Frame
        BY <2>1, ControlFrame, Zenon DEF ReturnError, TypeOK
    <2> QED BY <1>9, <2>2, Zenon DEF CompleteRequest, Others
<1>10. ASSUME FailAttempt(h) \/ Finish(h) \/ ReconcileBudget(h) PROVE Others(h)
    <2>1. Frame
        BY <1>10, ControlFrame, Zenon DEF FailAttempt, Finish, ReconcileBudget, ReturnError
    <2> QED BY <1>10, <2>1, Zenon DEF FailAttempt, Finish, ReconcileBudget, Others
<1> QED
    BY <1>1, <1>2, <1>3, <1>4, <1>5, <1>6, <1>7, <1>8, <1>9, <1>10, Zenon DEF Arrive, Step

\* A step of h keeps LoopInv when it keeps it for h.
LEMMA LoopFrame ==
    ASSUME TypeOK, TypeOK', LoopInv, NoDeletion, NEW h \in Handler, Others(h),
           pc'[h] = "idle" => attempt'[h] = 0,
           Executing(h)' => LoopAt(h)'
    PROVE  LoopInv'
<1> SUFFICES ASSUME NEW g \in Handler
             PROVE  (pc'[g] = "idle" => attempt'[g] = 0) /\ (Executing(g)' => LoopAt(g)')
    BY Zenon DEF LoopInv
<1>1. CASE g = h
    BY <1>1, Zenon
<1>2. CASE g # h
    <2>1. pc'[g] = pc[g] /\ key'[g] = key[g] /\ attempt'[g] = attempt[g] /\ failure'[g] = failure[g]
        BY <1>2, Zenon DEF Others
    <2>2. (pc[g] = "idle" => attempt[g] = 0) /\ (Executing(g) => LoopAt(g))
        BY Zenon DEF LoopInv
    <2>3. CASE Executing(g)
        <3>1. status'[key'[g]] # Absent
            BY <2>1, <2>2, <2>3, Zenon DEF LoopAt, NoDeletion
        <3> QED BY <2>1, <2>2, <2>3, <3>1, Zenon DEF LoopAt, Executing
    <2>4. CASE ~Executing(g)
        BY <2>1, <2>2, <2>4, Zenon DEF Executing
    <2> QED BY <2>3, <2>4, Zenon
<1> QED BY <1>1, <1>2, Zenon

\* A handler that ends by returning needs nothing more.
LEMMA ReturnLoop ==
    ASSUME TypeOK, NEW h \in Handler, NEW kind, NEW state, Return(h, kind, state)
    PROVE  ~Executing(h)' /\ pc'[h] # "idle"
BY Zenon DEF TypeOK, Return, Executing, Ended

\* A step that keeps a handler's request and attempt counter and goes on to a
\* label with no new obligation keeps LoopAt.
LEMMA LoopGoto ==
    ASSUME TypeOK, NoDeletion, NEW h \in Handler, NEW label, Goto(h, label),
           Executing(h), LoopAt(h),
           UNCHANGED <<key, attempt>>,
           label \notin InLoop => pc[h] \notin InLoop,
           label \in {"select", "backoff"} => attempt[h] < MaxAttempts,
           label \in {"start", "call", "complete", "fail"} => attempt[h] > 0,
           label # "fail", label # "idle"
    PROVE  LoopAt(h)' /\ pc'[h] # "idle"
<1>1. pc'[h] = label
    BY Zenon DEF TypeOK, Goto
<1> QED BY <1>1, Zenon DEF LoopAt, NoDeletion

\* Every step keeps the invariant of the loop.
LEMMA LoopStep == TypeOK /\ LoopInv /\ TypeOK' /\ [Next]_vars => LoopInv'
<1> SUFFICES ASSUME TypeOK, LoopInv, TypeOK', [Next]_vars PROVE LoopInv'
    OBVIOUS
<1>0. NoDeletion
    BY RowSteps, RowsStay, Zenon
<1> DEFINE Kept(h) == (pc'[h] = "idle" => attempt'[h] = 0) /\ (Executing(h)' => LoopAt(h)')
<1>1. \A h \in Handler : pc[h] \notin Ended => Executing(h) /\ LoopAt(h)
    BY Zenon DEF LoopInv, Executing
<1>2. ASSUME NEW h \in Handler, Arrive(h) PROVE Kept(h)
    <2>1. CASE Refuse(h)
        BY <2>1, ReturnLoop, Zenon DEF Refuse, ReturnError
    <2>2. ASSUME NEW k \in Key, NEW p \in Payload, ReplayRequest(h, k, p) PROVE Kept(h)
        BY <2>2, ReturnLoop, Zenon DEF ReplayRequest, ReturnError
    <2>3. ASSUME NEW k \in Key, NEW p \in Payload, CreateRequest(h, k, p) PROVE Kept(h)
        <3>1. CASE ReturnError(h)
            BY <3>1, ReturnLoop, Zenon DEF ReturnError
        <3>2. CASE Goto(h, "received") /\ status' = [status EXCEPT ![k] = Received]
            <4>1. pc'[h] = "received" /\ key'[h] = k /\ attempt'[h] = attempt[h]
                BY <2>3, <3>2, ZenonT(30) DEF CreateRequest, Goto, TypeOK
            <4>2. attempt[h] = 0
                BY <2>3, Zenon DEF CreateRequest, LoopInv
            <4>3. status'[k] # Absent
                BY <3>2, Zenon DEF TypeOK, Received, Absent
            <4> QED BY <4>1, <4>2, <4>3, Zenon DEF LoopAt, InLoop
        <3> QED BY <2>3, <3>1, <3>2, Zenon DEF CreateRequest
    <2> QED BY <1>2, <2>1, <2>2, <2>3, Zenon DEF Arrive
<1>3. ASSUME NEW h \in Handler, Validate(h) \/ StartRouting(h) \/ StartProgress(h) PROVE Kept(h)
    <2>1. Executing(h) /\ LoopAt(h) /\ pc[h] \notin InLoop /\ UNCHANGED <<key, attempt>>
        BY <1>1, <1>3, Zenon DEF Validate, StartRouting, StartProgress, Advance, Ended, InLoop
    <2>2. attempt[h] = 0 /\ attempt[h] < MaxAttempts
        BY <2>1, GatewayAssumption, SMTT(30) DEF LoopAt
    <2>3. ReturnError(h) \/ (\E label \in {"policy", "progress", "select"} : Goto(h, label))
        BY <1>3, Zenon DEF Validate, StartRouting, StartProgress, Advance
    <2> QED BY <1>0, <2>1, <2>2, <2>3, LoopGoto, ReturnLoop, Zenon DEF ReturnError
<1>4. ASSUME NEW h \in Handler, LoadPolicy(h) \/ Price(h) \/ ReserveBudget(h) PROVE Kept(h)
    <2>1. Executing(h) /\ LoopAt(h) /\ pc[h] \notin InLoop /\ UNCHANGED <<key, attempt>>
        BY <1>1, <1>4, Zenon DEF LoadPolicy, Price, ReserveBudget, Ended, InLoop
    <2>2. ReturnError(h) \/ (\E label \in {"admit", "refuse", "reserve", "route", "reject"} : Goto(h, label))
        BY <1>4, Zenon DEF LoadPolicy, Price, ReserveBudget
    <2> QED BY <1>0, <2>1, <2>2, LoopGoto, ReturnLoop, Zenon DEF ReturnError
<1>5. ASSUME NEW h \in Handler, Admit(h) PROVE Kept(h)
    <2>1. LoopAt(h) /\ pc[h] = "admit" /\ UNCHANGED <<key, attempt>>
        BY <1>1, <1>5, Zenon DEF Admit, Ended
    <2>2. pc'[h] \in {"price", "refuse"}
        BY <1>5, Zenon DEF Admit, Goto, TypeOK
    <2> QED BY <1>0, <2>1, <2>2, Zenon DEF LoopAt, NoDeletion, InLoop
<1>6. ASSUME NEW h \in Handler, FailValidated(h) \/ RejectBudget(h) \/ ReconcileBudget(h) PROVE Kept(h)
    BY <1>6, ReturnLoop, Zenon DEF FailValidated, RejectBudget, ReconcileBudget, ReturnError
<1>7. ASSUME NEW h \in Handler, Select(h) PROVE Kept(h)
    <2>1. Executing(h) /\ LoopAt(h) /\ pc[h] = "select" /\ UNCHANGED key
        BY <1>1, <1>7, Zenon DEF Select, Ended
    <2>2. CASE Goto(h, "finish") /\ UNCHANGED attempt
        BY <1>0, <2>1, <2>2, LoopGoto, Zenon DEF InLoop
    <2>3. CASE Goto(h, "start") /\ attempt' = [attempt EXCEPT ![h] = @ + 1]
        <3>1. pc'[h] = "start" /\ attempt'[h] = attempt[h] + 1 /\ attempt[h] \in Nat
            <4>1. pc \in [Handler -> Label] /\ attempt \in [Handler -> 0..MaxAttempts]
                BY Zenon DEF TypeOK
            <4> QED BY <2>3, <4>1, GatewayAssumption DEF Goto
        <3>2. attempt'[h] > 0
            BY <3>1, SMTT(30)
        <3> QED BY <1>0, <2>1, <3>1, <3>2, Zenon DEF LoopAt, NoDeletion, InLoop
    <2> QED BY <1>7, <2>2, <2>3, Zenon DEF Select
<1>8. ASSUME NEW h \in Handler, StartAttempt(h) \/ CallAnswers(h) PROVE Kept(h)
    <2>1. /\ Executing(h) /\ LoopAt(h) /\ pc[h] \in {"start", "call"} /\ UNCHANGED <<key, attempt>>
        BY <1>1, <1>8, Zenon DEF StartAttempt, CallAnswers, Ended
    <2>2. attempt[h] > 0
        BY <2>1, Zenon DEF LoopAt
    <2>3. \/ Return(h, "error", None) \/ Return(h, "unpriced", None)
          \/ \E label \in {"call", "complete"} : Goto(h, label)
        BY <1>8, Zenon DEF StartAttempt, CallAnswers, ReturnError
    <2> QED BY <1>0, <2>1, <2>2, <2>3, LoopGoto, ReturnLoop, Zenon DEF InLoop
<1>9. ASSUME NEW h \in Handler, NEW result, CallFails(h, result) PROVE Kept(h)
    <2>1. LoopAt(h) /\ pc[h] = "call" /\ UNCHANGED <<key, attempt>>
        BY <1>1, <1>9, Zenon DEF CallFails, Ended
    <2>2. pc'[h] = "fail"
        BY <1>9, Zenon DEF CallFails, Goto, TypeOK
    <2>3. failure'[h].retryable => attempt[h] < MaxAttempts
        <3>1. PICK retryable, partial :
                failure' = [failure EXCEPT ![h] = [cause |-> CauseOf(result),
                              retryable |-> Retry(retryable, partial, attempt[h])]]
            BY <1>9, Zenon DEF CallFails
        <3>2. failure'[h].retryable = Retry(retryable, partial, attempt[h])
            BY <3>1, Zenon DEF TypeOK
        <3> QED BY <3>2, Zenon DEF Retry
    <2> QED BY <1>0, <2>1, <2>2, <2>3, Zenon DEF LoopAt, NoDeletion, InLoop
<1>10. ASSUME NEW h \in Handler, CompleteRequest(h) PROVE Kept(h)
    <2>1. LoopAt(h) /\ pc[h] = "complete" /\ UNCHANGED <<key, attempt>>
        BY <1>1, <1>10, Zenon DEF CompleteRequest, Ended
    <2>2. pc' = [pc EXCEPT ![h] = "reconcile"] \/ ReturnError(h)
        BY <1>10, Zenon DEF CompleteRequest
    <2>3. CASE pc' = [pc EXCEPT ![h] = "reconcile"]
        <3>1. pc'[h] = "reconcile"
            BY <2>3, Zenon DEF TypeOK
        <3> QED BY <1>0, <2>1, <3>1, Zenon DEF LoopAt, NoDeletion, InLoop
    <2> QED BY <2>2, <2>3, ReturnLoop, Zenon DEF ReturnError
<1>11. ASSUME NEW h \in Handler, FailAttempt(h) PROVE Kept(h)
    <2>1. Executing(h) /\ LoopAt(h) /\ pc[h] = "fail" /\ UNCHANGED <<key, attempt>>
        BY <1>1, <1>11, Zenon DEF FailAttempt, Ended
    <2>2. ReturnError(h) \/ Goto(h, "reconcile") \/ (failure[h].retryable /\ Goto(h, "backoff"))
        BY <1>11, Zenon DEF FailAttempt
    <2>3. failure[h].retryable => attempt[h] < MaxAttempts
        BY <2>1, Zenon DEF LoopAt
    <2> QED BY <1>0, <2>1, <2>2, <2>3, LoopGoto, ReturnLoop, Zenon DEF ReturnError, InLoop
<1>12. ASSUME NEW h \in Handler, Backoff(h) \/ Finish(h) PROVE Kept(h)
    <2>1. Executing(h) /\ LoopAt(h) /\ pc[h] \in {"backoff", "finish"} /\ UNCHANGED <<key, attempt>>
        BY <1>1, <1>12, Zenon DEF Backoff, Finish, Ended
    <2>2. \E label \in {"select", "finish", "reconcile"} :
            Goto(h, label) /\ (label = "select" => pc[h] = "backoff")
        BY <1>12, Zenon DEF Backoff, Finish
    <2>3. pc[h] = "backoff" => attempt[h] < MaxAttempts
        BY <2>1, Zenon DEF LoopAt
    <2> QED BY <1>0, <2>1, <2>2, <2>3, LoopGoto, Zenon DEF InLoop
<1>13. ASSUME NEW h \in Handler, Disconnect(h) PROVE Kept(h)
    BY <1>0, <1>1, <1>13, Zenon DEF Disconnect, Executing, LoopAt, NoDeletion, Ended
<1>14. ASSUME NEW h \in Handler, Crash(h) PROVE Kept(h)
    BY <1>14, Zenon DEF Crash, TypeOK, Executing, Ended
<1>15. ASSUME NEW h \in Handler, Step(h) PROVE Kept(h)
    BY <1>3, <1>4, <1>5, <1>6, <1>7, <1>8, <1>9, <1>10, <1>11, <1>12, <1>15, Zenon DEF Step
<1>16. ASSUME NEW h \in Handler, Arrive(h) \/ Step(h) \/ Disconnect(h) \/ Crash(h) PROVE LoopInv'
    <2>1. Kept(h)
        BY <1>2, <1>13, <1>14, <1>15, <1>16, Zenon
    <2>2. Others(h)
        BY <1>16, OthersStay, Zenon
    <2> QED BY <1>0, <2>1, <2>2, LoopFrame, Zenon
<1>17. ASSUME UNCHANGED handlerVars PROVE LoopInv'
    BY <1>0, <1>17, Zenon DEF handlerVars, LoopInv, LoopAt, Executing, NoDeletion
<1> QED BY <1>16, <1>17, Zenon DEF Next, CancelRequest, vars

-----------------------------------------------------------------------------
(* The theorems.                                                             *)

SafetyInv == TypeOK /\ LoopInv /\ SingleExecutor /\ FactsMatchStatus

\* The safety invariant holds at first.
LEMMA InitSafety == Init => SafetyInv
<1> SUFFICES ASSUME Init PROVE SafetyInv
    BY Zenon
<1>1. TypeOK
    BY GatewayAssumption, SMTT(30) DEF Init, TypeOK, AttemptStatus, Label, NoFailure, Cause, Outcome
<1>2. \A h \in Handler : ~Executing(h) /\ attempt[h] = 0
    BY Zenon DEF Init, Executing, Ended
<1>3. LoopInv /\ SingleExecutor
    BY <1>2, Zenon DEF LoopInv, SingleExecutor
<1>4. FactsMatchStatus
    BY Zenon DEF Init, FactsMatchStatus, FactsOfStatus, Event, Absent, Completed, BudgetRejected, Failed
<1> QED BY <1>1, <1>3, <1>4, Zenon DEF SafetyInv

\* A step of h that does not start executing keeps its request.
LEMMA ExecutorStep ==
    ASSUME TypeOK, LoopInv, SingleExecutor, NEW h \in Handler,
           Arrive(h) \/ Step(h) \/ Disconnect(h) \/ Crash(h)
    PROVE  SingleExecutor'
<1>1. Others(h)
    BY OthersStay, Zenon
<1>2. ASSUME NEW g \in Handler \ {h}, Executing(g)', Executing(h)', key'[g] = key'[h]
      PROVE  FALSE
    <2>1. Executing(g) /\ key'[g] = key[g]
        BY <1>1, <1>2, Zenon DEF Others, Executing
    <2>2. key[g] \in Key /\ status[key[g]] # Absent
        BY <2>1, Zenon DEF LoopInv, LoopAt
    <2>3. CASE \E k \in Key, p \in Payload : CreateRequest(h, k, p)
        <3>1. PICK k \in Key, p \in Payload : CreateRequest(h, k, p)
            BY <2>3, Zenon
        <3>2. key'[h] = k /\ status[k] = Absent
            BY <3>1, Zenon DEF CreateRequest, Inserts, TypeOK
        <3> QED BY <1>2, <2>1, <2>2, <3>2, Zenon
    <2>4. CASE Refuse(h) \/ (\E k \in Key, p \in Payload : ReplayRequest(h, k, p))
        <3>1. ~Executing(h)'
            BY <2>4, ReturnLoop, Zenon DEF Refuse, ReplayRequest, ReturnError
        <3> QED BY <1>2, <3>1, Zenon
    <2>5. CASE Step(h) \/ Disconnect(h) \/ Crash(h)
        <3>1. Executing(h) /\ UNCHANGED key
            BY <2>5, Zenon DEF Step, Disconnect, Crash, Executing, Ended, Validate, LoadPolicy, Admit, Price,
               FailValidated, ReserveBudget, RejectBudget, StartRouting, StartProgress, Advance, Select,
               StartAttempt, CallAnswers, CallFails, CompleteRequest, FailAttempt, Backoff, Finish,
               ReconcileBudget
        <3>2. key[g] = key[h]
            BY <1>2, <3>1, Zenon
        <3> QED BY <2>1, <3>1, <3>2, Zenon DEF SingleExecutor
    <2> QED BY <2>3, <2>4, <2>5, Zenon DEF Arrive
<1>3. ASSUME NEW f \in Handler \ {h}, NEW g \in Handler \ {h},
             Executing(f)', Executing(g)', key'[f] = key'[g]
      PROVE  f = g
    <2>1. Executing(f) /\ Executing(g) /\ key[f] = key[g]
        BY <1>1, <1>3, Zenon DEF Others, Executing
    <2> QED BY <2>1, Zenon DEF SingleExecutor
<1>4. ASSUME NEW f \in Handler, NEW g \in Handler, Executing(f)', Executing(g)', key'[f] = key'[g]
      PROVE  f = g
    BY <1>2, <1>3, <1>4, Zenon
<1> QED BY <1>4, Zenon DEF SingleExecutor

\* The facts of a request follow its status through every kind of row step.
LEMMA FactsStep ==
    ASSUME TypeOK, FactsMatchStatus, RowStep PROVE FactsMatchStatus'
<1> SUFFICES ASSUME NEW j \in Key PROVE FactsOfStatus(j)'
    BY Zenon DEF FactsMatchStatus
<1>1. FactsOfStatus(j)
    BY Zenon DEF FactsMatchStatus
<1>2. status \in [Key -> State \cup {Absent}] /\ outbox \in [Key -> [Event -> Nat]]
    BY Zenon DEF TypeOK
<1>3. \A e \in Event : outbox[j][e] \in Nat
    BY <1>2, Zenon
<1>4. {"accepted", "completed", "usage", "exceeded", "failed"} \subseteq Event \ {"selected"}
    BY Zenon DEF Event
<1>5. ASSUME status'[j] = status[j],
             \A e \in Event \ {"selected"} : outbox'[j][e] = outbox[j][e]
      PROVE  FactsOfStatus(j)'
    BY <1>1, <1>4, <1>5, Zenon DEF FactsOfStatus
<1>6. CASE Keeps
    BY <1>6, <1>5, Zenon DEF Keeps
<1>7. ASSUME NEW k \in Key, Accepts(k) PROVE FactsOfStatus(j)'
    <2>1. CASE j = k
        <3>1. status[j] = Absent /\ status'[j] = Received
            BY <1>7, <1>2, <2>1, Zenon DEF Accepts
        <3>2. \A e \in Event \ {"selected"} :
                outbox'[j][e] = outbox[j][e] + (IF e = "accepted" THEN 1 ELSE 0)
            BY <1>7, <2>1, Zenon DEF Accepts, Adds
        <3> QED BY <1>1, <1>3, <1>4, <3>1, <3>2, SMTT(30)
               DEF FactsOfStatus, Received, Absent, Completed, BudgetRejected, Failed
    <2>2. CASE j # k
        <3>1. status'[j] = status[j]
            BY <1>7, <1>2, <2>2, Zenon DEF Accepts
        <3>2. \A e \in Event \ {"selected"} : outbox'[j][e] = outbox[j][e]
            BY <1>7, <1>3, <2>2, SMTT(30) DEF Accepts, Adds
        <3> QED BY <1>5, <3>1, <3>2, Zenon
    <2> QED BY <2>1, <2>2, Zenon
<1>8. ASSUME NEW k \in Key, NEW s \in State, Moves(k, s) PROVE FactsOfStatus(j)'
    <2>1. CASE j = k
        <3>1. status'[j] = s /\ CanTransition(status[j], s)
            BY <1>8, <1>2, <2>1, Zenon DEF Moves
        <3>2. \A e \in Event \ {"selected"} : outbox'[j][e] =
                outbox[j][e] + (IF e \in Lifecycle!FactsOf(status[j], s) THEN 1 ELSE 0)
            BY <1>8, <2>1, Zenon DEF Moves, Adds
        <3>3. /\ status[j] \notin {Completed, BudgetRejected, Failed, Absent}
              /\ s # Absent
              /\ "accepted" \notin Lifecycle!FactsOf(status[j], s)
              /\ "completed" \in Lifecycle!FactsOf(status[j], s) <=> s = Completed
              /\ "usage" \in Lifecycle!FactsOf(status[j], s) <=> s = Completed
              /\ "exceeded" \in Lifecycle!FactsOf(status[j], s) <=> s = BudgetRejected
              /\ "failed" \in Lifecycle!FactsOf(status[j], s) => s = Failed
            <4>1. status[j] \in State \cup {Absent}
                BY <1>2, Zenon
            <4> QED BY <3>1, <4>1, Zenon DEF CanTransition, allowedTransitions, State, Absent,
                 Received, Validated, Routing, InProgress, Completed, Failed, Cancelled, BudgetRejected,
                 Lifecycle!FactsOf, Lifecycle!Completed, Lifecycle!InProgress, Lifecycle!Failed,
                 Lifecycle!BudgetRejected
        <3> QED BY <1>1, <1>3, <1>4, <3>1, <3>2, <3>3 DEF FactsOfStatus
    <2>2. CASE j # k
        <3>1. status'[j] = status[j]
            BY <1>8, <1>2, <2>2, Zenon DEF Moves
        <3>2. \A e \in Event \ {"selected"} : outbox'[j][e] = outbox[j][e]
            BY <1>8, <1>3, <2>2, SMTT(30) DEF Moves, Adds
        <3> QED BY <1>5, <3>1, <3>2, Zenon
    <2> QED BY <2>1, <2>2, Zenon
<1> QED BY <1>6, <1>7, <1>8, Zenon DEF RowStep

\* Every step keeps the safety invariant.
LEMMA SafetyStep == SafetyInv /\ [Next]_vars => SafetyInv'
<1> SUFFICES ASSUME SafetyInv, [Next]_vars PROVE SafetyInv'
    OBVIOUS
<1>1. TypeOK /\ LoopInv /\ SingleExecutor /\ FactsMatchStatus
    BY Zenon DEF SafetyInv
<1>2. TypeOK' /\ LoopInv'
    BY <1>1, TypeStep, LoopStep, Zenon
<1>3. SingleExecutor'
    <2>1. CASE UNCHANGED handlerVars
        BY <1>1, <2>1, Zenon DEF handlerVars, SingleExecutor, Executing
    <2> QED BY <1>1, <2>1, ExecutorStep, Zenon DEF Next, CancelRequest, vars
<1>4. FactsMatchStatus'
    BY <1>1, RowSteps, FactsStep, Zenon
<1> QED BY <1>2, <1>3, <1>4, Zenon DEF SafetyInv

\* The rows and locals stay in their types, and no request is given more than
\* MaxAttempts attempts, whatever the interleaving, faults and crashes.
THEOREM TypeCorrect == Spec => []TypeOK
<1>1. Spec => []SafetyInv
    BY InitSafety, SafetyStep, PTL DEF Spec
<1> QED BY <1>1, PTL DEF SafetyInv

\* However many handlers are given one idempotency key, at most one executes it.
THEOREM OneExecutor == Spec => []SingleExecutor
<1>1. Spec => []SafetyInv
    BY InitSafety, SafetyStep, PTL DEF Spec
<1> QED BY <1>1, PTL DEF SafetyInv

\* The outbox facts of every request are exactly those of its status: a request
\* is charged (its usage fact) once if it is COMPLETED and never otherwise.
THEOREM FactsAgree == Spec => []FactsMatchStatus
<1>1. Spec => []SafetyInv
    BY InitSafety, SafetyStep, PTL DEF Spec
<1> QED BY <1>1, PTL DEF SafetyInv

\* No request exists at first, in both specifications.
LEMMA MappedInit == Init => Lifecycle!Init
<1> SUFFICES ASSUME Init PROVE Lifecycle!Init
    BY Zenon
<1>1. \A k \in Key : {e \in Event \ {"accepted", "selected"} : outbox[k][e] > 0} = {}
    BY DEF Init
<1> QED BY <1>1, Zenon DEF Init, Lifecycle!Init, Lifecycle!Absent, Absent

\* A step of one row is a step of the lifecycle.
LEMMA MappedStep == TypeOK /\ RowStep => [Lifecycle!Next]_(Lifecycle!vars)
<1> DEFINE F(o, k) == {e \in Event \ {"accepted", "selected"} : o[k][e] > 0}
<1> SUFFICES ASSUME TypeOK, RowStep PROVE [Lifecycle!Next]_(Lifecycle!vars)
    BY Zenon
<1>0. \A k \in Key, e \in Event : outbox[k][e] \in Nat
    BY DEF TypeOK
<1>1. CASE Keeps
    <2>1. \A k \in Key : F(outbox', k) = F(outbox, k)
        BY <1>1, Zenon DEF Keeps
    <2>2. [k \in Key |-> F(outbox', k)] = [k \in Key |-> F(outbox, k)]
        BY <2>1, Zenon
    <2> QED BY <1>1, <2>2, Zenon DEF Keeps, Lifecycle!vars
<1>2. ASSUME NEW k \in Key, Accepts(k) PROVE Lifecycle!Next
    <2>1. \A j \in Key : F(outbox', j) = F(outbox, j)
        BY <1>0, <1>2 DEF Accepts, Adds
    <2>2. [j \in Key |-> F(outbox', j)] = [j \in Key |-> F(outbox, j)]
        BY <2>1, Zenon
    <2>3. Lifecycle!Accept(k)
        BY <1>2, <2>2, Zenon DEF Accepts, Lifecycle!Accept, Lifecycle!Absent, Absent, Lifecycle!Received, Received
    <2> QED BY <2>3, Zenon DEF Lifecycle!Next
<1>3. ASSUME NEW k \in Key, NEW s \in State, Moves(k, s) PROVE Lifecycle!Next
    <2>1. "accepted" \notin Lifecycle!FactsOf(status[k], s) /\ "selected" \notin Lifecycle!FactsOf(status[k], s)
          /\ Lifecycle!FactsOf(status[k], s) \subseteq Event
        BY Zenon DEF Lifecycle!FactsOf, Event
    <2>2. F(outbox', k) = F(outbox, k) \cup Lifecycle!FactsOf(status[k], s)
        BY <1>0, <1>3, <2>1, SMTT(30) DEF Moves, Adds
    <2>3. \A j \in Key \ {k} : F(outbox', j) = F(outbox, j)
        BY <1>0, <1>3 DEF Moves, Adds
    <2>4. [j \in Key |-> F(outbox', j)] =
            [[j \in Key |-> F(outbox, j)] EXCEPT ![k] = @ \cup Lifecycle!FactsOf(status[k], s)]
        BY <2>2, <2>3, Zenon
    <2>5. Lifecycle!CanTransition(status[k], s)
        BY <1>3, Zenon DEF Moves, CanTransition, allowedTransitions, Lifecycle!CanTransition,
           Lifecycle!allowedTransitions, Lifecycle!Received, Lifecycle!Validated, Lifecycle!Routing,
           Lifecycle!InProgress, Lifecycle!Completed, Lifecycle!Failed, Lifecycle!Cancelled,
           Lifecycle!BudgetRejected, Received, Validated, Routing, InProgress, Completed, Failed,
           Cancelled, BudgetRejected
    <2>6. Lifecycle!Move(k, s)
        BY <1>3, <2>4, <2>5, Zenon DEF Moves, Lifecycle!Move
    <2>7. s \in Lifecycle!State
        BY Zenon DEF State, Lifecycle!State, Lifecycle!Received, Lifecycle!Validated, Lifecycle!Routing,
           Lifecycle!InProgress, Lifecycle!Completed, Lifecycle!Failed, Lifecycle!Cancelled,
           Lifecycle!BudgetRejected, Received, Validated, Routing, InProgress, Completed, Failed,
           Cancelled, BudgetRejected
    <2> QED BY <2>6, <2>7, Zenon DEF Lifecycle!Next
<1> QED BY <1>1, <1>2, <1>3, Zenon DEF RowStep

\* The gateway implements the abstract lifecycle: a logical request is accepted
\* once, moves only along the state machine of request.go, never leaves a final
\* state, and commits its facts in the very step that makes it final.
THEOREM Refinement == Spec => RefinesLifecycle
<1>1. Spec => []SafetyInv
    BY InitSafety, SafetyStep, PTL DEF Spec
<1>2. SafetyInv /\ [Next]_vars => [Lifecycle!Next]_(Lifecycle!vars)
    BY RowSteps, MappedStep, Zenon DEF SafetyInv
<1> QED BY <1>1, <1>2, MappedInit, PTL DEF Spec, RefinesLifecycle, Lifecycle!Spec

-----------------------------------------------------------------------------
(* The rows of the attempts: only the executor of a request touches them.     *)

SameRows(j) == attempts'[j] = attempts[j] /\ tried'[j] = tried[j] /\ output'[j] = output[j]

SameCompletion(j) == (status'[j] = Completed) <=> (status[j] = Completed)

\* A step of h changes the attempt rows of no request but its own.
OwnRows(h) == \A j \in Key : ~SameRows(j) => Executing(h) /\ j = key[h]

\* What the other handlers know of their attempts stays too.
OthersLeases(h) == \A g \in Handler \ {h} : lease'[g] = lease[g] /\ excluded'[g] = excluded[g]

RowsOfRequest(k) ==
    /\ \A m, n \in AttemptNumber : m < n /\ attempts[k][n] # "NONE" =>
         attempts[k][m] = "FAILED" /\ tried[k][m] # tried[k][n] /\ m \notin output[k]
    /\ (status[k] = Completed) <=> (\E n \in AttemptNumber : attempts[k][n] = "SUCCEEDED")
    /\ \A m, n \in AttemptNumber :
         attempts[k][m] = "SUCCEEDED" /\ attempts[k][n] = "SUCCEEDED" => m = n
    /\ status[k] = Absent => \A n \in AttemptNumber : attempts[k][n] = "NONE" /\ n \notin output[k]

RowsOfHandler(h) == Executing(h) => \A n \in AttemptNumber : AttemptAt(h, n)

AttemptInv == /\ \A k \in Key : RowsOfRequest(k)
              /\ \A h \in Handler : RowsOfHandler(h)

\* The invariant says what the three invariants of the runs say of the rows.
LEMMA AttemptInvImplies ==
    LoopInv /\ AttemptInv => RowInv /\ OneSuccessfulAttempt /\ AttemptsInOrder
<1> SUFFICES ASSUME LoopInv, AttemptInv PROVE RowInv /\ OneSuccessfulAttempt /\ AttemptsInOrder
    OBVIOUS
<1>1. RowInv
    BY Zenon DEF AttemptInv, RowsOfRequest, RowsOfHandler, RowInv
<1>2. OneSuccessfulAttempt
    BY DEF AttemptInv, RowsOfRequest, OneSuccessfulAttempt
<1>3. AttemptsInOrder
    BY DEF AttemptInv, RowsOfRequest, AttemptsInOrder
<1> QED BY <1>1, <1>2, <1>3, Zenon

\* The update of one attempt's status column.
LEMMA MarkRow ==
    ASSUME TypeOK, NEW k \in Key, NEW n \in AttemptNumber, NEW s, attempts' = Mark(k, n, s)
    PROVE  \A j \in Key, m \in AttemptNumber :
             attempts'[j][m] = IF j = k /\ m = n THEN s ELSE attempts[j][m]
BY Zenon DEF TypeOK, Mark

\* A request whose attempt rows and completion a step leaves alone.
LEMMA RequestFrame ==
    ASSUME NEW j \in Key, RowsOfRequest(j), SameRows(j), SameCompletion(j), NoDeletion
    PROVE  RowsOfRequest(j)'
<1>1. status'[j] = Absent => status[j] = Absent
    BY Zenon DEF NoDeletion
<1> QED BY <1>1, ZenonT(30) DEF RowsOfRequest, SameRows, SameCompletion

\* A handler whose locals and whose request's rows a step leaves alone.
LEMMA HandlerFrame ==
    ASSUME NEW g \in Handler, RowsOfHandler(g), key[g] \in Key \/ ~Executing(g), SameRows(key[g]) \/ ~Executing(g),
           pc'[g] = pc[g], key'[g] = key[g], attempt'[g] = attempt[g], failure'[g] = failure[g],
           lease'[g] = lease[g], excluded'[g] = excluded[g]
    PROVE  RowsOfHandler(g)'
<1>1. CASE ~Executing(g)
    BY <1>1, Zenon DEF Executing, RowsOfHandler
<1>2. CASE Executing(g)
    BY <1>2, ZenonT(30) DEF RowsOfHandler, SameRows, AttemptAt, Executing
<1> QED BY <1>1, <1>2, Zenon

\* A step of h keeps the rows when it keeps those of its own request and changes
\* no other: a second handler never executes the same request.
LEMMA AttemptFrame ==
    ASSUME TypeOK, LoopInv, SingleExecutor, AttemptInv, NoDeletion, NEW h \in Handler,
           Others(h), OthersLeases(h), OwnRows(h),
           \A j \in Key : SameRows(j) => SameCompletion(j),
           \A j \in Key : ~SameRows(j) => RowsOfRequest(j)',
           RowsOfHandler(h)'
    PROVE  AttemptInv'
<1>1. ASSUME NEW j \in Key PROVE RowsOfRequest(j)'
    BY RequestFrame, Zenon DEF AttemptInv
<1>2. ASSUME NEW g \in Handler PROVE RowsOfHandler(g)'
    <2>1. CASE g # h
        <3>1. /\ pc'[g] = pc[g] /\ key'[g] = key[g] /\ attempt'[g] = attempt[g] /\ failure'[g] = failure[g]
              /\ lease'[g] = lease[g] /\ excluded'[g] = excluded[g]
            BY <2>1, Zenon DEF Others, OthersLeases
        <3>2. Executing(g) => key[g] \in Key
            BY KeyOfExecuting, Zenon
        <3>3. Executing(g) => SameRows(key[g])
            BY <2>1, <3>2, Zenon DEF OwnRows, SingleExecutor
        <3> QED BY <3>1, <3>2, <3>3, HandlerFrame, Zenon DEF AttemptInv
    <2> QED BY <2>1, Zenon
<1> QED BY <1>1, <1>2, Zenon DEF AttemptInv

\* Leases and exclusions belong to their handler.
LEMMA LeasesStay ==
    ASSUME TypeOK, NEW h \in Handler, Arrive(h) \/ Step(h) \/ Disconnect(h) \/ Crash(h)
    PROVE  OthersLeases(h)
<1>1. CASE UNCHANGED <<lease, excluded>>
    BY <1>1, Zenon DEF OthersLeases
<1>2. CASE ReleaseLease(h) /\ UNCHANGED excluded
    BY <1>2, Zenon DEF ReleaseLease, OthersLeases, TypeOK
<1>3. ASSUME Select(h) PROVE OthersLeases(h)
    BY <1>3, Zenon DEF Select, OthersLeases, TypeOK
<1>4. CASE Arrive(h) \/ Disconnect(h)
    BY <1>1, <1>4, Zenon DEF Arrive, Disconnect, Refuse, CreateRequest, ReplayRequest
<1>5. CASE Crash(h)
    BY <1>2, <1>5, Zenon DEF Crash
<1>6. CASE Step(h)
    <2>1. \/ UNCHANGED <<lease, excluded>>
          \/ ReleaseLease(h) /\ UNCHANGED excluded
          \/ Select(h)
        BY <1>6, Zenon DEF Step, Validate, LoadPolicy, Admit, Price, FailValidated, ReserveBudget,
           RejectBudget, StartRouting, StartProgress, Advance, StartAttempt, CallAnswers, CallFails,
           CompleteRequest, FailAttempt, Backoff, Finish, ReconcileBudget
    <2> QED BY <2>1, <1>1, <1>2, <1>3, Zenon
<1> QED BY <1>4, <1>5, <1>6, Zenon

\* A status update between two other states completes nothing.
LEMMA NoCompletion ==
    ASSUME TypeOK, NEW k, NEW from, NEW to, NEW r, TransitionRequest(k, from, to, r),
           from # Completed, to # Completed
    PROVE  \A j \in Key : SameCompletion(j)
BY Zenon DEF TypeOK, TransitionRequest, Commits, Matches, SameCompletion

Quiet == \A j \in Key : SameRows(j) /\ SameCompletion(j)

\* The steps that leave the attempt rows and completions alone.
LEMMA QuietSteps ==
    ASSUME TypeOK, NEW h \in Handler,
           \/ Arrive(h) \/ Disconnect(h) \/ Crash(h)
           \/ Validate(h) \/ LoadPolicy(h) \/ Admit(h) \/ Price(h) \/ FailValidated(h) \/ ReserveBudget(h)
           \/ RejectBudget(h) \/ StartRouting(h) \/ StartProgress(h) \/ Select(h) \/ Backoff(h)
           \/ ReconcileBudget(h)
    PROVE  Quiet
<1>1. UNCHANGED <<attempts, tried, output>>
    BY Zenon DEF Arrive, Refuse, CreateRequest, ReplayRequest, Disconnect, Crash, Validate, LoadPolicy,
       Admit, Price, FailValidated, ReserveBudget, RejectBudget, StartRouting, StartProgress, Advance,
       Select, Backoff, ReconcileBudget, storeVars
<1>2. \A j \in Key : SameCompletion(j)
    <2>0. /\ Received # Completed /\ Validated # Completed /\ Routing # Completed /\ InProgress # Completed
          /\ Failed # Completed /\ BudgetRejected # Completed /\ Absent # Completed
        BY Zenon DEF Received, Validated, Routing, InProgress, Completed, Failed, BudgetRejected, Absent
    <2>1. CASE UNCHANGED status
        BY <2>1, Zenon DEF SameCompletion
    <2>2. ASSUME NEW k \in Key, NEW p \in Payload, CreateRequest(h, k, p) PROVE <1>2
        <3>1. status[k] = Absent
            BY <2>2, Zenon DEF CreateRequest, Inserts
        <3>2. UNCHANGED status \/ status' = [status EXCEPT ![k] = Received]
            BY <2>2, Zenon DEF CreateRequest
        <3> QED BY <2>0, <3>1, <3>2, Zenon DEF SameCompletion, TypeOK
    <2>3. ASSUME NEW from, NEW to, NEW r, TransitionRequest(key[h], from, to, r),
                 from # Completed, to # Completed PROVE <1>2
        BY <2>3, NoCompletion, Zenon
    <2>4. CASE Arrive(h) \/ Disconnect(h) \/ Crash(h)
        BY <2>1, <2>2, <2>4, Zenon DEF Arrive, Refuse, ReplayRequest, Disconnect, Crash, storeVars
    <2>5. CASE LoadPolicy(h) \/ Admit(h) \/ Price(h) \/ ReserveBudget(h) \/ Select(h) \/ Backoff(h)
               \/ ReconcileBudget(h)
        BY <2>1, <2>5, Zenon DEF LoadPolicy, Admit, Price, ReserveBudget, Select, Backoff, ReconcileBudget,
           storeVars
    <2>6. CASE Validate(h) \/ StartRouting(h) \/ StartProgress(h) \/ FailValidated(h) \/ RejectBudget(h)
        <3>1. \E from \in {Received, Validated, Routing},
                 to \in {Validated, Routing, InProgress, Failed, BudgetRejected}, r \in Reply :
                TransitionRequest(key[h], from, to, r)
            BY <2>6, Zenon DEF Validate, StartRouting, StartProgress, Advance, FailValidated, RejectBudget
        <3> QED BY <2>0, <2>3, <3>1, Zenon
    <2> QED BY <2>4, <2>5, <2>6, Zenon
<1> QED BY <1>1, <1>2, Zenon DEF Quiet, SameRows

\* A handler that leaves its rows alone and goes on to a label which asks for
\* nothing new of them.
LEMMA HandlerGoto ==
    ASSUME NEW h \in Handler, Executing(h), RowsOfHandler(h), SameRows(key[h]),
           UNCHANGED <<key, attempt, excluded, lease>>,
           pc'[h] \notin {"start", "call", "complete", "fail"},
           pc'[h] \in {"select", "backoff"} => pc[h] \in {"select", "backoff"} \/ attempt[h] = 0
    PROVE  RowsOfHandler(h)'
<1> SUFFICES ASSUME NEW n \in AttemptNumber PROVE AttemptAt(h, n)'
    BY Zenon DEF RowsOfHandler
<1>1. AttemptAt(h, n) /\ n # 0
    BY GatewayAssumption DEF RowsOfHandler, AttemptNumber
<1> QED BY <1>1, Zenon DEF AttemptAt, SameRows

\* The quiet steps of an executing handler.
LEMMA QuietHandler ==
    ASSUME TypeOK, LoopInv, AttemptInv, Quiet, NEW h \in Handler,
           \/ Disconnect(h) \/ Crash(h) \/ Validate(h) \/ LoadPolicy(h) \/ Admit(h) \/ Price(h)
           \/ FailValidated(h) \/ ReserveBudget(h) \/ RejectBudget(h) \/ StartRouting(h)
           \/ StartProgress(h) \/ Backoff(h) \/ ReconcileBudget(h)
    PROVE  RowsOfHandler(h)'
<1>1. Executing(h)
    BY Zenon DEF Disconnect, Crash, Validate, LoadPolicy, Admit, Price, FailValidated, ReserveBudget,
       RejectBudget, StartRouting, StartProgress, Advance, Backoff, ReconcileBudget, Executing, Ended
<1>2. key[h] \in Key /\ SameRows(key[h]) /\ RowsOfHandler(h)
    BY <1>1, KeyOfExecuting, Zenon DEF Quiet, AttemptInv
<1>3. CASE Crash(h) \/ FailValidated(h) \/ RejectBudget(h) \/ ReconcileBudget(h) \/ ReturnError(h)
    <2>1. ~Executing(h)'
        BY <1>3, ReturnLoop, Zenon DEF Crash, FailValidated, RejectBudget, ReconcileBudget, ReturnError,
           Executing, Ended, TypeOK
    <2> QED BY <2>1, Zenon DEF RowsOfHandler
<1>4. CASE Disconnect(h)
    <2>1. UNCHANGED <<pc, key, attempt, failure, lease, excluded>>
        BY <1>4, Zenon DEF Disconnect
    <2> QED BY <1>1, <1>2, <2>1, HandlerFrame, Zenon
<1>5. ASSUME NEW label \in {"policy", "admit", "refuse", "price", "reserve", "reject", "route",
                            "progress", "finish"},
             pc'[h] = label, UNCHANGED <<key, attempt, excluded, lease>>
      PROVE  RowsOfHandler(h)'
    BY <1>1, <1>2, <1>5, HandlerGoto, Zenon
<1>6. CASE Validate(h) \/ StartRouting(h) \/ LoadPolicy(h) \/ Admit(h) \/ Price(h) \/ ReserveBudget(h)
    <2>1. UNCHANGED <<key, attempt, excluded, lease>>
        BY <1>6, Zenon DEF Validate, StartRouting, Advance, LoadPolicy, Admit, Price, ReserveBudget
    <2>2. \/ ReturnError(h)
          \/ \E label \in {"policy", "admit", "refuse", "price", "reserve", "reject", "route", "progress"} :
               pc' = [pc EXCEPT ![h] = label]
        BY <1>6, Zenon DEF Validate, StartRouting, Advance, LoadPolicy, Admit, Price, ReserveBudget, Goto
    <2> QED BY <1>3, <1>5, <2>1, <2>2, Zenon DEF TypeOK
<1>7. CASE StartProgress(h)
    <2>1. UNCHANGED <<key, attempt, excluded, lease>> /\ pc[h] = "progress"
        BY <1>7, Zenon DEF StartProgress, Advance
    <2>2. attempt[h] = 0
        BY <1>1, <2>1, Zenon DEF LoopInv, LoopAt, InLoop
    <2>3. ReturnError(h) \/ Goto(h, "select")
        BY <1>7, Zenon DEF StartProgress, Advance
    <2>4. CASE Goto(h, "select")
        <3>1. pc'[h] = "select"
            BY <2>4, Zenon DEF Goto, TypeOK
        <3> QED BY <1>1, <1>2, <2>1, <2>2, <3>1, HandlerGoto, Zenon
    <2> QED BY <1>3, <2>3, <2>4, Zenon
<1>8. CASE Backoff(h)
    <2>1. UNCHANGED <<key, attempt, excluded, lease>> /\ pc[h] = "backoff"
        BY <1>8, Zenon DEF Backoff
    <2>2. pc'[h] \in {"select", "finish"}
        BY <1>8, Zenon DEF Backoff, Goto, TypeOK
    <2> QED BY <1>1, <1>2, <2>1, <2>2, HandlerGoto, Zenon
<1> QED BY <1>3, <1>4, <1>6, <1>7, <1>8, Zenon

\* A request that is accepted has no attempts yet.
LEMMA ArriveHandler ==
    ASSUME TypeOK, LoopInv, AttemptInv, Quiet, NEW h \in Handler, Arrive(h)
    PROVE  RowsOfHandler(h)'
<1>1. CASE Refuse(h) \/ (\E k \in Key, p \in Payload : ReplayRequest(h, k, p)) \/ ReturnError(h)
    <2>1. ~Executing(h)'
        BY <1>1, ReturnLoop, Zenon DEF Refuse, ReplayRequest, ReturnError
    <2> QED BY <2>1, Zenon DEF RowsOfHandler
<1>2. ASSUME NEW k \in Key, NEW p \in Payload, CreateRequest(h, k, p), ~ReturnError(h)
      PROVE  RowsOfHandler(h)'
    <2>1. /\ status[k] = Absent /\ pc[h] = "idle" /\ UNCHANGED attempt
          /\ key' = [key EXCEPT ![h] = k] /\ Goto(h, "received")
        BY <1>2, Zenon DEF CreateRequest, Inserts
    <2>2. pc'[h] = "received" /\ key'[h] = k
        BY <2>1, Zenon DEF Goto, TypeOK
    <2>3. attempt'[h] = 0
        BY <2>1, Zenon DEF LoopInv
    <2>4. \A n \in AttemptNumber : attempts'[k][n] = "NONE" /\ n \notin output'[k]
        BY <2>1 DEF AttemptInv, RowsOfRequest, Quiet, SameRows
    <2>5. \A n \in AttemptNumber : ~(n < 0) /\ n # 0
        BY GatewayAssumption DEF AttemptNumber
    <2> QED BY <2>2, <2>3, <2>4, <2>5, Zenon DEF RowsOfHandler, AttemptAt
<1> QED BY <1>1, <1>2, Zenon DEF Arrive

\* Router.Select: the new lease is none of the providers tried before.
LEMMA SelectHandler ==
    ASSUME TypeOK, LoopInv, AttemptInv, Quiet, NEW h \in Handler, Select(h)
    PROVE  RowsOfHandler(h)'
<1>1. Executing(h) /\ pc[h] = "select" /\ UNCHANGED key
    BY Zenon DEF Select, Executing, Ended
<1>2. key[h] \in Key /\ SameRows(key[h]) /\ RowsOfHandler(h)
    BY <1>1, KeyOfExecuting, Zenon DEF Quiet, AttemptInv
<1>3. CASE Goto(h, "finish") /\ UNCHANGED <<lease, excluded, attempt>>
    <2>1. pc'[h] = "finish"
        BY <1>3, Zenon DEF Goto, TypeOK
    <2> QED BY <1>1, <1>2, <1>3, <2>1, HandlerGoto, Zenon
<1>4. ASSUME NEW p \in Provider \ excluded[h],
             lease' = [lease EXCEPT ![h] = p],
             excluded' = [excluded EXCEPT ![h] = @ \cup {p}],
             attempt' = [attempt EXCEPT ![h] = @ + 1],
             Goto(h, "start")
      PROVE  RowsOfHandler(h)'
    <2>1. /\ lease'[h] = p /\ excluded'[h] = excluded[h] \cup {p} /\ pc'[h] = "start"
          /\ attempt'[h] = attempt[h] + 1
        BY <1>4, Zenon DEF Goto, TypeOK
    <2>2. attempt[h] \in Nat /\ \A n \in AttemptNumber : n \in Nat
        BY GatewayAssumption DEF TypeOK, AttemptNumber
    <2> SUFFICES ASSUME NEW n \in AttemptNumber PROVE AttemptAt(h, n)'
        BY Zenon DEF RowsOfHandler
    <2>3. AttemptAt(h, n)
        BY <1>1, <1>2, Zenon DEF RowsOfHandler
    <2>4. CASE n > attempt[h]
        <3>1. attempts'[key'[h]][n] = "NONE" /\ n \notin output'[key'[h]] /\ ~(n < attempt'[h])
            BY <1>1, <1>2, <2>1, <2>2, <2>3, <2>4 DEF AttemptAt, SameRows
        <3> QED BY <2>1, <3>1, ZenonT(30) DEF AttemptAt
    <2>5. CASE n <= attempt[h]
        <3>1. /\ attempts[key[h]][n] = "FAILED" /\ n \notin output[key[h]]
              /\ tried[key[h]][n] \in excluded[h]
            BY <1>1, <2>2, <2>3, <2>5 DEF AttemptAt
        <3>2. n < attempt'[h] /\ ~(n > attempt'[h]) /\ n # attempt'[h]
            BY <2>1, <2>2, <2>5
        <3> QED BY <1>1, <1>2, <1>4, <2>1, <3>1, <3>2, ZenonT(30) DEF AttemptAt, SameRows
    <2> QED BY <2>2, <2>4, <2>5
<1> QED BY <1>3, <1>4, Zenon DEF Select

\* A step of h on the rows of its own request only, which stay in order.
Recorded(h) ==
    /\ OwnRows(h)
    /\ \A j \in Key : SameRows(j) => SameCompletion(j)
    /\ \A j \in Key : ~SameRows(j) => RowsOfRequest(j)'
    /\ RowsOfHandler(h)'

\* No attempt comes before or after itself.
LEMMA AttemptItself == ASSUME NEW n \in AttemptNumber PROVE ~(n > n) /\ ~(n < n)
<1>1. n \in Nat
    BY GatewayAssumption DEF AttemptNumber
<1> QED BY <1>1

\* A handler whose call is being started, made or recorded: its request, its
\* attempt and what the invariant says of each row.
LEMMA AttemptView ==
    ASSUME TypeOK, LoopInv, AttemptInv, NEW h \in Handler,
           pc[h] \in {"start", "call", "complete", "fail"}
    PROVE  /\ Executing(h) /\ key[h] \in Key /\ attempt[h] \in AttemptNumber
           /\ status[key[h]] # Absent
           /\ RowsOfRequest(key[h])
           /\ \A n \in AttemptNumber : AttemptAt(h, n)
           /\ \A m, n \in AttemptNumber : m < n \/ m = n \/ m > n
           /\ \A m, n \in AttemptNumber : m < n => ~(m > n) /\ m # n /\ n > m /\ ~(n < m)
<1>1. Executing(h)
    BY Zenon DEF Executing, Ended
<1>2. key[h] \in Key /\ attempt[h] \in AttemptNumber
    BY <1>1, KeyOfExecuting, AttemptOfExecuting, Zenon
<1>3. \A n \in AttemptNumber : AttemptAt(h, n)
    BY <1>1, Zenon DEF AttemptInv, RowsOfHandler
<1>4. status[key[h]] # Absent
    BY <1>1, Zenon DEF LoopInv, LoopAt
<1>5. \A n \in AttemptNumber : n \in Nat
    BY GatewayAssumption DEF AttemptNumber
<1>6. /\ \A m, n \in AttemptNumber : m < n \/ m = n \/ m > n
      /\ \A m, n \in AttemptNumber : m < n => ~(m > n) /\ m # n /\ n > m /\ ~(n < m)
    BY <1>5
<1> QED BY <1>1, <1>2, <1>3, <1>4, <1>6, Zenon DEF AttemptInv

\* StartAttempt inserts the row of a provider that no earlier row names.
LEMMA StartRecorded ==
    ASSUME TypeOK, LoopInv, AttemptInv, NEW h \in Handler, StartAttempt(h)
    PROVE  Recorded(h)
<1>1. pc[h] = "start" /\ UNCHANGED <<status, key, attempt, excluded, output>>
    BY Zenon DEF StartAttempt
<1>2. PICK k \in Key, a \in AttemptNumber : k = key[h] /\ a = attempt[h]
    BY <1>1, AttemptView, Zenon
<1>3. /\ Executing(h) /\ RowsOfRequest(k) /\ status[k] # Absent
      /\ \A n \in AttemptNumber : AttemptAt(h, n)
      /\ \A m, n \in AttemptNumber : m < n \/ m = n \/ m > n
      /\ \A m, n \in AttemptNumber : m < n => ~(m > n) /\ m # n /\ n > m /\ ~(n < m)
    BY <1>1, <1>2, AttemptView, Zenon
<1>4. \A j \in Key : SameCompletion(j)
    BY <1>1, Zenon DEF SameCompletion
<1>5. /\ attempts[k][a] = "NONE" /\ a \notin output[k] /\ lease[h] \in excluded[h]
      /\ \A n \in AttemptNumber : n < a =>
           attempts[k][n] = "FAILED" /\ n \notin output[k] /\ tried[k][n] \in excluded[h] /\ tried[k][n] # lease[h]
      /\ \A n \in AttemptNumber : n > a => attempts[k][n] = "NONE" /\ n \notin output[k]
    BY <1>1, <1>2, <1>3, Zenon DEF AttemptAt
<1>6. CASE UNCHANGED <<attempts, tried>> /\ ReturnError(h)
    <2>1. \A j \in Key : SameRows(j)
        BY <1>1, <1>6, Zenon DEF SameRows
    <2>2. RowsOfHandler(h)'
        BY <1>6, ReturnLoop, Zenon DEF ReturnError, RowsOfHandler
    <2> QED BY <1>4, <2>1, <2>2, Zenon DEF Recorded, OwnRows
<1>7. CASE attempts' = Mark(k, a, "STARTED") /\ tried' = [tried EXCEPT ![k][a] = lease[h]]
    <2>1. /\ \A j \in Key : j # k => SameRows(j)
          /\ \A n \in AttemptNumber : attempts'[k][n] = IF n = a THEN "STARTED" ELSE attempts[k][n]
          /\ \A n \in AttemptNumber : tried'[k][n] = IF n = a THEN lease[h] ELSE tried[k][n]
          /\ output'[k] = output[k]
        <3>1. /\ tried \in [Key -> [AttemptNumber -> Provider \cup {None}]]
              /\ attempts \in [Key -> [AttemptNumber -> AttemptStatus]]
            BY Zenon DEF TypeOK
        <3> QED BY <1>1, <1>7, <3>1, Zenon DEF SameRows, Mark
    <2>2. OwnRows(h)
        BY <1>2, <1>3, <2>1, Zenon DEF OwnRows
    <2>3. RowsOfRequest(k)'
        <3>1. ASSUME NEW m \in AttemptNumber, NEW n \in AttemptNumber, m < n, attempts'[k][n] # "NONE"
              PROVE  attempts'[k][m] = "FAILED" /\ tried'[k][m] # tried'[k][n] /\ m \notin output'[k]
            <4>1. CASE n = a
                BY <1>3, <1>5, <2>1, <3>1, <4>1, ZenonT(30)
            <4>2. CASE n # a
                <5>1. n < a
                    BY <1>3, <1>5, <2>1, <3>1, <4>2, ZenonT(30)
                <5>2. m # a
                    BY <3>1, <5>1 DEF AttemptNumber
                <5>3. /\ attempts'[k][n] = attempts[k][n] /\ tried'[k][n] = tried[k][n]
                      /\ attempts'[k][m] = attempts[k][m] /\ tried'[k][m] = tried[k][m]
                    BY <2>1, <4>2, <5>2, Zenon
                <5> QED BY <1>3, <2>1, <3>1, <5>3 DEF RowsOfRequest
            <4> QED BY <4>1, <4>2, Zenon
        <3>2. \A n \in AttemptNumber : attempts'[k][n] = "SUCCEEDED" <=> attempts[k][n] = "SUCCEEDED"
            BY <1>5, <2>1, Zenon
        <3> QED BY <1>1, <1>3, <3>1, <3>2, Zenon DEF RowsOfRequest
    <2>4. RowsOfHandler(h)'
        <3>1. CASE ReturnError(h)
            BY <3>1, ReturnLoop, Zenon DEF ReturnError, RowsOfHandler
        <3>2. CASE Goto(h, "call") /\ UNCHANGED lease
            <4>1. pc'[h] = "call"
                BY <3>2, Zenon DEF Goto, TypeOK
            <4> SUFFICES ASSUME NEW n \in AttemptNumber PROVE AttemptAt(h, n)'
                BY Zenon DEF RowsOfHandler
            <4>2. CASE n = a
                <5>1. ~(n > attempt'[h]) /\ ~(n < attempt'[h])
                    BY <1>1, <1>2, <4>2, AttemptItself, Zenon
                <5>2. attempts'[k][n] = "STARTED" /\ tried'[k][n] \in excluded'[h] /\ n \notin output'[k]
                    BY <1>1, <1>5, <2>1, <4>2, Zenon
                <5> QED BY <1>1, <1>2, <4>1, <5>1, <5>2, Zenon DEF AttemptAt
            <4>3. CASE n # a
                <5>1. attempts'[k][n] = attempts[k][n] /\ tried'[k][n] = tried[k][n]
                    BY <2>1, <4>3, Zenon
                <5>2. AttemptAt(h, n) /\ key'[h] = k /\ attempt'[h] = a /\ lease'[h] = lease[h]
                      /\ excluded'[h] = excluded[h]
                    BY <1>1, <1>2, <1>3, <3>2, Zenon
                <5> QED BY <1>2, <2>1, <4>3, <5>1, <5>2, Zenon DEF AttemptAt
            <4> QED BY <4>2, <4>3, Zenon
        <3> QED BY <3>1, <3>2, Zenon DEF StartAttempt
    <2> QED BY <1>4, <2>1, <2>2, <2>3, <2>4, Zenon DEF Recorded
<1> QED BY <1>2, <1>6, <1>7, Zenon DEF StartAttempt

\* A provider call ends, after which the client may have seen some content of the
\* attempt: it is not retried then, and no later attempt exists.
LEMMA OutputRecorded ==
    ASSUME TypeOK, LoopInv, AttemptInv, NEW h \in Handler, pc[h] = "call",
           UNCHANGED <<status, attempts, tried, key, attempt, excluded>>,
           UNCHANGED output \/ Emits(h),
           lease'[h] \in {lease[h], None},
           pc'[h] \in {"complete", "fail", "done"},
           pc'[h] = "fail" /\ failure'[h].retryable => UNCHANGED output
    PROVE  Recorded(h)
<1>1. PICK k \in Key, a \in AttemptNumber : k = key[h] /\ a = attempt[h]
    BY AttemptView, Zenon
<1>2. /\ Executing(h) /\ RowsOfRequest(k) /\ status[k] # Absent
      /\ \A n \in AttemptNumber : AttemptAt(h, n)
      /\ \A m, n \in AttemptNumber : m < n => ~(m > n) /\ m # n /\ n > m /\ ~(n < m)
    BY <1>1, AttemptView, Zenon
<1>3. \A j \in Key : SameCompletion(j)
    BY Zenon DEF SameCompletion
<1>4. /\ attempts[k][a] = "STARTED" /\ a \notin output[k] /\ tried[k][a] \in excluded[h]
      /\ \A n \in AttemptNumber : n > a => attempts[k][n] = "NONE" /\ n \notin output[k]
    BY <1>1, <1>2, Zenon DEF AttemptAt
<1>5. /\ \A j \in Key : j # k => output'[j] = output[j]
      /\ output'[k] = output[k] \/ output'[k] = output[k] \cup {a}
    <2>1. output \in [Key -> SUBSET AttemptNumber]
        BY Zenon DEF TypeOK
    <2> QED BY <1>1, <2>1, Zenon DEF Emits
<1>6. OwnRows(h)
    BY <1>1, <1>2, <1>5, Zenon DEF OwnRows, SameRows
<1>7. RowsOfRequest(k)'
    <2>1. ASSUME NEW m \in AttemptNumber, NEW n \in AttemptNumber, m < n, attempts[k][n] # "NONE"
          PROVE  m \notin output'[k]
        BY <1>2, <1>4, <1>5, <2>1 DEF RowsOfRequest
    <2> QED BY <1>2, <2>1, ZenonT(30) DEF RowsOfRequest
<1>8. RowsOfHandler(h)'
    <2> SUFFICES ASSUME Executing(h)', NEW n \in AttemptNumber PROVE AttemptAt(h, n)'
        BY Zenon DEF RowsOfHandler
    <2>1. pc'[h] \in {"complete", "fail"}
        BY Zenon DEF Executing, Ended
    <2>2. CASE n = a
        <3>1. ~(n > a) /\ ~(n < a)
            BY <2>2, AttemptItself, Zenon
        <3>2. pc'[h] = "fail" /\ failure'[h].retryable => n \notin output'[k]
            BY <1>4, <2>2, Zenon
        <3> QED BY <1>1, <1>4, <2>1, <2>2, <3>1, <3>2, Zenon DEF AttemptAt
    <2>3. CASE n # a
        <3>1. n \in output'[k] <=> n \in output[k]
            BY <1>5, <2>3, Zenon
        <3>2. n < a => tried[k][n] # lease'[h]
            <4>1. n < a => tried[k][n] # lease[h] /\ tried[k][n] \in excluded[h]
                BY <1>1, <1>2, Zenon DEF AttemptAt
            <4>2. excluded[h] \subseteq Provider /\ None \notin Provider
                BY GatewayAssumption, Zenon DEF TypeOK
            <4> QED BY <4>1, <4>2, Zenon
        <3>3. AttemptAt(h, n)
            BY <1>2, Zenon
        <3> QED BY <1>1, <2>1, <2>3, <3>1, <3>2, <3>3, Zenon DEF AttemptAt
    <2> QED BY <2>2, <2>3, Zenon
<1> QED BY <1>3, <1>5, <1>6, <1>7, <1>8, Zenon DEF Recorded, SameRows

\* The answer of a provider is that of a recorded attempt.
LEMMA CallRecorded ==
    ASSUME TypeOK, LoopInv, AttemptInv, NEW h \in Handler,
           CallAnswers(h) \/ (\E result : CallFails(h, result))
    PROVE  Recorded(h)
<1>1. /\ pc[h] = "call" /\ UNCHANGED <<status, attempts, tried, key, attempt, excluded>>
      /\ UNCHANGED output \/ Emits(h)
    BY Zenon DEF CallAnswers, CallFails, storeVars
<1>2. lease'[h] \in {lease[h], None}
    <2>1. UNCHANGED lease \/ ReleaseLease(h)
        BY Zenon DEF CallAnswers, CallFails
    <2> QED BY <2>1, Zenon DEF ReleaseLease, TypeOK
<1>3. CASE CallAnswers(h)
    <2>1. pc'[h] \in {"complete", "done"}
        BY <1>3, Zenon DEF CallAnswers, Goto, Return, TypeOK
    <2> QED BY <1>1, <1>2, <2>1, OutputRecorded, Zenon
<1>4. ASSUME NEW result, CallFails(h, result) PROVE Recorded(h)
    <2>1. pc'[h] = "fail"
        BY <1>4, Zenon DEF CallFails, Goto, TypeOK
    <2>2. failure'[h].retryable => UNCHANGED output
        <3>1. PICK retryable \in IsRetryable(result, payload[h] \in Streamed),
                   partial \in (IF payload[h] \in Streamed THEN BOOLEAN ELSE {FALSE}) :
                /\ failure' = [failure EXCEPT ![h] = [cause |-> CauseOf(result),
                                 retryable |-> Retry(retryable, partial, attempt[h])]]
                /\ IF partial THEN Emits(h) ELSE UNCHANGED output
            BY <1>4, Zenon DEF CallFails
        <3>2. failure'[h].retryable = Retry(retryable, partial, attempt[h])
            BY <3>1, Zenon DEF TypeOK
        <3> QED BY <3>1, <3>2, Zenon DEF Retry
    <2> QED BY <1>1, <1>2, <2>1, <2>2, OutputRecorded, Zenon
<1> QED BY <1>3, <1>4, Zenon

\* The outcome of an attempt is recorded, with the request's completion exactly
\* when the attempt succeeded.
LEMMA MarkRecorded ==
    ASSUME TypeOK, LoopInv, AttemptInv, NoDeletion, NEW h \in Handler, pc[h] \in {"complete", "fail"},
           NEW s \in {"SUCCEEDED", "FAILED"},
           attempts' = Mark(key[h], attempt[h], s),
           UNCHANGED <<tried, output, key, attempt, excluded>>,
           lease'[h] \in {lease[h], None},
           \A j \in Key : j # key[h] => SameCompletion(j),
           s = "SUCCEEDED" => status[key[h]] # Completed /\ status'[key[h]] = Completed,
           s = "FAILED" => SameCompletion(key[h]),
           pc'[h] \in {"reconcile", "backoff", "done"},
           pc'[h] = "backoff" => pc[h] = "fail" /\ s = "FAILED" /\ failure[h].retryable
    PROVE  Recorded(h)
<1>1. PICK k \in Key, a \in AttemptNumber : k = key[h] /\ a = attempt[h]
    BY AttemptView, Zenon
<1>2. /\ Executing(h) /\ RowsOfRequest(k) /\ status'[k] # Absent
      /\ \A n \in AttemptNumber : AttemptAt(h, n)
      /\ \A m, n \in AttemptNumber : m < n => ~(m > n) /\ m # n /\ n > m /\ ~(n < m)
    BY <1>1, AttemptView, Zenon DEF NoDeletion
<1>3. /\ attempts[k][a] = "STARTED" /\ tried[k][a] \in excluded[h]
      /\ pc'[h] = "backoff" => a \notin output[k]
      /\ \A n \in AttemptNumber : n > a => attempts[k][n] = "NONE"
    BY <1>1, <1>2, ZenonT(30) DEF AttemptAt
<1>4. \A j \in Key, n \in AttemptNumber :
        attempts'[j][n] = IF j = k /\ n = a THEN s ELSE attempts[j][n]
    BY <1>1, MarkRow
<1>5. /\ \A j \in Key : j # k => SameRows(j)
      /\ ~SameRows(k)
    <2>1. \A j \in Key : j # k => attempts'[j] = attempts[j]
        BY <1>1, Zenon DEF Mark, TypeOK
    <2>2. attempts'[k] # attempts[k]
        BY <1>3, <1>4, Zenon
    <2> QED BY <2>1, <2>2, Zenon DEF SameRows
<1>6. RowsOfRequest(k)'
    <2>1. ASSUME NEW m \in AttemptNumber, NEW n \in AttemptNumber, m < n, attempts'[k][n] # "NONE"
          PROVE  attempts'[k][m] = "FAILED" /\ tried'[k][m] # tried'[k][n] /\ m \notin output'[k]
        <3>1. attempts[k][n] # "NONE"
            BY <1>3, <1>4, <2>1, Zenon
        <3>2. attempts[k][m] = "FAILED" /\ tried[k][m] # tried[k][n] /\ m \notin output[k]
            BY <1>2, <2>1, <3>1, Zenon DEF RowsOfRequest
        <3>3. attempts'[k][m] = attempts[k][m]
            BY <1>3, <1>4, <3>2, Zenon
        <3> QED BY <3>2, <3>3, Zenon
    <2>2. CASE s = "SUCCEEDED"
        <3>1. \A n \in AttemptNumber : attempts[k][n] # "SUCCEEDED"
            BY <1>1, <1>2, <2>2, Zenon DEF RowsOfRequest
        <3>2. \A n \in AttemptNumber : attempts'[k][n] = "SUCCEEDED" <=> n = a
            BY <1>4, <2>2, <3>1, Zenon
        <3>3. status'[k] = Completed /\ attempts'[k][a] = "SUCCEEDED"
            BY <1>1, <2>2, <3>2, Zenon
        <3>4. \A m, n \in AttemptNumber :
                attempts'[k][m] = "SUCCEEDED" /\ attempts'[k][n] = "SUCCEEDED" => m = n
            BY <3>2, Zenon
        <3> QED BY <1>2, <2>1, <3>3, <3>4, Zenon DEF RowsOfRequest
    <2>3. CASE s = "FAILED"
        <3>1. \A n \in AttemptNumber : attempts'[k][n] = "SUCCEEDED" <=> attempts[k][n] = "SUCCEEDED"
            BY <1>3, <1>4, <2>3, Zenon
        <3>2. SameCompletion(k)
            BY <1>1, <2>3, Zenon
        <3>3. (\E n \in AttemptNumber : attempts'[k][n] = "SUCCEEDED") <=>
                (\E n \in AttemptNumber : attempts[k][n] = "SUCCEEDED")
            BY <3>1, ZenonT(30)
        <3>4. \A m, n \in AttemptNumber :
                attempts'[k][m] = "SUCCEEDED" /\ attempts'[k][n] = "SUCCEEDED" => m = n
            BY <1>2, <3>1 DEF RowsOfRequest
        <3>5. status'[k] = Completed <=> \E n \in AttemptNumber : attempts'[k][n] = "SUCCEEDED"
            BY <1>2, <3>2, <3>3, Zenon DEF RowsOfRequest, SameCompletion
        <3> QED BY <1>2, <2>1, <3>4, <3>5, Zenon DEF RowsOfRequest
    <2> QED BY <2>2, <2>3, Zenon
<1>7. RowsOfHandler(h)'
    <2> SUFFICES ASSUME Executing(h)', NEW n \in AttemptNumber PROVE AttemptAt(h, n)'
        BY Zenon DEF RowsOfHandler
    <2>1. pc'[h] \in {"reconcile", "backoff"}
        BY Zenon DEF Executing, Ended
    <2>2. CASE n = a
        <3>1. ~(n > a) /\ ~(n < a)
            BY <2>2, AttemptItself, Zenon
        <3>2. attempts'[k][n] = s
            BY <1>4, <2>2, Zenon
        <3> QED BY <1>1, <1>3, <2>1, <2>2, <3>1, <3>2, ZenonT(30) DEF AttemptAt
    <2>3. CASE n # a
        <3>1. attempts'[k][n] = attempts[k][n]
            BY <1>4, <2>3, Zenon
        <3>2. n < a => tried[k][n] # lease'[h]
            <4>1. n < a => tried[k][n] # lease[h] /\ tried[k][n] \in excluded[h]
                BY <1>1, <1>2, Zenon DEF AttemptAt
            <4>2. excluded[h] \subseteq Provider /\ None \notin Provider
                BY GatewayAssumption, Zenon DEF TypeOK
            <4> QED BY <4>1, <4>2, Zenon
        <3>3. AttemptAt(h, n)
            BY <1>2, Zenon
        <3> QED BY <1>1, <2>1, <2>3, <3>1, <3>2, <3>3, Zenon DEF AttemptAt
    <2> QED BY <2>2, <2>3, Zenon
<1> QED BY <1>1, <1>2, <1>5, <1>6, <1>7, Zenon DEF Recorded, OwnRows

\* A settling step that records nothing: the transaction was rolled back, or
\* there was no attempt to fail.
LEMMA NothingRecorded ==
    ASSUME TypeOK, LoopInv, AttemptInv, NEW h \in Handler, Executing(h),
           \A j \in Key : SameCompletion(j),
           UNCHANGED <<attempts, tried, output, key, attempt, excluded, lease>> \/ pc'[h] = "done",
           UNCHANGED <<attempts, tried, output>>,
           pc'[h] \in {"reconcile", "done"}
    PROVE  Recorded(h)
<1>1. \A j \in Key : SameRows(j)
    BY Zenon DEF SameRows
<1>2. RowsOfHandler(h)'
    <2>1. CASE pc'[h] = "done"
        BY <2>1, Zenon DEF RowsOfHandler, Executing, Ended
    <2>2. CASE pc'[h] = "reconcile"
        <3>1. key[h] \in Key /\ RowsOfHandler(h)
            BY KeyOfExecuting, Zenon DEF AttemptInv
        <3> QED BY <1>1, <2>2, <3>1, HandlerGoto, Zenon
    <2> QED BY <2>1, <2>2, Zenon
<1> QED BY <1>1, <1>2, Zenon DEF Recorded, OwnRows

\* CompleteRequest commits the attempt's success and the request's completion
\* together, or neither.
LEMMA CompleteRecorded ==
    ASSUME TypeOK, LoopInv, AttemptInv, NoDeletion, NEW h \in Handler, CompleteRequest(h)
    PROVE  Recorded(h)
<1>1. pc[h] = "complete" /\ UNCHANGED <<tried, output, key, attempt, excluded>> /\ ReleaseLease(h)
    BY Zenon DEF CompleteRequest
<1>2. Executing(h) /\ key[h] \in Key /\ attempt[h] \in AttemptNumber
    BY <1>1, AttemptView, Zenon
<1>3. attempts[key[h]][attempt[h]] = "STARTED"
    <2>1. AttemptAt(h, attempt[h])
        BY <1>1, <1>2, AttemptView, Zenon
    <2> QED BY <1>1, <2>1, Zenon DEF AttemptAt
<1>4. lease'[h] = None
    BY <1>1, Zenon DEF ReleaseLease, TypeOK
<1>5. PICK r \in Reply :
        /\ CompletionTx(key[h], attempt[h], r)
        /\ IF Confirms(key[h], InProgress, r) THEN pc' = [pc EXCEPT ![h] = "reconcile"] ELSE ReturnError(h)
    BY Zenon DEF CompleteRequest
<1>6. pc'[h] = IF Confirms(key[h], InProgress, r) THEN "reconcile" ELSE "done"
    <2>1. pc' = [pc EXCEPT ![h] = IF Confirms(key[h], InProgress, r) THEN "reconcile" ELSE "done"]
        BY <1>5, Zenon DEF ReturnError, Return
    <2> QED BY <2>1, Zenon DEF TypeOK
<1>7. CASE Commits(key[h], InProgress, r)
    <2>1. /\ attempts' = Mark(key[h], attempt[h], "SUCCEEDED")
          /\ status[key[h]] = InProgress /\ status' = [status EXCEPT ![key[h]] = Completed]
        BY <1>3, <1>5, <1>7, Zenon DEF CompletionTx, Commits, Matches
    <2>2. /\ status[key[h]] # Completed /\ status'[key[h]] = Completed
          /\ \A j \in Key : j # key[h] => SameCompletion(j)
        BY <1>2, <2>1, Zenon DEF TypeOK, SameCompletion, InProgress, Completed
    <2> QED BY <1>1, <1>4, <1>6, <2>1, <2>2, MarkRecorded, Zenon
<1>8. CASE ~Commits(key[h], InProgress, r)
    <2>1. UNCHANGED <<status, attempts>>
        BY <1>5, <1>8, Zenon DEF CompletionTx
    <2>2. pc'[h] = "done"
        BY <1>6, <1>8, Zenon DEF Confirms, Commits
    <2>3. \A j \in Key : SameCompletion(j)
        BY <2>1, Zenon DEF SameCompletion
    <2> QED BY <1>1, <1>2, <2>1, <2>2, <2>3, NothingRecorded, Zenon
<1> QED BY <1>7, <1>8, Zenon

\* FailAttempt without an attempt touches none.
LEMMA NoAttemptFailed ==
    ASSUME NEW k, NEW r, FailAttemptTx(k, 0, TRUE, r)
    PROVE  UNCHANGED attempts
<1>1. ASSUME NEW n, ~(n > 0), FailAttemptTx(k, n, TRUE, r) PROVE UNCHANGED attempts
    BY <1>1, Zenon DEF FailAttemptTx
<1>2. ~(0 > 0)
    OBVIOUS
<1> QED BY <1>1, <1>2, Zenon

\* FailAttempt records the failure of a retried attempt alone, and that of the
\* last one with the failure of the request.
LEMMA FailRecorded ==
    ASSUME TypeOK, LoopInv, AttemptInv, NoDeletion, NEW h \in Handler, FailAttempt(h) \/ Finish(h)
    PROVE  Recorded(h)
<1>1. /\ pc[h] \in {"fail", "finish"} /\ Executing(h)
      /\ UNCHANGED <<tried, output, key, attempt, excluded, lease>>
    BY Zenon DEF FailAttempt, Finish, Executing, Ended
<1>2. key[h] \in Key
    BY <1>1, KeyOfExecuting, Zenon
<1>3. ASSUME NEW n, NEW final, NEW r, FailAttemptTx(key[h], n, final, r) PROVE \A j \in Key : SameCompletion(j)
    <2>1. UNCHANGED status \/ (status[key[h]] = InProgress /\ status' = [status EXCEPT ![key[h]] = Failed])
        BY <1>3, Zenon DEF FailAttemptTx, Commits, Matches
    <2> QED BY <2>1, Zenon DEF SameCompletion, TypeOK, InProgress, Failed, Completed
<1>4. CASE Finish(h)
    <2>1. PICK r \in Reply : FailAttemptTx(key[h], 0, TRUE, r)
        BY <1>4, Zenon DEF Finish
    <2>2. UNCHANGED attempts
        BY <2>1, NoAttemptFailed, Zenon
    <2>3. pc'[h] = "reconcile"
        BY <1>4, Zenon DEF Finish, Goto, TypeOK
    <2>4. \A j \in Key : SameCompletion(j)
        BY <1>3, <2>1, Zenon
    <2> QED BY <1>1, <2>2, <2>3, <2>4, NothingRecorded, Zenon
<1>5. CASE FailAttempt(h)
    <2>0. pc[h] = "fail"
        BY <1>5, Zenon DEF FailAttempt
    <2>1. attempt[h] \in AttemptNumber /\ AttemptAt(h, attempt[h])
        BY <2>0, AttemptView, Zenon
    <2>2. attempts[key[h]][attempt[h]] = "STARTED" /\ attempt[h] > 0
        <3>1. attempt[h] > 0
            BY <2>1 DEF AttemptNumber
        <3> QED BY <2>0, <2>1, <3>1, Zenon DEF AttemptAt
    <2>3. PICK final \in BOOLEAN, r \in Reply :
            /\ final = ~failure[h].retryable
            /\ FailAttemptTx(key[h], attempt[h], final, r)
            /\ IF (IF final THEN Confirms(key[h], InProgress, r) ELSE r = "ok")
                 THEN pc' = [pc EXCEPT ![h] = IF final THEN "reconcile" ELSE "backoff"]
                 ELSE ReturnError(h)
        BY <1>5, Zenon DEF FailAttempt, Goto
    <2>4. \A j \in Key : SameCompletion(j)
        BY <1>3, <2>3, Zenon
    <2>5. CASE IF final THEN Commits(key[h], InProgress, r) ELSE r # "error"
        <3>1. attempts' = Mark(key[h], attempt[h], "FAILED")
            BY <2>2, <2>3, <2>5, Zenon DEF FailAttemptTx
        <3>2. pc'[h] \in {"reconcile", "backoff", "done"} /\ (pc'[h] = "backoff" => failure[h].retryable)
            BY <2>3, ZenonT(30) DEF ReturnError, Return, TypeOK
        <3> QED BY <1>1, <1>2, <2>0, <2>4, <3>1, <3>2, MarkRecorded, Zenon
    <2>6. CASE ~(IF final THEN Commits(key[h], InProgress, r) ELSE r # "error")
        <3>1. UNCHANGED attempts
            BY <2>3, <2>6, Zenon DEF FailAttemptTx
        <3>2. ReturnError(h)
            BY <2>3, <2>6, Zenon DEF Confirms, Commits
        <3>3. pc'[h] = "done"
            BY <3>2, Zenon DEF ReturnError, Return, TypeOK
        <3> QED BY <1>1, <2>4, <3>1, <3>3, NothingRecorded, Zenon
    <2> QED BY <2>5, <2>6, Zenon
<1> QED BY <1>4, <1>5, Zenon

\* The invariant of the attempts holds at first.
LEMMA AttemptInit == Init => AttemptInv
<1> SUFFICES ASSUME Init PROVE AttemptInv
    OBVIOUS
<1>1. \A k \in Key : status[k] = Absent /\ output[k] = {}
                     /\ \A n \in AttemptNumber : attempts[k][n] = "NONE"
    BY Zenon DEF Init
<1>2. \A h \in Handler : ~Executing(h)
    BY Zenon DEF Init, Executing, Ended
<1>3. Absent # Completed
    BY Zenon DEF Absent, Completed
<1> QED BY <1>1, <1>2, <1>3, Zenon DEF AttemptInv, RowsOfRequest, RowsOfHandler

\* Every step keeps the invariant of the attempts.
LEMMA AttemptStep ==
    ASSUME TypeOK, LoopInv, SingleExecutor, AttemptInv, [Next]_vars
    PROVE  AttemptInv'
<1>0. NoDeletion
    BY RowSteps, RowsStay, Zenon
<1>1. ASSUME NEW h \in Handler, Arrive(h) \/ Step(h) \/ Disconnect(h) \/ Crash(h) PROVE AttemptInv'
    <2>1. Others(h) /\ OthersLeases(h)
        BY <1>1, OthersStay, LeasesStay, Zenon
    <2>2. ASSUME Quiet, RowsOfHandler(h)' PROVE Recorded(h)
        BY <2>2, Zenon DEF Quiet, Recorded, OwnRows
    <2>3. Recorded(h)
        <3>1. CASE Arrive(h)
            BY <2>2, <3>1, QuietSteps, ArriveHandler, Zenon
        <3>2. CASE \/ Disconnect(h) \/ Crash(h) \/ Validate(h) \/ LoadPolicy(h) \/ Admit(h) \/ Price(h)
                   \/ FailValidated(h) \/ ReserveBudget(h) \/ RejectBudget(h) \/ StartRouting(h)
                   \/ StartProgress(h) \/ Backoff(h) \/ ReconcileBudget(h)
            <4>1. Quiet
                BY <3>2, QuietSteps, Zenon
            <4> QED BY <2>2, <3>2, <4>1, QuietHandler, Zenon
        <3>3. CASE Select(h)
            BY <2>2, <3>3, QuietSteps, SelectHandler, Zenon
        <3>4. CASE StartAttempt(h)
            BY <3>4, StartRecorded, Zenon
        <3>5. CASE CallAnswers(h) \/ (\E result : CallFails(h, result))
            BY <3>5, CallRecorded, Zenon
        <3>6. CASE CompleteRequest(h) \/ FailAttempt(h) \/ Finish(h)
            BY <1>0, <3>6, CompleteRecorded, FailRecorded, Zenon
        <3> QED BY <1>1, <3>1, <3>2, <3>3, <3>4, <3>5, <3>6, Zenon DEF Step
    <2> QED BY <1>0, <2>1, <2>3, AttemptFrame, Zenon DEF Recorded
<1>2. ASSUME UNCHANGED handlerVars, UNCHANGED <<attempts, tried, output>>, \A j \in Key : SameCompletion(j)
      PROVE  AttemptInv'
    <2>1. \A j \in Key : SameRows(j)
        BY <1>2, Zenon DEF SameRows
    <2>2. \A j \in Key : RowsOfRequest(j)'
        BY <1>0, <1>2, <2>1, RequestFrame, Zenon DEF AttemptInv
    <2>3. ASSUME NEW g \in Handler PROVE RowsOfHandler(g)'
        <3>1. Executing(g) => key[g] \in Key /\ SameRows(key[g])
            BY <2>1, KeyOfExecuting, Zenon
        <3> QED BY <1>2, <3>1, HandlerFrame, Zenon DEF handlerVars, AttemptInv
    <2> QED BY <2>2, <2>3, Zenon DEF AttemptInv
<1>3. ASSUME NEW k \in Key, CancelRequest(k) PROVE AttemptInv'
    <2>1. /\ UNCHANGED handlerVars /\ UNCHANGED <<attempts, tried, output>>
          /\ status[k] \in Cancels /\ status' = [status EXCEPT ![k] = Cancelled]
        BY <1>3, Zenon DEF CancelRequest
    <2>2. \A j \in Key : SameCompletion(j)
        BY <2>1, Zenon DEF SameCompletion, TypeOK, Cancels, Received, Validated, Routing, InProgress,
           Cancelled, Completed
    <2> QED BY <1>2, <2>1, <2>2, Zenon
<1>4. CASE UNCHANGED vars
    <2>1. UNCHANGED handlerVars /\ UNCHANGED <<attempts, tried, output, status>>
        BY <1>4, Zenon DEF vars, storeVars
    <2> QED BY <1>2, <2>1, Zenon DEF SameCompletion
<1> QED BY <1>1, <1>3, <1>4, Zenon DEF Next

-----------------------------------------------------------------------------
(* What a handler holds and what it tells its client.                         *)

ReturnAt(h) ==
    /\ pc[h] \notin {"start", "call", "complete"} => lease[h] = None
    /\ pc[h] = "done" => ~permits[h]
    /\ pc[h] \notin {"reconcile", "done", "crashed"} => outcome[h].kind = "none"
    /\ outcome[h].kind \in {"completed", "replayed"} => key[h] \in Key /\ status[key[h]] = Completed

CompletedStays == \A k \in Key : status[k] = Completed => status'[k] = Completed

OthersOutcomes(h) == \A g \in Handler \ {h} : permits'[g] = permits[g] /\ outcome'[g] = outcome[g]

\* COMPLETED is final: no transition of request.go leaves it.
LEMMA CompletionIsFinal == TypeOK /\ RowStep => CompletedStays
<1> SUFFICES ASSUME TypeOK, RowStep, NEW k \in Key, status[k] = Completed PROVE status'[k] = Completed
    BY Zenon DEF CompletedStays
<1>1. ASSUME NEW j \in Key, NEW s \in State, Moves(j, s) PROVE status'[k] = Completed
    <2>1. j # k
        BY <1>1, Zenon DEF Moves, CanTransition, allowedTransitions, Received, Validated, Routing, InProgress, Completed
    <2> QED BY <1>1, <2>1, Zenon DEF Moves, TypeOK
<1>2. ASSUME NEW j \in Key, Accepts(j) PROVE status'[k] = Completed
    BY <1>2, Zenon DEF Accepts, TypeOK, Absent, Completed
<1> QED BY <1>1, <1>2, Zenon DEF RowStep, Keeps

\* Permits and outcomes belong to their handler.
LEMMA OutcomesStay ==
    ASSUME TypeOK, NEW h \in Handler, Arrive(h) \/ Step(h) \/ Disconnect(h) \/ Crash(h)
    PROVE  OthersOutcomes(h)
<1>1. CASE UNCHANGED <<permits, outcome>>
    BY <1>1, Zenon DEF OthersOutcomes
<1>2. ASSUME NEW x, UNCHANGED permits, outcome' = [outcome EXCEPT ![h] = x] PROVE OthersOutcomes(h)
    BY <1>2, Zenon DEF OthersOutcomes, TypeOK
<1>3. ASSUME NEW x, UNCHANGED outcome, permits' = [permits EXCEPT ![h] = x] PROVE OthersOutcomes(h)
    BY <1>3, Zenon DEF OthersOutcomes, TypeOK
<1>4. ASSUME NEW kind, NEW state, Return(h, kind, state) PROVE OthersOutcomes(h)
    BY <1>4, Zenon DEF OthersOutcomes, TypeOK, Return
<1>5. CASE Arrive(h) \/ Disconnect(h) \/ Crash(h)
    <2>1. UNCHANGED <<permits, outcome>> \/ (\E kind, state : Return(h, kind, state))
        BY <1>5, ZenonT(30) DEF Arrive, Disconnect, Crash, Refuse, CreateRequest, ReplayRequest,
           ReturnError, Goto
    <2> QED BY <1>1, <1>4, <2>1, Zenon
<1>6. CASE Admit(h) \/ CompleteRequest(h)
    BY <1>1, <1>2, <1>3, <1>4, <1>6, Zenon DEF Admit, CompleteRequest, ReturnError, Goto
<1>7. CASE Step(h) /\ ~Admit(h) /\ ~CompleteRequest(h)
    <2>1. (\E label : Goto(h, label)) \/ (\E kind, state : Return(h, kind, state))
        BY <1>7, Zenon DEF Step, Validate, LoadPolicy, Price, FailValidated, ReserveBudget,
           RejectBudget, StartRouting, StartProgress, Advance, Select, StartAttempt, CallAnswers,
           CallFails, FailAttempt, Backoff, Finish, ReconcileBudget, ReturnError
    <2> QED BY <1>1, <1>4, <2>1, Zenon DEF Goto
<1> QED BY <1>5, <1>6, <1>7, Zenon

\* A handler that returns without a success, its lease given back.
LEMMA ReturnKeeps ==
    ASSUME TypeOK, NEW h \in Handler, NEW kind \in {"error", "unpriced", "conflict", "pending"}, NEW state,
           Return(h, kind, state), lease'[h] = None
    PROVE  ReturnAt(h)'
<1>1. pc'[h] = "done" /\ permits'[h] = FALSE /\ outcome'[h] = [kind |-> kind, state |-> state]
    BY Zenon DEF Return, TypeOK
<1>2. outcome'[h].kind = kind
    BY <1>1
<1> QED BY <1>1, <1>2, Zenon DEF ReturnAt

\* A handler that goes on has nothing to report, and holds a lease only at the
\* labels around the call.
LEMMA GotoKeeps ==
    ASSUME TypeOK, NEW h \in Handler, NEW label \in Label, Goto(h, label), ReturnAt(h),
           pc[h] \notin {"reconcile", "done", "crashed"}, label # "done",
           label \notin {"start", "call", "complete"} => lease'[h] = None
    PROVE  ReturnAt(h)'
<1>1. pc'[h] = label /\ outcome'[h] = outcome[h]
    BY Zenon DEF Goto, TypeOK
<1>2. outcome[h].kind = "none"
    BY Zenon DEF ReturnAt
<1> QED BY <1>1, <1>2, Zenon DEF ReturnAt

\* Each step of a handler keeps what it holds and what it reports.
LEMMA ReturnStep ==
    ASSUME TypeOK, LoopInv, ReturnInv, CompletedStays, NEW h \in Handler,
           Arrive(h) \/ Step(h) \/ Disconnect(h) \/ Crash(h)
    PROVE  ReturnAt(h)'
<1>0. ReturnAt(h)
    BY Zenon DEF ReturnInv, ReturnAt
<1>1. CASE Refuse(h)
    <2>1. pc[h] = "idle" /\ Return(h, "error", None) /\ UNCHANGED lease
        BY <1>1, Zenon DEF Refuse, ReturnError
    <2> QED BY <1>0, <2>1, ReturnKeeps, Zenon DEF ReturnAt
<1>2. ASSUME NEW k \in Key, NEW p \in Payload, CreateRequest(h, k, p) PROVE ReturnAt(h)'
    <2>1. pc[h] = "idle" /\ UNCHANGED lease /\ (Goto(h, "received") \/ Return(h, "error", None))
        BY <1>2, Zenon DEF CreateRequest, ReturnError
    <2>2. lease'[h] = None
        BY <1>0, <2>1, Zenon DEF ReturnAt
    <2> QED BY <1>0, <2>1, <2>2, ReturnKeeps, GotoKeeps, Zenon DEF Label
<1>3. ASSUME NEW k \in Key, NEW p \in Payload, ReplayRequest(h, k, p) PROVE ReturnAt(h)'
    <2>1. /\ pc[h] = "idle" /\ UNCHANGED <<lease, status>> /\ key' = [key EXCEPT ![h] = k]
          /\ \/ \E kind \in {"error", "conflict", "pending"}, state \in State \cup {None, Absent} :
                  Return(h, kind, state)
             \/ status[k] = Completed /\ Return(h, "replayed", Completed)
        <3>1. status[k] \in State \cup {Absent}
            BY DEF TypeOK
        <3> QED BY <1>3, <3>1, Zenon DEF ReplayRequest, ReturnError, storeVars
    <2>2. lease'[h] = None
        BY <1>0, <2>1, Zenon DEF ReturnAt
    <2>3. CASE status[k] = Completed /\ Return(h, "replayed", Completed)
        <3>1. /\ pc'[h] = "done" /\ permits'[h] = FALSE /\ key'[h] = k
            BY <2>1, <2>3, Zenon DEF Return, TypeOK
        <3>2. status'[k] = Completed
            BY <2>1, <2>3, Zenon
        <3> QED BY <2>2, <3>1, <3>2, Zenon DEF ReturnAt
    <2> QED BY <2>1, <2>2, <2>3, ReturnKeeps, Zenon
<1>4. CASE Validate(h) \/ StartRouting(h) \/ StartProgress(h) \/ LoadPolicy(h) \/ Price(h) \/ ReserveBudget(h)
           \/ FailValidated(h) \/ RejectBudget(h) \/ Backoff(h) \/ Finish(h) \/ FailAttempt(h)
    <2>1. /\ UNCHANGED lease
          /\ pc[h] \notin {"start", "call", "complete", "reconcile", "done", "crashed"}
        BY <1>4, Zenon DEF Validate, StartRouting, StartProgress, Advance, LoadPolicy, Price, ReserveBudget,
           FailValidated, RejectBudget, Backoff, Finish, FailAttempt
    <2>2. \/ Return(h, "error", None)
          \/ \E label \in {"policy", "progress", "select", "admit", "refuse", "reserve", "route", "reject",
                           "finish", "reconcile", "backoff"} : Goto(h, label)
        BY <1>4, Zenon DEF Validate, StartRouting, StartProgress, Advance, LoadPolicy, Price, ReserveBudget,
           FailValidated, RejectBudget, Backoff, Finish, FailAttempt, ReturnError
    <2>3. lease'[h] = None
        BY <1>0, <2>1, Zenon DEF ReturnAt
    <2> QED BY <1>0, <2>1, <2>2, <2>3, ReturnKeeps, GotoKeeps, Zenon DEF Label
<1>5. CASE Admit(h)
    <2>1. pc[h] = "admit" /\ UNCHANGED <<lease, outcome>>
        BY <1>5, Zenon DEF Admit, Goto
    <2>2. pc'[h] \in {"price", "refuse"}
        BY <1>5, Zenon DEF Admit, Goto, TypeOK
    <2> QED BY <1>0, <2>1, <2>2, Zenon DEF ReturnAt
<1>6. CASE Select(h)
    <2>1. pc[h] = "select" /\ (Goto(h, "start") \/ (Goto(h, "finish") /\ UNCHANGED lease))
        BY <1>6, Zenon DEF Select
    <2> QED BY <1>0, <2>1, GotoKeeps, Zenon DEF Label, ReturnAt
<1>7. CASE StartAttempt(h) \/ CallAnswers(h)
    <2>1. /\ pc[h] \in {"start", "call"}
          /\ \/ \E label \in {"call", "complete"} : Goto(h, label)
             \/ ReleaseLease(h) /\ \E kind \in {"error", "unpriced"} : Return(h, kind, None)
        BY <1>7, Zenon DEF StartAttempt, CallAnswers, ReturnError
    <2>2. ReleaseLease(h) => lease'[h] = None
        BY Zenon DEF ReleaseLease, TypeOK
    <2> QED BY <1>0, <2>1, <2>2, ReturnKeeps, GotoKeeps, Zenon DEF Label
<1>8. ASSUME NEW result, CallFails(h, result) PROVE ReturnAt(h)'
    <2>1. pc[h] = "call" /\ ReleaseLease(h) /\ Goto(h, "fail")
        BY <1>8, Zenon DEF CallFails
    <2>2. lease'[h] = None
        BY <2>1, Zenon DEF ReleaseLease, TypeOK
    <2> QED BY <1>0, <2>1, <2>2, GotoKeeps, Zenon DEF Label
<1>9. CASE CompleteRequest(h)
    <2>1. pc[h] = "complete" /\ ReleaseLease(h) /\ UNCHANGED key
        BY <1>9, Zenon DEF CompleteRequest
    <2>2. lease'[h] = None
        BY <2>1, Zenon DEF ReleaseLease, TypeOK
    <2>3. key[h] \in Key
        BY <2>1, KeyOfExecuting, Zenon DEF Executing, Ended
    <2>4. PICK r \in Reply :
            /\ CompletionTx(key[h], attempt[h], r)
            /\ IF Confirms(key[h], InProgress, r)
                 THEN /\ pc' = [pc EXCEPT ![h] = "reconcile"]
                      /\ outcome' = [outcome EXCEPT ![h] = [kind |-> "completed", state |-> Completed]]
                 ELSE Return(h, "error", None)
        BY <1>9, Zenon DEF CompleteRequest, ReturnError
    <2>5. CASE Confirms(key[h], InProgress, r)
        <3>1. status'[key[h]] = Completed
            BY <2>3, <2>4, <2>5, ZenonT(30) DEF CompletionTx, Confirms, Commits, TypeOK
        <3>2. pc'[h] = "reconcile"
            BY <2>4, <2>5, Zenon DEF TypeOK
        <3> QED BY <2>1, <2>2, <2>3, <3>1, <3>2, Zenon DEF ReturnAt
    <2> QED BY <2>2, <2>4, <2>5, ReturnKeeps, Zenon
<1>10. CASE ReconcileBudget(h)
    <2>1. /\ pc[h] = "reconcile" /\ UNCHANGED <<status, key, lease>>
          /\ IF outcome[h].kind = "completed" THEN Return(h, "completed", Completed) ELSE Return(h, "error", None)
        BY <1>10, Zenon DEF ReconcileBudget, ReturnError
    <2>2. lease'[h] = None
        BY <1>0, <2>1, Zenon DEF ReturnAt
    <2>3. CASE outcome[h].kind = "completed"
        <3>1. pc'[h] = "done" /\ permits'[h] = FALSE
            BY <2>1, <2>3, Zenon DEF Return, TypeOK
        <3> QED BY <1>0, <2>1, <2>2, <2>3, <3>1, Zenon DEF ReturnAt
    <2> QED BY <2>1, <2>2, <2>3, ReturnKeeps, Zenon
<1>11. CASE Disconnect(h)
    BY <1>0, <1>11, Zenon DEF Disconnect, ReturnAt, storeVars
<1>12. CASE Crash(h)
    <2>1. pc'[h] = "crashed" /\ lease'[h] = None /\ UNCHANGED <<status, key, outcome>>
        BY <1>12, Zenon DEF Crash, ReleaseLease, TypeOK, storeVars
    <2> QED BY <1>0, <2>1, Zenon DEF ReturnAt
<1> QED
    BY <1>1, <1>2, <1>3, <1>4, <1>5, <1>6, <1>7, <1>8, <1>9, <1>10, <1>11, <1>12, Zenon DEF Arrive, Step

\* Every step keeps the invariant of what was returned.
LEMMA ReturnInvStep == TypeOK /\ LoopInv /\ ReturnInv /\ [Next]_vars => ReturnInv'
<1> SUFFICES ASSUME TypeOK, LoopInv, ReturnInv, [Next]_vars PROVE ReturnInv'
    OBVIOUS
<1>0. CompletedStays
    BY RowSteps, CompletionIsFinal, Zenon
<1>1. ASSUME NEW g \in Handler, pc'[g] = pc[g], key'[g] = key[g], lease'[g] = lease[g],
             permits'[g] = permits[g], outcome'[g] = outcome[g]
      PROVE  ReturnAt(g)'
    BY <1>0, <1>1, Zenon DEF ReturnInv, ReturnAt, CompletedStays
<1>2. ASSUME NEW h \in Handler, Arrive(h) \/ Step(h) \/ Disconnect(h) \/ Crash(h) PROVE ReturnInv'
    <2>1. Others(h) /\ OthersLeases(h) /\ OthersOutcomes(h)
        BY <1>2, OthersStay, LeasesStay, OutcomesStay, Zenon
    <2>2. ReturnAt(h)'
        BY <1>0, <1>2, ReturnStep, Zenon
    <2>3. ASSUME NEW g \in Handler, g # h PROVE ReturnAt(g)'
        BY <1>1, <2>1, <2>3, Zenon DEF Others, OthersLeases, OthersOutcomes
    <2> QED BY <2>2, <2>3, Zenon DEF ReturnInv, ReturnAt
<1>3. CASE UNCHANGED handlerVars
    BY <1>1, <1>3, Zenon DEF ReturnInv, ReturnAt, handlerVars
<1> QED BY <1>2, <1>3, Zenon DEF Next, CancelRequest, vars

\* The three invariants always hold.
LEMMA RowSafety == Spec => [](SafetyInv /\ AttemptInv /\ ReturnInv)
<1>1. Init => ReturnInv
    BY DEF Init, ReturnInv
<1>2. SafetyInv /\ AttemptInv /\ ReturnInv /\ [Next]_vars => AttemptInv' /\ ReturnInv'
    BY AttemptStep, ReturnInvStep, Zenon DEF SafetyInv
<1> QED BY <1>1, <1>2, InitSafety, SafetyStep, AttemptInit, PTL DEF Spec

\* The rows of every request agree with where its handler stands in execute,
\* for any number of attempts, handlers and faults.
THEOREM RowsAgree == Spec => []RowInv
<1>1. SafetyInv /\ AttemptInv => RowInv
    BY AttemptInvImplies, Zenon DEF SafetyInv
<1> QED BY <1>1, RowSafety, PTL

\* A request is COMPLETED exactly when one of its attempts SUCCEEDED, and no two
\* ever do: CompleteRequest commits both together or neither.
THEOREM SuccessIsUnique == Spec => []OneSuccessfulAttempt
<1>1. SafetyInv /\ AttemptInv => OneSuccessfulAttempt
    BY AttemptInvImplies, Zenon DEF SafetyInv
<1> QED BY <1>1, RowSafety, PTL

\* A later attempt starts only after the earlier one is recorded FAILED, at
\* another provider, and only if the client has seen no content of it.
THEOREM RetriesAreSafe == Spec => []AttemptsInOrder
<1>1. SafetyInv /\ AttemptInv => AttemptsInOrder
    BY AttemptInvImplies, Zenon DEF SafetyInv
<1> QED BY <1>1, RowSafety, PTL

\* A handler that returned, on whatever path, holds no lease and no permits.
THEOREM CapacityReturned == Spec => []NoCapacityLeak
<1>1. ReturnInv => NoCapacityLeak
    BY Zenon DEF ReturnInv, NoCapacityLeak
<1> QED BY <1>1, RowSafety, PTL

\* A success told to a client, first-hand or replayed, is never taken back.
THEOREM SuccessIsDurable == Spec => []ReportedSuccessIsDurable
<1>1. ReturnInv => ReportedSuccessIsDurable
    BY Zenon DEF ReturnInv, ReportedSuccessIsDurable
<1> QED BY <1>1, RowSafety, PTL
=============================================================================
