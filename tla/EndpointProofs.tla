--------------------------- MODULE EndpointProofs ---------------------------
(* What ChatEndpoint keeps, for any number of calls, keys, providers, attempts *)
(* and chunks: the in-memory store implements RequestLifecycle, and what the   *)
(* client is told agrees with the record of its request.                       *)
EXTENDS ChatEndpoint, TLAPS

------------------------------------------------------------------------------
(* Types *)

Body == UNION {{m[2] : m \in Sends[h]} : h \in Handler}
Chunks == Seq(Nat)
Category == {"", "provider", "cancelled", "deadline_exceeded", "provider_unavailable"}
Error == {"", "invalid", "conflict", "alreadyfinal", "exceeded", "forbidden", "ratelimited",
          "unavailable", "noprovider", "provider", "deadline", "cancelled", "unpriced"}
Usage == Usages \cup {NoUsage}
Costs == {0} \cup {CostMicroUSD(u.prompt, u.completion, InputPrice[p], OutputPrice[p]) :
                    u \in Usage, p \in Provider}

RowType == [state : State \cup {Absent}, hash : Body \cup {None}, response : Chunks \cup {None},
            category : Category, partial : BOOLEAN, cost : Costs]

Looping == {"select", "start", "call", "stream", "complete", "fail", "backoff", "finish"}
Pc == {"idle", "received", "admit", "refuse", "reserve", "reject", "route", "progress", "settle",
       "reconcile", "answered"} \cup Looping

HandlerType == [pc : Pc, key : Key \cup {None}, input : Body \cup {None}, attempt : Nat,
                excluded : SUBSET Provider, provider : Provider \cup {None}, content : Chunks,
                usage : Usage, error : Error, retryable : BOOLEAN, gone : BOOLEAN]

ReplyType == [code : Nat, error : Error, sse : BOOLEAN, body : Chunks \cup {None},
              end : {"open", "done", "json", "error", "problem"}]

TypeOK == /\ requests \in [Key -> RowType]
          /\ handler \in [Handler -> HandlerType]
          /\ reply \in [Handler -> ReplyType]
          /\ policy \in Policies

------------------------------------------------------------------------------
(* The invariant *)

\* Only a failed record has a category, only a completed one a cost.
RowInv(row) == /\ row.state # Failed => row.category = ""
               /\ row.state # Completed => row.cost = 0

Runs(h) == handler[h].pc \notin {"idle", "answered"}

\* Where the request of a running call is. The owner may cancel it before it is final.
Expected(pc) ==
    CASE pc = "received"                                              -> {Received, Cancelled}
      [] pc \in {"admit", "refuse", "reserve", "reject", "route"}     -> {Validated, Cancelled}
      [] pc = "progress"                                              -> {Routing, Cancelled}
      [] pc \in Looping                                               -> {InProgress, Cancelled}
      [] pc = "settle"                                                -> {Completed}
      [] pc = "reconcile"                                             -> {Failed, Cancelled}
      [] OTHER                                                        -> {}

\* What has been sent to the client of a running call: nothing before the stream, then
\* the content of this attempt, since an attempt that emitted some is the last one.
Sent(x, body, row) ==
    /\ x.pc = "stream" => x.input \in Streamed /\ body = x.content
    /\ x.pc \in {"complete", "settle"} => body = IF x.input \in Streamed THEN x.content ELSE <<>>
    /\ x.pc = "settle" => row.response = x.content
    /\ x.pc = "fail" /\ x.content = <<>> => body = <<>>
    /\ x.pc = "reconcile" /\ row.state = Failed /\ body # <<>> => row.partial
    /\ x.pc \in {"start", "call", "stream", "complete", "settle"} => x.attempt # 0 /\ x.provider # None
    /\ x.pc \in {"start", "call"} => x.content = <<>>
    /\ x.pc \notin {"stream", "complete", "settle", "fail", "reconcile"} => body = <<>>

RunInv(h) ==
    Runs(h) => /\ keyOf(h) \in Key
               /\ requests[keyOf(h)].state \in Expected(handler[h].pc)
               /\ handler[h].pc \notin {"received", "admit", "refuse"} => policy # None
               /\ Sent(handler[h], reply[h].body, requests[keyOf(h)])

\* DoneIsTrue and ErrorsAreFinal for one call and the record of its request.
DoneTrue(x, p, row) ==
    p.code = 200 /\ p.end \in {"done", "json"} =>
      /\ row.state = Completed
      /\ p.body = IF x.attempt = 0 /\ x.input \in Streamed THEN <<>> ELSE row.response
ErrorFinal(p, row) ==
    p.error \notin {"", "invalid", "conflict", "unpriced"} =>
      /\ row.state \in Final \ {Completed}
      /\ row.cost = 0
      /\ row.state = Failed /\ p.body # <<>> => row.partial

AnswerInv(h) ==
    /\ handler[h].pc = "idle" => handler[h].attempt = 0 /\ reply[h].body = <<>>
    /\ handler[h].pc # "answered" => reply[h].end = "open" /\ reply[h].error = ""
    /\ handler[h].pc = "answered" =>
         /\ DoneTrue(handler[h], reply[h], requests[keyOf(h)])
         /\ ErrorFinal(reply[h], requests[keyOf(h)])
         /\ \/ keyOf(h) \in Key
            \/ reply[h].end \notin {"done", "json"} /\ reply[h].error = "invalid"

\* A request has one call that runs it.
OneOwner == \A g, h \in Handler : Runs(g) /\ Runs(h) /\ keyOf(g) = keyOf(h) => g = h

EndpointInv == /\ TypeOK
               /\ \A k \in Key : RowInv(requests[k])
               /\ \A h \in Handler : RunInv(h) /\ AnswerInv(h)
               /\ OneOwner

------------------------------------------------------------------------------
(* The store *)

\* A write of one record that the state machine of request.go allows: a failure has a
\* category exactly when the request was in progress.
Legal(old, row) ==
    \/ old.state = Absent /\ row.state = Received
    \/ /\ CanTransition(old.state, row.state)
       /\ row.state = Failed => (row.category # "" <=> old.state = InProgress)
Writes(k, row) == /\ requests' = [requests EXCEPT ![k] = row]
                  /\ row \in RowType /\ RowInv(row) /\ Legal(requests[k], row)
RowsStep == UNCHANGED requests \/ \E k \in Key : \E row \in RowType : Writes(k, row)

Rows == requests \in [Key -> RowType] /\ \A k \in Key : RowInv(requests[k])

\* The states without a successor in request.go.
LEMMA FinalStates == Final = {Completed, Failed, Cancelled, BudgetRejected}
BY DEF Final, State, allowedTransitions, Received, Validated, Routing, InProgress, Completed,
       Failed, Cancelled, BudgetRejected

\* A legal write starts from a state that is not final.
LEMMA LegalStarts ==
    ASSUME NEW old, NEW row, Legal(old, row)
    PROVE  old.state \in {Absent, Received, Validated, Routing, InProgress} /\ old.state \notin Final
<1>1. old.state \in {Absent, Received, Validated, Routing, InProgress}
    BY Zenon DEF Legal, CanTransition, allowedTransitions
<1> QED BY <1>1, FinalStates DEF Absent, Received, Validated, Routing, InProgress, Completed,
       Failed, Cancelled, BudgetRejected

\* A write touches one record, never one that is final.
LEMMA WriteKeeps ==
    ASSUME Rows, NEW k \in Key, NEW row \in RowType, Writes(k, row)
    PROVE  /\ Rows' /\ requests'[k] = row /\ requests[k].state \notin Final
           /\ \A j \in Key \ {k} : requests'[j] = requests[j]
<1>1. /\ requests' \in [Key -> RowType] /\ requests'[k] = row
      /\ \A j \in Key \ {k} : requests'[j] = requests[j]
    BY Zenon DEF Rows, Writes
<1>2. \A j \in Key : RowInv(requests'[j])
    BY <1>1, Zenon DEF Rows, Writes
<1> QED BY <1>1, <1>2, LegalStarts, Zenon DEF Rows, Writes

\* The facts a record implies after a legal write are those of the transition.
LEMMA FactsCommitted ==
    ASSUME NEW old, NEW row, RowInv(old), RowInv(row), Legal(old, row)
    PROVE  \/ old.state = Absent /\ row.state = Received /\ factsOf(row) = factsOf(old)
           \/ /\ CanTransition(old.state, row.state)
              /\ factsOf(row) = factsOf(old) \cup Lifecycle!FactsOf(old.state, row.state)
<1>1. factsOf(old) = {}
    <2>1. old.state \notin {Completed, BudgetRejected, Failed}
        BY LegalStarts, FinalStates, Zenon
    <2> QED BY <2>1, Zenon DEF factsOf
<1>2. CASE old.state = Absent /\ row.state = Received
    <2>1. row.state \notin {Completed, BudgetRejected, Failed}
        BY <1>2 DEF Received, Completed, BudgetRejected, Failed
    <2> QED BY <1>1, <1>2, <2>1, Zenon DEF factsOf
<1>3. CASE /\ CanTransition(old.state, row.state)
           /\ row.state = Failed => (row.category # "" <=> old.state = InProgress)
    <2>1. factsOf(row) = Lifecycle!FactsOf(old.state, row.state)
        <3>1. CASE row.state = Completed
            <4>1. row.state # BudgetRejected /\ row.state # Failed
                BY <3>1 DEF BudgetRejected, Completed, Failed
            <4> QED BY <3>1, <4>1, Zenon DEF factsOf, Lifecycle!FactsOf, Lifecycle!Completed,
                   Lifecycle!Failed, Lifecycle!BudgetRejected, BudgetRejected, Completed, Failed
        <3>2. CASE row.state = BudgetRejected
            <4>1. row.state # Completed /\ row.state # Failed
                BY <3>2 DEF BudgetRejected, Completed, Failed
            <4> QED BY <3>2, <4>1, Zenon DEF factsOf, Lifecycle!FactsOf, Lifecycle!Completed,
                   Lifecycle!Failed, Lifecycle!BudgetRejected, BudgetRejected, Completed, Failed
        <3>3. CASE row.state = Failed
            <4>1. row.state # Completed /\ row.state # BudgetRejected
                BY <3>3 DEF BudgetRejected, Completed, Failed
            <4> QED BY <1>3, <3>3, <4>1, Zenon DEF factsOf, Lifecycle!FactsOf, Lifecycle!Completed,
                   Lifecycle!Failed, Lifecycle!BudgetRejected, Lifecycle!InProgress,
                   BudgetRejected, Completed, Failed, InProgress
        <3>4. CASE row.state \notin {Completed, BudgetRejected, Failed}
            BY <3>4, Zenon DEF factsOf, Lifecycle!FactsOf, Lifecycle!Completed,
                   Lifecycle!Failed, Lifecycle!BudgetRejected, BudgetRejected, Completed, Failed
        <3> QED BY <3>1, <3>2, <3>3, <3>4, Zenon
    <2> QED BY <1>1, <1>3, <2>1, Zenon
<1> QED BY <1>2, <1>3, Zenon DEF Legal

\* Every legal write is a step of RequestLifecycle.
LEMMA MappedStep == Rows /\ RowsStep => [Lifecycle!Next]_(Lifecycle!vars)
<1> SUFFICES ASSUME Rows, RowsStep PROVE [Lifecycle!Next]_(Lifecycle!vars)
    OBVIOUS
<1> DEFINE Status(r) == [k \in Key |-> r[k].state]
           Facts(r) == [k \in Key |-> factsOf(r[k])]
<1>0. /\ [k \in Key |-> state(k)] = Status(requests)
      /\ [k \in Key |-> state(k)]' = Status(requests')
      /\ [k \in Key |-> factsOf(requests[k])] = Facts(requests)
      /\ [k \in Key |-> factsOf(requests[k])]' = Facts(requests')
    BY Zenon DEF state, factsOf
<1>1. CASE UNCHANGED requests
    <2>1. Status(requests') = Status(requests) /\ Facts(requests') = Facts(requests)
        BY <1>1, Zenon
    <2> QED BY <1>0, <2>1, Zenon DEF Lifecycle!vars
<1>2. ASSUME NEW k \in Key, NEW row \in RowType, Writes(k, row) PROVE Lifecycle!Next
    <2>1. /\ Rows' /\ requests'[k] = row
          /\ \A j \in Key \ {k} : requests'[j] = requests[j]
        BY <1>2, WriteKeeps, Zenon
    <2>2. /\ Status(requests') = [Status(requests) EXCEPT ![k] = row.state]
          /\ Facts(requests') = [Facts(requests) EXCEPT ![k] = factsOf(row)]
        BY <2>1, Zenon
    <2>3. \/ state(k) = Absent /\ row.state = Received /\ factsOf(row) = factsOf(requests[k])
          \/ /\ CanTransition(state(k), row.state)
             /\ factsOf(row) = factsOf(requests[k]) \cup Lifecycle!FactsOf(state(k), row.state)
        BY <1>2, FactsCommitted, Zenon DEF Writes, Rows, state
    <2>4. Status(requests)[k] = state(k) /\ Facts(requests)[k] = factsOf(requests[k])
        BY Zenon DEF state
    <2>5. CASE state(k) = Absent /\ row.state = Received /\ factsOf(row) = factsOf(requests[k])
        <3>1. Facts(requests') = Facts(requests)
            BY <2>2, <2>5, Zenon
        <3>2. Lifecycle!Accept(k)
            BY <1>0, <2>2, <2>4, <2>5, <3>1, Zenon DEF Lifecycle!Accept, Lifecycle!Absent, Absent,
               Lifecycle!Received, Received
        <3> QED BY <3>2, Zenon DEF Lifecycle!Next
    <2>6. CASE /\ CanTransition(state(k), row.state)
               /\ factsOf(row) = factsOf(requests[k]) \cup Lifecycle!FactsOf(state(k), row.state)
        <3>1. Lifecycle!CanTransition(Status(requests)[k], row.state) /\ row.state \in Lifecycle!State
            BY <2>4, <2>6, Zenon DEF CanTransition, allowedTransitions, Lifecycle!CanTransition,
               Lifecycle!allowedTransitions, Lifecycle!Received, Lifecycle!Validated, Lifecycle!Routing,
               Lifecycle!InProgress, Lifecycle!Completed, Lifecycle!Failed, Lifecycle!Cancelled,
               Lifecycle!BudgetRejected, Received, Validated, Routing, InProgress, Completed,
               Failed, Cancelled, BudgetRejected, Lifecycle!State
        <3>2. Facts(requests') = [Facts(requests) EXCEPT ![k] = Facts(requests)[k] \cup Lifecycle!FactsOf(Status(requests)[k], row.state)]
            BY <2>2, <2>4, <2>6, Zenon
        <3>3. Lifecycle!Move(k, row.state)
            BY <1>0, <2>2, <3>1, <3>2, Zenon DEF Lifecycle!Move
        <3> QED BY <3>1, <3>3, Zenon DEF Lifecycle!Next
    <2> QED BY <2>3, <2>5, <2>6, Zenon
<1> QED BY <1>1, <1>2, Zenon DEF RowsStep

\* The fields of a record.
LEMMA RowFields ==
    ASSUME NEW row \in RowType
    PROVE  /\ row.state \in State \cup {Absent} /\ row.hash \in Body \cup {None}
           /\ row.response \in Chunks \cup {None} /\ row.category \in Category
           /\ row.partial \in BOOLEAN /\ row.cost \in Costs
BY Zenon DEF RowType

\* The states are distinct names.
LEMMA StatesDiffer ==
    /\ Absent \notin State /\ Cancelled \in Final \ {Completed} /\ Failed \in Final \ {Completed}
    /\ BudgetRejected \in Final \ {Completed}
    /\ Failed \notin {Received, Validated, Routing, InProgress, Cancelled, Completed, Absent}
    /\ Completed \notin {Received, Validated, Routing, InProgress, Cancelled, Failed, Absent}
    /\ BudgetRejected \notin {Completed, Failed} /\ Cancelled \notin {Completed, Failed}
    /\ Validated # InProgress /\ Received # InProgress /\ Routing # InProgress
BY FinalStates DEF State, Absent, Received, Validated, Routing, InProgress, Completed, Failed,
       Cancelled, BudgetRejected

\* The transitions the endpoint asks for are in allowedTransitions.
LEMMA Reaches ==
    /\ CanTransition(Received, Validated) /\ CanTransition(Validated, Routing)
    /\ CanTransition(Routing, InProgress) /\ CanTransition(Validated, Failed)
    /\ CanTransition(Validated, BudgetRejected) /\ CanTransition(InProgress, Completed)
    /\ CanTransition(InProgress, Failed)
    /\ \A s \in {Received, Validated, Routing, InProgress} : CanTransition(s, Cancelled)
BY Zenon DEF CanTransition, allowedTransitions, Received, Validated, Routing, InProgress,
       Completed, Failed, Cancelled, BudgetRejected

\* CreateRequest is a legal write.
LEMMA CreateWrites ==
    ASSUME Rows, NEW k \in Key, NEW i \in Body, CreateRequest(k, i)
    PROVE  Record(Received, i) \in RowType /\ Writes(k, Record(Received, i))
<1>1. Record(Received, i) \in RowType
    BY DEF Record, RowType, Category, Costs, State
<1>2. RowInv(Record(Received, i)) /\ Legal(requests[k], Record(Received, i))
    BY Zenon DEF CreateRequest, Record, RowInv, Legal, state
<1> QED BY <1>1, <1>2, Zenon DEF CreateRequest, Writes

Live == {Received, Validated, Routing, InProgress}

\* TransitionRequest is a legal write; one from IN_PROGRESS to FAILED needs a category.
LEMMA TransitionWrites ==
    ASSUME Rows, NEW k \in Key, NEW from \in Live,
           NEW to \in State \ {Completed}, TransitionRequest(k, from, to),
           from = InProgress => to # Failed
    PROVE  \E row \in RowType : Writes(k, row) /\ row.state = to
<1> DEFINE row == [requests[k] EXCEPT !.state = to]
<1>1. requests' = [requests EXCEPT ![k] = row]
    BY Zenon DEF TransitionRequest
<1>2. row \in RowType /\ row.state = to /\ row.category = requests[k].category /\ row.cost = requests[k].cost
    BY Zenon DEF Rows, RowType
<1>3. from \notin {Failed, Completed}
    BY StatesDiffer, Zenon DEF Live
<1>4. RowInv(row)
    BY <1>2, <1>3, Zenon DEF RowInv, Rows, TransitionRequest, state
<1>5. Legal(requests[k], row)
    BY <1>2, <1>3, Zenon DEF RowInv, Rows, TransitionRequest, state, Legal
<1> QED BY <1>1, <1>2, <1>4, <1>5, Zenon DEF Writes

\* CompleteRequest is a legal write that keeps the content.
LEMMA CompleteWrites ==
    ASSUME Rows, NEW k \in Key, NEW n, NEW content \in Chunks, NEW c \in Costs,
           CompleteRequest(k, n, content, c)
    PROVE  \E row \in RowType : Writes(k, row) /\ row.state = Completed /\ row.response = content
<1> DEFINE row == [requests[k] EXCEPT !.state = Completed, !.response = content, !.cost = c]
<1>1. requests' = [requests EXCEPT ![k] = row]
    BY Zenon DEF CompleteRequest
<1>2. /\ row \in RowType /\ row.state = Completed /\ row.response = content
      /\ row.category = requests[k].category
    BY Zenon DEF Rows, RowType, State
<1>3. RowInv(row)
    BY <1>2, StatesDiffer, Zenon DEF RowInv, Rows, CompleteRequest, state
<1>4. Legal(requests[k], row)
    BY <1>2, StatesDiffer, Reaches, Zenon DEF CompleteRequest, state, Legal
<1> QED BY <1>1, <1>2, <1>3, <1>4, Zenon DEF Writes

\* A final FailAttempt is a legal write that keeps the partial mark.
LEMMA FailWrites ==
    ASSUME Rows, NEW k \in Key, NEW c \in Category \ {""}, NEW p \in BOOLEAN, FailAttempt(k, c, p, TRUE)
    PROVE  \E row \in RowType : Writes(k, row) /\ row.state = Failed /\ row.partial = p
<1> DEFINE row == [requests[k] EXCEPT !.state = Failed, !.category = c, !.partial = p]
<1>1. requests' = [requests EXCEPT ![k] = row] /\ requests[k].state = InProgress
    BY Zenon DEF FailAttempt, state
<1>2. /\ row \in RowType /\ row.state = Failed /\ row.partial = p /\ row.category # ""
      /\ row.cost = requests[k].cost
    BY Zenon DEF Rows, RowType, State
<1>3. RowInv(row)
    BY <1>1, <1>2, StatesDiffer, Zenon DEF RowInv, Rows
<1>4. Legal(requests[k], row)
    BY <1>1, <1>2, Reaches, Zenon DEF Legal
<1> QED BY <1>1, <1>2, <1>3, <1>4, Zenon DEF Writes

\* CancelRequest is a legal write.
LEMMA CancelWrites ==
    ASSUME Rows, NEW k \in Key, CancelRequest(k)
    PROVE  \E row \in RowType : Writes(k, row) /\ row.state = Cancelled
<1>1. state(k) \in Live
    BY RowFields, Zenon DEF Rows, CancelRequest, state, State, Live
<1>2. TransitionRequest(k, state(k), Cancelled)
    BY <1>1, Reaches, Zenon DEF TransitionRequest, CancelRequest, Live
<1>3. Cancelled \in State \ {Completed}
    BY StatesDiffer, Zenon DEF State
<1> QED BY <1>1, <1>2, <1>3, TransitionWrites, StatesDiffer, Zenon

------------------------------------------------------------------------------
(* One call takes a step *)

\* The records of the requests that h does not run are as before.
Own(h) == UNCHANGED requests \/ (Runs(h) /\ \E row \in RowType : Writes(keyOf(h), row))
Only(h, r, p) == /\ handler' = [handler EXCEPT ![h] = r] /\ r \in HandlerType
                 /\ reply' = [reply EXCEPT ![h] = p] /\ p \in ReplyType
                 /\ UNCHANGED policy

\* The invariant for one call.
LEMMA Parts ==
    ASSUME EndpointInv, NEW h \in Handler
    PROVE  /\ Rows /\ RunInv(h) /\ AnswerInv(h) /\ handler[h] \in HandlerType /\ reply[h] \in ReplyType
           /\ policy \in Policies
BY Zenon DEF EndpointInv, TypeOK, Rows

\* The other calls are as before.
LEMMA OnlyOne ==
    ASSUME EndpointInv, NEW h \in Handler, NEW r, NEW p, Only(h, r, p)
    PROVE  /\ handler' \in [Handler -> HandlerType] /\ reply' \in [Handler -> ReplyType]
           /\ policy' \in Policies /\ policy' = policy
           /\ handler'[h] = r /\ reply'[h] = p
           /\ \A g \in Handler \ {h} : handler'[g] = handler[g] /\ reply'[g] = reply[g]
BY Zenon DEF EndpointInv, TypeOK, Only

\* A call whose request is not written keeps what it knows of it.
LEMMA OthersKeep ==
    ASSUME EndpointInv, NEW g \in Handler, handler'[g] = handler[g], reply'[g] = reply[g], policy' = policy,
           UNCHANGED requests \/ \E k \in Key : \E row \in RowType :
                                    Writes(k, row) /\ (Runs(g) => keyOf(g) # k)
    PROVE  RunInv(g)' /\ AnswerInv(g)'
<1>0. Rows /\ RunInv(g) /\ AnswerInv(g)
    BY Parts, Zenon
<1>1. CASE UNCHANGED requests
    <2>1. requests'[keyOf(g)] = requests[keyOf(g)] /\ keyOf(g)' = keyOf(g) /\ Runs(g)' = Runs(g)
        BY <1>1, Zenon DEF keyOf, Runs
    <2>2. RunInv(g)'
        BY <1>0, <2>1, Zenon DEF RunInv
    <2>3. AnswerInv(g)'
        BY <1>0, <2>1, Zenon DEF AnswerInv
    <2> QED BY <2>2, <2>3, Zenon
<1>2. ASSUME NEW k \in Key, NEW row \in RowType, Writes(k, row), Runs(g) => keyOf(g) # k
      PROVE  RunInv(g)' /\ AnswerInv(g)'
    <2>1. requests[k].state \notin Final /\ \A j \in Key \ {k} : requests'[j] = requests[j]
        BY <1>0, <1>2, WriteKeeps, Zenon
    <2>2. RunInv(g)'
        <3>1. SUFFICES ASSUME Runs(g) PROVE RunInv(g)'
            BY Zenon DEF RunInv, Runs
        <3>2. requests'[keyOf(g)] = requests[keyOf(g)] /\ keyOf(g)' = keyOf(g)
            BY <1>0, <1>2, <2>1, <3>1, Zenon DEF RunInv, keyOf
        <3> QED BY <1>0, <3>1, <3>2, Zenon DEF RunInv, Runs, Sent, keyOf
    <2>3. AnswerInv(g)'
        <3>1. CASE handler[g].pc # "answered"
            BY <1>0, <3>1, Zenon DEF AnswerInv
        <3>2. ASSUME handler[g].pc = "answered", keyOf(g) \in Key \ {k} PROVE AnswerInv(g)'
            <4>1. requests'[keyOf(g)] = requests[keyOf(g)] /\ keyOf(g)' = keyOf(g)
                BY <2>1, <3>2, Zenon DEF keyOf
            <4> QED BY <1>0, <3>2, <4>1, Zenon DEF AnswerInv
        <3>3. ASSUME handler[g].pc = "answered", keyOf(g) = k PROVE AnswerInv(g)'
            <4>1. /\ ~(reply[g].code = 200 /\ reply[g].end \in {"done", "json"})
                  /\ reply[g].error \in {"", "invalid", "conflict", "unpriced"}
                BY <1>0, <2>1, <3>3, StatesDiffer, FinalStates, Zenon DEF AnswerInv, DoneTrue, ErrorFinal
            <4> QED BY <1>0, <3>3, <4>1, ZenonT(40) DEF AnswerInv, keyOf, DoneTrue, ErrorFinal
        <3>4. ASSUME handler[g].pc = "answered", keyOf(g) \notin Key PROVE AnswerInv(g)'
            <4>1. reply[g].end \notin {"done", "json"} /\ reply[g].error = "invalid"
                BY <1>0, <3>4, Zenon DEF AnswerInv
            <4> QED BY <1>0, <3>4, <4>1, Zenon DEF AnswerInv, keyOf, DoneTrue, ErrorFinal
        <3> QED BY <3>1, <3>2, <3>3, <3>4, Zenon
    <2> QED BY <2>2, <2>3, Zenon
<1> QED BY <1>1, <1>2, Zenon

\* A call that writes the record of its request writes none that another call runs.
LEMMA OwnRows ==
    ASSUME EndpointInv, NEW h \in Handler, Own(h)
    PROVE  /\ Rows' /\ RowsStep
           /\ \A g \in Handler \ {h} :
                UNCHANGED requests \/ \E k \in Key : \E row \in RowType :
                    Writes(k, row) /\ (Runs(g) => keyOf(g) # k)
<1>0. Rows /\ RunInv(h)
    BY Parts, Zenon
<1>1. CASE UNCHANGED requests
    BY <1>0, <1>1, Zenon DEF Rows, RowsStep, RowInv
<1>2. ASSUME Runs(h), NEW row \in RowType, Writes(keyOf(h), row)
      PROVE  /\ Rows' /\ RowsStep
             /\ \A g \in Handler \ {h} : \E k \in Key : \E r \in RowType :
                    Writes(k, r) /\ (Runs(g) => keyOf(g) # k)
    <2>1. keyOf(h) \in Key
        BY <1>0, <1>2, Zenon DEF RunInv
    <2>2. \A g \in Handler \ {h} : Runs(g) => keyOf(g) # keyOf(h)
        BY <1>2, Zenon DEF EndpointInv, OneOwner
    <2> QED BY <1>0, <1>2, <2>1, <2>2, WriteKeeps, Zenon DEF RowsStep
<1> QED BY <1>1, <1>2, Zenon DEF Own

\* A step of one call keeps the invariant if it does so for that call.
LEMMA CallStep ==
    ASSUME EndpointInv, NEW h \in Handler, NEW r, NEW p, Only(h, r, p), Own(h),
           r.pc \notin {"idle", "answered"} => Runs(h) /\ r.key = keyOf(h),
           RunInv(h)', AnswerInv(h)'
    PROVE  EndpointInv' /\ RowsStep
<1>1. /\ handler' \in [Handler -> HandlerType] /\ reply' \in [Handler -> ReplyType]
      /\ policy' \in Policies /\ policy' = policy
      /\ handler'[h] = r /\ reply'[h] = p
      /\ \A g \in Handler \ {h} : handler'[g] = handler[g] /\ reply'[g] = reply[g]
    BY OnlyOne, Zenon
<1>2. /\ Rows' /\ RowsStep
      /\ \A g \in Handler \ {h} :
           UNCHANGED requests \/ \E k \in Key : \E row \in RowType :
               Writes(k, row) /\ (Runs(g) => keyOf(g) # k)
    BY OwnRows, Zenon
<1>3. \A g \in Handler \ {h} : RunInv(g)' /\ AnswerInv(g)'
    BY <1>1, <1>2, OthersKeep, Zenon
<1>4. \A g \in Handler : Runs(g)' => Runs(g) /\ keyOf(g)' = keyOf(g)
    BY <1>1, Zenon DEF Runs, keyOf
<1>5. OneOwner'
    BY <1>4, Zenon DEF OneOwner, EndpointInv
<1> QED BY <1>1, <1>2, <1>3, <1>5, Zenon DEF EndpointInv, TypeOK, Rows

\* The call goes on.
LEMMA GoesOn ==
    ASSUME EndpointInv, NEW h \in Handler, Runs(h), NEW r, NEW p, Only(h, r, p), Own(h),
           r.pc \notin {"idle", "answered"}, r.key = keyOf(h), p.end = "open", p.error = "",
           requests'[keyOf(h)].state \in Expected(r.pc),
           r.pc \notin {"received", "admit", "refuse"} => policy # None,
           Sent(r, p.body, requests'[keyOf(h)])
    PROVE  EndpointInv' /\ RowsStep
<1>1. handler'[h] = r /\ reply'[h] = p /\ policy' = policy
    BY OnlyOne, ZenonT(40)
<1>2. keyOf(h) \in Key /\ keyOf(h)' = keyOf(h)
    BY <1>1, Parts, Zenon DEF RunInv, keyOf
<1>3. RunInv(h)'
    BY <1>1, <1>2, Zenon DEF RunInv
<1>4. AnswerInv(h)'
    BY <1>1, Zenon DEF AnswerInv
<1> QED BY <1>3, <1>4, CallStep, Zenon

\* The call ends.
LEMMA Ends ==
    ASSUME EndpointInv, NEW h \in Handler, NEW r, NEW p, Only(h, r, p), Own(h), r.pc = "answered",
           DoneTrue(r, p, requests'[r.key]), ErrorFinal(p, requests'[r.key]),
           r.key \in Key \/ (p.end \notin {"done", "json"} /\ p.error = "invalid")
    PROVE  EndpointInv' /\ RowsStep
<1>1. handler'[h] = r /\ reply'[h] = p
    BY OnlyOne, Zenon
<1>2. keyOf(h)' = r.key
    BY <1>1, Zenon DEF keyOf
<1>3. RunInv(h)'
    BY <1>1, Zenon DEF RunInv, Runs
<1>4. AnswerInv(h)'
    BY <1>1, <1>2, Zenon DEF AnswerInv
<1> QED BY <1>3, <1>4, CallStep, Zenon

------------------------------------------------------------------------------
(* Steps that write nothing to the client, and errors *)

Quiet == {"admit", "refuse", "reserve", "reject", "route", "progress", "select", "backoff", "finish"}

\* The fields of the locals of a call.
LEMMA HandlerFields ==
    ASSUME NEW r \in HandlerType
    PROVE  /\ r.pc \in Pc /\ r.key \in Key \cup {None} /\ r.input \in Body \cup {None} /\ r.attempt \in Nat
           /\ r.excluded \in SUBSET Provider /\ r.provider \in Provider \cup {None}
           /\ r.content \in Chunks /\ r.usage \in Usage /\ r.error \in Error
           /\ r.retryable \in BOOLEAN /\ r.gone \in BOOLEAN
BY Zenon DEF HandlerType

\* The fields of an answer.
LEMMA ReplyFields ==
    ASSUME NEW p \in ReplyType
    PROVE  /\ p.code \in Nat /\ p.error \in Error /\ p.sse \in BOOLEAN /\ p.body \in Chunks \cup {None}
           /\ p.end \in {"open", "done", "json", "error", "problem"}
BY Zenon DEF ReplyType

\* Expected, by label.
LEMMA ExpectedAt ==
    /\ Expected("received") = {Received, Cancelled}
    /\ \A pc \in {"admit", "refuse", "reserve", "reject", "route"} : Expected(pc) = {Validated, Cancelled}
    /\ Expected("progress") = {Routing, Cancelled}
    /\ \A pc \in Looping : Expected(pc) = {InProgress, Cancelled}
    /\ Expected("settle") = {Completed}
    /\ Expected("reconcile") = {Failed, Cancelled}
BY DEF Expected, Looping

\* The labels of the loop over the attempts.
LEMMA LoopingLabels ==
    Looping = {"select", "start", "call", "stream", "complete", "fail", "backoff", "finish"}
BY Zenon DEF Looping

\* The labels of a running call.
LEMMA Labels ==
    /\ Quiet \cup Looping \cup {"received", "settle", "reconcile"} \subseteq Pc \ {"idle", "answered"}
    /\ Quiet \cap {"stream", "complete", "settle", "fail", "reconcile", "start", "call", "received"} = {}
BY DEF Quiet, Looping, Pc

\* Nothing has been sent before an attempt streams.
LEMMA QuietBefore ==
    ASSUME EndpointInv, NEW h \in Handler, Runs(h),
           handler[h].pc \notin {"stream", "complete", "settle", "fail", "reconcile"}
    PROVE  reply[h].body = <<>>
BY Parts, Zenon DEF RunInv, Sent

\* Sent asks for nothing else before an attempt streams.
LEMMA QuietAfter ==
    ASSUME NEW r, NEW row, r.pc \in Quiet
    PROVE  Sent(r, <<>>, row)
BY DEF Sent, Quiet

\* What holds of a call that is at one of its labels.
LEMMA At0 ==
    ASSUME EndpointInv, NEW h \in Handler, NEW pc, At(h, pc), pc \in Pc \ {"idle", "answered"}
    PROVE  /\ Runs(h) /\ keyOf(h) \in Key /\ requests[keyOf(h)].state \in Expected(pc)
           /\ requests[keyOf(h)] \in RowType /\ RowInv(requests[keyOf(h)])
           /\ pc \notin {"received", "admit", "refuse"} => policy # None
           /\ Sent(handler[h], reply[h].body, requests[keyOf(h)])
           /\ handler[h] \in HandlerType /\ handler[h].pc = pc /\ reply[h] \in ReplyType
           /\ reply[h].end = "open" /\ reply[h].error = "" /\ Rows
<1>1. Runs(h) /\ handler[h].pc = pc
    BY Zenon DEF Runs, At
<1>2. /\ Rows /\ RunInv(h) /\ AnswerInv(h) /\ handler[h] \in HandlerType /\ reply[h] \in ReplyType
    BY Parts, Zenon
<1>3. keyOf(h) \in Key /\ requests[keyOf(h)].state \in Expected(pc)
    BY <1>1, <1>2, Zenon DEF RunInv
<1> QED BY <1>1, <1>2, <1>3, Zenon DEF RunInv, AnswerInv, Rows

\* A running call changes its locals, and writes nothing to its client.
LEMMA SilentStep ==
    ASSUME EndpointInv, NEW h \in Handler, Runs(h), NEW r \in HandlerType,
           handler' = [handler EXCEPT ![h] = r], UNCHANGED <<policy, reply>>, Own(h),
           r.pc \notin {"idle", "answered"}, r.key = keyOf(h),
           requests'[keyOf(h)].state \in Expected(r.pc),
           r.pc \notin {"received", "admit", "refuse"} => policy # None,
           Sent(r, reply[h].body, requests'[keyOf(h)])
    PROVE  EndpointInv' /\ RowsStep
<1>1. reply[h] \in ReplyType /\ reply[h].end = "open" /\ reply[h].error = ""
    BY Parts, Zenon DEF AnswerInv, Runs
<1>2. reply' = [reply EXCEPT ![h] = reply[h]]
    BY Zenon DEF EndpointInv, TypeOK
<1>3. Only(h, r, reply[h])
    BY <1>1, <1>2, Zenon DEF Only
<1> QED BY <1>1, <1>3, GoesOn, Zenon

\* Only the label changes.
LEMMA GotoStep ==
    ASSUME EndpointInv, NEW h \in Handler, Runs(h), NEW label \in Pc \ {"idle", "answered"},
           Goto(h, label), Own(h),
           requests'[keyOf(h)].state \in Expected(label),
           label \notin {"received", "admit", "refuse"} => policy # None,
           \A r \in HandlerType :
               r = [handler[h] EXCEPT !.pc = label] => Sent(r, reply[h].body, requests'[keyOf(h)])
    PROVE  EndpointInv' /\ RowsStep
<1>0. handler[h] \in HandlerType
    BY Parts, Zenon
<1>1. PICK r \in HandlerType : r = [handler[h] EXCEPT !.pc = label]
    BY <1>0, Zenon DEF HandlerType
<1>2. handler' = [handler EXCEPT ![h] = r] /\ UNCHANGED <<policy, reply>>
    BY <1>1, Zenon DEF Goto
<1>3. r.pc = label /\ r.key = keyOf(h)
    BY <1>0, <1>1, Zenon DEF HandlerType, keyOf
<1> QED BY <1>1, <1>2, <1>3, SilentStep, Zenon

\* The optional values.
MaybeKey == Key \cup {None}
MaybeBody == Body \cup {None}
MaybeChunks == Chunks \cup {None}
\* The locals of a call that Leave has ended.
Answered(k, i, n) == [Idle EXCEPT !.pc = "answered", !.key = k, !.input = i, !.attempt = n]

\* Leave leaves locals of their type.
LEMMA AnsweredRecord ==
    ASSUME NEW k \in MaybeKey, NEW i \in MaybeBody, NEW n \in Nat
    PROVE  /\ Answered(k, i, n) \in HandlerType
           /\ Answered(k, i, n).pc = "answered" /\ Answered(k, i, n).key = k
           /\ Answered(k, i, n).input = i /\ Answered(k, i, n).attempt = n
<1>1. "answered" \in Pc /\ "" \in Error /\ NoUsage \in Usage
    BY Zenon DEF Pc, Error, Usage
<1>2. <<>> \in Chunks
    BY DEF Chunks
<1> QED BY <1>1, <1>2, Zenon DEF Answered, Idle, HandlerType, MaybeKey, MaybeBody

\* The same for Answer, which keeps key, body and attempts.
LEMMA AnsweredCall ==
    ASSUME NEW h \in Handler, handler[h] \in HandlerType, NEW r,
           r = Answered(keyOf(h), handler[h].input, handler[h].attempt)
    PROVE  /\ r \in HandlerType /\ r.pc = "answered" /\ r.key = keyOf(h)
           /\ r.input = handler[h].input /\ r.attempt = handler[h].attempt
<1>1. keyOf(h) \in MaybeKey /\ handler[h].input \in MaybeBody /\ handler[h].attempt \in Nat
    BY HandlerFields, Zenon DEF keyOf, MaybeKey, MaybeBody
<1> QED BY <1>1, AnsweredRecord

\* writeError ends the answer with an error event or a problem, never with a success.
LEMMA ErrorReply ==
    ASSUME EndpointInv, NEW h \in Handler, NEW e \in Error, writeError(h, e)
    PROVE  \E p \in ReplyType :
             /\ reply' = [reply EXCEPT ![h] = p]
             /\ p.error = e /\ p.end \notin {"done", "json"} /\ p.body = reply[h].body
<1>0. reply[h] \in ReplyType
    BY Parts, Zenon
<1>1. PICK p : p = IF reply[h].sse THEN [reply[h] EXCEPT !.error = e, !.end = "error"]
                   ELSE [reply[h] EXCEPT !.code = writeServiceError(e), !.error = e, !.end = "problem"]
    BY Zenon
<1>2. writeServiceError(e) \in Nat
    BY DEF writeServiceError
<1>3. p \in ReplyType /\ p.error = e /\ p.end \in {"error", "problem"} /\ p.body = reply[h].body
    <2>1. CASE reply[h].sse
        BY <1>0, <1>1, <2>1, Zenon DEF ReplyType
    <2>2. CASE ~reply[h].sse
        BY <1>0, <1>1, <1>2, <2>2, Zenon DEF ReplyType
    <2> QED BY <2>1, <2>2, Zenon
<1>4. p.end \notin {"done", "json"}
    BY <1>3
<1>5. reply' = [reply EXCEPT ![h] = p]
    BY <1>1, Zenon DEF writeError
<1> QED BY <1>3, <1>4, <1>5, Zenon

\* The request is final when the call ends with an error.
LEMMA ReturnErrorStep ==
    ASSUME EndpointInv, NEW h \in Handler, Runs(h), NEW e \in Error, ReturnError(h, e), Own(h),
           \/ e = "unpriced"
           \/ /\ requests'[keyOf(h)].state \in Final \ {Completed}
              /\ requests'[keyOf(h)].cost = 0
              /\ requests'[keyOf(h)].state = Failed /\ reply[h].body # <<>> => requests'[keyOf(h)].partial
    PROVE  EndpointInv' /\ RowsStep
<1>0. handler[h] \in HandlerType /\ keyOf(h) \in Key
    BY Parts, Zenon DEF RunInv
<1> DEFINE r == Answered(keyOf(h), handler[h].input, handler[h].attempt)
<1>1. r \in HandlerType /\ r.pc = "answered" /\ r.key = keyOf(h)
    BY <1>0, AnsweredCall, Zenon
<1>2. PICK p \in ReplyType : /\ reply' = [reply EXCEPT ![h] = p]
                             /\ p.error = e /\ p.end \notin {"done", "json"} /\ p.body = reply[h].body
    BY ErrorReply, Zenon DEF ReturnError
<1>3. Only(h, r, p)
    BY <1>1, <1>2, Zenon DEF Only, ReturnError, Answer, Leave, Answered
<1> HIDE DEF r
<1>4. DoneTrue(r, p, requests'[r.key])
    BY <1>2, Zenon DEF DoneTrue
<1>5. ErrorFinal(p, requests'[r.key])
    BY <1>1, <1>2, Zenon DEF ErrorFinal
<1> QED BY <1>0, <1>1, <1>2, <1>3, <1>4, <1>5, Ends, Zenon

\* The request was cancelled under the call.
LEMMA CancelledStep ==
    ASSUME EndpointInv, NEW h \in Handler, Runs(h), NEW e \in Error, ReturnError(h, e),
           UNCHANGED requests, requests[keyOf(h)].state = Cancelled
    PROVE  EndpointInv' /\ RowsStep
<1>1. keyOf(h) \in Key /\ requests[keyOf(h)].cost = 0
    BY Parts, StatesDiffer, Zenon DEF RunInv, Rows, RowInv
<1>2. Own(h)
    BY Zenon DEF Own
<1> QED BY <1>1, <1>2, ReturnErrorStep, StatesDiffer, Zenon

------------------------------------------------------------------------------
(* Admission *)

\* Advance moves the request and the call, or the call ends since the request was cancelled.
LEMMA AdvanceStep ==
    ASSUME EndpointInv, NEW h \in Handler, NEW pc \in Pc \ {"idle", "answered"}, At(h, pc),
           NEW from \in {Received, Validated, Routing}, NEW to \in {Validated, Routing, InProgress},
           NEW label \in Quiet, Expected(pc) = {from, Cancelled}, Expected(label) = {to, Cancelled},
           pc \notin {"stream", "complete", "settle", "fail", "reconcile"},
           label # "admit" => pc \notin {"received", "admit", "refuse"}, Advance(h, from, to, label)
    PROVE  EndpointInv' /\ RowsStep
<1>0. /\ Runs(h) /\ keyOf(h) \in Key /\ requests[keyOf(h)].state \in Expected(pc)
      /\ pc \notin {"received", "admit", "refuse"} => policy # None
      /\ handler[h] \in HandlerType /\ handler[h].pc = pc /\ Rows
    BY At0, Zenon
<1>1. reply[h].body = <<>>
    BY <1>0, QuietBefore, Zenon
<1>2. CASE TransitionRequest(keyOf(h), from, to) /\ Goto(h, label)
    <2>1. /\ to \in State \ {Completed} /\ from # InProgress
          /\ from \in Live
        BY StatesDiffer, Zenon DEF State, Live
    <2>2. PICK row \in RowType : Writes(keyOf(h), row) /\ row.state = to
        BY <1>0, <1>2, <2>1, TransitionWrites
    <2>3. requests'[keyOf(h)] = row
        BY <1>0, <2>2, WriteKeeps, Zenon
    <2>4. Own(h)
        BY <1>0, <2>2, Zenon DEF Own
    <2>5. label \in Pc \ {"idle", "answered"}
        BY Labels, Zenon
    <2>6. \A r \in HandlerType :
            r = [handler[h] EXCEPT !.pc = label] => Sent(r, reply[h].body, requests'[keyOf(h)])
        <3> SUFFICES ASSUME NEW r \in HandlerType, r = [handler[h] EXCEPT !.pc = label]
                     PROVE  Sent(r, reply[h].body, requests'[keyOf(h)])
            BY Zenon
        <3>1. r.pc = label
            BY <1>0, Zenon DEF HandlerType
        <3>2. Sent(r, <<>>, requests'[keyOf(h)])
            BY <3>1, QuietAfter, Zenon
        <3> QED BY <1>1, <3>2, Zenon
    <2> QED BY <1>0, <1>2, <2>2, <2>3, <2>4, <2>5, <2>6, GotoStep, Zenon
<1>3. CASE state(keyOf(h)) # from /\ UNCHANGED storeVars /\ ReturnError(h, "alreadyfinal")
    <2>1. "alreadyfinal" \in Error
        BY Zenon DEF Error
    <2> QED BY <1>0, <1>3, <2>1, CancelledStep, Zenon DEF state, storeVars
<1> QED BY <1>2, <1>3, Zenon DEF Advance

\* Validate: RECEIVED to VALIDATED.
LEMMA ValidateStep == ASSUME EndpointInv, NEW h \in Handler, Validate(h) PROVE EndpointInv' /\ RowsStep
<1>1. /\ Expected("received") = {Received, Cancelled} /\ Expected("admit") = {Validated, Cancelled}
      /\ "received" \in Pc \ {"idle", "answered"} /\ "admit" \in Quiet
      /\ "received" \notin {"stream", "complete", "settle", "fail", "reconcile"}
    BY ExpectedAt, Labels DEF Quiet
<1> QED BY <1>1, AdvanceStep, Zenon DEF Validate

\* Route: VALIDATED to ROUTING.
LEMMA RouteStep == ASSUME EndpointInv, NEW h \in Handler, Route(h) PROVE EndpointInv' /\ RowsStep
<1>1. /\ Expected("route") = {Validated, Cancelled} /\ Expected("progress") = {Routing, Cancelled}
      /\ "route" \in Pc \ {"idle", "answered"} /\ "progress" \in Quiet
      /\ "route" \notin {"stream", "complete", "settle", "fail", "reconcile", "received", "admit", "refuse"}
    BY ExpectedAt, Labels DEF Quiet
<1> QED BY <1>1, AdvanceStep, Zenon DEF Route

\* Progress: ROUTING to IN_PROGRESS.
LEMMA ProgressStep == ASSUME EndpointInv, NEW h \in Handler, Progress(h) PROVE EndpointInv' /\ RowsStep
<1>1. /\ Expected("progress") = {Routing, Cancelled} /\ Expected("select") = {InProgress, Cancelled}
      /\ "progress" \in Pc \ {"idle", "answered"} /\ "select" \in Quiet
      /\ "progress" \notin {"stream", "complete", "settle", "fail", "reconcile", "received", "admit", "refuse"}
    BY ExpectedAt, Labels DEF Quiet, Looping
<1> QED BY <1>1, AdvanceStep, Zenon DEF Progress

\* A call that stays before the stream and leaves its request as it is.
LEMMA QuietStep ==
    ASSUME EndpointInv, NEW h \in Handler, Runs(h), NEW r \in HandlerType, r.pc \in Quiet,
           handler' = [handler EXCEPT ![h] = r], UNCHANGED <<policy, reply>>, UNCHANGED requests,
           r.key = keyOf(h), requests[keyOf(h)].state \in Expected(r.pc),
           r.pc \notin {"received", "admit", "refuse"} => policy # None, reply[h].body = <<>>
    PROVE  EndpointInv' /\ RowsStep
<1>1. r.pc \notin {"idle", "answered"} /\ Own(h) /\ requests'[keyOf(h)].state \in Expected(r.pc)
    BY Labels, Zenon DEF Own
<1>2. Sent(r, reply[h].body, requests'[keyOf(h)])
    BY QuietAfter, Zenon
<1> QED BY <1>1, <1>2, SilentStep, Zenon

\* Admit goes on to the reservation or to the refusal.
LEMMA AdmitStep == ASSUME EndpointInv, NEW h \in Handler, Admit(h) PROVE EndpointInv' /\ RowsStep
<1>0. "admit" \in Pc \ {"idle", "answered"} /\ {"reserve", "refuse"} \subseteq Quiet
    BY Labels DEF Quiet, Pc
<1>1. /\ Runs(h) /\ requests[keyOf(h)].state \in Expected("admit")
      /\ handler[h] \in HandlerType /\ handler[h].pc = "admit" /\ UNCHANGED requests
    BY <1>0, At0, Zenon DEF Admit, storeVars
<1>2. Expected("admit") = Expected("reserve") /\ Expected("admit") = Expected("refuse")
    BY ExpectedAt, Zenon
<1>3. reply[h].body = <<>>
    <2>1. "admit" \notin {"stream", "complete", "settle", "fail", "reconcile"}
        OBVIOUS
    <2> QED BY <1>1, <2>1, QuietBefore, Zenon
<1>4. CASE policy \notin {None, {}} /\ Goto(h, "reserve")
    <2>1. PICK r \in HandlerType : r = [handler[h] EXCEPT !.pc = "reserve"]
        BY <1>0, <1>1, Labels, Zenon DEF HandlerType
    <2>2. r.pc = "reserve" /\ r.key = keyOf(h)
        BY <1>1, <2>1, Zenon DEF HandlerType, keyOf
    <2> QED BY <1>0, <1>1, <1>2, <1>3, <1>4, <2>1, <2>2, QuietStep, Zenon DEF Goto
<1>5. ASSUME NEW e \in Refusals, handler' = [handler EXCEPT ![h].pc = "refuse", ![h].error = e],
             UNCHANGED <<policy, reply>>
      PROVE  EndpointInv' /\ RowsStep
    <2>0. e \in Error
        BY <1>5, Zenon DEF Refusals, Error
    <2>1. PICK r \in HandlerType : r = [handler[h] EXCEPT !.pc = "refuse", !.error = e]
        BY <1>0, <1>1, <2>0, Labels, Zenon DEF HandlerType
    <2>2. r.pc = "refuse" /\ r.key = keyOf(h)
        BY <1>1, <2>1, Zenon DEF HandlerType, keyOf
    <2>3. handler' = [handler EXCEPT ![h] = r]
        BY <1>5, <2>1, Zenon
    <2> QED BY <1>0, <1>1, <1>2, <1>3, <1>5, <2>2, <2>3, QuietStep, ZenonT(40)
<1> QED BY <1>4, <1>5, Zenon DEF Admit

\* A transition to a final state, whose error is ignored.
LEMMA RefusedStep ==
    ASSUME EndpointInv, NEW h \in Handler, NEW pc \in {"refuse", "reject"}, At(h, pc),
           NEW to \in {Failed, BudgetRejected}, NEW e \in Error, ReturnError(h, e),
           \/ TransitionRequest(keyOf(h), Validated, to)
           \/ state(keyOf(h)) # Validated /\ UNCHANGED storeVars
    PROVE  EndpointInv' /\ RowsStep
<1>0. /\ pc \in Pc \ {"idle", "answered"} /\ pc \notin {"stream", "complete", "settle", "fail", "reconcile"}
    BY Labels DEF Pc
<1>1. /\ Runs(h) /\ keyOf(h) \in Key /\ requests[keyOf(h)].state \in {Validated, Cancelled}
      /\ handler[h].pc = pc /\ Rows
    BY <1>0, At0, ExpectedAt, ZenonT(40)
<1>2. CASE TransitionRequest(keyOf(h), Validated, to)
    <2>1. /\ to \in State \ {Completed} /\ to \in Final \ {Completed}
          /\ Validated # InProgress /\ Validated \in Live
        BY StatesDiffer, Zenon DEF State, Live
    <2>2. PICK row \in RowType : Writes(keyOf(h), row) /\ row.state = to
        BY <1>1, <1>2, <2>1, TransitionWrites, Zenon
    <2>3. requests'[keyOf(h)] = row /\ row.cost = 0
        BY <1>1, <2>1, <2>2, WriteKeeps, Zenon DEF Writes, RowInv
    <2>4. Own(h) /\ reply[h].body = <<>>
        BY <1>0, <1>1, <2>2, QuietBefore, Zenon DEF Own
    <2> QED BY <1>1, <2>1, <2>2, <2>3, <2>4, ReturnErrorStep, Zenon
<1>3. CASE state(keyOf(h)) # Validated /\ UNCHANGED storeVars
    BY <1>1, <1>3, CancelledStep, Zenon DEF state, storeVars
<1> QED BY <1>2, <1>3, Zenon

\* Refuse: the request fails, or was cancelled.
LEMMA RefuseStep == ASSUME EndpointInv, NEW h \in Handler, Refuse(h) PROVE EndpointInv' /\ RowsStep
BY RefusedStep, Parts, HandlerFields, Zenon DEF Refuse

\* Reject: the budget rejects the request, or it was cancelled.
LEMMA RejectStep == ASSUME EndpointInv, NEW h \in Handler, Reject(h) PROVE EndpointInv' /\ RowsStep
<1>1. "exceeded" \in Error
    BY Zenon DEF Error
<1> QED BY <1>1, RefusedStep, Zenon DEF Reject

\* Reserve changes the budget only.
LEMMA ReserveStep == ASSUME EndpointInv, NEW h \in Handler, Reserve(h) PROVE EndpointInv' /\ RowsStep
<1>0. /\ "reserve" \in Pc \ {"idle", "answered"} /\ {"route", "reject"} \subseteq Quiet
      /\ "reserve" \notin {"stream", "complete", "settle", "fail", "reconcile", "received", "admit", "refuse"}
    BY Labels DEF Quiet, Pc
<1>1. /\ Runs(h) /\ requests[keyOf(h)].state \in Expected("reserve") /\ policy # None
      /\ handler[h] \in HandlerType /\ handler[h].pc = "reserve"
    BY <1>0, At0, Zenon DEF Reserve
<1>2. Expected("reserve") = Expected("route") /\ Expected("reserve") = Expected("reject")
    BY ExpectedAt, Zenon
<1>3. reply[h].body = <<>>
    BY <1>0, <1>1, QuietBefore, Zenon
<1>4. UNCHANGED requests /\ \E label \in {"route", "reject"} : Goto(h, label)
    BY Zenon DEF Reserve, ReserveBudget, storeVars
<1>5. PICK label \in {"route", "reject"} : Goto(h, label)
    BY <1>4, Zenon
<1>6. PICK r \in HandlerType : r = [handler[h] EXCEPT !.pc = label]
    BY <1>0, <1>1, Labels, Zenon DEF HandlerType
<1>7. r.pc = label /\ r.key = keyOf(h)
    BY <1>1, <1>6, Zenon DEF HandlerType, keyOf
<1>8. handler' = [handler EXCEPT ![h] = r] /\ UNCHANGED <<policy, reply>>
    BY <1>5, <1>6, Zenon DEF Goto
<1>9. r.pc \in Quiet /\ requests[keyOf(h)].state \in Expected(r.pc)
    BY <1>0, <1>1, <1>2, <1>7, Zenon
<1> QED BY <1>1, <1>3, <1>4, <1>7, <1>8, <1>9, QuietStep, Zenon

------------------------------------------------------------------------------
(* Attempts *)

\* What holds of a call in the loop over its attempts.
LEMMA InLoop ==
    ASSUME EndpointInv, NEW h \in Handler, NEW pc \in Looping, At(h, pc)
    PROVE  /\ Runs(h) /\ keyOf(h) \in Key /\ requests[keyOf(h)].state \in {InProgress, Cancelled}
           /\ policy # None /\ Sent(handler[h], reply[h].body, requests[keyOf(h)])
           /\ handler[h] \in HandlerType /\ handler[h].pc = pc /\ reply[h] \in ReplyType
           /\ reply[h].end = "open" /\ reply[h].error = "" /\ Rows
<1>1. pc \in Pc \ {"idle", "answered"} /\ pc \notin {"received", "admit", "refuse"}
    BY Labels DEF Looping
<1>2. Expected(pc) = {InProgress, Cancelled}
    BY ExpectedAt, Zenon
<1> QED BY <1>1, <1>2, At0, Zenon

\* A step of the loop that writes neither to the store nor to the client.
LEMMA LoopStep ==
    ASSUME EndpointInv, NEW h \in Handler, NEW pc \in Looping, At(h, pc), NEW r \in HandlerType,
           r.pc \in Looping, r.key = keyOf(h), handler' = [handler EXCEPT ![h] = r],
           UNCHANGED <<policy, reply>>, UNCHANGED requests, Sent(r, reply[h].body, requests[keyOf(h)])
    PROVE  EndpointInv' /\ RowsStep
<1>1. Runs(h) /\ requests[keyOf(h)].state \in {InProgress, Cancelled} /\ policy # None
    BY InLoop, Zenon
<1>2. Expected(r.pc) = {InProgress, Cancelled} /\ r.pc \notin {"idle", "answered"}
    BY ExpectedAt, Labels, Zenon
<1>3. Own(h)
    BY Zenon DEF Own
<1>4. requests'[keyOf(h)].state \in Expected(r.pc) /\ Sent(r, reply[h].body, requests'[keyOf(h)])
    BY <1>1, <1>2, Zenon
<1> QED BY <1>1, <1>2, <1>3, <1>4, SilentStep, Zenon

\* Select starts the next attempt with no content, or leaves the loop.
LEMMA SelectStep == ASSUME EndpointInv, NEW h \in Handler, Select(h) PROVE EndpointInv' /\ RowsStep
<1>0. "select" \in Looping /\ "start" \in Looping /\ "finish" \in Looping /\ At(h, "select")
    BY Zenon DEF Looping, Select
<1>1. handler[h] \in HandlerType /\ Runs(h) /\ policy # None /\ policy \in Policies
    BY <1>0, InLoop, Parts, Zenon
<1>2. reply[h].body = <<>>
    <2>1. handler[h].pc \notin {"stream", "complete", "settle", "fail", "reconcile"}
        BY <1>0 DEF At
    <2> QED BY <1>1, <2>1, QuietBefore, Zenon
<1>3. ASSUME NEW p \in policy \ handler[h].excluded,
             handler' = [handler EXCEPT ![h].pc = "start", ![h].attempt = @ + 1, ![h].provider = p,
                                        ![h].excluded = @ \cup {p}, ![h].content = <<>>,
                                        ![h].usage = NoUsage]
      PROVE  EndpointInv' /\ RowsStep
    <2>1. p \in Provider /\ p # None
        BY <1>1, EndpointAssumption, Zenon
    <2>2. handler[h].attempt + 1 \in Nat /\ handler[h].attempt + 1 # 0 /\ <<>> \in Chunks
        <3>1. handler[h].attempt \in Nat
            BY <1>1, HandlerFields, Zenon
        <3>2. <<>> \in Chunks
            BY DEF Chunks
        <3> QED BY <3>1, <3>2
    <2>3. NoUsage \in Usage /\ handler[h].excluded \cup {p} \in SUBSET Provider /\ "start" \in Pc
        BY <1>0, <1>1, <2>1, HandlerFields, Labels, Zenon DEF Usage
    <2>4. PICK r : r = [handler[h] EXCEPT !.pc = "start", !.attempt = @ + 1, !.provider = p,
                           !.excluded = @ \cup {p}, !.content = <<>>, !.usage = NoUsage]
        BY Zenon
    <2>5. /\ r \in HandlerType /\ r.pc = "start" /\ r.key = keyOf(h) /\ r.attempt = handler[h].attempt + 1
          /\ r.provider = p /\ r.content = <<>>
        BY <1>1, <2>1, <2>2, <2>3, <2>4, Zenon DEF HandlerType, keyOf
    <2>6. handler' = [handler EXCEPT ![h] = r]
        BY <1>3, <2>4, Zenon
    <2>7. Sent(r, <<>>, requests[keyOf(h)])
        BY <2>1, <2>2, <2>5 DEF Sent
    <2> QED BY <1>0, <1>2, <2>5, <2>6, <2>7, LoopStep, Zenon DEF Select, storeVars
<1>4. ASSUME handler' = [handler EXCEPT ![h].pc = "finish", ![h].error = "noprovider"]
      PROVE  EndpointInv' /\ RowsStep
    <2>1. "noprovider" \in Error /\ "finish" \in Pc /\ "finish" \in Quiet
        BY Zenon DEF Error, Pc, Looping, Quiet
    <2>2. PICK r : r = [handler[h] EXCEPT !.pc = "finish", !.error = "noprovider"]
        BY Zenon
    <2>3. r \in HandlerType /\ r.pc = "finish" /\ r.key = keyOf(h)
        BY <1>1, <2>1, <2>2, Zenon DEF HandlerType, keyOf
    <2>4. handler' = [handler EXCEPT ![h] = r]
        BY <1>4, <2>2, Zenon
    <2>5. Sent(r, <<>>, requests[keyOf(h)])
        BY <2>1, <2>3, QuietAfter, Zenon
    <2> QED BY <1>0, <1>2, <2>3, <2>4, <2>5, LoopStep, Zenon DEF Select, storeVars
<1> QED BY <1>3, <1>4, Zenon DEF Select

\* Start records the attempt.
LEMMA StartStep == ASSUME EndpointInv, NEW h \in Handler, Start(h) PROVE EndpointInv' /\ RowsStep
<1>0. "start" \in Looping /\ "call" \in Looping /\ At(h, "start")
    BY Zenon DEF Looping, Start
<1>1. handler[h] \in HandlerType /\ handler[h].pc = "start" /\ Sent(handler[h], reply[h].body, requests[keyOf(h)])
    BY <1>0, InLoop, Zenon
<1>2. PICK r : r = [handler[h] EXCEPT !.pc = "call"]
    BY Zenon
<1>3. /\ r \in HandlerType /\ r.pc = "call" /\ r.key = keyOf(h) /\ r.attempt = handler[h].attempt
      /\ r.provider = handler[h].provider /\ r.content = handler[h].content
    BY <1>0, <1>1, <1>2, Labels, Zenon DEF HandlerType, keyOf
<1>4. Sent(r, reply[h].body, requests[keyOf(h)])
    BY <1>1, <1>3 DEF Sent
<1>5. handler' = [handler EXCEPT ![h] = r] /\ UNCHANGED <<policy, reply, requests>>
    BY <1>2, Zenon DEF Start, StartAttempt, Goto
<1> QED BY <1>0, <1>3, <1>4, <1>5, LoopStep, Zenon

\* A failing attempt has sent nothing unless it has content.
LEMMA FailsStep ==
    ASSUME EndpointInv, NEW h \in Handler, NEW pc \in {"call", "stream"}, At(h, pc),
           NEW e \in Error, NEW retryable \in BOOLEAN, Fails(h, e, retryable)
    PROVE  EndpointInv' /\ RowsStep
<1>0. pc \in Looping /\ "fail" \in Looping
    BY Zenon DEF Looping
<1>1. handler[h] \in HandlerType /\ handler[h].pc = pc /\ Sent(handler[h], reply[h].body, requests[keyOf(h)])
    BY <1>0, InLoop, Zenon
<1>2. PICK r : r = [handler[h] EXCEPT !.pc = "fail", !.error = e, !.retryable = retryable]
    BY Zenon
<1>3. r \in HandlerType /\ r.pc = "fail" /\ r.key = keyOf(h) /\ r.content = handler[h].content
    BY <1>0, <1>1, <1>2, Labels, Zenon DEF HandlerType, keyOf
<1>4. Sent(r, reply[h].body, requests[keyOf(h)])
    BY <1>1, <1>3 DEF Sent
<1>5. handler' = [handler EXCEPT ![h] = r] /\ UNCHANGED <<policy, reply, requests>>
    BY <1>2, Zenon DEF Fails, storeVars
<1> QED BY <1>0, <1>3, <1>4, <1>5, LoopStep, Zenon

\* The same for the end of the context.
LEMMA ContextEndsStep ==
    ASSUME EndpointInv, NEW h \in Handler, NEW pc \in {"call", "stream"}, At(h, pc), ContextEnds(h)
    PROVE  EndpointInv' /\ RowsStep
<1>1. PICK e \in {"deadline", "cancelled"} : Fails(h, e, FALSE)
    BY Zenon DEF ContextEnds
<1>2. e \in Error
    BY Zenon DEF Error
<1> QED BY <1>1, <1>2, FailsStep, Zenon

\* CallFails keeps the invariant.
LEMMA CallFailsStep == ASSUME EndpointInv, NEW h \in Handler, CallFails(h) PROVE EndpointInv' /\ RowsStep
<1>1. "provider" \in Error
    BY Zenon DEF Error
<1> QED BY <1>1, FailsStep, ContextEndsStep, Zenon DEF CallFails

\* StreamFails keeps the invariant.
LEMMA StreamFailsStep == ASSUME EndpointInv, NEW h \in Handler, StreamFails(h) PROVE EndpointInv' /\ RowsStep
<1>1. "provider" \in Error
    BY Zenon DEF Error
<1>2. ContextEnds(h) \/ \E retryable \in BOOLEAN : Fails(h, "provider", retryable)
    BY Zenon DEF StreamFails
<1> QED BY <1>1, <1>2, FailsStep, ContextEndsStep, Zenon DEF StreamFails

\* Chunks put together are empty only if each is.
LEMMA Concat ==
    ASSUME NEW s \in Chunks, NEW t \in Chunks
    PROVE  s \o t \in Chunks /\ (s \o t = <<>> => s = <<>>)
<1>1. s \o t \in Seq(Nat) /\ Len(s \o t) = Len(s) + Len(t) /\ Len(s) \in Nat /\ Len(t) \in Nat
    BY DEF Chunks
<1>2. s \o t = <<>> => Len(s) = 0
    BY <1>1
<1> QED BY <1>1, <1>2 DEF Chunks

\* A response that is not streamed has sent nothing yet.
LEMMA CompletesStep == ASSUME EndpointInv, NEW h \in Handler, Completes(h) PROVE EndpointInv' /\ RowsStep
<1>0. "call" \in Looping /\ "complete" \in Looping /\ At(h, "call")
    BY Zenon DEF Looping, Completes
<1>1. handler[h] \in HandlerType /\ handler[h].pc = "call" /\ Sent(handler[h], reply[h].body, requests[keyOf(h)])
    BY <1>0, InLoop, Zenon
<1>2. PICK u \in Usages : handler' = [handler EXCEPT ![h].pc = "complete", ![h].usage = u,
                                                      ![h].content = <<handler[h].attempt>>]
    BY Zenon DEF Completes
<1>3. <<handler[h].attempt>> \in Chunks
    <2>1. handler[h].attempt \in Nat
        BY <1>1, HandlerFields, Zenon
    <2> QED BY <2>1 DEF Chunks
<1>4. PICK r : r = [handler[h] EXCEPT !.pc = "complete", !.usage = u, !.content = <<handler[h].attempt>>]
    BY Zenon
<1>5. /\ r \in HandlerType /\ r.pc = "complete" /\ r.key = keyOf(h) /\ r.input = handler[h].input
      /\ r.attempt = handler[h].attempt /\ r.provider = handler[h].provider
    BY <1>0, <1>1, <1>3, <1>4, Labels, Zenon DEF HandlerType, keyOf, Usage
<1>6. Sent(r, reply[h].body, requests[keyOf(h)])
    <2>1. r.input \notin Streamed
        BY <1>5, Zenon DEF Completes, isStream
    <2> QED BY <1>1, <1>5, <2>1 DEF Sent
<1>7. handler' = [handler EXCEPT ![h] = r] /\ UNCHANGED <<policy, reply, requests>>
    BY <1>2, <1>4, Zenon DEF Completes, storeVars
<1> QED BY <1>0, <1>5, <1>6, <1>7, LoopStep, Zenon

\* The stream opens, and ends with [DONE].
LEMMA StreamLabel ==
    ASSUME EndpointInv, NEW h \in Handler, NEW from, NEW to, At(h, from), Goto(h, to), UNCHANGED requests,
           \/ from = "call" /\ to = "stream" /\ isStream(h)
           \/ from = "stream" /\ to = "complete"
    PROVE  EndpointInv' /\ RowsStep
<1>1. from \in Looping /\ to \in Looping
    BY Zenon DEF Looping
<1>2. handler[h] \in HandlerType /\ handler[h].pc = from /\ Sent(handler[h], reply[h].body, requests[keyOf(h)])
    BY <1>1, InLoop, Zenon
<1>3. PICK r : r = [handler[h] EXCEPT !.pc = to]
    BY Zenon
<1>4. /\ r \in HandlerType /\ r.pc = to /\ r.key = keyOf(h) /\ r.input = handler[h].input
      /\ r.attempt = handler[h].attempt /\ r.provider = handler[h].provider /\ r.content = handler[h].content
    BY <1>1, <1>2, <1>3, Labels, Zenon DEF HandlerType, keyOf
<1>5. Sent(r, reply[h].body, requests[keyOf(h)])
    BY <1>2, <1>4 DEF Sent, isStream
<1>6. handler' = [handler EXCEPT ![h] = r] /\ UNCHANGED <<policy, reply>>
    BY <1>3, Zenon DEF Goto
<1> QED BY <1>1, <1>4, <1>5, <1>6, LoopStep, Zenon

\* Opens and StreamDone keep the invariant.
LEMMA StreamStep ==
    ASSUME EndpointInv, NEW h \in Handler, Opens(h) \/ StreamDone(h)
    PROVE  EndpointInv' /\ RowsStep
BY StreamLabel, Zenon DEF Opens, StreamDone, storeVars

\* UsageEvent changes the usage only.
LEMMA UsageEventStep == ASSUME EndpointInv, NEW h \in Handler, UsageEvent(h) PROVE EndpointInv' /\ RowsStep
<1>0. "stream" \in Looping /\ At(h, "stream")
    BY Zenon DEF Looping, UsageEvent
<1>1. handler[h] \in HandlerType /\ handler[h].pc = "stream" /\ Sent(handler[h], reply[h].body, requests[keyOf(h)])
    BY <1>0, InLoop, Zenon
<1>2. PICK u \in Usages : handler' = [handler EXCEPT ![h].usage = u]
    BY Zenon DEF UsageEvent
<1>3. PICK r : r = [handler[h] EXCEPT !.usage = u]
    BY Zenon
<1>4. /\ r \in HandlerType /\ r.pc = "stream" /\ r.key = keyOf(h) /\ r.input = handler[h].input
      /\ r.attempt = handler[h].attempt /\ r.provider = handler[h].provider /\ r.content = handler[h].content
    BY <1>1, <1>3, Zenon DEF HandlerType, keyOf, Usage
<1>5. Sent(r, reply[h].body, requests[keyOf(h)])
    BY <1>1, <1>4 DEF Sent
<1>6. handler' = [handler EXCEPT ![h] = r] /\ UNCHANGED <<policy, reply, requests>>
    BY <1>2, <1>3, Zenon DEF UsageEvent, storeVars
<1> QED BY <1>0, <1>4, <1>5, <1>6, LoopStep, Zenon

\* The chunk is counted, and reaches the client or does not.
LEMMA EmitStep ==
    ASSUME EndpointInv, NEW h \in Handler, At(h, "stream"), NEW chunk \in Chunks, Emit(h, chunk)
    PROVE  EndpointInv' /\ RowsStep
<1>0. "stream" \in Looping /\ "fail" \in Looping /\ "provider" \in Error
    BY DEF Looping, Error
<1>9. PICK code \in Nat : code = 200
    OBVIOUS
<1>1. /\ handler[h] \in HandlerType /\ handler[h].pc = "stream"
      /\ Sent(handler[h], reply[h].body, requests[keyOf(h)])
      /\ reply[h] \in ReplyType /\ reply[h].end = "open" /\ reply[h].error = ""
      /\ Runs(h) /\ requests[keyOf(h)].state \in {InProgress, Cancelled} /\ policy # None
    BY <1>0, InLoop, Zenon
<1>2. reply[h].body = handler[h].content /\ handler[h].content \in Chunks /\ handler[h].input \in Streamed
    BY <1>1, HandlerFields, Zenon DEF Sent
<1>3. handler[h].content \o chunk \in Chunks /\ (handler[h].content \o chunk = <<>> => handler[h].content = <<>>)
    BY <1>2, Concat, Zenon
<1>4. UNCHANGED <<policy, requests>> /\ Own(h)
    BY Zenon DEF Emit, storeVars, Own
<1>5. \A pc \in {"stream", "fail"} : Expected(pc) = {InProgress, Cancelled} /\ pc \notin {"idle", "answered"}
    BY <1>0, ExpectedAt, Labels, Zenon
<1>6. ASSUME handler' = [handler EXCEPT ![h].content = @ \o chunk],
             reply' = [reply EXCEPT ![h].code = code, ![h].sse = TRUE, ![h].body = @ \o chunk]
      PROVE  EndpointInv' /\ RowsStep
    <2>1. PICK r : r = [handler[h] EXCEPT !.content = @ \o chunk]
        BY Zenon
    <2>2. PICK p : p = [reply[h] EXCEPT !.code = code, !.sse = TRUE, !.body = @ \o chunk]
        BY Zenon
    <2>3. /\ r \in HandlerType /\ r.pc = "stream" /\ r.key = keyOf(h) /\ r.input = handler[h].input
          /\ r.attempt = handler[h].attempt /\ r.provider = handler[h].provider
          /\ r.content = handler[h].content \o chunk
        BY <1>1, <1>3, <2>1, Zenon DEF HandlerType, keyOf
    <2>4. /\ p \in ReplyType /\ p.end = "open" /\ p.error = ""
          /\ p.body = handler[h].content \o chunk
        BY <1>0, <1>1, <1>2, <1>3, <2>2, Zenon DEF ReplyType
    <2>5. Only(h, r, p)
        BY <1>4, <1>6, <2>1, <2>2, <2>3, <2>4, Zenon DEF Only
    <2>6. Sent(r, p.body, requests[keyOf(h)])
        BY <1>1, <1>2, <2>3, <2>4, Zenon DEF Sent
    <2> QED BY <1>1, <1>4, <1>5, <2>3, <2>4, <2>5, <2>6, GoesOn, ZenonT(40)
<1>7. ASSUME handler' = [handler EXCEPT ![h].content = @ \o chunk, ![h].pc = "fail",
                                        ![h].error = "provider", ![h].retryable = FALSE],
             reply' = [reply EXCEPT ![h].code = code, ![h].sse = TRUE]
      PROVE  EndpointInv' /\ RowsStep
    <2>1. PICK r : r = [handler[h] EXCEPT !.content = @ \o chunk, !.pc = "fail", !.error = "provider",
                                         !.retryable = FALSE]
        BY Zenon
    <2>2. PICK p : p = [reply[h] EXCEPT !.code = code, !.sse = TRUE]
        BY Zenon
    <2>3. /\ r \in HandlerType /\ r.pc = "fail" /\ r.key = keyOf(h)
          /\ r.content = handler[h].content \o chunk
        BY <1>0, <1>1, <1>3, <2>1, Labels, Zenon DEF HandlerType, keyOf
    <2>4. p \in ReplyType /\ p.end = "open" /\ p.error = "" /\ p.body = reply[h].body
        BY <1>0, <1>1, <2>2, Zenon DEF ReplyType
    <2>5. Only(h, r, p)
        BY <1>4, <1>7, <2>1, <2>2, <2>3, <2>4, Zenon DEF Only
    <2>6. Sent(r, p.body, requests[keyOf(h)])
        BY <1>2, <1>3, <2>3, <2>4, Zenon DEF Sent
    <2> QED BY <1>1, <1>4, <1>5, <2>3, <2>4, <2>5, <2>6, GoesOn, ZenonT(40)
<1> QED BY <1>6, <1>7, <1>9, Zenon DEF Emit

\* ChunkEvent fails the attempt or emits the chunk.
LEMMA ChunkEventStep == ASSUME EndpointInv, NEW h \in Handler, ChunkEvent(h) PROVE EndpointInv' /\ RowsStep
<1>1. "provider" \in Error /\ At(h, "stream") /\ handler[h].attempt \in Nat
    BY Parts, HandlerFields, Zenon DEF Error, ChunkEvent
<1>2. <<>> \in Chunks /\ <<handler[h].attempt>> \in Chunks
    BY <1>1 DEF Chunks
<1>3. Fails(h, "provider", FALSE) \/ \E chunk \in Chunks : Emit(h, chunk)
    BY <1>2, Zenon DEF ChunkEvent
<1> QED BY <1>1, <1>3, FailsStep, EmitStep, Zenon

------------------------------------------------------------------------------
(* The end of an attempt *)

\* The provider of a completed attempt has prices.
LEMMA ActualCost ==
    ASSUME EndpointInv, NEW h \in Handler, At(h, "complete")
    PROVE  actual(h) \in Costs
<1>1. "complete" \in Looping
    BY Zenon DEF Looping
<1>2. handler[h] \in HandlerType /\ handler[h].pc = "complete" /\ Sent(handler[h], reply[h].body, requests[keyOf(h)])
    BY <1>1, InLoop, Zenon
<1>3. handler[h].provider \in Provider /\ handler[h].usage \in Usage
    BY <1>2, HandlerFields, Zenon DEF Sent
<1> QED BY <1>3 DEF actual, Costs

\* Complete stores what was emitted, or the call ends with an error.
LEMMA CompleteStep == ASSUME EndpointInv, NEW h \in Handler, Complete(h) PROVE EndpointInv' /\ RowsStep
<1>0. "complete" \in Looping /\ At(h, "complete") /\ {"alreadyfinal", "unpriced"} \subseteq Error
    BY Zenon DEF Looping, Complete, Error
<1>1. /\ handler[h] \in HandlerType /\ handler[h].pc = "complete" /\ keyOf(h) \in Key /\ Rows
      /\ Sent(handler[h], reply[h].body, requests[keyOf(h)])
      /\ Runs(h) /\ requests[keyOf(h)].state \in {InProgress, Cancelled} /\ policy # None
    BY <1>0, InLoop, Zenon
<1>2. ASSUME CompleteRequest(keyOf(h), handler[h].attempt, handler[h].content, actual(h)), Goto(h, "settle")
      PROVE  EndpointInv' /\ RowsStep
    <2>1. PICK row \in RowType : /\ Writes(keyOf(h), row) /\ row.state = Completed
                                 /\ row.response = handler[h].content
        BY <1>0, <1>1, <1>2, ActualCost, HandlerFields, CompleteWrites, Zenon
    <2>2. requests'[keyOf(h)] = row
        BY <1>1, <2>1, WriteKeeps, Zenon
    <2>3. Own(h)
        BY <1>1, <2>1, Zenon DEF Own
    <2>4. "settle" \in Pc \ {"idle", "answered"} /\ Expected("settle") = {Completed}
        BY Labels, ExpectedAt, Zenon
    <2>5. \A r \in HandlerType :
            r = [handler[h] EXCEPT !.pc = "settle"] => Sent(r, reply[h].body, requests'[keyOf(h)])
        <3> SUFFICES ASSUME NEW r \in HandlerType, r = [handler[h] EXCEPT !.pc = "settle"]
                     PROVE  Sent(r, reply[h].body, requests'[keyOf(h)])
            BY Zenon
        <3>1. /\ r.pc = "settle" /\ r.input = handler[h].input /\ r.content = handler[h].content
              /\ r.attempt = handler[h].attempt /\ r.provider = handler[h].provider
            BY <1>1, Zenon DEF HandlerType
        <3> QED BY <1>1, <2>1, <2>2, <3>1 DEF Sent
    <2> QED BY <1>1, <1>2, <2>1, <2>2, <2>3, <2>4, <2>5, GotoStep, Zenon
<1>3. ASSUME state(keyOf(h)) # InProgress, UNCHANGED storeVars, ReturnError(h, "alreadyfinal")
      PROVE  EndpointInv' /\ RowsStep
    BY <1>0, <1>1, <1>3, CancelledStep, Zenon DEF state, storeVars
<1>4. ASSUME UNCHANGED storeVars, ReturnError(h, "unpriced")
      PROVE  EndpointInv' /\ RowsStep
    <2>1. Own(h)
        BY <1>4, Zenon DEF Own, storeVars
    <2> QED BY <1>0, <1>1, <1>4, <2>1, ReturnErrorStep, Zenon
<1> QED BY <1>2, <1>3, <1>4, Zenon DEF Complete

\* A written outcome.
LEMMA OutcomeReply ==
    ASSUME EndpointInv, NEW h \in Handler, NEW i, NEW content \in MaybeChunks,
           writeOutcome(h, i, content)
    PROVE  \E p \in ReplyType :
             /\ reply' = [reply EXCEPT ![h] = p] /\ p.error = reply[h].error
             /\ i \in Streamed => p.body = reply[h].body
             /\ i \notin Streamed => p.body = content
<1>0. reply[h] \in ReplyType /\ 200 \in Nat
    BY Parts
<1>1. CASE i \in Streamed
    <2> DEFINE p == [reply[h] EXCEPT !.code = 200, !.sse = TRUE, !.end = "done"]
    <2>1. p \in ReplyType /\ p.error = reply[h].error /\ p.body = reply[h].body
        BY <1>0, ZenonT(40) DEF ReplyType
    <2>2. reply' = [reply EXCEPT ![h] = p]
        BY <1>1, Zenon DEF writeOutcome
    <2> HIDE DEF p
    <2> QED BY <1>1, <2>1, <2>2, Zenon
<1>2. CASE i \notin Streamed
    <2> DEFINE p == [reply[h] EXCEPT !.code = 200, !.body = content, !.end = "json"]
    <2>1. p \in ReplyType /\ p.error = reply[h].error /\ p.body = content
        BY <1>0, ZenonT(40) DEF ReplyType, MaybeChunks
    <2>2. reply' = [reply EXCEPT ![h] = p]
        BY <1>2, Zenon DEF writeOutcome
    <2> HIDE DEF p
    <2> QED BY <1>2, <2>1, <2>2, Zenon
<1> QED BY <1>1, <1>2, Zenon

\* Settle tells the client what the record says.
LEMMA SettleStep == ASSUME EndpointInv, NEW h \in Handler, Settle(h) PROVE EndpointInv' /\ RowsStep
<1>0. "settle" \in Pc \ {"idle", "answered"} /\ At(h, "settle") /\ Expected("settle") = {Completed}
    BY Labels, ExpectedAt, Zenon DEF Settle
<1>1. /\ Runs(h) /\ keyOf(h) \in Key /\ requests[keyOf(h)].state = Completed
      /\ Sent(handler[h], reply[h].body, requests[keyOf(h)])
      /\ handler[h] \in HandlerType /\ handler[h].pc = "settle" /\ reply[h].error = ""
    BY <1>0, At0, Zenon
<1>2. /\ reply[h].body = IF handler[h].input \in Streamed THEN handler[h].content ELSE <<>>
      /\ requests[keyOf(h)].response = handler[h].content /\ handler[h].attempt # 0
      /\ handler[h].content \in MaybeChunks
    BY <1>1, HandlerFields, Zenon DEF Sent, MaybeChunks
<1>3. PICK p \in ReplyType :
         /\ reply' = [reply EXCEPT ![h] = p] /\ p.error = reply[h].error
         /\ handler[h].input \in Streamed => p.body = reply[h].body
         /\ handler[h].input \notin Streamed => p.body = handler[h].content
    <2>1. writeOutcome(h, handler[h].input, handler[h].content)
        BY Zenon DEF Settle
    <2> QED BY <1>2, <2>1, OutcomeReply, Zenon
<1>4. PICK r : r = Answered(keyOf(h), handler[h].input, handler[h].attempt)
    BY Zenon
<1>5. /\ r \in HandlerType /\ r.pc = "answered" /\ r.key = keyOf(h) /\ r.attempt = handler[h].attempt
    BY <1>1, <1>4, AnsweredCall, Zenon
<1>6. Only(h, r, p) /\ UNCHANGED requests
    BY <1>3, <1>4, <1>5, Zenon DEF Only, Settle, Answer, Leave, Answered, ReconcileBudget
<1>7. Own(h)
    BY <1>6, Zenon DEF Own
<1>8. p.body = handler[h].content
    BY <1>2, <1>3, Zenon
<1>9. DoneTrue(r, p, requests'[r.key])
    BY <1>1, <1>2, <1>5, <1>6, <1>8, Zenon DEF DoneTrue
<1>10. ErrorFinal(p, requests'[r.key])
    BY <1>1, <1>3, Zenon DEF ErrorFinal
<1> QED BY <1>1, <1>5, <1>6, <1>7, <1>9, <1>10, Ends, Zenon

\* The call reaches "reconcile": its request has failed, or was cancelled before.
LEMMA ToReconcile ==
    ASSUME EndpointInv, NEW h \in Handler, NEW pc \in {"fail", "finish"}, At(h, pc), Goto(h, "reconcile"),
           NEW p \in BOOLEAN, reply[h].body # <<>> => p,
           \/ \E c \in Category \ {""} : FailAttempt(keyOf(h), c, p, TRUE)
           \/ state(keyOf(h)) # InProgress /\ UNCHANGED storeVars
    PROVE  EndpointInv' /\ RowsStep
<1>0. pc \in Looping /\ "reconcile" \in Pc \ {"idle", "answered"} /\ Expected("reconcile") = {Failed, Cancelled}
    BY Labels, ExpectedAt, Zenon DEF Looping
<1>1. /\ handler[h] \in HandlerType /\ keyOf(h) \in Key /\ Rows
      /\ Runs(h) /\ requests[keyOf(h)].state \in {InProgress, Cancelled} /\ policy # None
    BY <1>0, InLoop, Zenon
<1>2. /\ Own(h) /\ requests'[keyOf(h)].state \in {Failed, Cancelled}
      /\ requests'[keyOf(h)].state = Failed => requests'[keyOf(h)].partial = p
    <2>1. ASSUME NEW c \in Category \ {""}, FailAttempt(keyOf(h), c, p, TRUE)
          PROVE  /\ Own(h) /\ requests'[keyOf(h)].state \in {Failed, Cancelled}
                 /\ requests'[keyOf(h)].state = Failed => requests'[keyOf(h)].partial = p
        <3>1. PICK row \in RowType : Writes(keyOf(h), row) /\ row.state = Failed /\ row.partial = p
            BY <1>1, <2>1, FailWrites, Zenon
        <3>2. requests'[keyOf(h)] = row
            BY <1>1, <3>1, WriteKeeps, Zenon
        <3> QED BY <1>1, <3>1, <3>2, Zenon DEF Own
    <2>2. CASE state(keyOf(h)) # InProgress /\ UNCHANGED storeVars
        <3>1. UNCHANGED requests /\ requests[keyOf(h)].state = Cancelled
            BY <1>1, <2>2, Zenon DEF state, storeVars
        <3> QED BY <3>1, StatesDiffer, Zenon DEF Own
    <2> QED BY <2>1, <2>2, Zenon
<1>3. \A r \in HandlerType :
        r = [handler[h] EXCEPT !.pc = "reconcile"] => Sent(r, reply[h].body, requests'[keyOf(h)])
    <2> SUFFICES ASSUME NEW r \in HandlerType, r = [handler[h] EXCEPT !.pc = "reconcile"]
                 PROVE  Sent(r, reply[h].body, requests'[keyOf(h)])
        BY Zenon
    <2>1. r.pc = "reconcile"
        BY <1>1, Zenon DEF HandlerType
    <2> QED BY <1>2, <2>1, Zenon DEF Sent
<1>4. "reconcile" \notin {"received", "admit", "refuse"} => policy # None
    BY <1>1, Zenon
<1>5. requests'[keyOf(h)].state \in Expected("reconcile")
    BY <1>0, <1>2, Zenon
<1> QED BY <1>0, <1>1, <1>2, <1>3, <1>4, <1>5, GotoStep, Zenon

\* errorCategory always gives a category.
LEMMA Categories == \A e : errorCategory(e) \in Category \ {""}
BY Zenon DEF errorCategory, Category

\* Fail retries only what has sent nothing, and marks the rest partial.
LEMMA FailStep == ASSUME EndpointInv, NEW h \in Handler, Fail(h) PROVE EndpointInv' /\ RowsStep
<1>0. {"fail", "backoff"} \subseteq Looping /\ At(h, "fail") /\ "alreadyfinal" \in Error /\ "backoff" \in Quiet
    BY Zenon DEF Looping, Fail, Error, Quiet
<1>1. /\ handler[h] \in HandlerType /\ handler[h].pc = "fail" /\ keyOf(h) \in Key /\ Rows
      /\ Sent(handler[h], reply[h].body, requests[keyOf(h)])
      /\ Runs(h) /\ requests[keyOf(h)].state \in {InProgress, Cancelled} /\ policy # None
    BY <1>0, InLoop, Zenon
<1>2. handler[h].content = <<>> => reply[h].body = <<>>
    BY <1>1, Zenon DEF Sent
<1>3. CASE Retries(h) /\ Goto(h, "backoff") /\ UNCHANGED requests
    <2>1. PICK r : r = [handler[h] EXCEPT !.pc = "backoff"]
        BY Zenon
    <2>2. r \in HandlerType /\ r.pc = "backoff" /\ r.key = keyOf(h)
        BY <1>0, <1>1, <2>1, Labels, Zenon DEF HandlerType, keyOf
    <2>3. reply[h].body = <<>>
        BY <1>2, <1>3, Zenon DEF Retries
    <2>4. Sent(r, <<>>, requests[keyOf(h)])
        BY <1>0, <2>2, QuietAfter, Zenon
    <2> QED BY <1>0, <1>3, <2>1, <2>2, <2>3, <2>4, LoopStep, Zenon DEF Goto
<1>4. CASE /\ FailAttempt(keyOf(h), errorCategory(handler[h].error), handler[h].content # <<>>, TRUE)
           /\ Goto(h, "reconcile")
    <2>1. PICK p \in BOOLEAN : p <=> handler[h].content # <<>>
        BY Zenon
    <2>2. FailAttempt(keyOf(h), errorCategory(handler[h].error), p, TRUE)
        <3>1. p = (handler[h].content # <<>>)
            BY <2>1
        <3> QED BY <1>4, <3>1, Zenon
    <2>3. reply[h].body # <<>> => p
        BY <1>2, <2>1, Zenon
    <2>4. \E c \in Category \ {""} : FailAttempt(keyOf(h), c, p, TRUE)
        BY <2>2, Categories, Zenon
    <2> QED BY <1>0, <1>4, <2>3, <2>4, ToReconcile, Zenon
<1>5. CASE state(keyOf(h)) # InProgress /\ UNCHANGED storeVars /\ ReturnError(h, "alreadyfinal")
    BY <1>0, <1>1, <1>5, CancelledStep, Zenon DEF state, storeVars
<1>6. CASE /\ FailAttempt(keyOf(h), errorCategory(handler[h].error), handler[h].content # <<>>, ~Retries(h))
           /\ Goto(h, IF Retries(h) THEN "backoff" ELSE "reconcile")
    <2>1. CASE Retries(h)
        <3>1. UNCHANGED requests /\ Goto(h, "backoff")
            BY <1>6, <2>1, Zenon DEF FailAttempt
        <3> QED BY <1>3, <2>1, <3>1, Zenon
    <2>2. CASE ~Retries(h)
        <3>1. ~Retries(h) = TRUE
            BY <2>2
        <3> QED BY <1>4, <1>6, <2>2, <3>1, Zenon
    <2> QED BY <2>1, <2>2, Zenon
<1> QED BY <1>5, <1>6, Zenon DEF Fail

\* Backoff goes on to the next attempt or leaves the loop.
LEMMA BackoffStep == ASSUME EndpointInv, NEW h \in Handler, Backoff(h) PROVE EndpointInv' /\ RowsStep
<1>0. /\ {"select", "backoff", "finish"} \subseteq Looping /\ {"select", "finish"} \subseteq Quiet
      /\ At(h, "backoff") /\ "cancelled" \in Error /\ UNCHANGED <<requests, policy, reply>>
    BY Zenon DEF Looping, Backoff, Error, Quiet, storeVars
<1>1. handler[h] \in HandlerType /\ handler[h].pc = "backoff" /\ Runs(h)
    BY <1>0, InLoop, Zenon
<1>2. reply[h].body = <<>>
    <2>1. handler[h].pc \notin {"stream", "complete", "settle", "fail", "reconcile"}
        BY <1>1
    <2> QED BY <1>1, <2>1, QuietBefore, Zenon
<1>3. PICK r : /\ handler' = [handler EXCEPT ![h] = r]
               /\ \/ r = [handler[h] EXCEPT !.pc = "select"]
                  \/ r = [handler[h] EXCEPT !.pc = "finish", !.error = "cancelled"]
    BY Zenon DEF Backoff
<1>4. r \in HandlerType /\ r.pc \in {"select", "finish"} /\ r.key = keyOf(h)
    <2>1. {"select", "finish"} \subseteq Pc
        BY <1>0, Labels, Zenon
    <2>2. CASE r = [handler[h] EXCEPT !.pc = "select"]
        BY <1>1, <2>1, <2>2, Zenon DEF HandlerType, keyOf
    <2>3. CASE r = [handler[h] EXCEPT !.pc = "finish", !.error = "cancelled"]
        BY <1>0, <1>1, <2>1, <2>3, Zenon DEF HandlerType, keyOf
    <2> QED BY <1>3, <2>2, <2>3, Zenon
<1>5. Sent(r, <<>>, requests[keyOf(h)])
    BY <1>0, <1>4, QuietAfter, Zenon
<1> QED BY <1>0, <1>2, <1>3, <1>4, <1>5, LoopStep, Zenon

\* Finish fails a request whose attempts have sent nothing.
LEMMA FinishStep == ASSUME EndpointInv, NEW h \in Handler, Finish(h) PROVE EndpointInv' /\ RowsStep
<1>0. "finish" \in Looping /\ At(h, "finish") /\ Goto(h, "reconcile")
    BY Zenon DEF Looping, Finish
<1>1. handler[h].pc = "finish" /\ Runs(h)
    BY <1>0, InLoop, Zenon
<1>2. reply[h].body = <<>>
    <2>1. handler[h].pc \notin {"stream", "complete", "settle", "fail", "reconcile"}
        BY <1>1
    <2> QED BY <1>1, <2>1, QuietBefore, Zenon
<1>3. \/ \E c \in Category \ {""} : FailAttempt(keyOf(h), c, FALSE, TRUE)
      \/ state(keyOf(h)) # InProgress /\ UNCHANGED storeVars
    BY Categories, Zenon DEF Finish
<1> QED BY <1>0, <1>2, <1>3, ToReconcile, Zenon

\* Reconcile tells the client of a request that is final.
LEMMA ReconcileStep == ASSUME EndpointInv, NEW h \in Handler, Reconcile(h) PROVE EndpointInv' /\ RowsStep
<1>0. "reconcile" \in Pc \ {"idle", "answered"} /\ At(h, "reconcile") /\ Expected("reconcile") = {Failed, Cancelled}
    BY Labels, ExpectedAt, Zenon DEF Reconcile
<1>1. /\ Runs(h) /\ keyOf(h) \in Key /\ requests[keyOf(h)].state \in {Failed, Cancelled}
      /\ RowInv(requests[keyOf(h)]) /\ Sent(handler[h], reply[h].body, requests[keyOf(h)])
      /\ handler[h] \in HandlerType /\ handler[h].pc = "reconcile"
    BY <1>0, At0, Zenon
<1>2. UNCHANGED requests /\ ReturnError(h, handler[h].error) /\ handler[h].error \in Error
    BY <1>1, HandlerFields, Zenon DEF Reconcile, ReconcileBudget
<1>3. /\ requests[keyOf(h)].state \in Final \ {Completed} /\ requests[keyOf(h)].cost = 0
      /\ requests[keyOf(h)].state = Failed /\ reply[h].body # <<>> => requests[keyOf(h)].partial
    BY <1>1, StatesDiffer, Zenon DEF RowInv, Sent
<1>4. Own(h)
    BY <1>2, Zenon DEF Own
<1> QED BY <1>1, <1>2, <1>3, <1>4, ReturnErrorStep, Zenon

------------------------------------------------------------------------------
(* A call is made, repeated, cancelled or left by its client *)

\* Nothing is known of a call before it is made.
LEMMA IdleCall ==
    ASSUME EndpointInv, NEW h \in Handler, At(h, "idle")
    PROVE  /\ ~Runs(h) /\ handler[h] \in HandlerType /\ handler[h].attempt = 0 /\ handler[h].pc = "idle"
           /\ reply[h] \in ReplyType
           /\ reply[h].body = <<>> /\ reply[h].end = "open" /\ reply[h].error = ""
<1>1. handler[h].pc = "idle" /\ "idle" # "answered"
    BY DEF At
<1> QED BY <1>1, Parts, Zenon DEF AnswerInv, Runs

\* BadRequest answers without a request.
LEMMA BadRequestStep == ASSUME EndpointInv, NEW h \in Handler, BadRequest(h) PROVE EndpointInv' /\ RowsStep
<1>1. /\ handler[h] \in HandlerType /\ "invalid" \in Error /\ UNCHANGED requests /\ Own(h)
      /\ ReturnError(h, "invalid")
    BY Parts, Zenon DEF Error, BadRequest, storeVars, Own
<1>2. PICK r : r = Answered(keyOf(h), handler[h].input, handler[h].attempt)
    BY Zenon
<1>3. r \in HandlerType /\ r.pc = "answered"
    BY <1>1, <1>2, AnsweredCall, Zenon
<1>4. PICK p \in ReplyType : /\ reply' = [reply EXCEPT ![h] = p]
                             /\ p.error = "invalid" /\ p.end \notin {"done", "json"} /\ p.body = reply[h].body
    BY <1>1, ErrorReply, Zenon DEF ReturnError
<1>5. Only(h, r, p)
    BY <1>1, <1>2, <1>3, <1>4, Zenon DEF Only, ReturnError, Answer, Leave, Answered
<1>6. DoneTrue(r, p, requests'[r.key])
    BY <1>4, Zenon DEF DoneTrue
<1>7. ErrorFinal(p, requests'[r.key])
    BY <1>4, Zenon DEF ErrorFinal
<1> QED BY <1>1, <1>3, <1>4, <1>5, <1>6, <1>7, Ends, Zenon

\* Repeat tells the client what the record says, and changes nothing.
LEMMA RepeatStep ==
    ASSUME EndpointInv, NEW h \in Handler, NEW k \in Key, NEW i \in Body, Repeat(h, k, i)
    PROVE  EndpointInv' /\ RowsStep
<1>0. At(h, "idle") /\ UNCHANGED requests /\ Own(h) /\ Leave(h, k, i) /\ requests[k] \in RowType
    BY Zenon DEF Repeat, storeVars, Own, EndpointInv, TypeOK
<1>1. /\ handler[h].attempt = 0 /\ reply[h] \in ReplyType
      /\ reply[h].body = <<>> /\ reply[h].end = "open" /\ reply[h].error = ""
    BY <1>0, IdleCall, Zenon
<1>2. PICK r : r = Answered(k, i, handler[h].attempt)
    BY Zenon
<1>3. r \in HandlerType /\ r.pc = "answered" /\ r.key = k /\ r.input = i /\ r.attempt = 0
    <2>1. k \in MaybeKey /\ i \in MaybeBody /\ handler[h].attempt \in Nat
        BY Parts, HandlerFields, Zenon DEF MaybeKey, MaybeBody
    <2>2. r \in HandlerType /\ r.pc = "answered" /\ r.key = k /\ r.input = i /\ r.attempt = handler[h].attempt
        BY <1>2, <2>1, AnsweredRecord
    <2> QED BY <1>1, <2>2, Zenon
<1>4. handler' = [handler EXCEPT ![h] = r] /\ UNCHANGED policy
    BY <1>0, <1>2, Zenon DEF Leave, Answered
<1>5. \A p \in ReplyType : reply' = [reply EXCEPT ![h] = p] => Only(h, r, p)
    BY <1>3, <1>4, Zenon DEF Only
<1>6. CASE writeError(h, "conflict")
    <2>1. "conflict" \in Error
        BY Zenon DEF Error
    <2>2. PICK p \in ReplyType : /\ reply' = [reply EXCEPT ![h] = p]
                                 /\ p.error = "conflict" /\ p.end \notin {"done", "json"}
        BY <1>6, <2>1, ErrorReply, Zenon
    <2>3. DoneTrue(r, p, requests'[r.key])
        BY <2>2, Zenon DEF DoneTrue
    <2>4. ErrorFinal(p, requests'[r.key])
        BY <2>2, Zenon DEF ErrorFinal
    <2> QED BY <1>0, <1>3, <1>5, <2>2, <2>3, <2>4, Ends, Zenon
<1>7. CASE writePending(h)
    <2>0. PICK code \in Nat : code = 202
        OBVIOUS
    <2>1. reply' = [reply EXCEPT ![h] = [reply[h] EXCEPT !.code = code, !.end = "json"]]
        BY <1>7, <2>0, ZenonT(40) DEF writePending
    <2>2. PICK p : p = [reply[h] EXCEPT !.code = code, !.end = "json"]
        BY Zenon
    <2>3. p \in ReplyType /\ p.code = code /\ p.error = ""
        BY <1>1, <2>2, Zenon DEF ReplyType
    <2>4. Only(h, r, p)
        BY <1>5, <2>1, <2>2, <2>3, Zenon
    <2>5. DoneTrue(r, p, requests'[r.key])
        <3>1. p.code # 200
            <4>1. p.code = 202
                BY <2>0, <2>3, Zenon
            <4> QED BY <4>1
        <3> QED BY <3>1, Zenon DEF DoneTrue
    <2>6. ErrorFinal(p, requests'[r.key])
        BY <2>3, Zenon DEF ErrorFinal
    <2> QED BY <1>0, <1>3, <2>4, <2>5, <2>6, Ends, Zenon
<1>8. CASE state(k) = Completed /\ writeOutcome(h, i, requests[k].response)
    <2>1. requests[k].response \in MaybeChunks
        BY <1>0, RowFields, Zenon DEF MaybeChunks
    <2>2. PICK p \in ReplyType : /\ reply' = [reply EXCEPT ![h] = p] /\ p.error = reply[h].error
                                 /\ i \in Streamed => p.body = reply[h].body
                                 /\ i \notin Streamed => p.body = requests[k].response
        BY <1>8, <2>1, OutcomeReply, Zenon
    <2>3. DoneTrue(r, p, requests'[r.key])
        BY <1>0, <1>1, <1>3, <1>8, <2>2, Zenon DEF DoneTrue, state
    <2>4. p.error = "" /\ Only(h, r, p)
        BY <1>1, <1>5, <2>2, Zenon
    <2>5. ErrorFinal(p, requests'[r.key])
        BY <2>4, Zenon DEF ErrorFinal
    <2> QED BY <1>0, <1>3, <2>3, <2>4, <2>5, Ends, Zenon
<1> QED BY <1>6, <1>7, <1>8, Zenon DEF Repeat

\* Submit gives a new request its only call.
LEMMA SubmitStep ==
    ASSUME EndpointInv, NEW h \in Handler, NEW k \in Key, NEW i \in Body, Submit(h, k, i)
    PROVE  EndpointInv' /\ RowsStep
<1>0. At(h, "idle") /\ CreateRequest(k, i) /\ Rows /\ state(k) = Absent
    BY Parts, Zenon DEF Submit, CreateRequest
<1>1. /\ ~Runs(h) /\ handler[h] \in HandlerType /\ reply[h] \in ReplyType
      /\ reply[h].body = <<>> /\ reply[h].end = "open" /\ reply[h].error = ""
    BY <1>0, IdleCall, Zenon
<1>2. PICK row : row = Record(Received, i)
    BY Zenon
<1>3. row \in RowType /\ Writes(k, row) /\ row.state = Received
    BY <1>0, <1>2, CreateWrites, Zenon DEF Record
<1>4. /\ Rows' /\ requests'[k] = row /\ RowsStep
    BY <1>0, <1>3, WriteKeeps, Zenon DEF RowsStep
<1>5. PICK r : r = [handler[h] EXCEPT !.pc = "received", !.key = k, !.input = i]
    BY Zenon
<1>6. r \in HandlerType /\ r.pc = "received" /\ r.key = k /\ r.input = i
    BY <1>1, <1>5, Labels, Zenon DEF HandlerType
<1>7. Only(h, r, reply[h])
    <2>1. handler' = [handler EXCEPT ![h] = r]
        BY <1>5, Zenon DEF Submit
    <2>2. reply' = [reply EXCEPT ![h] = reply[h]]
        BY Zenon DEF Submit, EndpointInv, TypeOK
    <2> QED BY <1>1, <1>6, <2>1, <2>2, Zenon DEF Only, Submit
<1>8. /\ handler' \in [Handler -> HandlerType] /\ reply' \in [Handler -> ReplyType]
      /\ policy' \in Policies /\ policy' = policy
      /\ handler'[h] = r /\ reply'[h] = reply[h]
      /\ \A g \in Handler \ {h} : handler'[g] = handler[g] /\ reply'[g] = reply[g]
    BY <1>7, OnlyOne, Zenon
<1>9. \A g \in Handler : Runs(g) => keyOf(g) # k
    <2> SUFFICES ASSUME NEW g \in Handler, Runs(g), keyOf(g) = k PROVE FALSE
        BY Zenon
    <2>1. Absent \in Expected(handler[g].pc)
        BY <1>0, Parts, Zenon DEF RunInv, state
    <2>2. \A pc : Absent \notin Expected(pc)
        BY DEF Expected, Absent, Received, Validated, Routing, InProgress, Completed, Failed, Cancelled
    <2> QED BY <2>1, <2>2, Zenon
<1>10. \A g \in Handler \ {h} : RunInv(g)' /\ AnswerInv(g)'
    BY <1>3, <1>8, <1>9, OthersKeep, Zenon
<1>11. RunInv(h)' /\ AnswerInv(h)'
    <2>1. keyOf(h)' = k
        BY <1>6, <1>8, Zenon DEF keyOf
    <2>2. Sent(r, <<>>, row) /\ row.state \in Expected("received") /\ "received" \notin {"idle", "answered"}
        <3>1. Sent(r, <<>>, row)
            BY <1>6 DEF Sent
        <3> QED BY <1>3, <3>1, ExpectedAt
    <2>3. RunInv(h)'
        BY <1>1, <1>4, <1>6, <1>8, <2>1, <2>2, Zenon DEF RunInv
    <2>4. AnswerInv(h)'
        BY <1>1, <1>6, <1>8, <2>2, Zenon DEF AnswerInv
    <2> QED BY <2>3, <2>4, Zenon
<1>12. OneOwner'
    <2>1. keyOf(h)' = k /\ \A g \in Handler \ {h} : keyOf(g)' = keyOf(g) /\ Runs(g)' = Runs(g)
        BY <1>6, <1>8, Zenon DEF keyOf, Runs
    <2> QED BY <1>9, <2>1, Zenon DEF OneOwner, EndpointInv
<1> QED BY <1>4, <1>8, <1>10, <1>11, <1>12, Zenon DEF EndpointInv, TypeOK, Rows

\* Disconnect changes nothing but the context of the call.
LEMMA DisconnectStep == ASSUME EndpointInv, NEW h \in Handler, Disconnect(h) PROVE EndpointInv' /\ RowsStep
<1>0. Runs(h) /\ UNCHANGED <<policy, reply, requests>> /\ Own(h)
    BY Zenon DEF Disconnect, Runs, storeVars, Own
<1>1. handler[h] \in HandlerType /\ RunInv(h)
    BY Parts, Zenon
<1>2. PICK r : r = [handler[h] EXCEPT !.gone = TRUE]
    BY Zenon
<1>3. /\ r \in HandlerType /\ r.pc = handler[h].pc /\ r.key = keyOf(h) /\ r.input = handler[h].input
      /\ r.content = handler[h].content /\ r.attempt = handler[h].attempt /\ r.provider = handler[h].provider
    BY <1>1, <1>2, Zenon DEF HandlerType, keyOf
<1>4. handler' = [handler EXCEPT ![h] = r]
    BY <1>2, ZenonT(40) DEF Disconnect
<1>5. Sent(r, reply[h].body, requests'[keyOf(h)])
    <2>1. Sent(handler[h], reply[h].body, requests'[keyOf(h)])
        BY <1>0, <1>1, Zenon DEF RunInv
    <2> QED BY <1>3, <2>1 DEF Sent
<1>6. /\ r.pc \notin {"idle", "answered"} /\ requests'[keyOf(h)].state \in Expected(r.pc)
      /\ r.pc \notin {"received", "admit", "refuse"} => policy # None
    BY <1>0, <1>1, <1>3, Zenon DEF RunInv, Runs
<1> QED BY <1>0, <1>3, <1>4, <1>5, <1>6, SilentStep, Zenon

\* The running call of a cancelled request finds it in a state it expects.
LEMMA CancelStep == ASSUME EndpointInv, NEW k \in Key, Cancel(k) PROVE EndpointInv' /\ RowsStep
<1>0. UNCHANGED <<policy, handler, reply>> /\ Rows /\ CancelRequest(k)
    BY Zenon DEF Cancel, EndpointInv, TypeOK, Rows
<1>1. PICK row \in RowType : Writes(k, row) /\ row.state = Cancelled
    BY <1>0, CancelWrites, Zenon
<1>2. /\ Rows' /\ requests'[k] = row /\ requests[k].state \notin Final /\ RowsStep
      /\ \A j \in Key \ {k} : requests'[j] = requests[j]
    BY <1>0, <1>1, WriteKeeps, Zenon DEF RowsStep
<1>3. ASSUME NEW g \in Handler PROVE RunInv(g)' /\ AnswerInv(g)'
    <2>1. CASE Runs(g) => keyOf(g) # k
        BY <1>0, <1>1, <2>1, OthersKeep, Zenon
    <2>2. CASE Runs(g) /\ keyOf(g) = k
        <3>0. RunInv(g) /\ AnswerInv(g) /\ handler[g] \in HandlerType
            BY Parts, Zenon
        <3>1. requests[k].state \in Expected(handler[g].pc) /\ Sent(handler[g], reply[g].body, requests[k])
            BY <2>2, <3>0, Zenon DEF RunInv
        <3>2. handler[g].pc # "settle"
            BY <1>2, <3>1, ExpectedAt, FinalStates, Zenon
        <3>3. Cancelled \in Expected(handler[g].pc)
            <4>1. handler[g].pc \in Pc \ {"idle", "answered", "settle"}
                BY <2>2, <3>0, <3>2, HandlerFields, Zenon DEF Runs
            <4> QED BY <4>1 DEF Pc, Expected, Looping
        <3>4. Sent(handler[g], reply[g].body, row)
            <4>1. row.state # Failed
                BY <1>1, StatesDiffer, Zenon
            <4> QED BY <3>1, <3>2, <4>1, Zenon DEF Sent
        <3>5. keyOf(g)' = k /\ Runs(g)' /\ handler'[g] = handler[g] /\ reply'[g] = reply[g] /\ policy' = policy
            BY <1>0, <2>2, Zenon DEF keyOf, Runs
        <3>6. RunInv(g)'
            BY <1>1, <1>2, <2>2, <3>0, <3>3, <3>4, <3>5, Zenon DEF RunInv
        <3>7. AnswerInv(g)'
            BY <2>2, <3>0, <3>5, Zenon DEF AnswerInv, Runs
        <3> QED BY <3>6, <3>7, Zenon
    <2> QED BY <2>1, <2>2, Zenon
<1>4. OneOwner'
    BY <1>0, Zenon DEF EndpointInv, OneOwner, Runs, keyOf
<1> QED BY <1>0, <1>2, <1>3, <1>4, Zenon DEF EndpointInv, TypeOK, Rows

------------------------------------------------------------------------------
(* The theorems *)

\* The invariant holds at first.
LEMMA EndpointInit == Init => EndpointInv
<1> SUFFICES ASSUME Init PROVE EndpointInv
    BY Zenon
<1>0. /\ "idle" \in Pc /\ "" \in Error /\ "" \in Category /\ NoUsage \in Usage /\ 0 \in Nat /\ 0 \in Costs
      /\ Absent \notin {Failed, Completed}
    <2>1. "idle" \in Pc /\ "" \in Error /\ "" \in Category /\ NoUsage \in Usage
        BY Zenon DEF Pc, Error, Category, Usage
    <2>2. 0 \in Nat /\ 0 \in Costs
        BY DEF Costs
    <2> QED BY <2>1, <2>2, StatesDiffer, Zenon
<1>1. <<>> \in Chunks
    BY DEF Chunks
<1>2. Idle \in HandlerType /\ Idle.pc = "idle" /\ Idle.attempt = 0
    BY <1>0, <1>1, Zenon DEF Idle, HandlerType
<1>3. NoReply \in ReplyType /\ NoReply.body = <<>> /\ NoReply.end = "open" /\ NoReply.error = ""
    BY <1>0, <1>1, Zenon DEF NoReply, ReplyType
<1>4. Record(Absent, None) \in RowType /\ RowInv(Record(Absent, None))
    BY <1>0, Zenon DEF Record, RowType, RowInv
<1>5. TypeOK /\ \A k \in Key : RowInv(requests[k])
    BY <1>2, <1>3, <1>4, Zenon DEF Init, NewMemory, TypeOK
<1>6. \A h \in Handler : ~Runs(h) /\ handler[h].pc = "idle" /\ handler[h].attempt = 0 /\ reply[h] = NoReply
    BY <1>2, Zenon DEF Init, Runs
<1>7. "idle" # "answered"
    OBVIOUS
<1>8. \A h \in Handler : RunInv(h) /\ AnswerInv(h)
    BY <1>3, <1>6, <1>7, Zenon DEF RunInv, AnswerInv
<1> QED BY <1>5, <1>6, <1>8, Zenon DEF EndpointInv, OneOwner

\* Every step of a running call keeps the invariant and writes legally.
LEMMA CallSteps == ASSUME EndpointInv, NEW h \in Handler, Step(h) PROVE EndpointInv' /\ RowsStep
<1>1. CASE Validate(h) \/ Admit(h) \/ Refuse(h) \/ Reserve(h) \/ Reject(h) \/ Route(h) \/ Progress(h)
    BY <1>1, ValidateStep, AdmitStep, RefuseStep, ReserveStep, RejectStep, RouteStep, ProgressStep, Zenon
<1>2. CASE Select(h) \/ Start(h) \/ CallFails(h) \/ Completes(h) \/ Opens(h)
    BY <1>2, SelectStep, StartStep, CallFailsStep, CompletesStep, StreamStep, Zenon
<1>3. CASE UsageEvent(h) \/ ChunkEvent(h) \/ StreamDone(h) \/ StreamFails(h)
    BY <1>3, UsageEventStep, ChunkEventStep, StreamStep, StreamFailsStep, Zenon
<1>4. CASE Complete(h) \/ Settle(h) \/ Fail(h) \/ Backoff(h) \/ Finish(h) \/ Reconcile(h)
    BY <1>4, CompleteStep, SettleStep, FailStep, BackoffStep, FinishStep, ReconcileStep, Zenon
<1> QED BY <1>1, <1>2, <1>3, <1>4, Zenon DEF Step

\* Every step keeps the invariant and writes legally.
LEMMA EndpointStep == EndpointInv /\ [Next]_vars => EndpointInv' /\ RowsStep
<1> SUFFICES ASSUME EndpointInv, [Next]_vars PROVE EndpointInv' /\ RowsStep
    BY Zenon
<1>1. ASSUME NEW h \in Handler, NEW m \in Sends[h], Submit(h, m[1], m[2]) \/ Repeat(h, m[1], m[2])
      PROVE  EndpointInv' /\ RowsStep
    <2>1. m[1] \in Key
        BY EndpointAssumption, Zenon
    <2>2. m[2] \in Body
        <3>1. m[2] \in {x[2] : x \in Sends[h]}
            BY Zenon
        <3>2. {x[2] : x \in Sends[h]} \in {{x[2] : x \in Sends[g]} : g \in Handler}
            BY Zenon
        <3> QED BY <3>1, <3>2 DEF Body
    <2> QED BY <1>1, <2>1, <2>2, SubmitStep, RepeatStep, Zenon
<1>2. CASE UNCHANGED vars
    <2>1. UNCHANGED <<requests, policy, handler, reply>>
        BY <1>2, Zenon DEF vars, storeVars
    <2>2. Rows' /\ OneOwner'
        BY <2>1, Zenon DEF EndpointInv, TypeOK, Rows, RowInv, OneOwner, Runs, keyOf
    <2>3. \A h \in Handler : RunInv(h)' /\ AnswerInv(h)'
        BY <2>1, OthersKeep, Zenon
    <2> QED BY <2>1, <2>2, <2>3, Zenon DEF EndpointInv, TypeOK, Rows, RowsStep
<1> QED BY <1>1, <1>2, BadRequestStep, CallSteps, DisconnectStep, CancelStep, Zenon DEF Next

\* The invariant always holds.
LEMMA EndpointSafety == Spec => []EndpointInv
BY EndpointInit, EndpointStep, PTL DEF Spec

\* What gateway.go tells a client as a success is true of the record in memory.go, and stays
\* so: the request is COMPLETED, and the chunks the client received are the stored response.
THEOREM SuccessIsTrue == Spec => []DoneIsTrue
<1>1. EndpointInv => DoneIsTrue
    <2> SUFFICES ASSUME EndpointInv, NEW h \in Handler, reply[h].code = 200, reply[h].end \in {"done", "json"}
                 PROVE  /\ requests[keyOf(h)].state = Completed
                        /\ reply[h].body = IF Replayed(h) /\ isStream(h) THEN <<>>
                                           ELSE requests[keyOf(h)].response
        BY Zenon DEF DoneIsTrue
    <2>0. reply[h].end # "open"
        OBVIOUS
    <2>1. AnswerInv(h) /\ reply[h].end # "open"
        BY <2>0, Parts, Zenon
    <2>2. DoneTrue(handler[h], reply[h], requests[keyOf(h)])
        BY <2>1, Zenon DEF AnswerInv
    <2> QED BY <2>2, Zenon DEF DoneTrue, Replayed, isStream
<1> QED BY <1>1, EndpointSafety, PTL

\* What gateway.go tells a client as an error is the end of its request: final, not completed,
\* free, and marked partial if the client has seen content of an attempt that failed.
THEOREM FailureIsFinal == Spec => []ErrorsAreFinal
<1>1. EndpointInv => ErrorsAreFinal
    <2> SUFFICES ASSUME EndpointInv, NEW h \in Handler,
                        reply[h].error \notin {"", "invalid", "conflict", "unpriced"}
                 PROVE  /\ requests[keyOf(h)].state \in Final \ {Completed}
                        /\ requests[keyOf(h)].cost = 0
                        /\ requests[keyOf(h)].state = Failed /\ reply[h].body # <<>> => requests[keyOf(h)].partial
        BY Zenon DEF ErrorsAreFinal
    <2>1. ErrorFinal(reply[h], requests[keyOf(h)])
        BY Parts, Zenon DEF AnswerInv
    <2> QED BY <2>1, Zenon DEF ErrorFinal
<1> QED BY <1>1, EndpointSafety, PTL

\* No request exists at first, in both specifications.
LEMMA MappedInit == Init => Lifecycle!Init
<1> SUFFICES ASSUME Init PROVE Lifecycle!Init
    BY Zenon
<1>1. Absent \notin {Completed, BudgetRejected, Failed}
    BY DEF Absent, Completed, BudgetRejected, Failed
<1>2. \A k \in Key : state(k) = Absent /\ factsOf(requests[k]) = {}
    BY <1>1, Zenon DEF Init, NewMemory, Record, state, factsOf
<1> QED BY <1>2, Zenon DEF Lifecycle!Init, Lifecycle!Absent, Absent

\* The in-memory store driven by the endpoint implements RequestLifecycle, as the gateway on
\* PostgreSQL does: every step of any call moves at most one request, along request.go.
THEOREM MemoryRefinement == Spec => RefinesLifecycle
<1>1. EndpointInv /\ [Next]_vars => [Lifecycle!Next]_(Lifecycle!vars)
    <2>1. EndpointInv => Rows
        BY Zenon DEF EndpointInv, TypeOK, Rows
    <2> QED BY <2>1, EndpointStep, MappedStep, Zenon
<1> QED BY <1>1, MappedInit, EndpointSafety, PTL DEF Spec, RefinesLifecycle, Lifecycle!Spec

------------------------------------------------------------------------------
(* What a call spends: steps that neither reserve nor pay *)

\* Where a call has its reservation.
Backed == {"route", "progress", "settle", "reconcile"} \cup Looping

\* A completed request whose cost is not yet in the books.
Settling(k) == \E h \in Handler : handler[h].pc = "settle" /\ keyOf(h) = k
Counts == [k \in Key |-> IF Settling(k) THEN 0 ELSE Overrun(k)]

CallMoney(h) ==
    /\ handler[h].pc = "reserve" => policy # {}
    /\ handler[h].pc \in Backed => Dearest <= reservations[keyOf(h)]
    /\ handler[h].pc = "settle" => requests[keyOf(h)].cost = actual(h) /\ actual(h) \in Nat

\* BudgetHolds is not inductive: a cost is in the record before it is in the books. What is
\* in the books is covered without it, since a call keeps a reservation of at least Dearest
\* until its cost replaces it.
Money == /\ used \in Nat /\ reservations \in [Key -> Nat]
         /\ \A h \in Handler : CallMoney(h)
         /\ used + Sum(reservations, Key) <= MonthlyBudget + Sum(Counts, Key)
Limited == MonthlyBudget > 0 /\ policy # None

\* A step of a call that neither pays nor reserves.
Moves(h) ==
    /\ handler'[h].pc = "reserve" => policy # {}
    /\ handler'[h].pc \in Backed => handler[h].pc \in Backed /\ handler'[h].key = handler[h].key
    /\ handler'[h].pc = "settle" <=> handler[h].pc = "settle"
    /\ handler'[h].pc = "settle" => /\ handler'[h].usage = handler[h].usage
                                    /\ handler'[h].provider = handler[h].provider

CostsKept == \A k \in Key : requests'[k].cost = requests[k].cost
Books == UNCHANGED <<reservations, used>> /\ CostsKept

\* The amounts a policy and the costs determine stay while these do.
LEMMA SameOverruns ==
  ASSUME UNCHANGED policy, NEW k \in Key, requests'[k].cost = requests[k].cost
  PROVE  Dearest' = Dearest /\ Overrun(k)' = Overrun(k)
<1>1. Dearest' = Dearest
  BY Zenon DEF Dearest
<1> QED BY <1>1, Zenon DEF Overrun

\* Such steps keep what covers the budget.
LEMMA Still ==
  ASSUME EndpointInv, Money, policy # None, UNCHANGED policy, Books, \A h \in Handler : Moves(h)
  PROVE  Money'
<1>1. Dearest' = Dearest
  BY Zenon DEF Dearest
<1>2. \A k \in Key : Overrun(k)' = Overrun(k)
  BY SameOverruns, Zenon DEF Books, CostsKept
<1>3. \A k \in Key : Settling(k)' <=> Settling(k)
  <2>1. "settle" \in Backed
    BY DEF Backed
  <2>2. \A h \in Handler : /\ handler'[h].pc = "settle" <=> handler[h].pc = "settle"
                           /\ handler'[h].pc = "settle" => handler'[h].key = handler[h].key
    BY <2>1, Zenon DEF Moves
  <2> QED BY <2>2, Zenon DEF Settling, keyOf
<1>4. Counts' = Counts
  BY <1>2, <1>3, Zenon DEF Counts
<1>5. ASSUME NEW h \in Handler PROVE CallMoney(h)'
  <2>1. Moves(h) /\ CallMoney(h)
    BY Zenon DEF Money
  <2>2. handler'[h].pc = "reserve" => policy' # {}
    BY <2>1, Zenon DEF Moves
  <2>3. ASSUME handler'[h].pc \in Backed PROVE Dearest' <= reservations'[keyOf(h)']
    BY <1>1, <2>1, <2>3, Zenon DEF Moves, CallMoney, keyOf, Books
  <2>4. ASSUME handler'[h].pc = "settle"
        PROVE  requests'[keyOf(h)'].cost = actual(h)' /\ actual(h)' \in Nat
    <3>0. "settle" \in Backed
      BY DEF Backed
    <3>1. /\ handler[h].pc = "settle" /\ handler'[h].key = handler[h].key
          /\ handler'[h].usage = handler[h].usage /\ handler'[h].provider = handler[h].provider
      BY <2>1, <2>4, <3>0, Zenon DEF Moves
    <3>2. keyOf(h)' = keyOf(h) /\ actual(h)' = actual(h)
      BY <3>1, Zenon DEF keyOf, actual
    <3>3. Runs(h)
      BY <3>1 DEF Runs
    <3>4. keyOf(h) \in Key
      BY <3>3, Zenon DEF EndpointInv, RunInv
    <3> QED BY <2>1, <3>1, <3>2, <3>4, Zenon DEF CallMoney, Books, CostsKept
  <2> QED BY <2>2, <2>3, <2>4, Zenon DEF CallMoney, keyOf
<1>6. used' = used /\ reservations' = reservations
  BY Zenon DEF Books
<1> QED BY <1>4, <1>5, <1>6, Zenon DEF Money

\* The one call that moves.
LEMMA OneMoves ==
  ASSUME EndpointInv, Money, NEW h \in Handler, NEW r,
         handler' = [handler EXCEPT ![h] = r],
         handler[h].pc # "settle", r.pc # "settle",
         r.pc = "reserve" => policy # {},
         r.pc \in Backed => handler[h].pc \in Backed /\ r.key = handler[h].key
  PROVE  \A g \in Handler : Moves(g)
<1>1. handler'[h] = r /\ \A g \in Handler \ {h} : handler'[g] = handler[g]
  BY Zenon DEF EndpointInv, TypeOK
<1>2. Moves(h)
  BY <1>1, Zenon DEF Moves
<1>3. ASSUME NEW g \in Handler \ {h} PROVE Moves(g)
  BY <1>1, <1>3, Zenon DEF Moves, Money, CallMoney
<1> QED BY <1>2, <1>3, Zenon

\* A call that goes to another line.
LEMMA GotoMoves ==
  ASSUME EndpointInv, Money, NEW h \in Handler, NEW label, Goto(h, label),
         handler[h].pc # "settle", label # "settle", label = "reserve" => policy # {},
         label \in Backed => handler[h].pc \in Backed
  PROVE  UNCHANGED policy /\ \A g \in Handler : Moves(g)
<1>1. handler[h] \in HandlerType
  BY Zenon DEF EndpointInv, TypeOK
<1>2. PICK r : r = [handler[h] EXCEPT !.pc = label]
  BY Zenon
<1>3. r.pc = label /\ r.key = handler[h].key
  BY <1>1, <1>2, Zenon DEF HandlerType
<1>4. handler' = [handler EXCEPT ![h] = r] /\ UNCHANGED policy
  BY <1>2, Zenon DEF Goto, EndpointInv, TypeOK
<1> QED BY <1>3, <1>4, OneMoves, Zenon

\* A call that returns.
LEMMA LeaveMoves ==
  ASSUME EndpointInv, Money, NEW h \in Handler, NEW k, NEW i, Leave(h, k, i),
         handler[h].pc # "settle"
  PROVE  UNCHANGED policy /\ \A g \in Handler : Moves(g)
<1>1. PICK r : r = [Idle EXCEPT !.pc = "answered", !.key = k, !.input = i, !.attempt = handler[h].attempt]
  OBVIOUS
<1>2. r.pc = "answered"
  BY <1>1 DEF Idle
<1>3. "answered" \notin Backed \cup {"settle", "reserve"}
  BY DEF Backed, Looping
<1>4. handler' = [handler EXCEPT ![h] = r] /\ UNCHANGED policy
  BY <1>1, Zenon DEF Leave
<1> QED BY <1>2, <1>3, <1>4, OneMoves, Zenon

\* The lines of a call after its reservation, but for the last.
Working == {"route", "progress", "reconcile"} \cup Looping

\* The lines as the provers need them.
LEMMA Lines ==
  /\ \A l \in Working : l \in Backed /\ l # "settle" /\ l # "reserve"
  /\ \A l \in Looping : l \in Working
  /\ "route" \in Working /\ "progress" \in Working /\ "reconcile" \in Working
  /\ "select" \in Looping /\ "start" \in Looping /\ "call" \in Looping /\ "stream" \in Looping
  /\ "complete" \in Looping /\ "fail" \in Looping /\ "backoff" \in Looping /\ "finish" \in Looping
  /\ \A l \in {"idle", "received", "admit", "refuse", "reserve", "reject", "answered"} :
       l \notin Backed /\ l # "settle"
  /\ "received" # "reserve" /\ "admit" # "reserve" /\ "refuse" # "reserve" /\ "reject" # "reserve"
BY DEF Working, Backed, Looping

\* The operations of the store other than completion, reservation and settlement.
LEMMA StoreBooks ==
  ASSUME Rows, NEW k \in Key,
         \/ UNCHANGED storeVars
         \/ \E i : CreateRequest(k, i)
         \/ \E a, b : TransitionRequest(k, a, b)
         \/ \E n : StartAttempt(k, n)
         \/ \E c, p, f : FailAttempt(k, c, p, f)
         \/ CancelRequest(k)
  PROVE  Books
<1>1. requests \in [Key -> RowType] /\ requests[k] \in RowType
  BY Zenon DEF Rows
<1>2. ASSUME NEW row, requests' = [requests EXCEPT ![k] = row], row.cost = requests[k].cost
      PROVE  CostsKept
  BY <1>1, <1>2, Zenon DEF CostsKept
<1>3. CASE UNCHANGED storeVars
  BY <1>3, Zenon DEF storeVars, Books, CostsKept
<1>4. ASSUME NEW i, CreateRequest(k, i) PROVE Books
  <2>1. requests[k].state # Completed
    BY <1>4 DEF CreateRequest, state, Absent, Completed
  <2>2. requests[k].cost = 0
    BY <2>1, Zenon DEF Rows, RowInv
  <2>3. Record(Received, i).cost = 0
    BY DEF Record
  <2> QED BY <1>2, <1>4, <2>2, <2>3, Zenon DEF CreateRequest, Books
<1>5. ASSUME NEW a, NEW b, TransitionRequest(k, a, b) PROVE Books
  <2>1. PICK row : row = [requests[k] EXCEPT !.state = b]
    BY Zenon
  <2>2. row.cost = requests[k].cost
    BY <1>1, <2>1, Zenon DEF RowType
  <2> QED BY <1>2, <1>5, <2>1, <2>2, Zenon DEF TransitionRequest, Books
<1>6. ASSUME NEW n, StartAttempt(k, n) PROVE Books
  BY <1>6, Zenon DEF StartAttempt, Books, CostsKept
<1>7. ASSUME NEW c, NEW p, NEW f, FailAttempt(k, c, p, f) PROVE Books
  <2>1. PICK row : row = [requests[k] EXCEPT !.state = Failed, !.category = c, !.partial = p]
    OBVIOUS
  <2>2. row.cost = requests[k].cost
    BY <1>1, <2>1, Zenon DEF RowType
  <2>3. CASE f
    BY <1>2, <1>7, <2>1, <2>2, <2>3, Zenon DEF FailAttempt, Books
  <2>4. CASE ~f
    BY <1>7, <2>4, Zenon DEF FailAttempt, Books, CostsKept
  <2> QED BY <2>3, <2>4
<1>8. ASSUME CancelRequest(k) PROVE Books
  <2>1. PICK row : row = [requests[k] EXCEPT !.state = Cancelled]
    BY Zenon
  <2>2. row.cost = requests[k].cost
    BY <1>1, <2>1, Zenon DEF RowType
  <2> QED BY <1>2, <1>8, <2>1, <2>2, Zenon DEF CancelRequest, Books
<1> QED BY <1>3, <1>4, <1>5, <1>6, <1>7, <1>8, Zenon

\* A running call has a key, and the records are typed.
LEMMA Running ==
  ASSUME EndpointInv, NEW h \in Handler, handler[h].pc \notin {"idle", "answered"}
  PROVE  keyOf(h) \in Key /\ Rows /\ handler[h] \in HandlerType
BY Zenon DEF EndpointInv, TypeOK, RunInv, Runs, Rows

\* The steps of a call before and after its attempts.
LEMMA PlainMoney ==
  ASSUME EndpointInv, Money, policy # None, NEW h \in Handler,
         Validate(h) \/ Admit(h) \/ Refuse(h) \/ Reject(h) \/ Route(h) \/ Progress(h)
  PROVE  Money'
<1>1. ASSUME NEW k \in Key, NEW from, NEW to, NEW label, k = keyOf(h), Advance(h, from, to, label), Rows,
             handler[h].pc # "settle", label # "settle", label # "reserve",
             label \in Backed => handler[h].pc \in Backed
      PROVE  Money'
  <2>1. Books
    BY <1>1, StoreBooks, Zenon DEF Advance
  <2>2. CASE Goto(h, label)
    BY <1>1, <2>1, <2>2, GotoMoves, Still, Zenon
  <2>3. CASE ReturnError(h, "alreadyfinal")
    BY <1>1, <2>1, <2>3, LeaveMoves, Still, Zenon DEF ReturnError, Answer
  <2> QED BY <1>1, <2>2, <2>3, Zenon DEF Advance
<1>2. CASE Validate(h)
  <2>1. handler[h].pc = "received" /\ keyOf(h) \in Key /\ Rows
    <3>1. handler[h].pc = "received"
      BY <1>2, Zenon DEF Validate, At
    <3> QED BY <3>1, Running
  <2> QED BY <1>1, <1>2, <2>1, Lines, Zenon DEF Validate
<1>3. CASE Route(h)
  <2>1. handler[h].pc = "route" /\ keyOf(h) \in Key /\ Rows
    <3>1. handler[h].pc = "route"
      BY <1>3, Zenon DEF Route, At
    <3> QED BY <3>1, Running
  <2> QED BY <1>1, <1>3, <2>1, Lines, Zenon DEF Route
<1>4. CASE Progress(h)
  <2>1. handler[h].pc = "progress" /\ keyOf(h) \in Key /\ Rows
    <3>1. handler[h].pc = "progress"
      BY <1>4, Zenon DEF Progress, At
    <3> QED BY <3>1, Running
  <2> QED BY <1>1, <1>4, <2>1, Lines, Zenon DEF Progress
<1>5. CASE Admit(h)
  <2>1. handler[h].pc = "admit" /\ keyOf(h) \in Key /\ Rows /\ handler[h] \in HandlerType
    <3>1. handler[h].pc = "admit"
      BY <1>5, Zenon DEF Admit, At
    <3> QED BY <3>1, Running
  <2>2. Books
    BY <1>5, <2>1, StoreBooks, Zenon DEF Admit
  <2>3. CASE policy \notin {None, {}} /\ Goto(h, "reserve")
    BY <2>1, <2>2, <2>3, GotoMoves, Still, Lines, Zenon
  <2>4. ASSUME NEW e, handler' = [handler EXCEPT ![h].pc = "refuse", ![h].error = e], UNCHANGED policy
        PROVE  Money'
    <3>1. PICK r : r = [handler[h] EXCEPT !.pc = "refuse", !.error = e]
      OBVIOUS
    <3>2. r.pc = "refuse"
      BY <2>1, <3>1, Zenon DEF HandlerType
    <3>3. handler' = [handler EXCEPT ![h] = r]
      BY <2>4, <3>1, Zenon
    <3> QED BY <2>1, <2>2, <2>4, <3>2, <3>3, OneMoves, Still, Lines, Zenon
  <2> QED BY <1>5, <2>3, <2>4, Zenon DEF Admit
<1>6. CASE Refuse(h)
  <2>1. handler[h].pc = "refuse" /\ keyOf(h) \in Key /\ Rows
    <3>1. handler[h].pc = "refuse"
      BY <1>6, Zenon DEF Refuse, At
    <3> QED BY <3>1, Running
  <2>2. Books
    BY <1>6, <2>1, StoreBooks, Zenon DEF Refuse
  <2> QED BY <1>6, <2>1, <2>2, LeaveMoves, Still, Lines, Zenon DEF Refuse, ReturnError, Answer
<1>7. CASE Reject(h)
  <2>1. handler[h].pc = "reject" /\ keyOf(h) \in Key /\ Rows
    <3>1. handler[h].pc = "reject"
      BY <1>7, Zenon DEF Reject, At
    <3> QED BY <3>1, Running
  <2>2. Books
    BY <1>7, <2>1, StoreBooks, Zenon DEF Reject
  <2> QED BY <1>7, <2>1, <2>2, LeaveMoves, Still, Lines, Zenon DEF Reject, ReturnError, Answer
<1> QED BY <1>2, <1>3, <1>4, <1>5, <1>6, <1>7

\* A call at work goes on with its reservation.
LEMMA WorkMoney ==
  ASSUME EndpointInv, Money, policy # None, NEW h \in Handler, NEW r, Books, UNCHANGED policy,
         handler' = [handler EXCEPT ![h] = r], handler[h].pc \in Working,
         r.pc \in Working, r.key = handler[h].key
  PROVE  Money'
BY OneMoves, Still, Lines, Zenon

\* An attempt that fails.
LEMMA FailsMoney ==
  ASSUME EndpointInv, Money, policy # None, NEW h \in Handler, NEW e, NEW b,
         handler[h].pc \in Looping, Fails(h, e, b)
  PROVE  Money'
<1>1. handler[h] \in HandlerType
  BY Zenon DEF EndpointInv, TypeOK
<1>2. Books
  BY Zenon DEF Fails, storeVars, Books, CostsKept
<1>3. PICK r : r = [handler[h] EXCEPT !.pc = "fail", !.error = e, !.retryable = b]
  OBVIOUS
<1>4. r.pc = "fail" /\ r.key = handler[h].key
  BY <1>1, <1>3, Zenon DEF HandlerType
<1>5. handler' = [handler EXCEPT ![h] = r] /\ UNCHANGED policy
  BY <1>3, Zenon DEF Fails
<1> QED BY <1>2, <1>4, <1>5, WorkMoney, Lines, Zenon

\* The steps that change nothing but the call and its answer.
LEMMA AttemptMoney ==
  ASSUME EndpointInv, Money, policy # None, NEW h \in Handler,
         \/ Select(h) \/ Start(h) \/ CallFails(h) \/ Completes(h) \/ Opens(h) \/ UsageEvent(h)
         \/ ChunkEvent(h) \/ StreamDone(h) \/ StreamFails(h) \/ Backoff(h)
  PROVE  Money'
<1>1. handler[h].pc \in Looping
  BY Lines, Zenon DEF Select, Start, CallFails, Completes, Opens, UsageEvent, ChunkEvent, StreamDone,
                      StreamFails, Backoff, At
<1>2. keyOf(h) \in Key /\ Rows /\ handler[h] \in HandlerType
  <2>1. handler[h].pc \notin {"idle", "answered"}
    BY <1>1 DEF Looping
  <2> QED BY <2>1, Running, Zenon
<1>3. ASSUME NEW label \in Looping, Goto(h, label), Books PROVE Money'
  BY <1>1, <1>3, GotoMoves, Still, Lines, Zenon
<1>4. UNCHANGED storeVars => Books
  BY <1>2, StoreBooks, Zenon
<1>5. CASE Select(h)
  <2>1. UNCHANGED policy /\ Books
    BY <1>4, <1>5, Zenon DEF Select
  <2>2. ASSUME NEW p, handler' = [handler EXCEPT ![h].pc = "start", ![h].attempt = @ + 1, ![h].provider = p,
                                       ![h].excluded = @ \cup {p}, ![h].content = <<>>,
                                       ![h].usage = NoUsage]
        PROVE  Money'
    <3>1. PICK r : r = [handler[h] EXCEPT !.pc = "start", !.attempt = @ + 1, !.provider = p,
                                          !.excluded = @ \cup {p}, !.content = <<>>, !.usage = NoUsage]
      OBVIOUS
    <3>2. r.pc = "start" /\ r.key = handler[h].key
      BY <1>2, <3>1, Zenon DEF HandlerType
    <3>3. handler' = [handler EXCEPT ![h] = r]
      BY <2>2, <3>1, Zenon
    <3> QED BY <1>1, <2>1, <3>2, <3>3, WorkMoney, Lines, Zenon
  <2>3. ASSUME handler' = [handler EXCEPT ![h].pc = "finish", ![h].error = "noprovider"]
        PROVE  Money'
    <3>1. PICK r : r = [handler[h] EXCEPT !.pc = "finish", !.error = "noprovider"]
      OBVIOUS
    <3>2. r.pc = "finish" /\ r.key = handler[h].key
      BY <1>2, <3>1, Zenon DEF HandlerType
    <3>3. handler' = [handler EXCEPT ![h] = r]
      BY <2>3, <3>1, Zenon
    <3> QED BY <1>1, <2>1, <3>2, <3>3, WorkMoney, Lines, Zenon
  <2> QED BY <1>5, <2>2, <2>3, Zenon DEF Select
<1>6. CASE Start(h)
  <2>1. Books
    BY <1>2, <1>6, StoreBooks, Zenon DEF Start
  <2> QED BY <1>3, <1>6, <2>1, Lines, Zenon DEF Start
<1>7. CASE CallFails(h)
  BY <1>1, <1>7, FailsMoney, Zenon DEF CallFails, ContextEnds
<1>8. CASE StreamFails(h)
  BY <1>1, <1>8, FailsMoney, Zenon DEF StreamFails, ContextEnds
<1>9. CASE Completes(h)
  <2>1. UNCHANGED policy /\ Books
    BY <1>4, <1>9, Zenon DEF Completes
  <2>2. PICK u \in Usages : handler' = [handler EXCEPT ![h].pc = "complete", ![h].usage = u,
                                                       ![h].content = <<handler[h].attempt>>]
    BY <1>9, Zenon DEF Completes
  <2>3. PICK r : r = [handler[h] EXCEPT !.pc = "complete", !.usage = u, !.content = <<handler[h].attempt>>]
    OBVIOUS
  <2>4. r.pc = "complete" /\ r.key = handler[h].key
    BY <1>2, <2>3, Zenon DEF HandlerType
  <2>5. handler' = [handler EXCEPT ![h] = r]
    BY <2>2, <2>3, Zenon
  <2> QED BY <1>1, <2>1, <2>4, <2>5, WorkMoney, Lines, Zenon
<1>10. CASE Opens(h)
  BY <1>3, <1>4, <1>10, Lines, Zenon DEF Opens
<1>11. CASE StreamDone(h)
  BY <1>3, <1>4, <1>11, Lines, Zenon DEF StreamDone
<1>12. CASE UsageEvent(h)
  <2>1. UNCHANGED policy /\ Books
    BY <1>4, <1>12, Zenon DEF UsageEvent
  <2>2. PICK u \in Usages : handler' = [handler EXCEPT ![h].usage = u]
    BY <1>12, Zenon DEF UsageEvent
  <2>3. PICK r : r = [handler[h] EXCEPT !.usage = u]
    BY Zenon
  <2>4. r.pc = handler[h].pc /\ r.key = handler[h].key
    BY <1>2, <2>3, Zenon DEF HandlerType
  <2>5. handler' = [handler EXCEPT ![h] = r]
    BY <2>2, <2>3, Zenon
  <2> QED BY <1>1, <2>1, <2>4, <2>5, WorkMoney, Lines, Zenon
<1>13. ASSUME NEW chunk, Emit(h, chunk) PROVE Money'
  <2>1. UNCHANGED policy /\ Books
    BY <1>4, <1>13, Zenon DEF Emit
  <2>2. ASSUME handler' = [handler EXCEPT ![h].content = @ \o chunk] PROVE Money'
    <3>1. PICK r : r = [handler[h] EXCEPT !.content = @ \o chunk]
      BY Zenon
    <3>2. r.pc = handler[h].pc /\ r.key = handler[h].key
      BY <1>2, <3>1, Zenon DEF HandlerType
    <3>3. handler' = [handler EXCEPT ![h] = r]
      BY <2>2, <3>1, Zenon
    <3> QED BY <1>1, <2>1, <3>2, <3>3, WorkMoney, Lines, Zenon
  <2>3. ASSUME handler' = [handler EXCEPT ![h].content = @ \o chunk, ![h].pc = "fail",
                                          ![h].error = "provider", ![h].retryable = FALSE]
        PROVE  Money'
    <3>1. PICK r : r = [handler[h] EXCEPT !.content = @ \o chunk, !.pc = "fail", !.error = "provider",
                                          !.retryable = FALSE]
      OBVIOUS
    <3>2. r.pc = "fail" /\ r.key = handler[h].key
      BY <1>2, <3>1, Zenon DEF HandlerType
    <3>3. handler' = [handler EXCEPT ![h] = r]
      BY <2>3, <3>1, Zenon
    <3> QED BY <1>1, <2>1, <3>2, <3>3, WorkMoney, Lines, Zenon
  <2> QED BY <1>13, <2>2, <2>3, Zenon DEF Emit
<1>14. CASE ChunkEvent(h)
  BY <1>1, <1>13, <1>14, FailsMoney, Zenon DEF ChunkEvent
<1>15. CASE Backoff(h)
  <2>1. UNCHANGED policy /\ Books
    BY <1>4, <1>15, Zenon DEF Backoff
  <2>2. ASSUME handler' = [handler EXCEPT ![h].pc = "select"] PROVE Money'
    <3>1. PICK r : r = [handler[h] EXCEPT !.pc = "select"]
      BY Zenon
    <3>2. r.pc = "select" /\ r.key = handler[h].key
      BY <1>2, <3>1, Zenon DEF HandlerType
    <3>3. handler' = [handler EXCEPT ![h] = r]
      BY <2>2, <3>1, Zenon
    <3> QED BY <1>1, <2>1, <3>2, <3>3, WorkMoney, Lines, Zenon
  <2>3. ASSUME handler' = [handler EXCEPT ![h].pc = "finish", ![h].error = "cancelled"] PROVE Money'
    <3>1. PICK r : r = [handler[h] EXCEPT !.pc = "finish", !.error = "cancelled"]
      OBVIOUS
    <3>2. r.pc = "finish" /\ r.key = handler[h].key
      BY <1>2, <3>1, Zenon DEF HandlerType
    <3>3. handler' = [handler EXCEPT ![h] = r]
      BY <2>3, <3>1, Zenon
    <3> QED BY <1>1, <2>1, <3>2, <3>3, WorkMoney, Lines, Zenon
  <2> QED BY <1>15, <2>2, <2>3, Zenon DEF Backoff
<1> QED BY <1>5, <1>6, <1>7, <1>8, <1>9, <1>10, <1>11, <1>12, <1>14, <1>15, Zenon

\* The end of the attempts without a success.
LEMMA FailMoney ==
  ASSUME EndpointInv, Money, policy # None, NEW h \in Handler, Fail(h) \/ Finish(h)
  PROVE  Money'
<1>1. handler[h].pc \in Looping
  BY Lines, Zenon DEF Fail, Finish, At
<1>2. keyOf(h) \in Key /\ Rows
  <2>1. handler[h].pc \notin {"idle", "answered"}
    BY <1>1 DEF Looping
  <2> QED BY <2>1, Running, Zenon
<1>3. Books
  BY <1>2, StoreBooks, Zenon DEF Fail, Finish
<1>4. ASSUME NEW label \in Working, Goto(h, label) PROVE Money'
  BY <1>1, <1>3, <1>4, GotoMoves, Still, Lines, Zenon
<1>5. CASE Fail(h)
  <2>1. (IF Retries(h) THEN "backoff" ELSE "reconcile") \in Working
    BY Lines, Zenon
  <2>2. CASE ReturnError(h, "alreadyfinal")
    BY <1>1, <1>3, <2>2, LeaveMoves, Still, Lines, Zenon DEF ReturnError, Answer
  <2> QED BY <1>4, <1>5, <2>1, <2>2, Zenon DEF Fail
<1>6. CASE Finish(h)
  BY <1>4, <1>6, Lines, Zenon DEF Finish
<1> QED BY <1>5, <1>6

\* A request that is refused, received or replayed, and a client that goes away.
LEMMA OtherMoney ==
  ASSUME EndpointInv, Money, policy # None, NEW h \in Handler,
         \/ BadRequest(h) \/ Disconnect(h)
         \/ \E m \in Sends[h] : Submit(h, m[1], m[2]) \/ Repeat(h, m[1], m[2])
  PROVE  Money'
<1>1. Rows /\ handler[h] \in HandlerType
  BY Zenon DEF EndpointInv, TypeOK, Rows
<1>2. UNCHANGED storeVars => Books
  BY Zenon DEF storeVars, Books, CostsKept
<1>3. CASE BadRequest(h)
  <2>1. handler[h].pc # "settle"
    BY <1>3 DEF BadRequest, At
  <2> QED BY <1>2, <1>3, <2>1, LeaveMoves, Still, Zenon DEF BadRequest, ReturnError, Answer
<1>4. CASE Disconnect(h)
  <2>1. PICK r : r = [handler[h] EXCEPT !.gone = TRUE]
    BY Zenon
  <2>2. /\ r.pc = handler[h].pc /\ r.key = handler[h].key
        /\ r.usage = handler[h].usage /\ r.provider = handler[h].provider
    BY <1>1, <2>1, Zenon DEF HandlerType
  <2>3. handler' = [handler EXCEPT ![h] = r] /\ UNCHANGED policy /\ Books
    BY <1>2, <1>4, <2>1, Zenon DEF Disconnect
  <2>4. handler'[h] = r /\ \A g \in Handler \ {h} : handler'[g] = handler[g]
    BY <2>3, Zenon DEF EndpointInv, TypeOK
  <2>5. \A g \in Handler : Moves(g)
    BY <2>2, <2>4, Zenon DEF Moves, Money, CallMoney
  <2> QED BY <2>3, <2>5, Still, Zenon
<1>6. ASSUME NEW m \in Sends[h], Submit(h, m[1], m[2]) PROVE Money'
  <2>1. m[1] \in Key
    BY EndpointAssumption, Zenon
  <2>2. Books
    BY <1>1, <1>6, <2>1, StoreBooks, Zenon DEF Submit
  <2>3. PICK r : r = [handler[h] EXCEPT !.pc = "received", !.key = m[1], !.input = m[2]]
    OBVIOUS
  <2>4. r.pc = "received"
    BY <1>1, <2>3, Zenon DEF HandlerType
  <2>5. handler' = [handler EXCEPT ![h] = r] /\ UNCHANGED policy
    BY <1>6, <2>3, Zenon DEF Submit
  <2>6. handler[h].pc # "settle"
    BY <1>6, Zenon DEF Submit, At
  <2> QED BY <2>2, <2>4, <2>5, <2>6, OneMoves, Still, Lines, Zenon
<1>7. ASSUME NEW m \in Sends[h], Repeat(h, m[1], m[2]) PROVE Money'
  <2>1. handler[h].pc # "settle"
    BY <1>7 DEF Repeat, At
  <2> QED BY <1>2, <1>7, <2>1, LeaveMoves, Still, Zenon DEF Repeat
<1> QED BY <1>3, <1>4, <1>6, <1>7, Zenon

\* The owner's cancellation.
LEMMA CancelMoney ==
  ASSUME EndpointInv, Money, policy # None, NEW k \in Key, Cancel(k)
  PROVE  Money'
<1>1. Rows
  BY Zenon DEF EndpointInv, TypeOK, Rows
<1>2. Books
  BY <1>1, StoreBooks, Zenon DEF Cancel
<1>3. \A g \in Handler : Moves(g)
  BY Zenon DEF Cancel, Moves, Money, CallMoney
<1> QED BY <1>2, <1>3, Still, Zenon DEF Cancel

\* A step of a call on its own request leaves the other calls and requests as they are.
LEMMA OthersMoney ==
  ASSUME EndpointInv, Money, policy # None, UNCHANGED policy, NEW h \in Handler, NEW k \in Key,
         k = keyOf(h), handler[h].pc \in Backed \cup {"reserve"}, handler'[h].key = k,
         \A g \in Handler \ {h} : handler'[g] = handler[g],
         \A j \in Key \ {k} : /\ reservations'[j] = reservations[j]
                              /\ requests'[j].cost = requests[j].cost
  PROVE  /\ Dearest' = Dearest
         /\ \A g \in Handler \ {h} : CallMoney(g)' /\ (handler[g].pc = "settle" => keyOf(g) # k)
         /\ \A j \in Key \ {k} : Counts'[j] = Counts[j]
<1>1. Dearest' = Dearest
  BY Zenon DEF Dearest
<1>2. \A l \in Backed \cup {"reserve"} : l \notin {"idle", "answered"}
  BY DEF Backed, Looping
<1>3. "settle" \in Backed
  BY DEF Backed
<1>4. ASSUME NEW g \in Handler \ {h} PROVE CallMoney(g)' /\ (handler[g].pc = "settle" => keyOf(g) # k)
  <2>1. handler'[g] = handler[g] /\ CallMoney(g)
    BY Zenon DEF Money
  <2>2. keyOf(g)' = keyOf(g) /\ actual(g)' = actual(g)
    BY <2>1, Zenon DEF keyOf, actual
  <2>3. ASSUME handler[g].pc \in Backed PROVE keyOf(g) \in Key \ {k}
    <3>1. Runs(g) /\ Runs(h)
      BY <1>2, <2>3, Zenon DEF Runs
    <3> QED BY <1>4, <3>1, Zenon DEF EndpointInv, OneOwner, RunInv
  <2>4. handler'[g].pc = "reserve" => policy' # {}
    BY <2>1, Zenon DEF CallMoney
  <2>5. ASSUME handler'[g].pc \in Backed PROVE Dearest' <= reservations'[keyOf(g)']
    <3>1. reservations'[keyOf(g)] = reservations[keyOf(g)]
      BY <2>1, <2>3, <2>5, Zenon
    <3> QED BY <1>1, <2>1, <2>2, <2>5, <3>1, Zenon DEF CallMoney
  <2>6. ASSUME handler'[g].pc = "settle"
        PROVE  requests'[keyOf(g)'].cost = actual(g)' /\ actual(g)' \in Nat
    <3>1. requests'[keyOf(g)].cost = requests[keyOf(g)].cost
      BY <1>3, <2>1, <2>3, <2>6, Zenon
    <3> QED BY <2>1, <2>2, <2>6, <3>1, Zenon DEF CallMoney
  <2>7. CallMoney(g)'
    BY <2>4, <2>5, <2>6, Zenon DEF CallMoney, keyOf
  <2> QED BY <1>3, <2>3, <2>7, Zenon
<1>5. ASSUME NEW j \in Key \ {k} PROVE Counts'[j] = Counts[j]
  <2>1. Overrun(j)' = Overrun(j)
    BY SameOverruns, Zenon
  <2>2. Settling(j)' <=> Settling(j)
    BY Zenon DEF Settling, keyOf
  <2> QED BY <2>1, <2>2, Zenon DEF Counts
<1> QED BY <1>1, <1>4, <1>5, Zenon

\* No step changes a policy.
LEMMA PolicyKept == [Next]_vars => UNCHANGED policy
<1>1. ASSUME NEW h, NEW e, ReturnError(h, e) \/ Goto(h, e)
      PROVE  UNCHANGED policy
  BY <1>1, Zenon DEF ReturnError, Answer, Leave, Goto
<1>2. ASSUME NEW h, Validate(h) \/ Admit(h) \/ Refuse(h) \/ Reserve(h) \/ Reject(h) \/ Route(h) \/ Progress(h)
      PROVE  UNCHANGED policy
  BY <1>1, <1>2, Zenon DEF Validate, Advance, Admit, Refuse, Reserve, Reject, Route, Progress
<1>3. ASSUME NEW h, NEW e, NEW b, Fails(h, e, b) PROVE UNCHANGED policy
  BY <1>3, Zenon DEF Fails
<1>4. ASSUME NEW h, \/ Select(h) \/ Start(h) \/ CallFails(h) \/ Completes(h) \/ Opens(h)
                    \/ UsageEvent(h) \/ StreamDone(h) \/ StreamFails(h)
      PROVE  UNCHANGED policy
  BY <1>1, <1>3, <1>4, Zenon DEF Select, Start, CallFails, Completes, Opens, UsageEvent, StreamDone,
                                 StreamFails, ContextEnds
<1>5. ASSUME NEW h, ChunkEvent(h) PROVE UNCHANGED policy
  BY <1>3, <1>5, Zenon DEF ChunkEvent, Emit
<1>6. ASSUME NEW h, Complete(h) \/ Settle(h) \/ Fail(h) \/ Backoff(h) \/ Finish(h) \/ Reconcile(h)
      PROVE  UNCHANGED policy
  BY <1>1, <1>6, Zenon DEF Complete, Settle, Answer, Leave, Fail, Backoff, Finish, Reconcile
<1>7. ASSUME NEW h, NEW k, NEW i, \/ BadRequest(h) \/ Disconnect(h) \/ Submit(h, k, i)
                                  \/ Repeat(h, k, i) \/ Cancel(k)
      PROVE  UNCHANGED policy
  BY <1>1, <1>7, Zenon DEF BadRequest, Disconnect, Submit, Repeat, Leave, Cancel
<1> QED BY <1>2, <1>4, <1>5, <1>6, <1>7, Zenon DEF Next, Step, vars
=============================================================================
