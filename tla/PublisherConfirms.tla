-------------------------- MODULE PublisherConfirms --------------------------
(* Manager.Publish of internal/rabbitmq/rabbitmq.go: callers share one       *)
(* confirm-mode channel under a mutex, and one Go channel on which the AMQP  *)
(* library (external) delivers the broker's confirmations in order of        *)
(* publication. A caller stops waiting when its context ends.                *)
EXTENDS Naturals, Sequences

CONSTANTS Caller,
          Impatient,      \* callers whose context may end while they wait
          MaxMessages,    \* bound on publications
          Nobody

Tag == 1..MaxMessages

ASSUME ConfirmsAssumption ==
    /\ Impatient \subseteq Caller
    /\ Nobody \notin Caller \cup Tag
    /\ MaxMessages \in Nat

VARIABLES mu,        \* who holds the mutex
          published, \* publications on the channel so far
          broker,    \* per delivery tag: what the broker decided
          confirm,   \* confirmations not yet read: sequence of ack or nack. The Go channel
                     \* holds one; the library keeps the others back, in this order
          open,      \* the AMQP channel is open
          waiting,   \* per caller: the tag it published, Nobody if not waiting
          returned   \* results of Publish: records of tag and success

channelVars == <<mu, published, broker, confirm, open, waiting, returned>>

NewChannel ==
    /\ mu = Nobody
    /\ published = 0
    /\ broker = [t \in Tag |-> "unknown"]
    /\ confirm = <<>>
    /\ open = TRUE
    /\ waiting = [c \in Caller |-> Nobody]
    /\ returned = {}

\* Publish up to its select: the mutex, then PublishWithContext. On a closed
\* channel it returns the error and leaves the mutex free.
Publish(c) ==
    /\ mu = Nobody
    /\ open
    /\ published < MaxMessages
    /\ mu' = c
    /\ published' = published + 1
    /\ waiting' = [waiting EXCEPT ![c] = published + 1]
    /\ UNCHANGED <<broker, confirm, open, returned>>

Return(c, success) ==
    /\ returned' = returned \cup {[tag |-> waiting[c], success |-> success]}
    /\ waiting' = [waiting EXCEPT ![c] = Nobody]
    /\ mu' = Nobody

\* The select receives a confirmation, or finds the Go channel closed.
ReturnsOnAnyConfirmation(c) ==
    /\ waiting[c] # Nobody
    /\ confirm # <<>>
    /\ Return(c, TRUE)
    /\ confirm' = Tail(confirm)
    /\ UNCHANGED <<published, broker, open>>

ConfirmedWhileOpen(c) ==
    /\ waiting[c] # Nobody
    /\ confirm # <<>> /\ Return(c, Head(confirm) = "ack") /\ confirm' = Tail(confirm)
    /\ UNCHANGED <<published, broker, open>>

Confirmed(c) ==
    /\ waiting[c] # Nobody
    /\ \/ confirm # <<>> /\ Return(c, Head(confirm) = "ack") /\ confirm' = Tail(confirm)
       \/ confirm = <<>> /\ ~open /\ Return(c, FALSE) /\ UNCHANGED confirm
    /\ UNCHANGED <<published, broker, open>>

\* The select sees the end of the context.
ContextEnds(c) ==
    /\ c \in Impatient
    /\ waiting[c] # Nobody
    /\ Return(c, FALSE)
    /\ UNCHANGED <<published, broker, confirm, open>>

\* The broker accepts or refuses the oldest undecided publication (external).
Decide(answer) ==
    \E t \in 1..published :
      /\ open
      /\ broker[t] = "unknown"
      /\ \A s \in 1..t - 1 : broker[s] # "unknown"
      /\ broker' = [broker EXCEPT ![t] = answer]
      /\ confirm' = Append(confirm, answer)
      /\ UNCHANGED <<mu, published, open, waiting, returned>>

\* The channel breaks; the library closes the Go channel (external).
ChannelBreaks ==
    /\ open
    /\ open' = FALSE
    /\ UNCHANGED <<mu, published, broker, confirm, waiting, returned>>

BrokerStep == \E answer \in {"ack", "nack"} : Decide(answer)

ChannelNext ==
    \/ \E c \in Caller : Publish(c) \/ Confirmed(c) \/ ContextEnds(c)
    \/ BrokerStep
    \/ ChannelBreaks

ChannelSpec == NewChannel /\ [][ChannelNext]_channelVars

\* The broker answers while the channel is open, and callers go on.
FairChannelSpec == ChannelSpec /\ WF_channelVars(BrokerStep) /\ \A c \in Caller : WF_channelVars(Confirmed(c))

------------------------------------------------------------------------------
ChannelTypeOK ==
    /\ mu \in Caller \cup {Nobody}
    /\ published \in 0..MaxMessages
    /\ broker \in [Tag -> {"unknown", "ack", "nack"}]
    /\ confirm \in Seq({"ack", "nack"})
    /\ open \in BOOLEAN
    /\ waiting \in [Caller -> Tag \cup {Nobody}]
    /\ returned \subseteq [tag : Tag, success : BOOLEAN]

\* The confirmation Publish reads is its own: success means the broker acknowledged
\* this publication, unless an earlier caller left its confirmation unread or read
\* that of another.
OwnConfirmation ==
    \A r \in returned : r.success =>
      \/ broker[r.tag] = "ack"
      \/ \E q \in returned : q.tag < r.tag /\ ~q.success /\ broker[q.tag] # "nack"

\* Publish returns, and lets the next caller have the channel.
CallersReturn == \A c \in Caller : waiting[c] # Nobody ~> waiting[c] = Nobody

------------------------------------------------------------------------------
(* Statements of the documentation, the comments or the tests that this code  *)
(* does not keep; README.md says how each one fails.                          *)

\* Publish returns success only for a publication the broker acknowledged.
SuccessIsAcknowledged == \A r \in returned : r.success => broker[r.tag] = "ack"
===============================================================================
