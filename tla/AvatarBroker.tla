---------------------------- MODULE AvatarBroker ----------------------------
(***************************************************************************)
(* RabbitMQ as rabbitmq.go declares and uses it.  A message is an outbox   *)
(* event together with the retry attempt in its header; its event tells    *)
(* which of the two work queues it travels through and its attempt which   *)
(* retry queue it waits in.  Queues are bags: the worker selects between   *)
(* its two consumers at random, and a retried or redelivered message       *)
(* overtakes others, so no order between two messages can be relied on.    *)
(***************************************************************************)
EXTENDS AvatarEvents, Naturals

CONSTANTS MaxRetries,   \* retry queues per work queue: 5 s, 10 s and 20 s
          Workers,      \* the worker processes, each with one connection
          None          \* no message, no event

ASSUME MaxRetriesAssumption == MaxRetries \in Nat

VARIABLES ready,        \* avatars.processing and avatars.deletion
          retry,        \* the retry queues
          dlq,          \* avatars.dlq
          conn          \* whether a process still has its connection

queues     == <<ready, retry, dlq>>
brokerVars == <<ready, retry, dlq, conn>>
-----------------------------------------------------------------------------
Attempts == 0 .. MaxRetries
Messages == [event : Events, attempt : Attempts]

ASSUME NoneAssumption == None \notin Messages /\ None \notin Events

BrokerTypeOK ==
    /\ ready \in [Messages -> Nat]
    /\ retry \in [Messages -> Nat]
    /\ dlq \in [Messages -> Nat]
    /\ conn \in [Workers -> BOOLEAN]

BrokerInit ==
    /\ ready = [m \in Messages |-> 0]
    /\ retry = [m \in Messages |-> 0]
    /\ dlq = [m \in Messages |-> 0]
    /\ conn = [w \in Workers |-> TRUE]

Plus(queue, m)  == [queue EXCEPT ![m] = @ + 1]
Minus(queue, m) == [queue EXCEPT ![m] = @ - 1]
-----------------------------------------------------------------------------
\* PublishJSON reaches the work queue bound to the routing key.  The channel
\* is not in confirm mode: a nil error says the frames were written, no more.
PublishJSON(e) ==
    /\ ready' = Plus(ready, [event |-> e, attempt |-> 0])
    /\ UNCHANGED <<retry, dlq>>

\* Bug: the first attempt has no queue.
HasLaterRetryQueue(attempt) == attempt \in 2 .. MaxRetries

\* UploadRetryQueue and DeleteRetryQueue know the attempts 1, 2 and 3.
HasRetryQueue(attempt) == attempt \in 1 .. MaxRetries

\* Bug: the attempt header keeps its value.
PublishRetrySameAttempt(m) ==
    /\ retry' = Plus(retry, m)
    /\ UNCHANGED <<ready, dlq>>

\* Bug: the attempt is counted by the caller and again here.
PublishRetryCountedTwice(m) ==
    /\ retry' = Plus(retry, [m EXCEPT !.attempt = @ + 2])
    /\ UNCHANGED <<ready, dlq>>

PublishRetry(m) ==
    /\ retry' = Plus(retry, [m EXCEPT !.attempt = @ + 1])
    /\ UNCHANGED <<ready, dlq>>

\* A delivery stays unacknowledged in the hands of its consumer.
Deliver(m) ==
    /\ ready[m] > 0
    /\ ready' = Minus(ready, m)
    /\ UNCHANGED <<retry, dlq>>

\* Reject(false) dead-letters the delivery as it was published.
Reject(m) ==
    /\ dlq' = Plus(dlq, m)
    /\ UNCHANGED <<ready, retry>>

\* The broker returns what a closed connection had not acknowledged.
Requeue(m) ==
    /\ ready' = Plus(ready, m)
    /\ UNCHANGED <<retry, dlq>>

\* x-message-ttl runs out: dead-lettered through the exchange to its work queue.
RetryExpires(m) ==
    /\ retry[m] > 0
    /\ retry' = Minus(retry, m)
    /\ ready' = Plus(ready, m)
    /\ UNCHANGED <<dlq, conn>>

\* Copies of an event the broker has and no consumer holds.
Stored(e) == \E m \in Messages : m.event = e /\ ready[m] + retry[m] > 0
DeadLettered(e) == \E m \in Messages : m.event = e /\ dlq[m] > 0
=============================================================================
