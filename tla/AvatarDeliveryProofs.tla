------------------------ MODULE AvatarDeliveryProofs ------------------------
(***************************************************************************)
(* No event is lost between the outbox and its processing, for any number  *)
(* of worker processes, failures, disconnections and crashes, as long as   *)
(* no connection dies under a publish.  The argument follows a copy of the *)
(* event: no step of any actor loses the last safe one (SafeCopyStays),    *)
(* and nobody forgets an event before there is one (MarkStep, AckStep).    *)
(***************************************************************************)
EXTENDS AvatarPipelineProofs

USE MaxRetriesAssumption, NoneAssumption

\* What the types say about queues and hands.
LEMMA QueueTypes ==
    ASSUME TypeInv
    PROVE  /\ ready \in [Messages -> Nat] /\ retry \in [Messages -> Nat]
           /\ dlq \in [Messages -> Nat] /\ conn \in [Workers -> BOOLEAN]
           /\ wpc \in [Workers -> Calls] /\ msg \in [Workers -> Messages \cup {None}]
           /\ \A m \in Messages : m.event \in Events /\ m.attempt \in Attempts
           /\ \A w \in Workers : wpc[w] # "idle" => msg[w] \in Messages
  BY DEF TypeInv, TypeOK, BrokerTypeOK, WorkerTypeOK, InHand, Messages

\* No copy of an event leaves the queues.
Grow == \A e \in Events : /\ Stored(e) => Stored(e)'
                          /\ DeadLettered(e) => DeadLettered(e)'

LEMMA GrowIfSame == UNCHANGED queues => Grow
  BY DEF Grow, queues, Stored, DeadLettered

\* A copy added to a work queue or a retry queue is stored.
LEMMA StoredByPlus ==
    ASSUME TypeInv, NEW m \in Messages, UNCHANGED dlq,
           \/ ready' = Plus(ready, m) /\ UNCHANGED retry
           \/ retry' = Plus(retry, m) /\ UNCHANGED ready
    PROVE  Grow /\ Stored(m.event)'
  <1> USE QueueTypes DEF Plus
  <1>1. \A n \in Messages : /\ ready'[n] \in Nat /\ ready'[n] >= ready[n]
                            /\ retry'[n] \in Nat /\ retry'[n] >= retry[n]
    <2>1. CASE ready' = Plus(ready, m) /\ UNCHANGED retry
      BY <2>1
    <2>2. CASE retry' = Plus(retry, m) /\ UNCHANGED ready
      BY <2>2
    <2> QED
      BY <2>1, <2>2
  <1>2. ready'[m] + retry'[m] > 0
    <2>1. CASE ready' = Plus(ready, m) /\ UNCHANGED retry
      BY <2>1
    <2>2. CASE retry' = Plus(retry, m) /\ UNCHANGED ready
      BY <2>2
    <2> QED
      BY <2>1, <2>2
  <1>3. \A n \in Messages : ready[n] + retry[n] > 0 => ready'[n] + retry'[n] > 0
    BY <1>1
  <1> QED
    BY <1>2, <1>3 DEF Grow, Stored, DeadLettered

\* Publishing an event, for the first time or again, stores a copy of it.
LEMMA StoredByPublish ==
    ASSUME TypeInv, NEW e \in Events, PublishJSON(e) PROVE Grow /\ Stored(e)'
  <1> DEFINE m == [event |-> e, attempt |-> 0]
  <1>1. m \in Messages /\ m.event = e
    BY DEF Messages, Attempts
  <1>2. ready' = Plus(ready, m) /\ UNCHANGED <<retry, dlq>>
    BY DEF PublishJSON
  <1> HIDE DEF m
  <1> QED
    BY <1>1, <1>2, StoredByPlus

LEMMA StoredByRetry ==
    ASSUME TypeInv, NEW m \in Messages, HasRetryQueue(m.attempt + 1), PublishRetry(m)
    PROVE  Grow /\ Stored(m.event)'
  <1> DEFINE n == [m EXCEPT !.attempt = @ + 1]
  <1>1. n \in Messages /\ n.event = m.event
    BY DEF Messages, Attempts, HasRetryQueue
  <1>2. retry' = Plus(retry, n) /\ UNCHANGED <<ready, dlq>>
    BY DEF PublishRetry
  <1> HIDE DEF n
  <1> QED
    BY <1>1, <1>2, StoredByPlus

\* A rejected message is among the dead letters.
LEMMA DeadByReject ==
    ASSUME TypeInv, NEW m \in Messages, Reject(m) PROVE Grow /\ DeadLettered(m.event)'
  <1> USE QueueTypes
  <1>1. \A n \in Messages : dlq'[n] \in Nat /\ dlq'[n] >= dlq[n]
    BY DEF Reject, Plus
  <1>2. dlq'[m] > 0
    BY DEF Reject, Plus
  <1>3. UNCHANGED <<ready, retry>>
    BY DEF Reject
  <1>4. \A n \in Messages : dlq[n] > 0 => dlq'[n] > 0
    BY <1>1
  <1> QED
    BY <1>2, <1>3, <1>4 DEF Grow, Stored, DeadLettered

\* A message that has waited out its TTL is still stored, in another queue.
LEMMA GrowByExpiry ==
    ASSUME TypeInv, NEW m \in Messages, RetryExpires(m) PROVE Grow
  <1> USE QueueTypes
  <1>1. ASSUME NEW n \in Messages, ready[n] + retry[n] > 0
        PROVE  ready'[n] + retry'[n] > 0
    <2>1. CASE n = m
      BY <2>1 DEF RetryExpires, Plus, Minus
    <2>2. CASE n # m
      BY <1>1, <2>2 DEF RetryExpires, Plus, Minus
    <2> QED
      BY <2>1, <2>2
  <1> QED
    BY <1>1 DEF Grow, Stored, DeadLettered, RetryExpires

\* A delivery takes one copy of its own event.
LEMMA DeliveryTakes ==
    ASSUME TypeInv, NEW m \in Messages, Deliver(m), NEW e \in Events, e # m.event
    PROVE  /\ Stored(e) => Stored(e)'
           /\ DeadLettered(e) => DeadLettered(e)'
  <1> USE QueueTypes
  <1>1. \A n \in Messages : n # m => ready'[n] = ready[n] /\ retry'[n] = retry[n]
    BY DEF Deliver, Minus
  <1> QED
    BY <1>1 DEF Deliver, Stored, DeadLettered

\* A closing connection gives the message of its worker back.
LEMMA StoredByTakingBack ==
    ASSUME TypeInv, NEW w \in Workers, TakenBack(w), NEW e \in Events
    PROVE  /\ Grow
           /\ Holds(w, e) => Stored(e)'
  <1>1. CASE wpc[w] # "idle" /\ conn[w]
    <2>1. PICK m \in Messages : m = msg[w]
      BY <1>1, QueueTypes
    <2>2. ready' = Plus(ready, m) /\ UNCHANGED <<retry, dlq>>
      BY <1>1, <2>1 DEF TakenBack, Requeue
    <2>3. Grow /\ Stored(m.event)'
      BY <2>2, StoredByPlus
    <2> QED
      BY <2>1, <2>3 DEF Holds
  <1>2. CASE ~(wpc[w] # "idle" /\ conn[w])
    BY <1>2, GrowIfSame DEF TakenBack, Holds
  <1> QED
    BY <1>1, <1>2
-----------------------------------------------------------------------------
(***************************************************************************)
(* No step loses the last safe copy.                                       *)
(***************************************************************************)

\* It is enough to look at the copy in the hands of the worker that moves.
LEMMA OthersHold ==
    ASSUME NEW e \in Events, NEW w \in Workers, SafeCopy(e),
           Grow, processed \subseteq processed',
           \A v \in Workers : v # w => /\ wpc'[v] = wpc[v] /\ msg'[v] = msg[v]
                                      /\ conn'[v] = conn[v],
           Holds(w, e) /\ wpc[w] # "ack" => SafeCopy(e)'
    PROVE  SafeCopy(e)'
  <1>1. CASE e \in processed \/ Stored(e) \/ DeadLettered(e)
    BY <1>1 DEF Grow, SafeCopy
  <1>2. ASSUME NEW v \in Workers, v # w, Holds(v, e) /\ wpc[v] # "ack"
        PROVE  SafeCopy(e)'
    <2>1. (Holds(v, e) /\ wpc[v] # "ack")'
      BY <1>2 DEF Holds
    <2> QED
      BY <2>1 DEF SafeCopy
  <1> QED
    BY <1>1, <1>2 DEF SafeCopy

\* The table processed_messages only grows.
LEMMA ProcessedGrows == TypeInv /\ [Next]_vars => processed \subseteq processed'
  BY StorageEffect DEF MarkProcessed

\* A worker goes from call to call with its message in hand, and acknowledges
\* only what is processed or published again.
LEMMA WorkKeeps ==
    ASSUME TypeInv, NEW e \in Events, SafeCopy(e), NEW w \in Workers, Work(w),
           processed \subseteq processed'
    PROVE  SafeCopy(e)'
  <1> USE QueueTypes
  <1>g. ASSUME NEW next, wpc'[w] = next, next \notin {"idle", "ack"},
               msg'[w] = msg[w], conn' = conn, Holds(w, e)
        PROVE  SafeCopy(e)'
    BY <1>g DEF SafeCopy, Holds
  <1>c. ASSUME NEW next, next # "idle", UNCHANGED brokerVars,
               Goes(w, next) \/ Goes(w, "retry"),
               Goes(w, "ack") /\ Holds(w, e) => e \in processed'
        PROVE  SafeCopy(e)'
    <2>1. /\ wpc' = [wpc EXCEPT ![w] = wpc'[w]]
          /\ wpc'[w] # "idle" /\ msg' = msg /\ conn' = conn
      BY <1>c DEF Goes, brokerVars
    <2>2. wpc'[w] = "ack" => Goes(w, "ack")
      BY <1>c, <2>1 DEF Goes
    <2>3. Holds(w, e) => SafeCopy(e)'
      BY <1>c, <1>g, <2>1, <2>2 DEF SafeCopy
    <2>4. Grow
      BY <1>c, GrowIfSame DEF brokerVars, queues
    <2> QED
      BY <2>1, <2>3, <2>4, OthersHold
  <1>1. CASE Take(w)
    <2>1. PICK m \in Messages : Deliver(m) /\ msg' = [msg EXCEPT ![w] = m]
      BY <1>1 DEF Take
    <2>2. conn[w] /\ conn' = conn /\ wpc'[w] = "check" /\ msg'[w] = m /\ wpc[w] = "idle"
      BY <1>1, <2>1 DEF Take
    <2>3. \A v \in Workers : v # w => wpc'[v] = wpc[v] /\ msg'[v] = msg[v]
      BY <1>1, <2>1 DEF Take
    <2>4. CASE m.event = e
      BY <2>2, <2>4 DEF SafeCopy, Holds
    <2>5. CASE m.event # e
      <3>1. /\ Stored(e) => Stored(e)'
            /\ DeadLettered(e) => DeadLettered(e)'
        BY <2>1, <2>5, DeliveryTakes
      <3>2. ASSUME NEW v \in Workers, Holds(v, e), wpc[v] # "ack" PROVE SafeCopy(e)'
        <4>1. v # w
          BY <2>2, <3>2 DEF Holds
        <4>2. (Holds(v, e) /\ wpc[v] # "ack")'
          BY <2>2, <2>3, <3>2, <4>1 DEF Holds
        <4> QED
          BY <4>2 DEF SafeCopy
      <3> QED
        BY <3>1, <3>2 DEF SafeCopy
    <2> QED
      BY <2>4, <2>5
  <1>2. CASE Check(w)
    <2>1. conn' = conn /\ msg' = msg /\ UNCHANGED queues
      BY <1>2 DEF Check, Goes, brokerVars, queues
    <2>2. \A v \in Workers : v # w => wpc'[v] = wpc[v]
      BY <1>2 DEF Check, Goes
    <2>3. /\ wpc'[w] # "idle"
          /\ wpc'[w] = "ack" => msg[w].event \in processed
      BY <1>2 DEF Check, Goes, IsProcessed
    <2>4. Holds(w, e) => SafeCopy(e)'
      <3>1. CASE wpc'[w] = "ack"
        BY <2>3, <3>1 DEF Holds, SafeCopy
      <3>2. CASE wpc'[w] # "ack"
        BY <1>g, <2>1, <2>3, <3>2
      <3> QED
        BY <3>1, <3>2
    <2> QED
      BY <2>1, <2>2, <2>4, GrowIfSame, OthersHold
  <1>3. CASE NotThere(w) \/ SetProcessing(w) \/ GetOriginal(w) \/ PutThumbnail100(w)
    BY <1>3, <1>c DEF NotThere, SetProcessing, GetOriginal, PutThumbnail100, Call, Goes
  <1>4. CASE PutThumbnail300(w) \/ SaveThumbnailKeys(w) \/ SetCompleted(w)
    BY <1>4, <1>c DEF PutThumbnail300, SaveThumbnailKeys, SetCompleted, Call, Goes
  <1>5. CASE MarkDone(w)
    <2>1. CASE MarkProcessed(msg[w].event) /\ Goes(w, "ack")
      BY <1>5, <1>c, <2>1 DEF MarkDone, Call, MarkProcessed, Holds
    <2>2. CASE Goes(w, "retry")
      BY <1>5, <1>c, <2>2 DEF MarkDone, Call, Goes
    <2> QED
      BY <1>5, <2>1, <2>2 DEF MarkDone, Call
  <1>6. CASE DeleteKey(w)
    <2>1. conn' = conn /\ msg' = msg /\ UNCHANGED queues
      BY <1>6 DEF DeleteKey, Goes, brokerVars, queues
    <2>2. /\ \A v \in Workers : v # w => wpc'[v] = wpc[v]
          /\ wpc'[w] \notin {"idle", "ack"}
      BY <1>6 DEF DeleteKey, Goes
    <2>3. Holds(w, e) => SafeCopy(e)'
      BY <1>g, <2>1, <2>2
    <2> QED
      BY <2>1, <2>2, <2>3, GrowIfSame, OthersHold
  <1>d. Done(w) => \A v \in Workers : v # w => wpc'[v] = wpc[v] /\ msg'[v] = msg[v]
    BY DEF Done
  <1>7. CASE Ack(w)
    <2>1. wpc[w] = "ack" /\ Done(w) /\ conn' = conn /\ UNCHANGED queues
      BY <1>7 DEF Ack, brokerVars, queues
    <2> QED
      BY <1>d, <2>1, GrowIfSame, OthersHold
  <1>8. CASE Retry(w)
    <2>1. wpc[w] = "retry" /\ msg' = msg /\ conn' = conn
      BY <1>8 DEF Retry, Goes
    <2>2. \A v \in Workers : v # w => wpc'[v] = wpc[v]
      BY <1>8 DEF Retry, Goes
    <2>3. PICK m \in Messages : m = msg[w]
      BY <2>1
    <2>4. Grow
      BY <1>8, <2>3, GrowIfSame, StoredByRetry DEF Retry
    <2>5. \/ wpc'[w] = "reject"
          \/ wpc'[w] = "ack" /\ HasRetryQueue(m.attempt + 1) /\ PublishRetry(m)
      BY <1>8, <2>3 DEF Retry, Goes
    <2>6. Holds(w, e) => SafeCopy(e)'
      <3>1. CASE wpc'[w] = "reject"
        BY <1>g, <2>1, <3>1
      <3>2. CASE HasRetryQueue(m.attempt + 1) /\ PublishRetry(m)
        BY <2>3, <3>2, StoredByRetry DEF Holds, SafeCopy
      <3> QED
        BY <2>5, <3>1, <3>2
    <2> QED
      BY <2>1, <2>2, <2>4, <2>6, OthersHold
  <1>9. CASE RejectMessage(w)
    <2>1. wpc[w] = "reject" /\ Done(w) /\ conn' = conn
      BY <1>9 DEF RejectMessage
    <2>2. PICK m \in Messages : m = msg[w]
      BY <2>1
    <2>3. Grow /\ (conn[w] => DeadLettered(m.event)')
      BY <1>9, <2>2, GrowIfSame, DeadByReject DEF RejectMessage
    <2>4. Holds(w, e) => SafeCopy(e)'
      BY <2>2, <2>3 DEF Holds, SafeCopy
    <2> QED
      BY <1>d, <2>1, <2>3, <2>4, OthersHold
  <1> QED
    BY <1>1, <1>2, <1>3, <1>4, <1>5, <1>6, <1>7, <1>8, <1>9 DEF Work, WorkerStep

\* Neither does a step of any other actor.
LEMMA SafeCopyStays ==
    ASSUME TypeInv, NEW e \in Events, SafeCopy(e), [Next]_vars PROVE SafeCopy(e)'
  <1>p. processed \subseteq processed'
    BY ProcessedGrows
  <1>u. ASSUME Grow, UNCHANGED <<wpc, msg, conn>> PROVE SafeCopy(e)'
    BY <1>p, <1>u DEF Grow, SafeCopy, Holds
  <1>1. CASE Serve \/ UNCHANGED vars
    BY <1>1, <1>u, GrowIfSame DEF Serve, vars, brokerVars, workerVars, queues
  <1>2. CASE Expire
    BY <1>2, <1>u, GrowByExpiry DEF Expire, RetryExpires, workerVars
  <1>3. ASSUME NEW w \in Workers, PublishSome(w) PROVE SafeCopy(e)'
    <2>1. UNCHANGED <<wpc, msg, conn>>
      BY <1>3 DEF PublishSome, PublisherStep, Poll, Publish, Mark, workerVars, brokerVars
    <2>2. Grow
      <3>1. UNCHANGED queues \/ \E d \in batch[w] : PublishJSON(d)
        BY <1>3 DEF PublishSome, PublisherStep, Poll, Publish, Mark, brokerVars, queues
      <3> QED
        BY <3>1, GrowIfSame, StoredByPublish, InHandFacts
    <2> QED
      BY <1>u, <2>1, <2>2
  <1>4. ASSUME NEW w \in Workers, Disconnect(w) \/ PublishLost(w) \/ Crash(w)
        PROVE  SafeCopy(e)'
    <2>1. TakenBack(w)
      BY <1>4 DEF Disconnect, PublishLost, Crash
    <2>2. \A v \in Workers : v # w => /\ wpc'[v] = wpc[v] /\ msg'[v] = msg[v]
                                     /\ conn'[v] = conn[v]
      BY <1>4, QueueTypes DEF Disconnect, PublishLost, Crash, Restart, Done, workerVars
    <2> QED
      BY <1>p, <2>1, <2>2, StoredByTakingBack, OthersHold DEF SafeCopy
  <1>5. ASSUME NEW w \in Workers, Redeploy(w) PROVE SafeCopy(e)'
    <2>1. wpc[w] = "idle" /\ UNCHANGED queues
      BY <1>5 DEF Redeploy
    <2>2. \A v \in Workers : v # w => /\ wpc'[v] = wpc[v] /\ msg'[v] = msg[v]
                                     /\ conn'[v] = conn[v]
      BY <1>5, QueueTypes DEF Redeploy, Restart, Done
    <2> QED
      BY <1>p, <2>1, <2>2, GrowIfSame, OthersHold DEF Holds
  <1> QED
    BY <1>p, <1>1, <1>2, <1>3, <1>4, <1>5, WorkKeeps DEF Next
-----------------------------------------------------------------------------
(***************************************************************************)
(* Nobody forgets an event before there is a safe copy of it.              *)
(***************************************************************************)

\* A publisher comes to mark an event by publishing it, or by losing it.
LEMMA MarkStep ==
    ASSUME TypeInv, [Next]_vars, losses' = 0, NEW w \in Workers, ppc'[w] = "mark"
    PROVE  \/ ppc[w] = "mark" /\ publishing'[w] = publishing[w]
           \/ \E e \in Events : publishing'[w] = e /\ Stored(e)'
  <1> DEFINE Goal == \/ ppc[w] = "mark" /\ publishing'[w] = publishing[w]
                     \/ \E e \in Events : publishing'[w] = e /\ Stored(e)'
  <1>t. /\ ppc \in [Workers -> {"poll", "publish", "mark"}]
        /\ batch \in [Workers -> SUBSET Events]
        /\ publishing \in [Workers -> Events \cup {None}] /\ losses \in Nat
    BY DEF TypeInv, TypeOK, PublisherTypeOK
  <1>1. CASE Serve \/ Expire \/ UNCHANGED vars \/ \E v \in Workers : Disconnect(v) \/ Work(v)
    BY <1>1 DEF Serve, Expire, vars, Disconnect, Work, publisherVars
  <1>2. ASSUME NEW v \in Workers, Crash(v) \/ Redeploy(v) PROVE Goal
    BY <1>2, <1>t DEF Crash, Redeploy, Restart, GiveUp, Publisher
  <1>3. ASSUME NEW v \in Workers, PublishLost(v) PROVE Goal
    BY <1>3, <1>t DEF PublishLost
  <1>4. ASSUME NEW v \in Workers, Publish(v) PROVE Goal
    <2>1. CASE GiveUp(v)
      BY <2>1, <1>t DEF GiveUp, Publisher
    <2>2. CASE \E e \in batch[v] : PublishJSON(e) /\ Publisher(v, "mark", batch[v], e)
      <3>1. PICK e \in batch[v] : PublishJSON(e) /\ Publisher(v, "mark", batch[v], e)
        BY <2>2
      <3>2. e \in Events /\ Stored(e)'
        BY <3>1, <1>t, StoredByPublish
      <3> QED
        BY <3>1, <3>2, <1>t DEF Publisher
    <2> QED
      BY <1>4, <2>1, <2>2 DEF Publish
  <1>5. ASSUME NEW v \in Workers, Poll(v) \/ Mark(v) PROVE Goal
    BY <1>5, <1>t DEF Poll, Mark, GiveUp, Publisher
  <1> QED
    BY <1>1, <1>2, <1>3, <1>4, <1>5 DEF Next, PublishSome, PublisherStep

\* A worker comes to acknowledge a message whose event is processed or whose
\* retry is published.
LEMMA AckStep ==
    ASSUME TypeInv, [Next]_vars, NEW w \in Workers, wpc'[w] = "ack"
    PROVE  \/ wpc[w] = "ack" /\ msg'[w] = msg[w]
           \/ \E e \in Events : msg'[w].event = e /\ (Stored(e)' \/ e \in processed')
  <1> DEFINE Goal == \/ wpc[w] = "ack" /\ msg'[w] = msg[w]
                     \/ \E e \in Events : msg'[w].event = e /\ (Stored(e)' \/ e \in processed')
  <1> USE QueueTypes
  <1>1. CASE Serve \/ Expire \/ UNCHANGED vars
             \/ \E v \in Workers : PublishSome(v) \/ Disconnect(v) \/ PublishLost(v)
    BY <1>1 DEF Serve, Expire, vars, PublishSome, Disconnect, PublishLost, workerVars
  <1>2. ASSUME NEW v \in Workers, Done(v) PROVE Goal
    BY <1>2 DEF Done
  <1>3. ASSUME NEW v \in Workers, NEW next, next # "ack", Goes(v, next) PROVE Goal
    BY <1>3 DEF Goes
  <1>4. ASSUME NEW v \in Workers, Take(v) PROVE Goal
    BY <1>4 DEF Take
  <1>5. ASSUME NEW v \in Workers, Check(v) PROVE Goal
    <2>1. CASE v = w
      BY <1>5, <2>1 DEF Check, Goes, IsProcessed, storageVars
    <2>2. CASE v # w
      BY <1>5, <2>2 DEF Check, Goes
    <2> QED
      BY <2>1, <2>2
  <1>6. ASSUME NEW v \in Workers, NotThere(v) \/ SetProcessing(v) \/ GetOriginal(v)
                                     \/ PutThumbnail100(v) PROVE Goal
    BY <1>3, <1>6 DEF NotThere, SetProcessing, GetOriginal, PutThumbnail100, Call
  <1>7. ASSUME NEW v \in Workers, PutThumbnail300(v) \/ SaveThumbnailKeys(v)
                                     \/ SetCompleted(v) PROVE Goal
    BY <1>3, <1>7 DEF PutThumbnail300, SaveThumbnailKeys, SetCompleted, Call
  <1>8. ASSUME NEW v \in Workers, DeleteKey(v) PROVE Goal
    BY <1>8 DEF DeleteKey, Goes
  <1>9. ASSUME NEW v \in Workers, MarkDone(v) PROVE Goal
    <2>1. CASE Goes(v, "retry")
      BY <1>3, <2>1
    <2>2. CASE MarkProcessed(msg[v].event) /\ Goes(v, "ack")
      BY <1>9, <2>2 DEF MarkDone, Call, MarkProcessed, Goes
    <2> QED
      BY <1>9, <2>1, <2>2 DEF MarkDone, Call
  <1>10. ASSUME NEW v \in Workers, Retry(v) PROVE Goal
    <2>1. CASE Goes(v, "reject")
      BY <1>3, <2>1
    <2>2. CASE HasRetryQueue(msg[v].attempt + 1) /\ PublishRetry(msg[v]) /\ Goes(v, "ack")
      <3>1. PICK m \in Messages : m = msg[v]
        BY <1>10 DEF Retry
      <3>2. Stored(m.event)'
        BY <2>2, <3>1, StoredByRetry
      <3> QED
        BY <2>2, <3>1, <3>2 DEF Goes
    <2> QED
      BY <1>10, <2>1, <2>2 DEF Retry
  <1> QED
    BY <1>1, <1>2, <1>4, <1>5, <1>6, <1>7, <1>8, <1>9, <1>10
       DEF Next, Work, WorkerStep, Ack, RejectMessage, Crash, Redeploy, Restart

\* The count of swallowed publishes never goes back to zero.
LEMMA LossesStay ==
    ASSUME TypeInv, [Next]_vars, losses' = 0 PROVE losses = 0
  <1>1. losses \in Nat
    BY DEF TypeInv, TypeOK, PublisherTypeOK
  <1>2. CASE Serve \/ Expire \/ UNCHANGED vars
    BY <1>2 DEF Serve, Expire, vars, publisherVars
  <1>3. ASSUME NEW w \in Workers, PublishSome(w) \/ Work(w) PROVE losses = 0
    BY <1>3 DEF PublishSome, PublisherStep, Poll, Publish, Mark, Work, publisherVars
  <1>4. ASSUME NEW w \in Workers, Disconnect(w) \/ Crash(w) \/ Redeploy(w) PROVE losses = 0
    BY <1>4 DEF Disconnect, Crash, Redeploy, Restart, publisherVars
  <1>5. ASSUME NEW w \in Workers, PublishLost(w) PROVE losses = 0
    BY <1>1, <1>5 DEF PublishLost
  <1> QED
    BY <1>2, <1>3, <1>4, <1>5 DEF Next

LEMMA DeliveryInit == Init => Delivery
  BY DEF Init, Delivery, StorageInit, PublisherInit, WorkerInit

LEMMA DeliveryStep == IInv /\ Delivery /\ [Next]_vars => Delivery'
  <1> SUFFICES ASSUME IInv, Delivery, [Next]_vars, losses' = 0
               PROVE  /\ \A e \in Events : outbox'[e] = "published" => SafeCopy(e)'
                      /\ \A w \in Workers : ppc'[w] = "mark" => SafeCopy(publishing[w])'
                      /\ \A w \in Workers : wpc'[w] = "ack" => SafeCopy(msg[w].event)'
    BY DEF Delivery
  <1>i. TypeInv /\ Origin
    BY DEF IInv, Origin
  <1>d. /\ \A e \in Events : outbox[e] = "published" => SafeCopy(e)
        /\ \A w \in Workers : ppc[w] = "mark" => SafeCopy(publishing[w])
        /\ \A w \in Workers : wpc[w] = "ack" => SafeCopy(msg[w].event)
    BY LossesStay, <1>i DEF Delivery
  <1>s. \A e \in Events : SafeCopy(e) => SafeCopy(e)'
    BY <1>i, SafeCopyStays
  <1>1. ASSUME NEW e \in Events, outbox'[e] = "published" PROVE SafeCopy(e)'
    <2>1. outbox[e] = "published" \/ \E w \in Workers : ppc[w] = "mark" /\ publishing[w] = e
      BY <1>1, <1>i, OutboxStep
    <2> QED
      BY <1>d, <1>s, <2>1
  <1>2. ASSUME NEW w \in Workers, ppc'[w] = "mark" PROVE SafeCopy(publishing[w])'
    <2>1. ASSUME NEW e \in Events, SafeCopy(e)', publishing'[w] = e
          PROVE  SafeCopy(publishing[w])'
      BY <2>1
    <2>2. CASE ppc[w] = "mark" /\ publishing'[w] = publishing[w]
      <3>1. PICK e \in Events : e = publishing[w]
        BY <1>i, <2>2, InHandFacts
      <3> QED
        BY <1>d, <1>s, <2>1, <2>2, <3>1
    <2>3. CASE \E e \in Events : publishing'[w] = e /\ Stored(e)'
      BY <2>1, <2>3 DEF SafeCopy
    <2> QED
      BY <1>2, <1>i, <2>2, <2>3, MarkStep
  <1>3. ASSUME NEW w \in Workers, wpc'[w] = "ack" PROVE SafeCopy(msg[w].event)'
    <2>1. ASSUME NEW e \in Events, SafeCopy(e)', msg'[w].event = e
          PROVE  SafeCopy(msg[w].event)'
      BY <2>1
    <2>2. CASE wpc[w] = "ack" /\ msg'[w] = msg[w]
      <3>1. PICK e \in Events : e = msg[w].event
        BY <1>i, <2>2, InHandFacts
      <3> QED
        BY <1>d, <1>s, <2>1, <2>2, <3>1
    <2>3. CASE \E e \in Events : msg'[w].event = e /\ (Stored(e)' \/ e \in processed')
      BY <2>1, <2>3 DEF SafeCopy
    <2> QED
      BY <1>3, <1>i, <2>2, <2>3, AckStep
  <1> QED
    BY <1>1, <1>2, <1>3

\* Whoever is about to forget an event, the publisher that marks it or the
\* worker that acknowledges it, leaves a copy that nobody is about to forget.
THEOREM DeliveryHolds == Spec => []Delivery
  BY Invariance, DeliveryInit, DeliveryStep, PTL DEF Spec

\* Unless a connection dies under a publish, a published event is processed,
\* in a queue, dead-lettered or in the hands of a worker, whatever else fails.
THEOREM NothingLost == Spec => []NoEventLost
  <1>1. Delivery => NoEventLost
    BY DEF Delivery, NoEventLost, SafeCopy, Tracked
  <1> QED
    BY DeliveryHolds, <1>1, PTL
-----------------------------------------------------------------------------
(***************************************************************************)
(* A message is given up only after two failures: every retry, but those   *)
(* of an upload deleted in the meantime, is paid for by a failure.         *)
(***************************************************************************)

\* Failures are counted one by one and never forgotten.
LEMMA FaultsStep ==
    ASSUME TypeInv, [Next]_vars
    PROVE  faults \in Nat /\ (faults' = faults \/ faults' = faults + 1)
  <1> USE DEF Fault, NoFault
  <1>0. faults \in Nat
    BY MaxFaultsAssumption DEF TypeInv, TypeOK
  <1>1. CASE Expire \/ UNCHANGED vars
    <2>1. UNCHANGED faults
      BY <1>1 DEF Expire, vars
    <2> QED
      BY <1>0, <2>1
  <1>2. CASE Serve
    <2>1. ASSUME NEW a \in Avatars, UploadPut(a) \/ UploadCreate(a)
          PROVE  faults' = faults \/ faults' = faults + 1
      BY <2>1 DEF UploadPut, UploadCreate
    <2>2. ASSUME NEW d \in Deleters, DeleteCommit(d) \/ \E a \in Avatars : DeleteRead(d, a)
          PROVE  faults' = faults \/ faults' = faults + 1
      BY <2>2 DEF DeleteRead, DeleteCommit
    <2> QED
      BY <1>0, <1>2, <2>1, <2>2 DEF Serve, ServiceStep
  <1>3. ASSUME NEW w \in Workers, PublishSome(w) PROVE faults' = faults \/ faults' = faults + 1
    BY <1>3 DEF PublishSome, PublisherStep, Poll, Publish, Mark
  <1>4. ASSUME NEW w \in Workers, Disconnect(w) \/ PublishLost(w) \/ Crash(w) \/ Redeploy(w)
        PROVE  faults' = faults \/ faults' = faults + 1
    BY <1>4 DEF Disconnect, PublishLost, Crash, Redeploy
  <1>5. ASSUME NEW w \in Workers, Work(w) PROVE faults' = faults \/ faults' = faults + 1
    <2>1. CASE Take(w) \/ Check(w) \/ NotThere(w) \/ DeleteKey(w) \/ Ack(w) \/ Retry(w)
               \/ RejectMessage(w)
      BY <2>1 DEF Take, Check, NotThere, DeleteKey, Ack, Retry, RejectMessage
    <2>2. CASE SetProcessing(w) \/ GetOriginal(w) \/ PutThumbnail100(w) \/ PutThumbnail300(w)
      BY <2>2 DEF SetProcessing, GetOriginal, PutThumbnail100, PutThumbnail300, Call
    <2>3. CASE SaveThumbnailKeys(w) \/ SetCompleted(w) \/ MarkDone(w)
      BY <2>3 DEF SaveThumbnailKeys, SetCompleted, MarkDone, Call
    <2> QED
      BY <1>5, <2>1, <2>2, <2>3 DEF Work, WorkerStep
  <1> QED
    BY <1>0, <1>1, <1>2, <1>3, <1>4, <1>5 DEF Next

\* How a worker comes to retry, and to give up while it is connected.
RetryWay(w) ==
    /\ wpc'[w] = "retry" =>
          /\ msg'[w] = msg[w]
          /\ wpc[w] = "retry" \/ NotThere(w) \/ (wpc[w] # "idle" /\ faults' = faults + 1)
    /\ wpc'[w] = "reject" /\ conn'[w] =>
          /\ msg'[w] = msg[w] /\ conn[w]
          /\ \/ wpc[w] = "reject"
             \/ /\ wpc[w] = "retry"
                /\ ~HasRetryQueue(msg[w].attempt + 1) \/ faults' = faults + 1

LEMMA RetryEffect ==
    ASSUME TypeInv, [Next]_vars PROVE \A w \in Workers : RetryWay(w)
  <1> USE QueueTypes
  <1>s. ASSUME NEW w \in Workers, wpc'[w] = wpc[w], msg'[w] = msg[w], conn'[w] => conn[w]
        PROVE  RetryWay(w)
    BY <1>s DEF RetryWay
  <1>k. ASSUME UNCHANGED workerVars, \A w \in Workers : conn'[w] => conn[w]
        PROVE  \A w \in Workers : RetryWay(w)
    BY <1>k, <1>s DEF workerVars
  <1>1. CASE Serve \/ Expire \/ UNCHANGED vars
    <2>1. UNCHANGED workerVars /\ UNCHANGED conn
      BY <1>1 DEF Serve, Expire, RetryExpires, vars, brokerVars
    <2> QED
      BY <1>k, <2>1
  <1>2. ASSUME NEW w \in Workers, PublishSome(w) \/ Disconnect(w) \/ PublishLost(w)
        PROVE  \A v \in Workers : RetryWay(v)
    <2>1. UNCHANGED workerVars /\ \A v \in Workers : conn'[v] => conn[v]
      BY <1>2 DEF PublishSome, PublisherStep, Poll, Publish, Mark, Disconnect, PublishLost,
                  brokerVars
    <2> QED
      BY <1>k, <2>1
  <1>d. ASSUME NEW w \in Workers, Done(w), \A v \in Workers : v # w => conn'[v] = conn[v]
        PROVE  \A v \in Workers : RetryWay(v)
    <2>1. \A v \in Workers : v # w => wpc'[v] = wpc[v] /\ msg'[v] = msg[v]
      BY <1>d DEF Done
    <2>2. wpc'[w] = "idle"
      BY <1>d DEF Done
    <2>3. RetryWay(w)
      BY <2>2 DEF RetryWay
    <2> QED
      BY <1>d, <1>s, <2>1, <2>3
  <1>3. ASSUME NEW w \in Workers, Crash(w) \/ Redeploy(w)
        PROVE  \A v \in Workers : RetryWay(v)
    BY <1>3, <1>d DEF Crash, Redeploy, Restart
  <1>4. ASSUME NEW w \in Workers, Work(w) PROVE \A v \in Workers : RetryWay(v)
    <2>o. ASSUME RetryWay(w), UNCHANGED conn,
                 \A v \in Workers : v # w => wpc'[v] = wpc[v] /\ msg'[v] = msg[v]
          PROVE  \A v \in Workers : RetryWay(v)
      BY <1>s, <2>o
    <2>g. ASSUME NEW next, Goes(w, next), UNCHANGED conn,
                 next = "retry" =>
                    NotThere(w) \/ (wpc[w] # "idle" /\ Fault),
                 next = "reject" =>
                    /\ wpc[w] = "retry"
                    /\ ~HasRetryQueue(msg[w].attempt + 1) \/ ~conn[w] \/ Fault
          PROVE  \A v \in Workers : RetryWay(v)
      <3>1. /\ wpc'[w] = next /\ msg'[w] = msg[w]
            /\ \A v \in Workers : v # w => wpc'[v] = wpc[v] /\ msg'[v] = msg[v]
        BY <2>g DEF Goes
      <3>2. RetryWay(w)
        BY <2>g, <3>1 DEF RetryWay, Fault
      <3> QED
        BY <2>g, <2>o, <3>1, <3>2
    <2>1. CASE Take(w)
      <3>1. /\ wpc'[w] = "check" /\ UNCHANGED conn
            /\ \A v \in Workers : v # w => wpc'[v] = wpc[v] /\ msg'[v] = msg[v]
        BY <2>1 DEF Take
      <3>2. RetryWay(w)
        BY <3>1 DEF RetryWay
      <3> QED
        BY <2>o, <3>1, <3>2
    <2>2. CASE Check(w)
      <3>1. CASE wpc' = [wpc EXCEPT ![w] = "delete"] /\ UNCHANGED msg
        <4>1. wpc'[w] = "delete" /\ \A v \in Workers : v # w => wpc'[v] = wpc[v] /\ msg'[v] = msg[v]
          BY <3>1
        <4>2. RetryWay(w)
          BY <4>1 DEF RetryWay
        <4> QED
          BY <2>2, <2>o, <4>1, <4>2 DEF Check, brokerVars
      <3> QED
        BY <2>2, <2>g, <3>1 DEF Check, brokerVars
    <2>3. CASE NotThere(w)
      BY <2>3, <2>g DEF NotThere, brokerVars
    <2>4. CASE SetProcessing(w) \/ GetOriginal(w)
      BY <2>4, <2>g DEF SetProcessing, GetOriginal, Call, brokerVars
    <2>5. CASE PutThumbnail100(w) \/ PutThumbnail300(w)
      BY <2>5, <2>g DEF PutThumbnail100, PutThumbnail300, Call, brokerVars
    <2>6. CASE SaveThumbnailKeys(w) \/ SetCompleted(w) \/ MarkDone(w)
      BY <2>6, <2>g DEF SaveThumbnailKeys, SetCompleted, MarkDone, Call, brokerVars
    <2>7. CASE DeleteKey(w)
      <3>1. CASE Goes(w, "retry") /\ Fault
        BY <2>7, <2>g, <3>1 DEF DeleteKey, brokerVars
      <3>2. CASE \E next \in {"mark", "delete"} : wpc' = [wpc EXCEPT ![w] = next] /\ UNCHANGED msg
        <4>1. /\ wpc'[w] \in {"mark", "delete"}
              /\ \A v \in Workers : v # w => wpc'[v] = wpc[v] /\ msg'[v] = msg[v]
          BY <3>2
        <4>2. RetryWay(w)
          BY <4>1 DEF RetryWay
        <4> QED
          BY <2>7, <2>o, <4>1, <4>2 DEF DeleteKey, brokerVars
      <3> QED
        BY <2>7, <3>1, <3>2 DEF DeleteKey
    <2>8. CASE Ack(w) \/ RejectMessage(w)
      BY <2>8, <1>d DEF Ack, RejectMessage, brokerVars
    <2>9. CASE Retry(w)
      BY <2>9, <2>g DEF Retry
    <2> QED
      BY <1>4, <2>1, <2>2, <2>3, <2>4, <2>5, <2>6, <2>7, <2>8, <2>9 DEF Work, WorkerStep
  <1> QED
    BY <1>1, <1>2, <1>3, <1>4 DEF Next

\* A copy of a message is accounted for as before after a step.
Paid(m) == Outdated(m.event) \/ m.attempt <= faults

LEMMA PaidStays ==
    ASSUME TypeInv, Origin, [Next]_vars, NEW m \in Messages
    PROVE  /\ Outdated(m.event) => Outdated(m.event)'
           /\ m.attempt \in Nat
           /\ Paid(m) => Paid(m)'
  <1>1. m.event.avatar \in Avatars /\ m.attempt \in Nat
    BY EventKinds DEF Messages, Attempts
  <1>2. Outdated(m.event) => Outdated(m.event)'
    BY <1>1, RowsAge DEF Outdated
  <1> QED
    BY <1>1, <1>2, FaultsStep DEF Paid

\* The call of a worker that works for a row it does not find, or an original,
\* is one for a deleted avatar.
LEMMA NotThereIsOutdated ==
    ASSUME IInv, NEW w \in Workers, NotThere(w) PROVE Outdated(msg[w].event)
  <1>1. wpc[w] \in UploadCalls /\ wpc[w] # "idle"
    BY DEF NotThere, UploadCalls
  <1>2. msg[w].event \in Events /\ msg[w].event.kind = "upload" /\ outbox[msg[w].event] # "none"
    BY <1>1, InHandFacts DEF IInv, TypeInv, InHand, Provenance
  <1>3. Subject(w) \in Avatars /\ row[Subject(w)].st # "none"
    BY <1>2, EventKinds DEF Subject, IInv, RowsAndEvents
  <1>4. ~Live(Subject(w))
    BY <1>3 DEF NotThere, IInv, BucketBehindRows, LiveHasOriginal
  <1>5. row[Subject(w)].st \in {"none", "live", "deleted"}
    BY <1>3 DEF IInv, TypeInv, TypeOK, StorageTypeOK, Rows
  <1> QED
    BY <1>2, <1>3, <1>4, <1>5 DEF Outdated, Live, Subject

\* A copy that a step adds to a queue.
LEMMA PaidQueues ==
    ASSUME IInv, RetriesArePaid, [Next]_vars, NEW m \in Messages, ready'[m] + retry'[m] > 0
    PROVE  Paid(m)'
  <1>i. TypeInv /\ Origin
    BY DEF IInv, Origin
  <1> USE <1>i, QueueTypes
  <1>f. faults \in Nat /\ (faults' = faults \/ faults' = faults + 1)
    BY FaultsStep
  <1>o. ready[m] + retry[m] > 0 => Paid(m)'
    BY PaidStays DEF RetriesArePaid, Paid
  <1>1. CASE UNCHANGED queues
    BY <1>1, <1>o DEF queues
  <1>2. ASSUME NEW w \in Workers, NEW e \in batch[w], PublishJSON(e) PROVE Paid(m)'
    <2>1. m # [event |-> e, attempt |-> 0] => ready'[m] = ready[m] /\ retry'[m] = retry[m]
      BY <1>2 DEF PublishJSON, Plus
    <2>2. m = [event |-> e, attempt |-> 0] => Paid(m)'
      BY <1>f DEF Paid
    <2> QED
      BY <1>o, <2>1, <2>2
  <1>3. ASSUME NEW w \in Workers, wpc[w] # "idle", Requeue(msg[w]) PROVE Paid(m)'
    <2>1. m # msg[w] => ready'[m] = ready[m] /\ retry'[m] = retry[m]
      BY <1>3 DEF Requeue, Plus
    <2>2. m = msg[w] => Paid(m)
      BY <1>3 DEF RetriesArePaid, Paid
    <2> QED
      BY <1>o, <2>1, <2>2, PaidStays
  <1>4. ASSUME NEW w \in Workers, wpc[w] = "retry", PublishRetry(msg[w]) PROVE Paid(m)'
    <2> DEFINE n == [msg[w] EXCEPT !.attempt = @ + 1]
    <2>1. m # n => ready'[m] = ready[m] /\ retry'[m] = retry[m]
      BY <1>4 DEF PublishRetry, Plus
    <2>2. m = n => Paid(m)
      <3>1. msg[w] \in Messages
        BY <1>4
      <3>2. n.event = msg[w].event /\ n.attempt = msg[w].attempt + 1
        BY <3>1 DEF Messages
      <3>3. Outdated(msg[w].event) \/ msg[w].attempt < faults
        BY <1>4 DEF RetriesArePaid
      <3>4. msg[w].attempt \in Nat
        BY <3>1, PaidStays
      <3> HIDE DEF n
      <3> QED
        BY <3>2, <3>3, <3>4, <1>f DEF Paid
    <2> HIDE DEF n
    <2> QED
      BY <1>o, <2>1, <2>2, PaidStays
  <1>5. ASSUME NEW n \in Messages, Deliver(n) \/ RetryExpires(n) PROVE Paid(m)'
    <2>1. ready[m] + retry[m] > 0
      <3>1. CASE m = n
        BY <1>5, <3>1 DEF Deliver, RetryExpires, Plus, Minus
      <3>2. CASE m # n
        BY <1>5, <3>2 DEF Deliver, RetryExpires, Plus, Minus
      <3> QED
        BY <3>1, <3>2
    <2> QED
      BY <1>o, <2>1
  <1>6. ASSUME NEW w \in Workers, Reject(msg[w]) PROVE Paid(m)'
    BY <1>6, <1>o DEF Reject
  <1> QED
    BY <1>1, <1>2, <1>3, <1>4, <1>5, <1>6, QueueEffect DEF QueueStep

\* Whatever is retried or given up after a step has been paid for.
LEMMA RetriesStep ==
    ASSUME MaxRetries >= 1, IInv, RetriesArePaid, [Next]_vars, TypeInv'
    PROVE  RetriesArePaid'
  <1>i. TypeInv /\ Origin
    BY DEF IInv, Origin
  <1> USE <1>i, QueueTypes
  <1>f. faults \in Nat /\ (faults' = faults \/ faults' = faults + 1)
    BY FaultsStep
  <1>1. \A m \in Messages : ready'[m] + retry'[m] > 0 => Paid(m)'
    BY PaidQueues
  <1>2. ASSUME NEW w \in Workers, wpc'[w] # "idle" PROVE Paid(msg[w])'
    <2>m. ASSUME NEW m \in Messages, Paid(m), msg'[w] = m PROVE Paid(msg[w])'
      <3>1. Paid(m)'
        BY <2>m, PaidStays
      <3> QED
        BY <2>m, <3>1 DEF Paid, Outdated
    <2>1. CASE wpc[w] # "idle" /\ msg'[w] = msg[w]
      <3>1. Paid(msg[w])
        BY <2>1 DEF RetriesArePaid, Paid
      <3> QED
        BY <2>1, <2>m, <3>1
    <2>2. ASSUME NEW m \in Messages, ready[m] > 0, msg'[w] = m PROVE Paid(msg[w])'
      <3>1. Paid(m)
        BY <2>2 DEF RetriesArePaid, Paid
      <3> QED
        BY <2>2, <2>m, <3>1
    <2> QED
      BY <1>2, <2>1, <2>2, QueueEffect DEF HandStep
  <1>3. ASSUME NEW w \in Workers, wpc'[w] = "retry"
        PROVE  (Outdated(msg[w].event) \/ msg[w].attempt < faults)'
    <2>1. msg'[w] = msg[w] /\ wpc[w] # "idle"
      BY <1>3, RetryEffect DEF RetryWay, NotThere
    <2>2. PICK m \in Messages : m = msg[w]
      BY <2>1
    <2>3. Outdated(m.event) => Outdated(m.event)'
      BY PaidStays
    <2>4. m.attempt \in Nat
      BY PaidStays
    <2>5. Outdated(m.event)' \/ m.attempt < faults'
      <3>1. CASE wpc[w] = "retry"
        BY <1>f, <2>2, <2>3, <2>4, <3>1 DEF RetriesArePaid
      <3>2. CASE NotThere(w)
        BY <2>2, <2>3, <3>2, NotThereIsOutdated
      <3>3. CASE faults' = faults + 1
        BY <1>f, <2>1, <2>2, <2>3, <2>4, <3>3 DEF RetriesArePaid
      <3> QED
        BY <1>3, <3>1, <3>2, <3>3, RetryEffect DEF RetryWay
    <2> QED
      BY <2>1, <2>2, <2>5 DEF Outdated
  <1>4. ASSUME NEW w \in Workers, wpc'[w] = "reject", conn'[w]
        PROVE  (Outdated(msg[w].event) \/ faults > 1)'
    <2>1. msg'[w] = msg[w] /\ wpc[w] # "idle" /\ conn[w]
      BY <1>4, RetryEffect DEF RetryWay
    <2>2. PICK m \in Messages : m = msg[w]
      BY <2>1
    <2>3. Outdated(m.event) => Outdated(m.event)'
      BY PaidStays
    <2>4. m.attempt \in Nat
      BY PaidStays
    <2>5. Outdated(m.event)' \/ faults' > 1
      <3>1. CASE wpc[w] = "reject"
        BY <1>f, <2>1, <2>2, <2>3, <3>1 DEF RetriesArePaid
      <3>2. CASE /\ wpc[w] = "retry"
                 /\ ~HasRetryQueue(msg[w].attempt + 1) \/ faults' = faults + 1
        <4>1. Outdated(m.event) \/ m.attempt < faults
          BY <2>2, <3>2 DEF RetriesArePaid
        <4>2. ~HasRetryQueue(m.attempt + 1) => m.attempt >= 1
          BY <2>4 DEF HasRetryQueue
        <4> QED
          BY <1>f, <2>2, <2>3, <2>4, <3>2, <4>1, <4>2
      <3> QED
        BY <1>4, <3>1, <3>2, RetryEffect DEF RetryWay
    <2> QED
      BY <2>1, <2>2, <2>5 DEF Outdated
  <1>5. ASSUME NEW m \in Messages, dlq'[m] > 0 PROVE (Outdated(m.event) \/ faults > 1)'
    <2>1. CASE dlq[m] > 0
      BY <1>f, <2>1, PaidStays DEF RetriesArePaid, Outdated
    <2>2. ASSUME NEW w \in Workers, wpc[w] = "reject", conn[w], m = msg[w]
          PROVE  (Outdated(m.event) \/ faults > 1)'
      BY <1>f, <2>2, PaidStays DEF RetriesArePaid, Outdated
    <2>3. ASSUME NEW w \in Workers, wpc[w] = "reject", conn[w], Reject(msg[w])
          PROVE  (Outdated(m.event) \/ faults > 1)'
      <3>1. m # msg[w] => dlq'[m] = dlq[m]
        BY <2>3 DEF Reject, Plus
      <3> QED
        BY <1>5, <2>1, <2>2, <2>3, <3>1
    <2>4. ASSUME UNCHANGED dlq PROVE (Outdated(m.event) \/ faults > 1)'
      BY <1>5, <2>1, <2>4
    <2> QED
      BY <2>3, <2>4, QueueEffect
         DEF QueueStep, queues, PublishJSON, Requeue, PublishRetry, Deliver, RetryExpires
  <1> QED
    BY <1>1, <1>2, <1>3, <1>4, <1>5 DEF RetriesArePaid, Paid

LEMMA RetriesInit == Init => RetriesArePaid
  <1> SUFFICES ASSUME Init PROVE RetriesArePaid
    OBVIOUS
  <1>1. \A m \in Messages : ready[m] + retry[m] = 0 /\ dlq[m] = 0
    BY DEF Init, BrokerInit
  <1>2. \A w \in Workers : wpc[w] = "idle"
    BY DEF Init, WorkerInit
  <1> QED
    BY <1>1, <1>2 DEF RetriesArePaid

\* For any number of worker processes: as long as there is a retry queue at
\* all, every retry of an avatar that still exists stems from a failure.
THEOREM RetriesPaid == ASSUME MaxRetries >= 1 PROVE Spec => []RetriesArePaid
  <1>1. IInv /\ IInv' /\ RetriesArePaid /\ [Next]_vars => RetriesArePaid'
    BY RetriesStep DEF IInv
  <1> QED
    BY Invariance, RetriesInit, <1>1, PTL DEF Spec

\* A single failure, wherever it strikes and however many processes there are,
\* sends nothing but the upload of a deleted avatar to the dead letters.
THEOREM OneFailureSurvived == ASSUME MaxRetries >= 1 PROVE Spec => []OneFailureIsRetried
  <1>1. IInv /\ RetriesArePaid => OneFailureIsRetried
    <2>1. ASSUME IInv, RetriesArePaid, faults <= 1, NEW e \in Events, DeadLettered(e)
          PROVE  e.kind = "upload" /\ ~Live(e.avatar)
      <3>1. faults \in Nat
        BY <2>1, MaxFaultsAssumption DEF IInv, TypeInv, TypeOK
      <3> QED
        BY <2>1, <3>1 DEF DeadLettered, RetriesArePaid, Outdated, Live
    <2> QED
      BY <2>1 DEF OneFailureIsRetried
  <1> QED
    BY Invariance, RetriesPaid, <1>1, PTL
=============================================================================
