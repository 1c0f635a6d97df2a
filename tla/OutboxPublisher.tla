--------------------------- MODULE OutboxPublisher ---------------------------
(***************************************************************************)
(* worker/outbox_publisher.go: the goroutine of each worker process that   *)
(* once a second moves a batch of pending outbox events to the exchange.   *)
(* Nothing keeps two processes from reading the same pending rows.         *)
(***************************************************************************)
EXTENDS AvatarStorage, AvatarBroker, Faults

CONSTANTS BatchSize,    \* outboxBatchSize
          MaxLosses     \* bound: publishes that a dying connection may swallow

ASSUME BatchAssumption == BatchSize \in Nat \ {0} /\ MaxLosses \in Nat

VARIABLES ppc,          \* poll, publish or mark: where each publisher is
          batch,        \* the events of its batch it has not dealt with
          publishing,   \* the event it has handed to the broker, or None
          losses        \* publishes lost so far

publisherVars == <<ppc, batch, publishing, losses>>
-----------------------------------------------------------------------------
PublisherTypeOK ==
    /\ ppc \in [Workers -> {"poll", "publish", "mark"}]
    /\ batch \in [Workers -> SUBSET Events]
    /\ publishing \in [Workers -> Events \cup {None}]
    /\ losses \in Nat

PublisherInit ==
    /\ ppc = [w \in Workers |-> "poll"]
    /\ batch = [w \in Workers |-> {}]
    /\ publishing = [w \in Workers |-> None]
    /\ losses = 0

Publisher(w, pc, events, e) ==
    /\ ppc' = [ppc EXCEPT ![w] = pc]
    /\ batch' = [batch EXCEPT ![w] = events]
    /\ publishing' = [publishing EXCEPT ![w] = e]

\* publish returns: the rest of the batch waits for the next tick.
GiveUp(w) == Publisher(w, "poll", {}, None)
-----------------------------------------------------------------------------
\* A tick with an empty outbox, or whose query fails, changes nothing.
Poll(w) ==
    /\ ppc[w] = "poll"
    /\ Pending # {}
    /\ \E events \in GetPending(BatchSize) : Publisher(w, "publish", events, None)
    /\ NoFault
    /\ UNCHANGED <<storageVars, brokerVars, losses>>

\* Bug: no ORDER BY.
AnyInBatch(w, e) == e \in batch[w]

\* The batch is in created_at order.
NextInBatch(w, e) == e \in batch[w] /\ \A d \in batch[w] : ~CreatedBefore(d, e)

\* Bug: an event whose publishing failed is marked all the same.
PublishUnchecked(w) ==
    /\ ppc[w] = "publish"
    /\ \E e \in batch[w] :
         /\ NextInBatch(w, e)
         /\ Publisher(w, "mark", batch[w], e)
         /\ \/ conn[w] /\ PublishJSON(e) /\ NoFault
            \/ UNCHANGED queues /\ Fault
    /\ UNCHANGED <<storageVars, conn, losses>>

Publish(w) ==
    /\ ppc[w] = "publish"
    /\ \E e \in batch[w] :
         /\ NextInBatch(w, e)
         /\ \/ conn[w] /\ PublishJSON(e) /\ Publisher(w, "mark", batch[w], e) /\ NoFault
            \/ conn[w] /\ (PublishJSON(e) \/ UNCHANGED queues) /\ GiveUp(w) /\ Fault
            \/ ~conn[w] /\ UNCHANGED queues /\ GiveUp(w) /\ NoFault
    /\ UNCHANGED <<storageVars, conn, losses>>

Mark(w) ==
    /\ ppc[w] = "mark"
    /\ LET e    == publishing[w]
           rest == batch[w] \ {e}
       IN  \/ /\ MarkPublished(e)
              /\ Publisher(w, IF rest = {} THEN "poll" ELSE "publish", rest, None)
              /\ NoFault
           \/ (MarkPublished(e) \/ UNCHANGED storageVars) /\ GiveUp(w) /\ Fault
    /\ UNCHANGED <<brokerVars, losses>>

PublisherStep(w) == Poll(w) \/ Publish(w) \/ Mark(w)
=============================================================================
