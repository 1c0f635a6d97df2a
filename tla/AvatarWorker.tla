---------------------------- MODULE AvatarWorker ----------------------------
(***************************************************************************)
(* worker/worker.go with avatar_processor.go and avatar_deleter.go: the    *)
(* loop of a worker process that takes one message at a time, does its     *)
(* work call by call, records it as processed and acknowledges it, or      *)
(* sends it to a retry queue or to the dead letters.                       *)
(*                                                                         *)
(* wpc names the call a worker makes next.  A worker whose connection has  *)
(* closed goes on with its message, which the broker has taken back; its   *)
(* own broker calls then fail.  (The client library may also have handed   *)
(* on the message after that one; a worker that gets to it without its     *)
(* connection does what it would after a second disconnection.)            *)
(***************************************************************************)
EXTENDS AvatarStorage, AvatarBroker, Faults

VARIABLES wpc,          \* the next call of each worker
          msg,          \* the message it is working on, or None
          todo          \* the keys its delete has still to remove

workerVars == <<wpc, msg, todo>>
-----------------------------------------------------------------------------
UploadCalls == {"processing", "get", "put100", "put300", "save", "completed"}
Calls == {"idle", "check", "delete", "mark", "ack", "retry", "reject"} \cup UploadCalls

WorkerTypeOK ==
    /\ wpc \in [Workers -> Calls]
    /\ msg \in [Workers -> Messages \cup {None}]
    /\ todo \in [Workers -> SUBSET ObjectKeys]

WorkerInit ==
    /\ wpc = [w \in Workers |-> "idle"]
    /\ msg = [w \in Workers |-> None]
    /\ todo = [w \in Workers |-> {}]

Subject(w) == msg[w].event.avatar
Holds(w, e) == wpc[w] # "idle" /\ conn[w] /\ msg[w].event = e

Goes(w, next) ==
    /\ wpc' = [wpc EXCEPT ![w] = next]
    /\ UNCHANGED <<msg, todo>>

Done(w) ==
    /\ wpc' = [wpc EXCEPT ![w] = "idle"]
    /\ msg' = [msg EXCEPT ![w] = None]
    /\ todo' = [todo EXCEPT ![w] = {}]

\* An external call of the handler at step pc: its effect and the next step,
\* or an error, after which the effect may still have taken place.
Call(w, pc, Effect, next) ==
    /\ wpc[w] = pc
    /\ \/ Effect /\ Goes(w, next) /\ NoFault
       \/ (Effect \/ UNCHANGED storageVars) /\ Goes(w, "retry") /\ Fault
    /\ UNCHANGED brokerVars
-----------------------------------------------------------------------------
Take(w) ==
    /\ wpc[w] = "idle" /\ conn[w]
    /\ \E m \in Messages : Deliver(m) /\ msg' = [msg EXCEPT ![w] = m]
    /\ wpc' = [wpc EXCEPT ![w] = "check"]
    /\ UNCHANGED <<storageVars, conn, todo>>
    /\ NoFault

\* Bug: the answer of checkProcessed is not looked at.
CheckIgnored(w) ==
    /\ wpc[w] = "check"
    /\ LET e == msg[w].event IN
         \/ e.kind = "upload" /\ Goes(w, "processing") /\ NoFault
         \/ /\ e.kind = "delete"
            /\ wpc' = [wpc EXCEPT ![w] = "delete"]
            /\ todo' = [todo EXCEPT ![w] = payload[e.avatar]]
            /\ UNCHANGED msg
            /\ NoFault
         \/ Goes(w, "retry") /\ Fault
    /\ UNCHANGED <<storageVars, brokerVars>>

\* checkProcessed, and the branch on its answer.
Check(w) ==
    /\ wpc[w] = "check"
    /\ LET e == msg[w].event IN
         \/ IsProcessed(e) /\ Goes(w, "ack") /\ NoFault
         \/ ~IsProcessed(e) /\ e.kind = "upload" /\ Goes(w, "processing") /\ NoFault
         \/ /\ ~IsProcessed(e) /\ e.kind = "delete"
            /\ wpc' = [wpc EXCEPT ![w] = "delete"]
            /\ todo' = [todo EXCEPT ![w] = payload[e.avatar]]
            /\ UNCHANGED msg
            /\ NoFault
         \/ Goes(w, "retry") /\ Fault
    /\ UNCHANGED <<storageVars, brokerVars>>
-----------------------------------------------------------------------------
(***************************************************************************)
(* ProcessUpload and createThumbnails.                                     *)
(***************************************************************************)
\* ErrNoRows from an update of the row, ErrNoSuchKey from the bucket.
NotThere(w) ==
    /\ \/ wpc[w] \in {"processing", "save", "completed"} /\ ~Live(Subject(w))
       \/ wpc[w] = "get" /\ "original" \notin objects[Subject(w)]
    /\ Goes(w, "retry")
    /\ NoFault
    /\ UNCHANGED <<storageVars, brokerVars>>

SetProcessing(w) ==
    Call(w, "processing", UpdateProcessingStatus(Subject(w), "processing"), "get")

GetOriginal(w) ==
    Call(w, "get", "original" \in objects[Subject(w)] /\ UNCHANGED storageVars, "put100")

\* Bug: the loop over the sizes ends after the first.
PutOneThumbnail(w) == Call(w, "put100", PutObject(Subject(w), "100x100"), "save")

PutThumbnail100(w) == Call(w, "put100", PutObject(Subject(w), "100x100"), "put300")
PutThumbnail300(w) == Call(w, "put300", PutObject(Subject(w), "300x300"), "save")

\* Bug: the status is not set to completed.
SaveThumbnailKeysOnly(w) ==
    Call(w, "save", UpdateThumbnailS3Keys(Subject(w)), "mark")

SaveThumbnailKeys(w) ==
    Call(w, "save", UpdateThumbnailS3Keys(Subject(w)), "completed")

SetCompleted(w) ==
    Call(w, "completed", UpdateProcessingStatus(Subject(w), "completed"), "mark")
-----------------------------------------------------------------------------
\* Bug: only the first key is removed.
DeleteOneKey(w) ==
    /\ wpc[w] = "delete"
    /\ \E key \in todo[w] :
         /\ "original" \in todo[w] => key = "original"
         /\ DeleteObject(Subject(w), key)
    /\ Goes(w, "mark")
    /\ NoFault
    /\ UNCHANGED brokerVars

\* ProcessDelete: the original comes first, then the thumbnails in the random
\* order of the map they were read from.
DeleteKey(w) ==
    /\ wpc[w] = "delete"
    /\ \E key \in todo[w] :
         /\ "original" \in todo[w] => key = "original"
         /\ \/ /\ DeleteObject(Subject(w), key)
               /\ todo' = [todo EXCEPT ![w] = @ \ {key}]
               /\ wpc' = [wpc EXCEPT ![w] = IF todo[w] = {key} THEN "mark" ELSE "delete"]
               /\ UNCHANGED msg
               /\ NoFault
            \/ /\ DeleteObject(Subject(w), key) \/ UNCHANGED storageVars
               /\ Goes(w, "retry")
               /\ Fault
    /\ UNCHANGED brokerVars

MarkDone(w) == Call(w, "mark", MarkProcessed(msg[w].event), "ack")

\* Acknowledged, the message is gone; after a closed connection Ack fails and
\* the handler returns all the same.
Ack(w) ==
    /\ wpc[w] = "ack"
    /\ Done(w)
    /\ NoFault
    /\ UNCHANGED <<storageVars, brokerVars>>
-----------------------------------------------------------------------------
(***************************************************************************)
(* retryOrReject and retryOrRejectDelete.                                  *)
(***************************************************************************)
\* Bug: the message is acknowledged although its retry was not published.
RetryUnchecked(w) ==
    /\ wpc[w] = "retry"
    /\ IF HasRetryQueue(msg[w].attempt + 1)
       THEN \/ conn[w] /\ PublishRetry(msg[w]) /\ Goes(w, "ack") /\ NoFault
            \/ UNCHANGED queues /\ Goes(w, "ack") /\ (Fault \/ (~conn[w] /\ NoFault))
       ELSE UNCHANGED queues /\ Goes(w, "reject") /\ NoFault
    /\ UNCHANGED <<storageVars, conn>>

\* Bug: the header is counted up before the queue is looked up by it, so the
\* message in hand is on an attempt that does not exist.
RetryCountsFirst(w) ==
    /\ wpc[w] = "retry"
    /\ LET next == msg[w].attempt + 1 IN
         /\ msg' = [msg EXCEPT ![w].attempt = next]
         /\ IF HasRetryQueue(next)
            THEN \/ conn[w] /\ PublishRetry(msg[w]) /\ wpc' = [wpc EXCEPT ![w] = "ack"] /\ NoFault
                 \/ /\ PublishRetry(msg[w]) \/ UNCHANGED queues
                    /\ wpc' = [wpc EXCEPT ![w] = "reject"]
                    /\ IF conn[w] THEN Fault ELSE UNCHANGED queues /\ NoFault
            ELSE UNCHANGED queues /\ wpc' = [wpc EXCEPT ![w] = "reject"] /\ NoFault
    /\ UNCHANGED <<storageVars, conn, todo>>

Retry(w) ==
    /\ wpc[w] = "retry"
    /\ IF HasRetryQueue(msg[w].attempt + 1)
       THEN \/ conn[w] /\ PublishRetry(msg[w]) /\ Goes(w, "ack") /\ NoFault
            \/ /\ conn[w]
               /\ PublishRetry(msg[w]) \/ UNCHANGED queues
               /\ Goes(w, "reject")
               /\ Fault
            \/ ~conn[w] /\ UNCHANGED queues /\ Goes(w, "reject") /\ NoFault
       ELSE UNCHANGED queues /\ Goes(w, "reject") /\ NoFault
    /\ UNCHANGED <<storageVars, conn>>

RejectMessage(w) ==
    /\ wpc[w] = "reject"
    /\ IF conn[w] THEN Reject(msg[w]) ELSE UNCHANGED queues
    /\ Done(w)
    /\ NoFault
    /\ UNCHANGED <<storageVars, conn>>

WorkerStep(w) ==
    \/ Take(w) \/ Check(w)
    \/ SetProcessing(w) \/ GetOriginal(w) \/ PutThumbnail100(w) \/ PutThumbnail300(w)
    \/ SaveThumbnailKeys(w) \/ SetCompleted(w) \/ NotThere(w)
    \/ DeleteKey(w) \/ MarkDone(w) \/ Ack(w) \/ Retry(w) \/ RejectMessage(w)
=============================================================================
