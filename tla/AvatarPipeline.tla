--------------------------- MODULE AvatarPipeline ---------------------------
(***************************************************************************)
(* The whole path of an avatar: the HTTP server writes rows, objects and   *)
(* outbox events; each worker process publishes the outbox to RabbitMQ and *)
(* handles the messages.  This module composes the components, adds what   *)
(* happens to a worker process as a whole (its connection drops, it dies,  *)
(* it restarts) and states what the system promises.                       *)
(***************************************************************************)
EXTENDS AvatarService, OutboxPublisher, AvatarWorker

vars == <<storageVars, brokerVars, serviceVars, publisherVars, workerVars, faults>>

TypeOK == StorageTypeOK /\ BrokerTypeOK /\ ServiceTypeOK /\ PublisherTypeOK
             /\ WorkerTypeOK /\ faults \in 0 .. MaxFaults

Init == StorageInit /\ BrokerInit /\ ServiceInit /\ PublisherInit /\ WorkerInit
           /\ FaultsInit
-----------------------------------------------------------------------------
(***************************************************************************)
(* A worker process.                                                       *)
(***************************************************************************)
\* The broker notices that the connection is gone and takes back the message
\* the process had not acknowledged.
TakenBack(w) ==
    /\ IF wpc[w] # "idle" /\ conn[w] THEN Requeue(msg[w]) ELSE UNCHANGED queues

\* There is no reconnect: publisher and worker go on without their connection.
Disconnect(w) ==
    /\ conn[w]
    /\ TakenBack(w)
    /\ conn' = [conn EXCEPT ![w] = FALSE]
    /\ Fault
    /\ UNCHANGED <<storageVars, serviceVars, publisherVars, workerVars>>

\* The connection dies under a publish whose frames were already written: the
\* publisher goes on as after a success.
PublishLost(w) ==
    /\ ppc[w] = "publish" /\ conn[w] /\ losses < MaxLosses
    /\ \E e \in batch[w] :
         /\ NextInBatch(w, e)
         /\ ppc' = [ppc EXCEPT ![w] = "mark"]
         /\ publishing' = [publishing EXCEPT ![w] = e]
    /\ TakenBack(w)
    /\ conn' = [conn EXCEPT ![w] = FALSE]
    /\ Fault /\ losses' = losses + 1
    /\ UNCHANGED <<storageVars, serviceVars, workerVars, batch>>

\* The process starts afresh: new connection, nothing in hand.
Restart(w) ==
    /\ GiveUp(w)
    /\ Done(w)
    /\ conn' = [conn EXCEPT ![w] = TRUE]
    /\ UNCHANGED <<storageVars, serviceVars, losses>>

\* Killed at any point.
Crash(w) == TakenBack(w) /\ Fault /\ Restart(w)

\* A process that has lost its connection is stopped from outside between two
\* messages and started again.  Its consumers are closed, but it does not end
\* by itself: each closed channel goes through continue, past the test for both
\* at the end of the loop, which then waits for the context alone.
Redeploy(w) ==
    /\ wpc[w] = "idle" /\ ~conn[w]
    /\ Restart(w)
    /\ NoFault
    /\ UNCHANGED queues
-----------------------------------------------------------------------------
Expire == /\ \E m \in Messages : RetryExpires(m)
          /\ UNCHANGED <<storageVars, serviceVars, publisherVars, workerVars, faults>>

Serve        == ServiceStep /\ UNCHANGED <<brokerVars, publisherVars, workerVars>>
PublishSome(w) == PublisherStep(w) /\ UNCHANGED <<serviceVars, workerVars>>
Work(w)      == WorkerStep(w) /\ UNCHANGED <<serviceVars, publisherVars>>

Next ==
    \/ Serve
    \/ Expire
    \/ \E w \in Workers : \/ PublishSome(w) \/ Work(w)
                          \/ Disconnect(w) \/ PublishLost(w) \/ Crash(w) \/ Redeploy(w)

Spec == Init /\ [][Next]_vars

\* The publisher ticks every second, the worker loops, a TTL always runs out.
\* Nothing is assumed of clients, of failures and of whoever restarts processes.
Fairness ==
    /\ WF_vars(Expire)
    /\ \A w \in Workers : WF_vars(PublishSome(w)) /\ WF_vars(Work(w))

FairSpec == Spec /\ Fairness

\* An operator notices the process that is no longer ready and restarts it: an
\* assumption about people, nothing in the code or its deployment does this.
Attended == \A w \in Workers : WF_vars(Redeploy(w))

AttendedSpec == FairSpec /\ Attended
-----------------------------------------------------------------------------
(***************************************************************************)
(* Safety.                                                                 *)
(***************************************************************************)
\* As long as an avatar is not deleted its original is in the bucket, so
\* GetContent never misses it: Upload stores it before the row exists, and
\* only the delete event removes it, which only a deleted row has.
LiveHasOriginal == \A a \in Avatars : Live(a) => "original" \in objects[a]

\* A thumbnail key that a live row names is an object in the bucket, through
\* any repetition of the work: both puts precede the update of the row.
SavedThumbnailsExist ==
    \A a \in Avatars : Live(a) => row[a].thumbs \subseteq objects[a]

\* A delete event is never handed on before the upload event of its avatar:
\* batches are in created_at order and stop at the first failure.
DeleteFollowsUpload ==
    \A a \in Avatars : outbox[Delete(a)] = "published"
                          => outbox[Upload(a)] = "published"

\* At most one avatar of a user is the current one.
OneActivePerUser ==
    \A a, b \in Avatars :
        row[a].active /\ row[b].active /\ Owner[a] = Owner[b] => a = b

\* Where an event can be until it has been processed: in a queue, among the
\* dead letters, or in the hands of a worker that can still acknowledge it.
Tracked(e) == \/ e \in processed
              \/ Stored(e) \/ DeadLettered(e)
              \/ \E w \in Workers : Holds(w, e)

\* Unless a connection dies under a publish, an event marked as published is
\* never lost: failed calls, repetitions, dropped connections and crashes of
\* several processes always leave a copy behind.
NoEventLost ==
    losses = 0 => \A e \in Events : outbox[e] = "published" => Tracked(e)

\* The original of an avatar whose deletion has been processed is gone.
DeletedOriginalGone ==
    \A a \in Avatars : Delete(a) \in processed => "original" \notin objects[a]

\* ... and so is every object the delete event names, for good: with a single
\* worker process a repeated upload cannot put one back.
DeletedObjectsGone ==
    \A a \in Avatars : Delete(a) \in processed => objects[a] \cap payload[a] = {}

\* With a single worker process, an undeleted avatar whose upload message was
\* processed shows as completed, with its thumbnails.
ProcessedIsCompleted ==
    \A a \in Avatars : Upload(a) \in processed /\ Live(a) =>
        row[a].status = "completed" /\ row[a].thumbs = Thumbnails

\* A single failure anywhere never sends the message of an undeleted avatar,
\* or a delete message, to the dead letters.
OneFailureIsRetried ==
    faults <= 1 => \A e \in Events : DeadLettered(e) =>
                        e.kind = "upload" /\ ~Live(e.avatar)

\* Once deleted, a row keeps every field: a worker that is still busy with the
\* avatar no longer reaches it.
DeletedRowIsFinal ==
    [][\A a \in Avatars : row[a].st = "deleted" => row'[a] = row[a]]_vars

\* Process w is past the check of a copy of the upload message of avatar a.
Handling(w, a) == wpc[w] \in UploadCalls /\ msg[w].event = Upload(a)

\* Processed, and every handler of a copy of the message has ended.
LeftAlone(a) == Upload(a) \in processed /\ \A w \in Workers : ~Handling(w, a)

\* From then on no copy of the message, redelivered, retried or published twice,
\* is ever handled again: status and thumbnails stay what they are for good.
HandledUploadsStay ==
    [][\A a \in Avatars : LeftAlone(a) =>
          LeftAlone(a)' /\ row'[a].status = row[a].status
                        /\ row'[a].thumbs = row[a].thumbs]_vars
-----------------------------------------------------------------------------
(***************************************************************************)
(* Progress.                                                               *)
(***************************************************************************)
\* Every event that reaches the outbox is processed or dead-lettered, as long
\* as a process that has lost its connection is restarted (AttendedSpec).
\* README: the outbox is there for reliable delivery; without that restart a
\* dropped connection ends all handling of events (FairSpec).
EventsAreHandled ==
    \A e \in Events : outbox[e] = "pending" ~> e \in processed \/ DeadLettered(e)

\* An avatar ends up completed, deleted, or with its upload among the dead
\* letters, and stays so.
AvatarsSettle ==
    \A a \in Avatars : Live(a) ~>
        [](row[a].status = "completed" \/ ~Live(a) \/ DeadLettered(Upload(a)))
-----------------------------------------------------------------------------
(***************************************************************************)
(* What the documentation says and the program does not keep.              *)
(***************************************************************************)
\* README: the worker removes the original and the thumbnails from S3.
DeletionRemovesEverything ==
    \A a \in Avatars : Delete(a) \in processed => objects[a] = {}

\* README: the outbox keeps an event from getting lost between the database and
\* RabbitMQ.
OutboxLosesNothing ==
    \A e \in Events : outbox[e] = "published" => Tracked(e)

\* README: messages are processed idempotently, and a processed avatar is
\* completed.  Said here only of an avatar no handler is busy with any more;
\* by HandledUploadsStay one that is not completed then never will be.
LeftAloneIsCompleted ==
    \A a \in Avatars : LeftAlone(a) /\ Live(a) => row[a].status = "completed"
=============================================================================
