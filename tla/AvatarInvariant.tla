--------------------------- MODULE AvatarInvariant ---------------------------
(***************************************************************************)
(* The inductive invariant behind the safety properties of AvatarPipeline. *)
(* Its parts say what the program relies on without checking it: where an  *)
(* event can be found, what a request or a worker may still believe about  *)
(* the bucket and the table when it makes its next call.                   *)
(***************************************************************************)
EXTENDS AvatarPipeline

\* What the steps of the handlers take for granted about what they hold.
InHand ==
    /\ \A w \in Workers : wpc[w] # "idle" => msg[w] \in Messages
    /\ \A w \in Workers : wpc[w] = "delete" => msg[w].event.kind = "delete"
    /\ \A w \in Workers : wpc[w] \in UploadCalls => msg[w].event.kind = "upload"
    /\ \A w \in Workers : ppc[w] = "mark" => publishing[w] \in Events

TypeInv == TypeOK /\ InHand

\* An event exists only with its row: nothing but the two transactions makes
\* events, and a delete event marks the row for good.
RowsAndEvents ==
    /\ \A a \in Avatars : uploading[a] \in {"put", "create"} => row[a].st = "none"
    /\ \A a \in Avatars : row[a].st = "none" => outbox[Upload(a)] = "none"
    /\ \A a \in Avatars : row[a].st # "none" => outbox[Upload(a)] # "none"
    /\ \A a \in Avatars : outbox[Delete(a)] # "none" => row[a].st = "deleted"

\* Every copy of an event, wherever it is, stems from the outbox.
Provenance ==
    /\ \A w \in Workers : \A e \in batch[w] : outbox[e] # "none"
    /\ \A w \in Workers : ppc[w] = "mark" => outbox[publishing[w]] # "none"
    /\ \A m \in Messages : ready[m] > 0 \/ retry[m] > 0 \/ dlq[m] > 0
                               => outbox[m.event] # "none"
    /\ \A w \in Workers : wpc[w] # "idle" => outbox[msg[w].event] # "none"
    /\ \A e \in processed : outbox[e] # "none"

\* What is in the bucket, seen from the next call of a request or a worker.
BucketBehindRows ==
    /\ \A a \in Avatars : uploading[a] = "create" => "original" \in objects[a]
    /\ LiveHasOriginal
    /\ SavedThumbnailsExist
    /\ \A w \in Workers : wpc[w] \in {"put300", "save"} /\ Live(Subject(w))
                              => "100x100" \in objects[Subject(w)]
    /\ \A w \in Workers : wpc[w] = "save" /\ Live(Subject(w))
                              => "300x300" \in objects[Subject(w)]

\* A publisher holds no delete event whose upload event it has yet to publish
\* and does not hold.
BatchesInOrder ==
    /\ DeleteFollowsUpload
    /\ \A w \in Workers, a \in Avatars :
          Delete(a) \in batch[w] /\ outbox[Upload(a)] = "pending"
              => Upload(a) \in batch[w]
    /\ \A w \in Workers, a \in Avatars :
          ppc[w] = "mark" /\ publishing[w] = Delete(a)
              => outbox[Upload(a)] = "published"

\* The original is the first key of a delete event and the first to go.
OriginalFirst ==
    /\ DeletedOriginalGone
    /\ \A d \in Deleters : deleting[d].read => "original" \in deleting[d].keys
    /\ \A a \in Avatars : outbox[Delete(a)] # "none" => "original" \in payload[a]
    /\ \A w \in Workers : wpc[w] = "delete"
           => "original" \in todo[w] \/ "original" \notin objects[Subject(w)]
    /\ \A w \in Workers : wpc[w] = "mark" /\ msg[w].event.kind = "delete"
           => "original" \notin objects[Subject(w)]

\* The current avatar of a user is one that is not deleted.
ActiveIsLive == OneActivePerUser /\ \A a \in Avatars : row[a].active => Live(a)

\* The inductive invariant: no step of any actor, with any number of failures
\* and worker processes, leads out of it.
IInv == /\ TypeInv
        /\ RowsAndEvents
        /\ Provenance
        /\ BucketBehindRows
        /\ BatchesInOrder
        /\ OriginalFirst
        /\ ActiveIsLive

\* A copy of the event that no worker is about to acknowledge.
SafeCopy(e) == \/ e \in processed
               \/ Stored(e) \/ DeadLettered(e)
               \/ \E w \in Workers : Holds(w, e) /\ wpc[w] # "ack"

\* Whoever is about to forget an event has seen to a safe copy of it: the
\* publisher before it marks the event, the worker before it acknowledges.
Delivery ==
    losses = 0 =>
        /\ \A e \in Events : outbox[e] = "published" => SafeCopy(e)
        /\ \A w \in Workers : ppc[w] = "mark" => SafeCopy(publishing[w])
        /\ \A w \in Workers : wpc[w] = "ack" => SafeCopy(msg[w].event)
-----------------------------------------------------------------------------
\* There is one worker process, as in docker-compose.yml.
SingleProcess == \A v, w \in Workers : v = w

\* Between the calls of a single process: nothing that a processed delete event
\* names is in the bucket, and no upload that could put it back is under way.
RemovedForGood ==
    /\ DeletedObjectsGone
    /\ \A w \in Workers : wpc[w] \in {"get", "put100", "put300"}
           => Delete(Subject(w)) \notin processed
    /\ \A w \in Workers : wpc[w] = "delete"
           => objects[Subject(w)] \cap payload[Subject(w)] \subseteq todo[w]
    /\ \A w \in Workers : wpc[w] = "mark" /\ msg[w].event.kind = "delete"
           => objects[Subject(w)] \cap payload[Subject(w)] = {}

\* Between the calls of a single process: an upload it works on is not one it
\* has finished, and what it has written so far is still in the row.
CompletedForGood ==
    /\ ProcessedIsCompleted
    /\ \A w \in Workers : wpc[w] \in UploadCalls => msg[w].event \notin processed
    /\ \A w \in Workers : wpc[w] = "completed" /\ Live(Subject(w))
           => row[Subject(w)].thumbs = Thumbnails
    /\ \A w \in Workers :
          wpc[w] = "mark" /\ msg[w].event.kind = "upload" /\ Live(Subject(w))
              => /\ row[Subject(w)].status = "completed"
                 /\ row[Subject(w)].thumbs = Thumbnails

\* What a single process may rely on from call to call, and two may not.
SingleInv == RemovedForGood /\ CompletedForGood

\* The message of an upload whose avatar has been deleted since: it fails and
\* is retried without any failure of the outside world.
Outdated(e) == e.kind = "upload" /\ row[e.avatar].st = "deleted"

\* Every other retry is paid for by a failure, and giving up by a second one.
RetriesArePaid ==
    /\ \A m \in Messages : ready[m] + retry[m] > 0
           => Outdated(m.event) \/ m.attempt <= faults
    /\ \A w \in Workers : wpc[w] # "idle"
           => Outdated(msg[w].event) \/ msg[w].attempt <= faults
    /\ \A w \in Workers : wpc[w] = "retry"
           => Outdated(msg[w].event) \/ msg[w].attempt < faults
    /\ \A w \in Workers : wpc[w] = "reject" /\ conn[w]
           => Outdated(msg[w].event) \/ faults > 1
    /\ \A m \in Messages : dlq[m] > 0 => Outdated(m.event) \/ faults > 1
=============================================================================
