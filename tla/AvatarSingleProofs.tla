-------------------------- MODULE AvatarSingleProofs --------------------------
(***************************************************************************)
(* What a single worker process adds to the promises, for every set of     *)
(* avatars and requests and any number of failures, crashes and lost       *)
(* publishes: a deletion removes every object it names for good, and an    *)
(* upload that was processed shows as completed.  Both rest on the process *)
(* handling one message at a time: from the moment it has read that an     *)
(* event is not processed, nobody else processes it.  Before them, what    *)
(* any number of processes may rely on: a processed upload that every      *)
(* handler has left is not handled again.                                  *)
(***************************************************************************)
EXTENDS AvatarPipelineProofs

-----------------------------------------------------------------------------
(***************************************************************************)
(* How a worker gets from call to call of the upload handler.              *)
(***************************************************************************)
Keeps(w) == msg'[w] = msg[w]
Stays(w) == wpc'[w] = wpc[w] /\ Keeps(w)

UploadWay(w) ==
    /\ wpc'[w] = "processing" =>
          \/ Stays(w)
          \/ /\ Keeps(w) /\ wpc[w] = "check" /\ msg[w].event \notin processed
             /\ UNCHANGED storageVars
    /\ wpc'[w] = "get" =>
          \/ Stays(w)
          \/ /\ Keeps(w) /\ wpc[w] = "processing"
             /\ UpdateProcessingStatus(Subject(w), "processing")
    /\ wpc'[w] = "put100" => Stays(w) \/ (Keeps(w) /\ wpc[w] = "get")
    /\ wpc'[w] = "completed" =>
          \/ Stays(w)
          \/ Keeps(w) /\ wpc[w] = "save" /\ UpdateThumbnailS3Keys(Subject(w))
    /\ wpc'[w] = "mark" /\ wpc[w] = "completed" =>
          UpdateProcessingStatus(Subject(w), "completed")

UploadStep == \A w \in Workers : UploadWay(w)

\* A worker enters a call of the upload handler only behind the call before.
LEMMA UploadEffect ==
    ASSUME TypeInv, [Next]_vars PROVE UploadStep
  <1>t. wpc \in [Workers -> Calls] /\ msg \in [Workers -> Messages \cup {None}]
    BY DEF TypeInv, TypeOK, WorkerTypeOK
  <1>s. \A w \in Workers : Stays(w) => UploadWay(w)
    BY DEF UploadWay, Stays
  <1>u. UNCHANGED workerVars => UploadStep
    BY <1>s DEF UploadStep, Stays, Keeps, workerVars
  <1>d. ASSUME NEW w \in Workers, Done(w) PROVE UploadStep
    <2>1. \A v \in Workers : v # w => Stays(v)
      BY <1>t, <1>d DEF Done, Stays, Keeps
    <2>2. wpc'[w] = "idle"
      BY <1>t, <1>d DEF Done
    <2>3. UploadWay(w)
      BY <2>2 DEF UploadWay
    <2> QED
      BY <1>s, <2>1, <2>3 DEF UploadStep
  <1>1. CASE Serve \/ Expire \/ UNCHANGED vars
    BY <1>1, <1>u DEF Serve, Expire, vars
  <1>2. ASSUME NEW w \in Workers, PublishSome(w) \/ Disconnect(w) \/ PublishLost(w)
        PROVE  UploadStep
    BY <1>2, <1>u DEF PublishSome, Disconnect, PublishLost
  <1>3. ASSUME NEW w \in Workers, Crash(w) \/ Redeploy(w) PROVE UploadStep
    BY <1>3, <1>d DEF Crash, Redeploy, Restart
  <1>4. ASSUME NEW w \in Workers, Work(w) PROVE UploadStep
    <2>o. ASSUME UploadWay(w), \A v \in Workers : v # w => Stays(v) PROVE UploadStep
      BY <1>s, <2>o DEF UploadStep
    <2>g. ASSUME NEW next, Goes(w, next)
          PROVE  /\ wpc'[w] = next /\ Keeps(w)
                 /\ \A v \in Workers : v # w => Stays(v)
      BY <2>g, <1>t DEF Goes, Stays, Keeps
    <2>e. ASSUME NEW next, Goes(w, next),
                 next \notin {"processing", "get", "put100", "completed"},
                 next = "mark" => wpc[w] # "completed"
          PROVE  UploadStep
      <3>1. UploadWay(w)
        BY <2>e, <2>g DEF UploadWay
      <3> QED
        BY <2>e, <2>g, <2>o, <3>1
    <2>r. ASSUME Goes(w, "retry") PROVE UploadStep
      BY <2>e, <2>r
    <2>1. CASE Take(w)
      <3>1. wpc'[w] = "check" /\ \A v \in Workers : v # w => Stays(v)
        BY <2>1, <1>t DEF Take, Stays, Keeps
      <3>2. UploadWay(w)
        BY <3>1 DEF UploadWay
      <3> QED
        BY <2>o, <3>1, <3>2
    <2>2. CASE Check(w)
      <3>1. CASE Goes(w, "ack") \/ Goes(w, "retry")
        BY <2>e, <3>1
      <3>2. CASE ~IsProcessed(msg[w].event) /\ Goes(w, "processing")
        <4>1. UploadWay(w)
          BY <2>2, <2>g, <3>2 DEF Check, IsProcessed, UploadWay
        <4> QED
          BY <2>g, <2>o, <3>2, <4>1
      <3>3. CASE wpc' = [wpc EXCEPT ![w] = "delete"] /\ UNCHANGED msg
        <4>1. wpc'[w] = "delete" /\ \A v \in Workers : v # w => Stays(v)
          BY <3>3, <1>t DEF Stays, Keeps
        <4>2. UploadWay(w)
          BY <4>1 DEF UploadWay
        <4> QED
          BY <2>o, <4>1, <4>2
      <3> QED
        BY <2>2, <3>1, <3>2, <3>3 DEF Check
    <2>3. CASE NotThere(w)
      BY <2>3, <2>r DEF NotThere
    <2>c. ASSUME NEW pc, NEW next, wpc[w] = pc, Goes(w, next),
                 \/ pc = "processing" /\ next = "get"
                    /\ UpdateProcessingStatus(Subject(w), "processing")
                 \/ pc = "get" /\ next = "put100"
                 \/ pc = "save" /\ next = "completed" /\ UpdateThumbnailS3Keys(Subject(w))
                 \/ pc = "completed" /\ next = "mark"
                    /\ UpdateProcessingStatus(Subject(w), "completed")
          PROVE  UploadStep
      <3>1. UploadWay(w)
        BY <2>c, <2>g DEF UploadWay
      <3> QED
        BY <2>c, <2>g, <2>o, <3>1
    <2>4. CASE SetProcessing(w)
      BY <2>4, <2>c, <2>r DEF SetProcessing, Call
    <2>5. CASE GetOriginal(w)
      BY <2>5, <2>c, <2>r DEF GetOriginal, Call
    <2>6. CASE PutThumbnail100(w) \/ PutThumbnail300(w)
      BY <2>6, <2>e, <2>r DEF PutThumbnail100, PutThumbnail300, Call
    <2>7. CASE SaveThumbnailKeys(w)
      BY <2>7, <2>c, <2>r DEF SaveThumbnailKeys, Call
    <2>8. CASE SetCompleted(w)
      BY <2>8, <2>c, <2>r DEF SetCompleted, Call
    <2>9. CASE DeleteKey(w)
      <3>1. /\ wpc[w] = "delete" /\ wpc'[w] \in {"mark", "delete", "retry"}
            /\ \A v \in Workers : v # w => Stays(v)
        BY <2>9, <1>t DEF DeleteKey, Goes, Stays, Keeps
      <3>2. UploadWay(w)
        BY <3>1 DEF UploadWay
      <3> QED
        BY <2>o, <3>1, <3>2
    <2>10. CASE MarkDone(w)
      BY <2>10, <2>e, <2>r DEF MarkDone, Call
    <2>11. CASE Ack(w) \/ RejectMessage(w)
      BY <2>11, <1>d DEF Ack, RejectMessage
    <2>12. CASE Retry(w)
      BY <2>12, <2>e DEF Retry
    <2> QED
      BY <1>4, <2>1, <2>2, <2>3, <2>4, <2>5, <2>6, <2>7, <2>8, <2>9, <2>10, <2>11, <2>12
         DEF Work, WorkerStep
  <1> QED
    BY <1>1, <1>2, <1>3, <1>4 DEF Next
-----------------------------------------------------------------------------
(***************************************************************************)
(* What others leave alone.                                                *)
(***************************************************************************)

\* The list of keys of a delete event never changes.
LEMMA PayloadStays ==
    ASSUME TypeInv, Origin, [Next]_vars
    PROVE  \A a \in Avatars : outbox[Delete(a)] # "none" => payload'[a] = payload[a]
  <1>1. RowStep
    BY StorageEffect
  <1>2. \A a \in Avatars : outbox[Delete(a)] # "none" => ~Live(a)
    BY DEF Origin, RowsAndEvents, Live
  <1>3. payload \in [Avatars -> SUBSET ObjectKeys]
    BY DEF TypeInv, TypeOK, StorageTypeOK
  <1>4. ASSUME NEW b, NEW keys, DeleteWithOutbox(b, keys)
        PROVE  \A a \in Avatars : outbox[Delete(a)] # "none" => payload'[a] = payload[a]
    BY <1>2, <1>3, <1>4 DEF DeleteWithOutbox
  <1> QED
    BY <1>1, <1>4 DEF RowStep, CreateWithOutbox, UpdateProcessingStatus,
                      UpdateThumbnailS3Keys, MarkPublished

\* Unless a worker is about to store a thumbnail of it, nothing comes back into
\* the bucket for a deleted avatar.
LEMMA NothingComesBack ==
    ASSUME TypeInv, Origin, [Next]_vars, NEW a \in Avatars, outbox[Delete(a)] # "none",
           \A w \in Workers : wpc[w] \in {"put100", "put300"} => Subject(w) # a
    PROVE  objects'[a] \subseteq objects[a]
  <1>1. ObjectStep
    BY StorageEffect
  <1>2. objects \in [Avatars -> SUBSET ObjectKeys]
    BY DEF TypeInv, TypeOK, StorageTypeOK
  <1>3. uploading[a] # "put"
    BY DEF Origin, RowsAndEvents
  <1> QED
    BY <1>1, <1>2, <1>3, InHandFacts DEF ObjectStep, PutObject, DeleteObject

\* Unless a worker is about to write the status of an avatar, it stays.
LEMMA StatusStays ==
    ASSUME TypeInv, Origin, [Next]_vars, NEW a \in Avatars, row[a].st # "none",
           \A w \in Workers : wpc[w] \in {"processing", "completed"} => Subject(w) # a
    PROVE  row'[a].status = row[a].status
  <1>1. RowStep
    BY StorageEffect
  <1>2. /\ row \in [Avatars -> Rows]
        /\ \A b \in Avatars : uploading[b] = "create" => row[b].st = "none"
    BY DEF Origin, TypeInv, TypeOK, StorageTypeOK, RowsAndEvents
  <1>3. ASSUME NEW b \in Avatars, uploading[b] = "create", CreateWithOutbox(b)
        PROVE  row'[a].status = row[a].status
    BY <1>2, <1>3 DEF CreateWithOutbox, Rows
  <1>4. ASSUME NEW b, NEW keys, DeleteWithOutbox(b, keys)
        PROVE  row'[a].status = row[a].status
    BY <1>2, <1>4 DEF DeleteWithOutbox, Rows
  <1>5. ASSUME NEW w \in Workers, wpc[w] \in {"processing", "completed"},
               NEW s, UpdateProcessingStatus(Subject(w), s)
        PROVE  row'[a].status = row[a].status
    BY <1>2, <1>5 DEF UpdateProcessingStatus, Rows
  <1>6. ASSUME NEW b, UpdateThumbnailS3Keys(b) PROVE row'[a].status = row[a].status
    BY <1>2, <1>6 DEF UpdateThumbnailS3Keys, Rows
  <1> QED
    BY <1>1, <1>3, <1>4, <1>5, <1>6 DEF RowStep, MarkPublished

\* Unless a worker is about to write its thumbnails, they stay as well.
LEMMA ThumbnailsStay ==
    ASSUME TypeInv, Origin, [Next]_vars, NEW a \in Avatars, row[a].st # "none",
           \A w \in Workers : wpc[w] = "save" => Subject(w) # a
    PROVE  row'[a].thumbs = row[a].thumbs
  <1>1. RowStep
    BY StorageEffect
  <1>2. /\ row \in [Avatars -> Rows]
        /\ \A b \in Avatars : uploading[b] = "create" => row[b].st = "none"
    BY DEF Origin, TypeInv, TypeOK, StorageTypeOK, RowsAndEvents
  <1>3. ASSUME NEW b \in Avatars, uploading[b] = "create", CreateWithOutbox(b)
        PROVE  row'[a].thumbs = row[a].thumbs
    BY <1>2, <1>3 DEF CreateWithOutbox, Rows
  <1>4. ASSUME NEW b, NEW keys, DeleteWithOutbox(b, keys)
        PROVE  row'[a].thumbs = row[a].thumbs
    BY <1>2, <1>4 DEF DeleteWithOutbox, Rows
  <1>5. ASSUME NEW b, NEW s, UpdateProcessingStatus(b, s) PROVE row'[a].thumbs = row[a].thumbs
    BY <1>2, <1>5 DEF UpdateProcessingStatus, Rows
  <1>6. ASSUME NEW w \in Workers, wpc[w] = "save", UpdateThumbnailS3Keys(Subject(w))
        PROVE  row'[a].thumbs = row[a].thumbs
    BY <1>2, <1>6 DEF UpdateThumbnailS3Keys, Rows
  <1> QED
    BY <1>1, <1>3, <1>4, <1>5, <1>6 DEF RowStep, MarkPublished

\* A handler begins with a message that is not processed and keeps it.
LEMMA HandlersBegin ==
    ASSUME TypeInv, [Next]_vars, NEW w \in Workers, wpc'[w] \in UploadCalls
    PROVE  /\ Keeps(w)
           /\ \/ wpc[w] \in UploadCalls
              \/ wpc[w] = "check" /\ msg[w].event \notin processed
  BY CallEffect, UploadEffect
     DEF UploadStep, UploadWay, Stays, Keeps, CallStep, Same, UploadCalls

\* The single process processes nothing while it works on something else.
LEMMA ProcessedStays ==
    ASSUME TypeInv, SingleProcess, [Next]_vars, NEW w \in Workers, wpc[w] # "mark"
    PROVE  processed' = processed
  BY StorageEffect DEF SingleProcess

\* What a worker's message tells of the tables.
LEMMA MessageFacts ==
    ASSUME TypeInv, Origin, NEW w \in Workers, wpc[w] # "idle"
    PROVE  /\ Subject(w) \in Avatars /\ row[Subject(w)].st # "none"
           /\ msg[w].event.kind = "upload" => msg[w].event = Upload(Subject(w))
           /\ msg[w].event.kind = "delete" =>
                 /\ msg[w].event = Delete(Subject(w))
                 /\ outbox[Delete(Subject(w))] # "none"
           /\ msg[w].event.kind \in {"upload", "delete"}
           /\ wpc[w] = "delete" => msg[w].event.kind = "delete"
           /\ wpc[w] \in UploadCalls => msg[w].event.kind = "upload"
  <1>1. /\ Subject(w) \in Avatars /\ msg[w].event \in Events
        /\ outbox[msg[w].event] # "none"
    BY InHandFacts DEF Origin, Provenance
  <1>2. /\ msg[w].event.kind = "upload" => msg[w].event = Upload(Subject(w))
        /\ msg[w].event.kind = "delete" => msg[w].event = Delete(Subject(w))
        /\ msg[w].event.kind \in {"upload", "delete"}
    BY <1>1, EventKinds DEF Subject
  <1>3. row[Subject(w)].st # "none"
    BY <1>1, <1>2 DEF Origin, RowsAndEvents
  <1> QED
    BY <1>1, <1>2, <1>3 DEF TypeInv, InHand
-----------------------------------------------------------------------------
(***************************************************************************)
(* Uploads are handled once and for all.                                   *)
(***************************************************************************)

\* A processed upload that no worker is busy with any more is left alone from
\* then on, by any number of workers: each of them reads that it is processed
\* before it does anything, so its status and its thumbnails stay as they are.
THEOREM HandledOnce == Spec => HandledUploadsStay
  <1> DEFINE Stay == \A a \in Avatars : LeftAlone(a) =>
                         LeftAlone(a)' /\ row'[a].status = row[a].status
                                       /\ row'[a].thumbs = row[a].thumbs
  <1>1. ASSUME TypeInv, Origin, [Next]_vars PROVE Stay
    <2> SUFFICES ASSUME NEW a \in Avatars, LeftAlone(a)
                 PROVE  LeftAlone(a)' /\ row'[a].status = row[a].status
                                      /\ row'[a].thumbs = row[a].thumbs
      OBVIOUS
    <2>1. Upload(a) \in processed'
      BY <1>1, StorageEffect DEF MarkProcessed, LeftAlone
    <2>2. ASSUME NEW w \in Workers PROVE ~Handling(w, a)'
      BY <1>1, HandlersBegin DEF Handling, LeftAlone, Keeps
    <2>3. ASSUME NEW w \in Workers, wpc[w] \in UploadCalls PROVE Subject(w) # a
      BY <1>1, <2>3, MessageFacts DEF Handling, LeftAlone, UploadCalls
    <2>4. row[a].st # "none"
      BY <1>1 DEF LeftAlone, Origin, Provenance, RowsAndEvents
    <2>5. row'[a].status = row[a].status
      BY <1>1, <2>3, <2>4, StatusStays DEF UploadCalls
    <2>6. row'[a].thumbs = row[a].thumbs
      BY <1>1, <2>3, <2>4, ThumbnailsStay DEF UploadCalls
    <2> QED
      BY <2>1, <2>2, <2>5, <2>6 DEF LeftAlone
  <1>2. TypeInv /\ Origin /\ [Next]_vars => [Stay]_vars
    BY <1>1
  <1> QED
    BY OriginCorrect, <1>2, PTL DEF Spec, HandledUploadsStay
-----------------------------------------------------------------------------
(***************************************************************************)
(* Deletions are final.                                                    *)
(***************************************************************************)

\* A worker that deletes loses no key from its list before it is removed.
LEMMA DeletingKeepsOn ==
    ASSUME TypeInv, Origin, SingleProcess, RemovedForGood, [Next]_vars,
           NEW w \in Workers, wpc'[w] \in {"delete", "mark"},
           msg'[w].event.kind = "delete"
    PROVE  LET left == objects'[Subject(w)'] \cap payload'[Subject(w)']
           IN  /\ wpc'[w] = "delete" => left \subseteq todo'[w]
               /\ wpc'[w] = "mark" => left = {}
  <1> DEFINE a == Subject(w)
  <1>t. /\ objects \in [Avatars -> SUBSET ObjectKeys]
        /\ payload \in [Avatars -> SUBSET ObjectKeys]
    BY DEF TypeInv, TypeOK, StorageTypeOK
  <1>c. CallStep
    BY CallEffect
  <1>k. msg'[w] = msg[w] /\ wpc[w] # "idle"
    BY <1>c DEF CallStep, Same, RemovedKey
  <1>m. /\ Subject(w)' = a /\ a \in Avatars
        /\ msg[w].event.kind = "delete" /\ outbox[Delete(a)] # "none"
    BY <1>k, MessageFacts DEF Subject
  <1>p. payload'[a] = payload[a]
    BY <1>m, PayloadStays
  <1>o. wpc[w] \in {"delete", "mark"} => objects'[a] \subseteq objects[a]
    <2> SUFFICES ASSUME wpc[w] \in {"delete", "mark"} PROVE objects'[a] \subseteq objects[a]
      OBVIOUS
    <2>1. \A v \in Workers : wpc[v] \in {"put100", "put300"} => Subject(v) # a
      BY DEF SingleProcess
    <2> QED
      BY <1>m, <2>1, NothingComesBack
  <1>1. CASE Same(w)
    BY <1>1, <1>m, <1>p, <1>o DEF Same, RemovedForGood
  <1>2. CASE wpc'[w] = "delete" /\ todo'[w] = payload[a]
    BY <1>2, <1>m, <1>p
  <1>3. CASE RemovedKey(w)
    <2>1. PICK key \in todo[w] : /\ DeleteObject(a, key)
                                 /\ todo'[w] = todo[w] \ {key}
                                 /\ wpc'[w] = "mark" => todo[w] = {key}
      BY <1>3 DEF RemovedKey
    <2>2. objects'[a] = objects[a] \ {key}
      BY <2>1, <1>m, <1>t DEF DeleteObject
    <2>3. objects[a] \cap payload[a] \subseteq todo[w]
      BY <1>3 DEF RemovedKey, RemovedForGood
    <2> QED
      BY <1>m, <1>p, <2>1, <2>2, <2>3
  <1>4. wpc[w] # "completed"
    BY <1>m, MessageFacts DEF UploadCalls
  <1> QED
    BY <1>c, <1>1, <1>2, <1>3, <1>4 DEF CallStep

\* No step undoes a deletion or lets one be marked as done too early.
LEMMA RemovedStep ==
    ASSUME IInv, SingleProcess, RemovedForGood, [Next]_vars, TypeInv', Origin'
    PROVE  RemovedForGood'
  <1>i. TypeInv /\ Origin
    BY DEF IInv, Origin
  <1>1. DeletedObjectsGone'
    <2> SUFFICES ASSUME NEW a \in Avatars, Delete(a) \in processed'
                 PROVE  objects'[a] \cap payload'[a] = {}
      BY DEF DeletedObjectsGone
    <2>1. CASE Delete(a) \in processed
      <3>1. outbox[Delete(a)] # "none"
        BY <1>i, <2>1 DEF Origin, Provenance
      <3>2. payload'[a] = payload[a]
        BY <1>i, <3>1, PayloadStays
      <3>3. objects'[a] \subseteq objects[a]
        BY <1>i, <2>1, <3>1, NothingComesBack DEF RemovedForGood
      <3> QED
        BY <2>1, <3>2, <3>3 DEF RemovedForGood, DeletedObjectsGone
    <2>2. ASSUME NEW w \in Workers, wpc[w] = "mark", MarkProcessed(msg[w].event),
                 Delete(a) = msg[w].event
          PROVE  objects'[a] \cap payload'[a] = {}
      <3>1. Subject(w) = a /\ msg[w].event.kind = "delete"
        BY <2>2, EventFacts DEF Subject
      <3> QED
        BY <2>2, <3>1 DEF MarkProcessed, RemovedForGood
    <2> QED
      BY <1>i, <2>1, <2>2, StorageEffect DEF MarkProcessed
  <1>2. ASSUME NEW w \in Workers, wpc'[w] \in {"get", "put100", "put300"}
        PROVE  Delete(Subject(w)') \notin processed'
    <2>1. /\ Keeps(w) /\ wpc[w] \in {"processing", "get", "put100", "put300"}
          /\ wpc[w] = "processing" => Live(Subject(w))
      BY <1>2, <1>i, CallEffect, UploadEffect
         DEF UploadStep, UploadWay, Stays, Keeps, CallStep, Same, UpdateProcessingStatus
    <2>2. processed' = processed /\ Subject(w)' = Subject(w) /\ Subject(w) \in Avatars
      BY <2>1, <1>i, ProcessedStays, MessageFacts DEF Keeps, Subject
    <2>3. CASE wpc[w] = "processing"
      BY <1>i, <2>1, <2>2, <2>3 DEF Origin, RowsAndEvents, Provenance, Live
    <2>4. CASE wpc[w] # "processing"
      BY <2>1, <2>2, <2>4 DEF RemovedForGood
    <2> QED
      BY <2>3, <2>4
  <1>3. ASSUME NEW w \in Workers, wpc'[w] = "delete"
        PROVE  objects'[Subject(w)'] \cap payload'[Subject(w)'] \subseteq todo'[w]
    <2>1. msg'[w].event.kind = "delete"
      BY <1>3 DEF TypeInv, InHand
    <2> QED
      BY <1>3, <1>i, <2>1, DeletingKeepsOn
  <1>4. ASSUME NEW w \in Workers, wpc'[w] = "mark", msg'[w].event.kind = "delete"
        PROVE  objects'[Subject(w)'] \cap payload'[Subject(w)'] = {}
    BY <1>4, <1>i, DeletingKeepsOn
  <1> QED
    BY <1>1, <1>2, <1>3, <1>4 DEF RemovedForGood
-----------------------------------------------------------------------------
(***************************************************************************)
(* Completed uploads show as completed.                                    *)
(***************************************************************************)

\* A row that is live after a step and existed before it was live before it;
\* thumbnails once saved stay saved.
LEMMA StaysLive ==
    ASSUME TypeInv, Origin, [Next]_vars, NEW a \in Avatars, row[a].st # "none", Live(a)'
    PROVE  Live(a) /\ (row[a].thumbs = Thumbnails => row'[a].thumbs = Thumbnails)
  BY BecomesLive DEF Live

LEMMA CompletedStep ==
    ASSUME IInv, SingleProcess, CompletedForGood, [Next]_vars, TypeInv', Origin'
    PROVE  CompletedForGood'
  <1>i. TypeInv /\ Origin
    BY DEF IInv, Origin
  <1>t. row \in [Avatars -> Rows]
    BY DEF IInv, TypeInv, TypeOK, StorageTypeOK
  <1>1. ProcessedIsCompleted'
    <2> SUFFICES ASSUME NEW a \in Avatars, Upload(a) \in processed', Live(a)'
                 PROVE  row'[a].status = "completed" /\ row'[a].thumbs = Thumbnails
      BY DEF ProcessedIsCompleted
    <2>1. CASE Upload(a) \in processed
      <3>1. row[a].st # "none"
        BY <1>i, <2>1 DEF Origin, Provenance, RowsAndEvents
      <3>2. Live(a) /\ (row[a].thumbs = Thumbnails => row'[a].thumbs = Thumbnails)
        BY <1>i, <3>1, StaysLive
      <3>3. ASSUME NEW w \in Workers, wpc[w] \in {"processing", "completed"}
            PROVE  Subject(w) # a
        BY <1>i, <2>1, <3>3, MessageFacts DEF CompletedForGood, UploadCalls
      <3>4. row'[a].status = row[a].status
        BY <1>i, <3>1, <3>3, StatusStays
      <3> QED
        BY <2>1, <3>2, <3>4 DEF CompletedForGood, ProcessedIsCompleted
    <2>2. ASSUME NEW w \in Workers, wpc[w] = "mark", MarkProcessed(msg[w].event),
                 Upload(a) = msg[w].event
          PROVE  row'[a].status = "completed" /\ row'[a].thumbs = Thumbnails
      <3>1. Subject(w) = a /\ msg[w].event.kind = "upload" /\ row' = row
        BY <2>2, EventFacts DEF Subject, MarkProcessed
      <3> QED
        BY <2>2, <3>1 DEF CompletedForGood, Live
    <2> QED
      BY <1>i, <2>1, <2>2, StorageEffect DEF MarkProcessed
  <1>2. ASSUME NEW w \in Workers, wpc'[w] \in UploadCalls
        PROVE  msg'[w].event \notin processed'
    <2>1. /\ Keeps(w)
          /\ \/ wpc[w] \in UploadCalls
             \/ wpc[w] = "check" /\ msg[w].event \notin processed
      BY <1>2, <1>i, HandlersBegin
    <2>2. processed' = processed
      BY <1>i, <2>1, ProcessedStays DEF UploadCalls
    <2> QED
      BY <2>1, <2>2 DEF CompletedForGood, Keeps
  <1>3. ASSUME NEW w \in Workers, wpc'[w] = "completed", Live(Subject(w))'
        PROVE  row'[Subject(w)'].thumbs = Thumbnails
    <2>1. \/ Stays(w)
          \/ Keeps(w) /\ wpc[w] = "save" /\ UpdateThumbnailS3Keys(Subject(w))
      BY <1>3, <1>i, UploadEffect DEF UploadStep, UploadWay
    <2>2. Subject(w)' = Subject(w) /\ Subject(w) \in Avatars /\ row[Subject(w)].st # "none"
      BY <1>3, <1>i, <2>1, MessageFacts DEF Stays, Keeps, Subject
    <2>3. CASE Stays(w)
      BY <1>3, <1>i, <2>2, <2>3, StaysLive DEF Stays, CompletedForGood, Live
    <2>4. CASE UpdateThumbnailS3Keys(Subject(w))
      BY <1>t, <2>2, <2>4 DEF UpdateThumbnailS3Keys, Rows
    <2> QED
      BY <2>1, <2>3, <2>4
  <1>4. ASSUME NEW w \in Workers, wpc'[w] = "mark", msg'[w].event.kind = "upload",
               Live(Subject(w))'
        PROVE  /\ row'[Subject(w)'].status = "completed"
               /\ row'[Subject(w)'].thumbs = Thumbnails
    <2>1. /\ Keeps(w) /\ wpc[w] # "idle"
          /\ \/ wpc[w] = "mark"
             \/ wpc[w] = "completed" /\ UpdateProcessingStatus(Subject(w), "completed")
      <3>1. Same(w) \/ RemovedKey(w) \/ (Keeps(w) /\ wpc[w] = "completed")
        BY <1>4, <1>i, CallEffect DEF CallStep, Keeps
      <3>2. ~RemovedKey(w)
        BY <1>4, <1>i, MessageFacts DEF RemovedKey
      <3> QED
        BY <1>4, <1>i, <3>1, <3>2, UploadEffect DEF UploadStep, UploadWay, Same, Keeps
    <2>2. /\ Subject(w)' = Subject(w) /\ Subject(w) \in Avatars
          /\ row[Subject(w)].st # "none" /\ msg[w].event.kind = "upload"
      BY <1>4, <1>i, <2>1, MessageFacts DEF Keeps, Subject
    <2>3. Live(Subject(w)) /\ (row[Subject(w)].thumbs = Thumbnails
                                  => row'[Subject(w)].thumbs = Thumbnails)
      BY <1>4, <1>i, <2>2, StaysLive DEF Live
    <2>4. CASE wpc[w] = "mark"
      <3>1. \A v \in Workers : wpc[v] \in {"processing", "completed"} => Subject(v) # Subject(w)
        BY <2>4 DEF SingleProcess
      <3>2. row'[Subject(w)].status = row[Subject(w)].status
        BY <1>4, <1>i, <2>2, <3>1, StatusStays DEF Live
      <3> QED
        BY <2>2, <2>3, <2>4, <3>2 DEF CompletedForGood
    <2>5. CASE wpc[w] = "completed" /\ UpdateProcessingStatus(Subject(w), "completed")
      <3>1. row'[Subject(w)].status = "completed"
        BY <1>t, <2>2, <2>5 DEF UpdateProcessingStatus, Rows
      <3> QED
        BY <2>2, <2>3, <2>5, <3>1 DEF CompletedForGood
    <2> QED
      BY <2>1, <2>4, <2>5
  <1> QED
    BY <1>1, <1>2, <1>3, <1>4 DEF CompletedForGood
-----------------------------------------------------------------------------
(***************************************************************************)
(* The two promises.                                                       *)
(***************************************************************************)
LEMMA SingleInit == Init => SingleInv
  BY DEF Init, StorageInit, WorkerInit, NoRow, Live, SingleInv, RemovedForGood,
         CompletedForGood, DeletedObjectsGone, ProcessedIsCompleted, UploadCalls

\* With a single process nobody interferes with a worker between its calls:
\* what it has removed stays away, what it has written stays in the row.
THEOREM SingleInvariance == ASSUME SingleProcess PROVE Spec => []SingleInv
  <1>1. IInv /\ IInv' /\ SingleInv /\ [Next]_vars => SingleInv'
    BY RemovedStep, CompletedStep DEF IInv, Origin, SingleInv
  <1> QED
    BY Invariance, SingleInit, <1>1, PTL DEF Spec

\* With a single process every object that a processed delete event names is
\* gone from the bucket and stays away.
THEOREM DeletionIsFinal == ASSUME SingleProcess PROVE Spec => []DeletedObjectsGone
  <1>1. SingleInv => DeletedObjectsGone
    BY DEF SingleInv, RemovedForGood
  <1> QED
    BY SingleInvariance, <1>1, PTL

\* With a single process an undeleted avatar whose upload was processed shows
\* as completed and with all its thumbnails, however often the upload message
\* is repeated.
THEOREM UploadsComplete == ASSUME SingleProcess PROVE Spec => []ProcessedIsCompleted
  <1>1. SingleInv => ProcessedIsCompleted
    BY DEF SingleInv, CompletedForGood
  <1> QED
    BY SingleInvariance, <1>1, PTL
=============================================================================
