------------------------ MODULE AvatarPipelineProofs ------------------------
(***************************************************************************)
(* Proofs about AvatarPipeline, for every set of avatars, users, requests  *)
(* and worker processes, every batch size and retry limit, and any number  *)
(* of failures.  The inductive invariant is established part by part:      *)
(* each part is preserved by every step from states where the parts before *)
(* it hold.                                                                *)
(***************************************************************************)
EXTENDS AvatarInvariant, TLAPS

USE MaxFaultsAssumption, OwnerAssumption, MaxRetriesAssumption, BatchAssumption,
    NoneAssumption

-----------------------------------------------------------------------------
(***************************************************************************)
(* Types, and what the handlers hold.                                      *)
(***************************************************************************)

\* The events of an avatar are events, and tell kind and avatar apart.
LEMMA EventFacts ==
    \A a \in Avatars :
        /\ Upload(a) \in Events /\ Delete(a) \in Events
        /\ Upload(a) # Delete(a)
        /\ Upload(a).avatar = a /\ Delete(a).avatar = a
        /\ Upload(a).kind = "upload" /\ Delete(a).kind = "delete"
  BY DEF Events, Upload, Delete

\* An event is the upload or the delete event of its avatar.
LEMMA EventKinds ==
    \A e \in Events : /\ e.avatar \in Avatars
                      /\ e.kind = "upload" => e = Upload(e.avatar)
                      /\ e.kind = "delete" => e = Delete(e.avatar)
                      /\ e.kind \in {"upload", "delete"}
  BY DEF Events, Upload, Delete

\* The initial state is well typed and nobody holds anything.
LEMMA TypeInit == Init => TypeInv
  BY DEF Init, TypeInv, InHand, TypeOK, StorageInit, StorageTypeOK, BrokerInit,
         BrokerTypeOK, ServiceInit, ServiceTypeOK, PublisherInit, PublisherTypeOK,
         WorkerInit, WorkerTypeOK, FaultsInit, Rows, NoRow, Thumbnails, ObjectKeys,
         Statuses, Calls, UploadCalls, Unread

\* Every step of a request keeps the types.
LEMMA ServeType == TypeInv /\ Serve => TypeInv'
  <1> SUFFICES ASSUME TypeInv, ServiceStep,
                      UNCHANGED <<brokerVars, publisherVars, workerVars>>
               PROVE  TypeInv'
    BY DEF Serve
  <1> USE DEF TypeInv, InHand, TypeOK, StorageTypeOK, BrokerTypeOK, ServiceTypeOK,
              PublisherTypeOK, WorkerTypeOK, brokerVars, publisherVars, workerVars,
              storageVars, Fault, NoFault, UploadGoes
  <1>1. ASSUME NEW a \in Avatars, UploadPut(a) PROVE TypeInv'
    BY <1>1 DEF UploadPut, PutObject, ObjectKeys
  <1>2. ASSUME NEW a \in Avatars, UploadCreate(a) PROVE TypeInv'
    <2>1. NewRow \in Rows
      BY DEF NewRow, Rows, Statuses
    <2>2. ASSUME NEW r \in Rows PROVE [r EXCEPT !.active = FALSE] \in Rows
      BY DEF Rows
    <2>3. CreateWithOutbox(a) => StorageTypeOK'
      BY <2>1, <2>2, EventFacts DEF CreateWithOutbox
    <2> QED
      BY <1>2, <2>3 DEF UploadCreate
  <1>3. ASSUME NEW d \in Deleters, NEW a \in Avatars, DeleteRead(d, a) PROVE TypeInv'
    BY <1>3 DEF DeleteRead, Reads, Rows, ObjectKeys
  <1>4. ASSUME NEW d \in Deleters, DeleteCommit(d) PROVE TypeInv'
    <2>1. deleting[d] \in Reads
      BY <1>4 DEF DeleteCommit, Unread
    <2>2. ASSUME NEW r \in Rows
          PROVE  [r EXCEPT !.st = "deleted", !.active = FALSE] \in Rows
      BY DEF Rows
    <2>3. ASSUME NEW a \in Avatars, NEW keys \in SUBSET ObjectKeys,
                 DeleteWithOutbox(a, keys)
          PROVE  StorageTypeOK'
      <3>1. row' \in [Avatars -> Rows]
        BY <2>2, <2>3 DEF DeleteWithOutbox
      <3>2. /\ outbox' \in [Events -> {"none", "pending", "published"}]
            /\ payload' \in [Avatars -> SUBSET ObjectKeys]
            /\ UNCHANGED <<processed, objects>>
        BY <2>3, EventFacts DEF DeleteWithOutbox
      <3> QED
        BY <3>1, <3>2
    <2>4. StorageTypeOK'
      BY <1>4, <2>1, <2>3 DEF DeleteCommit, Reads
    <2> QED
      BY <1>4, <2>4 DEF DeleteCommit
  <1> QED
    BY <1>1, <1>2, <1>3, <1>4 DEF ServiceStep

\* Every step of a publisher keeps the types.
LEMMA PublishType ==
    ASSUME NEW w \in Workers, TypeInv, PublishSome(w) PROVE TypeInv'
  <1>m. \A e \in Events : [event |-> e, attempt |-> 0] \in Messages
    BY DEF Messages, Attempts
  <1> USE DEF TypeInv, InHand, TypeOK, StorageTypeOK, BrokerTypeOK, ServiceTypeOK,
              PublisherTypeOK, WorkerTypeOK, brokerVars, serviceVars, workerVars,
              storageVars, queues, Fault, NoFault, Publisher, GiveUp
  <1> UNCHANGED <<serviceVars, workerVars>>
    BY DEF PublishSome
  <1>1. CASE Poll(w)
    BY <1>1 DEF Poll, GetPending, Pending
  <1>2. CASE Publish(w)
    <2>1. UNCHANGED <<storageVars, conn, losses>> /\ faults' \in 0 .. MaxFaults
      BY <1>2 DEF Publish
    <2>2. PICK e \in Events : \/ PublishJSON(e) \/ UNCHANGED queues
      BY <1>2 DEF Publish
    <2>3. BrokerTypeOK'
      BY <1>m, <2>1, <2>2 DEF PublishJSON, Plus
    <2>4. PublisherTypeOK' /\ \A v \in Workers : ppc'[v] = "mark" => publishing'[v] \in Events
      BY <1>2, <2>1 DEF Publish
    <2> QED
      BY <2>1, <2>3, <2>4
  <1>3. CASE Mark(w)
    <2>1. UNCHANGED <<brokerVars, losses>> /\ faults' \in 0 .. MaxFaults
      BY <1>3 DEF Mark
    <2>2. StorageTypeOK'
      BY <1>3 DEF Mark, MarkPublished
    <2>3. /\ ppc' = [ppc EXCEPT ![w] = "poll"] \/ ppc' = [ppc EXCEPT ![w] = "publish"]
          /\ \E rest \in SUBSET Events : batch' = [batch EXCEPT ![w] = rest]
          /\ publishing' = [publishing EXCEPT ![w] = None]
      <3>1. batch[w] \ {publishing[w]} \in SUBSET Events /\ {} \in SUBSET Events
        OBVIOUS
      <3> QED
        BY <1>3, <3>1 DEF Mark
    <2> QED
      BY <2>1, <2>2, <2>3
  <1> QED
    BY <1>1, <1>2, <1>3 DEF PublishSome, PublisherStep

\* Every step of a worker keeps the types: the handler it enters fits the kind
\* of its message, and a retried attempt still fits its queue.
LEMMA WorkType ==
    ASSUME NEW w \in Workers, TypeInv, Work(w) PROVE TypeInv'
  <1> USE DEF TypeInv, InHand, TypeOK, StorageTypeOK, BrokerTypeOK, ServiceTypeOK,
              PublisherTypeOK, WorkerTypeOK, brokerVars, serviceVars, publisherVars,
              storageVars, queues, Fault, NoFault, Goes, Done, Calls, UploadCalls
  <1> UNCHANGED <<serviceVars, publisherVars>>
    BY DEF Work
  <1>m. \A m \in Messages : m.event \in Events /\ m.attempt \in Attempts
    BY DEF Messages
  <1>s. wpc[w] # "idle" => Subject(w) \in Avatars
    BY <1>m, EventKinds DEF Subject
  <1>r. \A a \in Avatars, s \in Statuses : UpdateProcessingStatus(a, s) => StorageTypeOK'
    <2>1. \A r \in Rows, s \in Statuses : [r EXCEPT !.status = s] \in Rows
      BY DEF Rows
    <2> QED
      BY <2>1 DEF UpdateProcessingStatus
  <1>t. \A a \in Avatars : UpdateThumbnailS3Keys(a) => StorageTypeOK'
    <2>1. \A r \in Rows : [r EXCEPT !.thumbs = Thumbnails] \in Rows
      BY DEF Rows
    <2> QED
      BY <2>1 DEF UpdateThumbnailS3Keys
  <1>p. \A a \in Avatars, k \in ObjectKeys :
           PutObject(a, k) \/ DeleteObject(a, k) => StorageTypeOK'
    BY DEF PutObject, DeleteObject
  <1>1. CASE Take(w)
    BY <1>1 DEF Take, Deliver, Minus
  <1>2. CASE Check(w)
    <2>1. wpc[w] = "check" /\ msg[w] \in Messages /\ UNCHANGED <<storageVars, brokerVars>>
      BY <1>2 DEF Check
    <2>2. msg' = msg /\ wpc' \in [Workers -> Calls] /\ faults' \in 0 .. MaxFaults
      BY <1>2 DEF Check
    <2>3. todo' \in [Workers -> SUBSET ObjectKeys]
      <3>1. payload[msg[w].event.avatar] \in SUBSET ObjectKeys
        BY <2>1, <1>m, EventKinds
      <3> QED
        BY <1>2, <3>1 DEF Check
    <2>4. wpc'[w] = "delete" => msg[w].event.kind = "delete"
      BY <1>2 DEF Check
    <2>5. wpc'[w] \in UploadCalls => msg[w].event.kind = "upload"
      BY <1>2 DEF Check
    <2>6. \A v \in Workers : v # w => wpc'[v] = wpc[v]
      BY <1>2 DEF Check
    <2> QED
      BY <2>1, <2>2, <2>3, <2>4, <2>5, <2>6
  <1>3. CASE NotThere(w)
    BY <1>3 DEF NotThere
  <1>4. CASE SetProcessing(w)
    <2>1. StorageTypeOK'
      BY <1>4, <1>r, <1>s DEF SetProcessing, Call, Statuses
    <2>2. UNCHANGED brokerVars /\ WorkerTypeOK' /\ InHand' /\ faults' \in 0 .. MaxFaults
      BY <1>4 DEF SetProcessing, Call
    <2> QED
      BY <2>1, <2>2
  <1>5. CASE GetOriginal(w)
    BY <1>5 DEF GetOriginal, Call
  <1>6. CASE PutThumbnail100(w)
    <2>1. StorageTypeOK'
      BY <1>6, <1>p, <1>s DEF PutThumbnail100, Call, ObjectKeys, Thumbnails
    <2>2. UNCHANGED brokerVars /\ WorkerTypeOK' /\ InHand' /\ faults' \in 0 .. MaxFaults
      BY <1>6 DEF PutThumbnail100, Call
    <2> QED
      BY <2>1, <2>2
  <1>7. CASE PutThumbnail300(w)
    <2>1. StorageTypeOK'
      BY <1>7, <1>p, <1>s DEF PutThumbnail300, Call, ObjectKeys, Thumbnails
    <2>2. UNCHANGED brokerVars /\ WorkerTypeOK' /\ InHand' /\ faults' \in 0 .. MaxFaults
      BY <1>7 DEF PutThumbnail300, Call
    <2> QED
      BY <2>1, <2>2
  <1>8. CASE SaveThumbnailKeys(w)
    <2>1. StorageTypeOK'
      BY <1>8, <1>t, <1>s DEF SaveThumbnailKeys, Call
    <2>2. UNCHANGED brokerVars /\ WorkerTypeOK' /\ InHand' /\ faults' \in 0 .. MaxFaults
      BY <1>8 DEF SaveThumbnailKeys, Call
    <2> QED
      BY <2>1, <2>2
  <1>9. CASE SetCompleted(w)
    <2>1. StorageTypeOK'
      BY <1>9, <1>r, <1>s DEF SetCompleted, Call, Statuses
    <2>2. UNCHANGED brokerVars /\ WorkerTypeOK' /\ InHand' /\ faults' \in 0 .. MaxFaults
      BY <1>9 DEF SetCompleted, Call
    <2> QED
      BY <2>1, <2>2
  <1>10. CASE DeleteKey(w)
    BY <1>10, <1>p, <1>s DEF DeleteKey
  <1>11. CASE MarkDone(w)
    BY <1>11, <1>m DEF MarkDone, Call, MarkProcessed
  <1>12. CASE Ack(w)
    BY <1>12 DEF Ack
  <1>13. CASE Retry(w)
    <2>1. wpc[w] = "retry" /\ msg[w] \in Messages
      BY <1>13 DEF Retry
    <2>2. HasRetryQueue(msg[w].attempt + 1)
             => [msg[w] EXCEPT !.attempt = @ + 1] \in Messages
      BY <2>1 DEF HasRetryQueue, Messages, Attempts
    <2>3. retry' \in [Messages -> Nat] /\ UNCHANGED <<ready, dlq>>
      <3>1. \A m \in Messages : Plus(retry, m) \in [Messages -> Nat]
        BY DEF Plus
      <3>2. CASE UNCHANGED queues
        BY <3>2
      <3>3. CASE HasRetryQueue(msg[w].attempt + 1) /\ PublishRetry(msg[w])
        BY <2>2, <3>1, <3>3 DEF PublishRetry
      <3> QED
        BY <1>13, <3>2, <3>3 DEF Retry
    <2>4. /\ msg' = msg /\ todo' = todo /\ faults' \in 0 .. MaxFaults
          /\ wpc' = [wpc EXCEPT ![w] = "ack"] \/ wpc' = [wpc EXCEPT ![w] = "reject"]
          /\ UNCHANGED <<storageVars, conn>>
      BY <1>13 DEF Retry
    <2> QED
      BY <2>1, <2>3, <2>4
  <1>14. CASE RejectMessage(w)
    BY <1>14 DEF RejectMessage, Reject, Plus
  <1> QED
    BY <1>1, <1>2, <1>3, <1>4, <1>5, <1>6, <1>7, <1>8, <1>9, <1>10, <1>11, <1>12,
       <1>13, <1>14 DEF Work, WorkerStep

\* So does what happens to a process or to a waiting message.
LEMMA ProcessType ==
    ASSUME TypeInv,
           Expire \/ \E w \in Workers : Disconnect(w) \/ PublishLost(w) \/ Crash(w) \/ Redeploy(w)
    PROVE  TypeInv'
  <1> USE DEF TypeInv, InHand, TypeOK, StorageTypeOK, BrokerTypeOK, ServiceTypeOK,
              PublisherTypeOK, WorkerTypeOK, serviceVars, publisherVars, workerVars,
              storageVars, queues, Fault, NoFault, Done, GiveUp, Publisher, Restart,
              Calls
  <1>1. CASE Expire
    BY <1>1 DEF Expire, RetryExpires, Plus, Minus
  <1>2. ASSUME NEW w \in Workers, TakenBack(w) PROVE ready' \in [Messages -> Nat]
                                                 /\ UNCHANGED <<retry, dlq>>
    BY <1>2 DEF TakenBack, Requeue, Plus
  <1>3. ASSUME NEW w \in Workers, Disconnect(w) PROVE TypeInv'
    BY <1>2, <1>3 DEF Disconnect
  <1>4. ASSUME NEW w \in Workers, PublishLost(w) PROVE TypeInv'
    BY <1>2, <1>4 DEF PublishLost
  <1>r. ASSUME NEW w \in Workers, Restart(w), faults' \in 0 .. MaxFaults,
               ready' \in [Messages -> Nat], UNCHANGED <<retry, dlq>>
        PROVE  TypeInv'
    <2>1. PublisherTypeOK' /\ WorkerTypeOK' /\ conn' \in [Workers -> BOOLEAN]
      BY <1>r
    <2>2. wpc'[w] = "idle" /\ ppc'[w] = "poll"
      BY <1>r
    <2>3. \A v \in Workers : v # w =>
             /\ wpc'[v] = wpc[v] /\ msg'[v] = msg[v]
             /\ ppc'[v] = ppc[v] /\ publishing'[v] = publishing[v]
      BY <1>r
    <2>4. InHand'
      BY <2>2, <2>3 DEF UploadCalls
    <2> QED
      BY <1>r, <2>1, <2>4
  <1>5. ASSUME NEW w \in Workers, Crash(w) PROVE TypeInv'
    <2>1. TakenBack(w) /\ Restart(w) /\ faults' \in 0 .. MaxFaults
      BY <1>5 DEF Crash
    <2>2. ready' \in [Messages -> Nat] /\ UNCHANGED <<retry, dlq>>
      BY <1>2, <2>1
    <2> HIDE DEF TypeInv, Restart
    <2> QED
      BY <1>r, <2>1, <2>2
  <1>6. ASSUME NEW w \in Workers, Redeploy(w) PROVE TypeInv'
    BY <1>6, <1>r DEF Redeploy
  <1> QED
    BY <1>1, <1>3, <1>4, <1>5, <1>6

\* Doing nothing keeps the types.
LEMMA StutterType == TypeInv /\ UNCHANGED vars => TypeInv'
  BY DEF TypeInv, InHand, TypeOK, StorageTypeOK, BrokerTypeOK, ServiceTypeOK,
         PublisherTypeOK, WorkerTypeOK, vars, storageVars, brokerVars, serviceVars,
         publisherVars, workerVars

LEMMA TypeStep == TypeInv /\ [Next]_vars => TypeInv'
  BY ServeType, PublishType, WorkType, ProcessType, StutterType DEF Next

\* Every variable keeps its type: counts of messages never go below zero, and
\* no retry is published with an attempt that has no queue.
THEOREM TypeCorrect == Spec => []TypeOK
  <1>1. TypeInv => TypeOK
    BY DEF TypeInv
  <1> QED
    BY TypeInit, TypeStep, <1>1, PTL DEF Spec
-----------------------------------------------------------------------------
(***************************************************************************)
(* What a step can do, by component.  Later proofs split on these few      *)
(* effects instead of on the actions.                                      *)
(***************************************************************************)

\* The effect of a step on the rows and the outbox, and who may cause it.
RowStep ==
    \/ UNCHANGED <<row, outbox, payload>>
    \/ \E a \in Avatars : /\ uploading[a] = "create"
                          /\ uploading'[a] \in {"done", "failed"}
                          /\ CreateWithOutbox(a)
    \/ \E d \in Deleters : /\ deleting[d] \in Reads
                           /\ DeleteWithOutbox(deleting[d].avatar, deleting[d].keys)
    \/ \E w \in Workers : /\ wpc[w] \in {"processing", "completed"}
                          /\ \E s \in Statuses : UpdateProcessingStatus(Subject(w), s)
    \/ \E w \in Workers : wpc[w] = "save" /\ UpdateThumbnailS3Keys(Subject(w))
    \/ \E w \in Workers : ppc[w] = "mark" /\ MarkPublished(publishing[w])

\* The effect of a step on the bucket.
ObjectStep ==
    \/ UNCHANGED objects
    \/ \E a \in Avatars : uploading[a] = "put" /\ PutObject(a, "original")
    \/ \E w \in Workers : wpc[w] = "put100" /\ PutObject(Subject(w), "100x100")
    \/ \E w \in Workers : wpc[w] = "put300" /\ PutObject(Subject(w), "300x300")
    \/ \E w \in Workers : wpc[w] = "delete" /\ \E k \in todo[w] : DeleteObject(Subject(w), k)

\* How far an upload request gets in one step.
UploadingStep ==
    \A a \in Avatars :
        \/ uploading'[a] = uploading[a]
        \/ uploading[a] = "put" /\ uploading'[a] = "failed"
        \/ uploading[a] = "put" /\ uploading'[a] = "create" /\ PutObject(a, "original")
        \/ uploading[a] = "create" /\ uploading'[a] \in {"done", "failed"}

\* The server's steps have these effects.
LEMMA ServeEffect ==
    TypeInv /\ Serve => RowStep /\ ObjectStep /\ UploadingStep /\ processed' = processed
  <1> SUFFICES ASSUME TypeInv, ServiceStep
               PROVE  RowStep /\ ObjectStep /\ UploadingStep /\ processed' = processed
    BY DEF Serve
  <1> USE DEF storageVars, UploadGoes
  <1>0. uploading \in [Avatars -> {"put", "create", "done", "failed"}]
    BY DEF TypeInv, TypeOK, ServiceTypeOK
  <1>1. ASSUME NEW a \in Avatars, UploadPut(a)
        PROVE  RowStep /\ ObjectStep /\ UploadingStep /\ processed' = processed
    BY <1>0, <1>1 DEF UploadPut, RowStep, ObjectStep, UploadingStep, PutObject
  <1>2. ASSUME NEW a \in Avatars, UploadCreate(a)
        PROVE  RowStep /\ ObjectStep /\ UploadingStep /\ processed' = processed
    <2>1. UploadingStep /\ uploading[a] = "create" /\ uploading'[a] \in {"done", "failed"}
      BY <1>0, <1>2 DEF UploadCreate, UploadingStep
    <2>2. CreateWithOutbox(a) \/ UNCHANGED storageVars
      BY <1>2 DEF UploadCreate
    <2>3. UNCHANGED objects /\ UNCHANGED processed
      BY <2>2 DEF CreateWithOutbox
    <2> QED
      BY <2>1, <2>2, <2>3 DEF RowStep, ObjectStep
  <1>3. ASSUME NEW d \in Deleters, NEW a \in Avatars, DeleteRead(d, a)
        PROVE  RowStep /\ ObjectStep /\ UploadingStep /\ processed' = processed
    BY <1>3 DEF DeleteRead, RowStep, ObjectStep, UploadingStep
  <1>4. ASSUME NEW d \in Deleters, DeleteCommit(d)
        PROVE  RowStep /\ ObjectStep /\ UploadingStep /\ processed' = processed
    <2>1. deleting[d] \in Reads
      BY <1>4 DEF DeleteCommit, TypeInv, TypeOK, ServiceTypeOK, Unread
    <2>2. \/ DeleteWithOutbox(deleting[d].avatar, deleting[d].keys)
          \/ UNCHANGED storageVars
      BY <1>4 DEF DeleteCommit
    <2>3. UNCHANGED objects /\ UNCHANGED processed /\ uploading' = uploading
      BY <1>4, <2>2 DEF DeleteCommit, DeleteWithOutbox
    <2> QED
      BY <2>1, <2>2, <2>3 DEF RowStep, ObjectStep, UploadingStep
  <1> QED
    BY <1>1, <1>2, <1>3, <1>4 DEF ServiceStep

\* A publisher only marks what it has published.
LEMMA PublishEffect ==
    ASSUME NEW w \in Workers, PublishSome(w)
    PROVE  RowStep /\ ObjectStep /\ UploadingStep /\ processed' = processed
  <1> UploadingStep
    BY DEF PublishSome, serviceVars, UploadingStep
  <1>1. CASE Poll(w)
    BY <1>1 DEF Poll, storageVars, RowStep, ObjectStep
  <1>2. CASE Publish(w)
    BY <1>2 DEF Publish, storageVars, RowStep, ObjectStep
  <1>3. CASE Mark(w)
    BY <1>3 DEF Mark, storageVars, MarkPublished, RowStep, ObjectStep
  <1> QED
    BY <1>1, <1>2, <1>3 DEF PublishSome, PublisherStep

\* A worker's calls, one effect each.
LEMMA WorkEffect ==
    ASSUME NEW w \in Workers, Work(w)
    PROVE  /\ RowStep /\ ObjectStep /\ UploadingStep
           /\ \/ processed' = processed
              \/ wpc[w] = "mark" /\ MarkProcessed(msg[w].event)
  <1> UploadingStep
    BY DEF Work, serviceVars, UploadingStep
  <1> DEFINE P == /\ RowStep /\ ObjectStep
                  /\ \/ processed' = processed
                     \/ wpc[w] = "mark" /\ MarkProcessed(msg[w].event)
  <1>1. ASSUME UNCHANGED storageVars PROVE P
    BY <1>1 DEF storageVars, RowStep, ObjectStep
  <1>2. CASE Take(w) \/ Check(w) \/ NotThere(w) \/ Ack(w) \/ Retry(w) \/ RejectMessage(w)
    BY <1>1, <1>2 DEF Take, Check, NotThere, Ack, Retry, RejectMessage
  <1>3. CASE SetProcessing(w) \/ SetCompleted(w)
    <2>1. ASSUME NEW s \in Statuses, UpdateProcessingStatus(Subject(w), s),
                 wpc[w] \in {"processing", "completed"}
          PROVE  P
      <3>1. UNCHANGED objects /\ UNCHANGED processed
        BY <2>1 DEF UpdateProcessingStatus
      <3> QED
        BY <2>1, <3>1 DEF RowStep, ObjectStep
    <2> QED
      BY <1>1, <1>3, <2>1 DEF SetProcessing, SetCompleted, Call, Statuses
  <1>4. CASE GetOriginal(w)
    BY <1>1, <1>4 DEF GetOriginal, Call
  <1>5. CASE PutThumbnail100(w)
    BY <1>1, <1>5 DEF PutThumbnail100, Call, PutObject, RowStep, ObjectStep
  <1>6. CASE PutThumbnail300(w)
    BY <1>1, <1>6 DEF PutThumbnail300, Call, PutObject, RowStep, ObjectStep
  <1>7. CASE SaveThumbnailKeys(w)
    BY <1>1, <1>7 DEF SaveThumbnailKeys, Call, UpdateThumbnailS3Keys, RowStep, ObjectStep
  <1>8. CASE DeleteKey(w)
    BY <1>1, <1>8 DEF DeleteKey, DeleteObject, RowStep, ObjectStep
  <1>9. CASE MarkDone(w)
    BY <1>1, <1>9 DEF MarkDone, Call, MarkProcessed, RowStep, ObjectStep
  <1> QED
    BY <1>2, <1>3, <1>4, <1>5, <1>6, <1>7, <1>8, <1>9 DEF Work, WorkerStep

\* Nothing else reaches the tables or the bucket.
LEMMA StorageEffect ==
    ASSUME TypeInv, [Next]_vars
    PROVE  /\ RowStep /\ ObjectStep /\ UploadingStep
           /\ \/ processed' = processed
              \/ \E w \in Workers : wpc[w] = "mark" /\ MarkProcessed(msg[w].event)
  <1>1. ASSUME UNCHANGED <<storageVars, serviceVars>>
        PROVE  RowStep /\ ObjectStep /\ UploadingStep /\ processed' = processed
    BY <1>1 DEF storageVars, serviceVars, RowStep, ObjectStep, UploadingStep
  <1>2. ASSUME NEW w \in Workers,
               Disconnect(w) \/ PublishLost(w) \/ Crash(w) \/ Redeploy(w)
        PROVE  UNCHANGED <<storageVars, serviceVars>>
    BY <1>2 DEF Disconnect, PublishLost, Crash, Redeploy, Restart
  <1>3. Expire \/ UNCHANGED vars => UNCHANGED <<storageVars, serviceVars>>
    BY DEF Expire, vars
  <1> QED
    BY <1>1, <1>2, <1>3, ServeEffect, PublishEffect, WorkEffect DEF Next
-----------------------------------------------------------------------------
(***************************************************************************)
(* Where events come from.                                                 *)
(***************************************************************************)
Origin == RowsAndEvents /\ Provenance

\* What the types say about a worker's subject and a publisher's event.
LEMMA InHandFacts ==
    ASSUME TypeInv
    PROVE  \A w \in Workers :
              /\ wpc[w] # "idle" => /\ msg[w].event \in Events
                                   /\ Subject(w) \in Avatars
              /\ ppc[w] = "mark" => publishing[w] \in Events
              /\ batch[w] \subseteq Events
  BY EventKinds DEF TypeInv, TypeOK, InHand, PublisherTypeOK, Messages, Subject

\* No row of the outbox is ever removed.
LEMMA OutboxGrows ==
    ASSUME TypeInv, RowStep
    PROVE  \A e \in Events : outbox[e] # "none" => outbox'[e] # "none"
  <1>1. outbox \in [Events -> {"none", "pending", "published"}]
    BY DEF TypeInv, TypeOK, StorageTypeOK
  <1> QED
    BY <1>1 DEF RowStep, CreateWithOutbox, DeleteWithOutbox, UpdateProcessingStatus,
       UpdateThumbnailS3Keys, MarkPublished

LEMMA RowsAndEventsInit == Init => RowsAndEvents
  BY EventFacts DEF Init, RowsAndEvents, StorageInit, NoRow

\* Rows and events appear together, and stay together.
LEMMA RowsAndEventsStep ==
    ASSUME TypeInv, Origin, [Next]_vars PROVE RowsAndEvents'
  <1>r. RowStep /\ UploadingStep
    BY StorageEffect
  <1>t. /\ row \in [Avatars -> Rows]
        /\ outbox \in [Events -> {"none", "pending", "published"}]
        /\ uploading \in [Avatars -> {"put", "create", "done", "failed"}]
    BY DEF TypeInv, TypeOK, StorageTypeOK, ServiceTypeOK
  <1>u. \A a \in Avatars : uploading'[a] \in {"put", "create"}
                              => uploading[a] \in {"put", "create"}
    BY <1>r DEF UploadingStep
  <1> USE EventFacts, EventKinds DEF RowsAndEvents, Origin, Live
  <1>1. CASE UNCHANGED <<row, outbox, payload>>
    BY <1>1, <1>u
  <1>2. ASSUME NEW a \in Avatars, uploading[a] = "create",
               uploading'[a] \in {"done", "failed"}, CreateWithOutbox(a)
        PROVE  RowsAndEvents'
    <2>1. row'[a].st = "live" /\ outbox'[Upload(a)] = "pending"
      BY <1>2, <1>t DEF CreateWithOutbox, NewRow
    <2>2. \A b \in Avatars : b # a => row'[b].st = row[b].st
      BY <1>2, <1>t DEF CreateWithOutbox, Rows
    <2>3. \A e \in Events : e # Upload(a) => outbox'[e] = outbox[e]
      BY <1>2, <1>t DEF CreateWithOutbox
    <2>4. row[a].st = "none"
      BY <1>2
    <2>5. \A b \in Avatars : b # a => Upload(b) # Upload(a)
      BY DEF Upload
    <2>6. \A b \in Avatars : Delete(b) # Upload(a)
      BY DEF Delete, Upload
    <2> QED
      BY <1>2, <1>u, <2>1, <2>2, <2>3, <2>4, <2>5, <2>6
  <1>3. ASSUME NEW a \in Avatars, NEW keys, DeleteWithOutbox(a, keys)
        PROVE  RowsAndEvents'
    <2>1. row[a].st = "live" /\ row'[a].st = "deleted"
      BY <1>3, <1>t DEF DeleteWithOutbox, Rows
    <2>2. \A b \in Avatars : b # a => row'[b] = row[b]
      BY <1>3, <1>t DEF DeleteWithOutbox
    <2>3. \A e \in Events : e # Delete(a) => outbox'[e] = outbox[e]
      BY <1>3, <1>t DEF DeleteWithOutbox
    <2>5. \A b \in Avatars : b # a => Delete(b) # Delete(a)
      BY DEF Delete
    <2>6. \A b \in Avatars : Upload(b) # Delete(a)
      BY DEF Delete, Upload
    <2> QED
      BY <1>u, <2>1, <2>2, <2>3, <2>5, <2>6
  <1>4. ASSUME NEW a \in Avatars, UNCHANGED outbox,
               \A b \in Avatars : row'[b].st = row[b].st
        PROVE  RowsAndEvents'
    BY <1>4, <1>u
  <1>5. ASSUME NEW w \in Workers, wpc[w] # "idle", NEW s \in Statuses,
               UpdateProcessingStatus(Subject(w), s)
        PROVE  RowsAndEvents'
    BY <1>4, <1>5, <1>t, InHandFacts DEF UpdateProcessingStatus, Rows
  <1>6. ASSUME NEW w \in Workers, wpc[w] # "idle", UpdateThumbnailS3Keys(Subject(w))
        PROVE  RowsAndEvents'
    BY <1>4, <1>6, <1>t, InHandFacts DEF UpdateThumbnailS3Keys, Rows
  <1>7. ASSUME NEW w \in Workers, ppc[w] = "mark", MarkPublished(publishing[w])
        PROVE  RowsAndEvents'
    <2>1. outbox[publishing[w]] # "none" /\ publishing[w] \in Events
      BY <1>7, InHandFacts DEF Provenance
    <2>2. \A e \in Events : outbox'[e] = "none" <=> outbox[e] = "none"
      BY <1>7, <1>t, <2>1 DEF MarkPublished
    <2> QED
      BY <1>7, <1>u, <2>2 DEF MarkPublished
  <1> QED
    BY <1>r, <1>1, <1>2, <1>3, <1>5, <1>6, <1>7 DEF RowStep, Reads

LEMMA ProvenanceInit == Init => Provenance
  BY DEF Init, Provenance, StorageInit, BrokerInit, PublisherInit, WorkerInit

\* The events in a publisher's hands were pending when it polled.
LEMMA PublisherProvenance ==
    ASSUME TypeInv, Origin, [Next]_vars
    PROVE  \A w \in Workers :
              /\ \A e \in batch'[w] : outbox'[e] # "none"
              /\ ppc'[w] = "mark" => outbox'[publishing'[w]] # "none"
  <1> DEFINE P(w) == /\ \A e \in batch'[w] : outbox'[e] # "none"
                     /\ ppc'[w] = "mark" => outbox'[publishing'[w]] # "none"
  <1>g. \A e \in Events : outbox[e] # "none" => outbox'[e] # "none"
    BY StorageEffect, OutboxGrows
  <1>t. /\ ppc \in [Workers -> {"poll", "publish", "mark"}]
        /\ batch \in [Workers -> SUBSET Events]
        /\ publishing \in [Workers -> Events \cup {None}]
    BY DEF TypeInv, TypeOK, PublisherTypeOK
  <1>1. ASSUME NEW w \in Workers,
               ppc'[w] = ppc[w] /\ batch'[w] = batch[w] /\ publishing'[w] = publishing[w]
        PROVE  P(w)
    BY <1>1, <1>g, InHandFacts DEF Origin, Provenance
  <1>2. ASSUME NEW w \in Workers, GiveUp(w) PROVE \A v \in Workers : P(v)
    BY <1>1, <1>2, <1>t DEF GiveUp, Publisher
  <1>3. ASSUME UNCHANGED <<ppc, batch, publishing>> PROVE \A v \in Workers : P(v)
    BY <1>1, <1>3
  <1>4. ASSUME NEW w \in Workers, NEW pc, NEW events \in SUBSET batch[w],
               NEW e, Publisher(w, pc, events, e), pc = "mark" => e \in batch[w]
        PROVE  \A v \in Workers : P(v)
    <2>1. \A v \in Workers : v # w => P(v)
      BY <1>1, <1>4, <1>t DEF Publisher
    <2>2. ppc'[w] = pc /\ batch'[w] = events /\ publishing'[w] = e
      BY <1>4, <1>t DEF Publisher
    <2>3. \A d \in batch[w] : outbox'[d] # "none"
      BY <1>g, InHandFacts DEF Origin, Provenance
    <2> QED
      BY <1>4, <2>1, <2>2, <2>3
  <1>5. ASSUME NEW w \in Workers, Poll(w) PROVE \A v \in Workers : P(v)
    <2>1. PICK events \in GetPending(BatchSize) : Publisher(w, "publish", events, None)
      BY <1>5 DEF Poll
    <2>2. \A e \in events : e \in Events /\ outbox[e] # "none"
      BY <2>1 DEF GetPending, Pending
    <2>3. ppc'[w] = "publish" /\ batch'[w] = events
      BY <2>1, <1>t DEF Publisher
    <2>4. \A v \in Workers : v # w => P(v)
      BY <1>1, <2>1, <1>t DEF Publisher
    <2> QED
      BY <1>g, <2>2, <2>3, <2>4
  <1>6. ASSUME NEW w \in Workers, Publish(w) PROVE \A v \in Workers : P(v)
    BY <1>2, <1>4, <1>6 DEF Publish
  <1>7. ASSUME NEW w \in Workers, Mark(w) PROVE \A v \in Workers : P(v)
    <2>1. ASSUME Publisher(w, IF batch[w] \ {publishing[w]} = {} THEN "poll" ELSE "publish",
                           batch[w] \ {publishing[w]}, None)
          PROVE  \A v \in Workers : P(v)
      BY <1>4, <2>1
    <2> QED
      BY <1>2, <1>7, <2>1 DEF Mark
  <1>8. ASSUME NEW w \in Workers, PublishLost(w) PROVE \A v \in Workers : P(v)
    <2>1. PICK e \in batch[w] : /\ ppc' = [ppc EXCEPT ![w] = "mark"]
                               /\ publishing' = [publishing EXCEPT ![w] = e]
      BY <1>8 DEF PublishLost
    <2>2. Publisher(w, "mark", batch[w], e)
      BY <1>8, <2>1, <1>t DEF PublishLost, Publisher
    <2> QED
      BY <1>4, <2>2
  <1>9. ASSUME NEW w \in Workers, Disconnect(w) \/ Work(w) PROVE \A v \in Workers : P(v)
    BY <1>3, <1>9 DEF Disconnect, Work, publisherVars
  <1>10. ASSUME NEW w \in Workers, Crash(w) \/ Redeploy(w) PROVE \A v \in Workers : P(v)
    BY <1>2, <1>10 DEF Crash, Redeploy, Restart
  <1>11. CASE Serve \/ Expire \/ UNCHANGED vars
    BY <1>3, <1>11 DEF Serve, Expire, vars, publisherVars
  <1> QED
    BY <1>5, <1>6, <1>7, <1>8, <1>9, <1>10, <1>11 DEF Next, PublishSome, PublisherStep

\* The effect of a step on the queues.
QueueStep ==
    \/ UNCHANGED queues
    \/ \E w \in Workers : \E e \in batch[w] : PublishJSON(e)
    \/ \E w \in Workers : wpc[w] # "idle" /\ Requeue(msg[w])
    \/ \E w \in Workers : /\ wpc[w] = "retry" /\ HasRetryQueue(msg[w].attempt + 1)
                          /\ PublishRetry(msg[w])
    \/ \E w \in Workers : wpc[w] = "reject" /\ conn[w] /\ Reject(msg[w])
    \/ \E m \in Messages : Deliver(m) \/ RetryExpires(m)

\* What a step leaves a worker holding: the same message, none, or one that
\* was ready.
HandStep ==
    \A w \in Workers :
        \/ wpc'[w] = "idle"
        \/ wpc[w] # "idle" /\ msg'[w] = msg[w]
        \/ \E m \in Messages : ready[m] > 0 /\ msg'[w] = m

LEMMA QueueEffect ==
    ASSUME TypeInv, [Next]_vars PROVE QueueStep /\ HandStep
  <1>t. wpc \in [Workers -> Calls] /\ msg \in [Workers -> Messages \cup {None}]
    BY DEF TypeInv, TypeOK, WorkerTypeOK
  <1>h. UNCHANGED <<wpc, msg>> => HandStep
    BY DEF HandStep
  <1>d. ASSUME NEW w \in Workers, Done(w) PROVE HandStep
    BY <1>t, <1>d DEF Done, HandStep
  <1>g. ASSUME NEW w \in Workers, NEW next, Goes(w, next), wpc[w] # "idle" PROVE HandStep
    BY <1>t, <1>g DEF Goes, HandStep
  <1>k. ASSUME NEW w \in Workers, TakenBack(w) PROVE QueueStep
    BY <1>k DEF TakenBack, QueueStep
  <1>1. CASE Serve \/ UNCHANGED vars
    BY <1>1, <1>h DEF Serve, vars, brokerVars, workerVars, queues, QueueStep
  <1>2. CASE Expire
    BY <1>2, <1>h DEF Expire, workerVars, QueueStep
  <1>3. ASSUME NEW w \in Workers, PublishSome(w) PROVE QueueStep /\ HandStep
    <2>1. HandStep
      BY <1>3, <1>h DEF PublishSome, workerVars
    <2>2. QueueStep
      BY <1>3 DEF PublishSome, PublisherStep, Poll, Publish, Mark, brokerVars, queues,
                  QueueStep
    <2> QED
      BY <2>1, <2>2
  <1>4. ASSUME NEW w \in Workers, Disconnect(w) \/ PublishLost(w) PROVE QueueStep /\ HandStep
    BY <1>4, <1>h, <1>k DEF Disconnect, PublishLost, workerVars
  <1>5. ASSUME NEW w \in Workers, Crash(w) PROVE QueueStep /\ HandStep
    BY <1>5, <1>d, <1>k DEF Crash, Restart
  <1>6. ASSUME NEW w \in Workers, Redeploy(w) PROVE QueueStep /\ HandStep
    BY <1>6, <1>d DEF Redeploy, Restart, QueueStep
  <1>7. ASSUME NEW w \in Workers, Work(w) PROVE QueueStep /\ HandStep
    <2> USE DEF brokerVars, queues
    <2>1. CASE Take(w)
      <3>1. PICK m \in Messages : Deliver(m) /\ msg' = [msg EXCEPT ![w] = m]
        BY <2>1 DEF Take
      <3>2. HandStep
        BY <2>1, <3>1, <1>t DEF Take, Deliver, HandStep
      <3> QED
        BY <3>1, <3>2 DEF QueueStep
    <2>2. CASE Check(w)
      <3>1. wpc[w] # "idle" /\ msg' = msg /\ QueueStep
        BY <2>2 DEF Check, Goes, QueueStep
      <3>2. \A v \in Workers : v # w => wpc'[v] = wpc[v]
        BY <2>2, <1>t DEF Check, Goes
      <3> QED
        BY <3>1, <3>2 DEF HandStep
    <2>3. ASSUME NEW pc, NEW next, pc # "idle",
                 wpc[w] = pc, Goes(w, next) \/ Goes(w, "retry"), UNCHANGED brokerVars
          PROVE  QueueStep /\ HandStep
      BY <2>3, <1>g DEF QueueStep
    <2>4. CASE NotThere(w) \/ SetProcessing(w) \/ GetOriginal(w) \/ PutThumbnail100(w)
      BY <2>3, <2>4 DEF NotThere, SetProcessing, GetOriginal, PutThumbnail100, Call
    <2>5. CASE PutThumbnail300(w) \/ SaveThumbnailKeys(w) \/ SetCompleted(w) \/ MarkDone(w)
      BY <2>3, <2>5 DEF PutThumbnail300, SaveThumbnailKeys, SetCompleted, MarkDone, Call
    <2>6. CASE DeleteKey(w)
      <3>1. wpc[w] # "idle" /\ msg' = msg /\ QueueStep
        BY <2>6 DEF DeleteKey, Goes, QueueStep
      <3>2. \A v \in Workers : v # w => wpc'[v] = wpc[v]
        BY <2>6, <1>t DEF DeleteKey, Goes
      <3> QED
        BY <3>1, <3>2 DEF HandStep
    <2>7. CASE Ack(w)
      BY <2>7, <1>d DEF Ack, QueueStep
    <2>8. CASE Retry(w)
      <3>1. wpc[w] # "idle" /\ HandStep
        BY <2>8, <1>g DEF Retry
      <3> QED
        BY <2>8, <3>1 DEF Retry, QueueStep
    <2>9. CASE RejectMessage(w)
      BY <2>9, <1>d DEF RejectMessage, QueueStep
    <2> QED
      BY <1>7, <2>1, <2>2, <2>4, <2>5, <2>6, <2>7, <2>8, <2>9 DEF Work, WorkerStep
  <1> QED
    BY <1>1, <1>2, <1>3, <1>4, <1>5, <1>6, <1>7 DEF Next

\* Every copy of an event stems from the outbox.
LEMMA ProvenanceStep ==
    ASSUME TypeInv, TypeInv', Origin, [Next]_vars PROVE Provenance'
  <1>g. \A e \in Events : outbox[e] # "none" => outbox'[e] # "none"
    BY StorageEffect, OutboxGrows
  <1>q. QueueStep /\ HandStep
    BY QueueEffect
  <1>m. \A m \in Messages : m.event \in Events
    BY DEF Messages
  <1>t. /\ ready \in [Messages -> Nat] /\ retry \in [Messages -> Nat] /\ dlq \in [Messages -> Nat]
        /\ processed \subseteq Events
    BY DEF TypeInv, TypeOK, BrokerTypeOK, StorageTypeOK
  <1>w. \A w \in Workers : wpc[w] # "idle" => msg[w] \in Messages
    BY DEF TypeInv, InHand
  <1> USE DEF Origin, Provenance
  <1> DEFINE There(m) == ready[m] > 0 \/ retry[m] > 0 \/ dlq[m] > 0
  <1>1. ASSUME NEW m \in Messages, There(m)' PROVE outbox'[m.event] # "none"
    <2>1. There(m) => outbox'[m.event] # "none"
      BY <1>g, <1>m
    <2>2. ASSUME NEW n \in Messages, outbox[n.event] # "none",
                 \A k \in Messages : k # n => (There(k)' => There(k))
          PROVE  outbox'[m.event] # "none"
      BY <1>1, <1>g, <1>m, <2>1, <2>2
    <2>3. CASE UNCHANGED queues
      BY <1>1, <2>1, <2>3 DEF queues
    <2>4. ASSUME NEW w \in Workers, NEW e \in batch[w], PublishJSON(e)
          PROVE  outbox'[m.event] # "none"
      <3> DEFINE n == [event |-> e, attempt |-> 0]
      <3>1. n \in Messages /\ n.event = e
        BY InHandFacts DEF Messages, Attempts
      <3>2. \A k \in Messages : k # n => (There(k)' => There(k))
        BY <2>4, <3>1, <1>t DEF PublishJSON, Plus
      <3> HIDE DEF n
      <3> QED
        BY <2>2, <3>1, <3>2
    <2>5. ASSUME NEW w \in Workers, wpc[w] # "idle", Requeue(msg[w]) \/ Reject(msg[w])
          PROVE  outbox'[m.event] # "none"
      <3>1. \A k \in Messages : k # msg[w] => (There(k)' => There(k))
        BY <2>5, <1>w, <1>t DEF Requeue, Reject, Plus
      <3> QED
        BY <2>2, <2>5, <3>1, <1>w
    <2>6. ASSUME NEW w \in Workers, wpc[w] # "idle", HasRetryQueue(msg[w].attempt + 1),
                 PublishRetry(msg[w])
          PROVE  outbox'[m.event] # "none"
      <3> DEFINE n == [msg[w] EXCEPT !.attempt = @ + 1]
      <3>1. n \in Messages /\ n.event = msg[w].event
        BY <1>w, <2>6 DEF Messages, Attempts, HasRetryQueue
      <3>2. \A k \in Messages : k # n => (There(k)' => There(k))
        BY <2>6, <3>1, <1>t DEF PublishRetry, Plus
      <3> HIDE DEF n
      <3> QED
        BY <2>2, <2>6, <3>1, <3>2
    <2>7. ASSUME NEW n \in Messages, Deliver(n) \/ RetryExpires(n)
          PROVE  outbox'[m.event] # "none"
      <3>1. \A k \in Messages : There(k)' => There(k)
        BY <2>7, <1>t DEF Deliver, RetryExpires, Plus, Minus
      <3> QED
        BY <1>1, <2>1, <3>1
    <2> QED
      BY <1>q, <2>3, <2>4, <2>5, <2>6, <2>7 DEF QueueStep
  <1>2. ASSUME NEW w \in Workers, wpc'[w] # "idle" PROVE outbox'[msg'[w].event] # "none"
    BY <1>q, <1>2, <1>g, <1>m, <1>w DEF HandStep
  <1>3. ASSUME NEW e \in processed' PROVE outbox'[e] # "none"
    BY <1>3, <1>g, <1>t, StorageEffect, InHandFacts DEF MarkProcessed
  <1> QED
    BY <1>1, <1>2, <1>3, PublisherProvenance

\* No copy of an event is ever without its row in the outbox, and no event
\* without its avatar's row.
LEMMA OriginCorrect == Spec => [](TypeInv /\ Origin)
  <1>1. Init => TypeInv /\ Origin
    BY TypeInit, RowsAndEventsInit, ProvenanceInit DEF Origin
  <1>2. TypeInv /\ Origin /\ [Next]_vars => TypeInv' /\ Origin'
    BY TypeStep, RowsAndEventsStep, ProvenanceStep DEF Origin
  <1> QED
    BY <1>1, <1>2, PTL DEF Spec
-----------------------------------------------------------------------------
(***************************************************************************)
(* How a worker gets to the calls whose preconditions matter.              *)
(***************************************************************************)
Same(w) == wpc'[w] = wpc[w] /\ msg'[w] = msg[w] /\ todo'[w] = todo[w]

\* It removed a key from the bucket, the original before all others.
RemovedKey(w) ==
    /\ wpc[w] = "delete" /\ msg'[w] = msg[w]
    /\ \E key \in todo[w] : /\ "original" \in todo[w] => key = "original"
                            /\ DeleteObject(Subject(w), key)
                            /\ todo'[w] = todo[w] \ {key}
                            /\ wpc'[w] = "mark" => todo[w] = {key}

CallStep ==
    \A w \in Workers :
        /\ wpc'[w] = "put300" =>
              \/ Same(w)
              \/ msg'[w] = msg[w] /\ wpc[w] = "put100" /\ PutObject(Subject(w), "100x100")
        /\ wpc'[w] = "save" =>
              \/ Same(w)
              \/ msg'[w] = msg[w] /\ wpc[w] = "put300" /\ PutObject(Subject(w), "300x300")
        /\ wpc'[w] = "delete" =>
              \/ Same(w)
              \/ /\ msg'[w] = msg[w] /\ wpc[w] = "check" /\ msg[w].event.kind = "delete"
                 /\ todo'[w] = payload[Subject(w)] /\ UNCHANGED storageVars
              \/ RemovedKey(w)
        /\ wpc'[w] = "mark" =>
              \/ Same(w)
              \/ RemovedKey(w)
              \/ msg'[w] = msg[w] /\ wpc[w] = "completed"

LEMMA CallEffect ==
    ASSUME TypeInv, [Next]_vars PROVE CallStep
  <1>t. /\ wpc \in [Workers -> Calls] /\ msg \in [Workers -> Messages \cup {None}]
        /\ todo \in [Workers -> SUBSET ObjectKeys]
    BY DEF TypeInv, TypeOK, WorkerTypeOK
  <1>u. UNCHANGED workerVars => CallStep
    BY DEF CallStep, Same, workerVars
  <1>d. ASSUME NEW w \in Workers, Done(w) PROVE CallStep
    BY <1>t, <1>d DEF Done, CallStep, Same
  <1>1. CASE Serve \/ Expire \/ UNCHANGED vars
    BY <1>1, <1>u DEF Serve, Expire, vars
  <1>2. ASSUME NEW w \in Workers, PublishSome(w) \/ Disconnect(w) \/ PublishLost(w)
        PROVE  CallStep
    BY <1>2, <1>u DEF PublishSome, Disconnect, PublishLost
  <1>3. ASSUME NEW w \in Workers, Crash(w) \/ Redeploy(w) PROVE CallStep
    BY <1>3, <1>d DEF Crash, Redeploy, Restart
  <1>4. ASSUME NEW w \in Workers, Work(w) PROVE CallStep
    <2>o. ASSUME NEW v \in Workers, v # w PROVE Same(v)
      <3>1. CASE Take(w) \/ Check(w) \/ NotThere(w) \/ Ack(w) \/ Retry(w) \/ RejectMessage(w)
        BY <2>o, <3>1, <1>t DEF Take, Check, NotThere, Ack, Retry, RejectMessage, Goes,
                                Done, Same
      <3>2. CASE SetProcessing(w) \/ GetOriginal(w) \/ PutThumbnail100(w) \/ PutThumbnail300(w)
        BY <2>o, <3>2, <1>t DEF SetProcessing, GetOriginal, PutThumbnail100,
                                PutThumbnail300, Call, Goes, Same
      <3>3. CASE SaveThumbnailKeys(w) \/ SetCompleted(w) \/ DeleteKey(w) \/ MarkDone(w)
        BY <2>o, <3>3, <1>t DEF SaveThumbnailKeys, SetCompleted, DeleteKey, MarkDone, Call,
                                Goes, Same
      <3> QED
        BY <1>4, <3>1, <3>2, <3>3 DEF Work, WorkerStep
    <2>g. ASSUME NEW next, Goes(w, next) PROVE wpc'[w] = next /\ msg'[w] = msg[w]
      BY <2>g, <1>t DEF Goes
    <2> SUFFICES ASSUME wpc'[w] \in {"put300", "save", "delete", "mark"}
                 PROVE  \/ Same(w)
                        \/ /\ wpc'[w] = "put300" /\ msg'[w] = msg[w]
                           /\ wpc[w] = "put100" /\ PutObject(Subject(w), "100x100")
                        \/ /\ wpc'[w] = "save" /\ msg'[w] = msg[w]
                           /\ wpc[w] = "put300" /\ PutObject(Subject(w), "300x300")
                        \/ /\ wpc'[w] = "delete" /\ msg'[w] = msg[w]
                           /\ wpc[w] = "check" /\ msg[w].event.kind = "delete"
                           /\ todo'[w] = payload[Subject(w)] /\ UNCHANGED storageVars
                        \/ wpc'[w] \in {"delete", "mark"} /\ RemovedKey(w)
                        \/ wpc'[w] = "mark" /\ msg'[w] = msg[w] /\ wpc[w] = "completed"
      BY <2>o DEF CallStep
    <2>1. CASE Take(w)
      BY <2>1, <1>t DEF Take
    <2>2. CASE Check(w)
      BY <2>2, <1>t DEF Check, Goes, Subject
    <2>3. CASE NotThere(w) \/ SetProcessing(w) \/ GetOriginal(w)
      BY <2>3, <2>g DEF NotThere, SetProcessing, GetOriginal, Call
    <2>4. CASE PutThumbnail100(w) \/ PutThumbnail300(w)
      BY <2>4, <2>g DEF PutThumbnail100, PutThumbnail300, Call
    <2>5. CASE SaveThumbnailKeys(w) \/ SetCompleted(w) \/ MarkDone(w)
      BY <2>5, <2>g DEF SaveThumbnailKeys, SetCompleted, MarkDone, Call
    <2>6. CASE DeleteKey(w)
      <3>1. PICK key \in todo[w] :
               /\ "original" \in todo[w] => key = "original"
               /\ DeleteObject(Subject(w), key)
               /\ todo' = [todo EXCEPT ![w] = @ \ {key}]
               /\ wpc' = [wpc EXCEPT ![w] = IF todo[w] = {key} THEN "mark" ELSE "delete"]
               /\ UNCHANGED msg
        BY <2>6, <2>g DEF DeleteKey
      <3>2. todo'[w] = todo[w] \ {key} /\ wpc'[w] \in {"delete", "mark"}
            /\ (wpc'[w] = "mark" => todo[w] = {key})
        BY <3>1, <1>t
      <3> QED
        BY <2>6, <3>1, <3>2 DEF DeleteKey, RemovedKey
    <2>7. CASE Ack(w) \/ RejectMessage(w)
      BY <2>7, <1>t DEF Ack, RejectMessage, Done
    <2>8. CASE Retry(w)
      BY <2>8, <2>g DEF Retry
    <2> QED
      BY <1>4, <2>1, <2>2, <2>3, <2>4, <2>5, <2>6, <2>7, <2>8 DEF Work, WorkerStep
  <1> QED
    BY <1>1, <1>2, <1>3, <1>4 DEF Next
-----------------------------------------------------------------------------
(***************************************************************************)
(* The bucket behind the rows.                                             *)
(***************************************************************************)

\* A worker that removes objects works for an avatar already deleted.
LEMMA RemovesForDeleted ==
    ASSUME TypeInv, Origin
    PROVE  \A w \in Workers : wpc[w] = "delete" => row[Subject(w)].st = "deleted"
  BY InHandFacts, EventKinds
     DEF Origin, RowsAndEvents, Provenance, TypeInv, InHand, Subject

\* Objects of an avatar that is not deleted never disappear.
LEMMA ObjectsStay ==
    ASSUME TypeInv, Origin, [Next]_vars
    PROVE  \A a \in Avatars : row[a].st # "deleted" => objects[a] \subseteq objects'[a]
  <1>1. ObjectStep
    BY StorageEffect
  <1>2. objects \in [Avatars -> SUBSET ObjectKeys]
    BY DEF TypeInv, TypeOK, StorageTypeOK
  <1> QED
    BY <1>1, <1>2, RemovesForDeleted, InHandFacts DEF ObjectStep, PutObject, DeleteObject

\* Rows become live only through an upload's transaction.
LEMMA BecomesLive ==
    ASSUME TypeInv, Origin, [Next]_vars
    PROVE  \A a \in Avatars : Live(a)' =>
              \/ Live(a) /\ row'[a].thumbs = row[a].thumbs
              \/ /\ Live(a) /\ row'[a].thumbs = Thumbnails
                 /\ \E w \in Workers : wpc[w] = "save" /\ Subject(w) = a
              \/ row[a].st = "none" /\ uploading[a] = "create" /\ row'[a].thumbs = {}
  <1>1. RowStep
    BY StorageEffect
  <1>2. row \in [Avatars -> Rows]
    BY DEF TypeInv, TypeOK, StorageTypeOK
  <1>3. \A a \in Avatars : uploading[a] = "create" => row[a].st = "none"
    BY DEF Origin, RowsAndEvents
  <1> USE DEF Live
  <1>4. ASSUME NEW b \in Avatars, uploading[b] = "create", CreateWithOutbox(b),
               NEW a \in Avatars, Live(a)'
        PROVE  \/ Live(a) /\ row'[a].thumbs = row[a].thumbs
               \/ row[a].st = "none" /\ uploading[a] = "create" /\ row'[a].thumbs = {}
    BY <1>2, <1>3, <1>4 DEF CreateWithOutbox, NewRow, Rows
  <1>5. ASSUME NEW b \in Avatars, NEW keys, DeleteWithOutbox(b, keys),
               NEW a \in Avatars, Live(a)'
        PROVE  Live(a) /\ row'[a].thumbs = row[a].thumbs
    BY <1>2, <1>5 DEF DeleteWithOutbox, Rows
  <1>6. ASSUME NEW w \in Workers, wpc[w] # "idle", NEW s \in Statuses,
               UpdateProcessingStatus(Subject(w), s), NEW a \in Avatars, Live(a)'
        PROVE  Live(a) /\ row'[a].thumbs = row[a].thumbs
    BY <1>2, <1>6 DEF UpdateProcessingStatus, Rows
  <1>7. ASSUME NEW w \in Workers, wpc[w] = "save", UpdateThumbnailS3Keys(Subject(w)),
               NEW a \in Avatars, Live(a)'
        PROVE  \/ Live(a) /\ row'[a].thumbs = row[a].thumbs
               \/ Live(a) /\ row'[a].thumbs = Thumbnails /\ Subject(w) = a
    BY <1>2, <1>7 DEF UpdateThumbnailS3Keys, Rows
  <1>8. ASSUME UNCHANGED row, NEW a \in Avatars, Live(a)'
        PROVE  Live(a) /\ row'[a].thumbs = row[a].thumbs
    BY <1>8
  <1> QED
    BY <1>1, <1>4, <1>5, <1>6, <1>7, <1>8 DEF RowStep, MarkPublished, Reads

\* No row goes back to an earlier stage of its life.
LEMMA RowsAge ==
    ASSUME TypeInv, Origin, [Next]_vars
    PROVE  \A a \in Avatars : /\ row[a].st # "none" => row'[a].st # "none"
                              /\ row[a].st = "deleted" => row'[a].st = "deleted"
  <1>1. RowStep
    BY StorageEffect
  <1>2. /\ row \in [Avatars -> Rows]
        /\ \A a \in Avatars : uploading[a] = "create" => row[a].st = "none"
    BY DEF Origin, TypeInv, TypeOK, StorageTypeOK, RowsAndEvents
  <1>3. ASSUME NEW b \in Avatars, uploading[b] = "create", CreateWithOutbox(b)
        PROVE  \A a \in Avatars : row[a].st = row'[a].st \/ (a = b /\ row'[a].st = "live")
    BY <1>2, <1>3 DEF CreateWithOutbox, NewRow, Rows
  <1>4. ASSUME NEW b, NEW keys, DeleteWithOutbox(b, keys)
        PROVE  \A a \in Avatars : row[a].st = row'[a].st \/ row'[a].st = "deleted"
    BY <1>2, <1>4 DEF DeleteWithOutbox, Rows
  <1>5. ASSUME NEW b, NEW s, UpdateProcessingStatus(b, s)
        PROVE  \A a \in Avatars : row[a].st = row'[a].st
    BY <1>2, <1>5 DEF UpdateProcessingStatus, Rows
  <1>6. ASSUME NEW b, UpdateThumbnailS3Keys(b)
        PROVE  \A a \in Avatars : row[a].st = row'[a].st
    BY <1>2, <1>6 DEF UpdateThumbnailS3Keys, Rows
  <1> QED
    BY <1>1, <1>2, <1>3, <1>4, <1>5, <1>6 DEF RowStep, MarkPublished

\* Whatever a row promises was put into the bucket before.
LEMMA BucketStep ==
    ASSUME TypeInv, TypeInv', Origin, BucketBehindRows, [Next]_vars
    PROVE  BucketBehindRows'
  <1>t. objects \in [Avatars -> SUBSET ObjectKeys] /\ row \in [Avatars -> Rows]
    BY DEF TypeInv, TypeOK, StorageTypeOK
  <1>o. \A a \in Avatars : Live(a) => objects[a] \subseteq objects'[a]
    BY ObjectsStay DEF Live
  <1>b. \A a \in Avatars : row[a].st = "none" => objects[a] \subseteq objects'[a]
    BY ObjectsStay
  <1>c. \A a \in Avatars : uploading[a] \in {"put", "create"} => row[a].st = "none"
    BY DEF Origin, RowsAndEvents
  <1>1. \A a \in Avatars : uploading'[a] = "create" => "original" \in objects'[a]
    BY StorageEffect, <1>b, <1>c, <1>t DEF UploadingStep, PutObject, BucketBehindRows
  <1>2. LiveHasOriginal'
    BY BecomesLive, <1>b, <1>o DEF LiveHasOriginal, BucketBehindRows
  <1>3. SavedThumbnailsExist'
    <2>1. \A w \in Workers : wpc[w] = "save" /\ Live(Subject(w))
                               => Thumbnails \subseteq objects[Subject(w)]
      BY DEF BucketBehindRows, Thumbnails
    <2> QED
      BY BecomesLive, <1>o, <2>1 DEF SavedThumbnailsExist, BucketBehindRows
  <1>4. ASSUME NEW w \in Workers, wpc'[w] \in {"put300", "save"}, Live(Subject(w))'
        PROVE  /\ "100x100" \in objects'[Subject(w)']
               /\ wpc'[w] = "save" => "300x300" \in objects'[Subject(w)']
    <2>1. CallStep
      BY CallEffect
    <2>2. Subject(w)' = Subject(w) /\ wpc[w] \in UploadCalls
      BY <1>4, <2>1 DEF CallStep, Same, Subject, UploadCalls
    <2>3. Subject(w) \in Avatars
      BY <2>2, InHandFacts DEF UploadCalls
    <2>4. outbox[Upload(Subject(w))] # "none"
      BY <2>2, <2>3, InHandFacts, EventKinds
         DEF Origin, Provenance, TypeInv, InHand, UploadCalls, Subject
    <2>5. Live(Subject(w))
      <3>1. row[Subject(w)].st # "none"
        BY <2>3, <2>4 DEF Origin, RowsAndEvents
      <3> QED
        BY <1>4, <2>2, <2>3, <3>1, BecomesLive DEF Live
    <2>6. objects[Subject(w)] \subseteq objects'[Subject(w)]
      BY <1>o, <2>3, <2>5
    <2>7. CASE Same(w)
      BY <1>4, <2>2, <2>5, <2>6, <2>7 DEF BucketBehindRows, Same
    <2>8. CASE wpc'[w] = "put300" /\ PutObject(Subject(w), "100x100")
      BY <2>2, <2>3, <2>8, <1>t DEF PutObject
    <2>9. CASE wpc'[w] = "save" /\ wpc[w] = "put300" /\ PutObject(Subject(w), "300x300")
      BY <2>2, <2>3, <2>5, <2>6, <2>9, <1>t DEF PutObject, BucketBehindRows
    <2> QED
      BY <1>4, <2>1, <2>7, <2>8, <2>9 DEF CallStep
  <1> QED
    BY <1>1, <1>2, <1>3, <1>4 DEF BucketBehindRows, Subject
-----------------------------------------------------------------------------
(***************************************************************************)
(* The order of an avatar's two events.                                    *)
(***************************************************************************)

\* How an event gets marked or changes in the outbox.
LEMMA OutboxStep ==
    ASSUME TypeInv, Origin, [Next]_vars
    PROVE  /\ \A e \in Events : outbox'[e] = "published" =>
                 \/ outbox[e] = "published"
                 \/ \E w \in Workers : ppc[w] = "mark" /\ publishing[w] = e
           /\ \A e \in Events : outbox[e] = "published" => outbox'[e] = "published"
           /\ \A a \in Avatars : outbox'[Upload(a)] = "pending" =>
                 outbox[Upload(a)] = "pending" \/ outbox[Delete(a)] = "none"
  <1>1. RowStep
    BY StorageEffect
  <1>t. outbox \in [Events -> {"none", "pending", "published"}]
    BY DEF TypeInv, TypeOK, StorageTypeOK
  <1> USE EventFacts
  <1>2. ASSUME NEW a \in Avatars, uploading[a] = "create", CreateWithOutbox(a)
        PROVE  /\ \A e \in Events : outbox'[e] = "published" <=> outbox[e] = "published"
               /\ \A b \in Avatars : outbox'[Upload(b)] = "pending" =>
                     outbox[Upload(b)] = "pending" \/ outbox[Delete(b)] = "none"
    <2>1. outbox[Upload(a)] = "none" /\ outbox[Delete(a)] = "none"
      BY <1>2 DEF Origin, RowsAndEvents
    <2>2. outbox' = [outbox EXCEPT ![Upload(a)] = "pending"]
      BY <1>2 DEF CreateWithOutbox
    <2>3. \A b \in Avatars : b # a => Upload(b) # Upload(a)
      BY DEF Upload
    <2> QED
      BY <1>t, <2>1, <2>2, <2>3
  <1>3. ASSUME NEW a \in Avatars, NEW keys, DeleteWithOutbox(a, keys)
        PROVE  /\ \A e \in Events : outbox'[e] = "published" <=> outbox[e] = "published"
               /\ \A b \in Avatars : outbox'[Upload(b)] = outbox[Upload(b)]
    <2>1. outbox[Delete(a)] = "none"
      BY <1>3 DEF DeleteWithOutbox, Live, Origin, RowsAndEvents
    <2>2. outbox' = [outbox EXCEPT ![Delete(a)] = "pending"]
      BY <1>3 DEF DeleteWithOutbox
    <2>3. \A b \in Avatars : Upload(b) # Delete(a)
      BY DEF Upload, Delete
    <2> QED
      BY <1>t, <2>1, <2>2, <2>3
  <1>4. ASSUME NEW w \in Workers, ppc[w] = "mark", MarkPublished(publishing[w])
        PROVE  \A e \in Events :
                  outbox'[e] = IF e = publishing[w] THEN "published" ELSE outbox[e]
    BY <1>4, <1>t DEF MarkPublished
  <1>5. ASSUME UNCHANGED outbox
        PROVE  /\ \A e \in Events : outbox'[e] = "published" <=> outbox[e] = "published"
               /\ \A b \in Avatars : outbox'[Upload(b)] = outbox[Upload(b)]
    BY <1>5
  <1>6. CASE \E w \in Workers : ppc[w] = "mark" /\ MarkPublished(publishing[w])
    BY <1>4, <1>6
  <1>7. CASE \E a \in Avatars : uploading[a] = "create" /\ CreateWithOutbox(a)
    BY <1>2, <1>7
  <1>8. CASE \E d \in Deleters : /\ deleting[d] \in Reads
                                /\ DeleteWithOutbox(deleting[d].avatar, deleting[d].keys)
    BY <1>3, <1>8 DEF Reads
  <1>9. CASE UNCHANGED outbox
    BY <1>5, <1>9
  <1> QED
    BY <1>1, <1>6, <1>7, <1>8, <1>9
       DEF RowStep, UpdateProcessingStatus, UpdateThumbnailS3Keys

\* Batches keep to the order of creation, through failures and with several
\* publishers at work on the same outbox.
LEMMA BatchesStep ==
    ASSUME TypeInv, TypeInv', Origin, Origin', BatchesInOrder, [Next]_vars
    PROVE  BatchesInOrder'
  <1>t. /\ ppc \in [Workers -> {"poll", "publish", "mark"}]
        /\ batch \in [Workers -> SUBSET Events]
        /\ publishing \in [Workers -> Events \cup {None}]
        /\ outbox \in [Events -> {"none", "pending", "published"}]
        /\ outbox' \in [Events -> {"none", "pending", "published"}]
    BY DEF TypeInv, TypeOK, PublisherTypeOK, StorageTypeOK
  <1> USE EventFacts DEF BatchesInOrder
  <1>1. DeleteFollowsUpload'
    BY OutboxStep DEF DeleteFollowsUpload
  <1> DEFINE P(w) == \A a \in Avatars :
                 /\ Delete(a) \in batch'[w] /\ outbox'[Upload(a)] = "pending"
                       => Upload(a) \in batch'[w]
                 /\ ppc'[w] = "mark" /\ publishing'[w] = Delete(a)
                       => outbox'[Upload(a)] = "published"
             Kept(w) == \A a \in Avatars :
                 Delete(a) \in batch[w] /\ outbox'[Upload(a)] = "pending"
                    => Upload(a) \in batch[w]
  <1>k. \A w \in Workers : Kept(w)
    BY OutboxStep DEF Origin, Provenance
  <1>2. ASSUME NEW w \in Workers,
               ppc'[w] = ppc[w] /\ batch'[w] = batch[w] /\ publishing'[w] = publishing[w]
        PROVE  P(w)
    BY <1>2, <1>k, OutboxStep
  <1>o. ASSUME NEW w \in Workers, NEW pc, NEW events, NEW e, Publisher(w, pc, events, e)
        PROVE  /\ \A v \in Workers : v # w => P(v)
               /\ ppc'[w] = pc /\ batch'[w] = events /\ publishing'[w] = e
    BY <1>o, <1>2, <1>t DEF Publisher
  <1>3. ASSUME NEW w \in Workers, GiveUp(w) PROVE \A v \in Workers : P(v)
    BY <1>3, <1>o DEF GiveUp
  <1>4. ASSUME UNCHANGED <<ppc, batch, publishing>> PROVE \A v \in Workers : P(v)
    BY <1>2, <1>4
  <1>5. ASSUME NEW w \in Workers, NEW e \in batch[w], NextInBatch(w, e),
               Publisher(w, "mark", batch[w], e)
        PROVE  \A v \in Workers : P(v)
    <2>1. ASSUME NEW a \in Avatars, e = Delete(a) PROVE outbox'[Upload(a)] = "published"
      <3>1. Upload(a) \notin batch[w]
        BY <1>5, <2>1 DEF NextInBatch, CreatedBefore
      <3>2. outbox[Delete(a)] # "none"
        BY <2>1 DEF Origin, Provenance
      <3>3. outbox[Upload(a)] # "none"
        BY <3>2 DEF Origin, RowsAndEvents
      <3>4. outbox[Upload(a)] = "published"
        BY <2>1, <3>1, <3>3, <1>t
      <3> QED
        BY <3>4, OutboxStep
    <2>2. ppc'[w] = "mark" /\ batch'[w] = batch[w] /\ publishing'[w] = e
      BY <1>5, <1>o
    <2> QED
      BY <1>5, <1>o, <1>k, <2>1, <2>2
  <1>6. ASSUME NEW w \in Workers, Poll(w) PROVE \A v \in Workers : P(v)
    <2>1. PICK events \in GetPending(BatchSize) : Publisher(w, "publish", events, None)
      BY <1>6 DEF Poll
    <2>2. UNCHANGED outbox
      BY <1>6 DEF Poll, storageVars
    <2>3. ASSUME NEW a \in Avatars, Delete(a) \in events, outbox[Upload(a)] = "pending"
          PROVE  Upload(a) \in events
      BY <2>1, <2>3 DEF GetPending, Pending, CreatedBefore
    <2> QED
      BY <1>o, <2>1, <2>2, <2>3
  <1>7. ASSUME NEW w \in Workers, Publish(w) PROVE \A v \in Workers : P(v)
    BY <1>3, <1>5, <1>7 DEF Publish
  <1>8. ASSUME NEW w \in Workers, Mark(w) PROVE \A v \in Workers : P(v)
    <2> DEFINE e    == publishing[w]
               rest == batch[w] \ {e}
               pc   == IF rest = {} THEN "poll" ELSE "publish"
    <2>1. ASSUME MarkPublished(e), Publisher(w, pc, rest, None)
          PROVE  \A v \in Workers : P(v)
      <3>1. e \in Events
        BY <1>8, InHandFacts DEF Mark
      <3>2. outbox'[e] = "published"
        BY <2>1, <3>1, <1>t DEF MarkPublished
      <3>3. ppc'[w] = pc /\ batch'[w] = rest
        BY <2>1, <1>o
      <3> QED
        BY <1>o, <1>k, <2>1, <3>2, <3>3
    <2> QED
      BY <1>3, <1>8, <2>1 DEF Mark
  <1>9. ASSUME NEW w \in Workers, PublishLost(w) PROVE \A v \in Workers : P(v)
    <2>1. PICK e \in batch[w] : /\ NextInBatch(w, e)
                               /\ ppc' = [ppc EXCEPT ![w] = "mark"]
                               /\ publishing' = [publishing EXCEPT ![w] = e]
      BY <1>9 DEF PublishLost
    <2>2. Publisher(w, "mark", batch[w], e)
      BY <1>9, <2>1, <1>t DEF PublishLost, Publisher
    <2> QED
      BY <1>5, <2>1, <2>2
  <1>10. ASSUME NEW w \in Workers, Disconnect(w) \/ Work(w) PROVE \A v \in Workers : P(v)
    BY <1>4, <1>10 DEF Disconnect, Work, publisherVars
  <1>11. ASSUME NEW w \in Workers, Crash(w) \/ Redeploy(w) PROVE \A v \in Workers : P(v)
    BY <1>3, <1>11 DEF Crash, Redeploy, Restart
  <1>12. ASSUME Serve \/ Expire \/ UNCHANGED vars PROVE \A v \in Workers : P(v)
    BY <1>4, <1>12 DEF Serve, Expire, vars, publisherVars
  <1>13. \A w \in Workers : P(w)
    BY <1>6, <1>7, <1>8, <1>9, <1>10, <1>11, <1>12 DEF Next, PublishSome, PublisherStep
  <1> QED
    BY <1>1, <1>13
-----------------------------------------------------------------------------
(***************************************************************************)
(* Deletion of the original.                                               *)
(***************************************************************************)

\* The original of a deleted avatar is never stored again.
LEMMA OriginalStaysGone ==
    ASSUME TypeInv, Origin, [Next]_vars
    PROVE  \A a \in Avatars : outbox[Delete(a)] # "none" /\ "original" \notin objects[a]
                                 => "original" \notin objects'[a]
  <1>1. ObjectStep
    BY StorageEffect
  <1>2. objects \in [Avatars -> SUBSET ObjectKeys]
    BY DEF TypeInv, TypeOK, StorageTypeOK
  <1>3. \A a \in Avatars : uploading[a] = "put" => outbox[Delete(a)] = "none"
    BY DEF Origin, RowsAndEvents
  <1> QED
    BY <1>1, <1>2, <1>3, InHandFacts DEF ObjectStep, PutObject, DeleteObject

\* What a delete request has read names the original.
LEMMA DeletingStep ==
    ASSUME TypeInv, [Next]_vars,
           \A d \in Deleters : deleting[d].read => "original" \in deleting[d].keys
    PROVE  \A d \in Deleters : deleting'[d].read => "original" \in deleting'[d].keys
  <1>t. deleting \in [Deleters -> Reads \cup {Unread}]
    BY DEF TypeInv, TypeOK, ServiceTypeOK
  <1>1. UNCHANGED deleting => \A d \in Deleters : deleting'[d].read => "original" \in deleting'[d].keys
    OBVIOUS
  <1>2. CASE Serve
    <2>1. ASSUME NEW a \in Avatars, UploadPut(a) \/ UploadCreate(a) PROVE UNCHANGED deleting
      BY <2>1 DEF UploadPut, UploadCreate
    <2>2. ASSUME NEW d \in Deleters, NEW a \in Avatars, DeleteRead(d, a)
          PROVE  \A c \in Deleters : deleting'[c].read => "original" \in deleting'[c].keys
      BY <2>2, <1>t DEF DeleteRead
    <2>3. ASSUME NEW d \in Deleters, DeleteCommit(d)
          PROVE  \A c \in Deleters : deleting'[c].read => "original" \in deleting'[c].keys
      BY <2>3, <1>t DEF DeleteCommit, Unread
    <2> QED
      BY <1>1, <1>2, <2>1, <2>2, <2>3 DEF Serve, ServiceStep
  <1>3. CASE Expire \/ UNCHANGED vars
    BY <1>1, <1>3 DEF Expire, vars, serviceVars
  <1>4. ASSUME NEW w \in Workers, PublishSome(w) \/ Work(w) PROVE UNCHANGED deleting
    BY <1>4 DEF PublishSome, Work, serviceVars
  <1>5. ASSUME NEW w \in Workers, Disconnect(w) \/ PublishLost(w) \/ Crash(w) \/ Redeploy(w)
        PROVE  UNCHANGED deleting
    BY <1>5 DEF Disconnect, PublishLost, Crash, Redeploy, Restart, serviceVars
  <1> QED
    BY <1>1, <1>2, <1>3, <1>4, <1>5 DEF Next

\* A delete event in the outbox names the original.
LEMMA PayloadStep ==
    ASSUME TypeInv, Origin, OriginalFirst, [Next]_vars
    PROVE  \A a \in Avatars : outbox'[Delete(a)] # "none" => "original" \in payload'[a]
  <1>1. RowStep
    BY StorageEffect
  <1>t. /\ outbox \in [Events -> {"none", "pending", "published"}]
        /\ payload \in [Avatars -> SUBSET ObjectKeys]
        /\ deleting \in [Deleters -> Reads \cup {Unread}]
    BY DEF TypeInv, TypeOK, StorageTypeOK, ServiceTypeOK
  <1> USE EventFacts DEF OriginalFirst
  <1> DEFINE Goal == \A a \in Avatars : outbox'[Delete(a)] # "none" => "original" \in payload'[a]
  <1>2. ASSUME NEW a \in Avatars, CreateWithOutbox(a) PROVE Goal
    <2>1. \A b \in Avatars : Delete(b) # Upload(a)
      BY DEF Delete, Upload
    <2> QED
      BY <1>2, <1>t, <2>1 DEF CreateWithOutbox
  <1>3. ASSUME NEW d \in Deleters, deleting[d] \in Reads,
               DeleteWithOutbox(deleting[d].avatar, deleting[d].keys)
        PROVE  Goal
    <2> DEFINE b == deleting[d].avatar
    <2>1. b \in Avatars /\ "original" \in deleting[d].keys
      BY <1>3 DEF Reads
    <2>2. payload' = [payload EXCEPT ![b] = deleting[d].keys]
      BY <1>3 DEF DeleteWithOutbox
    <2>3. \A a \in Avatars : a # b => outbox'[Delete(a)] = outbox[Delete(a)]
      <3>1. \A a \in Avatars : a # b => Delete(a) # Delete(b)
        BY DEF Delete
      <3>2. outbox' = [outbox EXCEPT ![Delete(b)] = "pending"]
        BY <1>3 DEF DeleteWithOutbox
      <3> QED
        BY <1>t, <3>1, <3>2
    <2> QED
      BY <1>t, <2>1, <2>2, <2>3
  <1>4. ASSUME NEW w \in Workers, ppc[w] = "mark", MarkPublished(publishing[w]) PROVE Goal
    <2>1. outbox[publishing[w]] # "none"
      BY <1>4 DEF Origin, Provenance
    <2> QED
      BY <1>4, <1>t, <2>1 DEF MarkPublished
  <1>5. ASSUME UNCHANGED <<outbox, payload>> PROVE Goal
    BY <1>5
  <1> QED
    BY <1>1, <1>2, <1>3, <1>4, <1>5 DEF RowStep, UpdateProcessingStatus, UpdateThumbnailS3Keys

\* The original goes first and stays gone.
LEMMA OriginalFirstStep ==
    ASSUME TypeInv, TypeInv', Origin, OriginalFirst, [Next]_vars
    PROVE  OriginalFirst'
  <1>t. /\ objects \in [Avatars -> SUBSET ObjectKeys]
        /\ processed \subseteq Events
    BY DEF TypeInv, TypeOK, StorageTypeOK
  <1>m. ASSUME NEW w \in Workers, wpc[w] # "idle"
        PROVE  /\ Subject(w) \in Avatars
               /\ msg[w].event.kind = "delete" =>
                     msg[w].event = Delete(Subject(w)) /\ outbox[Delete(Subject(w))] # "none"
    BY <1>m, InHandFacts, EventKinds DEF Origin, Provenance, Subject
  <1>1. DeletedOriginalGone'
    <2> SUFFICES ASSUME NEW a \in Avatars, Delete(a) \in processed'
                 PROVE  "original" \notin objects'[a]
      BY DEF DeletedOriginalGone
    <2>1. CASE Delete(a) \in processed
      BY <2>1, OriginalStaysGone DEF Origin, Provenance, OriginalFirst, DeletedOriginalGone
    <2>2. ASSUME NEW w \in Workers, wpc[w] = "mark", MarkProcessed(msg[w].event),
                 Delete(a) = msg[w].event
          PROVE  "original" \notin objects'[a]
      <3>1. Subject(w) = a /\ msg[w].event.kind = "delete"
        BY <2>2, EventFacts DEF Subject
      <3> QED
        BY <2>2, <3>1 DEF MarkProcessed, OriginalFirst
    <2> QED
      BY StorageEffect, <2>1, <2>2 DEF MarkProcessed
  <1>2. \A d \in Deleters : deleting'[d].read => "original" \in deleting'[d].keys
    BY DeletingStep DEF OriginalFirst
  <1>3. \A a \in Avatars : outbox'[Delete(a)] # "none" => "original" \in payload'[a]
    BY PayloadStep
  <1>r. ASSUME NEW w \in Workers, RemovedKey(w)
        PROVE  "original" \in todo'[w] \/ "original" \notin objects'[Subject(w)]
    <2>1. PICK key \in todo[w] : /\ "original" \in todo[w] => key = "original"
                                /\ DeleteObject(Subject(w), key)
                                /\ todo'[w] = todo[w] \ {key}
      BY <1>r DEF RemovedKey
    <2>2. Subject(w) \in Avatars
      BY <1>r, <1>m DEF RemovedKey
    <2> QED
      BY <1>r, <2>1, <2>2, <1>t DEF RemovedKey, DeleteObject, OriginalFirst
  <1>4. ASSUME NEW w \in Workers, wpc'[w] = "delete"
        PROVE  "original" \in todo'[w] \/ "original" \notin objects'[Subject(w)']
    <2>1. CASE Same(w)
      <3>1. Subject(w)' = Subject(w) /\ wpc[w] = "delete" /\ todo'[w] = todo[w]
        BY <1>4, <2>1 DEF Same, Subject
      <3>2. msg[w].event.kind = "delete"
        BY <3>1 DEF TypeInv, InHand
      <3> QED
        BY <3>1, <3>2, <1>m, OriginalStaysGone DEF OriginalFirst
    <2>2. CASE /\ msg'[w] = msg[w] /\ wpc[w] = "check" /\ msg[w].event.kind = "delete"
               /\ todo'[w] = payload[Subject(w)]
      BY <2>2, <1>m DEF OriginalFirst
    <2>3. CASE RemovedKey(w)
      BY <2>3, <1>r DEF RemovedKey, Subject
    <2> QED
      BY <1>4, <2>1, <2>2, <2>3, CallEffect DEF CallStep
  <1>5. ASSUME NEW w \in Workers, wpc'[w] = "mark", msg'[w].event.kind = "delete"
        PROVE  "original" \notin objects'[Subject(w)']
    <2>1. CASE Same(w)
      <3>1. Subject(w)' = Subject(w) /\ wpc[w] = "mark" /\ msg[w].event.kind = "delete"
        BY <1>5, <2>1 DEF Same, Subject
      <3> QED
        BY <3>1, <1>m, OriginalStaysGone DEF OriginalFirst
    <2>2. CASE RemovedKey(w)
      <3>1. "original" \notin todo'[w] /\ Subject(w)' = Subject(w)
        BY <1>5, <2>2 DEF RemovedKey, Subject
      <3> QED
        BY <2>2, <3>1, <1>r
    <2>3. CASE msg'[w] = msg[w] /\ wpc[w] = "completed"
      BY <1>5, <2>3 DEF TypeInv, InHand, UploadCalls
    <2> QED
      BY <1>5, <2>1, <2>2, <2>3, CallEffect DEF CallStep
  <1> QED
    BY <1>1, <1>2, <1>3, <1>4, <1>5 DEF OriginalFirst
-----------------------------------------------------------------------------
(***************************************************************************)
(* One active avatar per user.                                             *)
(***************************************************************************)
LEMMA ActiveStep ==
    ASSUME TypeInv, Origin, ActiveIsLive, [Next]_vars PROVE ActiveIsLive'
  <1>1. RowStep
    BY StorageEffect
  <1>t. row \in [Avatars -> Rows]
    BY DEF TypeInv, TypeOK, StorageTypeOK
  <1> USE DEF ActiveIsLive, OneActivePerUser, Live
  <1>2. ASSUME NEW a \in Avatars, CreateWithOutbox(a) PROVE ActiveIsLive'
    <2>0. /\ row'[a] = NewRow
          /\ \A b \in Avatars : b # a =>
                row'[b] = IF Live(b) /\ Owner[b] = Owner[a]
                          THEN [row[b] EXCEPT !.active = FALSE] ELSE row[b]
      BY <1>2, <1>t DEF CreateWithOutbox
    <2>1. ASSUME NEW b \in Avatars, row'[b].active, b # a
          PROVE  row[b].active /\ Owner[b] # Owner[a]
      <3>1. row[b] \in Rows
        BY <1>t
      <3>2. ~[row[b] EXCEPT !.active = FALSE].active
        BY <3>1 DEF Rows
      <3> QED
        BY <2>0, <2>1, <3>2
    <2>2. ASSUME NEW b \in Avatars, Live(b) \/ b = a PROVE row'[b].st = "live"
      <3>1. row[b] \in Rows
        BY <1>t
      <3>2. [row[b] EXCEPT !.active = FALSE].st = row[b].st
        BY <3>1 DEF Rows
      <3>3. NewRow.st = "live"
        BY DEF NewRow
      <3> QED
        BY <2>0, <2>2, <3>2, <3>3
    <2>3. ASSUME NEW b \in Avatars, row'[b].active PROVE row'[b].st = "live"
      <3>1. CASE b = a
        BY <2>2, <3>1
      <3>2. CASE b # a
        <4>1. row[b].active
          BY <2>1, <2>3, <3>2
        <4>2. row[b].st = "live"
          BY <4>1 DEF ActiveIsLive
        <4> QED
          BY <2>2, <4>2
      <3> QED
        BY <3>1, <3>2
    <2>4. ASSUME NEW b \in Avatars, NEW c \in Avatars,
                 row'[b].active, row'[c].active, Owner[b] = Owner[c]
          PROVE  b = c
      BY <2>1, <2>4
    <2> QED
      BY <2>3, <2>4
  <1>3. ASSUME \A a \in Avatars : row'[a].active =>
                  row[a].active /\ (row[a].st = "live" => row'[a].st = "live")
        PROVE  ActiveIsLive'
    BY <1>3
  <1>4. ASSUME NEW a \in Avatars, NEW keys, DeleteWithOutbox(a, keys) PROVE ActiveIsLive'
    BY <1>3, <1>4, <1>t DEF DeleteWithOutbox, Rows
  <1>5. ASSUME NEW w \in Workers, NEW s \in Statuses, UpdateProcessingStatus(Subject(w), s)
        PROVE  ActiveIsLive'
    BY <1>3, <1>5, <1>t DEF UpdateProcessingStatus, Rows
  <1>6. ASSUME NEW w \in Workers, UpdateThumbnailS3Keys(Subject(w)) PROVE ActiveIsLive'
    BY <1>3, <1>6, <1>t DEF UpdateThumbnailS3Keys, Rows
  <1>7. CASE UNCHANGED row
    BY <1>3, <1>7
  <1> QED
    BY <1>1, <1>2, <1>4, <1>5, <1>6, <1>7 DEF RowStep, MarkPublished, Reads
-----------------------------------------------------------------------------
(***************************************************************************)
(* The invariant, and what follows from it.                                *)
(***************************************************************************)
LEMMA IInvInit == Init => IInv
  <1> SUFFICES ASSUME Init PROVE IInv
    OBVIOUS
  <1>1. TypeInv /\ RowsAndEvents /\ Provenance
    BY TypeInit, RowsAndEventsInit, ProvenanceInit
  <1> USE DEF Init, StorageInit, ServiceInit, PublisherInit, WorkerInit, NoRow, Live, Unread
  <1>2. BucketBehindRows
    BY DEF BucketBehindRows, LiveHasOriginal, SavedThumbnailsExist
  <1>3. BatchesInOrder
    BY EventFacts DEF BatchesInOrder, DeleteFollowsUpload
  <1>4. OriginalFirst
    BY EventFacts DEF OriginalFirst, DeletedOriginalGone
  <1>5. ActiveIsLive
    BY DEF ActiveIsLive, OneActivePerUser
  <1> QED
    BY <1>1, <1>2, <1>3, <1>4, <1>5 DEF IInv

LEMMA IInvStep == IInv /\ [Next]_vars => IInv'
  BY TypeStep, RowsAndEventsStep, ProvenanceStep, BucketStep, BatchesStep,
     OriginalFirstStep, ActiveStep DEF IInv, Origin

\* The inductive invariant holds in every reachable state, whatever fails.
THEOREM Invariance == Spec => []IInv
  BY IInvInit, IInvStep, PTL DEF Spec

\* The original of an undeleted avatar is always in the bucket.
THEOREM OriginalAvailable == Spec => []LiveHasOriginal
  <1>1. IInv => LiveHasOriginal
    BY DEF IInv, BucketBehindRows
  <1> QED
    BY Invariance, <1>1, PTL

\* The thumbnails that an undeleted avatar's row names are in the bucket, even
\* while several workers repeat the same message.
THEOREM ThumbnailsAvailable == Spec => []SavedThumbnailsExist
  <1>1. IInv => SavedThumbnailsExist
    BY DEF IInv, BucketBehindRows
  <1> QED
    BY Invariance, <1>1, PTL

\* No delete event is marked as published before its avatar's upload event.
THEOREM PublishedInOrder == Spec => []DeleteFollowsUpload
  <1>1. IInv => DeleteFollowsUpload
    BY DEF IInv, BatchesInOrder
  <1> QED
    BY Invariance, <1>1, PTL

\* After its deletion has been processed an avatar's original is gone for good.
THEOREM OriginalRemoved == Spec => []DeletedOriginalGone
  <1>1. IInv => DeletedOriginalGone
    BY DEF IInv, OriginalFirst
  <1> QED
    BY Invariance, <1>1, PTL

\* A user never has two current avatars.
THEOREM OneActive == Spec => []OneActivePerUser
  <1>1. IInv => OneActivePerUser
    BY DEF IInv, ActiveIsLive
  <1> QED
    BY Invariance, <1>1, PTL

\* No step changes the row of a deleted avatar: not a worker that started on
\* it earlier, not a second delete request.
THEOREM DeletedIsFinal == Spec => DeletedRowIsFinal
  <1> DEFINE Final == \A a \in Avatars : row[a].st = "deleted" => row'[a] = row[a]
  <1>1. ASSUME IInv, [Next]_vars PROVE Final
    <2>1. RowStep
      BY <1>1, StorageEffect DEF IInv
    <2>2. /\ row \in [Avatars -> Rows]
          /\ \A a \in Avatars : uploading[a] = "create" => row[a].st = "none"
      BY <1>1 DEF IInv, TypeInv, TypeOK, StorageTypeOK, RowsAndEvents
    <2>3. ASSUME NEW b \in Avatars, uploading[b] = "create", CreateWithOutbox(b) PROVE Final
      BY <2>2, <2>3 DEF CreateWithOutbox, Live
    <2>4. ASSUME NEW b, NEW keys, DeleteWithOutbox(b, keys) PROVE Final
      BY <2>2, <2>4 DEF DeleteWithOutbox, Live
    <2>5. ASSUME NEW b, NEW s, UpdateProcessingStatus(b, s) PROVE Final
      BY <2>2, <2>5 DEF UpdateProcessingStatus, Live
    <2>6. ASSUME NEW b, UpdateThumbnailS3Keys(b) PROVE Final
      BY <2>2, <2>6 DEF UpdateThumbnailS3Keys, Live
    <2>7. ASSUME UNCHANGED row PROVE Final
      BY <2>7
    <2> QED
      BY <2>1, <2>3, <2>4, <2>5, <2>6, <2>7 DEF RowStep, MarkPublished
  <1>2. IInv /\ [Next]_vars => [Final]_vars
    BY <1>1
  <1> QED
    BY Invariance, <1>2, PTL DEF Spec, DeletedRowIsFinal
=============================================================================
