---------------------------- MODULE AvatarStorage ----------------------------
(***************************************************************************)
(* What the program keeps outside its processes: the PostgreSQL tables     *)
(* avatars, outbox_events and processed_messages, and the S3 bucket.  Each *)
(* operator below is the effect of one statement, transaction or object    *)
(* request; callers choose when it happens and whether it fails.           *)
(***************************************************************************)
EXTENDS AvatarEvents, FiniteSets, Naturals

CONSTANTS Users,        \* ids of the users
          Owner         \* the user each avatar is uploaded by

ASSUME OwnerAssumption == Owner \in [Avatars -> Users]

VARIABLES row,          \* table avatars
          outbox,       \* table outbox_events: none, pending or published
          payload,      \* s3_keys of the delete event of each avatar
          processed,    \* table processed_messages
          objects       \* the bucket: the objects stored for each avatar

storageVars == <<row, outbox, payload, processed, objects>>
-----------------------------------------------------------------------------
Thumbnails == {"100x100", "300x300"}
ObjectKeys == {"original"} \cup Thumbnails
Statuses   == {"pending", "processing", "completed"}

\* st folds upload_status and deleted_at, which the statements set together.
Rows == [st : {"none", "live", "deleted"}, active : BOOLEAN,
         status : Statuses, thumbs : SUBSET Thumbnails]

NoRow  == [st |-> "none", active |-> FALSE, status |-> "pending", thumbs |-> {}]
NewRow == [st |-> "live", active |-> TRUE,  status |-> "pending", thumbs |-> {}]

Live(a) == row[a].st = "live"

StorageTypeOK ==
    /\ row \in [Avatars -> Rows]
    /\ outbox \in [Events -> {"none", "pending", "published"}]
    /\ payload \in [Avatars -> SUBSET ObjectKeys]
    /\ processed \in SUBSET Events
    /\ objects \in [Avatars -> SUBSET ObjectKeys]

StorageInit ==
    /\ row = [a \in Avatars |-> NoRow]
    /\ outbox = [e \in Events |-> "none"]
    /\ payload = [a \in Avatars |-> {}]
    /\ processed = {}
    /\ objects = [a \in Avatars |-> {}]
-----------------------------------------------------------------------------
(***************************************************************************)
(* Table avatars and its outbox.  The two transactions are atomic here.    *)
(***************************************************************************)

\* Bug: the INSERT of the event is left out of the transaction.
CreateWithoutEvent(a) ==
    /\ row' = [row EXCEPT ![a] = NewRow]
    /\ UNCHANGED <<outbox, payload, processed, objects>>

\* Bug: the user's previous avatar stays active.
CreateBesideActive(a) ==
    /\ row' = [row EXCEPT ![a] = NewRow]
    /\ outbox' = [outbox EXCEPT ![Upload(a)] = "pending"]
    /\ UNCHANGED <<payload, processed, objects>>

\* UPDATE of the user's active row, INSERT of the new one, INSERT of the event.
CreateWithOutbox(a) ==
    /\ row' = [b \in Avatars |->
                 IF b = a THEN NewRow
                 ELSE IF Live(b) /\ Owner[b] = Owner[a]
                      THEN [row[b] EXCEPT !.active = FALSE]
                      ELSE row[b]]
    /\ outbox' = [outbox EXCEPT ![Upload(a)] = "pending"]
    /\ UNCHANGED <<payload, processed, objects>>

\* Bug: is_active is not reset.
DeleteStillActive(a, keys) ==
    /\ Live(a)
    /\ row' = [row EXCEPT ![a].st = "deleted"]
    /\ outbox' = [outbox EXCEPT ![Delete(a)] = "pending"]
    /\ payload' = [payload EXCEPT ![a] = keys]
    /\ UNCHANGED <<processed, objects>>

\* Bug: the event is written, the row stays as it was.
DeleteEventOnly(a, keys) ==
    /\ Live(a)
    /\ outbox' = [outbox EXCEPT ![Delete(a)] = "pending"]
    /\ payload' = [payload EXCEPT ![a] = keys]
    /\ UNCHANGED <<row, processed, objects>>

\* The UPDATE matches a row only while deleted_at IS NULL.
DeleteWithOutbox(a, keys) ==
    /\ Live(a)
    /\ row' = [row EXCEPT ![a] = [@ EXCEPT !.st = "deleted", !.active = FALSE]]
    /\ outbox' = [outbox EXCEPT ![Delete(a)] = "pending"]
    /\ payload' = [payload EXCEPT ![a] = keys]
    /\ UNCHANGED <<processed, objects>>

\* Bug: no AND deleted_at IS NULL.
UpdateAnyStatus(a, status) ==
    /\ row' = [row EXCEPT ![a].status = status]
    /\ UNCHANGED <<outbox, payload, processed, objects>>

\* Both updates of the worker carry AND deleted_at IS NULL; when no row
\* matches, the caller gets ErrNoRows.
UpdateProcessingStatus(a, status) ==
    /\ Live(a)
    /\ row' = [row EXCEPT ![a].status = status]
    /\ UNCHANGED <<outbox, payload, processed, objects>>

UpdateThumbnailS3Keys(a) ==
    /\ Live(a)
    /\ row' = [row EXCEPT ![a].thumbs = Thumbnails]
    /\ UNCHANGED <<outbox, payload, processed, objects>>
-----------------------------------------------------------------------------
(***************************************************************************)
(* Tables outbox_events and processed_messages.                            *)
(***************************************************************************)
Pending == {e \in Events : outbox[e] = "pending"}

\* created_at is the start of the inserting transaction.  An avatar's delete
\* starts after its upload has committed; nothing else orders two events.
CreatedBefore(d, e) ==
    d.avatar = e.avatar /\ d.kind = "upload" /\ e.kind = "delete"

\* ORDER BY created_at LIMIT limit: a downward closed part of the pending.
GetPending(limit) ==
    {batch \in SUBSET Pending :
        /\ Cardinality(batch) =
              IF Cardinality(Pending) < limit THEN Cardinality(Pending) ELSE limit
        /\ \A e \in batch, d \in Pending : CreatedBefore(d, e) => d \in batch}

MarkPublished(e) ==
    /\ outbox' = [outbox EXCEPT ![e] = "published"]
    /\ UNCHANGED <<row, payload, processed, objects>>

IsProcessed(e) == e \in processed

MarkProcessed(e) ==
    /\ processed' = processed \cup {e}
    /\ UNCHANGED <<row, outbox, payload, objects>>
-----------------------------------------------------------------------------
(***************************************************************************)
(* The bucket.  Putting an object overwrites; deleting an absent object    *)
(* succeeds.                                                               *)
(***************************************************************************)
PutObject(a, key) ==
    /\ objects' = [objects EXCEPT ![a] = @ \cup {key}]
    /\ UNCHANGED <<row, outbox, payload, processed>>

DeleteObject(a, key) ==
    /\ objects' = [objects EXCEPT ![a] = @ \ {key}]
    /\ UNCHANGED <<row, outbox, payload, processed>>
=============================================================================
