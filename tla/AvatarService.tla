---------------------------- MODULE AvatarService ----------------------------
(***************************************************************************)
(* The HTTP server's two operations that change state: Upload and Delete   *)
(* of service/avatar.go.  Requests run concurrently; what a request has    *)
(* read stays in its hands until its transaction.  Checks that reject a    *)
(* request before it touches anything (a blank id, an undecodable image,   *)
(* another user's avatar) leave every variable as it was and are not       *)
(* steps here.                                                             *)
(***************************************************************************)
EXTENDS AvatarStorage, Faults

CONSTANT Deleters       \* concurrent delete requests

VARIABLES uploading,    \* what the upload request of each avatar does next
          deleting      \* the avatar each delete request has read, and its keys

serviceVars == <<uploading, deleting>>
-----------------------------------------------------------------------------
\* A delete request that has read nothing yet.
Unread == [read |-> FALSE]
Reads  == [read : {TRUE}, avatar : Avatars, keys : SUBSET ObjectKeys]

ServiceTypeOK ==
    /\ uploading \in [Avatars -> {"put", "create", "done", "failed"}]
    /\ deleting \in [Deleters -> Reads \cup {Unread}]

ServiceInit ==
    /\ uploading = [a \in Avatars |-> "put"]
    /\ deleting = [d \in Deleters |-> Unread]

\* The request ends; its answer tells the client done or failed.
UploadGoes(a, next) == uploading' = [uploading EXCEPT ![a] = next]
-----------------------------------------------------------------------------
\* Bug: the error of PutObject is ignored.
UploadPutUnchecked(a) ==
    /\ uploading[a] = "put"
    /\ \/ PutObject(a, "original") /\ NoFault
       \/ (PutObject(a, "original") \/ UNCHANGED storageVars) /\ Fault
    /\ UploadGoes(a, "create")
    /\ UNCHANGED deleting

\* Upload stores the original first.  A request that fails here, or whose
\* server dies, may leave the object behind: an error does not say whether
\* the store had carried the request out.
UploadPut(a) ==
    /\ uploading[a] = "put"
    /\ \/ PutObject(a, "original") /\ UploadGoes(a, "create") /\ NoFault
       \/ PutObject(a, "original") /\ UploadGoes(a, "failed") /\ Fault
       \/ UNCHANGED storageVars    /\ UploadGoes(a, "failed") /\ Fault
    /\ UNCHANGED deleting

\* ... then writes the row and the event in one transaction.  An error may be
\* a rollback, another upload of the user winning the unique index, or a
\* commit whose answer was lost.
UploadCreate(a) ==
    /\ uploading[a] = "create"
    /\ \/ CreateWithOutbox(a)   /\ UploadGoes(a, "done")   /\ NoFault
       \/ CreateWithOutbox(a)   /\ UploadGoes(a, "failed") /\ Fault
       \/ UNCHANGED storageVars /\ UploadGoes(a, "failed") /\ Fault
    /\ UNCHANGED deleting
-----------------------------------------------------------------------------
\* Bug: the key of the original is left out of the event.
DeleteReadThumbnails(d, a) ==
    /\ ~deleting[d].read
    /\ Live(a)
    /\ deleting' = [deleting EXCEPT ![d] =
           [read |-> TRUE, avatar |-> a, keys |-> row[a].thumbs]]
    /\ NoFault
    /\ UNCHANGED <<storageVars, uploading>>

\* The s3_keys of the event come from the row GetByID returned.
DeleteRead(d, a) ==
    /\ ~deleting[d].read
    /\ Live(a)
    /\ deleting' = [deleting EXCEPT ![d] =
           [read |-> TRUE, avatar |-> a, keys |-> {"original"} \cup row[a].thumbs]]
    /\ NoFault
    /\ UNCHANGED <<storageVars, uploading>>

\* The transaction: committed, refused because no undeleted row is left, or
\* failed with or without having committed.
DeleteCommit(d) ==
    /\ deleting[d].read
    /\ LET a == deleting[d].avatar IN
         \/ DeleteWithOutbox(a, deleting[d].keys) /\ (NoFault \/ Fault)
         \/ ~Live(a) /\ UNCHANGED storageVars /\ NoFault
         \/ UNCHANGED storageVars /\ Fault
    /\ deleting' = [deleting EXCEPT ![d] = Unread]
    /\ UNCHANGED uploading

ServiceStep ==
    \/ \E a \in Avatars : UploadPut(a) \/ UploadCreate(a)
    \/ \E d \in Deleters : DeleteCommit(d) \/ \E a \in Avatars : DeleteRead(d, a)
=============================================================================
