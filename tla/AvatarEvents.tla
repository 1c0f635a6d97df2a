---------------------------- MODULE AvatarEvents ----------------------------
(***************************************************************************)
(* The two events the service writes to the outbox and the worker handles. *)
(*                                                                         *)
(* An avatar id is a fresh UUID per upload request, so Avatars also        *)
(* indexes the upload requests.  Message ids are fresh UUIDs too; at most  *)
(* one upload and one delete event of an avatar ever commit, so an event   *)
(* is identified by its kind and its avatar.                               *)
(***************************************************************************)
CONSTANT Avatars        \* ids of the avatars that may be uploaded

Upload(a) == [kind |-> "upload", avatar |-> a]
Delete(a) == [kind |-> "delete", avatar |-> a]
Events    == [kind : {"upload", "delete"}, avatar : Avatars]
=============================================================================
