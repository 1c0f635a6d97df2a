-------------------------- MODULE AvatarRefinement --------------------------
(***************************************************************************)
(* AvatarPipeline implements AvatarLifecycle: the table tells the life of  *)
(* an avatar and which one is current, table and bucket together which     *)
(* objects there are of it.                                                *)
(***************************************************************************)
EXTENDS AvatarPipeline

\* The keys that the metadata of the avatar names and the bucket has.
Content(a) ==
    IF Live(a) THEN ({"original"} \cup row[a].thumbs) \cap objects[a] ELSE {}

Life == INSTANCE AvatarLifecycle
            WITH life    <- [a \in Avatars |-> row[a].st],
                 current <- {a \in Avatars : row[a].active},
                 content <- [a \in Avatars |-> Content(a)]

\* Whatever fails and however often messages are repeated, a client sees
\* avatars come, gain thumbnails and go, and nothing else: an upload appears
\* whole, no object it can name is ever missing, a deletion is final.
ImplementsLifecycle == Life!Spec
=============================================================================
