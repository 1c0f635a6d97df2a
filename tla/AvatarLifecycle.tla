--------------------------- MODULE AvatarLifecycle ---------------------------
(***************************************************************************)
(* What the system promises a client, without queues, workers or failures: *)
(* an avatar appears complete with its original and becomes the current    *)
(* one of its user, may gain its thumbnails, and disappears at once and    *)
(* for good.  What there is of it never shrinks before that.               *)
(***************************************************************************)
CONSTANTS Avatars, Owner, Thumbnails

VARIABLES life,         \* of each avatar: none, live or deleted
          current,      \* the avatars that are their user's current one
          content       \* the objects there are of each avatar a client can find
-----------------------------------------------------------------------------
Init == /\ life = [a \in Avatars |-> "none"]
        /\ current = {}
        /\ content = [a \in Avatars |-> {}]

\* The new avatar replaces the current one of the same user.
Appear(a) ==
    /\ life[a] = "none"
    /\ life' = [life EXCEPT ![a] = "live"]
    /\ current' = {b \in current : Owner[b] # Owner[a]} \cup {a}
    /\ content' = [content EXCEPT ![a] = {"original"}]

GainThumbnails(a) ==
    /\ life[a] = "live"
    /\ content' = [content EXCEPT ![a] = {"original"} \cup Thumbnails]
    /\ UNCHANGED <<life, current>>

\* No older avatar takes the place of a current one that disappears.
Disappear(a) ==
    /\ life[a] = "live"
    /\ life' = [life EXCEPT ![a] = "deleted"]
    /\ current' = current \ {a}
    /\ content' = [content EXCEPT ![a] = {}]

Next == \E a \in Avatars : Appear(a) \/ GainThumbnails(a) \/ Disappear(a)

Spec == Init /\ [][Next]_<<life, current, content>>
=============================================================================
