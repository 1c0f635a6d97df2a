----------------------------- MODULE AvatarReads -----------------------------
(***************************************************************************)
(* The image requests of http/avatar_handler.go beside the rest of the     *)
(* pipeline: each reads the table once or twice and then the bucket, while *)
(* uploads, deletions and the worker go on.                                *)
(***************************************************************************)
EXTENDS AvatarPipeline

CONSTANT Readers        \* concurrent image requests

VARIABLE reading        \* where each request is, for which avatar, and what it has
                        \* answered

Answers == {"original", "none", "not found", "internal error"}

Request(at, a, answer) == [at |-> at, avatar |-> a, answer |-> answer]

NoRequest == [at |-> "idle"]
Requests  == [at : {"find", "fetch", "answered"}, avatar : Avatars, answer : Answers]

ReadTypeOK == TypeOK /\ reading \in [Readers -> Requests \cup {NoRequest}]
ReadInit   == Init /\ reading = [r \in Readers |-> NoRequest]

Becomes(r, request) == reading' = [reading EXCEPT ![r] = request]

Answer(r, answer) ==
    Becomes(r, [reading[r] EXCEPT !.at = "answered", !.answer = answer])
-----------------------------------------------------------------------------
\* getByID: the client knows the id of any avatar, whatever became of it.
AskById(r) ==
    /\ reading[r].at = "idle"
    /\ \E a \in Avatars :
         row[a].st # "none" /\ Becomes(r, Request("find", a, "none"))

\* getCurrent: GetCurrentByUserID, then the same.
AskCurrent(r) ==
    /\ reading[r].at = "idle"
    /\ \E a \in Avatars :
         Live(a) /\ row[a].active /\ Becomes(r, Request("find", a, "none"))

\* GetContent reads the row, which a deletion may have changed by now ...
Find(r) ==
    /\ reading[r].at = "find"
    /\ \/ Live(reading[r].avatar) /\ Becomes(r, [reading[r] EXCEPT !.at = "fetch"])
       \/ ~Live(reading[r].avatar) /\ Answer(r, "not found")

\* ... and asks the bucket for the original, whatever the size.  An object that
\* is not there is an error like any other.  (Errors of a database or a bucket
\* that does not answer are left out: they say nothing about the avatar.)
Fetch(r) ==
    /\ reading[r].at = "fetch"
    /\ IF "original" \in objects[reading[r].avatar]
       THEN Answer(r, "original")
       ELSE Answer(r, "internal error")

NextRequest(r) == reading[r].at = "answered" /\ Becomes(r, NoRequest)

Read(r) == /\ AskById(r) \/ AskCurrent(r) \/ Find(r) \/ Fetch(r) \/ NextRequest(r)
           /\ UNCHANGED vars

ReadNext == \/ Next /\ UNCHANGED reading
            \/ \E r \in Readers : Read(r)

ReadSpec == ReadInit /\ [][ReadNext]_<<vars, reading>>
-----------------------------------------------------------------------------
\* An image request answers with an error only when its avatar was deleted
\* while the request was under way: between the row and the bucket nothing
\* else can take the object away, not a worker that repeats an old message.
ErrorsOnlyAfterDeletion ==
    \A r \in Readers :
        reading[r].at = "answered" /\ reading[r].answer # "original"
            => row[reading[r].avatar].st = "deleted"
=============================================================================
