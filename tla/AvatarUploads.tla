---------------------------- MODULE AvatarUploads ----------------------------
(***************************************************************************)
(* An upload from the HTTP request to its answer: the checks of            *)
(* avatar_handler.go and image.go, the object, the row, the status code.   *)
(* A request runs on one server process and ends with it.                  *)
(***************************************************************************)
EXTENDS Faults

CONSTANTS Requests,     \* upload requests
          Servers,      \* server processes
          MaxFileSize   \* of an image, in units of which the program has 10 Mi

ASSUME MaxFileSizeAssumption == MaxFileSize \in Nat \ {0}

VARIABLES request,      \* where each request is, on which server, with which body
          kept          \* what it has left in the bucket and in the tables

uploadVars == <<request, kept>>
-----------------------------------------------------------------------------
\* A body as far as a check can tell: whether there is a user id and a field
\* with a file, the size of the file and of the form around it, whether the
\* file decodes as JPEG, PNG or WebP and whether its name fits its column.  A
\* form around a file takes more than a byte.
Bodies == [user : BOOLEAN, field : BOOLEAN, size : 0 .. MaxFileSize + 1,
           envelope : 2 .. 3, image : BOOLEAN, nameFits : BOOLEAN]

NoBody == [size |-> 0]
Codes  == {"201", "400", "413", "500"}

UploadTypeOK ==
    /\ request \in [Requests ->
         [at : {"idle", "screen", "put", "create", "answered", "cut"},
          host : Servers \cup {"none"}, body : Bodies \cup {NoBody},
          answer : Codes \cup {"none"}]]
    /\ kept \in [Requests -> SUBSET {"object", "row"}]

UploadInit ==
    /\ request = [r \in Requests |->
         [at |-> "idle", host |-> "none", body |-> NoBody, answer |-> "none"]]
    /\ kept = [r \in Requests |-> {}]

Answer(r, code) ==
    request' = [request EXCEPT ![r].at = "answered", ![r].answer = code]

Continue(r, next) == request' = [request EXCEPT ![r].at = next]

Keep(r, what) == kept' = [kept EXCEPT ![r] = @ \cup {what}]
-----------------------------------------------------------------------------
Arrive(r, p, b) ==
    /\ request[r].at = "idle"
    /\ request' = [request EXCEPT ![r] =
           [at |-> "screen", host |-> p, body |-> b, answer |-> "none"]]
    /\ UNCHANGED <<kept, faults>>

\* MaxBytesReader counts the whole body, the form around the file included.
TooLarge(b) == \/ b.envelope + b.size > MaxFileSize + 1
               \/ b.size > MaxFileSize

Decodes(b) == b.size > 0 /\ b.size <= MaxFileSize /\ b.image

\* The checks in their order; 201 stands for passing them.
Verdict(b) == IF ~b.user THEN "400"
              ELSE IF TooLarge(b) THEN "413"
              ELSE IF ~b.field \/ ~Decodes(b) THEN "400"
              ELSE "201"

Screen(r) ==
    /\ request[r].at = "screen"
    /\ LET code == Verdict(request[r].body) IN
         IF code = "201" THEN Continue(r, "put") ELSE Answer(r, code)
    /\ UNCHANGED <<kept, faults>>

\* PutObject, whose error says nothing about its effect.
Put(r) ==
    /\ request[r].at = "put"
    /\ \/ Keep(r, "object") /\ Continue(r, "create") /\ NoFault
       \/ Keep(r, "object") /\ Answer(r, "500") /\ Fault
       \/ UNCHANGED kept    /\ Answer(r, "500") /\ Fault

\* Bug: the error of the transaction is not looked at.
CreateUnchecked(r) ==
    /\ request[r].at = "create"
    /\ \/ request[r].body.nameFits /\ Keep(r, "row") /\ NoFault
       \/ ~request[r].body.nameFits /\ UNCHANGED kept /\ NoFault
       \/ UNCHANGED kept /\ Fault
    /\ Answer(r, "201")

\* CreateWithOutbox: row and event together.  A name longer than its column
\* fails the INSERT, with the object already stored.
Create(r) ==
    /\ request[r].at = "create"
    /\ \/ request[r].body.nameFits /\ Keep(r, "row") /\ Answer(r, "201") /\ NoFault
       \/ ~request[r].body.nameFits /\ UNCHANGED kept /\ Answer(r, "500") /\ NoFault
       \/ request[r].body.nameFits /\ Keep(r, "row") /\ Answer(r, "500") /\ Fault
       \/ UNCHANGED kept /\ Answer(r, "500") /\ Fault

Handle(r) == Screen(r) \/ Put(r) \/ Create(r)

InFlight(r, p) == request[r].host = p /\ request[r].at \in {"screen", "put", "create"}

\* What the call a request is in the middle of may still bring about.
UnderWay(r) == CASE request[r].at = "put" -> {"object"}
                 [] request[r].at = "create" /\ request[r].body.nameFits -> {"row"}
                 [] OTHER -> {}

\* The requests of the process break off: the store or the database may have
\* received a call already, and then carries it out all the same.
CutAll(p) ==
    /\ request' = [r \in Requests |->
           IF InFlight(r, p) THEN [request[r] EXCEPT !.at = "cut"] ELSE request[r]]
    /\ \E received \in SUBSET {r \in Requests : InFlight(r, p)} :
           kept' = [r \in Requests |->
               IF r \in received THEN kept[r] \cup UnderWay(r) ELSE kept[r]]
-----------------------------------------------------------------------------
\* What a request has left, wherever it is: nothing before its body has passed
\* the checks, and the row only as the last thing.
RequestSound(r) ==
    LET q == request[r] IN
      /\ q.at \in {"idle", "screen"} => kept[r] = {}
      /\ q.at = "screen" => q.body \in Bodies
      /\ q.at = "put" => kept[r] = {} /\ Verdict(q.body) = "201"
      /\ q.at = "create" => kept[r] = {"object"} /\ Verdict(q.body) = "201"
      /\ q.at # "answered" => q.answer = "none"
      /\ q.answer = "201" => kept[r] = {"object", "row"}
      /\ q.answer \in {"400", "413"} => kept[r] = {}
      /\ "row" \in kept[r] => "object" \in kept[r]
      /\ kept[r] # {} => Verdict(q.body) = "201"

UploadsSound == \A r \in Requests : RequestSound(r)

\* An answer tells the truth whatever failed before it: 201 that the avatar is
\* complete, 400 and 413 that nothing is left of the request; and in no case,
\* a request cut short included, is there a row without its object, or
\* anything of a file that the worker could not decode.
AnswersAreTrue ==
    \A r \in Requests :
        /\ request[r].answer = "201" => kept[r] = {"object", "row"}
        /\ request[r].answer \in {"400", "413"} => kept[r] = {}
        /\ "row" \in kept[r] => "object" \in kept[r]
        /\ kept[r] # {} => request[r].body.user /\ Decodes(request[r].body)
=============================================================================
