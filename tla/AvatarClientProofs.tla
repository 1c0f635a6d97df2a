-------------------------- MODULE AvatarClientProofs --------------------------
(***************************************************************************)
(* What clients see, for every value of the constants.  AvatarPipeline     *)
(* implements AvatarLifecycle: under the inductive invariant, what there   *)
(* is of an avatar depends on its row alone (ContentIs), and each effect   *)
(* of a step on the rows is a step of the abstract specification or none.  *)
(* And image requests beside the pipeline fail only for an avatar deleted  *)
(* in the meantime: the pipeline does not see them, so its invariant       *)
(* carries over.                                                           *)
(***************************************************************************)
EXTENDS AvatarPipelineProofs, AvatarReads, AvatarRefinement

USE OwnerAssumption

\* The abstract variables.
Lives    == [a \in Avatars |-> row[a].st]
Currents == {a \in Avatars : row[a].active}
Contents == [a \in Avatars |-> Content(a)]

\* No object that a row names is missing, before a step and after it.
LEMMA ContentIs ==
    ASSUME IInv, IInv'
    PROVE  \A a \in Avatars :
              /\ Content(a) = IF row[a].st = "live" THEN {"original"} \cup row[a].thumbs ELSE {}
              /\ Content(a)' = IF row'[a].st = "live" THEN {"original"} \cup row'[a].thumbs ELSE {}
  BY DEF IInv, BucketBehindRows, LiveHasOriginal, SavedThumbnailsExist, Content, Live

\* Initially there is no avatar on either level.
LEMMA LifeInit == Init => Life!Init
  <1> SUFFICES ASSUME Init PROVE Life!Init
    OBVIOUS
  <1>1. \A a \in Avatars : row[a].st = "none" /\ ~row[a].active
    BY DEF Init, StorageInit, NoRow
  <1> QED
    BY <1>1 DEF Life!Init, Content, Live

\* A step that leaves life, rank and thumbnails of every row is no step.
LEMMA LifeStutter ==
    ASSUME IInv, IInv',
           \A a \in Avatars : /\ row'[a].st = row[a].st
                              /\ row'[a].active = row[a].active
                              /\ row[a].st = "live" => row'[a].thumbs = row[a].thumbs
    PROVE  Lives' = Lives /\ Currents' = Currents /\ Contents' = Contents
  <1>1. \A a \in Avatars : Content(a)' = Content(a)
    BY ContentIs
  <1> QED
    BY <1>1 DEF Lives, Currents, Contents

\* The transaction of an upload makes its avatar appear.
LEMMA LifeAppear ==
    ASSUME IInv, IInv', NEW a \in Avatars, row[a].st = "none", CreateWithOutbox(a)
    PROVE  /\ Lives' = [Lives EXCEPT ![a] = "live"]
           /\ Currents' = {b \in Currents : Owner[b] # Owner[a]} \cup {a}
           /\ Contents' = [Contents EXCEPT ![a] = {"original"}]
  <1>t. \A b \in Avatars : row[b] \in Rows
    BY DEF IInv, TypeInv, TypeOK, StorageTypeOK
  <1>1. /\ row'[a] = NewRow
        /\ \A b \in Avatars : b # a =>
              row'[b] = IF Live(b) /\ Owner[b] = Owner[a]
                        THEN [row[b] EXCEPT !.active = FALSE] ELSE row[b]
    BY DEF CreateWithOutbox
  <1>2. \A b \in Avatars : b # a => row'[b].st = row[b].st /\ row'[b].thumbs = row[b].thumbs
    BY <1>1, <1>t DEF Rows
  <1>3. row'[a].st = "live" /\ row'[a].thumbs = {} /\ row'[a].active
    BY <1>1 DEF NewRow
  <1>4. ASSUME NEW b \in Avatars, b # a
        PROVE  row'[b].active <=> row[b].active /\ Owner[b] # Owner[a]
    <2>1. CASE Live(b) /\ Owner[b] = Owner[a]
      <3>1. ~[row[b] EXCEPT !.active = FALSE].active
        BY <1>t DEF Rows
      <3> QED
        BY <1>1, <1>4, <2>1, <3>1
    <2>2. CASE ~(Live(b) /\ Owner[b] = Owner[a])
      <3>1. row'[b] = row[b]
        BY <1>1, <1>4, <2>2
      <3>2. row[b].active => Live(b)
        BY DEF IInv, ActiveIsLive
      <3> QED
        BY <2>2, <3>1, <3>2
    <2> QED
      BY <2>1, <2>2
  <1>5. \A b \in Avatars : Content(b)' = IF b = a THEN {"original"} ELSE Content(b)
    <2>1. Content(a)' = {"original"}
      BY <1>3, ContentIs
    <2>2. \A b \in Avatars : b # a => Content(b)' = Content(b)
      BY <1>2, ContentIs
    <2> QED
      BY <2>1, <2>2
  <1>6. Currents' = {b \in Currents : Owner[b] # Owner[a]} \cup {a}
    <2>1. ~row[a].active
      BY DEF IInv, ActiveIsLive, Live
    <2> QED
      BY <1>3, <1>4, <2>1 DEF Currents
  <1> QED
    BY <1>2, <1>3, <1>5, <1>6 DEF Lives, Contents

\* The transaction of a deletion makes it disappear.
LEMMA LifeDisappear ==
    ASSUME IInv, IInv', NEW a \in Avatars, NEW keys, DeleteWithOutbox(a, keys)
    PROVE  /\ Lives[a] = "live"
           /\ Lives' = [Lives EXCEPT ![a] = "deleted"]
           /\ Currents' = Currents \ {a}
           /\ Contents' = [Contents EXCEPT ![a] = {}]
  <1>t. row \in [Avatars -> Rows]
    BY DEF IInv, TypeInv, TypeOK, StorageTypeOK
  <1>1. row[a].st = "live" /\ row'[a].st = "deleted" /\ row'[a].active = FALSE
    BY <1>t DEF DeleteWithOutbox, Live, Rows
  <1>2. \A b \in Avatars : b # a => row'[b] = row[b]
    BY <1>t DEF DeleteWithOutbox
  <1>3. \A b \in Avatars : Content(b)' = IF b = a THEN {} ELSE Content(b)
    BY <1>1, <1>2, ContentIs
  <1>4. Currents' = Currents \ {a}
    BY <1>1, <1>2 DEF Currents
  <1> QED
    BY <1>1, <1>2, <1>3, <1>4 DEF Lives, Contents

\* Saving the thumbnail keys adds the thumbnails, or adds them once more.
LEMMA LifeGain ==
    ASSUME IInv, IInv', NEW a \in Avatars, UpdateThumbnailS3Keys(a)
    PROVE  /\ Lives[a] = "live"
           /\ Contents' = [Contents EXCEPT ![a] = {"original"} \cup Thumbnails]
           /\ Lives' = Lives /\ Currents' = Currents
  <1>t. row \in [Avatars -> Rows]
    BY DEF IInv, TypeInv, TypeOK, StorageTypeOK
  <1>1. /\ row[a].st = "live" /\ row'[a].st = "live" /\ row'[a].thumbs = Thumbnails
    BY <1>t DEF UpdateThumbnailS3Keys, Live, Rows
  <1>2. row'[a].active = row[a].active
    BY <1>t DEF UpdateThumbnailS3Keys, Rows
  <1>3. \A b \in Avatars : b # a => row'[b] = row[b]
    BY <1>t DEF UpdateThumbnailS3Keys
  <1>4. \A b \in Avatars :
           Content(b)' = IF b = a THEN {"original"} \cup Thumbnails ELSE Content(b)
    BY <1>1, <1>3, ContentIs
  <1>5. Currents' = Currents
    BY <1>2, <1>3 DEF Currents
  <1> QED
    BY <1>1, <1>3, <1>4, <1>5 DEF Lives, Contents

LEMMA LifeStep ==
    IInv /\ IInv' /\ [Next]_vars => [Life!Next]_<<Lives, Currents, Contents>>
  <1> SUFFICES ASSUME IInv, IInv', [Next]_vars
               PROVE  Life!Next \/ (Lives' = Lives /\ Currents' = Currents /\ Contents' = Contents)
    OBVIOUS
  <1> DEFINE Goal == \/ Life!Next
                     \/ Lives' = Lives /\ Currents' = Currents /\ Contents' = Contents
  <1>i. TypeInv /\ RowStep
    BY StorageEffect DEF IInv
  <1>t. row \in [Avatars -> Rows]
    BY <1>i DEF TypeInv, TypeOK, StorageTypeOK
  <1>1. ASSUME NEW a \in Avatars, uploading[a] = "create", CreateWithOutbox(a) PROVE Goal
    <2>1. row[a].st = "none" /\ Lives[a] = "none"
      BY <1>1 DEF IInv, RowsAndEvents, Lives
    <2>2. Life!Appear(a)
      BY <1>1, <2>1, LifeAppear DEF Life!Appear, Lives, Currents, Contents
    <2> QED
      BY <2>2 DEF Life!Next
  <1>2. ASSUME NEW a \in Avatars, NEW keys, DeleteWithOutbox(a, keys) PROVE Goal
    <2>1. Life!Disappear(a)
      BY <1>2, LifeDisappear DEF Life!Disappear, Lives, Currents, Contents
    <2> QED
      BY <2>1 DEF Life!Next
  <1>3. ASSUME NEW a \in Avatars, UpdateThumbnailS3Keys(a) PROVE Goal
    <2>1. Life!GainThumbnails(a)
      BY <1>3, LifeGain DEF Life!GainThumbnails, Lives, Currents, Contents
    <2> QED
      BY <2>1 DEF Life!Next
  <1>4. ASSUME NEW a \in Avatars, NEW s, UpdateProcessingStatus(a, s) PROVE Goal
    <2>1. \A b \in Avatars : row'[b].st = row[b].st /\ row'[b].thumbs = row[b].thumbs
      BY <1>4, <1>t DEF UpdateProcessingStatus, Rows
    <2>2. \A b \in Avatars : row'[b].active = row[b].active
      BY <1>4, <1>t DEF UpdateProcessingStatus, Rows
    <2> QED
      BY <2>1, <2>2, LifeStutter
  <1>5. ASSUME UNCHANGED row PROVE Goal
    BY <1>5, LifeStutter
  <1>6. \A w \in Workers : wpc[w] # "idle" => Subject(w) \in Avatars
    BY <1>i, InHandFacts
  <1> QED
    BY <1>i, <1>1, <1>2, <1>3, <1>4, <1>5, <1>6 DEF RowStep, MarkPublished, Reads

\* Clients see avatars appear whole, gain thumbnails and disappear for good,
\* whatever fails: the pipeline implements the life cycle.
THEOREM Implementation == Spec => ImplementsLifecycle
  <1>1. IInv /\ IInv' /\ [Next]_vars => [Life!Next]_<<Lives, Currents, Contents>>
    BY LifeStep
  <1> QED
    BY Invariance, LifeInit, <1>1, PTL
       DEF Spec, ImplementsLifecycle, Life!Spec, Lives, Currents, Contents
-----------------------------------------------------------------------------
(***************************************************************************)
(* Image requests.                                                         *)
(***************************************************************************)

ReadingOK == reading \in [Readers -> Requests \cup {NoRequest}]

\* A request is about an avatar that has been uploaded.
KnownAvatars ==
    \A r \in Readers : reading[r].at # "idle" => row[reading[r].avatar].st # "none"

ReadInv == IInv /\ ReadingOK /\ KnownAvatars /\ ErrorsOnlyAfterDeletion

LEMMA ReadInvInit == ReadInit => ReadInv
  BY IInvInit DEF ReadInit, ReadInv, ReadingOK, KnownAvatars, ErrorsOnlyAfterDeletion,
                  NoRequest

\* A step of the pipeline leaves requests as they are.
LEMMA PipelineKeepsReads ==
    ASSUME ReadInv, [Next]_vars, UNCHANGED reading PROVE ReadInv'
  <1>1. IInv' /\ ReadingOK'
    BY IInvStep DEF ReadInv, ReadingOK
  <1>2. \A r \in Readers : reading[r].at # "idle" => reading[r].avatar \in Avatars
    BY DEF ReadInv, ReadingOK, Requests, NoRequest
  <1>3. \A a \in Avatars : /\ row[a].st # "none" => row'[a].st # "none"
                           /\ row[a].st = "deleted" => row'[a].st = "deleted"
    BY RowsAge DEF ReadInv, IInv, Origin
  <1> QED
    BY <1>1, <1>2, <1>3 DEF ReadInv, KnownAvatars, ErrorsOnlyAfterDeletion

\* A step of a request leaves the pipeline as it is.
LEMMA ReadKeeps ==
    ASSUME ReadInv, NEW r \in Readers, Read(r) PROVE ReadInv'
  <1>v. UNCHANGED vars
    BY DEF Read
  <1>i. IInv' /\ row' = row /\ objects' = objects
    BY <1>v, IInvStep DEF ReadInv, vars, storageVars
  <1>t. /\ reading \in [Readers -> Requests \cup {NoRequest}]
        /\ reading[r].at # "idle" =>
              /\ reading[r] \in Requests
              /\ reading[r].avatar \in Avatars /\ row[reading[r].avatar].st # "none"
    BY DEF ReadInv, ReadingOK, KnownAvatars, Requests, NoRequest
  <1>g. ASSUME NEW request \in Requests \cup {NoRequest}, Becomes(r, request),
               request.at # "idle" => row[request.avatar].st # "none",
               request.at = "answered" /\ request.answer # "original"
                   => row[request.avatar].st = "deleted"
        PROVE  ReadInv'
    <2>1. reading'[r] = request /\ \A q \in Readers : q # r => reading'[q] = reading[q]
      BY <1>g, <1>t DEF Becomes
    <2>2. ReadingOK'
      BY <1>g, <1>t DEF Becomes, ReadingOK
    <2> QED
      BY <1>g, <1>i, <2>1, <2>2 DEF ReadInv, KnownAvatars, ErrorsOnlyAfterDeletion
  <1>a. ASSUME NEW a \in Avatars, row[a].st # "none",
               Becomes(r, Request("find", a, "none"))
        PROVE  ReadInv'
    BY <1>a, <1>g DEF Request, Requests, Answers
  <1>1. CASE AskById(r)
    BY <1>1, <1>a DEF AskById
  <1>2. CASE AskCurrent(r)
    BY <1>2, <1>a DEF AskCurrent, Live
  <1>n. ASSUME NEW answer \in Answers, Answer(r, answer), reading[r].at # "idle",
               answer # "original" => row[reading[r].avatar].st = "deleted"
        PROVE  ReadInv'
    <2> DEFINE q == [reading[r] EXCEPT !.at = "answered", !.answer = answer]
    <2>1. q \in Requests /\ q.at = "answered" /\ q.answer = answer /\ q.avatar = reading[r].avatar
      BY <1>n, <1>t DEF Requests
    <2>2. Becomes(r, q)
      BY <1>n DEF Answer
    <2> HIDE DEF q
    <2> QED
      BY <1>n, <1>g, <1>t, <2>1, <2>2
  <1>s. \A a \in Avatars : row[a].st \in {"none", "live", "deleted"}
    BY DEF ReadInv, IInv, TypeInv, TypeOK, StorageTypeOK, Rows
  <1>3. CASE Find(r)
    <2>1. CASE Live(reading[r].avatar)
      <3> DEFINE q == [reading[r] EXCEPT !.at = "fetch"]
      <3>1. q \in Requests /\ q.at = "fetch" /\ q.avatar = reading[r].avatar
        BY <1>3, <1>t DEF Find, Requests
      <3>2. Becomes(r, q)
        BY <1>3, <2>1 DEF Find
      <3> HIDE DEF q
      <3> QED
        BY <1>3, <1>g, <1>t, <3>1, <3>2 DEF Find
    <2>2. CASE ~Live(reading[r].avatar)
      <3>1. row[reading[r].avatar].st = "deleted"
        BY <1>3, <1>s, <1>t, <2>2 DEF Find, Live
      <3> QED
        BY <1>3, <1>n, <2>2, <3>1 DEF Find, Answers
    <2> QED
      BY <2>1, <2>2
  <1>4. CASE Fetch(r)
    <2>1. "original" \notin objects[reading[r].avatar] => row[reading[r].avatar].st = "deleted"
      BY <1>4, <1>s, <1>t
         DEF Fetch, ReadInv, IInv, BucketBehindRows, LiveHasOriginal, Live
    <2> QED
      BY <1>4, <1>n, <2>1 DEF Fetch, Answers
  <1>5. CASE NextRequest(r)
    BY <1>5, <1>g DEF NextRequest, NoRequest
  <1> QED
    BY <1>1, <1>2, <1>3, <1>4, <1>5 DEF Read

\* Reading an image fails only if the avatar was deleted in the meantime.
THEOREM ReadsSucceed == ReadSpec => []ErrorsOnlyAfterDeletion
  <1>1. ReadInv /\ [ReadNext]_<<vars, reading>> => ReadInv'
    <2>1. UNCHANGED <<vars, reading>> => [Next]_vars /\ UNCHANGED reading
      OBVIOUS
    <2> QED
      BY <2>1, PipelineKeepsReads, ReadKeeps DEF ReadNext
  <1>2. ReadInv => ErrorsOnlyAfterDeletion
    BY DEF ReadInv
  <1> QED
    BY ReadInvInit, <1>1, <1>2, PTL DEF ReadSpec

\* Image requests change nothing that the pipeline knows of.
LEMMA ReadersOnlyRead == ReadSpec => Spec
  <1>1. ReadInit => Init
    BY DEF ReadInit
  <1>2. [ReadNext]_<<vars, reading>> => [Next]_vars
    BY DEF ReadNext, Read
  <1> QED
    BY <1>1, <1>2, PTL DEF ReadSpec, Spec

\* Clients see an avatar's life as promised while any number of them read it.
THEOREM ImplementationUnderReads == ReadSpec => ImplementsLifecycle
  BY Implementation, ReadersOnlyRead, PTL
=============================================================================
