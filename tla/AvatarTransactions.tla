------------------------- MODULE AvatarTransactions -------------------------
(***************************************************************************)
(* The two transactions of avatar_repository.go statement by statement,    *)
(* beside the worker's single-statement updates, on PostgreSQL at READ     *)
(* COMMITTED.  Each statement sees what is committed when it starts.  An   *)
(* UPDATE locks the rows it writes until its transaction ends; one that    *)
(* finds a row locked waits, then tests its WHERE on the committed row     *)
(* again.  The partial unique index lets a user have one active undeleted  *)
(* row: an INSERT beside such a row fails, one beside a row whose fate a   *)
(* transaction has not decided yet waits for it.                           *)
(*                                                                         *)
(* AvatarStorage takes each transaction as a single step; AreAtomic says   *)
(* that it may.                                                            *)
(***************************************************************************)
EXTENDS AvatarStorage, Faults

CONSTANTS Sessions,     \* connections of the pool
          NoSession,    \* nobody has locked the row
          MaxUpdates    \* bound: how many updates the worker makes

ASSUME SessionsAssumption == NoSession \notin Sessions
ASSUME MaxUpdatesAssumption == MaxUpdates \in Nat

VARIABLES version,      \* newest version of each row, committed or not
          lockedBy,     \* the session whose transaction wrote that version
          at,           \* the next statement of each session
          job,          \* the event its transaction is to write, with its keys
          found,        \* rows the first UPDATE of an upload has selected
          inserted,     \* whether the event was inserted
          updates       \* how many updates the worker has made

sessionVars == <<version, lockedBy, at, job, found, inserted>>
txVars == <<storageVars, sessionVars, updates, faults>>
-----------------------------------------------------------------------------
Jobs  == [event : Events, keys : SUBSET ObjectKeys]
NoJob == [event |-> "none"]

TxTypeOK ==
    /\ StorageTypeOK /\ faults \in 0 .. MaxFaults
    /\ version \in [Avatars -> Rows]
    /\ lockedBy \in [Avatars -> Sessions \cup {NoSession}]
    /\ at \in [Sessions -> {"idle", "retire", "insert", "delete", "event", "commit"}]
    /\ job \in [Sessions -> Jobs \cup {NoJob}]
    /\ found \in [Sessions -> SUBSET Avatars]
    /\ inserted \in [Sessions -> BOOLEAN]
    /\ updates \in 0 .. MaxUpdates

TxInit ==
    /\ StorageInit /\ FaultsInit
    /\ version = row
    /\ lockedBy = [b \in Avatars |-> NoSession]
    /\ at = [s \in Sessions |-> "idle"]
    /\ job = [s \in Sessions |-> NoJob]
    /\ found = [s \in Sessions |-> {}]
    /\ inserted = [s \in Sessions |-> FALSE]
    /\ updates = 0

Active(r) == r.st = "live" /\ r.active

Siblings(a) == {b \in Avatars \ {a} : Owner[b] = Owner[a]}

Unlocked(b) == lockedBy[b] = NoSession

Goes(s, statement) == at' = [at EXCEPT ![s] = statement]

\* What a session has in hand between two transactions: nothing.
Released(s) ==
    /\ lockedBy' = [b \in Avatars |-> IF lockedBy[b] = s THEN NoSession ELSE lockedBy[b]]
    /\ Goes(s, "idle")
    /\ job' = [job EXCEPT ![s] = NoJob]
    /\ found' = [found EXCEPT ![s] = {}]
    /\ inserted' = [inserted EXCEPT ![s] = FALSE]

\* Bug: the error path leaves the transaction open.
RollbackForgotten(s) ==
    /\ Goes(s, "idle")
    /\ job' = [job EXCEPT ![s] = NoJob]
    /\ found' = [found EXCEPT ![s] = {}]
    /\ inserted' = [inserted EXCEPT ![s] = FALSE]
    /\ UNCHANGED <<storageVars, version, lockedBy>>

\* The deferred Rollback of every path that does not commit.
Rollback(s) ==
    /\ version' = [b \in Avatars |-> IF lockedBy[b] = s THEN row[b] ELSE version[b]]
    /\ Released(s)
    /\ UNCHANGED storageVars
-----------------------------------------------------------------------------
(***************************************************************************)
(* CreateWithOutbox.                                                       *)
(***************************************************************************)
\* The id of an upload is fresh.
Fresh(a) == /\ row[a].st = "none"
            /\ \A s \in Sessions : at[s] # "idle" => job[s].event.avatar # a

\* BEGIN, and the UPDATE selects the user's active row.
BeginUpload(s, a) ==
    /\ at[s] = "idle" /\ Fresh(a)
    /\ job' = [job EXCEPT ![s] = [event |-> Upload(a), keys |-> {}]]
    /\ found' = [found EXCEPT ![s] = {b \in Siblings(a) : Active(row[b])}]
    /\ Goes(s, "retire")
    /\ UNCHANGED <<storageVars, version, lockedBy, inserted, faults>>

\* Bug: the previous avatar is not retired.
RetireNothing(s) ==
    /\ at[s] = "retire"
    /\ Goes(s, "insert")
    /\ UNCHANGED <<storageVars, version, lockedBy, job, found, inserted, faults>>

\* Bug: the UPDATE does not test its WHERE clause again once it has the lock.
RetireUnchecked(s) ==
    /\ at[s] = "retire"
    /\ \A b \in found[s] : Unlocked(b)
    /\ version' = [b \in Avatars |-> IF b \in found[s] THEN [row[b] EXCEPT !.active = FALSE]
                                                       ELSE version[b]]
    /\ lockedBy' = [b \in Avatars |-> IF b \in found[s] THEN s ELSE lockedBy[b]]
    /\ Goes(s, "insert")
    /\ UNCHANGED <<storageVars, job, found, inserted, faults>>

\* It waits for whoever holds the row and writes it if it is still active.  Rows
\* that became active after the statement began are not looked at.
Retire(s) ==
    /\ at[s] = "retire"
    /\ \A b \in found[s] : Unlocked(b)
    /\ LET mine == {b \in found[s] : Active(row[b])} IN
         /\ version' = [b \in Avatars |-> IF b \in mine THEN [row[b] EXCEPT !.active = FALSE]
                                                        ELSE version[b]]
         /\ lockedBy' = [b \in Avatars |-> IF b \in mine THEN s ELSE lockedBy[b]]
    /\ Goes(s, "insert")
    /\ UNCHANGED <<storageVars, job, found, inserted, faults>>

\* The unique index, as the session s sees it: another row of the user is active,
\* or may be once the transaction that has written it ends.
Taken(s, a) ==
    \E b \in Siblings(a) : lockedBy[b] \in {NoSession, s} /\ Active(version[b])
InDoubt(s, a) ==
    \E b \in Siblings(a) : lockedBy[b] \notin {NoSession, s}
                              /\ (Active(row[b]) \/ Active(version[b]))

\* Bug: there is no unique index.
InsertAnyway(s) ==
    /\ at[s] = "insert"
    /\ LET a == job[s].event.avatar IN
         /\ version' = [version EXCEPT ![a] = NewRow]
         /\ lockedBy' = [lockedBy EXCEPT ![a] = s]
    /\ Goes(s, "event")
    /\ UNCHANGED <<storageVars, job, found, inserted, faults>>

\* INSERT INTO avatars.
InsertRow(s) ==
    /\ at[s] = "insert"
    /\ LET a == job[s].event.avatar IN
         /\ ~Taken(s, a) /\ ~InDoubt(s, a)
         /\ version' = [version EXCEPT ![a] = NewRow]
         /\ lockedBy' = [lockedBy EXCEPT ![a] = s]
    /\ Goes(s, "event")
    /\ UNCHANGED <<storageVars, job, found, inserted, faults>>

\* ... or the violation of the index ends the transaction.
Refused(s) ==
    /\ at[s] = "insert" /\ Taken(s, job[s].event.avatar)
    /\ Rollback(s)
    /\ UNCHANGED faults
-----------------------------------------------------------------------------
(***************************************************************************)
(* DeleteWithOutbox, and the end of both transactions.                     *)
(***************************************************************************)
\* The service has read the row: GetByID gave it the keys for the event.
BeginDelete(s, a) ==
    /\ at[s] = "idle" /\ Live(a)
    /\ job' = [job EXCEPT ![s] =
           [event |-> Delete(a), keys |-> {"original"} \cup row[a].thumbs]]
    /\ Goes(s, "delete")
    /\ UNCHANGED <<storageVars, version, lockedBy, found, inserted, faults>>

\* Bug: no AND deleted_at IS NULL.
DeleteAnyRow(s) ==
    /\ at[s] = "delete"
    /\ LET a == job[s].event.avatar IN
         /\ Unlocked(a)
         /\ version' = [version EXCEPT ![a] = [row[a] EXCEPT !.st = "deleted", !.active = FALSE]]
         /\ lockedBy' = [lockedBy EXCEPT ![a] = s]
    /\ Goes(s, "event")
    /\ UNCHANGED <<storageVars, job, found, inserted, faults>>

DeleteRow(s) ==
    /\ at[s] = "delete"
    /\ LET a == job[s].event.avatar IN
         /\ Unlocked(a) /\ Live(a)
         /\ version' = [version EXCEPT ![a] = [row[a] EXCEPT !.st = "deleted", !.active = FALSE]]
         /\ lockedBy' = [lockedBy EXCEPT ![a] = s]
    /\ Goes(s, "event")
    /\ UNCHANGED <<storageVars, job, found, inserted, faults>>

\* ErrNoRows: somebody else has deleted the avatar.
NoRowLeft(s) ==
    /\ at[s] = "delete" /\ Unlocked(job[s].event.avatar) /\ ~Live(job[s].event.avatar)
    /\ Rollback(s)
    /\ UNCHANGED faults

\* insertOutboxEvent.
InsertEvent(s) ==
    /\ at[s] = "event"
    /\ inserted' = [inserted EXCEPT ![s] = TRUE]
    /\ Goes(s, "commit")
    /\ UNCHANGED <<storageVars, version, lockedBy, job, found, faults>>

\* Everything the transaction has written becomes visible.
Commit(s) ==
    /\ at[s] = "commit"
    /\ row' = [b \in Avatars |-> IF lockedBy[b] = s THEN version[b] ELSE row[b]]
    /\ LET e == job[s].event IN
         /\ outbox' = IF inserted[s] THEN [outbox EXCEPT ![e] = "pending"] ELSE outbox
         /\ payload' = IF inserted[s] /\ e.kind = "delete"
                       THEN [payload EXCEPT ![e.avatar] = job[s].keys] ELSE payload
    /\ Released(s)
    /\ UNCHANGED <<processed, objects, version, faults>>

\* A statement fails, the request is cancelled or the connection drops.
Abort(s) == at[s] # "idle" /\ Rollback(s) /\ Fault
-----------------------------------------------------------------------------
(***************************************************************************)
(* The worker's UPDATEs commit on their own; they wait for the lock too.   *)
(***************************************************************************)
Autocommit(a) ==
    /\ Unlocked(a)
    /\ updates < MaxUpdates /\ updates' = updates + 1
    /\ \/ \E status \in {"processing", "completed"} : UpdateProcessingStatus(a, status)
       \/ UpdateThumbnailS3Keys(a)
    /\ version' = [version EXCEPT ![a] = row'[a]]
    /\ UNCHANGED <<lockedBy, at, job, found, inserted, faults>>

Proceed(s) == Retire(s) \/ InsertRow(s) \/ Refused(s) \/ DeleteRow(s) \/ NoRowLeft(s)
                 \/ InsertEvent(s) \/ Commit(s)

Transact(s) == Proceed(s) \/ Abort(s)
                  \/ \E a \in Avatars : BeginUpload(s, a) \/ BeginDelete(s, a)

TxNext ==
    \/ \E s \in Sessions : Transact(s) /\ UNCHANGED updates
    \/ \E a \in Avatars : Autocommit(a)

TxSpec == TxInit /\ [][TxNext]_txVars

\* The database carries out the next statement of every transaction.
TxFairSpec == TxSpec /\ \A s \in Sessions : WF_txVars(Proceed(s) /\ UNCHANGED updates)
-----------------------------------------------------------------------------
(***************************************************************************)
(* Why the steps may be taken as atomic: the inductive invariant.          *)
(***************************************************************************)
\* A row nobody has locked has no uncommitted version.
CleanIfUnlocked == \A b \in Avatars : Unlocked(b) => version[b] = row[b]

\* What the transaction of session s may have written into row b.
Writes(s, b) ==
    LET e == job[s].event IN
      \/ /\ e.kind = "upload" /\ b = e.avatar /\ at[s] \in {"event", "commit"}
         /\ row[b].st = "none" /\ version[b] = NewRow
      \/ /\ e.kind = "upload" /\ b \in Siblings(e.avatar)
         /\ at[s] \in {"insert", "event", "commit"}
         /\ Active(row[b]) /\ version[b] = [row[b] EXCEPT !.active = FALSE]
      \/ /\ e.kind = "delete" /\ b = e.avatar /\ at[s] \in {"event", "commit"}
         /\ Live(b) /\ version[b] = [row[b] EXCEPT !.st = "deleted", !.active = FALSE]

LocksExplained == \A s \in Sessions, b \in Avatars : lockedBy[b] = s => Writes(s, b)

\* A transaction that inserts a row is the only one to do so for its user, and
\* has retired every row the index could object to.
Inserting(s) == at[s] \in {"event", "commit"} /\ job[s].event.kind = "upload"

InsertsAlone ==
    /\ \A s \in Sessions : Inserting(s) =>
          \A b \in Siblings(job[s].event.avatar) : Active(row[b]) => lockedBy[b] = s
    /\ \A s, t \in Sessions : Inserting(s) /\ Inserting(t)
          /\ Owner[job[s].event.avatar] = Owner[job[t].event.avatar] => s = t

\* Where a session is tells what it has read and locked.
SessionSound(s) ==
    LET e == job[s].event IN
      /\ at[s] # "idle" => job[s] \in Jobs
      /\ at[s] \in {"retire", "insert"} =>
            /\ e.kind = "upload"
            /\ \A b \in found[s] : b \in Siblings(e.avatar) /\ row[b].st # "none"
      /\ at[s] = "insert" => \A b \in found[s] : Active(row[b]) => lockedBy[b] = s
      /\ at[s] = "delete" => e.kind = "delete"
      /\ at[s] \in {"event", "commit"} => lockedBy[e.avatar] = s
      /\ at[s] # "idle" => (row[e.avatar].st = "none" <=> e.kind = "upload")
      /\ inserted[s] <=> at[s] = "commit"

UploadsDiffer ==
    \A s, t \in Sessions :
        /\ at[s] # "idle" /\ at[t] # "idle"
        /\ job[s].event.kind = "upload" /\ job[s].event.avatar = job[t].event.avatar
        => s = t

OneActiveRow ==
    /\ \A b \in Avatars : row[b].active => Live(b)
    /\ \A a, b \in Avatars : Active(row[a]) /\ Active(row[b]) /\ Owner[a] = Owner[b] => a = b

\* The locks of READ COMMITTED and the partial index together: a row changes
\* only under its lock, and at most one transaction per user is past its INSERT.
TxInv ==
    /\ TxTypeOK /\ CleanIfUnlocked /\ LocksExplained /\ InsertsAlone
    /\ \A s \in Sessions : SessionSound(s)
    /\ UploadsDiffer /\ OneActiveRow
-----------------------------------------------------------------------------
\* What AvatarStorage lets these callers do to the tables of an avatar.
StorageStep(a) ==
    \/ CreateWithOutbox(a)
    \/ \E keys \in SUBSET ObjectKeys : DeleteWithOutbox(a, keys)
    \/ \E status \in Statuses : UpdateProcessingStatus(a, status)
    \/ UpdateThumbnailS3Keys(a)

\* Whatever statements of several requests and of the worker fall between each
\* other, the committed tables change as if every transaction were one step: the
\* steps AvatarStorage gives the rest of the model.
AreAtomic == [][\E a \in Avatars : StorageStep(a)]_storageVars

\* The unique index refuses an upload only if another avatar of the user has
\* become active since the upload looked, and a refused upload had retired
\* nobody: uploads one after the other never meet the index.
RefusedOnlyByRival ==
    \A s \in Sessions :
        at[s] = "insert" /\ Taken(s, job[s].event.avatar) =>
            /\ \E b \in Siblings(job[s].event.avatar) : Active(row[b]) /\ b \notin found[s]
            /\ \A b \in Avatars : lockedBy[b] # s

\* The next statement of a session stands still until somebody else's transaction
\* ends.
Waits(s) ==
    \/ at[s] = "retire" /\ \E b \in found[s] : ~Unlocked(b)
    \/ LET a == job[s].event.avatar IN
         \/ at[s] = "insert" /\ ~Taken(s, a) /\ InDoubt(s, a)
         \/ at[s] = "delete" /\ ~Unlocked(a)

\* A request that waits for a row or at the unique index holds nothing another
\* one could wait for, although an upload has retired a row when it meets the
\* index: so transactions never wait for each other in a circle, however many
\* there are.
WaitersHoldNothing == \A s \in Sessions : Waits(s) => \A b \in Avatars : lockedBy[b] # s

\* No order of statements makes transactions wait for each other in a circle:
\* each ends, by itself or refused.
TransactionsEnd == \A s \in Sessions : at[s] # "idle" ~> at[s] = "idle"
=============================================================================
