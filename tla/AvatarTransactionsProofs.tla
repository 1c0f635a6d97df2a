----------------------- MODULE AvatarTransactionsProofs -----------------------
(***************************************************************************)
(* Why AvatarStorage may take the two transactions as single steps: TxInv  *)
(* is inductive, and under it a commit has exactly the effect of the       *)
(* atomic operator, whatever has happened since the transaction began.     *)
(***************************************************************************)
EXTENDS AvatarTransactions, TLAPS

LEMMA InitTx == TxInit => TxInv
  <1> SUFFICES ASSUME TxInit PROVE TxInv
    OBVIOUS
  <1> USE DEF TxInit, StorageInit, FaultsInit
  <1>1. TxTypeOK
    BY MaxFaultsAssumption, MaxUpdatesAssumption DEF TxTypeOK, StorageTypeOK, Rows, NoRow, Statuses, Thumbnails
  <1>2. CleanIfUnlocked /\ LocksExplained
    BY SessionsAssumption DEF CleanIfUnlocked, LocksExplained
  <1>3. InsertsAlone /\ UploadsDiffer
    BY DEF InsertsAlone, Inserting, UploadsDiffer
  <1>4. \A s \in Sessions : SessionSound(s)
    BY DEF SessionSound
  <1>5. OneActiveRow
    BY DEF OneActiveRow, Active, NoRow, Live
  <1> QED BY <1>1, <1>2, <1>3, <1>4, <1>5 DEF TxInv

LEMMA RowEdits ==
    /\ NewRow \in Rows
    /\ \A r \in Rows : /\ [r EXCEPT !.active = FALSE] \in Rows
                       /\ [r EXCEPT !.st = "deleted", !.active = FALSE] \in Rows
                       /\ [r EXCEPT !.thumbs = Thumbnails] \in Rows
                       /\ \A status \in Statuses : [r EXCEPT !.status = status] \in Rows
  BY DEF NewRow, Rows, Statuses

\* What a session has written it has still written when neither it nor the row
\* has moved.
LEMMA WritesFrame ==
    ASSUME NEW t \in Sessions, NEW b \in Avatars, Writes(t, b),
           at'[t] = at[t], job'[t] = job[t], row'[b] = row[b], version'[b] = version[b]
    PROVE  Writes(t, b)'
  BY DEF Writes, Siblings, Active, Live

\* A step of another session leaves a session sound when it takes no lock away,
\* makes no old row active and does not create the row of its avatar.
LEMMA SoundFrame ==
    ASSUME NEW t \in Sessions, SessionSound(t),
           at'[t] = at[t], job'[t] = job[t], found'[t] = found[t], inserted'[t] = inserted[t],
           \A b \in Avatars : lockedBy[b] = t => lockedBy'[b] = t,
           \A b \in Avatars : row[b].st # "none" =>
                 row'[b].st # "none" /\ (Active(row'[b]) => Active(row[b])),
           at[t] # "idle" => (row'[job[t].event.avatar].st = "none"
                                <=> row[job[t].event.avatar].st = "none")
    PROVE  SessionSound(t)'
  BY DEF SessionSound, Siblings, Jobs, Events

LEMMA HoldsNothing ==
    ASSUME LocksExplained, NEW s \in Sessions, at[s] \in {"idle", "retire", "delete"}
    PROVE  \A b \in Avatars : lockedBy[b] # s
  BY DEF LocksExplained, Writes
-----------------------------------------------------------------------------
LEMMA BeginUploadKeeps ==
    ASSUME TxInv, NEW s \in Sessions, NEW a \in Avatars, BeginUpload(s, a), UNCHANGED updates
    PROVE  TxInv'
  <1> USE SessionsAssumption DEF Active, Siblings
  <1>1. /\ row \in [Avatars -> Rows] /\ version \in [Avatars -> Rows]
        /\ lockedBy \in [Avatars -> Sessions \cup {NoSession}]
    BY DEF TxInv, TxTypeOK, StorageTypeOK
  <1>2. /\ CleanIfUnlocked /\ LocksExplained /\ InsertsAlone /\ UploadsDiffer /\ OneActiveRow
        /\ \A t \in Sessions : SessionSound(t)
    BY DEF TxInv
  <1>3. \A t \in Sessions \ {s} : /\ at'[t] = at[t] /\ job'[t] = job[t]
                                   /\ found'[t] = found[t] /\ inserted'[t] = inserted[t]
    BY DEF TxInv, TxTypeOK, Goes, BeginUpload, Fresh
  <1>4. /\ at[s] = "idle" /\ at'[s] = "retire" /\ job'[s] \in Jobs
      /\ job'[s].event = Upload(a) /\ job'[s].event.kind = "upload" /\ job'[s].event.avatar = a
      /\ found'[s] = {b \in Siblings(a) : Active(row[b])} /\ inserted'[s] = inserted[s]
      /\ row[a].st = "none"
    BY DEF TxInv, TxTypeOK, StorageTypeOK, Goes, Upload, Delete, Jobs, Events, ObjectKeys, Rows, Live, BeginUpload, Fresh
  <1>5. UNCHANGED <<row, version, lockedBy>>
    BY <1>1 DEF TxInv, TxTypeOK, StorageTypeOK, storageVars, Goes, Unlocked, Live, Rows, BeginUpload, Fresh
  <1>6. TxTypeOK'
    <2>1. version' \in [Avatars -> Rows] /\ lockedBy' \in [Avatars -> Sessions \cup {NoSession}]
      BY <1>1, RowEdits DEF TxInv, TxTypeOK, StorageTypeOK, Unlocked, BeginUpload, Fresh
    <2>2. row' \in [Avatars -> Rows]
      BY <1>1, RowEdits DEF TxInv, TxTypeOK, StorageTypeOK, storageVars, BeginUpload, Fresh
    <2>3. at' \in [Sessions -> {"idle", "retire", "insert", "delete", "event", "commit"}]
      BY DEF TxInv, TxTypeOK, Goes, BeginUpload, Fresh
    <2>4. job' \in [Sessions -> Jobs \cup {NoJob}]
      BY DEF TxInv, TxTypeOK, Jobs, Events, Upload, Delete, ObjectKeys, Rows, StorageTypeOK, BeginUpload, Fresh
    <2> QED BY <2>1, <2>2, <2>3, <2>4 DEF TxInv, TxTypeOK, StorageTypeOK, storageVars, BeginUpload, Fresh
  <1>7. CleanIfUnlocked'
    BY <1>1, <1>2, <1>5 DEF CleanIfUnlocked, Unlocked
  <1>8. LocksExplained'
    <2> SUFFICES ASSUME NEW t \in Sessions, NEW b \in Avatars, lockedBy'[b] = t
                 PROVE  Writes(t, b)'
      BY DEF LocksExplained
    <2>1. CASE t # s
      <3>1. lockedBy[b] = t /\ row'[b] = row[b] /\ version'[b] = version[b]
        BY <1>1, <1>5, <2>1
      <3>2. Writes(t, b)
        BY <1>2, <3>1 DEF LocksExplained
      <3> QED BY <1>3, <2>1, <3>1, <3>2, WritesFrame
    <2>2. CASE t = s
      BY <1>2, <1>4, <1>5, <2>2, HoldsNothing
    <2> QED BY <2>1, <2>2
  <1>9. InsertsAlone'
    <2>1. ASSUME NEW t \in Sessions, Inserting(t)', NEW b \in Siblings(job'[t].event.avatar), Active(row'[b])
          PROVE  lockedBy'[b] = t
      <3>1. CASE t # s
        <4>1. Inserting(t) /\ job'[t] = job[t]
          BY <1>3, <2>1, <3>1 DEF Inserting
        <4>2. Active(row[b])
          BY <1>5, <2>1
        <4>3. lockedBy[b] = t
          BY <1>2, <2>1, <4>1, <4>2 DEF InsertsAlone
        <4> QED BY <1>5, <3>1, <4>3
      <3>2. CASE t = s
        BY <1>1, <1>2, <1>4, <1>5, <2>1, <3>2 DEF InsertsAlone, Inserting, LocksExplained, Writes, SessionSound, Jobs, Events, Taken, InDoubt
      <3> QED BY <3>1, <3>2
    <2>2. ASSUME NEW t \in Sessions, NEW u \in Sessions, Inserting(t)', Inserting(u)',
                 Owner[job'[t].event.avatar] = Owner[job'[u].event.avatar]
          PROVE  t = u
      BY <1>1, <1>2, <1>3, <1>4, <1>5, <2>2 DEF InsertsAlone, Inserting, SessionSound, Jobs, Events
    <2> QED BY <2>1, <2>2 DEF InsertsAlone
  <1>10. \A t \in Sessions : SessionSound(t)'
    <2> SUFFICES ASSUME NEW t \in Sessions PROVE SessionSound(t)'
      OBVIOUS
    <2>1. CASE t # s
      <3>1. SessionSound(t)
        BY <1>2
      <3>2. \A b \in Avatars : lockedBy[b] = t => lockedBy'[b] = t
        BY <1>1, <1>5, <2>1
      <3>3. \A b \in Avatars : row[b].st # "none" =>
               row'[b].st # "none" /\ (Active(row'[b]) => Active(row[b]))
        BY <1>5
      <3>4. at[t] # "idle" => (row'[job[t].event.avatar].st = "none"
                                <=> row[job[t].event.avatar].st = "none")
        BY <1>5
      <3> QED BY <1>3, <2>1, <3>1, <3>2, <3>3, <3>4, SoundFrame
    <2>2. CASE t = s
      BY <1>1, <1>2, <1>4, <1>5, <2>2 DEF SessionSound, Jobs, Events
    <2> QED BY <2>1, <2>2
  <1>11. UploadsDiffer'
    BY <1>2, <1>3, <1>4 DEF UploadsDiffer, SessionSound, BeginUpload, Fresh
  <1>12. OneActiveRow'
    BY <1>1, <1>2, <1>5 DEF OneActiveRow, Live, Rows
  <1> QED BY <1>6, <1>7, <1>8, <1>9, <1>10, <1>11, <1>12 DEF TxInv
-----------------------------------------------------------------------------
LEMMA BeginDeleteKeeps ==
    ASSUME TxInv, NEW s \in Sessions, NEW a \in Avatars, BeginDelete(s, a), UNCHANGED updates
    PROVE  TxInv'
  <1> USE SessionsAssumption DEF Active, Siblings
  <1>1. /\ row \in [Avatars -> Rows] /\ version \in [Avatars -> Rows]
        /\ lockedBy \in [Avatars -> Sessions \cup {NoSession}]
    BY DEF TxInv, TxTypeOK, StorageTypeOK
  <1>2. /\ CleanIfUnlocked /\ LocksExplained /\ InsertsAlone /\ UploadsDiffer /\ OneActiveRow
        /\ \A t \in Sessions : SessionSound(t)
    BY DEF TxInv
  <1>3. \A t \in Sessions \ {s} : /\ at'[t] = at[t] /\ job'[t] = job[t]
                                   /\ found'[t] = found[t] /\ inserted'[t] = inserted[t]
    BY DEF TxInv, TxTypeOK, Goes, BeginDelete
  <1>4. /\ at[s] = "idle" /\ at'[s] = "delete" /\ job'[s] \in Jobs
      /\ job'[s].event.kind = "delete" /\ job'[s].event.avatar = a
      /\ inserted'[s] = inserted[s] /\ row[a].st = "live"
    BY DEF TxInv, TxTypeOK, StorageTypeOK, Goes, Upload, Delete, Jobs, Events, ObjectKeys, Rows, Live, BeginDelete
  <1>5. UNCHANGED <<row, version, lockedBy>>
    BY <1>1 DEF TxInv, TxTypeOK, StorageTypeOK, storageVars, Goes, Unlocked, Live, Rows, BeginDelete
  <1>6. TxTypeOK'
    <2>1. version' \in [Avatars -> Rows] /\ lockedBy' \in [Avatars -> Sessions \cup {NoSession}]
      BY <1>1, RowEdits DEF TxInv, TxTypeOK, StorageTypeOK, Unlocked, BeginDelete
    <2>2. row' \in [Avatars -> Rows]
      BY <1>1, RowEdits DEF TxInv, TxTypeOK, StorageTypeOK, storageVars, BeginDelete
    <2>3. at' \in [Sessions -> {"idle", "retire", "insert", "delete", "event", "commit"}]
      BY DEF TxInv, TxTypeOK, Goes, BeginDelete
    <2>4. job' \in [Sessions -> Jobs \cup {NoJob}]
      BY DEF TxInv, TxTypeOK, Jobs, Events, Upload, Delete, ObjectKeys, Rows, StorageTypeOK, BeginDelete
    <2> QED BY <2>1, <2>2, <2>3, <2>4 DEF TxInv, TxTypeOK, StorageTypeOK, storageVars, BeginDelete
  <1>7. CleanIfUnlocked'
    BY <1>1, <1>2, <1>5 DEF CleanIfUnlocked, Unlocked
  <1>8. LocksExplained'
    <2> SUFFICES ASSUME NEW t \in Sessions, NEW b \in Avatars, lockedBy'[b] = t
                 PROVE  Writes(t, b)'
      BY DEF LocksExplained
    <2>1. CASE t # s
      <3>1. lockedBy[b] = t /\ row'[b] = row[b] /\ version'[b] = version[b]
        BY <1>1, <1>5, <2>1
      <3>2. Writes(t, b)
        BY <1>2, <3>1 DEF LocksExplained
      <3> QED BY <1>3, <2>1, <3>1, <3>2, WritesFrame
    <2>2. CASE t = s
      BY <1>2, <1>4, <1>5, <2>2, HoldsNothing
    <2> QED BY <2>1, <2>2
  <1>9. InsertsAlone'
    <2>1. ASSUME NEW t \in Sessions, Inserting(t)', NEW b \in Siblings(job'[t].event.avatar), Active(row'[b])
          PROVE  lockedBy'[b] = t
      <3>1. CASE t # s
        <4>1. Inserting(t) /\ job'[t] = job[t]
          BY <1>3, <2>1, <3>1 DEF Inserting
        <4>2. Active(row[b])
          BY <1>5, <2>1
        <4>3. lockedBy[b] = t
          BY <1>2, <2>1, <4>1, <4>2 DEF InsertsAlone
        <4> QED BY <1>5, <3>1, <4>3
      <3>2. CASE t = s
        BY <1>1, <1>2, <1>4, <1>5, <2>1, <3>2 DEF InsertsAlone, Inserting, LocksExplained, Writes, SessionSound, Jobs, Events, Taken, InDoubt
      <3> QED BY <3>1, <3>2
    <2>2. ASSUME NEW t \in Sessions, NEW u \in Sessions, Inserting(t)', Inserting(u)',
                 Owner[job'[t].event.avatar] = Owner[job'[u].event.avatar]
          PROVE  t = u
      BY <1>1, <1>2, <1>3, <1>4, <1>5, <2>2 DEF InsertsAlone, Inserting, SessionSound, Jobs, Events
    <2> QED BY <2>1, <2>2 DEF InsertsAlone
  <1>10. \A t \in Sessions : SessionSound(t)'
    <2> SUFFICES ASSUME NEW t \in Sessions PROVE SessionSound(t)'
      OBVIOUS
    <2>1. CASE t # s
      <3>1. SessionSound(t)
        BY <1>2
      <3>2. \A b \in Avatars : lockedBy[b] = t => lockedBy'[b] = t
        BY <1>1, <1>5, <2>1
      <3>3. \A b \in Avatars : row[b].st # "none" =>
               row'[b].st # "none" /\ (Active(row'[b]) => Active(row[b]))
        BY <1>5
      <3>4. at[t] # "idle" => (row'[job[t].event.avatar].st = "none"
                                <=> row[job[t].event.avatar].st = "none")
        BY <1>5
      <3> QED BY <1>3, <2>1, <3>1, <3>2, <3>3, <3>4, SoundFrame
    <2>2. CASE t = s
      BY <1>1, <1>2, <1>4, <1>5, <2>2 DEF SessionSound, Jobs, Events
    <2> QED BY <2>1, <2>2
  <1>11. UploadsDiffer'
    BY <1>2, <1>3, <1>4 DEF UploadsDiffer, SessionSound
  <1>12. OneActiveRow'
    BY <1>1, <1>2, <1>5 DEF OneActiveRow, Live, Rows
  <1> QED BY <1>6, <1>7, <1>8, <1>9, <1>10, <1>11, <1>12 DEF TxInv
-----------------------------------------------------------------------------
LEMMA InsertEventKeeps ==
    ASSUME TxInv, NEW s \in Sessions, InsertEvent(s), UNCHANGED updates
    PROVE  TxInv'
  <1> USE SessionsAssumption DEF Active, Siblings
  <1>1. /\ row \in [Avatars -> Rows] /\ version \in [Avatars -> Rows]
        /\ lockedBy \in [Avatars -> Sessions \cup {NoSession}]
    BY DEF TxInv, TxTypeOK, StorageTypeOK
  <1>2. /\ CleanIfUnlocked /\ LocksExplained /\ InsertsAlone /\ UploadsDiffer /\ OneActiveRow
        /\ \A t \in Sessions : SessionSound(t)
    BY DEF TxInv
  <1>3. \A t \in Sessions \ {s} : /\ at'[t] = at[t] /\ job'[t] = job[t]
                                   /\ found'[t] = found[t] /\ inserted'[t] = inserted[t]
    BY DEF TxInv, TxTypeOK, Goes, InsertEvent
  <1>4. /\ at[s] = "event" /\ at'[s] = "commit" /\ job'[s] = job[s] /\ found'[s] = found[s]
      /\ inserted'[s] = TRUE
    BY DEF TxInv, TxTypeOK, StorageTypeOK, Goes, Upload, Delete, Jobs, Events, ObjectKeys, Rows, Live, InsertEvent
  <1>5. UNCHANGED <<row, version, lockedBy>>
    BY <1>1 DEF TxInv, TxTypeOK, StorageTypeOK, storageVars, Goes, Unlocked, Live, Rows, InsertEvent
  <1>6. TxTypeOK'
    <2>1. version' \in [Avatars -> Rows] /\ lockedBy' \in [Avatars -> Sessions \cup {NoSession}]
      BY <1>1, RowEdits DEF TxInv, TxTypeOK, StorageTypeOK, Unlocked, InsertEvent
    <2>2. row' \in [Avatars -> Rows]
      BY <1>1, RowEdits DEF TxInv, TxTypeOK, StorageTypeOK, storageVars, InsertEvent
    <2>3. at' \in [Sessions -> {"idle", "retire", "insert", "delete", "event", "commit"}]
      BY DEF TxInv, TxTypeOK, Goes, InsertEvent
    <2>4. job' \in [Sessions -> Jobs \cup {NoJob}]
      BY DEF TxInv, TxTypeOK, Jobs, Events, Upload, Delete, ObjectKeys, Rows, StorageTypeOK, InsertEvent
    <2> QED BY <2>1, <2>2, <2>3, <2>4 DEF TxInv, TxTypeOK, StorageTypeOK, storageVars, InsertEvent
  <1>7. CleanIfUnlocked'
    BY <1>1, <1>2, <1>5 DEF CleanIfUnlocked, Unlocked
  <1>8. LocksExplained'
    <2> SUFFICES ASSUME NEW t \in Sessions, NEW b \in Avatars, lockedBy'[b] = t
                 PROVE  Writes(t, b)'
      BY DEF LocksExplained
    <2>1. CASE t # s
      <3>1. lockedBy[b] = t /\ row'[b] = row[b] /\ version'[b] = version[b]
        BY <1>1, <1>5, <2>1
      <3>2. Writes(t, b)
        BY <1>2, <3>1 DEF LocksExplained
      <3> QED BY <1>3, <2>1, <3>1, <3>2, WritesFrame
    <2>2. CASE t = s
      <3>1. Writes(s, b)
        BY <1>2, <1>5, <2>2 DEF LocksExplained
      <3> QED BY <1>4, <1>5, <2>2, <3>1 DEF Writes, Live
    <2> QED BY <2>1, <2>2
  <1>9. InsertsAlone'
    <2>1. ASSUME NEW t \in Sessions, Inserting(t)', NEW b \in Siblings(job'[t].event.avatar), Active(row'[b])
          PROVE  lockedBy'[b] = t
      <3>1. CASE t # s
        <4>1. Inserting(t) /\ job'[t] = job[t]
          BY <1>3, <2>1, <3>1 DEF Inserting
        <4>2. Active(row[b])
          BY <1>5, <2>1
        <4>3. lockedBy[b] = t
          BY <1>2, <2>1, <4>1, <4>2 DEF InsertsAlone
        <4> QED BY <1>5, <3>1, <4>3
      <3>2. CASE t = s
        <4>1. Inserting(s) /\ job'[s] = job[s]
          BY <1>4, <2>1, <3>2 DEF Inserting
        <4> QED BY <1>2, <1>5, <2>1, <3>2, <4>1 DEF InsertsAlone
      <3> QED BY <3>1, <3>2
    <2>2. ASSUME NEW t \in Sessions, NEW u \in Sessions, Inserting(t)', Inserting(u)',
                 Owner[job'[t].event.avatar] = Owner[job'[u].event.avatar]
          PROVE  t = u
      BY <1>1, <1>2, <1>3, <1>4, <1>5, <2>2 DEF InsertsAlone, Inserting, SessionSound, Jobs, Events
    <2> QED BY <2>1, <2>2 DEF InsertsAlone
  <1>10. \A t \in Sessions : SessionSound(t)'
    <2> SUFFICES ASSUME NEW t \in Sessions PROVE SessionSound(t)'
      OBVIOUS
    <2>1. CASE t # s
      <3>1. SessionSound(t)
        BY <1>2
      <3>2. \A b \in Avatars : lockedBy[b] = t => lockedBy'[b] = t
        BY <1>1, <1>5, <2>1
      <3>3. \A b \in Avatars : row[b].st # "none" =>
               row'[b].st # "none" /\ (Active(row'[b]) => Active(row[b]))
        BY <1>5
      <3>4. at[t] # "idle" => (row'[job[t].event.avatar].st = "none"
                                <=> row[job[t].event.avatar].st = "none")
        BY <1>5
      <3> QED BY <1>3, <2>1, <3>1, <3>2, <3>3, <3>4, SoundFrame
    <2>2. CASE t = s
      BY <1>1, <1>2, <1>4, <1>5, <2>2 DEF SessionSound, Jobs, Events
    <2> QED BY <2>1, <2>2
  <1>11. UploadsDiffer'
    BY <1>2, <1>3, <1>4 DEF UploadsDiffer, SessionSound
  <1>12. OneActiveRow'
    BY <1>1, <1>2, <1>5 DEF OneActiveRow, Live, Rows
  <1> QED BY <1>6, <1>7, <1>8, <1>9, <1>10, <1>11, <1>12 DEF TxInv
-----------------------------------------------------------------------------
LEMMA RetireKeeps ==
    ASSUME TxInv, NEW s \in Sessions, Retire(s), UNCHANGED updates
    PROVE  TxInv'
  <1> USE SessionsAssumption DEF Active, Siblings
  <1>1. /\ row \in [Avatars -> Rows] /\ version \in [Avatars -> Rows]
        /\ lockedBy \in [Avatars -> Sessions \cup {NoSession}]
    BY DEF TxInv, TxTypeOK, StorageTypeOK
  <1>2. /\ CleanIfUnlocked /\ LocksExplained /\ InsertsAlone /\ UploadsDiffer /\ OneActiveRow
        /\ \A t \in Sessions : SessionSound(t)
    BY DEF TxInv
  <1>3. \A t \in Sessions \ {s} : /\ at'[t] = at[t] /\ job'[t] = job[t]
                                   /\ found'[t] = found[t] /\ inserted'[t] = inserted[t]
    BY DEF TxInv, TxTypeOK, Goes, Retire
  <1>4. /\ at[s] = "retire" /\ at'[s] = "insert" /\ job'[s] = job[s] /\ found'[s] = found[s]
      /\ inserted'[s] = inserted[s]
    BY DEF TxInv, TxTypeOK, StorageTypeOK, Goes, Upload, Delete, Jobs, Events, ObjectKeys, Rows, Live, Retire
  <1>5. /\ row' = row /\ \A b \in found[s] : lockedBy[b] = NoSession
      /\ \A b \in Avatars : IF b \in found[s] /\ Active(row[b])
            THEN lockedBy'[b] = s /\ version'[b] = [row[b] EXCEPT !.active = FALSE]
            ELSE lockedBy'[b] = lockedBy[b] /\ version'[b] = version[b]
    BY <1>1 DEF TxInv, TxTypeOK, StorageTypeOK, storageVars, Goes, Unlocked, Live, Rows, Retire
  <1>6. TxTypeOK'
    <2>1. version' \in [Avatars -> Rows] /\ lockedBy' \in [Avatars -> Sessions \cup {NoSession}]
      BY <1>1, RowEdits DEF TxInv, TxTypeOK, StorageTypeOK, Unlocked, Retire
    <2>2. row' \in [Avatars -> Rows]
      BY <1>1, RowEdits DEF TxInv, TxTypeOK, StorageTypeOK, storageVars, Retire
    <2>3. at' \in [Sessions -> {"idle", "retire", "insert", "delete", "event", "commit"}]
      BY DEF TxInv, TxTypeOK, Goes, Retire
    <2>4. job' \in [Sessions -> Jobs \cup {NoJob}]
      BY DEF TxInv, TxTypeOK, Jobs, Events, Upload, Delete, ObjectKeys, Rows, StorageTypeOK, Retire
    <2> QED BY <2>1, <2>2, <2>3, <2>4 DEF TxInv, TxTypeOK, StorageTypeOK, storageVars, Retire
  <1>7. CleanIfUnlocked'
    BY <1>1, <1>2, <1>5 DEF CleanIfUnlocked, Unlocked
  <1>8. LocksExplained'
    <2> SUFFICES ASSUME NEW t \in Sessions, NEW b \in Avatars, lockedBy'[b] = t
                 PROVE  Writes(t, b)'
      BY DEF LocksExplained
    <2>1. CASE t # s
      <3>1. lockedBy[b] = t /\ row'[b] = row[b] /\ version'[b] = version[b]
        BY <1>1, <1>5, <2>1
      <3>2. Writes(t, b)
        BY <1>2, <3>1 DEF LocksExplained
      <3> QED BY <1>3, <2>1, <3>1, <3>2, WritesFrame
    <2>2. CASE t = s
      <3>1. lockedBy[b] # s
        BY <1>2, <1>4, HoldsNothing
      <3>2. /\ b \in found[s] /\ Active(row[b])
            /\ version'[b] = [row[b] EXCEPT !.active = FALSE] /\ row'[b] = row[b]
        BY <1>5, <2>2, <3>1
      <3>3. job[s].event.kind = "upload" /\ b \in Siblings(job[s].event.avatar)
        BY <1>2, <1>4, <3>2 DEF SessionSound
      <3> QED BY <1>4, <2>2, <3>2, <3>3 DEF Writes
    <2> QED BY <2>1, <2>2
  <1>9. InsertsAlone'
    <2>1. ASSUME NEW t \in Sessions, Inserting(t)', NEW b \in Siblings(job'[t].event.avatar), Active(row'[b])
          PROVE  lockedBy'[b] = t
      <3>1. CASE t # s
        <4>1. Inserting(t) /\ job'[t] = job[t]
          BY <1>3, <2>1, <3>1 DEF Inserting
        <4>2. Active(row[b])
          BY <1>5, <2>1
        <4>3. lockedBy[b] = t
          BY <1>2, <2>1, <4>1, <4>2 DEF InsertsAlone
        <4> QED BY <1>5, <3>1, <4>3
      <3>2. CASE t = s
        BY <1>1, <1>2, <1>4, <1>5, <2>1, <3>2 DEF InsertsAlone, Inserting, LocksExplained, Writes, SessionSound, Jobs, Events, Taken, InDoubt
      <3> QED BY <3>1, <3>2
    <2>2. ASSUME NEW t \in Sessions, NEW u \in Sessions, Inserting(t)', Inserting(u)',
                 Owner[job'[t].event.avatar] = Owner[job'[u].event.avatar]
          PROVE  t = u
      BY <1>1, <1>2, <1>3, <1>4, <1>5, <2>2 DEF InsertsAlone, Inserting, SessionSound, Jobs, Events
    <2> QED BY <2>1, <2>2 DEF InsertsAlone
  <1>10. \A t \in Sessions : SessionSound(t)'
    <2> SUFFICES ASSUME NEW t \in Sessions PROVE SessionSound(t)'
      OBVIOUS
    <2>1. CASE t # s
      <3>1. SessionSound(t)
        BY <1>2
      <3>2. \A b \in Avatars : lockedBy[b] = t => lockedBy'[b] = t
        BY <1>1, <1>5, <2>1
      <3>3. \A b \in Avatars : row[b].st # "none" =>
               row'[b].st # "none" /\ (Active(row'[b]) => Active(row[b]))
        BY <1>5
      <3>4. at[t] # "idle" => (row'[job[t].event.avatar].st = "none"
                                <=> row[job[t].event.avatar].st = "none")
        BY <1>5
      <3> QED BY <1>3, <2>1, <3>1, <3>2, <3>3, <3>4, SoundFrame
    <2>2. CASE t = s
      <3>1. SessionSound(s)
        BY <1>2
      <3>2. job[s].event.avatar \in Avatars
        BY <1>4, <3>1 DEF SessionSound, Jobs, Events
      <3>3. \A b \in found[s] : b \in Avatars
        BY <1>4, <3>1 DEF SessionSound
      <3> QED BY <1>4, <1>5, <2>2, <3>1, <3>2, <3>3 DEF SessionSound
    <2> QED BY <2>1, <2>2
  <1>11. UploadsDiffer'
    BY <1>2, <1>3, <1>4 DEF UploadsDiffer, SessionSound
  <1>12. OneActiveRow'
    BY <1>1, <1>2, <1>5 DEF OneActiveRow, Live, Rows
  <1> QED BY <1>6, <1>7, <1>8, <1>9, <1>10, <1>11, <1>12 DEF TxInv
-----------------------------------------------------------------------------
LEMMA InsertRowKeeps ==
    ASSUME TxInv, NEW s \in Sessions, InsertRow(s), UNCHANGED updates
    PROVE  TxInv'
  <1> USE SessionsAssumption DEF Active, Siblings
  <1>1. /\ row \in [Avatars -> Rows] /\ version \in [Avatars -> Rows]
        /\ lockedBy \in [Avatars -> Sessions \cup {NoSession}]
    BY DEF TxInv, TxTypeOK, StorageTypeOK
  <1>2. /\ CleanIfUnlocked /\ LocksExplained /\ InsertsAlone /\ UploadsDiffer /\ OneActiveRow
        /\ \A t \in Sessions : SessionSound(t)
    BY DEF TxInv
  <1>3. \A t \in Sessions \ {s} : /\ at'[t] = at[t] /\ job'[t] = job[t]
                                   /\ found'[t] = found[t] /\ inserted'[t] = inserted[t]
    BY DEF TxInv, TxTypeOK, Goes, InsertRow
  <1>4. /\ at[s] = "insert" /\ at'[s] = "event" /\ job'[s] = job[s] /\ found'[s] = found[s]
      /\ inserted'[s] = inserted[s]
    BY DEF TxInv, TxTypeOK, StorageTypeOK, Goes, Upload, Delete, Jobs, Events, ObjectKeys, Rows, Live, InsertRow
  <1>5. /\ row' = row /\ ~Taken(s, job[s].event.avatar) /\ ~InDoubt(s, job[s].event.avatar)
      /\ \A b \in Avatars : IF b = job[s].event.avatar
            THEN lockedBy'[b] = s /\ version'[b] = NewRow
            ELSE lockedBy'[b] = lockedBy[b] /\ version'[b] = version[b]
    BY <1>1 DEF TxInv, TxTypeOK, StorageTypeOK, storageVars, Goes, Unlocked, Live, Rows, InsertRow
  <1> DEFINE a == job[s].event.avatar
  <1>a. a \in Avatars /\ job[s].event.kind = "upload" /\ row[a].st = "none"
    BY <1>2, <1>4 DEF SessionSound, Jobs, Events
  <1>b. lockedBy[a] = NoSession
    <2> SUFFICES ASSUME NEW t \in Sessions, lockedBy[a] = t PROVE FALSE
      BY <1>1, <1>a
    <2>1. Writes(t, a)
      BY <1>2, <1>a DEF LocksExplained
    <2>2. job[t].event.kind = "upload" /\ a = job[t].event.avatar /\ at[t] \in {"event", "commit"}
      BY <1>a, <2>1 DEF Writes, Live
    <2> QED BY <1>2, <1>4, <1>a, <2>2 DEF UploadsDiffer
  <1>c. \A b \in Siblings(a) : Active(row[b]) => lockedBy[b] = s
    BY <1>1, <1>2, <1>5 DEF Taken, InDoubt, CleanIfUnlocked, Unlocked
  <1>d. \A t \in Sessions \ {s} : Inserting(t) => Owner[job[t].event.avatar] # Owner[a]
    <2> SUFFICES ASSUME NEW t \in Sessions \ {s}, Inserting(t),
                        Owner[job[t].event.avatar] = Owner[a]
                 PROVE  FALSE
      OBVIOUS
    <2>1. job[t].event.avatar \in Avatars /\ lockedBy[job[t].event.avatar] = t
      BY <1>2 DEF SessionSound, Inserting, Jobs, Events
    <2>2. job[t].event.avatar \in Siblings(a)
      BY <1>b, <2>1, SessionsAssumption
    <2>3. Writes(t, job[t].event.avatar)
      BY <1>2, <2>1 DEF LocksExplained
    <2>4. version[job[t].event.avatar] = NewRow
      BY <2>3 DEF Writes, Inserting, Live
    <2> QED BY <1>5, <2>1, <2>2, <2>4 DEF InDoubt, NewRow
  <1>6. TxTypeOK'
    <2>1. version' \in [Avatars -> Rows] /\ lockedBy' \in [Avatars -> Sessions \cup {NoSession}]
      BY <1>1, RowEdits DEF TxInv, TxTypeOK, StorageTypeOK, Unlocked, InsertRow
    <2>2. row' \in [Avatars -> Rows]
      BY <1>1, RowEdits DEF TxInv, TxTypeOK, StorageTypeOK, storageVars, InsertRow
    <2>3. at' \in [Sessions -> {"idle", "retire", "insert", "delete", "event", "commit"}]
      BY DEF TxInv, TxTypeOK, Goes, InsertRow
    <2>4. job' \in [Sessions -> Jobs \cup {NoJob}]
      BY DEF TxInv, TxTypeOK, Jobs, Events, Upload, Delete, ObjectKeys, Rows, StorageTypeOK, InsertRow
    <2> QED BY <2>1, <2>2, <2>3, <2>4 DEF TxInv, TxTypeOK, StorageTypeOK, storageVars, InsertRow
  <1>7. CleanIfUnlocked'
    BY <1>1, <1>2, <1>5 DEF CleanIfUnlocked, Unlocked
  <1>8. LocksExplained'
    <2> SUFFICES ASSUME NEW t \in Sessions, NEW b \in Avatars, lockedBy'[b] = t
                 PROVE  Writes(t, b)'
      BY DEF LocksExplained
    <2>1. CASE t # s
      <3>1. lockedBy[b] = t /\ row'[b] = row[b] /\ version'[b] = version[b]
        BY <1>1, <1>5, <2>1
      <3>2. Writes(t, b)
        BY <1>2, <3>1 DEF LocksExplained
      <3> QED BY <1>3, <2>1, <3>1, <3>2, WritesFrame
    <2>2. CASE t = s
      <3>1. CASE b = a
        BY <1>4, <1>5, <1>a, <2>2, <3>1 DEF Writes
      <3>2. CASE b # a
        <4>1. lockedBy[b] = s /\ row'[b] = row[b] /\ version'[b] = version[b]
          BY <1>5, <2>2, <3>2
        <4>2. Writes(s, b)
          BY <1>2, <4>1 DEF LocksExplained
        <4> QED BY <1>4, <2>2, <4>1, <4>2 DEF Writes
      <3> QED BY <3>1, <3>2
    <2> QED BY <2>1, <2>2
  <1>9. InsertsAlone'
    <2>1. ASSUME NEW t \in Sessions, Inserting(t)', NEW b \in Siblings(job'[t].event.avatar), Active(row'[b])
          PROVE  lockedBy'[b] = t
      <3>1. CASE t # s
        <4>1. Inserting(t) /\ job'[t] = job[t]
          BY <1>3, <2>1, <3>1 DEF Inserting
        <4>2. Active(row[b])
          BY <1>5, <2>1
        <4>3. lockedBy[b] = t /\ b \in Avatars
          BY <1>2, <2>1, <4>1, <4>2 DEF InsertsAlone
        <4> QED BY <1>5, <1>b, <3>1, <4>3
      <3>2. CASE t = s
        BY <1>4, <1>5, <1>c, <2>1, <3>2
      <3> QED BY <3>1, <3>2
    <2>2. ASSUME NEW t \in Sessions, NEW u \in Sessions, Inserting(t)', Inserting(u)',
                 Owner[job'[t].event.avatar] = Owner[job'[u].event.avatar]
          PROVE  t = u
      <3>1. CASE t # s /\ u # s
        BY <1>2, <1>3, <2>2, <3>1 DEF InsertsAlone, Inserting
      <3>2. CASE t = s /\ u # s
        BY <1>3, <1>4, <1>d, <2>2, <3>2 DEF Inserting
      <3>3. CASE t # s /\ u = s
        BY <1>3, <1>4, <1>d, <2>2, <3>3 DEF Inserting
      <3> QED BY <3>1, <3>2, <3>3
    <2> QED BY <2>1, <2>2 DEF InsertsAlone
  <1>10. \A t \in Sessions : SessionSound(t)'
    <2> SUFFICES ASSUME NEW t \in Sessions PROVE SessionSound(t)'
      OBVIOUS
    <2>1. CASE t # s
      <3>1. SessionSound(t)
        BY <1>2
      <3>2. \A b \in Avatars : lockedBy[b] = t => lockedBy'[b] = t
        BY <1>1, <1>5, <1>b, <2>1
      <3>3. \A b \in Avatars : row[b].st # "none" =>
               row'[b].st # "none" /\ (Active(row'[b]) => Active(row[b]))
        BY <1>5
      <3>4. at[t] # "idle" => (row'[job[t].event.avatar].st = "none"
                                <=> row[job[t].event.avatar].st = "none")
        BY <1>5
      <3> QED BY <1>3, <2>1, <3>1, <3>2, <3>3, <3>4, SoundFrame
    <2>2. CASE t = s
      BY <1>1, <1>2, <1>4, <1>5, <2>2 DEF SessionSound, Jobs, Events
    <2> QED BY <2>1, <2>2
  <1>11. UploadsDiffer'
    BY <1>2, <1>3, <1>4 DEF UploadsDiffer, SessionSound
  <1>12. OneActiveRow'
    BY <1>1, <1>2, <1>5 DEF OneActiveRow, Live, Rows
  <1> QED BY <1>6, <1>7, <1>8, <1>9, <1>10, <1>11, <1>12 DEF TxInv
-----------------------------------------------------------------------------
LEMMA DeleteRowKeeps ==
    ASSUME TxInv, NEW s \in Sessions, DeleteRow(s), UNCHANGED updates
    PROVE  TxInv'
  <1> USE SessionsAssumption DEF Active, Siblings
  <1>1. /\ row \in [Avatars -> Rows] /\ version \in [Avatars -> Rows]
        /\ lockedBy \in [Avatars -> Sessions \cup {NoSession}]
    BY DEF TxInv, TxTypeOK, StorageTypeOK
  <1>2. /\ CleanIfUnlocked /\ LocksExplained /\ InsertsAlone /\ UploadsDiffer /\ OneActiveRow
        /\ \A t \in Sessions : SessionSound(t)
    BY DEF TxInv
  <1>3. \A t \in Sessions \ {s} : /\ at'[t] = at[t] /\ job'[t] = job[t]
                                   /\ found'[t] = found[t] /\ inserted'[t] = inserted[t]
    BY DEF TxInv, TxTypeOK, Goes, DeleteRow
  <1>4. /\ at[s] = "delete" /\ at'[s] = "event" /\ job'[s] = job[s] /\ found'[s] = found[s]
      /\ inserted'[s] = inserted[s]
    BY DEF TxInv, TxTypeOK, StorageTypeOK, Goes, Upload, Delete, Jobs, Events, ObjectKeys, Rows, Live, DeleteRow
  <1>5. /\ row' = row
      /\ lockedBy[job[s].event.avatar] = NoSession /\ row[job[s].event.avatar].st = "live"
      /\ \A b \in Avatars : IF b = job[s].event.avatar
            THEN lockedBy'[b] = s /\ version'[b] = [row[b] EXCEPT !.st = "deleted", !.active = FALSE]
            ELSE lockedBy'[b] = lockedBy[b] /\ version'[b] = version[b]
    BY <1>1 DEF TxInv, TxTypeOK, StorageTypeOK, storageVars, Goes, Unlocked, Live, Rows, DeleteRow
  <1>6. TxTypeOK'
    <2>1. version' \in [Avatars -> Rows] /\ lockedBy' \in [Avatars -> Sessions \cup {NoSession}]
      BY <1>1, RowEdits DEF TxInv, TxTypeOK, StorageTypeOK, Unlocked, DeleteRow
    <2>2. row' \in [Avatars -> Rows]
      BY <1>1, RowEdits DEF TxInv, TxTypeOK, StorageTypeOK, storageVars, DeleteRow
    <2>3. at' \in [Sessions -> {"idle", "retire", "insert", "delete", "event", "commit"}]
      BY DEF TxInv, TxTypeOK, Goes, DeleteRow
    <2>4. job' \in [Sessions -> Jobs \cup {NoJob}]
      BY DEF TxInv, TxTypeOK, Jobs, Events, Upload, Delete, ObjectKeys, Rows, StorageTypeOK, DeleteRow
    <2> QED BY <2>1, <2>2, <2>3, <2>4 DEF TxInv, TxTypeOK, StorageTypeOK, storageVars, DeleteRow
  <1>7. CleanIfUnlocked'
    BY <1>1, <1>2, <1>5 DEF CleanIfUnlocked, Unlocked
  <1>8. LocksExplained'
    <2> SUFFICES ASSUME NEW t \in Sessions, NEW b \in Avatars, lockedBy'[b] = t
                 PROVE  Writes(t, b)'
      BY DEF LocksExplained
    <2>1. CASE t # s
      <3>1. lockedBy[b] = t /\ row'[b] = row[b] /\ version'[b] = version[b]
        BY <1>1, <1>5, <2>1
      <3>2. Writes(t, b)
        BY <1>2, <3>1 DEF LocksExplained
      <3> QED BY <1>3, <2>1, <3>1, <3>2, WritesFrame
    <2>2. CASE t = s
      <3>1. job[s].event.kind = "delete"
        BY <1>2, <1>4 DEF SessionSound
      <3>2. lockedBy[b] # s
        BY <1>2, <1>4, HoldsNothing
      <3>3. b = job[s].event.avatar
        BY <1>5, <2>2, <3>2
      <3>4. /\ job'[s] = job[s] /\ at'[s] = "event" /\ row'[b] = row[b] /\ Live(b)
            /\ version'[b] = [row[b] EXCEPT !.st = "deleted", !.active = FALSE]
        BY <1>4, <1>5, <3>3 DEF Live
      <3> QED BY <2>2, <3>1, <3>3, <3>4 DEF Writes, Live
    <2> QED BY <2>1, <2>2
  <1>9. InsertsAlone'
    <2>1. ASSUME NEW t \in Sessions, Inserting(t)', NEW b \in Siblings(job'[t].event.avatar), Active(row'[b])
          PROVE  lockedBy'[b] = t
      <3>1. CASE t # s
        <4>1. Inserting(t) /\ job'[t] = job[t]
          BY <1>3, <2>1, <3>1 DEF Inserting
        <4>2. Active(row[b])
          BY <1>5, <2>1
        <4>3. lockedBy[b] = t
          BY <1>2, <2>1, <4>1, <4>2 DEF InsertsAlone
        <4> QED BY <1>5, <3>1, <4>3
      <3>2. CASE t = s
        BY <1>1, <1>2, <1>4, <1>5, <2>1, <3>2 DEF InsertsAlone, Inserting, LocksExplained, Writes, SessionSound, Jobs, Events, Taken, InDoubt
      <3> QED BY <3>1, <3>2
    <2>2. ASSUME NEW t \in Sessions, NEW u \in Sessions, Inserting(t)', Inserting(u)',
                 Owner[job'[t].event.avatar] = Owner[job'[u].event.avatar]
          PROVE  t = u
      <3>1. job[s].event.kind = "delete"
        BY <1>2, <1>4 DEF SessionSound
      <3>2. t # s /\ u # s
        BY <1>4, <2>2, <3>1 DEF Inserting
      <3> QED BY <1>2, <1>3, <2>2, <3>2 DEF InsertsAlone, Inserting
    <2> QED BY <2>1, <2>2 DEF InsertsAlone
  <1>10. \A t \in Sessions : SessionSound(t)'
    <2> SUFFICES ASSUME NEW t \in Sessions PROVE SessionSound(t)'
      OBVIOUS
    <2>1. CASE t # s
      <3>1. SessionSound(t)
        BY <1>2
      <3>2. \A b \in Avatars : lockedBy[b] = t => lockedBy'[b] = t
        BY <1>1, <1>5, <2>1
      <3>3. \A b \in Avatars : row[b].st # "none" =>
               row'[b].st # "none" /\ (Active(row'[b]) => Active(row[b]))
        BY <1>5
      <3>4. at[t] # "idle" => (row'[job[t].event.avatar].st = "none"
                                <=> row[job[t].event.avatar].st = "none")
        BY <1>5
      <3> QED BY <1>3, <2>1, <3>1, <3>2, <3>3, <3>4, SoundFrame
    <2>2. CASE t = s
      BY <1>1, <1>2, <1>4, <1>5, <2>2 DEF SessionSound, Jobs, Events
    <2> QED BY <2>1, <2>2
  <1>11. UploadsDiffer'
    BY <1>2, <1>3, <1>4 DEF UploadsDiffer, SessionSound
  <1>12. OneActiveRow'
    BY <1>1, <1>2, <1>5 DEF OneActiveRow, Live, Rows
  <1> QED BY <1>6, <1>7, <1>8, <1>9, <1>10, <1>11, <1>12 DEF TxInv
-----------------------------------------------------------------------------
LEMMA RollbackKeeps ==
    ASSUME TxInv, NEW s \in Sessions, at[s] # "idle", Rollback(s), UNCHANGED updates, NoFault \/ Fault
    PROVE  TxInv'
  <1> USE SessionsAssumption DEF Active, Siblings
  <1>1. /\ row \in [Avatars -> Rows] /\ version \in [Avatars -> Rows]
        /\ lockedBy \in [Avatars -> Sessions \cup {NoSession}]
    BY DEF TxInv, TxTypeOK, StorageTypeOK
  <1>2. /\ CleanIfUnlocked /\ LocksExplained /\ InsertsAlone /\ UploadsDiffer /\ OneActiveRow
        /\ \A t \in Sessions : SessionSound(t)
    BY DEF TxInv
  <1>3. \A t \in Sessions \ {s} : /\ at'[t] = at[t] /\ job'[t] = job[t]
                                   /\ found'[t] = found[t] /\ inserted'[t] = inserted[t]
    BY DEF TxInv, TxTypeOK, Goes, Rollback, Released, NoFault, Fault
  <1>4. /\ at'[s] = "idle" /\ found'[s] = {} /\ inserted'[s] = FALSE /\ job'[s] = NoJob
    BY DEF TxInv, TxTypeOK, StorageTypeOK, Goes, Upload, Delete, Jobs, Events, ObjectKeys, Rows, Live, Rollback, Released, NoFault, Fault
  <1>5. /\ row' = row
      /\ \A b \in Avatars : IF lockedBy[b] = s
            THEN lockedBy'[b] = NoSession /\ version'[b] = row[b]
            ELSE lockedBy'[b] = lockedBy[b] /\ version'[b] = version[b]
    BY <1>1 DEF TxInv, TxTypeOK, StorageTypeOK, storageVars, Goes, Unlocked, Live, Rows, Rollback, Released, NoFault, Fault
  <1>6. TxTypeOK'
    <2>1. version' \in [Avatars -> Rows] /\ lockedBy' \in [Avatars -> Sessions \cup {NoSession}]
      BY <1>1, RowEdits DEF TxInv, TxTypeOK, StorageTypeOK, Unlocked, Rollback, Released, NoFault, Fault
    <2>2. row' \in [Avatars -> Rows]
      BY <1>1, RowEdits DEF TxInv, TxTypeOK, StorageTypeOK, storageVars, Rollback, Released, NoFault, Fault
    <2>3. at' \in [Sessions -> {"idle", "retire", "insert", "delete", "event", "commit"}]
      BY DEF TxInv, TxTypeOK, Goes, Rollback, Released, NoFault, Fault
    <2>4. job' \in [Sessions -> Jobs \cup {NoJob}]
      BY DEF TxInv, TxTypeOK, Rollback, Released
    <2>5. faults' \in 0 .. MaxFaults
      BY MaxFaultsAssumption DEF TxInv, TxTypeOK, NoFault, Fault
    <2> QED BY <2>1, <2>2, <2>3, <2>4, <2>5 DEF TxInv, TxTypeOK, StorageTypeOK, storageVars, Rollback, Released
  <1>7. CleanIfUnlocked'
    BY <1>1, <1>2, <1>5 DEF CleanIfUnlocked, Unlocked
  <1>8. LocksExplained'
    <2> SUFFICES ASSUME NEW t \in Sessions, NEW b \in Avatars, lockedBy'[b] = t
                 PROVE  Writes(t, b)'
      BY DEF LocksExplained
    <2>1. CASE t # s
      <3>1. lockedBy[b] = t /\ row'[b] = row[b] /\ version'[b] = version[b]
        BY <1>1, <1>5, <2>1
      <3>2. Writes(t, b)
        BY <1>2, <3>1 DEF LocksExplained
      <3> QED BY <1>3, <2>1, <3>1, <3>2, WritesFrame
    <2>2. CASE t = s
      BY <1>1, <1>5, <2>2
    <2> QED BY <2>1, <2>2
  <1>9. InsertsAlone'
    <2>1. ASSUME NEW t \in Sessions, Inserting(t)', NEW b \in Siblings(job'[t].event.avatar), Active(row'[b])
          PROVE  lockedBy'[b] = t
      <3>1. CASE t # s
        <4>1. Inserting(t) /\ job'[t] = job[t]
          BY <1>3, <2>1, <3>1 DEF Inserting
        <4>2. Active(row[b])
          BY <1>5, <2>1
        <4>3. lockedBy[b] = t
          BY <1>2, <2>1, <4>1, <4>2 DEF InsertsAlone
        <4> QED BY <1>5, <3>1, <4>3
      <3>2. CASE t = s
        BY <1>1, <1>2, <1>4, <1>5, <2>1, <3>2 DEF InsertsAlone, Inserting, LocksExplained, Writes, SessionSound, Jobs, Events, Taken, InDoubt
      <3> QED BY <3>1, <3>2
    <2>2. ASSUME NEW t \in Sessions, NEW u \in Sessions, Inserting(t)', Inserting(u)',
                 Owner[job'[t].event.avatar] = Owner[job'[u].event.avatar]
          PROVE  t = u
      BY <1>1, <1>2, <1>3, <1>4, <1>5, <2>2 DEF InsertsAlone, Inserting, SessionSound, Jobs, Events
    <2> QED BY <2>1, <2>2 DEF InsertsAlone
  <1>10. \A t \in Sessions : SessionSound(t)'
    <2> SUFFICES ASSUME NEW t \in Sessions PROVE SessionSound(t)'
      OBVIOUS
    <2>1. CASE t # s
      <3>1. SessionSound(t)
        BY <1>2
      <3>2. \A b \in Avatars : lockedBy[b] = t => lockedBy'[b] = t
        BY <1>1, <1>5, <2>1
      <3>3. \A b \in Avatars : row[b].st # "none" =>
               row'[b].st # "none" /\ (Active(row'[b]) => Active(row[b]))
        BY <1>5
      <3>4. at[t] # "idle" => (row'[job[t].event.avatar].st = "none"
                                <=> row[job[t].event.avatar].st = "none")
        BY <1>5
      <3> QED BY <1>3, <2>1, <3>1, <3>2, <3>3, <3>4, SoundFrame
    <2>2. CASE t = s
      BY <1>1, <1>2, <1>4, <1>5, <2>2 DEF SessionSound, Jobs, Events
    <2> QED BY <2>1, <2>2
  <1>11. UploadsDiffer'
    BY <1>2, <1>3, <1>4 DEF UploadsDiffer, SessionSound
  <1>12. OneActiveRow'
    BY <1>1, <1>2, <1>5 DEF OneActiveRow, Live, Rows
  <1> QED BY <1>6, <1>7, <1>8, <1>9, <1>10, <1>11, <1>12 DEF TxInv
-----------------------------------------------------------------------------
LEMMA CommitRows ==
    ASSUME TxInv, NEW s \in Sessions, Commit(s)
    PROVE  LET a == job[s].event.avatar IN
             /\ a \in Avatars /\ job[s] \in Jobs /\ inserted[s]
             /\ \/ /\ job[s].event.kind = "upload" /\ row[a].st = "none" /\ row'[a] = NewRow
                   /\ \A b \in Avatars \ {a} :
                         IF b \in Siblings(a) /\ Active(row[b])
                         THEN row'[b] = [row[b] EXCEPT !.active = FALSE]
                         ELSE row'[b] = row[b]
                \/ /\ job[s].event.kind = "delete" /\ Live(a)
                   /\ row'[a] = [row[a] EXCEPT !.st = "deleted", !.active = FALSE]
                   /\ \A b \in Avatars \ {a} : row'[b] = row[b]
  <1> DEFINE a == job[s].event.avatar
  <1>1. at[s] = "commit" /\ SessionSound(s) /\ InsertsAlone
    BY DEF Commit, TxInv
  <1>2. a \in Avatars /\ job[s] \in Jobs /\ inserted[s] /\ lockedBy[a] = s
    BY <1>1 DEF SessionSound, Jobs, Events
  <1>3. \A b \in Avatars : lockedBy[b] = s => Writes(s, b) /\ row'[b] = version[b]
    BY DEF TxInv, LocksExplained, Commit
  <1>4. \A b \in Avatars : lockedBy[b] # s => row'[b] = row[b]
    BY DEF Commit
  <1>5. CASE job[s].event.kind = "upload"
    <2>1. row[a].st = "none" /\ row'[a] = NewRow
      <3>1. Writes(s, a) /\ row'[a] = version[a]
        BY <1>2, <1>3
      <3>2. a \notin Siblings(a)
        BY DEF Siblings
      <3> QED BY <1>5, <3>1, <3>2 DEF Writes
    <2>2. ASSUME NEW b \in Siblings(a), Active(row[b])
          PROVE  row'[b] = [row[b] EXCEPT !.active = FALSE]
      <3>1. b \in Avatars \ {a} /\ lockedBy[b] = s
        BY <1>1, <1>5, <2>2 DEF InsertsAlone, Inserting, Siblings
      <3> QED BY <1>3, <1>5, <3>1 DEF Writes
    <2>3. ASSUME NEW b \in Avatars \ {a}, ~(b \in Siblings(a) /\ Active(row[b]))
          PROVE  row'[b] = row[b]
      BY <1>3, <1>4, <1>5, <2>3 DEF Writes
    <2> QED BY <1>2, <1>5, <2>1, <2>2, <2>3
  <1>6. CASE job[s].event.kind = "delete"
    <2>1. \A b \in Avatars : lockedBy[b] = s =>
             /\ b = a /\ Live(b)
             /\ row'[b] = [row[b] EXCEPT !.st = "deleted", !.active = FALSE]
      BY <1>3, <1>6 DEF Writes
    <2> QED BY <1>2, <1>4, <1>6, <2>1
  <1> QED BY <1>2, <1>5, <1>6 DEF Jobs, Events
-----------------------------------------------------------------------------
LEMMA CommitKeeps ==
    ASSUME TxInv, NEW s \in Sessions, Commit(s), UNCHANGED updates
    PROVE  TxInv'
  <1> USE SessionsAssumption DEF Active, Siblings
  <1>1. /\ row \in [Avatars -> Rows] /\ version \in [Avatars -> Rows]
        /\ lockedBy \in [Avatars -> Sessions \cup {NoSession}]
    BY DEF TxInv, TxTypeOK, StorageTypeOK
  <1>2. /\ CleanIfUnlocked /\ LocksExplained /\ InsertsAlone /\ UploadsDiffer /\ OneActiveRow
        /\ \A t \in Sessions : SessionSound(t)
    BY DEF TxInv
  <1>3. \A t \in Sessions \ {s} : /\ at'[t] = at[t] /\ job'[t] = job[t]
                                   /\ found'[t] = found[t] /\ inserted'[t] = inserted[t]
    BY DEF TxInv, TxTypeOK, Goes, Commit, Released
  <1>4. /\ at[s] = "commit" /\ at'[s] = "idle" /\ found'[s] = {} /\ inserted'[s] = FALSE
      /\ job'[s] = NoJob
    BY DEF TxInv, TxTypeOK, StorageTypeOK, Goes, Upload, Delete, Jobs, Events, ObjectKeys, Rows, Live, Commit, Released
  <1>5. /\ version' = version
      /\ \A b \in Avatars : IF lockedBy[b] = s
            THEN lockedBy'[b] = NoSession /\ row'[b] = version[b]
            ELSE lockedBy'[b] = lockedBy[b] /\ row'[b] = row[b]
    BY <1>1 DEF TxInv, TxTypeOK, StorageTypeOK, storageVars, Goes, Unlocked, Live, Rows, Commit, Released
  <1> DEFINE a == job[s].event.avatar
  <1>a. a \in Avatars /\ job[s] \in Jobs /\ SessionSound(s)
    BY <1>2, CommitRows
  <1>d. ASSUME NEW b \in Avatars, b # a
        PROVE  row'[b] = row[b] \/ row'[b] = [row[b] EXCEPT !.active = FALSE]
    <2>1. b \in Avatars \ {a}
      BY <1>d
    <2>2. CASE job[s].event.kind = "upload"
      BY <2>1, <2>2, CommitRows
    <2>3. CASE job[s].event.kind = "delete"
      BY <2>1, <2>3, CommitRows
    <2> QED BY <2>2, <2>3, CommitRows
  <1>b. \A b \in Avatars : row[b].st # "none" =>
            row'[b].st # "none" /\ (Active(row'[b]) => Active(row[b]))
    <2> SUFFICES ASSUME NEW b \in Avatars, row[b].st # "none"
                 PROVE  row'[b].st # "none" /\ (Active(row'[b]) => Active(row[b]))
      OBVIOUS
    <2>1. CASE b = a
      <3>1. row'[b] = [row[b] EXCEPT !.st = "deleted", !.active = FALSE]
        BY <2>1, CommitRows
      <3>2. row'[b].st = "deleted"
        BY <1>1, <3>1 DEF Rows
      <3> QED BY <3>2
    <2>2. CASE b # a
      <3>1. row'[b] = row[b] \/ row'[b] = [row[b] EXCEPT !.active = FALSE]
        BY <1>d, <2>2
      <3>2. /\ [row[b] EXCEPT !.active = FALSE].st = row[b].st
            /\ ~[row[b] EXCEPT !.active = FALSE].active
        BY <1>1 DEF Rows
      <3> QED BY <3>1, <3>2
    <2> QED BY <2>1, <2>2
  <1>c. \A b \in Avatars : row[b].st = "none" /\ row'[b].st # "none" =>
            b = a /\ job[s].event.kind = "upload"
    <2> SUFFICES ASSUME NEW b \in Avatars, row[b].st = "none", row'[b].st # "none"
                 PROVE  b = a /\ job[s].event.kind = "upload"
      OBVIOUS
    <2>2. CASE b # a
      <3>1. \/ row'[b] = row[b]
            \/ row'[b] = [row[b] EXCEPT !.active = FALSE]
        BY <1>d, <2>2
      <3>2. [row[b] EXCEPT !.active = FALSE].st = row[b].st
        BY <1>1 DEF Rows
      <3> QED BY <3>1, <3>2
    <2>3. CASE b = a
      BY <2>3, CommitRows DEF Live
    <2> QED BY <2>2, <2>3
  <1>6. TxTypeOK'
    <2>1. version' \in [Avatars -> Rows] /\ lockedBy' \in [Avatars -> Sessions \cup {NoSession}]
      BY <1>1, RowEdits DEF TxInv, TxTypeOK, StorageTypeOK, Unlocked, Commit, Released
    <2>2. row' \in [Avatars -> Rows]
      BY <1>1, RowEdits DEF TxInv, TxTypeOK, StorageTypeOK, storageVars, Commit, Released
    <2>3. at' \in [Sessions -> {"idle", "retire", "insert", "delete", "event", "commit"}]
      BY DEF TxInv, TxTypeOK, Goes, Commit, Released
    <2>4. job' \in [Sessions -> Jobs \cup {NoJob}]
      BY DEF TxInv, TxTypeOK, Commit, Released
    <2>5. job[s].event \in Events /\ job[s].event.avatar \in Avatars /\ job[s].keys \in SUBSET ObjectKeys
      BY <1>a DEF Jobs, Events
    <2>6. outbox' \in [Events -> {"none", "pending", "published"}] /\ payload' \in [Avatars -> SUBSET ObjectKeys]
      BY <2>5 DEF TxInv, TxTypeOK, StorageTypeOK, Commit
    <2> QED BY <2>1, <2>2, <2>3, <2>4, <2>6 DEF TxInv, TxTypeOK, StorageTypeOK, Commit, Released
  <1>7. CleanIfUnlocked'
    BY <1>1, <1>2, <1>5 DEF CleanIfUnlocked, Unlocked
  <1>8. LocksExplained'
    <2> SUFFICES ASSUME NEW t \in Sessions, NEW b \in Avatars, lockedBy'[b] = t
                 PROVE  Writes(t, b)'
      BY DEF LocksExplained
    <2>1. CASE t # s
      <3>1. lockedBy[b] = t /\ row'[b] = row[b] /\ version'[b] = version[b]
        BY <1>1, <1>5, <2>1
      <3>2. Writes(t, b)
        BY <1>2, <3>1 DEF LocksExplained
      <3> QED BY <1>3, <2>1, <3>1, <3>2, WritesFrame
    <2>2. CASE t = s
      BY <1>1, <1>5, <2>2
    <2> QED BY <2>1, <2>2
  <1>9. InsertsAlone'
    <2>1. ASSUME NEW t \in Sessions, Inserting(t)', NEW b \in Siblings(job'[t].event.avatar), Active(row'[b])
          PROVE  lockedBy'[b] = t
      <3>1. CASE t # s
        <4>1. Inserting(t) /\ job'[t] = job[t]
          BY <1>3, <2>1, <3>1 DEF Inserting
        <4>2. Active(row[b])
          <5>1. b \in Avatars /\ Owner[b] = Owner[job[t].event.avatar]
            BY <1>3, <2>1, <3>1
          <5>2. row[b].st = "none" => Inserting(s) /\ b = a
            BY <1>4, <1>c, <2>1, <5>1 DEF Inserting
          <5>3. row[b].st # "none"
            BY <1>2, <3>1, <4>1, <5>1, <5>2 DEF InsertsAlone
          <5> QED BY <1>b, <2>1, <5>1, <5>3
        <4>3. lockedBy[b] = t
          BY <1>2, <2>1, <4>1, <4>2 DEF InsertsAlone
        <4> QED BY <1>5, <3>1, <4>3
      <3>2. CASE t = s
        BY <1>1, <1>2, <1>4, <1>5, <2>1, <3>2 DEF InsertsAlone, Inserting, LocksExplained, Writes, SessionSound, Jobs, Events, Taken, InDoubt
      <3> QED BY <3>1, <3>2
    <2>2. ASSUME NEW t \in Sessions, NEW u \in Sessions, Inserting(t)', Inserting(u)',
                 Owner[job'[t].event.avatar] = Owner[job'[u].event.avatar]
          PROVE  t = u
      BY <1>1, <1>2, <1>3, <1>4, <1>5, <2>2 DEF InsertsAlone, Inserting, SessionSound, Jobs, Events
    <2> QED BY <2>1, <2>2 DEF InsertsAlone
  <1>10. \A t \in Sessions : SessionSound(t)'
    <2> SUFFICES ASSUME NEW t \in Sessions PROVE SessionSound(t)'
      OBVIOUS
    <2>1. CASE t # s
      <3>1. SessionSound(t)
        BY <1>2
      <3>2. \A b \in Avatars : lockedBy[b] = t => lockedBy'[b] = t
        BY <1>1, <1>5, <2>1
      <3>3. \A b \in Avatars : row[b].st # "none" =>
               row'[b].st # "none" /\ (Active(row'[b]) => Active(row[b]))
        BY <1>b
      <3>4. at[t] # "idle" => (row'[job[t].event.avatar].st = "none"
                                <=> row[job[t].event.avatar].st = "none")
        <4> SUFFICES ASSUME at[t] # "idle", row[job[t].event.avatar].st = "none",
                            row'[job[t].event.avatar].st # "none"
                     PROVE  FALSE
          BY <1>b, <3>1 DEF SessionSound, Jobs, Events
        <4>1. job[t].event.avatar = a /\ job[s].event.kind = "upload"
          BY <1>c, <3>1 DEF SessionSound, Jobs, Events
        <4> QED BY <1>2, <1>4, <2>1, <4>1 DEF UploadsDiffer
      <3> QED BY <1>3, <2>1, <3>1, <3>2, <3>3, <3>4, SoundFrame
    <2>2. CASE t = s
      BY <1>1, <1>2, <1>4, <1>5, <2>2 DEF SessionSound, Jobs, Events
    <2> QED BY <2>1, <2>2
  <1>11. UploadsDiffer'
    BY <1>2, <1>3, <1>4 DEF UploadsDiffer, SessionSound
  <1>12. OneActiveRow'
    <2>1. \A b \in Avatars : row[b].active => Active(row[b])
      BY <1>2 DEF OneActiveRow, Live
    <2>2. \A b \in Avatars : row'[b].active => Live(b)'
      <3> SUFFICES ASSUME NEW b \in Avatars, row'[b].active
                   PROVE  row'[b].st = "live"
        BY DEF Live
      <3>1. CASE b = a
        <4>1. row'[b] = NewRow \/ row'[b] = [row[b] EXCEPT !.st = "deleted", !.active = FALSE]
          BY <3>1, CommitRows
        <4>2. row'[b] # [row[b] EXCEPT !.st = "deleted", !.active = FALSE]
          BY <1>1 DEF Rows
        <4> QED BY <4>1, <4>2 DEF NewRow
      <3>2. CASE b # a
        <4>1. row'[b] = row[b] \/ row'[b] = [row[b] EXCEPT !.active = FALSE]
          BY <1>d, <3>2
        <4> QED BY <1>1, <2>1, <4>1 DEF Rows
      <3> QED BY <3>1, <3>2
    <2>3. ASSUME NEW b \in Avatars, NEW c \in Avatars, Active(row'[b]), Active(row'[c]),
                 Owner[b] = Owner[c]
          PROVE  b = c
      <3>1. CASE row[b].st # "none" /\ row[c].st # "none"
        BY <1>2, <1>b, <2>3, <3>1 DEF OneActiveRow
      <3>2. ASSUME NEW x \in Avatars, NEW y \in Avatars, row[x].st = "none", x # y,
                   Active(row'[x]), Active(row'[y]), Owner[x] = Owner[y]
            PROVE  FALSE
        <4>1. x = a /\ job[s].event.kind = "upload" /\ y \in Siblings(a)
          BY <1>c, <3>2
        <4>2. row[y].st # "none"
          BY <1>c, <3>2, <4>1
        <4>3. Active(row[y])
          BY <1>b, <3>2, <4>2
        <4>4. row'[y] = [row[y] EXCEPT !.active = FALSE]
          BY <3>2, <4>1, <4>3, CommitRows
        <4> QED BY <1>1, <3>2, <4>4 DEF Rows
      <3> QED BY <2>3, <3>1, <3>2
    <2> QED BY <2>2, <2>3 DEF OneActiveRow
  <1> QED BY <1>6, <1>7, <1>8, <1>9, <1>10, <1>11, <1>12 DEF TxInv
-----------------------------------------------------------------------------
LEMMA AutocommitKeeps ==
    ASSUME TxInv, NEW a \in Avatars, Autocommit(a)
    PROVE  TxInv'
  <1> USE SessionsAssumption DEF Active, Siblings
  <1>1. /\ row \in [Avatars -> Rows] /\ version \in [Avatars -> Rows]
        /\ lockedBy \in [Avatars -> Sessions \cup {NoSession}]
    BY DEF TxInv, TxTypeOK, StorageTypeOK
  <1>2. /\ CleanIfUnlocked /\ LocksExplained /\ InsertsAlone /\ UploadsDiffer /\ OneActiveRow
        /\ \A t \in Sessions : SessionSound(t)
    BY DEF TxInv
  <1>4. UNCHANGED <<at, job, found, inserted>>
    BY DEF TxInv, TxTypeOK, StorageTypeOK, Goes, Upload, Delete, Jobs, Events, ObjectKeys, Rows, Live, Autocommit, UpdateProcessingStatus, UpdateThumbnailS3Keys
  <1>5. /\ lockedBy' = lockedBy /\ lockedBy[a] = NoSession /\ row[a].st = "live"
      /\ row'[a].st = "live" /\ row'[a].active = row[a].active /\ version'[a] = row'[a]
      /\ \A b \in Avatars \ {a} : row'[b] = row[b] /\ version'[b] = version[b]
    BY <1>1 DEF TxInv, TxTypeOK, StorageTypeOK, storageVars, Goes, Unlocked, Live, Rows, Autocommit, UpdateProcessingStatus, UpdateThumbnailS3Keys
  <1>3. \A t \in Sessions : /\ at'[t] = at[t] /\ job'[t] = job[t]
                             /\ found'[t] = found[t] /\ inserted'[t] = inserted[t]
    BY <1>4
  <1>6. TxTypeOK'
    <2>1. row' \in [Avatars -> Rows] /\ UNCHANGED <<outbox, payload, processed, objects>>
      <3>1. ASSUME NEW status \in {"processing", "completed"}, UpdateProcessingStatus(a, status)
            PROVE  row' \in [Avatars -> Rows] /\ UNCHANGED <<outbox, payload, processed, objects>>
        BY <1>1, <3>1, RowEdits DEF UpdateProcessingStatus, Statuses
      <3>2. CASE UpdateThumbnailS3Keys(a)
        BY <1>1, <3>2, RowEdits DEF UpdateThumbnailS3Keys
      <3> QED BY <3>1, <3>2 DEF Autocommit
    <2>2. version' \in [Avatars -> Rows] /\ updates' \in 0 .. MaxUpdates
      BY <1>1, <2>1, MaxUpdatesAssumption DEF TxInv, TxTypeOK, Autocommit
    <2> QED BY <2>1, <2>2 DEF TxInv, TxTypeOK, StorageTypeOK, Autocommit
  <1>7. CleanIfUnlocked'
    BY <1>1, <1>2, <1>5 DEF CleanIfUnlocked, Unlocked
  <1>8. LocksExplained'
    <2> SUFFICES ASSUME NEW t \in Sessions, NEW b \in Avatars, lockedBy[b] = t
                 PROVE  Writes(t, b)'
      BY <1>5 DEF LocksExplained
    <2>1. Writes(t, b) /\ b # a
      BY <1>2, <1>5 DEF LocksExplained
    <2> QED BY <1>3, <1>5, <2>1, WritesFrame
  <1>9. InsertsAlone'
    BY <1>1, <1>2, <1>3, <1>5 DEF InsertsAlone, Inserting, SessionSound, Jobs, Events
  <1>10. \A t \in Sessions : SessionSound(t)'
    BY <1>1, <1>2, <1>3, <1>5 DEF SessionSound, Jobs, Events
  <1>11. UploadsDiffer'
    BY <1>2, <1>3, <1>4 DEF UploadsDiffer, SessionSound
  <1>12. OneActiveRow'
    BY <1>1, <1>2, <1>5 DEF OneActiveRow, Live, Rows
  <1> QED BY <1>6, <1>7, <1>8, <1>9, <1>10, <1>11, <1>12 DEF TxInv
-----------------------------------------------------------------------------
LEMMA TxInvStep == TxInv /\ [TxNext]_txVars => TxInv'
  <1> SUFFICES ASSUME TxInv, [TxNext]_txVars PROVE TxInv'
    OBVIOUS
  <1>1. ASSUME NEW s \in Sessions, Proceed(s), UNCHANGED updates PROVE TxInv'
    <2>1. CASE Retire(s)
      BY <1>1, <2>1, RetireKeeps
    <2>2. CASE InsertRow(s)
      BY <1>1, <2>2, InsertRowKeeps
    <2>3. CASE Refused(s)
      BY <1>1, <2>3, RollbackKeeps DEF Refused, NoFault
    <2>4. CASE DeleteRow(s)
      BY <1>1, <2>4, DeleteRowKeeps
    <2>5. CASE NoRowLeft(s)
      BY <1>1, <2>5, RollbackKeeps DEF NoRowLeft, NoFault
    <2>6. CASE InsertEvent(s)
      BY <1>1, <2>6, InsertEventKeeps
    <2>7. CASE Commit(s)
      BY <1>1, <2>7, CommitKeeps
    <2> QED BY <1>1, <2>1, <2>2, <2>3, <2>4, <2>5, <2>6, <2>7 DEF Proceed
  <1>2. ASSUME NEW s \in Sessions, Abort(s), UNCHANGED updates PROVE TxInv'
    BY <1>2, RollbackKeeps DEF Abort
  <1>3. ASSUME NEW s \in Sessions, NEW a \in Avatars, BeginUpload(s, a) \/ BeginDelete(s, a),
               UNCHANGED updates
        PROVE  TxInv'
    BY <1>3, BeginUploadKeeps, BeginDeleteKeeps
  <1>4. ASSUME NEW a \in Avatars, Autocommit(a) PROVE TxInv'
    BY <1>4, AutocommitKeeps
  <1>5. CASE UNCHANGED txVars
    <2>1. UNCHANGED <<row, outbox, payload, processed, objects, version, lockedBy, at, job,
                      found, inserted, updates, faults>>
      BY <1>5 DEF txVars, storageVars, sessionVars
    <2>2. TxTypeOK'
      BY <2>1 DEF TxInv, TxTypeOK, StorageTypeOK
    <2>3. CleanIfUnlocked' /\ LocksExplained'
      <3>1. CleanIfUnlocked'
        BY <2>1 DEF TxInv, CleanIfUnlocked, Unlocked
      <3>2. ASSUME NEW s \in Sessions, NEW b \in Avatars, Writes(s, b) PROVE Writes(s, b)'
        BY <2>1, <3>2 DEF Writes, Siblings, Active, Live
      <3> QED BY <2>1, <3>1, <3>2 DEF TxInv, LocksExplained
    <2>4. InsertsAlone' /\ UploadsDiffer' /\ OneActiveRow'
      BY <2>1 DEF TxInv, InsertsAlone, Inserting, UploadsDiffer, OneActiveRow, Siblings, Active, Live
    <2>5. \A s \in Sessions : SessionSound(s)'
      BY <2>1 DEF TxInv, SessionSound, Siblings, Active
    <2> QED BY <2>2, <2>3, <2>4, <2>5 DEF TxInv
  <1> QED BY <1>1, <1>2, <1>3, <1>4, <1>5 DEF TxNext, Transact

\* TxInv is an invariant of the two transactions and the worker's updates, for
\* any number of connections, avatars and failures.
THEOREM TxInvariant == TxSpec => []TxInv
  BY InitTx, TxInvStep, PTL DEF TxSpec
-----------------------------------------------------------------------------
LEMMA RefusedFromInv == TxInv => RefusedOnlyByRival
  <1> SUFFICES ASSUME TxInv, NEW s \in Sessions, at[s] = "insert",
                      Taken(s, job[s].event.avatar)
               PROVE  /\ \E b \in Siblings(job[s].event.avatar) : Active(row[b]) /\ b \notin found[s]
                      /\ \A b \in Avatars : lockedBy[b] # s
    BY DEF RefusedOnlyByRival
  <1> DEFINE a == job[s].event.avatar
  <1>1. /\ CleanIfUnlocked /\ LocksExplained /\ OneActiveRow /\ SessionSound(s)
        /\ row \in [Avatars -> Rows]
    BY DEF TxInv, TxTypeOK, StorageTypeOK
  <1>2. a \in Avatars
    BY <1>1 DEF SessionSound, Jobs, Events
  <1>3. \A b \in Avatars : lockedBy[b] = s =>
           b \in Siblings(a) /\ Active(row[b]) /\ version[b] = [row[b] EXCEPT !.active = FALSE]
    <2> SUFFICES ASSUME NEW b \in Avatars, lockedBy[b] = s
                 PROVE  b \in Siblings(a) /\ Active(row[b])
                           /\ version[b] = [row[b] EXCEPT !.active = FALSE]
      OBVIOUS
    <2>1. Writes(s, b)
      BY <1>1 DEF LocksExplained
    <2> QED BY <2>1 DEF Writes
  <1>4. PICK c \in Siblings(a) : lockedBy[c] \in {NoSession, s} /\ Active(version[c])
    BY DEF Taken
  <1>5. c \in Avatars /\ lockedBy[c] # s
    BY <1>1, <1>3, <1>4 DEF Siblings, Active, Rows
  <1>6. Active(row[c])
    BY <1>1, <1>4, <1>5 DEF CleanIfUnlocked, Unlocked
  <1>7. c \notin found[s]
    BY <1>1, <1>5, <1>6 DEF SessionSound
  <1>8. ASSUME NEW b \in Avatars, lockedBy[b] = s PROVE FALSE
    <2>1. b \in Siblings(a) /\ Active(row[b])
      BY <1>3, <1>8
    <2>2. Owner[b] = Owner[c]
      BY <1>4, <2>1 DEF Siblings
    <2>3. b = c
      BY <1>1, <1>5, <1>6, <2>1, <2>2 DEF OneActiveRow
    <2> QED BY <1>5, <1>8, <2>3
  <1> QED BY <1>4, <1>6, <1>7, <1>8

\* The index refuses an upload only when another one of the user has overtaken
\* it, and a refused upload had touched no row.
THEOREM RefusedOnlyByRivalHolds == TxSpec => []RefusedOnlyByRival
  BY TxInvariant, RefusedFromInv, PTL
-----------------------------------------------------------------------------
\* An upload that holds a lock at its INSERT has retired the user's active row;
\* a rival in doubt would have inserted, and so hold that row itself.
LEMMA HoldersGoOn ==
    ASSUME TxInv, NEW s \in Sessions, NEW c \in Avatars, lockedBy[c] = s
    PROVE  ~Waits(s)
  <1> DEFINE a == job[s].event.avatar
  <1>1. at[s] \in {"insert", "event", "commit"} /\ Writes(s, c)
    BY DEF TxInv, LocksExplained, Writes
  <1>2. SUFFICES ASSUME at[s] = "insert", NEW b \in Siblings(a),
                        lockedBy[b] \notin {NoSession, s},
                        Active(row[b]) \/ Active(version[b])
                 PROVE  FALSE
    BY <1>1 DEF Waits, InDoubt
  <1>3. /\ c \in Siblings(a) /\ Active(row[c])
        /\ a \in Avatars /\ Owner[b] = Owner[c] /\ b \in Avatars
    <2>1. job[s] \in Jobs
      BY <1>2 DEF TxInv, SessionSound
    <2> QED BY <1>1, <1>2, <2>1 DEF Writes, Siblings, Jobs, Events
  <1>4. PICK t \in Sessions : lockedBy[b] = t /\ t # s /\ Writes(t, b)
    BY <1>2, <1>3 DEF TxInv, TxTypeOK, LocksExplained
  <1>5. CASE Active(row[b])
    BY <1>3, <1>4, <1>5 DEF TxInv, OneActiveRow
  <1>6. CASE ~Active(row[b])
    <2>1. /\ Inserting(t) /\ b = job[t].event.avatar /\ row[b].st = "none"
      <3>1. Active(version[b])
        BY <1>2, <1>6
      <3>2. row[b] \in Rows
        BY <1>3 DEF TxInv, TxTypeOK, StorageTypeOK
      <3> QED BY <1>4, <1>6, <3>1, <3>2 DEF Writes, Inserting, Active, Rows
    <2>2. c \in Siblings(b)
      BY <1>3, <2>1 DEF Siblings, Active
    <2>3. lockedBy[c] = t
      BY <1>3, <2>1, <2>2 DEF TxInv, InsertsAlone
    <2> QED BY <1>4, <2>3
  <1> QED BY <1>5, <1>6

\* No circle of requests that wait for each other's rows, for any number of
\* connections, avatars and failures.
THEOREM NobodyWaitsInACircle == TxSpec => []WaitersHoldNothing
  <1>1. TxInv => WaitersHoldNothing
    BY HoldersGoOn DEF WaitersHoldNothing
  <1> QED BY <1>1, TxInvariant, PTL
-----------------------------------------------------------------------------
\* A commit of an upload is AvatarStorage's CreateWithOutbox, that of a deletion
\* its DeleteWithOutbox, although the statements lie some way back.
LEMMA CommitIsAtomic ==
    ASSUME TxInv, NEW s \in Sessions, Commit(s)
    PROVE  \E a \in Avatars : StorageStep(a)
  <1> DEFINE a == job[s].event.avatar
  <1>1. a \in Avatars /\ job[s] \in Jobs /\ inserted[s]
    BY CommitRows
  <1>2. row \in [Avatars -> Rows] /\ OneActiveRow
    BY DEF TxInv, TxTypeOK, StorageTypeOK
  <1>3. job[s].keys \in SUBSET ObjectKeys /\ job[s].event \in Events
    BY <1>1 DEF Jobs
  <1>4. outbox' = [outbox EXCEPT ![job[s].event] = "pending"] /\ UNCHANGED <<processed, objects>>
    BY <1>1 DEF Commit
  <1>5. CASE job[s].event.kind = "upload"
    <2>1. ASSUME NEW b \in Avatars
          PROVE  row'[b] = IF b = a THEN NewRow
                           ELSE IF Live(b) /\ Owner[b] = Owner[a]
                                THEN [row[b] EXCEPT !.active = FALSE]
                                ELSE row[b]
      <3>1. CASE b = a
        BY <1>5, <3>1, CommitRows
      <3>2. CASE b # a /\ Active(row[b]) /\ Owner[b] = Owner[a]
        BY <1>5, <3>2, CommitRows DEF Siblings, Active, Live
      <3>3. CASE b # a /\ ~(Active(row[b]) /\ Owner[b] = Owner[a])
        <4>1. row'[b] = row[b]
          BY <1>5, <3>3, CommitRows DEF Siblings
        <4>2. ~row[b].active => row[b] = [row[b] EXCEPT !.active = FALSE]
          BY <1>2 DEF Rows
        <4> QED BY <3>3, <4>1, <4>2 DEF Active, Live
      <3> QED BY <3>1, <3>2, <3>3
    <2>2. row' = [b \in Avatars |-> row'[b]]
      BY DEF Commit
    <2>3. job[s].event = Upload(a) /\ payload' = payload
      BY <1>3, <1>5 DEF Commit, Events, Upload
    <2>4. CreateWithOutbox(a)
      BY <1>4, <2>1, <2>2, <2>3 DEF CreateWithOutbox
    <2> QED BY <1>1, <2>4 DEF StorageStep
  <1>6. CASE job[s].event.kind = "delete"
    <2>1. row' = [row EXCEPT ![a] = [row[a] EXCEPT !.st = "deleted", !.active = FALSE]]
      <3>1. row' = [b \in Avatars |-> row'[b]]
        BY DEF Commit
      <3>2. /\ row'[a] = [row[a] EXCEPT !.st = "deleted", !.active = FALSE]
            /\ \A b \in Avatars \ {a} : row'[b] = row[b]
        BY <1>6, CommitRows
      <3> QED BY <1>1, <1>2, <3>1, <3>2
    <2>2. job[s].event = Delete(a) /\ payload' = [payload EXCEPT ![a] = job[s].keys]
      BY <1>1, <1>3, <1>6 DEF Commit, Events, Delete
    <2>3. DeleteWithOutbox(a, job[s].keys)
      BY <1>4, <1>6, <2>1, <2>2, CommitRows DEF DeleteWithOutbox
    <2> QED BY <1>1, <1>3, <2>3 DEF StorageStep
  <1> QED BY <1>1, <1>5, <1>6 DEF Jobs, Events

LEMMA StepIsAtomic ==
    ASSUME TxInv, [TxNext]_txVars
    PROVE  \/ UNCHANGED storageVars
           \/ \E a \in Avatars : StorageStep(a)
  <1>1. ASSUME NEW s \in Sessions, Proceed(s), ~Commit(s) PROVE UNCHANGED storageVars
    BY <1>1 DEF Proceed, Retire, InsertRow, Refused, DeleteRow, NoRowLeft, InsertEvent, Rollback
  <1>2. ASSUME NEW s \in Sessions, Abort(s) PROVE UNCHANGED storageVars
    BY <1>2 DEF Abort, Rollback
  <1>3. ASSUME NEW s \in Sessions, NEW a \in Avatars, BeginUpload(s, a) \/ BeginDelete(s, a)
        PROVE  UNCHANGED storageVars
    BY <1>3 DEF BeginUpload, BeginDelete
  <1>4. ASSUME NEW a \in Avatars, Autocommit(a)
        PROVE  StorageStep(a)
    BY <1>4 DEF Autocommit, Statuses, StorageStep
  <1>5. CASE UNCHANGED txVars
    BY <1>5 DEF txVars, storageVars
  <1>6. ASSUME NEW s \in Sessions, Transact(s) PROVE \/ UNCHANGED storageVars
                                                     \/ Commit(s)
    BY <1>1, <1>2, <1>3, <1>6 DEF Transact
  <1>7. CASE \E s \in Sessions : Transact(s) /\ ~Commit(s)
    BY <1>6, <1>7
  <1>8. CASE \E s \in Sessions : Commit(s)
    BY <1>8, CommitIsAtomic
  <1>9. CASE \E a \in Avatars : Autocommit(a)
    BY <1>4, <1>9
  <1> QED BY <1>5, <1>7, <1>8, <1>9 DEF TxNext

\* The committed tables change only by the steps of AvatarStorage: the model of
\* the pipeline may take each transaction as one step.
THEOREM TransactionsAreAtomic == TxSpec => AreAtomic
  <1>1. TxInv /\ [TxNext]_txVars =>
           [\E a \in Avatars : StorageStep(a)]_storageVars
    BY StepIsAtomic
  <1> QED BY <1>1, TxInvariant, PTL DEF TxSpec, AreAtomic
=============================================================================
