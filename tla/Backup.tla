------------------------------- MODULE Backup -------------------------------
(* The backup service for one gameserver (controller/backup/backup.go), the  *)
(* backup rows (store/backup.go) and the backup files (storage.go).  A       *)
(* request (a user, or the scheduler) runs the handler's steps; CreateBackup *)
(* and RestoreBackup leave a goroutine behind that waits for one of Slots.   *)
(* Backup ids are numbered by creation, so the oldest backup is the least.   *)
EXTENDS Naturals, FiniteSets, FiniteSetsExt

CONSTANTS Users,       \* requests in flight at once
          Restores,    \* runRestore goroutines
          Ids,         \* bound: 1 .. n, the backups ever created
          Limit,       \* max_backups or the gameserver's backup_limit; 0 = none
          Slots,       \* maxConcurrentBackups (3 in the code)
          S3,          \* the storage backend: S3Storage or LocalStorage
          MaxFaults,   \* bound: failing worker or storage calls
          MaxCrashes   \* bound: restarts of the controller

VARIABLES rows,     \* status of each backup row, "none" without a row
          file,     \* the stored object of each backup
          job,      \* where runBackup of each backup is
          restore,  \* where each runRestore is
          req,      \* where each request is
          game,     \* the gameserver as the backup service sees it
          gone,     \* the gameserver's own record has been deleted
          next,     \* the next backup id
          faults, crashes

vars == <<rows, file, job, restore, req, game, gone, next, faults, crashes>>

Existing == {b \in Ids : rows[b] # "none"}
NoRequest == [pc |-> "idle", ids |-> {}]
NoRestore == [pc |-> "idle", id |-> 0, wasRunning |-> FALSE, got |-> "none"]

Init ==
  /\ rows = [b \in Ids |-> "none"]
  /\ file = [b \in Ids |-> "none"]
  /\ job = [b \in Ids |-> "none"]
  /\ restore = [r \in Restores |-> NoRestore]
  /\ req = [u \in Users |-> NoRequest]
  /\ game = "up"
  /\ gone = FALSE
  /\ next = 1
  /\ faults = 0
  /\ crashes = 0

\* The channel sem holds one token per goroutine past its select.
Taken ==
  Cardinality({b \in Ids : job[b] \in {"slot", "streaming", "saved"}})
    + Cardinality({r \in Restores : restore[r].pc \in {"slot", "load", "extract", "start"}})
SlotFree == Taken < Slots

Fault == faults < MaxFaults /\ faults' = faults + 1

At(u, pc)        == req[u].pc = pc
Go(u, pc, ids)   == req' = [req EXCEPT ![u] = [pc |-> pc, ids |-> ids]]
GoTo(r, pc)      == restore' = [restore EXCEPT ![r].pc = pc]
RestoreReturns(r) == restore' = [restore EXCEPT ![r] = NoRestore]

\* storage.Delete: a missing object is not an error; a failure is only logged.
Remove(b) ==
  \/ file' = [file EXCEPT ![b] = "none"] /\ UNCHANGED faults
  \/ Fault /\ UNCHANGED file

-----------------------------------------------------------------------------
\* CreateBackup: the gameserver must exist; enforceRetention lists the rows.
CreateBackup(u) ==
  /\ At(u, "idle")
  /\ ~gone
  /\ IF Limit = 0 THEN Go(u, "insert", {}) ELSE Go(u, "retain", Existing)
  /\ UNCHANGED <<rows, file, job, restore, game, gone, next, faults, crashes>>

\* enforceRetention: the file of the oldest listed backup goes first ...
RetainFile(u) ==
  /\ At(u, "retain")
  /\ Cardinality(req[u].ids) >= Limit
  /\ Remove(Min(req[u].ids))
  /\ Go(u, "retainRow", req[u].ids)
  /\ UNCHANGED <<rows, job, restore, game, gone, next, crashes>>

\* Mutant: the loop stops one backup too early.
RetainDoneLate(u) ==
  /\ At(u, "retain")
  /\ Cardinality(req[u].ids) <= Limit
  /\ Go(u, "insert", {})
  /\ UNCHANGED <<rows, file, job, restore, game, gone, next, faults, crashes>>

\* ... then its row; a row that is already gone ends the loop with an error,
\* which CreateBackup logs before it goes on.
RetainRow(u) ==
  LET oldest == Min(req[u].ids) IN
  /\ At(u, "retainRow")
  /\ IF rows[oldest] = "none"
     THEN Go(u, "insert", {}) /\ UNCHANGED rows
     ELSE /\ rows' = [rows EXCEPT ![oldest] = "none"]
          /\ Go(u, "retain", req[u].ids \ {oldest})
  /\ UNCHANGED <<file, job, restore, game, gone, next, faults, crashes>>

RetainDone(u) ==
  /\ At(u, "retain")
  /\ Cardinality(req[u].ids) < Limit
  /\ Go(u, "insert", {})
  /\ UNCHANGED <<rows, file, job, restore, game, gone, next, faults, crashes>>

\* The row is inserted and the goroutine started.  The insert fails on its
\* foreign key when the gameserver has been deleted meanwhile.
Insert(u) ==
  /\ At(u, "insert")
  /\ Go(u, "idle", {})
  /\ IF gone
     THEN UNCHANGED <<rows, job, next>>
     ELSE /\ next \in Ids
          /\ next' = next + 1
          /\ rows' = [rows EXCEPT ![next] = "in_progress"]
          /\ job' = [job EXCEPT ![next] = "queued"]
  /\ UNCHANGED <<file, restore, game, gone, faults, crashes>>

-----------------------------------------------------------------------------
\* Mutant: the queue is not bounded.
TakeSlotOver(b) ==
  /\ job[b] = "queued"
  /\ job' = [job EXCEPT ![b] = "slot"]
  /\ UNCHANGED <<rows, file, restore, req, game, gone, next, faults, crashes>>

\* runBackup takes a slot, or gives up after ten minutes without one.
TakeSlot(b) ==
  /\ job[b] = "queued"
  /\ \/ SlotFree /\ job' = [job EXCEPT ![b] = "slot"]
     \/ ~SlotFree /\ job' = [job EXCEPT ![b] = "failing"]
  /\ UNCHANGED <<rows, file, restore, req, game, gone, next, faults, crashes>>

\* WorkerFor and BackupVolume may fail.  LocalStorage.Save creates the file
\* and writes in place; S3Storage.Save shows nothing before it is done.
BackupVolume(b) ==
  /\ job[b] = "slot"
  /\ \/ /\ job' = [job EXCEPT ![b] = "streaming"]
        /\ file' = IF S3 THEN file ELSE [file EXCEPT ![b] = "partial"]
        /\ UNCHANGED faults
     \/ Fault /\ job' = [job EXCEPT ![b] = "failing"] /\ UNCHANGED file
  /\ UNCHANGED <<rows, restore, req, game, gone, next, crashes>>

\* Mutant: a stream that broke off counts as saved.
SaveIgnoresError(b) ==
  /\ job[b] = "streaming"
  /\ job' = [job EXCEPT ![b] = "saved"]
  /\ \/ /\ file' = [file EXCEPT ![b] = IF S3 \/ @ = "partial" THEN "whole" ELSE @]
        /\ UNCHANGED faults
     \/ Fault /\ file' = [file EXCEPT ![b] = IF S3 THEN @ ELSE "none"]
  /\ UNCHANGED <<rows, restore, req, game, gone, next, crashes>>

\* Save ends.  A local file removed under the writer stays removed.  An error
\* of the tar stream, of gzip or of the storage comes out of Save, which
\* removes the local file.
Save(b) ==
  /\ job[b] = "streaming"
  /\ \/ /\ job' = [job EXCEPT ![b] = "saved"]
        /\ file' = [file EXCEPT ![b] = IF S3 \/ @ = "partial" THEN "whole" ELSE @]
        /\ UNCHANGED faults
     \/ /\ Fault
        /\ job' = [job EXCEPT ![b] = "failing"]
        /\ file' = [file EXCEPT ![b] = IF S3 THEN @ ELSE "none"]
  /\ UNCHANGED <<rows, restore, req, game, gone, next, crashes>>

SetStatus(b, s) ==
  rows' = [rows EXCEPT ![b] = IF @ = "none" THEN "none" ELSE s]

\* Mutant: the goroutine returns without recording the result.
CompleteForgotten(b) ==
  /\ job[b] = "saved"
  /\ job' = [job EXCEPT ![b] = "none"]
  /\ UNCHANGED <<rows, file, restore, req, game, gone, next, faults, crashes>>

\* The row, if it is still there, becomes completed.
Complete(b) ==
  /\ job[b] = "saved"
  /\ SetStatus(b, "completed")
  /\ job' = [job EXCEPT ![b] = "none"]
  /\ UNCHANGED <<file, restore, req, game, gone, next, faults, crashes>>

failBackup(b) ==
  /\ job[b] = "failing"
  /\ Remove(b)
  /\ SetStatus(b, "failed")
  /\ job' = [job EXCEPT ![b] = "none"]
  /\ UNCHANGED <<restore, req, game, gone, next, crashes>>

-----------------------------------------------------------------------------
\* DeleteBackup: the row, then the file.
DeleteBackup(u, b) ==
  /\ At(u, "idle")
  /\ rows[b] # "none"
  /\ rows' = [rows EXCEPT ![b] = "none"]
  /\ Go(u, "unlink", {b})
  /\ UNCHANGED <<file, job, restore, game, gone, next, faults, crashes>>

\* Deleting the gameserver: list the backups, delete the record (the rows go
\* with it), then delete the listed files.
ListForDelete(u) ==
  /\ At(u, "idle")
  /\ ~gone
  /\ Go(u, "deleteRows", Existing)
  /\ UNCHANGED <<rows, file, job, restore, game, gone, next, faults, crashes>>

DeleteBackupsByGameserver(u) ==
  /\ At(u, "deleteRows")
  /\ gone' = TRUE
  /\ rows' = [b \in Ids |-> "none"]
  /\ game' = "down"
  /\ Go(u, "unlink", req[u].ids)
  /\ UNCHANGED <<file, job, restore, next, faults, crashes>>

Unlink(u) ==
  /\ At(u, "unlink")
  /\ IF req[u].ids = {}
     THEN Go(u, "idle", {}) /\ UNCHANGED <<file, faults>>
     ELSE LET b == Min(req[u].ids) IN Remove(b) /\ Go(u, "unlink", req[u].ids \ {b})
  /\ UNCHANGED <<rows, job, restore, game, gone, next, crashes>>

-----------------------------------------------------------------------------
\* RestoreBackup: any row will do, whatever its status; wasRunning is read
\* from the record now and used when a slot is free.
RestoreBackup(r, b) ==
  /\ restore[r].pc = "idle"
  /\ rows[b] # "none"
  /\ restore' = [restore EXCEPT ![r] =
       [pc |-> "queued", id |-> b, wasRunning |-> game \in {"up", "stopping"},
        got |-> "none"]]
  /\ UNCHANGED <<rows, file, job, req, game, gone, next, faults, crashes>>

RestoreSlot(r) ==
  /\ restore[r].pc = "queued"
  /\ \/ SlotFree /\ GoTo(r, "slot")
     \/ ~SlotFree /\ RestoreReturns(r)
  /\ UNCHANGED <<rows, file, job, req, game, gone, next, faults, crashes>>

\* gameserverSvc.Stop submits the stop and returns; it preempts a start, is
\* refused while another stop runs and does nothing on a stopped gameserver.
StopForRestore(r) ==
  /\ restore[r].pc = "slot"
  /\ CASE ~restore[r].wasRunning \/ (game = "down" /\ ~gone) ->
            GoTo(r, "load") /\ UNCHANGED game
       [] restore[r].wasRunning /\ (game = "stopping" \/ gone) ->
            RestoreReturns(r) /\ UNCHANGED game
       [] OTHER -> GoTo(r, "load") /\ game' = "stopping"
  /\ UNCHANGED <<rows, file, job, req, gone, next, faults, crashes>>

\* WorkerFor, storage.Load and the gzip header.
Load(r) ==
  LET f == file[restore[r].id] IN
  /\ restore[r].pc = "load"
  /\ \/ /\ f # "none"
        /\ restore' = [restore EXCEPT ![r].pc = "extract", ![r].got = f]
        /\ UNCHANGED faults
     \/ f # "whole" /\ RestoreReturns(r) /\ UNCHANGED faults
     \/ Fault /\ RestoreReturns(r)
  /\ UNCHANGED <<rows, file, job, req, game, gone, next, crashes>>

\* RestoreVolume clears the volume and extracts; an unfinished file ends in an
\* error unless its writer has caught up.
RestoreVolume(r) ==
  /\ restore[r].pc = "extract"
  /\ \/ /\ "whole" \in {restore[r].got, file[restore[r].id]}
        /\ GoTo(r, "start")
        /\ UNCHANGED faults
     \/ restore[r].got = "partial" /\ RestoreReturns(r) /\ UNCHANGED faults
     \/ Fault /\ RestoreReturns(r)
  /\ UNCHANGED <<rows, file, job, req, game, gone, next, crashes>>

\* If it was running, Start: refused while the stop is still under way, and
\* the refusal is only logged and published.
StartAfterRestore(r) ==
  /\ restore[r].pc = "start"
  /\ RestoreReturns(r)
  /\ game' = IF restore[r].wasRunning /\ game = "down" /\ ~gone THEN "starting" ELSE game
  /\ UNCHANGED <<rows, file, job, req, gone, next, faults, crashes>>

-----------------------------------------------------------------------------
\* The gameserver's own operations: a stop or a start finishes, a user starts it.
GameStep ==
  /\ \/ game = "stopping" /\ game' = "down"
     \/ game = "starting" /\ game' = "up"
  /\ UNCHANGED <<rows, file, job, restore, req, gone, next, faults, crashes>>

UserStart ==
  /\ game = "down"
  /\ ~gone
  /\ game' = "starting"
  /\ UNCHANGED <<rows, file, job, restore, req, gone, next, faults, crashes>>

\* The controller dies: every goroutine is gone, tables and files stay.
Crash ==
  /\ crashes < MaxCrashes
  /\ crashes' = crashes + 1
  /\ job' = [b \in Ids |-> "none"]
  /\ restore' = [r \in Restores |-> NoRestore]
  /\ req' = [u \in Users |-> NoRequest]
  /\ UNCHANGED <<rows, file, game, gone, next, faults>>

JobStep(b) ==
  TakeSlot(b) \/ BackupVolume(b) \/ Save(b) \/ Complete(b) \/ failBackup(b)

RestoreStep(r) ==
  \/ RestoreSlot(r) \/ StopForRestore(r) \/ Load(r)
  \/ RestoreVolume(r) \/ StartAfterRestore(r)

RequestStep(u) ==
  \/ RetainFile(u) \/ RetainRow(u) \/ RetainDone(u) \/ Insert(u)
  \/ DeleteBackupsByGameserver(u) \/ Unlink(u)

Next ==
  \/ \E u \in Users : CreateBackup(u) \/ ListForDelete(u) \/ RequestStep(u)
  \/ \E u \in Users, b \in Ids : DeleteBackup(u, b)
  \/ \E b \in Ids : JobStep(b)
  \/ \E r \in Restores, b \in Ids : RestoreBackup(r, b)
  \/ \E r \in Restores : RestoreStep(r)
  \/ GameStep \/ UserStart \/ Crash

\* Goroutines and requests that have begun keep running; streams end ("No
\* operation timeout"); the gameserver's own operations end.
Fairness ==
  /\ \A b \in Ids : WF_vars(JobStep(b))
  /\ \A r \in Restores : WF_vars(RestoreStep(r))
  /\ \A u \in Users : WF_vars(RequestStep(u))
  /\ WF_vars(GameStep)

Spec == Init /\ [][Next]_vars /\ Fairness

-----------------------------------------------------------------------------
Status == {"none", "in_progress", "completed", "failed"}
Stored == {"none", "partial", "whole"}

\* Every variable has its type, and no more than Slots goroutines stream.
TypeOK ==
  /\ rows \in [Ids -> Status]
  /\ file \in [Ids -> Stored]
  /\ job \in [Ids -> {"none", "queued", "slot", "streaming", "saved", "failing"}]
  /\ \A r \in Restores : restore[r].id \in Ids \cup {0} /\ restore[r].got \in Stored
  /\ \A u \in Users : req[u].ids \subseteq Ids
  /\ game \in {"up", "down", "stopping", "starting"}
  /\ gone \in BOOLEAN
  /\ next \in 1 .. Cardinality(Ids) + 1
  /\ Taken <= Slots

\* A backup that is listed as completed can be restored: its object is whole,
\* except while a retention pass is between deleting its file and its row.
CompletedHasFile ==
  \A b \in Ids :
    rows[b] = "completed" =>
      file[b] = "whole" \/ \E u \in Users : At(u, "retainRow") /\ b \in req[u].ids

\* Retention keeps the number of backups within the limit when requests come
\* one at a time, whatever runBackup and failed deletions do meanwhile.
RowsBounded == Limit > 0 => Cardinality(Existing) <= Limit

\* A backup shown as in progress ends as completed or failed (or is deleted):
\* "Queued backups show as 'in progress' to the user and start once a slot
\* opens".
InProgressEnds ==
  \A b \in Ids : rows[b] = "in_progress" ~> rows[b] # "in_progress"

\* Once the gameserver is deleted and nothing is under way any more, none of
\* its backup files is left ("removes all backups for a gameserver (DB records
\* + store files)").
DeletedHasNoFile ==
  gone /\ (\A u \in Users : At(u, "idle")) /\ (\A b \in Ids : job[b] = "none")
    => \A b \in Ids : file[b] = "none"

\* The volume is replaced only while no process uses it ("Restore: stop
\* gameserver, restore volume from storage tar stream, restart").
RestoreOnlyWhenDown ==
  \A r \in Restores :
    restore[r].pc = "extract" /\ restore[r].wasRunning => game # "stopping"

\* The volume is read only after the gameserver was stopped ("Create: stop
\* gameserver (via its object), stream volume tar from worker").
BackupOnlyWhenDown == \A b \in Ids : job[b] = "streaming" => game # "up"

\* A gameserver that was running is running again after a restore.
RestoreRestarts ==
  \A r \in Restores :
    restore[r].pc = "start" /\ restore[r].wasRunning ~> game = "up" \/ gone
=============================================================================
