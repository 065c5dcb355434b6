------------------------------ MODULE Scheduler ------------------------------
(* One schedule of one gameserver (controller/schedule): its row, its cron   *)
(* entry, the goroutines that execute it, the requests that edit it, and the *)
(* catch-up of runs that were missed while the controller was down.  The     *)
(* schedule is due at every tick of the clock.  The cron library starts each *)
(* run in a goroutine of its own.                                            *)
EXTENDS Naturals, FiniteSets, TLAPS

CONSTANTS Type,        \* "backup", "update" or "restart"
          OneShot,     \* the schedule disables itself after a run
          Users,       \* concurrent API requests
          Slots,       \* bound: goroutines inside executeTask
          MaxTime,     \* bound: ticks
          MaxRequests, \* bound: edits
          MaxCrashes   \* bound: crashes of the controller

None == [kind |-> "none"]
Row  == [kind : {"row"}, on : BOOLEAN, next : Nat, last : Nat]

VARIABLES phase,    \* of the controller: down, started (cron runs), serving
          now,      \* the clock
          row,      \* table schedules
          cron,     \* entries the cron library holds
          entry,    \* Scheduler.entries: the entry it knows of, 0 for none
          ids,      \* last entry identifier given out
          exec,     \* goroutines inside executeTask
          catchUp,  \* catchUpMissed: no, todo, running or done
          req,      \* what each request has still to do
          owed,     \* history: no run is owed, one was missed, or the attempt
                    \* to make up for one failed and was logged
          made,     \* the schedule was created; a deleted one never returns,
                    \* for each has an identifier of its own
          lost,     \* history: what the scheduler lost sight of
          requests, crashes

vars == <<phase, now, row, cron, entry, ids, exec, catchUp, req, owed, made,
          lost, requests, crashes>>
sched == <<cron, entry, ids>>
past  == <<made, lost>>

\* The schedule was created enabled while the controller was up, or will be.
Init ==
  /\ phase = "serving"
  /\ now = 0
  /\ made \in BOOLEAN
  /\ IF made
     THEN /\ row = [kind |-> "row", on |-> TRUE, next |-> 1, last |-> 0]
          /\ cron = {1} /\ entry = 1 /\ ids = 1
     ELSE row = None /\ cron = {} /\ entry = 0 /\ ids = 0
  /\ exec = [s \in Slots |-> None]
  /\ catchUp = "done"
  /\ req = [u \in Users |-> None]
  /\ owed = "no"
  /\ lost = {}
  /\ requests = 0 /\ crashes = 0

-----------------------------------------------------------------------------
\* The scheduler, under its mutex.

removeEntryLocked ==
  IF entry = 0 THEN UNCHANGED <<cron, entry>>
  ELSE cron' = cron \ {entry} /\ entry' = 0

\* Mutant: the old entry is forgotten and not removed from cron.
ReplaceEntryLeaks(on) ==
  IF on THEN cron' = cron \cup {ids + 1} /\ entry' = ids + 1 /\ ids' = ids + 1
  ELSE removeEntryLocked /\ UNCHANGED ids

\* Mutant: the identifier of the new entry is taken as the old one.
ReplaceEntryMisnamed(on) ==
  IF on THEN cron' = (cron \ {entry}) \cup {ids + 1} /\ entry' = ids + 2 /\ ids' = ids + 1
  ELSE removeEntryLocked /\ UNCHANGED ids

\* Remove the entry and, if the schedule is enabled, add a new one.
ReplaceEntry(on) ==
  IF on THEN /\ cron' = (cron \ {entry}) \cup {ids + 1}
             /\ entry' = ids + 1
             /\ ids' = ids + 1
  ELSE removeEntryLocked /\ UNCHANGED ids

\* addEntry writes the whole row it was given back, with the next run.
WithNext(r) == IF r.on THEN [r EXCEPT !.next = now + 1] ELSE r

\* A write of the row may fail, and misses when the row is gone.
Store(r) == row' = row \/ (row # None /\ row' = r)

AddEntry == cron' = cron \cup {ids + 1} /\ entry' = ids + 1 /\ ids' = ids + 1

-----------------------------------------------------------------------------
\* Startup and shutdown.

\* Entries added before cron.Start have no next time, so next_run keeps the
\* value it had when the controller went down.  Schedules that cannot be listed
\* are left out, and the scheduler runs without them.
Start ==
  /\ phase = "down"
  /\ phase' = "started"
  /\ \/ /\ IF row # None /\ row.on THEN AddEntry ELSE UNCHANGED sched
        /\ UNCHANGED lost
     \/ UNCHANGED sched /\ lost' = lost \cup {"schedule"}
  /\ catchUp' = "todo"
  /\ UNCHANGED <<now, row, exec, req, owed, made, requests, crashes>>

\* RecoverAll loads the gameservers; the API is served after it.
RecoverAll ==
  /\ phase = "started"
  /\ phase' = "serving"
  /\ UNCHANGED <<now, row, sched, exec, catchUp, req, owed, past, requests, crashes>>

shouldCatchUp == Type \in {"backup", "update"}

\* Mutant: a run that was due at this very moment does not count as missed.
MissedStrict == /\ row # None
                /\ row.on /\ row.next # 0
                /\ row.next < now
                /\ ~(row.last > row.next)

Missed == /\ row # None
          /\ row.on /\ row.next # 0
          /\ row.next <= now
          /\ ~(row.last > row.next)

Begin(s, by) == exec' = [exec EXCEPT ![s] = [kind |-> "fired", by |-> by]]

\* What is owed when the attempt to make up for it failed.
Failing == IF owed = "missed" THEN "failed" ELSE owed

\* The schedules are listed once more, which may fail and is given up then.
catchUpMissed ==
  /\ catchUp = "todo"
  /\ \/ /\ Missed /\ shouldCatchUp
        /\ \E s \in Slots : exec[s] = None /\ Begin(s, "catchUp")
        /\ catchUp' = "running" /\ UNCHANGED owed
     \/ /\ ~(Missed /\ shouldCatchUp)
        /\ catchUp' = "done" /\ UNCHANGED <<exec, owed>>
     \/ catchUp' = "done" /\ owed' = Failing /\ UNCHANGED exec
  /\ UNCHANGED <<phase, now, row, sched, req, past, requests, crashes>>

Crash ==
  /\ phase # "down"
  /\ crashes < MaxCrashes
  /\ crashes' = crashes + 1
  /\ phase' = "down"
  /\ cron' = {} /\ entry' = 0 /\ UNCHANGED ids
  /\ exec' = [s \in Slots |-> None]
  /\ catchUp' = "no"
  /\ req' = [u \in Users |-> None]
  /\ UNCHANGED <<now, row, owed, past, requests>>

-----------------------------------------------------------------------------
\* The clock: cron starts a goroutine for each of its entries.

Free == {s \in Slots : exec[s] = None}

Tick ==
  /\ phase # "down"
  /\ now < MaxTime
  /\ now' = now + 1
  /\ \E S \in SUBSET Free :
       /\ Cardinality(S) = Cardinality(cron)
       /\ exec' = [s \in Slots |-> IF s \in S THEN [kind |-> "fired", by |-> "cron"]
                                   ELSE exec[s]]
  /\ UNCHANGED <<phase, row, sched, catchUp, req, owed, past, requests, crashes>>

TickDown ==
  /\ phase = "down"
  /\ now < MaxTime
  /\ now' = now + 1
  /\ owed' = IF row # None /\ row.on THEN "missed" ELSE owed
  /\ UNCHANGED <<phase, row, sched, exec, catchUp, req, past, requests, crashes>>

-----------------------------------------------------------------------------
\* executeTask.

\* Mutant: the loop over the missed schedules stops at a task that failed.
LeaveStuck(s) == exec' = [exec EXCEPT ![s] = None] /\ UNCHANGED catchUp

Leave(s) ==
  /\ exec' = [exec EXCEPT ![s] = None]
  /\ catchUp' = IF exec[s].by = "catchUp" THEN "done" ELSE catchUp

\* The row is read; without it, or when the read fails, nothing is done.
GetSchedule(s) ==
  /\ exec[s].kind = "fired"
  /\ \/ /\ row # None
        /\ exec' = [exec EXCEPT ![s] = [kind |-> "task", by |-> @.by, row |-> row]]
        /\ UNCHANGED <<catchUp, owed>>
     \/ /\ Leave(s)
        /\ owed' = IF exec[s].by = "catchUp" THEN Failing ELSE owed
  /\ UNCHANGED <<phase, now, row, sched, req, past, requests, crashes>>

\* A backup is queued here; the other tasks need the live gameserver, which
\* exists once RecoverAll has run.  Each may be refused: the failure is logged
\* and published, and the run counts as done.
Task(s) ==
  /\ exec[s].kind = "task"
  /\ \E ok \in BOOLEAN :
       /\ ok => Type = "backup" \/ phase = "serving"
       /\ ok => "gameserver" \notin lost
       /\ owed' = IF ok THEN "no" ELSE Failing
  /\ exec' = [exec EXCEPT ![s].kind = "retire"]
  /\ UNCHANGED <<phase, now, row, sched, catchUp, req, past, requests, crashes>>

Retire(s) ==
  /\ exec[s].kind = "retire"
  /\ exec' = [exec EXCEPT ![s].kind = "write",
                          ![s].row.last = now,
                          ![s].row.on   = IF OneShot THEN FALSE ELSE @,
                          ![s].row.next = IF OneShot THEN 0
                                          ELSE IF entry # 0 THEN now + 1 ELSE @]
  /\ IF OneShot THEN removeEntryLocked /\ UNCHANGED ids ELSE UNCHANGED sched
  /\ UNCHANGED <<phase, now, row, catchUp, req, owed, past, requests, crashes>>

WriteBack(s) ==
  /\ exec[s].kind = "write"
  /\ Store(exec[s].row)
  /\ Leave(s)
  /\ UNCHANGED <<phase, now, sched, req, owed, past, requests, crashes>>

-----------------------------------------------------------------------------
\* Requests.

Accept ==
  /\ phase = "serving"
  /\ requests < MaxRequests
  /\ requests' = requests + 1

\* The row is inserted, and a cron entry added to those there are.
CreateSchedule(u, on) ==
  /\ Accept
  /\ req[u] = None /\ ~made /\ "gameserver" \notin lost
  /\ made' = TRUE
  /\ row' = [kind |-> "row", on |-> on, next |-> 0, last |-> 0]
  /\ req' = [req EXCEPT ![u] = IF on THEN [kind |-> "add", row |-> row'] ELSE None]
  /\ UNCHANGED <<phase, now, sched, exec, catchUp, owed, lost, crashes>>

AddSchedule(u) ==
  /\ req[u].kind = "add"
  /\ AddEntry
  /\ Store(WithNext(req[u].row))
  /\ req' = [req EXCEPT ![u] = None]
  /\ UNCHANGED <<phase, now, exec, catchUp, owed, past, requests, crashes>>

\* Nobody edits a schedule before its creation was answered: the new entry
\* would be added beside that of the edit.
Answered == \A u \in Users : req[u].kind # "add"

\* The handler reads the row, sets the fields it was given and hands it on.
UpdateSchedule(u, on) ==
  /\ Accept
  /\ req[u] = None /\ row # None /\ Answered
  /\ req' = [req EXCEPT ![u] = [kind |-> "save", row |-> [row EXCEPT !.on = on]]]
  /\ UNCHANGED <<phase, now, row, sched, exec, catchUp, owed, past, crashes>>

SaveRow(u) ==
  /\ req[u].kind = "save"
  /\ \/ /\ row # None /\ row' = req[u].row
        /\ req' = [req EXCEPT ![u] = [kind |-> "cron", row |-> row']]
     \/ UNCHANGED row /\ req' = [req EXCEPT ![u] = None]
  /\ UNCHANGED <<phase, now, sched, exec, catchUp, owed, past, requests, crashes>>

UpdateCron(u) ==
  /\ req[u].kind = "cron"
  /\ ReplaceEntry(req[u].row.on)
  /\ IF req[u].row.on THEN Store(WithNext(req[u].row)) ELSE UNCHANGED row
  /\ req' = [req EXCEPT ![u] = None]
  /\ UNCHANGED <<phase, now, exec, catchUp, owed, past, requests, crashes>>

\* Mutant: the cron entry is left to the next restart.
DeleteKeepsEntry(u) ==
  /\ Accept
  /\ req[u] = None /\ row # None
  /\ req' = [req EXCEPT ![u] = [kind |-> "delete"]]
  /\ UNCHANGED <<phase, now, row, sched, exec, catchUp, owed, past, crashes>>

DeleteSchedule(u) ==
  /\ Accept
  /\ req[u] = None /\ row # None
  /\ removeEntryLocked /\ UNCHANGED ids
  /\ req' = [req EXCEPT ![u] = [kind |-> "delete"]]
  /\ UNCHANGED <<phase, now, row, exec, catchUp, owed, past, crashes>>

DeleteRow(u) ==
  /\ req[u].kind = "delete"
  /\ row' = None \/ UNCHANGED row
  /\ req' = [req EXCEPT ![u] = None]
  /\ UNCHANGED <<phase, now, sched, exec, catchUp, owed, past, requests, crashes>>

\* The rows of a gameserver's schedules go with its own; the scheduler is not
\* told, and its entry stays.
DeleteGameserver ==
  /\ Users # {} /\ Accept
  /\ "gameserver" \notin lost
  /\ lost' = lost \cup {"gameserver"}
  /\ row' = None
  /\ UNCHANGED <<phase, now, sched, exec, catchUp, req, owed, made, crashes>>

-----------------------------------------------------------------------------
Next ==
  \/ Start \/ RecoverAll \/ catchUpMissed \/ Crash \/ Tick \/ TickDown
  \/ \E s \in Slots : GetSchedule(s) \/ Task(s) \/ Retire(s) \/ WriteBack(s)
  \/ \E u \in Users :
       \/ \E on \in BOOLEAN : CreateSchedule(u, on) \/ UpdateSchedule(u, on)
       \/ AddSchedule(u) \/ SaveRow(u) \/ UpdateCron(u)
       \/ DeleteSchedule(u) \/ DeleteRow(u)
  \/ DeleteGameserver

\* A started controller finishes its startup, and goroutines run on.
Fairness ==
  /\ WF_vars(Start) /\ WF_vars(RecoverAll) /\ WF_vars(catchUpMissed)
  /\ \A s \in Slots :
       WF_vars(GetSchedule(s) \/ Task(s) \/ Retire(s) \/ WriteBack(s))

Spec == Init /\ [][Next]_vars /\ Fairness

-----------------------------------------------------------------------------
\* Every variable has its type.
TypeOK ==
  /\ phase \in {"down", "started", "serving"}
  /\ now \in 0 .. MaxTime
  /\ row = None \/ row \in Row
  /\ cron \subseteq 1 .. ids /\ entry \in 0 .. ids
  /\ \A s \in Slots : exec[s].kind \in {"none", "fired", "task", "retire", "write"}
  /\ catchUp \in {"no", "todo", "running", "done"}
  /\ \A u \in Users : req[u].kind \in {"none", "add", "save", "cron", "delete"}
  /\ owed \in {"no", "missed", "failed"}
  /\ made \in BOOLEAN /\ lost \subseteq {"gameserver", "schedule"}

\* Cron holds exactly the entry the scheduler knows of, through concurrent
\* edits and a one-shot that removes itself: an entry it has lost track of
\* would fire at every due time and could never be removed.
OneEntry == cron = IF entry = 0 THEN {} ELSE {entry}

\* With one request at a time a schedule that was deleted has no cron entry,
\* whatever runs of it are still going and whatever statement failed.  (Of a
\* gameserver that is deleted the schedules' rows go and their entries stay.)
NoOrphanEntry == row = None /\ "gameserver" \notin lost => entry = 0

\* The comment on shouldCatchUp: backups and updates "should run immediately
\* when missed".  Once the catch-up is over none is owed that was not tried,
\* for a scheduler that could list its schedules at each start: either a run
\* succeeded since, or the attempt failed and was logged.  This rests on
\* next_run in the table never being ahead of a run that did not happen,
\* whatever step a crash interrupted and whatever statement failed.
MissedRunsOnStartup == catchUp = "done" /\ "schedule" \notin lost => owed # "missed"

\* The controller comes up and finishes its catch-up after a crash.
CatchUpEnds == catchUp = "todo" ~> catchUp \in {"done", "no"}

\* The comment in executeTask: "The cron library won't fire the next run until
\* this one completes."
NoOverlap ==
  \A s, t \in Slots :
    exec[s] # None /\ exec[t] # None /\ exec[s].by = "cron" /\ exec[t].by = "cron"
      => s = t
-----------------------------------------------------------------------------
(* Why cron holds one entry, and none without a row.                         *)

\* Nobody waits for a creation while there is an entry, or an edit under way.
EntryInv ==
  /\ ids \in Nat /\ OneEntry
  /\ req = [u \in Users |-> req[u]]
  /\ ~made => row = None /\ entry = 0
  /\ ~made \/ phase = "down" => \A u \in Users : req[u].kind = "none"
  /\ phase = "down" => entry = 0
  /\ \A u, v \in Users :
       req[u].kind = "add" =>
         entry = 0 /\ (req[v].kind \in {"add", "save", "cron"} => v = u)

\* A schedule is created with the one entry the scheduler knows of.
LEMMA EntryStarts == Init => EntryInv
  BY DEF Init, EntryInv, OneEntry, None

\* The entry that is added at startup is the only one: there is none before.
LEMMA EntryAdded ==
  ASSUME EntryInv, AddEntry, phase = "down"
  PROVE  ids' \in Nat /\ OneEntry'
  BY DEF AddEntry, EntryInv, OneEntry

\* A request goes on, and none waits for a creation beside it.
LEMMA RequestGoesOn ==
  ASSUME EntryInv, NEW u \in Users, NEW k, req' = [req EXCEPT ![u] = k],
         made, made', phase # "down", phase' = phase,
         ids' \in Nat, OneEntry',
         k.kind = "add" =>
           entry' = 0 /\ \A v \in Users : req[v].kind \in {"add", "save", "cron"} => v = u,
         k.kind # "add" =>
           /\ entry' = entry \/ entry' = 0 \/ req[u].kind \in {"add", "save", "cron"}
           /\ k.kind \in {"save", "cron"} => \A v \in Users : req[v].kind = "add" => v = u
  PROVE  EntryInv'
<1>1. /\ req' = [v \in Users |-> req'[v]] /\ req'[u] = k
      /\ \A v \in Users \ {u} : req'[v] = req[v]
  BY DEF EntryInv
<1>2. ASSUME NEW v \in Users, NEW w \in Users, req'[v].kind = "add"
      PROVE  entry' = 0 /\ (req'[w].kind \in {"add", "save", "cron"} => w = v)
  <2>1. CASE v = u
    BY <1>1, <1>2, <2>1
  <2>2. CASE v # u
    <3>1. req[v].kind = "add" /\ entry = 0 /\ k.kind # "add"
      BY <1>1, <1>2, <2>2 DEF EntryInv
    <3>2. req[u].kind \notin {"add", "save", "cron"}
      BY <2>2, <3>1 DEF EntryInv
    <3>3. k.kind \notin {"save", "cron"}
      BY <2>2, <3>1
    <3> QED BY <1>1, <2>2, <3>1, <3>2, <3>3 DEF EntryInv
  <2> QED BY <2>1, <2>2
<1> QED BY <1>1, <1>2 DEF EntryInv

\* A step of a request.
LEMMA RequestKeepsEntry ==
  ASSUME EntryInv, NEW u \in Users,
         \/ \E on \in BOOLEAN : CreateSchedule(u, on) \/ UpdateSchedule(u, on)
         \/ AddSchedule(u) \/ SaveRow(u) \/ UpdateCron(u)
         \/ DeleteSchedule(u) \/ DeleteRow(u)
  PROVE  EntryInv'
<1>0. None.kind = "none"
  BY DEF None
<1>1. ASSUME NEW on \in BOOLEAN, CreateSchedule(u, on) PROVE EntryInv'
  <2>1. PICK k : /\ req' = [req EXCEPT ![u] = k]
                 /\ k = IF on THEN [kind |-> "add", row |-> row'] ELSE None
    BY <1>1 DEF CreateSchedule
  <2>2. /\ \A v \in Users : req'[v].kind = IF v = u /\ on THEN "add" ELSE "none"
        /\ req' = [v \in Users |-> req'[v]]
    BY <1>0, <1>1, <2>1 DEF CreateSchedule, EntryInv
  <2> QED BY <1>1, <2>1, <2>2 DEF CreateSchedule, Accept, sched, EntryInv, OneEntry
<1>2. CASE ~made
  <2>1. req[u].kind = "none" /\ row = None
    BY <1>2 DEF EntryInv
  <2> QED BY <1>1, <2>1 DEF UpdateSchedule, AddSchedule, SaveRow, UpdateCron, DeleteSchedule,
                            DeleteRow
<1>3. ASSUME NEW on \in BOOLEAN, UpdateSchedule(u, on), made PROVE EntryInv'
  <2>0. PICK k : /\ req' = [req EXCEPT ![u] = k]
                 /\ k = [kind |-> "save", row |-> [row EXCEPT !.on = on]]
    BY <1>3 DEF UpdateSchedule
  <2>1. req' = [req EXCEPT ![u] = k] /\ k.kind = "save"
    BY <2>0
  <2>2. /\ \A v \in Users : req[v].kind # "add"
        /\ made' /\ phase # "down" /\ UNCHANGED <<phase, cron, entry, ids>>
    BY <1>3 DEF UpdateSchedule, Answered, Accept, sched, past
  <2>3. ids' \in Nat /\ OneEntry'
    BY <2>2 DEF EntryInv, OneEntry
  <2> QED BY <1>3, <2>1, <2>2, <2>3, RequestGoesOn
<1>4. CASE AddSchedule(u) /\ made
  <2>1. /\ req[u].kind = "add" /\ req' = [req EXCEPT ![u] = None]
        /\ made' /\ phase' = phase /\ AddEntry
    BY <1>4 DEF AddSchedule, past
  <2>2. entry = 0 /\ phase # "down"
    BY <2>1 DEF EntryInv
  <2>3. ids' \in Nat /\ OneEntry'
    BY <2>1, <2>2 DEF AddEntry, EntryInv, OneEntry
  <2> QED BY <1>0, <1>4, <2>1, <2>2, <2>3, RequestGoesOn
<1>5. CASE SaveRow(u) /\ made
  <2>1. PICK k : req' = [req EXCEPT ![u] = k] /\ k.kind \in {"cron", "none"}
    BY <1>0, <1>5 DEF SaveRow
  <2>2. req[u].kind = "save" /\ made' /\ UNCHANGED <<phase, cron, entry, ids>>
    BY <1>5 DEF SaveRow, sched, past
  <2>3. phase # "down" /\ \A v \in Users : req[v].kind = "add" => v = u
    BY <2>2 DEF EntryInv
  <2>4. ids' \in Nat /\ OneEntry'
    BY <2>2 DEF EntryInv, OneEntry
  <2> QED BY <1>5, <2>1, <2>2, <2>3, <2>4, RequestGoesOn
<1>6. CASE UpdateCron(u) /\ made
  <2>1. /\ req[u].kind = "cron" /\ req' = [req EXCEPT ![u] = None]
        /\ made' /\ phase' = phase /\ ReplaceEntry(req[u].row.on)
    BY <1>6 DEF UpdateCron, past
  <2>2. phase # "down"
    BY <2>1 DEF EntryInv
  <2>3. ids' \in Nat /\ OneEntry'
    BY <2>1 DEF ReplaceEntry, removeEntryLocked, EntryInv, OneEntry
  <2> QED BY <1>0, <1>6, <2>1, <2>2, <2>3, RequestGoesOn
<1>7. CASE DeleteSchedule(u) /\ made
  <2>0. PICK k : req' = [req EXCEPT ![u] = k] /\ k = [kind |-> "delete"]
    BY <1>7 DEF DeleteSchedule
  <2>1. req' = [req EXCEPT ![u] = k] /\ k.kind = "delete"
    BY <2>0
  <2>2. /\ removeEntryLocked /\ UNCHANGED ids /\ made' /\ phase # "down" /\ phase' = phase
    BY <1>7 DEF DeleteSchedule, Accept, past
  <2>3. ids' \in Nat /\ OneEntry' /\ entry' = 0
    BY <2>2 DEF removeEntryLocked, EntryInv, OneEntry
  <2> QED BY <1>7, <2>1, <2>2, <2>3, RequestGoesOn
<1>8. CASE DeleteRow(u) /\ made
  <2>1. /\ req[u].kind = "delete" /\ req' = [req EXCEPT ![u] = None]
        /\ made' /\ UNCHANGED <<phase, cron, entry, ids>>
    BY <1>8 DEF DeleteRow, sched, past
  <2>2. phase # "down" /\ ids' \in Nat /\ OneEntry'
    BY <2>1 DEF EntryInv, OneEntry
  <2> QED BY <1>0, <1>8, <2>1, <2>2, RequestGoesOn
<1> QED BY <1>1, <1>2, <1>3, <1>4, <1>5, <1>6, <1>7, <1>8

\* Map and library change together, in the sections of the scheduler's lock.
LEMMA EntryStep == ASSUME EntryInv, [Next]_vars PROVE EntryInv'
<1>1. CASE UNCHANGED <<sched, row, req, made, phase>>
  BY <1>1 DEF sched, EntryInv, OneEntry
<1>2. ASSUME UNCHANGED <<req, made, phase>>, row = None => row' = None,
             UNCHANGED sched \/ (removeEntryLocked /\ UNCHANGED ids)
      PROVE  EntryInv'
  BY <1>2 DEF removeEntryLocked, sched, EntryInv, OneEntry
<1>3. CASE Start
  <2>1. /\ phase = "down" /\ phase' = "started" /\ UNCHANGED <<req, made, row>>
        /\ \/ row # None /\ AddEntry
           \/ UNCHANGED sched
    BY <1>3 DEF Start
  <2>2. \A u \in Users : req[u].kind = "none"
    BY <2>1 DEF EntryInv
  <2>3. CASE row # None /\ AddEntry
    <3>1. made
      BY <2>3 DEF EntryInv
    <3> QED BY <2>1, <2>2, <2>3, <3>1, EntryAdded DEF EntryInv
  <2>4. CASE UNCHANGED sched
    BY <2>1, <2>2, <2>4 DEF sched, EntryInv, OneEntry
  <2> QED BY <2>1, <2>3, <2>4
<1>4. CASE Crash
  <2>1. \A u \in Users : req'[u].kind = "none"
    BY <1>4 DEF Crash, None
  <2> QED BY <1>4, <2>1 DEF Crash, past, EntryInv, OneEntry
<1>5. ASSUME NEW s \in Slots, GetSchedule(s) \/ Task(s) \/ Retire(s) \/ WriteBack(s)
      PROVE  EntryInv'
  BY <1>2, <1>5 DEF GetSchedule, Task, Retire, WriteBack, Store, past
<1>6. ASSUME NEW u \in Users,
             \/ \E on \in BOOLEAN : CreateSchedule(u, on) \/ UpdateSchedule(u, on)
             \/ AddSchedule(u) \/ SaveRow(u) \/ UpdateCron(u)
             \/ DeleteSchedule(u) \/ DeleteRow(u)
      PROVE  EntryInv'
  BY <1>6, RequestKeepsEntry
<1>7. CASE RecoverAll
  BY <1>7 DEF RecoverAll, past, sched, EntryInv, OneEntry
<1>8. CASE catchUpMissed \/ Tick \/ TickDown \/ DeleteGameserver
  BY <1>2, <1>8 DEF catchUpMissed, Tick, TickDown, DeleteGameserver, past
<1>9. CASE UNCHANGED vars
  BY <1>1, <1>9 DEF vars, sched
<1> QED BY <1>3, <1>4, <1>5, <1>6, <1>7, <1>8, <1>9 DEF Next

\* Through concurrent edits, restarts and one-shots that remove themselves, cron
\* holds exactly the entry the scheduler knows of.
THEOREM CronHoldsOneEntry == Spec => []OneEntry
<1>1. Init => EntryInv
  BY EntryStarts
<1>2. EntryInv /\ [Next]_vars => EntryInv'
  BY EntryStep
<1>3. EntryInv => OneEntry
  BY DEF EntryInv
<1> QED BY <1>1, <1>2, <1>3, PTL DEF Spec

\* The copies of the row that runs and requests hold.
Fired == [kind : {"fired"}, by : {"cron", "catchUp"}]
Run == [kind : {"task", "retire", "write"}, by : {"cron", "catchUp"}, row : Row]
Edit == [kind : {"add", "save", "cron"}, row : Row]

ScheduleTypes ==
  /\ now \in Nat
  /\ row \in Row \cup {None}
  /\ exec \in [Slots -> {None} \cup Fired \cup Run]
  /\ req \in [Users -> {None, [kind |-> "delete"]} \cup Edit]

EntryHasRow == row = None => entry = 0

\* Who puts the entry there has seen a row, and who deletes the row has removed
\* the entry.
Scheduled ==
  /\ ScheduleTypes
  /\ EntryHasRow
  /\ \A u \in Users : /\ req[u].kind \in {"add", "cron"} => row # None
                      /\ req[u].kind = "delete" => entry = 0
                      /\ phase = "down" => req[u] = None

\* A row is no missing row, and its fields may be set.
LEMMA RowFields ==
  ASSUME NEW r \in Row, NEW on \in BOOLEAN, NEW n \in Nat, NEW l \in Nat
  PROVE  /\ r # None
         /\ [r EXCEPT !.on = on] \in Row /\ [r EXCEPT !.next = n] \in Row
         /\ [r EXCEPT !.last = l, !.on = on, !.next = n] \in Row
<1>1. r.kind = "row" /\ None.kind = "none"
  BY DEF Row, None
<1>2. [r EXCEPT !.on = on] \in Row /\ [r EXCEPT !.next = n] \in Row
  BY DEF Row
<1>3. [r EXCEPT !.last = l, !.on = on, !.next = n] \in Row
  BY DEF Row
<1> QED BY <1>1, <1>2, <1>3

\* The steps of a run: its copy of the row is written back only over a row.
LEMMA RunKeeps ==
  ASSUME Scheduled, NEW s \in Slots,
         GetSchedule(s) \/ Task(s) \/ Retire(s) \/ WriteBack(s)
  PROVE  Scheduled'
<1>1. UNCHANGED <<now, req, phase>> /\ (entry' = entry \/ entry' = 0)
  BY DEF GetSchedule, Task, Retire, WriteBack, removeEntryLocked, sched
<1>2. /\ exec' \in [Slots -> {None} \cup Fired \cup Run]
      /\ row' \in Row \cup {None} /\ (row' = None <=> row = None)
  <2> exec[s] \in {None} \cup Fired \cup Run /\ None.kind = "none"
    BY DEF Scheduled, ScheduleTypes, None
  <2>1. CASE GetSchedule(s)
    <3>1. exec[s] \in Fired
      BY <2>1 DEF GetSchedule, Run
    <3>2. row # None => [kind |-> "task", by |-> exec[s].by, row |-> row] \in Run
      BY <3>1 DEF Scheduled, ScheduleTypes, Fired, Run
    <3>3. exec' = [exec EXCEPT ![s] = None]
            \/ (row # None /\ exec' = [exec EXCEPT ![s] = [kind |-> "task", by |-> exec[s].by, row |-> row]])
      BY <2>1 DEF GetSchedule, Leave
    <3>4. UNCHANGED row
      BY <2>1 DEF GetSchedule
    <3> QED BY <3>2, <3>3, <3>4 DEF Scheduled, ScheduleTypes
  <2>2. CASE Task(s)
    <3>1. exec[s] \in Run
      BY <2>2 DEF Task, Fired
    <3>2. [exec[s] EXCEPT !.kind = "retire"] \in Run
      BY <3>1 DEF Run
    <3>3. exec' = [exec EXCEPT ![s] = [exec[s] EXCEPT !.kind = "retire"]] /\ UNCHANGED row
      BY <2>2 DEF Task
    <3> QED BY <3>2, <3>3 DEF Scheduled, ScheduleTypes
  <2>3. CASE Retire(s)
    <3>1. exec[s] \in Run
      BY <2>3 DEF Retire, Fired
    <3>2. PICK on, n :
            /\ exec' = [exec EXCEPT ![s].kind = "write", ![s].row.last = now,
                                    ![s].row.on = on, ![s].row.next = n]
            /\ on \in BOOLEAN /\ n \in Nat
      <4>1. exec[s].row \in Row /\ now + 1 \in Nat
        BY <3>1 DEF Run, Scheduled, ScheduleTypes
      <4>2. exec[s].row.on \in BOOLEAN /\ exec[s].row.next \in Nat
        BY <4>1 DEF Row
      <4> QED BY <2>3, <4>1, <4>2 DEF Retire
    <3>3. /\ exec'[s] = [exec[s] EXCEPT !.kind = "write", !.row.last = now, !.row.on = on, !.row.next = n]
          /\ \A t \in Slots \ {s} : exec'[t] = exec[t]
          /\ exec' = [t \in Slots |-> exec'[t]]
      BY <3>2 DEF Scheduled, ScheduleTypes
    <3>4. exec'[s] \in Run
      <4>1. now \in Nat /\ exec[s].row \in Row
        BY <3>1 DEF Run, Scheduled, ScheduleTypes
      <4>2. [exec[s].row EXCEPT !.last = now, !.on = on, !.next = n] \in Row
        BY <3>2, <4>1, RowFields
      <4>3. exec'[s] = [exec[s] EXCEPT !.kind = "write",
                          !.row = [exec[s].row EXCEPT !.last = now, !.on = on, !.next = n]]
        BY <3>1, <3>3, <4>1 DEF Run, Row
      <4>4. PICK w \in Row : w = [exec[s].row EXCEPT !.last = now, !.on = on, !.next = n]
        BY <4>2
      <4>5. exec'[s] = [exec[s] EXCEPT !.kind = "write", !.row = w]
        BY <4>3, <4>4
      <4> QED BY <3>1, <4>5 DEF Run
    <3>5. UNCHANGED row
      BY <2>3 DEF Retire
    <3> QED BY <3>3, <3>4, <3>5 DEF Scheduled, ScheduleTypes
  <2>4. CASE WriteBack(s)
    <3>1. exec[s] \in Run
      BY <2>4 DEF WriteBack, Fired
    <3>2. exec[s].row \in Row
      BY <3>1 DEF Run
    <3>3. /\ exec' = [exec EXCEPT ![s] = None]
          /\ row' = row \/ (row # None /\ row' = exec[s].row)
      BY <2>4 DEF WriteBack, Leave, Store
    <3> QED BY <3>2, <3>3, RowFields DEF Scheduled, ScheduleTypes
  <2> QED BY <2>1, <2>2, <2>3, <2>4
<1> QED BY <1>1, <1>2 DEF Scheduled, ScheduleTypes, EntryHasRow

Calls == {None, [kind |-> "delete"]} \cup Edit

\* The request goes on with what it may rely on next.
EditGoesOn(u) ==
  \E k \in Calls :
    /\ req' = [req EXCEPT ![u] = k]
    /\ row' \in Row \cup {None}
    /\ row' = None => entry' = 0
    /\ k.kind \in {"add", "cron"} => row' # None
    /\ k.kind = "delete" => entry' = 0
    /\ phase # "down" \/ k = None
    /\ UNCHANGED <<now, exec, phase>>

\* The steps of the one request there is.
LEMMA EditKeeps ==
  ASSUME Scheduled, \A u, v \in Users : u = v, NEW u \in Users,
         \/ \E on \in BOOLEAN : CreateSchedule(u, on) \/ UpdateSchedule(u, on)
         \/ AddSchedule(u) \/ SaveRow(u) \/ UpdateCron(u)
         \/ DeleteSchedule(u) \/ DeleteRow(u)
  PROVE  Scheduled'
<1>0. /\ req[u] \in Calls /\ now \in Nat /\ row \in Row \cup {None}
      /\ None \in Calls /\ [kind |-> "delete"] \in Calls /\ None.kind = "none"
      /\ row = None => entry = 0
      /\ req[u].kind \in {"add", "cron"} => row # None
      /\ req[u].kind = "delete" => entry = 0
      /\ phase = "down" => req[u] = None
  BY DEF Scheduled, ScheduleTypes, EntryHasRow, Calls, None
<1>1. EditGoesOn(u)
  <2>1. ASSUME NEW on \in BOOLEAN, CreateSchedule(u, on) PROVE EditGoesOn(u)
    <3>1. row' = [kind |-> "row", on |-> on, next |-> 0, last |-> 0] /\ row' \in Row /\ row' # None
      BY <2>1 DEF CreateSchedule, Row, None
    <3>2. [kind |-> "add", row |-> row'] \in Calls
      BY <3>1 DEF Edit, Calls
    <3> QED BY <1>0, <2>1, <3>1, <3>2 DEF CreateSchedule, Accept, EditGoesOn
  <2>2. ASSUME NEW on \in BOOLEAN, UpdateSchedule(u, on) PROVE EditGoesOn(u)
    <3>1. row \in Row
      BY <1>0, <2>2 DEF UpdateSchedule
    <3>2. [row EXCEPT !.on = on] \in Row
      BY <3>1 DEF Row
    <3>3. [kind |-> "save", row |-> [row EXCEPT !.on = on]] \in Calls
      BY <3>2 DEF Edit, Calls
    <3> QED BY <1>0, <2>2, <3>3 DEF UpdateSchedule, Accept, EditGoesOn
  <2>3. CASE SaveRow(u)
    <3>1. req[u] \in Edit /\ req[u].row \in Row
      BY <1>0, <2>3 DEF SaveRow, Calls, Edit
    <3>2. [kind |-> "cron", row |-> req[u].row] \in Calls
      BY <3>1 DEF Edit, Calls
    <3>3. phase # "down" /\ UNCHANGED <<now, exec, phase, entry>> /\ req[u].row # None
      BY <1>0, <2>3, <3>1, RowFields DEF SaveRow, sched
    <3>4. \/ row' = row /\ req' = [req EXCEPT ![u] = None]
          \/ /\ row # None /\ row' = req[u].row
             /\ req' = [req EXCEPT ![u] = [kind |-> "cron", row |-> req[u].row]]
      BY <2>3 DEF SaveRow
    <3> QED BY <1>0, <3>1, <3>2, <3>3, <3>4 DEF EditGoesOn
  <2>4. CASE AddSchedule(u) \/ UpdateCron(u)
    <3>1. req[u] \in Edit /\ req[u].row \in Row /\ row # None
      BY <1>0, <2>4 DEF AddSchedule, UpdateCron, Calls, Edit
    <3>2. WithNext(req[u].row) \in Row /\ WithNext(req[u].row) # None
      <4>1. now + 1 \in Nat /\ req[u].row.on \in BOOLEAN
        BY <1>0, <3>1 DEF Row
      <4>2. [req[u].row EXCEPT !.next = now + 1] \in Row
        BY <3>1, <4>1, RowFields
      <4>3. \A r \in Row : r # None
        BY DEF Row, None
      <4> QED BY <3>1, <4>2, <4>3 DEF WithNext
    <3>3. row' \in Row /\ row' # None
      BY <1>0, <2>4, <3>1, <3>2 DEF AddSchedule, UpdateCron, Store
    <3>4. req' = [req EXCEPT ![u] = None] /\ UNCHANGED <<now, exec, phase>>
      BY <2>4 DEF AddSchedule, UpdateCron
    <3> QED BY <1>0, <3>3, <3>4 DEF EditGoesOn
  <2>5. CASE DeleteSchedule(u)
    <3>1. entry' = 0
      BY <2>5 DEF DeleteSchedule, removeEntryLocked
    <3> QED BY <1>0, <2>5, <3>1 DEF DeleteSchedule, Accept, EditGoesOn
  <2>6. CASE DeleteRow(u)
    BY <1>0, <2>6 DEF DeleteRow, sched, EditGoesOn
  <2> QED BY <2>1, <2>2, <2>3, <2>4, <2>5, <2>6
<1>2. PICK k \in Calls :
        /\ req' = [req EXCEPT ![u] = k]
        /\ row' \in Row \cup {None}
        /\ row' = None => entry' = 0
        /\ k.kind \in {"add", "cron"} => row' # None
        /\ k.kind = "delete" => entry' = 0
        /\ phase # "down" \/ k = None
        /\ UNCHANGED <<now, exec, phase>>
  BY <1>1 DEF EditGoesOn
<1>3. req' \in [Users -> Calls] /\ \A v \in Users : req'[v] = k
  BY <1>2 DEF Scheduled, ScheduleTypes, Calls
<1> QED BY <1>2, <1>3 DEF Scheduled, ScheduleTypes, EntryHasRow, Calls

\* With one request at a time every step keeps it, but the deletion of the
\* gameserver.
LEMMA ScheduledKept ==
  ASSUME \A u, v \in Users : u = v, Scheduled, [Next]_vars, ~DeleteGameserver
  PROVE  Scheduled'
<1> USE DEF Scheduled, ScheduleTypes, EntryHasRow
<1>1. CASE UNCHANGED <<now, row, exec, req, phase, entry>>
  BY <1>1
<1>2. CASE Start
  BY <1>2 DEF Start, sched, None
<1>3. CASE RecoverAll
  BY <1>3 DEF RecoverAll, sched
<1>4. CASE Crash
  BY <1>4 DEF Crash, None
<1>5. CASE catchUpMissed \/ Tick \/ TickDown
  <2>1. UNCHANGED <<row, req, phase, entry>> /\ now' \in Nat
    BY <1>5 DEF catchUpMissed, Tick, TickDown, sched
  <2>2. exec' \in [Slots -> {None} \cup Fired \cup Run]
    <3>1. \A by \in {"cron", "catchUp"} : [kind |-> "fired", by |-> by] \in Fired
      BY DEF Fired
    <3>2. CASE catchUpMissed
      BY <3>1, <3>2 DEF catchUpMissed, Begin
    <3>3. CASE Tick
      BY <3>1, <3>3 DEF Tick
    <3>4. CASE TickDown
      BY <3>4 DEF TickDown
    <3> QED BY <1>5, <3>2, <3>3, <3>4
  <2> QED BY <2>1, <2>2
<1>6. ASSUME NEW s \in Slots, GetSchedule(s) \/ Task(s) \/ Retire(s) \/ WriteBack(s)
      PROVE  Scheduled'
  BY <1>6, RunKeeps
<1>7. ASSUME NEW u \in Users,
             \/ \E on \in BOOLEAN : CreateSchedule(u, on) \/ UpdateSchedule(u, on)
             \/ AddSchedule(u) \/ SaveRow(u) \/ UpdateCron(u)
             \/ DeleteSchedule(u) \/ DeleteRow(u)
      PROVE  Scheduled'
  BY <1>7, EditKeeps
<1>8. CASE UNCHANGED vars
  BY <1>1, <1>8 DEF vars, sched
<1> HIDE DEF Scheduled, ScheduleTypes, EntryHasRow
<1> QED BY <1>2, <1>3, <1>4, <1>5, <1>6, <1>7, <1>8 DEF Next

ScheduleInv == "gameserver" \in lost \/ Scheduled

\* A schedule is created with its row.
LEMMA ScheduleStarts == Init => ScheduleInv
<1> SUFFICES ASSUME Init PROVE Scheduled
  BY DEF ScheduleInv
<1>1. /\ now = 0 /\ phase = "serving" /\ req = [u \in Users |-> None]
      /\ exec = [s \in Slots |-> None]
      /\ \/ row = None /\ entry = 0
         \/ row = [kind |-> "row", on |-> TRUE, next |-> 1, last |-> 0]
  BY DEF Init
<1>2. row \in Row \cup {None} /\ (row = None => entry = 0)
  <2>1. [kind |-> "row", on |-> TRUE, next |-> 1, last |-> 0] \in Row
    BY DEF Row
  <2>2. \A r \in Row : r # None
    BY RowFields
  <2> QED BY <1>1, <2>1, <2>2
<1>3. \A u \in Users : req[u].kind = "none"
  BY <1>1 DEF None
<1> QED BY <1>1, <1>2, <1>3 DEF Scheduled, ScheduleTypes, EntryHasRow

\* Every step keeps it with one request at a time.
LEMMA ScheduleKept ==
  ASSUME \A u, v \in Users : u = v, ScheduleInv, [Next]_vars PROVE ScheduleInv'
<1>1. "gameserver" \in lost => "gameserver" \in lost'
  BY DEF Next, vars, past, Start, RecoverAll, catchUpMissed, Crash, Tick, TickDown, GetSchedule,
         Task, Retire, WriteBack, CreateSchedule, AddSchedule, UpdateSchedule, SaveRow,
         UpdateCron, DeleteSchedule, DeleteRow, DeleteGameserver
<1>2. DeleteGameserver => "gameserver" \in lost'
  BY DEF DeleteGameserver
<1> QED BY <1>1, <1>2, ScheduledKept DEF ScheduleInv

\* With one request at a time no cron entry outlives a row that was deleted as a
\* schedule, whatever runs of it are still going, whatever statement fails and
\* wherever the controller dies.  (With its gameserver's row it goes unnoticed.)
THEOREM NothingFiresWithoutRow ==
  ASSUME \A u, v \in Users : u = v PROVE Spec => []NoOrphanEntry
<1>1. Init => ScheduleInv
  BY ScheduleStarts
<1>2. ScheduleInv /\ [Next]_vars => ScheduleInv'
  BY ScheduleKept
<1>3. ScheduleInv => NoOrphanEntry
  BY DEF ScheduleInv, Scheduled, EntryHasRow, NoOrphanEntry
<1> QED BY <1>1, <1>2, <1>3, PTL DEF Spec

-----------------------------------------------------------------------------
(* Why no backup or update is owed untried once the catch-up is over, when    *)
(* nobody edits the schedule: next_run is never ahead of a run that was not   *)
(* tried.                                                                     *)

Unedited == shouldCatchUp /\ ~OneShot /\ Users = {}

\* A row that is due by the next tick at the latest, and has not run since.
OnTime(r) ==
  /\ r \in Row /\ r.on
  /\ r.next # 0 /\ r.next <= now + 1 /\ r.last <= r.next

Tried == owed \in {"no", "failed"}

CaughtUp ==
  /\ now \in Nat /\ (Tried \/ owed = "missed") /\ ids \in Nat
  /\ exec \in [Slots -> {None} \cup Fired \cup Run]
  /\ phase = "down" => catchUp = "no" /\ \A s \in Slots : exec[s] = None
  /\ phase # "down" => entry # 0
  /\ OnTime(row)
  /\ \A s \in Slots : exec[s].kind \in {"task", "retire", "write"} => OnTime(exec[s].row)
  /\ \A s \in Slots : exec[s].kind \in {"retire", "write"} => Tried
  /\ owed = "missed" => row.next <= now
  /\ catchUp = "done" => Tried

\* A schedule that was never created owes nothing either.
CatchUpInv ==
  \/ "schedule" \in lost
  \/ ~made /\ row = None /\ owed = "no"
  \/ CaughtUp

\* A new schedule is due at the next tick and owes nothing.
LEMMA CatchUpStarts == ASSUME Init PROVE CatchUpInv
<1> SUFFICES ASSUME made PROVE CaughtUp
  BY DEF Init, CatchUpInv
<1>1. /\ now = 0 /\ owed = "no" /\ ids = 1 /\ entry = 1 /\ phase = "serving"
      /\ row = [kind |-> "row", on |-> TRUE, next |-> 1, last |-> 0]
      /\ exec = [s \in Slots |-> None]
  BY DEF Init
<1>2. OnTime(row)
  BY <1>1 DEF OnTime, Row
<1>3. exec \in [Slots -> {None} \cup Fired \cup Run] /\ \A s \in Slots : exec[s].kind = "none"
  BY <1>1 DEF None
<1>4. Tried /\ owed # "missed"
  BY <1>1 DEF Tried
<1>5. now \in Nat /\ ids \in Nat /\ entry # 0 /\ phase # "down"
  BY <1>1
<1> QED BY <1>2, <1>3, <1>4, <1>5 DEF CaughtUp

\* A run writes the next due time only after its task was tried.
LEMMA RunCatchesUp ==
  ASSUME Unedited, CaughtUp, NEW s \in Slots,
         GetSchedule(s) \/ Task(s) \/ Retire(s) \/ WriteBack(s)
  PROVE  CaughtUp'
<1>1. /\ exec[s] \in Fired \cup Run /\ exec[s] # None
      /\ phase # "down" /\ UNCHANGED <<phase, now>>
  <2>1. exec[s].kind \in {"fired", "task", "retire", "write"} /\ UNCHANGED <<phase, now>>
    BY DEF GetSchedule, Task, Retire, WriteBack
  <2>2. exec[s] # None
    BY <2>1 DEF None
  <2> QED BY <2>1, <2>2 DEF CaughtUp
<1>2. UNCHANGED <<cron, entry, ids>>
  BY DEF Unedited, GetSchedule, Task, Retire, WriteBack, sched
<1>3. row # None /\ row \in Row
  BY DEF CaughtUp, OnTime, Row, None
<1>4. ASSUME NEW k \in {None} \cup Fired \cup Run, exec' = [exec EXCEPT ![s] = k],
             k.kind \in {"task", "retire", "write"} => OnTime(k.row),
             k.kind \in {"retire", "write"} => Tried',
             row' = row \/ (OnTime(row') /\ Tried'),
             owed' = owed \/ Tried',
             catchUp' = "done" => Tried'
      PROVE  CaughtUp'
  <2>1. /\ exec' \in [Slots -> {None} \cup Fired \cup Run]
        /\ exec'[s] = k /\ \A t \in Slots \ {s} : exec'[t] = exec[t]
    BY <1>4 DEF CaughtUp
  <2>2. OnTime(row)' /\ (owed' = "missed" => row'.next <= now')
    BY <1>1, <1>4 DEF CaughtUp, OnTime, Tried
  <2>3. \A t \in Slots : exec'[t].kind \in {"task", "retire", "write"} => OnTime(exec[t].row)'
    BY <1>1, <1>4, <2>1 DEF CaughtUp, OnTime
  <2>4. \A t \in Slots : exec'[t].kind \in {"retire", "write"} => Tried'
    BY <1>4, <2>1 DEF CaughtUp, Tried
  <2>5. (Tried \/ owed = "missed")'
    BY <1>4 DEF CaughtUp, Tried
  <2> QED BY <1>1, <1>2, <1>4, <2>1, <2>2, <2>3, <2>4, <2>5 DEF CaughtUp
<1>5. CASE GetSchedule(s)
  <2>1. PICK k : k = [kind |-> "task", by |-> exec[s].by, row |-> row]
    OBVIOUS
  <2>2. k \in Run /\ k.kind = "task" /\ k.row = row /\ OnTime(row)
    BY <1>1, <1>3, <1>5, <2>1 DEF GetSchedule, Run, Fired, CaughtUp
  <2>3. CASE exec' = [exec EXCEPT ![s] = k] /\ UNCHANGED <<row, owed, catchUp>>
    <3>1. catchUp' = "done" => Tried'
      BY <2>3 DEF CaughtUp, Tried
    <3> QED BY <1>4, <2>2, <2>3, <3>1
  <2>4. CASE /\ Leave(s) /\ UNCHANGED row
             /\ owed' = IF exec[s].by = "catchUp" THEN Failing ELSE owed
    <3>1. exec' = [exec EXCEPT ![s] = None] /\ None.kind = "none"
      BY <2>4 DEF Leave, None
    <3>2. owed' = owed \/ Tried'
      BY <2>4 DEF Failing, Tried
    <3>3. catchUp' = "done" => Tried'
      BY <2>4 DEF Leave, Failing, Tried, CaughtUp
    <3> QED BY <1>4, <2>4, <3>1, <3>2, <3>3
  <2> QED BY <1>5, <2>1, <2>3, <2>4 DEF GetSchedule
<1>6. CASE Task(s)
  <2>1. PICK k : k = [exec[s] EXCEPT !.kind = "retire"]
    OBVIOUS
  <2>2. k \in Run /\ k.kind = "retire" /\ k.row = exec[s].row /\ exec[s].kind = "task"
    BY <1>1, <1>6, <2>1 DEF Task, Run, Fired
  <2>3. exec' = [exec EXCEPT ![s] = k] /\ UNCHANGED <<row, catchUp>> /\ Tried'
    BY <1>6, <2>1 DEF Task, Failing, Tried, CaughtUp
  <2> QED BY <1>4, <2>2, <2>3 DEF CaughtUp
<1>7. CASE Retire(s)
  <2>0. entry # 0 /\ exec[s].kind = "retire" /\ exec[s] \in Run /\ now \in Nat /\ Tried
        /\ exec[s].row \in Row /\ exec[s].row.on
    BY <1>1, <1>7 DEF Retire, CaughtUp, Run, Fired, OnTime
  <2>1. PICK r : r = [exec[s].row EXCEPT !.last = now, !.on = TRUE, !.next = now + 1]
    OBVIOUS
  <2>2. OnTime(r)
    <3>1. r \in Row
      <4>1. exec[s].row \in Row /\ TRUE \in BOOLEAN /\ now + 1 \in Nat /\ now \in Nat
        BY <2>0
      <4>2. [exec[s].row EXCEPT !.last = now, !.on = TRUE, !.next = now + 1] \in Row
        BY <4>1, RowFields
      <4> QED BY <2>1, <4>2
    <3>2. r.next = now + 1 /\ r.last = now
      BY <2>0, <2>1 DEF Row
    <3>3. r.on
      BY <2>0, <2>1 DEF Row
    <3> QED BY <2>0, <3>1, <3>2, <3>3 DEF OnTime
  <2>3. PICK k : k = [exec[s] EXCEPT !.kind = "write", !.row = r]
    OBVIOUS
  <2>4. k \in Run /\ k.kind = "write" /\ k.row = r
    BY <2>0, <2>2, <2>3 DEF Run, OnTime
  <2>5. exec' = [exec EXCEPT ![s] = k] /\ UNCHANGED <<row, owed, catchUp>> /\ Tried'
    BY <1>7, <2>0, <2>1, <2>3 DEF Retire, Unedited, Tried
  <2> QED BY <1>4, <2>2, <2>4, <2>5
<1>8. CASE WriteBack(s)
  <2>1. exec[s].kind = "write" /\ Tried /\ OnTime(exec[s].row)
    BY <1>8 DEF WriteBack, CaughtUp
  <2>2. /\ row' = row \/ row' = exec[s].row
        /\ exec' = [exec EXCEPT ![s] = None] /\ None.kind = "none" /\ Tried'
    BY <1>8, <2>1 DEF WriteBack, Store, Leave, None, Tried
  <2>3. row' = row \/ OnTime(row')
    BY <2>1, <2>2 DEF OnTime
  <2> QED BY <1>4, <2>2, <2>3
<1> QED BY <1>5, <1>6, <1>7, <1>8

\* While the controller is down runs are missed; what it then finds in the row
\* says so.
LEMMA CaughtUpKept ==
  ASSUME Unedited, CaughtUp, [Next]_vars, "schedule" \notin lost' PROVE CaughtUp'
<1>0. row # None /\ row.on /\ row.next \in Nat /\ row.last \in Nat /\ now \in Nat /\ ids \in Nat
  BY DEF CaughtUp, OnTime, Row, None
<1>1. CASE Start
  <2>1. entry' # 0 /\ phase' # "down" /\ catchUp' = "todo" /\ ids' \in Nat
    BY <1>0, <1>1 DEF Start, AddEntry
  <2> QED BY <1>1, <2>1 DEF Start, CaughtUp, OnTime, Tried
<1>2. CASE RecoverAll
  BY <1>2 DEF RecoverAll, sched, CaughtUp, OnTime, Tried
<1>3. CASE catchUpMissed
  <2>0. UNCHANGED <<phase, now, row, cron, entry, ids>> /\ phase # "down"
    BY <1>3 DEF catchUpMissed, sched, CaughtUp
  <2>1. CASE catchUp' = "running" /\ UNCHANGED owed
    <3>1. PICK s \in Slots : exec[s] = None /\ exec' = [exec EXCEPT ![s] = [kind |-> "fired", by |-> "catchUp"]]
      BY <1>3, <2>1 DEF catchUpMissed, Begin
    <3>2. [kind |-> "fired", by |-> "catchUp"] \in Fired
      BY DEF Fired
    <3>3. exec' \in [Slots -> {None} \cup Fired \cup Run]
      BY <3>1, <3>2 DEF CaughtUp
    <3>4. \A t \in Slots : exec'[t] = exec[t] \/ exec'[t].kind = "fired"
      BY <3>1 DEF CaughtUp
    <3> QED BY <2>0, <2>1, <3>3, <3>4 DEF CaughtUp, OnTime, Tried
  <2>2. CASE ~Missed /\ UNCHANGED <<exec, owed>> /\ catchUp' = "done"
    <3>1. owed # "missed"
      BY <1>0, <2>2 DEF Missed, CaughtUp, OnTime
    <3> QED BY <2>0, <2>2, <3>1 DEF CaughtUp, OnTime, Tried
  <2>3. CASE owed' = Failing /\ UNCHANGED exec /\ catchUp' = "done"
    <3>1. Tried' /\ owed' # "missed"
      BY <2>3 DEF Failing, CaughtUp, Tried
    <3> QED BY <2>0, <2>3, <3>1 DEF CaughtUp, OnTime
  <2> QED BY <1>3, <2>1, <2>2, <2>3 DEF catchUpMissed, Unedited
<1>4. CASE Crash
  <2>1. /\ exec' = [s \in Slots |-> None] /\ phase' = "down" /\ catchUp' = "no"
        /\ UNCHANGED <<now, row, owed, ids>>
    BY <1>4 DEF Crash
  <2>2. exec' \in [Slots -> {None} \cup Fired \cup Run] /\ \A s \in Slots : exec'[s] = None
    BY <2>1
  <2>3. \A s \in Slots : exec'[s].kind = "none"
    BY <2>2 DEF None
  <2> QED BY <2>1, <2>2, <2>3 DEF CaughtUp, OnTime, Tried
<1>5. CASE Tick
  <2>1. /\ now' = now + 1 /\ UNCHANGED <<phase, row, cron, entry, ids, catchUp, owed>> /\ phase # "down"
        /\ \E S \in SUBSET Free :
             exec' = [s \in Slots |-> IF s \in S THEN [kind |-> "fired", by |-> "cron"] ELSE exec[s]]
    BY <1>5 DEF Tick, sched
  <2>2. [kind |-> "fired", by |-> "cron"] \in Fired
    BY DEF Fired
  <2>3. /\ exec' \in [Slots -> {None} \cup Fired \cup Run]
        /\ \A s \in Slots : exec'[s] = exec[s] \/ exec'[s].kind = "fired"
    BY <2>1, <2>2 DEF CaughtUp
  <2>4. \A r : OnTime(r) => r \in Row /\ r.on /\ r.next # 0 /\ r.next <= now' + 1 /\ r.last <= r.next
    BY <1>0, <2>1 DEF OnTime, Row
  <2>5. OnTime(row)' /\ (owed' = "missed" => row'.next <= now')
    BY <1>0, <2>1, <2>4 DEF CaughtUp, OnTime
  <2>6. \A s \in Slots : exec'[s].kind \in {"task", "retire", "write"} => OnTime(exec[s].row)'
    BY <2>3, <2>4 DEF CaughtUp, OnTime
  <2>7. \A s \in Slots : exec'[s].kind \in {"retire", "write"} => Tried'
    BY <2>1, <2>3 DEF CaughtUp, Tried
  <2> QED BY <1>0, <2>1, <2>3, <2>5, <2>6, <2>7 DEF CaughtUp, Tried
<1>6. CASE TickDown
  <2>1. /\ now' = now + 1 /\ UNCHANGED <<phase, row, cron, entry, ids, exec, catchUp>> /\ phase = "down"
        /\ (Tried \/ owed = "missed")'
    BY <1>6 DEF TickDown, sched, CaughtUp, Tried
  <2>2. catchUp' # "done" /\ \A s \in Slots : exec'[s].kind = "none"
    BY <2>1 DEF CaughtUp, None
  <2>3. OnTime(row)' /\ row'.next <= now'
    BY <1>0, <2>1 DEF CaughtUp, OnTime
  <2> QED BY <1>0, <2>1, <2>2, <2>3 DEF CaughtUp
<1>7. CASE UNCHANGED vars
  BY <1>7 DEF vars, CaughtUp, OnTime, Tried
<1>8. CASE DeleteGameserver
  BY <1>8 DEF DeleteGameserver, Unedited
<1> QED BY <1>1, <1>2, <1>3, <1>4, <1>5, <1>6, <1>7, <1>8, RunCatchesUp DEF Next, Unedited

\* A schedule the scheduler did not list stays so, and one that nobody creates
\* is never missed.
LEMMA CatchUpKept == ASSUME Unedited, CatchUpInv, [Next]_vars PROVE CatchUpInv'
<1>1. "schedule" \in lost => "schedule" \in lost'
  BY DEF Next, vars, past, Start, RecoverAll, catchUpMissed, Crash, Tick, TickDown, GetSchedule,
         Task, Retire, WriteBack, DeleteGameserver, Unedited
<1>2. ASSUME ~made, row = None, owed = "no" PROVE (~made /\ row = None /\ owed = "no")'
  <2>1. UNCHANGED made
    BY DEF Next, vars, past, Start, RecoverAll, catchUpMissed, Crash, Tick, TickDown,
           GetSchedule, Task, Retire, WriteBack, DeleteGameserver, Unedited
  <2>2. UNCHANGED row
    BY <1>2 DEF Next, vars, Start, RecoverAll, catchUpMissed, Crash, Tick, TickDown,
                GetSchedule, Task, Retire, WriteBack, Store, DeleteGameserver, Unedited
  <2>3. UNCHANGED owed
    BY <1>2 DEF Next, vars, Start, RecoverAll, catchUpMissed, Crash, Tick, TickDown,
                GetSchedule, Task, Retire, WriteBack, Failing, DeleteGameserver, Unedited
  <2> QED BY <1>2, <2>1, <2>2, <2>3
<1> QED BY <1>1, <1>2, CaughtUpKept DEF CatchUpInv

\* A schedule of backups or updates that nobody edits, and that each start could
\* list, owes no run that was not tried once the catch-up is over, whichever step
\* of a run or of the catch-up a crash interrupts or a failing statement spoils.
THEOREM MissedRunsAreMadeUp == ASSUME Unedited PROVE Spec => []MissedRunsOnStartup
<1>1. Init => CatchUpInv
  BY CatchUpStarts
<1>2. CatchUpInv /\ [Next]_vars => CatchUpInv'
  BY CatchUpKept
<1>3. CatchUpInv => MissedRunsOnStartup
  BY DEF CatchUpInv, CaughtUp, Tried, MissedRunsOnStartup
<1> QED BY <1>1, <1>2, <1>3, PTL DEF Spec
=============================================================================
