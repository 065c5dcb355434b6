------------------------------ MODULE DBBackup ------------------------------
(* The scheduler that copies the controller's database to the backup storage *)
(* (controller/backup/dbbackup.go).  A backup is named by the second it was  *)
(* begun in, so a name is a time; sorting names sorts backups by age.        *)
EXTENDS Naturals, FiniteSets, FiniteSetsExt

CONSTANTS Retain,      \* retain of the configuration
          S3,          \* the storage backend: S3Storage or LocalStorage
          MaxTime,     \* bound: seconds
          MaxCrashes   \* bound: restarts of the controller

VARIABLES now,      \* the clock
          pc,       \* where the scheduler's goroutine is
          id,       \* the name of the backup being made
          stored,   \* stored objects, name -> "partial" or "whole"
          doomed,   \* names pruneOld has still to delete
          crashes,
          made      \* history: a backup has been completed

vars == <<now, pc, id, stored, doomed, crashes, made>>

retain == IF Retain <= 0 THEN 3 ELSE Retain

Init ==
  /\ now = 1
  /\ pc = "start"
  /\ id = 0
  /\ stored = [t \in {} |-> "whole"]
  /\ doomed = {}
  /\ crashes = 0
  /\ made = FALSE

Put(t, c) == [x \in DOMAIN stored \cup {t} |-> IF x = t THEN c ELSE stored[x]]
Del(T)    == [x \in DOMAIN stored \ T |-> stored[x]]

\* Mutant: the name is taken from a clock that is ahead.
BeginAhead ==
  /\ id' = now + 1
  /\ pc' = "saving"
  /\ stored' = IF S3 THEN stored ELSE Put(now + 1, "partial")
  /\ UNCHANGED <<now, doomed, crashes, made>>

\* run: VACUUM INTO a temporary file may fail; otherwise Save begins.
Begin ==
  /\ id' = now
  /\ \/ /\ pc' = "saving"
        /\ stored' = IF S3 THEN stored ELSE Put(now, "partial")
     \/ pc' = "waiting" /\ UNCHANGED stored
  /\ UNCHANGED <<now, doomed, crashes, made>>

\* Start: one backup at once, then one per tick of the interval.
Start == pc = "start" /\ Begin
Tick  == pc = "waiting" /\ now > id /\ Begin

\* Save ends: with an error the local file is removed and nothing is pruned.
Save ==
  /\ pc = "saving"
  /\ \/ stored' = Put(id, "whole") /\ pc' = "prune" /\ made' = TRUE
     \/ stored' = Del({id}) /\ pc' = "waiting" /\ UNCHANGED made
  /\ UNCHANGED <<now, id, doomed, crashes>>

\* Mutant: the sorted list is cut at the wrong end.
NewestFirst(names) ==
  {t \in names : Cardinality({x \in names : x < t}) >= retain}

\* entries[:len(entries)-retain] of the sorted list.
TooOld(names) ==
  {t \in names : Cardinality({x \in names : x > t}) >= retain}

\* pruneOld: the storage is listed (the listing may fail) ...
ListOld ==
  /\ pc = "prune"
  /\ \/ doomed' = TooOld(DOMAIN stored) /\ pc' = "deleting"
     \/ pc' = "waiting" /\ UNCHANGED doomed
  /\ UNCHANGED <<now, id, stored, crashes, made>>

\* ... and the names beyond retain deleted one by one; an error is logged.
PruneOld ==
  /\ pc = "deleting"
  /\ IF doomed = {}
     THEN pc' = "waiting" /\ UNCHANGED <<stored, doomed>>
     ELSE /\ stored' \in {stored, Del({Min(doomed)})}
          /\ doomed' = doomed \ {Min(doomed)}
          /\ UNCHANGED pc
  /\ UNCHANGED <<now, id, crashes, made>>

\* Time passes.
Clock ==
  /\ now < MaxTime
  /\ now' = now + 1
  /\ UNCHANGED <<pc, id, stored, doomed, crashes, made>>

\* The controller dies and is started again, at least a second later.
Crash ==
  /\ crashes < MaxCrashes
  /\ now < MaxTime
  /\ now' = now + 1
  /\ crashes' = crashes + 1
  /\ pc' = "start"
  /\ doomed' = {}
  /\ UNCHANGED <<id, stored, made>>

Next == Start \/ Tick \/ Save \/ ListOld \/ PruneOld \/ Clock \/ Crash

Spec == Init /\ [][Next]_vars

-----------------------------------------------------------------------------
\* Every variable has its type.
TypeOK ==
  /\ now \in 1 .. MaxTime
  /\ pc \in {"start", "saving", "prune", "deleting", "waiting"}
  /\ id \in 0 .. now
  /\ DOMAIN stored \subseteq 1 .. now
  /\ doomed \subseteq 1 .. now

\* Once a database backup has been made, a whole one is always stored,
\* although a crash may leave unfinished ones that count towards retain.
WholeBackupKept == made => \E t \in DOMAIN stored : stored[t] = "whole"
=============================================================================
