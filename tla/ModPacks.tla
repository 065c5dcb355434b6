------------------------------ MODULE ModPacks ------------------------------
(* The modpack of one gameserver (mod/pack.go, PackDelivery in delivery.go,  *)
(* the pack parts of Uninstall and Reconcile): the files a pack brings and   *)
(* the rows that track them.  A mod keeps its file name from version to      *)
(* version of the pack; content is told apart by the number of its version.  *)
(* The operations run under the gameserver's lock, one at a time.            *)
EXTENDS Naturals, Sequences, FiniteSets, SequencesExt

CONSTANTS Mods,        \* mods in the file list of the pack's versions
          Jars,        \* mods among the override files
          Versions,    \* 1 .. n, versions of the pack
          None,
          Ops,         \* the operations that happen
          MaxOps,      \* bound: operations begun
          MaxFaults,   \* bound: deliveries and statements that fail
          MaxMishaps   \* bound: wiped volumes and controller restarts

VARIABLES contents,  \* version -> the content of every mod, 0 when not in it, and its jars
          row,       \* mod -> its row: version, version of its URL, in the pack; or None
          jarRow,    \* jars with a row
          pack,      \* the row of the pack: version, version of its URL, overrides; or None
          excluded,  \* pack_exclusions
          disk,      \* mod or jar -> the content of its file, 0 for none
          op,        \* the operation in progress
          logged,    \* history: the mods and jars a statement about which failed
                     \* and was only logged or ignored
          intact,    \* nothing has happened to the volume since the last clean operation
          begun, faults, mishaps

vars == <<contents, row, jarRow, pack, excluded, disk, op, logged, intact, begun,
          faults, mishaps>>

Files == Mods \cup Jars
Idle == [kind |-> "idle", ver |-> 0]

Init ==
  /\ contents \in [Versions -> [mods : [Mods -> 0 .. 2], jars : SUBSET Jars]]
  /\ row = [f \in Mods |-> None]
  /\ jarRow = {}
  /\ pack = None
  /\ excluded = {}
  /\ disk = [f \in Files |-> 0]
  /\ op = Idle
  /\ logged = {}
  /\ intact = TRUE
  /\ begun = 0
  /\ faults = 0
  /\ mishaps = 0

Tracked(f) == IF f \in Mods THEN row[f] # None ELSE f \in jarRow
InPack(f) == Tracked(f) /\ (f \in Mods => row[f].inPack)
In(v) == {f \in Mods : contents[v].mods[f] # 0}

Begin(kind, v) ==
  /\ kind \in Ops
  /\ begun < MaxOps
  /\ begun' = begun + 1
  /\ op = Idle
  /\ op' = [kind |-> kind, ver |-> v]

\* PackDelivery.Install on a volume with the files d: the mods of the version
\* are downloaded to their paths and the overrides extracted.
Delivered(d, v) ==
  [f \in Files |-> IF f \in In(v) THEN contents[v].mods[f]
                   ELSE IF f \in contents[v].jars THEN v
                   ELSE d[f]]

\* When a download fails, the files before it are there.
HalfDelivered(d, v) ==
  {[f \in Files |-> IF f \in S THEN Delivered(d, v)[f] ELSE d[f]] : S \in SUBSET In(v)}

Fault == faults < MaxFaults /\ faults' = faults + 1

-----------------------------------------------------------------------------
\* A mod of the pack is installed by itself; see Mods.
InstallMod(f, content) ==
  /\ "installMod" \in Ops
  /\ begun < MaxOps
  /\ begun' = begun + 1
  /\ op = Idle
  /\ row[f] = None
  /\ disk' = [disk EXCEPT ![f] = content]
  /\ row' = [row EXCEPT ![f] = [ver |-> content, url |-> content, inPack |-> FALSE]]
  /\ UNCHANGED <<contents, jarRow, pack, excluded, op, logged, intact, faults, mishaps>>

\* InstallPack refuses a second pack.
InstallPack(v) ==
  /\ Begin("install", v)
  /\ pack = None
  /\ UNCHANGED <<contents, row, jarRow, pack, excluded, disk, logged, intact, faults, mishaps>>

\* UpdatePack to the newest version, if that is not the one installed.
UpdatePack(v) ==
  /\ Begin("update", v)
  /\ pack # None
  /\ v # pack.ver
  /\ UNCHANGED <<contents, row, jarRow, pack, excluded, disk, logged, intact, faults, mishaps>>

\* The delivery, before any row is written; an error ends the operation.
Deliver ==
  /\ op.kind \in {"install", "update"}
  /\ \/ /\ disk' = Delivered(disk, op.ver)
        /\ op' = [op EXCEPT !.kind = IF @ = "install" THEN "recordPack" ELSE "mergePack"]
        /\ UNCHANGED <<intact, faults>>
     \/ /\ Fault
        /\ disk' \in HalfDelivered(disk, op.ver)
        /\ op' = Idle
        /\ intact' = (pack = None)
  /\ UNCHANGED <<contents, row, jarRow, pack, excluded, logged, begun, mishaps>>

\* The files whose row a failing statement leaves as it is, of those that are
\* to change; the failure is logged, a warning at most.
Failing(changes, lost) ==
  /\ lost \in {{}} \cup {{f} : f \in changes}
  /\ IF lost = {} THEN UNCHANGED faults ELSE Fault
  /\ logged' = logged \cup lost

\* Mutant: a mod that was there before is left to itself.
RecordPackNew ==
  LET v == op.ver IN
  /\ op.kind = "recordPack"
  /\ pack' = [ver |-> v, url |-> v, overrides |-> contents[v].jars]
  /\ row' = [f \in Mods |->
               IF f \notin In(v) \/ row[f] # None THEN row[f]
               ELSE [ver |-> contents[v].mods[f], url |-> contents[v].mods[f], inPack |-> TRUE]]
  /\ jarRow' = contents[v].jars
  /\ op' = Idle
  /\ intact' = TRUE
  /\ UNCHANGED <<contents, excluded, disk, logged, begun, faults, mishaps>>

\* Mutant: the mods the server does without get rows too.
RecordPackAll ==
  LET v == op.ver IN
  /\ op.kind = "recordPack"
  /\ pack' = [ver |-> v, url |-> v, overrides |-> contents[v].jars]
  /\ row' = [f \in Mods |->
               IF row[f] # None THEN [row[f] EXCEPT !.inPack = TRUE, !.ver = contents[v].mods[f]]
               ELSE [ver |-> contents[v].mods[f], url |-> contents[v].mods[f], inPack |-> TRUE]]
  /\ jarRow' = contents[v].jars
  /\ op' = Idle
  /\ intact' = TRUE
  /\ UNCHANGED <<contents, excluded, disk, logged, begun, faults, mishaps>>

\* The rows of the pack, of its mods and of the jars among its overrides.  A
\* row there is becomes the pack's: its version changes and its URL does not.
\* The two writes of such a row may fail one by one.
RecordPack ==
  LET v == op.ver IN
  /\ op.kind = "recordPack"
  /\ \/ \E lost \in SUBSET Files, half \in BOOLEAN :
          /\ Failing(In(v) \cup contents[v].jars, lost)
          /\ pack' = [ver |-> v, url |-> v, overrides |-> contents[v].jars]
          /\ row' = [f \in Mods |->
               CASE f \notin In(v) -> row[f]
                 [] f \in In(v) /\ row[f] = None ->
                      IF f \in lost THEN None
                      ELSE [ver |-> contents[v].mods[f], url |-> contents[v].mods[f], inPack |-> TRUE]
                 [] f \in In(v) /\ row[f] # None ->
                      [row[f] EXCEPT !.inPack = IF f \in lost /\ half THEN @ ELSE TRUE,
                                     !.ver = IF f \in lost /\ ~half THEN @ ELSE contents[v].mods[f]]]
          /\ jarRow' = contents[v].jars \ lost
          /\ intact' = TRUE
     \/ /\ Fault    \* the pack's own row: an error
        /\ UNCHANGED <<pack, row, jarRow, intact, logged>>
  /\ op' = Idle
  /\ UNCHANGED <<contents, excluded, disk, begun, mishaps>>

\* UpdatePack looks at the new version's mods in turn.  One that is excluded or
\* unchanged is passed over; for one that changed, the file is deleted and the
\* row replaced; one the user has installed by himself ends the update, since
\* the index refuses a second row.
MergeMod(acc, f) ==
  LET new == contents[op.ver].mods[f]
      old == acc.row[f]
  IN
  IF ~acc.ok \/ f \in excluded \/ (old # None /\ old.inPack /\ old.ver = new) THEN acc
  ELSE IF old # None /\ ~old.inPack THEN [acc EXCEPT !.ok = FALSE]
  ELSE [acc EXCEPT !.row[f] = [ver |-> new, url |-> new, inPack |-> TRUE],
                   !.disk[f] = IF old = None THEN @ ELSE 0]

\* Before that, the mods and jars of the pack whose file name is not in the new
\* version's file list go, file and row.  The pack's row gets the new version;
\* its URL and its overrides stay as they were.  A statement that fails ends the
\* update at any of the mods.
MergePack ==
  LET v == op.ver
      dropped == {f \in Files : InPack(f) /\ f \notin In(v)}
      start == [row |-> [f \in Mods |-> IF f \in dropped THEN None ELSE row[f]],
                disk |-> [f \in Files |-> IF f \in dropped THEN 0 ELSE disk[f]],
                ok |-> TRUE]
  IN
  /\ op.kind = "mergePack"
  /\ \E upTo \in 0 .. Cardinality(In(v)) :
       LET end == FoldLeft(MergeMod, start, SubSeq(SetToSeq(In(v)), 1, upTo))
           all == upTo = Cardinality(In(v)) /\ end.ok
       IN /\ IF upTo = Cardinality(In(v)) THEN UNCHANGED faults ELSE Fault
          /\ row' = end.row
          /\ disk' = end.disk
          /\ pack' = IF all THEN [pack EXCEPT !.ver = v] ELSE pack
          /\ intact' = all
  /\ jarRow' = {}
  /\ op' = Idle
  /\ UNCHANGED <<contents, excluded, logged, begun, mishaps>>

\* Uninstall of a mod or of an override jar: one of the pack is excluded from
\* its updates.  An exclusion that is not written is ignored (there is none for
\* a pack that is gone); a row that is not deleted is an error.
UninstallMod(f) ==
  /\ "uninstallMod" \in Ops
  /\ begun < MaxOps
  /\ begun' = begun + 1
  /\ op = Idle
  /\ Tracked(f)
  /\ \E lost \in {{}, {f}}, kept \in BOOLEAN :
       /\ Failing({f}, lost)
       /\ kept => lost = {f}
       /\ excluded' = IF InPack(f) /\ pack # None /\ (lost = {} \/ kept) THEN excluded \cup {f} ELSE excluded
       /\ row' = [g \in Mods |-> IF g = f /\ ~kept THEN None ELSE row[g]]
       /\ jarRow' = IF kept THEN jarRow ELSE jarRow \ {f}
  /\ disk' = [disk EXCEPT ![f] = 0]
  /\ UNCHANGED <<contents, pack, op, intact, mishaps>>

\* Mutant: only the rows the pack made itself go.
UninstallPackOwn ==
  LET gone == {f \in Files : InPack(f) /\ (f \in Mods => row[f].url = row[f].ver)} IN
  /\ "uninstall" \in Ops
  /\ begun < MaxOps
  /\ begun' = begun + 1
  /\ op = Idle
  /\ pack # None
  /\ row' = [f \in Mods |-> IF f \in gone THEN None ELSE row[f]]
  /\ disk' = [f \in Files |-> IF f \in gone \cup pack.overrides THEN 0 ELSE disk[f]]
  /\ jarRow' = {}
  /\ pack' = None
  /\ excluded' = {}
  /\ intact' = TRUE
  /\ UNCHANGED <<contents, op, logged, faults, mishaps>>

\* Uninstall of the pack: all rows linked to it with their files, and the
\* override files its row lists.  A row or a file that does not go is ignored,
\* unless it is the pack's own row; the exclusions go with that.
UninstallPack ==
  LET gone == {f \in Files : InPack(f)} IN
  /\ "uninstall" \in Ops
  /\ begun < MaxOps
  /\ begun' = begun + 1
  /\ op = Idle
  /\ pack # None
  /\ \E kept \in SUBSET gone, file \in BOOLEAN :
       /\ \/ Failing(gone, kept) /\ pack' = None /\ excluded' = {} /\ intact' = TRUE
          \/ kept = {} /\ Fault /\ intact' = FALSE /\ UNCHANGED <<pack, excluded, logged>>
       /\ row' = [f \in Mods |-> IF f \in gone /\ (f \notin kept \/ file) THEN None ELSE row[f]]
       /\ jarRow' = IF file THEN {} ELSE jarRow \cap kept
       /\ disk' = [f \in Files |-> IF f \in gone \cup pack.overrides /\ ~(file /\ f \in kept)
                                   THEN 0 ELSE disk[f]]
  /\ UNCHANGED <<contents, op, mishaps>>

\* Reconcile downloads the mods whose file is missing from their row's URL, one
\* at a time and going on after a failure, and, when it recovered one, delivers
\* the version of the pack's URL again.  A jar among the overrides has no URL.
Reconcile ==
  LET tracked == {f \in Mods : row[f] # None}
      missing == {f \in tracked : disk[f] = 0}
      Recovered(S) == [f \in Files |-> IF f \in S THEN row[f].url ELSE disk[f]]
  IN
  /\ "reconcile" \in Ops
  /\ begun < MaxOps
  /\ begun' = begun + 1
  /\ op = Idle
  /\ \/ /\ disk' = IF pack # None /\ missing # {} THEN Delivered(Recovered(missing), pack.url)
                   ELSE Recovered(missing)
        /\ intact' = (intact \/ (missing # {} /\ missing = tracked))
        /\ UNCHANGED faults
     \/ /\ Fault
        /\ \E S \in SUBSET missing :
             disk' \in IF pack # None /\ S # {} THEN HalfDelivered(Recovered(S), pack.url)
                      ELSE {Recovered(S)}
        /\ intact' = FALSE
  /\ UNCHANGED <<contents, row, jarRow, pack, excluded, op, logged, mishaps>>

-----------------------------------------------------------------------------
Mishap == mishaps < MaxMishaps /\ mishaps' = mishaps + 1

\* The volume is emptied.
Wipe ==
  /\ Mishap
  /\ op = Idle
  /\ disk' = [f \in Files |-> 0]
  /\ intact' = FALSE
  /\ UNCHANGED <<contents, row, jarRow, pack, excluded, op, logged, begun, faults>>

\* The controller dies in the middle of an operation.
Crash ==
  /\ Mishap
  /\ op # Idle
  /\ op' = Idle
  /\ intact' = (pack = None)
  /\ UNCHANGED <<contents, row, jarRow, pack, excluded, disk, logged, begun, faults>>

Next ==
  \/ \E f \in Files : UninstallMod(f)
  \/ \E f \in Mods, content \in 1 .. 2 : InstallMod(f, content)
  \/ \E v \in Versions : InstallPack(v) \/ UpdatePack(v)
  \/ Deliver \/ RecordPack \/ MergePack \/ UninstallPack \/ Reconcile
  \/ Wipe \/ Crash

Spec == Init /\ [][Next]_vars

-----------------------------------------------------------------------------
\* Every variable has its type; a row can be in a pack only while there is one.
TypeOK ==
  /\ disk \in [Files -> 0 .. 2]
  /\ jarRow \subseteq Jars
  /\ excluded \subseteq Files
  /\ \A f \in Mods : row[f] # None => row[f].ver \in 1 .. 2 /\ row[f].url \in 1 .. 2

\* Rows and exclusions of a pack go with it, whatever was installed before the
\* pack, taken out of it or added beside it: nothing is left that names a pack
\* that is gone, but rows whose deletion failed, which is ignored.
PackRowsHavePack ==
  pack = None /\ op = Idle =>
    excluded = {} /\ \A f \in Files : InPack(f) => f \in logged

\* While a pack is installed and nothing has happened to the volume since the
\* last operation that succeeded, every mod of its version is on the volume
\* with the content of that version and has a row that says so, unless the user
\* took it out or a statement about the row failed, which is only a warning;
\* and so are its override jars.  Deliveries that fail half-way and controllers
\* that die between delivery and record do not end in a pack.
PackComplete ==
  pack # None /\ op = Idle /\ intact =>
    /\ \A f \in In(pack.ver) \ (excluded \cup logged) :
         row[f] # None /\ disk[f] = contents[pack.ver].mods[f] /\ row[f].ver = disk[f]
    /\ \A j \in contents[pack.ver].jars \ (excluded \cup logged) : disk[j] # 0

\* A mod the user took out is excluded "so pack updates don't re-add it".
ExcludedStaysOut ==
  op = Idle => \A f \in excluded : ~Tracked(f) => disk[f] = 0
=============================================================================
