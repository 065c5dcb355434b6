-------------------------------- MODULE Mods --------------------------------
(* The mods of one gameserver: the rows of installed_mods and the files on   *)
(* its volume, as Install, Uninstall, Update, UpdateAll and Reconcile change *)
(* them step by step under the gameserver's lock (mod/service.go, deps.go,   *)
(* reconcile.go, delivery.go, store/mod.go).                                 *)
(* A project of the catalogue has versions 1, 2, ... and every version a     *)
(* file name of its own.  A row is kept under its project, which the unique  *)
(* index of the table makes a key, and has an ID of its own.                 *)
EXTENDS Naturals, Sequences, FiniteSets, SequencesExt

CONSTANTS Callers, Projects, None,
          Ops,          \* the operations that happen
          MayFail,      \* the calls that may fail: "download", "delete" of a file,
                        \* "lookup" in the catalogue or the table, "write" of a row
          MaxDepth,     \* maxDepDepth
          MaxVersion,   \* bound: versions of a project
          MaxIds,       \* bound: rows planned
          MaxOps,       \* bound: operations begun
          MaxFaults,    \* bound: failing calls
          MaxMishaps    \* bound: wiped volumes and controller restarts

VARIABLES requires,  \* the catalogue: the projects a project requires
          latest,    \* the catalogue: the newest version of a project
          row,       \* project -> its row of installed_mods, or None
          disk,      \* files: the project, the version of the name, the content
          op,        \* caller -> what it is doing
          lock,      \* lockGameserver: the caller that holds it
          restored,  \* the last operation was a Reconcile that failed nowhere
          logged,    \* history: <<call, project>> of every failure that is only
                     \* logged, or ignored, by the operation it happens in
          ids, begun, faults, mishaps

vars == <<requires, latest, row, disk, op, lock, restored, logged, ids, begun, faults,
          mishaps>>

catalog == <<requires, latest>>

Idle == [pc |-> "idle", todo |-> <<>>, ok |-> TRUE]

Init ==
  /\ requires \in [Projects -> SUBSET Projects]
  /\ \A p \in Projects : p \notin requires[p]
  /\ latest = [p \in Projects |-> 1]
  /\ row = [p \in Projects |-> None]
  /\ disk = {}
  /\ op = [c \in Callers |-> Idle]
  /\ lock = None
  /\ restored = FALSE
  /\ logged = {}
  /\ ids = 0
  /\ begun = 0
  /\ faults = 0
  /\ mishaps = 0

Installed == {p \in Projects : row[p] # None}
File(p, name, content) == [proj |-> p, name |-> name, content |-> content]
Named(p, name) == {f \in disk : f.proj = p /\ f.name = name}

\* Mutant: the lock is not taken.
BeginUnlocked(c, kind) ==
  /\ kind \in Ops
  /\ begun < MaxOps
  /\ begun' = begun + 1
  /\ op[c] = Idle
  /\ lock' = lock
  /\ restored' = FALSE

\* Every operation takes the gameserver's lock and keeps it to its end.
Begin(c, kind) ==
  /\ kind \in Ops
  /\ begun < MaxOps
  /\ begun' = begun + 1
  /\ op[c] = Idle
  /\ lock = None
  /\ lock' = c
  /\ restored' = FALSE

Finish(c) ==
  /\ op' = [op EXCEPT ![c] = Idle]
  /\ lock' = IF lock = c THEN None ELSE lock

Step(c, pc, todo) == op' = [op EXCEPT ![c].pc = pc, ![c].todo = todo]

\* A call of each of these kinds fails.
Fault(calls) ==
  /\ calls \subseteq MayFail
  /\ faults + Cardinality(calls) <= MaxFaults
  /\ faults' = faults + Cardinality(calls)

Log(call, p) == logged' = logged \cup {<<call, p>>}

-----------------------------------------------------------------------------
(* Install.                                                                  *)

RECURSIVE Dependencies(_, _, _, _, _)

\* Mutant: what is too deep is left out.
DependenciesCut(p, parent, depth, broken, acc) ==
  LET Add(a, q) ==
        IF q \in a.visited \/ row[q] # None THEN [a EXCEPT !.visited = @ \cup {q}]
        ELSE LET below == Dependencies(q, a.next, depth + 1, broken,
                                       [a EXCEPT !.visited = @ \cup {q}, !.next = @ + 1])
             IN [below EXCEPT !.items = Append(@,
                   [kind |-> "dep", proj |-> q, ver |-> latest[q], id |-> a.next, parent |-> parent])]
  IN IF depth >= MaxDepth THEN acc ELSE FoldLeft(Add, acc, SetToSeq(requires[p]))

\* installDependencies: for every required project, in turn, that is neither
\* met before (visited) nor installed, first its own dependencies and then
\* itself; an item that stands too deep ends the installation with an error.
\* The calls in broken fail: a version whose dependencies are not told is
\* taken to have none, a dependency that is not resolved is passed over, a row
\* that is not found for an error is taken not to be there.
\* The result is the list of items, the projects met, the next ID and the
\* failures met.
Dependencies(p, parent, depth, broken, acc) ==
  LET Skip(a, call) == IF call \in broken THEN [a EXCEPT !.met = @ \cup {call}] ELSE a
      Add(a, q) ==
        LET seen == Skip([a EXCEPT !.visited = @ \cup {q}], <<"find", q>>) IN
        IF q \in a.visited THEN a
        ELSE IF row[q] # None /\ <<"find", q>> \notin broken THEN seen
        ELSE IF <<"resolve", q>> \in broken THEN Skip(seen, <<"resolve", q>>)
        ELSE LET below == Dependencies(q, a.next, depth + 1, broken, [seen EXCEPT !.next = @ + 1])
             IN [below EXCEPT !.items = Append(@,
                   [kind |-> "dep", proj |-> q, ver |-> latest[q], id |-> a.next, parent |-> parent])]
  IN CASE depth >= MaxDepth ->
            [acc EXCEPT !.items = Append(@,
               [kind |-> "limit", proj |-> p, ver |-> 0, id |-> 0, parent |-> parent])]
       [] depth < MaxDepth /\ <<"requires", p>> \in broken -> Skip(acc, <<"requires", p>>)
       [] OTHER -> FoldLeft(Add, acc, SetToSeq(requires[p]))

\* Install: the version is resolved, the ID made up, and the dependencies come
\* before the mod itself.  Nobody else changes the rows meanwhile, so the list
\* can be made at the start, with the one lookup that fails, if any.
Install(c, p) ==
  /\ Begin(c, "install")
  /\ row[p] = None
  /\ \E broken \in {{}} \cup {{<<call, q>>} : call \in {"requires", "resolve", "find"}, q \in Projects} :
       LET plan == Dependencies(p, ids + 1, 0, broken,
                     [items |-> <<>>, visited |-> {}, next |-> ids + 2, met |-> {}])
       IN /\ plan.met = broken
          /\ IF broken = {} THEN UNCHANGED faults ELSE Fault({"lookup"})
          /\ plan.next <= MaxIds + 1
          /\ ids' = plan.next - 1
          /\ logged' = logged \cup broken
          /\ Step(c, "deliver", Append(plan.items,
               [kind |-> "mod", proj |-> p, ver |-> latest[p], id |-> ids + 1, parent |-> None]))
  /\ UNCHANGED <<catalog, row, disk, mishaps>>

Removal(kind, p) == [kind |-> kind, proj |-> p]

\* The rows cleanupFailedDep removes, in its order: for each that was installed
\* for the failed dependency first those installed for it.
RECURSIVE Below(_)
Below(id) ==
  FoldLeft(LAMBDA below, q : below \o Below(row[q].id) \o <<Removal("dep", q)>>, <<>>,
           SetToSeq({q \in Installed : row[q].parent = id}))

\* A failed download ends the installation; only what was installed for the
\* very dependency that failed is taken back, and nothing when the rows cannot
\* be listed.
cleanupFailedDep(c, item) ==
  LET gone == IF item.kind = "dep" THEN Below(item.id) ELSE <<>> IN
  \/ /\ Fault({"download"})
     /\ IF gone = <<>> THEN Finish(c) ELSE Step(c, "unlink", gone) /\ UNCHANGED lock
     /\ UNCHANGED logged
  \/ /\ gone # <<>>
     /\ Fault({"download", "lookup"})
     /\ Finish(c)
     /\ logged' = logged \cup {<<"forget", gone[i].proj>> : i \in DOMAIN gone}

\* FileDelivery.Install of the next item.
Deliver(c) ==
  LET item == Head(op[c].todo) IN
  /\ op[c].pc = "deliver"
  /\ \/ /\ item.kind = "limit"
        /\ Finish(c)
        /\ UNCHANGED <<disk, logged, faults>>
     \/ /\ item.kind # "limit"
        /\ disk' = (disk \ Named(item.proj, item.ver)) \cup {File(item.proj, item.ver, item.ver)}
        /\ Step(c, "record", op[c].todo)
        /\ UNCHANGED <<lock, logged, faults>>
     \/ /\ item.kind # "limit"
        /\ cleanupFailedDep(c, item)
        /\ UNCHANGED disk
  /\ UNCHANGED <<catalog, row, restored, ids, begun, mishaps>>

NextItem(c) ==
  IF Len(op[c].todo) = 1 THEN Finish(c)
  ELSE Step(c, "deliver", Tail(op[c].todo)) /\ UNCHANGED lock

\* Mutant: the row does not say what it was installed for.
RecordAlone(c) ==
  LET item == Head(op[c].todo) IN
  /\ op[c].pc = "record"
  /\ row' = [row EXCEPT ![item.proj] =
               IF @ # None THEN @
               ELSE [id |-> item.id, ver |-> item.ver, name |-> item.ver, url |-> item.ver,
                     auto |-> item.kind = "dep", parent |-> None]]
  /\ NextItem(c)
  /\ UNCHANGED <<catalog, disk, restored, logged, ids, begun, faults, mishaps>>

\* CreateInstalledMod; the index refuses a second row of a project.  Of a
\* dependency a row that is not written is only logged, and the file stays in
\* either case.
Record(c) ==
  LET item == Head(op[c].todo) IN
  /\ op[c].pc = "record"
  /\ \/ /\ row[item.proj] = None
        /\ row' = [row EXCEPT ![item.proj] =
                     [id |-> item.id, ver |-> item.ver, name |-> item.ver, url |-> item.ver,
                      auto |-> item.kind = "dep", parent |-> item.parent]]
        /\ UNCHANGED <<logged, faults>>
     \/ /\ \/ row[item.proj] # None /\ UNCHANGED faults
           \/ row[item.proj] = None /\ Fault({"write"})
        /\ Log("record", item.proj)
        /\ UNCHANGED row
  /\ NextItem(c)
  /\ UNCHANGED <<catalog, disk, restored, ids, begun, mishaps>>

-----------------------------------------------------------------------------
(* Uninstall, and the removals the others make.                              *)

Uninstall(c, p) ==
  /\ Begin(c, "uninstall")
  /\ row[p] # None
  /\ Step(c, "unlink", <<Removal("mod", p)>>)
  /\ UNCHANGED <<catalog, row, disk, logged, ids, faults, mishaps>>


\* FileDelivery.Uninstall: a file that could not be deleted is logged and left.
Unlink(c) ==
  LET p == Head(op[c].todo).proj IN
  /\ op[c].pc = "unlink"
  /\ \/ /\ disk' = IF row[p] = None THEN disk ELSE disk \ Named(p, row[p].name)
        /\ UNCHANGED <<logged, faults>>
     \/ /\ Fault({"delete"})
        /\ Log("delete", p)
        /\ UNCHANGED disk
  /\ Step(c, "delete", op[c].todo)
  /\ UNCHANGED <<catalog, row, lock, restored, ids, begun, mishaps>>

\* removeOrphanedDependencies: the rows installed for the removed one, except
\* those other rows were installed for.  The recursion below them finds
\* nothing, since a row that is removed here has no rows below it.
Orphans(id) ==
  {q \in Installed : row[q].auto /\ row[q].parent = id
                     /\ ~\E r \in Installed : r # q /\ row[r].id # id /\ row[r].parent = row[q].id}

RemoveNext(c, todo) ==
  IF todo = <<>> THEN Finish(c) ELSE Step(c, "unlink", todo) /\ UNCHANGED lock

\* The row goes; after the mod's own come the dependencies nobody else was
\* installed for, unless the rows cannot be listed.  A deletion that fails ends
\* an Uninstall at the mod's own row and is ignored at the others.
Delete(c) ==
  LET p == Head(op[c].todo).proj
      rest == Tail(op[c].todo)
      orphans == IF row[p] = None \/ Head(op[c].todo).kind = "dep" THEN {} ELSE Orphans(row[p].id)
  IN
  /\ op[c].pc = "delete"
  /\ \/ /\ row' = [row EXCEPT ![p] = None]
        /\ \/ /\ RemoveNext(c, SetToSeq({Removal("dep", q) : q \in orphans}) \o rest)
              /\ UNCHANGED faults
           \/ /\ orphans # {} /\ Fault({"lookup"})
              /\ RemoveNext(c, rest)
        /\ UNCHANGED logged
     \/ /\ Fault({"write"})
        /\ Log("forget", p)
        /\ RemoveNext(c, rest)
        /\ UNCHANGED row
  /\ UNCHANGED <<catalog, disk, restored, ids, begun, mishaps>>

-----------------------------------------------------------------------------
(* Update.                                                                   *)

Update(c, p) ==
  /\ Begin(c, "update")
  /\ row[p] # None /\ row[p].ver # latest[p]
  /\ Step(c, "replace", <<p>>)
  /\ UNCHANGED <<catalog, row, disk, logged, ids, faults, mishaps>>

\* CheckForUpdates leaves out what was installed for another mod.
Updates == {p \in Installed : ~row[p].auto /\ row[p].ver # latest[p]}

UpdateAll(c) ==
  /\ Begin(c, "updateAll")
  /\ Updates # {}
  /\ Step(c, "replace", SetToSeq(Updates))
  /\ UNCHANGED <<catalog, row, disk, logged, ids, faults, mishaps>>

NextUpdate(c) ==
  IF Len(op[c].todo) = 1 THEN Finish(c)
  ELSE Step(c, "replace", Tail(op[c].todo)) /\ UNCHANGED lock

\* doUpdate asks for the newest version, removes the old file ...
Replace(c) ==
  LET p == Head(op[c].todo) IN
  /\ op[c].pc = "replace"
  /\ \/ /\ disk' = disk \ Named(p, row[p].name)
        /\ UNCHANGED <<logged, faults>>
     \/ /\ Fault({"delete"})
        /\ Log("delete", p)
        /\ UNCHANGED disk
  /\ Step(c, "fetch", <<[proj |-> p, ver |-> latest[p]]>> \o Tail(op[c].todo))
  /\ UNCHANGED <<catalog, row, lock, restored, ids, begun, mishaps>>

\* ... downloads the new one, which may fail, ...
Fetch(c) ==
  LET p == Head(op[c].todo).proj
      v == Head(op[c].todo).ver
  IN
  /\ op[c].pc = "fetch"
  /\ \/ /\ disk' = (disk \ Named(p, v)) \cup {File(p, v, v)}
        /\ Step(c, "version", op[c].todo)
        /\ UNCHANGED <<lock, faults>>
     \/ Fault({"download"}) /\ NextUpdate(c) /\ UNCHANGED disk
  /\ UNCHANGED <<catalog, row, restored, logged, ids, begun, mishaps>>

\* Mutant: the URL of the old version stays in the row.
SetVersionOnly(c) ==
  LET p == Head(op[c].todo).proj
      v == Head(op[c].todo).ver
  IN
  /\ op[c].pc = "version"
  /\ row' = [row EXCEPT ![p].ver = v]
  /\ NextUpdate(c)
  /\ UNCHANGED <<catalog, disk, restored, logged, ids, begun, faults, mishaps>>

\* ... and writes the version and the URL to the row, but not the file's name.
\* A version that is not written ends the update, a URL that is not is ignored.
SetVersion(c) ==
  LET p == Head(op[c].todo).proj
      v == Head(op[c].todo).ver
  IN
  /\ op[c].pc = "version"
  /\ \/ row' = [row EXCEPT ![p].ver = v, ![p].url = v] /\ UNCHANGED <<logged, faults>>
     \/ row' = [row EXCEPT ![p].ver = v] /\ Fault({"write"}) /\ Log("url", p)
     \/ Fault({"write"}) /\ UNCHANGED <<row, logged>>
  /\ NextUpdate(c)
  /\ UNCHANGED <<catalog, disk, restored, ids, begun, mishaps>>

-----------------------------------------------------------------------------
(* Reconcile, before every start.                                            *)

Missing == {p \in Installed : Named(p, row[p].name) = {}}

\* The rows are listed, and the files; a directory that is not is taken to be
\* empty, so that all of its mods are downloaded again.

Reconcile(c) ==
  /\ Begin(c, "reconcile")
  /\ \E todo \in {Missing, Installed} :
       /\ IF todo = Missing THEN UNCHANGED faults ELSE Fault({"lookup"})
       /\ op' = [op EXCEPT ![c] = [pc |-> "recover", todo |-> SetToSeq(todo), ok |-> TRUE]]
  /\ UNCHANGED <<catalog, row, disk, logged, ids, mishaps>>

\* recoverModFile: what the row's URL has, under the row's file name; a failed
\* download is counted and the next mod is looked at.
Recover(c) ==
  /\ op[c].pc = "recover"
  /\ IF op[c].todo = <<>>
     THEN Finish(c) /\ restored' = op[c].ok /\ UNCHANGED <<disk, faults>>
     ELSE LET p == Head(op[c].todo) IN
          /\ \/ /\ disk' = (disk \ Named(p, row[p].name)) \cup {File(p, row[p].name, row[p].url)}
                /\ op' = [op EXCEPT ![c].todo = Tail(@)]
                /\ UNCHANGED faults
             \/ /\ Fault({"download"})
                /\ op' = [op EXCEPT ![c].todo = Tail(@), ![c].ok = FALSE]
                /\ UNCHANGED disk
          /\ UNCHANGED <<lock, restored>>
  /\ UNCHANGED <<catalog, row, logged, ids, begun, mishaps>>

-----------------------------------------------------------------------------
(* The surroundings.                                                         *)

\* The catalogue has a new version.
Release(p) ==
  /\ latest[p] < MaxVersion
  /\ latest' = [latest EXCEPT ![p] = @ + 1]
  /\ UNCHANGED <<requires, row, disk, op, lock, restored, logged, ids, begun, faults, mishaps>>

Mishap == mishaps < MaxMishaps /\ mishaps' = mishaps + 1

\* The volume is emptied: a reinstall, or a user's file manager.
Wipe ==
  /\ Mishap
  /\ disk' = {}
  /\ restored' = FALSE
  /\ op' = [c \in Callers |-> IF op[c] = Idle THEN Idle ELSE [op[c] EXCEPT !.ok = FALSE]]
  /\ UNCHANGED <<catalog, row, lock, logged, ids, begun, faults>>

\* The controller dies in the middle of what it does.
Crash ==
  /\ Mishap
  /\ op' = [c \in Callers |-> Idle]
  /\ lock' = None
  /\ restored' = FALSE
  /\ UNCHANGED <<catalog, row, disk, logged, ids, begun, faults>>

Next ==
  \/ \E c \in Callers :
       \/ \E p \in Projects : Install(c, p) \/ Uninstall(c, p) \/ Update(c, p)
       \/ UpdateAll(c) \/ Reconcile(c)
       \/ Deliver(c) \/ Record(c) \/ Unlink(c) \/ Delete(c)
       \/ Replace(c) \/ Fetch(c) \/ SetVersion(c) \/ Recover(c)
  \/ \E p \in Projects : Release(p)
  \/ Wipe \/ Crash

Spec == Init /\ [][Next]_vars

-----------------------------------------------------------------------------
AtRest == \A c \in Callers : op[c] = Idle

\* Every variable has its type.
TypeOK ==
  /\ latest \in [Projects -> 1 .. MaxVersion]
  /\ \A p \in Installed : /\ row[p].id \in 1 .. ids
                          /\ row[p].parent \in 1 .. ids \cup {None}
                          /\ row[p].auto <=> row[p].parent # None
  /\ lock \in Callers \cup {None}
  /\ \A c \in Callers : op[c].pc \in {"idle", "deliver", "record", "unlink", "delete",
                                      "replace", "fetch", "version", "recover"}

\* Whatever call fails in a tree of dependencies, and whoever else installs or
\* uninstalls at the time: at rest a file on the volume that no row names is one
\* whose deletion or whose row failed, and a row whose file is not there is one
\* whose own deletion failed.  Those are the failures that are only logged.
DiskMatchesRows ==
  LET files == {<<f.proj, f.name>> : f \in disk}
      named == {<<p, row[p].name>> : p \in Installed}
  IN AtRest => /\ \A f \in files \ named : {<<"delete", f[1]>>, <<"record", f[1]>>} \cap logged # {}
               /\ \A f \in named \ files : <<"forget", f[1]>> \in logged

\* A Reconcile that fails nowhere leaves every mod of the table on the volume
\* in the version the table says, also after a wiped volume, a failed update or
\* a controller that died in the middle of one; except where an update did not
\* get rid of the old file or did not get the new URL into the table.
ReconcileRestores ==
  restored => \A p \in Installed :
    \/ \E f \in Named(p, row[p].name) : f.content = row[p].ver
    \/ {<<"delete", p>>, <<"url", p>>} \cap logged # {}

\* No project requires itself, through others either.
Acyclic ==
  \E rank \in [Projects -> 1 .. Cardinality(Projects)] :
    \A p \in Projects : \A q \in requires[p] : rank[q] < rank[p]

\* What an installed mod requires is installed too, in every graph of
\* requirements without cycles, when a download fails or the graph is too
\* deep.  What is missing is what could not be looked up or recorded when it
\* was to be installed, or is missed by a mod whose removal failed.
DependenciesPresent ==
  AtRest /\ Acyclic => \A p \in Installed : \A q \in requires[p] \ Installed :
    {<<"requires", p>>, <<"resolve", q>>, <<"record", q>>, <<"forget", p>>} \cap logged # {}

\* An uninstall takes along only mods that "aren't needed by any other
\* installed mod".
OrphansUnneeded ==
  [][\A c \in Callers : op[c].pc = "delete" /\ Head(op[c].todo).kind = "dep" =>
         \A r \in Installed \ {Head(op[c].todo).proj} :
           row'[Head(op[c].todo).proj] = None => Head(op[c].todo).proj \notin requires[r]]_vars
=============================================================================
