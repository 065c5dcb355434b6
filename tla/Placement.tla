------------------------------ MODULE Placement ------------------------------
(***************************************************************************)
(* Where gameservers live: the node and the host ports of each gameserver, *)
(* from Manager.Create through Archive, Unarchive and Migrate to Delete.   *)
(* PlacementService (controller/cluster) picks the node and the ports; the *)
(* volume with the game's data moves between workers and the archive.      *)
(*                                                                         *)
(* Each gameserver has at most one operation goroutine (the guard of       *)
(* submitOperation is the subject of LiveGameserver), UpdateConfig runs    *)
(* beside it, and the goroutines of different gameservers interleave at    *)
(* every lock, store write, worker call and storage call.                  *)
(*                                                                         *)
(* The instance that runs in a gameserver is left to LiveGameserver: here  *)
(* a gameserver that is not archived is "stopped".  Ports that a user      *)
(* names, in Create or in UpdateConfig, are used unchecked: gameservers    *)
(* whose ports are ever named are Manual.  Of the limits only memory is    *)
(* kept.  Writes to the database succeed, except the one Create undoes.    *)
(***************************************************************************)
EXTENDS Integers, FiniteSets, FiniteSetsExt

CONSTANTS
  Gameservers, Nodes,
  Manual,         \* gameservers with port_mode "manual"
  ManualPorts,    \* the sets of ports their users ask for
  Need,           \* distinct default ports of each gameserver's game
  Memory,         \* memory_limit_mb of each gameserver
  MaxMemory,      \* max_memory_mb of each node
  Cordoned,       \* nodes that take no automatic placements
  PortStart, PortEnd, \* the port range of each node
  Scope,          \* setting port_uniqueness: "cluster" or "node"
  Faults,         \* worker and storage calls may fail for reasons of their own
  Careful,        \* nobody updates the configuration of a gameserver during an
                  \* operation, or stops one that is being archived or unarchived
  MaxRequests,    \* bound: requests after creation
  MaxDrops,       \* bound: worker disconnects
  MaxReboots      \* bound: controller restarts

NoNode == "no node"
Nobody == "nobody"

ASSUME PlacementAssumption ==
  /\ NoNode \notin Nodes /\ Nobody \notin Gameservers
  /\ Manual \subseteq Gameservers /\ ManualPorts \in [Gameservers -> SUBSET SUBSET Int]
  /\ Need \in [Gameservers -> Nat]
  /\ Memory \in [Gameservers -> Nat] /\ MaxMemory \in [Nodes -> Nat \ {0}]
  /\ IsFiniteSet(Gameservers) /\ Cordoned \subseteq Nodes
  /\ PortStart \in [Nodes -> Int] /\ PortEnd \in [Nodes -> Int]
  /\ Scope \in {"cluster", "node"}
  /\ Faults \in BOOLEAN /\ Careful \in BOOLEAN
  /\ MaxRequests \in Nat /\ MaxDrops \in Nat /\ MaxReboots \in Nat

VARIABLES
  row,       \* the gameservers table
  spec,      \* LiveGameserver.spec of the objects in the manager's map
  worker,    \* LiveGameserver.worker
  pending,   \* PlacementService.pendingPorts
  op, pc,    \* each gameserver's operation goroutine, or its Create
  held,      \* the ports a Create was given
  target,    \* the node the goroutine works towards,
  source,    \* the node it read from,
  data,      \* what it read there,
  cancelled, \* and whether its context is cancelled
  next,      \* the request that preempts it and waits
  edit,      \* how far an UpdateConfig has come,
  copy,      \* and the row it has read
  online,    \* connected workers
  volume,    \* the gameserver's volume on each worker
  archive,   \* the gameserver's archive in storage
  requests, drops, reboots

placeVars == <<row, spec, worker, pending>>
dataVars  == <<volume, archive>>
envVars   == <<requests, drops, reboots>>
jobVars   == <<target, source, data, cancelled>>
taskVars  == <<op, pc, jobVars>>
editVars  == <<edit, copy>>
vars == <<placeVars, taskVars, held, next, editVars, online, dataVars, envVars>>

Ports  == Int
\* A volume or an archive holds the gameserver's current data, or something
\* else: an earlier state, or what an interrupted restore left behind.
Contents == {"none", "other", "current"}
Record == [exists: BOOLEAN, node: Nodes \cup {NoNode}, ports: SUBSET Ports, archived: BOOLEAN]
NoRow  == [exists |-> FALSE, node |-> NoNode, ports |-> {}, archived |-> FALSE]

\* A gameserver's record on node n with ports ps, and a record moved to node n.
NewRow(n, ps)   == [exists |-> TRUE, node |-> n, ports |-> ps, archived |-> FALSE]
Placed(r, n, a) == [r EXCEPT !.node = n, !.archived = a]

Init ==
  /\ row = [g \in Gameservers |-> NoRow] /\ spec = row
  /\ worker = [g \in Gameservers |-> NoNode]
  /\ pending = [g \in Gameservers |-> {}]
  /\ op = [g \in Gameservers |-> "none"] /\ pc = [g \in Gameservers |-> "new"]
  /\ held = [g \in Gameservers |-> {}] /\ target = [g \in Gameservers |-> NoNode]
  /\ source = target /\ data = [g \in Gameservers |-> "none"]
  /\ cancelled = [g \in Gameservers |-> FALSE]
  /\ next = [g \in Gameservers |-> "none"]
  /\ edit = [g \in Gameservers |-> "none"] /\ copy = row
  /\ online = Nodes
  /\ volume = [g \in Gameservers |-> [n \in Nodes |-> "none"]]
  /\ archive = [g \in Gameservers |-> "none"]
  /\ requests = 0 /\ drops = 0 /\ reboots = 0

-----------------------------------------------------------------------------
(* PlacementService.                                                       *)

PortsInRows(n, self) ==
  UNION {row[h].ports : h \in {k \in Gameservers \ {self} :
                                 row[k].exists /\ (Scope = "node" => row[k].node = n)}}
Reserved(self) == UNION {pending[h] : h \in Gameservers \ {self}}

\* Mutant: ports that are allocated and not yet in the table do not count.
UsedPortsOfRows(n, self) == PortsInRows(n, self)

\* UsedPorts: what the table and the pending allocations hold.
UsedPorts(n, self) == PortsInRows(n, self) \cup Reserved(self)

Block(base, size) == base..(base + size - 1)

\* The bases AllocatePorts may settle for; it takes the first.
FreeBases(n, size, used) ==
  {b \in PortStart[n]..PortEnd[n] : b + size - 1 <= PortEnd[n] /\ Block(b, size) \cap used = {}}

\* Mutant: the skip goes one port too far.
ScanSkipsTwo(n, size, used) ==
  LET from[c \in PortStart[n]..(PortEnd[n] + 2)] ==
        IF c + size - 1 > PortEnd[n] THEN PortStart[n] - 1
        ELSE LET hits == {o \in 0..(size - 1) : c + o \in used}
             IN IF hits = {} THEN c
                ELSE from[c + (CHOOSE o \in hits : \A p \in hits : o <= p) + 2]
  IN from[PortStart[n]]

\* The search as AllocatePorts writes it: try a candidate port by port, skip
\* behind the first used one, give up at the end of the range.
Scan(n, size, used) ==
  LET from[c \in PortStart[n]..(PortEnd[n] + 1)] ==
        IF c + size - 1 > PortEnd[n] THEN PortStart[n] - 1
        ELSE LET hits == {o \in 0..(size - 1) : c + o \in used}
             IN IF hits = {} THEN c
                ELSE from[c + (CHOOSE o \in hits : \A p \in hits : o <= p) + 1]
  IN from[PortStart[n]]

\* AllocatePorts: the ports that gameserver g gets on node n.
Allocations(n, g, self) ==
  IF Need[g] = 0 THEN {{}}
  ELSE LET free == FreeBases(n, Need[g], UsedPorts(n, self))
       IN {Block(b, Need[g]) : b \in {c \in free : \A d \in free : c <= d}}

On(n) == {g \in Gameservers : row[g].exists /\ row[g].node = n}

Allocated(n, self) == MapThenSumSet(LAMBDA g : Memory[g], On(n) \ {self})

\* CheckWorkerLimits, and CheckWorkerLimitsExcluding.
Fits(g, n, self) == Allocated(n, self) + Memory[g] <= MaxMemory[n]

\* GameserverCountByNode.
Count(n) == Cardinality({g \in On(n) : ~row[g].archived})

\* RankWorkersForPlacement: by relative headroom, then by fewer gameservers;
\* sort.Slice leaves ties in any order.
Headroom(n) == MaxMemory[n] - Allocated(n, Nobody)
RanksBefore(m, n) ==
  LET a == Headroom(m) * MaxMemory[n]
      b == Headroom(n) * MaxMemory[m]
  IN a > b \/ (a = b /\ Count(m) < Count(n))
Best(candidates) == {n \in candidates : ~\E m \in candidates : RanksBefore(m, n)}
Candidates == online \ Cordoned

\* PlaceGameserver: the placements it may return for g when the user asked for
\* node req.  Workers without the capacity or the ports are passed over.
PortChoices(g, n) == IF g \in Manual THEN ManualPorts[g] ELSE Allocations(n, g, Nobody)
Placements(g, req) ==
  LET eligible == {n \in IF req = NoNode THEN Candidates ELSE {req} :
                     Fits(g, n, Nobody) /\ PortChoices(g, n) # {}}
  IN UNION {{[node |-> n, ports |-> ps] : ps \in PortChoices(g, n)} : n \in Best(eligible)}

-----------------------------------------------------------------------------
(* Manager.Create.                                                         *)

At(g, type, l) == op[g] = type /\ pc[g] = l
Goto(g, l)     == pc' = [pc EXCEPT ![g] = l] /\ UNCHANGED <<op, jobVars>>
Begin(g, type, l, n) ==
  /\ op' = [op EXCEPT ![g] = type] /\ pc' = [pc EXCEPT ![g] = l]
  /\ target' = [target EXCEPT ![g] = n]
  /\ source' = [source EXCEPT ![g] = NoNode] /\ data' = [data EXCEPT ![g] = "none"]
  /\ cancelled' = [cancelled EXCEPT ![g] = FALSE]

\* Keep what was read from node n.
GotoFrom(g, l, n) ==
  /\ pc' = [pc EXCEPT ![g] = l]
  /\ source' = [source EXCEPT ![g] = n] /\ data' = [data EXCEPT ![g] = volume[g][n]]
  /\ UNCHANGED <<op, target, cancelled>>

\* A call made with the operation's context to node n, or to storage.
NodeMayFail(g, n) == Faults \/ n \notin online \/ cancelled[g]
StoreMayFail(g)   == Faults \/ cancelled[g]

\* PlaceGameserver, in one critical section of the placement lock.
Place(g) ==
  /\ pc[g] = "new"
  /\ \E req \in Nodes \cup {NoNode} : \E p \in Placements(g, req) :
       /\ Begin(g, "create", "check", p.node)
       /\ held' = [held EXCEPT ![g] = p.ports]
       /\ pending' = [pending EXCEPT ![g] = IF g \in Manual THEN {} ELSE p.ports]
  /\ UNCHANGED <<row, spec, worker, next, editVars, online, dataVars, envVars>>

\* The selected worker, the game's defaults and the require_* settings.
CheckPlacement(g) ==
  /\ At(g, "create", "check")
  /\ \/ target[g] \in online /\ Goto(g, "volume")
     \/ (Faults \/ target[g] \notin online) /\ Goto(g, "release")
  /\ UNCHANGED <<held, placeVars, next, editVars, online, dataVars, envVars>>

CreateVolume(g) ==
  /\ At(g, "create", "volume")
  /\ \/ /\ volume' = [volume EXCEPT ![g][target[g]] = "current"]
        /\ Goto(g, "insert")
     \/ NodeMayFail(g, target[g]) /\ Goto(g, "release") /\ UNCHANGED volume
  /\ UNCHANGED <<held, placeVars, next, editVars, online, archive, envVars>>

InsertRow(g) ==
  /\ At(g, "create", "insert")
  /\ \/ /\ row' = [row EXCEPT ![g] = NewRow(target[g], held[g])]
        /\ Goto(g, "commit")
     \/ Faults /\ Goto(g, "undo") /\ UNCHANGED row
  /\ UNCHANGED <<held, spec, worker, pending, next, editVars, online, dataVars, envVars>>

\* The row could not be written: remove the volume, if the worker lets us.
UndoVolume(g) ==
  /\ At(g, "create", "undo")
  /\ \/ volume' = [volume EXCEPT ![g][target[g]] = "none"]
     \/ NodeMayFail(g, target[g]) /\ UNCHANGED volume
  /\ Goto(g, "release")
  /\ UNCHANGED <<held, placeVars, next, editVars, online, archive, envVars>>

\* CommitPorts; then the runtime object goes into the manager's map.
CommitPorts(g) ==
  /\ At(g, "create", "commit")
  /\ pending' = [pending EXCEPT ![g] = {}]
  /\ spec' = [spec EXCEPT ![g] = row[g]]
  /\ worker' = [worker EXCEPT ![g] = target[g]]
  /\ held' = [held EXCEPT ![g] = {}]
  /\ Begin(g, "none", "idle", NoNode)
  /\ UNCHANGED <<row, next, editVars, online, dataVars, envVars>>

\* Mutant: a Create that fails keeps its ports.
ReleaseNothing(g) ==
  /\ At(g, "create", "release")
  /\ held' = [held EXCEPT ![g] = {}]
  /\ Begin(g, "none", "gone", NoNode)
  /\ UNCHANGED <<placeVars, next, editVars, online, dataVars, envVars>>

\* ReleasePorts, deferred by a Create that fails.
ReleasePorts(g) ==
  /\ At(g, "create", "release")
  /\ pending' = [pending EXCEPT ![g] = {}]
  /\ held' = [held EXCEPT ![g] = {}]
  /\ Begin(g, "none", "gone", NoNode)
  /\ UNCHANGED <<row, spec, worker, next, editVars, online, dataVars, envVars>>

-----------------------------------------------------------------------------
(* Requests, and the end of an operation.                                  *)

Request(g) == spec[g].exists /\ requests < MaxRequests /\ requests' = requests + 1
Free(g) == pc[g] = "idle" /\ (Careful => edit[g] = "none")

Archive(g) ==
  /\ Request(g) /\ Free(g)
  /\ ~spec[g].archived /\ worker[g] # NoNode
  /\ Begin(g, "archive", "backup", NoNode)
  /\ UNCHANGED <<held, placeVars, next, editVars, online, dataVars, drops, reboots>>

\* Unarchive, to the node the user names or to the best-ranked one.
Unarchive(g) ==
  /\ Request(g) /\ Free(g)
  /\ spec[g].archived
  /\ \E n \in Nodes : Begin(g, "unarchive", "restore", n)
  /\ UNCHANGED <<held, placeVars, next, editVars, online, dataVars, drops, reboots>>

Migrate(g, n) ==
  /\ Request(g) /\ Free(g)
  /\ spec[g].node \notin {n, NoNode}
  /\ n \in online /\ Fits(g, n, g)
  /\ row[g].exists /\ row[g].node \in online
  /\ Begin(g, "migrate", "backup", n)
  /\ UNCHANGED <<held, placeVars, next, editVars, online, dataVars, drops, reboots>>

\* Stop and Delete preempt what is in progress: they cancel its context and
\* wait for its goroutine.
Preempt(g, type) ==
  /\ Request(g)
  /\ op[g] \in {"archive", "unarchive", "migrate"} /\ next[g] = "none"
  /\ Careful /\ type = "stop" => op[g] = "migrate"
  /\ cancelled' = [cancelled EXCEPT ![g] = TRUE]
  /\ UNCHANGED <<op, pc, target, source, data>>
  /\ next' = [next EXCEPT ![g] = type]
  /\ UNCHANGED <<held, placeVars, editVars, online, dataVars, drops, reboots>>

Delete(g) ==
  /\ Request(g) /\ Free(g)
  /\ Begin(g, "delete", "teardown", NoNode)
  /\ UNCHANGED <<held, placeVars, next, editVars, online, dataVars, drops, reboots>>

\* The operation is over, and whoever waits for it begins.
Finish(g) ==
  /\ Begin(g, next[g], IF next[g] = "none" THEN "idle" ELSE "teardown", NoNode)
  /\ next' = [next EXCEPT ![g] = "none"]

Fail(g) == Finish(g) /\ UNCHANGED <<placeVars, dataVars>>

-----------------------------------------------------------------------------
(* executeArchive.                                                         *)

\* Mutant: the result of SaveArchive is not looked at.
SaveArchiveUnchecked(g) ==
  /\ At(g, "archive", "backup")
  /\ worker[g] # NoNode
  /\ \/ archive' = [archive EXCEPT ![g] = volume[g][worker[g]]]
     \/ StoreMayFail(g) /\ archive' = [archive EXCEPT ![g] = "none"]
  /\ GotoFrom(g, "clean", worker[g])
  /\ UNCHANGED <<placeVars, next, volume>>
  /\ UNCHANGED <<held, editVars, online, envVars>>

\* Stream the volume into the archive.  A failed SaveArchive leaves nothing of
\* the archive that was there before, or leaves it alone.
SaveArchive(g) ==
  /\ At(g, "archive", "backup")
  /\ \/ /\ worker[g] # NoNode
        /\ archive' = [archive EXCEPT ![g] = volume[g][worker[g]]]
        /\ GotoFrom(g, "clean", worker[g])
        /\ UNCHANGED <<placeVars, next, volume>>
     \/ /\ StoreMayFail(g)
        /\ archive' = [archive EXCEPT ![g] = "none"]
        /\ Finish(g) /\ UNCHANGED <<placeVars, volume>>
     \/ (worker[g] = NoNode \/ NodeMayFail(g, worker[g])) /\ Fail(g)
  /\ UNCHANGED <<held, editVars, online, envVars>>

\* Remove the instance and the volume; a failure is logged.
CleanSource(g) ==
  /\ At(g, "archive", "clean")
  /\ \/ volume' = [volume EXCEPT ![g][source[g]] = "none"]
     \/ NodeMayFail(g, source[g]) /\ UNCHANGED volume
  /\ Goto(g, "mark")
  /\ UNCHANGED <<held, placeVars, next, editVars, online, archive, envVars>>

MarkArchived(g) ==
  /\ At(g, "archive", "mark")
  /\ spec' = [spec EXCEPT ![g] = Placed(spec[g], NoNode, TRUE)]
  /\ worker' = [worker EXCEPT ![g] = NoNode]
  /\ Goto(g, "save")
  /\ UNCHANGED <<held, row, pending, next, editVars, online, dataVars, envVars>>

SaveArchived(g) ==
  /\ At(g, "archive", "save")
  /\ row' = [row EXCEPT ![g] = Placed(row[g], NoNode, TRUE)]
  /\ Finish(g)
  /\ UNCHANGED <<held, spec, worker, pending, editVars, online, dataVars, envVars>>

-----------------------------------------------------------------------------
(* executeUnarchive and executeMigrate.                                    *)

Moving(g, l) == op[g] \in {"unarchive", "migrate"} /\ pc[g] = l

\* Migrate streams the source's volume to storage; nothing has changed if that
\* fails.
BackupSource(g) ==
  /\ At(g, "migrate", "backup")
  /\ \/ /\ row[g].node \in online
        /\ GotoFrom(g, "restore", row[g].node)
        /\ UNCHANGED <<placeVars, next, dataVars>>
     \/ (StoreMayFail(g) \/ row[g].node \notin online) /\ Fail(g)
  /\ UNCHANGED <<held, editVars, online, envVars>>

\* What the target receives: the archive, or what was read from the source.
Payload(g) == IF op[g] = "unarchive" THEN archive[g] ELSE data[g]

\* CreateVolume, Load and RestoreVolume on the target; RestoreVolume clears the
\* volume first.
RestoreTarget(g) ==
  /\ Moving(g, "restore")
  /\ \/ /\ target[g] \in online /\ Payload(g) # "none"
        /\ volume' = [volume EXCEPT ![g][target[g]] = Payload(g)]
        /\ Goto(g, "ports") /\ UNCHANGED <<placeVars, next, archive>>
     \/ /\ NodeMayFail(g, target[g])
        /\ volume' = [volume EXCEPT ![g][target[g]] = "other"]
        /\ Finish(g) /\ UNCHANGED <<placeVars, archive>>
     \/ (NodeMayFail(g, target[g]) \/ Payload(g) = "none") /\ Fail(g)
  /\ UNCHANGED <<held, editVars, online, envVars>>

\* ReallocatePorts, when ports are unique per node: the new ports are in spec,
\* and nowhere the allocator looks.
ReallocatePorts(g) ==
  /\ Moving(g, "ports")
  /\ IF Scope = "node"
     THEN LET choices == Allocations(target[g], g, g)
          IN \/ \E ps \in choices : spec' = [spec EXCEPT ![g].ports = ps]
             \/ choices = {} /\ UNCHANGED spec
     ELSE UNCHANGED spec
  /\ Goto(g, "assign")
  /\ UNCHANGED <<held, row, worker, pending, next, editVars, online, dataVars, envVars>>

AssignTarget(g) ==
  /\ Moving(g, "assign")
  /\ spec' = [spec EXCEPT ![g] = Placed(spec[g], target[g],
                                        op[g] # "unarchive" /\ spec[g].archived)]
  /\ worker' = [worker EXCEPT ![g] = target[g]]
  /\ Goto(g, "save")
  /\ UNCHANGED <<held, row, pending, next, editVars, online, dataVars, envVars>>

\* Persist the move.  From here on the game changes the data on the target,
\* and what other places hold is out of date.
SaveTarget(g) ==
  /\ Moving(g, "save")
  /\ row' = [row EXCEPT ![g] = [Placed(row[g], target[g], op[g] # "unarchive" /\ row[g].archived)
                                 EXCEPT !.ports = spec[g].ports]]
  /\ IF op[g] = "unarchive"
     THEN /\ archive' = [archive EXCEPT ![g] = "other"]
          /\ Finish(g) /\ UNCHANGED volume
     ELSE /\ volume' = [volume EXCEPT ![g][source[g]] = "other"]
          /\ Goto(g, "clean")
          /\ UNCHANGED <<archive, next>>
  /\ UNCHANGED <<held, spec, worker, pending, editVars, online, envVars>>

\* Migrate removes the source's volume last.
CleanMigrated(g) ==
  /\ At(g, "migrate", "clean")
  /\ \/ volume' = [volume EXCEPT ![g][source[g]] = "none"]
     \/ NodeMayFail(g, source[g]) /\ UNCHANGED volume
  /\ Finish(g)
  /\ UNCHANGED <<held, placeVars, editVars, online, archive, envVars>>

-----------------------------------------------------------------------------
(* doStop and executeDelete, which follow what they preempted.             *)

\* doStop saves the whole of spec.
DoStop(g) ==
  /\ At(g, "stop", "teardown")
  /\ spec' = [spec EXCEPT ![g] = Placed(spec[g], spec[g].node, FALSE)]
  /\ row' = [row EXCEPT ![g] = spec'[g]]
  /\ Finish(g)
  /\ UNCHANGED <<held, worker, pending, editVars, online, dataVars, envVars>>

\* An archived gameserver has nothing on a worker.
Teardown(g) ==
  /\ At(g, "delete", "teardown")
  /\ \/ /\ ~row[g].archived /\ worker[g] # NoNode
        /\ volume' = [volume EXCEPT ![g][worker[g]] = "none"]
     \/ /\ row[g].archived \/ worker[g] = NoNode \/ NodeMayFail(g, worker[g])
        /\ UNCHANGED volume
  /\ Goto(g, "deleteRow")
  /\ UNCHANGED <<held, placeVars, next, editVars, online, archive, envVars>>

\* The row goes, then the archive and the object in the manager's map.
DeleteRow(g) ==
  /\ At(g, "delete", "deleteRow")
  /\ row' = [row EXCEPT ![g] = NoRow] /\ spec' = [spec EXCEPT ![g] = NoRow]
  /\ worker' = [worker EXCEPT ![g] = NoNode]
  /\ \/ archive' = [archive EXCEPT ![g] = "none"]
     \/ StoreMayFail(g) /\ UNCHANGED archive
  /\ Begin(g, "none", "gone", NoNode)
  /\ UNCHANGED <<held, pending, next, editVars, online, volume, envVars>>

-----------------------------------------------------------------------------
(* UpdateConfig reads the row and merges what the user asks for ...        *)
ReadConfig(g) ==
  /\ requests < MaxRequests /\ requests' = requests + 1
  /\ row[g].exists /\ edit[g] = "none"
  /\ Careful => pc[g] = "idle"
  /\ edit' = [edit EXCEPT ![g] = "read"]
  /\ \E ps \in {row[g].ports} \cup (IF g \in Manual THEN ManualPorts[g] ELSE {}) :
       copy' = [copy EXCEPT ![g] = [row[g] EXCEPT !.ports = ps]]
  /\ UNCHANGED <<held, placeVars, taskVars, next, online, dataVars, drops, reboots>>

EndEdit(g) == edit' = [edit EXCEPT ![g] = "none"] /\ copy' = [copy EXCEPT ![g] = NoRow]

\* ... writes all of it back to the table ...
WriteConfig(g) ==
  /\ edit[g] = "read"
  /\ \/ /\ row[g].exists
        /\ row' = [row EXCEPT ![g] = copy[g]]
        /\ edit' = [edit EXCEPT ![g] = "written"] /\ UNCHANGED copy
     \/ ~row[g].exists /\ EndEdit(g) /\ UNCHANGED row
  /\ UNCHANGED <<held, spec, worker, pending, taskVars, next, online, dataVars, envVars>>

\* ... and makes it the object's spec.
SwapSpec(g) ==
  /\ edit[g] = "written"
  /\ spec' = IF spec[g].exists THEN [spec EXCEPT ![g] = copy[g]] ELSE spec
  /\ EndEdit(g)
  /\ UNCHANGED <<held, row, worker, pending, taskVars, next, online, dataVars, envVars>>

-----------------------------------------------------------------------------
(* Workers come and go; the controller restarts.                           *)

OnWorkerOffline(n) ==
  /\ n \in online /\ drops < MaxDrops
  /\ online' = online \ {n} /\ drops' = drops + 1
  /\ worker' = [g \in Gameservers |-> IF spec[g].node = n THEN NoNode ELSE worker[g]]
  /\ UNCHANGED <<held, row, spec, pending, taskVars, next, editVars, dataVars, requests, reboots>>

OnWorkerOnline(n) ==
  /\ n \notin online
  /\ online' = online \cup {n}
  /\ worker' = [g \in Gameservers |-> IF spec[g].node = n THEN n ELSE worker[g]]
  /\ UNCHANGED <<held, row, spec, pending, taskVars, next, editVars, dataVars, envVars>>

\* What is left is the table, the volumes and the archives.
ControllerRestart ==
  /\ reboots < MaxReboots /\ reboots' = reboots + 1
  /\ spec' = row
  /\ worker' = [g \in Gameservers |-> IF row[g].node \in online THEN row[g].node ELSE NoNode]
  /\ pending' = [g \in Gameservers |-> {}]
  /\ op' = [g \in Gameservers |-> "none"]
  /\ target' = [g \in Gameservers |-> NoNode] /\ source' = target'
  /\ data' = [g \in Gameservers |-> "none"] /\ cancelled' = [g \in Gameservers |-> FALSE]
  /\ pc' = [g \in Gameservers |-> IF row[g].exists THEN "idle"
                                  ELSE IF pc[g] = "new" THEN "new" ELSE "gone"]
  /\ held' = [g \in Gameservers |-> {}]
  /\ next' = [g \in Gameservers |-> "none"]
  /\ edit' = [g \in Gameservers |-> "none"] /\ copy' = [g \in Gameservers |-> NoRow]
  /\ UNCHANGED <<row, online, dataVars, requests, drops>>

-----------------------------------------------------------------------------
CreateStep(g) ==
  \/ Place(g) \/ CheckPlacement(g) \/ CreateVolume(g) \/ InsertRow(g) \/ UndoVolume(g)
  \/ CommitPorts(g) \/ ReleasePorts(g)

RequestStep(g) ==
  \/ Archive(g) \/ Unarchive(g) \/ Delete(g)
  \/ \E n \in Nodes : Migrate(g, n)
  \/ \E type \in {"stop", "delete"} : Preempt(g, type)

ArchiveStep(g) == SaveArchive(g) \/ CleanSource(g) \/ MarkArchived(g) \/ SaveArchived(g)

MoveStep(g) ==
  \/ BackupSource(g) \/ RestoreTarget(g) \/ ReallocatePorts(g) \/ AssignTarget(g)
  \/ SaveTarget(g) \/ CleanMigrated(g)

EndStep(g) == DoStop(g) \/ Teardown(g) \/ DeleteRow(g)

ConfigStep(g) == ReadConfig(g) \/ WriteConfig(g) \/ SwapSpec(g)

Next ==
  \/ \E g \in Gameservers :
       CreateStep(g) \/ RequestStep(g) \/ ArchiveStep(g) \/ MoveStep(g) \/ EndStep(g) \/ ConfigStep(g)
  \/ \E n \in Nodes : OnWorkerOffline(n) \/ OnWorkerOnline(n)
  \/ ControllerRestart

Spec == Init /\ [][Next]_vars

-----------------------------------------------------------------------------
(* Properties.                                                             *)

Labels == {"new", "idle", "gone", "check", "volume", "insert", "undo", "commit", "release",
           "backup", "clean", "mark", "save", "restore", "ports", "assign", "teardown",
           "deleteRow"}
CreateLabels == {"check", "volume", "insert", "undo", "commit", "release"}
OpTypes == {"archive", "unarchive", "migrate", "stop", "delete"}

Somewhere == Nodes \cup {NoNode}
Volumes == [Gameservers -> [Nodes -> Contents]]

TaskTypeOK ==
  /\ op \in [Gameservers -> OpTypes \cup {"none", "create"}] /\ pc \in [Gameservers -> Labels]
  /\ target \in [Gameservers -> Somewhere] /\ source \in [Gameservers -> Somewhere]
  /\ data \in [Gameservers -> Contents] /\ cancelled \in [Gameservers -> BOOLEAN]
  /\ \A g \in Gameservers : op[g] \in {"unarchive", "migrate"} => target[g] \in Nodes

\* Every variable has the shape the code's types give it.
TypeOK ==
  /\ TaskTypeOK
  /\ row \in [Gameservers -> Record] /\ spec \in [Gameservers -> Record]
  /\ copy \in [Gameservers -> Record] /\ edit \in [Gameservers -> {"none", "read", "written"}]
  /\ pending \in [Gameservers -> SUBSET Ports] /\ held \in [Gameservers -> SUBSET Ports]
  /\ next \in [Gameservers -> {"none", "stop", "delete"}]
  /\ worker \in [Gameservers -> Somewhere] /\ online \subseteq Nodes
  /\ volume \in Volumes /\ archive \in [Gameservers -> Contents]
  /\ requests \in Nat /\ drops \in Nat /\ reboots \in Nat

\* Two gameservers whose ports come from the allocator never hold the same
\* port, in the whole cluster or on the same node as port_uniqueness asks,
\* although AllocatePorts runs long before the row it is for is written
\* (UsedPorts, CommitPorts).
Claims(g) == {<<IF Scope = "node" THEN row[g].node ELSE NoNode, p>> : p \in row[g].ports}
PortsDisjoint ==
  \A g, h \in Gameservers \ Manual :
    g # h /\ (Scope = "node" => row[g].node # NoNode) => Claims(g) \cap Claims(h) = {}

\* A reservation ends with the Create that made it, on every path out of it.
ReservationEnds == \A g \in Gameservers : pending[g] # {} => op[g] = "create"

\* What makes PortsDisjoint inductive when ports are unique in the cluster: what
\* a gameserver holds is what its row and its reservation say; a Create holds
\* what it was given until its row says so; and every copy of the row, in the
\* object and in an UpdateConfig, has the ports of the row.
HeldDisjoint ==
  \A g, h \in Gameservers \ Manual :
    g # h => (row[g].ports \cup pending[g]) \cap (row[h].ports \cup pending[h]) = {}
Consistent(g) ==
  /\ op[g] = "create" <=> pc[g] \in CreateLabels
  /\ op[g] = "create" /\ g \notin Manual /\ pc[g] # "commit" => held[g] = pending[g]
  /\ pc[g] \in {"new", "gone"} \cup (CreateLabels \ {"commit"}) => ~row[g].exists
  /\ ~row[g].exists => row[g].ports = {}
  /\ op[g] \in OpTypes => spec[g].exists
  /\ spec[g].exists => row[g].exists /\ (g \notin Manual => spec[g].ports = row[g].ports)
  /\ edit[g] # "none" =>
       /\ copy[g].exists
       /\ pc[g] \notin {"new"} \cup (CreateLabels \ {"commit"})
       /\ row[g].exists /\ g \notin Manual => copy[g].ports = row[g].ports
  /\ pending[g] # {} => op[g] = "create"
PortInv == TypeOK /\ (\A g \in Gameservers : Consistent(g)) /\ HeldDisjoint

\* The search of AllocatePorts, which skips behind a used port, finds the
\* first free block of the range, and finds none only when there is none.
SkipAheadIsFirstFit ==
  \A n \in Nodes, g \in Gameservers : Need[g] > 0 =>
    LET used == UsedPorts(n, g)
        free == FreeBases(n, Need[g], used)
        base == Scan(n, Need[g], used)
    IN IF free = {} THEN base < PortStart[n]
       ELSE base \in free /\ \A b \in free : base <= b

\* Whenever no operation is under way, the gameserver's record leads to its
\* current data: to the volume of its node, or to its archive if it says
\* archived (the order of steps in executeArchive, executeUnarchive and
\* executeMigrate, with cancellation and failure at every one of them).
DataReachable ==
  \A g \in Gameservers : row[g].exists /\ pc[g] = "idle" =>
    IF row[g].archived THEN archive[g] = "current"
    ELSE row[g].node # NoNode /\ volume[g][row[g].node] = "current"
=============================================================================
