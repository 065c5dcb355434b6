----------------------------- MODULE DataProofs ------------------------------
(* Proofs about Placement, for any number of gameservers, nodes and ports: *)
(* with cluster-wide ports, no port is given out twice; and until the      *)
(* controller restarts, every record leads to the gameserver's data.       *)
EXTENDS Placement, Sequences, SequenceTheorems, FiniteSetTheorems,
        WellFoundedInduction, TLAPS

-----------------------------------------------------------------------------
(* Records, which the proofs below do not look into.                       *)

\* The record of no gameserver holds no ports.
LEMMA NoRecord == NoRow \in Record /\ ~NoRow.exists /\ NoRow.ports = {}
BY DEF NoRow, Record, Ports

\* The record Create inserts exists and has the ports it was given.
LEMMA NewRecord ==
  ASSUME NEW n \in Somewhere, NEW ps \in SUBSET Ports
  PROVE  NewRow(n, ps) \in Record /\ NewRow(n, ps).exists /\ NewRow(n, ps).ports = ps
BY DEF NewRow, Record, Somewhere

\* A record that moves keeps its existence and its ports.
LEMMA MovedRecord ==
  ASSUME NEW r \in Record, NEW n \in Somewhere, NEW a \in BOOLEAN
  PROVE  /\ Placed(r, n, a) \in Record
         /\ Placed(r, n, a).exists = r.exists /\ Placed(r, n, a).ports = r.ports
BY DEF Placed, Record, Somewhere

\* A record whose ports are replaced stays what it was otherwise.
LEMMA RecordWithPorts ==
  ASSUME NEW r \in Record, NEW ps \in SUBSET Ports
  PROVE  /\ [r EXCEPT !.ports = ps] \in Record
         /\ [r EXCEPT !.ports = ps].exists = r.exists /\ [r EXCEPT !.ports = ps].ports = ps
BY DEF Record

\* The types of the fields of a record.
LEMMA RecordFields ==
  ASSUME NEW r \in Record
  PROVE  /\ r.exists \in BOOLEAN /\ r.archived \in BOOLEAN
         /\ r.node \in Somewhere /\ r.ports \in SUBSET Ports
BY DEF Record, Somewhere

\* Changing one volume keeps the type of all.
LEMMA VolumeUpdate ==
  ASSUME NEW v \in Volumes, NEW g \in Gameservers, NEW n, NEW c \in Contents
  PROVE  [v EXCEPT ![g][n] = c] \in Volumes
BY DEF Volumes

\* A volume on a node has one of the contents.
LEMMA VolumeContents ==
  ASSUME NEW v \in Volumes, NEW g \in Gameservers, NEW n \in Nodes
  PROVE  v[g][n] \in Contents
BY DEF Volumes

-----------------------------------------------------------------------------
(* PlaceGameserver.                                                        *)

\* AllocatePorts returns a set of ports.
LEMMA AllocationTypes ==
  ASSUME NEW n \in Nodes, NEW g \in Gameservers, NEW self, NEW ps \in Allocations(n, g, self)
  PROVE  ps \in SUBSET Ports
BY PlacementAssumption DEF Allocations, FreeBases, Block, Ports

\* PlaceGameserver returns a node and what it may choose there.
LEMMA PlacementTypes ==
  ASSUME TypeOK, NEW g \in Gameservers, NEW req \in Nodes \cup {NoNode},
         NEW p \in Placements(g, req)
  PROVE  \E n \in Nodes : p.node = n /\ p.ports \in PortChoices(g, n) /\ p.ports \in SUBSET Ports
<1>1. PICK n \in Nodes : p.node = n /\ p.ports \in PortChoices(g, n)
  <2>1. Candidates \subseteq Nodes
    BY DEF Candidates, TypeOK
  <2>2. PICK n \in Best({m \in IF req = NoNode THEN Candidates ELSE {req} :
                           Fits(g, m, Nobody) /\ PortChoices(g, m) # {}}) :
          p \in {[node |-> n, ports |-> ps] : ps \in PortChoices(g, n)}
    BY DEF Placements
  <2>3. n \in Nodes
    BY <2>1, <2>2 DEF Best
  <2> QED BY <2>2, <2>3
<1>2. p.ports \in SUBSET Ports
  BY <1>1, AllocationTypes, PlacementAssumption DEF PortChoices, Ports
<1> QED BY <1>1, <1>2

\* Allocated ports are in nobody's row and in nobody's reservation, when ports
\* are unique in the cluster (AllocatePorts, UsedPorts).
LEMMA PlacementIsFree ==
  ASSUME TypeOK, Scope = "cluster", NEW g \in Gameservers, NEW req \in Nodes \cup {NoNode},
         NEW p \in Placements(g, req), g \notin Manual, NEW h \in Gameservers
  PROVE  /\ row[h].exists => p.ports \cap row[h].ports = {}
         /\ p.ports \cap pending[h] = {}
<1>1. PICK n \in Nodes : p.ports \in Allocations(n, g, Nobody)
  BY PlacementTypes DEF PortChoices
<1>2. p.ports \cap UsedPorts(n, Nobody) = {}
  BY <1>1 DEF Allocations, FreeBases, Block
<1>3. h \in Gameservers \ {Nobody}
  BY PlacementAssumption
<1>4. ASSUME row[h].exists PROVE row[h].ports \subseteq PortsInRows(n, Nobody)
  BY <1>3, <1>4 DEF PortsInRows
<1>5. pending[h] \subseteq Reserved(Nobody)
  BY <1>3 DEF Reserved
<1> QED BY <1>2, <1>4, <1>5 DEF UsedPorts

-----------------------------------------------------------------------------
(* Type correctness.                                                       *)

\* How an operation's goroutine goes on.
LEMMA BeginTypes ==
  ASSUME TypeOK, NEW g \in Gameservers, NEW type \in OpTypes \cup {"none", "create"},
         NEW l \in Labels, NEW n \in Somewhere, Begin(g, type, l, n),
         type \in {"unarchive", "migrate"} => n \in Nodes
  PROVE  TaskTypeOK'
BY DEF TypeOK, TaskTypeOK, Begin, Somewhere, Contents

\* ... to its next step,
LEMMA GotoTypes ==
  ASSUME TypeOK, NEW g \in Gameservers, NEW l \in Labels, Goto(g, l)
  PROVE  TaskTypeOK'
BY DEF TypeOK, TaskTypeOK, Goto, jobVars

\* ... with what it read from a node,
LEMMA GotoFromTypes ==
  ASSUME TypeOK, NEW g \in Gameservers, NEW l \in Labels, NEW n \in Nodes, GotoFrom(g, l, n)
  PROVE  TaskTypeOK'
<1>1. n \in Somewhere /\ volume[g][n] \in Contents
  BY VolumeContents DEF TypeOK, Somewhere
<1> QED BY <1>1 DEF TypeOK, TaskTypeOK, GotoFrom

\* ... to its end, or to the request that preempted it.
LEMMA FinishTypes ==
  ASSUME TypeOK, NEW g \in Gameservers, Finish(g)
  PROVE  TaskTypeOK' /\ next' \in [Gameservers -> {"none", "stop", "delete"}]
<1>1. /\ next[g] \in OpTypes \cup {"none", "create"} /\ NoNode \in Somewhere
      /\ next[g] \notin {"unarchive", "migrate"}
  BY DEF TypeOK, OpTypes, Somewhere
<1>2. (IF next[g] = "none" THEN "idle" ELSE "teardown") \in Labels
  BY DEF Labels
<1>3. TaskTypeOK'
  BY <1>1, <1>2, BeginTypes DEF Finish
<1> QED BY <1>3 DEF TypeOK, Finish

\* Steps of others leave it alone.
LEMMA SameTaskTypes == ASSUME TypeOK, UNCHANGED <<op, pc, jobVars>> PROVE TaskTypeOK'
BY DEF TypeOK, TaskTypeOK, jobVars

\* The steps of Create keep the types.
LEMMA CreateStepKeepsTypes ==
  ASSUME TypeOK, NEW g \in Gameservers, CreateStep(g)
  PROVE  TypeOK'
<1>1. ASSUME Place(g) PROVE TypeOK'
  <2>1. PICK req \in Nodes \cup {NoNode} : \E p \in Placements(g, req) :
          /\ Begin(g, "create", "check", p.node)
          /\ held' = [held EXCEPT ![g] = p.ports]
          /\ pending' = [pending EXCEPT ![g] = IF g \in Manual THEN {} ELSE p.ports]
    BY <1>1 DEF Place
  <2>2. PICK p \in Placements(g, req) :
          /\ Begin(g, "create", "check", p.node)
          /\ held' = [held EXCEPT ![g] = p.ports]
          /\ pending' = [pending EXCEPT ![g] = IF g \in Manual THEN {} ELSE p.ports]
    BY <2>1
  <2>3. p.node \in Somewhere /\ p.ports \in SUBSET Ports
    BY PlacementTypes DEF Somewhere
  <2>4. TaskTypeOK'
    BY <2>2, <2>3, BeginTypes DEF OpTypes, Labels
  <2> QED BY <1>1, <2>2, <2>3, <2>4 DEF Place, TypeOK, placeVars, dataVars, editVars, envVars
<1>2. ASSUME CheckPlacement(g) PROVE TypeOK'
  <2>1. TaskTypeOK'
    BY <1>2, GotoTypes DEF CheckPlacement, Labels
  <2> QED BY <1>2, <2>1 DEF CheckPlacement, TypeOK, placeVars, dataVars, editVars, envVars
<1>3. ASSUME CreateVolume(g) PROVE TypeOK'
  <2>1. TaskTypeOK'
    BY <1>3, GotoTypes DEF CreateVolume, Labels
  <2>2. [volume EXCEPT ![g][target[g]] = "current"] \in Volumes
    BY VolumeUpdate DEF TypeOK, Contents
  <2> QED BY <1>3, <2>1, <2>2 DEF CreateVolume, TypeOK, placeVars, dataVars, editVars, envVars
<1>4. ASSUME InsertRow(g) PROVE TypeOK'
  <2>1. TaskTypeOK'
    BY <1>4, GotoTypes DEF InsertRow, Labels
  <2>2. NewRow(target[g], held[g]) \in Record
    BY NewRecord DEF TypeOK, TaskTypeOK
  <2> QED BY <1>4, <2>1, <2>2 DEF InsertRow, TypeOK, placeVars, dataVars, editVars, envVars
<1>5. ASSUME UndoVolume(g) PROVE TypeOK'
  <2>1. TaskTypeOK'
    BY <1>5, GotoTypes DEF UndoVolume, Labels
  <2>2. [volume EXCEPT ![g][target[g]] = "none"] \in Volumes
    BY VolumeUpdate DEF TypeOK, Contents
  <2> QED BY <1>5, <2>1, <2>2 DEF UndoVolume, TypeOK, placeVars, dataVars, editVars, envVars
<1>6. ASSUME CommitPorts(g) PROVE TypeOK'
  <2>1. TaskTypeOK'
    BY <1>6, BeginTypes DEF CommitPorts, Somewhere, OpTypes, Labels
  <2> QED BY <1>6, <2>1 DEF CommitPorts, TypeOK, placeVars, dataVars, editVars, envVars, Somewhere, TaskTypeOK
<1>7. ASSUME ReleasePorts(g) PROVE TypeOK'
  <2>1. TaskTypeOK'
    BY <1>7, BeginTypes DEF ReleasePorts, Somewhere, OpTypes, Labels
  <2> QED BY <1>7, <2>1 DEF ReleasePorts, TypeOK, placeVars, dataVars, editVars, envVars
<1> QED BY <1>1, <1>2, <1>3, <1>4, <1>5, <1>6, <1>7 DEF CreateStep

\* Requests keep the types.
LEMMA RequestStepKeepsTypes ==
  ASSUME TypeOK, NEW g \in Gameservers, RequestStep(g)
  PROVE  TypeOK'
<1>1. ASSUME Archive(g) PROVE TypeOK'
  <2>1. TaskTypeOK'
    BY <1>1, BeginTypes DEF Archive, Somewhere, OpTypes, Labels
  <2> QED BY <1>1, <2>1 DEF Archive, Request, TypeOK, placeVars, dataVars, editVars, envVars
<1>2. ASSUME Unarchive(g) PROVE TypeOK'
  <2>1. TaskTypeOK'
    BY <1>2, BeginTypes DEF Unarchive, Somewhere, OpTypes, Labels
  <2> QED BY <1>2, <2>1 DEF Unarchive, Request, TypeOK, placeVars, dataVars, editVars, envVars
<1>3. ASSUME Delete(g) PROVE TypeOK'
  <2>1. TaskTypeOK'
    BY <1>3, BeginTypes DEF Delete, Somewhere, OpTypes, Labels
  <2> QED BY <1>3, <2>1 DEF Delete, Request, TypeOK, placeVars, dataVars, editVars, envVars
<1>4. ASSUME NEW n \in Nodes, Migrate(g, n) PROVE TypeOK'
  <2>1. TaskTypeOK'
    BY <1>4, BeginTypes DEF Migrate, Somewhere, OpTypes, Labels
  <2> QED BY <1>4, <2>1 DEF Migrate, Request, TypeOK, placeVars, dataVars, editVars, envVars
<1>5. ASSUME NEW type \in {"stop", "delete"}, Preempt(g, type) PROVE TypeOK'
  <2>1. TaskTypeOK'
    BY <1>5 DEF Preempt, TypeOK, TaskTypeOK
  <2> QED BY <1>5, <2>1 DEF Preempt, Request, TypeOK, placeVars, dataVars, editVars, envVars
<1> QED BY <1>1, <1>2, <1>3, <1>4, <1>5 DEF RequestStep

\* executeArchive keeps the types.
LEMMA ArchiveStepKeepsTypes ==
  ASSUME TypeOK, NEW g \in Gameservers, ArchiveStep(g)
  PROVE  TypeOK'
<1>1. ASSUME SaveArchive(g) PROVE TypeOK'
  <2>1. TaskTypeOK' /\ next' \in [Gameservers -> {"none", "stop", "delete"}]
    BY <1>1, GotoFromTypes, FinishTypes DEF SaveArchive, Fail, TypeOK, Somewhere, Labels
  <2>2. worker[g] # NoNode => volume[g][worker[g]] \in Contents
    BY VolumeContents DEF TypeOK, Somewhere
  <2> QED BY <1>1, <2>1, <2>2 DEF SaveArchive, Fail, TypeOK, Contents, placeVars, dataVars, editVars, envVars
<1>2. ASSUME CleanSource(g) PROVE TypeOK'
  <2>1. TaskTypeOK'
    BY <1>2, GotoTypes DEF CleanSource, Labels
  <2>2. [volume EXCEPT ![g][source[g]] = "none"] \in Volumes
    BY VolumeUpdate DEF TypeOK, Contents
  <2> QED BY <1>2, <2>1, <2>2 DEF CleanSource, TypeOK, placeVars, dataVars, editVars, envVars
<1>3. ASSUME MarkArchived(g) PROVE TypeOK'
  <2>1. TaskTypeOK'
    BY <1>3, GotoTypes DEF MarkArchived, Labels
  <2>2. Placed(spec[g], NoNode, TRUE) \in Record
    BY MovedRecord DEF TypeOK, Somewhere
  <2> QED BY <1>3, <2>1, <2>2 DEF MarkArchived, TypeOK, placeVars, dataVars, editVars, envVars, Somewhere
<1>4. ASSUME SaveArchived(g) PROVE TypeOK'
  <2>1. TaskTypeOK' /\ next' \in [Gameservers -> {"none", "stop", "delete"}]
    BY <1>4, FinishTypes DEF SaveArchived
  <2>2. Placed(row[g], NoNode, TRUE) \in Record
    BY MovedRecord DEF TypeOK, Somewhere
  <2> QED BY <1>4, <2>1, <2>2 DEF SaveArchived, TypeOK, placeVars, dataVars, editVars, envVars
<1> QED BY <1>1, <1>2, <1>3, <1>4 DEF ArchiveStep

\* executeUnarchive and executeMigrate keep the types.
LEMMA MoveStepKeepsTypes ==
  ASSUME TypeOK, NEW g \in Gameservers, MoveStep(g)
  PROVE  TypeOK'
<1>1. ASSUME BackupSource(g) PROVE TypeOK'
  <2>1. TaskTypeOK' /\ next' \in [Gameservers -> {"none", "stop", "delete"}]
    BY <1>1, GotoFromTypes, FinishTypes DEF BackupSource, Fail, TypeOK, Labels
  <2> QED BY <1>1, <2>1 DEF BackupSource, Fail, TypeOK, placeVars, dataVars, editVars, envVars
<1>2. ASSUME RestoreTarget(g) PROVE TypeOK'
  <2>1. TaskTypeOK' /\ next' \in [Gameservers -> {"none", "stop", "delete"}]
    BY <1>2, GotoTypes, FinishTypes DEF RestoreTarget, Fail, TypeOK, Labels
  <2>2. Payload(g) \in Contents
    BY DEF Payload, TypeOK, TaskTypeOK
  <2>3. /\ [volume EXCEPT ![g][target[g]] = Payload(g)] \in Volumes
        /\ [volume EXCEPT ![g][target[g]] = "other"] \in Volumes
    BY <2>2, VolumeUpdate DEF TypeOK, Contents
  <2> QED BY <1>2, <2>1, <2>3 DEF RestoreTarget, Fail, TypeOK, placeVars, dataVars, editVars, envVars
<1>3. ASSUME ReallocatePorts(g) PROVE TypeOK'
  <2>1. TaskTypeOK'
    BY <1>3, GotoTypes DEF ReallocatePorts, Labels
  <2>2. ASSUME NEW ps \in Allocations(target[g], g, g)
        PROVE  [spec[g] EXCEPT !.ports = ps] \in Record
    <3>1. target[g] \in Nodes
      BY <1>3 DEF ReallocatePorts, Moving, TypeOK, TaskTypeOK
    <3>2. ps \in SUBSET Ports
      BY <3>1, AllocationTypes
    <3> QED BY <3>2, RecordWithPorts DEF TypeOK
  <2>3. spec' \in [Gameservers -> Record]
    BY <1>3, <2>2 DEF ReallocatePorts, TypeOK
  <2> QED BY <1>3, <2>1, <2>3 DEF ReallocatePorts, TypeOK, placeVars, dataVars, editVars, envVars
<1>4. ASSUME AssignTarget(g) PROVE TypeOK'
  <2>1. TaskTypeOK'
    BY <1>4, GotoTypes DEF AssignTarget, Labels
  <2>2. Placed(spec[g], target[g], op[g] # "unarchive" /\ spec[g].archived) \in Record
    BY MovedRecord DEF TypeOK, TaskTypeOK
  <2> QED BY <1>4, <2>1, <2>2 DEF AssignTarget, TypeOK, placeVars, dataVars, editVars, envVars, TaskTypeOK
<1>5. ASSUME SaveTarget(g) PROVE TypeOK'
  <2> DEFINE moved == Placed(row[g], target[g], op[g] # "unarchive" /\ row[g].archived)
  <2>1. TaskTypeOK' /\ next' \in [Gameservers -> {"none", "stop", "delete"}]
    BY <1>5, GotoTypes, FinishTypes DEF SaveTarget, TypeOK, Labels
  <2>2. moved \in Record
    BY MovedRecord, RecordFields DEF TypeOK, TaskTypeOK
  <2>3. [moved EXCEPT !.ports = spec[g].ports] \in Record
    <3> HIDE DEF moved
    <3> QED BY <2>2, RecordWithPorts, RecordFields DEF TypeOK
  <2>4. row' \in [Gameservers -> Record]
    BY <1>5, <2>3 DEF SaveTarget, TypeOK
  <2>5. [volume EXCEPT ![g][source[g]] = "other"] \in Volumes
    BY VolumeUpdate DEF TypeOK, Contents
  <2> QED BY <1>5, <2>1, <2>4, <2>5 DEF SaveTarget, TypeOK, Contents, placeVars, dataVars, editVars, envVars
<1>6. ASSUME CleanMigrated(g) PROVE TypeOK'
  <2>1. TaskTypeOK' /\ next' \in [Gameservers -> {"none", "stop", "delete"}]
    BY <1>6, FinishTypes DEF CleanMigrated
  <2>2. [volume EXCEPT ![g][source[g]] = "none"] \in Volumes
    BY VolumeUpdate DEF TypeOK, Contents
  <2> QED BY <1>6, <2>1, <2>2 DEF CleanMigrated, TypeOK, placeVars, dataVars, editVars, envVars
<1> QED BY <1>1, <1>2, <1>3, <1>4, <1>5, <1>6 DEF MoveStep

\* doStop and executeDelete keep the types.
LEMMA EndStepKeepsTypes ==
  ASSUME TypeOK, NEW g \in Gameservers, EndStep(g)
  PROVE  TypeOK'
<1>1. ASSUME DoStop(g) PROVE TypeOK'
  <2>1. TaskTypeOK' /\ next' \in [Gameservers -> {"none", "stop", "delete"}]
    BY <1>1, FinishTypes DEF DoStop
  <2>2. Placed(spec[g], spec[g].node, FALSE) \in Record
    BY MovedRecord, RecordFields DEF TypeOK, Somewhere
  <2> QED BY <1>1, <2>1, <2>2 DEF DoStop, TypeOK, placeVars, dataVars, editVars, envVars
<1>2. ASSUME Teardown(g) PROVE TypeOK'
  <2>1. TaskTypeOK'
    BY <1>2, GotoTypes DEF Teardown, Labels
  <2>2. [volume EXCEPT ![g][worker[g]] = "none"] \in Volumes
    BY VolumeUpdate DEF TypeOK, Contents
  <2> QED BY <1>2, <2>1, <2>2 DEF Teardown, TypeOK, placeVars, dataVars, editVars, envVars
<1>3. ASSUME DeleteRow(g) PROVE TypeOK'
  <2>1. TaskTypeOK'
    BY <1>3, BeginTypes DEF DeleteRow, Somewhere, OpTypes, Labels
  <2>2. NoRow \in Record
    BY NoRecord
  <2> QED BY <1>3, <2>1, <2>2 DEF DeleteRow, TypeOK, placeVars, dataVars, editVars, envVars, Somewhere, Contents
<1> QED BY <1>1, <1>2, <1>3 DEF EndStep

\* UpdateConfig keeps the types.
LEMMA ConfigStepKeepsTypes ==
  ASSUME TypeOK, NEW g \in Gameservers, ConfigStep(g)
  PROVE  TypeOK'
<1>1. ASSUME ReadConfig(g) PROVE TypeOK'
  <2>1. ASSUME NEW ps \in {row[g].ports} \cup (IF g \in Manual THEN ManualPorts[g] ELSE {})
        PROVE  [row[g] EXCEPT !.ports = ps] \in Record
    <3>1. ps \in SUBSET Ports
      BY RecordFields, PlacementAssumption DEF TypeOK, Ports
    <3> QED BY <3>1, RecordWithPorts DEF TypeOK
  <2>2. copy' \in [Gameservers -> Record]
    <3>1. PICK ps \in {row[g].ports} \cup (IF g \in Manual THEN ManualPorts[g] ELSE {}) :
            copy' = [copy EXCEPT ![g] = [row[g] EXCEPT !.ports = ps]]
      BY <1>1 DEF ReadConfig
    <3> QED BY <2>1, <3>1 DEF TypeOK
  <2>3. TaskTypeOK'
    BY <1>1, SameTaskTypes DEF ReadConfig, taskVars
  <2> QED BY <1>1, <2>2, <2>3 DEF ReadConfig, TypeOK, placeVars, dataVars, editVars, envVars
<1>2. ASSUME WriteConfig(g) PROVE TypeOK'
  <2>1. TaskTypeOK'
    BY <1>2, SameTaskTypes DEF WriteConfig, taskVars
  <2> QED BY <1>2, <2>1, NoRecord DEF WriteConfig, EndEdit, TypeOK, placeVars, dataVars, editVars, envVars
<1>3. ASSUME SwapSpec(g) PROVE TypeOK'
  <2>1. TaskTypeOK'
    BY <1>3, SameTaskTypes DEF SwapSpec, taskVars
  <2> QED BY <1>3, <2>1, NoRecord DEF SwapSpec, EndEdit, TypeOK, placeVars, dataVars, editVars, envVars
<1> QED BY <1>1, <1>2, <1>3 DEF ConfigStep

\* Workers that come and go and controller restarts keep the types.
LEMMA ClusterKeepsTypes ==
  ASSUME TypeOK,
         (\E n \in Nodes : OnWorkerOffline(n) \/ OnWorkerOnline(n)) \/ ControllerRestart
  PROVE  TypeOK'
<1> USE PlacementAssumption, NoRecord, RecordFields DEF TypeOK, TaskTypeOK, Labels, OpTypes, Contents, Somewhere
<1>1. ASSUME NEW n \in Nodes, OnWorkerOffline(n) PROVE TypeOK'
  BY <1>1 DEF OnWorkerOffline, taskVars, jobVars, dataVars, editVars
<1>2. ASSUME NEW n \in Nodes, OnWorkerOnline(n) PROVE TypeOK'
  BY <1>2 DEF OnWorkerOnline, taskVars, jobVars, dataVars, editVars, envVars
<1>3. ASSUME ControllerRestart PROVE TypeOK'
  BY <1>3 DEF ControllerRestart, dataVars
<1> QED BY <1>1, <1>2, <1>3

\* The initial state is well typed.
LEMMA InitTypes == Init => TypeOK
BY PlacementAssumption, NoRecord
   DEF Init, TypeOK, TaskTypeOK, Volumes, Labels, OpTypes, Contents, Somewhere, Ports

\* Every step keeps the types.
LEMMA TypesInductive == TypeOK /\ [Next]_vars => TypeOK'
<1> SUFFICES ASSUME TypeOK, [Next]_vars PROVE TypeOK'
  OBVIOUS
<1>1. CASE UNCHANGED vars
  BY <1>1 DEF TypeOK, TaskTypeOK, vars, placeVars, taskVars, jobVars, dataVars, editVars, envVars
<1>2. ASSUME NEW g \in Gameservers,
             \/ CreateStep(g) \/ RequestStep(g) \/ ArchiveStep(g) \/ MoveStep(g) \/ EndStep(g)
             \/ ConfigStep(g)
      PROVE  TypeOK'
  BY <1>2, CreateStepKeepsTypes, RequestStepKeepsTypes, ArchiveStepKeepsTypes,
     MoveStepKeepsTypes, EndStepKeepsTypes, ConfigStepKeepsTypes
<1> QED BY <1>1, <1>2, ClusterKeepsTypes DEF Next

\* The variables of Placement keep the shape the code's types give them.
THEOREM PlacementTypeCorrect == Spec => []TypeOK
BY InitTypes, TypesInductive, PTL DEF Spec

-----------------------------------------------------------------------------
(* Ports.  A step of one gameserver leaves what the others hold alone.     *)

Only(g) ==
  \A h \in Gameservers \ {g} :
    /\ row'[h] = row[h] /\ spec'[h] = spec[h] /\ copy'[h] = copy[h] /\ edit'[h] = edit[h]
    /\ pending'[h] = pending[h] /\ held'[h] = held[h] /\ op'[h] = op[h] /\ pc'[h] = pc[h]

\* If what g holds afterwards is disjoint from what the others hold, the
\* invariant is kept.
LEMMA OneMoves ==
  ASSUME PortInv, TypeOK', NEW g \in Gameservers, Only(g), Consistent(g)',
         \A h \in Gameservers \ Manual : g \notin Manual /\ h # g =>
           (row'[g].ports \cup pending'[g]) \cap (row[h].ports \cup pending[h]) = {}
  PROVE  PortInv'
<1>1. ASSUME NEW h \in Gameservers PROVE Consistent(h)'
  <2>1. CASE h = g
    BY <2>1
  <2>2. CASE h # g
    <3>1. Consistent(h)
      BY DEF PortInv
    <3>2. /\ row'[h] = row[h] /\ spec'[h] = spec[h] /\ copy'[h] = copy[h] /\ edit'[h] = edit[h]
          /\ pending'[h] = pending[h] /\ held'[h] = held[h] /\ op'[h] = op[h] /\ pc'[h] = pc[h]
      BY <2>2 DEF Only
    <3> QED BY <3>1, <3>2 DEF Consistent
  <2> QED BY <2>1, <2>2
<1>2. HeldDisjoint'
  <2> SUFFICES ASSUME NEW h \in Gameservers \ Manual, NEW i \in Gameservers \ Manual, h # i
               PROVE  (row'[h].ports \cup pending'[h]) \cap (row'[i].ports \cup pending'[i]) = {}
    BY DEF HeldDisjoint
  <2>1. CASE h # g /\ i # g
    BY <2>1 DEF Only, PortInv, HeldDisjoint
  <2>2. CASE h = g
    BY <2>2 DEF Only
  <2>3. CASE i = g
    BY <2>3 DEF Only
  <2> QED BY <2>1, <2>2, <2>3
<1> QED BY <1>1, <1>2 DEF PortInv

\* A gameserver that holds no more than before takes nothing from the others.
LEMMA HoldsNoMore ==
  ASSUME PortInv, TypeOK', NEW g \in Gameservers, Only(g), Consistent(g)',
         g \notin Manual =>
           row'[g].ports \cup pending'[g] \subseteq row[g].ports \cup pending[g]
  PROVE  PortInv'
<1>1. ASSUME NEW h \in Gameservers \ Manual, g \notin Manual, h # g
      PROVE  (row'[g].ports \cup pending'[g]) \cap (row[h].ports \cup pending[h]) = {}
  <2>1. (row[g].ports \cup pending[g]) \cap (row[h].ports \cup pending[h]) = {}
    BY <1>1 DEF PortInv, HeldDisjoint
  <2> QED BY <1>1, <2>1
<1> QED BY <1>1, OneMoves

\* A Create between its allocation and its row.
LEMMA CreateGoesOn ==
  ASSUME PortInv, TypeOK', NEW g \in Gameservers, NEW l \in CreateLabels \ {"commit"},
         op[g] = "create", pc[g] \in CreateLabels \ {"commit"}, Goto(g, l),
         UNCHANGED <<row, spec, copy, edit, pending, held>>
  PROVE  PortInv'
<1>1. pc'[g] = l /\ op' = op
  BY DEF PortInv, TypeOK, TaskTypeOK, Goto
<1>2. Only(g)
  BY DEF PortInv, TypeOK, TaskTypeOK, Only, Goto
<1>3. Consistent(g)
  BY DEF PortInv
<1>4. Consistent(g)'
  BY <1>1, <1>3 DEF Consistent, CreateLabels
<1> QED BY <1>2, <1>4, HoldsNoMore

\* An operation of an existing gameserver, and its records r in the table and
\* s in the object afterwards, which keep their ports.
LEMMA OperationGoesOn ==
  ASSUME PortInv, TypeOK', NEW g \in Gameservers, NEW r \in Record, NEW s \in Record,
         NEW t \in OpTypes \cup {"none"}, NEW l \in Labels \ (CreateLabels \cup {"new", "gone"}),
         spec[g].exists, op[g] # "create", r.exists, s.exists,
         g \notin Manual => r.ports = row[g].ports /\ s.ports = row[g].ports,
         row' = [row EXCEPT ![g] = r], spec' = [spec EXCEPT ![g] = s],
         op' = [op EXCEPT ![g] = t], pc' = [pc EXCEPT ![g] = l],
         UNCHANGED <<copy, edit, pending, held>>
  PROVE  PortInv'
<1>1. row'[g] = r /\ spec'[g] = s /\ op'[g] = t /\ pc'[g] = l
  BY DEF PortInv, TypeOK, TaskTypeOK
<1>2. Only(g)
  BY DEF PortInv, TypeOK, TaskTypeOK, Only
<1>3. Consistent(g)
  BY DEF PortInv
<1>4. Consistent(g)'
  BY <1>1, <1>3 DEF Consistent, CreateLabels, OpTypes
<1> QED BY <1>1, <1>2, <1>4, HoldsNoMore

\* ... in particular when the records do not change.
LEMMA TaskGoesOn ==
  ASSUME PortInv, TypeOK', NEW g \in Gameservers,
         NEW t \in OpTypes \cup {"none"}, NEW l \in Labels \ (CreateLabels \cup {"new", "gone"}),
         spec[g].exists, op[g] # "create",
         op' = [op EXCEPT ![g] = t], pc' = [pc EXCEPT ![g] = l],
         UNCHANGED <<row, spec, copy, edit, pending, held>>
  PROVE  PortInv'
<1>1. /\ row[g] \in Record /\ spec[g] \in Record
      /\ row' = [row EXCEPT ![g] = row[g]] /\ spec' = [spec EXCEPT ![g] = spec[g]]
  BY DEF PortInv, TypeOK
<1>2. row[g].exists /\ (g \notin Manual => spec[g].ports = row[g].ports)
  BY DEF PortInv, Consistent
<1> QED BY <1>1, <1>2, OperationGoesOn

\* The labels of operations, and the one Finish goes to.
LEMMA FinishesTo ==
  ASSUME TypeOK, NEW g \in Gameservers, Finish(g)
  PROVE  \E t \in OpTypes \cup {"none"}, l \in Labels \ (CreateLabels \cup {"new", "gone"}) :
           op' = [op EXCEPT ![g] = t] /\ pc' = [pc EXCEPT ![g] = l]
<1>1. next[g] \in OpTypes \cup {"none"}
  BY DEF TypeOK, OpTypes
<1>2. (IF next[g] = "none" THEN "idle" ELSE "teardown")
        \in Labels \ (CreateLabels \cup {"new", "gone"})
  BY DEF Labels, CreateLabels
<1> QED BY <1>1, <1>2 DEF Finish, Begin

\* The labels of operations are not those of Create.
LEMMA OperationLabels ==
  {"idle", "backup", "clean", "mark", "save", "restore", "ports", "assign", "teardown", "deleteRow"}
    \subseteq Labels \ (CreateLabels \cup {"new", "gone"})
BY DEF Labels, CreateLabels

\* An operation works on an existing gameserver.
LEMMA OperationExists ==
  ASSUME PortInv, NEW g \in Gameservers, op[g] \in OpTypes
  PROVE  /\ spec[g].exists /\ row[g].exists /\ op[g] # "create"
         /\ row[g] \in Record /\ spec[g] \in Record
         /\ g \notin Manual => spec[g].ports = row[g].ports
BY DEF PortInv, TypeOK, Consistent, OpTypes

-----------------------------------------------------------------------------
\* Create: only the allocation adds ports, and they are free.
LEMMA CreateStepKeepsPorts ==
  ASSUME PortInv, TypeOK', Scope = "cluster", NEW g \in Gameservers, CreateStep(g)
  PROVE  PortInv'
<1> USE DEF At
<1>0. Consistent(g) /\ TypeOK
  BY DEF PortInv
<1>1. ASSUME Place(g) PROVE PortInv'
  <2>1. PICK req \in Nodes \cup {NoNode} : \E p \in Placements(g, req) :
          /\ Begin(g, "create", "check", p.node)
          /\ held' = [held EXCEPT ![g] = p.ports]
          /\ pending' = [pending EXCEPT ![g] = IF g \in Manual THEN {} ELSE p.ports]
    BY <1>1 DEF Place
  <2>2. PICK p \in Placements(g, req) :
          /\ Begin(g, "create", "check", p.node)
          /\ held' = [held EXCEPT ![g] = p.ports]
          /\ pending' = [pending EXCEPT ![g] = IF g \in Manual THEN {} ELSE p.ports]
    BY <2>1
  <2>3. /\ op'[g] = "create" /\ pc'[g] = "check" /\ held'[g] = p.ports
        /\ pending'[g] = (IF g \in Manual THEN {} ELSE p.ports)
        /\ UNCHANGED <<row, spec, copy, edit>>
    BY <1>0, <1>1, <2>2 DEF Place, Begin, TypeOK, TaskTypeOK, editVars
  <2>4. pc[g] = "new" /\ ~row[g].exists /\ row[g].ports = {} /\ ~spec[g].exists /\ edit[g] = "none"
    BY <1>0, <1>1 DEF Place, Consistent, TypeOK
  <2>5. Only(g)
    BY <1>0, <1>1, <2>2, <2>3 DEF Only, Begin, TypeOK, TaskTypeOK
  <2>6. Consistent(g)'
    BY <2>3, <2>4 DEF Consistent, CreateLabels, OpTypes
  <2>7. ASSUME NEW h \in Gameservers \ Manual, g \notin Manual, h # g
        PROVE  (row'[g].ports \cup pending'[g]) \cap (row[h].ports \cup pending[h]) = {}
    <3>1. p.ports \cap pending[h] = {} /\ (row[h].exists => p.ports \cap row[h].ports = {})
      BY <1>0, <2>7, PlacementIsFree
    <3>2. ~row[h].exists => row[h].ports = {}
      BY DEF PortInv, Consistent
    <3>3. row'[g].ports = {} /\ pending'[g] = p.ports
      BY <2>3, <2>4, <2>7
    <3>4. row[h].exists \in BOOLEAN
      BY <1>0, RecordFields DEF TypeOK
    <3> QED BY <3>1, <3>2, <3>3, <3>4
  <2> QED BY <2>5, <2>6, <2>7, OneMoves
<1>2. ASSUME CheckPlacement(g) PROVE PortInv'
  BY <1>2, CreateGoesOn DEF CheckPlacement, CreateLabels, placeVars, editVars
<1>3. ASSUME CreateVolume(g) PROVE PortInv'
  BY <1>3, CreateGoesOn DEF CreateVolume, CreateLabels, placeVars, editVars
<1>4. ASSUME UndoVolume(g) PROVE PortInv'
  BY <1>4, CreateGoesOn DEF UndoVolume, CreateLabels, placeVars, editVars
<1>5. ASSUME InsertRow(g) PROVE PortInv'
  <2>1. CASE Goto(g, "undo") /\ UNCHANGED row
    BY <1>5, <2>1, CreateGoesOn DEF InsertRow, CreateLabels, editVars
  <2>2. CASE row' = [row EXCEPT ![g] = NewRow(target[g], held[g])] /\ Goto(g, "commit")
    <3>1. /\ op' = op /\ pc'[g] = "commit" /\ row'[g] = NewRow(target[g], held[g])
          /\ UNCHANGED <<spec, pending, held, copy, edit>>
      BY <1>0, <1>5, <2>2 DEF InsertRow, Goto, TypeOK, TaskTypeOK, editVars
    <3>2. row'[g].exists /\ row'[g].ports = held[g]
      BY <1>0, <3>1, NewRecord DEF TypeOK, TaskTypeOK
    <3>3. Only(g)
      BY <1>0, <2>2, <3>1 DEF Only, Goto, TypeOK, TaskTypeOK
    <3>4. /\ op[g] = "create" /\ ~row[g].exists /\ ~spec[g].exists /\ edit[g] = "none"
          /\ g \notin Manual => held[g] = pending[g]
      BY <1>0, <1>5 DEF InsertRow, Consistent, CreateLabels
    <3>5. Consistent(g)'
      BY <3>1, <3>2, <3>4 DEF Consistent, CreateLabels, OpTypes
    <3> QED BY <3>1, <3>2, <3>3, <3>4, <3>5, HoldsNoMore
  <2> QED BY <1>5, <2>1, <2>2 DEF InsertRow
<1>6. ASSUME CommitPorts(g) PROVE PortInv'
  <2>1. /\ op'[g] = "none" /\ pc'[g] = "idle" /\ pending'[g] = {} /\ spec'[g] = row[g]
        /\ UNCHANGED <<row, copy, edit>>
    BY <1>0, <1>6 DEF CommitPorts, Begin, TypeOK, TaskTypeOK, editVars
  <2>2. Only(g)
    BY <1>0, <1>6, <2>1 DEF CommitPorts, Only, Begin, TypeOK, TaskTypeOK
  <2>3. pc[g] = "commit"
    BY <1>6 DEF CommitPorts
  <2>4. Consistent(g)'
    BY <1>0, <2>1, <2>3 DEF Consistent, CreateLabels, OpTypes
  <2> QED BY <2>1, <2>2, <2>4, HoldsNoMore
<1>7. ASSUME ReleasePorts(g) PROVE PortInv'
  <2>1. /\ op'[g] = "none" /\ pc'[g] = "gone" /\ pending'[g] = {}
        /\ UNCHANGED <<row, spec, copy, edit>>
    BY <1>0, <1>7 DEF ReleasePorts, Begin, TypeOK, TaskTypeOK, editVars
  <2>2. Only(g)
    BY <1>0, <1>7, <2>1 DEF ReleasePorts, Only, Begin, TypeOK, TaskTypeOK
  <2>3. pc[g] = "release"
    BY <1>7 DEF ReleasePorts
  <2>4. Consistent(g)'
    BY <1>0, <2>1, <2>3 DEF Consistent, CreateLabels, OpTypes
  <2> QED BY <2>1, <2>2, <2>4, HoldsNoMore
<1> QED BY <1>1, <1>2, <1>3, <1>4, <1>5, <1>6, <1>7 DEF CreateStep

\* Requests begin an operation of an existing gameserver.
LEMMA RequestStepKeepsPorts ==
  ASSUME PortInv, TypeOK', NEW g \in Gameservers, RequestStep(g)
  PROVE  PortInv'
<1>0. pc[g] = "idle" => op[g] # "create"
  BY DEF PortInv, Consistent, CreateLabels
<1> USE OperationLabels DEF Request, Free, Begin, OpTypes, placeVars, editVars
<1>1. ASSUME Archive(g) PROVE PortInv'
  BY <1>0, <1>1, TaskGoesOn DEF Archive
<1>2. ASSUME Unarchive(g) PROVE PortInv'
  BY <1>0, <1>2, TaskGoesOn DEF Unarchive
<1>3. ASSUME Delete(g) PROVE PortInv'
  BY <1>0, <1>3, TaskGoesOn DEF Delete
<1>4. ASSUME NEW n \in Nodes, Migrate(g, n) PROVE PortInv'
  BY <1>0, <1>4, TaskGoesOn DEF Migrate
<1>5. ASSUME NEW type \in {"stop", "delete"}, Preempt(g, type) PROVE PortInv'
  <2>1. UNCHANGED <<row, spec, copy, edit, pending, held, op, pc>>
    BY <1>5 DEF Preempt
  <2> QED BY <2>1 DEF PortInv, Consistent, HeldDisjoint
<1> QED BY <1>1, <1>2, <1>3, <1>4, <1>5 DEF RequestStep

\* executeArchive keeps the ports of the records.
LEMMA ArchiveStepKeepsPorts ==
  ASSUME PortInv, TypeOK', NEW g \in Gameservers, ArchiveStep(g)
  PROVE  PortInv'
<1>0. TypeOK
  BY DEF PortInv
<1>1. op[g] = "archive" /\ op[g] \in OpTypes
  BY DEF ArchiveStep, SaveArchive, CleanSource, MarkArchived, SaveArchived, At, OpTypes
<1>2. /\ spec[g].exists /\ row[g].exists /\ op[g] # "create"
      /\ row[g] \in Record /\ spec[g] \in Record
      /\ g \notin Manual => spec[g].ports = row[g].ports
  BY <1>1, OperationExists
<1>3. op = [op EXCEPT ![g] = op[g]] /\ row = [row EXCEPT ![g] = row[g]]
  BY <1>0 DEF TypeOK, TaskTypeOK
<1>4. ASSUME SaveArchive(g) PROVE PortInv'
  <2>1. UNCHANGED <<row, spec, copy, edit, pending, held>>
    BY <1>4 DEF SaveArchive, Fail, placeVars, editVars
  <2>2. CASE Finish(g)
    BY <1>0, <1>2, <2>1, <2>2, FinishesTo, TaskGoesOn
  <2>3. CASE GotoFrom(g, "clean", worker[g])
    BY <1>1, <1>2, <1>3, <2>1, <2>3, TaskGoesOn, OperationLabels DEF GotoFrom
  <2> QED BY <1>4, <2>2, <2>3 DEF SaveArchive, Fail
<1>5. ASSUME CleanSource(g) PROVE PortInv'
  BY <1>1, <1>2, <1>3, <1>5, TaskGoesOn, OperationLabels DEF CleanSource, Goto, placeVars, editVars
<1>6. ASSUME MarkArchived(g) PROVE PortInv'
  <2>1. /\ Placed(spec[g], NoNode, TRUE) \in Record
        /\ Placed(spec[g], NoNode, TRUE).exists = spec[g].exists
        /\ Placed(spec[g], NoNode, TRUE).ports = spec[g].ports
    BY <1>2, MovedRecord DEF Somewhere
  <2>2. spec' = [spec EXCEPT ![g] = Placed(spec[g], NoNode, TRUE)]
    BY <1>6 DEF MarkArchived
  <2>3. /\ row' = [row EXCEPT ![g] = row[g]] /\ op' = [op EXCEPT ![g] = op[g]]
        /\ pc' = [pc EXCEPT ![g] = "save"] /\ UNCHANGED <<copy, edit, pending, held>>
    BY <1>3, <1>6 DEF MarkArchived, Goto, editVars
  <2> QED BY <1>1, <1>2, <2>1, <2>2, <2>3, OperationGoesOn, OperationLabels
<1>7. ASSUME SaveArchived(g) PROVE PortInv'
  <2>1. /\ Placed(row[g], NoNode, TRUE) \in Record
        /\ Placed(row[g], NoNode, TRUE).exists = row[g].exists
        /\ Placed(row[g], NoNode, TRUE).ports = row[g].ports
    BY <1>2, MovedRecord DEF Somewhere
  <2>2. spec' = [spec EXCEPT ![g] = spec[g]]
    BY <1>0, <1>7 DEF SaveArchived, TypeOK
  <2>3. PICK t \in OpTypes \cup {"none"}, l \in Labels \ (CreateLabels \cup {"new", "gone"}) :
          op' = [op EXCEPT ![g] = t] /\ pc' = [pc EXCEPT ![g] = l]
    BY <1>0, <1>7, FinishesTo DEF SaveArchived
  <2> QED BY <1>2, <1>7, <2>1, <2>2, <2>3, OperationGoesOn DEF SaveArchived, editVars
<1> QED BY <1>4, <1>5, <1>6, <1>7 DEF ArchiveStep

\* executeUnarchive and executeMigrate keep them: nothing is reallocated when
\* ports are unique in the cluster.
LEMMA MoveStepKeepsPorts ==
  ASSUME PortInv, TypeOK', Scope = "cluster", NEW g \in Gameservers, MoveStep(g)
  PROVE  PortInv'
<1>0. TypeOK
  BY DEF PortInv
<1>1. op[g] \in OpTypes
  BY DEF MoveStep, BackupSource, RestoreTarget, ReallocatePorts, AssignTarget, SaveTarget,
         CleanMigrated, At, Moving, OpTypes
<1>2. /\ spec[g].exists /\ row[g].exists /\ op[g] # "create"
      /\ row[g] \in Record /\ spec[g] \in Record
      /\ g \notin Manual => spec[g].ports = row[g].ports
  BY <1>1, OperationExists
<1>3. op = [op EXCEPT ![g] = op[g]] /\ row = [row EXCEPT ![g] = row[g]]
  BY <1>0 DEF TypeOK, TaskTypeOK
<1>4. ASSUME BackupSource(g) PROVE PortInv'
  <2>1. UNCHANGED <<row, spec, copy, edit, pending, held>>
    BY <1>4 DEF BackupSource, Fail, placeVars, editVars
  <2>2. CASE Finish(g)
    BY <1>0, <1>2, <2>1, <2>2, FinishesTo, TaskGoesOn
  <2>3. CASE GotoFrom(g, "restore", row[g].node)
    BY <1>1, <1>2, <1>3, <2>1, <2>3, TaskGoesOn, OperationLabels DEF GotoFrom
  <2> QED BY <1>4, <2>2, <2>3 DEF BackupSource, Fail
<1>5. ASSUME RestoreTarget(g) PROVE PortInv'
  <2>1. UNCHANGED <<row, spec, copy, edit, pending, held>>
    BY <1>5 DEF RestoreTarget, Fail, placeVars, editVars
  <2>2. CASE Finish(g)
    BY <1>0, <1>2, <2>1, <2>2, FinishesTo, TaskGoesOn
  <2>3. CASE Goto(g, "ports")
    BY <1>1, <1>2, <1>3, <2>1, <2>3, TaskGoesOn, OperationLabels DEF Goto
  <2> QED BY <1>5, <2>2, <2>3 DEF RestoreTarget, Fail
<1>6. ASSUME ReallocatePorts(g) PROVE PortInv'
  BY <1>1, <1>2, <1>3, <1>6, TaskGoesOn, OperationLabels DEF ReallocatePorts, Goto, editVars
<1>7. ASSUME AssignTarget(g) PROVE PortInv'
  <2> DEFINE moved == Placed(spec[g], target[g], op[g] # "unarchive" /\ spec[g].archived)
  <2>1. moved \in Record /\ moved.exists = spec[g].exists /\ moved.ports = spec[g].ports
    BY <1>0, <1>2, MovedRecord, RecordFields DEF TypeOK, TaskTypeOK
  <2>2. spec' = [spec EXCEPT ![g] = moved]
    BY <1>7 DEF AssignTarget
  <2>3. /\ row' = [row EXCEPT ![g] = row[g]] /\ op' = [op EXCEPT ![g] = op[g]]
        /\ pc' = [pc EXCEPT ![g] = "save"] /\ UNCHANGED <<copy, edit, pending, held>>
    BY <1>3, <1>7 DEF AssignTarget, Goto, editVars
  <2> HIDE DEF moved
  <2> QED BY <1>1, <1>2, <2>1, <2>2, <2>3, OperationGoesOn, OperationLabels
<1>8. ASSUME SaveTarget(g) PROVE PortInv'
  <2> DEFINE moved == Placed(row[g], target[g], op[g] # "unarchive" /\ row[g].archived)
             saved == [moved EXCEPT !.ports = spec[g].ports]
  <2>1. moved \in Record /\ moved.exists = row[g].exists
    BY <1>0, <1>2, MovedRecord, RecordFields DEF TypeOK, TaskTypeOK
  <2>2. saved \in Record /\ saved.exists = row[g].exists /\ saved.ports = spec[g].ports
    <3> HIDE DEF moved
    <3> QED BY <1>2, <2>1, RecordWithPorts, RecordFields
  <2>3. row' = [row EXCEPT ![g] = saved]
    BY <1>8 DEF SaveTarget
  <2>4. spec' = [spec EXCEPT ![g] = spec[g]]
    BY <1>0, <1>8 DEF SaveTarget, TypeOK
  <2>5. PICK t \in OpTypes \cup {"none"}, l \in Labels \ (CreateLabels \cup {"new", "gone"}) :
          op' = [op EXCEPT ![g] = t] /\ pc' = [pc EXCEPT ![g] = l]
    BY <1>0, <1>1, <1>3, <1>8, FinishesTo, OperationLabels DEF SaveTarget, Goto
  <2> HIDE DEF moved, saved
  <2> QED BY <1>2, <1>8, <2>2, <2>3, <2>4, <2>5, OperationGoesOn DEF SaveTarget, editVars
<1>9. ASSUME CleanMigrated(g) PROVE PortInv'
  BY <1>0, <1>2, <1>9, FinishesTo, TaskGoesOn DEF CleanMigrated, placeVars, editVars
<1> QED BY <1>4, <1>5, <1>6, <1>7, <1>8, <1>9 DEF MoveStep

\* doStop keeps them, executeDelete gives them up.
LEMMA EndStepKeepsPorts ==
  ASSUME PortInv, TypeOK', NEW g \in Gameservers, EndStep(g)
  PROVE  PortInv'
<1>0. TypeOK
  BY DEF PortInv
<1>1. op[g] \in OpTypes
  BY DEF EndStep, DoStop, Teardown, DeleteRow, At, OpTypes
<1>2. /\ spec[g].exists /\ row[g].exists /\ op[g] # "create"
      /\ row[g] \in Record /\ spec[g] \in Record
      /\ g \notin Manual => spec[g].ports = row[g].ports
  BY <1>1, OperationExists
<1>3. op = [op EXCEPT ![g] = op[g]] /\ row = [row EXCEPT ![g] = row[g]]
  BY <1>0 DEF TypeOK, TaskTypeOK
<1>4. ASSUME DoStop(g) PROVE PortInv'
  <2> DEFINE stopped == Placed(spec[g], spec[g].node, FALSE)
  <2>1. stopped \in Record /\ stopped.exists = spec[g].exists /\ stopped.ports = spec[g].ports
    BY <1>2, MovedRecord, RecordFields
  <2>2. spec' = [spec EXCEPT ![g] = stopped] /\ row' = [row EXCEPT ![g] = stopped]
    BY <1>0, <1>4 DEF DoStop, TypeOK
  <2>3. PICK t \in OpTypes \cup {"none"}, l \in Labels \ (CreateLabels \cup {"new", "gone"}) :
          op' = [op EXCEPT ![g] = t] /\ pc' = [pc EXCEPT ![g] = l]
    BY <1>0, <1>4, FinishesTo DEF DoStop
  <2> HIDE DEF stopped
  <2> QED BY <1>2, <1>4, <2>1, <2>2, <2>3, OperationGoesOn DEF DoStop, editVars
<1>5. ASSUME Teardown(g) PROVE PortInv'
  BY <1>1, <1>2, <1>3, <1>5, TaskGoesOn, OperationLabels DEF Teardown, Goto, placeVars, editVars
<1>6. ASSUME DeleteRow(g) PROVE PortInv'
  <2>1. /\ op'[g] = "none" /\ pc'[g] = "gone" /\ row'[g] = NoRow /\ spec'[g] = NoRow
        /\ UNCHANGED <<pending, held, copy, edit>>
    BY <1>0, <1>6 DEF DeleteRow, Begin, TypeOK, TaskTypeOK, editVars
  <2>2. Only(g)
    BY <1>0, <1>6, <2>1 DEF DeleteRow, Only, Begin, TypeOK, TaskTypeOK
  <2>3. Consistent(g)
    BY DEF PortInv
  <2>4. Consistent(g)'
    BY <1>2, <2>1, <2>3, NoRecord DEF Consistent, CreateLabels, OpTypes
  <2> QED BY <2>1, <2>2, <2>4, NoRecord, HoldsNoMore
<1> QED BY <1>4, <1>5, <1>6 DEF EndStep

\* UpdateConfig writes back the ports it has read, unless a user names others.
LEMMA ConfigStepKeepsPorts ==
  ASSUME PortInv, TypeOK', NEW g \in Gameservers, ConfigStep(g)
  PROVE  PortInv'
<1>0. Consistent(g) /\ TypeOK
  BY DEF PortInv
<1> USE DEF taskVars, jobVars
<1>1. ASSUME ReadConfig(g) PROVE PortInv'
  <2>1. PICK ps \in {row[g].ports} \cup (IF g \in Manual THEN ManualPorts[g] ELSE {}) :
          copy' = [copy EXCEPT ![g] = [row[g] EXCEPT !.ports = ps]]
    BY <1>1 DEF ReadConfig
  <2>2. ps \in SUBSET Ports /\ row[g] \in Record
    BY <1>0, RecordFields, PlacementAssumption DEF TypeOK, Ports
  <2>3. copy'[g].exists = row[g].exists /\ copy'[g].ports = ps
    BY <1>0, <2>1, <2>2, RecordWithPorts DEF TypeOK
  <2>4. row[g].exists /\ UNCHANGED <<row, spec, pending, held, op, pc>>
    BY <1>1 DEF ReadConfig, placeVars
  <2>5. Only(g)
    BY <1>0, <1>1, <2>1, <2>4 DEF ReadConfig, Only, TypeOK
  <2>6. Consistent(g)'
    BY <1>0, <2>3, <2>4 DEF Consistent
  <2> QED BY <2>4, <2>5, <2>6, HoldsNoMore
<1>2. ASSUME WriteConfig(g) PROVE PortInv'
  <2>1. UNCHANGED <<spec, pending, held, op, pc>> /\ edit[g] = "read"
    BY <1>2 DEF WriteConfig
  <2>2. CASE row[g].exists /\ row' = [row EXCEPT ![g] = copy[g]]
             /\ edit' = [edit EXCEPT ![g] = "written"] /\ UNCHANGED copy
    <3>1. row'[g] = copy[g] /\ edit'[g] = "written"
      BY <1>0, <2>2 DEF TypeOK
    <3>2. Only(g)
      BY <1>0, <2>1, <2>2 DEF Only, TypeOK
    <3>3. copy[g].exists /\ (g \notin Manual => copy[g].ports = row[g].ports)
      BY <1>0, <2>1, <2>2 DEF Consistent
    <3>4. Consistent(g)'
      BY <1>0, <2>1, <2>2, <3>1, <3>3 DEF Consistent
    <3> QED BY <2>1, <3>1, <3>2, <3>3, <3>4, HoldsNoMore
  <2>3. CASE EndEdit(g) /\ UNCHANGED row
    <3>1. edit'[g] = "none"
      BY <1>0, <2>3 DEF EndEdit, TypeOK
    <3>2. Only(g)
      BY <1>0, <2>1, <2>3 DEF Only, EndEdit, TypeOK
    <3>3. Consistent(g)'
      BY <1>0, <2>1, <2>3, <3>1 DEF Consistent
    <3> QED BY <2>1, <2>3, <3>2, <3>3, HoldsNoMore
  <2> QED BY <1>2, <2>2, <2>3 DEF WriteConfig
<1>3. ASSUME SwapSpec(g) PROVE PortInv'
  <2>1. UNCHANGED <<row, pending, held, op, pc>> /\ edit[g] = "written" /\ edit'[g] = "none"
    BY <1>0, <1>3 DEF SwapSpec, EndEdit, TypeOK
  <2>2. spec'[g] = IF spec[g].exists THEN copy[g] ELSE spec[g]
    BY <1>0, <1>3 DEF SwapSpec, TypeOK
  <2>3. Only(g)
    BY <1>0, <1>3, <2>1 DEF SwapSpec, EndEdit, Only, TypeOK
  <2>4. Consistent(g)'
    BY <1>0, <2>1, <2>2 DEF Consistent
  <2> QED BY <2>1, <2>3, <2>4, HoldsNoMore
<1> QED BY <1>1, <1>2, <1>3 DEF ConfigStep

\* A restart forgets reservations; no Create survives it either.
LEMMA RestartKeepsPorts == ASSUME PortInv, TypeOK', ControllerRestart PROVE PortInv'
<1>1. ASSUME NEW g \in Gameservers PROVE Consistent(g)'
  <2>1. /\ row'[g] = row[g] /\ spec'[g] = row[g] /\ pending'[g] = {} /\ op'[g] = "none"
        /\ edit'[g] = "none"
        /\ pc'[g] = IF row[g].exists THEN "idle" ELSE IF pc[g] = "new" THEN "new" ELSE "gone"
    BY DEF ControllerRestart, PortInv, TypeOK
  <2>2. ~row[g].exists => row[g].ports = {}
    BY DEF PortInv, Consistent
  <2> QED BY <2>1, <2>2 DEF Consistent, CreateLabels, OpTypes
<1>2. HeldDisjoint'
  BY DEF ControllerRestart, PortInv, HeldDisjoint
<1> QED BY <1>1, <1>2 DEF PortInv

\* What no part of a step touches.
LEMMA SamePorts ==
  ASSUME PortInv, TypeOK', UNCHANGED <<row, spec, copy, edit, pending, held, op, pc>>
  PROVE  PortInv'
BY DEF PortInv, Consistent, HeldDisjoint

\* Every step keeps the port invariant.
LEMMA PortInvInductive == Scope = "cluster" /\ PortInv /\ TypeOK' /\ [Next]_vars => PortInv'
<1> SUFFICES ASSUME Scope = "cluster", PortInv, TypeOK', [Next]_vars PROVE PortInv'
  OBVIOUS
<1>1. CASE UNCHANGED vars
  BY <1>1, SamePorts DEF vars, placeVars, taskVars, editVars
<1>2. ASSUME NEW g \in Gameservers,
             \/ CreateStep(g) \/ RequestStep(g) \/ ArchiveStep(g) \/ MoveStep(g) \/ EndStep(g)
             \/ ConfigStep(g)
      PROVE  PortInv'
  BY <1>2, CreateStepKeepsPorts, RequestStepKeepsPorts, ArchiveStepKeepsPorts,
     MoveStepKeepsPorts, EndStepKeepsPorts, ConfigStepKeepsPorts
<1>3. ASSUME NEW n \in Nodes, OnWorkerOffline(n) \/ OnWorkerOnline(n) PROVE PortInv'
  BY <1>3, SamePorts DEF OnWorkerOffline, OnWorkerOnline, taskVars, editVars
<1> QED BY <1>1, <1>2, <1>3, RestartKeepsPorts DEF Next

\* The port invariant holds of every reachable state.
LEMMA PortInvHolds == ASSUME Scope = "cluster" PROVE Spec => []PortInv
<1>1. Init => PortInv
  <2> SUFFICES ASSUME Init PROVE PortInv
    OBVIOUS
  <2>1. TypeOK
    BY InitTypes
  <2>2. ASSUME NEW g \in Gameservers PROVE Consistent(g)
    BY NoRecord DEF Init, Consistent, CreateLabels, OpTypes
  <2>3. HeldDisjoint
    BY NoRecord DEF Init, HeldDisjoint
  <2> QED BY <2>1, <2>2, <2>3 DEF PortInv
<1>2. PortInv /\ [Next]_vars => PortInv'
  BY TypesInductive, PortInvInductive DEF PortInv
<1> QED BY <1>1, <1>2, PTL DEF Spec

\* With cluster-wide ports, no port the allocator gave out is ever in two
\* gameservers' rows, whatever the interleaving of Create's steps, failures,
\* configuration updates, moves and restarts (AllocatePorts, CommitPorts).
THEOREM PortsNeverCollide == ASSUME Scope = "cluster" PROVE Spec => []PortsDisjoint
<1>1. PortInv => PortsDisjoint
  BY DEF PortInv, HeldDisjoint, PortsDisjoint, Claims
<1> QED BY <1>1, PortInvHolds, PTL

\* With cluster-wide ports, a reservation never outlives the Create that made
\* it (the deferred ReleasePorts, CommitPorts).
THEOREM ReservationsEnd == ASSUME Scope = "cluster" PROVE Spec => []ReservationEnds
<1>1. PortInv => ReservationEnds
  BY DEF PortInv, Consistent, ReservationEnds
<1> QED BY <1>1, PortInvHolds, PTL

-----------------------------------------------------------------------------
(* Where the data is.                                                      *)

\* The record and the object agree on where the gameserver lives.
Agree(g) ==
  /\ row[g].exists /\ spec[g].exists
  /\ spec[g].node = row[g].node /\ spec[g].archived = row[g].archived

\* The record leads to the data on a worker.
OnNode(g) == ~row[g].archived /\ row[g].node \in Nodes /\ volume[g][row[g].node] = "current"

\* ... or to the archive.
InArchive(g) == row[g].archived /\ archive[g] = "current"

\* Create has a node, and a volume there from before it writes the row.
CreateSound(g) ==
  /\ pc[g] \in {"new", "gone"} \cup CreateLabels => ~spec[g].exists
  /\ pc[g] \in {"new", "gone"} \cup (CreateLabels \ {"commit"}) => ~row[g].exists
  /\ pc[g] \in CreateLabels => target[g] \in Nodes
  /\ pc[g] \in {"insert", "commit"} => volume[g][target[g]] = "current"
  /\ pc[g] = "commit" => row[g].exists /\ ~row[g].archived /\ row[g].node = target[g]

\* Archive has the data in storage before it touches the volume, and the volume
\* until then.
ArchiveSound(g) ==
  op[g] = "archive" =>
    /\ pc[g] # "save" => Agree(g) /\ ~row[g].archived
    /\ pc[g] = "backup" => OnNode(g)
    /\ pc[g] # "backup" => archive[g] = "current"
    /\ pc[g] = "save" => row[g].exists /\ spec[g].exists /\ spec[g].archived

\* Unarchive and Migrate have the data on the target before the record says so,
\* and where it was until then.
MoveSound(g) ==
  op[g] \in {"unarchive", "migrate"} =>
    /\ pc[g] # "save" => Agree(g)
    /\ pc[g] = "save" => row[g].exists /\ spec[g].exists /\ ~spec[g].archived
                           /\ spec[g].node = target[g]
    /\ pc[g] \in {"ports", "assign", "save"} => volume[g][target[g]] = "current"
    /\ op[g] = "unarchive" => InArchive(g)
    /\ op[g] = "migrate" => OnNode(g)
    /\ op[g] = "migrate" /\ pc[g] # "clean" => row[g].node # target[g]
    /\ op[g] = "migrate" /\ pc[g] \in {"restore", "ports", "assign", "save"} =>
         source[g] = row[g].node /\ data[g] = "current"
    /\ op[g] = "migrate" /\ pc[g] = "clean" => source[g] # row[g].node

\* The operations that end, and the requests that wait for them.
EndSound(g) ==
  /\ pc[g] = "idle" => Agree(g) /\ (OnNode(g) \/ InArchive(g))
  /\ op[g] = "stop" => Agree(g) /\ OnNode(g)
  /\ op[g] = "none" <=> pc[g] \in {"new", "idle", "gone"}
  /\ op[g] = "create" <=> pc[g] \in CreateLabels
  /\ next[g] # "none" => op[g] \in {"archive", "unarchive", "migrate"}
  /\ next[g] = "stop" => op[g] = "migrate"

\* A configuration update runs alone and moves nothing; the worker reference is
\* the record's node.
EditSound(g) ==
  /\ edit[g] # "none" =>
       /\ pc[g] = "idle" /\ copy[g].exists
       /\ copy[g].node = row[g].node /\ copy[g].archived = row[g].archived
  /\ worker[g] \in {NoNode, spec[g].node}
  /\ spec[g].archived => spec[g].node = NoNode

\* What holds of a gameserver at every step of its operations, and of all of them
\* until the controller restarts.
Sound(g) == CreateSound(g) /\ ArchiveSound(g) /\ MoveSound(g) /\ EndSound(g) /\ EditSound(g)
DataInv == reboots = 0 => \A g \in Gameservers : Sound(g)

\* What a record says of the node and the archive.
LEMMA RecordPlace ==
  ASSUME NEW r \in Record, NEW n \in Somewhere, NEW a \in BOOLEAN
  PROVE  /\ Placed(r, n, a).node = n /\ Placed(r, n, a).archived = a
         /\ Placed(r, n, a).exists = r.exists
BY DEF Placed, Record, Somewhere

\* The record Create inserts.
LEMMA NewPlace ==
  ASSUME NEW n, NEW ps
  PROVE  NewRow(n, ps).exists /\ NewRow(n, ps).node = n /\ ~NewRow(n, ps).archived
BY DEF NewRow

\* What a write to one volume changes.
LEMMA VolumeWrite ==
  ASSUME volume \in Volumes, NEW g \in Gameservers, NEW n, NEW c,
         volume' = [volume EXCEPT ![g][n] = c]
  PROVE  /\ n \in Nodes => volume'[g][n] = c
         /\ \A m \in Nodes : m # n => volume'[g][m] = volume[g][m]
         /\ \A h \in Gameservers : h # g => volume'[h] = volume[h]
BY DEF Volumes

\* What a step leaves alone of a gameserver.
Kept(h) ==
  /\ row'[h] = row[h] /\ spec'[h] = spec[h] /\ worker'[h] = worker[h]
  /\ op'[h] = op[h] /\ pc'[h] = pc[h] /\ target'[h] = target[h] /\ source'[h] = source[h]
  /\ data'[h] = data[h] /\ next'[h] = next[h] /\ edit'[h] = edit[h] /\ copy'[h] = copy[h]
  /\ volume'[h] = volume[h] /\ archive'[h] = archive[h]
Alone(g) == \A h \in Gameservers : h # g => Kept(h)

\* What is left alone stays sound.
LEMMA KeptSound == ASSUME NEW h \in Gameservers, Sound(h), Kept(h) PROVE Sound(h)'
<1>1. (Agree(h)' <=> Agree(h)) /\ (OnNode(h)' <=> OnNode(h)) /\ (InArchive(h)' <=> InArchive(h))
  BY DEF Agree, OnNode, InArchive, Kept
<1>2. CreateSound(h)' /\ ArchiveSound(h)'
  BY <1>1 DEF Sound, CreateSound, ArchiveSound, Kept
<1>3. MoveSound(h)'
  BY <1>1 DEF Sound, MoveSound, Kept
<1>4. EndSound(h)' /\ EditSound(h)'
  BY <1>1 DEF Sound, EndSound, EditSound, Kept
<1> QED BY <1>2, <1>3, <1>4 DEF Sound

\* Begin gives one goroutine its operation, step and target.
LEMMA BeginValues ==
  ASSUME TypeOK, NEW g \in Gameservers, NEW t, NEW l, NEW n, Begin(g, t, l, n)
  PROVE  /\ op'[g] = t /\ pc'[g] = l /\ target'[g] = n
         /\ \A h \in Gameservers : h # g =>
              /\ op'[h] = op[h] /\ pc'[h] = pc[h] /\ target'[h] = target[h]
              /\ source'[h] = source[h] /\ data'[h] = data[h]
BY DEF TypeOK, TaskTypeOK, Begin

\* Goto moves one goroutine on and keeps what it knows.
LEMMA GotoValues ==
  ASSUME TypeOK, NEW g \in Gameservers, NEW l, Goto(g, l)
  PROVE  /\ pc'[g] = l /\ UNCHANGED <<op, target, source, data>>
         /\ \A h \in Gameservers : h # g => pc'[h] = pc[h]
BY DEF TypeOK, TaskTypeOK, Goto, jobVars

\* GotoFrom also notes the source and the data read there (BackupVolume).
LEMMA GotoFromValues ==
  ASSUME TypeOK, NEW g \in Gameservers, NEW l, NEW n, GotoFrom(g, l, n)
  PROVE  /\ pc'[g] = l /\ source'[g] = n /\ data'[g] = volume[g][n] /\ UNCHANGED <<op, target>>
         /\ \A h \in Gameservers : h # g =>
              pc'[h] = pc[h] /\ source'[h] = source[h] /\ data'[h] = data[h]
BY DEF TypeOK, TaskTypeOK, GotoFrom

\* Finish ends the operation and begins the request that preempted it, if any.
LEMMA FinishValues ==
  ASSUME TypeOK, NEW g \in Gameservers, Finish(g)
  PROVE  /\ op'[g] = next[g] /\ pc'[g] = IF next[g] = "none" THEN "idle" ELSE "teardown"
         /\ next'[g] = "none"
         /\ \A h \in Gameservers : h # g =>
              /\ op'[h] = op[h] /\ pc'[h] = pc[h] /\ target'[h] = target[h]
              /\ source'[h] = source[h] /\ data'[h] = data[h] /\ next'[h] = next[h]
<1>1. next \in [Gameservers -> {"none", "stop", "delete"}]
  BY DEF TypeOK
<1>2. Begin(g, next[g], IF next[g] = "none" THEN "idle" ELSE "teardown", NoNode)
  BY DEF Finish
<1> QED BY <1>1, <1>2, BeginValues DEF Finish

\* An operation that ends where the record leads to the data.
LEMMA FinishSound ==
  ASSUME TypeOK, NEW g \in Gameservers, Sound(g), Finish(g),
         op[g] \in {"archive", "unarchive", "migrate", "stop"},
         Agree(g)', OnNode(g)' \/ InArchive(g)', op[g] \in {"migrate", "stop"} => OnNode(g)',
         edit'[g] = "none" \/ UNCHANGED edit, worker'[g] \in {NoNode, spec'[g].node},
         spec'[g].archived => spec'[g].node = NoNode
  PROVE  Sound(g)'
<1>1. /\ op'[g] = next[g] /\ pc'[g] = IF next[g] = "none" THEN "idle" ELSE "teardown"
      /\ next'[g] = "none" /\ next[g] \in {"none", "stop", "delete"}
  BY FinishValues DEF TypeOK
<1>2. edit'[g] = "none" /\ (op[g] = "stop" => next[g] = "none") /\ (next[g] = "stop" => op[g] = "migrate")
  BY DEF Sound, EndSound, EditSound
<1>3. CreateSound(g)' /\ ArchiveSound(g)' /\ MoveSound(g)'
  BY <1>1 DEF CreateSound, ArchiveSound, MoveSound, CreateLabels
<1>4. EndSound(g)'
  BY <1>1, <1>2 DEF EndSound, CreateLabels
<1>5. EditSound(g)'
  BY <1>2 DEF EditSound
<1> QED BY <1>3, <1>4, <1>5 DEF Sound

-----------------------------------------------------------------------------
\* The steps of Create: the volume is there before the row names it.
LEMMA CreateStepSound ==
  ASSUME TypeOK, NEW g \in Gameservers, Sound(g), CreateStep(g)
  PROVE  Sound(g)' /\ Alone(g)
<1> USE DEF At
<1>0. /\ volume \in Volumes /\ row[g] \in Record /\ held[g] \in SUBSET Ports /\ spec[g] \in Record
      /\ worker \in [Gameservers -> Somewhere] /\ row \in [Gameservers -> Record]
      /\ spec \in [Gameservers -> Record] /\ target[g] \in Somewhere
  BY DEF TypeOK, TaskTypeOK
<1>1. /\ pc[g] \in {"new"} \cup CreateLabels /\ edit[g] = "none" /\ next[g] = "none"
      /\ ~spec[g].exists /\ (pc[g] # "commit" => ~row[g].exists)
      /\ op[g] = "create" => target[g] \in Nodes
      /\ worker[g] \in {NoNode, spec[g].node} /\ (spec[g].archived => spec[g].node = NoNode)
  BY DEF CreateStep, Place, CheckPlacement, CreateVolume, InsertRow, UndoVolume, CommitPorts,
         ReleasePorts, Sound, CreateSound, EndSound, EditSound, CreateLabels
<1>2. ASSUME Place(g) PROVE Sound(g)' /\ Alone(g)
  <2>1. PICK n \in Nodes : Begin(g, "create", "check", n)
    BY <1>2, PlacementTypes DEF Place
  <2>2. UNCHANGED <<row, spec, worker, next, edit, copy, volume, archive>> /\ pc[g] = "new"
    BY <1>2 DEF Place, editVars, dataVars
  <2>3. op'[g] = "create" /\ pc'[g] = "check" /\ target'[g] = n
    BY <2>1, BeginValues
  <2>4. Alone(g)
    BY <2>1, <2>2, BeginValues DEF Alone, Kept
  <2> QED BY <1>1, <2>2, <2>3, <2>4
          DEF Sound, CreateSound, ArchiveSound, MoveSound, EndSound, EditSound, CreateLabels
<1>3. ASSUME CheckPlacement(g) PROVE Sound(g)' /\ Alone(g)
  <2>1. PICK l \in {"volume", "release"} : Goto(g, l)
    BY <1>3 DEF CheckPlacement
  <2>2. UNCHANGED <<row, spec, worker, next, edit, copy, volume, archive>> /\ op[g] = "create"
        /\ pc[g] = "check"
    BY <1>3 DEF CheckPlacement, placeVars, editVars, dataVars
  <2>3. Alone(g)
    BY <2>1, <2>2, GotoValues DEF Alone, Kept
  <2>4. pc'[g] = l /\ UNCHANGED <<op, target, source, data>>
    BY <2>1, GotoValues
  <2> QED BY <1>1, <2>2, <2>3, <2>4
          DEF Sound, CreateSound, ArchiveSound, MoveSound, EndSound, EditSound, CreateLabels
<1>4. ASSUME CreateVolume(g) PROVE Sound(g)' /\ Alone(g)
  <2>1. /\ UNCHANGED <<row, spec, worker, next, edit, copy, archive>> /\ op[g] = "create"
        /\ pc[g] = "volume"
        /\ \/ volume' = [volume EXCEPT ![g][target[g]] = "current"] /\ Goto(g, "insert")
           \/ volume' = volume /\ Goto(g, "release")
    BY <1>4 DEF CreateVolume, placeVars, editVars
  <2>2. /\ \/ volume'[g][target[g]] = "current" /\ pc'[g] = "insert"
           \/ pc'[g] = "release"
        /\ UNCHANGED <<op, target, source, data>>
    <3>1. CASE volume' = volume /\ Goto(g, "release")
      BY <3>1, GotoValues
    <3>2. CASE volume' = [volume EXCEPT ![g][target[g]] = "current"] /\ Goto(g, "insert")
      <4>1. volume'[g][target[g]] = "current"
        BY <1>0, <1>1, <2>1, <3>2 DEF Volumes
      <4> QED BY <3>2, <4>1, GotoValues
    <3> QED BY <2>1, <3>1, <3>2
  <2>3. Alone(g)
    <3>1. \A h \in Gameservers : h # g => volume'[h] = volume[h]
      BY <1>0, <2>1 DEF Volumes
    <3> QED BY <2>1, <3>1, GotoValues DEF Alone, Kept
  <2> QED BY <1>1, <2>1, <2>2, <2>3
          DEF Sound, CreateSound, ArchiveSound, MoveSound, EndSound, EditSound, CreateLabels
<1>5. ASSUME InsertRow(g) PROVE Sound(g)' /\ Alone(g)
  <2>1. /\ UNCHANGED <<spec, worker, next, edit, copy, volume, archive>> /\ op[g] = "create"
        /\ pc[g] = "insert"
        /\ \/ row' = [row EXCEPT ![g] = NewRow(target[g], held[g])] /\ Goto(g, "commit")
           \/ row' = row /\ Goto(g, "undo")
    BY <1>5 DEF InsertRow, editVars, dataVars
  <2>2. Alone(g)
    BY <1>0, <2>1, GotoValues DEF Alone, Kept
  <2>3. /\ \/ row'[g] = NewRow(target[g], held[g]) /\ pc'[g] = "commit"
           \/ row'[g] = row[g] /\ pc'[g] = "undo"
        /\ UNCHANGED <<op, target, source, data>>
    BY <1>0, <2>1, GotoValues
  <2>4. /\ NewRow(target[g], held[g]).exists /\ NewRow(target[g], held[g]).node = target[g]
        /\ ~NewRow(target[g], held[g]).archived
    BY NewPlace
  <2> QED BY <1>1, <2>1, <2>2, <2>3, <2>4
          DEF Sound, CreateSound, ArchiveSound, MoveSound, EndSound, EditSound, CreateLabels
<1>6. ASSUME UndoVolume(g) PROVE Sound(g)' /\ Alone(g)
  <2>1. /\ UNCHANGED <<row, spec, worker, next, edit, copy, archive>> /\ op[g] = "create"
        /\ pc[g] = "undo" /\ Goto(g, "release")
        /\ volume' = [volume EXCEPT ![g][target[g]] = "none"] \/ volume' = volume
    BY <1>6 DEF UndoVolume, placeVars, editVars
  <2>2. pc'[g] = "release" /\ UNCHANGED <<op, target, source, data>>
    BY <2>1, GotoValues
  <2>3. Alone(g)
    <3>1. \A h \in Gameservers : h # g => volume'[h] = volume[h]
      BY <1>0, <2>1 DEF Volumes
    <3> QED BY <2>1, <3>1, GotoValues DEF Alone, Kept
  <2> QED BY <1>1, <2>1, <2>2, <2>3
          DEF Sound, CreateSound, ArchiveSound, MoveSound, EndSound, EditSound, CreateLabels
<1>7. ASSUME CommitPorts(g) PROVE Sound(g)' /\ Alone(g)
  <2>1. /\ UNCHANGED <<row, next, edit, copy, volume, archive>> /\ op[g] = "create"
        /\ pc[g] = "commit" /\ Begin(g, "none", "idle", NoNode)
        /\ spec' = [spec EXCEPT ![g] = row[g]] /\ worker' = [worker EXCEPT ![g] = target[g]]
    BY <1>7 DEF CommitPorts, editVars, dataVars
  <2>2. op'[g] = "none" /\ pc'[g] = "idle" /\ spec'[g] = row[g] /\ worker'[g] = target[g]
    BY <1>0, <2>1, BeginValues
  <2>3. Alone(g)
    BY <1>0, <2>1, BeginValues DEF Alone, Kept
  <2>4. /\ row[g].exists /\ ~row[g].archived /\ row[g].node = target[g] /\ target[g] \in Nodes
        /\ volume[g][target[g]] = "current"
    BY <1>1, <2>1 DEF Sound, CreateSound
  <2>5. Agree(g)' /\ OnNode(g)'
    BY <2>1, <2>2, <2>4 DEF Agree, OnNode
  <2> QED BY <1>1, <2>1, <2>2, <2>3, <2>4, <2>5
          DEF Sound, CreateSound, ArchiveSound, MoveSound, EndSound, EditSound, CreateLabels
<1>8. ASSUME ReleasePorts(g) PROVE Sound(g)' /\ Alone(g)
  <2>1. /\ UNCHANGED <<row, spec, worker, next, edit, copy, volume, archive>> /\ op[g] = "create"
        /\ pc[g] = "release" /\ Begin(g, "none", "gone", NoNode)
    BY <1>8 DEF ReleasePorts, editVars, dataVars
  <2>2. op'[g] = "none" /\ pc'[g] = "gone"
    BY <2>1, BeginValues
  <2>3. Alone(g)
    BY <2>1, BeginValues DEF Alone, Kept
  <2> QED BY <1>1, <2>1, <2>2, <2>3
          DEF Sound, CreateSound, ArchiveSound, MoveSound, EndSound, EditSound, CreateLabels
<1> QED BY <1>2, <1>3, <1>4, <1>5, <1>6, <1>7, <1>8 DEF CreateStep

\* Accepted requests begin an operation in a state that suits it (Archive,
\* Unarchive, Migrate, Delete and the preempting Stop).
LEMMA RequestStepSound ==
  ASSUME TypeOK, Careful, NEW g \in Gameservers, Sound(g), RequestStep(g)
  PROVE  Sound(g)' /\ Alone(g)
<1> USE DEF Sound
<1>0. UNCHANGED <<row, spec, worker, edit, copy, volume, archive>>
  BY DEF RequestStep, Archive, Unarchive, Delete, Migrate, Preempt, placeVars, editVars, dataVars
<1>1. (Agree(g)' <=> Agree(g)) /\ (OnNode(g)' <=> OnNode(g)) /\ (InArchive(g)' <=> InArchive(g))
  BY <1>0 DEF Agree, OnNode, InArchive
<1>2. ASSUME NEW t \in {"archive", "unarchive", "migrate", "delete"},
             NEW l \in {"backup", "restore", "teardown"}, NEW n \in Somewhere, Begin(g, t, l, n),
             Free(g), UNCHANGED next,
             t = "archive" => l = "backup" /\ ~spec[g].archived,
             t = "unarchive" => l = "restore" /\ spec[g].archived,
             t = "migrate" => l = "backup" /\ spec[g].node \notin {n, NoNode}
      PROVE  Sound(g)' /\ Alone(g)
  <2>1. op'[g] = t /\ pc'[g] = l /\ target'[g] = n
    BY <1>2, BeginValues
  <2>2. Alone(g)
    BY <1>0, <1>2, BeginValues DEF Alone, Kept
  <2>3. /\ pc[g] = "idle" /\ edit[g] = "none" /\ Agree(g) /\ (OnNode(g) \/ InArchive(g))
        /\ op[g] = "none" /\ next[g] = "none"
    BY <1>2 DEF Free, EndSound
  <2>4. /\ t = "archive" => OnNode(g) /\ ~row[g].archived
        /\ t = "unarchive" => InArchive(g)
        /\ t = "migrate" => OnNode(g) /\ row[g].node # n
    BY <1>2, <2>3 DEF Agree, OnNode, InArchive, EditSound
  <2>5. CreateSound(g)' /\ ArchiveSound(g)'
    BY <1>0, <1>1, <1>2, <2>1, <2>3, <2>4 DEF CreateSound, ArchiveSound, CreateLabels
  <2>6. MoveSound(g)'
    BY <1>0, <1>1, <1>2, <2>1, <2>3, <2>4 DEF MoveSound
  <2>7. EndSound(g)' /\ EditSound(g)'
    BY <1>0, <1>1, <1>2, <2>1, <2>3 DEF EndSound, EditSound, CreateLabels
  <2> QED BY <2>2, <2>5, <2>6, <2>7
<1>3. ASSUME Archive(g) PROVE Sound(g)' /\ Alone(g)
  BY <1>2, <1>3 DEF Archive, Somewhere
<1>4. ASSUME Unarchive(g) PROVE Sound(g)' /\ Alone(g)
  BY <1>2, <1>4 DEF Unarchive, Somewhere
<1>5. ASSUME Delete(g) PROVE Sound(g)' /\ Alone(g)
  BY <1>2, <1>5 DEF Delete, Somewhere
<1>6. ASSUME NEW n \in Nodes, Migrate(g, n) PROVE Sound(g)' /\ Alone(g)
  BY <1>2, <1>6 DEF Migrate, Somewhere
<1>7. ASSUME NEW type \in {"stop", "delete"}, Preempt(g, type) PROVE Sound(g)' /\ Alone(g)
  <2>1. /\ UNCHANGED <<op, pc, target, source, data>> /\ next' = [next EXCEPT ![g] = type]
        /\ op[g] \in {"archive", "unarchive", "migrate"} /\ (type = "stop" => op[g] = "migrate")
    BY <1>7 DEF Preempt
  <2>2. next'[g] = type /\ \A h \in Gameservers : h # g => next'[h] = next[h]
    BY <2>1 DEF TypeOK
  <2>3. CreateSound(g)' /\ ArchiveSound(g)' /\ MoveSound(g)'
    BY <1>0, <1>1, <2>1 DEF CreateSound, ArchiveSound, MoveSound
  <2>4. EndSound(g)' /\ EditSound(g)'
    BY <1>0, <1>1, <2>1, <2>2 DEF EndSound, EditSound
  <2>5. Alone(g)
    BY <1>0, <2>1, <2>2 DEF Alone, Kept
  <2> QED BY <2>3, <2>4, <2>5
<1> QED BY <1>3, <1>4, <1>5, <1>6, <1>7 DEF RequestStep

\* executeArchive, with each of its failures: the copy is stored before the
\* volume goes.
LEMMA ArchiveStepSound ==
  ASSUME TypeOK, NEW g \in Gameservers, Sound(g), ArchiveStep(g)
  PROVE  Sound(g)' /\ Alone(g)
<1> USE DEF At
<1>0. /\ volume \in Volumes /\ row[g] \in Record /\ spec[g] \in Record
      /\ worker \in [Gameservers -> Somewhere] /\ row \in [Gameservers -> Record]
      /\ spec \in [Gameservers -> Record] /\ archive \in [Gameservers -> Contents]
      /\ NoNode \notin Nodes /\ worker[g] \in Somewhere
  BY PlacementAssumption DEF TypeOK
<1>1. /\ op[g] = "archive" /\ edit[g] = "none" /\ next[g] # "stop"
      /\ worker[g] \in {NoNode, spec[g].node} /\ (spec[g].archived => spec[g].node = NoNode)
      /\ pc[g] # "save" => Agree(g) /\ ~row[g].archived
      /\ pc[g] = "backup" => OnNode(g)
      /\ pc[g] # "backup" => archive[g] = "current"
      /\ pc[g] = "save" => row[g].exists /\ spec[g].exists /\ spec[g].archived
  BY DEF ArchiveStep, SaveArchive, CleanSource, MarkArchived, SaveArchived, Sound, EndSound,
         EditSound, ArchiveSound
<1>2. ASSUME SaveArchive(g) PROVE Sound(g)' /\ Alone(g)
  <2>1. UNCHANGED <<row, spec, worker, edit, copy, volume>> /\ pc[g] = "backup"
    BY <1>2 DEF SaveArchive, Fail, placeVars, dataVars, editVars
  <2>2. Agree(g)' /\ OnNode(g)' /\ ~row'[g].archived
    BY <1>1, <2>1 DEF Agree, OnNode
  <2>3. CASE worker[g] # NoNode /\ archive' = [archive EXCEPT ![g] = volume[g][worker[g]]]
             /\ GotoFrom(g, "clean", worker[g]) /\ UNCHANGED next
    <3>1. worker[g] = row[g].node
      BY <1>1, <2>1, <2>3 DEF Agree
    <3>2. archive'[g] = "current"
      BY <1>0, <1>1, <2>1, <2>3, <3>1 DEF OnNode
    <3>3. pc'[g] = "clean" /\ op'[g] = "archive"
      BY <1>1, <2>3, GotoFromValues
    <3>4. Alone(g)
      BY <1>0, <2>1, <2>3, GotoFromValues DEF Alone, Kept
    <3> QED BY <1>1, <2>1, <2>2, <2>3, <3>2, <3>3, <3>4
            DEF Sound, CreateSound, ArchiveSound, MoveSound, EndSound, EditSound, CreateLabels
  <2>4. CASE Finish(g) /\ (UNCHANGED archive \/ archive' = [archive EXCEPT ![g] = "none"])
    <3>1. Alone(g)
      BY <1>0, <2>1, <2>4, FinishValues DEF Alone, Kept
    <3> QED BY <1>1, <2>1, <2>2, <2>4, <3>1, FinishSound
  <2> QED BY <1>2, <2>3, <2>4 DEF SaveArchive, Fail, dataVars
<1>3. ASSUME CleanSource(g) PROVE Sound(g)' /\ Alone(g)
  <2>1. /\ UNCHANGED <<row, spec, worker, edit, copy, archive, next>> /\ pc[g] = "clean"
        /\ Goto(g, "mark")
        /\ volume' = [volume EXCEPT ![g][source[g]] = "none"] \/ volume' = volume
    BY <1>3 DEF CleanSource, placeVars, editVars
  <2>2. pc'[g] = "mark" /\ op'[g] = "archive" /\ Agree(g)'
    BY <1>1, <2>1, GotoValues DEF Agree
  <2>3. Alone(g)
    <3>1. \A h \in Gameservers : h # g => volume'[h] = volume[h]
      BY <1>0, <2>1 DEF Volumes
    <3> QED BY <2>1, <3>1, GotoValues DEF Alone, Kept
  <2> QED BY <1>1, <2>1, <2>2, <2>3
          DEF Sound, CreateSound, ArchiveSound, MoveSound, EndSound, EditSound, CreateLabels
<1>4. ASSUME MarkArchived(g) PROVE Sound(g)' /\ Alone(g)
  <2>1. /\ UNCHANGED <<row, edit, copy, volume, archive, next>> /\ pc[g] = "mark"
        /\ Goto(g, "save") /\ spec' = [spec EXCEPT ![g] = Placed(spec[g], NoNode, TRUE)]
        /\ worker' = [worker EXCEPT ![g] = NoNode]
    BY <1>4 DEF MarkArchived, editVars, dataVars
  <2>2. /\ spec'[g] = Placed(spec[g], NoNode, TRUE) /\ worker'[g] = NoNode /\ pc'[g] = "save"
        /\ op'[g] = "archive"
    BY <1>0, <1>1, <2>1, GotoValues
  <2>3. spec'[g].node = NoNode /\ spec'[g].archived /\ spec'[g].exists
    BY <1>0, <1>1, <2>1, <2>2, RecordPlace DEF Agree, Somewhere
  <2>4. Alone(g)
    BY <1>0, <2>1, GotoValues DEF Alone, Kept
  <2>5. row[g].exists
    BY <1>1, <2>1 DEF Agree
  <2> QED BY <1>1, <2>1, <2>2, <2>3, <2>4, <2>5
          DEF Sound, CreateSound, ArchiveSound, MoveSound, EndSound, EditSound, CreateLabels
<1>5. ASSUME SaveArchived(g) PROVE Sound(g)' /\ Alone(g)
  <2>1. /\ UNCHANGED <<spec, worker, edit, copy, volume, archive>> /\ pc[g] = "save"
        /\ Finish(g) /\ row' = [row EXCEPT ![g] = Placed(row[g], NoNode, TRUE)]
    BY <1>5 DEF SaveArchived, editVars, dataVars
  <2>2. row'[g].node = NoNode /\ row'[g].archived /\ row'[g].exists
    BY <1>0, <1>1, <2>1, RecordPlace DEF Somewhere
  <2>3. Agree(g)' /\ InArchive(g)'
    BY <1>0, <1>1, <2>1, <2>2, RecordFields DEF Agree, InArchive
  <2>4. Alone(g)
    BY <1>0, <2>1, FinishValues DEF Alone, Kept
  <2> QED BY <1>1, <2>1, <2>3, <2>4, FinishSound
<1> QED BY <1>2, <1>3, <1>4, <1>5 DEF ArchiveStep

\* executeUnarchive and executeMigrate, with each of their failures: the data is
\* on the target before the record names it, and the source goes last.
LEMMA MoveStepSound ==
  ASSUME TypeOK, NEW g \in Gameservers, Sound(g), MoveStep(g)
  PROVE  Sound(g)' /\ Alone(g)
<1> USE DEF At, Moving
<1>0. /\ volume \in Volumes /\ row[g] \in Record /\ spec[g] \in Record
      /\ worker \in [Gameservers -> Somewhere] /\ row \in [Gameservers -> Record]
      /\ spec \in [Gameservers -> Record] /\ archive \in [Gameservers -> Contents]
      /\ NoNode \notin Nodes /\ Nodes \subseteq Somewhere
  BY PlacementAssumption DEF TypeOK, Somewhere
<1>1. /\ op[g] \in {"unarchive", "migrate"} /\ edit[g] = "none" /\ target[g] \in Nodes
      /\ next[g] = "stop" => op[g] = "migrate"
      /\ worker[g] \in {NoNode, spec[g].node} /\ (spec[g].archived => spec[g].node = NoNode)
  BY DEF MoveStep, BackupSource, RestoreTarget, ReallocatePorts, AssignTarget, SaveTarget,
         CleanMigrated, Sound, EndSound, EditSound, TypeOK, TaskTypeOK
<1>2. /\ pc[g] # "save" => Agree(g)
      /\ pc[g] = "save" => row[g].exists /\ spec[g].exists /\ ~spec[g].archived
                             /\ spec[g].node = target[g]
      /\ pc[g] \in {"ports", "assign", "save"} => volume[g][target[g]] = "current"
      /\ op[g] = "unarchive" => InArchive(g)
      /\ op[g] = "migrate" => OnNode(g)
      /\ op[g] = "migrate" /\ pc[g] # "clean" => row[g].node # target[g]
      /\ op[g] = "migrate" /\ pc[g] \in {"restore", "ports", "assign", "save"} =>
           source[g] = row[g].node /\ data[g] = "current"
      /\ op[g] = "migrate" /\ pc[g] = "clean" => source[g] # row[g].node
  BY <1>1 DEF Sound, MoveSound
<1>3. ASSUME BackupSource(g) PROVE Sound(g)' /\ Alone(g)
  <2>1. UNCHANGED <<row, spec, worker, edit, copy, volume, archive>> /\ pc[g] = "backup"
        /\ op[g] = "migrate"
    BY <1>3 DEF BackupSource, Fail, placeVars, dataVars, editVars
  <2>2. Agree(g)' /\ OnNode(g)'
    BY <1>2, <2>1 DEF Agree, OnNode
  <2>3. CASE Finish(g)
    <3>1. Alone(g)
      BY <2>1, <2>3, FinishValues DEF Alone, Kept
    <3> QED BY <1>1, <2>1, <2>2, <2>3, <3>1, FinishSound
  <2>4. CASE GotoFrom(g, "restore", row[g].node) /\ UNCHANGED next
    <3>1. /\ pc'[g] = "restore" /\ source'[g] = row[g].node /\ UNCHANGED <<op, target>>
          /\ data'[g] = volume[g][row[g].node]
      BY <2>4, GotoFromValues
    <3>2. data'[g] = "current"
      BY <1>2, <2>1, <3>1 DEF OnNode
    <3>3. Alone(g)
      BY <2>1, <2>4, GotoFromValues DEF Alone, Kept
    <3> QED BY <1>1, <1>2, <2>1, <2>2, <2>4, <3>1, <3>2, <3>3
            DEF Sound, CreateSound, ArchiveSound, MoveSound, EndSound, EditSound, CreateLabels
  <2> QED BY <1>3, <2>3, <2>4 DEF BackupSource, Fail
<1>4. ASSUME RestoreTarget(g) PROVE Sound(g)' /\ Alone(g)
  <2>1. UNCHANGED <<row, spec, worker, edit, copy, archive>> /\ pc[g] = "restore"
    BY <1>4 DEF RestoreTarget, Fail, placeVars, dataVars, editVars
  <2>2. Agree(g)' /\ (op[g] = "unarchive" => InArchive(g)') /\ Payload(g) = "current"
    BY <1>1, <1>2, <2>1 DEF Agree, InArchive, Payload
  <2>3. /\ op[g] = "migrate" => OnNode(g)'
        /\ \A h \in Gameservers : h # g => volume'[h] = volume[h]
    <3>1. \/ volume' = [volume EXCEPT ![g][target[g]] = Payload(g)]
          \/ volume' = [volume EXCEPT ![g][target[g]] = "other"]
          \/ volume' = volume
      BY <1>4 DEF RestoreTarget, Fail, dataVars
    <3>2. /\ \A m \in Nodes : m # target[g] => volume'[g][m] = volume[g][m]
          /\ \A h \in Gameservers : h # g => volume'[h] = volume[h]
      BY <1>0, <3>1 DEF Volumes
    <3> QED BY <1>2, <2>1, <3>2 DEF OnNode
  <2>4. CASE Finish(g) /\ (volume' = [volume EXCEPT ![g][target[g]] = "other"] \/ volume' = volume)
    <3>1. Alone(g)
      BY <2>1, <2>3, <2>4, FinishValues DEF Alone, Kept
    <3>2. (op[g] = "migrate" => OnNode(g)') /\ edit' = edit
      BY <2>1, <2>3, <2>4
    <3> QED BY <1>1, <2>1, <2>2, <2>4, <3>1, <3>2, FinishSound
  <2>5. CASE volume' = [volume EXCEPT ![g][target[g]] = Payload(g)] /\ Goto(g, "ports")
             /\ UNCHANGED next
    <3>1. volume'[g][target[g]] = "current"
      BY <1>0, <1>1, <2>2, <2>5 DEF Volumes
    <3>2. pc'[g] = "ports" /\ UNCHANGED <<op, target, source, data>>
      BY <2>5, GotoValues
    <3>3. Alone(g)
      BY <2>1, <2>3, <2>5, GotoValues DEF Alone, Kept
    <3> QED BY <1>1, <1>2, <2>1, <2>2, <2>3, <2>5, <3>1, <3>2, <3>3
            DEF Sound, CreateSound, ArchiveSound, MoveSound, EndSound, EditSound, CreateLabels
  <2> QED BY <1>4, <2>4, <2>5 DEF RestoreTarget, Fail, dataVars
<1>5. ASSUME ReallocatePorts(g) PROVE Sound(g)' /\ Alone(g)
  <2>1. /\ UNCHANGED <<row, worker, edit, copy, volume, archive, next>> /\ pc[g] = "ports"
        /\ Goto(g, "assign")
    BY <1>5 DEF ReallocatePorts, dataVars, editVars
  <2>2. /\ spec'[g].node = spec[g].node /\ spec'[g].archived = spec[g].archived
        /\ spec'[g].exists = spec[g].exists
        /\ \A h \in Gameservers : h # g => spec'[h] = spec[h]
    <3>1. CASE UNCHANGED spec
      BY <3>1
    <3>2. CASE \E ps \in Allocations(target[g], g, g) : spec' = [spec EXCEPT ![g].ports = ps]
      <4>1. PICK ps \in Allocations(target[g], g, g) : spec' = [spec EXCEPT ![g].ports = ps]
        BY <3>2
      <4>2. spec'[g] = [spec[g] EXCEPT !.ports = ps]
        BY <1>0, <4>1
      <4> QED BY <1>0, <4>1, <4>2 DEF Record
    <3> QED BY <1>5, <3>1, <3>2 DEF ReallocatePorts
  <2>3. Agree(g)' /\ (OnNode(g)' <=> OnNode(g)) /\ (InArchive(g)' <=> InArchive(g))
    BY <1>2, <2>1, <2>2 DEF Agree, OnNode, InArchive
  <2>4. pc'[g] = "assign" /\ UNCHANGED <<op, target, source, data>>
    BY <2>1, GotoValues
  <2>5. Alone(g)
    BY <2>1, <2>2, GotoValues DEF Alone, Kept
  <2> QED BY <1>1, <1>2, <2>1, <2>2, <2>3, <2>4, <2>5
          DEF Sound, CreateSound, ArchiveSound, MoveSound, EndSound, EditSound, CreateLabels
<1>6. ASSUME AssignTarget(g) PROVE Sound(g)' /\ Alone(g)
  <2> DEFINE a == op[g] # "unarchive" /\ spec[g].archived
  <2>1. /\ UNCHANGED <<row, edit, copy, volume, archive, next>> /\ pc[g] = "assign"
        /\ Goto(g, "save") /\ spec' = [spec EXCEPT ![g] = Placed(spec[g], target[g], a)]
        /\ worker' = [worker EXCEPT ![g] = target[g]]
    BY <1>6 DEF AssignTarget, dataVars, editVars
  <2>2. a \in BOOLEAN /\ ~a
    BY <1>1, <1>2, <2>1 DEF Agree, OnNode
  <2> HIDE DEF a
  <2>3. /\ spec'[g].node = target[g] /\ ~spec'[g].archived /\ spec'[g].exists
        /\ worker'[g] = target[g]
    BY <1>0, <1>1, <1>2, <2>1, <2>2, RecordPlace DEF Agree
  <2>4. pc'[g] = "save" /\ UNCHANGED <<op, target, source, data>>
    BY <2>1, GotoValues
  <2>5. Alone(g)
    BY <1>0, <2>1, GotoValues DEF Alone, Kept
  <2>6. row[g].exists /\ (OnNode(g)' <=> OnNode(g)) /\ (InArchive(g)' <=> InArchive(g))
    BY <1>2, <2>1 DEF Agree, OnNode, InArchive
  <2> QED BY <1>1, <1>2, <2>1, <2>3, <2>4, <2>5, <2>6
          DEF Sound, CreateSound, ArchiveSound, MoveSound, EndSound, EditSound, CreateLabels
<1>7. ASSUME SaveTarget(g) PROVE Sound(g)' /\ Alone(g)
  <2> DEFINE a == op[g] # "unarchive" /\ row[g].archived
             moved == Placed(row[g], target[g], a)
  <2>1. /\ UNCHANGED <<spec, worker, edit, copy>> /\ pc[g] = "save"
        /\ row' = [row EXCEPT ![g] = [moved EXCEPT !.ports = spec[g].ports]]
    BY <1>7 DEF SaveTarget, editVars
  <2>2. a = FALSE
    BY <1>1, <1>2 DEF OnNode
  <2> HIDE DEF a
  <2>3. moved \in Record /\ moved.node = target[g] /\ moved.archived = FALSE /\ moved.exists
    BY <1>0, <1>1, <1>2, <2>1, <2>2, RecordPlace, MovedRecord
  <2> HIDE DEF moved
  <2>4. /\ row'[g].node = target[g] /\ row'[g].archived = FALSE /\ row'[g].exists
        /\ \A h \in Gameservers : h # g => row'[h] = row[h]
    BY <1>0, <2>1, <2>3 DEF Record
  <2>5. Agree(g)'
    BY <1>0, <1>2, <2>1, <2>4, RecordFields DEF Agree
  <2>6. CASE op[g] = "unarchive"
    <3>1. /\ archive' = [archive EXCEPT ![g] = "other"] /\ Finish(g) /\ UNCHANGED volume
      BY <1>7, <2>6 DEF SaveTarget
    <3>2. OnNode(g)'
      BY <1>1, <1>2, <2>1, <2>4, <3>1 DEF OnNode
    <3>3. Alone(g)
      BY <1>0, <2>1, <2>4, <3>1, FinishValues DEF Alone, Kept
    <3> QED BY <1>1, <2>1, <2>5, <2>6, <3>1, <3>2, <3>3, FinishSound
  <2>7. CASE op[g] = "migrate"
    <3>1. /\ volume' = [volume EXCEPT ![g][source[g]] = "other"] /\ Goto(g, "clean")
          /\ UNCHANGED <<archive, next>>
      BY <1>7, <2>7 DEF SaveTarget
    <3>2. source[g] # target[g]
      BY <1>2, <2>1, <2>7
    <3>3. volume'[g][target[g]] = "current"
      BY <1>0, <1>1, <1>2, <2>1, <3>1, <3>2, VolumeWrite
    <3>4. OnNode(g)'
      BY <1>1, <2>4, <3>3 DEF OnNode
    <3>5. pc'[g] = "clean" /\ UNCHANGED <<op, target, source, data>>
      BY <3>1, GotoValues
    <3>6. Alone(g)
      <4>1. \A h \in Gameservers : h # g => volume'[h] = volume[h]
        BY <1>0, <3>1, VolumeWrite
      <4> QED BY <2>1, <2>4, <3>1, <4>1, GotoValues DEF Alone, Kept
    <3> QED BY <1>1, <2>1, <2>4, <2>5, <2>7, <3>1, <3>2, <3>4, <3>5, <3>6
            DEF Sound, CreateSound, ArchiveSound, MoveSound, EndSound, EditSound, CreateLabels
  <2> QED BY <1>1, <2>6, <2>7
<1>8. ASSUME CleanMigrated(g) PROVE Sound(g)' /\ Alone(g)
  <2>1. /\ UNCHANGED <<row, spec, worker, edit, copy, archive>> /\ pc[g] = "clean"
        /\ op[g] = "migrate" /\ Finish(g)
        /\ volume' = [volume EXCEPT ![g][source[g]] = "none"] \/ volume' = volume
    BY <1>8 DEF CleanMigrated, placeVars, editVars
  <2>2. /\ \A m \in Nodes : m # source[g] => volume'[g][m] = volume[g][m]
        /\ \A h \in Gameservers : h # g => volume'[h] = volume[h]
    BY <1>0, <2>1 DEF Volumes
  <2>3. Agree(g)' /\ OnNode(g)'
    BY <1>2, <2>1, <2>2 DEF Agree, OnNode
  <2>4. Alone(g)
    BY <2>1, <2>2, FinishValues DEF Alone, Kept
  <2> QED BY <1>1, <2>1, <2>3, <2>4, FinishSound
<1> QED BY <1>3, <1>4, <1>5, <1>6, <1>7, <1>8 DEF MoveStep

\* doStop, which moves nothing, and executeDelete, which ends the gameserver.
LEMMA EndStepSound ==
  ASSUME TypeOK, NEW g \in Gameservers, Sound(g), EndStep(g)
  PROVE  Sound(g)' /\ Alone(g)
<1> USE DEF At
<1>0. /\ volume \in Volumes /\ spec[g] \in Record /\ archive \in [Gameservers -> Contents]
      /\ worker \in [Gameservers -> Somewhere] /\ row \in [Gameservers -> Record]
      /\ spec \in [Gameservers -> Record]
  BY DEF TypeOK
<1>1. /\ edit[g] = "none" /\ next[g] = "none" /\ op[g] \in {"stop", "delete"}
      /\ worker[g] \in {NoNode, spec[g].node} /\ (spec[g].archived => spec[g].node = NoNode)
      /\ op[g] = "stop" => Agree(g) /\ OnNode(g)
  BY DEF EndStep, DoStop, Teardown, DeleteRow, Sound, EndSound, EditSound
<1>2. ASSUME DoStop(g) PROVE Sound(g)' /\ Alone(g)
  <2> DEFINE stopped == Placed(spec[g], spec[g].node, FALSE)
  <2>1. /\ UNCHANGED <<worker, edit, copy, volume, archive>> /\ op[g] = "stop" /\ Finish(g)
        /\ spec' = [spec EXCEPT ![g] = stopped] /\ row' = [row EXCEPT ![g] = spec'[g]]
    BY <1>2 DEF DoStop, dataVars, editVars
  <2>2. stopped.node = spec[g].node /\ ~stopped.archived /\ stopped.exists
    <3>1. spec[g].node \in Somewhere
      BY <1>0, RecordFields
    <3>2. spec[g].exists
      BY <1>1, <2>1 DEF Agree
    <3> QED BY <1>0, <3>1, <3>2, RecordPlace
  <2> HIDE DEF stopped
  <2>3. spec'[g] = stopped /\ row'[g] = stopped
    BY <1>0, <2>1
  <2>4. Agree(g)' /\ OnNode(g)'
    BY <1>1, <2>1, <2>2, <2>3 DEF Agree, OnNode
  <2>5. Alone(g)
    BY <1>0, <2>1, FinishValues DEF Alone, Kept
  <2> QED BY <1>1, <2>1, <2>2, <2>3, <2>4, <2>5, FinishSound
<1>3. ASSUME Teardown(g) PROVE Sound(g)' /\ Alone(g)
  <2>1. /\ UNCHANGED <<row, spec, worker, edit, copy, archive, next>> /\ op[g] = "delete"
        /\ Goto(g, "deleteRow")
        /\ volume' = [volume EXCEPT ![g][worker[g]] = "none"] \/ volume' = volume
    BY <1>3 DEF Teardown, placeVars, editVars
  <2>2. \A h \in Gameservers : h # g => volume'[h] = volume[h]
    BY <1>0, <2>1 DEF Volumes
  <2>3. pc'[g] = "deleteRow" /\ UNCHANGED <<op, target, source, data>>
    BY <2>1, GotoValues
  <2>4. Alone(g)
    BY <2>1, <2>2, GotoValues DEF Alone, Kept
  <2> QED BY <1>1, <2>1, <2>3, <2>4
          DEF Sound, CreateSound, ArchiveSound, MoveSound, EndSound, EditSound, CreateLabels
<1>4. ASSUME DeleteRow(g) PROVE Sound(g)' /\ Alone(g)
  <2>1. /\ UNCHANGED <<edit, copy, volume, next>> /\ Begin(g, "none", "gone", NoNode)
        /\ row' = [row EXCEPT ![g] = NoRow] /\ spec' = [spec EXCEPT ![g] = NoRow]
        /\ worker' = [worker EXCEPT ![g] = NoNode]
        /\ archive' = [archive EXCEPT ![g] = "none"] \/ archive' = archive
    BY <1>4 DEF DeleteRow, editVars
  <2>2. /\ op'[g] = "none" /\ pc'[g] = "gone" /\ row'[g] = NoRow /\ spec'[g] = NoRow
        /\ worker'[g] = NoNode
    BY <1>0, <2>1, BeginValues
  <2>3. Alone(g)
    BY <1>0, <2>1, BeginValues DEF Alone, Kept
  <2>4. ~NoRow.exists /\ ~NoRow.archived
    BY DEF NoRow
  <2> QED BY <1>1, <2>1, <2>2, <2>3, <2>4
          DEF Sound, CreateSound, ArchiveSound, MoveSound, EndSound, EditSound, CreateLabels
<1> QED BY <1>2, <1>3, <1>4 DEF EndStep

\* A configuration update that runs alone writes back the place it read.
LEMMA ConfigStepSound ==
  ASSUME TypeOK, Careful, NEW g \in Gameservers, Sound(g), ConfigStep(g)
  PROVE  Sound(g)' /\ Alone(g)
<1>0. /\ row \in [Gameservers -> Record] /\ spec \in [Gameservers -> Record] /\ row[g] \in Record
      /\ copy \in [Gameservers -> Record] /\ edit \in [Gameservers -> {"none", "read", "written"}]
  BY DEF TypeOK
<1>1. /\ UNCHANGED <<worker, op, pc, target, source, data, next, volume, archive>>
      /\ pc[g] = "idle" /\ Agree(g) /\ (OnNode(g) \/ InArchive(g)) /\ op[g] = "none"
      /\ edit[g] # "none" =>
           copy[g].exists /\ copy[g].node = row[g].node /\ copy[g].archived = row[g].archived
      /\ worker[g] \in {NoNode, spec[g].node} /\ (spec[g].archived => spec[g].node = NoNode)
      /\ next[g] = "none"
  BY DEF ConfigStep, ReadConfig, WriteConfig, SwapSpec, placeVars, taskVars, jobVars, dataVars,
         Sound, EndSound, EditSound
<1>2. /\ row'[g].exists /\ row'[g].node = row[g].node /\ row'[g].archived = row[g].archived
      /\ spec'[g].exists /\ spec'[g].node = spec[g].node /\ spec'[g].archived = spec[g].archived
      /\ edit'[g] # "none" =>
           copy'[g].exists /\ copy'[g].node = row'[g].node /\ copy'[g].archived = row'[g].archived
      /\ Alone(g)
  <2>1. ASSUME ReadConfig(g)
        PROVE  /\ UNCHANGED <<row, spec>> /\ Alone(g) /\ copy'[g].exists
               /\ copy'[g].node = row[g].node /\ copy'[g].archived = row[g].archived
    <3>1. PICK ps : copy' = [copy EXCEPT ![g] = [row[g] EXCEPT !.ports = ps]]
      BY <2>1 DEF ReadConfig
    <3>2. copy'[g] = [row[g] EXCEPT !.ports = ps]
      BY <1>0, <3>1
    <3>3. row[g].exists /\ UNCHANGED <<row, spec>> /\ edit' = [edit EXCEPT ![g] = "read"]
      BY <2>1 DEF ReadConfig, placeVars
    <3>4. Alone(g)
      BY <1>0, <1>1, <3>1, <3>3 DEF Alone, Kept
    <3> QED BY <1>0, <3>2, <3>3, <3>4 DEF Record
  <2>2. ASSUME WriteConfig(g)
        PROVE  /\ row'[g] = copy[g] /\ UNCHANGED <<spec, copy>> /\ Alone(g) /\ edit[g] # "none"
    <3>1. /\ row' = [row EXCEPT ![g] = copy[g]] /\ edit' = [edit EXCEPT ![g] = "written"]
          /\ UNCHANGED <<spec, copy>> /\ edit[g] # "none"
      BY <1>1, <2>2 DEF WriteConfig, Agree
    <3>2. Alone(g)
      BY <1>0, <1>1, <3>1 DEF Alone, Kept
    <3> QED BY <1>0, <3>1, <3>2
  <2>3. ASSUME SwapSpec(g)
        PROVE  spec'[g] = copy[g] /\ UNCHANGED row /\ edit'[g] = "none" /\ Alone(g) /\ edit[g] # "none"
    <3>1. /\ spec' = [spec EXCEPT ![g] = copy[g]] /\ edit' = [edit EXCEPT ![g] = "none"]
          /\ copy' = [copy EXCEPT ![g] = NoRow] /\ UNCHANGED row /\ edit[g] # "none"
      BY <1>1, <2>3 DEF SwapSpec, EndEdit, Agree
    <3>2. Alone(g)
      BY <1>0, <1>1, <3>1 DEF Alone, Kept
    <3> QED BY <1>0, <3>1, <3>2
  <2>4. CASE ReadConfig(g)
    BY <1>1, <2>1, <2>4 DEF Agree
  <2>5. CASE WriteConfig(g)
    BY <1>1, <2>2, <2>5 DEF Agree
  <2>6. CASE SwapSpec(g)
    BY <1>1, <2>3, <2>6 DEF Agree
  <2> QED BY <2>4, <2>5, <2>6 DEF ConfigStep
<1>3. Agree(g)' /\ (OnNode(g)' \/ InArchive(g)')
  BY <1>1, <1>2 DEF Agree, OnNode, InArchive
<1> QED BY <1>1, <1>2, <1>3
        DEF Sound, CreateSound, ArchiveSound, MoveSound, EndSound, EditSound, CreateLabels

\* A worker that connects or is lost moves no data; only the worker references
\* change.
LEMMA WorkerSound ==
  ASSUME TypeOK, NEW n \in Nodes, OnWorkerOffline(n) \/ OnWorkerOnline(n),
         NEW g \in Gameservers, Sound(g)
  PROVE  Sound(g)'
<1>1. UNCHANGED <<row, spec, op, pc, target, source, data, next, edit, copy, volume, archive>>
  BY DEF OnWorkerOffline, OnWorkerOnline, taskVars, jobVars, editVars, dataVars
<1>2. worker'[g] \in {NoNode, spec[g].node}
  BY DEF OnWorkerOffline, OnWorkerOnline, Sound, EditSound
<1>3. (Agree(g)' <=> Agree(g)) /\ (OnNode(g)' <=> OnNode(g)) /\ (InArchive(g)' <=> InArchive(g))
  BY <1>1 DEF Agree, OnNode, InArchive
<1>4. CreateSound(g)' /\ ArchiveSound(g)' /\ MoveSound(g)'
  BY <1>1, <1>3 DEF Sound, CreateSound, ArchiveSound, MoveSound
<1>5. EndSound(g)' /\ EditSound(g)'
  BY <1>1, <1>2, <1>3 DEF Sound, EndSound, EditSound
<1> QED BY <1>4, <1>5 DEF Sound

\* Every step keeps the records sound, until the controller restarts.
LEMMA DataInvInductive == Careful /\ TypeOK /\ DataInv /\ [Next]_vars => DataInv'
<1> SUFFICES ASSUME Careful, TypeOK, DataInv, [Next]_vars, reboots' = 0, NEW h \in Gameservers
             PROVE  Sound(h)'
  BY DEF DataInv
<1>1. CASE UNCHANGED vars
  <2>1. Sound(h) /\ Kept(h)
    BY <1>1 DEF DataInv, Kept, vars, placeVars, taskVars, jobVars, editVars, dataVars, envVars
  <2> QED BY <2>1, KeptSound
<1>2. ASSUME NEW g \in Gameservers,
             \/ CreateStep(g) \/ RequestStep(g) \/ ArchiveStep(g) \/ MoveStep(g) \/ EndStep(g)
             \/ ConfigStep(g)
      PROVE  Sound(h)'
  <2>1. reboots' = reboots
    BY <1>2 DEF CreateStep, Place, CheckPlacement, CreateVolume, InsertRow, UndoVolume, CommitPorts,
         ReleasePorts, RequestStep, Archive, Unarchive, Delete, Migrate, Preempt, ArchiveStep,
         SaveArchive, CleanSource, MarkArchived, SaveArchived, MoveStep, BackupSource,
         RestoreTarget, ReallocatePorts, AssignTarget, SaveTarget, CleanMigrated, EndStep, DoStop,
         Teardown, DeleteRow, ConfigStep, ReadConfig, WriteConfig, SwapSpec, envVars
  <2>2. Sound(g) /\ Sound(h)
    BY <2>1 DEF DataInv
  <2>3. Sound(g)' /\ Alone(g)
    BY <1>2, <2>2, CreateStepSound, RequestStepSound, ArchiveStepSound, MoveStepSound,
       EndStepSound, ConfigStepSound
  <2> QED BY <2>2, <2>3, KeptSound DEF Alone
<1>3. ASSUME NEW n \in Nodes, OnWorkerOffline(n) \/ OnWorkerOnline(n) PROVE Sound(h)'
  BY <1>3, WorkerSound DEF DataInv, OnWorkerOffline, OnWorkerOnline, envVars
<1>4. ~ControllerRestart
  BY DEF ControllerRestart, TypeOK
<1> QED BY <1>1, <1>2, <1>3, <1>4 DEF Next

\* Until the controller restarts, the record of every gameserver at rest leads to
\* its current data, for any number of gameservers, nodes, requests, failures and
\* disconnects: executeArchive, executeUnarchive and executeMigrate have the data
\* in its new place before the record names it, wherever they fail or are
\* cancelled.  (A restart between CleanSource and SaveArchived breaks it.)
THEOREM DataStaysReachable ==
  ASSUME Careful PROVE Spec => [](reboots = 0 => DataReachable)
<1>1. Init => DataInv
  <2> SUFFICES ASSUME Init, NEW g \in Gameservers PROVE Sound(g)
    BY DEF DataInv
  <2>1. /\ row[g] = NoRow /\ spec[g] = NoRow /\ worker[g] = NoNode /\ op[g] = "none"
        /\ pc[g] = "new" /\ next[g] = "none" /\ edit[g] = "none"
    BY DEF Init
  <2>2. ~NoRow.exists /\ ~NoRow.archived
    BY DEF NoRow
  <2> QED BY <2>1, <2>2
          DEF Sound, CreateSound, ArchiveSound, MoveSound, EndSound, EditSound, CreateLabels
<1>2. TypeOK /\ DataInv /\ [Next]_vars => DataInv'
  BY DataInvInductive
<1>3. DataInv => (reboots = 0 => DataReachable)
  <2> SUFFICES ASSUME \A g \in Gameservers : Sound(g) PROVE DataReachable
    BY DEF DataInv
  <2>1. ASSUME NEW g \in Gameservers, pc[g] = "idle" PROVE OnNode(g) \/ InArchive(g)
    BY <2>1 DEF Sound, EndSound
  <2> QED BY <2>1, PlacementAssumption DEF DataReachable, OnNode, InArchive
<1> QED BY <1>1, <1>2, <1>3, PlacementTypeCorrect, PTL DEF Spec
-----------------------------------------------------------------------------
(* Backups, as an instance with constants and variables of its own.        *)

CONSTANTS Users, Restores, Ids, Limit, Slots, S3, MaxFaults, MaxCrashes
VARIABLES rows, file, job, restore, req, game, gone, nextId, faults, crashes

B == INSTANCE Backup WITH next <- nextId

\* Backup counts as the library does.
LEMMA BackupCounts == \A S : B!Cardinality(S) = Cardinality(S)
BY DEF B!Cardinality, Cardinality

-----------------------------------------------------------------------------
(* The proof of CompletedHasFile, for any number of requests, backups and    *)
(* slots, both storage backends, any failures, until the controller dies.    *)

\* The object a retention pass has taken away before the row.
Retaining(b) == \E u \in Users : B!At(u, "retainRow") /\ b = B!Min(req[u].ids)

\* What row, job and object of one backup have to do with each other.
BackupSound(b) ==
  /\ rows[b] = "completed" => file[b] = "whole" \/ Retaining(b)
  /\ job[b] # "none" => rows[b] \in {"none", "in_progress"}
  /\ job[b] = "saved" /\ rows[b] # "none" => file[b] = "whole" \/ Retaining(b)
  /\ job[b] = "streaming" /\ ~S3 /\ rows[b] # "none" => file[b] = "partial" \/ Retaining(b)
  /\ b >= nextId => rows[b] = "none" /\ job[b] = "none"

\* What a request may still rely on of the list it read.
RequestSound(u) ==
  /\ req[u].pc \in {"retain", "retainRow"} => Limit # 0
  /\ B!At(u, "retainRow") => req[u].ids # {}
  /\ B!At(u, "deleteRows") => \A b \in req[u].ids : b < nextId
  /\ B!At(u, "unlink") => \A b \in req[u].ids : b < nextId /\ rows[b] = "none"

Jobs == {"none", "queued", "slot", "streaming", "saved", "failing"}
Steps == {"idle", "retain", "retainRow", "insert", "unlink", "deleteRows"}

BackupTypes ==
  /\ rows \in [Ids -> B!Status]
  /\ file \in [Ids -> B!Stored]
  /\ job \in [Ids -> Jobs]
  /\ req \in [Users -> [pc : Steps, ids : SUBSET Ids]]
  /\ nextId \in Nat

BackupInv ==
  /\ BackupTypes
  /\ \A b \in Ids : BackupSound(b)
  /\ \A u \in Users : RequestSound(u)

UntilCrash == crashes \in Nat /\ (crashes = 0 => BackupInv)

\* The least of a set of numbers is one of them.
LEMMA MinIsMember == ASSUME NEW S \in SUBSET Nat, S # {} PROVE B!Min(S) \in S
<1>1. \E x \in S : \A y \in S : ~(<<y, x>> \in OpToRel(<, Nat))
  BY NatLessThanWellFounded, WFMin, Zenon
<1>2. PICK x \in S : \A y \in S : ~(<<y, x>> \in OpToRel(<, Nat))
  BY <1>1
<1>3. \A y \in S : x =< y
  <2> SUFFICES ASSUME NEW y \in S, y < x PROVE FALSE
    BY SMT
  <2>1. <<y, x>> \in Nat \X Nat /\ <<y, x>>[1] < <<y, x>>[2]
    BY SMT
  <2>2. <<y, x>> \in OpToRel(<, Nat)
    BY <2>1 DEF OpToRel
  <2> QED BY <1>2, <2>2
<1> QED BY <1>3, Zenon DEF B!Min

\* A list as long as a positive limit has an oldest backup.
LEMMA LongListHasOldest ==
  ASSUME NEW S \in SUBSET Ids, Ids \subseteq Nat, Limit \in Nat, Limit # 0, Cardinality(S) >= Limit
  PROVE  S # {} /\ B!Min(S) \in Ids
<1>1. S # {}
  <2> SUFFICES ASSUME S = {} PROVE FALSE
    OBVIOUS
  <2>1. Cardinality({}) = 0
    BY FS_EmptySet
  <2> QED BY <2>1, SMT
<1> QED BY <1>1, MinIsMember

\* Where one request goes leaves the others alone.
LEMMA GoesOn ==
  ASSUME NEW u \in Users, NEW at \in Steps, NEW ids \in SUBSET Ids, BackupTypes, B!Go(u, at, ids)
  PROVE  /\ req' \in [Users -> [pc : Steps, ids : SUBSET Ids]]
         /\ req'[u] = [pc |-> at, ids |-> ids]
         /\ \A v \in Users \ {u} : req'[v] = req[v]
BY DEF B!Go, BackupTypes

\* A retention pass keeps its claim on a backup until it removes the row.
LEMMA RetainingKept ==
  ASSUME NEW u \in Users, NEW at \in Steps, NEW ids \in SUBSET Ids, BackupTypes, B!Go(u, at, ids),
         NEW b, Retaining(b), ~B!At(u, "retainRow") \/ b # B!Min(req[u].ids)
  PROVE  Retaining(b)'
<1>1. PICK v \in Users : B!At(v, "retainRow") /\ b = B!Min(req[v].ids)
  BY DEF Retaining
<1>2. v # u
  BY <1>1
<1>3. req'[v] = req[v]
  BY <1>2, GoesOn
<1> QED BY <1>1, <1>3 DEF Retaining, B!At

\* A step of a request that only moves on.
LEMMA PlainRequestKeeps ==
  ASSUME BackupInv, NEW u \in Users, NEW at \in Steps, NEW ids \in SUBSET Ids, B!Go(u, at, ids),
         UNCHANGED <<rows, file, job, nextId>>, ~B!At(u, "retainRow"),
         RequestSound(u)'
  PROVE  BackupInv'
<1>1. BackupTypes'
  BY GoesOn DEF BackupInv, BackupTypes
<1>2. ASSUME NEW b \in Ids PROVE BackupSound(b)'
  BY RetainingKept DEF BackupInv, BackupSound
<1>3. ASSUME NEW v \in Users PROVE RequestSound(v)'
  <2>1. CASE v = u
    BY <2>1
  <2>2. CASE v # u
    <3>1. req'[v] = req[v] /\ RequestSound(v)
      BY <2>2, GoesOn DEF BackupInv
    <3> QED BY <3>1 DEF RequestSound, B!At
  <2> QED BY <2>1, <2>2
<1> QED BY <1>1, <1>2, <1>3 DEF BackupInv

\* The steps of a retention pass.
LEMMA RetentionKeeps ==
  ASSUME BackupInv, Ids \subseteq Nat, Limit \in Nat, NEW u \in Users,
         B!RetainFile(u) \/ B!RetainRow(u) \/ B!RetainDone(u)
  PROVE  BackupInv'
<1> req[u] \in [pc : Steps, ids : SUBSET Ids]
  BY DEF BackupInv, BackupTypes
<1>1. CASE B!RetainDone(u)
  <2>1. /\ B!Go(u, "insert", {}) /\ "insert" \in Steps /\ {} \in SUBSET Ids
        /\ ~B!At(u, "retainRow") /\ UNCHANGED <<rows, file, job, nextId>>
    BY <1>1 DEF B!RetainDone, B!At, Steps
  <2>2. req'[u] = [pc |-> "insert", ids |-> {}]
    BY <2>1, GoesOn DEF BackupInv
  <2>3. RequestSound(u)'
    BY <2>2 DEF RequestSound, B!At
  <2> QED BY <2>1, <2>3, PlainRequestKeeps
<1>2. CASE B!RetainFile(u)
  <2> DEFINE o == B!Min(req[u].ids)
  <2>1. o \in Ids /\ req[u].ids # {} /\ Limit # 0
    BY <1>2, LongListHasOldest, BackupCounts DEF B!RetainFile, BackupInv, RequestSound, B!At
  <2>2. /\ req' \in [Users -> [pc : Steps, ids : SUBSET Ids]]
        /\ req'[u] = [pc |-> "retainRow", ids |-> req[u].ids]
        /\ \A v \in Users \ {u} : req'[v] = req[v]
    BY <1>2, GoesOn DEF B!RetainFile, BackupInv, Steps
  <2>3. ASSUME NEW b, b = o PROVE Retaining(b)'
    BY <2>2, <2>3 DEF Retaining, B!At
  <2>4. ASSUME NEW b \in Ids, Retaining(b) PROVE Retaining(b)'
    BY <1>2, <2>4, RetainingKept DEF B!RetainFile, BackupInv, Steps, B!At
  <2>5. file' \in [Ids -> B!Stored] /\ \A b \in Ids \ {o} : file'[b] = file[b]
    BY <1>2, <2>1 DEF B!RetainFile, B!Remove, BackupInv, BackupTypes, B!Stored
  <2>6. UNCHANGED <<rows, job, nextId>>
    BY <1>2 DEF B!RetainFile
  <2>7. ASSUME NEW b \in Ids PROVE BackupSound(b)'
    <3>1. BackupSound(b)
      BY DEF BackupInv
    <3>2. CASE b = o
      BY <2>3, <2>6, <3>1, <3>2 DEF BackupSound
    <3>3. CASE b # o
      BY <2>4, <2>5, <2>6, <3>1, <3>3 DEF BackupSound
    <3> QED BY <3>2, <3>3
  <2>8. ASSUME NEW v \in Users PROVE RequestSound(v)'
    BY <2>1, <2>2, <2>6 DEF RequestSound, BackupInv, B!At
  <2> QED BY <2>2, <2>5, <2>6, <2>7, <2>8 DEF BackupInv, BackupTypes
<1>3. CASE B!RetainRow(u)
  <2> DEFINE o == B!Min(req[u].ids)
  <2>0. o \in Ids /\ Limit # 0
    BY <1>3, MinIsMember DEF B!RetainRow, BackupInv, RequestSound, B!At
  <2>1. PICK at \in Steps, ids \in SUBSET Ids :
          B!Go(u, at, ids) /\ (at = "insert" \/ at = "retain")
    BY <1>3 DEF B!RetainRow, Steps
  <2>2. /\ req' \in [Users -> [pc : Steps, ids : SUBSET Ids]]
        /\ req'[u] = [pc |-> at, ids |-> ids]
        /\ \A v \in Users \ {u} : req'[v] = req[v]
    BY <2>1, GoesOn DEF BackupInv
  <2>3. /\ rows' \in [Ids -> B!Status] /\ rows'[o] = "none"
        /\ \A b \in Ids : rows'[b] = rows[b] \/ rows'[b] = "none"
        /\ UNCHANGED <<file, job, nextId>>
    BY <1>3, <2>0 DEF B!RetainRow, BackupInv, BackupTypes, B!Status
  <2>4. ASSUME NEW b \in Ids, Retaining(b), b # o PROVE Retaining(b)'
    BY <2>1, <2>4, RetainingKept DEF BackupInv
  <2>5. ASSUME NEW b \in Ids PROVE BackupSound(b)'
    BY <2>3, <2>4 DEF BackupSound, BackupInv
  <2>6. ASSUME NEW v \in Users PROVE RequestSound(v)'
    BY <2>0, <2>1, <2>2, <2>3 DEF RequestSound, BackupInv, BackupTypes, B!At
  <2> QED BY <2>2, <2>3, <2>5, <2>6 DEF BackupInv, BackupTypes
<1> QED BY <1>1, <1>2, <1>3

\* A new backup has neither object nor history.
LEMMA InsertKeeps ==
  ASSUME BackupInv, Ids \subseteq Nat, NEW u \in Users, B!Insert(u) PROVE BackupInv'
<1>1. B!Go(u, "idle", {}) /\ "idle" \in Steps /\ {} \in SUBSET Ids /\ B!At(u, "insert") /\ UNCHANGED file
  BY DEF B!Insert, Steps
<1>2. /\ req' \in [Users -> [pc : Steps, ids : SUBSET Ids]]
      /\ req'[u] = [pc |-> "idle", ids |-> {}]
      /\ \A v \in Users \ {u} : req'[v] = req[v]
  BY <1>1, GoesOn DEF BackupInv
<1>3. CASE gone
  <2>1. RequestSound(u)' /\ ~B!At(u, "retainRow") /\ UNCHANGED <<rows, file, job, nextId>>
    BY <1>1, <1>2, <1>3 DEF RequestSound, B!At, B!Insert
  <2> QED BY <1>1, <2>1, PlainRequestKeeps
<1>4. CASE ~gone
  <2>1. /\ nextId \in Ids /\ nextId' = nextId + 1 /\ nextId \in Nat
        /\ rows' = [rows EXCEPT ![nextId] = "in_progress"] /\ job' = [job EXCEPT ![nextId] = "queued"]
    BY <1>4 DEF B!Insert, BackupInv, BackupTypes
  <2>2. /\ rows' \in [Ids -> B!Status] /\ rows'[nextId] = "in_progress"
        /\ job' \in [Ids -> Jobs] /\ job'[nextId] = "queued"
        /\ \A b \in Ids \ {nextId} : rows'[b] = rows[b] /\ job'[b] = job[b]
    BY <2>1 DEF BackupInv, BackupTypes, B!Status, Jobs
  <2>3. ASSUME NEW b \in Ids, Retaining(b) PROVE Retaining(b)'
    BY <1>1, <2>3, RetainingKept DEF BackupInv, B!At
  <2>4. ASSUME NEW b \in Ids PROVE BackupSound(b)'
    <3>0. b \in Nat
      OBVIOUS
    <3>1. CASE b = nextId
      BY <2>1, <2>2, <3>1 DEF BackupSound
    <3>2. CASE b # nextId
      BY <1>1, <2>1, <2>2, <2>3, <3>0, <3>2 DEF BackupSound, BackupInv
    <3> QED BY <3>1, <3>2
  <2>5. ASSUME NEW v \in Users PROVE RequestSound(v)'
    <3>1. CASE v = u
      BY <1>2, <3>1 DEF RequestSound, B!At
    <3>2. CASE v # u
      <4>1. req'[v] = req[v] /\ req[v].ids \subseteq Ids /\ RequestSound(v)
        BY <1>2, <3>2 DEF BackupInv, BackupTypes
      <4>2. ASSUME NEW b \in req[v].ids, b < nextId PROVE b < nextId' /\ b \in Ids \ {nextId}
        <5>1. b \in Nat /\ b \in Ids
          BY <4>1
        <5> QED BY <2>1, <4>2, <5>1
      <4> QED BY <2>2, <4>1, <4>2 DEF RequestSound, B!At
    <3> QED BY <3>1, <3>2
  <2> QED BY <1>1, <1>2, <2>1, <2>2, <2>4, <2>5 DEF BackupInv, BackupTypes
<1> QED BY <1>3, <1>4

\* Deleting one backup, or the gameserver with all of its backups.
LEMMA DeletionKeeps ==
  ASSUME BackupInv, Ids \subseteq Nat, NEW u \in Users,
         (\E b \in Ids : B!DeleteBackup(u, b)) \/ B!ListForDelete(u) \/ B!DeleteBackupsByGameserver(u)
         \/ B!Unlink(u)
  PROVE  BackupInv'
<1> req[u] \in [pc : Steps, ids : SUBSET Ids] /\ nextId \in Nat
  BY DEF BackupInv, BackupTypes
<1>0. ASSUME NEW b \in Ids, rows[b] # "none" PROVE b < nextId
  BY <1>0 DEF BackupInv, BackupSound
<1>1. PICK at \in Steps, ids \in SUBSET Ids :
        B!Go(u, at, ids) /\ (at \in {"unlink", "deleteRows", "idle"}) /\ UNCHANGED <<job, nextId>>
          /\ (at = "deleteRows" => \A b \in ids : b < nextId)
          /\ (at = "unlink" => \A b \in ids : b < nextId /\ rows'[b] = "none")
  <2>1. CASE B!ListForDelete(u)
    BY <2>1, <1>0 DEF B!ListForDelete, B!Existing, Steps
  <2>2. CASE B!DeleteBackupsByGameserver(u)
    <3>1. \A b \in req[u].ids : b < nextId /\ rows'[b] = "none"
      BY <2>2 DEF B!DeleteBackupsByGameserver, BackupInv, RequestSound
    <3> QED BY <2>2, <3>1 DEF B!DeleteBackupsByGameserver, Steps
  <2>3. CASE B!Unlink(u)
    <3>1. \A b \in req[u].ids : b < nextId /\ rows'[b] = "none"
      BY <2>3 DEF B!Unlink, BackupInv, RequestSound
    <3> QED BY <2>3, <3>1 DEF B!Unlink, Steps
  <2>4. CASE \E b \in Ids : B!DeleteBackup(u, b)
    BY <2>4, <1>0 DEF B!DeleteBackup, Steps, BackupInv, BackupTypes
  <2> QED BY <2>1, <2>2, <2>3, <2>4
<1>2. /\ req' \in [Users -> [pc : Steps, ids : SUBSET Ids]]
      /\ req'[u] = [pc |-> at, ids |-> ids]
      /\ \A v \in Users \ {u} : req'[v] = req[v]
  BY <1>1, GoesOn DEF BackupInv
<1>3. ~B!At(u, "retainRow")
  BY DEF B!ListForDelete, B!DeleteBackupsByGameserver, B!Unlink, B!DeleteBackup, B!At
<1>4. /\ rows' \in [Ids -> B!Status] /\ file' \in [Ids -> B!Stored]
      /\ \A b \in Ids : rows'[b] = rows[b] \/ rows'[b] = "none"
      /\ \A b \in Ids : file'[b] = file[b] \/ rows'[b] = "none"
  <2>1. CASE B!ListForDelete(u)
    BY <2>1 DEF B!ListForDelete, BackupInv, BackupTypes
  <2>2. CASE B!DeleteBackupsByGameserver(u)
    BY <2>2 DEF B!DeleteBackupsByGameserver, BackupInv, BackupTypes, B!Status
  <2>3. CASE B!Unlink(u)
    <3>1. CASE req[u].ids = {}
      BY <2>3, <3>1 DEF B!Unlink, BackupInv, BackupTypes
    <3>2. CASE req[u].ids # {}
      <4>1. B!Min(req[u].ids) \in req[u].ids
        BY <3>2, MinIsMember
      <4>2. rows[B!Min(req[u].ids)] = "none"
        BY <2>3, <4>1 DEF B!Unlink, BackupInv, RequestSound
      <4> QED BY <2>3, <3>2, <4>1, <4>2 DEF B!Unlink, B!Remove, BackupInv, BackupTypes, B!Stored
    <3> QED BY <3>1, <3>2
  <2>4. CASE \E b \in Ids : B!DeleteBackup(u, b)
    BY <2>4 DEF B!DeleteBackup, BackupInv, BackupTypes, B!Status
  <2> QED BY <2>1, <2>2, <2>3, <2>4
<1>5. ASSUME NEW b \in Ids, Retaining(b) PROVE Retaining(b)'
  BY <1>1, <1>3, <1>5, RetainingKept DEF BackupInv
<1>6. ASSUME NEW b \in Ids PROVE BackupSound(b)'
  BY <1>1, <1>4, <1>5 DEF BackupSound, BackupInv
<1>7. ASSUME NEW v \in Users PROVE RequestSound(v)'
  <2>1. CASE v = u
    <3>1. req'[v].pc = at /\ req'[v].ids = ids /\ UNCHANGED nextId
      BY <1>1, <1>2, <2>1
    <3> QED BY <1>1, <3>1 DEF RequestSound, B!At
  <2>2. CASE v # u
    <3>1. req'[v] = req[v] /\ req[v].ids \subseteq Ids /\ RequestSound(v)
      BY <1>2, <2>2 DEF BackupInv, BackupTypes
    <3> QED BY <1>1, <1>4, <3>1 DEF RequestSound, B!At
  <2> QED BY <2>1, <2>2
<1> QED BY <1>1, <1>2, <1>4, <1>6, <1>7 DEF BackupInv, BackupTypes

\* The goroutine of one backup touches that backup only.
LEMMA JobKeeps == ASSUME BackupInv, NEW b \in Ids, B!JobStep(b) PROVE BackupInv'
<1>1. UNCHANGED <<req, nextId>> /\ \A c : Retaining(c)' <=> Retaining(c)
  BY DEF B!JobStep, B!TakeSlot, B!BackupVolume, B!Save, B!Complete, B!failBackup, Retaining, B!At
<1>2. /\ rows' \in [Ids -> B!Status] /\ file' \in [Ids -> B!Stored] /\ job' \in [Ids -> Jobs]
      /\ \A c \in Ids \ {b} : rows'[c] = rows[c] /\ file'[c] = file[c] /\ job'[c] = job[c]
      /\ rows'[b] = "none" <=> rows[b] = "none"
  BY DEF B!JobStep, B!TakeSlot, B!BackupVolume, B!Save, B!Complete, B!failBackup, B!Remove, B!SetStatus,
         BackupInv, BackupTypes, B!Status, B!Stored, Jobs
<1>3. BackupSound(b)'
  <2>0. BackupSound(b) /\ job[b] # "none"
    BY DEF BackupInv, B!JobStep, B!TakeSlot, B!BackupVolume, B!Save, B!Complete, B!failBackup
  <2>1. CASE B!TakeSlot(b)
    BY <1>1, <2>0, <2>1 DEF B!TakeSlot, BackupInv, BackupTypes, BackupSound
  <2>2. CASE B!BackupVolume(b)
    BY <1>1, <2>0, <2>2 DEF B!BackupVolume, BackupInv, BackupTypes, BackupSound
  <2>3. CASE B!Save(b)
    BY <1>1, <2>0, <2>3 DEF B!Save, BackupInv, BackupTypes, BackupSound
  <2>4. CASE B!Complete(b)
    BY <1>1, <2>0, <2>4 DEF B!Complete, B!SetStatus, BackupInv, BackupTypes, BackupSound
  <2>5. CASE B!failBackup(b)
    BY <1>1, <2>0, <2>5 DEF B!failBackup, B!SetStatus, BackupInv, BackupTypes, BackupSound
  <2> QED BY <2>1, <2>2, <2>3, <2>4, <2>5 DEF B!JobStep
<1>4. ASSUME NEW c \in Ids PROVE BackupSound(c)'
  BY <1>1, <1>2, <1>3 DEF BackupInv, BackupSound
<1>5. ASSUME NEW v \in Users PROVE RequestSound(v)'
  BY <1>1, <1>2 DEF BackupInv, BackupTypes, RequestSound, B!At
<1> QED BY <1>1, <1>2, <1>4, <1>5 DEF BackupInv, BackupTypes

\* Whatever requests, goroutines and failures overlap, on either storage: until
\* the controller dies, a backup listed as completed has its whole object, or a
\* retention pass is about to remove its row.
THEOREM CompletedIsRestorable ==
  ASSUME Ids \subseteq Nat, Limit \in Nat
  PROVE  B!Spec => [](crashes = 0 => B!CompletedHasFile)
<1>1. B!Init => UntilCrash
  BY DEF B!Init, UntilCrash, BackupInv, BackupTypes, BackupSound, RequestSound, B!At, B!NoRequest,
         B!Status, B!Stored, Jobs, Steps
<1>2. UntilCrash /\ [B!Next]_(B!vars) => UntilCrash'
  <2> SUFFICES ASSUME UntilCrash, [B!Next]_(B!vars) PROVE UntilCrash'
    OBVIOUS
  <2>1. CASE B!Crash
    BY <2>1 DEF B!Crash, UntilCrash
  <2>2. CASE UNCHANGED <<rows, file, job, req, nextId, crashes>>
    BY <2>2 DEF UntilCrash, BackupInv, BackupTypes, BackupSound, RequestSound, Retaining, B!At
  <2>3. ASSUME NEW u \in Users,
               B!CreateBackup(u) \/ B!ListForDelete(u) \/ B!RequestStep(u)
                 \/ \E b \in Ids : B!DeleteBackup(u, b)
        PROVE  UntilCrash'
    <3>1. UNCHANGED crashes
      BY <2>3 DEF B!CreateBackup, B!ListForDelete, B!RequestStep, B!DeleteBackup, B!RetainFile, B!RetainRow,
                  B!RetainDone, B!Insert, B!DeleteBackupsByGameserver, B!Unlink
    <3>2. ASSUME BackupInv, B!CreateBackup(u) PROVE BackupInv'
      <4>1. /\ B!Existing \in SUBSET Ids /\ {} \in SUBSET Ids /\ "insert" \in Steps
            /\ "retain" \in Steps /\ ~B!At(u, "retainRow") /\ UNCHANGED <<rows, file, job, nextId>>
            /\ B!Go(u, "insert", {}) \/ (B!Go(u, "retain", B!Existing) /\ Limit # 0)
        BY <3>2 DEF B!CreateBackup, B!At, B!Existing, Steps
      <4>2. req'[u].pc = "insert" \/ (req'[u].pc = "retain" /\ Limit # 0)
        <5>1. CASE B!Go(u, "insert", {})
          <6>1. req'[u] = [pc |-> "insert", ids |-> {}]
            BY <3>2, <4>1, <5>1, GoesOn DEF BackupInv
          <6> QED BY <6>1
        <5>2. CASE B!Go(u, "retain", B!Existing) /\ Limit # 0
          <6>1. req'[u] = [pc |-> "retain", ids |-> B!Existing]
            BY <3>2, <4>1, <5>2, GoesOn DEF BackupInv
          <6> QED BY <5>2, <6>1
        <5> QED BY <4>1, <5>1, <5>2
      <4>3. RequestSound(u)'
        BY <4>2 DEF RequestSound, B!At
      <4> QED BY <3>2, <4>1, <4>3, PlainRequestKeeps
    <3>3. BackupInv => BackupInv'
      BY <2>3, <3>2, RetentionKeeps, InsertKeeps, DeletionKeeps DEF B!RequestStep
    <3> QED BY <3>1, <3>3 DEF UntilCrash
  <2>4. ASSUME NEW b \in Ids, B!JobStep(b) PROVE UntilCrash'
    <3>1. UNCHANGED crashes
      BY <2>4 DEF B!JobStep, B!TakeSlot, B!BackupVolume, B!Save, B!Complete, B!failBackup
    <3> QED BY <2>4, <3>1, JobKeeps DEF UntilCrash
  <2>5. CASE \/ \E r \in Restores, b \in Ids : B!RestoreBackup(r, b)
             \/ \E r \in Restores : B!RestoreStep(r)
             \/ B!GameStep \/ B!UserStart \/ UNCHANGED B!vars
    BY <2>2, <2>5 DEF B!RestoreBackup, B!RestoreStep, B!RestoreSlot, B!StopForRestore, B!Load,
                      B!RestoreVolume, B!StartAfterRestore, B!GameStep, B!UserStart, B!vars
  <2> QED BY <2>1, <2>3, <2>4, <2>5 DEF B!Next
<1>3. UntilCrash => (crashes = 0 => B!CompletedHasFile)
  <2> SUFFICES ASSUME BackupInv, NEW b \in Ids, rows[b] = "completed", file[b] # "whole"
               PROVE  \E u \in Users : B!At(u, "retainRow") /\ b \in req[u].ids
    BY DEF UntilCrash, B!CompletedHasFile
  <2>1. PICK u \in Users : B!At(u, "retainRow") /\ b = B!Min(req[u].ids)
    BY DEF BackupInv, BackupSound, Retaining
  <2>2. req[u].ids # {} /\ req[u].ids \in SUBSET Nat
    BY <2>1 DEF BackupInv, BackupTypes, RequestSound
  <2> QED BY <2>1, <2>2, MinIsMember
<1> QED BY <1>1, <1>2, <1>3, PTL DEF B!Spec

-----------------------------------------------------------------------------
(* The bounds: of the goroutines past the semaphore, and of the rows.        *)

Streaming(b) == job[b] \in {"slot", "streaming", "saved"}
Restoring(r) == restore[r].pc \in {"slot", "load", "extract", "start"}

SlotTypes ==
  /\ job \in [Ids -> Jobs]
  /\ DOMAIN restore = Restores
  /\ \A r \in Restores : \E at, id, was, g :
       restore[r] = [pc |-> at, id |-> id, wasRunning |-> was, got |-> g]

SlotInv == SlotTypes /\ B!Taken <= Slots

\* The tokens in the semaphore, where nobody takes one and where one is taken.
LEMMA TakenBound ==
  ASSUME IsFiniteSet(Ids), IsFiniteSet(Restores), Slots \in Nat,
         NEW J \in SUBSET Ids, NEW R \in SUBSET Restores,
         NEW J1, NEW R1,
         Cardinality(J) + Cardinality(R) <= Slots,
         \/ J1 \subseteq J /\ R1 \subseteq R
         \/ /\ Cardinality(J) + Cardinality(R) < Slots
            /\ \/ \E b : J1 = J \cup {b} /\ R1 = R
               \/ \E r : J1 = J /\ R1 = R \cup {r}
  PROVE  Cardinality(J1) + Cardinality(R1) <= Slots
<1>1. /\ IsFiniteSet(J) /\ IsFiniteSet(R) /\ Cardinality(J) \in Nat /\ Cardinality(R) \in Nat
  BY FS_Subset, FS_CardinalityType
<1>2. CASE J1 \subseteq J /\ R1 \subseteq R
  <2>1. /\ Cardinality(J1) <= Cardinality(J) /\ Cardinality(R1) <= Cardinality(R)
        /\ Cardinality(J1) \in Nat /\ Cardinality(R1) \in Nat
    BY <1>1, <1>2, FS_Subset, FS_CardinalityType
  <2> QED BY <1>1, <2>1
<1>3. ASSUME NEW b, J1 = J \cup {b}, R1 = R, Cardinality(J) + Cardinality(R) < Slots
      PROVE  Cardinality(J1) + Cardinality(R1) <= Slots
  <2>1. Cardinality(J1) = Cardinality(J) \/ Cardinality(J1) = Cardinality(J) + 1
    BY <1>1, <1>3, FS_AddElement
  <2> QED BY <1>1, <1>3, <2>1
<1>4. ASSUME NEW r, J1 = J, R1 = R \cup {r}, Cardinality(J) + Cardinality(R) < Slots
      PROVE  Cardinality(J1) + Cardinality(R1) <= Slots
  <2>1. Cardinality(R1) = Cardinality(R) \/ Cardinality(R1) = Cardinality(R) + 1
    BY <1>1, <1>4, FS_AddElement
  <2> QED BY <1>1, <1>4, <2>1
<1> QED BY <1>2, <1>3, <1>4

\* A restore goes from one place to another.
Moves(r, at) ==
  \E id, was, g :
    restore' = [restore EXCEPT ![r] = [pc |-> at, id |-> id, wasRunning |-> was, got |-> g]]

\* It leaves the others where they are.
LEMMA MovesAlone ==
  ASSUME SlotTypes, UNCHANGED job, NEW r \in Restores, NEW at, Moves(r, at)
  PROVE  /\ SlotTypes' /\ restore'[r].pc = at
         /\ \A q \in Restores \ {r} : restore'[q] = restore[q]
<1>1. PICK id, was, g :
        restore' = [restore EXCEPT ![r] = [pc |-> at, id |-> id, wasRunning |-> was, got |-> g]]
  BY DEF Moves
<1>2. /\ DOMAIN restore' = Restores
      /\ restore'[r] = [pc |-> at, id |-> id, wasRunning |-> was, got |-> g]
      /\ \A q \in Restores \ {r} : restore'[q] = restore[q]
  BY <1>1 DEF SlotTypes
<1>3. ASSUME NEW q \in Restores
      PROVE  \E pc1, id1, was1, g1 :
               restore'[q] = [pc |-> pc1, id |-> id1, wasRunning |-> was1, got |-> g1]
  <2>1. CASE q = r
    BY <1>2, <2>1
  <2>2. CASE q # r
    BY <1>2, <2>2 DEF SlotTypes
  <2> QED BY <2>1, <2>2
<1> QED BY <1>2, <1>3 DEF SlotTypes

\* Only who finds a free slot takes a token; every other step keeps or returns.
LEMMA SlotsKept ==
  ASSUME IsFiniteSet(Ids), IsFiniteSet(Restores), Slots \in Nat, SlotInv, [B!Next]_(B!vars)
  PROVE  SlotInv'
<1> DEFINE Held == /\ \A b \in Ids : Streaming(b)' => Streaming(b)
                   /\ \A r \in Restores : Restoring(r)' => Restoring(r)
           TookJob == B!SlotFree /\ UNCHANGED restore /\ \E b \in Ids :
                        Streaming(b)' /\ \A c \in Ids \ {b} : Streaming(c)' <=> Streaming(c)
           TookRestore == B!SlotFree /\ UNCHANGED job /\ \E r \in Restores :
                        Restoring(r)' /\ \A q \in Restores \ {r} : Restoring(q)' <=> Restoring(q)
<1>1. SlotTypes' /\ (Held \/ TookJob \/ TookRestore)
  <2> USE DEF SlotInv, SlotTypes, Streaming, Restoring
  <2>1. CASE UNCHANGED <<job, restore>>
    BY <2>1
  <2>2. CASE B!Crash
    BY <2>2 DEF B!Crash, B!NoRestore, Jobs
  <2>3. ASSUME NEW u \in Users, B!Insert(u) PROVE SlotTypes' /\ Held
    <3>1. UNCHANGED restore /\ (job' = job \/ job' = [job EXCEPT ![nextId] = "queued"])
      BY <2>3 DEF B!Insert
    <3> QED BY <3>1 DEF Jobs
  <2>4. ASSUME NEW b \in Ids, B!JobStep(b) PROVE SlotTypes' /\ (Held \/ TookJob)
    <3>1. UNCHANGED restore
      BY <2>4 DEF B!JobStep, B!TakeSlot, B!BackupVolume, B!Save, B!Complete, B!failBackup
    <3>2. CASE B!TakeSlot(b)
      BY <3>1, <3>2 DEF B!TakeSlot, Jobs
    <3>3. CASE B!BackupVolume(b) \/ B!Save(b) \/ B!Complete(b) \/ B!failBackup(b)
      <4>1. \E j \in {"streaming", "saved", "none", "failing"} :
              /\ job' = [job EXCEPT ![b] = j]
              /\ j \in {"streaming", "saved"} => Streaming(b)
        BY <3>3 DEF B!BackupVolume, B!Save, B!Complete, B!failBackup
      <4> QED BY <3>1, <4>1 DEF Jobs
    <3> QED BY <2>4, <3>2, <3>3 DEF B!JobStep
  <2>5. ASSUME NEW r \in Restores,
               (\E b \in Ids : B!RestoreBackup(r, b)) \/ B!RestoreStep(r)
        PROVE  SlotTypes' /\ (Held \/ TookRestore)
    <3>1. UNCHANGED job
      BY <2>5 DEF B!RestoreBackup, B!RestoreStep, B!RestoreSlot, B!StopForRestore, B!Load, B!RestoreVolume,
                  B!StartAfterRestore
    <3>2. PICK at, id, was, g :
            restore[r] = [pc |-> at, id |-> id, wasRunning |-> was, got |-> g]
      OBVIOUS
    <3>3. /\ B!RestoreReturns(r) => Moves(r, "idle")
          /\ \A to : B!GoTo(r, to) => Moves(r, to)
          /\ \A f : restore' = [restore EXCEPT ![r].pc = "extract", ![r].got = f]
                       => Moves(r, "extract")
      BY <3>2 DEF B!RestoreReturns, B!NoRestore, B!GoTo, Moves
    <3>4. \E to : /\ Moves(r, to)
                  /\ \/ to \notin {"slot", "load", "extract", "start"}
                     \/ Restoring(r)
                     \/ B!SlotFree
      <4>1. ASSUME NEW b \in Ids, B!RestoreBackup(r, b) PROVE Moves(r, "queued")
        BY <4>1 DEF B!RestoreBackup, Moves
      <4>2. CASE B!RestoreSlot(r)
        BY <3>3, <4>2 DEF B!RestoreSlot
      <4>3. CASE B!StopForRestore(r) \/ B!Load(r) \/ B!RestoreVolume(r) \/ B!StartAfterRestore(r)
        <5>1. Restoring(r)
          BY <4>3 DEF B!StopForRestore, B!Load, B!RestoreVolume, B!StartAfterRestore
        <5>2. B!RestoreReturns(r) \/ B!GoTo(r, "load") \/ B!GoTo(r, "start")
                \/ \E f : restore' = [restore EXCEPT ![r].pc = "extract", ![r].got = f]
          BY <4>3 DEF B!StopForRestore, B!Load, B!RestoreVolume, B!StartAfterRestore
        <5> QED BY <3>3, <5>1, <5>2
      <4> QED BY <2>5, <4>1, <4>2, <4>3 DEF B!RestoreStep
    <3>5. PICK to : /\ Moves(r, to)
                    /\ \/ to \notin {"slot", "load", "extract", "start"}
                       \/ Restoring(r)
                       \/ B!SlotFree
      BY <3>4
    <3>6. /\ SlotTypes' /\ restore'[r].pc = to
          /\ \A q \in Restores \ {r} : restore'[q] = restore[q]
      BY <3>1, <3>5, MovesAlone DEF SlotInv
    <3> QED BY <3>1, <3>5, <3>6
  <2>6. CASE \/ \E u \in Users : B!CreateBackup(u) \/ B!ListForDelete(u) \/ B!RetainFile(u)
                  \/ B!RetainRow(u) \/ B!RetainDone(u) \/ B!DeleteBackupsByGameserver(u) \/ B!Unlink(u)
             \/ \E u \in Users, b \in Ids : B!DeleteBackup(u, b)
             \/ B!GameStep \/ B!UserStart \/ UNCHANGED B!vars
    <3>1. UNCHANGED <<job, restore>>
      BY <2>6 DEF B!CreateBackup, B!ListForDelete, B!RetainFile, B!RetainRow, B!RetainDone, B!DeleteBackup,
                  B!DeleteBackupsByGameserver, B!Unlink, B!GameStep, B!UserStart, B!vars
    <3> QED BY <2>1, <3>1
  <2> QED BY <2>2, <2>3, <2>4, <2>5, <2>6 DEF B!Next, B!RequestStep
<1> DEFINE J == {b \in Ids : Streaming(b)}
           R == {r \in Restores : Restoring(r)}
           J1 == {b \in Ids : Streaming(b)'}
           R1 == {r \in Restores : Restoring(r)'}
<1>2. /\ B!Taken = Cardinality(J) + Cardinality(R) /\ B!Taken' = Cardinality(J1) + Cardinality(R1)
      /\ Cardinality(J) + Cardinality(R) <= Slots
  BY BackupCounts DEF B!Taken, Streaming, Restoring, SlotInv
<1>3. CASE Held
  <2>1. J1 \subseteq J /\ R1 \subseteq R
    BY <1>3
  <2>2. J \in SUBSET Ids /\ R \in SUBSET Restores
    OBVIOUS
  <2> HIDE DEF J, R, J1, R1
  <2> QED BY <1>1, <1>2, <2>1, <2>2, TakenBound DEF SlotInv
<1>4. CASE TookJob
  <2>1. (\E b : J1 = J \cup {b}) /\ R1 = R
    BY <1>4 DEF Restoring
  <2>2. J \in SUBSET Ids /\ R \in SUBSET Restores /\ Cardinality(J) + Cardinality(R) < Slots
    BY <1>2, <1>4 DEF B!SlotFree
  <2> HIDE DEF J, R, J1, R1
  <2> QED BY <1>1, <1>2, <2>1, <2>2, TakenBound DEF SlotInv
<1>5. CASE TookRestore
  <2>1. (\E r : R1 = R \cup {r}) /\ J1 = J
    BY <1>5 DEF Streaming
  <2>2. J \in SUBSET Ids /\ R \in SUBSET Restores /\ Cardinality(J) + Cardinality(R) < Slots
    BY <1>2, <1>5 DEF B!SlotFree
  <2> HIDE DEF J, R, J1, R1
  <2> QED BY <1>1, <1>2, <2>1, <2>2, TakenBound DEF SlotInv
<1> QED BY <1>1, <1>3, <1>4, <1>5

\* Backups and restores together never take more slots than there are, through
\* failures and restarts of the controller.
THEOREM SlotsSuffice ==
  ASSUME IsFiniteSet(Ids), IsFiniteSet(Restores), Slots \in Nat
  PROVE  B!Spec => [](B!Taken <= Slots)
<1>1. B!Init => SlotInv
  <2> SUFFICES ASSUME B!Init PROVE SlotInv
    OBVIOUS
  <2>1. SlotTypes
    BY DEF B!Init, SlotTypes, B!NoRestore, Jobs
  <2>2. /\ {b \in Ids : job[b] \in {"slot", "streaming", "saved"}} = {}
        /\ {r \in Restores : restore[r].pc \in {"slot", "load", "extract", "start"}} = {}
    BY DEF B!Init, B!NoRestore
  <2>3. Cardinality({}) = 0
    BY FS_EmptySet
  <2>4. B!Taken = 0 + 0
    BY <2>2, <2>3, BackupCounts DEF B!Taken
  <2> QED BY <2>1, <2>4 DEF SlotInv
<1>2. SlotInv /\ [B!Next]_(B!vars) => SlotInv'
  BY SlotsKept
<1>3. SlotInv => B!Taken <= Slots
  BY DEF SlotInv
<1> QED BY <1>1, <1>2, <1>3, PTL DEF B!Spec

\* What a request may rely on while no other request runs.
ListSound(u) ==
  /\ req[u].pc \in {"retain", "retainRow"} => req[u].ids = B!Existing /\ Limit # 0
  /\ B!At(u, "retainRow") => req[u].ids # {}
  /\ B!At(u, "insert") => Limit = 0 \/ Cardinality(B!Existing) < Limit

RowInv ==
  /\ rows \in [Ids -> B!Status]
  /\ DOMAIN req = Users
  /\ B!RowsBounded
  /\ \A u \in Users : ListSound(u)

\* Rows that lose one, and rows that gain one, are counted.
LEMMA ExistingCounts ==
  ASSUME IsFiniteSet(Ids)
  PROVE  /\ B!Existing \in SUBSET Ids /\ IsFiniteSet(B!Existing) /\ Cardinality(B!Existing) \in Nat
         /\ \A S \in SUBSET B!Existing : Cardinality(S) \in Nat /\ Cardinality(S) <= Cardinality(B!Existing)
         /\ \A b : Cardinality(B!Existing \cup {b}) \in Nat
                     /\ Cardinality(B!Existing \cup {b}) <= Cardinality(B!Existing) + 1
<1>1. B!Existing \in SUBSET Ids
  BY DEF B!Existing
<1>2. IsFiniteSet(B!Existing) /\ Cardinality(B!Existing) \in Nat
  BY <1>1, FS_Subset, FS_CardinalityType
<1>3. ASSUME NEW S \in SUBSET B!Existing
      PROVE  Cardinality(S) \in Nat /\ Cardinality(S) <= Cardinality(B!Existing)
  BY <1>2, FS_Subset, FS_CardinalityType
<1>4. ASSUME NEW b
      PROVE  /\ Cardinality(B!Existing \cup {b}) \in Nat
             /\ Cardinality(B!Existing \cup {b}) <= Cardinality(B!Existing) + 1
  <2>1. Cardinality(B!Existing \cup {b}) \in {Cardinality(B!Existing), Cardinality(B!Existing) + 1}
    BY <1>2, FS_AddElement
  <2> QED BY <1>2, <2>1
<1> QED BY <1>1, <1>2, <1>3, <1>4

\* A request that runs alone goes on, with what it may then rely on.
LEMMA AloneGoesOn ==
  ASSUME RowInv, \A u, v \in Users : u = v, NEW u \in Users, NEW at, NEW ids, B!Go(u, at, ids),
         rows' \in [Ids -> B!Status], B!RowsBounded',
         at \in {"retain", "retainRow"} => ids = B!Existing' /\ Limit # 0,
         at = "retainRow" => ids # {},
         at = "insert" => Limit = 0 \/ Cardinality(B!Existing') < Limit
  PROVE  RowInv'
<1>1. DOMAIN req' = Users /\ req'[u] = [pc |-> at, ids |-> ids]
  BY DEF B!Go, RowInv
<1>2. ListSound(u)'
  BY <1>1 DEF ListSound, B!At
<1>3. \A v \in Users : ListSound(v)'
  <2> TAKE v \in Users
  <2>1. v = u
    OBVIOUS
  <2> QED BY <1>2, <2>1
<1> QED BY <1>1, <1>3 DEF RowInv

\* The steps of a request.
LEMMA RequestCounts ==
  ASSUME IsFiniteSet(Ids), Ids \subseteq Nat, Limit \in Nat, RowInv,
         \A u, v \in Users : u = v, NEW u \in Users,
         \/ B!CreateBackup(u) \/ B!ListForDelete(u) \/ B!RequestStep(u)
         \/ \E b \in Ids : B!DeleteBackup(u, b)
  PROVE  RowInv'
<1> USE DEF B!At
<1>1. /\ B!Existing \in SUBSET Ids /\ Cardinality(B!Existing) \in Nat
      /\ B!RowsBounded /\ ListSound(u) /\ rows \in [Ids -> B!Status]
  BY ExistingCounts DEF RowInv
<1>2. ASSUME UNCHANGED rows PROVE B!Existing' = B!Existing /\ B!RowsBounded' /\ rows' \in [Ids -> B!Status]
  BY <1>1, <1>2 DEF B!Existing, B!RowsBounded
<1>3. ASSUME rows' \in [Ids -> B!Status], \A b \in Ids : rows'[b] = rows[b] \/ rows'[b] = "none"
      PROVE  B!RowsBounded'
  <2>1. B!Existing' \in SUBSET B!Existing
    BY <1>3 DEF B!Existing
  <2>2. Cardinality(B!Existing') \in Nat /\ Cardinality(B!Existing') <= Cardinality(B!Existing)
    BY <2>1, ExistingCounts
  <2> QED BY <1>1, <2>2, BackupCounts DEF B!RowsBounded
<1>4. CASE B!CreateBackup(u)
  <2>1. UNCHANGED rows /\ (Limit = 0 => B!Go(u, "insert", {})) /\ (Limit # 0 => B!Go(u, "retain", B!Existing))
    BY <1>4 DEF B!CreateBackup
  <2> QED BY <1>2, <2>1, AloneGoesOn
<1>5. CASE B!RetainFile(u)
  <2>1. /\ UNCHANGED rows /\ B!Go(u, "retainRow", req[u].ids) /\ req[u].ids = B!Existing /\ Limit # 0
        /\ Cardinality(req[u].ids) >= Limit
    BY <1>1, <1>5, BackupCounts DEF B!RetainFile, ListSound
  <2>2. B!Existing # {}
    BY <1>1, <2>1, LongListHasOldest
  <2> QED BY <1>2, <2>1, <2>2, AloneGoesOn
<1>6. CASE B!RetainRow(u)
  <2> DEFINE oldest == B!Min(req[u].ids)
  <2>1. req[u].ids = B!Existing /\ B!Existing # {} /\ Limit # 0
    BY <1>1, <1>6 DEF B!RetainRow, ListSound
  <2>2. B!Existing \in SUBSET Nat
    BY <1>1
  <2>3. oldest \in B!Existing
    BY <2>1, <2>2, MinIsMember
  <2>4. oldest \in Ids /\ rows[oldest] # "none"
    BY <2>3 DEF B!Existing
  <2>5. rows' = [rows EXCEPT ![oldest] = "none"] /\ B!Go(u, "retain", req[u].ids \ {oldest})
    BY <1>6, <2>4 DEF B!RetainRow
  <2> HIDE DEF oldest
  <2>6. /\ rows' \in [Ids -> B!Status] /\ rows'[oldest] = "none"
        /\ \A b \in Ids : rows'[b] = rows[b] \/ rows'[b] = "none"
        /\ \A b \in Ids \ {oldest} : rows'[b] = rows[b]
    BY <1>1, <2>4, <2>5 DEF B!Status
  <2>7. B!Existing' = req[u].ids \ {oldest}
    BY <2>1, <2>6 DEF B!Existing
  <2> QED BY <1>3, <2>1, <2>5, <2>6, <2>7, AloneGoesOn
<1>7. CASE B!RetainDone(u)
  <2>1. UNCHANGED rows /\ B!Go(u, "insert", {}) /\ Cardinality(B!Existing) < Limit
    BY <1>1, <1>7, BackupCounts DEF B!RetainDone, ListSound
  <2> QED BY <1>2, <2>1, AloneGoesOn
<1>8. CASE B!Insert(u)
  <2>1. B!Go(u, "idle", {}) /\ (Limit = 0 \/ Cardinality(B!Existing) < Limit)
    BY <1>1, <1>8 DEF B!Insert, ListSound
  <2>2. CASE gone
    <3>1. UNCHANGED rows
      BY <1>8, <2>2 DEF B!Insert
    <3> QED BY <1>2, <2>1, <3>1, AloneGoesOn
  <2>3. CASE ~gone
    <3>1. rows' = [rows EXCEPT ![nextId] = "in_progress"] /\ nextId \in Ids
      BY <1>8, <2>3 DEF B!Insert
    <3>2. /\ rows' \in [Ids -> B!Status] /\ rows'[nextId] = "in_progress"
          /\ \A b \in Ids \ {nextId} : rows'[b] = rows[b]
      BY <1>1, <3>1 DEF B!Status
    <3>3. B!Existing' = B!Existing \cup {nextId}
      BY <3>1, <3>2 DEF B!Existing
    <3>4. Cardinality(B!Existing') \in Nat /\ Cardinality(B!Existing') <= Cardinality(B!Existing) + 1
      BY <3>3, ExistingCounts
    <3>5. B!RowsBounded'
      BY <1>1, <2>1, <3>4, BackupCounts DEF B!RowsBounded
    <3> QED BY <2>1, <3>2, <3>5, AloneGoesOn
  <2> QED BY <2>2, <2>3
<1>9. CASE B!ListForDelete(u) \/ B!Unlink(u)
  <2>1. PICK at, ids : B!Go(u, at, ids) /\ at \in {"deleteRows", "idle", "unlink"} /\ UNCHANGED rows
    BY <1>9 DEF B!ListForDelete, B!Unlink
  <2> QED BY <1>2, <2>1, AloneGoesOn
<1>10. CASE B!DeleteBackupsByGameserver(u) \/ \E b \in Ids : B!DeleteBackup(u, b)
  <2>1. PICK ids : B!Go(u, "unlink", ids)
    BY <1>10 DEF B!DeleteBackupsByGameserver, B!DeleteBackup
  <2>2. /\ rows' \in [Ids -> B!Status]
        /\ \A b \in Ids : rows'[b] = rows[b] \/ rows'[b] = "none"
    BY <1>1, <1>10 DEF B!DeleteBackupsByGameserver, B!DeleteBackup, B!Status
  <2> QED BY <1>3, <2>1, <2>2, AloneGoesOn
<1> QED BY <1>4, <1>5, <1>6, <1>7, <1>8, <1>9, <1>10 DEF B!RequestStep

\* When requests come one at a time, the rows never exceed the limit: whatever
\* goroutines write meanwhile, whichever objects cannot be deleted, and wherever
\* the controller dies.
THEOREM LimitIsKept ==
  ASSUME IsFiniteSet(Ids), Ids \subseteq Nat, Limit \in Nat, \A u, v \in Users : u = v
  PROVE  B!Spec => []B!RowsBounded
<1>1. B!Init => RowInv
  <2> SUFFICES ASSUME B!Init PROVE RowInv
    OBVIOUS
  <2>1. B!Existing = {}
    BY DEF B!Init, B!Existing
  <2>2. Cardinality({}) = 0
    BY FS_EmptySet
  <2>3. B!RowsBounded
    BY <2>1, <2>2, BackupCounts DEF B!RowsBounded
  <2> QED BY <2>3 DEF B!Init, RowInv, ListSound, B!At, B!NoRequest, B!Status
<1>2. RowInv /\ [B!Next]_(B!vars) => RowInv'
  <2> SUFFICES ASSUME RowInv, [B!Next]_(B!vars) PROVE RowInv'
    OBVIOUS
  <2>1. CASE UNCHANGED <<rows, req>>
    BY <2>1 DEF RowInv, ListSound, B!RowsBounded, B!Existing, B!At
  <2>2. CASE B!Crash
    BY <2>2 DEF B!Crash, RowInv, ListSound, B!RowsBounded, B!Existing, B!At, B!NoRequest
  <2>3. ASSUME NEW b \in Ids, B!JobStep(b) PROVE RowInv'
    <3>1. UNCHANGED req
      BY <2>3 DEF B!JobStep, B!TakeSlot, B!BackupVolume, B!Save, B!Complete, B!failBackup
    <3>2. rows' \in [Ids -> B!Status] /\ \A c \in Ids : rows'[c] = "none" <=> rows[c] = "none"
      BY <2>3 DEF B!JobStep, B!TakeSlot, B!BackupVolume, B!Save, B!Complete, B!failBackup, B!SetStatus,
                  RowInv, B!Status
    <3>3. B!Existing' = B!Existing
      BY <3>2 DEF B!Existing
    <3> QED BY <3>1, <3>2, <3>3 DEF RowInv, ListSound, B!RowsBounded, B!At
  <2>4. ASSUME NEW u \in Users,
               \/ B!CreateBackup(u) \/ B!ListForDelete(u) \/ B!RequestStep(u)
               \/ \E b \in Ids : B!DeleteBackup(u, b)
        PROVE  RowInv'
    BY <2>4, RequestCounts
  <2>5. CASE \/ \E r \in Restores, b \in Ids : B!RestoreBackup(r, b)
             \/ \E r \in Restores : B!RestoreStep(r)
             \/ B!GameStep \/ B!UserStart \/ UNCHANGED B!vars
    BY <2>1, <2>5 DEF B!RestoreBackup, B!RestoreStep, B!RestoreSlot, B!StopForRestore, B!Load,
                      B!RestoreVolume, B!StartAfterRestore, B!GameStep, B!UserStart, B!vars
  <2> QED BY <2>2, <2>3, <2>4, <2>5 DEF B!Next
<1>3. RowInv => B!RowsBounded
  BY DEF RowInv
<1> QED BY <1>1, <1>2, <1>3, PTL DEF B!Spec
=============================================================================
