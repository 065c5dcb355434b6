--------------------------- MODULE GameserverRow ---------------------------
(* The row of one gameserver and the spec its LiveGameserver keeps in        *)
(* memory, under everything that writes them: requests (UpdateConfig,        *)
(* RegenerateSFTPPassword, InstallPack), the operation goroutine (start,     *)
(* stop, migrate) and the exit event of the process.  UpdateGameserver       *)
(* writes all columns of the row, whatever its caller has changed.           *)
(* Operations come one at a time; they may fail, but are not cut short:      *)
(* preemption and controllers that die in the middle of one are              *)
(* LiveGameserver's.  Writes of the row are taken to succeed.  An instance   *)
(* has the name of its gameserver for an id, so that all instances of one    *)
(* gameserver are the same to the table.                                     *)
EXTENDS Naturals

CONSTANTS Callers, Nodes, None,
          Requests,  \* the requests made: "config", "password", "pack"
          Overlap,   \* what may happen while a request is served: "requests", "ops", "exits"
          MaxReqs,   \* bound: requests
          MaxOps     \* bound: operations and restarts of the controller

VARIABLES row,      \* the row of the table
          spec,     \* LiveGameserver.spec
          req,      \* caller -> the request it is in
          op,       \* the operation goroutine
          running,  \* whether a process of the gameserver runs
          exited,   \* whether an exit event is under way
          lost,     \* what a failed call left behind: a recorded instance that never
                    \* ran ("start"), a process nobody recorded ("stop"), a volume
                    \* on a node the row does not name ("migrate")
          clear,    \* HandleProcessEvent has yet to clear instance_id in the table
          home,     \* the node that has the volume
          asked,    \* the env the last request to set it was for
          given,    \* the password RegenerateSFTPPassword returned last
          launch,   \* the env of the last launch, and the env asked for at the time
          reqs, ops

vars == <<row, spec, req, op, running, exited, lost, clear, home, asked, given, launch, reqs, ops>>

NoReq == [kind |-> "none", pc |-> "none", copy |-> None, new |-> 0, trigger |-> FALSE]
NoOp == [kind |-> "none", pc |-> "none", copy |-> None, arg |-> None]

Init ==
  /\ \E n \in Nodes :
       /\ row = [env |-> 0, pw |-> 0, installed |-> FALSE, node |-> n, inst |-> FALSE,
                 desired |-> "stopped"]
       /\ home = n
  /\ spec = row
  /\ req = [c \in Callers |-> NoReq]
  /\ op = NoOp
  /\ running = FALSE
  /\ exited = FALSE
  /\ lost = {}
  /\ clear = FALSE
  /\ asked = 0
  /\ given = 0
  /\ launch = [env |-> 0, asked |-> 0]
  /\ reqs = 0
  /\ ops = 0

Serving == \E c \in Callers : req[c] # NoReq
Busy == op # NoOp \/ exited \/ clear
MayOverlap(what) == what \in Overlap

-----------------------------------------------------------------------------
(* Requests.                                                                 *)

\* GetGameserver: a request works on its own copy of the row.
Read(c, kind, trigger) ==
  /\ kind \in Requests
  /\ reqs < MaxReqs
  /\ reqs' = reqs + 1
  /\ req[c] = NoReq
  /\ Serving => MayOverlap("requests")
  /\ Busy => MayOverlap("ops")
  /\ req' = [req EXCEPT ![c] = [kind |-> kind, pc |-> "write", copy |-> row, new |-> reqs + 1,
                                trigger |-> trigger]]
  /\ UNCHANGED <<row, spec, op, running, exited, lost, clear, home, asked, given, launch, ops>>

\* The env the caller asks for is merged into the copy, and the copy written.
UpdateConfig(c) ==
  LET copy == [req[c].copy EXCEPT !.env = req[c].new] IN
  /\ req[c].kind = "config" /\ req[c].pc = "write"
  /\ row' = copy
  /\ req' = [req EXCEPT ![c].copy = copy, ![c].pc = IF req[c].trigger THEN "installed" ELSE "swap"]
  /\ UNCHANGED <<spec, op, running, exited, lost, clear, home, asked, given, launch, reqs, ops>>

\* When a variable that triggers an install changed, the copy is written once
\* more with the flag cleared.
ClearInstalled(c) ==
  LET copy == [req[c].copy EXCEPT !.installed = FALSE] IN
  /\ req[c].pc = "installed"
  /\ row' = copy
  /\ req' = [req EXCEPT ![c].copy = copy, ![c].pc = "swap"]
  /\ UNCHANGED <<spec, op, running, exited, lost, clear, home, asked, given, launch, reqs, ops>>

\* Mutant: the flag does not reach the memory.
SwapSpecEnv(c) ==
  /\ req[c].pc = "swap"
  /\ spec' = [spec EXCEPT !.env = req[c].copy.env]
  /\ asked' = req[c].new
  /\ req' = [req EXCEPT ![c] = NoReq]
  /\ UNCHANGED <<row, op, running, exited, lost, clear, home, given, launch, reqs, ops>>

\* Mutant: the memory is left to the next restart.
SwapSpecLate(c) ==
  /\ req[c].pc = "swap"
  /\ asked' = req[c].new
  /\ req' = [req EXCEPT ![c] = NoReq]
  /\ UNCHANGED <<row, spec, op, running, exited, lost, clear, home, given, launch, reqs, ops>>

\* The copy becomes the spec, "wholesale".
SwapSpec(c) ==
  /\ req[c].pc = "swap"
  /\ spec' = req[c].copy
  /\ asked' = req[c].new
  /\ req' = [req EXCEPT ![c] = NoReq]
  /\ UNCHANGED <<row, op, running, exited, lost, clear, home, given, launch, reqs, ops>>

\* RegenerateSFTPPassword writes its copy with the new hash, ...
RegenerateSFTPPassword(c) ==
  /\ req[c].kind = "password" /\ req[c].pc = "write"
  /\ row' = [req[c].copy EXCEPT !.pw = req[c].new]
  /\ req' = [req EXCEPT ![c].pc = "set"]
  /\ UNCHANGED <<spec, op, running, exited, lost, clear, home, asked, given, launch, reqs, ops>>

\* Mutant: the memory keeps the old hash.
ReturnPassword(c) ==
  /\ req[c].pc = "set"
  /\ given' = req[c].new
  /\ req' = [req EXCEPT ![c] = NoReq]
  /\ UNCHANGED <<row, spec, op, running, exited, lost, clear, home, asked, launch, reqs, ops>>

\* ... sets it in the spec, and returns the password.
SetPassword(c) ==
  /\ req[c].pc = "set"
  /\ spec' = [spec EXCEPT !.pw = req[c].new]
  /\ given' = req[c].new
  /\ req' = [req EXCEPT ![c] = NoReq]
  /\ UNCHANGED <<row, op, running, exited, lost, clear, home, asked, launch, reqs, ops>>

\* InstallPack writes the pack's version and loader into the env of its copy;
\* the spec in memory is not told.
InstallPack(c) ==
  /\ req[c].kind = "pack" /\ req[c].pc = "write"
  /\ row' = [req[c].copy EXCEPT !.env = req[c].new]
  /\ asked' = req[c].new
  /\ req' = [req EXCEPT ![c] = NoReq]
  /\ UNCHANGED <<spec, op, running, exited, lost, clear, home, given, launch, reqs, ops>>

-----------------------------------------------------------------------------
(* Operations.                                                               *)

\* What an exit still has to write is written long before an operation that
\* begins after it gets to the table.
BeginOp(kind, pc, arg) ==
  /\ ops < MaxOps
  /\ ops' = ops + 1
  /\ ~Busy
  /\ Serving => MayOverlap("ops")
  /\ op' = [kind |-> kind, pc |-> pc, copy |-> None, arg |-> arg]

\* An operation that fails ends; setError only writes the reason.
OpFails == op' = NoOp

\* Start sets the wish in the spec and in its column; executeStart takes the
\* env for the instance.  It does nothing for a gameserver that runs.
Start ==
  /\ BeginOp("start", "clean", [env |-> spec.env, asked |-> asked])
  /\ ~(running /\ spec.inst)
  /\ spec' = [spec EXCEPT !.desired = "running"]
  /\ row' = [row EXCEPT !.desired = "running"]
  /\ UNCHANGED <<req, running, exited, lost, clear, home, asked, given, launch, reqs>>

\* The instance of an earlier start is forgotten, in the spec and in its
\* column, and the worker removes whatever has its name; whether that works is
\* not looked at.  The removed process's exit is reported like any other.
CleanUp ==
  /\ op.kind = "start" /\ op.pc = "clean"
  /\ spec' = [spec EXCEPT !.inst = FALSE]
  /\ row' = IF spec.inst THEN [row EXCEPT !.inst = FALSE] ELSE row
  /\ \/ running' = FALSE /\ exited' = (exited \/ running)
     \/ UNCHANGED <<running, exited>>
  /\ op' = [op EXCEPT !.pc = "install"]
  /\ UNCHANGED <<req, lost, clear, home, asked, given, launch, reqs, ops>>

\* The install phase, when the game is not installed; then the whole spec is
\* written.  What fails before, or the phase itself, ends the start.
Install ==
  /\ op.kind = "start" /\ op.pc = "install"
  /\ \/ /\ IF spec.installed THEN UNCHANGED <<spec, row>>
           ELSE spec' = [spec EXCEPT !.installed = TRUE] /\ row' = spec'
        /\ op' = [op EXCEPT !.pc = "create"]
     \/ OpFails /\ UNCHANGED <<row, spec>>
  /\ UNCHANGED <<req, running, exited, lost, clear, home, asked, given, launch, reqs, ops>>

\* The instance is created and named in the spec, which is written.
Create ==
  /\ op.kind = "start" /\ op.pc = "create"
  /\ \/ /\ spec' = [spec EXCEPT !.inst = TRUE]
        /\ row' = spec'
        /\ op' = [op EXCEPT !.pc = "run"]
     \/ OpFails /\ UNCHANGED <<row, spec>>
  /\ UNCHANGED <<req, running, exited, lost, clear, home, asked, given, launch, reqs, ops>>

\* When the worker cannot start it, the instance stays on record.
StartInstance ==
  /\ op.kind = "start" /\ op.pc = "run"
  /\ \/ running' = TRUE /\ launch' = op.arg /\ lost' = lost \ {"start"}
     \/ lost' = lost \cup {"start"} /\ UNCHANGED <<running, launch>>
  /\ op' = NoOp
  /\ UNCHANGED <<row, spec, req, exited, clear, home, asked, given, reqs, ops>>

\* doStop writes the wish with the whole spec, stops the instance the spec
\* names, ...
Stop ==
  /\ BeginOp("stop", "kill", None)
  /\ spec.inst
  /\ spec' = [spec EXCEPT !.desired = "stopped"]
  /\ row' = spec'
  /\ UNCHANGED <<req, running, exited, lost, clear, home, asked, given, launch, reqs>>

\* ... or not, when the worker's calls fail: their errors are logged ...
StopInstance ==
  /\ op.kind = "stop" /\ op.pc = "kill"
  /\ \/ /\ running' = FALSE /\ exited' = (exited \/ running)
        /\ lost' = lost \ {"start", "stop"}
     \/ /\ lost' = (lost \ {"start"}) \cup {"stop"}
        /\ UNCHANGED <<running, exited>>
  /\ op' = [op EXCEPT !.pc = "forget"]
  /\ UNCHANGED <<row, spec, req, clear, home, asked, given, launch, reqs, ops>>

\* ... and forgets it, and writes a copy of the spec after it has let go of the lock.
Forget ==
  /\ op.kind = "stop" /\ op.pc = "forget"
  /\ spec' = [spec EXCEPT !.inst = FALSE, !.desired = "stopped"]
  /\ op' = [op EXCEPT !.pc = "write", !.copy = spec']
  /\ UNCHANGED <<row, req, running, exited, lost, clear, home, asked, given, launch, reqs, ops>>

WriteStopped ==
  /\ op.kind = "stop" /\ op.pc = "write"
  /\ row' = op.copy
  /\ op' = NoOp
  /\ UNCHANGED <<spec, req, running, exited, lost, clear, home, asked, given, launch, reqs, ops>>

\* executeMigrate: the data is on the other node and the spec says so; then the
\* row is read, changed and written.  (That of a stopped gameserver; a process a
\* failed stop has left is not followed.)
Migrate(n) ==
  /\ BeginOp("migrate", "read", n)
  /\ ~spec.inst /\ ~running /\ n # home
  /\ home' = n
  /\ spec' = [spec EXCEPT !.node = n]
  /\ UNCHANGED <<row, req, running, exited, lost, clear, asked, given, launch, reqs>>

ReadMigrated ==
  /\ op.kind = "migrate" /\ op.pc = "read"
  /\ \/ op' = [op EXCEPT !.pc = "write", !.copy = row] /\ UNCHANGED lost
     \/ OpFails /\ lost' = lost \cup {"migrate"}
  /\ UNCHANGED <<row, spec, req, running, exited, clear, home, asked, given, launch, reqs, ops>>

\* Mutant: the row is written as it was read.
WriteMigratedStale ==
  /\ op.kind = "migrate" /\ op.pc = "write"
  /\ row' = op.copy
  /\ op' = NoOp
  /\ UNCHANGED <<spec, req, running, exited, lost, clear, home, asked, given, launch, reqs, ops>>

\* When the row can be neither read nor written the migration fails, and the
\* spec still names the new node.
WriteMigrated ==
  /\ op.kind = "migrate" /\ op.pc = "write"
  /\ \/ row' = [op.copy EXCEPT !.node = op.arg] /\ UNCHANGED lost
     \/ lost' = lost \cup {"migrate"} /\ UNCHANGED row
  /\ op' = NoOp
  /\ UNCHANGED <<spec, req, running, exited, clear, home, asked, given, launch, reqs, ops>>

-----------------------------------------------------------------------------
(* The process ends by itself.                                               *)

Exit ==
  /\ running /\ ~exited
  /\ Serving => MayOverlap("exits")
  /\ running' = FALSE
  /\ exited' = TRUE
  /\ UNCHANGED <<row, spec, req, op, lost, clear, home, asked, given, launch, reqs, ops>>


\* HandleProcessEvent forgets the instance if the spec names one.
HandleExit ==
  /\ exited
  /\ spec' = [spec EXCEPT !.inst = FALSE]
  /\ clear' = (clear \/ spec.inst)
  /\ exited' = FALSE
  /\ UNCHANGED <<row, req, op, running, lost, home, asked, given, launch, reqs, ops>>

\* SetInstanceID, after the lock is released; only the column is written.
SetInstanceID ==
  /\ clear
  /\ clear' = FALSE
  /\ row' = [row EXCEPT !.inst = FALSE]
  /\ UNCHANGED <<spec, req, op, running, exited, lost, home, asked, given, launch, reqs, ops>>

\* The controller is restarted at a quiet moment and loads the row.
Restart ==
  /\ ops < MaxOps
  /\ ops' = ops + 1
  /\ ~Serving /\ ~Busy
  /\ spec' = row
  /\ UNCHANGED <<row, req, op, running, exited, lost, clear, home, asked, given, launch, reqs>>

Next ==
  \/ \E c \in Callers :
       \/ \E kind \in Requests, trigger \in BOOLEAN : Read(c, kind, trigger)
       \/ UpdateConfig(c) \/ ClearInstalled(c) \/ SwapSpec(c)
       \/ RegenerateSFTPPassword(c) \/ SetPassword(c) \/ InstallPack(c)
  \/ Start \/ CleanUp \/ Install \/ Create \/ StartInstance
  \/ Stop \/ StopInstance \/ Forget \/ WriteStopped
  \/ \E n \in Nodes : Migrate(n)
  \/ ReadMigrated \/ WriteMigrated
  \/ Exit \/ HandleExit \/ SetInstanceID \/ Restart

Spec == Init /\ [][Next]_vars

-----------------------------------------------------------------------------
AtRest == ~Serving /\ ~Busy

\* Every variable has its type.
TypeOK ==
  LET Row == [env : 0 .. MaxReqs, pw : 0 .. MaxReqs, installed : BOOLEAN, node : Nodes,
              inst : BOOLEAN, desired : {"stopped", "running"}]
  IN /\ row \in Row /\ spec \in Row
     /\ home \in Nodes
     /\ running \in BOOLEAN /\ exited \in BOOLEAN /\ clear \in BOOLEAN
     /\ lost \subseteq {"start", "stop", "migrate"}

\* Whatever was done to the gameserver, with operations that fail and processes
\* that end at any point: at rest the memory and the table agree, so that a
\* restart of the controller changes nothing.  Only a migration whose last
\* write failed leaves them different.
RowMatchesSpec == AtRest /\ "migrate" \notin lost => row = spec

\* At rest there is an instance on record exactly when one runs, unless the
\* worker failed to start the recorded one, which another start or a stop puts
\* right, or failed to stop one, which only a later stop does.
InstanceTracked == AtRest /\ lost \cap {"start", "stop"} = {} => spec.inst = running

\* At rest memory and table name the node that has the volume.
NodeIsHome == AtRest /\ "migrate" \notin lost => spec.node = home /\ row.node = home

\* The password RegenerateSFTPPassword returned last is the one the SFTP server
\* finds in the table, whatever is written to the row afterwards.
PasswordWorks == AtRest => row.pw = given

\* A launch uses the env that was asked for last.
LaunchedAsAsked == launch.env = launch.asked
=============================================================================
