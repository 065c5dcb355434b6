--------------------------- MODULE LiveGameserver ---------------------------
(***************************************************************************)
(* The runtime object of one gameserver: LiveGameserver of                 *)
(* controller/gameserver, with the worker that hosts its instance and the  *)
(* stream of instance events between the two.                              *)
(*                                                                         *)
(* Threads of the controller:                                              *)
(*   - callers: API requests, and the goroutines that auto-restart spawns; *)
(*     they run Start/Stop/... up to and including submitOperation;        *)
(*   - operation goroutines, one per accepted operation, numbered in the   *)
(*     order of acceptance; the number also names the goroutine's context  *)
(*     (cancelOp) and its completion channel (opDone);                     *)
(*   - the event watcher of the worker, and the recovery goroutine that    *)
(*     runs when a worker (re)connects.                                    *)
(* One action is one critical section of g.mu, or one call to the worker   *)
(* or the store made outside it.                                           *)
(*                                                                         *)
(* The instance ID is the instance's fixed name (CreateInstance sets       *)
(* id = opts.Name), so a non-nil InstanceID has one possible value and     *)
(* "spec.instance" records only whether it is set.                         *)
(***************************************************************************)
EXTENDS Integers, Sequences, FiniteSets

CONSTANTS
  Callers,             \* API request threads
  Restarters,          \* threads for auto-restart goroutines
  Commands,            \* the operations API callers invoke
  AutoRestart,         \* the gameserver's auto_restart setting
  MaxRestartAttempts,  \* const maxRestartAttempts of HandleProcessEvent
  EventBuf,            \* capacity of the worker's event channel
  Faults,              \* worker calls may fail for reasons of their own
  RemoteWorker,        \* calls go through gRPC, which honours cancellation
  Patient,             \* a patient user: one call at a time, to a worker that is
                       \* connected, only Stop or Delete before all has settled,
                       \* and no Start of what is running
  MaxOps,              \* bound: operations ever submitted
  MaxCrashes,          \* bound: spontaneous process deaths
  MaxDrops,            \* bound: worker disconnects
  MaxReboots           \* bound: controller restarts

OpTypes == {"start", "stop", "restart", "update", "reinstall", "delete"}

ASSUME ConstAssumption ==
  /\ Commands \subseteq OpTypes
  /\ Callers \cap Restarters = {}
  /\ AutoRestart \in BOOLEAN /\ Faults \in BOOLEAN /\ RemoteWorker \in BOOLEAN
  /\ Patient \in BOOLEAN
  /\ MaxRestartAttempts \in Nat /\ EventBuf \in Nat /\ MaxOps \in Nat
  /\ MaxCrashes \in Nat /\ MaxDrops \in Nat /\ MaxReboots \in Nat

OpIds   == 1..MaxOps
NoOp    == 0
NoType  == "none"
Threads == Callers \cup Restarters

VARIABLES
  \* the guard of submitOperation
  operation,    \* type of the current operation, or NoType
  cancelOp,     \* context of the current operation, or NoOp
  opDone,       \* completion channel of the current operation, or NoOp
  nOps,         \* operations submitted so far
  opType,       \* type of each operation goroutine
  cancelledBy,  \* the operation types that cancelled each context
  closes,       \* how often each completion channel was closed
  call,         \* each caller's progress through submitOperation
  \* the operation goroutines
  pc, copy,
  \* spec and its copy in the database, the observed process, the worker
  \* reference, whether the database row exists, and the manager's map
  spec, db, processState, ready, crashCount, worker, row, listed,
  \* the worker: the instance and which process of it this is, the tracker's
  \* view of it, the processes whose exit watcher has yet to report, and the
  \* event channel
  inst, gen, track, trackReady, exiting, events,
  \* the event watcher's queued side effects and the recovery goroutine
  effects, recovery,
  \* what the environment has done so far
  crashes, drops, reboots, autoRestarts

guardVars  == <<operation, cancelOp, opDone, nOps, opType, cancelledBy, closes, call>>
bodyVars   == <<pc, copy>>
recVars    == <<spec, db>>
procVars   == <<processState, ready, crashCount>>
linkVars   == <<worker, row, listed>>
workerVars == <<inst, gen, track, trackReady, exiting, events>>
watchVars  == <<effects, recovery>>
envVars    == <<crashes, drops, reboots, autoRestarts>>
vars == <<guardVars, bodyVars, recVars, procVars, linkVars, workerVars, watchVars, envVars>>

SpecRecord == [desired: {"running", "stopped"}, instance: BOOLEAN,
               installed: BOOLEAN, error: BOOLEAN]
NoEffects  == [pending |-> FALSE, error |-> "keep", clearInstance |-> FALSE,
               restart |-> FALSE]
NoRecovery == [at |-> "idle", info |-> "none", wanted |-> FALSE, boot |-> FALSE]
IdleCall   == [at |-> "idle", type |-> NoType, cancel |-> NoOp, done |-> NoOp]

Init ==
  /\ operation = NoType /\ cancelOp = NoOp /\ opDone = NoOp /\ nOps = 0
  /\ opType = [o \in OpIds |-> NoType]
  /\ cancelledBy = [o \in OpIds |-> {}]
  /\ closes = [o \in OpIds |-> 0]
  /\ call = [t \in Threads |-> IdleCall]
  /\ pc = [o \in OpIds |-> "unused"]
  /\ \E i \in BOOLEAN :
       /\ spec = [desired |-> "stopped", instance |-> FALSE, installed |-> i, error |-> FALSE]
       /\ db = spec
  /\ copy = [o \in OpIds |-> spec]
  /\ processState = "none" /\ ready = FALSE /\ crashCount = 0
  /\ worker = TRUE /\ row = TRUE /\ listed = TRUE
  /\ inst = "none" /\ gen = 0 /\ track = "none" /\ trackReady = FALSE /\ exiting = {}
  /\ events = <<>>
  /\ effects = NoEffects /\ recovery = NoRecovery
  /\ crashes = 0 /\ drops = 0 /\ reboots = 0 /\ autoRestarts = 0

-----------------------------------------------------------------------------
(* Callers: the preempt-or-reject loop of submitOperation.                 *)

\* opPriority: an operation preempts what has strictly lower priority.
Priority(t) == CASE t = "stop" -> 1 [] t = "delete" -> 2 [] OTHER -> 0

\* Mutant: Stop waits for an event to clear its operation.
NothingClearsOnSuccess(t) == t \notin OpTypes

\* The operationOpts the lifecycle methods pass to submitOperation.
RequireWorker(t)  == t \notin {"stop", "delete"}
ErrorPrefix(t)    == t \in {"restart", "reinstall", "delete"}
ClearOnSuccess(t) == t = "stop"

\* Where the goroutine of an operation of type t begins.
Entry(t) == CASE t = "start" -> "prepare"
              [] t = "stop" -> "stopping"
              [] t = "delete" -> "teardown"
              [] OTHER -> "stopIf"

\* Every call in flight may still submit, so that no caller ever waits for
\* the bound on operations.
InFlight == {t \in Threads : call[t].at # "idle"}
Quiet    == events = <<>> /\ exiting = {} /\ ~effects.pending /\ recovery.at = "idle"

\* Nothing is under way: no operation, call, event or recovery.
Settled ==
  /\ InFlight = {} /\ Quiet /\ worker
  /\ \A o \in OpIds : pc[o] \in {"unused", "ended"}

MayCall(c, t) ==
  /\ t \in Commands
  /\ call[c].at = "idle"
  /\ listed /\ ~recovery.boot
  /\ nOps + Cardinality(InFlight) < MaxOps
  /\ Patient => worker /\ InFlight = {} /\ (Priority(t) = 0 => Settled /\ operation = NoType)
  /\ Patient /\ t = "start" => processState # "running"

EnterSubmit(c, t) ==
  call' = [call EXCEPT ![c] = [at |-> "submit", type |-> t, cancel |-> NoOp, done |-> NoOp]]

\* Mutant: Start leaves the desired state alone.
StartPrologueNoIntent(c) ==
  IF processState = "running" /\ ready
  THEN /\ call' = [call EXCEPT ![c] = IdleCall]
       /\ UNCHANGED <<spec, db, crashCount>>
  ELSE /\ EnterSubmit(c, "start")
       /\ spec' = [spec EXCEPT !.error = FALSE]
       /\ db' = [db EXCEPT !.error = FALSE]
       /\ crashCount' = 0

\* The critical section of Start that precedes submitOperation.  Start is a
\* no-op on a gameserver that is running and ready.
StartPrologue(c) ==
  IF processState = "running" /\ ready
  THEN /\ call' = [call EXCEPT ![c] = IdleCall]
       /\ UNCHANGED <<spec, db, crashCount>>
  ELSE /\ EnterSubmit(c, "start")
       /\ spec' = [spec EXCEPT !.desired = "running", !.error = FALSE]
       /\ db' = [db EXCEPT !.desired = "running", !.error = FALSE]
       /\ crashCount' = 0

CallStart(c) ==
  /\ MayCall(c, "start")
  /\ StartPrologue(c)
  /\ autoRestarts' = 0
  /\ UNCHANGED <<operation, cancelOp, opDone, nOps, opType, cancelledBy, closes,
                 bodyVars, processState, ready, linkVars, workerVars, watchVars,
                 crashes, drops, reboots>>

\* The goroutine spawned by applyProcessEventSideEffects calls g.Start.
AutoStart(c) ==
  /\ call[c].at = "spawned"
  /\ StartPrologue(c)
  /\ UNCHANGED <<operation, cancelOp, opDone, nOps, opType, cancelledBy, closes,
                 bodyVars, processState, ready, linkVars, workerVars, watchVars,
                 envVars>>

\* Stop returns at once when there is nothing to stop; the other methods go
\* straight to submitOperation.
CallOther(c, t) ==
  /\ MayCall(c, t)
  /\ t # "start"
  /\ t = "stop" => spec.instance \/ processState # "none" \/ operation # NoType
  /\ EnterSubmit(c, t)
  /\ UNCHANGED <<operation, cancelOp, opDone, nOps, opType, cancelledBy, closes,
                 bodyVars, recVars, procVars, linkVars, workerVars, watchVars, envVars>>

\* Mutant: the new operation keeps the completion channel it finds.
SubmitAcceptReusesChannel(c) ==
  /\ call[c].at = "submit"
  /\ operation = NoType
  /\ RequireWorker(call[c].type) => worker
  /\ nOps < MaxOps
  /\ nOps' = nOps + 1
  /\ operation' = call[c].type
  /\ cancelOp' = nOps + 1
  /\ opDone' = IF opDone = NoOp THEN nOps + 1 ELSE opDone
  /\ opType' = [opType EXCEPT ![nOps + 1] = call[c].type]
  /\ pc' = [pc EXCEPT ![nOps + 1] = Entry(call[c].type)]
  /\ call' = [call EXCEPT ![c] = IdleCall]
  /\ UNCHANGED <<cancelledBy, closes, copy, recVars, procVars, linkVars, workerVars,
                 watchVars, envVars>>

SubmitAccept(c) ==
  /\ call[c].at = "submit"
  /\ operation = NoType
  /\ RequireWorker(call[c].type) => worker
  /\ nOps < MaxOps
  /\ nOps' = nOps + 1
  /\ operation' = call[c].type
  /\ cancelOp' = nOps + 1
  /\ opDone' = nOps + 1
  /\ opType' = [opType EXCEPT ![nOps + 1] = call[c].type]
  /\ pc' = [pc EXCEPT ![nOps + 1] = Entry(call[c].type)]
  /\ call' = [call EXCEPT ![c] = IdleCall]
  /\ UNCHANGED <<cancelledBy, closes, copy, recVars, procVars, linkVars, workerVars,
                 watchVars, envVars>>

SubmitReject(c) ==
  /\ call[c].at = "submit"
  /\ \/ operation # NoType /\ Priority(call[c].type) <= Priority(operation)
     \/ operation = NoType /\ RequireWorker(call[c].type) /\ ~worker
  /\ call' = [call EXCEPT ![c] = IdleCall]
  /\ UNCHANGED <<operation, cancelOp, opDone, nOps, opType, cancelledBy, closes,
                 bodyVars, recVars, procVars, linkVars, workerVars, watchVars, envVars>>

\* Capture cancelOp and opDone under the lock ...
SubmitPreempt(c) ==
  /\ call[c].at = "submit"
  /\ operation # NoType
  /\ Priority(call[c].type) > Priority(operation)
  /\ call' = [call EXCEPT ![c] = [at |-> "cancel", type |-> call[c].type,
                                  cancel |-> cancelOp, done |-> opDone]]
  /\ UNCHANGED <<operation, cancelOp, opDone, nOps, opType, cancelledBy, closes,
                 bodyVars, recVars, procVars, linkVars, workerVars, watchVars, envVars>>

\* Mutant: cancel whatever cancelOp holds after the lock was released.
CancelCurrent(c) ==
  /\ call[c].at = "cancel"
  /\ cancelledBy' = IF cancelOp = NoOp THEN cancelledBy
                    ELSE [cancelledBy EXCEPT ![cancelOp] = @ \cup {call[c].type}]
  /\ call' = [call EXCEPT ![c].at = "wait"]
  /\ UNCHANGED <<operation, cancelOp, opDone, nOps, opType, closes,
                 bodyVars, recVars, procVars, linkVars, workerVars, watchVars, envVars>>

\* ... cancel the captured context without it ...
CancelCaptured(c) ==
  /\ call[c].at = "cancel"
  /\ cancelledBy' = IF call[c].cancel = NoOp THEN cancelledBy
                    ELSE [cancelledBy EXCEPT ![call[c].cancel] = @ \cup {call[c].type}]
  /\ call' = [call EXCEPT ![c].at = "wait"]
  /\ UNCHANGED <<operation, cancelOp, opDone, nOps, opType, closes,
                 bodyVars, recVars, procVars, linkVars, workerVars, watchVars, envVars>>

\* ... and wait for the captured channel, if there was one, before looking again.
WaitDone(c) ==
  /\ call[c].at = "wait"
  /\ call[c].done # NoOp => closes[call[c].done] > 0
  /\ EnterSubmit(c, call[c].type)
  /\ UNCHANGED <<operation, cancelOp, opDone, nOps, opType, cancelledBy, closes,
                 bodyVars, recVars, procVars, linkVars, workerVars, watchVars, envVars>>

-----------------------------------------------------------------------------
(* How an operation goroutine ends.                                        *)

At(o, l)   == pc[o] = l
Goto(o, l) == pc' = [pc EXCEPT ![o] = l]
Cancelled(o) == cancelledBy[o] # {}

\* setError: the reason goes to spec, to the store and to the bus.
SetError ==
  /\ spec' = [spec EXCEPT !.error = TRUE]
  /\ db' = [db EXCEPT !.error = TRUE]

\* fn returned an error.
OpFailed(o) ==
  /\ At(o, "failed")
  /\ Goto(o, "clear")
  /\ IF ~Cancelled(o) /\ ErrorPrefix(opType[o]) THEN SetError ELSE UNCHANGED recVars
  /\ UNCHANGED <<guardVars, copy, procVars, linkVars, workerVars, watchVars, envVars>>

\* fn returned nil: Stop clears the operation, the others leave it to the
\* ready event.
Succeed(o) == Goto(o, IF ClearOnSuccess(opType[o]) THEN "clear" ELSE "deferred")

ClearOperation(o) ==
  /\ At(o, "clear")
  /\ operation' = NoType
  /\ Goto(o, "deferred")
  /\ UNCHANGED <<cancelOp, opDone, nOps, opType, cancelledBy, closes, call, copy,
                 recVars, procVars, linkVars, workerVars, watchVars, envVars>>

\* Mutant: a goroutine that finds no channel closes the one it was given.
DeferredFallsBackToOwn(o) ==
  /\ At(o, "deferred")
  /\ cancelOp' = NoOp
  /\ opDone' = NoOp
  /\ closes' = [closes EXCEPT ![IF opDone = NoOp THEN o ELSE opDone] = @ + 1]
  /\ Goto(o, "ended")
  /\ UNCHANGED <<operation, nOps, opType, cancelledBy, call, copy,
                 recVars, procVars, linkVars, workerVars, watchVars, envVars>>

\* Mutant: opDone is reset but the channel is not closed.
DeferredForgetsClose(o) ==
  /\ At(o, "deferred")
  /\ cancelOp' = NoOp
  /\ opDone' = NoOp
  /\ Goto(o, "ended")
  /\ UNCHANGED <<operation, nOps, opType, cancelledBy, closes, call, copy,
                 recVars, procVars, linkVars, workerVars, watchVars, envVars>>

\* The deferred function: it resets whatever cancelOp and opDone hold now and
\* closes the channel it found.
Deferred(o) ==
  /\ At(o, "deferred")
  /\ cancelOp' = NoOp
  /\ opDone' = NoOp
  /\ closes' = IF opDone = NoOp THEN closes ELSE [closes EXCEPT ![opDone] = @ + 1]
  /\ Goto(o, "ended")
  /\ UNCHANGED <<operation, nOps, opType, cancelledBy, call, copy,
                 recVars, procVars, linkVars, workerVars, watchVars, envVars>>

-----------------------------------------------------------------------------
(* The worker as the controller calls it.                                  *)

\* A call that watches its context may report an error ...
CallMayFail(o) == Faults \/ Cancelled(o) \/ ~worker

\* ... whereas CreateInstance, StartInstance and RemoveInstance ignore theirs on
\* a local worker.  gRPC gives up on a cancelled call, which the worker may
\* have seen or not.
CallMayBeLost(o) == Faults \/ ~worker \/ (RemoteWorker /\ Cancelled(o))

\* emit drops the update when the channel is full.  An update carries the
\* instance's name, ready flag and state, and not the process it is about:
\* "gen" is there for the properties only.
Emit(e, g) == IF Len(events) < EventBuf THEN Append(events, [state |-> e, gen |-> g]) ELSE events

NoWorkerEffect == UNCHANGED workerVars

CreateInstance ==
  /\ inst' = IF inst = "none" THEN "created" ELSE inst
  /\ UNCHANGED <<gen, track, trackReady, exiting, events>>

\* Track, SetState(running) and the exit watcher of a new process.
StartInstance ==
  /\ inst \in {"created", "exited"}
  /\ inst' = "running" /\ gen' = gen + 1
  /\ track' = "running" /\ trackReady' = FALSE
  /\ events' = Emit("running", gen + 1)
  /\ UNCHANGED exiting

\* The process is gone when StopInstance returns; its exit watcher has yet to
\* tell the tracker.
StopInstance ==
  /\ inst' = IF inst = "running" THEN "exited" ELSE inst
  /\ exiting' = IF inst = "running" THEN exiting \cup {gen} ELSE exiting
  /\ UNCHANGED <<gen, track, trackReady, events>>

\* RemoveInstance kills a running process; the exit watcher reaches the
\* tracker before or after tracker.Remove.
RemoveInstance ==
  /\ inst' = "none" /\ track' = "none" /\ trackReady' = FALSE
  /\ \/ inst # "running" /\ UNCHANGED <<exiting, events>>
     \/ inst = "running" /\ exiting' = exiting \cup {gen} /\ UNCHANGED events
     \/ inst = "running" /\ events' = Emit("exited", gen) /\ UNCHANGED exiting
  /\ UNCHANGED gen

(* The worker's own steps.                                                 *)

ProcessCrash ==
  /\ inst = "running" /\ crashes < MaxCrashes
  /\ inst' = "exited"
  /\ exiting' = exiting \cup {gen}
  /\ crashes' = crashes + 1
  /\ UNCHANGED <<guardVars, bodyVars, recVars, procVars, linkVars, gen, track, trackReady,
                 events, watchVars, drops, reboots, autoRestarts>>

\* Mutant: the tracker learns of the exit and tells nobody.
SetExitedSilently(g) ==
  /\ g \in exiting
  /\ exiting' = exiting \ {g}
  /\ track' = IF track = "none" THEN track ELSE "exited"
  /\ UNCHANGED <<guardVars, bodyVars, recVars, procVars, linkVars, inst, gen, trackReady,
                 events, watchVars, envVars>>

\* An exit watcher calls SetExited, which finds the tracked instance by name.
SetExited(g) ==
  /\ g \in exiting
  /\ exiting' = exiting \ {g}
  /\ IF track = "none" THEN UNCHANGED <<track, events>>
     ELSE track' = "exited" /\ events' = Emit("exited", g)
  /\ UNCHANGED <<guardVars, bodyVars, recVars, procVars, linkVars, inst, gen, trackReady,
                 watchVars, envVars>>

\* The log watcher sees the ready pattern.
SetReady ==
  /\ inst = "running" /\ track = "running" /\ ~trackReady
  /\ trackReady' = TRUE
  /\ events' = Emit("ready", gen)
  /\ UNCHANGED <<guardVars, bodyVars, recVars, procVars, linkVars, inst, gen, track, exiting,
                 watchVars, envVars>>

-----------------------------------------------------------------------------
(* executeStart.                                                           *)

\* Depot and image, each followed by a check of the context.
Prepare(o) ==
  /\ At(o, "prepare")
  /\ \/ worker /\ ~Cancelled(o) /\ Goto(o, "scripts") /\ UNCHANGED recVars
     \/ CallMayFail(o) /\ SetError /\ Goto(o, "failed")
     \/ Cancelled(o) /\ Goto(o, "failed") /\ UNCHANGED recVars
  /\ UNCHANGED <<guardVars, copy, procVars, linkVars, workerVars, watchVars, envVars>>

\* Scripts, depot copy and mod reconciliation, with no check of the context.
Scripts(o) ==
  /\ At(o, "scripts")
  /\ \/ Goto(o, "cleanup") /\ UNCHANGED recVars
     \/ CallMayFail(o) /\ SetError /\ Goto(o, "failed")
  /\ UNCHANGED <<guardVars, copy, procVars, linkVars, workerVars, watchVars, envVars>>

\* Forget the previous instance, in memory ...
Cleanup(o) ==
  /\ At(o, "cleanup")
  /\ spec' = [spec EXCEPT !.instance = FALSE]
  /\ Goto(o, IF spec.instance THEN "forgetOld" ELSE "removeOld")
  /\ UNCHANGED <<guardVars, copy, db, procVars, linkVars, workerVars, watchVars, envVars>>

\* ... and in the store ...
ForgetOld(o) ==
  /\ At(o, "forgetOld")
  /\ db' = [db EXCEPT !.instance = FALSE]
  /\ Goto(o, "removeOld")
  /\ UNCHANGED <<guardVars, copy, spec, procVars, linkVars, workerVars, watchVars, envVars>>

\* ... and remove it from the worker, by ID and by name.
RemoveOld(o) ==
  /\ At(o, "removeOld")
  /\ RemoveInstance \/ (CallMayBeLost(o) /\ NoWorkerEffect)
  /\ Goto(o, "install")
  /\ UNCHANGED <<guardVars, copy, recVars, procVars, linkVars, watchVars, envVars>>

\* The install instance has a name of its own, so its events are ignored.
Install(o) ==
  /\ At(o, "install")
  /\ \/ spec.installed /\ Goto(o, "create") /\ UNCHANGED recVars
     \/ /\ ~spec.installed
        /\ spec' = [spec EXCEPT !.installed = TRUE]
        /\ db' = spec'
        /\ Goto(o, "create")
     \/ ~spec.installed /\ CallMayFail(o) /\ SetError /\ Goto(o, "failed")
  /\ UNCHANGED <<guardVars, copy, procVars, linkVars, workerVars, watchVars, envVars>>

Create(o) ==
  /\ At(o, "create")
  /\ \/ Cancelled(o) /\ Goto(o, "failed") /\ UNCHANGED recVars /\ NoWorkerEffect
     \/ ~Cancelled(o) /\ CreateInstance /\ Goto(o, "adopt") /\ UNCHANGED recVars
     \/ /\ ~Cancelled(o) /\ CallMayBeLost(o)
        /\ SetError /\ Goto(o, "failed")
        /\ CreateInstance \/ NoWorkerEffect
  /\ UNCHANGED <<guardVars, copy, procVars, linkVars, watchVars, envVars>>

\* Mutant: the instance is recorded in memory only.
AdoptInMemory(o) ==
  /\ At(o, "adopt")
  /\ \/ /\ Cancelled(o)
        /\ Goto(o, "failed")
        /\ RemoveInstance \/ ((Faults \/ ~worker) /\ NoWorkerEffect)
        /\ UNCHANGED recVars
     \/ /\ ~Cancelled(o)
        /\ spec' = [spec EXCEPT !.instance = TRUE]
        /\ Goto(o, "launch")
        /\ NoWorkerEffect
        /\ UNCHANGED db
  /\ UNCHANGED <<guardVars, copy, procVars, linkVars, watchVars, envVars>>

\* A cancelled start removes what it created, with a context of its own;
\* otherwise the instance is recorded, in memory and in the store, before it
\* is started.
Adopt(o) ==
  /\ At(o, "adopt")
  /\ \/ /\ Cancelled(o)
        /\ Goto(o, "failed")
        /\ RemoveInstance \/ ((Faults \/ ~worker) /\ NoWorkerEffect)
        /\ UNCHANGED recVars
     \/ /\ ~Cancelled(o)
        /\ spec' = [spec EXCEPT !.instance = TRUE]
        /\ db' = spec'
        /\ Goto(o, "launch")
        /\ NoWorkerEffect
  /\ UNCHANGED <<guardVars, copy, procVars, linkVars, watchVars, envVars>>

Launch(o) ==
  /\ At(o, "launch")
  /\ \/ StartInstance /\ Succeed(o) /\ UNCHANGED recVars
     \/ StartInstance /\ CallMayBeLost(o) /\ SetError /\ Goto(o, "failed")
     \/ /\ CallMayBeLost(o) \/ inst \notin {"created", "exited"}
        /\ NoWorkerEffect /\ SetError /\ Goto(o, "failed")
  /\ UNCHANGED <<guardVars, copy, procVars, linkVars, watchVars, envVars>>

-----------------------------------------------------------------------------
(* doStop, and stopIfRunning of Restart, Update and Reinstall.             *)

\* Mutant: the ready flag outlives the process.
ClearProcessKeepsReady == processState' = "none" /\ UNCHANGED ready

ClearProcess == processState' = "none" /\ ready' = FALSE

\* Mutant: the instance is forgotten before it is stopped.
DoStopForgetsFirst(o) ==
  /\ At(o, "stopping")
  /\ spec' = [spec EXCEPT !.desired = "stopped", !.instance = FALSE]
  /\ db' = spec'
  /\ Goto(o, IF spec.instance /\ worker THEN "stopInst" ELSE "stopped")
  /\ UNCHANGED <<guardVars, copy, procVars, linkVars, workerVars, watchVars, envVars>>

\* doStop flips the desired state before it touches the worker.
DoStop(o) ==
  /\ At(o, "stopping")
  /\ spec' = [spec EXCEPT !.desired = "stopped"]
  /\ db' = spec'
  /\ Goto(o, IF spec.instance /\ worker THEN "stopInst" ELSE "stopped")
  /\ UNCHANGED <<guardVars, copy, procVars, linkVars, workerVars, watchVars, envVars>>

\* stopIfRunning leaves the desired state alone.
StopIfRunning(o) ==
  /\ At(o, "stopIf")
  /\ Goto(o, IF spec.instance /\ worker THEN "stopInst" ELSE "stoppedIf")
  /\ UNCHANGED <<guardVars, copy, recVars, procVars, linkVars, workerVars, watchVars, envVars>>

\* stopInstanceOnWorker: errors are swallowed.
StopOnWorker(o) ==
  /\ At(o, "stopInst")
  /\ StopInstance \/ (CallMayFail(o) /\ NoWorkerEffect)
  /\ Goto(o, "removeInst")
  /\ UNCHANGED <<guardVars, copy, recVars, procVars, linkVars, watchVars, envVars>>

RemoveOnWorker(o) ==
  /\ At(o, "removeInst")
  /\ RemoveInstance \/ (CallMayBeLost(o) /\ NoWorkerEffect)
  /\ Goto(o, IF opType[o] = "stop" THEN "stopped" ELSE "forget")
  /\ UNCHANGED <<guardVars, copy, recVars, procVars, linkVars, watchVars, envVars>>

\* The second critical section of doStop; the copy it takes is saved later.
Stopped(o) ==
  /\ At(o, "stopped")
  /\ spec' = [spec EXCEPT !.instance = FALSE, !.desired = "stopped", !.error = FALSE]
  /\ ClearProcess
  /\ copy' = [copy EXCEPT ![o] = spec']
  /\ Goto(o, "saveStopped")
  /\ UNCHANGED <<guardVars, db, crashCount, linkVars, workerVars, watchVars, envVars>>

SaveStopped(o) ==
  /\ At(o, "saveStopped")
  /\ db' = copy[o]
  /\ Succeed(o)
  /\ UNCHANGED <<guardVars, copy, spec, procVars, linkVars, workerVars, watchVars, envVars>>

Forget(o) ==
  /\ At(o, "forget")
  /\ spec' = [spec EXCEPT !.instance = FALSE]
  /\ ClearProcess
  /\ Goto(o, "saveForget")
  /\ UNCHANGED <<guardVars, copy, db, crashCount, linkVars, workerVars, watchVars, envVars>>

SaveForget(o) ==
  /\ At(o, "saveForget")
  /\ db' = [db EXCEPT !.instance = FALSE]
  /\ Goto(o, "stoppedIf")
  /\ UNCHANGED <<guardVars, copy, spec, procVars, linkVars, workerVars, watchVars, envVars>>

\* What Restart, UpdateServerGame and Reinstall do between stop and start.
AfterStop(o) ==
  /\ At(o, "stoppedIf")
  /\ \/ opType[o] = "restart" /\ Goto(o, "prepare") /\ UNCHANGED recVars
     \* executeUpdateGame: image, scripts and the update instance
     \/ opType[o] = "update" /\ worker /\ Goto(o, "prepare") /\ UNCHANGED recVars
     \/ opType[o] = "update" /\ CallMayFail(o) /\ SetError /\ Goto(o, "failed")
     \* executeReinstall: mark as not installed before the volume is wiped
     \/ /\ opType[o] = "reinstall" /\ worker
        /\ spec' = [spec EXCEPT !.installed = FALSE]
        /\ db' = spec'
        /\ Goto(o, "wipe")
     \/ opType[o] = "reinstall" /\ ~worker /\ SetError /\ Goto(o, "failed")
  /\ UNCHANGED <<guardVars, copy, procVars, linkVars, workerVars, watchVars, envVars>>

WipeVolume(o) ==
  /\ At(o, "wipe")
  /\ \/ Goto(o, "prepare") /\ UNCHANGED recVars
     \/ CallMayFail(o) /\ SetError /\ Goto(o, "failed")
  /\ UNCHANGED <<guardVars, copy, procVars, linkVars, workerVars, watchVars, envVars>>

-----------------------------------------------------------------------------
(* executeDelete.                                                          *)

\* Mutant: the teardown deletes the volume and leaves the instance alone.
TeardownVolumeOnly(o) ==
  /\ At(o, "teardown")
  /\ Goto(o, IF row THEN "deleteRow" ELSE "finish")
  /\ NoWorkerEffect
  /\ UNCHANGED <<guardVars, copy, recVars, procVars, linkVars, watchVars, envVars>>

\* Worker teardown, skipped when the row is gone or the worker is offline.
Teardown(o) ==
  /\ At(o, "teardown")
  /\ \/ ~row /\ Goto(o, "finish") /\ NoWorkerEffect
     \/ row /\ worker /\ RemoveInstance /\ Goto(o, "deleteRow")
     \/ row /\ CallMayBeLost(o) /\ NoWorkerEffect /\ Goto(o, "deleteRow")
  /\ UNCHANGED <<guardVars, copy, recVars, procVars, linkVars, watchVars, envVars>>

\* The row is deleted once: a second delete fails.
DeleteRow(o) ==
  /\ At(o, "deleteRow")
  /\ row' = FALSE
  /\ Goto(o, IF row THEN "finish" ELSE "failed")
  /\ UNCHANGED <<guardVars, copy, recVars, procVars, worker, listed, workerVars, watchVars,
                 envVars>>

\* onFinish of Manager.Delete drops the object from the manager's map; the
\* operation stays set.
FinishDelete(o) ==
  /\ At(o, "finish")
  /\ listed' = FALSE
  /\ Goto(o, "deferred")
  /\ UNCHANGED <<guardVars, copy, recVars, procVars, worker, row, workerVars, watchVars,
                 envVars>>

-----------------------------------------------------------------------------
(* HandleProcessEvent, on the worker's event watcher.  The store is written*)
(* after the lock is released (applyProcessEventSideEffects).              *)

NextEvent == worker /\ ~recovery.boot /\ ~effects.pending /\ events # <<>>

\* RouteProcessEvent finds no object, or the object has no instance.
EventIgnored ==
  /\ NextEvent
  /\ ~listed \/ ~spec.instance
  /\ events' = Tail(events)
  /\ UNCHANGED <<guardVars, bodyVars, recVars, procVars, linkVars, inst, gen, track,
                 trackReady, exiting, watchVars, envVars>>

\* Mutant: the worker's state is stored as it came.
EventRunningRaw ==
  /\ NextEvent /\ listed /\ spec.instance
  /\ Head(events).state \in {"running", "ready"}
  /\ events' = Tail(events)
  /\ processState' = Head(events).state
  /\ ready' = (Head(events).state = "ready")
  /\ operation' = IF ready' /\ ~ready THEN NoType ELSE operation
  /\ spec' = [spec EXCEPT !.error = FALSE]
  /\ effects' = IF spec.error THEN [NoEffects EXCEPT !.pending = TRUE, !.error = "clear"]
                ELSE effects
  /\ UNCHANGED <<cancelOp, opDone, nOps, opType, cancelledBy, closes, call, bodyVars, db,
                 crashCount, linkVars, inst, gen, track, trackReady, exiting, recovery, envVars>>

\* StateRunning.  Becoming ready completes whatever operation is current.
EventRunning ==
  /\ NextEvent /\ listed /\ spec.instance
  /\ Head(events).state \in {"running", "ready"}
  /\ events' = Tail(events)
  /\ processState' = "running"
  /\ ready' = (Head(events).state = "ready")
  /\ operation' = IF ready' /\ ~ready THEN NoType ELSE operation
  /\ spec' = [spec EXCEPT !.error = FALSE]
  /\ effects' = IF spec.error THEN [NoEffects EXCEPT !.pending = TRUE, !.error = "clear"]
                ELSE effects
  /\ UNCHANGED <<cancelOp, opDone, nOps, opType, cancelledBy, closes, call, bodyVars, db,
                 crashCount, linkVars, inst, gen, track, trackReady, exiting, recovery, envVars>>

\* A crash: the exit of a gameserver that should be running.
IsCrash ==
  /\ spec.desired = "running" /\ operation # "delete"
  /\ processState = "running" \/ operation # NoType

RestartsLeft == AutoRestart /\ crashCount + 1 <= MaxRestartAttempts

\* StateExited.  Whatever operation is current is over, and so is the instance.
EventExited ==
  /\ NextEvent /\ listed /\ spec.instance
  /\ Head(events).state = "exited"
  /\ events' = Tail(events)
  /\ operation' = NoType
  /\ ready' = FALSE
  /\ processState' = IF IsCrash /\ RestartsLeft THEN "none" ELSE "exited"
  /\ crashCount' = IF IsCrash /\ AutoRestart THEN crashCount + 1 ELSE crashCount
  /\ spec' = [spec EXCEPT !.instance = FALSE, !.error = IF IsCrash THEN ~RestartsLeft ELSE @]
  /\ effects' = [pending |-> TRUE, clearInstance |-> TRUE,
                 error |-> IF ~IsCrash THEN "keep" ELSE IF RestartsLeft THEN "clear" ELSE "set",
                 restart |-> IsCrash /\ RestartsLeft]
  /\ UNCHANGED <<cancelOp, opDone, nOps, opType, cancelledBy, closes, call, bodyVars, db,
                 linkVars, inst, gen, track, trackReady, exiting, recovery, envVars>>

\* applyProcessEventSideEffects, with the goroutine that auto-restart spawns.
ApplyEffects ==
  /\ effects.pending
  /\ effects' = NoEffects
  /\ db' = [db EXCEPT !.instance = IF effects.clearInstance THEN FALSE ELSE @,
                      !.error = CASE effects.error = "set" -> TRUE
                                  [] effects.error = "clear" -> FALSE
                                  [] OTHER -> @]
  /\ IF effects.restart
     THEN /\ \E c \in Restarters :
               /\ call[c].at = "idle"
               /\ call' = [call EXCEPT ![c].at = "spawned"]
          /\ autoRestarts' = autoRestarts + 1
     ELSE UNCHANGED <<call, autoRestarts>>
  /\ UNCHANGED <<operation, cancelOp, opDone, nOps, opType, cancelledBy, closes, bodyVars,
                 spec, procVars, linkVars, workerVars, recovery, crashes, drops, reboots>>

-----------------------------------------------------------------------------
(* Worker connections and recovery (Manager).                              *)

\* The updates in flight on a broken stream are lost.
LoseInFlight(n) == events' = SubSeq(events, n + 1, Len(events))

\* handleStreamBreak finds the worker reachable and watches it again.
StreamBreak ==
  /\ worker /\ drops < MaxDrops
  /\ \E n \in 1..Len(events) : LoseInFlight(n)
  /\ drops' = drops + 1
  /\ UNCHANGED <<guardVars, bodyVars, recVars, procVars, linkVars, inst, gen, track,
                 trackReady, exiting, watchVars, crashes, reboots, autoRestarts>>

OnWorkerOffline ==
  /\ worker /\ ~recovery.boot /\ drops < MaxDrops
  /\ worker' = FALSE
  /\ ClearProcess
  /\ \E n \in 0..Len(events) : LoseInFlight(n)
  /\ drops' = drops + 1
  /\ UNCHANGED <<guardVars, bodyVars, recVars, crashCount, row, listed, inst, gen, track,
                 trackReady, exiting, watchVars, crashes, reboots, autoRestarts>>

\* One recovery at a time.
OnWorkerOnline ==
  /\ ~worker /\ recovery.at = "idle"
  /\ worker' = TRUE
  /\ recovery' = IF listed /\ spec.instance THEN [NoRecovery EXCEPT !.at = "inspect"]
                 ELSE recovery
  /\ UNCHANGED <<guardVars, bodyVars, recVars, procVars, row, listed, workerVars, effects,
                 envVars>>

\* What InspectInstance may answer; any error is taken for a missing instance.
Inspections ==
  {CASE inst = "running" -> "running" [] inst = "exited" -> "exited" [] OTHER -> "missing"}
    \cup (IF Faults \/ ~worker THEN {"missing"} ELSE {})

\* recoverGameserver reads the instance ID and inspects the instance ...
RecoverInspect ==
  /\ recovery.at = "inspect"
  /\ \/ /\ spec.instance
        /\ \E i \in Inspections :
             recovery' = [recovery EXCEPT !.at = "apply", !.info = i,
                                          !.wanted = (spec.desired = "running")]
        /\ UNCHANGED <<recVars, processState, ready>>
     \/ /\ ~spec.instance
        /\ recovery' = NoRecovery
        /\ IF spec.desired = "running" THEN SetError /\ UNCHANGED <<processState, ready>>
           ELSE ClearProcess /\ UNCHANGED recVars
  /\ UNCHANGED <<guardVars, bodyVars, crashCount, linkVars, workerVars, effects, envVars>>

\* ... and applies what it saw, whatever has happened since.
RecoverApply ==
  /\ recovery.at = "apply"
  /\ IF recovery.info = "running"
     THEN /\ processState' = "running" /\ ready' = TRUE
          /\ recovery' = NoRecovery
          /\ UNCHANGED spec
     ELSE /\ processState' = IF recovery.info = "exited" THEN "exited" ELSE "none"
          /\ ready' = FALSE
          /\ spec' = [spec EXCEPT !.instance = FALSE]
          /\ recovery' = [recovery EXCEPT !.at = "save"]
  /\ UNCHANGED <<guardVars, bodyVars, db, crashCount, linkVars, workerVars, effects, envVars>>

RecoverSave ==
  /\ recovery.at = "save"
  /\ recovery' = NoRecovery
  /\ spec' = [spec EXCEPT !.error = recovery.wanted \/ @]
  /\ db' = [db EXCEPT !.instance = FALSE, !.error = recovery.wanted \/ @]
  /\ UNCHANGED <<guardVars, bodyVars, procVars, linkVars, workerVars, effects, envVars>>

\* The controller dies with all its threads and comes back from the database.
\* RecoverAll finds the worker connected already, and then recovers under the
\* manager's lock before any request or event is served, or leaves it to
\* OnWorkerOnline.
ControllerRestart ==
  /\ reboots < MaxReboots
  /\ reboots' = reboots + 1
  /\ spec' = db /\ listed' = row
  /\ \E connected \in BOOLEAN :
       /\ worker' = connected
       /\ recovery' = IF connected /\ row THEN [NoRecovery EXCEPT !.at = "inspect", !.boot = TRUE]
                      ELSE NoRecovery
  /\ ClearProcess /\ crashCount' = 0
  /\ operation' = NoType /\ cancelOp' = NoOp /\ opDone' = NoOp
  /\ call' = [t \in Threads |-> IdleCall]
  /\ pc' = [o \in OpIds |-> IF pc[o] = "unused" THEN "unused" ELSE "ended"]
  /\ \E n \in 0..Len(events) : LoseInFlight(n)
  /\ effects' = NoEffects
  /\ autoRestarts' = 0
  /\ UNCHANGED <<nOps, opType, cancelledBy, closes, copy, db, row, inst, gen, track,
                 trackReady, exiting, crashes, drops>>

-----------------------------------------------------------------------------
CallerStep(c) ==
  \/ AutoStart(c) \/ SubmitAccept(c) \/ SubmitReject(c) \/ SubmitPreempt(c)
  \/ CancelCaptured(c) \/ WaitDone(c)

StartStep(o) ==
  \/ Prepare(o) \/ Scripts(o) \/ Cleanup(o) \/ ForgetOld(o) \/ RemoveOld(o) \/ Install(o)
  \/ Create(o) \/ Adopt(o) \/ Launch(o)

StopStep(o) ==
  \/ DoStop(o) \/ StopIfRunning(o) \/ StopOnWorker(o) \/ RemoveOnWorker(o)
  \/ Stopped(o) \/ SaveStopped(o) \/ Forget(o) \/ SaveForget(o)
  \/ AfterStop(o) \/ WipeVolume(o)

DeleteStep(o) == Teardown(o) \/ DeleteRow(o) \/ FinishDelete(o)

EndStep(o) == OpFailed(o) \/ ClearOperation(o) \/ Deferred(o)

GoroutineStep(o) == StartStep(o) \/ StopStep(o) \/ DeleteStep(o) \/ EndStep(o)

WatcherStep == EventIgnored \/ EventRunning \/ EventExited \/ ApplyEffects

RecoveryStep == RecoverInspect \/ RecoverApply \/ RecoverSave

Next ==
  \/ \E c \in Callers : CallStart(c) \/ \E t \in OpTypes : CallOther(c, t)
  \/ \E c \in Threads : CallerStep(c)
  \/ \E o \in OpIds : GoroutineStep(o)
  \/ WatcherStep
  \/ ProcessCrash \/ SetReady \/ \E g \in OpIds : SetExited(g)
  \/ StreamBreak \/ OnWorkerOffline \/ OnWorkerOnline
  \/ RecoveryStep
  \/ ControllerRestart

Spec == Init /\ [][Next]_vars

\* Goroutines, callers and watchers are scheduled; the worker reports exits.
\* Nothing is assumed of the game: it may never print its ready pattern.
Fairness ==
  /\ \A c \in Threads : WF_vars(CallerStep(c))
  /\ \A o \in OpIds : WF_vars(GoroutineStep(o))
  /\ WF_vars(WatcherStep)
  /\ WF_vars(RecoveryStep)
  /\ \A g \in OpIds : WF_vars(SetExited(g))

FairSpec == Spec /\ Fairness

\* ... and the game becomes ready, whenever it can.
ReadyFairSpec == FairSpec /\ WF_vars(SetReady)

-----------------------------------------------------------------------------
(* Properties.                                                             *)

Labels == {"unused", "prepare", "scripts", "cleanup", "forgetOld", "removeOld", "install", "create",
           "adopt", "launch", "stopping", "stopIf", "stopInst", "removeInst", "stopped",
           "saveStopped", "forget", "saveForget", "stoppedIf", "wipe", "teardown",
           "deleteRow", "finish", "failed", "clear", "deferred", "ended"}

Calls == [at: {"idle", "spawned", "submit", "cancel", "wait"}, type: OpTypes \cup {NoType},
          cancel: 0..MaxOps, done: 0..MaxOps]

GuardTypeOK ==
  /\ operation \in OpTypes \cup {NoType}
  /\ cancelOp \in 0..MaxOps /\ opDone \in 0..MaxOps /\ nOps \in 0..MaxOps
  /\ opType \in [OpIds -> OpTypes \cup {NoType}]
  /\ cancelledBy \in [OpIds -> SUBSET OpTypes]
  /\ closes \in [OpIds -> Nat]
  /\ call \in [Threads -> Calls]
  /\ pc \in [OpIds -> Labels]

Updates == [state: {"running", "ready", "exited"}, gen: Nat]

RecordTypeOK ==
  /\ spec \in SpecRecord /\ db \in SpecRecord /\ copy \in [OpIds -> SpecRecord]
  /\ processState \in {"none", "running", "exited"} /\ ready \in BOOLEAN
  /\ crashCount \in Nat
  /\ worker \in BOOLEAN /\ row \in BOOLEAN /\ listed \in BOOLEAN

WorkerTypeOK ==
  /\ inst \in {"none", "created", "running", "exited"} /\ gen \in Nat
  /\ track \in {"none", "running", "exited"} /\ trackReady \in BOOLEAN
  /\ exiting \subseteq Nat
  /\ events \in Seq(Updates)

WatchTypeOK ==
  /\ effects \in [pending: BOOLEAN, error: {"keep", "set", "clear"}, clearInstance: BOOLEAN,
                  restart: BOOLEAN]
  /\ recovery \in [at: {"idle", "inspect", "apply", "save"},
                   info: {"none", "running", "exited", "missing"},
                   wanted: BOOLEAN, boot: BOOLEAN]
  /\ crashes \in Nat /\ drops \in Nat /\ reboots \in Nat /\ autoRestarts \in Nat

\* Every variable has the shape the code's types give it.
TypeOK == GuardTypeOK /\ RecordTypeOK /\ WorkerTypeOK /\ WatchTypeOK

\* Preemption follows opPriority whatever the interleaving: a context is only
\* ever cancelled on behalf of an operation whose priority is strictly higher
\* than that of the operation the context belongs to.  Nothing cancels a
\* Delete, and only a Delete cancels a Stop, although submitOperation reads
\* cancelOp under the lock and calls it after releasing it, and although
\* operation, cancelOp and opDone are reset by three different threads.
PreemptionRespectsPriority ==
  \A o \in OpIds : \A t \in cancelledBy[o] : Priority(t) > Priority(opType[o])

\* submitOperation never closes a completion channel twice, which would panic
\* and take the controller down: the deferred function of one goroutine may
\* find the channel of another.
NoDoubleClose == \A o \in OpIds : closes[o] <= 1

\* A channel that a preempting caller can still capture belongs to the latest
\* operation, and that operation's goroutine has yet to run its deferred
\* function, so the channel will be closed.
DoneChannelHasOwner ==
  opDone # NoOp => /\ opDone = nOps /\ cancelOp = opDone
                   /\ closes[opDone] = 0
                   /\ pc[opDone] \notin {"unused", "ended"}

\* What makes the three properties above inductive: identifiers are handed out
\* in order and keep their type, the current operation is the latest one,
\* cancelOp and opDone are set and reset together and refer to nothing older,
\* and a caller holds on to a context only if it may cancel it.
FreshAbove ==
  \A o \in OpIds :
    /\ o > nOps => opType[o] = NoType /\ cancelledBy[o] = {} /\ closes[o] = 0
    /\ o > nOps <=> pc[o] = "unused"
LatestIsCurrent ==
  /\ operation # NoType => nOps > 0 /\ operation = opType[nOps]
  /\ cancelOp = opDone /\ opDone \in {NoOp, nOps}
CapturedIsWeaker ==
  \A c \in Threads : call[c].at = "cancel" /\ call[c].cancel # NoOp =>
    /\ call[c].cancel <= nOps
    /\ Priority(call[c].type) > Priority(opType[call[c].cancel])
GuardInv ==
  /\ GuardTypeOK /\ FreshAbove /\ LatestIsCurrent /\ CapturedIsWeaker
  /\ PreemptionRespectsPriority /\ NoDoubleClose /\ DoneChannelHasOwner

\* The observed process facts agree with each other: ready is never reported
\* for a process that is not running, across events, recovery and disconnects.
ReadyOnlyWhileRunning == ready => processState = "running"

\* When everything has settled after a Stop or a Delete, no process of the
\* gameserver is left on the worker, wherever it cut in (doStop, executeDelete,
\* and the cancellation checks of executeStart).
StoppedIsDown == Settled /\ nOps > 0 /\ opType[nOps] \in {"stop", "delete"} => inst # "running"

\* A running process is known to the database, from before StartInstance until
\* it has been stopped, so a controller that dies at any point can find it
\* again (executeStart writes instance_id before it starts the instance).
RunningIsRecorded ==
  inst = "running" => db.instance \/ ~row \/ \E o \in OpIds : pc[o] \in {"forgetOld", "removeOld"}

\* Once calls, operations and events have settled, the gameserver shows a
\* process as running exactly when the worker runs one (HandleProcessEvent,
\* doStop and recoverGameserver against the worker's tracker).
ObservedMatchesWorker ==
  Settled /\ listed => (processState = "running" <=> inst = "running")

\* Every request returns: the preempt-or-reject loop of submitOperation ends,
\* and so does the wait for the operation it preempts.
CallReturns == \A c \in Threads : call[c].at # "idle" ~> call[c].at = "idle"

\* Every operation comes to an end, through clearOperation, the ready event or
\* the exit event, unless it deletes the gameserver.
OperationEnds == operation # NoType ~> operation = NoType \/ ~listed

\* A preempting caller is released by the goroutine whose channel it waits for.
WaiterReleased == \A c \in Threads : call[c].at = "wait" ~> call[c].at # "wait"

\* Auto-restart gives up after maxRestartAttempts restarts in a row without a
\* user-initiated start.
AutoRestartBounded == autoRestarts <= MaxRestartAttempts

\* An update about a process of an earlier instance changes nothing that the
\* gameserver shows.
StaleEventsIgnored ==
  [][ events # <<>> /\ events' = Tail(events) /\ Head(events).gen # gen
      => UNCHANGED <<spec, operation, processState, ready, crashCount>> ]_vars

\* A process is only ever started for a user who wants the gameserver running,
\* whatever came between Start's write of the desired state and StartInstance.
LaunchIsWanted == [][ gen' > gen => spec.desired = "running" ]_vars
=============================================================================
