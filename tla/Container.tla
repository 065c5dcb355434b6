------------------------------ MODULE Container ------------------------------
(* One instance on a worker: StartInstance, StopInstance and RemoveInstance    *)
(* with the container runtime under them (crun, and pasta for the ports), the  *)
(* goroutines that wait for the container's exit, and recovery after the       *)
(* worker process itself was restarted, which containers and pasta survive.    *)
(* A container is named by the number of its start; crun knows at most one     *)
(* container under the instance's id and refuses to create another (crun and   *)
(* pasta are external: what they do is taken from how the worker uses them).   *)
EXTENDS Naturals, FiniteSets

CONSTANTS
  CrashInCall,   \* the worker may die inside a call, not only between calls
  Patient,       \* a start is asked for only after the last exit was noticed
  MaxStarts, MaxFaults, MaxCrashes

VARIABLES
  up,         \* the worker process runs
  manifest,   \* manifest.json is on disk
  stateFile,  \* container named by state.json, 0 for no file
  crun,       \* container in crun's state directory, 0 for none
  proc,       \* containers whose init process lives
  pasta,      \* containers with a live pasta
  pastaFile,  \* container whose pasta the pid file names, 0 for none
  call,       \* the call in progress: [pc, new: the container it starts, old: the one it waits for]
  inst,       \* the map's entry: container, 0 for none
  exited,     \* containers whose managedInstance has exited set and done closed
  watch,      \* container -> its watcher: "none", "poll", "cleaned", "tell", "recovered"
  tracker,    \* what the tracker reports: "none", "running", "exited"
  starts, faults, crashes

vars == <<up, manifest, stateFile, crun, proc, pasta, pastaFile, call, inst, exited, watch, tracker, starts, faults, crashes>>

Pids == 1 .. MaxStarts
Idle == [pc |-> "idle", new |-> 0, old |-> 0]

Init ==
  /\ up = TRUE /\ manifest = FALSE /\ stateFile = 0 /\ crun = 0
  /\ proc = {} /\ pasta = {} /\ pastaFile = 0
  /\ call = Idle /\ inst = 0 /\ exited = {} /\ watch = [p \in Pids |-> "none"] /\ tracker = "none"
  /\ starts = 0 /\ faults = 0 /\ crashes = 0

At(pc)   == up /\ call.pc = pc
Goto(pc) == call' = [call EXCEPT !.pc = pc]
Fault    == faults < MaxFaults /\ faults' = faults + 1
Counted  == UNCHANGED <<starts, crashes>>

---------------------------------------------------------------------------
CreateInstance ==
  /\ At("idle") /\ manifest' = TRUE
  /\ UNCHANGED <<up, stateFile, crun, proc, pasta, pastaFile, call, inst, exited, watch, tracker, starts, faults, crashes>>

(* No container is left, and the watcher of the last one has done its files. *)
ExitNoticed == \A p \in Pids: watch[p] \in {"none", "tell"}

(* StartInstance reads the manifest and the image's root, writes the bundle,   *)
(* and hands over to StartContainer.                                           *)
StartInstance ==
  /\ At("idle") /\ manifest /\ starts < MaxStarts /\ (Patient => ExitNoticed)
  /\ Goto("create")
  /\ UNCHANGED <<up, manifest, stateFile, crun, proc, pasta, pastaFile, inst, exited, watch, tracker, starts, faults, crashes>>

(* What an earlier container has left under the id is overwritten. *)
CrunCreateOver ==
  /\ At("create")
  /\ starts' = starts + 1 /\ crun' = starts' /\ proc' = proc \cup {starts'}
  /\ call' = [call EXCEPT !.pc = "pasta", !.new = starts']
  /\ UNCHANGED <<up, manifest, stateFile, pasta, pastaFile, inst, exited, watch, tracker, faults, crashes>>

(* crun create: the container exists, paused.  It fails when crun still knows  *)
(* one by that id.                                                             *)
CrunCreate ==
  /\ At("create")
  /\ IF crun = 0
     THEN /\ starts' = starts + 1 /\ crun' = starts' /\ proc' = proc \cup {starts'}
          /\ call' = [call EXCEPT !.pc = "pasta", !.new = starts']
     ELSE call' = Idle /\ UNCHANGED <<starts, crun, proc>>
  /\ UNCHANGED <<up, manifest, stateFile, pasta, pastaFile, inst, exited, watch, tracker, faults, crashes>>

(* Delete(id, force): whatever crun has under the id is killed and forgotten. *)
Delete == crun' = 0 /\ proc' = proc \ {crun}

(* Reading the pid, opening the pidfd, pasta or crun start fails: the          *)
(* container is deleted again, a pasta that was started is killed.             *)
StartFails ==
  /\ up /\ call.pc \in {"pasta", "start"} /\ Fault
  /\ Delete /\ pasta' = pasta \ {call.new}
  /\ call' = Idle
  /\ UNCHANGED <<up, manifest, stateFile, pastaFile, inst, exited, watch, tracker>> /\ Counted

(* The old pasta is looked up after the new one has written its pid. *)
StartPastaLate(p) == pasta' = pasta \ {p} /\ pastaFile' = p

(* StartPasta kills the pasta its pid file still names, then binds the ports. *)
StartPasta(p) == pasta' = (pasta \ {pastaFile}) \cup {p} /\ pastaFile' = p

PastaStarts ==
  /\ At("pasta")
  /\ StartPasta(call.new) /\ Goto("start")
  /\ UNCHANGED <<up, manifest, stateFile, crun, proc, inst, exited, watch, tracker, starts, faults, crashes>>

(* crun start: the entrypoint runs, a goroutine waits for the pidfd. *)
CrunStart ==
  /\ At("start")
  /\ watch' = [watch EXCEPT ![call.new] = "poll"] /\ Goto("register")
  /\ UNCHANGED <<up, manifest, stateFile, crun, proc, pasta, pastaFile, inst, exited, tracker, starts, faults, crashes>>

Register ==
  /\ At("register")
  /\ inst' = call.new /\ Goto("save")
  /\ UNCHANGED <<up, manifest, stateFile, crun, proc, pasta, pastaFile, exited, watch, tracker, starts, faults, crashes>>

(* The file is written only when the container exits. *)
SaveStateLate ==
  /\ At("save")
  /\ tracker' = "running" /\ call' = Idle
  /\ UNCHANGED <<up, manifest, stateFile, crun, proc, pasta, pastaFile, inst, exited, watch, faults>> /\ Counted

(* saveInstanceState, whose error is only logged, Track and SetState, and the  *)
(* goroutine that waits for the handle.                                        *)
SaveState ==
  /\ At("save")
  /\ \/ stateFile' = call.new /\ UNCHANGED faults
     \/ Fault /\ UNCHANGED stateFile
  /\ tracker' = "running" /\ call' = Idle
  /\ UNCHANGED <<up, manifest, crun, proc, pasta, pastaFile, inst, exited, watch>> /\ Counted

---------------------------------------------------------------------------
(* The container's process ends, on a signal or by itself. *)
ContainerExits(p) ==
  /\ p \in proc /\ call.new # p
  /\ proc' = proc \ {p}
  /\ UNCHANGED <<up, manifest, stateFile, crun, pasta, pastaFile, call, inst, exited, watch, tracker, starts, faults, crashes>>

(* pasta ends when its network namespace is gone. *)
PastaQuits(p) ==
  /\ p \in pasta /\ p \notin proc
  /\ pasta' = pasta \ {p}
  /\ UNCHANGED <<up, manifest, stateFile, crun, proc, pastaFile, call, inst, exited, watch, tracker, starts, faults, crashes>>

(* The runtime's goroutine: pasta is killed, its files and crun's state go.    *)
WatcherCleans(p) ==
  /\ up /\ watch[p] = "poll" /\ p \notin proc
  /\ Delete /\ pasta' = pasta \ {p} /\ pastaFile' = 0
  /\ watch' = [watch EXCEPT ![p] = "cleaned"]
  /\ UNCHANGED <<up, manifest, stateFile, call, inst, exited, tracker, starts, faults, crashes>>

(* The state file is left for the next recovery. *)
WatcherStoresLess(p) ==
  /\ up
  /\ watch[p] = "cleaned" /\ call.new # p
  /\ exited' = exited \cup {p} /\ watch' = [watch EXCEPT ![p] = "tell"]
  /\ UNCHANGED <<up, manifest, stateFile, crun, proc, pasta, pastaFile, call, inst, tracker, starts, faults, crashes>>

(* The goroutine of StartInstance: exited, state.json removed, done closed.    *)
(* The one of recovery does the same, two seconds late and without crun.       *)
WatcherStores(p) ==
  /\ up
  /\ \/ watch[p] = "cleaned" /\ call.new # p
     \/ watch[p] = "recovered" /\ p \notin proc
  /\ exited' = exited \cup {p} /\ stateFile' = 0
  /\ watch' = [watch EXCEPT ![p] = "tell"]
  /\ UNCHANGED <<up, manifest, crun, proc, pasta, pastaFile, call, inst, tracker, starts, faults, crashes>>

(* SetExited, for whatever the tracker has under the id. *)
WatcherTells(p) ==
  /\ up /\ watch[p] = "tell"
  /\ tracker' = IF tracker = "none" THEN "none" ELSE "exited"
  /\ watch' = [watch EXCEPT ![p] = "none"]
  /\ UNCHANGED <<up, manifest, stateFile, crun, proc, pasta, pastaFile, call, inst, exited, starts, faults, crashes>>

---------------------------------------------------------------------------
(* StopInstance sends SIGTERM and waits for done; after its timeout it sends   *)
(* SIGKILL and goes on waiting; the caller's context may end it before that.   *)
StopInstance ==
  /\ At("idle") /\ inst # 0 /\ inst \notin exited
  /\ call' = [call EXCEPT !.pc = "stop", !.old = inst]
  /\ UNCHANGED <<up, manifest, stateFile, crun, proc, pasta, pastaFile, inst, exited, watch, tracker, starts, faults, crashes>>

StopTimesOut ==
  /\ At("stop") /\ call.old \notin exited
  /\ proc' = proc \ {call.old} /\ Goto("killed")
  /\ UNCHANGED <<up, manifest, stateFile, crun, pasta, pastaFile, inst, exited, watch, tracker, starts, faults, crashes>>

StopReturns ==
  /\ up /\ call.pc \in {"stop", "killed"} /\ call.old \in exited
  /\ call' = Idle
  /\ UNCHANGED <<up, manifest, stateFile, crun, proc, pasta, pastaFile, inst, exited, watch, tracker, starts, faults, crashes>>

StopCancelled ==
  /\ At("stop") /\ call' = Idle
  /\ UNCHANGED <<up, manifest, stateFile, crun, proc, pasta, pastaFile, inst, exited, watch, tracker, starts, faults, crashes>>

(* RemoveInstance takes the entry out of the map and kills what runs ...       *)
RemoveInstance ==
  /\ At("idle")
  /\ inst' = 0
  /\ IF inst # 0 /\ inst \notin exited
     THEN proc' = proc \ {inst} /\ call' = [call EXCEPT !.pc = "remove", !.old = inst]
     ELSE UNCHANGED proc /\ call' = [call EXCEPT !.pc = "remove"]
  /\ UNCHANGED <<up, manifest, stateFile, crun, pasta, pastaFile, exited, watch, tracker, starts, faults, crashes>>

(* ... waits for its watcher, and removes the tracker's entry and the files. *)
RemoveFinishes ==
  /\ At("remove") /\ call.old \in exited \cup {0}
  /\ tracker' = "none" /\ manifest' = FALSE /\ stateFile' = 0 /\ call' = Idle
  /\ UNCHANGED <<up, crun, proc, pasta, pastaFile, inst, exited, watch, starts, faults, crashes>>

---------------------------------------------------------------------------
(* The worker process dies and what it knew with it. *)
Crash ==
  /\ up /\ crashes < MaxCrashes /\ (CrashInCall \/ call = Idle)
  /\ crashes' = crashes + 1
  /\ up' = FALSE /\ call' = Idle /\ inst' = 0 /\ tracker' = "none"
  /\ watch' = [p \in Pids |-> "none"] /\ exited' = {}
  /\ UNCHANGED <<manifest, stateFile, crun, proc, pasta, pastaFile, starts, faults>>

(* recoverInstances: no state file or a dead process, nothing to recover (the  *)
(* file of a dead one is removed); without a manifest the process is killed;   *)
(* otherwise its ports are restored, an error of which is only logged, and it  *)
(* is adopted.                                                                 *)
Recover ==
  /\ ~up /\ up' = TRUE
  /\ IF stateFile \notin proc
     THEN stateFile' = 0 /\ UNCHANGED <<proc, pasta, pastaFile, inst, watch, tracker, faults>>
     ELSE IF ~manifest
     THEN /\ proc' = proc \ {stateFile} /\ stateFile' = 0
          /\ UNCHANGED <<pasta, pastaFile, inst, watch, tracker, faults>>
     ELSE /\ \/ StartPasta(stateFile) /\ UNCHANGED faults
             \/ Fault /\ pasta' = pasta \ {pastaFile} /\ UNCHANGED pastaFile
          /\ inst' = stateFile /\ tracker' = "running"
          /\ watch' = [watch EXCEPT ![stateFile] = "recovered"]
          /\ UNCHANGED <<stateFile, proc>>
  /\ UNCHANGED <<manifest, crun, call, exited, starts, crashes>>

Next ==
  \/ CreateInstance \/ StartInstance \/ CrunCreate \/ StartFails \/ PastaStarts \/ CrunStart \/ Register \/ SaveState
  \/ \E p \in Pids: ContainerExits(p) \/ PastaQuits(p) \/ WatcherCleans(p) \/ WatcherStores(p) \/ WatcherTells(p)
  \/ StopInstance \/ StopTimesOut \/ StopReturns \/ StopCancelled \/ RemoveInstance \/ RemoveFinishes
  \/ Crash \/ Recover

Spec == Init /\ [][Next]_vars

(* Goroutines run, a timeout comes, a process that was sent SIGKILL is gone.   *)
Progress ==
  \/ CrunCreate \/ PastaStarts \/ CrunStart \/ Register \/ SaveState
  \/ \E p \in Pids: WatcherCleans(p) \/ WatcherStores(p) \/ WatcherTells(p)
  \/ StopTimesOut \/ StopReturns \/ RemoveFinishes

FairSpec == Spec /\ WF_vars(Progress)

---------------------------------------------------------------------------
TypeOK ==
  /\ up \in BOOLEAN /\ manifest \in BOOLEAN /\ {stateFile, crun, pastaFile, inst} \subseteq 0 .. starts
  /\ proc \subseteq 1 .. starts /\ pasta \subseteq 1 .. starts /\ exited \subseteq 1 .. starts
  /\ call.pc \in {"idle", "create", "pasta", "start", "register", "save", "stop", "killed", "remove"}
  /\ watch \in [Pids -> {"none", "poll", "cleaned", "tell", "recovered"}]
  /\ tracker \in {"none", "running", "exited"}

(* No two containers of an instance live at the same time: they would write to *)
(* one volume.  Stops that were given up, crashes of the worker and failed     *)
(* starts do not change that.                                                  *)
OneContainer == Cardinality(proc) <= 1

(* A container the worker holds for running has its ports, also one that was   *)
(* adopted after a restart.  Only an error while they are restored may leave   *)
(* it without, and then it is a recovered one.                                 *)
RunningHasPorts ==
  up /\ call = Idle /\ inst \in proc => inst \in pasta \/ (faults > 0 /\ watch[inst] = "recovered")

(* A worker that has no call in progress knows every container that lives: it  *)
(* is in the map, to be stopped and removed, and on disk, to be adopted.       *)
LiveIsKnown == up /\ call = Idle => proc \subseteq {inst} /\ (faults = 0 => proc \subseteq {stateFile})

(* "Auto-restart on crash is enabled by default": once an instance's container *)
(* has exited and its watchers are through, crun accepts the next one.         *)
MayStartAgain == up /\ call = Idle /\ proc = {} /\ (\A p \in Pids: watch[p] = "none") => crun = 0

(* Stop and Remove return, also for an adopted container and for one that does *)
(* not react to SIGTERM.                                                       *)
StopEnds == up /\ call.pc \in {"stop", "killed", "remove"} ~> call = Idle
=============================================================================
