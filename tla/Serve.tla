-------------------------------- MODULE Serve --------------------------------
(* One node's process: runServe brings the services up in a fixed order, waits *)
(* for a signal and takes them down; the local worker's agent, a goroutine of  *)
(* the same process, loads or makes the worker's id and registers with the     *)
(* controller for as long as the process lives.  The background loops and the  *)
(* requests use the database the whole time.  A process that died is started   *)
(* again on the same data directory.                                           *)
EXTENDS Naturals, FiniteSets, FiniteSetTheorems, TLAPS

CONSTANTS
  Subscribers,   \* loops with a Stop that waits: event persister, webhook worker ...
  Loops,         \* loops of bgWg: prune, database backup, downsample
  MaxReqs,       \* bound: HTTP requests at a time
  MaxFaults,     \* bound: start-up steps, registrations and heartbeats that fail
  MaxBoots,      \* bound: starts of the process
  MayFailWrite   \* the worker-id file may be unwritable

VARIABLES
  pc,        \* where runServe is
  running,   \* loops and subscribers that have started and not ended
  busy,      \* those in the middle of a statement on the database
  db,        \* the database is open
  reqs,      \* HTTP requests being handled
  jobs,      \* scheduled tasks that run
  sig,       \* signals received; the first one cancels ctx
  exit,      \* "", "ok", "error", "forced", "crash"
  agent,     \* the agent: [pc, id]
  idFile,    \* the worker-id file: 0 for none or empty
  regs,      \* ids the agent has registered with, over all boots
  known,     \* the local node's id as the proxy was told: 0 for none
  recovered, \* RecoverAll has run
  boots, faults

vars == <<pc, running, busy, db, reqs, jobs, sig, exit, agent, idFile, regs, known, recovered, boots, faults>>

NoAgent == [pc |-> "none", id |-> 0]

Init ==
  /\ pc = "config" /\ running = {} /\ busy = {} /\ db = FALSE /\ reqs = 0 /\ jobs = 0 /\ sig = 0
  /\ exit = "" /\ agent = NoAgent /\ idFile = 0 /\ regs = {} /\ known = 0 /\ recovered = FALSE
  /\ boots = 1 /\ faults = 0

---------------------------------------------------------------------------
(* Start-up. *)

Step(from, to) == exit = "" /\ pc = from /\ pc' = to

(* The configuration file, the flags, the log. *)
LoadConfig ==
  /\ Step("config", "database")
  /\ UNCHANGED <<running, busy, db, reqs, jobs, sig, exit, agent, idFile, regs, known, recovered, boots, faults>>

(* The database and its migrations, the game store, the registry. *)
OpenDatabase ==
  /\ Step("database", "services") /\ db' = TRUE
  /\ UNCHANGED <<running, busy, reqs, jobs, sig, exit, agent, idFile, regs, known, recovered, boots, faults>>

(* The services are made and wired; the settings of the configuration applied. *)
InitServices ==
  /\ Step("services", "background")
  /\ UNCHANGED <<running, busy, db, reqs, jobs, sig, exit, agent, idFile, regs, known, recovered, boots, faults>>

(* The persister, the webhook worker, the warnings, the reachability checker,  *)
(* the flusher and the loops bgWg counts.                                      *)
StartBackground ==
  /\ Step("background", "scheduler") /\ running' = Subscribers \cup Loops
  /\ UNCHANGED <<busy, db, reqs, jobs, sig, exit, agent, idFile, regs, known, recovered, boots, faults>>

(* The scheduler runs what is due from here on. *)
StartScheduler ==
  /\ Step("scheduler", "grpc")
  /\ UNCHANGED <<running, busy, db, reqs, jobs, sig, exit, agent, idFile, regs, known, recovered, boots, faults>>

(* The certificates and the gRPC server. *)
StartGRPC ==
  /\ Step("grpc", "worker")
  /\ UNCHANGED <<running, busy, db, reqs, jobs, sig, exit, agent, idFile, regs, known, recovered, boots, faults>>

(* A token and a certificate for the local worker; its agent is started. *)
StartWorker ==
  /\ Step("worker", "proxy") /\ agent' = [NoAgent EXCEPT !.pc = "load"]
  /\ UNCHANGED <<running, busy, db, reqs, jobs, sig, exit, idFile, regs, known, recovered, boots, faults>>

(* The proxy is told which node is local: what the worker-id file says now. *)
StartProxy ==
  /\ Step("proxy", "recover") /\ known' = idFile
  /\ UNCHANGED <<running, busy, db, reqs, jobs, sig, exit, agent, idFile, regs, recovered, boots, faults>>

(* The reaper, RecoverAll. *)
RecoverAll ==
  /\ Step("recover", "listen") /\ recovered' = TRUE
  /\ UNCHANGED <<running, busy, db, reqs, jobs, sig, exit, agent, idFile, regs, known, boots, faults>>

(* SFTP and HTTP. *)
Listen ==
  /\ Step("listen", "serving")
  /\ UNCHANGED <<running, busy, db, reqs, jobs, sig, exit, agent, idFile, regs, known, recovered, boots, faults>>

(* A step of the start-up fails, or the port is taken: runServe returns, which *)
(* runs what was deferred so far.                                              *)
StartFails ==
  /\ exit = "" /\ pc \in {"config", "database", "services", "scheduler", "grpc", "worker", "serving"}
  /\ faults < MaxFaults /\ faults' = faults + 1
  /\ IF pc \in {"config", "database"} THEN exit' = "error" /\ UNCHANGED pc ELSE pc' = "failed" /\ UNCHANGED exit
  /\ UNCHANGED <<running, busy, db, reqs, jobs, sig, agent, idFile, regs, known, recovered, boots>>

---------------------------------------------------------------------------
(* The loops, the requests and the schedules. *)

(* A tick or an event: a statement on the database; a select may still pick it *)
(* when ctx is cancelled.                                                      *)
LoopWorks(l) ==
  /\ exit = "" /\ l \in running \ busy /\ busy' = busy \cup {l}
  /\ UNCHANGED <<pc, running, db, reqs, jobs, sig, exit, agent, idFile, regs, known, recovered, boots, faults>>

LoopDone(l) ==
  /\ exit = "" /\ l \in busy /\ busy' = busy \ {l}
  /\ UNCHANGED <<pc, running, db, reqs, jobs, sig, exit, agent, idFile, regs, known, recovered, boots, faults>>

(* The loops that have a tick to wait for do not look at the context. *)
LoopEndsNot(l) ==
  /\ exit = "" /\ l \in running \ busy /\ sig > 0 /\ l \in Subscribers /\ running' = running \ {l}
  /\ UNCHANGED <<pc, busy, db, reqs, jobs, sig, exit, agent, idFile, regs, known, recovered, boots, faults>>

(* ctx is cancelled: the loop ends when it is back at its select. *)
LoopEnds(l) ==
  /\ exit = "" /\ l \in running \ busy /\ sig > 0 /\ running' = running \ {l}
  /\ UNCHANGED <<pc, busy, db, reqs, jobs, sig, exit, agent, idFile, regs, known, recovered, boots, faults>>

(* A request; until srv.Shutdown, also after the signal. *)
Request ==
  /\ exit = "" /\ pc \in {"serving", "stopGRPC", "stopLoops", "waitLoops"} /\ reqs < MaxReqs
  /\ reqs' = reqs + 1
  /\ UNCHANGED <<pc, running, busy, db, jobs, sig, exit, agent, idFile, regs, known, recovered, boots, faults>>

RequestDone ==
  /\ exit = "" /\ reqs > 0 /\ reqs' = reqs - 1
  /\ UNCHANGED <<pc, running, busy, db, jobs, sig, exit, agent, idFile, regs, known, recovered, boots, faults>>

(* A scheduled task fires between Scheduler.Start and Scheduler.Stop. *)
JobStarts ==
  /\ exit = "" /\ pc \in {"grpc", "worker", "proxy", "recover", "listen", "serving", "stopGRPC", "stopLoops", "waitLoops", "stopHTTP"}
  /\ jobs = 0 /\ jobs' = 1
  /\ UNCHANGED <<pc, running, busy, db, reqs, sig, exit, agent, idFile, regs, known, recovered, boots, faults>>

JobDone ==
  /\ exit = "" /\ jobs > 0 /\ jobs' = 0
  /\ UNCHANGED <<pc, running, busy, db, reqs, sig, exit, agent, idFile, regs, known, recovered, boots, faults>>

---------------------------------------------------------------------------
(* Shutdown. *)

(* The first signal cancels ctx; a second one during the shutdown cancels      *)
(* forceCtx, whose goroutine ends the process.                                 *)
Signal ==
  /\ exit = "" /\ pc # "config"
  /\ \/ sig = 0 /\ sig' = 1 /\ UNCHANGED exit
     \/ sig = 1 /\ pc \in {"stopGRPC", "stopLoops", "waitLoops", "stopHTTP", "unwind"} /\ sig' = 2 /\ exit' = "forced"
  /\ UNCHANGED <<pc, running, busy, db, reqs, jobs, agent, idFile, regs, known, recovered, boots, faults>>

(* The first of the deferred calls, forceStop, cancels forceCtx as well: the   *)
(* goroutine ends the process, unless the other deferred calls are faster.     *)
ForcedExit ==
  /\ exit = "" /\ pc = "unwind" /\ exit' = "forced"
  /\ UNCHANGED <<pc, running, busy, db, reqs, jobs, sig, agent, idFile, regs, known, recovered, boots, faults>>

LeaveServing ==
  /\ Step("serving", "stopGRPC") /\ sig > 0
  /\ UNCHANGED <<running, busy, db, reqs, jobs, sig, exit, agent, idFile, regs, known, recovered, boots, faults>>

(* GracefulStop returns when no call of an agent is being handled. *)
GracefulStop ==
  /\ Step("stopGRPC", "stopLoops") /\ agent.pc \notin {"registering", "heartbeat"}
  /\ UNCHANGED <<running, busy, db, reqs, jobs, sig, exit, agent, idFile, regs, known, recovered, boots, faults>>

(* StatsPoller, QuerySvc, AuthSvc and the router are stopped. *)
StopBackground ==
  /\ Step("stopLoops", "waitLoops")
  /\ UNCHANGED <<running, busy, db, reqs, jobs, sig, exit, agent, idFile, regs, known, recovered, boots, faults>>

(* The loops are not waited for. *)
WaitLoopsNot ==
  /\ Step("waitLoops", "stopHTTP")
  /\ UNCHANGED <<running, busy, db, reqs, jobs, sig, exit, agent, idFile, regs, known, recovered, boots, faults>>

(* bgWg.Wait. *)
WaitLoops ==
  /\ Step("waitLoops", "stopHTTP") /\ running \cap Loops = {}
  /\ UNCHANGED <<running, busy, db, reqs, jobs, sig, exit, agent, idFile, regs, known, recovered, boots, faults>>

(* srv.Shutdown: the requests have ended, or ten seconds have passed. *)
ShutdownHTTP ==
  /\ Step("stopHTTP", "unwind")
  /\ UNCHANGED <<running, busy, db, reqs, jobs, sig, exit, agent, idFile, regs, known, recovered, boots, faults>>

(* The deferred calls in reverse order: each Stop cancels its subscriber and   *)
(* waits for it; the database is closed last.  Scheduler.Stop waits for no     *)
(* task.                                                                       *)
StopSubscriber(l) ==
  /\ exit = "" /\ pc \in {"unwind", "failed"} /\ l \in (running \ busy) \cap Subscribers /\ running' = running \ {l}
  /\ UNCHANGED <<pc, busy, db, reqs, jobs, sig, exit, agent, idFile, regs, known, recovered, boots, faults>>

CloseDatabase ==
  /\ exit = "" /\ pc \in {"unwind", "failed"} /\ running \cap Subscribers = {} /\ db' = FALSE
  /\ exit' = IF pc = "unwind" THEN "ok" ELSE "error"
  /\ UNCHANGED <<pc, running, busy, reqs, jobs, sig, agent, idFile, regs, known, recovered, boots, faults>>

---------------------------------------------------------------------------
(* The agent. *)

(* A new id is drawn, one that no boot has used. *)
NewId == boots

(* loadOrGenerateWorkerID: the id of the file, or a new one. *)
LoadOrGenerateWorkerID ==
  /\ exit = "" /\ agent.pc = "load"
  /\ agent' = IF idFile # 0 THEN [pc |-> "dial", id |-> idFile] ELSE [pc |-> "store", id |-> NewId]
  /\ UNCHANGED <<pc, running, busy, db, reqs, jobs, sig, exit, idFile, regs, known, recovered, boots, faults>>

(* The agent registers first. *)
StoreIdLate ==
  /\ exit = "" /\ agent.pc = "store" /\ agent' = [agent EXCEPT !.pc = "dial"]
  /\ UNCHANGED <<pc, running, busy, db, reqs, jobs, sig, exit, idFile, regs, known, recovered, boots, faults>>

(* The new id is written; the agent goes on if that fails. *)
StoreId ==
  /\ exit = "" /\ agent.pc = "store" /\ agent' = [agent EXCEPT !.pc = "dial"]
  /\ \/ idFile' = agent.id
     \/ MayFailWrite /\ UNCHANGED idFile
  /\ UNCHANGED <<pc, running, busy, db, reqs, jobs, sig, exit, regs, known, recovered, boots, faults>>

AgentTo(p) ==
  /\ agent' = [agent EXCEPT !.pc = p]
  /\ UNCHANGED <<pc, running, busy, db, reqs, jobs, sig, exit, idFile, known, recovered, boots>>

(* Register is sent, unless ctx is cancelled. *)
Dial ==
  /\ exit = "" /\ agent.pc = "dial" /\ AgentTo(IF sig = 0 THEN "registering" ELSE "done")
  /\ UNCHANGED <<regs, faults>>

(* The controller has registered the worker. *)
Registered ==
  /\ exit = "" /\ agent.pc = "registering" /\ AgentTo("beating") /\ regs' = regs \cup {agent.id}
  /\ UNCHANGED faults

(* The dial, the registration or a heartbeat fails or is refused: back to the  *)
(* dial after a pause.                                                         *)
AgentFails ==
  /\ exit = "" /\ agent.pc \in {"registering", "heartbeat"}
  /\ \/ sig > 0 /\ UNCHANGED faults
     \/ faults < MaxFaults /\ faults' = faults + 1
  /\ AgentTo("pause") /\ UNCHANGED regs

(* sleepCtx. *)
Pause == exit = "" /\ agent.pc = "pause" /\ AgentTo("dial") /\ UNCHANGED <<regs, faults>>

(* A heartbeat, or the end of the loop. *)
Heartbeat ==
  /\ exit = "" /\ agent.pc = "beating" /\ AgentTo(IF sig = 0 THEN "heartbeat" ELSE "done")
  /\ UNCHANGED <<regs, faults>>

Accepted == exit = "" /\ agent.pc = "heartbeat" /\ AgentTo("beating") /\ UNCHANGED <<regs, faults>>

---------------------------------------------------------------------------
Crash ==
  /\ exit = "" /\ boots < MaxBoots /\ exit' = "crash"
  /\ UNCHANGED <<pc, running, busy, db, reqs, jobs, sig, agent, idFile, regs, known, recovered, boots, faults>>

(* The process is started again on the same data directory. *)
Boot ==
  /\ exit # "" /\ boots < MaxBoots /\ boots' = boots + 1
  /\ pc' = "config" /\ running' = {} /\ busy' = {} /\ db' = FALSE /\ reqs' = 0 /\ jobs' = 0 /\ sig' = 0
  /\ exit' = "" /\ agent' = NoAgent /\ known' = 0 /\ recovered' = FALSE
  /\ UNCHANGED <<idFile, regs, faults>>

StartUp  == LoadConfig \/ OpenDatabase \/ InitServices \/ StartBackground \/ StartScheduler \/ StartGRPC \/ StartWorker \/ StartProxy \/ RecoverAll \/ Listen
Shutdown == \/ LeaveServing \/ GracefulStop \/ StopBackground \/ WaitLoops \/ ShutdownHTTP \/ CloseDatabase
            \/ \E l \in Subscribers: StopSubscriber(l)
Agent    == LoadOrGenerateWorkerID \/ StoreId \/ Dial \/ Registered \/ Pause \/ Heartbeat \/ Accepted
Work     == RequestDone \/ JobDone \/ (\E l \in Subscribers \cup Loops: LoopDone(l) \/ LoopEnds(l))

Next ==
  \/ StartUp \/ Shutdown \/ Agent \/ Work
  \/ StartFails \/ AgentFails \/ Signal \/ ForcedExit \/ Request \/ JobStarts \/ Crash \/ Boot
  \/ \E l \in Subscribers \cup Loops: LoopWorks(l)

Spec == Init /\ [][Next]_vars

(* The goroutines of the process run; a statement, a request and an RPC of the *)
(* local agent return.  A select whose context is done and whose tick is due   *)
(* picks either, so a loop ends if it may end again and again.                 *)
FairSpec ==
  /\ Spec /\ WF_vars(StartUp) /\ WF_vars(Shutdown) /\ WF_vars(Agent)
  /\ \A l \in Subscribers \cup Loops: WF_vars(LoopDone(l)) /\ SF_vars(LoopEnds(l))

---------------------------------------------------------------------------
TypeOK ==
  /\ pc \in {"config", "database", "services", "background", "scheduler", "grpc", "worker", "proxy", "recover", "listen", "serving",
             "stopGRPC", "stopLoops", "waitLoops", "stopHTTP", "unwind", "failed"}
  /\ busy \subseteq running /\ running \subseteq Subscribers \cup Loops
  /\ agent.pc \in {"none", "load", "store", "dial", "registering", "beating", "heartbeat", "pause", "done"}

(* A process that gets to the end of its shutdown has closed the database when *)
(* every background loop and subscriber had ended; and one that the goroutine  *)
(* of the second signal ends although there was none has waited for the loops  *)
(* that back up, prune and downsample the database, and has cut off at most    *)
(* subscribers.                                                                *)
CleanShutdown ==
  /\ exit = "ok" => running = {} /\ busy = {} /\ ~db
  /\ exit = "forced" /\ sig = 1 => (running \cup busy) \cap Loops = {}

(* The worker registers with the same id in every boot, wherever the process   *)
(* before died.                                                                *)
IdIsStable == Cardinality(regs) <= 1

(* "Must start after the local worker so we can read its worker-id": the proxy *)
(* knows the local node by the id the worker registers with.                   *)
ProxyKnowsLocal == recovered /\ agent.pc = "beating" => known = agent.id

(* A signal ends the process. *)
ShutdownEnds == sig > 0 ~> exit # ""
---------------------------------------------------------------------------
(* Why a shutdown is clean and the id stays.                                 *)

\* The loops have ended where they have been waited for, and nothing starts one.
LoopsInv ==
  /\ busy \subseteq running /\ running \subseteq Subscribers \cup Loops
  /\ pc \in {"stopHTTP", "unwind"} => running \cap Loops = {}
  /\ CleanShutdown

\* A process starts with no loop.
LEMMA LoopsStart == Init => LoopsInv
  BY DEF Init, LoopsInv, CleanShutdown

\* What ends on one signal has waited for the loops, and what closes the database
\* for the subscribers.
LEMMA LoopsStep == ASSUME LoopsInv, [Next]_vars PROVE LoopsInv'
<1> USE DEF LoopsInv, CleanShutdown
<1>1. CASE UNCHANGED <<running, busy, pc, exit, sig, db>>
  BY <1>1
<1>2. CASE StartUp
  BY <1>2 DEF StartUp, Step, LoadConfig, OpenDatabase, InitServices, StartBackground,
              StartScheduler, StartGRPC, StartWorker, StartProxy, RecoverAll, Listen
<1>3. CASE Shutdown
  BY <1>3 DEF Shutdown, Step, LeaveServing, GracefulStop, StopBackground, WaitLoops,
              ShutdownHTTP, CloseDatabase, StopSubscriber
<1>4. ASSUME NEW l \in Subscribers \cup Loops, LoopDone(l) \/ LoopEnds(l) \/ LoopWorks(l)
      PROVE  LoopsInv'
  BY <1>4 DEF LoopDone, LoopEnds, LoopWorks
<1>5. CASE StartFails
  BY <1>5 DEF StartFails
<1>6. CASE Crash \/ Boot
  BY <1>6 DEF Crash, Boot
<1>8. CASE Signal
  <2>1. exit = "" /\ UNCHANGED <<running, busy, pc, db>>
    BY <1>8 DEF Signal
  <2>2. exit' = "" \/ exit' = "forced"
    BY <1>8 DEF Signal
  <2>3. exit' # "ok"
    BY <2>2
  <2>4. exit' = "forced" => sig' = 2
    BY <1>8 DEF Signal
  <2>5. ~(exit' = "forced" /\ sig' = 1)
    BY <2>4
  <2> QED BY <2>1, <2>3, <2>5
<1>9. CASE ForcedExit
  BY <1>9 DEF ForcedExit
<1>7. CASE \/ Agent \/ AgentFails \/ Request \/ RequestDone \/ JobStarts \/ JobDone
           \/ UNCHANGED vars
  <2>1. UNCHANGED <<running, busy, pc, exit, sig, db>>
    BY <1>7 DEF Agent, AgentFails, AgentTo, LoadOrGenerateWorkerID, StoreId, Dial,
                Registered, Pause, Heartbeat, Accepted, Request, RequestDone,
                JobStarts, JobDone, vars
  <2> QED BY <1>1, <2>1
<1> QED BY <1>2, <1>3, <1>4, <1>5, <1>6, <1>7, <1>8, <1>9 DEF Next, Work

\* A process that gets to the end of its shutdown has closed its database under
\* no loop and no subscriber, and one that a single signal ends earlier has cut
\* off no loop that works on the database file, whatever failed before and
\* however many times it was started.
THEOREM ShutdownIsClean == Spec => []CleanShutdown
<1>1. Init => LoopsInv
  BY LoopsStart
<1>2. LoopsInv /\ [Next]_vars => LoopsInv'
  BY LoopsStep
<1>3. LoopsInv => CleanShutdown
  BY DEF LoopsInv
<1> QED BY <1>1, <1>2, <1>3, PTL DEF Spec

\* The agent dials with the id of the file, which is written once.
IdInv ==
  /\ boots \in Nat \ {0}
  /\ agent.pc \in {"none", "load", "store", "dial", "registering", "beating", "heartbeat",
                   "pause", "done"}
  /\ agent = [pc |-> agent.pc, id |-> agent.id]
  /\ agent.pc = "store" => idFile = 0 /\ agent.id # 0
  /\ agent.pc \in {"dial", "registering", "beating", "heartbeat", "pause"} =>
       idFile # 0 /\ agent.id = idFile
  /\ regs \subseteq {idFile} \ {0}

\* The first boot finds no id file.
LEMMA IdStarts == ASSUME Init PROVE IdInv
<1>1. agent = [pc |-> "none", id |-> 0] /\ boots = 1 /\ idFile = 0 /\ regs = {}
  BY DEF Init, NoAgent
<1> QED BY <1>1 DEF IdInv

\* Registrations all of the id in the file are of one id at most.
LEMMA IdPromises == ASSUME IdInv PROVE IdIsStable
<1>1. regs = {} \/ regs = {idFile}
  BY DEF IdInv
<1>2. CASE regs = {}
  <2>1. Cardinality(regs) = 0
    BY <1>2, FS_EmptySet
  <2> QED BY <2>1 DEF IdIsStable
<1>3. CASE regs = {idFile}
  <2>1. Cardinality(regs) = 1
    BY <1>3, FS_Singleton
  <2> QED BY <2>1 DEF IdIsStable
<1> QED BY <1>1, <1>2, <1>3

\* A new id is written before it is used, and never replaced.
LEMMA IdStep == ASSUME IdInv, ~MayFailWrite, [Next]_vars PROVE IdInv'
<1>1. CASE UNCHANGED <<boots, agent, idFile, regs>>
  BY <1>1 DEF IdInv
<1>2. ASSUME NEW p \in {"dial", "registering", "beating", "heartbeat", "pause", "done"},
             agent' = [agent EXCEPT !.pc = p], UNCHANGED <<boots, idFile>>,
             agent.pc \in {"dial", "registering", "beating", "heartbeat", "pause"},
             regs' \subseteq regs \cup {agent.id}
      PROVE  IdInv'
  <2>1. agent' = [pc |-> p, id |-> agent.id]
    BY <1>2 DEF IdInv
  <2> QED BY <1>2, <2>1 DEF IdInv
<1>3. CASE LoadOrGenerateWorkerID
  <2>1. \/ agent' = [pc |-> "dial", id |-> idFile] /\ idFile # 0
        \/ agent' = [pc |-> "store", id |-> boots] /\ idFile = 0
    BY <1>3 DEF LoadOrGenerateWorkerID, NewId
  <2>2. UNCHANGED <<boots, idFile, regs>>
    BY <1>3 DEF LoadOrGenerateWorkerID
  <2> QED BY <2>1, <2>2 DEF IdInv
<1>4. CASE StoreId
  <2>1. agent' = [pc |-> "dial", id |-> agent.id] /\ idFile' = agent.id
    BY <1>4 DEF StoreId, IdInv
  <2>2. UNCHANGED <<boots, regs>> /\ agent.pc = "store"
    BY <1>4 DEF StoreId
  <2> QED BY <2>1, <2>2 DEF IdInv
<1>5. CASE Dial \/ Registered \/ Pause \/ Heartbeat \/ Accepted \/ AgentFails
  <2>1. PICK p \in {"dial", "registering", "beating", "heartbeat", "pause", "done"} :
          agent' = [agent EXCEPT !.pc = p]
    BY <1>5 DEF Dial, Registered, Pause, Heartbeat, Accepted, AgentFails, AgentTo
  <2>2. /\ UNCHANGED <<boots, idFile>> /\ regs' \subseteq regs \cup {agent.id}
        /\ agent.pc \in {"dial", "registering", "beating", "heartbeat", "pause"}
    BY <1>5 DEF Dial, Registered, Pause, Heartbeat, Accepted, AgentFails, AgentTo
  <2> QED BY <1>2, <2>1, <2>2
<1>6. CASE StartWorker
  <2>1. agent' = [pc |-> "load", id |-> 0] /\ UNCHANGED <<boots, idFile, regs>>
    BY <1>6 DEF StartWorker, NoAgent
  <2> QED BY <2>1 DEF IdInv
<1>7. CASE Boot
  <2>1. agent' = [pc |-> "none", id |-> 0] /\ boots' = boots + 1 /\ UNCHANGED <<idFile, regs>>
    BY <1>7 DEF Boot, NoAgent
  <2> QED BY <2>1 DEF IdInv
<1>8. CASE StartUp /\ ~StartWorker
  BY <1>1, <1>8 DEF StartUp, LoadConfig, OpenDatabase, InitServices, StartBackground,
              StartScheduler, StartGRPC, StartProxy, RecoverAll, Listen
<1>9. CASE Shutdown
  BY <1>1, <1>9 DEF Shutdown, LeaveServing, GracefulStop, StopBackground, WaitLoops,
              ShutdownHTTP, CloseDatabase, StopSubscriber
<1>10. CASE Work \/ \E l \in Subscribers \cup Loops : LoopWorks(l)
  BY <1>1, <1>10 DEF Work, RequestDone, JobDone, LoopDone, LoopEnds, LoopWorks
<1>11. CASE StartFails \/ Signal \/ ForcedExit \/ Request \/ JobStarts \/ Crash \/ UNCHANGED vars
  BY <1>1, <1>11 DEF StartFails, Signal, ForcedExit, Request, JobStarts, Crash, vars
<1> QED BY <1>3, <1>4, <1>5, <1>6, <1>7, <1>8, <1>9, <1>10, <1>11 DEF Next, Agent

\* Where the id can be written, the worker registers with one id in every boot,
\* wherever the process died before.
THEOREM OneIdForEver == ASSUME ~MayFailWrite PROVE Spec => []IdIsStable
<1>1. Init => IdInv
  BY IdStarts
<1>2. IdInv /\ [Next]_vars => IdInv'
  BY IdStep
<1>3. IdInv => IdIsStable
  BY IdPromises
<1> QED BY <1>1, <1>2, <1>3, PTL DEF Spec
=============================================================================
