---------------------------------- MODULE MCProgress ------------------------
(* What must eventually happen, component by component, each on its small    *)
(* instance.  A behaviour is one of ONE component: part says of which, and    *)
(* the variables of the others stay as they start.  Each component's fairness *)
(* is the one its module states, for the behaviours of that component only.   *)
EXTENDS Naturals, Sequences, FiniteSets

CONSTANTS reaper

VARIABLES part  \* the component this behaviour is of

\* Two publishers, the persister and a client that may never read.
VARIABLES
  b_subscribers, b_closed, b_chan, b_pub, b_sent, b_got, b_offered, b_dropped,
  b_table
EbVars ==
  <<b_subscribers, b_closed, b_chan, b_pub, b_sent, b_got, b_offered,
  b_dropped, b_table>>
Eb == INSTANCE EventBus WITH
  Publishers <- {"p1", "p2"}, Persister <- "persister", Clients <- {"c"},
  Capacity <- 1, MaxEvents <- 1, Telemetry <- {},
  subscribers <- b_subscribers, closed <- b_closed, chan <- b_chan,
  pub <- b_pub, sent <- b_sent, got <- b_got, offered <- b_offered,
  dropped <- b_dropped, table <- b_table

\* Deliveries to one endpoint, a crash of the controller.
VARIABLES
  w_endpoint, w_chan, w_typeOf, w_enq, w_rows, w_wake, w_batch, w_cache,
  w_posting, w_upd, w_created, w_accepted, w_posts, w_waited, w_changes,
  w_faults
WhVars ==
  <<w_endpoint, w_chan, w_typeOf, w_enq, w_rows, w_wake, w_batch, w_cache,
  w_posting, w_upd, w_created, w_accepted, w_posts, w_waited, w_changes,
  w_faults>>
Wh == INSTANCE Webhooks WITH
  Endpoints <- {"e"}, Types <- {"backup.failed"}, Capacity <- 1,
  BatchLimit <- 1, MaxAttempts <- 2, MaxEvents <- 2, MaxChanges <- 0,
  MaxFaults <- 1,
  endpoint <- w_endpoint, chan <- w_chan, typeOf <- w_typeOf, enq <- w_enq,
  rows <- w_rows, wake <- w_wake, batch <- w_batch, cache <- w_cache,
  posting <- w_posting, upd <- w_upd, created <- w_created,
  accepted <- w_accepted, posts <- w_posts, waited <- w_waited,
  changes <- w_changes, faults <- w_faults

\* A worker whose link fails.
VARIABLES
  r_loop, r_up, r_conn, r_stale, r_db, r_open, r_made, r_hb, r_off, r_watch,
  r_cancels, r_cancelled, r_gsWorker, r_downs
RgVars ==
  <<r_loop, r_up, r_conn, r_stale, r_db, r_open, r_made, r_hb, r_off, r_watch,
  r_cancels, r_cancelled, r_gsWorker, r_downs>>
Rg == INSTANCE Registry WITH
  Handlers <- {"h"}, MaxConns <- 2, MaxDowns <- 1, Reaper <- reaper,
  loop <- r_loop, up <- r_up, conn <- r_conn, stale <- r_stale, db <- r_db,
  open <- r_open, made <- r_made, hb <- r_hb, off <- r_off, watch <- r_watch,
  cancels <- r_cancels, cancelled <- r_cancelled, gsWorker <- r_gsWorker,
  downs <- r_downs

\* A worker that enrolls and dies on the way.
VARIABLES
  e_ctl, e_ca, e_srv, e_issued, e_rows, e_live, e_worker, e_files, e_got,
  e_idFile, e_addr, e_deaths, e_ctlDeaths, e_faults, e_moves
EnVars ==
  <<e_ctl, e_ca, e_srv, e_issued, e_rows, e_live, e_worker, e_files, e_got,
  e_idFile, e_addr, e_deaths, e_ctlDeaths, e_faults, e_moves>>
En == INSTANCE Enrollment WITH
  MaxDeaths <- 2, MaxCtlDeaths <- 0, MaxFaults <- 1, MaxMoves <- 0,
  ctl <- e_ctl, ca <- e_ca, srv <- e_srv, issued <- e_issued, rows <- e_rows,
  live <- e_live, worker <- e_worker, files <- e_files, got <- e_got,
  idFile <- e_idFile, addr <- e_addr, deaths <- e_deaths,
  ctlDeaths <- e_ctlDeaths, faults <- e_faults, moves <- e_moves

\* A schedule over a crash of the controller.
VARIABLES
  c_phase, c_now, c_row, c_cron, c_entry, c_ids, c_exec, c_catchUp, c_req,
  c_owed, c_made, c_lost, c_requests, c_crashes
SuVars ==
  <<c_phase, c_now, c_row, c_cron, c_entry, c_ids, c_exec, c_catchUp, c_req,
  c_owed, c_made, c_lost, c_requests, c_crashes>>
Su == INSTANCE Scheduler WITH
  Type <- "backup", OneShot <- FALSE, Users <- {}, Slots <- {"x1", "x2"},
  MaxTime <- 2, MaxRequests <- 0, MaxCrashes <- 1,
  phase <- c_phase, now <- c_now, row <- c_row, cron <- c_cron,
  entry <- c_entry, ids <- c_ids, exec <- c_exec, catchUp <- c_catchUp,
  req <- c_req, owed <- c_owed, made <- c_made, lost <- c_lost,
  requests <- c_requests, crashes <- c_crashes

\* Two backups for one slot.
VARIABLES
  k_rows, k_file, k_job, k_restore, k_req, k_game, k_gone, k_next, k_faults,
  k_crashes
BkVars ==
  <<k_rows, k_file, k_job, k_restore, k_req, k_game, k_gone, k_next, k_faults,
  k_crashes>>
Bk == INSTANCE Backup WITH
  Users <- {"u"}, Restores <- {}, Ids <- 1..2, Limit <- 1, Slots <- 1,
  S3 <- FALSE, MaxFaults <- 1, MaxCrashes <- 0,
  rows <- k_rows, file <- k_file, job <- k_job, restore <- k_restore,
  req <- k_req, game <- k_game, gone <- k_gone, next <- k_next,
  faults <- k_faults, crashes <- k_crashes

\* A forwarder that is stopped at work.
VARIABLES
  u_backend, u_sessions, u_dialled, u_idle, u_quiet, u_open, u_returning,
  u_server, u_done, u_created, u_routed
UdVars ==
  <<u_backend, u_sessions, u_dialled, u_idle, u_quiet, u_open, u_returning,
  u_server, u_done, u_created, u_routed>>
Ud == INSTANCE UdpForwarder WITH
  Clients <- {1}, Backends <- {1, 2}, TTL <- 2, MaxSessions <- 2,
  MaxRoutes <- 1,
  backend <- u_backend, sessions <- u_sessions, dialled <- u_dialled,
  idle <- u_idle, quiet <- u_quiet, open <- u_open, returning <- u_returning,
  server <- u_server, done <- u_done, created <- u_created, routed <- u_routed

\* Calls over a link that breaks.
VARIABLES
  l_call, l_caller, l_taken, l_up, l_down, l_pump, l_pipe, l_writer, l_stored,
  l_ran, l_ctx, l_answer, l_calls, l_faults
LkVars ==
  <<l_call, l_caller, l_taken, l_up, l_down, l_pump, l_pipe, l_writer,
  l_stored, l_ran, l_ctx, l_answer, l_calls, l_faults>>
Lk == INSTANCE WorkerLink WITH
  Kinds <- {"CreateInstance", "BackupVolume", "PullImage", "EnsureDepot", "RestoreVolume",
            "CopyTarToInstance"},
  MaxChunks <- 2, MaxCalls <- 2, MaxFaults <- 2,
  call <- l_call, caller <- l_caller, taken <- l_taken, up <- l_up,
  down <- l_down, pump <- l_pump, pipe <- l_pipe, writer <- l_writer,
  stored <- l_stored, ran <- l_ran, ctx <- l_ctx, answer <- l_answer,
  calls <- l_calls, faults <- l_faults

\* A container that is stopped, and a worker that dies.
VARIABLES
  n_up, n_manifest, n_stateFile, n_crun, n_proc, n_pasta, n_pastaFile, n_call,
  n_inst, n_exited, n_watch, n_tracker, n_starts, n_faults, n_crashes
CnVars ==
  <<n_up, n_manifest, n_stateFile, n_crun, n_proc, n_pasta, n_pastaFile,
  n_call, n_inst, n_exited, n_watch, n_tracker, n_starts, n_faults, n_crashes>>
Cn == INSTANCE Container WITH
  CrashInCall <- TRUE, Patient <- FALSE, MaxStarts <- 3, MaxFaults <- 0,
  MaxCrashes <- 2,
  up <- n_up, manifest <- n_manifest, stateFile <- n_stateFile,
  crun <- n_crun, proc <- n_proc, pasta <- n_pasta, pastaFile <- n_pastaFile,
  call <- n_call, inst <- n_inst, exited <- n_exited, watch <- n_watch,
  tracker <- n_tracker, starts <- n_starts, faults <- n_faults,
  crashes <- n_crashes

\* A download that may be cancelled.
VARIABLES
  d_queue, d_worker, d_hostIdx, d_blacklist, d_ctx, d_errCh, d_written,
  d_result, d_faults
DlVars ==
  <<d_queue, d_worker, d_hostIdx, d_blacklist, d_ctx, d_errCh, d_written,
  d_result, d_faults>>
Dl == INSTANCE DepotDownload WITH
  Workers <- {"w1", "w2"}, Chunks <- <<1, 2>>,
  TargetsOf <- [c \in 1..2 |-> IF c = 2 THEN {"a", "b"} ELSE {"a"}],
  Hosts <- <<"h1", "h2">>, Retries <- 3, MayCancel <- TRUE, MaxFaults <- 1,
  queue <- d_queue, worker <- d_worker, hostIdx <- d_hostIdx,
  blacklist <- d_blacklist, ctx <- d_ctx, errCh <- d_errCh,
  written <- d_written, result <- d_result, faults <- d_faults

\* A process that is told to end.
VARIABLES
  s_pc, s_running, s_busy, s_db, s_reqs, s_jobs, s_sig, s_exit, s_agent,
  s_idFile, s_regs, s_known, s_recovered, s_boots, s_faults
SvVars ==
  <<s_pc, s_running, s_busy, s_db, s_reqs, s_jobs, s_sig, s_exit, s_agent,
  s_idFile, s_regs, s_known, s_recovered, s_boots, s_faults>>
Sv == INSTANCE Serve WITH
  Subscribers <- {"p"}, Loops <- {"d"}, MaxReqs <- 1, MaxFaults <- 0,
  MaxBoots <- 1, MayFailWrite <- FALSE,
  pc <- s_pc, running <- s_running, busy <- s_busy, db <- s_db,
  reqs <- s_reqs, jobs <- s_jobs, sig <- s_sig, exit <- s_exit,
  agent <- s_agent, idFile <- s_idFile, regs <- s_regs, known <- s_known,
  recovered <- s_recovered, boots <- s_boots, faults <- s_faults

\* A container's log and the watcher for its ready line.
VARIABLES
  o_written, o_life, o_known, o_ready, o_reader, o_chan, o_out, o_handler,
  o_client
CoVars ==
  <<o_written, o_life, o_known, o_ready, o_reader, o_chan, o_out, o_handler,
  o_client>>
Co == INSTANCE Console WITH
  Streams <- {}, Blank <- {2}, ReadyLine <- 3, Cap <- 1, MaxLines <- 3,
  written <- o_written, life <- o_life, known <- o_known, ready <- o_ready,
  reader <- o_reader, chan <- o_chan, out <- o_out, handler <- o_handler,
  client <- o_client

\* A query loop that is stopped and started again.
VARIABLES
  q_loop, q_pollers, q_cancelled, q_cache, q_online, q_told, q_record,
  q_check, q_result, q_polls, q_faults
QuVars ==
  <<q_loop, q_pollers, q_cancelled, q_cache, q_online, q_told, q_record,
  q_check, q_result, q_polls, q_faults>>
Qu == INSTANCE Query WITH
  Loops <- {1, 2}, Players <- {1}, MayOverlap <- FALSE, MaxPolls <- 1,
  MaxFaults <- 1,
  loop <- q_loop, pollers <- q_pollers, cancelled <- q_cancelled,
  cache <- q_cache, online <- q_online, told <- q_told, record <- q_record,
  check <- q_check, result <- q_result, polls <- q_polls, faults <- q_faults

-----------------------------------------------------------------------------
vars ==
  <<part, EbVars, WhVars, RgVars, EnVars, SuVars, BkVars, UdVars, LkVars,
  CnVars, DlVars, SvVars, CoVars, QuVars>>

Init ==
  /\ part \in {"bus", "webhooks", "registry", "enroll", "catchup", "backup",
               "udp", "link", "container", "download", "serve", "console",
               "query"}
  /\ Eb!Init
  /\ Wh!Init
  /\ Rg!Init
  /\ En!Init
  /\ Su!Init
  /\ Bk!Init
  /\ Ud!Init
  /\ Lk!Init
  /\ Cn!Init
  /\ Dl!Init
  /\ Sv!Init
  /\ Co!Init
  /\ Qu!Init
\* A component that may start in several ways does so only in its own part.
  /\ part # "registry" => r_db = "absent"
  /\ part # "udp" => u_backend = 1
  /\ part # "query" => q_online = 1
  /\ part # "catchup" => c_made

Next ==
  \/ part = "bus" /\ Eb!Next
     /\ UNCHANGED <<part, WhVars, RgVars, EnVars, SuVars, BkVars, UdVars,
                    LkVars, CnVars, DlVars, SvVars, CoVars, QuVars>>
  \/ part = "webhooks" /\ Wh!Next
     /\ UNCHANGED <<part, EbVars, RgVars, EnVars, SuVars, BkVars, UdVars,
                    LkVars, CnVars, DlVars, SvVars, CoVars, QuVars>>
  \/ part = "registry" /\ Rg!Next
     /\ UNCHANGED <<part, EbVars, WhVars, EnVars, SuVars, BkVars, UdVars,
                    LkVars, CnVars, DlVars, SvVars, CoVars, QuVars>>
  \/ part = "enroll" /\ En!Next
     /\ UNCHANGED <<part, EbVars, WhVars, RgVars, SuVars, BkVars, UdVars,
                    LkVars, CnVars, DlVars, SvVars, CoVars, QuVars>>
  \/ part = "catchup" /\ Su!Next
     /\ UNCHANGED <<part, EbVars, WhVars, RgVars, EnVars, BkVars, UdVars,
                    LkVars, CnVars, DlVars, SvVars, CoVars, QuVars>>
  \/ part = "backup" /\ Bk!Next
     /\ UNCHANGED <<part, EbVars, WhVars, RgVars, EnVars, SuVars, UdVars,
                    LkVars, CnVars, DlVars, SvVars, CoVars, QuVars>>
  \/ part = "udp" /\ Ud!Next
     /\ UNCHANGED <<part, EbVars, WhVars, RgVars, EnVars, SuVars, BkVars,
                    LkVars, CnVars, DlVars, SvVars, CoVars, QuVars>>
  \/ part = "link" /\ Lk!Next
     /\ UNCHANGED <<part, EbVars, WhVars, RgVars, EnVars, SuVars, BkVars,
                    UdVars, CnVars, DlVars, SvVars, CoVars, QuVars>>
  \/ part = "container" /\ Cn!Next
     /\ UNCHANGED <<part, EbVars, WhVars, RgVars, EnVars, SuVars, BkVars,
                    UdVars, LkVars, DlVars, SvVars, CoVars, QuVars>>
  \/ part = "download" /\ Dl!Next
     /\ UNCHANGED <<part, EbVars, WhVars, RgVars, EnVars, SuVars, BkVars,
                    UdVars, LkVars, CnVars, SvVars, CoVars, QuVars>>
  \/ part = "serve" /\ Sv!Next
     /\ UNCHANGED <<part, EbVars, WhVars, RgVars, EnVars, SuVars, BkVars,
                    UdVars, LkVars, CnVars, DlVars, CoVars, QuVars>>
  \/ part = "console" /\ Co!Next
     /\ UNCHANGED <<part, EbVars, WhVars, RgVars, EnVars, SuVars, BkVars,
                    UdVars, LkVars, CnVars, DlVars, SvVars, QuVars>>
  \/ part = "query" /\ Qu!Next
     /\ UNCHANGED <<part, EbVars, WhVars, RgVars, EnVars, SuVars, BkVars,
                    UdVars, LkVars, CnVars, DlVars, SvVars, CoVars>>

Fairness ==
  /\ \A p \in {"p1", "p2"} : WF_EbVars(part = "bus" /\ (Eb!PublishReturns(p) \/ \E s \in Eb!Subscribers : Eb!Offer(p, s)))
  /\ WF_EbVars(part = "bus" /\ Eb!Persist)
  /\ WF_WhVars(part = "webhooks" /\ Wh!Poll)
  /\ WF_WhVars(part = "webhooks" /\ Wh!Mark)
  /\ \A d \in Wh!Ids : WF_WhVars(part = "webhooks" /\ Wh!Post(d))
  /\ \A d \in Wh!Ids : WF_WhVars(part = "webhooks" /\ Wh!Elapse(d))
  /\ WF_RgVars(part = "registry" /\ Rg!Register)
  /\ WF_RgVars(part = "registry" /\ Rg!LinkUp)
  /\ WF_RgVars(part = "registry" /\ Rg!Heartbeat("h"))
  /\ WF_RgVars(part = "registry" /\ Rg!HandlerStep("h"))
  /\ \A t \in Rg!Offliners : WF_RgVars(part = "registry" /\ Rg!OffStep(t))
  /\ \A c \in Rg!Conns : WF_RgVars(part = "registry" /\ Rg!WatchStep(c))
  /\ WF_EnVars(part = "enroll" /\ En!Controller)
  /\ WF_EnVars(part = "enroll" /\ En!Worker)
  /\ WF_EnVars(part = "enroll" /\ En!CallFails /\ UNCHANGED e_faults)
  /\ WF_SuVars(part = "catchup" /\ Su!Start)
  /\ WF_SuVars(part = "catchup" /\ Su!RecoverAll)
  /\ WF_SuVars(part = "catchup" /\ Su!catchUpMissed)
  /\ \A s \in {"x1", "x2"} :
       WF_SuVars(part = "catchup" /\ (Su!GetSchedule(s) \/ Su!Task(s) \/ Su!Retire(s) \/ Su!WriteBack(s)))
  /\ \A b \in 1..2 : WF_BkVars(part = "backup" /\ Bk!JobStep(b))
  /\ WF_BkVars(part = "backup" /\ Bk!RequestStep("u"))
  /\ WF_BkVars(part = "backup" /\ Bk!GameStep)
  /\ WF_UdVars(part = "udp" /\ Ud!Forward)
  /\ WF_UdVars(part = "udp" /\ Ud!Cleanup)
  /\ WF_UdVars(part = "udp" /\ Ud!End)
  /\ \A i \in Ud!Ids : WF_UdVars(part = "udp" /\ Ud!ReturnEnds(i))
  /\ WF_LkVars(part = "link" /\ Lk!Progress)
  /\ WF_LkVars(part = "link" /\ Lk!CancelContext)
  /\ WF_LkVars(part = "link" /\ Lk!OrphanEnds)
  /\ WF_CnVars(part = "container" /\ Cn!Progress)
  /\ WF_DlVars(part = "download" /\ Dl!Progress)
  /\ WF_SvVars(part = "serve" /\ Sv!StartUp)
  /\ WF_SvVars(part = "serve" /\ Sv!Shutdown)
  /\ WF_SvVars(part = "serve" /\ Sv!Agent)
  /\ \A l \in {"p", "d"} : WF_SvVars(part = "serve" /\ Sv!LoopDone(l))
  /\ \A l \in {"p", "d"} : SF_SvVars(part = "serve" /\ Sv!LoopEnds(l))
  /\ WF_CoVars(part = "console" /\ Co!Notice)
  /\ WF_CoVars(part = "console" /\ Co!SetExited)
  /\ WF_CoVars(part = "console" /\ Co!WatchLogs)
  /\ WF_CoVars(part = "console" /\ Co!WatchLine)
  /\ \A r \in Co!Readers : WF_CoVars(part = "console" /\ Co!Follow(r))
  /\ \A i \in 1..2 : WF_QuVars(part = "query" /\ Qu!Step(i))
  /\ \A i \in 1..2 :
       SF_QuVars(part = "query" /\ Qu!Wait(i) /\ i \in q_cancelled /\ q_loop'[i].pc = "ended")

Spec == Init /\ [][Next]_vars /\ Fairness

-----------------------------------------------------------------------------
\* The webhook deliveries implement the at-least-once outbox of WebhookOutbox.
DeliveriesAreOutbox == Wh!OutboxSpec

\* What was published is noticed: Publish returns although no client reads,
\* the persister comes to every event in its channel although inserts fail
\* (EventBus), and the ready line makes a running instance ready however
\* late its log was opened (worker: watchLogsLoop).
EventsAreNoticed ==
  Eb!PublishReturnsEventually /\ Eb!QueuedIsRead /\ Co!ReadyIsNoticed

\* A worker comes back: it is dialled back in the end, wherever it died while
\* it enrolled (cli/tls.go), and is registered again after every failure of the
\* link (registry.go).
WorkersReturn ==
  /\ part = "enroll" => En!Joins
  /\ part = "registry" => Rg!ComesBack

\* A call to a worker returns and so does the goroutine that serves it there,
\* whatever fails and whoever gives up in the middle of a stream
\* (worker/remote, worker/agent).
CallsReturn == Lk!CallReturns /\ Lk!HandlerEnds

\* A job that has begun ends: a backup in progress is completed or failed
\* (BackupService), the catch-up after a crash comes to its end
\* (Scheduler), and a download returns although servers fail
\* (steam/cdn.go).
JobsEnd ==
  /\ Bk!InProgressEnds
  /\ Su!CatchUpEnds
  /\ part = "download" => Dl!DownloadEnds

\* What is told to stop stops: the process on a signal (serve.go), a UDP
\* forwarder with its sockets and goroutines (udp.go), a container that does
\* not react to SIGTERM (the local worker), a loop that polls players (query.go).
StopsEnd ==
  Sv!ShutdownEnds /\ Ud!StopReleases /\ Cn!StopEnds /\ Qu!QueryLoopsEnd
=============================================================================
