----------------------------- MODULE MCControl ------------------------------
(* The controller's own services, each on its small instance.  As in MCData,  *)
(* a behaviour is one of ONE component: part says of which.  The components   *)
(* ControlProofs proves here what they promise have their variables by name;  *)
(* the others share the slots, in the order their modules declare them.       *)
EXTENDS Naturals, Sequences, FiniteSets

CONSTANTS
  \* of the event bus:
  Publishers, Clients, BusCapacity, BusEvents, Telemetry,
  \* of the webhook worker:
  Endpoints, EventTypes, ChanCapacity, BatchLimit, MaxAttempts, HookEvents,
  HookChanges, HookFaults,
  \* of the scheduler:
  Editors, CronSlots, EditTicks, Edits, EditCrashes, DownTicks, Crashes,
  \* of start-up and shutdown:
  Waited, Loops, ServeReqs, ServeFaults, ServeBoots,
  \* of the tokens, for claim codes and for the record of their use:
  TokenCallers, TokenNames, TokenRoles, CodeDraws, CodeChecks, UseDraws, UseChecks,
  \* of the API's gate, for its rate limit and for authentication:
  Requests, Routes, Burst, StaleTicks, RateArrivals, RateTicks, RateChanges,
  RateTurns,
  GateRequests, GateArrivals, GateTicks, GateChanges,
  \* of the settings:
  Patches, Config, Mode, MaxPatches, MaxNamed, SettingFaults, SettingBoots,
  \* of the vendors' lists:
  ListCallers, TTL, ListTime, ListReleases, ListFaults, ListCalls

ASSUME BusAssumption == BusCapacity \in Nat /\ BusEvents \in Nat
ASSUME HookAssumption ==
  HookEvents \in Nat /\ BatchLimit \in Nat /\ MaxAttempts \in Nat \ {0}
ASSUME GateAssumption == IsFiniteSet(Requests) /\ Burst \in Nat
ASSUME ListAssumption == TTL \in Nat \ {0}

VARIABLES part,  \* the component this behaviour is of
          s1, s2, s3, s4, s5, s6, s7, s8, s9, s10, s11, s12, s13, s14, s15,
          s16,
          \* of Tokens:
          tokens, op, draws, given, touched, logged, pending, batch, loop, checks,
          \* of RequestGate:
          limiter, bucket, idle, sweep, turns, rated, renewed, req, authOn, token,
          admitted, arrived, ticks, cleaned, changes,
          \* of Settings:
          mem, rows, unread, admins, patches, up, counts,
          \* of OptionsCache:
          now, release, cached, fetched, stored, writer, pc, got, answer, calls,
          faults

slots == <<s1, s2, s3, s4, s5, s6, s7, s8, s9, s10, s11, s12, s13, s14, s15, s16>>

tokenVars == <<tokens, op, draws, given, touched, logged, pending, batch, loop, checks>>
gateVars ==
  <<limiter, bucket, idle, sweep, turns, rated, renewed, req, authOn, token, admitted, arrived,
    ticks, cleaned, changes>>
settingVars == <<mem, rows, unread, admins, patches, up, counts>>
listVars == <<now, release, cached, fetched, stored, writer, pc, got, answer, calls, faults>>

vars  == <<part, slots, tokenVars, gateVars, settingVars, listVars>>

\* The event bus: two publishers, the persister, a client.
Eb == INSTANCE EventBus WITH
  Persister <- "persister", Capacity <- BusCapacity, MaxEvents <- BusEvents,
  subscribers <- s1, closed <- s2, chan <- s3, pub <- s4, sent <- s5,
  got <- s6, offered <- s7, dropped <- s8, table <- s9

\* Webhooks whose endpoint is edited.
Wh == INSTANCE Webhooks WITH
  Types <- EventTypes, Capacity <- ChanCapacity, MaxEvents <- HookEvents,
  MaxChanges <- HookChanges, MaxFaults <- HookFaults,
  endpoint <- s1, chan <- s2, typeOf <- s3, enq <- s4, rows <- s5, wake <- s6,
  batch <- s7, cache <- s8, posting <- s9, upd <- s10, created <- s11,
  accepted <- s12, posts <- s13, waited <- s14, changes <- s15, faults <- s16

\* A one-shot schedule that two users edit.
Sc == INSTANCE Scheduler WITH
  Type <- "restart", OneShot <- TRUE, Users <- Editors, Slots <- CronSlots,
  MaxTime <- EditTicks, MaxRequests <- Edits, MaxCrashes <- EditCrashes,
  phase <- s1, now <- s2, row <- s3, cron <- s4, entry <- s5, ids <- s6,
  exec <- s7, catchUp <- s8, req <- s9, owed <- s10, made <- s11,
  lost <- s12, requests <- s13, crashes <- s14

\* A repeated backup that one user edits.
Sd == INSTANCE Scheduler WITH
  Type <- "backup", OneShot <- FALSE, Users <- {"u"}, Slots <- CronSlots,
  MaxTime <- EditTicks, MaxRequests <- Edits, MaxCrashes <- EditCrashes,
  phase <- s1, now <- s2, row <- s3, cron <- s4, entry <- s5, ids <- s6,
  exec <- s7, catchUp <- s8, req <- s9, owed <- s10, made <- s11,
  lost <- s12, requests <- s13, crashes <- s14

\* A repeated backup over crashes of the controller.
Su == INSTANCE Scheduler WITH
  Type <- "backup", OneShot <- FALSE, Users <- {}, Slots <- CronSlots,
  MaxTime <- DownTicks, MaxRequests <- 0, MaxCrashes <- Crashes,
  phase <- s1, now <- s2, row <- s3, cron <- s4, entry <- s5, ids <- s6,
  exec <- s7, catchUp <- s8, req <- s9, owed <- s10, made <- s11,
  lost <- s12, requests <- s13, crashes <- s14

\* Tokens and claim codes.
Tk == INSTANCE Tokens WITH
  Callers <- TokenCallers, Names <- TokenNames, Roles <- TokenRoles,
  OneRedeemer <- TRUE, MaxDraws <- CodeDraws, MaxChecks <- CodeChecks

\* The record of when a token was used.
Tu == INSTANCE Tokens WITH
  Callers <- TokenCallers, Names <- TokenNames, Roles <- TokenRoles,
  OneRedeemer <- TRUE, MaxDraws <- UseDraws, MaxChecks <- UseChecks

\* The rate limiter and its cleanup, which no route makes a difference to.
Ra == INSTANCE RequestGate WITH
  Routes <- {"access"},
  MaxRequests <- RateArrivals, MaxTicks <- RateTicks, MaxChanges <- RateChanges,
  MaxTurns <- RateTurns

\* Authentication while tokens and settings change.
Ga == INSTANCE RequestGate WITH
  Requests <- GateRequests,
  MaxRequests <- GateArrivals, MaxTicks <- GateTicks, MaxChanges <- GateChanges,
  MaxTurns <- 0

\* Start-up and shutdown of the process, and its restart.
Sv == INSTANCE Serve WITH
  Subscribers <- Waited, MaxReqs <- ServeReqs, MaxFaults <- ServeFaults,
  MaxBoots <- ServeBoots, MayFailWrite <- FALSE,
  pc <- s1, running <- s2, busy <- s3, db <- s4, reqs <- s5, jobs <- s6,
  sig <- s7, exit <- s8, agent <- s9, idFile <- s10, regs <- s11,
  known <- s12, recovered <- s13, boots <- s14, faults <- s15

\* A data directory that takes no id file.
Sf == INSTANCE Serve WITH
  Subscribers <- Waited, MaxReqs <- ServeReqs, MaxFaults <- ServeFaults,
  MaxBoots <- ServeBoots, MayFailWrite <- TRUE,
  pc <- s1, running <- s2, busy <- s3, db <- s4, reqs <- s5, jobs <- s6,
  sig <- s7, exit <- s8, agent <- s9, idFile <- s10, regs <- s11,
  known <- s12, recovered <- s13, boots <- s14, faults <- s15

\* Settings: the configuration file, requests, a store that fails, a restart.
FileConfig == [k \in {"port_range_end", "localhost_bypass"} |->
               IF k = "port_range_end" THEN 3 ELSE 1]
St == INSTANCE Settings WITH
  Requests <- Patches, MayRace <- FALSE, MaxCalls <- MaxPatches,
  MaxFaults <- SettingFaults, MaxBoots <- SettingBoots, calls <- patches, n <- counts

\* The vendors' lists of versions.
Op == INSTANCE OptionsCache WITH
  Callers <- ListCallers, MaxTime <- ListTime, MaxRelease <- ListReleases,
  MaxFaults <- ListFaults, MaxCalls <- ListCalls

\* The console of a container, and a client that follows it.
Co == INSTANCE Console WITH
  Streams <- {"s"}, Blank <- {2}, ReadyLine <- 3, Cap <- 1, MaxLines <- 3,
  written <- s1, life <- s2, known <- s3, ready <- s4, reader <- s5,
  chan <- s6, out <- s7, handler <- s8, client <- s9

\* The end of a log, read in blocks.
Lt == INSTANCE LogTail WITH
  BlockSize <- 2, Wanted <- {1, 2}, MaxSize <- 6,
  file <- s1, n <- s2, size <- s3, offset <- s4, found <- s5, pc <- s6

\* Old logs, rotated while they are listed and read.
Ls == INSTANCE LogSessions WITH
  MaxPhases <- 4, MaxFaults <- 1,
  disk <- s1, phase <- s2, rot <- s3, list <- s4, read <- s5, before <- s6,
  fault <- s7

-----------------------------------------------------------------------------
\* The variables of a component this behaviour is not of.
NoSlots ==
  s1 = 0 /\ s2 = 0 /\ s3 = 0 /\ s4 = 0 /\ s5 = 0 /\ s6 = 0 /\ s7 = 0
  /\ s8 = 0 /\ s9 = 0 /\ s10 = 0 /\ s11 = 0 /\ s12 = 0 /\ s13 = 0 /\ s14 = 0
  /\ s15 = 0 /\ s16 = 0
NoTokens ==
  tokens = 0 /\ op = 0 /\ draws = 0 /\ given = 0 /\ touched = 0
  /\ logged = 0 /\ pending = 0 /\ batch = 0 /\ loop = 0 /\ checks = 0
NoGate ==
  limiter = 0 /\ bucket = 0 /\ idle = 0 /\ sweep = 0 /\ turns = 0 /\ rated = 0
  /\ renewed = 0 /\ req = 0 /\ authOn = 0
  /\ token = 0 /\ admitted = 0 /\ arrived = 0 /\ ticks = 0 /\ cleaned = 0
  /\ changes = 0
NoSettings ==
  mem = 0 /\ rows = 0 /\ unread = 0 /\ admins = 0 /\ patches = 0 /\ up = 0 /\ counts = 0
NoList ==
  now = 0 /\ release = 0 /\ cached = 0 /\ fetched = 0 /\ stored = 0
  /\ writer = 0 /\ pc = 0 /\ got = 0 /\ answer = 0 /\ calls = 0 /\ faults = 0

Parts ==
  {"bus", "webhooks", "schedule", "schedules", "catchup", "tokens",
   "tokenuse", "rate", "gate", "serve", "readonly", "settings", "options",
   "console", "tail", "sessions"}

Init ==
  /\ part \in Parts
  /\ \/ part = "bus" /\ Eb!Init
        /\ s10 = 0 /\ s11 = 0 /\ s12 = 0 /\ s13 = 0 /\ s14 = 0 /\ s15 = 0
        /\ s16 = 0
     \/ part = "webhooks" /\ Wh!Init
     \/ part = "schedule" /\ Sc!Init
        /\ s15 = 0 /\ s16 = 0
     \/ part = "schedules" /\ Sd!Init
        /\ s15 = 0 /\ s16 = 0
     \/ part = "catchup" /\ Su!Init
        /\ s15 = 0 /\ s16 = 0
     \/ part = "serve" /\ Sv!Init
        /\ s16 = 0
     \/ part = "readonly" /\ Sf!Init
        /\ s16 = 0
     \/ part = "console" /\ Co!Init
        /\ s10 = 0 /\ s11 = 0 /\ s12 = 0 /\ s13 = 0 /\ s14 = 0 /\ s15 = 0
        /\ s16 = 0
     \/ part = "tail" /\ Lt!Init
        /\ s7 = 0 /\ s8 = 0 /\ s9 = 0 /\ s10 = 0 /\ s11 = 0 /\ s12 = 0
        /\ s13 = 0 /\ s14 = 0 /\ s15 = 0 /\ s16 = 0
     \/ part = "sessions" /\ Ls!Init
        /\ s8 = 0 /\ s9 = 0 /\ s10 = 0 /\ s11 = 0 /\ s12 = 0 /\ s13 = 0
        /\ s14 = 0 /\ s15 = 0 /\ s16 = 0
     \/ part \in {"tokens", "tokenuse", "rate", "gate", "settings", "options"}
        /\ NoSlots
  /\ \/ part = "tokens" /\ Tk!Init
     \/ part = "tokenuse" /\ Tu!Init
     \/ part \notin {"tokens", "tokenuse"} /\ NoTokens
  /\ \/ part = "rate" /\ Ra!Init
     \/ part = "gate" /\ Ga!Init
     \/ part \notin {"rate", "gate"} /\ NoGate
  /\ \/ part = "settings" /\ St!Init
     \/ part # "settings" /\ NoSettings
  /\ \/ part = "options" /\ Op!Init
     \/ part # "options" /\ NoList

\* The components that are not in slots stay as they are.
NamedStay == UNCHANGED <<tokenVars, gateVars, settingVars, listVars>>

Next ==
  \/ part = "bus" /\ Eb!Next /\ NamedStay
     /\ UNCHANGED <<part, s10, s11, s12, s13, s14, s15, s16>>
  \/ part = "webhooks" /\ Wh!Next /\ NamedStay
     /\ UNCHANGED part
  \/ part = "schedule" /\ Sc!Next /\ NamedStay
     /\ UNCHANGED <<part, s15, s16>>
  \/ part = "schedules" /\ Sd!Next /\ NamedStay
     /\ UNCHANGED <<part, s15, s16>>
  \/ part = "catchup" /\ Su!Next /\ NamedStay
     /\ UNCHANGED <<part, s15, s16>>
  \/ part = "tokens" /\ Tk!Next
     /\ UNCHANGED <<part, slots, gateVars, settingVars, listVars>>
  \/ part = "tokenuse" /\ Tu!Next
     /\ UNCHANGED <<part, slots, gateVars, settingVars, listVars>>
  \/ part = "rate" /\ Ra!Next
     /\ UNCHANGED <<part, slots, tokenVars, settingVars, listVars>>
  \/ part = "gate" /\ Ga!Next
     /\ UNCHANGED <<part, slots, tokenVars, settingVars, listVars>>
  \/ part = "serve" /\ Sv!Next /\ NamedStay
     /\ UNCHANGED <<part, s16>>
  \/ part = "readonly" /\ Sf!Next /\ NamedStay
     /\ UNCHANGED <<part, s16>>
  \/ part = "settings" /\ St!Next
     /\ UNCHANGED <<part, slots, tokenVars, gateVars, listVars>>
  \/ part = "options" /\ Op!Next
     /\ UNCHANGED <<part, slots, tokenVars, gateVars, settingVars>>
  \/ part = "console" /\ Co!Next /\ NamedStay
     /\ UNCHANGED <<part, s10, s11, s12, s13, s14, s15, s16>>
  \/ part = "tail" /\ Lt!Next /\ NamedStay
     /\ UNCHANGED <<part, s7, s8, s9, s10, s11, s12, s13, s14, s15, s16>>
  \/ part = "sessions" /\ Ls!Next /\ NamedStay
     /\ UNCHANGED <<part, s8, s9, s10, s11, s12, s13, s14, s15, s16>>

Spec == Init /\ [][Next]_vars

-----------------------------------------------------------------------------
\* Each component's type invariant.
TypeOK ==
  /\ part = "bus" => Eb!TypeOK
  /\ part = "webhooks" => Wh!TypeOK
  /\ part = "schedule" => Sc!TypeOK
  /\ part = "tokens" => Tk!TypeOK
  /\ part = "rate" => Ra!TypeOK
  /\ part = "serve" => Sv!TypeOK
  /\ part = "settings" => St!TypeOK
  /\ part = "options" => Op!TypeOK
  /\ part = "console" => Co!TypeOK

\* No event is lost without a trace: none is sent on a closed channel, each
\* is read, queued or counted as dropped, and a delivery to a webhook that has
\* not been tried has a wake-up coming (EventBus, WebhookWorker).
EventsAreAccounted ==
  /\ part = "bus" => Eb!NoSendOnClosed /\ Eb!Accounted
  /\ part = "webhooks" => Wh!NoLostWakeup /\ Wh!PostsBounded

\* A schedule fires as its row says: cron has exactly the entry the scheduler
\* knows of, none for a row that a request deleted (the rows of a deleted
\* gameserver's schedules leave theirs behind), and a backup that was missed
\* while the controller was down is tried by the next start that can list the
\* schedules (Scheduler).
SchedulesHold ==
  /\ part = "schedule" => Sc!OneEntry
  /\ part = "schedules" => Sd!NoOrphanEntry
  /\ part = "catchup" => Su!MissedRunsOnStartup

\* Access is what was granted: a claim code is exchanged once, no use of a
\* token goes unnoted but one whose write failed, the rate limit holds up to
\* what its races and a changed rate cost, and no request is served on rights
\* that were gone before it came
\* (AuthService, the API's middleware).
AccessHolds ==
  /\ part = "tokens" => Tk!SingleUse
  /\ part = "tokenuse" => Tu!UseIsNoted
  /\ part = "rate" => Ra!RateHolds
  /\ part = "gate" => Ga!ServedIsEntitled

\* A process that gets to the end of its shutdown closes the database last, one
\* that a single signal ends earlier has waited for the loops that work on the
\* database file, and its worker registers with the same id in every boot
\* (cli/serve.go).
CleanShutdown ==
  /\ part = "serve" => Sv!CleanShutdown /\ Sv!IdIsStable
  /\ part = "readonly" => Sf!CleanShutdown

\* A log is served as it was written: a stream has every line once and in
\* order and ends only when everything was read, the tail is the last lines,
\* and sessions are listed in order while they are rotated.
LogsAreServed ==
  /\ part = "console" => Co!StreamIsLog /\ Co!EofIsWhole
  /\ part = "tail" => Lt!TailIsLast
  /\ part = "sessions" => Ls!SessionsInOrder

\* What is kept in memory is what is stored: a setting nobody is writing is
\* served as a restart would load it, but after a start that could not read the
\* table; a vendor's list is fetched by one caller at a time and only when there
\* is no young one, and an old list or an error is returned only by a call whose
\* own fetch failed (settings.go, options.go).
CachesAgree ==
  /\ [](part = "settings" => St!ServedIsStored)
  /\ [](part = "options" => Op!OneFetch)
  /\ [][part = "options" => Op!OldOnlyOnFailure]_vars
=============================================================================
