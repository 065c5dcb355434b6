----------------------------- MODULE Telemetry ------------------------------
(* Statistics of one gameserver: the poll loops of StatsPoller               *)
(* (cluster/stats.go), the buffer its flusher writes to the database, and    *)
(* the subscriber that turns stats events into storage warnings              *)
(* (warning/warning.go).  Loops are numbered by StartPolling.                *)
EXTENDS Naturals, Sequences, FiniteSets, SequencesExt

CONSTANTS Loops,       \* bound: 1 .. n, calls of StartPolling
          Sizes,       \* sizes of the volume, in percent of its limit
          WarnAt, CriticalAt,   \* storage_warning_threshold, storage_critical_threshold
          MaxPolls,    \* bound: ticks, the first poll of each loop not counted
          MaxFaults    \* bound: failing calls of the worker or the database

VARIABLES poll,      \* each loop: where it is, and the size it has read
          pollers,   \* the loop whose cancel function is registered, 0 for none
          cancelled, \* loops whose context is cancelled
          cache,     \* the cached statistics, 0 for none: the loop they are from
          usage,     \* the real size of the volume
          events,    \* stats events on their way to the subscriber
          active,    \* the level of the storage warning
          emitted,   \* the last warning event
          buf,       \* samples waiting for the flusher
          batch,     \* samples being written
          written,   \* samples in the database
          lost,      \* samples of failed inserts
          flusher,   \* the flusher's goroutine
          polls, faults

vars == <<poll, pollers, cancelled, cache, usage, events, active, emitted, buf,
          batch, written, lost, flusher, polls, faults>>

stats == <<buf, batch, written, lost, flusher>>

Idle == [pc |-> "none", size |-> 0]

Init ==
  /\ poll = [l \in Loops |-> Idle]
  /\ pollers = 0
  /\ cancelled = {}
  /\ cache = 0
  /\ usage \in Sizes
  /\ events = <<>>
  /\ active = ""
  /\ emitted = "none"
  /\ buf = {}
  /\ batch = {}
  /\ written = {}
  /\ lost = {}
  /\ flusher = "running"
  /\ polls = 0
  /\ faults = 0

Fault == faults < MaxFaults /\ faults' = faults + 1
At(l, pc) == poll[l].pc = pc

\* Mutant: the old loop is not cancelled.
StartPollingAgain(l) ==
  /\ l = Cardinality({k \in Loops : ~At(k, "none")}) + 1
  /\ pollers' = l
  /\ cache' = 0
  /\ poll' = [poll EXCEPT ![l].pc = "poll"]
  /\ UNCHANGED <<cancelled, usage, events, active, emitted, stats, polls, faults>>

\* The gameserver runs: a new loop replaces the old one.
StartPolling(l) ==
  /\ l = Cardinality({k \in Loops : ~At(k, "none")}) + 1
  /\ pollers' = l
  /\ cancelled' = cancelled \cup ({pollers} \ {0})
  /\ cache' = 0
  /\ poll' = [poll EXCEPT ![l].pc = "poll"]
  /\ UNCHANGED <<usage, events, active, emitted, stats, polls, faults>>

\* The gameserver has stopped or its worker is gone.
StopPolling ==
  /\ cancelled' = cancelled \cup ({pollers} \ {0})
  /\ pollers' = 0
  /\ cache' = 0
  /\ UNCHANGED <<poll, usage, events, active, emitted, stats, polls, faults>>

\* StopAll also stops the flusher, which writes the buffer once more.
StopAll ==
  /\ flusher = "running"
  /\ cancelled' = cancelled \cup ({pollers} \ {0})
  /\ pollers' = 0
  /\ cache' = 0
  /\ flusher' = "stopping"
  /\ UNCHANGED <<poll, usage, events, active, emitted, buf, batch, written, lost, polls, faults>>

\* pollOnce: a record or worker that is gone ends the loop (the result of the
\* first poll is not looked at); a size that cannot be read stays zero.
Read(l) ==
  /\ At(l, "poll")
  /\ \/ poll' = [poll EXCEPT ![l] = [pc |-> "cache", size |-> usage]] /\ UNCHANGED faults
     \/ l \in cancelled /\ poll' = [poll EXCEPT ![l] = [pc |-> "cache", size |-> 0]] /\ UNCHANGED faults
     \/ Fault /\ poll' = [poll EXCEPT ![l] = [pc |-> "cache", size |-> 0]]
     \/ Fault /\ \E pc \in {"ended", "wait"} : poll' = [poll EXCEPT ![l].pc = pc]
  /\ UNCHANGED <<pollers, cancelled, cache, usage, events, active, emitted, stats, polls>>

\* The result is cached and published, although the loop may be cancelled.
Publish(l) ==
  /\ At(l, "cache")
  /\ cache' = l
  /\ events' = Append(events, poll[l].size)
  /\ poll' = [poll EXCEPT ![l].pc = "buffer"]
  /\ UNCHANGED <<pollers, cancelled, usage, active, emitted, stats, polls, faults>>

\* The sample joins the buffer; its number is the number of samples before it.
Buffer(l) ==
  /\ At(l, "buffer")
  /\ buf' = buf \cup {Cardinality(buf \cup batch \cup written \cup lost) + 1}
  /\ poll' = [poll EXCEPT ![l] = [pc |-> "wait", size |-> 0]]
  /\ UNCHANGED <<pollers, cancelled, cache, usage, events, active, emitted, batch,
                 written, lost, flusher, polls, faults>>

\* The select of pollLoop: the context is done, or the ticker fires; when both
\* are ready either may win.
Wait(l) ==
  /\ At(l, "wait")
  /\ \/ l \in cancelled /\ poll' = [poll EXCEPT ![l].pc = "ended"] /\ UNCHANGED polls
     \/ /\ polls < MaxPolls
        /\ polls' = polls + 1
        /\ poll' = [poll EXCEPT ![l].pc = "poll"]
  /\ UNCHANGED <<pollers, cancelled, cache, usage, events, active, emitted, stats, faults>>

\* Mutant: the batch is written from the buffer, which is cleared afterwards.
TakeBatchKeeps ==
  /\ flusher \in {"running", "stopping"}
  /\ batch = {}
  /\ batch' = buf
  /\ flusher' = IF buf = {} /\ flusher = "stopping" THEN "stopped" ELSE flusher
  /\ buf' = buf
  /\ UNCHANGED <<poll, pollers, cancelled, cache, usage, events, active, emitted,
                 written, lost, polls, faults>>

\* flushStats: the buffer is taken under its lock ...
TakeBatch ==
  /\ flusher \in {"running", "stopping"}
  /\ batch = {}
  /\ batch' = buf
  /\ buf' = {}
  /\ flusher' = IF buf = {} /\ flusher = "stopping" THEN "stopped" ELSE flusher
  /\ UNCHANGED <<poll, pollers, cancelled, cache, usage, events, active, emitted,
                 written, lost, polls, faults>>

\* ... and written without it; an error is logged and the batch dropped.
InsertBatch ==
  /\ batch # {}
  /\ batch' = {}
  /\ \/ written' = written \cup batch /\ UNCHANGED <<lost, faults>>
     \/ Fault /\ lost' = lost \cup batch /\ UNCHANGED written
  /\ flusher' = IF flusher = "stopping" THEN "stopped" ELSE flusher
  /\ UNCHANGED <<poll, pollers, cancelled, cache, usage, events, active, emitted, buf, polls>>

\* Mutant: a level of its own below the thresholds.
LevelOk(pct) ==
  IF pct >= CriticalAt THEN "critical" ELSE IF pct >= WarnAt THEN "warning" ELSE "ok"

Level(pct) ==
  IF pct >= CriticalAt THEN "critical" ELSE IF pct >= WarnAt THEN "warning" ELSE ""

\* Mutant: a cleared warning stays active.
CheckStorageSticky ==
  LET new == Level(Head(events)) IN
  /\ events # <<>>
  /\ events' = Tail(events)
  /\ IF new = active
     THEN UNCHANGED <<active, emitted>>
     ELSE /\ active' = IF new = "" THEN active ELSE new
          /\ emitted' = IF new = "" THEN "resolved" ELSE new
  /\ UNCHANGED <<poll, pollers, cancelled, cache, usage, stats, polls, faults>>

\* checkStorage: one event per change of level, "resolved" when it clears.
checkStorage ==
  LET new == Level(Head(events)) IN
  /\ events # <<>>
  /\ events' = Tail(events)
  /\ IF new = active
     THEN UNCHANGED <<active, emitted>>
     ELSE active' = new /\ emitted' = IF new = "" THEN "resolved" ELSE new
  /\ UNCHANGED <<poll, pollers, cancelled, cache, usage, stats, polls, faults>>

\* The game writes to its volume.
Grow ==
  /\ \E s \in Sizes : s > usage /\ usage' = s
  /\ UNCHANGED <<poll, pollers, cancelled, cache, events, active, emitted, stats, polls, faults>>

LoopStep(l) == Read(l) \/ Publish(l) \/ Buffer(l) \/ Wait(l)

Next ==
  \/ \E l \in Loops : StartPolling(l) \/ LoopStep(l)
  \/ StopPolling \/ StopAll \/ TakeBatch \/ InsertBatch \/ checkStorage \/ Grow

Spec == Init /\ [][Next]_vars

-----------------------------------------------------------------------------
\* Every variable has its type.
TypeOK ==
  /\ poll \in [Loops -> [pc : {"none", "poll", "cache", "buffer", "wait", "ended"},
                         size : Sizes \cup {0}]]
  /\ pollers \in Loops \cup {0}
  /\ cancelled \subseteq Loops
  /\ cache \in Loops \cup {0}
  /\ active \in {"", "warning", "critical"}
  /\ emitted \in {"none", "resolved", "warning", "critical"}

\* At most one loop is left uncancelled, the one StopPolling can still reach:
\* a loop that falls out of the map would poll for ever.
OneLoop ==
  \A l \in Loops : At(l, "none") \/ At(l, "ended") \/ l \in cancelled \/ l = pollers

\* A sample is in one place only: it is never written twice, and it is lost
\* only with a failed insert.
SampleOnce ==
  /\ buf \cap (batch \cup written \cup lost) = {}
  /\ batch \cap (written \cup lost) = {}
  /\ written \cap lost = {}

\* The last warning event tells the level in force: a client that follows the
\* events knows whether the warning is active, and how severe it is.
EventsTellLevel ==
  emitted = (IF active # "" THEN active ELSE IF emitted = "none" THEN "none" ELSE "resolved")

\* A warning is resolved only when the condition has cleared ("emits a
\* 'resolved' when it clears"): the volume never shrinks in this model.
ResolvedWhenClear == [][active # "" /\ active' = "" => Level(usage) = ""]_vars
=============================================================================
