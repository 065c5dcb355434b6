-------------------------------- MODULE Query --------------------------------
(***************************************************************************)
(* What is known of a running gameserver from outside: the loops of        *)
(* QueryService that ask the game for its players (cluster/query.go), and  *)
(* the checks of ReachabilityChecker that ask the browser service whether  *)
(* the gameserver can be reached (cluster/reachability.go).  Both belong   *)
(* to one gameserver; loops are numbered by StartPolling, checks by the    *)
(* ready events.  A worker reports "running" twice for each start, before  *)
(* and after it is ready, so loops overlap.                                *)
(***************************************************************************)
EXTENDS Naturals, FiniteSets

CONSTANTS
    Loops,      \* bound: 1..n, calls of StartPolling
    Players,    \* numbers of players the game may report
    MayOverlap, \* may a new loop start before the one before has ended?
    MaxPolls,   \* bound: ticks
    MaxFaults   \* bound: queries that fail

None == 99      \* no data

VARIABLES
    loop,       \* each loop: pc, and the players it was told
    pollers,    \* the loop whose cancel function is registered, 0 for none
    cancelled,  \* loops whose context is cancelled
    cache,      \* QueryService.cache of the gameserver
    online,     \* players really there
    told,       \* what the last gameserver.query event said
    record,     \* does the gameserver exist?
    check,      \* the reachability check: "none", "asking", "answered"
    result,     \* ReachabilityChecker.results: has it one?
    polls, faults

vars == <<loop, pollers, cancelled, cache, online, told, record, check, result, polls, faults>>
world == <<online, record, check, result>>

Init ==
    /\ loop = [l \in Loops |-> [pc |-> "none", players |-> None]]
    /\ pollers = 0 /\ cancelled = {} /\ cache = None /\ online \in Players /\ told = None
    /\ record = TRUE /\ check = "none" /\ result = FALSE
    /\ polls = 0 /\ faults = 0

At(l, pc) == loop[l].pc = pc
Goto(l, pc) == loop' = [loop EXCEPT ![l].pc = pc]
Fault == faults < MaxFaults /\ faults' = faults + 1
Next1(l) == l = Cardinality({k \in Loops : ~At(k, "none")}) + 1
Over(l) == ~At(l, "none") /\ ~At(l, "ended")

(* Mutant of StartPolling: the loop before is forgotten, not cancelled. *)
StartPollingAgain(l) ==
    /\ Next1(l) /\ (MayOverlap \/ ~\E k \in Loops : Over(k))
    /\ record
    /\ pollers' = l /\ cache' = None
    /\ Goto(l, "load")
    /\ UNCHANGED <<cancelled, told, world, polls, faults>>

(* The record is there and the game can be queried: a new loop replaces the *)
(* one before, and the cache is emptied.                                    *)
StartPolling(l) ==
    /\ Next1(l) /\ (MayOverlap \/ ~\E k \in Loops : Over(k))
    /\ record
    /\ pollers' = l /\ cancelled' = cancelled \cup ({pollers} \ {0}) /\ cache' = None
    /\ Goto(l, "load")
    /\ UNCHANGED <<told, world, polls, faults>>

(* StopPolling when it has exited or is deleted, StopAll at shutdown. *)
StopPolling ==
    /\ cancelled' = cancelled \cup ({pollers} \ {0}) /\ pollers' = 0 /\ cache' = None
    /\ UNCHANGED <<loop, told, world, polls, faults>>

(* A loop ends when its gameserver is gone from the table. *)
Load(l) ==
    /\ At(l, "load")
    /\ Goto(l, IF record THEN "query" ELSE "ended")
    /\ UNCHANGED <<pollers, cancelled, cache, told, world, polls, faults>>

(* gjq.Query: an answer, or an error (also when the context is cancelled). *)
Query(l) ==
    /\ At(l, "query")
    /\ \/ loop' = [loop EXCEPT ![l] = [pc |-> "store", players |-> online]] /\ UNCHANGED faults
       \/ l \in cancelled /\ Goto(l, "wait") /\ UNCHANGED faults
       \/ Fault /\ Goto(l, "wait")
    /\ UNCHANGED <<pollers, cancelled, cache, told, world, polls>>

(* Mutant of Store: an answer that differs is stored and not published. *)
StoreQuietly(l) ==
    /\ At(l, "store")
    /\ cache' = loop[l].players
    /\ Goto(l, IF cache = None THEN "publish" ELSE "wait")
    /\ UNCHANGED <<pollers, cancelled, told, world, polls, faults>>

(* Under the lock: the answer replaces the cache; it is published, without  *)
(* the lock, if it differs.                                                 *)
Store(l) ==
    /\ At(l, "store")
    /\ cache' = loop[l].players
    /\ Goto(l, IF cache = loop[l].players THEN "wait" ELSE "publish")
    /\ UNCHANGED <<pollers, cancelled, told, world, polls, faults>>

Publish(l) ==
    /\ At(l, "publish")
    /\ told' = loop[l].players
    /\ Goto(l, "wait")
    /\ UNCHANGED <<pollers, cancelled, cache, world, polls, faults>>

(* Mutant of Wait: the loop is not told of its cancellation. *)
WaitOnly(l) ==
    /\ At(l, "wait")
    /\ polls < MaxPolls /\ polls' = polls + 1 /\ Goto(l, "load")
    /\ UNCHANGED <<pollers, cancelled, cache, told, world, faults>>

(* The select: the context is done, or the ticker fires. *)
Wait(l) ==
    /\ At(l, "wait")
    /\ \/ l \in cancelled /\ Goto(l, "ended") /\ UNCHANGED polls
       \/ polls < MaxPolls /\ polls' = polls + 1 /\ Goto(l, "load")
    /\ UNCHANGED <<pollers, cancelled, cache, told, world, faults>>

(* A ready event: the record and its address are read, the service asked.   *)
(* A service that does not answer is passed over.                           *)
Check ==
    /\ check = "none" /\ record /\ check' = "asking"
    /\ UNCHANGED <<loop, pollers, cancelled, cache, online, told, record, result, polls, faults>>

Answer ==
    /\ check = "asking"
    /\ \/ check' = "answered" /\ result' = TRUE
       \/ check' = "none" /\ UNCHANGED result
    /\ UNCHANGED <<loop, pollers, cancelled, cache, online, told, record, polls, faults>>

Join ==
    /\ online' \in Players \ {online}
    /\ UNCHANGED <<loop, pollers, cancelled, cache, told, record, check, result, polls, faults>>

(* Delete: the record goes, and StopPolling with it. *)
Delete ==
    /\ record /\ record' = FALSE
    /\ cancelled' = cancelled \cup ({pollers} \ {0}) /\ pollers' = 0 /\ cache' = None
    /\ UNCHANGED <<loop, told, online, check, result, polls, faults>>

Step(l) == Load(l) \/ Query(l) \/ Store(l) \/ Publish(l) \/ Wait(l)

Next ==
    \/ \E l \in Loops : StartPolling(l) \/ Step(l)
    \/ StopPolling \/ Check \/ Answer \/ Join \/ Delete

Spec == Init /\ [][Next]_vars
(* Every loop's goroutine runs; nothing else has to happen. *)
FairSpec == Spec /\ \A l \in Loops : WF_vars(Step(l)) /\ SF_vars(Wait(l) /\ l \in cancelled /\ loop'[l].pc = "ended")

-----------------------------------------------------------------------------
(* At most one loop of a gameserver is not cancelled, and it is the one     *)
(* whose cancel function is registered: none is beyond the reach of         *)
(* StopPolling (StartPolling).                                              *)
OneQueryLoop == \A l \in Loops : ~At(l, "none") /\ ~At(l, "ended") /\ l \notin cancelled => l = pollers

(* What the last event said is what the API serves, once nobody is between  *)
(* the cache and the bus (pollLoop).                                        *)
PlayersAreTold ==
    cache /= None /\ (\A l \in Loops : ~At(l, "publish")) => told = cache

(* A loop that is cancelled ends (pollLoop). *)
QueryLoopsEnd == \A l \in Loops : (l \in cancelled) ~> At(l, "ended")
=============================================================================
