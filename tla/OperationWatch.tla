--------------------------- MODULE OperationWatch ---------------------------
(***************************************************************************)
(* The live progress of a gameserver's operation: Watch, notifyWatchers,   *)
(* setPhase and clearOperation of controller/gameserver/live.go, and the   *)
(* handler OperationStream of api/handler/gameservers_live.go.             *)
(*                                                                         *)
(* The operation is changed under g.mu and told to the watchers after the  *)
(* lock is released, with a publish on the bus in between: by the          *)
(* operation's own goroutine and by HandleProcessEvent, which may overtake *)
(* each other.  A watcher's channel holds one value; a notifier drains it  *)
(* and then puts its own, if no other has done so in between.  Several     *)
(* notifiers work at once: they share the lock of the watchers.            *)
(***************************************************************************)
EXTENDS Integers, Sequences, FiniteSets

CONSTANTS
    Watchers,  \* OperationStream requests
    Overtakes, \* may an exit be handled while the operation's goroutine is at work?
    MaxOps     \* bound: operations

Idle == 0      \* no operation; an operation is its number
Ops == 1..MaxOps
Kinds == {"start", "stop"}
EventHandler == 0
Notifiers == {EventHandler} \cup Ops

VARIABLES
    operation,  \* LiveGameserver.operation
    ops,        \* operations begun so far
    kind,       \* per operation: a start is cleared by the event that it is ready
    op,         \* per operation: pc of its goroutine
    event,      \* HandleProcessEvent: "idle", or "cleared" with the notice still to give
    note,       \* per notifier: the notice it is giving: value, and the step for each watcher
    watcher,    \* per watcher: "none", "watching", "looping", "gone"
    chan,       \* per watcher: its channel, <<>> or one value
    shown,      \* per watcher: what its client was last sent, -1 for nothing
    panicked    \* was a value sent on a closed channel?

vars == <<operation, ops, kind, op, event, note, watcher, chan, shown, panicked>>

NoNote == [val |-> -1, todo |-> {}, drained |-> {}]

Init ==
    /\ operation = Idle /\ ops = 0 /\ kind \in [Ops -> Kinds]
    /\ op = [o \in Ops |-> "none"] /\ event = "idle"
    /\ note = [n \in Notifiers |-> NoNote]
    /\ watcher = [w \in Watchers |-> "none"]
    /\ chan = [w \in Watchers |-> <<>>] /\ shown = [w \in Watchers |-> -1]
    /\ panicked = FALSE

Registered == {w \in Watchers : watcher[w] \in {"watching", "looping"}}

-----------------------------------------------------------------------------
(* submitOperation: the operation is installed, its goroutine starts. *)
Submit ==
    /\ operation = Idle /\ ops < MaxOps
    /\ ops' = ops + 1 /\ operation' = ops'
    /\ op' = [op EXCEPT ![ops'] = "phase"]
    /\ UNCHANGED <<kind, event, note, watcher, chan, shown, panicked>>

(* setPhase under g.mu: without an operation it does nothing. *)
SetPhase(o) ==
    /\ op[o] = "phase"
    /\ op' = [op EXCEPT ![o] = IF operation = Idle THEN "work" ELSE "tell"]
    /\ UNCHANGED <<operation, ops, kind, event, note, watcher, chan, shown, panicked>>

(* ... and after the unlock and the publish: the notice begins, for the     *)
(* watchers of that moment.                                                 *)
Begin(n, v) ==
    note' = [note EXCEPT ![n] = [val |-> v, todo |-> Registered, drained |-> {}]]

TellPhase(o) ==
    /\ op[o] = "tell"
    /\ Begin(o, o) /\ op' = [op EXCEPT ![o] = "telling"]
    /\ UNCHANGED <<operation, ops, kind, event, watcher, chan, shown, panicked>>

PhaseTold(o) ==
    /\ op[o] = "telling" /\ note[o].todo = {}
    /\ note' = [note EXCEPT ![o] = NoNote] /\ op' = [op EXCEPT ![o] = "work"]
    /\ UNCHANGED <<operation, ops, kind, event, watcher, chan, shown, panicked>>

(* The work is done.  A start leaves the operation to the event that says   *)
(* it is ready; any other, and a start that failed, clears it.              *)
Launched(o) ==
    /\ op[o] = "work" /\ kind[o] = "start"
    /\ op' = [op EXCEPT ![o] = "launched"]
    /\ UNCHANGED <<operation, ops, kind, event, note, watcher, chan, shown, panicked>>

(* Mutant of ClearOperation: nobody is told. *)
ClearOperationQuietly(o) ==
    /\ op[o] = "work"
    /\ operation' = Idle
    /\ op' = [op EXCEPT ![o] = "ended"]
    /\ UNCHANGED <<ops, kind, event, note, watcher, chan, shown, panicked>>

ClearOperation(o) ==
    /\ op[o] = "work"
    /\ operation' = Idle
    /\ op' = [op EXCEPT ![o] = "cleared"]
    /\ UNCHANGED <<ops, kind, event, note, watcher, chan, shown, panicked>>

TellCleared(o) ==
    /\ op[o] = "cleared"
    /\ Begin(o, Idle) /\ op' = [op EXCEPT ![o] = "clearing"]
    /\ UNCHANGED <<operation, ops, kind, event, watcher, chan, shown, panicked>>

ClearTold(o) ==
    /\ op[o] = "clearing" /\ note[o].todo = {}
    /\ note' = [note EXCEPT ![o] = NoNote] /\ op' = [op EXCEPT ![o] = "ended"]
    /\ UNCHANGED <<operation, ops, kind, event, watcher, chan, shown, panicked>>

(* HandleProcessEvent: ready once launched, or an exit at any time, clears  *)
(* the operation under g.mu and tells later.                                *)
ProcessEvent ==
    /\ event = "idle" /\ operation /= Idle
    /\ Overtakes \/ op[operation] = "launched"
    /\ operation' = Idle /\ event' = "cleared"
    /\ UNCHANGED <<ops, kind, op, note, watcher, chan, shown, panicked>>

TellEvent ==
    /\ event = "cleared"
    /\ Begin(EventHandler, Idle) /\ event' = "telling"
    /\ UNCHANGED <<operation, ops, kind, op, watcher, chan, shown, panicked>>

EventTold ==
    /\ event = "telling" /\ note[EventHandler].todo = {}
    /\ note' = [note EXCEPT ![EventHandler] = NoNote] /\ event' = "idle"
    /\ UNCHANGED <<operation, ops, kind, op, watcher, chan, shown, panicked>>

-----------------------------------------------------------------------------
(* notifyWatchers, per watcher: drain, then put unless it is full again. *)
Drain(n, w) ==
    /\ w \in note[n].todo \ note[n].drained
    /\ chan' = [chan EXCEPT ![w] = <<>>]
    /\ note' = [note EXCEPT ![n].drained = @ \cup {w}]
    /\ UNCHANGED <<operation, ops, kind, op, event, watcher, shown, panicked>>

Put(n, w) ==
    /\ w \in note[n].todo \cap note[n].drained
    /\ chan' = IF chan[w] = <<>> THEN [chan EXCEPT ![w] = <<note[n].val>>] ELSE chan
    /\ panicked' = (panicked \/ watcher[w] = "gone")
    /\ note' = [note EXCEPT ![n].todo = @ \ {w}]
    /\ UNCHANGED <<operation, ops, kind, op, event, watcher, shown>>

-----------------------------------------------------------------------------
(* watcherMu: Watch and unwatch wait until nobody is notifying. *)
NobodyNotifies == \A n \in Notifiers : note[n].todo = {}

Watch(w) ==
    /\ watcher[w] = "none" /\ NobodyNotifies
    /\ watcher' = [watcher EXCEPT ![w] = "watching"]
    /\ UNCHANGED <<operation, ops, kind, op, event, note, chan, shown, panicked>>

(* GetOperation, sent first so that the client does not start blank. *)
SendCurrent(w) ==
    /\ watcher[w] = "watching"
    /\ shown' = [shown EXCEPT ![w] = operation]
    /\ watcher' = [watcher EXCEPT ![w] = "looping"]
    /\ UNCHANGED <<operation, ops, kind, op, event, note, chan, panicked>>

Send(w) ==
    /\ watcher[w] = "looping" /\ chan[w] /= <<>>
    /\ shown' = [shown EXCEPT ![w] = Head(chan[w])]
    /\ chan' = [chan EXCEPT ![w] = <<>>]
    /\ UNCHANGED <<operation, ops, kind, op, event, note, watcher, panicked>>

(* Mutant of Unwatch: the channel is closed without the lock. *)
UnwatchUnlocked(w) ==
    /\ watcher[w] = "looping"
    /\ watcher' = [watcher EXCEPT ![w] = "gone"]
    /\ chan' = [chan EXCEPT ![w] = <<>>]
    /\ UNCHANGED <<operation, ops, kind, op, event, note, shown, panicked>>

(* The client leaves: removed from the map and closed, under the lock. *)
Unwatch(w) ==
    /\ watcher[w] = "looping" /\ NobodyNotifies
    /\ watcher' = [watcher EXCEPT ![w] = "gone"]
    /\ chan' = [chan EXCEPT ![w] = <<>>]
    /\ UNCHANGED <<operation, ops, kind, op, event, note, shown, panicked>>

Next ==
    \/ Submit \/ ProcessEvent \/ TellEvent \/ EventTold
    \/ \E o \in Ops : \/ SetPhase(o) \/ TellPhase(o) \/ PhaseTold(o) \/ Launched(o)
                      \/ ClearOperation(o) \/ TellCleared(o) \/ ClearTold(o)
    \/ \E n \in Notifiers, w \in Watchers : Drain(n, w) \/ Put(n, w)
    \/ \E w \in Watchers : Watch(w) \/ SendCurrent(w) \/ Send(w) \/ Unwatch(w)

Spec == Init /\ [][Next]_vars

-----------------------------------------------------------------------------
Quiet ==
    /\ event = "idle"
    /\ \A o \in Ops : op[o] \in {"none", "launched", "ended"}

(* The type of the state; no notifier sends on a channel unwatch has        *)
(* closed, which would take the controller down.                            *)
TypeOK ==
    /\ operation \in Ops \cup {Idle} /\ ops \in 0..MaxOps
    /\ \A w \in Watchers : chan[w] = <<>> \/ chan[w][1] \in Ops \cup {Idle}
    /\ ~panicked

(* When everything has ended, a client that was sent what its channel holds *)
(* is shown that nothing is going on: no notice that came late, and none    *)
(* that found the channel full, leaves it with an operation that is over    *)
(* (notifyWatchers, clearOperation, applyProcessEventSideEffects).          *)
SettlesToIdle ==
    Quiet /\ operation = Idle =>
        \A w \in Watchers : watcher[w] = "looping" /\ chan[w] = <<>> => shown[w] = Idle

(* "Drain any pending value so we always deliver the latest": with no       *)
(* notice in progress the client is shown the operation there is.           *)
LatestIsShown ==
    (event = "idle" /\ \A o \in Ops : op[o] \in {"none", "work", "launched", "ended"}) =>
        \A w \in Watchers : watcher[w] = "looping" /\ chan[w] = <<>> => shown[w] = operation
=============================================================================
