------------------------ MODULE LiveGameserverProofs ------------------------
(***************************************************************************)
(* Proofs about LiveGameserver, for every number of callers and operations,*)
(* every event buffer and every mix of faults: the guard of submitOperation*)
(* keeps GuardInv, which contains PreemptionRespectsPriority, NoDoubleClose*)
(* and DoneChannelHasOwner; on top of it type correctness, and that the    *)
(* observed process facts agree with each other.                           *)
(***************************************************************************)
EXTENDS LiveGameserver, SequenceTheorems, TLAPS

\* The labels a goroutine moves between while it runs.
Moving == Labels \ {"unused", "ended"}

\* A step of an operation's body: it moves on and leaves the guard alone.
BodyMove(o) ==
  /\ UNCHANGED guardVars
  /\ At(o, pc[o]) /\ pc[o] # "unused"
  /\ \E l \in Moving : Goto(o, l)

\* Every step of executeStart moves one goroutine and leaves the guard alone.
LEMMA StartStepMoves ==
  ASSUME NEW o \in OpIds, StartStep(o) PROVE BodyMove(o)
<1>1. CASE Prepare(o)
  BY <1>1 DEF Prepare, BodyMove, At, Goto, Moving, Labels
<1>2. CASE Scripts(o)
  BY <1>2 DEF Scripts, BodyMove, At, Goto, Moving, Labels
<1>3. CASE Cleanup(o)
  BY <1>3 DEF Cleanup, BodyMove, At, Goto, Moving, Labels
<1>4. CASE ForgetOld(o)
  BY <1>4 DEF ForgetOld, BodyMove, At, Goto, Moving, Labels
<1>5. CASE RemoveOld(o)
  BY <1>5 DEF RemoveOld, BodyMove, At, Goto, Moving, Labels
<1>6. CASE Install(o)
  BY <1>6 DEF Install, BodyMove, At, Goto, Moving, Labels
<1>7. CASE Create(o)
  BY <1>7 DEF Create, BodyMove, At, Goto, Moving, Labels
<1>8. CASE Adopt(o)
  BY <1>8 DEF Adopt, BodyMove, At, Goto, Moving, Labels
<1>9. CASE Launch(o)
  BY <1>9 DEF Launch, Succeed, BodyMove, At, Goto, Moving, Labels
<1> QED
  BY <1>1, <1>2, <1>3, <1>4, <1>5, <1>6, <1>7, <1>8, <1>9 DEF StartStep

\* So does every step of doStop, stopIfRunning and what follows it.
LEMMA StopStepMoves ==
  ASSUME NEW o \in OpIds, StopStep(o) PROVE BodyMove(o)
<1>1. CASE DoStop(o)
  BY <1>1 DEF DoStop, BodyMove, At, Goto, Moving, Labels
<1>2. CASE StopIfRunning(o)
  BY <1>2 DEF StopIfRunning, BodyMove, At, Goto, Moving, Labels
<1>3. CASE StopOnWorker(o)
  BY <1>3 DEF StopOnWorker, BodyMove, At, Goto, Moving, Labels
<1>4. CASE RemoveOnWorker(o)
  BY <1>4 DEF RemoveOnWorker, BodyMove, At, Goto, Moving, Labels
<1>5. CASE Stopped(o)
  BY <1>5 DEF Stopped, BodyMove, At, Goto, Moving, Labels
<1>6. CASE SaveStopped(o)
  BY <1>6 DEF SaveStopped, Succeed, BodyMove, At, Goto, Moving, Labels
<1>7. CASE Forget(o)
  BY <1>7 DEF Forget, BodyMove, At, Goto, Moving, Labels
<1>8. CASE SaveForget(o)
  BY <1>8 DEF SaveForget, BodyMove, At, Goto, Moving, Labels
<1>9. CASE AfterStop(o)
  BY <1>9 DEF AfterStop, BodyMove, At, Goto, Moving, Labels
<1>10. CASE WipeVolume(o)
  BY <1>10 DEF WipeVolume, BodyMove, At, Goto, Moving, Labels
<1> QED
  BY <1>1, <1>2, <1>3, <1>4, <1>5, <1>6, <1>7, <1>8, <1>9, <1>10 DEF StopStep

\* And every step of executeDelete.
LEMMA DeleteStepMoves ==
  ASSUME NEW o \in OpIds, DeleteStep(o) PROVE BodyMove(o)
<1>1. CASE Teardown(o)
  BY <1>1 DEF Teardown, BodyMove, At, Goto, Moving, Labels
<1>2. CASE DeleteRow(o)
  BY <1>2 DEF DeleteRow, BodyMove, At, Goto, Moving, Labels
<1>3. CASE FinishDelete(o)
  BY <1>3 DEF FinishDelete, BodyMove, At, Goto, Moving, Labels
<1> QED
  BY <1>1, <1>2, <1>3 DEF DeleteStep

\* A new object has no operation, no context and no channel.
LEMMA InitGuard == Init => GuardInv
  BY ConstAssumption DEF Init, GuardInv, GuardTypeOK, FreshAbove, LatestIsCurrent,
     CapturedIsWeaker, PreemptionRespectsPriority, NoDoubleClose, DoneChannelHasOwner,
     IdleCall, Calls, OpIds, NoOp, NoType, Labels, OpTypes

\* The guard's own variables are all that GuardInv speaks of.
LEMMA GuardStutter == GuardInv /\ UNCHANGED <<guardVars, pc>> => GuardInv'
  BY DEF GuardInv, guardVars, GuardTypeOK, FreshAbove, LatestIsCurrent, CapturedIsWeaker,
     PreemptionRespectsPriority, NoDoubleClose, DoneChannelHasOwner

\* The bodies of operations leave the guard alone.
LEMMA BodyKeepsGuard ==
  ASSUME NEW o \in OpIds, GuardInv, BodyMove(o) PROVE GuardInv'
<1> PICK l \in Moving : pc' = [pc EXCEPT ![o] = l]
  BY DEF BodyMove, Goto
<1> UNCHANGED guardVars /\ pc[o] # "unused"
  BY DEF BodyMove
<1>1. GuardTypeOK'
  BY DEF GuardInv, GuardTypeOK, guardVars, Moving
<1>2. FreshAbove'
  BY DEF GuardInv, GuardTypeOK, FreshAbove, guardVars, Moving
<1>3. DoneChannelHasOwner'
  BY DEF GuardInv, GuardTypeOK, DoneChannelHasOwner, guardVars, Moving, OpIds, NoOp
<1>4. LatestIsCurrent' /\ CapturedIsWeaker' /\ PreemptionRespectsPriority' /\ NoDoubleClose'
  BY DEF GuardInv, LatestIsCurrent, CapturedIsWeaker, PreemptionRespectsPriority,
     NoDoubleClose, guardVars
<1> QED
  BY <1>1, <1>2, <1>3, <1>4 DEF GuardInv

\* A caller that starts over holds no context.
LEMMA FreshCall ==
  ASSUME NEW c \in Threads, GuardInv,
         NEW at \in {"idle", "submit"}, NEW t \in OpTypes \cup {NoType},
         call' = [call EXCEPT ![c] = [at |-> at, type |-> t, cancel |-> NoOp, done |-> NoOp]],
         UNCHANGED <<operation, cancelOp, opDone, nOps, opType, cancelledBy, closes, pc>>
  PROVE  GuardInv'
<1> USE DEF GuardInv
<1> DEFINE r == [at |-> at, type |-> t, cancel |-> NoOp, done |-> NoOp]
<1>1. r \in Calls /\ r.at # "cancel"
  BY ConstAssumption DEF Calls, NoOp
<1>2. call' \in [Threads -> Calls]
  BY <1>1 DEF GuardTypeOK
<1>3. GuardTypeOK'
  BY <1>2 DEF GuardTypeOK
<1>4. CapturedIsWeaker'
  BY <1>1 DEF GuardTypeOK, CapturedIsWeaker
<1> QED
  BY <1>3, <1>4 DEF FreshAbove, LatestIsCurrent, PreemptionRespectsPriority, NoDoubleClose,
     DoneChannelHasOwner

\* A caller may take the next number, give up, or capture what is current:
\* a captured context is then that of the latest operation, whose priority was
\* found to be lower.
LEMMA CallerKeepsGuard ==
  ASSUME NEW c \in Threads, GuardInv, CallerStep(c) PROVE GuardInv'
<1> USE DEF GuardInv
<1>1. CASE AutoStart(c)
  <2>1. call' = [call EXCEPT ![c] = IdleCall] \/ EnterSubmit(c, "start")
    BY <1>1 DEF AutoStart, StartPrologue
  <2>2. UNCHANGED <<operation, cancelOp, opDone, nOps, opType, cancelledBy, closes, pc>>
    BY <1>1 DEF AutoStart, bodyVars
  <2> QED
    BY <2>1, <2>2, FreshCall DEF EnterSubmit, IdleCall, OpTypes
<1>2. CASE SubmitAccept(c)
  <2> DEFINE n == nOps + 1
  <2>1. /\ n \in OpIds /\ n \in Nat /\ nOps \in Nat
        /\ call[c].type \in OpTypes \cup {NoType}
    BY <1>2, ConstAssumption DEF SubmitAccept, GuardTypeOK, Calls, OpIds
  <2>2. Entry(call[c].type) \in Moving
    BY DEF Entry, Moving, Labels
  <2>3. GuardTypeOK'
    BY <1>2, <2>1, <2>2, ConstAssumption
    DEF SubmitAccept, GuardTypeOK, Calls, IdleCall, Moving, OpIds, NoOp, NoType
  <2>4. FreshAbove'
    BY <1>2, <2>1, <2>2 DEF SubmitAccept, GuardTypeOK, FreshAbove, Moving, OpIds
  <2>5. LatestIsCurrent'
    BY <1>2, <2>1 DEF SubmitAccept, GuardTypeOK, LatestIsCurrent, OpIds
  <2>6. CapturedIsWeaker'
    <3> SUFFICES ASSUME NEW d \in Threads, call'[d].at = "cancel", call'[d].cancel # NoOp
                 PROVE  /\ call'[d].cancel <= nOps'
                        /\ Priority(call'[d].type) > Priority(opType'[call'[d].cancel])
      BY DEF CapturedIsWeaker
    <3>1. call'[d] = call[d]
      BY <1>2 DEF SubmitAccept, GuardTypeOK, IdleCall
    <3>2. /\ call[d].cancel <= nOps
          /\ Priority(call[d].type) > Priority(opType[call[d].cancel])
          /\ call[d].cancel \in 0..MaxOps
      BY <3>1 DEF CapturedIsWeaker, GuardTypeOK, Calls
    <3>3. opType'[call[d].cancel] = opType[call[d].cancel]
      BY <1>2, <2>1, <3>1, <3>2 DEF SubmitAccept, GuardTypeOK, OpIds, NoOp
    <3> QED
      BY <1>2, <2>1, <3>1, <3>2, <3>3 DEF SubmitAccept
  <2>7. PreemptionRespectsPriority'
    BY <1>2, <2>1 DEF SubmitAccept, GuardTypeOK, FreshAbove, PreemptionRespectsPriority, OpIds
  <2>8. NoDoubleClose' /\ DoneChannelHasOwner'
    BY <1>2, <2>1, <2>2 DEF SubmitAccept, GuardTypeOK, FreshAbove, NoDoubleClose,
       DoneChannelHasOwner, Moving, OpIds, NoOp
  <2> QED
    BY <2>3, <2>4, <2>5, <2>6, <2>7, <2>8
<1>3. CASE SubmitReject(c)
  BY <1>3, FreshCall DEF SubmitReject, IdleCall, bodyVars
<1>4. CASE SubmitPreempt(c)
  <2> DEFINE r == [at |-> "cancel", type |-> call[c].type, cancel |-> cancelOp, done |-> opDone]
  <2>0. r \in Calls
    BY DEF GuardTypeOK, Calls
  <2>1. GuardTypeOK'
    BY <1>4, <2>0 DEF SubmitPreempt, GuardTypeOK, bodyVars
  <2>2. CapturedIsWeaker'
    BY <1>4, ConstAssumption
    DEF SubmitPreempt, GuardTypeOK, CapturedIsWeaker, LatestIsCurrent, NoOp, OpIds
  <2> QED
    BY <1>4, <2>1, <2>2 DEF SubmitPreempt, FreshAbove, LatestIsCurrent, bodyVars,
       PreemptionRespectsPriority, NoDoubleClose, DoneChannelHasOwner
<1>5. CASE CancelCaptured(c)
  <2>1. call[c].cancel \in 0..MaxOps /\ call[c].type \in OpTypes \cup {NoType}
    BY DEF GuardTypeOK, Calls
  <2>2. call[c].cancel # NoOp =>
          /\ call[c].cancel \in OpIds /\ call[c].cancel <= nOps
          /\ Priority(call[c].type) > Priority(opType[call[c].cancel])
    BY <1>5, <2>1, ConstAssumption DEF CancelCaptured, CapturedIsWeaker, OpIds, NoOp
  <2>3. call[c].cancel # NoOp => call[c].type \in OpTypes
    BY <2>1, <2>2 DEF Priority, NoType
  <2>4. GuardTypeOK'
    BY <1>5, <2>2, <2>3 DEF CancelCaptured, GuardTypeOK, Calls, bodyVars
  <2>5. FreshAbove'
    BY <1>5, <2>2 DEF CancelCaptured, GuardTypeOK, FreshAbove, bodyVars, OpIds
  <2>6. PreemptionRespectsPriority'
    BY <1>5, <2>2 DEF CancelCaptured, GuardTypeOK, PreemptionRespectsPriority
  <2>7. CapturedIsWeaker'
    BY <1>5 DEF CancelCaptured, GuardTypeOK, Calls, CapturedIsWeaker
  <2> QED
    BY <1>5, <2>4, <2>5, <2>6, <2>7 DEF CancelCaptured, LatestIsCurrent, bodyVars,
       NoDoubleClose, DoneChannelHasOwner
<1>6. CASE WaitDone(c)
  <2>1. call[c].type \in OpTypes \cup {NoType}
    BY DEF GuardTypeOK, Calls
  <2> QED
    BY <1>6, <2>1, FreshCall DEF WaitDone, EnterSubmit, bodyVars
<1> QED
  BY <1>1, <1>2, <1>3, <1>4, <1>5, <1>6 DEF CallerStep

\* How a goroutine ends: only the deferred function touches channels, and it
\* resets cancelOp and opDone together.
LEMMA EndKeepsGuard ==
  ASSUME NEW o \in OpIds, GuardInv, EndStep(o) PROVE GuardInv'
<1> USE DEF GuardInv
<1>1. CASE OpFailed(o)
  <2>1. BodyMove(o)
    BY <1>1 DEF OpFailed, BodyMove, At, Goto, Moving, Labels
  <2> QED
    BY <2>1, BodyKeepsGuard
<1>2. CASE ClearOperation(o)
  <2>1. GuardTypeOK' /\ FreshAbove' /\ DoneChannelHasOwner'
    BY <1>2 DEF ClearOperation, At, Goto, GuardTypeOK, FreshAbove, DoneChannelHasOwner, Labels,
       OpIds, NoOp
  <2>2. LatestIsCurrent' /\ CapturedIsWeaker' /\ PreemptionRespectsPriority' /\ NoDoubleClose'
    BY <1>2 DEF ClearOperation, LatestIsCurrent, CapturedIsWeaker, PreemptionRespectsPriority,
       NoDoubleClose
  <2> QED
    BY <2>1, <2>2
<1>3. CASE Deferred(o)
  <2>1. opDone # NoOp => opDone \in OpIds /\ opDone <= nOps /\ closes[opDone] = 0
    BY DEF GuardTypeOK, LatestIsCurrent, DoneChannelHasOwner, OpIds, NoOp
  <2>2. GuardTypeOK'
    BY <1>3, <2>1, ConstAssumption DEF Deferred, At, Goto, GuardTypeOK, Labels, NoOp
  <2>3. FreshAbove'
    BY <1>3, <2>1 DEF Deferred, At, Goto, GuardTypeOK, FreshAbove, OpIds
  <2>4. NoDoubleClose'
    BY <1>3, <2>1 DEF Deferred, GuardTypeOK, NoDoubleClose
  <2>5. LatestIsCurrent' /\ DoneChannelHasOwner'
    BY <1>3 DEF Deferred, LatestIsCurrent, DoneChannelHasOwner
  <2>6. CapturedIsWeaker' /\ PreemptionRespectsPriority'
    BY <1>3 DEF Deferred, CapturedIsWeaker, PreemptionRespectsPriority
  <2> QED
    BY <2>2, <2>3, <2>4, <2>5, <2>6
<1> QED
  BY <1>1, <1>2, <1>3 DEF EndStep

\* An event that ends the current operation leaves the channels to its goroutine.
LEMMA ResetKeepsGuard ==
  ASSUME GuardInv, operation' \in {operation, NoType},
         UNCHANGED <<cancelOp, opDone, nOps, opType, cancelledBy, closes, call, pc>>
  PROVE  GuardInv'
  BY DEF GuardInv, GuardTypeOK, FreshAbove, LatestIsCurrent, CapturedIsWeaker,
     PreemptionRespectsPriority, NoDoubleClose, DoneChannelHasOwner

\* The event watcher resets the operation and spawns auto-restart callers.
LEMMA WatcherKeepsGuard ==
  ASSUME GuardInv, WatcherStep PROVE GuardInv'
<1>1. CASE EventIgnored
  BY <1>1, GuardStutter DEF EventIgnored, bodyVars
<1>2. CASE EventRunning
  BY <1>2, ResetKeepsGuard DEF EventRunning, bodyVars
<1>3. CASE EventExited
  BY <1>3, ResetKeepsGuard DEF EventExited, bodyVars
<1>4. CASE ApplyEffects
  <2>1. CASE UNCHANGED call
    BY <1>4, <2>1, GuardStutter DEF ApplyEffects, guardVars, bodyVars
  <2>2. CASE \E c \in Restarters : call' = [call EXCEPT ![c].at = "spawned"]
    <3> PICK c \in Restarters : call' = [call EXCEPT ![c].at = "spawned"]
      BY <2>2
    <3>1. c \in Threads
      BY DEF Threads
    <3>2. UNCHANGED <<operation, cancelOp, opDone, nOps, opType, cancelledBy, closes, pc>>
      BY <1>4 DEF ApplyEffects, bodyVars
    <3>3. GuardTypeOK'
      BY <3>1, <3>2 DEF GuardInv, GuardTypeOK, Calls
    <3>4. CapturedIsWeaker'
      BY <3>1, <3>2 DEF GuardInv, GuardTypeOK, Calls, CapturedIsWeaker
    <3> QED
      BY <3>2, <3>3, <3>4 DEF GuardInv, FreshAbove, LatestIsCurrent,
         PreemptionRespectsPriority, NoDoubleClose, DoneChannelHasOwner
  <2> QED
    BY <1>4, <2>1, <2>2 DEF ApplyEffects
<1> QED
  BY <1>1, <1>2, <1>3, <1>4 DEF WatcherStep

\* A controller restart forgets every thread and every channel.
LEMMA RestartKeepsGuard ==
  ASSUME GuardInv, ControllerRestart PROVE GuardInv'
<1> USE DEF GuardInv
<1>1. IdleCall \in Calls /\ IdleCall.at # "cancel"
  BY ConstAssumption DEF IdleCall, Calls, NoOp, NoType
<1>2. GuardTypeOK'
  BY <1>1, ConstAssumption DEF ControllerRestart, GuardTypeOK, Labels, NoOp, NoType
<1>3. FreshAbove'
  BY DEF ControllerRestart, GuardTypeOK, FreshAbove
<1>4. CapturedIsWeaker'
  BY <1>1 DEF ControllerRestart, CapturedIsWeaker
<1> QED
  BY <1>2, <1>3, <1>4 DEF ControllerRestart, LatestIsCurrent, PreemptionRespectsPriority,
     NoDoubleClose, DoneChannelHasOwner

\* Every step of the system keeps the guard in order.
LEMMA NextKeepsGuard == GuardInv /\ [Next]_vars => GuardInv'
<1> SUFFICES ASSUME GuardInv, [Next]_vars PROVE GuardInv'
  OBVIOUS
<1>1. ASSUME NEW c \in Callers, CallStart(c) PROVE GuardInv'
  <2>1. call' = [call EXCEPT ![c] = IdleCall] \/ EnterSubmit(c, "start")
    BY <1>1 DEF CallStart, StartPrologue
  <2>2. UNCHANGED <<operation, cancelOp, opDone, nOps, opType, cancelledBy, closes, pc>>
    BY <1>1 DEF CallStart, bodyVars
  <2> QED
    BY <2>1, <2>2, FreshCall DEF EnterSubmit, IdleCall, OpTypes, Threads
<1>2. ASSUME NEW c \in Callers, NEW t \in OpTypes, CallOther(c, t) PROVE GuardInv'
  BY <1>2, FreshCall DEF CallOther, EnterSubmit, Threads, bodyVars
<1>3. ASSUME NEW c \in Threads, CallerStep(c) PROVE GuardInv'
  BY <1>3, CallerKeepsGuard
<1>4. ASSUME NEW o \in OpIds, GoroutineStep(o) PROVE GuardInv'
  BY <1>4, StartStepMoves, StopStepMoves, DeleteStepMoves, BodyKeepsGuard, EndKeepsGuard
  DEF GoroutineStep
<1>5. CASE WatcherStep
  BY <1>5, WatcherKeepsGuard
<1>6. CASE ProcessCrash \/ SetReady \/ \E g \in OpIds : SetExited(g)
  BY <1>6, GuardStutter DEF ProcessCrash, SetReady, SetExited, bodyVars
<1>7. CASE StreamBreak \/ OnWorkerOffline \/ OnWorkerOnline
  BY <1>7, GuardStutter DEF StreamBreak, OnWorkerOffline, OnWorkerOnline, bodyVars
<1>8. CASE RecoveryStep
  BY <1>8, GuardStutter DEF RecoveryStep, RecoverInspect, RecoverApply, RecoverSave, bodyVars
<1>9. CASE ControllerRestart
  BY <1>9, RestartKeepsGuard
<1>10. CASE UNCHANGED vars
  BY <1>10, GuardStutter DEF vars, bodyVars
<1> QED
  BY <1>1, <1>2, <1>3, <1>4, <1>5, <1>6, <1>7, <1>8, <1>9, <1>10 DEF Next

\* The guard's invariant holds throughout, for every number of callers,
\* operations, crashes, disconnects and controller restarts.
THEOREM GuardInvariant == Spec => []GuardInv
  BY InitGuard, NextKeepsGuard, PTL DEF Spec

\* Nothing is cancelled on behalf of an operation of equal or lower priority.
THEOREM PriorityIsRespected == Spec => []PreemptionRespectsPriority
<1>1. GuardInv => PreemptionRespectsPriority
  BY DEF GuardInv
<1> QED
  BY <1>1, GuardInvariant, PTL

\* The deferred function of submitOperation never closes a closed channel.
THEOREM ChannelsCloseOnce == Spec => []NoDoubleClose
<1>1. GuardInv => NoDoubleClose
  BY DEF GuardInv
<1> QED
  BY <1>1, GuardInvariant, PTL

\* A channel that can be captured has a goroutine that will close it.
THEOREM CapturableChannelIsOpen == Spec => []DoneChannelHasOwner
<1>1. GuardInv => DoneChannelHasOwner
  BY DEF GuardInv
<1> QED
  BY <1>1, GuardInvariant, PTL
-----------------------------------------------------------------------------
(* Types.                                                                    *)

\* SetError and the updates of single fields keep records of the same shape.
LEMMA RecordFields ==
  ASSUME NEW r \in SpecRecord, NEW a \in BOOLEAN, NEW b \in BOOLEAN, NEW d \in {"running", "stopped"}
  PROVE  /\ [r EXCEPT !.error = b] \in SpecRecord
         /\ [r EXCEPT !.instance = b] \in SpecRecord
         /\ [r EXCEPT !.installed = b] \in SpecRecord
         /\ [r EXCEPT !.desired = d] \in SpecRecord
         /\ [r EXCEPT !.desired = d, !.error = b] \in SpecRecord
         /\ [r EXCEPT !.instance = a, !.error = b] \in SpecRecord
         /\ [r EXCEPT !.instance = a, !.desired = d, !.error = b] \in SpecRecord
  BY DEF SpecRecord

\* The initial state is well typed.
LEMMA InitTypes == Init => RecordTypeOK /\ WorkerTypeOK /\ WatchTypeOK
<1> SUFFICES ASSUME Init PROVE RecordTypeOK /\ WorkerTypeOK /\ WatchTypeOK
  OBVIOUS
<1>1. spec \in SpecRecord /\ db \in SpecRecord
  BY DEF Init, SpecRecord
<1>2. RecordTypeOK
  BY <1>1 DEF Init, RecordTypeOK
<1>3. WorkerTypeOK
  BY EmptySeq DEF Init, WorkerTypeOK
<1>4. WatchTypeOK
  BY DEF Init, WatchTypeOK, NoEffects, NoRecovery
<1> QED
  BY <1>2, <1>3, <1>4

\* The records, the observed process and the worker reference.
LEMMA StartKeepsRecords ==
  ASSUME NEW o \in OpIds, RecordTypeOK, StartStep(o) PROVE RecordTypeOK'
<1> USE RecordFields DEF RecordTypeOK, procVars, linkVars, recVars, SetError
<1>1. CASE Prepare(o)
  BY <1>1 DEF Prepare
<1>2. CASE Scripts(o)
  BY <1>2 DEF Scripts
<1>3. CASE Cleanup(o)
  BY <1>3 DEF Cleanup
<1>4. CASE ForgetOld(o)
  BY <1>4 DEF ForgetOld
<1>5. CASE RemoveOld(o)
  BY <1>5 DEF RemoveOld
<1>6. CASE Install(o)
  BY <1>6 DEF Install
<1>7. CASE Create(o)
  BY <1>7 DEF Create
<1>8. CASE Adopt(o)
  BY <1>8 DEF Adopt
<1>9. CASE Launch(o)
  BY <1>9 DEF Launch
<1> QED
  BY <1>1, <1>2, <1>3, <1>4, <1>5, <1>6, <1>7, <1>8, <1>9 DEF StartStep

\* doStop writes the records field by field.
LEMMA StopKeepsRecords ==
  ASSUME NEW o \in OpIds, RecordTypeOK, StopStep(o) PROVE RecordTypeOK'
<1> USE RecordFields DEF RecordTypeOK, procVars, linkVars, recVars, SetError, ClearProcess
<1>1. CASE DoStop(o)
  BY <1>1 DEF DoStop
<1>2. CASE StopIfRunning(o)
  BY <1>2 DEF StopIfRunning
<1>3. CASE StopOnWorker(o)
  BY <1>3 DEF StopOnWorker
<1>4. CASE RemoveOnWorker(o)
  BY <1>4 DEF RemoveOnWorker
<1>5. CASE Stopped(o)
  BY <1>5 DEF Stopped
<1>6. CASE SaveStopped(o)
  BY <1>6 DEF SaveStopped
<1>7. CASE Forget(o)
  BY <1>7 DEF Forget
<1>8. CASE SaveForget(o)
  BY <1>8 DEF SaveForget
<1>9. CASE AfterStop(o)
  BY <1>9 DEF AfterStop
<1>10. CASE WipeVolume(o)
  BY <1>10 DEF WipeVolume
<1> QED
  BY <1>1, <1>2, <1>3, <1>4, <1>5, <1>6, <1>7, <1>8, <1>9, <1>10 DEF StopStep

\* So do the ends of operations.
LEMMA EndKeepsRecords ==
  ASSUME NEW o \in OpIds, RecordTypeOK, DeleteStep(o) \/ EndStep(o) PROVE RecordTypeOK'
<1> USE RecordFields DEF RecordTypeOK, procVars, linkVars, recVars, SetError
<1>1. CASE Teardown(o)
  BY <1>1 DEF Teardown
<1>2. CASE DeleteRow(o)
  BY <1>2 DEF DeleteRow
<1>3. CASE FinishDelete(o)
  BY <1>3 DEF FinishDelete
<1>4. CASE OpFailed(o)
  BY <1>4 DEF OpFailed
<1>5. CASE ClearOperation(o)
  BY <1>5 DEF ClearOperation
<1>6. CASE Deferred(o)
  BY <1>6 DEF Deferred
<1> QED
  BY <1>1, <1>2, <1>3, <1>4, <1>5, <1>6 DEF DeleteStep, EndStep

\* So do the calls that submit operations.
LEMMA CallersKeepRecords ==
  ASSUME RecordTypeOK, NEW c \in Threads,
         CallerStep(c) \/ CallStart(c) \/ \E t \in OpTypes : CallOther(c, t)
  PROVE  RecordTypeOK'
<1> USE DEF RecordTypeOK, procVars, linkVars, recVars, bodyVars
<1>1. CASE AutoStart(c) \/ CallStart(c)
  <2>1. spec' \in SpecRecord /\ db' \in SpecRecord /\ crashCount' \in Nat
    <3>1. /\ [spec EXCEPT !.desired = "running", !.error = FALSE] \in SpecRecord
          /\ [db EXCEPT !.desired = "running", !.error = FALSE] \in SpecRecord
      BY DEF SpecRecord
    <3>2. StartPrologue(c)
      BY <1>1 DEF AutoStart, CallStart
    <3> QED
      BY <3>1, <3>2 DEF StartPrologue
  <2> QED
    BY <1>1, <2>1 DEF AutoStart, CallStart
<1>2. CASE SubmitAccept(c) \/ SubmitReject(c) \/ SubmitPreempt(c)
  BY <1>2 DEF SubmitAccept, SubmitReject, SubmitPreempt
<1>3. CASE CancelCaptured(c) \/ WaitDone(c) \/ \E t \in OpTypes : CallOther(c, t)
  BY <1>3 DEF CancelCaptured, WaitDone, CallOther
<1> QED
  BY <1>1, <1>2, <1>3 DEF CallerStep

\* Events and recovery set error, instance and process state from what they saw.
LEMMA WatchersKeepRecords ==
  ASSUME RecordTypeOK, WatchTypeOK, WorkerTypeOK, WatcherStep \/ RecoveryStep
  PROVE  RecordTypeOK'
<1> USE DEF RecordTypeOK, procVars, linkVars, recVars, bodyVars, SetError,
        ClearProcess
<1>1. CASE EventIgnored
  BY <1>1 DEF EventIgnored
<1>2. CASE EventRunning
  BY <1>2, RecordFields DEF EventRunning
<1>3. CASE EventExited
  <2>1. spec' \in SpecRecord
    BY <1>3 DEF EventExited, SpecRecord, IsCrash, RestartsLeft
  <2>2. crashCount' \in Nat
    <3>1. crashCount + 1 \in Nat
      OBVIOUS
    <3>2. crashCount' = crashCount \/ crashCount' = crashCount + 1
      BY <1>3, Zenon DEF EventExited
    <3> QED
      BY <3>1, <3>2
  <2>3. processState' \in {"none", "running", "exited"} /\ ready' \in BOOLEAN
    BY <1>3 DEF EventExited
  <2> QED
    BY <1>3, <2>1, <2>2, <2>3 DEF EventExited
<1>4. CASE ApplyEffects
  <2>1. db' \in SpecRecord
    <3> DEFINE i == IF effects.clearInstance THEN FALSE ELSE db.instance
               e == CASE effects.error = "set" -> TRUE
                      [] effects.error = "clear" -> FALSE
                      [] OTHER -> db.error
    <3>1. i \in BOOLEAN /\ e \in BOOLEAN
      BY DEF SpecRecord
    <3>2. db' = [db EXCEPT !.instance = i, !.error = e]
      BY <1>4 DEF ApplyEffects
    <3> HIDE DEF i, e
    <3> QED
      BY <3>1, <3>2, RecordFields
  <2> QED
    BY <1>4, <2>1 DEF ApplyEffects
<1>5. CASE RecoverInspect
  BY <1>5, RecordFields DEF RecoverInspect
<1>6. CASE RecoverApply
  BY <1>6, RecordFields DEF RecoverApply
<1>7. CASE RecoverSave
  <2>1. recovery.wanted \in BOOLEAN
    BY DEF WatchTypeOK
  <2> DEFINE e == recovery.wanted \/ spec.error
             f == recovery.wanted \/ db.error
  <2>2. e \in BOOLEAN /\ f \in BOOLEAN
    BY Zenon
  <2>3. spec' = [spec EXCEPT !.error = e] /\ db' = [db EXCEPT !.instance = FALSE, !.error = f]
    BY <1>7 DEF RecoverSave
  <2>4. spec' \in SpecRecord /\ db' \in SpecRecord
    <3> HIDE DEF e, f
    <3> QED
      BY <2>2, <2>3, RecordFields
  <2> QED
    BY <1>7, <2>4 DEF RecoverSave
<1> QED
  BY <1>1, <1>2, <1>3, <1>4, <1>5, <1>6, <1>7 DEF WatcherStep, RecoveryStep

\* The worker's instance, its tracker and the event channel.
LEMMA EmitType ==
  ASSUME WorkerTypeOK, NEW e \in {"running", "ready", "exited"}, NEW g \in Nat
  PROVE  Emit(e, g) \in Seq(Updates)
<1>1. [state |-> e, gen |-> g] \in Updates
  BY DEF Updates
<1> QED
  BY <1>1 DEF Emit, WorkerTypeOK

\* What a broken stream has lost is a prefix; the rest is a queue of events.
LEMMA LoseType ==
  ASSUME WorkerTypeOK, NEW n \in 0..Len(events)
  PROVE  SubSeq(events, n + 1, Len(events)) \in Seq(Updates)
<1>1. events \in Seq(Updates) /\ Len(events) \in Nat
  BY DEF WorkerTypeOK
<1>2. \A i \in (n + 1)..Len(events) : events[i] \in Updates
  BY <1>1
<1> QED
  BY <1>1, <1>2, SubSeqProperties
\* Taking an event from the channel leaves a queue of events.
LEMMA TailType ==
  ASSUME WorkerTypeOK, events # << >> PROVE Tail(events) \in Seq(Updates)
  BY DEF WorkerTypeOK

\* Each call to the worker, and a call that has no effect.
LEMMA WorkerCallTypes ==
  ASSUME WorkerTypeOK,
         CreateInstance \/ StartInstance \/ StopInstance \/ RemoveInstance \/ NoWorkerEffect
  PROVE  WorkerTypeOK'
<1>1. CASE CreateInstance
  BY <1>1 DEF CreateInstance, WorkerTypeOK
<1>2. CASE StartInstance
  <2>1. gen + 1 \in Nat
    BY DEF WorkerTypeOK
  <2> QED
    BY <1>2, <2>1, EmitType DEF StartInstance, WorkerTypeOK
<1>3. CASE StopInstance
  BY <1>3 DEF StopInstance, WorkerTypeOK
<1>4. CASE RemoveInstance
  <2>1. gen \in Nat /\ Emit("exited", gen) \in Seq(Updates)
    BY EmitType DEF WorkerTypeOK
  <2> QED
    BY <1>4, <2>1 DEF RemoveInstance, WorkerTypeOK
<1>5. CASE NoWorkerEffect
  BY <1>5 DEF NoWorkerEffect, workerVars, WorkerTypeOK
<1> QED
  BY <1>1, <1>2, <1>3, <1>4, <1>5

\* A goroutine reaches the worker through those calls only.
LEMMA GoroutineKeepsWorker ==
  ASSUME NEW o \in OpIds, WorkerTypeOK, GoroutineStep(o) PROVE WorkerTypeOK'
<1> SUFFICES CreateInstance \/ StartInstance \/ StopInstance \/ RemoveInstance
             \/ NoWorkerEffect
  BY WorkerCallTypes
<1> USE DEF NoWorkerEffect
<1>1. CASE StartStep(o)
  BY <1>1 DEF StartStep, Prepare, Scripts, Cleanup, ForgetOld, RemoveOld, Install, Create,
     Adopt, Launch
<1>2. CASE StopStep(o)
  BY <1>2 DEF StopStep, DoStop, StopIfRunning, StopOnWorker, RemoveOnWorker, Stopped,
     SaveStopped, Forget, SaveForget, AfterStop, WipeVolume
<1>3. CASE DeleteStep(o) \/ EndStep(o)
  BY <1>3 DEF DeleteStep, EndStep, Teardown, DeleteRow, FinishDelete, OpFailed,
     ClearOperation, Deferred
<1> QED
  BY <1>1, <1>2, <1>3 DEF GoroutineStep

\* The other steps that touch the worker: its own, and those that take from
\* the event channel.
LEMMA OthersKeepWorker ==
  ASSUME WorkerTypeOK, Next, ~\E o \in OpIds : GoroutineStep(o) PROVE WorkerTypeOK'
<1>1. ASSUME NEW c \in Callers, CallStart(c) \/ \E t \in OpTypes : CallOther(c, t)
      PROVE  WorkerTypeOK'
  BY <1>1 DEF CallStart, CallOther, workerVars, WorkerTypeOK
<1>2. ASSUME NEW c \in Threads, CallerStep(c) PROVE WorkerTypeOK'
  BY <1>2 DEF CallerStep, AutoStart, SubmitAccept, SubmitReject, SubmitPreempt,
     CancelCaptured, WaitDone, workerVars, WorkerTypeOK
<1>3. CASE EventIgnored \/ EventRunning \/ EventExited
  BY <1>3, TailType DEF EventIgnored, EventRunning, EventExited, NextEvent, WorkerTypeOK
<1>4. CASE ApplyEffects \/ RecoveryStep \/ OnWorkerOnline
  BY <1>4 DEF ApplyEffects, RecoveryStep, RecoverInspect, RecoverApply, RecoverSave,
     OnWorkerOnline, workerVars, WorkerTypeOK
<1>5. CASE ProcessCrash
  BY <1>5 DEF ProcessCrash, WorkerTypeOK
<1>6. CASE SetReady
  <2>1. Emit("ready", gen) \in Seq(Updates)
    BY EmitType DEF WorkerTypeOK
  <2> QED
    BY <1>6, <2>1 DEF SetReady, WorkerTypeOK
<1>7. ASSUME NEW g \in OpIds, SetExited(g) PROVE WorkerTypeOK'
  <2>1. Emit("exited", g) \in Seq(Updates)
    BY EmitType DEF OpIds
  <2> QED
    BY <1>7, <2>1 DEF SetExited, WorkerTypeOK
<1>8. CASE StreamBreak
  <2>1. PICK n \in 1..Len(events) : LoseInFlight(n)
    BY <1>8 DEF StreamBreak
  <2>2. n \in 0..Len(events)
    BY DEF WorkerTypeOK
  <2>3. events' \in Seq(Updates)
    BY <2>1, <2>2, LoseType DEF LoseInFlight
  <2> QED
    BY <1>8, <2>3 DEF StreamBreak, WorkerTypeOK
<1>9. CASE OnWorkerOffline \/ ControllerRestart
  <2>1. PICK n \in 0..Len(events) : LoseInFlight(n)
    BY <1>9 DEF OnWorkerOffline, ControllerRestart
  <2>2. events' \in Seq(Updates)
    BY <2>1, LoseType DEF LoseInFlight
  <2> QED
    BY <1>9, <2>2 DEF OnWorkerOffline, ControllerRestart, WorkerTypeOK
<1> QED
  BY <1>1, <1>2, <1>3, <1>4, <1>5, <1>6, <1>7, <1>8, <1>9 DEF Next, WatcherStep

\* The watcher's queued effects, the recovery goroutine and the environment.
LEMMA OthersKeepRecords ==
  ASSUME RecordTypeOK, StreamBreak \/ OnWorkerOffline \/ OnWorkerOnline \/ ControllerRestart
                       \/ ProcessCrash \/ SetReady \/ \E g \in OpIds : SetExited(g)
  PROVE  RecordTypeOK'
<1> USE DEF RecordTypeOK, procVars, linkVars, recVars, bodyVars, ClearProcess
<1>1. CASE StreamBreak \/ ProcessCrash \/ SetReady \/ \E g \in OpIds : SetExited(g)
  BY <1>1 DEF StreamBreak, ProcessCrash, SetReady, SetExited
<1>2. CASE OnWorkerOffline \/ OnWorkerOnline
  BY <1>2 DEF OnWorkerOffline, OnWorkerOnline
<1>3. CASE ControllerRestart
  BY <1>3 DEF ControllerRestart
<1> QED
  BY <1>1, <1>2, <1>3

\* Every step keeps the watcher and the recovery well typed.
LEMMA NextKeepsWatch ==
  ASSUME RecordTypeOK, WatchTypeOK, Next PROVE WatchTypeOK'
<1> USE DEF WatchTypeOK, watchVars, envVars
<1>1. ASSUME NEW c \in Callers, CallStart(c) \/ \E t \in OpTypes : CallOther(c, t)
      PROVE  WatchTypeOK'
  BY <1>1 DEF CallStart, CallOther
<1>2. ASSUME NEW c \in Threads, CallerStep(c) PROVE WatchTypeOK'
  BY <1>2 DEF CallerStep, AutoStart, SubmitAccept, SubmitReject, SubmitPreempt,
     CancelCaptured, WaitDone
<1>3. ASSUME NEW o \in OpIds, StartStep(o) PROVE WatchTypeOK'
  BY <1>3 DEF StartStep, Prepare, Scripts, Cleanup, ForgetOld, RemoveOld, Install, Create,
     Adopt, Launch
<1>4. ASSUME NEW o \in OpIds, StopStep(o) PROVE WatchTypeOK'
  BY <1>4 DEF StopStep, DoStop, StopIfRunning, StopOnWorker, RemoveOnWorker, Stopped,
     SaveStopped, Forget, SaveForget, AfterStop, WipeVolume
<1>5. ASSUME NEW o \in OpIds, DeleteStep(o) \/ EndStep(o) PROVE WatchTypeOK'
  BY <1>5 DEF DeleteStep, EndStep, Teardown, DeleteRow, FinishDelete, OpFailed,
     ClearOperation, Deferred
<1>6. CASE EventIgnored \/ EventRunning
  BY <1>6 DEF EventIgnored, EventRunning, NoEffects
<1>7. CASE EventExited
  <2> DEFINE r == IsCrash /\ RestartsLeft
             e == IF ~IsCrash THEN "keep" ELSE IF RestartsLeft THEN "clear" ELSE "set"
  <2>1. r \in BOOLEAN /\ e \in {"keep", "set", "clear"}
    OBVIOUS
  <2>2. effects' = [pending |-> TRUE, clearInstance |-> TRUE, error |-> e, restart |-> r]
    BY <1>7 DEF EventExited
  <2> HIDE DEF r, e
  <2> QED
    BY <1>7, <2>1, <2>2 DEF EventExited
<1>8. CASE ApplyEffects
  BY <1>8 DEF ApplyEffects, NoEffects
<1>9. CASE RecoverInspect
  <2>1. CASE recovery' = NoRecovery
    BY <1>9, <2>1 DEF RecoverInspect, NoRecovery
  <2>2. CASE \E i \in Inspections :
               recovery' = [recovery EXCEPT !.at = "apply", !.info = i,
                                            !.wanted = (spec.desired = "running")]
    <3> PICK i \in Inspections :
               recovery' = [recovery EXCEPT !.at = "apply", !.info = i,
                                            !.wanted = (spec.desired = "running")]
      BY <2>2
    <3>1. i \in {"running", "exited", "missing"}
      BY DEF Inspections
    <3> DEFINE w == spec.desired = "running"
    <3>2. w \in BOOLEAN
      OBVIOUS
    <3>3. recovery' = [recovery EXCEPT !.at = "apply", !.info = i, !.wanted = w]
      OBVIOUS
    <3> HIDE DEF w
    <3> QED
      BY <1>9, <3>1, <3>2, <3>3 DEF RecoverInspect
  <2> QED
    BY <1>9, <2>1, <2>2 DEF RecoverInspect
<1> DEFINE R == [at: {"idle", "inspect", "apply", "save"},
                 info: {"none", "running", "exited", "missing"}, wanted: BOOLEAN, boot: BOOLEAN]
<1>a. /\ NoRecovery \in R
      /\ [NoRecovery EXCEPT !.at = "inspect"] \in R
      /\ [NoRecovery EXCEPT !.at = "inspect", !.boot = TRUE] \in R
  BY DEF NoRecovery
<1>b. [recovery EXCEPT !.at = "save"] \in R
  OBVIOUS
<1>10. CASE RecoverApply \/ RecoverSave
  <2>1. recovery' \in R
    BY <1>10, <1>a, <1>b DEF RecoverApply, RecoverSave
  <2> QED
    BY <1>10, <2>1 DEF RecoverApply, RecoverSave
<1>11. CASE ProcessCrash \/ SetReady \/ \E g \in OpIds : SetExited(g)
  BY <1>11 DEF ProcessCrash, SetReady, SetExited
<1>12. CASE StreamBreak \/ OnWorkerOffline \/ OnWorkerOnline
  <2>1. recovery' \in R
    BY <1>12, <1>a DEF StreamBreak, OnWorkerOffline, OnWorkerOnline
  <2> QED
    BY <1>12, <2>1 DEF StreamBreak, OnWorkerOffline, OnWorkerOnline
<1>13. CASE ControllerRestart
  <2>1. recovery' \in R
    BY <1>13, <1>a DEF ControllerRestart
  <2> QED
    BY <1>13, <2>1 DEF ControllerRestart, NoEffects
<1> QED
  BY <1>1, <1>2, <1>3, <1>4, <1>5, <1>6, <1>7, <1>8, <1>9, <1>10, <1>11, <1>12, <1>13
  DEF Next, GoroutineStep, WatcherStep, RecoveryStep

\* Every step keeps the records well typed.
LEMMA NextKeepsRecords ==
  ASSUME RecordTypeOK, WorkerTypeOK, WatchTypeOK, Next PROVE RecordTypeOK'
<1>1. ASSUME NEW c \in Callers, CallStart(c) \/ \E t \in OpTypes : CallOther(c, t)
      PROVE  RecordTypeOK'
  BY <1>1, CallersKeepRecords DEF Threads
<1>2. ASSUME NEW c \in Threads, CallerStep(c) PROVE RecordTypeOK'
  BY <1>2, CallersKeepRecords
<1>3. ASSUME NEW o \in OpIds, GoroutineStep(o) PROVE RecordTypeOK'
  BY <1>3, StartKeepsRecords, StopKeepsRecords, EndKeepsRecords DEF GoroutineStep
<1>4. CASE WatcherStep \/ RecoveryStep
  BY <1>4, WatchersKeepRecords
<1> QED
  BY <1>1, <1>2, <1>3, <1>4, OthersKeepRecords DEF Next

\* Every variable keeps the shape the code's types give it, across every
\* interleaving, crash, disconnect and controller restart.
THEOREM TypeCorrect == Spec => []TypeOK
<1> DEFINE T == RecordTypeOK /\ WorkerTypeOK /\ WatchTypeOK
<1>1. Init => T
  BY InitTypes
<1>2. T /\ [Next]_vars => T'
  <2>1. CASE Next
    BY <2>1, NextKeepsRecords, NextKeepsWatch, GoroutineKeepsWorker, OthersKeepWorker
  <2>2. CASE UNCHANGED vars
    BY <2>2 DEF vars, recVars, bodyVars, procVars, linkVars, workerVars, watchVars, envVars,
       RecordTypeOK, WorkerTypeOK, WatchTypeOK
  <2> QED
    BY <2>1, <2>2
<1>3. GuardInv /\ T => TypeOK
  BY DEF GuardInv, TypeOK
<1> QED
  BY <1>1, <1>2, <1>3, GuardInvariant, PTL DEF Spec

\* The ready flag never outlives the running state, whichever of the event
\* watcher, the recovery goroutine, doStop and a disconnect wrote last.
THEOREM ReadyImpliesRunning == Spec => []ReadyOnlyWhileRunning
<1>1. Init => ReadyOnlyWhileRunning
  BY DEF Init, ReadyOnlyWhileRunning
<1>2. ReadyOnlyWhileRunning /\ [Next]_vars => ReadyOnlyWhileRunning'
  <2> SUFFICES ASSUME ReadyOnlyWhileRunning, [Next]_vars PROVE ReadyOnlyWhileRunning'
    OBVIOUS
  <2> USE DEF ReadyOnlyWhileRunning, procVars, ClearProcess
  <2>1. ASSUME NEW c \in Callers, CallStart(c) \/ \E t \in OpTypes : CallOther(c, t)
        PROVE  ReadyOnlyWhileRunning'
    BY <2>1 DEF CallStart, CallOther
  <2>2. ASSUME NEW c \in Threads, CallerStep(c) PROVE ReadyOnlyWhileRunning'
    BY <2>2 DEF CallerStep, AutoStart, SubmitAccept, SubmitReject, SubmitPreempt,
       CancelCaptured, WaitDone
  <2>3. ASSUME NEW o \in OpIds, StartStep(o) PROVE ReadyOnlyWhileRunning'
    BY <2>3 DEF StartStep, Prepare, Scripts, Cleanup, ForgetOld, RemoveOld, Install, Create,
       Adopt, Launch
  <2>4. ASSUME NEW o \in OpIds, StopStep(o) PROVE ReadyOnlyWhileRunning'
    BY <2>4 DEF StopStep, DoStop, StopIfRunning, StopOnWorker, RemoveOnWorker, Stopped,
       SaveStopped, Forget, SaveForget, AfterStop, WipeVolume
  <2>5. ASSUME NEW o \in OpIds, DeleteStep(o) \/ EndStep(o) PROVE ReadyOnlyWhileRunning'
    BY <2>5 DEF DeleteStep, EndStep, Teardown, DeleteRow, FinishDelete, OpFailed,
       ClearOperation, Deferred
  <2>6. CASE WatcherStep
    BY <2>6 DEF WatcherStep, EventIgnored, EventRunning, EventExited, ApplyEffects
  <2>7. CASE RecoveryStep
    BY <2>7 DEF RecoveryStep, RecoverInspect, RecoverApply, RecoverSave
  <2>8. CASE ProcessCrash \/ SetReady \/ \E g \in OpIds : SetExited(g)
    BY <2>8 DEF ProcessCrash, SetReady, SetExited
  <2>9. CASE StreamBreak \/ OnWorkerOffline \/ OnWorkerOnline \/ ControllerRestart
    BY <2>9 DEF StreamBreak, OnWorkerOffline, OnWorkerOnline, ControllerRestart
  <2>10. CASE UNCHANGED vars
    BY <2>10 DEF vars
  <2> QED
    BY <2>1, <2>2, <2>3, <2>4, <2>5, <2>6, <2>7, <2>8, <2>9, <2>10 DEF Next, GoroutineStep
<1> QED
  BY <1>1, <1>2, PTL DEF Spec

-----------------------------------------------------------------------------
(* A patient user: what is on the worker, what is recorded and what is      *)
(* shown agree, however the steps of the goroutines, the worker, the event   *)
(* watcher and the recovery interleave, for every number of callers,         *)
(* operations, process deaths and controller restarts.                       *)

\* The setting: a patient user who starts, stops and deletes a gameserver whose
\* worker is local, stays connected and fails in nothing; auto-restart is off,
\* and the event channel has room for what one process says of itself.
PatientUser ==
  /\ Patient /\ ~Faults /\ ~RemoteWorker /\ ~AutoRestart
  /\ Commands \subseteq {"start", "stop", "delete"}
  /\ MaxDrops = 0 /\ EventBuf >= 3

-----------------------------------------------------------------------------
(* The inductive invariant.                                                *)

StartLabels == {"prepare", "scripts", "cleanup", "forgetOld", "removeOld", "install", "create",
                "adopt", "launch"}
StopLabels  == {"stopping", "stopInst", "removeInst", "stopped", "saveStopped"}
OtherLabels == {"stopIf", "forget", "saveForget", "stoppedIf", "wipe"}
Over(o) == pc[o] \in {"unused", "ended"}

\* What the event channel holds.
HasExit  == \E i \in 1..Len(events) : events[i].state = "exited"
HasRun   == \E i \in 1..Len(events) : events[i].state \in {"running", "ready"}
ExitLast == \A i \in 1..Len(events) : events[i].state = "exited" => i = Len(events)

\* Only the three operations are ever called, and each runs its own steps.
KnownCalls ==
  \A c \in Threads : call[c].at # "idle" =>
    call[c].at # "spawned" /\ call[c].type \in {"start", "stop", "delete"}
KnownSteps ==
  \A o \in OpIds :
    /\ pc[o] \notin OtherLabels
    /\ pc[o] \in StartLabels => opType[o] = "start"
    /\ pc[o] \in StopLabels => opType[o] = "stop"

\* Nothing but one start is going on, and there is no process.
Undisturbed ==
  /\ events = <<>> /\ exiting = {} /\ ~effects.pending /\ recovery.at = "idle"
  /\ worker /\ listed /\ inst # "running" /\ processState # "running"
  /\ spec.desired = "running"

\* A Start that has yet to submit is alone.
StartCallIsAlone ==
  \A c \in Threads : call[c].at # "idle" /\ call[c].type = "start" =>
    /\ call[c].at = "submit" /\ operation = NoType /\ Undisturbed
    /\ \A d \in Threads : d # c => call[d].at = "idle"
    /\ \A o \in OpIds : Over(o)

\* So is the goroutine of a start up to StartInstance; it is the latest one.
StartIsAlone ==
  \A o \in OpIds : pc[o] \in StartLabels =>
    /\ o = nOps /\ operation = "start" /\ Undisturbed
    /\ \A p \in OpIds : p # o => Over(p)
    /\ \A c \in Threads : call[c].at # "idle" => call[c].type # "start"
    /\ pc[o] \in {"forgetOld", "removeOld", "install", "create", "adopt"} => ~spec.instance
    /\ pc[o] = "launch" => spec.instance /\ db.instance

\* After a restart the worker may be away, and then nothing goes on.
AwayIsIdle ==
  ~worker => /\ \A c \in Threads : call[c].at = "idle"
             /\ \A o \in OpIds : Over(o)

\* A row that is gone leaves the manager's map next.
GoneIsUnlisted == row \/ ~listed \/ \E o \in OpIds : pc[o] = "finish"

\* A running process is recorded, tracked, and nobody is about to forget it.
RunningIsKnown ==
  inst = "running" =>
    /\ spec.instance /\ db.instance /\ row /\ listed
    /\ track = "running" /\ exiting = {} /\ ~HasExit
    /\ ~effects.clearInstance
    /\ recovery.at # "save" /\ (recovery.at = "apply" => recovery.info = "running")
    /\ \A o \in OpIds : pc[o] \notin {"stopped", "saveStopped", "deleteRow", "finish"}

\* It is shown as running, or will be.
RunningWillShow ==
  inst = "running" /\ processState # "running" =>
    ~worker \/ recovery.at \in {"inspect", "apply"} \/ HasRun

\* The event channel never overflows, and the exit of a process comes last.
EventsFit ==
  /\ Len(events) <= 3 /\ exiting \subseteq {gen}
  /\ inst = "running" => Len(events) <= IF trackReady THEN 2 ELSE 1
  /\ exiting # {} => Len(events) <= 2 /\ ~HasExit
  /\ ExitLast

\* Until the controller restarts, the worker is there ...
NeverAway == reboots = 0 => worker /\ recovery.at = "idle"

\* ... the latest operation, if it is a Stop or a Delete, has taken the process
\* down when it is past RemoveInstance,
LatestTakesDown ==
  reboots = 0 /\ nOps > 0 /\ opType[nOps] \in {"stop", "delete"}
              /\ pc[nOps] \notin {"stopping", "stopInst", "removeInst", "teardown"}
    => inst # "running"

\* and a process that is gone and shown as running, or may yet be, is on its
\* way to be shown as gone.
Ending ==
  \E o \in OpIds : pc[o] \in {"stopping", "stopInst", "removeInst", "stopped", "teardown",
                              "deleteRow", "finish"}
GoneWillShow ==
  reboots = 0 /\ inst # "running" /\ (processState = "running" \/ (spec.instance /\ HasRun))
    => HasExit \/ (exiting # {} /\ track # "none") \/ ~listed \/ Ending

\* The watcher's side effects restart nothing, and forget the instance only
\* while they are pending.
PlainEffects == ~effects.restart /\ (effects.clearInstance => effects.pending)

ControlInv ==
  /\ KnownCalls /\ KnownSteps /\ StartCallIsAlone /\ StartIsAlone /\ AwayIsIdle
  /\ GoneIsUnlisted /\ NeverAway /\ PlainEffects
ProcessInv ==
  /\ RunningIsKnown /\ RunningWillShow /\ EventsFit /\ LatestTakesDown /\ GoneWillShow
PatientInv == ControlInv /\ ProcessInv

-----------------------------------------------------------------------------
(* The event channel.                                                      *)

\* What a new event changes, if there is room for it (emit).
LEMMA EmitAdds ==
  ASSUME WorkerTypeOK, NEW e \in {"running", "ready", "exited"}, NEW g \in Nat,
         Len(events) < EventBuf, events' = Emit(e, g)
  PROVE  /\ Len(events') = Len(events) + 1
         /\ HasExit' <=> HasExit \/ e = "exited"
         /\ HasRun' <=> HasRun \/ e \in {"running", "ready"}
         /\ ExitLast /\ ~HasExit => ExitLast'
<1> DEFINE u == [state |-> e, gen |-> g]
<1>1. u \in Updates /\ u.state = e /\ events \in Seq(Updates) /\ Len(events) \in Nat
  BY DEF Updates, WorkerTypeOK
<1>2. events' = Append(events, u)
  BY DEF Emit
<1> HIDE DEF u
<1>3. /\ Len(events') = Len(events) + 1 /\ events'[Len(events) + 1] = u
      /\ \A i \in 1..Len(events) : events'[i] = events[i]
  BY <1>1, <1>2
<1>4. \A i \in 1..(Len(events) + 1) : i \in 1..Len(events) \/ i = Len(events) + 1
  BY <1>1
<1> QED BY <1>1, <1>3, <1>4 DEF HasExit, HasRun, ExitLast

\* What taking the first event changes.
LEMMA TailDrops ==
  ASSUME WorkerTypeOK, events # <<>>, events' = Tail(events)
  PROVE  /\ Len(events') < Len(events)
         /\ HasExit' => HasExit
         /\ HasRun' => HasRun
         /\ Head(events).state # "exited" => (HasExit => HasExit')
         /\ Head(events).state \notin {"running", "ready"} => (HasRun => HasRun')
         /\ Head(events).state \in {"running", "ready"} => HasRun
         /\ Head(events).state = "exited" => HasExit
         /\ ExitLast => ExitLast'
         /\ ExitLast /\ Head(events).state = "exited" => ~HasRun' /\ ~HasExit'
<1>1. events \in Seq(Updates) /\ Len(events) \in Nat /\ Len(events) > 0
  BY DEF WorkerTypeOK
<1>2. /\ Len(events') = Len(events) - 1 /\ Head(events) = events[1]
      /\ \A i \in 1..(Len(events) - 1) : events'[i] = events[i + 1]
  BY <1>1
<1>3. \A i \in 1..Len(events) : i = 1 \/ (i - 1 \in 1..(Len(events) - 1) /\ events'[i - 1] = events[i])
  BY <1>1, <1>2
<1>4. \A i \in 1..(Len(events) - 1) : i + 1 \in 1..Len(events)
  BY <1>1
<1>5. 1 \in 1..Len(events)
  BY <1>1
<1>6. (HasExit' => HasExit) /\ (HasRun' => HasRun)
  BY <1>1, <1>2, <1>4 DEF HasExit, HasRun
<1>7. Head(events).state # "exited" => (HasExit => HasExit')
  BY <1>2, <1>3 DEF HasExit
<1>8. Head(events).state \notin {"running", "ready"} => (HasRun => HasRun')
  BY <1>2, <1>3 DEF HasRun
<1>9. /\ Head(events).state \in {"running", "ready"} => HasRun
      /\ Head(events).state = "exited" => HasExit
  BY <1>2, <1>5 DEF HasRun, HasExit
<1>10. ASSUME ExitLast PROVE ExitLast'
  <2> SUFFICES ASSUME NEW i \in 1..Len(events'), events'[i].state = "exited" PROVE i = Len(events')
    BY DEF ExitLast
  <2>1. i \in 1..(Len(events) - 1) /\ events[i + 1].state = "exited"
    BY <1>2
  <2>2. i + 1 = Len(events)
    BY <1>4, <1>10, <2>1 DEF ExitLast
  <2>3. i = Len(events) - 1
    BY <1>1, <2>1, <2>2
  <2> QED BY <1>2, <2>3
<1>11. ASSUME ExitLast, Head(events).state = "exited" PROVE ~HasRun' /\ ~HasExit'
  <2>1. Len(events) = 1
    BY <1>2, <1>5, <1>11 DEF ExitLast
  <2>2. 1..(Len(events) - 1) = {}
    BY <2>1
  <2>3. 1..Len(events') = {}
    BY <1>2, <2>2, Zenon
  <2> QED BY <2>3, Zenon DEF HasRun, HasExit
<1> QED BY <1>1, <1>2, <1>6, <1>7, <1>8, <1>9, <1>10, <1>11

\* What losing a prefix changes.
LEMMA LoseDrops ==
  ASSUME WorkerTypeOK, NEW n \in 0..Len(events), LoseInFlight(n)
  PROVE  /\ Len(events') <= Len(events)
         /\ HasExit' => HasExit
         /\ ExitLast => ExitLast'
<1>1. events \in Seq(Updates) /\ Len(events) \in Nat
  BY DEF WorkerTypeOK
<1>2. \A i \in (n + 1)..Len(events) : events[i] \in Updates
  BY <1>1
<1>3. /\ Len(events') = Len(events) - n
      /\ \A i \in 1..(Len(events) - n) : events'[i] = events[i + n]
  BY <1>1, <1>2, SubSeqProperties DEF LoseInFlight
<1>4. \A i \in 1..(Len(events) - n) : i + n \in 1..Len(events)
  BY <1>1
<1> QED BY <1>1, <1>3, <1>4 DEF HasExit, ExitLast

\* An empty channel.
LEMMA NoEvents == ASSUME events = <<>> PROVE ~HasExit /\ ~HasRun /\ Len(events) = 0 /\ ExitLast
BY DEF HasExit, HasRun, ExitLast

\* A channel that is left alone.
LEMMA SameEvents ==
  ASSUME events' = events
  PROVE  (HasExit' <=> HasExit) /\ (HasRun' <=> HasRun) /\ (ExitLast' <=> ExitLast)
BY DEF HasExit, HasRun, ExitLast

-----------------------------------------------------------------------------
(* executeStart.                                                           *)

\* A start that goes on, or fails, before it has started a process.
LEMMA StartGoesOn ==
  ASSUME TypeOK, PatientInv, NEW o \in OpIds, pc[o] \in StartLabels,
         NEW l \in StartLabels \cup {"failed"}, pc' = [pc EXCEPT ![o] = l],
         inst' # "running", spec'.desired = spec.desired,
         l \in {"forgetOld", "removeOld", "install", "create", "adopt"} => ~spec'.instance,
         l = "launch" => spec'.instance /\ db'.instance,
         UNCHANGED <<operation, nOps, opType, call, processState, worker, row, listed, events,
                     exiting, gen, effects, recovery, reboots>>
  PROVE  PatientInv'
<1> USE DEF PatientInv, ControlInv, ProcessInv
<1>1. pc \in [OpIds -> Labels]
  BY DEF TypeOK, GuardTypeOK
<1>2. /\ o = nOps /\ operation = "start" /\ Undisturbed
      /\ \A p \in OpIds : p # o => Over(p)
      /\ \A c \in Threads : call[c].at # "idle" => call[c].type # "start"
  BY DEF StartIsAlone
<1>3. pc'[o] = l /\ \A p \in OpIds : p # o => pc'[p] = pc[p] /\ Over(p)'
  BY <1>1, <1>2 DEF Over
<1>4. Undisturbed'
  BY <1>2 DEF Undisturbed
<1>5. KnownCalls' /\ StartCallIsAlone' /\ NeverAway' /\ PlainEffects'
  BY <1>2 DEF KnownCalls, StartCallIsAlone, NeverAway, PlainEffects
<1>6. KnownSteps'
  BY <1>3 DEF KnownSteps, StartLabels, StopLabels, OtherLabels, Over
<1>7. StartIsAlone'
  BY <1>2, <1>3, <1>4 DEF StartIsAlone, StartLabels, Over
<1>8. AwayIsIdle' /\ GoneIsUnlisted'
  BY <1>2, <1>3 DEF AwayIsIdle, GoneIsUnlisted, Undisturbed, Over, StartLabels
<1>9. ~HasRun' /\ EventsFit' /\ ~HasExit'
  BY <1>2, NoEvents, SameEvents DEF EventsFit, Undisturbed
<1>10. ProcessInv'
  BY <1>4, <1>9 DEF RunningIsKnown, RunningWillShow, LatestTakesDown, GoneWillShow, Undisturbed
<1> QED BY <1>5, <1>6, <1>7, <1>8, <1>10

\* What holds of a start's worker: no call to it is lost, and what has no
\* process has nothing to report when it is removed.
LEMMA StartFacts ==
  ASSUME PatientUser, TypeOK, PatientInv, NEW o \in OpIds, pc[o] \in StartLabels
  PROVE  /\ worker /\ ~CallMayBeLost(o) /\ ~Faults /\ inst # "running" /\ spec \in SpecRecord
         /\ db \in SpecRecord
         /\ pc[o] \in {"forgetOld", "removeOld", "install", "create", "adopt"} => ~spec.instance
         /\ RemoveInstance => inst' = "none" /\ UNCHANGED <<exiting, events, gen>>
         /\ CreateInstance => inst' # "running" /\ UNCHANGED <<exiting, events, gen>>
BY DEF PatientUser, PatientInv, ControlInv, StartIsAlone, Undisturbed, CallMayBeLost, TypeOK,
       RecordTypeOK, RemoveInstance, CreateInstance

\* The steps of executeStart before StartInstance.
LEMMA StartStepKeeps ==
  ASSUME PatientUser, TypeOK, PatientInv, NEW o \in OpIds, StartStep(o), ~Launch(o)
  PROVE  PatientInv'
<1> USE StartFacts DEF StartLabels, At, Goto, guardVars, procVars, linkVars, watchVars, envVars
<1>1. ASSUME Prepare(o) PROVE PatientInv'
  <2>1. spec'.desired = spec.desired /\ UNCHANGED workerVars
    BY <1>1 DEF Prepare, SetError, recVars, SpecRecord
  <2> QED BY <1>1, <2>1, StartGoesOn DEF Prepare, workerVars
<1>2. ASSUME Scripts(o) PROVE PatientInv'
  <2>1. spec'.desired = spec.desired /\ UNCHANGED workerVars
    BY <1>2 DEF Scripts, SetError, recVars, SpecRecord
  <2> QED BY <1>2, <2>1, StartGoesOn DEF Scripts, workerVars
<1>3. ASSUME Cleanup(o) PROVE PatientInv'
  <2>1. spec'.desired = spec.desired /\ ~spec'.instance /\ UNCHANGED workerVars
    BY <1>3 DEF Cleanup, SpecRecord
  <2> QED BY <1>3, <2>1, StartGoesOn DEF Cleanup, workerVars
<1>4. ASSUME ForgetOld(o) PROVE PatientInv'
  BY <1>4, StartGoesOn DEF ForgetOld, workerVars
<1>5. ASSUME RemoveOld(o) PROVE PatientInv'
  BY <1>5, StartGoesOn DEF RemoveOld, recVars
<1>6. ASSUME Install(o) PROVE PatientInv'
  <2>1. spec'.desired = spec.desired /\ (~spec.instance => ~spec'.instance) /\ UNCHANGED workerVars
    BY <1>6 DEF Install, SetError, recVars, SpecRecord
  <2> QED BY <1>6, <2>1, StartGoesOn DEF Install, workerVars
<1>7. ASSUME Create(o) PROVE PatientInv'
  <2>1. spec' = spec /\ inst' # "running" /\ UNCHANGED <<exiting, events, gen>>
    BY <1>7 DEF Create, recVars, NoWorkerEffect, workerVars
  <2> QED BY <1>7, <2>1, StartGoesOn DEF Create, recVars
<1>8. ASSUME Adopt(o) PROVE PatientInv'
  <2>1. CASE Cancelled(o)
    BY <1>8, <2>1, StartGoesOn DEF Adopt, recVars
  <2>2. CASE ~Cancelled(o)
    <3>1. spec'.desired = spec.desired /\ spec'.instance /\ db' = spec' /\ UNCHANGED workerVars
      BY <1>8, <2>2 DEF Adopt, NoWorkerEffect, SpecRecord
    <3> QED BY <1>8, <2>2, <3>1, StartGoesOn DEF Adopt, workerVars
  <2> QED BY <2>1, <2>2
<1> QED
  BY <1>1, <1>2, <1>3, <1>4, <1>5, <1>6, <1>7, <1>8 DEF StartStep

\* StartInstance: the process is recorded, and nothing is around that would
\* take it for another.
LEMMA LaunchKeeps ==
  ASSUME PatientUser, TypeOK, FreshAbove, PatientInv, NEW o \in OpIds, Launch(o)
  PROVE  PatientInv'
<1> USE DEF PatientInv, ControlInv, ProcessInv
<1>1. /\ pc \in [OpIds -> Labels] /\ Len(events) = 0 /\ gen \in Nat /\ spec.instance
      /\ db.instance /\ ~HasExit /\ ~HasRun /\ ExitLast /\ row /\ EventBuf \in Nat
  <2>1. /\ pc[o] = "launch" /\ pc \in [OpIds -> Labels] /\ gen \in Nat
    BY DEF Launch, At, TypeOK, GuardTypeOK, WorkerTypeOK
  <2>2. Undisturbed /\ spec.instance /\ db.instance /\ \A p \in OpIds : p # o => Over(p)
    BY <2>1 DEF StartIsAlone, StartLabels
  <2>3. row
    BY <2>1, <2>2 DEF GoneIsUnlisted, Undisturbed, Over
  <2> QED BY <2>1, <2>2, <2>3, NoEvents, ConstAssumption DEF Undisturbed
<1>2. /\ o = nOps /\ operation = "start" /\ Undisturbed
      /\ \A p \in OpIds : p # o => Over(p)
      /\ \A c \in Threads : call[c].at # "idle" => call[c].type # "start"
      /\ opType[o] = "start"
  BY DEF Launch, At, StartIsAlone, KnownSteps, StartLabels
<1>3. UNCHANGED <<operation, nOps, opType, call, processState, worker, row, listed, effects,
                  recovery, reboots>>
  BY DEF Launch, guardVars, procVars, linkVars, watchVars, envVars
<1>4. PICK l \in {"clear", "deferred", "failed"} : pc' = [pc EXCEPT ![o] = l]
  BY DEF Launch, Succeed, Goto
<1>5. pc'[o] = l /\ \A p \in OpIds : p # o => pc'[p] = pc[p] /\ Over(p)'
  BY <1>1, <1>2, <1>4 DEF Over
<1>6. ControlInv'
  <2>1. KnownCalls' /\ StartCallIsAlone' /\ NeverAway' /\ PlainEffects'
    BY <1>2, <1>3 DEF KnownCalls, StartCallIsAlone, NeverAway, PlainEffects
  <2>2. KnownSteps' /\ StartIsAlone'
    BY <1>2, <1>3, <1>5 DEF KnownSteps, StartIsAlone, StartLabels, StopLabels, OtherLabels, Over
  <2>3. AwayIsIdle' /\ GoneIsUnlisted'
    BY <1>1, <1>2, <1>3 DEF AwayIsIdle, GoneIsUnlisted, Undisturbed
  <2> QED BY <2>1, <2>2, <2>3
<1>7. \/ spec' = spec /\ db' = db
      \/ SetError
  BY DEF Launch, recVars
<1>8. spec'.instance /\ db'.instance
  BY <1>1, <1>7 DEF SetError, TypeOK, RecordTypeOK, SpecRecord
<1>9. CASE StartInstance
  <2>1. /\ inst' = "running" /\ track' = "running" /\ ~trackReady' /\ exiting' = exiting
        /\ gen' = gen + 1 /\ events' = Emit("running", gen + 1)
    BY <1>9 DEF StartInstance
  <2>2. /\ Len(events') = Len(events) + 1 /\ (HasExit' <=> HasExit) /\ HasRun' /\ ExitLast'
    BY <1>1, <2>1, EmitAdds DEF PatientUser, TypeOK, WorkerTypeOK
  <2>3. EventsFit'
    <3>1. exiting' = {} /\ Len(events') = 1
      BY <1>1, <1>2, <2>1, <2>2 DEF Undisturbed
    <3>2. Len(events') <= 3 /\ Len(events') <= 1
      BY <3>1
    <3>3. ~(exiting' # {}) /\ exiting' \subseteq {gen'}
      BY <3>1
    <3> QED BY <2>1, <2>2, <3>2, <3>3, Zenon DEF EventsFit
  <2>4. RunningIsKnown'
    BY <1>1, <1>2, <1>3, <1>5, <1>8, <2>1, <2>2 DEF RunningIsKnown, Undisturbed, Over, PlainEffects
  <2>5. RunningWillShow' /\ LatestTakesDown' /\ GoneWillShow'
    BY <1>2, <1>3, <2>1, <2>2 DEF RunningWillShow, LatestTakesDown, GoneWillShow
  <2> QED BY <1>6, <2>3, <2>4, <2>5
<1>10. CASE ~StartInstance
  <2>1. UNCHANGED workerVars
    BY <1>10 DEF Launch, NoWorkerEffect
  <2> QED BY <1>1, <1>2, <1>3, <1>6, <2>1, SameEvents
          DEF EventsFit, RunningIsKnown, RunningWillShow, LatestTakesDown, GoneWillShow,
              Undisturbed, workerVars
<1> QED BY <1>9, <1>10

-----------------------------------------------------------------------------
(* doStop, executeDelete, and how operations end.                          *)

\* No start is on its way to StartInstance.
NoStart ==
  /\ \A o \in OpIds : pc[o] \notin StartLabels
  /\ \A c \in Threads : call[c].at # "idle" => call[c].type # "start"

\* While another goroutine runs, none is, and the worker is there.
LEMMA BusyNoStart ==
  ASSUME ControlInv, NEW o \in OpIds, ~Over(o), pc[o] \notin StartLabels
  PROVE  NoStart /\ worker
<1>1. worker
  BY DEF ControlInv, AwayIsIdle
<1>2. \A c \in Threads : call[c].at # "idle" => call[c].type # "start"
  BY DEF ControlInv, StartCallIsAlone
<1>3. \A p \in OpIds : pc[p] \notin StartLabels
  BY DEF ControlInv, StartIsAlone
<1> QED BY <1>1, <1>2, <1>3 DEF NoStart

\* The control part of a step of goroutine o to label l.
LEMMA ControlGoesOn ==
  ASSUME TypeOK, ControlInv, NEW o \in OpIds, ~Over(o), pc[o] \notin StartLabels,
         NEW l \in Labels \ (StartLabels \cup OtherLabels \cup {"unused"}),
         l \in StopLabels => opType[o] = "stop",
         pc' = [pc EXCEPT ![o] = l],
         row' = row \/ l = "finish", listed' = listed \/ ~listed',
         pc[o] = "finish" => ~listed',
         UNCHANGED <<call, opType, worker, reboots, recovery, effects>>
  PROVE  ControlInv'
<1>1. NoStart /\ worker /\ pc \in [OpIds -> Labels]
  BY BusyNoStart DEF TypeOK, GuardTypeOK
<1>2. pc'[o] = l /\ \A p \in OpIds : p # o => pc'[p] = pc[p]
  BY <1>1
<1>3. NoStart'
  BY <1>1, <1>2 DEF NoStart
<1>4. StartCallIsAlone' /\ StartIsAlone'
  BY <1>3 DEF NoStart, StartCallIsAlone, StartIsAlone
<1>5. KnownCalls' /\ AwayIsIdle' /\ NeverAway' /\ PlainEffects'
  BY <1>1 DEF ControlInv, KnownCalls, AwayIsIdle, NeverAway, PlainEffects
<1>6. KnownSteps'
  BY <1>2 DEF ControlInv, KnownSteps, StopLabels
<1>7. GoneIsUnlisted'
  BY <1>2 DEF ControlInv, GoneIsUnlisted
<1> QED BY <1>4, <1>5, <1>6, <1>7 DEF ControlInv

RemovingLabels == {"stopping", "stopInst", "removeInst", "teardown"}
EndingLabels == RemovingLabels \cup {"stopped", "deleteRow", "finish"}

\* Its process part, if it leaves the worker and what is shown alone.
LEMMA ProcessGoesOn ==
  ASSUME TypeOK, ProcessInv, NEW o \in OpIds, NEW l \in Labels,
         pc' = [pc EXCEPT ![o] = l],
         UNCHANGED <<workerVars, processState, effects, recovery, worker, reboots, nOps, opType>>,
         inst = "running" =>
           /\ spec'.instance /\ db'.instance /\ row' /\ listed'
           /\ l \notin {"stopped", "saveStopped", "deleteRow", "finish"},
         spec'.instance => spec.instance,
         listed' => listed,
         pc[o] \in RemovingLabels => l \in RemovingLabels \/ inst # "running",
         pc[o] \in EndingLabels => l \in EndingLabels \/ ~listed' \/ Ending'
  PROVE  ProcessInv'
<1> USE DEF ProcessInv
<1>1. pc \in [OpIds -> Labels]
  BY DEF TypeOK, GuardTypeOK
<1>2. pc'[o] = l /\ \A p \in OpIds : p # o => pc'[p] = pc[p]
  BY <1>1
<1>3. /\ (HasExit' <=> HasExit) /\ (HasRun' <=> HasRun) /\ (ExitLast' <=> ExitLast)
      /\ UNCHANGED <<inst, gen, track, trackReady, exiting, events>>
  BY SameEvents DEF workerVars
<1>4. EventsFit'
  BY <1>3 DEF EventsFit
<1>5. RunningIsKnown' /\ RunningWillShow'
  BY <1>2, <1>3 DEF RunningIsKnown, RunningWillShow
<1>6. LatestTakesDown'
  BY <1>2, <1>3 DEF LatestTakesDown, RemovingLabels, OpIds, TypeOK, GuardTypeOK
<1>7. Ending => Ending' \/ ~listed'
  BY <1>2 DEF Ending, EndingLabels, RemovingLabels
<1>8. GoneWillShow'
  BY <1>3, <1>7 DEF GoneWillShow
<1> QED BY <1>4, <1>5, <1>6, <1>8

\* What the calls to a worker do that is there and fails in nothing: a process
\* that is taken down is reported later, or has been.
Removed ==
  /\ inst' = "none" /\ track' = "none" /\ gen' = gen
  /\ \/ inst # "running" /\ UNCHANGED <<exiting, events>>
     \/ inst = "running" /\ exiting' = exiting \cup {gen} /\ UNCHANGED events
     \/ inst = "running" /\ events' = Emit("exited", gen) /\ UNCHANGED exiting

\* RemoveInstance by goroutine o, on its way to label l.
LEMMA RemovalKeeps ==
  ASSUME PatientUser, TypeOK, ProcessInv, NEW o \in OpIds, NEW l \in EndingLabels,
         pc' = [pc EXCEPT ![o] = l], Removed
  PROVE  ProcessInv'
<1> USE DEF ProcessInv
<1>1. pc \in [OpIds -> Labels] /\ gen \in Nat /\ EventBuf \in Nat /\ Len(events) \in Nat
      /\ WorkerTypeOK
  BY ConstAssumption DEF TypeOK, GuardTypeOK, WorkerTypeOK
<1>2. pc'[o] = l /\ inst' # "running"
  BY <1>1 DEF Removed
<1>3. RunningIsKnown' /\ RunningWillShow' /\ LatestTakesDown' /\ GoneWillShow'
  BY <1>2 DEF RunningIsKnown, RunningWillShow, LatestTakesDown, GoneWillShow, Ending,
              EndingLabels, RemovingLabels
<1>4. EventsFit'
  <2>1. CASE inst # "running" /\ UNCHANGED <<exiting, events>>
    BY <1>2, <2>1, SameEvents DEF EventsFit, Removed
  <2>2. CASE inst = "running" /\ exiting' = exiting \cup {gen} /\ UNCHANGED events
    <3>1. exiting = {} /\ ~HasExit /\ Len(events) <= 2 /\ gen' = gen
      BY <1>1, <2>2 DEF EventsFit, RunningIsKnown, Removed
    <3> QED BY <1>1, <1>2, <2>2, <3>1, SameEvents DEF EventsFit
  <2>3. CASE inst = "running" /\ events' = Emit("exited", gen) /\ UNCHANGED exiting
    <3>1. exiting' = {} /\ ~HasExit /\ Len(events) <= 2 /\ ExitLast
      BY <1>1, <2>3 DEF EventsFit, RunningIsKnown
    <3>2. Len(events) < EventBuf
      BY <1>1, <3>1 DEF PatientUser
    <3>3. Len(events') = Len(events) + 1 /\ ExitLast'
      BY <1>1, <2>3, <3>1, <3>2, EmitAdds
    <3>4. Len(events') <= 3
      <4> HIDE <2>3
      <4> QED BY <1>1, <3>1, <3>3
    <3> QED BY <1>2, <3>1, <3>3, <3>4, Zenon DEF EventsFit
  <2> QED BY <2>1, <2>2, <2>3 DEF Removed
<1> QED BY <1>3, <1>4

\* The steps of doStop.
LEMMA StopStepKeeps ==
  ASSUME PatientUser, TypeOK, PatientInv, NEW o \in OpIds, StopStep(o)
  PROVE  PatientInv'
<1> USE DEF PatientInv
<1>0. pc[o] \in StopLabels /\ opType[o] = "stop" /\ pc[o] \notin StartLabels /\ ~Over(o)
  <2>1. pc[o] \in StopLabels \cup OtherLabels
    BY DEF StopStep, DoStop, StopIfRunning, StopOnWorker, RemoveOnWorker, Stopped, SaveStopped,
           Forget, SaveForget, AfterStop, WipeVolume, At, StopLabels, OtherLabels
  <2> QED BY <2>1 DEF ControlInv, KnownSteps, StopLabels, StartLabels, Over
<1>1. NoStart /\ worker /\ spec \in SpecRecord
  BY <1>0, BusyNoStart DEF TypeOK, RecordTypeOK
<1> USE DEF At, Goto
<1>2. ASSUME DoStop(o) PROVE PatientInv'
  <2>1. PICK l \in {"stopInst", "stopped"} :
          pc' = [pc EXCEPT ![o] = l] /\ (l = "stopped" => ~spec.instance)
    BY <1>1, <1>2 DEF DoStop
  <2>2. spec'.instance = spec.instance /\ db' = spec'
    BY <1>1, <1>2 DEF DoStop, SpecRecord
  <2>3. /\ UNCHANGED <<workerVars, processState, effects, recovery, worker, reboots, nOps, opType>>
        /\ UNCHANGED <<call, row, listed>> /\ pc[o] = "stopping"
    BY <1>2 DEF DoStop, guardVars, procVars, linkVars, watchVars, envVars
  <2>4. inst = "running" => spec.instance /\ row /\ listed
    BY DEF ProcessInv, RunningIsKnown
  <2>5. ControlInv'
    BY <1>0, <2>1, <2>3, ControlGoesOn DEF Labels, StartLabels, OtherLabels
  <2>6. ProcessInv'
    BY <2>1, <2>2, <2>3, <2>4, ProcessGoesOn DEF Labels, RemovingLabels, EndingLabels
  <2> QED BY <2>5, <2>6
<1>3. ASSUME StopOnWorker(o) PROVE PatientInv'
  <2>1. /\ pc' = [pc EXCEPT ![o] = "removeInst"] /\ pc[o] = "stopInst"
        /\ UNCHANGED <<call, row, listed, spec, db, processState, effects, recovery, worker,
                       reboots, nOps, opType>>
        /\ StopInstance \/ UNCHANGED workerVars
    BY <1>3 DEF StopOnWorker, guardVars, procVars, linkVars, watchVars, envVars, recVars,
                NoWorkerEffect
  <2>2. ControlInv'
    BY <1>0, <2>1, ControlGoesOn DEF Labels, StartLabels, OtherLabels
  <2>3. CASE UNCHANGED workerVars
    <3>1. inst = "running" => spec.instance /\ db.instance /\ row /\ listed
      BY DEF ProcessInv, RunningIsKnown
    <3>2. ProcessInv'
      BY <2>1, <2>3, <3>1, ProcessGoesOn DEF Labels, RemovingLabels, EndingLabels
    <3> QED BY <2>2, <3>2
  <2>4. CASE StopInstance
    <3>1. /\ inst' # "running" /\ UNCHANGED <<gen, events>>
          /\ exiting' = IF inst = "running" THEN exiting \cup {gen} ELSE exiting
      BY <2>4 DEF StopInstance, TypeOK, WorkerTypeOK
    <3>2. pc'[o] = "removeInst"
      BY <2>1 DEF TypeOK, GuardTypeOK
    <3>3. RunningIsKnown' /\ RunningWillShow' /\ LatestTakesDown' /\ GoneWillShow'
      BY <3>1, <3>2 DEF RunningIsKnown, RunningWillShow, LatestTakesDown, GoneWillShow, Ending
    <3>4. EventsFit'
      <4>1. Len(events) \in Nat
        BY DEF TypeOK, WorkerTypeOK
      <4>2. inst = "running" => exiting = {} /\ ~HasExit /\ Len(events) <= 2
        BY <4>1 DEF ProcessInv, EventsFit, RunningIsKnown
      <4> QED BY <3>1, <4>2, SameEvents DEF ProcessInv, EventsFit
    <3> QED BY <2>2, <3>3, <3>4 DEF ProcessInv
  <2> QED BY <2>1, <2>3, <2>4
<1>4. ASSUME RemoveOnWorker(o) PROVE PatientInv'
  <2>1. /\ pc' = [pc EXCEPT ![o] = "stopped"] /\ pc[o] = "removeInst"
        /\ UNCHANGED <<call, row, listed, spec, db, processState, effects, recovery, worker,
                       reboots, nOps, opType>>
        /\ RemoveInstance
    BY <1>0, <1>1, <1>4 DEF RemoveOnWorker, guardVars, procVars, linkVars, watchVars, envVars,
                recVars, CallMayBeLost, PatientUser
  <2>2. ControlInv'
    BY <1>0, <2>1, ControlGoesOn DEF Labels, StartLabels, OtherLabels
  <2>3. ProcessInv'
    BY <2>1, RemovalKeeps DEF RemoveInstance, Removed, EndingLabels
  <2> QED BY <2>2, <2>3
<1>5. ASSUME Stopped(o) PROVE PatientInv'
  <2>1. /\ pc' = [pc EXCEPT ![o] = "saveStopped"] /\ pc[o] = "stopped"
        /\ UNCHANGED <<call, row, listed, effects, recovery, worker, reboots, nOps, opType,
                       inst, gen, track, trackReady, exiting, events>>
        /\ processState' = "none"
    BY <1>5 DEF Stopped, guardVars, linkVars, watchVars, envVars, workerVars, ClearProcess
  <2>2. ~spec'.instance
    BY <1>1, <1>5 DEF Stopped, SpecRecord
  <2>3. ControlInv'
    BY <1>0, <2>1, ControlGoesOn DEF Labels, StartLabels, OtherLabels
  <2>4. inst # "running"
    BY <2>1 DEF ProcessInv, RunningIsKnown
  <2>5. RunningIsKnown' /\ RunningWillShow' /\ LatestTakesDown' /\ GoneWillShow'
    BY <2>1, <2>2, <2>4 DEF RunningIsKnown, RunningWillShow, LatestTakesDown, GoneWillShow
  <2>6. EventsFit'
    BY <2>1, SameEvents DEF ProcessInv, EventsFit
  <2> QED BY <2>3, <2>5, <2>6 DEF ProcessInv
<1>6. ASSUME SaveStopped(o) PROVE PatientInv'
  <2>1. /\ pc' = [pc EXCEPT ![o] = "clear"] /\ pc[o] = "saveStopped"
        /\ UNCHANGED <<workerVars, call, row, listed, spec, processState, effects, recovery,
                       worker, reboots, nOps, opType>>
    BY <1>0, <1>6 DEF SaveStopped, Succeed, ClearOnSuccess, guardVars, procVars, linkVars,
                      watchVars, envVars
  <2>2. inst # "running"
    BY <2>1 DEF ProcessInv, RunningIsKnown
  <2>3. ControlInv'
    BY <1>0, <2>1, ControlGoesOn DEF Labels, StartLabels, OtherLabels, StopLabels
  <2>4. ProcessInv'
    BY <2>1, <2>2, ProcessGoesOn DEF Labels, RemovingLabels, EndingLabels
  <2> QED BY <2>3, <2>4
<1>7. ASSUME StopIfRunning(o) \/ Forget(o) \/ SaveForget(o) \/ AfterStop(o) \/ WipeVolume(o)
      PROVE  PatientInv'
  BY <1>0, <1>7 DEF StopLabels, StopIfRunning, Forget, SaveForget, AfterStop, WipeVolume
<1> QED BY <1>2, <1>3, <1>4, <1>5, <1>6, <1>7 DEF StopStep

\* The steps of executeDelete.
LEMMA DeleteStepKeeps ==
  ASSUME PatientUser, TypeOK, PatientInv, NEW o \in OpIds, DeleteStep(o)
  PROVE  PatientInv'
<1> USE DEF PatientInv
<1>0. pc[o] \in {"teardown", "deleteRow", "finish"} /\ pc[o] \notin StartLabels /\ ~Over(o)
  BY DEF DeleteStep, Teardown, DeleteRow, FinishDelete, At, StartLabels, Over
<1>1. NoStart /\ worker
  BY <1>0, BusyNoStart
<1>2. inst = "running" => spec.instance /\ db.instance /\ row /\ listed
                          /\ pc[o] \notin {"deleteRow", "finish"}
  BY DEF ProcessInv, RunningIsKnown
<1> USE DEF At, Goto
<1>3. ASSUME Teardown(o) PROVE PatientInv'
  <2>1. /\ UNCHANGED <<call, row, listed, spec, db, processState, effects, recovery, worker,
                       reboots, nOps, opType>>
        /\ pc[o] = "teardown"
    BY <1>3 DEF Teardown, guardVars, procVars, linkVars, watchVars, envVars, recVars
  <2>2. CASE ~row /\ pc' = [pc EXCEPT ![o] = "finish"] /\ UNCHANGED workerVars
    <3>1. ControlInv'
      BY <1>0, <2>1, <2>2, ControlGoesOn DEF Labels, StartLabels, OtherLabels, StopLabels
    <3>2. ProcessInv'
      BY <1>2, <2>1, <2>2, ProcessGoesOn DEF Labels, EndingLabels
    <3> QED BY <3>1, <3>2
  <2>3. CASE RemoveInstance /\ pc' = [pc EXCEPT ![o] = "deleteRow"]
    <3>1. ControlInv'
      BY <1>0, <2>1, <2>3, ControlGoesOn DEF Labels, StartLabels, OtherLabels, StopLabels
    <3>2. ProcessInv'
      BY <2>3, RemovalKeeps DEF RemoveInstance, Removed, EndingLabels
    <3> QED BY <3>1, <3>2
  <2> QED BY <1>1, <1>3, <2>2, <2>3 DEF Teardown, NoWorkerEffect, CallMayBeLost, PatientUser
<1>4. ASSUME DeleteRow(o) PROVE PatientInv'
  <2>1. PICK l \in {"finish", "failed"} :
          pc' = [pc EXCEPT ![o] = l] /\ (l = "failed" => ~row) /\ (l = "finish" => row)
    BY <1>4 DEF DeleteRow
  <2>2. /\ UNCHANGED <<call, listed, spec, db, processState, effects, recovery, worker,
                       reboots, nOps, opType>>
        /\ UNCHANGED workerVars /\ pc[o] = "deleteRow" /\ row' = FALSE
    BY <1>4 DEF DeleteRow, guardVars, procVars, watchVars, envVars, recVars
  <2>3. row' = row \/ l = "finish"
    BY <2>1, <2>2 DEF TypeOK, RecordTypeOK
  <2>4. ControlInv'
    BY <1>0, <2>1, <2>2, <2>3, ControlGoesOn DEF Labels, StartLabels, OtherLabels, StopLabels
  <2>5. l = "failed" => ~listed \/ Ending'
    <3>1. ASSUME l = "failed", listed PROVE \E p \in OpIds : p # o /\ pc[p] = "finish"
      BY <2>1, <2>2, <3>1 DEF ControlInv, GoneIsUnlisted
    <3> QED BY <2>1, <3>1 DEF Ending, TypeOK, GuardTypeOK
  <2>6. ProcessInv'
    BY <1>2, <2>1, <2>2, <2>5, ProcessGoesOn DEF Labels, EndingLabels, RemovingLabels
  <2> QED BY <2>4, <2>6
<1>5. ASSUME FinishDelete(o) PROVE PatientInv'
  <2>1. /\ UNCHANGED <<call, row, spec, db, processState, effects, recovery, worker, reboots,
                       nOps, opType>>
        /\ UNCHANGED workerVars /\ pc[o] = "finish" /\ ~listed'
        /\ pc' = [pc EXCEPT ![o] = "deferred"]
    BY <1>5 DEF FinishDelete, guardVars, procVars, watchVars, envVars, recVars
  <2>2. ControlInv'
    BY <1>0, <2>1, ControlGoesOn DEF Labels, StartLabels, OtherLabels, StopLabels
  <2>3. ProcessInv'
    BY <1>2, <2>1, ProcessGoesOn DEF Labels, RemovingLabels
  <2> QED BY <2>2, <2>3
<1> QED BY <1>3, <1>4, <1>5 DEF DeleteStep

\* The end of an operation.
LEMMA EndStepKeeps ==
  ASSUME TypeOK, PatientInv, NEW o \in OpIds, EndStep(o)
  PROVE  PatientInv'
<1> USE DEF PatientInv
<1>1. PICK l \in {"clear", "deferred", "ended"} : pc' = [pc EXCEPT ![o] = l]
  BY DEF EndStep, OpFailed, ClearOperation, Deferred, Goto
<1>2. pc[o] \in {"failed", "clear", "deferred"} /\ pc[o] \notin StartLabels /\ ~Over(o)
  BY DEF EndStep, OpFailed, ClearOperation, Deferred, At, StartLabels, Over
<1>3. /\ UNCHANGED <<call, row, listed, processState, effects, recovery, worker, reboots, nOps,
                     opType>>
      /\ UNCHANGED workerVars
  BY DEF EndStep, OpFailed, ClearOperation, Deferred, guardVars, procVars, linkVars, watchVars,
         envVars
<1>4. spec'.instance = spec.instance /\ db'.instance = db.instance
  BY DEF EndStep, OpFailed, ClearOperation, Deferred, SetError, recVars, TypeOK, RecordTypeOK,
         SpecRecord
<1>5. inst = "running" => spec.instance /\ db.instance /\ row /\ listed
  BY DEF ProcessInv, RunningIsKnown
<1>6. ControlInv'
  BY <1>1, <1>2, <1>3, ControlGoesOn DEF Labels, StartLabels, OtherLabels, StopLabels
<1>7. ProcessInv'
  BY <1>1, <1>2, <1>3, <1>4, <1>5, ProcessGoesOn DEF Labels, EndingLabels, RemovingLabels
<1> QED BY <1>6, <1>7

-----------------------------------------------------------------------------
(* Callers.                                                                *)

\* What no caller touches keeps the process part.
LEMMA ProcessSame ==
  ASSUME ProcessInv,
         UNCHANGED <<workerVars, processState, effects, recovery, worker, row, listed, reboots,
                     nOps, opType, pc>>,
         spec'.instance = spec.instance, db'.instance = db.instance
  PROVE  ProcessInv'
<1>1. /\ (HasExit' <=> HasExit) /\ (HasRun' <=> HasRun) /\ (ExitLast' <=> ExitLast)
      /\ UNCHANGED <<inst, gen, track, trackReady, exiting, events>>
  BY SameEvents DEF workerVars
<1>2. EventsFit' /\ RunningWillShow' /\ LatestTakesDown'
  BY <1>1 DEF ProcessInv, EventsFit, RunningWillShow, LatestTakesDown
<1>3. RunningIsKnown'
  BY <1>1 DEF ProcessInv, RunningIsKnown
<1>4. GoneWillShow'
  BY <1>1 DEF ProcessInv, GoneWillShow, Ending
<1> QED BY <1>2, <1>3, <1>4 DEF ProcessInv

\* Start finds everything settled and no process shown, so there is none.
LEMMA CallStartKeeps ==
  ASSUME PatientUser, TypeOK, PatientInv, NEW c \in Threads, CallStart(c)
  PROVE  PatientInv'
<1> USE DEF PatientInv
<1>1. /\ Settled /\ operation = NoType /\ processState # "running" /\ listed
      /\ \A d \in Threads : call[d].at = "idle"
  BY DEF CallStart, MayCall, PatientUser, Priority, Settled, InFlight
<1>2. /\ call' = [call EXCEPT ![c] = [at |-> "submit", type |-> "start", cancel |-> NoOp, done |-> NoOp]]
      /\ spec' = [spec EXCEPT !.desired = "running", !.error = FALSE]
      /\ db' = [db EXCEPT !.desired = "running", !.error = FALSE]
  BY <1>1 DEF CallStart, StartPrologue, EnterSubmit
<1>3. /\ spec'.instance = spec.instance /\ db'.instance = db.instance
      /\ spec'.desired = "running"
  BY <1>2 DEF TypeOK, RecordTypeOK, SpecRecord
<1>4. UNCHANGED <<workerVars, processState, effects, recovery, worker, row, listed, reboots,
                  nOps, opType, pc, operation>>
  BY DEF CallStart, watchVars, linkVars, bodyVars
<1>5. /\ events = <<>> /\ exiting = {} /\ ~effects.pending /\ recovery.at = "idle" /\ worker
      /\ \A o \in OpIds : Over(o)
  BY <1>1 DEF Settled, Quiet, Over
<1>6. inst # "running"
  BY <1>1, <1>5, NoEvents DEF ProcessInv, RunningWillShow
<1>7. Undisturbed' /\ \A o \in OpIds : Over(o)'
  BY <1>1, <1>3, <1>4, <1>5, <1>6 DEF Undisturbed, workerVars, Over
<1>8. /\ call'[c].at = "submit" /\ call'[c].type = "start"
      /\ \A d \in Threads : d # c => call'[d].at = "idle"
  BY <1>1, <1>2 DEF TypeOK, GuardTypeOK
<1>9. StartCallIsAlone'
  BY <1>1, <1>4, <1>7, <1>8 DEF StartCallIsAlone
<1>10. StartIsAlone' /\ AwayIsIdle'
  BY <1>4, <1>5, <1>7 DEF StartIsAlone, AwayIsIdle, StartLabels, Over
<1>11. KnownCalls' /\ KnownSteps' /\ GoneIsUnlisted' /\ NeverAway' /\ PlainEffects'
  BY <1>4, <1>8 DEF ControlInv, KnownCalls, KnownSteps, GoneIsUnlisted, NeverAway, PlainEffects
<1>12. ProcessInv'
  BY <1>3, <1>4, ProcessSame
<1> QED BY <1>9, <1>10, <1>11, <1>12 DEF ControlInv

\* A call that is not a Start, on its way to and through submitOperation.
LEMMA CallGoesOn ==
  ASSUME TypeOK, PatientInv, NEW c \in Threads, NEW r \in Calls,
         call' = [call EXCEPT ![c] = r], worker,
         r.at # "idle" => r.at # "spawned" /\ r.type \in {"stop", "delete"},
         r.at # "idle" => \A d \in Threads : call[d].at # "idle" => call[d].type # "start",
         UNCHANGED <<workerVars, processState, effects, recovery, worker, row, listed, reboots,
                     nOps, opType, pc, operation, spec, db>>
  PROVE  PatientInv'
<1> USE DEF PatientInv
<1>1. call'[c] = r /\ \A d \in Threads : d # c => call'[d] = call[d]
  BY DEF TypeOK, GuardTypeOK
<1>2. Undisturbed' <=> Undisturbed
  BY DEF Undisturbed, workerVars
<1>3. \A o \in OpIds : Over(o)' <=> Over(o)
  BY DEF Over
<1>4. KnownCalls' /\ KnownSteps' /\ GoneIsUnlisted' /\ NeverAway' /\ PlainEffects' /\ AwayIsIdle'
  BY <1>1 DEF ControlInv, KnownCalls, KnownSteps, GoneIsUnlisted, NeverAway, PlainEffects,
              AwayIsIdle
<1>5. StartIsAlone'
  BY <1>1, <1>2, <1>3 DEF ControlInv, StartIsAlone
<1>6. StartCallIsAlone'
  BY <1>1, <1>2, <1>3 DEF ControlInv, StartCallIsAlone
<1>7. ProcessInv'
  BY ProcessSame
<1> QED BY <1>4, <1>5, <1>6, <1>7 DEF ControlInv

\* The acceptance of an operation.
LEMMA AcceptKeeps ==
  ASSUME PatientUser, TypeOK, FreshAbove, PatientInv, NEW c \in Threads, SubmitAccept(c)
  PROVE  PatientInv'
<1> USE DEF PatientInv
<1> DEFINE n == nOps + 1
           t == call[c].type
<1>1. /\ n \in OpIds /\ pc[n] = "unused" /\ pc \in [OpIds -> Labels]
      /\ opType \in [OpIds -> OpTypes \cup {NoType}] /\ call \in [Threads -> Calls] /\ nOps \in Nat
  BY ConstAssumption DEF SubmitAccept, TypeOK, GuardTypeOK, FreshAbove, OpIds
<1>2. /\ nOps' = n /\ operation = NoType /\ operation' = t /\ opType' = [opType EXCEPT ![n] = t]
      /\ pc' = [pc EXCEPT ![n] = Entry(t)] /\ call' = [call EXCEPT ![c] = IdleCall]
      /\ call[c].at = "submit"
      /\ UNCHANGED <<workerVars, processState, effects, recovery, worker, row, listed, reboots,
                     spec, db>>
  BY DEF SubmitAccept, recVars, procVars, linkVars, watchVars, envVars
<1>3. t \in {"start", "stop", "delete"} /\ worker
  BY <1>2 DEF ControlInv, KnownCalls, AwayIsIdle
<1> HIDE DEF n, t
<1>4. /\ pc'[n] = Entry(t) /\ opType'[n] = t /\ call'[c].at = "idle"
      /\ \A o \in OpIds : o # n => pc'[o] = pc[o] /\ opType'[o] = opType[o]
      /\ \A d \in Threads : d # c => call'[d] = call[d]
  BY <1>1, <1>2 DEF IdleCall
<1>5. Entry(t) = IF t = "start" THEN "prepare" ELSE IF t = "stop" THEN "stopping" ELSE "teardown"
  BY <1>3 DEF Entry
<1>6. Undisturbed' <=> Undisturbed
  BY <1>2 DEF Undisturbed, workerVars
<1>7. /\ (HasExit' <=> HasExit) /\ (HasRun' <=> HasRun) /\ (ExitLast' <=> ExitLast)
      /\ UNCHANGED <<inst, gen, track, trackReady, exiting, events>>
  BY <1>2, SameEvents DEF workerVars
<1>8. KnownCalls' /\ AwayIsIdle' /\ NeverAway' /\ PlainEffects'
  BY <1>2, <1>3, <1>4 DEF ControlInv, KnownCalls, AwayIsIdle, NeverAway, PlainEffects
<1>9. KnownSteps'
  BY <1>4, <1>5 DEF ControlInv, KnownSteps, StartLabels, StopLabels, OtherLabels
<1>10. GoneIsUnlisted'
  BY <1>1, <1>2, <1>4 DEF ControlInv, GoneIsUnlisted
<1>11. EventsFit' /\ RunningWillShow'
  BY <1>2, <1>7 DEF ProcessInv, EventsFit, RunningWillShow
<1>12. RunningIsKnown'
  BY <1>2, <1>4, <1>5, <1>7 DEF ProcessInv, RunningIsKnown
<1>13. GoneWillShow'
  <2>1. Ending => Ending'
    BY <1>1, <1>4 DEF Ending
  <2> QED BY <1>2, <1>7, <2>1 DEF ProcessInv, GoneWillShow
<1>14. LatestTakesDown'
  BY <1>2, <1>4, <1>5 DEF LatestTakesDown
<1>15. CASE t = "start"
  <2>1. /\ Undisturbed /\ (\A d \in Threads : d # c => call[d].at = "idle")
        /\ \A o \in OpIds : Over(o)
    BY <1>2, <1>15 DEF ControlInv, StartCallIsAlone, t
  <2>2. StartCallIsAlone'
    BY <1>4, <2>1 DEF StartCallIsAlone
  <2>3. StartIsAlone'
    BY <1>2, <1>4, <1>5, <1>6, <1>15, <2>1 DEF StartIsAlone, Over, StartLabels
  <2> QED BY <1>8, <1>9, <1>10, <1>11, <1>12, <1>13, <1>14, <2>2, <2>3 DEF ControlInv, ProcessInv
<1>16. CASE t # "start"
  <2>1. NoStart
    <3>1. \A d \in Threads : call[d].at # "idle" => call[d].type # "start"
      BY <1>2, <1>16 DEF ControlInv, StartCallIsAlone, t
    <3>2. \A o \in OpIds : pc[o] \notin StartLabels
      BY <1>2 DEF ControlInv, StartIsAlone, NoType
    <3> QED BY <3>1, <3>2 DEF NoStart
  <2>2. NoStart'
    BY <1>3, <1>4, <1>5, <1>16, <2>1 DEF NoStart, StartLabels
  <2>3. StartCallIsAlone' /\ StartIsAlone'
    BY <2>2 DEF NoStart, StartCallIsAlone, StartIsAlone
  <2> QED BY <1>8, <1>9, <1>10, <1>11, <1>12, <1>13, <1>14, <2>3 DEF ControlInv, ProcessInv
<1> QED BY <1>15, <1>16

\* The other steps of a call.
LEMMA CallerStepKeeps ==
  ASSUME PatientUser, TypeOK, FreshAbove, PatientInv, NEW c \in Threads, CallerStep(c)
  PROVE  PatientInv'
<1> USE DEF PatientInv
<1>0. ~AutoStart(c)
  BY DEF AutoStart, ControlInv, KnownCalls
<1>1. CASE SubmitAccept(c)
  BY <1>1, AcceptKeeps
<1>2. CASE SubmitReject(c) \/ SubmitPreempt(c) \/ CancelCaptured(c) \/ WaitDone(c)
  <2>1. UNCHANGED <<workerVars, processState, effects, recovery, worker, row, listed, reboots,
                    nOps, opType, pc, operation, spec, db>>
    BY <1>2 DEF SubmitReject, SubmitPreempt, CancelCaptured, WaitDone, bodyVars, recVars,
                procVars, linkVars, watchVars, envVars
  <2>2. call \in [Threads -> Calls] /\ call[c].at # "idle" /\ call[c] \in Calls
        /\ cancelOp \in 0..MaxOps /\ opDone \in 0..MaxOps /\ MaxOps \in Nat
    BY <1>2, ConstAssumption DEF TypeOK, GuardTypeOK, SubmitReject, SubmitPreempt, CancelCaptured, WaitDone
  <2>3. worker /\ call[c].type \in {"start", "stop", "delete"}
    BY <2>2 DEF ControlInv, AwayIsIdle, KnownCalls
  <2>4. CASE SubmitReject(c)
    <3>1. call' = [call EXCEPT ![c] = IdleCall] /\ IdleCall \in Calls /\ IdleCall.at = "idle"
      BY <2>2, <2>4 DEF SubmitReject, IdleCall, Calls, NoOp
    <3> QED BY <2>1, <2>3, <3>1, CallGoesOn
  <2>5. CASE SubmitPreempt(c) \/ CancelCaptured(c) \/ WaitDone(c)
    <3>1. call[c].type # "start"
      <4>1. Priority("start") = 0 /\ \A u \in OpTypes : Priority(u) >= 0
        BY DEF Priority
      <4>2. SubmitPreempt(c) => call[c].type # "start"
        <5>1. ASSUME SubmitPreempt(c) PROVE operation \in OpTypes /\ Priority(call[c].type) > Priority(operation)
          BY <5>1 DEF SubmitPreempt, TypeOK, GuardTypeOK
        <5>2. ASSUME SubmitPreempt(c), call[c].type = "start" PROVE FALSE
          <6>1. Priority(operation) \in {0, 1, 2}
            BY DEF Priority
          <6> QED BY <4>1, <5>1, <5>2, <6>1
        <5> QED BY <5>2
      <4>3. call[c].at # "submit" => call[c].type # "start"
        BY <2>2 DEF ControlInv, StartCallIsAlone
      <4> QED BY <2>5, <4>2, <4>3 DEF CancelCaptured, WaitDone
    <3>2. \A d \in Threads : call[d].at # "idle" => call[d].type # "start"
      BY <2>2, <3>1 DEF ControlInv, StartCallIsAlone
    <3>3. PICK r \in Calls :
            /\ call' = [call EXCEPT ![c] = r] /\ r.type = call[c].type
            /\ r.at \in {"submit", "cancel", "wait"}
      <4>1. CASE SubmitPreempt(c)
        <5> DEFINE r == [at |-> "cancel", type |-> call[c].type, cancel |-> cancelOp, done |-> opDone]
        <5>1. r \in Calls /\ r.type = call[c].type /\ r.at = "cancel"
          BY <2>2 DEF Calls
        <5> QED BY <4>1, <5>1 DEF SubmitPreempt
      <4>2. CASE CancelCaptured(c)
        <5> DEFINE r == [call[c] EXCEPT !.at = "wait"]
        <5>1. r \in Calls /\ r.type = call[c].type /\ r.at = "wait"
          BY <2>2 DEF Calls
        <5>2. call' = [call EXCEPT ![c] = r]
          BY <2>2, <4>2 DEF CancelCaptured
        <5> QED BY <5>1, <5>2
      <4>3. CASE WaitDone(c)
        <5> DEFINE r == [at |-> "submit", type |-> call[c].type, cancel |-> NoOp, done |-> NoOp]
        <5>1. r \in Calls /\ r.type = call[c].type /\ r.at = "submit"
          BY <2>2 DEF Calls, NoOp
        <5> QED BY <4>3, <5>1 DEF WaitDone, EnterSubmit
      <4> QED BY <2>5, <4>1, <4>2, <4>3
    <3> QED BY <2>1, <2>3, <3>1, <3>2, <3>3, CallGoesOn
  <2> QED BY <1>2, <2>4, <2>5
<1> QED BY <1>0, <1>1, <1>2 DEF CallerStep

\* Stop and Delete are called while the worker is there.
LEMMA CallOtherKeeps ==
  ASSUME PatientUser, TypeOK, PatientInv, NEW c \in Threads, NEW t \in OpTypes, CallOther(c, t)
  PROVE  PatientInv'
<1>1. t \in {"stop", "delete"} /\ worker /\ \A d \in Threads : call[d].at = "idle"
  BY DEF CallOther, MayCall, PatientUser, InFlight
<1> DEFINE r == [at |-> "submit", type |-> t, cancel |-> NoOp, done |-> NoOp]
<1>2. r \in Calls /\ r.at = "submit" /\ r.type = t /\ call' = [call EXCEPT ![c] = r]
  BY ConstAssumption DEF CallOther, EnterSubmit, Calls, NoOp
<1>3. UNCHANGED <<workerVars, processState, effects, recovery, worker, row, listed, reboots,
                  nOps, opType, pc, operation, spec, db>>
  BY DEF CallOther, bodyVars, recVars, procVars, linkVars, watchVars, envVars
<1> HIDE DEF r
<1> QED BY <1>1, <1>2, <1>3, CallGoesOn

-----------------------------------------------------------------------------
(* The event watcher, the worker, the recovery and the controller.         *)

\* Until the controller restarts, what is shown as running has an instance;
\* and a recovery only goes on while the worker is there.
ShownIsKnown == reboots = 0 /\ processState = "running" => spec.instance
RecoveryIsOnline == worker \/ recovery.at = "idle"

\* Anything that goes on beside it means there is no start.
LEMMA DisturbedNoStart == ASSUME ControlInv, ~Undisturbed PROVE NoStart
BY DEF ControlInv, StartCallIsAlone, StartIsAlone, NoStart

\* The control part of a step that is not one of an operation.
LEMMA ControlSame ==
  ASSUME ControlInv, ~Undisturbed, UNCHANGED <<call, pc, opType, row, listed>>,
         worker' = worker \/ worker', NeverAway', PlainEffects'
  PROVE  ControlInv'
<1>1. NoStart'
  BY DisturbedNoStart DEF NoStart
<1>2. StartCallIsAlone' /\ StartIsAlone'
  BY <1>1 DEF NoStart, StartCallIsAlone, StartIsAlone
<1>3. KnownCalls' /\ KnownSteps' /\ GoneIsUnlisted'
  BY DEF ControlInv, KnownCalls, KnownSteps, GoneIsUnlisted
<1>4. AwayIsIdle'
  BY DEF ControlInv, AwayIsIdle, Over
<1> QED BY <1>2, <1>3, <1>4 DEF ControlInv

\* Taking an event from the channel.
LEMMA TakingFits ==
  ASSUME TypeOK, EventsFit, events # <<>>, events' = Tail(events),
         UNCHANGED <<exiting, gen, inst, trackReady>>
  PROVE  EventsFit'
<1>1. /\ Len(events') < Len(events) /\ (HasExit' => HasExit) /\ (ExitLast => ExitLast')
      /\ Len(events) \in Nat /\ Len(events') \in Nat
  BY TailDrops DEF TypeOK, WorkerTypeOK
<1>2. Len(events') <= Len(events) /\ Len(events) \in Nat /\ Len(events') \in Nat
  <2>1. \A a, b \in Nat : a < b => a <= b
    OBVIOUS
  <2> QED BY <1>1, <2>1, Zenon
<1> DEFINE n == Len(events)
           m == Len(events')
<1>3. /\ n <= 3 => m <= 3
      /\ n <= 2 => m <= 2
      /\ n <= 1 => m <= 1
  BY <1>2
<1>4. /\ n <= 3 /\ exiting \subseteq {gen} /\ ExitLast
      /\ inst = "running" => n <= IF trackReady THEN 2 ELSE 1
      /\ exiting # {} => n <= 2 /\ ~HasExit
  BY DEF EventsFit
<1> HIDE DEF n, m
<1>5. inst' = "running" => m <= IF trackReady' THEN 2 ELSE 1
  BY <1>3, <1>4
<1> QED BY <1>1, <1>3, <1>4, <1>5, Zenon DEF EventsFit, n, m

\* HandleProcessEvent and applyProcessEventSideEffects.
LEMMA WatcherKeeps ==
  ASSUME PatientUser, TypeOK, PatientInv, ShownIsKnown, WatcherStep
  PROVE  PatientInv'
<1> USE DEF PatientInv
<1>0. spec \in SpecRecord /\ db \in SpecRecord /\ WorkerTypeOK
  BY DEF TypeOK, RecordTypeOK
<1>1. ASSUME EventIgnored PROVE PatientInv'
  <2>1. /\ events # <<>> /\ events' = Tail(events) /\ (~listed \/ ~spec.instance)
        /\ UNCHANGED <<call, pc, opType, row, listed, worker, reboots, effects, recovery, nOps,
                       spec, db, processState, inst, gen, track, trackReady, exiting>>
    BY <1>1 DEF EventIgnored, NextEvent, guardVars, bodyVars, recVars, procVars, linkVars,
                watchVars, envVars
  <2>2. ControlInv'
    BY <2>1, ControlSame DEF Undisturbed, ControlInv, NeverAway, PlainEffects
  <2>3. inst' # "running"
    BY <2>1 DEF ProcessInv, RunningIsKnown
  <2>4. EventsFit'
    BY <2>1, TakingFits DEF ProcessInv
  <2>5. GoneWillShow'
    <3> SUFFICES ASSUME reboots = 0, listed, processState = "running" \/ spec.instance PROVE FALSE
      BY <2>1 DEF GoneWillShow
    <3> QED BY <2>1 DEF ShownIsKnown
  <2> QED BY <2>2, <2>3, <2>4, <2>5
          DEF ProcessInv, RunningIsKnown, RunningWillShow, LatestTakesDown
<1>2. ASSUME EventRunning PROVE PatientInv'
  <2>1. /\ events # <<>> /\ events' = Tail(events) /\ listed /\ spec.instance
        /\ Head(events).state \in {"running", "ready"} /\ processState' = "running"
        /\ UNCHANGED <<call, pc, opType, row, listed, worker, reboots, recovery, nOps, db, inst,
                       gen, track, trackReady, exiting>>
    BY <1>2 DEF EventRunning, NextEvent, bodyVars, linkVars, envVars
  <2>2. spec'.instance = spec.instance
    BY <1>0, <1>2 DEF EventRunning, SpecRecord
  <2>3. effects' = effects \/ (~effects'.restart /\ ~effects'.clearInstance)
    BY <1>2 DEF EventRunning, NoEffects
  <2>4. ControlInv'
    BY <2>1, <2>3, ControlSame DEF Undisturbed, ControlInv, NeverAway, PlainEffects
  <2>5. EventsFit'
    BY <2>1, TakingFits DEF ProcessInv
  <2>6. (HasExit' <=> HasExit) /\ HasRun
    BY <1>0, <2>1, TailDrops
  <2>7. RunningIsKnown' /\ RunningWillShow' /\ LatestTakesDown'
    BY <2>1, <2>2, <2>3, <2>6
       DEF ProcessInv, RunningIsKnown, RunningWillShow, LatestTakesDown
  <2>8. GoneWillShow'
    BY <2>1, <2>2, <2>6 DEF ProcessInv, GoneWillShow, Ending
  <2> QED BY <2>4, <2>5, <2>7, <2>8 DEF ProcessInv
<1>3. ASSUME EventExited PROVE PatientInv'
  <2>1. /\ events # <<>> /\ events' = Tail(events) /\ Head(events).state = "exited"
        /\ UNCHANGED <<call, pc, opType, row, listed, worker, reboots, recovery, nOps, db, inst,
                       gen, track, trackReady, exiting>>
    BY <1>3 DEF EventExited, NextEvent, bodyVars, linkVars, envVars
  <2>2. ~RestartsLeft
    BY DEF RestartsLeft, PatientUser
  <2>3. processState' = "exited" /\ ~spec'.instance /\ ~effects'.restart /\ effects'.pending
    BY <1>0, <1>3, <2>2 DEF EventExited, SpecRecord
  <2>4. inst # "running"
    BY <1>0, <2>1, TailDrops DEF ProcessInv, RunningIsKnown
  <2>5. ControlInv'
    BY <2>1, <2>3, ControlSame DEF Undisturbed, ControlInv, NeverAway, PlainEffects
  <2>6. EventsFit'
    BY <2>1, TakingFits DEF ProcessInv
  <2> QED BY <2>1, <2>3, <2>4, <2>5, <2>6
          DEF ProcessInv, RunningIsKnown, RunningWillShow, LatestTakesDown, GoneWillShow
<1>4. ASSUME ApplyEffects PROVE PatientInv'
  <2>1. ~effects.restart /\ effects.pending /\ effects' = NoEffects
    BY <1>4 DEF ApplyEffects, ControlInv, PlainEffects
  <2>2. /\ UNCHANGED <<call, pc, opType, row, listed, worker, reboots, recovery, nOps, spec,
                       processState, inst, gen, track, trackReady, exiting, events>>
        /\ ~effects.clearInstance => db'.instance = db.instance
    BY <1>0, <1>4, <2>1 DEF ApplyEffects, bodyVars, procVars, linkVars, workerVars, SpecRecord
  <2>3. ControlInv'
    BY <2>1, <2>2, ControlSame DEF Undisturbed, ControlInv, NeverAway, PlainEffects, NoEffects
  <2>4. RunningIsKnown'
    BY <2>1, <2>2, SameEvents DEF ProcessInv, RunningIsKnown, NoEffects
  <2>5. EventsFit' /\ RunningWillShow' /\ LatestTakesDown' /\ GoneWillShow'
    BY <2>2, SameEvents
       DEF ProcessInv, EventsFit, RunningWillShow, LatestTakesDown, GoneWillShow, Ending
  <2> QED BY <2>3, <2>4, <2>5 DEF ProcessInv
<1> QED BY <1>1, <1>2, <1>3, <1>4 DEF WatcherStep

\* The end of a process, its exit watcher and its ready pattern.
LEMMA WorkerKeeps ==
  ASSUME PatientUser, TypeOK, PatientInv,
         ProcessCrash \/ SetReady \/ \E g \in OpIds : SetExited(g)
  PROVE  PatientInv'
<1> USE DEF PatientInv
<1>0. WorkerTypeOK /\ gen \in Nat /\ Len(events) \in Nat /\ EventBuf \in Nat /\ EventBuf >= 3
  BY ConstAssumption DEF TypeOK, WorkerTypeOK, PatientUser
<1>1. UNCHANGED <<call, pc, opType, row, listed, worker, reboots, effects, recovery, nOps, spec,
                  db, processState, gen>>
  BY DEF ProcessCrash, SetReady, SetExited, guardVars, bodyVars, recVars, procVars, linkVars,
         watchVars, envVars
<1>2. ControlInv'
  <2>1. ~Undisturbed
    BY DEF Undisturbed, ProcessCrash, SetReady, SetExited
  <2> QED BY <1>1, <2>1, ControlSame DEF ControlInv, NeverAway, PlainEffects
<1>3. ASSUME ProcessCrash PROVE ProcessInv'
  <2>1. /\ inst = "running" /\ inst' = "exited" /\ exiting' = exiting \cup {gen}
        /\ UNCHANGED <<track, trackReady, events>>
    BY <1>3 DEF ProcessCrash
  <2>2. exiting = {} /\ ~HasExit /\ Len(events) <= 2 /\ track = "running"
    BY <1>0, <2>1 DEF ProcessInv, EventsFit, RunningIsKnown
  <2>3. EventsFit'
    BY <1>0, <1>1, <2>1, <2>2, SameEvents DEF ProcessInv, EventsFit
  <2> QED BY <2>1, <2>2, <2>3
          DEF ProcessInv, RunningIsKnown, RunningWillShow, LatestTakesDown, GoneWillShow
<1>4. ASSUME SetReady PROVE ProcessInv'
  <2>1. /\ inst = "running" /\ ~trackReady /\ trackReady' /\ events' = Emit("ready", gen)
        /\ UNCHANGED <<inst, track, exiting>>
    BY <1>4 DEF SetReady
  <2>2. exiting = {} /\ ~HasExit /\ Len(events) <= 1 /\ ExitLast
    BY <1>0, <2>1 DEF ProcessInv, EventsFit, RunningIsKnown
  <2>3. Len(events) < EventBuf
    BY <1>0, <2>2
  <2>4. Len(events') = Len(events) + 1 /\ ~HasExit' /\ HasRun' /\ ExitLast'
    BY <1>0, <2>1, <2>2, <2>3, EmitAdds
  <2>5. Len(events') <= 3 /\ Len(events') <= 2
    <3> HIDE <2>1, <1>4
    <3> QED BY <1>0, <2>2, <2>4
  <2>6. EventsFit'
    <3>1. exiting' = {}
      BY <2>1, <2>2
    <3>2. Len(events') <= IF trackReady' THEN 2 ELSE 1
      BY <2>1, <2>5, Zenon
    <3>3. exiting' \subseteq {gen'} /\ ~(exiting' # {})
      BY <3>1
    <3> QED BY <2>4, <2>5, <3>2, <3>3, Zenon DEF EventsFit
  <2> QED BY <1>1, <2>1, <2>4, <2>6
          DEF ProcessInv, RunningIsKnown, RunningWillShow, LatestTakesDown, GoneWillShow
<1>5. ASSUME NEW g \in OpIds, SetExited(g) PROVE ProcessInv'
  <2>1. /\ g \in exiting /\ exiting' = exiting \ {g} /\ UNCHANGED <<inst, trackReady>>
        /\ \/ track = "none" /\ UNCHANGED <<track, events>>
           \/ track # "none" /\ events' = Emit("exited", g)
    BY <1>5 DEF SetExited
  <2>2. /\ inst # "running" /\ exiting' = {} /\ g = gen /\ g \in Nat /\ Len(events) <= 2
        /\ ~HasExit /\ ExitLast
    BY <1>0, <2>1 DEF ProcessInv, EventsFit, RunningIsKnown
  <2>3. CASE track = "none" /\ UNCHANGED <<track, events>>
    <3>1. EventsFit'
      BY <1>0, <2>1, <2>2, <2>3, SameEvents DEF ProcessInv, EventsFit
    <3>2. GoneWillShow'
      BY <1>1, <2>1, <2>2, <2>3, SameEvents DEF ProcessInv, GoneWillShow, Ending
    <3> QED BY <2>1, <2>2, <3>1, <3>2
            DEF ProcessInv, RunningIsKnown, RunningWillShow, LatestTakesDown
  <2>4. CASE track # "none" /\ events' = Emit("exited", g)
    <3>1. Len(events) < EventBuf
      BY <1>0, <2>2
    <3>2. Len(events') = Len(events) + 1 /\ HasExit' /\ ExitLast'
      BY <1>0, <2>2, <2>4, <3>1, EmitAdds
    <3>3. Len(events') <= 3
      <4> HIDE <2>1, <2>4, <1>5
      <4> QED BY <1>0, <2>2, <3>2
    <3>4. EventsFit'
      <4>1. inst' # "running" /\ exiting' \subseteq {gen'} /\ ~(exiting' # {})
        BY <2>1, <2>2
      <4> QED BY <3>2, <3>3, <4>1, Zenon DEF EventsFit
    <3> QED BY <2>1, <2>2, <3>2, <3>4
            DEF ProcessInv, RunningIsKnown, RunningWillShow, LatestTakesDown, GoneWillShow
  <2> QED BY <2>1, <2>3, <2>4
<1> QED BY <1>2, <1>3, <1>4, <1>5

\* OnWorkerOnline and recoverGameserver, which only run after a restart.
LEMMA RecoveryKeeps ==
  ASSUME PatientUser, TypeOK, PatientInv, RecoveryIsOnline, OnWorkerOnline \/ RecoveryStep
  PROVE  PatientInv'
<1> USE DEF PatientInv
<1>0. reboots # 0 /\ ~Undisturbed /\ spec \in SpecRecord /\ db \in SpecRecord
  BY DEF OnWorkerOnline, RecoveryStep, RecoverInspect, RecoverApply, RecoverSave, ControlInv,
         NeverAway, Undisturbed, TypeOK, RecordTypeOK
<1>1. UNCHANGED <<call, pc, opType, row, listed, reboots, effects, nOps, workerVars>>
  BY DEF OnWorkerOnline, RecoveryStep, RecoverInspect, RecoverApply, RecoverSave, guardVars,
         bodyVars, linkVars, envVars
<1>2. ControlInv'
  <2>1. worker' = worker \/ worker'
    BY DEF OnWorkerOnline, RecoveryStep, RecoverInspect, RecoverApply, RecoverSave, linkVars
  <2> QED BY <1>0, <1>1, <2>1, ControlSame DEF ControlInv, NeverAway, PlainEffects
<1>3. /\ (HasExit' <=> HasExit) /\ (HasRun' <=> HasRun) /\ (ExitLast' <=> ExitLast)
      /\ UNCHANGED <<inst, gen, track, trackReady, exiting, events>>
  BY <1>1, SameEvents DEF workerVars
<1>4. EventsFit' /\ LatestTakesDown' /\ GoneWillShow'
  BY <1>0, <1>1, <1>3 DEF ProcessInv, EventsFit, LatestTakesDown, GoneWillShow
<1>5. CASE inst # "running"
  BY <1>2, <1>3, <1>4, <1>5 DEF ProcessInv, RunningIsKnown, RunningWillShow
<1>6. CASE inst = "running"
  <2>0. RunningIsKnown
    BY DEF ProcessInv
  <2>1. CASE OnWorkerOnline
    <3>1. /\ UNCHANGED <<spec, db>> /\ recovery'.at = "inspect"
      BY <1>6, <2>0, <2>1 DEF OnWorkerOnline, RunningIsKnown, NoRecovery, recVars
    <3> QED BY <1>1, <1>2, <1>3, <1>4, <2>0, <3>1
            DEF ProcessInv, RunningIsKnown, RunningWillShow
  <2>2. CASE RecoverInspect
    <3>1. Inspections = {"running"}
      BY <1>6, <2>2 DEF Inspections, RecoverInspect, RecoveryIsOnline, PatientUser
    <3>2. UNCHANGED <<spec, db>> /\ recovery'.at = "apply" /\ recovery'.info = "running"
      BY <1>6, <2>0, <2>2, <3>1 DEF RecoverInspect, RunningIsKnown, recVars, TypeOK, WatchTypeOK
    <3> QED BY <1>1, <1>2, <1>3, <1>4, <2>0, <3>2
            DEF ProcessInv, RunningIsKnown, RunningWillShow
  <2>3. CASE RecoverApply
    <3>1. UNCHANGED <<spec, db>> /\ processState' = "running" /\ recovery' = NoRecovery
      BY <1>6, <2>0, <2>3 DEF RecoverApply, RunningIsKnown
    <3> QED BY <1>1, <1>2, <1>3, <1>4, <2>0, <3>1
            DEF ProcessInv, RunningIsKnown, RunningWillShow, NoRecovery
  <2>4. ~RecoverSave
    BY <1>6, <2>0 DEF RecoverSave, RunningIsKnown
  <2> QED BY <2>1, <2>2, <2>3, <2>4 DEF RecoveryStep
<1> QED BY <1>5, <1>6

\* A restart of the controller, at any point.
LEMMA RestartKeeps ==
  ASSUME TypeOK, PatientInv, ControllerRestart
  PROVE  PatientInv'
<1> USE DEF PatientInv
<1>1. /\ spec' = db /\ listed' = row /\ processState' = "none" /\ effects' = NoEffects
      /\ UNCHANGED <<opType, nOps, db, row, inst, gen, track, trackReady, exiting>>
      /\ \A c \in Threads : call'[c].at = "idle"
      /\ \A o \in OpIds : pc'[o] \in {"unused", "ended"}
      /\ reboots' # 0
    BY DEF ControllerRestart, ClearProcess, IdleCall, TypeOK, WatchTypeOK
<1>2. /\ recovery'.at \in {"idle", "inspect"}
      /\ worker' /\ row => recovery'.at = "inspect"
  BY DEF ControllerRestart, NoRecovery
<1>3. PICK n \in 0..Len(events) : LoseInFlight(n)
  BY DEF ControllerRestart
<1>4. Len(events') <= Len(events) /\ (HasExit' => HasExit) /\ (ExitLast => ExitLast')
  BY <1>3, LoseDrops DEF TypeOK
<1>5. NoStart' /\ \A o \in OpIds : Over(o)'
  BY <1>1 DEF NoStart, StartLabels, Over
<1>6. ControlInv'
  <2>1. KnownCalls' /\ KnownSteps' /\ AwayIsIdle' /\ GoneIsUnlisted' /\ NeverAway' /\ PlainEffects'
    BY <1>1, <1>5 DEF KnownCalls, KnownSteps, AwayIsIdle, GoneIsUnlisted, NeverAway, PlainEffects,
                      NoEffects, StartLabels, StopLabels, OtherLabels
  <2>2. StartCallIsAlone' /\ StartIsAlone'
    BY <1>5 DEF NoStart, StartCallIsAlone, StartIsAlone
  <2> QED BY <2>1, <2>2 DEF ControlInv
<1>7. EventsFit'
  <2> DEFINE n0 == Len(events)
             m == Len(events')
  <2>1. n0 \in Nat /\ m \in Nat /\ m <= n0
    BY <1>3, <1>4, LoseType DEF TypeOK, WorkerTypeOK
  <2>2. /\ n0 <= 3 => m <= 3
        /\ n0 <= 2 => m <= 2
        /\ n0 <= 1 => m <= 1
    <3> HIDE DEF n0, m
    <3> QED BY <2>1
  <2>3. /\ n0 <= 3 /\ exiting \subseteq {gen} /\ ExitLast
        /\ inst = "running" => n0 <= IF trackReady THEN 2 ELSE 1
        /\ exiting # {} => n0 <= 2 /\ ~HasExit
    BY DEF ProcessInv, EventsFit
  <2> HIDE DEF n0, m
  <2>4. inst' = "running" => m <= IF trackReady' THEN 2 ELSE 1
    BY <1>1, <2>2, <2>3
  <2> QED BY <1>1, <1>4, <2>2, <2>3, <2>4, Zenon DEF EventsFit, n0, m
<1>8. RunningIsKnown' /\ RunningWillShow'
  BY <1>1, <1>2, <1>4 DEF ProcessInv, RunningIsKnown, RunningWillShow, NoEffects
<1>9. LatestTakesDown' /\ GoneWillShow'
  BY <1>1 DEF LatestTakesDown, GoneWillShow
<1> QED BY <1>6, <1>7, <1>8, <1>9 DEF ProcessInv

\* No step shows a process without an instance, or recovers without a worker.
LEMMA NextKeepsShown ==
  ASSUME PatientUser, TypeOK, PatientInv, ShownIsKnown, RecoveryIsOnline, [Next]_vars
  PROVE  ShownIsKnown' /\ RecoveryIsOnline'
<1>0. /\ ControlInv /\ spec \in SpecRecord /\ drops \in Nat
      /\ reboots = 0 => recovery.at = "idle"
  BY DEF PatientInv, ControlInv, NeverAway, TypeOK, RecordTypeOK, WatchTypeOK
<1> USE DEF ShownIsKnown, RecoveryIsOnline
<1>1. ASSUME NEW c \in Threads, CallStart(c) \/ (\E t \in OpTypes : CallOther(c, t)) \/ CallerStep(c)
      PROVE  ShownIsKnown' /\ RecoveryIsOnline'
  <2>1. UNCHANGED <<reboots, processState, worker, recovery>>
    BY <1>1 DEF CallStart, CallOther, CallerStep, AutoStart, SubmitAccept, SubmitReject,
                SubmitPreempt, CancelCaptured, WaitDone, procVars, linkVars, watchVars, envVars
  <2>2. spec'.instance = spec.instance
    BY <1>0, <1>1
       DEF CallStart, CallOther, CallerStep, AutoStart, SubmitAccept, SubmitReject, StartPrologue,
           SubmitPreempt, CancelCaptured, WaitDone, recVars, SpecRecord
  <2> QED BY <2>1, <2>2
<1>2. ASSUME NEW o \in OpIds, StartStep(o) PROVE ShownIsKnown' /\ RecoveryIsOnline'
  <2>1. UNCHANGED <<reboots, processState, worker, recovery>> /\ pc[o] \in StartLabels
    BY <1>2 DEF StartStep, Prepare, Scripts, Cleanup, ForgetOld, RemoveOld, Install, Create, Adopt,
                Launch, procVars, linkVars, watchVars, envVars, At, StartLabels
  <2>2. processState # "running"
    BY <1>0, <2>1 DEF ControlInv, StartIsAlone, Undisturbed
  <2> QED BY <2>1, <2>2
<1>3. ASSUME NEW o \in OpIds, StopStep(o) PROVE ShownIsKnown' /\ RecoveryIsOnline'
  <2>1. UNCHANGED <<reboots, worker, recovery>>
    BY <1>3 DEF StopStep, DoStop, StopIfRunning, StopOnWorker, RemoveOnWorker, Stopped,
                SaveStopped, Forget, SaveForget, AfterStop, WipeVolume, linkVars, watchVars, envVars
  <2>2. \/ processState' = "none"
        \/ processState' = processState /\ spec'.instance = spec.instance
    BY <1>0, <1>3 DEF StopStep, DoStop, StopIfRunning, StopOnWorker, RemoveOnWorker, Stopped,
                SaveStopped, Forget, SaveForget, AfterStop, WipeVolume, procVars, recVars,
                ClearProcess, SetError, SpecRecord
  <2> QED BY <2>1, <2>2
<1>4. ASSUME NEW o \in OpIds, DeleteStep(o) \/ EndStep(o) PROVE ShownIsKnown' /\ RecoveryIsOnline'
  <2>1. UNCHANGED <<reboots, processState, worker, recovery>> /\ spec'.instance = spec.instance
    BY <1>0, <1>4 DEF DeleteStep, Teardown, DeleteRow, FinishDelete, EndStep, OpFailed,
                ClearOperation, Deferred, procVars, linkVars, watchVars, envVars, recVars,
                SetError, SpecRecord
  <2> QED BY <2>1
<1>5. ASSUME WatcherStep PROVE ShownIsKnown' /\ RecoveryIsOnline'
  <2>1. UNCHANGED <<reboots, worker, recovery>>
    BY <1>5 DEF WatcherStep, EventIgnored, EventRunning, EventExited, ApplyEffects, linkVars,
                watchVars, envVars
  <2>2. \/ processState' # "running"
        \/ processState' = processState /\ spec'.instance = spec.instance
        \/ spec'.instance
    BY <1>0, <1>5 DEF WatcherStep, EventIgnored, EventRunning, EventExited, ApplyEffects, procVars,
                recVars, SpecRecord
  <2> QED BY <2>1, <2>2
<1>6. ASSUME ProcessCrash \/ SetReady \/ \E g \in OpIds : SetExited(g)
      PROVE  ShownIsKnown' /\ RecoveryIsOnline'
  BY <1>6 DEF ProcessCrash, SetReady, SetExited, recVars, procVars, linkVars, watchVars, envVars
<1>7. ~StreamBreak /\ ~OnWorkerOffline
  BY <1>0 DEF StreamBreak, OnWorkerOffline, PatientUser
<1>8. ASSUME OnWorkerOnline PROVE ShownIsKnown' /\ RecoveryIsOnline'
  BY <1>8 DEF OnWorkerOnline, recVars, procVars, envVars
<1>9. ASSUME RecoveryStep PROVE ShownIsKnown' /\ RecoveryIsOnline'
  <2>1. reboots # 0 /\ worker /\ worker' = worker /\ reboots' = reboots
    BY <1>0, <1>9 DEF RecoveryStep, RecoverInspect, RecoverApply, RecoverSave, linkVars, envVars
  <2> QED BY <2>1
<1>10. ASSUME ControllerRestart PROVE ShownIsKnown' /\ RecoveryIsOnline'
  BY <1>10 DEF ControllerRestart, ClearProcess, NoRecovery
<1>11. ASSUME UNCHANGED vars PROVE ShownIsKnown' /\ RecoveryIsOnline'
  BY <1>11 DEF vars, recVars, procVars, linkVars, watchVars, envVars
<1> QED BY <1>1, <1>2, <1>3, <1>4, <1>5, <1>6, <1>7, <1>8, <1>9, <1>10, <1>11
        DEF Next, GoroutineStep, Threads

\* Every step keeps the invariant.
LEMMA NextKeepsPatient ==
  ASSUME PatientUser, TypeOK, FreshAbove, PatientInv, ShownIsKnown, RecoveryIsOnline, [Next]_vars
  PROVE  PatientInv'
<1>1. ASSUME NEW c \in Threads, CallStart(c) \/ (\E t \in OpTypes : CallOther(c, t)) \/ CallerStep(c)
      PROVE  PatientInv'
  BY <1>1, CallStartKeeps, CallOtherKeeps, CallerStepKeeps
<1>2. ASSUME NEW o \in OpIds, GoroutineStep(o) PROVE PatientInv'
  BY <1>2, StartStepKeeps, LaunchKeeps, StopStepKeeps, DeleteStepKeeps, EndStepKeeps
     DEF GoroutineStep
<1>3. ASSUME WatcherStep PROVE PatientInv'
  BY <1>3, WatcherKeeps
<1>4. ASSUME ProcessCrash \/ SetReady \/ \E g \in OpIds : SetExited(g) PROVE PatientInv'
  BY <1>4, WorkerKeeps
<1>5. ~StreamBreak /\ ~OnWorkerOffline
  BY DEF StreamBreak, OnWorkerOffline, PatientUser, TypeOK, WatchTypeOK
<1>6. ASSUME OnWorkerOnline \/ RecoveryStep PROVE PatientInv'
  BY <1>6, RecoveryKeeps
<1>7. ASSUME ControllerRestart PROVE PatientInv'
  BY <1>7, RestartKeeps
<1>8. ASSUME UNCHANGED vars PROVE PatientInv'
  <2> USE <1>8 DEF vars, guardVars, bodyVars, recVars, procVars, linkVars, workerVars, watchVars,
                   envVars, PatientInv
  <2>1. ProcessInv'
    BY ProcessSame
  <2>2. /\ KnownCalls' /\ KnownSteps' /\ AwayIsIdle' /\ GoneIsUnlisted' /\ NeverAway'
        /\ PlainEffects'
    BY DEF ControlInv, KnownCalls, KnownSteps, AwayIsIdle, GoneIsUnlisted, NeverAway, PlainEffects,
           Over
  <2>3. StartCallIsAlone' /\ StartIsAlone'
    BY DEF ControlInv, StartCallIsAlone, StartIsAlone, Undisturbed, Over
  <2> QED BY <2>1, <2>2, <2>3 DEF ControlInv
<1> QED BY <1>1, <1>2, <1>3, <1>4, <1>5, <1>6, <1>7, <1>8 DEF Next, Threads

\* A new gameserver has nothing going on.
LEMMA InitPatient == Init => PatientInv /\ ShownIsKnown /\ RecoveryIsOnline
<1> SUFFICES ASSUME Init PROVE PatientInv /\ ShownIsKnown /\ RecoveryIsOnline
  OBVIOUS
<1>1. ControlInv
  BY DEF Init, ControlInv, KnownCalls, KnownSteps, StartCallIsAlone, StartIsAlone, AwayIsIdle,
         GoneIsUnlisted, NeverAway, PlainEffects, IdleCall, NoEffects, NoRecovery, StartLabels,
         StopLabels, OtherLabels
<1>2. ~HasExit /\ ~HasRun /\ Len(events) = 0 /\ ExitLast /\ exiting = {} /\ inst # "running"
      /\ processState # "running" /\ worker
  BY NoEvents DEF Init
<1>3. EventsFit
  BY <1>2 DEF EventsFit
<1>4. ProcessInv
  BY <1>2, <1>3 DEF ProcessInv, RunningIsKnown, RunningWillShow, LatestTakesDown, GoneWillShow
<1> QED BY <1>1, <1>2, <1>4 DEF PatientInv, ShownIsKnown, RecoveryIsOnline

-----------------------------------------------------------------------------
(* The theorems.                                                           *)

\* With a patient user, everything that PatientInv says holds at all times, and
\* across restarts of the controller.
THEOREM PatientInvariant ==
  ASSUME PatientUser
  PROVE  Spec => [](TypeOK /\ FreshAbove /\ PatientInv /\ ShownIsKnown /\ RecoveryIsOnline)
<1> DEFINE PInv == PatientInv /\ ShownIsKnown /\ RecoveryIsOnline
<1>1. Init => PInv
  BY InitPatient
<1>2. TypeOK /\ GuardInv /\ PInv /\ [Next]_vars => PInv'
  BY NextKeepsPatient, NextKeepsShown DEF GuardInv
<1>3. GuardInv => FreshAbove
  BY DEF GuardInv
<1> HIDE DEF PInv
<1>4. Spec => []PInv
  BY <1>1, <1>2, TypeCorrect, GuardInvariant, PTL DEF Spec
<1>5. PInv => PatientInv /\ ShownIsKnown /\ RecoveryIsOnline
  BY DEF PInv
<1> QED BY <1>3, <1>4, <1>5, TypeCorrect, GuardInvariant, PTL

\* A process on the worker is in the database, from before StartInstance until
\* it has been taken down: a controller that dies at any point finds it again.
THEOREM RunningRecorded ==
  ASSUME PatientUser PROVE Spec => []RunningIsRecorded
<1>1. PatientInv => RunningIsRecorded
  BY DEF PatientInv, ProcessInv, RunningIsKnown, RunningIsRecorded
<1> QED BY <1>1, PatientInvariant, PTL

\* Until the controller restarts, no process is left once a Stop or a Delete has
\* settled, wherever in executeStart it cut in.  (A restart ends a Stop half-way.)
THEOREM StopTakesDown ==
  ASSUME PatientUser PROVE Spec => [](reboots = 0 => StoppedIsDown)
<1>1. TypeOK /\ PatientInv => (reboots = 0 => StoppedIsDown)
  <2> SUFFICES ASSUME TypeOK, PatientInv, reboots = 0, Settled, nOps > 0,
                      opType[nOps] \in {"stop", "delete"}
               PROVE  inst # "running"
    BY DEF StoppedIsDown
  <2>1. nOps \in OpIds
    BY ConstAssumption DEF TypeOK, GuardTypeOK, OpIds
  <2>2. pc[nOps] \in {"unused", "ended"}
    BY <2>1 DEF Settled
  <2> QED BY <2>2 DEF PatientInv, ProcessInv, LatestTakesDown
<1> QED BY <1>1, PatientInvariant, PTL

\* Until the controller restarts, whatever has settled is shown as it is: events,
\* doStop and executeDelete between them leave no process shown that is gone and
\* none running that is not shown.  (A recovery applies what it saw earlier.)
THEOREM ShownAsItIs ==
  ASSUME PatientUser PROVE Spec => [](reboots = 0 => ObservedMatchesWorker)
<1>1. PatientInv => (reboots = 0 => ObservedMatchesWorker)
  <2> SUFFICES ASSUME PatientInv, reboots = 0, Settled, listed
               PROVE  processState = "running" <=> inst = "running"
    BY DEF ObservedMatchesWorker
  <2>1. /\ events = <<>> /\ exiting = {} /\ recovery.at = "idle" /\ worker
        /\ \A o \in OpIds : pc[o] \in {"unused", "ended"}
    BY DEF Settled, Quiet
  <2>2. ~HasExit /\ ~HasRun /\ ~Ending
    BY <2>1, NoEvents DEF Ending
  <2> QED BY <2>1, <2>2 DEF PatientInv, ProcessInv, RunningWillShow, GoneWillShow
<1> QED BY <1>1, PatientInvariant, PTL

\* StartInstance is only ever called for a user who wants the gameserver running:
\* nothing comes between Start's write of the desired state and the call.
THEOREM LaunchWanted ==
  ASSUME PatientUser PROVE Spec => LaunchIsWanted
<1>1. TypeOK /\ PatientInv /\ [Next]_vars => [gen' > gen => spec.desired = "running"]_vars
  <2> SUFFICES ASSUME TypeOK, PatientInv, Next, gen' > gen PROVE spec.desired = "running"
    OBVIOUS
  <2>1. gen' # gen
    BY DEF TypeOK, WorkerTypeOK
  <2>2. PICK o \in OpIds : pc[o] \in StartLabels
    BY <2>1 DEF Next, CallStart, CallOther, CallerStep, AutoStart, SubmitAccept, SubmitReject,
       SubmitPreempt, CancelCaptured, WaitDone, GoroutineStep,
       StartStep, Prepare, Scripts, Cleanup, ForgetOld, RemoveOld, Install, Create, Adopt, Launch,
       StopStep, DoStop, StopIfRunning, StopOnWorker, RemoveOnWorker, Stopped, SaveStopped, Forget,
       SaveForget, AfterStop, WipeVolume, DeleteStep, Teardown, DeleteRow, FinishDelete, EndStep,
       OpFailed, ClearOperation, Deferred, WatcherStep, EventIgnored, EventRunning, EventExited,
       ApplyEffects, ProcessCrash, SetReady, SetExited, StreamBreak, OnWorkerOffline,
       OnWorkerOnline, RecoveryStep, RecoverInspect, RecoverApply, RecoverSave, ControllerRestart,
       RemoveInstance, StopInstance, NoWorkerEffect, workerVars, At, StartLabels
  <2> QED BY <2>2 DEF PatientInv, ControlInv, StartIsAlone, Undisturbed
<1> QED BY <1>1, PatientInvariant, PTL DEF Spec, LaunchIsWanted
=============================================================================
