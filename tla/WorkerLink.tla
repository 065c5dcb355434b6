------------------------------ MODULE WorkerLink ------------------------------
(* A call of the controller on a worker, as the Worker interface offers it:    *)
(* executed in place by the local worker, or over gRPC by RemoteWorker on the  *)
(* controller and Agent on the worker's node.  There are plain calls, streams  *)
(* down (a backup, a directory, logs, the progress of an image pull or a depot *)
(* download) and streams up (restoring a volume, an upload, a tar for an       *)
(* instance).  A stream is cut into chunks.  On the worker a stream up runs    *)
(* through an io.Pipe between the goroutine that receives (the pump) and the   *)
(* one that writes to the disk (the writer).  The connection, the source and   *)
(* the disk may fail at any chunk.                                             *)
EXTENDS Naturals, Sequences

CONSTANTS
  Kinds,      \* the calls that are made
  MaxChunks,  \* longest stream
  MaxCalls,   \* bound: calls made
  MaxFaults   \* bound: failures

VARIABLES
  call,      \* the call: its kind, whether the worker is remote, how many chunks
  caller,    \* the controller's side: "idle", "send", "wait", "recv"
  taken,     \* chunks read from the source
  up, down,  \* messages under way to the worker and back
  pump,      \* agent: "none", "recv", "write" (in pw.Write), "end"
  pipe,      \* the pipe's write end: "open", "eof", "err"
  writer,    \* who writes to the disk or executes the call: "none", "run", "ok", "err"
  stored,    \* chunks the reading side has
  ran,       \* how often the worker executed a plain call
  ctx,       \* the call's context: "live", "cancelled"
  answer,    \* what the call returned: "none", "ok", "error"
  calls, faults

vars == <<call, caller, taken, up, down, pump, pipe, writer, stored, ran, ctx, answer, calls, faults>>

---------------------------------------------------------------------------
(* The remote procedures, by the shape of their handlers. *)
InstanceCalls == {"CreateInstance", "StartInstance", "StopInstance", "RemoveInstance", "InspectInstance", "Exec"}
VolumeCalls   == {"InstanceStats", "VolumeSize", "CreateVolume", "RemoveVolume"}
FileCalls     == {"ListFiles", "ReadFile", "WriteFile"}
PathCalls     == {"DownloadFile", "DeletePath", "CreateDirectory", "RenamePath", "CopyFromInstance", "CopyToInstance"}
StateCalls    == {"GetAllInstanceStates", "PrepareGameScripts"}
DepotCalls    == {"DownloadWorkshopItem", "CopyDepotToVolume", "ListGameserverInstances"}
Unary   == InstanceCalls \cup VolumeCalls \cup FileCalls \cup PathCalls \cup StateCalls \cup DepotCalls
Down    == {"BackupVolume", "CopyDirFromInstance", "InstanceLogs", "PullImage", "EnsureDepot"}
Up      == {"RestoreVolume", "WriteFileStream", "CopyTarToInstance"}

Init ==
  /\ call = [kind |-> "none", remote |-> FALSE, size |-> 0]
  /\ caller = "idle" /\ taken = 0 /\ up = <<>> /\ down = <<>>
  /\ pump = "none" /\ pipe = "open" /\ writer = "none" /\ stored = 0 /\ ran = 0
  /\ ctx = "live" /\ answer = "none" /\ calls = 0 /\ faults = 0

(* The service calls the worker.  A stream up starts to send; everything else *)
(* is one request, after which the caller waits or reads.                     *)
Invoke(k, remote, size) ==
  /\ caller = "idle" /\ writer # "run" /\ calls < MaxCalls
  /\ k \in Unary => size = 0
  /\ k \in {"PullImage", "EnsureDepot"} => size > 0
  /\ call' = [kind |-> k, remote |-> remote, size |-> size]
  /\ caller' = IF k \in Up THEN "send" ELSE IF k \in Down THEN "recv" ELSE "wait"
  /\ taken' = 0 /\ up' = <<>> /\ down' = <<>> /\ stored' = 0 /\ ran' = 0
  /\ writer' = "run" /\ pipe' = "open" /\ answer' = "none" /\ calls' = calls + 1
  /\ pump' = IF remote /\ k \in Up THEN "recv" ELSE "none"
  /\ ctx' = "live"
  /\ UNCHANGED faults

Return(a) == caller' = "idle" /\ answer' = a

---------------------------------------------------------------------------
(* Plain calls.  The worker executes the request and answers; over gRPC the   *)
(* answer may be lost, and nothing repeats the call.                          *)
Execute ==
  /\ call.kind \in Unary /\ writer = "run"
  /\ ran' = ran + 1
  /\ \/ /\ writer' = "ok" /\ UNCHANGED faults
     \/ /\ writer' = "err" /\ faults < MaxFaults /\ faults' = faults + 1
  /\ UNCHANGED <<call, caller, taken, up, down, pump, pipe, stored, ctx, answer, calls>>

(* The same with a retry behind the caller's back. *)
UnaryRetries ==
  /\ call.kind \in Unary /\ caller = "wait" /\ writer \in {"ok", "err"}
  /\ IF writer = "err" /\ ran = 1 THEN writer' = "run" /\ UNCHANGED <<caller, answer>>
     ELSE Return(IF writer = "ok" THEN "ok" ELSE "error") /\ UNCHANGED writer
  /\ UNCHANGED <<call, taken, up, down, pump, pipe, stored, ran, ctx, calls, faults>>

UnaryReturns ==
  /\ call.kind \in Unary /\ caller = "wait" /\ writer \in {"ok", "err"}
  /\ Return(IF writer = "ok" THEN "ok" ELSE "error")
  /\ UNCHANGED <<call, taken, up, down, pump, pipe, writer, stored, ran, ctx, calls, faults>>

---------------------------------------------------------------------------
(* Streams up: the controller reads its source and sends chunk after chunk.   *)
Sending == call.kind \in Up /\ caller = "send"

SendChunk ==
  /\ Sending /\ taken < call.size
  /\ taken' = taken + 1
  /\ up' = Append(up, "data")
  /\ UNCHANGED <<call, caller, down, pump, pipe, writer, stored, ran, ctx, answer, calls, faults>>

(* The source is at its end: CloseAndRecv. *)
CloseSend ==
  /\ Sending /\ taken = call.size
  /\ caller' = "wait" /\ up' = Append(up, "eof")
  /\ UNCHANGED <<call, taken, down, pump, pipe, writer, stored, ran, ctx, answer, calls, faults>>

(* The source fails: the call returns and leaves the stream as it is, to be    *)
(* ended by the context.  The local worker's Copy sees the error itself.       *)
SourceFails ==
  /\ Sending /\ faults < MaxFaults
  /\ faults' = faults + 1
  /\ Return("error")
  /\ writer' = IF call.remote THEN writer ELSE "err"
  /\ UNCHANGED <<call, taken, up, down, pump, pipe, stored, ran, ctx, calls>>

(* The service is done with the call and its context is cancelled: what is     *)
(* left of the stream ends with an error on the worker.                        *)
CancelContext ==
  /\ caller = "idle" /\ ctx = "live" /\ call.kind # "none"
  /\ ctx' = "cancelled"
  /\ up' = IF pump \in {"recv", "write"} THEN Append(up, "err") ELSE up
  /\ UNCHANGED <<call, caller, taken, down, pump, pipe, writer, stored, ran, answer, calls, faults>>

(* The connection breaks while the caller sends or waits: its Send or Recv     *)
(* returns an error, the worker receives one after what was under way, the end *)
(* of the stream included or not.                                              *)
LinkBreaks ==
  /\ call.remote /\ caller # "idle" /\ faults < MaxFaults
  /\ faults' = faults + 1
  /\ \E arrived \in {up, SelectSeq(up, LAMBDA m: m = "data")}:
       up' = IF call.kind \in Up THEN Append(arrived, "err") ELSE up
  /\ IF call.kind \in Down
     THEN down' = Append(down, "err") /\ writer' = "err" /\ UNCHANGED <<caller, answer>>
     ELSE Return("error") /\ UNCHANGED <<down, writer>>
  /\ UNCHANGED <<call, taken, pump, pipe, stored, ran, ctx, calls>>

---------------------------------------------------------------------------
(* The worker's end of a stream up. *)

(* The pump stops at an error and leaves the pipe open. *)
PumpRecvLeavesOpen ==
  /\ pump = "recv" /\ up # <<>>
  /\ up' = Tail(up)
  /\ IF Head(up) = "data" THEN pump' = "write" /\ UNCHANGED pipe
     ELSE IF Head(up) = "eof" THEN pump' = "end" /\ pipe' = "eof"
     ELSE pump' = "none" /\ UNCHANGED pipe
  /\ UNCHANGED <<call, caller, taken, down, writer, stored, ran, ctx, answer, calls, faults>>

(* Recv: a chunk goes into the pipe, the end of the stream or an error closes  *)
(* it.  Every handler takes the names from the first message and fails without *)
(* one, so nothing can be restored from, or uploaded as, an empty stream.      *)
PumpRecv ==
  /\ pump = "recv" /\ up # <<>>
  /\ up' = Tail(up)
  /\ \/ Head(up) = "data" /\ pump' = "write" /\ UNCHANGED <<pipe, writer>>
     \/ Head(up) = "eof"  /\ pump' = "end" /\ pipe' = "eof"
        /\ writer' = IF call.size = 0 THEN "err" ELSE writer
     \/ Head(up) = "err"  /\ pump' = "end" /\ pipe' = "err" /\ UNCHANGED writer
  /\ UNCHANGED <<call, caller, taken, down, stored, ran, ctx, answer, calls, faults>>

(* The writer reads what the pump has put into the pipe, or its end. *)
WriterReads ==
  /\ call.kind \in Up /\ call.remote /\ writer = "run"
  /\ \/ pump = "write" /\ stored' = stored + 1 /\ pump' = "recv" /\ UNCHANGED writer
     \/ pump = "end" /\ writer' = (IF pipe = "eof" THEN "ok" ELSE "err") /\ UNCHANGED <<stored, pump>>
  /\ UNCHANGED <<call, caller, taken, up, down, pipe, ran, ctx, answer, calls, faults>>

(* The local worker reads the caller's source itself. *)
LocalReads ==
  /\ call.kind \in Up /\ ~call.remote /\ writer = "run" /\ up # <<>>
  /\ up' = Tail(up)
  /\ IF Head(up) = "data" THEN stored' = stored + 1 /\ UNCHANGED writer
     ELSE writer' = "ok" /\ UNCHANGED stored
  /\ UNCHANGED <<call, caller, taken, down, pump, pipe, ran, ctx, answer, calls, faults>>

(* Opening the file, making its directory or writing a chunk fails.  The local *)
(* worker refuses CopyTarToInstance outright: for it this is the only outcome. *)
WriterFails ==
  /\ call.kind \in Up /\ writer = "run" /\ faults < MaxFaults
  /\ faults' = faults + 1 /\ writer' = "err"
  /\ UNCHANGED <<call, caller, taken, up, down, pump, pipe, stored, ran, ctx, answer, calls>>

(* Agent.WriteFileStream is the pump: it returns when the stream has ended and *)
(* the writer is done.  While it is inside pw.Write it waits for a reader.     *)
UploadReturns  == call.kind = "WriteFileStream" /\ pump = "end" /\ writer # "run"

(* Agent.RestoreVolume is the writer; the error of its pump counts too. *)
RestoreReturns == call.kind = "RestoreVolume" /\ writer # "run"

(* Agent.CopyTarToInstance is the writer. *)
CopyTarReturns == call.kind = "CopyTarToInstance" /\ writer # "run"

HandlerReturned == UploadReturns \/ RestoreReturns \/ CopyTarReturns

(* The caller has the handler's answer: from Send, which fails once the        *)
(* handler has returned, or from CloseAndRecv.                                 *)
UpReturns ==
  /\ call.kind \in Up /\ caller \in {"send", "wait"}
  /\ \/ call.remote /\ HandlerReturned
     \/ ~call.remote /\ writer # "run"
  /\ Return(IF writer = "ok" /\ caller = "wait" THEN "ok" ELSE "error")
  /\ UNCHANGED <<call, taken, up, down, pump, pipe, writer, stored, ran, ctx, calls, faults>>

---------------------------------------------------------------------------
(* Streams down: the worker reads its disk or reports progress.               *)
Produce ==
  /\ call.kind \in Down /\ writer = "run" /\ taken < call.size
  /\ taken' = taken + 1 /\ down' = Append(down, "data")
  /\ UNCHANGED <<call, caller, up, pump, pipe, writer, stored, ran, ctx, answer, calls, faults>>

ProduceEnds ==
  /\ call.kind \in Down /\ writer = "run" /\ taken = call.size
  /\ writer' = "ok" /\ down' = Append(down, "eof")
  /\ UNCHANGED <<call, caller, taken, up, pump, pipe, stored, ran, ctx, answer, calls, faults>>

(* The error is logged and the pipe stays open. *)
ProduceFailsUnsaid ==
  /\ call.kind \in Down /\ writer = "run" /\ faults < MaxFaults
  /\ faults' = faults + 1 /\ writer' = "err" /\ UNCHANGED down
  /\ UNCHANGED <<call, caller, taken, up, pump, pipe, stored, ran, ctx, answer, calls>>

(* The pipe is closed without the error. *)
ProduceFailsSilently ==
  /\ call.kind \in Down /\ writer = "run" /\ faults < MaxFaults
  /\ faults' = faults + 1 /\ writer' = "err" /\ down' = Append(down, "eof")
  /\ UNCHANGED <<call, caller, taken, up, pump, pipe, stored, ran, ctx, answer, calls>>

(* Reading the volume, pulling or downloading fails: CloseWithError, and the   *)
(* handler returns the error.                                                  *)
ProduceFails ==
  /\ call.kind \in Down /\ writer = "run" /\ faults < MaxFaults
  /\ faults' = faults + 1 /\ writer' = "err" /\ down' = Append(down, "err")
  /\ UNCHANGED <<call, caller, taken, up, pump, pipe, stored, ran, ctx, answer, calls>>

RecvChunk ==
  /\ call.kind \in Down /\ caller = "recv" /\ down # <<>> /\ Head(down) = "data"
  /\ stored' = stored + 1 /\ down' = Tail(down)
  /\ UNCHANGED <<call, caller, taken, up, pump, pipe, writer, ran, ctx, answer, calls, faults>>

(* grpcStreamReader hands io.EOF and errors on to the reader. *)
StreamEnd == IF Head(down) = "eof" THEN "ok" ELSE "error"

(* EnsureDepot: the last message carries the result; after it an error of the *)
(* stream does not matter.                                                    *)
DepotEnd == IF stored = call.size THEN "ok" ELSE "error"

(* PullImage of a remote worker takes every end of the stream for success. *)
PullEnd == IF call.remote THEN "ok" ELSE StreamEnd

DownReturns ==
  /\ call.kind \in Down /\ caller = "recv" /\ down # <<>> /\ Head(down) # "data"
  /\ Return(CASE call.kind = "PullImage" -> PullEnd
              [] call.kind = "EnsureDepot" -> DepotEnd
              [] OTHER -> StreamEnd)
  /\ down' = <<>>
  /\ UNCHANGED <<call, taken, up, pump, pipe, writer, stored, ran, ctx, calls, faults>>

(* The reader of a stream leaves it, for instance because the storage it       *)
(* copies to has failed: Close does nothing, the worker goes on.               *)
ReaderLeaves ==
  /\ call.kind \in Down \ {"PullImage", "EnsureDepot"} /\ call.remote /\ caller = "recv"
  /\ faults < MaxFaults /\ faults' = faults + 1
  /\ Return("error")
  /\ UNCHANGED <<call, taken, up, down, pump, pipe, writer, stored, ran, ctx, calls>>

(* A stream down whose caller has gone ends with the context. *)
OrphanEnds ==
  /\ ctx = "cancelled" /\ call.kind \in Down /\ writer = "run"
  /\ writer' = "err"
  /\ UNCHANGED <<call, caller, taken, up, down, pump, pipe, stored, ran, ctx, answer, calls, faults>>

---------------------------------------------------------------------------
Next ==
  \/ \E k \in Kinds, remote \in BOOLEAN, size \in 0 .. MaxChunks: Invoke(k, remote, size)
  \/ Execute \/ UnaryReturns
  \/ SendChunk \/ CloseSend \/ SourceFails \/ CancelContext \/ LinkBreaks
  \/ PumpRecv \/ WriterReads \/ LocalReads \/ WriterFails \/ UpReturns
  \/ Produce \/ ProduceEnds \/ ProduceFails \/ RecvChunk \/ DownReturns
  \/ ReaderLeaves \/ OrphanEnds

(* Goroutines that can run do run, and a request's context is cancelled after  *)
(* it; only failures and new calls are free.                                   *)
Progress ==
  \/ Execute \/ UnaryReturns \/ SendChunk \/ CloseSend \/ PumpRecv \/ WriterReads \/ LocalReads
  \/ UpReturns \/ Produce \/ ProduceEnds \/ RecvChunk \/ DownReturns

Spec     == Init /\ [][Next]_vars
FairSpec == Spec /\ WF_vars(Progress) /\ WF_vars(CancelContext) /\ WF_vars(OrphanEnds)

---------------------------------------------------------------------------
TypeOK ==
  /\ call.kind \in Kinds \cup {"none"} /\ call.remote \in BOOLEAN /\ call.size \in 0 .. MaxChunks
  /\ caller \in {"idle", "send", "wait", "recv"}
  /\ taken \in 0 .. call.size /\ stored \in 0 .. taken
  /\ pump \in {"none", "recv", "write", "end"} /\ pipe \in {"open", "eof", "err"}
  /\ writer \in {"none", "run", "ok", "err"} /\ ran \in 0 .. 1
  /\ ctx \in {"live", "cancelled"} /\ answer \in {"none", "ok", "error"}
  /\ calls \in 0 .. MaxCalls /\ faults \in 0 .. MaxFaults

(* A call that returned without an error did what it says: a plain call was    *)
(* executed, and of a stream every chunk arrived, wherever the connection, the *)
(* source or the disk failed before.  Remote image pulls are the exception     *)
(* (see PullOkMeansImage).                                                     *)
OkMeansDone ==
  answer = "ok" /\ ~(call.kind = "PullImage" /\ call.remote)
    => IF call.kind \in Unary THEN ran = 1 /\ writer = "ok" ELSE stored = call.size

(* "stream ended = success": an image pull that returned without an error has  *)
(* pulled the image.                                                           *)
PullOkMeansImage == call.kind = "PullImage" /\ answer = "ok" => writer = "ok"

(* No call waits for ever: whatever fails, the call returns, because either    *)
(* side's failure reaches the other.                                           *)
CallReturns == caller # "idle" ~> caller = "idle"

(* Nor does the goroutine on the worker that executes the call: also when the  *)
(* caller gave up in the middle of a stream, it finds the end of its pipe.     *)
HandlerEnds == writer = "run" ~> writer # "run"
=============================================================================
