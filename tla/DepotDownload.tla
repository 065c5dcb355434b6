---------------------------- MODULE DepotDownload ----------------------------
(* The download of one depot or workshop item: DownloadManifest asks one       *)
(* content server after the other, then DownloadChunksParallel has workers     *)
(* take chunks from a queue, fetch each from the servers in turn, decrypt and  *)
(* check it, and write it to every file that has it.  A server that refuses    *)
(* connections is blacklisted for all workers.  The first worker that fails    *)
(* cancels the context of the others.                                          *)
EXTENDS Naturals, Sequences, FiniteSets

CONSTANTS
  Workers,
  Chunks,        \* the chunks of the manifest, in a sequence
  TargetsOf,     \* chunk -> the files that have it
  Hosts,         \* content servers, in a sequence
  Retries,       \* defaultChunkRetries
  MayCancel,     \* the caller's context may be cancelled
  MaxFaults      \* bound: requests and writes that fail

VARIABLES
  queue,      \* workCh
  worker,     \* worker -> [pc, chunk, tries, host, left: files still to write]
  hostIdx,
  blacklist,
  ctx,        \* "live", "cancelled" (by a worker), "gone" (by the caller)
  errCh,      \* errors sent
  written,    \* <<chunk, file>> that are on disk
  result,     \* "none", "ok", "error"
  faults

vars == <<queue, worker, hostIdx, blacklist, ctx, errCh, written, result, faults>>

Ready == [pc |-> "take", chunk |-> 0, tries |-> 0, host |-> 0, left |-> {}]
MaxAttempts == IF Len(Hosts) > Retries THEN Len(Hosts) ELSE Retries

(* Nothing is started before the manifest is there. *)
Init ==
  /\ queue = <<>> /\ worker = [w \in Workers |-> [Ready EXCEPT !.pc = "none"]]
  /\ hostIdx = 0 /\ blacklist = {} /\ ctx = "live" /\ errCh = 0
  /\ written = {} /\ result = "none" /\ faults = 0

(* DownloadManifest: the first server that answers. *)
DownloadManifest ==
  /\ queue = <<>> /\ result = "none" /\ \A w \in Workers: worker[w].pc = "none"
  /\ queue' = Chunks /\ worker' = [w \in Workers |-> Ready]
  /\ UNCHANGED <<hostIdx, blacklist, ctx, errCh, written, result, faults>>

(* No server answers: the download fails before a worker is started. *)
ManifestFails ==
  /\ result = "none" /\ \A w \in Workers: worker[w].pc = "none"
  /\ faults + Len(Hosts) <= MaxFaults /\ faults' = faults + Len(Hosts)
  /\ result' = "error"
  /\ UNCHANGED <<queue, worker, hostIdx, blacklist, ctx, errCh, written>>

(* The queue is not closed. *)
TakeWorkOpen(w) ==
  /\ worker[w].pc = "take" /\ queue # <<>>
  /\ queue' = Tail(queue)
  /\ worker' = [worker EXCEPT ![w] = IF ctx # "live" THEN [@ EXCEPT !.pc = "done"]
                                     ELSE [Ready EXCEPT !.pc = "next", !.chunk = Head(queue)]]
  /\ UNCHANGED <<hostIdx, blacklist, ctx, errCh, written, result, faults>>

(* A worker takes a chunk; it ends at the end of the queue, and also, without  *)
(* an error, when the context is no longer live.                               *)
TakeWork(w) ==
  /\ worker[w].pc = "take"
  /\ IF queue = <<>> THEN worker' = [worker EXCEPT ![w].pc = "done"] /\ UNCHANGED queue
     ELSE /\ queue' = Tail(queue)
          /\ worker' = [worker EXCEPT ![w] = IF ctx # "live" THEN [@ EXCEPT !.pc = "done"]
                                             ELSE [Ready EXCEPT !.pc = "next", !.chunk = Head(queue)]]
  /\ UNCHANGED <<hostIdx, blacklist, ctx, errCh, written, result, faults>>

(* The servers from the next one on that are not blacklisted, as offsets. *)
Open == {k \in 0 .. Len(Hosts) - 1: Hosts[((hostIdx + k) % Len(Hosts)) + 1] \notin blacklist}

(* The worker goes on after it has sent its error. *)
FailGoesOn(w) == /\ worker' = [worker EXCEPT ![w].pc = "take"]
                 /\ errCh' = errCh + 1
                 /\ UNCHANGED ctx

(* The error is sent, the others are cancelled, and the worker ends. *)
Fail(w) == /\ worker' = [worker EXCEPT ![w].pc = "done"]
           /\ errCh' = errCh + 1
           /\ ctx' = IF ctx = "live" THEN "cancelled" ELSE ctx

(* nextAvailableHost, or the end of the attempts. *)
NextAvailableHost(w) ==
  /\ worker[w].pc = "next"
  /\ IF Open = {} \/ worker[w].tries = MaxAttempts
     THEN Fail(w) /\ UNCHANGED hostIdx
     ELSE LET k == CHOOSE i \in Open: \A j \in Open: i <= j IN
          /\ hostIdx' = (hostIdx + k + 1) % Len(Hosts)
          /\ worker' = [worker EXCEPT ![w].pc = "fetch", ![w].tries = @ + 1,
                                      ![w].host = Hosts[((hostIdx + k) % Len(Hosts)) + 1]]
          /\ UNCHANGED <<ctx, errCh>>
  /\ UNCHANGED <<queue, blacklist, written, result, faults>>

(* The chunk arrives, is decrypted and has the checksum and the size it should *)
(* have.                                                                       *)
Fetched(w) ==
  /\ worker[w].pc = "fetch" /\ ctx = "live"
  /\ worker' = [worker EXCEPT ![w].pc = "write", ![w].left = TargetsOf[worker[w].chunk]]
  /\ UNCHANGED <<queue, hostIdx, blacklist, ctx, errCh, written, result, faults>>

(* The request fails, at once in a context that is not live; a server that     *)
(* cannot be reached at all is blacklisted (isCDNHostError).                   *)
FetchFails(w) ==
  /\ worker[w].pc = "fetch"
  /\ \/ ctx # "live" /\ UNCHANGED <<blacklist, faults>>
     \/ faults < MaxFaults /\ faults' = faults + 1
        /\ \E b \in {{}, {worker[w].host}}: blacklist' = blacklist \cup b
  /\ worker' = [worker EXCEPT ![w].pc = "next"]
  /\ UNCHANGED <<queue, hostIdx, ctx, errCh, written, result>>

(* What arrived is not what the manifest says, or cannot be written. *)
ChunkFails(w) ==
  /\ worker[w].pc \in {"fetch", "write"} /\ faults < MaxFaults /\ faults' = faults + 1
  /\ Fail(w)
  /\ UNCHANGED <<queue, hostIdx, blacklist, written, result>>

(* Only the first file gets the chunk. *)
WriteOne(w) ==
  /\ worker[w].pc = "write"
  /\ \E f \in worker[w].left: written' = written \cup {<<worker[w].chunk, f>>}
  /\ worker' = [worker EXCEPT ![w] = Ready]
  /\ UNCHANGED <<queue, hostIdx, blacklist, ctx, errCh, result, faults>>

(* The handler writes the chunk to the next of its files. *)
WriteAt(w) ==
  /\ worker[w].pc = "write"
  /\ \E f \in worker[w].left:
       /\ written' = written \cup {<<worker[w].chunk, f>>}
       /\ worker' = [worker EXCEPT ![w] = IF @.left = {f} THEN Ready ELSE [@ EXCEPT !.left = @ \ {f}]]
  /\ UNCHANGED <<queue, hostIdx, blacklist, ctx, errCh, result, faults>>

(* The operation that wants the files is stopped. *)
CancelCaller ==
  /\ MayCancel /\ ctx = "live" /\ result = "none" /\ ctx' = "gone"
  /\ UNCHANGED <<queue, worker, hostIdx, blacklist, errCh, written, result, faults>>

(* wg.Wait, and the first error if one was sent. *)
Returns ==
  /\ result = "none" /\ \A w \in Workers: worker[w].pc = "done"
  /\ result' = IF errCh > 0 THEN "error" ELSE "ok"
  /\ UNCHANGED <<queue, worker, hostIdx, blacklist, ctx, errCh, written, faults>>

Next ==
  \/ DownloadManifest \/ ManifestFails \/ CancelCaller \/ Returns
  \/ \E w \in Workers: \/ TakeWork(w) \/ NextAvailableHost(w) \/ Fetched(w) \/ FetchFails(w)
                       \/ ChunkFails(w) \/ WriteAt(w)

Spec == Init /\ [][Next]_vars

(* Goroutines run, requests are answered or time out (cdnRequestTimeout). *)
Progress == DownloadManifest \/ Returns
            \/ \E w \in Workers: TakeWork(w) \/ NextAvailableHost(w) \/ Fetched(w) \/ FetchFails(w) \/ WriteAt(w)
FairSpec == Spec /\ WF_vars(Progress)

---------------------------------------------------------------------------
TypeOK ==
  /\ \A w \in Workers: worker[w].pc \in {"none", "take", "next", "fetch", "write", "done"}
  /\ hostIdx \in 0 .. Len(Hosts) - 1 /\ ctx \in {"live", "cancelled", "gone"}
  /\ errCh <= Cardinality(Workers)     \* the capacity of errCh: no worker blocks on it
  /\ result \in {"none", "ok", "error"}

(* A download that returns without an error has written every chunk to every   *)
(* file that has it, however the workers shared the queue and the servers.     *)
OkIsComplete ==
  result = "ok" => \A i \in DOMAIN Chunks: \A f \in TargetsOf[Chunks[i]]: <<Chunks[i], f>> \in written

(* The download returns, whatever servers and workers fail. *)
DownloadEnds == <>(result # "none")
=============================================================================
