----------------------------- MODULE DepotCache -----------------------------
(* The Steam files of one game on a worker: EnsureDepot logs in to Steam, asks *)
(* for the game's depots and their manifests, downloads what the cache does    *)
(* not have and puts it in the place of the merged directory; the start that   *)
(* asked for it then copies that directory to the gameserver's volume.  Every  *)
(* call has a client of its own (steam.Service is made per call); the cache    *)
(* directory is one for all.  A version stands for a manifest, with 0 for      *)
(* files that are not there or not whole.                                      *)
EXTENDS Naturals

CONSTANTS
  Calls,        \* calls of EnsureDepot that may run
  NDepots,      \* depots of the game for this platform, in the order of the app info
  Accessible,   \* those the account has a key for
  Alone,        \* one call at a time
  MaxEnsures, MaxUpdates, MaxFaults, MaxCrashes

VARIABLES
  steam,     \* depot -> version on Steam
  meta,      \* depot -> version in manifest_meta.json, 0 for none
  merged,    \* the merged directory: [there, has: depot -> version]
  staging,   \* the staging directory
  call,      \* call -> [pc, info: depot -> version, next, needs, count, born]
  client,    \* call -> its connection: "none", "up", "in" (logged on), "down"
  copied,    \* what the last start copied, the versions it had asked for, and
             \* whether the cache was sound then
  swept,     \* how often the staging directory was removed
  spoiled,   \* the last swap of the merged directory failed
  ensures, updates, faults, crashes

vars == <<steam, meta, merged, staging, call, client, copied, swept, spoiled, ensures, updates, faults, crashes>>
disk == <<meta, merged, staging, swept, spoiled>>
counts == <<ensures, updates, faults, crashes>>

Depots == 1 .. NDepots
Empty  == [d \in Depots |-> 0]
NoDir  == [there |-> FALSE, has |-> Empty]
Idle   == [pc |-> "idle", info |-> Empty, next |-> 1, needs |-> FALSE, count |-> 0, born |-> 0]

Init ==
  /\ steam = [d \in Depots |-> 1] /\ meta = Empty /\ merged = NoDir /\ staging = NoDir
  /\ call = [c \in Calls |-> Idle] /\ client = [c \in Calls |-> "none"]
  /\ copied = [files |-> Empty, asked |-> Empty, sound |-> TRUE]
  /\ swept = 0 /\ spoiled = FALSE
  /\ ensures = 0 /\ updates = 0 /\ faults = 0 /\ crashes = 0

Goto(c, pc) == call' = [call EXCEPT ![c].pc = pc]
NextDepot(q) == [q EXCEPT !.pc = "depot", !.next = @ + 1]

---------------------------------------------------------------------------
(* The connection. *)

(* getOrConnect: find a server, dial it, say hello and ask to be logged on. *)
Connect(c) ==
  /\ call[c] = Idle /\ ensures < MaxEnsures
  /\ Alone => \A b \in Calls: call[b] = Idle
  /\ ensures' = ensures + 1
  /\ Goto(c, "logon") /\ client' = [client EXCEPT ![c] = "up"]
  /\ UNCHANGED <<steam, copied, updates, faults, crashes>> /\ UNCHANGED disk

(* The answer comes to the waiter that was registered before the request. *)
LoggedOn(c) ==
  /\ call[c].pc = "logon" /\ client[c] = "up"
  /\ Goto(c, "info") /\ client' = [client EXCEPT ![c] = "in"]
  /\ UNCHANGED <<steam, copied>> /\ UNCHANGED disk /\ UNCHANGED counts

(* The connection drops.  The read loop ends and tells nobody: the request     *)
(* that waits for an answer goes on waiting.                                   *)
Drop(c) ==
  /\ client[c] \in {"up", "in"} /\ faults < MaxFaults /\ faults' = faults + 1
  /\ client' = [client EXCEPT ![c] = "down"]
  /\ UNCHANGED <<steam, call, copied, ensures, updates, crashes>> /\ UNCHANGED disk

(* A call ends: the deferred Close of its Service closes the client. *)
Close(c) == client' = [client EXCEPT ![c] = "none"]

(* The client is left open when a call fails. *)
FailsOpen(c) ==
  /\ call[c].pc \in {"logon", "info", "download"}
  /\ \/ client[c] = "down" /\ UNCHANGED faults
     \/ client[c] # "down" /\ faults < MaxFaults /\ faults' = faults + 1
  /\ call' = [call EXCEPT ![c] = Idle]
  /\ UNCHANGED <<steam, client, copied, ensures, updates, crashes>> /\ UNCHANGED disk

(* A request or a download fails, or the call's context is cancelled. *)
Fails(c) ==
  /\ call[c].pc \in {"logon", "info", "download"}
  /\ \/ client[c] = "down" /\ UNCHANGED faults
     \/ client[c] # "down" /\ faults < MaxFaults /\ faults' = faults + 1
  /\ call' = [call EXCEPT ![c] = Idle] /\ Close(c)
  /\ UNCHANGED <<steam, copied, ensures, updates, crashes>> /\ UNCHANGED disk

---------------------------------------------------------------------------
(* EnsureDepot. *)

(* The depots and their manifests; what an earlier call left in the staging    *)
(* directory is removed.                                                       *)
GetAppInfo(c) ==
  /\ call[c].pc = "info" /\ client[c] = "in"
  /\ call' = [call EXCEPT ![c].pc = "depot", ![c].info = steam]
  /\ staging' = NoDir /\ swept' = swept + 1
  /\ UNCHANGED <<steam, meta, merged, spoiled, client, copied>> /\ UNCHANGED counts

(* The next depot: cached in this version, or in need of the staging           *)
(* directory, and skipped if no key is got for it, whatever the reason.        *)
CheckDepot(c) ==
  LET q == call[c] d == q.next IN
  /\ q.pc = "depot" /\ d <= NDepots
  /\ \/ /\ meta[d] = q.info[d] /\ UNCHANGED faults
        /\ call' = [call EXCEPT ![c] = [NextDepot(q) EXCEPT !.count = @ + 1]]
     \/ /\ meta[d] # q.info[d] /\ d \in Accessible /\ UNCHANGED faults
        /\ call' = [call EXCEPT ![c] = [q EXCEPT !.pc = "download", !.needs = TRUE, !.born = swept]]
     \/ /\ meta[d] # q.info[d]
        /\ \/ d \notin Accessible /\ UNCHANGED faults
           \/ faults < MaxFaults /\ faults' = faults + 1
        /\ call' = [call EXCEPT ![c] = [NextDepot(q) EXCEPT !.needs = TRUE]]
  /\ UNCHANGED <<steam, client, copied, ensures, updates, crashes>> /\ UNCHANGED disk

(* Download asks for the app info once more and fetches the manifest it finds  *)
(* then, file by file into the staging directory; if that was removed while    *)
(* it worked, files are missing from it.                                       *)
Download(c) ==
  LET d == call[c].next IN
  /\ call[c].pc = "download" /\ client[c] = "in"
  /\ staging' = [there |-> TRUE,
                 has |-> [staging.has EXCEPT ![d] = IF call[c].born = swept THEN steam[d] ELSE 0]]
  /\ Goto(c, "meta")
  /\ UNCHANGED <<steam, meta, merged, client, copied, swept, spoiled>> /\ UNCHANGED counts

(* The metadata is written for the version of the first app info; an error is  *)
(* logged.                                                                     *)
SaveMeta(c) ==
  LET d == call[c].next IN
  /\ call[c].pc = "meta"
  /\ \/ meta' = [meta EXCEPT ![d] = call[c].info[d]] /\ UNCHANGED faults
     \/ faults < MaxFaults /\ faults' = faults + 1 /\ UNCHANGED meta
  /\ call' = [call EXCEPT ![c] = [NextDepot(@) EXCEPT !.count = @ + 1]]
  /\ UNCHANGED <<steam, merged, staging, client, copied, swept, spoiled, ensures, updates, crashes>>

AllSeen(c) == call[c].pc = "depot" /\ call[c].next > NDepots

(* No depot was cached or downloaded: an error. *)
NoneFound(c) ==
  /\ AllSeen(c) /\ call[c].count = 0
  /\ call' = [call EXCEPT ![c] = Idle] /\ Close(c)
  /\ UNCHANGED <<steam, copied>> /\ UNCHANGED disk /\ UNCHANGED counts

(* The swap happens only when nothing was cached. *)
RemoveMergedSkips(c) ==
  /\ AllSeen(c) /\ call[c].count > 0
  /\ Goto(c, "copy") /\ UNCHANGED merged
  /\ UNCHANGED <<steam, meta, staging, client, copied, swept, spoiled>> /\ UNCHANGED counts

(* A swap that fails ends the call with an error.  The metadata stays as it    *)
(* was written before, for files the merged directory does not have.           *)
SwapFails(c) == call' = [call EXCEPT ![c] = Idle] /\ Close(c) /\ spoiled' = TRUE

(* The merged directory is removed if there is something to put in its place;  *)
(* when that fails, it is there as before or in part.                          *)
RemoveMerged(c) ==
  /\ AllSeen(c) /\ call[c].count > 0
  /\ \/ /\ Goto(c, IF call[c].needs THEN "rename" ELSE "copy")
        /\ merged' = IF call[c].needs THEN NoDir ELSE merged
        /\ UNCHANGED <<client, spoiled, faults>>
     \/ /\ call[c].needs /\ faults < MaxFaults /\ faults' = faults + 1
        /\ merged' \in {merged, [merged EXCEPT !.has = Empty]}
        /\ SwapFails(c)
  /\ UNCHANGED <<steam, meta, staging, copied, swept, ensures, updates, crashes>>

(* os.Rename of the staging directory; an error if it is not there. *)
RenameStaging(c) ==
  /\ call[c].pc = "rename"
  /\ \/ /\ staging.there
        /\ merged' = staging /\ staging' = NoDir /\ spoiled' = FALSE /\ Goto(c, "copy")
        /\ UNCHANGED <<client, faults>>
     \/ /\ \/ ~staging.there /\ UNCHANGED faults
           \/ staging.there /\ faults < MaxFaults /\ faults' = faults + 1
        /\ SwapFails(c)
        /\ UNCHANGED <<merged, staging>>
  /\ UNCHANGED <<steam, meta, copied, swept, ensures, updates, crashes>>

(* EnsureDepot returns, and executeStart has CopyDepotToVolume copy the files. *)
CopyDepotToVolume(c) ==
  /\ call[c].pc = "copy"
  /\ copied' = [files |-> merged.has, sound |-> ~spoiled,
                asked |-> [d \in Depots |-> IF d \in Accessible THEN call[c].info[d] ELSE 0]]
  /\ call' = [call EXCEPT ![c] = Idle] /\ Close(c)
  /\ UNCHANGED steam /\ UNCHANGED disk /\ UNCHANGED counts

---------------------------------------------------------------------------
(* Steam publishes a build: all depots change, or some of them. *)
Publish(ds) ==
  /\ updates < MaxUpdates /\ updates' = updates + 1
  /\ steam' = [d \in Depots |-> IF d \in ds THEN steam[d] + 1 ELSE steam[d]]
  /\ UNCHANGED <<call, client, copied, ensures, faults, crashes>> /\ UNCHANGED disk

(* The worker process dies. *)
Crash ==
  /\ crashes < MaxCrashes /\ crashes' = crashes + 1
  /\ call' = [c \in Calls |-> Idle] /\ client' = [c \in Calls |-> "none"]
  /\ UNCHANGED <<steam, copied, ensures, updates, faults>> /\ UNCHANGED disk

Next ==
  \/ \E c \in Calls:
       \/ Connect(c) \/ LoggedOn(c) \/ Drop(c) \/ Fails(c)
       \/ GetAppInfo(c) \/ CheckDepot(c) \/ Download(c) \/ SaveMeta(c)
       \/ NoneFound(c) \/ RemoveMerged(c) \/ RenameStaging(c) \/ CopyDepotToVolume(c)
  \/ Publish(Depots)
  \/ Crash

Spec == Init /\ [][Next]_vars

---------------------------------------------------------------------------
TypeOK ==
  /\ steam \in [Depots -> 1 .. 1 + MaxUpdates] /\ meta \in [Depots -> 0 .. 1 + MaxUpdates]
  /\ merged.has \in [Depots -> 0 .. 1 + MaxUpdates] /\ staging.has \in [Depots -> 0 .. 1 + MaxUpdates]
  /\ \A c \in Calls: /\ call[c].pc \in {"idle", "logon", "info", "depot", "download", "meta", "rename", "copy"}
                     /\ call[c].next \in 1 .. NDepots + 1 /\ call[c].count <= NDepots
  /\ client \in [Calls -> {"none", "up", "in", "down"}]

(* What a start copies to the volume has every depot the account may have, in  *)
(* the version Steam named or a later one, whatever failed in earlier calls,   *)
(* the swap of the merged directory apart: after that the cache is what it     *)
(* should be only when a later swap went through.                              *)
CopiedIsWhole == copied.sound => \A d \in Depots: copied.files[d] >= copied.asked[d]

(* Every call closes its connection, also when logging on or a request failed. *)
ClientsClosed == \A c \in Calls: call[c] = Idle => client[c] = "none"

(* "This prevents corrupted game files if the process dies mid-download": the  *)
(* cache has the files of every depot it calls up to date, unless the last     *)
(* swap of the merged directory failed.                                        *)
CacheIsHonest ==
  (\A c \in Calls: call[c] = Idle) /\ ~spoiled => \A d \in Depots: meta[d] <= merged.has[d]
=============================================================================
