----------------------------- MODULE VolumeFiles -----------------------------
(* The files of one gameserver as users see them: through the file API         *)
(* (controller/file) and through SFTP sessions (sftp/), while Migrate moves    *)
(* the volume to another node.  Every call asks the dispatcher anew which node *)
(* has the volume and then works on that node.  A write over SFTP is collected *)
(* in memory, chunk by chunk, and written as a whole when the file is closed.  *)
(* The SFTP library serves the write packets of a session on several           *)
(* goroutines (Pipelined).                                                     *)
EXTENDS Naturals, FiniteSets

CONSTANTS
  Users,          \* callers of the file API
  Sessions,       \* SFTP connections, all from one address
  Nodes, Paths,
  Chunks,         \* packets of an upload, 1 .. n
  Overlap,        \* file calls and a migration may run at the same time
  Pipelined,      \* a session's write packets are served side by side
  MaxFailures,    \* failed logins before an address is refused (5 in the code)
  MaxOps, MaxMigrations

VARIABLES
  home,      \* the node of the gameserver's row
  vol,       \* node -> its copy of the volume: path -> file
  want,      \* path -> what the calls have made of it, one after another
  op,        \* actor -> its file call
  sess,      \* session -> "none", "checked" (the limiter let it in), "open"
  buf,       \* session -> the file it writes
  attempts,  \* failed logins the limiter remembers
  mig,       \* the migration: where it is and where it goes
  ops, migrations

vars == <<home, vol, want, op, sess, buf, attempts, mig, ops, migrations>>

Actors == Users \cup Sessions

(* A file holds the chunks a write has put there; sent are the ones the writer *)
(* was told are written: the answer to the close of an SFTP file is that word, *)
(* a packet's own answer only says that it is in the buffer.                   *)
NoFile    == [data |-> {}, sent |-> {}]
Whole     == [data |-> Chunks, sent |-> Chunks]
EmptyDir  == [p \in Paths |-> NoFile]
NoOp      == [kind |-> "none", path |-> "", to |-> "", file |-> NoFile, at |-> "", pc |-> "idle"]
NoBuf     == [path |-> "", data |-> {}, sent |-> {}, held |-> [c \in Chunks |-> {}], busy |-> {}]

Init ==
  /\ home = CHOOSE n \in Nodes: TRUE
  /\ vol = [n \in Nodes |-> EmptyDir]
  /\ want = EmptyDir
  /\ op = [a \in Actors |-> NoOp]
  /\ sess = [s \in Sessions |-> "none"]
  /\ buf = [s \in Sessions |-> NoBuf]
  /\ attempts = 0
  /\ mig = [pc |-> "idle", to |-> home]
  /\ ops = 0 /\ migrations = 0

---------------------------------------------------------------------------
(* SFTP logins. *)

(* The limit is forgotten. *)
CheckLetsIn(s) ==
  /\ sess[s] = "none"
  /\ sess' = [sess EXCEPT ![s] = "checked"]
  /\ UNCHANGED <<home, vol, want, op, buf, attempts, mig, ops, migrations>>

(* authRateLimiter.check, before the password is looked at. *)
Check(s) ==
  /\ sess[s] = "none" /\ attempts < MaxFailures
  /\ sess' = [sess EXCEPT ![s] = "checked"]
  /\ UNCHANGED <<home, vol, want, op, buf, attempts, mig, ops, migrations>>

(* ValidateLogin against the row, here or through the controller. *)
LoginSucceeds(s) ==
  /\ sess[s] = "checked"
  /\ sess' = [sess EXCEPT ![s] = "open"] /\ attempts' = 0
  /\ UNCHANGED <<home, vol, want, op, buf, mig, ops, migrations>>

LoginFails(s) ==
  /\ sess[s] = "checked"
  /\ sess' = [sess EXCEPT ![s] = "none"] /\ attempts' = attempts + 1
  /\ UNCHANGED <<home, vol, want, op, buf, mig, ops, migrations>>

(* The window has passed since the last failure: check, recordFailure and      *)
(* cleanup forget the record.                                                  *)
WindowElapses ==
  /\ attempts > 0 /\ attempts' = 0
  /\ UNCHANGED <<home, vol, want, op, sess, buf, mig, ops, migrations>>

---------------------------------------------------------------------------
(* File calls. *)

MayBegin(a) == op[a].pc = "idle" /\ ops < MaxOps /\ (Overlap \/ mig.pc = "idle")

(* WorkerFor: the node the row names now. *)
WorkerFor(a) == home

Resolve(a, kind, p, q, file) ==
  /\ MayBegin(a)
  /\ op' = [op EXCEPT ![a] = [kind |-> kind, path |-> p, to |-> q, file |-> file, at |-> WorkerFor(a), pc |-> "resolved"]]
  /\ ops' = ops + 1

(* file.Service and FileHandlers: write, delete, rename.  Uploads write as the *)
(* stream comes in, and stay as they are when it breaks off.                   *)
Request(u) ==
  /\ \E p \in Paths, q \in Paths:
       \/ p = q /\ Resolve(u, "write", p, q, Whole)
       \/ p = q /\ \E d \in SUBSET Chunks: Resolve(u, "upload", p, q, [data |-> d, sent |-> d])
       \/ p = q /\ Resolve(u, "delete", p, q, NoFile)
       \/ p # q /\ Resolve(u, "rename", p, q, NoFile)
  /\ UNCHANGED <<home, vol, want, sess, buf, attempts, mig, migrations>>

(* handler.Filecmd: Remove and Rename. *)
Filecmd(s) ==
  /\ sess[s] = "open"
  /\ \E p \in Paths, q \in Paths:
       \/ p = q /\ Resolve(s, "delete", p, q, NoFile)
       \/ p # q /\ Resolve(s, "rename", p, q, NoFile)
  /\ UNCHANGED <<home, vol, want, sess, buf, attempts, mig, migrations>>

(* What a call makes of a directory: os.Rename replaces its target and fails   *)
(* without a source, RemoveAll does not mind a missing file.                   *)
Effect(o, dir) ==
  CASE o.kind = "rename" /\ dir[o.path] = NoFile -> dir
    [] o.kind = "rename" -> [dir EXCEPT ![o.to] = dir[o.path], ![o.path] = NoFile]
    [] o.kind = "none" -> dir
    [] OTHER -> [dir EXCEPT ![o.path] = o.file]

(* What a call that returns an error has done: nothing (no worker, a path that *)
(* does not resolve), all of it (the answer was lost), or, for a write, which  *)
(* truncates the file first, a part; an upload's buffer is gone.               *)
Failed(o) ==
  {[o EXCEPT !.kind = "none"]} \cup
  IF o.kind \in {"write", "upload"}
  THEN {[o EXCEPT !.file = [data |-> d, sent |-> d]]: d \in SUBSET o.file.data}
  ELSE {o}

(* The worker executes the call; WriteFileDirect makes missing directories.    *)
Execute(a) ==
  /\ op[a].pc = "resolved"
  /\ \E done \in {op[a]} \cup Failed(op[a]):
       /\ vol' = [vol EXCEPT ![op[a].at] = Effect(done, @)]
       /\ want' = Effect(done, want)
  /\ op' = [op EXCEPT ![a] = NoOp]
  /\ UNCHANGED <<home, sess, buf, attempts, mig, ops, migrations>>

---------------------------------------------------------------------------
(* Uploads over SFTP. *)

Filewrite(s, p) ==
  /\ sess[s] = "open" /\ buf[s].path = ""
  /\ buf' = [buf EXCEPT ![s].path = p]
  /\ UNCHANGED <<home, vol, want, op, sess, attempts, mig, ops, migrations>>

Packet(s, c) == buf[s].path # "" /\ c \notin buf[s].sent /\ c \notin buf[s].busy

(* WriteAt: make a buffer that is long enough, copy the old one into it, put   *)
(* it in its place and copy the packet.  It takes no lock.                     *)
WriteAtBegins(s, c) ==
  /\ Packet(s, c) /\ (Pipelined \/ buf[s].busy = {})
  /\ buf' = [buf EXCEPT ![s].busy = @ \cup {c}, ![s].held[c] = buf[s].data]
  /\ UNCHANGED <<home, vol, want, op, sess, attempts, mig, ops, migrations>>

(* The new buffer starts out empty. *)
WriteAtForgets(s, c) ==
  /\ c \in buf[s].busy
  /\ buf' = [buf EXCEPT ![s].busy = @ \ {c}, ![s].data = {c}, ![s].sent = @ \cup {c}, ![s].held[c] = {}]
  /\ UNCHANGED <<home, vol, want, op, sess, attempts, mig, ops, migrations>>

WriteAtEnds(s, c) ==
  /\ c \in buf[s].busy
  /\ buf' = [buf EXCEPT ![s].busy = @ \ {c}, ![s].data = buf[s].held[c] \cup {c},
                        ![s].sent = @ \cup {c}, ![s].held[c] = {}]
  /\ UNCHANGED <<home, vol, want, op, sess, attempts, mig, ops, migrations>>

(* Close: the file is written to the volume.  The library closes the open      *)
(* files of a connection that drops, with whatever they have.                  *)
CloseFile(s) ==
  /\ buf[s].path # "" /\ buf[s].busy = {}
  /\ Resolve(s, "write", buf[s].path, buf[s].path, [data |-> buf[s].data, sent |-> buf[s].sent])
  /\ buf' = [buf EXCEPT ![s] = NoBuf]
  /\ UNCHANGED <<home, vol, want, sess, attempts, mig, migrations>>

Disconnect(s) ==
  /\ sess[s] = "open" /\ buf[s].path = "" /\ op[s].pc = "idle"
  /\ sess' = [sess EXCEPT ![s] = "none"]
  /\ UNCHANGED <<home, vol, want, op, buf, attempts, mig, ops, migrations>>

---------------------------------------------------------------------------
(* Migrate, as far as files go: the volume is read as one tar, restored on the *)
(* target over whatever is there, the row is changed, the source removed.      *)
MigrateBegins(n) ==
  /\ mig.pc = "idle" /\ n # home /\ migrations < MaxMigrations
  /\ Overlap \/ \A a \in Actors: op[a].pc = "idle"
  /\ mig' = [pc |-> "copy", to |-> n] /\ migrations' = migrations + 1
  /\ UNCHANGED <<home, vol, want, op, sess, buf, attempts, ops>>

(* The target is not cleared first. *)
MigrateMerges ==
  /\ mig.pc = "copy"
  /\ vol' = [vol EXCEPT ![mig.to] = [p \in Paths |-> IF vol[home][p] # NoFile THEN vol[home][p] ELSE @[p]]]
  /\ mig' = [mig EXCEPT !.pc = "persist"]
  /\ UNCHANGED <<home, want, op, sess, buf, attempts, ops, migrations>>

MigrateCopies ==
  /\ mig.pc = "copy"
  /\ vol' = [vol EXCEPT ![mig.to] = vol[home]]
  /\ mig' = [mig EXCEPT !.pc = "persist"]
  /\ UNCHANGED <<home, want, op, sess, buf, attempts, ops, migrations>>

(* A failure before the row is written leaves what it copied on the target. *)
MigrateFails ==
  /\ mig.pc \in {"copy", "persist"}
  /\ mig' = [mig EXCEPT !.pc = "idle"]
  /\ UNCHANGED <<home, vol, want, op, sess, buf, attempts, ops, migrations>>

MigratePersists ==
  /\ mig.pc = "persist"
  /\ home' = mig.to /\ mig' = [pc |-> "remove", to |-> home]
  /\ UNCHANGED <<vol, want, op, sess, buf, attempts, ops, migrations>>

(* RemoveVolume on the source; a failure is logged and the copy stays. *)
MigrateRemoves ==
  /\ mig.pc = "remove"
  /\ \E gone \in BOOLEAN: vol' = IF gone THEN [vol EXCEPT ![mig.to] = EmptyDir] ELSE vol
  /\ mig' = [mig EXCEPT !.pc = "idle"]
  /\ UNCHANGED <<home, want, op, sess, buf, attempts, ops, migrations>>

---------------------------------------------------------------------------
Next ==
  \/ \E s \in Sessions: Check(s) \/ LoginSucceeds(s) \/ LoginFails(s) \/ Filecmd(s) \/ CloseFile(s) \/ Disconnect(s)
  \/ WindowElapses
  \/ \E u \in Users: Request(u)
  \/ \E a \in Actors: Execute(a)
  \/ \E s \in Sessions, p \in Paths: Filewrite(s, p)
  \/ \E s \in Sessions, c \in Chunks: WriteAtBegins(s, c) \/ WriteAtEnds(s, c)
  \/ \E n \in Nodes: MigrateBegins(n)
  \/ MigrateCopies \/ MigrateFails \/ MigratePersists \/ MigrateRemoves

Spec == Init /\ [][Next]_vars

---------------------------------------------------------------------------
Files == [data : SUBSET Chunks, sent : SUBSET Chunks]

(* The last conjunct: connections that were let in together may all fail, so   *)
(* the limiter's count may pass its limit by their number less one.            *)
TypeOK ==
  /\ home \in Nodes /\ mig.to \in Nodes /\ mig.pc \in {"idle", "copy", "persist", "remove"}
  /\ vol \in [Nodes -> [Paths -> Files]] /\ want \in [Paths -> Files]
  /\ \A a \in Actors: op[a].pc \in {"idle", "resolved"}
  /\ sess \in [Sessions -> {"none", "checked", "open"}]
  /\ attempts \in 0 .. MaxFailures + Cardinality(Sessions) - 1

(* Users see one file system, wherever the volume is: outside a migration the  *)
(* node the row names holds exactly what the calls have written, renamed and   *)
(* deleted, the failed ones as far as they came, also for sessions that were   *)
(* opened before the gameserver moved and after migrations that failed         *)
(* half-way.                                                                   *)
FilesFollow == mig.pc \in {"idle", "remove"} => vol[home] = want

(* "SFTP access for bulk transfers": of a file that was written over SFTP and  *)
(* closed without an error no packet that was acknowledged is missing.  (The   *)
(* packets of a file whose close fails are gone, and the client is told.)      *)
NoPacketLost == \A p \in Paths: want[p].sent \subseteq want[p].data
=============================================================================
