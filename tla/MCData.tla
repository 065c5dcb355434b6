------------------------------- MODULE MCData -------------------------------
(* The components that keep data on the controller and the workers, each on  *)
(* its small instance.  A behaviour is one of ONE component: part says of     *)
(* which, and the slots hold that component's variables in the order its      *)
(* module declares them.  The components do not interact here, so the run is  *)
(* the sum of a run per component.                                            *)
EXTENDS Naturals, Sequences, FiniteSets

CONSTANTS null

VARIABLES part,  \* the component this behaviour is of
          s1, s2, s3, s4, s5, s6, s7, s8, s9, s10, s11, s12, s13, s14

slots == <<s1, s2, s3, s4, s5, s6, s7, s8, s9, s10, s11, s12, s13, s14>>
vars  == <<part, slots>>

\* Two images that share their base layer, of which one deletes a file.
Layers     == [a |-> <<"base", "game">>, b |-> <<"base", "tool">>]
LayerFiles == [base |-> {"lib", "etc"}, game |-> {"bin", "etc"}, tool |-> {"bin"}]
Deleted    == [base |-> {}, game |-> {}, tool |-> {"lib"}]

\* Backups on local disk: two requests, one slot, retention at its limit.
Bk == INSTANCE Backup WITH
  Users <- {"u1", "u2"}, Restores <- {}, Ids <- 1..3, Limit <- 1, Slots <- 1,
  S3 <- FALSE, MaxFaults <- 1, MaxCrashes <- 0,
  rows <- s1, file <- s2, job <- s3, restore <- s4, req <- s5, game <- s6,
  gone <- s7, next <- s8, faults <- s9, crashes <- s10

\* The same in S3, where a failed save leaves no object, with two slots.
Bs == INSTANCE Backup WITH
  Users <- {"u1", "u2"}, Restores <- {}, Ids <- 1..2, Limit <- 1, Slots <- 2,
  S3 <- TRUE, MaxFaults <- 1, MaxCrashes <- 0,
  rows <- s1, file <- s2, job <- s3, restore <- s4, req <- s5, game <- s6,
  gone <- s7, next <- s8, faults <- s9, crashes <- s10

\* Requests that come one at a time, and the limit.
Br == INSTANCE Backup WITH
  Users <- {"u"}, Restores <- {}, Ids <- 1..4, Limit <- 2, Slots <- 1,
  S3 <- FALSE, MaxFaults <- 1, MaxCrashes <- 0,
  rows <- s1, file <- s2, job <- s3, restore <- s4, req <- s5, game <- s6,
  gone <- s7, next <- s8, faults <- s9, crashes <- s10

\* Backups and restores that share the slot.
Bq == INSTANCE Backup WITH
  Users <- {"u"}, Restores <- {"r"}, Ids <- 1..2, Limit <- 1, Slots <- 1,
  S3 <- FALSE, MaxFaults <- 1, MaxCrashes <- 0,
  rows <- s1, file <- s2, job <- s3, restore <- s4, req <- s5, game <- s6,
  gone <- s7, next <- s8, faults <- s9, crashes <- s10

\* The same when the controller dies anywhere.
Bc == INSTANCE Backup WITH
  Users <- {"u"}, Restores <- {"r"}, Ids <- 1..2, Limit <- 1, Slots <- 1,
  S3 <- FALSE, MaxFaults <- 0, MaxCrashes <- 1,
  rows <- s1, file <- s2, job <- s3, restore <- s4, req <- s5, game <- s6,
  gone <- s7, next <- s8, faults <- s9, crashes <- s10

\* Backups of the database, and crashes of the controller.
Db == INSTANCE DBBackup WITH
  Retain <- 1, S3 <- FALSE, MaxTime <- 6, MaxCrashes <- 3,
  now <- s1, pc <- s2, id <- s3, stored <- s4, doomed <- s5, crashes <- s6,
  made <- s7

\* What may fail when mods are installed and removed.
Calls == {"download", "delete", "lookup", "write"}

\* Mods: two callers, every dependency graph over three projects.
Md == INSTANCE Mods WITH
  Callers <- {1, 2}, Projects <- {11, 12, 13}, None <- null,
  Ops <- {"install", "uninstall"}, MayFail <- Calls, MaxDepth <- 10, MaxVersion <- 1,
  MaxIds <- 6, MaxOps <- 3, MaxFaults <- 1, MaxMishaps <- 0,
  requires <- s1, latest <- s2, row <- s3, disk <- s4, op <- s5, lock <- s6,
  restored <- s7, logged <- s8, ids <- s9, begun <- s10, faults <- s11,
  mishaps <- s12

\* Mods: graphs deeper than an install follows.
Dp == INSTANCE Mods WITH
  Callers <- {1}, Projects <- {11, 12, 13, 14}, None <- null, Ops <- {"install"},
  MayFail <- {"download"}, MaxDepth <- 2, MaxVersion <- 1, MaxIds <- 6, MaxOps <- 1, MaxFaults <- 1,
  MaxMishaps <- 0,
  requires <- s1, latest <- s2, row <- s3, disk <- s4, op <- s5, lock <- s6,
  restored <- s7, logged <- s8, ids <- s9, begun <- s10, faults <- s11,
  mishaps <- s12

\* Mods: every graph over three projects, followed to its end.
Gr == INSTANCE Mods WITH
  Callers <- {1}, Projects <- {11, 12, 13}, None <- null, Ops <- {"install"},
  MayFail <- Calls, MaxDepth <- 10, MaxVersion <- 1, MaxIds <- 6, MaxOps <- 3, MaxFaults <- 1,
  MaxMishaps <- 0,
  requires <- s1, latest <- s2, row <- s3, disk <- s4, op <- s5, lock <- s6,
  restored <- s7, logged <- s8, ids <- s9, begun <- s10, faults <- s11,
  mishaps <- s12

\* Mods: files that go missing, updates and Reconcile.
Rc == INSTANCE Mods WITH
  Callers <- {1}, Projects <- {11, 12}, None <- null,
  Ops <- {"install", "uninstall", "update", "updateAll", "reconcile"},
  MayFail <- Calls, MaxDepth <- 10, MaxVersion <- 2, MaxIds <- 3, MaxOps <- 4, MaxFaults <- 1,
  MaxMishaps <- 1,
  requires <- s1, latest <- s2, row <- s3, disk <- s4, op <- s5, lock <- s6,
  restored <- s7, logged <- s8, ids <- s9, begun <- s10, faults <- s11,
  mishaps <- s12

\* Modpacks: two mods and a file, which go missing.
Pk == INSTANCE ModPacks WITH
  Mods <- {11, 12}, Jars <- {21}, Versions <- {1}, None <- null,
  Ops <- {"installMod", "install", "uninstallMod", "uninstall", "reconcile"},
  MaxOps <- 3, MaxFaults <- 1, MaxMishaps <- 1,
  contents <- s1, row <- s2, jarRow <- s3, pack <- s4, excluded <- s5,
  disk <- s6, op <- s7, logged <- s8, intact <- s9, begun <- s10, faults <- s11,
  mishaps <- s12

\* Modpacks that are updated.
Pu == INSTANCE ModPacks WITH
  Mods <- {11}, Jars <- {21}, Versions <- {1, 2}, None <- null,
  Ops <- {"installMod", "install", "update", "uninstallMod", "uninstall", "reconcile"},
  MaxOps <- 3, MaxFaults <- 1, MaxMishaps <- 1,
  contents <- s1, row <- s2, jarRow <- s3, pack <- s4, excluded <- s5,
  disk <- s6, op <- s7, logged <- s8, intact <- s9, begun <- s10, faults <- s11,
  mishaps <- s12

\* A gameserver's record and the instance it describes.
Rw == INSTANCE GameserverRow WITH
  Callers <- {1}, Nodes <- {"n1", "n2"}, None <- null,
  Requests <- {"config", "password"}, Overlap <- {}, MaxReqs <- 3, MaxOps <- 5,
  row <- s1, spec <- s2, req <- s3, op <- s4, running <- s5, exited <- s6,
  lost <- s7, clear <- s8, home <- s9, asked <- s10, given <- s11,
  launch <- s12, reqs <- s13, ops <- s14

\* The same with modpacks, whose settings go into the row only.
Rk == INSTANCE GameserverRow WITH
  Callers <- {1}, Nodes <- {"n1", "n2"}, None <- null,
  Requests <- {"config", "password", "pack"}, Overlap <- {}, MaxReqs <- 3,
  MaxOps <- 4,
  row <- s1, spec <- s2, req <- s3, op <- s4, running <- s5, exited <- s6,
  lost <- s7, clear <- s8, home <- s9, asked <- s10, given <- s11,
  launch <- s12, reqs <- s13, ops <- s14

\* Requests that overlap each other.
Rr == INSTANCE GameserverRow WITH
  Callers <- {1, 2}, Nodes <- {"n1", "n2"}, None <- null,
  Requests <- {"config", "password"}, Overlap <- {"requests"}, MaxReqs <- 3,
  MaxOps <- 2,
  row <- s1, spec <- s2, req <- s3, op <- s4, running <- s5, exited <- s6,
  lost <- s7, clear <- s8, home <- s9, asked <- s10, given <- s11,
  launch <- s12, reqs <- s13, ops <- s14

\* Requests during which the game exits.
Rx == INSTANCE GameserverRow WITH
  Callers <- {1}, Nodes <- {"n1", "n2"}, None <- null,
  Requests <- {"config", "password"}, Overlap <- {"exits"}, MaxReqs <- 3,
  MaxOps <- 4,
  row <- s1, spec <- s2, req <- s3, op <- s4, running <- s5, exited <- s6,
  lost <- s7, clear <- s8, home <- s9, asked <- s10, given <- s11,
  launch <- s12, reqs <- s13, ops <- s14

\* Files over the API and SFTP, and migrations of the volume.
Vf == INSTANCE VolumeFiles WITH
  Users <- {"u"}, Sessions <- {"s"}, Nodes <- {"n1", "n2"},
  Paths <- {"a", "b"}, Chunks <- {1, 2}, Overlap <- FALSE, Pipelined <- FALSE,
  MaxFailures <- 1, MaxOps <- 2, MaxMigrations <- 2,
  home <- s1, vol <- s2, want <- s3, op <- s4, sess <- s5, buf <- s6,
  attempts <- s7, mig <- s8, ops <- s9, migrations <- s10

\* Uploads during a migration.
Vm == INSTANCE VolumeFiles WITH
  Users <- {}, Sessions <- {"s"}, Nodes <- {"n1", "n2"}, Paths <- {"a", "b"},
  Chunks <- {1, 2}, Overlap <- TRUE, Pipelined <- FALSE, MaxFailures <- 1,
  MaxOps <- 2, MaxMigrations <- 1,
  home <- s1, vol <- s2, want <- s3, op <- s4, sess <- s5, buf <- s6,
  attempts <- s7, mig <- s8, ops <- s9, migrations <- s10

\* Uploads whose packets are served side by side.
Vp == INSTANCE VolumeFiles WITH
  Users <- {"u"}, Sessions <- {"s"}, Nodes <- {"n1", "n2"},
  Paths <- {"a", "b"}, Chunks <- {1, 2}, Overlap <- FALSE, Pipelined <- TRUE,
  MaxFailures <- 1, MaxOps <- 2, MaxMigrations <- 1,
  home <- s1, vol <- s2, want <- s3, op <- s4, sess <- s5, buf <- s6,
  attempts <- s7, mig <- s8, ops <- s9, migrations <- s10

\* The depot cache with failures.
Dc == INSTANCE DepotCache WITH
  Calls <- {"c1", "c2"}, NDepots <- 1, Accessible <- {1}, Alone <- TRUE,
  MaxEnsures <- 4, MaxUpdates <- 2, MaxFaults <- 2, MaxCrashes <- 0,
  steam <- s1, meta <- s2, merged <- s3, staging <- s4, call <- s5,
  client <- s6, copied <- s7, swept <- s8, spoiled <- s9, ensures <- s10,
  updates <- s11, faults <- s12, crashes <- s13

\* The depot cache with two depots.
Dd == INSTANCE DepotCache WITH
  Calls <- {"c1", "c2"}, NDepots <- 2, Accessible <- {1, 2}, Alone <- TRUE,
  MaxEnsures <- 3, MaxUpdates <- 2, MaxFaults <- 0, MaxCrashes <- 0,
  steam <- s1, meta <- s2, merged <- s3, staging <- s4, call <- s5,
  client <- s6, copied <- s7, swept <- s8, spoiled <- s9, ensures <- s10,
  updates <- s11, faults <- s12, crashes <- s13

\* The depot cache with two callers at once, and a crash.
Dr == INSTANCE DepotCache WITH
  Calls <- {"c1", "c2"}, NDepots <- 2, Accessible <- {1}, Alone <- FALSE,
  MaxEnsures <- 2, MaxUpdates <- 1, MaxFaults <- 1, MaxCrashes <- 1,
  steam <- s1, meta <- s2, merged <- s3, staging <- s4, call <- s5,
  client <- s6, copied <- s7, swept <- s8, spoiled <- s9, ensures <- s10,
  updates <- s11, faults <- s12, crashes <- s13

\* A download: a chunk two files share, two servers that fail.
Dl == INSTANCE DepotDownload WITH
  Workers <- {"w1", "w2"}, Chunks <- <<1, 2, 3>>,
  TargetsOf <- [c \in 1..3 |-> IF c = 2 THEN {"a", "b"} ELSE {"a"}],
  Hosts <- <<"h1", "h2">>, Retries <- 3, MayCancel <- FALSE, MaxFaults <- 3,
  queue <- s1, worker <- s2, hostIdx <- s3, blacklist <- s4, ctx <- s5,
  errCh <- s6, written <- s7, result <- s8, faults <- s9

\* A download whose caller gives up.
Dx == INSTANCE DepotDownload WITH
  Workers <- {"w1", "w2"}, Chunks <- <<1, 2>>,
  TargetsOf <- [c \in 1..2 |-> {"a"}], Hosts <- <<"h1", "h2">>, Retries <- 3,
  MayCancel <- TRUE, MaxFaults <- 1,
  queue <- s1, worker <- s2, hostIdx <- s3, blacklist <- s4, ctx <- s5,
  errCh <- s6, written <- s7, result <- s8, faults <- s9

\* Images whose layers are unpacked over each other.
Im == INSTANCE ImageStore WITH
  Images <- {"a", "b"}, LayersOf <- Layers, Files <- LayerFiles,
  Whiteouts <- Deleted, Overlay <- FALSE,
  MaxPulls <- 3, MaxFaults <- 2, MaxCrashes <- 1,
  disk <- s1, marked <- s2, root <- s3, mounted <- s4, marker <- s5,
  config <- s6, upper <- s7, index <- s8, pull <- s9, jobs <- s10,
  raced <- s11, pulls <- s12, faults <- s13, crashes <- s14

\* An image whose layers are mounted as an overlay.
Ov == INSTANCE ImageStore WITH
  Images <- {"a"}, LayersOf <- Layers, Files <- LayerFiles,
  Whiteouts <- Deleted, Overlay <- TRUE,
  MaxPulls <- 3, MaxFaults <- 2, MaxCrashes <- 1,
  disk <- s1, marked <- s2, root <- s3, mounted <- s4, marker <- s5,
  config <- s6, upper <- s7, index <- s8, pull <- s9, jobs <- s10,
  raced <- s11, pulls <- s12, faults <- s13, crashes <- s14

\* The games catalogue, edited between boots.
Ct == INSTANCE Catalogue WITH
  Games <- {"a", "b", "c"}, Aliases <- {"x"},
  Embedded <- [g \in {"a", "b"} |-> {"x"}],
  Files <- [embedded |-> {"start", "save"}, local |-> {"start"}],
  MaxEdits <- 2, MaxBoots <- 2, MaxFaults <- 1,
  local <- s1, games <- s2, aliases <- s3, row <- s4, made <- s5,
  scripts <- s6, ran <- s7, edits <- s8, boots <- s9, faults <- s10

\* The text VDF parser: written trees and every short text.
Vd == INSTANCE Vdf WITH
  Chars <- {"quote", "open", "close", "space", "slash", "a"}, MaxText <- 5,
  Strings <- {<<>>, <<"a">>, <<"slash">>, <<"quote", "space">>, <<"close">>},
  tree <- s1, input <- s2, pos <- s3, stack <- s4, pc <- s5

-----------------------------------------------------------------------------
Init ==
  \/ part = "backup" /\ Bk!Init /\ s11 = 0 /\ s12 = 0 /\ s13 = 0 /\ s14 = 0
  \/ part = "s3backup" /\ Bs!Init /\ s11 = 0 /\ s12 = 0 /\ s13 = 0 /\ s14 = 0
  \/ part = "retention" /\ Br!Init /\ s11 = 0 /\ s12 = 0 /\ s13 = 0 /\ s14 = 0
  \/ part = "restores" /\ Bq!Init /\ s11 = 0 /\ s12 = 0 /\ s13 = 0 /\ s14 = 0
  \/ part = "backupcrash" /\ Bc!Init /\ s11 = 0 /\ s12 = 0 /\ s13 = 0 /\ s14 = 0
  \/ part = "dbbackup" /\ Db!Init /\ s8 = 0 /\ s9 = 0 /\ s10 = 0 /\ s11 = 0 /\ s12 = 0
     /\ s13 = 0 /\ s14 = 0
  \/ part = "mods" /\ Md!Init /\ s13 = 0 /\ s14 = 0
  \/ part = "depth" /\ Dp!Init /\ s13 = 0 /\ s14 = 0
  \/ part = "graphs" /\ Gr!Init /\ s13 = 0 /\ s14 = 0
  \/ part = "reconcile" /\ Rc!Init /\ s13 = 0 /\ s14 = 0
  \/ part = "packs" /\ Pk!Init /\ s13 = 0 /\ s14 = 0
  \/ part = "packupdates" /\ Pu!Init /\ s13 = 0 /\ s14 = 0
  \/ part = "row" /\ Rw!Init
  \/ part = "rowpack" /\ Rk!Init
  \/ part = "rowrace" /\ Rr!Init
  \/ part = "rowexits" /\ Rx!Init
  \/ part = "files" /\ Vf!Init /\ s11 = 0 /\ s12 = 0 /\ s13 = 0 /\ s14 = 0
  \/ part = "moving" /\ Vm!Init /\ s11 = 0 /\ s12 = 0 /\ s13 = 0 /\ s14 = 0
  \/ part = "pipelined" /\ Vp!Init /\ s11 = 0 /\ s12 = 0 /\ s13 = 0 /\ s14 = 0
  \/ part = "depot" /\ Dc!Init /\ s14 = 0
  \/ part = "depots" /\ Dd!Init /\ s14 = 0
  \/ part = "depotrace" /\ Dr!Init /\ s14 = 0
  \/ part = "download" /\ Dl!Init /\ s10 = 0 /\ s11 = 0 /\ s12 = 0 /\ s13 = 0 /\ s14 = 0
  \/ part = "cancelled" /\ Dx!Init /\ s10 = 0 /\ s11 = 0 /\ s12 = 0 /\ s13 = 0
     /\ s14 = 0
  \/ part = "images" /\ Im!Init
  \/ part = "overlay" /\ Ov!Init
  \/ part = "catalogue" /\ Ct!Init /\ s11 = 0 /\ s12 = 0 /\ s13 = 0 /\ s14 = 0
  \/ part = "vdf" /\ Vd!Init /\ s6 = 0 /\ s7 = 0 /\ s8 = 0 /\ s9 = 0 /\ s10 = 0
     /\ s11 = 0 /\ s12 = 0 /\ s13 = 0 /\ s14 = 0

Next ==
  \/ part = "backup" /\ Bk!Next /\ UNCHANGED <<part, s11, s12, s13, s14>>
  \/ part = "s3backup" /\ Bs!Next /\ UNCHANGED <<part, s11, s12, s13, s14>>
  \/ part = "retention" /\ Br!Next /\ UNCHANGED <<part, s11, s12, s13, s14>>
  \/ part = "restores" /\ Bq!Next /\ UNCHANGED <<part, s11, s12, s13, s14>>
  \/ part = "backupcrash" /\ Bc!Next /\ UNCHANGED <<part, s11, s12, s13, s14>>
  \/ part = "dbbackup" /\ Db!Next /\ UNCHANGED <<part, s8, s9, s10, s11, s12, s13, s14>>
  \/ part = "mods" /\ Md!Next /\ UNCHANGED <<part, s13, s14>>
  \/ part = "depth" /\ Dp!Next /\ UNCHANGED <<part, s13, s14>>
  \/ part = "graphs" /\ Gr!Next /\ UNCHANGED <<part, s13, s14>>
  \/ part = "reconcile" /\ Rc!Next /\ UNCHANGED <<part, s13, s14>>
  \/ part = "packs" /\ Pk!Next /\ UNCHANGED <<part, s13, s14>>
  \/ part = "packupdates" /\ Pu!Next /\ UNCHANGED <<part, s13, s14>>
  \/ part = "row" /\ Rw!Next /\ UNCHANGED part
  \/ part = "rowpack" /\ Rk!Next /\ UNCHANGED part
  \/ part = "rowrace" /\ Rr!Next /\ UNCHANGED part
  \/ part = "rowexits" /\ Rx!Next /\ UNCHANGED part
  \/ part = "files" /\ Vf!Next /\ UNCHANGED <<part, s11, s12, s13, s14>>
  \/ part = "moving" /\ Vm!Next /\ UNCHANGED <<part, s11, s12, s13, s14>>
  \/ part = "pipelined" /\ Vp!Next /\ UNCHANGED <<part, s11, s12, s13, s14>>
  \/ part = "depot" /\ Dc!Next /\ UNCHANGED <<part, s14>>
  \/ part = "depots" /\ Dd!Next /\ UNCHANGED <<part, s14>>
  \/ part = "depotrace" /\ Dr!Next /\ UNCHANGED <<part, s14>>
  \/ part = "download" /\ Dl!Next /\ UNCHANGED <<part, s10, s11, s12, s13, s14>>
  \/ part = "cancelled" /\ Dx!Next /\ UNCHANGED <<part, s10, s11, s12, s13, s14>>
  \/ part = "images" /\ Im!Next /\ UNCHANGED part
  \/ part = "overlay" /\ Ov!Next /\ UNCHANGED part
  \/ part = "catalogue" /\ Ct!Next /\ UNCHANGED <<part, s11, s12, s13, s14>>
  \/ part = "vdf" /\ Vd!Next
     /\ UNCHANGED <<part, s6, s7, s8, s9, s10, s11, s12, s13, s14>>

Spec == Init /\ [][Next]_vars

-----------------------------------------------------------------------------
\* Each component's type invariant.
TypeOK ==
  /\ part = "backup" => Bk!TypeOK
  /\ part = "restores" => Bq!TypeOK
  /\ part = "backupcrash" => Bc!TypeOK
  /\ part = "dbbackup" => Db!TypeOK
  /\ part = "mods" => Md!TypeOK
  /\ part = "packs" => Pk!TypeOK
  /\ part = "packupdates" => Pu!TypeOK
  /\ part = "row" => Rw!TypeOK
  /\ part = "rowrace" => Rr!TypeOK
  /\ part = "files" => Vf!TypeOK
  /\ part = "pipelined" => Vp!TypeOK
  /\ part = "depot" => Dc!TypeOK
  /\ part = "depotrace" => Dr!TypeOK
  /\ part = "download" => Dl!TypeOK
  /\ part = "images" => Im!TypeOK
  /\ part = "catalogue" => Ct!TypeOK
  /\ part = "vdf" => Vd!TypeOK

\* A backup that is listed can be restored.  Of a gameserver: one that is
\* completed has its whole object, however retention, deletion and a failing
\* save interleave, and there are never more than the limit (BackupService).
\* Of the database: once one was made there is a whole one, whatever pruning
\* and crashes do (DBBackupScheduler).
BackupsAreKept ==
  /\ part = "backup" => Bk!CompletedHasFile
  /\ part = "s3backup" => Bs!CompletedHasFile
  /\ part = "retention" => Br!RowsBounded
  /\ part = "restores" => Bq!CompletedHasFile /\ Bq!RowsBounded
  /\ part = "backupcrash" => Bc!RowsBounded
  /\ part = "dbbackup" => Db!WholeBackupKept



\* What a user wrote stays: files follow the gameserver to another node, and
\* an SFTP upload that was closed without an error has every packet, whatever
\* worker calls fail (sftp/handler.go, controller/file).
FilesFollow ==
  /\ part = "files" => Vf!FilesFollow /\ Vf!NoPacketLost
  /\ part = "moving" => Vm!NoPacketLost
  /\ part = "pipelined" => Vp!FilesFollow


\* "Downloads go to a temp directory first, then atomically renamed to the
\* final path on success" (steam/service.go): also a download whose caller gave
\* up says success only when every chunk is in its files.
CancelledIsWhole == part = "cancelled" => Dx!OkIsComplete
=============================================================================
