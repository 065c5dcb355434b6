---------------------------- MODULE LogSessions ----------------------------
(***************************************************************************)
(* The console logs kept on a gameserver's volume: console.log and         *)
(* console.log.0 to console.log.3.  The install phase of a start rotates   *)
(* them, one rename at a time (rotateConsoleLogs), and stores the          *)
(* installer's output as console.log; the start script of every game       *)
(* writes its output to a new console.log (tee); ListLogSessions and       *)
(* ReadHistoricalLogs of controller/gameserver/console.go read them.       *)
(* A log is the number of the phase that wrote it; 0 is no file.           *)
(***************************************************************************)
EXTENDS Integers, FiniteSets

CONSTANTS
    MaxPhases,  \* bound: logs written
    MaxFaults   \* bound: renames that fail with the file in place

VARIABLES
    disk,   \* 0 is console.log, i + 1 is console.log.i: what each holds
    phase,  \* phases so far
    rot,    \* the rename that is next: index of its source, or -1
    list,   \* the sessions last listed: index -> log, as the client saw them
    read,   \* the answer of the last read: <<index, log>>
    before, \* the logs when the last rotation began, while none of its renames failed
    fault

vars == <<disk, phase, rot, list, read, before, fault>>

Slots == 0..4
None == -1

Init ==
    /\ disk = [i \in Slots |-> 0] /\ phase = 0 /\ rot = None
    /\ list = <<>> /\ read = <<None, 0>>
    /\ before = disk /\ fault = 0

(* The install phase begins: .2 moves to .3 first. *)
RotateConsoleLogs ==
    /\ rot = None /\ phase < MaxPhases
    /\ rot' = 3 /\ before' = disk
    /\ UNCHANGED <<disk, phase, list, read, fault>>

(* Mutant of RenamePath: the renames in the other order. *)
RenamePathUp ==
    /\ rot \in 0..3
    /\ disk' = LET i == 3 - rot IN [disk EXCEPT ![i + 1] = IF disk[i] = 0 THEN @ ELSE disk[i], ![i] = 0]
    /\ rot' = rot - 1
    /\ UNCHANGED <<phase, list, read, before, fault>>

(* A rename replaces its target; of a file that is not there it fails, and  *)
(* nobody looks.                                                            *)
RenamePath ==
    /\ rot \in 0..3
    /\ disk' = [disk EXCEPT ![rot + 1] = IF disk[rot] = 0 THEN @ ELSE disk[rot], ![rot] = 0]
    /\ rot' = rot - 1
    /\ UNCHANGED <<phase, list, read, before, fault>>

RenameFails ==
    /\ rot \in 0..3 /\ fault < MaxFaults
    /\ fault' = fault + 1 /\ rot' = rot - 1
    /\ before' = [i \in Slots |-> 0]
    /\ UNCHANGED <<disk, phase, list, read>>

(* The installer's output, or the output of a started server, is the new    *)
(* console.log; what was there is gone.                                     *)
NewConsoleLog ==
    /\ rot = None /\ phase < MaxPhases
    /\ phase' = phase + 1
    /\ disk' = [disk EXCEPT ![0] = phase']
    /\ before' = [i \in Slots |-> 0]
    /\ UNCHANGED <<rot, list, read, fault>>

(* ListLogSessions: index 0 is console.log, i + 1 is console.log.i.  The    *)
(* listing reads one directory.                                             *)
ListLogSessions ==
    /\ list' = [i \in {j \in Slots : disk[j] /= 0} |-> disk[i]]
    /\ read' = <<None, 0>>
    /\ UNCHANGED <<disk, phase, rot, before, fault>>

(* ReadHistoricalLogs of a listed session, later. *)
ReadHistoricalLogs ==
    /\ \E i \in DOMAIN list : read' = <<i, disk[i]>>
    /\ UNCHANGED <<disk, phase, rot, list, before, fault>>

Next ==
    \/ RotateConsoleLogs \/ RenamePath \/ RenameFails \/ NewConsoleLog
    \/ ListLogSessions \/ ReadHistoricalLogs

Spec == Init /\ [][Next]_vars

-----------------------------------------------------------------------------
NewestFirst == \A i, j \in DOMAIN list : i < j => list[i] > list[j]
ReadIsNotOlder == read[1] \in DOMAIN list => read[2] = 0 \/ read[2] >= list[read[1]]
RotationKeeps == rot = None => \A i \in 0..3 : before[i] /= 0 => disk[i + 1] = before[i]

(* Sessions are listed newest first, also half way through a rotation and   *)
(* after one of its renames failed; a listed session is later read as the   *)
(* log that was listed or a newer one, never as an older one; and a         *)
(* rotation loses no log but the oldest (rotateConsoleLogs,                 *)
(* ListLogSessions, ReadHistoricalLogs).                                    *)
SessionsInOrder == NewestFirst /\ ReadIsNotOlder /\ RotationKeeps
=============================================================================
