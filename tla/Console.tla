------------------------------- MODULE Console -------------------------------
(***************************************************************************)
(* The log of a running instance and those who follow it: the container    *)
(* writes output.log, a followReader per reader polls it                   *)
(* (worker/local/helpers.go), the tracker's log watcher looks for the      *)
(* ready pattern in it (worker/local/tracker.go), and every console stream *)
(* of the API has a parser goroutine that fills a channel and a handler    *)
(* that empties it into the response (api/handler/gameservers_live.go,     *)
(* worker/logparse, controller/gameserver/console.go).                     *)
(*                                                                         *)
(* A line is its number.  The container writes to the file descriptor      *)
(* itself (StartContainer is given logWriter.f), so the rotation in        *)
(* rotatingWriter.Write never happens and is not modelled.                 *)
(***************************************************************************)
EXTENDS Naturals, Sequences, SequencesExt

CONSTANTS
    Streams,    \* requests for the console stream
    Blank,      \* numbers of lines that are empty
    ReadyLine,  \* number of the line the ready pattern matches
    Cap,        \* capacity of a stream's channel of lines, 64 in the code
    MaxLines    \* bound: lines written

Watcher == "watcher"
Readers == Streams \cup {Watcher}

VARIABLES
    written,  \* lines in output.log
    life,     \* the container "runs", has "ended", its exit is "noticed" or "told" to the tracker
    known,    \* is the instance in the worker's map?
    ready,    \* TrackedInstance.Ready
    reader,   \* per reader: pc of followReader.Read and its caller, offset, line in hand, is the file closed?
    chan,     \* per stream: the channel of lines
    out,      \* per stream: what the client was sent
    handler,  \* per stream: "none", "loop", "returned"
    client    \* per stream: is the client still there?

vars == <<written, life, known, ready, reader, chan, out, handler, client>>

NoReader == [pc |-> "none", off |-> 0, line |-> 0, closed |-> FALSE]
Exited == ~known \/ life \in {"noticed", "told"}

Init ==
    /\ written = 0 /\ life = "runs" /\ known = TRUE /\ ready = FALSE
    /\ reader = [r \in Readers |-> NoReader]
    /\ chan = [s \in Streams |-> <<>>] /\ out = [s \in Streams |-> <<>>]
    /\ handler = [s \in Streams |-> "none"] /\ client = [s \in Streams |-> TRUE]

(* The container: it writes, ends, and the exit watcher of StartInstance    *)
(* notices (exited) and tells the tracker (SetExited cancels the watcher).  *)
Write ==
    /\ life = "runs" /\ written < MaxLines
    /\ written' = written + 1
    /\ UNCHANGED <<life, known, ready, reader, chan, out, handler, client>>

Ends ==
    /\ life = "runs" /\ life' = "ended"
    /\ UNCHANGED <<written, known, ready, reader, chan, out, handler, client>>

Notice ==
    /\ life = "ended" /\ life' = "noticed"
    /\ UNCHANGED <<written, known, ready, reader, chan, out, handler, client>>

SetExited ==
    /\ life = "noticed" /\ life' = "told"
    /\ UNCHANGED <<written, known, ready, reader, chan, out, handler, client>>

(* RemoveInstance takes the instance from the map; the files go once it has *)
(* ended, and those who hold them open still read them.                     *)
RemoveInstance ==
    /\ known /\ known' = FALSE
    /\ UNCHANGED <<written, life, ready, reader, chan, out, handler, client>>

-----------------------------------------------------------------------------
(* InstanceLogs with follow: from the first line, for a ready pattern may   *)
(* be in what was written before.                                           *)
InstanceLogsTail(r) == reader' = [reader EXCEPT ![r] = [@ EXCEPT !.pc = "read", !.off = written]]
InstanceLogs(r) == reader' = [reader EXCEPT ![r] = [@ EXCEPT !.pc = "read", !.off = 0]]

WatchLogs ==
    /\ reader[Watcher].pc = "none" /\ known
    /\ InstanceLogs(Watcher)
    /\ UNCHANGED <<written, life, known, ready, chan, out, handler, client>>

(* The console stream: refused without an instance. *)
StreamLogs(s) ==
    /\ handler[s] = "none" /\ client[s]
    /\ IF known
       THEN InstanceLogs(s) /\ handler' = [handler EXCEPT ![s] = "loop"]
       ELSE handler' = [handler EXCEPT ![s] = "returned"] /\ UNCHANGED reader
    /\ UNCHANGED <<written, life, known, ready, chan, out, client>>

-----------------------------------------------------------------------------
(* followReader.Read. *)
Goto(r, pc) == reader' = [reader EXCEPT ![r].pc = pc]
Unread(r) == reader[r].off < written

ReadLine(r) ==
    /\ reader[r].pc \in {"read", "drain"} /\ ~reader[r].closed /\ Unread(r)
    /\ reader' = [reader EXCEPT ![r] =
                    [@ EXCEPT !.pc = "got", !.off = @ + 1, !.line = reader[r].off + 1]]
    /\ UNCHANGED <<written, life, known, ready, chan, out, handler, client>>

ReadNothing(r) ==
    /\ reader[r].pc = "read" /\ ~reader[r].closed /\ ~Unread(r)
    /\ Goto(r, "check")
    /\ UNCHANGED <<written, life, known, ready, chan, out, handler, client>>

CtxDone(r) == r \in Streams /\ ~client[r]

(* Mutant of CheckExited: the exit is the end, without the last look. *)
CheckExitedOnly(r) ==
    /\ reader[r].pc = "check"
    /\ Goto(r, IF Exited THEN "eof" ELSE IF CtxDone(r) THEN "failed" ELSE "read")
    /\ UNCHANGED <<written, life, known, ready, chan, out, handler, client>>

CheckExited(r) ==
    /\ reader[r].pc = "check"
    /\ Goto(r, IF Exited THEN "drain" ELSE IF CtxDone(r) THEN "failed" ELSE "read")
    /\ UNCHANGED <<written, life, known, ready, chan, out, handler, client>>

(* Twenty looks in a second find nothing: EOF. *)
Drained(r) ==
    /\ reader[r].pc = "drain" /\ ~reader[r].closed /\ ~Unread(r)
    /\ Goto(r, "eof")
    /\ UNCHANGED <<written, life, known, ready, chan, out, handler, client>>

ReadClosed(r) ==
    /\ reader[r].pc \in {"read", "drain"} /\ reader[r].closed
    /\ Goto(r, "failed")
    /\ UNCHANGED <<written, life, known, ready, chan, out, handler, client>>

-----------------------------------------------------------------------------
(* watchLogsLoop: a cancelled watcher looks at no further line. *)
WatchLine ==
    /\ reader[Watcher].pc = "got"
    /\ IF life = "told"
       THEN Goto(Watcher, "failed") /\ UNCHANGED ready
       ELSE IF reader[Watcher].line = ReadyLine
            THEN Goto(Watcher, "matched") /\ ready' = TRUE
            ELSE Goto(Watcher, "read") /\ UNCHANGED ready
    /\ UNCHANGED <<written, life, known, chan, out, handler, client>>

(* Mutant of ParseLine: a full channel drops the line. *)
ParseLineDrops(s) ==
    /\ reader[s].pc = "got"
    /\ chan' = IF reader[s].line \in Blank \/ Len(chan[s]) = Cap THEN chan
               ELSE [chan EXCEPT ![s] = Append(@, reader[s].line)]
    /\ Goto(s, "read")
    /\ UNCHANGED <<written, life, known, ready, out, handler, client>>

(* ParseLogStream: an empty line is skipped, any other waits for room. *)
ParseLine(s) ==
    /\ reader[s].pc = "got"
    /\ IF reader[s].line \in Blank
       THEN UNCHANGED chan
       ELSE Len(chan[s]) < Cap /\ chan' = [chan EXCEPT ![s] = Append(@, reader[s].line)]
    /\ Goto(s, "read")
    /\ UNCHANGED <<written, life, known, ready, out, handler, client>>

(* The handler's select: a line, or the client is gone. *)
Deliver(s) ==
    /\ handler[s] = "loop" /\ chan[s] /= <<>>
    /\ out' = [out EXCEPT ![s] = Append(@, Head(chan[s]))]
    /\ chan' = [chan EXCEPT ![s] = Tail(@)]
    /\ UNCHANGED <<written, life, known, ready, reader, handler, client>>

HandlerReturns(s) ==
    /\ handler[s] = "loop" /\ ~client[s]
    /\ handler' = [handler EXCEPT ![s] = "returned"]
    /\ reader' = [reader EXCEPT ![s].closed = TRUE]
    /\ UNCHANGED <<written, life, known, ready, chan, out, client>>

ClientLeaves(s) ==
    /\ client[s] /\ client' = [client EXCEPT ![s] = FALSE]
    /\ UNCHANGED <<written, life, known, ready, reader, chan, out, handler>>

-----------------------------------------------------------------------------
Follow(r) == ReadLine(r) \/ ReadNothing(r) \/ CheckExited(r) \/ Drained(r) \/ ReadClosed(r)
Work ==
    \/ Notice \/ SetExited \/ WatchLogs \/ WatchLine
    \/ \E r \in Readers : Follow(r)
    \/ \E s \in Streams : ParseLine(s) \/ Deliver(s) \/ HandlerReturns(s)

Next ==
    \/ Write \/ Ends \/ RemoveInstance \/ Work
    \/ \E s \in Streams : StreamLogs(s) \/ ClientLeaves(s)

Spec == Init /\ [][Next]_vars

(* The goroutines run; nothing makes the container write or end, and nobody *)
(* makes a client come or leave.                                            *)
Fairness ==
    /\ WF_vars(Notice) /\ WF_vars(SetExited) /\ WF_vars(WatchLogs) /\ WF_vars(WatchLine)
    /\ \A r \in Readers : WF_vars(Follow(r))
    /\ \A s \in Streams : WF_vars(ParseLine(s)) /\ WF_vars(Deliver(s)) /\ WF_vars(HandlerReturns(s))
FairSpec == Spec /\ Fairness

-----------------------------------------------------------------------------
Pcs == {"none", "read", "check", "drain", "got", "eof", "failed", "matched"}

(* The type of the state; no channel holds more than its capacity. *)
TypeOK ==
    /\ written \in 0..MaxLines /\ life \in {"runs", "ended", "noticed", "told"}
    /\ known \in BOOLEAN /\ ready \in BOOLEAN
    /\ \A r \in Readers : reader[r].pc \in Pcs /\ reader[r].off \in 0..written
    /\ \A s \in Streams : Len(chan[s]) <= Cap

(* A client is sent every line that is not empty once and in order: what it *)
(* got, what waits in the channel and what the parser holds are together    *)
(* the lines the reader has read (parseRawLogStream, StreamLogs).           *)
InHand(s) == IF reader[s].pc = "got" /\ reader[s].line \notin Blank THEN <<reader[s].line>> ELSE <<>>
Read(s) == SelectSeq([i \in 1..reader[s].off |-> i], LAMBDA i : i \notin Blank)
StreamIsLog == \A s \in Streams : out[s] \o chan[s] \o InHand(s) = Read(s)

(* A reader that is told EOF while the instance is known has read           *)
(* everything: what was written between its last empty read and the exit    *)
(* is not lost ("keep reading until the file is fully drained").            *)
EofIsWhole == \A r \in Readers : reader[r].pc = "eof" => reader[r].off = written \/ ~known

(* The ready line makes the instance ready while it runs, however late the  *)
(* watcher opened the log (InstanceLogs, watchLogsLoop).                    *)
ReadyIsNoticed == (written >= ReadyLine /\ life = "runs" /\ known) ~> (ready \/ life /= "runs" \/ ~known)

(* "ParseLogStream ... Closes when the stream ends.": the stream of an      *)
(* instance that exited ends.                                               *)
StreamEnds == \A s \in Streams : (handler[s] = "loop" /\ life = "told") ~> (handler[s] = "returned")
=============================================================================
