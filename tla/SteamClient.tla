----------------------------- MODULE SteamClient -----------------------------
(* The client of a Steam CM server.  Callers send requests, each with a job    *)
(* number, and wait on a channel of their own that the read loop fills with    *)
(* the answer that names the number; the log-on answer names no number and     *)
(* goes to the one waiter for its message type.  The server answers one by     *)
(* one or several in a Multi message, late, never, or after the caller has     *)
(* given up.  Linking an account is a chain of such requests.                  *)
EXTENDS Naturals, Sequences, FiniteSets

CONSTANTS
  Callers,
  MaxJobs,       \* bound: requests sent
  MaxFaults      \* bound: messages that cannot be decoded, connections lost

VARIABLES
  conn,      \* "none", "open", "lost" (the read loop has ended), "closed"
  nextJob,
  pending,   \* job -> the caller whose channel is registered
  caller,    \* caller -> [pc, ask: the request it makes, job, got: the request its answer is for]
  server,    \* requests the server has and will answer: [job, ask]
  wire,      \* messages on their way: sequences of answers (a Multi has several)
  logon,     \* "none", "waiting", "on", "refused"
  heartbeat, \* the heartbeat goroutine runs
  asks,      \* requests made so far: each is the answer it should get
  session,   \* linking an account: "none", "key", "begun", "guard", "polling", "linked", "failed"
  faults

vars == <<conn, nextJob, pending, caller, server, wire, logon, heartbeat, asks, session, faults>>

Free == [pc |-> "free", ask |-> 0, job |-> 0, got |-> 0]
NoJob == 0
LogonAsk == 0      \* the log-on answer: it names no job

Init ==
  /\ conn = "none" /\ nextJob = 0 /\ pending = <<>> /\ caller = [c \in Callers |-> Free]
  /\ server = {} /\ wire = {} /\ logon = "none" /\ heartbeat = FALSE /\ asks = 0
  /\ session = "none" /\ faults = 0

---------------------------------------------------------------------------
(* The connection. *)

(* Connect: a server of the list is dialled and the read loop started. *)
Connect ==
  /\ conn = "none" /\ conn' = "open"
  /\ UNCHANGED <<nextJob, pending, caller, server, wire, logon, heartbeat, asks, session, faults>>

(* Close ends the heartbeat and the connection. *)
Close ==
  /\ conn \in {"open", "lost"} /\ conn' = "closed"
  /\ heartbeat' = FALSE /\ server' = {} /\ wire' = {}
  /\ UNCHANGED <<nextJob, pending, caller, logon, asks, session, faults>>

(* The connection drops: the read loop logs it and ends. *)
Lose ==
  /\ conn = "open" /\ faults < MaxFaults /\ faults' = faults + 1
  /\ conn' = "lost" /\ server' = {} /\ wire' = {}
  /\ UNCHANGED <<nextJob, pending, caller, logon, heartbeat, asks, session>>

(* The heartbeat's goroutine ends with the first heartbeat it cannot send. *)
HeartbeatFails ==
  /\ heartbeat /\ conn = "lost" /\ heartbeat' = FALSE
  /\ UNCHANGED <<conn, nextJob, pending, caller, server, wire, logon, asks, session, faults>>

---------------------------------------------------------------------------
(* Requests. *)

(* The lowest number no request waits with. *)
LowestFree == CHOOSE j \in 1 .. MaxJobs + 1:
  j \notin DOMAIN pending /\ \A i \in 1 .. j - 1: i \in DOMAIN pending
RegisterReusing(c) ==
  /\ caller[c].pc = "free" /\ conn # "none" /\ asks < MaxJobs
  /\ nextJob' = LowestFree /\ asks' = asks + 1
  /\ pending' = [j \in DOMAIN pending \cup {LowestFree} |-> IF j = LowestFree THEN c ELSE pending[j]]
  /\ caller' = [caller EXCEPT ![c] = [pc |-> "send", ask |-> asks + 1, job |-> LowestFree, got |-> 0]]
  /\ UNCHANGED <<conn, server, wire, logon, heartbeat, session, faults>>

(* SendAndWait draws a number and registers its channel before it sends. *)
Register(c) ==
  LET j == nextJob + 1 IN
  /\ caller[c].pc = "free" /\ conn # "none" /\ asks < MaxJobs
  /\ nextJob' = j /\ asks' = asks + 1
  /\ pending' = [i \in DOMAIN pending \cup {j} |-> IF i = j THEN c ELSE pending[i]]
  /\ caller' = [caller EXCEPT ![c] = [pc |-> "send", ask |-> asks + 1, job |-> j, got |-> 0]]
  /\ UNCHANGED <<conn, server, wire, logon, heartbeat, session, faults>>

Unregister(c) == pending' = [j \in DOMAIN pending \ {caller[c].job} |-> pending[j]]

(* A write to a connection that is lost or closed fails. *)
Send(c) ==
  /\ caller[c].pc = "send"
  /\ IF conn = "open"
     THEN /\ server' = server \cup {[job |-> caller[c].job, ask |-> caller[c].ask]}
          /\ caller' = [caller EXCEPT ![c].pc = "wait"]
          /\ UNCHANGED pending
     ELSE caller' = [caller EXCEPT ![c] = Free] /\ Unregister(c) /\ UNCHANGED server
  /\ UNCHANGED <<conn, nextJob, wire, logon, heartbeat, asks, session, faults>>

(* The server answers some of its requests in one message. *)
Answer(rs) ==
  /\ conn = "open" /\ rs # {} /\ rs \subseteq server
  /\ server' = server \ rs /\ wire' = wire \cup {rs}
  /\ UNCHANGED <<conn, nextJob, pending, caller, logon, heartbeat, asks, session, faults>>

(* dispatch: the log-on answer to its waiter, an answer to the caller whose    *)
(* channel its job has and to nobody if there is none; a channel holds one.    *)
Dispatched(rs, c) ==
  {r \in rs: r.job \in DOMAIN pending /\ pending[r.job] = c /\ caller[c].got = 0}
LogonAnswered(rs) == logon = "waiting" /\ \E r \in rs: r.job = NoJob

ReadLoop(rs) ==
  /\ conn = "open" /\ rs \in wire /\ wire' = wire \ {rs}
  /\ caller' = [c \in Callers |-> IF Dispatched(rs, c) = {} THEN caller[c]
                                  ELSE [caller[c] EXCEPT !.got = (CHOOSE r \in Dispatched(rs, c): TRUE).ask]]
  /\ IF LogonAnswered(rs)     \* handleLogonResponse: refused, or on with a heartbeat
     THEN \/ logon' = "refused" /\ UNCHANGED heartbeat
          \/ logon' = "on" /\ heartbeat' = TRUE
     ELSE UNCHANGED <<logon, heartbeat>>
  /\ UNCHANGED <<conn, nextJob, pending, server, asks, session, faults>>

(* A message that cannot be decoded is skipped, with every answer in it. *)
DecodeFails(rs) ==
  /\ conn = "open" /\ rs \in wire /\ wire' = wire \ {rs}
  /\ faults < MaxFaults /\ faults' = faults + 1
  /\ UNCHANGED <<conn, nextJob, pending, caller, server, logon, heartbeat, asks, session>>

(* Linking an account needs the answer it waits for; any other caller ignores  *)
(* the session.                                                                *)
Linking == session \in {"key", "begun", "guard", "polling"}

(* The answer is there. *)
Receive(c) ==
  /\ caller[c].pc = "wait" /\ caller[c].got # 0
  /\ caller' = [caller EXCEPT ![c].pc = "done"] /\ Unregister(c)
  /\ UNCHANGED <<conn, nextJob, server, wire, logon, heartbeat, asks, session, faults>>

(* The caller's context ends first. *)
GiveUp(c) ==
  /\ caller[c].pc = "wait"
  /\ caller' = [caller EXCEPT ![c] = Free] /\ Unregister(c)
  /\ session' = IF Linking THEN "failed" ELSE session
  /\ UNCHANGED <<conn, nextJob, server, wire, logon, heartbeat, asks, faults>>

(* The caller has used its answer and may ask again. *)
Again(c) ==
  /\ caller[c].pc = "done" /\ ~Linking
  /\ caller' = [caller EXCEPT ![c] = Free]
  /\ UNCHANGED <<conn, nextJob, pending, server, wire, logon, heartbeat, asks, session, faults>>

---------------------------------------------------------------------------
(* LoginWithRefreshToken and LoginAnonymous: the waiter for the log-on answer  *)
(* is registered before the request is sent.                                   *)
Login ==
  /\ conn = "open" /\ logon \in {"none", "refused"} /\ session = "none"
  /\ logon' = "waiting" /\ server' = server \cup {[job |-> NoJob, ask |-> LogonAsk]}
  /\ UNCHANGED <<conn, nextJob, pending, caller, wire, heartbeat, asks, session, faults>>

---------------------------------------------------------------------------
(* gamejanitor steam login: key, session, the guard's code if one is asked     *)
(* for, then polls until Steam issues a token.  The commands run one after the *)
(* other: the caller that has its answer takes the next step.                  *)

BeginAuth ==
  /\ conn = "open" /\ session = "none" /\ logon = "none" /\ asks = 0
  /\ session' = "key"
  /\ UNCHANGED <<conn, nextJob, pending, caller, server, wire, logon, heartbeat, asks, faults>>

NextStage(s) == CASE s = "key"   -> {"begun"}
                  [] s = "begun" -> {"guard", "polling"}
                  [] s = "guard" -> {"polling"}
                  [] s = "polling" -> {"polling", "linked"}

Stage(c) ==
  /\ Linking /\ caller[c].pc = "done"
  /\ session' \in NextStage(session)
  /\ caller' = [caller EXCEPT ![c] = Free]
  /\ UNCHANGED <<conn, nextJob, pending, server, wire, logon, heartbeat, asks, faults>>

Next ==
  \/ Connect \/ Close \/ Lose \/ HeartbeatFails \/ Login \/ BeginAuth
  \/ \E c \in Callers: \/ Register(c) \/ Send(c) \/ Receive(c) \/ GiveUp(c) \/ Again(c) \/ Stage(c)
  \/ \E rs \in SUBSET server: Answer(rs)
  \/ \E rs \in wire: ReadLoop(rs) \/ DecodeFails(rs)

Spec == Init /\ [][Next]_vars

---------------------------------------------------------------------------
TypeOK ==
  /\ conn \in {"none", "open", "lost", "closed"} /\ nextJob \in 0 .. MaxJobs
  /\ \A c \in Callers: caller[c].pc \in {"free", "send", "wait", "done"}
  /\ DOMAIN pending = {caller[c].job: c \in {b \in Callers: caller[b].pc \in {"send", "wait"}}}
  /\ logon \in {"none", "waiting", "on", "refused"}

(* The answer a request returns with is the answer to that request: not one to *)
(* an earlier request its caller, or another, gave up.                         *)
AnswerIsOwn == \A c \in Callers: caller[c].got # 0 => caller[c].got = caller[c].ask
=============================================================================
