---------------------------- MODULE UdpForwarder ----------------------------
(* The UDP forwarder of one port (proxy/udp.go): the loop that reads packets *)
(* of the clients, the sessions it keeps for them, the goroutine of every    *)
(* session that carries the answers back, and the cleanup.  Time is counted  *)
(* in periods of the cleanup (udpCleanupPeriod); sessions are numbered.      *)
EXTENDS Naturals, FiniteSets

CONSTANTS Clients, Backends,
          TTL,          \* udpSessionTTL, in periods of the cleanup
          MaxSessions,  \* bound: sessions created
          MaxRoutes     \* bound: setBackend calls

VARIABLES backend,   \* where setBackend points
          sessions,  \* client -> number of its session, 0 for none
          dialled,   \* session -> the backend its socket is connected to
          idle,      \* session -> periods since lastActive
          quiet,     \* session -> periods since the backend was heard
          open,      \* sessions whose socket is open
          returning, \* sessions whose udpReturnPath runs
          server,    \* the read loop: the packet in its hands
          done,      \* stop was called
          created, routed

vars == <<backend, sessions, dialled, idle, quiet, open, returning, server, done,
          created, routed>>

Ids == 1 .. MaxSessions
Reading == [pc |-> "read", client |-> 0, to |-> 0]

Init ==
  /\ backend \in Backends
  /\ sessions = [c \in Clients |-> 0]
  /\ dialled = [i \in Ids |-> 0]
  /\ idle = [i \in Ids |-> 0]
  /\ quiet = [i \in Ids |-> 0]
  /\ open = {}
  /\ returning = {}
  /\ server = Reading
  /\ done = FALSE
  /\ created = 0
  /\ routed = 0

\* The route changes: a migration, or another gameserver has the port.
setBackend(b) ==
  /\ ~done /\ b # backend
  /\ routed < MaxRoutes
  /\ routed' = routed + 1
  /\ backend' = b
  /\ UNCHANGED <<sessions, dialled, idle, quiet, open, returning, server, done, created>>

\* A packet of a client is read, and the backend with it.
ReadPacket(c) ==
  /\ server = Reading /\ ~done
  /\ server' = [pc |-> "packet", client |-> c, to |-> backend]
  /\ UNCHANGED <<backend, sessions, dialled, idle, quiet, open, returning, done, created, routed>>

\* A client without a session gets one, connected to the backend just read; a
\* client with one keeps its socket.  When the backend cannot be dialled the
\* packet is dropped.
Forward ==
  LET c == server.client
      i == IF sessions[c] = 0 THEN created + 1 ELSE sessions[c]
  IN
  /\ server.pc = "packet"
  /\ server' = Reading
  /\ \/ /\ i \in Ids
        /\ idle' = [idle EXCEPT ![i] = 0]
        /\ IF sessions[c] # 0
           THEN UNCHANGED <<sessions, dialled, quiet, open, returning, created>>
           ELSE /\ created' = i
                /\ sessions' = [sessions EXCEPT ![c] = i]
                /\ dialled' = [dialled EXCEPT ![i] = server.to]
                /\ quiet' = [quiet EXCEPT ![i] = 0]
                /\ open' = open \cup {i}
                /\ returning' = returning \cup {i}
     \/ sessions[c] = 0 /\ UNCHANGED <<sessions, dialled, idle, quiet, open, returning, created>>
  /\ UNCHANGED <<backend, done, routed>>

\* An answer of the backend: the return path forwards it and sets a new deadline.
Answer(i) ==
  /\ i \in returning /\ i \in open
  /\ quiet' = [quiet EXCEPT ![i] = 0]
  /\ UNCHANGED <<backend, sessions, dialled, idle, open, returning, server, done, created, routed>>

\* udpReturnPath ends for good on an error: the socket is closed, or nothing
\* came before the read deadline.
ReturnEnds(i) ==
  /\ i \in returning
  /\ i \notin open \/ quiet[i] >= TTL
  /\ returning' = returning \ {i}
  /\ UNCHANGED <<backend, sessions, dialled, idle, quiet, open, server, done, created, routed>>

\* Mutant: the session is forgotten and its socket left open.
ForgetStale ==
  LET age(i) == IF i \in open THEN idle[i] + 1 ELSE idle[i]
      stale == {i \in open : age(i) > TTL}
  IN
  /\ ~done
  /\ \A i \in returning : quiet[i] < TTL
  /\ sessions' = [c \in Clients |-> IF sessions[c] \in stale THEN 0 ELSE sessions[c]]
  /\ idle' = [i \in Ids |-> age(i)]
  /\ quiet' = [i \in Ids |-> IF i \in returning THEN quiet[i] + 1 ELSE quiet[i]]
  /\ UNCHANGED <<backend, dialled, open, returning, server, done, created, routed>>

\* Mutant: a session stays one period longer.
CleanupLate ==
  LET age(i) == IF i \in open THEN idle[i] + 1 ELSE idle[i]
      stale == {i \in open : age(i) > TTL + 1}
  IN
  /\ ~done
  /\ \A i \in returning : quiet[i] < TTL
  /\ sessions' = [c \in Clients |-> IF sessions[c] \in stale THEN 0 ELSE sessions[c]]
  /\ open' = open \ stale
  /\ idle' = [i \in Ids |-> age(i)]
  /\ quiet' = [i \in Ids |-> IF i \in returning THEN quiet[i] + 1 ELSE quiet[i]]
  /\ UNCHANGED <<backend, dialled, returning, server, done, created, routed>>

\* A period passes and the cleanup runs: sessions idle for longer than the TTL
\* are closed and forgotten.
Cleanup ==
  LET age(i) == IF i \in open THEN idle[i] + 1 ELSE idle[i]
      stale == {i \in open : age(i) > TTL}
  IN
  /\ ~done
  /\ \A i \in returning : quiet[i] < TTL      \* a deadline that passed is acted on
  /\ sessions' = [c \in Clients |-> IF sessions[c] \in stale THEN 0 ELSE sessions[c]]
  /\ open' = open \ stale
  /\ idle' = [i \in Ids |-> age(i)]
  /\ quiet' = [i \in Ids |-> IF i \in returning THEN quiet[i] + 1 ELSE quiet[i]]
  /\ UNCHANGED <<backend, dialled, returning, server, done, created, routed>>

\* forwarder.stop closes done and the listening socket.
stop ==
  /\ ~done
  /\ done' = TRUE
  /\ UNCHANGED <<backend, sessions, dialled, idle, quiet, open, returning, server, created, routed>>

\* Mutant: the loop only returns.
EndOnly ==
  /\ done /\ server = Reading
  /\ server' = [Reading EXCEPT !.pc = "ended"]
  /\ UNCHANGED <<backend, sessions, dialled, idle, quiet, open, returning, done, created, routed>>

\* The read fails after stop: all sessions are closed and the loop ends.
End ==
  /\ done /\ server = Reading
  /\ server' = [Reading EXCEPT !.pc = "ended"]
  /\ open' = open \ {sessions[c] : c \in Clients}
  /\ UNCHANGED <<backend, sessions, dialled, idle, quiet, returning, done, created, routed>>

Next ==
  \/ \E b \in Backends : setBackend(b)
  \/ \E c \in Clients : ReadPacket(c)
  \/ \E i \in Ids : Answer(i) \/ ReturnEnds(i)
  \/ Forward \/ Cleanup \/ stop \/ End

\* The loop goes on, blocked reads return at their deadline or when the socket
\* is closed, and the cleanup's ticker fires.
Fairness ==
  /\ WF_vars(Forward)
  /\ WF_vars(Cleanup)
  /\ WF_vars(End)
  /\ \A i \in Ids : WF_vars(ReturnEnds(i))

Spec == Init /\ [][Next]_vars /\ Fairness

-----------------------------------------------------------------------------
\* Every variable has its type.
TypeOK ==
  /\ backend \in Backends
  /\ sessions \in [Clients -> 0 .. created]
  /\ open \subseteq Ids /\ returning \subseteq Ids
  /\ \A i \in Ids : idle[i] <= TTL + 1 /\ quiet[i] <= TTL
  /\ \A c \in Clients : sessions[c] # 0 => dialled[sessions[c]] \in Backends

\* Every open socket belongs to the session of one client, and no client's
\* session has lost its socket while the loop serves: nothing leaks, and no
\* packet is written to a closed socket.
SessionOwnsSocket ==
  /\ server.pc # "ended" => open = {sessions[c] : c \in Clients} \ {0}
  /\ \A c, d \in Clients : sessions[c] = sessions[d] /\ sessions[c] # 0 => c = d

\* A forwarder that is stopped closes every socket and ends every goroutine,
\* also that of a packet that was in the loop's hands.
StopReleases == done ~> (server.pc = "ended" /\ open = {} /\ returning = {})

\* "The proxy routes to the correct backend ... across migrations": once the
\* route has changed, what a client sends goes to the new backend.
FollowsRoute ==
  [][server.pc = "packet" /\ server'.pc = "read" /\ sessions'[server.client] # 0
       => dialled'[sessions'[server.client]] = server.to]_vars

\* A session "tracks a client's upstream connection for return traffic": while
\* a client goes on sending, answers find their way back to it.
SessionReturns ==
  \A c \in Clients :
    sessions[c] # 0 /\ idle[sessions[c]] = 0 /\ ~done => sessions[c] \in returning
=============================================================================
