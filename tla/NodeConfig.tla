----------------------------- MODULE NodeConfig -----------------------------
(* The configuration of worker nodes: WorkerNodeService.Update               *)
(* (cluster/worker.go), the limits a worker reports when it registers        *)
(* (cluster/grpc.go) and the worker_nodes rows (store/worker_node.go).  A    *)
(* field is NoValue when its column is NULL or its JSON field is left out.   *)
EXTENDS Integers, FiniteSets

CONSTANTS Nodes, Users,
          Ports,       \* bound: 0 .. n, ports that may end a range
          Limits,      \* bound: values of a limit
          MaxUpdates   \* bound: updates

NoValue == -1
Optional(S) == S \cup {NoValue}

\* The fields of a WorkerNodeUpdate that several writes or checks depend on;
\* name, cordoned and tags are one write each and depend on nothing.
Update == [mem : Optional(Limits), cpu : Optional(Limits),
           start : Optional(Ports), end : Optional(Ports)]

VARIABLES row,      \* the row of each node
          req,      \* where each Update is
          report,   \* a worker's registration between its read and its write
          updates

vars == <<row, req, report, updates>>

Nothing   == [mem |-> NoValue, cpu |-> NoValue, start |-> NoValue, end |-> NoValue]
NoRequest == [pc |-> "idle", node |-> "none", upd |-> Nothing]
NoReport  == [node |-> "none", mem |-> NoValue, cpu |-> NoValue]

Init ==
  /\ row = [n \in Nodes |-> Nothing]
  /\ req = [u \in Users |-> NoRequest]
  /\ report = NoReport
  /\ updates = 0

\* WorkerNodeUpdate.Validate: only when both ends are given.
Validate(upd) == NoValue \in {upd.start, upd.end} \/ upd.start <= upd.end

Begin(u) ==
  /\ req[u].pc = "idle"
  /\ updates < MaxUpdates
  /\ updates' = updates + 1
  /\ \E n \in Nodes, upd \in Update :
       /\ Validate(upd)
       /\ req' = [req EXCEPT ![u] = [pc |-> "limits", node |-> n, upd |-> upd]]
  /\ UNCHANGED <<row, report>>

\* SetWorkerNodeLimits writes all the limits when one of them is given.
SetLimits(u) ==
  LET n == req[u].node  upd == req[u].upd IN
  /\ req[u].pc = "limits"
  /\ row' = IF upd.mem = NoValue /\ upd.cpu = NoValue
            THEN row
            ELSE [row EXCEPT ![n].mem = upd.mem, ![n].cpu = upd.cpu]
  /\ req' = IF upd.start = NoValue /\ upd.end = NoValue
            THEN [req EXCEPT ![u] = NoRequest]
            ELSE [req EXCEPT ![u].pc = "merge"]
  /\ UNCHANGED <<report, updates>>

\* Mutant: a field that is left out counts as zero.
GivenZero(new, old) == IF new # NoValue THEN new ELSE 0

\* A field that is left out keeps the old value.
Given(new, old) == IF new # NoValue THEN new ELSE old

\* Mutant: ranges that touch at one port are let through.
TouchingAllowed(n, start, end) ==
  \E m \in Nodes \ {n} :
    /\ NoValue \notin {row[m].start, row[m].end}
    /\ start < row[m].end
    /\ end > row[m].start

\* validatePortRangeNoOverlap refuses the range.
Overlaps(n, start, end) ==
  \E m \in Nodes \ {n} :
    /\ NoValue \notin {row[m].start, row[m].end}
    /\ start <= row[m].end
    /\ end >= row[m].start

\* The range is merged with the row as read now and checked against the others.
MergeRange(u) ==
  LET n == req[u].node
      s == Given(req[u].upd.start, row[n].start)
      e == Given(req[u].upd.end, row[n].end)
  IN
  /\ req[u].pc = "merge"
  /\ req' = IF NoValue \notin {s, e} /\ Overlaps(n, s, e)
            THEN [req EXCEPT ![u] = NoRequest]
            ELSE [req EXCEPT ![u].pc = "write", ![u].upd.start = s, ![u].upd.end = e]
  /\ UNCHANGED <<row, report, updates>>

SetPortRange(u) ==
  LET n == req[u].node IN
  /\ req[u].pc = "write"
  /\ row' = [row EXCEPT ![n].start = req[u].upd.start, ![n].end = req[u].upd.end]
  /\ req' = [req EXCEPT ![u] = NoRequest]
  /\ UNCHANGED <<report, updates>>

\* A worker reports limits of its own and keeps those it does not set, as read
\* before the write.
ReportLimits ==
  /\ report = NoReport
  /\ updates < MaxUpdates
  /\ updates' = updates + 1
  /\ \E n \in Nodes, mem, cpu \in Optional(Limits \ {0}) :
       /\ {mem, cpu} # {NoValue}
       /\ report' = [node |-> n, mem |-> Given(mem, row[n].mem), cpu |-> Given(cpu, row[n].cpu)]
  /\ UNCHANGED <<row, req>>

StoreReport ==
  /\ report # NoReport
  /\ row' = [row EXCEPT ![report.node].mem = report.mem, ![report.node].cpu = report.cpu]
  /\ report' = NoReport
  /\ UNCHANGED <<req, updates>>

Step(u) == SetLimits(u) \/ MergeRange(u) \/ SetPortRange(u)

Next ==
  \/ \E u \in Users : Begin(u) \/ Step(u)
  \/ ReportLimits \/ StoreReport

\* Requests that have begun run to their end.
Spec == Init /\ [][Next]_vars /\ WF_vars(StoreReport) /\ \A u \in Users : WF_vars(Step(u))

-----------------------------------------------------------------------------
\* Every variable has its type.
TypeOK ==
  /\ row \in [Nodes -> Update]
  /\ \A u \in Users : req[u].upd \in Update
  /\ updates \in 0 .. MaxUpdates

PortRange(n) ==
  IF NoValue \in {row[n].start, row[n].end} THEN {} ELSE row[n].start .. row[n].end

\* No port is in the ranges of two nodes ("overlapping ranges ... we reject
\* them everywhere"): Update checks the merged range, not the one it was given.
NoOverlap == \A n, m \in Nodes : n # m => PortRange(n) \cap PortRange(m) = {}

\* A node's range is not upside down ("must be >= port_range_start").
RangeOrdered ==
  \A n \in Nodes : NoValue \in {row[n].start, row[n].end} \/ row[n].start <= row[n].end

\* A limit that is set stays set: left-out fields are not updated, and to
\* clear a limit a client sends 0 ("Nil pointer fields are not updated").
LimitsKept ==
  [][\A n \in Nodes :
       /\ row[n].mem # NoValue => row'[n].mem # NoValue
       /\ row[n].cpu # NoValue => row'[n].cpu # NoValue]_vars
=============================================================================
