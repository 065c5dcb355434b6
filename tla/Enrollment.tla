----------------------------- MODULE Enrollment -----------------------------
(* How a remote worker joins: the controller has a certificate authority and a *)
(* server certificate in its data directory, the worker three files it is      *)
(* issued when it first registers.  Both write their files one by one and may  *)
(* die in between.  The worker then registers over mutual TLS, and the         *)
(* controller dials back to the address it reported with its first heartbeat.  *)
(* A certificate is the authority it was signed by, the address it is good for *)
(* and the key it belongs to.                                                  *)
EXTENDS Naturals, FiniteSets

CONSTANTS
  MaxDeaths,     \* bound: deaths of the worker
  MaxCtlDeaths,  \* bound: deaths of the controller
  MaxFaults,     \* bound: calls that fail on the way, files not saved
  MaxMoves       \* bound: changes of the worker's address

VARIABLES
  ctl,       \* the controller: "down", "key", "cert", "srvkey", "up", "broken"
  ca,        \* its files tls/ca.crt and tls/ca.key, 0 for none
  srv,       \* its files tls/server.crt and tls/server.key: the authority, 0 for none
  issued,    \* certificates issued to enrol
  rows,      \* worker nodes in its table: id -> address
  live,      \* ids of workers it has dialled back to
  worker,    \* the worker: [pc, tls, id]
  files,     \* its files certs/ca.pem, cert.pem, key.pem
  got,       \* what the enrolment returned
  idFile,    \* its worker-id file is there
  addr,      \* its address
  deaths, ctlDeaths, faults, moves

vars == <<ctl, ca, srv, issued, rows, live, worker, files, got, idFile, addr, deaths, ctlDeaths, faults, moves>>
controller == <<ctl, ca, srv, issued, rows, live>>
node == <<worker, files, got, idFile>>
counts == <<deaths, ctlDeaths, faults, moves>>

NoCert == [ca |-> 0, at |-> 0, key |-> 0]
NoTLS  == [root |-> 0, cert |-> NoCert]
NoFiles == [root |-> 0, cert |-> NoCert, key |-> 0]
Down   == [pc |-> "down", tls |-> NoTLS, id |-> "none"]

Init ==
  /\ ctl = "down" /\ ca = [crt |-> 0, key |-> 0] /\ srv = [crt |-> 0, key |-> 0] /\ issued = 0
  /\ rows = <<>> /\ live = {} /\ worker = Down /\ files = NoFiles /\ got = NoFiles /\ idFile = FALSE /\ addr = 1
  /\ deaths = 0 /\ ctlDeaths = 0 /\ faults = 0 /\ moves = 0

---------------------------------------------------------------------------
(* The controller's files. *)

(* LoadOrCreateCA: the authority is there, or its certificate is written       *)
(* first; a certificate without a key is an error at every later start.        *)
LoadOrCreateCA ==
  /\ ctl = "down"
  /\ IF ca.crt = 0 THEN ca' = [ca EXCEPT !.crt = ctlDeaths + 1] /\ ctl' = "key"
     ELSE UNCHANGED ca /\ ctl' = IF ca.key = 0 THEN "broken" ELSE "cert"
  /\ UNCHANGED <<srv, issued, rows, live, addr>> /\ UNCHANGED node /\ UNCHANGED counts

WriteCAKey ==
  /\ ctl = "key" /\ ctl' = "cert" /\ ca' = [ca EXCEPT !.key = ca.crt]
  /\ UNCHANGED <<srv, issued, rows, live, addr>> /\ UNCHANGED node /\ UNCHANGED counts

(* LoadOrCreateServerCert, the same way. *)
LoadOrCreateServerCert ==
  /\ ctl = "cert"
  /\ IF srv.crt = 0 THEN srv' = [srv EXCEPT !.crt = ca.crt] /\ ctl' = "srvkey"
     ELSE UNCHANGED srv /\ ctl' = IF srv.key = 0 THEN "broken" ELSE "up"
  /\ UNCHANGED <<ca, issued, rows, live, addr>> /\ UNCHANGED node /\ UNCHANGED counts

WriteServerKey ==
  /\ ctl = "srvkey" /\ ctl' = "up" /\ srv' = [srv EXCEPT !.key = srv.crt]
  /\ UNCHANGED <<ca, issued, rows, live, addr>> /\ UNCHANGED node /\ UNCHANGED counts

ControllerDies ==
  /\ ctl \notin {"down", "broken"} /\ ctlDeaths < MaxCtlDeaths /\ ctlDeaths' = ctlDeaths + 1
  /\ ctl' = "down" /\ live' = {}
  /\ UNCHANGED <<ca, srv, issued, rows, addr, deaths, faults, moves>> /\ UNCHANGED node

---------------------------------------------------------------------------
(* The worker. *)

To(p) == worker' = [worker EXCEPT !.pc = p]

StartWorker ==
  /\ worker.pc = "down" /\ worker' = [Down EXCEPT !.pc = "load"]
  /\ UNCHANGED <<files, got, idFile, addr>> /\ UNCHANGED controller /\ UNCHANGED counts

(* The files load if the certificate and the key belong together. *)
Loads(fs) == fs.root # 0 /\ fs.cert # NoCert /\ fs.key = fs.cert.key

(* Files that are there are not looked at again. *)
LoadWorkerTLSOnce ==
  /\ worker.pc = "load"
  /\ worker' = IF files.root # 0 THEN [worker EXCEPT !.pc = "id", !.tls = IF Loads(files) THEN [root |-> files.root, cert |-> files.cert] ELSE NoTLS]
               ELSE [worker EXCEPT !.pc = "enroll"]
  /\ UNCHANGED <<files, got, idFile, addr>> /\ UNCHANGED controller /\ UNCHANGED counts

(* loadWorkerTLS: nothing, or files that do not load, lead to the enrolment. *)
LoadWorkerTLS ==
  /\ worker.pc = "load"
  /\ worker' = IF Loads(files) THEN [worker EXCEPT !.pc = "id", !.tls = [root |-> files.root, cert |-> files.cert]]
               ELSE [worker EXCEPT !.pc = "enroll"]
  /\ UNCHANGED <<files, got, idFile, addr>> /\ UNCHANGED controller /\ UNCHANGED counts

(* detectNetInfo: the address the worker reports is one its machine has; which *)
(* of several interfaces it picks is left out.                                 *)
OwnAddress == addr

(* The row of a worker that registers, under the name it gives. *)
Row(id) == rows' = [i \in DOMAIN rows \cup {id} |-> IF i = id THEN OwnAddress ELSE rows[i]]
Issue   == [root |-> ca.crt, cert |-> [ca |-> ca.crt, at |-> OwnAddress, key |-> issued + 1], key |-> issued + 1]

(* enrollWithController: Register without a certificate and under the host's   *)
(* name, if no id is configured; the answer has the three files.               *)
Enroll ==
  /\ worker.pc = "enroll" /\ ctl = "up"
  /\ To("saveCA") /\ got' = Issue /\ issued' = issued + 1 /\ Row("host")
  /\ UNCHANGED <<ctl, ca, srv, live, files, idFile, addr>> /\ UNCHANGED counts

SaveCA   == /\ worker.pc = "saveCA" /\ To("saveCert") /\ files' = [files EXCEPT !.root = got.root]
            /\ UNCHANGED <<got, idFile, addr>> /\ UNCHANGED controller /\ UNCHANGED counts
SaveCert == /\ worker.pc = "saveCert" /\ To("saveKey") /\ files' = [files EXCEPT !.cert = got.cert]
            /\ UNCHANGED <<got, idFile, addr>> /\ UNCHANGED controller /\ UNCHANGED counts
SaveKey  == /\ worker.pc = "saveKey" /\ files' = [files EXCEPT !.key = got.key]
            /\ worker' = [worker EXCEPT !.pc = "id", !.tls = [root |-> files.root, cert |-> files.cert]]
            /\ UNCHANGED <<got, idFile, addr>> /\ UNCHANGED controller /\ UNCHANGED counts

(* A file cannot be written, or only in part: the process goes on without TLS, *)
(* and none of its calls to the controller succeeds until it is started again. *)
SaveFails ==
  /\ worker.pc \in {"saveCA", "saveCert", "saveKey"} /\ faults < MaxFaults /\ faults' = faults + 1
  /\ worker' = [pc |-> "insecure", tls |-> NoTLS, id |-> "id"] /\ idFile' = TRUE
  /\ \/ UNCHANGED files
     \/ worker.pc = "saveCA" /\ files' = [files EXCEPT !.root = 0]
     \/ worker.pc = "saveCert" /\ files' = [files EXCEPT !.cert = NoCert]
     \/ worker.pc = "saveKey" /\ files' = [files EXCEPT !.key = 0]
  /\ UNCHANGED <<got, addr, deaths, ctlDeaths, moves>> /\ UNCHANGED controller

(* loadOrGenerateWorkerID. *)
LoadId ==
  /\ worker.pc = "id" /\ worker' = [worker EXCEPT !.pc = "register", !.id = "id"] /\ idFile' = TRUE
  /\ UNCHANGED <<files, got, addr>> /\ UNCHANGED controller /\ UNCHANGED counts

(* A handshake succeeds if each side's certificate is of the authority the     *)
(* other trusts.                                                               *)
Trusts == worker.tls.root = srv.crt /\ worker.tls.cert.ca = ca.crt

(* Register; the certificates of the answer are not used. *)
Register ==
  /\ worker.pc = "register" /\ ctl = "up" /\ Trusts
  /\ To("heartbeat") /\ Row(worker.id)
  /\ UNCHANGED <<ctl, ca, srv, issued, live, files, got, idFile, addr>> /\ UNCHANGED counts

(* Heartbeat: known, or known after the controller has dialled the address it  *)
(* has and found there a certificate for it.                                   *)
Accepted ==
  /\ ctl = "up" /\ Trusts
  /\ worker.id \notin live => /\ worker.id \in DOMAIN rows
                              /\ rows[worker.id] = addr /\ worker.tls.cert.at = addr
Heartbeat ==
  /\ worker.pc = "heartbeat" /\ Accepted
  /\ To("beating") /\ live' = live \cup {worker.id}
  /\ UNCHANGED <<ctl, ca, srv, issued, rows, files, got, idFile, addr>> /\ UNCHANGED counts

NextBeat ==
  /\ worker.pc = "beating" /\ To("heartbeat")
  /\ UNCHANGED <<files, got, idFile, addr>> /\ UNCHANGED controller /\ UNCHANGED counts

(* A call fails or is refused: the loop starts again with a registration. *)
CallFails ==
  /\ worker.pc \in {"heartbeat", "register"}
  /\ \/ (ctl # "up" \/ ~Trusts \/ (worker.pc = "heartbeat" /\ ~Accepted)) /\ UNCHANGED faults
     \/ faults < MaxFaults /\ faults' = faults + 1
  /\ To("register")
  /\ UNCHANGED <<files, got, idFile, addr, deaths, ctlDeaths, moves>> /\ UNCHANGED controller

WorkerDies ==
  /\ worker.pc # "down" /\ deaths < MaxDeaths /\ deaths' = deaths + 1
  /\ worker' = Down
  /\ UNCHANGED <<files, got, idFile, addr, ctlDeaths, faults, moves>> /\ UNCHANGED controller

(* The host has another address from now on. *)
Move ==
  /\ moves < MaxMoves /\ moves' = moves + 1 /\ addr' = addr + 1
  /\ UNCHANGED <<deaths, ctlDeaths, faults>> /\ UNCHANGED controller /\ UNCHANGED node

Controller == LoadOrCreateCA \/ WriteCAKey \/ LoadOrCreateServerCert \/ WriteServerKey
Worker == \/ StartWorker \/ LoadWorkerTLS \/ Enroll \/ SaveCA \/ SaveCert \/ SaveKey \/ LoadId
          \/ Register \/ Heartbeat \/ NextBeat
Next == Controller \/ Worker \/ SaveFails \/ CallFails \/ ControllerDies \/ WorkerDies \/ Move

Spec == Init /\ [][Next]_vars

(* Both processes are restarted and run; calls fail only finitely often for    *)
(* another reason than the other side being away.                              *)
FairSpec == Spec /\ WF_vars(Controller) /\ WF_vars(Worker) /\ WF_vars(CallFails /\ UNCHANGED faults)

---------------------------------------------------------------------------
TypeOK ==
  /\ ctl \in {"down", "key", "cert", "srvkey", "up", "broken"}
  /\ worker.pc \in {"down", "load", "enroll", "saveCA", "saveCert", "saveKey", "id", "register", "heartbeat", "beating", "insecure"}
  /\ live \subseteq DOMAIN rows

(* "This ensures the worker has a stable identity across restarts, independent  *)
(* of hostname changes": the controller knows one worker by one name.          *)
OneIdentity == Cardinality(DOMAIN rows) <= 1

(* A worker whose configuration loaded has a certificate of the authority it   *)
(* trusts, wherever it died while it saved its files.                          *)
TlsIsConsistent == worker.tls # NoTLS => worker.tls.root = worker.tls.cert.ca

(* The worker is dialled back in the end, wherever it died before, unless it    *)
(* could not save what it was issued.                                          *)
Joins == <>[](worker.id \in live \/ worker.pc = "insecure")
=============================================================================
