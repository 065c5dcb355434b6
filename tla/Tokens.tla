------------------------------- MODULE Tokens -------------------------------
(* The tokens of the controller (controller/auth with its table) and their     *)
(* callers: the API's token handlers, the offline commands, which open the     *)
(* same database, and every request that presents a credential.  A handler is  *)
(* several statements on the table; handlers run side by side.  Credentials    *)
(* and claim codes are drawn from one counter: each is fresh.                  *)
EXTENDS Naturals, FiniteSets

CONSTANTS
  Callers,
  Names,
  Roles,         \* those the callers use, of "admin", "user", "worker"
  OneRedeemer,   \* a claim code is redeemed by one caller at a time
  MaxDraws,      \* bound: rows, credentials and codes ever made
  MaxChecks      \* bound: credentials presented

VARIABLES
  tokens,   \* the table: id -> row, the draw that made a row is its id
  op,       \* caller -> the call it is in
  draws,
  given,    \* credentials that were handed out: [key, code it was redeemed with or 0]
  touched,  \* ids of the rows a credential was accepted for, and not recorded since
  logged,   \* history: ids of which the last write of a use failed, which is logged
  pending,  \* AuthService.pending
  batch,    \* what flushLastUsed took and has not written yet
  loop,     \* flushLoop: "run", "last" (writing what Stop's flush took), "done"
  checks

vars == <<tokens, op, draws, given, touched, logged, pending, batch, loop, checks>>

NoOp   == [kind |-> "idle", name |-> "", role |-> "", id |-> 0, code |-> 0]
Ids    == DOMAIN tokens

Init ==
  /\ tokens = << >> /\ op = [c \in Callers |-> NoOp] /\ draws = 0 /\ given = {}
  /\ touched = {} /\ logged = {} /\ pending = {} /\ batch = {} /\ loop = "run" /\ checks = 0

Enter(c, o)   == op[c] = NoOp /\ op' = [op EXCEPT ![c] = o]
Leave(c)      == op' = [op EXCEPT ![c] = NoOp]
Proceed(c, k) == op' = [op EXCEPT ![c].kind = k]
Without(ids)  == [i \in Ids \ ids |-> tokens[i]]
Named(name, role) == {i \in Ids: tokens[i].name = name /\ tokens[i].role = role}
UnchangedUse  == UNCHANGED <<touched, logged, pending, batch, loop, checks>>

---------------------------------------------------------------------------
(* CreateAdminToken and CreateWorkerToken: a token of that name is left as it  *)
(* is, and the caller hears of a conflict.                                     *)
CreateNamed(c, name, role) ==
  /\ role \in {"admin", "worker"} /\ Named(name, role) = {}
  /\ Enter(c, [NoOp EXCEPT !.kind = "insert", !.name = name, !.role = role])
  /\ UNCHANGED <<tokens, draws, given>> /\ UnchangedUse

(* CreateUserToken does not look. *)
CreateUserToken(c, name) ==
  /\ Enter(c, [NoOp EXCEPT !.kind = "insert", !.name = name, !.role = "user"])
  /\ UNCHANGED <<tokens, draws, given>> /\ UnchangedUse

(* RotateAdminToken and RotateWorkerToken delete first. *)
Rotate(c, name, role) ==
  /\ role \in {"admin", "worker"}
  /\ Enter(c, [NoOp EXCEPT !.kind = "insert", !.name = name, !.role = role])
  /\ tokens' = Without(Named(name, role))
  /\ UNCHANGED <<draws, given>> /\ UnchangedUse

(* The handler names the token by id, reads its name and role, and refuses     *)
(* other roles than worker.                                                    *)
RotateToken(c, id) ==
  /\ id \in Ids /\ tokens[id].role = "worker"
  /\ Enter(c, [NoOp EXCEPT !.kind = "rotate", !.name = tokens[id].name, !.role = "worker"])
  /\ UNCHANGED <<tokens, draws, given>> /\ UnchangedUse

RotateDeletes(c) ==
  /\ op[c].kind = "rotate"
  /\ tokens' = Without(Named(op[c].name, op[c].role)) /\ Proceed(c, "insert")
  /\ UNCHANGED <<draws, given>> /\ UnchangedUse

(* newToken and CreateToken. *)
Insert(c) ==
  /\ op[c].kind = "insert" /\ draws < MaxDraws
  /\ draws' = draws + 1
  /\ tokens' = [i \in Ids \cup {draws'} |->
                  IF i = draws' THEN [name |-> op[c].name, role |-> op[c].role, key |-> draws', code |-> 0, expired |-> FALSE]
                  ELSE tokens[i]]
  /\ given' = given \cup {[key |-> draws', code |-> 0]}
  /\ Leave(c) /\ UnchangedUse

(* The next statement of a call fails, or its process stops before it. *)
CallFails(c) ==
  /\ op[c] # NoOp /\ Leave(c)
  /\ UNCHANGED <<tokens, draws, given>> /\ UnchangedUse

DeleteToken(c, id) ==
  /\ op[c] = NoOp /\ id \in Ids
  /\ tokens' = Without({id})
  /\ UNCHANGED <<op, draws, given>> /\ UnchangedUse

(* A user token reaches its expiry; its row stays. *)
Expire(id) ==
  /\ id \in Ids /\ tokens[id].role = "user" /\ ~tokens[id].expired
  /\ tokens' = [tokens EXCEPT ![id].expired = TRUE]
  /\ UNCHANGED <<op, draws, given>> /\ UnchangedUse

---------------------------------------------------------------------------
(* Claim codes.  GenerateClaimCode looks whether the token exists, then writes *)
(* a new code over the old one.                                                *)
GenerateClaimCode(c, id) ==
  /\ id \in Ids
  /\ Enter(c, [NoOp EXCEPT !.kind = "code", !.id = id])
  /\ UNCHANGED <<tokens, draws, given>> /\ UnchangedUse

SetClaimCode(c) ==
  /\ op[c].kind = "code" /\ draws < MaxDraws
  /\ draws' = draws + 1
  /\ tokens' = IF op[c].id \in Ids THEN [tokens EXCEPT ![op[c].id].code = draws'] ELSE tokens
  /\ Leave(c) /\ UNCHANGED given /\ UnchangedUse

(* RedeemClaimCode finds the row by the code ...                               *)
RedeemClaimCode(c, id) ==
  /\ id \in Ids /\ tokens[id].code # 0
  /\ OneRedeemer => \A d \in Callers: op[d].kind # "rekey"
  /\ Enter(c, [NoOp EXCEPT !.kind = "rekey", !.id = id, !.code = tokens[id].code])
  /\ UNCHANGED <<tokens, draws, given>> /\ UnchangedUse

(* The code survives the new key. *)
RekeyKeepsCode(c) ==
  /\ op[c].kind = "rekey" /\ draws < MaxDraws
  /\ draws' = draws + 1
  /\ tokens' = IF op[c].id \in Ids THEN [tokens EXCEPT ![op[c].id].key = draws'] ELSE tokens
  /\ given' = given \cup {[key |-> draws', code |-> op[c].code]}
  /\ Leave(c) /\ UnchangedUse

(* ... and gives that row a new key, in one statement with clearing whatever   *)
(* code it has then; no row with that id is no error.                          *)
RekeyToken(c) ==
  /\ op[c].kind = "rekey" /\ draws < MaxDraws
  /\ draws' = draws + 1
  /\ tokens' = IF op[c].id \in Ids THEN [tokens EXCEPT ![op[c].id].key = draws', ![op[c].id].code = 0] ELSE tokens
  /\ given' = given \cup {[key |-> draws', code |-> op[c].code]}
  /\ Leave(c) /\ UnchangedUse

---------------------------------------------------------------------------
(* Credentials in use. *)

(* ValidateToken: by prefix or by scanning, one row has the key; an expired    *)
(* one is refused.  The use is noted for the next flush.                       *)
ValidateToken(g) ==
  /\ checks < MaxChecks /\ checks' = checks + 1
  /\ \E id \in Ids: tokens[id].key = g.key /\ ~tokens[id].expired
       /\ touched' = touched \cup {id} /\ pending' = pending \cup {id}
       /\ logged' = logged \ {id}
  /\ UNCHANGED <<tokens, op, draws, given, batch, loop>>

(* flushLastUsed takes the whole map under its lock ...                        *)
Take == batch = {} /\ batch' = pending /\ pending' = {}

FlushTakes ==
  /\ loop = "run" /\ pending # {} /\ Take
  /\ UNCHANGED <<tokens, op, draws, given, touched, logged, loop, checks>>

(* A write that fails ends the flush. *)
FlushSkips(id) ==
  /\ id \in batch
  /\ \/ batch' = batch \ {id} /\ touched' = IF id \in pending THEN touched ELSE touched \ {id}
     \/ batch' = {} /\ UNCHANGED touched
  /\ UNCHANGED <<tokens, op, draws, given, logged, pending, loop, checks>>

(* ... and writes row by row without it.  A row that is gone is no error.  A   *)
(* write that fails is logged, and what it was to record is forgotten.         *)
FlushWrites(id) ==
  /\ id \in batch
  /\ batch' = batch \ {id}
  /\ \/ /\ touched' = IF id \in pending THEN touched ELSE touched \ {id}
        /\ logged' = logged \ {id}
     \/ logged' = logged \cup {id} /\ UNCHANGED touched
  /\ UNCHANGED <<tokens, op, draws, given, pending, loop, checks>>

(* Stop: one more flush, and the loop ends.  The API still answers requests:   *)
(* a use it notes from here on waits in the map until the process has ended.   *)
Stop ==
  /\ loop = "run" /\ loop' = "last" /\ Take
  /\ UNCHANGED <<tokens, op, draws, given, touched, logged, checks>>

LoopEnds ==
  /\ loop = "last" /\ batch = {} /\ loop' = "done"
  /\ UNCHANGED <<tokens, op, draws, given, touched, logged, pending, batch, checks>>

---------------------------------------------------------------------------
Next ==
  \/ \E c \in Callers, n \in Names:
       \/ "user" \in Roles /\ CreateUserToken(c, n)
       \/ \E role \in Roles: CreateNamed(c, n, role) \/ Rotate(c, n, role)
  \/ \E c \in Callers: RotateDeletes(c) \/ Insert(c) \/ CallFails(c) \/ SetClaimCode(c) \/ RekeyToken(c)
  \/ \E c \in Callers, id \in Ids:
       RotateToken(c, id) \/ DeleteToken(c, id) \/ GenerateClaimCode(c, id) \/ RedeemClaimCode(c, id)
  \/ \E id \in Ids: Expire(id)
  \/ \E g \in given: ValidateToken(g)
  \/ FlushTakes \/ \E id \in batch: FlushWrites(id)
  \/ Stop \/ LoopEnds

Spec == Init /\ [][Next]_vars

---------------------------------------------------------------------------
TypeOK ==
  /\ Ids \subseteq 1 .. draws /\ draws \in 0 .. MaxDraws
  /\ \A i \in Ids: tokens[i].name \in Names /\ tokens[i].role \in Roles /\ tokens[i].key \in 1 .. draws
                   /\ tokens[i].code \in 0 .. draws /\ tokens[i].expired \in BOOLEAN
  /\ \A c \in Callers: op[c].kind \in {"idle", "insert", "rotate", "code", "rekey"}
  /\ pending \subseteq 1 .. draws /\ batch \subseteq 1 .. draws

(* "The claim code is consumed - single use": however creations, rotations,    *)
(* deletions and new codes are interleaved with it, a code is exchanged for at *)
(* most one credential.                                                        *)
SingleUse == \A g, h \in given: g.code # 0 /\ g.code = h.code => g = h

(* Batching loses no use of a token: of one that was accepted since its        *)
(* last_used was written the id is in the map or in the batch being written,   *)
(* whenever requests come in during a flush, or the write of it failed and     *)
(* was logged; and a loop that has ended has written or logged all but what    *)
(* came after its last flush.                                                  *)
UseIsNoted ==
  /\ touched \subseteq pending \cup batch \cup logged
  /\ loop = "done" => batch = {}
=============================================================================
