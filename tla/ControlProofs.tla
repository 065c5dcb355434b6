---------------------------- MODULE ControlProofs ----------------------------
(***************************************************************************)
(* Proofs about the controller's services as MCControl puts them together, *)
(* from what is proved of each in its own module: for every value of the   *)
(* constants a run gives values to.                                        *)
(***************************************************************************)
EXTENDS MCControl, Integers, FiniteSetTheorems, TLAPS

\* What each service keeps, in the behaviours that are of it.
BusPart  == part = "bus" => Eb!BusInv
HookPart == part = "webhooks" => Wh!OutboxInv /\ Wh!Woken
CronPart ==
  /\ part = "schedule" => Sc!EntryInv
  /\ part = "schedules" => Sd!ScheduleInv
  /\ part = "catchup" => Su!CatchUpInv
ServePart ==
  /\ part = "serve" => Sv!LoopsInv /\ Sv!IdInv
  /\ part = "readonly" => Sf!LoopsInv

\* A behaviour stays one of its component, and takes that component's steps.
LEMMA StepsOfParts ==
  ASSUME [Next]_vars
  PROVE  /\ UNCHANGED part
         /\ part = "bus" => [Eb!Next]_(Eb!vars)
         /\ part = "webhooks" => [Wh!Next]_(Wh!vars)
         /\ part = "schedule" => [Sc!Next]_(Sc!vars)
         /\ part = "schedules" => [Sd!Next]_(Sd!vars)
         /\ part = "catchup" => [Su!Next]_(Su!vars)
         /\ part = "tokens" => [Tk!Next]_(Tk!vars)
         /\ part = "tokenuse" => [Tu!Next]_(Tu!vars)
         /\ part = "rate" => [Ra!Next]_(Ra!vars)
         /\ part = "gate" => [Ga!Next]_(Ga!vars)
         /\ part = "serve" => [Sv!Next]_(Sv!vars)
         /\ part = "readonly" => [Sf!Next]_(Sf!vars)
         /\ part = "settings" => [St!Next]_(St!vars)
         /\ part = "options" => [Op!Next]_(Op!vars)
<1>1. CASE UNCHANGED vars
  BY <1>1 DEF vars, slots, tokenVars, gateVars, settingVars, listVars,
              Eb!vars, Wh!vars, Sc!vars, Sd!vars, Su!vars, Tk!vars, Tu!vars, Ra!vars, Ga!vars,
              Sv!vars, Sf!vars, St!vars, Op!vars
<1>2. CASE Next
  BY <1>2 DEF Next
<1> QED BY <1>1, <1>2

\* The bus keeps its invariant, whatever it is composed with.
LEMMA BusKeeps == ASSUME BusPart, [Next]_vars PROVE BusPart'
<1>1. CASE part = "bus"
  <2>1. Eb!BusInv /\ [Eb!Next]_(Eb!vars) /\ part' = part
    BY <1>1, StepsOfParts DEF BusPart
  <2>2. Eb!BusInv'
    BY <2>1, BusAssumption, Eb!BusKept
  <2> QED BY <2>2 DEF BusPart
<1>2. CASE part # "bus"
  BY <1>2, StepsOfParts DEF BusPart
<1> QED BY <1>1, <1>2

\* The webhook worker keeps its outbox and its wake-ups.
LEMMA HookKeeps == ASSUME HookPart, [Next]_vars PROVE HookPart'
<1>1. CASE part = "webhooks"
  <2>1. Wh!OutboxInv /\ Wh!Woken /\ [Wh!Next]_(Wh!vars) /\ part' = part
    BY <1>1, StepsOfParts DEF HookPart
  <2>2. Wh!OutboxInv'
    BY <2>1, HookAssumption, Wh!OutboxKept
  <2>3. Wh!Woken'
    BY <2>1, <2>2, HookAssumption, Wh!WokenKept
  <2> QED BY <2>2, <2>3 DEF HookPart
<1>2. CASE part # "webhooks"
  BY <1>2, StepsOfParts DEF HookPart
<1> QED BY <1>1, <1>2

\* No event is lost without a trace on its way from a publisher to the clients
\* and the webhooks: the bus never sends on a closed channel and counts what it
\* drops, and an untried delivery has a wake-up coming and a bounded number of
\* posts, for any number of publishers, clients, endpoints and events.
THEOREM AllEventsAreAccounted == Spec => []EventsAreAccounted
<1>1. Init => BusPart /\ HookPart
  <2> SUFFICES ASSUME Init PROVE BusPart /\ HookPart
    OBVIOUS
  <2>1. /\ part = "bus" => Eb!Init
        /\ part = "webhooks" => Wh!Init
    BY DEF Init
  <2>2. BusPart
    BY <2>1, BusAssumption, Eb!BusStarts DEF BusPart
  <2>3. HookPart
    BY <2>1, HookAssumption, Wh!OutboxStarts, Wh!WokenStarts DEF HookPart
  <2> QED BY <2>2, <2>3
<1>2. BusPart /\ HookPart /\ [Next]_vars => (BusPart /\ HookPart)'
  BY BusKeeps, HookKeeps
<1>3. BusPart /\ HookPart => EventsAreAccounted
  <2> SUFFICES ASSUME BusPart, HookPart PROVE EventsAreAccounted
    OBVIOUS
  <2>1. part = "bus" => Eb!NoSendOnClosed /\ Eb!Accounted
    BY Eb!BusPromises DEF BusPart
  <2>2. part = "webhooks" => Wh!NoLostWakeup /\ Wh!PostsBounded
    BY Wh!OutboxBounds, Wh!WokenPromises DEF HookPart
  <2> QED BY <2>1, <2>2 DEF EventsAreAccounted
<1> QED BY <1>1, <1>2, <1>3, PTL DEF Spec

\* Each instance of the scheduler keeps its invariant.
LEMMA CronKeeps == ASSUME CronPart, [Next]_vars PROVE CronPart'
<1>1. part' = part
  BY StepsOfParts
<1>2. ASSUME part = "schedule" PROVE Sc!EntryInv'
  <2>1. Sc!EntryInv /\ [Sc!Next]_(Sc!vars)
    BY <1>2, StepsOfParts DEF CronPart
  <2> QED BY <2>1, Sc!EntryStep
<1>3. ASSUME part = "schedules" PROVE Sd!ScheduleInv'
  <2>1. Sd!ScheduleInv /\ [Sd!Next]_(Sd!vars)
    BY <1>3, StepsOfParts DEF CronPart
  <2>2. \A u, v \in {"u"} : u = v
    OBVIOUS
  <2> QED BY <2>1, <2>2, Sd!ScheduleKept
<1>4. ASSUME part = "catchup" PROVE Su!CatchUpInv'
  <2>1. Su!CatchUpInv /\ [Su!Next]_(Su!vars)
    BY <1>4, StepsOfParts DEF CronPart
  <2>2. Su!Unedited
    BY DEF Su!Unedited, Su!shouldCatchUp
  <2> QED BY <2>1, <2>2, Su!CatchUpKept
<1> QED BY <1>1, <1>2, <1>3, <1>4 DEF CronPart

\* A schedule fires as its row says: cron holds the one entry the scheduler
\* knows of while any number of users edit a one-shot and its gameserver may be
\* deleted; while one user edits at a time it holds none without a row, unless
\* the row went with its gameserver; and a backup missed in any number of
\* crashes is tried before the catch-up is over, as long as every start could
\* list the schedules, whatever else fails.
THEOREM AllSchedulesHold == Spec => []SchedulesHold
<1>1. Init => CronPart
  <2> SUFFICES ASSUME Init PROVE CronPart
    OBVIOUS
  <2>1. /\ part = "schedule" => Sc!Init
        /\ part = "schedules" => Sd!Init
        /\ part = "catchup" => Su!Init
    BY DEF Init
  <2> QED BY <2>1, Sc!EntryStarts, Sd!ScheduleStarts, Su!CatchUpStarts DEF CronPart
<1>2. CronPart /\ [Next]_vars => CronPart'
  BY CronKeeps
<1>3. CronPart => SchedulesHold
  <2>1. Sc!EntryInv => Sc!OneEntry
    BY DEF Sc!EntryInv
  <2>2. Sd!ScheduleInv => Sd!NoOrphanEntry
    BY DEF Sd!ScheduleInv, Sd!Scheduled, Sd!EntryHasRow, Sd!NoOrphanEntry
  <2>3. Su!CatchUpInv => Su!MissedRunsOnStartup
    BY DEF Su!CatchUpInv, Su!CaughtUp, Su!Tried, Su!MissedRunsOnStartup
  <2> QED BY <2>1, <2>2, <2>3 DEF CronPart, SchedulesHold
<1> QED BY <1>1, <1>2, <1>3, PTL DEF Spec

\* Both instances of the process keep what they waited for, and the id.
LEMMA ServeKeeps == ASSUME ServePart, [Next]_vars PROVE ServePart'
<1>1. part' = part
  BY StepsOfParts
<1>2. ASSUME part = "serve" PROVE Sv!LoopsInv' /\ Sv!IdInv'
  <2>1. Sv!LoopsInv /\ Sv!IdInv /\ [Sv!Next]_(Sv!vars)
    BY <1>2, StepsOfParts DEF ServePart
  <2> QED BY <2>1, Sv!LoopsStep, Sv!IdStep
<1>3. ASSUME part = "readonly" PROVE Sf!LoopsInv'
  <2>1. Sf!LoopsInv /\ [Sf!Next]_(Sf!vars)
    BY <1>3, StepsOfParts DEF ServePart
  <2> QED BY <2>1, Sf!LoopsStep
<1> QED BY <1>1, <1>2, <1>3 DEF ServePart

\* Whatever fails in the start-up and wherever the process dies, one that gets to
\* the end of its shutdown has closed its database under no loop, one that a
\* single signal ends earlier has cut off no loop that works on the database
\* file; and with a writable data directory the worker registers with one id for
\* ever.
THEOREM AllShutdownsAreClean == Spec => []CleanShutdown
<1>1. Init => ServePart
  <2> SUFFICES ASSUME Init PROVE ServePart
    OBVIOUS
  <2>1. /\ part = "serve" => Sv!Init
        /\ part = "readonly" => Sf!Init
    BY DEF Init
  <2> QED BY <2>1, Sv!LoopsStart, Sv!IdStarts, Sf!LoopsStart DEF ServePart
<1>2. ServePart /\ [Next]_vars => ServePart'
  BY ServeKeeps
<1>3. ServePart => CleanShutdown
  BY Sv!IdPromises DEF ServePart, CleanShutdown, Sv!LoopsInv, Sf!LoopsInv
<1> QED BY <1>1, <1>2, <1>3, PTL DEF Spec

-----------------------------------------------------------------------------
(* Access: tokens and claim codes, for any number of callers.                *)

\* A use is in the map, in the batch or logged, no other step of the tokens
\* touches those, and the loop ends with an empty batch.
LEMMA UseStaysNoted ==
  ASSUME Tu!UseIsNoted, [Tu!Next]_(Tu!vars) PROVE Tu!UseIsNoted'
<1> USE DEF Tu!UseIsNoted
<1>1. CASE UNCHANGED <<touched, logged, pending, batch, loop>>
  BY <1>1
<1>2. ASSUME NEW g \in given, Tu!ValidateToken(g) PROVE Tu!UseIsNoted'
  BY <1>2 DEF Tu!ValidateToken
<1>3. CASE Tu!FlushTakes \/ Tu!Stop
  BY <1>3 DEF Tu!FlushTakes, Tu!Stop, Tu!Take
<1>4. ASSUME NEW id \in batch, Tu!FlushWrites(id) PROVE Tu!UseIsNoted'
  BY <1>4 DEF Tu!FlushWrites
<1>5. CASE Tu!LoopEnds
  BY <1>5 DEF Tu!LoopEnds
<1>6. ASSUME NEW c \in TokenCallers,
             \/ \E n \in TokenNames : Tu!CreateUserToken(c, n)
             \/ \E n \in TokenNames, role \in TokenRoles : Tu!CreateNamed(c, n, role) \/ Tu!Rotate(c, n, role)
             \/ Tu!RotateDeletes(c) \/ Tu!Insert(c) \/ Tu!CallFails(c) \/ Tu!SetClaimCode(c)
             \/ Tu!RekeyToken(c)
             \/ \E id \in Tu!Ids : \/ Tu!RotateToken(c, id) \/ Tu!DeleteToken(c, id)
                                  \/ Tu!GenerateClaimCode(c, id) \/ Tu!RedeemClaimCode(c, id)
      PROVE  Tu!UseIsNoted'
  <2>1. Tu!UnchangedUse
    BY <1>6 DEF Tu!CreateUserToken, Tu!CreateNamed, Tu!Rotate, Tu!RotateDeletes, Tu!Insert,
                Tu!CallFails, Tu!SetClaimCode, Tu!RekeyToken, Tu!RotateToken, Tu!DeleteToken,
                Tu!GenerateClaimCode, Tu!RedeemClaimCode
  <2> QED BY <1>1, <2>1 DEF Tu!UnchangedUse
<1>7. ASSUME NEW id \in Tu!Ids, Tu!Expire(id) PROVE Tu!UseIsNoted'
  BY <1>1, <1>7 DEF Tu!Expire, Tu!UnchangedUse
<1>8. CASE UNCHANGED Tu!vars
  BY <1>1, <1>8 DEF Tu!vars
<1> QED BY <1>2, <1>3, <1>4, <1>5, <1>6, <1>7, <1>8 DEF Tu!Next

AnyName == TokenNames \cup {""}
AnyRole == {"", "admin", "user", "worker"}
TokenRow == [name : AnyName, role : AnyRole, key : Nat, code : Nat, expired : BOOLEAN]
TokenCall == [kind : {"idle", "insert", "rotate", "code", "rekey"}, name : AnyName,
              role : AnyRole, id : Nat, code : Nat]

TokenTypes ==
  /\ draws \in Nat
  /\ DOMAIN tokens \in SUBSET Nat
  /\ tokens \in [DOMAIN tokens -> TokenRow]
  /\ op \in [TokenCallers -> TokenCall]
  /\ \A g \in given : g.code \in Nat

\* A code is on one row; once a caller is redeeming it, it can only be on the row
\* that the caller will take it from, and once redeemed it is on none.
CodesSound ==
  /\ \A i \in DOMAIN tokens :
       /\ tokens[i].code <= draws
       /\ \A j \in DOMAIN tokens : tokens[i].code # 0 /\ tokens[i].code = tokens[j].code => i = j
       /\ \A g \in given : g.code # 0 => tokens[i].code # g.code
  /\ \A g \in given : g.code <= draws
  /\ \A c \in TokenCallers : op[c].kind = "rekey" =>
       /\ op[c].code # 0 /\ op[c].code <= draws
       /\ \A i \in DOMAIN tokens : tokens[i].code = op[c].code => i = op[c].id
       /\ \A g \in given : g.code # op[c].code
       /\ \A d \in TokenCallers : op[d].kind = "rekey" => d = c

CodeInv == TokenTypes /\ CodesSound /\ Tk!SingleUse

\* A step that takes rows away or leaves the codes as they are, and redeems nothing.
LEMMA CodesStay ==
  ASSUME CodeInv, TokenTypes', UNCHANGED <<draws, given>>,
         DOMAIN tokens' \subseteq DOMAIN tokens,
         \A i \in DOMAIN tokens' : tokens'[i].code = tokens[i].code,
         \A c \in TokenCallers : op'[c] = op[c] \/ op'[c].kind # "rekey"
  PROVE  CodeInv'
<1>1. Tk!SingleUse'
  BY DEF CodeInv, Tk!SingleUse
<1>2. CodesSound'
  BY DEF CodeInv, CodesSound
<1> QED BY <1>1, <1>2 DEF CodeInv

\* What a caller does leaves the calls of the others alone.
LEMMA CallGoesOn ==
  ASSUME TokenTypes, NEW c \in TokenCallers, NEW k \in TokenCall, op' = [op EXCEPT ![c] = k]
  PROVE  op' \in [TokenCallers -> TokenCall] /\ op'[c] = k /\ \A d \in TokenCallers \ {c} : op'[d] = op[d]
BY DEF TokenTypes

\* Rows that go, without those of one set.
LEMMA RowsGo ==
  ASSUME TokenTypes, NEW dead, tokens' = Tk!Without(dead)
  PROVE  /\ DOMAIN tokens' \subseteq DOMAIN tokens
         /\ \A i \in DOMAIN tokens' : tokens'[i] = tokens[i]
         /\ tokens' \in [DOMAIN tokens' -> TokenRow]
         /\ DOMAIN tokens' \in SUBSET Nat
BY DEF TokenTypes, Tk!Without, Tk!Ids

\* The handlers that make, rotate and delete tokens, up to the insert.
LEMMA HandlersKeepCodes ==
  ASSUME CodeInv, NEW c \in TokenCallers,
         \/ \E n \in TokenNames : Tk!CreateUserToken(c, n)
         \/ \E n \in TokenNames, role \in TokenRoles : Tk!CreateNamed(c, n, role) \/ Tk!Rotate(c, n, role)
         \/ Tk!RotateDeletes(c) \/ Tk!CallFails(c)
         \/ \E id \in Tk!Ids : Tk!RotateToken(c, id) \/ Tk!DeleteToken(c, id) \/ Tk!GenerateClaimCode(c, id)
  PROVE  CodeInv'
<1>1. UNCHANGED <<draws, given>>
  BY DEF Tk!CreateUserToken, Tk!CreateNamed, Tk!Rotate, Tk!RotateDeletes, Tk!CallFails,
         Tk!RotateToken, Tk!DeleteToken, Tk!GenerateClaimCode
<1>2. UNCHANGED tokens \/ \E s : tokens' = Tk!Without(s)
  BY DEF Tk!CreateUserToken, Tk!CreateNamed, Tk!Rotate, Tk!RotateDeletes, Tk!CallFails,
         Tk!RotateToken, Tk!DeleteToken, Tk!GenerateClaimCode
<1>3. /\ DOMAIN tokens' \subseteq DOMAIN tokens
      /\ \A i \in DOMAIN tokens' : tokens'[i] = tokens[i]
      /\ tokens' \in [DOMAIN tokens' -> TokenRow]
      /\ DOMAIN tokens' \in SUBSET Nat
  <2>1. CASE UNCHANGED tokens
    BY <2>1 DEF CodeInv, TokenTypes
  <2>2. CASE \E s : tokens' = Tk!Without(s)
    BY <2>2, RowsGo DEF CodeInv
  <2> QED BY <1>2, <2>1, <2>2
<1>4. \E k \in TokenCall : k.kind # "rekey" /\ op' \in {op, [op EXCEPT ![c] = k]}
  <2>0. op[c] \in TokenCall /\ Tk!NoOp \in TokenCall /\ Tk!NoOp.kind = "idle"
    BY DEF CodeInv, TokenTypes, TokenCall, AnyName, AnyRole, Tk!NoOp
  <2>1. ASSUME NEW n \in AnyName, NEW role \in AnyRole, NEW kind \in {"insert", "rotate"}
        PROVE  /\ [Tk!NoOp EXCEPT !.kind = kind, !.name = n, !.role = role] \in TokenCall
               /\ [Tk!NoOp EXCEPT !.kind = kind, !.name = n, !.role = role].kind = kind
    BY DEF TokenCall, Tk!NoOp
  <2>2. CASE \/ \E n \in TokenNames : Tk!CreateUserToken(c, n)
             \/ \E n \in TokenNames, role \in TokenRoles : Tk!CreateNamed(c, n, role) \/ Tk!Rotate(c, n, role)
    <3>1. PICK n \in AnyName, role \in AnyRole :
            op' = [op EXCEPT ![c] = [Tk!NoOp EXCEPT !.kind = "insert", !.name = n, !.role = role]]
      BY <2>2 DEF Tk!CreateUserToken, Tk!CreateNamed, Tk!Rotate, Tk!Enter, AnyName, AnyRole
    <3> QED BY <2>1, <3>1
  <2>3. CASE \E id \in Tk!Ids : Tk!RotateToken(c, id)
    <3>1. PICK n \in AnyName :
            op' = [op EXCEPT ![c] = [Tk!NoOp EXCEPT !.kind = "rotate", !.name = n, !.role = "worker"]]
      BY <2>3 DEF Tk!RotateToken, Tk!Enter, Tk!Ids, CodeInv, TokenTypes, TokenRow
    <3> QED BY <2>1, <3>1 DEF AnyRole
  <2>4. CASE Tk!RotateDeletes(c)
    <3>1. op' = [op EXCEPT ![c] = [op[c] EXCEPT !.kind = "insert"]]
      BY <2>4 DEF Tk!RotateDeletes, Tk!Proceed
    <3>2. [op[c] EXCEPT !.kind = "insert"] \in TokenCall /\ [op[c] EXCEPT !.kind = "insert"].kind = "insert"
      BY <2>0 DEF TokenCall
    <3> QED BY <3>1, <3>2
  <2>5. CASE Tk!CallFails(c)
    BY <2>0, <2>5 DEF Tk!CallFails, Tk!Leave
  <2>6. CASE \E id \in Tk!Ids : Tk!DeleteToken(c, id)
    BY <2>0, <2>6 DEF Tk!DeleteToken
  <2>7. CASE \E id \in Tk!Ids : Tk!GenerateClaimCode(c, id)
    <3>1. PICK id \in Nat : Tk!GenerateClaimCode(c, id)
      BY <2>7 DEF Tk!Ids, CodeInv, TokenTypes
    <3>2. /\ [Tk!NoOp EXCEPT !.kind = "code", !.id = id] \in TokenCall
          /\ [Tk!NoOp EXCEPT !.kind = "code", !.id = id].kind = "code"
      BY DEF TokenCall, AnyName, AnyRole, Tk!NoOp
    <3> QED BY <3>1, <3>2 DEF Tk!GenerateClaimCode, Tk!Enter
  <2> QED BY <2>2, <2>3, <2>4, <2>5, <2>6, <2>7
<1>5. op' \in [TokenCallers -> TokenCall] /\ \A d \in TokenCallers : op'[d] = op[d] \/ op'[d].kind # "rekey"
  BY <1>4, CallGoesOn DEF CodeInv, TokenTypes
<1>6. TokenTypes'
  BY <1>1, <1>3, <1>5 DEF CodeInv, TokenTypes
<1> QED BY <1>1, <1>3, <1>5, <1>6, CodesStay

\* A new row has no code.
LEMMA InsertKeepsCodes == ASSUME CodeInv, NEW c \in TokenCallers, Tk!Insert(c) PROVE CodeInv'
<1>1. PICK d \in Nat : d = draws + 1
  BY DEF CodeInv, TokenTypes
<1>2. PICK r \in TokenRow :
        /\ r.code = 0
        /\ tokens' = [i \in DOMAIN tokens \cup {d} |-> IF i = d THEN r ELSE tokens[i]]
  <2>1. op[c] \in TokenCall
    BY DEF CodeInv, TokenTypes
  <2>2. [name |-> op[c].name, role |-> op[c].role, key |-> d, code |-> 0, expired |-> FALSE] \in TokenRow
    BY <2>1 DEF TokenCall, TokenRow
  <2> QED BY <1>1, <2>2 DEF Tk!Insert, Tk!Ids
<1>3. draws' = d /\ given' = given \cup {[key |-> d, code |-> 0]} /\ op' = [op EXCEPT ![c] = Tk!NoOp]
  BY <1>1 DEF Tk!Insert, Tk!Leave
<1>4. Tk!NoOp \in TokenCall /\ Tk!NoOp.kind = "idle"
  BY DEF TokenCall, AnyName, AnyRole, Tk!NoOp
<1>5. op' \in [TokenCallers -> TokenCall] /\ op'[c].kind = "idle" /\ \A e \in TokenCallers \ {c} : op'[e] = op[e]
  BY <1>3, <1>4, CallGoesOn DEF CodeInv
<1>6. /\ DOMAIN tokens' = DOMAIN tokens \cup {d} /\ tokens' \in [DOMAIN tokens' -> TokenRow]
      /\ tokens'[d].code = 0
      /\ \A i \in DOMAIN tokens' \ {d} : i \in DOMAIN tokens /\ tokens'[i] = tokens[i]
  BY <1>2 DEF CodeInv, TokenTypes
<1>7. \A g \in given' : g \in given \/ g.code = 0
  BY <1>3
<1>8. TokenTypes'
  BY <1>1, <1>3, <1>5, <1>6, <1>7 DEF CodeInv, TokenTypes
<1>9. CodesSound'
  <2>1. \A i \in DOMAIN tokens' : tokens'[i].code \in Nat /\ tokens'[i].code <= d
    BY <1>1, <1>6 DEF CodeInv, TokenTypes, CodesSound, TokenRow
  <2>2. \A g \in given' : g.code <= d
    BY <1>1, <1>7 DEF CodeInv, TokenTypes, CodesSound
  <2>3. ASSUME NEW e \in TokenCallers, op'[e].kind = "rekey"
        PROVE  /\ op[e].kind = "rekey" /\ op'[e] = op[e] /\ e # c
               /\ op[e].code \in Nat /\ op[e].code # 0 /\ op[e].code <= d
    BY <1>1, <1>5, <2>3 DEF CodeInv, TokenTypes, CodesSound, TokenCall
  <2>4. ASSUME NEW i \in DOMAIN tokens'
        PROVE  /\ \A j \in DOMAIN tokens' : tokens'[i].code # 0 /\ tokens'[i].code = tokens'[j].code => i = j
               /\ \A g \in given' : g.code # 0 => tokens'[i].code # g.code
    BY <1>6, <1>7 DEF CodeInv, CodesSound
  <2>5. ASSUME NEW e \in TokenCallers, op'[e].kind = "rekey"
        PROVE  /\ \A i \in DOMAIN tokens' : tokens'[i].code = op'[e].code => i = op'[e].id
               /\ \A g \in given' : g.code # op'[e].code
               /\ \A f \in TokenCallers : op'[f].kind = "rekey" => f = e
    BY <1>6, <1>7, <2>3, <2>5 DEF CodeInv, CodesSound
  <2> QED BY <1>3, <2>1, <2>2, <2>3, <2>4, <2>5 DEF CodesSound
<1>10. Tk!SingleUse'
  BY <1>7 DEF CodeInv, Tk!SingleUse
<1> QED BY <1>8, <1>9, <1>10 DEF CodeInv

\* A new code is on one row at most.
LEMMA NewCodeIsFresh == ASSUME CodeInv, NEW c \in TokenCallers, Tk!SetClaimCode(c) PROVE CodeInv'
<1>1. PICK d \in Nat : d = draws + 1
  BY DEF CodeInv, TokenTypes
<1>2. PICK at : at = op[c].id
  OBVIOUS
<1>3. /\ draws' = d /\ UNCHANGED given /\ op' = [op EXCEPT ![c] = Tk!NoOp]
      /\ tokens' = IF at \in DOMAIN tokens THEN [tokens EXCEPT ![at].code = d] ELSE tokens
  BY <1>1, <1>2 DEF Tk!SetClaimCode, Tk!Leave, Tk!Ids
<1>4. Tk!NoOp \in TokenCall /\ Tk!NoOp.kind = "idle"
  BY DEF TokenCall, AnyName, AnyRole, Tk!NoOp
<1>5. op' \in [TokenCallers -> TokenCall] /\ op'[c].kind = "idle" /\ \A e \in TokenCallers \ {c} : op'[e] = op[e]
  BY <1>3, <1>4, CallGoesOn DEF CodeInv
<1>6. /\ DOMAIN tokens' = DOMAIN tokens /\ tokens' \in [DOMAIN tokens' -> TokenRow]
      /\ \A i \in DOMAIN tokens : IF i = at THEN tokens'[i].code = d ELSE tokens'[i] = tokens[i]
  <2>1. CASE at \notin DOMAIN tokens
    BY <1>3, <2>1 DEF CodeInv, TokenTypes
  <2>2. CASE at \in DOMAIN tokens
    <3>1. [tokens[at] EXCEPT !.code = d] \in TokenRow /\ [tokens[at] EXCEPT !.code = d].code = d
      BY <2>2 DEF CodeInv, TokenTypes, TokenRow
    <3>2. tokens' = [tokens EXCEPT ![at] = [tokens[at] EXCEPT !.code = d]]
      BY <1>3, <2>2
    <3> QED BY <2>2, <3>1, <3>2 DEF CodeInv, TokenTypes
  <2> QED BY <2>1, <2>2
<1>7. TokenTypes'
  BY <1>3, <1>5, <1>6 DEF CodeInv, TokenTypes
<1>8. CodesSound'
  <2>1. \A i \in DOMAIN tokens : tokens[i].code \in Nat /\ tokens[i].code < d
    BY <1>1 DEF CodeInv, TokenTypes, CodesSound, TokenRow
  <2>2. \A g \in given : g.code \in Nat /\ g.code < d
    BY <1>1 DEF CodeInv, TokenTypes, CodesSound
  <2>3. ASSUME NEW e \in TokenCallers, op'[e].kind = "rekey"
        PROVE  /\ op[e].kind = "rekey" /\ op'[e] = op[e] /\ e # c
               /\ op[e].code \in Nat /\ op[e].code # 0 /\ op[e].code < d
    BY <1>1, <1>5, <2>3 DEF CodeInv, TokenTypes, CodesSound, TokenCall
  <2>4. ASSUME NEW i \in DOMAIN tokens'
        PROVE  /\ tokens'[i].code <= d
               /\ \A j \in DOMAIN tokens' : tokens'[i].code # 0 /\ tokens'[i].code = tokens'[j].code => i = j
               /\ \A g \in given : g.code # 0 => tokens'[i].code # g.code
    <3>1. CASE i = at
      BY <1>6, <2>1, <2>2, <3>1
    <3>2. CASE i # at
      <4>1. tokens'[i] = tokens[i] /\ i \in DOMAIN tokens /\ tokens[i].code < d /\ tokens[i].code \in Nat
        BY <1>6, <2>1, <3>2
      <4>2. ASSUME NEW j \in DOMAIN tokens', tokens'[i].code # 0, tokens'[i].code = tokens'[j].code
            PROVE  i = j
        <5>1. j # at
          BY <1>6, <4>1, <4>2
        <5>2. j \in DOMAIN tokens /\ tokens'[j] = tokens[j]
          BY <1>6, <5>1
        <5> QED BY <4>1, <4>2, <5>2 DEF CodeInv, CodesSound
      <4> QED BY <4>1, <4>2 DEF CodeInv, CodesSound
    <3> QED BY <3>1, <3>2
  <2>5. ASSUME NEW e \in TokenCallers, op'[e].kind = "rekey"
        PROVE  /\ \A i \in DOMAIN tokens' : tokens'[i].code = op'[e].code => i = op'[e].id
               /\ \A g \in given : g.code # op'[e].code
               /\ \A f \in TokenCallers : op'[f].kind = "rekey" => f = e
    <3>1. ASSUME NEW i \in DOMAIN tokens', tokens'[i].code = op'[e].code PROVE i = op'[e].id
      <4>1. i # at
        BY <1>6, <2>3, <2>5, <3>1
      <4>2. i \in DOMAIN tokens /\ tokens'[i] = tokens[i]
        BY <1>6, <4>1
      <4> QED BY <2>3, <2>5, <3>1, <4>2 DEF CodeInv, CodesSound
    <3>2. \A f \in TokenCallers : op'[f].kind = "rekey" => f = e
      BY <2>3, <2>5 DEF CodeInv, CodesSound
    <3>3. \A g \in given : g.code # op'[e].code
      BY <2>3, <2>5 DEF CodeInv, CodesSound
    <3> QED BY <3>1, <3>2, <3>3
  <2>6. d = draws' /\ given' = given
    BY <1>3
  <2>7. \A g \in given : g.code <= d
    BY <2>2
  <2>8. \A e \in TokenCallers : op'[e].kind = "rekey" => op'[e].code # 0 /\ op'[e].code <= d
    BY <2>3
  <2> QED BY <2>4, <2>5, <2>6, <2>7, <2>8 DEF CodesSound
<1>9. Tk!SingleUse'
  BY <1>3 DEF CodeInv, Tk!SingleUse
<1> QED BY <1>7, <1>8, <1>9 DEF CodeInv

\* The one redeemer finds the code on its row, and on no other.
LEMMA RedeemKeepsCodes ==
  ASSUME CodeInv, NEW c \in TokenCallers, NEW id \in Tk!Ids, Tk!RedeemClaimCode(c, id)
  PROVE  CodeInv'
<1>1. PICK code \in Nat : code = tokens[id].code
  BY DEF CodeInv, TokenTypes, TokenRow, Tk!Ids
<1>2. PICK k \in TokenCall :
        op' = [op EXCEPT ![c] = k] /\ k.kind = "rekey" /\ k.id = id /\ k.code = code
  <2>1. op' = [op EXCEPT ![c] = [Tk!NoOp EXCEPT !.kind = "rekey", !.id = id, !.code = code]]
    BY <1>1 DEF Tk!RedeemClaimCode, Tk!Enter
  <2>2. id \in Nat
    BY DEF Tk!Ids, CodeInv, TokenTypes
  <2>3. Tk!NoOp \in TokenCall
    BY DEF TokenCall, AnyName, AnyRole, Tk!NoOp
  <2>4. PICK k \in TokenCall : k = [Tk!NoOp EXCEPT !.kind = "rekey", !.id = id, !.code = code]
    BY <2>2, <2>3 DEF TokenCall
  <2>5. k.kind = "rekey" /\ k.id = id /\ k.code = code
    BY <2>3, <2>4 DEF TokenCall
  <2> QED BY <2>1, <2>4, <2>5
<1>3. op' \in [TokenCallers -> TokenCall] /\ op'[c] = k /\ \A e \in TokenCallers \ {c} : op'[e] = op[e]
  BY <1>2, CallGoesOn DEF CodeInv
<1>4. UNCHANGED <<tokens, draws, given>> /\ code # 0 /\ id \in DOMAIN tokens
      /\ \A e \in TokenCallers : op[e].kind # "rekey"
  BY <1>1 DEF Tk!RedeemClaimCode, Tk!Ids
<1>5. TokenTypes' /\ Tk!SingleUse'
  BY <1>3, <1>4 DEF CodeInv, TokenTypes, Tk!SingleUse
<1>6. \A e \in TokenCallers : op'[e].kind = "rekey" => e = c
  BY <1>3, <1>4
<1>7. /\ code <= draws /\ \A i \in DOMAIN tokens : tokens[i].code = code => i = id
      /\ \A g \in given : g.code # code
  BY <1>1, <1>4 DEF CodeInv, CodesSound
<1>8. CodesSound'
  BY <1>2, <1>3, <1>4, <1>6, <1>7 DEF CodeInv, CodesSound
<1> QED BY <1>5, <1>8 DEF CodeInv

\* The row is given the new key and loses whatever code it has by now.
LEMMA RekeyKeepsCodes == ASSUME CodeInv, NEW c \in TokenCallers, Tk!RekeyToken(c) PROVE CodeInv'
<1>1. PICK d \in Nat : d = draws + 1
  BY DEF CodeInv, TokenTypes
<1>2. PICK at, code : at = op[c].id /\ code = op[c].code
  OBVIOUS
<1>3. /\ draws' = d /\ given' = given \cup {[key |-> d, code |-> code]} /\ op' = [op EXCEPT ![c] = Tk!NoOp]
      /\ tokens' = IF at \in DOMAIN tokens THEN [tokens EXCEPT ![at].key = d, ![at].code = 0] ELSE tokens
  BY <1>1, <1>2 DEF Tk!RekeyToken, Tk!Leave, Tk!Ids
<1>4. Tk!NoOp \in TokenCall /\ Tk!NoOp.kind = "idle"
  BY DEF TokenCall, AnyName, AnyRole, Tk!NoOp
<1>5. op' \in [TokenCallers -> TokenCall] /\ op'[c].kind = "idle" /\ \A e \in TokenCallers \ {c} : op'[e] = op[e]
  BY <1>3, <1>4, CallGoesOn DEF CodeInv
<1>6. /\ code \in Nat /\ code # 0 /\ code <= draws
      /\ \A i \in DOMAIN tokens : tokens[i].code = code => i = at
      /\ \A g \in given : g.code # code
      /\ \A e \in TokenCallers \ {c} : op[e].kind # "rekey"
  BY <1>2 DEF Tk!RekeyToken, CodeInv, CodesSound, TokenTypes, TokenCall
<1>7. /\ DOMAIN tokens' = DOMAIN tokens /\ tokens' \in [DOMAIN tokens' -> TokenRow]
      /\ \A i \in DOMAIN tokens : IF i = at THEN tokens'[i].code = 0 ELSE tokens'[i] = tokens[i]
  <2>1. CASE at \notin DOMAIN tokens
    BY <1>3, <2>1 DEF CodeInv, TokenTypes
  <2>2. CASE at \in DOMAIN tokens
    <3>1. /\ [tokens[at] EXCEPT !.key = d, !.code = 0] \in TokenRow
          /\ [tokens[at] EXCEPT !.key = d, !.code = 0].code = 0
      BY <2>2 DEF CodeInv, TokenTypes, TokenRow
    <3>2. tokens' = [tokens EXCEPT ![at] = [tokens[at] EXCEPT !.key = d, !.code = 0]]
      BY <1>3, <2>2
    <3> QED BY <2>2, <3>1, <3>2 DEF CodeInv, TokenTypes
  <2> QED BY <2>1, <2>2
<1>8. \A i \in DOMAIN tokens' :
        /\ i \in DOMAIN tokens /\ tokens'[i].code # code
        /\ tokens'[i].code # 0 => tokens'[i] = tokens[i]
        /\ tokens'[i].code \in Nat /\ tokens'[i].code <= d
  BY <1>1, <1>6, <1>7 DEF CodeInv, TokenTypes, CodesSound, TokenRow
<1>9. \A e \in TokenCallers : op'[e].kind # "rekey"
  BY <1>5, <1>6
<1>10. \A g \in given' : g \in given \/ g = [key |-> d, code |-> code]
  BY <1>3
<1>11. TokenTypes'
  BY <1>3, <1>5, <1>6, <1>7 DEF CodeInv, TokenTypes
<1>12. CodesSound'
  <2>1. \A g \in given' : g.code <= d
    BY <1>1, <1>6, <1>10 DEF CodeInv, TokenTypes, CodesSound
  <2>2. ASSUME NEW i \in DOMAIN tokens'
        PROVE  /\ \A j \in DOMAIN tokens' : tokens'[i].code # 0 /\ tokens'[i].code = tokens'[j].code => i = j
               /\ \A g \in given' : g.code # 0 => tokens'[i].code # g.code
    BY <1>8, <1>10 DEF CodeInv, CodesSound
  <2> QED BY <1>3, <1>8, <1>9, <2>1, <2>2 DEF CodesSound
<1>13. Tk!SingleUse'
  BY <1>6, <1>10 DEF CodeInv, Tk!SingleUse
<1> QED BY <1>11, <1>12, <1>13 DEF CodeInv

\* No code has been exchanged when there is none.
LEMMA CodesStart == ASSUME Tk!Init PROVE CodeInv
<1>1. Tk!NoOp \in TokenCall /\ Tk!NoOp.kind = "idle"
  BY DEF TokenCall, AnyName, AnyRole, Tk!NoOp
<1>2. DOMAIN tokens = {} /\ tokens \in [DOMAIN tokens -> TokenRow]
  BY DEF Tk!Init
<1>3. op = [c \in TokenCallers |-> Tk!NoOp] /\ given = {} /\ draws = 0
  BY DEF Tk!Init
<1>4. TokenTypes
  BY <1>1, <1>2, <1>3 DEF TokenTypes
<1> QED BY <1>1, <1>2, <1>3, <1>4 DEF CodeInv, CodesSound, Tk!SingleUse

\* Every step of the tokens keeps the codes sound.
LEMMA CodesKept == ASSUME CodeInv, [Tk!Next]_(Tk!vars) PROVE CodeInv'
<1>1. CASE UNCHANGED <<tokens, op, draws, given>>
  BY <1>1 DEF CodeInv, TokenTypes, CodesSound, Tk!SingleUse
<1>2. ASSUME NEW id \in Tk!Ids, Tk!Expire(id) PROVE CodeInv'
  <2>1. UNCHANGED <<op, draws, given>> /\ tokens' = [tokens EXCEPT ![id].expired = TRUE]
    BY <1>2 DEF Tk!Expire
  <2>2. [tokens[id] EXCEPT !.expired = TRUE] \in TokenRow
        /\ [tokens[id] EXCEPT !.expired = TRUE].code = tokens[id].code
    BY DEF Tk!Ids, CodeInv, TokenTypes, TokenRow
  <2>3. tokens' = [tokens EXCEPT ![id] = [tokens[id] EXCEPT !.expired = TRUE]]
    BY <2>1
  <2>4. /\ DOMAIN tokens' = DOMAIN tokens /\ tokens' \in [DOMAIN tokens' -> TokenRow]
        /\ \A i \in DOMAIN tokens' : tokens'[i].code = tokens[i].code
    BY <2>2, <2>3 DEF Tk!Ids, CodeInv, TokenTypes
  <2>5. TokenTypes'
    BY <2>1, <2>4 DEF CodeInv, TokenTypes
  <2> QED BY <2>1, <2>4, <2>5, CodesStay
<1>3. CASE \/ \E g \in given : Tk!ValidateToken(g)
           \/ Tk!FlushTakes \/ \E id \in batch : Tk!FlushWrites(id)
           \/ Tk!Stop \/ Tk!LoopEnds \/ UNCHANGED Tk!vars
  BY <1>1, <1>3 DEF Tk!ValidateToken, Tk!FlushTakes, Tk!FlushWrites, Tk!Stop, Tk!LoopEnds, Tk!vars
<1> QED BY <1>2, <1>3, HandlersKeepCodes, InsertKeepsCodes, NewCodeIsFresh, RedeemKeepsCodes,
           RekeyKeepsCodes DEF Tk!Next

-----------------------------------------------------------------------------
(* Access: the rate limit, for any number of requests and any bucket.        *)

GatePcs == {"idle", "create", "allow", "auth", "permission", "serve"}
Claims  == [pc : GatePcs, route : Routes \cup {"none", "access"}, lim : Nat, rate : Nat,
            known : BOOLEAN, hadAuth : BOOLEAN, hadRight : BOOLEAN]

Made     == Cardinality(DOMAIN bucket)
Flying   == Cardinality(Requests)
Creating == {r \in Requests : req[r].pc = "create"}
Stale    == {r \in Requests : req[r].pc = "allow" /\ req[r].lim # limiter}

RateTypes ==
  /\ req \in [Requests -> Claims]
  /\ Made \in Nat /\ DOMAIN bucket = 1 .. Made /\ bucket \in [1 .. Made -> 0 .. Burst]
  /\ limiter \in 0 .. Made
  /\ \A r \in Requests : req[r].pc = "allow" => req[r].lim \in 1 .. Made
  /\ admitted \in Nat /\ ticks \in Nat /\ cleaned \in Nat
  /\ turns \in Nat /\ renewed \in Nat

\* What has been admitted and still can be without a tick: the stored limiter's
\* tokens and, for every limiter made, the requests that were left holding it.
Spent(stale) == admitted + stale <= ticks + Made * (Burst + Flying)
InUse(stale) == admitted + bucket[limiter] + stale + Flying <= ticks + Made * (Burst + Flying)

\* The limiters that the first requests, those after a sweep and those that found
\* one for another rate may make.
Room == (1 + cleaned) * Flying + renewed

RateInv ==
  /\ RateTypes
  /\ sweep => limiter # 0
  /\ limiter = 0 => /\ Made + Flying <= Room
                    /\ Spent(Cardinality(Stale))
  /\ limiter # 0 => /\ Made + Cardinality(Creating) <= Room
                    /\ InUse(Cardinality(Stale))

\* Some of the requests are a number of them.
LEMMA SomeRequests ==
  ASSUME NEW S \in SUBSET Requests
  PROVE  IsFiniteSet(S) /\ Cardinality(S) \in Nat /\ Cardinality(S) <= Flying /\ Flying \in Nat
BY GateAssumption, FS_Subset, FS_CardinalityType DEF Flying

\* The room for one more limiter.
LEMMA OneMore ==
  ASSUME NEW a \in Nat, NEW b \in Nat PROVE (a + 1) * b = a * b + b /\ a * b \in Nat
BY SMT

\* As many limiters as were made give at most what as many as may be made would.
LEMMA FewerGiveLess ==
  ASSUME NEW a \in Nat, NEW b \in Nat, NEW k \in Nat, a <= b PROVE a * k <= b * k
<1>1. PICK c \in Nat : b = a + c
  <2>1. b - a \in Nat /\ b = a + (b - a)
    OBVIOUS
  <2> QED BY <2>1
<1>2. b * k = a * k + c * k /\ c * k \in Nat /\ a * k \in Nat
  BY <1>1, SMT
<1> QED BY <1>2, SMT

\* The room is a number.
LEMMA RoomIsANumber == ASSUME RateTypes PROVE Room \in Nat
<1>1. Flying \in Nat
  BY SomeRequests
<1>2. (1 + cleaned) * Flying \in Nat
  BY <1>1, OneMore DEF RateTypes
<1> QED BY <1>2 DEF RateTypes, Room

\* Where one request goes, and what it carries.
LEMMA ClaimMoves ==
  ASSUME RateTypes, NEW r \in Requests, NEW q \in Claims, req' = [req EXCEPT ![r] = q]
  PROVE  /\ req' \in [Requests -> Claims] /\ req'[r] = q
         /\ \A o \in Requests : o # r => req'[o] = req[o]
BY DEF RateTypes

\* What is noted of a request is nothing of where it is.
LEMMA NotedStays ==
  ASSUME NEW q \in Claims, NEW on, NEW t
  PROVE  /\ Ra!Noted(q, on, t) \in Claims
         /\ Ra!Noted(q, on, t).pc = q.pc /\ Ra!Noted(q, on, t).lim = q.lim
BY DEF Ra!Noted, Claims

\* The counts of a state whose bucket has the limiters of the one before.
LEMMA CountsKept ==
  ASSUME RateInv, RateTypes', Made' = Made, UNCHANGED <<limiter, cleaned, renewed>>,
         sweep' => limiter # 0, Cardinality(Creating') <= Cardinality(Creating),
         limiter = 0 => admitted' + Cardinality(Stale') - ticks' <= admitted + Cardinality(Stale) - ticks,
         limiter # 0 => admitted' + bucket'[limiter] + Cardinality(Stale') - ticks'
                          <= admitted + bucket[limiter] + Cardinality(Stale) - ticks
  PROVE  RateInv'
<1> DEFINE K == Made * (Burst + Flying)
<1>1. /\ Cardinality(Stale) \in Nat /\ Cardinality(Stale') \in Nat /\ Flying \in Nat
      /\ Cardinality(Creating) \in Nat /\ Cardinality(Creating') \in Nat
  BY SomeRequests DEF Stale, Creating
<1>2. K \in Nat /\ Room \in Nat
  <2>1. Made \in Nat /\ Burst + Flying \in Nat
    BY <1>1, GateAssumption DEF RateInv, RateTypes
  <2>2. K \in Nat
    BY <2>1, OneMore
  <2> QED BY <2>2, RoomIsANumber DEF RateInv
<1>3. /\ admitted \in Nat /\ admitted' \in Nat /\ ticks \in Nat /\ ticks' \in Nat /\ Made \in Nat
      /\ limiter # 0 => bucket[limiter] \in Nat /\ bucket'[limiter] \in Nat
  BY GateAssumption DEF RateInv, RateTypes
<1>4. Flying' = Flying /\ Room' = Room
  BY DEF Flying, Room
<1> QED BY <1>1, <1>2, <1>3, <1>4 DEF RateInv, Spent, InUse

\* The same when nothing is admitted.
LEMMA CountsMeet ==
  ASSUME RateInv, RateTypes', Made' = Made, UNCHANGED <<limiter, bucket, admitted, ticks, cleaned, renewed>>,
         sweep' => limiter # 0, Cardinality(Creating') <= Cardinality(Creating),
         Cardinality(Stale') <= Cardinality(Stale)
  PROVE  RateInv'
<1>1. /\ Cardinality(Stale) \in Nat /\ Cardinality(Stale') \in Nat
      /\ admitted \in Nat /\ ticks \in Nat /\ (limiter # 0 => bucket[limiter] \in Nat)
  BY SomeRequests, GateAssumption DEF Stale, RateInv, RateTypes
<1>2. admitted' + Cardinality(Stale') - ticks' <= admitted + Cardinality(Stale) - ticks
  BY <1>1
<1>3. limiter # 0 => admitted' + bucket'[limiter] + Cardinality(Stale') - ticks'
                        <= admitted + bucket[limiter] + Cardinality(Stale) - ticks
  BY <1>1
<1> QED BY <1>2, <1>3, CountsKept

\* A request looks the limiter up.
LEMMA ArriveKeepsRate ==
  ASSUME RateInv, NEW r \in Requests, NEW route \in {"access"}, Ra!Arrive(r, route) PROVE RateInv'
<1> DEFINE fits == limiter # 0 /\ rated = Ra!rate
           at == IF fits THEN "allow" ELSE "create"
           q  == [Ra!Idle EXCEPT !.pc = at, !.route = route, !.lim = limiter, !.rate = Ra!rate]
<1>1. /\ req[r].pc = "idle" /\ req' = [req EXCEPT ![r] = Ra!Noted(q, authOn, token)]
      /\ UNCHANGED <<limiter, bucket, sweep, admitted, ticks, cleaned, turns>>
      /\ renewed' = IF limiter # 0 /\ at = "create" THEN renewed + 1 ELSE renewed
  BY DEF Ra!Arrive, Ra!Idle
<1>2. q \in Claims /\ q.pc = at /\ q.lim = limiter
  <2>1. limiter \in Nat /\ Ra!rate \in Nat
    BY DEF RateInv, RateTypes, Ra!rate
  <2> QED BY <2>1 DEF Claims, GatePcs, Ra!Idle
<1>3. PICK x \in Claims : x.pc = at /\ x.lim = limiter /\ req' = [req EXCEPT ![r] = x]
  <2> HIDE DEF q, at
  <2>1. /\ Ra!Noted(q, authOn, token) \in Claims /\ Ra!Noted(q, authOn, token).pc = at
        /\ Ra!Noted(q, authOn, token).lim = limiter
    BY <1>2, NotedStays
  <2> QED BY <1>1, <2>1
<1>4. /\ req' \in [Requests -> Claims] /\ req'[r].pc = at /\ req'[r].lim = limiter
      /\ \A o \in Requests : o # r => req'[o] = req[o]
  BY <1>3, ClaimMoves DEF RateInv
<1>5. RateTypes' /\ Made' = Made
  <2>1. Made' = Made /\ renewed' \in Nat
    BY <1>1 DEF RateInv, RateTypes, Made
  <2>2. at = "allow" => limiter # 0
    OBVIOUS
  <2> HIDE DEF at, q
  <2> QED BY <1>1, <1>4, <2>1, <2>2 DEF RateInv, RateTypes
<1>6. Stale' = Stale
  BY <1>1, <1>4 DEF Stale
<1>7. CASE fits
  <2>1. Creating' = Creating /\ renewed' = renewed
    BY <1>1, <1>4, <1>7 DEF Creating
  <2>2. Cardinality(Stale) \in Nat /\ Cardinality(Creating) \in Nat /\ bucket[limiter] \in Nat
        /\ admitted \in Nat /\ ticks \in Nat
    BY <1>7, SomeRequests, GateAssumption DEF Stale, Creating, RateInv, RateTypes
  <2>3. (sweep' => limiter # 0) /\ Cardinality(Creating') <= Cardinality(Creating)
        /\ Cardinality(Stale') <= Cardinality(Stale)
    BY <1>6, <1>7, <2>1, <2>2
  <2> QED BY <1>1, <1>5, <2>1, <2>2, <2>3, CountsMeet
<1>8. CASE limiter = 0
  BY <1>1, <1>5, <1>6, <1>8 DEF RateInv, Spent, InUse, Made, Flying, Room
<1>9. CASE limiter # 0 /\ ~fits
  <2>1. /\ Creating' = Creating \cup {r} /\ r \notin Creating /\ renewed' = renewed + 1
        /\ IsFiniteSet(Creating) /\ Cardinality(Creating) \in Nat
    BY <1>1, <1>4, <1>9, SomeRequests DEF Creating
  <2>2. Cardinality(Creating') = Cardinality(Creating) + 1
    BY <2>1, FS_AddElement
  <2>3. PICK m \in Nat : m = (1 + cleaned) * Flying
    <3>1. Flying \in Nat
      BY SomeRequests
    <3> QED BY <3>1, OneMore DEF RateInv, RateTypes
  <2>4. Made + Cardinality(Creating) <= m + renewed
    BY <1>9, <2>3 DEF RateInv, Room
  <2>5. Flying' = Flying /\ cleaned' = cleaned /\ renewed \in Nat /\ Made \in Nat
    BY <1>1 DEF Flying, RateInv, RateTypes
  <2>8. Room' = m + (renewed + 1)
    BY <2>1, <2>3, <2>5 DEF Room
  <2>6. Made' + Cardinality(Creating') <= Room'
    BY <1>5, <2>1, <2>2, <2>4, <2>5, <2>8
  <2>7. InUse(Cardinality(Stale))'
    BY <1>1, <1>5, <1>6, <1>9 DEF RateInv, InUse, Flying
  <2> QED BY <1>1, <1>5, <1>9, <2>6, <2>7 DEF RateInv
<1> QED BY <1>7, <1>8, <1>9

\* A new limiter is stored, over none or over another.
LEMMA CreateKeepsRate ==
  ASSUME RateInv, NEW r \in Requests, Ra!CreateLimiter(r) PROVE RateInv'
<1> DEFINE l == Made + 1
<1>1. Ra!Cardinality(DOMAIN bucket) = Made
  BY DEF Made, Cardinality, Ra!Cardinality
<1>2. /\ req[r].pc = "create" /\ limiter' = l
      /\ bucket' = [i \in 1 .. l |-> IF i = l THEN Burst ELSE bucket[i]]
      /\ req' = [req EXCEPT ![r] = [req[r] EXCEPT !.pc = "allow", !.lim = l]]
      /\ UNCHANGED <<sweep, admitted, ticks, cleaned, turns, renewed>>
  BY <1>1 DEF Ra!CreateLimiter
<1>3. Made \in Nat /\ DOMAIN bucket' = 1 .. l /\ Made' = l
  <2>1. Made \in Nat
    BY DEF RateInv, RateTypes
  <2>2. DOMAIN bucket' = 1 .. l
    BY <1>2
  <2>3. Cardinality(1 .. l) = l
    BY <2>1, FS_Interval
  <2>4. Made' = Cardinality(DOMAIN bucket')
    BY DEF Made
  <2> QED BY <2>1, <2>2, <2>3, <2>4
<1>4. /\ [req[r] EXCEPT !.pc = "allow", !.lim = l] \in Claims
      /\ [req[r] EXCEPT !.pc = "allow", !.lim = l].pc = "allow"
      /\ [req[r] EXCEPT !.pc = "allow", !.lim = l].lim = l
  <2>1. req[r] \in Claims /\ l \in Nat
    BY <1>3 DEF RateInv, RateTypes
  <2> QED BY <2>1 DEF Claims, GatePcs
<1>5. /\ req' \in [Requests -> Claims] /\ req'[r].pc = "allow" /\ req'[r].lim = l
      /\ \A o \in Requests : o # r => req'[o] = req[o]
  BY <1>2, <1>4, ClaimMoves DEF RateInv
<1>6. bucket' \in [1 .. l -> 0 .. Burst] /\ bucket'[limiter'] = Burst /\ limiter' # 0
  BY <1>2, <1>3, GateAssumption DEF RateInv, RateTypes
<1>7. RateTypes'
  BY <1>2, <1>3, <1>5, <1>6 DEF RateInv, RateTypes
<1>8. Creating' = Creating \ {r} /\ r \in Creating
  BY <1>2, <1>5 DEF Creating
<1>9. Cardinality(Creating') = Cardinality(Creating) - 1 /\ Cardinality(Creating) \in Nat
      /\ Cardinality(Creating) <= Flying
  BY <1>8, SomeRequests, FS_RemoveElement DEF Creating
<1>10. limiter = 0 => Stale' = Stale
  BY <1>2, <1>3, <1>5 DEF RateInv, RateTypes, Stale
<1>11. /\ Cardinality(Stale) \in Nat /\ Cardinality(Stale') \in Nat /\ Cardinality(Stale') <= Flying
       /\ Flying \in Nat /\ Flying' = Flying
  BY SomeRequests DEF Stale, Flying
<1>12. /\ Made' * (Burst + Flying) = Made * (Burst + Flying) + Burst + Flying
       /\ Made * (Burst + Flying) \in Nat
  BY <1>3, <1>11, OneMore, GateAssumption
<1>13. Made' + Cardinality(Creating') <= Room' /\ Room' = Room
  <2>1. PICK m \in Nat : m = Room /\ m = Room'
    BY <1>2, <1>11, RoomIsANumber DEF RateInv, Room
  <2> QED BY <1>3, <1>9, <1>11, <2>1 DEF RateInv
<1>14. InUse(Cardinality(Stale))'
  <2>1. PICK m \in Nat : m = Made * (Burst + Flying)
    BY <1>12
  <2>2. admitted \in Nat /\ ticks \in Nat /\ Burst \in Nat /\ (limiter # 0 => bucket[limiter] \in Nat)
    BY GateAssumption DEF RateInv, RateTypes
  <2>3. ASSUME limiter = 0 PROVE admitted + Cardinality(Stale') <= ticks + m
    <3>1. admitted + Cardinality(Stale') <= ticks + m
      BY <1>10, <2>1, <2>3 DEF RateInv, Spent
    <3> QED BY <1>11, <2>1, <2>2, <3>1
  <2>4. ASSUME limiter # 0 PROVE admitted + Cardinality(Stale') <= ticks + m
    <3>1. admitted + bucket[limiter] + Cardinality(Stale) + Flying <= ticks + m
          /\ bucket[limiter] \in Nat
      BY <2>1, <2>4, GateAssumption DEF RateInv, RateTypes, InUse
    <3> QED BY <1>11, <2>1, <2>2, <3>1
  <2>5. admitted + Burst + Cardinality(Stale') + Flying <= ticks + (m + Burst + Flying)
    BY <1>11, <2>1, <2>2, <2>3, <2>4
  <2> QED BY <1>2, <1>6, <1>11, <1>12, <2>1, <2>5 DEF InUse
<1> QED BY <1>2, <1>6, <1>7, <1>11, <1>13, <1>14 DEF RateInv

\* A token is taken of the limiter the request holds, stored or not.
LEMMA PerIPKeepsRate == ASSUME RateInv, NEW r \in Requests, Ra!PerIP(r) PROVE RateInv'
<1> DEFINE l == req[r].lim
<1>1. /\ req[r].pc = "allow" /\ l \in 1 .. Made /\ r \in Requests
      /\ UNCHANGED <<limiter, sweep, ticks, cleaned, turns, renewed>>
  BY DEF Ra!PerIP, Ra!rates, RateInv, RateTypes
<1>2. /\ Cardinality(Stale) \in Nat /\ Cardinality(Creating) \in Nat /\ IsFiniteSet(Stale)
      /\ admitted \in Nat /\ ticks \in Nat /\ (limiter # 0 => bucket[limiter] \in Nat)
  BY SomeRequests, GateAssumption DEF Stale, Creating, RateInv, RateTypes
<1>3. \E x \in Claims : x.pc \notin {"create", "allow"} /\ req' = [req EXCEPT ![r] = x]
  <2>1. [req[r] EXCEPT !.pc = "auth"] \in Claims /\ [req[r] EXCEPT !.pc = "auth"].pc = "auth"
    BY DEF RateInv, RateTypes, Claims, GatePcs
  <2>2. Ra!Idle \in Claims /\ Ra!Idle.pc = "idle"
    BY DEF Ra!Idle, Claims, GatePcs
  <2>3. CASE req' = [req EXCEPT ![r].pc = "auth"]
    BY <2>1, <2>3
  <2>4. CASE req' = [req EXCEPT ![r] = Ra!Idle]
    BY <2>2, <2>4
  <2> QED BY <2>3, <2>4 DEF Ra!PerIP
<1>4. /\ req' \in [Requests -> Claims] /\ req'[r].pc \notin {"create", "allow"}
      /\ \A o \in Requests : o # r => req'[o] = req[o]
  BY <1>3, ClaimMoves DEF RateInv
<1>5. Creating' = Creating /\ Stale' = Stale \ {r}
  BY <1>1, <1>4 DEF Creating, Stale
<1>6. Cardinality(Stale') = IF r \in Stale THEN Cardinality(Stale) - 1 ELSE Cardinality(Stale)
  BY <1>2, <1>5, FS_RemoveElement
<1>7. r \in Stale <=> l # limiter
  BY <1>1 DEF Stale
<1>8. CASE UNCHANGED <<bucket, admitted>>
  <2>1. RateTypes' /\ Made' = Made
    BY <1>1, <1>4, <1>8 DEF RateInv, RateTypes, Made
  <2>2. sweep' => limiter # 0
    BY <1>1 DEF RateInv
  <2>3. Cardinality(Creating') <= Cardinality(Creating) /\ Cardinality(Stale') <= Cardinality(Stale)
    BY <1>2, <1>5, <1>6
  <2> QED BY <1>1, <1>2, <1>8, <2>1, <2>2, <2>3, CountsMeet
<1>9. CASE bucket[l] > 0 /\ bucket' = [bucket EXCEPT ![l] = @ - 1] /\ admitted' = admitted + 1
  <2>1. DOMAIN bucket' = DOMAIN bucket /\ bucket' \in [1 .. Made -> 0 .. Burst]
    BY <1>1, <1>9, GateAssumption DEF RateInv, RateTypes
  <2>2. RateTypes' /\ Made' = Made
    <3>1. Made' = Made
      BY <2>1 DEF Made
    <3>2. admitted' \in Nat
      BY <1>2, <1>9
    <3> QED BY <1>1, <1>4, <2>1, <3>1, <3>2 DEF RateInv, RateTypes
  <2>3. limiter # 0 => bucket'[limiter] = IF l = limiter THEN bucket[limiter] - 1 ELSE bucket[limiter]
    BY <1>1, <1>9 DEF RateInv, RateTypes
  <2>4. limiter = 0 => l # limiter
    BY <1>1
  <2>5. sweep' => limiter # 0
    BY <1>1 DEF RateInv
  <2>6. Cardinality(Creating') <= Cardinality(Creating)
    BY <1>2, <1>5
  <2>7. limiter = 0 => admitted' + Cardinality(Stale') - ticks' <= admitted + Cardinality(Stale) - ticks
    BY <1>1, <1>2, <1>6, <1>7, <1>9, <2>4
  <2>8. limiter # 0 => admitted' + bucket'[limiter] + Cardinality(Stale') - ticks'
                          <= admitted + bucket[limiter] + Cardinality(Stale) - ticks
    BY <1>1, <1>2, <1>6, <1>7, <1>9, <2>3
  <2> QED BY <1>1, <2>2, <2>5, <2>6, <2>7, <2>8, CountsKept
<1> QED BY <1>8, <1>9 DEF Ra!PerIP

\* The steps of a request after the limiter, and the changes of settings and tokens.
LEMMA LaterKeepsRate ==
  ASSUME RateInv, req' \in [Requests -> Claims],
         UNCHANGED <<limiter, bucket, sweep, admitted, ticks, cleaned, renewed>>, turns' \in Nat,
         \A o \in Requests : \/ req'[o].pc = req[o].pc /\ req'[o].lim = req[o].lim
                             \/ {req[o].pc, req'[o].pc} \cap {"create", "allow"} = {}
  PROVE  RateInv'
<1>1. RateTypes' /\ Made' = Made
  BY DEF RateInv, RateTypes, Made
<1>2. Creating' = Creating /\ Stale' = Stale
  BY DEF Creating, Stale
<1>3. Cardinality(Stale) \in Nat /\ Cardinality(Creating) \in Nat
      /\ admitted \in Nat /\ ticks \in Nat /\ (limiter # 0 => bucket[limiter] \in Nat)
  BY SomeRequests, GateAssumption DEF Stale, Creating, RateInv, RateTypes
<1>4. (sweep' => limiter # 0) /\ Cardinality(Creating') <= Cardinality(Creating)
      /\ Cardinality(Stale') <= Cardinality(Stale)
  BY <1>2, <1>3 DEF RateInv
<1> QED BY <1>1, <1>3, <1>4, CountsMeet

\* A tick puts a token into every limiter that has room, stored or not.
LEMMA TickKeepsRate == ASSUME RateInv, Ra!Tick PROVE RateInv'
<1>1. /\ ticks' = ticks + 1 /\ UNCHANGED <<limiter, sweep, req, admitted, cleaned, turns, renewed>>
      /\ bucket' = [l \in DOMAIN bucket |-> IF bucket[l] < Burst THEN bucket[l] + 1 ELSE Burst]
  BY DEF Ra!Tick, Ra!rates
<1>2. DOMAIN bucket' = DOMAIN bucket /\ bucket' \in [1 .. Made -> 0 .. Burst]
  BY <1>1, GateAssumption DEF RateInv, RateTypes
<1>3. RateTypes' /\ Made' = Made
  BY <1>1, <1>2 DEF RateInv, RateTypes, Made
<1>4. Creating' = Creating /\ Stale' = Stale
  BY <1>1 DEF Creating, Stale
<1>5. limiter # 0 => bucket'[limiter] <= bucket[limiter] + 1 /\ bucket'[limiter] \in Nat
  BY <1>1, <1>2, GateAssumption DEF RateInv, RateTypes
<1>6. Cardinality(Stale) \in Nat /\ Cardinality(Creating) \in Nat
      /\ admitted \in Nat /\ ticks \in Nat /\ (limiter # 0 => bucket[limiter] \in Nat)
  BY SomeRequests, GateAssumption DEF Stale, Creating, RateInv, RateTypes
<1>7. (sweep' => limiter # 0) /\ Cardinality(Creating') <= Cardinality(Creating)
  BY <1>1, <1>4, <1>6 DEF RateInv
<1>8. limiter = 0 => admitted' + Cardinality(Stale') - ticks' <= admitted + Cardinality(Stale) - ticks
  BY <1>1, <1>4, <1>6
<1>9. limiter # 0 => admitted' + bucket'[limiter] + Cardinality(Stale') - ticks'
                        <= admitted + bucket[limiter] + Cardinality(Stale) - ticks
  BY <1>1, <1>4, <1>5, <1>6
<1> QED BY <1>1, <1>3, <1>7, <1>8, <1>9, CountsKept

\* A sweep takes the stored limiter from whoever holds it.
LEMMA SweepKeepsRate == ASSUME RateInv, Ra!CleanupDeletes PROVE RateInv'
<1>1. /\ limiter # 0 /\ limiter' = 0 /\ ~sweep' /\ cleaned' = cleaned + 1
      /\ UNCHANGED <<bucket, req, admitted, ticks, turns, renewed>>
  BY DEF Ra!CleanupDeletes, Ra!rates, RateInv
<1>2. RateTypes' /\ Made' = Made
  BY <1>1 DEF RateInv, RateTypes, Made
<1>3. /\ Cardinality(Stale) \in Nat /\ Cardinality(Stale') \in Nat /\ Cardinality(Stale') <= Flying
      /\ Cardinality(Creating) \in Nat /\ Flying \in Nat /\ Flying' = Flying
  BY SomeRequests DEF Stale, Creating, Flying
<1>4. PICK m \in Nat : m = (1 + cleaned) * Flying
  BY <1>3, OneMore DEF RateInv, RateTypes
<1>5. (1 + cleaned') * Flying = m + Flying
  BY <1>1, <1>3, <1>4, OneMore DEF RateInv, RateTypes
<1>6. PICK k \in Nat : k = Made * (Burst + Flying)
  BY <1>3, OneMore, GateAssumption DEF RateInv, RateTypes
<1>7. admitted \in Nat /\ ticks \in Nat /\ Made \in Nat /\ bucket[limiter] \in Nat
  BY <1>1, GateAssumption DEF RateInv, RateTypes
<1>8. Made' + Flying' <= Room'
  <2>1. Made <= m + renewed /\ renewed \in Nat
    <3>1. Made + Cardinality(Creating) <= m + renewed /\ renewed \in Nat
      BY <1>1, <1>4 DEF RateInv, RateTypes, Room
    <3> QED BY <1>3, <1>7, <3>1
  <2>2. Room' = m + Flying + renewed
    BY <1>1, <1>3, <1>5 DEF Room
  <2> QED BY <1>2, <1>3, <1>7, <2>1, <2>2
<1>9. Spent(Cardinality(Stale))'
  <2>1. admitted + bucket[limiter] + Cardinality(Stale) + Flying <= ticks + k
    BY <1>1, <1>6 DEF RateInv, InUse
  <2>2. admitted + Cardinality(Stale') <= ticks + k
    BY <1>3, <1>6, <1>7, <2>1
  <2> QED BY <1>1, <1>2, <1>3, <1>6, <2>2 DEF Spent
<1> QED BY <1>1, <1>2, <1>8, <1>9 DEF RateInv

\* Every step keeps the account of what has been admitted.
LEMMA RateKept == ASSUME RateInv, [Ra!Next]_(Ra!vars) PROVE RateInv'
<1>1. ASSUME NEW r \in Requests, Ra!Authenticate(r) \/ Ra!Permission(r) \/ Ra!Serve(r) PROVE RateInv'
  <2>1. /\ req[r].pc \in {"auth", "permission", "serve"}
        /\ UNCHANGED <<limiter, bucket, sweep, admitted, ticks, cleaned, renewed>> /\ turns' \in Nat
    BY <1>1 DEF Ra!Authenticate, Ra!Permission, Ra!Serve, Ra!rates, RateInv, RateTypes
  <2>2. Ra!Idle \in Claims /\ Ra!Idle.pc = "idle"
    BY DEF Ra!Idle, Claims, GatePcs
  <2>3. /\ \A k \in BOOLEAN : [req[r] EXCEPT !.pc = "permission", !.known = k] \in Claims
        /\ \A k \in BOOLEAN : [req[r] EXCEPT !.pc = "permission", !.known = k].pc = "permission"
        /\ [req[r] EXCEPT !.pc = "serve"] \in Claims /\ [req[r] EXCEPT !.pc = "serve"].pc = "serve"
    BY DEF RateInv, RateTypes, Claims, GatePcs
  <2>4. \E q \in Claims : q.pc \notin {"create", "allow"} /\ req' = [req EXCEPT ![r] = q]
    BY <1>1, <2>2, <2>3 DEF Ra!Authenticate, Ra!Permission, Ra!Serve
  <2>5. /\ req' \in [Requests -> Claims] /\ req'[r].pc \notin {"create", "allow"}
        /\ \A o \in Requests : o # r => req'[o] = req[o]
    BY <2>4, ClaimMoves DEF RateInv
  <2> QED BY <2>1, <2>5, LaterKeepsRate
<1>2. CASE Ra!Change
  <2>1. /\ UNCHANGED <<limiter, bucket, sweep, admitted, ticks, cleaned, renewed>> /\ turns' \in Nat
        /\ req' = [r \in Requests |-> IF req[r].pc = "idle" THEN req[r]
                                      ELSE Ra!Noted(req[r], authOn', token')]
    BY <1>2 DEF Ra!Change, Ra!rates, RateInv, RateTypes
  <2>2. req' \in [Requests -> Claims]
        /\ \A o \in Requests : req'[o].pc = req[o].pc /\ req'[o].lim = req[o].lim
    BY <2>1, NotedStays DEF RateInv, RateTypes
  <2> QED BY <2>1, <2>2, LaterKeepsRate
<1>3. CASE Ra!CleanupSees
  <2>1. limiter # 0 /\ UNCHANGED <<limiter, bucket, req, admitted, ticks, cleaned, turns, renewed>>
    BY <1>3 DEF Ra!CleanupSees, Ra!rates
  <2> QED BY <2>1 DEF RateInv, RateTypes, Made, Flying, Creating, Stale, Spent, InUse, Room
<1>4. CASE UNCHANGED Ra!vars
  BY <1>4 DEF Ra!vars, RateInv, RateTypes, Made, Flying, Creating, Stale, Spent, InUse, Room
<1>5. CASE Ra!ChangeRate
  <2>1. UNCHANGED <<limiter, bucket, sweep, req, admitted, ticks, cleaned, renewed>> /\ turns' \in Nat
    BY <1>5 DEF Ra!ChangeRate, RateInv, RateTypes
  <2>2. req' \in [Requests -> Claims]
    BY <2>1 DEF RateInv, RateTypes
  <2> QED BY <2>1, <2>2, LaterKeepsRate
<1> QED BY <1>1, <1>2, <1>3, <1>4, <1>5, ArriveKeepsRate, CreateKeepsRate, PerIPKeepsRate, TickKeepsRate,
           SweepKeepsRate DEF Ra!Next

\* Nothing has been admitted at first.
LEMMA RateStarts == ASSUME Ra!Init PROVE RateInv
<1>1. /\ limiter = 0 /\ bucket = << >> /\ ~sweep /\ admitted = 0 /\ ticks = 0 /\ cleaned = 0
      /\ turns = 0 /\ renewed = 0
      /\ req = [r \in Requests |-> Ra!Idle]
  BY DEF Ra!Init
<1>2. Ra!Idle \in Claims /\ Ra!Idle.pc = "idle"
  BY DEF Ra!Idle, Claims, GatePcs
<1>3. DOMAIN bucket = {} /\ Made = 0 /\ bucket \in [1 .. 0 -> 0 .. Burst]
  BY <1>1, FS_EmptySet DEF Made
<1>4. RateTypes
  BY <1>1, <1>2, <1>3 DEF RateTypes
<1>5. Stale = {} /\ Cardinality(Stale) = 0 /\ Flying \in Nat
  BY <1>1, <1>2, FS_EmptySet, SomeRequests DEF Stale
<1> QED BY <1>1, <1>3, <1>4, <1>5, GateAssumption DEF RateInv, Spent, Room

\* The account says what the races can cost.
LEMMA RatePromises == ASSUME RateInv PROVE Ra!RateHolds
<1> DEFINE K == Burst + Flying
<1>1. /\ Cardinality(Stale) \in Nat /\ Cardinality(Creating) \in Nat /\ Flying \in Nat /\ K \in Nat
      /\ Made \in Nat /\ admitted \in Nat /\ ticks \in Nat /\ cleaned \in Nat
      /\ limiter # 0 => bucket[limiter] \in Nat
  BY SomeRequests, GateAssumption DEF Stale, Creating, RateInv, RateTypes
<1>2. PICK m \in Nat : m = Room
  BY RoomIsANumber DEF RateInv
<1>3. PICK k \in Nat : k = Made * K
  BY <1>1, OneMore
<1>4. admitted <= ticks + k /\ Made <= m
  <2>1. ASSUME limiter = 0 PROVE admitted <= ticks + k /\ Made <= m
    <3>1. Made + Flying <= m /\ admitted + Cardinality(Stale) <= ticks + k
      BY <1>2, <1>3, <2>1 DEF RateInv, Spent
    <3> QED BY <1>1, <3>1
  <2>2. ASSUME limiter # 0 PROVE admitted <= ticks + k /\ Made <= m
    <3>1. /\ Made + Cardinality(Creating) <= m
          /\ admitted + bucket[limiter] + Cardinality(Stale) + Flying <= ticks + k
      BY <1>2, <1>3, <2>2 DEF RateInv, InUse
    <3> QED BY <1>1, <2>2, <3>1
  <2> QED BY <2>1, <2>2
<1>5. k <= m * K /\ m * K \in Nat
  BY <1>1, <1>2, <1>3, <1>4, FewerGiveLess, OneMore
<1>6. admitted <= ticks + ((1 + cleaned) * Flying + renewed) * K
  <2>1. admitted <= ticks + m * K
    BY <1>1, <1>3, <1>4, <1>5
  <2> QED BY <1>2, <2>1 DEF Room
<1>7. Ra!Cardinality(Requests) = Flying
  BY DEF Flying, Cardinality, Ra!Cardinality
<1> QED BY <1>6, <1>7 DEF Ra!RateHolds

-----------------------------------------------------------------------------
(* Access: no request is served on rights that were gone before it came.     *)

\* What is true of the setting and of the token has been noted of every request
\* on its way, and what a request has passed it was entitled to.
EntitledClaim(q) ==
  q.pc # "idle" =>
    /\ ~authOn \/ token.live => q.hadAuth
    /\ ~authOn \/ Ga!MayUse(token, q.route) => q.hadRight
    /\ q.pc \in {"permission", "serve"} => q.hadAuth
    /\ q.pc = "permission" /\ ~q.known => q.hadRight
    /\ q.pc = "serve" => q.hadRight

GateInv ==
  /\ req \in [GateRequests -> Claims]
  /\ limiter \in Nat /\ Made \in Nat /\ DOMAIN bucket = 1 .. Made /\ turns \in Nat
  /\ \A r \in GateRequests : EntitledClaim(req[r])

\* What is noted of a request on its way.
LEMMA NotedEntitles ==
  ASSUME NEW q \in Claims, NEW on, NEW t
  PROVE  /\ Ga!Noted(q, on, t) \in Claims
         /\ Ga!Noted(q, on, t).pc = q.pc /\ Ga!Noted(q, on, t).route = q.route
         /\ Ga!Noted(q, on, t).known = q.known
         /\ Ga!Noted(q, on, t).hadAuth <=> q.hadAuth \/ ~on \/ t.live
         /\ Ga!Noted(q, on, t).hadRight <=> q.hadRight \/ ~on \/ Ga!MayUse(t, q.route)
BY DEF Ga!Noted, Claims

\* One request moves, under the same setting and the same token.
LEMMA ClaimKept ==
  ASSUME GateInv, NEW r \in GateRequests, NEW q \in Claims, req' = [req EXCEPT ![r] = q],
         EntitledClaim(q), UNCHANGED <<limiter, bucket, authOn, token, turns>>
  PROVE  GateInv'
<1>1. /\ req' \in [GateRequests -> Claims] /\ req'[r] = q
      /\ \A o \in GateRequests : o # r => req'[o] = req[o]
  BY DEF GateInv
<1>2. \A o \in GateRequests : EntitledClaim(req'[o])
  BY <1>1 DEF GateInv
<1>4. ASSUME NEW o \in GateRequests PROVE EntitledClaim(req[o])'
  BY <1>2 DEF EntitledClaim
<1>5. Made' = Made
  BY DEF Made
<1> QED BY <1>1, <1>4, <1>5 DEF GateInv

\* A request comes with what is true at that moment.
LEMMA ArriveIsNoted ==
  ASSUME GateInv, NEW r \in GateRequests, NEW route \in Routes, Ga!Arrive(r, route) PROVE GateInv'
<1> DEFINE at == IF limiter # 0 /\ rated = Ga!rate THEN "allow" ELSE "create"
           q  == [Ga!Idle EXCEPT !.pc = at, !.route = route, !.lim = limiter, !.rate = Ga!rate]
           x  == Ga!Noted(q, authOn, token)
<1>1. req' = [req EXCEPT ![r] = x] /\ UNCHANGED <<limiter, bucket, authOn, token, turns>>
  BY DEF Ga!Arrive
<1>2. q \in Claims /\ q.pc = at /\ q.route = route
  <2>1. limiter \in Nat /\ Ga!rate \in Nat
    BY DEF GateInv, Ga!rate
  <2> QED BY <2>1 DEF Claims, GatePcs, Ga!Idle
<1>3. x \in Claims /\ EntitledClaim(x)
  <2>1. at \in {"create", "allow"}
    OBVIOUS
  <2> HIDE DEF q, at
  <2> QED BY <1>2, <2>1, NotedEntitles DEF EntitledClaim
<1> HIDE DEF x
<1> QED BY <1>1, <1>3, ClaimKept

\* The steps at the limiter leave what is noted of a request alone.
LEMMA LimiterEntitlesNone ==
  ASSUME GateInv, NEW r \in GateRequests, Ga!CreateLimiter(r) \/ Ga!PerIP(r) PROVE GateInv'
<1>1. req[r] \in Claims /\ EntitledClaim(req[r]) /\ Made \in Nat /\ UNCHANGED <<authOn, token, turns>>
  BY DEF GateInv, Ga!CreateLimiter, Ga!PerIP, Ga!rates
<1>2. Ga!Idle \in Claims /\ Ga!Idle.pc = "idle"
  BY DEF Ga!Idle, Claims, GatePcs
<1>3. /\ [req[r] EXCEPT !.pc = "allow", !.lim = Made + 1] \in Claims
      /\ [req[r] EXCEPT !.pc = "auth"] \in Claims
  <2>1. req[r] \in Claims /\ Made + 1 \in Nat
    BY <1>1
  <2> QED BY <2>1 DEF Claims, GatePcs
<1>4. req[r].pc \in {"create", "allow"}
  BY DEF Ga!CreateLimiter, Ga!PerIP
<1>5. /\ EntitledClaim([req[r] EXCEPT !.pc = "allow", !.lim = Made + 1])
      /\ EntitledClaim([req[r] EXCEPT !.pc = "auth"])
  BY <1>1, <1>4 DEF EntitledClaim, Claims
<1>6. EntitledClaim(Ga!Idle)
  BY <1>2 DEF EntitledClaim
<1>7. \E q \in Claims : EntitledClaim(q) /\ req' = [req EXCEPT ![r] = q]
  <2>1. Ga!Cardinality(DOMAIN bucket) = Made
    BY DEF Made, Cardinality, Ga!Cardinality
  <2>2. CASE Ga!CreateLimiter(r)
    <3>1. req' = [req EXCEPT ![r] = [req[r] EXCEPT !.pc = "allow", !.lim = Made + 1]]
      BY <2>1, <2>2 DEF Ga!CreateLimiter
    <3> QED BY <1>3, <1>5, <3>1
  <2>3. CASE Ga!PerIP(r)
    <3>1. \/ req' = [req EXCEPT ![r] = [req[r] EXCEPT !.pc = "auth"]]
          \/ req' = [req EXCEPT ![r] = Ga!Idle]
      BY <2>3 DEF Ga!PerIP
    <3> QED BY <1>2, <1>3, <1>5, <1>6, <3>1
  <2> QED BY <2>2, <2>3
<1>8. limiter' \in Nat /\ Made' \in Nat /\ DOMAIN bucket' = 1 .. Made'
  <2>1. Ga!Cardinality(DOMAIN bucket) = Made
    BY DEF Made, Cardinality, Ga!Cardinality
  <2>2. CASE Ga!CreateLimiter(r)
    <3>1. DOMAIN bucket' = 1 .. Made + 1 /\ limiter' = Made + 1
      BY <2>1, <2>2 DEF Ga!CreateLimiter
    <3>2. Cardinality(1 .. Made + 1) = Made + 1
      BY <1>1, FS_Interval
    <3>3. Made' = Cardinality(DOMAIN bucket')
      BY DEF Made
    <3> QED BY <1>1, <3>1, <3>2, <3>3
  <2>3. CASE Ga!PerIP(r)
    <3>1. DOMAIN bucket' = DOMAIN bucket /\ limiter' = limiter
      BY <2>3 DEF Ga!PerIP
    <3>2. Made' = Made
      BY <3>1 DEF Made
    <3> QED BY <3>1, <3>2 DEF GateInv
  <2> QED BY <2>2, <2>3
<1>9. PICK q \in Claims : EntitledClaim(q) /\ req' = [req EXCEPT ![r] = q]
  BY <1>7
<1>10. /\ req' \in [GateRequests -> Claims] /\ req'[r] = q
       /\ \A o \in GateRequests : o # r => req'[o] = req[o]
  BY <1>9 DEF GateInv
<1>11. \A o \in GateRequests : EntitledClaim(req'[o])
  BY <1>9, <1>10 DEF GateInv
<1>12. ASSUME NEW o \in GateRequests PROVE EntitledClaim(req[o])'
  BY <1>1, <1>11 DEF EntitledClaim
<1> QED BY <1>1, <1>8, <1>10, <1>12 DEF GateInv

\* A request passes authentication and the permission check on what is true now.
LEMMA PassingIsEntitled ==
  ASSUME GateInv, NEW r \in GateRequests, Ga!Authenticate(r) \/ Ga!Permission(r) \/ Ga!Serve(r)
  PROVE  GateInv'
<1> DEFINE known(k) == [req[r] EXCEPT !.pc = "permission", !.known = k]
           passed   == [req[r] EXCEPT !.pc = "serve"]
<1>1. req[r] \in Claims /\ EntitledClaim(req[r]) /\ UNCHANGED <<limiter, bucket, authOn, token, turns>>
  BY DEF GateInv, Ga!Authenticate, Ga!Permission, Ga!Serve, Ga!rates
<1>2. Ga!Idle \in Claims /\ EntitledClaim(Ga!Idle)
  BY DEF Ga!Idle, Claims, GatePcs, EntitledClaim
<1>3. CASE Ga!Authenticate(r)
  <2>1. req[r].pc = "auth"
    BY <1>3 DEF Ga!Authenticate
  <2>2. known(FALSE) \in Claims /\ known(TRUE) \in Claims
    BY <1>1 DEF Claims, GatePcs
  <2>3. ~authOn => EntitledClaim(known(FALSE))
    BY <1>1, <2>1 DEF EntitledClaim, Claims
  <2>4. token.live => EntitledClaim(known(TRUE))
    BY <1>1, <2>1 DEF EntitledClaim, Claims
  <2>5. \/ ~authOn /\ req' = [req EXCEPT ![r] = known(FALSE)]
        \/ token.live /\ req' = [req EXCEPT ![r] = known(TRUE)]
        \/ req' = [req EXCEPT ![r] = Ga!Idle]
    BY <1>3 DEF Ga!Authenticate, GateInv
  <2> HIDE DEF known
  <2> QED BY <1>1, <1>2, <2>2, <2>3, <2>4, <2>5, ClaimKept
<1>4. CASE Ga!Permission(r)
  <2>1. req[r].pc = "permission"
    BY <1>4 DEF Ga!Permission
  <2>2. passed \in Claims
    BY <1>1 DEF Claims, GatePcs
  <2>3. ~req[r].known \/ Ga!MayUse(token, req[r].route) => EntitledClaim(passed)
    BY <1>1, <2>1 DEF EntitledClaim, Claims
  <2>4. \/ (~req[r].known \/ Ga!MayUse(token, req[r].route)) /\ req' = [req EXCEPT ![r] = passed]
        \/ req' = [req EXCEPT ![r] = Ga!Idle]
    BY <1>4 DEF Ga!Permission, GateInv
  <2> HIDE DEF passed
  <2> QED BY <1>1, <1>2, <2>2, <2>3, <2>4, ClaimKept
<1>5. CASE Ga!Serve(r)
  <2>1. req' = [req EXCEPT ![r] = Ga!Idle]
    BY <1>5 DEF Ga!Serve
  <2> QED BY <1>1, <1>2, <2>1, ClaimKept
<1> QED BY <1>3, <1>4, <1>5

\* A change of setting or token is noted of every request on its way.
LEMMA ChangeIsNoted == ASSUME GateInv, Ga!Change PROVE GateInv'
<1>1. /\ req' = [r \in GateRequests |-> IF req[r].pc = "idle" THEN req[r]
                                        ELSE Ga!Noted(req[r], authOn', token')]
      /\ UNCHANGED <<limiter, bucket, turns>>
  BY DEF Ga!Change, Ga!rates
<1>2. ASSUME NEW r \in GateRequests PROVE req'[r] \in Claims /\ EntitledClaim(req[r])'
  <2>1. req[r] \in Claims /\ EntitledClaim(req[r])
    BY DEF GateInv
  <2>2. CASE req[r].pc = "idle"
    BY <1>1, <2>1, <2>2 DEF EntitledClaim
  <2>3. CASE req[r].pc # "idle"
    <3>1. req'[r] = Ga!Noted(req[r], authOn', token')
      BY <1>1, <2>3
    <3>2. /\ req'[r] \in Claims /\ req'[r].pc = req[r].pc /\ req'[r].route = req[r].route
          /\ req'[r].known = req[r].known
          /\ req'[r].hadAuth <=> req[r].hadAuth \/ ~authOn' \/ token'.live
          /\ req'[r].hadRight <=> req[r].hadRight \/ ~authOn' \/ Ga!MayUse(token', req[r].route)
      BY <2>1, <3>1, NotedEntitles
    <3>3. Ga!MayUse(token, req[r].route)' = Ga!MayUse(token', req'[r].route)
      BY DEF Ga!MayUse, Ga!RequireAdmin, Ga!RequireClusterPermission, Ga!RequirePermission,
             Ga!TokenCanAccessGameserver, Ga!HasGrantPermission
    <3> QED BY <2>1, <2>3, <3>2, <3>3 DEF EntitledClaim
  <2> QED BY <2>2, <2>3
<1>3. req' \in [GateRequests -> Claims]
  BY <1>1, <1>2
<1>4. Made' = Made
  BY <1>1 DEF Made
<1> QED BY <1>1, <1>2, <1>3, <1>4 DEF GateInv

\* Every step of the gate keeps to what requests were entitled to.
LEMMA GateKept == ASSUME GateInv, [Ga!Next]_(Ga!vars) PROVE GateInv'
<1>1. CASE Ga!Tick \/ Ga!CleanupSees \/ Ga!CleanupDeletes \/ Ga!ChangeRate \/ UNCHANGED Ga!vars
  <2>1. UNCHANGED <<req, authOn, token>> /\ DOMAIN bucket' = DOMAIN bucket
        /\ limiter' \in {0, limiter} /\ turns' \in Nat
    BY <1>1 DEF Ga!Tick, Ga!CleanupSees, Ga!CleanupDeletes, Ga!ChangeRate, Ga!rates, Ga!vars, GateInv
  <2>2. Made' = Made
    BY <2>1 DEF Made
  <2> QED BY <2>1, <2>2 DEF GateInv, EntitledClaim
<1> QED BY <1>1, ArriveIsNoted, LimiterEntitlesNone, PassingIsEntitled, ChangeIsNoted DEF Ga!Next

\* No request is on its way at first.
LEMMA GateStarts == ASSUME Ga!Init PROVE GateInv
<1>1. limiter = 0 /\ turns = 0 /\ bucket = << >> /\ req = [r \in GateRequests |-> Ga!Idle]
  BY DEF Ga!Init
<1>2. Ga!Idle \in Claims /\ Ga!Idle.pc = "idle"
  BY DEF Ga!Idle, Claims, GatePcs
<1>3. DOMAIN bucket = {} /\ Made = 0
  BY <1>1, FS_EmptySet DEF Made
<1> QED BY <1>1, <1>2, <1>3 DEF GateInv, EntitledClaim

-----------------------------------------------------------------------------
(* Access as the services put together grant it.                             *)

AccessPart ==
  /\ part = "tokens" => CodeInv
  /\ part = "tokenuse" => Tu!UseIsNoted
  /\ part = "rate" => RateInv
  /\ part = "gate" => GateInv

\* Access is what was granted: a claim code is exchanged once while its redeemers
\* take turns, no use of a token goes unnoted but one whose write failed, an
\* address is admitted no more than its ticks, the races of its first requests and
\* the limiters made anew for a changed rate allow, and no request is served on
\* rights that were gone before it came, for any number of callers and requests,
\* any bucket and any number of changes of the rate.
THEOREM AccessIsGranted == Spec => []AccessHolds
<1>1. Init => AccessPart
  <2> SUFFICES ASSUME Init PROVE AccessPart
    OBVIOUS
  <2>1. /\ part = "tokens" => Tk!Init
        /\ part = "tokenuse" => Tu!Init
        /\ part = "rate" => Ra!Init
        /\ part = "gate" => Ga!Init
    BY DEF Init
  <2>2. Tu!Init => Tu!UseIsNoted
    BY DEF Tu!Init, Tu!UseIsNoted
  <2> QED BY <2>1, <2>2, CodesStart, RateStarts, GateStarts DEF AccessPart
<1>2. AccessPart /\ [Next]_vars => AccessPart'
  <2> SUFFICES ASSUME AccessPart, [Next]_vars PROVE AccessPart'
    OBVIOUS
  <2>1. part' = part
    BY StepsOfParts
  <2>2. ASSUME part = "tokens" PROVE CodeInv'
    BY <2>2, StepsOfParts, CodesKept DEF AccessPart
  <2>3. ASSUME part = "tokenuse" PROVE Tu!UseIsNoted'
    BY <2>3, StepsOfParts, UseStaysNoted DEF AccessPart
  <2>4. ASSUME part = "rate" PROVE RateInv'
    BY <2>4, StepsOfParts, RateKept DEF AccessPart
  <2>5. ASSUME part = "gate" PROVE GateInv'
    BY <2>5, StepsOfParts, GateKept DEF AccessPart
  <2> QED BY <2>1, <2>2, <2>3, <2>4, <2>5 DEF AccessPart
<1>3. AccessPart => AccessHolds
  <2>1. GateInv => Ga!ServedIsEntitled
    BY DEF GateInv, EntitledClaim, Ga!ServedIsEntitled
  <2> QED BY <2>1, RatePromises DEF AccessPart, AccessHolds, CodeInv
<1> QED BY <1>1, <1>2, <1>3, PTL DEF Spec

-----------------------------------------------------------------------------
(* The settings: memory and table, for any number of requests that name      *)
(* different settings, any configuration file and either profile.            *)

PatchPcs ==
  {"idle", "guard_auth", "guard_bypass", "next", "set", "set_mem", "clear", "clear_mem"}
Wanted == [kind : {"native", "text", "words", "empty"}, val : 0..3]
Bodies == {<< >>} \cup UNION {[named -> Wanted] : named \in SUBSET St!Keys}
PatchRecords ==
  [pc : PatchPcs, left : SUBSET St!Keys, json : Bodies, key : St!Keys \cup {"none"}]
Held == {St!NoRow} \cup (0..3) \cup {Config[k] : k \in DOMAIN Config}

\* Requests in progress name different settings; one that has written the row of
\* a setting and not yet its memory left there what it is about to put in memory;
\* nothing is in progress while the process is down.
SettingInv ==
  /\ mem \in [St!Keys -> Held] /\ rows \in [St!Keys -> Held]
  /\ patches \in [Patches -> PatchRecords]
  /\ ~up => \A r \in Patches : patches[r].pc = "idle"
  /\ \A r, o \in Patches : r # o => DOMAIN patches[r].json \cap DOMAIN patches[o].json = {}
  /\ \A r \in Patches :
        /\ patches[r].left \subseteq DOMAIN patches[r].json
        /\ patches[r].pc \in {"set", "set_mem", "clear", "clear_mem"} =>
              patches[r].key \in DOMAIN patches[r].json
        /\ patches[r].pc = "set_mem" =>
              rows[patches[r].key] = patches[r].json[patches[r].key].val
        /\ patches[r].pc = "clear_mem" => rows[patches[r].key] = St!NoRow
  /\ St!ServedIsStored

\* A body names settings and says something of each.
LEMMA BodyNames ==
  ASSUME NEW j \in Bodies
  PROVE  /\ DOMAIN j \subseteq St!Keys
         /\ \A k \in DOMAIN j : j[k] \in Wanted /\ j[k].val \in 0..3
<1>1. CASE j = << >>
  BY <1>1
<1>2. ASSUME NEW named \in SUBSET St!Keys, j \in [named -> Wanted] PROVE DOMAIN j \subseteq St!Keys
         /\ \A k \in DOMAIN j : j[k] \in Wanted /\ j[k].val \in 0..3
  BY <1>2 DEF Wanted
<1> QED BY <1>1, <1>2 DEF Bodies

\* The defaults are settings' values.
LEMMA DefaultsAreHeld == St!DefaultsForMode \in [St!Keys -> 0..3]
BY DEF St!DefaultsForMode, St!On, St!Off, St!Keys, St!Switches, St!Range

\* What the table says is held by the memory.
LEMMA LoadIsHeld == ASSUME rows \in [St!Keys -> Held] PROVE St!Load(rows) \in [St!Keys -> Held]
BY DefaultsAreHeld DEF St!Load, Held

\* An idle request names nothing.
LEMMA IdleRequest ==
  St!Idle \in PatchRecords /\ St!Idle.pc = "idle" /\ DOMAIN St!Idle.json = {} /\ St!Idle.left = {}
BY DEF St!Idle, PatchRecords, PatchPcs, Bodies

\* A request that moves without touching table or memory, or ends.
LEMMA MoveKeeps ==
  ASSUME SettingInv, up, NEW r \in Patches, NEW c \in PatchRecords,
         patches' = [patches EXCEPT ![r] = c],
         patches[r].pc \notin {"set_mem", "clear_mem"},
         UNCHANGED <<mem, rows, unread, up>>,
         \A o \in Patches : o # r => DOMAIN c.json \cap DOMAIN patches[o].json = {},
         c.left \subseteq DOMAIN c.json,
         c.pc \notin {"set_mem", "clear_mem"},
         c.pc \in {"set", "clear"} => c.key \in DOMAIN c.json
  PROVE  SettingInv'
<1>1. patches'[r] = c /\ \A o \in Patches : o # r => patches'[o] = patches[o]
  BY DEF SettingInv
<1>2. \A k : St!Writing(k) => St!Writing(k)'
  BY <1>1 DEF St!Writing
<1>3. patches' \in [Patches -> PatchRecords]
  BY DEF SettingInv
<1>4. St!ServedIsStored'
  BY <1>2 DEF SettingInv, St!ServedIsStored, St!Load
<1> QED BY <1>1, <1>3, <1>4 DEF SettingInv

\* A request that is at some step is in progress, so the process is up.
LEMMA BusyIsUp ==
  ASSUME SettingInv, NEW r \in Patches, patches[r].pc # "idle" PROVE up
BY DEF SettingInv

\* A request that comes names settings no other request in progress names.
LEMMA ReceiveKeeps == ASSUME SettingInv, NEW r \in Patches, St!Receive(r) PROVE SettingInv'
<1>0. PICK named \in SUBSET St!Keys :
        /\ \A o \in Patches : named \cap DOMAIN patches[o].json = {}
        /\ \E json \in [named -> UNION {St!JsonOf(k) : k \in named}] :
              patches' = [patches EXCEPT ![r] =
                [pc |-> "guard_auth", left |-> named, json |-> json, key |-> "none"]]
  BY DEF St!Receive
<1>1. PICK json \in [named -> UNION {St!JsonOf(k) : k \in named}] :
           patches' = [patches EXCEPT ![r] =
             [pc |-> "guard_auth", left |-> named, json |-> json, key |-> "none"]]
  BY <1>0
<1>2. \A k \in named : json[k] \in Wanted
  BY DEF St!JsonOf, Wanted, St!Native, St!Text, St!Words, St!Empty, St!On, St!Off, St!Ports
<1>3. json \in Bodies
  BY <1>2 DEF Bodies
<1>4. PICK c \in PatchRecords :
        c = [pc |-> "guard_auth", left |-> named, json |-> json, key |-> "none"]
  BY <1>3 DEF PatchRecords, PatchPcs
<1>5. up /\ patches[r].pc = "idle" /\ UNCHANGED <<mem, rows, unread, up>>
  BY DEF St!Receive
<1>6. c.left = DOMAIN c.json /\ c.pc = "guard_auth" /\ DOMAIN c.json = named
  BY <1>4
<1>7. \A o \in Patches : o # r => DOMAIN c.json \cap DOMAIN patches[o].json = {}
  BY <1>0, <1>6
<1>8. c.left \subseteq DOMAIN c.json /\ c.pc \notin {"set", "clear", "set_mem", "clear_mem"}
  BY <1>6
<1> QED BY <1>1, <1>4, <1>5, <1>7, <1>8, MoveKeeps

\* A request that ends leaves nothing half done: it was not between row and memory.
LEMMA EndKeeps ==
  ASSUME SettingInv, NEW r \in Patches, patches[r].pc \notin {"idle", "set_mem", "clear_mem"},
         patches' = [patches EXCEPT ![r] = St!Idle], UNCHANGED <<mem, rows, unread, up>>
  PROVE  SettingInv'
BY IdleRequest, MoveKeeps, BusyIsUp

\* The guards and the choice of the next setting write nothing.
LEMMA GuardsKeep ==
  ASSUME SettingInv, NEW r \in Patches,
         St!GuardAuth(r) \/ St!GuardBypass(r) \/ St!NextSetting(r) \/ St!StoreFails(r) \/ St!Respond(r)
  PROVE  SettingInv'
<1>1. patches[r] \in PatchRecords /\ patches[r].left \subseteq DOMAIN patches[r].json
  BY DEF SettingInv
<1>2. CASE patches' = [patches EXCEPT ![r] = St!Idle]
  BY <1>2, EndKeeps DEF St!GuardAuth, St!GuardBypass, St!NextSetting, St!StoreFails, St!Respond
<1>3. ASSUME NEW p \in {"guard_bypass", "next"}, St!To(r, p),
             St!GuardAuth(r) \/ St!GuardBypass(r)
      PROVE  SettingInv'
  <2>1. PICK c \in PatchRecords : c = [patches[r] EXCEPT !.pc = p]
    BY <1>1 DEF PatchRecords, PatchPcs
  <2>2. patches' = [patches EXCEPT ![r] = c]
    BY <1>3, <2>1 DEF St!To
  <2>3. c.pc = p /\ c.left = patches[r].left /\ c.json = patches[r].json
    BY <1>1, <2>1 DEF PatchRecords
  <2>4. patches[r].pc \in {"guard_auth", "guard_bypass"} /\ UNCHANGED <<mem, rows, unread, up>>
    BY <1>3 DEF St!GuardAuth, St!GuardBypass
  <2>5. \A o \in Patches : o # r => DOMAIN c.json \cap DOMAIN patches[o].json = {}
    BY <2>3 DEF SettingInv
  <2> QED BY <1>1, <2>2, <2>3, <2>4, <2>5, MoveKeeps, BusyIsUp
<1>4. ASSUME NEW k \in patches[r].left, NEW p \in {"set", "clear"}, St!NextSetting(r),
             patches' = [patches EXCEPT ![r] =
                  [patches[r] EXCEPT !.pc = p, !.key = k, !.left = patches[r].left \ {k}]]
      PROVE  SettingInv'
  <2>0. k \in St!Keys
    BY <1>1 DEF PatchRecords
  <2>1. PICK c \in PatchRecords :
          c = [patches[r] EXCEPT !.pc = p, !.key = k, !.left = patches[r].left \ {k}]
    BY <1>1, <2>0 DEF PatchRecords, PatchPcs
  <2>2. patches' = [patches EXCEPT ![r] = c]
    BY <1>4, <2>1
  <2>3. c.pc = p /\ c.key = k /\ c.left = patches[r].left \ {k} /\ c.json = patches[r].json
    BY <1>1, <2>1 DEF PatchRecords
  <2>4. patches[r].pc = "next" /\ UNCHANGED <<mem, rows, unread, up>>
    BY <1>4 DEF St!NextSetting
  <2>5. \A o \in Patches : o # r => DOMAIN c.json \cap DOMAIN patches[o].json = {}
    BY <2>3 DEF SettingInv
  <2> QED BY <1>1, <2>2, <2>3, <2>4, <2>5, MoveKeeps, BusyIsUp
<1>5. CASE St!GuardAuth(r)
  BY <1>2, <1>3, <1>5 DEF St!GuardAuth
<1>6. CASE St!GuardBypass(r)
  BY <1>2, <1>3, <1>6 DEF St!GuardBypass
<1>7. CASE St!NextSetting(r)
  BY <1>2, <1>4, <1>7 DEF St!NextSetting
<1> QED BY <1>2, <1>5, <1>6, <1>7 DEF St!StoreFails, St!Respond

\* The row is written and nobody else is at that setting.
LEMMA WriteKeeps ==
  ASSUME SettingInv, NEW r \in Patches, St!SetSetting(r) \/ St!DeleteSetting(r)
  PROVE  SettingInv'
<1>1. PICK k \in St!Keys, p \in {"set_mem", "clear_mem"}, v \in Held :
        /\ k = patches[r].key /\ k \in DOMAIN patches[r].json
        /\ patches[r].pc \in {"set", "clear"}
        /\ rows' = [rows EXCEPT ![k] = v] /\ St!To(r, p)
        /\ p = "set_mem" => v = patches[r].json[k].val
        /\ p = "clear_mem" => v = St!NoRow
        /\ UNCHANGED <<mem, unread, up>>
  <2>1. patches[r].json \in Bodies /\ patches[r].pc \in {"set", "clear"}
        /\ patches[r].key \in DOMAIN patches[r].json
    BY DEF St!SetSetting, St!DeleteSetting, SettingInv, PatchRecords
  <2>2. patches[r].key \in St!Keys /\ patches[r].json[patches[r].key].val \in 0..3
    BY <2>1, BodyNames
  <2>3. patches[r].json[patches[r].key].val \in Held /\ St!NoRow \in Held
    BY <2>2 DEF Held
  <2> QED BY <2>1, <2>2, <2>3 DEF St!SetSetting, St!DeleteSetting
<1>2. PICK c \in PatchRecords : c = [patches[r] EXCEPT !.pc = p]
  <2>1. patches[r] \in PatchRecords
    BY DEF SettingInv
  <2> QED BY <1>1, <2>1 DEF PatchRecords, PatchPcs
<1>3. c.pc = p /\ c.key = k /\ c.json = patches[r].json /\ c.left = patches[r].left
  BY <1>1, <1>2 DEF PatchRecords, SettingInv
<1>4. patches' = [patches EXCEPT ![r] = c] /\ patches'[r] = c
      /\ patches' \in [Patches -> PatchRecords]
      /\ \A o \in Patches : o # r => patches'[o] = patches[o]
  BY <1>1, <1>2 DEF St!To, SettingInv
<1>5. rows' \in [St!Keys -> Held] /\ rows'[k] = v /\ \A l \in St!Keys : l # k => rows'[l] = rows[l]
  BY <1>1 DEF SettingInv
<1>6. \A o \in Patches : o # r /\ patches[o].pc \in {"set_mem", "clear_mem"} =>
        patches[o].key # k /\ patches[o].key \in St!Keys
  <2>1. \A o \in Patches : patches[o].json \in Bodies
    BY DEF SettingInv, PatchRecords
  <2> QED BY <1>1, <2>1, BodyNames DEF SettingInv
<1>7. St!ServedIsStored'
  <2>1. St!Writing(k)'
    BY <1>3, <1>4 DEF St!Writing
  <2>2. \A l : St!Writing(l) => St!Writing(l)'
    BY <1>1, <1>4 DEF St!Writing
  <2>3. \A l \in St!Keys : l # k => St!Load(rows')[l] = St!Load(rows)[l]
    BY <1>5 DEF St!Load
  <2> QED BY <1>1, <2>1, <2>2, <2>3 DEF St!ServedIsStored, SettingInv
<1>8. up /\ up'
  BY <1>1, BusyIsUp
<1> QED BY <1>1, <1>3, <1>4, <1>5, <1>6, <1>7, <1>8 DEF SettingInv

\* The memory follows what the row already says.
LEMMA MemoryKeeps ==
  ASSUME SettingInv, NEW r \in Patches, St!SetMemory(r) \/ St!ClearMemory(r)
  PROVE  SettingInv'
<1>0. patches[r].json \in Bodies /\ patches[r].pc \in {"set_mem", "clear_mem"}
      /\ patches[r].key \in DOMAIN patches[r].json
  BY DEF St!SetMemory, St!ClearMemory, SettingInv, PatchRecords
<1>1. PICK k \in St!Keys, v \in 0..3 :
        /\ k = patches[r].key
        /\ mem' = [mem EXCEPT ![k] = v] /\ St!To(r, "next")
        /\ v = St!Load(rows)[k]
        /\ unread' = unread \ {k} /\ UNCHANGED <<rows, up>>
  <2>2. patches[r].key \in St!Keys /\ patches[r].json[patches[r].key].val \in 0..3
    BY <1>0, BodyNames
  <2>3. St!DefaultsForMode[patches[r].key] \in 0..3
    BY <2>2, DefaultsAreHeld
  <2>4. CASE St!SetMemory(r)
    <3>1. rows[patches[r].key] = patches[r].json[patches[r].key].val
      BY <2>4 DEF St!SetMemory, SettingInv
    <3>2. rows[patches[r].key] # St!NoRow
      BY <2>2, <3>1 DEF St!NoRow
    <3>3. St!Load(rows)[patches[r].key] = rows[patches[r].key]
      BY <2>2, <3>2 DEF St!Load
    <3> QED BY <2>2, <2>4, <3>1, <3>3 DEF St!SetMemory
  <2>5. CASE St!ClearMemory(r)
    <3>1. rows[patches[r].key] = St!NoRow
      BY <2>5 DEF St!ClearMemory, SettingInv
    <3>2. St!Load(rows)[patches[r].key] = St!DefaultsForMode[patches[r].key]
      BY <2>2, <3>1 DEF St!Load
    <3> QED BY <2>2, <2>3, <2>5, <3>2 DEF St!ClearMemory
  <2> QED BY <2>4, <2>5
<1>2. PICK c \in PatchRecords : c = [patches[r] EXCEPT !.pc = "next"]
  <2>1. patches[r] \in PatchRecords
    BY DEF SettingInv
  <2> QED BY <1>1, <2>1 DEF PatchRecords, PatchPcs
<1>3. c.pc = "next" /\ c.json = patches[r].json /\ c.left = patches[r].left
  BY <1>1, <1>2 DEF PatchRecords, SettingInv
<1>4. patches' = [patches EXCEPT ![r] = c] /\ patches'[r] = c
      /\ patches' \in [Patches -> PatchRecords]
      /\ \A o \in Patches : o # r => patches'[o] = patches[o]
  BY <1>1, <1>2 DEF St!To, SettingInv
<1>5. mem' \in [St!Keys -> Held] /\ mem'[k] = v /\ \A l \in St!Keys : l # k => mem'[l] = mem[l]
  BY <1>1 DEF SettingInv, Held
<1>7. St!ServedIsStored'
  <2>1. \A l : l # k => (St!Writing(l) => St!Writing(l)')
    BY <1>1, <1>4 DEF St!Writing
  <2> QED BY <1>1, <1>5, <2>1 DEF St!ServedIsStored, SettingInv
<1>8. up /\ up'
  BY <1>0, <1>1, BusyIsUp
<1> QED BY <1>0, <1>1, <1>3, <1>4, <1>5, <1>7, <1>8 DEF SettingInv

\* After a start memory and table agree but for what the file says again, and
\* for the settings of a table that could not be read.
LEMMA BootKeeps == ASSUME SettingInv, St!Boot PROVE SettingInv'
<1>1. PICK failed \in SUBSET St!ConfigKeys, read \in BOOLEAN :
        /\ mem' = [k \in St!Keys |-> IF k \in St!ConfigKeys THEN Config[k]
                     ELSE (IF read THEN St!Load(rows) ELSE St!DefaultsForMode)[k]]
        /\ rows' = [k \in St!Keys |->
                      IF k \in St!ConfigKeys \ failed THEN Config[k] ELSE rows[k]]
        /\ unread' = IF read THEN {} ELSE St!Keys \ St!ConfigKeys
  BY DEF St!Boot
<1>2. ~up /\ up' /\ UNCHANGED patches /\ \A r \in Patches : patches[r].pc = "idle"
  BY DEF St!Boot, SettingInv
<1>3. \A k \in St!ConfigKeys : Config[k] \in Held
  BY DEF St!ConfigKeys, Held
<1>4. mem' \in [St!Keys -> Held] /\ rows' \in [St!Keys -> Held]
  <2>1. /\ St!DefaultsForMode \in [St!Keys -> Held] /\ St!Load(rows) \in [St!Keys -> Held]
        /\ rows \in [St!Keys -> Held]
    BY DefaultsAreHeld, LoadIsHeld DEF SettingInv, Held
  <2> QED BY <1>1, <1>3, <2>1
<1>5. ASSUME NEW k \in St!Keys, k \notin St!ConfigKeys
      PROVE  mem'[k] = St!Load(rows')[k] \/ (k \in unread' /\ mem'[k] = St!DefaultsForMode[k])
  <2>1. CASE read
    BY <1>1, <1>5, <2>1 DEF St!Load
  <2>2. CASE ~read
    BY <1>1, <1>5, <2>2
  <2> QED BY <2>1, <2>2
<1>6. St!ServedIsStored'
  BY <1>1, <1>5 DEF St!ServedIsStored
<1> QED BY <1>2, <1>4, <1>6 DEF SettingInv

\* Every step of the settings keeps memory and table in step.
LEMMA SettingStep == ASSUME SettingInv, [St!Next]_(St!vars) PROVE SettingInv'
<1>1. CASE St!Die
  <2>1. patches' = [r \in Patches |-> St!Idle] /\ ~up' /\ UNCHANGED <<mem, rows>>
    BY <1>1 DEF St!Die
  <2> QED BY <2>1, IdleRequest DEF SettingInv, St!ServedIsStored
<1>2. CASE St!ChangeAdmins \/ UNCHANGED St!vars
  <2>1. UNCHANGED <<mem, rows, unread, patches, up>>
    BY <1>2 DEF St!ChangeAdmins, St!vars
  <2> QED BY <2>1 DEF SettingInv, St!ServedIsStored, St!Writing, St!Load
<1> QED BY <1>1, <1>2, BootKeeps, ReceiveKeeps, GuardsKeep, WriteKeeps, MemoryKeeps
        DEF St!Next, St!Step

\* At first there are the defaults and no process.
LEMMA SettingsStart == ASSUME St!Init PROVE SettingInv
<1>1. St!DefaultsForMode \in [St!Keys -> Held]
  BY DefaultsAreHeld DEF Held
<1> QED BY <1>1, IdleRequest DEF St!Init, SettingInv, St!ServedIsStored, Held

-----------------------------------------------------------------------------
(* What is kept in memory: the vendors' lists, for any number of callers.    *)

ListPcs == {"idle", "lock", "fetch", "parse"}
Answers == [list : Nat, age : Nat, failed : BOOLEAN]

ListTypes ==
  /\ now \in Nat /\ release \in Nat \ {0} /\ cached \in Nat /\ stored \in Nat
  /\ pc \in [ListCallers -> ListPcs] /\ got \in [ListCallers -> Nat]
  /\ answer \in [ListCallers -> Answers]

\* The cache goes by the time it was stored at, and whoever fetches holds the
\* write lock and has found the list old since it took it.
ListInv ==
  /\ ListTypes
  /\ stored = fetched /\ stored <= now
  /\ Op!OneFetch
  /\ \A c \in ListCallers : pc[c] = "parse" => got[c] # 0

\* What a caller returns with, and that nobody else's answer changes.
LEMMA ReturnOne ==
  ASSUME ListTypes, NEW c \in ListCallers, NEW list \in Nat, NEW age \in Nat, NEW failed \in BOOLEAN,
         Op!Return(c, list, age, failed)
  PROVE  /\ answer' \in [ListCallers -> Answers] /\ pc' \in [ListCallers -> ListPcs]
         /\ answer'[c].list = list /\ answer'[c].age = age /\ answer'[c].failed = failed
         /\ pc'[c] = "idle"
         /\ \A d \in ListCallers : d # c => answer'[d] = answer[d] /\ pc'[d] = pc[d]
<1>1. PICK a \in Answers : a = [list |-> list, age |-> age, failed |-> failed]
  BY DEF Answers
<1>2. answer' = [answer EXCEPT ![c] = a] /\ pc' = [pc EXCEPT ![c] = "idle"]
  BY <1>1 DEF Op!Return
<1> QED BY <1>1, <1>2 DEF ListTypes, ListPcs

\* The old list is returned only by a caller whose own fetch failed.
LEMMA ListStep ==
  ASSUME ListInv, [Op!Next]_(Op!vars) PROVE ListInv' /\ Op!OldOnlyOnFailure
<1> USE DEF Op!OneFetch, Op!Fresh, Op!OldOnlyOnFailure
<1>0. TTL \in Nat /\ TTL > 0
  BY ListAssumption
<1>1. CASE Op!Tick
  <2>1. release' \in Nat \ {0} /\ now' = now + 1
        /\ UNCHANGED <<cached, fetched, stored, writer, pc, got, answer, calls, faults>>
    BY <1>1 DEF Op!Tick, ListInv, ListTypes
  <2> QED BY <1>0, <2>1 DEF ListInv, ListTypes
<1>2. ASSUME NEW c \in ListCallers, Op!Call(c) \/ Op!Lock(c) PROVE ListInv' /\ Op!OldOnlyOnFailure
  <2>1. /\ writer = {} /\ UNCHANGED <<now, release, cached, fetched, stored, got>>
    BY <1>2 DEF Op!Call, Op!Lock
  <2>2. \A d \in ListCallers : pc[d] \notin {"fetch", "parse"}
    BY <2>1 DEF ListInv
  <2>3. CASE Op!Fresh /\ Op!Return(c, cached, now - stored, FALSE) /\ writer' = {}
    <3>1. now - stored \in Nat /\ now - stored < TTL /\ cached \in Nat /\ cached # 0
      BY <1>0, <2>3 DEF ListInv, ListTypes
    <3>2. PICK age \in Nat : age = now - stored
      BY <3>1
    <3>3. /\ answer' \in [ListCallers -> Answers] /\ pc' \in [ListCallers -> ListPcs]
          /\ answer'[c].list = cached /\ answer'[c].age = age
          /\ pc'[c] = "idle"
          /\ \A d \in ListCallers : d # c => answer'[d] = answer[d] /\ pc'[d] = pc[d]
      BY <2>3, <3>1, <3>2, ReturnOne DEF ListInv
    <3>4. ListInv'
      BY <2>1, <2>2, <2>3, <3>3 DEF ListInv, ListTypes
    <3>5. Op!OldOnlyOnFailure
      BY <1>0, <2>1, <3>1, <3>2, <3>3
    <3> QED BY <3>4, <3>5
  <2>4. CASE pc' = [pc EXCEPT ![c] = "lock"] /\ UNCHANGED <<answer, writer>>
    BY <2>1, <2>2, <2>4 DEF ListInv, ListTypes, ListPcs
  <2>5. CASE /\ ~Op!Fresh /\ writer' = {c} /\ pc' = [pc EXCEPT ![c] = "fetch"] /\ UNCHANGED answer
    BY <2>1, <2>2, <2>5 DEF ListInv, ListTypes, ListPcs
  <2> QED BY <1>2, <2>1, <2>3, <2>4, <2>5 DEF Op!Call, Op!Lock
<1>3. ASSUME NEW c \in ListCallers, Op!Fetch(c) PROVE ListInv' /\ Op!OldOnlyOnFailure
  <2>1. /\ pc[c] = "fetch" /\ pc' = [pc EXCEPT ![c] = "parse"] /\ got' = [got EXCEPT ![c] = release]
        /\ UNCHANGED <<now, release, cached, fetched, stored, writer, answer>>
    BY <1>3 DEF Op!Fetch
  <2> QED BY <2>1 DEF ListInv, ListTypes, ListPcs
<1>4. ASSUME NEW c \in ListCallers, Op!Fails(c) PROVE ListInv' /\ Op!OldOnlyOnFailure
  <2>1. /\ pc[c] \in {"fetch", "parse"} /\ writer' = {} /\ got' = [got EXCEPT ![c] = 0]
        /\ Op!Return(c, cached, now - stored, TRUE)
        /\ UNCHANGED <<now, release, cached, fetched, stored>>
    BY <1>4 DEF Op!Fails
  <2>2. \A d \in ListCallers : d # c => pc[d] \notin {"fetch", "parse"}
    BY <2>1 DEF ListInv
  <2>3. PICK age \in Nat : age = now - stored
    <3>1. now - stored \in Nat
      BY DEF ListInv, ListTypes
    <3> QED BY <3>1
  <2>4. /\ answer' \in [ListCallers -> Answers] /\ pc' \in [ListCallers -> ListPcs]
        /\ answer'[c].list = cached /\ answer'[c].failed = TRUE
        /\ pc'[c] = "idle"
        /\ \A d \in ListCallers : d # c => answer'[d] = answer[d] /\ pc'[d] = pc[d]
    BY <2>1, <2>3, ReturnOne DEF ListInv, ListTypes
  <2> QED BY <2>1, <2>2, <2>4 DEF ListInv, ListTypes
<1>5. ASSUME NEW c \in ListCallers, Op!Parse(c) PROVE ListInv' /\ Op!OldOnlyOnFailure
  <2>1. /\ pc[c] = "parse" /\ writer' = {} /\ got' = [got EXCEPT ![c] = 0]
        /\ cached' = got[c] /\ fetched' = now /\ stored' = now
        /\ Op!Return(c, got[c], 0, FALSE)
        /\ UNCHANGED <<now, release>>
    BY <1>5 DEF Op!Parse
  <2>2. \A d \in ListCallers : d # c => pc[d] \notin {"fetch", "parse"}
    BY <2>1 DEF ListInv
  <2>3. got[c] \in Nat /\ got[c] # 0 /\ got' \in [ListCallers -> Nat]
    BY <2>1 DEF ListInv, ListTypes
  <2>4. /\ answer' \in [ListCallers -> Answers] /\ pc' \in [ListCallers -> ListPcs]
        /\ answer'[c].list = got[c] /\ answer'[c].age = 0
        /\ pc'[c] = "idle"
        /\ \A d \in ListCallers : d # c => answer'[d] = answer[d] /\ pc'[d] = pc[d]
    BY <2>1, <2>3, ReturnOne DEF ListInv
  <2>5. ListInv'
    BY <2>1, <2>2, <2>3, <2>4 DEF ListInv, ListTypes
  <2>6. Op!OldOnlyOnFailure
    BY <1>0, <2>1, <2>3, <2>4
  <2> QED BY <2>5, <2>6
<1>6. CASE UNCHANGED Op!vars
  BY <1>6 DEF Op!vars, ListInv, ListTypes
<1> QED BY <1>1, <1>2, <1>3, <1>4, <1>5, <1>6 DEF Op!Next

\* Nothing has been fetched at first.
LEMMA ListStarts == ASSUME Op!Init PROVE ListInv
<1>1. Op!NoAnswer \in Answers
  BY DEF Op!NoAnswer, Answers
<1> QED BY <1>1 DEF Op!Init, ListInv, ListTypes, ListPcs, Op!OneFetch

-----------------------------------------------------------------------------
(* What is kept in memory, and whoever waits for an answer.                  *)

KeptPart ==
  /\ part = "settings" => SettingInv
  /\ part = "options" => ListInv

\* What is kept in memory is what is stored: a setting nobody is writing is served
\* as a restart would load it, whichever writes fail and however requests are
\* refused half way, and as its default only where a start could not read the
\* table and nobody has written it since; a vendor's list is fetched by one caller
\* at a time, and an old list or an error is returned only by a call whose own
\* fetch failed, for any number of requests and callers, any configuration file
\* and any lifetime of a list.
THEOREM CachesKeepUp == Spec => CachesAgree
<1>1. Init => KeptPart
  <2> SUFFICES ASSUME Init PROVE KeptPart
    OBVIOUS
  <2>1. /\ part = "settings" => St!Init
        /\ part = "options" => Op!Init
    BY DEF Init
  <2> QED BY <2>1, SettingsStart, ListStarts DEF KeptPart
<1>2. KeptPart /\ [Next]_vars => KeptPart'
  <2> SUFFICES ASSUME KeptPart, [Next]_vars PROVE KeptPart'
    OBVIOUS
  <2>1. part' = part
    BY StepsOfParts
  <2>2. ASSUME part = "settings" PROVE SettingInv'
    BY <2>2, StepsOfParts, SettingStep DEF KeptPart
  <2>3. ASSUME part = "options" PROVE ListInv'
    BY <2>3, StepsOfParts, ListStep DEF KeptPart
  <2> QED BY <2>1, <2>2, <2>3 DEF KeptPart
<1>3. KeptPart => (part = "settings" => St!ServedIsStored)
  BY DEF KeptPart, SettingInv
<1>4. KeptPart => (part = "options" => Op!OneFetch)
  BY DEF KeptPart, ListInv
<1>5. KeptPart /\ [Next]_vars => [part = "options" => Op!OldOnlyOnFailure]_vars
  <2> SUFFICES ASSUME KeptPart, [Next]_vars, part = "options" PROVE Op!OldOnlyOnFailure
    OBVIOUS
  <2> QED BY StepsOfParts, ListStep DEF KeptPart
<1> QED BY <1>1, <1>2, <1>3, <1>4, <1>5, PTL DEF Spec, CachesAgree
=============================================================================
