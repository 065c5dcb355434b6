----------------------------- MODULE RequestGate -----------------------------
(* What a request to the API passes before its handler: the rate limiter of    *)
(* its address, authentication and the permission check of its route           *)
(* (api/ratelimit.go, api/middleware.go).  Requests run side by side; settings *)
(* and tokens change between their steps.  All come from one address and       *)
(* present one user token; rate limiting is switched on.  A limiter is a token *)
(* bucket that a tick refills, of the size it has at the highest rate.  The    *)
(* limiters of tokens and of logins are the same code under other keys.        *)
EXTENDS Naturals, FiniteSets

CONSTANTS
  Requests,     \* requests in flight at the same time
  Routes,       \* of "admin", "create", "perm", "access"
  Burst,        \* size of the bucket
  StaleTicks,   \* idle ticks after which cleanup drops a limiter
  MaxRequests, MaxTicks, MaxChanges,
  MaxTurns      \* bound: changes of the configured rate

VARIABLES
  limiter,    \* the limiter stored under the address, 0 for none
  bucket,     \* limiter -> tokens left
  idle,       \* ticks since the stored limiter was looked up
  sweep,      \* cleanup has found the stored limiter stale
  turns,      \* changes of the configured rate
  rated,      \* the rate the stored limiter was made for
  renewed,    \* history: lookups that found a limiter made for another rate
  req,        \* request -> where it is
  authOn,     \* auth_enabled, and no localhost bypass for this address
  token,      \* the user token's row: does it exist, may it create, owner, grants
  admitted, arrived, ticks, cleaned, changes

vars == <<limiter, bucket, idle, sweep, turns, rated, renewed, req, authOn, token, admitted, arrived,
          ticks, cleaned, changes>>
rates == <<turns, rated, renewed>>

\* The setting goes back and forth between two rates.
rate == turns % 2

Idle   == [pc |-> "idle", route |-> "none", lim |-> 0, rate |-> 0, known |-> FALSE, hadAuth |-> FALSE, hadRight |-> FALSE]
Tokens == [live : BOOLEAN, canCreate : BOOLEAN, owner : BOOLEAN, granted : BOOLEAN, perms : SUBSET {"start", "stop"}]

(* HasGrantPermission: a grant without permissions holds them all. *)
HasGrantPermission(perms, p) == perms = {} \/ p \in perms

(* The rights of the user token on a route: RequireAdmin,                      *)
(* RequireClusterPermission, RequireGameserverAccess and RequirePermission.    *)
RequireAdmin(t)             == FALSE
RequireClusterPermission(t) == t.canCreate
TokenCanAccessGameserver(t) == t.owner \/ t.granted
RequirePermission(t, p)     == t.owner \/ (t.granted /\ HasGrantPermission(t.perms, p))

MayUse(t, route) ==
  CASE route = "admin"  -> RequireAdmin(t)
    [] route = "create" -> RequireClusterPermission(t)
    [] route = "access" -> TokenCanAccessGameserver(t)
    [] OTHER            -> RequirePermission(t, "start")

Init ==
  /\ limiter = 0 /\ bucket = << >> /\ idle = 0 /\ sweep = FALSE
  /\ turns = 0 /\ rated = 0 /\ renewed = 0
  /\ req = [r \in Requests |-> Idle]
  /\ authOn = TRUE
  /\ token = [live |-> TRUE, canCreate |-> FALSE, owner |-> FALSE, granted |-> TRUE, perms |-> {"start"}]
  /\ admitted = 0 /\ arrived = 0 /\ ticks = 0 /\ cleaned = 0 /\ changes = 0

(* What holds of a request's claim to be served under a setting and a token. *)
Noted(q, on, t) == [q EXCEPT !.hadAuth = @ \/ ~on \/ t.live, !.hadRight = @ \/ ~on \/ MayUse(t, q.route)]

(* A limiter is made for every request. *)
ArriveAnew(r, route) ==
  /\ req[r] = Idle /\ arrived < MaxRequests /\ arrived' = arrived + 1
  /\ req' = [req EXCEPT ![r] = Noted([Idle EXCEPT !.pc = "create", !.route = route], authOn, token)]
  /\ UNCHANGED <<limiter, bucket, idle, sweep, rates, authOn, token, admitted, ticks, cleaned, changes>>

---------------------------------------------------------------------------
(* getOrCreateLimiter: the limiter of the address is looked up; one made for   *)
(* another rate than the configured one is no use ...                          *)
Arrive(r, route) ==
  LET at == IF limiter # 0 /\ rated = rate THEN "allow" ELSE "create" IN
  /\ req[r] = Idle /\ arrived < MaxRequests /\ arrived' = arrived + 1
  /\ req' = [req EXCEPT ![r] = Noted([Idle EXCEPT !.pc = at, !.route = route, !.lim = limiter,
                                                  !.rate = rate], authOn, token)]
  /\ idle' = IF limiter = 0 THEN idle ELSE 0
  /\ renewed' = IF limiter # 0 /\ at = "create" THEN renewed + 1 ELSE renewed
  /\ UNCHANGED <<limiter, bucket, sweep, turns, rated, authOn, token, admitted, ticks, cleaned, changes>>

(* ... and a new one, which is full, is stored in its place, over one that     *)
(* another request may have stored meanwhile.                                  *)
CreateLimiter(r) ==
  LET l == Cardinality(DOMAIN bucket) + 1 IN
  /\ req[r].pc = "create"
  /\ bucket' = [i \in 1 .. l |-> IF i = l THEN Burst ELSE bucket[i]]
  /\ limiter' = l /\ rated' = req[r].rate /\ idle' = 0
  /\ req' = [req EXCEPT ![r].pc = "allow", ![r].lim = l]
  /\ UNCHANGED <<sweep, turns, renewed, authOn, token, admitted, arrived, ticks, cleaned, changes>>

(* PerIPMiddleware: Allow takes a token or the answer is 429. *)
PerIP(r) ==
  /\ req[r].pc = "allow"
  /\ IF bucket[req[r].lim] > 0
     THEN /\ bucket' = [bucket EXCEPT ![req[r].lim] = @ - 1] /\ admitted' = admitted + 1
          /\ req' = [req EXCEPT ![r].pc = "auth"]
     ELSE req' = [req EXCEPT ![r] = Idle] /\ UNCHANGED <<bucket, admitted>>
  /\ UNCHANGED <<limiter, idle, sweep, rates, authOn, token, arrived, ticks, cleaned, changes>>

(* AuthMiddleware. *)
Authenticate(r) ==
  /\ req[r].pc = "auth"
  /\ req' = [req EXCEPT ![r] = IF ~authOn THEN [@ EXCEPT !.pc = "permission", !.known = FALSE]
                               ELSE IF token.live THEN [@ EXCEPT !.pc = "permission", !.known = TRUE]
                               ELSE Idle]
  /\ UNCHANGED <<limiter, bucket, idle, sweep, rates, authOn, token, admitted, arrived, ticks, cleaned, changes>>

(* A token is enough for every route. *)
PermissionIgnoresGrants(r) ==
  /\ req[r].pc = "permission"
  /\ req' = [req EXCEPT ![r] = [@ EXCEPT !.pc = "serve"]]
  /\ UNCHANGED <<limiter, bucket, idle, sweep, rates, authOn, token, admitted, arrived, ticks, cleaned, changes>>

(* The route's Require: no token in the context lets everything through, an    *)
(* owner or a grant is looked up in the gameserver's row at this moment.       *)
Permission(r) ==
  /\ req[r].pc = "permission"
  /\ req' = [req EXCEPT ![r] = IF ~req[r].known \/ MayUse(token, req[r].route)
                               THEN [@ EXCEPT !.pc = "serve"] ELSE Idle]
  /\ UNCHANGED <<limiter, bucket, idle, sweep, rates, authOn, token, admitted, arrived, ticks, cleaned, changes>>

Serve(r) ==
  /\ req[r].pc = "serve" /\ req' = [req EXCEPT ![r] = Idle]
  /\ UNCHANGED <<limiter, bucket, idle, sweep, rates, authOn, token, admitted, arrived, ticks, cleaned, changes>>

---------------------------------------------------------------------------
(* Time and cleanup.  The bucket is full long before a limiter is stale.       *)
Tick ==
  /\ ticks < MaxTicks /\ ticks' = ticks + 1 /\ idle' = idle + 1
  /\ bucket' = [l \in DOMAIN bucket |-> IF bucket[l] < Burst THEN bucket[l] + 1 ELSE Burst]
  /\ UNCHANGED <<limiter, sweep, req, rates, authOn, token, admitted, arrived, cleaned, changes>>

CleanupSees ==
  /\ limiter # 0 /\ idle >= StaleTicks /\ ~sweep /\ sweep' = TRUE
  /\ UNCHANGED <<limiter, bucket, idle, req, rates, authOn, token, admitted, arrived, ticks, cleaned, changes>>

(* The entry is deleted by its key, whoever has used it meanwhile. *)
CleanupDeletes ==
  /\ sweep /\ sweep' = FALSE /\ limiter' = 0 /\ cleaned' = cleaned + 1
  /\ UNCHANGED <<bucket, idle, req, rates, authOn, token, admitted, arrived, ticks, changes>>

(* An administrator switches authentication, deletes the token, or changes     *)
(* the gameserver's owner or grants; deleting a token leaves its grants.       *)
Change ==
  /\ changes < MaxChanges /\ changes' = changes + 1
  /\ \/ authOn' = ~authOn /\ UNCHANGED token
     \/ token.live /\ token' = [token EXCEPT !.live = FALSE] /\ UNCHANGED authOn
     \/ \E g \in BOOLEAN, ps \in SUBSET {"start", "stop"}:
          token' = [token EXCEPT !.granted = g, !.perms = ps] /\ UNCHANGED authOn
     \/ token' = [token EXCEPT !.owner = ~@] /\ UNCHANGED authOn
  /\ req' = [r \in Requests |-> IF req[r].pc = "idle" THEN req[r] ELSE Noted(req[r], authOn', token')]
  /\ UNCHANGED <<limiter, bucket, idle, sweep, admitted, arrived, rates, ticks, cleaned>>

(* An administrator changes the configured rate. *)
ChangeRate ==
  /\ turns < MaxTurns /\ turns' = turns + 1
  /\ UNCHANGED <<limiter, bucket, idle, sweep, rated, renewed, req, authOn, token, admitted, arrived,
                 ticks, cleaned, changes>>

Next ==
  \/ \E r \in Requests: (\E route \in Routes: Arrive(r, route))
       \/ CreateLimiter(r) \/ PerIP(r) \/ Authenticate(r) \/ Permission(r) \/ Serve(r)
  \/ Tick \/ CleanupSees \/ CleanupDeletes \/ Change \/ ChangeRate

Spec == Init /\ [][Next]_vars

---------------------------------------------------------------------------
TypeOK ==
  /\ limiter \in 0 .. Cardinality(DOMAIN bucket) /\ \A l \in DOMAIN bucket: bucket[l] \in 0 .. Burst
  /\ \A r \in Requests: req[r].pc \in {"idle", "create", "allow", "auth", "permission", "serve"}
  /\ token \in Tokens /\ authOn \in BOOLEAN /\ sweep \in BOOLEAN

(* What the races of first requests, of cleanup and of a changed rate can      *)
(* cost: every request in flight that found no limiter may put a full bucket   *)
(* in the place of a used one, and so once more after each sweep, and every    *)
(* request that found a limiter made for another rate; a request that holds a  *)
(* limiter out of use still takes a token of it, which a tick may have put     *)
(* there.  Beyond that an address gets one request per tick.                   *)
RateHolds ==
  LET N == Cardinality(Requests) IN admitted <= ticks + ((1 + cleaned) * N + renewed) * (Burst + N)

(* No request is served on rights that were gone before it arrived: at some    *)
(* moment since then authentication was off or the token existed, and at some  *)
(* moment it had the right of the route.                                       *)
ServedIsEntitled == \A r \in Requests: req[r].pc = "serve" => req[r].hadAuth /\ req[r].hadRight
=============================================================================
