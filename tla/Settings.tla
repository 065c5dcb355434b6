------------------------------ MODULE Settings ------------------------------
(***************************************************************************)
(* The settings service and the handler of PATCH /api/settings             *)
(* (controller/settings/settings.go, api/handler/settings.go,              *)
(* store/setting.go).                                                      *)
(*                                                                         *)
(* Every setting has a default, may have a row in the database, and is     *)
(* served from memory.  A request names several settings; the handler      *)
(* first runs its two guards over the whole request and then applies the   *)
(* settings one at a time, in the random order of a Go map, stopping at    *)
(* the first that fails.  Set stores before it touches the memory, Clear   *)
(* deletes the row before it puts back the default, and at start-up        *)
(* ApplyConfig writes the configuration file's settings into both.         *)
(*                                                                         *)
(* Two kinds of setting stand for the twenty-seven: the two switches the   *)
(* guards look at and the two ends of the port range, the only pair with   *)
(* a check across settings.  Off and On are 0 and 1; port 0 is a number    *)
(* that is no port.                                                        *)
(***************************************************************************)
EXTENDS Integers, FiniteSets

CONSTANTS
    Requests,   \* requests that may be in progress together
    Config,     \* settings of the configuration file: a function on a set of keys
    Mode,       \* "" or "business", the profile of defaults
    MayRace,    \* may two requests in progress name the same setting?
    MaxCalls,   \* bound: requests received
    MaxNamed,   \* bound: settings a request names
    MaxFaults,  \* bound: failing database statements
    MaxBoots    \* bound: starts of the process

Switches == {"auth_enabled", "localhost_bypass"}
Range == {"port_range_start", "port_range_end"}
Keys == Switches \cup Range

On == 1
Off == 0
Ports == 1..3
NoRow == -1

(* DefaultsForMode: business turns authentication on and the bypass off. *)
DefaultsForMode ==
    [k \in Keys |->
        CASE k = "auth_enabled" -> IF Mode = "business" THEN On ELSE Off
          [] k = "localhost_bypass" -> IF Mode = "business" THEN Off ELSE On
          [] k = "port_range_start" -> 1
          [] k = "port_range_end" -> 2]

(* A JSON value of a request: of the setting's own type, a string that      *)
(* coerce turns into it, a string coerce refuses or the empty string that   *)
(* clears.  coerce refuses no string for a switch.                          *)
Native(v) == [kind |-> "native", val |-> v]
Text(v) == [kind |-> "text", val |-> v]
Words == [kind |-> "words", val |-> 0]
Empty == [kind |-> "empty", val |-> 0]

JsonOf(k) ==
    IF k \in Switches
    THEN {Native(v) : v \in {Off, On}} \cup {Text(v) : v \in {Off, On}} \cup {Empty}
    ELSE {Native(v) : v \in Ports \cup {0}} \cup {Words, Empty}

Coerces(j) == j.kind /= "words"

VARIABLES
    mem,     \* SettingsService.values
    rows,    \* the settings table: a value or NoRow
    unread,  \* history: settings whose row the last start could not read, unless written since
    admins,  \* does an admin token exist?
    calls,   \* per request: where it is, what it still has to apply
    up,      \* is the process running?
    n        \* counters of the bounds

vars == <<mem, rows, unread, admins, calls, up, n>>

Idle == [pc |-> "idle", left |-> {}, json |-> <<>>, key |-> "none"]

(* What the table says over the defaults (NewSettingsServiceWithMode). *)
Load(table) ==
    [k \in Keys |-> IF table[k] = NoRow THEN DefaultsForMode[k] ELSE table[k]]

(* validateSetting: per-key rule, then the range against the memory. *)
ValidatePort(k, v) == k \in Range => v \in Ports
ValidateRange(k, v) ==
    /\ k = "port_range_start" => v <= mem["port_range_end"]
    /\ k = "port_range_end" => mem["port_range_start"] <= v
Validate(k, v) == ValidatePort(k, v) /\ ValidateRange(k, v)

(* ApplyConfig has the per-key rule only. *)
ConfigKeys == {k \in DOMAIN Config : k \in Keys /\ ValidatePort(k, Config[k])}

Init ==
    /\ rows = [k \in Keys |-> NoRow]
    /\ mem = DefaultsForMode /\ unread = {}
    /\ admins \in BOOLEAN
    /\ calls = [r \in Requests |-> Idle]
    /\ up = FALSE
    /\ n = [calls |-> 0, faults |-> 0, boots |-> 0]

Count(c) == [n EXCEPT ![c] = @ + 1]

(* Start-up: the table is read (a failing read leaves the defaults), then   *)
(* ApplyConfig puts the file's settings in memory and, where the store      *)
(* does not fail, in the table.  No request is served before it is done.    *)
Boot ==
    /\ ~up /\ n.boots < MaxBoots
    /\ \E failed \in SUBSET ConfigKeys, read \in BOOLEAN :
        LET faults == n.faults + Cardinality(failed) + IF read THEN 0 ELSE 1
            loaded == IF read THEN Load(rows) ELSE DefaultsForMode IN
        /\ faults <= MaxFaults
        /\ mem' = [k \in Keys |-> IF k \in ConfigKeys THEN Config[k] ELSE loaded[k]]
        /\ rows' = [k \in Keys |-> IF k \in ConfigKeys \ failed THEN Config[k] ELSE rows[k]]
        /\ unread' = IF read THEN {} ELSE Keys \ ConfigKeys
        /\ n' = [n EXCEPT !.boots = @ + 1, !.faults = faults]
    /\ up' = TRUE
    /\ UNCHANGED <<admins, calls>>

Die ==
    /\ up
    /\ up' = FALSE
    /\ calls' = [r \in Requests |-> Idle]
    /\ UNCHANGED <<mem, rows, unread, admins, n>>

(* A token is created or deleted, by its own handlers. *)
ChangeAdmins ==
    /\ up
    /\ admins' = ~admins
    /\ UNCHANGED <<mem, rows, unread, calls, up, n>>

To(r, pc) == calls' = [calls EXCEPT ![r].pc = pc]

(* The body is decoded: which settings, and what is said of each. *)
Receive(r) ==
    /\ up /\ calls[r].pc = "idle" /\ n.calls < MaxCalls
    /\ \E named \in SUBSET Keys :
        /\ Cardinality(named) \in 1..MaxNamed
        /\ MayRace \/ \A o \in Requests : named \cap DOMAIN calls[o].json = {}
        /\ \E json \in [named -> UNION {JsonOf(k) : k \in named}] :
            /\ \A k \in named : json[k] \in JsonOf(k)
            /\ calls' = [calls EXCEPT ![r] =
                            [pc |-> "guard_auth", left |-> named, json |-> json, key |-> "none"]]
    /\ n' = Count("calls")
    /\ UNCHANGED <<mem, rows, unread, admins, up>>

(* The guard unmarshals into a bool: a string is none, and passes. *)
Says(r, k, v) == k \in DOMAIN calls[r].json /\ calls[r].json[k] = Native(v)

GuardAuth(r) ==
    /\ calls[r].pc = "guard_auth"
    /\ IF Says(r, "auth_enabled", On) /\ ~admins
       THEN calls' = [calls EXCEPT ![r] = Idle]
       ELSE To(r, "guard_bypass")
    /\ UNCHANGED <<mem, rows, unread, admins, up, n>>

GuardBypass(r) ==
    /\ calls[r].pc = "guard_bypass"
    /\ IF Says(r, "localhost_bypass", Off) /\ mem["auth_enabled"] = Off
       THEN calls' = [calls EXCEPT ![r] = Idle]
       ELSE To(r, "next")
    /\ UNCHANGED <<mem, rows, unread, admins, up, n>>

(* The next setting of the map: refused before anything is written, or on   *)
(* its way to the store.                                                    *)
NextSetting(r) ==
    /\ calls[r].pc = "next"
    /\ \E k \in calls[r].left :
        LET j == calls[r].json[k]
            With(pc) == [calls[r] EXCEPT !.pc = pc, !.key = k, !.left = calls[r].left \ {k}] IN
        calls' = [calls EXCEPT ![r] =
            CASE j = Empty -> With("clear")
              [] j /= Empty /\ Coerces(j) /\ Validate(k, j.val) -> With("set")
              [] OTHER -> Idle]
    /\ UNCHANGED <<mem, rows, unread, admins, up, n>>

(* Set: SetSetting upserts the row. *)
SetSetting(r) ==
    /\ calls[r].pc = "set"
    /\ rows' = [rows EXCEPT ![calls[r].key] = calls[r].json[calls[r].key].val]
    /\ To(r, "set_mem")
    /\ UNCHANGED <<mem, unread, admins, up, n>>

SetMemory(r) ==
    /\ calls[r].pc = "set_mem"
    /\ mem' = [mem EXCEPT ![calls[r].key] = calls[r].json[calls[r].key].val]
    /\ unread' = unread \ {calls[r].key}
    /\ To(r, "next")
    /\ UNCHANGED <<rows, admins, up, n>>

(* Clear: DeleteSetting, then the default. *)
DeleteSetting(r) ==
    /\ calls[r].pc = "clear"
    /\ rows' = [rows EXCEPT ![calls[r].key] = NoRow]
    /\ To(r, "clear_mem")
    /\ UNCHANGED <<mem, unread, admins, up, n>>

ClearMemory(r) ==
    /\ calls[r].pc = "clear_mem"
    /\ mem' = [mem EXCEPT ![calls[r].key] = DefaultsForMode[calls[r].key]]
    /\ unread' = unread \ {calls[r].key}
    /\ To(r, "next")
    /\ UNCHANGED <<rows, admins, up, n>>

(* Mutant of StoreFails: the memory was changed before the store was asked. *)
StoreFailsLate(r) ==
    /\ calls[r].pc \in {"set", "clear"} /\ n.faults < MaxFaults
    /\ mem' = [mem EXCEPT ![calls[r].key] =
                    IF calls[r].pc = "set" THEN calls[r].json[calls[r].key].val ELSE DefaultsForMode[calls[r].key]]
    /\ calls' = [calls EXCEPT ![r] = Idle]
    /\ n' = Count("faults")
    /\ UNCHANGED <<rows, unread, admins, up>>

(* The statement fails: the request ends, what it applied before stays. *)
StoreFails(r) ==
    /\ calls[r].pc \in {"set", "clear"} /\ n.faults < MaxFaults
    /\ calls' = [calls EXCEPT ![r] = Idle]
    /\ n' = Count("faults")
    /\ UNCHANGED <<mem, rows, unread, admins, up>>

Respond(r) ==
    /\ calls[r].pc = "next" /\ calls[r].left = {}
    /\ calls' = [calls EXCEPT ![r] = Idle]
    /\ UNCHANGED <<mem, rows, unread, admins, up, n>>

Step(r) ==
    \/ Receive(r) \/ GuardAuth(r) \/ GuardBypass(r) \/ NextSetting(r)
    \/ SetSetting(r) \/ SetMemory(r) \/ DeleteSetting(r) \/ ClearMemory(r)
    \/ StoreFails(r) \/ Respond(r)

Next == Boot \/ Die \/ ChangeAdmins \/ \E r \in Requests : Step(r)

Spec == Init /\ [][Next]_vars

-----------------------------------------------------------------------------
Values == Ports \cup {Off, On}

(* The type of the state: in particular no value of the port range is ever  *)
(* outside the ports validatePort allows, in memory or in the table.        *)
TypeOK ==
    /\ mem \in [Keys -> Values] /\ rows \in [Keys -> Values \cup {NoRow}]
    /\ \A k \in Range : mem[k] \in Ports /\ rows[k] \in Ports \cup {NoRow}
    /\ admins \in BOOLEAN /\ up \in BOOLEAN
    /\ \A r \in Requests : calls[r].key \in Keys \cup {"none"} /\ calls[r].left \subseteq Keys

(* A setting no request is in the middle of writing is served as a restart  *)
(* would load it, or as the configuration file would set it again: a        *)
(* failing write, a request refused half way and requests to other          *)
(* settings leave memory and table in step (Set, Clear, ApplyConfig).  Only *)
(* a start that could not read the table serves the default instead, and    *)
(* until the setting is written again.                                      *)
Writing(k) == \E r \in Requests : calls[r].key = k /\ calls[r].pc \in {"set_mem", "clear_mem"}
ServedIsStored ==
    up => \A k \in Keys :
        \/ Writing(k)
        \/ mem[k] = Load(rows)[k]
        \/ k \in ConfigKeys /\ mem[k] = Config[k]
        \/ k \in unread /\ mem[k] = DefaultsForMode[k]

(* "Guard: don't allow enabling auth without at least one admin token".     *)
AuthNeedsAdmin == [][mem["auth_enabled"] = Off /\ mem'["auth_enabled"] = On /\ up => admins]_vars

(* "Cross-field: port_range_start must be <= port_range_end".               *)
RangeIsOrdered == up => mem["port_range_start"] <= mem["port_range_end"]
=============================================================================
