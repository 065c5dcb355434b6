---------------------------- MODULE OptionsCache ----------------------------
(***************************************************************************)
(* The version list behind a game's option (games/options.go): readers     *)
(* answer from the cache under a read lock while it is young, otherwise    *)
(* they queue for the write lock, look again, and fetch the manifest while *)
(* holding it.  A fetch or a parse that fails answers with the old list    *)
(* when there is one.  The callers are the API's option lists and the mods *)
(* tab (ModService.GetConfig).                                             *)
(***************************************************************************)
EXTENDS Naturals, FiniteSets

CONSTANTS
    Callers,
    TTL,        \* mojangCacheTTL, in ticks
    MaxTime,    \* bound: ticks of the clock
    MaxRelease, \* bound: releases of the vendor
    MaxFaults,  \* bound: failed fetches
    MaxCalls    \* bound: calls of a caller

VARIABLES
    now,
    release,   \* the manifest the vendor serves
    cached,    \* the manifest of the cached list, 0 for nil
    fetched,   \* the time the cache goes by
    stored,    \* when the cached list was really stored
    writer,    \* {} or the caller that holds the write lock
    pc,        \* of each caller
    got,       \* the manifest the caller's request was answered with
    answer,    \* [list, age, failed]: what the call returned
    calls, faults

vars == <<now, release, cached, fetched, stored, writer, pc, got, answer, calls, faults>>

NoAnswer == [list |-> 0, age |-> 0, failed |-> FALSE]

Fresh == cached # 0 /\ now - fetched < TTL

Init ==
    /\ now = 0 /\ release = 1 /\ cached = 0 /\ fetched = 0 /\ stored = 0 /\ writer = {}
    /\ pc = [c \in Callers |-> "idle"] /\ got = [c \in Callers |-> 0]
    /\ answer = [c \in Callers |-> NoAnswer]
    /\ calls = [c \in Callers |-> 0] /\ faults = 0

(* Time passes and the vendor releases a version. *)
Tick ==
    /\ now < MaxTime
    /\ now' = now + 1
    /\ release' \in {release, release + 1} /\ release' <= MaxRelease
    /\ UNCHANGED <<cached, fetched, stored, writer, pc, got, answer, calls, faults>>

Return(c, list, t, failed) ==
    /\ answer' = [answer EXCEPT ![c] = [list |-> list, age |-> t, failed |-> failed]]
    /\ pc' = [pc EXCEPT ![c] = "idle"]

(* The check under the read lock, which a writer excludes. *)
Call(c) ==
    /\ pc[c] = "idle" /\ writer = {} /\ calls[c] < MaxCalls
    /\ calls' = [calls EXCEPT ![c] = @ + 1]
    /\ IF Fresh
       THEN Return(c, cached, now - stored, FALSE)
       ELSE pc' = [pc EXCEPT ![c] = "lock"] /\ UNCHANGED answer
    /\ UNCHANGED <<now, release, cached, fetched, stored, writer, got, faults>>

(* Mutant of Lock: the cache is not looked at again. *)
LockUnseeing(c) ==
    /\ pc[c] = "lock" /\ writer = {}
    /\ writer' = {c} /\ pc' = [pc EXCEPT ![c] = "fetch"]
    /\ UNCHANGED <<now, release, cached, fetched, stored, got, answer, calls, faults>>

(* The write lock, and the second look. *)
Lock(c) ==
    /\ pc[c] = "lock" /\ writer = {}
    /\ IF Fresh
       THEN Return(c, cached, now - stored, FALSE) /\ UNCHANGED writer
       ELSE writer' = {c} /\ pc' = [pc EXCEPT ![c] = "fetch"] /\ UNCHANGED answer
    /\ UNCHANGED <<now, release, cached, fetched, stored, got, calls, faults>>

(* The vendor answers with the manifest of this moment. *)
Fetch(c) ==
    /\ pc[c] = "fetch"
    /\ got' = [got EXCEPT ![c] = release]
    /\ pc' = [pc EXCEPT ![c] = "parse"]
    /\ UNCHANGED <<now, release, cached, fetched, stored, writer, answer, calls, faults>>

(* Mutant of Fails: the old list counts as fetched now. *)
FailsAfresh(c) ==
    /\ pc[c] \in {"fetch", "parse"} /\ faults < MaxFaults
    /\ faults' = faults + 1 /\ writer' = {}
    /\ Return(c, cached, now - stored, TRUE)
    /\ got' = [got EXCEPT ![c] = 0] /\ fetched' = now
    /\ UNCHANGED <<now, release, cached, stored, calls>>

(* No answer, or none that parses: the old list, or an error without one. *)
Fails(c) ==
    /\ pc[c] \in {"fetch", "parse"} /\ faults < MaxFaults
    /\ faults' = faults + 1 /\ writer' = {}
    /\ Return(c, cached, now - stored, TRUE)
    /\ got' = [got EXCEPT ![c] = 0]
    /\ UNCHANGED <<now, release, cached, fetched, stored, calls>>

(* The list is built, stored and returned. *)
Parse(c) ==
    /\ pc[c] = "parse"
    /\ cached' = got[c] /\ fetched' = now /\ stored' = now /\ writer' = {}
    /\ Return(c, got[c], 0, FALSE)
    /\ got' = [got EXCEPT ![c] = 0]
    /\ UNCHANGED <<now, release, calls, faults>>

Next ==
    \/ Tick
    \/ \E c \in Callers : Call(c) \/ Lock(c) \/ Fetch(c) \/ Fails(c) \/ Parse(c)

Spec == Init /\ [][Next]_vars

TypeOK ==
    /\ now \in 0..MaxTime /\ release \in 1..MaxRelease /\ cached \in 0..MaxRelease
    /\ fetched \in 0..MaxTime /\ writer \subseteq Callers /\ Cardinality(writer) <= 1
    /\ pc \in [Callers -> {"idle", "lock", "fetch", "parse"}]

(* The vendor is asked once per expiry, however many requests find the list *)
(* old at the same moment: whoever fetches does so because there is no      *)
(* young list, up to the moment it stores its own.                          *)
OneFetch ==
    \A c \in Callers : pc[c] \in {"fetch", "parse"} => writer = {c} /\ ~Fresh

(* A list older than the TTL, or an error, is returned only by a call whose *)
(* own fetch failed, so one failure does not keep the old list alive for    *)
(* those who call after it; an error only while nothing has ever been       *)
(* fetched.                                                                 *)
OldOnlyOnFailure ==
    \A c \in Callers : answer'[c] # answer[c] =>
        /\ answer'[c].age >= TTL => answer'[c].failed
        /\ answer'[c].list = 0 => answer'[c].failed /\ cached = 0
        /\ answer'[c].list = cached'
=============================================================================
