------------------------------ MODULE Catalogue ------------------------------
(***************************************************************************)
(* The games catalogue (games/store.go).  Controller and worker each load  *)
(* the games built into the program and those of their own data directory  *)
(* when they start, and never look again.  A gameserver is created under a *)
(* name, which may be an alias that several games claim; its record keeps  *)
(* a game id, and every start looks the game up at the controller and      *)
(* writes its scripts at the worker.                                       *)
(***************************************************************************)
EXTENDS Naturals, FiniteSets, Functions, TLC

CONSTANTS
    Games,      \* game ids
    Aliases,    \* alternative names
    Embedded,   \* [Games -> SUBSET Aliases]: the games of the binary
    Files,      \* ["embedded" |-> set, "local" |-> set]: scripts of a game
    MaxEdits,   \* bound: edits of a games directory
    MaxBoots,   \* bound: starts of a process
    MaxFaults   \* bound: failed writes

None == "none"
Procs == {"controller", "worker"}

(* What the directory of a game may hold: game.yaml with an instance        *)
(* section and aliases, or one that only describes how to query the game.   *)
Defs == [instance : BOOLEAN, aliases : SUBSET Aliases]

VARIABLES
    local,    \* [Procs -> partial function Games -> Defs]: data dir/games
    games,    \* [Procs -> partial function Games -> [from, aliases]]
    aliases,  \* [Procs -> partial function Aliases -> Games]
    row,      \* the gameserver's game_id, or None
    made,     \* the game its creation validated and placed, or None
    scripts,  \* the gameserver's script directory: file -> <<game, from>>
    ran,      \* <<game of the controller, script directory>> of the last start
    edits, boots, faults

vars == <<local, games, aliases, row, made, scripts, ran, edits, boots, faults>>

Empty == [x \in {} |-> x]

(* loadGamesFromFS, twice: a local game replaces the embedded one with the  *)
(* same id; a definition without an instance section is skipped, so it does *)
(* not hide the embedded one.                                               *)
Loaded(dir) ==
    LET over == {g \in DOMAIN dir : dir[g].instance}
    IN  [g \in Games \cap (DOMAIN Embedded \cup over) |->
            IF g \in over THEN [from |-> "local", aliases |-> dir[g].aliases]
                          ELSE [from |-> "embedded", aliases |-> Embedded[g]]]

(* The alias map is built in the random order of a Go map, and the first    *)
(* claimant of an alias keeps it.                                           *)
AliasMaps(loaded) ==
    LET claimed == UNION {loaded[g].aliases : g \in DOMAIN loaded}
    IN  {f \in [claimed -> DOMAIN loaded] : \A a \in claimed : a \in loaded[f[a]].aliases}

GetGame(p, name) ==
    IF name \in DOMAIN games[p] THEN name
    ELSE IF name \in DOMAIN aliases[p] THEN aliases[p][name] ELSE None

ResolveGameID(p, name) ==
    IF GetGame(p, name) = None THEN name ELSE GetGame(p, name)

Init ==
    /\ local = [p \in Procs |-> Empty]
    /\ games = [p \in Procs |-> Loaded(Empty)]
    /\ \E c, w \in AliasMaps(Loaded(Empty)) :
            aliases = [p \in Procs |-> IF p = "controller" THEN c ELSE w]
    /\ row = None /\ made = None /\ scripts = Empty /\ ran = None
    /\ edits = 0 /\ boots = 0 /\ faults = 0

(* The operator edits the games directory of one machine. *)
Edit(p) ==
    /\ edits < MaxEdits
    /\ \E g \in Games :
        \/ \E d \in Defs : local' = [local EXCEPT ![p] = (g :> d) @@ @]
        \/ /\ g \in DOMAIN local[p]
           /\ local' = [local EXCEPT ![p] = Restrict(@, DOMAIN @ \ {g})]
    /\ edits' = edits + 1
    /\ UNCHANGED <<games, aliases, row, made, scripts, ran, boots, faults>>

(* NewGameStore, when a process starts. *)
NewGameStore(p) ==
    /\ boots < MaxBoots
    /\ games' = [games EXCEPT ![p] = Loaded(local[p])]
    /\ \E f \in AliasMaps(Loaded(local[p])) : aliases' = [aliases EXCEPT ![p] = f]
    /\ boots' = boots + 1
    /\ UNCHANGED <<local, row, made, scripts, ran, edits, faults>>

(* Mutant of Create: the record keeps the name the caller gave. *)
CreateAsNamed(name) ==
    /\ row = None
    /\ GetGame("controller", name) # None
    /\ row' = name
    /\ made' = GetGame("controller", name)
    /\ UNCHANGED <<local, games, aliases, scripts, ran, edits, boots, faults>>

(* Manager.Create: the alias is resolved before the record is written. *)
Create(name) ==
    /\ row = None
    /\ GetGame("controller", ResolveGameID("controller", name)) # None
    /\ row' = ResolveGameID("controller", name)
    /\ made' = GetGame("controller", row')
    /\ UNCHANGED <<local, games, aliases, scripts, ran, edits, boots, faults>>

(* The directory of a game is found the way the game is. *)
GetGameFS(p, name) == GetGame(p, name)

(* ExtractScripts: the files of the game are written over what the          *)
(* directory holds; nothing is removed.                                     *)
ExtractScripts(g, fs) == [x \in fs |-> <<g, games["worker"][g].from>>] @@ scripts

(* PrepareGameScripts at the worker. *)
PrepareGameScripts(g, fs) == scripts' = ExtractScripts(g, fs)

(* executeStart or executeUpdateGame: GetGame at the controller, then the   *)
(* worker extracts the scripts of the same id.                              *)
Start ==
    /\ row # None
    /\ LET g == GetGame("controller", row)
           w == GetGameFS("worker", row)
       IN  /\ g # None /\ w # None
           /\ PrepareGameScripts(w, Files[games["worker"][w].from])
           /\ ran' = <<g, scripts'>>
    /\ UNCHANGED <<local, games, aliases, row, made, edits, boots, faults>>

(* A write fails: some files are new, the operation ends with an error. *)
StartFails ==
    /\ row # None /\ faults < MaxFaults
    /\ GetGame("controller", row) # None
    /\ LET w == GetGameFS("worker", row)
       IN  /\ w # None
           /\ \E fs \in SUBSET Files[games["worker"][w].from] :
                    PrepareGameScripts(w, fs)
    /\ faults' = faults + 1
    /\ UNCHANGED <<local, games, aliases, row, made, ran, edits, boots>>

(* Delete; the next gameserver has an id, and so a directory, of its own. *)
Delete ==
    /\ row # None
    /\ row' = None /\ made' = None /\ scripts' = Empty /\ ran' = None
    /\ UNCHANGED <<local, games, aliases, edits, boots, faults>>

Next ==
    \/ \E p \in Procs : Edit(p) \/ NewGameStore(p)
    \/ \E name \in Games \cup Aliases : Create(name)
    \/ Start \/ StartFails \/ Delete

Spec == Init /\ [][Next]_vars

TypeOK ==
    /\ \A p \in Procs : /\ DOMAIN local[p] \subseteq Games
                        /\ DOMAIN games[p] \subseteq Games
                        /\ Range(aliases[p]) \subseteq DOMAIN games[p]
    /\ row \in Games \cup {None} /\ made \in Games \cup {None}
    /\ DOMAIN scripts \subseteq Files["embedded"] \cup Files["local"]

(* A gameserver runs one game for life: whatever alias it was created       *)
(* under, whichever claimant an alias falls to after a restart and whatever *)
(* the machines' own directories say, a start uses the definition and the   *)
(* start script of the game that was shown, validated and placed when the   *)
(* gameserver was created.                                                  *)
GameIsStable ==
    ran # None => /\ ran[1] = made
                  /\ \A x \in DOMAIN ran[2] : ran[2][x][1] = made
=============================================================================
